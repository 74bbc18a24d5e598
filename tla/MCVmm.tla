--------------------------------- MODULE MCVmm ---------------------------------
(* Instances of Vmm small enough for TLC: tables of two entries, hence 16  *)
(* pages of address space, in blocks of 1, 2 and 4 pages.                  *)
EXTENDS Vmm

R(start, end, p) == [va_start |-> start, va_end |-> end, pa_start |-> p]

(* Regions that begin and end inside of blocks, that use every level, whose *)
(* physical address is aligned less than the virtual one, or not at all.   *)
LayoutsRun ==
  {<<R(0, 7, 0)>>, <<R(1, 4, 5), R(4, 9, 1)>>, <<R(2, 8, 4), R(8, 12, 2)>>,
   <<R(0, 3, 0), R(3, 8, 11)>>}

(* A variable with a page, or none, and one that the lookups find a table for. *)
HeapRun     == <<12, 15>>
SettingsRun == 12 :> {3, 6, Unmapped} @@ 15 :> {}

(* INIT_IDENTITY_MAP: a variable inside a region that blocks map. *)
LayoutsId  == {<<R(0, 8, 0)>>, <<R(0, 6, 0)>>}
HeapId     == <<5>>
SettingsId == 5 :> {5}

(* The premise of VmmMapsAsAsked (VmmProofs), which the first instance meets. *)
ASSUME RunIsApart == Layouts = LayoutsRun => LayoutsApart
===============================================================================
