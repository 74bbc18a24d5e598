-------------------------------- MODULE MCValloc -------------------------------
(* Valloc on a small heap. *)
EXTENDS Valloc

Alloc(n) == [size |-> n, alignment |-> 0]
Many(n, ty) == [size |-> n, alignment |-> ty]

SomePrograms == {{Alloc(20), Alloc(40), Alloc(128)},
                 {Many(40, 8), Many(64, 64), Alloc(48)},
                 {Many(96, 48), Many(16, 8), Alloc(64), Alloc(24)}}
===============================================================================
