------------------------------ MODULE Concretize ------------------------------
(***************************************************************************)
(* concretize_batch: choosing addresses for the variables of each run of a *)
(* batch (lib/litmus_test/litmus_test_concretization.c,                    *)
(* lib/litmus_test/concretization/), and the check that is made of them    *)
(* when they are written to (litmus_test_concretization_checker.c).        *)
(*                                                                         *)
(* An address is the 8M region it is in, its offset there, and whether it  *)
(* is the physical one: that of an identity mapped variable.  Regions are  *)
(* aligned to more than a PMD, the largest level that a test asks for.     *)
(* randn() may give anything; of all the addresses rand_idx can draw those *)
(* are tried that the constants name, and the ends of every range.         *)
(***************************************************************************)
EXTENDS VarInfo, FiniteSets

CONSTANTS
  Jobs,      \* [test, type, batch]: a test, LITMUS_CONCRETIZATION_TYPE and the
             \* number of runs in the batch
  Regions,   \* the 8M regions drawn from: not NR_REGIONS - 1, which is never
  Offsets    \* the offsets drawn from

VARIABLES
  job,       \* the batch that is concretized, with what read_var_infos made of its test
  st,        \* concretization_st_t: the var_st_t of each variable
  todo,      \* the variables (a set) concretize_random_one has yet to pick a region for
  r,         \* the run of concretize_batch, or of write_init_state
  values,    \* var->values of the runs so far: a sequence, by run
  pc

vars == <<job, st, todo, r, values, pc>>

infos   == job.infos
Names   == job.test.vars                       \* FOREACH_HEAP_VAR
HeapVar == {Names[k] : k \in DOMAIN Names}

-----------------------------------------------------------------------------
(* LEVEL_SHIFTS and LEVEL_SIZES of the levels in use.                      *)
Shift(lvl) == IF lvl = "PMD" THEN 21 ELSE 12
Size(lvl)  == IF lvl = "PMD" THEN 2097152 ELSE 4096
RegionSize == 4 * Size("PMD")

(* The tests are such as concretization is made for (VarInfo.tla).         *)
ASSUME JobsAssumption ==
  /\ \A k \in Jobs :
       LET names == {k.test.vars[n] : n \in DOMAIN k.test.vars} IN
       /\ k.test.vars \in Seq(names)
       /\ k.type \in {"RANDOM", "FIXED"} /\ k.batch \in Nat \ {0}
       /\ Concretizable(names, read_var_infos(k.test).infos)
  /\ Offsets \subseteq 0 .. RegionSize - 1

AlignDown(n, to) == n - (n % to)

(* (-v) % to, for the u64 v: 2^64 is 4 modulo 12 and 16 modulo 21.         *)
Pow64(to)      == IF to = 12 THEN 4 ELSE 16
Negative(v, to) == (Pow64(to) - v) % to

(* ALIGN_UP_TO is given a number of bits where it takes a size: it gives   *)
(* the next but one multiple of 12 or 21, or so.                           *)
ALIGN_UP_TO(v, to) == IF v % to = 0 THEN v ELSE v + Negative(v, to) + to

Least(a, b) == IF a < b THEN a ELSE b
align_down_region_idx(offs, lvl) == AlignDown(offs, Size(lvl))
align_up_region_idx(offs, lvl)   == Least(ALIGN_UP_TO(offs, Shift(lvl)), RegionSize)

(* rand_idx: what may be drawn from [start, end).                          *)
rand_offs(start, end) ==
  {AlignDown(o, 16) : o \in {start, IF start = end THEN start ELSE end - 1}
                            \cup {n \in Offsets : start <= n /\ n < end}}
rand_idx == {[reg |-> g, offs |-> o] : g \in Regions, o \in {AlignDown(n, 16) : n \in Offsets}}

(* Mutation of pin_offs: the level above the one asked for. *)
pin_offsAbove(root, lvl) == rand_offs(align_down_region_idx(root, "PMD"), align_up_region_idx(root, "PMD"))

pin_offs(root, lvl) == rand_offs(align_down_region_idx(root, lvl), align_up_region_idx(root, lvl))

PinnedTo(v) == {w \in HeapVar : w # v /\ infos[w].ty = "PINNED" /\ infos[w].pin_var = v}

-----------------------------------------------------------------------------
(* drawn is va_idx of pick_one_region or pick_pin_region, idx is partial_va *)
(* and va its va_from_region_idx.                                           *)
NothingPicked == [region |-> FALSE, offset |-> FALSE]
Picked(idx)   == [region |-> TRUE, offset |-> FALSE, drawn |-> idx, idx |-> idx]

Owners == {v \in HeapVar : var_owns_region(infos[v])}

(* The first loop leaves out the variables with an offset, which are for   *)
(* the second.                                                             *)
Sooner(v, w) ==
  \/ infos[v].offset_var = NoVar /\ infos[w].offset_var # NoVar
  \/ /\ infos[v].offset_var = NoVar <=> infos[w].offset_var = NoVar
     /\ \E k, n \in DOMAIN Names : k < n /\ Names[k] = v /\ Names[n] = w

(* reset_st, and the two loops over the variables that own a region.       *)
Reset ==
  /\ st' = [v \in HeapVar |-> NothingPicked]
  /\ todo' = Owners
  /\ pc' = "region"

Init ==
  /\ \E k \in Jobs : job = [test |-> k.test, type |-> k.type, batch |-> k.batch,
                            infos |-> read_var_infos(k.test).infos]
  /\ st = [v \in HeapVar |-> NothingPicked]
  /\ todo = Owners
  /\ r = 1
  /\ values = <<>>
  /\ pc = "region"

(* pick_one_region: a place for a variable, and for all that are pinned to *)
(* it, near the place just drawn.                                          *)
pick_one_region ==
  /\ pc = "region"
  /\ \E v \in todo :
     \E root \in rand_idx :
     \E pins \in [PinnedTo(v) -> UNION {pin_offs(root.offs, infos[w].pin_level) : w \in PinnedTo(v)}] :
       /\ \A w \in todo : ~ Sooner(w, v)
       /\ todo' = todo \ {v}
       /\ \A w \in PinnedTo(v) : pins[w] \in pin_offs(root.offs, infos[w].pin_level)
       /\ st' = [w \in HeapVar |->
                   IF w = v THEN Picked(root)
                   ELSE IF w \in PinnedTo(v) THEN Picked([reg |-> root.reg, offs |-> pins[w]])
                   ELSE st[w]]
  /\ UNCHANGED <<job, r, values, pc>>

RegionsPicked ==
  /\ pc = "region" /\ todo = {}
  /\ pc' = IF \A v \in HeapVar : st[v].region THEN "offset" ELSE "failed"
  /\ UNCHANGED <<job, st, todo, r, values>>

(* try_pick_one_offset can be done for v. *)
CanPickOffset(v) ==
  /\ ~ st[v].offset
  /\ infos[v].offset_var # NoVar => st[infos[v].offset_var].offset

OffsetFrom(v) ==
  LET size == Size(infos[v].offset_level) IN
  IF infos[v].offset_var = NoVar THEN st[v].idx.offs
  ELSE AlignDown(st[v].idx.offs, size) + (st[infos[v].offset_var].idx.offs % size)

try_pick_one_offset ==
  /\ pc = "offset"
  /\ \E v \in HeapVar :
       /\ CanPickOffset(v)
       /\ \A k, n \in DOMAIN Names : k < n /\ Names[n] = v => ~ CanPickOffset(Names[k])
       /\ st' = [st EXCEPT ![v].idx.offs = OffsetFrom(v), ![v].offset = TRUE]
  /\ UNCHANGED <<job, todo, r, values, pc>>

OffsetsPicked ==
  /\ pc = "offset" /\ \A v \in HeapVar : ~ CanPickOffset(v)
  /\ pc' = IF \A v \in HeapVar : st[v].offset THEN "validate" ELSE "failed"
  /\ UNCHANGED <<job, st, todo, r, values>>

-----------------------------------------------------------------------------
(* va_from_region_idx *)
Address(v) == [phys |-> is_backed_var(infos[v]) /\ infos[v].idmap,
               reg  |-> st[v].idx.reg,
               offs |-> st[v].idx.offs]

in_same_region(va1, va2, lvl) ==
  /\ va1.phys = va2.phys /\ va1.reg = va2.reg
  /\ va1.offs \div Size(lvl) = va2.offs \div Size(lvl)

var_owned_region_size(v) == IF infos[v].ty = "HEAP" THEN infos[v].own ELSE "PAGE"

can_virtually_alias(v, w) ==
  \/ infos[v].ty = "PINNED" /\ infos[v].pin_var = w /\ infos[v].pin_level = "VAR"
  \/ infos[w].ty = "PINNED" /\ infos[w].pin_var = v /\ infos[w].pin_level = "VAR"

overlaps_owned_regions(v, w) ==
  /\ var_owns_region(infos[v]) /\ var_owns_region(infos[w])
  /\ in_same_region(Address(v), Address(w), var_owned_region_size(w))

(* Mutation of Valid: only equal addresses are refused. *)
ValidAddresses ==
  \A v, w \in HeapVar : v # w => (Address(v) = Address(w) => can_virtually_alias(v, w))

(* validate_selection holds for every variable.                            *)
Valid ==
  \A v, w \in HeapVar : v # w =>
    /\ Address(v) = Address(w) => can_virtually_alias(v, w)
    /\ ~ overlaps_owned_regions(v, w)

(* Otherwise concretize_random_one tries again.                            *)
validate_selection ==
  /\ pc = "validate"
  /\ IF Valid
     THEN /\ values' = Append(values, [v \in HeapVar |-> Address(v)])
          /\ pc' = "compare"
          /\ UNCHANGED <<st, todo>>
     ELSE Reset /\ UNCHANGED values
  /\ UNCHANGED <<job, r>>

-----------------------------------------------------------------------------
(* SAFE_TESTDATA_PA: the same region and offset, seen as physical.          *)
PA(va) == <<va.reg, va.offs>>

Overlap(n, m) == \E v, w \in HeapVar : PA(values[n][v]) = PA(values[m][w])

(* concretize_fixed_one gives every run the addresses of the first one,    *)
(* which concretized_fixed_init has drawn.                                 *)
AnotherTry(agreed) ==
  IF job.type = "RANDOM"
  THEN Reset /\ values' = agreed
  ELSE values' = Append(agreed, values[1]) /\ UNCHANGED <<st, todo, pc>>

(* The addresses of run r must differ from those of all earlier runs of    *)
(* the batch, or another try is made; then comes the next run, or the      *)
(* initial states are written.                                             *)
concretize_batch ==
  /\ pc = "compare"
  /\ \/ /\ \E n \in 1 .. r - 1 : Overlap(r, n)
        /\ AnotherTry(SubSeq(values, 1, r - 1))
        /\ UNCHANGED r
     \/ /\ \A n \in 1 .. r - 1 : ~ Overlap(r, n)
        /\ IF r < job.batch
           THEN r' = r + 1 /\ AnotherTry(values)
           ELSE r' = 1 /\ pc' = "write" /\ UNCHANGED <<st, todo, values>>
  /\ UNCHANGED job

-----------------------------------------------------------------------------
(* concretization_postcheck of run n. *)
postcheck_no_overlap_owned(n) ==
  \A v, w \in HeapVar :
    v # w /\ infos[v].ty = "HEAP" /\ in_same_region(values[n][v], values[n][w], infos[v].own)
      => infos[w].ty = "PINNED" /\ infos[w].pin_var = v

postcheck_related_same_bits(n) ==
  \A v \in HeapVar : infos[v].offset_var # NoVar =>
    LET size == Size(infos[v].offset_level) IN
    values[n][v].offs % size = values[n][infos[v].offset_var].offs % size

postcheck_aligned(n) == \A v \in HeapVar : values[n][v].offs % 8 = 0

postcheck(n) ==
  postcheck_no_overlap_owned(n) /\ postcheck_related_same_bits(n) /\ postcheck_aligned(n)

(* write_init_state of run r: the program ends if the check fails.         *)
write_init_state ==
  /\ pc = "write"
  /\ pc' = IF ~ postcheck(r) THEN "failed" ELSE IF r < job.batch THEN "write" ELSE "done"
  /\ r' = IF postcheck(r) /\ r < job.batch THEN r + 1 ELSE r
  /\ UNCHANGED <<job, st, todo, values>>

Next ==
  \/ pick_one_region \/ RegionsPicked \/ try_pick_one_offset \/ OffsetsPicked
  \/ validate_selection \/ concretize_batch \/ write_init_state

Spec == Init /\ [][Next]_vars

-----------------------------------------------------------------------------
InPlace(va, v) == in_same_region(va[v], va[infos[v].pin_var], infos[v].pin_level)
PinnedVar == {v \in HeapVar : infos[v].ty = "PINNED"}

(* The root of v was drawn within 32 bytes of the end of the region that v *)
(* is pinned to: ALIGN_UP_TO puts the end of v's range past it.            *)
AtEdge(v) ==
  LET size == Size(infos[v].pin_level) IN
  st[infos[v].pin_var].drawn.offs % size >= size - 32

JustPicked == pc = "compare" /\ job.type = "RANDOM" /\ Len(values) = r

(* A pinned variable is in the same page, or the same 2M, as the variable  *)
(* it is pinned to, whatever offsets were imposed on both after it was     *)
(* placed (litmus_test_random_concretization.c:114-136); unless its root   *)
(* was drawn at the very end of one.  "x not same page as a" (unittests/   *)
(* tests/concretization/test_generic.c:162) fails then.                    *)
PinsHold == JustPicked => \A v \in PinnedVar : InPlace(values[r], v) \/ AtEdge(v)

(* What concretize_random_one accepts passes the check that is made when   *)
(* it is used: validate_selection, which tries again, leaves nothing for   *)
(* concretization_postcheck, which ends the program, except for a pinned   *)
(* variable that was placed outside of the region it is pinned to.         *)
PassesPostcheck ==
  pc = "failed" => \E v \in PinnedVar : ~ InPlace(values[r], v)

(* No two runs of a batch share a location, although they are initialised  *)
(* together, nor do two variables of a run: unless one is identity mapped  *)
(* and the other is not, since validate_selection compares their virtual   *)
(* addresses; no test in litmus_tests does that.  With fixed               *)
(* concretization, where runs would, only batches of one get this far: the *)
(* loop of concretize_batch does not end for larger ones.                  *)
BatchDisjoint ==
  pc \in {"write", "done"} =>
    \A n, m \in 1 .. job.batch : \A v, w \in HeapVar :
      PA(values[n][v]) = PA(values[m][w]) =>
        n = m /\ (v = w \/ can_virtually_alias(v, w) \/ values[n][v].phys # values[n][w].phys)

(* The addresses that are chosen can be used: the check at their use does  *)
(* not fail, and the runs of a batch do not disturb each other             *)
(* (litmus_test_concretization.c:202,273-292).                             *)
AcceptedIsUsable == PassesPostcheck /\ BatchDisjoint
===============================================================================
