---------------------------------- MODULE Vmm ----------------------------------
(***************************************************************************)
(* Translation tables (lib/arch/vmm/vmm.c, vmm_entries.c, vmm_tlbs.c, and  *)
(* the mapping of regions in vmm_pgtable.c:103-250).                       *)
(*                                                                         *)
(* CPU Boss builds a test pagetable: the regions of its layout one after   *)
(* the other.  Then come batches of runs, on the pagetable of the batch    *)
(* before.  As set_init_pte does, Boss maps one page for each variable;    *)
(* setup_run_data of every CPU looks up and saves the entries of the       *)
(* variables, and is free to add tables ("allow vmm_ensure_level calls in  *)
(* the per-ASID test setup", vmm_pgtable.c:423); a test changes an entry;  *)
(* and clean_run_data of every CPU puts all of them back.  Barriers        *)
(* separate these phases, for all CPUs that take part: no CPU is spare     *)
(* (Harness.tla has spare CPUs).                                           *)
(*                                                                         *)
(* Addresses count pages.  A table has Fanout entries (512 in the code).   *)
(* Of an entry only bit 0 (valid), bit 1 and the address are kept: writing *)
(* and reading the attributes are inverse to each other.  The filling of a *)
(* new table, which nobody else sees, is one step with its allocation.  A  *)
(* TLBI is one that covers the entry: tlbsync=none is not modelled.  The   *)
(* check for regions that overlap (vmm_pgtable.c:241-245) has no action:   *)
(* nothing assigns r_prev after its initialisation (:234), so that regions *)
(* are compared with zeros and the check never fails.                      *)
(***************************************************************************)
EXTENDS Integers, SequencesExt

CONSTANTS
  CPU, Boss,
  NoCPU,      \* the value of owner when _vmm_lock is free
  Fanout,     \* entries of a table
  MaxPages,   \* bound: tables that can be allocated
  Layouts,    \* the sequences of VMRegions a pagetable may be built from
  Batches,    \* bound: batches of runs
  Heap,       \* the addresses of the variables, in order
  Settings,   \* Settings[v]: the pages set_init_pte may give v, Unmapped, or
              \* none if it leaves v to the lookups
  TestPages   \* the pages a test may remap an entry to

ASSUME VmmAssumption ==
  /\ Boss \in CPU /\ NoCPU \notin CPU
  /\ Fanout \in Nat /\ Fanout > 1
  /\ MaxPages \in Nat /\ Batches \in Nat
  /\ Layouts \subseteq Seq([va_start : Nat, va_end : Nat, pa_start : Nat])
  /\ Heap \in Seq(Nat)
  /\ \A v \in ToSet(Heap) : Settings[v] \subseteq Nat \cup {-1}
  /\ TestPages \subseteq Nat

VARIABLES
  mem,      \* mem[p]: the entries of the table at page p
  next,     \* the first page that zalloc_ptable has not handed out
  owner,    \* who holds _vmm_lock
  regions,  \* the regions Boss has still to map, of which the first is begun
  va, pa, stage,  \* its va and pa, and which loop of __ptable_set_range it is in
  todo,     \* the variables it has still to map in this batch
  batch, phase,   \* the batches finished, and how far this one is
  pc, op,   \* where each CPU is, and the arguments of its call
  level, table,   \* its level, and current (vmm_ensure_level) or root (walk)
  at, new,  \* the pte and new_val of vmm_update_pte
  ptrs, descs,    \* its tt_entries and tt_descs, in the order of the lookups
  want,     \* history: the page Boss was asked to map each address to, or -1
  stale     \* history: what entries held before the last TLBI: TLBs may hold it

boss  == <<regions, va, pa, stage, todo>>
steps == <<batch, phase>>
regs  == <<level, table, at, new>>
saved == <<ptrs, descs>>
vars  == <<mem, next, owner, boss, steps, pc, op, regs, saved, want, stale>>

-----------------------------------------------------------------------------
Level   == 0 .. 3
Index   == 0 .. Fanout - 1
Page    == 0 .. MaxPages
Root    == 0
Entry   == [valid : BOOLEAN, bit1 : BOOLEAN, addr : Nat]
NoCall  == [kind |-> "none"]
NoPtr   == <<Root, 0>>
Unmapped == -1

(* LEVEL_SIZES[l], OFFS(a, l), IS_ALIGNED, ALIGN_TO *)
SIZE(l)       == <<Fanout * Fanout * Fanout, Fanout * Fanout, Fanout, 1>>[l + 1]
VA            == 0 .. Fanout * SIZE(0) - 1
OFFS(a, l)    == (a \div SIZE(l)) % Fanout
Aligned(a, l) == a % SIZE(l) = 0
AlignTo(a, l) == a - (a % SIZE(l))

(* What is mapped, and the variables, are addresses that tables translate. *)
ASSUME AddressAssumption ==
  /\ \A layout \in Layouts : \A n \in DOMAIN layout : layout[n].va_end <= Fanout * SIZE(0)
  /\ ToSet(Heap) \subseteq VA

(* Regions that do not overlap, and variables outside of them. *)
In(region, a) == region.va_start <= a /\ a < region.va_end

LayoutsApart ==
  \A layout \in Layouts :
    /\ \A n, m \in DOMAIN layout : \A a \in VA : In(layout[n], a) /\ In(layout[m], a) => n = m
    /\ \A n \in DOMAIN layout, v \in ToSet(Heap) : ~ In(layout[n], v)

(* write_desc *)
Invalid0 == [valid |-> FALSE, bit1 |-> FALSE, addr |-> 0]
TableDesc(p) == [valid |-> TRUE, bit1 |-> TRUE, addr |-> p]
BlockDesc(oa, l) == [valid |-> TRUE, bit1 |-> l = 3, addr |-> oa]

(* read_desc: bit 1 is not looked at on levels 0 and 3 *)
IsTable(e, l) == e.valid /\ (l = 0 \/ (l < 3 /\ e.bit1))
IsBlock(e, l) == e.valid /\ ~IsTable(e, l)

(* The walk of the hardware: the table it reads on each level, or -1 where *)
(* it does not get to; and the page that an address translates to, or -1.  *)
Tables(a) ==
  LET t[l \in Level] ==
        IF l = 0 THEN Root
        ELSE IF t[l - 1] = -1 THEN -1
        ELSE LET e == mem[t[l - 1]][OFFS(a, l - 1)] IN
             IF e.valid /\ e.bit1 THEN e.addr ELSE -1
  IN  t

Translation(a) ==
  LET t == Tables(a)
      Leaf(l) == t[l] # -1 /\ LET e == mem[t[l]][OFFS(a, l)] IN
                   e.valid /\ e.bit1 = (l = 3)
  IN  IF \E l \in 1 .. 3 : Leaf(l)
      THEN LET l == CHOOSE l \in 1 .. 3 : Leaf(l) IN
           AlignTo(mem[t[l]][OFFS(a, l)].addr, l) + (a % SIZE(l))
      ELSE -1

-----------------------------------------------------------------------------
Init ==
  /\ mem = [p \in Page |-> [k \in Index |-> Invalid0]]
  /\ next = Root + 1
  /\ owner = NoCPU
  /\ regions \in Layouts
  /\ va = 0 /\ pa = 0 /\ stage = 0
  /\ todo = ToSet(Heap)
  /\ batch = 0 /\ phase = "init"
  /\ pc = [i \in CPU |-> "idle"]
  /\ op = [i \in CPU |-> NoCall]
  /\ level = [i \in CPU |-> 0]
  /\ table = [i \in CPU |-> Root]
  /\ at = [i \in CPU |-> NoPtr]
  /\ new = [i \in CPU |-> Invalid0]
  /\ ptrs = [i \in CPU |-> <<>>]
  /\ descs = [i \in CPU |-> <<>>]
  /\ want = [a \in VA |-> -1]
  /\ stale = {}

Goto(i, from, to) ==
  /\ pc[i] = from
  /\ pc' = [pc EXCEPT ![i] = to]

Request(i, call) ==
  /\ Goto(i, "idle", "lock")
  /\ op' = [op EXCEPT ![i] = call]
  /\ UNCHANGED <<mem, next, owner, steps, regs, saved, want, stale>>

(* What set_block_or_page(a, p, l) asks for *)
SetCall(a, p, l) == [kind |-> "set", va |-> a, pa |-> p, to |-> l, walk |-> 3]

Return(i) ==
  /\ op' = [op EXCEPT ![i] = NoCall]
  /\ level' = [level EXCEPT ![i] = 0]
  /\ table' = [table EXCEPT ![i] = Root]
  /\ at' = [at EXCEPT ![i] = NoPtr]
  /\ new' = [new EXCEPT ![i] = Invalid0]

-----------------------------------------------------------------------------
(* __ptable_set_range: five loops, each mapping blocks of one level        *)
LevelOf == <<3, 2, 1, 2, 3>>
Fits(a, l) == a + SIZE(l) <= regions[1].va_end
BothAligned(a, p, l) == Aligned(a, l) /\ Aligned(p, l)

(* Mutation of Continues: loop 2 stops at the first 1G boundary of va.     *)
ContinuesVaOnly(s) ==
  LET end == regions[1].va_end IN
  CASE s = 1 -> ~BothAligned(va, pa, 2) /\ Fits(va, 3)
    [] s = 2 -> ~Aligned(va, 1) /\ Fits(va, 2)
    [] s = 3 -> va < AlignTo(end, 1) /\ Fits(va, 1)
    [] s = 4 -> va < AlignTo(end, 2) /\ Fits(va, 2)
    [] s = 5 -> va < end

Continues(s) ==
  LET end == regions[1].va_end IN
  CASE s = 1 -> ~BothAligned(va, pa, 2) /\ Fits(va, 3)
    [] s = 2 -> ~BothAligned(va, pa, 1) /\ Fits(va, 2)
    [] s = 3 -> va < AlignTo(end, 1) /\ Fits(va, 1)
    [] s = 4 -> va < AlignTo(end, 2) /\ Fits(va, 2)
    [] s = 5 -> va < end

(* vmm_ptable_map: the next region, mapped to itself if it names no pa *)
Map ==
  LET r == regions[1] IN
  /\ pc[Boss] = "idle" /\ stage = 0 /\ regions # <<>>
  /\ va' = r.va_start
  /\ pa' = IF r.pa_start # 0 THEN r.pa_start ELSE r.va_start
  /\ stage' = 1
  /\ UNCHANGED <<mem, next, owner, regions, todo, steps, pc, op, regs, saved, want, stale>>

(* One turn of a loop.  The check for misaligned regions between loops 1   *)
(* and 2 cannot fail: loop 1 only ends aligned or at the end.              *)
SetRange ==
  /\ stage > 0 /\ Continues(stage)
  /\ Request(Boss, SetCall(va, pa, LevelOf[stage]))
  /\ va' = va + SIZE(LevelOf[stage])
  /\ pa' = pa + SIZE(LevelOf[stage])
  /\ UNCHANGED <<regions, stage, todo>>

(* The end of a loop, and of the last one *)
EndLoop ==
  /\ pc[Boss] = "idle" /\ stage > 0 /\ ~Continues(stage)
  /\ stage' = (stage + 1) % 6
  /\ regions' = IF stage = 5 THEN Tail(regions) ELSE regions
  /\ UNCHANGED <<mem, next, owner, va, pa, todo, steps, pc, op, regs, saved, want, stale>>

(* set_init_pte: a page for v, or 0 for a variable that starts unmapped    *)
SetInitPte(v) ==
  /\ phase = "init" /\ stage = 0 /\ regions = <<>>
  /\ v \in todo /\ \E p \in Settings[v] : Request(Boss, SetCall(v, p, 3))
  /\ todo' = todo \ {v}
  /\ UNCHANGED <<regions, va, pa, stage>>

(* The next turn of the loops of setup_run_data over variables and levels, *)
(* with vmm_pte_at_level(ptable, va, lvl)                                  *)
VarOf(n)   == Heap[(n \div 4) + 1]
LevelAt(n) == n % 4
SetUp(i)   == Len(ptrs[i]) = 4 * Len(Heap)

Lookup(i) ==
  LET n == Len(ptrs[i]) IN
  /\ phase = "setup" /\ ~SetUp(i)
  /\ Request(i, [kind |-> "lookup", va |-> VarOf(n), to |-> 3, walk |-> LevelAt(n)])
  /\ UNCHANGED boss

(* The next turn of the loops of clean_run_data, with                      *)
(* vmm_update_pte(tt_entries[v][l], tt_descs[v][l], SYNC_ASID, asid, true) *)
Clean(i) ==
  /\ phase = "clean" /\ ptrs[i] # <<>>
  /\ Goto(i, "idle", "read")
  /\ op' = [op EXCEPT ![i] = [kind |-> "restore", to |-> 0]]
  /\ at' = [at EXCEPT ![i] = Head(ptrs[i])]
  /\ new' = [new EXCEPT ![i] = Head(descs[i])]
  /\ ptrs' = [ptrs EXCEPT ![i] = Tail(@)]
  /\ descs' = [descs EXCEPT ![i] = Tail(@)]
  /\ UNCHANGED <<mem, next, owner, boss, steps, level, table, want, stale>>

-----------------------------------------------------------------------------
(* The barriers between the phases of a batch: after its pagetables are    *)
(* allocated and initialised,                                              *)
Allocated ==
  /\ phase = "init" /\ batch < Batches
  /\ stage = 0 /\ regions = <<>> /\ \A v \in todo : Settings[v] = {}
  /\ pc[Boss] = "idle"
  /\ phase' = "setup"
  /\ UNCHANGED <<mem, next, owner, boss, batch, pc, op, regs, saved, want, stale>>

(* after the runs, in which the test has overwritten some entry, without a *)
(* TLBI, by an invalid one or another page or block,                       *)
Test(n, e) ==
  LET x == ptrs[Boss][n] IN
  /\ phase = "setup" /\ \A i \in CPU : SetUp(i) /\ pc[i] = "idle"
  /\ phase' = "clean"
  /\ mem' = [mem EXCEPT ![x[1]][x[2]] = e]
  /\ stale' = stale \cup {<<x, mem[x[1]][x[2]]>>}
  /\ UNCHANGED <<next, owner, boss, batch, pc, op, regs, saved, want>>

(* and after everybody has cleaned up.                                     *)
Cleaned ==
  /\ phase = "clean" /\ \A i \in CPU : ptrs[i] = <<>> /\ pc[i] = "idle"
  /\ phase' = "init"
  /\ batch' = batch + 1
  /\ todo' = ToSet(Heap)
  /\ UNCHANGED <<mem, next, owner, regions, va, pa, stage, pc, op, regs, saved, want, stale>>

-----------------------------------------------------------------------------
(* vmm_ensure_level *)

(* Mutation of Lock: LOCK(&_vmm_lock) is missing. *)
LockMissing(i) ==
  /\ Goto(i, "lock", "level")
  /\ UNCHANGED <<mem, next, owner, boss, steps, op, regs, saved, want, stale>>

Lock(i) ==
  /\ owner = NoCPU
  /\ Goto(i, "lock", "level")
  /\ owner' = i
  /\ UNCHANGED <<mem, next, boss, steps, op, regs, saved, want, stale>>

Pte(i)  == <<table[i], OFFS(op[i].va, level[i])>>
Val(x)  == mem[x[1]][x[2]]
Desc(i) == Val(Pte(i))

(* Mutation of Ensuring: one level too many. *)
EnsuringOneMore(i) == level[i] <= op[i].to

Ensuring(i) == level[i] <= op[i].to - 1

(* current = (u64* )desc.table_addr; level++ *)
Descend(i) ==
  /\ Goto(i, "level", "level")
  /\ Ensuring(i) /\ IsTable(Desc(i), level[i])
  /\ level' = [level EXCEPT ![i] = @ + 1]
  /\ table' = [table EXCEPT ![i] = Desc(i).addr]
  /\ UNCHANGED <<mem, next, owner, boss, steps, op, at, new, saved, want, stale>>

(* zalloc_ptable, and the loop over the entries of the new table: each of  *)
(* them gets desc again, not the part of it that new_desc holds.           *)
NewTable(i) ==
  /\ Goto(i, "level", "read")
  /\ Ensuring(i) /\ ~IsTable(Desc(i), level[i])
  /\ next <= MaxPages
  /\ mem' = [mem EXCEPT ![next] =
               [k \in Index |-> IF IsBlock(Desc(i), level[i])
                                THEN BlockDesc(AlignTo(Desc(i).addr, level[i]), level[i])
                                ELSE Invalid0]]
  /\ next' = next + 1
  /\ at' = [at EXCEPT ![i] = Pte(i)]
  /\ new' = [new EXCEPT ![i] = TableDesc(next)]
  /\ UNCHANGED <<owner, boss, steps, op, level, table, saved, want, stale>>

Unlock(i) ==
  /\ Goto(i, "level", "walk")
  /\ ~Ensuring(i)
  /\ owner' = NoCPU
  /\ level' = [level EXCEPT ![i] = 0]
  /\ table' = [table EXCEPT ![i] = Root]
  /\ UNCHANGED <<mem, next, boss, steps, op, at, new, saved, want, stale>>

-----------------------------------------------------------------------------
(* vmm_update_pte, of a table, of a page or block, or of a saved entry     *)
Write(i, e) ==
  /\ mem' = [mem EXCEPT ![at[i][1]][at[i][2]] = e]
  /\ stale' = IF Val(at[i]).valid THEN stale \cup {<<at[i], Val(at[i])>>} ELSE stale

(* if ( *pte > 0) ...; maintenance is forced in clean_run_data *)
Read(i) ==
  /\ Goto(i, "read", IF Val(at[i]).valid THEN "break"
                     ELSE IF op[i].kind = "restore" THEN "flush" ELSE "make")
  /\ UNCHANGED <<mem, next, owner, boss, steps, op, regs, saved, want, stale>>

(* Mutation of Break: the old entry is overwritten without being cleared. *)
BreakMissing(i) ==
  /\ Goto(i, "break", "make")
  /\ UNCHANGED <<mem, next, owner, boss, steps, op, regs, saved, want, stale>>

(* write_release(pte, 0) *)
Break(i) ==
  /\ Goto(i, "break", "flush")
  /\ Write(i, Invalid0)
  /\ UNCHANGED <<next, owner, boss, steps, op, regs, saved, want>>

(* vmm_flush_tlb, vmm_flush_tlb_asid *)
Flush(i) ==
  /\ Goto(i, "flush", "make")
  /\ stale' = {}
  /\ UNCHANGED <<mem, next, owner, boss, steps, op, regs, saved, want>>

(* write_release(pte, new_val): a new table, and on with the next level, *)
Link(i) ==
  /\ Goto(i, "make", "level")
  /\ Ensuring(i)
  /\ Write(i, new[i])
  /\ level' = [level EXCEPT ![i] = @ + 1]
  /\ table' = [table EXCEPT ![i] = new[i].addr]
  /\ UNCHANGED <<next, owner, boss, steps, op, at, new, saved, want>>

(* the block or page, *)
Set(i) ==
  LET c == op[i] IN
  /\ Goto(i, "make", "idle")
  /\ c.kind = "set" /\ ~Ensuring(i)
  /\ Write(i, new[i])
  /\ want' = [a \in VA |-> IF a \notin c.va .. c.va + SIZE(c.to) - 1 THEN want[a]
                           ELSE IF c.pa = Unmapped THEN -1 ELSE c.pa + (a - c.va)]
  /\ Return(i)
  /\ UNCHANGED <<next, owner, boss, steps, saved>>

(* or what was saved. *)
Restore(i) ==
  /\ Goto(i, "make", "idle")
  /\ op[i].kind = "restore"
  /\ Write(i, new[i])
  /\ Return(i)
  /\ UNCHANGED <<next, owner, boss, steps, saved, want>>

-----------------------------------------------------------------------------
(* vmm_translation_walk_to_level *)
Walking(i) == level[i] < op[i].walk /\ IsTable(Desc(i), level[i])

Walk(i) ==
  /\ Goto(i, "walk", "walk")
  /\ Walking(i)
  /\ level' = [level EXCEPT ![i] = @ + 1]
  /\ table' = [table EXCEPT ![i] = Desc(i).addr]
  /\ UNCHANGED <<mem, next, owner, boss, steps, op, at, new, saved, want, stale>>

(* set_block_or_page and set_init_pte write to the entry they have found,  *)
WalkedSet(i) ==
  /\ Goto(i, "walk", "read")
  /\ op[i].kind = "set" /\ ~Walking(i)
  /\ at' = [at EXCEPT ![i] = Pte(i)]
  /\ new' = [new EXCEPT ![i] = IF op[i].pa = Unmapped THEN Invalid0
                               ELSE BlockDesc(op[i].pa, level[i])]
  /\ UNCHANGED <<mem, next, owner, boss, steps, op, level, table, saved, want, stale>>

(* vmm_pte_at_level returns a pointer to it,                               *)
WalkedLookup(i) ==
  /\ Goto(i, "walk", "save")
  /\ op[i].kind = "lookup" /\ ~Walking(i)
  /\ at' = [at EXCEPT ![i] = Pte(i)]
  /\ UNCHANGED <<mem, next, owner, boss, steps, op, level, table, new, saved, want, stale>>

(* which setup_run_data stores, with the present value of the entry.       *)
Save(i) ==
  /\ Goto(i, "save", "idle")
  /\ ptrs' = [ptrs EXCEPT ![i] = Append(@, at[i])]
  /\ descs' = [descs EXCEPT ![i] = Append(@, Val(at[i]))]
  /\ Return(i)
  /\ UNCHANGED <<mem, next, owner, boss, steps, want, stale>>

-----------------------------------------------------------------------------
Step(i) ==
  \/ Lookup(i) \/ Lock(i) \/ Descend(i) \/ NewTable(i) \/ Unlock(i)
  \/ Read(i) \/ Break(i) \/ Flush(i) \/ Link(i) \/ Set(i) \/ Restore(i)
  \/ Walk(i) \/ WalkedSet(i) \/ WalkedLookup(i) \/ Save(i)
  \/ Clean(i)

Next ==
  \/ Map \/ SetRange \/ EndLoop \/ Allocated \/ Cleaned
  \/ \E v \in todo : SetInitPte(v)
  \/ \E n \in 1 .. Len(ptrs[Boss]) :
       \E e \in {Invalid0} \cup {BlockDesc(p, LevelAt(n - 1)) : p \in TestPages} : Test(n, e)
  \/ \E i \in CPU : Step(i)

Spec == Init /\ [][Next]_vars

-----------------------------------------------------------------------------
PC == {"idle", "lock", "level", "walk", "save", "read", "break", "flush", "make"}

TypeOK ==
  /\ mem \in [Page -> [Index -> Entry]]
  /\ next \in 1 .. MaxPages + 1
  /\ owner \in CPU \cup {NoCPU}
  /\ stage \in 0 .. 5
  /\ todo \subseteq ToSet(Heap)
  /\ batch \in 0 .. Batches
  /\ phase \in {"init", "setup", "clean"}
  /\ pc \in [CPU -> PC]
  /\ level \in [CPU -> Level]
  /\ table \in [CPU -> Page]
  /\ at \in [CPU -> Page \X Index]
  /\ new \in [CPU -> Entry]
  /\ stale \subseteq (Page \X Index) \X Entry

(* Outside of tests and updates, the hardware translates every address the *)
(* way the pagetable was asked to: whatever mixture of levels was chosen   *)
(* for a region, whatever tables other calls have added since ("ensuring   *)
(* that a block translation exists at level ensure_level", vmm.h:24), and  *)
(* whatever a test did that all CPUs have cleaned up at the same time      *)
(* ("reset the pagetables back to what they were", litmus_test.c:214).     *)
MappedAsAsked ==
  phase # "clean" /\ (\A i \in CPU : pc[i] \notin {"flush", "make"})
    => \A a \in VA : Translation(a) = want[a]

(* "synchronised (with BBM) pgtable updates" (inc/vmm/vmm.h:193): the      *)
(* harness gives no entry a valid value while TLBs may hold another one,   *)
(* even if several CPUs restore the same entry.                            *)
BreakBeforeMake ==
  [][\A p \in Page, k \in Index :
       mem'[p][k] # mem[p][k] /\ mem'[p][k].valid /\ phase' = phase
         => /\ ~mem[p][k].valid
            /\ \A x \in stale : x[1] = <<p, k>> => x[2] = mem'[p][k]]_vars

(* "a pointer to the given level's entry that maps that VA" (vmm.h:28):    *)
(* what setup_run_data stored is on the level it asked for, and stays the  *)
(* entry that maps the variable whatever tables the other CPUs add: tests  *)
(* and clean_run_data write to it much later.                              *)
PointersStable ==
  phase = "setup" =>
    \A i \in CPU : \A n \in 1 .. Len(ptrs[i]) :
      LET v == VarOf(n - 1)  l == LevelAt(n - 1) IN
      ptrs[i][n] = <<Tables(v)[l], OFFS(v, l)>>
===============================================================================
