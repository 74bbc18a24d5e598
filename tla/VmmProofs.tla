------------------------------- MODULE VmmProofs -------------------------------
(***************************************************************************)
(* The pagetables, for any number of CPUs and variables, any regions and   *)
(* any size of tables: what vmm_ensure_level, vmm_update_pte and the walks *)
(* of several CPUs do to each other.                                       *)
(***************************************************************************)
EXTENDS Vmm, TLAPS

-----------------------------------------------------------------------------
(* Addresses. *)
LEMMA Sizes ==
  ASSUME NEW l \in Level
  PROVE  SIZE(l) \in Nat \ {0}
<1>1. Fanout * Fanout \in Nat \ {0} /\ Fanout * Fanout * Fanout \in Nat \ {0}
  BY VmmAssumption
<1> QED
  BY <1>1, VmmAssumption DEF SIZE, Level

LEMMA Remainder ==
  ASSUME NEW n \in Nat, NEW b \in Nat \ {0}
  PROVE  n % b \in 0 .. b - 1 /\ n % b <= n
OBVIOUS

LEMMA Offsets ==
  ASSUME NEW a \in Nat, NEW l \in Level
  PROVE  OFFS(a, l) \in Index /\ AlignTo(a, l) \in Nat
<1>1. SIZE(l) \in Nat \ {0}
  BY Sizes
<1>2. a \div SIZE(l) \in Nat
  BY <1>1
<1>3. Fanout \in Nat \ {0}
  BY VmmAssumption
<1>4. (a \div SIZE(l)) % Fanout \in 0 .. Fanout - 1
  BY <1>2, <1>3, Remainder
<1> QED
  BY <1>1, <1>4, Remainder DEF OFFS, AlignTo, Index

-----------------------------------------------------------------------------
(* Walks in a memory m.                                                    *)
Tab(e)    == e.valid /\ e.bit1
Ent(s, x) == s[x[1]][x[2]]

TablesIn(m, a) ==
  LET t[l \in Level] ==
        IF l = 0 THEN Root
        ELSE IF t[l - 1] = -1 THEN -1
        ELSE LET e == m[t[l - 1]][OFFS(a, l - 1)] IN
             IF e.valid /\ e.bit1 THEN e.addr ELSE -1
  IN  t

Path(a) == TablesIn(mem, a)

Down(m, a, l, p) ==
  IF p = -1 THEN -1
  ELSE LET e == m[p][OFFS(a, l)] IN IF e.valid /\ e.bit1 THEN e.addr ELSE -1

(* What the recursion comes to. *)
LEMMA TablesFacts ==
  ASSUME NEW m, NEW a
  PROVE  /\ TablesIn(m, a)[0] = Root
         /\ \A l \in 1 .. 3 : TablesIn(m, a)[l] = Down(m, a, l - 1, TablesIn(m, a)[l - 1])
<1> DEFINE Body(t) == [l \in Level |->
             IF l = 0 THEN Root
             ELSE IF t[l - 1] = -1 THEN -1
             ELSE LET e == m[t[l - 1]][OFFS(a, l - 1)] IN
                  IF e.valid /\ e.bit1 THEN e.addr ELSE -1]
           p1 == Down(m, a, 0, Root)
           p2 == Down(m, a, 1, p1)
           p3 == Down(m, a, 2, p2)
           f == [l \in Level |-> IF l = 0 THEN Root ELSE IF l = 1 THEN p1 ELSE IF l = 2 THEN p2 ELSE p3]
<1>1. f = Body(f)
  <2>1. f[0] = Root /\ f[1] = p1 /\ f[2] = p2 /\ f[3] = p3
    BY DEF Level
  <2> HIDE DEF f
  <2>2. \A l \in Level : l # 0 => Body(f)[l] = Down(m, a, l - 1, f[l - 1])
    BY DEF Down
  <2>3. Body(f)[0] = Root
    BY DEF Level
  <2>4. \A l \in Level : Body(f)[l] = f[l]
    <3> SUFFICES ASSUME NEW l \in Level PROVE Body(f)[l] = f[l]
      OBVIOUS
    <3>1. CASE l = 0
      BY <3>1, <2>1, <2>3
    <3>2. CASE l = 1
      BY <3>2, <2>1, <2>2
    <3>3. CASE l = 2
      BY <3>3, <2>1, <2>2
    <3>4. CASE l = 3
      BY <3>4, <2>1, <2>2
    <3> QED
      BY <3>1, <3>2, <3>3, <3>4 DEF Level
  <2>5. f = [l \in Level |-> f[l]]
    BY DEF f
  <2> QED
    BY <2>4, <2>5
<1> HIDE DEF f
<1> DEFINE T == CHOOSE t : t = Body(t)
<1>2. T = Body(T)
  BY <1>1
<1>3. TablesIn(m, a) = T
  BY DEF TablesIn
<1> HIDE DEF T
<1>4. \A l \in Level : T[l] = Body(T)[l]
  BY <1>2
<1>5. T[0] = Root
  BY <1>4 DEF Level
<1>6. \A l \in 1 .. 3 : T[l] = Down(m, a, l - 1, T[l - 1])
  BY <1>4 DEF Level, Down
<1> QED
  BY <1>3, <1>5, <1>6

LEMMA SamePath == \A a : Path(a) = Tables(a)
BY DEF Path, TablesIn, Tables

-----------------------------------------------------------------------------
(* The invariant.                                                          *)
Writing   == {"read", "break", "flush", "make"}

Linking(i) == pc[i] \in Writing /\ Ensuring(i)
Setting(i) == pc[i] \in Writing /\ ~Ensuring(i) /\ op[i].kind = "set"
OnPath(i)  == pc[i] \in {"lock", "level", "walk", "save"} \/ Linking(i) \/ Setting(i)

(* The calls of each phase. *)
SetCalls    == [kind : {"set"}, va : Nat, pa : Nat \cup {-1}, to : 1 .. 3, walk : {3}]
LookupCalls == [kind : {"lookup"}, va : Nat, to : {3}, walk : Level]
RestoreCall == [kind |-> "restore", to |-> 0]
Calls(p) ==
  IF p = "init" THEN SetCalls ELSE IF p = "setup" THEN LookupCalls
  ELSE {RestoreCall}

BossInv ==
  /\ va \in Nat /\ pa \in Nat
  /\ regions \in Seq([va_start : Nat, va_end : Nat, pa_start : Nat])
  /\ stage # 0 => regions # <<>>
  /\ phase # "init" => stage = 0 /\ regions = <<>> /\ batch < Batches

AnyCall     == SetCalls \cup LookupCalls \cup {RestoreCall, NoCall}

FunInv ==
  /\ op \in [CPU -> AnyCall]
  /\ ptrs \in [CPU -> Seq(Page \X Index)]
  /\ descs \in [CPU -> Seq(Entry)]

CallInv(i) ==
  /\ pc[i] = "idle" => op[i] = NoCall /\ level[i] = 0 /\ table[i] = Root
  /\ pc[i] # "idle" => op[i] \in Calls(phase)
  /\ pc[i] # "idle" /\ phase = "init" => i = Boss
  /\ pc[i] # "idle" /\ phase = "setup" =>
       /\ Len(ptrs[i]) < 4 * Len(Heap)
       /\ op[i].va = VarOf(Len(ptrs[i])) /\ op[i].walk = LevelAt(Len(ptrs[i]))
       /\ pc[i] \in Writing => Ensuring(i)
  /\ pc[i] # "idle" /\ phase = "clean" => pc[i] \in Writing
  /\ pc[i] = "lock" => level[i] = 0
  /\ pc[i] = "level" => level[i] <= op[i].to
  /\ pc[i] = "walk" => level[i] <= op[i].walk
  /\ pc[i] = "save" => phase = "setup" /\ level[i] = op[i].walk /\ at[i] = Pte(i)

(* The lock is held while a path is followed to add tables to it. *)
Locked(i) == pc[i] = "level" \/ Linking(i)
LockInv   == \A i \in CPU : owner = i <=> Locked(i)

(* Every table has a level, which the entries that lead to it agree on. *)
Good(s, n, lev) ==
  /\ s \in [Page -> [Index -> Entry]]
  /\ lev \in [Page -> Level] /\ lev[Root] = 0
  /\ \A p \in Page, k \in Index :
       /\ IsTable(s[p][k], lev[p]) =>
            s[p][k].bit1 /\ s[p][k].addr \in 1 .. n - 1 /\ lev[s[p][k].addr] = lev[p] + 1
       /\ p >= n => ~s[p][k].valid

PathInv(lev, i) ==
  /\ OnPath(i) => table[i] = Path(op[i].va)[level[i]]
  /\ pc[i] \in {"walk", "save"} \/ Setting(i) => Path(op[i].va)[op[i].to] # -1
  /\ Linking(i) => /\ at[i] = Pte(i) /\ ~Tab(Val(at[i]))
                   /\ new[i] = TableDesc(new[i].addr)
                   /\ new[i].addr \in 1 .. next - 1 /\ lev[new[i].addr] = level[i] + 1
  /\ Setting(i) => /\ at[i] = Pte(i) /\ (level[i] = 3 \/ ~Tab(Val(at[i])))
                   /\ new[i] = Invalid0 \/ new[i] = BlockDesc(new[i].addr, level[i])
  /\ pc[i] \in {"flush", "make"} /\ phase # "clean" => ~Val(at[i]).valid

PtrInv(s, i) ==
  /\ Len(descs[i]) = Len(ptrs[i]) /\ Len(ptrs[i]) <= 4 * Len(Heap)
  /\ phase = "init" => ptrs[i] = <<>>
  /\ \A n \in 1 .. Len(ptrs[i]) :
       /\ Ent(s, ptrs[i][n]) = descs[i][n]
       /\ phase = "setup" =>
            /\ Path(VarOf(n - 1))[3] # -1
            /\ ptrs[i][n] = <<Path(VarOf(n - 1))[LevelAt(n - 1)],
                              OFFS(VarOf(n - 1), LevelAt(n - 1))>>

(* What the CPUs have still to put back. *)
Pending(i, x) ==
  \/ \E n \in 1 .. Len(ptrs[i]) : ptrs[i][n] = x
  \/ pc[i] \in Writing /\ at[i] = x

(* A TLB may hold an entry that is in memory as well. *)
Harmless(s, y) == y[2].valid /\ y[2] = Ent(s, y[1])

CleanInv(s) ==
  /\ phase # "clean" => mem = s
  /\ phase = "clean" =>
       /\ \A p \in Page, k \in Index : mem[p][k] # s[p][k] => \E i \in CPU : Pending(i, <<p, k>>)
       /\ (\E y \in stale : ~Harmless(s, y)) =>
            \E i \in CPU : ptrs[i] # <<>> \/ pc[i] \in {"read", "break", "flush"}
       /\ \A i \in CPU :
            /\ pc[i] \in Writing => new[i] = Ent(s, at[i])
            /\ pc[i] \in {"flush", "make"} /\ Val(at[i]).valid => Val(at[i]) = Ent(s, at[i])
            /\ pc[i] = "make" => \A y \in stale : y[1] = at[i] => y[2] = Ent(s, at[i])

StaleInv ==
  phase # "clean" /\ (\E y \in stale : ~Harmless(mem, y)) => \E i \in CPU : pc[i] = "flush"

Inv(s, lev) ==
  /\ TypeOK /\ FunInv /\ BossInv /\ LockInv /\ Good(s, next, lev)
  /\ \A i \in CPU : CallInv(i) /\ PathInv(lev, i) /\ PtrInv(s, i)
  /\ CleanInv(s) /\ StaleInv

(* s is what the pagetable was when the test began, lev the level of each  *)
(* table.                                                                  *)
IInv == \E s \in [Page -> [Index -> Entry]], lev \in [Page -> Level] : Inv(s, lev)

-----------------------------------------------------------------------------
(* Walks and the levels of tables. *)

LEMMA Levels ==
  ASSUME NEW m, NEW n \in 1 .. MaxPages + 1, NEW lev, Good(m, n, lev), NEW a \in Nat
  PROVE  /\ \A l \in Level : /\ TablesIn(m, a)[l] \in Page \cup {-1}
                             /\ TablesIn(m, a)[l] # -1 => lev[TablesIn(m, a)[l]] = l /\ TablesIn(m, a)[l] < n
         /\ \A l \in 0 .. 2 : TablesIn(m, a)[l + 1] # -1 =>
              /\ TablesIn(m, a)[l] # -1 /\ Tab(m[TablesIn(m, a)[l]][OFFS(a, l)])
              /\ TablesIn(m, a)[l + 1] = m[TablesIn(m, a)[l]][OFFS(a, l)].addr
<1> DEFINE T == TablesIn(m, a)
           OK(l) == T[l] \in Page \cup {-1} /\ (T[l] # -1 => lev[T[l]] = l /\ T[l] < n)
<1>1. T[0] = Root /\ \A l \in 1 .. 3 : T[l] = Down(m, a, l - 1, T[l - 1])
  BY TablesFacts
<1> HIDE DEF T
<1>2. OK(0)
  BY <1>1, VmmAssumption DEF Good, Root, Page
<1>3. ASSUME NEW l \in 0 .. 2, OK(l), T[l + 1] # -1
      PROVE  /\ OK(l + 1) /\ T[l] # -1 /\ Tab(m[T[l]][OFFS(a, l)])
             /\ T[l + 1] = m[T[l]][OFFS(a, l)].addr
  <2>1. T[l + 1] = Down(m, a, l, T[l])
    BY <1>1
  <2>2. T[l] # -1 /\ Tab(m[T[l]][OFFS(a, l)]) /\ T[l + 1] = m[T[l]][OFFS(a, l)].addr
    BY <1>3, <2>1 DEF Down, Tab
  <2>3. OFFS(a, l) \in Index /\ T[l] \in Page /\ lev[T[l]] = l
    BY <1>3, <2>2, Offsets DEF Level
  <2>4. IsTable(m[T[l]][OFFS(a, l)], lev[T[l]])
    BY <2>2, <2>3 DEF IsTable, Tab
  <2>5. T[l + 1] \in 1 .. n - 1 /\ lev[T[l + 1]] = l + 1
    BY <2>2, <2>3, <2>4 DEF Good
  <2> QED
    BY <2>2, <2>5, VmmAssumption DEF Page
<1>4. \A l \in 0 .. 2 : OK(l) => OK(l + 1)
  BY <1>3
<1>5. OK(1)
  BY <1>2, <1>4
<1>6. OK(2)
  BY <1>5, <1>4
<1>7. OK(3)
  BY <1>6, <1>4
<1> QED
  BY <1>2, <1>3, <1>5, <1>6, <1>7 DEF Level, T

LEMMA PathDown ==
  ASSUME NEW m, NEW n \in 1 .. MaxPages + 1, NEW lev, Good(m, n, lev), NEW a \in Nat,
         NEW k \in Level, TablesIn(m, a)[k] # -1, NEW l \in 0 .. k
  PROVE  TablesIn(m, a)[l] # -1
<1>0. \A h \in 0 .. 2 : TablesIn(m, a)[h + 1] # -1 =>
        /\ TablesIn(m, a)[h] # -1 /\ Tab(m[TablesIn(m, a)[h]][OFFS(a, h)])
        /\ TablesIn(m, a)[h + 1] = m[TablesIn(m, a)[h]][OFFS(a, h)].addr
  BY Levels
<1>1. \A h \in 0 .. 2 : TablesIn(m, a)[h + 1] # -1 => TablesIn(m, a)[h] # -1
  BY <1>0
<1>2. /\ TablesIn(m, a)[3] # -1 => TablesIn(m, a)[2] # -1
      /\ TablesIn(m, a)[2] # -1 => TablesIn(m, a)[1] # -1
      /\ TablesIn(m, a)[1] # -1 => TablesIn(m, a)[0] # -1
  BY <1>1
<1> QED
  BY <1>2 DEF Level

(* Walks are not disturbed as long as entries that lead to tables stay. *)
Keeps(m, m2) == \A a \in Nat, l \in Level : TablesIn(m, a)[l] # -1 => TablesIn(m2, a)[l] = TablesIn(m, a)[l]

LEMMA KeepsIf ==
  ASSUME NEW m, NEW m2, NEW n \in 1 .. MaxPages + 1, NEW lev, Good(m, n, lev),
         \A p \in Page, k \in Index : p < n /\ lev[p] < 3 /\ Tab(m[p][k]) => m2[p][k] = m[p][k]
  PROVE  Keeps(m, m2)
<1> SUFFICES ASSUME NEW a \in Nat
             PROVE  \A l \in Level : TablesIn(m, a)[l] # -1 => TablesIn(m2, a)[l] = TablesIn(m, a)[l]
  BY DEF Keeps
<1> DEFINE T == TablesIn(m, a)
           U == TablesIn(m2, a)
           OK(l) == T[l] # -1 => U[l] = T[l]
<1>1. T[0] = Root /\ U[0] = Root /\ \A l \in 1 .. 3 : U[l] = Down(m2, a, l - 1, U[l - 1])
  BY TablesFacts
<1>2. /\ \A l \in Level : T[l] \in Page \cup {-1} /\ (T[l] # -1 => lev[T[l]] = l /\ T[l] < n)
      /\ \A l \in 0 .. 2 : T[l + 1] # -1 =>
              T[l] # -1 /\ Tab(m[T[l]][OFFS(a, l)]) /\ T[l + 1] = m[T[l]][OFFS(a, l)].addr
  BY Levels
<1> HIDE DEF T, U
<1>3. ASSUME NEW l \in 0 .. 2, OK(l) PROVE OK(l + 1)
  <2> SUFFICES ASSUME T[l + 1] # -1 PROVE U[l + 1] = T[l + 1]
    OBVIOUS
  <2>1. T[l] # -1 /\ Tab(m[T[l]][OFFS(a, l)]) /\ T[l + 1] = m[T[l]][OFFS(a, l)].addr
    BY <1>2
  <2>2. T[l] \in Page /\ T[l] < n /\ lev[T[l]] < 3 /\ OFFS(a, l) \in Index /\ U[l] = T[l]
    <3>1. l \in Level /\ OFFS(a, l) \in Index
      BY Offsets DEF Level
    <3>2. T[l] \in Page \cup {-1} /\ lev[T[l]] = l /\ T[l] < n
      BY <1>2, <2>1, <3>1
    <3> QED
      BY <1>3, <2>1, <3>1, <3>2
  <2>3. m2[T[l]][OFFS(a, l)] = m[T[l]][OFFS(a, l)]
    BY <2>1, <2>2
  <2>4. U[l + 1] = Down(m2, a, l, U[l])
    BY <1>1
  <2> QED
    BY <2>1, <2>2, <2>3, <2>4 DEF Down, Tab
<1>4. OK(0)
  BY <1>1
<1>5. OK(1)
  BY <1>3, <1>4
<1>6. OK(2)
  BY <1>3, <1>5
<1>7. OK(3)
  BY <1>3, <1>6
<1> QED
  BY <1>4, <1>5, <1>6, <1>7 DEF Level, T, U

(* One entry is written. *)
LEMMA GoodWrite ==
  ASSUME NEW m, NEW n, NEW lev, Good(m, n, lev), n \in 1 .. MaxPages + 1,
         NEW p \in Page, NEW k \in Index, NEW e \in Entry,
         p < n,
         IsTable(e, lev[p]) => e.bit1 /\ e.addr \in 1 .. n - 1 /\ lev[e.addr] = lev[p] + 1
  PROVE  Good([m EXCEPT ![p][k] = e], n, lev)
<1> DEFINE m2 == [m EXCEPT ![p][k] = e]
<1>1. m2 \in [Page -> [Index -> Entry]]
  BY DEF Good
<1>2. \A q \in Page, h \in Index : m2[q][h] = IF q = p /\ h = k THEN e ELSE m[q][h]
  BY DEF Good
<1> HIDE DEF m2
<1>3. Good(m2, n, lev)
  BY <1>1, <1>2, n \in Nat DEF Good, Page
<1> QED
  BY <1>3 DEF m2

-----------------------------------------------------------------------------
(* What a step of one CPU leaves alone. *)
Same(j) ==
  /\ pc'[j] = pc[j] /\ op'[j] = op[j] /\ level'[j] = level[j] /\ table'[j] = table[j]
  /\ at'[j] = at[j] /\ new'[j] = new[j] /\ ptrs'[j] = ptrs[j] /\ descs'[j] = descs[j]

LEMMA CallFacts ==
  ASSUME NEW i \in CPU, CallInv(i), pc[i] # "idle", phase \in {"init", "setup"}
  PROVE  /\ op[i].kind \in {"set", "lookup"} /\ op[i].va \in Nat /\ op[i].to \in 1 .. 3
         /\ op[i].walk \in Level
         /\ op[i].kind = "lookup" => op[i].to = 3
         /\ op[i].kind = "set" => op[i].walk = 3 /\ op[i].pa \in Nat \cup {-1}
         /\ op[i].kind = "set" <=> phase = "init"
<1>1. CASE phase = "init"
  <2>1. op[i] \in SetCalls
    BY <1>1 DEF CallInv, Calls
  <2> QED
    BY <1>1, <2>1 DEF SetCalls, Level
<1>2. CASE phase = "setup"
  <2>1. op[i] \in LookupCalls
    BY <1>2 DEF CallInv, Calls
  <2> QED
    BY <1>2, <2>1 DEF LookupCalls, Level
<1> QED
  BY <1>1, <1>2

LEMMA VarIsNat ==
  ASSUME NEW n \in Nat, n < 4 * Len(Heap)
  PROVE  VarOf(n) \in Nat /\ LevelAt(n) \in Level
<1>1. Len(Heap) \in Nat /\ \A k \in 1 .. Len(Heap) : Heap[k] \in Nat
  BY VmmAssumption
<1>2. (n \div 4) + 1 \in 1 .. Len(Heap)
  BY <1>1
<1>3. n % 4 \in 0 .. 3
  OBVIOUS
<1> QED
  BY <1>1, <1>2, <1>3 DEF VarOf, LevelAt, Level

LEMMA OtherCall ==
  ASSUME NEW j \in CPU, CallInv(j), Same(j), phase' = phase
  PROVE  CallInv(j)'
BY DEF CallInv, Same, Pte, Ensuring, Calls, Writing

LEMMA OtherPath ==
  ASSUME NEW j \in CPU, NEW lev, NEW lev2, TypeOK, CallInv(j), PathInv(lev, j), Same(j),
         phase' = phase, phase \in {"init", "setup"}, next' \in Nat, next <= next',
         \A q \in Page : q < next => lev2[q] = lev[q],
         Keeps(mem, mem'),
         pc[j] \in Writing => Ent(mem', at[j]) = Ent(mem, at[j])
  PROVE  PathInv(lev2, j)'
<1>1. /\ Linking(j)' <=> Linking(j)
      /\ Setting(j)' <=> Setting(j)
      /\ OnPath(j)' <=> OnPath(j)
  BY DEF Linking, Setting, OnPath, Same, Ensuring
<1>2. Pte(j)' = Pte(j)
  BY DEF Pte, Same
<1>3. Val(at[j])' = Ent(mem', at[j]) /\ Val(at[j]) = Ent(mem, at[j])
  BY DEF Same, Val, Ent
<1>4. level[j] \in Level /\ table[j] \in Page /\ next \in Nat
  BY DEF TypeOK
<1>5. OnPath(j) => table[j] = TablesIn(mem', op[j].va)[level[j]]
  <2> SUFFICES ASSUME OnPath(j) PROVE table[j] = TablesIn(mem', op[j].va)[level[j]]
    OBVIOUS
  <2>1. pc[j] # "idle" /\ table[j] = TablesIn(mem, op[j].va)[level[j]]
    BY DEF OnPath, Linking, Setting, Writing, PathInv, Path
  <2>2. op[j].va \in Nat /\ table[j] # -1
    BY <2>1, <1>4, CallFacts DEF Page
  <2> QED
    BY <2>1, <2>2, <1>4 DEF Keeps
<1>6. pc[j] \in {"walk", "save"} \/ Setting(j) => TablesIn(mem', op[j].va)[op[j].to] # -1
  <2> SUFFICES ASSUME pc[j] \in {"walk", "save"} \/ Setting(j)
               PROVE  TablesIn(mem', op[j].va)[op[j].to] # -1
    OBVIOUS
  <2>1. pc[j] # "idle" /\ TablesIn(mem, op[j].va)[op[j].to] # -1
    BY DEF OnPath, Linking, Setting, Writing, PathInv, Path
  <2>2. op[j].va \in Nat /\ op[j].to \in Level
    BY <2>1, CallFacts DEF Level
  <2> QED
    BY <2>1, <2>2 DEF Keeps
<1>7. Linking(j) => /\ at[j] = Pte(j) /\ ~Tab(Ent(mem', at[j]))
                    /\ new[j] = TableDesc(new[j].addr)
                    /\ new[j].addr \in 1 .. next' - 1 /\ lev2[new[j].addr] = level[j] + 1
  <2> SUFFICES ASSUME Linking(j)
               PROVE  /\ at[j] = Pte(j) /\ ~Tab(Ent(mem', at[j]))
                      /\ new[j] = TableDesc(new[j].addr)
                      /\ new[j].addr \in 1 .. next' - 1 /\ lev2[new[j].addr] = level[j] + 1
    OBVIOUS
  <2>1. pc[j] \in Writing
    BY DEF Linking
  <2>2. /\ at[j] = Pte(j) /\ ~Tab(Val(at[j])) /\ new[j] = TableDesc(new[j].addr)
        /\ new[j].addr \in 1 .. next - 1 /\ lev[new[j].addr] = level[j] + 1
    BY DEF PathInv
  <2>3. new[j].addr \in Page /\ new[j].addr < next
    BY <2>2, <1>4, VmmAssumption DEF TypeOK, Page
  <2> QED
    BY <2>1, <2>2, <2>3, <1>3, <1>4
<1>8. Setting(j) => /\ at[j] = Pte(j) /\ (level[j] = 3 \/ ~Tab(Ent(mem', at[j])))
                    /\ new[j] = Invalid0 \/ new[j] = BlockDesc(new[j].addr, level[j])
  BY <1>3 DEF Setting, PathInv
<1>9. pc[j] \in {"flush", "make"} => ~Ent(mem', at[j]).valid
  BY <1>3 DEF PathInv, Writing
<1>10. level'[j] = level[j] /\ table'[j] = table[j] /\ op'[j] = op[j] /\ at'[j] = at[j] /\ new'[j] = new[j] /\ pc'[j] = pc[j]
  BY DEF Same
<1> QED
  BY <1>1, <1>2, <1>3, <1>5, <1>6, <1>7, <1>8, <1>9, <1>10 DEF PathInv, Path

LEMMA OtherPtr ==
  ASSUME NEW j \in CPU, NEW s2, s2 = mem', FunInv, PtrInv(mem, j),
         ptrs'[j] = ptrs[j], descs'[j] = descs[j], phase' = phase,
         phase \in {"init", "setup"}, Keeps(mem, mem'),
         \A n \in 1 .. Len(ptrs[j]) : Ent(mem', ptrs[j][n]) = Ent(mem, ptrs[j][n])
  PROVE  PtrInv(s2, j)'
<1>1. Len(ptrs[j]) \in Nat /\ Len(Heap) \in Nat
  BY VmmAssumption DEF FunInv
<1>2. ASSUME NEW n \in 1 .. Len(ptrs[j]), phase = "setup"
      PROVE  /\ TablesIn(mem', VarOf(n - 1))[3] # -1
             /\ ptrs[j][n] = <<TablesIn(mem', VarOf(n - 1))[LevelAt(n - 1)], OFFS(VarOf(n - 1), LevelAt(n - 1))>>
  <2>1. /\ TablesIn(mem, VarOf(n - 1))[3] # -1
        /\ ptrs[j][n] = <<TablesIn(mem, VarOf(n - 1))[LevelAt(n - 1)], OFFS(VarOf(n - 1), LevelAt(n - 1))>>
    BY <1>2 DEF PtrInv, Path
  <2>2. n - 1 \in Nat /\ n - 1 < 4 * Len(Heap)
    BY <1>1 DEF PtrInv
  <2>3. VarOf(n - 1) \in Nat /\ LevelAt(n - 1) \in Level /\ 3 \in Level
    BY <2>2, VarIsNat DEF Level
  <2>4. ptrs[j][n] \in Page \X Index
    BY DEF FunInv
  <2>5. TablesIn(mem, VarOf(n - 1))[LevelAt(n - 1)] # -1
    BY <2>1, <2>4 DEF Page
  <2> QED
    BY <2>1, <2>3, <2>5 DEF Keeps
<1>3. \A n \in 1 .. Len(ptrs[j]) : Ent(s2, ptrs[j][n]) = descs[j][n]
  BY DEF PtrInv
<1> QED
  BY <1>2, <1>3 DEF PtrInv, Path

-----------------------------------------------------------------------------
(* Steps that write no entry, while no test is running. *)
LEMMA PtrSame ==
  ASSUME NEW s, NEW i \in CPU, PtrInv(s, i), ptrs'[i] = ptrs[i], descs'[i] = descs[i],
         mem' = mem, phase' = phase
  PROVE  PtrInv(s, i)'
BY DEF PtrInv, Path

LEMMA LockSame ==
  ASSUME NEW i \in CPU, LockInv, owner' = owner, \A j \in CPU \ {i} : Same(j), Locked(i)' <=> Locked(i)
  PROVE  LockInv'
<1>1. \A j \in CPU \ {i} : Locked(j)' <=> Locked(j)
  BY DEF Locked, Linking, Ensuring, Same
<1> QED
  BY <1>1 DEF LockInv

LEMMA KeepsAll == Keeps(mem, mem)
BY DEF Keeps

LEMMA Quiet ==
  ASSUME NEW s, NEW lev, NEW i \in CPU, Inv(s, lev), phase \in {"init", "setup"}, phase' = phase,
         mem' = mem, next' = next, \A j \in CPU \ {i} : Same(j),
         stale' = {} \/ (stale' = stale /\ pc[i] # "flush"),
         TypeOK', FunInv', BossInv', LockInv', CallInv(i)', PathInv(lev, i)', PtrInv(s, i)'
  PROVE  Inv(s, lev)'
<1>1. mem = s /\ phase # "clean"
  BY DEF Inv, CleanInv
<1>2. CleanInv(s)'
  BY <1>1 DEF CleanInv
<1>3. StaleInv'
  <2>1. CASE stale' = {}
    BY <2>1 DEF StaleInv
  <2>2. CASE stale' = stale /\ pc[i] # "flush"
    <3>1. \A j \in CPU : pc[j] = "flush" => pc'[j] = "flush"
      BY <2>2 DEF Same
    <3> QED
      BY <1>1, <2>2, <3>1 DEF Inv, StaleInv, Harmless
  <2> QED
    BY <2>1, <2>2
<1>4. Good(s, next, lev)'
  BY DEF Inv, Good
<1>5. ASSUME NEW j \in CPU, j # i PROVE CallInv(j)' /\ PathInv(lev, j)' /\ PtrInv(s, j)'
  <2>1. CallInv(j) /\ PathInv(lev, j) /\ PtrInv(s, j) /\ Same(j) /\ TypeOK /\ next \in Nat
    BY <1>5 DEF Inv, TypeOK
  <2>2. CallInv(j)'
    BY <2>1, OtherCall
  <2>3. Keeps(mem, mem')
    BY KeepsAll
  <2>4. PathInv(lev, j)'
    BY <2>1, <2>3, OtherPath
  <2>5. PtrInv(s, j)'
    BY <2>1, PtrSame DEF Same
  <2> QED
    BY <2>2, <2>4, <2>5
<1> QED
  BY <1>2, <1>3, <1>4, <1>5 DEF Inv

LEMMA RequestStep ==
  ASSUME NEW s, NEW lev, NEW i \in CPU, Inv(s, lev), phase \in {"init", "setup"},
         NEW call \in Calls(phase), Request(i, call), BossInv',
         stage' \in 0 .. 5, todo' \in SUBSET ToSet(Heap),
         phase = "init" => i = Boss,
         phase = "setup" => /\ Len(ptrs[i]) < 4 * Len(Heap)
                            /\ call.va = VarOf(Len(ptrs[i])) /\ call.walk = LevelAt(Len(ptrs[i]))
  PROVE  Inv(s, lev)'
<1> USE DEF Inv
<1>1. /\ pc[i] = "idle" /\ pc' = [pc EXCEPT ![i] = "lock"] /\ op' = [op EXCEPT ![i] = call]
      /\ UNCHANGED <<mem, next, owner, steps, regs, saved, want, stale>>
  BY DEF Request, Goto
<1>2. pc'[i] = "lock" /\ op'[i] = call /\ \A j \in CPU \ {i} : Same(j)
  BY <1>1 DEF TypeOK, FunInv, Same, regs, saved
<1>3. phase' = phase /\ batch' = batch /\ level' = level /\ table' = table /\ at' = at /\ new' = new
      /\ ptrs' = ptrs /\ descs' = descs
  BY <1>1 DEF steps, regs, saved
<1>4. call \in AnyCall
  BY DEF AnyCall, Calls
<1>5. TypeOK'
  BY <1>1, <1>3 DEF TypeOK, PC
<1>6. FunInv'
  BY <1>1, <1>3, <1>4 DEF FunInv
<1>7. CallInv(i) /\ level[i] = 0 /\ table[i] = Root
  BY <1>1 DEF CallInv
<1>8. CallInv(i)'
  BY <1>2, <1>3, <1>7 DEF CallInv, Writing
<1>9. PathInv(lev, i)'
  <2>1. TablesIn(mem, call.va)[0] = Root
    BY TablesFacts
  <2> QED
    BY <1>1, <1>2, <1>3, <1>7, <2>1 DEF PathInv, Path, Linking, Setting, Writing
<1>10. LockInv'
  <2>1. ~Locked(i) /\ ~Locked(i)'
    BY <1>1, <1>2 DEF Locked, Linking, Writing
  <2> QED
    BY <1>1, <1>2, <2>1, LockSame
<1> HIDE DEF Inv
<1>11. PtrInv(s, i)'
  BY <1>1, <1>3, PtrSame DEF Inv
<1> QED
  BY <1>1, <1>2, <1>3, <1>5, <1>6, <1>8, <1>9, <1>10, <1>11, Quiet

LEMMA LockStep ==
  ASSUME NEW s, NEW lev, NEW i \in CPU, Inv(s, lev), phase \in {"init", "setup"}, Lock(i)
  PROVE  Inv(s, lev)'
<1> USE DEF Inv
<1>1. /\ pc[i] = "lock" /\ pc' = [pc EXCEPT ![i] = "level"] /\ owner = NoCPU /\ owner' = i
      /\ UNCHANGED <<mem, next, boss, steps, op, regs, saved, want, stale>>
  BY DEF Lock, Goto
<1>2. pc'[i] = "level" /\ \A j \in CPU \ {i} : Same(j)
  BY <1>1 DEF TypeOK, Same, regs, saved
<1>3. phase' = phase /\ batch' = batch /\ level' = level /\ table' = table /\ at' = at /\ new' = new
      /\ ptrs' = ptrs /\ descs' = descs /\ op' = op /\ UNCHANGED <<regions, va, pa, stage, todo>>
  BY <1>1 DEF steps, regs, saved, boss
<1>4. TypeOK'
  BY <1>1, <1>3 DEF TypeOK, PC
<1>5. FunInv' /\ BossInv'
  BY <1>1, <1>3 DEF FunInv, BossInv
<1>6. CallInv(i) /\ op[i].to \in 1 .. 3 /\ level[i] = 0
  BY <1>1, CallFacts DEF CallInv
<1>7. CallInv(i)'
  BY <1>1, <1>2, <1>3, <1>6 DEF CallInv, Writing
<1>8. PathInv(lev, i)'
  BY <1>1, <1>2, <1>3 DEF PathInv, Path, Linking, Setting, Writing, OnPath
<1>9. LockInv'
  <2>1. \A j \in CPU \ {i} : ~Locked(j) /\ ~Locked(j)'
    <3>1. \A j \in CPU : ~Locked(j)
      BY <1>1, VmmAssumption DEF LockInv
    <3> QED
      BY <1>2, <3>1 DEF Locked, Linking, Ensuring, Same
  <2>2. Locked(i)'
    BY <1>2 DEF Locked
  <2> QED
    BY <1>1, <2>1, <2>2 DEF LockInv
<1> HIDE DEF Inv
<1>10. PtrInv(s, i)'
  BY <1>1, <1>3, PtrSame DEF Inv
<1> QED
  BY <1>1, <1>2, <1>3, <1>4, <1>5, <1>7, <1>8, <1>9, <1>10, Quiet

(* Where a CPU is on its way down. *)
LEMMA Here ==
  ASSUME NEW s, NEW lev, NEW i \in CPU, Inv(s, lev), phase \in {"init", "setup"}, OnPath(i)
  PROVE  /\ op[i].va \in Nat /\ level[i] \in Level /\ table[i] \in Page /\ table[i] < next
         /\ table[i] = TablesIn(mem, op[i].va)[level[i]] /\ lev[table[i]] = level[i]
         /\ OFFS(op[i].va, level[i]) \in Index /\ Pte(i) = <<table[i], OFFS(op[i].va, level[i])>>
         /\ Pte(i) \in Page \X Index
         /\ Desc(i) \in Entry /\ Desc(i) = mem[table[i]][OFFS(op[i].va, level[i])]
         /\ mem = s /\ Good(mem, next, lev) /\ next \in 1 .. MaxPages + 1
         /\ IsTable(Desc(i), level[i]) =>
              /\ Tab(Desc(i)) /\ level[i] + 1 \in Level
              /\ Desc(i).addr \in Page /\ Desc(i).addr = TablesIn(mem, op[i].va)[level[i] + 1]
<1>1. pc[i] # "idle" /\ CallInv(i) /\ PathInv(lev, i) /\ TypeOK
  BY DEF OnPath, Linking, Setting, Writing, Inv
<1>2. op[i].va \in Nat /\ level[i] \in Level /\ table[i] \in Page
  BY <1>1, CallFacts DEF TypeOK
<1>3. OFFS(op[i].va, level[i]) \in Index
  BY <1>2, Offsets
<1>4. mem = s /\ Good(mem, next, lev) /\ next \in 1 .. MaxPages + 1
  BY <1>1 DEF Inv, CleanInv, TypeOK
<1>5. table[i] = TablesIn(mem, op[i].va)[level[i]] /\ table[i] # -1
  BY <1>1, <1>2 DEF PathInv, Path, Page
<1>6. lev[table[i]] = level[i] /\ table[i] < next
  BY <1>2, <1>4, <1>5, Levels
<1>7. Desc(i) = mem[table[i]][OFFS(op[i].va, level[i])] /\ Pte(i) = <<table[i], OFFS(op[i].va, level[i])>>
  BY DEF Desc, Val, Pte
<1>8. Desc(i) \in Entry
  BY <1>1, <1>2, <1>3, <1>7 DEF TypeOK
<1>9. ASSUME IsTable(Desc(i), level[i])
      PROVE  /\ Tab(Desc(i)) /\ level[i] + 1 \in Level
             /\ Desc(i).addr \in Page /\ Desc(i).addr = TablesIn(mem, op[i].va)[level[i] + 1]
  <2>1. Desc(i).valid /\ level[i] \in 0 .. 2
    BY <1>2, <1>9 DEF IsTable, Level
  <2>2. Desc(i).bit1 /\ Desc(i).addr \in 1 .. next - 1
    BY <1>2, <1>3, <1>4, <1>6, <1>7, <1>9 DEF Good
  <2>3. level[i] + 1 \in 1 .. 3 /\ (level[i] + 1) - 1 = level[i] /\ level[i] + 1 \in Level
    BY <2>1 DEF Level
  <2>4. TablesIn(mem, op[i].va)[level[i] + 1] = Down(mem, op[i].va, level[i], table[i])
    BY <2>3, <1>5, TablesFacts
  <2>5. Desc(i).addr \in Page
    BY <2>2, <1>4, VmmAssumption DEF Page
  <2> QED
    BY <2>1, <2>2, <2>3, <2>4, <2>5, <1>5, <1>7 DEF Down, Tab
<1> QED
  BY <1>2, <1>3, <1>4, <1>5, <1>6, <1>7, <1>8, <1>9

LEMMA DescendStep ==
  ASSUME NEW s, NEW lev, NEW i \in CPU, Inv(s, lev), phase \in {"init", "setup"}, Descend(i)
  PROVE  Inv(s, lev)'
<1> USE DEF Inv
<1>1. /\ pc[i] = "level" /\ pc' = [pc EXCEPT ![i] = "level"] /\ Ensuring(i) /\ IsTable(Desc(i), level[i])
      /\ level' = [level EXCEPT ![i] = @ + 1] /\ table' = [table EXCEPT ![i] = Desc(i).addr]
      /\ UNCHANGED <<mem, next, owner, boss, steps, op, at, new, saved, want, stale>>
  BY DEF Descend, Goto
<1>2. phase' = phase /\ batch' = batch /\ ptrs' = ptrs /\ descs' = descs
      /\ UNCHANGED <<regions, va, pa, stage, todo>>
  BY <1>1 DEF steps, saved, boss
<1>3. OnPath(i)
  BY <1>1 DEF OnPath
<1> HIDE DEF Inv
<1>4. /\ level[i] + 1 \in Level /\ Desc(i).addr \in Page /\ level[i] \in Level
      /\ Desc(i).addr = TablesIn(mem, op[i].va)[level[i] + 1]
  BY <1>1, <1>3, Here
<1> USE DEF Inv
<1>5. pc'[i] = "level" /\ level'[i] = level[i] + 1 /\ table'[i] = Desc(i).addr /\ \A j \in CPU \ {i} : Same(j)
  BY <1>1, <1>2 DEF TypeOK, Same
<1>6. TypeOK'
  BY <1>1, <1>2, <1>4 DEF TypeOK, PC
<1>7. FunInv' /\ BossInv'
  BY <1>1, <1>2 DEF FunInv, BossInv
<1>8. CallInv(i)'
  <2>1. CallInv(i) /\ op[i].to \in 1 .. 3
    BY <1>1, CallFacts
  <2> QED
    BY <1>1, <1>2, <1>4, <1>5, <2>1 DEF CallInv, Writing, Ensuring, Level
<1>9. PathInv(lev, i)'
  BY <1>1, <1>4, <1>5 DEF PathInv, Path, Linking, Setting, Writing
<1>10. LockInv'
  BY <1>1, <1>5, LockSame DEF Locked
<1> HIDE DEF Inv
<1>11. PtrInv(s, i)'
  BY <1>1, <1>2, PtrSame DEF Inv
<1> QED
  BY <1>1, <1>2, <1>5, <1>6, <1>7, <1>8, <1>9, <1>10, <1>11, Quiet

LEMMA UnlockStep ==
  ASSUME NEW s, NEW lev, NEW i \in CPU, Inv(s, lev), phase \in {"init", "setup"}, Unlock(i)
  PROVE  Inv(s, lev)'
<1>1. /\ pc[i] = "level" /\ pc' = [pc EXCEPT ![i] = "walk"] /\ ~Ensuring(i) /\ owner' = NoCPU
      /\ level' = [level EXCEPT ![i] = 0] /\ table' = [table EXCEPT ![i] = Root]
      /\ UNCHANGED <<mem, next, boss, steps, op, at, new, saved, want, stale>>
  BY DEF Unlock, Goto
<1>2. phase' = phase /\ batch' = batch /\ ptrs' = ptrs /\ descs' = descs
      /\ UNCHANGED <<regions, va, pa, stage, todo>>
  BY <1>1 DEF steps, saved, boss
<1>3. OnPath(i)
  BY <1>1 DEF OnPath
<1>4. table[i] \in Page /\ level[i] \in Level /\ table[i] = TablesIn(mem, op[i].va)[level[i]]
  BY <1>1, <1>3, Here
<1> USE DEF Inv
<1>5. CallInv(i) /\ op[i].to \in 1 .. 3 /\ op[i].walk \in Level
  BY <1>1, CallFacts
<1>6. level[i] = op[i].to
  BY <1>1, <1>4, <1>5 DEF Ensuring, CallInv, Level
<1>7. pc'[i] = "walk" /\ level'[i] = 0 /\ table'[i] = Root /\ \A j \in CPU \ {i} : Same(j)
  BY <1>1, <1>2 DEF TypeOK, Same
<1>8. TypeOK'
  <2>1. Root \in Page /\ 0 \in Level
    BY VmmAssumption DEF Root, Page, Level
  <2> QED
    BY <1>1, <1>2, <2>1 DEF TypeOK, PC
<1>9. FunInv' /\ BossInv'
  BY <1>1, <1>2 DEF FunInv, BossInv
<1>10. CallInv(i)'
  BY <1>1, <1>2, <1>5, <1>7 DEF CallInv, Writing, Level
<1>11. PathInv(lev, i)'
  <2>1. TablesIn(mem, op[i].va)[0] = Root
    BY TablesFacts
  <2>2. TablesIn(mem, op[i].va)[op[i].to] # -1
    BY <1>4, <1>6 DEF Page
  <2> QED
    BY <1>1, <1>7, <2>1, <2>2 DEF PathInv, Path, Linking, Setting, Writing
<1>12. LockInv'
  <2>1. \A j \in CPU : Locked(j) => j = i
    BY <1>1 DEF LockInv, Locked
  <2>2. \A j \in CPU \ {i} : ~Locked(j)'
    BY <1>7, <2>1 DEF Locked, Linking, Ensuring, Same
  <2>3. ~Locked(i)'
    BY <1>7 DEF Locked, Linking, Writing
  <2> QED
    BY <1>1, <2>2, <2>3, VmmAssumption DEF LockInv
<1> HIDE DEF Inv
<1>13. PtrInv(s, i)'
  BY <1>1, <1>2, PtrSame DEF Inv
<1> QED
  BY <1>1, <1>2, <1>7, <1>8, <1>9, <1>10, <1>11, <1>12, <1>13, Quiet

LEMMA WalkStep ==
  ASSUME NEW s, NEW lev, NEW i \in CPU, Inv(s, lev), phase \in {"init", "setup"}, Walk(i)
  PROVE  Inv(s, lev)'
<1>1. /\ pc[i] = "walk" /\ pc' = [pc EXCEPT ![i] = "walk"] /\ Walking(i)
      /\ level' = [level EXCEPT ![i] = @ + 1] /\ table' = [table EXCEPT ![i] = Desc(i).addr]
      /\ UNCHANGED <<mem, next, owner, boss, steps, op, at, new, saved, want, stale>>
  BY DEF Walk, Goto
<1>2. phase' = phase /\ batch' = batch /\ ptrs' = ptrs /\ descs' = descs
      /\ UNCHANGED <<regions, va, pa, stage, todo>>
  BY <1>1 DEF steps, saved, boss
<1>3. OnPath(i)
  BY <1>1 DEF OnPath
<1>4. /\ level[i] + 1 \in Level /\ Desc(i).addr \in Page /\ level[i] \in Level
      /\ Desc(i).addr = TablesIn(mem, op[i].va)[level[i] + 1]
  BY <1>1, <1>3, Here DEF Walking
<1> USE DEF Inv
<1>5. pc'[i] = "walk" /\ level'[i] = level[i] + 1 /\ table'[i] = Desc(i).addr /\ \A j \in CPU \ {i} : Same(j)
  BY <1>1, <1>2 DEF TypeOK, Same
<1>6. TypeOK'
  BY <1>1, <1>2, <1>4 DEF TypeOK, PC
<1>7. FunInv' /\ BossInv'
  BY <1>1, <1>2 DEF FunInv, BossInv
<1>8. CallInv(i)'
  <2>1. CallInv(i) /\ op[i].walk \in Level
    BY <1>1, CallFacts
  <2> QED
    BY <1>1, <1>2, <1>4, <1>5, <2>1 DEF CallInv, Writing, Walking, Level
<1>9. PathInv(lev, i)'
  BY <1>1, <1>4, <1>5 DEF PathInv, Path, Linking, Setting, Writing
<1>10. LockInv'
  <2>1. ~Locked(i) /\ ~Locked(i)'
    BY <1>1, <1>5 DEF Locked, Linking, Writing
  <2> QED
    BY <1>1, <1>5, <2>1, LockSame
<1> HIDE DEF Inv
<1>11. PtrInv(s, i)'
  BY <1>1, <1>2, PtrSame DEF Inv
<1> QED
  BY <1>1, <1>2, <1>5, <1>6, <1>7, <1>8, <1>9, <1>10, <1>11, Quiet

LEMMA ReadStep ==
  ASSUME NEW s, NEW lev, NEW i \in CPU, Inv(s, lev), phase \in {"init", "setup"}, Read(i)
  PROVE  Inv(s, lev)'
<1>1. /\ pc[i] = "read"
      /\ pc' = [pc EXCEPT ![i] = IF Val(at[i]).valid THEN "break"
                                 ELSE IF op[i].kind = "restore" THEN "flush" ELSE "make"]
      /\ UNCHANGED <<mem, next, owner, boss, steps, op, regs, saved, want, stale>>
  BY DEF Read, Goto
<1>2. phase' = phase /\ batch' = batch /\ ptrs' = ptrs /\ descs' = descs
      /\ level' = level /\ table' = table /\ at' = at /\ new' = new
      /\ UNCHANGED <<regions, va, pa, stage, todo>>
  BY <1>1 DEF steps, saved, boss, regs
<1> USE DEF Inv
<1>3. CallInv(i) /\ op[i].kind # "restore"
  BY <1>1, CallFacts
<1>4. pc'[i] = (IF Val(at[i]).valid THEN "break" ELSE "make") /\ \A j \in CPU \ {i} : Same(j)
  BY <1>1, <1>2, <1>3 DEF TypeOK, Same
<1>5. pc' \in [CPU -> PC]
  BY <1>1 DEF TypeOK, PC
<1>6. TypeOK'
  BY <1>1, <1>2, <1>5 DEF TypeOK
<1>7. FunInv' /\ BossInv'
  BY <1>1, <1>2 DEF FunInv, BossInv
<1>8. CallInv(i)'
  BY <1>1, <1>2, <1>3, <1>4 DEF CallInv, Writing, Ensuring
<1>9. PathInv(lev, i)'
  <2>1. (Linking(i)' <=> Linking(i)) /\ (Setting(i)' <=> Setting(i)) /\ (OnPath(i)' => OnPath(i))
    BY <1>1, <1>2, <1>4 DEF Linking, Setting, OnPath, Writing, Ensuring
  <2>2. Val(at[i])' = Val(at[i]) /\ Pte(i)' = Pte(i)
    BY <1>1, <1>2 DEF Val, Pte
  <2> QED
    BY <1>1, <1>2, <1>4, <2>1, <2>2 DEF PathInv, Path
<1>10. LockInv'
  <2>1. Locked(i)' <=> Locked(i)
    BY <1>1, <1>2, <1>4 DEF Locked, Linking, Writing, Ensuring
  <2> QED
    BY <1>1, <1>4, <2>1, LockSame
<1> HIDE DEF Inv
<1>11. PtrInv(s, i)'
  BY <1>1, <1>2, PtrSame DEF Inv
<1> QED
  BY <1>1, <1>2, <1>4, <1>6, <1>7, <1>8, <1>9, <1>10, <1>11, Quiet

LEMMA FlushStep ==
  ASSUME NEW s, NEW lev, NEW i \in CPU, Inv(s, lev), phase \in {"init", "setup"}, Flush(i)
  PROVE  Inv(s, lev)'
<1>1. /\ pc[i] = "flush" /\ pc' = [pc EXCEPT ![i] = "make"] /\ stale' = {}
      /\ UNCHANGED <<mem, next, owner, boss, steps, op, regs, saved, want>>
  BY DEF Flush, Goto
<1>2. phase' = phase /\ batch' = batch /\ ptrs' = ptrs /\ descs' = descs
      /\ level' = level /\ table' = table /\ at' = at /\ new' = new
      /\ UNCHANGED <<regions, va, pa, stage, todo>>
  BY <1>1 DEF steps, saved, boss, regs
<1> USE DEF Inv
<1>4. pc'[i] = "make" /\ \A j \in CPU \ {i} : Same(j)
  BY <1>1, <1>2 DEF TypeOK, Same
<1>6. TypeOK'
  BY <1>1, <1>2 DEF TypeOK, PC
<1>7. FunInv' /\ BossInv'
  BY <1>1, <1>2 DEF FunInv, BossInv
<1>8. CallInv(i)'
  BY <1>1, <1>2, <1>4 DEF CallInv, Writing, Ensuring
<1>9. PathInv(lev, i)'
  <2>1. (Linking(i)' <=> Linking(i)) /\ (Setting(i)' <=> Setting(i)) /\ (OnPath(i)' => OnPath(i))
    BY <1>1, <1>2, <1>4 DEF Linking, Setting, OnPath, Writing, Ensuring
  <2>2. Val(at[i])' = Val(at[i]) /\ Pte(i)' = Pte(i)
    BY <1>1, <1>2 DEF Val, Pte
  <2> QED
    BY <1>1, <1>2, <1>4, <2>1, <2>2 DEF PathInv, Path
<1>10. LockInv'
  <2>1. Locked(i)' <=> Locked(i)
    BY <1>1, <1>2, <1>4 DEF Locked, Linking, Writing, Ensuring
  <2> QED
    BY <1>1, <1>4, <2>1, LockSame
<1> HIDE DEF Inv
<1>11. PtrInv(s, i)'
  BY <1>1, <1>2, PtrSame DEF Inv
<1> QED
  BY <1>1, <1>2, <1>4, <1>6, <1>7, <1>8, <1>9, <1>10, <1>11, Quiet

(* The end of a walk: it has come at least as far as the tables that were  *)
(* ensured.                                                                *)
LEMMA WalkEnd ==
  ASSUME NEW s, NEW lev, NEW i \in CPU, Inv(s, lev), phase \in {"init", "setup"},
         pc[i] = "walk", ~Walking(i)
  PROVE  /\ level[i] = op[i].walk \/ (~Tab(Desc(i)) /\ level[i] \in op[i].to .. 2)
         /\ op[i].walk = 3 => level[i] >= op[i].to
<1>1. OnPath(i) /\ pc[i] # "idle" /\ CallInv(i) /\ PathInv(lev, i)
  BY DEF OnPath, Inv
<1>2. /\ op[i].va \in Nat /\ op[i].to \in 1 .. 3 /\ op[i].walk \in Level
      /\ op[i].kind = "set" => op[i].walk = 3
  BY <1>1, CallFacts
<1>3. /\ level[i] \in Level /\ table[i] = TablesIn(mem, op[i].va)[level[i]]
      /\ Desc(i) = mem[table[i]][OFFS(op[i].va, level[i])]
      /\ Good(mem, next, lev) /\ next \in 1 .. MaxPages + 1
  BY <1>1, Here
<1>4. TablesIn(mem, op[i].va)[op[i].to] # -1 /\ level[i] <= op[i].walk
  BY <1>1 DEF PathInv, Path, CallInv
<1>5. ASSUME level[i] < op[i].to
      PROVE  IsTable(Desc(i), level[i])
  <2>1. level[i] + 1 \in 0 .. op[i].to /\ op[i].to \in Level /\ level[i] \in 0 .. 2
    BY <1>2, <1>3, <1>5 DEF Level
  <2>2. TablesIn(mem, op[i].va)[level[i] + 1] # -1
    BY <1>2, <1>3, <1>4, <2>1, PathDown
  <2>3. Tab(mem[TablesIn(mem, op[i].va)[level[i]]][OFFS(op[i].va, level[i])])
    BY <1>2, <1>3, <2>1, <2>2, Levels
  <2> QED
    BY <1>3, <2>1, <2>3 DEF Tab, IsTable
<1>6. level[i] = op[i].walk \/ (level[i] < op[i].walk /\ ~IsTable(Desc(i), level[i]))
  BY <1>2, <1>3, <1>4 DEF Walking, Level
<1>7. CASE level[i] = op[i].walk
  BY <1>2, <1>7
<1>8. CASE level[i] < op[i].walk /\ ~IsTable(Desc(i), level[i])
  <2>1. level[i] >= op[i].to
    BY <1>2, <1>3, <1>5, <1>8 DEF Level
  <2>2. level[i] \in op[i].to .. 2
    BY <1>2, <1>3, <1>8, <2>1 DEF Level
  <2>3. ~Tab(Desc(i))
    BY <1>8, <2>2, <1>2 DEF IsTable, Tab
  <2> QED
    BY <2>1, <2>2, <2>3
<1> QED
  BY <1>6, <1>7, <1>8

LEMMA WalkedSetStep ==
  ASSUME NEW s, NEW lev, NEW i \in CPU, Inv(s, lev), phase \in {"init", "setup"}, WalkedSet(i)
  PROVE  Inv(s, lev)'
<1> DEFINE e == IF op[i].pa = Unmapped THEN Invalid0 ELSE BlockDesc(op[i].pa, level[i])
<1>1. /\ pc[i] = "walk" /\ pc' = [pc EXCEPT ![i] = "read"] /\ ~Walking(i) /\ op[i].kind = "set"
      /\ at' = [at EXCEPT ![i] = Pte(i)] /\ new' = [new EXCEPT ![i] = e]
      /\ UNCHANGED <<mem, next, owner, boss, steps, op, level, table, saved, want, stale>>
  BY DEF WalkedSet, Goto
<1>2. phase' = phase /\ batch' = batch /\ ptrs' = ptrs /\ descs' = descs
      /\ UNCHANGED <<regions, va, pa, stage, todo>>
  BY <1>1 DEF steps, saved, boss
<1>3. OnPath(i)
  BY <1>1 DEF OnPath
<1>4. /\ Pte(i) \in Page \X Index /\ level[i] \in Level
      /\ Desc(i) = Val(Pte(i)) /\ table[i] = TablesIn(mem, op[i].va)[level[i]]
  BY <1>1, <1>3, Here DEF Desc
<1> USE DEF Inv
<1>5. CallInv(i) /\ op[i].pa \in Nat \cup {-1} /\ phase = "init" /\ op[i].to \in 1 .. 3 /\ op[i].walk = 3
  BY <1>1, CallFacts
<1>6. (level[i] = 3 \/ ~Tab(Desc(i))) /\ level[i] >= op[i].to
  BY <1>1, <1>5, WalkEnd
<1>7. e \in Entry /\ (e = Invalid0 \/ e = BlockDesc(e.addr, level[i]))
  BY <1>4, <1>5 DEF Invalid0, BlockDesc, Entry, Unmapped
<1> HIDE DEF e
<1>8. pc'[i] = "read" /\ at'[i] = Pte(i) /\ new'[i] = e /\ \A j \in CPU \ {i} : Same(j)
  BY <1>1, <1>2 DEF TypeOK, Same
<1>9. TypeOK'
  BY <1>1, <1>2, <1>4, <1>7 DEF TypeOK, PC
<1>10. FunInv' /\ BossInv'
  BY <1>1, <1>2 DEF FunInv, BossInv
<1>11. CallInv(i)'
  BY <1>1, <1>2, <1>5, <1>8 DEF CallInv, Writing
<1>12. ~Ensuring(i) /\ ~Ensuring(i)'
  BY <1>1, <1>4, <1>5, <1>6 DEF Ensuring, Level
<1>13. PathInv(lev, i)'
  <2>1. ~Linking(i)' /\ Pte(i)' = Pte(i) /\ Val(at[i])' = Val(Pte(i))
    BY <1>1, <1>8, <1>12 DEF Linking, Pte, Val
  <2>2. Path(op[i].va)[op[i].to] # -1
    BY <1>1 DEF PathInv
  <2> QED
    BY <1>1, <1>4, <1>6, <1>7, <1>8, <2>1, <2>2 DEF PathInv, Path, Setting
<1>14. LockInv'
  <2>1. ~Locked(i) /\ ~Locked(i)'
    BY <1>1, <1>8, <1>12 DEF Locked, Linking
  <2> QED
    BY <1>1, <1>8, <2>1, LockSame
<1> HIDE DEF Inv
<1>15. PtrInv(s, i)'
  BY <1>1, <1>2, PtrSame DEF Inv
<1> QED
  BY <1>1, <1>2, <1>8, <1>9, <1>10, <1>11, <1>13, <1>14, <1>15, Quiet

LEMMA WalkedLookupStep ==
  ASSUME NEW s, NEW lev, NEW i \in CPU, Inv(s, lev), phase \in {"init", "setup"}, WalkedLookup(i)
  PROVE  Inv(s, lev)'
<1>1. /\ pc[i] = "walk" /\ pc' = [pc EXCEPT ![i] = "save"] /\ ~Walking(i) /\ op[i].kind = "lookup"
      /\ at' = [at EXCEPT ![i] = Pte(i)]
      /\ UNCHANGED <<mem, next, owner, boss, steps, op, level, table, new, saved, want, stale>>
  BY DEF WalkedLookup, Goto
<1>2. phase' = phase /\ batch' = batch /\ ptrs' = ptrs /\ descs' = descs
      /\ UNCHANGED <<regions, va, pa, stage, todo>>
  BY <1>1 DEF steps, saved, boss
<1>3. OnPath(i)
  BY <1>1 DEF OnPath
<1>4. Pte(i) \in Page \X Index /\ level[i] \in Level
  BY <1>1, <1>3, Here DEF Desc
<1>5. level[i] = op[i].walk \/ level[i] \in op[i].to .. 2
  BY <1>1, WalkEnd
<1> USE DEF Inv
<1>6. CallInv(i) /\ op[i].to = 3 /\ phase = "setup"
  BY <1>1, CallFacts
<1>7. level[i] = op[i].walk
  BY <1>5, <1>6
<1>8. pc'[i] = "save" /\ at'[i] = Pte(i) /\ \A j \in CPU \ {i} : Same(j)
  BY <1>1, <1>2 DEF TypeOK, Same
<1>9. TypeOK'
  BY <1>1, <1>2, <1>4 DEF TypeOK, PC
<1>10. FunInv' /\ BossInv'
  BY <1>1, <1>2 DEF FunInv, BossInv
<1>11. Pte(i)' = Pte(i)
  BY <1>1 DEF Pte
<1>12. CallInv(i)'
  BY <1>1, <1>2, <1>6, <1>7, <1>8, <1>11 DEF CallInv, Writing
<1>13. PathInv(lev, i)'
  <2>1. Path(op[i].va)[op[i].to] # -1 /\ table[i] = Path(op[i].va)[level[i]]
    BY <1>1, <1>3 DEF PathInv
  <2> QED
    BY <1>1, <1>8, <2>1 DEF PathInv, Path, Setting, Linking, Writing
<1>14. LockInv'
  <2>1. ~Locked(i) /\ ~Locked(i)'
    BY <1>1, <1>8 DEF Locked, Linking, Writing
  <2> QED
    BY <1>1, <1>8, <2>1, LockSame
<1> HIDE DEF Inv
<1>15. PtrInv(s, i)'
  BY <1>1, <1>2, PtrSame DEF Inv
<1> QED
  BY <1>1, <1>2, <1>8, <1>9, <1>10, <1>12, <1>13, <1>14, <1>15, Quiet

LEMMA SaveStep ==
  ASSUME NEW s, NEW lev, NEW i \in CPU, Inv(s, lev), phase \in {"init", "setup"}, Save(i)
  PROVE  Inv(s, lev)'
<1>1. /\ pc[i] = "save" /\ pc' = [pc EXCEPT ![i] = "idle"]
      /\ ptrs' = [ptrs EXCEPT ![i] = Append(@, at[i])]
      /\ descs' = [descs EXCEPT ![i] = Append(@, Val(at[i]))]
      /\ op' = [op EXCEPT ![i] = NoCall]
      /\ level' = [level EXCEPT ![i] = 0]
      /\ table' = [table EXCEPT ![i] = Root]
      /\ at' = [at EXCEPT ![i] = NoPtr]
      /\ new' = [new EXCEPT ![i] = Invalid0]
      /\ UNCHANGED <<mem, next, owner, boss, steps, want, stale>>
  BY DEF Save, Goto, Return
<1>2. phase' = phase /\ batch' = batch /\ UNCHANGED <<regions, va, pa, stage, todo>>
  BY <1>1 DEF steps, boss
<1>3. OnPath(i)
  BY <1>1 DEF OnPath
<1>4. Pte(i) \in Page \X Index /\ Desc(i) \in Entry /\ mem = s
  BY <1>1, <1>3, Here
<1> USE DEF Inv
<1>5. CallInv(i) /\ op[i].to = 3 /\ phase = "setup"
  BY <1>1, CallFacts DEF CallInv
<1>6. /\ at[i] = Pte(i) /\ level[i] = op[i].walk /\ Len(ptrs[i]) < 4 * Len(Heap)
      /\ op[i].va = VarOf(Len(ptrs[i])) /\ op[i].walk = LevelAt(Len(ptrs[i]))
  BY <1>1, <1>5 DEF CallInv
<1>7. Path(op[i].va)[3] # -1 /\ table[i] = Path(op[i].va)[level[i]]
  BY <1>1, <1>3, <1>5 DEF PathInv
<1>8. ptrs[i] \in Seq(Page \X Index) /\ descs[i] \in Seq(Entry) /\ at[i] \in Page \X Index /\ Val(at[i]) \in Entry
  BY <1>4, <1>6 DEF FunInv, Desc
<1>9. /\ pc'[i] = "idle" /\ op'[i] = NoCall /\ level'[i] = 0 /\ table'[i] = Root
      /\ ptrs'[i] = Append(ptrs[i], at[i]) /\ descs'[i] = Append(descs[i], Val(at[i]))
      /\ \A j \in CPU \ {i} : Same(j)
  BY <1>1, <1>2 DEF TypeOK, FunInv, Same
<1>10. TypeOK'
  <2>1. Root \in Page /\ 0 \in Level /\ NoPtr \in Page \X Index /\ Invalid0 \in Entry
    BY VmmAssumption DEF Root, Page, Level, NoPtr, Index, Invalid0, Entry
  <2> QED
    BY <1>1, <1>2, <2>1 DEF TypeOK, PC
<1>11. FunInv' /\ BossInv'
  <2>1. Append(ptrs[i], at[i]) \in Seq(Page \X Index) /\ Append(descs[i], Val(at[i])) \in Seq(Entry)
    BY <1>8
  <2>2. NoCall \in AnyCall
    BY DEF AnyCall
  <2>3. op' \in [CPU -> AnyCall]
    BY <1>1, <2>2 DEF FunInv
  <2>4. ptrs' \in [CPU -> Seq(Page \X Index)] /\ descs' \in [CPU -> Seq(Entry)]
    BY <1>1, <2>1 DEF FunInv
  <2>5. BossInv'
    BY <1>1, <1>2 DEF BossInv
  <2> QED
    BY <2>3, <2>4, <2>5 DEF FunInv
<1>12. CallInv(i)'
  BY <1>9 DEF CallInv
<1>13. PathInv(lev, i)'
  BY <1>9 DEF PathInv, OnPath, Setting, Linking, Writing
<1>14. LockInv'
  <2>1. ~Locked(i) /\ ~Locked(i)'
    BY <1>1, <1>9 DEF Locked, Linking, Writing
  <2> QED
    BY <1>1, <1>9, <2>1, LockSame
<1>15. PtrInv(s, i)'
  <2>0. PtrInv(s, i)
    OBVIOUS
  <2>1. Len(Heap) \in Nat /\ Len(ptrs[i]) \in Nat /\ Len(descs[i]) = Len(ptrs[i])
    BY <1>8, <2>0, VmmAssumption DEF PtrInv
  <2>2. /\ Len(ptrs'[i]) = Len(ptrs[i]) + 1 /\ Len(descs'[i]) = Len(ptrs[i]) + 1
        /\ ptrs'[i][Len(ptrs[i]) + 1] = at[i] /\ descs'[i][Len(ptrs[i]) + 1] = Val(at[i])
        /\ \A n \in 1 .. Len(ptrs[i]) : ptrs'[i][n] = ptrs[i][n] /\ descs'[i][n] = descs[i][n]
    BY <1>8, <1>9, <2>1
  <2>3. ASSUME NEW n \in 1 .. Len(ptrs[i]) + 1
        PROVE  /\ Ent(s, ptrs'[i][n]) = descs'[i][n]
               /\ Path(VarOf(n - 1))[3] # -1
               /\ ptrs'[i][n] = <<Path(VarOf(n - 1))[LevelAt(n - 1)], OFFS(VarOf(n - 1), LevelAt(n - 1))>>
    <3>1. CASE n \in 1 .. Len(ptrs[i])
      BY <1>5, <2>0, <2>2, <3>1 DEF PtrInv
    <3>2. CASE n = Len(ptrs[i]) + 1
      <4>1. n - 1 = Len(ptrs[i])
        BY <2>1, <3>2
      <4>2. at[i] = <<Path(VarOf(n - 1))[LevelAt(n - 1)], OFFS(VarOf(n - 1), LevelAt(n - 1))>>
        BY <1>6, <1>7, <4>1 DEF Pte
      <4> QED
        BY <1>4, <1>6, <1>7, <2>2, <3>2, <4>1, <4>2 DEF Val, Ent
    <3> QED
      BY <2>1, <3>1, <3>2
  <2>4. Len(ptrs'[i]) <= 4 * Len(Heap)
    BY <1>6, <2>1, <2>2
  <2>5. \A a : Path(a)' = Path(a)
    BY <1>1 DEF Path
  <2> QED
    BY <1>2, <1>5, <2>2, <2>3, <2>4, <2>5 DEF PtrInv
<1> HIDE DEF Inv
<1> QED
  BY <1>1, <1>2, <1>9, <1>10, <1>11, <1>12, <1>13, <1>14, <1>15, Quiet

-----------------------------------------------------------------------------
(* Steps that write to the pagetable, while no test is running: by the     *)
(* boss, who is alone, or by the owner of the lock.                        *)
LEMMA Alone ==
  ASSUME NEW s, NEW lev, NEW i \in CPU, Inv(s, lev), phase \in {"init", "setup"},
         pc[i] \in Writing \/ pc[i] = "level"
  PROVE  /\ \A j \in CPU \ {i} : pc[j] \notin Writing
         /\ pc[i] # "flush" => \A y \in stale : Harmless(mem, y)
         /\ pc[i] \in Writing => Linking(i) \/ Setting(i)
<1> USE DEF Inv
<1>1. \A j \in CPU : CallInv(j)
  OBVIOUS
<1>2. ASSUME NEW j \in CPU, pc[j] \in Writing PROVE j = i
  <2>1. pc[i] # "idle" /\ pc[j] # "idle"
    BY <1>2 DEF Writing
  <2>2. CASE phase = "init"
    BY <1>1, <2>1, <2>2 DEF CallInv
  <2>3. CASE phase = "setup"
    <3>1. Linking(j)
      BY <1>1, <1>2, <2>1, <2>3 DEF CallInv, Linking
    <3>2. Locked(i)
      BY <1>1, <2>1, <2>3 DEF CallInv, Linking, Locked
    <3> QED
      BY <3>1, <3>2 DEF LockInv, Locked
  <2> QED
    BY <2>2, <2>3
<1>3. ASSUME pc[i] # "flush" PROVE \A y \in stale : Harmless(mem, y)
  <2>1. \A j \in CPU : pc[j] # "flush"
    BY <1>2, <1>3 DEF Writing
  <2> QED
    BY <2>1 DEF StaleInv
<1>4. ASSUME pc[i] \in Writing PROVE Linking(i) \/ Setting(i)
  <2>1. pc[i] # "idle"
    BY <1>4 DEF Writing
  <2>2. op[i].kind \in {"set", "lookup"} /\ (op[i].kind = "set" <=> phase = "init")
    BY <2>1, CallFacts
  <2> QED
    BY <1>1, <1>4, <2>1, <2>2 DEF CallInv, Linking, Setting
<1> QED
  BY <1>2, <1>3, <1>4

(* What setup_run_data has stored are entries that lead to tables, or of   *)
(* the last level.                                                         *)
LEMMA PtrFacts ==
  ASSUME NEW s, NEW lev, NEW j \in CPU, Inv(s, lev), phase \in {"init", "setup"},
         NEW n \in 1 .. Len(ptrs[j])
  PROVE  LET x == ptrs[j][n] IN
         /\ x[1] \in Page /\ x[2] \in Index /\ x = <<x[1], x[2]>> /\ x[1] < next
         /\ lev[x[1]] = 3 \/ Tab(Ent(mem, x))
<1> DEFINE v == VarOf(n - 1)  l == LevelAt(n - 1)
<1> USE DEF Inv
<1>1. PtrInv(s, j) /\ Len(ptrs[j]) \in Nat
  BY DEF FunInv
<1>2. phase = "setup"
  BY <1>1 DEF PtrInv
<1>3. n - 1 \in Nat /\ n - 1 < 4 * Len(Heap)
  BY <1>1, VmmAssumption DEF PtrInv
<1>4. v \in Nat /\ l \in Level
  BY <1>3, VarIsNat
<1>5. TablesIn(mem, v)[3] # -1 /\ ptrs[j][n] = <<TablesIn(mem, v)[l], OFFS(v, l)>>
  BY <1>1, <1>2 DEF PtrInv, Path
<1>6. Good(mem, next, lev) /\ next \in 1 .. MaxPages + 1
  BY <1>2 DEF CleanInv, TypeOK
<1> HIDE DEF v, l
<1>7. 3 \in Level /\ l \in 0 .. 3
  BY <1>4 DEF Level
<1>8. TablesIn(mem, v)[l] # -1
  BY <1>4, <1>5, <1>6, <1>7, PathDown
<1>9. /\ TablesIn(mem, v)[l] \in Page /\ TablesIn(mem, v)[l] < next /\ lev[TablesIn(mem, v)[l]] = l
      /\ OFFS(v, l) \in Index
  <2> HIDE DEF Inv
  <2>1. OFFS(v, l) \in Index
    BY <1>4, Offsets
  <2>2. \A h \in Level : TablesIn(mem, v)[h] \in Page \cup {-1}
          /\ (TablesIn(mem, v)[h] # -1 => lev[TablesIn(mem, v)[h]] = h /\ TablesIn(mem, v)[h] < next)
    BY <1>4, <1>6, Levels
  <2> QED
    BY <1>4, <1>8, <2>1, <2>2
<1>10. ASSUME l # 3 PROVE Tab(mem[TablesIn(mem, v)[l]][OFFS(v, l)])
  <2>1. l \in 0 .. 2 /\ l + 1 \in 0 .. 3
    BY <1>7, <1>10
  <2>2. TablesIn(mem, v)[l + 1] # -1
    BY <1>4, <1>5, <1>6, <1>7, <2>1, PathDown
  <2> QED
    BY <1>4, <1>6, <2>1, <2>2, Levels
<1> QED
  BY <1>5, <1>9, <1>10 DEF Ent

LEMMA Changed ==
  ASSUME NEW s, NEW lev, NEW s2, NEW lev2, NEW i \in CPU, Inv(s, lev), s2 = mem',
         phase \in {"init", "setup"}, phase' = phase,
         pc[i] \in Writing \/ pc[i] = "level",
         next' \in Nat, next <= next', \A q \in Page : q < next => lev2[q] = lev[q],
         Keeps(mem, mem'), Good(s2, next', lev2), \A j \in CPU \ {i} : Same(j),
         \A j \in CPU : \A n \in 1 .. Len(ptrs[j]) : Ent(mem', ptrs[j][n]) = Ent(mem, ptrs[j][n]),
         ptrs' = ptrs, descs' = descs,
         StaleInv', TypeOK', FunInv', BossInv', LockInv', CallInv(i)', PathInv(lev2, i)'
  PROVE  Inv(s2, lev2)'
<1>1. mem = s
  BY DEF Inv, CleanInv
<1>2. CleanInv(s2)'
  BY DEF CleanInv
<1>3. \A j \in CPU \ {i} : pc[j] \notin Writing
  BY Alone
<1>4. TypeOK /\ FunInv /\ \A j \in CPU : PtrInv(mem, j)
  BY <1>1 DEF Inv
<1>5. ASSUME NEW j \in CPU, j # i PROVE CallInv(j)' /\ PathInv(lev2, j)'
  <2>1. CallInv(j) /\ PathInv(lev, j) /\ Same(j)
    BY <1>5 DEF Inv
  <2>2. CallInv(j)'
    BY <2>1, OtherCall
  <2>3. PathInv(lev2, j)'
    BY <1>3, <1>4, <1>5, <2>1, OtherPath
  <2> QED
    BY <2>2, <2>3
<1>6. ASSUME NEW j \in CPU PROVE PtrInv(s2, j)'
  <2>1. PtrInv(mem, j) /\ ptrs'[j] = ptrs[j] /\ descs'[j] = descs[j]
    BY <1>4
  <2> QED
    BY <1>4, <2>1, OtherPtr
<1>7. Good(s2, next, lev2)'
  BY DEF Good
<1> QED
  BY <1>2, <1>5, <1>6, <1>7 DEF Inv

(* vmm_update_pte writes e to the entry of a path. *)
LEMMA Written ==
  ASSUME NEW s, NEW lev, NEW i \in CPU, Inv(s, lev), phase \in {"init", "setup"}, phase' = phase,
         pc[i] \in Writing, next' = next, NEW e \in Entry,
         mem' = [mem EXCEPT ![at[i][1]][at[i][2]] = e],
         IsTable(e, level[i]) =>
           e.bit1 /\ e.addr \in 1 .. next - 1 /\ lev[e.addr] = level[i] + 1,
         \A j \in CPU \ {i} : Same(j), ptrs' = ptrs, descs' = descs,
         Keeps(mem, mem') => PathInv(lev, i)',
         StaleInv', TypeOK', FunInv', BossInv', LockInv', CallInv(i)'
  PROVE  IInv'
<1>1. Linking(i) \/ Setting(i)
  BY Alone
<1>2. OnPath(i)
  BY <1>1 DEF OnPath
<1>3. /\ Pte(i) = <<table[i], OFFS(op[i].va, level[i])>> /\ table[i] \in Page /\ table[i] < next
      /\ OFFS(op[i].va, level[i]) \in Index /\ lev[table[i]] = level[i] /\ level[i] \in Level
      /\ mem = s /\ Good(mem, next, lev) /\ next \in 1 .. MaxPages + 1
  BY <1>2, Here
<1>4. PathInv(lev, i) /\ CallInv(i) /\ pc[i] # "idle"
  BY DEF Inv, Writing
<1>5. at[i] = Pte(i) /\ (level[i] = 3 \/ ~Tab(Val(at[i])))
  BY <1>1, <1>4 DEF PathInv
<1> DEFINE p == table[i]  k == OFFS(op[i].va, level[i])
<1>6. at[i][1] = p /\ at[i][2] = k
  BY <1>3, <1>5
<1>7. p \in Page /\ p < next /\ k \in Index /\ lev[p] = level[i] /\ (level[i] = 3 \/ ~Tab(mem[p][k]))
  BY <1>3, <1>5, <1>6 DEF Val
<1>8. mem' = [mem EXCEPT ![p][k] = e]
  BY <1>6
<1> HIDE DEF p, k
<1>9. Good([mem EXCEPT ![p][k] = e], next, lev)
  BY <1>3, <1>7, GoodWrite
<1>10. mem \in [Page -> [Index -> Entry]]
  BY <1>3 DEF Good
<1>11. \A q \in Page, h \in Index : q # p \/ h # k => mem'[q][h] = mem[q][h]
  <2>1. \A q \in Page, h \in Index : mem'[q][h] = IF q = p /\ h = k THEN e ELSE mem[q][h]
    BY <1>7, <1>8, <1>10
  <2> QED
    BY <2>1
<1>12. Keeps(mem, mem')
  <2>1. \A q \in Page, h \in Index : q < next /\ lev[q] < 3 /\ Tab(mem[q][h]) => mem'[q][h] = mem[q][h]
    <3> SUFFICES ASSUME NEW q \in Page, NEW h \in Index, q < next, lev[q] < 3, Tab(mem[q][h])
                 PROVE  mem'[q][h] = mem[q][h]
      OBVIOUS
    <3>1. q # p \/ h # k
      BY <1>7
    <3> QED
      BY <1>11, <3>1
  <2>2. PICK m2 : m2 = mem'
    OBVIOUS
  <2>3. \A q \in Page, h \in Index : q < next /\ lev[q] < 3 /\ Tab(mem[q][h]) => m2[q][h] = mem[q][h]
    BY <2>1, <2>2
  <2>4. Good(mem, next, lev) /\ next \in 1 .. MaxPages + 1
    BY <1>3
  <2>5. Keeps(mem, m2)
    BY <2>3, <2>4, KeepsIf
  <2> QED
    BY <2>2, <2>5
<1>13. ASSUME NEW j \in CPU, NEW n \in 1 .. Len(ptrs[j])
       PROVE  Ent(mem', ptrs[j][n]) = Ent(mem, ptrs[j][n])
  <2> DEFINE x == ptrs[j][n]
  <2>1. x[1] \in Page /\ x[2] \in Index /\ (lev[x[1]] = 3 \/ Tab(Ent(mem, x)))
    BY PtrFacts
  <2>2. lev[x[1]] = 3 => phase = "setup"
    <3>1. phase = "init" => ptrs[j] = <<>>
      BY DEF Inv, PtrInv
    <3> QED
      BY <3>1
  <2>3. phase = "setup" => level[i] # 3
    <3>1. ASSUME phase = "setup" PROVE Ensuring(i) /\ op[i].to \in 1 .. 3
      BY <1>4, <3>1, CallFacts DEF CallInv
    <3> QED
      BY <1>3, <3>1 DEF Ensuring, Level
  <2>4. phase = "setup"
    <3>1. phase = "init" => ptrs[j] = <<>>
      BY DEF Inv, PtrInv
    <3> QED
      BY <3>1
  <2>5. x[1] # p \/ x[2] # k
    BY <1>7, <2>1, <2>3, <2>4 DEF Ent
  <2> QED
    BY <1>11, <2>1, <2>5 DEF Ent
<1> SUFFICES \E s2 \in [Page -> [Index -> Entry]] : s2 = mem' /\ Inv(s2, lev)'
  <2>1. lev \in [Page -> Level]
    BY <1>3 DEF Good
  <2> QED
    BY <2>1 DEF IInv
<1>14. PICK s2 \in [Page -> [Index -> Entry]] : s2 = mem'
  BY <1>8, <1>9 DEF Good
<1>15. Good(s2, next', lev)
  BY <1>8, <1>9, <1>14
<1>16. next' \in Nat /\ next <= next'
  BY <1>3
<1>17. PathInv(lev, i)'
  BY <1>12
<1>18. Inv(s2, lev)'
  BY <1>12, <1>13, <1>14, <1>15, <1>16, <1>17, Changed
<1> QED
  BY <1>14, <1>18

LEMMA NewTableStep ==
  ASSUME NEW s, NEW lev, NEW i \in CPU, Inv(s, lev), phase \in {"init", "setup"}, NewTable(i)
  PROVE  IInv'
<1> DEFINE e == IF IsBlock(Desc(i), level[i])
                THEN BlockDesc(AlignTo(Desc(i).addr, level[i]), level[i])
                ELSE Invalid0
<1>1. /\ pc[i] = "level" /\ pc' = [pc EXCEPT ![i] = "read"]
      /\ Ensuring(i) /\ ~IsTable(Desc(i), level[i]) /\ next <= MaxPages
      /\ mem' = [mem EXCEPT ![next] = [k \in Index |-> e]]
      /\ next' = next + 1
      /\ at' = [at EXCEPT ![i] = Pte(i)] /\ new' = [new EXCEPT ![i] = TableDesc(next)]
      /\ UNCHANGED <<owner, boss, steps, op, level, table, saved, want, stale>>
  BY DEF NewTable, Goto
<1>2. phase' = phase /\ batch' = batch /\ ptrs' = ptrs /\ descs' = descs
      /\ UNCHANGED <<regions, va, pa, stage, todo>>
  BY <1>1 DEF steps, saved, boss
<1>3. OnPath(i)
  BY <1>1 DEF OnPath
<1>4. /\ Pte(i) = <<table[i], OFFS(op[i].va, level[i])>> /\ table[i] \in Page /\ table[i] < next
      /\ OFFS(op[i].va, level[i]) \in Index /\ lev[table[i]] = level[i] /\ level[i] \in Level
      /\ mem = s /\ Good(mem, next, lev) /\ next \in 1 .. MaxPages + 1
      /\ Desc(i) \in Entry /\ Pte(i) \in Page \X Index
      /\ Desc(i) = mem[table[i]][OFFS(op[i].va, level[i])]
  BY <1>3, Here
<1>5. CallInv(i) /\ op[i].to \in 1 .. 3 /\ TypeOK /\ FunInv /\ BossInv /\ LockInv /\ PathInv(lev, i) /\ StaleInv
  BY <1>1, CallFacts DEF Inv
<1>6. level[i] \in 0 .. 2 /\ level[i] + 1 \in 1 .. 3
  BY <1>1, <1>4, <1>5 DEF Ensuring, Level
<1>7. ~Tab(Desc(i))
  BY <1>1, <1>6 DEF IsTable, Tab
<1>8. next \in Page /\ next \in Nat /\ table[i] # next
  BY <1>1, <1>4 DEF Page
<1>9. e \in Entry /\ ~IsTable(e, level[i] + 1)
  <2>1. AlignTo(Desc(i).addr, level[i]) \in Nat
    BY <1>4, Offsets DEF Entry
  <2>2. Invalid0 \in Entry /\ ~IsTable(Invalid0, level[i] + 1)
    BY DEF Invalid0, Entry, IsTable
  <2>3. ASSUME NEW a \in Nat
        PROVE  BlockDesc(a, level[i]) \in Entry /\ ~IsTable(BlockDesc(a, level[i]), level[i] + 1)
    <3>1. (level[i] = 3) = FALSE /\ level[i] + 1 # 0
      BY <1>6
    <3>2. BlockDesc(a, level[i]) = [valid |-> TRUE, bit1 |-> FALSE, addr |-> a]
      BY <3>1 DEF BlockDesc
    <3> QED
      BY <3>1, <3>2 DEF Entry, IsTable
  <2> QED
    BY <2>1, <2>2, <2>3
<1> HIDE DEF e
<1>10. mem \in [Page -> [Index -> Entry]] /\ lev \in [Page -> Level]
  BY <1>4 DEF Good
<1>11. /\ mem' \in [Page -> [Index -> Entry]]
       /\ \A q \in Page, h \in Index : mem'[q][h] = IF q = next THEN e ELSE mem[q][h]
  BY <1>1, <1>8, <1>9, <1>10
<1>12. PICK lev2 \in [Page -> Level] :
         \A q \in Page : lev2[q] = IF q = next THEN level[i] + 1 ELSE lev[q]
  <2> DEFINE f == [q \in Page |-> IF q = next THEN level[i] + 1 ELSE lev[q]]
  <2>1. f \in [Page -> Level]
    BY <1>6, <1>10 DEF Level
  <2>2. \A q \in Page : f[q] = IF q = next THEN level[i] + 1 ELSE lev[q]
    OBVIOUS
  <2> HIDE DEF f
  <2> QED
    BY <2>1, <2>2
<1>13. PICK s2 \in [Page -> [Index -> Entry]] : s2 = mem'
  BY <1>11
<1>14. Good(s2, next + 1, lev2)
  <2>1. lev2[Root] = 0
    BY <1>4, <1>12, VmmAssumption DEF Good, Root, Page
  <2>2. ASSUME NEW p \in Page, NEW k \in Index, IsTable(s2[p][k], lev2[p])
        PROVE  s2[p][k].bit1 /\ s2[p][k].addr \in 1 .. next /\ lev2[s2[p][k].addr] = lev2[p] + 1
    <3>1. p # next
      BY <1>9, <1>11, <1>12, <1>13, <2>2
    <3>2. IsTable(mem[p][k], lev[p]) /\ s2[p][k] = mem[p][k] /\ lev2[p] = lev[p]
      BY <1>11, <1>12, <1>13, <2>2, <3>1
    <3>3. mem[p][k].bit1 /\ mem[p][k].addr \in 1 .. next - 1 /\ lev[mem[p][k].addr] = lev[p] + 1
      BY <1>4, <3>2 DEF Good
    <3>4. mem[p][k].addr \in Page /\ mem[p][k].addr # next
      BY <1>8, <3>3, VmmAssumption DEF Page
    <3> QED
      BY <1>8, <1>12, <3>2, <3>3, <3>4
  <2>3. ASSUME NEW p \in Page, NEW k \in Index, p >= next + 1 PROVE ~s2[p][k].valid
    BY <1>4, <1>8, <1>11, <1>13, <2>3 DEF Good, Page
  <2>4. (next + 1) - 1 = next
    BY <1>8
  <2> QED
    BY <1>12, <1>13, <2>1, <2>2, <2>3, <2>4 DEF Good
<1>15. Keeps(mem, mem')
  <2>1. \A q \in Page, h \in Index : q < next /\ lev[q] < 3 /\ Tab(mem[q][h]) => s2[q][h] = mem[q][h]
    BY <1>8, <1>11, <1>13 DEF Page
  <2>2. Good(mem, next, lev) /\ next \in 1 .. MaxPages + 1
    BY <1>4
  <2>3. Keeps(mem, s2)
    BY <2>1, <2>2, KeepsIf
  <2> QED
    BY <1>13, <2>3
<1>16. ASSUME NEW j \in CPU, NEW n \in 1 .. Len(ptrs[j])
       PROVE  Ent(mem', ptrs[j][n]) = Ent(mem, ptrs[j][n])
  <2>1. ptrs[j][n][1] \in Page /\ ptrs[j][n][2] \in Index /\ ptrs[j][n][1] < next
    BY PtrFacts
  <2>2. ptrs[j][n][1] # next
    BY <1>8, <2>1 DEF Page
  <2> QED
    BY <1>11, <2>1, <2>2 DEF Ent
<1>17. pc'[i] = "read" /\ at'[i] = Pte(i) /\ new'[i] = TableDesc(next) /\ \A j \in CPU \ {i} : Same(j)
  BY <1>1, <1>2, <1>5 DEF TypeOK, Same
<1>18. TypeOK'
  <2>1. TableDesc(next) \in Entry
    BY <1>8 DEF TableDesc, Entry
  <2>2. next + 1 \in 1 .. MaxPages + 1
    BY <1>1, <1>8, VmmAssumption
  <2>3. /\ at' \in [CPU -> Page \X Index] /\ new' \in [CPU -> Entry] /\ pc' \in [CPU -> PC]
    BY <1>1, <1>4, <1>5, <2>1 DEF TypeOK, PC
  <2> QED
    BY <1>1, <1>2, <1>5, <1>11, <2>2, <2>3 DEF TypeOK
<1>19. FunInv' /\ BossInv'
  BY <1>1, <1>2, <1>5 DEF FunInv, BossInv
<1>20. (Ensuring(i)' <=> Ensuring(i)) /\ Pte(i)' = Pte(i)
  BY <1>1 DEF Ensuring, Pte
<1>21. CallInv(i)'
  BY <1>1, <1>2, <1>5, <1>17, <1>20 DEF CallInv, Writing
<1>22. Linking(i)' /\ ~Setting(i)'
  BY <1>1, <1>17, <1>20 DEF Linking, Setting, Writing
<1>23. PathInv(lev2, i)'
  <2>1. table[i] = TablesIn(mem', op[i].va)[level[i]]
    <3>1. table[i] = TablesIn(mem, op[i].va)[level[i]] /\ table[i] # -1 /\ op[i].va \in Nat
      <4>1. table[i] # -1
        BY <1>4 DEF Page
      <4> QED
        BY <1>3, <4>1, Here
    <3> QED
      BY <1>4, <1>15, <3>1 DEF Keeps
  <2>2. Val(at[i])' = Desc(i)
    <3>1. Val(at[i])' = mem'[table[i]][OFFS(op[i].va, level[i])]
      BY <1>4, <1>17 DEF Val
    <3> QED
      BY <1>4, <1>8, <1>11, <3>1
  <2>3. lev2[next] = level[i] + 1
    BY <1>8, <1>12
  <2>4. TableDesc(next).addr = next /\ next \in 1 .. next' - 1
    BY <1>1, <1>4, <1>8 DEF TableDesc
  <2>5. pc'[i] = "read" /\ table' = table /\ level' = level /\ op' = op
    BY <1>1, <1>17
  <2>6. at'[i] = Pte(i)' /\ new'[i] = TableDesc(new'[i].addr) /\ new'[i].addr = next
    BY <1>17, <1>20, <2>4
  <2> QED
    BY <1>7, <1>22, <2>1, <2>2, <2>3, <2>4, <2>5, <2>6 DEF PathInv, Path
<1>24. LockInv'
  BY <1>1, <1>5, <1>17, <1>22, LockSame DEF Locked
<1>25. StaleInv'
  <2>1. \A y \in stale : Harmless(mem, y)
    BY <1>1, Alone
  <2>2. ASSUME NEW y \in stale PROVE Harmless(mem', y)
    <3>1. y[1] \in Page \X Index /\ Harmless(mem, y)
      BY <1>5, <2>1 DEF TypeOK
    <3>2. y[1][1] \in Page /\ y[1][2] \in Index /\ mem[y[1][1]][y[1][2]].valid
      BY <3>1 DEF Harmless, Ent
    <3>3. y[1][1] # next
      BY <1>4, <1>8, <3>2 DEF Good
    <3> QED
      BY <1>11, <3>1, <3>2, <3>3 DEF Harmless, Ent
  <2> QED
    BY <1>1, <2>2 DEF StaleInv
<1>26. next' \in Nat /\ next <= next' /\ next' = next + 1
  BY <1>1, <1>8
<1>27. \A q \in Page : q < next => lev2[q] = lev[q]
  BY <1>8, <1>12 DEF Page
<1>28. Good(s2, next', lev2)
  BY <1>14, <1>26
<1>29. /\ s2 = mem' /\ phase' = phase /\ (pc[i] \in Writing \/ pc[i] = "level")
       /\ ptrs' = ptrs /\ descs' = descs
  BY <1>1, <1>2, <1>13
<1>30. \A j \in CPU \ {i} : Same(j)
  BY <1>17
<1>31. Inv(s2, lev2)'
  BY <1>15, <1>16, <1>18, <1>19, <1>21, <1>23, <1>24, <1>25, <1>26, <1>27, <1>28, <1>29, <1>30, Changed
<1> QED
  BY <1>12, <1>13, <1>31 DEF IInv

(* What the write of vmm_update_pte does to the TLBs. *)
LEMMA WriteFacts ==
  ASSUME NEW i \in CPU, NEW e \in Entry, TypeOK, Write(i, e)
  PROVE  /\ at[i][1] \in Page /\ at[i][2] \in Index /\ at[i] = <<at[i][1], at[i][2]>> /\ Val(at[i]) \in Entry
         /\ mem' \in [Page -> [Index -> Entry]]
         /\ \A q \in Page, h \in Index :
              mem'[q][h] = IF q = at[i][1] /\ h = at[i][2] THEN e ELSE mem[q][h]
         /\ stale' \subseteq (Page \X Index) \X Entry
         /\ ~Val(at[i]).valid => stale' = stale
<1>1. at[i] \in Page \X Index /\ mem \in [Page -> [Index -> Entry]]
  BY DEF TypeOK
<1>2. at[i][1] \in Page /\ at[i][2] \in Index /\ at[i] = <<at[i][1], at[i][2]>>
  BY <1>1
<1>3. Val(at[i]) \in Entry
  BY <1>1, <1>2 DEF Val
<1>4. /\ mem' \in [Page -> [Index -> Entry]]
      /\ \A q \in Page, h \in Index :
           mem'[q][h] = IF q = at[i][1] /\ h = at[i][2] THEN e ELSE mem[q][h]
  BY <1>1, <1>2 DEF Write
<1>5. stale' \subseteq (Page \X Index) \X Entry /\ (~Val(at[i]).valid => stale' = stale)
  BY <1>1, <1>3 DEF Write, TypeOK
<1> QED
  BY <1>2, <1>3, <1>4, <1>5

(* An entry that is invalid at the last write is in no TLB. *)
LEMMA MakeStale ==
  ASSUME NEW s, NEW lev, NEW i \in CPU, Inv(s, lev), phase \in {"init", "setup"},
         pc[i] = "make", NEW e \in Entry, Write(i, e)
  PROVE  /\ ~Val(at[i]).valid
         /\ \A y \in stale : y[1] # at[i]
         /\ StaleInv'
<1>1. TypeOK /\ PathInv(lev, i)
  BY DEF Inv
<1>2. ~Val(at[i]).valid
  BY <1>1 DEF PathInv
<1>3. \A y \in stale : Harmless(mem, y)
  BY Alone DEF Writing
<1>4. ASSUME NEW y \in stale PROVE y[1] # at[i]
  BY <1>2, <1>3 DEF Harmless, Ent, Val
<1>5. ASSUME NEW y \in stale PROVE Harmless(mem', y)
  <2>1. y[1] \in Page \X Index /\ Harmless(mem, y) /\ y[1] # at[i]
    BY <1>1, <1>3, <1>4 DEF TypeOK
  <2>2. y[1][1] \in Page /\ y[1][2] \in Index /\ (y[1][1] # at[i][1] \/ y[1][2] # at[i][2])
    BY <1>1, <2>1, WriteFacts
  <2>3. Ent(mem', y[1]) = Ent(mem, y[1])
    BY <1>1, <2>2, WriteFacts DEF Ent
  <2> QED
    BY <2>1, <2>3 DEF Harmless
<1>6. stale' = stale
  BY <1>1, <1>2, WriteFacts
<1> QED
  BY <1>2, <1>4, <1>5, <1>6 DEF StaleInv

LEMMA BreakStep ==
  ASSUME NEW s, NEW lev, NEW i \in CPU, Inv(s, lev), phase \in {"init", "setup"}, Break(i)
  PROVE  IInv'
<1>1. /\ pc[i] = "break" /\ pc' = [pc EXCEPT ![i] = "flush"] /\ Write(i, Invalid0)
      /\ UNCHANGED <<next, owner, boss, steps, op, regs, saved, want>>
  BY DEF Break, Goto
<1>2. phase' = phase /\ batch' = batch /\ ptrs' = ptrs /\ descs' = descs
      /\ level' = level /\ table' = table /\ at' = at /\ new' = new /\ op' = op /\ next' = next
      /\ owner' = owner /\ UNCHANGED <<regions, va, pa, stage, todo>>
  BY <1>1 DEF steps, saved, boss, regs
<1>3. TypeOK /\ FunInv /\ BossInv /\ LockInv /\ CallInv(i) /\ PathInv(lev, i)
  BY DEF Inv
<1>4. pc'[i] = "flush" /\ \A j \in CPU \ {i} : Same(j)
  BY <1>1, <1>2, <1>3 DEF TypeOK, Same
<1>5. Invalid0 \in Entry /\ ~Invalid0.valid
  BY DEF Invalid0, Entry
<1>6. /\ at[i][1] \in Page /\ at[i][2] \in Index /\ mem' \in [Page -> [Index -> Entry]]
      /\ mem'[at[i][1]][at[i][2]] = Invalid0 /\ stale' \subseteq (Page \X Index) \X Entry
  BY <1>1, <1>3, <1>5, WriteFacts
<1>7. TypeOK'
  <2>1. pc' \in [CPU -> PC]
    BY <1>1, <1>3 DEF TypeOK, PC
  <2> QED
    BY <1>2, <1>3, <1>6, <2>1 DEF TypeOK
<1>8. FunInv' /\ BossInv'
  BY <1>2, <1>3 DEF FunInv, BossInv
<1>9. (Linking(i)' <=> Linking(i)) /\ (Setting(i)' <=> Setting(i)) /\ (OnPath(i)' <=> OnPath(i))
  BY <1>1, <1>2, <1>4 DEF Linking, Setting, OnPath, Writing, Ensuring
<1>10. CallInv(i)'
  BY <1>1, <1>2, <1>3, <1>4 DEF CallInv, Writing, Ensuring
<1>11. LockInv'
  <2>1. Locked(i)' <=> Locked(i)
    BY <1>1, <1>4, <1>9 DEF Locked
  <2> QED
    BY <1>2, <1>3, <1>4, <2>1, LockSame
<1>12. StaleInv'
  BY <1>4 DEF StaleInv
<1>13. ASSUME Keeps(mem, mem') PROVE PathInv(lev, i)'
  <2>1. Val(at[i])' = Invalid0 /\ Pte(i)' = Pte(i)
    BY <1>2, <1>6 DEF Val, Pte
  <2>2. ~Tab(Invalid0)
    BY <1>5 DEF Tab
  <2>3. pc[i] # "idle"
    BY <1>1
  <2>4. op[i].va \in Nat /\ op[i].to \in Level
    BY <1>3, <2>3, CallFacts DEF Level
  <2>5. table[i] # -1 /\ level[i] \in Level
    BY <1>3 DEF TypeOK, Page
  <2>6. OnPath(i) => table[i] = TablesIn(mem', op[i].va)[level[i]]
    BY <1>3, <1>13, <2>4, <2>5 DEF PathInv, Path, Keeps
  <2>7. Setting(i) => TablesIn(mem', op[i].va)[op[i].to] # -1
    BY <1>3, <1>13, <2>4 DEF PathInv, Path, Keeps
  <2>8. Linking(i) => /\ at[i] = Pte(i) /\ new[i] = TableDesc(new[i].addr)
                      /\ new[i].addr \in 1 .. next - 1 /\ lev[new[i].addr] = level[i] + 1
    BY <1>3 DEF PathInv
  <2>9. Setting(i) => /\ at[i] = Pte(i)
                      /\ (new[i] = Invalid0 \/ new[i] = BlockDesc(new[i].addr, level[i]))
    BY <1>3 DEF PathInv
  <2> QED
    BY <1>2, <1>4, <1>5, <1>9, <2>1, <2>2, <2>6, <2>7, <2>8, <2>9 DEF PathInv, Path
<1>14. mem' = [mem EXCEPT ![at[i][1]][at[i][2]] = Invalid0]
  BY <1>1 DEF Write
<1>15. ~IsTable(Invalid0, level[i]) /\ pc[i] \in Writing
  BY <1>1, <1>5 DEF IsTable, Writing
<1> QED
  BY <1>2, <1>4, <1>5, <1>7, <1>8, <1>10, <1>11, <1>12, <1>13, <1>14, <1>15, Written

LEMMA LinkStep ==
  ASSUME NEW s, NEW lev, NEW i \in CPU, Inv(s, lev), phase \in {"init", "setup"}, Link(i)
  PROVE  IInv'
<1>1. /\ pc[i] = "make" /\ pc' = [pc EXCEPT ![i] = "level"] /\ Ensuring(i) /\ Write(i, new[i])
      /\ level' = [level EXCEPT ![i] = @ + 1] /\ table' = [table EXCEPT ![i] = new[i].addr]
      /\ UNCHANGED <<next, owner, boss, steps, op, at, new, saved, want>>
  BY DEF Link, Goto
<1>2. phase' = phase /\ batch' = batch /\ ptrs' = ptrs /\ descs' = descs
      /\ at' = at /\ new' = new /\ op' = op /\ next' = next
      /\ owner' = owner /\ UNCHANGED <<regions, va, pa, stage, todo>>
  BY <1>1 DEF steps, saved, boss
<1>3. TypeOK /\ FunInv /\ BossInv /\ LockInv /\ CallInv(i) /\ PathInv(lev, i) /\ new[i] \in Entry
  BY DEF Inv, TypeOK
<1>4. Linking(i) /\ OnPath(i)
  BY <1>1 DEF Linking, OnPath, Writing
<1>5. /\ at[i] = Pte(i) /\ new[i] = TableDesc(new[i].addr)
      /\ new[i].addr \in 1 .. next - 1 /\ lev[new[i].addr] = level[i] + 1
  BY <1>3, <1>4 DEF PathInv
<1>6. /\ table[i] \in Page /\ level[i] \in Level /\ op[i].va \in Nat /\ next \in 1 .. MaxPages + 1
      /\ table[i] = TablesIn(mem, op[i].va)[level[i]] /\ OFFS(op[i].va, level[i]) \in Index
      /\ Pte(i) = <<table[i], OFFS(op[i].va, level[i])>>
  BY <1>4, Here
<1>7. op[i].to \in 1 .. 3
  BY <1>1, <1>3, CallFacts
<1>8. level[i] \in 0 .. 2 /\ level[i] + 1 \in 1 .. 3 /\ level[i] + 1 <= op[i].to /\ level[i] + 1 \in Level
  BY <1>1, <1>6, <1>7 DEF Ensuring, Level
<1>9. new[i].valid /\ new[i].bit1 /\ new[i].addr \in Page
  <2>1. new[i].addr \in Page
    BY <1>5, <1>6, VmmAssumption DEF Page
  <2> QED
    BY <1>5, <2>1 DEF TableDesc
<1>10. /\ pc'[i] = "level" /\ level'[i] = level[i] + 1 /\ table'[i] = new[i].addr
       /\ \A j \in CPU \ {i} : Same(j)
  BY <1>1, <1>2, <1>3 DEF TypeOK, Same
<1>11. /\ mem' \in [Page -> [Index -> Entry]] /\ stale' \subseteq (Page \X Index) \X Entry
       /\ mem'[table[i]][OFFS(op[i].va, level[i])] = new[i]
  <2>1. at[i][1] = table[i] /\ at[i][2] = OFFS(op[i].va, level[i])
    BY <1>5, <1>6
  <2> QED
    BY <1>1, <1>3, <1>6, <2>1, WriteFacts
<1>12. TypeOK'
  <2>1. pc' \in [CPU -> PC] /\ level' \in [CPU -> Level] /\ table' \in [CPU -> Page]
    BY <1>1, <1>3, <1>8, <1>9 DEF TypeOK, PC
  <2> QED
    BY <1>2, <1>3, <1>11, <2>1 DEF TypeOK
<1>13. FunInv' /\ BossInv'
  BY <1>2, <1>3 DEF FunInv, BossInv
<1>14. CallInv(i)'
  BY <1>1, <1>2, <1>3, <1>8, <1>10 DEF CallInv, Writing
<1>15. LockInv'
  <2>1. Locked(i)' <=> Locked(i)
    BY <1>4, <1>10 DEF Locked
  <2> QED
    BY <1>2, <1>3, <1>10, <2>1, LockSame
<1>16. StaleInv'
  BY <1>1, <1>3, MakeStale
<1>17. ASSUME Keeps(mem, mem') PROVE PathInv(lev, i)'
  <2>1. TablesIn(mem', op[i].va)[level[i]] = table[i] /\ table[i] # -1
    BY <1>6, <1>17 DEF Keeps, Page
  <2>2. TablesIn(mem', op[i].va)[level[i] + 1] = Down(mem', op[i].va, level[i], table[i])
    <3>1. (level[i] + 1) - 1 = level[i]
      BY <1>8
    <3> QED
      BY <1>8, <2>1, <3>1, TablesFacts
  <2>3. Down(mem', op[i].va, level[i], table[i]) = new[i].addr
    BY <1>9, <1>11, <2>1 DEF Down
  <2>4. ~Linking(i)' /\ ~Setting(i)'
    BY <1>10 DEF Linking, Setting, Writing
  <2> QED
    BY <1>2, <1>10, <2>2, <2>3, <2>4 DEF PathInv, Path
<1>18. mem' = [mem EXCEPT ![at[i][1]][at[i][2]] = new[i]]
  BY <1>1 DEF Write
<1>19. pc[i] \in Writing
  BY <1>1 DEF Writing
<1>20. PICK e \in Entry : e = new[i]
  BY <1>3
<1>21. mem' = [mem EXCEPT ![at[i][1]][at[i][2]] = e]
  BY <1>18, <1>20
<1>22. e.bit1 /\ e.addr \in 1 .. next - 1 /\ lev[e.addr] = level[i] + 1
  BY <1>5, <1>9, <1>20
<1> QED
  BY <1>2, <1>10, <1>12, <1>13, <1>14, <1>15, <1>16, <1>17, <1>19, <1>21, <1>22, Written

LEMMA SetStep ==
  ASSUME NEW s, NEW lev, NEW i \in CPU, Inv(s, lev), phase \in {"init", "setup"}, Set(i)
  PROVE  IInv'
<1>1. /\ pc[i] = "make" /\ pc' = [pc EXCEPT ![i] = "idle"] /\ ~Ensuring(i) /\ op[i].kind = "set"
      /\ Write(i, new[i])
      /\ op' = [op EXCEPT ![i] = NoCall]
      /\ level' = [level EXCEPT ![i] = 0]
      /\ table' = [table EXCEPT ![i] = Root]
      /\ at' = [at EXCEPT ![i] = NoPtr]
      /\ new' = [new EXCEPT ![i] = Invalid0]
      /\ UNCHANGED <<next, owner, boss, steps, saved>>
  BY DEF Set, Goto, Return
<1>2. phase' = phase /\ batch' = batch /\ ptrs' = ptrs /\ descs' = descs /\ next' = next
      /\ owner' = owner /\ UNCHANGED <<regions, va, pa, stage, todo>>
  BY <1>1 DEF steps, saved, boss
<1>3. TypeOK /\ FunInv /\ BossInv /\ LockInv /\ CallInv(i) /\ PathInv(lev, i) /\ new[i] \in Entry
  BY DEF Inv, TypeOK
<1>4. Setting(i) /\ ~Linking(i) /\ OnPath(i)
  BY <1>1 DEF Setting, Linking, OnPath, Writing
<1>5. new[i] = Invalid0 \/ new[i] = BlockDesc(new[i].addr, level[i])
  BY <1>3, <1>4 DEF PathInv
<1>6. level[i] \in 1 .. 3
  <2>1. op[i].to \in 1 .. 3
    BY <1>1, <1>3, CallFacts
  <2> QED
    BY <1>1, <1>3, <2>1 DEF TypeOK, Ensuring, Level
<1>7. ~IsTable(new[i], level[i])
  <2>1. CASE level[i] = 3
    BY <2>1 DEF IsTable
  <2>2. CASE level[i] # 3
    <3>1. (level[i] = 3) = FALSE
      BY <2>2
    <3>2. BlockDesc(new[i].addr, level[i]) = [valid |-> TRUE, bit1 |-> FALSE, addr |-> new[i].addr]
      BY <3>1 DEF BlockDesc
    <3>3. CASE new[i] = Invalid0
      BY <3>3 DEF Invalid0, IsTable
    <3>4. CASE new[i] = [valid |-> TRUE, bit1 |-> FALSE, addr |-> new[i].addr]
      <4>1. new[i].bit1 = FALSE
        BY <3>4
      <4> QED
        BY <1>6, <4>1 DEF IsTable
    <3> QED
      BY <1>5, <3>2, <3>3, <3>4
  <2> QED
    BY <2>1, <2>2
<1>8. /\ pc'[i] = "idle" /\ op'[i] = NoCall /\ level'[i] = 0 /\ table'[i] = Root
      /\ \A j \in CPU \ {i} : Same(j)
  BY <1>1, <1>2, <1>3 DEF TypeOK, FunInv, Same
<1>9. mem' \in [Page -> [Index -> Entry]] /\ stale' \subseteq (Page \X Index) \X Entry
  BY <1>1, <1>3, WriteFacts
<1>10. TypeOK'
  <2>1. Root \in Page /\ 0 \in Level /\ NoPtr \in Page \X Index /\ Invalid0 \in Entry
    BY VmmAssumption DEF Root, Page, Level, NoPtr, Index, Invalid0, Entry
  <2>2. /\ pc' \in [CPU -> PC] /\ level' \in [CPU -> Level] /\ table' \in [CPU -> Page]
        /\ at' \in [CPU -> Page \X Index] /\ new' \in [CPU -> Entry]
    BY <1>1, <1>3, <2>1 DEF TypeOK, PC
  <2> QED
    BY <1>2, <1>3, <1>9, <2>2 DEF TypeOK
<1>11. FunInv' /\ BossInv'
  <2>1. op' \in [CPU -> AnyCall]
    BY <1>1, <1>3 DEF FunInv, AnyCall
  <2> QED
    BY <1>2, <1>3, <2>1 DEF FunInv, BossInv
<1>12. CallInv(i)'
  BY <1>8 DEF CallInv
<1>13. PathInv(lev, i)'
  BY <1>8 DEF PathInv, OnPath, Setting, Linking, Writing
<1>14. LockInv'
  <2>1. ~Locked(i) /\ ~Locked(i)'
    BY <1>1, <1>4, <1>8 DEF Locked, Linking, Writing
  <2> QED
    BY <1>2, <1>3, <1>8, <2>1, LockSame
<1>15. StaleInv'
  BY <1>1, <1>3, MakeStale
<1>16. PICK e \in Entry : e = new[i]
  BY <1>3
<1>17. mem' = [mem EXCEPT ![at[i][1]][at[i][2]] = e]
  BY <1>1, <1>16 DEF Write
<1>18. ~IsTable(e, level[i]) /\ pc[i] \in Writing
  BY <1>1, <1>7, <1>16 DEF Writing
<1> QED
  BY <1>2, <1>8, <1>10, <1>11, <1>12, <1>13, <1>14, <1>15, <1>17, <1>18, Written

(* A step of any CPU while no test is running. *)
LEMMA QuietIsIInv ==
  ASSUME NEW s, NEW lev, Inv(s, lev), Inv(s, lev)'
  PROVE  IInv'
<1>1. s \in [Page -> [Index -> Entry]] /\ lev \in [Page -> Level]
  BY DEF Inv, Good
<1> QED
  BY <1>1 DEF IInv

-----------------------------------------------------------------------------
(* The boss, and the barriers. *)
LEMMA BossStep ==
  ASSUME NEW s, NEW lev, Inv(s, lev), phase = "init", BossInv',
         stage' \in 0 .. 5, UNCHANGED <<mem, next, owner, todo, steps, pc, op, regs, saved, stale>>
  PROVE  Inv(s, lev)'
<1>1. /\ phase' = phase /\ batch' = batch /\ ptrs' = ptrs /\ descs' = descs
      /\ level' = level /\ table' = table /\ at' = at /\ new' = new
      /\ mem' = mem /\ next' = next /\ owner' = owner /\ pc' = pc /\ op' = op /\ stale' = stale
      /\ todo' = todo
  BY DEF steps, saved, regs
<1>2. TypeOK /\ FunInv /\ LockInv /\ Good(s, next, lev) /\ CleanInv(s) /\ StaleInv
  BY DEF Inv
<1>3. TypeOK' /\ FunInv' /\ Good(s, next, lev)'
  BY <1>1, <1>2 DEF TypeOK, FunInv, Good
<1>4. LockInv'
  BY <1>1, <1>2 DEF LockInv, Locked, Linking, Ensuring
<1>5. CleanInv(s)' /\ StaleInv'
  BY <1>1, <1>2 DEF CleanInv, StaleInv
<1>6. ASSUME NEW i \in CPU PROVE CallInv(i)' /\ PathInv(lev, i)' /\ PtrInv(s, i)'
  <2>1. CallInv(i) /\ PathInv(lev, i) /\ PtrInv(s, i) /\ Same(i)
    BY <1>1 DEF Inv, Same
  <2>2. CallInv(i)'
    BY <1>1, <2>1, OtherCall
  <2>3. PathInv(lev, i)'
    <3>1. Keeps(mem, mem') /\ next \in Nat
      BY <1>1, <1>2, KeepsAll DEF TypeOK
    <3> QED
      BY <1>1, <1>2, <2>1, <3>1, OtherPath
  <2>4. PtrInv(s, i)'
    BY <1>1, <2>1, PtrSame
  <2> QED
    BY <2>2, <2>3, <2>4
<1> QED
  BY <1>3, <1>4, <1>5, <1>6 DEF Inv

LEMMA MapStep ==
  ASSUME NEW s, NEW lev, Inv(s, lev), Map
  PROVE  Inv(s, lev)'
<1>1. BossInv
  BY DEF Inv
<1>2. phase = "init" /\ regions # <<>>
  <2>1. phase # "init" => regions = <<>>
    BY <1>1 DEF BossInv
  <2> QED
    BY <2>1 DEF Map, Inv, TypeOK
<1>3. regions[1] \in [va_start : Nat, va_end : Nat, pa_start : Nat]
  <2> DEFINE R == [va_start : Nat, va_end : Nat, pa_start : Nat]
  <2>1. regions \in Seq(R)
    BY <1>1 DEF BossInv
  <2> HIDE DEF R
  <2>2. regions[1] \in R
    BY <1>2, <2>1
  <2> QED
    BY <2>2 DEF R
<1>4. BossInv' /\ stage' \in 0 .. 5
  BY <1>1, <1>2, <1>3 DEF BossInv, Map, steps
<1> QED
  BY <1>2, <1>4, BossStep DEF Map

LEMMA SetRangeStep ==
  ASSUME NEW s, NEW lev, Inv(s, lev), SetRange
  PROVE  Inv(s, lev)'
<1>1. BossInv /\ stage \in 1 .. 5 /\ phase \in {"init", "setup", "clean"}
  BY DEF Inv, TypeOK, SetRange
<1>2. phase = "init"
  BY <1>1 DEF BossInv
<1>3. LevelOf[stage] \in 1 .. 3
  BY <1>1 DEF LevelOf
<1>4. PICK l \in 1 .. 3 : l = LevelOf[stage]
  BY <1>3
<1>5. SIZE(l) \in Nat
  BY Sizes DEF Level
<1>6. /\ Request(Boss, SetCall(va, pa, l)) /\ va' = va + SIZE(l) /\ pa' = pa + SIZE(l)
      /\ UNCHANGED <<regions, stage, todo>>
  BY <1>4 DEF SetRange
<1>7. SetCall(va, pa, l) \in Calls(phase)
  BY <1>1, <1>2 DEF SetCall, Calls, SetCalls, BossInv
<1>8. UNCHANGED steps
  BY <1>6 DEF Request
<1>9. BossInv'
  BY <1>1, <1>5, <1>6, <1>8 DEF BossInv, steps
<1>10. stage' \in 0 .. 5 /\ todo' \in SUBSET ToSet(Heap) /\ Boss \in CPU
  BY <1>1, <1>6, VmmAssumption DEF Inv, TypeOK
<1>11. PICK c \in Calls(phase) : c = SetCall(va, pa, l)
  BY <1>7
<1>12. Request(Boss, c)
  BY <1>6, <1>11
<1> QED
  BY <1>2, <1>9, <1>10, <1>12, RequestStep

LEMMA EndLoopStep ==
  ASSUME NEW s, NEW lev, Inv(s, lev), EndLoop
  PROVE  Inv(s, lev)'
<1>1. BossInv /\ stage \in 1 .. 5 /\ phase \in {"init", "setup", "clean"}
  BY DEF Inv, TypeOK, EndLoop
<1>2. phase = "init" /\ regions # <<>>
  BY <1>1 DEF BossInv
<1>3. stage' \in 0 .. 5 /\ (stage = 5 => stage' = 0)
  BY <1>1 DEF EndLoop
<1>4. Tail(regions) \in Seq([va_start : Nat, va_end : Nat, pa_start : Nat])
  BY <1>1, <1>2 DEF BossInv
<1>5. UNCHANGED <<phase, batch>>
  BY DEF EndLoop, steps
<1>6. BossInv'
  BY <1>1, <1>2, <1>3, <1>4, <1>5 DEF BossInv, EndLoop
<1> QED
  BY <1>2, <1>3, <1>6, BossStep DEF EndLoop

LEMMA SetInitPteStep ==
  ASSUME NEW s, NEW lev, Inv(s, lev), NEW v \in todo, SetInitPte(v)
  PROVE  Inv(s, lev)'
<1>1. BossInv /\ todo \subseteq ToSet(Heap) /\ stage \in 0 .. 5 /\ phase = "init"
  BY DEF Inv, TypeOK, SetInitPte
<1>2. v \in Nat /\ v \in ToSet(Heap)
  <2>1. v \in ToSet(Heap)
    BY <1>1
  <2> QED
    BY <2>1, VmmAssumption DEF ToSet
<1>3. PICK p \in Settings[v] : Request(Boss, SetCall(v, p, 3))
  BY DEF SetInitPte
<1>4. p \in Nat \cup {-1}
  BY <1>2, VmmAssumption
<1>5. SetCall(v, p, 3) \in Calls(phase)
  BY <1>1, <1>2, <1>4 DEF SetCall, Calls, SetCalls
<1>6. UNCHANGED <<regions, va, pa, stage, phase, batch>>
  BY <1>3 DEF Request, steps, SetInitPte
<1>7. BossInv'
  BY <1>1, <1>6 DEF BossInv
<1>8. stage' \in 0 .. 5 /\ todo' \in SUBSET ToSet(Heap) /\ Boss \in CPU
  BY <1>1, <1>6, VmmAssumption DEF SetInitPte
<1>9. PICK c \in Calls(phase) : c = SetCall(v, p, 3)
  BY <1>5
<1>10. Request(Boss, c)
  BY <1>3, <1>9
<1> QED
  BY <1>1, <1>7, <1>8, <1>10, RequestStep

LEMMA LookupStep ==
  ASSUME NEW s, NEW lev, NEW i \in CPU, Inv(s, lev), Lookup(i)
  PROVE  Inv(s, lev)'
<1> DEFINE n == Len(ptrs[i])
           call == [kind |-> "lookup", va |-> VarOf(n), to |-> 3, walk |-> LevelAt(n)]
<1>1. phase = "setup" /\ n # 4 * Len(Heap) /\ Request(i, call) /\ UNCHANGED boss
  BY DEF Lookup, SetUp
<1>2. BossInv /\ FunInv /\ TypeOK /\ PtrInv(s, i)
  BY DEF Inv
<1>3. n \in Nat /\ Len(Heap) \in Nat
  BY <1>2, VmmAssumption DEF FunInv
<1>4. n < 4 * Len(Heap)
  BY <1>1, <1>2, <1>3 DEF PtrInv
<1>5. VarOf(n) \in Nat /\ LevelAt(n) \in Level
  BY <1>3, <1>4, VarIsNat
<1> HIDE DEF n
<1>6. call \in Calls(phase)
  BY <1>1, <1>5 DEF Calls, LookupCalls
<1>7. UNCHANGED <<regions, va, pa, stage, todo, phase, batch>>
  BY <1>1 DEF Request, steps, boss
<1>8. BossInv'
  BY <1>2, <1>7 DEF BossInv
<1>9. stage' \in 0 .. 5 /\ todo' \in SUBSET ToSet(Heap)
  BY <1>2, <1>7 DEF TypeOK
<1>10. PICK c \in Calls(phase) : c = call
  BY <1>6
<1>11. c.va = VarOf(Len(ptrs[i])) /\ c.walk = LevelAt(Len(ptrs[i])) /\ Len(ptrs[i]) < 4 * Len(Heap)
  BY <1>4, <1>10 DEF n
<1>12. Request(i, c) /\ phase \in {"init", "setup"} /\ phase # "init"
  BY <1>1, <1>10
<1> QED
  BY <1>8, <1>9, <1>11, <1>12, RequestStep

LEMMA AllIdle ==
  ASSUME NEW s, NEW lev, Inv(s, lev), \A j \in CPU : pc[j] = "idle",
         UNCHANGED <<next, owner, pc, op, regs>>
  PROVE  LockInv' /\ Good(s, next, lev)' /\ \A j \in CPU : CallInv(j)' /\ PathInv(lev, j)'
<1>1. next' = next /\ owner' = owner /\ pc' = pc /\ op' = op /\ level' = level /\ table' = table
  BY DEF regs
<1>2. LockInv'
  BY <1>1 DEF Inv, LockInv, Locked, Linking, Writing
<1>3. Good(s, next, lev)'
  BY <1>1 DEF Inv, Good
<1>4. ASSUME NEW j \in CPU PROVE CallInv(j)' /\ PathInv(lev, j)'
  <2>1. pc'[j] = "idle" /\ CallInv(j)
    BY <1>1 DEF Inv
  <2> QED
    BY <1>1, <2>1 DEF CallInv, PathInv, OnPath, Setting, Linking, Writing
<1> QED
  BY <1>2, <1>3, <1>4

LEMMA AllocatedStep ==
  ASSUME NEW s, NEW lev, Inv(s, lev), Allocated
  PROVE  Inv(s, lev)'
<1>1. /\ phase = "init" /\ batch < Batches /\ stage = 0 /\ regions = <<>> /\ pc[Boss] = "idle"
      /\ phase' = "setup" /\ batch' = batch
      /\ UNCHANGED <<mem, next, owner, pc, op, regs, saved, want, stale>>
      /\ UNCHANGED <<regions, va, pa, stage, todo>>
  BY DEF Allocated, boss
<1>2. level' = level /\ table' = table /\ at' = at /\ new' = new /\ ptrs' = ptrs /\ descs' = descs
      /\ UNCHANGED <<mem, next, owner, pc, op, stale>>
  BY <1>1 DEF regs, saved
<1>3. TypeOK /\ FunInv /\ BossInv /\ CleanInv(s) /\ StaleInv /\ \A j \in CPU : CallInv(j) /\ PtrInv(s, j)
  BY DEF Inv
<1>4. \A j \in CPU : pc[j] = "idle"
  BY <1>1, <1>3 DEF CallInv
<1>5. LockInv' /\ Good(s, next, lev)' /\ \A j \in CPU : CallInv(j)' /\ PathInv(lev, j)'
  BY <1>1, <1>4, AllIdle
<1>6. TypeOK' /\ FunInv'
  BY <1>1, <1>2, <1>3 DEF TypeOK, FunInv
<1>7. BossInv'
  BY <1>1, <1>3 DEF BossInv
<1>8. CleanInv(s)'
  BY <1>1, <1>2, <1>3 DEF CleanInv
<1>9. StaleInv'
  <2>1. \A y \in stale : Harmless(mem, y)
    BY <1>1, <1>3, <1>4 DEF StaleInv
  <2> QED
    BY <1>2, <2>1 DEF StaleInv
<1>10. ASSUME NEW j \in CPU PROVE PtrInv(s, j)'
  <2>1. ptrs[j] = <<>> /\ PtrInv(s, j) /\ Len(ptrs[j]) = 0
    BY <1>1, <1>3 DEF PtrInv
  <2> QED
    BY <1>1, <1>2, <2>1 DEF PtrInv
<1> QED
  BY <1>5, <1>6, <1>7, <1>8, <1>9, <1>10 DEF Inv

LEMMA TestStep ==
  ASSUME NEW s, NEW lev, Inv(s, lev), NEW n \in 1 .. Len(ptrs[Boss]),
         NEW e \in {Invalid0} \cup {BlockDesc(p, LevelAt(n - 1)) : p \in TestPages}, Test(n, e)
  PROVE  Inv(s, lev)'
<1> DEFINE x == ptrs[Boss][n]
<1>1. /\ phase = "setup" /\ \A j \in CPU : pc[j] = "idle"
      /\ phase' = "clean" /\ mem' = [mem EXCEPT ![x[1]][x[2]] = e]
      /\ stale' = stale \cup {<<x, mem[x[1]][x[2]]>>}
      /\ batch' = batch /\ UNCHANGED <<next, owner, pc, op, regs, saved, want>>
      /\ UNCHANGED <<regions, va, pa, stage, todo>>
  BY DEF Test, boss
<1>2. level' = level /\ table' = table /\ at' = at /\ new' = new /\ ptrs' = ptrs /\ descs' = descs
      /\ UNCHANGED <<next, owner, pc, op>>
  BY <1>1 DEF regs, saved
<1>3. TypeOK /\ FunInv /\ BossInv /\ CleanInv(s) /\ Boss \in CPU
      /\ \A j \in CPU : CallInv(j) /\ PtrInv(s, j)
  BY VmmAssumption DEF Inv
<1>4. e \in Entry
  <2>1. Invalid0 \in Entry
    BY DEF Invalid0, Entry
  <2>2. ASSUME NEW p \in TestPages, NEW l PROVE BlockDesc(p, l) \in Entry
    <3>1. p \in Nat /\ (l = 3) \in BOOLEAN
      BY VmmAssumption
    <3> QED
      BY <3>1 DEF BlockDesc, Entry
  <2> QED
    BY <2>1, <2>2
<1>5. x \in Page \X Index /\ ptrs[Boss] # <<>>
  BY <1>3 DEF FunInv
<1> HIDE DEF x
<1>6. x[1] \in Page /\ x[2] \in Index /\ x = <<x[1], x[2]>>
  BY <1>5
<1>7. mem \in [Page -> [Index -> Entry]] /\ mem = s
  BY <1>1, <1>3 DEF TypeOK, CleanInv
<1>8. /\ mem' \in [Page -> [Index -> Entry]]
      /\ \A p \in Page, k \in Index : mem'[p][k] = IF p = x[1] /\ k = x[2] THEN e ELSE mem[p][k]
  BY <1>1, <1>4, <1>6, <1>7
<1>9. LockInv' /\ Good(s, next, lev)' /\ \A j \in CPU : CallInv(j)' /\ PathInv(lev, j)'
  BY <1>1, AllIdle
<1>10. TypeOK'
  <2>1. mem[x[1]][x[2]] \in Entry
    BY <1>6, <1>7
  <2>2. stale' \subseteq (Page \X Index) \X Entry
    BY <1>1, <1>3, <1>5, <2>1 DEF TypeOK
  <2> QED
    BY <1>1, <1>2, <1>3, <1>8, <2>2 DEF TypeOK
<1>11. FunInv' /\ BossInv'
  BY <1>1, <1>2, <1>3 DEF FunInv, BossInv
<1>12. CleanInv(s)'
  <2>1. ASSUME NEW p \in Page, NEW k \in Index, mem'[p][k] # s[p][k]
        PROVE  \E j \in CPU : Pending(j, <<p, k>>)'
    <3>1. x = <<p, k>>
      BY <1>6, <1>7, <1>8, <2>1
    <3>2. Pending(Boss, <<p, k>>)'
      BY <1>2, <3>1 DEF Pending, x
    <3> QED
      BY <1>3, <3>2
  <2>2. \A j \in CPU : pc'[j] = "idle"
    BY <1>1, <1>2
  <2>3. \E j \in CPU : ptrs'[j] # <<>>
    BY <1>2, <1>3, <1>5
  <2> QED
    BY <1>1, <2>1, <2>2, <2>3 DEF CleanInv, Writing
<1>13. StaleInv'
  BY <1>1 DEF StaleInv
<1>14. ASSUME NEW j \in CPU PROVE PtrInv(s, j)'
  BY <1>1, <1>2, <1>3 DEF PtrInv
<1> QED
  BY <1>9, <1>10, <1>11, <1>12, <1>13, <1>14 DEF Inv

LEMMA CleanedStep ==
  ASSUME NEW s, NEW lev, Inv(s, lev), Cleaned
  PROVE  Inv(s, lev)'
<1>1. /\ phase = "clean" /\ \A j \in CPU : ptrs[j] = <<>> /\ pc[j] = "idle"
      /\ phase' = "init" /\ batch' = batch + 1 /\ todo' = ToSet(Heap)
      /\ UNCHANGED <<mem, next, owner, regions, va, pa, stage, pc, op, regs, saved, want, stale>>
  BY DEF Cleaned
<1>2. level' = level /\ table' = table /\ at' = at /\ new' = new /\ ptrs' = ptrs /\ descs' = descs
      /\ UNCHANGED <<mem, next, owner, pc, op, stale, regions, va, pa, stage>>
  BY <1>1 DEF regs, saved
<1>3. TypeOK /\ FunInv /\ BossInv /\ CleanInv(s) /\ Good(s, next, lev)
      /\ \A j \in CPU : CallInv(j) /\ PtrInv(s, j)
  BY DEF Inv
<1>4. LockInv' /\ Good(s, next, lev)' /\ \A j \in CPU : CallInv(j)' /\ PathInv(lev, j)'
  BY <1>1, AllIdle
<1>5. batch + 1 \in 0 .. Batches
  BY <1>1, <1>3, VmmAssumption DEF TypeOK, BossInv
<1>6. TypeOK' /\ FunInv' /\ BossInv'
  BY <1>1, <1>2, <1>3, <1>5 DEF TypeOK, FunInv, BossInv
<1>7. \A j \in CPU : pc[j] \notin Writing /\ Len(ptrs[j]) = 0
  BY <1>1 DEF Writing
<1>8. mem = s
  <2>1. ASSUME NEW p \in Page, NEW k \in Index PROVE mem[p][k] = s[p][k]
    <3>1. \A j \in CPU : ~Pending(j, <<p, k>>)
      BY <1>7 DEF Pending
    <3> QED
      BY <1>1, <1>3, <3>1 DEF CleanInv
  <2>2. mem \in [Page -> [Index -> Entry]] /\ s \in [Page -> [Index -> Entry]]
    BY <1>3 DEF TypeOK, Good
  <2>3. \A p \in Page : mem[p] = s[p]
    BY <2>1, <2>2
  <2> QED
    BY <2>2, <2>3
<1>9. CleanInv(s)'
  BY <1>1, <1>2, <1>8 DEF CleanInv
<1>10. StaleInv'
  <2>1. \A y \in stale : Harmless(s, y)
    BY <1>1, <1>3 DEF CleanInv
  <2> QED
    BY <1>2, <1>8, <2>1 DEF StaleInv
<1>11. ASSUME NEW j \in CPU PROVE PtrInv(s, j)'
  BY <1>1, <1>2, <1>3, <1>7 DEF PtrInv
<1> QED
  BY <1>4, <1>6, <1>9, <1>10, <1>11 DEF Inv

-----------------------------------------------------------------------------
(* clean_run_data. *)
LEMMA CleanPath ==
  ASSUME NEW lev, NEW i \in CPU, phase' = "clean", CallInv(i)', level'[i] \in Level
  PROVE  PathInv(lev, i)' /\ ~Locked(i)'
<1>1. pc'[i] # "idle" => pc'[i] \in Writing /\ op'[i] = RestoreCall
  BY DEF CallInv, Calls
<1>2. ~Linking(i)' /\ ~Setting(i)'
  BY <1>1 DEF Linking, Setting, Writing, Ensuring, RestoreCall, Level
<1>3. ~OnPath(i)' /\ pc'[i] \notin {"level", "walk", "save"}
  BY <1>1, <1>2 DEF OnPath, Writing
<1> QED
  BY <1>2, <1>3 DEF PathInv, Locked

LEMMA CleanLock ==
  ASSUME NEW s, NEW lev, Inv(s, lev), phase = "clean", NEW i \in CPU
  PROVE  ~Locked(i)
<1>1. CallInv(i) /\ level[i] \in Level
  BY DEF Inv, TypeOK
<1>2. pc[i] # "idle" => pc[i] \in Writing /\ op[i] = RestoreCall
  BY <1>1 DEF CallInv, Calls
<1>3. ~Linking(i)
  BY <1>1, <1>2 DEF Linking, Writing, Ensuring, RestoreCall, Level
<1> QED
  BY <1>2, <1>3 DEF Locked, Writing

LEMMA Cleaning ==
  ASSUME NEW s, NEW lev, Inv(s, lev), phase = "clean", NEW i \in CPU,
         UNCHANGED <<next, owner, boss, steps>>,
         TypeOK', FunInv', CallInv(i)', PtrInv(s, i)', CleanInv(s)',
         \A j \in CPU \ {i} : Same(j)
  PROVE  Inv(s, lev)'
<1>1. phase' = "clean" /\ batch' = batch /\ next' = next /\ owner' = owner
      /\ UNCHANGED <<regions, va, pa, stage, todo>>
  BY DEF steps, boss
<1>2. Good(s, next, lev)'
  BY <1>1 DEF Inv, Good
<1>3. BossInv' /\ StaleInv'
  BY <1>1 DEF Inv, BossInv, StaleInv
<1>4. ASSUME NEW j \in CPU PROVE CallInv(j)' /\ PtrInv(s, j)'
  <2>1. CASE j = i
    BY <2>1
  <2>2. CASE j # i
    <3>1. Same(j) /\ CallInv(j) /\ PtrInv(s, j) /\ phase' = phase
      BY <1>1, <2>2 DEF Inv
    <3>2. CallInv(j)'
      BY <3>1, OtherCall
    <3>3. PtrInv(s, j)'
      BY <1>1, <3>1 DEF PtrInv, Same
    <3> QED
      BY <3>2, <3>3
  <2> QED
    BY <2>1, <2>2
<1>5. \A j \in CPU : level'[j] \in Level
  BY DEF TypeOK
<1>6. \A j \in CPU : PathInv(lev, j)' /\ ~Locked(j)'
  BY <1>1, <1>4, <1>5, CleanPath
<1>7. LockInv'
  <2>1. \A j \in CPU : owner # j
    BY CleanLock DEF Inv, LockInv
  <2> QED
    BY <1>1, <1>6, <2>1 DEF LockInv
<1> QED
  BY <1>2, <1>3, <1>4, <1>6, <1>7 DEF Inv

LEMMA CleanStep ==
  ASSUME NEW s, NEW lev, NEW i \in CPU, Inv(s, lev), Clean(i)
  PROVE  Inv(s, lev)'
<1>1. /\ phase = "clean" /\ ptrs[i] # <<>> /\ pc[i] = "idle" /\ pc' = [pc EXCEPT ![i] = "read"]
      /\ op' = [op EXCEPT ![i] = RestoreCall]
      /\ at' = [at EXCEPT ![i] = Head(ptrs[i])]
      /\ new' = [new EXCEPT ![i] = Head(descs[i])]
      /\ ptrs' = [ptrs EXCEPT ![i] = Tail(@)]
      /\ descs' = [descs EXCEPT ![i] = Tail(@)]
      /\ UNCHANGED <<mem, next, owner, boss, steps, level, table, want, stale>>
  BY DEF Clean, Goto, RestoreCall
<1>2. phase' = phase /\ batch' = batch /\ UNCHANGED <<regions, va, pa, stage, todo>>
  BY <1>1 DEF steps, boss
<1>3. TypeOK /\ FunInv /\ CleanInv(s) /\ PtrInv(s, i)
  BY DEF Inv
<1>4. ptrs[i] \in Seq(Page \X Index) /\ descs[i] \in Seq(Entry) /\ Len(ptrs[i]) \in Nat \ {0} /\ descs[i] # <<>>
  <2>1. ptrs[i] \in Seq(Page \X Index) /\ descs[i] \in Seq(Entry)
    BY <1>3 DEF FunInv
  <2>2. Len(ptrs[i]) \in Nat \ {0}
    BY <1>1, <2>1
  <2>3. Len(descs[i]) = Len(ptrs[i])
    BY <1>3 DEF PtrInv
  <2> QED
    BY <2>1, <2>2, <2>3
<1>5. /\ Head(ptrs[i]) \in Page \X Index /\ Head(descs[i]) \in Entry
      /\ Head(ptrs[i]) = ptrs[i][1] /\ Head(descs[i]) = descs[i][1]
      /\ Tail(ptrs[i]) \in Seq(Page \X Index) /\ Tail(descs[i]) \in Seq(Entry)
  BY <1>1, <1>4
<1>6. /\ Len(Tail(ptrs[i])) = Len(ptrs[i]) - 1 /\ Len(Tail(descs[i])) = Len(descs[i]) - 1
      /\ \A n \in 1 .. Len(ptrs[i]) - 1 : Tail(ptrs[i])[n] = ptrs[i][n + 1]
      /\ \A n \in 1 .. Len(descs[i]) - 1 : Tail(descs[i])[n] = descs[i][n + 1]
  BY <1>1, <1>4
<1>7. /\ pc'[i] = "read" /\ op'[i] = RestoreCall /\ at'[i] = ptrs[i][1] /\ new'[i] = descs[i][1]
      /\ ptrs'[i] = Tail(ptrs[i]) /\ descs'[i] = Tail(descs[i])
      /\ \A j \in CPU \ {i} : Same(j)
  BY <1>1, <1>3, <1>5 DEF TypeOK, FunInv, Same
<1>8. TypeOK'
  <2>1. at' \in [CPU -> Page \X Index] /\ new' \in [CPU -> Entry] /\ pc' \in [CPU -> PC]
    BY <1>1, <1>3, <1>5 DEF TypeOK, PC
  <2> QED
    BY <1>1, <1>2, <1>3, <2>1 DEF TypeOK
<1>9. FunInv'
  <2>1. op' \in [CPU -> AnyCall]
    BY <1>1, <1>3 DEF FunInv, AnyCall
  <2>2. ptrs' \in [CPU -> Seq(Page \X Index)] /\ descs' \in [CPU -> Seq(Entry)]
    BY <1>1, <1>3, <1>5 DEF FunInv
  <2> QED
    BY <2>1, <2>2 DEF FunInv
<1>10. CallInv(i)'
  BY <1>1, <1>2, <1>7 DEF CallInv, Calls, Writing
<1>11. Ent(s, ptrs[i][1]) = descs[i][1]
  BY <1>3, <1>4 DEF PtrInv
<1>12. PtrInv(s, i)'
  <2>1. Len(descs[i]) = Len(ptrs[i]) /\ Len(ptrs[i]) <= 4 * Len(Heap) /\ Len(Heap) \in Nat
    BY <1>3, VmmAssumption DEF PtrInv
  <2>2. ASSUME NEW n \in 1 .. Len(ptrs[i]) - 1 PROVE Ent(s, Tail(ptrs[i])[n]) = Tail(descs[i])[n]
    <3>1. n + 1 \in 1 .. Len(ptrs[i])
      BY <1>4
    <3> QED
      BY <1>3, <1>6, <2>1, <3>1 DEF PtrInv
  <2>3. /\ Len(ptrs'[i]) = Len(ptrs[i]) - 1 /\ Len(descs'[i]) = Len(ptrs[i]) - 1
        /\ Len(ptrs[i]) - 1 <= 4 * Len(Heap)
    BY <1>4, <1>6, <1>7, <2>1
  <2>4. phase' = "clean" /\ \A n \in 1 .. Len(ptrs'[i]) : Ent(s, ptrs'[i][n]) = descs'[i][n]
    BY <1>1, <1>2, <1>7, <2>2, <2>3
  <2> QED
    BY <2>3, <2>4 DEF PtrInv
<1>13. CleanInv(s)'
  <2>1. ASSUME NEW p \in Page, NEW k \in Index, mem'[p][k] # s[p][k]
        PROVE  \E j \in CPU : Pending(j, <<p, k>>)'
    <3>1. PICK j \in CPU : Pending(j, <<p, k>>)
      BY <1>1, <1>3, <2>1 DEF CleanInv
    <3>2. CASE j # i
      BY <1>7, <3>1, <3>2 DEF Pending, Same
    <3>3. CASE j = i
      <4>1. PICK n \in 1 .. Len(ptrs[i]) : ptrs[i][n] = <<p, k>>
        BY <1>1, <3>1, <3>3 DEF Pending, Writing
      <4>2. CASE n = 1
        BY <1>7, <4>1, <4>2 DEF Pending, Writing
      <4>3. CASE n # 1
        <5>1. n - 1 \in 1 .. Len(ptrs[i]) - 1 /\ (n - 1) + 1 = n
          BY <1>4, <4>3
        <5>2. ptrs'[i][n - 1] = <<p, k>> /\ n - 1 \in 1 .. Len(ptrs'[i])
          BY <1>6, <1>7, <4>1, <5>1
        <5> QED
          BY <5>2 DEF Pending
      <4> QED
        BY <4>2, <4>3
    <3> QED
      BY <3>2, <3>3
  <2>2. \E j \in CPU : ptrs'[j] # <<>> \/ pc'[j] \in {"read", "break", "flush"}
    BY <1>7
  <2>3. ASSUME NEW j \in CPU
        PROVE  /\ pc'[j] \in Writing => new'[j] = Ent(s, at'[j])
               /\ pc'[j] \in {"flush", "make"} /\ Val(at[j])'.valid => Val(at[j])' = Ent(s, at'[j])
               /\ pc'[j] = "make" => \A y \in stale' : y[1] = at'[j] => y[2] = Ent(s, at'[j])
    <3>1. CASE j = i
      BY <1>7, <1>11, <3>1
    <3>2. CASE j # i
      BY <1>1, <1>3, <1>7, <3>2 DEF CleanInv, Same, Val
    <3> QED
      BY <3>1, <3>2
  <2> QED
    BY <1>1, <1>2, <2>1, <2>2, <2>3 DEF CleanInv
<1> QED
  BY <1>1, <1>7, <1>8, <1>9, <1>10, <1>12, <1>13, Cleaning

(* The steps of vmm_update_pte change neither the call nor what is saved. *)
LEMMA Updating ==
  ASSUME NEW s, NEW lev, NEW i \in CPU, Inv(s, lev), phase = "clean",
         pc[i] \in Writing, NEW to \in Writing, pc' = [pc EXCEPT ![i] = to],
         mem' \in [Page -> [Index -> Entry]], stale' \subseteq (Page \X Index) \X Entry,
         UNCHANGED <<next, owner, boss, steps, op, regs, saved>>, CleanInv(s)'
  PROVE  Inv(s, lev)'
<1>1. /\ phase' = phase /\ batch' = batch /\ ptrs' = ptrs /\ descs' = descs
      /\ level' = level /\ table' = table /\ at' = at /\ new' = new /\ op' = op /\ next' = next
      /\ owner' = owner /\ UNCHANGED <<regions, va, pa, stage, todo>>
  BY DEF steps, saved, boss, regs
<1>2. TypeOK /\ FunInv /\ CallInv(i) /\ PtrInv(s, i)
  BY DEF Inv
<1>3. TypeOK'
  <2>1. pc' \in [CPU -> PC]
    BY <1>2 DEF TypeOK, PC, Writing
  <2> QED
    BY <1>1, <1>2, <2>1 DEF TypeOK
<1>4. FunInv'
  BY <1>1, <1>2 DEF FunInv
<1>5. pc'[i] = to /\ \A j \in CPU \ {i} : Same(j)
  BY <1>1, <1>2 DEF TypeOK, Same
<1>6. CallInv(i)'
  BY <1>1, <1>2, <1>5 DEF CallInv, Writing
<1>7. PtrInv(s, i)'
  BY <1>1, <1>2 DEF PtrInv
<1> QED
  BY <1>3, <1>4, <1>5, <1>6, <1>7, Cleaning

(* What of CleanInv is about one CPU. *)
RestoreInv(s, j) ==
  /\ pc[j] \in Writing => new[j] = Ent(s, at[j])
  /\ pc[j] \in {"flush", "make"} /\ Val(at[j]).valid => Val(at[j]) = Ent(s, at[j])
  /\ pc[j] = "make" => \A y \in stale : y[1] = at[j] => y[2] = Ent(s, at[j])

LEMMA CleanRead ==
  ASSUME NEW s, NEW lev, NEW i \in CPU, Inv(s, lev), phase = "clean", Read(i)
  PROVE  Inv(s, lev)'
<1>1. /\ pc[i] = "read"
      /\ pc' = [pc EXCEPT ![i] = IF Val(at[i]).valid THEN "break"
                                 ELSE IF op[i].kind = "restore" THEN "flush" ELSE "make"]
      /\ UNCHANGED <<mem, next, owner, boss, steps, op, regs, saved, want, stale>>
  BY DEF Read, Goto
<1>2. TypeOK /\ CleanInv(s) /\ CallInv(i)
  BY DEF Inv
<1>3. op[i].kind = "restore"
  BY <1>1, <1>2 DEF CallInv, Calls, RestoreCall
<1>4. PICK to \in {"break", "flush"} : pc' = [pc EXCEPT ![i] = to] /\ (to = "break" <=> Val(at[i]).valid)
  BY <1>1, <1>3
<1>5. pc[i] \in Writing /\ to \in Writing
  BY <1>1 DEF Writing
<1>6. phase' = phase /\ ptrs' = ptrs /\ at' = at /\ new' = new
  BY <1>1 DEF steps, saved, regs
<1>7. \A j \in CPU : pc'[j] = IF j = i THEN to ELSE pc[j]
  BY <1>2, <1>4 DEF TypeOK
<1>8. CleanInv(s)'
  <2>1. \A x : \A j \in CPU : Pending(j, x) => Pending(j, x)'
    BY <1>5, <1>6, <1>7 DEF Pending
  <2>2. ASSUME NEW p \in Page, NEW k \in Index, mem'[p][k] # s[p][k]
        PROVE  \E j \in CPU : Pending(j, <<p, k>>)'
    <3>1. PICK j \in CPU : Pending(j, <<p, k>>)
      BY <1>1, <1>2, <2>2 DEF CleanInv
    <3> QED
      BY <2>1, <3>1
  <2>3. (\E y \in stale' : ~Harmless(s, y)) =>
          \E j \in CPU : ptrs'[j] # <<>> \/ pc'[j] \in {"read", "break", "flush"}
    BY <1>7
  <2>4. ASSUME NEW j \in CPU PROVE RestoreInv(s, j)'
    <3>1. RestoreInv(s, j)
      BY <1>2 DEF CleanInv, RestoreInv
    <3> QED
      BY <1>1, <1>4, <1>5, <1>6, <1>7, <3>1 DEF RestoreInv, Val
  <2> QED
    BY <1>6, <2>2, <2>3, <2>4 DEF CleanInv, RestoreInv
<1>9. mem' \in [Page -> [Index -> Entry]] /\ stale' \subseteq (Page \X Index) \X Entry
  BY <1>1, <1>2 DEF TypeOK
<1> QED
  BY <1>1, <1>4, <1>5, <1>8, <1>9, Updating

LEMMA CleanBreak ==
  ASSUME NEW s, NEW lev, NEW i \in CPU, Inv(s, lev), phase = "clean", Break(i)
  PROVE  Inv(s, lev)'
<1>1. /\ pc[i] = "break" /\ pc' = [pc EXCEPT ![i] = "flush"] /\ Write(i, Invalid0)
      /\ UNCHANGED <<next, owner, boss, steps, op, regs, saved, want>>
  BY DEF Break, Goto
<1>2. TypeOK /\ CleanInv(s)
  BY DEF Inv
<1>3. Invalid0 \in Entry /\ ~Invalid0.valid
  BY DEF Invalid0, Entry
<1>4. /\ at[i][1] \in Page /\ at[i][2] \in Index /\ at[i] = <<at[i][1], at[i][2]>>
      /\ mem' \in [Page -> [Index -> Entry]]
      /\ \A q \in Page, h \in Index :
           mem'[q][h] = IF q = at[i][1] /\ h = at[i][2] THEN Invalid0 ELSE mem[q][h]
      /\ stale' \subseteq (Page \X Index) \X Entry
  BY <1>1, <1>2, <1>3, WriteFacts
<1>5. pc[i] \in Writing /\ "flush" \in Writing
  BY <1>1 DEF Writing
<1>6. phase' = phase /\ ptrs' = ptrs /\ at' = at /\ new' = new
  BY <1>1 DEF steps, saved, regs
<1>7. \A j \in CPU : pc'[j] = IF j = i THEN "flush" ELSE pc[j]
  BY <1>1, <1>2 DEF TypeOK
<1>8. ASSUME NEW y \in stale', y \notin stale PROVE y = <<at[i], Val(at[i])>> /\ Val(at[i]).valid
  BY <1>1, <1>8 DEF Write
<1>9. CleanInv(s)'
  <2>1. \A x : \A j \in CPU : Pending(j, x) => Pending(j, x)'
    BY <1>5, <1>6, <1>7 DEF Pending
  <2>2. ASSUME NEW p \in Page, NEW k \in Index, mem'[p][k] # s[p][k]
        PROVE  \E j \in CPU : Pending(j, <<p, k>>)'
    <3>1. CASE p = at[i][1] /\ k = at[i][2]
      <4>1. Pending(i, <<p, k>>)
        BY <1>4, <1>5, <3>1 DEF Pending
      <4> QED
        BY <2>1, <4>1
    <3>2. CASE ~(p = at[i][1] /\ k = at[i][2])
      <4>1. PICK j \in CPU : Pending(j, <<p, k>>)
        BY <1>2, <1>4, <2>2, <3>2 DEF CleanInv
      <4> QED
        BY <2>1, <4>1
    <3> QED
      BY <3>1, <3>2
  <2>3. (\E y \in stale' : ~Harmless(s, y)) =>
          \E j \in CPU : ptrs'[j] # <<>> \/ pc'[j] \in {"read", "break", "flush"}
    BY <1>7
  <2>4. ASSUME NEW j \in CPU PROVE RestoreInv(s, j)'
    <3>1. RestoreInv(s, j)
      BY <1>2 DEF CleanInv, RestoreInv
    <3>2. Val(at[j])' = IF at[j] = at[i] THEN Invalid0 ELSE Val(at[j])
      <4>1. at[j] \in Page \X Index
        BY <1>2 DEF TypeOK
      <4>2. at[j][1] \in Page /\ at[j][2] \in Index /\ at[j] = <<at[j][1], at[j][2]>>
        BY <4>1
      <4> QED
        BY <1>4, <1>6, <4>2 DEF Val
    <3>3. pc'[j] = "make" => \A y \in stale' : y[1] = at[j] => y[2] = Ent(s, at[j])
      <4> SUFFICES ASSUME pc'[j] = "make", NEW y \in stale', y[1] = at[j]
                   PROVE  y[2] = Ent(s, at[j])
        OBVIOUS
      <4>1. pc[j] = "make"
        BY <1>7
      <4>2. CASE y \in stale
        BY <3>1, <4>1, <4>2 DEF RestoreInv
      <4>3. CASE y \notin stale
        <5>1. at[i] = at[j] /\ y[2] = Val(at[j]) /\ Val(at[j]).valid
          BY <1>8, <4>3
        <5> QED
          BY <3>1, <4>1, <5>1 DEF RestoreInv
      <4> QED
        BY <4>2, <4>3
    <3>4. pc'[j] \in Writing => new[j] = Ent(s, at[j])
      BY <1>5, <1>7, <3>1 DEF RestoreInv
    <3>5. pc'[j] \in {"flush", "make"} /\ Val(at[j])'.valid => Val(at[j])' = Ent(s, at[j])
      <4>1. CASE at[j] = at[i]
        BY <1>3, <3>2, <4>1
      <4>2. CASE at[j] # at[i]
        BY <1>7, <3>1, <3>2, <4>2 DEF RestoreInv
      <4> QED
        BY <4>1, <4>2
    <3> QED
      BY <1>6, <3>3, <3>4, <3>5 DEF RestoreInv
  <2> QED
    BY <1>6, <2>2, <2>3, <2>4 DEF CleanInv, RestoreInv
<1> QED
  BY <1>1, <1>4, <1>5, <1>9, Updating

LEMMA CleanFlush ==
  ASSUME NEW s, NEW lev, NEW i \in CPU, Inv(s, lev), phase = "clean", Flush(i)
  PROVE  Inv(s, lev)'
<1>1. /\ pc[i] = "flush" /\ pc' = [pc EXCEPT ![i] = "make"] /\ stale' = {}
      /\ UNCHANGED <<mem, next, owner, boss, steps, op, regs, saved, want>>
  BY DEF Flush, Goto
<1>2. TypeOK /\ CleanInv(s)
  BY DEF Inv
<1>3. pc[i] \in Writing /\ "make" \in Writing
  BY <1>1 DEF Writing
<1>4. phase' = phase /\ ptrs' = ptrs /\ at' = at /\ new' = new
  BY <1>1 DEF steps, saved, regs
<1>5. \A j \in CPU : pc'[j] = IF j = i THEN "make" ELSE pc[j]
  BY <1>1, <1>2 DEF TypeOK
<1>6. CleanInv(s)'
  <2>1. \A x : \A j \in CPU : Pending(j, x) => Pending(j, x)'
    BY <1>3, <1>4, <1>5 DEF Pending
  <2>2. ASSUME NEW p \in Page, NEW k \in Index, mem'[p][k] # s[p][k]
        PROVE  \E j \in CPU : Pending(j, <<p, k>>)'
    <3>1. PICK j \in CPU : Pending(j, <<p, k>>)
      BY <1>1, <1>2, <2>2 DEF CleanInv
    <3> QED
      BY <2>1, <3>1
  <2>3. ASSUME NEW j \in CPU PROVE RestoreInv(s, j)'
    <3>1. RestoreInv(s, j)
      BY <1>2 DEF CleanInv, RestoreInv
    <3> QED
      BY <1>1, <1>3, <1>4, <1>5, <3>1 DEF RestoreInv, Val
  <2> QED
    BY <1>1, <1>4, <2>2, <2>3 DEF CleanInv, RestoreInv
<1>7. mem' \in [Page -> [Index -> Entry]] /\ stale' \subseteq (Page \X Index) \X Entry
  BY <1>1, <1>2 DEF TypeOK
<1> QED
  BY <1>1, <1>3, <1>6, <1>7, Updating

(* What the last write of a restored entry finds. *)
LEMMA RestoreFacts ==
  ASSUME NEW s, NEW lev, NEW i \in CPU, Inv(s, lev), phase = "clean", pc[i] = "make"
  PROVE  /\ new[i] = Ent(s, at[i])
         /\ Val(at[i]).valid => Val(at[i]) = new[i]
         /\ \A y \in stale : y[1] = at[i] => y[2] = new[i]
<1>1. CleanInv(s)
  BY DEF Inv
<1>2. RestoreInv(s, i)
  BY <1>1 DEF CleanInv, RestoreInv
<1> QED
  BY <1>2 DEF RestoreInv, Writing

LEMMA CleanRestore ==
  ASSUME NEW s, NEW lev, NEW i \in CPU, Inv(s, lev), phase = "clean", Restore(i)
  PROVE  Inv(s, lev)'
<1>1. /\ pc[i] = "make" /\ pc' = [pc EXCEPT ![i] = "idle"] /\ Write(i, new[i])
      /\ op' = [op EXCEPT ![i] = NoCall]
      /\ level' = [level EXCEPT ![i] = 0]
      /\ table' = [table EXCEPT ![i] = Root]
      /\ at' = [at EXCEPT ![i] = NoPtr]
      /\ new' = [new EXCEPT ![i] = Invalid0]
      /\ UNCHANGED <<next, owner, boss, steps, saved, want>>
  BY DEF Restore, Goto, Return
<1>2. phase' = phase /\ batch' = batch /\ ptrs' = ptrs /\ descs' = descs /\ next' = next
      /\ owner' = owner /\ UNCHANGED <<regions, va, pa, stage, todo>>
  BY <1>1 DEF steps, saved, boss
<1>3. TypeOK /\ FunInv /\ CleanInv(s) /\ PtrInv(s, i) /\ new[i] \in Entry
  BY DEF Inv, TypeOK
<1>4. /\ new[i] = Ent(s, at[i]) /\ (Val(at[i]).valid => Val(at[i]) = new[i])
      /\ \A y \in stale : y[1] = at[i] => y[2] = new[i]
  BY <1>1, RestoreFacts
<1>5. /\ at[i][1] \in Page /\ at[i][2] \in Index /\ at[i] = <<at[i][1], at[i][2]>>
      /\ mem' \in [Page -> [Index -> Entry]]
      /\ \A q \in Page, h \in Index :
           mem'[q][h] = IF q = at[i][1] /\ h = at[i][2] THEN new[i] ELSE mem[q][h]
      /\ stale' \subseteq (Page \X Index) \X Entry
  BY <1>1, <1>3, WriteFacts
<1>6. /\ pc'[i] = "idle" /\ op'[i] = NoCall /\ level'[i] = 0 /\ table'[i] = Root
      /\ \A j \in CPU \ {i} : Same(j)
  BY <1>1, <1>2, <1>3 DEF TypeOK, FunInv, Same
<1>7. TypeOK'
  <2>1. Root \in Page /\ 0 \in Level /\ NoPtr \in Page \X Index /\ Invalid0 \in Entry
    BY VmmAssumption DEF Root, Page, Level, NoPtr, Index, Invalid0, Entry
  <2>2. /\ pc' \in [CPU -> PC] /\ level' \in [CPU -> Level] /\ table' \in [CPU -> Page]
        /\ at' \in [CPU -> Page \X Index] /\ new' \in [CPU -> Entry]
    BY <1>1, <1>3, <2>1 DEF TypeOK, PC
  <2> QED
    BY <1>2, <1>3, <1>5, <2>2 DEF TypeOK
<1>8. FunInv'
  <2>1. op' \in [CPU -> AnyCall]
    BY <1>1, <1>3 DEF FunInv, AnyCall
  <2> QED
    BY <1>2, <1>3, <2>1 DEF FunInv
<1>9. CallInv(i)'
  BY <1>6 DEF CallInv
<1>10. PtrInv(s, i)'
  BY <1>2, <1>3 DEF PtrInv
<1>11. ASSUME NEW y \in stale', y \notin stale
       PROVE  y[1] = at[i] /\ y[2] = Ent(s, at[i]) /\ y[2].valid
  <2>1. y = <<at[i], Val(at[i])>> /\ Val(at[i]).valid
    BY <1>1, <1>11 DEF Write
  <2> QED
    BY <1>4, <2>1
<1>12. CleanInv(s)'
  <2>1. ASSUME NEW p \in Page, NEW k \in Index, mem'[p][k] # s[p][k]
        PROVE  \E j \in CPU : Pending(j, <<p, k>>)'
    <3>1. ~(p = at[i][1] /\ k = at[i][2])
      BY <1>4, <1>5, <2>1 DEF Ent
    <3>2. PICK j \in CPU : Pending(j, <<p, k>>)
      BY <1>2, <1>3, <1>5, <2>1, <3>1 DEF CleanInv
    <3>3. CASE j # i
      BY <1>6, <3>2, <3>3 DEF Pending, Same
    <3>4. CASE j = i
      <4>1. at[i] # <<p, k>>
        BY <3>1
      <4>2. \E n \in 1 .. Len(ptrs[i]) : ptrs[i][n] = <<p, k>>
        BY <3>2, <3>4, <4>1 DEF Pending
      <4> QED
        BY <1>2, <3>4, <4>2 DEF Pending
    <3> QED
      BY <3>3, <3>4
  <2>2. ASSUME NEW y \in stale', ~Harmless(s, y)
        PROVE  \E j \in CPU : ptrs'[j] # <<>> \/ pc'[j] \in {"read", "break", "flush"}
    <3>1. y \in stale
      BY <1>11, <2>2 DEF Harmless
    <3>2. PICK j \in CPU : ptrs[j] # <<>> \/ pc[j] \in {"read", "break", "flush"}
      BY <1>2, <1>3, <2>2, <3>1 DEF CleanInv
    <3> QED
      BY <1>1, <1>2, <1>6, <3>2 DEF Same
  <2>3. ASSUME NEW j \in CPU PROVE RestoreInv(s, j)'
    <3>1. CASE j = i
      BY <1>6, <3>1 DEF RestoreInv, Writing
    <3>2. CASE j # i
      <4>1. RestoreInv(s, j) /\ Same(j)
        BY <1>2, <1>3, <1>6, <3>2 DEF CleanInv, RestoreInv
      <4>2. at[j] \in Page \X Index
        BY <1>3 DEF TypeOK
      <4>3. at[j][1] \in Page /\ at[j][2] \in Index /\ at[j] = <<at[j][1], at[j][2]>>
        BY <4>2
      <4>4. Val(at[j])' = IF at[j] = at[i] THEN new[i] ELSE Val(at[j])
        BY <1>5, <4>1, <4>3 DEF Val, Same
      <4>5. pc[j] = "make" => \A y \in stale' : y[1] = at[j] => y[2] = Ent(s, at[j])
        BY <1>11, <4>1 DEF RestoreInv
      <4> QED
        BY <1>4, <4>1, <4>4, <4>5 DEF RestoreInv, Same
    <3> QED
      BY <3>1, <3>2
  <2> QED
    BY <1>2, <2>1, <2>2, <2>3 DEF CleanInv, RestoreInv
<1> QED
  BY <1>1, <1>2, <1>6, <1>7, <1>8, <1>9, <1>10, <1>12, Cleaning

-----------------------------------------------------------------------------
(* All together. *)
LEMMA PhaseOf ==
  ASSUME NEW s, NEW lev, NEW i \in CPU, Inv(s, lev)
  PROVE  /\ pc[i] \in {"lock", "level", "walk", "save"} => phase \in {"init", "setup"}
         /\ Ensuring(i) /\ pc[i] # "idle" => phase \in {"init", "setup"}
         /\ op[i].kind = "set" /\ pc[i] # "idle" => phase \in {"init", "setup"}
         /\ op[i].kind = "restore" /\ pc[i] # "idle" => phase = "clean"
         /\ phase \in {"init", "setup", "clean"}
<1>1. CallInv(i) /\ phase \in {"init", "setup", "clean"} /\ level[i] \in Level
  BY DEF Inv, TypeOK
<1>2. CASE pc[i] = "idle"
  BY <1>1, <1>2
<1>3. CASE pc[i] # "idle" /\ phase = "clean"
  <2>1. op[i] = RestoreCall /\ pc[i] \in Writing
    BY <1>1, <1>3 DEF CallInv, Calls
  <2> QED
    BY <1>1, <1>3, <2>1 DEF RestoreCall, Writing, Ensuring, Level
<1>4. CASE pc[i] # "idle" /\ phase \in {"init", "setup"}
  <2>1. op[i].kind \in {"set", "lookup"}
    BY <1>1, <1>4, CallFacts
  <2> QED
    BY <1>4, <2>1
<1> QED
  BY <1>1, <1>2, <1>3, <1>4

LEMMA StepKeepsInv ==
  ASSUME NEW s, NEW lev, NEW i \in CPU, Inv(s, lev), Step(i)
  PROVE  IInv'
<1>p. /\ pc[i] \in {"lock", "level", "walk", "save"} => phase \in {"init", "setup"}
      /\ Ensuring(i) /\ pc[i] # "idle" => phase \in {"init", "setup"}
      /\ op[i].kind = "set" /\ pc[i] # "idle" => phase \in {"init", "setup"}
      /\ op[i].kind = "restore" /\ pc[i] # "idle" => phase = "clean"
      /\ phase \in {"init", "setup", "clean"}
  BY PhaseOf
<1>1. CASE Lookup(i)
  BY <1>1, LookupStep, QuietIsIInv
<1>2. CASE Lock(i)
  <2>1. phase \in {"init", "setup"}
    BY <1>p, <1>2 DEF Lock, Goto
  <2> QED
    BY <1>2, <2>1, LockStep, QuietIsIInv
<1>3. CASE Descend(i)
  <2>1. phase \in {"init", "setup"}
    BY <1>p, <1>3 DEF Descend, Goto
  <2> QED
    BY <1>3, <2>1, DescendStep, QuietIsIInv
<1>4. CASE NewTable(i)
  <2>1. phase \in {"init", "setup"}
    BY <1>p, <1>4 DEF NewTable, Goto
  <2> QED
    BY <1>4, <2>1, NewTableStep
<1>5. CASE Unlock(i)
  <2>1. phase \in {"init", "setup"}
    BY <1>p, <1>5 DEF Unlock, Goto
  <2> QED
    BY <1>5, <2>1, UnlockStep, QuietIsIInv
<1>6. CASE Read(i)
  <2>1. CASE phase \in {"init", "setup"}
    BY <1>6, <2>1, ReadStep, QuietIsIInv
  <2>2. CASE phase = "clean"
    BY <1>6, <2>2, CleanRead, QuietIsIInv
  <2> QED
    BY <1>p, <2>1, <2>2
<1>7. CASE Break(i)
  <2>1. CASE phase \in {"init", "setup"}
    BY <1>7, <2>1, BreakStep
  <2>2. CASE phase = "clean"
    BY <1>7, <2>2, CleanBreak, QuietIsIInv
  <2> QED
    BY <1>p, <2>1, <2>2
<1>8. CASE Flush(i)
  <2>1. CASE phase \in {"init", "setup"}
    BY <1>8, <2>1, FlushStep, QuietIsIInv
  <2>2. CASE phase = "clean"
    BY <1>8, <2>2, CleanFlush, QuietIsIInv
  <2> QED
    BY <1>p, <2>1, <2>2
<1>9. CASE Link(i)
  <2>1. phase \in {"init", "setup"}
    BY <1>p, <1>9 DEF Link, Goto
  <2> QED
    BY <1>9, <2>1, LinkStep
<1>10. CASE Set(i)
  <2>1. phase \in {"init", "setup"}
    BY <1>p, <1>10 DEF Set, Goto
  <2> QED
    BY <1>10, <2>1, SetStep
<1>11. CASE Restore(i)
  <2>1. phase = "clean"
    BY <1>p, <1>11 DEF Restore, Goto
  <2> QED
    BY <1>11, <2>1, CleanRestore, QuietIsIInv
<1>12. CASE Walk(i)
  <2>1. phase \in {"init", "setup"}
    BY <1>p, <1>12 DEF Walk, Goto
  <2> QED
    BY <1>12, <2>1, WalkStep, QuietIsIInv
<1>13. CASE WalkedSet(i)
  <2>1. phase \in {"init", "setup"}
    BY <1>p, <1>13 DEF WalkedSet, Goto
  <2> QED
    BY <1>13, <2>1, WalkedSetStep, QuietIsIInv
<1>14. CASE WalkedLookup(i)
  <2>1. phase \in {"init", "setup"}
    BY <1>p, <1>14 DEF WalkedLookup, Goto
  <2> QED
    BY <1>14, <2>1, WalkedLookupStep, QuietIsIInv
<1>15. CASE Save(i)
  <2>1. phase \in {"init", "setup"}
    BY <1>p, <1>15 DEF Save, Goto
  <2> QED
    BY <1>15, <2>1, SaveStep, QuietIsIInv
<1>16. CASE Clean(i)
  BY <1>16, CleanStep, QuietIsIInv
<1> QED
  BY <1>1, <1>2, <1>3, <1>4, <1>5, <1>6, <1>7, <1>8, <1>9, <1>10, <1>11, <1>12, <1>13, <1>14, <1>15,
     <1>16 DEF Step

LEMMA IInvInit == Init => IInv
<1> SUFFICES ASSUME Init PROVE IInv
  OBVIOUS
<1>1. /\ mem = [p \in Page |-> [k \in Index |-> Invalid0]] /\ next = 1 /\ owner = NoCPU
      /\ regions \in Layouts /\ va = 0 /\ pa = 0 /\ stage = 0 /\ todo = ToSet(Heap)
      /\ batch = 0 /\ phase = "init" /\ pc = [i \in CPU |-> "idle"] /\ op = [i \in CPU |-> NoCall]
      /\ level = [i \in CPU |-> 0] /\ table = [i \in CPU |-> Root]
      /\ at = [i \in CPU |-> NoPtr] /\ new = [i \in CPU |-> Invalid0]
      /\ ptrs = [i \in CPU |-> <<>>] /\ descs = [i \in CPU |-> <<>>] /\ stale = {}
  BY DEF Init, Root
<1>2. Root \in Page /\ 0 \in Level /\ NoPtr \in Page \X Index /\ Invalid0 \in Entry
      /\ 1 \in 1 .. MaxPages + 1
  BY VmmAssumption DEF Root, Page, Level, NoPtr, Index, Invalid0, Entry
<1>3. PICK s \in [Page -> [Index -> Entry]] : s = mem
  BY <1>1, <1>2
<1>4. PICK lev \in [Page -> Level] : \A p \in Page : lev[p] = 0
  <2>1. [p \in Page |-> 0] \in [Page -> Level]
    BY <1>2
  <2> QED
    BY <2>1
<1>5. TypeOK
  <2>1. /\ owner \in CPU \cup {NoCPU} /\ stage \in 0 .. 5 /\ todo \subseteq ToSet(Heap)
        /\ batch \in 0 .. Batches /\ phase \in {"init", "setup", "clean"} /\ pc \in [CPU -> PC]
        /\ stale \subseteq (Page \X Index) \X Entry
    BY <1>1, VmmAssumption DEF PC
  <2> QED
    BY <1>1, <1>2, <2>1 DEF TypeOK
<1>6. FunInv
  BY <1>1 DEF FunInv, AnyCall
<1>7. BossInv
  <2>1. regions \in Seq([va_start : Nat, va_end : Nat, pa_start : Nat])
    BY <1>1, VmmAssumption
  <2> QED
    BY <1>1, <2>1 DEF BossInv
<1>8. LockInv
  BY <1>1, VmmAssumption DEF LockInv, Locked, Linking, Writing
<1>9. Good(s, next, lev)
  <2>1. \A p \in Page, k \in Index : ~s[p][k].valid
    BY <1>1, <1>3 DEF Invalid0
  <2> QED
    BY <1>2, <1>4, <2>1 DEF Good, IsTable
<1>10. ASSUME NEW i \in CPU PROVE CallInv(i) /\ PathInv(lev, i) /\ PtrInv(s, i)
  <2>1. pc[i] = "idle" /\ op[i] = NoCall /\ level[i] = 0 /\ table[i] = Root
        /\ ptrs[i] = <<>> /\ descs[i] = <<>> /\ Len(ptrs[i]) = 0 /\ Len(descs[i]) = 0
    BY <1>1
  <2>2. CallInv(i) /\ PathInv(lev, i)
    BY <2>1 DEF CallInv, PathInv, OnPath, Setting, Linking, Writing
  <2>3. Len(Heap) \in Nat
    BY VmmAssumption
  <2>4. PtrInv(s, i)
    BY <2>1, <2>3 DEF PtrInv
  <2> QED
    BY <2>2, <2>4
<1>11. CleanInv(s) /\ StaleInv
  BY <1>1, <1>3 DEF CleanInv, StaleInv
<1> QED
  BY <1>5, <1>6, <1>7, <1>8, <1>9, <1>10, <1>11 DEF IInv, Inv

LEMMA Stutter ==
  ASSUME NEW s, NEW lev, Inv(s, lev), UNCHANGED vars
  PROVE  Inv(s, lev)'
<1>1. /\ UNCHANGED <<mem, next, owner, regions, va, pa, stage, todo, batch, phase, pc, op>>
      /\ UNCHANGED <<level, table, at, new, ptrs, descs, stale>>
  BY DEF vars, boss, steps, regs, saved
<1>2. TypeOK' /\ FunInv' /\ BossInv' /\ LockInv' /\ Good(s, next, lev)'
  BY <1>1 DEF Inv, TypeOK, FunInv, BossInv, LockInv, Locked, Linking, Ensuring, Good
<1>3. CleanInv(s)' /\ StaleInv'
  BY <1>1 DEF Inv, CleanInv, StaleInv, Pending, Val
<1>4. ASSUME NEW i \in CPU PROVE CallInv(i)' /\ PathInv(lev, i)' /\ PtrInv(s, i)'
  <2>1. CallInv(i) /\ PathInv(lev, i) /\ PtrInv(s, i) /\ Same(i)
    BY <1>1 DEF Inv, Same
  <2>2. CallInv(i)'
    BY <1>1, <2>1, OtherCall
  <2>3. PtrInv(s, i)'
    BY <1>1, <2>1, PtrSame
  <2>4. PathInv(lev, i)'
    BY <1>1, <2>1 DEF PathInv, Path, OnPath, Linking, Setting, Ensuring, Pte, Val
  <2> QED
    BY <2>2, <2>3, <2>4
<1> QED
  BY <1>2, <1>3, <1>4 DEF Inv

LEMMA IInvStep == IInv /\ [Next]_vars => IInv'
<1> SUFFICES ASSUME IInv, [Next]_vars PROVE IInv'
  OBVIOUS
<1>0. PICK s \in [Page -> [Index -> Entry]], lev \in [Page -> Level] : Inv(s, lev)
  BY DEF IInv
<1>1. CASE Map
  BY <1>0, <1>1, MapStep, QuietIsIInv
<1>2. CASE SetRange
  BY <1>0, <1>2, SetRangeStep, QuietIsIInv
<1>3. CASE EndLoop
  BY <1>0, <1>3, EndLoopStep, QuietIsIInv
<1>4. CASE Allocated
  BY <1>0, <1>4, AllocatedStep, QuietIsIInv
<1>5. CASE Cleaned
  BY <1>0, <1>5, CleanedStep, QuietIsIInv
<1>6. CASE \E v \in todo : SetInitPte(v)
  BY <1>0, <1>6, SetInitPteStep, QuietIsIInv
<1>7. CASE \E n \in 1 .. Len(ptrs[Boss]) :
        \E e \in {Invalid0} \cup {BlockDesc(p, LevelAt(n - 1)) : p \in TestPages} : Test(n, e)
  BY <1>0, <1>7, TestStep, QuietIsIInv
<1>8. CASE \E i \in CPU : Step(i)
  BY <1>0, <1>8, StepKeepsInv
<1>9. CASE UNCHANGED vars
  BY <1>0, <1>9, Stutter, QuietIsIInv
<1> QED
  BY <1>1, <1>2, <1>3, <1>4, <1>5, <1>6, <1>7, <1>8, <1>9 DEF Next

(* The invariant holds of every pagetable, with any number of CPUs.        *)
THEOREM VmmInvariant == Spec => []IInv
<1> QED
  BY IInvInit, IInvStep, PTL DEF Spec

(* vmm.c:53-104, 118-139: no walk leaves levels 0 to 3, and none takes     *)
(* anything but a page that zalloc_ptable has given out for a table.       *)
THEOREM VmmTypeOK == Spec => []TypeOK
<1>1. IInv => TypeOK
  BY DEF IInv, Inv
<1> QED
  BY <1>1, VmmInvariant, PTL

(* vmm.h:28: the entries that setup_run_data has stored stay those that    *)
(* map the variables, whatever tables others add.                          *)
THEOREM VmmPointersStable == Spec => []PointersStable
<1>1. IInv => PointersStable
  <2> SUFFICES ASSUME IInv, phase = "setup", NEW i \in CPU, NEW n \in 1 .. Len(ptrs[i])
               PROVE  ptrs[i][n] = <<Tables(VarOf(n - 1))[LevelAt(n - 1)],
                                     OFFS(VarOf(n - 1), LevelAt(n - 1))>>
    BY DEF PointersStable
  <2>1. PICK s \in [Page -> [Index -> Entry]], lev \in [Page -> Level] : Inv(s, lev)
    BY DEF IInv
  <2>2. PtrInv(s, i)
    BY <2>1 DEF Inv
  <2>3. ptrs[i][n] = <<Path(VarOf(n - 1))[LevelAt(n - 1)], OFFS(VarOf(n - 1), LevelAt(n - 1))>>
    BY <2>2 DEF PtrInv
  <2> QED
    BY <2>3, SamePath
<1> QED
  BY <1>1, VmmInvariant, PTL

-----------------------------------------------------------------------------
(* Break before make: only the last write of vmm_update_pte makes an entry *)
(* valid.                                                                  *)
LEMMA OneWrite ==
  ASSUME IInv, [Next]_vars, NEW p \in Page, NEW k \in Index,
         mem'[p][k] # mem[p][k], mem'[p][k].valid, phase' = phase
  PROVE  \E i \in CPU : NewTable(i) \/ Link(i) \/ Set(i) \/ Restore(i)
<1>0. mem' # mem
  OBVIOUS
<1>1. TypeOK
  BY DEF IInv, Inv
<1>2. ASSUME NEW i \in CPU, Break(i) PROVE FALSE
  <2>1. Invalid0 \in Entry /\ ~Invalid0.valid
    BY DEF Invalid0, Entry
  <2>2. mem'[p][k] = Invalid0 \/ mem'[p][k] = mem[p][k]
    BY <1>1, <1>2, <2>1, WriteFacts DEF Break
  <2> QED
    BY <2>1, <2>2
<1>3. ASSUME NEW i \in CPU, Step(i) PROVE NewTable(i) \/ Link(i) \/ Set(i) \/ Restore(i)
  BY <1>0, <1>2, <1>3 DEF Step, Lookup, Request, Lock, Descend, Unlock, Read, Flush, Walk, WalkedSet,
       WalkedLookup, Save, Clean
<1>4. ASSUME NEW n, NEW e, Test(n, e) PROVE FALSE
  BY <1>4 DEF Test
<1>5. ASSUME NEW v, SetInitPte(v) PROVE FALSE
  BY <1>0, <1>5 DEF SetInitPte, Request
<1> QED
  BY <1>0, <1>3, <1>4, <1>5 DEF Next, vars, Map, SetRange, Request, EndLoop, Allocated, Cleaned

LEMMA MakeAfterBreak ==
  ASSUME IInv, [Next]_vars, NEW p \in Page, NEW k \in Index,
         mem'[p][k] # mem[p][k], mem'[p][k].valid, phase' = phase
  PROVE  /\ ~mem[p][k].valid
         /\ \A x \in stale : x[1] = <<p, k>> => x[2] = mem'[p][k]
<1>0. PICK s \in [Page -> [Index -> Entry]], lev \in [Page -> Level] : Inv(s, lev)
  BY DEF IInv
<1>1. TypeOK /\ CleanInv(s) /\ Good(s, next, lev) /\ next \in Nat
  BY <1>0 DEF Inv, TypeOK
<1>2. PICK i \in CPU : NewTable(i) \/ Link(i) \/ Set(i) \/ Restore(i)
  BY OneWrite
<1>3. CASE NewTable(i)
  <2>1. pc[i] = "level" /\ phase \in {"init", "setup"}
    BY <1>0, <1>3, PhaseOf DEF NewTable, Goto
  <2>2. mem = s
    BY <1>1, <2>1 DEF CleanInv
  <2>3. p = next
    BY <1>1, <1>3 DEF NewTable, TypeOK
  <2>4. ~mem[p][k].valid
    BY <1>1, <2>2, <2>3 DEF Good
  <2>5. \A y \in stale : Harmless(mem, y)
    BY <1>0, <2>1, Alone
  <2>6. \A x \in stale : x[1] # <<p, k>>
    BY <2>4, <2>5 DEF Harmless, Ent
  <2> QED
    BY <2>4, <2>6
<1>4. CASE Link(i) \/ Set(i) \/ Restore(i)
  <2>1. pc[i] = "make" /\ Write(i, new[i]) /\ new[i] \in Entry
    BY <1>1, <1>4 DEF Link, Set, Restore, Goto, TypeOK
  <2>2. at[i] = <<p, k>> /\ mem'[p][k] = new[i]
    BY <1>1, <2>1, WriteFacts
  <2>3. Val(at[i]) = mem[p][k]
    BY <2>2 DEF Val
  <2>4. phase \in {"init", "setup", "clean"}
    BY <1>1 DEF TypeOK
  <2>5. CASE phase \in {"init", "setup"}
    BY <1>0, <2>1, <2>2, <2>3, <2>5, MakeStale
  <2>6. CASE phase = "clean"
    <3>1. /\ Val(at[i]).valid => Val(at[i]) = new[i]
          /\ \A y \in stale : y[1] = at[i] => y[2] = new[i]
      BY <1>0, <2>1, <2>6, RestoreFacts
    <3> QED
      BY <2>2, <2>3, <3>1
  <2> QED
    BY <2>4, <2>5, <2>6
<1> QED
  BY <1>2, <1>3, <1>4

(* vmm_update_pte (inc/vmm/vmm.h:193), for calls by any number of CPUs at  *)
(* the same time, and for what any test leaves behind.                     *)
THEOREM VmmBreakBeforeMake == Spec => BreakBeforeMake
<1>1. IInv /\ [Next]_vars =>
        (\A p \in Page, k \in Index :
           mem'[p][k] # mem[p][k] /\ mem'[p][k].valid /\ phase' = phase
             => /\ ~mem[p][k].valid
                /\ \A x \in stale : x[1] = <<p, k>> => x[2] = mem'[p][k])
  BY MakeAfterBreak
<1> QED
  BY <1>1, VmmInvariant, PTL DEF Spec, BreakBeforeMake

-----------------------------------------------------------------------------
(* The translation of every address.                                       *)
LeafIn(m, a, l) ==
  LET p == TablesIn(m, a)[l] IN
  p # -1 /\ m[p][OFFS(a, l)].valid /\ m[p][OFFS(a, l)].bit1 = (l = 3)

(* a and b are in the same block of level l. *)
Near(a, b, l) == a \div SIZE(l) = b \div SIZE(l)

(* No table is reached by two ways. *)
Tree(m) ==
  \A a, b \in VA, l \in 1 .. 3 :
    TablesIn(m, a)[l] # -1 /\ TablesIn(m, a)[l] = TablesIn(m, b)[l] => Near(a, b, l - 1)

(* What a set call asks for, and while its entry is broken. *)
AskedFor(c)  == {a \in VA : c.va <= a /\ a < c.va + SIZE(c.to)}
Broken(i)    == pc[i] \in {"flush", "make"} /\ Setting(i)
SetRight(c)  ==
  /\ c.va + SIZE(c.to) <= Fanout * SIZE(0) /\ Aligned(c.va, c.to)
  /\ c.pa # Unmapped => Aligned(c.pa, c.to)

(* A set call writes the block it was asked for, to its own level.         *)
SetInv(i) ==
  /\ pc[i] # "idle" /\ phase # "clean" => op[i].va \in VA
  /\ pc[i] # "idle" /\ op[i].kind = "set" =>
       /\ SetRight(op[i])
       /\ pc[i] = "walk" => level[i] <= op[i].to
       /\ Setting(i) =>
            /\ level[i] = op[i].to
            /\ new[i] = IF op[i].pa = Unmapped THEN Invalid0 ELSE BlockDesc(op[i].pa, op[i].to)

(* A table is empty until it is linked, to an entry that is not valid.     *)
FreshInv(i) ==
  Linking(i) =>
    /\ pc[i] \in {"read", "make"} /\ ~ Val(at[i]).valid
    /\ \A k \in Index : mem[new[i].addr][k] = Invalid0
    /\ \A a \in VA, l \in Level : Path(a)[l] # new[i].addr

(* The loops of __ptable_set_range: each begins at an address from which   *)
(* it can map blocks of its level, or has nothing to do.                   *)
RangeInv ==
  /\ \A n \in DOMAIN regions : regions[n].va_end <= Fanout * SIZE(0)
  /\ stage = 2 => BothAligned(va, pa, 2) \/ ~ Fits(va, 3)
  /\ stage = 3 => BothAligned(va, pa, 1) \/ ~ Fits(va, 2)
  /\ stage = 4 => BothAligned(va, pa, 2) \/ ~ Fits(va, 2)

(* The page that a memory m translates a to, or -1. *)
TransIn(m, a) ==
  IF \E l \in 1 .. 3 : LeafIn(m, a, l)
  THEN LET l == CHOOSE l \in 1 .. 3 : LeafIn(m, a, l) IN
       AlignTo(m[TablesIn(m, a)[l]][OFFS(a, l)].addr, l) + (a % SIZE(l))
  ELSE -1

(* Every address translates as asked, or its entry is being replaced.      *)
Mapped(s) ==
  /\ Tree(s)
  /\ \A a \in VA : TransIn(s, a) = want[a] \/ \E i \in CPU : Broken(i) /\ a \in AskedFor(op[i])

(* vmm_ensure_level meets no block, which it would have to split, and      *)
(* set_block_or_page finds no table where it is to put a block.            *)
Unsplit ==
  \A i \in CPU :
    /\ pc[i] = "level" /\ Ensuring(i) => ~ IsBlock(Desc(i), level[i])
    /\ pc[i] = "walk" /\ op[i].kind = "set" /\ level[i] = op[i].to => ~ Walking(i)

-----------------------------------------------------------------------------
(* What is still to be mapped, while the regions are apart. *)
Building == regions # <<>>
Rest(a)  == \E n \in DOMAIN regions : In(regions[n], a) /\ (n = 1 /\ stage # 0 => va <= a)

(* What is still to be mapped translates to nothing; a variable that is    *)
(* mapped has tables down to level 3; and, while the regions are mapped,   *)
(* Boss asks for what is not mapped, and every table is there for some     *)
(* page that is mapped, or that it is about to map.                        *)
ApartInv(s) ==
  /\ stage # 0 => regions[1].va_start <= va
  /\ \A n, m \in DOMAIN regions : \A a \in VA : In(regions[n], a) /\ In(regions[m], a) => n = m
  /\ \A n \in DOMAIN regions, v \in ToSet(Heap) : ~ In(regions[n], v)
  /\ \A a \in VA : Rest(a) => want[a] = -1
  /\ \A v \in ToSet(Heap) : want[v] # -1 => TablesIn(s, v)[3] # -1
  /\ pc[Boss] # "idle" /\ phase = "init" =>
       IF Building THEN
         /\ op[Boss].pa # Unmapped
         /\ \A a \in AskedFor(op[Boss]) : want[a] = -1 /\ ~ Rest(a) /\ a \notin ToSet(Heap)
       ELSE op[Boss].va \in ToSet(Heap) /\ op[Boss].to = 3
  /\ Building =>
       \A a \in VA, l \in 1 .. 3 : TablesIn(s, a)[l] # -1 =>
         \E b \in VA : /\ Near(a, b, l - 1)
                       /\ want[b] # -1 \/ (pc[Boss] # "idle" /\ b = op[Boss].va /\ l <= op[Boss].to)

MapInv(s) ==
  /\ Mapped(s) /\ RangeInv /\ (LayoutsApart => ApartInv(s))
  /\ \A i \in CPU : SetInv(i) /\ FreshInv(i)

-----------------------------------------------------------------------------
(* Addresses are numbers of four digits: an entry for each level.          *)
LEMMA Division ==
  ASSUME NEW n \in Nat, NEW b \in Nat \ {0}
  PROVE  n \div b \in Nat /\ n % b \in 0 .. b - 1 /\ n = (b * (n \div b)) + (n % b)
OBVIOUS

LEMMA Monotone ==
  ASSUME NEW b \in Nat, NEW p \in Nat, NEW q \in Nat, p < q
  PROVE  (b * p) + b <= b * q
<1>1. PICK d \in Nat : q = (p + 1) + d
  <2>1. q - (p + 1) \in Nat /\ q = (p + 1) + (q - (p + 1))
    OBVIOUS
  <2> QED
    BY <2>1
<1>2. b * q = ((b * p) + b) + (b * d)
  BY <1>1
<1>3. b * d \in Nat /\ b * p \in Nat
  OBVIOUS
<1>4. PICK x \in Nat, y \in Nat, z \in Nat : x = b * d /\ y = b * p /\ z = b * q
  BY <1>3
<1>5. z = (y + b) + x
  BY <1>2, <1>4
<1>6. y + b <= z
  BY <1>5
<1> QED
  BY <1>4, <1>6

LEMMA Unique ==
  ASSUME NEW b \in Nat \ {0}, NEW q \in Nat, NEW m \in 0 .. b - 1, NEW n, n = (b * q) + m
  PROVE  n \in Nat /\ n \div b = q /\ n % b = m
<1>1. b * q \in Nat
  OBVIOUS
<1>2. n \in Nat
  BY <1>1
<1>3. PICK p \in Nat, r \in 0 .. b - 1 : p = n \div b /\ r = n % b /\ n = (b * p) + r
  BY <1>2, Division
<1>4. PICK x \in Nat, y \in Nat : x = b * q /\ y = b * p
  BY <1>1
<1>5. x + m = y + r
  BY <1>3, <1>4
<1>6. ASSUME p < q PROVE FALSE
  <2>1. y + b <= x
    BY <1>4, <1>6, Monotone
  <2> QED
    BY <1>5, <2>1
<1>7. ASSUME q < p PROVE FALSE
  <2>1. x + b <= y
    BY <1>4, <1>7, Monotone
  <2> QED
    BY <1>5, <2>1
<1>8. p = q
  BY <1>6, <1>7
<1>9. m = r
  BY <1>4, <1>5, <1>8
<1> QED
  BY <1>2, <1>3, <1>8, <1>9

LEMMA Multiple ==
  ASSUME NEW b \in Nat \ {0}, NEW q \in Nat, NEW n, n = b * q
  PROVE  n % b = 0
<1>1. PICK m \in 0 .. b - 1 : m = 0
  OBVIOUS
<1>2. PICK x \in Nat : x = b * q
  OBVIOUS
<1>3. n = x + m
  BY <1>1, <1>2
<1>4. n = (b * q) + m
  BY <1>2, <1>3
<1> QED
  BY <1>1, <1>4, Unique

LEMMA SizeStep ==
  /\ Fanout \in Nat \ {0} /\ SIZE(3) = 1
  /\ \A l \in 0 .. 2 : SIZE(l) = Fanout * SIZE(l + 1)
  /\ \A l \in Level : SIZE(l) \in Nat \ {0}
<1>1. Fanout \in Nat \ {0}
  BY VmmAssumption
<1>2. SIZE(3) = 1 /\ SIZE(2) = Fanout /\ SIZE(1) = Fanout * Fanout /\ SIZE(0) = (Fanout * Fanout) * Fanout
  BY DEF SIZE
<1>3. (Fanout * Fanout) * Fanout = Fanout * (Fanout * Fanout)
  BY <1>1
<1>4. SIZE(2) = Fanout * SIZE(3) /\ SIZE(1) = Fanout * SIZE(2) /\ SIZE(0) = Fanout * SIZE(1)
  BY <1>1, <1>2, <1>3
<1>5. \A l \in 0 .. 2 : SIZE(l) = Fanout * SIZE(l + 1)
  <2> SUFFICES ASSUME NEW l \in 0 .. 2 PROVE SIZE(l) = Fanout * SIZE(l + 1)
    OBVIOUS
  <2>1. CASE l = 0
    BY <1>4, <2>1
  <2>2. CASE l = 1
    BY <1>4, <2>2
  <2>3. CASE l = 2
    BY <1>4, <2>3
  <2> QED
    BY <2>1, <2>2, <2>3
<1> QED
  BY <1>1, <1>2, <1>5, Sizes

LEMMA TwoDigits ==
  ASSUME NEW a \in Nat, NEW b \in Nat \ {0}, NEW f \in Nat \ {0}, NEW c, c = f * b
  PROVE  a \div b = (f * (a \div c)) + ((a \div b) % f)
<1>1. PICK q \in Nat, r \in 0 .. b - 1 : q = a \div b /\ a = (b * q) + r
  BY Division
<1>2. PICK h \in Nat, d \in 0 .. f - 1 : d = q % f /\ q = (f * h) + d
  BY Division
<1>3. PICK e \in Nat : e = b * d /\ e + b <= c
  <2>1. b * d \in Nat /\ (b * d) + b <= b * f
    BY <1>2, Monotone
  <2>2. b * f = c
    OBVIOUS
  <2> QED
    BY <2>1, <2>2
<1>4. a = (c * h) + (e + r)
  <2>1. b * ((f * h) + d) = ((f * b) * h) + (b * d)
    OBVIOUS
  <2>2. PICK x \in Nat, y \in Nat : x = b * q /\ y = c * h
    OBVIOUS
  <2>3. x = y + e
    BY <1>2, <1>3, <2>1, <2>2
  <2>4. a = x + r
    BY <1>1, <2>2
  <2>5. a = y + (e + r)
    BY <2>2, <2>3, <2>4
  <2> QED
    BY <2>2, <2>5
<1>5. e + r \in 0 .. c - 1
  BY <1>1, <1>3
<1>6. c \in Nat \ {0}
  OBVIOUS
<1>7. a \div c = h
  BY <1>4, <1>5, <1>6, Unique
<1> QED
  BY <1>1, <1>2, <1>7

LEMMA Digits ==
  ASSUME NEW a \in Nat, NEW l \in 0 .. 2
  PROVE  a \div SIZE(l + 1) = (Fanout * (a \div SIZE(l))) + OFFS(a, l + 1)
<1>1. l + 1 \in Level /\ l \in Level
  BY DEF Level
<1>2. PICK b \in Nat \ {0} : b = SIZE(l + 1)
  BY <1>1, SizeStep
<1>3. PICK f \in Nat \ {0} : f = Fanout
  BY SizeStep
<1>4. PICK c : c = SIZE(l) /\ c = f * b
  BY <1>2, <1>3, SizeStep
<1>5. a \div b = (f * (a \div c)) + ((a \div b) % f)
  BY <1>4, TwoDigits
<1> QED
  BY <1>2, <1>3, <1>4, <1>5 DEF OFFS

LEMMA NearStep ==
  ASSUME NEW a \in Nat, NEW b \in Nat, NEW l \in 0 .. 2
  PROVE  Near(a, b, l + 1) <=> Near(a, b, l) /\ OFFS(a, l + 1) = OFFS(b, l + 1)
<1>0. l + 1 \in Level /\ l \in Level
  BY DEF Level
<1>1. PICK f \in Nat \ {0} : f = Fanout
  BY SizeStep
<1>2. SIZE(l) \in Nat \ {0} /\ SIZE(l + 1) \in Nat \ {0}
  BY <1>0, SizeStep
<1>3. PICK x \in Nat, y \in Nat : x = a \div SIZE(l) /\ y = b \div SIZE(l)
  BY <1>2, Division
<1>4. PICK u \in Nat, v \in Nat : u = a \div SIZE(l + 1) /\ v = b \div SIZE(l + 1)
  BY <1>2, Division
<1>5. PICK d \in 0 .. f - 1, e \in 0 .. f - 1 : d = OFFS(a, l + 1) /\ e = OFFS(b, l + 1)
  BY <1>0, <1>1, Offsets DEF Index
<1>6. u = (f * x) + d /\ v = (f * y) + e
  BY <1>1, <1>3, <1>4, <1>5, Digits
<1>7. u = v => x = y /\ d = e
  <2>1. u \div f = x /\ u % f = d
    BY <1>6, Unique
  <2>2. v \div f = y /\ v % f = e
    BY <1>6, Unique
  <2> QED
    BY <2>1, <2>2
<1>8. x = y /\ d = e => u = v
  BY <1>6
<1> QED
  BY <1>3, <1>4, <1>5, <1>7, <1>8 DEF Near

LEMMA AddressBound == Fanout * SIZE(0) \in Nat /\ \A a : a \in VA <=> a \in Nat /\ a < Fanout * SIZE(0)
<1>1. PICK f \in Nat, z \in Nat : f = Fanout /\ z = SIZE(0)
  <2>1. 0 \in Level
    BY DEF Level
  <2>2. SIZE(0) \in Nat
    BY <2>1, SizeStep
  <2> QED
    BY <2>2, SizeStep
<1>2. PICK t \in Nat : t = f * z
  OBVIOUS
<1> QED
  BY <1>1, <1>2 DEF VA

LEMMA NearTop ==
  ASSUME NEW a \in VA, NEW b \in VA
  PROVE  Near(a, b, 0) <=> OFFS(a, 0) = OFFS(b, 0)
<1>1. PICK f \in Nat \ {0} : f = Fanout
  BY SizeStep
<1>2. PICK z \in Nat \ {0} : z = SIZE(0)
  <2>1. 0 \in Level
    BY DEF Level
  <2> QED
    BY <2>1, SizeStep
<1>3. ASSUME NEW x \in VA PROVE x \in Nat /\ OFFS(x, 0) = x \div z
  <2>1. x \in Nat /\ x < f * z
    BY <1>1, <1>2, AddressBound
  <2>2. PICK q \in Nat, r \in 0 .. z - 1 : q = x \div z /\ x = (z * q) + r
    <3>1. x \in Nat
      BY <2>1
    <3> QED
      BY <3>1, Division
  <2>3. q < f
    <3>1. ASSUME ~ (q < f) PROVE FALSE
      <4>1. PICK d \in Nat : q = f + d
        <5>1. q - f \in Nat /\ q = f + (q - f)
          BY <3>1
        <5> QED
          BY <5>1
      <4>2. z * q = (f * z) + (z * d)
        BY <4>1
      <4>3. PICK u \in Nat, v \in Nat, w \in Nat : u = z * q /\ v = f * z /\ w = z * d
        OBVIOUS
      <4> QED
        BY <2>1, <2>2, <4>2, <4>3
    <3> QED
      BY <3>1
  <2>4. q \in 0 .. f - 1 /\ q = (f * 0) + q
    BY <2>3
  <2>5. q % f = q
    BY <2>4, Unique
  <2> QED
    BY <1>1, <1>2, <2>1, <2>2, <2>5 DEF OFFS
<1> QED
  BY <1>2, <1>3 DEF Near

(* A block, and the addresses of its pages.                                *)
LEMMA Blocks ==
  ASSUME NEW l \in Level, NEW v \in Nat, Aligned(v, l), NEW a \in Nat
  PROVE  /\ Near(a, v, l) <=> v <= a /\ a < v + SIZE(l)
         /\ Near(a, v, l) => a % SIZE(l) = a - v
<1>1. PICK z \in Nat \ {0} : z = SIZE(l)
  BY SizeStep
<1>2. PICK p \in Nat, r \in 0 .. z - 1 : p = a \div z /\ r = a % z /\ a = (z * p) + r
  BY Division
<1>3. PICK q \in Nat : q = v \div z /\ v = z * q
  <2>1. v \div z \in Nat /\ v = (z * (v \div z)) + (v % z)
    BY Division
  <2>2. v % z = 0
    BY <1>1 DEF Aligned
  <2>3. PICK x \in Nat : x = z * (v \div z)
    BY <2>1
  <2>4. v = x
    BY <2>1, <2>2, <2>3
  <2> QED
    BY <2>1, <2>3, <2>4
<1>4. PICK x \in Nat, y \in Nat : x = z * p /\ y = z * q
  OBVIOUS
<1>5. a = x + r /\ v = y
  BY <1>2, <1>3, <1>4
<1>6. p = q => x = y
  BY <1>4
<1>7. p < q => x + z <= y
  BY <1>4, Monotone
<1>8. q < p => y + z <= x
  BY <1>4, Monotone
<1>9. p = q <=> v <= a /\ a < v + z
  BY <1>5, <1>6, <1>7, <1>8
<1>10. p = q => r = a - v
  BY <1>5, <1>6
<1> QED
  BY <1>1, <1>2, <1>3, <1>9, <1>10 DEF Near

LEMMA AlignedSum ==
  ASSUME NEW l \in Level, NEW v \in Nat, Aligned(v, l)
  PROVE  Aligned(v + SIZE(l), l)
<1>1. PICK z \in Nat \ {0} : z = SIZE(l)
  BY SizeStep
<1>2. PICK q \in Nat : v = z * q
  <2>1. v \div z \in Nat /\ v = (z * (v \div z)) + (v % z) /\ v % z = 0
    BY <1>1, Division DEF Aligned
  <2> QED
    BY <2>1
<1>3. v + z = z * (q + 1)
  BY <1>2
<1>4. (v + z) % z = 0
  <2>1. PICK w \in Nat, n \in Nat : w = q + 1 /\ n = v + z
    BY <1>1
  <2>2. n = z * w
    BY <1>3, <2>1
  <2>3. n % z = 0
    BY <1>1, <2>1, <2>2, Multiple
  <2> QED
    BY <2>1, <2>3
<1> QED
  BY <1>1, <1>4 DEF Aligned

LEMMA AlignedDown ==
  ASSUME NEW l \in 0 .. 2, NEW v \in Nat, Aligned(v, l)
  PROVE  Aligned(v, l + 1)
<1>1. l \in Level /\ l + 1 \in Level
  BY DEF Level
<1>2. PICK z \in Nat \ {0}, b \in Nat \ {0}, f \in Nat \ {0} : z = SIZE(l) /\ b = SIZE(l + 1) /\ z = f * b
  BY <1>1, SizeStep
<1>3. PICK q \in Nat : v = z * q
  <2>1. v \div z \in Nat /\ v = (z * (v \div z)) + (v % z) /\ v % z = 0
    BY <1>2, Division DEF Aligned
  <2>2. PICK x \in Nat : x = z * (v \div z)
    BY <2>1
  <2>3. v = x
    BY <2>1, <2>2
  <2> QED
    BY <2>1, <2>2, <2>3
<1>4. f * q \in Nat /\ v = b * (f * q)
  <2>1. (f * b) * q = b * (f * q)
    OBVIOUS
  <2>2. f * q \in Nat /\ b * (f * q) \in Nat
    OBVIOUS
  <2> QED
    BY <1>2, <1>3, <2>1, <2>2
<1>5. v % b = 0
  <2>1. PICK w \in Nat : w = f * q
    BY <1>4
  <2>2. v = b * w
    BY <1>2, <1>4, <2>1
  <2> QED
    BY <1>2, <2>1, <2>2, Multiple
<1> QED
  BY <1>2, <1>5 DEF Aligned

LEMMA Pages ==
  ASSUME NEW v \in Nat
  PROVE  Aligned(v, 3)
<1>1. v % 1 = 0
  OBVIOUS
<1> QED
  BY <1>1, SizeStep DEF Aligned

(* What a set call asks for is one block.                                  *)
LEMMA Asked ==
  ASSUME NEW c, c.va \in VA, c.to \in 1 .. 3, SetRight(c), NEW a \in VA
  PROVE  /\ a \in Nat /\ c.va \in Nat /\ c.va \in AskedFor(c)
         /\ a \in AskedFor(c) <=> Near(a, c.va, c.to)
         /\ a \in AskedFor(c) <=> a \in c.va .. c.va + SIZE(c.to) - 1
         /\ c.pa \in Nat /\ a \in AskedFor(c) => AlignTo(c.pa, c.to) + (a % SIZE(c.to)) = c.pa + (a - c.va)
<1>1. PICK l \in Level : l = c.to
  BY DEF Level
<1>2. PICK v \in VA : v = c.va
  OBVIOUS
<1>3. a \in Nat /\ v \in Nat
  BY AddressBound
<1>4. Aligned(v, l)
  BY <1>1, <1>2 DEF SetRight
<1>5. PICK z \in Nat \ {0} : z = SIZE(l)
  BY SizeStep
<1>6. a \in AskedFor(c) <=> v <= a /\ a < v + z
  BY <1>1, <1>2, <1>5 DEF AskedFor
<1>7. v \in AskedFor(c)
  BY <1>1, <1>2, <1>3, <1>5 DEF AskedFor
<1>8. (Near(a, v, l) <=> v <= a /\ a < v + z) /\ (Near(a, v, l) => a % z = a - v)
  BY <1>3, <1>4, <1>5, Blocks
<1>9. a \in AskedFor(c) <=> a \in v .. v + z - 1
  BY <1>3, <1>5, <1>6
<1>10. ASSUME c.pa \in Nat, a \in AskedFor(c) PROVE AlignTo(c.pa, l) + (a % z) = c.pa + (a - v)
  <2>1. PICK p \in Nat : p = c.pa
    BY <1>10
  <2>2. p % z = 0
    <3>1. c.pa # Unmapped
      BY <1>10 DEF Unmapped
    <3> QED
      BY <1>1, <1>5, <2>1, <3>1 DEF SetRight, Aligned
  <2>3. AlignTo(p, l) = p
    BY <1>5, <2>2 DEF AlignTo
  <2> QED
    BY <1>6, <1>8, <1>10, <2>1, <2>3
<1> QED
  BY <1>1, <1>2, <1>3, <1>5, <1>6, <1>7, <1>8, <1>9, <1>10

-----------------------------------------------------------------------------
(* Walks for two addresses.                                                *)
LEMMA NearDown ==
  ASSUME NEW a \in VA, NEW b \in VA, NEW l \in Level, Near(a, b, l)
  PROVE  \A h \in 0 .. l : Near(a, b, h) /\ OFFS(a, h) = OFFS(b, h)
<1>0. a \in Nat /\ b \in Nat
  BY AddressBound
<1>1. \A h \in 0 .. 2 : Near(a, b, h + 1) => Near(a, b, h) /\ OFFS(a, h + 1) = OFFS(b, h + 1)
  BY <1>0, NearStep
<1>2. /\ Near(a, b, 3) => Near(a, b, 2) /\ OFFS(a, 3) = OFFS(b, 3)
      /\ Near(a, b, 2) => Near(a, b, 1) /\ OFFS(a, 2) = OFFS(b, 2)
      /\ Near(a, b, 1) => Near(a, b, 0) /\ OFFS(a, 1) = OFFS(b, 1)
  <2>1. 0 \in 0 .. 2 /\ 1 \in 0 .. 2 /\ 2 \in 0 .. 2 /\ 0 + 1 = 1 /\ 1 + 1 = 2 /\ 2 + 1 = 3
    OBVIOUS
  <2> QED
    BY <1>1, <2>1
<1>3. Near(a, b, 0) => OFFS(a, 0) = OFFS(b, 0)
  BY NearTop
<1> QED
  BY <1>2, <1>3 DEF Level

LEMMA NearPath ==
  ASSUME NEW m, NEW a \in VA, NEW b \in VA, NEW l \in 1 .. 3, Near(a, b, l - 1)
  PROVE  TablesIn(m, a)[l] = TablesIn(m, b)[l]
<1> DEFINE T == TablesIn(m, a)
           U == TablesIn(m, b)
<1>1. \A h \in 0 .. l - 1 : OFFS(a, h) = OFFS(b, h)
  BY NearDown DEF Level
<1>2. T[0] = Root /\ \A h \in 1 .. 3 : T[h] = Down(m, a, h - 1, T[h - 1])
  BY TablesFacts
<1>3. U[0] = Root /\ \A h \in 1 .. 3 : U[h] = Down(m, b, h - 1, U[h - 1])
  BY TablesFacts
<1> HIDE DEF T, U
<1>4. ASSUME NEW h \in 1 .. l, T[h - 1] = U[h - 1] PROVE T[h] = U[h]
  <2>1. h \in 1 .. 3 /\ OFFS(a, h - 1) = OFFS(b, h - 1)
    BY <1>1
  <2> QED
    BY <1>2, <1>3, <1>4, <2>1 DEF Down
<1>5. T[1] = U[1]
  BY <1>2, <1>3, <1>4
<1>6. l >= 2 => T[2] = U[2]
  BY <1>4, <1>5
<1>7. l >= 3 => T[3] = U[3]
  BY <1>4, <1>6
<1> QED
  BY <1>5, <1>6, <1>7 DEF T, U

(* Walks in two memories. *)
SameTables(m, m2, n, lev) ==
  \A p \in Page, k \in Index :
    p < n /\ lev[p] < 3 /\ (Tab(m[p][k]) \/ Tab(m2[p][k])) => m2[p][k] = m[p][k]

SameWalk(m, m2, a) == \A l \in Level : TablesIn(m2, a)[l] = TablesIn(m, a)[l]

LEMMA SamePaths ==
  ASSUME NEW m, NEW m2, NEW n \in 1 .. MaxPages + 1, NEW lev, Good(m, n, lev),
         SameTables(m, m2, n, lev), NEW a \in Nat
  PROVE  SameWalk(m, m2, a)
<1> DEFINE T == TablesIn(m, a)
           U == TablesIn(m2, a)
<1>1. T[0] = Root /\ \A l \in 1 .. 3 : T[l] = Down(m, a, l - 1, T[l - 1])
  BY TablesFacts
<1>2. U[0] = Root /\ \A l \in 1 .. 3 : U[l] = Down(m2, a, l - 1, U[l - 1])
  BY TablesFacts
<1>3. \A l \in Level : T[l] \in Page \cup {-1} /\ (T[l] # -1 => lev[T[l]] = l /\ T[l] < n)
  BY Levels
<1> HIDE DEF T, U
<1>4. ASSUME NEW l \in 0 .. 2, U[l] = T[l] PROVE U[l + 1] = T[l + 1]
  <2>1. l \in Level /\ l + 1 \in 1 .. 3 /\ (l + 1) - 1 = l
    BY DEF Level
  <2>2. T[l + 1] = Down(m, a, l, T[l]) /\ U[l + 1] = Down(m2, a, l, T[l])
    BY <1>1, <1>2, <1>4, <2>1
  <2>3. CASE T[l] = -1
    BY <2>2, <2>3 DEF Down
  <2>4. CASE T[l] # -1
    <3>1. T[l] \in Page /\ T[l] < n /\ lev[T[l]] < 3 /\ OFFS(a, l) \in Index
      BY <1>3, <2>1, <2>4, Offsets
    <3>2. Tab(m[T[l]][OFFS(a, l)]) \/ Tab(m2[T[l]][OFFS(a, l)]) => m2[T[l]][OFFS(a, l)] = m[T[l]][OFFS(a, l)]
      BY <3>1 DEF SameTables
    <3>3. CASE Tab(m[T[l]][OFFS(a, l)]) \/ Tab(m2[T[l]][OFFS(a, l)])
      BY <2>2, <3>2, <3>3 DEF Down
    <3>4. CASE ~ Tab(m[T[l]][OFFS(a, l)]) /\ ~ Tab(m2[T[l]][OFFS(a, l)])
      BY <2>2, <3>4 DEF Down, Tab
    <3> QED
      BY <3>3, <3>4
  <2> QED
    BY <2>3, <2>4
<1>5. U[0] = T[0]
  BY <1>1, <1>2
<1>6. U[1] = T[1]
  BY <1>4, <1>5
<1>7. U[2] = T[2]
  BY <1>4, <1>6
<1>8. U[3] = T[3]
  BY <1>4, <1>7
<1> QED
  BY <1>5, <1>6, <1>7, <1>8 DEF SameWalk, Level, T, U

-----------------------------------------------------------------------------
(* Leaves. *)
LEMMA Leaf ==
  ASSUME NEW m, NEW a, NEW l \in 1 .. 3, \A h \in 1 .. 3 : LeafIn(m, a, h) => h = l
  PROVE  TransIn(m, a) = IF LeafIn(m, a, l)
                         THEN AlignTo(m[TablesIn(m, a)[l]][OFFS(a, l)].addr, l) + (a % SIZE(l))
                         ELSE -1
<1>1. CASE LeafIn(m, a, l)
  <2> DEFINE c == CHOOSE h \in 1 .. 3 : LeafIn(m, a, h)
  <2>1. c = l
    BY <1>1
  <2>2. TransIn(m, a) = AlignTo(m[TablesIn(m, a)[c]][OFFS(a, c)].addr, c) + (a % SIZE(c))
    BY <1>1 DEF TransIn
  <2> HIDE DEF c
  <2> QED
    BY <1>1, <2>1, <2>2
<1>2. CASE ~ LeafIn(m, a, l)
  BY <1>2 DEF TransIn
<1> QED
  BY <1>1, <1>2

(* A walk that ends at level l. *)
Ends(m, a, l) == TablesIn(m, a)[l] # -1 /\ (l = 3 \/ ~ Tab(m[TablesIn(m, a)[l]][OFFS(a, l)]))

LEMMA End ==
  ASSUME NEW m, NEW n \in 1 .. MaxPages + 1, NEW lev, Good(m, n, lev), NEW a \in Nat,
         NEW l \in Level, Ends(m, a, l)
  PROVE  \A h \in 1 .. 3 : /\ LeafIn(m, a, h) => h = l
                           /\ h > l => TablesIn(m, a)[h] = -1
<1> DEFINE T == TablesIn(m, a)
<1>1. \A h \in 0 .. 2 : T[h + 1] # -1 => T[h] # -1 /\ Tab(m[T[h]][OFFS(a, h)])
  BY Levels
<1>2. T[l] # -1 /\ (l = 3 \/ ~ Tab(m[T[l]][OFFS(a, l)]))
  BY DEF Ends
<1>3. \A k \in Level : T[k] # -1 => \A h \in 0 .. k : T[h] # -1
  BY PathDown
<1> SUFFICES ASSUME NEW h \in 1 .. 3 PROVE (LeafIn(m, a, h) => h = l) /\ (h > l => T[h] = -1)
  OBVIOUS
<1>4. h \in Level /\ LeafIn(m, a, h) => T[h] # -1 /\ (h # 3 => ~ Tab(m[T[h]][OFFS(a, h)]))
  BY DEF LeafIn, Tab, Level
<1> HIDE DEF T
<1>5. ASSUME h > l, T[h] # -1 PROVE FALSE
  <2>1. l \in 0 .. 2 /\ l + 1 \in 0 .. h /\ h \in Level
    BY <1>5 DEF Level
  <2>2. T[l + 1] # -1
    BY <1>3, <1>5, <2>1
  <2> QED
    BY <1>1, <1>2, <2>1, <2>2
<1>6. ASSUME h < l, LeafIn(m, a, h) PROVE FALSE
  <2>1. h \in 0 .. 2 /\ h + 1 \in 0 .. l /\ h \in Level
    BY <1>6 DEF Level
  <2>2. T[h + 1] # -1
    BY <1>2, <1>3, <2>1
  <2> QED
    BY <1>1, <1>4, <1>6, <2>1, <2>2
<1> QED
  BY <1>4, <1>5, <1>6 DEF Level, T

LEMMA TransSame ==
  ASSUME NEW m, NEW m2, NEW n \in 1 .. MaxPages + 1, NEW lev, Good(m, n, lev), NEW a \in Nat,
         SameWalk(m, m2, a),
         \A l \in 1 .. 3 : TablesIn(m, a)[l] # -1 =>
           m2[TablesIn(m, a)[l]][OFFS(a, l)] = m[TablesIn(m, a)[l]][OFFS(a, l)]
  PROVE  TransIn(m2, a) = TransIn(m, a)
<1>1. ASSUME NEW l \in 1 .. 3
      PROVE  /\ LeafIn(m2, a, l) <=> LeafIn(m, a, l)
             /\ LeafIn(m, a, l) => /\ TablesIn(m2, a)[l] = TablesIn(m, a)[l]
                                   /\ m2[TablesIn(m, a)[l]][OFFS(a, l)] = m[TablesIn(m, a)[l]][OFFS(a, l)]
  BY DEF LeafIn, SameWalk, Level
<1>2. CASE \E l \in 1 .. 3 : LeafIn(m, a, l)
  <2>1. PICK l \in 1 .. 3 : LeafIn(m, a, l)
    BY <1>2
  <2>2. l \in Level /\ Ends(m, a, l)
    <3>1. TablesIn(m, a)[l] # -1 /\ (l # 3 => ~ Tab(m[TablesIn(m, a)[l]][OFFS(a, l)]))
      BY ONLY <2>1 DEF LeafIn, Tab
    <3> QED
      BY <3>1 DEF Ends, Level
  <2>3. \A h \in 1 .. 3 : LeafIn(m, a, h) => h = l
    BY <2>2, End
  <2>4. \A h \in 1 .. 3 : LeafIn(m2, a, h) => h = l
    BY <1>1, <2>3
  <2>5. TransIn(m, a) = AlignTo(m[TablesIn(m, a)[l]][OFFS(a, l)].addr, l) + (a % SIZE(l))
    BY <2>1, <2>3, Leaf
  <2>6. TransIn(m2, a) = AlignTo(m2[TablesIn(m2, a)[l]][OFFS(a, l)].addr, l) + (a % SIZE(l))
    BY <1>1, <2>1, <2>4, Leaf
  <2> QED
    BY <1>1, <2>1, <2>5, <2>6
<1>3. CASE ~ \E l \in 1 .. 3 : LeafIn(m, a, l)
  BY <1>1, <1>3 DEF TransIn
<1> QED
  BY <1>2, <1>3

(* What an entry of level l translates a to, if it is the last one. *)
LeafAt(e, a, l) == IF e.valid /\ e.bit1 = (l = 3) THEN AlignTo(e.addr, l) + (a % SIZE(l)) ELSE -1

LEMMA TransAt ==
  ASSUME NEW m, NEW n \in 1 .. MaxPages + 1, NEW lev, Good(m, n, lev), NEW a \in Nat,
         NEW l \in 1 .. 3, Ends(m, a, l), NEW e, e = m[TablesIn(m, a)[l]][OFFS(a, l)]
  PROVE  TransIn(m, a) = LeafAt(e, a, l)
<1>1. \A h \in 1 .. 3 : LeafIn(m, a, h) => h = l
  BY End DEF Level
<1>2. LeafIn(m, a, l) <=> e.valid /\ e.bit1 = (l = 3)
  BY DEF LeafIn, Ends
<1> QED
  BY <1>1, <1>2, Leaf DEF LeafAt

Updated(m, m2, p, k, e) ==
  \A q \in Page, h \in Index : m2[q][h] = IF q = p /\ h = k THEN e ELSE m[q][h]

(* A write of an entry that does not lead to a table, before or after.     *)
LEMMA WriteTrans ==
  ASSUME NEW m, NEW m2, NEW n \in 1 .. MaxPages + 1, NEW lev, Good(m, n, lev), Good(m2, n, lev),
         NEW p \in Page, p < n, NEW k \in Index, NEW e,
         Updated(m, m2, p, k, e),
         NEW l \in 1 .. 3, lev[p] = l, l = 3 \/ (~ Tab(m[p][k]) /\ ~ Tab(e)),
         NEW a \in Nat
  PROVE  /\ SameWalk(m, m2, a)
         /\ ~ (TablesIn(m, a)[l] = p /\ OFFS(a, l) = k) => TransIn(m2, a) = TransIn(m, a)
         /\ TablesIn(m, a)[l] = p /\ OFFS(a, l) = k =>
              TransIn(m2, a) = LeafAt(e, a, l)
<1>0. \A q \in Page, h \in Index : m2[q][h] = IF q = p /\ h = k THEN e ELSE m[q][h]
  BY DEF Updated
<1>1. SameWalk(m, m2, a)
  <2>1. ASSUME NEW q \in Page, NEW h \in Index, lev[q] < 3, Tab(m[q][h]) \/ Tab(m2[q][h])
        PROVE  m2[q][h] = m[q][h]
    BY <1>0, <2>1
  <2>2. SameTables(m, m2, n, lev)
    BY <2>1 DEF SameTables
  <2> QED
    BY <2>2, SamePaths
<1>2. ASSUME ~ (TablesIn(m, a)[l] = p /\ OFFS(a, l) = k)
      PROVE  TransIn(m2, a) = TransIn(m, a)
  <2>1. ASSUME NEW h \in 1 .. 3, TablesIn(m, a)[h] # -1
        PROVE  m2[TablesIn(m, a)[h]][OFFS(a, h)] = m[TablesIn(m, a)[h]][OFFS(a, h)]
    <3>1. h \in Level /\ OFFS(a, h) \in Index
      BY Offsets DEF Level
    <3>2. TablesIn(m, a)[h] \in Page /\ lev[TablesIn(m, a)[h]] = h
      BY <2>1, <3>1, Levels
    <3> QED
      BY <1>0, <1>2, <3>1, <3>2
  <2> QED
    BY <1>1, <2>1, TransSame
<1>3. ASSUME TablesIn(m, a)[l] = p, OFFS(a, l) = k
      PROVE  TransIn(m2, a) = LeafAt(e, a, l)
  <2>1. TablesIn(m2, a)[l] = p /\ p # -1
    BY <1>1, <1>3 DEF SameWalk, Level, Page
  <2>2. m2[TablesIn(m2, a)[l]][OFFS(a, l)] = e
    BY <1>0, <1>3, <2>1
  <2>3. Ends(m2, a, l)
    BY <2>1, <2>2 DEF Ends
  <2> QED
    BY <2>2, <2>3, TransAt
<1> QED
  BY <1>1, <1>2, <1>3

(* A new table q, linked to an entry that was not valid.                   *)
Empty(m, q)         == \A h \in Index : m[q][h] = Invalid0
Hits(m, a, l, p, k) == TablesIn(m, a)[l] = p /\ OFFS(a, l) = k

LinkedWalk(m, m2, a, l, p, k, q) ==
  /\ TransIn(m2, a) = TransIn(m, a)
  /\ IF Hits(m, a, l, p, k)
     THEN \A h \in Level : TablesIn(m2, a)[h] = IF h = l + 1 THEN q ELSE TablesIn(m, a)[h]
     ELSE SameWalk(m, m2, a)

LEMMA LinkTrans ==
  ASSUME NEW m, NEW m2, NEW n \in 1 .. MaxPages + 1, NEW lev, Good(m, n, lev), Good(m2, n, lev),
         NEW p \in Page, p < n, NEW k \in Index, NEW q \in Page, q < n,
         Updated(m, m2, p, k, TableDesc(q)),
         NEW l \in 0 .. 2, lev[p] = l, lev[q] = l + 1, ~ m[p][k].valid,
         Empty(m, q),
         NEW a \in Nat
  PROVE  LinkedWalk(m, m2, a, l, p, k, q)
<1> DEFINE T == TablesIn(m, a)
           U == TablesIn(m2, a)
<1>0. \A x \in Page, h \in Index : m2[x][h] = IF x = p /\ h = k THEN TableDesc(q) ELSE m[x][h]
  BY DEF Updated
<1>1. T[0] = Root /\ \A h \in 1 .. 3 : T[h] = Down(m, a, h - 1, T[h - 1])
  BY TablesFacts
<1>2. U[0] = Root /\ \A h \in 1 .. 3 : U[h] = Down(m2, a, h - 1, U[h - 1])
  BY TablesFacts
<1>3. \A h \in Level : T[h] \in Page \cup {-1} /\ (T[h] # -1 => lev[T[h]] = h) /\ OFFS(a, h) \in Index
  BY Levels, Offsets
<1>4. p # q /\ l \in Level
  BY DEF Level
<1>5. ASSUME NEW h \in Level, T[h] # -1, ~ (h = l /\ T[l] = p /\ OFFS(a, l) = k)
      PROVE  m2[T[h]][OFFS(a, h)] = m[T[h]][OFFS(a, h)]
  BY <1>0, <1>3, <1>5
<1>6. ASSUME NEW h \in 0 .. 2, U[h] = T[h], ~ (h = l /\ T[l] = p /\ OFFS(a, l) = k)
      PROVE  U[h + 1] = T[h + 1]
  <2>1. h \in Level /\ T[h + 1] = Down(m, a, h, T[h]) /\ U[h + 1] = Down(m2, a, h, T[h])
    BY <1>1, <1>2, <1>6 DEF Level
  <2> QED
    BY <1>5, <1>6, <2>1 DEF Down
<1>7. CASE ~ (T[l] = p /\ OFFS(a, l) = k)
  <2>1. \A h \in 0 .. 2 : U[h] = T[h] => U[h + 1] = T[h + 1]
    BY <1>6, <1>7
  <2>2. U[0] = T[0] /\ U[1] = T[1] /\ U[2] = T[2] /\ U[3] = T[3]
    <3>1. U[0] = T[0]
      BY <1>1, <1>2
    <3>2. U[1] = T[1]
      BY <2>1, <3>1
    <3>3. U[2] = T[2]
      BY <2>1, <3>2
    <3>4. U[3] = T[3]
      BY <2>1, <3>3
    <3> QED
      BY <3>1, <3>2, <3>3, <3>4
  <2>3. SameWalk(m, m2, a)
    BY <2>2 DEF SameWalk, Level
  <2>4. \A h \in 1 .. 3 : T[h] # -1 => m2[T[h]][OFFS(a, h)] = m[T[h]][OFFS(a, h)]
    BY <1>5, <1>7 DEF Level
  <2>5. TransIn(m2, a) = TransIn(m, a)
    BY <2>3, <2>4, TransSame
  <2> QED
    BY <1>7, <2>3, <2>5 DEF LinkedWalk, Hits
<1>8. CASE T[l] = p /\ OFFS(a, l) = k
  <2>1. Ends(m, a, l)
    BY <1>8, VmmAssumption DEF Ends, Tab, Page
  <2>2. \A h \in 1 .. 3 : (LeafIn(m, a, h) => h = l) /\ (h > l => T[h] = -1)
    BY <1>4, <2>1, End
  <2>3. \A h \in 1 .. 3 : ~ LeafIn(m, a, h)
    BY <1>8, <2>2 DEF LeafIn
  <2>4. TransIn(m, a) = -1
    BY <2>3 DEF TransIn
  <2>5. \A h \in 0 .. 2 : h < l /\ U[h] = T[h] => U[h + 1] = T[h + 1]
    BY <1>6
  <2>6. U[0] = T[0] /\ (1 <= l => U[1] = T[1]) /\ (2 <= l => U[2] = T[2])
    <3>1. U[0] = T[0]
      BY <1>1, <1>2
    <3>2. 1 <= l => U[1] = T[1]
      BY <2>5, <3>1
    <3>3. 2 <= l => U[2] = T[2]
      BY <2>5, <3>2
    <3> QED
      BY <3>1, <3>2, <3>3
  <2>7. \A h \in 0 .. l : U[h] = T[h]
    BY <2>6
  <2>8. U[l + 1] = q
    <3>1. U[l + 1] = Down(m2, a, l, p)
      BY <1>2, <1>8, <2>7
    <3>2. m2[p][OFFS(a, l)] = TableDesc(q)
      BY <1>0, <1>3, <1>8
    <3>3. TableDesc(q).valid /\ TableDesc(q).bit1 /\ TableDesc(q).addr = q /\ p # -1
      BY DEF TableDesc, Page
    <3> QED
      BY <3>1, <3>2, <3>3 DEF Down
  <2>9. \A h \in Index : m2[q][h] = Invalid0 /\ ~ Invalid0.valid
    BY <1>0, <1>4 DEF Invalid0, Empty
  <2>10. \A h \in 1 .. 3 : h > l + 1 => U[h] = -1
    <3>1. ASSUME l + 1 <= 2 PROVE U[l + 2] = -1
      <4>1. (l + 1) \in Level /\ l + 2 \in 1 .. 3 /\ (l + 2) - 1 = l + 1
        BY <3>1 DEF Level
      <4>2. U[l + 2] = Down(m2, a, l + 1, q) /\ OFFS(a, l + 1) \in Index
        BY <1>2, <1>3, <2>8, <4>1
      <4> QED
        BY <2>9, <4>2 DEF Down
    <3>2. ASSUME l = 0 PROVE U[3] = -1
      <4>1. U[2] = -1
        BY <3>1, <3>2
      <4> QED
        BY <1>2, <4>1 DEF Down
    <3> QED
      BY <3>1, <3>2
  <2>11. \A h \in Level : U[h] = IF h = l + 1 THEN q ELSE T[h]
    BY <2>2, <2>7, <2>8, <2>10 DEF Level
  <2>12. Ends(m2, a, l + 1)
    <3>1. l + 1 \in Level /\ q # -1
      BY DEF Level, Page
    <3> QED
      BY <1>3, <2>8, <2>9, <3>1 DEF Ends, Tab
  <2>13. TransIn(m2, a) = -1
    <3>1. l + 1 \in 1 .. 3 /\ OFFS(a, l + 1) \in Index
      BY <1>3 DEF Level
    <3>2. m2[U[l + 1]][OFFS(a, l + 1)] = Invalid0
      BY <2>8, <2>9, <3>1
    <3>3. ~ Invalid0.valid
      BY DEF Invalid0
    <3> QED
      BY <2>12, <3>1, <3>2, <3>3, TransAt DEF LeafAt
  <2> QED
    BY <1>8, <2>4, <2>11, <2>13 DEF LinkedWalk, Hits
<1> QED
  BY <1>7, <1>8

-----------------------------------------------------------------------------
(* What a step of one CPU leaves alone. *)
LEMMA OtherSet ==
  ASSUME NEW j \in CPU, SetInv(j), Same(j), phase' = phase
  PROVE  SetInv(j)'
BY DEF SetInv, Same, Setting, Ensuring

LEMMA OtherFresh ==
  ASSUME NEW j \in CPU, FreshInv(j), Same(j), mem' = mem \/ pc[j] \notin Writing
  PROVE  FreshInv(j)'
<1>1. Linking(j)' => Linking(j) /\ pc[j] \in Writing
  BY DEF Same, Linking, Ensuring
<1> QED
  BY <1>1 DEF FreshInv, Same, Val, Path

LEMMA OtherBroken ==
  ASSUME NEW j \in CPU, Same(j)
  PROVE  (Broken(j)' <=> Broken(j)) /\ op'[j] = op[j]
BY DEF Same, Broken, Setting, Ensuring

LEMMA RangeSame ==
  ASSUME RangeInv, UNCHANGED <<regions, va, pa, stage>>
  PROVE  RangeInv'
BY DEF RangeInv, BothAligned, Fits

LEMMA HeapIsVA == \A v \in ToSet(Heap) : v \in VA
BY AddressAssumption

(* Paths stay, and what Boss has been asked. *)
LEMMA ApartSame ==
  ASSUME NEW s, NEW x, LayoutsApart => ApartInv(s), \A a \in VA : SameWalk(s, x, a),
         UNCHANGED <<regions, va, stage, want>>,
         pc'[Boss] # "idle" /\ phase' = "init" => pc[Boss] # "idle" /\ phase = "init" /\ op'[Boss] = op[Boss],
         Building /\ pc[Boss] # "idle" => pc'[Boss] # "idle" /\ op'[Boss] = op[Boss]
  PROVE  LayoutsApart => ApartInv(x)'
<1> SUFFICES ASSUME ApartInv(s) PROVE ApartInv(x)'
  OBVIOUS
<1>1. Building' <=> Building
  BY DEF Building
<1>2. \A a : Rest(a)' <=> Rest(a)
  BY DEF Rest
<1>3. \A a \in VA, l \in Level : TablesIn(x, a)[l] = TablesIn(s, a)[l]
  BY DEF SameWalk
<1>4. \A v \in ToSet(Heap) : want'[v] # -1 => TablesIn(x, v)[3] # -1
  <2>1. 3 \in Level
    BY DEF Level
  <2> QED
    BY <1>3, <2>1, HeapIsVA DEF ApartInv
<1>5. pc'[Boss] # "idle" /\ phase' = "init" =>
        IF Building' THEN
          /\ op'[Boss].pa # Unmapped
          /\ \A a \in AskedFor(op'[Boss]) : want'[a] = -1 /\ ~ Rest(a)' /\ a \notin ToSet(Heap)
        ELSE op'[Boss].va \in ToSet(Heap) /\ op'[Boss].to = 3
  BY <1>1, <1>2 DEF ApartInv
<1>6. Building' =>
        \A a \in VA, l \in 1 .. 3 : TablesIn(x, a)[l] # -1 =>
          \E b \in VA : /\ Near(a, b, l - 1)
                        /\ want'[b] # -1 \/ (pc'[Boss] # "idle" /\ b = op'[Boss].va /\ l <= op'[Boss].to)
  <2> SUFFICES ASSUME Building, NEW a \in VA, NEW l \in 1 .. 3, TablesIn(x, a)[l] # -1
               PROVE  \E b \in VA : /\ Near(a, b, l - 1)
                                    /\ want[b] # -1 \/ (pc'[Boss] # "idle" /\ b = op'[Boss].va /\ l <= op'[Boss].to)
    BY <1>1
  <2>1. TablesIn(s, a)[l] # -1
    BY <1>3 DEF Level
  <2>2. PICK b \in VA : /\ Near(a, b, l - 1)
                        /\ want[b] # -1 \/ (pc[Boss] # "idle" /\ b = op[Boss].va /\ l <= op[Boss].to)
    BY <2>1 DEF ApartInv
  <2> QED
    BY <2>2
<1> QED
  BY <1>2, <1>4, <1>5, <1>6 DEF ApartInv

(* A step that writes nothing that is mapped. *)
LEMMA Kept ==
  ASSUME NEW s, NEW x, MapInv(s), \A a \in VA : SameWalk(s, x, a) /\ TransIn(x, a) = TransIn(s, a),
         UNCHANGED <<regions, va, pa, stage, want>>,
         \A j \in CPU : Broken(j) => Broken(j)' /\ op'[j] = op[j],
         \A j \in CPU : SetInv(j)' /\ FreshInv(j)',
         pc'[Boss] # "idle" /\ phase' = "init" => pc[Boss] # "idle" /\ phase = "init" /\ op'[Boss] = op[Boss],
         Building /\ pc[Boss] # "idle" => pc'[Boss] # "idle" /\ op'[Boss] = op[Boss]
  PROVE  MapInv(x)'
<1>1. RangeInv'
  BY RangeSame DEF MapInv
<1>2. LayoutsApart => ApartInv(x)'
  BY ApartSame DEF MapInv
<1>3. Tree(x)
  <2>1. \A a \in VA, l \in 1 .. 3 : TablesIn(x, a)[l] = TablesIn(s, a)[l]
    BY DEF SameWalk, Level
  <2> QED
    BY <2>1 DEF MapInv, Mapped, Tree
<1>4. ASSUME NEW a \in VA
      PROVE  TransIn(x, a) = want'[a] \/ \E j \in CPU : Broken(j)' /\ a \in AskedFor(op'[j])
  <2>1. TransIn(s, a) = want[a] \/ \E j \in CPU : Broken(j) /\ a \in AskedFor(op[j])
    BY DEF MapInv, Mapped
  <2> QED
    BY <2>1
<1>5. Mapped(x)'
  BY <1>3, <1>4 DEF Mapped
<1> QED
  BY <1>1, <1>2, <1>5 DEF MapInv

LEMMA WalkItself == \A m, a : SameWalk(m, m, a)
BY DEF SameWalk

-----------------------------------------------------------------------------
(* Setting an entry: what translates through it is what is asked for.      *)
LEMMA SettingFacts ==
  ASSUME NEW s, NEW lev, NEW i \in CPU, Inv(s, lev), MapInv(s), phase \in {"init", "setup"}, Setting(i)
  PROVE  /\ phase = "init" /\ i = Boss /\ mem = s /\ Good(mem, next, lev) /\ next \in 1 .. MaxPages + 1
         /\ level[i] = op[i].to /\ op[i].to \in 1 .. 3 /\ op[i].va \in VA /\ op[i].pa \in Nat \cup {-1}
         /\ SetRight(op[i])
         /\ table[i] \in Page /\ table[i] < next /\ lev[table[i]] = op[i].to
         /\ OFFS(op[i].va, op[i].to) \in Index
         /\ table[i] = TablesIn(mem, op[i].va)[op[i].to]
         /\ at[i] = <<table[i], OFFS(op[i].va, op[i].to)>>
         /\ Val(at[i]) = mem[table[i]][OFFS(op[i].va, op[i].to)]
         /\ op[i].to = 3 \/ ~ Tab(Val(at[i]))
         /\ new[i] = IF op[i].pa = Unmapped THEN Invalid0 ELSE BlockDesc(op[i].pa, op[i].to)
         /\ \A j \in CPU \ {i} : ~ Broken(j) /\ pc[j] \notin Writing
<1>1. OnPath(i) /\ pc[i] \in Writing /\ pc[i] # "idle" /\ op[i].kind = "set"
  BY DEF Setting, OnPath, Writing
<1>2. CallInv(i) /\ PathInv(lev, i) /\ SetInv(i)
  BY DEF Inv, MapInv
<1>3. phase = "init" /\ i = Boss /\ op[i].to \in 1 .. 3 /\ op[i].pa \in Nat \cup {-1}
  <2>1. phase = "init" /\ op[i].to \in 1 .. 3 /\ op[i].pa \in Nat \cup {-1}
    BY <1>1, <1>2, CallFacts
  <2> QED
    BY <1>1, <1>2, <2>1 DEF CallInv
<1>4. /\ level[i] = op[i].to /\ op[i].va \in VA /\ SetRight(op[i])
      /\ new[i] = IF op[i].pa = Unmapped THEN Invalid0 ELSE BlockDesc(op[i].pa, op[i].to)
  BY <1>1, <1>2, <1>3 DEF SetInv
<1>5. /\ table[i] \in Page /\ table[i] < next /\ lev[table[i]] = level[i]
      /\ OFFS(op[i].va, level[i]) \in Index /\ table[i] = TablesIn(mem, op[i].va)[level[i]]
      /\ mem = s /\ Good(mem, next, lev) /\ next \in 1 .. MaxPages + 1
      /\ Pte(i) = <<table[i], OFFS(op[i].va, level[i])>>
  BY <1>1, Here
<1>6. at[i] = Pte(i) /\ (level[i] = 3 \/ ~ Tab(Val(at[i])))
  BY <1>2 DEF PathInv
<1>7. Val(at[i]) = mem[table[i]][OFFS(op[i].va, level[i])]
  BY <1>5, <1>6 DEF Val
<1>8. \A j \in CPU \ {i} : ~ Broken(j) /\ pc[j] \notin Writing
  BY <1>1, Alone DEF Broken, Writing
<1> QED
  BY <1>3, <1>4, <1>5, <1>6, <1>7, <1>8

LEMMA Through ==
  ASSUME NEW m, Tree(m), NEW c, c.va \in VA, c.to \in 1 .. 3, SetRight(c),
         TablesIn(m, c.va)[c.to] # -1, NEW a \in VA
  PROVE  /\ a \in AskedFor(c) <=> /\ TablesIn(m, a)[c.to] = TablesIn(m, c.va)[c.to]
                                  /\ OFFS(a, c.to) = OFFS(c.va, c.to)
<1>1. PICK l \in 1 .. 3, v \in VA : l = c.to /\ v = c.va
  OBVIOUS
<1>2. a \in AskedFor(c) <=> Near(a, v, l)
  BY <1>1, Asked
<1>3. ASSUME Near(a, v, l)
      PROVE  TablesIn(m, a)[l] = TablesIn(m, v)[l] /\ OFFS(a, l) = OFFS(v, l)
  <2>1. l \in Level /\ l \in 0 .. l /\ l - 1 \in 0 .. l
    BY DEF Level
  <2>2. \A h \in 0 .. l : Near(a, v, h) /\ OFFS(a, h) = OFFS(v, h)
    BY <1>3, <2>1, NearDown
  <2>3. Near(a, v, l - 1) /\ OFFS(a, l) = OFFS(v, l)
    BY <2>1, <2>2
  <2> QED
    BY <2>3, NearPath
<1>4. ASSUME TablesIn(m, a)[l] = TablesIn(m, v)[l], OFFS(a, l) = OFFS(v, l)
      PROVE  Near(a, v, l)
  <2>1. Near(a, v, l - 1)
    BY <1>1, <1>4 DEF Tree
  <2>2. a \in Nat /\ v \in Nat /\ l - 1 \in 0 .. 2 /\ (l - 1) + 1 = l
    BY AddressBound
  <2>3. Near(a, v, (l - 1) + 1) <=> Near(a, v, l - 1) /\ OFFS(a, (l - 1) + 1) = OFFS(v, (l - 1) + 1)
    BY <2>2, NearStep
  <2> QED
    BY <1>4, <2>1, <2>2, <2>3
<1> QED
  BY <1>1, <1>2, <1>3, <1>4

(* Setting(i) writes e, its new value or 0. *)
LEMMA SettingWrite ==
  ASSUME NEW s, NEW lev, NEW i \in CPU, Inv(s, lev), MapInv(s), phase \in {"init", "setup"}, Setting(i),
         NEW e \in Entry, e = Invalid0 \/ e = new[i], Write(i, e), NEW x, x = mem'
  PROVE  /\ \A a \in VA : SameWalk(s, x, a)
         /\ \A a \in VA \ AskedFor(op[i]) : TransIn(x, a) = want[a]
         /\ \A a \in AskedFor(op[i]) :
              TransIn(x, a) = IF e = Invalid0 THEN -1 ELSE op[i].pa + (a - op[i].va)
<1>0. PICK c : c = op[i]
  OBVIOUS
<1>p. PICK p \in Page, k \in Index : p = table[i] /\ k = OFFS(c.va, c.to)
  BY <1>0, SettingFacts
<1>n. PICK n \in 1 .. MaxPages + 1 : n = next
  BY SettingFacts
<1>1. /\ mem = s /\ Good(mem, n, lev)
      /\ c.to \in 1 .. 3 /\ c.va \in VA /\ c.pa \in Nat \cup {-1}
      /\ SetRight(c) /\ p < n /\ lev[p] = c.to
      /\ p = TablesIn(mem, c.va)[c.to] /\ at[i] = <<p, k>>
      /\ c.to = 3 \/ ~ Tab(mem[p][k])
      /\ new[i] = IF c.pa = Unmapped THEN Invalid0 ELSE BlockDesc(c.pa, c.to)
      /\ \A j \in CPU \ {i} : ~ Broken(j)
  BY <1>0, <1>p, <1>n, SettingFacts
<1>2. PICK l \in 1 .. 3 : l = c.to
  BY <1>1
<1>3. TypeOK /\ Tree(mem) /\ Mapped(mem)
  BY <1>1 DEF Inv, MapInv, Mapped
<1>4. Updated(mem, x, p, k, e)
  BY <1>1, <1>p, <1>3, WriteFacts DEF Updated
<1>5. e = Invalid0 \/ (c.pa \in Nat /\ e = BlockDesc(c.pa, l))
  BY <1>1, <1>2 DEF Unmapped
<1>6. ~ IsTable(e, l) /\ (l = 3 \/ ~ Tab(e))
  <2>1. ~ IsTable(Invalid0, l) /\ ~ Tab(Invalid0)
    BY DEF Invalid0, IsTable, Tab
  <2>2. ~ IsTable(BlockDesc(c.pa, l), l) /\ (l = 3 \/ ~ Tab(BlockDesc(c.pa, l)))
    <3>1. CASE l = 3
      BY <3>1 DEF IsTable
    <3>2. CASE l # 3
      <4>1. (l = 3) = FALSE
        BY <3>2
      <4>2. BlockDesc(c.pa, l) = [valid |-> TRUE, bit1 |-> FALSE, addr |-> c.pa]
        BY <4>1 DEF BlockDesc
      <4>3. l # 0
        BY <1>2
      <4> QED
        BY <4>2, <4>3 DEF IsTable, Tab
    <3> QED
      BY <3>1, <3>2
  <2> QED
    BY <1>5, <2>1, <2>2
<1>7. Good(x, n, lev)
  <2>1. x = [mem EXCEPT ![p][k] = e]
    BY <1>1 DEF Write
  <2>2. Good([mem EXCEPT ![p][k] = e], n, lev)
    BY <1>1, <1>2, <1>6, <1>n, <1>p, GoodWrite
  <2> QED
    BY <2>1, <2>2
<1>8. ASSUME NEW a \in VA
      PROVE  /\ a \in Nat
             /\ a \in AskedFor(c) <=> TablesIn(mem, a)[l] = p /\ OFFS(a, l) = k
             /\ a \in AskedFor(c) /\ c.pa \in Nat =>
                  AlignTo(c.pa, c.to) + (a % SIZE(c.to)) = c.pa + (a - c.va)
  <2>1. p # -1
    BY <1>p DEF Page
  <2> QED
    BY <1>1, <1>2, <1>p, <1>3, <2>1, Through, Asked
<1>9. ASSUME NEW a \in VA
      PROVE  /\ SameWalk(mem, x, a)
             /\ a \notin AskedFor(c) => TransIn(x, a) = TransIn(mem, a)
             /\ a \in AskedFor(c) =>
                  TransIn(x, a) = LeafAt(e, a, l)
  <2>1. a \in Nat /\ (a \in AskedFor(c) <=> TablesIn(mem, a)[l] = p /\ OFFS(a, l) = k)
    BY <1>8
  <2>2. /\ SameWalk(mem, x, a)
        /\ ~ (TablesIn(mem, a)[l] = p /\ OFFS(a, l) = k) => TransIn(x, a) = TransIn(mem, a)
        /\ TablesIn(mem, a)[l] = p /\ OFFS(a, l) = k =>
              TransIn(x, a) = LeafAt(e, a, l)
    <3>1. lev[p] = l /\ (l = 3 \/ (~ Tab(mem[p][k]) /\ ~ Tab(e))) /\ p < n
      BY <1>1, <1>2, <1>6
    <3>2. Good(mem, n, lev) /\ n \in 1 .. MaxPages + 1 /\ p \in Page /\ k \in Index /\ l \in 1 .. 3
      BY <1>1, <1>2, <1>n, <1>p
    <3> QED
      BY ONLY <1>4, <1>7, <2>1, <3>1, <3>2, WriteTrans
  <2> QED
    BY <2>1, <2>2
<1>10. ASSUME NEW a \in VA \ AskedFor(c) PROVE TransIn(x, a) = want[a]
  <2>1. TransIn(mem, a) = want[a]
    BY <1>0, <1>1, <1>3 DEF Mapped
  <2> QED
    BY <1>9, <2>1
<1>11. ASSUME NEW a \in AskedFor(c)
       PROVE  TransIn(x, a) = IF e = Invalid0 THEN -1 ELSE c.pa + (a - c.va)
  <2>1. a \in VA
    BY DEF AskedFor
  <2>2. CASE e = Invalid0
    <3>1. ~ e.valid
      BY <2>2 DEF Invalid0
    <3> QED
      BY <1>9, <2>1, <2>2, <3>1 DEF LeafAt
  <2>3. CASE c.pa \in Nat /\ e = BlockDesc(c.pa, l)
    <3>1. e.valid /\ e.bit1 = (l = 3) /\ e.addr = c.pa /\ ~ Invalid0.valid
      BY <2>3 DEF BlockDesc, Invalid0
    <3>2. e # Invalid0
      BY <3>1
    <3> QED
      BY <1>2, <1>8, <1>9, <2>1, <2>3, <3>1, <3>2 DEF LeafAt
  <2> QED
    BY <1>5, <2>2, <2>3
<1> QED
  BY <1>0, <1>1, <1>9, <1>10, <1>11

LEMMA TreeSame ==
  ASSUME NEW m, NEW x, Tree(m), \A a \in VA : SameWalk(m, x, a)
  PROVE  Tree(x)
<1>1. \A a \in VA, l \in 1 .. 3 : TablesIn(x, a)[l] = TablesIn(m, a)[l]
  BY DEF SameWalk, Level
<1> QED
  BY <1>1 DEF Tree

LEMMA BreakMapped ==
  ASSUME NEW s, NEW lev, NEW i \in CPU, Inv(s, lev), MapInv(s), phase \in {"init", "setup"},
         Break(i), NEW x, x = mem'
  PROVE  MapInv(x)'
<1>1. /\ pc[i] = "break" /\ pc' = [pc EXCEPT ![i] = "flush"] /\ Write(i, Invalid0)
      /\ phase' = phase /\ level' = level /\ table' = table /\ at' = at /\ new' = new /\ op' = op
      /\ ptrs' = ptrs /\ descs' = descs /\ want' = want /\ UNCHANGED <<regions, va, pa, stage>>
  BY DEF Break, Goto, boss, steps, regs, saved
<1>2. TypeOK /\ RangeInv /\ (LayoutsApart => ApartInv(s)) /\ Tree(s)
      /\ \A j \in CPU : SetInv(j) /\ FreshInv(j)
  BY DEF Inv, MapInv, Mapped
<1>3. pc'[i] = "flush" /\ \A j \in CPU \ {i} : Same(j)
  BY <1>1, <1>2 DEF TypeOK, Same
<1>4. Setting(i)
  <2>1. ~ Linking(i)
    BY <1>1, <1>2 DEF FreshInv
  <2> QED
    BY <1>1, <2>1, Alone DEF Writing
<1>5. /\ i = Boss /\ \A j \in CPU \ {i} : ~ Broken(j) /\ pc[j] \notin Writing
  BY <1>4, SettingFacts
<1>6. Invalid0 \in Entry
  BY DEF Invalid0, Entry
<1>7. /\ \A a \in VA : SameWalk(s, x, a)
      /\ \A a \in VA \ AskedFor(op[i]) : TransIn(x, a) = want[a]
  BY <1>1, <1>4, <1>6, SettingWrite
<1>8. Broken(i)' /\ Setting(i)' /\ ~ Linking(i)'
  BY <1>1, <1>3, <1>4 DEF Broken, Setting, Linking, Ensuring, Writing
<1>9. Tree(x)
  BY <1>2, <1>7, TreeSame
<1>10. Mapped(x)'
  BY <1>1, <1>7, <1>8, <1>9 DEF Mapped
<1>11. ASSUME NEW j \in CPU PROVE SetInv(j)' /\ FreshInv(j)'
  <2>1. CASE j = i
    <3>1. SetInv(i)'
      BY <1>1, <1>2, <1>3, <1>4 DEF SetInv, Setting, Ensuring
    <3> QED
      BY <1>8, <2>1, <3>1 DEF FreshInv
  <2>2. CASE j # i
    BY <1>1, <1>2, <1>3, <1>5, <2>2, OtherSet, OtherFresh
  <2> QED
    BY <2>1, <2>2
<1>12. LayoutsApart => ApartInv(x)'
  <2>1. pc[Boss] # "idle" /\ pc'[Boss] # "idle" /\ op'[Boss] = op[Boss]
    BY <1>1, <1>3, <1>5
  <2> QED
    BY <1>1, <1>2, <1>7, <2>1, ApartSame
<1> QED
  BY <1>1, <1>2, <1>10, <1>11, <1>12, RangeSame DEF MapInv

LEMMA SetApart ==
  ASSUME NEW s, NEW lev, NEW i \in CPU, Inv(s, lev), MapInv(s), phase = "init", Set(i), Setting(i),
         ApartInv(s), NEW x, \A a \in VA : SameWalk(s, x, a)
  PROVE  ApartInv(x)'
<1> DEFINE c == op[i]
<1>1. /\ pc[i] = "make" /\ pc' = [pc EXCEPT ![i] = "idle"] /\ phase' = phase
      /\ want' = [a \in VA |-> IF a \notin c.va .. c.va + SIZE(c.to) - 1 THEN want[a]
                               ELSE IF c.pa = Unmapped THEN -1 ELSE c.pa + (a - c.va)]
      /\ UNCHANGED <<regions, va, pa, stage>>
  BY DEF Set, Goto, boss, steps
<1>2. TypeOK
  BY DEF Inv
<1>3. /\ i = Boss /\ mem = s /\ c.to \in 1 .. 3 /\ c.va \in VA /\ c.pa \in Nat \cup {-1} /\ SetRight(c)
      /\ TablesIn(s, c.va)[c.to] # -1
  <2>1. table[i] = TablesIn(mem, c.va)[c.to] /\ table[i] \in Page /\ mem = s
    BY SettingFacts
  <2>2. TablesIn(s, c.va)[c.to] # -1
    BY <2>1 DEF Page
  <2>3. i = Boss /\ mem = s /\ c.to \in 1 .. 3 /\ c.va \in VA /\ c.pa \in Nat \cup {-1} /\ SetRight(c)
    BY SettingFacts
  <2> QED
    BY <2>2, <2>3
<1>4. pc'[Boss] = "idle" /\ pc[Boss] # "idle"
  BY <1>1, <1>2, <1>3 DEF TypeOK
<1>5. ASSUME NEW a \in VA
      PROVE  want'[a] = IF a \notin AskedFor(c) THEN want[a]
                        ELSE IF c.pa = Unmapped THEN -1 ELSE c.pa + (a - c.va)
  <2>1. a \in AskedFor(c) <=> a \in c.va .. c.va + SIZE(c.to) - 1
    BY <1>3, Asked
  <2> QED
    BY <1>1, <2>1
<1>6. \A a : Rest(a)' <=> Rest(a)
  BY <1>1 DEF Rest
<1>7. Building' <=> Building
  BY <1>1 DEF Building
<1>8. c.va \in AskedFor(c)
  BY <1>3, Asked
<1>9. IF Building THEN
        /\ c.pa # Unmapped
        /\ \A a \in AskedFor(c) : want[a] = -1 /\ ~ Rest(a) /\ a \notin ToSet(Heap)
      ELSE c.va \in ToSet(Heap) /\ c.to = 3
  BY <1>3, <1>4 DEF ApartInv
<1>10. \A a, l : a \in VA /\ l \in Level => TablesIn(x, a)[l] = TablesIn(s, a)[l]
  BY DEF SameWalk
<1> HIDE DEF c
<1>11. ASSUME NEW a \in VA, Rest(a) PROVE want'[a] = -1
  <2>1. Building
    BY <1>11 DEF Rest, Building
  <2>2. a \notin AskedFor(c)
    BY <1>9, <1>11, <2>1
  <2> QED
    BY <1>5, <1>11, <2>2 DEF ApartInv
<1>12. ASSUME NEW v \in ToSet(Heap), want'[v] # -1 PROVE TablesIn(x, v)[3] # -1
  <2>0. v \in VA /\ 3 \in Level /\ v \in Nat /\ c.va \in Nat
    BY <1>3, HeapIsVA, AddressBound DEF Level
  <2>1. CASE v \notin AskedFor(c)
    <3>1. TablesIn(s, v)[3] # -1
      BY <1>5, <1>12, <2>0, <2>1 DEF ApartInv
    <3> QED
      BY <1>10, <2>0, <3>1
  <2>2. CASE v \in AskedFor(c)
    <3>1. c.to = 3 /\ SIZE(3) = 1
      BY <1>9, <2>2, SizeStep
    <3>2. v = c.va
      BY <2>0, <2>2, <3>1 DEF AskedFor
    <3> QED
      BY <1>3, <1>10, <2>0, <3>1, <3>2
  <2> QED
    BY <2>1, <2>2
<1>13. ASSUME Building, NEW b \in VA, want[b] # -1 \/ b = c.va PROVE want'[b] # -1
  <2>1. CASE b \notin AskedFor(c)
    BY <1>5, <1>8, <1>13, <2>1
  <2>2. CASE b \in AskedFor(c)
    <3>1. want'[b] = c.pa + (b - c.va) /\ c.pa \in Nat
      BY <1>3, <1>5, <1>9, <1>13, <2>2 DEF Unmapped
    <3>2. b - c.va \in Nat
      BY <1>3, <2>2, AddressBound DEF AskedFor
    <3> QED
      BY <3>1, <3>2
  <2> QED
    BY <2>1, <2>2
<1>14. ASSUME Building, NEW a \in VA, NEW l \in 1 .. 3, TablesIn(x, a)[l] # -1
       PROVE  \E b \in VA : Near(a, b, l - 1) /\ want'[b] # -1
  <2>1. TablesIn(s, a)[l] # -1
    BY <1>10, <1>14 DEF Level
  <2>2. PICK b \in VA : Near(a, b, l - 1) /\ (want[b] # -1 \/ b = op[Boss].va)
    BY <1>14, <2>1 DEF ApartInv
  <2>3. want'[b] # -1
    BY <1>3, <1>13, <1>14, <2>2 DEF c
  <2> QED
    BY <2>2, <2>3
<1> QED
  BY <1>1, <1>4, <1>6, <1>7, <1>11, <1>12, <1>14 DEF ApartInv

LEMMA SetMapped ==
  ASSUME NEW s, NEW lev, NEW i \in CPU, Inv(s, lev), MapInv(s), phase \in {"init", "setup"},
         Set(i), NEW x, x = mem'
  PROVE  MapInv(x)'
<1> DEFINE c == op[i]
<1>1. /\ pc[i] = "make" /\ pc' = [pc EXCEPT ![i] = "idle"] /\ Write(i, new[i]) /\ ~ Ensuring(i)
      /\ c.kind = "set" /\ phase' = phase /\ op' = [op EXCEPT ![i] = NoCall]
      /\ level' = [level EXCEPT ![i] = 0] /\ table' = [table EXCEPT ![i] = Root]
      /\ at' = [at EXCEPT ![i] = NoPtr] /\ new' = [new EXCEPT ![i] = Invalid0]
      /\ ptrs' = ptrs /\ descs' = descs /\ UNCHANGED <<regions, va, pa, stage>>
      /\ want' = [a \in VA |-> IF a \notin c.va .. c.va + SIZE(c.to) - 1 THEN want[a]
                               ELSE IF c.pa = Unmapped THEN -1 ELSE c.pa + (a - c.va)]
  BY DEF Set, Goto, Return, boss, steps, saved
<1>2. TypeOK /\ FunInv /\ RangeInv /\ Tree(s) /\ \A j \in CPU : SetInv(j) /\ FreshInv(j)
  BY DEF Inv, MapInv, Mapped
<1>3. pc'[i] = "idle" /\ \A j \in CPU \ {i} : Same(j)
  BY <1>1, <1>2 DEF TypeOK, FunInv, Same
<1>4. Setting(i)
  BY <1>1 DEF Setting, Writing
<1>5. /\ phase = "init" /\ \A j \in CPU \ {i} : ~ Broken(j) /\ pc[j] \notin Writing
      /\ c.to \in 1 .. 3 /\ c.va \in VA /\ SetRight(c)
      /\ new[i] = IF c.pa = Unmapped THEN Invalid0 ELSE BlockDesc(c.pa, c.to)
  BY <1>4, SettingFacts
<1>6. new[i] \in Entry
  BY <1>2 DEF TypeOK
<1>7. /\ \A a \in VA : SameWalk(s, x, a)
      /\ \A a \in VA \ AskedFor(c) : TransIn(x, a) = want[a]
      /\ \A a \in AskedFor(c) : TransIn(x, a) = IF new[i] = Invalid0 THEN -1 ELSE c.pa + (a - c.va)
  BY <1>1, <1>4, <1>6, SettingWrite
<1>8. c.pa = Unmapped <=> new[i] = Invalid0
  <2>1. BlockDesc(c.pa, c.to) # Invalid0
    <3>1. BlockDesc(c.pa, c.to).valid /\ ~ Invalid0.valid
      BY DEF BlockDesc, Invalid0
    <3> QED
      BY <3>1
  <2> QED
    BY <1>5, <2>1
<1>9. ASSUME NEW a \in VA PROVE TransIn(x, a) = want'[a]
  <2>1. a \in AskedFor(c) <=> a \in c.va .. c.va + SIZE(c.to) - 1
    BY <1>5, Asked
  <2>2. want'[a] = IF a \notin c.va .. c.va + SIZE(c.to) - 1 THEN want[a]
                   ELSE IF c.pa = Unmapped THEN -1 ELSE c.pa + (a - c.va)
    BY <1>1
  <2> HIDE DEF c
  <2> QED
    BY <1>7, <1>8, <2>1, <2>2
<1>10. Mapped(x)'
  <2>1. Tree(x)
    BY <1>2, <1>7, TreeSame
  <2> QED
    BY <1>9, <2>1 DEF Mapped
<1>11. ASSUME NEW j \in CPU PROVE SetInv(j)' /\ FreshInv(j)'
  <2>1. CASE j = i
    BY <1>3, <2>1 DEF SetInv, FreshInv, Linking, Writing
  <2>2. CASE j # i
    BY <1>1, <1>2, <1>3, <1>5, <2>2, OtherSet, OtherFresh
  <2> QED
    BY <2>1, <2>2
<1>12. LayoutsApart => ApartInv(x)'
  <2> SUFFICES ASSUME LayoutsApart PROVE ApartInv(x)'
    OBVIOUS
  <2>1. ApartInv(s)
    BY DEF MapInv
  <2> QED
    BY <1>4, <1>5, <1>7, <2>1, SetApart
<1> QED
  BY <1>1, <1>2, <1>10, <1>11, <1>12, RangeSame DEF MapInv

(* The addresses whose walks go through one entry. *)
LEMMA NearThrough ==
  ASSUME NEW m, Tree(m), NEW a \in VA, NEW v \in VA, NEW l \in 0 .. 2,
         TablesIn(m, v)[l] # -1, TablesIn(m, a)[l] = TablesIn(m, v)[l], OFFS(a, l) = OFFS(v, l)
  PROVE  Near(a, v, l)
<1>1. CASE l = 0
  BY <1>1, NearTop
<1>2. CASE l # 0
  <2>1. l \in 1 .. 3
    BY <1>2
  <2>2. Near(a, v, l - 1)
    BY <2>1 DEF Tree
  <2>3. a \in Nat /\ v \in Nat /\ l - 1 \in 0 .. 2 /\ (l - 1) + 1 = l
    BY <1>2, AddressBound
  <2>4. Near(a, v, (l - 1) + 1) <=> Near(a, v, l - 1) /\ OFFS(a, (l - 1) + 1) = OFFS(v, (l - 1) + 1)
    BY <2>3, NearStep
  <2> QED
    BY <2>2, <2>3, <2>4
<1> QED
  BY <1>1, <1>2

(* Linking(i): the walks that reach the new table q afterwards. *)
LEMMA LinkingFacts ==
  ASSUME NEW s, NEW lev, NEW i \in CPU, Inv(s, lev), MapInv(s), phase \in {"init", "setup"}, Linking(i)
  PROVE  /\ mem = s /\ Good(mem, next, lev) /\ next \in 1 .. MaxPages + 1
         /\ level[i] \in 0 .. 2 /\ level[i] + 1 <= op[i].to /\ op[i].va \in VA /\ op[i].to \in 1 .. 3
         /\ table[i] \in Page /\ table[i] < next /\ lev[table[i]] = level[i]
         /\ OFFS(op[i].va, level[i]) \in Index /\ table[i] = TablesIn(mem, op[i].va)[level[i]]
         /\ at[i] = <<table[i], OFFS(op[i].va, level[i])>>
         /\ ~ mem[table[i]][OFFS(op[i].va, level[i])].valid
         /\ new[i] = TableDesc(new[i].addr)
         /\ new[i].addr \in Page /\ new[i].addr \in 1 .. next - 1 /\ lev[new[i].addr] = level[i] + 1
         /\ \A k \in Index : mem[new[i].addr][k] = Invalid0
         /\ \A a \in VA, l \in Level : TablesIn(mem, a)[l] # new[i].addr
         /\ \A j \in CPU : ~ Broken(j)
         /\ \A j \in CPU \ {i} : pc[j] \notin Writing
<1>1. OnPath(i) /\ pc[i] \in Writing /\ pc[i] # "idle" /\ Ensuring(i)
  BY DEF Linking, OnPath, Writing
<1>2. CallInv(i) /\ PathInv(lev, i) /\ SetInv(i) /\ FreshInv(i)
  BY DEF Inv, MapInv
<1>3. /\ table[i] \in Page /\ table[i] < next /\ lev[table[i]] = level[i] /\ level[i] \in Level
      /\ OFFS(op[i].va, level[i]) \in Index /\ table[i] = TablesIn(mem, op[i].va)[level[i]]
      /\ mem = s /\ Good(mem, next, lev) /\ next \in 1 .. MaxPages + 1
      /\ Pte(i) = <<table[i], OFFS(op[i].va, level[i])>>
  <2>1. OnPath(i) /\ Inv(s, lev) /\ phase \in {"init", "setup"} /\ i \in CPU
    BY <1>1
  <2> QED
    BY ONLY <2>1, Here
<1>4. op[i].to \in 1 .. 3
  BY <1>1, <1>2, CallFacts
<1>5. level[i] \in 0 .. 2 /\ level[i] + 1 <= op[i].to
  BY <1>1, <1>3, <1>4 DEF Ensuring, Level
<1>6. op[i].va \in VA
  BY <1>1, <1>2 DEF SetInv
<1>7. /\ at[i] = Pte(i) /\ new[i] = TableDesc(new[i].addr)
      /\ new[i].addr \in 1 .. next - 1 /\ lev[new[i].addr] = level[i] + 1
  BY <1>2 DEF PathInv
<1>8. /\ ~ Val(at[i]).valid /\ \A k \in Index : mem[new[i].addr][k] = Invalid0
      /\ \A a \in VA, l \in Level : TablesIn(mem, a)[l] # new[i].addr
  BY <1>2 DEF FreshInv, Path
<1>9. ~ mem[table[i]][OFFS(op[i].va, level[i])].valid
  BY <1>3, <1>7, <1>8 DEF Val
<1>10. new[i].addr \in Page
  BY <1>3, <1>7, VmmAssumption DEF Page
<1>11. \A j \in CPU \ {i} : pc[j] \notin Writing
  BY <1>1, Alone
<1>12. \A j \in CPU : ~ Broken(j)
  <2>1. ~ Broken(i)
    BY <1>1 DEF Broken, Setting
  <2> QED
    BY <1>11, <2>1 DEF Broken, Writing
<1> QED
  BY <1>3, <1>4, <1>5, <1>6, <1>7, <1>8, <1>9, <1>10, <1>11, <1>12

LEMMA LinkTree ==
  ASSUME NEW m, NEW x, Tree(m), NEW v \in VA, NEW l \in 0 .. 2, NEW p, NEW k, NEW q, p # -1,
         Hits(m, v, l, p, k), \A a \in VA, h \in Level : TablesIn(m, a)[h] # q,
         \A a \in VA : LinkedWalk(m, x, a, l, p, k, q)
  PROVE  Tree(x)
<1> SUFFICES ASSUME NEW a \in VA, NEW b \in VA, NEW h \in 1 .. 3,
                    TablesIn(x, a)[h] # -1, TablesIn(x, a)[h] = TablesIn(x, b)[h]
             PROVE  Near(a, b, h - 1)
  BY DEF Tree
<1> DEFINE Thr(c) == Hits(m, c, l, p, k)
<1>1. ASSUME NEW c \in VA
      PROVE  TablesIn(x, c)[h] = IF Thr(c) /\ h = l + 1 THEN q ELSE TablesIn(m, c)[h]
  BY DEF SameWalk, LinkedWalk, Level
<1>2. h \in Level
  BY DEF Level
<1>3. ASSUME NEW c \in VA, Thr(c) PROVE Near(c, v, l)
  BY <1>3, NearThrough DEF Hits
<1> HIDE DEF Thr
<1>4. CASE h = l + 1 /\ (Thr(a) \/ Thr(b))
  <2>1. Thr(a) /\ Thr(b)
    BY <1>1, <1>2, <1>4
  <2>2. Near(a, v, l) /\ Near(b, v, l) /\ h - 1 = l
    BY <1>3, <1>4, <2>1
  <2> QED
    BY <2>2 DEF Near
<1>5. CASE ~ (h = l + 1 /\ (Thr(a) \/ Thr(b)))
  <2>1. TablesIn(x, a)[h] = TablesIn(m, a)[h] /\ TablesIn(x, b)[h] = TablesIn(m, b)[h]
    BY <1>1, <1>5
  <2> QED
    BY <2>1 DEF Tree
<1> QED
  BY <1>4, <1>5

LEMMA LinkMapped ==
  ASSUME NEW s, NEW lev, NEW i \in CPU, Inv(s, lev), MapInv(s), phase \in {"init", "setup"},
         Link(i), NEW x, x = mem'
  PROVE  MapInv(x)'
<1>1. /\ pc[i] = "make" /\ pc' = [pc EXCEPT ![i] = "level"] /\ Ensuring(i) /\ Write(i, new[i])
      /\ phase' = phase /\ at' = at /\ new' = new /\ op' = op
      /\ ptrs' = ptrs /\ descs' = descs /\ want' = want /\ UNCHANGED <<regions, va, pa, stage>>
      /\ level' = [level EXCEPT ![i] = @ + 1] /\ table' = [table EXCEPT ![i] = new[i].addr]
  BY DEF Link, Goto, boss, steps, saved
<1>2. TypeOK /\ RangeInv /\ Tree(s) /\ Mapped(s) /\ \A j \in CPU : SetInv(j) /\ FreshInv(j)
  BY DEF Inv, MapInv, Mapped
<1>3. pc'[i] = "level" /\ \A j \in CPU \ {i} : Same(j)
  BY <1>1, <1>2 DEF TypeOK, Same
<1>4. Linking(i)
  BY <1>1 DEF Linking, Writing
<1>5. PICK p \in Page, k \in Index, q \in Page, l \in 0 .. 2, v \in VA, n \in 1 .. MaxPages + 1 :
        /\ p = table[i] /\ k = OFFS(op[i].va, level[i]) /\ q = new[i].addr /\ l = level[i] /\ v = op[i].va
        /\ n = next
  BY <1>4, LinkingFacts
<1>6. /\ mem = s /\ Good(mem, n, lev) /\ l + 1 <= op[i].to
      /\ p < n /\ lev[p] = l /\ p = TablesIn(mem, v)[l] /\ k = OFFS(v, l)
      /\ at[i] = <<p, k>> /\ ~ mem[p][k].valid
      /\ new[i] = TableDesc(q) /\ q \in 1 .. n - 1 /\ lev[q] = l + 1
      /\ \A h \in Index : mem[q][h] = Invalid0
      /\ \A a \in VA, h \in Level : TablesIn(mem, a)[h] # q
      /\ \A j \in CPU : ~ Broken(j)
      /\ \A j \in CPU \ {i} : pc[j] \notin Writing
  <2>0. Inv(s, lev) /\ MapInv(s) /\ phase \in {"init", "setup"} /\ i \in CPU /\ Linking(i)
    BY <1>4
  <2>1. /\ mem = s /\ Good(mem, next, lev) /\ level[i] + 1 <= op[i].to
        /\ table[i] < next /\ lev[table[i]] = level[i]
    BY ONLY <2>0, LinkingFacts
  <2>4. table[i] = TablesIn(mem, op[i].va)[level[i]] /\ at[i] = <<table[i], OFFS(op[i].va, level[i])>>
    BY ONLY <2>0, LinkingFacts
  <2>5. ~ mem[table[i]][OFFS(op[i].va, level[i])].valid
    BY ONLY <2>0, LinkingFacts
  <2>2. /\ new[i] = TableDesc(new[i].addr) /\ new[i].addr \in 1 .. next - 1
        /\ lev[new[i].addr] = level[i] + 1
        /\ \A h \in Index : mem[new[i].addr][h] = Invalid0
    BY ONLY <2>0, LinkingFacts
  <2>3. /\ \A a \in VA, h \in Level : TablesIn(mem, a)[h] # new[i].addr
        /\ \A j \in CPU : ~ Broken(j)
        /\ \A j \in CPU \ {i} : pc[j] \notin Writing
    BY ONLY <2>0, LinkingFacts
  <2> QED
    BY <1>5, <2>1, <2>2, <2>3, <2>4, <2>5
<1>7. TableDesc(q) \in Entry /\ new[i] \in Entry
  BY <1>2, <1>6 DEF TypeOK
<1>8. Updated(mem, x, p, k, TableDesc(q))
  BY <1>1, <1>2, <1>6, <1>7, WriteFacts DEF Updated
<1>9. Good(x, n, lev)
  <2>1. x = [mem EXCEPT ![p][k] = TableDesc(q)]
    BY <1>1, <1>6 DEF Write
  <2>2. TableDesc(q).bit1 /\ TableDesc(q).addr = q
    BY DEF TableDesc
  <2>3. TableDesc(q).bit1 /\ TableDesc(q).addr \in 1 .. n - 1 /\ lev[TableDesc(q).addr] = lev[p] + 1
    BY <1>6, <2>2
  <2>4. Good([mem EXCEPT ![p][k] = TableDesc(q)], n, lev)
    BY <1>5, <1>6, <1>7, <2>3, GoodWrite
  <2> QED
    BY <2>1, <2>4
<1>10. ASSUME NEW a \in VA
       PROVE  LinkedWalk(mem, x, a, l, p, k, q)
  <2>1. a \in Nat
    BY AddressBound
  <2>2. /\ Good(mem, n, lev) /\ n \in 1 .. MaxPages + 1 /\ p \in Page /\ p < n /\ k \in Index
        /\ q \in Page /\ q < n /\ l \in 0 .. 2 /\ lev[p] = l /\ lev[q] = l + 1 /\ ~ mem[p][k].valid
        /\ Empty(mem, q)
    BY <1>5, <1>6 DEF Empty
  <2> QED
    BY ONLY <1>8, <1>9, <2>1, <2>2, LinkTrans
<1>11. Tree(x)
  <2>1. p # -1
    BY <1>5 DEF Page
  <2>2. Tree(mem) /\ Hits(mem, v, l, p, k) /\ v \in VA /\ l \in 0 .. 2
    BY <1>2, <1>5, <1>6 DEF Hits
  <2>3. \A a \in VA, h \in Level : TablesIn(mem, a)[h] # q
    BY <1>6
  <2>4. \A a \in VA : LinkedWalk(mem, x, a, l, p, k, q)
    BY <1>10
  <2> QED
    BY ONLY <2>1, <2>2, <2>3, <2>4, LinkTree
<1>12. Mapped(x)'
  <2>1. ASSUME NEW a \in VA PROVE TransIn(x, a) = want'[a]
    BY <1>1, <1>2, <1>6, <1>10 DEF Mapped, LinkedWalk
  <2> QED
    BY <1>11, <2>1 DEF Mapped
<1>13. ASSUME NEW j \in CPU PROVE SetInv(j)' /\ FreshInv(j)'
  <2>1. CASE j = i
    <3>1. pc'[i] \notin Writing /\ pc'[i] # "walk" /\ pc[i] # "idle" /\ op'[i] = op[i]
      BY <1>1, <1>3 DEF Writing
    <3>2. SetInv(i)
      BY <1>2
    <3> QED
      BY <1>1, <2>1, <3>1, <3>2 DEF SetInv, FreshInv, Linking, Setting
  <2>2. CASE j # i
    BY <1>1, <1>2, <1>3, <1>6, <2>2, OtherSet, OtherFresh
  <2> QED
    BY <2>1, <2>2
<1>14. LayoutsApart => ApartInv(x)'
  <2> SUFFICES ASSUME ApartInv(s) PROVE ApartInv(x)'
    BY DEF MapInv
  <2>1. \A a : Rest(a)' <=> Rest(a)
    BY <1>1 DEF Rest
  <2>2. Building' <=> Building
    BY <1>1 DEF Building
  <2>3. ASSUME NEW a \in VA, NEW h \in Level
        PROVE  /\ TablesIn(mem, a)[h] # -1 => TablesIn(x, a)[h] # -1
               /\ TablesIn(x, a)[h] # -1 =>
                    \/ TablesIn(mem, a)[h] # -1
                    \/ h = l + 1 /\ TablesIn(mem, a)[l] = p /\ OFFS(a, l) = k
    BY <1>5, <1>10 DEF LinkedWalk, Hits, SameWalk, Page
  <2>4. \A u \in ToSet(Heap) : want'[u] # -1 => TablesIn(x, u)[3] # -1
    <3>1. 3 \in Level
      BY DEF Level
    <3> QED
      BY <1>1, <1>6, <2>3, <3>1, HeapIsVA DEF ApartInv
  <2>5. pc'[Boss] # "idle" /\ phase' = "init" => pc[Boss] # "idle" /\ phase = "init"
    <3>1. Boss = i \/ pc'[Boss] = pc[Boss]
      BY <1>1
    <3> QED
      BY <1>1, <3>1
  <2>6. ASSUME Building, NEW a \in VA, NEW h \in 1 .. 3, TablesIn(x, a)[h] # -1
        PROVE  \E b \in VA : /\ Near(a, b, h - 1)
                             /\ want[b] # -1 \/ (pc'[Boss] # "idle" /\ b = op[Boss].va /\ h <= op[Boss].to)
    <3>0. h \in Level
      BY DEF Level
    <3>1. i = Boss
      <4>1. phase = "init"
        BY <2>6 DEF Inv, BossInv, TypeOK, Building
      <4>2. CallInv(i) /\ pc[i] # "idle"
        BY <1>1 DEF Inv
      <4> QED
        BY <4>1, <4>2 DEF CallInv
    <3>2. CASE TablesIn(mem, a)[h] # -1
      <4>1. \E b \in VA : /\ Near(a, b, h - 1)
                          /\ want[b] # -1 \/ (pc[Boss] # "idle" /\ b = op[Boss].va /\ h <= op[Boss].to)
        BY <1>6, <2>6, <3>2 DEF ApartInv
      <4> QED
        BY <1>3, <3>1, <4>1
    <3>3. CASE h = l + 1 /\ TablesIn(mem, a)[l] = p /\ OFFS(a, l) = k
      <4>1. Tree(mem) /\ TablesIn(mem, v)[l] # -1
        BY <1>2, <1>5, <1>6 DEF Page
      <4>2. Near(a, v, l)
        BY <1>5, <1>6, <3>3, <4>1, NearThrough
      <4>3. Near(a, v, h - 1) /\ v \in VA /\ v = op[Boss].va /\ h <= op[Boss].to /\ pc'[Boss] # "idle"
        BY <1>3, <1>5, <1>6, <3>1, <3>3, <4>2
      <4> QED
        BY <4>3
    <3> QED
      BY <2>3, <2>6, <3>0, <3>2, <3>3
  <2> QED
    BY <1>1, <2>1, <2>2, <2>4, <2>5, <2>6 DEF ApartInv
<1> QED
  BY <1>1, <1>2, <1>12, <1>13, <1>14, RangeSame DEF MapInv

LEMMA NewTableMapped ==
  ASSUME NEW s, NEW lev, NEW i \in CPU, Inv(s, lev), MapInv(s), phase \in {"init", "setup"}, Unsplit,
         NewTable(i), NEW x, x = mem'
  PROVE  MapInv(x)'
<1>1. /\ pc[i] = "level" /\ pc' = [pc EXCEPT ![i] = "read"]
      /\ Ensuring(i) /\ ~ IsTable(Desc(i), level[i]) /\ next <= MaxPages
      /\ mem' = [mem EXCEPT ![next] =
                   [k \in Index |-> IF IsBlock(Desc(i), level[i])
                                    THEN BlockDesc(AlignTo(Desc(i).addr, level[i]), level[i])
                                    ELSE Invalid0]]
      /\ at' = [at EXCEPT ![i] = Pte(i)] /\ new' = [new EXCEPT ![i] = TableDesc(next)]
      /\ phase' = phase /\ level' = level /\ table' = table /\ op' = op
      /\ ptrs' = ptrs /\ descs' = descs /\ want' = want /\ UNCHANGED <<regions, va, pa, stage>>
  BY DEF NewTable, Goto, boss, steps, saved
<1>2. TypeOK /\ \A j \in CPU : SetInv(j) /\ FreshInv(j)
  BY DEF Inv, MapInv
<1>3. /\ pc'[i] = "read" /\ at'[i] = Pte(i) /\ new'[i] = TableDesc(next)
      /\ \A j \in CPU \ {i} : Same(j)
  BY <1>1, <1>2 DEF TypeOK, Same
<1>4. OnPath(i) /\ ~ IsBlock(Desc(i), level[i])
  BY <1>1 DEF OnPath, Unsplit
<1>5. PICK p \in Page, k \in Index, n \in 1 .. MaxPages + 1 :
        p = table[i] /\ k = OFFS(op[i].va, level[i]) /\ n = next
  BY <1>4, Here
<1>6. mem = s /\ Good(mem, n, lev) /\ p < n /\ Pte(i) = <<p, k>> /\ Desc(i) = mem[p][k]
  <2>0. Inv(s, lev) /\ phase \in {"init", "setup"} /\ i \in CPU /\ OnPath(i)
    BY <1>4
  <2>1. mem = s /\ Good(mem, next, lev) /\ table[i] < next
    BY ONLY <2>0, Here
  <2>2. /\ Pte(i) = <<table[i], OFFS(op[i].va, level[i])>>
        /\ Desc(i) = mem[table[i]][OFFS(op[i].va, level[i])]
    BY ONLY <2>0, Here
  <2> QED
    BY <1>5, <2>1, <2>2
<1>7. ~ mem[p][k].valid
  BY <1>1, <1>4, <1>6 DEF IsBlock
<1>8. n \in Page /\ n \in Nat
  BY <1>1, <1>5 DEF Page
<1>9. \A q \in Page, h \in Index : x[q][h] = IF q = n THEN Invalid0 ELSE mem[q][h]
  <2>1. mem' = [mem EXCEPT ![n] = [h \in Index |-> Invalid0]]
    BY <1>1, <1>4, <1>5
  <2>2. mem \in [Page -> [Index -> Entry]]
    BY <1>2 DEF TypeOK
  <2> QED
    BY <1>8, <2>1, <2>2
<1>10. \A q \in Page, h \in Index : q < n => x[q][h] = mem[q][h]
  BY <1>8, <1>9 DEF Page
<1>11. ASSUME NEW a \in Nat
       PROVE  /\ SameWalk(mem, x, a) /\ TransIn(x, a) = TransIn(mem, a)
              /\ \A l \in Level : TablesIn(x, a)[l] # n
  <2>1. SameTables(mem, x, n, lev)
    BY <1>10 DEF SameTables
  <2>2. SameWalk(mem, x, a)
    BY <1>5, <1>6, <2>1, SamePaths
  <2>3. \A l \in Level : TablesIn(mem, a)[l] \in Page \cup {-1} /\ (TablesIn(mem, a)[l] # -1 => TablesIn(mem, a)[l] < n)
    BY <1>5, <1>6, Levels
  <2>4. ASSUME NEW l \in 1 .. 3, TablesIn(mem, a)[l] # -1
        PROVE  x[TablesIn(mem, a)[l]][OFFS(a, l)] = mem[TablesIn(mem, a)[l]][OFFS(a, l)]
    <3>1. l \in Level /\ OFFS(a, l) \in Index
      BY Offsets DEF Level
    <3> QED
      BY <1>10, <2>3, <2>4, <3>1
  <2>5. TransIn(x, a) = TransIn(mem, a)
    BY <1>5, <1>6, <2>2, <2>4, TransSame
  <2>6. \A l \in Level : TablesIn(x, a)[l] # n
    BY <1>8, <2>2, <2>3 DEF SameWalk
  <2> QED
    BY <2>2, <2>5, <2>6
<1>12. \A j \in CPU \ {i} : pc[j] \notin Writing
  BY <1>1, Alone
<1>13. ASSUME NEW j \in CPU PROVE SetInv(j)' /\ FreshInv(j)'
  <2>1. CASE j = i
    <3>1. SetInv(i)'
      BY <1>1, <1>2, <1>3 DEF SetInv, Setting, Ensuring
    <3>2. ~ Val(at[i])'.valid
      BY <1>3, <1>6, <1>7, <1>10, <1>5 DEF Val
    <3>3. new'[i].addr = n
      BY <1>3, <1>5 DEF TableDesc
    <3>4. \A h \in Index : mem'[new'[i].addr][h] = Invalid0
      BY <1>8, <1>9, <3>3
    <3>5. \A a \in VA, l \in Level : TablesIn(mem', a)[l] # new'[i].addr
      BY <1>11, <3>3, AddressBound
    <3> QED
      BY <1>3, <2>1, <3>1, <3>2, <3>4, <3>5 DEF FreshInv, Path
  <2>2. CASE j # i
    BY <1>1, <1>2, <1>3, <1>12, <2>2, OtherSet, OtherFresh
  <2> QED
    BY <2>1, <2>2
<1>14. \A a \in VA : SameWalk(s, x, a) /\ TransIn(x, a) = TransIn(s, a)
  BY <1>6, <1>11, AddressBound
<1>15. \A j \in CPU : ~ Broken(j)
  BY <1>1, <1>12 DEF Broken, Writing
<1>16. pc'[Boss] # "idle" <=> pc[Boss] # "idle"
  <2>1. Boss = i \/ pc'[Boss] = pc[Boss]
    BY <1>1
  <2> QED
    BY <1>1, <1>3, <2>1
<1> QED
  BY <1>1, <1>13, <1>14, <1>15, <1>16, Kept

-----------------------------------------------------------------------------
(* Steps of a call that write nothing. *)
LEMMA Calm ==
  ASSUME NEW s, NEW lev, NEW i \in CPU, Inv(s, lev), MapInv(s), phase \in {"init", "setup"},
         pc[i] # "idle", phase' = phase, UNCHANGED <<mem, want, regions, va, pa, stage>>,
         \A j \in CPU \ {i} : Same(j),
         phase = "setup" \/ (pc'[i] # "idle" /\ op'[i] = op[i]),
         Broken(i) => Broken(i)' /\ op'[i] = op[i],
         SetInv(i)', FreshInv(i)', NEW x, x = mem'
  PROVE  MapInv(x)'
<1>1. x = s /\ \A j \in CPU : SetInv(j) /\ FreshInv(j)
  BY DEF Inv, CleanInv, MapInv
<1>2. \A a \in VA : SameWalk(s, x, a) /\ TransIn(x, a) = TransIn(s, a)
  BY <1>1, WalkItself
<1>3. ASSUME NEW j \in CPU PROVE SetInv(j)' /\ FreshInv(j)'
  BY <1>1, <1>3, OtherSet, OtherFresh
<1>4. ASSUME NEW j \in CPU, Broken(j) PROVE Broken(j)' /\ op'[j] = op[j]
  BY <1>4, OtherBroken
<1>5. Boss = i \/ (pc'[Boss] = pc[Boss] /\ op'[Boss] = op[Boss])
  BY VmmAssumption DEF Same
<1>6. pc'[Boss] # "idle" /\ phase' = "init" => pc[Boss] # "idle" /\ phase = "init" /\ op'[Boss] = op[Boss]
  BY <1>5
<1>7. Building /\ pc[Boss] # "idle" => pc'[Boss] # "idle" /\ op'[Boss] = op[Boss]
  BY <1>5 DEF Building, Inv, BossInv
<1> QED
  BY <1>2, <1>3, <1>4, <1>6, <1>7, Kept

LEMMA LockMapped ==
  ASSUME NEW s, NEW lev, NEW i \in CPU, Inv(s, lev), MapInv(s), phase \in {"init", "setup"},
         Lock(i) \/ Descend(i), NEW x, x = mem'
  PROVE  MapInv(x)'
<1>1. /\ pc[i] \in {"lock", "level"} /\ pc' = [pc EXCEPT ![i] = "level"]
      /\ UNCHANGED <<mem, want, op, at, new, ptrs, descs, phase, regions, va, pa, stage>>
  BY DEF Lock, Descend, Goto, boss, steps, regs, saved
<1>2. TypeOK /\ SetInv(i)
  BY DEF Inv, MapInv
<1>3. pc'[i] = "level" /\ \A j \in CPU \ {i} : Same(j)
  <2>1. \A j \in CPU \ {i} : level'[j] = level[j] /\ table'[j] = table[j]
    BY <1>2 DEF TypeOK, Lock, Descend, regs
  <2> QED
    BY <1>1, <1>2, <2>1 DEF TypeOK, Same
<1>4. SetInv(i)' /\ FreshInv(i)'
  BY <1>1, <1>2, <1>3 DEF SetInv, FreshInv, Linking, Setting, Writing
<1>5. ~ Broken(i)
  BY <1>1 DEF Broken
<1> QED
  BY <1>1, <1>3, <1>4, <1>5, Calm

LEMMA UnlockMapped ==
  ASSUME NEW s, NEW lev, NEW i \in CPU, Inv(s, lev), MapInv(s), phase \in {"init", "setup"},
         Unlock(i), NEW x, x = mem'
  PROVE  MapInv(x)'
<1>1. /\ pc[i] = "level" /\ pc' = [pc EXCEPT ![i] = "walk"]
      /\ level' = [level EXCEPT ![i] = 0] /\ table' = [table EXCEPT ![i] = Root]
      /\ UNCHANGED <<mem, want, op, at, new, ptrs, descs, phase, regions, va, pa, stage>>
  BY DEF Unlock, Goto, boss, steps, saved
<1>2. TypeOK /\ SetInv(i) /\ CallInv(i)
  BY DEF Inv, MapInv
<1>3. pc'[i] = "walk" /\ level'[i] = 0 /\ \A j \in CPU \ {i} : Same(j)
  BY <1>1, <1>2 DEF TypeOK, Same
<1>4. op[i].to \in 1 .. 3
  BY <1>1, <1>2, CallFacts
<1>5. SetInv(i)' /\ FreshInv(i)'
  BY <1>1, <1>2, <1>3, <1>4 DEF SetInv, FreshInv, Linking, Setting, Writing
<1>6. ~ Broken(i)
  BY <1>1 DEF Broken
<1> QED
  BY <1>1, <1>3, <1>5, <1>6, Calm

LEMMA WalkMapped ==
  ASSUME NEW s, NEW lev, NEW i \in CPU, Inv(s, lev), MapInv(s), phase \in {"init", "setup"}, Unsplit,
         Walk(i), NEW x, x = mem'
  PROVE  MapInv(x)'
<1>1. /\ pc[i] = "walk" /\ pc' = [pc EXCEPT ![i] = "walk"] /\ Walking(i)
      /\ level' = [level EXCEPT ![i] = @ + 1] /\ table' = [table EXCEPT ![i] = Desc(i).addr]
      /\ UNCHANGED <<mem, want, op, at, new, ptrs, descs, phase, regions, va, pa, stage>>
  BY DEF Walk, Goto, boss, steps, saved
<1>2. TypeOK /\ SetInv(i) /\ CallInv(i)
  BY DEF Inv, MapInv
<1>3. pc'[i] = "walk" /\ level'[i] = level[i] + 1 /\ \A j \in CPU \ {i} : Same(j)
  BY <1>1, <1>2 DEF TypeOK, Same
<1>4. op[i].to \in 1 .. 3 /\ level[i] \in Level
  BY <1>1, <1>2, CallFacts DEF TypeOK
<1>5. op[i].kind = "set" => level[i] + 1 <= op[i].to
  <2>1. op[i].kind = "set" => level[i] # op[i].to /\ level[i] <= op[i].to
    BY <1>1, <1>2 DEF Unsplit, SetInv
  <2> QED
    BY <1>4, <2>1 DEF Level
<1>6. SetInv(i)' /\ FreshInv(i)'
  BY <1>1, <1>2, <1>3, <1>5 DEF SetInv, FreshInv, Linking, Setting, Writing
<1>7. ~ Broken(i)
  BY <1>1 DEF Broken
<1> QED
  BY <1>1, <1>3, <1>6, <1>7, Calm

LEMMA WalkedSetMapped ==
  ASSUME NEW s, NEW lev, NEW i \in CPU, Inv(s, lev), MapInv(s), phase \in {"init", "setup"},
         WalkedSet(i), NEW x, x = mem'
  PROVE  MapInv(x)'
<1>1. /\ pc[i] = "walk" /\ pc' = [pc EXCEPT ![i] = "read"] /\ op[i].kind = "set" /\ ~ Walking(i)
      /\ at' = [at EXCEPT ![i] = Pte(i)]
      /\ new' = [new EXCEPT ![i] = IF op[i].pa = Unmapped THEN Invalid0 ELSE BlockDesc(op[i].pa, level[i])]
      /\ UNCHANGED <<mem, want, op, level, table, ptrs, descs, phase, regions, va, pa, stage>>
  BY DEF WalkedSet, Goto, boss, steps, saved
<1>2. TypeOK /\ SetInv(i) /\ CallInv(i)
  BY DEF Inv, MapInv
<1>3. /\ pc'[i] = "read" /\ \A j \in CPU \ {i} : Same(j)
      /\ new'[i] = IF op[i].pa = Unmapped THEN Invalid0 ELSE BlockDesc(op[i].pa, level[i])
  BY <1>1, <1>2 DEF TypeOK, Same
<1>4. op[i].to \in 1 .. 3 /\ level[i] \in Level /\ op[i].walk = 3
  BY <1>1, <1>2, CallFacts DEF TypeOK
<1>5. level[i] = op[i].to
  <2>1. level[i] >= op[i].to
    BY <1>1, <1>4, WalkEnd
  <2>2. level[i] <= op[i].to
    BY <1>1, <1>2 DEF SetInv
  <2> QED
    BY <1>4, <2>1, <2>2 DEF Level
<1>6. ~ Linking(i)'
  BY <1>1, <1>4, <1>5 DEF Linking, Ensuring
<1>7. SetInv(i)' /\ FreshInv(i)'
  BY <1>1, <1>2, <1>3, <1>5, <1>6 DEF SetInv, FreshInv
<1>8. ~ Broken(i)
  BY <1>1 DEF Broken
<1> QED
  BY <1>1, <1>3, <1>7, <1>8, Calm

LEMMA LookupMapped ==
  ASSUME NEW s, NEW lev, NEW i \in CPU, Inv(s, lev), MapInv(s), phase \in {"init", "setup"},
         WalkedLookup(i) \/ Save(i), NEW x, x = mem'
  PROVE  MapInv(x)'
<1>1. pc[i] \in {"walk", "save"} /\ UNCHANGED <<mem, want, phase, regions, va, pa, stage>>
  BY DEF WalkedLookup, Save, Goto, boss, steps
<1>2. TypeOK /\ FunInv /\ SetInv(i) /\ CallInv(i)
  BY DEF Inv, MapInv
<1>3. phase = "setup"
  <2>1. CASE WalkedLookup(i)
    BY <1>1, <1>2, <2>1, CallFacts DEF WalkedLookup
  <2>2. CASE Save(i)
    BY <1>2, <2>2 DEF Save, Goto, CallInv
  <2> QED
    BY <2>1, <2>2
<1>4. op[i].kind # "set"
  BY <1>1, <1>2, <1>3, CallFacts
<1>5. \A j \in CPU \ {i} : Same(j)
  BY <1>2 DEF WalkedLookup, Save, Goto, Return, TypeOK, FunInv, Same, saved
<1>6. pc'[i] = "idle" \/ (pc'[i] = "save" /\ op'[i] = op[i])
  BY <1>2 DEF WalkedLookup, Save, Goto, TypeOK
<1>7. SetInv(i)' /\ FreshInv(i)'
  BY <1>1, <1>2, <1>3, <1>4, <1>6 DEF SetInv, FreshInv, Linking, Writing
<1>8. ~ Broken(i)
  BY <1>1 DEF Broken
<1> QED
  BY <1>1, <1>3, <1>5, <1>7, <1>8, Calm

LEMMA ReadMapped ==
  ASSUME NEW s, NEW lev, NEW i \in CPU, Inv(s, lev), MapInv(s), phase \in {"init", "setup"},
         Read(i) \/ Flush(i), NEW x, x = mem'
  PROVE  MapInv(x)'
<1>1. /\ pc[i] \in {"read", "flush"}
      /\ UNCHANGED <<mem, want, op, level, table, at, new, ptrs, descs, phase, regions, va, pa, stage>>
  BY DEF Read, Flush, Goto, boss, steps, regs, saved
<1>2. TypeOK /\ SetInv(i) /\ FreshInv(i) /\ CallInv(i)
  BY DEF Inv, MapInv
<1>3. \A j \in CPU \ {i} : Same(j)
  <2>1. \A j \in CPU \ {i} : pc'[j] = pc[j]
    BY <1>2 DEF Read, Flush, Goto, TypeOK
  <2> QED
    BY <1>1, <2>1 DEF Same
<1>4. op[i].kind # "restore"
  BY <1>1, <1>2, CallFacts
<1>5. /\ pc[i] = "read" => pc'[i] = IF Val(at[i]).valid THEN "break" ELSE "make"
      /\ pc[i] = "flush" => pc'[i] = "make"
  BY <1>1, <1>2, <1>4 DEF Read, Flush, Goto, TypeOK
<1>6. (Linking(i)' <=> Linking(i)) /\ (Setting(i)' <=> Setting(i))
  BY <1>1, <1>5 DEF Linking, Setting, Writing, Ensuring
<1>7. SetInv(i)'
  BY <1>1, <1>2, <1>5, <1>6 DEF SetInv
<1>8. FreshInv(i)'
  BY <1>1, <1>2, <1>5, <1>6 DEF FreshInv, Val, Path
<1>9. Broken(i) => Broken(i)' /\ op'[i] = op[i]
  BY <1>1, <1>5, <1>6 DEF Broken
<1>10. pc[i] # "idle" /\ pc'[i] # "idle" /\ op'[i] = op[i]
  BY <1>1, <1>5
<1> QED
  BY <1>1, <1>3, <1>7, <1>8, <1>9, <1>10, Calm

-----------------------------------------------------------------------------
(* __ptable_set_range. *)
LEMMA FirstRegion ==
  ASSUME NEW s, NEW lev, Inv(s, lev), stage # 0
  PROVE  /\ va \in Nat /\ pa \in Nat /\ stage \in 1 .. 5 /\ phase = "init"
         /\ regions # <<>> /\ 1 \in DOMAIN regions
         /\ regions[1].va_start \in Nat /\ regions[1].va_end \in Nat
<1> DEFINE R == [va_start : Nat, va_end : Nat, pa_start : Nat]
<1>1. BossInv /\ stage \in 0 .. 5 /\ phase \in {"init", "setup", "clean"}
  BY DEF Inv, TypeOK
<1>2. regions \in Seq(R) /\ regions # <<>>
  BY <1>1 DEF BossInv
<1>3. regions[1] \in R /\ 1 \in DOMAIN regions
  <2> HIDE DEF R
  <2> QED
    BY <1>2
<1> QED
  BY <1>1, <1>2, <1>3 DEF BossInv

(* Every turn of a loop asks for a block that is in the region and aligned. *)
LEMMA RangeTurn ==
  ASSUME NEW s, NEW lev, Inv(s, lev), RangeInv, stage # 0, Continues(stage), NEW l, l = LevelOf[stage]
  PROVE  /\ l \in 1 .. 3 /\ va + SIZE(l) <= regions[1].va_end
         /\ regions[1].va_end <= Fanout * SIZE(0)
         /\ Aligned(va, l) /\ Aligned(pa, l)
<1>1. /\ va \in Nat /\ pa \in Nat /\ stage \in 1 .. 5 /\ 1 \in DOMAIN regions
      /\ regions[1].va_end \in Nat
  BY FirstRegion
<1>2. regions[1].va_end <= Fanout * SIZE(0)
  BY <1>1 DEF RangeInv
<1>3. PICK e \in Nat : e = regions[1].va_end
  BY <1>1
<1>4. PICK f \in Nat \ {0}, g \in Nat \ {0}, h \in Nat \ {0} :
        /\ f = SIZE(2) /\ g = SIZE(1) /\ h = Fanout
        /\ f = h /\ g = h * f /\ SIZE(3) = 1
  <2>1. 1 \in Level /\ 2 \in Level /\ 1 \in 0 .. 2 /\ 2 \in 0 .. 2 /\ 1 + 1 = 2 /\ 2 + 1 = 3
    BY DEF Level
  <2>2. SIZE(2) = Fanout * SIZE(3) /\ SIZE(1) = Fanout * SIZE(2) /\ SIZE(3) = 1
    BY <2>1, SizeStep
  <2>3. Fanout * 1 = Fanout
    BY SizeStep
  <2> QED
    BY <2>1, <2>2, <2>3, SizeStep
<1>5. f <= g
  <2>1. PICK k \in Nat : h = k + 1
    <3>1. h - 1 \in Nat /\ h = (h - 1) + 1
      OBVIOUS
    <3> QED
      BY <3>1
  <2>2. g = (k * f) + f /\ k * f \in Nat
    BY <1>4, <2>1
  <2>3. PICK y \in Nat : y = k * f
    BY <2>2
  <2> QED
    BY <2>2, <2>3
<1>6. Aligned(va, 3) /\ Aligned(pa, 3)
  BY <1>1, Pages
<1>7. CASE stage = 1
  <2>1. l = 3
    BY <1>7 DEF LevelOf
  <2>2. Fits(va, 3)
    BY <1>7 DEF Continues
  <2> QED
    BY <1>2, <1>6, <2>1, <2>2 DEF Fits
<1>8. CASE stage = 2
  <2>1. l = 2
    BY <1>8 DEF LevelOf
  <2>2. Fits(va, 2)
    BY <1>8 DEF Continues
  <2>3. Fits(va, 3)
    BY <1>1, <1>3, <1>4, <2>2 DEF Fits
  <2>4. BothAligned(va, pa, 2)
    BY <1>8, <2>3 DEF RangeInv
  <2> QED
    BY <1>2, <2>1, <2>2, <2>4 DEF Fits, BothAligned
<1>9. CASE stage = 3
  <2>1. l = 1
    BY <1>9 DEF LevelOf
  <2>2. Fits(va, 1)
    BY <1>9 DEF Continues
  <2>3. Fits(va, 2)
    BY <1>1, <1>3, <1>4, <1>5, <2>2 DEF Fits
  <2>4. BothAligned(va, pa, 1)
    BY <1>9, <2>3 DEF RangeInv
  <2> QED
    BY <1>2, <2>1, <2>2, <2>4 DEF Fits, BothAligned
<1>10. CASE stage = 4
  <2>1. l = 2
    BY <1>10 DEF LevelOf
  <2>2. Fits(va, 2)
    BY <1>10 DEF Continues
  <2>3. BothAligned(va, pa, 2)
    BY <1>10, <2>2 DEF RangeInv
  <2> QED
    BY <1>2, <2>1, <2>2, <2>3 DEF Fits, BothAligned
<1>11. CASE stage = 5
  <2>1. l = 3
    BY <1>11 DEF LevelOf
  <2>2. va < regions[1].va_end
    BY <1>11 DEF Continues
  <2>3. va + 1 <= regions[1].va_end
    BY <1>1, <1>3, <2>2
  <2> QED
    BY <1>2, <1>4, <1>6, <2>1, <2>3
<1> QED
  BY <1>1, <1>7, <1>8, <1>9, <1>10, <1>11

LEMMA EndOfLoop ==
  ASSUME NEW s, NEW lev, Inv(s, lev), RangeInv, EndLoop
  PROVE  RangeInv'
<1>1. stage \in 1 .. 5 /\ va \in Nat /\ pa \in Nat /\ regions # <<>> /\ BossInv
  <2>1. stage # 0 /\ BossInv
    BY DEF EndLoop, Inv, TypeOK
  <2> QED
    BY <2>1, FirstRegion
<1>2. /\ ~ Continues(stage) /\ stage' = (stage + 1) % 6 /\ va' = va /\ pa' = pa
      /\ regions' = IF stage = 5 THEN Tail(regions) ELSE regions
  BY DEF EndLoop
<1>3. \A n \in DOMAIN regions' : regions'[n].va_end <= Fanout * SIZE(0)
  <2>1. CASE stage = 5
    <3> DEFINE R == [va_start : Nat, va_end : Nat, pa_start : Nat]
    <3>1. regions \in Seq(R)
      BY <1>1 DEF BossInv
    <3> HIDE DEF R
    <3>2. ASSUME NEW n \in DOMAIN Tail(regions)
          PROVE  n + 1 \in DOMAIN regions /\ Tail(regions)[n] = regions[n + 1]
      BY <1>1, <3>1
    <3> QED
      BY <1>2, <2>1, <3>2 DEF RangeInv
  <2>2. CASE stage # 5
    BY <1>2, <2>2 DEF RangeInv
  <2> QED
    BY <2>1, <2>2
<1>4. ASSUME stage \in 1 .. 4 PROVE regions' = regions /\ stage' = stage + 1 /\ Fits(va, 2)' = Fits(va, 2)
                                    /\ Fits(va, 3)' = Fits(va, 3)
  BY <1>2, <1>4 DEF Fits
<1>5. stage' = 2 => BothAligned(va, pa, 2)' \/ ~ Fits(va, 3)'
  <2> SUFFICES ASSUME stage' = 2 PROVE BothAligned(va, pa, 2)' \/ ~ Fits(va, 3)'
    OBVIOUS
  <2>1. stage = 1
    BY <1>1, <1>2
  <2>2. BothAligned(va, pa, 2) \/ ~ Fits(va, 3)
    BY <1>2, <2>1 DEF Continues
  <2> QED
    BY <1>2, <1>4, <2>1, <2>2 DEF BothAligned
<1>6. stage' = 3 => BothAligned(va, pa, 1)' \/ ~ Fits(va, 2)'
  <2> SUFFICES ASSUME stage' = 3 PROVE BothAligned(va, pa, 1)' \/ ~ Fits(va, 2)'
    OBVIOUS
  <2>1. stage = 2
    BY <1>1, <1>2
  <2>2. BothAligned(va, pa, 1) \/ ~ Fits(va, 2)
    BY <1>2, <2>1 DEF Continues
  <2> QED
    BY <1>2, <1>4, <2>1, <2>2 DEF BothAligned
<1>7. stage' = 4 => BothAligned(va, pa, 2)' \/ ~ Fits(va, 2)'
  <2> SUFFICES ASSUME stage' = 4 PROVE BothAligned(va, pa, 2)' \/ ~ Fits(va, 2)'
    OBVIOUS
  <2>1. stage = 3
    BY <1>1, <1>2
  <2>2. BothAligned(va, pa, 1) \/ ~ Fits(va, 2)
    BY <2>1 DEF RangeInv
  <2>3. BothAligned(va, pa, 1) => BothAligned(va, pa, 2)
    <3>1. 1 \in 0 .. 2 /\ 1 + 1 = 2
      OBVIOUS
    <3> QED
      BY <1>1, <3>1, AlignedDown DEF BothAligned
  <2> QED
    BY <1>2, <1>4, <2>1, <2>2, <2>3 DEF BothAligned
<1> QED
  BY <1>3, <1>5, <1>6, <1>7 DEF RangeInv

-----------------------------------------------------------------------------
(* Calls begin. *)
LEMMA RequestMapped ==
  ASSUME NEW s, NEW lev, NEW i \in CPU, Inv(s, lev), MapInv(s), phase \in {"init", "setup"},
         NEW call, Request(i, call), call.va \in VA, call.kind = "set" => SetRight(call),
         RangeInv', LayoutsApart => ApartInv(s)', NEW x, x = mem'
  PROVE  MapInv(x)'
<1>1. /\ pc[i] = "idle" /\ pc' = [pc EXCEPT ![i] = "lock"] /\ op' = [op EXCEPT ![i] = call]
      /\ mem' = mem /\ want' = want /\ phase' = phase /\ level' = level /\ table' = table
      /\ at' = at /\ new' = new /\ ptrs' = ptrs /\ descs' = descs
  BY DEF Request, Goto, steps, regs, saved
<1>2. x = s /\ TypeOK /\ FunInv
  BY <1>1 DEF Inv, CleanInv
<1>3. pc'[i] = "lock" /\ op'[i] = call /\ \A j \in CPU \ {i} : Same(j)
  BY <1>1, <1>2 DEF TypeOK, FunInv, Same
<1>4. ASSUME NEW j \in CPU PROVE SetInv(j)' /\ FreshInv(j)'
  <2>1. CASE j = i
    BY <1>3, <2>1 DEF SetInv, FreshInv, Linking, Setting, Writing
  <2>2. CASE j # i
    BY <1>1, <1>3, <2>2, OtherSet, OtherFresh DEF MapInv
  <2> QED
    BY <2>1, <2>2
<1>5. ASSUME NEW j \in CPU, Broken(j) PROVE Broken(j)' /\ op'[j] = op[j]
  <2>1. j # i
    BY <1>1, <1>5 DEF Broken
  <2> QED
    BY <1>3, <1>5, <2>1, OtherBroken
<1>6. Mapped(x)'
  <2>1. Mapped(s)
    BY DEF MapInv
  <2>2. ASSUME NEW a \in VA
        PROVE  TransIn(x, a) = want'[a] \/ \E j \in CPU : Broken(j)' /\ a \in AskedFor(op'[j])
    <3>1. TransIn(s, a) = want[a] \/ \E j \in CPU : Broken(j) /\ a \in AskedFor(op[j])
      BY <2>1 DEF Mapped
    <3> QED
      BY <1>1, <1>2, <1>5, <3>1
  <2> QED
    BY <1>2, <2>1, <2>2 DEF Mapped
<1>7. LayoutsApart => ApartInv(x)'
  BY <1>2
<1> QED
  BY <1>4, <1>6, <1>7 DEF MapInv

LEMMA SetRangeMapped ==
  ASSUME NEW s, NEW lev, Inv(s, lev), MapInv(s), SetRange, NEW x, x = mem'
  PROVE  MapInv(x)'
<1>1. stage # 0 /\ Continues(stage) /\ RangeInv
  BY DEF SetRange, MapInv, Inv, TypeOK
<1>2. PICK l : l = LevelOf[stage]
  OBVIOUS
<1>3. /\ va \in Nat /\ pa \in Nat /\ stage \in 1 .. 5 /\ phase = "init"
      /\ regions # <<>> /\ 1 \in DOMAIN regions
      /\ regions[1].va_start \in Nat /\ regions[1].va_end \in Nat
  BY <1>1, FirstRegion
<1>4. /\ l \in 1 .. 3 /\ va + SIZE(l) <= regions[1].va_end
      /\ regions[1].va_end <= Fanout * SIZE(0)
      /\ Aligned(va, l) /\ Aligned(pa, l)
  BY <1>1, <1>2, RangeTurn
<1>5. PICK z \in Nat \ {0} : z = SIZE(l)
  BY <1>4, SizeStep DEF Level
<1>6. PICK c : c = SetCall(va, pa, l)
  OBVIOUS
<1>7. /\ Request(Boss, c) /\ va' = va + z /\ pa' = pa + z /\ UNCHANGED <<regions, stage>>
      /\ phase' = phase /\ mem' = mem /\ want' = want /\ pc[Boss] = "idle" /\ pc'[Boss] = "lock" /\ op'[Boss] = c
  <2>1. /\ Request(Boss, c) /\ va' = va + z /\ pa' = pa + z /\ UNCHANGED <<regions, stage>>
    BY <1>2, <1>5, <1>6 DEF SetRange
  <2> QED
    BY <2>1, VmmAssumption DEF Request, Goto, steps, Inv, TypeOK, FunInv
<1>8. c.va = va /\ c.pa = pa /\ c.to = l /\ c.kind = "set"
  BY <1>6 DEF SetCall
<1>9. PICK e \in Nat, t \in Nat : e = regions[1].va_end /\ t = Fanout * SIZE(0)
  BY <1>3, AddressBound
<1>10. va \in VA /\ va + z <= e /\ e <= t
  BY <1>3, <1>4, <1>5, <1>9, AddressBound
<1>11. SetRight(c)
  BY <1>3, <1>4, <1>5, <1>8, <1>9, <1>10 DEF SetRight
<1>12. RangeInv'
  <2>1. \A n \in DOMAIN regions' : regions'[n].va_end <= Fanout * SIZE(0)
    BY <1>1, <1>7 DEF RangeInv
  <2>2. Aligned(va + z, l) /\ Aligned(pa + z, l)
    BY <1>3, <1>4, <1>5, AlignedSum DEF Level
  <2>3. (stage = 2 => l = 2) /\ (stage = 3 => l = 1) /\ (stage = 4 => l = 2)
    BY <1>2 DEF LevelOf
  <2>4. BothAligned(va + z, pa + z, l)
    BY <2>2 DEF BothAligned
  <2>5. /\ stage' = 2 => BothAligned(va, pa, 2)'
        /\ stage' = 3 => BothAligned(va, pa, 1)'
        /\ stage' = 4 => BothAligned(va, pa, 2)'
    BY <1>7, <2>2, <2>3 DEF BothAligned
  <2> QED
    BY <2>1, <2>5 DEF RangeInv
<1>13. ASSUME LayoutsApart PROVE ApartInv(s)'
  <2>1. ApartInv(s)
    BY <1>13 DEF MapInv
  <2>2. Building /\ Building'
    BY <1>3, <1>7 DEF Building
  <2>3. regions[1].va_start <= va /\ regions[1].va_start <= va'
    BY <1>1, <1>3, <1>5, <1>7, <2>1 DEF ApartInv
  <2>4. ASSUME NEW a \in VA, Rest(a)' PROVE Rest(a) /\ ~ (a < va + z /\ va <= a)
    <3>1. a \in Nat
      BY AddressBound
    <3>2. PICK n \in DOMAIN regions : In(regions[n], a) /\ (n = 1 => va + z <= a)
      BY <1>1, <1>7, <2>4 DEF Rest
    <3>3. Rest(a)
      BY <1>3, <1>5, <3>1, <3>2 DEF Rest
    <3>4. ASSUME a < va + z, va <= a PROVE FALSE
      <4>1. In(regions[1], a)
        BY <1>3, <1>9, <1>10, <2>3, <3>1, <3>4 DEF In
      <4>2. n = 1
        BY <1>3, <2>1, <3>2, <4>1 DEF ApartInv
      <4> QED
        BY <1>3, <1>5, <3>1, <3>2, <3>4, <4>2
    <3> QED
      BY <3>3, <3>4
  <2>5. ASSUME NEW a \in AskedFor(c) PROVE want[a] = -1 /\ ~ Rest(a)' /\ a \notin ToSet(Heap)
    <3>1. a \in VA /\ va <= a /\ a < va + z
      BY <1>5, <1>8 DEF AskedFor
    <3>2. a \in Nat
      BY <3>1, AddressBound
    <3>3. In(regions[1], a)
      BY <1>3, <1>9, <1>10, <2>3, <3>1, <3>2 DEF In
    <3>4. Rest(a)
      BY <1>3, <3>1, <3>3 DEF Rest
    <3> QED
      BY <1>3, <2>1, <2>4, <3>1, <3>3, <3>4 DEF ApartInv
  <2>6. c.pa # Unmapped
    BY <1>3, <1>8 DEF Unmapped
  <2>7. \A a \in VA, l2 \in 1 .. 3 : TablesIn(s, a)[l2] # -1 => \E b \in VA : Near(a, b, l2 - 1) /\ want[b] # -1
    BY <1>7, <2>1, <2>2 DEF ApartInv
  <2>8. \A a \in VA : Rest(a)' => want'[a] = -1
    BY <1>7, <2>1, <2>4 DEF ApartInv
  <2>9. /\ \A n, m \in DOMAIN regions' : \A a \in VA : In(regions'[n], a) /\ In(regions'[m], a) => n = m
        /\ \A n \in DOMAIN regions', v \in ToSet(Heap) : ~ In(regions'[n], v)
        /\ \A v \in ToSet(Heap) : want'[v] # -1 => TablesIn(s, v)[3] # -1
    BY <1>7, <2>1 DEF ApartInv
  <2>10. /\ stage' # 0 => regions'[1].va_start <= va'
         /\ IF Building' THEN
              /\ op'[Boss].pa # Unmapped
              /\ \A a \in AskedFor(op'[Boss]) : want'[a] = -1 /\ ~ Rest(a)' /\ a \notin ToSet(Heap)
            ELSE op'[Boss].va \in ToSet(Heap) /\ op'[Boss].to = 3
    BY <1>7, <2>2, <2>3, <2>5, <2>6
  <2>11. \A a \in VA, l2 \in 1 .. 3 : TablesIn(s, a)[l2] # -1 =>
           \E b \in VA : /\ Near(a, b, l2 - 1)
                         /\ want'[b] # -1 \/ (pc'[Boss] # "idle" /\ b = op'[Boss].va /\ l2 <= op'[Boss].to)
    BY <1>7, <2>7
  <2> QED
    BY <2>8, <2>9, <2>10, <2>11 DEF ApartInv
<1>14. Boss \in CPU /\ c.va \in VA /\ phase \in {"init", "setup"}
  BY <1>3, <1>8, <1>10, VmmAssumption
<1> QED
  BY <1>7, <1>11, <1>12, <1>13, <1>14, RequestMapped

LEMMA SetInitPteMapped ==
  ASSUME NEW s, NEW lev, Inv(s, lev), MapInv(s), NEW v \in todo, SetInitPte(v), NEW x, x = mem'
  PROVE  MapInv(x)'
<1>1. /\ phase = "init" /\ stage = 0 /\ regions = <<>> /\ v \in ToSet(Heap)
      /\ UNCHANGED <<regions, va, pa, stage>>
  BY DEF SetInitPte, Inv, TypeOK
<1>2. PICK p \in Settings[v] : Request(Boss, SetCall(v, p, 3))
  BY DEF SetInitPte
<1>3. PICK c : c = SetCall(v, p, 3)
  OBVIOUS
<1>4. c.va = v /\ c.pa = p /\ c.to = 3 /\ c.kind = "set"
  BY <1>3 DEF SetCall
<1>5. v \in VA /\ v \in Nat /\ p \in Nat \cup {-1}
  BY <1>1, HeapIsVA, AddressBound, VmmAssumption
<1>6. Request(Boss, c)
  BY <1>2, <1>3
<1>7. phase' = phase /\ mem' = mem /\ want' = want /\ pc[Boss] = "idle" /\ pc'[Boss] = "lock" /\ op'[Boss] = c
  BY <1>6, VmmAssumption DEF Request, Goto, steps, Inv, TypeOK, FunInv
<1>8. SetRight(c)
  <2>1. PICK t \in Nat : t = Fanout * SIZE(0)
    BY AddressBound
  <2>2. v < t
    BY <1>5, <2>1, AddressBound
  <2>3. v + 1 <= t
    BY <1>5, <2>1, <2>2
  <2>4. Aligned(v, 3) /\ (p # Unmapped => Aligned(p, 3))
    BY <1>5, Pages DEF Unmapped
  <2> QED
    BY <1>4, <2>1, <2>3, <2>4, SizeStep DEF SetRight
<1>9. RangeInv'
  BY <1>1, RangeSame DEF MapInv
<1>10. ASSUME LayoutsApart PROVE ApartInv(s)'
  <2>1. ApartInv(s)
    BY <1>10 DEF MapInv
  <2>2. ~ Building /\ ~ Building'
    BY <1>1 DEF Building
  <2>3. \A a : Rest(a)' <=> Rest(a)
    BY <1>1 DEF Rest
  <2> QED
    BY <1>1, <1>4, <1>7, <2>1, <2>2, <2>3 DEF ApartInv
<1>11. Boss \in CPU /\ c.va \in VA /\ phase \in {"init", "setup"}
  BY <1>1, <1>4, <1>5, VmmAssumption
<1> QED
  BY <1>6, <1>8, <1>9, <1>10, <1>11, RequestMapped

LEMMA VarIsVA ==
  ASSUME NEW n \in Nat, n < 4 * Len(Heap)
  PROVE  VarOf(n) \in ToSet(Heap) /\ VarOf(n) \in VA
<1>1. Len(Heap) \in Nat /\ Heap \in Seq(Nat)
  BY VmmAssumption
<1>2. (n \div 4) + 1 \in 1 .. Len(Heap)
  BY <1>1
<1>3. VarOf(n) \in ToSet(Heap)
  BY <1>1, <1>2 DEF VarOf, ToSet
<1> QED
  BY <1>3, HeapIsVA

LEMMA LookupCallMapped ==
  ASSUME NEW s, NEW lev, NEW i \in CPU, Inv(s, lev), MapInv(s), Lookup(i), NEW x, x = mem'
  PROVE  MapInv(x)'
<1>1. PICK n : n = Len(ptrs[i])
  OBVIOUS
<1>2. PICK c : c = [kind |-> "lookup", va |-> VarOf(n), to |-> 3, walk |-> LevelAt(n)]
  OBVIOUS
<1>3. phase = "setup" /\ n # 4 * Len(Heap) /\ Request(i, c) /\ UNCHANGED <<regions, va, pa, stage>>
  BY <1>1, <1>2 DEF Lookup, SetUp, boss
<1>4. FunInv /\ PtrInv(s, i) /\ BossInv
  BY DEF Inv
<1>5. n \in Nat /\ Len(Heap) \in Nat
  BY <1>1, <1>4, VmmAssumption DEF FunInv
<1>6. n < 4 * Len(Heap)
  BY <1>1, <1>3, <1>4, <1>5 DEF PtrInv
<1>7. c.va \in VA /\ c.kind # "set"
  BY <1>2, <1>5, <1>6, VarIsVA
<1>8. RangeInv'
  BY <1>3, RangeSame DEF MapInv
<1>9. phase' = phase /\ want' = want
  BY <1>3 DEF Request, steps
<1>10. ~ Building
  BY <1>3, <1>4 DEF Building, BossInv
<1>11. LayoutsApart => ApartInv(s)'
  <2>1. \A a \in VA : SameWalk(s, s, a)
    BY WalkItself
  <2> QED
    BY <1>3, <1>9, <1>10, <2>1, ApartSame DEF MapInv
<1>12. phase \in {"init", "setup"}
  BY <1>3
<1> QED
  BY <1>3, <1>7, <1>8, <1>11, <1>12, RequestMapped

-----------------------------------------------------------------------------
(* From region to region. *)
LEMMA BossMapped ==
  ASSUME NEW s, NEW lev, Inv(s, lev), MapInv(s), phase = "init",
         UNCHANGED <<mem, want, steps, pc, op, regs, saved>>,
         RangeInv', LayoutsApart => ApartInv(s)', NEW x, x = mem'
  PROVE  MapInv(x)'
<1>1. /\ mem' = mem /\ want' = want /\ phase' = phase /\ level' = level /\ table' = table
      /\ at' = at /\ new' = new /\ ptrs' = ptrs /\ descs' = descs /\ pc' = pc /\ op' = op
  BY DEF steps, regs, saved
<1>2. x = s
  BY <1>1 DEF Inv, CleanInv
<1>3. \A j \in CPU : Same(j)
  BY <1>1 DEF Same
<1>4. ASSUME NEW j \in CPU PROVE SetInv(j)' /\ FreshInv(j)'
  BY <1>1, <1>3, OtherSet, OtherFresh DEF MapInv
<1>5. ASSUME NEW j \in CPU PROVE (Broken(j)' <=> Broken(j)) /\ op'[j] = op[j]
  BY <1>3, OtherBroken
<1>6. Mapped(x)'
  <2>1. Mapped(s)
    BY DEF MapInv
  <2>2. ASSUME NEW a \in VA
        PROVE  TransIn(x, a) = want'[a] \/ \E j \in CPU : Broken(j)' /\ a \in AskedFor(op'[j])
    <3>1. TransIn(s, a) = want[a] \/ \E j \in CPU : Broken(j) /\ a \in AskedFor(op[j])
      BY <2>1 DEF Mapped
    <3> QED
      BY <1>1, <1>2, <1>5, <3>1
  <2> QED
    BY <1>2, <2>1, <2>2 DEF Mapped
<1> QED
  BY <1>2, <1>4, <1>6 DEF MapInv

LEMMA MapMapped ==
  ASSUME NEW s, NEW lev, Inv(s, lev), MapInv(s), Map, NEW x, x = mem'
  PROVE  MapInv(x)'
<1>1. /\ pc[Boss] = "idle" /\ stage = 0 /\ regions # <<>> /\ va' = regions[1].va_start /\ stage' = 1
      /\ regions' = regions /\ UNCHANGED <<mem, want, steps, pc, op, regs, saved>>
  BY DEF Map
<1>2. phase = "init" /\ BossInv
  BY <1>1 DEF Inv, BossInv, TypeOK
<1>3. regions[1].va_start \in Nat /\ 1 \in DOMAIN regions
  <2> DEFINE R == [va_start : Nat, va_end : Nat, pa_start : Nat]
  <2>1. regions \in Seq(R)
    BY <1>2 DEF BossInv
  <2>2. regions[1] \in R /\ 1 \in DOMAIN regions
    <3> HIDE DEF R
    <3> QED
      BY <1>1, <2>1
  <2> QED
    BY <2>2
<1>4. RangeInv'
  BY <1>1 DEF MapInv, RangeInv
<1>5. ASSUME LayoutsApart PROVE ApartInv(s)'
  <2>1. ApartInv(s)
    BY <1>5 DEF MapInv
  <2>2. \A a \in VA : Rest(a)' => Rest(a)
    BY <1>1 DEF Rest
  <2>3. Building' <=> Building
    BY <1>1 DEF Building
  <2>4. regions'[1].va_start <= va' /\ pc'[Boss] = "idle" /\ want' = want
    BY <1>1, <1>3
  <2> QED
    BY <1>1, <2>1, <2>2, <2>3, <2>4 DEF ApartInv
<1> QED
  BY <1>1, <1>2, <1>4, <1>5, BossMapped

LEMMA EndLoopMapped ==
  ASSUME NEW s, NEW lev, Inv(s, lev), MapInv(s), EndLoop, NEW x, x = mem'
  PROVE  MapInv(x)'
<1>1. /\ pc[Boss] = "idle" /\ stage # 0 /\ stage' = (stage + 1) % 6 /\ va' = va
      /\ regions' = IF stage = 5 THEN Tail(regions) ELSE regions
      /\ UNCHANGED <<mem, want, steps, pc, op, regs, saved>> /\ want' = want /\ pc' = pc
  BY DEF EndLoop, Inv, TypeOK
<1>2. stage \in 1 .. 5 /\ phase = "init" /\ regions # <<>> /\ BossInv
  BY <1>1, FirstRegion DEF Inv
<1>3. RangeInv'
  BY EndOfLoop DEF MapInv
<1>4. ASSUME LayoutsApart PROVE ApartInv(s)'
  <2>1. ApartInv(s) /\ Building /\ pc'[Boss] = "idle"
    BY <1>1, <1>2, <1>4 DEF MapInv, Building
  <2>2. CASE stage # 5
    <3>1. regions' = regions /\ stage' # 0
      BY <1>1, <1>2, <2>2
    <3>2. \A a : Rest(a)' <=> Rest(a)
      BY <1>1, <3>1 DEF Rest
    <3>3. Building'
      BY <2>1, <3>1 DEF Building
    <3>4. \A a \in VA : Rest(a)' => want'[a] = -1
      BY <1>1, <2>1, <3>2 DEF ApartInv
    <3> QED
      BY <1>1, <2>1, <3>1, <3>3, <3>4 DEF ApartInv
  <2>3. CASE stage = 5
    <3> DEFINE R == [va_start : Nat, va_end : Nat, pa_start : Nat]
    <3>1. regions \in Seq(R)
      BY <1>2 DEF BossInv
    <3> HIDE DEF R
    <3>2. regions' = Tail(regions) /\ stage' = 0
      BY <1>1, <2>3
    <3>3. ASSUME NEW n \in DOMAIN regions'
          PROVE  n + 1 \in DOMAIN regions /\ n + 1 # 1 /\ regions'[n] = regions[n + 1] /\ n \in Nat
      BY <1>2, <3>1, <3>2
    <3>4. ASSUME NEW a \in VA, Rest(a)' PROVE want'[a] = -1
      <4>1. PICK n \in DOMAIN regions' : In(regions'[n], a)
        BY <3>4 DEF Rest
      <4>2. Rest(a)
        BY <3>3, <4>1 DEF Rest
      <4> QED
        BY <1>1, <2>1, <4>2 DEF ApartInv
    <3>5. ASSUME NEW n \in DOMAIN regions', NEW m \in DOMAIN regions', NEW a \in VA,
                 In(regions'[n], a), In(regions'[m], a)
          PROVE  n = m
      <4>1. n + 1 = m + 1
        BY <2>1, <3>3, <3>5 DEF ApartInv
      <4> QED
        BY <3>3, <4>1
    <3>6. \A n \in DOMAIN regions', v \in ToSet(Heap) : ~ In(regions'[n], v)
      BY <2>1, <3>3 DEF ApartInv
    <3>7. /\ \A v \in ToSet(Heap) : want'[v] # -1 => TablesIn(s, v)[3] # -1
          /\ \A a \in VA, l \in 1 .. 3 : TablesIn(s, a)[l] # -1 => \E b \in VA : Near(a, b, l - 1) /\ want'[b] # -1
      BY <1>1, <2>1 DEF ApartInv
    <3> QED
      BY <2>1, <3>2, <3>4, <3>5, <3>6, <3>7 DEF ApartInv
  <2> QED
    BY <2>2, <2>3
<1> QED
  BY <1>1, <1>2, <1>3, <1>4, BossMapped

-----------------------------------------------------------------------------
(* The barriers, and clean_run_data. *)
LEMMA RestMapped ==
  ASSUME NEW s, MapInv(s), UNCHANGED <<regions, va, pa, stage, want>>,
         \A j \in CPU : pc[j] = "idle" \/ op[j] = RestoreCall,
         \A j \in CPU : pc'[j] = "idle" \/ (phase' = "clean" /\ op'[j] = RestoreCall /\ ~ Linking(j)'),
         ~ Building \/ pc[Boss] = "idle"
  PROVE  MapInv(s)'
<1>1. \A a \in VA : SameWalk(s, s, a)
  BY WalkItself
<1>2. \A j \in CPU : ~ Broken(j)
  BY DEF Broken, Setting, RestoreCall
<1>3. \A j \in CPU : SetInv(j)' /\ FreshInv(j)'
  BY DEF SetInv, FreshInv, RestoreCall, Linking, Writing
<1>4. pc'[Boss] # "idle" => phase' # "init"
  BY VmmAssumption
<1> QED
  BY <1>1, <1>2, <1>3, <1>4, Kept

LEMMA AllocatedMapped ==
  ASSUME NEW s, NEW lev, Inv(s, lev), MapInv(s), Allocated, NEW x, x = mem'
  PROVE  MapInv(x)'
<1>1. /\ phase = "init" /\ pc[Boss] = "idle" /\ mem' = mem /\ pc' = pc
      /\ UNCHANGED <<regions, va, pa, stage, want>>
  BY DEF Allocated, boss
<1>2. \A j \in CPU : pc[j] = "idle"
  BY <1>1 DEF Inv, CallInv
<1>3. x = s
  BY <1>1 DEF Inv, CleanInv
<1> QED
  BY <1>1, <1>2, <1>3, RestMapped

LEMMA TestMapped ==
  ASSUME NEW s, MapInv(s), NEW n, NEW e, Test(n, e)
  PROVE  MapInv(s)'
<1>1. /\ \A j \in CPU : pc[j] = "idle" /\ pc'[j] = "idle"
      /\ UNCHANGED <<regions, va, pa, stage, want>>
  BY DEF Test, boss
<1> QED
  BY <1>1, RestMapped, VmmAssumption

LEMMA CleaningMapped ==
  ASSUME NEW s, NEW lev, Inv(s, lev), MapInv(s), Inv(s, lev)', phase = "clean", phase' = "clean",
         UNCHANGED <<regions, va, pa, stage, want>>
  PROVE  MapInv(s)'
<1>1. \A j \in CPU : pc[j] = "idle" \/ op[j] = RestoreCall
  BY DEF Inv, CallInv, Calls
<1>2. ASSUME NEW j \in CPU, pc'[j] # "idle" PROVE op'[j] = RestoreCall /\ ~ Linking(j)'
  <2>1. op'[j] = RestoreCall /\ level'[j] \in Level
    BY <1>2 DEF Inv, TypeOK, CallInv, Calls
  <2> QED
    BY <2>1 DEF Linking, Ensuring, RestoreCall, Level
<1>3. ~ Building
  BY DEF Inv, BossInv, Building
<1> QED
  BY <1>1, <1>2, <1>3, RestMapped

LEMMA CleanedMapped ==
  ASSUME NEW s, NEW lev, Inv(s, lev), MapInv(s), Cleaned
  PROVE  MapInv(s)'
<1>1. /\ \A j \in CPU : pc[j] = "idle" /\ pc'[j] = "idle"
      /\ UNCHANGED <<regions, va, pa, stage, want>>
  BY DEF Cleaned
<1> QED
  BY <1>1, RestMapped, VmmAssumption

-----------------------------------------------------------------------------
(* In the beginning nothing is mapped, and no regions have been begun. *)
LEMMA InitMapped ==
  ASSUME Init, NEW s, s = mem
  PROVE  MapInv(s)
<1>1. /\ s = [p \in Page |-> [k \in Index |-> Invalid0]] /\ regions \in Layouts /\ stage = 0
      /\ pc = [i \in CPU |-> "idle"] /\ want = [a \in VA |-> -1]
  BY DEF Init
<1>2. ASSUME NEW a \in VA, NEW l \in 1 .. 3 PROVE TablesIn(s, a)[l] = -1
  <2>1. /\ TablesIn(s, a)[0] = Root
        /\ \A h \in 1 .. 3 : TablesIn(s, a)[h] = Down(s, a, h - 1, TablesIn(s, a)[h - 1])
    BY TablesFacts
  <2>2. OFFS(a, 0) \in Index /\ Root \in Page
    <3>1. a \in Nat /\ 0 \in Level
      BY AddressBound DEF Level
    <3> QED
      BY <3>1, Offsets, VmmAssumption DEF Page, Root
  <2>3. s[Root][OFFS(a, 0)] = Invalid0 /\ ~ Invalid0.valid /\ Root # -1
    BY <1>1, <2>2 DEF Invalid0, Root
  <2>4. TablesIn(s, a)[1] = -1
    BY <2>1, <2>3 DEF Down
  <2>5. TablesIn(s, a)[2] = -1
    BY <2>1, <2>4 DEF Down
  <2>6. TablesIn(s, a)[3] = -1
    BY <2>1, <2>5 DEF Down
  <2> QED
    BY <2>4, <2>5, <2>6
<1>3. Mapped(s)
  <2>1. \A a \in VA, l \in 1 .. 3 : ~ LeafIn(s, a, l)
    BY <1>2 DEF LeafIn
  <2>2. \A a \in VA : TransIn(s, a) = want[a]
    BY <1>1, <2>1 DEF TransIn
  <2> QED
    BY <1>2, <2>2 DEF Mapped, Tree
<1>4. RangeInv
  BY <1>1, AddressAssumption DEF RangeInv
<1>5. ASSUME LayoutsApart PROVE ApartInv(s)
  <2>1. /\ \A n, m \in DOMAIN regions : \A a \in VA : In(regions[n], a) /\ In(regions[m], a) => n = m
        /\ \A n \in DOMAIN regions, v \in ToSet(Heap) : ~ In(regions[n], v)
    BY <1>1, <1>5 DEF LayoutsApart
  <2>2. pc[Boss] = "idle" /\ \A a \in VA : want[a] = -1
    BY <1>1, VmmAssumption
  <2>3. \A v \in ToSet(Heap) : want[v] = -1
    BY <2>2, HeapIsVA
  <2> QED
    BY <1>1, <1>2, <2>1, <2>2, <2>3 DEF ApartInv
<1>6. \A i \in CPU : SetInv(i) /\ FreshInv(i)
  BY <1>1 DEF SetInv, FreshInv, Linking, Writing
<1> QED
  BY <1>3, <1>4, <1>5, <1>6 DEF MapInv

(* Where the regions are apart, no call meets a block above its level, or  *)
(* a table where it is to put a block.                                     *)
LEMMA ApartUnsplit ==
  ASSUME NEW s, NEW lev, Inv(s, lev), MapInv(s), LayoutsApart
  PROVE  Unsplit
<1>0. ApartInv(s) /\ \A j \in CPU : SetInv(j) /\ CallInv(j)
  BY DEF MapInv, Inv
<1>1. ASSUME NEW i \in CPU, pc[i] = "level", Ensuring(i), IsBlock(Desc(i), level[i]) PROVE FALSE
  <2>1. phase \in {"init", "setup"} /\ OnPath(i) /\ pc[i] # "idle"
    BY <1>1, PhaseOf DEF OnPath
  <2>2. PICK a \in VA : a = op[i].va
    BY <1>0, <2>1 DEF SetInv
  <2>3. a \in Nat
    BY AddressBound
  <2>4. op[i].to \in 1 .. 3 /\ (op[i].kind = "set" <=> phase = "init")
    BY <1>0, <2>1, CallFacts
  <2>5. /\ level[i] \in Level /\ table[i] \in Page /\ table[i] = TablesIn(mem, a)[level[i]]
        /\ Desc(i) \in Entry /\ Desc(i) = mem[table[i]][OFFS(a, level[i])]
        /\ mem = s /\ Good(mem, next, lev) /\ next \in 1 .. MaxPages + 1
    BY <2>1, <2>2, Here
  <2>6. PICK l \in 1 .. 2 : l = level[i]
    BY <1>1, <2>4, <2>5 DEF Ensuring, IsBlock, IsTable, Level
  <2>7. Desc(i).valid /\ ~ Desc(i).bit1
    BY <1>1, <2>6 DEF IsBlock, IsTable
  <2>8. PICK e : e = mem[TablesIn(mem, a)[l]][OFFS(a, l)]
    OBVIOUS
  <2>9. e = Desc(i) /\ l \in 1 .. 3 /\ l \in Level
    BY <2>5, <2>6, <2>8 DEF Level
  <2>10. Ends(mem, a, l)
    BY <2>5, <2>6, <2>7, <2>8, <2>9 DEF Ends, Tab, Page
  <2>11. TransIn(mem, a) = LeafAt(e, a, l)
    BY <2>3, <2>5, <2>8, <2>9, <2>10, TransAt
  <2>12. TransIn(mem, a) # -1
    <3>1. e.valid /\ e.bit1 = FALSE /\ e.addr \in Nat /\ (l = 3) = FALSE
      BY <2>5, <2>6, <2>7, <2>9 DEF Entry
    <3>2. AlignTo(e.addr, l) \in Nat
      BY <2>9, <3>1, Offsets
    <3>3. a % SIZE(l) \in Nat
      <4>1. PICK z \in Nat \ {0} : z = SIZE(l)
        BY <2>9, SizeStep
      <4>2. a % z \in 0 .. z - 1
        BY <2>3, <4>1, Remainder
      <4> QED
        BY <4>1, <4>2
    <3>4. LeafAt(e, a, l) = AlignTo(e.addr, l) + (a % SIZE(l))
      BY <3>1 DEF LeafAt
    <3> QED
      BY <2>11, <3>2, <3>3, <3>4
  <2>13. want[a] # -1
    <3>1. \A j \in CPU : ~ Broken(j)
      BY <1>1, <2>1, Alone DEF Broken, Writing
    <3> QED
      BY <2>5, <2>12, <3>1 DEF MapInv, Mapped
  <2>14. TablesIn(mem, a)[3] = -1
    BY <2>3, <2>5, <2>6, <2>9, <2>10, End
  <2>15. a \notin ToSet(Heap)
    BY <1>0, <2>5, <2>13, <2>14 DEF ApartInv
  <2>16. phase = "init" /\ i = Boss
    <3>1. phase # "setup"
      <4>1. ASSUME phase = "setup" PROVE FALSE
        <5>1. Len(ptrs[i]) < 4 * Len(Heap) /\ a = VarOf(Len(ptrs[i]))
          BY <1>0, <2>1, <2>2, <4>1 DEF CallInv
        <5>2. Len(ptrs[i]) \in Nat
          BY DEF Inv, FunInv
        <5> QED
          BY <2>15, <5>1, <5>2, VarIsVA
      <4> QED
        BY <4>1
    <3> QED
      BY <1>0, <2>1, <3>1 DEF CallInv
  <2>17. Building /\ \A b \in AskedFor(op[i]) : want[b] = -1
    BY <1>0, <2>1, <2>2, <2>15, <2>16 DEF ApartInv
  <2>18. SetRight(op[i])
    BY <1>0, <2>1, <2>4, <2>16 DEF SetInv
  <2>19. a \in AskedFor(op[i])
    BY <2>2, <2>4, <2>18, Asked
  <2> QED
    BY <2>13, <2>17, <2>19
<1>2. ASSUME NEW i \in CPU, pc[i] = "walk", op[i].kind = "set", level[i] = op[i].to, Walking(i) PROVE FALSE
  <2>1. phase \in {"init", "setup"} /\ OnPath(i) /\ pc[i] # "idle"
    BY <1>2, PhaseOf DEF OnPath
  <2>2. op[i].to \in 1 .. 3 /\ op[i].walk = 3 /\ phase = "init"
    BY <1>0, <1>2, <2>1, CallFacts
  <2>3. i = Boss
    BY <1>0, <2>1, <2>2 DEF CallInv
  <2>4. PICK a \in VA : a = op[i].va
    BY <1>0, <2>1 DEF SetInv
  <2>5. IsTable(Desc(i), level[i]) /\ level[i] < 3
    BY <1>2, <2>2 DEF Walking
  <2>6. /\ Desc(i).addr \in Page /\ Desc(i).addr = TablesIn(mem, a)[level[i] + 1] /\ mem = s
    BY <2>1, <2>4, <2>5, Here
  <2>7. PICK l \in 1 .. 3 : l = level[i] + 1 /\ l - 1 = op[i].to
    BY <1>2, <2>2, <2>5
  <2>8. TablesIn(s, a)[l] # -1
    BY <2>6, <2>7 DEF Page
  <2>9. Building /\ \A b \in AskedFor(op[i]) : want[b] = -1
    BY <1>0, <1>2, <2>1, <2>2, <2>3, <2>5 DEF ApartInv
  <2>10. PICK b \in VA : Near(a, b, l - 1) /\ want[b] # -1
    <3>1. ~ (l <= op[i].to)
      BY <2>2, <2>7
    <3> QED
      BY <1>0, <2>3, <2>8, <2>9, <3>1 DEF ApartInv
  <2>11. Near(b, a, op[i].to)
    BY <2>7, <2>10 DEF Near
  <2>12. SetRight(op[i])
    BY <1>0, <1>2, <2>1 DEF SetInv
  <2>13. b \in AskedFor(op[i])
    BY <2>2, <2>4, <2>11, <2>12, Asked
  <2> QED
    BY <2>9, <2>10, <2>13
<1> QED
  BY <1>1, <1>2 DEF Unsplit

-----------------------------------------------------------------------------
(* All together. *)
MInv == \E s \in [Page -> [Index -> Entry]], lev \in [Page -> Level] : Inv(s, lev) /\ MapInv(s)

LEMMA StepMapped ==
  ASSUME NEW s, NEW lev, NEW i \in CPU, Inv(s, lev), MapInv(s), phase \in {"init", "setup"}, Unsplit,
         Step(i), NEW x, x = mem'
  PROVE  MapInv(x)'
<1>1. CASE Lookup(i)
  BY <1>1, LookupCallMapped
<1>2. CASE Lock(i) \/ Descend(i)
  BY <1>2, LockMapped
<1>3. CASE NewTable(i)
  BY <1>3, NewTableMapped
<1>4. CASE Unlock(i)
  BY <1>4, UnlockMapped
<1>5. CASE Read(i) \/ Flush(i)
  BY <1>5, ReadMapped
<1>6. CASE Break(i)
  BY <1>6, BreakMapped
<1>7. CASE Link(i)
  BY <1>7, LinkMapped
<1>8. CASE Set(i)
  BY <1>8, SetMapped
<1>9. CASE Restore(i)
  <2>1. op[i].kind = "restore" /\ pc[i] # "idle"
    BY <1>9 DEF Restore, Goto
  <2> QED
    BY <2>1, PhaseOf
<1>10. CASE Walk(i)
  BY <1>10, WalkMapped
<1>11. CASE WalkedSet(i)
  BY <1>11, WalkedSetMapped
<1>12. CASE WalkedLookup(i) \/ Save(i)
  BY <1>12, LookupMapped
<1>13. CASE Clean(i)
  BY <1>13 DEF Clean
<1> QED
  BY <1>1, <1>2, <1>3, <1>4, <1>5, <1>6, <1>7, <1>8, <1>9, <1>10, <1>11, <1>12, <1>13 DEF Step

LEMMA StepCleaning ==
  ASSUME NEW s, NEW lev, NEW i \in CPU, Inv(s, lev), MapInv(s), phase = "clean", Step(i)
  PROVE  Inv(s, lev)' /\ MapInv(s)'
<1>1. /\ pc[i] \notin {"lock", "level", "walk", "save"}
      /\ Ensuring(i) => pc[i] = "idle"
      /\ op[i].kind = "set" => pc[i] = "idle"
  BY PhaseOf
<1>2. Read(i) \/ Break(i) \/ Flush(i) \/ Restore(i) \/ Clean(i)
  BY <1>1 DEF Step, Lookup, Lock, Descend, NewTable, Unlock, Link, Set, Walk, WalkedSet, WalkedLookup,
       Save, Goto
<1>3. Inv(s, lev)'
  BY <1>2, CleanRead, CleanBreak, CleanFlush, CleanRestore, CleanStep
<1>4. phase' = "clean" /\ UNCHANGED <<regions, va, pa, stage, want>>
  BY <1>2 DEF Read, Break, Flush, Restore, Clean, boss, steps
<1> QED
  BY <1>3, <1>4, CleaningMapped

LEMMA StutterMapped ==
  ASSUME NEW s, MapInv(s), UNCHANGED vars
  PROVE  MapInv(s)'
<1>1. /\ UNCHANGED <<mem, regions, va, pa, stage, phase, pc, op, want>>
      /\ UNCHANGED <<level, table, at, new, ptrs, descs>>
  BY DEF vars, boss, steps, regs, saved
<1>2. \A a \in VA : SameWalk(s, s, a)
  BY WalkItself
<1>3. \A j \in CPU : Same(j)
  BY <1>1 DEF Same
<1>4. ASSUME NEW j \in CPU PROVE SetInv(j)' /\ FreshInv(j)'
  BY <1>1, <1>3, OtherSet, OtherFresh DEF MapInv
<1>5. ASSUME NEW j \in CPU PROVE (Broken(j)' <=> Broken(j)) /\ op'[j] = op[j]
  BY <1>3, OtherBroken
<1>6. pc'[Boss] = pc[Boss] /\ op'[Boss] = op[Boss] /\ phase' = phase
  BY <1>1
<1> QED
  BY <1>1, <1>2, <1>4, <1>5, <1>6, Kept

LEMMA MInvInit == Init => MInv
<1> SUFFICES ASSUME Init PROVE MInv
  OBVIOUS
<1>1. PICK s \in [Page -> [Index -> Entry]], lev \in [Page -> Level] : Inv(s, lev)
  BY IInvInit DEF IInv
<1>2. s = mem
  BY <1>1 DEF Inv, CleanInv, Init
<1>3. MapInv(s)
  BY <1>2, InitMapped
<1> QED
  BY <1>1, <1>3 DEF MInv

LEMMA MInvStep == MInv /\ Unsplit /\ [Next]_vars => MInv'
<1> SUFFICES ASSUME MInv, Unsplit, [Next]_vars PROVE MInv'
  OBVIOUS
<1>0. PICK s \in [Page -> [Index -> Entry]], lev \in [Page -> Level] : Inv(s, lev) /\ MapInv(s)
  BY DEF MInv
<1>1. PICK t \in [Page -> [Index -> Entry]], lev2 \in [Page -> Level] : Inv(t, lev2)'
  <2>1. IInv'
    BY <1>0, IInvStep DEF IInv
  <2> QED
    BY <2>1 DEF IInv
<1>2. phase' # "clean" => t = mem'
  BY <1>1 DEF Inv, CleanInv
<1>3. phase \in {"init", "setup", "clean"}
  BY <1>0 DEF Inv, TypeOK
<1>4. ASSUME phase' # "clean", MapInv(t)' PROVE MInv'
  BY <1>1, <1>4 DEF MInv
<1>5. ASSUME Inv(s, lev)', MapInv(s)' PROVE MInv'
  BY <1>5 DEF MInv
<1>6. CASE Map
  <2>1. phase' # "clean"
    BY <1>0, <1>6 DEF Map, steps, Inv, BossInv
  <2> QED
    BY <1>0, <1>2, <1>4, <1>6, <2>1, MapMapped
<1>7. CASE SetRange
  <2>1. phase' # "clean"
    <3>1. stage # 0 /\ phase' = phase
      BY <1>7 DEF SetRange, Request, steps
    <3> QED
      BY <1>0, <3>1 DEF Inv, BossInv
  <2> QED
    BY <1>0, <1>2, <1>4, <1>7, <2>1, SetRangeMapped
<1>8. CASE EndLoop
  <2>1. phase' # "clean"
    <3>1. stage # 0 /\ phase' = phase
      BY <1>0, <1>8 DEF EndLoop, steps, Inv, TypeOK
    <3> QED
      BY <1>0, <3>1 DEF Inv, BossInv
  <2> QED
    BY <1>0, <1>2, <1>4, <1>8, <2>1, EndLoopMapped
<1>9. CASE Allocated
  <2>1. phase' # "clean"
    BY <1>9 DEF Allocated
  <2> QED
    BY <1>0, <1>2, <1>4, <1>9, <2>1, AllocatedMapped
<1>10. CASE Cleaned
  <2>1. Inv(s, lev)' /\ MapInv(s)'
    BY <1>0, <1>10, CleanedStep, CleanedMapped
  <2> QED
    BY <1>5, <2>1
<1>11. CASE \E v \in todo : SetInitPte(v)
  <2>1. PICK v \in todo : SetInitPte(v)
    BY <1>11
  <2>2. phase' # "clean"
    BY <2>1 DEF SetInitPte, Request, steps
  <2> QED
    BY <1>0, <1>2, <1>4, <2>1, <2>2, SetInitPteMapped
<1>12. CASE \E n \in 1 .. Len(ptrs[Boss]) :
         \E e \in {Invalid0} \cup {BlockDesc(p, LevelAt(n - 1)) : p \in TestPages} : Test(n, e)
  <2>0. PICK n \in 1 .. Len(ptrs[Boss]) :
          \E e \in {Invalid0} \cup {BlockDesc(p, LevelAt(n - 1)) : p \in TestPages} : Test(n, e)
    BY <1>12
  <2>1. PICK e \in {Invalid0} \cup {BlockDesc(p, LevelAt(n - 1)) : p \in TestPages} : Test(n, e)
    BY <2>0
  <2>2. Inv(s, lev)' /\ MapInv(s)'
    BY <1>0, <2>1, TestStep, TestMapped
  <2> QED
    BY <1>5, <2>2
<1>13. CASE \E i \in CPU : Step(i)
  <2>1. PICK i \in CPU : Step(i)
    BY <1>13
  <2>2. CASE phase = "clean"
    BY <1>0, <1>5, <2>1, <2>2, StepCleaning
  <2>3. CASE phase \in {"init", "setup"}
    <3>1. phase' = phase
      BY <2>1 DEF Step, Lookup, Request, Lock, Descend, NewTable, Unlock, Read, Break, Flush, Link, Set,
           Restore, Walk, WalkedSet, WalkedLookup, Save, Clean, steps
    <3>2. t = mem' /\ phase' # "clean"
      BY <1>2, <2>3, <3>1
    <3>3. MapInv(t)'
      BY <1>0, <2>1, <2>3, <3>2, StepMapped
    <3> QED
      BY <1>4, <3>2, <3>3
  <2> QED
    BY <1>3, <2>2, <2>3
<1>14. CASE UNCHANGED vars
  <2>1. Inv(s, lev)' /\ MapInv(s)'
    BY <1>0, <1>14, Stutter, StutterMapped
  <2> QED
    BY <1>5, <2>1
<1> QED
  BY <1>6, <1>7, <1>8, <1>9, <1>10, <1>11, <1>12, <1>13, <1>14 DEF Next

(* What the hardware does, in terms of the walks above. *)
LEMMA TranslationIn ==
  ASSUME NEW n \in 1 .. MaxPages + 1, NEW lev, Good(mem, n, lev), NEW a \in VA
  PROVE  Translation(a) = TransIn(mem, a)
<1> DEFINE t == Tables(a)
           L(l) == t[l] # -1 /\ LET e == mem[t[l]][OFFS(a, l)] IN e.valid /\ e.bit1 = (l = 3)
           X(l) == AlignTo(mem[t[l]][OFFS(a, l)].addr, l) + (a % SIZE(l))
           c == CHOOSE l \in 1 .. 3 : L(l)
<1>1. Translation(a) = IF \E l \in 1 .. 3 : L(l) THEN X(c) ELSE -1
  BY DEF Translation
<1>2. t = TablesIn(mem, a)
  BY SamePath DEF Path
<1> HIDE DEF t
<1>3. \A l \in 1 .. 3 : L(l) <=> LeafIn(mem, a, l)
  BY <1>2 DEF LeafIn
<1>4. CASE \E l \in 1 .. 3 : L(l)
  <2>1. c \in 1 .. 3 /\ L(c)
    BY <1>4
  <2> HIDE DEF c
  <2>2. LeafIn(mem, a, c)
    BY <1>3, <2>1
  <2>3. Ends(mem, a, c)
    BY <2>1, <2>2 DEF LeafIn, Ends, Tab
  <2>4. \A h \in 1 .. 3 : LeafIn(mem, a, h) => h = c
    <3>1. a \in Nat
      BY AddressBound
    <3>2. c \in Level
      BY <2>1 DEF Level
    <3> QED
      BY ONLY <2>3, <3>1, <3>2, End, n \in 1 .. MaxPages + 1, Good(mem, n, lev)
  <2>5. TransIn(mem, a) = X(c)
    BY <1>2, <2>1, <2>2, <2>4, Leaf
  <2> QED
    BY <1>1, <1>4, <2>5
<1>5. CASE ~ \E l \in 1 .. 3 : L(l)
  BY <1>1, <1>3, <1>5 DEF TransIn
<1> QED
  BY <1>4, <1>5

LEMMA MappedNow == MInv => MappedAsAsked
<1> SUFFICES ASSUME MInv, phase # "clean", \A i \in CPU : pc[i] \notin {"flush", "make"}, NEW a \in VA
             PROVE  Translation(a) = want[a]
  BY DEF MappedAsAsked
<1>1. PICK s \in [Page -> [Index -> Entry]], lev \in [Page -> Level] : Inv(s, lev) /\ MapInv(s)
  BY DEF MInv
<1>2. mem = s /\ Good(mem, next, lev) /\ next \in 1 .. MaxPages + 1
  BY <1>1 DEF Inv, CleanInv, TypeOK
<1>3. TransIn(mem, a) = want[a]
  BY <1>1, <1>2 DEF MapInv, Mapped, Broken
<1> QED
  BY <1>2, <1>3, TranslationIn

(* vmm_pgtable.c:103-250, vmm.c: whatever mixture of levels is chosen for  *)
(* a region, and whatever tables others add, an address translates the way *)
(* the pagetable was asked to, as long as no block has to be split and no  *)
(* table is to be replaced by a block.                                     *)
THEOREM VmmMapsUnlessSplit == Spec /\ []Unsplit => []MappedAsAsked
<1>1. Spec /\ []Unsplit => []MInv
  BY MInvInit, MInvStep, PTL DEF Spec
<1> QED
  BY <1>1, MappedNow, PTL

(* vmm_pgtable.c:103-250: neither happens, if the regions of each layout   *)
(* do not overlap and the variables are outside of them, whatever the      *)
(* alignment of the regions.                                               *)
THEOREM VmmMapsAsAsked ==
  ASSUME LayoutsApart
  PROVE  Spec => []MappedAsAsked
<1>1. MInv => Unsplit
  BY ApartUnsplit DEF MInv
<1>2. MInv /\ [Next]_vars => MInv'
  BY <1>1, MInvStep
<1>3. Spec => []MInv
  BY <1>2, MInvInit, PTL DEF Spec
<1> QED
  BY <1>3, MappedNow, PTL
===============================================================================
