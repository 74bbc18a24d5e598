----------------------------- MODULE AtomicsProofs ----------------------------
(***************************************************************************)
(* The compare-and-swap mutex is a lock, its unlock never waits, and no    *)
(* atomic decrement is lost, for any number of CPUs and of lost monitors.  *)
(***************************************************************************)
EXTENDS Atomics, FiniteSetTheorems, TLAPS

(* Outside of an operation, op has its resting value; unlock never fails   *)
(* its comparison.                                                         *)
OpInv ==
  \A i \in CPU :
    /\ pc[i] \in {"out", "in"} => op[i] = "lock"
    /\ op[i] = "unlock" => pc[i] # "clrex"

(* locked is 1 exactly while some CPU holds the mutex, and only one does.  *)
LockInv ==
  /\ mem["locked"] \in {0, 1}
  /\ \A i \in CPU : Holds(i) => mem["locked"] = 1
  /\ \A i, k \in CPU : Holds(i) /\ Holds(k) => i = k
  /\ mem["locked"] = 1 => \E i \in CPU : Holds(i)

(* While its monitor is set, what a CPU has loaded is still what is there. *)
MonInv ==
  \A i \in CPU : pc[i] = "stxr" /\ mon[i] = At(i) =>
    /\ x0[i] = mem[At(i)]
    /\ Expected(i, x0[i])

DecInv ==
  /\ DecExact
  /\ \A i \in CPU : op[i] = "dec" /\ pc[i] # "sev" => i \in counted

IInv == TypeOK /\ OpInv /\ LockInv /\ MonInv /\ DecInv

-----------------------------------------------------------------------------
LEMMA InvInit == Init => IInv
<1> SUFFICES ASSUME Init PROVE IInv
  OBVIOUS
<1>1. TypeOK
  BY CPUAssumption, LossesAssumption, FS_CardinalityType
     DEF Init, TypeOK, Addr, None, Op, PC
<1>2. OpInv /\ MonInv
  BY DEF Init, OpInv, MonInv
<1>3. LockInv
  BY DEF Init, LockInv, Holds
<1>4. DecInv
  BY DEF Init, DecInv, DecExact
<1> QED
  BY <1>1, <1>2, <1>3, <1>4 DEF IInv

-----------------------------------------------------------------------------
(* What a step of i leaves of the others. *)
LEMMA Frame ==
  ASSUME TypeOK, NEW i \in CPU,
         Lock(i) \/ Unlock(i) \/ Dec(i) \/ Step(i) \/ LoseMonitor(i),
         NEW k \in CPU, k # i
  PROVE  pc'[k] = pc[k] /\ op'[k] = op[k] /\ x0'[k] = x0[k]
BY DEF TypeOK, Lock, Unlock, Dec, Begin, Step, SevL, Wfe, Ldxr, Clrex, Stxr,
       StxrFails, Sev, LoseMonitor, Goto

(* A step that changes neither memory nor counted. *)
LEMMA QuietStep ==
  ASSUME IInv, NEW i \in CPU,
         \/ Lock(i) \/ Unlock(i) \/ Dec(i) \/ SevL(i) \/ Wfe(i) \/ Ldxr(i)
         \/ Clrex(i) \/ StxrFails(i) \/ Sev(i) \/ LoseMonitor(i)
  PROVE  IInv'
<1>t. TypeOK /\ OpInv /\ LockInv /\ MonInv /\ DecInv
  BY DEF IInv
<1>m. mem' = mem /\ counted' = counted
  BY DEF Lock, Unlock, Dec, Begin, SevL, Wfe, Ldxr, Clrex, StxrFails, Sev, LoseMonitor
<1>f. \A k \in CPU : k # i => pc'[k] = pc[k] /\ op'[k] = op[k] /\ x0'[k] = x0[k]
  BY <1>t, Frame DEF Step
<1>1. TypeOK'
  <2>1. CASE Lock(i) \/ Unlock(i) \/ Dec(i)
    BY <1>t, <2>1 DEF TypeOK, Lock, Unlock, Dec, Begin, Goto, Op, PC
  <2>2. CASE SevL(i) \/ Wfe(i) \/ Sev(i)
    BY <1>t, <2>2 DEF TypeOK, SevL, Wfe, Sev, Goto, Op, PC
  <2>3. CASE Ldxr(i)
    <3>1. At(i) \in Addr /\ mem[At(i)] \in Nat
      BY <1>t DEF TypeOK, At, Addr
    <3> QED
      BY <1>t, <2>3, <3>1 DEF TypeOK, Ldxr, Goto, PC
  <2>4. CASE Clrex(i) \/ StxrFails(i)
    BY <1>t, <2>4 DEF TypeOK, Clrex, StxrFails, Goto, PC
  <2>5. CASE LoseMonitor(i)
    BY <1>t, <2>5, LossesAssumption DEF TypeOK, LoseMonitor
  <2> QED
    BY <2>1, <2>2, <2>3, <2>4, <2>5
<1>h. Holds(i)' = Holds(i)
  BY <1>t DEF TypeOK, OpInv, Holds, Lock, Unlock, Dec, Begin, SevL, Wfe, Ldxr, Clrex,
              StxrFails, Sev, LoseMonitor, Goto, PC, Op
<1>o. \A k \in CPU : Holds(k)' = Holds(k)
  BY <1>h, <1>f DEF Holds
<1>2. OpInv'
  <2>1. Ldxr(i) /\ op[i] = "unlock" => Expected(i, mem[At(i)])
    BY <1>t DEF LockInv, Holds, Ldxr, Goto, At, Expected, PC
  <2>2. pc'[i] \in {"out", "in"} => op'[i] = "lock"
    <3>1. CASE Ldxr(i)
      BY <1>t, <3>1 DEF TypeOK, Ldxr, Goto
    <3> QED
      BY <1>t, <3>1 DEF TypeOK, OpInv, Lock, Unlock, Dec, Begin, SevL, Wfe, Clrex,
                        StxrFails, Sev, LoseMonitor, Goto
  <2>3. op'[i] = "unlock" => pc'[i] # "clrex"
    <3>1. CASE Ldxr(i)
      BY <1>t, <2>1, <3>1 DEF TypeOK, Ldxr, Goto
    <3> QED
      BY <1>t, <3>1 DEF TypeOK, OpInv, Lock, Unlock, Dec, Begin, SevL, Wfe, Clrex,
                        StxrFails, Sev, LoseMonitor, Goto
  <2> QED
    BY <1>t, <1>f, <2>2, <2>3 DEF OpInv
<1>3. LockInv'
  BY <1>t, <1>m, <1>o DEF LockInv
<1>4. MonInv'
  <2>1. \A k \in CPU : k # i => mon'[k] = mon[k]
    BY <1>t DEF TypeOK, Lock, Unlock, Dec, Begin, SevL, Wfe, Ldxr, Clrex, StxrFails, Sev,
                LoseMonitor
  <2>2. \A k \in CPU : k # i => At(k)' = At(k)
    BY <1>f DEF At
  <2>3. ASSUME NEW k \in CPU, k # i, pc'[k] = "stxr", mon'[k] = At(k)'
        PROVE  x0'[k] = mem'[At(k)'] /\ Expected(k, x0[k])'
    BY <1>t, <1>m, <1>f, <2>1, <2>2, <2>3 DEF MonInv, Expected
  <2>4. ASSUME pc'[i] = "stxr", mon'[i] = At(i)'
        PROVE  x0'[i] = mem'[At(i)'] /\ Expected(i, x0[i])'
    <3>1. CASE Ldxr(i)
      BY <1>t, <1>m, <2>4, <3>1 DEF TypeOK, Ldxr, Goto, At, Expected
    <3>2. CASE LoseMonitor(i)
      BY <1>t, <2>4, <3>2 DEF TypeOK, LoseMonitor, At, Addr, None
    <3> QED
      BY <1>t, <2>4, <3>1, <3>2
         DEF TypeOK, Lock, Unlock, Dec, Begin, SevL, Wfe, Clrex, StxrFails, Sev, Goto
  <2> QED
    BY <2>3, <2>4 DEF MonInv
<1>5. DecInv'
  <2>1. DecExact'
    BY <1>t, <1>m DEF DecInv, DecExact
  <2>2. op'[i] = "dec" /\ pc'[i] # "sev" => i \in counted
    BY <1>t DEF TypeOK, DecInv, Lock, Unlock, Dec, Begin, SevL, Wfe, Ldxr, Clrex,
                StxrFails, Sev, LoseMonitor, Goto
  <2> QED
    BY <1>t, <1>m, <1>f, <2>1, <2>2 DEF DecInv
<1> QED
  BY <1>1, <1>2, <1>3, <1>4, <1>5 DEF IInv

-----------------------------------------------------------------------------
(* A successful store-exclusive. *)
LEMMA StxrStep ==
  ASSUME IInv, NEW i \in CPU, Stxr(i)
  PROVE  IInv'
<1>t. TypeOK /\ OpInv /\ LockInv /\ MonInv /\ DecInv
  BY DEF IInv
<1>f. \A k \in CPU : k # i => pc'[k] = pc[k] /\ op'[k] = op[k] /\ x0'[k] = x0[k]
  BY <1>t, Frame DEF Step
<1>p. /\ pc[i] = "stxr" /\ pc'[i] = "sev" /\ op' = op /\ op[i] \in Op
      /\ mem' = [mem EXCEPT ![At(i)] = New(i)]
  BY <1>t DEF Stxr, Goto, TypeOK
<1>v. x0[i] = mem[At(i)] /\ Expected(i, x0[i])
  BY <1>t DEF MonInv, Stxr, Goto
<1>c. op[i] = "dec" => i \in counted
  BY <1>t, <1>p DEF DecInv
<1>n. IsFiniteSet(counted) /\ Cardinality(counted) \in Nat
  BY <1>t, CPUAssumption, FS_Subset, FS_CardinalityType DEF TypeOK
<1>d. op[i] = "dec" => Cardinality(counted \ {i}) = Cardinality(counted) - 1
  BY <1>n, <1>c, FS_RemoveElement
<1>e. op[i] = "dec" => x0[i] = Cardinality(counted) /\ x0[i] - 1 = Cardinality(counted \ {i})
  BY <1>t, <1>v, <1>d DEF DecInv, DecExact, At
<1>z. Cardinality(counted \ {i}) \in Nat
  BY <1>n, FS_Subset, FS_CardinalityType
<1>w. New(i) \in Nat
  BY <1>p, <1>e, <1>z DEF New, Op
<1>1. TypeOK'
  <2>1. mem' \in [Addr -> Nat]
    BY <1>t, <1>p, <1>w DEF TypeOK
  <2> QED
    BY <1>t, <2>1 DEF TypeOK, Stxr, Goto, Addr, None, PC
<1>2. OpInv'
  BY <1>t, <1>f, <1>p DEF OpInv
<1>a. \A k \in CPU : k # i => Holds(k)' = Holds(k)
  BY <1>f DEF Holds
<1>3. LockInv'
  <2>1. CASE op[i] = "lock"
    <3>1. mem["locked"] = 0 /\ mem'["locked"] = 1 /\ Holds(i)'
      BY <1>t, <1>p, <1>v, <2>1 DEF TypeOK, At, Addr, New, Expected, Holds
    <3> QED
      BY <1>t, <1>a, <3>1 DEF LockInv
  <2>2. CASE op[i] = "unlock"
    <3>1. mem'["locked"] = 0 /\ Holds(i) /\ ~Holds(i)'
      BY <1>t, <1>p, <2>2 DEF TypeOK, At, Addr, New, Holds, PC
    <3> QED
      BY <1>t, <1>a, <3>1 DEF LockInv
  <2>3. CASE op[i] = "dec"
    <3>1. mem'["locked"] = mem["locked"] /\ ~Holds(i) /\ ~Holds(i)'
      BY <1>t, <1>p, <2>3 DEF TypeOK, At, Addr, Holds
    <3> QED
      BY <1>t, <1>a, <3>1 DEF LockInv
  <2> QED
    BY <1>p, <2>1, <2>2, <2>3 DEF Op
<1>4. MonInv'
  <2> SUFFICES ASSUME NEW k \in CPU, pc'[k] = "stxr", mon'[k] = At(k)'
               PROVE  x0'[k] = mem'[At(k)'] /\ Expected(k, x0[k])'
    BY DEF MonInv
  <2>1. k # i /\ At(k)' = At(k)
    BY <1>p DEF At
  <2>2. mon[k] = At(k) /\ At(k) # At(i)
    BY <1>t, <2>1 DEF TypeOK, Stxr, At, None
  <2>3. mem'[At(k)] = mem[At(k)]
    BY <1>t, <1>p, <2>2 DEF TypeOK, At, Addr
  <2> QED
    BY <1>t, <1>f, <1>p, <2>1, <2>2, <2>3 DEF MonInv, Expected
<1>5. DecInv'
  <2>1. DecExact'
    BY <1>t, <1>p, <1>e DEF TypeOK, DecInv, DecExact, Stxr, At, Addr, New, Op
  <2>2. \A k \in CPU : k # i => (k \in counted' <=> k \in counted)
    BY DEF Stxr
  <2> QED
    BY <1>t, <1>f, <1>p, <2>1, <2>2 DEF DecInv
<1> QED
  BY <1>1, <1>2, <1>3, <1>4, <1>5 DEF IInv

LEMMA InvStep == IInv /\ [Next]_vars => IInv'
<1> SUFFICES ASSUME IInv, [Next]_vars PROVE IInv'
  OBVIOUS
<1>1. CASE UNCHANGED vars
  BY <1>1 DEF vars, IInv, TypeOK, OpInv, LockInv, MonInv, DecInv, DecExact, Holds, At, Expected
<1>2. CASE Next
  BY <1>2, QuietStep, StxrStep DEF Next, Step
<1> QED
  BY <1>1, <1>2

THEOREM AtomicsInvariant == Spec => []IInv
BY InvInit, InvStep, PTL DEF Spec

(* sync.c:107-126: waiting is decremented once by every CPU that executes  *)
(* __atomic_dec, however often another store gets between its ldxr and its *)
(* stxr.                                                                   *)
THEOREM AtomicsDecExact == Spec => []DecExact
<1>1. IInv => DecExact
  BY DEF IInv, DecInv
<1> QED
  BY <1>1, AtomicsInvariant, PTL

(* Words, monitors, event registers and the registers of the operations of   *)
(* sync.c:75-154 keep their types, for any number of CPUs.                   *)
THEOREM AtomicsTypeOK == Spec => []TypeOK
<1>1. IInv => TypeOK
  BY DEF IInv
<1> QED
  BY <1>1, AtomicsInvariant, PTL

(* sync.c:143-154: the compare-and-swap of mutex_unlock always finds the 1 *)
(* of its own lock.                                                        *)
THEOREM AtomicsUnlockNeverWaits == Spec => []UnlockNeverWaits
<1>1. IInv => UnlockNeverWaits
  BY DEF IInv, OpInv, UnlockNeverWaits
<1> QED
  BY <1>1, AtomicsInvariant, PTL

-----------------------------------------------------------------------------
(* Refinement of the lock. *)
LEMMA Stages ==
  ASSUME IInv, IInv', NEW i \in CPU, NEW to,
         \A k \in CPU : k # i => pc'[k] = pc[k] /\ op'[k] = op[k],
         st[i]' = to
  PROVE  st' = [st EXCEPT ![i] = to]
<1>1. \A k \in CPU : k # i => st[k]' = st[k]
  BY DEF st, Holds, Inside
<1> QED
  BY <1>1 DEF st

LEMMA RefineStep ==
  ASSUME IInv, IInv', [Next]_vars
  PROVE  [L!LNext]_(L!lvars)
<1>t. TypeOK /\ OpInv /\ LockInv /\ MonInv
  BY DEF IInv
<1>a. ahead' = ahead
  BY DEF ahead
<1>1. CASE UNCHANGED vars
  BY <1>1 DEF vars, L!lvars, st, ahead, Holds, Inside
<1>2. ASSUME NEW i \in CPU,
             Lock(i) \/ Unlock(i) \/ Dec(i) \/ Step(i) \/ LoseMonitor(i)
      PROVE  L!LNext \/ UNCHANGED L!lvars
  <2>f. \A k \in CPU : k # i => pc'[k] = pc[k] /\ op'[k] = op[k]
    BY <1>t, <1>2, Frame
  <2>e. [ahead EXCEPT ![i] = {}] = ahead /\ [k \in CPU |-> ahead[k] \ {i}] = ahead
    BY DEF ahead
  <2>s. ASSUME st[i]' = st[i] PROVE UNCHANGED L!lvars
    <3>1. st' = [st EXCEPT ![i] = st[i]]
      BY <1>t, <2>f, <2>s, Stages
    <3> QED
      BY <1>a, <3>1 DEF st, L!lvars
  <2>1. CASE Lock(i)
    <3>1. st[i] = "out" /\ st[i]' = "doorway"
      BY <1>t, <2>1 DEF TypeOK, OpInv, Lock, Begin, Goto, st, Holds, Inside
    <3> QED
      BY <1>a, <2>e, <2>f, <3>1, Stages DEF L!LNext, L!Come
  <2>2. CASE SevL(i) /\ op[i] = "lock"
    <3>1. st[i] = "doorway" /\ st[i]' = "queue"
      BY <1>t, <2>2 DEF TypeOK, SevL, Goto, st, Holds, Inside
    <3> QED
      BY <1>a, <2>f, <3>1, Stages DEF L!LNext, L!Join
  <2>3. CASE Stxr(i) /\ op[i] = "lock"
    <3>1. st[i] = "queue" /\ st[i]' = "in"
      BY <1>t, <2>3 DEF TypeOK, Stxr, Goto, st, Holds, Inside
    <3>2. mem["locked"] = 0
      BY <1>t, <2>3 DEF MonInv, Stxr, Goto, At, Expected
    <3>3. \A k \in CPU : st[k] # "in"
      BY <1>t, <3>2 DEF LockInv, st
    <3>4. ahead[i] = {}
      BY DEF ahead
    <3> QED
      BY <1>a, <2>e, <2>f, <3>1, <3>3, <3>4, Stages DEF L!LNext, L!LetIn
  <2>4. CASE Stxr(i) /\ op[i] = "unlock"
    <3>1. st[i] = "in" /\ st[i]' = "out"
      BY <1>t, <2>4 DEF TypeOK, Stxr, Goto, st, Holds, Inside, PC
    <3> QED
      BY <1>a, <2>f, <3>1, Stages DEF L!LNext, L!Go
  <2>5. CASE Stxr(i) /\ op[i] = "dec"
    <3>1. st[i]' = st[i]
      BY <1>t, <2>5 DEF TypeOK, Stxr, Goto, st, Holds
    <3> QED
      BY <2>s, <3>1
  <2>6. CASE Unlock(i) \/ Dec(i)
    <3>1. st[i]' = st[i]
      BY <1>t, <2>6 DEF TypeOK, OpInv, Unlock, Dec, Begin, Goto, st, Holds, Inside, PC
    <3> QED
      BY <2>s, <3>1
  <2>7. CASE SevL(i) /\ op[i] # "lock"
    <3>1. st[i]' = st[i]
      BY <1>t, <2>7 DEF TypeOK, SevL, Goto, st, Holds, PC
    <3> QED
      BY <2>s, <3>1
  <2>8. CASE Wfe(i) \/ Clrex(i) \/ StxrFails(i) \/ LoseMonitor(i)
    <3>1. st[i]' = st[i]
      BY <1>t, <2>8 DEF TypeOK, Wfe, Clrex, StxrFails, LoseMonitor, Goto, st, Holds,
                        Inside, PC
    <3> QED
      BY <2>s, <3>1
  <2>9. CASE Ldxr(i)
    <3>1. pc[i] = "ldxr" /\ pc'[i] \in {"stxr", "clrex"} /\ op' = op
      BY <1>t, <2>9 DEF TypeOK, Ldxr, Goto
    <3>2. st[i]' = st[i]
      BY <3>1 DEF st, Holds, Inside, PC
    <3> QED
      BY <2>s, <3>2
  <2>10. CASE Sev(i)
    <3>1. st[i]' = st[i]
      BY <1>t, <2>10 DEF TypeOK, Sev, Goto, st, Holds, Inside, PC
    <3> QED
      BY <2>s, <3>1
  <2> QED
    BY <1>t, <1>2, <2>1, <2>2, <2>3, <2>4, <2>5, <2>6, <2>7, <2>8, <2>9, <2>10
       DEF Step, TypeOK, Op
<1> QED
  BY <1>1, <1>2 DEF Next

LEMMA RefineInit == Init => L!LInit
BY DEF Init, L!LInit, st, ahead, Holds, Inside

(* sync.c:75-154: mutex_lock and mutex_unlock implement a lock, for any    *)
(* number of CPUs and however often a monitor is lost.                     *)
THEOREM AtomicsRefines == Spec => IsALock
<1>1. IInv /\ IInv' /\ [Next]_vars => [L!LNext]_(L!lvars)
  BY RefineStep
<1> QED
  BY <1>1, RefineInit, AtomicsInvariant, PTL DEF Spec, IsALock, L!LSpec
-----------------------------------------------------------------------------
(* Whoever sleeps, or is about to, does so while the lock is taken or an   *)
(* event is about to be sent: failing a comparison is the only way into    *)
(* the WFE without an event, since losing a monitor is one.                *)
SleepInv ==
  \A i \in CPU :
    /\ pc[i] \in {"clrex", "wfe"} /\ ~ event[i] =>
         op[i] = "lock" /\ (mem["locked"] = 1 \/ \E k \in CPU : pc[k] = "sev")
    /\ pc[i] = "stxr" /\ mon[i] # At(i) => event[i]

LEMMA SleepInit == Init => SleepInv
BY DEF Init, SleepInv

LEMMA SleepStep ==
  ASSUME IInv, IInv', SleepInv, [Next]_vars
  PROVE  SleepInv'
<1>t. TypeOK /\ OpInv /\ LockInv /\ OpInv'
  BY DEF IInv
<1> USE <1>t DEF TypeOK, SleepInv, Goto, At
<1>1. ASSUME NEW i \in CPU, Lock(i) \/ Unlock(i) \/ Dec(i) PROVE SleepInv'
  BY <1>1 DEF Lock, Unlock, Dec, Begin
<1>2. ASSUME NEW i \in CPU, SevL(i) \/ Wfe(i) PROVE SleepInv'
  BY <1>2 DEF SevL, Wfe
<1>3. ASSUME NEW i \in CPU, Ldxr(i) PROVE SleepInv'
  <2>1. mon' = [mon EXCEPT ![i] = At(i)] /\ UNCHANGED <<mem, event, op>>
    BY <1>3 DEF Ldxr
  <2>2. pc'[i] = "clrex" => op[i] = "lock" /\ mem["locked"] = 1
    <3> SUFFICES ASSUME pc'[i] = "clrex" PROVE op[i] = "lock" /\ mem["locked"] = 1
      OBVIOUS
    <3>1. ~ Expected(i, mem[At(i)])
      BY <1>3 DEF Ldxr
    <3>2. op[i] = "lock"
      BY <2>1, <3>1 DEF OpInv, Expected, Op
    <3> QED
      BY <3>1, <3>2 DEF Expected, LockInv
  <2>3. pc'[i] \in {"clrex", "stxr"} /\ pc[i] = "ldxr" /\ \A k \in CPU \ {i} : pc'[k] = pc[k]
    BY <1>3 DEF Ldxr
  <2>4. \A k \in CPU : At(k)' = At(k)
    BY <2>1
  <2>5. (\E k \in CPU : pc[k] = "sev") => \E k \in CPU : pc'[k] = "sev"
    BY <2>3
  <2> QED
    BY <2>1, <2>2, <2>3, <2>4, <2>5
<1>4. ASSUME NEW i \in CPU, Clrex(i) \/ StxrFails(i) PROVE SleepInv'
  <2>1. UNCHANGED <<mem, event, op>> /\ pc[i] \in {"clrex", "stxr"} /\ pc'[i] = "wfe"
    BY <1>4 DEF Clrex, StxrFails
  <2>2. pc[i] = "stxr" => event[i]
    BY <1>4 DEF Clrex, StxrFails
  <2>3. \A k \in CPU \ {i} : pc'[k] = pc[k] /\ mon'[k] = mon[k]
    BY <1>4 DEF Clrex, StxrFails
  <2>4. (\E k \in CPU : pc[k] = "sev") => \E k \in CPU : pc'[k] = "sev"
    BY <2>1, <2>3
  <2> QED
    BY <2>1, <2>2, <2>3, <2>4
<1>5. ASSUME NEW i \in CPU, Stxr(i) PROVE SleepInv'
  <2>1. pc'[i] = "sev" /\ \A k \in CPU \ {i} : pc'[k] = pc[k]
    BY <1>5 DEF Stxr
  <2>2. ASSUME NEW k \in CPU, k # i
        PROVE  /\ event'[k] = (event[k] \/ mon[k] = At(i))
               /\ mon[k] # At(i) => mon'[k] = mon[k]
    BY <1>5, <2>2 DEF Stxr
  <2>3. op' = op
    BY <1>5 DEF Stxr
  <2>4. \E k \in CPU : pc'[k] = "sev"
    BY <2>1
  <2>5. ASSUME NEW k \in CPU, k # i, pc'[k] \in {"clrex", "wfe"}, ~ event'[k]
        PROVE  op'[k] = "lock"
    <3>1. pc[k] = pc'[k] /\ ~ event[k]
      BY <2>1, <2>2, <2>5
    <3> QED
      BY <2>3, <2>5, <3>1
  <2>6. ASSUME NEW k \in CPU, k # i, pc'[k] = "stxr", mon'[k] # At(k)'
        PROVE  event'[k]
    <3>1. At(k)' = At(k) /\ pc[k] = "stxr"
      BY <2>1, <2>3, <2>6
    <3> QED
      BY <2>2, <2>6, <3>1
  <2> QED
    BY <2>1, <2>4, <2>5, <2>6
<1>6. ASSUME NEW i \in CPU, Sev(i) PROVE SleepInv'
  BY <1>6 DEF Sev
<1>7. ASSUME NEW i \in CPU, LoseMonitor(i) PROVE SleepInv'
  BY <1>7 DEF LoseMonitor
<1>8. CASE UNCHANGED vars
  BY <1>8 DEF vars
<1> QED
  BY <1>1, <1>2, <1>3, <1>4, <1>5, <1>6, <1>7, <1>8 DEF Next, Step

(* sync.c:93,120: no WFE of these loops is left without an event to come,  *)
(* for any number of CPUs.                                                 *)
THEOREM AtomicsNoLostWakeup == Spec => []NoLostWakeup
<1>1. IInv /\ SleepInv => NoLostWakeup
  <2> SUFFICES ASSUME IInv, SleepInv, NEW i \in CPU, Asleep(i)
               PROVE  /\ op[i] = "lock"
                      /\ \E k \in CPU : ~ Asleep(k) /\ (Holds(k) \/ pc[k] = "sev")
    BY DEF NoLostWakeup
  <2>1. op[i] = "lock" /\ (mem["locked"] = 1 \/ \E k \in CPU : pc[k] = "sev")
    BY DEF SleepInv, Asleep
  <2>2. CASE mem["locked"] = 1
    <3>1. PICK k \in CPU : Holds(k)
      BY <2>2 DEF IInv, LockInv
    <3>2. ~ Asleep(k)
      BY <3>1 DEF Asleep, Holds, SleepInv
    <3> QED
      BY <2>1, <3>1, <3>2
  <2> QED
    BY <2>1, <2>2 DEF Asleep
<1>2. IInv /\ IInv' /\ SleepInv /\ [Next]_vars => SleepInv'
  BY SleepStep
<1> QED
  BY <1>1, <1>2, SleepInit, AtomicsInvariant, PTL DEF Spec
===============================================================================
