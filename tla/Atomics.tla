------------------------------- MODULE Atomics --------------------------------
(***************************************************************************)
(* The lock of the pagetable build and the atomic decrement of bwait:      *)
(* __atomic_cas, __atomic_dec, mutex_lock and mutex_unlock                 *)
(* (lib/arch/sync.c:72-154), one action per load-exclusive,                *)
(* store-exclusive, CLREX, WFE, SEV and SEVL.                              *)
(*                                                                         *)
(* The machine they run on is modelled from the architecture: each CPU has *)
(* an exclusive monitor for one address and an event register.  A store    *)
(* clears the monitors other CPUs hold on that address, and clearing       *)
(* somebody's monitor is an event for that CPU.  A monitor may also be     *)
(* lost for another reason, such as a store to the same granule.           *)
(*                                                                         *)
(* Only the holder unlocks, and every CPU decrements the counter at most   *)
(* once: that is how bwait uses them.                                      *)
(***************************************************************************)
EXTENDS Naturals, FiniteSets

CONSTANTS
  CPU,
  MaxLosses   \* bound: how often a monitor is lost for no reason

ASSUME CPUAssumption    == IsFiniteSet(CPU)
ASSUME LossesAssumption == MaxLosses \in Nat

VARIABLES
  mem,      \* mem["locked"] of a mutex_t, mem["waiting"] of a bar_t
  mon,      \* the address each CPU's exclusive monitor is set for
  event,    \* each CPU's event register
  pc,       \* where each CPU is
  op,       \* what it executes: "lock", "unlock" or "dec"
  x0,       \* its register x0
  counted,  \* history: the CPUs that have not decremented the counter
  losses    \* bound: monitors lost so far

vars == <<mem, mon, event, pc, op, x0, counted, losses>>

Addr == {"locked", "waiting"}
None == "none"
Op   == {"lock", "unlock", "dec"}
PC   == {"out", "in", "sevl", "clrex", "wfe", "ldxr", "stxr", "sev"}

Init ==
  /\ mem = [locked |-> 0, waiting |-> Cardinality(CPU)]
  /\ mon = [i \in CPU |-> None]
  /\ event = [i \in CPU |-> FALSE]
  /\ pc = [i \in CPU |-> "out"]
  /\ op = [i \in CPU |-> "lock"]
  /\ x0 = [i \in CPU |-> 0]
  /\ counted = CPU
  /\ losses = 0

-----------------------------------------------------------------------------
Goto(i, from, to) ==
  /\ pc[i] = from
  /\ pc' = [pc EXCEPT ![i] = to]

Begin(i, from, o) ==
  /\ Goto(i, from, "sevl")
  /\ op' = [op EXCEPT ![i] = o]
  /\ UNCHANGED <<mem, mon, event, x0, losses>>

(* mutex_lock: __atomic_cas(&mut->locked, 0, 1) *)
Lock(i) == Begin(i, "out", "lock") /\ UNCHANGED counted

(* mutex_unlock: __atomic_cas(&mut->locked, 1, 0) *)
Unlock(i) == Begin(i, "in", "unlock") /\ UNCHANGED counted

(* bwait: __atomic_dec(&bar->waiting) *)
Dec(i) ==
  /\ i \in counted
  /\ Begin(i, "out", "dec")
  /\ UNCHANGED counted

At(i)  == IF op[i] = "dec" THEN "waiting" ELSE "locked"

(* Mutation of Expected: mutex_lock does not look at the old value. *)
ExpectedByUnlock(i, v) == op[i] = "unlock" => v = 1

(* cmp x0, old; __atomic_dec has no such test *)
Expected(i, v) ==
  CASE op[i] = "lock"   -> v = 0
    [] op[i] = "unlock" -> v = 1
    [] op[i] = "dec"    -> TRUE

(* what stxr writes *)
New(i) ==
  CASE op[i] = "lock"   -> 1
    [] op[i] = "unlock" -> 0
    [] op[i] = "dec"    -> x0[i] - 1

(* sevl: do not wait on the first read *)
SevL(i) ==
  /\ Goto(i, "sevl", "wfe")
  /\ event' = [event EXCEPT ![i] = TRUE]
  /\ UNCHANGED <<mem, mon, op, x0, counted, losses>>

Wfe(i) ==
  /\ event[i]
  /\ Goto(i, "wfe", "ldxr")
  /\ event' = [event EXCEPT ![i] = FALSE]
  /\ UNCHANGED <<mem, mon, op, x0, counted, losses>>

(* ldxr; cmp; b.ne 0b.  x0 is dead, and 0 here, wherever it is not used. *)
Ldxr(i) ==
  LET v == mem[At(i)] IN
  /\ Goto(i, "ldxr", IF Expected(i, v) THEN "stxr" ELSE "clrex")
  /\ mon' = [mon EXCEPT ![i] = At(i)]
  /\ x0' = [x0 EXCEPT ![i] = v]
  /\ UNCHANGED <<mem, event, op, counted, losses>>

Clrex(i) ==
  /\ Goto(i, "clrex", "wfe")
  /\ mon' = [mon EXCEPT ![i] = None]
  /\ x0' = [x0 EXCEPT ![i] = 0]
  /\ UNCHANGED <<mem, event, op, counted, losses>>

(* Mutation of Stxr: a plain store. *)
PlainStore(i) ==
  /\ Goto(i, "stxr", "sev")
  /\ mem' = [mem EXCEPT ![At(i)] = New(i)]
  /\ counted' = IF op[i] = "dec" THEN counted \ {i} ELSE counted
  /\ x0' = [x0 EXCEPT ![i] = 0]
  /\ UNCHANGED <<mon, event, op, losses>>

(* The monitor is still set: the store is performed. *)
Stxr(i) ==
  LET cleared == {k \in CPU : mon[k] = At(i)} IN
  /\ mon[i] = At(i)
  /\ Goto(i, "stxr", "sev")
  /\ mem' = [mem EXCEPT ![At(i)] = New(i)]
  /\ mon' = [k \in CPU |-> IF k \in cleared THEN None ELSE mon[k]]
  /\ event' = [k \in CPU |-> event[k] \/ (k \in cleared /\ k # i)]
  /\ counted' = IF op[i] = "dec" THEN counted \ {i} ELSE counted
  /\ x0' = [x0 EXCEPT ![i] = 0]
  /\ UNCHANGED <<op, losses>>

(* Mutation of StxrFails: w1 is not tested. *)
StxrFailureIgnored(i) ==
  /\ mon[i] # At(i)
  /\ Goto(i, "stxr", "sev")
  /\ x0' = [x0 EXCEPT ![i] = 0]
  /\ UNCHANGED <<mem, mon, event, op, counted, losses>>

(* It is not: cbnz w1 goes back to the wfe. *)
StxrFails(i) ==
  /\ mon[i] # At(i)
  /\ Goto(i, "stxr", "wfe")
  /\ x0' = [x0 EXCEPT ![i] = 0]
  /\ UNCHANGED <<mem, mon, event, op, counted, losses>>

(* Mutation of Sev: the SEV is missing. *)
SevMissing(i) ==
  /\ Goto(i, "sev", IF op[i] = "lock" THEN "in" ELSE "out")
  /\ op' = [op EXCEPT ![i] = "lock"]
  /\ UNCHANGED <<mem, mon, event, x0, counted, losses>>

(* sev, and return to the caller *)
Sev(i) ==
  /\ Goto(i, "sev", IF op[i] = "lock" THEN "in" ELSE "out")
  /\ event' = [k \in CPU |-> TRUE]
  /\ op' = [op EXCEPT ![i] = "lock"]
  /\ UNCHANGED <<mem, mon, x0, counted, losses>>

(* The environment: a monitor is lost, which is an event for its CPU. *)
LoseMonitor(i) ==
  /\ mon[i] # None
  /\ losses < MaxLosses
  /\ losses' = losses + 1
  /\ mon' = [mon EXCEPT ![i] = None]
  /\ event' = [event EXCEPT ![i] = TRUE]
  /\ UNCHANGED <<mem, pc, op, x0, counted>>

-----------------------------------------------------------------------------
(* What a CPU does inside the three operations. *)
Step(i) ==
  \/ SevL(i) \/ Wfe(i) \/ Ldxr(i) \/ Clrex(i)
  \/ Stxr(i) \/ StxrFails(i) \/ Sev(i)

Next == \E i \in CPU : Lock(i) \/ Unlock(i) \/ Dec(i) \/ Step(i) \/ LoseMonitor(i)

Spec == Init /\ [][Next]_vars

(* Every CPU keeps executing, and every critical section ends. *)
FairSpec == Spec /\ \A i \in CPU : WF_vars(Step(i)) /\ WF_vars(Unlock(i))

-----------------------------------------------------------------------------
TypeOK ==
  /\ mem \in [Addr -> Nat]
  /\ mon \in [CPU -> Addr \cup {None}]
  /\ event \in [CPU -> BOOLEAN]
  /\ pc \in [CPU -> PC]
  /\ op \in [CPU -> Op]
  /\ x0 \in [CPU -> Nat]
  /\ counted \in SUBSET CPU
  /\ losses \in 0 .. MaxLosses

Inside(i) == pc[i] \notin {"out", "in"}

(* i is past the store-exclusive of its lock and not past that of its      *)
(* unlock.                                                                 *)
Holds(i) ==
  \/ pc[i] = "in"
  \/ op[i] = "lock" /\ pc[i] = "sev"
  \/ op[i] = "unlock" /\ pc[i] \in PC \ {"out", "in", "sev"}

(* The mutex is a lock: the compare-and-swap lets one CPU in at a time,    *)
(* whoever loses its monitor between ldxr and stxr (sync.c:95-99).         *)
st == [i \in CPU |->
  IF Holds(i) THEN "in"
  ELSE IF op[i] = "lock" /\ pc[i] = "sevl" THEN "doorway"
  ELSE IF op[i] = "lock" /\ Inside(i) THEN "queue" ELSE "out"]

ahead == [i \in CPU |-> {}]

L == INSTANCE LockSpec WITH Fifo <- FALSE
IsALock == L!LSpec

(* No decrement is lost or done twice, however often its store-exclusive   *)
(* has to be repeated (sync.c:118-126).                                    *)
DecExact == mem["waiting"] = Cardinality(counted)

(* "ensures UNLOCK() requires a LOCK()d mutex first" (sync.c:151): the     *)
(* compare-and-swap of the holder finds the 1 it expects, so an unlock     *)
(* never waits for anybody.                                                *)
UnlockNeverWaits == \A i \in CPU : op[i] = "unlock" => pc[i] # "clrex"

(* Whoever sleeps in the WFE of these loops (sync.c:93,120) wants the lock,  *)
(* and somebody who is awake has it or is about to send an event: clrex    *)
(* has given up the monitor that might have woken it, so that only the SEV *)
(* of the compare-and-swap that changes the lock can.                      *)
Asleep(i) == pc[i] = "wfe" /\ ~ event[i]

NoLostWakeup ==
  \A i \in CPU : Asleep(i) =>
    /\ op[i] = "lock"
    /\ \E k \in CPU : ~ Asleep(k) /\ (Holds(k) \/ pc[k] = "sev")

Wants(i) == op[i] = "lock" /\ Inside(i)

(* A WFE of these loops always has an event coming (sync.c:93,120):        *)
(* unlocking and decrementing end, and as long as somebody wants the lock, *)
(* somebody gets it.  The compare-and-swap promises no more than that.     *)
Progress ==
  /\ \A i \in CPU : (Inside(i) /\ op[i] # "lock") ~> (pc[i] = "out")
  /\ (\E i \in CPU : Wants(i)) ~> (\E i \in CPU : Holds(i))
===============================================================================
