------------------------------- MODULE Barrier -------------------------------
(***************************************************************************)
(* bwait(), the barrier every phase of a litmus test is separated by       *)
(* (lib/arch/sync.c:157-226, inc/sync.h:58-66).                            *)
(*                                                                         *)
(* One action per access to shared memory: CPUs interleave at every read   *)
(* and write of a bar_t, at LOCK/UNLOCK of bwait_lock, and at WFE/SEV.     *)
(* All barriers share the one bwait_lock, as in the code.                  *)
(*                                                                         *)
(* The lock is atomic here (owner); Bakery.tla and Atomics.tla show that   *)
(* both implementations of it behave so.  Memory is sequentially           *)
(* consistent: the code puts a dmb/dsb between the accesses that matter.   *)
(*                                                                         *)
(* A fresh caller is any CPU of the barrier's current group.  bwait's      *)
(* refusal to run before per_cpu_setup (sync.c:166-168) is not a state of  *)
(* the barrier: callers here are CPUs whose locking is enabled.            *)
(***************************************************************************)
EXTENDS Naturals, FiniteSets

CONSTANTS
  CPU,        \* the physical CPUs, at most MAX_CPUS
  NoCPU,      \* the value of owner when bwait_lock is free
  Bar,        \* the bar_t objects
  Size,       \* Size[b]: the sz every caller of b passes
  Groups,     \* Groups[b]: the sets of CPUs that may be using b together
  IterMax,    \* the largest iteration before the u64 wraps
  PGTABLE     \* ENABLE_PGTABLE: leave with an atomic decrement, not the lock

ASSUME CPUAssumption     == IsFiniteSet(CPU) /\ NoCPU \notin CPU
ASSUME SizeAssumption    == Size \in [Bar -> Nat \ {0}]
ASSUME GroupsAssumption  == Groups \in [Bar -> SUBSET SUBSET CPU]
ASSUME IterAssumption    == IterMax \in Nat \ {0}
ASSUME PGTABLEAssumption == PGTABLE \in BOOLEAN

VARIABLES
  waiting,        \* bar_t.waiting
  current_state,  \* bar_t.current_state: 1 once the group is released
  iteration,      \* bar_t.iteration
  owner,          \* who holds bwait_lock
  event,          \* each CPU's event register, which WFE waits for
  members,        \* the group using each barrier at present
  pc,             \* where each CPU is in bwait
  bar,            \* the barrier it was called with
  tmp,            \* the register between the load and the store of waiting
  iter            \* the local variable iter of bwait

vars == <<waiting, current_state, iteration, owner, event, members,
          pc, bar, tmp, iter>>

-----------------------------------------------------------------------------
(* Program points.  A CPU at one of Locked holds bwait_lock; it is counted *)
(* in waiting at one of Counted; at Tail it has taken itself out.          *)
Locked  == {"test", "poll", "unpoll", "bump", "close", "load", "store",
            "compare", "open", "sev", "unlock", "dload", "dstore", "dunlock"}
Counted == {"compare", "open", "sev", "unlock", "iter", "wait", "wfe",
            "dec", "dlock", "dload", "dstore"}
Tail    == {"dunlock", "slowiter", "slowwait"}
Before  == {"lock", "test", "poll", "unpoll", "relock", "bump", "close",
            "load", "store"}
PC      == {"idle"} \cup Before \cup Counted \cup Tail

In(b) == {i \in CPU : bar[i] = b /\ pc[i] \in Counted}

(* iteration++ on a u64 *)
Succ(n) == IF n = IterMax THEN 0 ELSE n + 1

Goto(i, from, to) ==
  /\ pc[i] = from
  /\ pc' = [pc EXCEPT ![i] = to]

-----------------------------------------------------------------------------
(* SEV sets every event register, SEVL only one's own; a successful        *)
(* compare-and-swap or atomic decrement ends in SEV (sync.c:102,129).      *)
AllEvents == [i \in CPU |-> TRUE]
SyncEvent == IF PGTABLE THEN AllEvents ELSE event

Acquire(i, from, to) ==
  /\ owner = NoCPU
  /\ Goto(i, from, to)
  /\ owner' = i
  /\ event' = SyncEvent

Release(i, from, to) ==
  /\ Goto(i, from, to)
  /\ owner' = NoCPU
  /\ event' = SyncEvent

-----------------------------------------------------------------------------
BarInit ==
  /\ waiting = [b \in Bar |-> 0]
  /\ current_state = [b \in Bar |-> 0]
  /\ iteration = [b \in Bar |-> 0]

Init ==
  /\ BarInit
  /\ owner = NoCPU
  /\ event = [i \in CPU |-> FALSE]
  /\ members \in [Bar -> SUBSET CPU]
  /\ \A b \in Bar : members[b] \in Groups[b]
  /\ pc = [i \in CPU |-> "idle"]
  /\ bar \in [CPU -> Bar]
  /\ tmp = [i \in CPU |-> 0]
  /\ iter = [i \in CPU |-> 0]

(* A CPU of b's group calls bwait(vcpu, b, Size[b]). *)
Call(i) ==
  /\ Goto(i, "idle", "lock")
  /\ \E b \in Bar :
       /\ i \in members[b]
       /\ bar' = [bar EXCEPT ![i] = b]
  /\ UNCHANGED <<waiting, current_state, iteration, owner, event, members, tmp, iter>>

(* The caller gives b to another group; nobody may be inside b then.       *)
(* Harness.tla shows that affinities only change at such a time.           *)
Regroup(b) ==
  /\ \A i \in CPU : pc[i] = "idle" \/ bar[i] # b
  /\ \E S \in Groups[b] : members' = [members EXCEPT ![b] = S]
  /\ UNCHANGED <<waiting, current_state, iteration, owner, event, pc, bar, tmp, iter>>

(* Mutation of LockBar: LOCK does nothing, as before locking_enabled is set. *)
LockBarWithoutLock(i) ==
  /\ Goto(i, "lock", "test")
  /\ UNCHANGED <<waiting, current_state, iteration, owner, event, members, bar, tmp, iter>>

(* LOCK(&bwait_lock) *)
LockBar(i) ==
  /\ Acquire(i, "lock", "test")
  /\ UNCHANGED <<waiting, current_state, iteration, members, bar, tmp, iter>>

(* if (bar->current_state == 1) *)
TestState(i) ==
  /\ Goto(i, "test", IF current_state[bar[i]] = 1 THEN "poll" ELSE "load")
  /\ UNCHANGED <<waiting, current_state, iteration, owner, event, members, bar, tmp, iter>>

(* Mutation of PollTest: the loop is missing. *)
PollTestNeverWaits(i) ==
  /\ Goto(i, "poll", "bump")
  /\ UNCHANGED <<waiting, current_state, iteration, owner, event, members, bar, tmp, iter>>

(* while (bar->waiting != 0) -- current_state is not looked at again *)
PollTest(i) ==
  /\ Goto(i, "poll", IF waiting[bar[i]] # 0 THEN "unpoll" ELSE "bump")
  /\ UNCHANGED <<waiting, current_state, iteration, owner, event, members, bar, tmp, iter>>

PollUnlock(i) ==
  /\ Release(i, "unpoll", "relock")
  /\ UNCHANGED <<waiting, current_state, iteration, members, bar, tmp, iter>>

PollRelock(i) ==
  /\ Acquire(i, "relock", "poll")
  /\ UNCHANGED <<waiting, current_state, iteration, members, bar, tmp, iter>>

(* bar->iteration++ *)
Bump(i) ==
  /\ Goto(i, "bump", "close")
  /\ iteration' = [iteration EXCEPT ![bar[i]] = Succ(@)]
  /\ UNCHANGED <<waiting, current_state, owner, event, members, bar, tmp, iter>>

(* bar->current_state = 0 *)
Close(i) ==
  /\ Goto(i, "close", "load")
  /\ current_state' = [current_state EXCEPT ![bar[i]] = 0]
  /\ UNCHANGED <<waiting, iteration, owner, event, members, bar, tmp, iter>>

(* bar->waiting++, a load and a store of a volatile *)
Load(i, from, to) ==
  /\ Goto(i, from, to)
  /\ tmp' = [tmp EXCEPT ![i] = waiting[bar[i]]]
  /\ UNCHANGED <<waiting, current_state, iteration, owner, event, members, bar, iter>>

IncLoad(i) == Load(i, "load", "store")

IncStore(i) ==
  /\ Goto(i, "store", "compare")
  /\ waiting' = [waiting EXCEPT ![bar[i]] = tmp[i] + 1]
  /\ tmp' = [tmp EXCEPT ![i] = 0]
  /\ UNCHANGED <<current_state, iteration, owner, event, members, bar, iter>>

(* Mutation of Compare: off by one, one caller more is waited for. *)
CompareLate(i) ==
  LET last == waiting[bar[i]] > Size[bar[i]] IN
  /\ Goto(i, "compare", IF last THEN "open" ELSE "unlock")
  /\ event' = IF last THEN event ELSE [event EXCEPT ![i] = TRUE]
  /\ UNCHANGED <<waiting, current_state, iteration, owner, members, bar, tmp, iter>>

(* if (bar->waiting == sz) ... else sevl() *)
Compare(i) ==
  LET last == waiting[bar[i]] = Size[bar[i]] IN
  /\ Goto(i, "compare", IF last THEN "open" ELSE "unlock")
  /\ event' = IF last THEN event ELSE [event EXCEPT ![i] = TRUE]
  /\ UNCHANGED <<waiting, current_state, iteration, owner, members, bar, tmp, iter>>

(* Mutation of Open: the iteration is counted at the release of the group. *)
OpenCountsIteration(i) ==
  /\ Goto(i, "open", "sev")
  /\ current_state' = [current_state EXCEPT ![bar[i]] = 1]
  /\ iteration' = [iteration EXCEPT ![bar[i]] = Succ(@)]
  /\ UNCHANGED <<waiting, owner, event, members, bar, tmp, iter>>

(* bar->current_state = 1 *)
Open(i) ==
  /\ Goto(i, "open", "sev")
  /\ current_state' = [current_state EXCEPT ![bar[i]] = 1]
  /\ UNCHANGED <<waiting, iteration, owner, event, members, bar, tmp, iter>>

(* Mutation of Sev: the SEV is missing. *)
SevMissing(i) ==
  /\ Goto(i, "sev", "unlock")
  /\ UNCHANGED <<waiting, current_state, iteration, owner, event, members, bar, tmp, iter>>

Sev(i) ==
  /\ Goto(i, "sev", "unlock")
  /\ event' = AllEvents
  /\ UNCHANGED <<waiting, current_state, iteration, owner, members, bar, tmp, iter>>

UnlockBar(i) ==
  /\ Release(i, "unlock", "iter")
  /\ UNCHANGED <<waiting, current_state, iteration, members, bar, tmp, iter>>

(* u64 iter = bar->iteration, after the lock has been released *)
ReadIter(i) ==
  /\ Goto(i, "iter", "wait")
  /\ iter' = [iter EXCEPT ![i] = iteration[bar[i]]]
  /\ UNCHANGED <<waiting, current_state, iteration, owner, event, members, bar, tmp>>

(* while (bar->current_state == 0) wfe() *)
WaitState(i) ==
  /\ Goto(i, "wait", IF current_state[bar[i]] = 0 THEN "wfe"
                     ELSE IF PGTABLE THEN "dec" ELSE "dlock")
  /\ UNCHANGED <<waiting, current_state, iteration, owner, event, members, bar, tmp, iter>>

Wfe(i) ==
  /\ event[i]
  /\ Goto(i, "wfe", "wait")
  /\ event' = [event EXCEPT ![i] = FALSE]
  /\ UNCHANGED <<waiting, current_state, iteration, owner, members, bar, tmp, iter>>

(* Mutation of AtomicDec: a failed store-exclusive is not repeated. *)
AtomicDecMayFail(i) ==
  /\ Goto(i, "dec", "slowiter")
  /\ \E d \in {0, 1} : waiting' = [waiting EXCEPT ![bar[i]] = @ - d]
  /\ event' = AllEvents
  /\ UNCHANGED <<current_state, iteration, owner, members, bar, tmp, iter>>

(* __atomic_dec(&bar->waiting): load- and store-exclusive, then SEV *)
AtomicDec(i) ==
  /\ Goto(i, "dec", "slowiter")
  /\ waiting' = [waiting EXCEPT ![bar[i]] = @ - 1]
  /\ event' = AllEvents
  /\ UNCHANGED <<current_state, iteration, owner, members, bar, tmp, iter>>

(* LOCK; bar->waiting--; UNLOCK *)
DecLock(i) ==
  /\ Acquire(i, "dlock", "dload")
  /\ UNCHANGED <<waiting, current_state, iteration, members, bar, tmp, iter>>

DecLoad(i) == Load(i, "dload", "dstore")

DecStore(i) ==
  /\ Goto(i, "dstore", "dunlock")
  /\ waiting' = [waiting EXCEPT ![bar[i]] = tmp[i] - 1]
  /\ tmp' = [tmp EXCEPT ![i] = 0]
  /\ UNCHANGED <<current_state, iteration, owner, event, members, bar, iter>>

DecUnlock(i) ==
  /\ Release(i, "dunlock", "slowiter")
  /\ UNCHANGED <<waiting, current_state, iteration, members, bar, tmp, iter>>

(* while (bar->iteration == iter && bar->waiting != 0), two reads; iter    *)
(* is dead once the loop is left                                           *)
LoopOrReturn(i, from, to, stay) ==
  /\ Goto(i, from, IF stay THEN to ELSE "idle")
  /\ iter' = IF stay THEN iter ELSE [iter EXCEPT ![i] = 0]
  /\ UNCHANGED <<waiting, current_state, iteration, owner, event, members, bar, tmp>>

(* Mutation of SlowIter: bwait returns without waiting for the others. *)
SlowIterReturns(i) == LoopOrReturn(i, "slowiter", "slowwait", FALSE)

SlowIter(i) == LoopOrReturn(i, "slowiter", "slowwait", iteration[bar[i]] = iter[i])

SlowWait(i) == LoopOrReturn(i, "slowwait", "slowiter", waiting[bar[i]] # 0)

-----------------------------------------------------------------------------
(* Everything bwait does once it has been called. *)
Arriving(i) ==
  \/ LockBar(i) \/ TestState(i) \/ PollTest(i) \/ PollUnlock(i) \/ PollRelock(i)
  \/ Bump(i) \/ Close(i) \/ IncLoad(i) \/ IncStore(i) \/ Compare(i)
  \/ Open(i) \/ Sev(i) \/ UnlockBar(i)

Leaving(i) ==
  \/ ReadIter(i) \/ WaitState(i) \/ Wfe(i) \/ AtomicDec(i)
  \/ DecLock(i) \/ DecLoad(i) \/ DecStore(i) \/ DecUnlock(i)
  \/ SlowIter(i) \/ SlowWait(i)

TakeLock(i) == LockBar(i) \/ PollRelock(i) \/ DecLock(i)

bwait(i) == Arriving(i) \/ Leaving(i)

Next ==
  \/ \E i \in CPU : Call(i) \/ bwait(i)
  \/ \E b \in Bar : Regroup(b)

Spec == Init /\ [][Next]_vars

(* Each CPU is a core of its own and keeps executing: weak fairness of its *)
(* steps.  With the pagetable build the lock is a compare-and-swap, which  *)
(* promises no CPU in particular its turn, so weak fairness is all there   *)
(* is.  Without it the lock is Lamport's, which is first come first served *)
(* (Bakery.tla): no request waits for ever, hence strong fairness.         *)
Fairness ==
  \A i \in CPU :
    /\ WF_vars(bwait(i))
    /\ ~PGTABLE => SF_vars(TakeLock(i))

FairSpec == Spec /\ Fairness

-----------------------------------------------------------------------------
(* All groups are exactly as large as the sz their members pass.           *)
ExactGroups == \A b \in Bar : \A S \in Groups[b] : Cardinality(S) = Size[b]
ExactBars   == {b \in Bar : \A S \in Groups[b] : Cardinality(S) = Size[b]}

TypeOK ==
  /\ waiting \in [Bar -> Nat]
  /\ current_state \in [Bar -> {0, 1}]
  /\ iteration \in [Bar -> 0 .. IterMax]
  /\ owner \in CPU \cup {NoCPU}
  /\ event \in [CPU -> BOOLEAN]
  /\ members \in [Bar -> SUBSET CPU]
  /\ pc \in [CPU -> PC]
  /\ bar \in [CPU -> Bar]
  /\ tmp \in [CPU -> Nat]
  /\ iter \in [CPU -> 0 .. IterMax]

(* waiting is exactly the number of CPUs that have counted themselves in   *)
(* and not yet out.  The increments are plain loads and stores under the   *)
(* lock, the decrements of the pagetable build are atomic but without it:  *)
(* were the two ever to overlap, an update would be lost and the barrier   *)
(* would open early or never again.                                        *)
CountExact == \A b \in Bar : waiting[b] = Cardinality(In(b))

(* No CPU takes itself out of waiting while another is counting itself in  *)
(* to the same barrier (sync.c:191 against sync.c:210,213).                *)
NoMixedPhases ==
  \A i, j \in CPU :
    (bar[i] = bar[j] /\ pc[i] \in {"load", "store", "compare", "open"})
      => pc[j] \notin {"dec", "dlock", "dload", "dstore"}

(* iter is read after bwait_lock has been released (sync.c:205), yet it is *)
(* the iteration of the round the CPU was counted in.                      *)
IterStable ==
  \A i \in CPU : pc[i] \in {"wait", "wfe", "dec", "dlock", "dload", "dstore"}
                   => iter[i] = iteration[bar[i]]

(* When the users of a barrier are exactly sz CPUs, nobody ever arrives    *)
(* while the previous round is still being left: the loop at sync.c:178    *)
(* never turns.                                                            *)
PollUnused == \A i \in CPU : pc[i] \notin {"unpoll", "relock"}

(* The barrier refines the rendezvous: a counted CPU is in, or released    *)
(* once current_state is 1; one that took itself out has passed.           *)
PhaseOf(b, i) ==
  IF bar[i] = b /\ pc[i] \in Counted
  THEN IF current_state[b] = 0 THEN "in" ELSE "go"
  ELSE IF bar[i] = b /\ pc[i] \in Tail THEN "passed" ELSE "out"

phase == [b \in Bar |-> [i \in CPU |-> PhaseOf(b, i)]]

R == INSTANCE Rendezvous
Rendezvous == R!RSpec

(* CPU i gets nowhere until another CPU does something: it waits for       *)
(* bwait_lock, for the release of its group, for the SEV that ends its     *)
(* WFE, or in the slow release loop.                                       *)
Blocked(i) ==
  \/ pc[i] \in {"lock", "relock", "dlock"} /\ owner # NoCPU
  \/ pc[i] \in {"wait", "wfe"} /\ current_state[bar[i]] = 0
  \/ pc[i] = "wfe" /\ ~ event[i]
  \/ /\ pc[i] \in {"slowiter", "slowwait"}
     /\ iteration[bar[i]] = iter[i] /\ waiting[bar[i]] # 0

(* If nobody inside bwait gets any further, it is for want of a caller:    *)
(* some member of the group has not called yet.  So nobody sleeps through  *)
(* the SEV of its release (sync.c:197,207), or waits in the slow release   *)
(* (sync.c:224) for a CPU that waits itself.                               *)
StuckForWantOfCaller ==
  (\A i \in CPU : pc[i] # "idle" => Blocked(i)) =>
    \A i \in CPU : (pc[i] # "idle" /\ bar[i] \in ExactBars) =>
      \E n \in members[bar[i]] : pc[n] = "idle" \/ bar[n] # bar[i]

(* Once the whole group has called bwait, every one of them returns: no    *)
(* wake-up is lost between the read of current_state and WFE               *)
(* (sync.c:206-207), and nobody is left behind in the slow release loop.   *)
AllCalled(b) ==
  \A i \in members[b] :
    /\ bar[i] = b /\ pc[i] # "idle"
    /\ phase[b][i] \in {"out", "in"}

AllReturn ==
  \A b \in ExactBars : \A i \in CPU :
    (AllCalled(b) /\ i \in members[b]) ~> (pc[i] = "idle")
===============================================================================
