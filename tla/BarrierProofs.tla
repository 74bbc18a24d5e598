---------------------------- MODULE BarrierProofs ----------------------------
(***************************************************************************)
(* Proofs about Barrier.tla for any number of CPUs and barriers, for       *)
(* either build (PGTABLE or not) and any width of the iteration counter.   *)
(* The counting is right whatever CPUs use a barrier; that it implements   *)
(* the rendezvous takes users that are as many as the sz they pass         *)
(* (ExactGroups), which is how the harness calls bwait.                    *)
(***************************************************************************)
EXTENDS Barrier, FiniteSetTheorems, TLAPS

-----------------------------------------------------------------------------
(* The inductive invariant, part by part. *)

(* bwait_lock is held by the one CPU that is between LOCK and UNLOCK. *)
LockInv == \A i \in CPU : (pc[i] \in Locked) <=> (owner = i)

(* Only the present group is inside a barrier. *)
GroupInv ==
  /\ \A b \in Bar : members[b] \in Groups[b]
  /\ \A i \in CPU : pc[i] # "idle" => i \in members[bar[i]]

(* Which builds reach which decrement. *)
BuildInv ==
  \A i \in CPU : /\ pc[i] = "dec" => PGTABLE
                 /\ pc[i] \in {"dlock", "dload", "dstore", "dunlock"} => ~PGTABLE

(* CPUs count themselves in while current_state is 0 ... *)
ClosedInv ==
  \A i \in CPU : pc[i] \in {"load", "store", "compare", "open"}
                   => current_state[bar[i]] = 0

(* ... and out, or restart the barrier, while it is 1. *)
OpenedInv ==
  \A i \in CPU : pc[i] \in {"bump", "close", "sev", "dec", "dlock", "dload", "dstore"}
                   => current_state[bar[i]] = 1

(* A round is restarted when nobody is counted, opened when all are. *)
EdgeInv ==
  \A i \in CPU : /\ pc[i] \in {"bump", "close"} => waiting[bar[i]] = 0
                 /\ pc[i] = "open" => waiting[bar[i]] = Size[bar[i]]

(* Whoever is in the loop that waits out an earlier round does not look at *)
(* current_state again, but finds waiting 0 only while it is still 1: who  *)
(* closes the barrier counts itself in before it gives the lock back.      *)
ReopenInv ==
  \A i \in CPU : pc[i] \in {"poll", "unpoll", "relock"} =>
    \/ current_state[bar[i]] = 1
    \/ waiting[bar[i]] # 0
    \/ \E k \in CPU : owner = k /\ bar[k] = bar[i] /\ pc[k] \in {"load", "store"}

(* Nobody else writes waiting between the load and the store of a += 1. *)
TmpInv ==
  \A i \in CPU : pc[i] \in {"store", "dstore"} => tmp[i] = waiting[bar[i]]

(* The parts about the barriers whose users are as many as the sz they     *)
(* pass.  While a round is being left, either everybody has taken itself   *)
(* out or every member is still inside: nobody has returned, so nobody can *)
(* be calling again.                                                       *)
RoundInv ==
  \A b \in ExactBars :
    current_state[b] = 1 =>
      \/ waiting[b] = 0
      \/ \A j \in members[b] : bar[j] = b /\ pc[j] \in Counted \cup Tail

(* A CPU in the slow release finds its own iteration until the barrier is  *)
(* restarted, and another one from then on: it has to call again before    *)
(* there can be a round after the next.                                    *)
Restarting(b) == \E k \in CPU : pc[k] = "close" /\ bar[k] = b

TailInv ==
  \A j \in CPU :
    pc[j] \in Tail /\ bar[j] \in ExactBars =>
      (iter[j] = iteration[bar[j]] <=> current_state[bar[j]] = 1 /\ ~Restarting(bar[j]))

(* So the loop that waits out an earlier round does not turn. *)
LoopInv ==
  \A i \in CPU :
    bar[i] \in ExactBars =>
      /\ pc[i] \notin {"unpoll", "relock"}
      /\ pc[i] = "poll" => current_state[bar[i]] = 1

IInv ==
  /\ TypeOK
  /\ LockInv
  /\ GroupInv
  /\ BuildInv
  /\ ClosedInv
  /\ OpenedInv
  /\ EdgeInv
  /\ ReopenInv
  /\ TmpInv
  /\ RoundInv
  /\ TailInv
  /\ LoopInv
  /\ CountExact
  /\ IterStable
-----------------------------------------------------------------------------
(* Types.  A decrement needs a CPU to be counted, hence the hypothesis on  *)
(* waiting, which the invariant below provides.                            *)
CanDec == \A i \in CPU : pc[i] \in {"dec", "dstore"} => waiting[bar[i]] > 0

LEMMA TypeStep ==
  ASSUME TypeOK, TmpInv, CanDec, [Next]_vars
  PROVE  TypeOK'
<1> USE CPUAssumption, SizeAssumption, GroupsAssumption, IterAssumption, PGTABLEAssumption
<1> USE DEF TypeOK, Goto, PC, Before, Counted, Tail
<1>1. ASSUME NEW i \in CPU, Call(i) PROVE TypeOK'
  BY <1>1 DEF Call
<1>2. ASSUME NEW i \in CPU, LockBar(i) PROVE TypeOK'
  BY <1>2 DEF LockBar, Acquire, SyncEvent, AllEvents
<1>3. ASSUME NEW i \in CPU, TestState(i) PROVE TypeOK'
  BY <1>3 DEF TestState
<1>4. ASSUME NEW i \in CPU, PollTest(i) PROVE TypeOK'
  BY <1>4 DEF PollTest
<1>5. ASSUME NEW i \in CPU, PollUnlock(i) PROVE TypeOK'
  BY <1>5 DEF PollUnlock, Release, SyncEvent, AllEvents
<1>6. ASSUME NEW i \in CPU, PollRelock(i) PROVE TypeOK'
  BY <1>6 DEF PollRelock, Acquire, SyncEvent, AllEvents
<1>7. ASSUME NEW i \in CPU, Bump(i) PROVE TypeOK'
  BY <1>7 DEF Bump, Succ
<1>8. ASSUME NEW i \in CPU, Close(i) PROVE TypeOK'
  BY <1>8 DEF Close
<1>9. ASSUME NEW i \in CPU, IncLoad(i) PROVE TypeOK'
  BY <1>9 DEF IncLoad, Load
<1>10. ASSUME NEW i \in CPU, IncStore(i) PROVE TypeOK'
  BY <1>10 DEF IncStore
<1>11. ASSUME NEW i \in CPU, Compare(i) PROVE TypeOK'
  BY <1>11 DEF Compare
<1>12. ASSUME NEW i \in CPU, Open(i) PROVE TypeOK'
  BY <1>12 DEF Open
<1>13. ASSUME NEW i \in CPU, Sev(i) PROVE TypeOK'
  BY <1>13 DEF Sev, AllEvents
<1>14. ASSUME NEW i \in CPU, UnlockBar(i) PROVE TypeOK'
  BY <1>14 DEF UnlockBar, Release, SyncEvent, AllEvents
<1>15. ASSUME NEW i \in CPU, ReadIter(i) PROVE TypeOK'
  BY <1>15 DEF ReadIter
<1>16. ASSUME NEW i \in CPU, WaitState(i) PROVE TypeOK'
  BY <1>16 DEF WaitState
<1>17. ASSUME NEW i \in CPU, Wfe(i) PROVE TypeOK'
  BY <1>17 DEF Wfe
<1>18. ASSUME NEW i \in CPU, AtomicDec(i) PROVE TypeOK'
  BY <1>18 DEF AtomicDec, AllEvents, CanDec
<1>19. ASSUME NEW i \in CPU, DecLock(i) PROVE TypeOK'
  BY <1>19 DEF DecLock, Acquire, SyncEvent, AllEvents
<1>20. ASSUME NEW i \in CPU, DecLoad(i) PROVE TypeOK'
  BY <1>20 DEF DecLoad, Load
<1>21. ASSUME NEW i \in CPU, DecStore(i) PROVE TypeOK'
  BY <1>21 DEF DecStore, CanDec, TmpInv
<1>22. ASSUME NEW i \in CPU, DecUnlock(i) PROVE TypeOK'
  BY <1>22 DEF DecUnlock, Release, SyncEvent, AllEvents
<1>23. ASSUME NEW i \in CPU, SlowIter(i) PROVE TypeOK'
  BY <1>23 DEF SlowIter, LoopOrReturn
<1>24. ASSUME NEW i \in CPU, SlowWait(i) PROVE TypeOK'
  BY <1>24 DEF SlowWait, LoopOrReturn
<1>25. ASSUME NEW b \in Bar, Regroup(b) PROVE TypeOK'
  BY <1>25 DEF Regroup
<1>26. CASE UNCHANGED vars
  BY <1>26 DEF vars
<1>27. QED
  BY <1>1, <1>2, <1>3, <1>4, <1>5, <1>6, <1>7, <1>8, <1>9, <1>10, <1>11, <1>12, <1>13, <1>14, <1>15, <1>16, <1>17, <1>18, <1>19, <1>20, <1>21, <1>22, <1>23, <1>24, <1>25, <1>26 DEF Next, bwait, Arriving, Leaving

-----------------------------------------------------------------------------
(* What waiting says about who is inside. *)
LEMMA InFinite ==
  ASSUME NEW b \in Bar
  PROVE  IsFiniteSet(In(b)) /\ In(b) \subseteq CPU
<1>1. In(b) \subseteq CPU
  BY DEF In
<1> QED
  BY <1>1, CPUAssumption, FS_Subset

LEMMA CountFacts ==
  ASSUME TypeOK, CountExact, NEW i \in CPU, pc[i] \in Counted
  PROVE  waiting[bar[i]] > 0
<1> DEFINE b == bar[i]
<1>1. b \in Bar /\ i \in In(b)
  BY DEF TypeOK, In
<1>2. IsFiniteSet(In(b)) /\ In(b) # {}
  BY <1>1, InFinite
<1>3. Cardinality(In(b)) # 0
  BY <1>2, FS_EmptySet
<1>4. waiting[b] = Cardinality(In(b)) /\ waiting[b] \in Nat
  BY <1>1 DEF CountExact, TypeOK
<1> QED
  BY <1>3, <1>4

LEMMA FullGroup ==
  ASSUME TypeOK, CountExact, GroupInv, NEW b \in ExactBars, waiting[b] = Size[b]
  PROVE  members[b] = In(b)
<1> b \in Bar
  BY DEF ExactBars
<1>1. In(b) \subseteq members[b]
  BY DEF In, GroupInv, Counted
<1>2. IsFiniteSet(members[b])
  BY CPUAssumption, FS_Subset DEF TypeOK
<1>3. Cardinality(members[b]) = Size[b]
  BY DEF GroupInv, ExactBars
<1>4. Cardinality(In(b)) = Size[b]
  BY DEF CountExact
<1> QED
  BY <1>1, <1>2, <1>3, <1>4, FS_Subset

-----------------------------------------------------------------------------
(* Counting: only IncStore, AtomicDec and DecStore move a CPU into or out  *)
(* of In(b), and they write waiting accordingly.                           *)
LEMMA SameCount ==
  ASSUME CountExact, waiting' = waiting, \A b \in Bar : In(b)' = In(b)
  PROVE  CountExact'
BY DEF CountExact

LEMMA CountUp ==
  ASSUME TypeOK, CountExact, NEW i \in CPU, pc[i] \notin Counted,
         waiting' = [waiting EXCEPT ![bar[i]] = waiting[bar[i]] + 1],
         bar' = bar, pc' = [pc EXCEPT ![i] = "compare"]
  PROVE  CountExact'
<1>1. bar[i] \in Bar /\ i \notin In(bar[i])
  BY DEF TypeOK, In
<1>2. ASSUME NEW b \in Bar, b # bar[i] PROVE waiting'[b] = Cardinality(In(b))'
  <2>1. In(b)' = In(b)
    BY <1>2 DEF In, TypeOK, Counted
  <2> QED
    BY <1>2, <2>1 DEF CountExact, TypeOK
<1>3. waiting'[bar[i]] = Cardinality(In(bar[i])')
  <2>1. In(bar[i])' = In(bar[i]) \cup {i}
    BY DEF In, TypeOK, Counted
  <2>2. Cardinality(In(bar[i]) \cup {i}) = Cardinality(In(bar[i])) + 1
    BY <1>1, InFinite, FS_AddElement
  <2> QED
    BY <1>1, <2>1, <2>2 DEF CountExact, TypeOK
<1> QED
  BY <1>1, <1>2, <1>3 DEF CountExact

LEMMA CountDown ==
  ASSUME TypeOK, CountExact, NEW i \in CPU, pc[i] \in Counted, NEW to \in Tail,
         waiting' = [waiting EXCEPT ![bar[i]] = waiting[bar[i]] - 1],
         bar' = bar, pc' = [pc EXCEPT ![i] = to]
  PROVE  CountExact'
<1>1. bar[i] \in Bar /\ i \in In(bar[i])
  BY DEF TypeOK, In
<1>2. ASSUME NEW b \in Bar, b # bar[i] PROVE waiting'[b] = Cardinality(In(b))'
  <2>1. In(b)' = In(b)
    BY <1>2 DEF In, TypeOK, Counted
  <2> QED
    BY <1>2, <2>1 DEF CountExact, TypeOK
<1>3. waiting'[bar[i]] = Cardinality(In(bar[i])')
  <2>1. In(bar[i])' = In(bar[i]) \ {i}
    BY DEF In, TypeOK, Counted, Tail
  <2>2. Cardinality(In(bar[i]) \ {i}) = Cardinality(In(bar[i])) - 1
    BY <1>1, InFinite, FS_RemoveElement
  <2> QED
    BY <1>1, <2>1, <2>2 DEF CountExact, TypeOK
<1> QED
  BY <1>1, <1>2, <1>3 DEF CountExact

LEMMA CountStep ==
  ASSUME IInv, [Next]_vars
  PROVE  CountExact'
<1> USE DEF IInv, TypeOK, Goto, Counted, Tail
<1>1. ASSUME NEW i \in CPU, Call(i) PROVE CountExact'
  <2>1. \A b \in Bar : In(b)' = In(b)
    BY <1>1 DEF Call, In
  <2> QED
    BY <1>1, <2>1, SameCount DEF Call
<1>2. ASSUME NEW i \in CPU, LockBar(i) PROVE CountExact'
  <2>1. \A b \in Bar : In(b)' = In(b)
    BY <1>2 DEF LockBar, Acquire, In
  <2> QED
    BY <1>2, <2>1, SameCount DEF LockBar, Acquire
<1>3. ASSUME NEW i \in CPU, TestState(i) PROVE CountExact'
  <2>1. \A b \in Bar : In(b)' = In(b)
    BY <1>3 DEF TestState, In
  <2> QED
    BY <1>3, <2>1, SameCount DEF TestState
<1>4. ASSUME NEW i \in CPU, PollTest(i) PROVE CountExact'
  <2>1. \A b \in Bar : In(b)' = In(b)
    BY <1>4 DEF PollTest, In
  <2> QED
    BY <1>4, <2>1, SameCount DEF PollTest
<1>5. ASSUME NEW i \in CPU, PollUnlock(i) PROVE CountExact'
  <2>1. \A b \in Bar : In(b)' = In(b)
    BY <1>5 DEF PollUnlock, Release, In
  <2> QED
    BY <1>5, <2>1, SameCount DEF PollUnlock, Release
<1>6. ASSUME NEW i \in CPU, PollRelock(i) PROVE CountExact'
  <2>1. \A b \in Bar : In(b)' = In(b)
    BY <1>6 DEF PollRelock, Acquire, In
  <2> QED
    BY <1>6, <2>1, SameCount DEF PollRelock, Acquire
<1>7. ASSUME NEW i \in CPU, Bump(i) PROVE CountExact'
  <2>1. \A b \in Bar : In(b)' = In(b)
    BY <1>7 DEF Bump, Succ, In
  <2> QED
    BY <1>7, <2>1, SameCount DEF Bump, Succ
<1>8. ASSUME NEW i \in CPU, Close(i) PROVE CountExact'
  <2>1. \A b \in Bar : In(b)' = In(b)
    BY <1>8 DEF Close, In
  <2> QED
    BY <1>8, <2>1, SameCount DEF Close
<1>9. ASSUME NEW i \in CPU, IncLoad(i) PROVE CountExact'
  <2>1. \A b \in Bar : In(b)' = In(b)
    BY <1>9 DEF IncLoad, Load, In
  <2> QED
    BY <1>9, <2>1, SameCount DEF IncLoad, Load
<1>10. ASSUME NEW i \in CPU, IncStore(i) PROVE CountExact'
  BY <1>10, CountUp DEF IncStore, TmpInv
<1>11. ASSUME NEW i \in CPU, Compare(i) PROVE CountExact'
  <2>1. \A b \in Bar : In(b)' = In(b)
    BY <1>11 DEF Compare, In
  <2> QED
    BY <1>11, <2>1, SameCount DEF Compare
<1>12. ASSUME NEW i \in CPU, Open(i) PROVE CountExact'
  <2>1. \A b \in Bar : In(b)' = In(b)
    BY <1>12 DEF Open, In
  <2> QED
    BY <1>12, <2>1, SameCount DEF Open
<1>13. ASSUME NEW i \in CPU, Sev(i) PROVE CountExact'
  <2>1. \A b \in Bar : In(b)' = In(b)
    BY <1>13 DEF Sev, In
  <2> QED
    BY <1>13, <2>1, SameCount DEF Sev
<1>14. ASSUME NEW i \in CPU, UnlockBar(i) PROVE CountExact'
  <2>1. \A b \in Bar : In(b)' = In(b)
    BY <1>14 DEF UnlockBar, Release, In
  <2> QED
    BY <1>14, <2>1, SameCount DEF UnlockBar, Release
<1>15. ASSUME NEW i \in CPU, ReadIter(i) PROVE CountExact'
  <2>1. \A b \in Bar : In(b)' = In(b)
    BY <1>15 DEF ReadIter, In
  <2> QED
    BY <1>15, <2>1, SameCount DEF ReadIter
<1>16. ASSUME NEW i \in CPU, WaitState(i) PROVE CountExact'
  <2>1. \A b \in Bar : In(b)' = In(b)
    BY <1>16 DEF WaitState, In
  <2> QED
    BY <1>16, <2>1, SameCount DEF WaitState
<1>17. ASSUME NEW i \in CPU, Wfe(i) PROVE CountExact'
  <2>1. \A b \in Bar : In(b)' = In(b)
    BY <1>17 DEF Wfe, In
  <2> QED
    BY <1>17, <2>1, SameCount DEF Wfe
<1>18. ASSUME NEW i \in CPU, AtomicDec(i) PROVE CountExact'
  BY <1>18, CountDown DEF AtomicDec, TmpInv
<1>19. ASSUME NEW i \in CPU, DecLock(i) PROVE CountExact'
  <2>1. \A b \in Bar : In(b)' = In(b)
    BY <1>19 DEF DecLock, Acquire, In
  <2> QED
    BY <1>19, <2>1, SameCount DEF DecLock, Acquire
<1>20. ASSUME NEW i \in CPU, DecLoad(i) PROVE CountExact'
  <2>1. \A b \in Bar : In(b)' = In(b)
    BY <1>20 DEF DecLoad, Load, In
  <2> QED
    BY <1>20, <2>1, SameCount DEF DecLoad, Load
<1>21. ASSUME NEW i \in CPU, DecStore(i) PROVE CountExact'
  BY <1>21, CountDown DEF DecStore, TmpInv
<1>22. ASSUME NEW i \in CPU, DecUnlock(i) PROVE CountExact'
  <2>1. \A b \in Bar : In(b)' = In(b)
    BY <1>22 DEF DecUnlock, Release, In
  <2> QED
    BY <1>22, <2>1, SameCount DEF DecUnlock, Release
<1>23. ASSUME NEW i \in CPU, SlowIter(i) PROVE CountExact'
  <2>1. \A b \in Bar : In(b)' = In(b)
    BY <1>23 DEF SlowIter, LoopOrReturn, In
  <2> QED
    BY <1>23, <2>1, SameCount DEF SlowIter, LoopOrReturn
<1>24. ASSUME NEW i \in CPU, SlowWait(i) PROVE CountExact'
  <2>1. \A b \in Bar : In(b)' = In(b)
    BY <1>24 DEF SlowWait, LoopOrReturn, In
  <2> QED
    BY <1>24, <2>1, SameCount DEF SlowWait, LoopOrReturn
<1>25. ASSUME NEW b \in Bar, Regroup(b) PROVE CountExact'
  <2>1. \A c \in Bar : In(c)' = In(c)
    BY <1>25 DEF Regroup, In
  <2> QED
    BY <1>25, <2>1, SameCount DEF Regroup
<1>26. CASE UNCHANGED vars
  <2>1. \A b \in Bar : In(b)' = In(b)
    BY <1>26 DEF vars, In
  <2> QED
    BY <1>26, <2>1, SameCount DEF vars
<1>27. QED
  BY <1>1, <1>2, <1>3, <1>4, <1>5, <1>6, <1>7, <1>8, <1>9, <1>10, <1>11, <1>12, <1>13, <1>14, <1>15, <1>16, <1>17, <1>18, <1>19, <1>20, <1>21, <1>22, <1>23, <1>24, <1>25, <1>26 DEF Next, bwait, Arriving, Leaving

-----------------------------------------------------------------------------
(* The other parts of the invariant. *)
Rest == LockInv /\ GroupInv /\ BuildInv /\ ClosedInv /\ OpenedInv /\ EdgeInv
          /\ TmpInv /\ IterStable

LEMMA RestStep ==
  ASSUME IInv, [Next]_vars
  PROVE  Rest'
<1> USE CPUAssumption, SizeAssumption, GroupsAssumption, IterAssumption, PGTABLEAssumption
<1> USE DEF TypeOK, Goto, PC, Before, Counted, Tail, Locked, Rest,
            LockInv, GroupInv, BuildInv, ClosedInv, OpenedInv, EdgeInv,
            TmpInv, IterStable
<1>i. TypeOK /\ Rest
  BY DEF IInv
<1>c. \A j \in CPU : pc[j] \in Counted => waiting[bar[j]] > 0
  BY CountFacts DEF IInv
<1>1. ASSUME NEW i \in CPU, Call(i) PROVE Rest'
  BY <1>1, <1>i, <1>c DEF Call
<1>2. ASSUME NEW i \in CPU, LockBar(i) PROVE Rest'
  BY <1>2, <1>i, <1>c DEF LockBar, Acquire
<1>3. ASSUME NEW i \in CPU, TestState(i) PROVE Rest'
  BY <1>3, <1>i, <1>c DEF TestState
<1>4. ASSUME NEW i \in CPU, PollTest(i) PROVE Rest'
  <2>1. \A k \in CPU : k # i => owner # k
    BY <1>4, <1>i DEF PollTest
  <2>2. waiting[bar[i]] = 0 => current_state[bar[i]] = 1
    BY <1>4, <1>i, <2>1 DEF PollTest, IInv, ReopenInv
  <2> QED
    BY <1>4, <1>i, <1>c, <2>2 DEF PollTest
<1>5. ASSUME NEW i \in CPU, PollUnlock(i) PROVE Rest'
  BY <1>5, <1>i, <1>c DEF PollUnlock, Release
<1>6. ASSUME NEW i \in CPU, PollRelock(i) PROVE Rest'
  BY <1>6, <1>i, <1>c DEF PollRelock, Acquire
<1>7. ASSUME NEW i \in CPU, Bump(i) PROVE Rest'
  BY <1>7, <1>i, <1>c DEF Bump, Succ
<1>8. ASSUME NEW i \in CPU, Close(i) PROVE Rest'
  BY <1>8, <1>i, <1>c DEF Close
<1>9. ASSUME NEW i \in CPU, IncLoad(i) PROVE Rest'
  BY <1>9, <1>i, <1>c DEF IncLoad, Load
<1>10. ASSUME NEW i \in CPU, IncStore(i) PROVE Rest'
  BY <1>10, <1>i, <1>c DEF IncStore
<1>11. ASSUME NEW i \in CPU, Compare(i) PROVE Rest'
  BY <1>11, <1>i, <1>c DEF Compare
<1>12. ASSUME NEW i \in CPU, Open(i) PROVE Rest'
  BY <1>12, <1>i, <1>c DEF Open
<1>13. ASSUME NEW i \in CPU, Sev(i) PROVE Rest'
  BY <1>13, <1>i, <1>c DEF Sev
<1>14. ASSUME NEW i \in CPU, UnlockBar(i) PROVE Rest'
  BY <1>14, <1>i, <1>c DEF UnlockBar, Release
<1>15. ASSUME NEW i \in CPU, ReadIter(i) PROVE Rest'
  BY <1>15, <1>i, <1>c DEF ReadIter
<1>16. ASSUME NEW i \in CPU, WaitState(i) PROVE Rest'
  BY <1>16, <1>i, <1>c DEF WaitState
<1>17. ASSUME NEW i \in CPU, Wfe(i) PROVE Rest'
  BY <1>17, <1>i, <1>c DEF Wfe
<1>18. ASSUME NEW i \in CPU, AtomicDec(i) PROVE Rest'
  BY <1>18, <1>i, <1>c DEF AtomicDec
<1>19. ASSUME NEW i \in CPU, DecLock(i) PROVE Rest'
  BY <1>19, <1>i, <1>c DEF DecLock, Acquire
<1>20. ASSUME NEW i \in CPU, DecLoad(i) PROVE Rest'
  BY <1>20, <1>i, <1>c DEF DecLoad, Load
<1>21. ASSUME NEW i \in CPU, DecStore(i) PROVE Rest'
  BY <1>21, <1>i, <1>c DEF DecStore
<1>22. ASSUME NEW i \in CPU, DecUnlock(i) PROVE Rest'
  BY <1>22, <1>i, <1>c DEF DecUnlock, Release
<1>23. ASSUME NEW i \in CPU, SlowIter(i) PROVE Rest'
  BY <1>23, <1>i, <1>c DEF SlowIter, LoopOrReturn
<1>24. ASSUME NEW i \in CPU, SlowWait(i) PROVE Rest'
  BY <1>24, <1>i, <1>c DEF SlowWait, LoopOrReturn
<1>25. ASSUME NEW b \in Bar, Regroup(b) PROVE Rest'
  <2>1. \A c \in Bar : members'[c] \in Groups[c]
    BY <1>25, <1>i DEF Regroup
  <2>2. \A i \in CPU : pc[i] # "idle" => members'[bar[i]] = members[bar[i]]
    BY <1>25, <1>i DEF Regroup
  <2> QED
    BY <1>25, <1>i, <2>1, <2>2 DEF Regroup
<1>26. CASE UNCHANGED vars
  BY <1>26, <1>i DEF vars
<1>27. QED
  BY <1>1, <1>2, <1>3, <1>4, <1>5, <1>6, <1>7, <1>8, <1>9, <1>10, <1>11, <1>12, <1>13, <1>14, <1>15, <1>16, <1>17, <1>18, <1>19, <1>20, <1>21, <1>22, <1>23, <1>24, <1>25, <1>26 DEF Next, bwait, Arriving, Leaving

LEMMA ReopenStep ==
  ASSUME IInv, [Next]_vars
  PROVE  ReopenInv'
<1> USE CPUAssumption
<1> USE DEF TypeOK, Goto, PC, Before, Counted, Tail, Locked, LockInv, OpenedInv, TmpInv, ReopenInv
<1>i. TypeOK /\ LockInv /\ OpenedInv /\ TmpInv /\ ReopenInv
  BY DEF IInv
<1>1. ASSUME NEW i \in CPU, Call(i) PROVE ReopenInv'
  BY <1>1, <1>i DEF Call
<1>2. ASSUME NEW i \in CPU, LockBar(i) PROVE ReopenInv'
  BY <1>2, <1>i DEF LockBar, Acquire
<1>3. ASSUME NEW i \in CPU, TestState(i) PROVE ReopenInv'
  BY <1>3, <1>i DEF TestState
<1>4. ASSUME NEW i \in CPU, PollTest(i) PROVE ReopenInv'
  BY <1>4, <1>i DEF PollTest
<1>5. ASSUME NEW i \in CPU, PollUnlock(i) PROVE ReopenInv'
  BY <1>5, <1>i DEF PollUnlock, Release
<1>6. ASSUME NEW i \in CPU, PollRelock(i) PROVE ReopenInv'
  BY <1>6, <1>i DEF PollRelock, Acquire
<1>7. ASSUME NEW i \in CPU, Bump(i) PROVE ReopenInv'
  BY <1>7, <1>i DEF Bump, Succ
<1>8. ASSUME NEW i \in CPU, Close(i) PROVE ReopenInv'
  BY <1>8, <1>i DEF Close
<1>9. ASSUME NEW i \in CPU, IncLoad(i) PROVE ReopenInv'
  BY <1>9, <1>i DEF IncLoad, Load
<1>10. ASSUME NEW i \in CPU, IncStore(i) PROVE ReopenInv'
  BY <1>10, <1>i DEF IncStore
<1>11. ASSUME NEW i \in CPU, Compare(i) PROVE ReopenInv'
  BY <1>11, <1>i DEF Compare
<1>12. ASSUME NEW i \in CPU, Open(i) PROVE ReopenInv'
  BY <1>12, <1>i DEF Open
<1>13. ASSUME NEW i \in CPU, Sev(i) PROVE ReopenInv'
  BY <1>13, <1>i DEF Sev
<1>14. ASSUME NEW i \in CPU, UnlockBar(i) PROVE ReopenInv'
  BY <1>14, <1>i DEF UnlockBar, Release
<1>15. ASSUME NEW i \in CPU, ReadIter(i) PROVE ReopenInv'
  BY <1>15, <1>i DEF ReadIter
<1>16. ASSUME NEW i \in CPU, WaitState(i) PROVE ReopenInv'
  BY <1>16, <1>i DEF WaitState
<1>17. ASSUME NEW i \in CPU, Wfe(i) PROVE ReopenInv'
  BY <1>17, <1>i DEF Wfe
<1>18. ASSUME NEW i \in CPU, AtomicDec(i) PROVE ReopenInv'
  BY <1>18, <1>i DEF AtomicDec
<1>19. ASSUME NEW i \in CPU, DecLock(i) PROVE ReopenInv'
  BY <1>19, <1>i DEF DecLock, Acquire
<1>20. ASSUME NEW i \in CPU, DecLoad(i) PROVE ReopenInv'
  BY <1>20, <1>i DEF DecLoad, Load
<1>21. ASSUME NEW i \in CPU, DecStore(i) PROVE ReopenInv'
  BY <1>21, <1>i DEF DecStore
<1>22. ASSUME NEW i \in CPU, DecUnlock(i) PROVE ReopenInv'
  BY <1>22, <1>i DEF DecUnlock, Release
<1>23. ASSUME NEW i \in CPU, SlowIter(i) PROVE ReopenInv'
  BY <1>23, <1>i DEF SlowIter, LoopOrReturn
<1>24. ASSUME NEW i \in CPU, SlowWait(i) PROVE ReopenInv'
  BY <1>24, <1>i DEF SlowWait, LoopOrReturn
<1>25. ASSUME NEW b \in Bar, Regroup(b) PROVE ReopenInv'
  BY <1>25, <1>i DEF Regroup
<1>26. CASE UNCHANGED vars
  BY <1>26, <1>i DEF vars
<1>27. QED
  BY <1>1, <1>2, <1>3, <1>4, <1>5, <1>6, <1>7, <1>8, <1>9, <1>10, <1>11, <1>12, <1>13, <1>14, <1>15, <1>16, <1>17, <1>18, <1>19, <1>20, <1>21, <1>22, <1>23, <1>24, <1>25, <1>26 DEF Next, bwait, Arriving, Leaving

(* The barriers whose users are as many as the sz they pass. *)
Rounds == RoundInv /\ TailInv /\ LoopInv

LEMMA RoundStep ==
  ASSUME IInv, [Next]_vars
  PROVE  Rounds'
<1> USE CPUAssumption, IterAssumption
<1> USE DEF TypeOK, Goto, PC, Before, Counted, Tail, Locked, Restarting,
            LockInv, GroupInv, ClosedInv, OpenedInv, EdgeInv, IterStable,
            Rounds, RoundInv, TailInv, LoopInv
<1>i. TypeOK /\ LockInv /\ GroupInv /\ ClosedInv /\ OpenedInv /\ EdgeInv /\ IterStable /\ Rounds
  BY DEF IInv
<1>b. ExactBars \subseteq Bar
  BY DEF ExactBars
<1>c. \A j \in CPU : pc[j] \in Counted => waiting[bar[j]] > 0
  BY CountFacts DEF IInv
<1>1. ASSUME NEW i \in CPU, Call(i) PROVE Rounds'
  BY <1>1, <1>i, <1>b, <1>c DEF Call
<1>2. ASSUME NEW i \in CPU, LockBar(i) PROVE Rounds'
  BY <1>2, <1>i, <1>b, <1>c DEF LockBar, Acquire
<1>3. ASSUME NEW i \in CPU, TestState(i) PROVE Rounds'
  BY <1>3, <1>i, <1>b, <1>c DEF TestState
<1>4. ASSUME NEW i \in CPU, PollTest(i) PROVE Rounds'
  BY <1>4, <1>i, <1>b, <1>c DEF PollTest
<1>5. ASSUME NEW i \in CPU, PollUnlock(i) PROVE Rounds'
  BY <1>5, <1>i, <1>b, <1>c DEF PollUnlock, Release
<1>6. ASSUME NEW i \in CPU, PollRelock(i) PROVE Rounds'
  BY <1>6, <1>i, <1>b, <1>c DEF PollRelock, Acquire
<1>7. ASSUME NEW i \in CPU, Bump(i) PROVE Rounds'
  BY <1>7, <1>i, <1>b, <1>c DEF Bump, Succ
<1>8. ASSUME NEW i \in CPU, Close(i) PROVE Rounds'
  BY <1>8, <1>i, <1>b, <1>c DEF Close
<1>9. ASSUME NEW i \in CPU, IncLoad(i) PROVE Rounds'
  BY <1>9, <1>i, <1>b, <1>c DEF IncLoad, Load
<1>10. ASSUME NEW i \in CPU, IncStore(i) PROVE Rounds'
  BY <1>10, <1>i, <1>b, <1>c DEF IncStore
<1>11. ASSUME NEW i \in CPU, Compare(i) PROVE Rounds'
  BY <1>11, <1>i, <1>b, <1>c DEF Compare
<1>12. ASSUME NEW i \in CPU, Open(i) PROVE Rounds'
  <2>1. bar[i] \in ExactBars => members[bar[i]] = In(bar[i])
    BY <1>12, <1>i, FullGroup DEF Open, IInv
  <2>2. bar[i] \in ExactBars => \A j \in members[bar[i]] : bar[j] = bar[i] /\ pc[j] \in Counted
    BY <2>1 DEF In
  <2> QED
    BY <1>12, <1>i, <1>b, <1>c, <2>2 DEF Open
<1>13. ASSUME NEW i \in CPU, Sev(i) PROVE Rounds'
  BY <1>13, <1>i, <1>b, <1>c DEF Sev
<1>14. ASSUME NEW i \in CPU, UnlockBar(i) PROVE Rounds'
  BY <1>14, <1>i, <1>b, <1>c DEF UnlockBar, Release
<1>15. ASSUME NEW i \in CPU, ReadIter(i) PROVE Rounds'
  BY <1>15, <1>i, <1>b, <1>c DEF ReadIter
<1>16. ASSUME NEW i \in CPU, WaitState(i) PROVE Rounds'
  BY <1>16, <1>i, <1>b, <1>c DEF WaitState
<1>17. ASSUME NEW i \in CPU, Wfe(i) PROVE Rounds'
  BY <1>17, <1>i, <1>b, <1>c DEF Wfe
<1>18. ASSUME NEW i \in CPU, AtomicDec(i) PROVE Rounds'
  BY <1>18, <1>i, <1>b, <1>c DEF AtomicDec
<1>19. ASSUME NEW i \in CPU, DecLock(i) PROVE Rounds'
  BY <1>19, <1>i, <1>b, <1>c DEF DecLock, Acquire
<1>20. ASSUME NEW i \in CPU, DecLoad(i) PROVE Rounds'
  BY <1>20, <1>i, <1>b, <1>c DEF DecLoad, Load
<1>21. ASSUME NEW i \in CPU, DecStore(i) PROVE Rounds'
  BY <1>21, <1>i, <1>b, <1>c DEF DecStore
<1>22. ASSUME NEW i \in CPU, DecUnlock(i) PROVE Rounds'
  BY <1>22, <1>i, <1>b, <1>c DEF DecUnlock, Release
<1>23. ASSUME NEW i \in CPU, SlowIter(i) PROVE Rounds'
  BY <1>23, <1>i, <1>b, <1>c DEF SlowIter, LoopOrReturn
<1>24. ASSUME NEW i \in CPU, SlowWait(i) PROVE Rounds'
  BY <1>24, <1>i, <1>b, <1>c DEF SlowWait, LoopOrReturn
<1>25. ASSUME NEW b \in Bar, Regroup(b) PROVE Rounds'
  <2>1. In(b) = {}
    BY <1>25 DEF Regroup, In
  <2>2. Cardinality(In(b)) = 0
    BY <2>1, FS_EmptySet
  <2>3. waiting[b] = 0
    BY <2>2 DEF IInv, CountExact
  <2> QED
    BY <1>25, <1>i, <1>b, <2>3 DEF Regroup
<1>26. CASE UNCHANGED vars
  BY <1>26, <1>i DEF vars
<1>27. QED
  BY <1>1, <1>2, <1>3, <1>4, <1>5, <1>6, <1>7, <1>8, <1>9, <1>10, <1>11, <1>12, <1>13, <1>14, <1>15, <1>16, <1>17, <1>18, <1>19, <1>20, <1>21, <1>22, <1>23, <1>24, <1>25, <1>26 DEF Next, bwait, Arriving, Leaving

-----------------------------------------------------------------------------
LEMMA InvInit == Init => IInv
<1> SUFFICES ASSUME Init PROVE IInv
  OBVIOUS
<1> USE CPUAssumption, SizeAssumption, GroupsAssumption, IterAssumption
<1>1. TypeOK
  BY DEF Init, BarInit, TypeOK, PC
<1>2. Rest
  BY DEF Init, BarInit, Rest, Locked, LockInv, GroupInv, BuildInv, ClosedInv, OpenedInv,
         EdgeInv, TmpInv, IterStable
<1>4. ReopenInv /\ Rounds
  BY DEF Init, BarInit, ReopenInv, Rounds, RoundInv, TailInv, LoopInv, ExactBars, Tail
<1>3. CountExact
  <2> SUFFICES ASSUME NEW b \in Bar PROVE waiting[b] = Cardinality(In(b))
    BY DEF CountExact
  <2>1. In(b) = {}
    BY DEF Init, In, Counted
  <2>2. Cardinality(In(b)) = 0
    BY <2>1, FS_EmptySet
  <2> QED
    BY <2>2 DEF Init, BarInit
<1> QED
  BY <1>1, <1>2, <1>3, <1>4 DEF IInv, Rest, Rounds

LEMMA InvStep == IInv /\ [Next]_vars => IInv'
<1> SUFFICES ASSUME IInv, [Next]_vars PROVE IInv'
  OBVIOUS
<1>1. CanDec
  <2>1. TypeOK /\ CountExact
    BY DEF IInv
  <2> QED
    BY <2>1, CountFacts DEF CanDec, Counted
<1>2. TypeOK'
  BY <1>1, TypeStep DEF IInv
<1>3. CountExact'
  BY CountStep
<1>4. Rest' /\ ReopenInv' /\ Rounds'
  BY RestStep, ReopenStep, RoundStep
<1> QED
  BY <1>2, <1>3, <1>4 DEF IInv, Rest, Rounds

(* The invariant, whatever CPUs use a barrier.                             *)
THEOREM BarrierInvariant == Spec => []IInv
<1>1. Init => IInv
  BY InvInit
<1>2. IInv /\ [Next]_vars => IInv'
  BY InvStep
<1> QED
  BY <1>1, <1>2, PTL DEF Spec

(* bwait (sync.c:165-226): all its variables keep the ranges of their C    *)
(* types; in particular waiting never drops below zero.                    *)
THEOREM BarrierTypeOK == Spec => []TypeOK
<1>1. IInv => TypeOK
  BY DEF IInv
<1> QED
  BY <1>1, BarrierInvariant, PTL

(* sync.c:191,210,213: no increment or decrement of waiting is lost.       *)
THEOREM BarrierCountExact == Spec => []CountExact
<1>1. IInv => CountExact
  BY DEF IInv
<1> QED
  BY <1>1, BarrierInvariant, PTL

(* sync.c:191 and 210: the plain increments and the atomic decrements of   *)
(* one barrier are never under way at the same time.                       *)
THEOREM BarrierNoMixedPhases == Spec => []NoMixedPhases
<1>1. IInv => NoMixedPhases
  BY DEF IInv, ClosedInv, OpenedInv, NoMixedPhases, TypeOK
<1> QED
  BY <1>1, BarrierInvariant, PTL

(* sync.c:205: reading iteration after UNLOCK reads the caller's round.    *)
THEOREM BarrierIterStable == Spec => []IterStable
<1>1. IInv => IterStable
  BY DEF IInv
<1> QED
  BY <1>1, BarrierInvariant, PTL

LEMMA AllExact == ExactGroups => ExactBars = Bar
BY DEF ExactGroups, ExactBars

(* sync.c:178-185: the loop that waits out an earlier round never turns.   *)
THEOREM BarrierPollUnused == ASSUME ExactGroups PROVE Spec => []PollUnused
<1>1. IInv => PollUnused
  BY AllExact DEF IInv, TypeOK, LoopInv, PollUnused
<1> QED
  BY <1>1, BarrierInvariant, PTL

-----------------------------------------------------------------------------
(* Refinement: every step of bwait is a step of the rendezvous or leaves   *)
(* the rendezvous as it was.                                               *)
LEMMA RefineInit == Init => R!RInit
BY DEF Init, R!RInit, phase, PhaseOf, Counted, Tail

LEMMA PhaseSame ==
  ASSUME members' = members,
         \A b \in Bar : \A i \in CPU : PhaseOf(b, i)' = PhaseOf(b, i)
  PROVE  UNCHANGED R!rvars
BY DEF phase, R!rvars

LEMMA PhaseMove ==
  ASSUME NEW b \in Bar, NEW i \in CPU, NEW to,
         PhaseOf(b, i)' = to,
         \A c \in Bar : \A j \in CPU :
           (c # b \/ j # i) => PhaseOf(c, j)' = PhaseOf(c, j)
  PROVE  phase' = [phase EXCEPT ![b][i] = to]
BY DEF phase

LEMMA RefineStep ==
  ASSUME ExactGroups, IInv, [Next]_vars
  PROVE  [R!RNext]_(R!rvars)
<1> USE DEF IInv, TypeOK, Goto, Counted, Tail
<1>c. \A j \in CPU : pc[j] \in Counted => waiting[bar[j]] > 0
  BY CountFacts
<1>p. \A b \in Bar, i \in CPU : phase[b][i] = PhaseOf(b, i)
  BY DEF phase
<1>1. ASSUME NEW i \in CPU, Call(i) PROVE UNCHANGED R!rvars
  <2>1. \A b \in Bar : \A j \in CPU : PhaseOf(b, j)' = PhaseOf(b, j)
    BY <1>1 DEF Call, PhaseOf
  <2> QED
    BY <1>1, <2>1, PhaseSame DEF Call
<1>2. ASSUME NEW i \in CPU, LockBar(i) PROVE UNCHANGED R!rvars
  <2>1. \A b \in Bar : \A j \in CPU : PhaseOf(b, j)' = PhaseOf(b, j)
    BY <1>2 DEF LockBar, Acquire, PhaseOf
  <2> QED
    BY <1>2, <2>1, PhaseSame DEF LockBar, Acquire
<1>3. ASSUME NEW i \in CPU, TestState(i) PROVE UNCHANGED R!rvars
  <2>1. \A b \in Bar : \A j \in CPU : PhaseOf(b, j)' = PhaseOf(b, j)
    BY <1>3 DEF TestState, PhaseOf
  <2> QED
    BY <1>3, <2>1, PhaseSame DEF TestState
<1>4. ASSUME NEW i \in CPU, PollTest(i) PROVE UNCHANGED R!rvars
  <2>1. \A b \in Bar : \A j \in CPU : PhaseOf(b, j)' = PhaseOf(b, j)
    BY <1>4 DEF PollTest, PhaseOf
  <2> QED
    BY <1>4, <2>1, PhaseSame DEF PollTest
<1>5. ASSUME NEW i \in CPU, PollUnlock(i) PROVE UNCHANGED R!rvars
  <2>1. \A b \in Bar : \A j \in CPU : PhaseOf(b, j)' = PhaseOf(b, j)
    BY <1>5 DEF PollUnlock, Release, PhaseOf
  <2> QED
    BY <1>5, <2>1, PhaseSame DEF PollUnlock, Release
<1>6. ASSUME NEW i \in CPU, PollRelock(i) PROVE UNCHANGED R!rvars
  <2>1. \A b \in Bar : \A j \in CPU : PhaseOf(b, j)' = PhaseOf(b, j)
    BY <1>6 DEF PollRelock, Acquire, PhaseOf
  <2> QED
    BY <1>6, <2>1, PhaseSame DEF PollRelock, Acquire
<1>7. ASSUME NEW i \in CPU, Bump(i) PROVE UNCHANGED R!rvars
  <2>1. \A b \in Bar : \A j \in CPU : PhaseOf(b, j)' = PhaseOf(b, j)
    BY <1>7 DEF Bump, Succ, PhaseOf
  <2> QED
    BY <1>7, <2>1, PhaseSame DEF Bump, Succ
<1>8. ASSUME NEW i \in CPU, Close(i) PROVE UNCHANGED R!rvars
  <2>1. \A b \in Bar : \A j \in CPU : PhaseOf(b, j)' = PhaseOf(b, j)
    BY <1>8, <1>c DEF Close, PhaseOf, EdgeInv, OpenedInv
  <2> QED
    BY <1>8, <2>1, PhaseSame DEF Close
<1>9. ASSUME NEW i \in CPU, IncLoad(i) PROVE UNCHANGED R!rvars
  <2>1. \A b \in Bar : \A j \in CPU : PhaseOf(b, j)' = PhaseOf(b, j)
    BY <1>9 DEF IncLoad, Load, PhaseOf
  <2> QED
    BY <1>9, <2>1, PhaseSame DEF IncLoad, Load
<1>10. ASSUME NEW i \in CPU, IncStore(i) PROVE R!RNext
  <2>1. phase' = [phase EXCEPT ![bar[i]][i] = "in"]
    BY <1>10, PhaseMove DEF IncStore, PhaseOf, ClosedInv
  <2>2. R!Arrive(bar[i], i)
    BY <1>10, <1>p, <2>1 DEF IncStore, R!Arrive, PhaseOf, GroupInv
  <2> QED
    BY <2>2 DEF R!RNext
<1>11. ASSUME NEW i \in CPU, Compare(i) PROVE UNCHANGED R!rvars
  <2>1. \A b \in Bar : \A j \in CPU : PhaseOf(b, j)' = PhaseOf(b, j)
    BY <1>11 DEF Compare, PhaseOf
  <2> QED
    BY <1>11, <2>1, PhaseSame DEF Compare
<1>12. ASSUME NEW i \in CPU, Open(i) PROVE R!RNext
  <2> PICK b \in Bar : b = bar[i]
    OBVIOUS
  <2>1. b \in Bar /\ members[b] = In(b)
    BY <1>12, AllExact, FullGroup DEF Open, EdgeInv
  <2>2. current_state[b] = 0 /\ current_state' = [current_state EXCEPT ![b] = 1]
    BY <1>12 DEF Open, ClosedInv
  <2>3. \A j \in CPU : PhaseOf(b, j)' = IF j \in members[b] THEN "go" ELSE PhaseOf(b, j)
    BY <1>12, <2>1, <2>2 DEF Open, PhaseOf, In, GroupInv
  <2>4. \A c \in Bar : c # b => \A j \in CPU : PhaseOf(c, j)' = PhaseOf(c, j)
    BY <1>12, <2>2 DEF Open, PhaseOf
  <2>5. \A j \in members[b] : phase[b][j] = "in"
    BY <1>p, <2>1, <2>2 DEF PhaseOf, In
  <2>6. phase' = [phase EXCEPT ![b] = [j \in CPU |-> IF j \in members[b] THEN "go" ELSE @[j]]]
    <3>1. phase'[b] = [j \in CPU |-> IF j \in members[b] THEN "go" ELSE phase[b][j]]
      <4>1. phase'[b] = [j \in CPU |-> PhaseOf(b, j)']
        BY <2>1 DEF phase
      <4>2. \A j \in CPU : PhaseOf(b, j)' = IF j \in members[b] THEN "go" ELSE phase[b][j]
        BY <1>p, <2>1, <2>3
      <4> QED
        BY <4>1, <4>2
    <3>2. \A c \in Bar : c # b => phase'[c] = phase[c]
      BY <2>4 DEF phase
    <3>3. phase' = [c \in Bar |-> phase'[c]] /\ phase = [c \in Bar |-> phase[c]]
      BY DEF phase
    <3> QED
      BY <2>1, <3>1, <3>2, <3>3
  <2>7. R!Release(b)
    BY <1>12, <2>5, <2>6 DEF Open, R!Release
  <2> QED
    BY <2>1, <2>7 DEF R!RNext
<1>13. ASSUME NEW i \in CPU, Sev(i) PROVE UNCHANGED R!rvars
  <2>1. \A b \in Bar : \A j \in CPU : PhaseOf(b, j)' = PhaseOf(b, j)
    BY <1>13 DEF Sev, PhaseOf
  <2> QED
    BY <1>13, <2>1, PhaseSame DEF Sev
<1>14. ASSUME NEW i \in CPU, UnlockBar(i) PROVE UNCHANGED R!rvars
  <2>1. \A b \in Bar : \A j \in CPU : PhaseOf(b, j)' = PhaseOf(b, j)
    BY <1>14 DEF UnlockBar, Release, PhaseOf
  <2> QED
    BY <1>14, <2>1, PhaseSame DEF UnlockBar, Release
<1>15. ASSUME NEW i \in CPU, ReadIter(i) PROVE UNCHANGED R!rvars
  <2>1. \A b \in Bar : \A j \in CPU : PhaseOf(b, j)' = PhaseOf(b, j)
    BY <1>15 DEF ReadIter, PhaseOf
  <2> QED
    BY <1>15, <2>1, PhaseSame DEF ReadIter
<1>16. ASSUME NEW i \in CPU, WaitState(i) PROVE UNCHANGED R!rvars
  <2>1. \A b \in Bar : \A j \in CPU : PhaseOf(b, j)' = PhaseOf(b, j)
    BY <1>16 DEF WaitState, PhaseOf
  <2> QED
    BY <1>16, <2>1, PhaseSame DEF WaitState
<1>17. ASSUME NEW i \in CPU, Wfe(i) PROVE UNCHANGED R!rvars
  <2>1. \A b \in Bar : \A j \in CPU : PhaseOf(b, j)' = PhaseOf(b, j)
    BY <1>17 DEF Wfe, PhaseOf
  <2> QED
    BY <1>17, <2>1, PhaseSame DEF Wfe
<1>18. ASSUME NEW i \in CPU, AtomicDec(i) PROVE R!RNext
  <2>1. phase' = [phase EXCEPT ![bar[i]][i] = "passed"]
    BY <1>18, PhaseMove DEF AtomicDec, PhaseOf
  <2>2. R!Pass(bar[i], i)
    BY <1>18, <1>p, <2>1 DEF AtomicDec, R!Pass, PhaseOf, OpenedInv
  <2> QED
    BY <2>2 DEF R!RNext
<1>19. ASSUME NEW i \in CPU, DecLock(i) PROVE UNCHANGED R!rvars
  <2>1. \A b \in Bar : \A j \in CPU : PhaseOf(b, j)' = PhaseOf(b, j)
    BY <1>19 DEF DecLock, Acquire, PhaseOf
  <2> QED
    BY <1>19, <2>1, PhaseSame DEF DecLock, Acquire
<1>20. ASSUME NEW i \in CPU, DecLoad(i) PROVE UNCHANGED R!rvars
  <2>1. \A b \in Bar : \A j \in CPU : PhaseOf(b, j)' = PhaseOf(b, j)
    BY <1>20 DEF DecLoad, Load, PhaseOf
  <2> QED
    BY <1>20, <2>1, PhaseSame DEF DecLoad, Load
<1>21. ASSUME NEW i \in CPU, DecStore(i) PROVE R!RNext
  <2>1. phase' = [phase EXCEPT ![bar[i]][i] = "passed"]
    BY <1>21, PhaseMove DEF DecStore, PhaseOf
  <2>2. R!Pass(bar[i], i)
    BY <1>21, <1>p, <2>1 DEF DecStore, R!Pass, PhaseOf, OpenedInv
  <2> QED
    BY <2>2 DEF R!RNext
<1>22. ASSUME NEW i \in CPU, DecUnlock(i) PROVE UNCHANGED R!rvars
  <2>1. \A b \in Bar : \A j \in CPU : PhaseOf(b, j)' = PhaseOf(b, j)
    BY <1>22 DEF DecUnlock, Release, PhaseOf
  <2> QED
    BY <1>22, <2>1, PhaseSame DEF DecUnlock, Release
<1>23. ASSUME NEW i \in CPU, SlowIter(i) PROVE R!RNext \/ UNCHANGED R!rvars
  <2>1. CASE pc'[i] # "idle"
    <3>1. \A b \in Bar : \A j \in CPU : PhaseOf(b, j)' = PhaseOf(b, j)
      BY <1>23, <2>1 DEF SlowIter, LoopOrReturn, PhaseOf
    <3> QED
      BY <1>23, <3>1, PhaseSame DEF SlowIter, LoopOrReturn
  <2>2. CASE pc'[i] = "idle"
    <3> PICK b \in Bar : b = bar[i]
      OBVIOUS
    <3>1. phase' = [phase EXCEPT ![b][i] = "out"]
      <4>1. PhaseOf(b, i)' = "out"
        BY <1>23, <2>2 DEF SlowIter, LoopOrReturn, PhaseOf
      <4>2. \A c \in Bar : \A j \in CPU :
              (c # b \/ j # i) => PhaseOf(c, j)' = PhaseOf(c, j)
        BY <1>23, <2>2 DEF SlowIter, LoopOrReturn, PhaseOf
      <4> QED
        BY <4>1, <4>2, PhaseMove
    <3>2. current_state[b] = 1 => waiting[b] = 0
      BY AllExact, <1>23, <2>2 DEF SlowIter, LoopOrReturn, RoundInv, GroupInv, TailInv, Restarting, EdgeInv
    <3>3. \A j \in CPU : phase[b][j] # "go"
      BY <1>c, <1>p, <3>2 DEF PhaseOf
    <3>4. phase[b][i] = "passed"
      BY <1>23, <1>p DEF SlowIter, LoopOrReturn, PhaseOf
    <3>5. R!Leave(b, i)
      BY <1>23, <3>1, <3>3, <3>4 DEF SlowIter, LoopOrReturn, R!Leave
    <3> QED
      BY <3>5 DEF R!RNext
  <2> QED
    BY <2>1, <2>2
<1>24. ASSUME NEW i \in CPU, SlowWait(i) PROVE R!RNext \/ UNCHANGED R!rvars
  <2>1. CASE pc'[i] # "idle"
    <3>1. \A b \in Bar : \A j \in CPU : PhaseOf(b, j)' = PhaseOf(b, j)
      BY <1>24, <2>1 DEF SlowWait, LoopOrReturn, PhaseOf
    <3> QED
      BY <1>24, <3>1, PhaseSame DEF SlowWait, LoopOrReturn
  <2>2. CASE pc'[i] = "idle"
    <3> PICK b \in Bar : b = bar[i]
      OBVIOUS
    <3>1. phase' = [phase EXCEPT ![b][i] = "out"]
      <4>1. PhaseOf(b, i)' = "out"
        BY <1>24, <2>2 DEF SlowWait, LoopOrReturn, PhaseOf
      <4>2. \A c \in Bar : \A j \in CPU :
              (c # b \/ j # i) => PhaseOf(c, j)' = PhaseOf(c, j)
        BY <1>24, <2>2 DEF SlowWait, LoopOrReturn, PhaseOf
      <4> QED
        BY <4>1, <4>2, PhaseMove
    <3>2. current_state[b] = 1 => waiting[b] = 0
      BY AllExact, <1>24, <2>2 DEF SlowWait, LoopOrReturn, RoundInv, GroupInv, TailInv, Restarting, EdgeInv
    <3>3. \A j \in CPU : phase[b][j] # "go"
      BY <1>c, <1>p, <3>2 DEF PhaseOf
    <3>4. phase[b][i] = "passed"
      BY <1>24, <1>p DEF SlowWait, LoopOrReturn, PhaseOf
    <3>5. R!Leave(b, i)
      BY <1>24, <3>1, <3>3, <3>4 DEF SlowWait, LoopOrReturn, R!Leave
    <3> QED
      BY <3>5 DEF R!RNext
  <2> QED
    BY <2>1, <2>2
<1>25. ASSUME NEW b \in Bar, Regroup(b) PROVE R!RNext
  <2>1. \A c \in Bar : \A j \in CPU : PhaseOf(c, j)' = PhaseOf(c, j)
    BY <1>25 DEF Regroup, PhaseOf
  <2>2. phase' = phase
    BY <2>1 DEF phase
  <2>3. \A j \in CPU : phase[b][j] = "out"
    BY <1>25, <1>p DEF Regroup, PhaseOf
  <2>4. R!Regroup(b)
    BY <1>25, <2>2, <2>3 DEF Regroup, R!Regroup
  <2> QED
    BY <2>4 DEF R!RNext
<1>26. CASE UNCHANGED vars
  <2>1. \A c \in Bar : \A j \in CPU : PhaseOf(c, j)' = PhaseOf(c, j)
    BY <1>26 DEF vars, PhaseOf
  <2> QED
    BY <1>26, <2>1, PhaseSame DEF vars
<1>27. QED
  BY <1>1, <1>2, <1>3, <1>4, <1>5, <1>6, <1>7, <1>8, <1>9, <1>10, <1>11, <1>12, <1>13, <1>14, <1>15, <1>16, <1>17, <1>18, <1>19, <1>20, <1>21, <1>22, <1>23, <1>24, <1>25, <1>26 DEF Next, bwait, Arriving, Leaving

(* bwait implements the rendezvous: nobody is released before the whole    *)
(* group has called, and nobody returns before every member has noticed    *)
(* the release (sync.c:157-161 and 217-225).                               *)
THEOREM BarrierRefines == ASSUME ExactGroups PROVE Spec => Rendezvous
<1>1. Init => R!RInit
  BY RefineInit
<1>2. IInv /\ [Next]_vars => [R!RNext]_(R!rvars)
  BY RefineStep
<1>3. Spec => []IInv
  BY BarrierInvariant
<1> QED
  BY <1>1, <1>2, <1>3, PTL DEF Spec, Rendezvous, R!RSpec

-----------------------------------------------------------------------------
(* Nobody is stuck. *)

(* A barrier that is not open yet has its last caller counted only while   *)
(* that caller is about to open it. *)
FullInv ==
  \A b \in Bar :
    current_state[b] = 0 /\ waiting[b] = Size[b] =>
      \E i \in CPU : bar[i] = b /\ pc[i] \in {"compare", "open"}

(* Whoever sleeps at an open barrier is about to be woken. *)
WakeInv ==
  \A i \in CPU :
    pc[i] = "wfe" /\ ~event[i] /\ current_state[bar[i]] = 1 =>
      \E k \in CPU : pc[k] = "sev" /\ bar[k] = bar[i]

LEMMA WakeInit == Init => FullInv /\ WakeInv
BY SizeAssumption DEF Init, BarInit, FullInv, WakeInv

LEMMA FullStep ==
  ASSUME IInv, FullInv, [Next]_vars
  PROVE  FullInv'
<1> USE CPUAssumption, SizeAssumption
<1> USE DEF TypeOK, Goto, ClosedInv, OpenedInv, EdgeInv, TmpInv, FullInv
<1>i. TypeOK /\ ClosedInv /\ OpenedInv /\ EdgeInv /\ TmpInv /\ FullInv
  BY DEF IInv
<1>1. ASSUME NEW i \in CPU, Call(i) PROVE FullInv'
  BY <1>1, <1>i DEF Call
<1>2. ASSUME NEW i \in CPU, LockBar(i) PROVE FullInv'
  BY <1>2, <1>i DEF LockBar, Acquire
<1>3. ASSUME NEW i \in CPU, TestState(i) PROVE FullInv'
  BY <1>3, <1>i DEF TestState
<1>4. ASSUME NEW i \in CPU, PollTest(i) PROVE FullInv'
  BY <1>4, <1>i DEF PollTest
<1>5. ASSUME NEW i \in CPU, PollUnlock(i) PROVE FullInv'
  BY <1>5, <1>i DEF PollUnlock, Release
<1>6. ASSUME NEW i \in CPU, PollRelock(i) PROVE FullInv'
  BY <1>6, <1>i DEF PollRelock, Acquire
<1>7. ASSUME NEW i \in CPU, Bump(i) PROVE FullInv'
  BY <1>7, <1>i DEF Bump, Succ
<1>8. ASSUME NEW i \in CPU, Close(i) PROVE FullInv'
  BY <1>8, <1>i DEF Close
<1>9. ASSUME NEW i \in CPU, IncLoad(i) PROVE FullInv'
  BY <1>9, <1>i DEF IncLoad, Load
<1>10. ASSUME NEW i \in CPU, IncStore(i) PROVE FullInv'
  BY <1>10, <1>i DEF IncStore
<1>11. ASSUME NEW i \in CPU, Compare(i) PROVE FullInv'
  BY <1>11, <1>i DEF Compare
<1>12. ASSUME NEW i \in CPU, Open(i) PROVE FullInv'
  BY <1>12, <1>i DEF Open
<1>13. ASSUME NEW i \in CPU, Sev(i) PROVE FullInv'
  BY <1>13, <1>i DEF Sev
<1>14. ASSUME NEW i \in CPU, UnlockBar(i) PROVE FullInv'
  BY <1>14, <1>i DEF UnlockBar, Release
<1>15. ASSUME NEW i \in CPU, ReadIter(i) PROVE FullInv'
  BY <1>15, <1>i DEF ReadIter
<1>16. ASSUME NEW i \in CPU, WaitState(i) PROVE FullInv'
  BY <1>16, <1>i DEF WaitState
<1>17. ASSUME NEW i \in CPU, Wfe(i) PROVE FullInv'
  BY <1>17, <1>i DEF Wfe
<1>18. ASSUME NEW i \in CPU, AtomicDec(i) PROVE FullInv'
  BY <1>18, <1>i DEF AtomicDec
<1>19. ASSUME NEW i \in CPU, DecLock(i) PROVE FullInv'
  BY <1>19, <1>i DEF DecLock, Acquire
<1>20. ASSUME NEW i \in CPU, DecLoad(i) PROVE FullInv'
  BY <1>20, <1>i DEF DecLoad, Load
<1>21. ASSUME NEW i \in CPU, DecStore(i) PROVE FullInv'
  BY <1>21, <1>i DEF DecStore
<1>22. ASSUME NEW i \in CPU, DecUnlock(i) PROVE FullInv'
  BY <1>22, <1>i DEF DecUnlock, Release
<1>23. ASSUME NEW i \in CPU, SlowIter(i) PROVE FullInv'
  BY <1>23, <1>i DEF SlowIter, LoopOrReturn
<1>24. ASSUME NEW i \in CPU, SlowWait(i) PROVE FullInv'
  BY <1>24, <1>i DEF SlowWait, LoopOrReturn
<1>25. ASSUME NEW b \in Bar, Regroup(b) PROVE FullInv'
  BY <1>25, <1>i DEF Regroup
<1>26. CASE UNCHANGED vars
  BY <1>26, <1>i DEF vars
<1>27. QED
  BY <1>1, <1>2, <1>3, <1>4, <1>5, <1>6, <1>7, <1>8, <1>9, <1>10, <1>11, <1>12, <1>13, <1>14, <1>15, <1>16, <1>17, <1>18, <1>19, <1>20, <1>21, <1>22, <1>23, <1>24, <1>25, <1>26 DEF Next, bwait, Arriving, Leaving

LEMMA WakeStep ==
  ASSUME IInv, WakeInv, [Next]_vars
  PROVE  WakeInv'
<1> USE DEF TypeOK, Goto, SyncEvent, AllEvents, WakeInv
<1>i. TypeOK /\ WakeInv
  BY DEF IInv
<1>1. ASSUME NEW i \in CPU, Call(i) PROVE WakeInv'
  BY <1>1, <1>i DEF Call
<1>2. ASSUME NEW i \in CPU, LockBar(i) PROVE WakeInv'
  BY <1>2, <1>i DEF LockBar, Acquire
<1>3. ASSUME NEW i \in CPU, TestState(i) PROVE WakeInv'
  BY <1>3, <1>i DEF TestState
<1>4. ASSUME NEW i \in CPU, PollTest(i) PROVE WakeInv'
  BY <1>4, <1>i DEF PollTest
<1>5. ASSUME NEW i \in CPU, PollUnlock(i) PROVE WakeInv'
  BY <1>5, <1>i DEF PollUnlock, Release
<1>6. ASSUME NEW i \in CPU, PollRelock(i) PROVE WakeInv'
  BY <1>6, <1>i DEF PollRelock, Acquire
<1>7. ASSUME NEW i \in CPU, Bump(i) PROVE WakeInv'
  BY <1>7, <1>i DEF Bump, Succ
<1>8. ASSUME NEW i \in CPU, Close(i) PROVE WakeInv'
  BY <1>8, <1>i DEF Close
<1>9. ASSUME NEW i \in CPU, IncLoad(i) PROVE WakeInv'
  BY <1>9, <1>i DEF IncLoad, Load
<1>10. ASSUME NEW i \in CPU, IncStore(i) PROVE WakeInv'
  BY <1>10, <1>i DEF IncStore
<1>11. ASSUME NEW i \in CPU, Compare(i) PROVE WakeInv'
  BY <1>11, <1>i DEF Compare
<1>12. ASSUME NEW i \in CPU, Open(i) PROVE WakeInv'
  BY <1>12, <1>i DEF Open
<1>13. ASSUME NEW i \in CPU, Sev(i) PROVE WakeInv'
  BY <1>13, <1>i DEF Sev
<1>14. ASSUME NEW i \in CPU, UnlockBar(i) PROVE WakeInv'
  BY <1>14, <1>i DEF UnlockBar, Release
<1>15. ASSUME NEW i \in CPU, ReadIter(i) PROVE WakeInv'
  BY <1>15, <1>i DEF ReadIter
<1>16. ASSUME NEW i \in CPU, WaitState(i) PROVE WakeInv'
  BY <1>16, <1>i DEF WaitState
<1>17. ASSUME NEW i \in CPU, Wfe(i) PROVE WakeInv'
  BY <1>17, <1>i DEF Wfe
<1>18. ASSUME NEW i \in CPU, AtomicDec(i) PROVE WakeInv'
  BY <1>18, <1>i DEF AtomicDec
<1>19. ASSUME NEW i \in CPU, DecLock(i) PROVE WakeInv'
  BY <1>19, <1>i DEF DecLock, Acquire
<1>20. ASSUME NEW i \in CPU, DecLoad(i) PROVE WakeInv'
  BY <1>20, <1>i DEF DecLoad, Load
<1>21. ASSUME NEW i \in CPU, DecStore(i) PROVE WakeInv'
  BY <1>21, <1>i DEF DecStore
<1>22. ASSUME NEW i \in CPU, DecUnlock(i) PROVE WakeInv'
  BY <1>22, <1>i DEF DecUnlock, Release
<1>23. ASSUME NEW i \in CPU, SlowIter(i) PROVE WakeInv'
  BY <1>23, <1>i DEF SlowIter, LoopOrReturn
<1>24. ASSUME NEW i \in CPU, SlowWait(i) PROVE WakeInv'
  BY <1>24, <1>i DEF SlowWait, LoopOrReturn
<1>25. ASSUME NEW b \in Bar, Regroup(b) PROVE WakeInv'
  BY <1>25, <1>i DEF Regroup
<1>26. CASE UNCHANGED vars
  BY <1>26, <1>i DEF vars
<1>27. QED
  BY <1>1, <1>2, <1>3, <1>4, <1>5, <1>6, <1>7, <1>8, <1>9, <1>10, <1>11, <1>12, <1>13, <1>14, <1>15, <1>16, <1>17, <1>18, <1>19, <1>20, <1>21, <1>22, <1>23, <1>24, <1>25, <1>26 DEF Next, bwait, Arriving, Leaving

(* Suppose everybody inside bwait is blocked.  Then nobody holds the lock, *)
(* for its holder is not; so nobody waits for it, and nobody sleeps at an  *)
(* open barrier.  If all members of the group have called, then either the *)
(* barrier is open and all are in the slow release, with nobody counted,   *)
(* or it is closed and all are counted, with nobody to open it: those in   *)
(* the slow release of a closed barrier see another iteration.             *)
LEMMA InvStuck == IInv /\ FullInv /\ WakeInv => StuckForWantOfCaller
<1> SUFFICES ASSUME IInv, FullInv, WakeInv,
                    \A i \in CPU : pc[i] # "idle" => Blocked(i),
                    NEW c \in CPU, pc[c] # "idle", bar[c] \in ExactBars,
                    \A n \in members[bar[c]] : pc[n] # "idle" /\ bar[n] = bar[c]
             PROVE  FALSE
  BY DEF StuckForWantOfCaller
<1> DEFINE b == bar[c]
<1>b. b \in ExactBars /\ b \in Bar
  BY DEF ExactBars
<1>m. members[b] \subseteq CPU /\ c \in members[b]
  BY <1>b DEF IInv, TypeOK, GroupInv
<1>1. \A i \in CPU : pc[i] \notin Locked
  BY DEF Blocked, Locked
<1>2. owner = NoCPU
  BY <1>1 DEF IInv, TypeOK, LockInv
<1>3. \A i \in CPU : pc[i] # "idle" => pc[i] \in {"wait", "wfe", "slowiter", "slowwait"}
  BY <1>2 DEF Blocked
<1>4. \A i \in CPU : pc[i] \in {"wait", "wfe"} => current_state[bar[i]] = 0
  <2> SUFFICES ASSUME NEW i \in CPU, pc[i] \in {"wait", "wfe"}, current_state[bar[i]] # 0
               PROVE  FALSE
    OBVIOUS
  <2>1. pc[i] = "wfe" /\ ~event[i]
    BY DEF Blocked
  <2>2. current_state[bar[i]] = 1
    BY DEF IInv, TypeOK
  <2> QED
    BY <1>1, <2>1, <2>2 DEF WakeInv, Locked
<1>5. In(b) \subseteq members[b]
  BY DEF In, IInv, GroupInv, Counted
<1>6. waiting[b] = Cardinality(In(b))
  BY <1>b DEF IInv, CountExact
<1>7. CASE current_state[b] = 1
  <2>1. \A n \in members[b] : pc[n] \in {"slowiter", "slowwait"}
    BY <1>3, <1>4, <1>7, <1>m
  <2>2. In(b) = {}
    BY <1>5, <2>1 DEF In, Counted
  <2>3. waiting[b] = 0
    BY <1>6, <2>2, FS_EmptySet
  <2>4. waiting[b] # 0
    BY <2>1, <1>m DEF Blocked
  <2> QED
    BY <2>3, <2>4
<1>8. CASE current_state[b] = 0
  <2>1. \A n \in members[b] : pc[n] \in {"wait", "wfe"}
    <3> SUFFICES ASSUME NEW n \in members[b], pc[n] \in {"slowiter", "slowwait"}
                 PROVE  FALSE
      BY <1>3, <1>m
    <3>1. n \in CPU /\ bar[n] = b
      BY <1>m
    <3>2. iteration[b] = iter[n]
      BY <3>1 DEF Blocked
    <3> QED
      BY <1>8, <1>b, <3>1, <3>2 DEF IInv, TailInv, Tail
  <2>2. In(b) = members[b]
    BY <1>5, <1>m, <2>1 DEF In, Counted
  <2>3. waiting[b] = Size[b]
    BY <1>6, <1>b, <2>2 DEF IInv, GroupInv, ExactBars
  <2> QED
    BY <1>1, <1>8, <1>b, <2>3 DEF FullInv, Locked
<1> QED
  BY <1>7, <1>8, <1>b DEF IInv, TypeOK

(* bwait (sync.c:165-226): when nobody inside gets any further, a member   *)
(* of the group has yet to call, at every barrier whose users are as many  *)
(* as the sz they pass, whatever the users of the others.                  *)
THEOREM BarrierStuckForWantOfCaller == Spec => []StuckForWantOfCaller
<1>1. IInv /\ FullInv /\ WakeInv /\ [Next]_vars => FullInv' /\ WakeInv'
  BY FullStep, WakeStep
<1>2. Spec => [](FullInv /\ WakeInv)
  BY <1>1, WakeInit, BarrierInvariant, PTL DEF Spec
<1> QED
  BY <1>2, InvStuck, BarrierInvariant, PTL
===============================================================================
