-------------------------------- MODULE Bakery --------------------------------
(***************************************************************************)
(* The lock of the build without pagetables: Lamport's bakery              *)
(* (lib/arch/sync.c:30-70, lamport_lock_t in inc/sync.h:10-14).            *)
(*                                                                         *)
(* Every read and write of the volatile arrays is a step of its own.  The  *)
(* code reads more often than the textbook does: get_ticket compares with  *)
(* number[j] and then reads it again for the assignment, and lex_less      *)
(* reads number[tid1] twice after lamport_lock has already looked at it.   *)
(* The dmb()s keep the writes and reads of a CPU in program order where    *)
(* it matters; memory is sequentially consistent here.                     *)
(*                                                                         *)
(* number[] is a 32-bit unsigned: MaxTicket bounds the tickets a CPU may   *)
(* find when it asks for the lock, so that no ticket ever wraps.           *)
(***************************************************************************)
EXTENDS Naturals

CONSTANTS
  NO_CPUS,     \* CPUs are 0 .. NO_CPUS-1, scanned in that order
  MaxTicket    \* bound: nobody asks while a larger ticket is held

ASSUME NoCpusAssumption == NO_CPUS \in Nat \ {0}
ASSUME TicketAssumption == MaxTicket \in Nat

CPU == 0 .. NO_CPUS - 1

VARIABLES
  entering,  \* lamport_lock_t.entering
  number,    \* lamport_lock_t.number
  pc,        \* where each CPU is
  j,         \* the loop variable of get_ticket, then of lamport_lock
  max,       \* max_ticket of get_ticket
  ahead      \* history: who was in the queue when this CPU asked

vars == <<entering, number, pc, j, max, ahead>>

Queue == {"spin", "check", "less", "equal"}
PC    == {"idle", "scan", "reread", "take", "taken", "critical"} \cup Queue

Goto(i, from, to) ==
  /\ pc[i] = from
  /\ pc' = [pc EXCEPT ![i] = to]

Init ==
  /\ entering = [i \in CPU |-> FALSE]
  /\ number = [i \in CPU |-> 0]
  /\ pc = [i \in CPU |-> "idle"]
  /\ j = [i \in CPU |-> 0]
  /\ max = [i \in CPU |-> 0]
  /\ ahead = [i \in CPU |-> {}]

(* entering[i] = 1 *)
Enter(i) ==
  /\ \A k \in CPU : number[k] <= MaxTicket
  /\ Goto(i, "idle", "scan")
  /\ entering' = [entering EXCEPT ![i] = TRUE]
  /\ ahead' = [ahead EXCEPT ![i] = {k \in CPU : pc[k] \in Queue}]
  /\ UNCHANGED <<number, j, max>>

(* for (int j = 0; j < NO_CPUS; j++): the next j, back to 0 after the loop *)
Last(i)  == j[i] + 1 = NO_CPUS
NextJ(i) == IF Last(i) THEN 0 ELSE j[i] + 1

(* get_ticket: if (max_ticket < number[j]) ... *)
Scan(i) ==
  LET larger == max[i] < number[j[i]] IN
  /\ Goto(i, "scan", IF larger THEN "reread" ELSE IF Last(i) THEN "take" ELSE "scan")
  /\ j' = [j EXCEPT ![i] = IF larger THEN j[i] ELSE NextJ(i)]
  /\ UNCHANGED <<entering, number, max, ahead>>

(* Mutation of Reread: the maximum is not kept. *)
RereadWithoutAssignment(i) ==
  /\ Goto(i, "reread", IF Last(i) THEN "take" ELSE "scan")
  /\ j' = [j EXCEPT ![i] = NextJ(i)]
  /\ UNCHANGED <<entering, number, max, ahead>>

(* ... max_ticket = number[j], read once more *)
Reread(i) ==
  /\ Goto(i, "reread", IF Last(i) THEN "take" ELSE "scan")
  /\ j' = [j EXCEPT ![i] = NextJ(i)]
  /\ max' = [max EXCEPT ![i] = number[j[i]]]
  /\ UNCHANGED <<entering, number, ahead>>

(* number[i] = 1 + max_ticket *)
Take(i) ==
  /\ Goto(i, "take", "taken")
  /\ number' = [number EXCEPT ![i] = 1 + max[i]]
  /\ max' = [max EXCEPT ![i] = 0]
  /\ UNCHANGED <<entering, j, ahead>>

(* entering[i] = 0 *)
Taken(i) ==
  /\ Goto(i, "taken", "spin")
  /\ entering' = [entering EXCEPT ![i] = FALSE]
  /\ UNCHANGED <<number, j, max, ahead>>

(* Mutation of Spin: nobody waits for a CPU that is taking its ticket. *)
SpinNeverWaits(i) ==
  /\ Goto(i, "spin", "check")
  /\ UNCHANGED <<entering, number, j, max, ahead>>

(* while (entering[j]) *)
Spin(i) ==
  /\ ~entering[j[i]]
  /\ Goto(i, "spin", "check")
  /\ UNCHANGED <<entering, number, j, max, ahead>>

(* A test of the inner loop: another turn of it, or on to the next CPU,    *)
(* and into the critical section after the last.                           *)
Test(i, from, waits, to) ==
  LET in == ~waits /\ Last(i) IN
  /\ Goto(i, from, IF waits THEN to ELSE IF in THEN "critical" ELSE "spin")
  /\ j' = [j EXCEPT ![i] = IF waits THEN j[i] ELSE NextJ(i)]
  /\ ahead' = IF in THEN [k \in CPU |-> ahead[k] \ {i}] ELSE ahead
  /\ UNCHANGED <<entering, number, max>>

(* while ((number[j] != 0) && ... *)
Check(i) == Test(i, "check", number[j[i]] # 0, "less")

(* lex_less: (number[tid1] < number[tid2]) || ... *)
Less(i) ==
  /\ Goto(i, "less", IF number[j[i]] < number[i] THEN "check" ELSE "equal")
  /\ UNCHANGED <<entering, number, j, max, ahead>>

(* Mutation of EqualLower: equal tickets wait for each other. *)
EqualOther(i) == number[j[i]] = number[i] /\ j[i] # i

(* ... ((number[tid1] == number[tid2]) && tid1 < tid2) *)
EqualLower(i) == number[j[i]] = number[i] /\ j[i] < i

Equal(i) == Test(i, "equal", EqualLower(i), "check")

(* Mutation of Unlock: the ticket is kept. *)
UnlockKeepsTicket(i) ==
  /\ Goto(i, "critical", "idle")
  /\ UNCHANGED <<entering, number, j, max, ahead>>

(* lamport_unlock *)
Unlock(i) ==
  /\ Goto(i, "critical", "idle")
  /\ number' = [number EXCEPT ![i] = 0]
  /\ UNCHANGED <<entering, j, max, ahead>>

(* lamport_lock once called, and the end of every critical section *)
Step(i) ==
  \/ Scan(i) \/ Reread(i) \/ Take(i) \/ Taken(i)
  \/ Spin(i) \/ Check(i) \/ Less(i) \/ Equal(i)
  \/ Unlock(i)

Next == \E i \in CPU : Enter(i) \/ Step(i)

Spec == Init /\ [][Next]_vars

(* Every CPU is a core that keeps executing, and every critical section of *)
(* the harness ends; nobody has to ask for the lock.                       *)
FairSpec == Spec /\ \A i \in CPU : WF_vars(Step(i))

-----------------------------------------------------------------------------
TypeOK ==
  /\ entering \in [CPU -> BOOLEAN]
  /\ number \in [CPU -> Nat]
  /\ pc \in [CPU -> PC]
  /\ j \in [CPU -> CPU]
  /\ max \in [CPU -> Nat]
  /\ ahead \in [CPU -> SUBSET CPU]

(* Two CPUs never hold the lock at once, although number[j] may change,    *)
(* even fall back to 0, between the reads of one comparison                *)
(* (sync.c:35-36,44,59).                                                   *)
MutualExclusion ==
  \A i, k \in CPU : pc[i] = "critical" /\ pc[k] = "critical" => i = k

(* The bakery is a first-come-first-served lock: a CPU whose doorway       *)
(* (sync.c:49-53) is over before another's begins gets the lock first.     *)
Stage(i) ==
  CASE pc[i] = "idle" -> "out"
    [] pc[i] \in {"scan", "reread", "take", "taken"} -> "doorway"
    [] pc[i] \in Queue -> "queue"
    [] pc[i] = "critical" -> "in"

st == [i \in CPU |-> Stage(i)]

L == INSTANCE LockSpec WITH Fifo <- TRUE
FirstComeFirstServed == L!LSpec

(* The CPUs that are in lamport_lock never all wait for each other         *)
(* (sync.c:56,59): the one with the smallest ticket, or the smallest       *)
(* number among those, waits for nobody who has a ticket.                  *)
Waits(i) ==
  \/ pc[i] = "spin" /\ entering[j[i]]
  \/ /\ pc[i] \in {"check", "less", "equal"}
     /\ number[j[i]] # 0
     /\ number[j[i]] < number[i] \/ EqualLower(i)

SomebodyMoves ==
  (\E i \in CPU : pc[i] # "idle") => \E i \in CPU : pc[i] # "idle" /\ ~ Waits(i)

(* Nobody who asked for the lock waits for ever. *)
NoStarvation == \A i \in CPU : (pc[i] = "scan") ~> (pc[i] = "critical")
===============================================================================
