------------------------------- MODULE LockSpec -------------------------------
(***************************************************************************)
(* What LOCK and UNLOCK (lib/arch/sync.c:10-28) promise.                   *)
(*                                                                         *)
(* A CPU that wants the lock first stands in the doorway, then in the      *)
(* queue, and is let in when nobody is in.  With Fifo, it is only let in   *)
(* once everybody who was in the queue before it came to the doorway has   *)
(* been: the promise of Lamport's bakery.  The compare-and-swap lock makes *)
(* no such promise (Fifo = FALSE).                                         *)
(***************************************************************************)
CONSTANTS CPU, Fifo

VARIABLES
  st,     \* st[i]: "out", "doorway", "queue" or "in"
  ahead   \* ahead[i]: who must be let in before i

lvars == <<st, ahead>>

LInit ==
  /\ st = [i \in CPU |-> "out"]
  /\ ahead = [i \in CPU |-> {}]

Come(i) ==
  /\ st[i] = "out"
  /\ st' = [st EXCEPT ![i] = "doorway"]
  /\ ahead' = [ahead EXCEPT ![i] = IF Fifo THEN {j \in CPU : st[j] = "queue"} ELSE {}]

Join(i) ==
  /\ st[i] = "doorway"
  /\ st' = [st EXCEPT ![i] = "queue"]
  /\ UNCHANGED ahead

LetIn(i) ==
  /\ st[i] = "queue"
  /\ \A j \in CPU : st[j] # "in"
  /\ ahead[i] = {}
  /\ st' = [st EXCEPT ![i] = "in"]
  /\ ahead' = [j \in CPU |-> ahead[j] \ {i}]

Go(i) ==
  /\ st[i] = "in"
  /\ st' = [st EXCEPT ![i] = "out"]
  /\ UNCHANGED ahead

LNext == \E i \in CPU : Come(i) \/ Join(i) \/ LetIn(i) \/ Go(i)

LSpec == LInit /\ [][LNext]_lvars
===============================================================================
