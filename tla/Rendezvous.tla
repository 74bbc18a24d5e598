------------------------------ MODULE Rendezvous ------------------------------
(***************************************************************************)
(* What bwait() (lib/arch/sync.c:157-226) promises to its callers, with    *)
(* none of its counters, locks or events.                                  *)
(*                                                                         *)
(* A barrier b has a current group of members.  A member that calls bwait  *)
(* goes from "out" to "in"; when every member of the group is in, all of   *)
(* them are released at once ("go"); each notices in its own time          *)
(* ("passed"); and nobody returns to its caller ("out") while another      *)
(* member has still to notice -- the "slow release" of sync.c:217-225.     *)
(* Between two uses the group itself may be replaced: the harness gives    *)
(* the test threads to other CPUs for every batch of runs.                 *)
(***************************************************************************)
CONSTANTS
  CPU,      \* the physical CPUs
  Bar,      \* the barriers
  Groups    \* Groups[b]: the sets of CPUs that may use barrier b together

VARIABLES
  members,  \* members[b]: the group that uses b at present
  phase     \* phase[b][i]: where CPU i is in its use of b

rvars == <<members, phase>>

Phases == {"out", "in", "go", "passed"}

RInit ==
  /\ members \in [Bar -> SUBSET CPU]
  /\ \A b \in Bar : members[b] \in Groups[b]
  /\ phase = [b \in Bar |-> [i \in CPU |-> "out"]]

(* Member i calls bwait(b). *)
Arrive(b, i) ==
  /\ i \in members[b]
  /\ phase[b][i] = "out"
  /\ phase' = [phase EXCEPT ![b][i] = "in"]
  /\ UNCHANGED members

(* The whole group has arrived: it is released in one step. *)
Release(b) ==
  /\ \A i \in members[b] : phase[b][i] = "in"
  /\ phase' = [phase EXCEPT ![b] =
                 [i \in CPU |-> IF i \in members[b] THEN "go" ELSE @[i]]]
  /\ UNCHANGED members

(* Member i has seen the release. *)
Pass(b, i) ==
  /\ phase[b][i] = "go"
  /\ phase' = [phase EXCEPT ![b][i] = "passed"]
  /\ UNCHANGED members

(* bwait returns: not while a member has still to see the release. *)
Leave(b, i) ==
  /\ phase[b][i] = "passed"
  /\ \A j \in CPU : phase[b][j] # "go"
  /\ phase' = [phase EXCEPT ![b][i] = "out"]
  /\ UNCHANGED members

(* The barrier is handed to another group while nobody is inside it. *)
Regroup(b) ==
  /\ \A i \in CPU : phase[b][i] = "out"
  /\ \E S \in Groups[b] : members' = [members EXCEPT ![b] = S]
  /\ UNCHANGED phase

RNext ==
  \E b \in Bar :
    \/ \E i \in CPU : Arrive(b, i) \/ Pass(b, i) \/ Leave(b, i)
    \/ Release(b)
    \/ Regroup(b)

RSpec == RInit /\ [][RNext]_rvars
===============================================================================
