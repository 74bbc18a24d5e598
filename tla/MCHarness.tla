------------------------------ MODULE MCHarness -------------------------------
(* Harness with a few CPUs and runs. *)
EXTENDS Harness

T(n, v0, v1, v2) == [no_threads |-> n, values |-> [r \in Run |-> <<v0, v1, v2>>[r + 1]]]

(* Two threads with a spare CPU; as many threads as CPUs, with registers   *)
(* that the lookup table is no use for; and three results, one more than   *)
(* there are rows.                                                         *)
SpareTests == {T(2, <<0, 1>>, <<0, 1>>, <<0, 0>>),
               T(3, <<0, 4>>, <<0, 1>>, <<0, 4>>),
               T(3, <<0, 0>>, <<0, 1>>, <<0, 4>>)}

(* Two threads with a spare CPU. *)
RestoreTests == {T(2, <<0, 1>>, <<0, 1>>, <<0, 0>>)}

InterestingResults == {<<0, 1>>}
===============================================================================
