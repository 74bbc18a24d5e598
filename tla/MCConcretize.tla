----------------------------- MODULE MCConcretize -----------------------------
(* Concretize on tests of every shape the catalogue has (variables with a  *)
(* page each, aliases, pins to a page or to 2M, offsets of both levels),   *)
(* and two of unittests/tests/concretization/test_generic.c.               *)
EXTENDS Concretize, LitmusBBM, LitmusPages

Shape(name, names, init) == Test(name, names, <<>>, init, <<>>, {}, 0)

(* __test_concretization_own_pmd, __test_concretization_separate_roots *)
own_pmd == Shape("own_pmd", <<"x", "y">>,
  <<InitVar("x", 0), InitVar("y", 0), InitOwn("x", "PMD"), InitOwn("y", "PMD")>>)
separate_roots == Shape("separate_roots", <<"x", "y", "a", "b">>,
  <<InitVar("x", 0), InitVar("y", 0), InitVar("a", 0), InitVar("b", 0),
    InitOwn("x", "PAGE"), InitPin("a", "x", "PAGE"), InitOwn("y", "PAGE"), InitPin("b", "y", "PAGE")>>)

(* Not a test of the catalogue: x is identity mapped and y is not. *)
half_identity == Shape("half_identity", <<"x", "y">>, <<InitVar("x", 0), InitVar("y", 0), InitIdentityMap("x")>>)

Job(t, type, n) == [test |-> t, type |-> type, batch |-> n]

SomeJobs == {Job(CoWTL23po, "RANDOM", 2), Job(ROT_popo, "RANDOM", 2), Job(CoTT_popopage, "RANDOM", 1),
             Job(own_pmd, "RANDOM", 1), Job(half_identity, "RANDOM", 2), Job(separate_roots, "RANDOM", 1),
             Job(CoWTL23po, "FIXED", 1), Job(CoWTL23po, "FIXED", 2)}

(* Near the beginning and the end of a page, and of 2M; and between.       *)
SomeOffsets == {16, 12272, 2097136, 2101280}
===============================================================================
