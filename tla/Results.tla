-------------------------------- MODULE Results -------------------------------
(***************************************************************************)
(* The histogram of a test's results (lib/litmus_test/litmus_test_results.c *)
(* :3-101, created in lib/litmus_test/litmus_test_ctx.c:70-80).            *)
(*                                                                         *)
(* A result is the tuple of output registers of one run, a row its counter *)
(* and whether it is one of the test's interesting results.  lut maps the  *)
(* results whose registers are all below 4 to the number of their row.     *)
(***************************************************************************)
EXTENDS Integers, Sequences, FiniteSets

CONSTANTS
  limit,        \* hist->limit: the rows there are, and the entries of lut
  Interesting   \* cfg->interesting_result and cfg->interesting_results

ASSUME LimitAssumption == limit \in Nat \ {0}

NULL == 0

(* hist->allocated is Len(h.results). *)
EmptyHist == [results |-> <<>>, lut |-> [ix \in 0 .. limit - 1 |-> NULL]]

matches_interesting(values) == values \in Interesting

(* Horner's scheme: the first n values as the digits of a number in base   *)
(* b.  In base 1 that is their sum.                                        *)
horner[n \in Nat] ==
  [b \in Nat |-> [values \in Seq(Nat) |->
    IF n = 0 \/ n > Len(values) THEN 0 ELSE (b * horner[n - 1][b][values]) + values[n]]]

Number(b, values) == horner[Len(values)][b][values]

(* Mutation of ix_from_values: larger registers, and lut as it is. *)
ix_from_valuesBelow8(values) ==
  IF \E reg \in DOMAIN values : values[reg] >= 8 THEN -1 ELSE Number(8, values)

(* The registers as digits of a number in base 4, if they are digits.  It  *)
(* is not compared with limit before lut is indexed by it.                 *)
ix_from_values(values) ==
  IF \E reg \in DOMAIN values : values[reg] >= 4 THEN -1 ELSE Number(4, values)

matches(h, values) == {n \in DOMAIN h.results : h.results[n].values = values}

(* The row of a result that was seen before: by the lookup table, or else  *)
(* by a walk through all rows.                                             *)
RowOf(h, values) ==
  LET ix == ix_from_values(values) IN
  IF ix # -1 /\ h.lut[ix] # NULL THEN h.lut[ix]
  ELSE IF matches(h, values) # {} THEN CHOOSE n \in matches(h, values) : TRUE
  ELSE NULL

(* "overallocated results": add_results fail()s. *)
Overallocated(h, values) == RowOf(h, values) = NULL /\ Len(h.results) >= limit

Insert(h, values) ==
  LET ix == ix_from_values(values) IN
  [results |-> Append(h.results, [values     |-> values,
                                  counter    |-> 1,
                                  is_relaxed |-> matches_interesting(values)]),
   lut     |-> IF ix = -1 THEN h.lut ELSE [h.lut EXCEPT ![ix] = Len(h.results) + 1]]

add_results(h, values) ==
  LET n == RowOf(h, values) IN
  IF n = NULL THEN Insert(h, values)
  ELSE [h EXCEPT !.results[n].counter = @ + 1]

-----------------------------------------------------------------------------
(* What print_results makes of it: how many runs had an interesting        *)
(* result, and how many other results there were.                          *)
marked(h) ==
  Number(1, [n \in DOMAIN h.results |->
               IF h.results[n].is_relaxed THEN h.results[n].counter ELSE 0])

no_sc_results_seen(h) ==
  Cardinality({n \in DOMAIN h.results : ~ h.results[n].is_relaxed})
===============================================================================
