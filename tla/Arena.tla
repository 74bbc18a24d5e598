--------------------------------- MODULE Arena ---------------------------------
(***************************************************************************)
(* The arena that run_thread takes the pointers of a batch's runs from     *)
(* (lib/valloc/valloc_arena.c, run_data_size and setup_run_data of         *)
(* lib/litmus_test/litmus_test.c), in bytes.                               *)
(***************************************************************************)
EXTENDS Integers, Sequences, SequencesExt

log2(n) == CHOOSE k \in 0 .. n : 2 ^ k <= n /\ n < 2 ^ (k + 1)

ALIGN_UP(v, bits) == ((v + 2 ^ bits - 1) \div 2 ^ bits) * 2 ^ bits

(* What is set aside for one run: all its pointers and 2 more by variable. *)
run_data_size(vars, regs) ==
  LET actual_size == 8 * (12 * vars + regs) IN ALIGN_UP(actual_size, log2(actual_size) + 1)

(* What setup_run_data asks for, in this order.                            *)
Requests(vars, regs) ==
  <<8 * vars, 8 * vars, 8 * regs, 8 * vars, 8 * vars>> \o [k \in 1 .. 2 * vars |-> 32]

(* __alloc_arena: aligned to the size, to no more than 256 bytes.          *)
Aligned(cur, size) == ALIGN_UP(cur, IF log2(size) < 8 THEN log2(size) ELSE 8)
__alloc_arena(top, size) == Aligned(top, size) + size

TopAfterRun(top, vars, regs) == FoldLeft(__alloc_arena, top, Requests(vars, regs))

TopAfter(start, n, vars, regs) ==
  FoldLeft(LAMBDA top, k : TopAfterRun(top, vars, regs), start, [k \in 1 .. n |-> k])

(* arena->data begins at any multiple of 8; what is allocated for n runs   *)
(* stays below arena->size, so that no "over-allocated arena" fail()s.     *)
Suffices(n, vars, regs) ==
  \A start \in {8 * k : k \in 0 .. 31} :
    TopAfter(start, n, vars, regs) - start <= n * run_data_size(vars, regs)
===============================================================================
