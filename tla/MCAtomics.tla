------------------------------ MODULE MCAtomics -------------------------------
(* Atomics on a few CPUs. *)
EXTENDS Atomics
===============================================================================
