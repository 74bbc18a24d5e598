------------------------------ MODULE MCDispatch ------------------------------
(* Dispatch with a few CPUs and call numbers. *)
EXTENDS Dispatch
===============================================================================
