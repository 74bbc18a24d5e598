------------------------------- MODULE MCBakery -------------------------------
(* Bakery on a few CPUs, with small tickets. *)
EXTENDS Bakery
===============================================================================
