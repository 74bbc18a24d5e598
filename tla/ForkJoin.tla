------------------------------- MODULE ForkJoin -------------------------------
(***************************************************************************)
(* What run_on_cpu() and run_on_cpus() (lib/arch/cpu_boot.c:48-82) promise *)
(* their caller: the function is called once on every CPU it was meant     *)
(* for, with the caller's argument, and all those calls are over when      *)
(* run_on_cpus() returns.                                                  *)
(***************************************************************************)
EXTENDS Naturals

CONSTANT CPU

VARIABLES
  busy,     \* is the caller between call and return
  targets,  \* the CPUs of the current call
  runs      \* runs[i]: how often CPU i has run the function in this call

fvars == <<busy, targets, runs>>

FInit ==
  /\ busy = FALSE
  /\ targets = {}
  /\ runs = [i \in CPU |-> 0]

Fork ==
  /\ ~busy
  /\ busy' = TRUE
  /\ targets' \in SUBSET CPU
  /\ runs' = [i \in CPU |-> 0]

Do(i) ==
  /\ busy
  /\ i \in targets
  /\ runs[i] = 0
  /\ runs' = [runs EXCEPT ![i] = 1]
  /\ UNCHANGED <<busy, targets>>

Join ==
  /\ busy
  /\ \A i \in targets : runs[i] = 1
  /\ busy' = FALSE
  /\ UNCHANGED <<targets, runs>>

FNext == Fork \/ Join \/ \E i \in CPU : Do(i)

FSpec == FInit /\ [][FNext]_fvars
===============================================================================
