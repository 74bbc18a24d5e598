------------------------------ MODULE MCBarrier ------------------------------
(* Instances of Barrier small enough for TLC. *)
EXTENDS Barrier

CONSTANTS c1, c2, c3, cpubar, vcpubar

(* generic_cpu_barrier is used by all the CPUs (sz = NO_CPUS),             *)
(* generic_vcpu_barrier by those that run the test's two threads.          *)
Bar2    == {cpubar, vcpubar}
Size2   == [b \in Bar2 |-> IF b = cpubar THEN 3 ELSE 2]
Groups2 == [b \in Bar2 |-> IF b = cpubar THEN {{c1, c2, c3}}
                           ELSE {{c1, c2}, {c2, c3}}]

(* One barrier for all three CPUs; and one that opens for each caller,     *)
(* which either of two may be: the user of one round need not have left    *)
(* when the next one arrives.                                              *)
BarMixed    == {cpubar, vcpubar}
SizeMixed   == [b \in BarMixed |-> IF b = cpubar THEN 3 ELSE 1]
GroupsMixed == [b \in BarMixed |-> IF b = cpubar THEN {{c1, c2, c3}} ELSE {{c1, c2}}]
===============================================================================
