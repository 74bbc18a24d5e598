-------------------------------- MODULE Harness -------------------------------
(***************************************************************************)
(* go_cpus(): how all CPUs run one litmus test, batch by batch             *)
(* (lib/litmus_test/litmus_test.c:53-455, 526-575).                        *)
(*                                                                         *)
(* Physical CPU i plays test thread vcpu[i]; the CPUs with a vcpu of       *)
(* no_threads or more are spare and only take part in the barriers for all *)
(* CPUs.  Barriers are those of Rendezvous.tla, which bwait() implements   *)
(* (Barrier.tla).                                                          *)
(*                                                                         *)
(* Modelled is the default configuration of a test that edits pagetables:  *)
(* RUNNER_EPHEMERAL, SYNC_ASID, ENABLE_PGTABLE, REQUIRES_PGTABLE, without  *)
(* exception handlers of its own.  Of the variables of run r, and of the   *)
(* pagetable entries of their addresses, data[r] and ptes[r] only say      *)
(* whether they were initialised, and whether a test function has changed  *)
(* them since.  What the registers of each run would be once all threads   *)
(* have stored theirs is part of the test; the runs are collected in the   *)
(* histogram of Results.tla.  Run indices are not shuffled: shuffled_ixs   *)
(* only renames them.                                                      *)
(***************************************************************************)
EXTENDS Results

CONSTANTS
  NO_CPUS, no_runs, batch_size,
  MAX_ASID,
  Tests   \* the tests that may be run: [no_threads, values], where values[r]
          \* is what the threads store in the output registers in run r

CPU == 0 .. NO_CPUS - 1
Run == 0 .. no_runs - 1

(* sanity_check_test (litmus_test_ctx.c:3-7) admits no larger batch.       *)
ASSUME SizesAssumption ==
  /\ NO_CPUS \in Nat \ {0} /\ no_runs \in Nat \ {0} /\ MAX_ASID \in Nat \ {0}
  /\ batch_size \in 1 .. 1 + MAX_ASID

ASSUME TestsAssumption ==
  \A t \in Tests : t.no_threads \in 1 .. NO_CPUS /\ t.values \in [Run -> Seq(Nat)]

(* Every run fills the same registers, and the lookup table has an entry   *)
(* for what they say, which add_results does not check (TestFits in        *)
(* Litmus.tla does, for the tests there are).                              *)
ASSUME RegistersAssumption ==
  \A t \in Tests : \A r, q \in Run :
    Len(t.values[r]) = Len(t.values[q]) /\ ix_from_values(t.values[r]) < limit

Permutation == {p \in [CPU -> CPU] : \A i, k \in CPU : i # k => p[i] # p[k]}

CpuBarrier  == <<"generic_cpu_barrier", 0>>
VcpuBarrier == <<"generic_vcpu_barrier", 0>>
Bar == {CpuBarrier, VcpuBarrier} \cup {<<"start_barriers", bi>> : bi \in 0 .. batch_size - 1}

VARIABLES
  test,      \* the test that is run
  affinity,  \* test_ctx_t.affinity
  data,      \* "none", "init" or "test": the variables of each run
  ptes,      \* likewise, their pagetable entries
  outs,      \* outs[r]: the threads whose output registers are in out_regs
  hist,      \* test_ctx_t.hist
  tlb,       \* tlb[i]: the runs whose translations CPU i may have cached
  phase,     \* the barriers (Rendezvous.tla)
  pc,        \* where each CPU is in run_thread
  vcpu,      \* its local variable vcpu
  j,         \* its local variable j
  idx,       \* the r of setup_run_data and clean_run_data
  saved      \* its tt_descs: what it found in ptes of each run

ctx   == <<affinity, data, ptes, outs, hist, tlb>>
local == <<vcpu, j, idx, saved>>
vars  == <<test, ctx, phase, pc, local>>

no_threads == test.no_threads
Thread     == 0 .. no_threads - 1

Init ==
  /\ test \in Tests
  /\ affinity = [i \in CPU |-> i]
  /\ data = [r \in Run |-> "none"]
  /\ ptes = [r \in Run |-> "none"]
  /\ outs = [r \in Run |-> {}]
  /\ hist = EmptyHist
  /\ tlb = [i \in CPU |-> {}]
  /\ phase = [b \in Bar |-> [i \in CPU |-> "out"]]
  /\ pc = [i \in CPU |-> "begin"]
  /\ vcpu = [i \in CPU |-> i]
  /\ j = [i \in CPU |-> 0]
  /\ idx = [i \in CPU |-> 0]
  /\ saved = [i \in CPU |-> [r \in Run |-> "none"]]

Goto(i, from, to) ==
  /\ pc[i] = from
  /\ pc' = [pc EXCEPT ![i] = to]

-----------------------------------------------------------------------------
(* The batch that run r belongs to, and the ASID it uses, of which the TLB *)
(* sees 8 bits (tlbi_asid; TCR_EL1.AS): 0 is reserved for the harness.     *)
BatchStart(r) == r - (r % batch_size)
BatchEnd(r) ==
  LET end == BatchStart(r) + batch_size IN IF end < no_runs THEN end ELSE no_runs
Batch(r) == BatchStart(r) .. BatchEnd(r) - 1

(* Mutation of Asid: one ASID for all runs, as for tests that do not edit  *)
(* pagetables.                                                             *)
AsidOne(r) == 1

Asid(r) == (1 + (r % batch_size)) % (1 + MAX_ASID)

(* TLBI ASIDE1IS: all CPUs drop what they have cached for these ASIDs.     *)
Flush(asids) == tlb' = [i \in CPU |-> {r \in tlb[i] : Asid(r) \notin asids}]

-----------------------------------------------------------------------------
(* The barriers.  Each place where run_thread waits is named by its pc.    *)
Members ==
  [b \in Bar |-> IF b = CpuBarrier THEN CPU ELSE {i \in CPU : affinity[i] < no_threads}]

R == INSTANCE Rendezvous
       WITH members <- Members,
            Groups  <- [b \in Bar |-> IF b = CpuBarrier THEN {CPU} ELSE SUBSET CPU]

Waits == {"begin", "affined", "allocated", "go", "back", "end", "exit"}

(* Mutation of BarAt: a test thread does not wait for the spare CPUs. *)
BarAtWithoutSpares(i) ==
  IF pc[i] = "go" THEN <<"start_barriers", j[i] % batch_size>>
  ELSE IF pc[i] = "back" \/ (pc[i] = "end" /\ vcpu[i] < no_threads) THEN VcpuBarrier
  ELSE CpuBarrier

BarAt(i) ==
  IF pc[i] = "go" THEN <<"start_barriers", j[i] % batch_size>>
  ELSE IF pc[i] = "back" THEN VcpuBarrier ELSE CpuBarrier

Arrive(i) ==
  /\ pc[i] \in Waits
  /\ UNCHANGED <<ctx, pc, local>>
  /\ R!Arrive(BarAt(i), i)

Release == UNCHANGED <<test, ctx, pc, local>> /\ \E b \in Bar : R!Release(b)

Pass(i) ==
  /\ pc[i] \in Waits
  /\ UNCHANGED <<ctx, pc, local>>
  /\ R!Pass(BarAt(i), i)

(* bwait returns, and its caller goes on; after the last barrier of a run, *)
(* j++ and on to the next run or the end of the batch.                     *)
Leave(i, from, to) ==
  /\ Goto(i, from, to)
  /\ UNCHANGED ctx
  /\ R!Leave(BarAt(i), i)

Bwait(i) ==
  \/ /\ \/ Leave(i, "begin", "loop")        \* start_of_thread
        \/ Leave(i, "affined", "affinity")  \* affinities are assigned
        \/ Leave(i, "allocated", "setup")   \* pagetables are allocated
        \/ Leave(i, "go", "func")           \* all threads start together
        \/ Leave(i, "back", "record")       \* all threads have finished
        \/ Leave(i, "exit", "done")         \* end_of_thread
     /\ UNCHANGED local
  \/ /\ Leave(i, "end", IF j[i] + 1 < BatchEnd(j[i]) THEN "run" ELSE "clean")
     /\ j' = [j EXCEPT ![i] = @ + 1]
     /\ idx' = [idx EXCEPT ![i] = BatchStart(j[i])]
     /\ UNCHANGED <<vcpu, saved>>

-----------------------------------------------------------------------------
(* The head of the batch loop; CPU 0 assigns new affinities. *)
NewBatch(i) ==
  /\ Goto(i, "loop", IF j[i] < no_runs THEN "affined" ELSE "exit")
  /\ IF i = 0 /\ j[i] < no_runs THEN affinity' \in Permutation ELSE UNCHANGED affinity
  /\ UNCHANGED <<data, ptes, outs, hist, tlb, phase, local>>

(* vcpu = get_affinity(ctx, cpu) *)
GetAffinity(i) ==
  /\ Goto(i, "affinity", "alloc")
  /\ vcpu' = [vcpu EXCEPT ![i] = affinity[i]]
  /\ UNCHANGED <<ctx, phase, j, idx, saved>>

(* Mutation of Allocate: no barrier between allocation and use. *)
AllocateWithoutBarrier(i) ==
  LET writes(r) == vcpu[i] = 0 /\ r \in Batch(j[i]) IN
  /\ Goto(i, "alloc", "setup")
  /\ data' = [r \in Run |-> IF writes(r) THEN "init" ELSE data[r]]
  /\ ptes' = [r \in Run |-> IF writes(r) THEN "init" ELSE ptes[r]]
  /\ idx' = [idx EXCEPT ![i] = BatchStart(j[i])]
  /\ UNCHANGED <<affinity, outs, hist, tlb, phase, vcpu, j, saved>>

(* allocate_data_for_batch: thread 0 writes the initial state of all runs  *)
(* of the batch.                                                           *)
Allocate(i) ==
  LET writes(r) == vcpu[i] = 0 /\ r \in Batch(j[i]) IN
  /\ Goto(i, "alloc", "allocated")
  /\ data' = [r \in Run |-> IF writes(r) THEN "init" ELSE data[r]]
  /\ ptes' = [r \in Run |-> IF writes(r) THEN "init" ELSE ptes[r]]
  /\ idx' = [idx EXCEPT ![i] = BatchStart(j[i])]
  /\ UNCHANGED <<affinity, outs, hist, tlb, phase, vcpu, j, saved>>

(* setup_run_data, for one run: remember its pagetable entries             *)
SetupRunData(i) ==
  LET last == idx[i] + 1 = BatchEnd(j[i]) IN
  /\ Goto(i, "setup", IF last THEN "prepare" ELSE "setup")
  /\ saved' = [saved EXCEPT ![i][idx[i]] = ptes[idx[i]]]
  /\ idx' = [idx EXCEPT ![i] = IF last THEN 0 ELSE @ + 1]
  /\ UNCHANGED <<ctx, phase, vcpu, j>>

(* prepare_test_contexts: clean_tlb_for_batch *)
Prepare(i) ==
  /\ Goto(i, "prepare", "run")
  /\ Flush({Asid(r) : r \in Batch(j[i])})
  /\ UNCHANGED <<affinity, data, ptes, outs, hist, phase, local>>

(* A spare CPU goes straight to the last barrier of the run. *)
Spare(i) ==
  /\ vcpu[i] >= no_threads
  /\ Goto(i, "run", "end")
  /\ UNCHANGED <<ctx, phase, local>>

(* Mutation of StartOfRun: off by one, a spare CPU joins the test. *)
StartOfRunOneMore(i) ==
  /\ vcpu[i] <= no_threads
  /\ Goto(i, "run", "go")
  /\ UNCHANGED <<ctx, phase, local>>

(* start_of_run: prefetch() may read a variable, and fail()s if it has not *)
(* its initial value.  The switch to the run's ASID and the setup function *)
(* change nothing that is modelled.                                        *)
StartOfRun(i) ==
  /\ vcpu[i] < no_threads
  /\ \/ Goto(i, "run", "go")
     \/ Goto(i, "run", "failed") /\ data[j[i]] # "init"
  /\ UNCHANGED <<ctx, phase, local>>

(* func(&runs[bi]): it may change the variables and their PTEs, fills the  *)
(* TLB, *)
Func(i) ==
  /\ Goto(i, "func", "out")
  /\ \E s \in {data[j[i]], "test"} : data' = [data EXCEPT ![j[i]] = s]
  /\ \E s \in {ptes[j[i]], "test"} : ptes' = [ptes EXCEPT ![j[i]] = s]
  /\ tlb' = [tlb EXCEPT ![i] = @ \cup {j[i]}]
  /\ UNCHANGED <<affinity, outs, hist, phase, local>>

(* and stores its output registers.  return_to_harness_context follows.    *)
FuncOut(i) ==
  /\ Goto(i, "out", "back")
  /\ outs' = [outs EXCEPT ![j[i]] = @ \cup {vcpu[i]}]
  /\ UNCHANGED <<affinity, data, ptes, hist, tlb, phase, local>>

(* out_regs of run r: what no thread has stored is 0 as init_test_ctx left *)
(* it.  The registers are dealt out to the threads in turn.                *)
OutRegs(r) ==
  [k \in DOMAIN test.values[r] |->
     IF (k - 1) % no_threads \in outs[r] THEN test.values[r][k] ELSE 0]

(* handle_new_result; there may be no row left for it, and the program ends. *)
Collect(i) ==
  \/ /\ ~ Overallocated(hist, OutRegs(j[i]))
     /\ Goto(i, "record", "end")
     /\ hist' = add_results(hist, OutRegs(j[i]))
  \/ /\ Overallocated(hist, OutRegs(j[i]))
     /\ Goto(i, "record", "overallocated")
     /\ UNCHANGED hist

(* Mutation of EndOfRun: every thread collects the result. *)
EndOfRunByAll(i) ==
  /\ pc[i] = "record"
  /\ Collect(i)
  /\ UNCHANGED <<affinity, data, ptes, outs, tlb, phase, local>>

(* end_of_run: only thread 0 collects the result. *)
EndOfRun(i) ==
  /\ pc[i] = "record"
  /\ IF vcpu[i] = 0 THEN Collect(i) ELSE Goto(i, "record", "end") /\ UNCHANGED hist
  /\ UNCHANGED <<affinity, data, ptes, outs, tlb, phase, local>>

(* Mutation of CleanRunData: the last run of a batch is not put back. *)
CleanRunDataButLast(i) ==
  LET last == idx[i] + 1 = j[i] IN
  /\ Goto(i, "clean", IF last THEN "loop" ELSE "clean")
  /\ ptes' = IF last THEN ptes ELSE [ptes EXCEPT ![idx[i]] = saved[i][idx[i]]]
  /\ saved' = [saved EXCEPT ![i][idx[i]] = "none"]
  /\ Flush({Asid(idx[i])})
  /\ idx' = [idx EXCEPT ![i] = IF last THEN 0 ELSE @ + 1]
  /\ UNCHANGED <<affinity, data, outs, hist, phase, vcpu, j>>

(* clean_run_data, for one run: put the pagetable entries back, with a     *)
(* TLBI of the run's ASID; spare CPUs do so too.  The saved copy is freed. *)
CleanRunData(i) ==
  LET last == idx[i] + 1 = j[i] IN
  /\ Goto(i, "clean", IF last THEN "loop" ELSE "clean")
  /\ ptes' = [ptes EXCEPT ![idx[i]] = saved[i][idx[i]]]
  /\ saved' = [saved EXCEPT ![i][idx[i]] = "none"]
  /\ Flush({Asid(idx[i])})
  /\ idx' = [idx EXCEPT ![i] = IF last THEN 0 ELSE @ + 1]
  /\ UNCHANGED <<affinity, data, outs, hist, phase, vcpu, j>>

-----------------------------------------------------------------------------
Step(i) ==
  /\ UNCHANGED test
  /\ \/ Arrive(i) \/ Pass(i) \/ Bwait(i)
     \/ NewBatch(i) \/ GetAffinity(i) \/ Allocate(i) \/ SetupRunData(i) \/ Prepare(i)
     \/ Spare(i) \/ StartOfRun(i) \/ Func(i) \/ FuncOut(i) \/ EndOfRun(i)
     \/ CleanRunData(i)

Next == Release \/ \E i \in CPU : Step(i)

Spec == Init /\ [][Next]_vars

(* Every CPU keeps executing and every test function ends; a barrier whose *)
(* whole group is in it is released (AllReturn in Barrier.tla).  No loop   *)
(* is modelled that could turn for ever, so that it is enough that some    *)
(* step is taken as long as there is one.                                  *)
FairSpec == Spec /\ WF_vars(Next)

-----------------------------------------------------------------------------
PC == Waits \cup {"loop", "affinity", "alloc", "setup", "prepare", "run", "func",
                  "out", "record", "clean", "done", "failed", "overallocated"}
States == {"none", "init", "test"}

TypeOK ==
  /\ test \in Tests
  /\ affinity \in Permutation
  /\ data \in [Run -> States]
  /\ ptes \in [Run -> States]
  /\ outs \in [Run -> SUBSET Thread]
  /\ hist.results \in Seq([values : Seq(Nat), counter : Nat \ {0}, is_relaxed : BOOLEAN])
  /\ hist.lut \in [0 .. limit - 1 -> 0 .. Len(hist.results)]
  /\ tlb \in [CPU -> SUBSET Run]
  /\ phase \in [Bar -> [CPU -> R!Phases]]
  /\ pc \in [CPU -> PC]
  /\ vcpu \in [CPU -> CPU]
  /\ j \in [CPU -> 0 .. no_runs]
  /\ idx \in [CPU -> 0 .. no_runs]
  /\ saved \in [CPU -> [Run -> States]]

(* The CPUs that execute test code are in the same run, each as a thread   *)
(* of its own, and no translation another run left under the same ASID is  *)
(* in their TLBs (litmus_test.c:371-376).  Nor is it the ASID of the       *)
(* harness ("reserve ASID 0 for harness", litmus_test_ctx.c:191), unless   *)
(* the batch has the one run more that sanity_check_test admits.           *)
Isolated ==
  \A i \in CPU : pc[i] \in {"func", "out"} =>
    /\ \A n \in CPU : pc[n] \in {"func", "out"} /\ n # i => j[n] = j[i] /\ vcpu[n] # vcpu[i]
    /\ \A r \in tlb[i] : r # j[i] => Asid(r) # Asid(j[i])
    /\ batch_size <= MAX_ASID => Asid(j[i]) # 0

(* No thread enters a run before its variables are initialised, or after   *)
(* another has begun to change them: prefetch() never fails the test         *)
(* (litmus_test.c:474-480).                                                *)
PrefetchNeverFails == \A i \in CPU : pc[i] # "failed"

(* Thread 0 has been through end_of_run of run r: it did so before any CPU *)
(* went on to the next run.                                                *)
Collected(r) ==
  \E i \in CPU : j[i] > r \/ (j[i] = r /\ pc[i] = "end" /\ vcpu[i] = 0)

Seen(S) == {test.values[r] : r \in {n \in S : Collected(n)}}

(* The histogram is what the runs that have been collected gave: one row   *)
(* for each of their results, that counts each run once and with the       *)
(* registers of all of its threads (litmus_test.c:446-449,532); the        *)
(* program only gives up when there are more results than rows.            *)
HistogramExact ==
  /\ \A v \in Seen(Run) : \E n \in DOMAIN hist.results :
       /\ hist.results[n].values = v
       /\ hist.results[n].counter = Cardinality({r \in Run : Collected(r) /\ test.values[r] = v})
  /\ Len(hist.results) = Cardinality(Seen(Run))
  /\ marked(hist) = Cardinality({r \in Run : Collected(r) /\ test.values[r] \in Interesting})
  /\ no_sc_results_seen(hist) = Cardinality(Seen(Run) \ Interesting)
  /\ \A i \in CPU : pc[i] = "overallocated"
       => Cardinality(Seen(Run) \cup {test.values[j[i]]}) > limit

(* New affinities are only given out while nobody is inside a barrier      *)
(* whose group they change; it is what Barrier.tla assumes of its callers. *)
RegroupsQuietly ==
  [][affinity' # affinity =>
       \A b \in Bar \ {CpuBarrier} : \A i \in CPU : phase[b][i] = "out"]_vars

(* Between two batches, once every CPU has cleaned up, the pagetables are  *)
(* what they were before the test functions ran: "after each run, reset    *)
(* the pagetables back to what they were before we ran the test function"  *)
(* (litmus_test.c:215-216).                                                *)
PagetablesRestored ==
  (\A i \in CPU : pc[i] \in {"loop", "affined", "exit", "done"})
    => \A r \in Run : ptes[r] # "test"

(* They are when every CPU runs a thread of the test: nobody then saves an *)
(* entry while a test function is running.                                 *)
RestoredWithoutSpares == no_threads = NO_CPUS => PagetablesRestored

(* The barriers of run_thread and of its callees match up                  *)
(* (litmus_test.c:396-451,557,573): the CPUs never all wait at barriers    *)
(* that cannot be released, as they would if one of them took another way  *)
(* through the runs, or were not counted among the users of its barrier.   *)
HeldUp(i) ==
  LET here == phase[BarAt(i)] IN
  /\ pc[i] \in Waits
  /\ \/ here[i] = "out" /\ i \notin Members[BarAt(i)]
     \/ here[i] = "in" /\ \E n \in Members[BarAt(i)] : here[n] # "in"
     \/ here[i] = "passed" /\ \E n \in CPU : here[n] = "go"

NeverAllHeldUp ==
  \/ \E i \in CPU : pc[i] \in {"failed", "overallocated"}
  \/ \A i \in CPU : pc[i] = "done"
  \/ \E i \in CPU : pc[i] # "done" /\ ~ HeldUp(i)

(* Every CPU gets through all runs, unless there are too many results. *)
Completes ==
  <>(\/ \A i \in CPU : pc[i] = "done"
     \/ \E i \in CPU : pc[i] = "overallocated")
===============================================================================
