------------------------------- MODULE Dispatch -------------------------------
(***************************************************************************)
(* Booting the secondary CPUs and giving them work: ensure_cpus_on         *)
(* (lib/setup.c:207-225), the end of per_cpu_setup (lib/setup.c:275-285),  *)
(* and all of lib/arch/cpu_boot.c.                                         *)
(*                                                                         *)
(* CPU 0 boots the others and calls run_on_cpus() (every test) and         *)
(* run_on_cpu() (lib/config.c).  It talks to the idle loop of the others   *)
(* through the fields of cpu_data[], each access to which is a step, and   *)
(* through SEV and WFE.                                                    *)
(*                                                                         *)
(* fn and arg are both the number of the call they belong to, so that a    *)
(* mixture of two calls would show.  Call numbers are used again after     *)
(* MaxJobs calls.                                                          *)
(***************************************************************************)
EXTENDS Naturals

CONSTANTS
  NO_CPUS,
  MaxJobs   \* bound: how many different calls are told apart

ASSUME NoCpusAssumption == NO_CPUS \in Nat /\ NO_CPUS > 1
ASSUME JobsAssumption   == MaxJobs \in Nat /\ MaxJobs > 1

CPU       == 0 .. NO_CPUS - 1
Boss      == 0
Secondary == CPU \ {Boss}
Job       == 0 .. MaxJobs    \* 0 is the null pointer

VARIABLES
  started, finished, to_execute, arg,  \* the fields of cpu_data[]
  event,    \* each CPU's event register
  pc,       \* where each CPU is
  fn,       \* the fn of secondary_idle_loop
  got,      \* the arg it calls fn with
  k,        \* the loop variable of CPU 0, or the cpu of run_on_cpu
  call,     \* what CPU 0 is doing: "boot", "all" (run_on_cpus) or "one"
  job,      \* the fn and arg of that call
  targets,  \* history: the CPUs of the current call
  runs      \* history: how often each CPU ran it; a wrong fn or arg counts 2

shared == <<started, finished, to_execute, arg>>
boss   == <<k, call, job, targets>>
vars   == <<shared, event, pc, fn, got, boss, runs>>

AllEvents == [i \in CPU |-> TRUE]

Goto(i, from, to) ==
  /\ pc[i] = from
  /\ pc' = [pc EXCEPT ![i] = to]

(* After cpu_data_init() and per_cpu_setup(0); the others are still off.   *)
Init ==
  /\ started = [i \in CPU |-> i = Boss]
  /\ finished = [i \in CPU |-> FALSE]
  /\ to_execute = [i \in CPU |-> 0]
  /\ arg = [i \in CPU |-> 0]
  /\ event = [i \in CPU |-> FALSE]
  /\ pc = [i \in CPU |-> IF i = Boss THEN "on" ELSE "off"]
  /\ fn = [i \in CPU |-> 0]
  /\ got = [i \in CPU |-> 0]
  /\ k = 1
  /\ call = "boot"
  /\ job = 0
  /\ targets = {}
  /\ runs = [i \in CPU |-> 0]

(* A loop "while (!flag) wfe();" is left once the flag is seen.  Each such *)
(* loop has a name, at which the flag is read.                             *)
Loops == {"boot", "up", "async", "join"}
WfeOf == [boot |-> "bootwfe", up |-> "upwfe", async |-> "asyncwfe", join |-> "joinwfe"]

KeepsWaiting(loop, flag) ==
  /\ ~flag
  /\ Goto(Boss, loop, WfeOf[loop])
  /\ UNCHANGED <<shared, event, fn, got, boss, runs>>

(* The body of the for loop it is in is over: on to CPU n at "at", or past *)
(* the loop, to CPU 0 or 1 at "past".                                      *)
NextCPU(loop, at, past, n) ==
  /\ Goto(Boss, loop, IF k + 1 < NO_CPUS THEN at ELSE past)
  /\ k' = IF k + 1 < NO_CPUS THEN k + 1 ELSE n

-----------------------------------------------------------------------------
(* psci_cpu_on / spin_cpu_on *)
CpuOn ==
  /\ pc[Boss] = "on"
  /\ pc[k] = "off"
  /\ pc' = [pc EXCEPT ![Boss] = "boot", ![k] = "setup"]
  /\ UNCHANGED <<shared, event, fn, got, boss, runs>>

(* cpu_boot: until it has started; then the next one *)
Booted ==
  /\ started[k]
  /\ NextCPU("boot", "on", "up", 0)
  /\ UNCHANGED <<shared, event, fn, got, call, job, targets, runs>>

(* All CPUs have started: at the end of ensure_cpus_on, and again in each  *)
(* run_on_cpus, which then starts with the first secondary.                *)
Up ==
  /\ started[k]
  /\ NextCPU("up", "up", IF call = "boot" THEN "ready" ELSE "async", 1)
  /\ UNCHANGED <<shared, event, fn, got, call, job, targets, runs>>

NewCall(kind, S) ==
  /\ call' = kind
  /\ job' = (job % MaxJobs) + 1
  /\ targets' = S
  /\ runs' = [i \in CPU |-> 0]
  /\ UNCHANGED <<shared, event, fn, got>>

(* run_on_cpus(fn, arg) *)
RunOnCpus ==
  /\ Goto(Boss, "ready", "up")
  /\ k' = 0
  /\ NewCall("all", CPU)

(* run_on_cpu(c, fn, arg) *)
RunOnCpu(c) ==
  /\ Goto(Boss, "ready", IF c = Boss THEN "own" ELSE "async")
  /\ k' = c
  /\ NewCall("one", {c})

(* run_on_cpu_async: wait for started, *)
Async ==
  /\ started[k]
  /\ Goto(Boss, "async", "unfinish")
  /\ UNCHANGED <<shared, event, fn, got, boss, runs>>

(* Mutation of Unfinish: finished is left over from the previous call. *)
UnfinishMissing ==
  /\ Goto(Boss, "unfinish", "arg")
  /\ UNCHANGED <<shared, event, fn, got, boss, runs>>

(* finished = 0, *)
Unfinish ==
  /\ Goto(Boss, "unfinish", "arg")
  /\ finished' = [finished EXCEPT ![k] = FALSE]
  /\ UNCHANGED <<started, to_execute, arg, event, fn, got, boss, runs>>

(* arg = arg, *)
SetArg ==
  /\ Goto(Boss, "arg", "fn")
  /\ arg' = [arg EXCEPT ![k] = job]
  /\ UNCHANGED <<started, finished, to_execute, event, fn, got, boss, runs>>

(* to_execute = fn, *)
SetFn ==
  /\ Goto(Boss, "fn", "sev")
  /\ to_execute' = [to_execute EXCEPT ![k] = job]
  /\ UNCHANGED <<started, finished, arg, event, fn, got, boss, runs>>

(* and sev; then the next CPU, or back in run_on_cpu.                      *)
SevJob ==
  /\ IF call = "all" THEN NextCPU("sev", "async", "own", 0)
                     ELSE Goto(Boss, "sev", "join") /\ UNCHANGED k
  /\ event' = AllEvents
  /\ UNCHANGED <<shared, fn, got, call, job, targets, runs>>

(* fn(cur_cpu, arg) *)
Own ==
  /\ Goto(Boss, "own", IF call = "all" THEN "ownfin" ELSE "return")
  /\ runs' = [runs EXCEPT ![Boss] = @ + 1]
  /\ UNCHANGED <<shared, event, fn, got, boss>>

(* run_on_cpu has nobody to wait for *)
Return ==
  /\ Goto(Boss, "return", "ready")
  /\ UNCHANGED <<shared, event, fn, got, boss, runs>>

OwnFinished ==
  /\ Goto(Boss, "ownfin", "ownsev")
  /\ finished' = [finished EXCEPT ![Boss] = TRUE]
  /\ UNCHANGED <<started, to_execute, arg, event, fn, got, boss, runs>>

(* sev(); sevl() *)
OwnSev ==
  /\ Goto(Boss, "ownsev", "join")
  /\ event' = AllEvents
  /\ UNCHANGED <<shared, fn, got, boss, runs>>

(* while (!cpu_data[i].finished) wfe(), for all CPUs or for the one *)
Joined ==
  /\ finished[k]
  /\ IF call = "all" THEN NextCPU("join", "join", "ready", 1)
                     ELSE Goto(Boss, "join", "ready") /\ UNCHANGED k
  /\ UNCHANGED <<shared, event, fn, got, call, job, targets, runs>>

NotYet ==
  \/ \E loop \in {"boot", "up", "async"} : KeepsWaiting(loop, started[k])
  \/ KeepsWaiting("join", finished[k])

BossWfe ==
  \E loop \in Loops :
    /\ event[Boss]
    /\ Goto(Boss, WfeOf[loop], loop)
    /\ event' = [event EXCEPT ![Boss] = FALSE]
    /\ UNCHANGED <<shared, fn, got, boss, runs>>

-----------------------------------------------------------------------------
(* per_cpu_setup of a secondary: to_execute = 0, *)
Setup(i) ==
  /\ Goto(i, "setup", "start")
  /\ to_execute' = [to_execute EXCEPT ![i] = 0]
  /\ UNCHANGED <<started, finished, arg, event, fn, got, boss, runs>>

(* started = 1, *)
Start(i) ==
  /\ Goto(i, "start", "startsev")
  /\ started' = [started EXCEPT ![i] = TRUE]
  /\ UNCHANGED <<finished, to_execute, arg, event, fn, got, boss, runs>>

(* and sev; into secondary_idle_loop *)
StartSev(i) ==
  /\ Goto(i, "startsev", "test")
  /\ event' = AllEvents
  /\ UNCHANGED <<shared, fn, got, boss, runs>>

(* if (cpu_data[cpu].to_execute != 0) ... else wfe() *)
Test(i) ==
  /\ Goto(i, "test", IF to_execute[i] # 0 THEN "fetch" ELSE "wfe")
  /\ UNCHANGED <<shared, event, fn, got, boss, runs>>

Wfe(i) ==
  /\ event[i]
  /\ Goto(i, "wfe", "test")
  /\ event' = [event EXCEPT ![i] = FALSE]
  /\ UNCHANGED <<shared, fn, got, boss, runs>>

(* fn = cpu_data[cpu].to_execute, *)
Fetch(i) ==
  /\ Goto(i, "fetch", "clear")
  /\ fn' = [fn EXCEPT ![i] = to_execute[i]]
  /\ UNCHANGED <<shared, event, got, boss, runs>>

(* Mutation of Clear: to_execute is not reset. *)
ClearMissing(i) ==
  /\ Goto(i, "clear", "call")
  /\ UNCHANGED <<shared, event, fn, got, boss, runs>>

(* to_execute = 0, *)
Clear(i) ==
  /\ Goto(i, "clear", "call")
  /\ to_execute' = [to_execute EXCEPT ![i] = 0]
  /\ UNCHANGED <<started, finished, arg, event, fn, got, boss, runs>>

(* fn(cpu, cpu_data[cpu].arg): the argument is read, *)
CallFn(i) ==
  /\ Goto(i, "call", "run")
  /\ got' = [got EXCEPT ![i] = arg[i]]
  /\ UNCHANGED <<shared, event, fn, boss, runs>>

(* and the function runs to its end; *)
Run(i) ==
  /\ Goto(i, "run", "fin")
  /\ runs' = [runs EXCEPT ![i] = @ + (IF fn[i] = job /\ got[i] = job THEN 1 ELSE 2)]
  /\ UNCHANGED <<shared, event, fn, got, boss>>

(* finished = 1, *)
Finish(i) ==
  /\ Goto(i, "fin", "finsev")
  /\ finished' = [finished EXCEPT ![i] = TRUE]
  /\ UNCHANGED <<started, to_execute, arg, event, fn, got, boss, runs>>

(* Mutation of FinSev: the SEV is missing. *)
FinSevMissing(i) ==
  /\ Goto(i, "finsev", "test")
  /\ UNCHANGED <<shared, event, fn, got, boss, runs>>

(* and sev. *)
FinSev(i) ==
  /\ Goto(i, "finsev", "test")
  /\ event' = AllEvents
  /\ UNCHANGED <<shared, fn, got, boss, runs>>

-----------------------------------------------------------------------------
BossStep ==
  \/ CpuOn \/ Booted \/ Up \/ NotYet \/ BossWfe
  \/ Async \/ Unfinish \/ SetArg \/ SetFn \/ SevJob
  \/ Own \/ Return \/ OwnFinished \/ OwnSev \/ Joined

Step(i) ==
  \/ Setup(i) \/ Start(i) \/ StartSev(i)
  \/ Test(i) \/ Wfe(i) \/ Fetch(i) \/ Clear(i) \/ CallFn(i)
  \/ Run(i) \/ Finish(i) \/ FinSev(i)

Next ==
  \/ RunOnCpus \/ (\E c \in CPU : RunOnCpu(c))
  \/ BossStep
  \/ \E i \in Secondary : Step(i)

Spec == Init /\ [][Next]_vars

(* Every CPU keeps executing and every function it is given returns; CPU 0 *)
(* need not call anything.                                                 *)
FairSpec == Spec /\ WF_vars(BossStep) /\ \A i \in Secondary : WF_vars(Step(i))

-----------------------------------------------------------------------------
BossPC ==
  {"on", "ready", "unfinish", "arg", "fn", "sev", "own", "return", "ownfin", "ownsev"}
    \cup Loops \cup {WfeOf[loop] : loop \in Loops}
SecondaryPC ==
  {"off", "setup", "start", "startsev", "test", "wfe", "fetch", "clear",
   "call", "run", "fin", "finsev"}

TypeOK ==
  /\ started \in [CPU -> BOOLEAN]
  /\ finished \in [CPU -> BOOLEAN]
  /\ to_execute \in [CPU -> Job]
  /\ arg \in [CPU -> Job]
  /\ event \in [CPU -> BOOLEAN]
  /\ pc \in [CPU -> BossPC \cup SecondaryPC]
  /\ fn \in [CPU -> Job]
  /\ got \in [CPU -> Job]
  /\ k \in CPU
  /\ call \in {"boot", "all", "one"}
  /\ job \in Job
  /\ targets \in SUBSET CPU
  /\ runs \in [CPU -> Nat]

(* A call is handed to each of its CPUs once, with its own fn and arg, and *)
(* run_on_cpu(s) returns only when all have run it, although finished is   *)
(* left over from the previous call until it is reset (cpu_boot.c:40), and *)
(* to_execute is cleared by the other side (cpu_boot.c:94).                *)
busy == call # "boot" /\ pc[Boss] # "ready"
F == INSTANCE ForkJoin
Dispatched == F!FSpec

(* Every CPU is idle, its job fetched and its last result reported, when   *)
(* the next call begins: what the harness frees after run_on_cpus() is no  *)
(* longer used (litmus_test.c:47-50).                                      *)
QuietAtReturn ==
  pc[Boss] = "ready" =>
    \A i \in Secondary : to_execute[i] = 0 /\ pc[i] \in {"startsev", "test", "wfe", "finsev"}

(* While CPU 0 sleeps in the WFE of one of its loops (cpu_boot.c:32,38,55,66,80), *)
(* the CPU k it waits for is awake and on its way to the flag and its SEV: *)
(* it was told of the job before it slept itself, or sleeps no longer.     *)
Asleep(i) == event[i] = FALSE /\ pc[i] \in {"wfe"} \cup {WfeOf[loop] : loop \in Loops}

NoLostWakeup == Asleep(Boss) => pc[k] # "off" /\ ~ Asleep(k)

(* No wake-up is lost between reading started, finished or to_execute and  *)
(* WFE: all CPUs come up, and every call returns.                          *)
AlwaysReturns == (pc[Boss] # "ready") ~> (pc[Boss] = "ready")
===============================================================================
