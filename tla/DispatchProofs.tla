----------------------------- MODULE DispatchProofs ----------------------------
(***************************************************************************)
(* run_on_cpus hands each call to every CPU exactly once and returns when  *)
(* all are idle again, and no wake-up is lost, for any number of CPUs.     *)
(***************************************************************************)
EXTENDS Dispatch, TLAPS

IdlePC    == {"startsev", "test", "wfe", "finsev"}
OffPC     == {"off", "setup", "start"}
BootPC    == {"on", "boot", "bootwfe"}
HandingPC == {"async", "asyncwfe", "unfinish", "arg", "fn"}
JoinPC    == {"join", "joinwfe"}

(* The stages a call goes through on CPU i: nothing to do, given to it but *)
(* not run yet, run but not reported, reported.                            *)
Idle(i) == to_execute[i] = 0 /\ pc[i] \in IdlePC

Pending(i) ==
  /\ runs[i] = 0 /\ ~finished[i] /\ arg[i] = job
  /\ \/ pc[i] \in IdlePC \cup {"fetch"} /\ to_execute[i] = job
     \/ pc[i] = "clear" /\ to_execute[i] = job /\ fn[i] = job
     \/ pc[i] = "call" /\ to_execute[i] = 0 /\ fn[i] = job
     \/ pc[i] = "run" /\ to_execute[i] = 0 /\ fn[i] = job /\ got[i] = job

Over(i) == runs[i] = 1 /\ ~finished[i] /\ to_execute[i] = 0 /\ pc[i] = "fin"
Done(i) == runs[i] = 1 /\ finished[i] /\ Idle(i)

(* CPU 0 has set to_execute of i in the current call. *)
HandedTo(i) ==
  \/ call = "all" /\ \/ pc[Boss] \in HandingPC /\ i < k
                     \/ pc[Boss] = "sev" /\ i <= k
                     \/ pc[Boss] \in {"own", "ownfin", "ownsev"} \cup JoinPC
  \/ call = "one" /\ i = k /\ pc[Boss] \in {"sev"} \cup JoinPC

PcInv == pc[Boss] \in BossPC /\ \A i \in Secondary : pc[i] \in SecondaryPC

(* Where CPU 0 can be in which call, and with which loop variable. *)
CallInv ==
  /\ pc[Boss] \in BootPC => call = "boot" /\ k # 0
  /\ call = "boot" => pc[Boss] \in BootPC \cup {"up", "upwfe", "ready"}
  /\ pc[Boss] \in {"up", "upwfe"} => call # "one"
  /\ pc[Boss] \in HandingPC \cup {"sev"} => k # 0
  /\ pc[Boss] \in {"ownfin", "ownsev"} => call = "all"
  /\ pc[Boss] = "return" => call = "one"
  /\ pc[Boss] \in {"own", "ownfin", "ownsev", "return"} => k = 0
  /\ call = "one" => /\ targets = {k}
                     /\ pc[Boss] \in JoinPC => k # 0
  /\ call = "all" => targets = CPU
  /\ call # "boot" => job # 0

(* Whether CPU 0 has run its own share. *)
OwnDone ==
  pc[Boss] \in {"return", "ownfin", "ownsev"} \/ (call = "all" /\ pc[Boss] \in JoinPC)
OwnInv ==
  /\ OwnDone => runs[Boss] = 1
  /\ busy /\ ~OwnDone => runs[Boss] = 0

StartInv ==
  /\ started[Boss]
  /\ \A i \in Secondary :
       /\ started[i] <=> pc[i] \notin OffPC
       /\ pc[Boss] \notin BootPC => started[i]
       /\ pc[Boss] \in BootPC /\ i < k => started[i]
       /\ ~started[i] => to_execute[i] = 0

WorkInv ==
  \A i \in Secondary : started[i] =>
    /\ HandedTo(i) => Pending(i) \/ Over(i) \/ Done(i)
    /\ ~HandedTo(i) => Idle(i) /\ (busy => runs[i] = 0)
    /\ call = "all" /\ pc[Boss] \in JoinPC /\ i < k => Done(i)
    /\ i = k /\ pc[Boss] \in {"arg", "fn"} => ~finished[i]
    /\ i = k /\ pc[Boss] = "fn" => arg[i] = job

IInv == TypeOK /\ PcInv /\ CallInv /\ OwnInv /\ StartInv /\ WorkInv

-----------------------------------------------------------------------------
LEMMA Zero == 0 \in CPU /\ 1 \in CPU /\ 1 # Boss
BY NoCpusAssumption DEF CPU, Boss

LEMMA InvInit == Init => IInv
<1> SUFFICES ASSUME Init PROVE IInv
  OBVIOUS
<1> USE Zero
<1>1. TypeOK
  BY JobsAssumption DEF Init, TypeOK, BossPC, SecondaryPC, Job
<1>p. PcInv
  BY DEF Init, PcInv, BossPC, SecondaryPC, Secondary, CPU, Boss
<1>2. CallInv /\ OwnInv
  BY DEF Init, CallInv, OwnInv, OwnDone, BootPC, HandingPC, JoinPC, busy, Boss
<1>3. StartInv
  <2>1. started[Boss]
    BY DEF Init, Boss
  <2>2. ASSUME NEW i \in Secondary
               PROVE  ~started[i] /\ pc[i] = "off" /\ to_execute[i] = 0 /\ ~ i < k
    <3>1. i \in CPU /\ i # Boss /\ ~ i < 1
      BY NoCpusAssumption DEF Secondary, CPU, Boss
    <3>2. started[i] = (i = Boss)
      BY <3>1 DEF Init
    <3> QED
      BY <3>1, <3>2 DEF Init
  <2> QED
    BY <2>1, <2>2 DEF Init, StartInv, OffPC, BootPC, Boss
<1>4. WorkInv
  BY DEF Init, WorkInv, Secondary, Boss
<1> QED
  BY <1>1, <1>p, <1>2, <1>3, <1>4 DEF IInv

-----------------------------------------------------------------------------
(* Steps of a secondary. *)
LEMMA SecondaryFrame ==
  ASSUME TypeOK, NEW i \in Secondary, Step(i)
  PROVE  /\ pc'[Boss] = pc[Boss] /\ UNCHANGED boss /\ busy' = busy
         /\ runs'[Boss] = runs[Boss] /\ started'[Boss] = started[Boss]
         /\ arg' = arg
         /\ \A j \in CPU \ {i} :
              /\ pc'[j] = pc[j] /\ to_execute'[j] = to_execute[j] /\ finished'[j] = finished[j]
              /\ started'[j] = started[j] /\ fn'[j] = fn[j] /\ got'[j] = got[j] /\ runs'[j] = runs[j]
<1> USE Zero
<1>1. CASE Setup(i) \/ Start(i) \/ StartSev(i) \/ Test(i)
  BY <1>1 DEF TypeOK, Setup, Start, StartSev, Test, Goto, boss, shared, busy, Secondary, Boss
<1>2. CASE Wfe(i) \/ Fetch(i) \/ Clear(i) \/ CallFn(i)
  BY <1>2 DEF TypeOK, Wfe, Fetch, Clear, CallFn, Goto, boss, shared, busy, Secondary, Boss
<1>3. CASE Run(i) \/ Finish(i) \/ FinSev(i)
  BY <1>3 DEF TypeOK, Run, Finish, FinSev, Goto, boss, shared, busy, Secondary, Boss
<1> QED
  BY <1>1, <1>2, <1>3 DEF Step

LEMMA SecondaryType ==
  ASSUME TypeOK, NEW i \in Secondary, Step(i)
  PROVE  TypeOK'
<1> USE JobsAssumption DEF Secondary
<1>1. CASE Setup(i)
  BY <1>1 DEF TypeOK, Setup, Goto, boss, SecondaryPC, Job
<1>7. CASE Start(i)
  BY <1>7 DEF TypeOK, Start, Goto, boss, SecondaryPC
<1>6. CASE StartSev(i)
  BY <1>6 DEF TypeOK, StartSev, Goto, boss, shared, AllEvents, SecondaryPC
<1>2. CASE Test(i) \/ Wfe(i)
  BY <1>2 DEF TypeOK, Test, Wfe, Goto, boss, shared, SecondaryPC
<1>3. CASE Fetch(i) \/ Clear(i) \/ CallFn(i)
  BY <1>3 DEF TypeOK, Fetch, Clear, CallFn, Goto, boss, shared, SecondaryPC, Job
<1>4. CASE Run(i)
  BY <1>4 DEF TypeOK, Run, Goto, boss, shared, SecondaryPC
<1>5. CASE Finish(i) \/ FinSev(i)
  BY <1>5 DEF TypeOK, Finish, FinSev, Goto, boss, shared, SecondaryPC, AllEvents
<1> QED
  BY <1>1, <1>2, <1>3, <1>4, <1>5, <1>6, <1>7 DEF Step

(* What the stages of i become. *)
LEMMA SecondaryStages ==
  ASSUME IInv, NEW i \in Secondary, Step(i)
  PROVE  /\ pc'[i] \in SecondaryPC
         /\ started'[i] <=> pc'[i] \notin OffPC
         /\ started[i] => started'[i]
         /\ ~started'[i] => to_execute'[i] = 0
         /\ Idle(i) => Idle(i)' /\ runs'[i] = runs[i] /\ finished'[i] = finished[i]
         /\ job # 0 /\ Pending(i) => Pending(i)' \/ Over(i)'
         /\ Over(i) => Done(i)'
         /\ ~started[i] /\ started'[i] => Idle(i)' /\ runs'[i] = runs[i]
<1> USE Zero DEF IInv, TypeOK, StartInv, PcInv, Secondary, Goto, shared, boss, SecondaryPC, OffPC, IdlePC,
      Idle, Pending, Over, Done, Job
<1>1. CASE Setup(i) \/ Start(i) \/ StartSev(i)
  BY <1>1 DEF Setup, Start, StartSev
<1>2. CASE Test(i) \/ Wfe(i)
  BY <1>2 DEF Test, Wfe
<1>3. CASE Fetch(i) \/ Clear(i) \/ CallFn(i)
  BY <1>3 DEF Fetch, Clear, CallFn
<1>4. CASE Run(i) \/ Finish(i) \/ FinSev(i)
  BY <1>4 DEF Run, Finish, FinSev
<1> QED
  BY <1>1, <1>2, <1>3, <1>4 DEF Step

LEMMA SecondaryStep ==
  ASSUME IInv, NEW i \in Secondary, Step(i)
  PROVE  IInv'
<1> USE Zero DEF IInv
<1>t. TypeOK'
  BY SecondaryType
<1>f. /\ pc'[Boss] = pc[Boss] /\ k' = k /\ call' = call /\ job' = job /\ targets' = targets
      /\ busy' = busy /\ runs'[Boss] = runs[Boss] /\ started'[Boss] = started[Boss] /\ arg' = arg
  BY SecondaryFrame DEF boss
<1>s. /\ pc'[i] \in SecondaryPC
      /\ started'[i] <=> pc'[i] \notin OffPC
      /\ started[i] => started'[i]
      /\ ~started'[i] => to_execute'[i] = 0
      /\ Idle(i) => Idle(i)' /\ runs'[i] = runs[i] /\ finished'[i] = finished[i]
      /\ job # 0 /\ Pending(i) => Pending(i)' \/ Over(i)'
      /\ Over(i) => Done(i)'
      /\ ~started[i] /\ started'[i] => Idle(i)' /\ runs'[i] = runs[i]
  BY SecondaryStages
<1>o. \A j \in Secondary \ {i} :
        /\ pc'[j] = pc[j] /\ to_execute'[j] = to_execute[j] /\ finished'[j] = finished[j]
        /\ started'[j] = started[j] /\ fn'[j] = fn[j] /\ got'[j] = got[j] /\ runs'[j] = runs[j]
  BY SecondaryFrame DEF Secondary
<1>h. \A j \in Secondary : HandedTo(j)' = HandedTo(j)
  BY <1>f DEF HandedTo
<1>1. PcInv'
  BY <1>f, <1>s, <1>o DEF PcInv
<1>2. CallInv' /\ OwnInv'
  BY <1>f DEF CallInv, OwnInv, OwnDone
<1>3. StartInv'
  BY <1>f, <1>s, <1>o DEF StartInv
<1>4. WorkInv'
  <2> SUFFICES ASSUME NEW j \in Secondary, started'[j]
               PROVE  /\ HandedTo(j)' => Pending(j)' \/ Over(j)' \/ Done(j)'
                      /\ ~HandedTo(j)' => Idle(j)' /\ (busy' => runs'[j] = 0)
                      /\ call' = "all" /\ pc'[Boss] \in JoinPC /\ j < k' => Done(j)'
                      /\ j = k' /\ pc'[Boss] \in {"arg", "fn"} => ~finished'[j]
                      /\ j = k' /\ pc'[Boss] = "fn" => arg'[j] = job'
    BY DEF WorkInv
  <2>1. CASE j # i
    BY <1>f, <1>o, <1>h, <2>1 DEF WorkInv, Idle, Pending, Over, Done
  <2>2. CASE j = i /\ ~started[i]
    <3>1. pc[Boss] \in BootPC
      BY <2>2 DEF StartInv
    <3>2. call = "boot"
      BY <3>1 DEF CallInv
    <3> QED
      BY <1>f, <1>s, <2>2, <3>1, <3>2 DEF HandedTo, busy, BootPC, JoinPC
  <2>3. CASE j = i /\ started[i] /\ HandedTo(i)
    <3>1. pc[Boss] \notin {"arg", "fn"} \/ i # k
      BY <2>3 DEF HandedTo, CallInv, HandingPC, JoinPC, Secondary, CPU
    <3>2. job # 0
      BY <2>3 DEF HandedTo, CallInv
    <3>3. Done(i) => Done(i)'
      BY <1>s DEF Done
    <3>4. Pending(i) \/ Over(i) \/ Done(i)
      BY <2>3 DEF WorkInv
    <3>5. call = "all" /\ pc[Boss] \in JoinPC /\ i < k => Done(i)
      BY <2>3 DEF WorkInv
    <3> QED
      BY <1>f, <1>h, <1>s, <2>3, <3>1, <3>2, <3>3, <3>4, <3>5
  <2>4. CASE j = i /\ started[i] /\ ~HandedTo(i)
    <3>1. /\ Idle(i) /\ (busy => runs[i] = 0)
          /\ i = k /\ pc[Boss] \in {"arg", "fn"} => ~finished[i]
          /\ i = k /\ pc[Boss] = "fn" => arg[i] = job
      BY <2>4 DEF WorkInv
    <3>2. ~(call = "all" /\ pc[Boss] \in JoinPC)
      BY <2>4 DEF HandedTo
    <3> QED
      BY <1>f, <1>h, <1>s, <2>4, <3>1, <3>2
  <2> QED
    BY <2>1, <2>2, <2>3, <2>4
<1> QED
  BY <1>t, <1>1, <1>2, <1>3, <1>4

-----------------------------------------------------------------------------
(* Steps of CPU 0. *)
LEMMA KRange == ASSUME TypeOK PROVE k \in CPU /\ k \in Nat /\ k < NO_CPUS
BY NoCpusAssumption DEF TypeOK, CPU

LEMMA NextK == ASSUME TypeOK, k + 1 < NO_CPUS PROVE k + 1 \in CPU
BY KRange, NoCpusAssumption DEF CPU

LEMMA BossType ==
  ASSUME TypeOK, BossStep \/ RunOnCpus \/ (\E c \in CPU : RunOnCpu(c))
  PROVE  TypeOK'
<1> USE Zero, JobsAssumption
<1>1. CASE RunOnCpus \/ (\E c \in CPU : RunOnCpu(c))
  BY <1>1 DEF TypeOK, RunOnCpus, RunOnCpu, NewCall, Goto, shared, BossPC, Loops, Job
<1>2. CASE CpuOn
  BY <1>2, KRange DEF TypeOK, CpuOn, shared, boss, BossPC, SecondaryPC, Loops
<1>3. CASE Booted \/ Up \/ Joined
  BY <1>3, NextK DEF TypeOK, Booted, Up, Joined, NextCPU, Goto, shared, BossPC, Loops
<1>4. CASE SevJob
  BY <1>4, NextK DEF TypeOK, SevJob, NextCPU, Goto, shared, AllEvents, BossPC, Loops
<1>5. CASE NotYet \/ BossWfe
  <2>1. PICK loop \in Loops : pc' = [pc EXCEPT ![Boss] = WfeOf[loop]] \/ pc' = [pc EXCEPT ![Boss] = loop]
    BY <1>5 DEF NotYet, BossWfe, KeepsWaiting, Goto, Loops
  <2>2. loop \in BossPC /\ WfeOf[loop] \in BossPC
    BY DEF BossPC
  <2>3. event' \in [CPU -> BOOLEAN]
    BY <1>5 DEF TypeOK, NotYet, BossWfe, KeepsWaiting
  <2>4. UNCHANGED <<shared, fn, got, boss, runs>>
    BY <1>5 DEF NotYet, BossWfe, KeepsWaiting
  <2> QED
    BY <2>1, <2>2, <2>3, <2>4 DEF TypeOK, shared, boss
<1>6. CASE Async \/ SetArg \/ SetFn
  BY <1>6, KRange DEF TypeOK, Async, SetArg, SetFn, Goto, shared, boss, BossPC, Loops
<1>7. CASE Unfinish
  BY <1>7, KRange DEF TypeOK, Unfinish, Goto, boss, BossPC
<1>8. CASE Own \/ Return
  BY <1>8 DEF TypeOK, Own, Return, Goto, shared, boss, BossPC
<1>9. CASE OwnFinished
  BY <1>9 DEF TypeOK, OwnFinished, Goto, boss, BossPC
<1>10. CASE OwnSev
  BY <1>10 DEF TypeOK, OwnSev, Goto, shared, boss, AllEvents, BossPC, Loops
<1> QED
  BY <1>1, <1>2, <1>3, <1>4, <1>5, <1>6, <1>7, <1>8, <1>9, <1>10 DEF BossStep

(* CPU 0 waits, or sends an event: all but its own place stays as it is. *)
LEMMA WaitStep ==
  ASSUME IInv, NotYet \/ BossWfe \/ Async \/ Return \/ OwnFinished \/ OwnSev
  PROVE  IInv'
<1> USE Zero DEF IInv, Boss
<1>t. TypeOK'
  BY BossType DEF BossStep
<1>w. WfeOf["boot"] = "bootwfe" /\ WfeOf["up"] = "upwfe" /\ WfeOf["async"] = "asyncwfe" /\ WfeOf["join"] = "joinwfe"
  BY DEF WfeOf
<1>u. /\ UNCHANGED <<started, to_execute, arg, fn, got, k, call, job, targets, runs>>
      /\ \A i \in Secondary : pc'[i] = pc[i] /\ finished'[i] = finished[i]
  <2>1. CASE NotYet \/ BossWfe
    BY <2>1 DEF TypeOK, NotYet, BossWfe, KeepsWaiting, Goto, shared, boss, Secondary
  <2>2. CASE Async \/ Return \/ OwnFinished \/ OwnSev
    BY <2>2 DEF TypeOK, Async, Return, OwnFinished, OwnSev, Goto, shared, boss, Secondary
  <2> QED
    BY <2>1, <2>2
<1>p. \/ pc[0] \in {"boot", "bootwfe"} /\ pc'[0] \in {"boot", "bootwfe"}
      \/ pc[0] \in {"up", "upwfe"} /\ pc'[0] \in {"up", "upwfe"}
      \/ pc[0] \in {"async", "asyncwfe"} /\ pc'[0] \in {"async", "asyncwfe", "unfinish"}
      \/ pc[0] \in {"join", "joinwfe"} /\ pc'[0] \in {"join", "joinwfe"}
      \/ pc[0] = "return" /\ pc'[0] = "ready"
      \/ pc[0] = "ownfin" /\ pc'[0] = "ownsev"
      \/ pc[0] = "ownsev" /\ pc'[0] = "join"
  <2>1. CASE NotYet \/ BossWfe
    BY <2>1, <1>w DEF TypeOK, NotYet, BossWfe, KeepsWaiting, Goto, Loops
  <2>2. CASE Async \/ Return \/ OwnFinished \/ OwnSev
    BY <2>2 DEF TypeOK, Async, Return, OwnFinished, OwnSev, Goto
  <2> QED
    BY <2>1, <2>2
<1>1. PcInv'
  BY <1>u, <1>p, <1>w DEF PcInv, BossPC, Loops
<1>2. CallInv'
  BY <1>u, <1>p DEF CallInv, BootPC, HandingPC, JoinPC
<1>3. OwnInv'
  BY <1>u, <1>p DEF OwnInv, OwnDone, CallInv, busy, JoinPC
<1>4. StartInv'
  BY <1>u, <1>p DEF StartInv, BootPC
<1>h. \A i \in Secondary : HandedTo(i)' <=> HandedTo(i)
  BY <1>u, <1>p DEF HandedTo, CallInv, HandingPC, JoinPC
<1>s. \A i \in Secondary : /\ Idle(i)' <=> Idle(i)
                           /\ Pending(i)' <=> Pending(i)
                           /\ Over(i)' <=> Over(i)
                           /\ Done(i)' <=> Done(i)
  BY <1>u DEF Idle, Pending, Over, Done
<1>b. busy' => busy
  BY <1>u, <1>p DEF busy
<1>5. WorkInv'
  <2> SUFFICES ASSUME NEW i \in Secondary, started'[i]
               PROVE  /\ HandedTo(i)' => Pending(i)' \/ Over(i)' \/ Done(i)'
                      /\ ~HandedTo(i)' => Idle(i)' /\ (busy' => runs'[i] = 0)
                      /\ call' = "all" /\ pc'[Boss] \in JoinPC /\ i < k' => Done(i)'
                      /\ i = k' /\ pc'[Boss] \in {"arg", "fn"} => ~finished'[i]
                      /\ i = k' /\ pc'[Boss] = "fn" => arg'[i] = job'
    BY DEF WorkInv
  <2>1. pc'[0] \notin {"arg", "fn"}
    BY <1>p
  <2>2. call' = "all" /\ pc'[0] \in JoinPC /\ i < k' => Done(i)
    <3>1. pc[0] = "ownsev" => ~ i < k
      BY <1>u DEF CallInv, Secondary, CPU
    <3> QED
      BY <1>u, <1>p, <3>1 DEF WorkInv, JoinPC
  <2> QED
    BY <1>u, <1>h, <1>s, <1>b, <2>1, <2>2 DEF WorkInv
<1> QED
  BY <1>t, <1>1, <1>2, <1>3, <1>4, <1>5

(* CPU 0 boots the next CPU, or looks at the next one. *)
LEMMA CpuOnStep ==
  ASSUME IInv, CpuOn
  PROVE  IInv'
<1> USE Zero DEF IInv, Boss
<1>t. TypeOK'
  BY BossType DEF BossStep
<1>k. k \in Secondary /\ pc[k] = "off" /\ call = "boot" /\ pc[0] = "on"
  BY DEF CpuOn, TypeOK, CallInv, BootPC, Secondary
<1>u. /\ UNCHANGED <<started, finished, to_execute, arg, fn, got, k, call, job, targets, runs>>
      /\ pc'[0] = "boot" /\ pc'[k] = "setup"
      /\ \A i \in Secondary \ {k} : pc'[i] = pc[i]
  BY <1>k DEF TypeOK, CpuOn, shared, boss, Secondary
<1>1. PcInv'
  BY <1>k, <1>u DEF PcInv, BossPC, Loops, SecondaryPC
<1>2. CallInv' /\ OwnInv'
  BY <1>k, <1>u DEF CallInv, OwnInv, OwnDone, busy, BootPC, HandingPC, JoinPC
<1>3. StartInv'
  BY <1>k, <1>u DEF StartInv, BootPC, OffPC
<1>4. WorkInv'
  <2>1. ~started[k]
    BY <1>k DEF StartInv, OffPC
  <2>2. ASSUME NEW i \in Secondary, started[i] PROVE Idle(i)' /\ ~HandedTo(i)' /\ ~busy'
    BY <1>k, <1>u, <2>1, <2>2 DEF WorkInv, HandedTo, Idle, busy
  <2> QED
    BY <1>k, <1>u, <2>2 DEF WorkInv, JoinPC
<1> QED
  BY <1>t, <1>1, <1>2, <1>3, <1>4

LEMMA UpStep ==
  ASSUME IInv, Booted \/ Up
  PROVE  IInv'
<1> USE Zero DEF IInv, Boss
<1>t. TypeOK'
  BY BossType DEF BossStep
<1>k. k \in CPU /\ k \in Nat /\ k < NO_CPUS /\ \A i \in Secondary : i \in Nat /\ i < NO_CPUS /\ i # 0
  BY KRange, NoCpusAssumption DEF Secondary, CPU
<1>u. /\ UNCHANGED <<started, finished, to_execute, arg, fn, got, call, job, targets, runs>>
      /\ \A i \in Secondary : pc'[i] = pc[i]
      /\ started[k]
  BY DEF TypeOK, Booted, Up, NextCPU, Goto, shared, Secondary
<1>p. \/ pc[0] = "boot" /\ pc'[0] = "on" /\ k' = k + 1
      \/ pc[0] = "boot" /\ pc'[0] = "up" /\ k' = 0 /\ ~ k + 1 < NO_CPUS
      \/ pc[0] = "up" /\ pc'[0] = "up"
      \/ pc[0] = "up" /\ call = "boot" /\ pc'[0] = "ready"
      \/ pc[0] = "up" /\ call = "all" /\ pc'[0] = "async" /\ k' = 1
  BY DEF TypeOK, CallInv, Booted, Up, NextCPU, Goto
<1>s. /\ pc[0] = "boot" /\ k' = k + 1 => \A i \in Secondary : i < k' => started[i]
      /\ pc[0] = "boot" /\ ~ k + 1 < NO_CPUS => \A i \in Secondary : started[i]
  <2>1. ASSUME NEW i \in Secondary, pc[0] = "boot", i < k + 1 PROVE started[i]
    <3>1. i = k \/ i < k
      BY <1>k, <2>1
    <3> QED
      BY <1>u, <2>1, <3>1 DEF StartInv, BootPC
  <2>2. ASSUME NEW i \in Secondary, ~ k + 1 < NO_CPUS PROVE i < k + 1
    BY <1>k, <2>2, NoCpusAssumption
  <2> QED
    BY <2>1, <2>2
<1>1. PcInv'
  BY <1>u, <1>p DEF PcInv, BossPC, Loops
<1>2. CallInv'
  BY <1>u, <1>p, <1>k DEF CallInv, BootPC, HandingPC, JoinPC
<1>3. OwnInv'
  BY <1>u, <1>p DEF OwnInv, OwnDone, CallInv, busy, JoinPC
<1>4. StartInv'
  BY <1>u, <1>p, <1>s DEF StartInv, BootPC
<1>5. WorkInv'
  <2>1. ASSUME NEW i \in Secondary, started[i]
        PROVE  Idle(i)' /\ ~HandedTo(i)' /\ (busy' => runs'[i] = 0)
    <3>1. ~HandedTo(i)
      BY <1>p DEF HandedTo, CallInv, BootPC, HandingPC, JoinPC
    <3>2. ~HandedTo(i)'
      BY <1>u, <1>p, <1>k DEF HandedTo, CallInv, BootPC, HandingPC, JoinPC
    <3>3. busy' => busy
      BY <1>u, <1>p DEF busy
    <3> QED
      BY <1>u, <2>1, <3>1, <3>2, <3>3 DEF WorkInv, Idle
  <2> QED
    BY <1>u, <1>p, <2>1 DEF WorkInv, JoinPC
<1> QED
  BY <1>t, <1>1, <1>2, <1>3, <1>4, <1>5

(* CPU 0 makes a call. *)
LEMMA CallStep ==
  ASSUME IInv, RunOnCpus \/ \E c \in CPU : RunOnCpu(c)
  PROVE  IInv'
<1> USE Zero DEF IInv, Boss
<1>t. TypeOK'
  BY BossType
<1>u. /\ UNCHANGED <<started, finished, to_execute, arg, fn, got>>
      /\ \A i \in Secondary : pc'[i] = pc[i]
      /\ \A i \in CPU : runs'[i] = 0
      /\ pc[0] = "ready" /\ job' # 0
  <2>1. job' = (job % MaxJobs) + 1
    BY DEF RunOnCpus, RunOnCpu, NewCall
  <2>2. job' # 0
    BY <2>1, JobsAssumption DEF TypeOK, Job
  <2> QED
    BY <2>2 DEF TypeOK, RunOnCpus, RunOnCpu, NewCall, Goto, shared, Secondary
<1>p. /\ k' \in CPU
      /\ \/ call' = "all" /\ targets' = CPU /\ pc'[0] = "up" /\ k' = 0
         \/ call' = "one" /\ targets' = {k'} /\ pc'[0] = "own" /\ k' = 0
         \/ call' = "one" /\ targets' = {k'} /\ pc'[0] = "async" /\ k' # 0
  BY DEF TypeOK, RunOnCpus, RunOnCpu, NewCall, Goto
<1>1. PcInv'
  BY <1>u, <1>p DEF PcInv, BossPC, Loops
<1>2. CallInv'
  BY <1>u, <1>p DEF CallInv, BootPC, HandingPC, JoinPC
<1>3. OwnInv'
  BY <1>u, <1>p DEF OwnInv, OwnDone, JoinPC
<1>4. StartInv'
  BY <1>u, <1>p DEF StartInv, BootPC
<1>5. WorkInv'
  <2>1. ASSUME NEW i \in Secondary, started[i]
        PROVE  Idle(i)' /\ ~HandedTo(i)' /\ runs'[i] = 0
    BY <1>u, <1>p, <2>1 DEF WorkInv, HandedTo, HandingPC, JoinPC, Idle, Secondary
  <2> QED
    BY <1>u, <1>p, <2>1 DEF WorkInv, JoinPC
<1> QED
  BY <1>t, <1>1, <1>2, <1>3, <1>4, <1>5

(* CPU 0 writes to cpu_data[k]. *)
LEMMA HandStep ==
  ASSUME IInv, Unfinish \/ SetArg \/ SetFn
  PROVE  IInv'
<1> USE Zero DEF IInv, Boss
<1>t. TypeOK'
  BY BossType DEF BossStep
<1>p. \/ pc[0] = "unfinish" /\ pc'[0] = "arg"
      \/ pc[0] = "arg" /\ pc'[0] = "fn"
      \/ pc[0] = "fn" /\ pc'[0] = "sev"
  BY DEF TypeOK, Unfinish, SetArg, SetFn, Goto
<1>k. k \in Secondary /\ started[k] /\ ~HandedTo(k)
  <2>1. k \in Secondary
    BY <1>p DEF CallInv, HandingPC, TypeOK, Secondary
  <2> QED
    BY <1>p, <2>1, KRange DEF StartInv, BootPC, HandedTo, JoinPC
<1>u. /\ UNCHANGED <<started, fn, got, k, call, job, targets, runs>>
      /\ \A i \in Secondary : pc'[i] = pc[i]
      /\ \A i \in Secondary \ {k} : /\ finished'[i] = finished[i]
                                    /\ arg'[i] = arg[i]
                                    /\ to_execute'[i] = to_execute[i]
  BY <1>k DEF TypeOK, Unfinish, SetArg, SetFn, Goto, boss, Secondary
<1>v. /\ pc[0] = "unfinish" => ~finished'[k] /\ arg'[k] = arg[k] /\ to_execute'[k] = to_execute[k]
      /\ pc[0] = "arg" => finished'[k] = finished[k] /\ arg'[k] = job /\ to_execute'[k] = to_execute[k]
      /\ pc[0] = "fn" => finished'[k] = finished[k] /\ arg'[k] = arg[k] /\ to_execute'[k] = job
  BY <1>k DEF TypeOK, Unfinish, SetArg, SetFn, Goto, Secondary
<1>w. /\ Idle(k) /\ runs[k] = 0
      /\ pc[0] \in {"arg", "fn"} => ~finished[k]
      /\ pc[0] = "fn" => arg[k] = job
  BY <1>k, <1>p DEF WorkInv, CallInv, HandingPC, BootPC, busy
<1>1. PcInv'
  BY <1>u, <1>p DEF PcInv, BossPC
<1>2. CallInv'
  BY <1>u, <1>p DEF CallInv, BootPC, HandingPC, JoinPC
<1>3. OwnInv'
  BY <1>u, <1>p DEF OwnInv, OwnDone, busy, JoinPC
<1>4. StartInv'
  BY <1>u, <1>p, <1>k DEF StartInv, BootPC
<1>5. WorkInv'
  <2>1. ASSUME NEW i \in Secondary \ {k}
        PROVE  /\ HandedTo(i)' <=> HandedTo(i)
               /\ Idle(i)' <=> Idle(i)
               /\ Pending(i)' <=> Pending(i)
               /\ Over(i)' <=> Over(i)
               /\ Done(i)' <=> Done(i)
    <3>1. i \in Nat /\ k \in Nat /\ i # k
      BY KRange, NoCpusAssumption DEF Secondary, CPU
    <3>2. HandedTo(i)' <=> HandedTo(i)
      BY <1>u, <1>p, <3>1 DEF HandedTo, HandingPC, JoinPC
    <3> QED
      BY <1>u, <3>2 DEF Idle, Pending, Over, Done
  <2>2. ASSUME NEW i \in Secondary \ {k}, started[i]
        PROVE  /\ HandedTo(i)' => Pending(i)' \/ Over(i)' \/ Done(i)'
               /\ ~HandedTo(i)' => Idle(i)' /\ (busy' => runs'[i] = 0)
    BY <1>u, <1>p, <2>1, <2>2 DEF WorkInv, busy, CallInv, HandingPC, BootPC
  <2>3. CASE pc[0] \in {"unfinish", "arg"}
    <3>1. Idle(k)' /\ ~HandedTo(k)' /\ runs'[k] = 0
      BY <1>k, <1>u, <1>p, <1>v, <1>w, <2>3, KRange DEF Idle, HandedTo, HandingPC, JoinPC
    <3>2. ~finished'[k] /\ (pc'[0] = "fn" => arg'[k] = job')
      BY <1>u, <1>p, <1>v, <1>w, <2>3
    <3> QED
      BY <1>u, <1>p, <1>k, <2>2, <2>3, <3>1, <3>2 DEF WorkInv, JoinPC
  <2>4. CASE pc[0] = "fn"
    <3>1. Pending(k)'
      BY <1>k, <1>u, <1>v, <1>w, <2>4 DEF Pending, Idle, IdlePC
    <3>2. HandedTo(k)'
      <4>1. call \in {"all", "one"}
        BY <2>4 DEF TypeOK, CallInv, BootPC
      <4> QED
        BY <1>u, <1>p, <2>4, <4>1, KRange DEF HandedTo
    <3> QED
      BY <1>u, <1>p, <1>k, <2>2, <2>4, <3>1, <3>2 DEF WorkInv, JoinPC
  <2> QED
    BY <1>p, <2>3, <2>4
<1> QED
  BY <1>t, <1>1, <1>2, <1>3, <1>4, <1>5

(* CPU 0 goes on to the next CPU, or past the last. *)
LEMMA SevStep ==
  ASSUME IInv, SevJob
  PROVE  IInv'
<1> USE Zero DEF IInv, Boss
<1>t. TypeOK'
  BY BossType DEF BossStep
<1>k. k \in Nat /\ k < NO_CPUS /\ k # 0 /\ \A i \in Secondary : i \in Nat /\ i < NO_CPUS /\ i # 0
  BY KRange, NoCpusAssumption DEF Secondary, CPU, SevJob, NextCPU, Goto, CallInv, HandingPC
<1>u. /\ UNCHANGED <<started, finished, to_execute, arg, fn, got, call, job, targets, runs>>
      /\ \A i \in Secondary : pc'[i] = pc[i]
  BY DEF TypeOK, SevJob, NextCPU, Goto, shared, Secondary
<1>p. /\ pc[0] = "sev"
      /\ \/ call = "all" /\ pc'[0] = "async" /\ k' = k + 1 /\ k + 1 < NO_CPUS
         \/ call = "all" /\ pc'[0] = "own" /\ k' = 0 /\ ~ k + 1 < NO_CPUS
         \/ call = "one" /\ pc'[0] = "join" /\ k' = k
  BY DEF TypeOK, CallInv, BootPC, SevJob, NextCPU, Goto
<1>h. \A i \in Secondary : HandedTo(i)' <=> HandedTo(i)
  <2> TAKE i \in Secondary
  <2>1. i \in Nat /\ i < NO_CPUS
    BY <1>k
  <2>2. NO_CPUS \in Nat
    BY NoCpusAssumption
  <2>3. CASE call = "all" /\ k' = k + 1 /\ pc'[0] = "async"
    BY <1>u, <1>p, <1>k, <2>1, <2>3 DEF HandedTo, HandingPC, JoinPC
  <2>4. CASE call = "all" /\ k' = 0 /\ pc'[0] = "own" /\ ~ k + 1 < NO_CPUS
    <3>1. i <= k
      BY <1>k, <2>1, <2>2, <2>4
    <3> QED
      BY <1>u, <1>p, <2>4, <3>1 DEF HandedTo
  <2>5. CASE call = "one"
    BY <1>u, <1>p, <2>5 DEF HandedTo, JoinPC
  <2> QED
    BY <1>p, <2>3, <2>4, <2>5
<1>1. PcInv'
  BY <1>u, <1>p DEF PcInv, BossPC, Loops
<1>2. CallInv'
  BY <1>u, <1>p, <1>k DEF CallInv, BootPC, HandingPC, JoinPC
<1>3. OwnInv'
  BY <1>u, <1>p DEF OwnInv, OwnDone, busy, JoinPC
<1>4. StartInv'
  BY <1>u, <1>p DEF StartInv, BootPC
<1>5. WorkInv'
  <2>1. \A i \in Secondary : /\ Idle(i)' <=> Idle(i)
                             /\ Pending(i)' <=> Pending(i)
                             /\ Over(i)' <=> Over(i)
                             /\ Done(i)' <=> Done(i)
    BY <1>u DEF Idle, Pending, Over, Done
  <2>2. busy' => busy
    BY <1>u, <1>p DEF busy
  <2> QED
    BY <1>u, <1>p, <1>h, <2>1, <2>2 DEF WorkInv, JoinPC
<1> QED
  BY <1>t, <1>1, <1>2, <1>3, <1>4, <1>5

(* CPU 0 runs its own share. *)
LEMMA OwnStep ==
  ASSUME IInv, Own
  PROVE  IInv'
<1> USE Zero DEF IInv, Boss
<1>t. TypeOK'
  BY BossType DEF BossStep
<1>u. /\ UNCHANGED <<started, finished, to_execute, arg, fn, got, k, call, job, targets>>
      /\ \A i \in Secondary : pc'[i] = pc[i] /\ runs'[i] = runs[i]
      /\ runs'[0] = runs[0] + 1
  BY DEF TypeOK, Own, Goto, shared, boss, Secondary
<1>p. /\ pc[0] = "own" /\ k = 0 /\ runs[0] = 0
      /\ \/ call = "all" /\ pc'[0] = "ownfin"
         \/ call = "one" /\ pc'[0] = "return"
  BY DEF TypeOK, CallInv, OwnInv, OwnDone, busy, BootPC, JoinPC, Own, Goto
<1>1. PcInv'
  BY <1>u, <1>p DEF PcInv, BossPC
<1>2. CallInv' /\ OwnInv'
  BY <1>u, <1>p DEF CallInv, OwnInv, OwnDone, BootPC, HandingPC, JoinPC
<1>3. StartInv'
  BY <1>u, <1>p DEF StartInv, BootPC
<1>4. WorkInv'
  <2>1. \A i \in Secondary : /\ Idle(i)' <=> Idle(i)
                             /\ Pending(i)' <=> Pending(i)
                             /\ Over(i)' <=> Over(i)
                             /\ Done(i)' <=> Done(i)
                             /\ HandedTo(i)' <=> HandedTo(i)
    BY <1>u, <1>p DEF Idle, Pending, Over, Done, HandedTo, HandingPC, JoinPC
  <2>2. busy
    BY <1>p DEF busy
  <2> QED
    BY <1>u, <1>p, <2>1, <2>2 DEF WorkInv, JoinPC
<1> QED
  BY <1>t, <1>1, <1>2, <1>3, <1>4

(* A CPU that has been handed its work and has finished is idle again. *)
LEMMA FinishedIsDone ==
  ASSUME IInv, NEW i \in Secondary, HandedTo(i), finished[i]
  PROVE  Done(i)
<1>1. started[i]
  BY DEF IInv, StartInv, HandedTo, BootPC, HandingPC, JoinPC
<1> QED
  BY <1>1 DEF IInv, WorkInv, Pending, Over

(* CPU 0 has seen finished of CPU k. *)
LEMMA JoinStep ==
  ASSUME IInv, Joined
  PROVE  /\ IInv'
         /\ pc'[Boss] = "ready" => \A i \in targets : runs[i] = 1
<1> USE Zero DEF IInv, Boss
<1>t. TypeOK'
  BY BossType DEF BossStep
<1>k. k \in Nat /\ k < NO_CPUS /\ k \in CPU /\ \A i \in Secondary : i \in Nat /\ i < NO_CPUS /\ i # 0
  BY KRange, NoCpusAssumption DEF Secondary, CPU
<1>u. /\ UNCHANGED <<started, finished, to_execute, arg, fn, got, call, job, targets, runs>>
      /\ \A i \in Secondary : pc'[i] = pc[i]
      /\ finished[k]
  BY DEF TypeOK, Joined, NextCPU, Goto, shared, Secondary
<1>p. /\ pc[0] = "join"
      /\ \/ call = "all" /\ pc'[0] = "join" /\ k' = k + 1
         \/ call = "all" /\ pc'[0] = "ready" /\ ~ k + 1 < NO_CPUS
         \/ call = "one" /\ pc'[0] = "ready" /\ k' = k
  BY DEF TypeOK, CallInv, BootPC, Joined, NextCPU, Goto
<1>d. k # 0 => k \in Secondary /\ Done(k)
  <2>1. k # 0 => k \in Secondary /\ HandedTo(k)
    BY <1>k, <1>p DEF Secondary, HandedTo, JoinPC
  <2> QED
    BY <1>u, <2>1, FinishedIsDone
<1>a. \A i \in Secondary : started[i]
  BY <1>p DEF StartInv, BootPC
<1>e. \A i \in Secondary : call = "all" /\ i < k + 1 => Done(i)
  <2> TAKE i \in Secondary
  <2> HAVE call = "all" /\ i < k + 1
  <2>1. i = k \/ i < k
    BY <1>k
  <2> QED
    BY <1>a, <1>d, <1>k, <1>p, <2>1 DEF WorkInv, JoinPC
<1>f. pc'[0] = "ready" => \A i \in Secondary : Idle(i) /\ (i \in targets => runs[i] = 1)
  <2>1. CASE call = "all" /\ ~ k + 1 < NO_CPUS
    <3>1. \A i \in Secondary : i < k + 1
      BY <1>k, <2>1, NoCpusAssumption
    <3> QED
      BY <1>e, <2>1, <3>1 DEF Done
  <2>2. CASE call = "one"
    <3>1. targets = {k} /\ k # 0
      BY <1>p, <2>2 DEF CallInv, JoinPC
    <3>2. \A i \in Secondary \ {k} : ~HandedTo(i)
      BY <2>2 DEF HandedTo
    <3> QED
      BY <1>a, <1>d, <3>1, <3>2 DEF WorkInv, Done
  <2> QED
    BY <1>p, <2>1, <2>2
<1>1. PcInv'
  BY <1>u, <1>p DEF PcInv, BossPC, Loops
<1>2. CallInv'
  BY <1>u, <1>p DEF CallInv, BootPC, HandingPC, JoinPC
<1>3. OwnInv'
  BY <1>u, <1>p DEF OwnInv, OwnDone, busy, JoinPC
<1>4. StartInv'
  BY <1>u, <1>p DEF StartInv, BootPC
<1>5. WorkInv'
  <2>1. \A i \in Secondary : /\ Idle(i)' <=> Idle(i)
                             /\ Pending(i)' <=> Pending(i)
                             /\ Over(i)' <=> Over(i)
                             /\ Done(i)' <=> Done(i)
    BY <1>u DEF Idle, Pending, Over, Done
  <2>2. CASE pc'[0] = "ready"
    <3>1. \A i \in Secondary : ~HandedTo(i)'
      BY <2>2 DEF HandedTo, HandingPC, JoinPC
    <3> QED
      BY <1>f, <2>1, <2>2, <3>1 DEF WorkInv, busy, JoinPC
  <2>3. CASE pc'[0] = "join" /\ k' = k + 1 /\ call = "all"
    <3>1. \A i \in Secondary : HandedTo(i) /\ HandedTo(i)'
      BY <1>u, <1>p, <2>3 DEF HandedTo, JoinPC
    <3> QED
      BY <1>e, <1>u, <1>p, <2>1, <2>3, <3>1 DEF WorkInv
  <2> QED
    BY <1>p, <2>2, <2>3
<1>6. pc'[0] = "ready" => \A i \in targets : runs[i] = 1
  <2>1. targets \subseteq CPU /\ (0 \in targets => runs[0] = 1)
    BY <1>p DEF TypeOK, CallInv, OwnInv, OwnDone, JoinPC
  <2> QED
    BY <1>f, <2>1 DEF Secondary
<1> QED
  BY <1>t, <1>1, <1>2, <1>3, <1>4, <1>5, <1>6

-----------------------------------------------------------------------------
LEMMA InvStep == IInv /\ [Next]_vars => IInv'
<1> SUFFICES ASSUME IInv, [Next]_vars PROVE IInv'
  OBVIOUS
<1>1. CASE RunOnCpus \/ \E c \in CPU : RunOnCpu(c)
  BY <1>1, CallStep
<1>2. CASE BossStep
  BY <1>2, CpuOnStep, UpStep, WaitStep, HandStep, SevStep, OwnStep, JoinStep DEF BossStep
<1>3. CASE \E i \in Secondary : Step(i)
  BY <1>3, SecondaryStep
<1>4. CASE UNCHANGED vars
  BY <1>4 DEF vars, shared, boss, IInv, TypeOK, PcInv, CallInv, OwnInv, OwnDone, StartInv, WorkInv,
              HandedTo, Pending, Over, Done, Idle, busy
<1> QED
  BY <1>1, <1>2, <1>3, <1>4 DEF Next

THEOREM DispatchInvariant == Spec => []IInv
BY InvInit, InvStep, PTL DEF Spec

(* The variables of cpu_boot.c, in every state. *)
THEOREM DispatchTypeOK == Spec => []TypeOK
<1>1. IInv => TypeOK
  BY DEF IInv
<1> QED
  BY <1>1, DispatchInvariant, PTL

(* cpu_boot.c:48-82: all CPUs are idle when run_on_cpu(s) has returned.    *)
THEOREM DispatchQuietAtReturn == Spec => []QuietAtReturn
<1>1. IInv => QuietAtReturn
  <2> SUFFICES ASSUME IInv, pc[Boss] = "ready", NEW i \in Secondary
               PROVE  to_execute[i] = 0 /\ pc[i] \in {"startsev", "test", "wfe", "finsev"}
    BY DEF QuietAtReturn
  <2>1. started[i] /\ ~HandedTo(i)
    BY DEF IInv, StartInv, BootPC, HandedTo, HandingPC, JoinPC
  <2> QED
    BY <2>1 DEF IInv, WorkInv, Idle, IdlePC
<1> QED
  BY <1>1, DispatchInvariant, PTL

-----------------------------------------------------------------------------
(* The steps of a secondary seen by the caller: it runs the function, or   *)
(* nothing happens.                                                        *)
LEMMA SecondaryRefines ==
  ASSUME IInv, NEW i \in Secondary, Step(i)
  PROVE  F!Do(i) \/ UNCHANGED F!fvars
<1> USE DEF IInv
<1>f. busy' = busy /\ targets' = targets
  BY SecondaryFrame DEF boss
<1>1. CASE Run(i)
  <2>1. pc[i] = "run" /\ i \in CPU
    BY <1>1 DEF Run, Goto, Secondary
  <2>2. started[i] /\ ~Idle(i)
    BY <2>1 DEF StartInv, OffPC, Idle, IdlePC
  <2>3. HandedTo(i)
    BY <2>2 DEF WorkInv
  <2>4. runs[i] = 0 /\ fn[i] = job /\ got[i] = job
    BY <2>1, <2>2, <2>3 DEF WorkInv, Pending, Over, Done, IdlePC
  <2>5. i \in targets /\ busy
    BY <2>1, <2>3 DEF CallInv, HandedTo, HandingPC, JoinPC, busy
  <2>6. runs' = [runs EXCEPT ![i] = 1]
    BY <1>1, <2>4 DEF Run
  <2> QED
    BY <1>f, <2>4, <2>5, <2>6 DEF F!Do
<1>2. CASE ~Run(i)
  <2>1. runs' = runs
    BY <1>2 DEF Step, Setup, Start, StartSev, Test, Wfe, Fetch, Clear, CallFn, Finish, FinSev
  <2> QED
    BY <1>f, <2>1 DEF F!fvars
<1> QED
  BY <1>1, <1>2

LEMMA BossRefines ==
  ASSUME IInv, BossStep
  PROVE  F!Do(Boss) \/ F!Join \/ UNCHANGED F!fvars
<1> USE Zero DEF IInv, Boss
<1>1. CASE Own
  <2>1. busy /\ busy' /\ runs[0] = 0 /\ 0 \in targets /\ targets' = targets
    BY <1>1 DEF TypeOK, CallInv, OwnInv, OwnDone, busy, BootPC, JoinPC, Own, Goto, boss
  <2>2. runs' = [runs EXCEPT ![0] = 1]
    BY <1>1, <2>1 DEF Own
  <2> QED
    BY <2>1, <2>2 DEF F!Do, busy
<1>2. CASE Return
  <2>1. busy /\ ~busy' /\ \A i \in targets : runs[i] = 1
    BY <1>2 DEF TypeOK, CallInv, OwnInv, OwnDone, busy, BootPC, Return, Goto, boss
  <2> QED
    BY <1>2, <2>1 DEF F!Join, Return, boss, busy
<1>3. CASE Joined
  <2>1. call' = call /\ targets' = targets /\ runs' = runs /\ busy
    BY <1>3 DEF Joined, Goto, NextCPU, CallInv, BootPC, busy, TypeOK
  <2>2. CASE pc'[0] = "ready"
    <3>1. \A i \in targets : runs[i] = 1
      BY <1>3, <2>2, JoinStep
    <3> QED
      BY <2>1, <2>2, <3>1 DEF F!Join, busy
  <2>3. CASE pc'[0] # "ready"
    BY <2>1, <2>3 DEF F!fvars, busy
  <2> QED
    BY <2>2, <2>3
<1>4. CASE ~Own /\ ~Return /\ ~Joined
  <2>1. call' = call /\ targets' = targets /\ runs' = runs
    BY <1>4 DEF BossStep, CpuOn, Booted, Up, NotYet, BossWfe, KeepsWaiting, Async, Unfinish, SetArg,
                SetFn, SevJob, OwnFinished, OwnSev, boss
  <2>2. call # "boot" => pc[0] # "ready" /\ pc'[0] # "ready"
    <3>1. CASE NotYet \/ BossWfe
      <4>1. PICK loop \in Loops : \/ pc[0] = loop /\ pc'[0] = WfeOf[loop]
                                  \/ pc[0] = WfeOf[loop] /\ pc'[0] = loop
        BY <3>1 DEF TypeOK, NotYet, BossWfe, KeepsWaiting, Goto, Loops
      <4> QED
        BY <4>1 DEF Loops, WfeOf
    <3>2. CASE CpuOn \/ Booted \/ Up
      BY <3>2 DEF TypeOK, CpuOn, Booted, Up, NextCPU, Goto
    <3>3. CASE Async \/ Unfinish \/ SetArg \/ SetFn
      BY <3>3 DEF TypeOK, Async, Unfinish, SetArg, SetFn, Goto
    <3>4. CASE SevJob \/ OwnFinished \/ OwnSev
      BY <3>4 DEF TypeOK, SevJob, OwnFinished, OwnSev, NextCPU, Goto
    <3> QED
      BY <1>4, <3>1, <3>2, <3>3, <3>4 DEF BossStep
  <2> QED
    BY <2>1, <2>2 DEF F!fvars, busy
<1> QED
  BY <1>1, <1>2, <1>3, <1>4

LEMMA RefineStep == IInv /\ [Next]_vars => [F!FNext]_(F!fvars)
<1> SUFFICES ASSUME IInv, [Next]_vars PROVE F!FNext \/ UNCHANGED F!fvars
  OBVIOUS
<1> USE Zero DEF Boss
<1>1. CASE RunOnCpus \/ \E c \in CPU : RunOnCpu(c)
  <2>1. pc[0] = "ready" /\ pc'[0] # "ready" /\ call' # "boot" /\ targets' \in SUBSET CPU
        /\ runs' = [i \in CPU |-> 0]
    BY <1>1 DEF RunOnCpus, RunOnCpu, NewCall, Goto, IInv, TypeOK
  <2> QED
    BY <2>1 DEF F!FNext, F!Fork, busy
<1>2. CASE BossStep
  BY <1>2, BossRefines DEF F!FNext
<1>3. CASE \E i \in Secondary : Step(i)
  BY <1>3, SecondaryRefines DEF F!FNext, Secondary
<1>4. CASE UNCHANGED vars
  BY <1>4 DEF vars, shared, boss, F!fvars, busy
<1> QED
  BY <1>1, <1>2, <1>3, <1>4 DEF Next

LEMMA RefineInit == Init => F!FInit
BY DEF Init, F!FInit, busy

(* cpu_boot.c:48-82: every CPU a call is meant for runs it exactly once,   *)
(* with the fn and arg of that call, before the call returns.              *)
THEOREM DispatchRefines == Spec => Dispatched
BY RefineInit, RefineStep, DispatchInvariant, PTL DEF Spec, Dispatched, F!FSpec
-----------------------------------------------------------------------------
(* Wake-ups.  CPU 0 sleeps at the WFE of a loop only as long as the flag   *)
(* it read is still down, or the CPU that has raised it is at its SEV; an  *)
(* idle CPU, only as long as it has nothing to execute or CPU 0, which has *)
(* given it something, is at its SEV.                                      *)
StartWake ==
  pc[Boss] \in {"bootwfe", "upwfe", "asyncwfe"} /\ ~event[Boss] => ~started[k] \/ pc[k] = "startsev"
FinishWake ==
  pc[Boss] = "joinwfe" /\ ~event[Boss] => ~finished[k] \/ pc[k] = "finsev"
JobWake ==
  \A i \in Secondary :
    pc[i] = "wfe" /\ ~event[i] => to_execute[i] = 0 \/ (pc[Boss] = "sev" /\ k = i)
PoweredOn   == pc[Boss] \in {"boot", "bootwfe"} => pc[k] # "off"
OwnReported == call = "all" /\ pc[Boss] \in {"ownsev"} \cup JoinPC => finished[Boss]

WakeInv == StartWake /\ FinishWake /\ JobWake /\ PoweredOn /\ OwnReported

LEMMA BossIsCpu == Boss \in CPU
BY Zero DEF Boss

LEMMA WakeInit == Init => WakeInv
BY Zero DEF Init, WakeInv, StartWake, FinishWake, JobWake, PoweredOn, OwnReported, JoinPC,
            Boss, Secondary

LEMMA SecondaryWake ==
  ASSUME IInv, WakeInv, NEW i \in Secondary, Step(i)
  PROVE  WakeInv'
<1> USE Zero, BossIsCpu DEF WakeInv
<1>f. /\ pc'[Boss] = pc[Boss] /\ k' = k /\ call' = call
      /\ finished'[Boss] = finished[Boss] /\ started'[Boss] = started[Boss]
      /\ \A j \in Secondary \ {i} :
           /\ pc'[j] = pc[j] /\ to_execute'[j] = to_execute[j]
           /\ finished'[j] = finished[j] /\ started'[j] = started[j]
  BY SecondaryFrame DEF IInv, boss, Secondary
<1>k. k = Boss \/ k \in Secondary
  BY DEF IInv, TypeOK, Secondary
<1>s. /\ event' = AllEvents \/ (pc[i] \notin {"startsev", "finsev"} /\ \A j \in CPU \ {i} : event'[j] = event[j])
      /\ started'[i] => started[i] \/ pc'[i] = "startsev"
      /\ finished'[i] => finished[i] \/ pc'[i] = "finsev"
      /\ pc'[i] = "wfe" => to_execute'[i] = 0
      /\ pc'[i] # "off"
  <2> USE DEF IInv, TypeOK, Secondary, Goto, shared
  <2>1. CASE Setup(i) \/ Start(i) \/ StartSev(i)
    BY <2>1 DEF Setup, Start, StartSev
  <2>2. CASE Test(i) \/ Wfe(i)
    BY <2>2 DEF Test, Wfe
  <2>3. CASE Fetch(i) \/ Clear(i) \/ CallFn(i)
    BY <2>3 DEF Fetch, Clear, CallFn
  <2>4. CASE Run(i) \/ Finish(i) \/ FinSev(i)
    BY <2>4 DEF Run, Finish, FinSev
  <2> QED
    BY <2>1, <2>2, <2>3, <2>4 DEF Step
<1>1. StartWake' /\ FinishWake' /\ JobWake'
  <2>1. CASE event' = AllEvents
    BY <2>1 DEF StartWake, FinishWake, JobWake, AllEvents, Secondary
  <2>2. CASE event' # AllEvents
    <3>1. event'[Boss] = event[Boss] /\ \A j \in Secondary \ {i} : event'[j] = event[j]
      BY <1>s, <2>2 DEF Secondary
    <3>2. StartWake'
      BY <1>f, <1>k, <1>s, <2>2, <3>1 DEF StartWake
    <3>3. FinishWake'
      BY <1>f, <1>k, <1>s, <2>2, <3>1 DEF FinishWake
    <3>4. JobWake'
      BY <1>f, <1>s, <3>1 DEF JobWake
    <3> QED
      BY <3>2, <3>3, <3>4
  <2> QED
    BY <2>1, <2>2
<1>2. PoweredOn' /\ OwnReported'
  BY <1>f, <1>k, <1>s DEF PoweredOn, OwnReported
<1> QED
  BY <1>1, <1>2

(* CPU 0 goes to sleep, or wakes up. *)
LEMMA WaitWake ==
  ASSUME IInv, WakeInv, NotYet \/ BossWfe
  PROVE  WakeInv'
<1> USE Zero, BossIsCpu DEF WakeInv, IInv
<1>1. CASE NotYet
  <2>1. /\ UNCHANGED <<started, finished, to_execute, event, call, k>>
        /\ \A i \in Secondary : pc'[i] = pc[i]
        /\ k = Boss => pc'[Boss] # "off"
        /\ \/ ~started[k] /\ \/ pc[Boss] = "boot" /\ pc'[Boss] = "bootwfe"
                             \/ pc[Boss] = "up" /\ pc'[Boss] = "upwfe"
                             \/ pc[Boss] = "async" /\ pc'[Boss] = "asyncwfe"
           \/ ~finished[k] /\ pc[Boss] = "join" /\ pc'[Boss] = "joinwfe"
    BY <1>1 DEF TypeOK, NotYet, KeepsWaiting, Goto, Loops, WfeOf, shared, boss, Secondary
  <2>k. k = Boss \/ k \in Secondary
    BY DEF TypeOK, Secondary
  <2>2. StartWake' /\ FinishWake'
    BY <2>1, <2>k DEF StartWake, FinishWake
  <2>3. JobWake'
    BY <2>1 DEF JobWake
  <2>4. PoweredOn' /\ OwnReported'
    BY <2>1, <2>k DEF PoweredOn, OwnReported, JoinPC
  <2> QED
    BY <2>2, <2>3, <2>4
<1>2. CASE BossWfe
  <2>1. /\ UNCHANGED <<started, finished, to_execute, call, k>>
        /\ \A i \in Secondary : pc'[i] = pc[i] /\ event'[i] = event[i]
        /\ \/ pc[Boss] = "bootwfe" /\ pc'[Boss] = "boot"
           \/ pc[Boss] = "upwfe" /\ pc'[Boss] = "up"
           \/ pc[Boss] = "asyncwfe" /\ pc'[Boss] = "async"
           \/ pc[Boss] = "joinwfe" /\ pc'[Boss] = "join"
    BY <1>2 DEF TypeOK, BossWfe, Goto, Loops, WfeOf, shared, boss, Secondary
  <2>k. k = Boss \/ k \in Secondary
    BY DEF TypeOK, Secondary
  <2>2. StartWake' /\ FinishWake'
    BY <2>1 DEF StartWake, FinishWake
  <2>3. JobWake'
    BY <2>1 DEF JobWake
  <2>4. PoweredOn' /\ OwnReported'
    BY <2>1, <2>k DEF PoweredOn, OwnReported, JoinPC
  <2> QED
    BY <2>2, <2>3, <2>4
<1> QED
  BY <1>1, <1>2

(* The other steps of CPU 0 leave it awake. *)
LEMMA BossWake ==
  ASSUME IInv, WakeInv, BossStep, ~ NotYet, ~ BossWfe
  PROVE  WakeInv'
<1> USE Zero, BossIsCpu DEF WakeInv, IInv
<1>1. StartWake' /\ FinishWake'
  <2>1. pc'[Boss] \notin {"bootwfe", "upwfe", "asyncwfe", "joinwfe"}
    <3> USE DEF TypeOK, CallInv, BootPC, Goto, NextCPU, Boss
    <3>1. CASE CpuOn \/ Booted \/ Up
      BY <3>1 DEF CpuOn, Booted, Up
    <3>2. CASE Async \/ Unfinish \/ SetArg \/ SetFn
      BY <3>2 DEF Async, Unfinish, SetArg, SetFn
    <3>3. CASE SevJob \/ Own \/ Return
      BY <3>3 DEF SevJob, Own, Return
    <3>4. CASE OwnFinished \/ OwnSev \/ Joined
      BY <3>4 DEF OwnFinished, OwnSev, Joined
    <3> QED
      BY <3>1, <3>2, <3>3, <3>4 DEF BossStep
  <2> QED
    BY <2>1 DEF StartWake, FinishWake
<1>2. JobWake'
  <2>1. CASE SevJob
    BY <2>1 DEF SevJob, JobWake, AllEvents, Secondary
  <2>2. CASE SetFn
    <3>1. pc'[Boss] = "sev" /\ pc[Boss] = "fn" /\ k' = k /\ event' = event
          /\ \A i \in Secondary : pc'[i] = pc[i] /\ (i # k => to_execute'[i] = to_execute[i])
      BY <2>2 DEF TypeOK, SetFn, Goto, boss, Secondary
    <3> QED
      BY <3>1 DEF JobWake
  <2>3. CASE ~ SevJob /\ ~ SetFn
    <3>1. /\ pc[Boss] # "sev" /\ to_execute' = to_execute
          /\ \A i \in Secondary : pc'[i] = "wfe" /\ ~event'[i] => pc[i] = "wfe" /\ ~event[i]
      <4> USE DEF TypeOK, CallInv, BootPC, Goto, NextCPU, Secondary, Boss, shared, AllEvents
      <4>1. CASE CpuOn
        BY <4>1 DEF CpuOn
      <4>2. CASE Booted \/ Up \/ Async \/ Unfinish \/ SetArg
        BY <4>2 DEF Booted, Up, Async, Unfinish, SetArg
      <4>3. CASE Own \/ Return \/ OwnFinished
        BY <4>3 DEF Own, Return, OwnFinished
      <4>4. CASE OwnSev \/ Joined
        BY <4>4 DEF OwnSev, Joined
      <4> QED
        BY <2>3, <4>1, <4>2, <4>3, <4>4 DEF BossStep
    <3> QED
      BY <3>1 DEF JobWake
  <2> QED
    BY <2>1, <2>2, <2>3
<1>3. PoweredOn' /\ OwnReported'
  <2>1. CASE CpuOn
    <3>1. pc'[Boss] = "boot" /\ pc'[k] # "off" /\ k' = k /\ call' = "boot"
      BY <2>1 DEF TypeOK, CallInv, BootPC, CpuOn, boss, Boss
    <3> QED
      BY <3>1 DEF PoweredOn, OwnReported, JoinPC
  <2>2. CASE OwnFinished \/ OwnSev \/ Joined
    <3>1. /\ finished'[Boss] \/ finished'[Boss] = finished[Boss]
          /\ call' = call /\ pc[Boss] \in {"ownfin", "ownsev", "join"}
          /\ pc'[Boss] \in {"ownsev", "join", "ready"}
          /\ pc[Boss] = "ownfin" => finished'[Boss]
      BY <2>2 DEF TypeOK, CallInv, BootPC, OwnFinished, OwnSev, Joined, NextCPU, Goto, boss, shared, Boss
    <3> QED
      BY <3>1 DEF PoweredOn, OwnReported, JoinPC
  <2>3. CASE Booted \/ Up \/ Async \/ Unfinish \/ SetArg \/ SetFn \/ SevJob \/ Own \/ Return
    <3>1. /\ pc'[Boss] \notin {"boot", "bootwfe", "ownsev", "joinwfe"}
          /\ pc'[Boss] = "join" => call' # "all"
      <4> USE DEF TypeOK, CallInv, BootPC, Goto, NextCPU, boss, Boss
      <4>1. CASE Booted \/ Up \/ Async
        BY <4>1 DEF Booted, Up, Async
      <4>2. CASE Unfinish \/ SetArg \/ SetFn
        BY <4>2 DEF Unfinish, SetArg, SetFn
      <4>3. CASE SevJob \/ Own \/ Return
        BY <4>3 DEF SevJob, Own, Return
      <4> QED
        BY <2>3, <4>1, <4>2, <4>3
    <3> QED
      BY <3>1 DEF PoweredOn, OwnReported, JoinPC
  <2> QED
    BY <2>1, <2>2, <2>3 DEF BossStep
<1> QED
  BY <1>1, <1>2, <1>3

LEMMA WakeStep == IInv /\ WakeInv /\ [Next]_vars => WakeInv'
<1> SUFFICES ASSUME IInv, WakeInv, [Next]_vars PROVE WakeInv'
  OBVIOUS
<1> USE DEF WakeInv
<1>1. CASE RunOnCpus \/ \E c \in CPU : RunOnCpu(c)
  <2>1. /\ UNCHANGED <<to_execute, event>> /\ pc[Boss] = "ready"
        /\ pc'[Boss] \in {"up", "own", "async"}
        /\ \A i \in Secondary : pc'[i] = pc[i]
    BY Zero, <1>1 DEF RunOnCpus, RunOnCpu, NewCall, Goto, shared, IInv, TypeOK, Secondary, Boss
  <2> QED
    BY <2>1 DEF StartWake, FinishWake, JobWake, PoweredOn, OwnReported, JoinPC
<1>2. CASE BossStep
  BY <1>2, WaitWake, BossWake
<1>3. CASE \E i \in Secondary : Step(i)
  BY <1>3, SecondaryWake
<1>4. CASE UNCHANGED vars
  BY <1>4 DEF vars, shared, boss, StartWake, FinishWake, JobWake, PoweredOn, OwnReported
<1> QED
  BY <1>1, <1>2, <1>3, <1>4 DEF Next

(* The CPU that CPU 0 waits for in its sleep is on. *)
LEMMA InvWake == IInv /\ WakeInv => NoLostWakeup
<1> SUFFICES ASSUME IInv, WakeInv, Asleep(Boss)
             PROVE  pc[k] # "off" /\ ~ Asleep(k)
  BY DEF NoLostWakeup
<1> USE Zero, BossIsCpu DEF IInv, WakeInv
<1>b. ~event[Boss] /\ pc[Boss] \in {"bootwfe", "upwfe", "asyncwfe", "joinwfe"}
  BY DEF Asleep, PcInv, BossPC, Loops, WfeOf
<1>k. k \in CPU /\ (k # Boss => k \in Secondary)
  BY DEF TypeOK, Secondary
<1>1. CASE pc[Boss] # "joinwfe"
  <2>1. ~started[k] \/ pc[k] = "startsev"
    BY <1>b, <1>1 DEF StartWake
  <2>2. k \in Secondary
    BY <1>b, <1>k, <2>1 DEF StartInv
  <2>3. pc[k] \in {"setup", "start", "startsev"}
    <3>1. CASE pc[Boss] = "bootwfe"
      BY <2>1, <2>2, <3>1 DEF StartInv, OffPC, PoweredOn
    <3>2. CASE pc[Boss] # "bootwfe"
      BY <1>b, <1>1, <2>1, <2>2, <3>2 DEF StartInv, BootPC
    <3> QED
      BY <3>1, <3>2
  <2> QED
    BY <2>3 DEF Asleep, Loops, WfeOf
<1>2. CASE pc[Boss] = "joinwfe"
  <2>1. ~finished[k] \/ pc[k] = "finsev"
    BY <1>b, <1>2 DEF FinishWake
  <2>2. call \in {"all", "one"}
    BY <1>2 DEF TypeOK, CallInv, BootPC
  <2>3. k \in Secondary /\ HandedTo(k)
    BY <1>b, <1>k, <1>2, <2>1, <2>2 DEF CallInv, HandedTo, JoinPC, OwnReported, Boss
  <2>4. pc[k] = "finsev" \/ Pending(k) \/ Over(k)
    BY <1>2, <2>1, <2>3 DEF StartInv, BootPC, WorkInv, Done
  <2>5. pc[k] = "wfe" => event[k]
    BY <1>2, <2>2, <2>3, <2>4 DEF JobWake, Pending, Over, CallInv
  <2>6. pc[k] \in SecondaryPC \ {"off"}
    BY <2>3, <2>4 DEF PcInv, Pending, Over, IdlePC
  <2> QED
    BY <2>5, <2>6 DEF Asleep, Loops, WfeOf, SecondaryPC
<1> QED
  BY <1>1, <1>2

(* No wake-up is lost between the reads of started, finished and           *)
(* to_execute and the WFE after them (cpu_boot.c:32,38,55,66,80,99): while *)
(* CPU 0 sleeps, the CPU it waits for is on and awake.                     *)
THEOREM DispatchNoLostWakeup == Spec => []NoLostWakeup
<1>1. Spec => []WakeInv
  BY WakeInit, WakeStep, DispatchInvariant, PTL DEF Spec
<1> QED
  BY <1>1, InvWake, DispatchInvariant, PTL
===============================================================================
