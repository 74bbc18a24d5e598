------------------------------ MODULE HarnessProofs ------------------------------
(***************************************************************************)
(* go_cpus() for any number of CPUs, threads and runs, and any size of the *)
(* batches: all CPUs go through the same sequence of barriers together,    *)
(* and therefore through the same runs.                                    *)
(***************************************************************************)
EXTENDS Harness, FiniteSetTheorems, WellFoundedInduction, TLAPS

-----------------------------------------------------------------------------
(* Division. *)
LEMMA Remainder ==
  ASSUME NEW n \in Nat, NEW b \in Nat \ {0}
  PROVE  n % b \in 0 .. b - 1
OBVIOUS

LEMMA Quotient ==
  ASSUME NEW n \in Nat, NEW b \in Nat \ {0}
  PROVE  n \div b \in Nat /\ n = (b * (n \div b)) + (n % b)
OBVIOUS

LEMMA ModUnique ==
  ASSUME NEW q \in Nat, NEW b \in Nat \ {0}, NEW m \in 0 .. b - 1
  PROVE  ((b * q) + m) % b = m
<1> DEFINE n == (b * q) + m
           k == n \div b
           w == n % b
<1>0. b * q \in Nat /\ n \in Nat
  OBVIOUS
<1>1. k \in Nat /\ w \in 0 .. b - 1 /\ n = (b * k) + w
  BY <1>0, Quotient, Remainder
<1> HIDE DEF n, k, w
<1>2. n = (b * q) + m
  BY DEF n
<1>3. CASE q = k
  BY <1>1, <1>2, <1>3 DEF w, n
<1>4. CASE q > k
  <2>1. PICK d \in Nat : q = k + 1 + d
    <3>1. q = k + 1 + (q - k - 1) /\ q - k - 1 \in Nat
      BY <1>1, <1>4
    <3> QED
      BY <3>1
  <2>2. b * q = (b * k) + b + (b * d) /\ b * d \in Nat /\ b * k \in Nat
    BY <1>1, <2>1
  <2> QED
    BY <1>1, <1>2, <2>2
<1>5. CASE q < k
  <2>1. PICK d \in Nat : k = q + 1 + d
    <3>1. k = q + 1 + (k - q - 1) /\ k - q - 1 \in Nat
      BY <1>1, <1>5
    <3> QED
      BY <3>1
  <2>2. b * k = (b * q) + b + (b * d) /\ b * d \in Nat /\ b * q \in Nat
    BY <1>1, <2>1
  <2> QED
    BY <1>1, <1>2, <2>2
<1> QED
  BY <1>1, <1>3, <1>4, <1>5


-----------------------------------------------------------------------------
(* The runs of a batch (litmus_test.c:386-387).                            *)
LEMMA BatchStartFacts ==
  ASSUME NEW r \in Nat
  PROVE  /\ BatchStart(r) \in Nat
         /\ BatchStart(r) <= r /\ r < BatchStart(r) + batch_size
BY SizesAssumption, Remainder DEF BatchStart

LEMMA BatchStartOf ==
  ASSUME NEW r \in Nat, NEW m \in 0 .. batch_size - 1
  PROVE  BatchStart(BatchStart(r) + m) = BatchStart(r)
<1>1. batch_size \in Nat \ {0}
  BY SizesAssumption
<1> DEFINE q == r \div batch_size
<1>2. q \in Nat /\ BatchStart(r) = batch_size * q
  BY <1>1, Quotient, Remainder DEF BatchStart
<1>3. ((batch_size * q) + m) % batch_size = m
  BY <1>1, <1>2, ModUnique
<1>4. batch_size * q \in Nat
  BY <1>1, <1>2
<1> HIDE DEF q
<1> QED
  BY <1>1, <1>2, <1>3, <1>4 DEF BatchStart

LEMMA NextBatchStart ==
  ASSUME NEW r \in Nat
  PROVE  BatchStart(BatchStart(r) + batch_size) = BatchStart(r) + batch_size
<1>1. batch_size \in Nat \ {0}
  BY SizesAssumption
<1> DEFINE q == r \div batch_size
<1>2. q \in Nat /\ BatchStart(r) = batch_size * q
  BY <1>1, Quotient, Remainder DEF BatchStart
<1>3. ((batch_size * (q + 1)) + 0) % batch_size = 0
  BY <1>1, <1>2, ModUnique
<1>4. batch_size * q \in Nat /\ batch_size * (q + 1) = (batch_size * q) + batch_size
  BY <1>1, <1>2
<1> HIDE DEF q
<1> QED
  BY <1>1, <1>2, <1>3, <1>4 DEF BatchStart

LEMMA FirstBatch == BatchStart(0) = 0
<1>1. ((batch_size * 0) + 0) % batch_size = 0
  BY SizesAssumption, ModUnique
<1> QED
  BY <1>1, SizesAssumption DEF BatchStart

(* Every run is in its batch, and every run of it has the same batch. *)
LEMMA BatchFacts ==
  ASSUME NEW r \in Run
  PROVE  /\ r \in Batch(r)
         /\ Batch(r) \subseteq Run
         /\ BatchStart(r) \in Run /\ BatchStart(r) <= r
         /\ BatchEnd(r) \in r + 1 .. no_runs
<1>1. r \in Nat /\ r < no_runs /\ no_runs \in Nat
  BY SizesAssumption DEF Run
<1> QED
  BY <1>1, BatchStartFacts, SizesAssumption DEF Batch, BatchEnd, Run

LEMMA SameBatch ==
  ASSUME NEW r \in Run, NEW q \in Batch(r)
  PROVE  BatchStart(q) = BatchStart(r) /\ BatchEnd(q) = BatchEnd(r) /\ Batch(q) = Batch(r)
<1>1. r \in Nat /\ batch_size \in Nat \ {0} /\ no_runs \in Nat
  BY SizesAssumption DEF Run
<1>2. q - BatchStart(r) \in 0 .. batch_size - 1 /\ q = BatchStart(r) + (q - BatchStart(r))
  BY <1>1, BatchStartFacts DEF Batch, BatchEnd
<1>3. BatchStart(q) = BatchStart(r)
  BY <1>1, <1>2, BatchStartOf
<1> QED
  BY <1>3 DEF Batch, BatchEnd

(* After the last run of a batch comes the first of another, or the end. *)
LEMMA AfterBatch ==
  ASSUME NEW r \in Run, BatchEnd(r) <= r + 1
  PROVE  r + 1 = no_runs \/ (r + 1 \in Run /\ BatchStart(r + 1) = r + 1)
<1>1. r \in Nat /\ no_runs \in Nat /\ r < no_runs
  BY SizesAssumption DEF Run
<1>2. BatchEnd(r) = r + 1
  BY <1>1, BatchFacts
<1>3. CASE BatchEnd(r) = no_runs
  BY <1>2, <1>3
<1>4. CASE BatchEnd(r) = BatchStart(r) + batch_size /\ BatchEnd(r) # no_runs
  <2>1. r + 1 = BatchStart(r) + batch_size
    BY <1>2, <1>4
  <2>2. BatchStart(r + 1) = r + 1
    BY <1>1, <2>1, NextBatchStart
  <2> QED
    BY <1>1, <1>2, <1>4, <2>2, BatchFacts DEF Run
<1> QED
  BY <1>3, <1>4 DEF BatchEnd

(* The runs of a batch have different ASIDs, and none has that of the      *)
(* harness unless there is one run too many (litmus_test_ctx.c:189-194).   *)
LEMMA AsidFacts ==
  ASSUME NEW r \in Run, NEW q \in Batch(r)
  PROVE  /\ Asid(q) = Asid(r) => q = r
         /\ batch_size <= MAX_ASID => Asid(r) # 0
<1>1. r \in Nat /\ q \in Nat /\ batch_size \in Nat \ {0} /\ MAX_ASID \in Nat \ {0}
      /\ batch_size <= MAX_ASID + 1
  BY SizesAssumption, BatchFacts DEF Run
<1> DEFINE x == r % batch_size
           y == q % batch_size
           M == MAX_ASID + 1
<1>2. x \in 0 .. batch_size - 1 /\ y \in 0 .. batch_size - 1
  BY <1>1, Remainder
<1>3. r = BatchStart(r) + x /\ q = BatchStart(r) + y
  BY <1>1, <1>2, SameBatch DEF BatchStart
<1>4. ASSUME NEW z \in 0 .. batch_size - 1
      PROVE  (1 + z) % (1 + MAX_ASID) = IF 1 + z = M THEN 0 ELSE 1 + z
  <2>1. CASE 1 + z = M
    <3>1. ((M * 1) + 0) % M = 0
      BY <1>1, ModUnique
    <3> QED
      BY <1>1, <2>1, <3>1
  <2>2. CASE 1 + z # M
    <3>1. ((M * 0) + (1 + z)) % M = 1 + z
      BY <1>1, <1>4, <2>2, ModUnique
    <3> QED
      BY <1>1, <1>4, <2>2, <3>1
  <2> QED
    BY <2>1, <2>2
<1>5. /\ Asid(r) = IF 1 + x = M THEN 0 ELSE 1 + x
      /\ Asid(q) = IF 1 + y = M THEN 0 ELSE 1 + y
  BY <1>2, <1>4 DEF Asid
<1>6. BatchStart(r) \in Nat
  BY <1>1, BatchStartFacts
<1> HIDE DEF x, y
<1>7. batch_size <= MAX_ASID => Asid(r) # 0
  BY <1>1, <1>2, <1>5
<1>8. Asid(q) = Asid(r) => x = y
  BY <1>1, <1>2, <1>5
<1> QED
  BY <1>1, <1>3, <1>6, <1>7, <1>8

-----------------------------------------------------------------------------
(* Where everybody is.  The barriers for all CPUs cut go_cpus into stages: *)
(* "head" is the head of the batch loop with the cleaning up before it,    *)
(* "alloc" lasts until the batch is allocated, "run" is one run, the first *)
(* of a batch with its setup.  A CPU that was released is in the next      *)
(* stage, whether it has left the barrier or not.                          *)
Released(i) == pc[i] \in Waits /\ phase[BarAt(i)][i] \in {"go", "passed"}

Stage(i) ==
  CASE pc[i] = "begin"     -> IF Released(i) THEN "head" ELSE "begin"
    [] pc[i] = "affined"   -> IF Released(i) THEN "alloc" ELSE "head"
    [] pc[i] = "allocated" -> IF Released(i) THEN "run" ELSE "alloc"
    [] pc[i] = "exit"      -> IF Released(i) THEN "done" ELSE "head"
    [] pc[i] = "end"       -> IF Released(i) /\ BatchEnd(j[i]) <= j[i] + 1 THEN "head" ELSE "run"
    [] pc[i] \in {"loop", "clean"}     -> "head"
    [] pc[i] \in {"affinity", "alloc"} -> "alloc"
    [] pc[i] = "done"      -> "done"
    [] OTHER               -> "run"

Round(i) == IF pc[i] = "end" /\ Released(i) THEN j[i] + 1 ELSE j[i]

(* Within a run the threads of the test meet twice more. *)
Turn(i) ==
  CASE pc[i] = "go"             -> IF Released(i) THEN 1 ELSE 0
    [] pc[i] \in {"func", "out"} -> 1
    [] pc[i] = "back"           -> IF Released(i) THEN 2 ELSE 1
    [] pc[i] \in {"record", "overallocated"} -> 2
    [] pc[i] = "end"            -> IF Released(i) THEN 0 ELSE 2
    [] OTHER                    -> 0

IsThread(i) == affinity[i] < no_threads

Together == \A i, k \in CPU : Stage(i) = Stage(k) /\ Round(i) = Round(k)
TurnInv  == \A i, k \in CPU : IsThread(i) /\ IsThread(k) => Turn(i) = Turn(k)

(* A CPU is in no barrier but the one its pc is at. *)
BarInv ==
  \A b \in Bar, i \in CPU : phase[b][i] # "out" => pc[i] \in Waits /\ b = BarAt(i)

First(r) == r \in Run /\ BatchStart(r) = r
InRun    == {"run", "go", "func", "out", "back", "record", "end", "overallocated"}
HasVcpu  == InRun \cup {"alloc", "allocated", "setup", "prepare"}

PcInv ==
  \A i \in CPU :
    /\ pc[i] # "failed"
    /\ pc[i] = "begin" => j[i] = 0
    /\ pc[i] \in {"loop", "clean"} => j[i] = no_runs \/ First(j[i])
    /\ pc[i] \in {"affined", "affinity", "alloc", "allocated", "setup", "prepare"} => First(j[i])
    /\ pc[i] \in InRun => j[i] \in Run
    /\ pc[i] \in {"exit", "done"} => j[i] = no_runs
    /\ pc[i] = "allocated" => idx[i] = BatchStart(j[i])
    /\ pc[i] = "setup" => idx[i] \in Batch(j[i])
    /\ pc[i] = "clean" => j[i] - 1 \in Run /\ idx[i] \in BatchStart(j[i] - 1) .. j[i] - 1

VcpuInv ==
  \A i \in CPU :
    /\ pc[i] \in HasVcpu /\ Stage(i) # "head" => vcpu[i] = affinity[i]
    /\ pc[i] \in {"go", "func", "out", "back", "record", "overallocated"} => IsThread(i)

(* Runs that have not begun are in their initial state. *)
InitInv ==
  \A i \in CPU :
    /\ pc[i] = "allocated" /\ Stage(i) = "alloc" /\ vcpu[i] = 0 =>
         \A r \in Batch(j[i]) : data[r] = "init" /\ ptes[r] = "init"
    /\ Stage(i) = "run" =>
         \A r \in Batch(Round(i)) :
           r > Round(i) \/ (r = Round(i) /\ IsThread(i) /\ Turn(i) = 0) =>
             data[r] = "init" /\ ptes[r] = "init"

(* What is left in a TLB from other batches has none of the ASIDs in use. *)
Fresh(i) ==
  \A r \in tlb[i] : r \in Batch(Round(i)) \/ \A q \in Batch(Round(i)) : Asid(r) # Asid(q)
TlbInv == \A i \in CPU : Stage(i) = "run" /\ pc[i] \in InRun => Fresh(i)

(* Without spare CPUs all saved entries are the initial ones, and what a   *)
(* test has changed is what every CPU has still to put back.               *)
SavedInv ==
  \A i \in CPU :
    /\ pc[i] = "setup" => \A r \in Batch(j[i]) : r < idx[i] => saved[i][r] = "init"
    /\ pc[i] = "prepare" \/ pc[i] \in InRun => \A r \in Batch(j[i]) : saved[i][r] = "init"
    /\ pc[i] = "clean" => \A r \in idx[i] .. j[i] - 1 : saved[i][r] = "init"

ToPutBack(i, r) ==
  \/ Stage(i) = "run" /\ r \in Batch(Round(i)) /\ r <= Round(i)
  \/ Stage(i) = "head" /\ pc[i] = "end" /\ r \in Batch(j[i])
  \/ pc[i] = "clean" /\ r \in idx[i] .. j[i] - 1
PteInv == \A i \in CPU, r \in Run : ptes[r] = "test" => ToPutBack(i, r)

RestoreInv == no_threads = NO_CPUS => SavedInv /\ PteInv

Row == [values : Seq(Nat), counter : Nat \ {0}, is_relaxed : BOOLEAN]
HistInv == hist \in [results : Seq(Row), lut : [0 .. limit - 1 -> Nat]]

IInv ==
  /\ TypeOK /\ HistInv /\ BarInv /\ PcInv /\ VcpuInv /\ Together /\ TurnInv
  /\ InitInv /\ TlbInv /\ RestoreInv

-----------------------------------------------------------------------------
(* As many threads as CPUs: each thread is played by some CPU. *)
LEMMA EachThread ==
  ASSUME affinity \in Permutation
  PROVE  \A t \in CPU : \E i \in CPU : affinity[i] = t
<1>1. affinity \in Injection(CPU, CPU)
  BY DEF Permutation, Injection, IsInjective
<1>2. IsFiniteSet(CPU)
  BY SizesAssumption, FS_Interval DEF CPU
<1>3. affinity \in Surjection(CPU, CPU)
  BY <1>1, <1>2, FS_Injection
<1> QED
  BY <1>3 DEF Surjection

LEMMA SomeThread0 ==
  ASSUME affinity \in Permutation
  PROVE  \E i \in CPU : affinity[i] = 0
<1>1. 0 \in CPU
  BY SizesAssumption DEF CPU
<1> QED
  BY <1>1, EachThread

LEMMA ThreadFacts ==
  ASSUME TypeOK
  PROVE  /\ no_threads \in Nat \ {0} /\ no_threads <= NO_CPUS
         /\ \A i \in CPU : affinity[i] \in Nat /\ (no_threads = NO_CPUS => IsThread(i))
<1>1. test \in Tests /\ affinity \in [CPU -> CPU]
  BY DEF TypeOK, Permutation
<1>2. no_threads \in 1 .. NO_CPUS
  BY <1>1, TestsAssumption DEF no_threads
<1> QED
  BY <1>1, <1>2, SizesAssumption DEF IsThread, CPU

(* Each place of PcInv: where j is. *)
LEMMA RoundFacts ==
  ASSUME TypeOK, PcInv, NEW i \in CPU
  PROVE  /\ j[i] \in Nat /\ j[i] <= no_runs /\ no_runs \in Nat
         /\ pc[i] \notin {"loop", "clean", "exit", "done", "begin"} => j[i] \in Run
BY SizesAssumption DEF TypeOK, PcInv, First, InRun, PC, Waits, Run

LEMMA BarAtFacts ==
  ASSUME TypeOK, NEW i \in CPU
  PROVE  /\ BarAt(i) \in Bar
         /\ BarAt(i) = CpuBarrier <=> pc[i] \notin {"go", "back"}
<1>0. j[i] \in Nat /\ batch_size \in Nat \ {0}
  BY SizesAssumption DEF TypeOK
<1>1. j[i] % batch_size \in 0 .. batch_size - 1
  BY <1>0, Remainder
<1> QED
  BY <1>1 DEF BarAt, Bar, CpuBarrier, VcpuBarrier

(* Who is in no barrier has not been released from one. *)
LEMMA Outside ==
  ASSUME TypeOK, BarInv, NEW i \in CPU, pc[i] \notin Waits
  PROVE  ~ Released(i) /\ \A b \in Bar : phase[b][i] = "out"
BY DEF Released, BarInv

(* At the head of the batch loop, and between runs, no thread has started. *)
LEMMA HeadFacts ==
  ASSUME TypeOK, PcInv, NEW i \in CPU, Stage(i) # "run"
  PROVE  Turn(i) = 0
BY DEF Stage, Turn, PC, TypeOK, Waits

(* A CPU outside of all barriers goes on to another place, in the same run. *)
LEMMA Frame ==
  ASSUME TypeOK, BarInv, NEW i \in CPU, NEW to \in PC, pc[i] \notin Waits,
         pc' = [pc EXCEPT ![i] = to], phase' = phase, j' = j
  PROVE  /\ BarInv'
         /\ pc'[i] = to /\ ~ Released(i) /\ ~ Released(i)'
         /\ Round(i) = j[i] /\ Round(i)' = j[i]
         /\ \A k \in CPU \ {i} : /\ pc'[k] = pc[k]
                                 /\ Stage(k)' = Stage(k)
                                 /\ Round(k)' = Round(k)
                                 /\ Turn(k)' = Turn(k)
<1>1. pc'[i] = to /\ \A k \in CPU \ {i} : pc'[k] = pc[k]
  BY DEF TypeOK
<1>2. \A k \in CPU \ {i} : BarAt(k)' = BarAt(k)
  BY <1>1 DEF BarAt
<1>3. \A k \in CPU \ {i} : Released(k)' = Released(k)
  BY <1>1, <1>2 DEF Released
<1>4. ~ Released(i) /\ \A b \in Bar : phase[b][i] = "out"
  BY Outside
<1>5. j[i] % batch_size \in 0 .. batch_size - 1
  <2>1. j[i] \in Nat /\ batch_size \in Nat \ {0}
    BY SizesAssumption DEF TypeOK
  <2> QED
    BY <2>1, Remainder
<1>6. BarAt(i)' \in Bar
  BY <1>5 DEF BarAt, Bar, CpuBarrier, VcpuBarrier
<1>7. ~ Released(i)'
  BY <1>4, <1>6 DEF Released
<1>8. BarInv'
  BY <1>1, <1>2, <1>4 DEF BarInv
<1>9. Round(i) = j[i] /\ Round(i)' = j[i]
  BY <1>4, <1>7 DEF Round
<1>10. \A k \in CPU \ {i} : Stage(k)' = Stage(k) /\ Round(k)' = Round(k) /\ Turn(k)' = Turn(k)
  BY <1>1, <1>3 DEF Stage, Round, Turn
<1> QED
  BY <1>1, <1>4, <1>7, <1>8, <1>9, <1>10

(* Together and TurnInv, when everybody stays in the same stage. *)
LEMMA FrameTogether ==
  ASSUME Together,
         \A k \in CPU : Stage(k)' = Stage(k) /\ Round(k)' = Round(k)
  PROVE  Together'
BY DEF Together

LEMMA FrameTurn ==
  ASSUME TurnInv, affinity' = affinity, test' = test,
         \A k \in CPU : IsThread(k) => Turn(k)' = Turn(k)
  PROVE  TurnInv'
BY DEF TurnInv, IsThread, no_threads

-----------------------------------------------------------------------------
LEMMA StepNewBatch ==
  ASSUME IInv, NEW i \in CPU, NewBatch(i), UNCHANGED test
  PROVE  IInv'
<1> USE DEF IInv
<1> DEFINE to == IF j[i] < no_runs THEN "affined" ELSE "exit"
<1>1. /\ pc[i] = "loop" /\ pc' = [pc EXCEPT ![i] = to] /\ to \in PC
      /\ affinity' \in Permutation
      /\ UNCHANGED <<test, data, ptes, outs, hist, tlb, phase, vcpu, j, idx, saved>>
  BY DEF NewBatch, Goto, PC, Waits, TypeOK, local
<1>2. /\ BarInv'
      /\ pc'[i] = to /\ ~ Released(i) /\ ~ Released(i)'
      /\ Round(i) = j[i] /\ Round(i)' = j[i]
      /\ \A k \in CPU \ {i} : /\ pc'[k] = pc[k] /\ Stage(k)' = Stage(k)
                              /\ Round(k)' = Round(k) /\ Turn(k)' = Turn(k)
  BY <1>1, Frame DEF Waits
<1>3. Stage(i) = "head" /\ Stage(i)' = "head" /\ Turn(i)' = 0
  BY <1>1, <1>2 DEF Stage, Turn
<1>4. \A k \in CPU : Stage(k)' = "head" /\ Round(k)' = Round(k) /\ Turn(k)' = 0
  BY <1>2, <1>3, HeadFacts DEF Together
<1>5. TypeOK' /\ HistInv'
  BY <1>1 DEF TypeOK, HistInv, no_threads, Thread
<1>6. PcInv'
  BY <1>1, <1>2, RoundFacts DEF PcInv, InRun, First, Run
<1>7. VcpuInv'
  BY <1>4 DEF VcpuInv, Stage
<1>8. Together' /\ TurnInv'
  BY <1>4 DEF Together, TurnInv
<1>9. InitInv'
  BY <1>4 DEF InitInv, Stage
<1>10. TlbInv'
  BY <1>4 DEF TlbInv
<1>11. RestoreInv'
  <2> SUFFICES ASSUME (no_threads = NO_CPUS)'
               PROVE  SavedInv' /\ PteInv'
    BY DEF RestoreInv
  <2>1. SavedInv /\ PteInv
    BY <1>1 DEF RestoreInv, no_threads
  <2>2. SavedInv'
    BY <1>1, <1>2, <2>1 DEF SavedInv, InRun
  <2>3. PteInv'
    BY <1>1, <1>3, <2>1 DEF PteInv, ToPutBack
  <2> QED
    BY <2>2, <2>3
<1> QED
  BY <1>2, <1>5, <1>6, <1>7, <1>8, <1>9, <1>10, <1>11

(* vcpu = get_affinity(ctx, cpu) *)
LEMMA StepGetAffinity ==
  ASSUME IInv, NEW i \in CPU, GetAffinity(i), UNCHANGED test
  PROVE  IInv'
<1> USE DEF IInv
<1>1. /\ pc[i] = "affinity" /\ pc' = [pc EXCEPT ![i] = "alloc"] /\ "alloc" \in PC
      /\ vcpu' = [vcpu EXCEPT ![i] = affinity[i]]
      /\ UNCHANGED <<test, affinity, data, ptes, outs, hist, tlb, phase, j, idx, saved>>
  BY DEF GetAffinity, Goto, PC, ctx
<1>2. /\ BarInv'
      /\ pc'[i] = "alloc" /\ ~ Released(i) /\ ~ Released(i)'
      /\ Round(i) = j[i] /\ Round(i)' = j[i]
      /\ \A k \in CPU \ {i} : /\ pc'[k] = pc[k] /\ Stage(k)' = Stage(k)
                              /\ Round(k)' = Round(k) /\ Turn(k)' = Turn(k)
  BY <1>1, Frame DEF Waits
<1>3. Stage(i) = "alloc" /\ Stage(i)' = "alloc" /\ Turn(i) = 0 /\ Turn(i)' = 0
  BY <1>1, <1>2 DEF Stage, Turn
<1>4. \A k \in CPU : Stage(k)' = Stage(k) /\ Round(k)' = Round(k) /\ Turn(k)' = Turn(k)
  BY <1>2, <1>3
<1>5. TypeOK' /\ HistInv'
  BY <1>1 DEF TypeOK, HistInv, no_threads, Thread, Permutation
<1>6. PcInv'
  BY <1>1, <1>2 DEF PcInv, InRun, First
<1>7. VcpuInv'
  BY <1>1, <1>2, <1>4 DEF VcpuInv, IsThread, no_threads, TypeOK
<1>8. Together' /\ TurnInv'
  BY <1>1, <1>4, FrameTogether, FrameTurn
<1>9. InitInv'
  BY <1>1, <1>2, <1>4 DEF InitInv, TypeOK, IsThread, no_threads
<1>10. TlbInv'
  BY <1>1, <1>2, <1>3, <1>4 DEF TlbInv, Fresh
<1>11. RestoreInv'
  BY <1>1, <1>2, <1>3, <1>4 DEF RestoreInv, no_threads, SavedInv, PteInv, ToPutBack, InRun
<1> QED
  BY <1>2, <1>5, <1>6, <1>7, <1>8, <1>9, <1>10, <1>11

(* allocate_data_for_batch *)
LEMMA StepAllocate ==
  ASSUME IInv, NEW i \in CPU, Allocate(i), UNCHANGED test
  PROVE  IInv'
<1> USE DEF IInv
<1> DEFINE writes(r) == vcpu[i] = 0 /\ r \in Batch(j[i])
<1>1. /\ pc[i] = "alloc" /\ pc' = [pc EXCEPT ![i] = "allocated"] /\ "allocated" \in PC
      /\ data' = [r \in Run |-> IF writes(r) THEN "init" ELSE data[r]]
      /\ ptes' = [r \in Run |-> IF writes(r) THEN "init" ELSE ptes[r]]
      /\ idx' = [idx EXCEPT ![i] = BatchStart(j[i])]
      /\ UNCHANGED <<test, affinity, outs, hist, tlb, phase, vcpu, j, saved>>
  BY DEF Allocate, Goto, PC, Waits
<1>2. /\ BarInv'
      /\ pc'[i] = "allocated" /\ ~ Released(i) /\ ~ Released(i)'
      /\ Round(i) = j[i] /\ Round(i)' = j[i]
      /\ \A k \in CPU \ {i} : /\ pc'[k] = pc[k] /\ Stage(k)' = Stage(k)
                              /\ Round(k)' = Round(k) /\ Turn(k)' = Turn(k)
  BY <1>1, Frame DEF Waits
<1>3. Stage(i) = "alloc" /\ Stage(i)' = "alloc" /\ Turn(i) = 0 /\ Turn(i)' = 0
  BY <1>1, <1>2 DEF Stage, Turn
<1>4. \A k \in CPU : Stage(k)' = "alloc" /\ Stage(k) = "alloc"
                     /\ Round(k)' = Round(k) /\ Turn(k)' = Turn(k)
  BY <1>2, <1>3 DEF Together
<1>5. TypeOK' /\ HistInv'
  <2>1. BatchStart(j[i]) \in 0 .. no_runs
    BY <1>1, RoundFacts, BatchFacts DEF Run
  <2>2. data' \in [Run -> States] /\ ptes' \in [Run -> States]
    BY <1>1 DEF TypeOK, States
  <2> QED
    BY <1>1, <2>1, <2>2 DEF TypeOK, HistInv, no_threads, Thread
<1>6. PcInv'
  BY <1>1, <1>2 DEF PcInv, InRun, First, TypeOK
<1>7. VcpuInv'
  BY <1>1, <1>2, <1>4 DEF VcpuInv, IsThread, no_threads, HasVcpu
<1>8. Together' /\ TurnInv'
  BY <1>1, <1>4, FrameTogether, FrameTurn
<1>9. InitInv'
  <2>1. j[i] \in Run /\ Batch(j[i]) \subseteq Run
    BY <1>1, RoundFacts, BatchFacts
  <2> SUFFICES ASSUME NEW k \in CPU, pc'[k] = "allocated", vcpu[k] = 0, NEW r \in Batch(j[k])
               PROVE  data'[r] = "init" /\ ptes'[r] = "init"
    BY <1>1, <1>4 DEF InitInv
  <2>2. CASE k = i
    BY <1>1, <2>1, <2>2
  <2>3. CASE k # i
    <3>1. pc[k] = "allocated" /\ data[r] = "init" /\ ptes[r] = "init"
      BY <1>2, <1>4, <2>3 DEF InitInv
    <3>2. r \in Run
      BY <3>1, RoundFacts, BatchFacts
    <3> QED
      BY <1>1, <3>1, <3>2
  <2> QED
    BY <2>2, <2>3
<1>10. TlbInv'
  BY <1>4 DEF TlbInv
<1>11. RestoreInv'
  <2> SUFFICES ASSUME (no_threads = NO_CPUS)'
               PROVE  SavedInv' /\ PteInv'
    BY DEF RestoreInv
  <2>1. SavedInv /\ PteInv
    BY <1>1 DEF RestoreInv, no_threads
  <2>2. SavedInv'
    BY <1>1, <1>2, <2>1 DEF SavedInv, InRun, TypeOK
  <2>3. \A r \in Run : ptes[r] # "test"
    BY <1>1, <1>3, <2>1 DEF PteInv, ToPutBack
  <2>4. PteInv'
    BY <1>1, <2>3 DEF PteInv
  <2> QED
    BY <2>2, <2>4
<1> QED
  BY <1>2, <1>5, <1>6, <1>7, <1>8, <1>9, <1>10, <1>11

(* setup_run_data, for one run *)
LEMMA StepSetupRunData ==
  ASSUME IInv, NEW i \in CPU, SetupRunData(i), UNCHANGED test
  PROVE  IInv'
<1> USE DEF IInv
<1> DEFINE last == idx[i] + 1 = BatchEnd(j[i])
           to   == IF last THEN "prepare" ELSE "setup"
<1>1. /\ pc[i] = "setup" /\ pc' = [pc EXCEPT ![i] = to] /\ to \in PC
      /\ saved' = [saved EXCEPT ![i][idx[i]] = ptes[idx[i]]]
      /\ idx' = [idx EXCEPT ![i] = IF last THEN 0 ELSE @ + 1]
      /\ UNCHANGED <<test, affinity, data, ptes, outs, hist, tlb, phase, vcpu, j>>
  BY DEF SetupRunData, Goto, PC, ctx
<1>2. /\ BarInv'
      /\ pc'[i] = to /\ ~ Released(i) /\ ~ Released(i)'
      /\ Round(i) = j[i] /\ Round(i)' = j[i]
      /\ \A k \in CPU \ {i} : /\ pc'[k] = pc[k] /\ Stage(k)' = Stage(k)
                              /\ Round(k)' = Round(k) /\ Turn(k)' = Turn(k)
  BY <1>1, Frame DEF Waits
<1>3. Stage(i) = "run" /\ Stage(i)' = "run" /\ Turn(i) = 0 /\ Turn(i)' = 0
  BY <1>1, <1>2 DEF Stage, Turn
<1>4. \A k \in CPU : Stage(k)' = Stage(k) /\ Round(k)' = Round(k) /\ Turn(k)' = Turn(k)
  BY <1>2, <1>3
<1>a. /\ j[i] \in Run /\ BatchStart(j[i]) = j[i] /\ Batch(j[i]) \subseteq Run
      /\ idx[i] \in Batch(j[i]) /\ BatchEnd(j[i]) \in 0 .. no_runs
  BY <1>1, BatchFacts, SizesAssumption DEF PcInv, First, Run
<1>b. ~ last => idx[i] + 1 \in Batch(j[i])
  BY <1>a, SizesAssumption DEF Batch, Run
<1>5. TypeOK' /\ HistInv'
  <2>1. idx' \in [CPU -> 0 .. no_runs]
    BY <1>1, <1>a, <1>b, SizesAssumption DEF TypeOK, Run
  <2>2. saved' \in [CPU -> [Run -> States]]
    BY <1>1, <1>a DEF TypeOK
  <2> QED
    BY <1>1, <2>1, <2>2 DEF TypeOK, HistInv, no_threads, Thread
<1>6. PcInv'
  BY <1>1, <1>2, <1>b DEF PcInv, InRun, First, TypeOK
<1>7. VcpuInv'
  BY <1>1, <1>2, <1>4 DEF VcpuInv, IsThread, no_threads, HasVcpu
<1>8. Together' /\ TurnInv'
  BY <1>1, <1>4, FrameTogether, FrameTurn
<1>9. InitInv'
  BY <1>1, <1>2, <1>4 DEF InitInv, IsThread, no_threads
<1>10. TlbInv'
  BY <1>1, <1>2, <1>4 DEF TlbInv, Fresh, InRun
<1>11. RestoreInv'
  <2> SUFFICES ASSUME (no_threads = NO_CPUS)'
               PROVE  SavedInv' /\ PteInv'
    BY DEF RestoreInv
  <2>1. SavedInv /\ PteInv
    BY <1>1 DEF RestoreInv, no_threads
  <2>2. IsThread(i)
    BY <1>1, ThreadFacts DEF no_threads
  <2>3. ptes[idx[i]] = "init"
    <3>1. idx[i] > j[i] \/ idx[i] = j[i]
      BY <1>a DEF Batch, Run
    <3> QED
      BY <1>2, <1>3, <1>a, <2>2, <3>1 DEF InitInv
  <2>4. \A k \in CPU \ {i} : saved'[k] = saved[k] /\ idx'[k] = idx[k]
    BY <1>1 DEF TypeOK
  <2>5. \A r \in Batch(j[i]) : r <= idx[i] => saved'[i][r] = "init"
    <3> SUFFICES ASSUME NEW r \in Batch(j[i]), r <= idx[i]
                 PROVE  saved'[i][r] = "init"
      OBVIOUS
    <3>1. saved'[i] = [saved[i] EXCEPT ![idx[i]] = "init"] /\ saved[i] \in [Run -> States]
      BY <1>1, <2>3 DEF TypeOK
    <3>2. r < idx[i] => saved[i][r] = "init"
      BY <1>1, <2>1 DEF SavedInv
    <3>3. r < idx[i] \/ r = idx[i]
      BY <1>a DEF Run
    <3> QED
      BY <1>a, <3>1, <3>2, <3>3
  <2>6. idx'[i] = IF last THEN 0 ELSE idx[i] + 1
    BY <1>1 DEF TypeOK
  <2>7. last => \A r \in Batch(j[i]) : r <= idx[i]
    BY <1>a DEF Batch, Run
  <2>8. SavedInv'
    <3> SUFFICES ASSUME NEW k \in CPU
                 PROVE  /\ pc'[k] = "setup" => \A r \in Batch(j[k]) : r < idx'[k] => saved'[k][r] = "init"
                        /\ pc'[k] = "prepare" \/ pc'[k] \in InRun => \A r \in Batch(j[k]) : saved'[k][r] = "init"
                        /\ pc'[k] = "clean" => \A r \in idx'[k] .. j[k] - 1 : saved'[k][r] = "init"
      BY <1>1 DEF SavedInv
    <3>1. CASE k = i
      <4>1. CASE last
        BY <1>2, <2>5, <2>7, <3>1, <4>1
      <4>2. CASE ~ last
        <5>1. \A r \in Batch(j[i]) : r < idx[i] + 1 => r <= idx[i]
          BY <1>a DEF Run
        <5> QED
          BY <1>2, <2>5, <2>6, <3>1, <4>2, <5>1 DEF InRun
      <4> QED
        BY <4>1, <4>2
    <3>2. CASE k # i
      BY <1>2, <2>1, <2>4, <3>2 DEF SavedInv
    <3> QED
      BY <3>1, <3>2
  <2>9. PteInv'
    BY <1>1, <1>2, <1>3, <1>4, <2>1, <2>4 DEF PteInv, ToPutBack
  <2> QED
    BY <2>8, <2>9
<1> QED
  BY <1>2, <1>5, <1>6, <1>7, <1>8, <1>9, <1>10, <1>11

(* prepare_test_contexts *)
LEMMA StepPrepare ==
  ASSUME IInv, NEW i \in CPU, Prepare(i), UNCHANGED test
  PROVE  IInv'
<1> USE DEF IInv
<1> DEFINE asids == {Asid(r) : r \in Batch(j[i])}
<1>1. /\ pc[i] = "prepare" /\ pc' = [pc EXCEPT ![i] = "run"] /\ "run" \in PC
      /\ tlb' = [k \in CPU |-> {r \in tlb[k] : Asid(r) \notin asids}]
      /\ UNCHANGED <<test, affinity, data, ptes, outs, hist, phase, vcpu, j, idx, saved>>
  BY DEF Prepare, Goto, PC, Flush, local
<1>2. /\ BarInv'
      /\ pc'[i] = "run" /\ ~ Released(i) /\ ~ Released(i)'
      /\ Round(i) = j[i] /\ Round(i)' = j[i]
      /\ \A k \in CPU \ {i} : /\ pc'[k] = pc[k] /\ Stage(k)' = Stage(k)
                              /\ Round(k)' = Round(k) /\ Turn(k)' = Turn(k)
  BY <1>1, Frame DEF Waits
<1>3. Stage(i) = "run" /\ Stage(i)' = "run" /\ Turn(i) = 0 /\ Turn(i)' = 0
  BY <1>1, <1>2 DEF Stage, Turn
<1>4. \A k \in CPU : Stage(k)' = Stage(k) /\ Round(k)' = Round(k) /\ Turn(k)' = Turn(k)
  BY <1>2, <1>3
<1>5. TypeOK' /\ HistInv'
  BY <1>1 DEF TypeOK, HistInv, no_threads, Thread
<1>6. PcInv'
  BY <1>1, <1>2 DEF PcInv, InRun, First
<1>7. VcpuInv'
  BY <1>1, <1>2, <1>4 DEF VcpuInv, IsThread, no_threads, HasVcpu, InRun
<1>8. Together' /\ TurnInv'
  BY <1>1, <1>4, FrameTogether, FrameTurn
<1>9. InitInv'
  BY <1>1, <1>2, <1>4 DEF InitInv, IsThread, no_threads
<1>10. TlbInv'
  <2> SUFFICES ASSUME NEW k \in CPU, Stage(k)' = "run", pc'[k] \in InRun, NEW r \in tlb'[k]
               PROVE  r \in Batch(Round(k)') \/ \A q \in Batch(Round(k)') : Asid(r) # Asid(q)
    BY DEF TlbInv, Fresh
  <2>1. CASE k = i
    BY <1>1, <1>2, <2>1
  <2>2. CASE k # i
    BY <1>1, <1>2, <2>2 DEF TlbInv, Fresh
  <2> QED
    BY <2>1, <2>2
<1>11. RestoreInv'
  BY <1>1, <1>2, <1>3, <1>4 DEF RestoreInv, no_threads, SavedInv, PteInv, ToPutBack, InRun
<1> QED
  BY <1>2, <1>5, <1>6, <1>7, <1>8, <1>9, <1>10, <1>11

(* A spare CPU. *)
LEMMA StepSpare ==
  ASSUME IInv, NEW i \in CPU, Spare(i), UNCHANGED test
  PROVE  IInv'
<1> USE DEF IInv
<1>1. /\ pc[i] = "run" /\ pc' = [pc EXCEPT ![i] = "end"] /\ "end" \in PC
      /\ vcpu[i] >= no_threads
      /\ UNCHANGED <<test, affinity, data, ptes, outs, hist, tlb, phase, vcpu, j, idx, saved>>
  BY DEF Spare, Goto, PC, Waits, ctx, local
<1>2. /\ BarInv'
      /\ pc'[i] = "end" /\ ~ Released(i) /\ ~ Released(i)'
      /\ Round(i) = j[i] /\ Round(i)' = j[i]
      /\ \A k \in CPU \ {i} : /\ pc'[k] = pc[k] /\ Stage(k)' = Stage(k)
                              /\ Round(k)' = Round(k) /\ Turn(k)' = Turn(k)
  BY <1>1, Frame DEF Waits
<1>3. Stage(i) = "run" /\ Stage(i)' = "run"
  BY <1>1, <1>2 DEF Stage
<1>a. ~ IsThread(i)
  <2>1. vcpu[i] = affinity[i]
    BY <1>1, <1>3 DEF VcpuInv, HasVcpu, InRun
  <2>2. affinity[i] \in Nat /\ no_threads \in Nat
    BY ThreadFacts
  <2> QED
    BY <1>1, <2>1, <2>2 DEF IsThread
<1>4. \A k \in CPU : /\ Stage(k)' = Stage(k) /\ Round(k)' = Round(k)
                     /\ IsThread(k) => Turn(k)' = Turn(k)
  BY <1>2, <1>3, <1>a
<1>5. TypeOK' /\ HistInv'
  BY <1>1 DEF TypeOK, HistInv, no_threads, Thread
<1>6. PcInv'
  BY <1>1, <1>2 DEF PcInv, InRun, First
<1>7. VcpuInv'
  BY <1>1, <1>2, <1>4 DEF VcpuInv, IsThread, no_threads, HasVcpu, InRun
<1>8. Together' /\ TurnInv'
  BY <1>1, <1>4, FrameTogether, FrameTurn
<1>9. InitInv'
  BY <1>1, <1>2, <1>4 DEF InitInv, IsThread, no_threads
<1>10. TlbInv'
  BY <1>1, <1>2, <1>4 DEF TlbInv, Fresh, InRun
<1>11. RestoreInv'
  BY <1>1, <1>2, <1>3, <1>4 DEF RestoreInv, no_threads, SavedInv, PteInv, ToPutBack, InRun
<1> QED
  BY <1>2, <1>5, <1>6, <1>7, <1>8, <1>9, <1>10, <1>11

(* start_of_run: the prefetch does not fail. *)
LEMMA StepStartOfRun ==
  ASSUME IInv, NEW i \in CPU, StartOfRun(i), UNCHANGED test
  PROVE  IInv'
<1> USE DEF IInv
<1>0. pc[i] = "run" /\ vcpu[i] < no_threads
  BY DEF StartOfRun, Goto
<1>a. Stage(i) = "run" /\ Turn(i) = 0 /\ ~ Released(i) /\ Round(i) = j[i]
  BY <1>0 DEF Stage, Turn, Released, Waits, Round
<1>b. IsThread(i)
  BY <1>0, <1>a DEF VcpuInv, HasVcpu, InRun, IsThread
<1>c. data[j[i]] = "init"
  <2>1. j[i] \in Run /\ j[i] \in Batch(j[i])
    BY <1>0, RoundFacts, BatchFacts
  <2> QED
    BY <1>a, <1>b, <2>1 DEF InitInv
<1>1. /\ pc' = [pc EXCEPT ![i] = "go"] /\ "go" \in PC
      /\ UNCHANGED <<test, affinity, data, ptes, outs, hist, tlb, phase, vcpu, j, idx, saved>>
  BY <1>c DEF StartOfRun, Goto, PC, Waits, ctx, local
<1>2. /\ BarInv'
      /\ pc'[i] = "go" /\ ~ Released(i) /\ ~ Released(i)'
      /\ Round(i) = j[i] /\ Round(i)' = j[i]
      /\ \A k \in CPU \ {i} : /\ pc'[k] = pc[k] /\ Stage(k)' = Stage(k)
                              /\ Round(k)' = Round(k) /\ Turn(k)' = Turn(k)
  BY <1>0, <1>1, Frame DEF Waits
<1>3. Stage(i)' = "run" /\ Turn(i)' = 0
  BY <1>1, <1>2 DEF Stage, Turn
<1>4. \A k \in CPU : Stage(k)' = Stage(k) /\ Round(k)' = Round(k) /\ Turn(k)' = Turn(k)
  BY <1>2, <1>3, <1>a
<1>5. TypeOK' /\ HistInv'
  BY <1>1 DEF TypeOK, HistInv, no_threads, Thread
<1>6. PcInv'
  BY <1>0, <1>1, <1>2 DEF PcInv, InRun, First
<1>7. VcpuInv'
  BY <1>0, <1>1, <1>2, <1>4, <1>b DEF VcpuInv, IsThread, no_threads, HasVcpu, InRun
<1>8. Together' /\ TurnInv'
  BY <1>1, <1>4, FrameTogether, FrameTurn
<1>9. InitInv'
  BY <1>1, <1>2, <1>4 DEF InitInv, IsThread, no_threads
<1>10. TlbInv'
  BY <1>0, <1>1, <1>2, <1>4 DEF TlbInv, Fresh, InRun
<1>11. RestoreInv'
  BY <1>0, <1>1, <1>2, <1>3, <1>4 DEF RestoreInv, no_threads, SavedInv, PteInv, ToPutBack, InRun
<1> QED
  BY <1>2, <1>5, <1>6, <1>7, <1>8, <1>9, <1>10, <1>11

(* func(&runs[bi]) *)
LEMMA StepFunc ==
  ASSUME IInv, NEW i \in CPU, Func(i), UNCHANGED test
  PROVE  IInv'
<1> USE DEF IInv
<1>1. /\ pc[i] = "func" /\ pc' = [pc EXCEPT ![i] = "out"] /\ "out" \in PC
      /\ tlb' = [tlb EXCEPT ![i] = @ \cup {j[i]}]
      /\ UNCHANGED <<test, affinity, outs, hist, phase, vcpu, j, idx, saved>>
  BY DEF Func, Goto, PC, local
<1>a. /\ \E s \in {data[j[i]], "test"} : data' = [data EXCEPT ![j[i]] = s]
      /\ \E s \in {ptes[j[i]], "test"} : ptes' = [ptes EXCEPT ![j[i]] = s]
  BY DEF Func
<1>2. /\ BarInv'
      /\ pc'[i] = "out" /\ ~ Released(i) /\ ~ Released(i)'
      /\ Round(i) = j[i] /\ Round(i)' = j[i]
      /\ \A k \in CPU \ {i} : /\ pc'[k] = pc[k] /\ Stage(k)' = Stage(k)
                              /\ Round(k)' = Round(k) /\ Turn(k)' = Turn(k)
  BY <1>1, Frame DEF Waits
<1>3. Stage(i) = "run" /\ Stage(i)' = "run" /\ Turn(i) = 1 /\ Turn(i)' = 1
  BY <1>1, <1>2 DEF Stage, Turn
<1>4. \A k \in CPU : Stage(k)' = Stage(k) /\ Round(k)' = Round(k) /\ Turn(k)' = Turn(k)
  BY <1>2, <1>3
<1>b. j[i] \in Run /\ j[i] \in Batch(j[i]) /\ IsThread(i)
  BY <1>1, RoundFacts, BatchFacts DEF VcpuInv
<1>c. \A k \in CPU : Stage(k) = "run" /\ Round(k) = j[i]
  BY <1>2, <1>3 DEF Together
<1>5. TypeOK' /\ HistInv'
  <2>1. data' \in [Run -> States] /\ ptes' \in [Run -> States]
    BY <1>a, <1>b DEF TypeOK, States
  <2>2. tlb' \in [CPU -> SUBSET Run]
    BY <1>1, <1>b DEF TypeOK
  <2> QED
    BY <1>1, <2>1, <2>2 DEF TypeOK, HistInv, no_threads, Thread
<1>6. PcInv'
  BY <1>1, <1>2 DEF PcInv, InRun, First
<1>7. VcpuInv'
  BY <1>1, <1>2, <1>4 DEF VcpuInv, IsThread, no_threads, HasVcpu, InRun
<1>8. Together' /\ TurnInv'
  BY <1>1, <1>4, FrameTogether, FrameTurn
<1>d. \A r \in Run : r # j[i] => data'[r] = data[r] /\ ptes'[r] = ptes[r]
  BY <1>a DEF TypeOK
<1>9. InitInv'
  <2>1. \A k \in CPU : ~ (Stage(k)' = "alloc")
    BY <1>4, <1>c
  <2> SUFFICES ASSUME NEW k \in CPU, NEW r \in Batch(j[i]),
                      r > j[i] \/ (r = j[i] /\ IsThread(k) /\ Turn(k) = 0)
               PROVE  data'[r] = "init" /\ ptes'[r] = "init"
    BY <1>1, <1>4, <1>c, <2>1 DEF InitInv, IsThread, no_threads
  <2>2. r > j[i] /\ r \in Run /\ r # j[i]
    BY <1>3, <1>b, BatchFacts DEF TurnInv, Run
  <2>3. data[r] = "init" /\ ptes[r] = "init"
    BY <1>c, <2>2 DEF InitInv
  <2> QED
    BY <1>d, <2>2, <2>3
<1>10. TlbInv'
  <2> SUFFICES ASSUME NEW k \in CPU, pc'[k] \in InRun, NEW r \in tlb'[k]
               PROVE  r \in Batch(j[i]) \/ \A q \in Batch(j[i]) : Asid(r) # Asid(q)
    BY <1>4, <1>c DEF TlbInv, Fresh
  <2>1. r \in tlb[k] \/ r = j[i]
    BY <1>1 DEF TypeOK
  <2>2. pc[k] \in InRun
    BY <1>1, <1>2 DEF InRun
  <2> QED
    BY <1>b, <1>c, <2>1, <2>2 DEF TlbInv, Fresh
<1>11. RestoreInv'
  <2> SUFFICES ASSUME (no_threads = NO_CPUS)'
               PROVE  SavedInv' /\ PteInv'
    BY DEF RestoreInv
  <2>1. SavedInv /\ PteInv
    BY <1>1 DEF RestoreInv, no_threads
  <2>2. SavedInv'
    BY <1>1, <1>2, <2>1 DEF SavedInv, InRun
  <2>3. PteInv'
    <3> SUFFICES ASSUME NEW k \in CPU, NEW r \in Run, ptes'[r] = "test"
                 PROVE  Stage(k)' = "run" /\ r \in Batch(Round(k)') /\ r <= Round(k)'
      BY DEF PteInv, ToPutBack
    <3>1. CASE r = j[i]
      BY <1>4, <1>b, <1>c, <3>1 DEF Run
    <3>2. CASE r # j[i]
      <4>1. ToPutBack(i, r)
        BY <1>d, <2>1, <3>2 DEF PteInv
      <4> QED
        BY <1>1, <1>2, <1>3, <1>4, <1>c, <4>1 DEF ToPutBack
    <3> QED
      BY <3>1, <3>2
  <2> QED
    BY <2>2, <2>3
<1> QED
  BY <1>2, <1>5, <1>6, <1>7, <1>8, <1>9, <1>10, <1>11

(* func stores its output registers. *)
LEMMA StepFuncOut ==
  ASSUME IInv, NEW i \in CPU, FuncOut(i), UNCHANGED test
  PROVE  IInv'
<1> USE DEF IInv
<1>1. /\ pc[i] = "out" /\ pc' = [pc EXCEPT ![i] = "back"] /\ "back" \in PC
      /\ outs' = [outs EXCEPT ![j[i]] = @ \cup {vcpu[i]}]
      /\ UNCHANGED <<test, affinity, data, ptes, hist, tlb, phase, vcpu, j, idx, saved>>
  BY DEF FuncOut, Goto, PC, Waits, local
<1>2. /\ BarInv'
      /\ pc'[i] = "back" /\ ~ Released(i) /\ ~ Released(i)'
      /\ Round(i) = j[i] /\ Round(i)' = j[i]
      /\ \A k \in CPU \ {i} : /\ pc'[k] = pc[k] /\ Stage(k)' = Stage(k)
                              /\ Round(k)' = Round(k) /\ Turn(k)' = Turn(k)
  BY <1>1, Frame DEF Waits
<1>3. Stage(i) = "run" /\ Stage(i)' = "run" /\ Turn(i) = 1 /\ Turn(i)' = 1
  BY <1>1, <1>2 DEF Stage, Turn
<1>4. \A k \in CPU : Stage(k)' = Stage(k) /\ Round(k)' = Round(k) /\ Turn(k)' = Turn(k)
  BY <1>2, <1>3
<1>5. TypeOK' /\ HistInv'
  <2>1. vcpu[i] \in Thread
    BY <1>1, <1>3, ThreadFacts DEF VcpuInv, HasVcpu, InRun, Thread, IsThread
  <2>2. outs' \in [Run -> SUBSET Thread]
    BY <1>1, <2>1 DEF TypeOK
  <2> QED
    BY <1>1, <2>2 DEF TypeOK, HistInv, no_threads, Thread
<1>6. PcInv'
  BY <1>1, <1>2 DEF PcInv, InRun, First
<1>7. VcpuInv'
  BY <1>1, <1>2, <1>4 DEF VcpuInv, IsThread, no_threads, HasVcpu, InRun
<1>8. Together' /\ TurnInv'
  BY <1>1, <1>4, FrameTogether, FrameTurn
<1>9. InitInv'
  BY <1>1, <1>2, <1>4 DEF InitInv, IsThread, no_threads
<1>10. TlbInv'
  BY <1>1, <1>2, <1>4 DEF TlbInv, Fresh, InRun
<1>11. RestoreInv'
  BY <1>1, <1>2, <1>3, <1>4 DEF RestoreInv, no_threads, SavedInv, PteInv, ToPutBack, InRun
<1> QED
  BY <1>2, <1>5, <1>6, <1>7, <1>8, <1>9, <1>10, <1>11

LEMMA ExceptType ==
  ASSUME NEW S, NEW T, NEW f \in [S -> T], NEW x, NEW y \in T
  PROVE  [f EXCEPT ![x] = y] \in [S -> T]
OBVIOUS

LEMMA RowExcept ==
  ASSUME NEW V, NEW C, NEW B, NEW e \in [values : V, counter : C, is_relaxed : B],
         NEW c \in C
  PROVE  [e EXCEPT !.counter = c] \in [values : V, counter : C, is_relaxed : B]
OBVIOUS

(* The histogram keeps its shape, whatever the lookup table says.          *)
LEMMA AddResultsType ==
  ASSUME NEW h \in [results : Seq(Row), lut : [0 .. limit - 1 -> Nat]], NEW values \in Seq(Nat),
         h.lut \in [0 .. limit - 1 -> 0 .. Len(h.results)]
  PROVE  LET g == add_results(h, values) IN
         /\ g \in [results : Seq(Row), lut : [0 .. limit - 1 -> Nat]]
         /\ g.lut \in [0 .. limit - 1 -> 0 .. Len(g.results)]
<1> DEFINE n  == RowOf(h, values)
           ix == ix_from_values(values)
           new == [values |-> values, counter |-> 1, is_relaxed |-> matches_interesting(values)]
<1>0. h = [results |-> h.results, lut |-> h.lut] /\ h.results \in Seq(Row)
  OBVIOUS
<1>1. CASE n = NULL
  <2>1. new \in Row
    BY DEF Row, matches_interesting
  <2>2. /\ Append(h.results, new) \in Seq(Row)
        /\ Len(Append(h.results, new)) = Len(h.results) + 1 /\ Len(h.results) \in Nat
    BY <1>0, <2>1
  <2>3. ASSUME NEW x
        PROVE  (IF x = -1 THEN h.lut ELSE [h.lut EXCEPT ![x] = Len(h.results) + 1])
                 \in [0 .. limit - 1 -> 0 .. Len(h.results) + 1]
    <3>1. h.lut \in [0 .. limit - 1 -> 0 .. Len(h.results) + 1]
      BY <2>2
    <3>2. [h.lut EXCEPT ![x] = Len(h.results) + 1] \in [0 .. limit - 1 -> 0 .. Len(h.results) + 1]
      <4>1. Len(h.results) + 1 \in 0 .. Len(h.results) + 1
        BY <2>2
      <4> QED
        BY <3>1, <4>1, ExceptType
    <3> QED
      BY <3>1, <3>2
  <2>4. add_results(h, values) =
          [results |-> Append(h.results, new),
           lut |-> IF ix = -1 THEN h.lut ELSE [h.lut EXCEPT ![ix] = Len(h.results) + 1]]
    BY <1>1 DEF add_results, Insert
  <2> QED
    BY <2>2, <2>3, <2>4
<1>2. CASE n # NULL
  <2> DEFINE rows == [h.results EXCEPT ![n].counter = @ + 1]
  <2>1. add_results(h, values) = [h EXCEPT !.results = rows]
    BY <1>2 DEF add_results
  <2>2. rows \in Seq(Row) /\ Len(rows) = Len(h.results)
    <3>1. CASE n \in DOMAIN h.results
      <4>1. h.results[n] \in Row /\ n \in 1 .. Len(h.results)
        BY <1>0, <3>1
      <4>2. ASSUME NEW e \in Row
            PROVE  [e EXCEPT !.counter = @ + 1] \in Row
        <5>1. e.counter + 1 \in Nat \ {0}
          BY DEF Row
        <5> QED
          BY <5>1, RowExcept DEF Row
      <4> QED
        BY <1>0, <4>1, <4>2
    <3>2. CASE n \notin DOMAIN h.results
      <4>1. rows = h.results
        BY <1>0, <3>2
      <4> QED
        BY <1>0, <4>1
    <3> QED
      BY <3>1, <3>2
  <2> HIDE DEF rows
  <2> QED
    BY <2>1, <2>2
<1> QED
  BY <1>1, <1>2

LEMMA OutRegsType ==
  ASSUME TypeOK, NEW r \in Run
  PROVE  OutRegs(r) \in Seq(Nat)
<1>1. test.values[r] \in Seq(Nat)
  <2>1. test.values \in [Run -> Seq(Nat)]
    BY TestsAssumption DEF TypeOK
  <2> QED
    BY <2>1
<1> DEFINE n == Len(test.values[r])
<1>2. n \in Nat /\ DOMAIN test.values[r] = 1 .. n /\ \A k \in 1 .. n : test.values[r][k] \in Nat
  BY <1>1
<1>3. OutRegs(r) \in [1 .. n -> Nat]
  BY <1>2 DEF OutRegs
<1> QED
  BY <1>2, <1>3

(* end_of_run *)
LEMMA StepEndOfRun ==
  ASSUME IInv, NEW i \in CPU, EndOfRun(i), UNCHANGED test
  PROVE  IInv'
<1> USE DEF IInv
<1>0. pc[i] = "record" /\ j[i] \in Run
  BY RoundFacts DEF EndOfRun
<1>1. PICK to \in {"end", "overallocated"} :
      /\ pc' = [pc EXCEPT ![i] = to] /\ to \in PC
      /\ hist' = hist \/ hist' = add_results(hist, OutRegs(j[i]))
      /\ UNCHANGED <<test, affinity, data, ptes, outs, tlb, phase, vcpu, j, idx, saved>>
  BY DEF EndOfRun, Collect, Goto, PC, Waits, local
<1>2. /\ BarInv'
      /\ pc'[i] = to /\ ~ Released(i) /\ ~ Released(i)'
      /\ Round(i) = j[i] /\ Round(i)' = j[i]
      /\ \A k \in CPU \ {i} : /\ pc'[k] = pc[k] /\ Stage(k)' = Stage(k)
                              /\ Round(k)' = Round(k) /\ Turn(k)' = Turn(k)
  BY <1>0, <1>1, Frame DEF Waits
<1>3. Stage(i) = "run" /\ Stage(i)' = "run" /\ Turn(i) = 2 /\ Turn(i)' = 2
  BY <1>0, <1>1, <1>2 DEF Stage, Turn
<1>4. \A k \in CPU : Stage(k)' = Stage(k) /\ Round(k)' = Round(k) /\ Turn(k)' = Turn(k)
  BY <1>2, <1>3
<1>5. TypeOK' /\ HistInv'
  <2>1. hist \in [results : Seq(Row), lut : [0 .. limit - 1 -> Nat]]
        /\ hist.lut \in [0 .. limit - 1 -> 0 .. Len(hist.results)]
        /\ OutRegs(j[i]) \in Seq(Nat)
    BY <1>0, OutRegsType DEF HistInv, TypeOK
  <2>2. hist' \in [results : Seq(Row), lut : [0 .. limit - 1 -> Nat]]
        /\ hist'.lut \in [0 .. limit - 1 -> 0 .. Len(hist'.results)]
    BY <1>1, <2>1, AddResultsType
  <2>3. hist'.results \in Seq(Row)
    BY <2>2
  <2> QED
    BY <1>1, <2>2, <2>3 DEF TypeOK, HistInv, no_threads, Thread, Row
<1>6. PcInv'
  BY <1>0, <1>1, <1>2 DEF PcInv, InRun, First
<1>7. VcpuInv'
  BY <1>0, <1>1, <1>2, <1>4 DEF VcpuInv, IsThread, no_threads, HasVcpu, InRun
<1>8. Together' /\ TurnInv'
  BY <1>1, <1>4, FrameTogether, FrameTurn
<1>9. InitInv'
  BY <1>0, <1>1, <1>2, <1>4 DEF InitInv, IsThread, no_threads
<1>10. TlbInv'
  BY <1>0, <1>1, <1>2, <1>4 DEF TlbInv, Fresh, InRun
<1>11. RestoreInv'
  BY <1>0, <1>1, <1>2, <1>3, <1>4 DEF RestoreInv, no_threads, SavedInv, PteInv, ToPutBack, InRun
<1> QED
  BY <1>2, <1>5, <1>6, <1>7, <1>8, <1>9, <1>10, <1>11

(* clean_run_data, for one run *)
LEMMA StepCleanRunData ==
  ASSUME IInv, NEW i \in CPU, CleanRunData(i), UNCHANGED test
  PROVE  IInv'
<1> USE DEF IInv
<1> DEFINE last == idx[i] + 1 = j[i]
           to   == IF last THEN "loop" ELSE "clean"
           asids == {Asid(idx[i])}
<1>1. /\ pc[i] = "clean" /\ pc' = [pc EXCEPT ![i] = to] /\ to \in PC
      /\ ptes' = [ptes EXCEPT ![idx[i]] = saved[i][idx[i]]]
      /\ saved' = [saved EXCEPT ![i][idx[i]] = "none"]
      /\ idx' = [idx EXCEPT ![i] = IF last THEN 0 ELSE @ + 1]
      /\ tlb' = [k \in CPU |-> {r \in tlb[k] : Asid(r) \notin asids}]
      /\ UNCHANGED <<test, affinity, data, outs, hist, phase, vcpu, j>>
  BY DEF CleanRunData, Goto, PC, Flush
<1>2. /\ BarInv'
      /\ pc'[i] = to /\ ~ Released(i) /\ ~ Released(i)'
      /\ Round(i) = j[i] /\ Round(i)' = j[i]
      /\ \A k \in CPU \ {i} : /\ pc'[k] = pc[k] /\ Stage(k)' = Stage(k)
                              /\ Round(k)' = Round(k) /\ Turn(k)' = Turn(k)
  BY <1>1, Frame DEF Waits
<1>3. Stage(i) = "head" /\ Stage(i)' = "head" /\ Turn(i) = 0 /\ Turn(i)' = 0
  BY <1>1, <1>2 DEF Stage, Turn
<1>4. \A k \in CPU : /\ Stage(k)' = "head" /\ Stage(k) = "head"
                     /\ Round(k)' = Round(k) /\ Turn(k)' = Turn(k)
  BY <1>2, <1>3 DEF Together
<1>a. /\ j[i] \in Nat /\ idx[i] \in Run /\ idx[i] <= j[i] - 1 /\ j[i] <= no_runs
      /\ no_runs \in Nat /\ idx[i] \in Nat
      /\ idx[i] \in BatchStart(j[i] - 1) .. j[i] - 1
  <2>1. j[i] - 1 \in Run /\ idx[i] \in BatchStart(j[i] - 1) .. j[i] - 1
    BY <1>1 DEF PcInv
  <2>2. BatchStart(j[i] - 1) \in Run
    BY <2>1, BatchFacts
  <2> QED
    BY <2>1, <2>2, RoundFacts DEF Run
<1>b. idx'[i] = (IF last THEN 0 ELSE idx[i] + 1) /\ \A k \in CPU \ {i} : idx'[k] = idx[k]
  BY <1>1 DEF TypeOK
<1>5. TypeOK' /\ HistInv'
  <2>1. ptes' \in [Run -> States] /\ saved' \in [CPU -> [Run -> States]]
    BY <1>1, <1>a DEF TypeOK, States
  <2>2. idx' \in [CPU -> 0 .. no_runs] /\ tlb' \in [CPU -> SUBSET Run]
    BY <1>1, <1>a DEF TypeOK
  <2> QED
    BY <1>1, <2>1, <2>2 DEF TypeOK, HistInv, no_threads, Thread
<1>6. PcInv'
  <2>1. ~ last => idx[i] + 1 \in BatchStart(j[i] - 1) .. j[i] - 1
    BY <1>a, BatchStartFacts
  <2> QED
    BY <1>1, <1>2, <1>b, <2>1 DEF PcInv, InRun, First
<1>7. VcpuInv'
  BY <1>1, <1>2, <1>4 DEF VcpuInv, IsThread, no_threads, HasVcpu, InRun
<1>8. Together' /\ TurnInv'
  BY <1>1, <1>4, FrameTogether, FrameTurn
<1>9. InitInv'
  BY <1>4 DEF InitInv
<1>10. TlbInv'
  BY <1>4 DEF TlbInv
<1>11. RestoreInv'
  <2> SUFFICES ASSUME (no_threads = NO_CPUS)'
               PROVE  SavedInv' /\ PteInv'
    BY DEF RestoreInv
  <2>1. SavedInv /\ PteInv
    BY <1>1 DEF RestoreInv, no_threads
  <2>2. saved[i][idx[i]] = "init"
    BY <1>1, <1>a, <2>1 DEF SavedInv
  <2>3. /\ \A k \in CPU \ {i} : saved'[k] = saved[k]
        /\ \A r \in Run : r # idx[i] => saved'[i][r] = saved[i][r]
    BY <1>1 DEF TypeOK
  <2>4. SavedInv'
    <3>1. ASSUME ~ last, NEW r \in idx[i] + 1 .. j[i] - 1
          PROVE  saved'[i][r] = "init"
      <4>1. r \in Run /\ r # idx[i] /\ r \in idx[i] .. j[i] - 1
        BY <1>a, <3>1 DEF Run
      <4> QED
        BY <1>1, <2>1, <2>3, <4>1 DEF SavedInv
    <3> QED
      BY <1>1, <1>2, <1>b, <2>1, <2>3, <3>1 DEF SavedInv, InRun
  <2>5. PteInv'
    <3> SUFFICES ASSUME NEW k \in CPU, NEW r \in Run, ptes'[r] = "test"
                 PROVE  ToPutBack(k, r)'
      BY DEF PteInv
    <3>1. r # idx[i] /\ ptes[r] = "test"
      BY <1>1, <1>a, <2>2 DEF TypeOK
    <3>2. ToPutBack(k, r)
      BY <2>1, <3>1 DEF PteInv
    <3>3. CASE k = i
      <4>1. r \in idx[i] .. j[i] - 1
        BY <1>1, <1>3, <3>2, <3>3 DEF ToPutBack
      <4>2. ~ last /\ r \in idx[i] + 1 .. j[i] - 1
        BY <1>a, <3>1, <4>1
      <4> QED
        BY <1>1, <1>2, <1>b, <3>3, <4>2 DEF ToPutBack
    <3>4. CASE k # i
      BY <1>1, <1>2, <1>4, <1>b, <3>2, <3>4 DEF ToPutBack
    <3> QED
      BY <3>3, <3>4
  <2> QED
    BY <2>4, <2>5
<1> QED
  BY <1>2, <1>5, <1>6, <1>7, <1>8, <1>9, <1>10, <1>11

-----------------------------------------------------------------------------
(* Barrier steps that release nobody leave everybody where they are. *)
LEMMA BarrierFrame ==
  ASSUME IInv, UNCHANGED <<test, ctx, pc, local>>, BarInv',
         phase' \in [Bar -> [CPU -> R!Phases]],
         \A k \in CPU : Released(k)' = Released(k)
  PROVE  IInv'
<1> USE DEF IInv
<1>1. UNCHANGED <<test, affinity, data, ptes, outs, hist, tlb, pc, vcpu, j, idx, saved>>
  BY DEF ctx, local
<1>2. \A k \in CPU : Stage(k)' = Stage(k) /\ Round(k)' = Round(k) /\ Turn(k)' = Turn(k)
  BY <1>1 DEF Stage, Round, Turn
<1>3. TypeOK' /\ HistInv'
  BY <1>1 DEF TypeOK, HistInv, no_threads, Thread
<1>4. PcInv'
  BY <1>1 DEF PcInv
<1>5. VcpuInv'
  BY <1>1, <1>2 DEF VcpuInv, IsThread, no_threads
<1>6. Together' /\ TurnInv'
  BY <1>1, <1>2, FrameTogether, FrameTurn
<1>7. InitInv'
  BY <1>1, <1>2 DEF InitInv, IsThread, no_threads
<1>8. TlbInv'
  BY <1>1, <1>2 DEF TlbInv, Fresh
<1>9. RestoreInv'
  BY <1>1, <1>2 DEF RestoreInv, no_threads, SavedInv, PteInv, ToPutBack
<1> QED
  BY <1>3, <1>4, <1>5, <1>6, <1>7, <1>8, <1>9

LEMMA StepArrive ==
  ASSUME IInv, NEW i \in CPU, Arrive(i), UNCHANGED test
  PROVE  IInv'
<1> USE DEF IInv
<1> DEFINE b == BarAt(i)
<1>1. /\ UNCHANGED <<test, ctx, pc, local>> /\ pc[i] \in Waits
      /\ phase[b][i] = "out" /\ phase' = [phase EXCEPT ![b][i] = "in"]
  BY DEF Arrive, R!Arrive
<1>2. pc' = pc /\ j' = j /\ b \in Bar
  BY <1>1, BarAtFacts DEF local
<1>3. \A k \in CPU : BarAt(k)' = BarAt(k) /\ BarAt(k) \in Bar
  BY <1>2, BarAtFacts DEF BarAt
<1>4. phase' \in [Bar -> [CPU -> R!Phases]]
  BY <1>1, <1>2 DEF TypeOK, R!Phases
<1>5. \A c \in Bar, k \in CPU : phase'[c][k] = IF c = b /\ k = i THEN "in" ELSE phase[c][k]
  BY <1>1, <1>2 DEF TypeOK
<1>6. \A k \in CPU : Released(k)' = Released(k)
  BY <1>1, <1>2, <1>3, <1>5 DEF Released
<1>7. BarInv'
  BY <1>1, <1>2, <1>3, <1>5 DEF BarInv
<1> QED
  BY <1>1, <1>4, <1>6, <1>7, BarrierFrame

LEMMA StepPass ==
  ASSUME IInv, NEW i \in CPU, Pass(i), UNCHANGED test
  PROVE  IInv'
<1> USE DEF IInv
<1> DEFINE b == BarAt(i)
<1>1. /\ UNCHANGED <<test, ctx, pc, local>> /\ pc[i] \in Waits
      /\ phase[b][i] = "go" /\ phase' = [phase EXCEPT ![b][i] = "passed"]
  BY DEF Pass, R!Pass
<1>2. pc' = pc /\ j' = j /\ b \in Bar
  BY <1>1, BarAtFacts DEF local
<1>3. \A k \in CPU : BarAt(k)' = BarAt(k) /\ BarAt(k) \in Bar
  BY <1>2, BarAtFacts DEF BarAt
<1>4. phase' \in [Bar -> [CPU -> R!Phases]]
  BY <1>1, <1>2 DEF TypeOK, R!Phases
<1>5. \A c \in Bar, k \in CPU : phase'[c][k] = IF c = b /\ k = i THEN "passed" ELSE phase[c][k]
  BY <1>1, <1>2 DEF TypeOK
<1>6. \A k \in CPU : Released(k)' = Released(k)
  BY <1>1, <1>2, <1>3, <1>5 DEF Released
<1>7. BarInv'
  BY <1>1, <1>2, <1>3, <1>5 DEF BarInv
<1> QED
  BY <1>1, <1>4, <1>6, <1>7, BarrierFrame

(* CPU i leaves the barrier it was released from. *)
LEMMA LeaveFrame ==
  ASSUME TypeOK, BarInv, NEW i \in CPU, NEW from, NEW to \in PC, Leave(i, from, to),
         j' \in [CPU -> 0 .. no_runs], \A k \in CPU \ {i} : j'[k] = j[k]
  PROVE  /\ BarInv' /\ phase' \in [Bar -> [CPU -> R!Phases]]
         /\ pc[i] = from /\ pc' = [pc EXCEPT ![i] = to] /\ pc'[i] = to
         /\ UNCHANGED <<affinity, data, ptes, outs, hist, tlb>>
         /\ (from \in Waits => Released(i)) /\ ~ Released(i)'
         /\ \A k \in CPU \ {i} : /\ pc'[k] = pc[k]
                                 /\ Stage(k)' = Stage(k)
                                 /\ Round(k)' = Round(k)
                                 /\ Turn(k)' = Turn(k)
<1> DEFINE b == BarAt(i)
<1>1. /\ pc[i] = from /\ pc' = [pc EXCEPT ![i] = to] /\ UNCHANGED ctx
      /\ phase[b][i] = "passed" /\ phase' = [phase EXCEPT ![b][i] = "out"]
  BY DEF Leave, Goto, R!Leave
<1>2. pc'[i] = to /\ b \in Bar /\ \A k \in CPU \ {i} : pc'[k] = pc[k]
  BY <1>1, BarAtFacts DEF TypeOK
<1>3. phase' \in [Bar -> [CPU -> R!Phases]]
  BY <1>1, <1>2 DEF TypeOK, R!Phases
<1>4. \A c \in Bar, k \in CPU : phase'[c][k] = IF c = b /\ k = i THEN "out" ELSE phase[c][k]
  BY <1>1, <1>2 DEF TypeOK
<1>5. \A c \in Bar : phase'[c][i] = "out"
  BY <1>4 DEF BarInv
<1>6. \A k \in CPU \ {i} : BarAt(k)' = BarAt(k) /\ BarAt(k) \in Bar
  BY <1>2, BarAtFacts DEF BarAt
<1>7. BarAt(i)' \in Bar
  <2>1. j'[i] % batch_size \in 0 .. batch_size - 1
    <3>1. j'[i] \in Nat /\ batch_size \in Nat \ {0}
      BY SizesAssumption
    <3> QED
      BY <3>1, Remainder
  <2> QED
    BY <2>1 DEF BarAt, Bar, CpuBarrier, VcpuBarrier
<1>8. ~ Released(i)' /\ (from \in Waits => Released(i))
  BY <1>1, <1>5, <1>7 DEF Released
<1>9. \A k \in CPU \ {i} : Released(k)' = Released(k)
  BY <1>2, <1>4, <1>6 DEF Released
<1>10. BarInv'
  BY <1>2, <1>4, <1>5, <1>6 DEF BarInv
<1>11. \A k \in CPU \ {i} : Stage(k)' = Stage(k) /\ Round(k)' = Round(k) /\ Turn(k)' = Turn(k)
  BY <1>2, <1>9 DEF Stage, Round, Turn
<1> QED
  BY <1>1, <1>2, <1>3, <1>8, <1>10, <1>11 DEF ctx

(* bwait returns within a run, or at its begin. *)
LEMMA StepLeaveSameRun ==
  ASSUME IInv, NEW i \in CPU, NEW from, NEW to,
         <<from, to>> \in {<<"begin", "loop">>, <<"affined", "affinity">>, <<"allocated", "setup">>,
                           <<"go", "func">>, <<"back", "record">>, <<"exit", "done">>},
         Leave(i, from, to), UNCHANGED <<test, local>>
  PROVE  IInv'
<1> USE DEF IInv
<1>0. to \in PC /\ from \in Waits /\ UNCHANGED <<vcpu, j, idx, saved>>
  BY DEF PC, Waits, local
<1>1. /\ BarInv' /\ phase' \in [Bar -> [CPU -> R!Phases]]
      /\ pc[i] = from /\ pc' = [pc EXCEPT ![i] = to] /\ pc'[i] = to
      /\ UNCHANGED <<affinity, data, ptes, outs, hist, tlb>>
      /\ Released(i) /\ ~ Released(i)'
      /\ \A k \in CPU \ {i} : /\ pc'[k] = pc[k] /\ Stage(k)' = Stage(k)
                              /\ Round(k)' = Round(k) /\ Turn(k)' = Turn(k)
  <2>1. j' \in [CPU -> 0 .. no_runs] /\ \A k \in CPU \ {i} : j'[k] = j[k]
    BY <1>0 DEF TypeOK
  <2> QED
    BY <1>0, <2>1, LeaveFrame
<1>2. Stage(i)' = Stage(i)
  BY <1>1 DEF Stage
<1>3. Turn(i)' = Turn(i)
  BY <1>1 DEF Turn
<1>4. Round(i)' = j[i] /\ Round(i) = j[i]
  BY <1>0, <1>1 DEF Round
<1>5. \A k \in CPU : Stage(k)' = Stage(k) /\ Round(k)' = Round(k) /\ Turn(k)' = Turn(k)
  BY <1>1, <1>2, <1>3, <1>4
<1>6. TypeOK' /\ HistInv'
  BY <1>0, <1>1 DEF TypeOK, HistInv, no_threads, Thread
<1>7. PcInv'
  <2>1. ASSUME pc[i] = "allocated"
        PROVE  idx[i] \in Batch(j[i])
    BY <2>1, BatchFacts, SizesAssumption DEF PcInv, First, Batch, Run
  <2>2. 0 \in Run /\ First(0)
    BY FirstBatch, SizesAssumption DEF First, Run
  <2> QED
    BY <1>0, <1>1, <2>1, <2>2, RoundFacts DEF PcInv, InRun
<1>8. VcpuInv'
  BY <1>0, <1>1, <1>2, <1>5 DEF VcpuInv, IsThread, no_threads, HasVcpu, InRun
<1>9. Together' /\ TurnInv'
  BY <1>0, <1>1, <1>5, FrameTogether, FrameTurn
<1>10. InitInv'
  BY <1>0, <1>1, <1>5 DEF InitInv, IsThread, no_threads
<1>11. TlbInv'
  BY <1>0, <1>1, <1>5 DEF TlbInv, Fresh, InRun
<1>12. RestoreInv'
  <2> SUFFICES ASSUME (no_threads = NO_CPUS)'
               PROVE  SavedInv' /\ PteInv'
    BY DEF RestoreInv
  <2>1. SavedInv /\ PteInv
    BY <1>0 DEF RestoreInv, no_threads
  <2>2. SavedInv'
    <3>1. ASSUME pc[i] = "allocated"
          PROVE  \A r \in Batch(j[i]) : ~ (r < idx[i])
      BY <3>1, BatchFacts DEF PcInv, First, Batch, Run
    <3> QED
      BY <1>0, <1>1, <2>1, <3>1 DEF SavedInv, InRun
  <2>3. PteInv'
    <3> SUFFICES ASSUME NEW k \in CPU, NEW r \in Run, ptes[r] = "test"
                 PROVE  ToPutBack(k, r)'
      BY <1>1 DEF PteInv
    <3>1. ToPutBack(k, r)
      BY <2>1 DEF PteInv
    <3> QED
      BY <1>0, <1>1, <1>5, <3>1 DEF ToPutBack
  <2> QED
    BY <2>2, <2>3
<1> QED
  BY <1>1, <1>6, <1>7, <1>8, <1>9, <1>10, <1>11, <1>12

(* bwait returns at the end of a run: on to the next, or to the cleaning.  *)
LEMMA StepLeaveEnd ==
  ASSUME IInv, NEW i \in CPU,
         Leave(i, "end", IF j[i] + 1 < BatchEnd(j[i]) THEN "run" ELSE "clean"),
         j' = [j EXCEPT ![i] = @ + 1], idx' = [idx EXCEPT ![i] = BatchStart(j[i])],
         UNCHANGED <<test, vcpu, saved>>
  PROVE  IInv'
<1> USE DEF IInv
<1> DEFINE more == j[i] + 1 < BatchEnd(j[i])
           to   == IF more THEN "run" ELSE "clean"
<1>a. /\ pc[i] = "end" /\ j[i] \in Run /\ j[i] \in Nat /\ j[i] + 1 \in 0 .. no_runs
      /\ BatchStart(j[i]) \in Run /\ BatchStart(j[i]) <= j[i] /\ Batch(j[i]) \subseteq Run
      /\ BatchEnd(j[i]) \in Nat /\ no_runs \in Nat
      /\ BatchEnd(j[i]) \in j[i] + 1 .. no_runs
  <2>1. pc[i] = "end"
    BY DEF Leave, Goto
  <2> QED
    BY <2>1, RoundFacts, BatchFacts DEF Run
<1>b. /\ j'[i] = j[i] + 1 /\ \A k \in CPU \ {i} : j'[k] = j[k]
      /\ idx'[i] = BatchStart(j[i]) /\ \A k \in CPU \ {i} : idx'[k] = idx[k]
      /\ j' \in [CPU -> 0 .. no_runs] /\ idx' \in [CPU -> 0 .. no_runs]
  BY <1>a DEF TypeOK, Run
<1>0. to \in PC /\ "end" \in Waits
  BY DEF PC, Waits
<1>1. /\ BarInv' /\ phase' \in [Bar -> [CPU -> R!Phases]]
      /\ pc' = [pc EXCEPT ![i] = to] /\ pc'[i] = to
      /\ UNCHANGED <<affinity, data, ptes, outs, hist, tlb>>
      /\ Released(i) /\ ~ Released(i)'
      /\ \A k \in CPU \ {i} : /\ pc'[k] = pc[k] /\ Stage(k)' = Stage(k)
                              /\ Round(k)' = Round(k) /\ Turn(k)' = Turn(k)
  BY <1>0, <1>b, LeaveFrame
<1>2. /\ Stage(i) = (IF more THEN "run" ELSE "head") /\ Stage(i)' = Stage(i)
      /\ Turn(i) = 0 /\ Turn(i)' = 0
      /\ Round(i) = j[i] + 1 /\ Round(i)' = j[i] + 1
  BY <1>a, <1>b, <1>1 DEF Stage, Turn, Round
<1>5. \A k \in CPU : Stage(k)' = Stage(k) /\ Round(k)' = Round(k) /\ Turn(k)' = Turn(k)
  BY <1>1, <1>2
<1>c. more => j[i] + 1 \in Batch(j[i]) /\ Batch(j[i] + 1) = Batch(j[i])
  <2>1. more => j[i] + 1 \in Batch(j[i])
    BY <1>a DEF Batch, Run
  <2> QED
    BY <1>a, <2>1, SameBatch
<1>d. ~ more => BatchEnd(j[i]) = j[i] + 1 /\ (j[i] + 1 = no_runs \/ First(j[i] + 1))
  BY <1>a, AfterBatch DEF First
<1>6. TypeOK' /\ HistInv'
  BY <1>0, <1>1, <1>b DEF TypeOK, HistInv, no_threads, Thread
<1>7. PcInv'
  <2>1. more => j[i] + 1 \in Run
    BY <1>a, <1>c
  <2>2. (j[i] + 1) - 1 = j[i] /\ BatchStart(j[i]) \in BatchStart(j[i]) .. j[i]
    BY <1>a DEF Run
  <2>3. ASSUME NEW k \in CPU
        PROVE  PcInv!(k)'
    <3>1. CASE k = i
      BY <1>a, <1>b, <1>d, <1>1, <2>1, <2>2, <3>1 DEF InRun
    <3>2. CASE k # i
      BY <1>b, <1>1, <3>2 DEF PcInv, First
    <3> QED
      BY <3>1, <3>2
  <2> QED
    BY <2>3 DEF PcInv
<1>8. VcpuInv'
  BY <1>a, <1>1, <1>2, <1>5 DEF VcpuInv, IsThread, no_threads, HasVcpu, InRun
<1>9. Together' /\ TurnInv'
  BY <1>1, <1>5, FrameTogether, FrameTurn
<1>10. InitInv'
  BY <1>b, <1>1, <1>5 DEF InitInv, IsThread, no_threads
<1>11. TlbInv'
  BY <1>a, <1>1, <1>5 DEF TlbInv, Fresh, InRun
<1>12. RestoreInv'
  <2> SUFFICES ASSUME (no_threads = NO_CPUS)'
               PROVE  SavedInv' /\ PteInv'
    BY DEF RestoreInv
  <2>1. SavedInv /\ PteInv
    BY DEF RestoreInv, no_threads
  <2>2. \A r \in Batch(j[i]) : saved[i][r] = "init"
    BY <1>a, <2>1 DEF SavedInv, InRun
  <2>3. ~ more => Batch(j[i]) = BatchStart(j[i]) .. j[i]
    BY <1>a, <1>d DEF Batch, Run
  <2>4. SavedInv'
    <3>1. ~ more => \A r \in idx'[i] .. j'[i] - 1 : saved[i][r] = "init"
      BY <1>a, <1>b, <2>2, <2>3
    <3>2. more => \A r \in Batch(j'[i]) : saved[i][r] = "init"
      BY <1>b, <1>c, <2>2
    <3> QED
      BY <1>1, <1>b, <2>1, <3>1, <3>2 DEF SavedInv, InRun
  <2>5. PteInv'
    <3> SUFFICES ASSUME NEW k \in CPU, NEW r \in Run, ptes[r] = "test"
                 PROVE  ToPutBack(k, r)'
      BY <1>1 DEF PteInv
    <3>1. ToPutBack(k, r)
      BY <2>1 DEF PteInv
    <3>2. CASE k # i
      BY <1>1, <1>b, <3>1, <3>2 DEF ToPutBack
    <3>3. CASE k = i /\ more
      BY <1>a, <1>1, <1>2, <3>1, <3>3 DEF ToPutBack
    <3>4. CASE k = i /\ ~ more
      <4>1. r \in Batch(j[i])
        BY <1>a, <1>2, <3>1, <3>4 DEF ToPutBack
      <4>2. r \in idx'[i] .. j'[i] - 1
        BY <1>a, <1>b, <2>3, <3>4, <4>1
      <4> QED
        BY <1>1, <3>4, <4>2 DEF ToPutBack
    <3> QED
      BY <3>2, <3>3, <3>4
  <2> QED
    BY <2>4, <2>5
<1> QED
  BY <1>1, <1>6, <1>7, <1>8, <1>9, <1>10, <1>11, <1>12

(* All CPUs are released from their barrier: the next stage begins. *)
LEMMA StepReleaseAll ==
  ASSUME IInv, R!Release(CpuBarrier), UNCHANGED <<test, ctx, pc, local>>
  PROVE  IInv'
<1> USE DEF IInv
<1>1. UNCHANGED <<test, affinity, data, ptes, outs, hist, tlb, pc, vcpu, j, idx, saved>>
  BY DEF ctx, local
<1>2. CpuBarrier \in Bar /\ Members[CpuBarrier] = CPU
  BY DEF Members, Bar
<1>3. /\ \A i \in CPU : phase[CpuBarrier][i] = "in"
      /\ phase' = [phase EXCEPT ![CpuBarrier] = [i \in CPU |-> IF i \in CPU THEN "go" ELSE @[i]]]
  BY <1>2 DEF R!Release
<1>4. /\ \A i \in CPU : phase'[CpuBarrier][i] = "go"
      /\ \A b \in Bar : b # CpuBarrier => phase'[b] = phase[b]
  BY <1>2, <1>3 DEF TypeOK
<1>5. \A i \in CPU : /\ pc[i] \in {"begin", "affined", "allocated", "end", "exit"}
                     /\ ~ Released(i) /\ Released(i)'
  <2> SUFFICES ASSUME NEW i \in CPU
               PROVE  /\ pc[i] \in {"begin", "affined", "allocated", "end", "exit"}
                      /\ ~ Released(i) /\ Released(i)'
    OBVIOUS
  <2>1. pc[i] \in Waits /\ BarAt(i) = CpuBarrier
    BY <1>2, <1>3 DEF BarInv
  <2>2. pc[i] \notin {"go", "back"}
    BY <2>1, BarAtFacts
  <2>3. BarAt(i)' = CpuBarrier
    BY <1>1, <2>1 DEF BarAt
  <2> QED
    BY <1>1, <1>3, <1>4, <2>1, <2>2, <2>3 DEF Waits, Released
<1>6. \A i, k \in CPU : pc[i] = pc[k] /\ j[i] = j[k]
  <2> SUFFICES ASSUME NEW i \in CPU, NEW k \in CPU
               PROVE  pc[i] = pc[k] /\ j[i] = j[k]
    OBVIOUS
  <2>1. j[i] = j[k]
    BY <1>5 DEF Together, Round
  <2>2. Stage(i) = Stage(k)
    BY DEF Together
  <2>3. ASSUME NEW n \in CPU
        PROVE  /\ pc[n] = "affined" => j[n] \in 0 .. no_runs - 1
               /\ pc[n] = "exit" => j[n] = no_runs
    BY SizesAssumption DEF PcInv, First, Run
  <2>4. no_runs \in Nat
    BY SizesAssumption
  <2>5. CASE Stage(i) = "head"
    BY <1>5, <2>1, <2>2, <2>3, <2>4, <2>5 DEF Stage
  <2>6. CASE Stage(i) # "head"
    BY <1>5, <2>1, <2>2, <2>6 DEF Stage
  <2> QED
    BY <2>5, <2>6
<1>7. TypeOK' /\ HistInv'
  <2>1. phase' \in [Bar -> [CPU -> R!Phases]]
    BY <1>2, <1>3 DEF TypeOK, R!Phases
  <2> QED
    BY <1>1, <2>1 DEF TypeOK, HistInv, no_threads, Thread
<1>8. BarInv'
  <2>1. \A i \in CPU : BarAt(i)' = BarAt(i) /\ BarAt(i) = CpuBarrier
    BY <1>1, <1>5, BarAtFacts DEF BarAt
  <2> QED
    BY <1>1, <1>4, <1>5, <2>1 DEF BarInv, Waits
<1>9. PcInv'
  BY <1>1 DEF PcInv
<1>10. VcpuInv'
  BY <1>1, <1>5 DEF VcpuInv, IsThread, no_threads, HasVcpu, InRun, Stage
<1>11. Together'
  BY <1>1, <1>5, <1>6 DEF Together, Stage, Round
<1>12. TurnInv'
  BY <1>1, <1>5 DEF TurnInv, Turn
<1>13. ASSUME NEW i \in CPU, pc[i] = "end", Stage(i)' = "run"
       PROVE  /\ j[i] \in Run /\ j[i] + 1 \in Batch(j[i]) /\ Batch(j[i] + 1) = Batch(j[i])
              /\ Round(i) = j[i] /\ Round(i)' = j[i] + 1 /\ Stage(i) = "run"
  <2>1. j[i] \in Run /\ j[i] \in Nat /\ BatchEnd(j[i]) \in Nat
    BY <1>13, RoundFacts, BatchFacts DEF Run
  <2>2. ~ (BatchEnd(j[i]) <= j[i] + 1)
    BY <1>1, <1>5, <1>13 DEF Stage
  <2>3. BatchStart(j[i]) \in Nat /\ BatchStart(j[i]) <= j[i]
    BY <2>1, BatchStartFacts
  <2>4. j[i] + 1 \in Batch(j[i])
    BY <2>1, <2>2, <2>3 DEF Batch
  <2>5. Batch(j[i] + 1) = Batch(j[i])
    BY <2>1, <2>4, SameBatch
  <2> QED
    BY <1>1, <1>5, <1>13, <2>1, <2>4, <2>5 DEF Stage, Round
<1>14. InitInv'
  <2> SUFFICES ASSUME NEW i \in CPU, Stage(i)' = "run", NEW r \in Batch(Round(i)'),
                      r > Round(i)' \/ r = Round(i)'
               PROVE  data[r] = "init" /\ ptes[r] = "init"
    BY <1>1, <1>5 DEF InitInv, Stage
  <2>1. pc[i] \in {"allocated", "end"}
    BY <1>1, <1>5 DEF Stage
  <2>2. CASE pc[i] = "allocated"
    <3>1. PICK n \in CPU : affinity[n] = 0
      BY SomeThread0 DEF TypeOK
    <3>2. pc[n] = "allocated" /\ j[n] = j[i] /\ Stage(n) = "alloc"
      BY <1>5, <1>6, <2>2 DEF Stage
    <3>3. vcpu[n] = 0
      BY <3>1, <3>2 DEF VcpuInv, HasVcpu
    <3>4. Round(i)' = j[i]
      BY <1>1, <2>2 DEF Round
    <3> QED
      BY <3>2, <3>3, <3>4 DEF InitInv
  <2>3. CASE pc[i] = "end"
    <3>1. r \in Batch(Round(i)) /\ r \in Run /\ Round(i) \in Nat /\ Round(i)' = Round(i) + 1
          /\ Stage(i) = "run"
      BY <1>13, <2>3, BatchFacts DEF Run
    <3>2. r > Round(i)
      BY <3>1 DEF Run
    <3> QED
      BY <3>1, <3>2 DEF InitInv
  <2> QED
    BY <2>1, <2>2, <2>3
<1>15. TlbInv'
  <2> SUFFICES ASSUME NEW i \in CPU, Stage(i)' = "run", pc[i] \in InRun
               PROVE  Fresh(i)'
    BY <1>1 DEF TlbInv
  <2>1. pc[i] = "end"
    BY <1>5 DEF InRun
  <2>2. Batch(Round(i)') = Batch(Round(i)) /\ Fresh(i)
    BY <1>13, <2>1 DEF TlbInv
  <2> QED
    BY <1>1, <2>2 DEF Fresh
<1>16. RestoreInv'
  <2> SUFFICES ASSUME (no_threads = NO_CPUS)'
               PROVE  SavedInv' /\ PteInv'
    BY DEF RestoreInv
  <2>1. SavedInv /\ PteInv
    BY <1>1 DEF RestoreInv, no_threads
  <2>2. SavedInv'
    BY <1>1, <2>1 DEF SavedInv
  <2>3. PteInv'
    <3> SUFFICES ASSUME NEW i \in CPU, NEW r \in Run, ptes[r] = "test"
                 PROVE  ToPutBack(i, r)'
      BY <1>1 DEF PteInv
    <3>1. ToPutBack(i, r)
      BY <2>1 DEF PteInv
    <3>2. pc[i] = "end" /\ Stage(i) = "run" /\ r \in Batch(Round(i)) /\ r <= Round(i)
      BY <1>5, <3>1 DEF ToPutBack, Stage
    <3>3. Round(i) = j[i] /\ j[i] \in Nat /\ r \in Nat
      BY <1>5, <3>2, RoundFacts DEF Round, Run
    <3>4. Stage(i)' \in {"run", "head"}
      BY <1>1, <1>5, <3>2 DEF Stage
    <3>5. CASE Stage(i)' = "run"
      <4>1. r \in Batch(Round(i)') /\ r <= Round(i)'
        BY <1>13, <3>2, <3>3, <3>5
      <4> QED
        BY <3>5, <4>1 DEF ToPutBack
    <3>6. CASE Stage(i)' = "head"
      BY <1>1, <3>2, <3>3, <3>6 DEF ToPutBack
    <3> QED
      BY <3>4, <3>5, <3>6
  <2> QED
    BY <2>2, <2>3
<1> QED
  BY <1>7, <1>8, <1>9, <1>10, <1>11, <1>12, <1>14, <1>15, <1>16

(* The threads of the test are released to begin, or to end, a run. *)
LEMMA StepReleaseThreads ==
  ASSUME IInv, NEW b \in Bar \ {CpuBarrier}, R!Release(b), UNCHANGED <<test, ctx, pc, local>>
  PROVE  IInv'
<1> USE DEF IInv
<1>1. UNCHANGED <<test, affinity, data, ptes, outs, hist, tlb, pc, vcpu, j, idx, saved>>
  BY DEF ctx, local
<1>2. Members[b] = {i \in CPU : IsThread(i)}
  BY DEF Members, IsThread
<1>3. /\ \A i \in CPU : IsThread(i) => phase[b][i] = "in"
      /\ phase' = [phase EXCEPT ![b] = [i \in CPU |-> IF i \in Members[b] THEN "go" ELSE @[i]]]
  BY <1>2 DEF R!Release
<1>4. /\ \A i \in CPU : phase'[b][i] = IF IsThread(i) THEN "go" ELSE phase[b][i]
      /\ \A c \in Bar : c # b => phase'[c] = phase[c]
  BY <1>2, <1>3 DEF TypeOK
<1>5. \A i \in CPU : BarAt(i)' = BarAt(i) /\ BarAt(i) \in Bar
  BY <1>1, BarAtFacts DEF BarAt
<1>6. \A i \in CPU : IsThread(i) =>
        /\ pc[i] \in {"go", "back"} /\ (pc[i] = "back" <=> b = VcpuBarrier)
        /\ ~ Released(i) /\ Released(i)'
  <2> SUFFICES ASSUME NEW i \in CPU, IsThread(i)
               PROVE  /\ pc[i] \in {"go", "back"} /\ (pc[i] = "back" <=> b = VcpuBarrier)
                      /\ ~ Released(i) /\ Released(i)'
    OBVIOUS
  <2>1. pc[i] \in Waits /\ BarAt(i) = b /\ phase[b][i] = "in"
    BY <1>3 DEF BarInv
  <2>2. pc[i] \in {"go", "back"}
    BY <2>1, BarAtFacts
  <2>3. pc[i] = "back" <=> b = VcpuBarrier
    BY <2>1, <2>2 DEF BarAt, VcpuBarrier
  <2> QED
    BY <1>1, <1>4, <1>5, <2>1, <2>2, <2>3 DEF Released
<1>7. \A i \in CPU : ~ IsThread(i) => Released(i)' = Released(i)
  BY <1>1, <1>4, <1>5 DEF Released
<1>8. \A i \in CPU : Stage(i)' = Stage(i) /\ Round(i)' = Round(i)
  <2> SUFFICES ASSUME NEW i \in CPU
               PROVE  Stage(i)' = Stage(i) /\ Round(i)' = Round(i)
    OBVIOUS
  <2>1. CASE IsThread(i)
    BY <1>1, <1>6, <2>1 DEF Stage, Round
  <2>2. CASE ~ IsThread(i)
    BY <1>1, <1>7, <2>2 DEF Stage, Round
  <2> QED
    BY <2>1, <2>2
<1>9. \A i \in CPU : IsThread(i) => Turn(i)' = IF b = VcpuBarrier THEN 2 ELSE 1
  BY <1>1, <1>6 DEF Turn
<1>10. TypeOK' /\ HistInv'
  <2>1. phase' \in [Bar -> [CPU -> R!Phases]]
    BY <1>3 DEF TypeOK, R!Phases
  <2> QED
    BY <1>1, <2>1 DEF TypeOK, HistInv, no_threads, Thread
<1>11. BarInv'
  <2> SUFFICES ASSUME NEW c \in Bar, NEW i \in CPU, phase'[c][i] # "out"
               PROVE  pc[i] \in Waits /\ c = BarAt(i)
    BY <1>1, <1>5 DEF BarInv
  <2>1. phase[c][i] # "out"
    BY <1>3, <1>4
  <2> QED
    BY <2>1 DEF BarInv
<1>12. PcInv'
  BY <1>1 DEF PcInv
<1>13. VcpuInv'
  BY <1>1, <1>8 DEF VcpuInv, IsThread, no_threads
<1>14. Together' /\ TurnInv'
  BY <1>1, <1>8, <1>9 DEF Together, TurnInv, IsThread, no_threads
<1>15. InitInv'
  BY <1>1, <1>8, <1>9 DEF InitInv, IsThread, no_threads
<1>16. TlbInv'
  BY <1>1, <1>8 DEF TlbInv, Fresh
<1>17. RestoreInv'
  BY <1>1, <1>8 DEF RestoreInv, no_threads, SavedInv, PteInv, ToPutBack
<1> QED
  BY <1>10, <1>11, <1>12, <1>13, <1>14, <1>15, <1>16, <1>17

-----------------------------------------------------------------------------
LEMMA IInvInit == Init => IInv
<1> SUFFICES ASSUME Init PROVE IInv
  OBVIOUS
<1> USE DEF Init
<1>0. 0 \in 0 .. no_runs
  BY SizesAssumption
<1>1. \A i \in CPU : pc[i] = "begin" /\ ~ Released(i) /\ j[i] = 0
  <2>1. CpuBarrier \in Bar
    BY DEF Bar
  <2> QED
    BY <2>1 DEF Released, BarAt
<1>2. \A i \in CPU : Stage(i) = "begin" /\ Round(i) = 0 /\ Turn(i) = 0
  BY <1>1 DEF Stage, Round, Turn
<1>3. hist = [results |-> <<>>, lut |-> [ix \in 0 .. limit - 1 |-> 0]]
  BY DEF EmptyHist, NULL
<1>4. HistInv /\ hist.results \in Seq(Row) /\ hist.lut \in [0 .. limit - 1 -> 0 .. Len(hist.results)]
  BY <1>3 DEF HistInv
<1>5. affinity \in Permutation
  BY DEF Permutation
<1>6. TypeOK
  BY <1>0, <1>4, <1>5 DEF TypeOK, States, PC, Waits, R!Phases, Row
<1>7. BarInv /\ PcInv /\ VcpuInv
  BY <1>1 DEF BarInv, PcInv, VcpuInv, HasVcpu, InRun
<1>8. Together /\ TurnInv
  BY <1>2 DEF Together, TurnInv
<1>9. InitInv /\ TlbInv
  BY <1>2 DEF InitInv, TlbInv
<1>10. RestoreInv
  BY <1>1 DEF RestoreInv, SavedInv, PteInv, InRun
<1> QED
  BY <1>4, <1>6, <1>7, <1>8, <1>9, <1>10 DEF IInv

LEMMA IInvStep == IInv /\ [Next]_vars => IInv'
<1> SUFFICES ASSUME IInv, [Next]_vars PROVE IInv'
  OBVIOUS
<1>1. CASE Release
  <2>1. PICK b \in Bar : R!Release(b)
    BY <1>1 DEF Release
  <2>2. UNCHANGED <<test, ctx, pc, local>>
    BY <1>1 DEF Release
  <2> QED
    BY <2>1, <2>2, StepReleaseAll, StepReleaseThreads
<1>2. ASSUME NEW i \in CPU, Step(i) PROVE IInv'
  <2>0. UNCHANGED test
    BY <1>2 DEF Step
  <2>1. CASE Arrive(i)
    BY <2>0, <2>1, StepArrive
  <2>2. CASE Pass(i)
    BY <2>0, <2>2, StepPass
  <2>3. CASE Bwait(i)
    <3>1. CASE Leave(i, "end", IF j[i] + 1 < BatchEnd(j[i]) THEN "run" ELSE "clean")
               /\ j' = [j EXCEPT ![i] = @ + 1] /\ idx' = [idx EXCEPT ![i] = BatchStart(j[i])]
               /\ UNCHANGED <<vcpu, saved>>
      BY <2>0, <3>1, StepLeaveEnd
    <3>2. ASSUME NEW from, NEW to,
                 <<from, to>> \in {<<"begin", "loop">>, <<"affined", "affinity">>, <<"allocated", "setup">>,
                                   <<"go", "func">>, <<"back", "record">>, <<"exit", "done">>},
                 Leave(i, from, to), UNCHANGED local
          PROVE  IInv'
      <4>1. UNCHANGED <<test, local>>
        BY <2>0, <3>2
      <4> QED
        BY <3>2, <4>1, StepLeaveSameRun
    <3> QED
      BY <2>3, <3>1, <3>2 DEF Bwait
  <2>4. CASE NewBatch(i)
    BY <2>0, <2>4, StepNewBatch
  <2>5. CASE GetAffinity(i)
    BY <2>0, <2>5, StepGetAffinity
  <2>6. CASE Allocate(i)
    BY <2>0, <2>6, StepAllocate
  <2>7. CASE SetupRunData(i)
    BY <2>0, <2>7, StepSetupRunData
  <2>8. CASE Prepare(i)
    BY <2>0, <2>8, StepPrepare
  <2>9. CASE Spare(i)
    BY <2>0, <2>9, StepSpare
  <2>10. CASE StartOfRun(i)
    BY <2>0, <2>10, StepStartOfRun
  <2>11. CASE Func(i)
    BY <2>0, <2>11, StepFunc
  <2>12. CASE FuncOut(i)
    BY <2>0, <2>12, StepFuncOut
  <2>13. CASE EndOfRun(i)
    BY <2>0, <2>13, StepEndOfRun
  <2>14. CASE CleanRunData(i)
    BY <2>0, <2>14, StepCleanRunData
  <2> QED
    BY <1>2, <2>1, <2>2, <2>3, <2>4, <2>5, <2>6, <2>7, <2>8, <2>9, <2>10, <2>11, <2>12, <2>13,
       <2>14 DEF Step
<1>3. CASE UNCHANGED vars
  <2>1. UNCHANGED <<test, ctx, pc, local>> /\ phase' = phase
    BY <1>3 DEF vars
  <2>2. pc' = pc /\ j' = j
    BY <2>1 DEF local
  <2>3. \A k \in CPU : BarAt(k)' = BarAt(k)
    BY <2>2 DEF BarAt
  <2>4. BarInv' /\ \A k \in CPU : Released(k)' = Released(k)
    BY <2>1, <2>2, <2>3 DEF IInv, BarInv, Released
  <2>5. phase' \in [Bar -> [CPU -> R!Phases]]
    BY <2>1 DEF IInv, TypeOK
  <2> QED
    BY <2>1, <2>4, <2>5, BarrierFrame
<1> QED
  BY <1>1, <1>2, <1>3 DEF Next

-----------------------------------------------------------------------------
(* litmus_test.c:366-455: all CPUs are in the same stage of the same run,   *)
(* between the same barriers, and all threads of the test in the same part *)
(* of it; the rest follows from that.                                      *)
THEOREM HarnessInvariant == Spec => []IInv
BY IInvInit, IInvStep, PTL DEF Spec

(* The state of go_cpus and of the test context keeps its type: no CPU     *)
(* runs past the end of a batch or indexes a run that does not exist       *)
(* (litmus_test.c:383-454).                                                *)
THEOREM HarnessTypeOK == Spec => []TypeOK
<1>1. IInv => TypeOK
  BY DEF IInv
<1> QED
  BY <1>1, HarnessInvariant, PTL

(* litmus_test.c:371-376: threads execute the same run under an ASID that  *)
(* no translation in their TLB from another run has, and that is not the   *)
(* harness's own.                                                          *)
THEOREM HarnessIsolated == Spec => []Isolated
<1>1. IInv => Isolated
  <2> SUFFICES ASSUME IInv, NEW i \in CPU, pc[i] \in {"func", "out"}
               PROVE  /\ \A n \in CPU : pc[n] \in {"func", "out"} /\ n # i =>
                           j[n] = j[i] /\ vcpu[n] # vcpu[i]
                      /\ \A r \in tlb[i] : r # j[i] => Asid(r) # Asid(j[i])
                      /\ batch_size <= MAX_ASID => Asid(j[i]) # 0
    BY DEF Isolated
  <2> USE DEF IInv
  <2>1. \A n \in CPU : pc[n] \in {"func", "out"} =>
          Stage(n) = "run" /\ Round(n) = j[n] /\ vcpu[n] = affinity[n]
    BY DEF Stage, Round, VcpuInv, HasVcpu, InRun
  <2>2. j[i] \in Run /\ j[i] \in Batch(j[i]) /\ pc[i] \in InRun
    BY RoundFacts, BatchFacts DEF InRun
  <2>3. \A n \in CPU : pc[n] \in {"func", "out"} /\ n # i => j[n] = j[i] /\ vcpu[n] # vcpu[i]
    BY <2>1 DEF Together, TypeOK, Permutation
  <2>4. \A r \in tlb[i] : r \in Batch(j[i]) \/ \A q \in Batch(j[i]) : Asid(r) # Asid(q)
    BY <2>1, <2>2 DEF TlbInv, Fresh
  <2>5. \A r \in tlb[i] : r # j[i] => Asid(r) # Asid(j[i])
    BY <2>2, <2>4, AsidFacts
  <2> QED
    BY <2>2, <2>3, <2>5, AsidFacts
<1> QED
  BY <1>1, HarnessInvariant, PTL

(* litmus_test.c:474-480: no thread enters a run before its variables are  *)
(* initialised or after another has changed them.                          *)
THEOREM HarnessPrefetchNeverFails == Spec => []PrefetchNeverFails
<1>1. IInv => PrefetchNeverFails
  BY DEF IInv, PcInv, PrefetchNeverFails
<1> QED
  BY <1>1, HarnessInvariant, PTL

(* litmus_test.c:215-216: the pagetables are put back, whenever every CPU  *)
(* plays a thread of the test.                                             *)
THEOREM HarnessRestoredWithoutSpares == Spec => []RestoredWithoutSpares
<1>1. IInv => RestoredWithoutSpares
  <2> SUFFICES ASSUME IInv, no_threads = NO_CPUS,
                      \A i \in CPU : pc[i] \in {"loop", "affined", "exit", "done"},
                      NEW r \in Run
               PROVE  ptes[r] # "test"
    BY DEF RestoredWithoutSpares, PagetablesRestored
  <2>1. 0 \in CPU
    BY SizesAssumption DEF CPU
  <2>2. ptes[r] = "test" => ToPutBack(0, r)
    BY <2>1 DEF IInv, RestoreInv, PteInv
  <2> QED
    BY <2>1, <2>2 DEF ToPutBack, Stage
<1> QED
  BY <1>1, HarnessInvariant, PTL

(* litmus_test.c:389-393: CPU 0 gives out new affinities while nobody is   *)
(* inside a barrier for the threads of the test.                           *)
THEOREM HarnessRegroupsQuietly == Spec => RegroupsQuietly
<1>1. IInv /\ [Next]_vars =>
        (affinity' # affinity =>
           \A b \in Bar \ {CpuBarrier} : \A i \in CPU : phase[b][i] = "out")
  <2> SUFFICES ASSUME IInv, [Next]_vars, affinity' # affinity,
                      NEW b \in Bar \ {CpuBarrier}, NEW i \in CPU
               PROVE  phase[b][i] = "out"
    OBVIOUS
  <2> USE DEF IInv
  <2>1. PICK n \in CPU : NewBatch(n)
    BY DEF Next, Release, Step, Arrive, Pass, Bwait, Leave, GetAffinity, Allocate, SetupRunData,
           Prepare, Spare, StartOfRun, Func, FuncOut, EndOfRun, CleanRunData, ctx, vars
  <2>2. Stage(n) = "head"
    BY <2>1 DEF NewBatch, Goto, Stage
  <2>3. pc[i] \notin {"go", "back"}
    <3>1. Stage(i) = "head"
      BY <2>2 DEF Together
    <3> QED
      BY <3>1 DEF Stage
  <2> QED
    BY <2>3, BarAtFacts DEF BarInv
<1> QED
  BY <1>1, HarnessInvariant, PTL DEF Spec, RegroupsQuietly

(* A barrier all of whose users are in it can be released; so if all CPUs  *)
(* are held up, none is released, all are in one stage, and in a run the   *)
(* threads are at the same turn: all users of the barrier are in it.       *)
LEMMA InvMoves == IInv => NeverAllHeldUp
<1> SUFFICES ASSUME IInv,
                    \A i \in CPU : pc[i] # "overallocated",
                    \A i \in CPU : pc[i] = "done" \/ HeldUp(i),
                    NEW c \in CPU, pc[c] # "done"
             PROVE  FALSE
  BY DEF NeverAllHeldUp
<1> USE DEF IInv
<1>w. \A i \in CPU : pc[i] # "done" => pc[i] \in Waits /\ HeldUp(i) /\ BarAt(i) \in Bar
  BY BarAtFacts DEF HeldUp
<1>1. \A b \in Bar, n \in CPU : phase[b][n] # "go"
  BY <1>w DEF BarInv, HeldUp, Waits
<1>2. ASSUME NEW i \in CPU, pc[i] # "done"
      PROVE  /\ ~ Released(i)
             /\ phase[BarAt(i)][i] # "passed"
  BY <1>1, <1>2, <1>w DEF Released, HeldUp
<1>3. ASSUME NEW i \in CPU PROVE pc[i] \in Waits /\ ~ Released(i)
  <2>1. Stage(c) # "done"
    BY <1>2, <1>w DEF Stage, Waits
  <2>2. pc[i] # "done"
    BY <2>1 DEF Together, Stage
  <2> QED
    BY <1>2, <1>w, <2>2
<1>4. ASSUME NEW i \in CPU, i \in Members[BarAt(i)]
      PROVE  phase[BarAt(i)][i] = "in" /\ \E n \in Members[BarAt(i)] : phase[BarAt(i)][n] # "in"
  <2>1. BarAt(i) \in Bar /\ HeldUp(i) /\ phase[BarAt(i)][i] # "passed"
    BY <1>2, <1>3, <1>w DEF Waits
  <2>2. phase[BarAt(i)][i] \in {"out", "in"}
    BY <1>1, <2>1 DEF TypeOK, R!Phases
  <2> QED
    BY <1>4, <2>1, <2>2 DEF HeldUp
<1>5. \A n \in CPU : n \in Members[CpuBarrier]
  BY DEF Members, Bar
(* Not all are at barriers for all CPUs. *)
<1>6. PICK t \in CPU : pc[t] \in {"go", "back"}
  <2> SUFFICES ASSUME \A i \in CPU : pc[i] \notin {"go", "back"} PROVE FALSE
    OBVIOUS
  <2>1. \A i \in CPU : BarAt(i) = CpuBarrier
    BY BarAtFacts
  <2>2. \A i \in CPU : phase[CpuBarrier][i] = "in"
    BY <1>4, <1>5, <2>1
  <2>3. PICK n \in Members[CpuBarrier] : phase[CpuBarrier][n] # "in"
    BY <1>4, <1>5, <2>1
  <2>4. n \in CPU
    BY <2>3 DEF Members, Bar
  <2> QED
    BY <2>2, <2>3, <2>4
<1>7. IsThread(t)
  BY <1>6 DEF VcpuInv
<1>8. ASSUME NEW n \in CPU, IsThread(n) PROVE pc[n] = pc[t] /\ BarAt(n) = BarAt(t)
  <2>1. Stage(n) = Stage(t) /\ Round(n) = Round(t) /\ Turn(n) = Turn(t)
    BY <1>7, <1>8 DEF Together, TurnInv
  <2>2. Stage(t) = "run"
    BY <1>6 DEF Stage
  <2>3. pc[n] \in {"go", "back", "end"}
    BY <1>3, <2>1, <2>2 DEF Stage, Waits
  <2>4. pc[n] = pc[t]
    BY <1>3, <1>6, <2>1, <2>3 DEF Turn
  <2> QED
    BY <1>6, <2>1, <2>4 DEF Round, BarAt
<1>9. BarAt(t) \in Bar \ {CpuBarrier}
  BY <1>6, BarAtFacts
<1>10. Members[BarAt(t)] = {i \in CPU : IsThread(i)}
  BY <1>9 DEF Members, IsThread
<1>11. \A n \in Members[BarAt(t)] : phase[BarAt(t)][n] = "in"
  BY <1>4, <1>8, <1>10
<1> QED
  BY <1>4, <1>7, <1>10, <1>11

(* run_thread and its callees (litmus_test.c:396-451,557,573): every CPU   *)
(* comes to the same barriers in the same order, so that go_cpus never     *)
(* deadlocks, however the affinities change and with or without spare CPUs. *)
THEOREM HarnessNeverAllHeldUp == Spec => []NeverAllHeldUp
BY InvMoves, HarnessInvariant, PTL

-----------------------------------------------------------------------------
(* Induction, and that a function is what its recursive definition says.  *)
(* A set of numbers that is not empty has a least element.                 *)
LEMMA NatLeast == ASSUME NEW T \in SUBSET Nat, T # {} PROVE \E x \in T : \A y \in T : x <= y
<1> DEFINE Less == {ss \in Nat \X Nat : ss[1] < ss[2]}
<1>1. IsWellFoundedOn(Less, Nat)
  BY NatLessThanWellFounded DEF OpToRel
<1>2. PICK x \in T : \A y \in T : ~ (<<y, x>> \in Less)
  <2> HIDE DEF Less
  <2> QED BY <1>1, WFMin
<1>3. ASSUME NEW y \in T PROVE x <= y
  <2>1. y \in Nat /\ x \in Nat OBVIOUS
  <2>2. <<y, x>> \notin Less BY <1>2
  <2>3. ~ (y < x) BY <2>1, <2>2
  <2> QED BY <2>1, <2>3
<1> QED BY <1>3

(* A set that holds every number below which it holds all holds all.       *)
LEMMA StrongInduction ==
  ASSUME NEW S, \A n \in Nat : (\A m \in Nat : m < n => m \in S) => n \in S
  PROVE  \A n \in Nat : n \in S
<1> DEFINE T == {n \in Nat : n \notin S}
<1>1. SUFFICES ASSUME T # {} PROVE FALSE OBVIOUS
<1>2. PICK x \in T : \A y \in T : x <= y BY <1>1, NatLeast
<1>3. \A m \in Nat : m < x => m \in S BY <1>2
<1> QED BY <1>3

LEMMA Induction ==
  ASSUME NEW S, 0 \in S, \A n \in Nat : n \in S => n + 1 \in S
  PROVE  \A n \in Nat : n \in S
<1>1. ASSUME NEW n \in Nat, \A m \in Nat : m < n => m \in S PROVE n \in S
  <2>1. CASE n = 0 BY <2>1
  <2>2. CASE n > 0
    <3>1. n - 1 \in Nat /\ n - 1 < n BY <2>2
    <3>2. n - 1 \in S BY <1>1, <3>1
    <3>3. (n - 1) + 1 \in S BY <3>1, <3>2
    <3> QED BY <3>3
  <2> QED BY <2>1, <2>2
<1> QED BY <1>1, StrongInduction

(* D gives the value of a function at n from its values below n. *)
Recursive(D, V) ==
  /\ D \in [Nat -> [[Nat -> V] -> V]]
  /\ \A n \in Nat : \A g, h \in [Nat -> V] :
       (\A i \in Nat : i < n => g[i] = h[i]) => D[n][g] = D[n][h]

Obeys(f, D, V) == f \in [Nat -> V] /\ \A n \in Nat : f[n] = D[n][f]

(* Then there is such a function. *)
LEMMA RecursionDefines ==
  ASSUME NEW V, V # {}, NEW D, Recursive(D, V)
  PROVE  \E f : Obeys(f, D, V)
<1> DEFINE Upto(n) == {g \in [Nat -> V] : \A i \in Nat : i < n => g[i] = D[i][g]}
           S == {n \in Nat : Upto(n) # {}}
<1> USE DEF Recursive
<1>1. \A n \in Nat : n \in S
  <2>1. 0 \in S
    <3>1. PICK v0 \in V : TRUE OBVIOUS
    <3>2. [i \in Nat |-> v0] \in Upto(0) OBVIOUS
    <3> QED BY <3>2
  <2>2. ASSUME NEW n \in Nat, n \in S PROVE n + 1 \in S
    <3>1. PICK g \in Upto(n) : TRUE BY <2>2
    <3>2. D[n][g] \in V
      <4>1. g \in [Nat -> V] OBVIOUS
      <4> QED BY <4>1
    <3> DEFINE h == [g EXCEPT ![n] = D[n][g]]
    <3>3. h \in [Nat -> V] /\ h[n] = D[n][g] /\ \A i \in Nat : i < n => h[i] = g[i] BY <3>2
    <3>4. ASSUME NEW i \in Nat, i < n + 1 PROVE h[i] = D[i][h]
      <4> HIDE DEF h
      <4>1. i <= n BY <3>4
      <4>2. \A k \in Nat : k < i => h[k] = g[k] BY <3>3, <4>1
      <4>3. D[i][h] = D[i][g] BY <3>3, <4>2
      <4>4. CASE i = n BY <3>3, <4>3, <4>4
      <4>5. CASE i < n
        <5>1. h[i] = g[i] BY <3>3, <4>5
        <5>2. g[i] = D[i][g] BY <4>5
        <5> QED BY <4>3, <5>1, <5>2
      <4>6. i = n \/ i < n BY <4>1
      <4> QED BY <4>4, <4>5, <4>6
    <3>5. h \in Upto(n + 1)
      <4> HIDE DEF h
      <4> QED BY <3>3, <3>4
    <3>6. n + 1 \in Nat OBVIOUS
    <3> HIDE DEF Upto, h
    <3>7. Upto(n + 1) # {} BY <3>5
    <3> QED BY <3>6, <3>7
  <2> HIDE DEF S
  <2> QED BY <2>1, <2>2, Induction
<1>2. ASSUME NEW n \in Nat, NEW m \in Nat, NEW g \in Upto(n), NEW h \in Upto(m)
      PROVE  \A i \in Nat : i < n /\ i < m => g[i] = h[i]
  <2> DEFINE T == {i \in Nat : i < n /\ i < m => g[i] = h[i]}
  <2>1. ASSUME NEW i \in Nat, \A k \in Nat : k < i => k \in T PROVE i \in T
    <3>1. SUFFICES ASSUME i < n, i < m PROVE g[i] = h[i] OBVIOUS
    <3>2. \A k \in Nat : k < i => g[k] = h[k] BY <2>1, <3>1
    <3>3. D[i][g] = D[i][h] BY <3>2
    <3> QED BY <3>1, <3>3
  <2>2. \A i \in Nat : i \in T
    <3> HIDE DEF T
    <3> QED BY <2>1, StrongInduction
  <2> QED BY <2>2
<1> DEFINE G == [n \in Nat |-> CHOOSE g \in Upto(n + 1) : TRUE]
           f == [n \in Nat |-> G[n][n]]
<1>3. ASSUME NEW n \in Nat PROVE G[n] \in Upto(n + 1)
  <2> HIDE DEF Upto
  <2>1. n + 1 \in Nat OBVIOUS
  <2>2. n + 1 \in S
    <3> HIDE DEF S
    <3> QED BY <1>1, <2>1
  <2>3. Upto(n + 1) # {} BY <2>2
  <2> QED BY <2>3
<1>4. f \in [Nat -> V]
  <2>1. ASSUME NEW n \in Nat PROVE G[n][n] \in V
    <3>1. G[n] \in [Nat -> V] BY <1>3
    <3> QED BY <3>1
  <2> HIDE DEF G
  <2> QED BY <2>1
<1>5. ASSUME NEW n \in Nat PROVE f[n] = D[n][f]
  <2>1. G[n] \in [Nat -> V] /\ G[n][n] = D[n][G[n]]
    <3>1. G[n] \in Upto(n + 1) BY <1>3
    <3>2. n < n + 1 OBVIOUS
    <3> HIDE DEF G
    <3> QED BY <3>1, <3>2
  <2>2. \A i \in Nat : i < n => f[i] = G[n][i]
    <3>1. ASSUME NEW i \in Nat, i < n PROVE G[i][i] = G[n][i]
      <4>1. G[i] \in Upto(i + 1) /\ G[n] \in Upto(n + 1) BY <1>3
      <4>2. i + 1 \in Nat /\ n + 1 \in Nat /\ i < i + 1 /\ i < n + 1 BY <3>1
      <4> HIDE DEF Upto, G
      <4> QED BY <1>2, <4>1, <4>2
    <3> HIDE DEF G
    <3> QED BY <3>1
  <2>3. D[n][f] = D[n][G[n]]
    <3> HIDE DEF f, G
    <3> QED BY <1>4, <2>1, <2>2
  <2>4. f[n] = G[n][n]
    <3> HIDE DEF G
    <3> QED OBVIOUS
  <2> QED BY <2>1, <2>3, <2>4
<1> HIDE DEF f
<1> QED BY <1>4, <1>5 DEF Obeys

-----------------------------------------------------------------------------
(* The registers as a number, and sums (horner).                           *)
LEMMA TimesPlusNat == \A b, x, y \in Nat : (b * x) + y \in Nat
OBVIOUS

LEMMA InSeq ==
  ASSUME NEW S, NEW s \in Seq(S)
  PROVE  Len(s) \in Nat /\ DOMAIN s = 1 .. Len(s) /\ \A k \in 1 .. Len(s) : s[k] \in S
OBVIOUS

LEMMA SameSeq ==
  ASSUME NEW s \in Seq(Nat), NEW t \in Seq(Nat), NEW l \in Nat, Len(s) = l, Len(t) = l,
         \A k \in 1 .. l : s[k] = t[k]
  PROVE  s = t
<1>1. DOMAIN s = 1 .. l /\ DOMAIN t = 1 .. l
  BY InSeq
<1>2. s = [k \in 1 .. l |-> s[k]] /\ t = [k \in 1 .. l |-> t[k]]
  BY <1>1
<1> QED
  BY <1>2

LEMMA UpToLast == \A l \in Nat : \A n \in 1 .. l + 1 : n = l + 1 \/ n \in 1 .. l
OBVIOUS

(* horner is what its definition says. *)
LEMMA HornerDef ==
  /\ horner \in [Nat -> [Nat -> [Seq(Nat) -> Nat]]]
  /\ \A b \in Nat, s \in Seq(Nat) :
       /\ horner[0][b][s] = 0
       /\ \A n \in Nat : n < Len(s) => horner[n + 1][b][s] = (b * horner[n][b][s]) + s[n + 1]
<1> DEFINE V == [Nat -> [Seq(Nat) -> Nat]]
           Body(f, n) == [b \in Nat |-> [values \in Seq(Nat) |->
                           IF n = 0 \/ n > Len(values) THEN 0 ELSE (b * f[n - 1][b][values]) + values[n]]]
           F(f) == [n \in Nat |-> Body(f, n)]
           D == [n \in Nat |-> [f \in [Nat -> V] |-> Body(f, n)]]
<1>1. ASSUME NEW n \in Nat, NEW g \in [Nat -> V] PROVE Body(g, n) \in V
  <2>1. ASSUME NEW b \in Nat, NEW s \in Seq(Nat)
        PROVE  (IF n = 0 \/ n > Len(s) THEN 0 ELSE (b * g[n - 1][b][s]) + s[n]) \in Nat
    <3>1. CASE n = 0 \/ n > Len(s)
      BY <3>1
    <3>2. CASE ~ (n = 0 \/ n > Len(s))
      <4>1. n - 1 \in Nat /\ n \in 1 .. Len(s)
        BY <3>2
      <4>a. g[n - 1] \in [Nat -> [Seq(Nat) -> Nat]]
        BY <4>1
      <4>b. g[n - 1][b] \in [Seq(Nat) -> Nat]
        BY <4>a
      <4>c. s[n] \in Nat
        BY <4>1, InSeq
      <4>d. g[n - 1][b][s] \in Nat
        BY <4>b
      <4>2. g[n - 1][b][s] \in Nat /\ s[n] \in Nat
        BY <4>c, <4>d
      <4>3. (b * g[n - 1][b][s]) + s[n] \in Nat
        BY <4>2, TimesPlusNat
      <4> QED
        BY <3>2, <4>3
    <3> QED
      BY <3>1, <3>2
  <2> QED
    BY <2>1
<1>2. D \in [Nat -> [[Nat -> V] -> V]] /\ \A n \in Nat : \A g \in [Nat -> V] : D[n][g] = Body(g, n)
  <2> HIDE DEF V, Body
  <2> QED
    BY <1>1
<1>3. ASSUME NEW n \in Nat, NEW g \in [Nat -> V], NEW h \in [Nat -> V],
             \A i \in Nat : i < n => g[i] = h[i]
      PROVE  D[n][g] = D[n][h]
  <2>1. n # 0 => n - 1 \in Nat /\ n - 1 < n
    OBVIOUS
  <2>2. n # 0 => g[n - 1] = h[n - 1]
    BY <1>3, <2>1
  <2>3. Body(g, n) = Body(h, n)
    <3> HIDE DEF V
    <3>1. CASE n = 0
      BY <3>1
    <3>2. CASE n # 0
      BY <2>2, <3>2
    <3> QED
      BY <3>1, <3>2
  <2> HIDE DEF D, Body, V
  <2> QED
    BY <1>2, <2>3
<1>4. PICK f \in [Nat -> V] : \A n \in Nat : f[n] = D[n][f]
  <2> HIDE DEF D
  <2>1. Recursive(D, V)
    <3> HIDE DEF V
    <3> QED
      BY <1>2, <1>3 DEF Recursive
  <2>2. [b \in Nat |-> [s \in Seq(Nat) |-> 0]] \in V
    OBVIOUS
  <2> HIDE DEF V
  <2>3. \E f : Obeys(f, D, V)
    BY <2>1, <2>2, RecursionDefines
  <2> QED
    BY <2>3 DEF Obeys
<1>5. f = F(f)
  <2> HIDE DEF D, Body, V
  <2>1. \A n \in Nat : f[n] = Body(f, n)
    BY <1>2, <1>4
  <2> QED
    BY <2>1
<1>6. horner = CHOOSE g : g = F(g)
  BY DEF horner
<1>7. horner = F(horner)
  <2> HIDE DEF F
  <2> QED
    BY <1>5, <1>6
<1>8. \A n \in Nat : horner[n] = Body(horner, n)
  <2> HIDE DEF Body
  <2> QED
    BY <1>7
<1>9. horner \in [Nat -> V]
  <2> DEFINE S == {n \in Nat : horner[n] \in V}
  <2>1. 0 \in S
    <3>1. Body(horner, 0) \in V
      OBVIOUS
    <3> HIDE DEF Body, V
    <3> QED
      BY <1>8, <3>1
  <2>2. ASSUME NEW n \in Nat, n \in S PROVE n + 1 \in S
    <3> DEFINE g == [m \in Nat |-> horner[n]]
    <3>1. g \in [Nat -> V]
      <4> HIDE DEF V
      <4> QED
        BY <2>2
    <3>2. n + 1 \in Nat /\ n + 1 # 0 /\ (n + 1) - 1 = n
      OBVIOUS
    <3>3. Body(g, n + 1) \in V
      <4> HIDE DEF g, Body, V
      <4> QED
        BY <1>1, <3>1, <3>2
    <3>4. g[(n + 1) - 1] = horner[(n + 1) - 1]
      BY <3>2
    <3>5. Body(g, n + 1) = Body(horner, n + 1)
      <4> HIDE DEF g
      <4> QED
        BY <3>4
    <3> HIDE DEF Body, V, g
    <3> QED
      BY <1>8, <3>2, <3>3, <3>5
  <2> HIDE DEF S
  <2>3. \A n \in Nat : n \in S
    BY <2>1, <2>2, Induction
  <2>4. \A n \in Nat : horner[n] \in V
    BY <2>3 DEF S
  <2>5. horner = [n \in Nat |-> Body(horner, n)]
    <3> HIDE DEF Body
    <3> QED
      BY <1>7
  <2> HIDE DEF V, Body
  <2> QED
    BY <2>4, <2>5
<1>10. ASSUME NEW b \in Nat, NEW s \in Seq(Nat)
       PROVE  /\ horner[0][b][s] = 0
              /\ \A n \in Nat : n < Len(s) => horner[n + 1][b][s] = (b * horner[n][b][s]) + s[n + 1]
  <2>1. ASSUME NEW n \in Nat
        PROVE  horner[n][b][s] = IF n = 0 \/ n > Len(s) THEN 0 ELSE (b * horner[n - 1][b][s]) + s[n]
    <3>1. horner[n][b] =
            [values \in Seq(Nat) |->
               IF n = 0 \/ n > Len(values) THEN 0 ELSE (b * horner[n - 1][b][values]) + values[n]]
      <4>1. horner[n] = Body(horner, n)
        BY <1>8
      <4>2. Body(horner, n)[b] =
              [values \in Seq(Nat) |->
                 IF n = 0 \/ n > Len(values) THEN 0 ELSE (b * horner[n - 1][b][values]) + values[n]]
        OBVIOUS
      <4> HIDE DEF Body
      <4> QED
        BY <4>1, <4>2
    <3> QED
      BY <3>1
  <2>2. horner[0][b][s] = 0
    BY <2>1
  <2>3. ASSUME NEW n \in Nat, n < Len(s)
        PROVE  horner[n + 1][b][s] = (b * horner[n][b][s]) + s[n + 1]
    <3>1. n + 1 \in Nat /\ n + 1 # 0 /\ (n + 1) - 1 = n /\ ~ (n + 1 > Len(s))
      BY <2>3
    <3> QED
      BY <2>1, <3>1
  <2> QED
    BY <2>2, <2>3
<1> QED
  BY <1>9, <1>10

LEMMA HornerNat ==
  ASSUME NEW n \in Nat, NEW b \in Nat, NEW s \in Seq(Nat)
  PROVE  horner[n][b][s] \in Nat
<1>1. horner[n] \in [Nat -> [Seq(Nat) -> Nat]]
  BY HornerDef
<1>2. horner[n][b] \in [Seq(Nat) -> Nat]
  BY <1>1
<1> QED
  BY <1>2

LEMMA HornerZero ==
  ASSUME NEW b \in Nat, NEW s \in Seq(Nat)
  PROVE  horner[0][b][s] = 0
BY HornerDef

LEMMA HornerNext ==
  ASSUME NEW b \in Nat, NEW s \in Seq(Nat), NEW n \in Nat, n < Len(s)
  PROVE  horner[n + 1][b][s] = (b * horner[n][b][s]) + s[n + 1]
BY HornerDef

LEMMA NumberNat ==
  ASSUME NEW b \in Nat, NEW s \in Seq(Nat)
  PROVE  Number(b, s) \in Nat
BY HornerNat DEF Number

(* The first n values depend on nothing behind them. *)
AgreeUpTo(s, t, l) == l <= Len(s) /\ l <= Len(t) /\ \A k \in 1 .. l : s[k] = t[k]

LEMMA HornerPrefix ==
  ASSUME NEW b \in Nat, NEW s \in Seq(Nat), NEW t \in Seq(Nat), NEW l \in Nat, AgreeUpTo(s, t, l)
  PROVE  horner[l][b][s] = horner[l][b][t]
<1> DEFINE S == {n \in Nat : n <= l => horner[n][b][s] = horner[n][b][t]}
<1>1. 0 \in S
  BY HornerZero
<1>2. ASSUME NEW n \in Nat, n \in S PROVE n + 1 \in S
  <2> SUFFICES ASSUME n + 1 <= l PROVE horner[n + 1][b][s] = horner[n + 1][b][t]
    OBVIOUS
  <2>1. n < Len(s) /\ n < Len(t) /\ n + 1 \in 1 .. l /\ n <= l
    BY InSeq DEF AgreeUpTo
  <2>2. s[n + 1] = t[n + 1] /\ horner[n][b][s] = horner[n][b][t]
    BY <1>2, <2>1 DEF AgreeUpTo
  <2>3. /\ horner[n + 1][b][s] = (b * horner[n][b][s]) + s[n + 1]
        /\ horner[n + 1][b][t] = (b * horner[n][b][t]) + t[n + 1]
    BY <2>1, HornerNext
  <2> HIDE DEF S
  <2> QED
    BY <2>2, <2>3
<1>3. \A n \in Nat : n \in S
  <2> HIDE DEF S
  <2> QED
    BY <1>1, <1>2, Induction
<1> QED
  BY <1>3

Digits(s, l) == Len(s) = l /\ \A k \in 1 .. l : s[k] \in 0 .. 3

SameDigits(s, t, n) == horner[n][4][s] = horner[n][4][t]

LEMMA BelowFour == \A x \in Nat : x \in 0 .. 3 <=> ~ (x >= 4)
OBVIOUS

LEMMA DigitsStep ==
  ASSUME NEW s \in Seq(Nat), NEW t \in Seq(Nat), NEW l \in Nat, Digits(s, l), Digits(t, l),
         NEW n \in Nat, n + 1 <= l, SameDigits(s, t, n + 1)
  PROVE  horner[n][4][s] = horner[n][4][t] /\ s[n + 1] = t[n + 1]
<1>1. n < Len(s) /\ n < Len(t) /\ s[n + 1] \in 0 .. 3 /\ t[n + 1] \in 0 .. 3
  BY DEF Digits
<1>2. PICK x \in Nat : x = horner[n][4][s]
  BY HornerNat
<1>3. PICK y \in Nat : y = horner[n][4][t]
  BY HornerNat
<1>4. PICK c \in 0 .. 3 : c = s[n + 1]
  BY <1>1
<1>5. PICK d \in 0 .. 3 : d = t[n + 1]
  BY <1>1
<1>6. horner[n + 1][4][s] = (4 * x) + c /\ horner[n + 1][4][t] = (4 * y) + d
  <2>1. 4 \in Nat
    OBVIOUS
  <2> QED
    BY <1>1, <1>2, <1>3, <1>4, <1>5, <2>1, HornerNext
<1>7. (4 * x) + c = (4 * y) + d
  BY <1>6 DEF SameDigits
<1>8. x = y /\ c = d
  <2>0. c \in Nat /\ d \in Nat /\ c <= 3 /\ d <= 3
    <3>1. c \in 0 .. 3 /\ d \in 0 .. 3
      BY <1>4, <1>5
    <3>2. \A k \in 0 .. 3 : k \in Nat /\ k <= 3
      OBVIOUS
    <3> QED
      BY <3>1, <3>2
  <2>1. ~ (x < y)
    BY <1>7, <2>0
  <2>2. ~ (y < x)
    BY <1>7, <2>0
  <2>3. x = y
    BY <2>1, <2>2
  <2> QED
    BY <1>7, <2>0, <2>3
<1> QED
  BY <1>2, <1>3, <1>4, <1>5, <1>8

(* Digits are determined by the number they make. *)
LEMMA NumberInjective ==
  ASSUME NEW s \in Seq(Nat), NEW t \in Seq(Nat), NEW l \in Nat, Digits(s, l), Digits(t, l),
         Number(4, s) = Number(4, t)
  PROVE  s = t
<1> DEFINE S == {n \in Nat : n <= l /\ horner[n][4][s] = horner[n][4][t] =>
                               \A k \in 1 .. n : s[k] = t[k]}
<1>1. 0 \in S
  OBVIOUS
<1>2. ASSUME NEW n \in Nat, n \in S PROVE n + 1 \in S
  <2> SUFFICES ASSUME n + 1 <= l, horner[n + 1][4][s] = horner[n + 1][4][t]
               PROVE  \A k \in 1 .. n + 1 : s[k] = t[k]
    OBVIOUS
  <2>1. horner[n][4][s] = horner[n][4][t] /\ s[n + 1] = t[n + 1]
    BY DigitsStep DEF SameDigits
  <2>2. \A k \in 1 .. n : s[k] = t[k]
    BY <1>2, <2>1
  <2>3. \A k \in 1 .. n + 1 : k = n + 1 \/ k \in 1 .. n
    OBVIOUS
  <2> QED
    BY <2>1, <2>2, <2>3
<1>3. \A n \in Nat : n \in S
  <2> HIDE DEF S
  <2> QED
    BY <1>1, <1>2, Induction
<1>4. \A k \in 1 .. l : s[k] = t[k]
  <2>1. l \in S
    BY <1>3
  <2>2. horner[l][4][s] = horner[l][4][t]
    BY DEF Number, Digits
  <2> QED
    BY <2>1, <2>2
<1>5. Len(s) = l /\ Len(t) = l
  BY DEF Digits
<1> QED
  BY <1>4, <1>5, SameSeq

(* In base 1, one value more, or one value made larger.                    *)
LEMMA SumAppend ==
  ASSUME NEW s \in Seq(Nat), NEW x \in Nat
  PROVE  Number(1, Append(s, x)) = Number(1, s) + x
<1>a. Append(s, x) \in Seq(Nat)
  OBVIOUS
<1>1. PICK t \in Seq(Nat) : t = Append(s, x)
  BY <1>a
<1>2. PICK l \in Nat : l = Len(s)
  BY InSeq
<1>3. Len(t) = l + 1 /\ t[l + 1] = x /\ \A k \in 1 .. l : s[k] = t[k]
  BY <1>1, <1>2
<1>b. 1 \in Nat /\ l \in Nat /\ t \in Seq(Nat) /\ l < Len(t) /\ AgreeUpTo(s, t, l)
  BY <1>1, <1>2, <1>3 DEF AgreeUpTo
<1>4. horner[l][1][s] = horner[l][1][t]
  BY <1>b, HornerPrefix
<1>5. horner[l + 1][1][t] = (1 * horner[l][1][t]) + t[l + 1]
  BY <1>b, HornerNext
<1>6. PICK y \in Nat : y = horner[l][1][s]
  BY HornerNat
<1>7. horner[l + 1][1][t] = y + x
  <2>1. 1 * y = y
    BY <1>6
  <2> QED
    BY <1>3, <1>4, <1>5, <1>6, <2>1
<1>8. Number(1, t) = horner[l + 1][1][t] /\ Number(1, s) = y
  BY <1>2, <1>3, <1>6 DEF Number
<1> QED
  BY <1>1, <1>7, <1>8

Raised(s, t, l, m, d) ==
  /\ Len(s) = l /\ Len(t) = l /\ m \in 1 .. l
  /\ t[m] = s[m] + d
  /\ \A k \in 1 .. l : k # m => t[k] = s[k]

AheadBy(s, t, n, z) == horner[n][1][t] = horner[n][1][s] + z

LEMMA RaisedStep ==
  ASSUME NEW s \in Seq(Nat), NEW t \in Seq(Nat), NEW l \in Nat, NEW m \in Nat, NEW d \in Nat,
         Raised(s, t, l, m, d), NEW n \in Nat, n + 1 <= l,
         NEW z \in {0, d}, z = IF n < m THEN 0 ELSE d,
         AheadBy(s, t, n, z)
  PROVE  AheadBy(s, t, n + 1, IF n + 1 < m THEN 0 ELSE d)
<1>1. n < Len(s) /\ n < Len(t) /\ n + 1 \in 1 .. l /\ m \in 1 .. l
  BY DEF Raised
<1>2. PICK x \in Nat : x = horner[n][1][s]
  BY HornerNat
<1>3. PICK e \in Nat : e = s[n + 1]
  BY <1>1, InSeq
<1>4. PICK f \in Nat : f = t[n + 1]
  BY <1>1, InSeq
<1>5. horner[n + 1][1][s] = x + e
  <2>1. horner[n + 1][1][s] = (1 * horner[n][1][s]) + e
    BY <1>1, <1>3, HornerNext
  <2> QED
    BY <1>2, <1>3, <2>1
<1>6. horner[n + 1][1][t] = (x + z) + f
  <2>1. horner[n + 1][1][t] = (1 * horner[n][1][t]) + f
    BY <1>1, <1>4, HornerNext
  <2>2. PICK y \in Nat : y = horner[n][1][t]
    BY HornerNat
  <2>3. y = x + z
    BY <1>2, <2>2 DEF AheadBy
  <2>4. horner[n + 1][1][t] = y + f
    BY <2>1, <2>2
  <2> QED
    BY <2>3, <2>4
<1>7. CASE n + 1 = m
  <2>1. f = e + d /\ z = 0 /\ ~ (n + 1 < m)
    <3>1. f = e + d
      BY <1>3, <1>4, <1>7 DEF Raised
    <3>2. n < m /\ ~ (n + 1 < m)
      BY <1>7
    <3> QED
      BY <3>1, <3>2
  <2>2. (x + 0) + (e + d) = (x + e) + d
    OBVIOUS
  <2> QED
    BY <1>5, <1>6, <2>1, <2>2 DEF AheadBy
<1>8. CASE n + 1 # m
  <2>1. f = e
    BY <1>1, <1>3, <1>4, <1>8 DEF Raised
  <2>2. z = IF n + 1 < m THEN 0 ELSE d
    BY <1>8
  <2>3. (x + z) + e = (x + e) + z
    OBVIOUS
  <2> QED
    BY <1>5, <1>6, <2>1, <2>2, <2>3 DEF AheadBy
<1> QED
  BY <1>7, <1>8

LEMMA SumMore ==
  ASSUME NEW s \in Seq(Nat), NEW t \in Seq(Nat), NEW l \in Nat, NEW m \in Nat, NEW d \in Nat,
         Raised(s, t, l, m, d)
  PROVE  Number(1, t) = Number(1, s) + d
<1> DEFINE S == {n \in Nat : n <= l => horner[n][1][t] = horner[n][1][s] + (IF n < m THEN 0 ELSE d)}
<1>1. 0 \in S
  BY HornerZero DEF Raised
<1>2. ASSUME NEW n \in Nat, n \in S PROVE n + 1 \in S
  <2> SUFFICES ASSUME n + 1 <= l
               PROVE  horner[n + 1][1][t] = horner[n + 1][1][s] + (IF n + 1 < m THEN 0 ELSE d)
    OBVIOUS
  <2>1. horner[n][1][t] = horner[n][1][s] + (IF n < m THEN 0 ELSE d)
    BY <1>2
  <2>2. PICK z \in {0, d} : z = IF n < m THEN 0 ELSE d
    OBVIOUS
  <2>3. n + 1 <= l /\ AheadBy(s, t, n, z)
    BY <2>1, <2>2 DEF AheadBy
  <2> HIDE DEF S
  <2>4. AheadBy(s, t, n + 1, IF n + 1 < m THEN 0 ELSE d)
    BY <2>2, <2>3, RaisedStep
  <2> QED
    BY <2>4 DEF AheadBy
<1>3. \A n \in Nat : n \in S
  <2> HIDE DEF S
  <2> QED
    BY <1>1, <1>2, Induction
<1>4. horner[l][1][t] = horner[l][1][s] + d
  <2>1. l \in S /\ ~ (l < m)
    BY <1>3 DEF Raised
  <2> QED
    BY <2>1
<1> QED
  BY <1>4 DEF Number, Raised

-----------------------------------------------------------------------------
(* The histogram h of the results val[r] of the runs r of S: a row for     *)
(* each result, with the number of runs that had it; what lut has for a    *)
(* number is the row of the registers that make it; and the totals.        *)
RunsWith(S, val, v) == {r \in S : val[r] = v}
ResultsOf(S, val)   == {val[r] : r \in S}

Distinct(h) == \A n, m \in DOMAIN h.results : h.results[n].values = h.results[m].values => n = m

RowsRight(h, S, val) ==
  \A n \in DOMAIN h.results :
    /\ h.results[n].values \in ResultsOf(S, val)
    /\ h.results[n].counter = Cardinality(RunsWith(S, val, h.results[n].values))
    /\ h.results[n].is_relaxed <=> h.results[n].values \in Interesting

EachHasRow(h, S, val) == \A r \in S : \E n \in DOMAIN h.results : h.results[n].values = val[r]

LutRight(h) ==
  \A ix \in 0 .. limit - 1 :
    h.lut[ix] # NULL => /\ h.lut[ix] \in DOMAIN h.results
                        /\ ix_from_values(h.results[h.lut[ix]].values) = ix

TotalsRight(h, S, val) ==
  /\ Len(h.results) = Cardinality(ResultsOf(S, val))
  /\ marked(h) = Cardinality({r \in S : val[r] \in Interesting})
  /\ no_sc_results_seen(h) = Cardinality(ResultsOf(S, val) \ Interesting)

Exact(h, S, val) ==
  Distinct(h) /\ RowsRight(h, S, val) /\ EachHasRow(h, S, val) /\ LutRight(h) /\ TotalsRight(h, S, val)

(* What add_results is given: l registers, of which lut has an entry.      *)
Registers(v, l) == v \in Seq(Nat) /\ Len(v) = l /\ ix_from_values(v) < limit

Hist == [results : Seq(Row), lut : [0 .. limit - 1 -> Nat]]

LEMMA IxType ==
  ASSUME NEW v \in Seq(Nat)
  PROVE  ix_from_values(v) = -1 \/ ix_from_values(v) \in Nat
BY NumberNat DEF ix_from_values

LEMMA IxInjective ==
  ASSUME NEW l \in Nat, NEW v, NEW w, Registers(v, l), Registers(w, l),
         ix_from_values(v) = ix_from_values(w), ix_from_values(v) # -1
  PROVE  v = w
<1>1. v \in Seq(Nat) /\ w \in Seq(Nat) /\ Len(v) = l /\ Len(w) = l
  BY DEF Registers
<1>2. Number(4, v) \in Nat /\ Number(4, w) \in Nat
  BY <1>1, NumberNat
<1>3. \A reg \in DOMAIN v : ~ (v[reg] >= 4)
  BY DEF ix_from_values
<1>4. \A reg \in DOMAIN w : ~ (w[reg] >= 4)
  BY DEF ix_from_values
<1>5. Number(4, v) = Number(4, w)
  BY <1>3, <1>4 DEF ix_from_values
<1>6. Digits(v, l)
  <2>1. \A k \in 1 .. l : v[k] \in Nat /\ ~ (v[k] >= 4)
    BY <1>1, <1>3, InSeq
  <2> QED
    BY <1>1, <2>1, BelowFour DEF Digits
<1>7. Digits(w, l)
  <2>1. \A k \in 1 .. l : w[k] \in Nat /\ ~ (w[k] >= 4)
    BY <1>1, <1>4, InSeq
  <2> QED
    BY <1>1, <2>1, BelowFour DEF Digits
<1> QED
  BY <1>1, <1>5, <1>6, <1>7, NumberInjective

(* Whether by lut or by the walk: the row of these registers.              *)
IsRowOf(n, h, v) ==
  \/ n \in DOMAIN h.results /\ h.results[n].values = v
  \/ n = NULL /\ \A m \in DOMAIN h.results : h.results[m].values # v

LEMMA RowOfFinds ==
  ASSUME NEW l \in Nat, NEW h \in Hist, NEW S, NEW val, \A r \in S : Registers(val[r], l),
         RowsRight(h, S, val), LutRight(h), NEW v, Registers(v, l)
  PROVE  IsRowOf(RowOf(h, v), h, v)
<1>1. PICK ix : ix = ix_from_values(v)
  OBVIOUS
<1>2. ix = -1 \/ ix \in 0 .. limit - 1
  <2>1. v \in Seq(Nat) /\ ix_from_values(v) < limit
    BY DEF Registers
  <2> QED
    BY <1>1, <2>1, IxType, LimitAssumption
<1>3. CASE ix # -1 /\ h.lut[ix] # NULL
  <2>1. RowOf(h, v) = h.lut[ix]
    BY <1>1, <1>3 DEF RowOf
  <2>2. PICK n \in DOMAIN h.results : n = h.lut[ix]
    BY <1>2, <1>3 DEF LutRight
  <2>3. ix_from_values(h.results[n].values) = ix
    BY <1>2, <1>3, <2>2 DEF LutRight
  <2>4. Registers(h.results[n].values, l)
    BY DEF RowsRight, ResultsOf
  <2>5. h.results[n].values = v
    BY <1>1, <1>3, <2>3, <2>4, IxInjective
  <2> QED
    BY <2>1, <2>2, <2>5 DEF IsRowOf
<1>4. CASE ~ (ix # -1 /\ h.lut[ix] # NULL)
  <2>1. RowOf(h, v) = IF matches(h, v) # {} THEN CHOOSE n \in matches(h, v) : TRUE ELSE NULL
    BY <1>1, <1>4 DEF RowOf
  <2>2. CASE matches(h, v) # {}
    <3>1. RowOf(h, v) \in matches(h, v)
      BY <2>1, <2>2
    <3> QED
      BY <3>1 DEF matches, IsRowOf
  <2>3. CASE matches(h, v) = {}
    BY <2>1, <2>3 DEF matches, IsRowOf
  <2> QED
    BY <2>2, <2>3
<1> QED
  BY <1>3, <1>4

LEMMA ResultsFinite ==
  ASSUME NEW S, IsFiniteSet(S), NEW val
  PROVE  IsFiniteSet(ResultsOf(S, val))
<1> DEFINE f == [q \in S |-> val[q]]
<1>1. f \in Surjection(S, ResultsOf(S, val))
  BY DEF Surjection, ResultsOf
<1> HIDE DEF f
<1> QED
  BY <1>1, FS_Surjection

(* One run more. *)
LEMMA OneMoreCounted ==
  ASSUME NEW S, IsFiniteSet(S), NEW r, r \notin S, NEW val, NEW v, v = val[r]
  PROVE  Cardinality(RunsWith(S \cup {r}, val, v)) = Cardinality(RunsWith(S, val, v)) + 1
<1>1. RunsWith(S, val, v) \subseteq S
  BY DEF RunsWith
<1>2. IsFiniteSet(RunsWith(S, val, v))
  BY <1>1, FS_Subset
<1>3. RunsWith(S \cup {r}, val, v) = RunsWith(S, val, v) \cup {r}
  BY DEF RunsWith
<1>4. r \notin RunsWith(S, val, v)
  BY DEF RunsWith
<1> QED
  BY <1>2, <1>3, <1>4, FS_AddElement

LEMMA OneMore ==
  ASSUME NEW S, IsFiniteSet(S), NEW r, r \notin S, NEW val
  PROVE  /\ \A v : IsFiniteSet(RunsWith(S, val, v))
         /\ \A v : v # val[r] => RunsWith(S \cup {r}, val, v) = RunsWith(S, val, v)
         /\ Cardinality(RunsWith(S \cup {r}, val, val[r])) = Cardinality(RunsWith(S, val, val[r])) + 1
         /\ ResultsOf(S \cup {r}, val) = ResultsOf(S, val) \cup {val[r]}
         /\ IsFiniteSet(ResultsOf(S, val))
<1>1. \A v : IsFiniteSet(RunsWith(S, val, v))
  <2> TAKE v
  <2>1. RunsWith(S, val, v) \subseteq S
    BY DEF RunsWith
  <2> QED
    BY <2>1, FS_Subset
<1>2. \A v : v # val[r] => RunsWith(S \cup {r}, val, v) = RunsWith(S, val, v)
  BY DEF RunsWith
<1>3. Cardinality(RunsWith(S \cup {r}, val, val[r])) = Cardinality(RunsWith(S, val, val[r])) + 1
  BY OneMoreCounted
<1>4. ResultsOf(S \cup {r}, val) = ResultsOf(S, val) \cup {val[r]}
  BY DEF ResultsOf
<1>5. IsFiniteSet(ResultsOf(S, val))
  BY ResultsFinite
<1> QED
  BY <1>1, <1>2, <1>3, <1>4, <1>5

LEMMA OneMoreInteresting ==
  ASSUME NEW S, IsFiniteSet(S), NEW r, r \notin S, NEW val
  PROVE  Cardinality({q \in S \cup {r} : val[q] \in Interesting}) =
           Cardinality({q \in S : val[q] \in Interesting}) + (IF val[r] \in Interesting THEN 1 ELSE 0)
<1> DEFINE A == {q \in S : val[q] \in Interesting}
<1>1. IsFiniteSet(A) /\ r \notin A
  <2>1. A \subseteq S
    OBVIOUS
  <2> QED
    BY <2>1, FS_Subset
<1>2. Cardinality(A) \in Nat
  BY <1>1, FS_CardinalityType
<1>3. CASE val[r] \in Interesting
  <2>1. {q \in S \cup {r} : val[q] \in Interesting} = A \cup {r}
    BY <1>3
  <2> HIDE DEF A
  <2>2. Cardinality(A \cup {r}) = Cardinality(A) + 1
    BY <1>1, FS_AddElement
  <2> QED
    BY <1>3, <2>1, <2>2 DEF A
<1>4. CASE val[r] \notin Interesting
  <2>1. {q \in S \cup {r} : val[q] \in Interesting} = A
    BY <1>4
  <2> HIDE DEF A
  <2>2. Cardinality(A) + 0 = Cardinality(A)
    BY <1>2
  <2> QED
    BY <1>4, <2>1, <2>2 DEF A
<1> QED
  BY <1>3, <1>4

LEMMA OneMoreOther ==
  ASSUME NEW R0, IsFiniteSet(R0), NEW v, v \notin R0
  PROVE  /\ Cardinality(R0 \cup {v}) = Cardinality(R0) + 1
         /\ Cardinality((R0 \cup {v}) \ Interesting) =
              Cardinality(R0 \ Interesting) + (IF v \in Interesting THEN 0 ELSE 1)
<1>1. Cardinality(R0 \cup {v}) = Cardinality(R0) + 1
  BY FS_AddElement
<1>2. PICK A : A = R0 \ Interesting
  OBVIOUS
<1>3. IsFiniteSet(A) /\ v \notin A /\ Cardinality(A) \in Nat
  <2>1. A \in SUBSET R0
    BY <1>2
  <2>2. IsFiniteSet(A)
    BY <2>1, FS_Subset
  <2> QED
    BY <1>2, <2>2, FS_CardinalityType
<1>4. CASE v \in Interesting
  <2>1. (R0 \cup {v}) \ Interesting = A
    BY <1>2, <1>4
  <2>2. Cardinality(A) + 0 = Cardinality(A)
    BY <1>3
  <2> QED
    BY <1>1, <1>2, <1>4, <2>1, <2>2
<1>5. CASE v \notin Interesting
  <2>1. (R0 \cup {v}) \ Interesting = A \cup {v}
    BY <1>2, <1>5
  <2>2. Cardinality(A \cup {v}) = Cardinality(A) + 1
    BY <1>3, FS_AddElement
  <2> QED
    BY <1>1, <1>2, <1>5, <2>1, <2>2
<1> QED
  BY <1>4, <1>5

(* The counters that marked adds up. *)
Marks(h) == [n \in DOMAIN h.results |-> IF h.results[n].is_relaxed THEN h.results[n].counter ELSE 0]

LEMMA MarksType ==
  ASSUME NEW h \in Hist
  PROVE  Marks(h) \in Seq(Nat) /\ Len(Marks(h)) = Len(h.results)
<1>1. h.results \in Seq(Row)
  BY DEF Hist
<1>2. PICK l \in Nat : l = Len(h.results)
  BY <1>1, InSeq
<1>3. DOMAIN h.results = 1 .. l /\ \A n \in 1 .. l : h.results[n] \in Row
  BY <1>1, <1>2, InSeq
<1>4. \A n \in 1 .. l : (IF h.results[n].is_relaxed THEN h.results[n].counter ELSE 0) \in Nat
  BY <1>3 DEF Row
<1>5. Marks(h) \in [1 .. l -> Nat]
  BY <1>3, <1>4 DEF Marks
<1> QED
  BY <1>2, <1>5

LEMMA MarkedIs == ASSUME NEW h PROVE marked(h) = Number(1, Marks(h))
BY DEF marked, Marks

(* Rows that are not relaxed. *)
Others(h) == {n \in DOMAIN h.results : ~ h.results[n].is_relaxed}

LEMMA OthersFinite ==
  ASSUME NEW h \in Hist
  PROVE  IsFiniteSet(Others(h)) /\ Cardinality(Others(h)) \in Nat
<1>1. h.results \in Seq(Row)
  BY DEF Hist
<1>2. PICK l \in Nat : l = Len(h.results)
  BY <1>1, InSeq
<1>3. DOMAIN h.results = 1 .. l
  BY <1>1, <1>2, InSeq
<1>4. IsFiniteSet(1 .. l)
  BY FS_Interval
<1>5. Others(h) \in SUBSET (1 .. l)
  BY <1>3 DEF Others
<1>6. IsFiniteSet(Others(h))
  BY <1>4, <1>5, FS_Subset
<1> QED
  BY <1>6, FS_CardinalityType

(* g is h with a new row for v, *)
NewRow(g, h, v) ==
  LET k == Len(h.results) + 1 IN
  /\ Len(g.results) = k /\ DOMAIN h.results = 1 .. k - 1 /\ DOMAIN g.results = 1 .. k
  /\ \A n \in 1 .. k - 1 : g.results[n] = h.results[n]
  /\ g.results[k].values = v /\ g.results[k].counter = 1
  /\ g.results[k].is_relaxed <=> v \in Interesting
  /\ Marks(g) = Append(Marks(h), IF v \in Interesting THEN 1 ELSE 0)
  /\ \A ix \in 0 .. limit - 1 :
       \/ g.lut[ix] = h.lut[ix]
       \/ ix_from_values(v) = ix /\ g.lut[ix] = k

(* or with one more in the row m. *)
MoreInRow(g, h, m) ==
  /\ DOMAIN g.results = DOMAIN h.results /\ Len(g.results) = Len(h.results)
  /\ g.results[m].counter = h.results[m].counter + 1
  /\ \A n \in DOMAIN h.results :
       /\ g.results[n].values = h.results[n].values
       /\ g.results[n].is_relaxed <=> h.results[n].is_relaxed
       /\ n # m => g.results[n].counter = h.results[n].counter
  /\ g.lut = h.lut

LEMMA AddsRow ==
  ASSUME NEW h \in Hist, NEW v \in Seq(Nat), ix_from_values(v) < limit, RowOf(h, v) = NULL,
         NEW g \in Hist, g = add_results(h, v)
  PROVE  NewRow(g, h, v)
<1> DEFINE new == [values |-> v, counter |-> 1, is_relaxed |-> matches_interesting(v)]
<1>1. /\ g.results = Append(h.results, new)
      /\ g.lut = IF ix_from_values(v) = -1 THEN h.lut
                 ELSE [h.lut EXCEPT ![ix_from_values(v)] = Len(h.results) + 1]
  BY DEF add_results, Insert
<1>2. new.values = v /\ new.counter = 1 /\ (new.is_relaxed <=> v \in Interesting)
  BY DEF matches_interesting
<1> HIDE DEF new
<1>3. h.results \in Seq(Row) /\ h.lut \in [0 .. limit - 1 -> Nat]
  BY DEF Hist
<1>4. PICK l \in Nat : l = Len(h.results)
  BY <1>3, InSeq
<1>5. /\ Len(g.results) = l + 1 /\ DOMAIN h.results = 1 .. l /\ DOMAIN g.results = 1 .. l + 1
      /\ \A n \in 1 .. l : g.results[n] = h.results[n]
      /\ g.results[l + 1] = new
  BY <1>1, <1>3, <1>4
<1>6. \A ix \in 0 .. limit - 1 :
        g.lut[ix] = h.lut[ix] \/ (ix_from_values(v) = ix /\ g.lut[ix] = l + 1)
  <2> TAKE ix \in 0 .. limit - 1
  <2>1. CASE ix_from_values(v) = -1
    BY <1>1, <2>1
  <2>2. CASE ix_from_values(v) # -1
    BY <1>1, <1>3, <1>4, <2>2
  <2> QED
    BY <2>1, <2>2
<1>7. Marks(g) = Append(Marks(h), IF v \in Interesting THEN 1 ELSE 0)
  <2>1. Marks(h) \in Seq(Nat) /\ Marks(g) \in Seq(Nat) /\ Len(Marks(h)) = l /\ Len(Marks(g)) = l + 1
    BY <1>4, <1>5, MarksType
  <2>2. PICK e \in Nat : e = IF v \in Interesting THEN 1 ELSE 0
    OBVIOUS
  <2>3. \A n \in 1 .. l : Marks(g)[n] = Marks(h)[n]
    BY <1>5 DEF Marks
  <2>4. Marks(g)[l + 1] = e
    <3>1. l + 1 \in DOMAIN g.results
      BY <1>5
    <3>2. Marks(g)[l + 1] = IF g.results[l + 1].is_relaxed THEN g.results[l + 1].counter ELSE 0
      BY <3>1 DEF Marks
    <3> QED
      BY <1>2, <1>5, <2>2, <3>2
  <2>5. PICK s \in Seq(Nat) : s = Marks(h)
    BY <2>1
  <2>6. PICK t \in Seq(Nat) : t = Marks(g)
    BY <2>1
  <2>7. Append(s, e) \in Seq(Nat) /\ Len(Append(s, e)) = l + 1 /\ Append(s, e)[l + 1] = e
        /\ \A n \in 1 .. l : Append(s, e)[n] = s[n]
    BY <2>1, <2>2, <2>5
  <2>8. PICK u \in Seq(Nat) : u = Append(s, e)
    BY <2>7
  <2>9. \A n \in 1 .. l + 1 : t[n] = u[n]
    <3> TAKE n \in 1 .. l + 1
    <3>1. n = l + 1 \/ n \in 1 .. l
      BY <1>4, UpToLast
    <3> QED
      BY <2>3, <2>4, <2>5, <2>6, <2>7, <2>8, <3>1
  <2>10. l + 1 \in Nat /\ Len(t) = l + 1 /\ Len(u) = l + 1
    BY <1>4, <2>1, <2>6, <2>7, <2>8
  <2>11. t = u
    BY <2>6, <2>8, <2>9, <2>10, SameSeq
  <2> QED
    BY <2>2, <2>5, <2>6, <2>8, <2>11
<1>8. (l + 1) - 1 = l
  BY <1>4
<1> QED
  BY <1>2, <1>4, <1>5, <1>6, <1>7, <1>8 DEF NewRow

LEMMA AddsToRow ==
  ASSUME NEW h \in Hist, NEW v \in Seq(Nat), NEW m \in DOMAIN h.results, RowOf(h, v) = m, m # NULL,
         NEW g \in Hist, g = add_results(h, v)
  PROVE  MoreInRow(g, h, m)
<1>1. g.results = [h.results EXCEPT ![m].counter = @ + 1] /\ g.lut = h.lut
  BY DEF add_results, Hist
<1>2. h.results \in Seq(Row)
  BY DEF Hist
<1>3. PICK l \in Nat : l = Len(h.results)
  BY <1>2, InSeq
<1>4. DOMAIN h.results = 1 .. l /\ \A n \in 1 .. l : h.results[n] \in Row
  BY <1>2, <1>3, InSeq
<1>5. DOMAIN g.results = 1 .. l /\ Len(g.results) = l
  <2>1. DOMAIN g.results = 1 .. l
    BY <1>1, <1>4
  <2>2. g.results \in Seq(Row)
    BY DEF Hist
  <2>3. PICK k \in Nat : k = Len(g.results) /\ DOMAIN g.results = 1 .. k
    BY <2>2, InSeq
  <2>4. k = l
    BY <2>1, <2>3
  <2> QED
    BY <2>1, <2>3, <2>4
<1>6. \A n \in 1 .. l : n # m => g.results[n] = h.results[n]
  BY <1>1, <1>4
<1>7. g.results[m] = [h.results[m] EXCEPT !.counter = @ + 1] /\ h.results[m] \in Row
  BY <1>1, <1>4
<1>8. /\ g.results[m].values = h.results[m].values
      /\ g.results[m].is_relaxed = h.results[m].is_relaxed
      /\ g.results[m].counter = h.results[m].counter + 1
  BY <1>7 DEF Row
<1> QED
  BY <1>1, <1>3, <1>4, <1>5, <1>6, <1>8 DEF MoreInRow

(* v has no row yet, and the run r of it is added. *)
LEMMA ExactNewRow ==
  ASSUME NEW h \in Hist, NEW g \in Hist, NEW S, IsFiniteSet(S), NEW r, r \notin S, NEW val,
         Exact(h, S, val), NEW v, v = val[r],
         \A m \in DOMAIN h.results : h.results[m].values # v,
         NewRow(g, h, v)
  PROVE  Exact(g, S \cup {r}, val)
<1>0. PICK l : l = Len(h.results)
  OBVIOUS
<1>1. l \in Nat /\ h.results \in Seq(Row)
  BY <1>0, InSeq DEF Hist
<1>2. /\ Len(g.results) = l + 1 /\ DOMAIN h.results = 1 .. l /\ DOMAIN g.results = 1 .. l + 1
      /\ \A n \in 1 .. l : g.results[n] = h.results[n]
      /\ g.results[l + 1].values = v /\ g.results[l + 1].counter = 1
      /\ g.results[l + 1].is_relaxed <=> v \in Interesting
      /\ Marks(g) = Append(Marks(h), IF v \in Interesting THEN 1 ELSE 0)
      /\ \A ix \in 0 .. limit - 1 :
           g.lut[ix] = h.lut[ix] \/ (ix_from_values(v) = ix /\ g.lut[ix] = l + 1)
  <2>1. (l + 1) - 1 = l
    BY <1>1
  <2> QED
    BY <1>0, <2>1 DEF NewRow
<1>3. Distinct(h) /\ RowsRight(h, S, val) /\ EachHasRow(h, S, val) /\ LutRight(h) /\ TotalsRight(h, S, val)
  BY DEF Exact
<1>4. PICK T : T = S \cup {r}
  OBVIOUS
<1>5. \A n \in 1 .. l + 1 : n = l + 1 \/ n \in 1 .. l
  BY <1>1, UpToLast
<1>6. \A n \in 1 .. l : h.results[n].values # v
  BY <1>2
<1>7. v \notin ResultsOf(S, val) /\ RunsWith(S, val, v) = {}
  BY <1>2, <1>3, <1>6 DEF EachHasRow, ResultsOf, RunsWith
<1>8. /\ \A x : x # v => RunsWith(T, val, x) = RunsWith(S, val, x)
      /\ Cardinality(RunsWith(T, val, v)) = 1
      /\ ResultsOf(T, val) = ResultsOf(S, val) \cup {v} /\ IsFiniteSet(ResultsOf(S, val))
  <2>1. Cardinality(RunsWith(S, val, v)) = 0
    BY <1>7, FS_EmptySet
  <2> QED
    BY <1>4, <2>1, OneMore
<1>9. Distinct(g)
  <2> SUFFICES ASSUME NEW n \in 1 .. l + 1, NEW m \in 1 .. l + 1,
                      g.results[n].values = g.results[m].values
               PROVE  n = m
    BY <1>2 DEF Distinct
  <2>1. CASE n = l + 1
    BY <1>2, <1>5, <1>6, <2>1
  <2>2. CASE n \in 1 .. l /\ m = l + 1
    BY <1>2, <1>6, <2>2
  <2>3. CASE n \in 1 .. l /\ m \in 1 .. l
    BY <1>2, <1>3, <2>3 DEF Distinct
  <2> QED
    BY <1>5, <2>1, <2>2, <2>3
<1>10. RowsRight(g, T, val)
  <2> SUFFICES ASSUME NEW n \in 1 .. l + 1
               PROVE  /\ g.results[n].values \in ResultsOf(T, val)
                      /\ g.results[n].counter = Cardinality(RunsWith(T, val, g.results[n].values))
                      /\ g.results[n].is_relaxed <=> g.results[n].values \in Interesting
    BY <1>2 DEF RowsRight
  <2>1. CASE n = l + 1
    BY <1>2, <1>8, <2>1
  <2>2. CASE n \in 1 .. l
    <3>1. g.results[n] = h.results[n] /\ h.results[n].values # v /\ n \in DOMAIN h.results
      BY <1>2, <1>6, <2>2
    <3>2. RunsWith(T, val, h.results[n].values) = RunsWith(S, val, h.results[n].values)
      BY <1>8, <3>1
    <3> QED
      BY <1>3, <1>8, <3>1, <3>2 DEF RowsRight
  <2> QED
    BY <1>5, <2>1, <2>2
<1>11. EachHasRow(g, T, val)
  <2> SUFFICES ASSUME NEW q \in S \cup {r}
               PROVE  \E n \in 1 .. l + 1 : g.results[n].values = val[q]
    BY <1>2, <1>4 DEF EachHasRow
  <2>0. l + 1 \in 1 .. l + 1 /\ \A n \in 1 .. l : n \in 1 .. l + 1
    BY <1>1
  <2>1. CASE q = r
    BY <1>2, <2>0, <2>1
  <2>2. CASE q \in S
    <3>1. PICK n \in 1 .. l : h.results[n].values = val[q]
      BY <1>2, <1>3, <2>2 DEF EachHasRow
    <3> QED
      BY <1>2, <2>0, <3>1
  <2> QED
    BY <2>1, <2>2
<1>12. LutRight(g)
  <2> SUFFICES ASSUME NEW ix \in 0 .. limit - 1, g.lut[ix] # NULL
               PROVE  g.lut[ix] \in 1 .. l + 1 /\ ix_from_values(g.results[g.lut[ix]].values) = ix
    BY <1>2 DEF LutRight
  <2>0. l + 1 \in 1 .. l + 1 /\ \A n \in 1 .. l : n \in 1 .. l + 1
    BY <1>1
  <2>1. CASE g.lut[ix] = h.lut[ix]
    <3>1. h.lut[ix] \in 1 .. l /\ ix_from_values(h.results[h.lut[ix]].values) = ix
      BY <1>2, <1>3, <2>1 DEF LutRight
    <3> QED
      BY <1>2, <2>0, <2>1, <3>1
  <2>2. CASE ix_from_values(v) = ix /\ g.lut[ix] = l + 1
    BY <1>2, <2>0, <2>2
  <2> QED
    BY <1>2, <2>1, <2>2
<1>13. Len(g.results) = Cardinality(ResultsOf(T, val))
  <2>1. l = Cardinality(ResultsOf(S, val))
    BY <1>0, <1>3 DEF TotalsRight
  <2> QED
    BY <1>2, <1>7, <1>8, <2>1, OneMoreOther
<1>14. marked(g) = Cardinality({q \in T : val[q] \in Interesting})
  <2>1. PICK e \in Nat : e = IF v \in Interesting THEN 1 ELSE 0
    OBVIOUS
  <2>2. Number(1, Marks(g)) = Number(1, Marks(h)) + e
    BY <1>2, <2>1, MarksType, SumAppend
  <2>3. Number(1, Marks(h)) = Cardinality({q \in S : val[q] \in Interesting})
    BY <1>3, MarkedIs DEF TotalsRight
  <2>4. Cardinality({q \in T : val[q] \in Interesting}) =
          Cardinality({q \in S : val[q] \in Interesting}) + e
    BY <1>4, <2>1, OneMoreInteresting
  <2> QED
    BY <2>2, <2>3, <2>4, MarkedIs
<1>15. no_sc_results_seen(g) = Cardinality(ResultsOf(T, val) \ Interesting)
  <2>1. PICK e \in Nat : e = IF v \in Interesting THEN 0 ELSE 1
    OBVIOUS
  <2>2. Cardinality(ResultsOf(T, val) \ Interesting) = Cardinality(ResultsOf(S, val) \ Interesting) + e
    <3>1. PICK R0 : R0 = ResultsOf(S, val)
      OBVIOUS
    <3>2. IsFiniteSet(R0) /\ v \notin R0 /\ ResultsOf(T, val) = R0 \cup {v}
      BY <1>7, <1>8, <3>1
    <3>3. Cardinality((R0 \cup {v}) \ Interesting) =
            Cardinality(R0 \ Interesting) + (IF v \in Interesting THEN 0 ELSE 1)
      BY <3>2, OneMoreOther
    <3> QED
      BY <2>1, <3>1, <3>2, <3>3
  <2>3. Cardinality(Others(h)) = Cardinality(ResultsOf(S, val) \ Interesting)
    BY <1>3 DEF TotalsRight, no_sc_results_seen, Others
  <2>a. l + 1 \in 1 .. l + 1 /\ \A n \in 1 .. l : n \in 1 .. l + 1 /\ n # l + 1
    BY <1>1
  <2>b. IsFiniteSet(Others(h)) /\ Cardinality(Others(h)) \in Nat
    BY OthersFinite
  <2>4. Cardinality(Others(g)) = Cardinality(Others(h)) + e
    <3>1. CASE v \in Interesting
      <4>1. Others(g) = Others(h)
        BY <1>2, <1>5, <2>a, <3>1 DEF Others
      <4> QED
        BY <2>1, <2>b, <3>1, <4>1
    <3>2. CASE v \notin Interesting
      <4>1. Others(g) = Others(h) \cup {l + 1}
        BY <1>2, <1>5, <2>a, <3>2 DEF Others
      <4>2. l + 1 \notin Others(h)
        BY <1>2, <2>a DEF Others
      <4> QED
        BY <2>1, <2>b, <3>2, <4>1, <4>2, FS_AddElement
    <3> QED
      BY <3>1, <3>2
  <2> QED
    BY <2>2, <2>3, <2>4 DEF no_sc_results_seen, Others
<1> QED
  BY <1>4, <1>9, <1>10, <1>11, <1>12, <1>13, <1>14, <1>15 DEF Exact, TotalsRight

(* v has the row m. *)
LEMMA ExactMoreInRow ==
  ASSUME NEW h \in Hist, NEW g \in Hist, NEW S, IsFiniteSet(S), NEW r, r \notin S, NEW val,
         Exact(h, S, val), NEW v, v = val[r], NEW m \in DOMAIN h.results, h.results[m].values = v,
         MoreInRow(g, h, m)
  PROVE  Exact(g, S \cup {r}, val)
<1>3. Distinct(h) /\ RowsRight(h, S, val) /\ EachHasRow(h, S, val) /\ LutRight(h) /\ TotalsRight(h, S, val)
  BY DEF Exact
<1>4. PICK T : T = S \cup {r}
  OBVIOUS
<1>5. v \in ResultsOf(S, val)
  BY <1>3 DEF RowsRight
<1>6. /\ \A x : x # v => RunsWith(T, val, x) = RunsWith(S, val, x)
      /\ Cardinality(RunsWith(T, val, v)) = Cardinality(RunsWith(S, val, v)) + 1
      /\ ResultsOf(T, val) = ResultsOf(S, val)
  <2>1. \A x : x # v => RunsWith(T, val, x) = RunsWith(S, val, x)
    BY <1>4, OneMore
  <2>2. Cardinality(RunsWith(T, val, v)) = Cardinality(RunsWith(S, val, v)) + 1
    <3>1. Cardinality(RunsWith(S \cup {r}, val, v)) = Cardinality(RunsWith(S, val, v)) + 1
      BY OneMoreCounted
    <3> QED
      BY <1>4, <3>1
  <2>3. ResultsOf(T, val) = ResultsOf(S, val) \cup {v}
    <3>1. ResultsOf(S \cup {r}, val) = ResultsOf(S, val) \cup {val[r]}
      BY OneMore
    <3> QED
      BY <1>4, <3>1
  <2>4. ResultsOf(T, val) = ResultsOf(S, val)
    BY <1>5, <2>3
  <2> QED
    BY <2>1, <2>2, <2>4
<1>7. Distinct(g)
  BY <1>3 DEF Distinct, MoreInRow
<1>8. RowsRight(g, T, val)
  <2> SUFFICES ASSUME NEW n \in DOMAIN h.results
               PROVE  /\ g.results[n].values \in ResultsOf(T, val)
                      /\ g.results[n].counter = Cardinality(RunsWith(T, val, g.results[n].values))
                      /\ g.results[n].is_relaxed <=> g.results[n].values \in Interesting
    BY DEF RowsRight, MoreInRow
  <2>0. /\ g.results[n].values = h.results[n].values
        /\ g.results[n].is_relaxed <=> h.results[n].is_relaxed
    BY DEF MoreInRow
  <2>1. /\ h.results[n].values \in ResultsOf(S, val)
        /\ h.results[n].counter = Cardinality(RunsWith(S, val, h.results[n].values))
        /\ h.results[n].is_relaxed <=> h.results[n].values \in Interesting
    BY <1>3 DEF RowsRight
  <2>2. CASE n = m
    <3>1. g.results[n].counter = h.results[n].counter + 1
      BY <2>2 DEF MoreInRow
    <3> QED
      BY <1>6, <2>0, <2>1, <2>2, <3>1
  <2>3. CASE n # m
    <3>1. g.results[n].counter = h.results[n].counter
      BY <2>3 DEF MoreInRow
    <3>2. h.results[n].values # v
      BY <1>3, <2>3 DEF Distinct
    <3> QED
      BY <1>6, <2>0, <2>1, <3>1, <3>2
  <2> QED
    BY <2>2, <2>3
<1>9. EachHasRow(g, T, val)
  <2> SUFFICES ASSUME NEW q \in S \cup {r}
               PROVE  \E n \in DOMAIN h.results : h.results[n].values = val[q]
    BY <1>4 DEF EachHasRow, MoreInRow
  <2> QED
    BY <1>3 DEF EachHasRow
<1>10. LutRight(g)
  <2> SUFFICES ASSUME NEW ix \in 0 .. limit - 1, h.lut[ix] # NULL
               PROVE  /\ h.lut[ix] \in DOMAIN g.results
                      /\ ix_from_values(g.results[h.lut[ix]].values) = ix
    BY DEF LutRight, MoreInRow
  <2>1. h.lut[ix] \in DOMAIN h.results /\ ix_from_values(h.results[h.lut[ix]].values) = ix
    BY <1>3 DEF LutRight
  <2> QED
    BY <2>1 DEF MoreInRow
<1>11. Len(g.results) = Cardinality(ResultsOf(T, val))
  BY <1>3, <1>6 DEF TotalsRight, MoreInRow
<1>12. marked(g) = Cardinality({q \in T : val[q] \in Interesting})
  <2>1. PICK e \in Nat : e = IF v \in Interesting THEN 1 ELSE 0
    OBVIOUS
  <2>2. PICK l \in Nat : l = Len(h.results) /\ DOMAIN h.results = 1 .. l
    BY InSeq DEF Hist
  <2>3. PICK s \in Seq(Nat) : s = Marks(h)
    BY MarksType
  <2>4. PICK t \in Seq(Nat) : t = Marks(g)
    BY MarksType
  <2>5. Len(s) = l /\ Len(t) = l
    BY <2>2, <2>3, <2>4, MarksType DEF MoreInRow
  <2>6. \A k \in 1 .. l : k # m => t[k] = s[k]
    BY <2>2, <2>3, <2>4 DEF Marks, MoreInRow
  <2>7. t[m] = s[m] + e
    <3>1. s[m] = IF h.results[m].is_relaxed THEN h.results[m].counter ELSE 0
      BY <2>3 DEF Marks
    <3>2. t[m] = IF g.results[m].is_relaxed THEN g.results[m].counter ELSE 0
      BY <2>4 DEF Marks, MoreInRow
    <3>3. g.results[m].is_relaxed <=> h.results[m].is_relaxed
      BY DEF MoreInRow
    <3>4. h.results[m].is_relaxed <=> v \in Interesting
      BY <1>3 DEF RowsRight
    <3>5. g.results[m].counter = h.results[m].counter + 1
      BY DEF MoreInRow
    <3> QED
      BY <2>1, <3>1, <3>2, <3>3, <3>4, <3>5
  <2>8. Raised(s, t, l, m, e)
    BY <2>2, <2>5, <2>6, <2>7 DEF Raised
  <2>9. Number(1, t) = Number(1, s) + e
    BY <2>1, <2>2, <2>3, <2>4, <2>8, SumMore
  <2>10. Number(1, s) = Cardinality({q \in S : val[q] \in Interesting})
    BY <1>3, <2>3, MarkedIs DEF TotalsRight
  <2>11. Cardinality({q \in T : val[q] \in Interesting}) =
           Cardinality({q \in S : val[q] \in Interesting}) + e
    BY <1>4, <2>1, OneMoreInteresting
  <2> QED
    BY <2>4, <2>9, <2>10, <2>11, MarkedIs
<1>13. no_sc_results_seen(g) = Cardinality(ResultsOf(T, val) \ Interesting)
  <2>1. Others(g) = Others(h)
    BY DEF Others, MoreInRow
  <2> QED
    BY <1>3, <1>6, <2>1 DEF TotalsRight, no_sc_results_seen, Others
<1> QED
  BY <1>4, <1>7, <1>8, <1>9, <1>10, <1>11, <1>12, <1>13 DEF Exact, TotalsRight

(* add_results: whatever it was, the histogram counts one run more.        *)
LEMMA AddResultsExact ==
  ASSUME NEW l \in Nat, NEW h \in Hist, h.lut \in [0 .. limit - 1 -> 0 .. Len(h.results)],
         NEW S, IsFiniteSet(S), NEW r, r \notin S, NEW val, \A q \in S \cup {r} : Registers(val[q], l),
         Exact(h, S, val)
  PROVE  Exact(add_results(h, val[r]), S \cup {r}, val)
<1>1. PICK v : v = val[r]
  OBVIOUS
<1>2. Registers(v, l) /\ v \in Seq(Nat) /\ ix_from_values(v) < limit
  BY <1>1 DEF Registers
<1>3. PICK g \in Hist : g = add_results(h, v)
  BY <1>2, AddResultsType DEF Hist
<1>4. IsRowOf(RowOf(h, v), h, v)
  BY <1>2, RowOfFinds DEF Exact
<1>5. CASE RowOf(h, v) = NULL
  <2>1. NewRow(g, h, v)
    BY <1>2, <1>3, <1>5, AddsRow
  <2>2. \A m \in DOMAIN h.results : h.results[m].values # v
    <3>1. NULL \notin DOMAIN h.results
      BY DEF Hist, NULL
    <3> QED
      BY <1>4, <1>5, <3>1 DEF IsRowOf
  <2>3. Exact(g, S \cup {r}, val)
    BY <1>1, <2>1, <2>2, ExactNewRow
  <2> QED
    BY <1>1, <1>3, <2>3
<1>6. CASE RowOf(h, v) # NULL
  <2>1. PICK m \in DOMAIN h.results : m = RowOf(h, v) /\ h.results[m].values = v
    BY <1>4, <1>6 DEF IsRowOf
  <2>2. MoreInRow(g, h, m)
    BY <1>2, <1>3, <1>6, <2>1, AddsToRow
  <2>3. Exact(g, S \cup {r}, val)
    BY <1>1, <2>1, <2>2, ExactMoreInRow
  <2> QED
    BY <1>1, <1>3, <2>3
<1> QED
  BY <1>5, <1>6

-----------------------------------------------------------------------------
(* When thread 0 collects the result of a run, all threads have stored     *)
(* their registers, and nobody leaves a run that is not collected.         *)
Late == {"back", "record", "overallocated", "end"}

OutsInv == \A k \in CPU : pc[k] \in Late /\ vcpu[k] < no_threads => vcpu[k] \in outs[j[k]]
DoneInv == \A k \in CPU : pc[k] = "end" /\ Released(k) => Collected(j[k])
OverInv == \A k \in CPU : pc[k] = "overallocated" =>
             vcpu[k] = 0 /\ Overallocated(hist, test.values[j[k]])

Done == {r \in Run : Collected(r)}

CollectInv == OutsInv /\ DoneInv /\ OverInv /\ Exact(hist, Done, test.values)

LEMMA ValuesFacts ==
  ASSUME TypeOK
  PROVE  \E l \in Nat : \A q \in Run : Registers(test.values[q], l)
<1>1. test \in Tests
  BY DEF TypeOK
<1>2. PICK t \in Tests : t = test
  BY <1>1
<1>3. t.values \in [Run -> Seq(Nat)]
  BY TestsAssumption
<1>4. 0 \in Run
  BY SizesAssumption DEF Run
<1>5. PICK l \in Nat : l = Len(t.values[0])
  BY <1>3, <1>4, InSeq
<1>6. \A q \in Run : Len(t.values[q]) = l /\ ix_from_values(t.values[q]) < limit
  BY <1>4, <1>5, RegistersAssumption
<1>7. \A q \in Run : Registers(t.values[q], l)
  BY <1>3, <1>6 DEF Registers
<1> QED
  BY <1>2, <1>7

LEMMA SameReleased ==
  ASSUME TypeOK, NEW k \in CPU, pc[k] = "end", pc'[k] = "end", j'[k] = j[k], Round(k)' = Round(k)
  PROVE  Released(k)' <=> Released(k)
<1>1. PICK x \in Nat : x = j[k]
  BY DEF TypeOK
<1>2. x # x + 1
  BY <1>1
<1>3. Round(k) = IF Released(k) THEN x + 1 ELSE x
  BY <1>1 DEF Round
<1>4. Round(k)' = IF Released(k)' THEN x + 1 ELSE x
  BY <1>1 DEF Round
<1> QED
  BY <1>2, <1>3, <1>4

AtEnd0(k) == pc[k] = "end" /\ vcpu[k] = 0

LEMMA SameCollected ==
  ASSUME j' = j, \A k \in CPU : AtEnd0(k)' <=> AtEnd0(k)
  PROVE  \A r : Collected(r)' <=> Collected(r)
BY DEF Collected, AtEnd0

(* A step that collects nothing and leaves no run. *)
LEMMA Quiet ==
  ASSUME IInv, CollectInv, UNCHANGED <<test, hist, outs, j>>,
         \A k \in CPU :
           /\ AtEnd0(k)' <=> AtEnd0(k)
           /\ pc'[k] \in Late /\ vcpu'[k] < no_threads => pc[k] \in Late /\ vcpu'[k] = vcpu[k]
           /\ pc'[k] = "end" /\ Released(k)' => pc[k] = "end" /\ Released(k)
           /\ pc'[k] = "overallocated" => pc[k] = "overallocated" /\ vcpu'[k] = vcpu[k]
  PROVE  CollectInv'
<1>1. \A r : Collected(r)' <=> Collected(r)
  BY SameCollected
<1>2. Done' = Done
  BY <1>1 DEF Done
<1>3. OutsInv'
  BY DEF CollectInv, OutsInv, no_threads
<1>4. DoneInv'
  BY <1>1 DEF CollectInv, DoneInv
<1>5. OverInv'
  BY DEF CollectInv, OverInv
<1>6. Exact(hist, Done, test.values)'
  <2>1. Exact(hist, Done, test.values)
    BY DEF CollectInv
  <2> QED
    BY <1>2, <2>1
<1> QED
  BY <1>3, <1>4, <1>5, <1>6 DEF CollectInv

(* A step of a CPU outside of all barriers, that goes on in the same run.  *)
LEMMA QuietOutside ==
  ASSUME IInv, CollectInv, UNCHANGED <<test, hist, outs, j, phase>>, NEW i \in CPU, NEW to \in PC,
         pc[i] \notin Waits, pc' = [pc EXCEPT ![i] = to],
         \A k \in CPU \ {i} : vcpu'[k] = vcpu[k],
         \/ to \notin Late /\ pc[i] \notin Late
         \/ to = "end" /\ vcpu'[i] = vcpu[i] /\ vcpu[i] # 0 /\ (pc[i] = "record" \/ ~ (vcpu[i] < no_threads))
  PROVE  CollectInv'
<1>1. TypeOK /\ BarInv
  BY DEF IInv
<1>2. /\ pc'[i] = to /\ ~ Released(i) /\ ~ Released(i)'
      /\ \A k \in CPU \ {i} : pc'[k] = pc[k] /\ Round(k)' = Round(k)
  BY <1>1, Frame
<1>3. \A k \in CPU \ {i} : pc'[k] = "end" /\ Released(k)' => pc[k] = "end" /\ Released(k)
  BY <1>1, <1>2, SameReleased
<1>4. \A k \in CPU \ {i} : AtEnd0(k)' <=> AtEnd0(k)
  BY <1>2 DEF AtEnd0
<1>5. AtEnd0(i)' <=> AtEnd0(i)
  BY <1>2 DEF AtEnd0, Late, Waits
<1>6. pc'[i] \in Late /\ vcpu'[i] < no_threads => pc[i] \in Late /\ vcpu'[i] = vcpu[i]
  BY <1>2 DEF Late
<1>7. pc'[i] # "overallocated"
  BY <1>2 DEF Late
<1> QED
  BY <1>2, <1>3, <1>4, <1>5, <1>6, <1>7, Quiet

(* A step inside of a barrier, that no CPU is released by.                 *)
LEMMA QuietInside ==
  ASSUME IInv, CollectInv, UNCHANGED <<test, hist, outs, j, pc, vcpu>>,
         \A k \in CPU : pc[k] = "end" /\ Released(k)' => Released(k)
  PROVE  CollectInv'
<1>1. \A k \in CPU : AtEnd0(k)' <=> AtEnd0(k)
  BY DEF AtEnd0
<1>2. \A k \in CPU : pc'[k] = "end" /\ Released(k)' => pc[k] = "end" /\ Released(k)
  OBVIOUS
<1> QED
  BY <1>1, <1>2, Quiet

LEMMA CollectArrive ==
  ASSUME IInv, CollectInv, NEW i \in CPU, Arrive(i) \/ Pass(i), UNCHANGED test
  PROVE  CollectInv'
<1> DEFINE b == BarAt(i)
<1>0. TypeOK
  BY DEF IInv
<1>1. /\ UNCHANGED <<test, ctx, pc, local>>
      /\ \/ phase[b][i] = "out" /\ phase' = [phase EXCEPT ![b][i] = "in"]
         \/ phase[b][i] = "go" /\ phase' = [phase EXCEPT ![b][i] = "passed"]
  BY DEF Arrive, Pass, R!Arrive, R!Pass
<1>2. pc' = pc /\ j' = j /\ vcpu' = vcpu /\ hist' = hist /\ outs' = outs
  BY <1>1 DEF local, ctx
<1>3. \A k \in CPU : BarAt(k)' = BarAt(k) /\ BarAt(k) \in Bar
  BY <1>0, <1>2, BarAtFacts DEF BarAt
<1>4. \A c \in Bar, k \in CPU :
        \/ phase'[c][k] = phase[c][k]
        \/ phase[c][k] = "go" /\ phase'[c][k] = "passed"
        \/ phase'[c][k] = "in"
  <2>1. b \in Bar /\ phase \in [Bar -> [CPU -> R!Phases]]
    BY <1>0, <1>3 DEF TypeOK
  <2> HIDE DEF b
  <2>2. CASE phase[b][i] = "out" /\ phase' = [phase EXCEPT ![b][i] = "in"]
    BY <2>1, <2>2
  <2>3. CASE phase[b][i] = "go" /\ phase' = [phase EXCEPT ![b][i] = "passed"]
    BY <2>1, <2>3
  <2> QED
    BY <1>1, <2>2, <2>3
<1>5. \A k \in CPU : Released(k)' => Released(k)
  BY <1>2, <1>3, <1>4 DEF Released
<1> QED
  BY <1>1, <1>2, <1>5, QuietInside

LEMMA CollectReleaseAll ==
  ASSUME IInv, CollectInv, R!Release(CpuBarrier), UNCHANGED <<test, ctx, pc, local>>
  PROVE  CollectInv'
<1> USE DEF IInv
<1>1. UNCHANGED <<test, outs, hist, pc, vcpu, j>>
  BY DEF ctx, local
<1>2. CpuBarrier \in Bar /\ Members[CpuBarrier] = CPU
  BY DEF Members, Bar
<1>3. \A i \in CPU : phase[CpuBarrier][i] = "in"
  BY <1>2 DEF R!Release
<1>4. \A i \in CPU : pc[i] \in {"begin", "affined", "allocated", "end", "exit"} /\ ~ Released(i)
  <2> SUFFICES ASSUME NEW i \in CPU
               PROVE  pc[i] \in {"begin", "affined", "allocated", "end", "exit"} /\ ~ Released(i)
    OBVIOUS
  <2>1. pc[i] \in Waits /\ BarAt(i) = CpuBarrier
    BY <1>2, <1>3 DEF BarInv
  <2>2. pc[i] \notin {"go", "back"}
    BY <2>1, BarAtFacts
  <2> QED
    BY <1>3, <2>1, <2>2 DEF Waits, Released
<1>5. \A r : Collected(r)' <=> Collected(r)
  <2>1. \A k \in CPU : AtEnd0(k)' <=> AtEnd0(k)
    BY <1>1 DEF AtEnd0
  <2> QED
    BY <1>1, <2>1, SameCollected
<1>6. DoneInv'
  <2> SUFFICES ASSUME NEW k \in CPU, pc[k] = "end"
               PROVE  Collected(j[k])
    BY <1>1, <1>5 DEF DoneInv
  <2>1. PICK n \in CPU : affinity[n] = 0
    BY SomeThread0 DEF TypeOK
  <2>2. Stage(k) = "run" /\ Round(k) = j[k]
    BY <1>4 DEF Stage, Round
  <2>3. Stage(n) = "run" /\ Round(n) = j[k]
    BY <2>2 DEF Together
  <2>4. pc[n] = "end" /\ j[n] = j[k]
    BY <1>4, <2>3 DEF Stage, Round
  <2>5. vcpu[n] = 0
    BY <2>1, <2>3, <2>4 DEF VcpuInv, HasVcpu, InRun
  <2> QED
    BY <2>4, <2>5 DEF Collected
<1>7. OutsInv' /\ OverInv'
  BY <1>1 DEF CollectInv, OutsInv, OverInv, no_threads
<1>8. Exact(hist, Done, test.values)'
  <2>1. Exact(hist, Done, test.values)
    BY DEF CollectInv
  <2>2. Done' = Done
    BY <1>5 DEF Done
  <2> QED
    BY <1>1, <2>1, <2>2
<1> QED
  BY <1>6, <1>7, <1>8 DEF CollectInv

LEMMA CollectReleaseThreads ==
  ASSUME IInv, CollectInv, NEW b \in Bar \ {CpuBarrier}, R!Release(b), UNCHANGED <<test, ctx, pc, local>>
  PROVE  CollectInv'
<1>0. TypeOK
  BY DEF IInv
<1>1. UNCHANGED <<test, outs, hist, pc, vcpu, j>>
  BY DEF ctx, local
<1>2. \A c \in Bar : c # b => phase'[c] = phase[c]
  BY <1>0 DEF R!Release, TypeOK
<1>3. \A k \in CPU : pc[k] = "end" => BarAt(k) = CpuBarrier /\ BarAt(k)' = CpuBarrier
  BY <1>1 DEF BarAt
<1>4. CpuBarrier \in Bar
  BY DEF Bar
<1>5. \A k \in CPU : pc[k] = "end" /\ Released(k)' => Released(k)
  BY <1>1, <1>2, <1>3, <1>4 DEF Released
<1> QED
  BY <1>1, <1>5, QuietInside

LEMMA CollectLeaveSameRun ==
  ASSUME IInv, CollectInv, NEW i \in CPU, NEW from, NEW to,
         <<from, to>> \in {<<"begin", "loop">>, <<"affined", "affinity">>, <<"allocated", "setup">>,
                           <<"go", "func">>, <<"back", "record">>, <<"exit", "done">>},
         Leave(i, from, to), UNCHANGED <<test, local>>
  PROVE  CollectInv'
<1>0. to \in PC /\ from \in Waits /\ UNCHANGED <<vcpu, j>>
  BY DEF PC, Waits, local
<1>a. TypeOK /\ BarInv
  BY DEF IInv
<1>1. /\ pc[i] = from /\ pc'[i] = to /\ UNCHANGED <<outs, hist>> /\ ~ Released(i)'
      /\ \A k \in CPU \ {i} : pc'[k] = pc[k] /\ Round(k)' = Round(k)
  <2>1. j' \in [CPU -> 0 .. no_runs] /\ \A k \in CPU \ {i} : j'[k] = j[k]
    BY <1>0, <1>a DEF TypeOK
  <2> QED
    BY <1>0, <1>a, <2>1, LeaveFrame
<1>2. \A k \in CPU \ {i} : pc'[k] = "end" /\ Released(k)' => pc[k] = "end" /\ Released(k)
  BY <1>0, <1>1, <1>a, SameReleased
<1>3. \A k \in CPU \ {i} : AtEnd0(k)' <=> AtEnd0(k)
  BY <1>0, <1>1 DEF AtEnd0
<1>4. from # "end" /\ to # "end" /\ to # "overallocated" /\ (to \in Late => from \in Late)
  BY DEF Late
<1>5. AtEnd0(i)' <=> AtEnd0(i)
  BY <1>1, <1>4 DEF AtEnd0
<1> QED
  BY <1>0, <1>1, <1>2, <1>3, <1>4, <1>5, Quiet

(* A CPU goes on to the next run: this one was collected.                  *)
LEMMA CollectLeaveEnd ==
  ASSUME IInv, CollectInv, NEW i \in CPU, NEW to \in {"run", "clean"}, Leave(i, "end", to),
         j' = [j EXCEPT ![i] = @ + 1], UNCHANGED <<test, vcpu>>
  PROVE  CollectInv'
<1>a. TypeOK /\ BarInv /\ PcInv
  BY DEF IInv
<1>b. /\ pc[i] = "end" /\ j[i] \in Nat /\ j'[i] = j[i] + 1 /\ \A k \in CPU \ {i} : j'[k] = j[k]
      /\ j' \in [CPU -> 0 .. no_runs]
  <2>1. pc[i] = "end"
    BY DEF Leave, Goto
  <2>2. j[i] \in Run
    BY <1>a, <2>1, RoundFacts
  <2> QED
    BY <1>a, <2>1, <2>2, SizesAssumption DEF TypeOK, Run
<1>1. /\ pc'[i] = to /\ UNCHANGED <<outs, hist>> /\ Released(i) /\ ~ Released(i)'
      /\ \A k \in CPU \ {i} : pc'[k] = pc[k] /\ Round(k)' = Round(k)
  <2>1. to \in PC /\ "end" \in Waits
    BY DEF PC, Waits
  <2> QED
    BY <1>a, <1>b, <2>1, LeaveFrame
<1>2. Collected(j[i])
  BY <1>b, <1>1 DEF CollectInv, DoneInv
<1>3. ASSUME NEW r \in Nat PROVE Collected(r)' <=> Collected(r)
  <2>1. ASSUME Collected(r) PROVE Collected(r)'
    <3>1. PICK k \in CPU : j[k] > r \/ (j[k] = r /\ pc[k] = "end" /\ vcpu[k] = 0)
      BY <2>1 DEF Collected
    <3>2. CASE k = i
      <4>1. j'[i] > r
        BY <1>b, <3>1, <3>2
      <4> QED
        BY <4>1 DEF Collected
    <3>3. CASE k # i
      BY <1>b, <1>1, <3>1, <3>3 DEF Collected
    <3> QED
      BY <3>2, <3>3
  <2>2. ASSUME Collected(r)' PROVE Collected(r)
    <3>1. PICK k \in CPU : j'[k] > r \/ (j'[k] = r /\ pc'[k] = "end" /\ vcpu[k] = 0)
      BY <2>2 DEF Collected
    <3>2. CASE k = i
      <4>1. j[i] > r \/ j[i] = r
        BY <1>b, <1>1, <3>1, <3>2
      <4> QED
        BY <1>2, <4>1 DEF Collected
    <3>3. CASE k # i
      BY <1>b, <1>1, <3>1, <3>3 DEF Collected
    <3> QED
      BY <3>2, <3>3
  <2> QED
    BY <2>1, <2>2
<1>4. Done' = Done
  BY <1>3 DEF Done, Run
<1>5. OutsInv'
  BY <1>b, <1>1 DEF CollectInv, OutsInv, no_threads, Late
<1>6. DoneInv'
  <2> SUFFICES ASSUME NEW k \in CPU, pc'[k] = "end", Released(k)'
               PROVE  Collected(j[k])'
    BY DEF DoneInv
  <2>1. k # i
    BY <1>1
  <2>2. Released(k) /\ pc[k] = "end" /\ j'[k] = j[k] /\ j[k] \in Nat
    BY <1>a, <1>b, <1>1, <2>1, SameReleased DEF TypeOK
  <2>3. PICK x \in Nat : x = j[k]
    BY <2>2
  <2>4. Collected(x)
    BY <2>2, <2>3 DEF CollectInv, DoneInv
  <2>5. Collected(x)'
    BY <1>3, <2>4
  <2> QED
    BY <2>2, <2>3, <2>5 DEF Collected
<1>7. OverInv'
  BY <1>b, <1>1 DEF CollectInv, OverInv
<1>8. Exact(hist, Done, test.values)'
  <2>1. Exact(hist, Done, test.values)
    BY DEF CollectInv
  <2> QED
    BY <1>1, <1>4, <2>1
<1> QED
  BY <1>5, <1>6, <1>7, <1>8 DEF CollectInv

LEMMA CollectOther ==
  ASSUME IInv, CollectInv, NEW i \in CPU, UNCHANGED test,
         \/ NewBatch(i) \/ GetAffinity(i) \/ Allocate(i) \/ SetupRunData(i) \/ Prepare(i)
         \/ StartOfRun(i) \/ Func(i) \/ CleanRunData(i)
  PROVE  CollectInv'
<1>0. TypeOK
  BY DEF IInv
<1>1. PICK to \in PC :
        /\ to \notin Late /\ pc[i] \notin Late /\ pc[i] \notin Waits
        /\ pc' = [pc EXCEPT ![i] = to]
        /\ UNCHANGED <<test, hist, outs, j, phase>>
        /\ \A k \in CPU \ {i} : vcpu'[k] = vcpu[k]
  <2> USE DEF Goto, PC, Waits, Late, ctx, local
  <2>1. CASE NewBatch(i)
    BY <2>1 DEF NewBatch
  <2>2. CASE GetAffinity(i)
    BY <1>0, <2>2 DEF GetAffinity, TypeOK
  <2>3. CASE Allocate(i)
    BY <2>3 DEF Allocate
  <2>4. CASE SetupRunData(i)
    BY <2>4 DEF SetupRunData
  <2>5. CASE Prepare(i)
    BY <2>5 DEF Prepare, Flush
  <2>6. CASE StartOfRun(i)
    BY <2>6 DEF StartOfRun
  <2>7. CASE Func(i)
    BY <2>7 DEF Func
  <2>8. CASE CleanRunData(i)
    BY <2>8 DEF CleanRunData, Flush
  <2> QED
    BY <2>1, <2>2, <2>3, <2>4, <2>5, <2>6, <2>7, <2>8
<1> QED
  BY <1>1, QuietOutside

LEMMA CollectSpare ==
  ASSUME IInv, CollectInv, NEW i \in CPU, Spare(i), UNCHANGED test
  PROVE  CollectInv'
<1>1. /\ pc[i] = "run" /\ pc' = [pc EXCEPT ![i] = "end"] /\ "end" \in PC /\ vcpu[i] >= no_threads
      /\ UNCHANGED <<test, hist, outs, j, phase, vcpu>>
  BY DEF Spare, Goto, PC, Waits, ctx, local
<1>2. no_threads \in Nat \ {0} /\ vcpu[i] \in Nat
  BY ThreadFacts DEF IInv, TypeOK, CPU
<1>3. vcpu[i] # 0 /\ ~ (vcpu[i] < no_threads)
  BY <1>1, <1>2
<1> QED
  BY <1>1, <1>3, QuietOutside DEF Waits

LEMMA CollectFuncOut ==
  ASSUME IInv, CollectInv, NEW i \in CPU, FuncOut(i), UNCHANGED test
  PROVE  CollectInv'
<1>0. TypeOK /\ BarInv /\ PcInv
  BY DEF IInv
<1>1. /\ pc[i] = "out" /\ pc' = [pc EXCEPT ![i] = "back"] /\ "back" \in PC
      /\ outs' = [outs EXCEPT ![j[i]] = @ \cup {vcpu[i]}]
      /\ UNCHANGED <<test, hist, phase, vcpu, j>>
  BY DEF FuncOut, Goto, PC, Waits, local
<1>2. /\ pc'[i] = "back" /\ ~ Released(i)'
      /\ \A k \in CPU \ {i} : pc'[k] = pc[k] /\ Round(k)' = Round(k)
  BY <1>0, <1>1, Frame DEF Waits
<1>3. j[i] \in Run
  BY <1>0, <1>1, RoundFacts
<1>4. /\ vcpu[i] \in outs'[j[i]]
      /\ \A r \in Run : \A t \in outs[r] : t \in outs'[r]
  BY <1>0, <1>1, <1>3 DEF TypeOK
<1>5. OutsInv'
  <2> SUFFICES ASSUME NEW k \in CPU, pc'[k] \in Late, vcpu[k] < no_threads
               PROVE  vcpu[k] \in outs'[j[k]]
    BY <1>1 DEF OutsInv, no_threads
  <2>1. CASE k = i
    BY <1>4, <2>1
  <2>2. CASE k # i
    <3>1. pc[k] \in Late
      BY <1>2, <2>2
    <3>2. j[k] \in Run
      BY <1>0, <3>1, RoundFacts DEF Late
    <3> QED
      BY <1>4, <3>1, <3>2 DEF CollectInv, OutsInv
  <2> QED
    BY <2>1, <2>2
<1>6. \A r : Collected(r)' <=> Collected(r)
  <2>1. \A k \in CPU : AtEnd0(k)' <=> AtEnd0(k)
    BY <1>1, <1>2 DEF AtEnd0
  <2> QED
    BY <1>1, <2>1, SameCollected
<1>7. DoneInv'
  <2> SUFFICES ASSUME NEW k \in CPU, pc'[k] = "end", Released(k)'
               PROVE  Collected(j[k])
    BY <1>1, <1>6 DEF DoneInv
  <2>1. pc[k] = "end" /\ Released(k)
    BY <1>0, <1>1, <1>2, SameReleased
  <2> QED
    BY <2>1 DEF CollectInv, DoneInv
<1>8. OverInv'
  BY <1>1, <1>2 DEF CollectInv, OverInv
<1>9. Exact(hist, Done, test.values)'
  <2>1. Exact(hist, Done, test.values)
    BY DEF CollectInv
  <2>2. Done' = Done
    BY <1>6 DEF Done
  <2> QED
    BY <1>1, <2>1, <2>2
<1> QED
  BY <1>5, <1>7, <1>8, <1>9 DEF CollectInv

(* A thread that is about to end its run finds the registers of all. *)
LEMMA AllStored ==
  ASSUME IInv, CollectInv, NEW i \in CPU, pc[i] = "record", NEW t \in Thread
  PROVE  t \in outs[j[i]]
<1> USE DEF IInv
<1>0. t \in CPU /\ t < no_threads
  BY ThreadFacts, SizesAssumption DEF Thread, CPU
<1>1. PICK k \in CPU : affinity[k] = t
  BY <1>0, EachThread DEF TypeOK
<1>2. ~ Released(i) /\ Stage(i) = "run" /\ Round(i) = j[i] /\ Turn(i) = 2 /\ IsThread(i)
  <2>1. ~ Released(i)
    BY DEF Released, Waits
  <2> QED
    BY <2>1 DEF Stage, Round, Turn, VcpuInv
<1>3. Stage(k) = "run" /\ Round(k) = j[i] /\ Turn(k) = 2
  BY <1>0, <1>1, <1>2 DEF Together, TurnInv, IsThread
<1>4. pc[k] \in Late /\ j[k] = j[i]
  BY <1>3 DEF Turn, Round, Late
<1>5. vcpu[k] = t
  BY <1>1, <1>3, <1>4 DEF VcpuInv, HasVcpu, InRun, Late
<1> QED
  BY <1>0, <1>4, <1>5 DEF CollectInv, OutsInv

LEMMA OutRegsFull ==
  ASSUME TypeOK, NEW r \in Run, \A t \in Thread : t \in outs[r]
  PROVE  OutRegs(r) = test.values[r]
<1>1. PICK v \in Seq(Nat) : v = test.values[r]
  <2>1. test.values \in [Run -> Seq(Nat)]
    BY TestsAssumption DEF TypeOK
  <2> QED
    BY <2>1
<1>2. PICK l \in Nat : l = Len(v) /\ DOMAIN v = 1 .. l
  BY InSeq
<1>3. ASSUME NEW k \in 1 .. l PROVE (k - 1) % no_threads \in outs[r]
  <2>1. k - 1 \in Nat /\ no_threads \in Nat \ {0}
    BY ThreadFacts
  <2>2. (k - 1) % no_threads \in Thread
    BY <2>1, Remainder DEF Thread
  <2> QED
    BY <2>2
<1>4. OutRegs(r) = [k \in 1 .. l |-> v[k]]
  BY <1>1, <1>2, <1>3 DEF OutRegs
<1>5. v = [k \in 1 .. l |-> v[k]]
  BY <1>2
<1> QED
  BY <1>1, <1>4, <1>5

(* Nobody else plays thread 0. *)
LEMMA OnlyThread0 ==
  ASSUME IInv, NEW i \in CPU, pc[i] = "record", vcpu[i] = 0,
         NEW k \in CPU, vcpu[k] = 0, pc[k] = "overallocated" \/ (pc[k] = "end" /\ ~ Released(k))
  PROVE  k = i
<1>1. Stage(i) = "run" /\ Stage(k) = "run"
  BY DEF Stage
<1>2. vcpu[i] = affinity[i] /\ vcpu[k] = affinity[k]
  BY <1>1 DEF IInv, VcpuInv, HasVcpu, InRun
<1> QED
  BY <1>2 DEF IInv, TypeOK, Permutation

LEMMA NotYetCollected ==
  ASSUME IInv, NEW i \in CPU, pc[i] = "record", vcpu[i] = 0
  PROVE  ~ Collected(j[i])
<1> SUFFICES ASSUME NEW k \in CPU, j[k] > j[i] \/ (j[k] = j[i] /\ pc[k] = "end" /\ vcpu[k] = 0)
             PROVE  FALSE
  BY DEF Collected
<1>0. PICK x \in Nat, y \in Nat : x = j[i] /\ y = j[k]
  BY DEF IInv, TypeOK
<1>1. Round(i) = x /\ Round(k) = x
  <2>1. Round(i) = x
    BY <1>0 DEF Round
  <2> QED
    BY <2>1 DEF IInv, Together
<1>2. Round(k) = IF pc[k] = "end" /\ Released(k) THEN y + 1 ELSE y
  BY <1>0 DEF Round
<1>3. y = x /\ pc[k] = "end" /\ ~ Released(k) /\ vcpu[k] = 0
  BY <1>0, <1>1, <1>2
<1>4. k = i
  BY <1>3, OnlyThread0
<1> QED
  BY <1>3, <1>4

(* end_of_run *)
LEMMA CollectEndOfRun ==
  ASSUME IInv, CollectInv, NEW i \in CPU, EndOfRun(i), UNCHANGED test
  PROVE  CollectInv'
<1>0. /\ TypeOK /\ BarInv /\ PcInv /\ HistInv
      /\ pc[i] = "record" /\ "end" \in PC /\ "overallocated" \in PC
      /\ UNCHANGED <<test, outs, phase, vcpu, j>>
  BY DEF IInv, EndOfRun, PC, Waits, local
<1>1. CASE vcpu[i] # 0
  <2>1. pc' = [pc EXCEPT ![i] = "end"] /\ hist' = hist
    BY <1>1 DEF EndOfRun, Goto
  <2> QED
    BY <1>0, <1>1, <2>1, QuietOutside DEF Waits
<1>2. CASE vcpu[i] = 0
  <2>0. PICK x \in Run : x = j[i]
    BY <1>0, RoundFacts
  <2>1. OutRegs(x) = test.values[x]
    BY <1>0, <2>0, AllStored, OutRegsFull
  <2>2. PICK to \in {"end", "overallocated"} :
          /\ pc' = [pc EXCEPT ![i] = to]
          /\ to = "end" => hist' = add_results(hist, test.values[x])
          /\ to = "overallocated" => hist' = hist /\ Overallocated(hist, test.values[x])
    BY <1>2, <2>0, <2>1 DEF EndOfRun, Collect, Goto
  <2>3. /\ pc'[i] = to /\ ~ Released(i)'
        /\ \A k \in CPU \ {i} : pc'[k] = pc[k] /\ Round(k)' = Round(k)
    BY <1>0, <2>2, Frame DEF Waits
  <2>4. \A k \in CPU \ {i} : pc'[k] = "end" /\ Released(k)' => pc[k] = "end" /\ Released(k)
    BY <1>0, <2>3, SameReleased
  <2>5. OutsInv'
    <3> SUFFICES ASSUME NEW k \in CPU, pc'[k] \in Late, vcpu[k] < no_threads
                 PROVE  vcpu[k] \in outs[j[k]]
      BY <1>0 DEF OutsInv, no_threads
    <3>1. pc[k] \in Late
      BY <1>0, <2>3 DEF Late
    <3> QED
      BY <3>1 DEF CollectInv, OutsInv
  <2>6. \A k \in CPU \ {i} : pc'[k] # "overallocated"
    <3> SUFFICES ASSUME NEW k \in CPU \ {i}, pc[k] = "overallocated" PROVE FALSE
      BY <2>3
    <3>1. vcpu[k] = 0
      BY DEF CollectInv, OverInv
    <3> QED
      BY <1>0, <1>2, <3>1, OnlyThread0
  <2>7. \A r \in Nat : Collected(r)' <=> (Collected(r) \/ (r = x /\ to = "end"))
    <3> TAKE r \in Nat
    <3>1. CASE to = "end"
      BY <1>0, <1>2, <2>0, <2>3, <3>1 DEF Collected
    <3>2. CASE to # "end"
      BY <1>0, <1>2, <2>0, <2>3, <3>2 DEF Collected
    <3> QED
      BY <3>1, <3>2
  <2>8. DoneInv'
    <3> SUFFICES ASSUME NEW k \in CPU, pc'[k] = "end", Released(k)'
                 PROVE  Collected(j[k])'
      BY DEF DoneInv
    <3>1. k # i /\ pc[k] = "end" /\ Released(k)
      BY <2>3, <2>4
    <3>2. PICK y \in Nat : y = j[k]
      BY <1>0 DEF TypeOK
    <3>3. Collected(y)
      BY <3>1, <3>2 DEF CollectInv, DoneInv
    <3>4. Collected(y)'
      BY <2>7, <3>3
    <3> QED
      BY <1>0, <3>2, <3>4 DEF Collected
  <2>9. Exact(hist, Done, test.values)
    BY DEF CollectInv
  <2>10. CASE to = "end"
    <3>1. OverInv'
      BY <2>3, <2>6, <2>10 DEF OverInv
    <3>2. Done' = Done \cup {x} /\ Done \subseteq Run /\ x \notin Done
      <4>1. \A r \in Run : r \in Nat
        BY DEF Run
      <4>2. ~ Collected(x)
        BY <1>0, <1>2, <2>0, NotYetCollected
      <4> QED
        BY <2>7, <2>10, <4>1, <4>2 DEF Done
    <3>3. IsFiniteSet(Done)
      <4>1. IsFiniteSet(Run)
        BY SizesAssumption, FS_Interval DEF Run
      <4> QED
        BY <3>2, <4>1, FS_Subset
    <3>4. PICK l \in Nat : \A q \in Run : Registers(test.values[q], l)
      BY <1>0, ValuesFacts
    <3>5. PICK S : S = Done
      OBVIOUS
    <3>6. PICK h \in Hist : h = hist /\ h.lut \in [0 .. limit - 1 -> 0 .. Len(h.results)]
      BY <1>0 DEF HistInv, Hist, TypeOK
    <3>7. PICK val : val = test.values
      OBVIOUS
    <3>8. \A q \in S \cup {x} : Registers(val[q], l)
      BY <3>2, <3>4, <3>5, <3>7
    <3>9. Exact(h, S, val) /\ IsFiniteSet(S) /\ x \notin S
      BY <2>9, <3>2, <3>3, <3>5, <3>6, <3>7
    <3>10. Exact(add_results(h, val[x]), S \cup {x}, val)
      BY <3>6, <3>8, <3>9, AddResultsExact
    <3>11. hist' = add_results(h, val[x]) /\ Done' = S \cup {x} /\ test'.values = val
      BY <1>0, <2>2, <2>10, <3>2, <3>5, <3>6, <3>7
    <3>12. Exact(hist, Done, test.values)'
      BY <3>10, <3>11
    <3> QED
      BY <2>5, <2>8, <3>1, <3>12 DEF CollectInv
  <2>11. CASE to = "overallocated"
    <3>1. OverInv'
      BY <1>0, <1>2, <2>0, <2>2, <2>3, <2>6, <2>11 DEF OverInv
    <3>2. Done' = Done
      <4>1. \A r \in Run : r \in Nat
        BY DEF Run
      <4> QED
        BY <2>7, <2>11, <4>1 DEF Done
    <3>3. Exact(hist, Done, test.values)'
      BY <1>0, <2>2, <2>9, <2>11, <3>2
    <3> QED
      BY <2>5, <2>8, <3>1, <3>3 DEF CollectInv
  <2> QED
    BY <2>10, <2>11
<1> QED
  BY <1>1, <1>2

(* Nothing is collected, and nothing in the histogram. *)
LEMMA ExactEmpty ==
  ASSUME NEW val
  PROVE  Exact(EmptyHist, {}, val)
<1>1. /\ EmptyHist.results = <<>> /\ DOMAIN EmptyHist.results = {} /\ Len(EmptyHist.results) = 0
      /\ \A ix \in 0 .. limit - 1 : EmptyHist.lut[ix] = NULL
  BY DEF EmptyHist
<1>2. RunsWith({}, val, val) = {} /\ ResultsOf({}, val) = {} /\ ResultsOf({}, val) \ Interesting = {}
  BY DEF RunsWith, ResultsOf
<1>3. Cardinality({}) = 0
  BY FS_EmptySet
<1>4. marked(EmptyHist) = 0
  <2>1. EmptyHist \in Hist
    <3>1. EmptyHist.lut \in [0 .. limit - 1 -> Nat]
      BY DEF EmptyHist, NULL
    <3>2. EmptyHist.results \in Seq(Row)
      BY <1>1
    <3> QED
      BY <3>1, <3>2 DEF Hist, EmptyHist
  <2>2. PICK s \in Seq(Nat) : s = Marks(EmptyHist)
    BY <2>1, MarksType
  <2>3. Len(s) = 0
    BY <1>1, <2>1, <2>2, MarksType
  <2>4. Number(1, s) = 0
    BY <2>3, HornerZero DEF Number
  <2> QED
    BY <2>2, <2>4, MarkedIs
<1>5. no_sc_results_seen(EmptyHist) = 0
  <2>1. {n \in DOMAIN EmptyHist.results : ~ EmptyHist.results[n].is_relaxed} = {}
    BY <1>1
  <2> QED
    BY <1>3, <2>1 DEF no_sc_results_seen
<1>6. {r \in {} : val[r] \in Interesting} = {}
  OBVIOUS
<1>7. TotalsRight(EmptyHist, {}, val)
  BY <1>1, <1>2, <1>3, <1>4, <1>5, <1>6 DEF TotalsRight
<1> QED
  BY <1>1, <1>7 DEF Exact, Distinct, RowsRight, EachHasRow, LutRight

LEMMA CollectInit == Init => CollectInv
<1> SUFFICES ASSUME Init PROVE CollectInv
  OBVIOUS
<1>1. \A k \in CPU : pc[k] = "begin" /\ j[k] = 0
  BY DEF Init
<1>2. \A r \in Run : r \in Nat
  BY DEF Run
<1>3. Done = {}
  <2>1. \A r \in Nat : ~ Collected(r)
    BY <1>1 DEF Collected
  <2> QED
    BY <1>2, <2>1 DEF Done
<1>4. hist = EmptyHist
  BY DEF Init
<1>5. Exact(hist, Done, test.values)
  BY <1>3, <1>4, ExactEmpty
<1> QED
  BY <1>1, <1>5 DEF CollectInv, OutsInv, DoneInv, OverInv, Late

LEMMA CollectStep == IInv /\ CollectInv /\ [Next]_vars => CollectInv'
<1> SUFFICES ASSUME IInv, CollectInv, [Next]_vars PROVE CollectInv'
  OBVIOUS
<1>1. CASE Release
  <2>1. PICK b \in Bar : R!Release(b)
    BY <1>1 DEF Release
  <2>2. UNCHANGED <<test, ctx, pc, local>>
    BY <1>1 DEF Release
  <2> QED
    BY <2>1, <2>2, CollectReleaseAll, CollectReleaseThreads
<1>2. ASSUME NEW i \in CPU, Step(i) PROVE CollectInv'
  <2>0. UNCHANGED test
    BY <1>2 DEF Step
  <2>1. CASE Arrive(i) \/ Pass(i)
    BY <2>0, <2>1, CollectArrive
  <2>2. CASE Bwait(i)
    <3>1. CASE Leave(i, "end", IF j[i] + 1 < BatchEnd(j[i]) THEN "run" ELSE "clean")
               /\ j' = [j EXCEPT ![i] = @ + 1] /\ idx' = [idx EXCEPT ![i] = BatchStart(j[i])]
               /\ UNCHANGED <<vcpu, saved>>
      BY <2>0, <3>1, CollectLeaveEnd
    <3>2. ASSUME NEW from, NEW to,
                 <<from, to>> \in {<<"begin", "loop">>, <<"affined", "affinity">>, <<"allocated", "setup">>,
                                   <<"go", "func">>, <<"back", "record">>, <<"exit", "done">>},
                 Leave(i, from, to), UNCHANGED local
          PROVE  CollectInv'
      <4>1. UNCHANGED <<test, local>>
        BY <2>0, <3>2
      <4> QED
        BY <3>2, <4>1, CollectLeaveSameRun
    <3> QED
      BY <2>2, <3>1, <3>2 DEF Bwait
  <2>3. CASE \/ NewBatch(i) \/ GetAffinity(i) \/ Allocate(i) \/ SetupRunData(i) \/ Prepare(i)
             \/ StartOfRun(i) \/ Func(i) \/ CleanRunData(i)
    BY <2>0, <2>3, CollectOther
  <2>4. CASE Spare(i)
    BY <2>0, <2>4, CollectSpare
  <2>5. CASE FuncOut(i)
    BY <2>0, <2>5, CollectFuncOut
  <2>6. CASE EndOfRun(i)
    BY <2>0, <2>6, CollectEndOfRun
  <2> QED
    BY <1>2, <2>1, <2>2, <2>3, <2>4, <2>5, <2>6 DEF Step
<1>3. CASE UNCHANGED vars
  <2>1. UNCHANGED <<test, hist, outs, j, pc, vcpu, phase>>
    BY <1>3 DEF vars, ctx, local
  <2>2. \A k \in CPU : Released(k)' => Released(k)
    BY <2>1 DEF Released, BarAt
  <2> QED
    BY <2>1, <2>2, QuietInside
<1> QED
  BY <1>1, <1>2, <1>3 DEF Next

THEOREM HarnessCollects == Spec => [](IInv /\ CollectInv)
<1>1. Init => IInv /\ CollectInv
  BY IInvInit, CollectInit
<1>2. (IInv /\ CollectInv) /\ [Next]_vars => (IInv /\ CollectInv)'
  BY IInvStep, CollectStep
<1> QED
  BY <1>1, <1>2, PTL DEF Spec

(* litmus_test.c:446-449,532 and litmus_test_results.c: the histogram has  *)
(* one row for each of the results of the runs that were collected, which  *)
(* counts each of these runs once, whatever the lookup table is used for;  *)
(* and the program gives up only when there are more results than rows.    *)
THEOREM HarnessHistogramExact == Spec => []HistogramExact
<1>1. IInv /\ CollectInv => HistogramExact
  <2> SUFFICES ASSUME IInv, CollectInv PROVE HistogramExact
    OBVIOUS
  <2> DEFINE val == test.values
  <2>1. /\ RowsRight(hist, Done, val) /\ EachHasRow(hist, Done, val) /\ LutRight(hist)
        /\ TotalsRight(hist, Done, val)
    BY DEF CollectInv, Exact
  <2>2. Seen(Run) = ResultsOf(Done, val)
    BY DEF Seen, ResultsOf, Done
  <2>3. \A v : {r \in Run : Collected(r) /\ val[r] = v} = RunsWith(Done, val, v)
    BY DEF Done, RunsWith
  <2>4. \A v \in Seen(Run) : \E n \in DOMAIN hist.results :
          /\ hist.results[n].values = v
          /\ hist.results[n].counter = Cardinality({r \in Run : Collected(r) /\ val[r] = v})
    <3> TAKE v \in Seen(Run)
    <3>1. PICK q \in Done : v = val[q]
      BY <2>2 DEF ResultsOf
    <3>2. PICK n \in DOMAIN hist.results : hist.results[n].values = v
      BY <2>1, <3>1 DEF EachHasRow
    <3>3. hist.results[n].counter = Cardinality(RunsWith(Done, val, v))
      BY <2>1, <3>2 DEF RowsRight
    <3> QED
      BY <2>3, <3>2, <3>3
  <2>5. Len(hist.results) = Cardinality(Seen(Run))
    BY <2>1, <2>2 DEF TotalsRight
  <2>6. marked(hist) = Cardinality({r \in Run : Collected(r) /\ val[r] \in Interesting})
    <3>1. {r \in Run : Collected(r) /\ val[r] \in Interesting} = {r \in Done : val[r] \in Interesting}
      BY DEF Done
    <3> QED
      BY <2>1, <3>1 DEF TotalsRight
  <2>7. no_sc_results_seen(hist) = Cardinality(Seen(Run) \ Interesting)
    BY <2>1, <2>2 DEF TotalsRight
  <2>8. ASSUME NEW i \in CPU, pc[i] = "overallocated"
        PROVE  Cardinality(Seen(Run) \cup {val[j[i]]}) > limit
    <3>1. j[i] \in Run
      BY <2>8, RoundFacts DEF IInv
    <3>2. PICK v : v = val[j[i]]
      OBVIOUS
    <3>3. RowOf(hist, v) = NULL /\ Len(hist.results) >= limit
      BY <2>8, <3>2 DEF CollectInv, OverInv, Overallocated
    <3>4. PICK l \in Nat : \A q \in Run : Registers(val[q], l)
      BY ValuesFacts DEF IInv
    <3>5. hist \in Hist
      BY DEF IInv, HistInv, Hist
    <3>6. IsRowOf(RowOf(hist, v), hist, v)
      <4>1. \A q \in Done : Registers(val[q], l)
        BY <3>4 DEF Done
      <4>2. Registers(v, l)
        BY <3>1, <3>2, <3>4
      <4> QED
        BY <2>1, <3>5, <4>1, <4>2, RowOfFinds
    <3>7. v \notin Seen(Run)
      <4>1. NULL \notin DOMAIN hist.results
        <5>1. hist.results \in Seq(Row)
          BY <3>5 DEF Hist
        <5> QED
          BY <5>1 DEF NULL
      <4>2. \A m \in DOMAIN hist.results : hist.results[m].values # v
        BY <3>3, <3>6, <4>1 DEF IsRowOf
      <4> QED
        BY <2>1, <2>2, <4>2 DEF EachHasRow, ResultsOf
    <3>8. IsFiniteSet(Seen(Run))
      <4>1. IsFiniteSet(Run)
        BY SizesAssumption, FS_Interval DEF Run
      <4>2. Done \subseteq Run
        BY DEF Done
      <4>3. IsFiniteSet(Done)
        BY <4>1, <4>2, FS_Subset
      <4>4. IsFiniteSet(ResultsOf(Done, val))
        BY <4>3, ResultsFinite
      <4> QED
        BY <2>2, <4>4
    <3>9. Cardinality(Seen(Run) \cup {v}) = Cardinality(Seen(Run)) + 1
      BY <3>7, <3>8, FS_AddElement
    <3>10. Cardinality(Seen(Run)) >= limit /\ Cardinality(Seen(Run)) \in Nat
      BY <2>5, <3>3, <3>8, FS_CardinalityType
    <3>11. Cardinality(Seen(Run) \cup {v}) > limit
      BY <3>9, <3>10, LimitAssumption
    <3> QED
      BY <3>2, <3>11
  <2> QED
    BY <2>4, <2>5, <2>6, <2>7, <2>8 DEF HistogramExact
<1> QED
  BY <1>1, HarnessCollects, PTL
===============================================================================
