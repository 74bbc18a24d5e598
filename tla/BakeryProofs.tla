----------------------------- MODULE BakeryProofs -----------------------------
(***************************************************************************)
(* Proofs about Bakery.tla for any number of CPUs and any bound on the     *)
(* tickets: mutual exclusion, first come first served, and that the CPUs   *)
(* in the lock never all wait for each other.                              *)
(***************************************************************************)
EXTENDS Bakery, WellFoundedInduction, TLAPS

Doorway == {"scan", "reread", "take"}
Holding == {"taken", "critical"} \cup Queue    \* those with a ticket

(* The order the lock serves tickets in. *)
Lex(i, k) == number[i] < number[k] \/ (number[i] = number[k] /\ i < k)

(* i's loop in lamport_lock has gone past k. *)
Past(i, k) == pc[i] = "critical" \/ (pc[i] \in Queue /\ k < j[i])

(* k, which is taking a ticket, has either still to look at i's or will    *)
(* end up with a larger one.  While k is about to read number[j[k]] again, *)
(* that CPU is behind i and cannot give its ticket back before i does.     *)
Yields(k, i) ==
  /\ pc[k] = "scan" /\ i < j[k] => max[k] >= number[i]
  /\ pc[k] = "reread" /\ i < j[k] => number[j[k]] >= number[i]
  /\ pc[k] = "take" => max[k] >= number[i]

(* k cannot get in before i. *)
Behind(k, i) ==
  /\ pc[k] # "critical"
  /\ Yields(k, i)
  /\ pc[k] \in Holding => Lex(i, k) /\ ~Past(k, i)

ShapeInv ==
  \A i \in CPU :
    /\ entering[i] <=> pc[i] \in Doorway \cup {"taken"}
    /\ number[i] = 0 <=> pc[i] \notin Holding
    /\ pc[i] \in {"idle", "take", "taken", "critical"} => j[i] = 0
    /\ pc[i] = "reread" => j[i] # i

PastInv ==
  \A i, k \in CPU : i # k /\ Past(i, k) => Behind(k, i)

(* What i knows of the CPU it is looking at. *)
LookInv ==
  \A i, k \in CPU :
    i # k /\ k = j[i] /\ pc[i] \in {"check", "less", "equal"} =>
      /\ Yields(k, i)
      /\ pc[i] = "equal" /\ pc[k] \in Holding => number[k] >= number[i]

(* A CPU that queued before i came to the doorway stays in front of it. *)
AheadInv ==
  \A i, k \in CPU : k \in ahead[i] =>
    /\ k # i
    /\ pc[k] \in Queue
    /\ pc[i] \notin {"idle", "critical"}
    /\ Yields(i, k)
    /\ pc[i] \in Holding => number[k] < number[i]
    /\ pc[i] \in Queue => j[i] <= k
    /\ pc[i] = "equal" => j[i] # k

IInv == TypeOK /\ ShapeInv /\ PastInv /\ LookInv /\ AheadInv
-----------------------------------------------------------------------------
LEMMA CpuFacts ==
  /\ 0 \in CPU
  /\ \A i \in CPU : i \in Nat /\ i < NO_CPUS
  /\ \A i \in CPU : i + 1 # NO_CPUS => i + 1 \in CPU
BY NoCpusAssumption DEF CPU

LEMMA TypeStep ==
  ASSUME TypeOK, ShapeInv, [Next]_vars
  PROVE  TypeOK'
<1> USE CpuFacts DEF TypeOK, ShapeInv, PC, Queue, Doorway, Holding, Goto
<1>1. ASSUME NEW i \in CPU, Enter(i) PROVE TypeOK'
  BY <1>1 DEF Enter
<1>2. ASSUME NEW i \in CPU, Scan(i) PROVE TypeOK'
  BY <1>2 DEF Scan, Last, NextJ
<1>3. ASSUME NEW i \in CPU, Reread(i) PROVE TypeOK'
  BY <1>3 DEF Reread, Last, NextJ
<1>4. ASSUME NEW i \in CPU, Take(i) PROVE TypeOK'
  BY <1>4 DEF Take
<1>5. ASSUME NEW i \in CPU, Taken(i) PROVE TypeOK'
  BY <1>5 DEF Taken
<1>6. ASSUME NEW i \in CPU, Spin(i) PROVE TypeOK'
  BY <1>6 DEF Spin
<1>7. ASSUME NEW i \in CPU, Check(i) PROVE TypeOK'
  BY <1>7 DEF Check, Test, Last, NextJ
<1>8. ASSUME NEW i \in CPU, Less(i) PROVE TypeOK'
  BY <1>8 DEF Less
<1>9. ASSUME NEW i \in CPU, Equal(i) PROVE TypeOK'
  BY <1>9 DEF Equal, EqualLower, Test, Last, NextJ
<1>10. ASSUME NEW i \in CPU, Unlock(i) PROVE TypeOK'
  BY <1>10 DEF Unlock
<1>11. CASE UNCHANGED vars
  BY <1>11 DEF vars
<1>12. QED
  BY <1>1, <1>2, <1>3, <1>4, <1>5, <1>6, <1>7, <1>8, <1>9, <1>10, <1>11 DEF Next, Step

LEMMA ShapeStep ==
  ASSUME TypeOK, ShapeInv, [Next]_vars
  PROVE  ShapeInv'
<1> USE CpuFacts DEF TypeOK, ShapeInv, PC, Queue, Doorway, Holding, Goto
<1>1. ASSUME NEW i \in CPU, Enter(i) PROVE ShapeInv'
  BY <1>1 DEF Enter
<1>2. ASSUME NEW i \in CPU, Scan(i) PROVE ShapeInv'
  BY <1>2 DEF Scan, Last, NextJ
<1>3. ASSUME NEW i \in CPU, Reread(i) PROVE ShapeInv'
  BY <1>3 DEF Reread, Last, NextJ
<1>4. ASSUME NEW i \in CPU, Take(i) PROVE ShapeInv'
  BY <1>4 DEF Take
<1>5. ASSUME NEW i \in CPU, Taken(i) PROVE ShapeInv'
  BY <1>5 DEF Taken
<1>6. ASSUME NEW i \in CPU, Spin(i) PROVE ShapeInv'
  BY <1>6 DEF Spin
<1>7. ASSUME NEW i \in CPU, Check(i) PROVE ShapeInv'
  BY <1>7 DEF Check, Test, Last, NextJ
<1>8. ASSUME NEW i \in CPU, Less(i) PROVE ShapeInv'
  BY <1>8 DEF Less
<1>9. ASSUME NEW i \in CPU, Equal(i) PROVE ShapeInv'
  BY <1>9 DEF Equal, EqualLower, Test, Last, NextJ
<1>10. ASSUME NEW i \in CPU, Unlock(i) PROVE ShapeInv'
  BY <1>10 DEF Unlock
<1>11. CASE UNCHANGED vars
  BY <1>11 DEF vars
<1>12. QED
  BY <1>1, <1>2, <1>3, <1>4, <1>5, <1>6, <1>7, <1>8, <1>9, <1>10, <1>11 DEF Next, Step

-----------------------------------------------------------------------------
(* A step of CPU a changes nothing of any other CPU's. *)
LEMMA Frame ==
  ASSUME TypeOK, NEW a \in CPU, Enter(a) \/ Step(a), NEW k \in CPU, k # a
  PROVE  /\ pc'[k] = pc[k] /\ j'[k] = j[k] /\ max'[k] = max[k]
         /\ number'[k] = number[k] /\ entering'[k] = entering[k]
<1> USE DEF TypeOK, Goto
<1>1. CASE Enter(a)
  BY <1>1 DEF Enter
<1>2. CASE Scan(a)
  BY <1>2 DEF Scan, Last, NextJ
<1>3. CASE Reread(a)
  BY <1>3 DEF Reread, Last, NextJ
<1>4. CASE Take(a)
  BY <1>4 DEF Take
<1>5. CASE Taken(a)
  BY <1>5 DEF Taken
<1>6. CASE Spin(a)
  BY <1>6 DEF Spin
<1>7. CASE Check(a)
  BY <1>7 DEF Check, Test, Last, NextJ
<1>8. CASE Less(a)
  BY <1>8 DEF Less
<1>9. CASE Equal(a)
  BY <1>9 DEF Equal, EqualLower, Test, Last, NextJ
<1>10. CASE Unlock(a)
  BY <1>10 DEF Unlock
<1>11. QED
  BY <1>1, <1>2, <1>3, <1>4, <1>5, <1>6, <1>7, <1>8, <1>9, <1>10 DEF Step

(* A CPU that yields to i goes on yielding to it as long as i is in the    *)
(* queue or has the lock: its own steps take i into account, and the one   *)
(* whose ticket it is reading a second time cannot leave before i.         *)
LEMMA YieldsKept ==
  ASSUME IInv, NEW i \in CPU, NEW k \in CPU, i # k,
         pc[i] \in Queue \cup {"critical"}, Yields(k, i),
         NEW a \in CPU, Enter(a) \/ Step(a), number'[i] = number[i]
  PROVE  Yields(k, i)'
<1> USE CpuFacts DEF IInv, TypeOK, ShapeInv, PC, Queue, Doorway, Holding, Yields
<1>n. number[i] > 0
  OBVIOUS
<1>1. CASE a = k
  <2> USE DEF Goto
  <2>1. CASE Enter(k)
    BY <2>1 DEF Enter
  <2>2. CASE Scan(k)
    BY <2>2, <1>n DEF Scan, Last, NextJ
  <2>3. CASE Reread(k)
    BY <2>3, <1>n DEF Reread, Last, NextJ
  <2>4. CASE Take(k)
    BY <2>4 DEF Take
  <2>5. CASE Taken(k)
    BY <2>5 DEF Taken
  <2>6. CASE Spin(k)
    BY <2>6 DEF Spin
  <2>7. CASE Check(k)
    BY <2>7 DEF Check, Test, Last, NextJ
  <2>8. CASE Less(k)
    BY <2>8 DEF Less
  <2>9. CASE Equal(k)
    BY <2>9 DEF Equal, EqualLower, Test, Last, NextJ
  <2>10. CASE Unlock(k)
    BY <2>10 DEF Unlock
  <2> QED
    BY <1>1, <2>1, <2>2, <2>3, <2>4, <2>5, <2>6, <2>7, <2>8, <2>9, <2>10 DEF Step
<1>2. CASE a # k
  <2> DEFINE m == j[k]
  <2>1. pc'[k] = pc[k] /\ j'[k] = j[k] /\ max'[k] = max[k]
    BY <1>2, Frame
  <2>2. CASE a # m \/ number'[m] = number[m]
    BY <2>1, <2>2, Frame
  <2>3. CASE a = m /\ number'[m] # number[m] /\ pc[k] = "reread" /\ i < m
    <3>1. number[a] >= number[i] /\ a # i
      BY <2>3
    <3>2. ~Take(a)
      BY <3>1, <1>n DEF Take, Goto
    <3>3. Unlock(a)
      BY <2>3, <3>2, Frame DEF Step, Enter, Scan, Reread, Taken, Spin, Check, Less, Equal, EqualLower, Test
    <3>4. pc[a] = "critical"
      BY <3>3 DEF Unlock, Goto
    <3>5. Behind(i, a)
      BY <3>1, <3>4 DEF PastInv, Past
    <3>6. Lex(a, i)
      BY <3>5 DEF Behind
    <3> QED
      BY <2>3, <3>1, <3>6 DEF Lex
  <2> QED
    BY <2>1, <2>2, <2>3
<1> QED
  BY <1>1, <1>2

-----------------------------------------------------------------------------
LEMMA PastStep ==
  ASSUME IInv, NEW a \in CPU, Enter(a) \/ Step(a)
  PROVE  PastInv'
<1> SUFFICES ASSUME NEW i \in CPU, NEW k \in CPU, i # k, Past(i, k)'
             PROVE  Behind(k, i)'
  BY DEF PastInv
<1> USE CpuFacts DEF IInv, TypeOK, ShapeInv, PC, Queue, Holding
<1>1. CASE a = i
  <2>1. pc'[k] = pc[k] /\ j'[k] = j[k] /\ number'[k] = number[k]
    BY <1>1, Frame
  <2>2. number'[i] = number[i] /\ number[i] > 0 /\ pc[i] \in Queue
    BY <1>1 DEF Past, Step, Goto, Enter, Scan, Reread, Take, Taken, Spin, Check, Test,
                Less, Equal, EqualLower, Unlock, Last, NextJ
  <2>3. Behind(k, i)
    <3>1. CASE Past(i, k)
      BY <3>1 DEF PastInv
    <3>2. CASE ~Past(i, k)
      <4>1. k = j[i] /\ (Check(i) \/ Equal(i))
        <5>1. Spin(i) \/ Check(i) \/ Less(i) \/ Equal(i)
          BY <1>1, <2>2 DEF Step, Goto, Enter, Scan, Reread, Take, Taken, Unlock
        <5>2. CASE Spin(i) \/ Less(i)
          BY <2>2, <3>2, <5>2 DEF Past, Spin, Less, Goto
        <5>3. CASE Check(i)
          BY <2>2, <3>2, <5>3, NoCpusAssumption DEF Past, Check, Test, Goto, Last, NextJ
        <5>4. CASE Equal(i)
          BY <2>2, <3>2, <5>4, NoCpusAssumption DEF Past, Equal, EqualLower, Test, Goto, Last, NextJ
        <5> QED
          BY <5>1, <5>2, <5>3, <5>4
      <4>2. Yields(k, i)
        BY <4>1 DEF LookInv, Check, Equal, EqualLower, Test, Goto
      <4>3. pc[k] \in Holding => Lex(i, k)
        <5>1. CASE Check(i)
          <6>1. number[k] = 0
            BY <2>2, <3>2, <4>1, <5>1 DEF Check, Test, Goto, Past, Last, NextJ
          <6> QED
            BY <6>1
        <5>2. CASE Equal(i)
          <6>1. ~(number[k] = number[i] /\ k < i)
            BY <2>2, <3>2, <4>1, <5>2 DEF Equal, EqualLower, Test, Goto, Past, Last, NextJ
          <6>2. pc[k] \in Holding => number[k] >= number[i]
            BY <4>1, <5>2 DEF LookInv, Equal, EqualLower, Test, Goto
          <6> QED
            BY <6>1, <6>2 DEF Lex
        <5> QED
          BY <4>1, <5>1, <5>2
      <4>4. pc[k] \in Holding => ~Past(k, i)
        BY <4>3, <2>2 DEF PastInv, Behind, Lex
      <4> QED
        BY <4>2, <4>3, <4>4 DEF Behind, Past
    <3> QED
      BY <3>1, <3>2
  <2>4. Yields(k, i)'
    BY <2>2, <2>3, YieldsKept DEF Behind
  <2> QED
    BY <2>1, <2>2, <2>3, <2>4 DEF Behind, Lex, Past
<1>2. CASE a # i
  <2>1. /\ pc'[i] = pc[i] /\ j'[i] = j[i] /\ number'[i] = number[i]
        /\ Past(i, k) /\ number[i] > 0
    BY <1>2, Frame DEF Past
  <2>2. Behind(k, i)
    BY <2>1 DEF PastInv
  <2>3. Yields(k, i)'
    BY <2>1, <2>2, YieldsKept DEF Behind, Past
  <2>4. CASE a = k
    <3> USE DEF Goto, Behind, Lex, Past
    <3>1. CASE Enter(k)
      BY <2>1, <2>2, <2>3, <3>1 DEF Enter
    <3>2. CASE Scan(k)
      BY <2>1, <2>2, <2>3, <3>2 DEF Scan, Last, NextJ
    <3>3. CASE Reread(k)
      BY <2>1, <2>2, <2>3, <3>3 DEF Reread, Last, NextJ
    <3>4. CASE Take(k)
      BY <2>1, <2>2, <2>3, <3>4 DEF Take, Yields
    <3>5. CASE Taken(k)
      BY <2>1, <2>2, <2>3, <3>5 DEF Taken
    <3>6. CASE Spin(k)
      BY <2>1, <2>2, <2>3, <3>6 DEF Spin
    <3>7. CASE Check(k)
      <4>1. ~Past(k, i) /\ (j[k] = i => number[j[k]] # 0) /\ (pc[k] \in Holding => Lex(i, k))
        BY <2>1, <2>2
      <4>2. pc'[k] # "critical" /\ ~Past(k, i)'
        <5>1. CASE number[j[k]] # 0
          BY <3>7, <4>1, <5>1 DEF Check, Test
        <5>2. CASE number[j[k]] = 0
          <6>0. pc[k] = "check"
            BY <3>7 DEF Check, Test
          <6>1. j[k] < i /\ j[k] + 1 # NO_CPUS
            BY <4>1, <5>2, <6>0, NoCpusAssumption
          <6>2. pc'[k] = "spin" /\ j'[k] = j[k] + 1
            BY <3>7, <5>2, <6>1 DEF Check, Test, NextJ, Last
          <6> QED
            BY <6>1, <6>2
        <5> QED
          BY <5>1, <5>2
      <4> QED
        BY <2>1, <2>3, <3>7, <4>1, <4>2 DEF Check, Test
    <3>8. CASE Less(k)
      BY <2>1, <2>2, <2>3, <3>8 DEF Less
    <3>9. CASE Equal(k)
      <4>1. j[k] = i => number[i] >= number[k]
        BY <2>1, <3>9 DEF LookInv, Equal, EqualLower, Test
      <4> QED
        BY <2>1, <2>2, <2>3, <3>9, <4>1 DEF Equal, EqualLower, Test, Last, NextJ
    <3>10. CASE Unlock(k)
      BY <2>1, <2>2, <2>3, <3>10 DEF Unlock
    <3> QED
      BY <2>4, <3>1, <3>2, <3>3, <3>4, <3>5, <3>6, <3>7, <3>8, <3>9, <3>10 DEF Step
  <2>5. CASE a # k
    <3>1. pc'[k] = pc[k] /\ j'[k] = j[k] /\ number'[k] = number[k]
      BY <2>5, Frame
    <3> QED
      BY <2>1, <2>2, <2>3, <3>1 DEF Behind, Lex, Past
  <2> QED
    BY <2>4, <2>5
<1> QED
  BY <1>1, <1>2

LEMMA LookStep ==
  ASSUME IInv, NEW a \in CPU, Enter(a) \/ Step(a)
  PROVE  LookInv'
<1> SUFFICES ASSUME NEW i \in CPU, NEW k \in CPU, i # k, k = j'[i],
                    pc'[i] \in {"check", "less", "equal"}
             PROVE  /\ Yields(k, i)'
                    /\ pc'[i] = "equal" /\ pc'[k] \in Holding => number'[k] >= number'[i]
  BY DEF LookInv
<1> USE CpuFacts DEF IInv, TypeOK, ShapeInv, PC, Queue, Holding, Doorway
<1>1. CASE a = i
  <2>1. /\ pc'[k] = pc[k] /\ j'[k] = j[k] /\ number'[k] = number[k]
        /\ max'[k] = max[k] /\ entering'[k] = entering[k]
    BY <1>1, Frame
  <2>2. number'[i] = number[i] /\ k = j[i] /\ pc[i] \in Queue
    BY <1>1 DEF Step, Goto, Enter, Scan, Reread, Take, Taken, Spin, Check, Test,
                Less, Equal, EqualLower, Unlock, Last, NextJ
  <2>3. CASE Spin(i)
    BY <2>1, <2>2, <2>3 DEF Spin, Goto, Yields
  <2>4. CASE pc[i] \in {"check", "less", "equal"}
    <3>1. Yields(k, i)
      BY <2>2, <2>4 DEF LookInv
    <3>2. Yields(k, i)'
      BY <2>2, <3>1, YieldsKept
    <3>3. pc'[i] = "equal" => number[k] >= number[i]
      BY <1>1, <2>2, <2>4 DEF Step, Goto, Enter, Scan, Reread, Take, Taken, Spin, Check,
                Test, Less, Equal, EqualLower, Unlock, Last, NextJ
    <3> QED
      BY <2>1, <2>2, <3>2, <3>3
  <2> QED
    BY <1>1, <2>2, <2>3, <2>4 DEF Step, Goto, Enter, Scan, Reread, Take, Taken, Check, Test,
                Less, Equal, EqualLower, Unlock
<1>2. CASE a # i
  <2>1. pc'[i] = pc[i] /\ j'[i] = j[i] /\ number'[i] = number[i]
    BY <1>2, Frame
  <2>2. Yields(k, i) /\ (pc[i] = "equal" /\ pc[k] \in Holding => number[k] >= number[i])
    BY <2>1 DEF LookInv
  <2>3. Yields(k, i)'
    BY <2>1, <2>2, YieldsKept
  <2>4. CASE a = k
    <3>1. CASE Take(k)
      BY <2>1, <2>2, <2>3, <3>1 DEF Take, Goto, Yields
    <3>2. CASE ~Take(k)
      <4>1. pc'[k] \in Holding => pc[k] \in Holding /\ number'[k] = number[k]
        BY <2>4, <3>2 DEF Step, Goto, Enter, Scan, Reread, Taken, Spin, Check, Test,
                Less, Equal, EqualLower, Unlock, Last, NextJ
      <4> QED
        BY <2>1, <2>2, <2>3, <4>1
    <3> QED
      BY <3>1, <3>2
  <2>5. CASE a # k
    <3>1. pc'[k] = pc[k] /\ number'[k] = number[k]
      BY <2>5, Frame
    <3> QED
      BY <2>1, <2>2, <2>3, <3>1
  <2> QED
    BY <2>4, <2>5
<1> QED
  BY <1>1, <1>2

LEMMA AheadStep ==
  ASSUME IInv, NEW a \in CPU, Enter(a) \/ Step(a)
  PROVE  AheadInv'
<1> USE CpuFacts DEF IInv, TypeOK, ShapeInv, PC, Queue, Holding, Goto
<1> DEFINE P(i, k) ==
      /\ k # i
      /\ pc[k] \in Queue
      /\ pc[i] \notin {"idle", "critical"}
      /\ Yields(i, k)
      /\ pc[i] \in Holding => number[k] < number[i]
      /\ pc[i] \in Queue => j[i] <= k
      /\ pc[i] = "equal" => j[i] # k
<1> SUFFICES ASSUME NEW i \in CPU, NEW k \in CPU, k \in ahead'[i]
             PROVE  P(i, k)'
  BY DEF AheadInv
<1>1. CASE Enter(a) /\ a = i
  <2>1. k # i /\ pc[k] \in Queue /\ pc'[k] = pc[k]
    BY <1>1 DEF Enter
  <2>2. pc'[i] = "scan" /\ j'[i] = 0
    BY <1>1 DEF Enter
  <2> QED
    BY <2>1, <2>2 DEF Yields
<1>2. CASE ~(Enter(a) /\ a = i)
  <2>1. k \in ahead[i] /\ (k # a \/ pc'[k] # "critical")
    BY <1>2 DEF Step, Enter, Scan, Reread, Take, Taken, Spin, Check, Test, Less, Equal, EqualLower, Unlock
  <2>2. P(i, k) /\ number[k] > 0
    BY <2>1 DEF AheadInv
  <2>3. pc'[k] \in Queue /\ number'[k] = number[k]
    <3>1. CASE a # k
      BY <2>2, <3>1, Frame
    <3>2. CASE a = k
      BY <2>1, <2>2, <3>2 DEF Step, Enter, Scan, Reread, Take, Taken, Spin, Check, Test,
                Less, Equal, EqualLower, Unlock
    <3> QED
      BY <3>1, <3>2
  <2>4. Yields(i, k)'
    BY <2>2, <2>3, YieldsKept
  <2>5. CASE a = i
    <3>1. CASE Scan(i) \/ Reread(i)
      BY <2>2, <2>3, <2>4, <3>1 DEF Scan, Reread, Last, NextJ
    <3>2. CASE Take(i)
      BY <2>2, <2>3, <2>4, <3>2 DEF Take, Yields
    <3>3. CASE Taken(i) \/ Spin(i)
      BY <2>2, <2>3, <2>4, <3>3 DEF Taken, Spin
    <3>4. CASE Check(i)
      <4>1. CASE number[j[i]] # 0
        BY <2>2, <2>3, <2>4, <3>4, <4>1 DEF Check, Test
      <4>2. CASE number[j[i]] = 0
        <5>1. j[i] < k /\ ~Last(i)
          BY <2>2, <3>4, <4>2, NoCpusAssumption DEF Check, Test, Last
        <5>2. pc'[i] = "spin" /\ j'[i] = j[i] + 1 /\ number'[i] = number[i]
          BY <3>4, <4>2, <5>1 DEF Check, Test, NextJ
        <5>3. pc[i] = "check"
          BY <3>4 DEF Check, Test
        <5> QED
          BY <2>2, <2>3, <2>4, <5>1, <5>2, <5>3
      <4> QED
        BY <4>1, <4>2
    <3>7. CASE Equal(i)
      BY <2>2, <2>3, <2>4, <3>7, NoCpusAssumption DEF Equal, EqualLower, Test, Last, NextJ
    <3>5. CASE Less(i)
      BY <2>2, <2>3, <2>4, <3>5 DEF Less
    <3>6. CASE Unlock(i)
      BY <2>2, <3>6 DEF Unlock
    <3> QED
      BY <1>2, <2>5, <3>1, <3>2, <3>3, <3>4, <3>5, <3>6, <3>7 DEF Step
  <2>6. CASE a # i
    <3>1. pc'[i] = pc[i] /\ j'[i] = j[i] /\ number'[i] = number[i]
      BY <2>6, Frame
    <3> QED
      BY <2>2, <2>3, <2>4, <3>1
  <2> QED
    BY <2>5, <2>6
<1> QED
  BY <1>1, <1>2

-----------------------------------------------------------------------------
LEMMA InvInit == Init => IInv
BY CpuFacts DEF Init, IInv, TypeOK, PC, Queue, ShapeInv, PastInv, LookInv, AheadInv,
                Holding, Doorway, Past

LEMMA InvStep == IInv /\ [Next]_vars => IInv'
<1> SUFFICES ASSUME IInv, [Next]_vars PROVE IInv'
  OBVIOUS
<1>1. TypeOK' /\ ShapeInv'
  BY TypeStep, ShapeStep DEF IInv
<1>2. CASE UNCHANGED vars
  BY <1>2 DEF vars, IInv, TypeOK, ShapeInv, PastInv, LookInv, AheadInv, Past, Behind,
              Yields, Lex, Holding, Queue, Doorway
<1>3. CASE Next
  <2> PICK a \in CPU : Enter(a) \/ Step(a)
    BY <1>3 DEF Next
  <2> QED
    BY <1>1, PastStep, LookStep, AheadStep DEF IInv
<1> QED
  BY <1>2, <1>3

THEOREM BakeryInvariant == Spec => []IInv
BY InvInit, InvStep, PTL DEF Spec

(* sync.c:47-70: entering, number and the loop variables keep the ranges   *)
(* of their C types; no loop runs past the last CPU.                       *)
THEOREM BakeryTypeOK == Spec => []TypeOK
<1>1. IInv => TypeOK
  BY DEF IInv
<1> QED
  BY <1>1, BakeryInvariant, PTL

(* sync.c:47-63: two CPUs are never past lamport_lock() at once, whatever  *)
(* number[j] is between two reads of it.                                   *)
LEMMA InvMutex == IInv => MutualExclusion
<1> SUFFICES ASSUME IInv, NEW i \in CPU, NEW k \in CPU, i # k,
                    pc[i] = "critical", pc[k] = "critical"
             PROVE  FALSE
  BY DEF MutualExclusion
<1>1. Behind(k, i)
  BY DEF IInv, PastInv, Past
<1> QED
  BY <1>1 DEF Behind

THEOREM BakeryMutualExclusion == Spec => []MutualExclusion
BY InvMutex, BakeryInvariant, PTL

-----------------------------------------------------------------------------
(* Refinement of the first-come-first-served lock. *)
LEMMA RefineInit == Init => L!LInit
<1> SUFFICES ASSUME Init PROVE L!LInit
  OBVIOUS
<1>1. ASSUME NEW i \in CPU PROVE Stage(i) = "out"
  <2>1. pc[i] = "idle"
    BY DEF Init
  <2> QED
    BY <2>1 DEF Stage, Queue
<1>2. st = [i \in CPU |-> "out"]
  BY <1>1 DEF st
<1> QED
  BY <1>2 DEF Init, L!LInit

LEMMA SameStage ==
  ASSUME ahead' = ahead, \A i \in CPU : Stage(i)' = Stage(i)
  PROVE  UNCHANGED L!lvars
BY DEF st, L!lvars

LEMMA MoveStage ==
  ASSUME NEW i \in CPU, NEW to, Stage(i)' = to,
         \A k \in CPU : k # i => Stage(k)' = Stage(k)
  PROVE  st' = [st EXCEPT ![i] = to]
BY DEF st

LEMMA OthersStay ==
  ASSUME TypeOK, NEW i \in CPU, Enter(i) \/ Step(i), NEW k \in CPU, k # i
  PROVE  Stage(k)' = Stage(k)
BY Frame DEF Stage

LEMMA RefineStep ==
  ASSUME IInv, IInv', [Next]_vars
  PROVE  [L!LNext]_(L!lvars)
<1>t. TypeOK /\ \A k \in CPU : st[k] = Stage(k)
  BY DEF IInv, st
<1>1. ASSUME NEW i \in CPU, Enter(i) PROVE L!LNext
  <2>1. Stage(i) = "out" /\ Stage(i)' = "doorway"
    BY <1>1, <1>t DEF Enter, Goto, Stage, TypeOK, Queue
  <2>2. st' = [st EXCEPT ![i] = "doorway"]
    BY <1>1, <1>t, <2>1, OthersStay, MoveStage
  <2>3. {k \in CPU : pc[k] \in Queue} = {k \in CPU : st[k] = "queue"}
    BY <1>t DEF Stage, TypeOK, PC, Queue
  <2>4. ahead' = [ahead EXCEPT ![i] = {k \in CPU : st[k] = "queue"}]
    BY <1>1, <2>3 DEF Enter
  <2> QED
    BY <1>t, <2>1, <2>2, <2>4 DEF L!LNext, L!Come
<1>2. ASSUME NEW i \in CPU, Scan(i) \/ Reread(i) \/ Take(i) \/ Spin(i) \/ Less(i)
      PROVE  UNCHANGED L!lvars
  <2>1. ahead' = ahead /\ Stage(i)' = Stage(i)
    BY <1>2, <1>t DEF Scan, Reread, Take, Spin, Less, Goto, Stage, TypeOK, Queue
  <2> QED
    BY <1>2, <1>t, <2>1, OthersStay, SameStage DEF Step
<1>3. ASSUME NEW i \in CPU, Taken(i) PROVE L!LNext
  <2>1. Stage(i) = "doorway" /\ Stage(i)' = "queue" /\ ahead' = ahead
    BY <1>3, <1>t DEF Taken, Goto, Stage, TypeOK, Queue
  <2>2. st' = [st EXCEPT ![i] = "queue"]
    BY <1>3, <1>t, <2>1, OthersStay, MoveStage DEF Step
  <2> QED
    BY <1>t, <2>1, <2>2 DEF L!LNext, L!Join
<1>4. ASSUME NEW i \in CPU, Check(i) \/ Equal(i) PROVE L!LNext \/ UNCHANGED L!lvars
  <2>1. Stage(i) = "queue"
    BY <1>4 DEF Check, Equal, EqualLower, Test, Goto, Stage, Queue
  <2>2. CASE pc'[i] # "critical"
    <3>1. ahead' = ahead /\ Stage(i)' = Stage(i)
      BY <1>4, <1>t, <2>2 DEF Check, Equal, EqualLower, Test, Goto, Stage, TypeOK, Queue
    <3> QED
      BY <1>4, <1>t, <3>1, OthersStay, SameStage DEF Step
  <2>3. CASE pc'[i] = "critical"
    <3>1. Stage(i)' = "in" /\ ahead' = [k \in CPU |-> ahead[k] \ {i}] /\ Last(i)
      BY <1>4, <1>t, <2>3 DEF Check, Equal, EqualLower, Test, Goto, Stage, TypeOK, Queue
    <3>2. ahead[i] = {}
      <4> SUFFICES ASSUME NEW k \in CPU, k \in ahead[i] PROVE FALSE
        BY <1>t DEF TypeOK
      <4>1. /\ pc[k] \in Queue /\ j[i] <= k
            /\ pc[i] = "equal" => j[i] # k
        BY <1>4 DEF IInv, AheadInv, Check, Equal, EqualLower, Test, Goto, Queue
      <4>2. j[i] = k
        BY <3>1, <4>1, <1>t, CpuFacts, NoCpusAssumption DEF Last, TypeOK
      <4>3. Check(i) /\ number[k] # 0
        BY <1>4, <4>1, <4>2 DEF IInv, ShapeInv, Holding, Equal, EqualLower, Test, Goto
      <4> QED
        BY <2>3, <4>2, <4>3, <1>t DEF Check, Test, Goto, TypeOK
    <3>3. \A k \in CPU : st[k] # "in"
      <4> SUFFICES ASSUME NEW k \in CPU, pc[k] = "critical" PROVE FALSE
        BY <1>t DEF Stage, TypeOK, PC, Queue
      <4>1. k # i
        BY <1>4 DEF Check, Equal, EqualLower, Test, Goto
      <4>2. pc'[k] = "critical"
        BY <1>4, <1>t, <4>1, Frame DEF Step
      <4>3. Behind(k, i)'
        BY <2>3, <4>1, <4>2 DEF IInv, PastInv, Past
      <4> QED
        BY <4>2, <4>3 DEF Behind
    <3>4. st' = [st EXCEPT ![i] = "in"]
      BY <1>4, <1>t, <3>1, OthersStay, MoveStage DEF Step
    <3> QED
      BY <1>t, <2>1, <3>1, <3>2, <3>3, <3>4 DEF L!LNext, L!LetIn
  <2> QED
    BY <2>2, <2>3
<1>5. ASSUME NEW i \in CPU, Unlock(i) PROVE L!LNext
  <2>1. Stage(i) = "in" /\ Stage(i)' = "out" /\ ahead' = ahead
    BY <1>5, <1>t DEF Unlock, Goto, Stage, TypeOK, Queue
  <2>2. st' = [st EXCEPT ![i] = "out"]
    BY <1>5, <1>t, <2>1, OthersStay, MoveStage DEF Step
  <2> QED
    BY <1>t, <2>1, <2>2 DEF L!LNext, L!Go
<1>6. CASE UNCHANGED vars
  BY <1>6, SameStage DEF vars, Stage
<1> QED
  BY <1>1, <1>2, <1>3, <1>4, <1>5, <1>6 DEF Next, Step

(* lamport_lock/lamport_unlock implement a first-come-first-served lock:   *)
(* sync.c:49-53 is the doorway, sync.c:54-62 the queue.                    *)
THEOREM BakeryRefines == Spec => FirstComeFirstServed
<1>1. IInv /\ IInv' /\ [Next]_vars => [L!LNext]_(L!lvars)
  BY RefineStep
<1> QED
  BY <1>1, RefineInit, BakeryInvariant, PTL DEF Spec, FirstComeFirstServed, L!LSpec
-----------------------------------------------------------------------------
(* Nobody is stuck. *)

(* A set of numbers that is not empty has a least element. *)
LEMMA NatLeast == ASSUME NEW T \in SUBSET Nat, T # {} PROVE \E x \in T : \A y \in T : x <= y
<1> DEFINE R == {ss \in Nat \X Nat : ss[1] < ss[2]}
<1>1. IsWellFoundedOn(R, Nat)
  BY NatLessThanWellFounded DEF OpToRel
<1>2. PICK x \in T : \A y \in T : ~ (<<y, x>> \in R)
  <2> HIDE DEF R
  <2> QED BY <1>1, WFMin
<1>3. ASSUME NEW y \in T PROVE x <= y
  <2>1. <<y, x>> \notin R BY <1>2
  <2> QED BY <2>1
<1> QED BY <1>3

(* Among the CPUs in the lock one is first in the order of the tickets. *)
LEMMA FirstInLine ==
  ASSUME TypeOK, NEW S \in SUBSET CPU, S # {}
  PROVE  \E i \in S : \A k \in S : ~ Lex(k, i)
<1> USE CpuFacts
<1> DEFINE Tickets == {number[i] : i \in S}
<1>1. Tickets \in SUBSET Nat /\ Tickets # {}
  BY DEF TypeOK
<1>2. PICK m \in Tickets : \A n \in Tickets : m <= n
  <2> HIDE DEF Tickets
  <2> QED BY <1>1, NatLeast
<1> DEFINE Lowest == {i \in S : number[i] = m}
<1>3. Lowest \in SUBSET Nat /\ Lowest # {}
  BY <1>2
<1>4. PICK i \in Lowest : \A k \in Lowest : i <= k
  <2> HIDE DEF Lowest
  <2> QED BY <1>3, NatLeast
<1>5. ASSUME NEW k \in S, Lex(k, i) PROVE FALSE
  <2>1. number[k] \in Nat /\ number[i] \in Nat /\ i \in Nat /\ k \in Nat
    BY DEF TypeOK
  <2>2. m <= number[k] /\ number[i] = m
    BY <1>2
  <2>3. number[k] = m => i <= k
    BY <1>4
  <2> QED
    BY <1>5, <2>1, <2>2, <2>3 DEF Lex
<1> QED
  BY <1>4, <1>5

(* While everybody in the lock waits, nobody is choosing a ticket, so that *)
(* each waits for a CPU in the lock whose turn is before its own; the      *)
(* first in line has none.                                                 *)
LEMMA InvMoves == IInv => SomebodyMoves
<1> SUFFICES ASSUME IInv, NEW a \in CPU, pc[a] # "idle",
                    \A i \in CPU : pc[i] # "idle" => Waits(i)
             PROVE  FALSE
  BY DEF SomebodyMoves
<1> DEFINE In == {i \in CPU : pc[i] # "idle"}
<1>1. \A i \in CPU : ~ entering[i]
  BY DEF IInv, ShapeInv, Waits, Doorway
<1>2. ASSUME NEW i \in In PROVE j[i] \in In /\ Lex(j[i], i)
  <2>1. j[i] \in CPU
    BY DEF IInv, TypeOK
  <2>2. number[j[i]] # 0 /\ Lex(j[i], i)
    BY <1>1, <2>1 DEF Waits, EqualLower, Lex
  <2> QED
    BY <2>1, <2>2 DEF IInv, ShapeInv, Holding, Queue
<1>3. PICK i \in In : \A k \in In : ~ Lex(k, i)
  BY FirstInLine DEF IInv
<1> QED
  BY <1>2, <1>3

(* The CPUs in lamport_lock never all wait for each other                  *)
(* (sync.c:56,59): whatever tickets they drew, some CPU that is in the     *)
(* lock or asks for it can take its next step.                             *)
THEOREM BakerySomebodyMoves == Spec => []SomebodyMoves
BY InvMoves, BakeryInvariant, PTL
===============================================================================
