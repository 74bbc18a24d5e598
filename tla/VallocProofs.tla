----------------------------- MODULE VallocProofs -----------------------------
(***************************************************************************)
(* Proofs about Valloc.tla for a heap of any size, any number of           *)
(* allocations, and any program whose sizes and alignments are numbers as  *)
(* the callers of alloc and alloc_with_alignment give them                 *)
(* (ProgramsAssumption).                                                   *)
(***************************************************************************)
EXTENDS Valloc, SequenceTheorems, WellFoundedInduction, TLAPS

-----------------------------------------------------------------------------
(* The inductive invariant, part by part. *)

Chunk == [start : Nat, size : Nat]

TypeOK ==
  /\ calls \in Programs
  /\ top \in Nat
  /\ freelist \in Seq(Chunk)
  /\ blocks \subseteq [start : Nat, size : Nat, call : calls]
  /\ pc \in {"idle", "compact", "shift", "ended"}
  /\ pc = "compact" => chunk \in DOMAIN freelist

(* The chunks of list and the blocks of live are apart from one another,   *)
(* and above t.                                                            *)
Placed(c, t) == c.start \in Nat /\ c.size \in Nat /\ c.size > 0 /\ t <= c.start /\ End(c) <= TOP_OF_HEAP

Laid(list, live, t) ==
  /\ \A n \in DOMAIN list : Placed(list[n], t)
  /\ \A b \in live : Placed(b, t)
  /\ \A b, c \in live : b # c => Apart(b, c)
  /\ \A n, m \in DOMAIN list : n # m => Apart(list[n], list[m])
  /\ \A b \in live, n \in DOMAIN list : Apart(b, list[n])

(* If c is below d, there is a block between them.                         *)
Parted(c, d, live) == c.start < d.start => valloc_is_region_allocated(live, End(c), d.start)

(* Between any two chunks there is a block, or a chunk that is yet to be   *)
(* merged with them.                                                       *)
Separated(list, live, merging) ==
  \A n, m \in DOMAIN list \ merging :
    \/ Parted(list[n], list[m], live)
    \/ \E k \in merging : list[n].start < list[k].start /\ list[k].start < list[m].start

Merging == IF pc = "compact" THEN {chunk} ELSE {}

(* The lowest chunk is above a block, except in the middle of a free.      *)
LowestAboveBlock ==
  pc \in {"idle", "ended"} => \A n \in DOMAIN freelist : valloc_is_region_allocated(blocks, top, freelist[n].start)

(* With sizes that are powers of two the heap is cut into pieces of 32     *)
(* bytes, and nothing is lost at its end.                                  *)
InPieces(c) == (TOP_OF_HEAP - c.start) % 32 = 0 /\ c.size % 32 = 0
EndsAtTop(c) == End(c) = TOP_OF_HEAP

NothingLost ==
  OnlyAlloc =>
    /\ (TOP_OF_HEAP - top) % 32 = 0
    /\ \A b \in blocks : InPieces(b)
    /\ \A n \in DOMAIN freelist : InPieces(freelist[n])
    /\ \/ top = TOP_OF_HEAP
       \/ \E b \in blocks : EndsAtTop(b)
       \/ \E n \in DOMAIN freelist : EndsAtTop(freelist[n])

HeapInv ==
  /\ TypeOK
  /\ AsAsked
  /\ BOT_OF_HEAP <= top /\ top <= TOP_OF_HEAP
  /\ Laid(freelist, blocks, top)
  /\ Separated(freelist, blocks, Merging)
  /\ LowestAboveBlock
  /\ NothingLost

-----------------------------------------------------------------------------
(* The numbers: induction on sets of numbers, and functions defined by     *)
(* recursion.                                                              *)

(* A set of numbers that is not empty has a least element.                 *)
LEMMA NatLeast == ASSUME NEW T \in SUBSET Nat, T # {} PROVE \E x \in T : \A y \in T : x <= y
<1> DEFINE R == {ss \in Nat \X Nat : ss[1] < ss[2]}
<1>1. IsWellFoundedOn(R, Nat)
  BY NatLessThanWellFounded DEF OpToRel
<1>2. PICK x \in T : \A y \in T : ~ (<<y, x>> \in R)
  <2> HIDE DEF R
  <2> QED BY <1>1, WFMin
<1>3. ASSUME NEW y \in T PROVE x <= y
  <2>1. y \in Nat /\ x \in Nat OBVIOUS
  <2>2. <<y, x>> \notin R BY <1>2
  <2>3. ~ (y < x) BY <2>1, <2>2
  <2> QED BY <2>1, <2>3
<1> QED BY <1>3

(* A set that holds every number below which it holds all holds all.       *)
LEMMA StrongInduction ==
  ASSUME NEW S, \A n \in Nat : (\A m \in Nat : m < n => m \in S) => n \in S
  PROVE  \A n \in Nat : n \in S
<1> DEFINE T == {n \in Nat : n \notin S}
<1>1. SUFFICES ASSUME T # {} PROVE FALSE OBVIOUS
<1>2. PICK x \in T : \A y \in T : x <= y BY <1>1, NatLeast
<1>3. \A m \in Nat : m < x => m \in S BY <1>2
<1> QED BY <1>3

LEMMA Induction ==
  ASSUME NEW S, 0 \in S, \A n \in Nat : n \in S => n + 1 \in S
  PROVE  \A n \in Nat : n \in S
<1>1. ASSUME NEW n \in Nat, \A m \in Nat : m < n => m \in S PROVE n \in S
  <2>1. CASE n = 0 BY <2>1
  <2>2. CASE n > 0
    <3>1. n - 1 \in Nat /\ n - 1 < n BY <2>2
    <3>2. n - 1 \in S BY <1>1, <3>1
    <3>3. (n - 1) + 1 \in S BY <3>1, <3>2
    <3> QED BY <3>3
  <2> QED BY <2>1, <2>2
<1> QED BY <1>1, StrongInduction

(* D gives the value of a function at n from its values below n. *)
Recursive(D, V) ==
  /\ D \in [Nat -> [[Nat -> V] -> V]]
  /\ \A n \in Nat : \A g, h \in [Nat -> V] :
       (\A i \in Nat : i < n => g[i] = h[i]) => D[n][g] = D[n][h]

Obeys(f, D, V) == f \in [Nat -> V] /\ \A n \in Nat : f[n] = D[n][f]

(* Then there is such a function. *)
LEMMA RecursionDefines ==
  ASSUME NEW V, V # {}, NEW D, Recursive(D, V)
  PROVE  \E f : Obeys(f, D, V)
<1> DEFINE Upto(n) == {g \in [Nat -> V] : \A i \in Nat : i < n => g[i] = D[i][g]}
           S == {n \in Nat : Upto(n) # {}}
<1> USE DEF Recursive
<1>1. \A n \in Nat : n \in S
  <2>1. 0 \in S
    <3>1. PICK v0 \in V : TRUE OBVIOUS
    <3>2. [i \in Nat |-> v0] \in Upto(0) OBVIOUS
    <3> QED BY <3>2
  <2>2. ASSUME NEW n \in Nat, n \in S PROVE n + 1 \in S
    <3>1. PICK g \in Upto(n) : TRUE BY <2>2
    <3>2. D[n][g] \in V
      <4>1. g \in [Nat -> V] OBVIOUS
      <4> QED BY <4>1
    <3> DEFINE h == [g EXCEPT ![n] = D[n][g]]
    <3>3. h \in [Nat -> V] /\ h[n] = D[n][g] /\ \A i \in Nat : i < n => h[i] = g[i] BY <3>2
    <3>4. ASSUME NEW i \in Nat, i < n + 1 PROVE h[i] = D[i][h]
      <4> HIDE DEF h
      <4>1. i <= n BY <3>4
      <4>2. \A k \in Nat : k < i => h[k] = g[k] BY <3>3, <4>1
      <4>3. D[i][h] = D[i][g] BY <3>3, <4>2
      <4>4. CASE i = n BY <3>3, <4>3, <4>4
      <4>5. CASE i < n
        <5>1. h[i] = g[i] BY <3>3, <4>5
        <5>2. g[i] = D[i][g] BY <4>5
        <5> QED BY <4>3, <5>1, <5>2
      <4>6. i = n \/ i < n BY <4>1
      <4> QED BY <4>4, <4>5, <4>6
    <3>5. h \in Upto(n + 1)
      <4> HIDE DEF h
      <4> QED BY <3>3, <3>4
    <3>6. n + 1 \in Nat OBVIOUS
    <3> HIDE DEF Upto, h
    <3>7. Upto(n + 1) # {} BY <3>5
    <3> QED BY <3>6, <3>7
  <2> HIDE DEF S
  <2> QED BY <2>1, <2>2, Induction
<1>2. ASSUME NEW n \in Nat, NEW m \in Nat, NEW g \in Upto(n), NEW h \in Upto(m)
      PROVE  \A i \in Nat : i < n /\ i < m => g[i] = h[i]
  <2> DEFINE T == {i \in Nat : i < n /\ i < m => g[i] = h[i]}
  <2>1. ASSUME NEW i \in Nat, \A k \in Nat : k < i => k \in T PROVE i \in T
    <3>1. SUFFICES ASSUME i < n, i < m PROVE g[i] = h[i] OBVIOUS
    <3>2. \A k \in Nat : k < i => g[k] = h[k] BY <2>1, <3>1
    <3>3. D[i][g] = D[i][h] BY <3>2
    <3> QED BY <3>1, <3>3
  <2>2. \A i \in Nat : i \in T
    <3> HIDE DEF T
    <3> QED BY <2>1, StrongInduction
  <2> QED BY <2>2
<1> DEFINE G == [n \in Nat |-> CHOOSE g \in Upto(n + 1) : TRUE]
           f == [n \in Nat |-> G[n][n]]
<1>3. ASSUME NEW n \in Nat PROVE G[n] \in Upto(n + 1)
  <2> HIDE DEF Upto
  <2>1. n + 1 \in Nat OBVIOUS
  <2>2. n + 1 \in S
    <3> HIDE DEF S
    <3> QED BY <1>1, <2>1
  <2>3. Upto(n + 1) # {} BY <2>2
  <2> QED BY <2>3
<1>4. f \in [Nat -> V]
  <2>1. ASSUME NEW n \in Nat PROVE G[n][n] \in V
    <3>1. G[n] \in [Nat -> V] BY <1>3
    <3> QED BY <3>1
  <2> HIDE DEF G
  <2> QED BY <2>1
<1>5. ASSUME NEW n \in Nat PROVE f[n] = D[n][f]
  <2>1. G[n] \in [Nat -> V] /\ G[n][n] = D[n][G[n]]
    <3>1. G[n] \in Upto(n + 1) BY <1>3
    <3>2. n < n + 1 OBVIOUS
    <3> HIDE DEF G
    <3> QED BY <3>1, <3>2
  <2>2. \A i \in Nat : i < n => f[i] = G[n][i]
    <3>1. ASSUME NEW i \in Nat, i < n PROVE G[i][i] = G[n][i]
      <4>1. G[i] \in Upto(i + 1) /\ G[n] \in Upto(n + 1) BY <1>3
      <4>2. i + 1 \in Nat /\ n + 1 \in Nat /\ i < i + 1 /\ i < n + 1 BY <3>1
      <4> HIDE DEF Upto, G
      <4> QED BY <1>2, <4>1, <4>2
    <3> HIDE DEF G
    <3> QED BY <3>1
  <2>3. D[n][f] = D[n][G[n]]
    <3> HIDE DEF f, G
    <3> QED BY <1>4, <2>1, <2>2
  <2>4. f[n] = G[n][n]
    <3> HIDE DEF G
    <3> QED OBVIOUS
  <2> QED BY <2>1, <2>3, <2>4
<1> HIDE DEF f
<1> QED BY <1>4, <1>5 DEF Obeys

-----------------------------------------------------------------------------

(* Shl1, bits, is_pow2, Shl1Mod and AndNot are what their definitions say. *)
LEMMA Shl1Def ==
  /\ Shl1 \in [Nat -> Nat]
  /\ Shl1[0] = 1
  /\ \A n \in Nat : Shl1[n + 1] = 2 * Shl1[n]
<1> DEFINE F(f) == [n \in Nat |-> IF n = 0 THEN 1 ELSE 2 * f[n - 1]]
           D == [n \in Nat |-> [f \in [Nat -> Nat] |-> IF n = 0 THEN 1 ELSE 2 * f[n - 1]]]
<1>1. D \in [Nat -> [[Nat -> Nat] -> Nat]]
  <2>1. ASSUME NEW n \in Nat, NEW g \in [Nat -> Nat] PROVE (IF n = 0 THEN 1 ELSE 2 * g[n - 1]) \in Nat
    <3>1. CASE n = 0 BY <3>1
    <3>2. CASE n # 0
      <4>1. n - 1 \in Nat BY <3>2
      <4>2. g[n - 1] \in Nat BY <4>1
      <4> QED BY <3>2, <4>2
    <3> QED BY <3>1, <3>2
  <2> QED BY <2>1
<1>2. \A n \in Nat : \A g \in [Nat -> Nat] : D[n][g] = IF n = 0 THEN 1 ELSE 2 * g[n - 1] OBVIOUS
<1>3. ASSUME NEW n \in Nat, NEW g \in [Nat -> Nat], NEW h \in [Nat -> Nat],
             \A i \in Nat : i < n => g[i] = h[i]
      PROVE  D[n][g] = D[n][h]
  <2>1. n # 0 => n - 1 \in Nat /\ n - 1 < n OBVIOUS
  <2>2. n # 0 => g[n - 1] = h[n - 1] BY <1>3, <2>1
  <2> HIDE DEF D
  <2> QED BY <1>2, <2>2
<1>4. PICK f \in [Nat -> Nat] : \A n \in Nat : f[n] = D[n][f]
  <2> HIDE DEF D
  <2>1. Recursive(D, Nat) BY <1>1, <1>3 DEF Recursive
  <2>2. Nat # {} OBVIOUS
  <2>3. \E f : Obeys(f, D, Nat) BY <2>1, <2>2, RecursionDefines
  <2> QED BY <2>3 DEF Obeys
<1>5. f = F(f)
  <2>1. \A n \in Nat : f[n] = IF n = 0 THEN 1 ELSE 2 * f[n - 1] BY <1>2, <1>4
  <2> QED BY <2>1
<1>6. Shl1 = CHOOSE g : g = F(g) BY DEF Shl1
<1>7. Shl1 = F(Shl1)
  <2> HIDE DEF F
  <2> QED BY <1>5, <1>6
<1>8. Shl1 = [n \in Nat |-> IF n = 0 THEN 1 ELSE 2 * Shl1[n - 1]] BY <1>7
<1>9. \A n \in Nat : n + 1 \in Nat /\ n + 1 # 0 /\ (n + 1) - 1 = n OBVIOUS
<1>10. Shl1[0] = 1 /\ \A n \in Nat : Shl1[n + 1] = 2 * Shl1[n] BY <1>8, <1>9
<1>11. \A n \in Nat : n \in {k \in Nat : Shl1[k] \in Nat}
  <2> DEFINE S == {k \in Nat : Shl1[k] \in Nat}
  <2>1. 0 \in S BY <1>10
  <2>2. ASSUME NEW n \in Nat, n \in S PROVE n + 1 \in S BY <2>2, <1>9, <1>10
  <2> HIDE DEF S
  <2>3. \A n \in Nat : n \in S BY <2>1, <2>2, Induction
  <2> QED BY <2>3 DEF S
<1> QED BY <1>8, <1>10, <1>11

LEMMA Halves == \A i \in Nat : i > 0 => i \div 2 \in Nat /\ i \div 2 < i
OBVIOUS

LEMMA BitsDef ==
  /\ bits \in [Nat -> Nat]
  /\ bits[0] = 0
  /\ \A i \in Nat : i > 0 => bits[i] = 1 + bits[i \div 2]
<1> DEFINE F(f) == [i \in Nat |-> IF i = 0 THEN 0 ELSE 1 + f[i \div 2]]
           D == [i \in Nat |-> [f \in [Nat -> Nat] |-> IF i = 0 THEN 0 ELSE 1 + f[i \div 2]]]
<1>1. D \in [Nat -> [[Nat -> Nat] -> Nat]]
  <2>1. ASSUME NEW i \in Nat, NEW g \in [Nat -> Nat] PROVE (IF i = 0 THEN 0 ELSE 1 + g[i \div 2]) \in Nat
    <3>1. i \div 2 \in Nat OBVIOUS
    <3>2. g[i \div 2] \in Nat BY <3>1
    <3> QED BY <3>2
  <2> QED BY <2>1
<1>2. \A i \in Nat : \A g \in [Nat -> Nat] : D[i][g] = IF i = 0 THEN 0 ELSE 1 + g[i \div 2] OBVIOUS
<1>3. ASSUME NEW i \in Nat, NEW g \in [Nat -> Nat], NEW h \in [Nat -> Nat],
             \A k \in Nat : k < i => g[k] = h[k]
      PROVE  D[i][g] = D[i][h]
  <2>1. i # 0 => i \div 2 \in Nat /\ i \div 2 < i BY Halves
  <2>2. i # 0 => g[i \div 2] = h[i \div 2] BY <1>3, <2>1
  <2> HIDE DEF D
  <2> QED BY <1>2, <2>2
<1>4. PICK f \in [Nat -> Nat] : \A i \in Nat : f[i] = D[i][f]
  <2> HIDE DEF D
  <2>1. Recursive(D, Nat) BY <1>1, <1>3 DEF Recursive
  <2>2. Nat # {} OBVIOUS
  <2>3. \E f : Obeys(f, D, Nat) BY <2>1, <2>2, RecursionDefines
  <2> QED BY <2>3 DEF Obeys
<1>5. f = F(f)
  <2>1. \A i \in Nat : f[i] = IF i = 0 THEN 0 ELSE 1 + f[i \div 2] BY <1>2, <1>4
  <2> QED BY <2>1
<1>6. bits = CHOOSE g : g = F(g) BY DEF bits
<1>7. bits = F(bits)
  <2> HIDE DEF F
  <2> QED BY <1>5, <1>6
<1>8. bits = [i \in Nat |-> IF i = 0 THEN 0 ELSE 1 + bits[i \div 2]] BY <1>7
<1>9. bits[0] = 0 /\ \A i \in Nat : i > 0 => bits[i] = 1 + bits[i \div 2] BY <1>8
<1>10. \A i \in Nat : i \in {k \in Nat : bits[k] \in Nat}
  <2> DEFINE S == {k \in Nat : bits[k] \in Nat}
  <2>1. ASSUME NEW i \in Nat, \A k \in Nat : k < i => k \in S PROVE i \in S
    <3>1. CASE i = 0 BY <3>1, <1>9
    <3>2. CASE i > 0
      <4>1. i \div 2 \in S BY <2>1, <3>2, Halves
      <4> QED BY <4>1, <3>2, <1>9
    <3> QED BY <3>1, <3>2
  <2> HIDE DEF S
  <2>2. \A i \in Nat : i \in S BY <2>1, StrongInduction
  <2> QED BY <2>2 DEF S
<1> QED BY <1>8, <1>9, <1>10

LEMMA OddPartDef ==
  /\ odd_part \in [Nat -> Nat]
  /\ \A i \in Nat : i = 0 \/ i % 2 = 1 => odd_part[i] = i
  /\ \A i \in Nat : i > 0 /\ i % 2 = 0 => odd_part[i] = odd_part[i \div 2]
<1> DEFINE F(f) == [i \in Nat |-> IF i = 0 \/ i % 2 = 1 THEN i ELSE f[i \div 2]]
           D == [i \in Nat |-> [f \in [Nat -> Nat] |-> IF i = 0 \/ i % 2 = 1 THEN i ELSE f[i \div 2]]]
<1>1. D \in [Nat -> [[Nat -> Nat] -> Nat]]
  <2>1. ASSUME NEW i \in Nat, NEW g \in [Nat -> Nat] PROVE (IF i = 0 \/ i % 2 = 1 THEN i ELSE g[i \div 2]) \in Nat
    <3>1. i \div 2 \in Nat OBVIOUS
    <3>2. g[i \div 2] \in Nat BY <3>1
    <3> QED BY <3>2
  <2> QED BY <2>1
<1>2. \A i \in Nat : \A g \in [Nat -> Nat] : D[i][g] = IF i = 0 \/ i % 2 = 1 THEN i ELSE g[i \div 2] OBVIOUS
<1>3. ASSUME NEW i \in Nat, NEW g \in [Nat -> Nat], NEW h \in [Nat -> Nat],
             \A k \in Nat : k < i => g[k] = h[k]
      PROVE  D[i][g] = D[i][h]
  <2>1. i # 0 => i \div 2 \in Nat /\ i \div 2 < i BY Halves
  <2>2. i # 0 => g[i \div 2] = h[i \div 2] BY <1>3, <2>1
  <2> HIDE DEF D
  <2> QED BY <1>2, <2>2
<1>4. PICK f \in [Nat -> Nat] : \A i \in Nat : f[i] = D[i][f]
  <2> HIDE DEF D
  <2>1. Recursive(D, Nat) BY <1>1, <1>3 DEF Recursive
  <2>2. Nat # {} OBVIOUS
  <2>3. \E f : Obeys(f, D, Nat) BY <2>1, <2>2, RecursionDefines
  <2> QED BY <2>3 DEF Obeys
<1>5. f = F(f)
  <2>1. \A i \in Nat : f[i] = IF i = 0 \/ i % 2 = 1 THEN i ELSE f[i \div 2] BY <1>2, <1>4
  <2> QED BY <2>1
<1>6. odd_part = CHOOSE g : g = F(g) BY DEF odd_part
<1>7. odd_part = F(odd_part)
  <2> HIDE DEF F
  <2> QED BY <1>5, <1>6
<1>8. odd_part = [i \in Nat |-> IF i = 0 \/ i % 2 = 1 THEN i ELSE odd_part[i \div 2]] BY <1>7
<1>9. /\ \A i \in Nat : i = 0 \/ i % 2 = 1 => odd_part[i] = i
      /\ \A i \in Nat : i > 0 /\ i % 2 = 0 => odd_part[i] = odd_part[i \div 2] BY <1>8
<1>10. \A i \in Nat : i \in {k \in Nat : odd_part[k] \in Nat}
  <2> DEFINE S == {k \in Nat : odd_part[k] \in Nat}
  <2>1. ASSUME NEW i \in Nat, \A k \in Nat : k < i => k \in S PROVE i \in S
    <3>1. CASE i = 0 \/ i % 2 = 1 BY <3>1, <1>9
    <3>2. CASE i > 0 /\ i % 2 = 0
      <4>1. i \div 2 \in S BY <2>1, <3>2, Halves
      <4> QED BY <4>1, <3>2, <1>9
    <3> QED BY <3>1, <3>2
  <2> HIDE DEF S
  <2>2. \A i \in Nat : i \in S BY <2>1, StrongInduction
  <2> QED BY <2>2 DEF S
<1> QED BY <1>8, <1>9, <1>10

LEMMA Shl1ModDef ==
  \A to \in Nat \ {0} :
    /\ Shl1Mod[0][to] = 1 % to
    /\ \A n \in Nat : Shl1Mod[n + 1][to] = (2 * Shl1Mod[n][to]) % to
    /\ \A n \in Nat : Shl1Mod[n][to] \in 0 .. to - 1
<1> DEFINE V == [Nat \ {0} -> Nat]
           G(n, f) == [to \in Nat \ {0} |-> IF n = 0 THEN 1 % to ELSE (2 * f[n - 1][to]) % to]
           F(f) == [n \in Nat |-> G(n, f)]
           D == [n \in Nat |-> [f \in [Nat -> V] |-> G(n, f)]]
<1>1. ASSUME NEW n \in Nat, NEW g \in [Nat -> V] PROVE G(n, g) \in V
  <2>1. ASSUME NEW to \in Nat \ {0} PROVE (IF n = 0 THEN 1 % to ELSE (2 * g[n - 1][to]) % to) \in Nat
    <3>1. CASE n = 0 BY <3>1
    <3>2. CASE n # 0
      <4>1. n - 1 \in Nat BY <3>2
      <4>2. g[n - 1] \in V BY <4>1
      <4>3. g[n - 1][to] \in Nat BY <4>2
      <4>4. PICK v \in Nat : v = g[n - 1][to] BY <4>3
      <4>5. (2 * v) % to \in Nat OBVIOUS
      <4> QED BY <3>2, <4>4, <4>5
    <3> QED BY <3>1, <3>2
  <2> QED BY <2>1
<1>2. D \in [Nat -> [[Nat -> V] -> V]]
  <2> HIDE DEF G, V
  <2> QED BY <1>1
<1>3. \A n \in Nat : \A g \in [Nat -> V] : D[n][g] = G(n, g)
  <2> HIDE DEF G, V
  <2> QED OBVIOUS
<1>4. ASSUME NEW n \in Nat, NEW g \in [Nat -> V], NEW h \in [Nat -> V],
             \A k \in Nat : k < n => g[k] = h[k]
      PROVE  D[n][g] = D[n][h]
  <2>1. n # 0 => n - 1 \in Nat /\ n - 1 < n OBVIOUS
  <2>2. n # 0 => g[n - 1] = h[n - 1] BY <1>4, <2>1
  <2>3. G(n, g) = G(n, h) BY <2>2
  <2> HIDE DEF D, G, V
  <2> QED BY <1>3, <2>3
<1>5. PICK f \in [Nat -> V] : \A n \in Nat : f[n] = D[n][f]
  <2>1. V # {}
    <3>1. [to \in Nat \ {0} |-> 0] \in V OBVIOUS
    <3> HIDE DEF V
    <3> QED BY <3>1
  <2> HIDE DEF D, V
  <2>2. Recursive(D, V) BY <1>2, <1>4 DEF Recursive
  <2>3. \E f : Obeys(f, D, V) BY <2>1, <2>2, RecursionDefines
  <2> QED BY <2>3 DEF Obeys
<1>6. f = F(f)
  <2> HIDE DEF D, G, V
  <2>1. \A n \in Nat : f[n] = G(n, f) BY <1>3, <1>5
  <2> QED BY <2>1
<1>7. Shl1Mod = CHOOSE g : g = F(g) BY DEF Shl1Mod
<1>8. Shl1Mod = F(Shl1Mod)
  <2> HIDE DEF F
  <2> QED BY <1>6, <1>7
<1>9. \A n \in Nat : Shl1Mod[n] = G(n, Shl1Mod)
  <2> HIDE DEF G
  <2> QED BY <1>8
<1>10. ASSUME NEW to \in Nat \ {0}
       PROVE  /\ Shl1Mod[0][to] = 1 % to
              /\ \A n \in Nat : Shl1Mod[n + 1][to] = (2 * Shl1Mod[n][to]) % to
  <2>1. Shl1Mod[0][to] = 1 % to BY <1>9
  <2>2. ASSUME NEW n \in Nat PROVE Shl1Mod[n + 1][to] = (2 * Shl1Mod[n][to]) % to
    <3>1. n + 1 \in Nat /\ n + 1 # 0 /\ (n + 1) - 1 = n OBVIOUS
    <3>2. Shl1Mod[n + 1] = G(n + 1, Shl1Mod) BY <1>9, <3>1
    <3>3. Shl1Mod[n + 1][to] = (2 * Shl1Mod[(n + 1) - 1][to]) % to BY <3>1, <3>2
    <3> QED BY <3>1, <3>3
  <2> QED BY <2>1, <2>2
<1>11. ASSUME NEW to \in Nat \ {0} PROVE \A n \in Nat : Shl1Mod[n][to] \in 0 .. to - 1
  <2> DEFINE S == {n \in Nat : Shl1Mod[n][to] \in 0 .. to - 1}
  <2>1. 0 \in S
    <3>1. 1 % to \in 0 .. to - 1 OBVIOUS
    <3> QED BY <3>1, <1>10
  <2>2. ASSUME NEW n \in Nat, n \in S PROVE n + 1 \in S
    <3>1. PICK v \in Nat : v = Shl1Mod[n][to] BY <2>2
    <3>2. (2 * v) % to \in 0 .. to - 1 OBVIOUS
    <3>3. Shl1Mod[n + 1][to] \in 0 .. to - 1 BY <3>1, <3>2, <1>10
    <3>4. n + 1 \in Nat OBVIOUS
    <3>5. \A k : k \in Nat /\ Shl1Mod[k][to] \in 0 .. to - 1 => k \in S OBVIOUS
    <3> HIDE DEF S
    <3> QED BY <3>3, <3>4, <3>5
  <2>3. \A n \in Nat : n \in S
    <3> HIDE DEF S
    <3> QED BY <2>1, <2>2, Induction
  <2> QED BY <2>3
<1> HIDE DEF F, G, D, V
<1> QED BY <1>10, <1>11

LEMMA AndNotDef ==
  /\ \A m \in Nat : AndNot[0][m] = 0
  /\ \A v, m \in Nat : v > 0 =>
       AndNot[v][m] = 2 * AndNot[v \div 2][m \div 2] + (IF m % 2 = 1 THEN 0 ELSE v % 2)
  /\ \A v, m \in Nat : AndNot[v][m] \in 0 .. v
<1> DEFINE V == [Nat -> Nat]
           G(v, f) == [m \in Nat |-> IF v = 0 THEN 0
                                     ELSE 2 * f[v \div 2][m \div 2] + (IF m % 2 = 1 THEN 0 ELSE v % 2)]
           F(f) == [v \in Nat |-> G(v, f)]
           D == [v \in Nat |-> [f \in [Nat -> V] |-> G(v, f)]]
<1>1. ASSUME NEW v \in Nat, NEW g \in [Nat -> V] PROVE G(v, g) \in V
  <2>1. ASSUME NEW m \in Nat
        PROVE  (IF v = 0 THEN 0 ELSE 2 * g[v \div 2][m \div 2] + (IF m % 2 = 1 THEN 0 ELSE v % 2)) \in Nat
    <3>1. v \div 2 \in Nat /\ m \div 2 \in Nat OBVIOUS
    <3>2. g[v \div 2] \in V BY <3>1
    <3>3. PICK w \in Nat : w = g[v \div 2][m \div 2] BY <3>1, <3>2
    <3>4. v % 2 \in Nat OBVIOUS
    <3>5. (IF m % 2 = 1 THEN 0 ELSE v % 2) \in Nat BY <3>4
    <3>6. PICK u \in Nat : u = IF m % 2 = 1 THEN 0 ELSE v % 2 BY <3>5
    <3>7. 2 * w + u \in Nat OBVIOUS
    <3> QED BY <3>3, <3>6, <3>7
  <2> QED BY <2>1
<1>2. D \in [Nat -> [[Nat -> V] -> V]]
  <2> HIDE DEF G, V
  <2> QED BY <1>1
<1>3. \A v \in Nat : \A g \in [Nat -> V] : D[v][g] = G(v, g)
  <2> HIDE DEF G, V
  <2> QED OBVIOUS
<1>4. ASSUME NEW v \in Nat, NEW g \in [Nat -> V], NEW h \in [Nat -> V],
             \A k \in Nat : k < v => g[k] = h[k]
      PROVE  D[v][g] = D[v][h]
  <2>1. v # 0 => v \div 2 \in Nat /\ v \div 2 < v BY Halves
  <2>2. v # 0 => g[v \div 2] = h[v \div 2] BY <1>4, <2>1
  <2>3. G(v, g) = G(v, h) BY <2>2
  <2> HIDE DEF D, G, V
  <2> QED BY <1>3, <2>3
<1>5. PICK f \in [Nat -> V] : \A v \in Nat : f[v] = D[v][f]
  <2>1. V # {}
    <3>1. [m \in Nat |-> 0] \in V OBVIOUS
    <3> HIDE DEF V
    <3> QED BY <3>1
  <2> HIDE DEF D, V
  <2>2. Recursive(D, V) BY <1>2, <1>4 DEF Recursive
  <2>3. \E f : Obeys(f, D, V) BY <2>1, <2>2, RecursionDefines
  <2> QED BY <2>3 DEF Obeys
<1>6. f = F(f)
  <2> HIDE DEF D, G, V
  <2>1. \A v \in Nat : f[v] = G(v, f) BY <1>3, <1>5
  <2> QED BY <2>1
<1>7. AndNot = CHOOSE g : g = F(g) BY DEF AndNot
<1>8. AndNot = F(AndNot)
  <2> HIDE DEF F
  <2> QED BY <1>6, <1>7
<1>9. \A v \in Nat : AndNot[v] = G(v, AndNot)
  <2> HIDE DEF G
  <2> QED BY <1>8
<1>10. /\ \A m \in Nat : AndNot[0][m] = 0
       /\ \A v, m \in Nat : v > 0 =>
            AndNot[v][m] = 2 * AndNot[v \div 2][m \div 2] + (IF m % 2 = 1 THEN 0 ELSE v % 2)
  <2>1. ASSUME NEW m \in Nat PROVE AndNot[0][m] = 0 BY <1>9
  <2>2. ASSUME NEW v \in Nat, NEW m \in Nat, v > 0
        PROVE  AndNot[v][m] = 2 * AndNot[v \div 2][m \div 2] + (IF m % 2 = 1 THEN 0 ELSE v % 2)
    <3>1. AndNot[v] = G(v, AndNot) BY <1>9
    <3>2. v # 0 BY <2>2
    <3> QED BY <3>1, <3>2
  <2> HIDE DEF F, G, D, V
  <2> QED BY <2>1, <2>2
<1>11. \A v, m \in Nat : AndNot[v][m] \in 0 .. v
  <2> DEFINE S == {v \in Nat : \A m \in Nat : AndNot[v][m] \in 0 .. v}
  <2>1. ASSUME NEW v \in Nat, \A k \in Nat : k < v => k \in S PROVE v \in S
    <3>1. ASSUME NEW m \in Nat PROVE AndNot[v][m] \in 0 .. v
      <4>1. CASE v = 0 BY <4>1, <1>10
      <4>2. CASE v > 0
        <5>1. v \div 2 \in S BY <2>1, <4>2, Halves
        <5>2. m \div 2 \in Nat OBVIOUS
        <5>3. PICK w \in 0 .. v \div 2 : w = AndNot[v \div 2][m \div 2] BY <5>1, <5>2
        <5>4. AndNot[v][m] = 2 * w + (IF m % 2 = 1 THEN 0 ELSE v % 2) BY <5>3, <4>2, <1>10
        <5>5. 2 * (v \div 2) + (v % 2) = v OBVIOUS
        <5>6. v \div 2 \in Nat /\ v % 2 \in 0 .. 1 OBVIOUS
        <5>7. PICK h \in Nat, r \in 0 .. 1 : h = v \div 2 /\ r = v % 2 BY <5>6
        <5>8. w \in 0 .. h /\ h \in Nat /\ r \in 0 .. 1 /\ 2 * h + r = v BY <5>3, <5>5, <5>7
        <5>9. AndNot[v][m] = 2 * w \/ AndNot[v][m] = 2 * w + r BY <5>4, <5>7, <5>8
        <5>10. 2 * w \in 0 .. v /\ 2 * w + r \in 0 .. v BY <5>8
        <5> QED BY <5>9, <5>10
      <4> QED BY <4>1, <4>2
    <3> QED BY <3>1
  <2>2. \A v \in Nat : v \in S
    <3> HIDE DEF S
    <3> QED BY <2>1, StrongInduction
  <2> QED BY <2>2
<1> HIDE DEF F, G, D, V
<1> QED BY <1>10, <1>11

(* Division. *)
LEMMA Division ==
  ASSUME NEW x \in Int, NEW d \in Nat \ {0}
  PROVE  /\ x \div d \in Int /\ x % d \in 0 .. d - 1
         /\ x = d * (x \div d) + (x % d)
OBVIOUS

LEMMA MultipleMod ==
  ASSUME NEW q \in Int, NEW d \in Nat \ {0}
  PROVE  (d * q) % d = 0
<1> DEFINE p == (d * q) \div d
           m == (d * q) % d
<1>1. d * q \in Int OBVIOUS
<1>2. p \in Int /\ m \in 0 .. d - 1 /\ d * q = d * p + m BY <1>1, Division
<1> HIDE DEF p, m
<1>3. d * (q - p) = m BY <1>2
<1>4. PICK k \in Int : k = q - p BY <1>2
<1>5. d * k = m BY <1>3, <1>4
<1>6. CASE k >= 1
  <2>1. PICK j \in Nat : k = j + 1
    <3>1. k - 1 \in Nat /\ k = (k - 1) + 1 BY <1>6
    <3> QED BY <3>1
  <2>2. d * (j + 1) = d * j + d /\ d * j \in Nat OBVIOUS
  <2> QED BY <2>1, <2>2, <1>5, <1>2
<1>7. CASE k <= -1
  <2>1. PICK j \in Nat : k = - j - 1
    <3>1. - k - 1 \in Nat /\ k = - (- k - 1) - 1 BY <1>7
    <3> QED BY <3>1
  <2>2. d * (- j - 1) = - (d * j) - d /\ d * j \in Nat OBVIOUS
  <2> QED BY <2>1, <2>2, <1>5, <1>2
<1>8. CASE k = 0
  <2>1. m = 0 BY <1>8, <1>5
  <2> QED BY <2>1 DEF m
<1> QED BY <1>6, <1>7, <1>8

(* A remainder by a multiple of 8 is the number, modulo 8. *)
LEMMA ModByEight ==
  ASSUME NEW x \in Int, NEW d \in Nat \ {0}, d % 8 = 0
  PROVE  (x % d) % 8 = x % 8
<1>1. PICK q \in Int, r \in Int : x = d * q + r /\ r = x % d BY Division
<1>2. PICK h \in Int : d = 8 * h BY Division
<1>3. PICK p \in Int : p = h * q OBVIOUS
<1>4. x = 8 * p + r BY <1>1, <1>2, <1>3
<1>5. x % 8 = r % 8 BY <1>4
<1> QED BY <1>1, <1>5

(* Powers of two. *)
LEMMA Shl1Grows == \A k \in Nat : Shl1[k] > 0 /\ \A n \in Nat : n < k => Shl1[n] < Shl1[k]
<1> DEFINE S == {k \in Nat : Shl1[k] > 0 /\ \A n \in Nat : n < k => Shl1[n] < Shl1[k]}
<1>1. 0 \in S BY Shl1Def
<1>2. ASSUME NEW k \in Nat, k \in S PROVE k + 1 \in S
  <2>1. Shl1[k] \in Nat /\ Shl1[k] > 0 /\ Shl1[k + 1] = 2 * Shl1[k] BY <1>2, Shl1Def
  <2>2. ASSUME NEW n \in Nat, n < k + 1 PROVE Shl1[n] < Shl1[k + 1]
    <3>1. Shl1[n] \in Nat /\ (n = k \/ n < k) BY <2>2, Shl1Def
    <3>2. CASE n = k BY <3>2, <2>1
    <3>3. CASE n < k
      <4>1. Shl1[n] < Shl1[k] BY <3>3, <1>2
      <4> QED BY <4>1, <2>1, <3>1
    <3> QED BY <3>1, <3>2, <3>3
  <2>3. k + 1 \in Nat /\ Shl1[k + 1] > 0 BY <2>1
  <2> QED BY <2>2, <2>3
<1>3. \A k \in Nat : k \in S
  <2> HIDE DEF S
  <2> QED BY <1>1, <1>2, Induction
<1> QED BY <1>3

LEMMA NextPow2Above == \A i \in Nat : next_largest_pow2(i) \in Nat /\ next_largest_pow2(i) > i
<1> DEFINE S == {i \in Nat : Shl1[bits[i]] > i}
<1>1. ASSUME NEW i \in Nat, \A k \in Nat : k < i => k \in S PROVE i \in S
  <2>1. CASE i = 0 BY <2>1, BitsDef, Shl1Def
  <2>2. CASE i > 0
    <3>1. i \div 2 \in S BY <1>1, <2>2, Halves
    <3>2. PICK n \in Nat : n = bits[i \div 2] BY <3>1, BitsDef
    <3>3. bits[i] = n + 1 BY <3>2, <2>2, BitsDef
    <3>4. Shl1[n + 1] = 2 * Shl1[n] /\ Shl1[n] \in Nat BY Shl1Def
    <3>5. Shl1[n] > i \div 2 BY <3>1, <3>2
    <3>6. 2 * Shl1[n] > i BY <3>4, <3>5
    <3> QED BY <3>3, <3>4, <3>6
  <2> QED BY <2>1, <2>2
<1>2. \A i \in Nat : i \in S
  <2> HIDE DEF S
  <2> QED BY <1>1, StrongInduction
<1> QED BY <1>2, BitsDef, Shl1Def DEF next_largest_pow2

LEMMA Shl1Multiple == \A n \in Nat : n >= 5 => Shl1[n] % 32 = 0
<1>1. SUFFICES ASSUME NEW n \in Nat, n >= 5 PROVE Shl1[n] % 32 = 0 OBVIOUS
<1>2. PICK k \in Nat : n = k + 5 
  <2>1. n - 5 \in Nat /\ n = (n - 5) + 5 BY <1>1
  <2> QED BY <2>1
<1>3. PICK v \in Nat : v = Shl1[k] BY Shl1Def
<1>4. Shl1[k + 1] = 2 * v BY <1>3, Shl1Def
<1>5. Shl1[(k + 1) + 1] = 4 * v BY <1>4, Shl1Def
<1>6. Shl1[((k + 1) + 1) + 1] = 8 * v BY <1>5, Shl1Def
<1>7. Shl1[(((k + 1) + 1) + 1) + 1] = 16 * v BY <1>6, Shl1Def
<1>8. Shl1[((((k + 1) + 1) + 1) + 1) + 1] = 32 * v BY <1>7, Shl1Def
<1>9. Shl1[n] = 32 * v BY <1>2, <1>8
<1> QED BY <1>9

LEMMA BitsOfSmall ==
  /\ \A i \in Nat : i >= 16 => bits[i] >= 5
  /\ bits[8] = 4 /\ bits[24] = 5 /\ bits[32] = 6 /\ bits[64] = 7
  /\ next_largest_pow2(24) = 32 /\ next_largest_pow2(32) = 64
<1>1. bits[1] = 1 BY BitsDef
<1>2. bits[2] = 2 BY <1>1, BitsDef
<1>3. bits[4] = 3 BY <1>2, BitsDef
<1>4. bits[8] = 4 BY <1>3, BitsDef
<1>5. bits[16] = 5 BY <1>4, BitsDef
<1>6. bits[32] = 6 BY <1>5, BitsDef
<1>7. bits[64] = 7 BY <1>6, BitsDef
<1>8. bits[3] = 2 BY <1>1, BitsDef
<1>9. bits[6] = 3 BY <1>8, BitsDef
<1>10. bits[12] = 4 BY <1>9, BitsDef
<1>11. bits[24] = 5 BY <1>10, BitsDef
<1>12. ASSUME NEW i \in Nat, i >= 16 PROVE bits[i] >= 5
  <2>1. PICK a \in Nat : a = i \div 2 OBVIOUS
  <2>2. a >= 8 /\ bits[i] = 1 + bits[a] BY <2>1, <1>12, BitsDef
  <2>3. PICK b \in Nat : b = a \div 2 OBVIOUS
  <2>4. b >= 4 /\ bits[a] = 1 + bits[b] BY <2>2, <2>3, BitsDef
  <2>5. PICK c \in Nat : c = b \div 2 OBVIOUS
  <2>6. c >= 2 /\ bits[b] = 1 + bits[c] BY <2>4, <2>5, BitsDef
  <2>7. PICK d \in Nat : d = c \div 2 OBVIOUS
  <2>8. d >= 1 /\ bits[c] = 1 + bits[d] BY <2>6, <2>7, BitsDef
  <2>9. bits[d] = 1 + bits[d \div 2] /\ d \div 2 \in Nat BY <2>8, BitsDef
  <2>10. bits[d \div 2] \in Nat BY <2>9, BitsDef
  <2> QED BY <2>2, <2>4, <2>6, <2>8, <2>9, <2>10
<1>13. Shl1[0] = 1 BY Shl1Def
<1>14. Shl1[1] = 2
  <2>1. Shl1[0 + 1] = 2 BY <1>13, Shl1Def
  <2> QED BY <2>1
<1>15. Shl1[2] = 4
  <2>1. Shl1[1 + 1] = 4 BY <1>14, Shl1Def
  <2> QED BY <2>1
<1>16. Shl1[3] = 8
  <2>1. Shl1[2 + 1] = 8 BY <1>15, Shl1Def
  <2> QED BY <2>1
<1>17. Shl1[4] = 16
  <2>1. Shl1[3 + 1] = 16 BY <1>16, Shl1Def
  <2> QED BY <2>1
<1>18. Shl1[5] = 32
  <2>1. Shl1[4 + 1] = 32 BY <1>17, Shl1Def
  <2> QED BY <2>1
<1>19. Shl1[6] = 64
  <2>1. Shl1[5 + 1] = 64 BY <1>18, Shl1Def
  <2> QED BY <2>1
<1> QED BY <1>4, <1>6, <1>7, <1>11, <1>12, <1>18, <1>19 DEF next_largest_pow2

(* A power of two that a free chunk fits into is a multiple of 32. *)
LEMMA Pow2Multiple == \A i \in Nat : is_pow2(i) /\ i >= 24 => i % 32 = 0
<1>1. SUFFICES ASSUME NEW i \in Nat, odd_part[i] = 1, i >= 24 PROVE i % 32 = 0 BY DEF is_pow2
<1>2. PICK a \in Nat : a = i \div 2 OBVIOUS
<1>3. i % 2 # 1 BY <1>1, OddPartDef
<1>4. i = 2 * a /\ a >= 12 BY <1>1, <1>2, <1>3
<1>5. odd_part[a] = 1 BY <1>1, <1>2, <1>3, <1>4, OddPartDef
<1>6. PICK b \in Nat : b = a \div 2 OBVIOUS
<1>7. a % 2 # 1 BY <1>4, <1>5, OddPartDef
<1>8. a = 2 * b /\ b >= 6 BY <1>4, <1>6, <1>7
<1>9. odd_part[b] = 1 BY <1>5, <1>6, <1>7, <1>8, OddPartDef
<1>10. PICK c \in Nat : c = b \div 2 OBVIOUS
<1>11. b % 2 # 1 BY <1>8, <1>9, OddPartDef
<1>12. b = 2 * c /\ c >= 3 BY <1>8, <1>10, <1>11
<1>13. odd_part[c] = 1 BY <1>9, <1>10, <1>11, <1>12, OddPartDef
<1>14. PICK d \in Nat : d = c \div 2 OBVIOUS
<1>15. c % 2 # 1 BY <1>12, <1>13, OddPartDef
<1>16. c = 2 * d /\ d >= 2 BY <1>12, <1>14, <1>15
<1>17. odd_part[d] = 1 BY <1>13, <1>14, <1>15, <1>16, OddPartDef
<1>18. d % 2 # 1 BY <1>16, <1>17, OddPartDef
<1>19. PICK e \in Nat : d = 2 * e
  <2>1. d \div 2 \in Nat /\ d = 2 * (d \div 2) BY <1>18
  <2> QED BY <2>1
<1>20. i = 32 * e BY <1>4, <1>8, <1>12, <1>16, <1>19
<1> QED BY <1>20

(* What ALIGN_UP_TO and ALIGN_POW2 compute. *)
LEMMA Pow2IsShl1 == \A i \in Nat : is_pow2(i) => \E k \in Nat : bits[i] = k + 1 /\ i = Shl1[k]
<1> DEFINE S == {i \in Nat : odd_part[i] = 1 => \E k \in Nat : bits[i] = k + 1 /\ i = Shl1[k]}
<1>1. ASSUME NEW i \in Nat, \A j \in Nat : j < i => j \in S PROVE i \in S
  <2>1. SUFFICES ASSUME odd_part[i] = 1 PROVE \E k \in Nat : bits[i] = k + 1 /\ i = Shl1[k] OBVIOUS
  <2>2. i # 0 BY <2>1, OddPartDef
  <2>3. CASE i % 2 = 1
    <3>1. i = 1 BY <2>1, <2>3, OddPartDef
    <3>2. bits[1] = 0 + 1 BY BitsDef
    <3>3. Shl1[0] = 1 BY Shl1Def
    <3> QED BY <3>1, <3>2, <3>3
  <2>4. CASE i % 2 # 1
    <3>1. PICK j \in Nat : j = i \div 2 OBVIOUS
    <3>2. i = 2 * j /\ i % 2 = 0 /\ j < i BY <2>2, <2>4, <3>1
    <3>3. odd_part[j] = 1 BY <2>1, <2>2, <3>1, <3>2, OddPartDef
    <3>4. j \in S BY <1>1, <3>2
    <3>5. PICK k \in Nat : bits[j] = k + 1 /\ j = Shl1[k] BY <3>3, <3>4
    <3>6. bits[i] = (k + 1) + 1 BY <2>2, <3>1, <3>5, BitsDef
    <3>7. i = Shl1[k + 1] BY <3>2, <3>5, Shl1Def
    <3>8. k + 1 \in Nat OBVIOUS
    <3> HIDE DEF S
    <3> QED BY <3>6, <3>7, <3>8
  <2> QED BY <2>3, <2>4
<1>2. \A i \in Nat : i \in S
  <2> HIDE DEF S
  <2> QED BY <1>1, StrongInduction
<1> QED BY <1>2 DEF is_pow2

(* 2^64 is a multiple of every power of two that is a u64, and of 8 in any *)
(* case, as far as a multiple of 8 is concerned.                           *)
LEMMA WordModPow2 == \A to \in Nat : is_pow2(to) /\ bits[to] <= 64 => Shl1Mod[64][to] = 0
<1>1. SUFFICES ASSUME NEW to \in Nat, is_pow2(to), bits[to] <= 64 PROVE Shl1Mod[64][to] = 0 OBVIOUS
<1>2. PICK k \in Nat : bits[to] = k + 1 /\ to = Shl1[k] BY <1>1, Pow2IsShl1
<1>3. k < 64 BY <1>1, <1>2
<1>4. to > 0 BY <1>2, Shl1Grows
<1> DEFINE S == {n \in Nat : Shl1Mod[n][to] = IF n < k THEN Shl1[n] ELSE 0}
<1>5. 0 \in S
  <2>1. Shl1Mod[0][to] = 1 % to BY <1>4, Shl1ModDef
  <2>2. CASE k = 0
    <3>1. to = 1 BY <2>2, <1>2, Shl1Def
    <3> QED BY <3>1, <2>1, <2>2
  <2>3. CASE k > 0
    <3>1. Shl1[0] = 1 /\ Shl1[0] < to BY <2>3, <1>2, Shl1Def, Shl1Grows
    <3>2. to \in Nat \ {0} /\ 1 < to BY <3>1
    <3>3. 1 % to = 1
      <4>1. 1 = to * (1 \div to) + (1 % to) /\ 1 % to \in 0 .. to - 1 /\ 1 \div to \in Int BY <3>2, Division
      <4>2. PICK q \in Int : q = 1 \div to BY <4>1
      <4>3. CASE q = 0 BY <4>1, <4>2, <4>3
      <4>4. CASE q # 0 BY <3>2
      <4> QED BY <4>3, <4>4
    <3> QED BY <3>1, <3>3, <2>1, <2>3
  <2> QED BY <2>2, <2>3
<1>6. ASSUME NEW n \in Nat, n \in S PROVE n + 1 \in S
  <2>1. Shl1Mod[n + 1][to] = (2 * Shl1Mod[n][to]) % to BY <1>4, Shl1ModDef
  <2>2. Shl1[n + 1] = 2 * Shl1[n] /\ Shl1[n] \in Nat BY Shl1Def
  <2>3. CASE n + 1 < k
    <3>1. Shl1Mod[n][to] = Shl1[n] BY <1>6, <2>3
    <3>2. Shl1[n + 1] < to BY <1>2, <2>3, Shl1Grows
    <3>3. Shl1Mod[n + 1][to] = Shl1[n + 1] % to BY <3>1, <2>1, <2>2
    <3>4. PICK v \in Nat : v = Shl1[n + 1] BY <2>2
    <3>5. v % to = v BY <3>2, <3>4
    <3> QED BY <3>3, <3>4, <3>5, <2>3
  <2>4. CASE n + 1 = k
    <3>1. Shl1Mod[n][to] = Shl1[n] BY <1>6, <2>4
    <3>2. Shl1Mod[n + 1][to] = to % to BY <3>1, <2>1, <2>2, <2>4, <1>2
    <3>3. to % to = 0
      <4>1. (to * 1) % to = 0 BY <1>4, MultipleMod
      <4> QED BY <4>1
    <3> QED BY <3>2, <3>3, <2>4
  <2>5. CASE n + 1 > k
    <3>1. Shl1Mod[n][to] = 0 BY <1>6, <2>5
    <3>2. Shl1Mod[n + 1][to] = 0 % to BY <3>1, <2>1
    <3>3. 0 % to = 0
      <4>1. (to * 0) % to = 0 BY <1>4, MultipleMod
      <4> QED BY <4>1
    <3> QED BY <3>2, <3>3, <2>5
  <2> QED BY <2>3, <2>4, <2>5
<1>7. \A n \in Nat : n \in S
  <2> HIDE DEF S
  <2> QED BY <1>5, <1>6, Induction
<1>8. 64 \in S BY <1>7
<1> QED BY <1>3, <1>8

LEMMA Shl1ModNat == \A to \in Nat \ {0} : \A n \in Nat : Shl1Mod[n][to] \in Nat
<1>1. ASSUME NEW to \in Nat \ {0}, NEW n \in Nat PROVE Shl1Mod[n][to] \in Nat
  <2>1. Shl1Mod[n][to] \in 0 .. to - 1 BY Shl1ModDef
  <2> QED BY <2>1
<1> QED BY <1>1

LEMMA WordModEight == \A to \in Nat \ {0} : to % 8 = 0 => Shl1Mod[64][to] % 8 = 0
<1>1. SUFFICES ASSUME NEW to \in Nat \ {0}, to % 8 = 0 PROVE Shl1Mod[64][to] % 8 = 0 OBVIOUS
<1>2. ASSUME NEW n \in Nat PROVE Shl1Mod[n + 1][to] % 8 = (2 * Shl1Mod[n][to]) % 8
  <2>1. PICK v \in Nat : v = Shl1Mod[n][to] BY Shl1ModNat
  <2>2. Shl1Mod[n + 1][to] = (2 * v) % to BY <2>1, Shl1ModDef
  <2>3. ((2 * v) % to) % 8 = (2 * v) % 8 BY <1>1, ModByEight
  <2> QED BY <2>1, <2>2, <2>3
<1>3. \A n \in Nat : Shl1Mod[n][to] \in Nat BY Shl1ModNat
<1>a. PICK a \in Nat : a = Shl1Mod[61][to] BY <1>3
<1>b. PICK b \in Nat : b = Shl1Mod[62][to] BY <1>3
<1>c. PICK c \in Nat : c = Shl1Mod[63][to] BY <1>3
<1>d. PICK d \in Nat : d = Shl1Mod[64][to] BY <1>3
<1>4. b % 8 = (2 * a) % 8
  <2>1. Shl1Mod[61 + 1][to] % 8 = (2 * Shl1Mod[61][to]) % 8 BY <1>2
  <2> QED BY <2>1, <1>a, <1>b, <1>c, <1>d
<1>5. c % 8 = (2 * b) % 8
  <2>1. Shl1Mod[62 + 1][to] % 8 = (2 * Shl1Mod[62][to]) % 8 BY <1>2
  <2> QED BY <2>1, <1>a, <1>b, <1>c, <1>d
<1>6. d % 8 = (2 * c) % 8
  <2>1. Shl1Mod[63 + 1][to] % 8 = (2 * Shl1Mod[63][to]) % 8 BY <1>2
  <2> QED BY <2>1, <1>a, <1>b, <1>c, <1>d
<1>7. d % 8 = 0 BY <1>4, <1>5, <1>6
<1> QED BY <1>d, <1>7

LEMMA AlignUpTo ==
  ASSUME NEW v \in Nat, NEW to \in Nat \ {0}, to % 8 = 0, bits[to] <= 64
  PROVE  /\ ALIGN_UP_TO(v, to) \in Nat
         /\ ALIGN_UP_TO(v, to) >= v
         /\ ALIGN_UP_TO(v, to) % 8 = 0
         /\ is_pow2(to) => ALIGN_UP_TO(v, to) % to = 0
<1>1. CASE v % to = 0
  <2>1. ALIGN_UP_TO(v, to) = v BY <1>1 DEF ALIGN_UP_TO
  <2>2. v % 8 = 0
    <3>1. (v % to) % 8 = v % 8 BY ModByEight
    <3> QED BY <3>1, <1>1
  <2> QED BY <1>1, <2>1, <2>2
<1>2. CASE v % to # 0
  <2>1. PICK w \in Nat : w = Shl1Mod[64][to] BY Shl1ModNat
  <2>2. PICK m \in 0 .. to - 1, q \in Int : m = (w - v) % to /\ w - v = to * q + m
    <3>1. w - v \in Int OBVIOUS
    <3> QED BY <3>1, Division
  <2>3. ALIGN_UP_TO(v, to) = v + m + to BY <1>2, <2>1, <2>2 DEF ALIGN_UP_TO
  <2>4. (v + m + to) % 8 = 0
    <3>1. w % 8 = 0 BY <2>1, WordModEight
    <3>2. ((w - v) % to) % 8 = (w - v) % 8
      <4>1. w - v \in Int OBVIOUS
      <4> QED BY <4>1, ModByEight
    <3>3. m % 8 = (w - v) % 8 BY <3>2, <2>2
    <3>4. (v + m) % 8 = 0 BY <3>1, <3>3
    <3> QED BY <3>4
  <2>5. is_pow2(to) => (v + m + to) % to = 0
    <3>1. SUFFICES ASSUME is_pow2(to) PROVE (v + m + to) % to = 0 OBVIOUS
    <3>2. w = 0 BY <3>1, <2>1, WordModPow2
    <3>3. v + m + to = to * (1 - q) BY <3>2, <2>2
    <3>4. (to * (1 - q)) % to = 0 BY MultipleMod
    <3> QED BY <3>3, <3>4
  <2> QED BY <2>3, <2>4, <2>5
<1> QED BY <1>1, <1>2

LEMMA AndNotOne ==
  \A v, m \in Nat : m % 2 = 1 => AndNot[v][m] = 2 * AndNot[v \div 2][m \div 2]
<1>1. SUFFICES ASSUME NEW v \in Nat, NEW m \in Nat, m % 2 = 1
      PROVE  AndNot[v][m] = 2 * AndNot[v \div 2][m \div 2]
  OBVIOUS
<1>2. m \div 2 \in Nat /\ v \div 2 \in Nat OBVIOUS
<1>3. AndNot[v \div 2][m \div 2] \in Nat BY <1>2, AndNotDef
<1>4. CASE v = 0
  <2>1. AndNot[v][m] = 0 BY <1>4, AndNotDef
  <2>2. v \div 2 = 0 BY <1>4
  <2>3. AndNot[v \div 2][m \div 2] = 0 BY <1>2, <2>2, AndNotDef
  <2> QED BY <2>1, <2>3
<1>5. CASE v > 0 BY <1>1, <1>3, <1>5, AndNotDef
<1> QED BY <1>4, <1>5

LEMMA AndNotZero == \A v \in Nat : AndNot[v][0] = v
<1> DEFINE S == {v \in Nat : AndNot[v][0] = v}
<1>1. ASSUME NEW v \in Nat, \A k \in Nat : k < v => k \in S PROVE v \in S
  <2>1. CASE v = 0 BY <2>1, AndNotDef
  <2>2. CASE v > 0
    <3>1. v \div 2 \in S BY <1>1, <2>2, Halves
    <3>2. AndNot[v][0] = 2 * AndNot[v \div 2][0 \div 2] + (v % 2) BY <2>2, AndNotDef
    <3>3. 2 * (v \div 2) + (v % 2) = v OBVIOUS
    <3> QED BY <3>1, <3>2, <3>3
  <2> QED BY <2>1, <2>2
<1>2. \A v \in Nat : v \in S
  <2> HIDE DEF S
  <2> QED BY <1>1, StrongInduction
<1> QED BY <1>2

LEMMA AndNotPow2 ==
  \A to \in Nat : is_pow2(to) => \A v \in Nat : \E q \in Int : AndNot[v][to - 1] = to * q
<1> DEFINE S == {to \in Nat : odd_part[to] = 1 => \A v \in Nat : \E q \in Int : AndNot[v][to - 1] = to * q}
<1>1. ASSUME NEW to \in Nat, \A k \in Nat : k < to => k \in S PROVE to \in S
  <2>1. SUFFICES ASSUME odd_part[to] = 1, NEW v \in Nat PROVE \E q \in Int : AndNot[v][to - 1] = to * q
    OBVIOUS
  <2>2. to # 0 BY <2>1, OddPartDef
  <2>3. CASE to % 2 = 1
    <3>1. to = 1 BY <2>1, <2>3, OddPartDef
    <3>2. AndNot[v][0] = v BY AndNotZero
    <3>3. AndNot[v][to - 1] = to * v BY <3>1, <3>2
    <3> HIDE DEF S
    <3> QED BY <3>3
  <2>4. CASE to % 2 # 1
    <3>1. PICK h \in Nat : h = to \div 2 OBVIOUS
    <3>2. to = 2 * h /\ to % 2 = 0 /\ h < to /\ h > 0 BY <2>2, <2>4, <3>1
    <3>3. odd_part[h] = 1 BY <2>1, <2>2, <3>1, <3>2, OddPartDef
    <3>4. h \in S BY <1>1, <3>2
    <3>5. v \div 2 \in Nat OBVIOUS
    <3>6. PICK q \in Int : AndNot[v \div 2][h - 1] = h * q BY <3>3, <3>4, <3>5
    <3>7. to - 1 \in Nat /\ (to - 1) % 2 = 1 /\ (to - 1) \div 2 = h - 1 BY <3>2
    <3>8. AndNot[v][to - 1] = 2 * (h * q)
      <4>1. PICK m \in Nat : m = to - 1 BY <3>7
      <4>2. AndNot[v][m] = 2 * AndNot[v \div 2][m \div 2] BY <3>7, <4>1, AndNotOne
      <4> QED BY <3>6, <3>7, <4>1, <4>2
    <3>9. 2 * (h * q) = to * q BY <3>2
    <3> HIDE DEF S
    <3> QED BY <3>8, <3>9
  <2> QED BY <2>3, <2>4
<1>2. \A to \in Nat : to \in S
  <2> HIDE DEF S
  <2> QED BY <1>1, StrongInduction
<1> QED BY <1>2 DEF is_pow2

LEMMA AlignPow2 ==
  ASSUME NEW v \in Nat, NEW to \in Nat \ {0}, to % 8 = 0
  PROVE  /\ ALIGN_POW2(v, to) \in 0 .. v
         /\ ALIGN_POW2(v, to) % 8 = 0
         /\ is_pow2(to) => ALIGN_POW2(v, to) % to = 0
         /\ to = 8 /\ v % 8 = 0 => ALIGN_POW2(v, to) = v
<1>1. PICK m \in Nat : m = to - 1
  <2>1. to - 1 \in Nat OBVIOUS
  <2> QED BY <2>1
<1>2. PICK n \in Nat : n = m \div 2 OBVIOUS
<1>3. PICK k \in Nat : k = n \div 2 OBVIOUS
<1>4. PICK j \in Nat : j = k \div 2 OBVIOUS
<1>5. m % 2 = 1 /\ n % 2 = 1 /\ k % 2 = 1 BY <1>1, <1>2, <1>3
<1>6. PICK a \in Nat : a = v \div 2 OBVIOUS
<1>7. PICK b \in Nat : b = a \div 2 OBVIOUS
<1>8. PICK c \in Nat : c = b \div 2 OBVIOUS
<1>9. AndNot[c][j] \in Nat BY AndNotDef
<1>10. AndNot[b][k] = 2 * AndNot[c][j] BY <1>4, <1>5, <1>8, AndNotOne
<1>11. AndNot[a][n] = 4 * AndNot[c][j]
  <2>1. AndNot[a][n] = 2 * AndNot[b][k] BY <1>3, <1>5, <1>7, AndNotOne
  <2> QED BY <2>1, <1>9, <1>10
<1>12. AndNot[v][m] = 8 * AndNot[c][j]
  <2>1. AndNot[v][m] = 2 * AndNot[a][n] BY <1>2, <1>5, <1>6, AndNotOne
  <2> QED BY <2>1, <1>9, <1>11
<1>13. ALIGN_POW2(v, to) = AndNot[v][m] BY <1>1 DEF ALIGN_POW2
<1>14. AndNot[v][m] % 8 = 0 BY <1>9, <1>12
<1>15. is_pow2(to) => AndNot[v][m] % to = 0
  <2>1. SUFFICES ASSUME is_pow2(to) PROVE AndNot[v][m] % to = 0 OBVIOUS
  <2>2. PICK q \in Int : AndNot[v][m] = to * q BY <2>1, <1>1, AndNotPow2
  <2>3. (to * q) % to = 0 BY MultipleMod
  <2> QED BY <2>2, <2>3
<1>16. ASSUME to = 8, v % 8 = 0 PROVE AndNot[v][m] = v
  <2>1. j = 0 BY <1>16, <1>1, <1>2, <1>3, <1>4
  <2>2. AndNot[c][j] = c BY <2>1, AndNotZero
  <2>3. v = 8 * c BY <1>16, <1>6, <1>7, <1>8
  <2> QED BY <2>2, <2>3, <1>12
<1>17. AndNot[v][m] \in 0 .. v BY AndNotDef
<1> QED BY <1>13, <1>14, <1>15, <1>16, <1>17

(* What alloc and alloc_with_alignment ask __alloc_with_alignment for: no  *)
(* less than they were asked for, and an alignment it can work with.       *)
LEMMA RoundedFits ==
  ASSUME NEW program \in Programs, NEW call \in program
  PROVE  /\ call.size \in Nat
         /\ Rounded(call).size \in Nat /\ Rounded(call).alignment \in Nat \ {0}
         /\ Rounded(call).size >= call.size /\ Rounded(call).size >= FreeChunkSize
         /\ Rounded(call).alignment % 8 = 0 /\ bits[Rounded(call).alignment] <= 64
         /\ call.alignment = 0 => Rounded(call).size % 32 = 0 /\ Rounded(call).alignment = 8
<1>1. /\ call.size \in Nat /\ call.alignment \in Nat
      /\ bits[call.alignment] <= 64
      /\ call.alignment < 32 \/ call.alignment % 8 = 0
  BY ProgramsAssumption
<1>2. next_largest_pow2(FreeChunkSize) = 32 /\ next_largest_pow2(AllocChunkSize) = 64
  BY BitsOfSmall DEF FreeChunkSize, AllocChunkSize
<1>3. CASE call.alignment = 0
  <2> DEFINE n == IF is_pow2(call.size) THEN call.size ELSE next_largest_pow2(call.size)
  <2>1. n \in Nat /\ n >= call.size BY <1>1, NextPow2Above
  <2>2. n >= 24 => n % 32 = 0
    <3>1. SUFFICES ASSUME n >= 24 PROVE n % 32 = 0 OBVIOUS
    <3>2. CASE is_pow2(call.size) BY <1>1, <3>1, <3>2, Pow2Multiple
    <3>3. CASE ~ is_pow2(call.size)
      <4>1. n = Shl1[bits[call.size]] BY <3>3 DEF next_largest_pow2
      <4>2. call.size >= 16
        <5>1. SUFFICES ASSUME call.size < 16 PROVE FALSE BY <1>1
        <5>2. bits[call.size] < 5
          <6>1. PICK a \in Nat : a = call.size \div 2 BY <1>1
          <6>2. PICK b \in Nat : b = a \div 2 OBVIOUS
          <6>3. PICK c \in Nat : c = b \div 2 OBVIOUS
          <6>4. PICK d \in Nat : d = c \div 2 OBVIOUS
          <6>5. d = 0 BY <1>1, <5>1, <6>1, <6>2, <6>3, <6>4
          <6>6. bits[c] <= 1 BY <6>4, <6>5, BitsDef
          <6>7. bits[b] <= 2 /\ bits[c] \in Nat BY <6>3, <6>6, BitsDef
          <6>8. bits[a] <= 3 /\ bits[b] \in Nat BY <6>2, <6>7, BitsDef
          <6>9. bits[call.size] <= 4 /\ bits[a] \in Nat BY <1>1, <6>1, <6>8, BitsDef
          <6>10. bits[call.size] \in Nat BY <1>1, BitsDef
          <6> QED BY <6>9, <6>10
        <5>3. bits[call.size] \in Nat BY <1>1, BitsDef
        <5>4. Shl1[bits[call.size]] < Shl1[5] BY <5>2, <5>3, Shl1Grows
        <5>5. Shl1[5] = 32 BY BitsOfSmall DEF next_largest_pow2
        <5>6. Shl1[bits[call.size]] \in Nat BY <5>3, Shl1Def
        <5>7. Shl1[bits[call.size]] <= 16
          <6>1. bits[call.size] <= 4 BY <5>2, <5>3
          <6>2. Shl1[4] = 16
            <7>1. Shl1[4 + 1] = 2 * Shl1[4] /\ Shl1[4] \in Nat BY Shl1Def
            <7> QED BY <7>1, <5>5
          <6>3. bits[call.size] = 4 \/ Shl1[bits[call.size]] < Shl1[4] BY <6>1, <5>3, Shl1Grows
          <6> QED BY <6>2, <6>3, <5>6
        <5> QED BY <3>1, <4>1, <5>6, <5>7
      <4>3. bits[call.size] \in Nat /\ bits[call.size] >= 5 BY <1>1, <4>2, BitsOfSmall, BitsDef
      <4> QED BY <4>1, <4>3, Shl1Multiple
    <3> QED BY <3>2, <3>3
  <2>3. Rounded(call) = IF n < 24 THEN [size |-> 32, alignment |-> 8]
                        ELSE [size |-> n, alignment |-> IF n <= 8 THEN n ELSE 8]
    BY <1>2, <1>3 DEF Rounded, FreeChunkSize
  <2> HIDE DEF n
  <2>4. CASE n < 24 BY <1>1, <1>3, <2>1, <2>3, <2>4, BitsOfSmall DEF FreeChunkSize
  <2>5. CASE n >= 24
    <3>1. Rounded(call) = [size |-> n, alignment |-> 8] BY <2>1, <2>3, <2>5
    <3> QED BY <1>1, <1>3, <2>1, <2>2, <2>5, <3>1, BitsOfSmall DEF FreeChunkSize
  <2> QED BY <2>1, <2>4, <2>5
<1>4. CASE call.alignment # 0
  <2> DEFINE align == IF call.size < 24 THEN 8 ELSE call.alignment
  <2>1. align \in Nat /\ align > 0 /\ (align < 32 \/ align % 8 = 0) /\ bits[align] <= 64
    BY <1>1, <1>4, BitsOfSmall
  <2>2. Rounded(call) = [size      |-> IF call.size < 24 THEN 32 ELSE call.size,
                         alignment |-> IF align < 32 THEN 64 ELSE align]
    BY <1>2, <1>4 DEF Rounded, FreeChunkSize, AllocChunkSize
  <2> HIDE DEF align
  <2>3. /\ Rounded(call).size = IF call.size < 24 THEN 32 ELSE call.size
        /\ Rounded(call).alignment = IF align < 32 THEN 64 ELSE align
    BY <2>2
  <2>4. Rounded(call).size \in Nat /\ Rounded(call).size >= call.size /\ Rounded(call).size >= 24
    BY <1>1, <2>3
  <2>5. CASE align < 32 BY <1>1, <1>4, <2>3, <2>4, <2>5, BitsOfSmall DEF FreeChunkSize
  <2>6. CASE ~ align < 32 BY <1>1, <1>4, <2>1, <2>3, <2>4, <2>6 DEF FreeChunkSize
  <2> QED BY <2>5, <2>6
<1> QED BY <1>1, <1>3, <1>4

-----------------------------------------------------------------------------
(* The free list: a list without its k-th chunk, and with one more.        *)
Kept(i, k) == IF i < k THEN i ELSE i + 1

LEMMA Removed ==
  ASSUME NEW S, NEW s \in Seq(S), NEW k \in DOMAIN s
  PROVE  /\ RemoveAt(s, k) \in Seq(S)
         /\ DOMAIN RemoveAt(s, k) = 1 .. Len(s) - 1
         /\ \A i \in 1 .. Len(s) - 1 : RemoveAt(s, k)[i] = s[Kept(i, k)]
<1>0. Len(s) \in Nat /\ DOMAIN s = 1 .. Len(s) /\ k \in 1 .. Len(s) BY LenProperties
<1>1. /\ SubSeq(s, 1, k - 1) \in Seq(S) /\ Len(SubSeq(s, 1, k - 1)) = k - 1
      /\ \A i \in 1 .. k - 1 : SubSeq(s, 1, k - 1)[i] = s[i]
  BY <1>0, SubSeqProperties
<1>2. /\ SubSeq(s, k + 1, Len(s)) \in Seq(S) /\ Len(SubSeq(s, k + 1, Len(s))) = Len(s) - k
      /\ \A i \in 1 .. Len(s) - k : SubSeq(s, k + 1, Len(s))[i] = s[k + i]
  BY <1>0, SubSeqProperties
<1> DEFINE a == SubSeq(s, 1, k - 1)
           b == SubSeq(s, k + 1, Len(s))
<1>3. RemoveAt(s, k) = a \o b BY DEF RemoveAt
<1>4. a \in Seq(S) /\ b \in Seq(S) /\ Len(a) = k - 1 /\ Len(b) = Len(s) - k BY <1>1, <1>2
<1>5. /\ a \o b \in Seq(S) /\ Len(a \o b) = Len(a) + Len(b)
      /\ \A i \in 1 .. Len(a) + Len(b) : (a \o b)[i] = IF i <= Len(a) THEN a[i] ELSE b[i - Len(a)]
  <2> HIDE DEF a, b
  <2> QED BY <1>4, ConcatProperties
<1>6. \A i \in 1 .. k - 1 : a[i] = s[i] BY <1>1
<1>7. \A i \in 1 .. Len(s) - k : b[i] = s[k + i] BY <1>2
<1> HIDE DEF a, b
<1>8. Len(a \o b) = Len(s) - 1 BY <1>0, <1>4, <1>5
<1>9. DOMAIN (a \o b) = 1 .. Len(s) - 1 BY <1>5, <1>8, LenProperties
<1>10. ASSUME NEW i \in 1 .. Len(s) - 1 PROVE (a \o b)[i] = s[Kept(i, k)]
  <2>1. (a \o b)[i] = IF i <= k - 1 THEN a[i] ELSE b[i - (k - 1)] BY <1>0, <1>4, <1>5
  <2>2. CASE i < k BY <2>1, <2>2, <1>0, <1>6 DEF Kept
  <2>3. CASE i >= k
    <3>1. i - (k - 1) \in 1 .. Len(s) - k /\ k + (i - (k - 1)) = i + 1 BY <2>3, <1>0
    <3>2. b[i - (k - 1)] = s[i + 1] BY <3>1, <1>7
    <3>3. (a \o b)[i] = b[i - (k - 1)] BY <2>1, <2>3, <1>0
    <3> QED BY <3>2, <3>3, <2>3, <1>0 DEF Kept
  <2>4. i < k \/ i >= k BY <1>0
  <2> QED BY <2>2, <2>3, <2>4
<1> QED BY <1>3, <1>5, <1>9, <1>10

LEMMA KeptProperties ==
  ASSUME NEW len \in Nat, NEW k \in 1 .. len
  PROVE  /\ \A i \in 1 .. len - 1 : Kept(i, k) \in (1 .. len) \ {k}
         /\ \A i, j \in 1 .. len - 1 : i # j => Kept(i, k) # Kept(j, k)
         /\ \A n \in (1 .. len) \ {k} : \E i \in 1 .. len - 1 : n = Kept(i, k)
<1>1. ASSUME NEW n \in (1 .. len) \ {k} PROVE \E i \in 1 .. len - 1 : n = Kept(i, k)
  <2>1. CASE n < k BY <2>1 DEF Kept
  <2>2. CASE n > k
    <3>1. n - 1 \in 1 .. len - 1 /\ n = Kept(n - 1, k) BY <2>2 DEF Kept
    <3> QED BY <3>1
  <2> QED BY <2>1, <2>2
<1> QED BY <1>1 DEF Kept

LEMMA Prepended ==
  ASSUME NEW S, NEW s \in Seq(S), NEW c \in S
  PROVE  /\ <<c>> \o s \in Seq(S)
         /\ DOMAIN (<<c>> \o s) = 1 .. Len(s) + 1
         /\ (<<c>> \o s)[1] = c
         /\ \A i \in 1 .. Len(s) : (<<c>> \o s)[i + 1] = s[i]
         /\ \A j \in 1 .. Len(s) + 1 : j = 1 \/ \E i \in DOMAIN s : j = i + 1
<1>0. Len(s) \in Nat /\ DOMAIN s = 1 .. Len(s) BY LenProperties
<1>1. <<c>> \in Seq(S) /\ Len(<<c>>) = 1 /\ <<c>>[1] = c OBVIOUS
<1>2. /\ <<c>> \o s \in Seq(S) /\ Len(<<c>> \o s) = Len(<<c>>) + Len(s)
      /\ \A i \in 1 .. Len(<<c>>) + Len(s) :
           (<<c>> \o s)[i] = IF i <= Len(<<c>>) THEN <<c>>[i] ELSE s[i - Len(<<c>>)]
  BY <1>1, ConcatProperties
<1>3. Len(<<c>> \o s) = Len(s) + 1 BY <1>0, <1>1, <1>2
<1>4. DOMAIN (<<c>> \o s) = 1 .. Len(s) + 1 BY <1>2, <1>3, LenProperties
<1>5. (<<c>> \o s)[1] = c BY <1>0, <1>1, <1>2
<1>6. ASSUME NEW i \in 1 .. Len(s) PROVE (<<c>> \o s)[i + 1] = s[i]
  <2>1. i + 1 \in 1 .. Len(<<c>>) + Len(s) /\ ~ (i + 1 <= Len(<<c>>)) /\ i + 1 - Len(<<c>>) = i BY <1>0, <1>1
  <2>2. (<<c>> \o s)[i + 1] = s[i + 1 - Len(<<c>>)] BY <2>1, <1>2
  <2> QED BY <2>1, <2>2
<1>7. ASSUME NEW j \in 1 .. Len(s) + 1 PROVE j = 1 \/ \E i \in DOMAIN s : j = i + 1
  <2>1. SUFFICES ASSUME j # 1 PROVE j - 1 \in DOMAIN s /\ j = (j - 1) + 1 OBVIOUS
  <2> QED BY <2>1, <1>0
<1> QED BY <1>2, <1>4, <1>5, <1>6, <1>7

-----------------------------------------------------------------------------
(* Chunks and blocks that are apart stay apart.                            *)
LEMMA LaidRemoved ==
  ASSUME NEW list \in Seq(Chunk), NEW live, NEW t, NEW k \in DOMAIN list, Laid(list, live, t)
  PROVE  Laid(RemoveAt(list, k), live, t)
<1>1. /\ DOMAIN RemoveAt(list, k) = 1 .. Len(list) - 1
      /\ \A i \in 1 .. Len(list) - 1 : RemoveAt(list, k)[i] = list[Kept(i, k)]
  BY Removed
<1>2. Len(list) \in Nat /\ DOMAIN list = 1 .. Len(list) BY LenProperties
<1>3. /\ \A i \in 1 .. Len(list) - 1 : Kept(i, k) \in DOMAIN list
      /\ \A i, j \in 1 .. Len(list) - 1 : i # j => Kept(i, k) # Kept(j, k)
  BY <1>2, KeptProperties
<1>4. \A n \in DOMAIN RemoveAt(list, k) : Placed(RemoveAt(list, k)[n], t) BY <1>1, <1>3 DEF Laid
<1>5. \A n, m \in DOMAIN RemoveAt(list, k) : n # m => Apart(RemoveAt(list, k)[n], RemoveAt(list, k)[m])
  BY <1>1, <1>3 DEF Laid
<1>6. \A b \in live, n \in DOMAIN RemoveAt(list, k) : Apart(b, RemoveAt(list, k)[n])
  BY <1>1, <1>3 DEF Laid
<1> QED BY <1>4, <1>5, <1>6 DEF Laid

LEMMA LaidPrepended ==
  ASSUME NEW list \in Seq(Chunk), NEW live, NEW t, NEW c \in Chunk, Laid(list, live, t),
         Placed(c, t), \A n \in DOMAIN list : Apart(c, list[n]), \A b \in live : Apart(b, c)
  PROVE  Laid(<<c>> \o list, live, t)
<1> DEFINE new == <<c>> \o list
<1>0. Len(list) \in Nat /\ DOMAIN list = 1 .. Len(list) BY LenProperties
<1>a. /\ DOMAIN new = 1 .. Len(list) + 1 /\ new[1] = c
      /\ \A i \in 1 .. Len(list) : new[i + 1] = list[i]
      /\ \A j \in 1 .. Len(list) + 1 : j = 1 \/ \E i \in DOMAIN list : j = i + 1
  BY Prepended
<1>1. /\ new[1] = c
      /\ \A i \in DOMAIN list : new[i + 1] = list[i]
      /\ \A j \in DOMAIN new : j = 1 \/ \E i \in DOMAIN list : j = i + 1
  <2> HIDE DEF new
  <2> QED BY <1>0, <1>a
<1> HIDE DEF new
<1>2. \A n \in DOMAIN new : Placed(new[n], t) BY <1>1 DEF Laid
<1>3. \A b \in live, n \in DOMAIN new : Apart(b, new[n]) BY <1>1 DEF Laid
<1>4. ASSUME NEW n \in DOMAIN new, NEW m \in DOMAIN new, n # m PROVE Apart(new[n], new[m])
  <2>1. CASE n = 1
    <3>1. PICK j \in DOMAIN list : m = j + 1 BY <1>1, <1>4, <2>1
    <3>2. new[n] = c /\ new[m] = list[j] BY <1>1, <2>1, <3>1
    <3> QED BY <3>2
  <2>2. CASE m = 1
    <3>1. PICK i \in DOMAIN list : n = i + 1 BY <1>1, <1>4, <2>2
    <3>2. new[m] = c /\ new[n] = list[i] BY <1>1, <2>2, <3>1
    <3> QED BY <3>2 DEF Apart
  <2>3. CASE n # 1 /\ m # 1
    <3>1. PICK i \in DOMAIN list : n = i + 1 BY <1>1, <2>3
    <3>2. PICK j \in DOMAIN list : m = j + 1 BY <1>1, <2>3
    <3>3. new[n] = list[i] /\ new[m] = list[j] /\ i # j BY <1>1, <1>4, <3>1, <3>2
    <3> QED BY <3>3 DEF Laid
  <2> QED BY <2>1, <2>2, <2>3
<1>5. \A b, d \in live : b # d => Apart(b, d) BY DEF Laid
<1>6. \A b \in live : Placed(b, t) BY DEF Laid
<1>7. Laid(new, live, t) BY <1>2, <1>3, <1>4, <1>5, <1>6 DEF Laid
<1> QED BY <1>7 DEF new

LEMMA LaidFewer ==
  ASSUME NEW list, NEW live, NEW fewer \in SUBSET live, NEW t, Laid(list, live, t)
  PROVE  Laid(list, fewer, t)
BY DEF Laid

LEMMA LaidMore ==
  ASSUME NEW list, NEW live, NEW b, NEW t, Laid(list, live, t), Placed(b, t),
         \A n \in DOMAIN list : Apart(b, list[n]), \A d \in live : Apart(d, b)
  PROVE  Laid(list, live \cup {b}, t)
<1>1. \A d, e \in live \cup {b} : d # e => Apart(d, e)
  <2>1. \A d \in live : Apart(b, d) BY DEF Apart
  <2> QED BY <2>1 DEF Laid
<1> QED BY <1>1 DEF Laid

LEMMA LaidFrom ==
  ASSUME NEW list, NEW live, NEW t, NEW u, Laid(list, live, t),
         \A n \in DOMAIN list : u <= list[n].start, \A b \in live : u <= b.start
  PROVE  Laid(list, live, u)
BY DEF Laid, Placed

-----------------------------------------------------------------------------
(* Chunks with blocks between them.                                        *)
LEMMA SeparatedRemoved ==
  ASSUME NEW list \in Seq(Chunk), NEW live, NEW k \in DOMAIN list, Separated(list, live, {})
  PROVE  Separated(RemoveAt(list, k), live, {})
<1>1. /\ DOMAIN RemoveAt(list, k) = 1 .. Len(list) - 1
      /\ \A i \in 1 .. Len(list) - 1 : RemoveAt(list, k)[i] = list[Kept(i, k)]
  BY Removed
<1>2. Len(list) \in Nat /\ DOMAIN list = 1 .. Len(list) BY LenProperties
<1>3. \A i \in 1 .. Len(list) - 1 : Kept(i, k) \in DOMAIN list BY <1>2, KeptProperties
<1> QED BY <1>1, <1>3 DEF Separated

LEMMA SeparatedPrepended ==
  ASSUME NEW list \in Seq(Chunk), NEW live, NEW c \in Chunk, Separated(list, live, {}),
         \A n \in DOMAIN list : Parted(c, list[n], live) /\ Parted(list[n], c, live)
  PROVE  Separated(<<c>> \o list, live, {})
<1> DEFINE new == <<c>> \o list
<1>0. Len(list) \in Nat /\ DOMAIN list = 1 .. Len(list) BY LenProperties
<1>a. /\ DOMAIN new = 1 .. Len(list) + 1 /\ new[1] = c
      /\ \A i \in 1 .. Len(list) : new[i + 1] = list[i]
      /\ \A j \in 1 .. Len(list) + 1 : j = 1 \/ \E i \in DOMAIN list : j = i + 1
  BY Prepended
<1>1. /\ new[1] = c
      /\ \A i \in DOMAIN list : new[i + 1] = list[i]
      /\ \A j \in DOMAIN new : j = 1 \/ \E i \in DOMAIN list : j = i + 1
  <2> HIDE DEF new
  <2> QED BY <1>0, <1>a
<1> HIDE DEF new
<1>2. ASSUME NEW n \in DOMAIN new, NEW m \in DOMAIN new PROVE Parted(new[n], new[m], live)
  <2>1. new[n] = c \/ \E i \in DOMAIN list : new[n] = list[i] BY <1>1
  <2>2. new[m] = c \/ \E i \in DOMAIN list : new[m] = list[i] BY <1>1
  <2>3. Parted(c, c, live)
    <3>1. c.start \in Nat BY DEF Chunk
    <3> QED BY <3>1 DEF Parted
  <2>4. \A i, j \in DOMAIN list : Parted(list[i], list[j], live) BY DEF Separated
  <2> QED BY <2>1, <2>2, <2>3, <2>4
<1>3. Separated(new, live, {}) BY <1>2 DEF Separated
<1> QED BY <1>3 DEF new

LEMMA PartedMore ==
  ASSUME NEW c, NEW d, NEW live, NEW more, live \subseteq more, Parted(c, d, live)
  PROVE  Parted(c, d, more)
BY DEF Parted, valloc_is_region_allocated

LEMMA SeparatedMore ==
  ASSUME NEW list, NEW live, NEW more, live \subseteq more, Separated(list, live, {})
  PROVE  Separated(list, more, {})
BY PartedMore DEF Separated

-----------------------------------------------------------------------------
(* __compact_together on a list: lo and hi touch, and mk is one of them.   *)
Joined(list, lo, hi) == RemoveAt([list EXCEPT ![lo] = Merged(list[lo], list[hi])], hi)
At(lo, hi) == IF lo < hi THEN lo ELSE lo - 1

Joinable(list, live, t, lo, hi, mk) ==
  /\ lo \in DOMAIN list /\ hi \in DOMAIN list /\ lo # hi /\ mk \in {lo, hi}
  /\ list[lo].start < list[hi].start
  /\ Laid(list, live, t)
  /\ Separated(list, live, {mk})
  /\ Touching(live, list[lo], list[hi])

LEMMA InList == ASSUME NEW S, NEW list \in Seq(S), NEW n \in DOMAIN list PROVE list[n] \in S
OBVIOUS

(* Nothing lies between the two chunks.                                    *)
LEMMA NothingBetween ==
  ASSUME NEW list \in Seq(Chunk), NEW live, NEW t \in Nat, NEW lo, NEW hi, NEW mk,
         Joinable(list, live, t, lo, hi, mk)
  PROVE  /\ End(list[lo]) <= list[hi].start
         /\ \A b \in live : Apart(b, Merged(list[lo], list[hi]))
         /\ \A n \in DOMAIN list \ {lo, hi} : Apart(list[n], Merged(list[lo], list[hi]))
<1>1. PICK l \in Chunk, h \in Chunk : l = list[lo] /\ h = list[hi] BY InList DEF Joinable
<1>2. /\ l.start \in Nat /\ l.size \in Nat /\ l.size > 0
      /\ h.start \in Nat /\ h.size \in Nat /\ h.size > 0
      /\ l.start < h.start
  BY <1>1 DEF Joinable, Laid, Placed
<1>3. l.start + l.size <= h.start
  <2>1. Apart(l, h) BY <1>1 DEF Joinable, Laid
  <2> QED BY <2>1, <1>2 DEF Apart, End
<1>4. l.start + l.size = h.start \/ \A b \in live : ~ (l.start + l.size <= b.start /\ b.start <= h.start)
  BY <1>1 DEF Joinable, Touching, End, valloc_is_region_allocated
<1>5. ASSUME NEW d, d.start \in Nat, d.size \in Nat, d.size > 0, Apart(d, l), Apart(d, h), ~ Apart(d, Merged(l, h))
      PROVE  l.start + l.size <= d.start /\ d.start + d.size <= h.start
  <2>1. Merged(l, h).start = l.start /\ End(Merged(l, h)) = h.start + h.size
    <3>1. Merged(l, h) = [start |-> l.start, size |-> (h.start + h.size) - l.start] BY DEF Merged, End
    <3> QED BY <3>1, <1>2 DEF End
  <2> QED BY <1>2, <1>3, <1>5, <2>1 DEF Apart, End
<1>6. ASSUME NEW b \in live PROVE Apart(b, Merged(l, h))
  <2>1. b.start \in Nat /\ b.size \in Nat /\ b.size > 0 /\ Apart(b, l) /\ Apart(b, h)
    BY <1>1 DEF Joinable, Laid, Placed
  <2>2. SUFFICES ASSUME ~ Apart(b, Merged(l, h)) PROVE FALSE OBVIOUS
  <2>3. l.start + l.size <= b.start /\ b.start + b.size <= h.start BY <1>5, <2>1, <2>2
  <2> QED BY <1>2, <1>4, <2>1, <2>3
<1>7. ASSUME NEW n \in DOMAIN list \ {lo, hi} PROVE Apart(list[n], Merged(l, h))
  <2>1. PICK d \in Chunk : d = list[n] BY InList
  <2>2. d.start \in Nat /\ d.size \in Nat /\ d.size > 0 /\ Apart(d, l) /\ Apart(d, h)
    BY <1>1, <2>1 DEF Joinable, Laid, Placed
  <2>3. SUFFICES ASSUME ~ Apart(d, Merged(l, h)) PROVE FALSE BY <2>1
  <2>4. l.start + l.size <= d.start /\ d.start + d.size <= h.start BY <1>5, <2>2, <2>3
  <2>5. n \in DOMAIN list \ {mk} BY DEF Joinable
  <2>6. CASE mk = hi
    <3>1. lo \in DOMAIN list \ {mk} BY <2>6 DEF Joinable
    <3>2. Parted(l, d, live) \/ (l.start < h.start /\ h.start < d.start)
      BY <1>1, <2>1, <2>5, <2>6, <3>1 DEF Joinable, Separated
    <3>3. Parted(l, d, live) BY <3>2, <2>4, <2>2, <1>2
    <3>4. PICK b \in live : l.start + l.size <= b.start /\ b.start <= d.start
      BY <3>3, <2>4, <2>2, <1>2 DEF Parted, End, valloc_is_region_allocated
    <3>5. b.start \in Nat BY DEF Joinable, Laid, Placed
    <3> QED BY <3>4, <3>5, <2>4, <2>2, <1>2, <1>4
  <2>7. CASE mk = lo
    <3>1. hi \in DOMAIN list \ {mk} BY <2>7 DEF Joinable
    <3>2. Parted(d, h, live) \/ (d.start < l.start /\ l.start < h.start)
      BY <1>1, <2>1, <2>5, <2>7, <3>1 DEF Joinable, Separated
    <3>3. Parted(d, h, live) BY <3>2, <2>4, <2>2, <1>2
    <3>4. PICK b \in live : d.start + d.size <= b.start /\ b.start <= h.start
      BY <3>3, <2>4, <2>2, <1>2 DEF Parted, End, valloc_is_region_allocated
    <3>5. b.start \in Nat BY DEF Joinable, Laid, Placed
    <3> QED BY <3>4, <3>5, <2>4, <2>2, <1>2, <1>4
  <2> QED BY <2>6, <2>7 DEF Joinable
<1> QED BY <1>1, <1>3, <1>6, <1>7 DEF End

(* What the list becomes: every other chunk is kept.                       *)
JoinIs(new, at, c, list, lo, hi) ==
  /\ c \in Chunk /\ new \in Seq(Chunk)
  /\ at \in DOMAIN new /\ new[at] = c
  /\ \A i \in DOMAIN new \ {at} : Kept(i, hi) \in DOMAIN list \ {lo, hi} /\ new[i] = list[Kept(i, hi)]
  /\ \A i, j \in DOMAIN new : i # j => Kept(i, hi) # Kept(j, hi)
  /\ \A n \in DOMAIN list \ {lo, hi} : \E i \in DOMAIN new \ {at} : n = Kept(i, hi)

LEMMA JoinedList ==
  ASSUME NEW list \in Seq(Chunk), NEW live, NEW t \in Nat, NEW lo, NEW hi, NEW mk,
         Joinable(list, live, t, lo, hi, mk)
  PROVE  JoinIs(Joined(list, lo, hi), At(lo, hi), Merged(list[lo], list[hi]), list, lo, hi)
<1> DEFINE c == Merged(list[lo], list[hi])
           l2 == [list EXCEPT ![lo] = c]
           new == RemoveAt(l2, hi)
<1>0. /\ Len(list) \in Nat /\ DOMAIN list = 1 .. Len(list)
      /\ lo \in 1 .. Len(list) /\ hi \in 1 .. Len(list) /\ lo # hi
  BY LenProperties DEF Joinable
<1>1. c \in Chunk
  <2>1. PICK l \in Chunk, h \in Chunk : l = list[lo] /\ h = list[hi] BY <1>0, ElementOfSeq
  <2>2. l.start + l.size <= h.start BY <2>1, NothingBetween DEF End
  <2>3. l.start \in Nat /\ l.size \in Nat /\ h.start \in Nat /\ h.size \in Nat BY DEF Chunk
  <2>4. (h.start + h.size) - l.start \in Nat BY <2>2, <2>3
  <2>5. c = [start |-> l.start, size |-> (h.start + h.size) - l.start] BY <2>1 DEF Merged, End
  <2> QED BY <2>3, <2>4, <2>5 DEF Chunk
<1> HIDE DEF c
<1>2. /\ l2 \in Seq(Chunk) /\ Len(l2) = Len(list)
      /\ \A i \in 1 .. Len(list) : l2[i] = IF i = lo THEN c ELSE list[i]
  BY <1>0, <1>1, ExceptSeq
<1> HIDE DEF l2
<1>3. hi \in DOMAIN l2 BY <1>0, <1>2, LenProperties
<1>4. /\ new \in Seq(Chunk) /\ DOMAIN new = 1 .. Len(list) - 1
      /\ \A i \in 1 .. Len(list) - 1 : new[i] = l2[Kept(i, hi)]
  BY <1>2, <1>3, Removed
<1>5. new = Joined(list, lo, hi) BY DEF Joined, new, l2, c
<1> HIDE DEF new
<1>6. /\ \A i \in 1 .. Len(list) - 1 : Kept(i, hi) \in (1 .. Len(list)) \ {hi}
      /\ \A i, j \in 1 .. Len(list) - 1 : i # j => Kept(i, hi) # Kept(j, hi)
      /\ \A n \in (1 .. Len(list)) \ {hi} : \E i \in 1 .. Len(list) - 1 : n = Kept(i, hi)
  BY <1>0, KeptProperties
<1>7. At(lo, hi) \in 1 .. Len(list) - 1 /\ Kept(At(lo, hi), hi) = lo BY <1>0 DEF At, Kept
<1>8. new[At(lo, hi)] = c BY <1>0, <1>2, <1>4, <1>7
<1>9. ASSUME NEW i \in DOMAIN new \ {At(lo, hi)}
      PROVE  Kept(i, hi) \in DOMAIN list \ {lo, hi} /\ new[i] = list[Kept(i, hi)]
  <2>1. i \in 1 .. Len(list) - 1 BY <1>4
  <2>2. Kept(i, hi) # lo BY <1>6, <1>7, <2>1
  <2>3. Kept(i, hi) \in (1 .. Len(list)) \ {hi} BY <1>6, <2>1
  <2>4. new[i] = l2[Kept(i, hi)] BY <1>4, <2>1
  <2>5. l2[Kept(i, hi)] = list[Kept(i, hi)] BY <1>2, <2>2, <2>3
  <2> QED BY <1>0, <2>2, <2>3, <2>4, <2>5
<1>10. ASSUME NEW n \in DOMAIN list \ {lo, hi} PROVE \E i \in DOMAIN new \ {At(lo, hi)} : n = Kept(i, hi)
  <2>1. PICK i \in 1 .. Len(list) - 1 : n = Kept(i, hi) BY <1>0, <1>6
  <2>2. i # At(lo, hi) BY <2>1, <1>7
  <2> QED BY <2>1, <2>2, <1>4
<1>11. \A i, j \in DOMAIN new : i # j => Kept(i, hi) # Kept(j, hi) BY <1>4, <1>6
<1>12. JoinIs(new, At(lo, hi), c, list, lo, hi)
  BY <1>1, <1>4, <1>7, <1>8, <1>9, <1>10, <1>11 DEF JoinIs
<1> QED BY <1>5, <1>12 DEF c

LEMMA JoinedLaid ==
  ASSUME NEW list \in Seq(Chunk), NEW live, NEW t \in Nat, NEW lo, NEW hi, NEW mk,
         Joinable(list, live, t, lo, hi, mk)
  PROVE  Laid(Joined(list, lo, hi), live, t)
<1> DEFINE new == Joined(list, lo, hi)
           at == At(lo, hi)
           c == Merged(list[lo], list[hi])
<1>1. /\ new \in Seq(Chunk) /\ new[at] = c
      /\ \A i \in DOMAIN new \ {at} : Kept(i, hi) \in DOMAIN list \ {lo, hi} /\ new[i] = list[Kept(i, hi)]
      /\ \A i, j \in DOMAIN new : i # j => Kept(i, hi) # Kept(j, hi)
  <2>1. JoinIs(new, at, c, list, lo, hi) BY JoinedList
  <2> HIDE DEF new, at, c
  <2> QED BY <2>1 DEF JoinIs
<1>2. /\ \A b \in live : Apart(b, c)
      /\ \A n \in DOMAIN list \ {lo, hi} : Apart(list[n], c)
  BY NothingBetween
<1>3. Placed(c, t)
  <2>1. PICK l \in Chunk, h \in Chunk : l = list[lo] /\ h = list[hi]
    BY InList DEF Joinable
  <2>2. Placed(l, t) /\ Placed(h, t) BY <2>1 DEF Joinable, Laid
  <2>3. l.start + l.size <= h.start BY <2>1, NothingBetween DEF End
  <2>4. c = [start |-> l.start, size |-> (h.start + h.size) - l.start] BY <2>1 DEF Merged, End
  <2>5. c.start = l.start /\ c.size = (h.start + h.size) - l.start BY <2>4
  <2>6. End(c) = h.start + h.size BY <2>2, <2>5 DEF End, Placed
  <2> QED BY <2>2, <2>3, <2>5, <2>6 DEF Placed, End
<1> HIDE DEF new, at, c
<1>4. \A n \in DOMAIN list : Placed(list[n], t) BY DEF Joinable, Laid
<1>5. \A n, m \in DOMAIN list : n # m => Apart(list[n], list[m]) BY DEF Joinable, Laid
<1>6. \A b \in live, n \in DOMAIN list : Apart(b, list[n]) BY DEF Joinable, Laid
<1>7. \A i \in DOMAIN new : Placed(new[i], t) BY <1>1, <1>3, <1>4
<1>8. \A b \in live, i \in DOMAIN new : Apart(b, new[i]) BY <1>1, <1>2, <1>6
<1>9. ASSUME NEW i \in DOMAIN new, NEW j \in DOMAIN new, i # j PROVE Apart(new[i], new[j])
  <2>1. CASE i # at /\ j # at BY <2>1, <1>9, <1>1, <1>5
  <2>2. CASE j = at BY <2>2, <1>9, <1>1, <1>2
  <2>3. CASE i = at
    <3>1. Apart(new[j], new[i]) BY <2>3, <1>9, <1>1, <1>2
    <3> QED BY <3>1 DEF Apart
  <2> QED BY <2>1, <2>2, <2>3
<1>10. /\ \A b \in live : Placed(b, t)
       /\ \A b, d \in live : b # d => Apart(b, d)
  BY DEF Joinable, Laid
<1>11. Laid(new, live, t) BY <1>7, <1>8, <1>9, <1>10 DEF Laid
<1> QED BY <1>11 DEF new

LEMMA JoinedSeparated ==
  ASSUME NEW list \in Seq(Chunk), NEW live, NEW t \in Nat, NEW lo, NEW hi, NEW mk,
         Joinable(list, live, t, lo, hi, mk)
  PROVE  Separated(Joined(list, lo, hi), live, {At(lo, hi)})
<1> DEFINE new == Joined(list, lo, hi)
           at == At(lo, hi)
           c == Merged(list[lo], list[hi])
<1>1. /\ new[at] = c
      /\ \A i \in DOMAIN new \ {at} : Kept(i, hi) \in DOMAIN list \ {lo, hi} /\ new[i] = list[Kept(i, hi)]
  <2>1. JoinIs(new, at, c, list, lo, hi) BY JoinedList
  <2> HIDE DEF new, at, c
  <2> QED BY <2>1 DEF JoinIs
<1>2. \A n \in DOMAIN list \ {lo, hi} : Apart(list[n], c) BY NothingBetween
<1>3. PICK l \in Chunk, h \in Chunk : l = list[lo] /\ h = list[hi]
  BY InList DEF Joinable
<1>4. Placed(l, t) /\ Placed(h, t) /\ l.start < h.start BY <1>3 DEF Joinable, Laid
<1>5. c.start = l.start /\ End(c) = h.start + h.size
  <2>1. c = [start |-> l.start, size |-> (h.start + h.size) - l.start] BY <1>3 DEF Merged, End
  <2> QED BY <2>1, <1>4 DEF End, Placed
<1> HIDE DEF new, at, c
<1>6. ASSUME NEW i \in DOMAIN new \ {at}, NEW j \in DOMAIN new \ {at}, ~ Parted(new[i], new[j], live)
      PROVE  new[i].start < new[at].start /\ new[at].start < new[j].start
  <2>1. PICK n \in DOMAIN list \ {lo, hi} : new[i] = list[n] BY <1>1
  <2>2. PICK m \in DOMAIN list \ {lo, hi} : new[j] = list[m] BY <1>1
  <2>3. PICK d \in Chunk, e \in Chunk : d = list[n] /\ e = list[m] BY InList
  <2>4. n \in DOMAIN list \ {mk} /\ m \in DOMAIN list \ {mk} BY DEF Joinable
  <2>5. d.start < list[mk].start /\ list[mk].start < e.start
    BY <1>6, <2>1, <2>2, <2>3, <2>4 DEF Joinable, Separated
  <2>6. list[mk] = l \/ list[mk] = h BY <1>3 DEF Joinable
  <2>7. Placed(d, t) /\ Placed(e, t) BY <2>3 DEF Joinable, Laid
  <2>8. Apart(d, c) BY <2>3, <1>2
  <2>9. d.start < l.start /\ l.start < e.start
    <3>1. CASE list[mk] = l BY <3>1, <2>5
    <3>2. CASE list[mk] = h
      <4>1. d.start + d.size <= c.start \/ End(c) <= d.start BY <2>8 DEF Apart, End
      <4>2. /\ d.start \in Nat /\ d.size \in Nat /\ d.size > 0 /\ l.start \in Nat /\ h.start \in Nat
            /\ h.size \in Nat /\ h.size > 0 /\ e.start \in Nat /\ l.start < h.start
        BY <1>4, <2>7 DEF Placed
      <4>3. d.start < h.start /\ h.start < e.start BY <3>2, <2>5
      <4> QED BY <4>1, <4>2, <4>3, <1>5
    <3> QED BY <2>6, <3>1, <3>2
  <2> QED BY <2>9, <2>1, <2>2, <2>3, <1>1, <1>5
<1>7. Separated(new, live, {at}) BY <1>6 DEF Separated
<1> QED BY <1>7 DEF new, at

-----------------------------------------------------------------------------
(* HeapInv: free.                                                          *)
LEMMA FreeKeeps ==
  ASSUME HeapInv, NEW b \in blocks, Free(b)
  PROVE  HeapInv'
<1>0. PICK list \in Seq(Chunk) : list = freelist BY DEF HeapInv, TypeOK
<1>a. PICK live : live = blocks OBVIOUS
<1>b. PICK t \in Nat : t = top BY DEF HeapInv, TypeOK
<1>c. PICK c : c = [start |-> b.start, size |-> b.size] OBVIOUS
<1>1. /\ blocks' = live \ {b} /\ freelist' = <<c>> \o list
      /\ pc' = "compact" /\ chunk' = 1 /\ calls' = calls /\ top' = t
  BY <1>0, <1>a, <1>b, <1>c DEF Free
<1>2. Laid(list, live, t) BY <1>0, <1>a, <1>b DEF HeapInv
<1>3. c \in Chunk /\ c.start = b.start /\ c.size = b.size BY <1>c DEF HeapInv, TypeOK, Chunk
<1>4. /\ <<c>> \o list \in Seq(Chunk)
      /\ DOMAIN (<<c>> \o list) = 1 .. Len(list) + 1
      /\ (<<c>> \o list)[1] = c
      /\ \A i \in 1 .. Len(list) : (<<c>> \o list)[i + 1] = list[i]
      /\ \A j \in 1 .. Len(list) + 1 : j = 1 \/ \E i \in DOMAIN list : j = i + 1
  BY <1>3, Prepended
<1>d. Len(list) \in Nat /\ DOMAIN list = 1 .. Len(list) BY LenProperties
<1>5. PICK new : new = <<c>> \o list OBVIOUS
<1>6. /\ new \in Seq(Chunk) /\ DOMAIN new = 1 .. Len(list) + 1 /\ new[1] = c
      /\ \A i \in DOMAIN list : new[i + 1] = list[i]
      /\ \A j \in DOMAIN new : j = 1 \/ \E i \in DOMAIN list : j = i + 1
      /\ \A i \in DOMAIN list : i + 1 \in DOMAIN new
  BY <1>4, <1>5, <1>d
<1>7. freelist' = new BY <1>1, <1>5
<1>8. Laid(list, live \ {b}, t) BY <1>2, LaidFewer
<1>9. Placed(b, t) BY <1>2, <1>a DEF Laid
<1>10. Laid(new, live \ {b}, t)
  <2>1. Placed(c, t) BY <1>3, <1>9 DEF Placed, End
  <2>2. \A n \in DOMAIN list : Apart(c, list[n]) BY <1>2, <1>3, <1>a DEF Laid, Apart, End
  <2>3. \A d \in live \ {b} : Apart(d, c) BY <1>2, <1>3, <1>a DEF Laid, Apart, End
  <2> QED BY <1>3, <1>5, <1>8, <2>1, <2>2, <2>3, LaidPrepended
<1>11. Separated(new, live \ {b}, {1})
  <2>1. SUFFICES ASSUME NEW n \in DOMAIN new \ {1}, NEW m \in DOMAIN new \ {1},
                        ~ Parted(new[n], new[m], live \ {b})
                 PROVE  new[n].start < new[1].start /\ new[1].start < new[m].start
    BY DEF Separated
  <2>2. PICK i \in DOMAIN list : n = i + 1 BY <1>6
  <2>3. PICK j \in DOMAIN list : m = j + 1 BY <1>6
  <2>4. PICK d \in Chunk, e \in Chunk : d = list[i] /\ e = list[j] BY InList
  <2>5. new[n] = d /\ new[m] = e BY <1>6, <2>2, <2>3, <2>4
  <2>6. Placed(d, t) /\ Placed(e, t) /\ Apart(b, d) /\ Apart(b, e) BY <1>2, <1>a, <2>4 DEF Laid
  <2>7. Parted(d, e, live)
    <3>1. pc = "idle" BY DEF Free
    <3>2. Separated(list, live, {}) BY <1>0, <1>a, <3>1 DEF HeapInv, Merging
    <3> QED BY <2>4, <3>2 DEF Separated
  <2>8. d.start < e.start BY <2>1, <2>5 DEF Parted
  <2>9. PICK a \in live : End(d) <= a.start /\ a.start <= e.start
    BY <2>7, <2>8 DEF Parted, valloc_is_region_allocated
  <2>10. a = b BY <2>1, <2>5, <2>8, <2>9 DEF Parted, valloc_is_region_allocated
  <2>11. d.start + d.size <= b.start /\ b.start <= e.start BY <2>9, <2>10 DEF End
  <2>12. b.start + b.size <= e.start \/ e.start + e.size <= b.start BY <2>6 DEF Apart, End
  <2>13. d.start < b.start /\ b.start < e.start BY <2>6, <2>11, <2>12, <1>9 DEF Placed
  <2> QED BY <2>13, <2>5, <1>3, <1>6
<1>12. TypeOK'
  <2>1. 1 \in DOMAIN new BY <1>6, <1>d
  <2> QED BY <1>1, <1>6, <1>7, <1>a, <2>1 DEF HeapInv, TypeOK
<1>13. AsAsked'
  <2>1. blocks' \subseteq blocks BY <1>1, <1>a
  <2> QED BY <2>1 DEF HeapInv, AsAsked
<1>14. NothingLost'
  <2>1. SUFFICES ASSUME OnlyAlloc' PROVE (NothingLost!2)' BY DEF NothingLost
  <2>2. OnlyAlloc BY <2>1, <1>1 DEF OnlyAlloc
  <2>3. /\ (TOP_OF_HEAP - t) % 32 = 0
        /\ \A d \in live : InPieces(d)
        /\ \A n \in DOMAIN list : InPieces(list[n])
        /\ t = TOP_OF_HEAP \/ (\E d \in live : EndsAtTop(d)) \/ (\E n \in DOMAIN list : EndsAtTop(list[n]))
    BY <2>2, <1>0, <1>a, <1>b DEF HeapInv, NothingLost
  <2>4. InPieces(c) BY <2>3, <1>3, <1>a DEF InPieces
  <2>5. \A n \in DOMAIN new : InPieces(new[n]) BY <2>3, <2>4, <1>6
  <2>6. t = TOP_OF_HEAP \/ (\E d \in live \ {b} : EndsAtTop(d)) \/ (\E n \in DOMAIN new : EndsAtTop(new[n]))
    <3>1. CASE t = TOP_OF_HEAP BY <3>1
    <3>2. ASSUME NEW d \in live, EndsAtTop(d) PROVE <2>6
      <4>1. CASE d # b BY <3>2, <4>1
      <4>2. CASE d = b
        <5>1. EndsAtTop(new[1]) BY <3>2, <4>2, <1>3, <1>6 DEF EndsAtTop, End
        <5>2. 1 \in DOMAIN new BY <1>6, <1>d
        <5> QED BY <5>1, <5>2
      <4> QED BY <4>1, <4>2
    <3>3. ASSUME NEW n \in DOMAIN list, EndsAtTop(list[n]) PROVE <2>6
      <4>1. EndsAtTop(new[n + 1]) /\ n + 1 \in DOMAIN new BY <3>3, <1>6
      <4> QED BY <4>1
    <3> QED BY <2>3, <3>1, <3>2, <3>3
  <2>7. \A d \in live \ {b} : InPieces(d) BY <2>3
  <2> QED BY <2>3, <2>5, <2>6, <2>7, <1>1, <1>7
<1>15. Laid(freelist, blocks, top)' BY <1>1, <1>7, <1>10
<1>16. Separated(freelist, blocks, Merging)'
  <2>1. Merging' = {1} BY <1>1 DEF Merging
  <2> QED BY <2>1, <1>1, <1>7, <1>11
<1>17. LowestAboveBlock' BY <1>1 DEF LowestAboveBlock
<1>18. (BOT_OF_HEAP <= top /\ top <= TOP_OF_HEAP)' BY <1>1, <1>b DEF HeapInv
<1> QED BY <1>12, <1>13, <1>14, <1>15, <1>16, <1>17, <1>18 DEF HeapInv

LEMMA MinOf == ASSUME NEW S \in SUBSET Nat, S # {} PROVE Min(S) \in S
<1>1. \E x \in S : \A y \in S : x <= y BY NatLeast
<1> QED BY <1>1 DEF Min

(* What __compact_together merges can be merged.                           *)
LEMMA CanJoin ==
  ASSUME HeapInv, pc = "compact", NEW k \in DOMAIN freelist \ {chunk}
  PROVE  /\ {Lower(k), Upper(k)} = {chunk, k}
         /\ freelist[Lower(k)].start < freelist[Upper(k)].start
         /\ k \in Possibilities => Joinable(freelist, blocks, top, Lower(k), Upper(k), chunk)
<1>1. chunk \in DOMAIN freelist /\ freelist \in Seq(Chunk) BY DEF HeapInv, TypeOK
<1>2. Laid(freelist, blocks, top) /\ Separated(freelist, blocks, {chunk}) BY DEF HeapInv, Merging
<1>3. PICK c \in Chunk, d \in Chunk : c = freelist[chunk] /\ d = freelist[k] BY <1>1, InList
<1>4. c.start < d.start \/ d.start < c.start
  <2>1. Placed(c, top) /\ Placed(d, top) /\ Apart(c, d) BY <1>1, <1>2, <1>3 DEF Laid
  <2> QED BY <2>1 DEF Placed, Apart, End
<1>5. c.start \in Nat /\ d.start \in Nat BY DEF Chunk
<1>6. CASE c.start < d.start
  <2>1. Lower(k) = chunk /\ Upper(k) = k BY <1>3, <1>6 DEF Lower, Upper
  <2> QED BY <2>1, <1>1, <1>2, <1>3, <1>6 DEF Possibilities, Joinable
<1>7. CASE d.start < c.start
  <2>1. ~ (c.start < d.start) BY <1>5, <1>7
  <2>2. Lower(k) = k /\ Upper(k) = chunk BY <1>3, <2>1 DEF Lower, Upper
  <2> QED BY <2>2, <1>1, <1>2, <1>3, <1>7 DEF Possibilities, Joinable
<1> QED BY <1>4, <1>6, <1>7

LEMMA InPiecesTogether ==
  ASSUME NEW e \in Nat, NEW l \in Nat, NEW h \in Nat, NEW n \in Nat,
         (e - l) % 32 = 0, (e - h) % 32 = 0, n % 32 = 0
  PROVE  ((h + n) - l) % 32 = 0
<1>1. PICK a \in Int : e - l = 32 * a BY Division
<1>2. PICK b \in Int : e - h = 32 * b BY Division
<1>3. PICK c \in Int : n = 32 * c BY Division
<1>4. (h + n) - l = 32 * ((a - b) + c) BY <1>1, <1>2, <1>3
<1>5. (32 * ((a - b) + c)) % 32 = 0 BY MultipleMod
<1> QED BY <1>4, <1>5

LEMMA CompactTogetherKeeps ==
  ASSUME HeapInv, CompactTogether
  PROVE  HeapInv'
<1>0. PICK list \in Seq(Chunk) : list = freelist BY DEF HeapInv, TypeOK
<1>a. PICK live : live = blocks OBVIOUS
<1>b. PICK t \in Nat : t = top BY DEF HeapInv, TypeOK
<1>1. PICK k, lo, hi, mk : k = Min(Possibilities) /\ lo = Lower(k) /\ hi = Upper(k) /\ mk = chunk OBVIOUS
<1>2. k \in Possibilities /\ k \in DOMAIN freelist \ {chunk}
  <2>1. Possibilities \subseteq DOMAIN freelist \ {chunk} BY DEF Possibilities
  <2>2. DOMAIN freelist \subseteq Nat BY <1>0, LenProperties
  <2>3. Possibilities # {} BY DEF CompactTogether
  <2>4. Min(Possibilities) \in Possibilities BY <2>1, <2>2, <2>3, MinOf
  <2> QED BY <2>1, <2>4, <1>1
<1>3. pc = "compact" BY DEF CompactTogether
<1>4. Joinable(list, live, t, lo, hi, mk) BY <1>0, <1>a, <1>b, <1>1, <1>2, <1>3, CanJoin
<1>5. PICK new, at, c : new = Joined(list, lo, hi) /\ at = At(lo, hi) /\ c = Merged(list[lo], list[hi]) OBVIOUS
<1>6. /\ freelist' = new /\ chunk' = at /\ calls' = calls /\ top' = t /\ blocks' = live /\ pc' = "compact"
  BY <1>0, <1>a, <1>b, <1>1, <1>3, <1>5 DEF CompactTogether, Joined, At
<1>7. JoinIs(new, at, c, list, lo, hi) BY <1>4, <1>5, JoinedList
<1>8. Laid(new, live, t) BY <1>4, <1>5, JoinedLaid
<1>9. Separated(new, live, {at}) BY <1>4, <1>5, JoinedSeparated
<1>10. TypeOK' BY <1>6, <1>7, <1>a DEF HeapInv, TypeOK, JoinIs
<1>11. AsAsked' BY <1>6, <1>a DEF HeapInv, AsAsked
<1>12. NothingLost'
  <2>1. SUFFICES ASSUME OnlyAlloc' PROVE (NothingLost!2)' BY DEF NothingLost
  <2>2. OnlyAlloc BY <2>1, <1>6 DEF OnlyAlloc
  <2>3. /\ (TOP_OF_HEAP - t) % 32 = 0
        /\ \A d \in live : InPieces(d)
        /\ \A n \in DOMAIN list : InPieces(list[n])
        /\ t = TOP_OF_HEAP \/ (\E d \in live : EndsAtTop(d)) \/ (\E n \in DOMAIN list : EndsAtTop(list[n]))
    BY <2>2, <1>0, <1>a, <1>b DEF HeapInv, NothingLost
  <2>4. PICK l \in Chunk, h \in Chunk : l = list[lo] /\ h = list[hi] BY <1>4, InList DEF Joinable
  <2>5. InPieces(l) /\ InPieces(h) BY <2>3, <2>4, <1>4 DEF Joinable
  <2>6. Placed(l, t) /\ Placed(h, t) /\ l.start < h.start BY <2>4, <1>4 DEF Joinable, Laid
  <2>7. c.start = l.start /\ c.size = (h.start + h.size) - l.start
    <3>1. c = [start |-> l.start, size |-> (h.start + h.size) - l.start] BY <2>4, <1>5 DEF Merged, End
    <3> QED BY <3>1
  <2>8. l.start + l.size <= h.start BY <2>4, <1>4, NothingBetween DEF End
  <2>9. InPieces(c)
    <3>1. TOP_OF_HEAP \in Nat BY HeapAssumption
    <3>2. /\ l.start \in Nat /\ h.start \in Nat /\ h.size \in Nat
          /\ (TOP_OF_HEAP - l.start) % 32 = 0 /\ (TOP_OF_HEAP - h.start) % 32 = 0 /\ h.size % 32 = 0
      BY <2>5, <2>6 DEF InPieces, Placed
    <3>3. ((h.start + h.size) - l.start) % 32 = 0 BY <3>1, <3>2, InPiecesTogether
    <3> QED BY <2>7, <3>2, <3>3 DEF InPieces
  <2>10. \A n \in DOMAIN new : InPieces(new[n]) BY <2>3, <2>9, <1>7 DEF JoinIs
  <2>11. ASSUME NEW n \in DOMAIN list, EndsAtTop(list[n]) PROVE \E i \in DOMAIN new : EndsAtTop(new[i])
    <3>1. CASE n = hi
      <4>1. EndsAtTop(c) BY <2>4, <2>6, <2>7, <2>11, <3>1 DEF EndsAtTop, End, Placed
      <4> QED BY <4>1, <1>7 DEF JoinIs
    <3>2. CASE n = lo
      <4>1. TOP_OF_HEAP \in Nat BY HeapAssumption
      <4>2. l.start + l.size = TOP_OF_HEAP BY <2>4, <2>11, <3>2 DEF EndsAtTop, End
      <4> QED BY <2>6, <2>8, <4>1, <4>2 DEF Placed, End
    <3>3. CASE n \notin {lo, hi}
      <4>1. PICK i \in DOMAIN new \ {at} : n = Kept(i, hi) BY <1>7, <3>3 DEF JoinIs
      <4>2. new[i] = list[n] BY <1>7, <4>1 DEF JoinIs
      <4> QED BY <4>2, <2>11
    <3> QED BY <3>1, <3>2, <3>3
  <2> QED BY <2>3, <2>10, <2>11, <1>6
<1>13. Laid(freelist, blocks, top)' BY <1>6, <1>8
<1>14. Separated(freelist, blocks, Merging)'
  <2>1. Merging' = {at} BY <1>6 DEF Merging
  <2> QED BY <2>1, <1>6, <1>9
<1>15. LowestAboveBlock' BY <1>6 DEF LowestAboveBlock
<1>16. (BOT_OF_HEAP <= top /\ top <= TOP_OF_HEAP)' BY <1>6, <1>b DEF HeapInv
<1> QED BY <1>10, <1>11, <1>12, <1>13, <1>14, <1>15, <1>16 DEF HeapInv

LEMMA CompactedKeeps ==
  ASSUME HeapInv, Compacted
  PROVE  HeapInv'
<1>1. /\ freelist' = freelist /\ blocks' = blocks /\ top' = top /\ calls' = calls
      /\ pc = "compact" /\ pc' = "shift" /\ Possibilities = {}
  BY DEF Compacted
<1>2. TypeOK' /\ AsAsked' /\ NothingLost' /\ LowestAboveBlock' /\ Laid(freelist, blocks, top)'
      /\ (BOT_OF_HEAP <= top /\ top <= TOP_OF_HEAP)'
  BY <1>1 DEF HeapInv, TypeOK, AsAsked, NothingLost, OnlyAlloc, LowestAboveBlock
<1>3. /\ freelist \in Seq(Chunk) /\ chunk \in DOMAIN freelist
      /\ Laid(freelist, blocks, top) /\ Separated(freelist, blocks, {chunk})
  BY <1>1 DEF HeapInv, TypeOK, Merging
<1>4. \A k \in DOMAIN freelist \ {chunk} :
        /\ Parted(freelist[chunk], freelist[k], blocks)
        /\ Parted(freelist[k], freelist[chunk], blocks)
  <2>1. SUFFICES ASSUME NEW k \in DOMAIN freelist \ {chunk}
                 PROVE  /\ Parted(freelist[chunk], freelist[k], blocks)
                        /\ Parted(freelist[k], freelist[chunk], blocks)
    OBVIOUS
  <2>2. PICK c \in Chunk, d \in Chunk : c = freelist[chunk] /\ d = freelist[k] BY <1>3, InList
  <2>3. c.start \in Nat /\ d.start \in Nat BY DEF Chunk
  <2>4. ~ Touching(blocks, freelist[Lower(k)], freelist[Upper(k)]) BY <1>1 DEF Possibilities
  <2>5. valloc_is_region_allocated(blocks, End(freelist[Lower(k)]), freelist[Upper(k)].start)
    BY <2>4 DEF Touching
  <2>6. CASE c.start < d.start
    <3>1. Lower(k) = chunk /\ Upper(k) = k BY <2>2, <2>6 DEF Lower, Upper
    <3> QED BY <2>2, <2>3, <2>5, <2>6, <3>1 DEF Parted
  <2>7. CASE ~ (c.start < d.start)
    <3>1. Lower(k) = k /\ Upper(k) = chunk BY <2>2, <2>7 DEF Lower, Upper
    <3> QED BY <2>2, <2>3, <2>5, <2>7, <3>1 DEF Parted
  <2> QED BY <2>6, <2>7
<1>5. ASSUME NEW n \in DOMAIN freelist, NEW m \in DOMAIN freelist
      PROVE  Parted(freelist[n], freelist[m], blocks)
  <2>1. PICK d \in Chunk, e \in Chunk, c \in Chunk :
          d = freelist[n] /\ e = freelist[m] /\ c = freelist[chunk]
    BY <1>3, InList
  <2>2. d.start \in Nat /\ e.start \in Nat /\ c.start \in Nat BY DEF Chunk
  <2>3. CASE n # chunk /\ m # chunk
    <3>1. Parted(d, e, blocks) \/ (d.start < c.start /\ c.start < e.start)
      BY <1>3, <2>1, <2>3 DEF Separated
    <3>2. CASE d.start < c.start /\ c.start < e.start
      <4>1. Parted(d, c, blocks) BY <1>4, <2>1, <2>3
      <4>2. PICK b \in blocks : End(d) <= b.start /\ b.start <= c.start
        BY <3>2, <4>1 DEF Parted, valloc_is_region_allocated
      <4>3. b.start \in Nat BY <1>3 DEF Laid, Placed
      <4>4. b.start <= e.start BY <2>2, <3>2, <4>2, <4>3
      <4>5. Parted(d, e, blocks) BY <4>2, <4>4 DEF Parted, valloc_is_region_allocated
      <4> QED BY <4>5, <2>1
    <3> QED BY <3>1, <3>2, <2>1
  <2>4. CASE n = chunk /\ m = chunk
    <3>1. ~ (d.start < e.start) BY <2>1, <2>2, <2>4
    <3> QED BY <3>1, <2>1 DEF Parted
  <2> QED BY <1>4, <2>3, <2>4
<1>6. Separated(freelist, blocks, Merging)'
  <2>1. Merging' = {} BY <1>1 DEF Merging
  <2>2. Separated(freelist, blocks, {}) BY <1>5 DEF Separated
  <2> QED BY <2>1, <2>2, <1>1
<1> QED BY <1>2, <1>6 DEF HeapInv

(* The lowest chunk of the free list.                                      *)
LEMMA Lowest ==
  ASSUME HeapInv, freelist # <<>>
  PROVE  /\ next_free_chunk \in DOMAIN freelist
         /\ \A m \in DOMAIN freelist : freelist[next_free_chunk].start <= freelist[m].start
<1>0. freelist \in Seq(Chunk) BY DEF HeapInv, TypeOK
<1>1. \A n \in DOMAIN freelist : freelist[n] \in Chunk BY <1>0, InList
<1>a. \A n \in DOMAIN freelist : freelist[n].start \in Nat BY <1>1 DEF Chunk
<1>2. Len(freelist) \in Nat /\ DOMAIN freelist = 1 .. Len(freelist) /\ Len(freelist) # 0
  BY <1>0, LenProperties, EmptySeq
<1>3. 1 \in DOMAIN freelist BY <1>2
<1> DEFINE S == {freelist[n].start : n \in DOMAIN freelist}
<1>4. S \in SUBSET Nat /\ S # {} BY <1>a, <1>3
<1>5. \A n \in DOMAIN freelist : freelist[n].start \in S OBVIOUS
<1>6. \A x \in S : \E n \in DOMAIN freelist : x = freelist[n].start OBVIOUS
<1> HIDE DEF S
<1>7. PICK x \in S : \A y \in S : x <= y BY <1>4, NatLeast
<1>8. PICK n \in DOMAIN freelist : x = freelist[n].start BY <1>6
<1>9. \A m \in DOMAIN freelist : freelist[n].start <= freelist[m].start BY <1>5, <1>7, <1>8
<1> QED BY <1>9 DEF next_free_chunk

LEMMA PieceAfter ==
  ASSUME NEW e \in Nat, NEW s \in Nat, NEW n \in Nat, (e - s) % 32 = 0, n % 32 = 0
  PROVE  (e - (s + n)) % 32 = 0
<1>1. PICK a \in Int : e - s = 32 * a BY Division
<1>2. PICK b \in Int : n = 32 * b BY Division
<1>3. e - (s + n) = 32 * (a - b) BY <1>1, <1>2
<1>4. (32 * (a - b)) % 32 = 0 BY MultipleMod
<1> QED BY <1>3, <1>4

LEMMA ShiftTopKeeps ==
  ASSUME HeapInv, ShiftTop
  PROVE  HeapInv'
<1>0. PICK list \in Seq(Chunk) : list = freelist BY DEF HeapInv, TypeOK
<1>a. PICK live : live = blocks OBVIOUS
<1>b. PICK t \in Nat : t = top BY DEF HeapInv, TypeOK
<1>c. PICK k : k = next_free_chunk OBVIOUS
<1>d. k \in DOMAIN list /\ \A m \in DOMAIN list : list[k].start <= list[m].start
  BY <1>0, <1>c, Lowest DEF ShiftTop, CanShift
<1>e. PICK c \in Chunk : c = list[k] BY <1>d, InList
<1>f. PICK new : new = RemoveAt(list, k) OBVIOUS
<1>1. /\ top' = End(c) /\ freelist' = new /\ blocks' = live /\ calls' = calls /\ pc' = "shift" /\ pc = "shift"
  BY <1>0, <1>a, <1>c, <1>e, <1>f DEF ShiftTop
<1>2. Laid(list, live, t) /\ Separated(list, live, {}) BY <1>0, <1>a, <1>b, <1>1 DEF HeapInv, Merging
<1>3. Placed(c, t) BY <1>d, <1>e, <1>2 DEF Laid
<1>4. Laid(new, live, t) BY <1>d, <1>f, <1>2, LaidRemoved
<1>5. Separated(new, live, {}) BY <1>d, <1>f, <1>2, SeparatedRemoved
<1>6. /\ new \in Seq(Chunk) /\ DOMAIN new = 1 .. Len(list) - 1
      /\ \A i \in 1 .. Len(list) - 1 : new[i] = list[Kept(i, k)]
  BY <1>d, <1>f, Removed
<1>7. Len(list) \in Nat /\ DOMAIN list = 1 .. Len(list) BY LenProperties
<1>8. /\ \A i \in DOMAIN new : Kept(i, k) \in DOMAIN list \ {k}
      /\ \A n \in DOMAIN list \ {k} : \E i \in DOMAIN new : n = Kept(i, k)
  <2>1. k \in 1 .. Len(list) BY <1>d, <1>7
  <2>2. /\ \A i \in 1 .. Len(list) - 1 : Kept(i, k) \in (1 .. Len(list)) \ {k}
        /\ \A n \in (1 .. Len(list)) \ {k} : \E i \in 1 .. Len(list) - 1 : n = Kept(i, k)
    BY <2>1, <1>7, KeptProperties
  <2> QED BY <2>2, <1>6, <1>7
<1>9. \A i \in DOMAIN new : new[i] = list[Kept(i, k)] BY <1>6
<1>10. \A i \in DOMAIN new : End(c) <= new[i].start
  <2>1. SUFFICES ASSUME NEW n \in DOMAIN list \ {k} PROVE End(c) <= list[n].start BY <1>8, <1>9
  <2>2. PICK d \in Chunk : d = list[n] BY InList
  <2>3. Placed(d, t) /\ Apart(c, d) /\ c.start <= d.start BY <1>d, <1>e, <1>2, <2>2 DEF Laid
  <2>4. End(c) <= d.start BY <2>3, <1>3 DEF Placed, Apart, End
  <2> QED BY <2>2, <2>4
<1>11. \A b \in live : End(c) <= b.start
  <2>1. SUFFICES ASSUME NEW b \in live PROVE End(c) <= b.start OBVIOUS
  <2>2. Placed(b, t) /\ Apart(b, c) BY <1>d, <1>e, <1>2 DEF Laid
  <2>3. ~ valloc_is_region_allocated(live, t, c.start)
    BY <1>0, <1>a, <1>b, <1>c, <1>e DEF ShiftTop, CanShift
  <2>4. ~ (b.start <= c.start) BY <2>2, <2>3 DEF valloc_is_region_allocated, Placed
  <2> QED BY <2>2, <2>4, <1>3 DEF Placed, Apart, End
<1>12. Laid(new, live, End(c)) BY <1>4, <1>10, <1>11, LaidFrom
<1>13. c.start \in Nat /\ c.size \in Nat /\ End(c) = c.start + c.size BY DEF Chunk, End
<1>14. TypeOK' BY <1>1, <1>6, <1>13, <1>a DEF HeapInv, TypeOK
<1>15. AsAsked' BY <1>1, <1>a DEF HeapInv, AsAsked
<1>16. (BOT_OF_HEAP <= top /\ top <= TOP_OF_HEAP)'
  <2>1. BOT_OF_HEAP <= t BY <1>b DEF HeapInv
  <2> QED BY <2>1, <1>1, <1>3, <1>13, HeapAssumption DEF Placed
<1>17. NothingLost'
  <2>1. SUFFICES ASSUME OnlyAlloc' PROVE (NothingLost!2)' BY DEF NothingLost
  <2>2. OnlyAlloc BY <2>1, <1>1 DEF OnlyAlloc
  <2>3. /\ \A d \in live : InPieces(d)
        /\ \A n \in DOMAIN list : InPieces(list[n])
        /\ t = TOP_OF_HEAP \/ (\E d \in live : EndsAtTop(d)) \/ (\E n \in DOMAIN list : EndsAtTop(list[n]))
    BY <2>2, <1>0, <1>a, <1>b DEF HeapInv, NothingLost
  <2>4. (TOP_OF_HEAP - End(c)) % 32 = 0
    <3>1. InPieces(c) BY <2>3, <1>d, <1>e
    <3>2. (TOP_OF_HEAP - c.start) % 32 = 0 /\ c.size % 32 = 0 BY <3>1 DEF InPieces
    <3>3. TOP_OF_HEAP \in Nat BY HeapAssumption
    <3>4. (TOP_OF_HEAP - (c.start + c.size)) % 32 = 0 BY <3>2, <3>3, <1>13, PieceAfter
    <3> QED BY <3>4, <1>13
  <2>5. \A n \in DOMAIN new : InPieces(new[n]) BY <2>3, <1>8, <1>9
  <2>6. End(c) = TOP_OF_HEAP \/ (\E d \in live : EndsAtTop(d)) \/ (\E n \in DOMAIN new : EndsAtTop(new[n]))
    <3>1. CASE t = TOP_OF_HEAP
      <4>1. TOP_OF_HEAP \in Nat BY HeapAssumption
      <4> QED BY <3>1, <1>3, <1>13, <4>1 DEF Placed
    <3>2. ASSUME NEW n \in DOMAIN list, EndsAtTop(list[n]) PROVE <2>6
      <4>1. CASE n = k BY <3>2, <4>1, <1>e DEF EndsAtTop
      <4>2. CASE n # k
        <5>1. PICK i \in DOMAIN new : n = Kept(i, k) BY <1>8, <4>2
        <5> QED BY <5>1, <1>9, <3>2
      <4> QED BY <4>1, <4>2
    <3> QED BY <2>3, <3>1, <3>2
  <2> QED BY <2>3, <2>4, <2>5, <2>6, <1>1
<1>18. Laid(freelist, blocks, top)' BY <1>1, <1>12
<1>19. Separated(freelist, blocks, Merging)'
  <2>1. Merging' = {} BY <1>1 DEF Merging
  <2> QED BY <2>1, <1>1, <1>5
<1>20. LowestAboveBlock' BY <1>1 DEF LowestAboveBlock
<1> QED BY <1>14, <1>15, <1>16, <1>17, <1>18, <1>19, <1>20 DEF HeapInv

LEMMA FreedKeeps ==
  ASSUME HeapInv, Freed
  PROVE  HeapInv'
<1>1. /\ freelist' = freelist /\ blocks' = blocks /\ top' = top /\ calls' = calls
      /\ pc = "shift" /\ pc' = "idle"
  BY DEF Freed
<1>2. TypeOK' /\ AsAsked' /\ NothingLost' /\ Laid(freelist, blocks, top)'
      /\ (BOT_OF_HEAP <= top /\ top <= TOP_OF_HEAP)'
  BY <1>1 DEF HeapInv, TypeOK, AsAsked, NothingLost, OnlyAlloc
<1>3. Separated(freelist, blocks, Merging)'
  <2>1. Merging = {} /\ Merging' = {} BY <1>1 DEF Merging
  <2> QED BY <2>1, <1>1 DEF HeapInv
<1>4. ASSUME NEW n \in DOMAIN freelist PROVE valloc_is_region_allocated(blocks, top, freelist[n].start)
  <2>0. freelist \in Seq(Chunk) BY DEF HeapInv, TypeOK
  <2>1. freelist # <<>> BY <1>4
  <2>2. valloc_is_region_allocated(blocks, top, freelist[next_free_chunk].start)
    BY <2>1 DEF Freed, CanShift
  <2>3. next_free_chunk \in DOMAIN freelist /\ freelist[next_free_chunk].start <= freelist[n].start
    BY <2>1, Lowest
  <2>4. PICK c \in Chunk, d \in Chunk : c = freelist[next_free_chunk] /\ d = freelist[n]
    BY <2>0, <2>3, InList
  <2>5. c.start \in Nat /\ d.start \in Nat /\ c.start <= d.start BY <2>3, <2>4 DEF Chunk
  <2>6. PICK b \in blocks : top <= b.start /\ b.start <= c.start
    BY <2>2, <2>4 DEF valloc_is_region_allocated
  <2>7. b.start \in Nat BY DEF HeapInv, TypeOK
  <2>8. b.start <= d.start BY <2>5, <2>6, <2>7
  <2> QED BY <2>4, <2>6, <2>8 DEF valloc_is_region_allocated
<1>5. LowestAboveBlock' BY <1>1, <1>4 DEF LowestAboveBlock
<1> QED BY <1>2, <1>3, <1>5 DEF HeapInv

LEMMA EmptyHeap ==
  ASSUME calls \in Programs, top = TOP_OF_HEAP, freelist = <<>>, blocks = {}, pc = "idle"
  PROVE  HeapInv
<1>1. TypeOK BY HeapAssumption DEF TypeOK
<1>2. DOMAIN freelist = {} OBVIOUS
<1>3. NothingLost
  <2>1. (TOP_OF_HEAP - TOP_OF_HEAP) % 32 = 0 BY HeapAssumption
  <2> QED BY <2>1, <1>2 DEF NothingLost
<1>4. Laid(freelist, blocks, top) BY <1>2 DEF Laid
<1>5. Separated(freelist, blocks, Merging) BY <1>2 DEF Separated
<1>6. LowestAboveBlock BY <1>2 DEF LowestAboveBlock
<1>7. AsAsked BY DEF AsAsked
<1> QED BY <1>1, <1>3, <1>4, <1>5, <1>6, <1>7, HeapAssumption DEF HeapInv

LEMMA FreeAllKeeps ==
  ASSUME HeapInv, free_all
  PROVE  HeapInv'
<1>1. (calls \in Programs)' /\ (top = TOP_OF_HEAP)' /\ (freelist = <<>>)' /\ (blocks = {})' /\ (pc = "idle")'
  BY DEF free_all, HeapInv, TypeOK
<1> HIDE DEF free_all
<1>2. TypeOK' BY <1>1, HeapAssumption DEF TypeOK
<1>3. (DOMAIN freelist)' = {} BY <1>1
<1>4. NothingLost'
  <2>1. (TOP_OF_HEAP - TOP_OF_HEAP) % 32 = 0 BY HeapAssumption
  <2> QED BY <2>1, <1>1, <1>3 DEF NothingLost
<1>5. Laid(freelist, blocks, top)' BY <1>1, <1>3 DEF Laid
<1>6. Separated(freelist, blocks, Merging)' BY <1>3 DEF Separated
<1>7. LowestAboveBlock' BY <1>3 DEF LowestAboveBlock
<1>8. AsAsked' BY <1>1 DEF AsAsked
<1> QED BY <1>1, <1>2, <1>4, <1>5, <1>6, <1>7, <1>8, HeapAssumption DEF HeapInv

LEMMA FailKeeps ==
  ASSUME HeapInv, pc = "idle", Fail
  PROVE  HeapInv'
<1>1. /\ freelist' = freelist /\ blocks' = blocks /\ top' = top /\ calls' = calls /\ pc' = "ended"
  BY DEF Fail
<1>2. Merging = {} /\ Merging' = {} BY <1>1 DEF Merging
<1> QED BY <1>1, <1>2
  DEF HeapInv, TypeOK, AsAsked, NothingLost, OnlyAlloc, LowestAboveBlock

-----------------------------------------------------------------------------
(* HeapInv: the two ways to allocate.                                      *)
LEMMA PieceBefore ==
  ASSUME NEW e \in Nat, NEW t \in Nat, NEW n \in Nat, (e - t) % 32 = 0, n % 32 = 0, e % 8 = 0
  PROVE  (t - n) % 8 = 0 /\ (e - (t - n)) % 32 = 0
<1>1. PICK x \in Int : e - t = 32 * x BY Division
<1>2. PICK y \in Int : n = 32 * y BY Division
<1>3. PICK z \in Int : e = 8 * z BY Division
<1>4. t - n = 8 * (z - (4 * x + 4 * y)) BY <1>1, <1>2, <1>3
<1>5. e - (t - n) = 32 * (x + y) BY <1>1, <1>2
<1>6. (8 * (z - (4 * x + 4 * y))) % 8 = 0 /\ (32 * (x + y)) % 32 = 0 BY MultipleMod
<1> QED BY <1>4, <1>5, <1>6

LEMMA AllocFromTopKeeps ==
  ASSUME HeapInv, NEW call \in calls, AllocFromTop(call)
  PROVE  HeapInv'
<1>0. PICK list \in Seq(Chunk) : list = freelist BY DEF HeapInv, TypeOK
<1>a. PICK live : live = blocks OBVIOUS
<1>b. PICK t \in Nat : t = top BY DEF HeapInv, TypeOK
<1>c. PICK program \in Programs : program = calls BY DEF HeapInv, TypeOK
<1>d. PICK a : a = Rounded(call) OBVIOUS
<1>1. /\ call.size \in Nat /\ a.size \in Nat /\ a.alignment \in Nat \ {0}
      /\ a.size >= call.size /\ a.size >= FreeChunkSize
      /\ a.alignment % 8 = 0
      /\ call.alignment = 0 => a.size % 32 = 0 /\ a.alignment = 8
  BY <1>c, <1>d, RoundedFits
<1>2. a.size <= t - BOT_OF_HEAP /\ t <= TOP_OF_HEAP /\ t - a.size \in Nat
  <2>1. a.size <= t - BOT_OF_HEAP BY <1>b, <1>d DEF AllocFromTop
  <2>2. t <= TOP_OF_HEAP BY <1>b DEF HeapInv
  <2> QED BY <2>1, <2>2, <1>1, HeapAssumption
<1>3. PICK u \in 0 .. t - a.size :
        /\ u = NewTop(a) /\ u % 8 = 0
        /\ is_pow2(a.alignment) => u % a.alignment = 0
        /\ a.alignment = 8 /\ (t - a.size) % 8 = 0 => u = t - a.size
  <2>1. NewTop(a) = ALIGN_POW2(t - a.size, a.alignment) BY <1>b DEF NewTop
  <2> QED BY <2>1, <1>1, <1>2, AlignPow2
<1>4. PICK b : b = [start |-> u, size |-> t - u, call |-> call] OBVIOUS
<1>5. /\ b.start = u /\ b.size = t - u /\ b.call = call /\ End(b) = t
      /\ u \in Nat /\ t - u \in Nat /\ t - u >= a.size /\ u < t
  <2>1. b.start = u /\ b.size = t - u /\ b.call = call BY <1>4
  <2>2. u \in Nat /\ t - u \in Nat /\ t - u >= a.size /\ u < t BY <1>1, <1>2, <1>3 DEF FreeChunkSize
  <2> QED BY <2>1, <2>2 DEF End
<1>6. /\ freelist' = list /\ top' = u /\ blocks' = live \cup {b} /\ calls' = program /\ pc' = "idle" /\ pc = "idle"
      /\ u >= BOT_OF_HEAP
  BY <1>0, <1>a, <1>b, <1>c, <1>d, <1>3, <1>4 DEF AllocFromTop, valloc_alloclist_alloc
<1>7. Laid(list, live, t) /\ Separated(list, live, {}) BY <1>0, <1>a, <1>b, <1>6 DEF HeapInv, Merging
<1>8. \A n \in DOMAIN list : t <= list[n].start /\ list[n].start \in Nat BY <1>7 DEF Laid, Placed
<1>9. \A d \in live : t <= d.start /\ d.start \in Nat BY <1>7 DEF Laid, Placed
<1>10. Laid(list, live \cup {b}, u)
  <2>1. Laid(list, live, u) BY <1>5, <1>7, <1>8, <1>9, LaidFrom
  <2>2. Placed(b, u) BY <1>2, <1>5, HeapAssumption DEF Placed
  <2>3. \A n \in DOMAIN list : Apart(b, list[n]) BY <1>5, <1>8 DEF Apart
  <2>4. \A d \in live : Apart(d, b) BY <1>5, <1>9 DEF Apart
  <2> QED BY <2>1, <2>2, <2>3, <2>4, LaidMore
<1>11. Separated(list, live \cup {b}, {}) BY <1>7, SeparatedMore
<1>12. TypeOK'
  <2>1. b \in [start : Nat, size : Nat, call : program] BY <1>4, <1>5, <1>c
  <2>2. live \subseteq [start : Nat, size : Nat, call : program] BY <1>a, <1>c DEF HeapInv, TypeOK
  <2> QED BY <2>1, <2>2, <1>5, <1>6 DEF TypeOK
<1>13. AsAsked'
  <2>1. /\ b.size >= b.call.size /\ b.size >= FreeChunkSize /\ b.start % 8 = 0
        /\ is_pow2(Rounded(b.call).alignment) => b.start % Rounded(b.call).alignment = 0
    BY <1>1, <1>3, <1>5, <1>d DEF FreeChunkSize
  <2>2. blocks' = blocks \cup {b} BY <1>6, <1>a
  <2> QED BY <2>1, <2>2 DEF HeapInv, AsAsked
<1>14. NothingLost'
  <2>1. SUFFICES ASSUME OnlyAlloc' PROVE (NothingLost!2)' BY DEF NothingLost
  <2>2. OnlyAlloc /\ call.alignment = 0 BY <2>1, <1>6, <1>c DEF OnlyAlloc
  <2>3. /\ (TOP_OF_HEAP - t) % 32 = 0
        /\ \A d \in live : InPieces(d)
        /\ \A n \in DOMAIN list : InPieces(list[n])
        /\ t = TOP_OF_HEAP \/ (\E d \in live : EndsAtTop(d)) \/ (\E n \in DOMAIN list : EndsAtTop(list[n]))
    BY <2>2, <1>0, <1>a, <1>b DEF HeapInv, NothingLost
  <2>4. a.size % 32 = 0 /\ a.alignment = 8 BY <2>2, <1>1
  <2>5. u = t - a.size
    <3>1. (t - a.size) % 8 = 0
      <4>1. TOP_OF_HEAP \in Nat /\ TOP_OF_HEAP % 8 = 0 BY HeapAssumption
      <4> QED BY <4>1, <2>3, <2>4, <1>1, PieceBefore
    <3> QED BY <3>1, <2>4, <1>3
  <2>6. (TOP_OF_HEAP - u) % 32 = 0
    <3>1. TOP_OF_HEAP \in Nat /\ TOP_OF_HEAP % 8 = 0 BY HeapAssumption
    <3> QED BY <3>1, <2>3, <2>4, <2>5, <1>1, PieceBefore
  <2>7. t - u = a.size BY <2>5, <1>1
  <2>8. InPieces(b) BY <2>4, <2>6, <2>7, <1>5 DEF InPieces
  <2>9. \A d \in live \cup {b} : InPieces(d) BY <2>3, <2>8
  <2>10. (\E d \in live \cup {b} : EndsAtTop(d)) \/ (\E n \in DOMAIN list : EndsAtTop(list[n]))
    <3>1. CASE t = TOP_OF_HEAP
      <4>1. EndsAtTop(b) BY <3>1, <1>5 DEF EndsAtTop
      <4> QED BY <4>1
    <3> QED BY <2>3, <3>1
  <2> QED BY <2>3, <2>6, <2>9, <2>10, <1>6
<1>15. Laid(freelist, blocks, top)' BY <1>6, <1>10
<1>16. Separated(freelist, blocks, Merging)'
  <2>1. Merging' = {} BY <1>6 DEF Merging
  <2> QED BY <2>1, <1>6, <1>11
<1>17. LowestAboveBlock'
  <2>1. ASSUME NEW n \in DOMAIN list PROVE valloc_is_region_allocated(live \cup {b}, u, list[n].start)
    <3>1. u <= b.start /\ b.start <= list[n].start BY <1>5, <1>8
    <3> QED BY <3>1 DEF valloc_is_region_allocated
  <2> QED BY <2>1, <1>6 DEF LowestAboveBlock
<1>18. (BOT_OF_HEAP <= top /\ top <= TOP_OF_HEAP)' BY <1>2, <1>5, <1>6, HeapAssumption
<1> QED BY <1>12, <1>13, <1>14, <1>15, <1>16, <1>17, <1>18 DEF HeapInv

(* valloc_freelist_find_best: there is a first of the smallest.            *)
LEMMA BestFits ==
  ASSUME HeapInv, NEW n, NEW alignment, Fits(n, alignment) # {}
  PROVE  valloc_freelist_find_best(n, alignment) \in Fits(n, alignment)
<1>0. PICK list \in Seq(Chunk) : list = freelist BY DEF HeapInv, TypeOK
<1>1. PICK F : F = Fits(n, alignment) OBVIOUS
<1>2. F \in SUBSET Nat /\ F # {} /\ F \subseteq DOMAIN list
  <2>1. DOMAIN list \subseteq Nat BY LenProperties
  <2> QED BY <2>1, <1>0, <1>1 DEF Fits
<1>3. \A k \in F : list[k].size \in Nat
  <2>1. \A k \in F : list[k] \in Chunk BY <1>2, InList
  <2> QED BY <2>1 DEF Chunk
<1> DEFINE S == {list[k].size : k \in F}
<1>4. S \in SUBSET Nat /\ S # {} /\ (\A k \in F : list[k].size \in S) /\ (\A x \in S : \E k \in F : x = list[k].size)
  BY <1>2, <1>3
<1> HIDE DEF S
<1>5. PICK x \in S : \A y \in S : x <= y BY <1>4, NatLeast
<1> DEFINE K == {k \in F : list[k].size = x}
<1>6. K \in SUBSET Nat /\ K # {} /\ K \subseteq F /\ (\A k \in F : k \in K <=> list[k].size = x)
  BY <1>2, <1>4, <1>5
<1> HIDE DEF K
<1>7. PICK k \in K : \A m \in K : k <= m BY <1>6, NatLeast
<1>8. ASSUME NEW m \in F \ {k} PROVE list[k].size < list[m].size \/ (list[k].size = list[m].size /\ k < m)
  <2>1. k \in Nat /\ m \in Nat /\ list[k].size = x /\ x <= list[m].size /\ x \in Nat /\ list[m].size \in Nat
    BY <1>2, <1>3, <1>4, <1>5, <1>6, <1>7
  <2>2. CASE list[m].size = x
    <3>1. k <= m BY <2>2, <1>6, <1>7
    <3> QED BY <2>1, <2>2, <3>1
  <2>3. CASE list[m].size # x BY <2>1, <2>3
  <2> QED BY <2>2, <2>3
<1>9. \E k0 \in F : \A m \in F \ {k0} : list[k0].size < list[m].size \/ (list[k0].size = list[m].size /\ k0 < m)
  BY <1>6, <1>7, <1>8
<1>10. valloc_freelist_find_best(n, alignment)
         = CHOOSE k0 \in F : \A m \in F \ {k0} : list[k0].size < list[m].size \/ (list[k0].size = list[m].size /\ k0 < m)
  BY <1>0, <1>1 DEF valloc_freelist_find_best
<1> QED BY <1>1, <1>9, <1>10

-----------------------------------------------------------------------------
(* Split: the chunk c of a list, and the rest of it, with a block b in c   *)
(* and what is left below and above b.                                     *)
Inside(d, c) == c.start <= d.start /\ End(d) <= End(c)

LEMMA InsideApart ==
  ASSUME NEW c, NEW d, NEW x, c.start \in Nat, d.start \in Nat, x.start \in Nat,
         c.size \in Nat, d.size \in Nat, x.size \in Nat, Inside(d, c), Apart(c, x)
  PROVE  Apart(d, x) /\ Apart(x, d)
BY DEF Inside, Apart, End

(* The state of a list while a chunk of it is replaced: c is in its place, *)
(* or pieces of c, and the block b that is cut out.                        *)
Cut(list, live, t, c, b) ==
  /\ Laid(list, live, t)
  /\ Separated(list, live, {})
  /\ b \in live
  /\ \A n \in DOMAIN list :
       \/ Apart(c, list[n]) /\ Parted(c, list[n], live) /\ Parted(list[n], c, live)
       \/ Inside(list[n], c) /\ End(list[n]) <= b.start

(* A piece of c that is below b ...                                        *)
LEMMA CutBelow ==
  ASSUME NEW list \in Seq(Chunk), NEW live, NEW t \in Nat, NEW c, NEW b, NEW p \in Chunk,
         Placed(c, t), Placed(b, t), Inside(b, c), Cut(list, live, t, c, b),
         \A n \in DOMAIN list : Apart(c, list[n]),
         \A n \in DOMAIN list : Parted(c, list[n], live) /\ Parted(list[n], c, live),
         \A d \in live : d = b \/ Apart(c, d),
         p.start = c.start, End(p) = b.start, p.size > 0
  PROVE  Cut(<<p>> \o list, live, t, c, b)
<1>0. Len(list) \in Nat /\ DOMAIN list = 1 .. Len(list) BY LenProperties
<1>1. /\ c.start \in Nat /\ c.size \in Nat /\ c.size > 0 /\ t <= c.start /\ End(c) <= TOP_OF_HEAP
      /\ b.start \in Nat /\ b.size \in Nat /\ b.size > 0 /\ End(c) = c.start + c.size /\ End(b) = b.start + b.size
      /\ End(b) <= End(c) /\ TOP_OF_HEAP \in Nat
  BY HeapAssumption DEF Placed, Inside, End
<1>2. p.start \in Nat /\ p.size \in Nat BY DEF Chunk
<1>3. Placed(p, t) BY <1>1, <1>2 DEF Placed
<1>4. Inside(p, c) BY <1>1, <1>2 DEF Inside
<1>5. ASSUME NEW n \in DOMAIN list
      PROVE  Apart(p, list[n]) /\ Parted(p, list[n], live) /\ Parted(list[n], p, live)
  <2>1. PICK d \in Chunk : d = list[n] BY InList
  <2>2. Apart(c, d) /\ Parted(c, d, live) /\ Parted(d, c, live) BY <2>1
  <2>3. d.start \in Nat /\ d.size \in Nat BY DEF Chunk
  <2>4. d.size > 0 BY <2>1 DEF Cut, Laid, Placed
  <2>5. Apart(p, d) BY <1>1, <1>2, <1>4, <2>2, <2>3, InsideApart
  <2>6. Parted(d, p, live) BY <2>2 DEF Parted
  <2>7. Parted(p, d, live)
    <3>1. SUFFICES ASSUME p.start < d.start PROVE valloc_is_region_allocated(live, End(p), d.start) BY DEF Parted
    <3>2. c.start + c.size <= d.start BY <3>1, <2>2, <2>3, <2>4, <1>1 DEF Apart, End
    <3>3. b.start <= d.start /\ End(p) <= b.start BY <3>2, <2>3, <1>1
    <3> QED BY <3>3 DEF valloc_is_region_allocated, Cut
  <2> QED BY <2>1, <2>5, <2>6, <2>7
<1>6. ASSUME NEW d \in live PROVE Apart(d, p)
  <2>1. CASE d = b BY <2>1, <1>1 DEF Apart
  <2>2. CASE d # b
    <3>1. d.start \in Nat /\ d.size \in Nat BY DEF Cut, Laid, Placed
    <3>2. Apart(c, d) BY <2>2
    <3> QED BY <3>1, <3>2, <1>1, <1>2, <1>4, InsideApart
  <2> QED BY <2>1, <2>2
<1>7. Laid(<<p>> \o list, live, t)
  BY <1>3, <1>5, <1>6, LaidPrepended DEF Cut
<1>8. Separated(<<p>> \o list, live, {})
  BY <1>5, SeparatedPrepended DEF Cut
<1>9. PICK new : new = <<p>> \o list OBVIOUS
<1>10. /\ DOMAIN new = 1 .. Len(list) + 1 /\ new[1] = p
       /\ \A i \in 1 .. Len(list) : new[i + 1] = list[i]
       /\ \A j \in 1 .. Len(list) + 1 : j = 1 \/ \E i \in DOMAIN list : j = i + 1
  BY <1>9, Prepended
<1>11. ASSUME NEW j \in DOMAIN new
       PROVE  \/ Apart(c, new[j]) /\ Parted(c, new[j], live) /\ Parted(new[j], c, live)
              \/ Inside(new[j], c) /\ End(new[j]) <= b.start
  <2>1. CASE j = 1 BY <2>1, <1>1, <1>4, <1>10
  <2>2. CASE j # 1
    <3>1. PICK i \in DOMAIN list : j = i + 1 BY <2>2, <1>10
    <3>2. new[j] = list[i] BY <3>1, <1>0, <1>10
    <3> QED BY <3>2
  <2> QED BY <2>1, <2>2
<1>12. Cut(new, live, t, c, b) BY <1>7, <1>8, <1>9, <1>11 DEF Cut
<1> QED BY <1>9, <1>12

(* ... and one that is above it.                                           *)
LEMMA CutAbove ==
  ASSUME NEW list \in Seq(Chunk), NEW live, NEW t \in Nat, NEW c, NEW b, NEW q \in Chunk,
         Placed(c, t), Placed(b, t), Inside(b, c), Cut(list, live, t, c, b),
         \A d \in live : d = b \/ Apart(c, d),
         q.start = End(b), End(q) = End(c), q.size > 0
  PROVE  Laid(<<q>> \o list, live, t) /\ Separated(<<q>> \o list, live, {})
<1>1. /\ c.start \in Nat /\ c.size \in Nat /\ c.size > 0 /\ t <= c.start /\ End(c) <= TOP_OF_HEAP
      /\ b.start \in Nat /\ b.size \in Nat /\ b.size > 0 /\ End(c) = c.start + c.size /\ End(b) = b.start + b.size
      /\ c.start <= b.start /\ b.start + b.size <= c.start + c.size /\ TOP_OF_HEAP \in Nat
      /\ q.start = b.start + b.size
  BY HeapAssumption DEF Placed, Inside, End
<1>2. q.start \in Nat /\ q.size \in Nat BY DEF Chunk
<1>3. Placed(q, t) BY <1>1, <1>2 DEF Placed
<1>4. Inside(q, c) BY <1>1, <1>2 DEF Inside
<1>5. ASSUME NEW n \in DOMAIN list
      PROVE  Apart(q, list[n]) /\ Parted(q, list[n], live) /\ Parted(list[n], q, live)
  <2>1. PICK d \in Chunk : d = list[n] BY InList
  <2>2. d.start \in Nat /\ d.size \in Nat BY DEF Chunk
  <2>3. d.size > 0 /\ End(d) = d.start + d.size BY <2>1 DEF Cut, Laid, Placed, End
  <2>4. CASE Apart(c, d) /\ Parted(c, d, live) /\ Parted(d, c, live)
    <3>1. Apart(q, d) BY <1>1, <1>2, <1>4, <2>2, <2>4, InsideApart
    <3>2. Parted(q, d, live)
      <4>1. SUFFICES ASSUME q.start < d.start PROVE valloc_is_region_allocated(live, End(q), d.start) BY DEF Parted
      <4>2. c.start < d.start BY <4>1, <1>1, <1>2, <2>2
      <4> QED BY <4>2, <2>4 DEF Parted
    <3>3. Parted(d, q, live)
      <4>1. SUFFICES ASSUME d.start < q.start PROVE valloc_is_region_allocated(live, End(d), q.start) BY DEF Parted
      <4>2. c.start + c.size <= d.start \/ d.start + d.size <= c.start BY <2>4 DEF Apart, End
      <4>3. d.start + d.size <= c.start BY <4>1, <4>2, <2>2, <1>1
      <4>4. d.start + d.size <= b.start /\ b.start <= q.start BY <4>3, <2>2, <1>1
      <4>5. End(d) <= b.start /\ b.start <= q.start BY <4>4, <2>3
      <4> QED BY <4>5 DEF valloc_is_region_allocated, Cut
    <3> QED BY <3>1, <3>2, <3>3, <2>1
  <2>5. CASE Inside(d, c) /\ End(d) <= b.start
    <3>1. d.start + d.size <= b.start BY <2>3, <2>5
    <3>2. d.start + d.size <= q.start BY <3>1, <1>1, <2>2
    <3>3. Apart(q, d) BY <3>2, <2>3 DEF Apart
    <3>4. Parted(q, d, live)
      <4>1. ~ (q.start < d.start) BY <3>2, <1>2, <2>2
      <4> QED BY <4>1 DEF Parted
    <3>5. Parted(d, q, live)
      <4>1. End(d) <= b.start /\ b.start <= q.start BY <2>5, <1>1
      <4> QED BY <4>1 DEF Parted, valloc_is_region_allocated, Cut
    <3> QED BY <3>3, <3>4, <3>5, <2>1
  <2> QED BY <2>1, <2>4, <2>5 DEF Cut
<1>6. ASSUME NEW d \in live PROVE Apart(d, q)
  <2>1. CASE d = b BY <2>1, <1>1 DEF Apart
  <2>2. CASE d # b
    <3>1. d.start \in Nat /\ d.size \in Nat BY DEF Cut, Laid, Placed
    <3>2. Apart(c, d) BY <2>2
    <3> QED BY <3>1, <3>2, <1>1, <1>2, <1>4, InsideApart
  <2> QED BY <2>1, <2>2
<1>7. Laid(<<q>> \o list, live, t) BY <1>3, <1>5, <1>6, LaidPrepended DEF Cut
<1>8. Separated(<<q>> \o list, live, {}) BY <1>5, SeparatedPrepended DEF Cut
<1> QED BY <1>7, <1>8

(* The list that Split makes, piece by piece.                              *)
SplitInto(new, rest, s1, n1, s2, n2) ==
  \E mid \in Seq(Chunk) :
    /\ mid = rest \/ (n1 > FreeChunkSize /\ mid = <<[start |-> s1, size |-> n1]>> \o rest)
    /\ new = IF n2 > FreeChunkSize THEN <<[start |-> s2, size |-> n2]>> \o mid ELSE mid

LEMMA SplitList ==
  ASSUME NEW rest \in Seq(Chunk), NEW s1 \in Nat, NEW n1 \in Nat, NEW s2 \in Nat, NEW n2 \in Nat
  PROVE  SplitInto(IfLarge(s2, n2) \o IfLarge(s1, n1) \o rest, rest, s1, n1, s2, n2)
<1> DEFINE p == [start |-> s1, size |-> n1]
           q == [start |-> s2, size |-> n2]
<1>1. p \in Chunk /\ q \in Chunk BY DEF Chunk
<1>2. IfLarge(s1, n1) = IF n1 > FreeChunkSize THEN <<p>> ELSE <<>> BY DEF IfLarge
<1>3. IfLarge(s2, n2) = IF n2 > FreeChunkSize THEN <<q>> ELSE <<>> BY DEF IfLarge
<1>4. PICK A \in Seq(Chunk) : A = IfLarge(s2, n2) /\ A = IF n2 > FreeChunkSize THEN <<q>> ELSE <<>>
  <2> HIDE DEF p, q
  <2>1. <<p>> \in Seq(Chunk) /\ <<q>> \in Seq(Chunk) /\ <<>> \in Seq(Chunk) BY <1>1
  <2>2. IfLarge(s2, n2) \in Seq(Chunk) BY <2>1, <1>3
  <2> QED BY <2>2, <1>3
<1>5. PICK B \in Seq(Chunk) : B = IfLarge(s1, n1) /\ B = IF n1 > FreeChunkSize THEN <<p>> ELSE <<>>
  <2> HIDE DEF p, q
  <2>1. <<p>> \in Seq(Chunk) /\ <<q>> \in Seq(Chunk) /\ <<>> \in Seq(Chunk) BY <1>1
  <2>2. IfLarge(s1, n1) \in Seq(Chunk) BY <2>1, <1>2
  <2> QED BY <2>2, <1>2
<1>6. (A \o B) \o rest = A \o (B \o rest) BY ConcatAssociative
<1>7. PICK mid : mid = B \o rest OBVIOUS
<1>8. mid \in Seq(Chunk) BY <1>7, ConcatProperties
<1>9. <<>> \o rest = rest /\ <<>> \o mid = mid BY <1>8, ConcatEmptySeq
<1>10. mid = rest \/ (n1 > FreeChunkSize /\ mid = <<p>> \o rest)
  <2> HIDE DEF p, q
  <2> QED BY <1>5, <1>7, <1>9
<1>11. A \o mid = IF n2 > FreeChunkSize THEN <<q>> \o mid ELSE mid
  <2> HIDE DEF p, q
  <2> QED BY <1>4, <1>9
<1>12. IfLarge(s2, n2) \o IfLarge(s1, n1) \o rest = A \o mid BY <1>4, <1>5, <1>6, <1>7
<1> QED BY <1>8, <1>10, <1>11, <1>12 DEF SplitInto

LEMMA OfPrepended ==
  ASSUME NEW s \in Seq(Chunk), NEW c \in Chunk, NEW new, new = <<c>> \o s
  PROVE  /\ new[1] = c /\ 1 \in DOMAIN new
         /\ \A i \in DOMAIN s : new[i + 1] = s[i] /\ i + 1 \in DOMAIN new
         /\ \A i \in DOMAIN new : new[i] = c \/ \E j \in DOMAIN s : new[i] = s[j]
<1>0. Len(s) \in Nat /\ DOMAIN s = 1 .. Len(s) BY LenProperties
<1>1. /\ DOMAIN new = 1 .. Len(s) + 1 /\ new[1] = c
      /\ \A i \in 1 .. Len(s) : new[i + 1] = s[i]
      /\ \A j \in 1 .. Len(s) + 1 : j = 1 \/ \E i \in DOMAIN s : j = i + 1
  BY Prepended
<1> QED BY <1>0, <1>1

LEMMA MultiplesDiffer ==
  ASSUME NEW m \in Nat, NEW n \in Nat, m % 32 = 0, n % 32 = 0
  PROVE  (m - n) % 32 = 0
<1>1. PICK x \in Int : m = 32 * x BY Division
<1>2. PICK y \in Int : n = 32 * y BY Division
<1>3. m - n = 32 * (x - y) BY <1>1, <1>2
<1>4. (32 * (x - y)) % 32 = 0 BY MultipleMod
<1> QED BY <1>3, <1>4

LEMMA PieceStart ==
  ASSUME NEW e \in Nat, NEW s \in Nat, (e - s) % 32 = 0, e % 8 = 0
  PROVE  s % 8 = 0
<1>1. PICK x \in Int : e - s = 32 * x BY Division
<1>2. PICK z \in Int : e = 8 * z BY Division
<1>3. s = 8 * (z - 4 * x) BY <1>1, <1>2
<1>4. (8 * (z - 4 * x)) % 8 = 0 BY MultipleMod
<1> QED BY <1>3, <1>4

LEMMA PieceSize == ASSUME NEW n \in Nat, n % 32 = 0, n > 0 PROVE n >= 32
<1>1. PICK x \in Int : n = 32 * x BY Division
<1> QED BY <1>1

LEMMA AllocFromFreelistKeeps ==
  ASSUME HeapInv, NEW call \in calls, AllocFromFreelist(call)
  PROVE  HeapInv'
<1>0. PICK list \in Seq(Chunk) : list = freelist BY DEF HeapInv, TypeOK
<1>a. PICK live : live = blocks OBVIOUS
<1>b. PICK t \in Nat : t = top BY DEF HeapInv, TypeOK
<1>c. PICK program \in Programs : program = calls BY DEF HeapInv, TypeOK
<1>d. PICK a : a = Rounded(call) OBVIOUS
<1>1. /\ call.size \in Nat /\ a.size \in Nat /\ a.alignment \in Nat \ {0}
      /\ a.size >= call.size /\ a.size >= FreeChunkSize
      /\ a.alignment % 8 = 0 /\ bits[a.alignment] <= 64
      /\ call.alignment = 0 => a.size % 32 = 0 /\ a.alignment = 8
  BY <1>c, <1>d, RoundedFits
<1>2. PICK n \in Nat : n = a.size BY <1>1
<1>e. PICK k : k = valloc_freelist_find_best(n, a.alignment) OBVIOUS
<1>3. k \in Fits(n, a.alignment) BY <1>d, <1>e, <1>2, BestFits DEF AllocFromFreelist
<1>4. k \in DOMAIN list BY <1>0, <1>3 DEF Fits
<1>f. PICK c \in Chunk : c = list[k] BY <1>4, InList
<1>5. c.start \in Nat /\ c.size \in Nat BY DEF Chunk
<1>6. PICK up \in Nat : /\ up = ALIGN_UP_TO(c.start, a.alignment) /\ up >= c.start /\ up % 8 = 0
                        /\ is_pow2(a.alignment) => up % a.alignment = 0
  BY <1>1, <1>5, AlignUpTo
<1>7. PICK pad \in Nat : pad = up - c.start /\ pad = Pad(c, a.alignment)
  <2>1. up - c.start \in Nat BY <1>5, <1>6
  <2> QED BY <2>1, <1>6 DEF Pad
<1>8. c.size > n + pad BY <1>0, <1>3, <1>f, <1>7 DEF Fits
<1>9. PICK left \in Nat : left = (c.size - pad) - n /\ left > 0
  <2>1. (c.size - pad) - n \in Nat /\ (c.size - pad) - n > 0 BY <1>5, <1>8
  <2> QED BY <2>1
<1>10. c.start + pad = up BY <1>5, <1>6, <1>7
<1>11. PICK b : b = [start |-> up, size |-> n, call |-> call] OBVIOUS
<1>12. b.start = up /\ b.size = n /\ b.call = call /\ End(b) = up + n BY <1>11 DEF End
<1>13. PICK rest : rest = RemoveAt(list, k) OBVIOUS
<1>14. rest \in Seq(Chunk) /\ DOMAIN rest = 1 .. Len(list) - 1
       /\ \A i \in 1 .. Len(list) - 1 : rest[i] = list[Kept(i, k)]
  BY <1>4, <1>13, Removed
<1>15. PICK new : new = IfLarge(up + n, left) \o IfLarge(c.start, pad) \o rest OBVIOUS
<1>16. /\ freelist' = new /\ blocks' = live \cup {b} /\ top' = t /\ calls' = program /\ pc' = "idle" /\ pc = "idle"
  <2>1. Split(k, n, a.alignment) = new
    BY <1>0, <1>f, <1>7, <1>9, <1>10, <1>13, <1>15 DEF Split
  <2>2. freelist[k].start + Pad(freelist[k], a.alignment) = up BY <1>0, <1>f, <1>7, <1>10
  <2> QED BY <2>1, <2>2, <1>a, <1>b, <1>c, <1>d, <1>e, <1>2, <1>11 DEF AllocFromFreelist, valloc_alloclist_alloc
<1>17. PICK mid \in Seq(Chunk) :
         /\ mid = rest \/ (pad > FreeChunkSize /\ mid = <<[start |-> c.start, size |-> pad]>> \o rest)
         /\ new = IF left > FreeChunkSize THEN <<[start |-> up + n, size |-> left]>> \o mid ELSE mid
  <2>1. up + n \in Nat OBVIOUS
  <2>2. SplitInto(new, rest, c.start, pad, up + n, left) BY <2>1, <1>5, <1>14, <1>15, SplitList
  <2> QED BY <2>2 DEF SplitInto
<1>43. up + n \in Nat OBVIOUS
<1>18. Laid(list, live, t) /\ Separated(list, live, {}) BY <1>0, <1>a, <1>b, <1>16 DEF HeapInv, Merging
<1>19. Placed(c, t) BY <1>4, <1>f, <1>18 DEF Laid
<1>20. /\ n > 0 /\ c.size > 0 /\ t <= c.start /\ c.start + c.size <= TOP_OF_HEAP /\ TOP_OF_HEAP \in Nat
       /\ End(c) = c.start + c.size
       /\ (up + n) + left = c.start + c.size
  <2>1. n > 0 BY <1>1, <1>2 DEF FreeChunkSize
  <2>2. c.size > 0 /\ t <= c.start /\ End(c) <= TOP_OF_HEAP BY <1>19 DEF Placed
  <2>3. End(c) = c.start + c.size BY DEF End
  <2>4. left = (c.size - pad) - n /\ up = c.start + pad BY <1>9, <1>10
  <2>5. (up + n) + left = c.start + c.size
    <3>1. PICK s \in Nat, z \in Nat : s = c.start /\ z = c.size BY <1>5
    <3>2. left = (z - pad) - n /\ up = s + pad BY <2>4, <3>1
    <3>3. (up + n) + left = s + z BY <3>2
    <3> QED BY <3>1, <3>3
  <2> QED BY <2>1, <2>2, <2>3, <2>5, HeapAssumption
<1>21. Placed(b, t) BY <1>5, <1>6, <1>12, <1>20 DEF Placed
<1>22. Inside(b, c) BY <1>5, <1>6, <1>12, <1>20 DEF Inside
<1>23. Len(list) \in Nat /\ DOMAIN list = 1 .. Len(list) BY LenProperties
<1>24. /\ \A i \in DOMAIN rest : Kept(i, k) \in DOMAIN list \ {k}
       /\ \A m \in DOMAIN list \ {k} : \E i \in DOMAIN rest : m = Kept(i, k)
       /\ \A i \in DOMAIN rest : rest[i] = list[Kept(i, k)]
  <2>1. k \in 1 .. Len(list) BY <1>4, <1>23
  <2>2. /\ \A i \in 1 .. Len(list) - 1 : Kept(i, k) \in (1 .. Len(list)) \ {k}
        /\ \A m \in (1 .. Len(list)) \ {k} : \E i \in 1 .. Len(list) - 1 : m = Kept(i, k)
    BY <2>1, <1>23, KeptProperties
  <2> QED BY <2>2, <1>14, <1>23
<1>25. PICK more : more = live \cup {b} OBVIOUS
<1>26. \A i \in DOMAIN rest : Apart(c, rest[i]) BY <1>4, <1>f, <1>18, <1>24 DEF Laid
<1>27. \A i \in DOMAIN rest : Parted(c, rest[i], more) /\ Parted(rest[i], c, more)
  <2>1. \A i \in DOMAIN rest : Parted(c, rest[i], live) /\ Parted(rest[i], c, live)
    BY <1>4, <1>f, <1>18, <1>24 DEF Separated
  <2>2. live \subseteq more BY <1>25
  <2> QED BY <2>1, <2>2, PartedMore
<1>28. \A d \in live : Apart(c, d) /\ d.start \in Nat /\ d.size \in Nat
  BY <1>4, <1>f, <1>18 DEF Laid, Placed, Apart
<1>29. \A d \in more : d = b \/ Apart(c, d) BY <1>25, <1>28
<1>30. Laid(rest, more, t)
  <2>1. Laid(rest, live, t) BY <1>4, <1>13, <1>18, LaidRemoved
  <2>2. ASSUME NEW i \in DOMAIN rest PROVE Apart(b, rest[i])
    <3>1. PICK d \in Chunk : d = rest[i] BY <1>14, InList
    <3>2. d.start \in Nat /\ d.size \in Nat BY DEF Chunk
    <3>3. Apart(c, d) BY <3>1, <1>26
    <3>4. b.start \in Nat /\ b.size \in Nat BY <1>12
    <3> QED BY <3>1, <3>2, <3>3, <3>4, <1>5, <1>22, InsideApart
  <2>3. ASSUME NEW d \in live PROVE Apart(d, b)
    <3>1. b.start \in Nat /\ b.size \in Nat BY <1>12
    <3> QED BY <3>1, <1>5, <1>22, <1>28, InsideApart
  <2> QED BY <2>1, <2>2, <2>3, <1>21, <1>25, LaidMore
<1>31. Separated(rest, more, {})
  <2>1. Separated(rest, live, {}) BY <1>4, <1>13, <1>18, SeparatedRemoved
  <2>2. live \subseteq more BY <1>25
  <2> QED BY <2>1, <2>2, SeparatedMore
<1>32. Cut(rest, more, t, c, b)
  <2>1. b \in more BY <1>25
  <2> QED BY <2>1, <1>26, <1>27, <1>30, <1>31 DEF Cut
<1>33. Cut(mid, more, t, c, b)
  <2>1. CASE mid = rest BY <2>1, <1>32
  <2>2. CASE pad > FreeChunkSize /\ mid = <<[start |-> c.start, size |-> pad]>> \o rest
    <3>1. PICK p \in Chunk : p = [start |-> c.start, size |-> pad] BY <1>5 DEF Chunk
    <3>2. p.start = c.start /\ p.size = pad /\ End(p) = b.start /\ p.size > 0
      BY <3>1, <2>2, <1>10, <1>12 DEF End, FreeChunkSize
    <3>3. Cut(<<p>> \o rest, more, t, c, b)
      BY <3>2, <1>14, <1>19, <1>21, <1>22, <1>26, <1>27, <1>29, <1>32, CutBelow
    <3> QED BY <3>1, <3>3, <2>2
  <2> QED BY <2>1, <2>2, <1>17
<1>34. Laid(new, more, t) /\ Separated(new, more, {})
  <2>1. CASE ~ (left > FreeChunkSize) BY <2>1, <1>17, <1>33 DEF Cut
  <2>2. CASE left > FreeChunkSize
    <3>1. PICK q \in Chunk : q = [start |-> up + n, size |-> left]
      BY <1>43 DEF Chunk
    <3>2. q.start = End(b) /\ End(q) = End(c) /\ q.size > 0
      BY <3>1, <1>9, <1>12, <1>20 DEF End
    <3>3. Laid(<<q>> \o mid, more, t) /\ Separated(<<q>> \o mid, more, {})
      BY <3>2, <1>19, <1>21, <1>22, <1>29, <1>33, CutAbove
    <3> QED BY <3>1, <3>3, <2>2, <1>17
  <2> QED BY <2>1, <2>2
(* Every chunk of the new list begins no lower than one of the old list.   *)
<1>35. /\ mid \in Seq(Chunk) /\ new \in Seq(Chunk)
       /\ \A i \in DOMAIN mid : (\E m \in DOMAIN list : mid[i] = list[m]) \/ mid[i] = [start |-> c.start, size |-> pad]
       /\ \A i \in DOMAIN new : (\E j \in DOMAIN mid : new[i] = mid[j]) \/ new[i] = [start |-> up + n, size |-> left]
  <2>1. \A i \in DOMAIN mid : (\E m \in DOMAIN list : mid[i] = list[m]) \/ mid[i] = [start |-> c.start, size |-> pad]
    <3>1. CASE mid = rest BY <3>1, <1>24
    <3>2. CASE mid = <<[start |-> c.start, size |-> pad]>> \o rest
      <4>1. PICK p \in Chunk : p = [start |-> c.start, size |-> pad] BY <1>5 DEF Chunk
      <4>2. \A i \in DOMAIN mid : mid[i] = p \/ \E j \in DOMAIN rest : mid[i] = rest[j]
        BY <3>2, <4>1, <1>14, OfPrepended
      <4> QED BY <4>1, <4>2, <1>24
    <3> QED BY <3>1, <3>2, <1>17
  <2>2. CASE ~ (left > FreeChunkSize) BY <2>1, <2>2, <1>17
  <2>3. CASE left > FreeChunkSize
    <3>1. PICK q \in Chunk : q = [start |-> up + n, size |-> left]
      BY <1>43 DEF Chunk
    <3>2. new = <<q>> \o mid BY <2>3, <3>1, <1>17
    <3>3. \A i \in DOMAIN new : new[i] = q \/ \E j \in DOMAIN mid : new[i] = mid[j] BY <3>2, OfPrepended
    <3>4. new \in Seq(Chunk) BY <3>2, Prepended
    <3> QED BY <2>1, <3>1, <3>3, <3>4
  <2> QED BY <2>2, <2>3
<1>36. TypeOK'
  <2>1. b \in [start : Nat, size : Nat, call : program] BY <1>11, <1>c
  <2>2. live \subseteq [start : Nat, size : Nat, call : program] BY <1>a, <1>c DEF HeapInv, TypeOK
  <2> QED BY <2>1, <2>2, <1>16, <1>35 DEF TypeOK
<1>37. AsAsked'
  <2>1. /\ b.size >= b.call.size /\ b.size >= FreeChunkSize /\ b.start % 8 = 0
        /\ is_pow2(Rounded(b.call).alignment) => b.start % Rounded(b.call).alignment = 0
    BY <1>1, <1>2, <1>6, <1>12, <1>d DEF FreeChunkSize
  <2>2. blocks' = blocks \cup {b} BY <1>16, <1>a
  <2> QED BY <2>1, <2>2 DEF HeapInv, AsAsked
<1>38. LowestAboveBlock'
  <2>1. \A m \in DOMAIN list : valloc_is_region_allocated(live, t, list[m].start)
    BY <1>0, <1>a, <1>b, <1>16 DEF HeapInv, LowestAboveBlock
  <2>2. PICK d \in live : t <= d.start /\ d.start <= c.start
    BY <2>1, <1>4, <1>f DEF valloc_is_region_allocated
  <2>3. d.start \in Nat BY <1>28
  <2>4. d.start <= up + n BY <2>2, <2>3, <1>5, <1>6
  <2>5. ASSUME NEW i \in DOMAIN new PROVE valloc_is_region_allocated(live \cup {b}, t, new[i].start)
    <3>1. CASE new[i] = [start |-> up + n, size |-> left]
      BY <3>1, <2>2, <2>4 DEF valloc_is_region_allocated
    <3>2. CASE new[i] = [start |-> c.start, size |-> pad]
      BY <3>2, <2>2 DEF valloc_is_region_allocated
    <3>3. CASE \E m \in DOMAIN list : new[i] = list[m]
      BY <3>3, <2>1 DEF valloc_is_region_allocated
    <3> QED BY <3>1, <3>2, <3>3, <1>35
  <2> QED BY <2>5, <1>16 DEF LowestAboveBlock
<1>39. NothingLost'
  <2>1. SUFFICES ASSUME OnlyAlloc' PROVE (NothingLost!2)' BY DEF NothingLost
  <2>2. OnlyAlloc /\ call.alignment = 0 BY <2>1, <1>16, <1>c DEF OnlyAlloc
  <2>3. /\ (TOP_OF_HEAP - t) % 32 = 0
        /\ \A d \in live : InPieces(d)
        /\ \A m \in DOMAIN list : InPieces(list[m])
        /\ t = TOP_OF_HEAP \/ (\E d \in live : EndsAtTop(d)) \/ (\E m \in DOMAIN list : EndsAtTop(list[m]))
    BY <2>2, <1>0, <1>a, <1>b DEF HeapInv, NothingLost
  <2>4. n % 32 = 0 /\ a.alignment = 8 BY <2>2, <1>1, <1>2
  <2>5. (TOP_OF_HEAP - c.start) % 32 = 0 /\ c.size % 32 = 0 BY <2>3, <1>4, <1>f DEF InPieces
  <2>6. up = c.start /\ pad = 0
    <3>1. TOP_OF_HEAP \in Nat /\ TOP_OF_HEAP % 8 = 0 BY HeapAssumption
    <3>3. c.start % 8 = 0 BY <3>1, <2>5, <1>5, PieceStart
    <3>4. up = c.start BY <3>3, <2>4, <1>6 DEF ALIGN_UP_TO
    <3> QED BY <3>4, <1>5, <1>7
  <2>7. mid = rest BY <2>6, <1>17 DEF FreeChunkSize
  <2>8. left % 32 = 0 /\ left > FreeChunkSize
    <3>1. left = c.size - n BY <2>6, <1>5, <1>9
    <3>2. left % 32 = 0 BY <3>1, <2>4, <2>5, <1>5, MultiplesDiffer
    <3>3. left \in Nat /\ left > 0 BY <1>9
    <3>4. left >= 32 BY <3>2, <3>3, PieceSize
    <3> QED BY <3>2, <3>4 DEF FreeChunkSize
  <2>9. PICK q \in Chunk : q = [start |-> up + n, size |-> left]
    BY <1>43 DEF Chunk
  <2>10. new = <<q>> \o rest BY <2>7, <2>8, <2>9, <1>17
  <2>11. q.start = c.start + n /\ q.size = left /\ End(q) = End(c) BY <2>6, <2>9, <1>20 DEF End
  <2>12. InPieces(b) BY <2>4, <2>5, <2>6, <1>12 DEF InPieces
  <2>13. InPieces(q)
    <3>1. TOP_OF_HEAP \in Nat BY HeapAssumption
    <3>2. (TOP_OF_HEAP - (c.start + n)) % 32 = 0 BY <3>1, <2>4, <2>5, <1>5, PieceAfter
    <3> QED BY <3>2, <2>8, <2>11 DEF InPieces
  <2>14. /\ new[1] = q /\ 1 \in DOMAIN new
         /\ \A i \in DOMAIN rest : new[i + 1] = rest[i] /\ i + 1 \in DOMAIN new
         /\ \A i \in DOMAIN new : new[i] = q \/ \E j \in DOMAIN rest : new[i] = rest[j]
    BY <2>10, <1>14, OfPrepended
  <2>15. \A i \in DOMAIN new : InPieces(new[i])
    <3>1. \A i \in DOMAIN rest : InPieces(rest[i]) BY <2>3, <1>24
    <3> QED BY <3>1, <2>13, <2>14
  <2>16. ASSUME NEW m \in DOMAIN list, EndsAtTop(list[m]) PROVE \E i \in DOMAIN new : EndsAtTop(new[i])
    <3>1. CASE m = k
      <4>1. EndsAtTop(q) BY <3>1, <2>11, <2>16, <1>f DEF EndsAtTop
      <4> QED BY <4>1, <2>14
    <3>2. CASE m # k
      <4>1. PICK i \in DOMAIN rest : m = Kept(i, k) BY <3>2, <1>24
      <4>2. new[i + 1] = list[m] /\ i + 1 \in DOMAIN new BY <4>1, <2>14, <1>24
      <4> QED BY <4>2, <2>16
    <3> QED BY <3>1, <3>2
  <2>17. t = TOP_OF_HEAP \/ (\E d \in live \cup {b} : EndsAtTop(d)) \/ (\E i \in DOMAIN new : EndsAtTop(new[i]))
    BY <2>3, <2>16
  <2>18. \A d \in live \cup {b} : InPieces(d) BY <2>3, <2>12
  <2> QED BY <2>3, <2>15, <2>17, <2>18, <1>16
<1>40. Laid(freelist, blocks, top)' BY <1>16, <1>25, <1>34
<1>41. Separated(freelist, blocks, Merging)'
  <2>1. Merging' = {} BY <1>16 DEF Merging
  <2> QED BY <2>1, <1>16, <1>25, <1>34
<1>42. (BOT_OF_HEAP <= top /\ top <= TOP_OF_HEAP)' BY <1>16, <1>b DEF HeapInv
<1> QED BY <1>36, <1>37, <1>38, <1>39, <1>40, <1>41, <1>42 DEF HeapInv

-----------------------------------------------------------------------------
(* HeapInv is inductive: whatever is allocated and freed, at whatever      *)
(* round of the loops of free.                                             *)
THEOREM HeapInvariant == Spec => []HeapInv
<1>1. Init => HeapInv
  <2>1. ASSUME Init PROVE HeapInv
    <3>1. calls \in Programs /\ top = TOP_OF_HEAP /\ freelist = <<>> /\ blocks = {} /\ pc = "idle"
      BY <2>1 DEF Init
    <3> QED BY <3>1, EmptyHeap
  <2> QED BY <2>1
<1>2. HeapInv /\ [Next]_vars => HeapInv'
  <2> SUFFICES ASSUME HeapInv, [Next]_vars PROVE HeapInv' OBVIOUS
  <2>1. ASSUME NEW call \in calls, AllocFromFreelist(call) PROVE HeapInv' BY <2>1, AllocFromFreelistKeeps
  <2>2. ASSUME NEW call \in calls, AllocFromTop(call) PROVE HeapInv' BY <2>2, AllocFromTopKeeps
  <2>3. ASSUME NEW call \in calls, AllocFails(call) PROVE HeapInv' BY <2>3, FailKeeps DEF AllocFails
  <2>4. ASSUME NEW b \in blocks, Free(b) PROVE HeapInv' BY <2>4, FreeKeeps
  <2>5. CASE CompactTogether BY <2>5, CompactTogetherKeeps
  <2>6. CASE Compacted BY <2>6, CompactedKeeps
  <2>7. CASE ShiftTop BY <2>7, ShiftTopKeeps
  <2>8. CASE Freed BY <2>8, FreedKeeps
  <2>9. CASE free_all BY <2>9, FreeAllKeeps
  <2>10. CASE UNCHANGED vars
    BY <2>10 DEF vars, HeapInv, TypeOK, AsAsked, Merging, LowestAboveBlock, NothingLost, OnlyAlloc
  <2> QED BY <2>1, <2>2, <2>3, <2>4, <2>5, <2>6, <2>7, <2>8, <2>9, <2>10 DEF Next
<1> QED BY <1>1, <1>2, PTL DEF Spec

(* No byte of the heap is in two blocks, in a block and in the free list,  *)
(* or in either and below mem.top; and every block is as large and as      *)
(* aligned as was asked for (lib/valloc/valloc.c:66-100).                  *)
THEOREM BlocksStayApart == Spec => []BlocksApart
<1>1. HeapInv => BlocksApart
  <2>1. SUFFICES ASSUME HeapInv PROVE BlocksApart OBVIOUS
  <2>2. AsAsked /\ Laid(freelist, blocks, top) /\ BOT_OF_HEAP <= top /\ top <= TOP_OF_HEAP
    BY <2>1 DEF HeapInv
  <2>3. NoneShared BY <2>2 DEF Laid, NoneShared
  <2>4. \A b \in blocks : InHeap(b) BY <2>2 DEF Laid, Placed, InHeap
  <2>5. \A n \in DOMAIN freelist : InHeap(freelist[n]) BY <2>2 DEF Laid, Placed, InHeap
  <2> QED BY <2>2, <2>3, <2>4, <2>5 DEF BlocksApart
<1> QED BY <1>1, HeapInvariant, PTL

(* When no call is in progress, a block is between any two free chunks and *)
(* below the lowest one; so a heap from which nothing is allocated has no  *)
(* free chunk, and with sizes that are powers of 2 mem.top is back at the  *)
(* end (lib/valloc/valloc_freelist.c:127-176).                             *)
THEOREM FreeCompacts == Spec => []FreeIsCompact
<1>1. HeapInv => FreeIsCompact
  <2>1. SUFFICES ASSUME HeapInv, pc = "idle" PROVE FreeIsCompact!2 BY DEF FreeIsCompact
  <2>2. /\ Separated(freelist, blocks, {}) /\ freelist \in Seq(Chunk)
        /\ \A n \in DOMAIN freelist : valloc_is_region_allocated(blocks, top, freelist[n].start)
    BY <2>1 DEF HeapInv, TypeOK, Merging, LowestAboveBlock
  <2>3. \A n, m \in DOMAIN freelist : freelist[n].start < freelist[m].start =>
          valloc_is_region_allocated(blocks, End(freelist[n]), freelist[m].start)
    BY <2>2 DEF Separated, Parted
  <2>4. ASSUME blocks = {} PROVE freelist = <<>> /\ (OnlyAlloc => top = TOP_OF_HEAP)
    <3>1. DOMAIN freelist = {} BY <2>2, <2>4 DEF valloc_is_region_allocated
    <3>2. freelist = <<>>
      <4>1. Len(freelist) \in Nat /\ DOMAIN freelist = 1 .. Len(freelist) BY <2>2, LenProperties
      <4>2. Len(freelist) = 0 BY <4>1, <3>1
      <4> QED BY <4>2, <2>2, EmptySeq
    <3>3. OnlyAlloc => top = TOP_OF_HEAP BY <2>1, <2>4, <3>1 DEF HeapInv, NothingLost
    <3> QED BY <3>2, <3>3
  <2> QED BY <2>2, <2>3, <2>4
<1> QED BY <1>1, HeapInvariant, PTL
===============================================================================
