--------------------------- MODULE ConcretizeProofs ---------------------------
(***************************************************************************)
(* The addresses that concretize_batch chooses, for every choice of tests, *)
(* batches, regions and offsets that satisfies JobsAssumption.  ConcInv    *)
(* follows a try from the places that are drawn, by the offsets imposed on *)
(* them, to the addresses that are validated, and these through the        *)
(* comparison of the runs of a batch to the check made at their use.       *)
(***************************************************************************)
EXTENDS Concretize, TLAPS

(* What is drawn, and where a variable may end up. *)
Drawn  == [reg : Regions, offs : {o \in Nat : o % 16 = 0}]
Roots  == {d \in Drawn : d.offs < RegionSize}
Places == [reg : Regions, offs : {o \in Nat : o % 8 = 0}]
Choice == [region : {TRUE}, offset : BOOLEAN, drawn : Drawn, idx : Places]

Random == job.type = "RANDOM"

JobInv ==
  /\ Concretizable(HeapVar, infos) /\ Names \in Seq(HeapVar)
  /\ job.type \in {"RANDOM", "FIXED"} /\ job.batch \in Nat \ {0}
  /\ r \in 1 .. job.batch
  /\ pc \in {"region", "offset", "validate", "compare", "write", "done", "failed"}

(* The places of a try: those of its pins were drawn next to their roots,  *)
(* and offsets have moved them no further than they may.                   *)
RootRight(v) == infos[v].ty # "PINNED" => st[v].drawn \in Roots

PinRight(v) ==
  LET root == infos[v].pin_var IN
  /\ st[root].region
  /\ st[v].drawn.reg = st[root].drawn.reg
  /\ st[v].drawn.offs \in pin_offs(st[root].drawn.offs, infos[v].pin_level)

OffsetRight(v) ==
  LET w == infos[v].offset_var  size == Size(infos[v].offset_level) IN
  IF w = NoVar THEN st[v].idx.offs = st[v].drawn.offs
  ELSE st[w].offset /\ st[v].idx.offs = AlignDown(st[v].drawn.offs, size) + (st[w].idx.offs % size)

PlacedRight(v) ==
  /\ st[v] \in Choice
  /\ RootRight(v)
  /\ v \in PinnedVar => PinRight(v)
  /\ st[v].idx.reg = st[v].drawn.reg
  /\ IF st[v].offset THEN OffsetRight(v) ELSE st[v].idx = st[v].drawn

InTry == pc \in {"region", "offset", "validate"} \/ (pc = "compare" /\ Random)

TryInv ==
  InTry =>
    /\ st \in [HeapVar -> {NothingPicked} \cup Choice]
    /\ \A v \in HeapVar :
         /\ st[v].region => PlacedRight(v)
         /\ pc # "region" => st[v].region
         /\ pc \in {"validate", "compare"} => st[v].offset

PickInv ==
  pc = "region" =>
    /\ todo \subseteq HeapVar
    /\ \A v \in todo : infos[v].ty # "PINNED"
    /\ \A v \in HeapVar : /\ ~ st[v].offset
                          /\ st[v].region \/ v \in todo \/ (v \in PinnedVar /\ infos[v].pin_var \in todo)

(* The addresses of a run. *)
Found == [phys : BOOLEAN, reg : Regions, offs : Nat]

Usable(va) ==
  /\ va \in [HeapVar -> Found]
  /\ \A v \in HeapVar :
       /\ va[v].offs % 8 = 0
       /\ infos[v].offset_var # NoVar =>
            LET size == Size(infos[v].offset_level) IN va[v].offs % size = va[infos[v].offset_var].offs % size
  /\ \A v, w \in HeapVar : v # w =>
       /\ va[v] = va[w] => can_virtually_alias(v, w)
       /\ ~ (var_owns_region(infos[v]) /\ var_owns_region(infos[w])
             /\ in_same_region(va[v], va[w], var_owned_region_size(w)))

(* All runs that have addresses can use them, and those that were compared *)
(* use different ones.                                                     *)
Compared == IF pc \in {"write", "done", "failed"} THEN job.batch ELSE r - 1

RunsInv ==
  /\ values \in Seq([HeapVar -> Found])
  /\ Len(values) = IF pc = "compare" THEN r ELSE Compared
  /\ \A n \in 1 .. Len(values) : Usable(values[n])
  /\ \A n, m \in 1 .. Compared : n # m => ~ Overlap(n, m)
  /\ pc = "compare" /\ Random => values[r] = [v \in HeapVar |-> Address(v)]

FailInv == pc = "failed" => \E v \in PinnedVar : ~ InPlace(values[r], v)

ConcInv == JobInv /\ TryInv /\ PickInv /\ RunsInv /\ FailInv
-----------------------------------------------------------------------------
(* Regions of 4K and of 2M.                                                *)
LEMMA Quotient ==
  ASSUME NEW n \in Nat, NEW b \in Nat \ {0}
  PROVE  n \div b \in Nat /\ n % b \in 0 .. b - 1 /\ n = (b * (n \div b)) + (n % b)
OBVIOUS

LEMMA SizeFacts ==
  ASSUME NEW l \in Levels
  PROVE  Size(l) \in Nat \ {0} /\ Size(l) % 16 = 0
BY SMT DEF Levels, Size

LEMMA RegionSizeFacts == RegionSize \in Nat
BY SMT DEF RegionSize, Size

LEMMA PlaceUnique ==
  ASSUME NEW l \in Levels, NEW b \in Nat, b = Size(l), NEW q \in Nat, NEW m \in 0 .. b - 1
  PROVE  ((b * q) + m) \div b = q /\ ((b * q) + m) % b = m
BY SMT DEF Levels, Size

LEMMA AlignDownFacts ==
  ASSUME NEW n \in Nat, NEW b \in Nat \ {0}
  PROVE  AlignDown(n, b) = b * (n \div b) /\ AlignDown(n, b) \in Nat /\ AlignDown(n, b) <= n
<1>1. n \div b \in Nat /\ n % b \in 0 .. b - 1 /\ n = (b * (n \div b)) + (n % b)
  BY Quotient
<1>2. PICK p \in Nat, m \in 0 .. b - 1 : p = b * (n \div b) /\ m = n % b
  BY <1>1
<1> QED
  BY <1>1, <1>2 DEF AlignDown

(* An offset within the region that n is in. *)
LEMMA OffsetWithin ==
  ASSUME NEW l \in Levels, NEW b \in Nat, b = Size(l),
         NEW n \in Nat, NEW m \in Nat, NEW z, z = AlignDown(n, b) + (m % b)
  PROVE  z \in Nat /\ z \div b = n \div b /\ z % b = m % b
<1>1. b \in Nat \ {0}
  BY SizeFacts
<1>2. PICK q \in Nat : q = n \div b
  BY <1>1, Quotient
<1>3. PICK d \in 0 .. b - 1 : d = m % b
  BY <1>1, Quotient
<1>4. z = (b * q) + d
  BY <1>1, <1>2, <1>3, AlignDownFacts
<1>5. z \in Nat
  BY <1>1, <1>4
<1>6. ((b * q) + d) \div b = q /\ ((b * q) + d) % b = d
  BY PlaceUnique
<1>7. z \div b = q /\ z % b = d
  BY <1>4, <1>6
<1> QED
  BY <1>2, <1>3, <1>5, <1>7

LEMMA Eights ==
  ASSUME NEW l \in Levels, NEW b \in Nat, b = Size(l),
         NEW n \in Nat, NEW m \in Nat, NEW z, z = AlignDown(n, b) + (m % b), m % 8 = 0
  PROVE  z % 8 = 0
<1>1. CASE l = "PAGE"
  BY <1>1, SMT DEF Size, AlignDown
<1>2. CASE l = "PMD"
  BY <1>2, SMT DEF Size, AlignDown
<1> QED
  BY <1>1, <1>2 DEF Levels

(* The same page is the same 2M. *)
LEMMA SameWithin ==
  ASSUME NEW x \in Nat, NEW y \in Nat, NEW l \in Levels, NEW m \in Levels, Within(l, m),
         x \div Size(l) = y \div Size(l)
  PROVE  x \div Size(m) = y \div Size(m)
<1>1. CASE l = "PAGE" /\ m = "PMD"
  BY <1>1, SMT DEF Size
<1>2. CASE l = m
  BY <1>2
<1> QED
  BY <1>1, <1>2 DEF Within, Levels

(* What pin_offs may draw: nothing before the region that root is in, and  *)
(* little after it.                                                        *)
LEMMA Sixteen ==
  ASSUME NEW x \in Nat
  PROVE  AlignDown(x, 16) \in Nat /\ AlignDown(x, 16) % 16 = 0 /\ AlignDown(x, 16) <= x
BY DEF AlignDown

LEMMA SixteenBetween ==
  ASSUME NEW x \in Nat, NEW y \in Nat, NEW n \in Nat, x % 16 = 0, y % 16 = 0, x <= n, n <= y + 40
  PROVE  x <= AlignDown(n, 16) /\ AlignDown(n, 16) <= y + 32
BY DEF AlignDown

LEMMA AlignUpFacts ==
  ASSUME NEW n \in Nat, NEW l \in Levels
  PROVE  ALIGN_UP_TO(n, Shift(l)) \in Nat /\ n <= ALIGN_UP_TO(n, Shift(l)) /\ ALIGN_UP_TO(n, Shift(l)) <= n + 41
<1>1. CASE l = "PAGE"
  BY <1>1 DEF Shift, ALIGN_UP_TO, Negative, Pow64
<1>2. CASE l = "PMD"
  BY <1>2 DEF Shift, ALIGN_UP_TO, Negative, Pow64
<1> QED
  BY <1>1, <1>2 DEF Levels

LEMMA SixteenTimes ==
  ASSUME NEW b \in Nat, NEW q \in Nat, b % 16 = 0
  PROVE  (b * q) % 16 = 0
<1>1. PICK k \in Nat : b = 16 * k
  <2>1. b \div 16 \in Nat /\ b = 16 * (b \div 16)
    OBVIOUS
  <2> QED
    BY <2>1
<1>2. PICK s \in Nat : s = k * q
  OBVIOUS
<1>3. b * q = 16 * s
  BY <1>1, <1>2
<1>4. (16 * s) % 16 = 0
  OBVIOUS
<1> QED
  BY <1>3, <1>4

LEMMA PinOffs ==
  ASSUME NEW d \in Nat, d % 16 = 0, d < RegionSize, NEW l \in Levels, NEW x \in pin_offs(d, l)
  PROVE  /\ x \in Nat /\ x % 16 = 0
         /\ d % Size(l) < Size(l) - 32 => x \div Size(l) = d \div Size(l)
<1>0. PICK b \in Nat \ {0} : b = Size(l) /\ b % 16 = 0
  BY SizeFacts
<1>1. PICK q \in Nat, m \in 0 .. b - 1 : q = d \div b /\ m = d % b /\ d = (b * q) + m
  <2>1. d \div b \in Nat /\ d % b \in 0 .. b - 1 /\ d = (b * (d \div b)) + (d % b)
    BY <1>0, Quotient
  <2> QED
    BY <2>1
<1>2. PICK start \in Nat : start = align_down_region_idx(d, l) /\ start = b * q /\ start <= d
  BY <1>0, <1>1, AlignDownFacts DEF align_down_region_idx
<1>3. start % 16 = 0
  BY <1>0, <1>2, SixteenTimes
<1>4. PICK end \in Nat : end = align_up_region_idx(d, l) /\ d <= end /\ end <= d + 41
  <2>1. PICK u \in Nat : u = ALIGN_UP_TO(d, Shift(l)) /\ d <= u /\ u <= d + 41
    BY AlignUpFacts
  <2>2. PICK s \in Nat : s = RegionSize
    BY RegionSizeFacts
  <2> QED
    BY <2>1, <2>2 DEF align_up_region_idx, Least
<1>5. PICK o \in Nat : x = AlignDown(o, 16) /\ start <= o /\ o <= d + 40
  <2>1. x \in rand_offs(start, end)
    BY <1>2, <1>4 DEF pin_offs
  <2>2. PICK o : /\ x = AlignDown(o, 16)
                 /\ o \in {start, IF start = end THEN start ELSE end - 1} \cup {n \in Offsets : start <= n /\ n < end}
    BY <2>1 DEF rand_offs
  <2>3. Offsets \subseteq Nat
    BY JobsAssumption, RegionSizeFacts
  <2>4. o \in Nat /\ start <= o /\ o <= d + 40
    <3>1. CASE o = start
      BY <1>2, <3>1
    <3>2. CASE o # start /\ o = IF start = end THEN start ELSE end - 1
      BY <1>2, <1>4, <3>2
    <3>3. CASE o \in Offsets /\ start <= o /\ o < end
      BY <1>4, <2>3, <3>3
    <3> QED
      BY <2>2, <3>1, <3>2, <3>3
  <2> QED
    BY <2>2, <2>4
<1>6. x \in Nat /\ x % 16 = 0
  BY <1>5, Sixteen
<1>7. start <= x /\ x <= d + 32
  BY <1>3, <1>5, SixteenBetween
<1>8. ASSUME m < b - 32 PROVE x \div b = q
  <2>1. PICK e \in 0 .. b - 1 : x = start + e
    <3>1. x - start \in 0 .. b - 1 /\ x = start + (x - start)
      BY <1>1, <1>2, <1>6, <1>7, <1>8
    <3> QED
      BY <3>1
  <2>2. ((b * q) + e) \div b = q
    BY <1>0, PlaceUnique
  <2> QED
    BY <1>2, <2>1, <2>2
<1> QED
  BY <1>0, <1>1, <1>6, <1>8

-----------------------------------------------------------------------------
LEMMA InfoFacts ==
  ASSUME JobInv, NEW v \in HeapVar
  PROVE  /\ var_owns_region(infos[v]) \/ infos[v].ty = "PINNED"
         /\ infos[v].own \in Levels
         /\ infos[v].offset_var # NoVar => infos[v].offset_var \in HeapVar /\ infos[v].offset_level \in Levels
BY DEF JobInv, Concretizable

LEMMA PinFacts ==
  ASSUME JobInv, NEW v \in PinnedVar, NEW root, root = infos[v].pin_var
  PROVE  /\ v \in HeapVar /\ infos[v].ty = "PINNED" /\ ~ var_owns_region(infos[v])
         /\ root \in HeapVar /\ infos[root].ty = "HEAP" /\ root \notin PinnedVar /\ var_owns_region(infos[root])
         /\ infos[root].idmap = infos[v].idmap
         /\ infos[v].pin_level \in Levels /\ Within(infos[v].pin_level, infos[root].own)
         /\ \A w \in {v, root} : infos[w].offset_var # NoVar => Within(infos[w].offset_level, infos[v].pin_level)
<1>1. v \in {w \in HeapVar : infos[w].ty = "PINNED"}
  BY DEF PinnedVar
<1>2. Concretizable(HeapVar, infos)
  BY DEF JobInv
<1> QED
  BY <1>1, <1>2 DEF Concretizable, PinnedVar, var_owns_region

LEMMA OffsetsEnd ==
  ASSUME JobInv, NEW S \in SUBSET HeapVar, S # {}
  PROVE  \E v \in S : infos[v].offset_var \notin S
BY DEF JobInv, Concretizable

(* All but what is picked stays as it is. *)
LEMMA SameJob ==
  ASSUME job' = job
  PROVE  /\ infos' = infos /\ Names' = Names /\ HeapVar' = HeapVar /\ PinnedVar' = PinnedVar
         /\ Random' <=> Random
         /\ Concretizable(HeapVar, infos)' <=> Concretizable(HeapVar, infos)
         /\ \A va : Usable(va)' <=> Usable(va)
         /\ \A va, v : InPlace(va, v)' <=> InPlace(va, v)
<1>1. infos' = infos /\ Names' = Names /\ Random' = Random
  BY DEF infos, Names, Random
<1>2. HeapVar' = HeapVar
  BY <1>1 DEF HeapVar
<1>3. PinnedVar' = PinnedVar
  BY <1>1, <1>2 DEF PinnedVar
<1>4. Concretizable(HeapVar, infos)' <=> Concretizable(HeapVar, infos)
  BY <1>1, <1>2
<1>5. \A va : Usable(va)' <=> Usable(va)
  BY <1>1, <1>2 DEF Usable, can_virtually_alias, var_owned_region_size
<1>6. \A va, v : InPlace(va, v)' <=> InPlace(va, v)
  BY <1>1 DEF InPlace
<1> QED
  BY <1>1, <1>2, <1>3, <1>4, <1>5, <1>6

LEMMA SameRuns ==
  ASSUME JobInv, RunsInv, UNCHANGED <<job, r, values>>,
         pc \in {"region", "offset", "validate"}, pc' \in {"region", "offset", "validate"}
  PROVE  JobInv' /\ RunsInv' /\ FailInv'
<1>1. JobInv'
  BY SameJob DEF JobInv
<1>2. Compared' = Compared
  BY DEF Compared
<1>3. \A n, m : Overlap(n, m)' <=> Overlap(n, m)
  BY SameJob DEF Overlap
<1>4. RunsInv'
  BY <1>2, <1>3, SameJob DEF RunsInv
<1>5. FailInv'
  BY DEF FailInv
<1> QED
  BY <1>1, <1>4, <1>5

LEMMA PickedFacts ==
  ASSUME NEW i \in Drawn
  PROVE  /\ Picked(i) \in Choice /\ Picked(i).region /\ ~ Picked(i).offset
         /\ Picked(i).drawn = i /\ Picked(i).idx = i
<1>1. i \in Places
  BY DEF Drawn, Places
<1> QED
  BY <1>1 DEF Picked, Choice

LEMMA NotPicked == ~ NothingPicked.region /\ ~ NothingPicked.offset
BY DEF NothingPicked

LEMMA Drawings ==
  ASSUME NEW i \in rand_idx
  PROVE  i \in Roots /\ i \in Drawn /\ i.offs \in Nat /\ i.offs % 16 = 0 /\ i.offs < RegionSize /\ i.reg \in Regions
<1>1. PICK g \in Regions, n \in Offsets : i = [reg |-> g, offs |-> AlignDown(n, 16)]
  BY DEF rand_idx
<1>2. PICK s \in Nat : s = RegionSize
  BY RegionSizeFacts
<1>3. n \in Nat /\ n < s
  BY <1>2, JobsAssumption
<1>4. PICK o \in Nat : o = AlignDown(n, 16) /\ o % 16 = 0 /\ o < s
  BY <1>2, <1>3, Sixteen
<1> QED
  BY <1>1, <1>2, <1>4 DEF Roots, Drawn

LEMMA StepPickRegion ==
  ASSUME ConcInv, pick_one_region
  PROVE  ConcInv'
<1>0. /\ pc = "region" /\ pc' = "region" /\ UNCHANGED <<job, r, values>>
      /\ JobInv /\ TryInv /\ PickInv /\ RunsInv
  BY DEF pick_one_region, ConcInv
<1>1. PICK v \in todo, root \in rand_idx :
      \E pins \in [PinnedTo(v) -> UNION {pin_offs(root.offs, infos[w].pin_level) : w \in PinnedTo(v)}] :
        /\ todo' = todo \ {v}
        /\ \A w \in PinnedTo(v) : pins[w] \in pin_offs(root.offs, infos[w].pin_level)
        /\ st' = [w \in HeapVar |->
                    IF w = v THEN Picked(root)
                    ELSE IF w \in PinnedTo(v) THEN Picked([reg |-> root.reg, offs |-> pins[w]])
                    ELSE st[w]]
  BY DEF pick_one_region
<1>2. PICK pins :
        /\ todo' = todo \ {v}
        /\ \A w \in PinnedTo(v) : pins[w] \in pin_offs(root.offs, infos[w].pin_level)
        /\ st' = [w \in HeapVar |->
                    IF w = v THEN Picked(root)
                    ELSE IF w \in PinnedTo(v) THEN Picked([reg |-> root.reg, offs |-> pins[w]])
                    ELSE st[w]]
  BY <1>1
<1>3. v \in HeapVar /\ infos[v].ty # "PINNED" /\ v \notin PinnedVar
  BY <1>0 DEF PickInv, PinnedVar
<1>4. Roots \subseteq Drawn /\ root \in Roots /\ root.offs \in Nat /\ root.offs % 16 = 0
      /\ root.offs < RegionSize /\ root.reg \in Regions
  BY Drawings DEF Roots
<1>5. \A w : w \in PinnedTo(v) <=> w \in PinnedVar /\ infos[w].pin_var = v
  BY <1>3 DEF PinnedTo, PinnedVar
<1>6. ASSUME NEW w \in PinnedTo(v)
      PROVE  /\ [reg |-> root.reg, offs |-> pins[w]] \in Drawn
             /\ pins[w] \in pin_offs(root.offs, infos[w].pin_level)
  <2>1. w \in PinnedVar
    BY <1>5
  <2>2. infos[w].pin_level \in Levels
    BY <1>0, <2>1, PinFacts
  <2>3. pins[w] \in pin_offs(root.offs, infos[w].pin_level)
    BY <1>2
  <2>4. pins[w] \in Nat /\ pins[w] % 16 = 0
    BY <1>4, <2>2, <2>3, PinOffs
  <2> QED
    BY <1>4, <2>3, <2>4 DEF Drawn
<1>7. /\ st'[v] = Picked(root)
      /\ \A w \in PinnedTo(v) : st'[w] = Picked([reg |-> root.reg, offs |-> pins[w]])
      /\ \A w \in HeapVar : w # v /\ w \notin PinnedTo(v) => st'[w] = st[w]
  BY <1>2, <1>3, <1>5 DEF PinnedVar
<1>8. ASSUME NEW w \in HeapVar
      PROVE  /\ st'[w] \in {NothingPicked} \cup Choice
             /\ ~ st'[w].offset
             /\ st'[w].region => PlacedRight(w)'
  <2>1. CASE w = v
    <3>1. /\ st'[v] \in Choice /\ ~ st'[v].offset
          /\ st'[v].drawn = root /\ st'[v].idx = root
      BY <1>4, <1>7, PickedFacts
    <3> QED
      BY <1>0, <1>3, <1>4, <2>1, <3>1, SameJob DEF PlacedRight, RootRight
  <2>2. CASE w \in PinnedTo(v)
    <3>0. PICK d \in Drawn : d = [reg |-> root.reg, offs |-> pins[w]]
      BY <1>6, <2>2
    <3>1. /\ st'[w] \in Choice /\ ~ st'[w].offset /\ st'[w].drawn = d /\ st'[w].idx = d
      BY <1>7, <2>2, <3>0, PickedFacts
    <3>2. st'[v].region /\ st'[v].drawn = root
      BY <1>4, <1>7, PickedFacts
    <3>3. infos[w].ty = "PINNED" /\ infos[w].pin_var = v
      BY <1>5, <2>2 DEF PinnedVar
    <3>4. PinRight(w)'
      BY <1>0, <1>6, <2>2, <3>0, <3>1, <3>2, <3>3, SameJob DEF PinRight
    <3>5. RootRight(w)'
      BY <1>0, <3>3, SameJob DEF RootRight
    <3> QED
      BY <1>0, <3>1, <3>4, <3>5, SameJob DEF PlacedRight
  <2>3. CASE w # v /\ w \notin PinnedTo(v)
    <3>1. st'[w] = st[w]
      BY <1>7, <2>3
    <3>2. st[w] \in {NothingPicked} \cup Choice /\ ~ st[w].offset
      BY <1>0 DEF TryInv, InTry, PickInv
    <3>3. ASSUME st[w].region PROVE PlacedRight(w)'
      <4>1. PlacedRight(w)
        BY <1>0, <3>3 DEF TryInv, InTry
      <4>2. ASSUME w \in PinnedVar PROVE PinRight(w)'
        <5>1. PICK u : u = infos[w].pin_var
          OBVIOUS
        <5>2. u \in HeapVar /\ u # v /\ u \notin PinnedTo(v)
          BY <1>0, <1>5, <2>3, <4>2, <5>1, PinFacts
        <5>3. st'[u] = st[u]
          BY <1>7, <5>2
        <5> QED
          BY <1>0, <3>1, <4>1, <4>2, <5>1, <5>3, SameJob DEF PlacedRight, PinRight
      <4> QED
        BY <1>0, <3>1, <3>2, <4>1, <4>2, SameJob DEF PlacedRight, RootRight
    <3> QED
      BY <3>1, <3>2, <3>3
  <2> QED
    BY <2>1, <2>2, <2>3
<1>9. TryInv'
  <2>1. st' \in [HeapVar -> {NothingPicked} \cup Choice]
    BY <1>2, <1>8
  <2> QED
    BY <1>0, <1>8, <2>1, SameJob DEF TryInv
<1>10. PickInv'
  <2>1. ASSUME NEW w \in HeapVar
        PROVE  st'[w].region \/ w \in todo' \/ (w \in PinnedVar /\ infos[w].pin_var \in todo')
    <3>1. CASE w = v
      BY <1>4, <1>7, <3>1, PickedFacts
    <3>2. CASE w \in PinnedTo(v)
      BY <1>6, <1>7, <3>2, PickedFacts
    <3>3. CASE w # v /\ w \notin PinnedTo(v)
      <4>1. st'[w] = st[w]
        BY <1>7, <3>3
      <4>2. st[w].region \/ w \in todo \/ (w \in PinnedVar /\ infos[w].pin_var \in todo)
        BY <1>0 DEF PickInv
      <4> QED
        BY <1>2, <1>5, <3>3, <4>1, <4>2
    <3> QED
      BY <3>1, <3>2, <3>3
  <2> QED
    BY <1>0, <1>2, <1>8, <2>1, SameJob DEF PickInv
<1> QED
  BY <1>0, <1>9, <1>10, SameRuns DEF ConcInv

(* The same places. *)
LEMMA SamePlaced ==
  ASSUME job' = job, st' = st, NEW v
  PROVE  PlacedRight(v)' <=> PlacedRight(v)
BY SameJob DEF PlacedRight, RootRight, PinRight, OffsetRight

LEMMA StepRegionsPicked ==
  ASSUME ConcInv, RegionsPicked
  PROVE  ConcInv'
<1>0. /\ pc = "region" /\ todo = {} /\ UNCHANGED <<job, st, todo, r, values>>
      /\ pc' = IF \A v \in HeapVar : st[v].region THEN "offset" ELSE "failed"
      /\ JobInv /\ TryInv /\ PickInv /\ RunsInv
  BY DEF RegionsPicked, ConcInv
<1>1. \A v \in HeapVar : st[v].region
  BY <1>0 DEF PickInv
<1>2. pc' = "offset"
  BY <1>0, <1>1
<1>3. TryInv'
  BY <1>0, <1>1, <1>2, SameJob, SamePlaced DEF TryInv, InTry
<1>4. PickInv'
  BY <1>2 DEF PickInv
<1> QED
  BY <1>0, <1>2, <1>3, <1>4, SameRuns DEF ConcInv

LEMMA WithOffset ==
  ASSUME NEW D, NEW G, NEW O, NEW o,
         NEW c \in [region : {TRUE}, offset : BOOLEAN, drawn : D, idx : [reg : G, offs : O]]
  PROVE  [[c EXCEPT !.idx.offs = o] EXCEPT !.offset = TRUE] =
           [region |-> TRUE, offset |-> TRUE, drawn |-> c.drawn, idx |-> [reg |-> c.idx.reg, offs |-> o]]
<1>1. [c.idx EXCEPT !.offs = o] = [reg |-> c.idx.reg, offs |-> o]
  OBVIOUS
<1>2. PICK p : p = [reg |-> c.idx.reg, offs |-> o]
  OBVIOUS
<1>3. [c EXCEPT !.idx.offs = o] = [c EXCEPT !.idx = p]
  BY <1>1, <1>2
<1>4. c.region = TRUE
  OBVIOUS
<1>5. PICK e : e = [c EXCEPT !.idx = p]
  OBVIOUS
<1>6. e = [region |-> TRUE, offset |-> c.offset, drawn |-> c.drawn, idx |-> p]
  BY <1>4, <1>5
<1>7. [e EXCEPT !.offset = TRUE] = [region |-> TRUE, offset |-> TRUE, drawn |-> c.drawn, idx |-> p]
  <2>1. PICK f : f = [e EXCEPT !.offset = TRUE]
    OBVIOUS
  <2>2. e \in [region : {TRUE}, offset : BOOLEAN, drawn : D, idx : {p}]
    BY <1>6
  <2>3. f \in [region : {TRUE}, offset : {TRUE}, drawn : D, idx : {p}]
    BY <2>1, <2>2
  <2>4. f.drawn = c.drawn
    BY <1>6, <2>1
  <2>5. f = [region |-> TRUE, offset |-> TRUE, drawn |-> c.drawn, idx |-> p]
    BY <2>3, <2>4
  <2> QED
    BY <2>1, <2>5
<1> QED
  BY <1>2, <1>3, <1>5, <1>7

LEMMA StepPickOffset ==
  ASSUME ConcInv, try_pick_one_offset
  PROVE  ConcInv'
<1>0. /\ pc = "offset" /\ pc' = "offset" /\ UNCHANGED <<job, todo, r, values>>
      /\ JobInv /\ TryInv /\ RunsInv
  BY DEF try_pick_one_offset, ConcInv
<1>1. PICK v \in HeapVar :
        /\ CanPickOffset(v)
        /\ st' = [st EXCEPT ![v].idx.offs = OffsetFrom(v), ![v].offset = TRUE]
  BY DEF try_pick_one_offset
<1>2. /\ st \in [HeapVar -> {NothingPicked} \cup Choice]
      /\ \A w \in HeapVar : st[w].region /\ PlacedRight(w) /\ st[w] \in Choice
  BY <1>0 DEF TryInv, InTry, PlacedRight
<1>3. /\ ~ st[v].offset /\ st[v].idx = st[v].drawn /\ st[v].drawn \in Drawn
      /\ st[v].idx.offs = st[v].drawn.offs
  BY <1>1, <1>2 DEF CanPickOffset, PlacedRight, Choice
<1>4. PICK o : o = OffsetFrom(v)
  OBVIOUS
<1>5. /\ o \in Nat /\ o % 8 = 0
      /\ infos[v].offset_var = NoVar => o = st[v].drawn.offs
      /\ infos[v].offset_var # NoVar =>
           /\ st[infos[v].offset_var].offset
           /\ o = AlignDown(st[v].drawn.offs, Size(infos[v].offset_level))
                   + (st[infos[v].offset_var].idx.offs % Size(infos[v].offset_level))
  <2>1. PICK d \in Nat : d = st[v].drawn.offs /\ d % 8 = 0
    <3>1. \A n \in Nat : n % 16 = 0 => n % 8 = 0
      OBVIOUS
    <3> QED
      BY <1>3, <3>1 DEF Drawn
  <2>2. CASE infos[v].offset_var = NoVar
    BY <1>3, <1>4, <2>1, <2>2 DEF OffsetFrom
  <2>3. CASE infos[v].offset_var # NoVar
    <3>1. PICK w \in HeapVar, l \in Levels : w = infos[v].offset_var /\ l = infos[v].offset_level
      BY <1>0, <2>3, InfoFacts
    <3>2. PICK b \in Nat : b = Size(l)
      BY SizeFacts
    <3>3. PICK m \in Nat : m = st[w].idx.offs /\ m % 8 = 0
      BY <1>2 DEF Choice, Places
    <3>4. o = AlignDown(d, b) + (m % b)
      BY <1>3, <1>4, <2>1, <2>3, <3>1, <3>2, <3>3 DEF OffsetFrom
    <3>a. o \in Nat
      BY <3>2, <3>4, OffsetWithin
    <3>b. o % 8 = 0
      BY <3>2, <3>3, <3>4, Eights
    <3>5. o \in Nat /\ o % 8 = 0
      BY <3>a, <3>b
    <3>6. st[w].offset
      BY <1>1, <2>3, <3>1 DEF CanPickOffset
    <3> QED
      BY <2>1, <2>3, <3>1, <3>2, <3>3, <3>4, <3>5, <3>6
  <2> QED
    BY <2>2, <2>3
<1>6. PICK c : c = st[v] /\ c \in Choice /\ c.idx = c.drawn /\ c.drawn \in Drawn
  BY <1>2, <1>3
<1>7. st'[v] = [[c EXCEPT !.idx.offs = o] EXCEPT !.offset = TRUE]
      /\ \A w \in HeapVar : w # v => st'[w] = st[w]
  BY <1>1, <1>2, <1>4, <1>6
<1>8. /\ st'[v] \in Choice /\ st'[v].region /\ st'[v].offset
      /\ st'[v].drawn = c.drawn /\ st'[v].idx.reg = c.drawn.reg /\ st'[v].idx.offs = o
  <2>1. PICK p \in Places : p = [reg |-> c.drawn.reg, offs |-> o]
    BY <1>5, <1>6 DEF Places, Drawn
  <2>2. c \in [region : {TRUE}, offset : BOOLEAN, drawn : Drawn, idx : [reg : Regions, offs : {x \in Nat : x % 8 = 0}]]
    BY <1>6 DEF Choice, Places
  <2>3. st'[v] = [region |-> TRUE, offset |-> TRUE, drawn |-> c.drawn, idx |-> [reg |-> c.idx.reg, offs |-> o]]
    BY <1>7, <2>2, WithOffset
  <2>4. st'[v] = [region |-> TRUE, offset |-> TRUE, drawn |-> c.drawn, idx |-> p]
    BY <1>6, <2>1, <2>3
  <2>5. [region |-> TRUE, offset |-> TRUE, drawn |-> c.drawn, idx |-> p] \in Choice
    BY <1>6, <2>1 DEF Choice
  <2> QED
    BY <2>1, <2>4, <2>5
<1>9. \A w \in HeapVar :
        /\ st'[w].region /\ st'[w].drawn = st[w].drawn
        /\ w # v => st'[w] = st[w]
  BY <1>2, <1>6, <1>7, <1>8
<1>10. ASSUME NEW w \in HeapVar PROVE PlacedRight(w)'
  <2>1. PlacedRight(w)
    BY <1>2
  <2>2. ASSUME w \in PinnedVar PROVE PinRight(w)'
    <3>1. PICK u : u = infos[w].pin_var
      OBVIOUS
    <3>2. u \in HeapVar
      BY <1>0, <2>2, <3>1, PinFacts
    <3> QED
      BY <1>0, <1>9, <2>1, <2>2, <3>1, <3>2, SameJob DEF PlacedRight, PinRight
  <2>3. RootRight(w)'
    BY <1>0, <1>9, <2>1, SameJob DEF PlacedRight, RootRight
  <2>4. CASE w = v
    <3>1. OffsetRight(v)'
      <4>1. CASE infos[v].offset_var = NoVar
        BY <1>0, <1>5, <1>6, <1>8, <4>1, SameJob DEF OffsetRight
      <4>2. CASE infos[v].offset_var # NoVar
        <5>1. PICK x \in HeapVar : x = infos[v].offset_var
          BY <1>0, <4>2, InfoFacts
        <5>2. st'[x] = st[x] /\ st[x].offset
          BY <1>3, <1>5, <1>9, <4>2, <5>1
        <5> QED
          BY <1>0, <1>5, <1>6, <1>8, <4>2, <5>1, <5>2, SameJob DEF OffsetRight
      <4> QED
        BY <4>1, <4>2
    <3> QED
      BY <1>0, <1>8, <2>2, <2>3, <2>4, <3>1, SameJob DEF PlacedRight
  <2>5. CASE w # v
    <3>1. st'[w] = st[w]
      BY <1>9, <2>5
    <3>2. ASSUME st[w].offset PROVE OffsetRight(w)'
      <4>1. OffsetRight(w)
        BY <2>1, <3>2 DEF PlacedRight
      <4>2. CASE infos[w].offset_var = NoVar
        BY <1>0, <3>1, <4>1, <4>2, SameJob DEF OffsetRight
      <4>3. CASE infos[w].offset_var # NoVar
        <5>1. PICK x \in HeapVar : x = infos[w].offset_var
          BY <1>0, <4>3, InfoFacts
        <5>2. st[x].offset /\ st'[x] = st[x]
          BY <1>3, <1>9, <4>1, <4>3, <5>1 DEF OffsetRight
        <5> QED
          BY <1>0, <3>1, <4>1, <4>3, <5>1, <5>2, SameJob DEF OffsetRight
      <4> QED
        BY <4>2, <4>3
    <3> QED
      BY <1>0, <2>1, <2>2, <2>3, <3>1, <3>2, SameJob DEF PlacedRight
  <2> QED
    BY <2>4, <2>5
<1>11. st' \in [HeapVar -> {NothingPicked} \cup Choice]
  BY <1>1, <1>2, <1>8, <1>9
<1>12. TryInv'
  BY <1>0, <1>9, <1>10, <1>11, SameJob DEF TryInv
<1>13. PickInv'
  BY <1>0 DEF PickInv
<1> QED
  BY <1>0, <1>12, <1>13, SameRuns DEF ConcInv

(* Offsets are picked for all variables. *)
LEMMA StepOffsetsPicked ==
  ASSUME ConcInv, OffsetsPicked
  PROVE  ConcInv'
<1>0. /\ pc = "offset" /\ UNCHANGED <<job, st, todo, r, values>>
      /\ \A v \in HeapVar : ~ CanPickOffset(v)
      /\ pc' = IF \A v \in HeapVar : st[v].offset THEN "validate" ELSE "failed"
      /\ JobInv /\ TryInv /\ RunsInv
  BY DEF OffsetsPicked, ConcInv
<1>1. \A v \in HeapVar : st[v].offset
  <2> SUFFICES ASSUME ~ \A v \in HeapVar : st[v].offset PROVE FALSE
    OBVIOUS
  <2>1. PICK S \in SUBSET HeapVar : S = {v \in HeapVar : ~ st[v].offset}
    OBVIOUS
  <2>2. PICK v \in S : infos[v].offset_var \notin S
    BY <1>0, <2>1, OffsetsEnd
  <2>3. infos[v].offset_var # NoVar => st[infos[v].offset_var].offset
    BY <1>0, <2>1, <2>2, InfoFacts
  <2>4. CanPickOffset(v)
    BY <2>1, <2>3 DEF CanPickOffset
  <2> QED
    BY <1>0, <2>4
<1>2. pc' = "validate"
  BY <1>0, <1>1
<1>3. TryInv'
  BY <1>0, <1>1, <1>2, SameJob, SamePlaced DEF TryInv, InTry
<1>4. PickInv'
  BY <1>2 DEF PickInv
<1> QED
  BY <1>0, <1>2, <1>3, <1>4, SameRuns DEF ConcInv

(* A new try. *)
LEMMA ResetTry ==
  ASSUME JobInv, Reset, job' = job
  PROVE  TryInv' /\ PickInv'
<1>1. /\ st' = [v \in HeapVar |-> NothingPicked] /\ todo' = Owners /\ pc' = "region"
  BY DEF Reset
<1>2. \A v \in HeapVar : st'[v] = NothingPicked /\ ~ st'[v].region /\ ~ st'[v].offset
  BY <1>1, NotPicked
<1>3. TryInv'
  BY <1>1, <1>2, SameJob DEF TryInv
<1>4. \A v \in HeapVar : v \in Owners \/ (v \in PinnedVar /\ infos[v].pin_var \in Owners)
  BY InfoFacts, PinFacts DEF Owners, PinnedVar
<1>5. PickInv'
  BY <1>1, <1>2, <1>4, SameJob DEF PickInv, Owners, var_owns_region
<1> QED
  BY <1>3, <1>5

LEMMA InitInv == Init => ConcInv
<1> SUFFICES ASSUME Init PROVE ConcInv
  OBVIOUS
<1>1. PICK k \in Jobs : job = [test |-> k.test, type |-> k.type, batch |-> k.batch,
                               infos |-> read_var_infos(k.test).infos]
  BY DEF Init
<1>2. st = [v \in HeapVar |-> NothingPicked] /\ todo = Owners /\ r = 1 /\ values = <<>> /\ pc = "region"
  BY DEF Init
<1>3. JobInv
  <2>1. PICK names : names = {k.test.vars[n] : n \in DOMAIN k.test.vars}
    OBVIOUS
  <2>2. HeapVar = names /\ Names = k.test.vars /\ infos = read_var_infos(k.test).infos
    BY <1>1, <2>1 DEF HeapVar, Names, infos
  <2>3. /\ k.test.vars \in Seq(names)
        /\ k.type \in {"RANDOM", "FIXED"} /\ k.batch \in Nat \ {0}
        /\ Concretizable(names, read_var_infos(k.test).infos)
    BY <2>1, JobsAssumption
  <2>4. job.type = k.type /\ job.batch = k.batch
    BY <1>1
  <2> QED
    BY <1>2, <2>2, <2>3, <2>4 DEF JobInv
<1>4. \A v \in HeapVar : st[v] = NothingPicked /\ ~ st[v].region /\ ~ st[v].offset
  BY <1>2, NotPicked
<1>5. TryInv
  BY <1>2, <1>4 DEF TryInv
<1>6. \A v \in HeapVar : v \in Owners \/ (v \in PinnedVar /\ infos[v].pin_var \in Owners)
  BY <1>3, InfoFacts, PinFacts DEF Owners, PinnedVar
<1>7. PickInv
  BY <1>2, <1>4, <1>6 DEF PickInv, Owners, var_owns_region
<1>8. RunsInv
  BY <1>2 DEF RunsInv, Compared
<1>9. FailInv
  BY <1>2 DEF FailInv
<1> QED
  BY <1>3, <1>5, <1>7, <1>8, <1>9 DEF ConcInv

(* What a complete try says of the address of a variable. *)
LEMMA Placed ==
  ASSUME JobInv, NEW v \in HeapVar, \A w \in HeapVar : st[w].offset /\ PlacedRight(w)
  PROVE  /\ st[v].drawn \in Drawn /\ st[v].idx.reg = st[v].drawn.reg /\ st[v].drawn.reg \in Regions
         /\ st[v].idx.offs \in Nat /\ st[v].idx.offs % 8 = 0 /\ st[v].drawn.offs \in Nat
         /\ infos[v].offset_var # NoVar =>
              LET size == Size(infos[v].offset_level) IN
              /\ st[v].idx.offs % size = st[infos[v].offset_var].idx.offs % size
              /\ st[v].idx.offs \div size = st[v].drawn.offs \div size
         /\ infos[v].offset_var = NoVar => st[v].idx.offs = st[v].drawn.offs
<1>1. /\ st[v] \in Choice /\ st[v].idx.reg = st[v].drawn.reg /\ OffsetRight(v)
  BY DEF PlacedRight
<1>2. /\ st[v].drawn \in Drawn /\ st[v].drawn.reg \in Regions /\ st[v].drawn.offs \in Nat
      /\ st[v].idx.offs \in Nat /\ st[v].idx.offs % 8 = 0
  BY <1>1 DEF Choice, Drawn, Places
<1>3. ASSUME infos[v].offset_var # NoVar
      PROVE  /\ st[v].idx.offs % Size(infos[v].offset_level)
                  = st[infos[v].offset_var].idx.offs % Size(infos[v].offset_level)
             /\ st[v].idx.offs \div Size(infos[v].offset_level) = st[v].drawn.offs \div Size(infos[v].offset_level)
  <2>1. PICK w \in HeapVar, l \in Levels : w = infos[v].offset_var /\ l = infos[v].offset_level
    BY <1>3, InfoFacts
  <2>2. PICK b \in Nat : b = Size(l)
    BY SizeFacts
  <2>3. PICK m \in Nat : m = st[w].idx.offs
    BY DEF PlacedRight, Choice, Places
  <2>4. PICK d \in Nat : d = st[v].drawn.offs
    BY <1>2
  <2>5. PICK z \in Nat : z = st[v].idx.offs
    BY <1>2
  <2>6. z = AlignDown(d, b) + (m % b)
    BY <1>1, <1>3, <2>1, <2>2, <2>3, <2>4, <2>5 DEF OffsetRight
  <2>7. z \div b = d \div b /\ z % b = m % b
    BY <2>2, <2>6, OffsetWithin
  <2> QED
    BY <2>1, <2>2, <2>3, <2>4, <2>5, <2>7
<1>4. infos[v].offset_var = NoVar => st[v].idx.offs = st[v].drawn.offs
  BY <1>1 DEF OffsetRight
<1> QED
  BY <1>1, <1>2, <1>3, <1>4

LEMMA AddressFacts ==
  ASSUME NEW v
  PROVE  /\ Address(v).phys \in BOOLEAN
         /\ Address(v).phys <=> is_backed_var(infos[v]) /\ infos[v].idmap
         /\ Address(v).reg = st[v].idx.reg /\ Address(v).offs = st[v].idx.offs
         /\ st[v].idx.reg \in Regions /\ st[v].idx.offs \in Nat => Address(v) \in Found
<1>1. PICK p \in BOOLEAN : p = (is_backed_var(infos[v]) /\ infos[v].idmap)
  OBVIOUS
<1>2. Address(v) = [phys |-> p, reg |-> st[v].idx.reg, offs |-> st[v].idx.offs]
  BY <1>1 DEF Address
<1>3. PICK g, o : g = st[v].idx.reg /\ o = st[v].idx.offs
  OBVIOUS
<1>4. Address(v) = [phys |-> p, reg |-> g, offs |-> o]
  BY <1>2, <1>3
<1>5. Address(v).phys = p /\ Address(v).reg = g /\ Address(v).offs = o
  BY <1>4
<1>6. g \in Regions /\ o \in Nat => Address(v) \in Found
  BY <1>1, <1>4 DEF Found
<1> QED
  BY <1>1, <1>3, <1>5, <1>6

LEMMA ValidUsable ==
  ASSUME JobInv, Valid, \A w \in HeapVar : st[w].offset /\ PlacedRight(w),
         NEW va, va = [v \in HeapVar |-> Address(v)]
  PROVE  Usable(va)
<1>1. \A v \in HeapVar : va[v] = Address(v)
  OBVIOUS
<1>2. \A v \in HeapVar : st[v].idx.reg \in Regions /\ st[v].idx.offs \in Nat /\ st[v].idx.offs % 8 = 0
  BY Placed
<1>3. va \in [HeapVar -> Found]
  BY <1>2, AddressFacts
<1>4. ASSUME NEW v \in HeapVar
      PROVE  /\ va[v].offs % 8 = 0
             /\ infos[v].offset_var # NoVar =>
                  va[v].offs % Size(infos[v].offset_level)
                    = va[infos[v].offset_var].offs % Size(infos[v].offset_level)
  <2>1. va[v].offs = st[v].idx.offs
    BY <1>1, AddressFacts
  <2>2. ASSUME infos[v].offset_var # NoVar
        PROVE  va[v].offs % Size(infos[v].offset_level)
                 = va[infos[v].offset_var].offs % Size(infos[v].offset_level)
    <3>1. PICK w \in HeapVar : w = infos[v].offset_var
      BY <2>2, InfoFacts
    <3>2. va[w].offs = st[w].idx.offs
      BY <1>1, AddressFacts
    <3> QED
      BY <2>1, <2>2, <3>1, <3>2, Placed
  <2> QED
    BY <1>2, <2>1, <2>2
<1>5. ASSUME NEW v \in HeapVar, NEW w \in HeapVar, v # w
      PROVE  /\ va[v] = va[w] => can_virtually_alias(v, w)
             /\ ~ (var_owns_region(infos[v]) /\ var_owns_region(infos[w])
                   /\ in_same_region(va[v], va[w], var_owned_region_size(w)))
  BY <1>1, <1>5 DEF Valid, overlaps_owned_regions
<1> QED
  BY <1>3, <1>4, <1>5 DEF Usable

LEMMA AppendRun ==
  ASSUME NEW S, NEW s \in Seq(S), NEW x \in S
  PROVE  /\ Append(s, x) \in Seq(S) /\ Len(Append(s, x)) = Len(s) + 1
         /\ Append(s, x)[Len(s) + 1] = x
         /\ \A n \in 1 .. Len(s) : Append(s, x)[n] = s[n]
OBVIOUS

LEMMA StepValidate ==
  ASSUME ConcInv, validate_selection
  PROVE  ConcInv'
<1>0. /\ pc = "validate" /\ job' = job /\ r' = r
      /\ JobInv /\ TryInv /\ RunsInv
  BY DEF validate_selection, ConcInv
<1>1. \A v \in HeapVar : st[v].region /\ st[v].offset /\ PlacedRight(v)
  BY <1>0 DEF TryInv, InTry
<1>2. CASE Valid
  <2>0. pc' = "compare" /\ st' = st /\ todo' = todo
        /\ values' = Append(values, [v \in HeapVar |-> Address(v)])
    BY <1>2 DEF validate_selection
  <2>1. PICK va : va = [v \in HeapVar |-> Address(v)]
    OBVIOUS
  <2>2. Usable(va)
    BY <1>0, <1>1, <1>2, <2>1, ValidUsable
  <2>3. va \in [HeapVar -> Found]
    BY <2>2 DEF Usable
  <2>4. /\ values \in Seq([HeapVar -> Found]) /\ Len(values) = r - 1
        /\ \A n \in 1 .. r - 1 : Usable(values[n])
        /\ \A n, m \in 1 .. r - 1 : n # m => ~ Overlap(n, m)
    BY <1>0 DEF RunsInv, Compared
  <2>5. r \in Nat \ {0} /\ r <= job.batch
    BY <1>0 DEF JobInv
  <2>6. /\ values' \in Seq([HeapVar -> Found]) /\ Len(values') = r
        /\ values'[r] = va /\ \A n \in 1 .. r - 1 : values'[n] = values[n]
    BY <2>0, <2>1, <2>3, <2>4, <2>5, AppendRun
  <2>7. JobInv'
    BY <1>0, <2>0, SameJob DEF JobInv
  <2>8. Compared' = r - 1
    BY <1>0, <2>0 DEF Compared
  <2>9. \A n \in 1 .. r : Usable(values'[n])
    <3> SUFFICES ASSUME NEW n \in 1 .. r PROVE Usable(values'[n])
      OBVIOUS
    <3>1. CASE n = r
      BY <2>2, <2>6, <3>1
    <3>2. CASE n # r
      <4>1. n \in 1 .. r - 1
        BY <2>5, <3>2
      <4> QED
        BY <2>4, <2>6, <4>1
    <3> QED
      BY <3>1, <3>2
  <2>10. \A n, m \in 1 .. r - 1 : n # m => ~ Overlap(n, m)'
    BY <1>0, <2>4, <2>6, SameJob DEF Overlap
  <2>11. \A v : Address(v)' = Address(v)
    BY <1>0, <2>0, SameJob DEF Address
  <2>12. RunsInv'
    <3>1. \A n \in (1 .. Len(values))' : Usable(values[n])'
      BY <1>0, <2>6, <2>9, SameJob
    <3>2. values'[r] = [v \in HeapVar |-> Address(v)']
      BY <2>1, <2>6, <2>11
    <3> QED
      BY <1>0, <2>0, <2>6, <2>8, <2>10, <3>1, <3>2, SameJob DEF RunsInv
  <2>13. TryInv'
    <3>1. st \in [HeapVar -> {NothingPicked} \cup Choice]
      BY <1>0 DEF TryInv, InTry
    <3> QED
      BY <1>0, <1>1, <2>0, <3>1, SameJob, SamePlaced DEF TryInv
  <2>14. PickInv' /\ FailInv'
    BY <2>0 DEF PickInv, FailInv
  <2> QED
    BY <2>7, <2>12, <2>13, <2>14 DEF ConcInv
<1>3. CASE ~ Valid
  <2>0. Reset /\ values' = values
    BY <1>3 DEF validate_selection
  <2>1. pc' = "region"
    BY <2>0 DEF Reset
  <2> QED
    BY <1>0, <2>0, <2>1, ResetTry, SameRuns DEF ConcInv
<1> QED
  BY <1>2, <1>3

LEMMA OverlapBoth ==
  ASSUME NEW n, NEW m
  PROVE  Overlap(n, m) <=> Overlap(m, n)
BY DEF Overlap

LEMMA FirstRuns ==
  ASSUME NEW S, NEW s \in Seq(S), NEW k \in 0 .. Len(s)
  PROVE  /\ SubSeq(s, 1, k) \in Seq(S) /\ Len(SubSeq(s, 1, k)) = k
         /\ \A n \in 1 .. k : SubSeq(s, 1, k)[n] = s[n]
OBVIOUS

(* The runs after a step that keeps the first k of them. *)
LEMMA NewRuns ==
  ASSUME job' = job, NEW k \in Nat, NEW len \in Nat,
         values' \in Seq([HeapVar -> Found]), Len(values') = len,
         len = (IF pc' = "compare" THEN r' ELSE k), Compared' = k,
         \A n \in 1 .. len : Usable(values'[n]),
         \A n \in 1 .. k : values'[n] = values[n],
         \A n, m \in 1 .. k : n # m => ~ Overlap(n, m),
         ~ (pc' = "compare" /\ Random)
  PROVE  RunsInv'
<1>1. \A n \in (1 .. Len(values))' : Usable(values[n])'
  BY SameJob
<1>2. \A n, m \in 1 .. k : n # m => ~ Overlap(n, m)'
  BY SameJob DEF Overlap
<1> QED
  BY <1>1, <1>2, SameJob DEF RunsInv

(* Another try, or with fixed addresses another run, after the first k.    *)
LEMMA TryAgain ==
  ASSUME ConcInv, pc = "compare", job' = job,
         NEW k \in Nat, r' = k + 1, r' \in 1 .. job.batch, k <= r,
         NEW agreed \in Seq([HeapVar -> Found]), Len(agreed) = k,
         \A n \in 1 .. k : agreed[n] = values[n],
         \A n, m \in 1 .. k : n # m => ~ Overlap(n, m),
         AnotherTry(agreed)
  PROVE  ConcInv'
<1>0. JobInv /\ RunsInv
  BY DEF ConcInv
<1>1. r \in Nat \ {0} /\ Len(values) = r /\ values \in Seq([HeapVar -> Found])
      /\ \A n \in 1 .. r : Usable(values[n])
  BY <1>0 DEF JobInv, RunsInv
<1>2. CASE Random
  <2>1. Reset /\ values' = agreed /\ pc' = "region"
    BY <1>2 DEF AnotherTry, Reset, Random
  <2>2. TryInv' /\ PickInv' /\ FailInv'
    BY <1>0, <2>1, ResetTry DEF FailInv
  <2>3. JobInv'
    BY <1>0, <2>1, SameJob DEF JobInv
  <2>4. Compared' = k
    BY <2>1 DEF Compared
  <2>5. \A n \in 1 .. k : Usable(values'[n])
    BY <1>1, <2>1
  <2>6. RunsInv'
    BY <2>1, <2>4, <2>5, NewRuns
  <2> QED
    BY <2>2, <2>3, <2>6 DEF ConcInv
<1>3. CASE ~ Random
  <2>1. values' = Append(agreed, values[1]) /\ UNCHANGED <<st, todo, pc>>
    BY <1>3 DEF AnotherTry, Random
  <2>2. PICK va \in [HeapVar -> Found] : va = values[1] /\ Usable(va)
    BY <1>1 DEF Usable
  <2>3. /\ values' \in Seq([HeapVar -> Found]) /\ Len(values') = k + 1
        /\ values'[k + 1] = va /\ \A n \in 1 .. k : values'[n] = agreed[n]
    BY <2>1, <2>2, AppendRun
  <2>4. Compared' = k
    BY <2>1 DEF Compared
  <2>5. \A n \in 1 .. k + 1 : Usable(values'[n])
    <3> SUFFICES ASSUME NEW n \in 1 .. k + 1 PROVE Usable(values'[n])
      OBVIOUS
    <3>1. CASE n = k + 1
      BY <2>2, <2>3, <3>1
    <3>2. CASE n # k + 1
      <4>1. n \in 1 .. k /\ n \in 1 .. r
        BY <1>1, <3>2
      <4> QED
        BY <1>1, <2>3, <4>1
    <3> QED
      BY <3>1, <3>2
  <2>6. PICK len \in Nat : len = k + 1
    OBVIOUS
  <2>7. RunsInv'
    BY <1>3, <2>1, <2>3, <2>4, <2>5, <2>6, NewRuns
  <2>8. JobInv'
    BY <1>0, <2>1, SameJob DEF JobInv
  <2>9. TryInv' /\ PickInv' /\ FailInv'
    BY <1>3, <2>1, SameJob DEF TryInv, PickInv, FailInv, InTry
  <2> QED
    BY <2>7, <2>8, <2>9 DEF ConcInv
<1> QED
  BY <1>2, <1>3

LEMMA StepCompare ==
  ASSUME ConcInv, concretize_batch
  PROVE  ConcInv'
<1>0. pc = "compare" /\ job' = job /\ JobInv /\ RunsInv
  BY DEF concretize_batch, ConcInv
<1>1. /\ r \in Nat \ {0} /\ job.batch \in Nat /\ r <= job.batch
      /\ Len(values) = r /\ values \in Seq([HeapVar -> Found])
      /\ \A n \in 1 .. r : Usable(values[n])
      /\ \A n, m \in 1 .. r - 1 : n # m => ~ Overlap(n, m)
  BY <1>0 DEF JobInv, RunsInv, Compared
<1>2. CASE AnotherTry(SubSeq(values, 1, r - 1)) /\ UNCHANGED r
  <2>1. PICK k \in Nat : k = r - 1
    BY <1>1
  <2>2. PICK agreed : agreed = SubSeq(values, 1, k)
    OBVIOUS
  <2>3. /\ agreed \in Seq([HeapVar -> Found]) /\ Len(agreed) = k
        /\ \A n \in 1 .. k : agreed[n] = values[n]
    BY <1>1, <2>1, <2>2, FirstRuns
  <2>4. r' = k + 1 /\ r' \in 1 .. job.batch /\ k <= r /\ AnotherTry(agreed)
    BY <1>1, <1>2, <2>1, <2>2
  <2>5. \A n, m \in 1 .. k : n # m => ~ Overlap(n, m)
    BY <1>1, <2>1
  <2> QED
    BY <1>0, <2>3, <2>4, <2>5, TryAgain
<1>3. CASE /\ \A n \in 1 .. r - 1 : ~ Overlap(r, n)
           /\ IF r < job.batch
              THEN r' = r + 1 /\ AnotherTry(values)
              ELSE r' = 1 /\ pc' = "write" /\ UNCHANGED <<st, todo, values>>
  <2>1. \A n, m \in 1 .. r : n # m => ~ Overlap(n, m)
    <3> SUFFICES ASSUME NEW n \in 1 .. r, NEW m \in 1 .. r, n # m PROVE ~ Overlap(n, m)
      OBVIOUS
    <3>1. CASE n = r
      <4>1. m \in 1 .. r - 1
        BY <1>1, <3>1
      <4> QED
        BY <1>3, <3>1, <4>1
    <3>2. CASE m = r
      <4>1. n \in 1 .. r - 1
        BY <1>1, <3>2
      <4> QED
        BY <1>3, <3>2, <4>1, OverlapBoth
    <3>3. CASE n # r /\ m # r
      <4>1. n \in 1 .. r - 1 /\ m \in 1 .. r - 1
        BY <1>1, <3>3
      <4> QED
        BY <1>1, <4>1
    <3> QED
      BY <3>1, <3>2, <3>3
  <2>2. CASE r < job.batch
    <3>1. r' = r + 1 /\ r' \in 1 .. job.batch /\ AnotherTry(values)
      BY <1>1, <1>3, <2>2
    <3>2. PICK k \in Nat, agreed \in Seq([HeapVar -> Found]) : k = r /\ agreed = values
      BY <1>1
    <3> QED
      BY <1>0, <1>1, <2>1, <3>1, <3>2, TryAgain
  <2>3. CASE ~ (r < job.batch)
    <3>1. r' = 1 /\ pc' = "write" /\ UNCHANGED <<st, todo, values>>
      BY <1>3, <2>3
    <3>2. PICK k \in Nat : k = r /\ k = job.batch
      BY <1>1, <2>3
    <3>3. Compared' = k
      BY <1>0, <3>1, <3>2 DEF Compared
    <3>4. RunsInv'
      BY <1>0, <1>1, <2>1, <3>1, <3>2, <3>3, NewRuns
    <3>5. JobInv'
      BY <1>0, <1>1, <3>1, SameJob DEF JobInv
    <3>6. TryInv' /\ PickInv' /\ FailInv'
      BY <3>1 DEF TryInv, PickInv, FailInv, InTry
    <3> QED
      BY <3>4, <3>5, <3>6 DEF ConcInv
  <2> QED
    BY <2>2, <2>3
<1> QED
  BY <1>2, <1>3 DEF concretize_batch

LEMMA RegionWithin ==
  ASSUME NEW a \in Found, NEW b \in Found, NEW l \in Levels, NEW m \in Levels, Within(l, m),
         in_same_region(a, b, l)
  PROVE  in_same_region(a, b, m)
<1>1. PICK x \in Nat, y \in Nat : x = a.offs /\ y = b.offs
  BY DEF Found
<1>2. x \div Size(l) = y \div Size(l)
  BY <1>1 DEF in_same_region
<1>3. x \div Size(m) = y \div Size(m)
  BY <1>2, SameWithin
<1> QED
  BY <1>1, <1>3 DEF in_same_region

(* Addresses that can be used pass the check at their use, when all pinned *)
(* variables are where they belong.                                        *)
LEMMA UsableChecked ==
  ASSUME JobInv, NEW n, Usable(values[n]), \A v \in PinnedVar : InPlace(values[n], v)
  PROVE  postcheck(n)
<1>0. PICK va : va = values[n]
  OBVIOUS
<1>1. /\ Usable(va) /\ va \in [HeapVar -> Found]
      /\ \A v \in PinnedVar : InPlace(va, v)
  BY <1>0 DEF Usable
<1>2. ASSUME NEW v \in HeapVar, NEW w \in HeapVar, v # w, infos[v].ty = "HEAP",
             in_same_region(va[v], va[w], infos[v].own)
      PROVE  infos[w].ty = "PINNED" /\ infos[w].pin_var = v
  <2>1. var_owns_region(infos[v]) /\ var_owned_region_size(v) = infos[v].own /\ infos[v].own \in Levels
    BY <1>2, InfoFacts DEF var_owns_region, var_owned_region_size
  <2>2. ASSUME NEW u \in HeapVar, u # v, var_owns_region(infos[u])
        PROVE  ~ in_same_region(va[u], va[v], infos[v].own)
    BY <1>1, <2>1, <2>2 DEF Usable
  <2>3. w \in PinnedVar
    <3>1. ASSUME var_owns_region(infos[w]) PROVE FALSE
      <4>1. ~ in_same_region(va[w], va[v], infos[v].own)
        BY <1>2, <2>2, <3>1
      <4> QED
        BY <1>2, <4>1 DEF in_same_region
    <3> QED
      BY <3>1, InfoFacts DEF PinnedVar
  <2>4. PICK u, l : u = infos[w].pin_var /\ l = infos[w].pin_level
    OBVIOUS
  <2>5. /\ u \in HeapVar /\ infos[u].ty = "HEAP" /\ var_owns_region(infos[u])
        /\ infos[u].own \in Levels /\ l \in Levels /\ Within(l, infos[u].own)
    BY <2>3, <2>4, PinFacts, InfoFacts
  <2>6. ASSUME u # v PROVE FALSE
    <3>1. in_same_region(va[w], va[u], l)
      BY <1>1, <2>3, <2>4 DEF InPlace
    <3>2. in_same_region(va[w], va[u], infos[u].own)
      BY <1>1, <2>5, <3>1, RegionWithin
    <3>3. ~ in_same_region(va[u], va[v], infos[v].own)
      BY <2>2, <2>5, <2>6
    <3>4. ~ in_same_region(va[v], va[u], infos[u].own)
      BY <1>1, <2>1, <2>5, <2>6 DEF Usable, var_owned_region_size
    <3>5. CASE Within(infos[u].own, infos[v].own)
      <4>1. in_same_region(va[w], va[u], infos[v].own)
        BY <1>1, <2>1, <2>5, <3>2, <3>5, RegionWithin
      <4> QED
        BY <1>2, <3>3, <4>1 DEF in_same_region
    <3>6. CASE Within(infos[v].own, infos[u].own)
      <4>1. in_same_region(va[v], va[w], infos[u].own)
        BY <1>1, <1>2, <2>1, <2>5, <3>6, RegionWithin
      <4> QED
        BY <3>2, <3>4, <4>1 DEF in_same_region
    <3> QED
      BY <2>1, <2>5, <3>5, <3>6 DEF Within, Levels
  <2> QED
    BY <2>3, <2>4, <2>6 DEF PinnedVar
<1>3. postcheck_no_overlap_owned(n)
  BY <1>0, <1>2 DEF postcheck_no_overlap_owned
<1>4. postcheck_related_same_bits(n) /\ postcheck_aligned(n)
  BY <1>0, <1>1 DEF Usable, postcheck_related_same_bits, postcheck_aligned
<1> QED
  BY <1>3, <1>4 DEF postcheck

LEMMA StepWrite ==
  ASSUME ConcInv, write_init_state
  PROVE  ConcInv'
<1>0. /\ pc = "write" /\ UNCHANGED <<job, st, todo, values>>
      /\ pc' = IF ~ postcheck(r) THEN "failed" ELSE IF r < job.batch THEN "write" ELSE "done"
      /\ r' = IF postcheck(r) /\ r < job.batch THEN r + 1 ELSE r
      /\ JobInv /\ RunsInv
  BY DEF write_init_state, ConcInv
<1>1. /\ r \in Nat \ {0} /\ job.batch \in Nat /\ r <= job.batch /\ r' \in 1 .. job.batch
      /\ Len(values) = job.batch
      /\ Usable(values[r])
  BY <1>0 DEF JobInv, RunsInv, Compared
<1>2. pc' \in {"failed", "write", "done"}
  BY <1>0
<1>3. JobInv'
  BY <1>0, <1>1, <1>2, SameJob DEF JobInv
<1>4. Compared' = Compared
  BY <1>0, <1>2 DEF Compared
<1>5. \A n, m : Overlap(n, m)' <=> Overlap(n, m)
  BY <1>0, SameJob DEF Overlap
<1>6. RunsInv'
  BY <1>0, <1>2, <1>4, <1>5, SameJob DEF RunsInv
<1>7. FailInv'
  <2> SUFFICES ASSUME pc' = "failed" PROVE (\E v \in PinnedVar : ~ InPlace(values[r], v))'
    BY DEF FailInv
  <2>1. ~ postcheck(r) /\ r' = r
    BY <1>0
  <2>2. PICK v \in PinnedVar : ~ InPlace(values[r], v)
    BY <1>0, <1>1, <2>1, UsableChecked
  <2> QED
    BY <1>0, <2>1, <2>2, SameJob
<1>8. TryInv' /\ PickInv'
  BY <1>2 DEF TryInv, PickInv, InTry
<1> QED
  BY <1>3, <1>6, <1>7, <1>8 DEF ConcInv

-----------------------------------------------------------------------------
(* What each step of concretize_batch and write_init_state keeps: see      *)
(* ConcInv.                                                                *)
THEOREM ConcretizeInvariant == Spec => []ConcInv
<1>1. ASSUME ConcInv, [Next]_vars PROVE ConcInv'
  <2>1. CASE UNCHANGED vars
    <3>0. UNCHANGED <<job, st, todo, r, values, pc>>
      BY <2>1 DEF vars
    <3>1. JobInv' /\ RunsInv' /\ FailInv'
      <4>1. JobInv'
        BY <1>1, <3>0, SameJob DEF ConcInv, JobInv
      <4>2. \A n, m : Overlap(n, m)' <=> Overlap(n, m)
        BY <3>0, SameJob DEF Overlap
      <4>3. Compared' = Compared /\ \A v : Address(v)' = Address(v)
        BY <3>0, SameJob DEF Compared, Address
      <4>4. RunsInv'
        BY <1>1, <3>0, <4>2, <4>3, SameJob DEF ConcInv, RunsInv
      <4>5. FailInv'
        BY <1>1, <3>0, SameJob DEF ConcInv, FailInv
      <4> QED
        BY <4>1, <4>4, <4>5
    <3>2. TryInv'
      BY <1>1, <3>0, SameJob, SamePlaced DEF ConcInv, TryInv, InTry
    <3>3. PickInv'
      BY <1>1, <3>0, SameJob DEF ConcInv, PickInv
    <3> QED
      BY <3>1, <3>2, <3>3 DEF ConcInv
  <2> QED
    BY <1>1, <2>1, StepPickRegion, StepRegionsPicked, StepPickOffset, StepOffsetsPicked,
       StepValidate, StepCompare, StepWrite DEF Next
<1> QED
  BY <1>1, InitInv, PTL DEF Spec

(* A pinned variable and its root keep their places when offsets are       *)
(* imposed on them.                                                        *)
LEMMA OffsetKeeps ==
  ASSUME JobInv, \A w \in HeapVar : st[w].offset /\ PlacedRight(w),
         NEW v \in HeapVar, NEW l \in Levels,
         infos[v].offset_var # NoVar => Within(infos[v].offset_level, l)
  PROVE  st[v].idx.offs \div Size(l) = st[v].drawn.offs \div Size(l)
<1>1. CASE infos[v].offset_var = NoVar
  BY <1>1, Placed
<1>2. CASE infos[v].offset_var # NoVar
  <2>1. PICK m \in Levels : m = infos[v].offset_level
    BY <1>2, InfoFacts
  <2>2. PICK x \in Nat, y \in Nat : x = st[v].idx.offs /\ y = st[v].drawn.offs
    BY Placed
  <2>3. x \div Size(m) = y \div Size(m)
    BY <1>2, <2>1, <2>2, Placed
  <2>4. x \div Size(l) = y \div Size(l)
    BY <1>2, <2>1, <2>3, SameWithin
  <2> QED
    BY <2>2, <2>4
<1> QED
  BY <1>1, <1>2

(* Invariant: of a run whose addresses have just been drawn, each pinned   *)
(* variable is in the region it is pinned to, also after the offsets were  *)
(* imposed on it and on its root, or the root was drawn at the very end of *)
(* that region, where align_up_region_idx ends the range too late.         *)
THEOREM ConcretizePinsHold == Spec => []PinsHold
<1>1. ASSUME ConcInv PROVE PinsHold
  <2> SUFFICES ASSUME JustPicked, NEW v \in PinnedVar, ~ AtEdge(v) PROVE InPlace(values[r], v)
    BY DEF PinsHold
  <2>1. /\ JobInv /\ \A w \in HeapVar : st[w].offset /\ PlacedRight(w)
        /\ values[r] = [w \in HeapVar |-> Address(w)]
    BY <1>1 DEF ConcInv, TryInv, InTry, RunsInv, JustPicked, Random
  <2>2. PICK u, l : u = infos[v].pin_var /\ l = infos[v].pin_level
    OBVIOUS
  <2>3. /\ v \in HeapVar /\ u \in HeapVar /\ l \in Levels /\ infos[u].ty = "HEAP" /\ infos[v].ty = "PINNED"
        /\ infos[u].idmap = infos[v].idmap /\ u \notin PinnedVar
        /\ \A w \in {v, u} : infos[w].offset_var # NoVar => Within(infos[w].offset_level, l)
    BY <2>1, <2>2, PinFacts
  <2>4. /\ PinRight(v) /\ RootRight(u)
    BY <2>1, <2>3 DEF PlacedRight
  <2>5. /\ st[v].drawn.reg = st[u].drawn.reg
        /\ st[v].drawn.offs \in pin_offs(st[u].drawn.offs, l)
    BY <2>2, <2>4 DEF PinRight
  <2>6. PICK d \in Nat : d = st[u].drawn.offs /\ d % 16 = 0 /\ d < RegionSize
    BY <2>3, <2>4 DEF RootRight, Roots, Drawn
  <2>7. PICK x : x = st[v].drawn.offs /\ x \in pin_offs(d, l)
    BY <2>5, <2>6
  <2>8. d % Size(l) < Size(l) - 32
    <3>1. PICK b \in Nat \ {0} : b = Size(l)
      BY <2>3, SizeFacts
    <3>2. ~ (d % b >= b - 32)
      BY <2>2, <2>6, <3>1 DEF AtEdge
    <3>3. d % b \in 0 .. b - 1
      BY <3>1, Quotient
    <3> QED
      BY <3>1, <3>2, <3>3
  <2>9. x \div Size(l) = d \div Size(l)
    BY <2>3, <2>6, <2>7, <2>8, PinOffs
  <2>10. /\ st[v].idx.offs \div Size(l) = x \div Size(l)
         /\ st[u].idx.offs \div Size(l) = d \div Size(l)
    BY <2>1, <2>3, <2>6, <2>7, OffsetKeeps
  <2>11. st[v].idx.reg = st[u].idx.reg
    BY <2>1, <2>3, <2>5, Placed
  <2>12. Address(v).phys <=> Address(u).phys
    BY <2>3, AddressFacts DEF is_backed_var
  <2>13. Address(v).phys = Address(u).phys
    BY <2>12, AddressFacts
  <2>14. in_same_region(Address(v), Address(u), l)
    BY <2>9, <2>10, <2>11, <2>13, AddressFacts DEF in_same_region
  <2> QED
    BY <2>1, <2>2, <2>3, <2>14 DEF InPlace
<1> QED
  BY <1>1, ConcretizeInvariant, PTL

(* Invariant: the addresses that validate_selection accepts pass the check *)
(* of write_init_state, which ends the program, unless a pinned variable   *)
(* is outside of the region it is pinned to; and once a batch is accepted  *)
(* no two of its runs, nor two variables of a run, share a location, but   *)
(* those that may or of which one alone is identity mapped.                *)
THEOREM ConcretizeAcceptedIsUsable == Spec => []AcceptedIsUsable
<1>1. ASSUME ConcInv PROVE AcceptedIsUsable
  <2>1. PassesPostcheck
    BY <1>1 DEF ConcInv, FailInv, PassesPostcheck
  <2>2. BatchDisjoint
    <3> SUFFICES ASSUME pc \in {"write", "done"}, NEW n \in 1 .. job.batch, NEW m \in 1 .. job.batch,
                        NEW v \in HeapVar, NEW w \in HeapVar, PA(values[n][v]) = PA(values[m][w])
                 PROVE  n = m /\ (v = w \/ can_virtually_alias(v, w) \/ values[n][v].phys # values[n][w].phys)
      BY DEF BatchDisjoint
    <3>1. /\ \A i, j \in 1 .. job.batch : i # j => ~ Overlap(i, j)
          /\ \A i \in 1 .. job.batch : Usable(values[i])
      BY <1>1 DEF ConcInv, RunsInv, Compared
    <3>2. n = m
      BY <3>1 DEF Overlap
    <3>3. PICK va : va = values[n] /\ Usable(va)
      BY <3>1
    <3>4. va[v] \in Found /\ va[w] \in Found
      BY <3>3 DEF Usable
    <3>5. va[v].reg = va[w].reg /\ va[v].offs = va[w].offs
      BY <3>2, <3>3 DEF PA
    <3>6. ASSUME va[v].phys = va[w].phys PROVE va[v] = va[w]
      BY <3>4, <3>5, <3>6 DEF Found
    <3>7. v # w /\ va[v] = va[w] => can_virtually_alias(v, w)
      BY <3>3 DEF Usable
    <3> QED
      BY <3>2, <3>3, <3>6, <3>7
  <2> QED
    BY <2>1, <2>2 DEF AcceptedIsUsable
<1> QED
  BY <1>1, ConcretizeInvariant, PTL
===============================================================================
