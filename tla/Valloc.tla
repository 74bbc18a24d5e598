--------------------------------- MODULE Valloc --------------------------------
(***************************************************************************)
(* The allocator of the harness (lib/valloc/): memory is taken from a      *)
(* freed chunk if there is one, and else from below mem.top; freed chunks  *)
(* are merged with their neighbours, and given back to the space below     *)
(* mem.top.  Every call holds __valloc_lock: an allocation is one step,    *)
(* and each round of the loops of free is one.                             *)
(*                                                                         *)
(* Addresses and sizes are in bytes.  The chunk list is the set of blocks, *)
(* which are looked up by address only; the free list keeps its order.     *)
(* Programs free what they have allocated, and once: the ends of the       *)
(* program on other pointers (valloc.c:149, valloc_alloclist.c:56) are     *)
(* left out.                                                               *)
(***************************************************************************)
EXTENDS Integers, Sequences, FiniteSets, SequencesExt, FiniteSetsExt

CONSTANTS
  BOT_OF_HEAP, TOP_OF_HEAP, NUM_ALLOC_CHUNKS,
  Programs  \* the sets of calls a program makes: [size, alignment], alignment
            \* being 0 for alloc(size)

VARIABLES
  calls,     \* the program
  top,       \* mem.top
  freelist,  \* mem.freelist: a sequence of [start, size]
  blocks,    \* mem.chunk_alloc_list: a set of [start, size, call]
  pc,        \* "idle": no call is in progress; "compact", "shift": what free
             \* does; "ended": the program has ended with an error
  chunk      \* the chunk that __compact_together was called for

vars == <<calls, top, freelist, blocks, pc, chunk>>

FreeChunkSize  == 24   \* sizeof(valloc_free_chunk)
AllocChunkSize == 32   \* sizeof(valloc_alloc_chunk)
End(c) == c.start + c.size

Init ==
  /\ calls \in Programs
  /\ top = TOP_OF_HEAP
  /\ freelist = <<>>
  /\ blocks = {}
  /\ pc = "idle"
  /\ chunk = 0

-----------------------------------------------------------------------------
(* The arithmetic of u64, one bit at a time. *)
Shl1[n \in Nat] == IF n = 0 THEN 1 ELSE 2 * Shl1[n - 1]
bits[i \in Nat] == IF i = 0 THEN 0 ELSE 1 + bits[i \div 2]
odd_part[i \in Nat] == IF i = 0 \/ i % 2 = 1 THEN i ELSE odd_part[i \div 2]

is_pow2(i) == odd_part[i] = 1
next_largest_pow2(i) == Shl1[bits[i]]

(* 2^n % to; and v & ~m, for ALIGN_POW2.                                   *)
Shl1Mod[n \in Nat] ==
  [to \in Nat \ {0} |-> IF n = 0 THEN 1 % to ELSE (2 * Shl1Mod[n - 1][to]) % to]
AndNot[v \in Nat] ==
  [m \in Nat |-> IF v = 0 THEN 0
                 ELSE 2 * AndNot[v \div 2][m \div 2] + (IF m % 2 = 1 THEN 0 ELSE v % 2)]

(* v + ((-v) % to) + to for the u64 v: -v is 2^64 - v.                     *)
ALIGN_UP_TO(v, to) == IF v % to = 0 THEN v ELSE v + ((Shl1Mod[64][to] - v) % to) + to

ALIGN_POW2(v, to) == AndNot[v][to - 1]

(* The heap is made of whole pages; a size is less than 2^63, so that      *)
(* next_largest_pow2 shifts by less than 64; an alignment is the u64       *)
(* sizeof of some type, which has 64-bit fields if it is a struct of 32    *)
(* bytes or more.                                                          *)
ASSUME HeapAssumption ==
  /\ BOT_OF_HEAP \in Nat /\ TOP_OF_HEAP \in Nat
  /\ BOT_OF_HEAP <= TOP_OF_HEAP /\ TOP_OF_HEAP % 8 = 0
ASSUME ProgramsAssumption ==
  \A program \in Programs : \A call \in program :
    /\ call \in [size : Nat, alignment : Nat]
    /\ bits[call.size] < 64 /\ bits[call.alignment] <= 64
    /\ call.alignment < 32 \/ call.alignment % 8 = 0

(* What alloc and alloc_with_alignment make of their arguments.            *)
Rounded(call) ==
  IF call.alignment = 0
  THEN LET n == IF is_pow2(call.size) THEN call.size ELSE next_largest_pow2(call.size)
       IN  IF n < FreeChunkSize
           THEN [size |-> next_largest_pow2(FreeChunkSize), alignment |-> 8]
           ELSE [size |-> n, alignment |-> IF n <= 8 THEN n ELSE 8]
  ELSE LET small == call.size < FreeChunkSize
           align == IF small THEN 8 ELSE call.alignment
       IN  [size      |-> IF small THEN next_largest_pow2(FreeChunkSize) ELSE call.size,
            alignment |-> IF align < AllocChunkSize THEN next_largest_pow2(AllocChunkSize)
                                                    ELSE align]

-----------------------------------------------------------------------------
Pad(c, alignment) == ALIGN_UP_TO(c.start, alignment) - c.start

(* The chunks that are large enough, and the first of the smallest.        *)
Fits(n, alignment) ==
  {k \in DOMAIN freelist : freelist[k].size > n + Pad(freelist[k], alignment)}
valloc_freelist_find_best(n, alignment) ==
  CHOOSE k \in Fits(n, alignment) : \A m \in Fits(n, alignment) \ {k} :
    freelist[k].size < freelist[m].size \/ (freelist[k].size = freelist[m].size /\ k < m)

IfLarge(start, n) == IF n > FreeChunkSize THEN <<[start |-> start, size |-> n]>> ELSE <<>>

(* Mutation of Split: what is left of the chunk begins too early. *)
SplitWithoutPad(k, n, alignment) ==
  LET c == freelist[k]  pad == Pad(c, alignment) IN
  IfLarge(c.start + n, c.size - pad - n) \o IfLarge(c.start, pad) \o RemoveAt(freelist, k)

(* The free list after a block of n bytes has been cut out of chunk k:     *)
(* what is left below and above it, unless too small for a chunk.          *)
Split(k, n, alignment) ==
  LET c == freelist[k]  pad == Pad(c, alignment) IN
  IfLarge(c.start + pad + n, c.size - pad - n) \o IfLarge(c.start, pad) \o RemoveAt(freelist, k)

Fail == pc' = "ended" /\ UNCHANGED <<calls, top, freelist, blocks, chunk>>

valloc_alloclist_alloc(start, n, call) ==
  /\ Cardinality(blocks) < NUM_ALLOC_CHUNKS
  /\ blocks' = blocks \cup {[start |-> start, size |-> n, call |-> call]}

(* __alloc_with_alignment: from the best chunk ... *)
AllocFromFreelist(call) ==
  LET a == Rounded(call) IN
  /\ pc = "idle"
  /\ Fits(a.size, a.alignment) # {}
  /\ LET k == valloc_freelist_find_best(a.size, a.alignment) IN
     /\ freelist' = Split(k, a.size, a.alignment)
     /\ valloc_alloclist_alloc(freelist[k].start + Pad(freelist[k], a.alignment), a.size, call)
  /\ UNCHANGED <<calls, top, pc, chunk>>

(* ... or else from below mem.top. *)
NewTop(a) == ALIGN_POW2(top - a.size, a.alignment)

AllocFromTop(call) ==
  LET a == Rounded(call) IN
  /\ pc = "idle"
  /\ Fits(a.size, a.alignment) = {}
  /\ a.size <= top - BOT_OF_HEAP
  /\ NewTop(a) >= BOT_OF_HEAP
  /\ top' = NewTop(a)
  /\ valloc_alloclist_alloc(NewTop(a), top - NewTop(a), call)
  /\ UNCHANGED <<calls, freelist, pc, chunk>>

(* No memory, or no element of mem.chunks, is left: the program ends.      *)
AllocFails(call) ==
  LET a == Rounded(call) IN
  /\ pc = "idle"
  /\ \/ Cardinality(blocks) = NUM_ALLOC_CHUNKS
     \/ /\ Fits(a.size, a.alignment) = {}
        /\ a.size > top - BOT_OF_HEAP \/ NewTop(a) < BOT_OF_HEAP
  /\ Fail

-----------------------------------------------------------------------------
valloc_is_region_allocated(live, start, end) == \E b \in live : start <= b.start /\ b.start <= end

Touching(live, lo, hi) ==
  End(lo) = hi.start \/ ~ valloc_is_region_allocated(live, End(lo), hi.start)

Merged(lo, hi) == [start |-> lo.start, size |-> End(hi) - lo.start]

(* free(p), up to __compact_together; realloc(p, n) is an alloc(n) and a   *)
(* free.                                                                   *)
Free(b) ==
  /\ pc = "idle"
  /\ blocks' = blocks \ {b}
  /\ freelist' = <<[start |-> b.start, size |-> b.size]>> \o freelist
  /\ pc' = "compact" /\ chunk' = 1
  /\ UNCHANGED <<calls, top>>

(* Of chunk and the k-th chunk, the lower one and the upper one.           *)
Lower(k) == IF freelist[chunk].start < freelist[k].start THEN chunk ELSE k
Upper(k) == IF freelist[chunk].start < freelist[k].start THEN k ELSE chunk

(* The chunks __compact_together can merge with its chunk.                 *)
Possibilities ==
  {k \in DOMAIN freelist \ {chunk} : Touching(blocks, freelist[Lower(k)], freelist[Upper(k)])}

(* __compact_together: the first of them is merged, and it starts again    *)
(* with what they make ...                                                 *)
CompactTogether ==
  /\ pc = "compact"
  /\ Possibilities # {}
  /\ LET k  == Min(Possibilities)
         lo == Lower(k)
         hi == Upper(k)
     IN /\ freelist' = RemoveAt([freelist EXCEPT ![lo] = Merged(freelist[lo], freelist[hi])], hi)
        /\ chunk' = IF lo < hi THEN lo ELSE lo - 1
  /\ UNCHANGED <<calls, top, blocks, pc>>

(* ... until there is none. *)
Compacted ==
  /\ pc = "compact"
  /\ Possibilities = {}
  /\ pc' = "shift" /\ chunk' = 0
  /\ UNCHANGED <<calls, top, freelist, blocks>>

next_free_chunk ==
  CHOOSE n \in DOMAIN freelist : \A m \in DOMAIN freelist : freelist[n].start <= freelist[m].start

CanShift ==
  /\ freelist # <<>>
  /\ ~ valloc_is_region_allocated(blocks, top, freelist[next_free_chunk].start)

(* Mutation of ShiftTop: mem.top stays where it is. *)
ShiftTopNever ==
  /\ pc = "shift" /\ CanShift
  /\ pc' = "idle"
  /\ UNCHANGED <<calls, top, freelist, blocks, chunk>>

(* __shift_top: mem.top moves up over the lowest free chunk ...            *)
ShiftTop ==
  /\ pc = "shift" /\ CanShift
  /\ top' = End(freelist[next_free_chunk])
  /\ freelist' = RemoveAt(freelist, next_free_chunk)
  /\ UNCHANGED <<calls, blocks, pc, chunk>>

(* ... until a block is below it, and the lock is released.                *)
Freed ==
  /\ pc = "shift" /\ ~ CanShift
  /\ pc' = "idle"
  /\ UNCHANGED <<calls, top, freelist, blocks, chunk>>

free_all ==
  /\ pc = "idle"
  /\ top' = TOP_OF_HEAP /\ freelist' = <<>> /\ blocks' = {}
  /\ UNCHANGED <<calls, pc, chunk>>

Next ==
  \/ \E call \in calls : AllocFromFreelist(call) \/ AllocFromTop(call) \/ AllocFails(call)
  \/ \E b \in blocks : Free(b)
  \/ CompactTogether \/ Compacted \/ ShiftTop \/ Freed
  \/ free_all

Spec == Init /\ [][Next]_vars

-----------------------------------------------------------------------------
Apart(c, d) == End(c) <= d.start \/ End(d) <= c.start

(* Every block has the size and the alignment that were asked for ...      *)
AsAsked ==
  \A b \in blocks : LET a == Rounded(b.call) IN
    /\ b.size >= b.call.size /\ b.size >= FreeChunkSize
    /\ is_pow2(a.alignment) => b.start % a.alignment = 0
    /\ b.start % 8 = 0

(* ... and no byte in common with another block, with a chunk of the free  *)
(* list, or with the space below mem.top.                                  *)
NoneShared ==
  /\ \A b, c \in blocks : b # c => Apart(b, c)
  /\ \A n, m \in DOMAIN freelist : n # m => Apart(freelist[n], freelist[m])
  /\ \A b \in blocks, n \in DOMAIN freelist : Apart(b, freelist[n])

InHeap(c) == c.size > 0 /\ top <= c.start /\ End(c) <= TOP_OF_HEAP

(* Whatever was allocated and freed before, and in the middle of a free,   *)
(* every block has the size and the alignment asked for, and no byte in    *)
(* common with another block, with a chunk of the free list, which is      *)
(* written to, or with the space below mem.top, which is given out next    *)
(* (lib/valloc/valloc.c:66-100).                                           *)
BlocksApart ==
  /\ AsAsked
  /\ NoneShared
  /\ \A b \in blocks : InHeap(b)
  /\ \A n \in DOMAIN freelist : InHeap(freelist[n])
  /\ BOT_OF_HEAP <= top /\ top <= TOP_OF_HEAP

OnlyAlloc == \A call \in calls : call.alignment = 0

(* Between any two free chunks, and below the lowest, there is a block: no *)
(* free memory stays in pieces.  So when nothing is allocated nothing is   *)
(* in the free list, and mem.top is where it was before                    *)
(* (unittests/tests/valloc/valloc_free.c:29-41), if all sizes were powers  *)
(* of 2: what Split drops at the end of the heap is lost.                  *)
FreeIsCompact == pc = "idle" =>
  /\ \A n \in DOMAIN freelist : valloc_is_region_allocated(blocks, top, freelist[n].start)
  /\ \A n, m \in DOMAIN freelist : freelist[n].start < freelist[m].start =>
       valloc_is_region_allocated(blocks, End(freelist[n]), freelist[m].start)
  /\ blocks = {} => freelist = <<>> /\ (OnlyAlloc => top = TOP_OF_HEAP)
===============================================================================
