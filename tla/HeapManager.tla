----------------------------- MODULE HeapManager -----------------------------
(***************************************************************************)
(* The heap of a memory segment or DMA buffer: free nodes in a list kept   *)
(* in increasing order of size, in-use nodes in another.  An allocation    *)
(* takes the first free node that fits, from its low or its high end; a    *)
(* release merges the node with the free nodes that touch it.  Every call  *)
(* runs under the heap's lock.  When the node of an allocation cannot be   *)
(* created the space already cut off its free node is in no list any more. *)
(***************************************************************************)
EXTENDS Naturals, Sequences, SequencesExt, FiniteSets, FiniteSetsExt

CONSTANTS
  Start, Size, HeapAlign,   \* heap_init
  AllocSizes, Alignments,   \* what callers ask for
  MaxFails                  \* bound: how often gf_calloc of a node fails

ASSUME HeapAssumption ==
  /\ Start \in Nat /\ Size \in Nat \ {0} /\ HeapAlign \in Nat \ {0}
  /\ AllocSizes \subseteq Nat \ {0} /\ Alignments \subseteq Nat
  /\ MaxFails \in Nat

VARIABLES
  free, free_size,    \* heap->free: its nodes in list order, its size
  inuse,              \* heap->inuse
  lost                \* history: the parts that are in no list any more

heapVars == <<free, free_size, inuse, lost>>

End(n) == n.offset + n.size

\* util_align, and the mask of an allocation from the high end.
AlignUp(x, a) == ((x + a - 1) \div a) * a
AlignDown(x, a) == (x \div a) * a

HeapInit ==
  /\ free = <<[offset |-> Start, size |-> Size]>> /\ free_size = Size
  /\ inuse = {} /\ lost = {}

\* Plausible bug: a node is put at the end of the list.
BugAppend(list, n) == Append(list, n)

\* heap_add_node_to_list on the ordered list: before the first larger node.
heap_add_node_to_list(list, n) ==
  LET i == SelectInSeq(list, LAMBDA m : m.size > n.size)
  IN  IF i = 0 THEN Append(list, n) ELSE InsertAt(list, i, n)

-----------------------------------------------------------------------------
(* heap_allocate.                                                          *)

\* Plausible bug: the used part starts where the node starts.
BugPlaceUnaligned(n, asize, a, direction) ==
  [offset |-> n.offset, size |-> asize, aligned_offset |-> n.offset]

\* The part of free node n that an allocation of asize at alignment a takes:
\* from an aligned offset to the end of n, or from the start of n to the end of
\* the aligned space.  The used part is at aligned_offset.
Place(n, asize, a, direction) ==
  IF direction
  THEN LET at == AlignDown(End(n) - asize, a)
       IN  [offset |-> at, size |-> End(n) - at, aligned_offset |-> at]
  ELSE LET at == AlignUp(n.offset, a)
       IN  [offset |-> n.offset, size |-> (asize + at) - n.offset,
            aligned_offset |-> at]

Fits(n, asize, a, direction) ==
  /\ asize <= n.size
  /\ IF direction THEN AlignDown(End(n) - asize, a) >= n.offset
     ELSE AlignUp(n.offset, a) + asize <= End(n)

\* What is left of n: its low end, or its high end.
Remainder(n, taken, direction) ==
  [offset |-> IF direction THEN n.offset ELSE n.offset + taken.size,
   size |-> n.size - taken.size]

\* Plausible bug: the rest of a split node is dropped.
BugDropRemainder(rest, n, taken, direction) == free' = rest

\* The rest of a split node goes back to the free list; free_size follows.
KeepRemainder(rest, n, taken, direction) ==
  free' = IF taken.size = n.size THEN rest
          ELSE heap_add_node_to_list(rest, Remainder(n, taken, direction))

heap_allocate(size, alignment, direction) ==
  LET a     == Max({alignment, HeapAlign})
      asize == AlignUp(size, HeapAlign)
      k     == SelectInSeq(free, LAMBDA m : Fits(m, asize, a, direction))
  IN
  /\ asize <= free_size
  /\ k # 0
  /\ LET n == free[k]
         taken == Place(n, asize, a, direction)
     IN
     /\ KeepRemainder(RemoveAt(free, k), n, taken, direction)
     /\ free_size' = free_size - taken.size
     /\ \/ /\ inuse' = inuse \cup
                {[offset |-> taken.offset, size |-> taken.size,
                  aligned_offset |-> taken.aligned_offset, aligned_size |-> asize,
                  alignment |-> a]}
           /\ UNCHANGED lost
        \/ /\ taken.size # n.size /\ Cardinality(lost) < MaxFails
           /\ lost' = lost \cup {taken}
           /\ UNCHANGED inuse

-----------------------------------------------------------------------------
(* heap_release.                                                           *)

\* Plausible bug: the upper neighbour is not merged.
BugNoNext(list, n) == 0

\* The free node that ends where n starts, and the one that starts where n ends:
\* its place in the list, or 0.
PrevOf(list, n) == SelectInSeq(list, LAMBDA m : End(m) = n.offset)
NextOf(list, n) == SelectInSeq(list, LAMBDA m : m.offset = End(n))

\* heap_remove_node_from_list, if there is a node; its size.
Without(list, i) == IF i = 0 THEN list ELSE RemoveAt(list, i)
SizeAt(list, i) == IF i = 0 THEN 0 ELSE list[i].size

\* The code looks for both neighbours before it removes one; no node is both.
heap_release(n) ==
  LET prev   == PrevOf(free, n)
      rest   == Without(free, prev)
      next   == NextOf(rest, n)
      merged == [offset |-> IF prev = 0 THEN n.offset ELSE free[prev].offset,
                 size |-> n.size + SizeAt(free, prev) + SizeAt(rest, next)]
  IN
  /\ inuse' = inuse \ {n}
  /\ free' = heap_add_node_to_list(Without(rest, next), merged)
  /\ free_size' = free_size + n.size
  /\ UNCHANGED lost

HeapNext ==
  \/ \E size \in AllocSizes, alignment \in Alignments, direction \in BOOLEAN :
       heap_allocate(size, alignment, direction)
  \/ \E n \in inuse : heap_release(n)

HeapSpec == HeapInit /\ [][HeapNext]_heapVars

-----------------------------------------------------------------------------
(* Properties.                                                             *)

FreeNodes == Range(free)

Covers(n, x) == n.offset <= x /\ x < End(n)

\* Every address of the heap is in exactly one node, free or in use, unless it
\* was lost to a failed gf_calloc: nothing is handed out twice, and nothing else
\* is lost by splitting and merging.
HeapIsTiled ==
  \A x \in Start..(Start + Size - 1) :
    Cardinality({n \in FreeNodes : Covers(n, x)})
      + Cardinality({n \in inuse : Covers(n, x)})
      + Cardinality({n \in lost : Covers(n, x)}) = 1

\* The part of a node its owner uses is aligned and lies inside the node.
UsedIsInside ==
  \A n \in inuse :
    /\ n.aligned_offset % n.alignment = 0
    /\ n.offset <= n.aligned_offset
    /\ n.aligned_offset + n.aligned_size <= End(n)

\* No two free nodes touch, so a request that fits the free space between two
\* in-use nodes is never refused; with nothing in use and nothing lost the heap
\* is one node again, as heap_destroy expects.
NoFragments == \A n, m \in FreeNodes : End(n) # m.offset

\* The free list is in increasing order of size, so that the first fit is the
\* best one, and its size is the number of free addresses.
Increasing(list) == \A i \in 1..(Len(list) - 1) : list[i].size <= list[i + 1].size

FreeSpace == {x \in Start..(Start + Size - 1) : \E n \in FreeNodes : Covers(n, x)}

FreeListOrdered == Increasing(free) /\ free_size = Cardinality(FreeSpace)

-----------------------------------------------------------------------------
(* The inductive invariant: the nodes have a size, lie in the heap, do not *)
(* meet and leave no gap, and the free list holds none of them twice.      *)

Apart(n, m) == End(n) <= m.offset \/ End(m) <= n.offset

InHeap(n) ==
  /\ n.offset \in Nat /\ n.size \in Nat \ {0}
  /\ Start <= n.offset /\ End(n) <= Start + Size

Scattered(S) ==
  /\ \A n \in S : InHeap(n)
  /\ \A n, m \in S : n # m => Apart(n, m)

AllApart(S, T) == \A n \in S, m \in T : Apart(n, m)

Tiled(F, U, L) ==
  /\ Scattered(F) /\ Scattered(U) /\ Scattered(L)
  /\ AllApart(F, U) /\ AllApart(F, L) /\ AllApart(U, L)
  /\ \A x \in Start..(Start + Size - 1) : \E n \in F \cup U \cup L : Covers(n, x)

FreeNode == [offset : Nat, size : Nat \ {0}]

NoRepeats(list) == \A i, j \in 1..Len(list) : list[i] = list[j] => i = j

HeapInv ==
  /\ free \in Seq(FreeNode) /\ NoRepeats(free)
  /\ Tiled(FreeNodes, inuse, lost)
  /\ \A n \in inuse : n.alignment \in Nat \ {0} /\ n.aligned_offset \in Nat
                        /\ n.aligned_size \in Nat
  /\ UsedIsInside /\ NoFragments /\ FreeListOrdered
=============================================================================
