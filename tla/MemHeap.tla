------------------------------ MODULE MemHeap ------------------------------
(***************************************************************************)
(* The control-buffer allocator (src/include/ep_ibgda/memheap.h) as        *)
(* operators on a heap value: the running total `allocated', which is also *)
(* where fresh blocks start, and the table of blocks in the order of their *)
(* table index.  Every function holds the heap's lock from its first read  *)
(* to its last write.                                                      *)
(***************************************************************************)
EXTENDS Integers, Sequences, FiniteSetsExt

CONSTANTS
    HeapSize,   \* heap->size
    MaxAllocs   \* MEMHEAP_MAX_ALLOCATIONS

ASSUME HeapAssumption == HeapSize \in Nat /\ MaxAllocs \in Nat

Nowhere == -1                               \* (size_t)-1

Block(offset, size, used) == [offset |-> offset, size |-> size, used |-> used]

EmptyHeap == [allocated |-> 0, allocs |-> << >>]

AlignUp(offset, align) == ((offset + align - 1) \div align) * align

\* An entry is added only while the table has room; otherwise it is forgotten.
Record(allocs, b) == IF Len(allocs) < MaxAllocs THEN Append(allocs, b) ELSE allocs

\* Mutant: used entries are candidates too.
FitsUsed(b, size, align) == AlignUp(b.offset, align) + size <= b.offset + b.size

Fits(b, size, align) ==
    ~b.used /\ AlignUp(b.offset, align) + size <= b.offset + b.size

\* A free entry is reused: the gap before and the rest behind become entries.
Reuse(heap, i, size, align) ==
    LET b     == heap.allocs[i]
        at    == AlignUp(b.offset, align)
        rest  == b.offset + b.size - (at + size)
        front == IF at > b.offset
                 THEN Record(heap.allocs, Block(b.offset, at - b.offset, FALSE))
                 ELSE heap.allocs
        back  == IF rest > 0
                 THEN Record(front, Block(at + size, rest, FALSE))
                 ELSE front
    IN [ret  |-> at,
        heap |-> [allocated |-> heap.allocated + size,
                  allocs    |-> [back EXCEPT ![i] = Block(at, size, TRUE)]]]

\* No free entry fits: the block starts at the running total.
Bump(heap, size, align) ==
    LET at == AlignUp(heap.allocated, align)
    IN IF at + size <= HeapSize
       THEN [ret  |-> at,
             heap |-> [allocated |-> at + size,
                       allocs    |-> Record(heap.allocs, Block(at, size, TRUE))]]
       ELSE [ret |-> Nowhere, heap |-> heap]

\* memheap_aligned_alloc for a positive size and a power of two: first fit.
AlignedAlloc(heap, size, align) ==
    LET free == {i \in DOMAIN heap.allocs : Fits(heap.allocs[i], size, align)}
    IN IF free # {} THEN Reuse(heap, Min(free), size, align)
       ELSE Bump(heap, size, align)

\* memheap_free: the first used entry with this offset, if there is one.
Free(heap, offset) ==
    LET hit == {i \in DOMAIN heap.allocs :
                   heap.allocs[i].used /\ heap.allocs[i].offset = offset}
    IN IF offset = Nowhere \/ hit = {} THEN heap
       ELSE [allocated |-> heap.allocated - heap.allocs[Min(hit)].size,
             allocs    |-> [heap.allocs EXCEPT ![Min(hit)].used = FALSE]]
=============================================================================
