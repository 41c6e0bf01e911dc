------------------------------ MODULE Allocator ------------------------------
(***************************************************************************)
(* The file space allocator, internal/writer/allocator.go: best-fit reuse  *)
(* of freed blocks, allocation at the end of the file otherwise, and       *)
(* coalescing of what is freed.  The module keeps the allocator's three    *)
(* fields and, as a history variable, the addresses its clients hold.      *)
(* Clients free whole blocks or parts of them: Free accepts both, and      *)
(* cascadeDelete frees an object header by its parsed size, which an       *)
(* attribute write may have made smaller than its block.                   *)
(***************************************************************************)
EXTENDS Integers, SequencesExt, Bags

CONSTANTS InitialOffset,   \* argument of NewAllocator
          Sizes,           \* sizes that clients request
          MaxEOF,          \* bound: the file grows no further
          MaxTracked       \* bound: tracked allocations

ASSUME AllocatorAssumption ==
    /\ InitialOffset \in Nat
    /\ Sizes \subseteq Nat \ {0}
    /\ MaxEOF \in Nat
    /\ MaxTracked \in Nat

VARIABLES blocks,       \* a.blocks: the bag of tracked allocations (its order is
                        \* never used: Blocks sorts a copy)
          freeList,     \* a.freeList: free blocks, sorted by offset
          nextOffset,   \* a.nextOffset: end of file
          held,         \* history: the addresses clients own
          partial       \* history: some Free returned part of a block

vars == <<blocks, freeList, nextOffset, held, partial>>

Block == [offset : Nat, size : Nat]
End(b) == b.offset + b.size
Addresses(b) == b.offset .. (End(b) - 1)

TypeOK == /\ DOMAIN blocks \subseteq Block /\ IsABag(blocks)
          /\ freeList \in Seq(Block)
          /\ nextOffset \in Nat
          /\ held \subseteq Nat
          /\ partial \in BOOLEAN

(* NewAllocator *)
Init == /\ blocks = EmptyBag
        /\ freeList = <<>>
        /\ nextOffset = InitialOffset
        /\ held = {}
        /\ partial = FALSE

-----------------------------------------------------------------------------
(* Allocate *)

\* Mutant: the size test is off by one.
FitsOffByOne(fl, size) == {i \in 1 .. Len(fl) : fl[i].size + 1 >= size}

\* The free blocks that are large enough.
Fits(fl, size) == {i \in 1 .. Len(fl) : fl[i].size >= size}

\* The smallest of them, the first one among equals.
BestFit(fl, size) ==
    CHOOSE i \in Fits(fl, size) :
        \A j \in Fits(fl, size) :
            \/ fl[i].size < fl[j].size
            \/ fl[i].size = fl[j].size /\ i <= j

\* Mutant: the operands of the new size are swapped.
TakeFrontSwapped(fl, i, size) ==
    IF fl[i].size = size
    THEN RemoveAt(fl, i)
    ELSE [fl EXCEPT ![i] = [offset |-> fl[i].offset + size,
                            size |-> size - fl[i].size]]

\* Mutant: the rest of the block keeps its old offset.
TakeFrontKeepsOffset(fl, i, size) ==
    IF fl[i].size = size
    THEN RemoveAt(fl, i)
    ELSE [fl EXCEPT ![i].size = @ - size]

\* The free list once size bytes are taken from the front of block i.
TakeFront(fl, i, size) ==
    IF fl[i].size = size
    THEN RemoveAt(fl, i)
    ELSE [fl EXCEPT ![i] = [offset |-> fl[i].offset + size,
                            size |-> fl[i].size - size]]

AllocateReuse(size) ==
    /\ BagCardinality(blocks) < MaxTracked
    /\ Fits(freeList, size) # {}
    /\ LET i == BestFit(freeList, size)
           b == [offset |-> freeList[i].offset, size |-> size]
       IN  /\ freeList' = TakeFront(freeList, i, size)
           /\ blocks' = blocks (+) SetToBag({b})
           /\ held' = held \cup Addresses(b)
    /\ UNCHANGED <<nextOffset, partial>>

AllocateAtEnd(size) ==
    /\ BagCardinality(blocks) < MaxTracked
    /\ Fits(freeList, size) = {}
    /\ nextOffset + size <= MaxEOF
    /\ LET b == [offset |-> nextOffset, size |-> size]
       IN  /\ blocks' = blocks (+) SetToBag({b})
           /\ nextOffset' = End(b)
           /\ held' = held \cup Addresses(b)
    /\ UNCHANGED <<freeList, partial>>

-----------------------------------------------------------------------------
(* Free *)

\* sort.Search: where a block that starts at offset goes in the sorted list.
InsertIdx(fl, offset) ==
    CHOOSE i \in 1 .. (Len(fl) + 1) :
        /\ \A j \in 1 .. (i - 1) : fl[j].offset < offset
        /\ i <= Len(fl) => fl[i].offset >= offset

\* Block i absorbs its right neighbour when the two are adjacent.
MergeRight(fl, i) ==
    IF 1 <= i /\ i < Len(fl) /\ End(fl[i]) = fl[i + 1].offset
    THEN RemoveAt([fl EXCEPT ![i].size = @ + fl[i + 1].size], i + 1)
    ELSE fl

\* Mutant: the previous block is not considered.
AddToFreeListNoPrevious(fl, b) ==
    LET i == InsertIdx(fl, b.offset)
    IN  MergeRight(InsertAt(fl, i, b), i)

\* Insert, coalesce with the next block, then with the previous one.
AddToFreeList(fl, b) ==
    LET i == InsertIdx(fl, b.offset)
    IN  MergeRight(MergeRight(InsertAt(fl, i, b), i), i - 1)

\* Mutant: no trailing free block is absorbed.
KeptAll(fl, e) == Len(fl)

\* How many free blocks are left once every block that ends at the end of
\* the file, which starts at e and moves down with each of them, is dropped.
Kept(fl, e) ==
    CHOOSE n \in 0 .. Len(fl) :
        LET EndOfFile(j) == IF j = Len(fl) THEN e ELSE fl[j + 1].offset
        IN  /\ \A j \in (n + 1) .. Len(fl) : End(fl[j]) = EndOfFile(j)
            /\ n > 0 => End(fl[n]) # EndOfFile(n)

ShrinkTrailingFreeBlocks(fl, e) == SubSeq(fl, 1, Kept(fl, e))

ShrunkEnd(fl, e) == IF Kept(fl, e) = Len(fl) THEN e
                                            ELSE fl[Kept(fl, e) + 1].offset

\* Mutant: the freed block stays in the list of tracked blocks.
FreeStillTracked(b) ==
    /\ Addresses(b) \subseteq held
    /\ held' = held \ Addresses(b)
    /\ IF End(b) = nextOffset
       THEN /\ nextOffset' = ShrunkEnd(freeList, b.offset)
            /\ freeList' = ShrinkTrailingFreeBlocks(freeList, b.offset)
       ELSE /\ freeList' = AddToFreeList(freeList, b)
            /\ UNCHANGED nextOffset
    /\ UNCHANGED <<blocks, partial>>

\* A client frees [offset, offset + size), which it holds.
Free(b) ==
    /\ Addresses(b) \subseteq held
    /\ blocks' = blocks (-) SetToBag({b})
    /\ held' = held \ Addresses(b)
    /\ partial' = (partial \/ ~ BagIn(b, blocks))
    /\ IF End(b) = nextOffset
       THEN /\ nextOffset' = ShrunkEnd(freeList, b.offset)
            /\ freeList' = ShrinkTrailingFreeBlocks(freeList, b.offset)
       ELSE /\ freeList' = AddToFreeList(freeList, b)
            /\ UNCHANGED nextOffset

-----------------------------------------------------------------------------
Next ==
    \/ \E size \in Sizes : AllocateReuse(size) \/ AllocateAtEnd(size)
    \/ \E o \in InitialOffset .. (nextOffset - 1) :
           \E n \in 1 .. (nextOffset - o) : Free([offset |-> o, size |-> n])

Spec == Init /\ [][Next]_vars

-----------------------------------------------------------------------------
(* Properties *)

\* The free list is what Allocate and Free assume of it: its blocks lie in
\* the managed file, are sorted by offset, and two neighbours are never
\* adjacent, so that coalescing loses no merge (addToFreeList).
FreeListCoalesced ==
    /\ \A i \in DOMAIN freeList : /\ freeList[i].size > 0
                                  /\ freeList[i].offset >= InitialOffset
    /\ \A i, j \in DOMAIN freeList :
           i < j => End(freeList[i]) < freeList[j].offset

\* Every address below the end of the file is either held by a client or in
\* the free list and never both: Allocate never hands out what is in use,
\* Free loses nothing of what it is given.
SpaceConserved ==
    \A x \in held \cup (InitialOffset .. (nextOffset - 1)) :
        (x \in held) <=>
            /\ x \in InitialOffset .. (nextOffset - 1)
            /\ \A i \in DOMAIN freeList : x \notin Addresses(freeList[i])

\* The file never ends in free space: Free shrinks it past every trailing
\* free block (shrinkTrailingFreeBlocks).
NoTrailingFree == \A i \in DOMAIN freeList : End(freeList[i]) < nextOffset

\* ValidateNoOverlaps returns nil.
ValidateNoOverlaps ==
    /\ \A b, c \in BagToSet(blocks) :
           b # c => Addresses(b) \cap Addresses(c) = {}
    /\ \A b \in BagToSet(blocks) : blocks[b] = 1

\* As long as only whole blocks were freed, the tracked blocks are the
\* addresses in use and ValidateNoOverlaps accepts them.
TrackedExactly ==
    ~ partial => /\ held = UNION {Addresses(b) : b \in BagToSet(blocks)}
                 /\ ValidateNoOverlaps

\* The allocator implements the abstract space manager.
SM == INSTANCE SpaceManager WITH used <- held, eof <- nextOffset
ImplementsSpaceManager == SM!Spec
=============================================================================
