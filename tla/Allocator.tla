------------------------------ MODULE Allocator ------------------------------
(***************************************************************************)
(* The memory allocator of MemoryAllocator.cpp: first fit over a circular  *)
(* list of free slabs, which is searched from a moving iterator and merges *)
(* adjacent free slabs on its way.                                         *)
(*                                                                         *)
(* Memory is Blocks blocks, and a slab is named by the index of its first  *)
(* one, the BID of the code; its MMD (size and nextBID) lies right before  *)
(* that block.  Slab 0 is empty and always in the list.  One pass of the   *)
(* search loop is three kinds of steps: the test of a slab, the merges     *)
(* above the iterator, the advance.  One call runs at a time, as in a trap *)
(* (the README says where the kernel allocates outside of one).            *)
(***************************************************************************)
EXTENDS Integers, FiniteSets

CONSTANTS
    Blocks,         \* (endAddr - startAddr) / MEM_BLOCK_SIZE
    BlockSize,      \* MEM_BLOCK_SIZE
    MMDSize,        \* MMDSIZE
    Word,           \* 2^32, the range of uint32
    Size,           \* 2^64, the range of size_t
    Requests,       \* the numbers of bytes that are asked for
    Allocated,      \* the nextBID of a slab that is not free
    Null            \* nullptr

ASSUME HeapAssumption ==
    /\ Blocks \in Nat /\ Blocks > 1
    /\ MMDSize \in Nat \ {0} /\ BlockSize \in Nat /\ MMDSize < BlockSize
    /\ Word \in Nat /\ Word > Blocks
    /\ Size \in Nat /\ Size >= BlockSize * Word
    /\ Allocated \notin Nat
    /\ Null \notin Nat

\* Requests for which the number of blocks does not overflow uint32.
ASSUME RequestsAssumption ==
    Requests \subseteq {n \in Nat : n <= BlockSize * (Word - 1) - MMDSize}

VARIABLES
    size,                   \* MMD::size of every slab
    next,                   \* MMD::nextBID of every slab
    iteratorAddress,        \* the slab it points to
    totalAvailableBlocks,
    listSize,
    pc,                     \* where the running call of allocateBytes() is
    nBytes,                 \* its argument
    first,                  \* its firstIteratorAddress
    secondTry,
    asked,                  \* the bytes its caller asked for
    answer                  \* what the last call returned, a slab or Null

list == <<size, next, iteratorAddress, totalAvailableBlocks, listSize>>
call == <<pc, nBytes, first, secondTry, asked, answer>>
vars == <<list, call>>

Slabs == DOMAIN size
FreeSlabs == {b \in Slabs : next[b] # Allocated}

TypeOK ==
    /\ Slabs \in SUBSET (0..(Blocks - 1))
    /\ size \in [Slabs -> 0..(Blocks - 1)]
    /\ next \in [Slabs -> (0..(Blocks - 1)) \union {Allocated}]
    /\ iteratorAddress \in FreeSlabs
    /\ totalAvailableBlocks \in 0..(Blocks - 1)
    /\ listSize \in 1..Blocks
    /\ pc \in {"idle", "test", "merge"}
    /\ nBytes \in 0..(Size - 1)
    /\ first \in 0..(Blocks - 1)
    /\ secondTry \in BOOLEAN
    /\ asked \in Nat
    /\ answer \in 1..(Blocks - 1) \union {Null}

-----------------------------------------------------------------------------
\* Numbers.

NeededBytes(nBlocks) == ((nBlocks - 1) * BlockSize + 1) % Size

NeededBlocks(n) ==
    (((n \div BlockSize) % Word)
        + (IF (n % BlockSize) <= BlockSize - MMDSize THEN 1 ELSE 2)) % Word

\* The slab next to slab m in memory, and whether m can take it in.
Above(m) == m + size[m]
CanMergeAny(m) == size[m] # 0 /\ Above(m) < Blocks
CanMerge(m) ==
    /\ size[m] # 0
    /\ Above(m) < Blocks
    /\ size[Above(m)] # 0
    /\ next[Above(m)] # Allocated

\* 0x03: the free space in bytes.
TotalAvailableBytes == (totalAvailableBlocks * BlockSize - MMDSize) % Size

\* 0x04: the longest stretch of free slabs, in bytes.
LargestAvailableBlock ==
    LET total[b \in Slabs] ==
            size[b] + (IF CanMerge(b) THEN total[Above(b)] ELSE 0)
        max == CHOOSE n \in {total[b] : b \in FreeSlabs} :
                  \A b \in FreeSlabs : total[b] <= n
    IN  IF max = 0 THEN 0 ELSE (max - 1) * BlockSize + (BlockSize - MMDSize)

-----------------------------------------------------------------------------
\* init() and createFirstTwoSlabs().
Init ==
    /\ size = [b \in {0, 1} |-> IF b = 0 THEN 0 ELSE Blocks - 1]
    /\ next = [b \in {0, 1} |-> 1 - b]
    /\ iteratorAddress = 1
    /\ totalAvailableBlocks = Blocks - 1
    /\ listSize = 2
    /\ pc = "idle"
    /\ nBytes = 0
    /\ first = 0
    /\ secondTry = FALSE
    /\ asked = 0
    /\ answer = Null

\* allocateBytes(n) begins, for bytes that the caller asked for.
Begin(n, bytes) ==
    /\ pc = "idle"
    /\ pc' = "test"
    /\ nBytes' = n
    /\ first' = iteratorAddress
    /\ secondTry' = FALSE
    /\ asked' = bytes
    /\ UNCHANGED <<list, answer>>

\* Called by the kernel itself, and by mem_alloc(), which rounds to blocks.
AllocateBytes(bytes) == Begin(bytes, bytes)
MemAlloc(bytes) == Begin(NeededBytes(NeededBlocks(bytes)), bytes)

\* allocateBytes() returns b; the locals of the call are gone.
Return(b) ==
    /\ pc' = "idle"
    /\ answer' = b
    /\ nBytes' = 0 /\ first' = 0 /\ secondTry' = FALSE /\ asked' = 0

cmmd == next[iteratorAddress]
need == NeededBlocks(nBytes)

SlabLarger(b) == need < size[b]
SlabGood(b) == need <= size[b]

\* The size of slab b once it is granted.
GrantedWhole(b) == size[b]
GrantedSize(b) == need

\* The search is back at its first slab for the second time.
AtEndOnce == cmmd = first
AtEndMoving == cmmd = iteratorAddress /\ secondTry
AtEnd == cmmd = first /\ secondTry

GiveUp ==
    /\ pc = "test"
    /\ AtEnd
    /\ Return(Null)
    /\ UNCHANGED list

\* A slab is found: what is left of it, or else its successor, follows the iterator.
Take ==
    /\ pc = "test"
    /\ ~AtEnd
    /\ SlabGood(cmmd)
    /\ LET small == cmmd + need
           split == need < size[cmmd]
           slabs == IF split THEN Slabs \union {small} ELSE Slabs
       IN  /\ size' = [b \in slabs |-> IF b = cmmd THEN GrantedSize(b)
                                       ELSE IF split /\ b = small THEN size[cmmd] - need
                                       ELSE size[b]]
           /\ next' = [b \in slabs |-> IF b = cmmd THEN Allocated
                                       ELSE IF b = iteratorAddress
                                       THEN (IF split THEN small ELSE next[cmmd])
                                       ELSE IF split /\ b = small THEN next[cmmd]
                                       ELSE next[b]]
           /\ listSize' = IF split THEN listSize ELSE listSize - 1
    /\ totalAvailableBlocks' = (totalAvailableBlocks - need) % Word
    /\ Return(cmmd)
    /\ UNCHANGED iteratorAddress

Reject ==
    /\ pc = "test"
    /\ ~AtEnd
    /\ ~SlabGood(cmmd)
    /\ secondTry' = (secondTry \/ cmmd = first)
    /\ pc' = "merge"
    /\ UNCHANGED <<list, nBytes, first, asked, answer>>

\* merge(iteratorAddress): the slab above leaves the list and is taken in.
Merge ==
    /\ pc = "merge"
    /\ CanMerge(iteratorAddress)
    /\ LET above == Above(iteratorAddress)
       IN  /\ next' = [b \in Slabs \ {above} |-> IF next[b] = above THEN next[above]
                                                 ELSE next[b]]
           /\ size' = [b \in Slabs \ {above} |-> IF b = iteratorAddress
                                                 THEN size[b] + size[above] ELSE size[b]]
    /\ listSize' = listSize - 1
    /\ UNCHANGED <<iteratorAddress, totalAvailableBlocks, call>>

Advance ==
    /\ pc = "merge"
    /\ ~CanMerge(iteratorAddress)
    /\ iteratorAddress' = next[iteratorAddress]
    /\ pc' = "test"
    /\ UNCHANGED <<size, next, totalAvailableBlocks, listSize, nBytes, first, secondTry,
                   asked, answer>>

\* The slab is put behind the iterator; a slab that is free already stays.
FreedAlways(b) == TRUE
Freed(b) == next[b] = Allocated
Deallocate(b) ==
    /\ pc = "idle"
    /\ IF Freed(b)
       THEN /\ totalAvailableBlocks' = (totalAvailableBlocks + size[b]) % Word
            /\ next' = [next EXCEPT ![b] = next[iteratorAddress], ![iteratorAddress] = b]
            /\ listSize' = listSize + 1
            /\ UNCHANGED <<size, iteratorAddress, call>>
       ELSE UNCHANGED vars

Search == GiveUp \/ Take \/ Reject \/ Merge \/ Advance

Next ==
    \/ \E n \in Requests : AllocateBytes(n) \/ MemAlloc(n)
    \/ Search
    \/ \E b \in Slabs \ {0} : Deallocate(b)

\* A call of allocateBytes() runs on until it returns.
Spec == Init /\ [][Next]_vars /\ WF_vars(Search)

-----------------------------------------------------------------------------
\* Safety.

Stretch(b) == b..(b + size[b] - 1)

\* No block is lost and none is in two slabs, over any splits and merges: the
\* slabs tile the heap, so the MMD canMerge() reads is always that of a slab.
SlabsTileTheHeap ==
    /\ \A b \in Slabs \ {0} : size[b] > 0 /\ Above(b) \in Slabs \union {Blocks}
    /\ \A b, c \in Slabs : b # c => Stretch(b) \intersect Stretch(c) = {}
    /\ UNION {Stretch(b) : b \in Slabs} = 1..(Blocks - 1)

\* The list is one circle through exactly the free slabs: the nextBIDs lead from
\* the iterator over listSize slabs back to it, with slab 0 among them.
ListIsOneCircle ==
    LET at[i \in 0..listSize] ==
            IF i = 0 THEN iteratorAddress
            ELSE IF at[i-1] \in FreeSlabs THEN next[at[i-1]] ELSE Allocated
    IN  /\ at[listSize] = iteratorAddress
        /\ {at[i] : i \in 1..listSize} = FreeSlabs
        /\ Cardinality(FreeSlabs) = listSize
        /\ 0 \in FreeSlabs

FreeBlocks == UNION {Stretch(b) : b \in FreeSlabs}

\* The counter kept apart from the list agrees with it, and the two free-space
\* queries with each other: totalAvailableBlocks is the blocks of the free slabs,
\* over any splits, merges and frees by calls that do not overlap, and
\* totalAvailableBytes() is no less than largestAvailableBlock() (if no block is
\* free it has wrapped and is the most there can be).  AllocatorRace has the
\* calls that overlap, for which the first part fails.
FreeSpaceIsReported ==
    /\ totalAvailableBlocks = Cardinality(FreeBlocks)
    /\ LargestAvailableBlock <= TotalAvailableBytes

\* allocateBytes() and mem_get_largest_free_block() agree: at the end of a
\* search it is refused exactly if the other would report fewer bytes than
\* asked for, and a grant has room for all of them.
GrantsAsReported ==
    [][pc = "test" /\ pc' = "idle" =>
          /\ (answer' # Null) = (LargestAvailableBlock > 0 /\ asked <= LargestAvailableBlock)
          /\ answer' # Null => size'[answer'] * BlockSize - MMDSize >= asked]_vars

\* The state of Heap: the slabs that are not free, and the request that runs.
Granted == [b \in Slabs \ FreeSlabs |-> size[b]]
Wanted == IF pc = "idle" THEN 0 ELSE need
HeapSpec ==
    INSTANCE Heap WITH
        Lengths <- {NeededBlocks(n) : n \in Requests}, used <- Granted, wanted <- Wanted

\* The lists, splits and merges implement plain stretches of memory: a grant
\* never touches another one, and a refusal means that no stretch is left that
\* is long enough, whatever the iterator and the merges on the way did.
GrantsAreStretches == HeapSpec!Spec

-----------------------------------------------------------------------------
\* Liveness.

\* A search ends, unless nothing fits and the slab it started from, at which it
\* would stop, was merged into another one on the way.
SearchEnds ==
    pc # "idle" ~> \/ pc = "idle"
                   \/ first \notin Slabs /\ asked > LargestAvailableBlock

\* Every call of allocateBytes() returns, as its "return nullptr" intends.  The
\* code breaks this: the slab at which the search would stop may be merged away.
SearchReturns == pc # "idle" ~> pc = "idle"

==============================================================================
