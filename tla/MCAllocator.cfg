\* The allocator on a heap of 5 blocks, requests of 1, 2, 3 and 6 blocks.
SPECIFICATION Spec
CONSTANTS
    Blocks = 6
    BlockSize = 4
    MMDSize = 2
    Word = 8
    Size = 32
    Requests = {2, 3, 10, 20}
    Allocated = Allocated
    Null = Null
INVARIANT TypeOK
INVARIANT SlabsTileTheHeap
INVARIANT ListIsOneCircle
INVARIANT FreeSpaceIsReported
PROPERTY GrantsAsReported
PROPERTY GrantsAreStretches
PROPERTY SearchEnds
