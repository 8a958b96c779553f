\* A request that no stretch of free slabs can hold.
SPECIFICATION Spec
CONSTANTS
    Blocks = 4
    BlockSize = 4
    MMDSize = 2
    Word = 8
    Size = 32
    Requests = {2, 10, 20}
    Allocated = Allocated
    Null = Null
PROPERTY SearchReturns
