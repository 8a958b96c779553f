\* A free that overlaps other calls, then a grant of more than is counted.
SPECIFICATION RaceSpec
CONSTANTS
    Blocks = 4
    BlockSize = 4
    MMDSize = 2
    Word = 8
    Size = 32
    Requests = {2, 3, 10}
    ElemBytes = 2
    KernelThreads = {boot, out}
    Allocated = Allocated
    Null = Null
SYMMETRY Symmetry
PROPERTY GrantsFitFreeSpace
