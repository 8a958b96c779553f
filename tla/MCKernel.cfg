\* Safety of the kernel: three application threads, a semaphore of their own, sleeps of one tick.
SPECIFICATION Spec
CONSTANTS
    Boot = Boot
    OThread = OThread
    Idle = Idle
    User = User
    Workers = {w1, w2}
    Sems = {s1, out}
    OutputSem = out
    NoSem = NoSem
    Destroyed = Destroyed
    InitValues = {1}
    Ticks = {1}
    TimeSlice = 1
    MaxInt = 7
    MaxValue = 1
SYMMETRY Symmetry
INVARIANT TypeOK
INVARIANT EveryThreadInOnePlace
INVARIANT BootIsRunnable
INVARIANT SemaphoreCount
INVARIANT WaitersAreBlocked
PROPERTY QueuesAreFair
PROPERTY ThreadsLiveLegally
