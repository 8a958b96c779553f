\* A semaphore closed while a thread waits on it.
SPECIFICATION Spec
CONSTANTS
    Boot = Boot
    OThread = OThread
    Idle = Idle
    User = User
    Workers = {w1}
    Sems = {s1, out}
    OutputSem = out
    NoSem = NoSem
    Destroyed = Destroyed
    InitValues = {0}
    Ticks = {1}
    TimeSlice = 2
    MaxInt = 7
    MaxValue = 1
PROPERTY WaitOnClosedFails
