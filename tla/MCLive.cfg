\* Time and progress: three application threads that sleep, exit and print.
SPECIFICATION LiveSpec
CONSTANTS
    Boot = Boot
    OThread = OThread
    Idle = Idle
    User = User
    Workers = {w1, w2}
    Sems = {out}
    OutputSem = out
    NoSem = NoSem
    Destroyed = Destroyed
    InitValues = {}
    Ticks = {1, 2, 3}
    TimeSlice = 2
    MaxInt = 7
    MaxValue = 1
PROPERTY SleepIsExact
PROPERTY ReadyThreadsRun
PROPERTY SleepersWake
PROPERTY ShutdownCompletes
