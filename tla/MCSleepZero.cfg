\* time_sleep(0) in a loop against a sleeper of two ticks.
SPECIFICATION LiveSpec
CONSTANTS
    Boot = Boot
    OThread = OThread
    Idle = Idle
    User = User
    Workers = {w1}
    Sems = {out}
    OutputSem = out
    NoSem = NoSem
    Destroyed = Destroyed
    InitValues = {}
    Ticks = {0, 2}
    TimeSlice = 2
    MaxInt = 7
    MaxValue = 1
PROPERTY SleepersWake
