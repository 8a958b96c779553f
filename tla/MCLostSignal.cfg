\* The output thread with interrupts enabled.
SPECIFICATION Spec
CONSTANTS
    Threads = {t1}
    OThread = OThread
    Chars = {a}
    Nothing = Nothing
    InCap = 2
    OutCap = 4
    SIEs = {TRUE}
INVARIANT OutputIsAccounted
