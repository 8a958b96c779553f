\* Two readers, two places in each buffer, an output thread of either kind.
SPECIFICATION Spec
CONSTANTS
    Threads = {t1, t2}
    OThread = OThread
    Chars = {a, b}
    Nothing = Nothing
    InCap = 3
    OutCap = 3
    SIEs = {TRUE, FALSE}
INVARIANT TypeOK
INVARIANT InputIsAccounted
INVARIANT SendsWhatIsThere
PROPERTY BuffersAreFifos
PROPERTY AcceptedOutputIsSent
PROPERTY OutputThreadEnds
PROPERTY EndsUnlessSignalLost
