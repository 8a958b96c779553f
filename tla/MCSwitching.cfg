\* One application thread from the start and one made later, ticks anywhere.
SPECIFICATION Spec
CONSTANTS
    Boot = Boot
    OThread = OThread
    Apps = {t1, t2}
    Workers = {t2}
    NoThread = NoThread
    NoPlace = NoPlace
    MaxHits = 2
INVARIANT TypeOK
INVARIANT TrapsReturnAsTheyCame
INVARIANT NobodyIsForgotten
INVARIANT CleanStartsStayInUserMode
PROPERTY BreaksOnlyInWindows
