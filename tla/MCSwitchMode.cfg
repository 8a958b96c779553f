\* One application thread suffices to see it run in supervisor mode.
SPECIFICATION Spec
CONSTANTS
    Boot = Boot
    OThread = OThread
    Apps = {t1, t2}
    Workers = {t2}
    NoThread = NoThread
    NoPlace = NoPlace
    MaxHits = 1
INVARIANT ApplicationInUserMode
