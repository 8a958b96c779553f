\* The programs with small numbers in the place of theirs.
SPECIFICATION Spec
CONSTANTS
    P1_BUF_CAP = 2
    P1_NUM_PRODUCERS = 2
    P1_ITEMS_PER_PRODUCER = 2
    P2_NUM_THREADS = 3
    P3_COUNT = 3
    P3_PIPE_CAP = 2
    P4_ROUNDS = 3
    P5_NUM_THREADS = 3
INVARIANT TypeOK
INVARIANT AllTestsPassed
INVARIANT NothingIsUsedAfterClose
INVARIANT BarrierSeparates
PROPERTY RingsAreFifos
PROPERTY ProgramsEnd
