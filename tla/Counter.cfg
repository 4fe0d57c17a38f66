SPECIFICATION FairSpec
CONSTANTS
    NUM_THREADS = 3
    NUM_INCREMENT = 2
INVARIANTS
    TypeOK
    NothingLost
    ExactWithMutex
    BoundsWithRace
PROPERTIES
    Ends
CHECK_DEADLOCK FALSE
