SPECIFICATION FairSpec
CONSTANTS
    Cap = 4
    Key <- MCKey
INVARIANTS
    TypeOK
    SearchCorrect
    PhantomIsKeyBehind
PROPERTIES
    Terminates
CHECK_DEADLOCK FALSE
