SPECIFICATION Spec
CONSTANTS
    LeafOrder = 4
    InternalOrder = 4
    Key = {1, 2, 3, 4, 5, 6}
    Deletable = {1, 2, 3, 4, 5, 6}
    MaxPage = 8
    IntMod = 16
    KeyMod = 32
    MaxCrash = 0
INVARIANTS
    WellFormed
PROPERTIES
    ImplementsDictionary
CHECK_DEADLOCK FALSE
