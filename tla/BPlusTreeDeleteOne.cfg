SPECIFICATION Spec
CONSTANTS
    LeafOrder = 4
    InternalOrder = 4
    Key = {1, 2, 3, 4}
    Deletable = {1, 2, 3, 4}
    MaxPage = 7
    IntMod = 16
    KeyMod = 32
    MaxCrash = 0
PROPERTIES
    DeleteRemovesOnlyItsKey
CHECK_DEADLOCK FALSE
