SPECIFICATION Spec
CONSTANTS
    BUFFER_SIZE = 10
    TABLE_COUNT = 1
    MaxPage = 5
    LeafOrder = 4
    InternalOrder = 4
    Key = {1, 2, 3}
    IntMod = 8
    KeyMod = 32
    MaxRecords = 3
    Sought = {}
PROPERTIES
    DeleteRemovesOnlyItsKey
CHECK_DEADLOCK FALSE
