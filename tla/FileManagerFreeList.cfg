SPECIFICATION Spec
CONSTANTS
    MaxPage = 3
    MaxFrees = 1
    MaxCrash = 0
PROPERTIES
    AllocTakesFreePages
