SPECIFICATION Spec
CONSTANTS
    Keys <- MCKeys
    Hash <- MCHash
    IntMax = 7
    ArraySizes = {0, 3}
    HashSizes = {0, 3}
PROPERTIES
    KeepsValues
    EachOnce
