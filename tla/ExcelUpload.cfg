SPECIFICATION ExcelSpec
CONSTANTS
    x1 = x1
    x2 = x2
    x3 = x3
    s1 = s1
    s2 = s2
    Invalid = Invalid
    Limit = 3
    MaxDevices = 4
    MaxLogs = 7
    Cells <- MCCells
    StoreOf <- MCStoreOf
    MaxRows = 5
CHECK_DEADLOCK FALSE
INVARIANTS
    CutAsReference
    NothingLeftOut
    EveryRowOnce
PROPERTIES
    ExcelReturns
