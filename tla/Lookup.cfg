CONSTANTS
    Base = 2
    CodeLen = 2
    MaxZip = 3
    MaxRecords = 5
    MaxText = 4
    Texts <- AllTexts
SPECIFICATION LookupSpec
INVARIANTS
    RangeIsExact
    IInv
    ParseIsExact
    LookupExact
PROPERTIES
    Returns
CHECK_DEADLOCK FALSE
