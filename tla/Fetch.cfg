CONSTANTS
    MaxEdition = 3
    Overrides = {0, 2}
SPECIFICATION Spec
INVARIANTS
    IInv
    ReadsAnEdition
    StampPublished
    NeverClaimsNewer
    StampIsOfData
PROPERTIES
    OfflineRepeats
