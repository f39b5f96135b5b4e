CONSTANTS
    PrefectureCount = 2
    RestartInterval = 2
    MaxZip = 6
    MaxJIS = 5
    MaxPayload = 200
    MaxUint16 = 2
    MaxUint32 = 15
    WordBits = 2
    VarintBase = 4
    MaxVarintLen = 3
    VarintLimit = 32
    Datasets <- AllDatasets
    Damageable <- DamageDatasets
    DamageKinds = {"header", "stream", "truncated", "extended", "corrupted"}
SPECIFICATION Spec
INVARIANTS
    TypeOK
    IInv
    RoundTrip
    WrittenCodesFit
    TableInterned
    DamageDetected
    ZipsSorted
    CheckedIndices
    NotesReadable
    AllocationsBounded
PROPERTIES
    ErrorIsFinal
    Advances
