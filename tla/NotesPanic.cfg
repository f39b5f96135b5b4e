CONSTANTS
    PrefectureCount = 2
    RestartInterval = 2
    MaxZip = 6
    MaxJIS = 2
    MaxPayload = 200
    MaxUint16 = 2
    MaxUint32 = 15
    WordBits = 2
    VarintBase = 4
    MaxVarintLen = 3
    VarintLimit = 32
    Datasets <- DamageDatasets
    Damageable <- DamageDatasets
    DamageKinds = {"corrupted"}
SPECIFICATION Spec
INVARIANTS
    AtNeverPanics
