CONSTANTS
    Letters = {"x", "y", "k", "X", "Y", "I"}
    PrefectureCount = 2
    CityCodes = 10
    KanjiWidth = 4
    RomajiWidth = 3
    BadZip = BadZip
    NoSpelling = NoSpelling
    Names <- AllNames
    MaxColumn = 5
    FileGroups <- AllGroups
SPECIFICATION Spec
INVARIANTS
    BuiltIsEncodable
    VerifiedIffConsistent
    
    CleanIsExact
