CONSTANTS
    gumma = gumma
    hokkaido = hokkaido
    tokyo = tokyo
    Base = 3
    CodeLen = 2
    Records <- MCRecords
    Published <- MCPublished
    Updated <- MCUpdated
    Callers = {"c1", "c2"}
    Texts <- MCTexts
    Kanji <- MCKanji
    MaxDepth = 2
    Operations = {"Load", "Lookup", "LookupAll", "Prefectures", "PublishedPrefectureRomaji", "All", "Len", "DataUpdated"}
SPECIFICATION Spec
INVARIANTS
    IInv
    BodiesNeverWait
PROPERTIES
    ImplementsService
