CONSTANTS
    gumma = gumma
    hokkaido = hokkaido
    tokyo = tokyo
    Base = 3
    CodeLen = 2
    Records <- MCRecords
    Published <- MCPublished
    Updated <- MCUpdated
    Callers = {"c1", "c2", "c3"}
    Texts <- OneText
    Kanji <- MCKanji
    MaxDepth = 1
    Operations = {"Lookup", "Prefectures", "All"}
SPECIFICATION Spec
INVARIANTS
    MutexHeld
    DecodedOnce
    PublishedComplete
PROPERTIES
    PublishedForGood
    CallsReturn
