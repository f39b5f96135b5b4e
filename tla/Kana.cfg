CONSTANTS
    MaxText = 4
    Ascii = {"A"}
    Monographs <- SomeMonographs
    Digraphs <- SomeDigraphs
    Digit <- SomeDigits
    Katakana <- SomeKatakana
    Texts <- SomeTexts
SPECIFICATION ConvertSpec
INVARIANTS
    OnlyLongVowelsDiffer
    NothingDiscarded
