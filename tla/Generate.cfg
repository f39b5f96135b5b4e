CONSTANTS
    Generators = {"here", "there"}
    Editions = {"july", "august"}
    FileBlocks = 2
SPECIFICATION Spec
INVARIANTS
    OutIsGood
    IInv
PROPERTIES
    OnlySuccessReplaces
