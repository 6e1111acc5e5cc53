SPECIFICATION Spec
CONSTANTS
    Text <- MCText
    IOBSize = 2
    Sizes = {1, 3}
INVARIANTS
    TypeOK
    ReadMeaning
    NoClearAfterTLS
    WriteMeaning
