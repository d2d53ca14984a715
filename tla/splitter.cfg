SPECIFICATION FairSpec
CONSTANTS
    MixedLength = 4
    SpecialLength = 6
    Letter <- MCLetter
    Digit <- MCDigit
    AsciiBlank <- MCAsciiBlank
    Blank <- MCBlank
    Texts <- MCTexts
INVARIANTS
    TypeOK
    NothingLost
    EachIsOneStatement
PROPERTIES
    
    EveryScanEnds
CHECK_DEADLOCK FALSE
