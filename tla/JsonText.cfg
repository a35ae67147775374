SPECIFICATION Spec
CONSTANTS
    NULL = NULL
    NestingLimit = 2
    INT_MAX = 40
    default_buffer_size = 4
    Pieces <- MCPieces
    Rare <- MCRare
    Documents <- MCDocuments
    Tails <- MCTails
    Strings <- MCStrings
    MaxPieces = 6
    MaxRarePieces = 3
    MaxFuel = 16
CHECK_DEADLOCK FALSE
INVARIANTS
    TypeOK
    AcceptsTheGrammar
    ReadsWhatIsSaid
    ParseFreesWhatItDrops
    ErrorIsAtTheFault
    PrintedIsParsed
    PrintsWithinItsBuffer
    OneSpareByteIsEnough
    MinifyKeepsTheMeaning
    ComparesMeaning
    GeneratedIsExpected
