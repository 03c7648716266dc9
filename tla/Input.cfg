\* The files of MCInputData: bills of two rows, netlists of four lines, boards
\* of two and three expanders, and boards of two expanders and two relays.
CONSTANTS
    Parts <- SomeParts
    ListLimit = 4
    Netlists <- OpenChains
    MemoryLimit = 4
    Boards <- NoBoards
    Spelling <- Spellings
    AnyInt <- SomeInts
    Inputs <- AllInputs
SPECIFICATION FairInputSpec
INVARIANTS InputTypeOK PartsAreReadBack ShortRowRepeatsLastCell
           NoIdentifierMeansEmptyQuotes OneNetPerRun
           FollowsTheWiring NoneTwice EndsAtTerminator NoReadBeforeFirst
           NumberIsPlaceOnChain RowsNeedATerminator
PROPERTY ClosedBoardsAreConverted
\* The request ends, by a result, an exception or a crash.
CHECK_DEADLOCK FALSE
