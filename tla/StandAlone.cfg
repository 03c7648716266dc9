\* Two expanders in a chain with relays on both, two expanders in any
\* arrangement of their serial pins, and files of at most four lines.
CONSTANTS
    Parts <- NoParts
    ListLimit = 3
    Netlists <- OpenChains
    MemoryLimit = 4
    ToolInputs <- SomeInputs
    ToolSpelling <- Spellings
SPECIFICATION FairToolSpec
INVARIANTS ToolTypeOK ScanFindsTheRelays SameOrderAsTheService
           ClosedMeansOnGround
PROPERTY ToolEnds
\* The tool ends, or goes round its netlist for ever.
CHECK_DEADLOCK FALSE
