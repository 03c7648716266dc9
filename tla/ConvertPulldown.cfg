\* Relays with two resistors, one of them on GND.
CONSTANTS
    Boards <- NormalBoards
    Spelling <- Spellings
    AnyInt <- SomeInts
SPECIFICATION ConvertSpec
INVARIANT AnyPulldownMeansClosed
\* The conversion ends.
CHECK_DEADLOCK FALSE
