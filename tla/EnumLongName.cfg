\* Names of about as many characters as the code of a digit.
CONSTANTS
    Boards <- LongNames
    Spelling <- Spellings
    AnyInt <- SomeInts
SPECIFICATION ConvertSpec
INVARIANT MiddleBecomesCIB
\* The conversion ends.
CHECK_DEADLOCK FALSE
