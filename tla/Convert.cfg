\* Addresses of relays on two nets with every kind of pin, and normal state
\* and drive of a relay with up to two resistors.
CONSTANTS
    Boards <- AllBoards
    Spelling <- Spellings
    AnyInt <- SomeInts
SPECIFICATION ConvertSpec
INVARIANTS ConvertTypeOK OneRowPerRelayNet RowDrivesTheRelayPin DistinctAddresses
           PulldownMeansClosed DriveFollowsModel EnumerationNamesThePin
\* The conversion ends.
CHECK_DEADLOCK FALSE
