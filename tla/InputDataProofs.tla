------------------------ MODULE InputDataProofs -------------------------
(***************************************************************************)
(* Proofs about InputData, for every pair of files: the readers, the       *)
(* filter, the order of the expanders and the conversion, one after the    *)
(* other.                                                                  *)
(***************************************************************************)
EXTENDS InputData, ReaderProofs, DeviceOrderProofs, RelayConvertProofs

(***************************************************************************)
(* The inductive invariant: those of the four parts, and what the parts    *)
(* that have not begun yet leave as it was.                                *)
(***************************************************************************)
NothingBegunBefore ==
    ~ NetlistRead => /\ at = "first" /\ i = 1 /\ expanders = 0
                     /\ convertAt = "filter" /\ nextNet = 1
                     /\ relayList = <<>> /\ relayData = <<>>
NoRowsBefore == at # "done" => convertAt \in {"filter", "threw"} /\ relayData = <<>>
DoneAtTerminator ==
    at = "done" => \E n \in DOMAIN netlistData : HasDout(netlistData[n]) /\ ~ HasDin(netlistData[n])
InputInv ==
    /\ BillInv /\ ReaderInv /\ OrderInv /\ NoneTwice /\ ConvertInv
    /\ NothingBegunBefore /\ NoRowsBefore /\ DoneAtTerminator

LEMMA InputInvInit == InputInit => InputInv
<1> SUFFICES ASSUME InputInit
             PROVE  InputInv
  OBVIOUS
<1>1. PICK files \in Inputs : billFile = files[1] /\ netlistFile = files[2]
  BY DEF InputInit
<1>2. /\ billFile \in Seq(Seq(STRING)) /\ netlistFile \in Seq(Line)
      /\ LinesAreShort
  BY <1>1, InputAssumption DEF LinesAreShort
<1>3. BillInv
  BY <1>2, BillInvBegins DEF InputInit
<1>4. ReaderInv
  BY <1>2, ReaderInvBegins DEF InputInit
<1>5. /\ at = "first" /\ ioData = <<DefaultIO>> /\ expanders = 0 /\ i = 1 /\ l = 1
      /\ netlistData = <<>>
  BY DEF InputInit, OrderBegins, ReaderBegins
<1>6. /\ convertAt = "filter" /\ nextNet = 1 /\ relayList = <<>>
      /\ deviceModifier = 0 /\ relayData = <<>>
  BY DEF InputInit, RelayBegins
<1>7. netlistData \in Seq(Seq(Line)) /\ Len(netlistData) = 0
  BY <1>5, EmptySeq
<1>8. ioData \in Seq(IO) /\ Len(ioData) = 1
  BY <1>5, DefaultIOType
<1>9. OrderInv
  BY <1>5, <1>7, <1>8 DEF OrderInv, TypedWithRoom, OrderTypeOK, RoomForFound, SourcesPassed,
                          FoundFromSource, FollowsTheWiring, EndsAtTerminator
<1>10. NoneTwice
  BY <1>5 DEF NoneTwice, Found, IsInjective
<1>11. ConvertInv
  <2>1. << >> \in Seq(Seq(Line)) /\ Len(<< >>) = 0
    BY EmptySeq
  <2>2. Typed /\ IsASequence(relayData)
    BY <1>6, <1>7, <1>8, <2>1 DEF Typed, IsASequence
  <2>3. ListsTheRelays(relayList, netlistData, nextNet - 1)
    BY <1>6, EmptyList
  <2>4. QED
    BY <1>6, <2>2, <2>3, NoRows DEF ConvertInv
<1>12. QED
  BY <1>3, <1>4, <1>5, <1>6, <1>9, <1>10, <1>11
     DEF InputInv, NothingBegunBefore, NoRowsBefore, DoneAtTerminator

(***************************************************************************)
(* The bill is read before anything else is begun.                         *)
(***************************************************************************)
LEMMA GetBillDataInv == ASSUME InputInv, GetBillData PROVE InputInv'
<1>1. /\ BillNext
      /\ UNCHANGED <<netlistFile, linesRead, comparator, netlistData, loopCounter>>
      /\ UNCHANGED <<at, ioData, expanders, i, l>>
      /\ UNCHANGED <<convertAt, nextNet, relayList, deviceModifier, relayData>>
  BY DEF GetBillData, readerVars, orderVars, relayVars
<1>2. billAt # "done"
  BY <1>1 DEF BillNext, GetLine, EndOfFile, CopyCell, Behind, OneIdentifier, OpenList, ListName,
     LastListName, PushThrows, CloseList, PlainDescription, QuotedDescription, StorePart
<1>3. BillInv'
  BY <1>1, BillInvStep DEF InputInv
<1>4. ReaderInv'
  BY <1>1, ReaderInvStep DEF InputInv, readerVars
<1>5. OrderInv' /\ NoneTwice'
  BY <1>1, OrderInvStep DEF InputInv, orderVars, NoneTwice, Found
<1>6. ConvertInv'
  BY <1>1, ConvertInvStep DEF InputInv, convertVars, relayVars
<1>7. NothingBegunBefore' /\ NoRowsBefore' /\ DoneAtTerminator'
  BY <1>1, <1>2 DEF InputInv, NothingBegunBefore, NoRowsBefore, DoneAtTerminator, NetlistRead,
                    BillRead
<1>8. QED
  BY <1>3, <1>4, <1>5, <1>6, <1>7 DEF InputInv

(***************************************************************************)
(* While the netlist is read no net has been looked at.                    *)
(***************************************************************************)
LEMMA GetNetlistDataInv == ASSUME InputInv, GetNetlistData PROVE InputInv'
<1>1. /\ ReadLine /\ UNCHANGED <<billFile, billLines, billAt, holder, temp, billData>>
      /\ UNCHANGED <<at, ioData, expanders, i, l>>
      /\ UNCHANGED <<convertAt, nextNet, relayList, deviceModifier, relayData>>
  BY DEF GetNetlistData, ReaderNext, billVars, relayVars
<1>2. ~ NetlistRead
  <2>1. linesRead < Len(netlistFile) /\ linesRead \in Nat
    BY <1>1 DEF ReadLine, InputInv, ReaderInv, ReaderTypeOK
  <2>2. QED
    BY <2>1 DEF NetlistRead
<1>3. /\ at = "first" /\ i = 1 /\ expanders = 0 /\ convertAt = "filter" /\ nextNet = 1
      /\ relayList = <<>> /\ relayData = <<>>
  BY <1>2 DEF InputInv, NothingBegunBefore
<1>4. BillInv'
  BY <1>1, BillInvStep DEF InputInv, billVars
<1>5. ReaderInv'
  BY <1>1, ReaderInvStep DEF InputInv, ReaderNext
<1>6. netlistData' \in Seq(Seq(Line)) /\ Len(netlistData') \in Nat
  BY <1>5, LenProperties DEF ReaderInv, ReaderTypeOK
<1>7. OrderInv' /\ NoneTwice'
  <2>1. TypedWithRoom'
    BY <1>1, <1>6 DEF InputInv, OrderInv, TypedWithRoom, OrderTypeOK, RoomForFound
  <2>2. OrderInv'
    BY <1>1, <1>3, <2>1 DEF OrderInv, SourcesPassed, FoundFromSource, FollowsTheWiring,
                            EndsAtTerminator
  <2>3. NoneTwice'
    BY <1>1, <1>3 DEF NoneTwice, Found, IsInjective
  <2>4. QED
    BY <2>2, <2>3
<1>8. ConvertInv'
  <2>1. Typed'
    <3>1. nextNet' \in 1..Len(netlistData') + 1
      BY <1>1, <1>3, <1>6
    <3>2. QED
      BY <1>1, <1>6, <3>1 DEF InputInv, ConvertInv, Typed
  <2>2. ListsTheRelays(relayList', netlistData', nextNet' - 1)
    BY <1>1, <1>3, EmptyList
  <2>3. RowsAreConverted'
    BY <1>1, <1>3 DEF RowsAreConverted
  <2>4. QED
    BY <1>1, <1>3, <2>1, <2>2, <2>3 DEF InputInv, ConvertInv, IsASequence
<1>9. NothingBegunBefore' /\ NoRowsBefore' /\ DoneAtTerminator'
  BY <1>1, <1>3 DEF NothingBegunBefore, NoRowsBefore, DoneAtTerminator
<1>10. QED
  BY <1>4, <1>5, <1>7, <1>8, <1>9 DEF InputInv

(***************************************************************************)
(* A step of the filter or of the conversion.                              *)
(***************************************************************************)
LEMMA ConversionInv ==
  ASSUME InputInv, ConvertNext, NetlistRead,
         UNCHANGED <<billVars, readerVars, at, expanders, i, l, ioData>>,
         at # "done" => Filter \/ FilterThrows
  PROVE  InputInv'
<1>1. /\ UNCHANGED billVars /\ UNCHANGED readerVars /\ UNCHANGED orderVars
      /\ UNCHANGED <<billAt, linesRead, netlistFile, netlistData, at>>
  BY DEF billVars, readerVars, orderVars
<1>2. BillInv' /\ ReaderInv' /\ OrderInv' /\ ConvertInv'
  BY <1>1, BillInvStep, ReaderInvStep, OrderInvStep, ConvertInvStep DEF InputInv
<1>3. NoneTwice' /\ DoneAtTerminator'
  BY <1>1 DEF InputInv, NoneTwice, Found, orderVars, DoneAtTerminator
<1>4. NothingBegunBefore'
  BY <1>1 DEF NothingBegunBefore, NetlistRead, BillRead
<1>5. NoRowsBefore'
  BY <1>1 DEF InputInv, NoRowsBefore, Filter, FilterThrows
<1>6. QED
  BY <1>2, <1>3, <1>4, <1>5 DEF InputInv

LEMMA FilterNetlistDataInv == ASSUME InputInv, FilterNetlistData PROVE InputInv'
BY ConversionInv DEF FilterNetlistData, ConvertNext, Filter, FilterThrows

LEMMA ConvertRelaysInv == ASSUME InputInv, ConvertRelays PROVE InputInv'
<1>1. at = "done"
  BY DEF ConvertRelays
<1>2. NetlistRead
  BY <1>1 DEF InputInv, NothingBegunBefore
<1>3. ConvertNext /\ UNCHANGED ioData
  BY DEF ConvertRelays, ConvertNext, BeginConvert, Convert, ConvertThrows, ConvertCrashes,
         EndConvert
<1>4. QED
  BY <1>1, <1>2, <1>3, ConversionInv DEF ConvertRelays

(***************************************************************************)
(* A step of getDeviceOrder: it returns at a terminator.                   *)
(***************************************************************************)
LEMMA GetDeviceOrderInv == ASSUME InputInv, GetDeviceOrder PROVE InputInv'
<1>1. /\ NetlistRead /\ OrderNext /\ UNCHANGED billVars /\ UNCHANGED readerVars
      /\ UNCHANGED <<billAt, linesRead, netlistFile, netlistData>>
      /\ UNCHANGED <<convertAt, nextNet, relayList, deviceModifier, relayData>>
  BY DEF GetDeviceOrder, Filtered, billVars, readerVars, relayVars
<1>2. at # "done"
  BY <1>1 DEF OrderNext, FirstLink, NotFirstLink, NoFirstLink, Follow, PushBackThrows, LastDevice,
     NextLine, Crash, NextNet, NextPass, AtLine
<1>3. relayData = <<>> /\ convertAt \in {"filter", "threw"}
  BY <1>2 DEF InputInv, NoRowsBefore
<1>4. BillInv' /\ ReaderInv' /\ OrderInv'
  BY <1>1, BillInvStep, ReaderInvStep, OrderInvStep DEF InputInv
<1>5. NoneTwice'
  BY <1>1, <1>4, NoneTwiceStep DEF InputInv
<1>6. ConvertInv'
  <2>1. ioData' \in Seq(IO)
    BY <1>4 DEF OrderInv, TypedWithRoom, OrderTypeOK
  <2>2. Typed'
    BY <1>1, <2>1 DEF InputInv, ConvertInv, Typed
  <2>3. RowsAreConverted'
    BY <1>1, <1>3 DEF RowsAreConverted
  <2>4. QED
    BY <1>1, <1>3, <2>2, <2>3 DEF InputInv, ConvertInv, IsASequence
<1>7. NothingBegunBefore' /\ NoRowsBefore'
  BY <1>1, <1>3 DEF NothingBegunBefore, NetlistRead, BillRead, NoRowsBefore
<1>8. DoneAtTerminator'
  <2> SUFFICES ASSUME at' = "done"
               PROVE  \E n \in DOMAIN netlistData : /\ HasDout(netlistData[n])
                                                    /\ ~ HasDin(netlistData[n])
    BY <1>1 DEF DoneAtTerminator
  <2>1. LastDevice
    BY <1>1, <1>2 DEF OrderNext, FirstLink, NotFirstLink, NoFirstLink, Follow, PushBackThrows,
       NextLine, Crash, NextNet, NextPass
  <2>2. /\ i \in DOMAIN netlistData /\ l \in DOMAIN netlistData[i]
    <3>1. /\ netlistData \in Seq(Seq(Line)) /\ i \in Nat \ {0} /\ l \in Nat \ {0}
          /\ i <= Len(netlistData) /\ l <= Len(netlistData[i])
      BY <2>1 DEF LastDevice, AtLine, InputInv, OrderInv, TypedWithRoom, OrderTypeOK
    <3>2. i \in DOMAIN netlistData /\ netlistData[i] \in Seq(Line)
      BY <3>1, LenProperties, ElementOfSeq
    <3>3. QED
      BY <3>1, <3>2, LenProperties
  <2>3. QED
    BY <2>1, <2>2 DEF LastDevice, HasDout
<1>9. QED
  BY <1>4, <1>5, <1>6, <1>7, <1>8 DEF InputInv

LEMMA InputInvStep == InputInv /\ [InputNext]_inputVars => InputInv'
<1> SUFFICES ASSUME InputInv, [InputNext]_inputVars
             PROVE  InputInv'
  OBVIOUS
<1>1. CASE InputNext
  BY <1>1, GetBillDataInv, GetNetlistDataInv, FilterNetlistDataInv, GetDeviceOrderInv,
     ConvertRelaysInv DEF InputNext
<1>2. CASE UNCHANGED inputVars
  <2>1. /\ UNCHANGED billVars /\ UNCHANGED readerVars /\ UNCHANGED orderVars
        /\ UNCHANGED convertVars
        /\ UNCHANGED <<billAt, linesRead, netlistFile, netlistData, ioData>>
        /\ UNCHANGED <<at, expanders, i, convertAt, nextNet, relayList, relayData>>
    BY <1>2 DEF inputVars, billVars, readerVars, orderVars, convertVars, relayVars
  <2>2. BillInv' /\ ReaderInv' /\ OrderInv' /\ ConvertInv'
    BY <2>1, BillInvStep, ReaderInvStep, OrderInvStep, ConvertInvStep DEF InputInv
  <2>3. NoneTwice' /\ NothingBegunBefore' /\ NoRowsBefore' /\ DoneAtTerminator'
    BY <2>1 DEF InputInv, NoneTwice, Found, NothingBegunBefore, NetlistRead, BillRead,
                NoRowsBefore, DoneAtTerminator
  <2>4. QED
    BY <2>2, <2>3 DEF InputInv
<1>3. QED
  BY <1>1, <1>2

LEMMA InputInvariant == InputSpec => []InputInv
BY InputInvInit, InputInvStep, PTL DEF InputSpec
-------------------------------------------------------------------------
(***************************************************************************)
(* The type invariant holds for every pair of files.                       *)
(***************************************************************************)
THEOREM InputTypeCorrect == InputSpec => []InputTypeOK
<1>1. InputInv => InputTypeOK
  BY DEF InputInv, InputTypeOK, BillInv, ReaderInv, OrderInv, TypedWithRoom, ConvertInv, Typed
<1>2. QED
  BY <1>1, InputInvariant, PTL

(***************************************************************************)
(* Every line of the file is in one net, in the order of the file, and two *)
(* lines are in one net if and only if all from the one to the other have  *)
(* one name, as long as no line is a blank.                                *)
(***************************************************************************)
THEOREM NetsAreTheRuns == InputSpec => []OneNetPerRun
<1>1. InputInv => OneNetPerRun
  BY ReaderInvTellsTheNets DEF InputInv
<1>2. QED
  BY <1>1, InputInvariant, PTL

(***************************************************************************)
(* A part without an identifier comes of an empty pair of quotes in the    *)
(* row it is read from, whatever cells the rows have.                      *)
(***************************************************************************)
THEOREM MissingIdentifierIsQuoted == InputSpec => []NoIdentifierMeansEmptyQuotes
<1>1. InputInv => NoIdentifierMeansEmptyQuotes
  BY BillInvTellsTheParts DEF InputInv
<1>2. QED
  BY <1>1, InputInvariant, PTL

(***************************************************************************)
(* A row without quotes becomes the part of its columns, however many      *)
(* cells it has and whatever rows come before it.                          *)
(***************************************************************************)
THEOREM RowsFillTheirColumns == InputSpec => []ShortRowRepeatsLastCell
<1>1. InputInit => PlainInv
  BY PlainInvBegins DEF InputInit
<1>2. InputInv /\ PlainInv /\ [InputNext]_inputVars => PlainInv'
  <2>1. [InputNext]_inputVars => [BillNext]_billVars
    BY DEF inputVars, InputNext, GetBillData, GetNetlistData, FilterNetlistData,
           GetDeviceOrder, ConvertRelays
  <2>2. QED
    BY <2>1, PlainInvStep DEF InputInv
<1>3. InputInv /\ PlainInv => ShortRowRepeatsLastCell
  BY PlainInvTellsTheParts DEF InputInv
<1>4. QED
  BY <1>1, <1>2, <1>3, InputInvariant, PTL DEF InputSpec

(***************************************************************************)
(* Every row of a part becomes one part, and a well-formed row becomes the *)
(* part it is about, cell by cell and name by name, whatever rows come     *)
(* before it.                                                              *)
(***************************************************************************)
THEOREM RowsBecomeTheirParts == InputSpec => []PartsAreReadBack
<1>1. InputInit => BackInv
  BY BackInvBegins DEF InputInit
<1>2. InputInv /\ BackInv /\ [InputNext]_inputVars => BackInv'
  <2>1. [InputNext]_inputVars => [BillNext]_billVars
    BY DEF inputVars, InputNext, GetBillData, GetNetlistData, FilterNetlistData,
           GetDeviceOrder, ConvertRelays
  <2>2. QED
    BY <2>1, BackInvStep DEF InputInv
<1>3. InputInv /\ BackInv => PartsAreReadBack
  BY BackInvTellsTheParts DEF InputInv
<1>4. QED
  BY <1>1, <1>2, <1>3, InputInvariant, PTL DEF InputSpec

(***************************************************************************)
(* Rows are only made of a netlist with an expander at whose DOUT a chain  *)
(* ends.                                                                   *)
(***************************************************************************)
THEOREM NoRowsWithoutTerminator == InputSpec => []RowsNeedATerminator
<1>1. InputInv => RowsNeedATerminator
  BY DEF InputInv, NoRowsBefore, DoneAtTerminator, RowsNeedATerminator
<1>2. QED
  BY <1>1, InputInvariant, PTL
-------------------------------------------------------------------------
(***************************************************************************)
(* Along the wiring of a board that can be built there is one way: one     *)
(* first source, and one expander behind each, or a terminator.            *)
(***************************************************************************)
LEMMA OneFirstSource ==
  ASSUME NEW netlist \in Seq(Seq(Line)), NEW k \in DOMAIN netlist, NEW m \in DOMAIN netlist,
         IsFirstSource(netlist, k), IsFirstSource(netlist, m)
  PROVE  k = m
<1>1. k \in Nat /\ m \in Nat /\ k # 0 /\ m # 0
  BY LenProperties
<1>2. ~ (k < m) /\ ~ (m < k)
  <2>1. k < m => k \in 1..m - 1
    BY <1>1
  <2>2. m < k => m \in 1..k - 1
    BY <1>1
  <2>3. QED
    BY <2>1, <2>2 DEF IsFirstSource
<1>3. QED
  BY <1>1, <1>2

LEMMA DrivesOne ==
  ASSUME NEW netlist, OnePlacePerPin(netlist), NEW x,
         NEW y, NEW z, Drives(netlist, x, y), Drives(netlist, x, z)
  PROVE  y = z
<1>1. PICK k \in DOMAIN netlist :
         /\ \E j \in DOMAIN netlist[k] :
               IsDout(netlist[k][j]) /\ netlist[k][j].identifier = x
         /\ FirstDin(netlist[k]) = y
  BY DEF Drives
<1>2. PICK m \in DOMAIN netlist :
         /\ \E j \in DOMAIN netlist[m] :
               IsDout(netlist[m][j]) /\ netlist[m][j].identifier = x
         /\ FirstDin(netlist[m]) = z
  BY DEF Drives
<1>3. k = m
  BY <1>1, <1>2, OneNetPerDout
<1>4. QED
  BY <1>1, <1>2, <1>3

LEMMA TerminatedDrivesNone ==
  ASSUME NEW netlist, OnePlacePerPin(netlist), NEW x,
         NEW y, Drives(netlist, x, y), Terminated(netlist, x)
  PROVE  FALSE
<1>1. PICK k \in DOMAIN netlist :
         /\ \E j \in DOMAIN netlist[k] :
               IsDout(netlist[k][j]) /\ netlist[k][j].identifier = x
         /\ HasDin(netlist[k])
  BY DEF Drives
<1>2. PICK m \in DOMAIN netlist :
         /\ \E j \in DOMAIN netlist[m] :
               IsDout(netlist[m][j]) /\ netlist[m][j].identifier = x
         /\ ~ HasDin(netlist[m])
  BY DEF Terminated
<1>3. k = m
  BY <1>1, <1>2, OneNetPerDout
<1>4. QED
  BY <1>1, <1>2, <1>3

LEMMA ChainIsAPath ==
  ASSUME NEW netlist, NEW path \in Chains(netlist)
  PROVE  /\ Len(path) \in Nat /\ DOMAIN path = 1..Len(path)
         /\ HasSource(netlist)
         /\ \E k \in DOMAIN netlist : IsFirstSource(netlist, k) /\ FirstDin(netlist[k]) = path[1]
         /\ \A m \in 1..Len(path) - 1 : Drives(netlist, path[m], path[m + 1])
<1> DEFINE X == ExpandersOf(netlist)
<1>1. /\ path \in UNION {[1..n -> X] : n \in 1..Cardinality(X)}
      /\ \E k \in DOMAIN netlist : IsFirstSource(netlist, k) /\ FirstDin(netlist[k]) = path[1]
      /\ \A m \in 1..Len(path) - 1 : Drives(netlist, path[m], path[m + 1])
  BY DEF Chains
<1> HIDE DEF X
<1>2. PICK n \in 1..Cardinality(X) : path \in [1..n -> X]
  BY <1>1
<1>3. n \in Nat
  BY <1>2
<1>4. Len(path) \in Nat /\ DOMAIN path = 1..Len(path)
  <2>1. path \in Seq(X)
    BY <1>2, <1>3, IsASeq
  <2>2. QED
    BY <2>1, LenProperties
<1>5. HasSource(netlist)
  BY <1>1 DEF IsFirstSource, HasSource
<1>6. QED
  BY <1>1, <1>4, <1>5

(***************************************************************************)
(* When getDeviceOrder has returned, its list agrees with every chain of   *)
(* the wiring, and a chain is not longer: the first place where they       *)
(* differ would be fed by two sources, or driven by one expander that      *)
(* drives two.                                                             *)
(***************************************************************************)
LEMMA FoundIsTheChain ==
  ASSUME InputInv, at = "done", WellFormed(netlistData),
         NEW path \in Chains(netlistData), NEW k \in DOMAIN path
  PROVE  k \in 1..expanders /\ Found[k] = path[k]
<1>1. /\ netlistData \in Seq(Seq(Line)) /\ OnePlacePerPin(netlistData)
      /\ expanders \in Nat /\ HasSource(netlistData)
  BY ChainIsAPath DEF InputInv, OrderInv, TypedWithRoom, OrderTypeOK, WellFormed
<1>2. expanders > 0 /\ Terminated(netlistData, Found[expanders])
  BY <1>1 DEF InputInv, OrderInv, EndsAtTerminator
<1>3. k \in Nat /\ k # 0 /\ k \in 1..Len(path) /\ Len(path) \in Nat
  BY ChainIsAPath
<1> DEFINE Agrees(m) == m \in 1..expanders /\ Found[m] = path[m]
           astray == {m \in 1..k : ~ Agrees(m)}
<1>4. Agrees(1)
  <2>1. PICK s \in DOMAIN netlistData : /\ IsFirstSource(netlistData, s)
                                        /\ FirstDin(netlistData[s]) = path[1]
    BY ChainIsAPath
  <2>2. PICK t \in DOMAIN netlistData : /\ IsFirstSource(netlistData, t)
                                        /\ FirstDin(netlistData[t]) = Found[1]
    BY <1>1, <1>2 DEF InputInv, OrderInv, FollowsTheWiring
  <2>3. s = t
    BY <1>1, <2>1, <2>2, OneFirstSource
  <2>4. QED
    BY <1>1, <1>2, <2>1, <2>2, <2>3
<1>5. ASSUME NEW m \in 1..k - 1, Agrees(m)
      PROVE  Agrees(m + 1)
  <2>1. m \in 1..Len(path) - 1 /\ m \in Nat
    BY <1>3
  <2>2. Drives(netlistData, Found[m], path[m + 1])
    BY <1>5, <2>1, ChainIsAPath
  <2>3. m # expanders
    <3>1. ASSUME m = expanders
          PROVE  FALSE
      BY <1>1, <1>2, <2>2, <3>1, TerminatedDrivesNone
    <3>2. QED
      BY <3>1
  <2>4. m \in 1..expanders - 1 /\ m + 1 \in 1..expanders
    BY <1>1, <1>5, <2>1, <2>3
  <2>5. Drives(netlistData, Found[m], Found[m + 1])
    BY <2>4 DEF InputInv, OrderInv, FollowsTheWiring
  <2>6. Found[m + 1] = path[m + 1]
    BY <1>1, <2>2, <2>5, DrivesOne
  <2>7. QED
    BY <2>4, <2>6
<1> HIDE DEF Agrees
<1>6. astray = {}
  <2> SUFFICES ASSUME astray # {}
               PROVE  FALSE
    OBVIOUS
  <2>1. astray \subseteq Nat
    BY <1>3
  <2>2. PICK m \in astray : \A y \in astray : m <= y
    <3> HIDE DEF astray
    <3>1. QED
      BY <2>1, LeastElement
  <2>3. m \in Nat /\ m \in 1..k /\ ~ Agrees(m)
    BY <2>2, <1>3
  <2>4. m # 1
    BY <1>4, <2>3
  <2>5. m - 1 \in 1..k - 1 /\ m - 1 \in 1..k /\ ~ (m <= m - 1) /\ (m - 1) + 1 = m
    BY <1>3, <2>3, <2>4
  <2>6. Agrees(m - 1)
    BY <2>2, <2>5
  <2>7. QED
    BY <1>5, <2>3, <2>5, <2>6
<1>7. Agrees(k)
  BY <1>3, <1>6
<1>8. QED
  BY <1>7 DEF Agrees

(***************************************************************************)
(* The number of a relay is the place of its expander on the chain.        *)
(***************************************************************************)
THEOREM NumbersAreThePlaces == InputSpec => []NumberIsPlaceOnChain
<1>1. InputInv => NumberIsPlaceOnChain
  <2> SUFFICES ASSUME InputInv, GoodBoard(netlistData),
                      NEW path \in Chains(netlistData), NEW n \in DOMAIN relayData,
                      NEW k \in DOMAIN path, path[k] = ExpanderLine(relayList[n]).identifier
               PROVE  relayData[n].deviceNumber = deviceModifier + k
    BY DEF NumberIsPlaceOnChain
  <2> DEFINE here == {m \in DOMAIN ioData :
                         ioData[m].identifier = ExpanderLine(relayList[n]).identifier}
  <2>1. at = "done"
    <3>1. relayData # <<>>
      OBVIOUS
    <3>2. QED
      BY <3>1 DEF InputInv, NoRowsBefore
  <2>2. WellFormed(netlistData) /\ HasSource(netlistData)
    BY ChainIsAPath DEF GoodBoard
  <2>3. k \in 1..expanders /\ Found[k] = path[k]
    BY <2>1, <2>2, FoundIsTheChain
  <2>4. /\ expanders \in Nat /\ expanders <= Len(ioData) /\ Len(ioData) \in Nat
        /\ DOMAIN ioData = 1..Len(ioData)
    BY LenProperties DEF InputInv, OrderInv, TypedWithRoom, OrderTypeOK, RoomForFound
  <2>5. \A m \in 1..expanders : m \in DOMAIN ioData /\ Found[m] = ioData[m].identifier
    BY <2>4 DEF Found
  <2>6. k \in here /\ here \subseteq Nat
    BY <2>3, <2>4, <2>5
  <2>7. PICK m \in here : m = Min(here) /\ m <= k
    <3> HIDE DEF here
    <3>1. QED
      BY <2>6, MinIsLeast
  <2>8. m \in 1..expanders
    BY <2>3, <2>4, <2>7
  <2>9. Found[m] = Found[k]
    BY <2>3, <2>5, <2>7, <2>8
  <2>10. m = k
    <3>1. IsInjective(Found) /\ DOMAIN Found = 1..expanders
      BY <2>2 DEF InputInv, NoneTwice, Found
    <3>2. QED
      BY <2>3, <2>8, <2>9, <3>1 DEF IsInjective
  <2>11. ioData[k].position = k
    BY <2>3 DEF InputInv, OrderInv, FollowsTheWiring
  <2>12. PICK device \in ConvertDevice(relayList[n]) : relayData[n] = Row(relayList[n], device)
    BY RowOfRelay DEF InputInv, Converted
  <2>13. device = k + deviceModifier
    <3>1. ConvertDevice(relayList[n]) = {ioData[Min(here)].position + deviceModifier}
      BY <2>6 DEF ConvertDevice
    <3>2. QED
      BY <2>7, <2>10, <2>11, <2>12, <3>1
  <2>14. deviceModifier \in Int /\ k \in Int
    BY <2>3, <2>4 DEF InputInv, ConvertInv, Typed
  <2>15. relayData[n].deviceNumber = device
    BY <2>12, FieldsOfRow
  <2>16. QED
    BY <2>13, <2>14, <2>15
<1>2. QED
  BY <1>1, InputInvariant, PTL
-------------------------------------------------------------------------
(***************************************************************************)
(* On a board with a first expander every element of ioData is filled in   *)
(* when the second loop begins, and stays so.                              *)
(***************************************************************************)
NoElementEmpty ==
    /\ at = "first" => Len(ioData) = 1
    /\ at # "first" /\ HasSource(netlistData) => Len(ioData) = expanders

LEMMA NoElementEmptyInit == InputInit => NoElementEmpty
BY DEF InputInit, OrderBegins, NoElementEmpty

LEMMA NoElementEmptyStep ==
  InputInv /\ NoElementEmpty /\ [InputNext]_inputVars => NoElementEmpty'
<1> SUFFICES ASSUME InputInv, NoElementEmpty, [InputNext]_inputVars
             PROVE  NoElementEmpty'
  OBVIOUS
<1>1. CASE GetNetlistData
  <2>1. UNCHANGED <<at, ioData>> /\ linesRead < Len(netlistFile)
    BY <1>1 DEF GetNetlistData, ReaderNext, ReadLine
  <2>2. at = "first"
    <3>1. linesRead \in Nat
      BY DEF InputInv, ReaderInv, ReaderTypeOK
    <3>2. ~ NetlistRead
      BY <2>1, <3>1 DEF NetlistRead
    <3>3. QED
      BY <3>2 DEF InputInv, NothingBegunBefore
  <2>3. QED
    BY <2>1, <2>2 DEF NoElementEmpty
<1>2. CASE UNCHANGED <<at, netlistData, ioData, expanders>>
  BY <1>2 DEF NoElementEmpty
<1>3. CASE GetDeviceOrder
  <2>1. OrderNext /\ UNCHANGED netlistData
    BY <1>3 DEF GetDeviceOrder, readerVars
  <2>2. TypedWithRoom
    BY DEF InputInv, OrderInv
  <2>3. CASE FirstLink
    <3>1. at = "first" /\ expanders = 0 /\ at' = "chain"
      BY <2>3 DEF FirstLink, InputInv, OrderInv, SourcesPassed
    <3>2. expanders' = 1
      BY <2>2, <2>3, <3>1, FirstLinkStores
    <3>3. Len(ioData') = Len(ioData)
      <4>1. FirstDin(netlistData[i]) \in STRING
        <5>1. /\ netlistData \in Seq(Seq(Line)) /\ i \in Nat \ {0}
              /\ i <= Len(netlistData) /\ HasDin(netlistData[i])
          BY <2>2, <2>3 DEF FirstLink, IsSource, TypedWithRoom, OrderTypeOK
        <5>2. netlistData[i] \in Seq(Line)
          BY <5>1, LenProperties, ElementOfSeq
        <5>3. QED
          BY <5>1, <5>2, FirstDinIsOnTheNet
      <4>2. /\ ioData \in Seq(IO) /\ expanders \in Nat /\ expanders < Len(ioData)
            /\ Store(ioData, FirstDin(netlistData[i]))
        BY <2>2, <2>3, <3>1 DEF FirstLink, TypedWithRoom, OrderTypeOK, RoomForFound
      <4>3. QED
        BY <4>1, <4>2, StoreType
    <3>4. QED
      BY <3>1, <3>2, <3>3 DEF NoElementEmpty
  <2>4. CASE Follow
    <3>1. at # "first" /\ at' = at
      BY <2>4 DEF Follow, AtLine
    <3>2. expanders' = expanders + 1 /\ Len(ioData') = Len(ioData) + 1
      BY <2>2, <2>4, FollowStores
    <3>3. QED
      BY <2>1, <3>1, <3>2 DEF NoElementEmpty
  <2>5. CASE NoFirstLink
    <3>1. ~ HasSource(netlistData')
      <4>1. \A k \in DOMAIN netlistData : k \in 1..i - 1
        <5>1. /\ netlistData \in Seq(Seq(Line)) /\ i \in Nat \ {0} /\ i > Len(netlistData)
          BY <2>2, <2>5 DEF NoFirstLink, TypedWithRoom, OrderTypeOK
        <5>2. DOMAIN netlistData = 1..Len(netlistData) /\ Len(netlistData) \in Nat
          BY <5>1, LenProperties
        <5>3. QED
          BY <5>1, <5>2
      <4>2. QED
        BY <2>1, <2>5, <4>1 DEF NoFirstLink, InputInv, OrderInv, SourcesPassed, HasSource
    <3>2. at' # "first"
      BY <2>5 DEF NoFirstLink
    <3>3. QED
      BY <3>1, <3>2 DEF NoElementEmpty
  <2>6. CASE NotFirstLink
    BY <2>6 DEF NotFirstLink, NoElementEmpty
  <2>7. CASE PushBackThrows \/ LastDevice \/ NextLine \/ Crash \/ NextNet \/ NextPass
    <3>1. at # "first" /\ at' # "first" /\ UNCHANGED <<netlistData, ioData, expanders>>
      BY <2>7 DEF PushBackThrows, LastDevice, NextLine, Crash, NextNet, NextPass, AtLine
    <3>2. QED
      BY <3>1 DEF NoElementEmpty
  <2>8. QED
    BY <2>1, <2>3, <2>4, <2>5, <2>6, <2>7 DEF OrderNext
<1>4. QED
  <2>1. \/ GetNetlistData \/ GetDeviceOrder
        \/ UNCHANGED <<at, netlistData, ioData, expanders>>
    <3>1. GetBillData => UNCHANGED <<at, netlistData, ioData, expanders>>
      BY DEF GetBillData, readerVars, orderVars
    <3>2. FilterNetlistData => UNCHANGED <<at, netlistData, ioData, expanders>>
      BY DEF FilterNetlistData, readerVars, Filter, FilterThrows
    <3>3. ConvertRelays => UNCHANGED <<at, netlistData, ioData, expanders>>
      BY DEF ConvertRelays, readerVars, BeginConvert, Convert, ConvertThrows, ConvertCrashes,
             EndConvert
    <3>4. UNCHANGED inputVars => UNCHANGED <<at, netlistData, ioData, expanders>>
      BY DEF inputVars, orderVars
    <3>5. QED
      BY <3>1, <3>2, <3>3, <3>4 DEF InputNext
  <2>2. QED
    BY <1>1, <1>2, <1>3, <2>1

(***************************************************************************)
(* On a good board the order has every expander once.                      *)
(***************************************************************************)
LEMMA GoodBoardsAreInOrder ==
  ASSUME InputInv, NoElementEmpty, at = "done", GoodBoard(netlistData)
  PROVE  InOrder
<1>1. PICK path \in Chains(netlistData) : ToSet(path) = ExpandersOf(netlistData)
  BY DEF GoodBoard, ChainOfAll
<1>2. WellFormed(netlistData) /\ HasSource(netlistData)
  BY ChainIsAPath DEF GoodBoard
<1>3. Len(ioData) = expanders
  BY <1>2 DEF NoElementEmpty
<1>4. DOMAIN ioData = 1..expanders /\ expanders \in Nat
  BY <1>3, LenProperties DEF InputInv, OrderInv, TypedWithRoom, OrderTypeOK
<1>5. \A n \in 1..expanders : Found[n] = ioData[n].identifier /\ ioData[n].position = n
  BY DEF Found, InputInv, OrderInv, FollowsTheWiring
<1>6. IsInjective(Found) /\ DOMAIN Found = 1..expanders
  BY <1>2 DEF InputInv, NoneTwice, Found
<1>7. ASSUME NEW n \in DOMAIN ioData, NEW m \in DOMAIN ioData, n # m
      PROVE  ioData[n].identifier # ioData[m].identifier /\ ioData[n].position # ioData[m].position
  BY <1>4, <1>5, <1>6, <1>7 DEF IsInjective
<1>8. ASSUME NEW p \in Places, IsExpander(LineAt(p))
      PROVE  \E n \in DOMAIN ioData : ioData[n].identifier = LineAt(p).identifier
  <2>1. p[1] \in DOMAIN netlistData /\ p[2] \in DOMAIN netlistData[p[1]]
    BY PlaceOfALine DEF InputInv, ReaderInv, ReaderTypeOK
  <2>2. LineAt(p).identifier \in ExpandersOf(netlistData)
    BY <1>8, <2>1 DEF ExpandersOf, LineAt
  <2>3. PICK k \in DOMAIN path : path[k] = LineAt(p).identifier
    BY <1>1, <2>2 DEF ToSet
  <2>4. k \in 1..expanders /\ Found[k] = path[k]
    BY <1>2, FoundIsTheChain
  <2>5. QED
    BY <1>4, <1>5, <2>3, <2>4
<1>9. QED
  BY <1>7, <1>8 DEF InOrder

(***************************************************************************)
(* So the addresses of its relays can be told apart, and are: what the     *)
(* conversion needs of ioData is what reader and getDeviceOrder leave.     *)
(***************************************************************************)
THEOREM GoodBoardsAreAddressed ==
  InputSpec => [](relayData # <<>> /\ GoodBoard(netlistData) => Addressable /\ DistinctAddresses)
<1>1. InputInv /\ NoElementEmpty =>
         (relayData # <<>> /\ GoodBoard(netlistData) => Addressable /\ DistinctAddresses)
  BY GoodBoardsAreInOrder, ConvertInvTellsTheRows
     DEF InputInv, NoRowsBefore, GoodBoard, Addressable
<1>2. QED
  BY <1>1, NoElementEmptyInit, NoElementEmptyStep, InputInvariant, PTL DEF InputSpec
-------------------------------------------------------------------------
(***************************************************************************)
(* What a request comes to, as handleQuery sees it: the steps getInputData *)
(* and relayConvert of QueryService, the rows, an exception, or the end of *)
(* the process.                                                            *)
(***************************************************************************)
Outcome ==
    IF at = "crashed" \/ convertAt = "crashed" THEN "crashed"
    ELSE IF billAt = "threw" \/ at = "threw" \/ convertAt = "threw" THEN "threw"
    ELSE IF convertAt = "done" THEN "rows"
    ELSE IF at = "done" THEN "relayConvert" ELSE "getInputData"
NextOutcomes ==
    [getInputData |-> {"getInputData", "relayConvert", "threw", "crashed"},
     relayConvert |-> {"relayConvert", "rows", "threw", "crashed"},
     rows |-> {}, threw |-> {}, crashed |-> {}]

(***************************************************************************)
(* All nets are filtered before the order is looked for, and all relays    *)
(* have rows when the conversion returns.                                  *)
(***************************************************************************)
OutcomeInv == /\ at # "first" => nextNet > Len(netlistData)
              /\ convertAt = "done" => Len(relayData) = Len(relayList)

LEMMA OutcomeInvBegins == InputInit => OutcomeInv
BY DEF InputInit, OrderBegins, RelayBegins, OutcomeInv

LEMMA OutcomeFacts ==
  ASSUME InputInv
  PROVE  /\ nextNet \in Nat /\ Len(netlistData) \in Nat /\ nextNet <= Len(netlistData) + 1
         /\ at \in {"first", "chain", "done", "threw", "crashed"}
         /\ at # "first" => NetlistRead
         /\ linesRead \in Nat /\ Len(netlistFile) \in Nat
<1>1. nextNet \in 1..Len(netlistData) + 1 /\ netlistData \in Seq(Seq(Line))
  BY DEF InputInv, ConvertInv, Typed
<1>2. Len(netlistData) \in Nat
  BY <1>1, LenProperties
<1>3. at \in {"first", "chain", "done", "threw", "crashed"}
  BY DEF InputInv, OrderInv, TypedWithRoom, OrderTypeOK
<1>4. linesRead \in 0..Len(netlistFile) /\ netlistFile \in Seq(Line)
  BY DEF InputInv, ReaderInv, ReaderTypeOK
<1>5. Len(netlistFile) \in Nat
  BY <1>4, LenProperties
<1>6. QED
  BY <1>1, <1>2, <1>3, <1>4, <1>5 DEF InputInv, NothingBegunBefore

(***************************************************************************)
(* One step of each part.                                                  *)
(***************************************************************************)
OutcomeGoesOn == OutcomeInv' /\ Outcome' \in NextOutcomes[Outcome]

LEMMA WhileReading ==
  ASSUME InputInv, OutcomeInv, GetBillData \/ GetNetlistData
  PROVE  OutcomeGoesOn
<1>1. UNCHANGED <<at, convertAt>>
  BY DEF GetBillData, GetNetlistData, orderVars, relayVars
<1>2. ~ NetlistRead /\ billAt # "threw" /\ (billAt' = "threw" \/ billAt' # "threw")
  <2>1. CASE GetBillData
    BY <2>1 DEF GetBillData, NetlistRead, BillRead, BillNext, GetLine, EndOfFile, CopyCell, Behind,
         OneIdentifier, OpenList, ListName, LastListName, PushThrows, CloseList, PlainDescription,
         QuotedDescription, StorePart
  <2>2. CASE GetNetlistData
    BY <2>2, OutcomeFacts DEF GetNetlistData, ReaderNext, ReadLine, NetlistRead, BillRead
  <2>3. QED
    BY <2>1, <2>2
<1>3. at = "first" /\ convertAt = "filter"
  BY <1>2 DEF InputInv, NothingBegunBefore
<1>4. OutcomeInv'
  BY <1>1, <1>3 DEF OutcomeInv
<1>5. Outcome = "getInputData" /\ Outcome' \in {"getInputData", "threw"}
  BY <1>1, <1>2, <1>3 DEF Outcome
<1>6. QED
  BY <1>4, <1>5 DEF OutcomeGoesOn, NextOutcomes

LEMMA WhileFiltering ==
  ASSUME InputInv, OutcomeInv, FilterNetlistData
  PROVE  OutcomeGoesOn
<1>1. /\ NetlistRead /\ UNCHANGED <<at, billAt, netlistData>>
      /\ convertAt = "filter" /\ convertAt' \in {"filter", "threw"}
      /\ nextNet <= Len(netlistData)
  BY DEF FilterNetlistData, Filter, FilterThrows, billVars
<1>2. at = "first" /\ billAt = "done"
  BY <1>1, OutcomeFacts DEF OutcomeInv, NetlistRead, BillRead
<1>3. OutcomeInv'
  BY <1>1, <1>2 DEF OutcomeInv
<1>4. Outcome = "getInputData" /\ Outcome' \in {"getInputData", "threw"}
  BY <1>1, <1>2 DEF Outcome
<1>5. QED
  BY <1>3, <1>4 DEF OutcomeGoesOn, NextOutcomes

LEMMA WhileOrdering ==
  ASSUME InputInv, OutcomeInv, GetDeviceOrder
  PROVE  OutcomeGoesOn
<1>1. /\ Filtered /\ OrderNext
      /\ UNCHANGED <<billAt, netlistData, convertAt, nextNet>>
  BY DEF GetDeviceOrder, billVars, readerVars, relayVars
<1>2. billAt = "done" /\ convertAt = "filter" /\ nextNet > Len(netlistData)
  BY <1>1 DEF Filtered, NetlistRead, BillRead
<1>3. OutcomeInv'
  BY <1>1, <1>2 DEF OutcomeInv
<1>4. at \in {"first", "chain"} /\ at' \in {"first", "chain", "done", "threw", "crashed"}
  BY <1>1 DEF OrderNext, FirstLink, NotFirstLink, NoFirstLink, Follow, PushBackThrows,
              LastDevice, NextLine, Crash, NextNet, NextPass, AtLine
<1>5. /\ Outcome = "getInputData"
      /\ Outcome' \in {"getInputData", "relayConvert", "threw", "crashed"}
  BY <1>1, <1>2, <1>4 DEF Outcome
<1>6. QED
  BY <1>3, <1>5 DEF OutcomeGoesOn, NextOutcomes

LEMMA WhileConverting ==
  ASSUME InputInv, OutcomeInv, ConvertRelays
  PROVE  OutcomeGoesOn
<1>1. /\ at = "done" /\ UNCHANGED <<billAt, at, netlistData, nextNet, relayList>>
      /\ convertAt \in {"filter", "convert"}
      /\ convertAt' \in {"convert", "threw", "crashed", "done"}
      /\ convertAt' = "done" => Len(relayData) = Len(relayList) /\ relayData' = relayData
  BY DEF ConvertRelays, BeginConvert, Convert, ConvertThrows, ConvertCrashes, EndConvert, AtRelay,
         billVars
<1>2. billAt = "done"
  BY <1>1, OutcomeFacts DEF NetlistRead, BillRead
<1>3. OutcomeInv'
  BY <1>1 DEF OutcomeInv
<1>4. /\ Outcome = "relayConvert"
      /\ Outcome' \in {"relayConvert", "rows", "threw", "crashed"}
  BY <1>1, <1>2 DEF Outcome
<1>5. QED
  BY <1>3, <1>4 DEF OutcomeGoesOn, NextOutcomes

LEMMA OutcomeInvariant == InputSpec => [](InputInv /\ OutcomeInv)
<1>1. InputInv /\ OutcomeInv /\ [InputNext]_inputVars => OutcomeInv'
  <2> SUFFICES ASSUME InputInv, OutcomeInv, [InputNext]_inputVars
               PROVE  OutcomeInv'
    OBVIOUS
  <2>1. CASE InputNext
    BY <2>1, WhileReading, WhileFiltering, WhileOrdering, WhileConverting
       DEF InputNext, OutcomeGoesOn
  <2>2. CASE UNCHANGED inputVars
    <3>1. UNCHANGED <<at, nextNet, netlistData, convertAt, relayData, relayList>>
      BY <2>2 DEF inputVars, readerVars, orderVars, relayVars
    <3>2. QED
      BY <3>1 DEF OutcomeInv
  <2>3. QED
    BY <2>1, <2>2
<1>2. QED
  BY <1>1, OutcomeInvBegins, InputInvariant, PTL DEF InputSpec

(***************************************************************************)
(* A request comes to one end: getInputData returns before relayConvert    *)
(* begins, and after the rows, an exception or a crash nothing goes on.    *)
(* This is what Compute, Fail and Crash of QueryService rely on.           *)
(***************************************************************************)
THEOREM RequestEndsOnce == InputSpec => [][Outcome' \in NextOutcomes[Outcome]]_inputVars
<1>1. InputInv /\ OutcomeInv /\ [InputNext]_inputVars
         => [Outcome' \in NextOutcomes[Outcome]]_inputVars
  BY WhileReading, WhileFiltering, WhileOrdering, WhileConverting DEF InputNext, OutcomeGoesOn
<1>2. QED
  BY <1>1, OutcomeInvariant, PTL DEF InputSpec

(***************************************************************************)
(* A request that gets its rows has one for each net of the file with a    *)
(* pin a relay can be on: none is lost or read twice on the way.           *)
(***************************************************************************)
THEOREM EveryRelayHasARow == InputSpec => [](Outcome = "rows" => AllRowsMade)
<1>1. ASSUME InputInv, OutcomeInv, Outcome = "rows"
      PROVE  AllRowsMade
  <2>1. convertAt = "done"
    BY <1>1 DEF Outcome
  <2>2. at = "done"
    BY <1>1, <2>1 DEF InputInv, NoRowsBefore
  <2>3. PICK nets : nets = Len(netlistData)
    OBVIOUS
  <2>4. nets \in Nat /\ nextNet - 1 = nets
    BY <1>1, <2>2, <2>3, OutcomeFacts DEF OutcomeInv
  <2>5. relayList \in Seq(Seq(Line)) /\ ListsTheRelays(relayList, netlistData, nets)
    BY <1>1, <2>4 DEF InputInv, ConvertInv, Typed
  <2>6. Cardinality({k \in 1..nets : HasRelayPin(netlistData[k])}) = Len(relayList)
    BY <2>4, <2>5, ListHasAllRelays
  <2>7. DOMAIN netlistData = 1..nets
    BY <1>1, <2>3, LenProperties DEF InputInv, ConvertInv, Typed
  <2>8. QED
    BY <1>1, <2>1, <2>6, <2>7 DEF OutcomeInv, AllRowsMade, RelayNets
<1>2. QED
  BY <1>1, OutcomeInvariant, PTL
-------------------------------------------------------------------------
(***************************************************************************)
(* What can be wrong with the files of a request that fails: a quoted list *)
(* with more names than there is memory for; a number that is too large; a *)
(* relay whose name cannot be split, or whose pin is not a number.         *)
(***************************************************************************)
QuoteSeen == \E n \in 1..billLines : Contains(billFile[n], Quote)
ListTooLong == QuoteSeen /\ Len(temp.identifier) >= ListLimit
NumberTooLarge == \E n \in DOMAIN netlistData : Overflows(netlistData[n])
NameUnsplit == \E n \in RelayNets(netlistData) : ~ Splittable(NameOf(netlistData[n]))
PinUnread == \E n \in RelayNets(netlistData) : PortThrows(netlistData[n])

(***************************************************************************)
(* Each part stops for a reason that stays true.                           *)
(***************************************************************************)
CauseInv ==
    /\ billAt = "list" => QuoteSeen
    /\ billAt = "threw" => ListTooLong
    /\ at = "threw" => Len(ioData) >= MemoryLimit
    /\ at = "crashed" => expanders = 0
    /\ convertAt = "threw" => NumberTooLarge \/ PinUnread
    /\ convertAt = "crashed" => NameUnsplit

LEMMA CauseInvBegins == InputInit => CauseInv
BY DEF InputInit, BillBegins, OrderBegins, RelayBegins, CauseInv

LEMMA BillCauses == ASSUME InputInv, CauseInv, GetBillData PROVE CauseInv'
<1>1. /\ BillNext /\ UNCHANGED <<netlistData, ioData, at, expanders, convertAt>>
      /\ UNCHANGED billFile
  BY DEF GetBillData, readerVars, orderVars, relayVars, BillNext, GetLine, EndOfFile, CopyCell,
         OneIdentifier, OpenList, ListName, LastListName, PushThrows, CloseList,
         PlainDescription, QuotedDescription, StorePart
<1>2. /\ at' = "threw" => Len(ioData') >= MemoryLimit
      /\ at' = "crashed" => expanders' = 0
      /\ convertAt' = "threw" => NumberTooLarge' \/ PinUnread'
      /\ convertAt' = "crashed" => NameUnsplit'
  BY <1>1 DEF CauseInv, NumberTooLarge, PinUnread, NameUnsplit
<1>3. (billAt' = "list" => QuoteSeen') /\ (billAt' = "threw" => ListTooLong')
  <2>1. CASE OpenList
    <3>1. billAt = "identifier" /\ First(holder) = Quote /\ billLines' = billLines
          /\ billAt' = "list"
      BY <2>1 DEF OpenList
    <3>2. BillInv /\ ~ BetweenLines
      BY <3>1 DEF InputInv, BetweenLines
    <3>3. PICK k \in 0..Len(CurrentLine) : IsRest(holder, CurrentLine, k)
      BY <3>1, <3>2 DEF BillInv, CellsKnown, BeginsACell
    <3>4. ~ IsPlain(CurrentLine)
      BY <3>1, <3>2, <3>3, BillFacts, NoQuoteInARest
    <3>5. billLines \in 1..billLines
      <4>1. billLines # 0 /\ billLines \in Nat
        BY <3>2, BillFacts DEF BillInv, RowsCounted
      <4>2. QED
        BY <4>1
    <3>6. QED
      BY <1>1, <3>1, <3>4, <3>5 DEF QuoteSeen, IsPlain, CurrentLine
  <2>2. CASE PushThrows
    BY <1>1, <2>2 DEF PushThrows, CauseInv, QuoteSeen, ListTooLong
  <2>3. CASE ListName \/ LastListName
    BY <1>1, <2>3 DEF ListName, LastListName, CauseInv, QuoteSeen
  <2>4. CASE GetLine \/ EndOfFile \/ CopyCell \/ OneIdentifier \/ CloseList
             \/ PlainDescription \/ QuotedDescription \/ StorePart
    BY <2>4 DEF GetLine, EndOfFile, CopyCell, Behind, OneIdentifier, CloseList,
                PlainDescription, QuotedDescription, StorePart
  <2>5. QED
    BY <1>1, <2>1, <2>2, <2>3, <2>4 DEF BillNext
<1>4. QED
  BY <1>2, <1>3 DEF CauseInv

LEMMA NetlistCauses == ASSUME InputInv, CauseInv, GetNetlistData PROVE CauseInv'
<1>1. /\ billAt = "done" /\ ReadLine /\ UNCHANGED <<billAt, at, convertAt>>
  BY DEF GetNetlistData, BillRead, ReaderNext, billVars, relayVars
<1>2. ~ NetlistRead
  BY <1>1, OutcomeFacts DEF ReadLine, NetlistRead
<1>3. at = "first" /\ convertAt = "filter"
  BY <1>2 DEF InputInv, NothingBegunBefore
<1>4. QED
  BY <1>1, <1>3 DEF CauseInv

LEMMA FilterCauses == ASSUME InputInv, CauseInv, FilterNetlistData PROVE CauseInv'
<1>1. /\ UNCHANGED <<billFile, billLines, billAt, temp, netlistData, ioData, at, expanders>>
      /\ Filter \/ FilterThrows
  BY DEF FilterNetlistData, billVars, readerVars, Filter, FilterThrows
<1>2. /\ billAt' = "list" => QuoteSeen'
      /\ billAt' = "threw" => ListTooLong'
      /\ at' = "threw" => Len(ioData') >= MemoryLimit
      /\ at' = "crashed" => expanders' = 0
  BY <1>1 DEF CauseInv, QuoteSeen, ListTooLong
<1>3. /\ convertAt' = "threw" => NumberTooLarge'
      /\ convertAt' # "crashed"
  <2>1. CASE Filter
    BY <2>1 DEF Filter
  <2>2. CASE FilterThrows
    <3>1. nextNet \in DOMAIN netlistData
      <4>1. /\ nextNet \in 1..Len(netlistData) + 1 /\ nextNet <= Len(netlistData)
            /\ netlistData \in Seq(Seq(Line))
        BY <2>2 DEF FilterThrows, InputInv, ConvertInv, Typed
      <4>2. DOMAIN netlistData = 1..Len(netlistData) /\ Len(netlistData) \in Nat
        BY <4>1, LenProperties
      <4>3. QED
        BY <4>1, <4>2
    <3>2. QED
      BY <1>1, <2>2, <3>1 DEF FilterThrows, NumberTooLarge
  <2>3. QED
    BY <1>1, <2>1, <2>2
<1>4. QED
  BY <1>2, <1>3 DEF CauseInv

LEMMA OrderCauses == ASSUME InputInv, CauseInv, GetDeviceOrder PROVE CauseInv'
<1>1. /\ OrderNext /\ at \notin {"threw", "crashed"}
      /\ UNCHANGED <<billFile, billLines, billAt, temp, netlistData, convertAt>>
  BY DEF GetDeviceOrder, billVars, readerVars, relayVars, OrderNext, FirstLink, NotFirstLink,
         NoFirstLink, Follow, PushBackThrows, LastDevice, NextLine, Crash, NextNet, NextPass, AtLine
<1>2. /\ billAt' = "list" => QuoteSeen'
      /\ billAt' = "threw" => ListTooLong'
      /\ convertAt' = "threw" => NumberTooLarge' \/ PinUnread'
      /\ convertAt' = "crashed" => NameUnsplit'
  BY <1>1 DEF CauseInv, QuoteSeen, ListTooLong, NumberTooLarge, PinUnread, NameUnsplit
<1>3. /\ at' = "threw" => Len(ioData') >= MemoryLimit
      /\ at' = "crashed" => expanders' = 0
  BY <1>1 DEF OrderNext, FirstLink, NotFirstLink, NoFirstLink, Follow, PushBackThrows,
         LastDevice, NextLine, Crash, NextNet, NextPass, AtLine
<1>4. QED
  BY <1>2, <1>3 DEF CauseInv

(***************************************************************************)
(* The relay the conversion is at is a net of the file.                    *)
(***************************************************************************)
LEMMA CurrentIsANet ==
  ASSUME InputInv, AtRelay
  PROVE  \E n \in RelayNets(netlistData) : CurrentRelay = netlistData[n]
<1>1. /\ netlistData \in Seq(Seq(Line)) /\ relayList \in Seq(Seq(Line))
      /\ nextNet \in 1..Len(netlistData) + 1
      /\ Len(relayData) < Len(relayList) /\ IsASequence(relayData)
      /\ ListsTheRelays(relayList, netlistData, nextNet - 1)
  BY DEF AtRelay, InputInv, ConvertInv, Typed
<1>2. /\ Len(relayData) \in Nat /\ Len(netlistData) \in Nat /\ Len(relayList) \in Nat
      /\ DOMAIN relayList = 1..Len(relayList) /\ DOMAIN netlistData = 1..Len(netlistData)
  BY <1>1, LenProperties DEF IsASequence
<1>3. Len(relayData) + 1 \in DOMAIN relayList
  BY <1>1, <1>2
<1>4. PICK k \in 1..nextNet - 1 : HasRelayPin(netlistData[k]) /\ CurrentRelay = netlistData[k]
  BY <1>1, <1>3 DEF ListsTheRelays, CurrentRelay
<1>5. k \in DOMAIN netlistData
  BY <1>1, <1>2
<1>6. QED
  BY <1>4, <1>5 DEF RelayNets

LEMMA ConvertCauses == ASSUME InputInv, CauseInv, ConvertRelays PROVE CauseInv'
<1>1. /\ UNCHANGED <<billFile, billLines, billAt, temp, netlistData, ioData, at, expanders>>
      /\ BeginConvert \/ Convert \/ ConvertThrows \/ ConvertCrashes \/ EndConvert
  BY DEF ConvertRelays, billVars, readerVars, BeginConvert, Convert, ConvertThrows,
         ConvertCrashes, EndConvert
<1>2. /\ billAt' = "list" => QuoteSeen'
      /\ billAt' = "threw" => ListTooLong'
      /\ at' = "threw" => Len(ioData') >= MemoryLimit
      /\ at' = "crashed" => expanders' = 0
  BY <1>1 DEF CauseInv, QuoteSeen, ListTooLong
<1>3. /\ convertAt' = "threw" => PinUnread'
      /\ convertAt' = "crashed" => NameUnsplit'
  <2>1. CASE BeginConvert \/ Convert \/ EndConvert
    BY <2>1 DEF BeginConvert, Convert, EndConvert, AtRelay
  <2>2. CASE ConvertThrows
    BY <1>1, <2>2, CurrentIsANet DEF ConvertThrows, PinUnread
  <2>3. CASE ConvertCrashes
    BY <1>1, <2>3, CurrentIsANet DEF ConvertCrashes, NameUnsplit
  <2>4. QED
    BY <1>1, <2>1, <2>2, <2>3
<1>4. QED
  BY <1>2, <1>3 DEF CauseInv

LEMMA CauseInvStep == InputInv /\ CauseInv /\ [InputNext]_inputVars => CauseInv'
<1> SUFFICES ASSUME InputInv, CauseInv, [InputNext]_inputVars
             PROVE  CauseInv'
  OBVIOUS
<1>1. CASE InputNext
  BY <1>1, BillCauses, NetlistCauses, FilterCauses, OrderCauses, ConvertCauses DEF InputNext
<1>2. CASE UNCHANGED inputVars
  <2>1. /\ UNCHANGED <<billFile, billLines, billAt, temp>>
        /\ UNCHANGED <<netlistData, ioData, at, expanders, convertAt>>
    BY <1>2 DEF inputVars, billVars, readerVars, orderVars, relayVars
  <2>2. QED
    BY <2>1 DEF CauseInv, QuoteSeen, ListTooLong, NumberTooLarge, PinUnread, NameUnsplit
<1>3. QED
  BY <1>1, <1>2

(***************************************************************************)
(* On a board that can be built and has a first expander, ioData is never  *)
(* longer than the board has expanders.                                    *)
(***************************************************************************)
LEMMA ExpandersAreFinite ==
  ASSUME Typed
  PROVE  IsFiniteSet(ExpandersOf(netlistData))
<1> DEFINE X == ExpandersOf(netlistData)
           on == {p \in Places : IsExpander(LineAt(p))}
           f == [p \in on |-> LineAt(p).identifier]
<1>1. IsFiniteSet(on)
  BY PlacesAreFinite, FS_Subset
<1>2. \A p \in on : f[p] \in X
  BY DEF Places, LineAt, ExpandersOf
<1>3. ASSUME NEW x \in X
      PROVE  \E p \in on : f[p] = x
  <2>1. PICK n \in DOMAIN netlistData : \E j \in DOMAIN netlistData[n] :
           IsExpander(netlistData[n][j]) /\ netlistData[n][j].identifier = x
    BY DEF ExpandersOf
  <2>j. PICK j \in DOMAIN netlistData[n] :
           IsExpander(netlistData[n][j]) /\ netlistData[n][j].identifier = x
    BY <2>1
  <2>2. <<n, j>> \in on /\ f[<<n, j>>] = x
    BY <2>1, <2>j DEF Places, LineAt
  <2>3. QED
    BY <2>2
<1>4. f \in Surjection(on, X)
  <2>1. f \in [on -> X]
    BY <1>2
  <2> HIDE DEF f, on, X
  <2>2. QED
    BY <1>3, <2>1, Fun_IsSurj
<1>5. QED
  <2> HIDE DEF f, on, X
  <2>1. IsFiniteSet(X)
    BY <1>1, <1>4, FS_Surjection
  <2>2. QED
    BY <2>1 DEF X

LEMMA FoundAreExpanders ==
  ASSUME InputInv, HasSource(netlistData), NEW n \in 1..expanders
  PROVE  Found[n] \in ExpandersOf(netlistData)
<1>1. netlistData \in Seq(Seq(Line)) /\ expanders \in Nat
  BY DEF InputInv, OrderInv, TypedWithRoom, OrderTypeOK
<1>2. PICK k \in DOMAIN netlistData : HasDin(netlistData[k]) /\ FirstDin(netlistData[k]) = Found[n]
  <2>1. CASE n = 1
    BY <1>1, <2>1 DEF InputInv, OrderInv, FollowsTheWiring, IsFirstSource, IsSource
  <2>2. CASE n # 1
    <3>1. n - 1 \in 1..expanders - 1 /\ (n - 1) + 1 = n
      BY <1>1, <2>2
    <3>2. Drives(netlistData, Found[n - 1], Found[n])
      BY <3>1 DEF InputInv, OrderInv, FollowsTheWiring
    <3>3. QED
      BY <3>2 DEF Drives
  <2>3. QED
    BY <2>1, <2>2
<1>3. netlistData[k] \in Seq(Line)
  BY <1>1, LenProperties, ElementOfSeq
<1>4. PICK j \in DOMAIN netlistData[k] : /\ IsDin(netlistData[k][j])
                                         /\ netlistData[k][j].identifier = Found[n]
  BY <1>2, <1>3, FirstDinIsOnTheNet
<1>5. QED
  BY <1>4 DEF ExpandersOf, IsDin

LEMMA OrderFitsTheBoard ==
  ASSUME InputInv, WellFormed(netlistData), HasSource(netlistData)
  PROVE  expanders <= Cardinality(ExpandersOf(netlistData))
<1> DEFINE X == ExpandersOf(netlistData)
           d == 1..expanders
<1>1. expanders \in Nat
  BY DEF InputInv, OrderInv, TypedWithRoom, OrderTypeOK
<1>2. IsFiniteSet(X)
  BY ExpandersAreFinite DEF InputInv, ConvertInv
<1>3. Found \in Injection(d, X)
  <2>1. IsInjective(Found) /\ DOMAIN Found = d
    BY DEF InputInv, NoneTwice, Found
  <2>2. Found \in [d -> X]
    <3>1. \A n \in d : Found[n] \in X
      BY FoundAreExpanders
    <3>2. Found = [n \in d |-> Found[n]]
      BY DEF Found
    <3> HIDE DEF d, X
    <3>3. QED
      BY <3>1, <3>2
  <2>3. QED
    BY <2>1, <2>2 DEF Injection, IsInjective
<1>4. Cardinality(d) = expanders
  <2>1. 1 \in Int /\ expanders \in Int
    BY <1>1
  <2>2. Cardinality(1..expanders) = IF 1 > expanders THEN 0 ELSE expanders - 1 + 1
    BY <2>1, FS_Interval, Zenon
  <2>3. QED
    BY <1>1, <2>2
<1>5. QED
  <2> HIDE DEF d, X
  <2>1. Cardinality(d) <= Cardinality(X)
    BY <1>2, <1>3, FS_Injection
  <2>2. QED
    BY <1>4, <2>1 DEF X

(***************************************************************************)
(* The order that getDeviceOrder is after has no end the memory is enough  *)
(* for: the board cannot be built, none is first, or there are too many.   *)
(***************************************************************************)
OrderUnending == \/ ~ WellFormed(netlistData) \/ ~ HasSource(netlistData)
                 \/ MemoryLimit <= Cardinality(ExpandersOf(netlistData))
FailureHasACause ==
    /\ Outcome = "crashed" => ~ HasSource(netlistData) \/ NameUnsplit
    /\ Outcome = "threw" => ListTooLong \/ NumberTooLarge \/ PinUnread \/ OrderUnending

(***************************************************************************)
(* A request only fails for something in its files.  The process ends with *)
(* it only if no expander is fed from outside or a relay has a name that   *)
(* cannot be split; it is answered with an error only if a quoted list is  *)
(* longer than the memory allows, a number is too large, a relay is on a   *)
(* pin that is not a number, or the order has no end, which on a board     *)
(* that can be built and has a first expander it has before ioData has     *)
(* more elements than there are expanders.                                 *)
(***************************************************************************)
THEOREM FailuresHaveACause == InputSpec => []FailureHasACause
<1>1. ASSUME InputInv, CauseInv, NoElementEmpty
      PROVE  FailureHasACause
  <2>1. ASSUME Outcome = "crashed"
        PROVE  ~ HasSource(netlistData) \/ NameUnsplit
    <3>1. CASE at = "crashed"
      BY <1>1, <3>1 DEF CauseInv, InputInv, OrderInv, FoundFromSource
    <3>2. CASE convertAt = "crashed"
      BY <1>1, <3>2 DEF CauseInv
    <3>3. QED
      BY <2>1, <3>1, <3>2 DEF Outcome
  <2>2. ASSUME Outcome = "threw"
        PROVE  ListTooLong \/ NumberTooLarge \/ PinUnread \/ OrderUnending
    <3>1. CASE billAt = "threw" \/ convertAt = "threw"
      BY <1>1, <3>1 DEF CauseInv
    <3>2. CASE at = "threw"
      <4> SUFFICES ASSUME WellFormed(netlistData), HasSource(netlistData)
                   PROVE  MemoryLimit <= Cardinality(ExpandersOf(netlistData))
        BY DEF OrderUnending
      <4>1. MemoryLimit <= Len(ioData) /\ Len(ioData) = expanders
        BY <1>1, <3>2 DEF CauseInv, NoElementEmpty
      <4>2. expanders <= Cardinality(ExpandersOf(netlistData))
        BY <1>1, OrderFitsTheBoard
      <4>3. /\ expanders \in Nat /\ MemoryLimit \in Nat
            /\ Cardinality(ExpandersOf(netlistData)) \in Nat
        BY <1>1, ExpandersAreFinite, FS_CardinalityType, DeviceOrderAssumption
           DEF InputInv, ConvertInv, OrderInv, TypedWithRoom, OrderTypeOK
      <4>4. QED
        BY <4>1, <4>2, <4>3
    <3>3. QED
      BY <2>2, <3>1, <3>2 DEF Outcome
  <2>3. QED
    BY <2>1, <2>2 DEF FailureHasACause
<1>2. QED
  BY <1>1, CauseInvBegins, CauseInvStep, NoElementEmptyInit, NoElementEmptyStep, InputInvariant,
     PTL DEF InputSpec
=========================================================================
