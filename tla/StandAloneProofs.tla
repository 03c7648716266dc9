------------------------ MODULE StandAloneProofs ------------------------
(***************************************************************************)
(* Proofs about StandAlone, for every pair of files: the relays found      *)
(* while the netlist is read, the order of the expanders from its other    *)
(* beginning, and the rows the tool makes of them.                         *)
(***************************************************************************)
EXTENDS StandAlone, ReaderProofs, DeviceOrderProofs

(***************************************************************************)
(* The inductive invariant of the scan.  The flag says whether the net     *)
(* that is read has a relay pin so far; gndData has the keys of the lines  *)
(* read.                                                                   *)
(***************************************************************************)
Scanning == stage \in {"read", "scanThrew"}
AllRead == billAt = "done" /\ linesRead = Len(netlistFile)

GroundKeys(lines) ==
    {KeyOf(Columns(netlistFile[m])) :
        m \in {m \in 1..lines : /\ Columns(netlistFile[m]).name = "GND"
                                /\ IsCoil(Columns(netlistFile[m]))}}
FlagIsRight ==
    IF linesRead = 0 THEN ~ relayConnection
    ELSE relayConnection <=> HasRelayPin(netlistData[loopCounter + 1])
RelaysListed ==
    /\ Scanning => /\ relayConnection \in BOOLEAN /\ FlagIsRight
                   /\ ListsTheRelays(relayList, netlistData, loopCounter)
    /\ ~ Scanning => /\ relayConnection = FALSE
                     /\ ListsTheRelays(relayList, netlistData, Len(netlistData))
ScanInv ==
    /\ BillInv /\ ReaderInv
    /\ stage \in {"read", "order", "written", "failed", "scanThrew", "convertEnded"}
    /\ ~ Scanning => AllRead
    /\ relayList \in Seq(Seq(Line))
    /\ RelaysListed
    /\ gndData = GroundKeys(linesRead)

(***************************************************************************)
(* A line that is added to a net adds a relay pin if it is one.            *)
(***************************************************************************)
LEMMA PinIsAdded ==
  ASSUME NEW net \in Seq(Line), NEW line
  PROVE  HasRelayPin(Append(net, line)) <=> HasRelayPin(net) \/ StopsFilter(line)
<1>1. IsASequence(net)
  BY DEF IsASequence
<1>2. PICK n \in Nat : /\ n = Len(net) /\ DOMAIN net = 1..n
                       /\ DOMAIN Append(net, line) = 1..n + 1
                       /\ \A k \in 1..n : Append(net, line)[k] = net[k]
                       /\ Append(net, line)[n + 1] = line
  BY <1>1, SequenceGrows
<1>3. PICK longer : longer = Append(net, line)
  OBVIOUS
<1>4. \A k \in 1..n + 1 : k \in 1..n \/ k = n + 1
  OBVIOUS
<1>5. n + 1 \in 1..n + 1 /\ \A k \in 1..n : k \in 1..n + 1
  OBVIOUS
<1>6. HasRelayPin(longer) <=> HasRelayPin(net) \/ StopsFilter(line)
  <2>1. ASSUME NEW k \in 1..n + 1, StopsFilter(longer[k])
        PROVE  (\E m \in 1..n : StopsFilter(net[m])) \/ StopsFilter(line)
    BY <1>2, <1>3, <1>4, <2>1
  <2>2. ASSUME NEW k \in 1..n, StopsFilter(net[k])
        PROVE  \E m \in 1..n + 1 : StopsFilter(longer[m])
    BY <1>2, <1>3, <1>5, <2>2
  <2>3. StopsFilter(line) => \E m \in 1..n + 1 : StopsFilter(longer[m])
    BY <1>2, <1>3, <1>5
  <2>4. /\ HasRelayPin(longer) <=> \E m \in 1..n + 1 : StopsFilter(longer[m])
        /\ HasRelayPin(net) <=> \E m \in 1..n : StopsFilter(net[m])
    BY <1>2, <1>3 DEF HasRelayPin, StopsFilter
  <2>5. QED
    BY <2>1, <2>2, <2>3, <2>4
<1>7. QED
  BY <1>3, <1>6

LEMMA NoPinOnNothing == ~ HasRelayPin(<<>>)
BY DEF HasRelayPin

(***************************************************************************)
(* Nets without relay pins add nothing to a list.                          *)
(***************************************************************************)
LEMMA ListStays ==
  ASSUME NEW list, NEW netlist, NEW nets \in Nat, NEW all \in Nat, nets <= all,
         ListsTheRelays(list, netlist, nets),
         \A k \in nets + 1..all : ~ HasRelayPin(netlist[k])
  PROVE  ListsTheRelays(list, netlist, all)
<1>1. PICK place \in [DOMAIN list -> 1..nets] :
         /\ \A n, m \in DOMAIN list : n < m => place[n] < place[m]
         /\ {place[n] : n \in DOMAIN list} = {k \in 1..nets : HasRelayPin(netlist[k])}
         /\ \A n \in DOMAIN list : list[n] = netlist[place[n]]
  BY DEF ListsTheRelays
<1>2. \A k \in 1..all : k \in 1..nets \/ k \in nets + 1..all
  OBVIOUS
<1>3. \A k \in 1..nets : k \in 1..all
  OBVIOUS
<1>4. {k \in 1..nets : HasRelayPin(netlist[k])} = {k \in 1..all : HasRelayPin(netlist[k])}
  BY <1>2, <1>3
<1>5. place \in [DOMAIN list -> 1..all]
  BY <1>1, <1>3
<1>6. QED
  BY <1>1, <1>4, <1>5 DEF ListsTheRelays

(***************************************************************************)
(* The keys of one line more.                                              *)
(***************************************************************************)
LEMMA KeysGrow ==
  ASSUME NEW lines \in Nat
  PROVE  LET line == Columns(netlistFile[lines + 1])
         IN GroundKeys(lines + 1) =
               IF line.name = "GND" /\ IsCoil(line) THEN GroundKeys(lines) \union {KeyOf(line)}
               ELSE GroundKeys(lines)
<1>1. \A m : m \in 1..lines + 1 <=> m \in 1..lines \/ m = lines + 1
  OBVIOUS
<1>2. QED
  BY <1>1 DEF GroundKeys

LEMMA ScanInvInit == ToolInit => ScanInv
<1> SUFFICES ASSUME ToolInit
             PROVE  ScanInv
  OBVIOUS
<1>1. PICK files \in ToolInputs : billFile = files[1] /\ netlistFile = files[2]
  BY DEF ToolInit
<1>2. /\ billFile \in Seq(Seq(STRING)) /\ netlistFile \in Seq(Line)
      /\ LinesAreShort
  BY <1>1, ToolAssumption DEF LinesAreShort
<1>3. BillInv /\ ReaderInv
  BY <1>2, BillInvBegins, ReaderInvBegins DEF ToolInit
<1>4. /\ linesRead = 0 /\ loopCounter = 0 /\ stage = "read" /\ relayConnection = FALSE
      /\ relayList = <<>> /\ gndData = {}
  BY DEF ToolInit, ReaderBegins
<1>5. relayList \in Seq(Seq(Line))
  BY <1>4, EmptySeq
<1>6. ListsTheRelays(relayList, netlistData, loopCounter)
  BY <1>4, EmptyList
<1>7. GroundKeys(0) = {}
  BY DEF GroundKeys
<1>8. QED
  BY <1>3, <1>4, <1>5, <1>6, <1>7 DEF ScanInv, RelaysListed, Scanning, FlagIsRight

(***************************************************************************)
(* A line is scanned: if it begins another net, the net before it is       *)
(* complete, and on the list if it has a relay pin.                        *)
(***************************************************************************)
LEMMA ScanLineInv == ASSUME ScanInv, ScanLine PROVE ScanInv'
<1>1. /\ stage = "read" /\ stage' = "read" /\ billAt = "done" /\ ReadLine
      /\ relayList' = IF NetEnds /\ relayConnection
                      THEN Append(relayList, netlistData[loopCounter + 1]) ELSE relayList
      /\ relayConnection' = (Marked \/ StopsFilter(NextHolder))
      /\ gndData' = IF NextHolder.name = "GND" /\ IsCoil(NextHolder)
                    THEN gndData \union {KeyOf(NextHolder)} ELSE gndData
      /\ UNCHANGED <<billFile, billLines, billAt, holder, temp, billData>>
  BY DEF ScanLine, Reading, billVars
<1>2. /\ linesRead' = linesRead + 1 /\ netlistFile' = netlistFile
      /\ loopCounter' = IF NetEnds THEN loopCounter + 1 ELSE loopCounter
  BY <1>1 DEF ReadLine, NetEnds
<1>3. BillInv' /\ ReaderInv'
  BY <1>1, BillInvStep, ReaderInvStep DEF ScanInv, billVars, ReaderNext
<1>4. /\ linesRead \in Nat /\ loopCounter \in Nat /\ netlistData \in Seq(Seq(Line))
      /\ Len(netlistData) = linesRead
      /\ linesRead = 0 => loopCounter = 0 /\ comparator = SpaceLine
      /\ linesRead # 0 => loopCounter < linesRead
      /\ \A n \in 1..linesRead : netlistData[n] = <<>> <=> n > loopCounter + 1
  <2>1. linesRead \in Nat /\ loopCounter \in Nat /\ netlistData \in Seq(Seq(Line))
    BY LenProperties DEF ScanInv, ReaderInv, ReaderTypeOK
  <2>2. Len(netlistData) = linesRead /\ DOMAIN netlistData = 1..linesRead
    BY <2>1, LenProperties DEF ScanInv, ReaderInv, EveryLineOnce
  <2>3. \A n \in 1..linesRead : netlistData[n] = <<>> <=> n > loopCounter + 1
    BY <2>2 DEF ScanInv, ReaderInv, EveryLineOnce
  <2>4. QED
    BY <2>1, <2>2, <2>3 DEF ScanInv, ReaderInv
<1>5. PICK c, old :
         /\ c = loopCounter' + 1
         /\ old = IF c <= linesRead THEN netlistData[c] ELSE <<>>
         /\ old \in Seq(Line)
         /\ netlistData'[c] = Append(old, NextHolder)
         /\ \A n \in 1..linesRead : n # c => netlistData'[n] = netlistData[n]
  <2>1. NewLine = NextHolder
    BY DEF NewLine, NextHolder
  <2>2. QED
    BY <1>1, <2>1, NetsAfterALine DEF ScanInv
<1>6. /\ Scanning /\ FlagIsRight /\ relayConnection \in BOOLEAN
      /\ ListsTheRelays(relayList, netlistData, loopCounter)
  BY <1>1 DEF ScanInv, RelaysListed, Scanning
<1>7. NetEnds => linesRead # 0
  BY <1>4 DEF NetEnds, StartsNet
<1>8. /\ relayList' \in Seq(Seq(Line))
      /\ ListsTheRelays(relayList', netlistData', loopCounter')
  <2>1. CASE NetEnds
    <3>1. /\ loopCounter' = loopCounter + 1 /\ c = loopCounter + 2
          /\ relayConnection <=> HasRelayPin(netlistData[loopCounter + 1])
          /\ loopCounter + 1 \in 1..linesRead
      BY <1>2, <1>4, <1>5, <1>6, <1>7, <2>1 DEF FlagIsRight
    <3>2. relayList' = IF HasRelayPin(netlistData[loopCounter + 1])
                       THEN Append(relayList, netlistData[loopCounter + 1]) ELSE relayList
      BY <1>1, <2>1, <3>1
    <3>3. relayList \in Seq(Seq(Line)) /\ netlistData[loopCounter + 1] \in Seq(Line)
      BY <1>4, <3>1, ElementOfSeq DEF ScanInv
    <3>4. ListsTheRelays(relayList', netlistData, loopCounter + 1)
      BY <1>4, <1>6, <3>2, <3>3, ListGrows
    <3>5. \A k \in 1..loopCounter + 1 : netlistData'[k] = netlistData[k]
      BY <1>4, <1>5, <3>1
    <3>6. ListsTheRelays(relayList', netlistData', loopCounter + 1)
      <4>1. loopCounter + 1 \in Nat
        BY <1>4
      <4>2. QED
        BY <3>4, <3>5, <4>1, ListOfTheSameNets
    <3>7. QED
      BY <3>1, <3>2, <3>3, <3>6, AppendProperties
  <2>2. CASE ~ NetEnds
    <3>1. loopCounter' = loopCounter /\ c = loopCounter + 1 /\ relayList' = relayList
      BY <1>1, <1>2, <1>5, <2>2
    <3>2. \A k \in 1..loopCounter : netlistData'[k] = netlistData[k]
      BY <1>4, <1>5, <3>1
    <3>3. ListsTheRelays(relayList, netlistData', loopCounter)
      BY <1>4, <1>6, <3>2, ListOfTheSameNets
    <3>4. QED
      BY <3>1, <3>3 DEF ScanInv
  <2>3. QED
    BY <2>1, <2>2
<1>9. relayConnection' <=> HasRelayPin(netlistData'[c])
  <2>1. HasRelayPin(netlistData'[c]) <=> HasRelayPin(old) \/ StopsFilter(NextHolder)
    <3>1. HasRelayPin(Append(old, NextHolder)) <=> HasRelayPin(old) \/ StopsFilter(NextHolder)
      BY <1>5, PinIsAdded, Zenon
    <3>2. QED
      BY <1>5, <3>1
  <2>2. Marked <=> HasRelayPin(old)
    <3>1. CASE linesRead = 0
      <4>1. old = <<>>
        BY <1>2, <1>4, <1>5, <1>7, <3>1
      <4>2. ~ relayConnection
        BY <1>6, <3>1 DEF FlagIsRight
      <4>3. QED
        BY <4>1, <4>2, NoPinOnNothing DEF Marked
    <3>2. CASE linesRead # 0 /\ ~ NetEnds
      <4>1. c = loopCounter + 1 /\ c <= linesRead
        BY <1>2, <1>4, <1>5, <3>2
      <4>2. QED
        BY <1>5, <1>6, <3>2, <4>1 DEF FlagIsRight, Marked
    <3>3. CASE linesRead # 0 /\ NetEnds
      <4>1. c = loopCounter + 2
        BY <1>2, <1>4, <1>5, <3>3
      <4>2. old = <<>>
        <5>1. CASE c <= linesRead
          <6>1. c \in 1..linesRead /\ c > loopCounter + 1
            BY <1>4, <4>1, <5>1
          <6>2. QED
            BY <1>4, <1>5, <5>1, <6>1
        <5>2. CASE ~ (c <= linesRead)
          BY <1>5, <5>2
        <5>3. QED
          BY <5>1, <5>2
      <4>3. QED
        BY <3>3, <4>2, NoPinOnNothing DEF Marked
    <3>4. QED
      BY <3>1, <3>2, <3>3
  <2>3. QED
    BY <1>1, <2>1, <2>2
<1>10. FlagIsRight' /\ relayConnection' \in BOOLEAN
  <2>1. linesRead' # 0
    BY <1>2, <1>4
  <2>2. relayConnection' \in BOOLEAN
    BY <1>1, <1>6 DEF Marked, StopsFilter, IsExpander, AllDigits
  <2>3. QED
    BY <1>5, <1>9, <2>1, <2>2 DEF FlagIsRight
<1>11. gndData' = GroundKeys(linesRead)'
  <2>1. GroundKeys(linesRead)' = GroundKeys(linesRead + 1)
    BY <1>2 DEF GroundKeys
  <2>2. gndData = GroundKeys(linesRead)
    BY DEF ScanInv
  <2>3. QED
    BY <1>1, <1>4, <2>1, <2>2, KeysGrow DEF NextHolder
<1>12. QED
  BY <1>1, <1>3, <1>8, <1>10, <1>11 DEF ScanInv, RelaysListed, Scanning

(***************************************************************************)
(* The last net is the one the flag is about, and the nets behind it are   *)
(* empty.                                                                  *)
(***************************************************************************)
LEMMA LastNetInv == ASSUME ScanInv, LastNet PROVE ScanInv'
<1>1. /\ stage = "read" /\ stage' = "order" /\ billAt = "done" /\ linesRead = Len(netlistFile)
      /\ relayList' = IF relayConnection
                      THEN Append(relayList, netlistData[loopCounter + 1]) ELSE relayList
      /\ relayConnection' = FALSE
      /\ UNCHANGED billVars /\ UNCHANGED readerVars /\ gndData' = gndData
      /\ UNCHANGED <<billAt, linesRead, netlistFile, netlistData, loopCounter>>
  BY DEF LastNet, Reading, billVars, readerVars
<1>2. BillInv' /\ ReaderInv'
  BY <1>1, BillInvStep, ReaderInvStep DEF ScanInv
<1>3. /\ linesRead \in Nat /\ loopCounter \in Nat /\ netlistData \in Seq(Seq(Line))
      /\ Len(netlistData) = linesRead /\ DOMAIN netlistData = 1..linesRead
      /\ linesRead = 0 => loopCounter = 0
      /\ linesRead # 0 => loopCounter < linesRead
  <2>1. linesRead \in Nat /\ loopCounter \in Nat /\ netlistData \in Seq(Seq(Line))
    BY LenProperties DEF ScanInv, ReaderInv, ReaderTypeOK
  <2>2. Len(netlistData) = linesRead /\ DOMAIN netlistData = 1..linesRead
    BY <2>1, LenProperties DEF ScanInv, ReaderInv, EveryLineOnce
  <2>3. QED
    BY <2>1, <2>2 DEF ScanInv, ReaderInv
<1>4. \A n \in 1..linesRead : netlistData[n] = <<>> <=> n > loopCounter + 1
  BY <1>3 DEF ScanInv, ReaderInv, EveryLineOnce
<1>5. /\ FlagIsRight /\ ListsTheRelays(relayList, netlistData, loopCounter)
      /\ relayList \in Seq(Seq(Line))
  BY <1>1 DEF ScanInv, RelaysListed, Scanning
<1>6. relayList' \in Seq(Seq(Line)) /\ ListsTheRelays(relayList', netlistData, linesRead)
  <2>1. CASE linesRead = 0
    <3>1. relayList' = relayList /\ loopCounter = linesRead
      BY <1>1, <1>3, <1>5, <2>1 DEF FlagIsRight
    <3>2. QED
      BY <1>5, <3>1
  <2>2. CASE linesRead # 0
    <3>1. /\ relayConnection <=> HasRelayPin(netlistData[loopCounter + 1])
          /\ loopCounter + 1 \in 1..linesRead
      BY <1>3, <1>5, <2>2 DEF FlagIsRight
    <3>2. relayList' = IF HasRelayPin(netlistData[loopCounter + 1])
                       THEN Append(relayList, netlistData[loopCounter + 1]) ELSE relayList
      BY <1>1, <3>1
    <3>3. netlistData[loopCounter + 1] \in Seq(Line)
      BY <1>3, <3>1, ElementOfSeq
    <3>4. ListsTheRelays(relayList', netlistData, loopCounter + 1)
      BY <1>3, <1>5, <3>2, <3>3, ListGrows
    <3>5. \A k \in (loopCounter + 1) + 1..linesRead : ~ HasRelayPin(netlistData[k])
      <4> SUFFICES ASSUME NEW k \in (loopCounter + 1) + 1..linesRead
                   PROVE  ~ HasRelayPin(netlistData[k])
        OBVIOUS
      <4>1. k \in 1..linesRead /\ k > loopCounter + 1
        BY <1>3
      <4>2. netlistData[k] = <<>>
        BY <1>4, <4>1
      <4>3. QED
        BY <4>2, NoPinOnNothing
    <3>6. ListsTheRelays(relayList', netlistData, linesRead)
      <4>1. loopCounter + 1 \in Nat /\ loopCounter + 1 <= linesRead
        BY <1>3, <2>2
      <4>2. QED
        BY <1>3, <3>4, <3>5, <4>1, ListStays
    <3>7. QED
      BY <1>5, <3>2, <3>3, <3>6, AppendProperties
  <2>3. QED
    BY <2>1, <2>2
<1>7. gndData' = GroundKeys(linesRead)'
  BY <1>1 DEF ScanInv, GroundKeys
<1>8. QED
  BY <1>1, <1>2, <1>3, <1>6, <1>7 DEF ScanInv, RelaysListed, Scanning, AllRead

(***************************************************************************)
(* A step that neither reads a line nor ends the scan.                     *)
(***************************************************************************)
LEMMA ScanStays ==
  ASSUME ScanInv, [BillNext]_billVars, UNCHANGED readerVars,
         UNCHANGED <<relayConnection, relayList, gndData>>,
         Scanning' = Scanning, ~ Scanning => billAt' = billAt,
         stage' \in {"read", "order", "written", "failed", "scanThrew", "convertEnded"}
  PROVE  ScanInv'
<1>1. UNCHANGED <<linesRead, netlistFile, netlistData, loopCounter>>
  BY DEF readerVars
<1>2. BillInv' /\ ReaderInv'
  BY BillInvStep, ReaderInvStep DEF ScanInv
<1>3. RelaysListed'
  BY <1>1 DEF ScanInv, RelaysListed, FlagIsRight
<1>4. gndData' = GroundKeys(linesRead)'
  BY <1>1 DEF ScanInv, GroundKeys
<1>5. ~ Scanning' => AllRead'
  BY <1>1 DEF ScanInv, AllRead
<1>6. QED
  BY <1>2, <1>3, <1>4, <1>5 DEF ScanInv
-------------------------------------------------------------------------
(***************************************************************************)
(* The inductive invariant of the order and of the rows.                   *)
(***************************************************************************)
OrderOfTool ==
    /\ TypedWithRoom
    /\ at = "first" => expanders = 0
    /\ at # "first" => expanders = Len(ioData) /\ ~ Scanning
    /\ at # "first" /\ HasSource(netlistData) /\ SourcesBeginWithDin(netlistData)
          => OrderInv /\ NoneTwice
MadeOf(row, net) == /\ row.driveStrength = ToolStrength(net)
                    /\ row.normalState = ToolState(net)
RowsOfTool ==
    /\ IsASequence(relayData)
    /\ Len(relayData) <= Len(relayList)
    /\ at # "done" => relayData = <<>>
    /\ \A n \in DOMAIN relayData : MadeOf(relayData[n], relayList[n])
ToolInv == ScanInv /\ OrderOfTool /\ RowsOfTool

LEMMA NoRowsOfTool ==
  ASSUME NEW S, NEW list \in Seq(S)
  PROVE  Len(<<>>) <= Len(list) /\ DOMAIN <<>> = {} /\ IsASequence(<<>>)
<1>1. Len(list) \in Nat /\ Len(<<>>) = 0 /\ DOMAIN <<>> = {}
  BY LenProperties
<1>2. IsASequence(<<>>)
  BY EmptySeq DEF IsASequence
<1>3. QED
  BY <1>1, <1>2

LEMMA ToolInvInit == ToolInit => ToolInv
<1> SUFFICES ASSUME ToolInit
             PROVE  ToolInv
  OBVIOUS
<1>1. ScanInv
  BY ScanInvInit
<1>2. /\ at = "first" /\ ioData = <<DefaultIO>> /\ expanders = 0 /\ i = 1 /\ l = 1
      /\ netlistData = <<>> /\ relayList = <<>> /\ relayData = <<>>
  BY DEF ToolInit, OrderBegins, ReaderBegins
<1>3. netlistData \in Seq(Seq(Line)) /\ relayList \in Seq(Seq(Line))
  BY <1>2, EmptySeq
<1>4. ioData \in Seq(IO) /\ Len(ioData) = 1
  BY <1>2, DefaultIOType
<1>5. OrderOfTool
  BY <1>2, <1>3, <1>4 DEF OrderOfTool, TypedWithRoom, OrderTypeOK, RoomForFound
<1>6. RowsOfTool
  BY <1>2, <1>3, NoRowsOfTool DEF RowsOfTool
<1>7. QED
  BY <1>1, <1>5, <1>6 DEF ToolInv

(***************************************************************************)
(* A step that leaves order and rows as they are.                          *)
(***************************************************************************)
LEMMA OrderStays ==
  ASSUME OrderOfTool, UNCHANGED orderVars, ~ Scanning => ~ Scanning'
  PROVE  OrderOfTool'
<1>1. UNCHANGED <<at, netlistData, ioData, expanders, i, l>>
  BY DEF orderVars
<1>2. TypedWithRoom'
  BY <1>1 DEF OrderOfTool, TypedWithRoom, OrderTypeOK, RoomForFound
<1>3. OrderInv /\ NoneTwice => OrderInv' /\ NoneTwice'
  BY <1>1, OrderInvStep DEF NoneTwice, Found
<1>4. QED
  BY <1>1, <1>2, <1>3 DEF OrderOfTool

LEMMA RowsStayMade ==
  ASSUME RowsOfTool, UNCHANGED <<relayData, relayList, gndData, at>>
  PROVE  RowsOfTool'
<1>1. \A row, net : MadeOf(row, net)' <=> MadeOf(row, net)
  BY DEF MadeOf, ToolState
<1>2. QED
  BY <1>1 DEF RowsOfTool

LEMMA ReadBillTool == ASSUME ToolInv, ReadBill PROVE ToolInv'
<1>1. /\ BillNext /\ UNCHANGED readerVars /\ UNCHANGED orderVars
      /\ UNCHANGED <<stage, relayConnection, relayList, gndData, relayData, at>>
  BY DEF ReadBill, toolVars, orderVars
<1>2. billAt # "done"
  BY <1>1 DEF BillNext, GetLine, EndOfFile, CopyCell, Behind, OneIdentifier, OpenList, ListName,
     LastListName, PushThrows, CloseList, PlainDescription, QuotedDescription, StorePart
<1>3. Scanning /\ Scanning'
  BY <1>1, <1>2 DEF ToolInv, ScanInv, AllRead, Scanning
<1>4. stage' \in {"read", "order", "written", "failed", "scanThrew", "convertEnded"}
  BY <1>1 DEF ToolInv, ScanInv
<1>5. ScanInv'
  BY <1>1, <1>3, <1>4, ScanStays DEF ToolInv
<1>6. OrderOfTool' /\ RowsOfTool'
  BY <1>1, <1>3, OrderStays, RowsStayMade DEF ToolInv
<1>7. QED
  BY <1>5, <1>6 DEF ToolInv

LEMMA ScanLineTool == ASSUME ToolInv, ScanLine PROVE ToolInv'
<1>1. /\ stage = "read" /\ stage' = "read"
      /\ UNCHANGED <<at, ioData, expanders, i, l, relayData>>
  BY DEF ScanLine, Reading
<1>2. ScanInv'
  BY ScanLineInv DEF ToolInv
<1>3. at = "first" /\ relayData = <<>>
  BY <1>1 DEF ToolInv, OrderOfTool, Scanning, RowsOfTool
<1>4. netlistData' \in Seq(Seq(Line)) /\ relayList' \in Seq(Seq(Line))
  BY <1>2 DEF ScanInv, ReaderInv, ReaderTypeOK
<1>5. OrderOfTool'
  BY <1>1, <1>3, <1>4 DEF ToolInv, OrderOfTool, TypedWithRoom, OrderTypeOK, RoomForFound
<1>6. RowsOfTool'
  <2>1. Len(relayData') <= Len(relayList') /\ DOMAIN relayData' = {}
        /\ IsASequence(relayData')
    BY <1>1, <1>3, <1>4, NoRowsOfTool
  <2>2. QED
    BY <1>1, <1>3, <2>1 DEF RowsOfTool
<1>7. QED
  BY <1>2, <1>5, <1>6 DEF ToolInv

LEMMA LastNetTool == ASSUME ToolInv, LastNet PROVE ToolInv'
<1>1. stage = "read" /\ stage' = "order" /\ UNCHANGED orderVars /\ UNCHANGED <<at, relayData>>
  BY DEF LastNet, Reading, orderVars
<1>2. ScanInv'
  BY LastNetInv DEF ToolInv
<1>3. at = "first" /\ relayData = <<>>
  BY <1>1 DEF ToolInv, OrderOfTool, Scanning, RowsOfTool
<1>4. OrderOfTool'
  BY <1>1, OrderStays DEF ToolInv, Scanning
<1>5. RowsOfTool'
  <2>1. relayList' \in Seq(Seq(Line))
    BY <1>2 DEF ScanInv
  <2>2. Len(relayData') <= Len(relayList') /\ DOMAIN relayData' = {}
        /\ IsASequence(relayData')
    BY <1>1, <1>3, <2>1, NoRowsOfTool
  <2>3. QED
    BY <1>1, <1>3, <2>2 DEF RowsOfTool
<1>6. QED
  BY <1>2, <1>4, <1>5 DEF ToolInv

(***************************************************************************)
(* A step that only changes the stage.                                     *)
(***************************************************************************)
LEMMA StageChanges ==
  ASSUME ToolInv, UNCHANGED billVars, UNCHANGED readerVars, UNCHANGED orderVars,
         UNCHANGED <<relayConnection, relayList, gndData, relayData>>, Scanning' = Scanning,
         stage' \in {"read", "order", "written", "failed", "scanThrew", "convertEnded"}
  PROVE  ToolInv'
<1>1. UNCHANGED <<billAt, at>>
  BY DEF billVars, orderVars
<1>2. ScanInv'
  BY <1>1, ScanStays DEF ToolInv
<1>3. OrderOfTool' /\ RowsOfTool'
  BY <1>1, OrderStays, RowsStayMade DEF ToolInv
<1>4. QED
  BY <1>2, <1>3 DEF ToolInv

LEMMA ScanTerminatesTool == ASSUME ToolInv, ScanTerminates PROVE ToolInv'
<1>1. /\ UNCHANGED billVars /\ UNCHANGED readerVars /\ UNCHANGED orderVars
      /\ UNCHANGED <<relayConnection, relayList, gndData, relayData>>
      /\ stage = "read" /\ stage' = "scanThrew"
  BY DEF ScanTerminates, Reading
<1>2. Scanning' = Scanning
  BY <1>1 DEF Scanning
<1>3. QED
  BY <1>1, <1>2, StageChanges

(***************************************************************************)
(* Where the first expander of a net is on its DIN, it is the one whose    *)
(* DIN is the first of the net.                                            *)
(***************************************************************************)
LEMMA FirstExpanderIsFirstDin ==
  ASSUME NEW net \in Seq(Line), HasDin(net)
  PROVE  /\ ExpanderLine(net).identifier \in STRING
         /\ IsDin(ExpanderLine(net)) => FirstDin(net) = ExpanderLine(net).identifier
<1> DEFINE T == {j \in DOMAIN net : IsExpander(net[j])}
           least(j) == /\ IsDin(net[j])
                       /\ \A m \in DOMAIN net : IsDin(net[m]) => j <= m
<1>1. T \subseteq Nat /\ T # {}
  BY LenProperties DEF HasDin, IsDin
<1>2. Min(T) \in T /\ \A m \in T : Min(T) <= m
  <2> HIDE DEF T
  <2>1. QED
    BY <1>1, MinIsLeast
<1>3. PICK t \in T : ExpanderLine(net) = net[t] /\ \A m \in T : t <= m
  BY <1>2 DEF ExpanderLine
<1>4. ExpanderLine(net).identifier \in STRING
  <2>1. net[t] \in Line
    BY <1>3, ElementOfSeq
  <2>2. QED
    BY <1>3, <2>1 DEF Line
<1>5. ASSUME IsDin(net[t])
      PROVE  FirstDin(net) = net[t].identifier
  <2>1. t \in DOMAIN net /\ least(t)
    BY <1>3, <1>5 DEF IsDin
  <2>2. \A j \in DOMAIN net : least(j) => j = t
    <3> SUFFICES ASSUME NEW j \in DOMAIN net, least(j)
                 PROVE  j = t
      OBVIOUS
    <3>1. j \in T /\ t \in Nat /\ j \in Nat
      BY <1>1, <1>3 DEF IsDin
    <3>2. t <= j /\ j <= t
      BY <1>3, <1>5, <3>1
    <3>3. QED
      BY <3>1, <3>2
  <2> DEFINE first == CHOOSE j \in DOMAIN net : least(j)
  <2>3. first = t
    <3> HIDE DEF least
    <3>1. first \in DOMAIN net /\ least(first)
      BY <2>1
    <3>2. QED
      BY <2>2, <3>1
  <2>4. FirstDin(net) = net[first].identifier
    BY DEF FirstDin
  <2>5. QED
    BY <2>3, <2>4
<1>6. QED
  BY <1>3, <1>4, <1>5

LEMMA GetFirstDeviceTool == ASSUME ToolInv, GetFirstDevice PROVE ToolInv'
<1> DEFINE sources == {k \in DOMAIN netlistData : IsSource(netlistData[k])}
           first == netlistData[Min(sources)]
<1>1. /\ stage = "order" /\ at = "first" /\ at' = "chain" /\ expanders' = 1
      /\ ioData' = <<IF sources = {} THEN DefaultIO
                     ELSE [identifier |-> ExpanderLine(first).identifier, position |-> 1]>>
      /\ UNCHANGED billVars /\ UNCHANGED readerVars /\ UNCHANGED netlistData
      /\ UNCHANGED <<i, l, stage, relayConnection, relayList, gndData, relayData>>
  BY DEF GetFirstDevice, toolVars, readerVars
<1>2. ~ Scanning /\ ~ Scanning' /\ Scanning' = Scanning
  BY <1>1 DEF Scanning
<1>3. ScanInv'
  <2>1. UNCHANGED billAt
    BY <1>1 DEF billVars
  <2>2. stage' \in {"read", "order", "written", "failed", "scanThrew", "convertEnded"}
    BY <1>1
  <2>3. QED
    BY <1>1, <1>2, <2>1, <2>2, ScanStays DEF ToolInv
<1>4. netlistData \in Seq(Seq(Line)) /\ DOMAIN netlistData \subseteq Nat
  BY LenProperties DEF ToolInv, OrderOfTool, TypedWithRoom, OrderTypeOK
<1>5. ASSUME sources # {}
      PROVE  /\ Min(sources) \in DOMAIN netlistData /\ first \in Seq(Line)
             /\ IsSource(first) /\ IsFirstSource(netlistData, Min(sources))
             /\ ExpanderLine(first).identifier \in STRING
             /\ IsDin(ExpanderLine(first)) =>
                   FirstDin(first) = ExpanderLine(first).identifier
  <2>1. sources \subseteq Nat
    BY <1>4
  <2>2. Min(sources) \in sources /\ \A k \in sources : Min(sources) <= k
    <3> HIDE DEF sources
    <3>1. QED
      BY <1>5, <2>1, MinIsLeast
  <2>3. PICK m \in sources : m = Min(sources) /\ \A k \in sources : m <= k
    BY <2>2
  <2>4. m \in DOMAIN netlistData /\ m \in Nat /\ IsSource(netlistData[m])
    BY <1>4, <2>3
  <2>5. \A k \in 1..m - 1 : ~ IsSource(netlistData[k])
    <3> SUFFICES ASSUME NEW k \in 1..m - 1, IsSource(netlistData[k])
                 PROVE  FALSE
      OBVIOUS
    <3>1. k \in DOMAIN netlistData
      BY <1>4, <2>4, LenProperties
    <3>2. m <= k
      BY <2>3, <3>1
    <3>3. QED
      BY <2>4, <3>2
  <2>6. netlistData[m] \in Seq(Line) /\ HasDin(netlistData[m])
    BY <1>4, <2>4, ElementOfSeq DEF IsSource
  <2>7. QED
    BY <2>3, <2>4, <2>5, <2>6, FirstExpanderIsFirstDin DEF IsFirstSource
<1>6. sources # {} <=> HasSource(netlistData)
  BY DEF HasSource
<1>7. ASSUME NEW m, m = Min(sources) PROVE first = netlistData[m]
  BY <1>7
<1> HIDE DEF sources, first
<1>8. ioData' \in Seq(IO) /\ Len(ioData') = 1
  <2>1. ioData' = <<ioData'[1]>> /\ ioData'[1] \in IO
    BY <1>1, <1>5, DefaultIOType DEF IO
  <2>2. PICK io \in IO : ioData' = <<io>>
    BY <2>1
  <2>3. <<io>> \in Seq(IO) /\ Len(<<io>>) = 1
    OBVIOUS
  <2>4. QED
    BY <2>2, <2>3
<1>9. TypedWithRoom'
  BY <1>1, <1>4, <1>8 DEF ToolInv, OrderOfTool, TypedWithRoom, OrderTypeOK, RoomForFound
<1>10. ASSUME HasSource(netlistData), SourcesBeginWithDin(netlistData)
       PROVE  OrderInv' /\ NoneTwice'
  <2>1. PICK m \in DOMAIN netlistData :
          /\ IsFirstSource(netlistData, m) /\ IsSource(netlistData[m])
          /\ IsDin(ExpanderLine(netlistData[m])) =>
                FirstDin(netlistData[m]) = ExpanderLine(netlistData[m]).identifier
          /\ ioData'[1] = [identifier |-> ExpanderLine(netlistData[m]).identifier,
                           position |-> 1]
    BY <1>1, <1>5, <1>6, <1>7, <1>10
  <2>2. FirstDin(netlistData[m]) = ioData'[1].identifier /\ ioData'[1].position = 1
    BY <1>10, <2>1 DEF SourcesBeginWithDin
  <2>3. Found' = [n \in 1..1 |-> ioData'[n].identifier]
    BY <1>1 DEF Found
  <2>4. FollowsTheWiring'
    <3>1. \A n \in 1..expanders' : n = 1
      BY <1>1
    <3>2. 1..expanders' - 1 = {}
      BY <1>1
    <3>3. Found'[1] = ioData'[1].identifier
      BY <2>3
    <3>4. QED
      BY <1>1, <2>1, <2>2, <3>1, <3>2, <3>3 DEF FollowsTheWiring
  <2>5. OrderInv'
    BY <1>1, <1>9, <2>4 DEF OrderInv, SourcesPassed, FoundFromSource, EndsAtTerminator
  <2>6. IsInjective(Found')
    BY <2>3 DEF IsInjective
  <2>7. QED
    BY <2>5, <2>6 DEF NoneTwice
<1>11. OrderOfTool'
  BY <1>1, <1>2, <1>8, <1>9, <1>10 DEF OrderOfTool
<1>12. RowsOfTool'
  <2>1. relayData = <<>>
    BY <1>1 DEF ToolInv, RowsOfTool
  <2>2. relayList' \in Seq(Seq(Line))
    BY <1>3 DEF ScanInv
  <2>3. Len(relayData') <= Len(relayList') /\ DOMAIN relayData' = {}
        /\ IsASequence(relayData')
    BY <1>1, <2>1, <2>2, NoRowsOfTool
  <2>4. QED
    BY <1>1, <2>1, <2>3 DEF RowsOfTool
<1>13. QED
  BY <1>3, <1>11, <1>12 DEF ToolInv

LEMMA FollowChainTool == ASSUME ToolInv, FollowChain PROVE ToolInv'
<1>1. /\ stage = "order" /\ at = "chain" /\ at' # "first"
      /\ OrderNext /\ UNCHANGED netlistData
      /\ UNCHANGED billVars /\ UNCHANGED readerVars
      /\ UNCHANGED <<stage, relayConnection, relayList, gndData, relayData>>
  BY DEF FollowChain, OrderNext, toolVars, readerVars, Follow, PushBackThrows, LastDevice,
         NextLine, NextNet, NextPass
<1>2. ~ Scanning /\ ~ Scanning' /\ Scanning' = Scanning
  BY <1>1 DEF Scanning
<1>3. ScanInv'
  <2>1. UNCHANGED billAt
    BY <1>1 DEF billVars
  <2>2. stage' \in {"read", "order", "written", "failed", "scanThrew", "convertEnded"}
    BY <1>1
  <2>3. QED
    BY <1>1, <1>2, <2>1, <2>2, ScanStays DEF ToolInv
<1>4. OrderOfTool'
  <2>1. TypedWithRoom'
    BY <1>1, TypedStep DEF ToolInv, OrderOfTool
  <2>2. expanders' = Len(ioData')
    <3>1. TypedWithRoom /\ expanders = Len(ioData)
      BY <1>1 DEF ToolInv, OrderOfTool
    <3>2. Follow \/ UNCHANGED <<ioData, expanders>>
      BY <1>1 DEF FollowChain, PushBackThrows, LastDevice, NextLine, NextNet, NextPass
    <3>3. QED
      BY <3>1, <3>2, FollowStores
  <2>3. OrderInv /\ NoneTwice => OrderInv' /\ NoneTwice'
    BY <1>1, OrderInvStep, NoneTwiceStep
  <2>4. QED
    BY <1>1, <1>2, <2>1, <2>2, <2>3 DEF ToolInv, OrderOfTool
<1>5. RowsOfTool'
  <2>1. relayData = <<>>
    BY <1>1 DEF ToolInv, RowsOfTool
  <2>2. relayList' \in Seq(Seq(Line))
    BY <1>3 DEF ScanInv
  <2>3. Len(relayData') <= Len(relayList') /\ DOMAIN relayData' = {}
        /\ IsASequence(relayData')
    BY <1>1, <2>1, <2>2, NoRowsOfTool
  <2>4. QED
    BY <1>1, <2>1, <2>3 DEF RowsOfTool
<1>6. QED
  BY <1>3, <1>4, <1>5 DEF ToolInv

LEMMA ConvertRelayTool == ASSUME ToolInv, ConvertRelay PROVE ToolInv'
<1> DEFINE net == relayList[Len(relayData) + 1]
<1>1. /\ stage = "order" /\ at = "done" /\ Len(relayData) < Len(relayList)
      /\ relayData' = Append(relayData, ToolRow(net))
      /\ UNCHANGED billVars /\ UNCHANGED readerVars /\ UNCHANGED orderVars
      /\ UNCHANGED <<stage, relayConnection, relayList, gndData>> /\ UNCHANGED <<billAt, at>>
  BY DEF ConvertRelay, Converting, billVars, orderVars
<1>2. ScanInv'
  <2>1. Scanning' = Scanning
    BY <1>1 DEF Scanning
  <2>2. stage' \in {"read", "order", "written", "failed", "scanThrew", "convertEnded"}
    BY <1>1
  <2>3. QED
    BY <1>1, <2>1, <2>2, ScanStays DEF ToolInv
<1>3. OrderOfTool'
  BY <1>1, OrderStays DEF ToolInv, Scanning
<1>4. MadeOf(ToolRow(net), net)
  BY DEF MadeOf, ToolRow
<1>5. \A row, relay : MadeOf(row, relay)' <=> MadeOf(row, relay)
  BY <1>1 DEF MadeOf, ToolState
<1>6. PICK row : row = ToolRow(net)
  OBVIOUS
<1>7. /\ IsASequence(relayData) /\ Len(relayData) <= Len(relayList)
      /\ \A n \in DOMAIN relayData : MadeOf(relayData[n], relayList[n])
  BY DEF ToolInv, RowsOfTool
<1>8. /\ IsASequence(relayData') /\ Len(relayData) \in Nat
      /\ DOMAIN relayData = 1..Len(relayData)
      /\ Len(relayData') = Len(relayData) + 1 /\ DOMAIN relayData' = 1..Len(relayData) + 1
      /\ \A n \in 1..Len(relayData) : relayData'[n] = relayData[n]
      /\ relayData'[Len(relayData) + 1] = row
  BY <1>1, <1>6, <1>7, SequenceGrows
<1>9. Len(relayData') <= Len(relayList')
  <2>1. Len(relayList) \in Nat
    BY LenProperties DEF ToolInv, ScanInv
  <2>2. QED
    BY <1>1, <1>8, <2>1
<1>10. \A n \in DOMAIN relayData' : MadeOf(relayData'[n], relayList[n])
  <2> SUFFICES ASSUME NEW n \in DOMAIN relayData'
               PROVE  MadeOf(relayData'[n], relayList[n])
    OBVIOUS
  <2>1. n \in 1..Len(relayData) \/ n = Len(relayData) + 1
    BY <1>8
  <2>2. QED
    BY <1>4, <1>6, <1>7, <1>8, <2>1
<1>11. RowsOfTool'
  <2>1. \A n \in DOMAIN relayData' : MadeOf(relayData[n], relayList[n])'
    BY <1>1, <1>5, <1>10 DEF MadeOf, ToolState
  <2>2. QED
    BY <1>1, <1>8, <1>9, <2>1 DEF RowsOfTool
<1>12. QED
  BY <1>2, <1>3, <1>11 DEF ToolInv

LEMMA ToolEndsInv ==
  ASSUME ToolInv, ConversionEnds \/ WriteCSV \/ OpenFileFails
  PROVE  ToolInv'
<1>1. /\ UNCHANGED billVars /\ UNCHANGED readerVars /\ UNCHANGED orderVars
      /\ UNCHANGED <<relayConnection, relayList, gndData, relayData>>
      /\ stage = "order" /\ stage' \in {"convertEnded", "written", "failed"}
  BY DEF ConversionEnds, WriteCSV, OpenFileFails, Converting
<1>2. Scanning' = Scanning
  BY <1>1 DEF Scanning
<1>3. stage' \in {"read", "order", "written", "failed", "scanThrew", "convertEnded"}
  BY <1>1
<1>4. QED
  BY <1>1, <1>2, <1>3, StageChanges

LEMMA ToolInvStep == ToolInv /\ [ToolNext]_standAloneVars => ToolInv'
<1> SUFFICES ASSUME ToolInv, [ToolNext]_standAloneVars
             PROVE  ToolInv'
  OBVIOUS
<1>1. CASE ToolNext
  BY <1>1, ReadBillTool, ScanLineTool, ScanTerminatesTool, LastNetTool, GetFirstDeviceTool,
     FollowChainTool, ConvertRelayTool, ToolEndsInv DEF ToolNext
<1>2. CASE UNCHANGED standAloneVars
  <2>1. /\ UNCHANGED billVars /\ UNCHANGED readerVars /\ UNCHANGED orderVars
        /\ UNCHANGED <<relayConnection, relayList, gndData, relayData, stage>>
    BY <1>2 DEF standAloneVars, toolVars
  <2>2. stage' \in {"read", "order", "written", "failed", "scanThrew", "convertEnded"}
    BY <2>1 DEF ToolInv, ScanInv
  <2>3. Scanning' = Scanning
    BY <2>1 DEF Scanning
  <2>4. QED
    BY <2>1, <2>2, <2>3, StageChanges
<1>3. QED
  BY <1>1, <1>2

LEMMA ToolInvariant == ToolSpec => []ToolInv
BY ToolInvInit, ToolInvStep, PTL DEF ToolSpec

(***************************************************************************)
(* The variables of the tool have their types, and gndData only keys of    *)
(* lines of the file.                                                      *)
(***************************************************************************)
THEOREM ToolTypeCorrect == ToolSpec => []ToolTypeOK
<1>1. ToolInv => ToolTypeOK
  <2> SUFFICES ASSUME ToolInv
               PROVE  ToolTypeOK
    OBVIOUS
  <2>1. linesRead \in 0..Len(netlistFile) /\ DOMAIN netlistFile = 1..Len(netlistFile)
    BY LenProperties DEF ToolInv, ScanInv, ReaderInv, ReaderTypeOK
  <2>2. gndData \subseteq {KeyOf(Columns(line)) : line \in ToSet(netlistFile)}
    BY <2>1 DEF ToolInv, ScanInv, GroundKeys, ToSet
  <2>3. BillTypeOK /\ ReaderTypeOK /\ OrderTypeOK
    BY DEF ToolInv, ScanInv, BillInv, ReaderInv, OrderOfTool, TypedWithRoom
  <2>4. QED
    BY <2>2, <2>3 DEF ToolTypeOK, ToolInv, ScanInv, RelaysListed, OrderOfTool, RowsOfTool
<1>2. QED
  BY <1>1, ToolInvariant, PTL

(***************************************************************************)
(* The tool reads its two files as the service does: the lines of the      *)
(* netlist become one net for each run of a name; a well-formed row of the *)
(* bill becomes the part it is about, a row without quotes that of its     *)
(* columns, and a part without an identifier comes of empty quotes.        *)
(***************************************************************************)
THEOREM ToolReadsTheFiles ==
  ToolSpec => [](/\ OneNetPerRun /\ PartsAreReadBack
                 /\ ShortRowRepeatsLastCell /\ NoIdentifierMeansEmptyQuotes)
<1>1. ToolInit => PlainInv /\ BackInv
  BY PlainInvBegins, BackInvBegins DEF ToolInit
<1>2. ToolInv /\ PlainInv /\ BackInv /\ [ToolNext]_standAloneVars => PlainInv' /\ BackInv'
  <2>1. [ToolNext]_standAloneVars => [BillNext]_billVars
    BY DEF standAloneVars, ToolNext, ReadBill, ScanLine, ScanTerminates, LastNet,
           GetFirstDevice, FollowChain, ConvertRelay, ConversionEnds, WriteCSV, OpenFileFails
  <2>2. QED
    BY <2>1, PlainInvStep, BackInvStep DEF ToolInv, ScanInv
<1>3. ToolInv /\ PlainInv /\ BackInv => /\ OneNetPerRun /\ PartsAreReadBack
                                       /\ ShortRowRepeatsLastCell /\ NoIdentifierMeansEmptyQuotes
  BY ReaderInvTellsTheNets, BillInvTellsTheParts, PlainInvTellsTheParts,
     BackInvTellsTheParts DEF ToolInv, ScanInv
<1>4. QED
  BY <1>1, <1>2, <1>3, ToolInvariant, PTL DEF ToolSpec

(***************************************************************************)
(* The relays found while the netlist is read are those of the nets read,  *)
(* in their order.                                                         *)
(***************************************************************************)
THEOREM ScanFindsThem == ToolSpec => []ScanFindsTheRelays
<1>1. ToolInv => ScanFindsTheRelays
  BY DEF ToolInv, ScanInv, RelaysListed, Scanning, ScanFindsTheRelays
<1>2. QED
  BY <1>1, ToolInvariant, PTL

(***************************************************************************)
(* The tool finds the order the service finds, where the first expander on *)
(* a source is on its DIN.                                                 *)
(***************************************************************************)
THEOREM ToolFindsTheOrder == ToolSpec => []SameOrderAsTheService
<1>1. ToolInv => SameOrderAsTheService
  BY DEF ToolInv, OrderOfTool, OrderInv, SameOrderAsTheService
<1>2. QED
  BY <1>1, ToolInvariant, PTL

(***************************************************************************)
(* Every line of a relay is a line of the file, but for its blanks.        *)
(***************************************************************************)
LEMMA LineOfARelay ==
  ASSUME ToolInv, ~ Scanning, NEW n \in DOMAIN relayList, NEW line \in ToSet(relayList[n])
  PROVE  \E other \in ToSet(netlistFile) : line = Columns(other)
<1>1. PICK k \in DOMAIN netlistData : relayList[n] = netlistData[k]
  <2>1. PICK place \in [DOMAIN relayList -> 1..Len(netlistData)] :
           relayList[n] = netlistData[place[n]]
    BY DEF ToolInv, ScanInv, RelaysListed, ListsTheRelays
  <2>2. place[n] \in 1..Len(netlistData)
    BY <2>1
  <2>3. DOMAIN netlistData = 1..Len(netlistData)
    BY LenProperties DEF ToolInv, ScanInv, ReaderInv, ReaderTypeOK
  <2>4. QED
    BY <2>1, <2>2, <2>3
<1>2. PICK j \in DOMAIN netlistData[k] : line = netlistData[k][j]
  BY <1>1 DEF ToSet
<1>3. PICK p \in Places : line = LineAt(p)
  <2>1. <<k, j>> \in Places
    BY PlaceInANet
  <2>2. line = LineAt(<<k, j>>)
    BY <1>2 DEF LineAt
  <2>3. QED
    BY <2>1, <2>2
<1>4. LineAt(p) = Columns(netlistFile[Number(p)])
  BY DEF ToolInv, ScanInv, ReaderInv, EveryLineOnce
<1>5. Number(p) \in DOMAIN netlistFile
  <2>1. Number(p) \in 1..linesRead
    BY NumberOfALine DEF ToolInv, ScanInv
  <2>2. linesRead \in 0..Len(netlistFile) /\ DOMAIN netlistFile = 1..Len(netlistFile)
    BY LenProperties DEF ToolInv, ScanInv, ReaderInv, ReaderTypeOK
  <2>3. QED
    BY <2>1, <2>2, LenProperties DEF ToolInv, ScanInv, ReaderInv, ReaderTypeOK
<1>6. QED
  BY <1>3, <1>4, <1>5 DEF ToSet

(***************************************************************************)
(* A row is normally closed exactly if a coil or contact of its net is on  *)
(* GND somewhere in the file, whatever the order of the lines.             *)
(***************************************************************************)
LEMMA GroundIsNoText == "GND" # NoText
BY DEF NoText

THEOREM ClosedRelaysAreOnGround == ToolSpec => []ClosedMeansOnGround
<1>1. ToolInv => ClosedMeansOnGround
  <2> SUFFICES ASSUME ToolInv, KeysTellParts, NEW n \in DOMAIN relayData
               PROVE  relayData[n].normalState = "RELAY_NC" <=>
                         \E line \in ToSet(relayList[n]), other \in ToSet(netlistFile) :
                            /\ IsCoil(line) /\ other.name = "GND"
                            /\ other.identifier = line.identifier
                            /\ other.device = line.device
    BY DEF ClosedMeansOnGround
  <2>1. ~ Scanning /\ linesRead = Len(netlistFile)
    BY DEF ToolInv, ScanInv, OrderOfTool, RowsOfTool, AllRead
  <2>2. DOMAIN netlistFile = 1..linesRead
    BY <2>1, LenProperties DEF ToolInv, ScanInv, ReaderInv, ReaderTypeOK
  <2>3. n \in DOMAIN relayList
    <3>1. /\ n \in 1..Len(relayData) /\ Len(relayData) \in Nat
          /\ Len(relayData) <= Len(relayList)
      BY LenProperties DEF ToolInv, RowsOfTool, IsASequence
    <3>2. DOMAIN relayList = 1..Len(relayList) /\ Len(relayList) \in Nat
      BY LenProperties DEF ToolInv, ScanInv
    <3>3. QED
      BY <3>1, <3>2
  <2>4. relayData[n].normalState = "RELAY_NC" <=>
           \E line \in ToSet(relayList[n]) : IsCoil(line) /\ KeyOf(line) \in gndData
    BY DEF ToolInv, RowsOfTool, MadeOf, ToolState
  <2>5. \A other \in ToSet(netlistFile) :
           Columns(other).name = "GND" <=> other.name = "GND"
    <3>1. EmptyLine.name = NoText /\ SpaceLine.name = NoText
      BY DEF EmptyLine, SpaceLine
    <3>2. QED
      BY <3>1, GroundIsNoText DEF Columns
  <2>6. \A other : other.name = "GND" => Columns(other) = other
    <3>1. SpaceLine.name = NoText
      BY DEF EmptyLine, SpaceLine
    <3>2. QED
      BY <3>1, GroundIsNoText DEF Columns
  <2>7. \A key : key \in gndData <=>
           \E other \in ToSet(netlistFile) :
              other.name = "GND" /\ IsCoil(other) /\ key = KeyOf(other)
    <3>1. gndData = GroundKeys(linesRead)
      BY DEF ToolInv, ScanInv
    <3>2. QED
      BY <2>2, <2>5, <2>6, <3>1 DEF GroundKeys, ToSet
  <2>8. ASSUME NEW line \in ToSet(relayList[n]), IsCoil(line), KeyOf(line) \in gndData
        PROVE  \E other \in ToSet(netlistFile) :
                  /\ other.name = "GND" /\ other.identifier = line.identifier
                  /\ other.device = line.device
    <3>1. PICK other \in ToSet(netlistFile) :
             other.name = "GND" /\ KeyOf(line) = KeyOf(other)
      BY <2>7, <2>8
    <3>2. PICK mine \in ToSet(netlistFile) : line = Columns(mine)
      BY <2>1, <2>3, LineOfARelay
    <3>3. other = Columns(other)
      BY <2>6, <3>1
    <3>4. KeyOf(Columns(mine)) = KeyOf(Columns(other))
      BY <3>1, <3>2, <3>3
    <3>5. QED
      BY <3>1, <3>2, <3>3, <3>4 DEF KeysTellParts, TellsParts, KeyOf
  <2>9. ASSUME NEW line \in ToSet(relayList[n]), IsCoil(line),
               NEW other \in ToSet(netlistFile), other.name = "GND",
               other.identifier = line.identifier, other.device = line.device
        PROVE  KeyOf(line) \in gndData
    BY <2>7, <2>9 DEF IsCoil, KeyOf
  <2>10. QED
    BY <2>4, <2>8, <2>9
<1>2. QED
  BY <1>1, ToolInvariant, PTL

(***************************************************************************)
(* A file that is written has a row for each relay in the list.            *)
(***************************************************************************)
RowsWritten ==
    stage = "written" => Len(relayData) = Len(relayList) /\ outputFile = relayData
EveryRelayWritten ==
    stage = "written" => /\ outputFile = relayData
                         /\ Len(outputFile) = Cardinality(RelayNets(netlistData))

LEMMA RowsWrittenStep == ToolInv /\ RowsWritten /\ [ToolNext]_standAloneVars => RowsWritten'
<1> SUFFICES ASSUME ToolInv, RowsWritten, [ToolNext]_standAloneVars, stage' = "written"
             PROVE  Len(relayData') = Len(relayList') /\ outputFile' = relayData'
  BY DEF RowsWritten
<1>1. CASE WriteCSV
  BY <1>1 DEF WriteCSV
<1>2. CASE ~ WriteCSV
  <2>1. stage = "written" /\ UNCHANGED <<relayData, relayList, outputFile>>
    BY <1>2 DEF ToolNext, ScanLine, ScanTerminates, LastNet,
       GetFirstDevice, FollowChain, ConvertRelay, ConversionEnds, OpenFileFails, Reading,
       Converting, standAloneVars, toolVars, ReadBill
  <2>2. QED
    BY <2>1 DEF RowsWritten
<1>3. QED
  BY <1>1, <1>2

(***************************************************************************)
(* A CSV file the tool has written has its rows, one for each net of the   *)
(* netlist with a pin a relay can be on.                                   *)
(***************************************************************************)
THEOREM FileHasEveryRelay == ToolSpec => []EveryRelayWritten
<1>1. ToolInit => RowsWritten
  BY DEF ToolInit, RowsWritten
<1>2. ASSUME ToolInv, RowsWritten, stage = "written"
      PROVE  EveryRelayWritten
  <2>1. PICK nets : nets = Len(netlistData)
    OBVIOUS
  <2>2. nets \in Nat /\ DOMAIN netlistData = 1..nets
    BY <1>2, <2>1, LenProperties DEF ToolInv, ScanInv, ReaderInv, ReaderTypeOK
  <2>3. relayList \in Seq(Seq(Line)) /\ ListsTheRelays(relayList, netlistData, nets)
    BY <1>2, <2>1 DEF ToolInv, ScanInv, RelaysListed, Scanning
  <2>4. Cardinality({k \in 1..nets : HasRelayPin(netlistData[k])}) = Len(relayList)
    BY <2>2, <2>3, ListHasAllRelays
  <2>5. QED
    BY <1>2, <2>2, <2>4 DEF RowsWritten, EveryRelayWritten, RelayNets
<1>3. ToolInv /\ RowsWritten => EveryRelayWritten
  BY <1>2 DEF EveryRelayWritten
<1>4. QED
  BY <1>1, <1>3, RowsWrittenStep, ToolInvariant, PTL DEF ToolSpec
=========================================================================
