----------------------- MODULE RelayConvertProofs -----------------------
(***************************************************************************)
(* Proofs about RelayConvert, for every board: netlists and lists of       *)
(* expanders of any size, that fit each other or do not.                   *)
(***************************************************************************)
EXTENDS RelayConvert, RelayTablesProofs, FunctionTheorems

(***************************************************************************)
(* The inductive invariant: the list is that of the nets that were         *)
(* filtered, and a row is what the conversion made of its relay, whose     *)
(* name could be split and whose pin could be read.                        *)
(***************************************************************************)
Typed == /\ convertAt \in {"filter", "convert", "done", "threw", "crashed"}
         /\ netlistData \in Seq(Seq(Line))
         /\ ioData \in Seq(IO)
         /\ nextNet \in 1..Len(netlistData) + 1
         /\ relayList \in Seq(Seq(Line))
         /\ deviceModifier \in {0, 18, 21}
         /\ Len(relayData) <= Len(relayList)
Converted(row, net) == /\ Splittable(NameOf(net))
                       /\ ~ PortThrows(net)
                       /\ \E device \in ConvertDevice(net) : row = Row(net, device)
RowsAreConverted ==
    \A n \in DOMAIN relayData :
       \E row \in {relayData[n]}, net \in {relayList[n]} : Converted(row, net)
ConvertInv == /\ Typed
              /\ IsASequence(relayData)
              /\ ListsTheRelays(relayList, netlistData, nextNet - 1)
              /\ RowsAreConverted
              /\ convertAt = "filter" => relayData = <<>>

(***************************************************************************)
(* A row stays what it is as long as the board and the modifier do.        *)
(***************************************************************************)
LEMMA ConvertedStays ==
  ASSUME UNCHANGED <<netlistData, ioData, deviceModifier>>,
         NEW CONSTANT row, NEW CONSTANT net
  PROVE  Converted(row, net)' <=> Converted(row, net)
<1>1. Places' = Places /\ \A p : LineAt(p)' = LineAt(p)
  BY DEF Places, LineAt
<1>2. \A x : Ends(x)' = Ends(x)
  BY <1>1 DEF Ends
<1>3. \A x : Grounded(x)' <=> Grounded(x)
  BY <1>1, <1>2 DEF Grounded
<1>4. ConvertNormalState(net)' = ConvertNormalState(net)
  BY <1>3 DEF ConvertNormalState
<1>5. \A device : Row(net, device)' = Row(net, device)
  BY <1>4 DEF Row
<1>6. ConvertDevice(net)' = ConvertDevice(net)
  BY DEF ConvertDevice
<1>7. QED
  BY <1>5, <1>6 DEF Converted

LEMMA RowsStay ==
  ASSUME RowsAreConverted,
         UNCHANGED <<netlistData, ioData, deviceModifier, relayList, relayData>>
  PROVE  RowsAreConverted'
<1>1. ASSUME NEW n \in DOMAIN relayData
      PROVE  \E row \in {relayData[n]}, net \in {relayList[n]} : Converted(row, net)'
  BY ConvertedStays DEF RowsAreConverted
<1>2. QED
  BY <1>1 DEF RowsAreConverted

LEMMA NoRows == ASSUME relayData = <<>> PROVE RowsAreConverted
BY DEF RowsAreConverted
-------------------------------------------------------------------------
(***************************************************************************)
(* The filter takes a net for a relay if it has a pin a relay can be on,   *)
(* and does not stop at a number that is too large.                        *)
(***************************************************************************)
LEMMA FilterTakesRelays ==
  ASSUME NEW net \in Seq(Line), ~ Overflows(net)
  PROVE  IsRelay(net) <=> HasRelayPin(net)
<1> DEFINE T == {j \in DOMAIN net : StopsFilter(net[j])}
<1>1. IsRelay(net) => HasRelayPin(net)
  BY DEF IsRelay, FilterStop, StopsFilter, HasRelayPin
<1>2. ASSUME HasRelayPin(net)
      PROVE  IsRelay(net)
  <2>1. T \subseteq Nat /\ T # {} /\ DOMAIN net = 1..Len(net) /\ Len(net) \in Nat
    BY <1>2, LenProperties DEF HasRelayPin, StopsFilter
  <2>2. PICK j \in T : \A m \in T : j <= m
    <3> HIDE DEF T
    <3>1. QED
      BY <2>1, LeastElement
  <2>3. j \in FilterStop(net)
    <3>1. \A m \in 1..j - 1 : m \in DOMAIN net /\ m < j
      BY <2>1
    <3>2. QED
      BY <2>2, <3>1 DEF FilterStop
  <2>4. QED
    BY <2>3 DEF IsRelay, Overflows
<1>3. QED
  BY <1>1, <1>2

LEMMA ConvertInvInit == ConvertInit => ConvertInv
<1> SUFFICES ASSUME ConvertInit
             PROVE  ConvertInv
  OBVIOUS
<1>1. netlistData \in Seq(Seq(Line)) /\ ioData \in Seq(IO)
  BY ConvertAssumption DEF ConvertInit
<1>2. /\ convertAt = "filter" /\ nextNet = 1 /\ relayList = <<>>
      /\ deviceModifier = 0 /\ relayData = <<>>
  BY DEF ConvertInit, RelayBegins
<1>3. Len(netlistData) \in Nat
  BY <1>1, LenProperties
<1>4. << >> \in Seq(Seq(Line)) /\ Len(<< >>) = 0
  BY EmptySeq
<1>5. Typed /\ IsASequence(relayData)
  BY <1>1, <1>2, <1>3, <1>4 DEF Typed, IsASequence
<1>6. ListsTheRelays(relayList, netlistData, nextNet - 1)
  BY <1>2, EmptyList
<1>7. QED
  BY <1>2, <1>5, <1>6, NoRows DEF ConvertInv

LEMMA FilterStep == ASSUME ConvertInv, Filter PROVE ConvertInv'
<1> DEFINE net == netlistData[nextNet]
<1>1. /\ nextNet \in Nat \ {0} /\ Len(netlistData) \in Nat
      /\ nextNet \in 1..Len(netlistData)
      /\ relayList \in Seq(Seq(Line))
      /\ netlistData \in Seq(Seq(Line))
  BY LenProperties DEF ConvertInv, Typed, Filter
<1>2. net \in Seq(Line)
  BY <1>1, ElementOfSeq
<1>3. relayList' = IF HasRelayPin(net) THEN Append(relayList, net) ELSE relayList
  BY <1>2, FilterTakesRelays DEF Filter
<1>4. /\ relayList' \in Seq(Seq(Line)) /\ Len(relayList') \in Nat
      /\ Len(relayList) <= Len(relayList')
  <2>1. Len(relayList) \in Nat
    BY <1>1, LenProperties
  <2>2. QED
    BY <1>1, <1>2, <1>3, <2>1, AppendProperties
<1>5. /\ nextNet' = nextNet + 1 /\ relayData = <<>> /\ relayData' = <<>>
      /\ UNCHANGED <<netlistData, ioData, convertAt, deviceModifier>>
  BY DEF Filter, ConvertInv
<1>6. ListsTheRelays(relayList', netlistData, nextNet' - 1)
  <2> DEFINE nets == nextNet - 1
  <2>1. nets \in Nat /\ nets + 1 = nextNet /\ nextNet' - 1 = nets + 1
    BY <1>1, <1>5
  <2>2. ListsTheRelays(relayList, netlistData, nets)
    BY DEF ConvertInv
  <2>3. relayList' = IF HasRelayPin(netlistData[nets + 1])
                     THEN Append(relayList, netlistData[nets + 1]) ELSE relayList
    BY <1>3, <2>1
  <2> HIDE DEF nets
  <2>4. ListsTheRelays(relayList', netlistData, nets + 1)
    BY <1>1, <2>1, <2>2, <2>3, ListGrows
  <2>5. QED
    BY <2>1, <2>4
<1>7. Typed'
  BY <1>1, <1>4, <1>5, EmptySeq DEF ConvertInv, Typed
<1>8. IsASequence(relayData')
  BY <1>5 DEF ConvertInv
<1>9. RowsAreConverted'
  BY <1>5, NoRows DEF RowsAreConverted
<1>10. QED
  BY <1>5, <1>6, <1>7, <1>8, <1>9 DEF ConvertInv

(* A step that neither filters nor adds a row. *)
LEMMA GoesOn ==
  ASSUME ConvertInv,
         UNCHANGED <<netlistData, ioData, nextNet, relayList, deviceModifier, relayData>>,
         convertAt' \in {convertAt, "convert", "done", "threw", "crashed"}
  PROVE  ConvertInv'
<1>1. RowsAreConverted'
  BY RowsStay DEF ConvertInv
<1>2. Typed'
  BY DEF ConvertInv, Typed
<1>3. QED
  BY <1>1, <1>2 DEF ConvertInv, IsASequence

LEMMA BeginStep == ASSUME ConvertInv, BeginConvert PROVE ConvertInv'
<1>1. /\ relayData = <<>> /\ relayData' = <<>> /\ convertAt' = "convert"
      /\ deviceModifier' \in {18, 21}
      /\ UNCHANGED <<netlistData, ioData, nextNet, relayList>>
  BY DEF ConvertInv, BeginConvert
<1>2. RowsAreConverted'
  BY <1>1 DEF RowsAreConverted
<1>3. Typed'
  BY <1>1 DEF ConvertInv, Typed
<1>4. QED
  BY <1>1, <1>2, <1>3 DEF ConvertInv, IsASequence

(* The conversion adds a row for the relay it is at. *)
LEMMA ConvertAddsARow ==
  ASSUME ConvertInv, Convert
  PROVE  /\ IsASequence(relayData')
         /\ Len(relayData') = Len(relayData) + 1 /\ Len(relayData) \in Nat
         /\ DOMAIN relayData' = 1..Len(relayData) + 1
         /\ DOMAIN relayData = 1..Len(relayData)
         /\ \A n \in 1..Len(relayData) : relayData'[n] = relayData[n]
         /\ Converted(relayData'[Len(relayData) + 1], relayList[Len(relayData) + 1])
<1>1. PICK device \in ConvertDevice(CurrentRelay) :
         relayData' = Append(relayData, Row(CurrentRelay, device))
  BY DEF Convert
<1> DEFINE row == Row(CurrentRelay, device)
<1>2. PICK S : relayData \in Seq(S)
  BY DEF ConvertInv, IsASequence
<1>3. relayData \in Seq(S \union {row})
  BY <1>2, SeqMonotonic
<1> HIDE DEF row
<1>4. /\ Append(relayData, row) \in Seq(S \union {row})
      /\ Len(Append(relayData, row)) = Len(relayData) + 1
      /\ Len(relayData) \in Nat /\ DOMAIN relayData = 1..Len(relayData)
      /\ DOMAIN Append(relayData, row) = 1..Len(relayData) + 1
      /\ \A n \in 1..Len(relayData) : Append(relayData, row)[n] = relayData[n]
      /\ Append(relayData, row)[Len(relayData) + 1] = row
  BY <1>3, AppendProperties, LenProperties
<1>5. Converted(row, CurrentRelay)
  BY DEF Convert, Converted, row
<1>6. QED
  BY <1>1, <1>4, <1>5 DEF IsASequence, row, CurrentRelay

LEMMA ConvertStep == ASSUME ConvertInv, Convert PROVE ConvertInv'
<1> DEFINE last == Len(relayData) + 1
<1>1. /\ Len(relayData) < Len(relayList) /\ convertAt = "convert"
      /\ UNCHANGED <<netlistData, ioData, convertAt, nextNet, relayList, deviceModifier>>
  BY DEF Convert, AtRelay
<1>2. /\ IsASequence(relayData')
      /\ Len(relayData') = last /\ Len(relayData) \in Nat
      /\ DOMAIN relayData' = 1..last
      /\ DOMAIN relayData = 1..Len(relayData)
      /\ \A n \in 1..Len(relayData) : relayData'[n] = relayData[n]
      /\ Converted(relayData'[last], relayList[last])
  BY ConvertAddsARow
<1>3. Typed'
  <2>1. Len(relayList) \in Nat
    BY LenProperties DEF ConvertInv, Typed
  <2>2. QED
    BY <1>1, <1>2, <2>1 DEF ConvertInv, Typed
<1>4. ASSUME NEW n \in 1..last
      PROVE  \E row \in {relayData'[n]}, net \in {relayList[n]} : Converted(row, net)'
  <2>1. PICK row, net : row = relayData'[n] /\ net = relayList[n]
    OBVIOUS
  <2>2. Converted(row, net)
    <3>1. CASE n = last
      BY <1>2, <2>1, <3>1
    <3>2. CASE n # last
      <4>1. n \in DOMAIN relayData /\ row = relayData[n]
        BY <1>2, <2>1, <3>2
      <4>2. QED
        BY <2>1, <4>1 DEF ConvertInv, RowsAreConverted
    <3>3. QED
      BY <3>1, <3>2
  <2>3. Converted(row, net)'
    BY <1>1, <2>2, ConvertedStays
  <2>4. QED
    BY <2>1, <2>3
<1>5. RowsAreConverted'
  BY <1>1, <1>2, <1>4 DEF RowsAreConverted
<1>6. QED
  BY <1>1, <1>2, <1>3, <1>5 DEF ConvertInv

LEMMA ConvertInvStep == ConvertInv /\ [ConvertNext]_convertVars => ConvertInv'
<1> SUFFICES ASSUME ConvertInv, [ConvertNext]_convertVars
             PROVE  ConvertInv'
  OBVIOUS
<1>1. CASE Filter
  BY <1>1, FilterStep
<1>2. CASE BeginConvert
  BY <1>2, BeginStep
<1>3. CASE Convert
  BY <1>3, ConvertStep
<1>4. CASE FilterThrows
  BY <1>4, GoesOn DEF FilterThrows
<1>5. CASE ConvertThrows
  BY <1>5, GoesOn DEF ConvertThrows
<1>6. CASE ConvertCrashes
  BY <1>6, GoesOn DEF ConvertCrashes
<1>7. CASE EndConvert
  BY <1>7, GoesOn DEF EndConvert
<1>8. CASE UNCHANGED convertVars
  BY <1>8, GoesOn DEF convertVars, relayVars
<1>9. QED
  BY <1>1, <1>2, <1>3, <1>4, <1>5, <1>6, <1>7, <1>8 DEF ConvertNext

LEMMA ConvertInvariant == ConvertSpec => []ConvertInv
BY ConvertInvInit, ConvertInvStep, PTL DEF ConvertSpec
-------------------------------------------------------------------------
(* A row, and the net and device number it was made of. *)
LEMMA RowOfRelay ==
  ASSUME ConvertInv, NEW n \in DOMAIN relayData
  PROVE  /\ n \in DOMAIN relayList
         /\ relayList[n] \in Seq(Line)
         /\ Converted(relayData[n], relayList[n])
<1>1. PICK S : relayData \in Seq(S)
  BY DEF ConvertInv, IsASequence
<1>2. Len(relayData) \in Nat /\ DOMAIN relayData = 1..Len(relayData)
  BY <1>1, LenProperties
<1>3. /\ relayList \in Seq(Seq(Line))
      /\ Len(relayList) \in Nat /\ DOMAIN relayList = 1..Len(relayList)
      /\ Len(relayData) <= Len(relayList)
  BY LenProperties DEF ConvertInv, Typed
<1>4. n \in 1..Len(relayList)
  BY <1>2, <1>3
<1>5. relayList[n] \in Seq(Line)
  BY <1>3, <1>4, ElementOfSeq
<1>6. QED
  BY <1>3, <1>4, <1>5 DEF ConvertInv, RowsAreConverted

LEMMA FieldsOfRow ==
  ASSUME NEW net, NEW device
  PROVE  LET row == Row(net, device)
         IN /\ row.pin = ConvertPin(NameOf(net))
            /\ row.enumeration = ConvertEnum(NameOf(net))
            /\ row.deviceNumber = device
            /\ row.portNumber = ConvertPort(net)
            /\ row.normalState = ConvertNormalState(net)
            /\ row.driveStrength = IF row.normalState = "RELAY_NC" THEN "CONFIG_OUT"
                                   ELSE ConvertDriveStrength(net)
            /\ row.relayName = net[1].name
BY DEF Row

LEMMA DeviceIsAnInt ==
  ASSUME Typed, NEW net, NEW device \in ConvertDevice(net)
  PROVE  device \in Int
<1> DEFINE here == {k \in DOMAIN ioData : ioData[k].identifier = ExpanderLine(net).identifier}
<1>1. /\ ioData \in Seq(IO) /\ DOMAIN ioData = 1..Len(ioData) /\ Len(ioData) \in Nat
      /\ deviceModifier \in Int
  BY LenProperties DEF Typed
<1>2. CASE here = {}
  BY <1>2, ConvertAssumption DEF ConvertDevice
<1>3. CASE here # {}
  <2>1. here \subseteq Nat
    BY <1>1
  <2>2. Min(here) \in here
    <3> HIDE DEF here
    <3>1. QED
      BY <1>3, <2>1, MinIsLeast
  <2>3. ioData[Min(here)] \in IO
    BY <1>1, <2>2, ElementOfSeq
  <2>4. ioData[Min(here)].position \in Int
    BY <2>3 DEF IO
  <2>5. device = ioData[Min(here)].position + deviceModifier
    BY <1>3 DEF ConvertDevice
  <2>6. QED
    BY <1>1, <2>4, <2>5
<1>4. QED
  BY <1>2, <1>3

(***************************************************************************)
(* The type invariant holds for every set of boards.                       *)
(***************************************************************************)
THEOREM ConvertTypeCorrect == ConvertSpec => []ConvertTypeOK
<1>1. ConvertInv => ConvertTypeOK
  <2> SUFFICES ASSUME ConvertInv
               PROVE  ConvertTypeOK
    OBVIOUS
  <2>1. ASSUME NEW n \in DOMAIN relayData
        PROVE  /\ relayData[n].deviceNumber \in Int
               /\ relayData[n].normalState \in {"RELAY_NO", "RELAY_NC"}
    <3>1. PICK device \in ConvertDevice(relayList[n]) :
                 relayData[n] = Row(relayList[n], device)
      BY <2>1, RowOfRelay DEF Converted
    <3>2. /\ relayData[n].deviceNumber = device
          /\ relayData[n].normalState = ConvertNormalState(relayList[n])
      BY <3>1, FieldsOfRow
    <3>3. device \in Int
      BY <3>1, DeviceIsAnInt DEF ConvertInv
    <3>4. QED
      BY <3>2, <3>3 DEF ConvertNormalState
  <2>2. QED
    BY <2>1 DEF ConvertInv, Typed, ConvertTypeOK
<1>2. QED
  BY <1>1, ConvertInvariant, PTL

(***************************************************************************)
(* The relays are the nets with a relay pin, each once and in order, and   *)
(* the rows follow them.                                                   *)
(***************************************************************************)
THEOREM RowsFollowTheRelays == ConvertSpec => []OneRowPerRelayNet
<1>1. ConvertInv => OneRowPerRelayNet
  <2> SUFFICES ASSUME ConvertInv
               PROVE  OneRowPerRelayNet
    OBVIOUS
  <2>1. ASSUME NEW n \in DOMAIN relayData
        PROVE  relayData[n].relayName = relayList[n][1].name
    BY <2>1, RowOfRelay, FieldsOfRow DEF Converted
  <2>2. QED
    BY <2>1 DEF ConvertInv, OneRowPerRelayNet
<1>2. QED
  BY <1>1, ConvertInvariant, PTL

(***************************************************************************)
(* A strength that is a current is that of a relay model on the net.       *)
(***************************************************************************)
LEMMA StrengthOfAModel ==
  ASSUME NEW net \in Seq(Line), ConvertDriveStrength(net) # "CONFIG_OUT"
  PROVE  \E j \in DOMAIN net : /\ IsModel(net[j])
                               /\ ConvertDriveStrength(net) = ModelData[net[j].device]
<1> DEFINE models == {j \in DOMAIN net : IsModel(net[j])}
<1>1. models # {} /\ models \subseteq Nat
  BY LenProperties DEF ConvertDriveStrength
<1>2. Min(models) \in models
  <2> HIDE DEF models
  <2>1. QED
    BY <1>1, MinIsLeast
<1>3. ConvertDriveStrength(net) = ModelData[net[Min(models)].device]
  BY <1>1 DEF ConvertDriveStrength
<1>4. QED
  BY <1>2, <1>3

(***************************************************************************)
(* Only a row that is normally open has a current, that of a relay model   *)
(* on its net.                                                             *)
(***************************************************************************)
THEOREM DriveIsThatOfAModel == ConvertSpec => []DriveFollowsModel
<1>1. ConvertInv => DriveFollowsModel
  <2> SUFFICES ASSUME ConvertInv, NEW n \in DOMAIN relayData,
                      relayData[n].driveStrength # "CONFIG_OUT"
               PROVE  /\ relayData[n].normalState = "RELAY_NO"
                      /\ \E j \in DOMAIN relayList[n] :
                            /\ IsModel(relayList[n][j])
                            /\ relayData[n].driveStrength = ModelData[relayList[n][j].device]
    BY DEF DriveFollowsModel
  <2>1. relayList[n] \in Seq(Line) /\ Converted(relayData[n], relayList[n])
    BY RowOfRelay
  <2>2. /\ relayData[n].normalState = ConvertNormalState(relayList[n])
        /\ relayData[n].driveStrength =
              IF relayData[n].normalState = "RELAY_NC" THEN "CONFIG_OUT"
              ELSE ConvertDriveStrength(relayList[n])
    BY <2>1, FieldsOfRow DEF Converted
  <2>3. relayData[n].normalState = "RELAY_NO"
    BY <2>2 DEF ConvertNormalState
  <2>4. relayData[n].driveStrength = ConvertDriveStrength(relayList[n])
    BY <2>2, <2>3
  <2>5. QED
    BY <2>1, <2>3, <2>4, StrengthOfAModel
<1>2. QED
  BY <1>1, ConvertInvariant, PTL
-------------------------------------------------------------------------
(***************************************************************************)
(* On a board where a relay has one pin, the line device and port are      *)
(* taken from is the one that made the net a relay, so that its number has *)
(* nothing behind its digits.                                              *)
(***************************************************************************)
LEMMA ExpanderLineIsThePin ==
  ASSUME NEW netlist \in Seq(Seq(Line)), OnePinPerRelay(netlist),
         NEW n \in RelayNets(netlist)
  PROVE  \E j \in DOMAIN netlist[n] :
            /\ IsExpander(netlist[n][j])
            /\ ExpanderLine(netlist[n]) = netlist[n][j]
            /\ Stoi(ExpanderLine(netlist[n])) = netlist[n][j].connection
<1>1. n \in DOMAIN netlist /\ HasRelayPin(netlist[n])
  BY DEF RelayNets
<1>2. netlist[n] \in Seq(Line)
  BY <1>1, LenProperties, ElementOfSeq
<1>3. PICK k \in DOMAIN netlist[n] : IsExpander(netlist[n][k]) /\ AllDigits(netlist[n][k])
  BY <1>1 DEF HasRelayPin
<1>4. PICK j \in DOMAIN netlist[n] : /\ IsExpander(netlist[n][j])
                                     /\ ExpanderLine(netlist[n]) = netlist[n][j]
  BY <1>2, <1>3, ExpanderLineIsOnTheNet
<1>5. j = k
  BY <1>3, <1>4 DEF OnePinPerRelay
<1>6. QED
  BY <1>3, <1>4, <1>5 DEF AllDigits, Stoi

(* The number of a relay on an expander of ioData is that of a place. *)
LEMMA DeviceIsAPlace ==
  ASSUME Typed, NEW net, NEW device \in ConvertDevice(net),
         \E k \in DOMAIN ioData : ioData[k].identifier = ExpanderLine(net).identifier
  PROVE  \E k \in DOMAIN ioData :
            /\ ioData[k].identifier = ExpanderLine(net).identifier
            /\ ioData[k].position \in Nat
            /\ device = ioData[k].position + deviceModifier
<1> DEFINE here == {k \in DOMAIN ioData : ioData[k].identifier = ExpanderLine(net).identifier}
<1>1. ioData \in Seq(IO) /\ DOMAIN ioData = 1..Len(ioData) /\ Len(ioData) \in Nat
  BY LenProperties DEF Typed
<1>2. here # {} /\ here \subseteq Nat
  BY <1>1
<1>3. Min(here) \in here
  <2> HIDE DEF here
  <2>1. QED
    BY <1>2, MinIsLeast
<1>4. ioData[Min(here)] \in IO
  BY <1>1, <1>3, ElementOfSeq
<1>5. ioData[Min(here)].position \in Nat
  BY <1>4 DEF IO
<1>6. device = ioData[Min(here)].position + deviceModifier
  BY <1>2 DEF ConvertDevice
<1>7. QED
  BY <1>3, <1>5, <1>6

(* Where the relay of a row is, and which place its number is. *)
LEMMA AddressOfRow ==
  ASSUME ConvertInv, Addressable, NEW n \in DOMAIN relayData,
         NEW p \in 1..nextNet - 1, HasRelayPin(netlistData[p]),
         relayList[n] = netlistData[p]
  PROVE  /\ p \in RelayNets(netlistData)
         /\ relayData[n].portNumber = ConvertPort(netlistData[p])
         /\ \E k \in DOMAIN ioData, j \in DOMAIN netlistData[p] :
               /\ ioData[k].identifier = netlistData[p][j].identifier
               /\ ioData[k].position \in Nat
               /\ relayData[n].deviceNumber = ioData[k].position + deviceModifier
               /\ IsExpander(netlistData[p][j])
               /\ Stoi(ExpanderLine(netlistData[p])) = netlistData[p][j].connection
<1>1. /\ netlistData \in Seq(Seq(Line)) /\ DOMAIN netlistData = 1..Len(netlistData)
      /\ Len(netlistData) \in Nat /\ nextNet \in 1..Len(netlistData) + 1
  BY LenProperties DEF ConvertInv, Typed
<1>2. p \in RelayNets(netlistData)
  BY <1>1 DEF RelayNets
<1>3. PICK j \in DOMAIN netlistData[p] :
         /\ IsExpander(netlistData[p][j])
         /\ ExpanderLine(netlistData[p]) = netlistData[p][j]
         /\ Stoi(ExpanderLine(netlistData[p])) = netlistData[p][j].connection
  BY <1>1, <1>2, ExpanderLineIsThePin DEF Addressable
<1>4. <<p, j>> \in Places /\ LineAt(<<p, j>>) = netlistData[p][j]
  BY <1>1 DEF Places, LineAt
<1>5. \E k \in DOMAIN ioData : ioData[k].identifier = ExpanderLine(netlistData[p]).identifier
  BY <1>3, <1>4 DEF Addressable, InOrder
<1>6. PICK device \in ConvertDevice(netlistData[p]) :
         relayData[n] = Row(netlistData[p], device)
  BY RowOfRelay DEF Converted
<1>7. /\ relayData[n].deviceNumber = device
      /\ relayData[n].portNumber = ConvertPort(netlistData[p])
  BY <1>6, FieldsOfRow
<1>8. PICK k \in DOMAIN ioData :
         /\ ioData[k].identifier = ExpanderLine(netlistData[p]).identifier
         /\ ioData[k].position \in Nat
         /\ device = ioData[k].position + deviceModifier
  BY <1>5, DeviceIsAPlace DEF ConvertInv
<1>9. QED
  BY <1>2, <1>3, <1>7, <1>8

(***************************************************************************)
(* If no other line of an expander is in front of the one the filter       *)
(* stopped at, that is the line device and port are taken from.            *)
(***************************************************************************)
LEMMA FilterStopsAtTheLine ==
  ASSUME NEW net \in Seq(Line), NEW j \in FilterStop(net),
         \A m \in 1..j - 1 : ~ IsExpander(net[m])
  PROVE  ExpanderLine(net) = net[j] /\ Stoi(net[j]) = net[j].connection
<1>1. j \in DOMAIN net /\ IsExpander(net[j]) /\ AllDigits(net[j])
  BY DEF FilterStop, StopsFilter
<1>2. PICK k \in DOMAIN net : IsExpander(net[k]) /\ ExpanderLine(net) = net[k] /\ k <= j
  BY <1>1, ExpanderLineIsOnTheNet
<1>3. DOMAIN net = 1..Len(net) /\ Len(net) \in Nat
  BY LenProperties
<1>4. k = j
  BY <1>1, <1>2, <1>3
<1>5. QED
  BY <1>1, <1>2, <1>4 DEF AllDigits, Stoi

(***************************************************************************)
(* On any board a row has the port, and the device number, of the pin that *)
(* made its net a relay, if no other line of an expander is in front of it *)
(* on the net (Input.cpp:151-194, Relay.cpp:89-103, 115-126).              *)
(***************************************************************************)
THEOREM RowsDriveTheirPins == ConvertSpec => []RowDrivesTheRelayPin
<1>1. ConvertInv => RowDrivesTheRelayPin
  <2> SUFFICES ASSUME ConvertInv, NEW n \in DOMAIN relayData,
                      NEW j \in FilterStop(relayList[n]),
                      \A m \in 1..j - 1 : ~ IsExpander(relayList[n][m])
               PROVE  LET port == relayList[n][j].connection
                          here == {k \in DOMAIN ioData :
                                      ioData[k].identifier = relayList[n][j].identifier}
                      IN /\ relayData[n].portNumber =
                               IF port \in DOMAIN PortOf THEN PortOf[port] ELSE NoPort
                         /\ here # {} => \E k \in here :
                               relayData[n].deviceNumber = ioData[k].position + deviceModifier
    BY DEF RowDrivesTheRelayPin
  <2>1. relayList[n] \in Seq(Line) /\ Converted(relayData[n], relayList[n])
    BY RowOfRelay
  <2>2. PICK device \in ConvertDevice(relayList[n]) : relayData[n] = Row(relayList[n], device)
    BY <2>1 DEF Converted
  <2>3. /\ relayData[n].deviceNumber = device
        /\ relayData[n].portNumber = ConvertPort(relayList[n])
    BY <2>2, FieldsOfRow
  <2>4. /\ ExpanderLine(relayList[n]) = relayList[n][j]
        /\ Stoi(relayList[n][j]) = relayList[n][j].connection
    BY <2>1, FilterStopsAtTheLine
  <2>5. relayData[n].portNumber =
          IF relayList[n][j].connection \in DOMAIN PortOf
          THEN PortOf[relayList[n][j].connection] ELSE NoPort
    BY <2>3, <2>4 DEF ConvertPort
  <2>6. ASSUME \E k \in DOMAIN ioData : ioData[k].identifier = relayList[n][j].identifier
        PROVE  \E k \in DOMAIN ioData :
                  /\ ioData[k].identifier = relayList[n][j].identifier
                  /\ relayData[n].deviceNumber = ioData[k].position + deviceModifier
    <3>1. Typed
      BY DEF ConvertInv
    <3>2. QED
      BY <2>3, <2>4, <2>6, <3>1, DeviceIsAPlace
  <2>7. QED
    BY <2>5, <2>6
<1>2. QED
  BY <1>1, ConvertInvariant, PTL
-------------------------------------------------------------------------
(***************************************************************************)
(* Device number and port determine the row.  Equal numbers are equal      *)
(* places, so one expander; equal ports are equal pins; and a pin has one  *)
(* relay, that is in the list once.                                        *)
(***************************************************************************)
LEMMA ConvertInvTellsTheRows == ASSUME ConvertInv PROVE DistinctAddresses
<1> SUFFICES ASSUME Addressable,
                    NEW n \in DOMAIN relayData, NEW m \in DOMAIN relayData,
                    relayData[n].deviceNumber = relayData[m].deviceNumber,
                    relayData[n].portNumber = relayData[m].portNumber,
                    relayData[n].portNumber # NoPort
             PROVE  n = m
  BY DEF DistinctAddresses
<1>1. PICK place \in [DOMAIN relayList -> 1..nextNet - 1] :
         /\ \A a, b \in DOMAIN relayList : a < b => place[a] < place[b]
         /\ {place[a] : a \in DOMAIN relayList} =
               {k \in 1..nextNet - 1 : HasRelayPin(netlistData[k])}
         /\ \A a \in DOMAIN relayList : relayList[a] = netlistData[place[a]]
  BY DEF ConvertInv, ListsTheRelays
<1>2. n \in DOMAIN relayList /\ m \in DOMAIN relayList /\ n \in Nat /\ m \in Nat
  <2>1. DOMAIN relayList = 1..Len(relayList) /\ Len(relayList) \in Nat
    BY LenProperties DEF ConvertInv, Typed
  <2>2. QED
    BY <2>1, RowOfRelay
<1>3. \A a \in DOMAIN relayList : /\ place[a] \in 1..nextNet - 1
                                  /\ HasRelayPin(netlistData[place[a]])
  BY <1>1
<1>4. PICK p \in 1..nextNet - 1, q \in 1..nextNet - 1 :
         /\ p = place[n] /\ relayList[n] = netlistData[p] /\ HasRelayPin(netlistData[p])
         /\ q = place[m] /\ relayList[m] = netlistData[q] /\ HasRelayPin(netlistData[q])
  BY <1>1, <1>2, <1>3
<1>5. PICK k \in DOMAIN ioData, j \in DOMAIN netlistData[p] :
         /\ ioData[k].identifier = netlistData[p][j].identifier
         /\ ioData[k].position \in Nat
         /\ relayData[n].deviceNumber = ioData[k].position + deviceModifier
         /\ IsExpander(netlistData[p][j])
         /\ Stoi(ExpanderLine(netlistData[p])) = netlistData[p][j].connection
  BY <1>4, AddressOfRow
<1>6. PICK h \in DOMAIN ioData, l \in DOMAIN netlistData[q] :
         /\ ioData[h].identifier = netlistData[q][l].identifier
         /\ ioData[h].position \in Nat
         /\ relayData[m].deviceNumber = ioData[h].position + deviceModifier
         /\ IsExpander(netlistData[q][l])
         /\ Stoi(ExpanderLine(netlistData[q])) = netlistData[q][l].connection
  BY <1>4, AddressOfRow
<1>7. k = h
  <2>1. deviceModifier \in Int
    BY DEF ConvertInv, Typed
  <2>2. ioData[k].position = ioData[h].position
    <3> DEFINE a == ioData[k].position
               b == ioData[h].position
    <3>1. a \in Nat /\ b \in Nat /\ a + deviceModifier = b + deviceModifier
      BY <1>5, <1>6
    <3> HIDE DEF a, b
    <3>2. a = b
      BY <2>1, <3>1
    <3>3. QED
      BY <3>2 DEF a, b
  <2>3. QED
    BY <2>2 DEF Addressable, InOrder
<1>8. /\ p \in RelayNets(netlistData) /\ relayData[n].portNumber = ConvertPort(netlistData[p])
      /\ q \in RelayNets(netlistData) /\ relayData[m].portNumber = ConvertPort(netlistData[q])
  BY <1>4, AddressOfRow
<1>9. Stoi(ExpanderLine(netlistData[p])) = Stoi(ExpanderLine(netlistData[q]))
  BY <1>8, PortTellsThePin
<1>10. p = q
  BY <1>5, <1>6, <1>7, <1>8, <1>9 DEF Addressable, OneRelayPerPin
<1>11. ~ (n < m) /\ ~ (m < n)
  <2>1. p \in Int /\ place[n] = p /\ place[m] = p
    BY <1>4, <1>10
  <2>2. QED
    BY <1>1, <1>2, <2>1
<1>12. QED
  BY <1>2, <1>11

(***************************************************************************)
(* No two relays have one address, where addresses can be told apart.      *)
(***************************************************************************)
THEOREM AddressesAreDistinct == ConvertSpec => []DistinctAddresses
BY ConvertInvTellsTheRows, ConvertInvariant, PTL
-------------------------------------------------------------------------
(***************************************************************************)
(* The netlist has finitely many lines.                                    *)
(***************************************************************************)
LEMMA PlacesAreFinite == ASSUME Typed PROVE IsFiniteSet(Places)
<1> DEFINE nets == DOMAIN netlistData
           S == {{n} \X DOMAIN netlistData[n] : n \in nets}
           f == [n \in nets |-> {n} \X DOMAIN netlistData[n]]
<1>1. /\ netlistData \in Seq(Seq(Line))
      /\ nets = 1..Len(netlistData) /\ Len(netlistData) \in Nat
  BY LenProperties DEF Typed
<1>2. IsFiniteSet(nets)
  BY <1>1, FS_Interval
<1>3. f \in Surjection(nets, S)
  <2>1. f \in [nets -> S] /\ \A t \in S : \E n \in nets : f[n] = t
    OBVIOUS
  <2> HIDE DEF f, S, nets
  <2>2. QED
    BY <2>1, Fun_IsSurj
<1>4. IsFiniteSet(S)
  <2> HIDE DEF f, S, nets
  <2>1. QED
    BY <1>2, <1>3, FS_Surjection
<1>5. ASSUME NEW T \in S
      PROVE  IsFiniteSet(T)
  <2>1. PICK n \in nets : T = {n} \X DOMAIN netlistData[n]
    OBVIOUS
  <2>2. netlistData[n] \in Seq(Line)
    BY <1>1, <2>1, ElementOfSeq
  <2>3. DOMAIN netlistData[n] = 1..Len(netlistData[n]) /\ Len(netlistData[n]) \in Nat
    BY <2>2, LenProperties
  <2>4. IsFiniteSet(DOMAIN netlistData[n])
    BY <2>3, FS_Interval
  <2>5. QED
    BY <2>1, <2>4, FS_Singleton, FS_Product
<1>6. QED
  <2> HIDE DEF S
  <2>1. IsFiniteSet(UNION S)
    BY <1>4, <1>5, FS_UNION
  <2>2. QED
    BY <2>1 DEF Places, S

(***************************************************************************)
(* Of a resistor with two ends, the lookup sees both.                      *)
(***************************************************************************)
LEMMA BothEndsAreSeen ==
  ASSUME Typed, NEW x, Cardinality(Ends(x)) <= 2
  PROVE  Grounded(x) <=> PulledDown(x)
<1>1. ASSUME NEW p \in Ends(x)
      PROVE  Cardinality({q \in Ends(x) : Before(q, p)}) < 2
  <2> DEFINE before == {q \in Ends(x) : Before(q, p)}
             others == Ends(x) \ {p}
  <2>1. IsFiniteSet(Ends(x)) /\ Cardinality(Ends(x)) \in Nat
    <3>1. Ends(x) \in SUBSET Places
      BY DEF Ends
    <3>2. QED
      BY <3>1, PlacesAreFinite, FS_Subset, FS_CardinalityType
  <2>2. IsFiniteSet(others) /\ Cardinality(others) = Cardinality(Ends(x)) - 1
    BY <2>1, FS_RemoveElement
  <2>3. before \in SUBSET others
    <3>1. ~ Before(p, p)
      <4>1. /\ netlistData \in Seq(Seq(Line)) /\ DOMAIN netlistData = 1..Len(netlistData)
            /\ Len(netlistData) \in Nat
        BY LenProperties DEF Typed
      <4>2. PICK n \in DOMAIN netlistData : \E j \in DOMAIN netlistData[n] : p = <<n, j>>
        BY DEF Ends, Places
      <4>3. PICK j \in DOMAIN netlistData[n] : p = <<n, j>>
        BY <4>2
      <4>4. netlistData[n] \in Seq(Line)
        BY <4>1, ElementOfSeq
      <4>5. n \in Nat /\ j \in Nat
        BY <4>1, <4>3, <4>4, LenProperties
      <4>6. QED
        BY <4>3, <4>5 DEF Before
    <3>2. QED
      BY <3>1
  <2>4. Cardinality(before) <= Cardinality(others) /\ Cardinality(before) \in Nat
    <3> HIDE DEF before, others
    <3>1. QED
      BY <2>2, <2>3, FS_Subset, FS_CardinalityType
  <2> HIDE DEF before, others
  <2>5. Cardinality(before) < 2
    BY <2>1, <2>2, <2>4
  <2>6. QED
    BY <2>5 DEF before
<1>2. QED
  BY <1>1 DEF Grounded, PulledDown

(***************************************************************************)
(* On a net with one resistor and a relay model, that resistor is looked   *)
(* up, whichever of the two comes first.                                   *)
(***************************************************************************)
LEMMA TheResistorIsFound ==
  ASSUME NEW net \in Seq(Line), NEW k \in DOMAIN net, IsModel(net[k]),
         NEW x, {net[j].identifier : j \in {j \in DOMAIN net : IsResistor(net[j])}} = {x}
  PROVE  Resistor(net) = {x}
<1> DEFINE seen == {j \in DOMAIN net : /\ \E m \in 1..j : IsModel(net[m])
                                       /\ \E m \in 1..j : IsResistor(net[m])}
           passed == {m \in 1..Min(seen) : IsResistor(net[m])}
<1>1. DOMAIN net = 1..Len(net) /\ Len(net) \in Nat
  BY LenProperties
<1>2. PICK r \in DOMAIN net : IsResistor(net[r])
  OBVIOUS
<1>3. seen # {} /\ seen \subseteq Nat
  <2>1. CASE r <= k
    <3>1. k \in 1..k /\ r \in 1..k
      BY <1>1, <2>1
    <3>2. k \in seen
      BY <1>2, <3>1
    <3>3. QED
      BY <1>1, <3>2
  <2>2. CASE k <= r
    <3>1. k \in 1..r /\ r \in 1..r
      BY <1>1, <2>2
    <3>2. r \in seen
      BY <1>2, <3>1
    <3>3. QED
      BY <1>1, <3>2
  <2>3. QED
    BY <1>1, <2>1, <2>2
<1>4. Min(seen) \in seen
  <2> HIDE DEF seen
  <2>1. QED
    BY <1>3, MinIsLeast
<1>5. passed # {} /\ passed \subseteq 0..Len(net) /\ passed \subseteq DOMAIN net
  <2> DEFINE first == Min(seen)
  <2>1. first \in 1..Len(net) /\ \E m \in 1..first : IsResistor(net[m])
    BY <1>1, <1>4
  <2>2. passed = {m \in 1..first : IsResistor(net[m])}
    OBVIOUS
  <2> HIDE DEF first, passed
  <2>3. QED
    BY <1>1, <2>1, <2>2
<1>6. Max(passed) \in passed
  <2> HIDE DEF passed
  <2>1. QED
    BY <1>1, <1>5, MaxIsGreatest
<1>7. Max(passed) \in DOMAIN net /\ IsResistor(net[Max(passed)])
  BY <1>5, <1>6
<1>8. net[Max(passed)].identifier = x
  <2> HIDE DEF passed
  <2>1. QED
    BY <1>7
<1>9. Resistor(net) = {net[Max(passed)].identifier}
  BY <1>3 DEF Resistor
<1>10. QED
  BY <1>8, <1>9

(***************************************************************************)
(* A relay whose one resistor has two ends is closed exactly if one of     *)
(* them is on GND.                                                         *)
(***************************************************************************)
THEOREM PulldownCloses == ConvertSpec => []PulldownMeansClosed
<1>1. ConvertInv => PulldownMeansClosed
  <2> SUFFICES ASSUME ConvertInv, NEW n \in DOMAIN relayData
               PROVE  LET net == relayList[n]
                          resistors == {net[j].identifier : j \in {j \in DOMAIN net : IsResistor(net[j])}}
                      IN (\E j \in DOMAIN net : IsModel(net[j])) =>
                            \A x \in resistors :
                               resistors = {x} /\ Cardinality(Ends(x)) <= 2 =>
                                  (relayData[n].normalState = "RELAY_NC" <=> PulledDown(x))
    BY DEF PulldownMeansClosed
  <2> DEFINE net == relayList[n]
             resistors == {net[j].identifier : j \in {j \in DOMAIN net : IsResistor(net[j])}}
  <2> SUFFICES ASSUME NEW k \in DOMAIN net, IsModel(net[k]),
                      NEW x, resistors = {x}, Cardinality(Ends(x)) <= 2
               PROVE  relayData[n].normalState = "RELAY_NC" <=> PulledDown(x)
    OBVIOUS
  <2>1. net \in Seq(Line) /\ relayData[n].normalState = ConvertNormalState(net)
    BY RowOfRelay, FieldsOfRow DEF Converted
  <2>2. Resistor(net) = {x}
    <3> HIDE DEF net
    <3>1. QED
      BY <2>1, TheResistorIsFound
  <2>3. Grounded(x) <=> PulledDown(x)
    BY BothEndsAreSeen DEF ConvertInv
  <2>4. QED
    BY <2>1, <2>2, <2>3 DEF ConvertNormalState
<1>2. QED
  BY <1>1, ConvertInvariant, PTL
-------------------------------------------------------------------------
(***************************************************************************)
(* An underscore is no digit.                                              *)
(***************************************************************************)
LEMMA UnderscoreIsNoDigit == ~ IsDigit(Underscore)
<1>1. /\ Underscore # "0" /\ Underscore # "1" /\ Underscore # "2" /\ Underscore # "3"
      /\ Underscore # "4" /\ Underscore # "5" /\ Underscore # "6" /\ Underscore # "7"
      /\ Underscore # "8" /\ Underscore # "9"
  BY Zenon DEF Underscore
<1>2. Len(Digits) = 10
  BY DEF Digits
<1>3. ASSUME NEW n \in 1..10, Digits[n] = Underscore
      PROVE  FALSE
  BY <1>1, <1>3 DEF Digits
<1>4. QED
  BY <1>2, <1>3 DEF IsDigit, Contains

(***************************************************************************)
(* A break of a name is the place of an underscore.                        *)
(***************************************************************************)
LEMMA BreaksAreUnderscores ==
  ASSUME NEW S, NEW name \in Seq(S), NEW pos \in NameBreaks(name)
  PROVE  pos \in 0..Len(name) - 1 /\ name[pos + 1] = Underscore
<1>1. Len(name) \in Nat /\ Len(<<Underscore>>) = 1
  BY LenProperties
<1>2. pos \in 0..Len(name) - 1 /\ Substr(name, pos, 1) = <<Underscore>>
  BY <1>1 DEF NameBreaks, Occurrences
<1> DEFINE part == Substr(name, pos, 1)
<1>3. \A n \in 1..Len(part) : part[n] = name[pos + n]
  <2>1. pos \in 0..Len(name) /\ 1 \in Nat
    BY <1>1, <1>2
  <2>2. QED
    BY <2>1, SubstrIsAText
<1>4. part[1] = Underscore /\ 1 \in 1..Len(part)
  BY <1>2
<1>5. part[1] = name[pos + 1]
  BY <1>3, <1>4
<1>6. QED
  BY <1>2, <1>4, <1>5

(***************************************************************************)
(* Two texts whose last two characters are the same, the first of two      *)
(* characters at least.                                                    *)
(***************************************************************************)
EndAlike(text, name) ==
  /\ Len(text) \in Nat /\ Len(text) > 1
  /\ text[Len(text)] = name[Len(name)]
  /\ text[Len(text) - 1] = name[Len(name) - 1]

(***************************************************************************)
(* A text with the last characters of a name behind it ends as the name.   *)
(***************************************************************************)
LEMMA EndsAsTheName ==
  ASSUME NEW S, NEW name \in Seq(S), NEW front \in Seq(S),
         NEW last \in Nat, last + 1 < Len(name),
         NEW count \in Nat, Len(name) <= last + count
  PROVE  EndAlike(front \o Substr(name, last, count), name)
<1> DEFINE tail == Substr(name, last, count)
           text == front \o tail
           f == Len(front)
           t == Len(name) - last
<1>1. f \in Nat /\ Len(name) \in Nat
  BY LenProperties
<1>2. t \in Nat /\ t > 1
  BY <1>1
<1>3. /\ tail \in Seq(S) /\ Len(tail) = t
      /\ \A n \in 1..t : tail[n] = name[last + n]
  <2>1. last \in 0..Len(name)
    BY <1>1
  <2>2. (IF last + count <= Len(name) THEN count ELSE Len(name) - last) = t
    BY <1>1
  <2>3. /\ tail \in Seq(S)
        /\ Len(tail) = IF last + count <= Len(name) THEN count ELSE Len(name) - last
        /\ \A n \in 1..Len(tail) : tail[n] = name[last + n]
    BY <2>1, SubstrIsAText
  <2> HIDE DEF tail, t
  <2>4. QED
    BY <2>2, <2>3
<1>4. /\ Len(text) = f + t
      /\ \A n \in 1..f + t : text[n] = IF n <= f THEN front[n] ELSE tail[n - f]
  <2> HIDE DEF tail, t
  <2>1. QED
    BY <1>3, ConcatProperties
<1> HIDE DEF text
<1>5. text[f + t] = tail[t] /\ text[f + t - 1] = tail[t - 1]
  <2>1. /\ f + t \in 1..f + t /\ ~ (f + t <= f) /\ (f + t) - f = t
        /\ f + t - 1 \in 1..f + t /\ ~ (f + t - 1 <= f) /\ (f + t - 1) - f = t - 1
    BY <1>1, <1>2
  <2> HIDE DEF tail, f, t
  <2>2. QED
    BY <1>4, <2>1
<1>6. tail[t] = name[Len(name)] /\ tail[t - 1] = name[Len(name) - 1]
  <2>1. /\ t \in 1..t /\ last + t = Len(name)
        /\ t - 1 \in 1..t /\ last + (t - 1) = Len(name) - 1
    BY <1>1, <1>2
  <2> HIDE DEF tail, t
  <2>2. QED
    BY <1>3, <2>1
<1>7. QED
  <2> HIDE DEF tail, text, f, t
  <2>1. EndAlike(text, name)
    BY <1>1, <1>2, <1>4, <1>5, <1>6 DEF EndAlike
  <2>2. QED
    BY <2>1 DEF text, tail

(***************************************************************************)
(* The enumeration of a name of no more characters than the code of its    *)
(* last one, and one more, ends as the name does: with what begins at the  *)
(* last underscore, two characters at least.                               *)
(***************************************************************************)
LEMMA EnumEndsAsTheName ==
  ASSUME NEW name \in Seq(STRING), NameBreaks(name) # {}, EndsInDigit(name),
         Len(name) <= CodeOf(Last(name)) + 1
  PROVE  LET text == ConvertEnum(name)
         IN /\ Len(text) \in Nat /\ Len(text) > 1
            /\ text[Len(text)] = name[Len(name)]
            /\ text[Len(text) - 1] = name[Len(name) - 1]
<1> DEFINE S == STRING \union {"C", "I", "B"}
<1>1. Len(name) \in Nat /\ name \in Seq(S)
  BY LenProperties, SeqMonotonic
<1>2. \A pos \in NameBreaks(name) : pos \in 0..Len(name) - 1 /\ name[pos + 1] = Underscore
  BY BreaksAreUnderscores
<1>3. PICK first, last : /\ first = Min(NameBreaks(name)) /\ first \in NameBreaks(name)
                         /\ last = Max(NameBreaks(name)) /\ last \in NameBreaks(name)
  BY <1>1, <1>2, MinIsLeast, MaxIsGreatest
<1>4. first \in 0..Len(name) /\ last \in Nat /\ last + 1 < Len(name)
  <2>1. IsDigit(name[Len(name)])
    BY DEF EndsInDigit, Last
  <2>2. last + 1 # Len(name)
    BY <1>2, <1>3, <2>1, UnderscoreIsNoDigit
  <2>3. QED
    BY <1>1, <1>2, <1>3, <2>2
<1>5. PICK code \in 48..57 : code = CodeOf(Last(name))
  BY DigitValue DEF EndsInDigit, CodeOf
<1>6. PICK count \in Nat : /\ count = code - last + 1
                           /\ count <= 58
                           /\ Len(name) <= last + count
  <2> DEFINE c == code - last + 1
  <2>1. Len(name) <= code + 1 /\ last < Len(name)
    BY <1>1, <1>4, <1>5
  <2>2. c \in Nat /\ c <= 58 /\ Len(name) <= last + c
    BY <1>1, <1>4, <2>1
  <2>3. QED
    BY <2>2
<1>7. SizeT(count) = count
  BY <1>6 DEF SizeT, SizeMax
<1>8. PICK front \in Seq(S) : front = Substr(name, 0, first + 1) \o CIB
  <2>1. Substr(name, 0, first + 1) \in Seq(S)
    <3>1. 0 \in 0..Len(name) /\ first + 1 \in Nat
      BY <1>1, <1>4
    <3> HIDE DEF S
    <3>2. QED
      BY <1>1, <3>1, SubstrIsAText
  <2>2. CIB \in Seq(S)
    BY DEF CIB
  <2> HIDE DEF S
  <2>3. QED
    BY <2>1, <2>2, ConcatProperties
<1>9. ConvertEnum(name) = front \o Substr(name, last, count)
  BY <1>3, <1>5, <1>6, <1>7, <1>8 DEF ConvertEnum, EnumOfNumbered
<1> HIDE DEF S
<1> DEFINE text == ConvertEnum(name)
<1>10. text = front \o Substr(name, last, count)
  BY <1>9
<1> HIDE DEF text
<1>11. EndAlike(front \o Substr(name, last, count), name)
  <2>1. /\ name \in Seq(S) /\ front \in Seq(S) /\ last \in Nat /\ count \in Nat
        /\ last + 1 < Len(name) /\ Len(name) <= last + count
    BY <1>1, <1>4, <1>6, <1>8
  <2>2. QED
    BY <2>1, EndsAsTheName, Zenon
<1>12. QED
  BY <1>10, <1>11 DEF text, EndAlike

(***************************************************************************)
(* Every name of the netlist keeps its text.                               *)
(***************************************************************************)
LEMMA NamesStaySpelled ==
  ConvertSpec => [](ConvertInv /\ NamesAreSpelled(netlistData))
<1>1. ConvertInit => NamesAreSpelled(netlistData)
  BY ConvertAssumption DEF ConvertInit
<1>2. NamesAreSpelled(netlistData) /\ [ConvertNext]_convertVars
         => NamesAreSpelled(netlistData)'
  BY DEF ConvertNext, convertVars, Filter, FilterThrows, BeginConvert, Convert,
         ConvertThrows, ConvertCrashes, EndConvert, NamesAreSpelled
<1>3. QED
  BY <1>1, <1>2, ConvertInvariant, PTL DEF ConvertSpec

(***************************************************************************)
(* Pin and enumeration of a relay name the same pin, for names of no more  *)
(* characters than the code of their last one, and one more.               *)
(***************************************************************************)
THEOREM EnumerationAndPinAgree == ConvertSpec => []EnumerationNamesThePin
<1>1. ConvertInv /\ NamesAreSpelled(netlistData) => EnumerationNamesThePin
  <2> SUFFICES ASSUME ConvertInv, NamesAreSpelled(netlistData),
                      NEW n \in DOMAIN relayData,
                      NEW name, name = Spelling[relayData[n].relayName],
                      EndsInDigit(name), Len(name) <= CodeOf(Last(name)) + 1
               PROVE  /\ ConvertPin(relayData[n].enumeration) = relayData[n].pin
                      /\ EndsInDigit(relayData[n].enumeration)
    BY DEF EnumerationNamesThePin
  <2>1. n \in DOMAIN relayList /\ Converted(relayData[n], relayList[n])
    BY RowOfRelay
  <2>2. /\ NameOf(relayList[n]) = name /\ Splittable(name)
        /\ relayData[n].pin = ConvertPin(name)
        /\ relayData[n].enumeration = ConvertEnum(name)
        /\ relayData[n].relayName = relayList[n][1].name
    BY <2>1, FieldsOfRow DEF Converted, NameOf
  <2>3. relayData[n].relayName \in DOMAIN Spelling
    <3>1. /\ netlistData \in Seq(Seq(Line)) /\ DOMAIN netlistData = 1..Len(netlistData)
          /\ Len(netlistData) \in Nat /\ nextNet \in 1..Len(netlistData) + 1
      BY LenProperties DEF ConvertInv, Typed
    <3>2. PICK p \in 1..nextNet - 1 : /\ relayList[n] = netlistData[p]
                                      /\ HasRelayPin(netlistData[p])
      BY <2>1 DEF ConvertInv, ListsTheRelays
    <3>3. p \in DOMAIN netlistData /\ netlistData[p] \in Seq(Line)
      BY <3>1, <3>2, ElementOfSeq
    <3>4. 1 \in DOMAIN netlistData[p]
      BY <3>2, <3>3, LenProperties DEF HasRelayPin
    <3>5. QED
      BY <2>2, <3>2, <3>3, <3>4 DEF NamesAreSpelled
  <2>4. name \in Seq(STRING)
    BY <2>3, ConvertAssumption
  <2>5. NameBreaks(name) # {}
    BY <2>2 DEF Splittable
  <2> DEFINE text == ConvertEnum(name)
  <2>6. /\ Len(text) \in Nat /\ Len(text) > 1
        /\ text[Len(text)] = name[Len(name)]
        /\ text[Len(text) - 1] = name[Len(name) - 1]
    BY <2>4, <2>5, EnumEndsAsTheName
  <2>7. text # <<>>
    BY <2>6, EmptySeq
  <2> HIDE DEF text
  <2>8. EndsInDigit(text) /\ ConvertPin(text) = ConvertPin(name)
    BY <2>6, <2>7 DEF EndsInDigit, Last, ConvertPin
  <2>9. QED
    BY <2>2, <2>8 DEF text
<1>2. QED
  BY <1>1, NamesStaySpelled, PTL
=========================================================================
