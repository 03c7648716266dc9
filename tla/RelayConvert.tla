-------------------------- MODULE RelayConvert --------------------------
(***************************************************************************)
(* From the netlist to the rows of the configuration: the relay list of    *)
(* Input::filterNetlistData, and Relay::relayConvert with its convert...   *)
(* functions; those on names and ports are in RelayNames and RelayTables.  *)
(* One step is one net of the filter, or one relay of the conversion.      *)
(*                                                                         *)
(* boardType is never set, so that convertChain returns an uninitialised   *)
(* int, and so does convertDevice for an expander that is not in ioData:   *)
(* both may be anything.                                                   *)
(***************************************************************************)
EXTENDS RelayTables

CONSTANTS Boards,      \* the [netlistData, ioData] relayConvert is given
          Spelling,    \* the text of each name
          AnyInt       \* values an uninitialised int may have

NamesAreSpelled(netlist) ==
    \A n \in DOMAIN netlist : \A j \in DOMAIN netlist[n] : netlist[n][j].name \in DOMAIN Spelling

ASSUME ConvertAssumption ==
    /\ \A b \in Boards : /\ b.netlistData \in Seq(Seq(Line))
                         /\ b.ioData \in Seq(IO)
                         /\ NamesAreSpelled(b.netlistData)
    /\ \A name \in DOMAIN Spelling : Spelling[name] \in Seq(STRING)
    /\ AnyInt \subseteq Int

VARIABLES convertAt,     \* filter, convert, done, threw or crashed
          nextNet,       \* the net the filter is at, from 1
          relayList,
          deviceModifier,
          relayData      \* the rows; the next relay is number Len + 1

relayVars == <<convertAt, nextNet, relayList, deviceModifier, relayData>>
convertVars == <<netlistData, ioData, relayVars>>

(* The place where the filter stops in a net, if it does. *)
FilterStop(net) ==
    {j \in DOMAIN net : /\ StopsFilter(net[j])
                        /\ \A m \in 1..j - 1 : ~ StopsFilter(net[m])}
IsRelay(net) == \E j \in FilterStop(net) : net[j].connection # TooLarge
Overflows(net) == \E j \in FilterStop(net) : net[j].connection = TooLarge
-------------------------------------------------------------------------
(* The first element of ioData for the expander, or an uninitialised int.  *)
ConvertDevice(net) ==
    LET here == {k \in DOMAIN ioData :
                    ioData[k].identifier = ExpanderLine(net).identifier}
    IN IF here = {} THEN AnyInt ELSE {ioData[Min(here)].position + deviceModifier}

(* The strength of the first relay model on the net. *)
ConvertDriveStrength(net) ==
    LET models == {j \in DOMAIN net : IsModel(net[j])}
    IN IF models = {} THEN "CONFIG_OUT" ELSE ModelData[net[Min(models)].device]

(* The resistor that is looked up: the last one of the net before or at    *)
(* the line by which both a resistor and a relay model have been seen.     *)
IsResistor(line) == line.device = "RESISTOR"
Resistor(net) ==
    LET seen == {j \in DOMAIN net : /\ \E m \in 1..j : IsModel(net[m])
                                    /\ \E m \in 1..j : IsResistor(net[m])}
        passed == {m \in 1..Min(seen) : IsResistor(net[m])}
    IN IF seen = {} THEN {} ELSE {net[Max(passed)].identifier}

(* The lookup reads all lines, net by net, until it meets one of the       *)
(* resistor on GND or the second one that is not.                          *)
Ends(x) == {p \in Places : LineAt(p).identifier = x}
GroundedAnyResistor(x) == \E p \in Places : IsResistor(LineAt(p)) /\ LineAt(p).name = "GND"
Grounded(x) == \E p \in Ends(x) : /\ LineAt(p).name = "GND"
                                  /\ Cardinality({q \in Ends(x) : Before(q, p)}) < 2
ConvertNormalState(net) ==
    IF \E x \in Resistor(net) : Grounded(x) THEN "RELAY_NC" ELSE "RELAY_NO"

(* The row of a relay; a normally closed one is driven by CONFIG_OUT. *)
NameOf(net) == Spelling[net[1].name]
RowIgnoringState(net, device) ==
    [pin |-> ConvertPin(NameOf(net)),
     enumeration |-> ConvertEnum(NameOf(net)),
     chainNumber |-> IF deviceModifier = 18 THEN 1 ELSE 0,
     deviceNumber |-> device,
     portNumber |-> ConvertPort(net),
     normalState |-> ConvertNormalState(net),
     driveStrength |-> ConvertDriveStrength(net),
     relayName |-> net[1].name]
Row(net, device) ==
    LET normal == ConvertNormalState(net)
    IN [pin |-> ConvertPin(NameOf(net)),
        enumeration |-> ConvertEnum(NameOf(net)),
        chainNumber |-> IF deviceModifier = 18 THEN 1 ELSE 0,
        deviceNumber |-> device,
        portNumber |-> ConvertPort(net),
        normalState |-> normal,
        driveStrength |-> IF normal = "RELAY_NC" THEN "CONFIG_OUT"
                          ELSE ConvertDriveStrength(net),
        relayName |-> net[1].name]
-------------------------------------------------------------------------
RelayBegins == /\ convertAt = "filter"
               /\ nextNet = 1
               /\ relayList = <<>>
               /\ deviceModifier = 0
               /\ relayData = <<>>
ConvertInit == /\ \E board \in Boards : /\ netlistData = board.netlistData
                                        /\ ioData = board.ioData
               /\ RelayBegins

(* One net of filterNetlistData. *)
Filter == /\ convertAt = "filter"
          /\ nextNet <= Len(netlistData)
          /\ ~ Overflows(netlistData[nextNet])
          /\ relayList' = IF IsRelay(netlistData[nextNet])
                          THEN Append(relayList, netlistData[nextNet]) ELSE relayList
          /\ nextNet' = nextNet + 1
          /\ UNCHANGED <<netlistData, ioData, convertAt, deviceModifier, relayData>>

FilterThrows == /\ convertAt = "filter"
                /\ nextNet <= Len(netlistData)
                /\ Overflows(netlistData[nextNet])
                /\ convertAt' = "threw"
                /\ UNCHANGED <<netlistData, ioData, nextNet, relayList, deviceModifier, relayData>>

(* relayConvert begins with the chain number, for what it is worth. *)
BeginWithoutElse == /\ convertAt = "filter"
                    /\ nextNet > Len(netlistData)
                    /\ convertAt' = "convert"
                    /\ deviceModifier' \in {18} \union AnyInt
                    /\ UNCHANGED <<netlistData, ioData, nextNet, relayList, relayData>>
BeginConvert == /\ convertAt = "filter"
                /\ nextNet > Len(netlistData)
                /\ convertAt' = "convert"
                /\ deviceModifier' \in {18, 21}
                /\ UNCHANGED <<netlistData, ioData, nextNet, relayList, relayData>>

CurrentRelay == relayList[Len(relayData) + 1]
AtRelay == convertAt = "convert" /\ Len(relayData) < Len(relayList)

Convert == /\ AtRelay
           /\ Splittable(NameOf(CurrentRelay))
           /\ ~ PortThrows(CurrentRelay)
           /\ \E device \in ConvertDevice(CurrentRelay) :
                 relayData' = Append(relayData, Row(CurrentRelay, device))
           /\ UNCHANGED <<netlistData, ioData, convertAt, nextNet, relayList, deviceModifier>>

(* stoi(portIdentifier) throws. *)
ConvertThrows == /\ AtRelay
                 /\ Splittable(NameOf(CurrentRelay))
                 /\ PortThrows(CurrentRelay)
                 /\ convertAt' = "threw"
                 /\ UNCHANGED <<netlistData, ioData, nextNet, relayList, deviceModifier, relayData>>

(* convertEnum comes before convertPort, and the memory of a vector        *)
(* without elements cannot be read: the program ends.                      *)
ConvertCrashes == /\ AtRelay
                  /\ ~ Splittable(NameOf(CurrentRelay))
                  /\ convertAt' = "crashed"
                  /\ UNCHANGED <<netlistData, ioData, nextNet, relayList, deviceModifier, relayData>>

EndConvert == /\ convertAt = "convert"
              /\ Len(relayData) = Len(relayList)
              /\ convertAt' = "done"
              /\ UNCHANGED <<netlistData, ioData, nextNet, relayList, deviceModifier, relayData>>

ConvertNext == \/ Filter \/ FilterThrows \/ BeginConvert
               \/ Convert \/ ConvertThrows \/ ConvertCrashes \/ EndConvert

ConvertSpec == ConvertInit /\ [][ConvertNext]_convertVars
-------------------------------------------------------------------------
(* Type invariant. *)
ConvertTypeOK ==
    /\ convertAt \in {"filter", "convert", "done", "threw", "crashed"}
    /\ netlistData \in Seq(Seq(Line))
    /\ nextNet \in 1..Len(netlistData) + 1
    /\ relayList \in Seq(Seq(Line))
    /\ deviceModifier \in {0, 18, 21}
    /\ Len(relayData) <= Len(relayList)
    /\ \A n \in DOMAIN relayData :
          /\ relayData[n].deviceNumber \in Int
          /\ relayData[n].normalState \in {"RELAY_NO", "RELAY_NC"}

(* A board on which addresses can be told apart: a relay has one pin of an *)
(* expander and a pin one relay, and ioData has every expander once.       *)
OnePinPerRelay(netlist) ==
    \A n \in RelayNets(netlist) : \A j, l \in DOMAIN netlist[n] :
       IsExpander(netlist[n][j]) /\ IsExpander(netlist[n][l]) => j = l
OneRelayPerPin(netlist) ==
    \A n, m \in RelayNets(netlist) :
       \A j \in DOMAIN netlist[n], l \in DOMAIN netlist[m] :
          /\ IsExpander(netlist[n][j])
          /\ IsExpander(netlist[m][l])
          /\ netlist[n][j].identifier = netlist[m][l].identifier
          /\ netlist[n][j].connection = netlist[m][l].connection
          => n = m
InOrder == /\ \A n, m \in DOMAIN ioData :
                 \/ n = m
                 \/ /\ ioData[n].identifier # ioData[m].identifier
                    /\ ioData[n].position # ioData[m].position
           /\ \A p \in Places : IsExpander(LineAt(p)) =>
                 \E n \in DOMAIN ioData : ioData[n].identifier = LineAt(p).identifier
Addressable == OnePinPerRelay(netlistData) /\ OneRelayPerPin(netlistData) /\ InOrder

(* No two relays of such a board are given one address: device number and  *)
(* port determine the row, although they are computed from different parts *)
(* of the input by two functions that do not know of each other            *)
(* (Relay.cpp:85-216).  A port that is missing is not an address.          *)
DistinctAddresses ==
    Addressable =>
       \A n, m \in DOMAIN relayData :
          /\ relayData[n].deviceNumber = relayData[m].deviceNumber
          /\ relayData[n].portNumber = relayData[m].portNumber
          /\ relayData[n].portNumber # NoPort
          => n = m

(* The relays are the nets with a pin a relay can be on, each once and in  *)
(* the order of the netlist, and the rows follow them, also when the       *)
(* conversion ends by an exception (Input.cpp:151-194, Relay.cpp:321-340). *)
OneRowPerRelayNet ==
    /\ ListsTheRelays(relayList, netlistData, nextNet - 1)
    /\ \A n \in DOMAIN relayData : relayData[n].relayName = relayList[n][1].name

(* A row drives the pin that made its net a relay: port and device number  *)
(* are of the line at which the filter stopped, whenever no other line of  *)
(* an expander is in front of it, although filter, convertDevice and       *)
(* convertPort each look for their line; and the number is known if that   *)
(* expander is in ioData (Input.cpp:151-194, Relay.cpp:89-103, 115-126).   *)
RowDrivesTheRelayPin ==
    \A n \in DOMAIN relayData : \A j \in FilterStop(relayList[n]) :
       LET net == relayList[n]
           port == net[j].connection
           here == {k \in DOMAIN ioData : ioData[k].identifier = net[j].identifier}
       IN (\A m \in 1..j - 1 : ~ IsExpander(net[m])) =>
             /\ relayData[n].portNumber = IF port \in DOMAIN PortOf THEN PortOf[port] ELSE NoPort
             /\ here # {} => \E k \in here :
                   relayData[n].deviceNumber = ioData[k].position + deviceModifier

(* A relay of a net with one resistor, that has two ends, is normally      *)
(* closed exactly if one of its ends is on GND, wherever in the netlist    *)
(* that end is found (Relay.cpp:249-296).                                  *)
PulledDown(x) == \E p \in Ends(x) : LineAt(p).name = "GND"
PulldownMeansClosed ==
    \A n \in DOMAIN relayData :
       LET net == relayList[n]
           resistors == {net[j].identifier : j \in {j \in DOMAIN net : IsResistor(net[j])}}
       IN (\E j \in DOMAIN net : IsModel(net[j])) =>
             \A x \in resistors :
                resistors = {x} /\ Cardinality(Ends(x)) <= 2 =>
                   (relayData[n].normalState = "RELAY_NC" <=> PulledDown(x))

(* Only a row of a relay model that is normally open has the current of    *)
(* the model; all the others are outputs (Relay.cpp:330-336).              *)
DriveFollowsModel ==
    \A n \in DOMAIN relayData :
       relayData[n].driveStrength # "CONFIG_OUT" =>
          /\ relayData[n].normalState = "RELAY_NO"
          /\ \E j \in DOMAIN relayList[n] :
                /\ IsModel(relayList[n][j])
                /\ relayData[n].driveStrength = ModelData[relayList[n][j].device]

(* The pin of a relay and its enumeration name the same pin, for names of  *)
(* up to as many characters as the code of their last one, and one more:   *)
(* convertPin and convertEnum take the number from the end of the name in  *)
(* two ways, of which the second cuts longer names (Relay.cpp:8-27, 49).   *)
EnumerationNamesThePin ==
    \A n \in DOMAIN relayData :
       LET name == Spelling[relayData[n].relayName]
       IN EndsInDigit(name) /\ Len(name) <= CodeOf(Last(name)) + 1 =>
             /\ ConvertPin(relayData[n].enumeration) = relayData[n].pin
             /\ EndsInDigit(relayData[n].enumeration)

(* Relay.cpp:248 checks if any of the identifiers specify the relay as     *)
(* normally closed: a relay one of whose resistors leads to GND is.        *)
AnyPulldownMeansClosed ==
    \A n \in DOMAIN relayData :
       LET net == relayList[n]
       IN /\ \E j \in DOMAIN net : IsModel(net[j])
          /\ \E j \in DOMAIN net : IsResistor(net[j]) /\ PulledDown(net[j].identifier)
          => relayData[n].normalState = "RELAY_NC"

(* Relay.cpp:48 replaces the middle information of a name with CIB, and    *)
(* keeps the rest: the last word of a name with a number at its end is the *)
(* last word of the enumeration.                                           *)
LastWord(name) == SubSeq(name, Max(NameBreaks(name)) + 1, Len(name))
MiddleBecomesCIB ==
    \A n \in DOMAIN relayData :
       LET name == Spelling[relayData[n].relayName]
       IN EndsInDigit(name) => IsSuffix(LastWord(name), relayData[n].enumeration)
=========================================================================
