--------------------------- MODULE StandAlone ---------------------------
(***************************************************************************)
(* The command line tool of relay.cpp, from which the service was made.    *)
(* Its getBillData reads as that of the service does, and its second loop  *)
(* of getDeviceOrder goes on as that of DeviceOrder; the relays are found  *)
(* while the netlist is read, the first expander in another way, and drive *)
(* strength and normal state come from other parts of the netlist.  The    *)
(* tool does not turn its lines into upper case; the service does, which   *)
(* is left out there, so that both are compared on upper-case files.       *)
(*                                                                         *)
(* Nobody catches an exception: it terminates the program.  ioData has an  *)
(* element from the beginning, so that expanders, which the tool counts    *)
(* from 0, is one more here, the length of ioData.                         *)
(***************************************************************************)
EXTENDS BillReader, NetlistReader, DeviceOrder, RelayTables

CONSTANTS ToolInputs,   \* the pairs of bill and netlist file it is called with
          ToolSpelling  \* the text of each name

ASSUME ToolAssumption ==
    /\ \A files \in ToolInputs :
          /\ files[1] \in Seq(Seq(STRING)) /\ files[2] \in Seq(Line)
          /\ \A n \in DOMAIN files[1] : Len(files[1][n]) < SizeMax
    /\ \A name \in DOMAIN ToolSpelling : ToolSpelling[name] \in Seq(STRING)

VARIABLES stage,            \* read, order, written, failed (no file), or what an
                            \* exception or crash ended: scanThrew, convertEnded
          relayConnection,  \* the net that is read has a relay pin
          relayList,
          gndData,          \* the coils and contacts on GND
          relayData,
          outputFile        \* the rows of the CSV file

toolVars == <<stage, relayConnection, relayList, gndData, relayData, outputFile>>
standAloneVars == <<billVars, readerVars, orderVars, toolVars>>

ToolInit ==
    /\ \E files \in ToolInputs : billFile = files[1] /\ netlistFile = files[2]
    /\ BillBegins /\ ReaderBegins /\ OrderBegins
    /\ stage = "read"
    /\ relayConnection = FALSE
    /\ relayList = <<>>
    /\ gndData = {}
    /\ relayData = <<>>
    /\ outputFile = <<>>

ReadBill == BillNext /\ UNCHANGED <<readerVars, orderVars, toolVars>>

(* A coil or contact of a relay, under the key gndData has it. *)
IsCoil(line) == Substr(line.identifier, 0, 1) = "K"
KeyOfIdentifier(line) == line.identifier
KeyOf(line) == line.identifier \o "_" \o line.device
-------------------------------------------------------------------------
(* One line of getNetlistData.  If it begins another net, the net before   *)
(* it becomes a relay if one of its lines was on a relay pin.              *)
Reading == stage = "read" /\ billAt = "done"
NextHolder == Columns(netlistFile[linesRead + 1])
NetEnds == StartsNet(netlistFile[linesRead + 1])
MarkedForEver == relayConnection
Marked == relayConnection /\ ~ NetEnds
LineOverflows == ~ Marked /\ StopsFilter(NextHolder) /\ NextHolder.connection = TooLarge

ScanLine ==
    /\ Reading
    /\ ReadLine
    /\ ~ LineOverflows
    /\ relayList' = IF NetEnds /\ relayConnection
                    THEN Append(relayList, netlistData[loopCounter + 1]) ELSE relayList
    /\ relayConnection' = (Marked \/ StopsFilter(NextHolder))
    /\ gndData' = IF NextHolder.name = "GND" /\ IsCoil(NextHolder)
                  THEN gndData \union {KeyOf(NextHolder)} ELSE gndData
    /\ UNCHANGED <<billVars, at, ioData, expanders, i, l, stage, relayData, outputFile>>

(* stoi of a relay pin throws. *)
ScanTerminates ==
    /\ Reading
    /\ linesRead < Len(netlistFile)
    /\ LineOverflows
    /\ stage' = "scanThrew"
    /\ UNCHANGED <<billVars, readerVars, orderVars, relayConnection, relayList, gndData,
                   relayData, outputFile>>

(* The file is read; its last net may be a relay too. *)
LastNet ==
    /\ Reading
    /\ linesRead = Len(netlistFile)
    /\ relayList' = IF relayConnection
                    THEN Append(relayList, netlistData[loopCounter + 1]) ELSE relayList
    /\ relayConnection' = FALSE
    /\ stage' = "order"
    /\ UNCHANGED <<billVars, readerVars, orderVars, gndData, relayData, outputFile>>
-------------------------------------------------------------------------
(* getFirstDevice: of the first net with a DIN and no DOUT, the first line *)
(* of an expander, whatever its pin; without one, ioData[0] stays empty.   *)
FirstDeviceOfAnyNet ==
    /\ stage = "order" /\ at = "first"
    /\ LET sources == {k \in DOMAIN netlistData : HasDin(netlistData[k])}
       IN ioData' = <<IF sources = {} THEN DefaultIO
                      ELSE [identifier |-> ExpanderLine(netlistData[Min(sources)]).identifier,
                            position |-> 1]>>
    /\ expanders' = 1
    /\ at' = "chain"
    /\ UNCHANGED <<billVars, readerVars, i, l, toolVars>>
GetFirstDevice ==
    /\ stage = "order" /\ at = "first"
    /\ LET sources == {k \in DOMAIN netlistData : IsSource(netlistData[k])}
       IN ioData' = <<IF sources = {} THEN DefaultIO
                      ELSE [identifier |-> ExpanderLine(netlistData[Min(sources)]).identifier,
                            position |-> 1]>>
    /\ expanders' = 1
    /\ at' = "chain"
    /\ UNCHANGED <<billVars, readerVars, i, l, toolVars>>

(* The loop over the passes, which push_back may end. *)
FollowChain ==
    /\ stage = "order" /\ at = "chain"
    /\ Follow \/ PushBackThrows \/ LastDevice \/ NextLine \/ NextNet \/ NextPass
    /\ UNCHANGED <<billVars, readerVars, toolVars>>
-------------------------------------------------------------------------
(* boardType is "Power": chain 0, and 21 is added.  An expander that is    *)
(* not in ioData counts as position 0.                                     *)
ToolDevice(net) ==
    LET here == {k \in DOMAIN ioData :
                    ioData[k].identifier = ExpanderLine(net).identifier}
    IN 21 + (IF here = {} THEN 0 ELSE ioData[Min(here)].position)

(* The strength is that of the first line with a name that says so, or     *)
(* with a relay model; the last line without either leaves it empty.       *)
SaysOutput(line) == Occurrences(line.identifier, "_NC_") # {} \/ Occurrences(line.name, "_EN") # {}
GivesStrength(line) == SaysOutput(line) \/ IsModel(line)
ToolStrength(net) ==
    LET giving == {j \in DOMAIN net : GivesStrength(net[j])}
        line == net[Min(giving)]
    IN IF giving = {} THEN ""
       ELSE IF SaysOutput(line) THEN "CONFIG_OUT" ELSE ModelData[line.device]

ToolState(net) ==
    IF \E line \in ToSet(net) : IsCoil(line) /\ KeyOf(line) \in gndData
    THEN "RELAY_NC" ELSE "RELAY_NO"

(* The tool has copies of its own of these three functions. *)
ToolNameOf(net) == ToolSpelling[net[1].name]
ToolPin(net) == ConvertPin(ToolNameOf(net))
ToolEnum(net) == ConvertEnum(ToolNameOf(net))
ToolPort(net) == ConvertPort(net)

ToolRow(net) ==
    [pin |-> ToolPin(net),
     enumeration |-> ToolEnum(net),
     chainNumber |-> 0,
     deviceNumber |-> ToolDevice(net),
     portNumber |-> ToolPort(net),
     driveStrength |-> ToolStrength(net),
     normalState |-> ToolState(net),
     relayName |-> net[1].name]

(* One relay of relayConvert. *)
Converting == stage = "order" /\ at = "done"
ConvertRelay ==
    /\ Converting
    /\ Len(relayData) < Len(relayList)
    /\ LET net == relayList[Len(relayData) + 1]
       IN /\ Splittable(ToolNameOf(net))
          /\ ~ PortThrows(net)
          /\ relayData' = Append(relayData, ToolRow(net))
    /\ UNCHANGED <<billVars, readerVars, orderVars, stage, relayConnection, relayList,
                   gndData, outputFile>>

(* A name without underscore, or a pin that stoi cannot read. *)
ConversionEnds ==
    /\ Converting
    /\ Len(relayData) < Len(relayList)
    /\ LET net == relayList[Len(relayData) + 1]
       IN ~ Splittable(ToolNameOf(net)) \/ PortThrows(net)
    /\ stage' = "convertEnded"
    /\ UNCHANGED <<billVars, readerVars, orderVars, relayConnection, relayList, gndData,
                   relayData, outputFile>>

(* writeCSV: all rows at once, since nobody else uses the file. *)
WriteCSV ==
    /\ Converting
    /\ Len(relayData) = Len(relayList)
    /\ outputFile' = relayData
    /\ stage' = "written"
    /\ UNCHANGED <<billVars, readerVars, orderVars, relayConnection, relayList, gndData,
                   relayData>>
OpenFileFails ==
    /\ Converting
    /\ Len(relayData) = Len(relayList)
    /\ stage' = "failed"
    /\ UNCHANGED <<billVars, readerVars, orderVars, relayConnection, relayList, gndData,
                   relayData, outputFile>>
-------------------------------------------------------------------------
ToolNext == \/ ReadBill \/ ScanLine \/ ScanTerminates \/ LastNet
            \/ GetFirstDevice \/ FollowChain
            \/ ConvertRelay \/ ConversionEnds \/ WriteCSV \/ OpenFileFails

ToolSpec == ToolInit /\ [][ToolNext]_standAloneVars

(* One thread runs it, and waits for nobody. *)
FairToolSpec == ToolSpec /\ WF_standAloneVars(ToolNext)
-------------------------------------------------------------------------
(* Type invariant. *)
ToolTypeOK ==
    /\ BillTypeOK /\ ReaderTypeOK /\ OrderTypeOK
    /\ stage \in {"read", "order", "written", "failed", "scanThrew", "convertEnded"}
    /\ relayConnection \in BOOLEAN
    /\ relayList \in Seq(Seq(Line))
    /\ gndData \subseteq {KeyOf(Columns(line)) : line \in ToSet(netlistFile)}
    /\ at # "first" => expanders = Len(ioData)
    /\ Len(relayData) <= Len(relayList)

(* The relays that the tool collects while it reads the netlist, from a    *)
(* flag that outlives a net only at its end, are the ones the service      *)
(* filters out of the whole netlist afterwards, in the same order          *)
(* (relay.cpp:306-324, 360-367, 393-408, Input.cpp:151-194).               *)
ScanFindsTheRelays ==
    LET read == IF stage \in {"read", "scanThrew"} THEN loopCounter ELSE Len(netlistData)
    IN ListsTheRelays(relayList, netlistData, read)

(* The tool takes the first expander on a source net for the one with the  *)
(* DIN.  Where that is right, ioData is a chain of the wiring from the     *)
(* first source on, without repetition, and complete when the loop ends:   *)
(* the order the service finds (relay.cpp:421-513).                        *)
SourcesBeginWithDin(netlist) ==
    \A k \in DOMAIN netlist : IsSource(netlist[k]) => IsDin(ExpanderLine(netlist[k]))
SameOrderAsTheService ==
    /\ at # "first"
    /\ HasSource(netlistData)
    /\ SourcesBeginWithDin(netlistData)
    => FollowsTheWiring /\ NoneTwice /\ EndsAtTerminator

(* A relay is normally closed if and only if a coil or contact on its net  *)
(* is also on GND, before it in the file or behind it, in a part with the  *)
(* same name (relay.cpp:381-382, 784-806); on a board where identifier and *)
(* name of a part are told from both joined, which underscores can spoil.  *)
TellsParts(line, other) ==
    line.identifier \o "_" \o line.device = other.identifier \o "_" \o other.device =>
       line.identifier = other.identifier /\ line.device = other.device
KeysTellParts ==
    \A a, b \in ToSet(netlistFile) : TellsParts(Columns(a), Columns(b))
ClosedMeansOnGround ==
    KeysTellParts =>
    \A n \in DOMAIN relayData :
       relayData[n].normalState = "RELAY_NC" <=>
          \E line \in ToSet(relayList[n]), other \in ToSet(netlistFile) :
             /\ IsCoil(line)
             /\ other.name = "GND"
             /\ other.identifier = line.identifier
             /\ other.device = line.device

(* The file is written, or cannot be opened, whenever the bill has no list *)
(* that stays open, no pin has a number that is too large, the board can   *)
(* be built with a chain that runs into a terminator, and its relays have  *)
(* names that can be split and pins that are numbers; the file then has a  *)
(* row for each relay (relay.cpp:868-925).                                 *)
ClosedToolBoard ==
    /\ WellFormed(netlistData)
    /\ Closed(netlistData)
    /\ SourcesBeginWithDin(netlistData)
    /\ \A n \in DOMAIN netlistData :
          HasRelayPin(netlistData[n]) => /\ Splittable(ToolNameOf(netlistData[n]))
                                         /\ ~ PortThrows(netlistData[n])
OneRowPerRelay == Len(outputFile) = Cardinality(RelayNets(netlistData))
ToolEnds ==
    billAt = "line" /\ (\A n \in DOMAIN billFile : ~ OpensLastCell(billFile[n]))
       ~> \/ stage = "failed"
          \/ stage = "written" /\ OneRowPerRelay
          \/ stage = "scanThrew" /\ \E line \in ToSet(netlistFile) : line.connection = TooLarge
          \/ stage \notin {"read", "scanThrew"} /\ ~ ClosedToolBoard
=========================================================================
