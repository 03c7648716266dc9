--------------------------- MODULE InputData ----------------------------
(***************************************************************************)
(* What handleQuery computes: Input::getInputData, which reads the bill of *)
(* materials, reads the netlist, filters the relays and orders the         *)
(* expanders, and Relay::relayConvert after it.  Each of them begins when  *)
(* the one before it has returned; one that throws, crashes or does not    *)
(* return is the end of all.                                               *)
(***************************************************************************)
EXTENDS BillReader, NetlistReader, DeviceOrder, RelayConvert

CONSTANT Inputs   \* the pairs of bill and netlist file of the requests

ASSUME InputAssumption ==
    \A files \in Inputs :
       /\ files[1] \in Seq(Seq(STRING)) /\ files[2] \in Seq(Line)
       /\ \A n \in DOMAIN files[1] : Len(files[1][n]) < SizeMax

inputVars == <<billVars, readerVars, orderVars, relayVars>>

InputInit == /\ \E files \in Inputs : billFile = files[1] /\ netlistFile = files[2]
             /\ BillBegins /\ ReaderBegins /\ OrderBegins /\ RelayBegins

BillRead == billAt = "done"
NetlistRead == BillRead /\ linesRead = Len(netlistFile)
Filtered == NetlistRead /\ convertAt = "filter" /\ nextNet > Len(netlistData)

GetBillData == BillNext /\ UNCHANGED <<readerVars, orderVars, relayVars>>

GetNetlistData == /\ BillRead
                  /\ ReaderNext
                  /\ UNCHANGED <<billVars, at, ioData, expanders, i, l, relayVars>>

FilterNetlistData ==
    /\ NetlistRead
    /\ Filter \/ FilterThrows
    /\ UNCHANGED <<billVars, readerVars, at, expanders, i, l>>

GetDeviceOrder == Filtered /\ OrderNext /\ UNCHANGED <<billVars, readerVars, relayVars>>

ConvertRelays ==
    /\ at = "done"
    /\ BeginConvert \/ Convert \/ ConvertThrows \/ ConvertCrashes \/ EndConvert
    /\ UNCHANGED <<billVars, readerVars, at, expanders, i, l>>

InputNext == \/ GetBillData \/ GetNetlistData \/ FilterNetlistData
             \/ GetDeviceOrder \/ ConvertRelays

InputSpec == InputInit /\ [][InputNext]_inputVars

(* One thread runs it, and waits for nobody. *)
FairInputSpec == InputSpec /\ WF_inputVars(InputNext)
-------------------------------------------------------------------------
(* Type invariant. *)
InputTypeOK ==
    /\ BillTypeOK /\ ReaderTypeOK /\ OrderTypeOK
    /\ convertAt \in {"filter", "convert", "done", "threw", "crashed"}
    /\ relayList \in Seq(Seq(Line))
    /\ Len(relayData) <= Len(relayList)

(* A board that can be built and whose expanders are one chain, with one   *)
(* pin for each relay and no relay pin whose number is too large.          *)
ChainOfAll(netlist) ==
    \E path \in Chains(netlist) :
       /\ Terminated(netlist, path[Len(path)])
       /\ ToSet(path) = ExpandersOf(netlist)
GoodBoard(netlist) ==
    /\ WellFormed(netlist)
    /\ OnePinPerRelay(netlist) /\ OneRelayPerPin(netlist)
    /\ \A n \in DOMAIN netlist : ~ Overflows(netlist[n])
    /\ ChainOfAll(netlist)

(* On a good board the device number of a relay is the place of its        *)
(* expander along the wiring, behind the modifier of the chain, whatever   *)
(* the order of the lines in the file: reader, filter, order and           *)
(* conversion, each of which finds its nets again, are of one mind         *)
(* (Input.cpp:370-388, Relay.cpp:94-100).                                  *)
NumberIsPlaceOnChain ==
    relayData # <<>> /\ GoodBoard(netlistData) =>
       \A path \in Chains(netlistData), n \in DOMAIN relayData :
          \A k \in DOMAIN path :
             path[k] = ExpanderLine(relayList[n]).identifier
                => relayData[n].deviceNumber = deviceModifier + k

(* Rows are only made of a netlist that has an expander with a DOUT and no *)
(* DIN behind it: on every other board getDeviceOrder does not come back,  *)
(* also if there are no relays, and no expanders, on it (Input.cpp:305).   *)
RowsNeedATerminator ==
    convertAt \in {"convert", "done"} =>
       \E n \in DOMAIN netlistData : HasDout(netlistData[n]) /\ ~ HasDin(netlistData[n])

(* A request whose bill has no list that stays open gets a row for each    *)
(* relay, if the board can be built, the chain from its first source runs  *)
(* into a terminator, and the relays have names that can be split and pins *)
(* that are numbers: nothing else can throw, crash or go on for ever, and  *)
(* whichever pass over the netlist finds which link does not matter        *)
(* (Input.cpp:40-57, 156, 305-341, Relay.cpp:49, 126).                     *)
BillIsClosed == \A n \in DOMAIN billFile : ~ OpensLastCell(billFile[n])
Convertible(net) == Splittable(NameOf(net)) /\ ~ PortThrows(net)
ClosedBoard(netlist) ==
    /\ WellFormed(netlist)
    /\ Closed(netlist)
    /\ \A n \in DOMAIN netlist : ~ Overflows(netlist[n])
    /\ \A n \in RelayNets(netlist) : Convertible(netlist[n])
AllRowsMade == /\ convertAt = "done"
               /\ Len(relayData) = Cardinality(RelayNets(netlistData))
ClosedBoardsAreConverted ==
    billAt = "line" /\ BillIsClosed
       ~> NetlistRead /\ (AllRowsMade \/ ~ ClosedBoard(netlistData))
=========================================================================
