--------------------------- MODULE RelayTables --------------------------
(***************************************************************************)
(* What the service and the stand-alone tool have in common in their       *)
(* conversion of a relay: the models, the pins and ports of an expander,   *)
(* and the lines of a net they are taken from.  A device name contains a   *)
(* relay model if it is that model.                                        *)
(***************************************************************************)
EXTENDS Netlist, RelayNames

(* The table of Input::getRelayModels. *)
ModelData ==
    [model \in {"9901-05-20", "G3VM-101QR1", "G3VM-41QR10", "AQY225R3TY",
                "120-1-A-5/1", "50935"} |->
        CASE model = "9901-05-20" -> "CONFIG_LED_18p0_mA"
          [] model \in {"G3VM-101QR1", "G3VM-41QR10", "AQY225R3TY"} -> "CONFIG_LED_10p5_mA"
          [] model \in {"120-1-A-5/1", "50935"} -> "CONFIG_LED_21p0_mA"]

IsModel(line) == line.device \in DOMAIN ModelData

(* Numbers of pins of an expander that no relay can be on. *)
NotARelayPin == {11, 20} \union 31..40

AllDigits(line) == line.connection # NotDigits /\ line.connection < Suffixed(0)

(* What makes a net a relay: a line of an expander with a number that is   *)
(* not one of the excluded ones.                                           *)
StopsAnywhere(line) == IsExpander(line) /\ AllDigits(line)
StopsFilter(line) == /\ IsExpander(line)
                     /\ AllDigits(line)
                     /\ line.connection \notin NotARelayPin

(* The first line of a net on an expander, from which device and port are  *)
(* taken; every net of relayList has one.                                  *)
ExpanderLine(net) == net[Min({j \in DOMAIN net : IsExpander(net[j])})]

(* stoi reads the digits, and ignores what is behind them. *)
Stoi(line) == IF line.connection < Suffixed(0) THEN line.connection
              ELSE line.connection - Suffixed(0)

(* The port of each pin, of 1 on; pins with no port, of which the filter   *)
(* lets some through, get an empty text.                                   *)
NoPort == ""
PortOf ==
    <<"P8", "P12", "P9", "P13", "P10", "P14", "P11", "P15", "P16", "P17",
      NoPort, "P18", "P19", "P20", "P21", "P22", "P23", "P24", "P25", NoPort,
      "P26", "P27", "P28", "P7", "P29", "P6", "P30", "P5", "P31", "P4">>
PortOfLastLine(net) ==
    LET c == Stoi(net[Max({j \in DOMAIN net : IsExpander(net[j])})])
    IN IF c \in DOMAIN PortOf THEN PortOf[c] ELSE NoPort
PortByTens(net) == LET c == Stoi(ExpanderLine(net))
                   IN IF c \in DOMAIN PortOf THEN PortOf[(c % 10) + 1] ELSE NoPort
ConvertPort(net) == LET c == Stoi(ExpanderLine(net))
                    IN IF c \in DOMAIN PortOf THEN PortOf[c] ELSE NoPort

(* stoi throws. *)
PortThrows(net) == ExpanderLine(net).connection \in {NotDigits, TooLarge}
-------------------------------------------------------------------------
(* The nets with a pin a relay can be on, without a program. *)
HasRelayPin(net) == \E j \in DOMAIN net : /\ IsExpander(net[j])
                                          /\ AllDigits(net[j])
                                          /\ net[j].connection \notin NotARelayPin
RelayNets(netlist) == {n \in DOMAIN netlist : HasRelayPin(netlist[n])}

(* list is made of the ones of the first nets, each once and in order:     *)
(* place[n] is where the n-th was found.                                   *)
ListsTheRelays(list, netlist, nets) ==
    \E place \in [DOMAIN list -> 1..nets] :
       /\ \A n, m \in DOMAIN list : n < m => place[n] < place[m]
       /\ {place[n] : n \in DOMAIN list} = {k \in 1..nets : HasRelayPin(netlist[k])}
       /\ \A n \in DOMAIN list : list[n] = netlist[place[n]]
=========================================================================
