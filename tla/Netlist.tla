---------------------------- MODULE Netlist -----------------------------
(***************************************************************************)
(* What Input.cpp and Relay.cpp have in common: the members netlistData    *)
(* and ioData of Input.  The netlist is a sequence of nets, a net a        *)
(* sequence of lines, a line the four columns of a line of the file.  The  *)
(* four parallel vectors of NetlistData are one sequence here, since the   *)
(* code always fills them together.                                        *)
(*                                                                         *)
(* A connection is the number its digits spell, with a code of its own if  *)
(* something is behind the digits; the ones that do not begin with a digit,*)
(* and the ones whose number is too large for an int, have one code each.  *)
(* Names, identifiers and devices are only compared.                       *)
(***************************************************************************)
EXTENDS Naturals, Sequences, FiniteSets

VARIABLES netlistData,   \* the nets, as getNetlistData leaves them
          ioData         \* the expanders, in the order of the daisy chain

(* Texts are strings, also those without characters or of a blank. *)
NoText == ""
Blank == " "
ASSUME TextsAreStrings == NoText \in STRING /\ Blank \in STRING

Line == [name : STRING, identifier : STRING, connection : Nat, device : STRING]

DefaultIO == [identifier |-> NoText, position |-> 0]
IO == [identifier : STRING, position : Nat]

Expander == "MAX6957ATL_TQFN-40-MAX6957ATL+"

DIN == 33            \* the serial input of an expander
DOUT == 40           \* its serial output
NotDigits == 100     \* a connection that stoi answers with invalid_argument
TooLarge == 101      \* digits that stoi answers with std::out_of_range
Suffixed(n) == 200 + n    \* the digits of n, and something behind them

IsExpander(line) == line.device = Expander
IsDin(line) == IsExpander(line) /\ line.connection = DIN
IsDout(line) == IsExpander(line) /\ line.connection = DOUT

HasDin(net) == \E j \in DOMAIN net : IsDin(net[j])
HasDout(net) == \E j \in DOMAIN net : IsDout(net[j])

(* The first expander of a net whose DIN is on it; the net has one. *)
FirstDin(net) ==
    LET j == CHOOSE j \in DOMAIN net :
                /\ IsDin(net[j])
                /\ \A m \in DOMAIN net : IsDin(net[m]) => j <= m
    IN net[j].identifier

(* The places of the lines, net by net as the loops pass over them. *)
Places == UNION {{n} \X DOMAIN netlistData[n] : n \in DOMAIN netlistData}
LineAt(p) == netlistData[p[1]][p[2]]
Before(p, q) == p[1] < q[1] \/ (p[1] = q[1] /\ p[2] < q[2])
-------------------------------------------------------------------------
(* A netlist of a board that can be built: the serial pins of an expander  *)
(* are on one net each, and no two serial outputs drive one net.           *)
OnePlacePerPin(netlist) ==
    \A i, k \in DOMAIN netlist : \A j \in DOMAIN netlist[i], l \in DOMAIN netlist[k] :
       /\ IsExpander(netlist[i][j]) /\ IsExpander(netlist[k][l])
       /\ netlist[i][j].identifier = netlist[k][l].identifier
       /\ netlist[i][j].connection = netlist[k][l].connection
       /\ netlist[i][j].connection \in {DIN, DOUT}
       => i = k /\ j = l
OneDriver(netlist) ==
    \A i \in DOMAIN netlist : \A j, l \in DOMAIN netlist[i] :
       IsDout(netlist[i][j]) /\ IsDout(netlist[i][l]) => j = l
WellFormed(netlist) == OnePlacePerPin(netlist) /\ OneDriver(netlist)

(* The wiring, without a program: x drives y if the DOUT of x is on a net  *)
(* whose first DIN is that of y, and x ends a chain if the net of its DOUT *)
(* has no DIN.                                                             *)
Drives(netlist, x, y) ==
    \E i \in DOMAIN netlist :
       /\ \E j \in DOMAIN netlist[i] :
             IsDout(netlist[i][j]) /\ netlist[i][j].identifier = x
       /\ HasDin(netlist[i])
       /\ FirstDin(netlist[i]) = y
Terminated(netlist, x) ==
    \E i \in DOMAIN netlist :
       /\ \E j \in DOMAIN netlist[i] :
             IsDout(netlist[i][j]) /\ netlist[i][j].identifier = x
       /\ ~ HasDin(netlist[i])

(* A net that feeds the start of a chain: no expander drives it. *)
IsSource(net) == HasDin(net) /\ ~ HasDout(net)
HasSource(netlist) == \E i \in DOMAIN netlist : IsSource(netlist[i])
IsFirstSource(netlist, i) == /\ IsSource(netlist[i])
                             /\ \A k \in 1..i - 1 : ~ IsSource(netlist[k])

(* A chain: expanders from the one the first source feeds on, each driven  *)
(* by the one before it.  It is closed if it runs into a terminator.       *)
Identifiers(netlist) ==
    UNION {{netlist[i][j].identifier : j \in DOMAIN netlist[i]} : i \in DOMAIN netlist}
ExpandersOf(netlist) ==
    UNION {{netlist[i][j].identifier : j \in {j \in DOMAIN netlist[i] : IsExpander(netlist[i][j])}} :
           i \in DOMAIN netlist}
Chains(netlist) ==
    LET X == ExpandersOf(netlist)
    IN {path \in UNION {[1..n -> X] : n \in 1..Cardinality(X)} :
           /\ \E i \in DOMAIN netlist : /\ IsFirstSource(netlist, i)
                                        /\ FirstDin(netlist[i]) = path[1]
           /\ \A m \in 1..Len(path) - 1 : Drives(netlist, path[m], path[m + 1])}
Closed(netlist) == \E path \in Chains(netlist) : Terminated(netlist, path[Len(path)])
=========================================================================
