------------------------- MODULE MCStandAlone --------------------------
(***************************************************************************)
(* Instances of StandAlone for TLC: a chain of two expanders with a relay  *)
(* each, two expanders in any arrangement, and files of few lines.         *)
(***************************************************************************)
EXTENDS StandAlone, MCDeviceOrder

Part(x, device) == [name |-> "N", identifier |-> x, connection |-> 1, device |-> device]
NetOn(name, lines) == [n \in DOMAIN lines |-> [lines[n] EXCEPT !.name = name]]
InOrderOf(nets, order) == FlattenSeq([n \in DOMAIN order |-> nets[order[n]]])

(* The nets of the chain, the net of the first relay with its coil or      *)
(* contact, one on GND, and the net of the second relay, in every order.   *)
Coil == Part("K1", "50935")
Contact == Part("K1_NC_A", "AQY225R3TY")
ChainLines == NetOn("N1", <<Other, Pin("U1", DIN)>>)
              \o NetOn("N2", <<Pin("U2", DIN), Pin("U1", DOUT)>>)
              \o NetOn("N3", <<Pin("U2", DOUT)>>)
RelayFiles ==
    {InOrderOf(<<ChainLines, NetOn("RLY_A_1", first), NetOn("GND", ground), NetOn(name, second)>>,
               order) :
        order \in Permutations(1..4), name \in {"RLY_EN_2", "RLY3"},
        first \in {<<Pin("U1", 5), Coil>>, <<Coil, Contact, Pin("U1", 5)>>},
        ground \in {<<Other>>, <<Part("K1", "AQY225R3TY"), Coil>>, <<Contact>>,
                    <<Part("K1", "AQY225R3TY")>>},
        second \in {<<Pin("U2", 39), Pin("U2", 6)>>, <<Pin("U3", 7), Pin("U2", TooLarge)>>,
                    <<Pin("U2", TooLarge)>>, <<Pin("U2", NotDigits), Pin("U2", 6)>>}}

(* Sources whose first expander is not the one with the DIN. *)
OddSources == {NetOn("RLY_A_1", <<Pin(x, 5), Pin("U1", DIN)>>) \o NetOn("N2", <<Pin("U1", DOUT)>>) :
                  x \in {"U1", "U2"}}

BoardFiles ==
    {file \in {FlattenSeq(nets) : nets \in TwoExpanders} :
        file # <<>> => file[1].identifier = "U1"}

(* Files of at most four lines with two names and three lines each. *)
Named(n, pin) == [Pin("U1", pin) EXCEPT !.name = n]
SmallFiles == UNION {[1..m -> {Named("RLY_A_1", 5), Named("RLY_A_1", 39), Named("RLY_B_2", 6),
                               EmptyLine, SpaceLine}] : m \in 0..4}

(* A bill that is read, and one with a list that stays open. *)
FourCells == <<"7", Comma, "2", Comma, "M", Comma, "P", Comma>>
GoodBill == <<FourCells \o <<Quote, "R", Comma, "S", Quote, Comma, "D", Comma, Comma, "S", Comma, "8">>,
              FourCells \o <<"R", Comma, Quote, "D", Quote, Comma, Comma, "S", Comma, "8">>>>
OpenBill == <<FourCells \o <<Quote, "R">>>>
NoParts == {}

Spelled(name) == [n \in 1..Len(name) |-> SubSeq(name, n, n)]
Spellings == [name \in {"RLY_A_1", "RLY_B_2", "RLY_EN_2", "RLY3"} |-> Spelled(name)]

SomeInputs == ({<<>>} \X (RelayFiles \union BoardFiles \union SmallFiles \union OddSources))
              \union ({GoodBill, OpenBill} \X OddSources)
=========================================================================
