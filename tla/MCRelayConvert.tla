------------------------ MODULE MCRelayConvert -------------------------
(***************************************************************************)
(* Instances of RelayConvert for TLC.  A net is an arrangement of devices; *)
(* its name is added to each of them.                                      *)
(***************************************************************************)
EXTENDS RelayConvert

OnNet(name, devices) ==
    [j \in DOMAIN devices |-> [name |-> name, identifier |-> devices[j][1],
                               connection |-> devices[j][2], device |-> devices[j][3]]]
Arrangements(devices, n) ==
    UNION {{s \in [1..m -> devices] : IsInjective(s)} : m \in 0..n}

(* getNetlistData leaves no net empty, but for the ones at the end. *)
NotEmpty(net) == net # <<>>
WithoutEmpty(netlist) == SelectSeq(netlist, NotEmpty)

SomeInts == {-1, 22, 23}

At(x, n) == [identifier |-> x, position |-> n]

(* Addresses: two nets of at most two devices, with pins of two expanders  *)
(* that are relay pins, are not, and cannot be converted.                  *)
Pins == {<<"U1", 5, Expander>>, <<"U1", 15, Expander>>, <<"U2", 5, Expander>>,
         <<"U2", 39, Expander>>, <<"U1", NotDigits, Expander>>,
         <<"U1", Suffixed(5), Expander>>,
         <<"U2", TooLarge, Expander>>, <<"K1", 1, "50935">>}
AddressBoards ==
    {[netlistData |-> WithoutEmpty(<<OnNet("RLY_A_1", a), OnNet("RLY_B_2", b)>>), ioData |-> io] :
        a \in Arrangements(Pins, 2), b \in Arrangements(Pins, 2),
        io \in {<<At("U2", 1), At("U1", 2)>>, <<At("U1", 1)>>}}

(* Normal states: a relay net with up to two resistors and relays, whose   *)
(* other ends are on GND, on another net, or open, in any order of nets.   *)
Resistors == {<<"R1", 1, "RESISTOR">>, <<"R2", 1, "RESISTOR">>}
Parts == Resistors \union {<<"U1", 5, Expander>>, <<"K1", 1, "50935">>,
                           <<"K2", 1, "G3VM-101QR1">>}
ThreeNets(names, a, b, c) ==
    [n \in 1..3 |-> CASE names[n] = "RLY_A_1" -> OnNet("RLY_A_1", a)
                      [] names[n] = "GND" -> OnNet("GND", b)
                      [] names[n] = "VCC" -> OnNet("VCC", c)]
NormalBoards ==
    {[netlistData |-> WithoutEmpty(ThreeNets(names, a, b, c)), ioData |-> <<At("U1", 1)>>] :
        names \in {<<"RLY_A_1", "GND", "VCC">>, <<"GND", "VCC", "RLY_A_1">>,
                   <<"VCC", "RLY_A_1", "GND">>},
        a \in Arrangements(Parts, 4), b \in Arrangements(Resistors, 2),
        c \in Arrangements(Resistors, 1)}

(* Names: all of up to four characters; names on ground; names about as    *)
(* long as the code of a digit.                                            *)
Repeat(c, n) == [m \in 1..n |-> c]
ShortTexts == UNION {[1..n -> {"R", "_", "0", "7"}] : n \in 0..4}
GroundTexts == {a \o SYSGND \o b : a \in {<<>>, <<"R", "_">>},
                                   b \in {<<>>, <<"_", "A">>, <<"_", "7">>, <<"7">>}}
LongTexts == {<<"R", "_">> \o Repeat("A", n) \o tail :
                 n \in 42..53, tail \in {<<"_", "1", "0">>, <<"_", "9">>, <<"_", "A", "1", "2">>}}
Glue(text) == FoldLeft(LAMBDA x, y : x \o y, "", text)
Texts == ShortTexts \union GroundTexts \union LongTexts

BoardNames == {"RLY_A_1", "RLY_B_2", "GND", "VCC"}
Spell(name) == [n \in 1..Len(name) |-> SubSeq(name, n, n)]
Names == BoardNames \union {Glue(text) : text \in Texts}
Spellings == [name \in Names |-> Spell(name)]

NamedBoards(texts) ==
    {[netlistData |-> <<OnNet(Glue(text), <<<<"U1", 5, Expander>>>>)>>,
      ioData |-> <<At("U1", 1)>>] : text \in texts}
LongNames == NamedBoards(LongTexts)

AllBoards == AddressBoards \union NormalBoards \union NamedBoards(Texts)
=========================================================================
