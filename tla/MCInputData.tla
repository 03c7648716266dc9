-------------------------- MODULE MCInputData ---------------------------
(***************************************************************************)
(* Instances of InputData for TLC.  Every part of the pipeline has files   *)
(* of its own: bills, of which the last row is well-formed, for            *)
(* getBillData, small files for getNetlistData, boards of MCDeviceOrder    *)
(* for getDeviceOrder, and boards with relays for all.                     *)
(***************************************************************************)
EXTENDS InputData, MCDeviceOrder

(* Bills of two rows: any row that begins with one cell, or with four, and *)
(* up to four characters behind them, and then a row of a part.            *)
PartWith(ids, text) ==
    [item |-> <<"7">>, quantity |-> <<"2">>, manufacturer |-> <<"M">>,
     partNumber |-> <<"P">>, identifier |-> ids, description |-> text,
     dni |-> <<>>, status |-> <<"S">>, maxTemp |-> <<"8", "5">>]
SomeParts ==
    {PartWith(ids, text) :
        ids \in {<<<<"R">>>>, <<<<"R">>, <<"S">>>>, <<<<"R">>, <<"S">>, <<"T">>>>},
        text \in {<<>>, <<"D", Comma, "E">>}}
Upto(n) == UNION {[1..m -> {"A", Comma, Quote}] : m \in 0..n}
FourCells == <<"7", Comma, "2", Comma, "M", Comma, "P", Comma>>
Headings == {<<"I", Comma, "Q">>, <<>>}
FirstRows == {<<"7">> \o text : text \in Upto(3)} \union Headings
             \union {FourCells \o text : text \in Upto(4)}
             \union {RowOf(part) : part \in SomeParts}
SomeBills == {<<first, RowOf(part)>> : first \in FirstRows, part \in SomeParts}
             \union {<<>>}

(* Every file of at most four lines with two names, empty lines and lines  *)
(* that are a blank.                                                       *)
Named(n) == [name |-> n, identifier |-> "U1", connection |-> DIN, device |-> Expander]
SmallFiles == UNION {[1..m -> {Named("A"), Named("B"), EmptyLine, SpaceLine}] : m \in 0..4}

(* Identifiers are only compared: the first line of a board is one of U1.  *)
BoardFiles ==
    {file \in {FlattenSeq(nets) : nets \in TwoExpanders \union ThreeExpanders} :
        file # <<>> => file[1].identifier # "U2"}

(* Two expanders in a chain with a relay each, in every order of nets; the *)
(* pins and the name of the second relay vary.                             *)
NetOn(name, pins) == [n \in DOMAIN pins |-> [pins[n] EXCEPT !.name = name]]
Coil == [name |-> "N", identifier |-> "K1", connection |-> 1, device |-> "50935"]
RelayNetsOf(second, pins) ==
    <<NetOn("N1", <<Pin("U1", DIN), Other>>),
      NetOn("N2", <<Pin("U2", DIN), Pin("U1", DOUT)>>),
      NetOn("N3", <<Pin("U2", DOUT)>>),
      NetOn("RLY_A_1", <<Coil, Pin("U1", 5)>>),
      NetOn(second, [n \in DOMAIN pins |-> Pin("U2", pins[n])])>>
InOrderOf(nets, order) == FlattenSeq([n \in DOMAIN order |-> nets[order[n]]])
RelayFiles ==
    {InOrderOf(nets, order) :
        order \in Permutations(1..5),
        nets \in {RelayNetsOf("RLY_B_2", <<5>>), RelayNetsOf("RLY3", <<6>>),
                  RelayNetsOf("RLY_B_2", <<NotDigits, 6>>),
                  RelayNetsOf("RLY_B_2", <<TooLarge>>)}}
GoodFile == InOrderOf(RelayNetsOf("RLY_B_2", <<5>>), [n \in 1..5 |-> 6 - n])

Spelled(name) == [n \in 1..Len(name) |-> SubSeq(name, n, n)]
Spellings == [name \in {"RLY_A_1", "RLY_B_2", "RLY3"} |-> Spelled(name)]

NoBoards == {}
SomeInts == {-1, 22, 23}
AllFiles == SmallFiles \union BoardFiles \union RelayFiles
AllInputs == ({<<>>} \X AllFiles) \union (SomeBills \X {GoodFile})
=========================================================================
