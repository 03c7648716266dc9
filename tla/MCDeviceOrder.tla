------------------------- MODULE MCDeviceOrder -------------------------
(***************************************************************************)
(* Instances of DeviceOrder for TLC.  A net is an arrangement of serial    *)
(* pins; the other lines of a netlist do not matter to getDeviceOrder, and *)
(* one of them stands for all.                                             *)
(***************************************************************************)
EXTENDS DeviceOrder, TLC

Pin(x, p) == [name |-> "N", identifier |-> x, connection |-> p, device |-> Expander]
Other == [name |-> "N", identifier |-> "R1", connection |-> 1, device |-> "RESISTOR"]

(* Nets of at most n of the pins, in every order. *)
Nets(pins, n) == UNION {{s \in [1..m -> pins] : IsInjective(s)} : m \in 0..n}

(* getNetlistData leaves no net empty, but for the ones at the end, and    *)
(* gives the lines of a net its name.                                      *)
NetName == <<"N1", "N2", "N3", "N4">>
NotEmpty(net) == net # <<>>
Board(nets) ==
    LET netlist == SelectSeq(nets, NotEmpty)
    IN [n \in DOMAIN netlist |->
           [j \in DOMAIN netlist[n] |-> [netlist[n][j] EXCEPT !.name = NetName[n]]]]

(* Two expanders, three nets of at most two pins: boards that can be built *)
(* and boards that cannot, pins on several nets included.                  *)
TwoExpanders ==
    {Board(nets) : nets \in [1..3 -> Nets({Pin(x, p) : x \in {"U1", "U2"},
                                                     p \in {DIN, DOUT}}, 2)]}

(* Three expanders in a chain, in all orders of nets and lines; the DOUT of *)
(* the last one is on a net that leads nowhere.                            *)
Chain(x) == <<<<Other, Pin(x[1], DIN)>>,
              <<Pin(x[1], DOUT), Pin(x[2], DIN)>>,
              <<Other, Pin(x[3], DIN), Pin(x[2], DOUT)>>,
              <<Pin(x[3], DOUT), Other>>>>

Arranged(nets, order, reversed) ==
    Board([m \in DOMAIN order |-> IF order[m] \in reversed
                                  THEN Reverse(nets[order[m]]) ELSE nets[order[m]]])
ThreeExpanders ==
    {Arranged(Chain(<<"U1", "U2", "U3">>), order, reversed) :
        order \in Permutations(1..4), reversed \in SUBSET (1..3)}

(* The same with the last DOUT on no net at all. *)
OpenChains == {Arranged(Chain(<<"U1", "U2", "U3">>), order, {}) :
                  order \in Permutations(1..3)}
=========================================================================
