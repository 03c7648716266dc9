----------------------- MODULE RelayTablesProofs ------------------------
(***************************************************************************)
(* Facts about the lines of a net and the tables of a conversion: the      *)
(* least and the greatest index the code stops at, the ports, and how a    *)
(* list of relays grows.                                                   *)
(***************************************************************************)
EXTENDS RelayTables, FiniteSetTheorems, SequenceTheorems, WellFoundedInduction, TLAPS

(***************************************************************************)
(* Min and Max are in the set they are taken of, and bound it.             *)
(***************************************************************************)
LEMMA LeastElement ==
  ASSUME NEW T, T \subseteq Nat, T # {}
  PROVE  \E x \in T : \A y \in T : x <= y
<1>1. PICK x \in T : \A y \in T : ~ (<<y, x>> \in OpToRel(<, Nat))
  <2> HIDE DEF OpToRel
  <2>1. QED
    BY NatLessThanWellFounded, WFMin
<1>2. \A y \in T : ~ (y < x)
  BY <1>1 DEF OpToRel
<1>3. QED
  BY <1>2

LEMMA MinIsLeast ==
  ASSUME NEW T, T \subseteq Nat, T # {}
  PROVE  Min(T) \in T /\ \A y \in T : Min(T) <= y
BY LeastElement DEF Min

LEMMA MaxIsGreatest ==
  ASSUME NEW n \in Nat, NEW T, T \subseteq 0..n, T # {}
  PROVE  Max(T) \in T /\ \A y \in T : y <= Max(T)
<1> DEFINE below == {m \in 0..n : \E x \in T : m = n - x}
<1>1. below \subseteq Nat /\ below # {}
  <2>1. PICK x : x \in T
    OBVIOUS
  <2>2. n - x \in 0..n
    BY <2>1
  <2>3. n - x \in below
    BY <2>1, <2>2
  <2>4. QED
    BY <2>3
<1>2. PICK m \in below : \A k \in below : m <= k
  <2> HIDE DEF below
  <2>1. QED
    BY <1>1, LeastElement
<1>3. PICK x \in T : m = n - x
  OBVIOUS
<1>4. \A y \in T : x >= y
  <2> TAKE y \in T
  <2>1. n - y \in below /\ y \in 0..n /\ x \in 0..n
    OBVIOUS
  <2>2. n - x <= n - y
    BY <1>2, <1>3, <2>1
  <2>3. QED
    BY <2>1, <2>2
<1>5. Max(T) \in T /\ \A y \in T : Max(T) >= y
  BY <1>4 DEF Max
<1>6. QED
  BY <1>5
-------------------------------------------------------------------------
(***************************************************************************)
(* The line device and port are taken from is the first of an expander.    *)
(***************************************************************************)
LEMMA ExpanderLineIsOnTheNet ==
  ASSUME NEW net \in Seq(Line), NEW k \in DOMAIN net, IsExpander(net[k])
  PROVE  \E j \in DOMAIN net : /\ IsExpander(net[j])
                               /\ ExpanderLine(net) = net[j]
                               /\ j <= k
<1> DEFINE T == {j \in DOMAIN net : IsExpander(net[j])}
<1>1. T \subseteq Nat /\ k \in T
  BY LenProperties
<1>2. Min(T) \in T /\ Min(T) <= k
  <2> HIDE DEF T
  <2>1. QED
    BY <1>1, MinIsLeast
<1>3. ExpanderLine(net) = net[Min(T)]
  BY DEF ExpanderLine
<1>4. QED
  BY <1>2, <1>3

(***************************************************************************)
(* No two pins have one port.  PinOf is the table read backwards.          *)
(***************************************************************************)
PinOf ==
  [P8 |-> 1, P12 |-> 2, P9 |-> 3, P13 |-> 4, P10 |-> 5, P14 |-> 6, P11 |-> 7,
   P15 |-> 8, P16 |-> 9, P17 |-> 10, P18 |-> 12, P19 |-> 13, P20 |-> 14,
   P21 |-> 15, P22 |-> 16, P23 |-> 17, P24 |-> 18, P25 |-> 19, P26 |-> 21,
   P27 |-> 22, P28 |-> 23, P7 |-> 24, P29 |-> 25, P6 |-> 26, P30 |-> 27,
   P5 |-> 28, P31 |-> 29, P4 |-> 30]

LEMMA PinOfPort ==
  ASSUME NEW c \in DOMAIN PortOf, PortOf[c] # NoPort
  PROVE  PinOf[PortOf[c]] = c
<1>1. DOMAIN PortOf = 1..30
  BY DEF PortOf
<1>2. c # 11 /\ c # 20
  BY DEF PortOf
<1>3. CASE c \in 1..6
  BY <1>3 DEF PortOf, PinOf
<1>4. CASE c \in 7..10 \union {12, 13}
  BY <1>4 DEF PortOf, PinOf
<1>5. CASE c \in 14..19
  BY <1>5 DEF PortOf, PinOf
<1>6. CASE c \in 21..25
  BY <1>6 DEF PortOf, PinOf
<1>7. CASE c \in 26..30
  BY <1>7 DEF PortOf, PinOf
<1>8. QED
  BY <1>1, <1>2, <1>3, <1>4, <1>5, <1>6, <1>7

LEMMA PortTellsThePin ==
  ASSUME NEW net, NEW other,
         ConvertPort(net) = ConvertPort(other), ConvertPort(net) # NoPort
  PROVE  Stoi(ExpanderLine(net)) = Stoi(ExpanderLine(other))
<1> DEFINE c == Stoi(ExpanderLine(net))
           d == Stoi(ExpanderLine(other))
<1>1. /\ c \in DOMAIN PortOf /\ ConvertPort(net) = PortOf[c]
      /\ d \in DOMAIN PortOf /\ ConvertPort(other) = PortOf[d]
  BY DEF ConvertPort
<1> HIDE DEF c, d
<1>2. QED
  BY <1>1, PinOfPort DEF c, d
-------------------------------------------------------------------------
(***************************************************************************)
(* A list of the relays of some nets is one of those of the next net too,  *)
(* if that is added exactly if it has a pin a relay can be on; it stays    *)
(* one if nets are changed that are not among them.                        *)
(***************************************************************************)
LEMMA ListGrows ==
  ASSUME NEW netlist, NEW S, NEW list \in Seq(S), NEW nets \in Nat,
         ListsTheRelays(list, netlist, nets),
         NEW longer, longer = IF HasRelayPin(netlist[nets + 1])
                              THEN Append(list, netlist[nets + 1]) ELSE list
  PROVE  ListsTheRelays(longer, netlist, nets + 1)
<1>1. PICK place \in [DOMAIN list -> 1..nets] :
         /\ \A n, m \in DOMAIN list : n < m => place[n] < place[m]
         /\ {place[n] : n \in DOMAIN list} = {k \in 1..nets : HasRelayPin(netlist[k])}
         /\ \A n \in DOMAIN list : list[n] = netlist[place[n]]
  BY DEF ListsTheRelays
<1>2. Len(list) \in Nat /\ DOMAIN list = 1..Len(list)
  BY LenProperties
<1>3. 1..nets + 1 = 1..nets \union {nets + 1} /\ nets + 1 \notin 1..nets
  OBVIOUS
<1>4. CASE HasRelayPin(netlist[nets + 1])
  <2> DEFINE last == Len(list) + 1
             wider == [n \in 1..last |-> IF n = last THEN nets + 1 ELSE place[n]]
  <2>1. /\ DOMAIN longer = 1..last
        /\ 1..last = 1..Len(list) \union {last} /\ last \notin 1..Len(list)
        /\ longer[last] = netlist[nets + 1]
        /\ \A n \in 1..Len(list) : longer[n] = list[n]
    <3>1. longer = Append(list, netlist[nets + 1])
      BY <1>4
    <3>2. QED
      BY <1>2, <3>1
  <2>2. wider[last] = nets + 1 /\ \A n \in 1..Len(list) : wider[n] = place[n]
    BY <1>2
  <2>3. wider \in [1..last -> 1..nets + 1]
    BY <1>2
  <2> HIDE DEF wider
  <2>4. ASSUME NEW n \in 1..last, NEW m \in 1..last, n < m
        PROVE  wider[n] < wider[m]
    <3>1. n \in 1..Len(list)
      BY <1>2, <2>4
    <3>2. wider[n] = place[n] /\ place[n] \in 1..nets
      BY <1>2, <2>2, <3>1
    <3>3. CASE m = last
      BY <2>2, <3>2, <3>3
    <3>4. CASE m # last
      BY <1>1, <1>2, <2>1, <2>2, <2>4, <3>1, <3>4
    <3>5. QED
      BY <3>3, <3>4
  <2>5. {wider[n] : n \in 1..last} = {k \in 1..nets + 1 : HasRelayPin(netlist[k])}
    <3>1. {wider[n] : n \in 1..last} = {place[n] : n \in DOMAIN list} \union {nets + 1}
      BY <1>2, <2>1, <2>2
    <3>2. QED
      BY <1>1, <1>3, <1>4, <3>1
  <2>6. \A n \in 1..last : longer[n] = netlist[wider[n]]
    BY <1>1, <1>2, <2>1, <2>2
  <2>7. QED
    <3> DEFINE d == DOMAIN longer
    <3>1. /\ wider \in [d -> 1..nets + 1]
          /\ \A n, m \in d : n < m => wider[n] < wider[m]
          /\ {wider[n] : n \in d} = {k \in 1..nets + 1 : HasRelayPin(netlist[k])}
          /\ \A n \in d : longer[n] = netlist[wider[n]]
      BY <2>1, <2>3, <2>4, <2>5, <2>6
    <3>2. QED
      BY <3>1, Zenon DEF ListsTheRelays
<1>5. CASE ~ HasRelayPin(netlist[nets + 1])
  <2>1. place \in [DOMAIN list -> 1..nets + 1]
    OBVIOUS
  <2>2. {place[n] : n \in DOMAIN list} = {k \in 1..nets + 1 : HasRelayPin(netlist[k])}
    BY <1>1, <1>3, <1>5
  <2>3. QED
    BY <1>1, <1>5, <2>1, <2>2 DEF ListsTheRelays
<1>6. QED
  BY <1>4, <1>5

LEMMA ListOfTheSameNets ==
  ASSUME NEW list, NEW nets \in Nat, NEW netlist, ListsTheRelays(list, netlist, nets),
         NEW other, \A k \in 1..nets : other[k] = netlist[k]
  PROVE  ListsTheRelays(list, other, nets)
BY DEF ListsTheRelays

LEMMA EmptyList == ASSUME NEW netlist PROVE ListsTheRelays(<<>>, netlist, 0)
<1> DEFINE place == [n \in {} |-> 0]
<1>1. DOMAIN << >> = {} /\ place \in [{} -> 1..0] /\ 1..0 = {}
  OBVIOUS
<1> HIDE DEF place
<1>2. QED
  BY <1>1, Zenon DEF ListsTheRelays

(***************************************************************************)
(* There are as many relays in a list of the first nets as nets that have  *)
(* a relay pin among them.                                                 *)
(***************************************************************************)
LEMMA ListHasAllRelays ==
  ASSUME NEW S, NEW list \in Seq(S), NEW netlist, NEW nets \in Nat,
         ListsTheRelays(list, netlist, nets)
  PROVE  Cardinality({k \in 1..nets : HasRelayPin(netlist[k])}) = Len(list)
<1>1. PICK place \in [DOMAIN list -> 1..nets] :
         /\ \A n, m \in DOMAIN list : n < m => place[n] < place[m]
         /\ {place[n] : n \in DOMAIN list} = {k \in 1..nets : HasRelayPin(netlist[k])}
         /\ \A n \in DOMAIN list : list[n] = netlist[place[n]]
  BY DEF ListsTheRelays
<1>2. Len(list) \in Nat /\ DOMAIN list = 1..Len(list)
  BY LenProperties
<1> DEFINE T == {k \in 1..nets : HasRelayPin(netlist[k])}
           d == 1..Len(list)
<1>3. IsFiniteSet(d) /\ Cardinality(d) = Len(list)
  <2>1. 1 \in Int /\ Len(list) \in Int
    BY <1>2
  <2>2. /\ IsFiniteSet(1..Len(list))
        /\ Cardinality(1..Len(list)) = IF 1 > Len(list) THEN 0 ELSE Len(list) - 1 + 1
    BY <2>1, FS_Interval, Zenon
  <2>3. QED
    BY <1>2, <2>2
<1>4. place \in [d -> T]
  <2>1. \A n \in d : place[n] \in T
    BY <1>1, <1>2
  <2> HIDE DEF T
  <2>2. QED
    BY <1>1, <1>2, <2>1
<1>5. \A n, m \in d : place[n] = place[m] => n = m
  <2> SUFFICES ASSUME NEW n \in d, NEW m \in d, place[n] = place[m], n # m
               PROVE  FALSE
    OBVIOUS
  <2>1. n \in Nat /\ m \in Nat /\ place[n] \in Nat /\ place[m] \in Nat
    BY <1>1, <1>2
  <2>2. n < m \/ m < n
    BY <2>1
  <2>3. place[n] < place[m] \/ place[m] < place[n]
    BY <1>1, <1>2, <2>2
  <2>4. QED
    BY <2>1, <2>3
<1>6. \A t \in T : \E n \in d : place[n] = t
  BY <1>1, <1>2
<1>7. place \in Injection(d, T) /\ place \in Surjection(d, T)
  BY <1>4, <1>5, <1>6 DEF Injection, IsInjective, Surjection
<1>8. Cardinality(T) = Cardinality(d)
  <2> HIDE DEF T, d
  <2>1. QED
    BY <1>3, <1>7, FS_Surjection
<1>9. QED
  BY <1>3, <1>8
-------------------------------------------------------------------------
(***************************************************************************)
(* Digits have values from 0 to 9.                                         *)
(***************************************************************************)
LEMMA DigitValue == ASSUME NEW c, IsDigit(c) PROVE ValueOf(c) \in 0..9
<1> DEFINE I == {n \in 1..Len(Digits) : Digits[n] = c}
<1>1. Len(Digits) = 10
  BY DEF Digits
<1>2. I # {} /\ I \subseteq Nat /\ I \subseteq 1..10
  BY <1>1 DEF IsDigit, Contains
<1>3. Min(I) \in I
  <2> HIDE DEF I
  <2>1. QED
    BY <1>2, MinIsLeast
<1>4. ValueOf(c) = Min(I) - 1
  BY <1>2 DEF ValueOf, SelectInSeq
<1>5. QED
  BY <1>2, <1>3, <1>4

(***************************************************************************)
(* The characters of a part of a text.                                     *)
(***************************************************************************)
LEMMA MinOfTwo ==
  ASSUME NEW a \in Nat, NEW b \in Nat
  PROVE  Min({a, b}) = IF a <= b THEN a ELSE b
<1>1. Min({a, b}) \in {a, b} /\ \A y \in {a, b} : Min({a, b}) <= y
  BY MinIsLeast
<1>2. QED
  BY <1>1

LEMMA SubstrIsAText ==
  ASSUME NEW S, NEW text \in Seq(S), NEW pos \in 0..Len(text), NEW count \in Nat
  PROVE  /\ Substr(text, pos, count) \in Seq(S)
         /\ Len(Substr(text, pos, count)) =
               IF pos + count <= Len(text) THEN count ELSE Len(text) - pos
         /\ \A n \in 1..Len(Substr(text, pos, count)) :
               Substr(text, pos, count)[n] = text[pos + n]
<1> DEFINE end == IF pos + count <= Len(text) THEN pos + count ELSE Len(text)
<1>1. Len(text) \in Nat /\ DOMAIN text = 1..Len(text)
  BY LenProperties
<1>2. Substr(text, pos, count) = SubSeq(text, pos + 1, end)
  BY <1>1, MinOfTwo DEF Substr
<1>3. end \in Int /\ end <= Len(text) /\ pos <= end
  BY <1>1
<1>4. \A n \in pos + 1..end : text[n] \in S
  BY <1>1, <1>3, ElementOfSeq
<1> HIDE DEF end
<1>5. /\ SubSeq(text, pos + 1, end) \in Seq(S)
      /\ Len(SubSeq(text, pos + 1, end)) = end - pos
      /\ \A n \in 1..end - pos : SubSeq(text, pos + 1, end)[n] = text[pos + n]
  <2> DEFINE m == pos + 1
  <2>1. m \in Int /\ m - 1 = pos
    OBVIOUS
  <2>2. \A n \in m..end : text[n] \in S
    BY <1>4
  <2>3. end - m + 1 = end - pos /\ \A n \in Int : m + n - 1 = pos + n
    BY <1>3
  <2> HIDE DEF m
  <2>4. /\ SubSeq(text, m, end) \in Seq(S)
        /\ Len(SubSeq(text, m, end)) = IF m <= end THEN end - m + 1 ELSE 0
        /\ \A n \in 1..end - m + 1 : SubSeq(text, m, end)[n] = text[m + n - 1]
    BY <1>3, <2>1, <2>2, SubSeqProperties
  <2>5. (IF m <= end THEN end - m + 1 ELSE 0) = end - pos
    BY <1>3, <2>1
  <2>6. QED
    BY <1>3, <2>1, <2>3, <2>4, <2>5 DEF m
<1>6. QED
  BY <1>1, <1>2, <1>5 DEF end

LEMMA EraseIsAText ==
  ASSUME NEW S, NEW text \in Seq(S), NEW count \in Nat
  PROVE  /\ Erase(text, count) \in Seq(S)
         /\ count <= Len(text) =>
               /\ Len(Erase(text, count)) = Len(text) - count
               /\ \A n \in 1..Len(text) - count : Erase(text, count)[n] = text[count + n]
<1> DEFINE from == IF count <= Len(text) THEN count ELSE Len(text)
           m == from + 1
           part == SubSeq(text, m, Len(text))
<1>1. Len(text) \in Nat /\ DOMAIN text = 1..Len(text)
  BY LenProperties
<1>2. Erase(text, count) = part
  BY <1>1, MinOfTwo DEF Erase
<1>3. m \in Int /\ \A n \in m..Len(text) : text[n] \in S
  BY <1>1, ElementOfSeq
<1>4. /\ part \in Seq(S)
      /\ Len(part) = IF m <= Len(text) THEN Len(text) - m + 1 ELSE 0
      /\ \A n \in 1..Len(text) - m + 1 : part[n] = text[m + n - 1]
  <2> HIDE DEF m
  <2>1. QED
    BY <1>1, <1>3, SubSeqProperties
<1> HIDE DEF part
<1>5. ASSUME NEW len \in Nat, len = Len(text), count <= len
      PROVE  /\ Len(part) = len - count
             /\ \A n \in 1..len - count : part[n] = text[count + n]
  <2>1. m = count + 1
    BY <1>5
  <2>2. /\ count + 1 <= len => Len(part) = len - (count + 1) + 1
        /\ ~ (count + 1 <= len) => Len(part) = 0
        /\ \A n \in 1..len - (count + 1) + 1 : part[n] = text[count + 1 + n - 1]
    <3> HIDE DEF m
    <3>1. QED
      BY <1>4, <1>5, <2>1
  <2>3. len - (count + 1) + 1 = len - count /\ (~ (count + 1 <= len) => len - count = 0)
    BY <1>5
  <2>4. \A n \in Int : count + 1 + n - 1 = count + n
    OBVIOUS
  <2>5. Len(part) = len - count
    BY <2>2, <2>3
  <2>6. QED
    BY <2>2, <2>3, <2>4, <2>5
<1>6. count <= Len(text) => /\ Len(part) = Len(text) - count
                            /\ \A n \in 1..Len(text) - count : part[n] = text[count + n]
  BY <1>1, <1>5
<1>7. QED
  BY <1>2, <1>4, <1>6

(***************************************************************************)
(* find answers the place of the character, or Npos.                       *)
(***************************************************************************)
LEMMA FindIsThere ==
  ASSUME NEW S, NEW text \in Seq(S), NEW c
  PROVE  /\ Find(text, c) \in Nat
         /\ \/ ~ Contains(text, c) /\ Find(text, c) = Npos
            \/ Find(text, c) < Len(text) /\ text[Find(text, c) + 1] = c
<1> DEFINE I == {n \in 1..Len(text) : text[n] = c}
<1>1. Len(text) \in Nat
  BY LenProperties
<1>2. CASE ~ Contains(text, c)
  BY <1>2 DEF Find, Npos, SizeMax
<1>3. CASE Contains(text, c)
  <2>1. I # {} /\ I \subseteq Nat
    BY <1>3 DEF Contains
  <2>2. Min(I) \in I
    <3> HIDE DEF I
    <3>1. QED
      BY <2>1, MinIsLeast
  <2>3. Find(text, c) = Min(I) - 1
    BY <1>3, <2>1 DEF Find, SelectInSeq
  <2>4. QED
    BY <1>1, <2>2, <2>3
<1>4. QED
  BY <1>2, <1>3
-------------------------------------------------------------------------
(***************************************************************************)
(* A sequence of anything, which grows by one element.                     *)
(***************************************************************************)
IsASequence(s) == \E S : s \in Seq(S)

LEMMA SequenceGrows ==
  ASSUME NEW s, IsASequence(s), NEW e
  PROVE  /\ IsASequence(Append(s, e))
         /\ Len(s) \in Nat /\ DOMAIN s = 1..Len(s)
         /\ Len(Append(s, e)) = Len(s) + 1
         /\ DOMAIN Append(s, e) = 1..Len(s) + 1
         /\ \A n \in 1..Len(s) : Append(s, e)[n] = s[n]
         /\ Append(s, e)[Len(s) + 1] = e
<1>1. PICK S : s \in Seq(S)
  BY DEF IsASequence
<1>2. s \in Seq(S \union {e})
  BY <1>1, SeqMonotonic
<1>3. QED
  BY <1>2, AppendProperties, LenProperties DEF IsASequence
=========================================================================
