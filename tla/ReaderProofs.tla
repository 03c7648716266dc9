-------------------------- MODULE ReaderProofs --------------------------
(***************************************************************************)
(* Proofs about the two readers, for every file: the netlist becomes nets, *)
(* and the bill parts.  Both are used by the service and by the tool.  The *)
(* bill has two invariants above its own: one of the rows without quotes,  *)
(* and one of the rows that are well-formed, which are read back.          *)
(***************************************************************************)
EXTENDS BillReader, NetlistReader, RelayTablesProofs

(***************************************************************************)
(* The place of the line that was read last.  All other places come before *)
(* it, since the nets behind its net are empty.                            *)
(***************************************************************************)
LastPlace == <<loopCounter + 1, Len(netlistData[loopCounter + 1])>>

NoBlankLine == \A m \in 1..linesRead : netlistFile[m] # SpaceLine
NetsAreRuns ==
    NoBlankLine =>
       \A p, q \in Places :
          Before(p, q) => (p[1] = q[1] <=> OneName(Number(p), Number(q)))

ReaderInv ==
    /\ ReaderTypeOK
    /\ IsFiniteSet(Places)
    /\ EveryLineOnce
    /\ NetsAreRuns
    /\ IF linesRead = 0 THEN loopCounter = 0 /\ comparator = SpaceLine
       ELSE loopCounter < linesRead /\ comparator = netlistFile[linesRead]

LEMMA LinesOfNothing == EmptyLine \in Line /\ SpaceLine \in Line
BY TextsAreStrings DEF EmptyLine, SpaceLine, Line, NotDigits

LEMMA ColumnsAreALine == ASSUME NEW line \in Line PROVE Columns(line) \in Line
BY LinesOfNothing DEF Columns

(***************************************************************************)
(* A place is that of a line of a net, and has no place of its own before  *)
(* it; of two places one is before the other.                              *)
(***************************************************************************)
LEMMA PlaceOfALine ==
  ASSUME netlistData \in Seq(Seq(Line)), NEW p \in Places
  PROVE  /\ p = <<p[1], p[2]>>
         /\ p[1] \in DOMAIN netlistData /\ p[1] \in Nat \ {0}
         /\ p[2] \in DOMAIN netlistData[p[1]] /\ p[2] \in Nat \ {0}
         /\ p[2] <= Len(netlistData[p[1]]) /\ Len(netlistData[p[1]]) \in Nat
<1>1. PICK n \in DOMAIN netlistData : p \in {n} \X DOMAIN netlistData[n]
  BY DEF Places
<1>2. n \in 1..Len(netlistData) /\ Len(netlistData) \in Nat
  BY LenProperties
<1>3. netlistData[n] \in Seq(Line)
  BY <1>2, ElementOfSeq
<1>4. Len(netlistData[n]) \in Nat /\ DOMAIN netlistData[n] = 1..Len(netlistData[n])
  BY <1>3, LenProperties
<1>5. QED
  BY <1>1, <1>2, <1>4

LEMMA PlaceInANet ==
  ASSUME NEW n \in DOMAIN netlistData, NEW j \in DOMAIN netlistData[n]
  PROVE  <<n, j>> \in Places
BY DEF Places

LEMMA PlacesAreOrdered ==
  ASSUME netlistData \in Seq(Seq(Line)), NEW p \in Places, NEW q \in Places
  PROVE  /\ ~ Before(p, p)
         /\ p # q => Before(p, q) \/ Before(q, p)
         /\ ~ (Before(p, q) /\ Before(q, p))
<1>1. PICK a \in Nat, b \in Nat : p = <<a, b>>
  BY PlaceOfALine
<1>2. PICK c \in Nat, d \in Nat : q = <<c, d>>
  BY PlaceOfALine
<1>3. p[1] = a /\ p[2] = b /\ q[1] = c /\ q[2] = d
  BY <1>1, <1>2
<1>4. p # q => a # c \/ b # d
  BY <1>1, <1>2
<1>5. QED
  BY <1>3, <1>4 DEF Before

LEMMA LastPlaceIsLast ==
  ASSUME ReaderInv, linesRead > 0
  PROVE  /\ LastPlace \in Places
         /\ LastPlace[1] = loopCounter + 1
         /\ \A p \in Places : p # LastPlace => Before(p, LastPlace)
<1> DEFINE c == loopCounter + 1
<1>1. /\ netlistData \in Seq(Seq(Line)) /\ DOMAIN netlistData = 1..linesRead
      /\ linesRead \in Nat /\ loopCounter \in Nat /\ c \in 1..linesRead
  BY LenProperties DEF ReaderInv, ReaderTypeOK, EveryLineOnce
<1>2. netlistData[c] \in Seq(Line) /\ netlistData[c] # <<>>
  <2>1. \A n \in DOMAIN netlistData : netlistData[n] = <<>> <=> n > c
    BY DEF ReaderInv, EveryLineOnce
  <2>2. c \in DOMAIN netlistData /\ c \in Nat
    BY <1>1
  <2>3. netlistData[c] # <<>>
    BY <2>1, <2>2
  <2>4. netlistData[c] \in Seq(Line)
    BY <1>1, <2>2, ElementOfSeq
  <2>5. QED
    BY <2>3, <2>4
<1>3. /\ Len(netlistData[c]) \in Nat /\ Len(netlistData[c]) > 0
      /\ DOMAIN netlistData[c] = 1..Len(netlistData[c])
  BY <1>2, LenProperties, EmptySeq
<1>4. LastPlace \in Places
  <2>1. c \in DOMAIN netlistData /\ Len(netlistData[c]) \in DOMAIN netlistData[c]
    BY <1>1, <1>3
  <2> HIDE DEF c
  <2>2. <<c, Len(netlistData[c])>> \in Places
    BY <2>1, PlaceInANet
  <2>3. QED
    BY <2>2 DEF LastPlace, c
<1>5. ASSUME NEW p \in Places, p # LastPlace
      PROVE  Before(p, LastPlace)
  <2>1. /\ p = <<p[1], p[2]>>
        /\ p[1] \in DOMAIN netlistData /\ p[1] \in Nat
        /\ p[2] \in DOMAIN netlistData[p[1]] /\ p[2] \in Nat
        /\ p[2] <= Len(netlistData[p[1]])
    BY <1>1, PlaceOfALine
  <2>2. p[1] <= c
    <3>1. netlistData[p[1]] # <<>>
      BY <2>1
    <3>2. QED
      BY <1>1, <2>1, <3>1 DEF ReaderInv, EveryLineOnce
  <2>3. CASE p[1] = c
    <3>1. p[2] <= Len(netlistData[c]) /\ p[2] # Len(netlistData[c])
      BY <1>5, <2>1, <2>3 DEF LastPlace
    <3>2. QED
      BY <1>3, <2>1, <2>3, <3>1 DEF Before, LastPlace
  <2>4. CASE p[1] # c
    BY <1>1, <2>1, <2>2, <2>4 DEF Before, LastPlace
  <2>5. QED
    BY <2>3, <2>4
<1>6. QED
  BY <1>4, <1>5 DEF LastPlace

(***************************************************************************)
(* A place behind all others gets the next number, and the others keep     *)
(* theirs.                                                                 *)
(***************************************************************************)
LEMMA NextNumber ==
  ASSUME NEW P, IsFiniteSet(P), NEW new, new \notin P, ~ Before(new, new),
         \A p \in P : Before(p, new) /\ ~ Before(new, p)
  PROVE  /\ {q \in P \union {new} : Before(q, new)} = P
         /\ \A p \in P : {q \in P \union {new} : Before(q, p)} = {q \in P : Before(q, p)}
         /\ IsFiniteSet(P \union {new}) /\ Cardinality(P \union {new}) = Cardinality(P) + 1
<1>1. {q \in P \union {new} : Before(q, new)} = P
  OBVIOUS
<1>2. \A p \in P : {q \in P \union {new} : Before(q, p)} = {q \in P : Before(q, p)}
  OBVIOUS
<1>3. IsFiniteSet(P \union {new}) /\ Cardinality(P \union {new}) = Cardinality(P) + 1
  BY FS_AddElement
<1>4. QED
  BY <1>1, <1>2, <1>3

(***************************************************************************)
(* What the reader does to the nets: the line becomes the last one of the  *)
(* net loopCounter points at afterwards, which is the one it pointed at or *)
(* the next.                                                               *)
(***************************************************************************)
NewLine == Columns(netlistFile[linesRead + 1])

LEMMA NetsAfterALine ==
  ASSUME ReaderInv, ReadLine
  PROVE  LET c == loopCounter' + 1
             old == IF c <= linesRead THEN netlistData[c] ELSE <<>>
         IN /\ netlistFile[linesRead + 1] \in Line
            /\ loopCounter' \in {loopCounter, loopCounter + 1}
            /\ loopCounter' = loopCounter + 1 => linesRead > 0
            /\ c \in 1..linesRead + 1 /\ linesRead + 1 \in 1..Len(netlistFile)
            /\ old \in Seq(Line)
            /\ Len(netlistData') = linesRead + 1
            /\ netlistData' \in Seq(Seq(Line))
            /\ netlistData'[c] = Append(old, NewLine)
            /\ \A n \in 1..linesRead : n # c => netlistData'[n] = netlistData[n]
            /\ c # linesRead + 1 => netlistData'[linesRead + 1] = <<>>
<1> DEFINE holderLine == netlistFile[linesRead + 1]
           grown == Append(netlistData, <<>>)
           c == loopCounter' + 1
           old == IF c <= linesRead THEN netlistData[c] ELSE <<>>
           net == Append(grown[c], NewLine)
<1>1. /\ netlistFile \in Seq(Line) /\ linesRead \in Nat /\ Len(netlistFile) \in Nat
      /\ linesRead < Len(netlistFile) /\ linesRead + 1 \in 1..Len(netlistFile)
      /\ netlistData \in Seq(Seq(Line)) /\ Len(netlistData) = linesRead
      /\ loopCounter \in Nat
  BY LenProperties DEF ReaderInv, ReaderTypeOK, EveryLineOnce, ReadLine
<1>2. holderLine \in Line /\ NewLine \in Line
  <2>1. holderLine \in Line
    BY <1>1, ElementOfSeq
  <2>2. QED
    BY <2>1, ColumnsAreALine DEF NewLine
<1>3. /\ loopCounter' = IF StartsNet(holderLine) THEN loopCounter + 1 ELSE loopCounter
      /\ netlistData' = [grown EXCEPT ![c] = Append(@, NewLine)]
  BY DEF ReadLine, NewLine
<1>4. /\ loopCounter' \in {loopCounter, loopCounter + 1}
      /\ loopCounter' = loopCounter + 1 => linesRead > 0
      /\ c \in 1..linesRead + 1
  BY <1>1, <1>3 DEF StartsNet, ReaderInv
<1>5. /\ grown \in Seq(Seq(Line)) /\ Len(grown) = linesRead + 1
      /\ grown[linesRead + 1] = <<>>
      /\ \A n \in 1..linesRead : grown[n] = netlistData[n]
  <2>1. << >> \in Seq(Line)
    OBVIOUS
  <2>2. QED
    BY <1>1, <2>1, AppendProperties
<1>6. grown[c] \in Seq(Line)
  <2> HIDE DEF grown, c
  <2>1. QED
    BY <1>4, <1>5, ElementOfSeq
<1>7. grown[c] = old
  <2> HIDE DEF grown, c
  <2>1. CASE c <= linesRead
    BY <1>1, <1>4, <1>5, <2>1
  <2>2. CASE ~ (c <= linesRead)
    <3>1. c = linesRead + 1
      BY <1>1, <1>4, <2>2
    <3>2. QED
      BY <1>5, <2>2, <3>1
  <2>3. QED
    BY <2>1, <2>2
<1>8. net \in Seq(Line)
  <2> HIDE DEF grown, c
  <2>1. QED
    BY <1>2, <1>6, AppendProperties
<1>9. netlistData' = [grown EXCEPT ![c] = net]
  BY <1>3
<1>10. /\ netlistData' \in Seq(Seq(Line))
       /\ Len(netlistData') = linesRead + 1
       /\ \A n \in 1..linesRead + 1 : netlistData'[n] = IF n = c THEN net ELSE grown[n]
  <2> HIDE DEF grown, c, net
  <2>1. QED
    BY <1>4, <1>5, <1>8, <1>9, ExceptSeq
<1>11. netlistData'[c] = Append(old, NewLine)
  <2> HIDE DEF grown, c, old
  <2>1. QED
    BY <1>4, <1>7, <1>10
<1>12. old \in Seq(Line)
  BY <1>6, <1>7
<1>13. \A n \in 1..linesRead : n # c => netlistData'[n] = netlistData[n]
  <2> HIDE DEF grown, c, net
  <2>1. QED
    BY <1>1, <1>5, <1>10
<1>14. c # linesRead + 1 => netlistData'[linesRead + 1] = <<>>
  <2> HIDE DEF grown, c, net
  <2>1. QED
    BY <1>1, <1>5, <1>10
<1>15. /\ netlistFile[linesRead + 1] \in Line
       /\ loopCounter' \in {loopCounter, loopCounter + 1}
       /\ loopCounter' = loopCounter + 1 => linesRead > 0
       /\ c \in 1..linesRead + 1 /\ linesRead + 1 \in 1..Len(netlistFile)
  BY <1>1, <1>2, <1>4
<1>16. /\ old \in Seq(Line)
       /\ Len(netlistData') = linesRead + 1
       /\ netlistData' \in Seq(Seq(Line))
       /\ netlistData'[c] = Append(old, NewLine)
  BY <1>10, <1>11, <1>12
<1>17. QED
  BY <1>13, <1>14, <1>15, <1>16

LEMMA ReadLineAddsAPlace ==
  ASSUME ReaderInv, ReadLine
  PROVE  /\ Places' = Places \union {LastPlace'}
         /\ LastPlace' \notin Places /\ ~ Before(LastPlace', LastPlace')
         /\ \A p \in Places : Before(p, LastPlace') /\ ~ Before(LastPlace', p)
         /\ LastPlace'[1] = loopCounter' + 1
         /\ \A p \in Places : LineAt(p)' = LineAt(p)
         /\ LineAt(LastPlace)' = NewLine
<1>1. PICK c, old :
         /\ c = loopCounter' + 1
         /\ old = IF c <= linesRead THEN netlistData[c] ELSE <<>>
         /\ old \in Seq(Line)
         /\ c \in 1..linesRead + 1
         /\ Len(netlistData') = linesRead + 1
         /\ netlistData' \in Seq(Seq(Line))
         /\ netlistData'[c] = Append(old, NewLine)
         /\ \A n \in 1..linesRead : n # c => netlistData'[n] = netlistData[n]
         /\ c # linesRead + 1 => netlistData'[linesRead + 1] = <<>>
  BY NetsAfterALine
<1>2. /\ netlistData \in Seq(Seq(Line)) /\ linesRead \in Nat
      /\ DOMAIN netlistData = 1..linesRead /\ DOMAIN netlistData' = 1..linesRead + 1
      /\ loopCounter \in Nat /\ c >= loopCounter + 1
  <2>1. /\ netlistData \in Seq(Seq(Line)) /\ linesRead \in Nat
        /\ Len(netlistData) = linesRead /\ loopCounter \in Nat
    BY LenProperties DEF ReaderInv, ReaderTypeOK, EveryLineOnce
  <2>2. DOMAIN netlistData = 1..linesRead /\ DOMAIN netlistData' = 1..linesRead + 1
    BY <1>1, <2>1, LenProperties
  <2>3. c >= loopCounter + 1
    BY <1>1, <2>1, NetsAfterALine
  <2>4. QED
    BY <2>1, <2>2, <2>3
<1>c. c \in Nat
  BY <1>1, <1>2
<1>e. \A n \in 1..linesRead : netlistData[n] = <<>> <=> n > loopCounter + 1
  BY <1>2 DEF ReaderInv, EveryLineOnce
<1>3. PICK k \in Nat : k = Len(old)
  BY <1>1, LenProperties
<1>4. /\ DOMAIN old = 1..k
      /\ DOMAIN netlistData'[c] = 1..k + 1
      /\ \A j \in 1..k : netlistData'[c][j] = old[j]
      /\ netlistData'[c][k + 1] = NewLine
      /\ Len(netlistData'[c]) = k + 1
  <2>1. IsASequence(old)
    BY <1>1 DEF IsASequence
  <2>2. QED
    BY <1>1, <1>3, <2>1, SequenceGrows
<1>5. LastPlace' = <<c, k + 1>>
  BY <1>1, <1>4 DEF LastPlace
<1>6. /\ LastPlace'[1] = loopCounter' + 1
      /\ LineAt(LastPlace)' = NewLine
  BY <1>1, <1>4, <1>5 DEF LineAt
<1>7. ASSUME NEW p \in Places
      PROVE  /\ Before(p, LastPlace') /\ ~ Before(LastPlace', p) /\ p # LastPlace'
             /\ p \in Places'
             /\ LineAt(p)' = LineAt(p)
  <2>1. PICK n \in Nat, j \in Nat : /\ p = <<n, j>>
                                    /\ n \in 1..linesRead /\ j \in DOMAIN netlistData[n]
    BY <1>2, PlaceOfALine
  <2>2. n <= c
    <3>1. netlistData[n] # <<>>
      BY <2>1
    <3>2. n <= loopCounter + 1
      BY <1>e, <1>2, <2>1, <3>1
    <3>3. QED
      BY <1>1, <1>2, <2>1, <3>2
  <2>3. CASE n = c
    <3>1. old = netlistData[n] /\ j \in 1..k
      BY <1>1, <1>2, <1>4, <2>1, <2>3
    <3>2. /\ Before(p, LastPlace') /\ ~ Before(LastPlace', p) /\ p # LastPlace'
      <4>1. p[1] = c /\ p[2] = j /\ LastPlace'[1] = c /\ LastPlace'[2] = k + 1
        BY <1>5, <2>1, <2>3
      <4>2. j \in Nat /\ j < k + 1 /\ c \in Nat
        BY <1>3, <1>c, <3>1
      <4>3. j < k + 1 /\ ~ (k + 1 < j) /\ ~ (c < c) /\ j # k + 1
        BY <1>3, <4>2
      <4>4. QED
        BY <4>1, <4>3, Zenon DEF Before
    <3>3. n \in DOMAIN netlistData' /\ j \in DOMAIN netlistData'[n]
      BY <1>1, <1>2, <1>3, <1>4, <2>1, <2>3, <3>1
    <3>4. netlistData'[n][j] = netlistData[n][j]
      BY <1>4, <2>3, <3>1
    <3>5. p \in Places'
      BY <2>1, <3>3 DEF Places
    <3>6. QED
      BY <2>1, <3>2, <3>4, <3>5 DEF LineAt
  <2>4. CASE n # c
    <3>1. n < c /\ netlistData'[n] = netlistData[n] /\ n \in DOMAIN netlistData'
      BY <1>1, <1>2, <2>1, <2>2, <2>4
    <3>2. Before(p, LastPlace') /\ ~ Before(LastPlace', p) /\ p # LastPlace'
      BY <1>1, <1>5, <2>1, <3>1 DEF Before
    <3>3. p \in Places'
      BY <2>1, <3>1 DEF Places
    <3>4. QED
      BY <2>1, <3>1, <3>2, <3>3 DEF LineAt
  <2>5. QED
    BY <2>3, <2>4
<1>8. LastPlace' \in Places'
  <2>1. c \in DOMAIN netlistData' /\ k + 1 \in DOMAIN netlistData'[c]
    BY <1>1, <1>2, <1>3, <1>4
  <2>2. <<c, k + 1>> \in {c} \X DOMAIN netlistData'[c]
    BY <2>1
  <2>3. <<c, k + 1>> \in Places'
    BY <2>1, <2>2 DEF Places
  <2>4. QED
    BY <1>5, <2>3
<1>9. ASSUME NEW p \in Places', p # LastPlace'
      PROVE  p \in Places
  <2>1. PICK n \in DOMAIN netlistData' : p \in {n} \X DOMAIN netlistData'[n]
    BY DEF Places
  <2>2. PICK j \in DOMAIN netlistData'[n] : p = <<n, j>>
    BY <2>1
  <2>3. CASE n = c
    <3>1. j \in 1..k
      <4>1. j \in 1..k + 1
        BY <1>4, <2>2, <2>3
      <4>2. j # k + 1
        BY <1>5, <1>9, <2>2, <2>3
      <4>3. QED
        BY <1>3, <4>1, <4>2
    <3>2. old # <<>>
      BY <1>4, <3>1
    <3>3. n \in DOMAIN netlistData /\ j \in DOMAIN netlistData[n]
      BY <1>1, <1>2, <1>4, <2>3, <3>1, <3>2
    <3>4. QED
      BY <2>2, <3>3, PlaceInANet
  <2>4. CASE n # c
    <3>1. n # linesRead + 1
      BY <1>1, <2>2, <2>4
    <3>2. n \in 1..linesRead
      BY <1>2, <2>1, <3>1
    <3>3. netlistData'[n] = netlistData[n]
      BY <1>1, <2>4, <3>2
    <3>4. n \in DOMAIN netlistData /\ j \in DOMAIN netlistData[n]
      BY <1>2, <2>2, <3>2, <3>3
    <3>5. QED
      BY <2>2, <3>4, PlaceInANet
  <2>5. QED
    BY <2>3, <2>4
<1>10. ~ Before(LastPlace', LastPlace')
  <2>1. PICK a \in Nat, b \in Nat : LastPlace' = <<a, b>>
    BY <1>c, <1>5
  <2>2. ~ Before(<<a, b>>, <<a, b>>)
    BY DEF Before
  <2>3. QED
    BY <2>1, <2>2
<1>11. QED
  BY <1>6, <1>7, <1>8, <1>9, <1>10

(***************************************************************************)
(* Numbers of places are numbers of lines that were read, and the last     *)
(* place has the last one.                                                 *)
(***************************************************************************)
LEMMA NumberOfALine ==
  ASSUME ReaderInv, NEW p \in Places
  PROVE  Number(p) \in 1..linesRead
<1> DEFINE before == {q \in Places : Before(q, p)}
           others == Places \ {p}
<1>1. /\ netlistData \in Seq(Seq(Line)) /\ IsFiniteSet(Places)
      /\ Cardinality(Places) = linesRead /\ linesRead \in Nat
  BY LenProperties DEF ReaderInv, ReaderTypeOK, EveryLineOnce
<1>2. IsFiniteSet(others) /\ Cardinality(others) = linesRead - 1
  BY <1>1, FS_RemoveElement
<1>3. before \in SUBSET others
  BY <1>1, PlacesAreOrdered
<1>4. Cardinality(before) <= linesRead - 1 /\ Cardinality(before) \in Nat
  <2> HIDE DEF before, others
  <2>1. QED
    BY <1>2, <1>3, FS_Subset, FS_CardinalityType
<1>5. Number(p) = Cardinality(before) + 1
  BY DEF Number
<1> HIDE DEF before
<1>6. QED
  BY <1>1, <1>4, <1>5

LEMMA NumberOfTheLast ==
  ASSUME ReaderInv, linesRead > 0
  PROVE  Number(LastPlace) = linesRead
<1>1. /\ netlistData \in Seq(Seq(Line)) /\ IsFiniteSet(Places)
      /\ Cardinality(Places) = linesRead /\ linesRead \in Nat
  BY LenProperties DEF ReaderInv, ReaderTypeOK, EveryLineOnce
<1>2. {q \in Places : Before(q, LastPlace)} = Places \ {LastPlace}
  BY <1>1, LastPlaceIsLast, PlacesAreOrdered
<1>3. Cardinality(Places \ {LastPlace}) = linesRead - 1
  BY <1>1, LastPlaceIsLast, FS_RemoveElement
<1>4. Number(LastPlace) = Cardinality(Places \ {LastPlace}) + 1
  BY <1>2 DEF Number
<1>5. QED
  BY <1>1, <1>3, <1>4

LEMMA NumbersAfterALine ==
  ASSUME ReaderInv, ReadLine
  PROVE  /\ \A p \in Places : Number(p)' = Number(p)
         /\ Number(LastPlace)' = linesRead + 1
         /\ IsFiniteSet(Places') /\ Cardinality(Places') = linesRead + 1
<1>1. PICK new : /\ new = LastPlace' /\ new \notin Places /\ ~ Before(new, new)
                 /\ \A p \in Places : Before(p, new) /\ ~ Before(new, p)
                 /\ Places' = Places \union {new}
  BY ReadLineAddsAPlace
<1>2. IsFiniteSet(Places) /\ Cardinality(Places) = linesRead
  BY DEF ReaderInv, EveryLineOnce
<1>3. /\ {q \in Places' : Before(q, new)} = Places
      /\ \A p \in Places : {q \in Places' : Before(q, p)} = {q \in Places : Before(q, p)}
      /\ IsFiniteSet(Places') /\ Cardinality(Places') = linesRead + 1
  BY <1>1, <1>2, NextNumber
<1>4. \A p \in Places : Number(p)' = Number(p)
  BY <1>3 DEF Number
<1>5. Number(LastPlace)' = linesRead + 1
  BY <1>1, <1>2, <1>3 DEF Number
<1>6. QED
  BY <1>3, <1>4, <1>5
-------------------------------------------------------------------------
(***************************************************************************)
(* The nets are the runs of lines with one name.  A line joins the last    *)
(* net exactly if its name is that of the line before it; and a line of an *)
(* earlier place is in the last net exactly if all names from there to the *)
(* last line are one.                                                      *)
(***************************************************************************)
LEMMA LineJoinsTheRun ==
  ASSUME ReaderInv, ReadLine, NoBlankLine', NEW p \in Places
  PROVE  p[1] = loopCounter' + 1 <=> OneName(Number(p), linesRead + 1)
<1>1. PICK a \in 1..linesRead : a = Number(p)
  BY NumberOfALine
<1>2. /\ linesRead \in Nat /\ linesRead > 0 /\ loopCounter \in Nat
      /\ netlistData \in Seq(Seq(Line))
      /\ comparator = netlistFile[linesRead]
  <2>1. linesRead \in Nat /\ loopCounter \in Nat /\ netlistData \in Seq(Seq(Line))
    BY LenProperties DEF ReaderInv, ReaderTypeOK
  <2>2. linesRead > 0
    BY <1>1, <2>1
  <2>3. QED
    BY <2>1, <2>2 DEF ReaderInv
<1>3. linesRead' = linesRead + 1 /\ netlistFile' = netlistFile
  BY DEF ReadLine
<1>4. NoBlankLine /\ netlistFile[linesRead] # SpaceLine
  BY <1>2, <1>3 DEF NoBlankLine
<1> DEFINE joins == netlistFile[linesRead].name = netlistFile[linesRead + 1].name
<1>5. loopCounter' = IF joins THEN loopCounter ELSE loopCounter + 1
  BY <1>2, <1>4 DEF ReadLine, StartsNet
<1>6. OneName(a, linesRead + 1) <=> OneName(a, linesRead) /\ joins
  <2>1. a..linesRead + 1 = a..linesRead \union {linesRead + 1} /\ linesRead \in a..linesRead
    BY <1>1, <1>2
  <2>2. QED
    BY <2>1 DEF OneName
<1>7. p[1] = loopCounter + 1 <=> OneName(a, linesRead)
  <2>1. CASE p = LastPlace
    <3>1. a = linesRead
      BY <1>1, <1>2, <2>1, NumberOfTheLast
    <3>2. OneName(linesRead, linesRead)
      BY <1>2 DEF OneName
    <3>3. QED
      BY <1>2, <2>1, <3>1, <3>2, LastPlaceIsLast
  <2>2. CASE p # LastPlace
    <3>1. /\ LastPlace \in Places /\ LastPlace[1] = loopCounter + 1
          /\ Before(p, LastPlace) /\ Number(LastPlace) = linesRead
      BY <1>2, <2>2, LastPlaceIsLast, NumberOfTheLast
    <3>2. p[1] = LastPlace[1] <=> OneName(Number(p), Number(LastPlace))
      BY <1>4, <3>1 DEF ReaderInv, NetsAreRuns
    <3>3. QED
      BY <1>1, <3>1, <3>2
  <2>3. QED
    BY <2>1, <2>2
<1>8. p[1] \in Nat /\ p[1] <= loopCounter + 1
  <2>1. p = LastPlace \/ Before(p, LastPlace)
    BY <1>2, LastPlaceIsLast
  <2>2. p[1] \in Nat
    BY <1>2, PlaceOfALine
  <2>3. QED
    BY <1>2, <2>1, <2>2, LastPlaceIsLast DEF Before
<1> HIDE DEF joins
<1>9. CASE joins
  BY <1>1, <1>5, <1>6, <1>7, <1>9
<1>10. CASE ~ joins
  BY <1>1, <1>2, <1>5, <1>6, <1>8, <1>10
<1>11. QED
  BY <1>9, <1>10

LEMMA NetsLeftEmpty ==
  ASSUME ReaderInv, ReadLine
  PROVE  \A n \in DOMAIN netlistData' : netlistData'[n] = <<>> <=> n > loopCounter' + 1
<1>1. PICK c, old :
         /\ c = loopCounter' + 1
         /\ old \in Seq(Line)
         /\ c \in 1..linesRead + 1
         /\ loopCounter' \in {loopCounter, loopCounter + 1}
         /\ Len(netlistData') = linesRead + 1
         /\ netlistData' \in Seq(Seq(Line))
         /\ netlistData'[c] = Append(old, NewLine)
         /\ \A n \in 1..linesRead : n # c => netlistData'[n] = netlistData[n]
         /\ c # linesRead + 1 => netlistData'[linesRead + 1] = <<>>
         /\ netlistFile[linesRead + 1] \in Line
  BY NetsAfterALine
<1>2. /\ linesRead \in Nat /\ loopCounter \in Nat /\ c \in Nat
      /\ linesRead = 0 => loopCounter = 0
      /\ linesRead # 0 => loopCounter < linesRead
      /\ c \in {loopCounter + 1, loopCounter + 2}
      /\ DOMAIN netlistData' = 1..linesRead + 1
      /\ \A n \in 1..linesRead : netlistData[n] = <<>> <=> n > loopCounter + 1
  <2>1. linesRead \in Nat /\ loopCounter \in Nat
    BY LenProperties DEF ReaderInv, ReaderTypeOK
  <2>2. \A n \in 1..linesRead : netlistData[n] = <<>> <=> n > loopCounter + 1
    BY LenProperties DEF ReaderInv, ReaderTypeOK, EveryLineOnce
  <2>3. c \in Nat /\ c \in {loopCounter + 1, loopCounter + 2}
    <3>1. c = loopCounter' + 1
      BY <1>1
    <3>2. CASE loopCounter' = loopCounter
      BY <2>1, <3>1, <3>2
    <3>3. CASE loopCounter' = loopCounter + 1
      BY <2>1, <3>1, <3>3
    <3>4. loopCounter' = loopCounter \/ loopCounter' = loopCounter + 1
      BY <1>1
    <3>5. QED
      BY <3>2, <3>3, <3>4
  <2>4. DOMAIN netlistData' = 1..linesRead + 1
    BY <1>1, <2>1, LenProperties
  <2>5. QED
    BY <2>1, <2>2, <2>3, <2>4 DEF ReaderInv
<1>3. netlistData'[c] # <<>>
  <2>1. IsASequence(old)
    BY <1>1 DEF IsASequence
  <2>2. Len(old) \in Nat /\ Len(Append(old, NewLine)) = Len(old) + 1
    BY <2>1, SequenceGrows
  <2>3. QED
    BY <1>1, <2>2
<1>4. ASSUME NEW n \in 1..linesRead + 1
      PROVE  netlistData'[n] = <<>> <=> n > c
  <2>1. CASE n = c
    BY <1>2, <1>3, <2>1
  <2>2. CASE n # c /\ n = linesRead + 1
    <3>1. c \in 1..linesRead + 1
      BY <1>1
    <3>2. linesRead \in Nat
      BY <1>2
    <3>3. n > c
      BY <2>2, <3>1, <3>2
    <3>4. netlistData'[n] = <<>>
      BY <1>1, <2>2
    <3>5. QED
      BY <3>3, <3>4
  <2>3. CASE n # c /\ n # linesRead + 1
    <3>1. n \in 1..linesRead
      BY <1>2, <2>3
    <3>2. netlistData'[n] = netlistData[n] /\ (netlistData[n] = <<>> <=> n > loopCounter + 1)
      BY <1>1, <1>2, <2>3, <3>1
    <3>3. n > loopCounter + 1 <=> n > c
      BY <1>2, <2>3, <3>1
    <3>4. QED
      BY <3>2, <3>3
  <2>4. QED
    BY <2>1, <2>2, <2>3
<1>5. QED
  BY <1>1, <1>2, <1>4

LEMMA ReaderInvBegins ==
  ASSUME ReaderBegins, netlistFile \in Seq(Line)
  PROVE  ReaderInv
<1>1. /\ linesRead = 0 /\ loopCounter = 0 /\ comparator = SpaceLine /\ netlistData = <<>>
      /\ Len(netlistFile) \in Nat
  BY LenProperties DEF ReaderBegins
<1>2. Places = {}
  BY <1>1 DEF Places
<1>3. netlistData \in Seq(Seq(Line)) /\ Len(netlistData) = 0
  BY <1>1
<1>4. ReaderTypeOK
  BY <1>1, <1>3, LinesOfNothing DEF ReaderTypeOK
<1>5. EveryLineOnce
  BY <1>1, <1>2, <1>3, FS_EmptySet DEF EveryLineOnce
<1>6. QED
  BY <1>1, <1>2, <1>4, <1>5, FS_EmptySet DEF ReaderInv, NetsAreRuns

LEMMA ReaderInvStep == ReaderInv /\ [ReaderNext]_readerVars => ReaderInv'
<1> SUFFICES ASSUME ReaderInv, [ReaderNext]_readerVars
             PROVE  ReaderInv'
  OBVIOUS
<1>1. CASE UNCHANGED readerVars
  <2>1. UNCHANGED <<netlistFile, linesRead, comparator, netlistData, loopCounter>>
    BY <1>1 DEF readerVars
  <2>2. Places' = Places /\ \A p : LineAt(p)' = LineAt(p) /\ Number(p)' = Number(p)
    BY <2>1 DEF Places, LineAt, Number
  <2>3. EveryLineOnce' /\ NetsAreRuns' /\ ReaderTypeOK'
    BY <2>1, <2>2 DEF ReaderInv, EveryLineOnce, NetsAreRuns, NoBlankLine, OneName, ReaderTypeOK
  <2>4. QED
    BY <2>1, <2>2, <2>3 DEF ReaderInv
<1>2. CASE ReadLine
  <2>1. /\ linesRead' = linesRead + 1 /\ netlistFile' = netlistFile
        /\ comparator' = netlistFile[linesRead + 1]
    BY <1>2 DEF ReadLine
  <2>2. PICK new : /\ new = LastPlace' /\ new[1] = loopCounter' + 1
                   /\ Places' = Places \union {new} /\ new \notin Places
                   /\ ~ Before(new, new)
                   /\ \A p \in Places : Before(p, new) /\ ~ Before(new, p)
                   /\ \A p \in Places : LineAt(p)' = LineAt(p)
                   /\ LineAt(new)' = NewLine
    <3>1. LineAt(LastPlace)' = NewLine
      BY <1>2, ReadLineAddsAPlace
    <3>2. PICK new : new = LastPlace'
      OBVIOUS
    <3>3. LineAt(new)' = NewLine
      BY <3>1, <3>2 DEF LineAt
    <3>4. QED
      BY <1>2, <3>2, <3>3, ReadLineAddsAPlace
  <2>3. /\ \A p \in Places : Number(p)' = Number(p)
        /\ Number(new)' = linesRead + 1
        /\ IsFiniteSet(Places') /\ Cardinality(Places') = linesRead + 1
    <3>1. /\ \A p \in Places : Number(p)' = Number(p)
          /\ Number(LastPlace)' = linesRead + 1
          /\ IsFiniteSet(Places') /\ Cardinality(Places') = linesRead + 1
      BY <1>2, NumbersAfterALine
    <3>2. Number(new)' = Number(LastPlace)'
      BY <2>2 DEF Number
    <3>3. QED
      BY <3>1, <3>2
  <2>4. /\ linesRead \in Nat /\ Len(netlistFile) \in Nat /\ netlistFile \in Seq(Line)
        /\ linesRead < Len(netlistFile)
        /\ netlistFile[linesRead + 1] \in Line
        /\ loopCounter \in Nat /\ loopCounter' \in Nat /\ loopCounter' < linesRead + 1
        /\ netlistData' \in Seq(Seq(Line)) /\ Len(netlistData') = linesRead + 1
    <3>1. /\ linesRead \in Nat /\ Len(netlistFile) \in Nat /\ netlistFile \in Seq(Line)
          /\ loopCounter \in Nat /\ linesRead < Len(netlistFile)
      BY <1>2, LenProperties DEF ReaderInv, ReaderTypeOK, ReadLine
    <3>2. /\ netlistFile[linesRead + 1] \in Line
          /\ netlistData' \in Seq(Seq(Line)) /\ Len(netlistData') = linesRead + 1
          /\ loopCounter' \in {loopCounter, loopCounter + 1}
          /\ loopCounter' + 1 \in 1..linesRead + 1
      BY <1>2, NetsAfterALine
    <3>3. loopCounter' \in Nat /\ loopCounter' < linesRead + 1
      <4>1. loopCounter \in Nat /\ linesRead \in Nat
        BY <3>1
      <4>2. loopCounter' = loopCounter \/ loopCounter' = loopCounter + 1
        BY <3>2
      <4>3. loopCounter' \in Nat
        BY <4>1, <4>2
      <4>4. loopCounter' + 1 \in 1..linesRead + 1
        BY <3>2
      <4>5. loopCounter' < linesRead + 1
        <5>1. \A c, n \in Nat : c + 1 \in 1..n + 1 => c < n + 1
          OBVIOUS
        <5>2. QED
          BY <4>1, <4>3, <4>4, <5>1
      <4>6. QED
        BY <4>3, <4>5
    <3>4. QED
      BY <3>1, <3>2, <3>3
  <2>5. ReaderTypeOK'
    BY <2>1, <2>4 DEF ReaderTypeOK
  <2>6. \A n \in DOMAIN netlistData' : netlistData'[n] = <<>> <=> n > loopCounter' + 1
    BY <1>2, NetsLeftEmpty
  <2>7. \A p \in Places' : LineAt(p)' = Columns(netlistFile[Number(p)'])
    <3>1. \A p \in Places : LineAt(p) = Columns(netlistFile[Number(p)])
      BY DEF ReaderInv, EveryLineOnce
    <3>2. \A p \in Places : LineAt(p)' = Columns(netlistFile[Number(p)'])
      BY <2>2, <2>3, <3>1
    <3>3. LineAt(new)' = Columns(netlistFile[Number(new)'])
      BY <2>2, <2>3 DEF NewLine
    <3>4. QED
      BY <2>2, <3>2, <3>3
  <2>8. EveryLineOnce'
    BY <2>1, <2>3, <2>4, <2>6, <2>7 DEF EveryLineOnce
  <2>9. NetsAreRuns'
    <3> SUFFICES ASSUME NoBlankLine', NEW p \in Places', NEW q \in Places', Before(p, q)
                 PROVE  p[1] = q[1] <=> OneName(Number(p)', Number(q)')
      BY <2>1 DEF NetsAreRuns, OneName
    <3>1. p \in Places
      BY <2>2
    <3>2. NoBlankLine
      BY <2>1, <2>4 DEF NoBlankLine
    <3>3. CASE q \in Places
      BY <2>3, <3>1, <3>2, <3>3 DEF ReaderInv, NetsAreRuns
    <3>4. CASE q = new
      BY <1>2, <2>2, <2>3, <3>1, <3>4, LineJoinsTheRun
    <3>5. QED
      BY <2>2, <3>3, <3>4
  <2>10. QED
    BY <2>1, <2>3, <2>4, <2>5, <2>8, <2>9 DEF ReaderInv
<1>3. QED
  BY <1>1, <1>2 DEF ReaderNext
-------------------------------------------------------------------------
(***************************************************************************)
(* The bill.  What is left of a line is the line without its first k       *)
(* characters.                                                             *)
(***************************************************************************)
IsRest(text, line, k) ==
    /\ k \in 0..Len(line)
    /\ Len(text) = Len(line) - k
    /\ \A n \in 1..Len(line) - k : text[n] = line[k + n]

LEMMA RestOfARest ==
  ASSUME NEW line \in Seq(STRING), NEW text \in Seq(STRING), NEW k, IsRest(text, line, k),
         NEW count \in 0..Len(text)
  PROVE  IsRest(Erase(text, count), line, k + count)
<1>1. /\ Len(line) \in Nat /\ Len(text) \in Nat /\ k \in Nat /\ count \in Nat
      /\ k <= Len(line) /\ count <= Len(text) /\ Len(text) = Len(line) - k
  BY LenProperties DEF IsRest
<1>2. /\ Len(Erase(text, count)) = Len(text) - count
      /\ \A n \in 1..Len(text) - count : Erase(text, count)[n] = text[count + n]
  <2>1. count \in Nat /\ count <= Len(text)
    BY <1>1
  <2>2. QED
    BY <2>1, EraseIsAText, Zenon
<1>3. k + count \in 0..Len(line) /\ Len(line) - (k + count) = Len(text) - count
  BY <1>1
<1>4. ASSUME NEW n \in 1..Len(line) - (k + count)
      PROVE  Erase(text, count)[n] = line[(k + count) + n]
  <2>1. n \in 1..Len(text) - count /\ n \in Nat
    BY <1>3
  <2>2. count + n \in 1..Len(line) - k /\ k + (count + n) = (k + count) + n
    BY <1>1, <2>1
  <2>3. Erase(text, count)[n] = text[count + n]
    BY <1>2, <2>1
  <2>4. text[count + n] = line[k + (count + n)]
    BY <2>2 DEF IsRest
  <2>5. QED
    BY <2>2, <2>3, <2>4
<1>5. QED
  BY <1>2, <1>3, <1>4 DEF IsRest

(***************************************************************************)
(* Behind a cell is the rest behind a comma; without a comma it is the     *)
(* same rest, since Npos + 1 is 0.                                         *)
(***************************************************************************)
BeginsACell(text, line, k) == IsRest(text, line, k) /\ (k = 0 \/ line[k] = Comma)

LEMMA NextCell ==
  ASSUME NEW line \in Seq(STRING), Len(line) < SizeMax,
         NEW text \in Seq(STRING), NEW k, BeginsACell(text, line, k)
  PROVE  \E m : BeginsACell(AfterCell(text), line, m)
<1> DEFINE f == Find(text, Comma)
<1>1. /\ Len(line) \in Nat /\ Len(text) \in Nat /\ k \in Nat /\ k <= Len(line)
      /\ Len(text) = Len(line) - k
  BY LenProperties DEF BeginsACell, IsRest
<1>2. /\ f \in Nat
      /\ f = Npos \/ (f < Len(text) /\ text[f + 1] = Comma)
  BY FindIsThere
<1> HIDE DEF f
<1>3. CASE f = Npos
  <2>1. SizeT(f + 1) = 0
    BY <1>3 DEF SizeT, Npos, SizeMax
  <2>2. IsRest(Erase(text, 0), line, k + 0)
    BY <1>1, RestOfARest DEF BeginsACell
  <2>3. BeginsACell(Erase(text, 0), line, k)
    BY <1>1, <2>2 DEF BeginsACell
  <2>4. QED
    BY <2>1, <2>3 DEF AfterCell, f
<1>4. CASE f < Len(text) /\ text[f + 1] = Comma
  <2>1. f + 1 < SizeMax + 1 /\ f + 1 \in 0..Len(text)
    BY <1>1, <1>2, <1>4 DEF SizeMax
  <2>2. SizeT(f + 1) = f + 1
    BY <1>2, <2>1 DEF SizeT, SizeMax
  <2>3. IsRest(Erase(text, f + 1), line, k + (f + 1))
    BY <2>1, RestOfARest DEF BeginsACell
  <2>4. f + 1 \in 1..Len(line) - k
    BY <1>1, <1>2, <1>4
  <2>5. line[k + (f + 1)] = Comma
    BY <1>4, <2>4 DEF BeginsACell, IsRest
  <2>6. BeginsACell(Erase(text, f + 1), line, k + (f + 1))
    BY <2>3, <2>5 DEF BeginsACell
  <2>7. QED
    BY <2>2, <2>6 DEF AfterCell, f
<1>5. QED
  BY <1>2, <1>3, <1>4

(***************************************************************************)
(* Cells and what is behind them are texts.                                *)
(***************************************************************************)
LEMMA SizeIsNatural == ASSUME NEW n \in Nat PROVE SizeT(n) \in Nat
BY DEF SizeT, SizeMax

LEMMA CellsAreTexts ==
  ASSUME NEW text \in Seq(STRING), NEW c
  PROVE  /\ Substr(text, 0, Find(text, c)) \in Seq(STRING)
         /\ AfterCell(text) \in Seq(STRING)
         /\ \A n \in Nat : Erase(text, n) \in Seq(STRING)
<1>1. \A n \in Nat : Erase(text, n) \in Seq(STRING)
  BY EraseIsAText
<1>2. 0 \in 0..Len(text)
  BY LenProperties
<1>3. Find(text, c) \in Nat /\ Find(text, Comma) \in Nat
  BY FindIsThere
<1>4. Substr(text, 0, Find(text, c)) \in Seq(STRING)
  BY <1>2, <1>3, SubstrIsAText
<1>5. SizeT(Find(text, Comma) + 1) \in Nat
  <2>1. Find(text, Comma) + 1 \in Nat
    BY <1>3
  <2>2. QED
    BY <2>1, SizeIsNatural
<1>6. QED
  BY <1>1, <1>4, <1>5 DEF AfterCell

(***************************************************************************)
(* A quote is not a digit, and the end of a text is no quote.              *)
(***************************************************************************)
LEMMA QuoteIsNoDigit == ~ IsDigit(Quote) /\ Quote # NoChar
<1>1. /\ Quote # "0" /\ Quote # "1" /\ Quote # "2" /\ Quote # "3" /\ Quote # "4"
      /\ Quote # "5" /\ Quote # "6" /\ Quote # "7" /\ Quote # "8" /\ Quote # "9"
      /\ Quote # NoChar
  BY Zenon DEF Quote, NoChar
<1>2. QED
  BY <1>1 DEF IsDigit, Contains, Digits

LEMMA FirstOfARest ==
  ASSUME NEW text \in Seq(STRING), First(text) = Quote
  PROVE  Len(text) \in Nat /\ 1 <= Len(text) /\ text[1] = Quote
<1>1. text # <<>>
  BY QuoteIsNoDigit DEF First
<1>2. Len(text) \in Nat /\ text = <<>> <=> Len(text) = 0
  BY LenProperties, EmptySeq
<1>3. Head(text) = text[1]
  BY <1>1, HeadTailProperties
<1>4. QED
  BY <1>1, <1>2, <1>3, QuoteIsNoDigit DEF First
-------------------------------------------------------------------------
(***************************************************************************)
(* How many of the first lines are parts.                                  *)
(***************************************************************************)
LEMMA PartsAreCounted ==
  ASSUME NEW n \in Nat
  PROVE  /\ PartsIn(n) \in Nat
         /\ PartsIn(n + 1) = IF IsPart(billFile[n + 1]) THEN PartsIn(n) + 1 ELSE PartsIn(n)
         /\ \A m \in 0..n : PartsIn(m) <= PartsIn(n)
<1> DEFINE parts(k) == {m \in 1..k : IsPart(billFile[m])}
<1>1. /\ IsFiniteSet(1..n) /\ parts(n) \in SUBSET (1..n)
  BY FS_Interval
<1>2. IsFiniteSet(parts(n)) /\ Cardinality(parts(n)) \in Nat
  BY <1>1, FS_Subset, FS_CardinalityType
<1>3. PartsIn(n + 1) = IF IsPart(billFile[n + 1]) THEN PartsIn(n) + 1 ELSE PartsIn(n)
  <2>1. CASE IsPart(billFile[n + 1])
    <3>1. parts(n + 1) = parts(n) \cup {n + 1} /\ n + 1 \notin parts(n)
      BY <2>1
    <3>2. Cardinality(parts(n + 1)) = Cardinality(parts(n)) + 1
      BY <1>2, <3>1, FS_AddElement
    <3>3. QED
      BY <2>1, <3>2 DEF PartsIn
  <2>2. CASE ~ IsPart(billFile[n + 1])
    <3>1. parts(n + 1) = parts(n)
      BY <2>2
    <3>2. QED
      BY <2>2, <3>1 DEF PartsIn
  <2>3. QED
    BY <2>1, <2>2
<1>4. ASSUME NEW m \in 0..n
      PROVE  PartsIn(m) <= PartsIn(n)
  <2>1. parts(m) \in SUBSET parts(n)
    BY <1>4
  <2>2. Cardinality(parts(m)) <= Cardinality(parts(n))
    BY <1>2, <2>1, FS_Subset
  <2>3. QED
    BY <2>2 DEF PartsIn
<1>5. QED
  BY <1>2, <1>3, <1>4 DEF PartsIn

(***************************************************************************)
(* The line a part is read from is the first at which that many parts have *)
(* begun.                                                                  *)
(***************************************************************************)
CompletesPart(k, n) == PartsIn(k) = n /\ \A j \in 1..k - 1 : PartsIn(j) # n

LEMMA LineOfAPart ==
  ASSUME NEW n, NEW k \in 1..billLines, CompletesPart(k, n), billLines \in Nat
  PROVE  PartLine(n) = billFile[k]
<1> DEFINE T == {j \in 1..billLines : PartsIn(j) = n}
<1>1. T \subseteq Nat /\ k \in T
  BY DEF CompletesPart
<1>2. Min(T) \in T /\ Min(T) <= k
  <2> HIDE DEF T
  <2>1. QED
    BY <1>1, MinIsLeast
<1>3. Min(T) \in 1..k - 1 \/ Min(T) = k
  <2>1. PICK m : m = Min(T)
    OBVIOUS
  <2>2. m \in 1..billLines /\ m <= k
    BY <1>2, <2>1
  <2>3. m \in 1..k - 1 \/ m = k
    BY <2>2
  <2>4. QED
    BY <2>1, <2>3
<1>4. Min(T) = k
  BY <1>2, <1>3 DEF CompletesPart
<1>5. QED
  BY <1>4 DEF PartLine

LEMMA PartIsCompleted ==
  ASSUME NEW k \in Nat, k # 0, IsPart(billFile[k])
  PROVE  CompletesPart(k, PartsIn(k))
<1>1. k - 1 \in Nat /\ (k - 1) + 1 = k
  OBVIOUS
<1>2. /\ PartsIn(k - 1) \in Nat
      /\ PartsIn(k) = PartsIn(k - 1) + 1
      /\ \A m \in 0..k - 1 : PartsIn(m) <= PartsIn(k - 1)
  BY <1>1, PartsAreCounted
<1>3. ASSUME NEW j \in 1..k - 1
      PROVE  PartsIn(j) # PartsIn(k)
  <2>1. PartsIn(j) \in Nat /\ PartsIn(j) <= PartsIn(k - 1)
    BY <1>2, PartsAreCounted
  <2>2. QED
    BY <1>2, <2>1
<1>4. QED
  BY <1>3 DEF CompletesPart
-------------------------------------------------------------------------
(***************************************************************************)
(* The invariant of the bill.  Up to the identifiers, what is left of a    *)
(* line begins with a cell of it; in a list, if temp has no identifier     *)
(* yet, a quote that opens a cell is the last character gone.              *)
(***************************************************************************)
CurrentLine == billFile[billLines]
LinesAreShort == \A n \in DOMAIN billFile : Len(billFile[n]) < SizeMax
BetweenLines == billAt \in {"line", "done"}

BehindAnOpenQuote(line, k) ==
    /\ IsRest(holder, line, k) /\ k \in 2..Len(line)
    /\ line[k - 1] = Comma /\ line[k] = Quote

RowsCounted ==
    /\ BetweenLines => Len(billData) = PartsIn(billLines)
    /\ ~ BetweenLines => /\ Len(billData) + 1 = PartsIn(billLines)
                         /\ billLines # 0 /\ IsPart(CurrentLine)
CellsKnown ==
    /\ billAt \in {"item", "quantity", "manufacturer", "partNumber", "identifier"} =>
          \E k \in 0..Len(CurrentLine) : BeginsACell(holder, CurrentLine, k)
    /\ temp.identifier = <<>> =>
          /\ billAt = "list" =>
                \E k \in 0..Len(CurrentLine) : BehindAnOpenQuote(CurrentLine, k)
          /\ billAt \in {"description", "dni", "status", "maxTemp"} =>
                HasEmptyQuotes(CurrentLine)
PartsKnown ==
    \A n \in DOMAIN billData : \E k \in 1..billLines :
       /\ CompletesPart(k, n)
       /\ billData[n].identifier = <<>> => HasEmptyQuotes(billFile[k])

BillInv == /\ BillTypeOK /\ LinesAreShort /\ IsASequence(billData)
           /\ RowsCounted /\ CellsKnown /\ PartsKnown

LEMMA EmptyPartIsAPart == IsPartData(EmptyPart) /\ EmptyPart.identifier = <<>>
<1>1. \A cell \in DOMAIN EmptyPart : EmptyPart[cell] = <<>>
  BY DEF EmptyPart
<1>2. "identifier" \in DOMAIN EmptyPart
  BY DEF EmptyPart
<1>3. << >> \in Seq(STRING) /\ << >> \in Seq(Seq(STRING))
  BY EmptySeq
<1>4. EmptyPart.identifier = <<>>
  BY <1>1, <1>2
<1>5. QED
  BY <1>1, <1>3, <1>4, Zenon DEF IsPartData

LEMMA CellIsPut ==
  ASSUME NEW part, IsPartData(part), NEW cell \in DOMAIN part \ {"identifier"},
         NEW text \in Seq(STRING)
  PROVE  /\ IsPartData([part EXCEPT ![cell] = text])
         /\ [part EXCEPT ![cell] = text].identifier = part.identifier
BY DEF IsPartData, EmptyPart

LEMMA IdentifierIsPut ==
  ASSUME NEW part, IsPartData(part), NEW name \in Seq(STRING)
  PROVE  /\ IsPartData([part EXCEPT !.identifier = Append(@, name)])
         /\ [part EXCEPT !.identifier = Append(@, name)].identifier # <<>>
<1> DEFINE list == Append(part.identifier, name)
           other == [part EXCEPT !.identifier = list]
<1>1. part.identifier \in Seq(Seq(STRING)) /\ "identifier" \in DOMAIN part
  BY DEF IsPartData, EmptyPart
<1>2. list \in Seq(Seq(STRING)) /\ Len(list) = Len(part.identifier) + 1
      /\ Len(part.identifier) \in Nat
  BY <1>1, AppendProperties, LenProperties
<1> HIDE DEF list
<1>3. list # <<>>
  <2>1. Len(<<>>) = 0
    BY EmptySeq
  <2>2. QED
    BY <1>2, <2>1
<1>4. /\ DOMAIN other = DOMAIN part /\ other.identifier = list
      /\ \A cell \in DOMAIN part \ {"identifier"} : other[cell] = part[cell]
  BY <1>1
<1>5. IsPartData(other)
  BY <1>2, <1>4 DEF IsPartData
<1>6. QED
  BY <1>3, <1>4, <1>5 DEF list

(***************************************************************************)
(* A step within a line leaves the counts and the parts as they are.       *)
(***************************************************************************)
WithinALine ==
    /\ ~ BetweenLines /\ ~ BetweenLines'
    /\ UNCHANGED <<billFile, billLines, billData>>
    /\ billAt' \in DOMAIN Behind \union {"identifier", "list", "description", "maxTemp", "threw"}
    /\ holder' \in Seq(STRING)
    /\ IsPartData(temp')

LEMMA PartsStayKnown ==
  ASSUME BillInv, UNCHANGED <<billFile, billData>>, billLines' \in Nat, billLines <= billLines'
  PROVE  PartsKnown' /\ \A n : PartsIn(n)' = PartsIn(n)
<1>1. \A n : PartsIn(n)' = PartsIn(n)
  BY DEF PartsIn
<1>2. \A k, n : CompletesPart(k, n)' = CompletesPart(k, n)
  BY <1>1 DEF CompletesPart
<1>3. billLines \in Nat
  BY LenProperties DEF BillInv, BillTypeOK
<1>4. \A k \in 1..billLines : k \in 1..billLines'
  BY <1>3
<1>5. QED
  BY <1>1, <1>2, <1>4 DEF BillInv, PartsKnown, HasEmptyQuotes

LEMMA WithinALineInv ==
  ASSUME BillInv, WithinALine, CellsKnown'
  PROVE  BillInv'
<1>1. UNCHANGED <<billFile, billLines, billData>>
  BY DEF WithinALine
<1>2. BillTypeOK'
  BY <1>1 DEF BillInv, BillTypeOK, WithinALine, BetweenLines
<1>3. LinesAreShort' /\ IsASequence(billData)'
  BY <1>1 DEF BillInv, LinesAreShort
<1>4. PartsKnown' /\ \A n : PartsIn(n)' = PartsIn(n)
  <2>1. billLines \in Nat
    BY LenProperties DEF BillInv, BillTypeOK
  <2>2. billLines' \in Nat /\ billLines <= billLines'
    BY <1>1, <2>1
  <2>3. QED
    BY <1>1, <2>2, PartsStayKnown
<1>5. RowsCounted'
  BY <1>1, <1>4 DEF BillInv, RowsCounted, WithinALine, CurrentLine
<1>6. QED
  BY <1>2, <1>3, <1>4, <1>5 DEF BillInv

(***************************************************************************)
(* The texts that the cells of a step are made of.                         *)
(***************************************************************************)
LEMMA BillFacts ==
  ASSUME BillInv
  PROVE  /\ holder \in Seq(STRING) /\ IsPartData(temp)
         /\ billLines \in Nat /\ billLines <= Len(billFile) /\ Len(billFile) \in Nat
         /\ \A n \in DOMAIN billFile : billFile[n] \in Seq(STRING)
         /\ DOMAIN billFile = 1..Len(billFile)
         /\ ~ BetweenLines => /\ CurrentLine \in Seq(STRING) /\ Len(CurrentLine) < SizeMax
                              /\ IsPart(CurrentLine) /\ Len(CurrentLine) \in Nat
         /\ \A c : Substr(holder, 0, Find(holder, c)) \in Seq(STRING)
         /\ AfterCell(holder) \in Seq(STRING)
         /\ \A n \in Nat : Erase(holder, n) \in Seq(STRING)
<1>1. /\ holder \in Seq(STRING) /\ IsPartData(temp) /\ billFile \in Seq(Seq(STRING))
      /\ billLines \in 0..Len(billFile)
  BY DEF BillInv, BillTypeOK
<1>2. /\ billLines \in Nat /\ billLines <= Len(billFile) /\ Len(billFile) \in Nat
      /\ DOMAIN billFile = 1..Len(billFile)
  BY <1>1, LenProperties
<1>3. \A n \in DOMAIN billFile : billFile[n] \in Seq(STRING)
  BY <1>1, <1>2, ElementOfSeq
<1>4. ASSUME ~ BetweenLines
      PROVE  /\ CurrentLine \in Seq(STRING) /\ Len(CurrentLine) < SizeMax
             /\ IsPart(CurrentLine) /\ Len(CurrentLine) \in Nat
  <2>1. billLines # 0 /\ IsPart(CurrentLine)
    BY <1>4 DEF BillInv, RowsCounted
  <2>2. billLines \in DOMAIN billFile
    BY <1>2, <2>1
  <2>3. billFile[billLines] \in Seq(STRING) /\ Len(billFile[billLines]) < SizeMax
    BY <1>3, <2>2 DEF BillInv, LinesAreShort
  <2>4. Len(billFile[billLines]) \in Nat
    BY <2>3, LenProperties
  <2>5. QED
    BY <2>1, <2>3, <2>4 DEF CurrentLine
<1>5. /\ \A c : Substr(holder, 0, Find(holder, c)) \in Seq(STRING)
      /\ AfterCell(holder) \in Seq(STRING)
      /\ \A n \in Nat : Erase(holder, n) \in Seq(STRING)
  BY <1>1, CellsAreTexts
<1>6. QED
  BY <1>1, <1>2, <1>3, <1>4, <1>5

LEMMA GetLineInv == ASSUME BillInv, GetLine PROVE BillInv'
<1>1. /\ billAt = "line" /\ billLines < Len(billFile) /\ billLines' = billLines + 1
      /\ holder' = billFile[billLines + 1] /\ UNCHANGED <<billFile, temp, billData>>
      /\ billAt' = IF IsPart(billFile[billLines + 1]) THEN "item" ELSE "line"
  BY DEF GetLine, IsPart
<1>2. /\ billLines \in Nat /\ billLines' \in Nat /\ billLines <= billLines'
      /\ billLines' \in 0..Len(billFile) /\ billLines' \in DOMAIN billFile /\ billLines' # 0
  <2>1. /\ billLines \in Nat /\ Len(billFile) \in Nat /\ DOMAIN billFile = 1..Len(billFile)
    BY BillFacts
  <2>2. /\ billLines + 1 \in Nat /\ billLines <= billLines + 1 /\ billLines + 1 # 0
        /\ billLines + 1 \in 1..Len(billFile) /\ billLines + 1 \in 0..Len(billFile)
    BY <1>1, <2>1
  <2>3. QED
    BY <1>1, <2>1, <2>2
<1>3. holder' \in Seq(STRING) /\ holder' = billFile[billLines']
  BY <1>1, <1>2, BillFacts
<1>4. PartsKnown' /\ \A n : PartsIn(n)' = PartsIn(n)
  BY <1>1, <1>2, PartsStayKnown
<1>5. temp = EmptyPart
  BY <1>1 DEF BillInv, BillTypeOK
<1>6. BillTypeOK'
  BY <1>1, <1>2, <1>3, <1>5 DEF BillInv, BillTypeOK, Behind
<1>7. RowsCounted'
  <2>1. Len(billData) = PartsIn(billLines)
    BY <1>1 DEF BillInv, RowsCounted, BetweenLines
  <2>2. PartsIn(billLines)' = PartsIn(billLines')
    BY <1>1, <1>4 DEF PartsIn
  <2>3. PartsIn(billLines') = IF IsPart(billFile[billLines + 1]) THEN PartsIn(billLines) + 1
                              ELSE PartsIn(billLines)
    BY <1>1, <1>2, PartsAreCounted
  <2>4. QED
    BY <1>1, <1>2, <2>1, <2>2, <2>3 DEF RowsCounted, BetweenLines, CurrentLine
<1>8. CellsKnown'
  <2>1. IsRest(holder', holder', 0)
    <3>1. Len(holder') \in Nat
      BY <1>3, LenProperties
    <3>2. QED
      BY <3>1 DEF IsRest
  <2>2. CurrentLine' = holder' /\ 0 \in 0..Len(holder')
    BY <1>1, <1>3, LenProperties DEF CurrentLine
  <2>3. BeginsACell(holder', CurrentLine', 0)
    BY <2>1, <2>2 DEF BeginsACell
  <2>4. QED
    BY <1>1, <2>2, <2>3 DEF CellsKnown
<1>9. LinesAreShort' /\ IsASequence(billData)'
  BY <1>1 DEF BillInv, LinesAreShort
<1>10. QED
  BY <1>4, <1>6, <1>7, <1>8, <1>9 DEF BillInv

LEMMA EndOfFileInv == ASSUME BillInv, EndOfFile PROVE BillInv'
<1>1. /\ billAt = "line" /\ billAt' = "done"
      /\ UNCHANGED <<billFile, billLines, holder, temp, billData>>
  BY DEF EndOfFile
<1>2. billLines \in Nat
  BY BillFacts
<1>3. PartsKnown' /\ \A n : PartsIn(n)' = PartsIn(n)
  BY <1>1, <1>2, PartsStayKnown
<1>4. BillTypeOK'
  BY <1>1 DEF BillInv, BillTypeOK
<1>5. RowsCounted'
  BY <1>1, <1>3 DEF BillInv, RowsCounted, BetweenLines
<1>6. CellsKnown'
  BY <1>1 DEF CellsKnown
<1>7. LinesAreShort' /\ IsASequence(billData)'
  BY <1>1 DEF BillInv, LinesAreShort
<1>8. QED
  BY <1>3, <1>4, <1>5, <1>6, <1>7 DEF BillInv

LEMMA CopyCellInv == ASSUME BillInv, CopyCell PROVE BillInv'
<1>1. /\ billAt \in {"item", "quantity", "manufacturer", "partNumber", "dni", "status"}
      /\ temp' = [temp EXCEPT ![billAt] = Cell(holder)]
      /\ holder' = AfterCell(holder) /\ billAt' = Behind[billAt]
      /\ UNCHANGED <<billFile, billLines, billData>>
  BY DEF CopyCell, Behind
<1>2. /\ billAt \in {"item", "quantity", "manufacturer", "partNumber"} =>
            billAt' \in {"quantity", "manufacturer", "partNumber", "identifier"}
      /\ billAt \in {"dni", "status"} => billAt' \in {"status", "maxTemp"}
  BY <1>1 DEF Behind
<1>3. ~ BetweenLines /\ CurrentLine' = CurrentLine
  BY <1>1 DEF BetweenLines, CurrentLine
<1>4. IsPartData(temp') /\ temp'.identifier = temp.identifier
  <2>1. billAt \in DOMAIN temp \ {"identifier"}
    BY <1>1, BillFacts DEF IsPartData, EmptyPart
  <2>2. Cell(holder) \in Seq(STRING)
    BY BillFacts DEF Cell
  <2>3. IsPartData(temp)
    BY BillFacts
  <2>4. QED
    BY <1>1, <2>1, <2>2, <2>3, CellIsPut, Zenon
<1>5. WithinALine
  <2>1. billAt' \in DOMAIN Behind \union {"identifier", "maxTemp"}
    BY <1>1, <1>2 DEF Behind
  <2>2. ~ BetweenLines'
    BY <1>1, <1>2 DEF BetweenLines
  <2>3. QED
    BY <1>1, <1>3, <1>4, <2>1, <2>2, BillFacts DEF WithinALine
<1>6. CellsKnown'
  <2>1. CASE billAt \in {"item", "quantity", "manufacturer", "partNumber"}
    <3>1. PICK k \in 0..Len(CurrentLine) : BeginsACell(holder, CurrentLine, k)
      BY <2>1 DEF BillInv, CellsKnown
    <3>2. PICK m : BeginsACell(AfterCell(holder), CurrentLine, m)
      BY <1>3, <3>1, BillFacts, NextCell
    <3>3. m \in 0..Len(CurrentLine)
      BY <3>2 DEF BeginsACell, IsRest
    <3>4. QED
      BY <1>1, <1>2, <1>3, <2>1, <3>2, <3>3 DEF CellsKnown
  <2>2. CASE billAt \in {"dni", "status"}
    <3>1. temp.identifier = <<>> => HasEmptyQuotes(CurrentLine)
      BY <2>2 DEF BillInv, CellsKnown
    <3>2. HasEmptyQuotes(CurrentLine)' = HasEmptyQuotes(CurrentLine)
      BY <1>1 DEF HasEmptyQuotes, CurrentLine
    <3>3. QED
      BY <1>2, <1>4, <2>2, <3>1, <3>2 DEF CellsKnown
  <2>3. QED
    BY <1>1, <2>1, <2>2
<1>7. QED
  BY <1>5, <1>6, WithinALineInv

(***************************************************************************)
(* A step that puts an identifier into temp.                               *)
(***************************************************************************)
LEMMA PushInv ==
  ASSUME BillInv, ~ BetweenLines, NEW name \in Seq(STRING), Push(name),
         UNCHANGED <<billFile, billLines, billData>>,
         billAt' \in {"list", "description"}, holder' \in Seq(STRING)
  PROVE  BillInv'
<1>1. IsPartData(temp') /\ temp'.identifier # <<>>
  <2>1. IsPartData(temp)
    BY BillFacts
  <2>2. temp' = [temp EXCEPT !.identifier = Append(@, name)]
    BY DEF Push
  <2>3. QED
    BY <2>1, <2>2, IdentifierIsPut, Zenon
<1>2. CellsKnown'
  BY <1>1 DEF CellsKnown
<1>3. WithinALine
  BY <1>1 DEF WithinALine, BetweenLines
<1>4. QED
  BY <1>2, <1>3, WithinALineInv

LEMMA OneIdentifierInv == ASSUME BillInv, OneIdentifier PROVE BillInv'
<1>1. /\ billAt = "identifier" /\ billAt' = "description" /\ Push(Cell(holder))
      /\ holder' = AfterCell(holder) /\ UNCHANGED <<billFile, billLines, billData>>
  BY DEF OneIdentifier
<1>2. Cell(holder) \in Seq(STRING) /\ holder' \in Seq(STRING) /\ ~ BetweenLines
  BY <1>1, BillFacts DEF Cell, BetweenLines
<1>3. QED
  BY <1>1, <1>2, PushInv

LEMMA ListNameInv == ASSUME BillInv, ListName PROVE BillInv'
<1>1. /\ billAt = "list" /\ billAt' = "list" /\ Push(Cell(holder))
      /\ holder' = AfterCell(holder) /\ UNCHANGED <<billFile, billLines, billData>>
  BY DEF ListName
<1>2. Cell(holder) \in Seq(STRING) /\ holder' \in Seq(STRING) /\ ~ BetweenLines
  BY <1>1, BillFacts DEF Cell, BetweenLines
<1>3. QED
  BY <1>1, <1>2, PushInv

LEMMA LastListNameInv == ASSUME BillInv, LastListName PROVE BillInv'
<1> DEFINE name == Substr(holder, 0, Find(holder, Quote))
<1>1. /\ billAt = "list" /\ billAt' = "list" /\ Push(name)
      /\ holder' = Erase(holder, Find(holder, Quote))
      /\ UNCHANGED <<billFile, billLines, billData>>
  BY DEF LastListName
<1>2. name \in Seq(STRING) /\ ~ BetweenLines
  BY <1>1, BillFacts DEF BetweenLines
<1>3. holder' \in Seq(STRING)
  <2>1. Find(holder, Quote) \in Nat
    BY BillFacts, FindIsThere
  <2>2. QED
    BY <1>1, <2>1, BillFacts
<1> HIDE DEF name
<1>4. QED
  BY <1>1, <1>2, <1>3, PushInv

LEMMA PushThrowsInv == ASSUME BillInv, PushThrows PROVE BillInv'
<1>1. /\ billAt = "list" /\ billAt' = "threw"
      /\ UNCHANGED <<billFile, billLines, holder, temp, billData>>
  BY DEF PushThrows
<1>2. CellsKnown'
  BY <1>1 DEF CellsKnown
<1>3. WithinALine
  BY <1>1, BillFacts DEF WithinALine, BetweenLines
<1>4. QED
  BY <1>2, <1>3, WithinALineInv

(***************************************************************************)
(* A list is opened: the quote is not the first character of the line,     *)
(* which is a digit.                                                       *)
(***************************************************************************)
LEMMA OpenListInv == ASSUME BillInv, OpenList PROVE BillInv'
<1>1. /\ billAt = "identifier" /\ billAt' = "list" /\ First(holder) = Quote
      /\ holder' = Erase(holder, 1) /\ UNCHANGED <<billFile, billLines, temp, billData>>
  BY DEF OpenList
<1>2. ~ BetweenLines /\ CurrentLine' = CurrentLine /\ holder' \in Seq(STRING)
  BY <1>1, BillFacts DEF BetweenLines, CurrentLine
<1>3. PICK k \in 0..Len(CurrentLine) : BeginsACell(holder, CurrentLine, k)
  BY <1>1 DEF BillInv, CellsKnown
<1>4. Len(holder) \in Nat /\ 1 <= Len(holder) /\ holder[1] = Quote
  BY <1>1, BillFacts, FirstOfARest
<1>5. PICK line : line = CurrentLine /\ line \in Seq(STRING) /\ Len(line) \in Nat /\ IsPart(line)
  BY <1>2, BillFacts
<1>6. /\ k \in Nat /\ Len(holder) = Len(line) - k /\ IsRest(holder, line, k)
      /\ \A n \in 1..Len(line) - k : holder[n] = line[k + n]
      /\ k = 0 \/ line[k] = Comma
  BY <1>3, <1>5 DEF BeginsACell, IsRest
<1>7. k + 1 <= Len(line) /\ 1 \in 1..Len(line) - k
  BY <1>4, <1>5, <1>6
<1>8. line[k + 1] = Quote
  BY <1>4, <1>6, <1>7
<1>9. k # 0
  <2>1. ASSUME k = 0
        PROVE  FALSE
    <3>1. line # <<>> /\ Head(line) = line[1]
      <4>1. line # <<>>
        BY <1>5, <1>7, <2>1, EmptySeq
      <4>2. QED
        BY <1>5, <4>1, HeadTailProperties
    <3>2. First(line) = Quote
      BY <1>8, <2>1, <3>1 DEF First
    <3>3. QED
      BY <1>5, <3>2, QuoteIsNoDigit DEF IsPart
  <2>2. QED
    BY <2>1
<1>10. IsRest(holder', line, k + 1)
  <2>1. 1 \in 0..Len(holder)
    BY <1>4
  <2>2. QED
    BY <1>1, <1>5, <1>6, <2>1, BillFacts, RestOfARest
<1>11. k + 1 \in 0..Len(line) /\ k + 1 \in 2..Len(line) /\ (k + 1) - 1 = k
  BY <1>5, <1>6, <1>7, <1>9
<1>12. BehindAnOpenQuote(CurrentLine, k + 1)'
  BY <1>2, <1>5, <1>6, <1>8, <1>9, <1>10, <1>11 DEF BehindAnOpenQuote
<1>13. CellsKnown'
  BY <1>1, <1>2, <1>5, <1>11, <1>12 DEF CellsKnown
<1>14. WithinALine
  BY <1>1, <1>2, BillFacts DEF WithinALine, BetweenLines
<1>15. QED
  BY <1>13, <1>14, WithinALineInv

LEMMA CloseListInv == ASSUME BillInv, CloseList PROVE BillInv'
<1>1. /\ billAt = "list" /\ billAt' = "description" /\ First(holder) = Quote
      /\ holder' = Erase(holder, 2) /\ UNCHANGED <<billFile, billLines, temp, billData>>
  BY DEF CloseList
<1>2. ~ BetweenLines /\ CurrentLine' = CurrentLine /\ holder' \in Seq(STRING)
  BY <1>1, BillFacts DEF BetweenLines, CurrentLine
<1>3. Len(holder) \in Nat /\ 1 <= Len(holder) /\ holder[1] = Quote
  BY <1>1, BillFacts, FirstOfARest
<1>4. ASSUME temp.identifier = <<>>
      PROVE  HasEmptyQuotes(CurrentLine)
  <2>1. PICK k \in 0..Len(CurrentLine) : BehindAnOpenQuote(CurrentLine, k)
    BY <1>1, <1>4 DEF BillInv, CellsKnown
  <2>2. PICK line : line = CurrentLine /\ Len(line) \in Nat
    BY <1>2, BillFacts
  <2>3. /\ k \in 2..Len(line) /\ Len(holder) = Len(line) - k
        /\ \A n \in 1..Len(line) - k : holder[n] = line[k + n]
        /\ line[k - 1] = Comma /\ line[k] = Quote
    BY <2>1, <2>2 DEF BehindAnOpenQuote, IsRest
  <2>4. 1 \in 1..Len(line) - k /\ k \in 2..Len(line) - 1
    BY <1>3, <2>2, <2>3
  <2>5. line[k + 1] = Quote
    BY <1>3, <2>3, <2>4
  <2>6. QED
    BY <2>2, <2>3, <2>4, <2>5 DEF HasEmptyQuotes
<1>5. HasEmptyQuotes(CurrentLine)' = HasEmptyQuotes(CurrentLine)
  BY <1>1 DEF HasEmptyQuotes, CurrentLine
<1>6. CellsKnown'
  BY <1>1, <1>4, <1>5 DEF CellsKnown
<1>7. WithinALine
  BY <1>1, <1>2, BillFacts DEF WithinALine, BetweenLines
<1>8. QED
  BY <1>6, <1>7, WithinALineInv

(***************************************************************************)
(* A description, plain or quoted, leaves the identifiers as they are.     *)
(***************************************************************************)
LEMMA DescriptionInv ==
  ASSUME BillInv, NEW text \in Seq(STRING), billAt = "description", billAt' = "dni",
         temp' = [temp EXCEPT !.description = text],
         UNCHANGED <<billFile, billLines, billData>>, holder' \in Seq(STRING)
  PROVE  BillInv'
<1>1. IsPartData(temp') /\ temp'.identifier = temp.identifier
  <2>1. IsPartData(temp) /\ "description" \in DOMAIN temp \ {"identifier"}
    BY BillFacts DEF IsPartData, EmptyPart
  <2>2. QED
    BY <2>1, CellIsPut, Zenon
<1>2. temp.identifier = <<>> => HasEmptyQuotes(CurrentLine)
  BY DEF BillInv, CellsKnown
<1>3. HasEmptyQuotes(CurrentLine)' = HasEmptyQuotes(CurrentLine)
  BY DEF HasEmptyQuotes, CurrentLine
<1>4. CellsKnown'
  BY <1>1, <1>2, <1>3 DEF CellsKnown
<1>5. WithinALine
  BY <1>1 DEF WithinALine, BetweenLines, Behind
<1>6. QED
  BY <1>4, <1>5, WithinALineInv

LEMMA PlainDescriptionInv == ASSUME BillInv, PlainDescription PROVE BillInv'
<1>1. /\ billAt = "description" /\ billAt' = "dni"
      /\ temp' = [temp EXCEPT !.description = Cell(holder)]
      /\ holder' = AfterCell(holder) /\ UNCHANGED <<billFile, billLines, billData>>
  BY DEF PlainDescription
<1>2. Cell(holder) \in Seq(STRING) /\ holder' \in Seq(STRING)
  BY <1>1, BillFacts DEF Cell
<1>3. QED
  BY <1>1, <1>2, DescriptionInv

LEMMA QuotedDescriptionInv == ASSUME BillInv, QuotedDescription PROVE BillInv'
<1>1. PICK text : text = Erase(holder, 1)
  OBVIOUS
<1>2. /\ billAt = "description" /\ billAt' = "dni"
      /\ temp' = [temp EXCEPT !.description = Substr(text, 0, Find(text, Quote))]
      /\ holder' = Erase(text, SizeT(Find(text, Quote) + 2))
      /\ UNCHANGED <<billFile, billLines, billData>>
  BY <1>1 DEF QuotedDescription
<1>3. text \in Seq(STRING)
  BY <1>1, BillFacts
<1>4. Substr(text, 0, Find(text, Quote)) \in Seq(STRING) /\ \A n \in Nat : Erase(text, n) \in Seq(STRING)
  BY <1>3, CellsAreTexts
<1>5. SizeT(Find(text, Quote) + 2) \in Nat
  <2>1. Find(text, Quote) \in Nat
    BY <1>3, FindIsThere
  <2>2. Find(text, Quote) + 2 \in Nat
    BY <2>1
  <2>3. QED
    BY <2>2, SizeIsNatural
<1>6. holder' \in Seq(STRING)
  BY <1>2, <1>4, <1>5
<1>7. QED
  BY <1>2, <1>4, <1>6, DescriptionInv

LEMMA StorePartInv == ASSUME BillInv, StorePart PROVE BillInv'
<1>1. PICK part : part = [temp EXCEPT !.maxTemp = holder]
  OBVIOUS
<1>2. /\ billAt = "maxTemp" /\ billAt' = "line" /\ billData' = Append(billData, part)
      /\ temp' = EmptyPart /\ holder' = <<>> /\ UNCHANGED <<billFile, billLines>>
  BY <1>1 DEF StorePart
<1>3. IsPartData(part) /\ part.identifier = temp.identifier
  <2>1. IsPartData(temp) /\ holder \in Seq(STRING) /\ "maxTemp" \in DOMAIN temp \ {"identifier"}
    BY BillFacts DEF IsPartData, EmptyPart
  <2>2. QED
    BY <1>1, <2>1, CellIsPut, Zenon
<1>4. PICK len \in Nat : /\ len = Len(billData) /\ Len(billData') = len + 1
                         /\ DOMAIN billData = 1..len /\ DOMAIN billData' = 1..len + 1
                         /\ \A n \in 1..len : billData'[n] = billData[n]
                         /\ billData'[len + 1] = part
                         /\ IsASequence(billData')
  <2>1. IsASequence(billData)
    BY DEF BillInv
  <2>2. QED
    BY <1>2, <2>1, SequenceGrows
<1>5. ~ BetweenLines /\ BetweenLines'
  BY <1>2 DEF BetweenLines
<1>6. billLines \in Nat
  BY BillFacts
<1>7. PartsIn(billLines) = len + 1 /\ billLines # 0 /\ IsPart(billFile[billLines])
  BY <1>4, <1>5 DEF BillInv, RowsCounted, CurrentLine
<1>8. BillTypeOK'
  <2>1. << >> \in Seq(STRING)
    BY EmptySeq
  <2>2. \A n \in 1..len : IsPartData(billData[n])
    BY <1>4 DEF BillInv, BillTypeOK
  <2>3. \A n \in 1..len + 1 : n \in 1..len \/ n = len + 1
    OBVIOUS
  <2>4. \A n \in DOMAIN billData' : IsPartData(billData'[n])
    BY <1>3, <1>4, <2>2, <2>3
  <2>5. QED
    BY <1>2, <2>1, <2>4, EmptyPartIsAPart DEF BillInv, BillTypeOK
<1>9. RowsCounted'
  <2>1. PartsIn(billLines)' = PartsIn(billLines)
    BY <1>2 DEF PartsIn
  <2>2. QED
    BY <1>4, <1>5, <1>7, <2>1 DEF RowsCounted
<1>10. CellsKnown'
  BY <1>2 DEF CellsKnown
<1>11. PartsKnown'
  <2>1. \A k, n : CompletesPart(k, n)' = CompletesPart(k, n)
    BY <1>2 DEF CompletesPart, PartsIn
  <2>2. \A line : HasEmptyQuotes(line)' = HasEmptyQuotes(line)
    BY DEF HasEmptyQuotes
  <2>3. ASSUME NEW n \in 1..len
        PROVE  \E k \in 1..billLines :
                  /\ CompletesPart(k, n)
                  /\ billData'[n].identifier = <<>> => HasEmptyQuotes(billFile[k])
    BY <1>4 DEF BillInv, PartsKnown
  <2>4. /\ billLines \in 1..billLines /\ CompletesPart(billLines, len + 1)
        /\ billData'[len + 1].identifier = <<>> => HasEmptyQuotes(billFile[billLines])
    <3>1. CompletesPart(billLines, len + 1)
      BY <1>6, <1>7, PartIsCompleted
    <3>2. temp.identifier = <<>> => HasEmptyQuotes(billFile[billLines])
      BY <1>2 DEF BillInv, CellsKnown, CurrentLine
    <3>3. QED
      BY <1>3, <1>4, <1>6, <1>7, <3>1, <3>2
  <2>5. \A n \in 1..len + 1 : n \in 1..len \/ n = len + 1
    OBVIOUS
  <2>6. QED
    BY <1>2, <1>4, <2>1, <2>2, <2>3, <2>4, <2>5 DEF PartsKnown
<1>12. LinesAreShort'
  BY <1>2 DEF BillInv, LinesAreShort
<1>13. QED
  BY <1>4, <1>8, <1>9, <1>10, <1>11, <1>12 DEF BillInv
-------------------------------------------------------------------------
(***************************************************************************)
(* The invariants hold from the beginning on, and tell the properties.     *)
(***************************************************************************)
LEMMA BillInvBegins ==
  ASSUME BillBegins, billFile \in Seq(Seq(STRING)), LinesAreShort
  PROVE  BillInv
<1>1. /\ billLines = 0 /\ billAt = "line" /\ holder = <<>> /\ temp = EmptyPart
      /\ billData = <<>> /\ Len(billFile) \in Nat
  BY LenProperties DEF BillBegins
<1>2. << >> \in Seq(STRING) /\ IsASequence(billData) /\ Len(billData) = 0
      /\ DOMAIN billData = {}
  BY <1>1, EmptySeq DEF IsASequence
<1>3. BillTypeOK
  BY <1>1, <1>2, EmptyPartIsAPart DEF BillTypeOK
<1>4. PartsIn(0) = 0
  <2>1. {m \in 1..0 : IsPart(billFile[m])} = {}
    OBVIOUS
  <2>2. QED
    BY <2>1, FS_EmptySet DEF PartsIn
<1>5. RowsCounted
  BY <1>1, <1>2, <1>4 DEF RowsCounted, BetweenLines
<1>6. CellsKnown
  BY <1>1 DEF CellsKnown
<1>7. PartsKnown
  BY <1>2 DEF PartsKnown
<1>8. QED
  BY <1>2, <1>3, <1>5, <1>6, <1>7 DEF BillInv

LEMMA BillInvStep == BillInv /\ [BillNext]_billVars => BillInv'
<1> SUFFICES ASSUME BillInv, [BillNext]_billVars
             PROVE  BillInv'
  OBVIOUS
<1>1. CASE UNCHANGED billVars
  <2>1. UNCHANGED <<billFile, billLines, billAt, holder, temp, billData>>
    BY <1>1 DEF billVars
  <2>2. billLines \in Nat
    BY BillFacts
  <2>3. PartsKnown' /\ \A n : PartsIn(n)' = PartsIn(n)
    BY <2>1, <2>2, PartsStayKnown
  <2>4. BillTypeOK' /\ LinesAreShort' /\ IsASequence(billData)'
    BY <2>1 DEF BillInv, BillTypeOK, LinesAreShort
  <2>5. RowsCounted'
    BY <2>1, <2>3 DEF BillInv, RowsCounted, BetweenLines, CurrentLine
  <2>6. CellsKnown'
    BY <2>1 DEF BillInv, CellsKnown, CurrentLine, BeginsACell, BehindAnOpenQuote, IsRest,
                HasEmptyQuotes
  <2>7. QED
    BY <2>3, <2>4, <2>5, <2>6 DEF BillInv
<1>2. CASE BillNext
  BY <1>2, GetLineInv, EndOfFileInv, CopyCellInv, OneIdentifierInv, OpenListInv, ListNameInv,
     LastListNameInv, PushThrowsInv, CloseListInv, PlainDescriptionInv, QuotedDescriptionInv,
     StorePartInv DEF BillNext
<1>3. QED
  BY <1>1, <1>2

LEMMA BillInvTellsTheParts ==
  ASSUME BillInv
  PROVE  NoIdentifierMeansEmptyQuotes
<1> SUFFICES ASSUME NEW n \in DOMAIN billData, billData[n].identifier = <<>>
             PROVE  HasEmptyQuotes(PartLine(n))
  BY DEF NoIdentifierMeansEmptyQuotes
<1>1. PICK k \in 1..billLines : CompletesPart(k, n) /\ HasEmptyQuotes(billFile[k])
  BY DEF BillInv, PartsKnown
<1>2. PartLine(n) = billFile[k]
  BY <1>1, BillFacts, LineOfAPart
<1>3. QED
  BY <1>1, <1>2

LEMMA ReaderInvTellsTheNets == ASSUME ReaderInv PROVE OneNetPerRun
BY DEF ReaderInv, NetsAreRuns, NoBlankLine, OneNetPerRun
-------------------------------------------------------------------------
(***************************************************************************)
(* Rows without quotes.  How many commas there are grows by one from one   *)
(* comma to the next.                                                      *)
(***************************************************************************)
LEMMA CommasAreCounted ==
  ASSUME NEW line \in Seq(STRING), NEW c \in Nat
  PROVE  /\ Commas(line) \subseteq 1..Len(line)
         /\ UpTo(c, Commas(line)) \in Nat
         /\ c = 0 => UpTo(c, Commas(line)) = 0
         /\ \A d \in Commas(line) : c < d =>
               /\ UpTo(c, Commas(line)) + 1 <= UpTo(d, Commas(line))
               /\ (\A m \in Commas(line) : m <= c \/ d <= m) =>
                     UpTo(d, Commas(line)) = UpTo(c, Commas(line)) + 1
<1> DEFINE below(k) == {m \in Commas(line) : m <= k}
<1>1. Len(line) \in Nat /\ Commas(line) \subseteq 1..Len(line)
  BY LenProperties DEF Commas
<1>2. ASSUME NEW k
      PROVE  IsFiniteSet(below(k)) /\ Cardinality(below(k)) \in Nat
  <2>1. IsFiniteSet(1..Len(line)) /\ below(k) \in SUBSET (1..Len(line))
    BY <1>1, FS_Interval
  <2>2. QED
    BY <2>1, FS_Subset, FS_CardinalityType
<1>3. c = 0 => UpTo(c, Commas(line)) = 0
  <2>1. c = 0 => below(c) = {}
    BY <1>1
  <2>2. QED
    BY <2>1, FS_EmptySet DEF UpTo
<1>4. ASSUME NEW d \in Commas(line), c < d
      PROVE  /\ UpTo(c, Commas(line)) + 1 <= UpTo(d, Commas(line))
             /\ (\A m \in Commas(line) : m <= c \/ d <= m) =>
                   UpTo(d, Commas(line)) = UpTo(c, Commas(line)) + 1
  <2>1. d \in Nat /\ d \notin below(c)
    BY <1>1, <1>4
  <2>2. Cardinality(below(c) \union {d}) = Cardinality(below(c)) + 1
    BY <1>2, <2>1, FS_AddElement
  <2>3. below(c) \union {d} \in SUBSET below(d)
    BY <1>1, <1>4, <2>1
  <2>4. Cardinality(below(c) \union {d}) <= Cardinality(below(d))
    BY <1>2, <2>3, FS_Subset
  <2>5. ASSUME \A m \in Commas(line) : m <= c \/ d <= m
        PROVE  below(d) = below(c) \union {d}
    BY <1>1, <2>1, <2>3, <2>5
  <2>6. QED
    BY <2>2, <2>4, <2>5 DEF UpTo
<1>5. QED
  BY <1>1, <1>2, <1>3, <1>4 DEF UpTo

(***************************************************************************)
(* Where cells begin and end: no comma is within a cell, and the next one  *)
(* begins behind the comma that ends it, or at the same place.             *)
(***************************************************************************)
LEMMA PlaceOfACell ==
  ASSUME NEW line \in Seq(STRING), NEW n \in Nat, n # 0
  PROVE  /\ CellBegins(line, n) \in 0..Len(line)
         /\ CellBegins(line, n) \in {0} \union Commas(line)
         /\ UpTo(CellBegins(line, n), Commas(line)) < n
         /\ \A k \in Commas(line) : UpTo(k, Commas(line)) < n => k <= CellBegins(line, n)
         /\ CellBegins(line, n) < CellEnds(line, n)
         /\ CellEnds(line, n) \in Commas(line) \union {Len(line) + 1}
         /\ \A k \in Commas(line) : k <= CellBegins(line, n) \/ CellEnds(line, n) <= k
<1> DEFINE T == {0} \union {k \in Commas(line) : UpTo(k, Commas(line)) < n}
           b == CellBegins(line, n)
           E == {Len(line) + 1} \union {k \in Commas(line) : k > b}
<1>1. Len(line) \in Nat /\ Commas(line) \subseteq 1..Len(line) /\ UpTo(0, Commas(line)) = 0
  BY LenProperties, CommasAreCounted
<1>2. b \in T /\ \A k \in T : k <= b
  <2>1. T \subseteq 0..Len(line) /\ T # {}
    BY <1>1
  <2> HIDE DEF T
  <2>2. Max(T) \in T /\ \A k \in T : k <= Max(T)
    BY <1>1, <2>1, MaxIsGreatest
  <2>3. QED
    BY <2>2 DEF T, CellBegins
<1>3. b \in 0..Len(line) /\ b \in {0} \union Commas(line) /\ UpTo(b, Commas(line)) < n
  BY <1>1, <1>2
<1> HIDE DEF b
<1>4. CellEnds(line, n) \in E /\ \A k \in E : CellEnds(line, n) <= k
  <2>1. E \subseteq Nat /\ E # {}
    BY <1>1
  <2> HIDE DEF E
  <2>2. Min(E) \in E /\ \A k \in E : Min(E) <= k
    BY <2>1, MinIsLeast
  <2>3. QED
    BY <2>2 DEF E, b, CellEnds
<1>5. \A k \in Commas(line) : k <= b \/ CellEnds(line, n) <= k
  BY <1>1, <1>3, <1>4
<1>6. b < CellEnds(line, n) /\ CellEnds(line, n) \in Commas(line) \union {Len(line) + 1}
  BY <1>1, <1>3, <1>4
<1>7. QED
  BY <1>2, <1>3, <1>5, <1>6 DEF b

LEMMA FirstCell == ASSUME NEW line \in Seq(STRING) PROVE CellBegins(line, 1) = 0
<1> DEFINE b == CellBegins(line, 1)
<1>1. /\ Len(line) \in Nat /\ Commas(line) \subseteq 1..Len(line)
      /\ b \in {0} \union Commas(line) /\ UpTo(b, Commas(line)) < 1
  BY PlaceOfACell, CommasAreCounted, LenProperties
<1>2. UpTo(0, Commas(line)) = 0 /\ UpTo(b, Commas(line)) \in Nat
  BY <1>1, CommasAreCounted
<1>3. b \in Commas(line) /\ 0 < b => UpTo(0, Commas(line)) + 1 <= UpTo(b, Commas(line))
  BY CommasAreCounted
<1> HIDE DEF b
<1>4. b = 0
  BY <1>1, <1>2, <1>3
<1>5. QED
  BY <1>4 DEF b

LEMMA NextCellBegins ==
  ASSUME NEW line \in Seq(STRING), NEW n \in Nat, n # 0
  PROVE  CellBegins(line, n + 1) =
            IF CellEnds(line, n) = Len(line) + 1 THEN CellBegins(line, n) ELSE CellEnds(line, n)
<1> DEFINE b == CellBegins(line, n)
           e == CellEnds(line, n)
           next == CellBegins(line, n + 1)
<1>1. /\ Len(line) \in Nat /\ Commas(line) \subseteq 1..Len(line)
      /\ \A k \in Nat : UpTo(k, Commas(line)) \in Nat
  BY LenProperties, CommasAreCounted
<1>2. /\ b \in 0..Len(line) /\ UpTo(b, Commas(line)) < n /\ b \in {0} \union Commas(line)
      /\ \A k \in Commas(line) : UpTo(k, Commas(line)) < n => k <= b
      /\ b < e /\ e \in Commas(line) \union {Len(line) + 1}
      /\ \A k \in Commas(line) : k <= b \/ e <= k
  BY PlaceOfACell
<1>3. /\ next \in 0..Len(line) /\ UpTo(next, Commas(line)) < n + 1
      /\ \A k \in Commas(line) : UpTo(k, Commas(line)) < n + 1 => k <= next
      /\ next \in {0} \union Commas(line)
  <2>1. n + 1 \in Nat /\ n + 1 # 0
    OBVIOUS
  <2>2. QED
    BY <2>1, PlaceOfACell
<1> HIDE DEF b, e, next
<1>4. b <= next
  <2>1. UpTo(b, Commas(line)) < n + 1
    BY <1>1, <1>2
  <2>2. QED
    BY <1>1, <1>2, <1>3, <2>1
<1>5. /\ b \in Nat /\ next \in Nat /\ e \in Nat /\ UpTo(b, Commas(line)) \in Nat
      /\ next = 0 \/ (next \in Commas(line) /\ next <= Len(line))
  <2>1. b \in Nat /\ next \in Nat /\ next <= Len(line)
    BY <1>1, <1>2, <1>3
  <2>2. e \in Nat
    <3>1. Commas(line) \subseteq Nat /\ Len(line) + 1 \in Nat
      BY <1>1
    <3>2. e \in Commas(line) \union {Len(line) + 1}
      BY <1>2
    <3>3. QED
      BY <3>1, <3>2
  <2>3. UpTo(b, Commas(line)) \in Nat
    BY <1>1, <2>1
  <2>4. next = 0 \/ next \in Commas(line)
    BY <1>3
  <2>5. QED
    BY <2>1, <2>2, <2>3, <2>4
<1>6. ASSUME e = Len(line) + 1
      PROVE  next = b
  <2>1. next = 0 \/ next <= b
    BY <1>1, <1>2, <1>5, <1>6
  <2>2. QED
    BY <1>4, <1>5, <2>1
<1>7. ASSUME e # Len(line) + 1
      PROVE  next = e
  <2>1. e \in Commas(line)
    BY <1>2, <1>7
  <2>2. UpTo(e, Commas(line)) = UpTo(b, Commas(line)) + 1
    BY <1>2, <1>5, <2>1, CommasAreCounted
  <2>3. UpTo(e, Commas(line)) < n + 1 /\ ~ (UpTo(e, Commas(line)) < n)
    <3>1. UpTo(e, Commas(line)) < n + 1
      BY <1>2, <1>5, <2>2
    <3>2. ~ (UpTo(e, Commas(line)) < n)
      BY <1>2, <1>5, <2>1
    <3>3. QED
      BY <3>1, <3>2
  <2>4. e <= next
    BY <1>3, <2>1, <2>3
  <2>5. ASSUME e < next
        PROVE  FALSE
    <3>1. next \in Commas(line)
      BY <1>5, <2>5
    <3>2. UpTo(e, Commas(line)) + 1 <= UpTo(next, Commas(line))
      BY <1>5, <2>5, <3>1, CommasAreCounted
    <3>3. UpTo(e, Commas(line)) \in Nat /\ UpTo(next, Commas(line)) \in Nat
      BY <1>1, <1>5
    <3>4. QED
      BY <1>3, <2>3, <3>2, <3>3
  <2>6. QED
    BY <1>5, <2>4, <2>5
<1>8. QED
  BY <1>6, <1>7 DEF b, e, next

(***************************************************************************)
(* The cell of what is left of a row is its column, and what is behind it  *)
(* begins where the next column does.                                      *)
(***************************************************************************)
LEMMA FindIsFirst ==
  ASSUME NEW S, NEW text \in Seq(S), NEW c, NEW n \in 1..Len(text), text[n] = c
  PROVE  Find(text, c) < n
<1> DEFINE I == {m \in 1..Len(text) : text[m] = c}
<1>1. n \in I /\ I \subseteq Nat /\ I # {}
  OBVIOUS
<1>2. Min(I) \in Nat /\ Min(I) <= n
  <2> HIDE DEF I
  <2>1. QED
    BY <1>1, MinIsLeast
<1>3. Find(text, c) = Min(I) - 1
  BY <1>1 DEF Find, SelectInSeq, Contains
<1>4. QED
  BY <1>2, <1>3

LEMMA ColumnOfALine ==
  ASSUME NEW line, NEW b \in Nat, NEW e \in Nat, b < e,
         \A k \in b + 1..e - 1 : line[k] \in STRING
  PROVE  LET column == SubSeq(line, b + 1, e - 1)
         IN /\ column \in Seq(STRING) /\ Len(column) = e - 1 - b
            /\ \A m \in 1..e - 1 - b : column[m] = line[b + m]
<1>1. PICK first, last : first = b + 1 /\ last = e - 1 /\ first \in Int /\ last \in Int
  OBVIOUS
<1>2. /\ SubSeq(line, first, last) \in Seq(STRING)
      /\ Len(SubSeq(line, first, last)) = IF first <= last THEN last - first + 1 ELSE 0
      /\ \A m \in 1..last - first + 1 : SubSeq(line, first, last)[m] = line[first + m - 1]
  BY <1>1, SubSeqProperties
<1>3. /\ (IF first <= last THEN last - first + 1 ELSE 0) = e - 1 - b
      /\ last - first + 1 = e - 1 - b /\ \A m \in Int : first + m - 1 = b + m
  BY <1>1
<1>4. QED
  BY <1>1, <1>2, <1>3

LEMMA CellOfARest ==
  ASSUME NEW line \in Seq(STRING), Len(line) < SizeMax, NEW n \in Nat, n # 0,
         NEW text \in Seq(STRING), IsRest(text, line, CellBegins(line, n))
  PROVE  /\ Cell(text) = Column(line, n)
         /\ IsRest(AfterCell(text), line, CellBegins(line, n + 1))
<1> DEFINE b == CellBegins(line, n)
           e == CellEnds(line, n)
           f == Find(text, Comma)
           cell == Cell(text)
           column == Column(line, n)
<1>1. /\ Len(line) \in Nat /\ Len(text) \in Nat /\ b \in Nat /\ b <= Len(line)
      /\ Len(text) = Len(line) - b
      /\ \A m \in 1..Len(text) : text[m] = line[b + m]
  BY LenProperties DEF IsRest
<1>2. /\ b < e /\ e \in Commas(line) \union {Len(line) + 1}
      /\ \A k \in Commas(line) : k <= b \/ e <= k
      /\ Commas(line) = {k \in 1..Len(line) : line[k] = Comma}
      /\ CellBegins(line, n + 1) = IF e = Len(line) + 1 THEN b ELSE e
  BY PlaceOfACell, NextCellBegins, LenProperties DEF Commas
<1>3. /\ f \in Nat
      /\ \/ ~ Contains(text, Comma) /\ f = Npos
         \/ f < Len(text) /\ text[f + 1] = Comma
      /\ \A m \in 1..Len(text) : text[m] = Comma => f < m
  BY FindIsThere, FindIsFirst
<1>4. cell = Substr(text, 0, f) /\ AfterCell(text) = Erase(text, SizeT(f + 1))
  BY DEF Cell, AfterCell
<1>5. column = SubSeq(line, b + 1, e - 1)
  BY DEF Column
<1> HIDE DEF b, e, f, cell, column
<1>6. /\ e \in Nat /\ column \in Seq(STRING) /\ Len(column) = e - 1 - b
      /\ \A m \in 1..e - 1 - b : column[m] = line[b + m]
  <2>1. e \in Nat /\ e <= Len(line) + 1
    BY <1>1, <1>2
  <2>2. \A k \in b + 1..e - 1 : line[k] \in STRING
    BY <1>1, <2>1, ElementOfSeq
  <2>3. QED
    BY <1>1, <1>2, <1>5, <2>1, <2>2, ColumnOfALine
<1>7. /\ cell \in Seq(STRING)
      /\ Len(cell) = IF f <= Len(text) THEN f ELSE Len(text)
      /\ \A m \in 1..Len(cell) : cell[m] = text[m]
  <2>1. 0 \in 0..Len(text)
    BY <1>1
  <2>2. /\ cell \in Seq(STRING)
        /\ Len(cell) = IF 0 + f <= Len(text) THEN f ELSE Len(text) - 0
        /\ \A m \in 1..Len(cell) : cell[m] = text[0 + m]
    <3>1. f \in Nat
      BY <1>3
    <3>2. /\ Substr(text, 0, f) \in Seq(STRING)
          /\ Len(Substr(text, 0, f)) = IF 0 + f <= Len(text) THEN f ELSE Len(text) - 0
          /\ \A m \in 1..Len(Substr(text, 0, f)) : Substr(text, 0, f)[m] = text[0 + m]
      BY <2>1, <3>1, SubstrIsAText, Zenon
    <3>3. QED
      BY <1>4, <3>2
  <2>3. 0 + f = f /\ Len(text) - 0 = Len(text) /\ \A m \in Int : 0 + m = m
    BY <1>1, <1>3
  <2>4. QED
    BY <2>2, <2>3
<1>8. ASSUME Len(cell) = e - 1 - b, e - 1 - b <= Len(text)
      PROVE  cell = column
  <2>1. \A m \in 1..Len(cell) : cell[m] = column[m]
    BY <1>1, <1>6, <1>7, <1>8
  <2>2. QED
    BY <1>6, <1>7, <1>8, <2>1, SeqEqual
<1>9. CASE ~ Contains(text, Comma) /\ f = Npos
  <2>1. e = Len(line) + 1
    <3>1. ASSUME e \in Commas(line)
          PROVE  FALSE
      <4>1. e - b \in 1..Len(text) /\ text[e - b] = line[b + (e - b)] /\ b + (e - b) = e
        BY <1>1, <1>2, <1>6, <3>1
      <4>2. QED
        BY <1>2, <1>9, <3>1, <4>1 DEF Contains
    <3>2. QED
      BY <1>2, <3>1
  <2>2. cell = column
    BY <1>1, <1>7, <1>8, <1>9, <2>1 DEF Npos
  <2>3. SizeT(f + 1) = 0
    BY <1>9 DEF SizeT, Npos, SizeMax
  <2>4. IsRest(Erase(text, 0), line, b + 0)
    BY <1>1, RestOfARest DEF b
  <2>5. QED
    BY <1>1, <1>2, <1>4, <2>1, <2>2, <2>3, <2>4 DEF cell, column
<1>10. CASE f < Len(text) /\ text[f + 1] = Comma
  <2>1. f + 1 \in 1..Len(text) /\ b + (f + 1) \in Commas(line)
    BY <1>1, <1>2, <1>3, <1>10
  <2>2. e <= b + (f + 1)
    BY <1>1, <1>2, <1>3, <2>1
  <2>3. e \in Commas(line) /\ e # Len(line) + 1
    BY <1>1, <1>2, <1>6, <2>1, <2>2
  <2>4. e - b \in 1..Len(text) /\ text[e - b] = Comma
    <3>1. e - b \in 1..Len(text) /\ b + (e - b) = e
      BY <1>1, <1>2, <1>6, <2>3
    <3>2. QED
      BY <1>1, <1>2, <2>3, <3>1
  <2>5. e = b + (f + 1)
    BY <1>1, <1>3, <1>6, <2>2, <2>4
  <2>6. cell = column
    BY <1>1, <1>3, <1>7, <1>8, <1>10, <2>5
  <2>7. SizeT(f + 1) = f + 1
    <3>1. f + 1 \in Nat /\ f + 1 < SizeMax + 1
      BY <1>1, <1>3, <1>10 DEF SizeMax
    <3>2. QED
      BY <3>1 DEF SizeT, SizeMax
  <2>8. IsRest(Erase(text, f + 1), line, b + (f + 1))
    BY <1>1, <1>3, <1>10, RestOfARest DEF b
  <2>9. QED
    BY <1>2, <1>4, <2>3, <2>5, <2>6, <2>7, <2>8 DEF cell, column
<1>11. QED
  BY <1>3, <1>9, <1>10

LEMMA RestIsSubSeq ==
  ASSUME NEW line \in Seq(STRING), NEW text \in Seq(STRING), NEW k, IsRest(text, line, k)
  PROVE  text = SubSeq(line, k + 1, Len(line))
<1> DEFINE rest == SubSeq(line, k + 1, (Len(line) + 1) - 1)
<1>1. /\ k \in Nat /\ Len(line) \in Nat /\ k < Len(line) + 1 /\ (Len(line) + 1) - 1 = Len(line)
      /\ \A m \in 1..Len(line) : line[m] \in STRING
  BY LenProperties, ElementOfSeq DEF IsRest
<1>2. /\ rest \in Seq(STRING) /\ Len(rest) = (Len(line) + 1) - 1 - k
      /\ \A m \in 1..(Len(line) + 1) - 1 - k : rest[m] = line[k + m]
  <2>1. \A m \in k + 1..(Len(line) + 1) - 1 : line[m] \in STRING
    BY <1>1
  <2>2. Len(line) + 1 \in Nat
    BY <1>1
  <2>3. QED
    BY <1>1, <2>1, <2>2, ColumnOfALine
<1> HIDE DEF rest
<1>3. (Len(line) + 1) - 1 - k = Len(line) - k
  BY <1>1
<1>4. Len(text) = Len(rest) /\ \A m \in 1..Len(text) : text[m] = rest[m]
  BY <1>2, <1>3 DEF IsRest
<1>5. text = rest
  BY <1>2, <1>4, SeqEqual
<1>6. QED
  BY <1>1, <1>5 DEF rest
-------------------------------------------------------------------------
(***************************************************************************)
(* The invariant of rows without quotes.  What is left of the row begins   *)
(* where the column does that is read next, and the cells of temp before   *)
(* it are those of the part that the row is to become.                     *)
(***************************************************************************)
IsPlain(line) == ~ Contains(line, Quote)

PlainSoFar ==
    ~ BetweenLines /\ IsPlain(CurrentLine) =>
       /\ billAt \in DOMAIN ColumnOf
       /\ IsRest(holder, CurrentLine, CellBegins(CurrentLine, ColumnOf[billAt]))
       /\ ColumnOf[billAt] <= ColumnOf["identifier"] => temp.identifier = <<>>
       /\ \A cell \in DOMAIN ColumnOf :
             ColumnOf[cell] < ColumnOf[billAt] => temp[cell] = PlainPart(CurrentLine)[cell]
PlainParts ==
    \A n \in DOMAIN billData : \E k \in 1..billLines :
       /\ CompletesPart(k, n)
       /\ IsPlain(billFile[k]) => billData[n] = PlainPart(billFile[k])

PlainInv == PlainSoFar /\ PlainParts

LEMMA NoQuoteInARest ==
  ASSUME NEW line, IsPlain(line), Len(line) \in Nat, NEW text \in Seq(STRING),
         NEW k, IsRest(text, line, k)
  PROVE  First(text) # Quote
<1> SUFFICES ASSUME First(text) = Quote
             PROVE  FALSE
  OBVIOUS
<1>1. Len(text) \in Nat /\ 1 <= Len(text) /\ text[1] = Quote
  BY FirstOfARest
<1>2. k \in Nat /\ k + 1 \in 1..Len(line) /\ line[k + 1] = text[1]
  BY <1>1 DEF IsRest
<1>3. QED
  BY <1>1, <1>2 DEF IsPlain, Contains

(***************************************************************************)
(* Parts that are stored stay as they are, while lines are read.           *)
(***************************************************************************)
LEMMA PlainPartsStay ==
  ASSUME BillInv, PlainParts, UNCHANGED <<billFile, billData>>,
         billLines' \in Nat, billLines <= billLines'
  PROVE  PlainParts'
<1>1. \A n : PartsIn(n)' = PartsIn(n)
  BY DEF PartsIn
<1>2. \A k, n : CompletesPart(k, n)' = CompletesPart(k, n)
  BY <1>1 DEF CompletesPart
<1>3. billLines \in Nat
  BY BillFacts
<1>4. \A k \in 1..billLines : k \in 1..billLines'
  BY <1>3
<1>5. QED
  BY <1>2, <1>4 DEF PlainParts

(***************************************************************************)
(* A step that reads a cell into its column.                               *)
(***************************************************************************)
LEMMA CellIsRead ==
  ASSUME BillInv, PlainInv, NEW value,
         billAt \in DOMAIN ColumnOf, billAt' \in DOMAIN ColumnOf,
         ColumnOf[billAt'] = ColumnOf[billAt] + 1,
         holder' = AfterCell(holder), temp' = [temp EXCEPT ![billAt] = value],
         IsPlain(CurrentLine) /\ Cell(holder) = Column(CurrentLine, ColumnOf[billAt]) =>
            value = PlainPart(CurrentLine)[billAt],
         UNCHANGED <<billFile, billLines, billData>>
  PROVE  PlainInv'
<1>1. ~ BetweenLines /\ CurrentLine' = CurrentLine /\ billLines \in Nat
  BY BillFacts DEF BetweenLines, CurrentLine, ColumnOf
<1>2. PlainParts'
  BY <1>1, PlainPartsStay DEF PlainInv
<1>3. ASSUME IsPlain(CurrentLine)
      PROVE  /\ IsRest(holder', CurrentLine, CellBegins(CurrentLine, ColumnOf[billAt']))
             /\ ColumnOf[billAt'] <= ColumnOf["identifier"] => temp'.identifier = <<>>
             /\ \A cell \in DOMAIN ColumnOf : ColumnOf[cell] < ColumnOf[billAt'] =>
                   temp'[cell] = PlainPart(CurrentLine)[cell]
  <2> DEFINE n == ColumnOf[billAt]
  <2>1. /\ IsRest(holder, CurrentLine, CellBegins(CurrentLine, n))
        /\ n <= ColumnOf["identifier"] => temp.identifier = <<>>
        /\ \A cell \in DOMAIN ColumnOf :
              ColumnOf[cell] < n => temp[cell] = PlainPart(CurrentLine)[cell]
    BY <1>1, <1>3 DEF PlainInv, PlainSoFar
  <2>2. /\ \A cell \in DOMAIN ColumnOf : ColumnOf[cell] \in Nat /\ ColumnOf[cell] # 0
        /\ \A cell \in DOMAIN ColumnOf : ColumnOf[cell] = n => cell = billAt
        /\ "identifier" \in DOMAIN ColumnOf /\ DOMAIN temp = DOMAIN ColumnOf
    <3>1. DOMAIN temp = DOMAIN ColumnOf
      BY BillFacts DEF IsPartData, EmptyPart, ColumnOf
    <3>2. QED
      BY <3>1 DEF ColumnOf
  <2>3. CurrentLine \in Seq(STRING) /\ Len(CurrentLine) < SizeMax /\ holder \in Seq(STRING)
    BY <1>1, BillFacts
  <2>4. /\ Cell(holder) = Column(CurrentLine, n)
        /\ IsRest(AfterCell(holder), CurrentLine, CellBegins(CurrentLine, n + 1))
    <3>1. n \in Nat /\ n # 0
      BY <2>2
    <3>2. QED
      BY <2>1, <2>3, <3>1, CellOfARest
  <2>5. value = PlainPart(CurrentLine)[billAt]
    BY <1>3, <2>4
  <2>6. \A cell \in DOMAIN ColumnOf : temp'[cell] = IF cell = billAt THEN value ELSE temp[cell]
    BY <2>2
  <2>7. \A cell \in DOMAIN ColumnOf : ColumnOf[cell] < n + 1 => ColumnOf[cell] < n \/ cell = billAt
    BY <2>2
  <2>8. n + 1 <= ColumnOf["identifier"] => temp'.identifier = <<>>
    <3>1. ASSUME n + 1 <= ColumnOf["identifier"]
          PROVE  n <= ColumnOf["identifier"] /\ billAt # "identifier"
      BY <2>2, <3>1
    <3>2. QED
      BY <2>1, <2>2, <2>6, <3>1
  <2>9. QED
    BY <2>1, <2>4, <2>5, <2>6, <2>7, <2>8
<1>4. PlainSoFar'
  BY <1>1, <1>3 DEF PlainSoFar
<1>5. QED
  BY <1>2, <1>4 DEF PlainInv

(***************************************************************************)
(* The steps that are not taken in a row without quotes.                   *)
(***************************************************************************)
LEMMA QuoteIsRead ==
  ASSUME BillInv, PlainInv, ~ BetweenLines,
         billAt \notin DOMAIN ColumnOf \/ First(holder) = Quote,
         UNCHANGED <<billFile, billLines, billData>>
  PROVE  PlainInv'
<1>1. billLines \in Nat /\ CurrentLine' = CurrentLine
  BY BillFacts DEF CurrentLine
<1>2. PlainParts'
  BY <1>1, PlainPartsStay DEF PlainInv
<1>3. ~ IsPlain(CurrentLine)
  <2>1. ASSUME IsPlain(CurrentLine)
        PROVE  billAt \in DOMAIN ColumnOf /\ First(holder) # Quote
    <3>1. /\ billAt \in DOMAIN ColumnOf
          /\ IsRest(holder, CurrentLine, CellBegins(CurrentLine, ColumnOf[billAt]))
      BY <2>1 DEF PlainInv, PlainSoFar
    <3>2. Len(CurrentLine) \in Nat /\ holder \in Seq(STRING)
      BY BillFacts
    <3>3. QED
      BY <2>1, <3>1, <3>2, NoQuoteInARest
  <2>2. QED
    BY <2>1
<1>4. PlainSoFar'
  BY <1>1, <1>3 DEF PlainSoFar
<1>5. QED
  BY <1>2, <1>4 DEF PlainInv

LEMMA PlainGetLine == ASSUME BillInv, PlainInv, GetLine PROVE PlainInv'
<1>1. /\ billAt = "line" /\ billLines < Len(billFile) /\ billLines' = billLines + 1
      /\ holder' = billFile[billLines + 1] /\ UNCHANGED <<billFile, temp, billData>>
      /\ billAt' \in {"item", "line"}
  BY DEF GetLine
<1>2. /\ billLines \in Nat /\ billLines' \in Nat /\ billLines <= billLines'
      /\ billLines + 1 \in DOMAIN billFile
  <2>1. billLines \in Nat /\ Len(billFile) \in Nat /\ DOMAIN billFile = 1..Len(billFile)
    BY BillFacts
  <2>2. QED
    BY <1>1, <2>1
<1>3. PlainParts'
  BY <1>1, <1>2, PlainPartsStay DEF PlainInv
<1>4. PlainSoFar'
  <2>1. CASE billAt' = "line"
    BY <2>1 DEF PlainSoFar, BetweenLines
  <2>2. CASE billAt' = "item"
    <3>1. PICK line \in Seq(STRING) : line = holder'
      BY <1>1, <1>2, BillFacts
    <3>2. CurrentLine' = line /\ Len(line) \in Nat
      BY <1>1, <3>1, LenProperties DEF CurrentLine
    <3>3. ColumnOf["item"] = 1 /\ "item" \in DOMAIN ColumnOf /\ CellBegins(line, 1) = 0
      BY FirstCell DEF ColumnOf
    <3>4. IsRest(line, line, 0)
      BY <3>2 DEF IsRest
    <3>5. temp'.identifier = <<>>
      BY <1>1, EmptyPartIsAPart DEF BillInv, BillTypeOK
    <3>6. \A cell \in DOMAIN ColumnOf : ~ (ColumnOf[cell] < 1)
      BY DEF ColumnOf
    <3>7. QED
      BY <2>2, <3>1, <3>2, <3>3, <3>4, <3>5, <3>6 DEF PlainSoFar
  <2>3. QED
    BY <1>1, <2>1, <2>2
<1>5. QED
  BY <1>3, <1>4 DEF PlainInv

LEMMA PlainCopyCell == ASSUME BillInv, PlainInv, CopyCell PROVE PlainInv'
<1>1. /\ billAt \in DOMAIN Behind /\ billAt' = Behind[billAt]
      /\ temp' = [temp EXCEPT ![billAt] = Cell(holder)] /\ holder' = AfterCell(holder)
      /\ UNCHANGED <<billFile, billLines, billData>>
  BY DEF CopyCell
<1>2. /\ billAt \in DOMAIN ColumnOf /\ billAt' \in DOMAIN ColumnOf
      /\ ColumnOf[billAt'] = ColumnOf[billAt] + 1
      /\ billAt # "identifier" /\ billAt # "maxTemp"
  BY <1>1 DEF Behind, ColumnOf
<1>3. PlainPart(CurrentLine)[billAt] = Column(CurrentLine, ColumnOf[billAt])
  BY <1>2 DEF PlainPart
<1>4. QED
  BY <1>1, <1>2, <1>3, CellIsRead

LEMMA PlainOneIdentifier == ASSUME BillInv, PlainInv, OneIdentifier PROVE PlainInv'
<1> DEFINE list == Append(temp.identifier, Cell(holder))
<1>1. /\ billAt = "identifier" /\ billAt' = "description"
      /\ temp' = [temp EXCEPT ![billAt] = list] /\ holder' = AfterCell(holder)
      /\ UNCHANGED <<billFile, billLines, billData>>
  BY DEF OneIdentifier, Push
<1>2. /\ billAt \in DOMAIN ColumnOf /\ billAt' \in DOMAIN ColumnOf
      /\ ColumnOf[billAt'] = ColumnOf[billAt] + 1
  BY <1>1 DEF ColumnOf
<1>3. ASSUME IsPlain(CurrentLine), Cell(holder) = Column(CurrentLine, ColumnOf[billAt])
      PROVE  list = PlainPart(CurrentLine)[billAt]
  <2>1. temp.identifier = <<>>
    <3>1. ~ BetweenLines /\ ColumnOf[billAt] <= ColumnOf["identifier"]
      BY <1>1 DEF BetweenLines, ColumnOf
    <3>2. QED
      BY <1>3, <3>1 DEF PlainInv, PlainSoFar
  <2>2. list = <<Cell(holder)>>
    BY <2>1
  <2>3. PlainPart(CurrentLine)[billAt] = <<Column(CurrentLine, ColumnOf[billAt])>>
    BY <1>1, <1>2 DEF PlainPart
  <2>4. QED
    BY <1>3, <2>2, <2>3
<1> HIDE DEF list
<1>4. QED
  BY <1>1, <1>2, <1>3, CellIsRead

LEMMA PlainPlainDescription == ASSUME BillInv, PlainInv, PlainDescription PROVE PlainInv'
<1>1. /\ billAt = "description" /\ billAt' = "dni"
      /\ temp' = [temp EXCEPT ![billAt] = Cell(holder)] /\ holder' = AfterCell(holder)
      /\ UNCHANGED <<billFile, billLines, billData>>
  BY DEF PlainDescription
<1>2. /\ billAt \in DOMAIN ColumnOf /\ billAt' \in DOMAIN ColumnOf
      /\ ColumnOf[billAt'] = ColumnOf[billAt] + 1
      /\ billAt # "identifier" /\ billAt # "maxTemp"
  BY <1>1 DEF ColumnOf
<1>3. PlainPart(CurrentLine)[billAt] = Column(CurrentLine, ColumnOf[billAt])
  BY <1>2 DEF PlainPart
<1>4. QED
  BY <1>1, <1>2, <1>3, CellIsRead

LEMMA PlainStorePart == ASSUME BillInv, PlainInv, StorePart PROVE PlainInv'
<1>1. PICK part : part = [temp EXCEPT !.maxTemp = holder]
  OBVIOUS
<1>2. /\ billAt = "maxTemp" /\ billAt' = "line" /\ billData' = Append(billData, part)
      /\ UNCHANGED <<billFile, billLines>>
  BY <1>1 DEF StorePart
<1>3. PlainSoFar'
  BY <1>2 DEF PlainSoFar, BetweenLines
<1>4. ~ BetweenLines /\ billLines \in Nat
  BY <1>2, BillFacts DEF BetweenLines
<1>5. IsPlain(CurrentLine) => part = PlainPart(CurrentLine)
  <2> SUFFICES ASSUME IsPlain(CurrentLine)
               PROVE  part = PlainPart(CurrentLine)
    OBVIOUS
  <2>1. /\ IsRest(holder, CurrentLine, CellBegins(CurrentLine, 9))
        /\ \A cell \in DOMAIN ColumnOf \ {"maxTemp"} : temp[cell] = PlainPart(CurrentLine)[cell]
    <3>1. /\ ColumnOf["maxTemp"] = 9
          /\ \A cell \in DOMAIN ColumnOf \ {"maxTemp"} : ColumnOf[cell] < 9
      BY DEF ColumnOf
    <3>2. QED
      BY <1>2, <1>4, <3>1 DEF PlainInv, PlainSoFar
  <2>2. CurrentLine \in Seq(STRING) /\ holder \in Seq(STRING)
    BY <1>4, BillFacts
  <2>3. holder = SubSeq(CurrentLine, CellBegins(CurrentLine, 9) + 1, Len(CurrentLine))
    BY <2>1, <2>2, RestIsSubSeq
  <2>4. DOMAIN temp = DOMAIN ColumnOf /\ "maxTemp" \in DOMAIN ColumnOf
    BY BillFacts DEF IsPartData, EmptyPart, ColumnOf
  <2>5. PlainPart(CurrentLine)["maxTemp"] = holder
    <3>1. ColumnOf["maxTemp"] = 9 /\ "maxTemp" # "identifier"
      BY DEF ColumnOf
    <3>2. QED
      BY <2>3, <2>4, <3>1 DEF PlainPart
  <2>6. part = [cell \in DOMAIN ColumnOf |-> IF cell = "maxTemp" THEN holder ELSE temp[cell]]
    BY <1>1, <2>4
  <2>7. \A cell \in DOMAIN ColumnOf :
           (IF cell = "maxTemp" THEN holder ELSE temp[cell]) = PlainPart(CurrentLine)[cell]
    BY <2>1, <2>5
  <2>8. PlainPart(CurrentLine) = [cell \in DOMAIN ColumnOf |-> PlainPart(CurrentLine)[cell]]
    BY DEF PlainPart
  <2>9. QED
    BY <2>6, <2>7, <2>8
<1>6. PICK len \in Nat : /\ len = Len(billData) /\ DOMAIN billData = 1..len
                         /\ DOMAIN billData' = 1..len + 1
                         /\ \A n \in 1..len : billData'[n] = billData[n]
                         /\ billData'[len + 1] = part
  <2>1. IsASequence(billData)
    BY DEF BillInv
  <2>2. QED
    BY <1>2, <2>1, SequenceGrows
<1>7. PlainParts'
  <2>1. \A k, n : CompletesPart(k, n)' = CompletesPart(k, n)
    BY <1>2 DEF CompletesPart, PartsIn
  <2>2. ASSUME NEW n \in 1..len
        PROVE  \E k \in 1..billLines :
                  /\ CompletesPart(k, n)
                  /\ IsPlain(billFile[k]) => billData'[n] = PlainPart(billFile[k])
    BY <1>6 DEF PlainInv, PlainParts
  <2>3. PartsIn(billLines) = len + 1 /\ billLines # 0 /\ IsPart(billFile[billLines])
    BY <1>4, <1>6 DEF BillInv, RowsCounted, CurrentLine
  <2>4. billLines \in 1..billLines /\ CompletesPart(billLines, len + 1)
    BY <1>4, <2>3, PartIsCompleted
  <2>5. IsPlain(billFile[billLines]) => billData'[len + 1] = PlainPart(billFile[billLines])
    BY <1>5, <1>6 DEF CurrentLine
  <2>6. \A n \in 1..len + 1 : n \in 1..len \/ n = len + 1
    OBVIOUS
  <2>7. QED
    BY <1>2, <1>6, <2>1, <2>2, <2>4, <2>5, <2>6 DEF PlainParts
<1>8. QED
  BY <1>3, <1>7 DEF PlainInv

LEMMA PlainInvBegins == ASSUME BillBegins PROVE PlainInv
<1>1. DOMAIN billData = {}
  BY DEF BillBegins
<1>2. QED
  BY <1>1 DEF BillBegins, PlainInv, PlainSoFar, PlainParts, BetweenLines

LEMMA PlainInvStep == BillInv /\ PlainInv /\ [BillNext]_billVars => PlainInv'
<1> SUFFICES ASSUME BillInv, PlainInv, [BillNext]_billVars
             PROVE  PlainInv'
  OBVIOUS
<1>1. billLines \in Nat
  BY BillFacts
<1>2. CASE UNCHANGED billVars \/ EndOfFile
  <2>1. UNCHANGED <<billFile, billLines, billData>>
    BY <1>2 DEF billVars, EndOfFile
  <2>2. PlainParts'
    BY <1>1, <2>1, PlainPartsStay DEF PlainInv
  <2>3. PlainSoFar'
    BY <1>2 DEF PlainInv, PlainSoFar, BetweenLines, CurrentLine, IsRest, billVars, EndOfFile
  <2>4. QED
    BY <2>2, <2>3 DEF PlainInv
<1>3. CASE ListName \/ LastListName \/ PushThrows \/ CloseList
  <2>1. billAt = "list" /\ UNCHANGED <<billFile, billLines, billData>>
    BY <1>3 DEF ListName, LastListName, PushThrows, CloseList
  <2>2. ~ BetweenLines /\ billAt \notin DOMAIN ColumnOf
    BY <2>1 DEF BetweenLines, ColumnOf
  <2>3. QED
    BY <2>1, <2>2, QuoteIsRead
<1>4. CASE OpenList \/ QuotedDescription
  <2>1. /\ First(holder) = Quote /\ ~ BetweenLines
        /\ UNCHANGED <<billFile, billLines, billData>>
    BY <1>4 DEF OpenList, QuotedDescription, BetweenLines
  <2>2. QED
    BY <2>1, QuoteIsRead
<1>5. QED
  BY <1>2, <1>3, <1>4, PlainGetLine, PlainCopyCell, PlainOneIdentifier,
     PlainPlainDescription, PlainStorePart DEF BillNext

LEMMA PlainInvTellsTheParts == ASSUME BillInv, PlainInv PROVE ShortRowRepeatsLastCell
<1> SUFFICES ASSUME NEW n \in DOMAIN billData, ~ Contains(PartLine(n), Quote)
             PROVE  billData[n] = PlainPart(PartLine(n))
  BY DEF ShortRowRepeatsLastCell
<1>1. PICK k \in 1..billLines :
         /\ CompletesPart(k, n)
         /\ IsPlain(billFile[k]) => billData[n] = PlainPart(billFile[k])
  BY DEF PlainInv, PlainParts
<1>2. PartLine(n) = billFile[k]
  BY <1>1, BillFacts, LineOfAPart
<1>3. QED
  BY <1>1, <1>2 DEF IsPlain
-------------------------------------------------------------------------
(***************************************************************************)
(* The rows of parts.  A text in front of a separator is found, taken and  *)
(* erased.                                                                 *)
(***************************************************************************)
IsJoin(text, a, c, b) == text = a \o <<c>> \o b

LEMMA OneCharacter ==
  ASSUME NEW S, NEW c \in S
  PROVE  <<c>> \in Seq(S) /\ Len(<<c>>) = 1 /\ <<c>>[1] = c
OBVIOUS

LEMMA PartsOfAJoin ==
  ASSUME NEW S, NEW a \in Seq(S), NEW c \in S, NEW b \in Seq(S), NEW text,
         IsJoin(text, a, c, b)
  PROVE  /\ text \in Seq(S) /\ Len(text) = Len(a) + 1 + Len(b)
         /\ Len(a) \in Nat /\ Len(b) \in Nat
         /\ \A n \in 1..Len(a) : text[n] = a[n]
         /\ text[Len(a) + 1] = c
         /\ \A n \in 1..Len(b) : text[Len(a) + 1 + n] = b[n]
         /\ text = a \o (<<c>> \o b)
<1>1. <<c>> \in Seq(S) /\ Len(<<c>>) = 1 /\ <<c>>[1] = c
  BY OneCharacter
<1>2. Len(a) \in Nat /\ Len(b) \in Nat
  BY LenProperties
<1> DEFINE front == a \o <<c>>
<1>3. text = front \o b
  BY DEF IsJoin
<1>4. /\ front \in Seq(S) /\ Len(front) = Len(a) + 1
      /\ \A i \in 1..Len(a) + 1 : front[i] = IF i <= Len(a) THEN a[i] ELSE <<c>>[i - Len(a)]
  BY <1>1, ConcatProperties
<1>5. /\ text \in Seq(S) /\ Len(text) = Len(front) + Len(b)
      /\ \A i \in 1..Len(front) + Len(b) :
            text[i] = IF i <= Len(front) THEN front[i] ELSE b[i - Len(front)]
  BY <1>3, <1>4, ConcatProperties
<1>6. text = a \o (<<c>> \o b)
  BY <1>3, <1>1, ConcatAssociative
<1> HIDE DEF front
<1>7. ASSUME NEW n \in 1..Len(a)
      PROVE  text[n] = a[n]
  <2>1. n \in 1..Len(a) + 1 /\ n \in 1..Len(front) + Len(b) /\ n <= Len(a) /\ n <= Len(front)
    BY <1>2, <1>4
  <2>2. QED
    BY <1>4, <1>5, <2>1
<1>8. text[Len(a) + 1] = c
  <2>1. /\ Len(a) + 1 \in 1..Len(a) + 1 /\ Len(a) + 1 \in 1..Len(front) + Len(b)
        /\ ~ (Len(a) + 1 <= Len(a)) /\ Len(a) + 1 <= Len(front) /\ (Len(a) + 1) - Len(a) = 1
    BY <1>2, <1>4
  <2>2. QED
    BY <1>1, <1>4, <1>5, <2>1
<1>9. ASSUME NEW n \in 1..Len(b)
      PROVE  text[Len(a) + 1 + n] = b[n]
  <2>1. /\ Len(a) + 1 + n \in 1..Len(front) + Len(b) /\ ~ (Len(a) + 1 + n <= Len(front))
        /\ (Len(a) + 1 + n) - Len(front) = n
    BY <1>2, <1>4
  <2>2. QED
    BY <1>5, <2>1
<1>10. QED
  BY <1>2, <1>4, <1>5, <1>6, <1>7, <1>8, <1>9

LEMMA LengthOfAJoin ==
  ASSUME NEW S, NEW a \in Seq(S), NEW c \in S, NEW b \in Seq(S), NEW text,
         IsJoin(text, a, c, b)
  PROVE  Len(text) = Len(a) + 1 + Len(b) /\ Len(a) \in Nat /\ Len(b) \in Nat
<1>1. /\ text \in Seq(S) /\ Len(text) = Len(a) + 1 + Len(b)
      /\ Len(a) \in Nat /\ Len(b) \in Nat
      /\ \A n \in 1..Len(a) : text[n] = a[n]
      /\ text[Len(a) + 1] = c
      /\ \A n \in 1..Len(b) : text[Len(a) + 1 + n] = b[n]
      /\ text = a \o (<<c>> \o b)
  BY PartsOfAJoin
<1>2. QED
  BY <1>1

LEMMA JoinIsTakenApart ==
  ASSUME NEW S, NEW a \in Seq(S), NEW c \in S, NEW b \in Seq(S), NEW text,
         IsJoin(text, a, c, b)
  PROVE  /\ Erase(text, Len(a)) = <<c>> \o b
         /\ Erase(text, Len(a) + 1) = b
         /\ Substr(text, 0, Len(a)) = a
         /\ ~ Contains(a, c) => Find(text, c) = Len(a)
<1>1. /\ text \in Seq(S) /\ Len(text) = Len(a) + 1 + Len(b)
      /\ Len(a) \in Nat /\ Len(b) \in Nat
      /\ \A n \in 1..Len(a) : text[n] = a[n]
      /\ text[Len(a) + 1] = c
      /\ \A n \in 1..Len(b) : text[Len(a) + 1 + n] = b[n]
      /\ text = a \o (<<c>> \o b)
  BY PartsOfAJoin
<1>2. text \in Seq(S)
  BY <1>1
<1>3. ASSUME NEW rest \in Seq(S), NEW k \in Nat, k + Len(rest) = Len(text),
             \A n \in 1..Len(rest) : text[k + n] = rest[n]
      PROVE  Erase(text, k) = rest
  <2>1. Len(rest) \in Nat /\ k <= Len(text) /\ Len(text) - k = Len(rest)
    BY <1>1, <1>3, LenProperties
  <2>2. /\ Erase(text, k) \in Seq(S) /\ Len(Erase(text, k)) = Len(text) - k
        /\ \A n \in 1..Len(text) - k : Erase(text, k)[n] = text[k + n]
    <3>1. /\ Erase(text, k) \in Seq(S)
          /\ k <= Len(text) =>
                /\ Len(Erase(text, k)) = Len(text) - k
                /\ \A n \in 1..Len(text) - k : Erase(text, k)[n] = text[k + n]
      BY <1>2, EraseIsAText
    <3>2. QED
      BY <2>1, <3>1
  <2>3. \A n \in 1..Len(Erase(text, k)) : Erase(text, k)[n] = rest[n]
    BY <1>3, <2>1, <2>2
  <2>4. QED
    BY <2>1, <2>2, <2>3, SeqEqual, Zenon
<1>4. Erase(text, Len(a) + 1) = b
  <2>1. Len(a) + 1 \in Nat /\ (Len(a) + 1) + Len(b) = Len(text)
    BY <1>1
  <2>2. QED
    BY <1>1, <1>3, <2>1, Zenon
<1>5. Erase(text, Len(a)) = <<c>> \o b
  <2>1. <<c>> \in Seq(S) /\ Len(<<c>>) = 1 /\ <<c>>[1] = c
    BY OneCharacter
  <2> DEFINE rest == <<c>> \o b
  <2>2. /\ rest \in Seq(S) /\ Len(rest) = 1 + Len(b)
        /\ \A n \in 1..1 + Len(b) : rest[n] = IF n <= 1 THEN <<c>>[n] ELSE b[n - 1]
    BY <2>1, ConcatProperties
  <2> HIDE DEF rest
  <2>3. ASSUME NEW n \in 1..Len(rest)
        PROVE  text[Len(a) + n] = rest[n]
    <3>1. CASE n = 1
      BY <1>1, <2>1, <2>2, <3>1
    <3>2. CASE n # 1
      <4>1. n - 1 \in 1..Len(b) /\ Len(a) + 1 + (n - 1) = Len(a) + n /\ ~ (n <= 1)
        BY <1>1, <2>2, <3>2
      <4>2. QED
        BY <1>1, <2>2, <4>1
    <3>3. QED
      BY <3>1, <3>2
  <2>4. Len(a) + Len(rest) = Len(text)
    BY <1>1, <2>2
  <2>5. Erase(text, Len(a)) = rest
    BY <1>1, <1>3, <2>2, <2>3, <2>4, Zenon
  <2>6. QED
    BY <2>5 DEF rest
<1>6. Substr(text, 0, Len(a)) = a
  <2>1. 0 \in 0..Len(text)
    BY <1>1
  <2>2. /\ Substr(text, 0, Len(a)) \in Seq(S)
        /\ Len(Substr(text, 0, Len(a))) =
              IF 0 + Len(a) <= Len(text) THEN Len(a) ELSE Len(text) - 0
        /\ \A n \in 1..Len(Substr(text, 0, Len(a))) :
              Substr(text, 0, Len(a))[n] = text[0 + n]
    BY <1>1, <2>1, SubstrIsAText, Zenon
  <2>3. 0 + Len(a) <= Len(text) /\ \A n \in 1..Len(a) : 0 + n = n
    BY <1>1
  <2>4. Len(Substr(text, 0, Len(a))) = Len(a)
    BY <2>2, <2>3
  <2>5. \A n \in 1..Len(Substr(text, 0, Len(a))) : Substr(text, 0, Len(a))[n] = a[n]
    BY <1>1, <2>2, <2>3, <2>4
  <2>6. QED
    BY <2>2, <2>4, <2>5, SeqEqual, Zenon
<1>7. ASSUME ~ Contains(a, c)
      PROVE  Find(text, c) = Len(a)
  <2>1. Len(a) + 1 \in 1..Len(text)
    BY <1>1
  <2>2. Find(text, c) < Len(a) + 1
    BY <1>1, <2>1, FindIsFirst, Zenon
  <2>3. /\ Find(text, c) \in Nat
        /\ \/ ~ Contains(text, c) /\ Find(text, c) = Npos
           \/ Find(text, c) < Len(text) /\ text[Find(text, c) + 1] = c
    BY <1>2, FindIsThere
  <2>4. Contains(text, c)
    BY <1>1, <2>1 DEF Contains
  <2>5. \A n \in 1..Len(a) : a[n] # c
    BY <1>7 DEF Contains
  <2>6. ASSUME Find(text, c) + 1 \in 1..Len(a)
        PROVE  FALSE
    BY <1>1, <2>3, <2>4, <2>5, <2>6
  <2>7. QED
    BY <1>1, <2>2, <2>3, <2>6
<1>8. QED
  BY <1>4, <1>5, <1>6, <1>7

(***************************************************************************)
(* What is joined with commas is what the recursion says: there is such a  *)
(* function from the last text on, from the last but one on, and so on.    *)
(***************************************************************************)
LEMMA JoinedIsDefined ==
  ASSUME NEW cells, Len(cells) \in Nat
  PROVE  JoinedFrom(cells) =
            [n \in 1..Len(cells) |-> IF n = Len(cells) THEN cells[n]
                                     ELSE cells[n] \o <<Comma>> \o JoinedFrom(cells)[n + 1]]
<1> DEFINE end == Len(cells)
           At(f, n) == IF n = end THEN cells[n] ELSE cells[n] \o <<Comma>> \o f[n + 1]
           Joins(f, k) == f = [n \in end + 1 - k..end |-> At(f, n)]
           Defined(k) == \E f : Joins(f, k)
           None == {k \in 0..end : ~ Defined(k)}
<1>1. None = {}
  <2> SUFFICES ASSUME None # {}
               PROVE  FALSE
    OBVIOUS
  <2>1. PICK k \in None : \A j \in None : k <= j
    <3> HIDE DEF Defined
    <3>1. None \subseteq Nat
      OBVIOUS
    <3> HIDE DEF None
    <3>2. QED
      BY <3>1, LeastElement
  <2>2. k # 0
    <3>1. ASSUME k = 0
          PROVE  FALSE
      <4>1. end + 1 - k..end = {}
        BY <3>1
      <4> DEFINE f == [n \in {} |-> 0]
      <4>2. f = [n \in end + 1 - k..end |-> At(f, n)]
        BY <4>1
      <4>3. QED
        BY <4>2
    <3>2. QED
      BY <3>1
  <2>3. k \in 0..end /\ ~ Defined(k) /\ Defined(k - 1)
    <3> HIDE DEF Defined
    <3>1. k \in 0..end /\ ~ Defined(k)
      OBVIOUS
    <3>2. k - 1 \in 0..end /\ ~ (k <= k - 1)
      BY <2>2, <3>1
    <3>3. k - 1 \notin None
      BY <2>1, <3>2
    <3>4. QED
      BY <3>1, <3>2, <3>3
  <2>4. PICK f : Joins(f, k - 1)
    BY <2>3
  <2> DEFINE first == end + 1 - k
             g == [n \in first..end |-> IF n = first THEN At(f, n) ELSE f[n]]
  <2>5. \A n \in first..end : At(g, n) = At(f, n)
    <3> TAKE n \in first..end
    <3>1. CASE n = end
      BY <3>1
    <3>2. CASE n # end
      <4>1. n + 1 \in first..end /\ n + 1 # first
        BY <2>1, <3>2
      <4>2. g[n + 1] = f[n + 1]
        BY <4>1
      <4>3. QED
        BY <4>2
    <3>3. QED
      BY <3>1, <3>2
  <2>6. \A n \in first..end : n # first => f[n] = At(f, n)
    <3> TAKE n \in first..end
    <3> HAVE n # first
    <3>1. n \in end + 1 - (k - 1)..end
      BY <2>1
    <3>2. f = [m \in end + 1 - (k - 1)..end |-> At(f, m)]
      BY <2>4
    <3> HIDE DEF At
    <3>3. QED
      BY <3>1, <3>2
  <2>7. g = [n \in first..end |-> At(g, n)]
    <3> HIDE DEF At
    <3>1. g = [n \in first..end |-> At(f, n)]
      BY <2>6
    <3>2. QED
      BY <2>5, <3>1
  <2>8. Joins(g, k)
    BY <2>7
  <2>9. QED
    BY <2>3, <2>8
<1>2. PICK f : Joins(f, end)
  <2>1. Defined(end)
    <3> HIDE DEF Defined
    <3>1. QED
      BY <1>1
  <2>2. QED
    BY <2>1
<1>3. f = [n \in 1..end |-> At(f, n)]
  <2>1. end + 1 - end = 1
    OBVIOUS
  <2>2. QED
    BY <1>2, <2>1
<1>4. JoinedFrom(cells) = CHOOSE h : h = [n \in 1..end |-> At(h, n)]
  BY DEF JoinedFrom
<1>5. QED
  BY <1>3, <1>4

LEMMA JoinedAreTexts ==
  ASSUME NEW S, Comma \in S, NEW cells, Len(cells) \in Nat,
         \A n \in 1..Len(cells) : cells[n] \in Seq(S)
  PROVE  \A n \in 1..Len(cells) :
            /\ JoinedFrom(cells)[n] \in Seq(S)
            /\ n = Len(cells) => JoinedFrom(cells)[n] = cells[n]
            /\ n # Len(cells) =>
                  IsJoin(JoinedFrom(cells)[n], cells[n], Comma, JoinedFrom(cells)[n + 1])
<1> DEFINE end == Len(cells)
           J(n) == JoinedFrom(cells)[n]
           Not == {k \in 0..end - 1 : J(end - k) \notin Seq(S)}
<1>1. \A n \in 1..end : J(n) = IF n = end THEN cells[n] ELSE cells[n] \o <<Comma>> \o J(n + 1)
  BY JoinedIsDefined
<1> HIDE DEF J
<1>2. \A n \in 1..end :
         /\ n = end => J(n) = cells[n]
         /\ n # end => IsJoin(J(n), cells[n], Comma, J(n + 1))
  BY <1>1 DEF IsJoin
<1>3. end \in Nat /\ \A n \in 1..end : cells[n] \in Seq(S)
  OBVIOUS
<1>4. Not = {}
  <2> SUFFICES ASSUME Not # {}
               PROVE  FALSE
    OBVIOUS
  <2>1. PICK k \in Not : \A j \in Not : k <= j
    <3>1. Not \subseteq Nat
      OBVIOUS
    <3> HIDE DEF Not
    <3>2. QED
      BY <3>1, LeastElement
  <2>2. end - k \in 1..end /\ k \in 0..end - 1
    OBVIOUS
  <2>3. CASE k = 0
    <3>1. end - k = end
      BY <2>3
    <3>2. J(end) = cells[end] /\ cells[end] \in Seq(S)
      <4>1. end \in 1..end
        BY <2>2, <3>1
      <4> HIDE DEF end
      <4>2. QED
        BY <1>2, <1>3, <4>1
    <3>3. QED
      BY <3>1, <3>2
  <2>4. CASE k # 0
    <3>1. k - 1 \in 0..end - 1 /\ ~ (k <= k - 1) /\ end - (k - 1) = end - k + 1 /\ end - k # end
      BY <2>2, <2>4
    <3>2. k - 1 \notin Not
      BY <2>1, <3>1
    <3>3. J(end - k + 1) \in Seq(S)
      BY <3>1, <3>2
    <3>4. IsJoin(J(end - k), cells[end - k], Comma, J(end - k + 1))
      BY <1>2, <2>2, <3>1
    <3>5. cells[end - k] \in Seq(S)
      BY <2>2
    <3>6. J(end - k) \in Seq(S)
      <4> DEFINE a == cells[end - k]
                 b == J(end - k + 1)
                 text == J(end - k)
      <4>1. a \in Seq(S) /\ b \in Seq(S) /\ IsJoin(text, a, Comma, b)
        BY <3>3, <3>4, <3>5
      <4> HIDE DEF a, b, text
      <4>2. text \in Seq(S)
        BY <4>1, PartsOfAJoin
      <4>3. QED
        BY <4>2 DEF text
    <3>7. QED
      BY <3>6
  <2>5. QED
    BY <2>3, <2>4
<1>5. ASSUME NEW n \in 1..end
      PROVE  J(n) \in Seq(S)
  <2>1. end - n \in 0..end - 1 /\ end - (end - n) = n
    OBVIOUS
  <2>2. end - n \notin Not
    BY <1>4
  <2>3. QED
    BY <2>1, <2>2
<1>6. \A n \in 1..end :
         /\ J(n) \in Seq(S)
         /\ n = end => J(n) = cells[n]
         /\ n # end => IsJoin(J(n), cells[n], Comma, J(n + 1))
  BY <1>2, <1>5
<1>7. QED
  BY <1>6, Zenon DEF J

(***************************************************************************)
(* How getBillData reads a text in front of a separator.                   *)
(***************************************************************************)
LEMMA FirstOfAText ==
  ASSUME NEW S, NEW text \in Seq(S), Len(text) # 0
  PROVE  First(text) = text[1]
<1>1. text # <<>>
  BY EmptySeq
<1>2. Head(text) = text[1]
  BY <1>1, HeadTailProperties
<1>3. QED
  BY <1>1, <1>2 DEF First

LEMMA SeparatorIsFound ==
  ASSUME NEW S, NEW a \in Seq(S), NEW c \in S, NEW b \in Seq(S), NEW text,
         IsJoin(text, a, c, b), ~ Contains(a, c),
         NEW d, d # c, ~ Contains(a, d), Len(text) < SizeMax
  PROVE  Find(text, c) = Len(a) /\ Find(text, c) < Find(text, d)
<1>1. /\ text \in Seq(S) /\ Len(text) = Len(a) + 1 + Len(b)
      /\ Len(a) \in Nat /\ Len(b) \in Nat
      /\ \A n \in 1..Len(a) : text[n] = a[n]
      /\ text[Len(a) + 1] = c
      /\ \A n \in 1..Len(b) : text[Len(a) + 1 + n] = b[n]
      /\ text = a \o (<<c>> \o b)
  BY PartsOfAJoin
<1>2. Find(text, c) = Len(a)
  BY JoinIsTakenApart
<1>3. text \in Seq(S)
  BY <1>1
<1>4. /\ Find(text, d) \in Nat
      /\ \/ ~ Contains(text, d) /\ Find(text, d) = Npos
         \/ Find(text, d) < Len(text) /\ text[Find(text, d) + 1] = d
  BY <1>3, FindIsThere
<1>5. CASE Find(text, d) = Npos
  BY <1>1, <1>2, <1>5 DEF Npos, SizeMax
<1>6. CASE Find(text, d) < Len(text) /\ text[Find(text, d) + 1] = d
  <2>1. Find(text, d) + 1 # Len(a) + 1
    BY <1>1, <1>6
  <2>2. Find(text, d) + 1 \notin 1..Len(a)
    <3>1. \A n \in 1..Len(a) : a[n] # d
      BY DEF Contains
    <3>2. QED
      BY <1>1, <1>6, <3>1
  <2>3. QED
    BY <1>1, <1>2, <1>4, <2>1, <2>2
<1>7. QED
  BY <1>2, <1>4, <1>5, <1>6

LEMMA SizeOfALength == ASSUME NEW n \in Nat, n <= SizeMax PROVE SizeT(n) = n
BY DEF SizeT, SizeMax

LEMMA CellOfAJoin ==
  ASSUME NEW S, NEW a \in Seq(S), Comma \in S, NEW b \in Seq(S), NEW text,
         IsJoin(text, a, Comma, b), ~ Contains(a, Comma), Len(text) < SizeMax
  PROVE  Cell(text) = a /\ AfterCell(text) = b /\ Len(b) < SizeMax
<1>1. /\ text \in Seq(S) /\ Len(text) = Len(a) + 1 + Len(b)
      /\ Len(a) \in Nat /\ Len(b) \in Nat
      /\ \A n \in 1..Len(a) : text[n] = a[n]
      /\ text[Len(a) + 1] = Comma
      /\ \A n \in 1..Len(b) : text[Len(a) + 1 + n] = b[n]
      /\ text = a \o (<<Comma>> \o b)
  BY PartsOfAJoin
<1>2. /\ Erase(text, Len(a)) = <<Comma>> \o b
      /\ Erase(text, Len(a) + 1) = b
      /\ Substr(text, 0, Len(a)) = a
      /\ ~ Contains(a, Comma) => Find(text, Comma) = Len(a)
  BY JoinIsTakenApart
<1>3. Len(a) + 1 \in Nat /\ Len(a) + 1 <= SizeMax /\ Len(b) < SizeMax
  BY <1>1 DEF SizeMax
<1>4. SizeT(Len(a) + 1) = Len(a) + 1
  BY <1>3, SizeOfALength
<1>5. QED
  BY <1>2, <1>3, <1>4 DEF Cell, AfterCell

LEMMA FirstOfAJoin ==
  ASSUME NEW S, NEW a \in Seq(S), NEW c \in S, NEW b \in Seq(S), NEW text,
         IsJoin(text, a, c, b), ~ Contains(a, Quote)
  PROVE  First(text) = Quote <=> (a = <<>> /\ c = Quote)
<1>1. /\ text \in Seq(S) /\ Len(text) = Len(a) + 1 + Len(b)
      /\ Len(a) \in Nat /\ Len(b) \in Nat
      /\ \A n \in 1..Len(a) : text[n] = a[n]
      /\ text[Len(a) + 1] = c
      /\ \A n \in 1..Len(b) : text[Len(a) + 1 + n] = b[n]
      /\ text = a \o (<<c>> \o b)
  BY PartsOfAJoin
<1>2. text \in Seq(S) /\ Len(text) # 0
  BY <1>1
<1>3. First(text) = text[1]
  BY <1>2, FirstOfAText
<1>4. a = <<>> <=> Len(a) = 0
  BY EmptySeq
<1>5. CASE Len(a) = 0
  BY <1>1, <1>3, <1>4, <1>5
<1>6. CASE Len(a) # 0
  <2>1. 1 \in 1..Len(a)
    BY <1>1, <1>6
  <2>2. a[1] # Quote
    BY <2>1 DEF Contains
  <2>3. QED
    BY <1>1, <1>3, <1>4, <1>6, <2>1, <2>2
<1>7. QED
  BY <1>5, <1>6

(***************************************************************************)
(* Quotes.                                                                 *)
(***************************************************************************)
LEMMA NothingBefore ==
  ASSUME NEW S, NEW c \in S, NEW b \in Seq(S)
  PROVE  IsJoin(<<c>> \o b, <<>>, c, b) /\ <<>> \in Seq(S)
<1>1. <<c>> \in Seq(S)
  BY OneCharacter
<1>2. <<>> \o <<c>> = <<c>>
  BY <1>1, ConcatEmptySeq
<1>3. QED
  BY <1>2, EmptySeq DEF IsJoin

LEMMA JoinOfThree ==
  ASSUME NEW S, NEW a \in Seq(S), NEW c \in S, NEW b \in Seq(S), NEW d \in S,
         NEW e \in Seq(S), NEW left, IsJoin(left, a, c, b), NEW text, IsJoin(text, left, d, e)
  PROVE  LET rest == b \o <<d>> \o e
         IN rest \in Seq(S) /\ IsJoin(rest, b, d, e) /\ IsJoin(text, a, c, rest)
<1> DEFINE front == a \o <<c>>
           tail == <<d>> \o e
           rest == b \o <<d>> \o e
<1>1. /\ <<c>> \in Seq(S) /\ <<d>> \in Seq(S)
      /\ left = front \o b /\ text = left \o <<d>> \o e
  BY OneCharacter DEF IsJoin
<1>2. front \in Seq(S) /\ tail \in Seq(S) /\ left \in Seq(S)
  BY <1>1, ConcatProperties
<1>3. rest = b \o tail
  BY <1>1, ConcatAssociative
<1>4. text = left \o tail
  BY <1>1, <1>2, ConcatAssociative
<1> HIDE DEF front, tail, rest
<1>5. (front \o b) \o tail = front \o (b \o tail) /\ b \o tail \in Seq(S)
  BY <1>2, ConcatAssociative, ConcatProperties
<1>6. rest \in Seq(S) /\ text = front \o rest
  BY <1>1, <1>3, <1>4, <1>5
<1>7. QED
  BY <1>6 DEF IsJoin, front, rest

LEMMA QuotedIsOpened ==
  ASSUME NEW S, Quote \in S, Comma \in S, NEW a \in Seq(S), NEW b \in Seq(S), NEW text,
         IsJoin(text, Quoted(a), Comma, b)
  PROVE  LET rest == Erase(text, 1)
         IN /\ First(text) = Quote
            /\ rest \in Seq(S) /\ Len(rest) < Len(text)
            /\ IsJoin(rest, a, Quote, <<Comma>> \o b)
            /\ <<Comma>> \o b \in Seq(S)
<1> DEFINE tail == <<Comma>> \o b
           inner == a \o <<Quote>> \o tail
<1>1. /\ <<Quote>> \in Seq(S) /\ <<Comma>> \in Seq(S)
      /\ text = (<<Quote>> \o a \o <<Quote>>) \o <<Comma>> \o b
  BY OneCharacter DEF IsJoin, Quoted
<1>2. /\ tail \in Seq(S) /\ <<Quote>> \o a \in Seq(S)
      /\ <<Quote>> \o a \o <<Quote>> \in Seq(S)
      /\ a \o <<Quote>> \in Seq(S)
  BY <1>1, ConcatProperties
<1>3. inner \in Seq(S)
  BY <1>2, ConcatProperties
<1>4. text = (<<Quote>> \o a \o <<Quote>>) \o tail
  BY <1>1, <1>2, ConcatAssociative
<1> HIDE DEF tail
<1>5. <<Quote>> \o a \o <<Quote>> = <<Quote>> \o (a \o <<Quote>>)
  BY <1>1, ConcatAssociative
<1>6. (<<Quote>> \o (a \o <<Quote>>)) \o tail = <<Quote>> \o ((a \o <<Quote>>) \o tail)
  BY <1>1, <1>2, ConcatAssociative
<1>7. text = <<Quote>> \o inner
  BY <1>4, <1>5, <1>6
<1>8. IsJoin(inner, a, Quote, tail)
  BY DEF IsJoin
<1> HIDE DEF inner
<1>9. PICK none : none = <<>>
  OBVIOUS
<1>10. IsJoin(text, none, Quote, inner) /\ none \in Seq(S)
  BY <1>3, <1>7, <1>9, NothingBefore
<1>11. Len(none) = 0 /\ ~ Contains(none, Quote)
  BY <1>9 DEF Contains
<1>12. /\ Erase(text, Len(none)) = <<Quote>> \o inner
       /\ Erase(text, Len(none) + 1) = inner
       /\ Substr(text, 0, Len(none)) = none
       /\ ~ Contains(none, Quote) => Find(text, Quote) = Len(none)
  BY <1>3, <1>10, JoinIsTakenApart
<1>13. /\ text \in Seq(S) /\ Len(text) = Len(none) + 1 + Len(inner)
       /\ Len(none) \in Nat /\ Len(inner) \in Nat
       /\ \A n \in 1..Len(none) : text[n] = none[n]
       /\ text[Len(none) + 1] = Quote
       /\ \A n \in 1..Len(inner) : text[Len(none) + 1 + n] = inner[n]
       /\ text = none \o (<<Quote>> \o inner)
  BY <1>3, <1>10, PartsOfAJoin
<1>14. First(text) = Quote
  BY <1>3, <1>9, <1>10, <1>11, FirstOfAJoin
<1>15. QED
  BY <1>2, <1>3, <1>8, <1>11, <1>12, <1>13, <1>14 DEF tail

LEMMA QuotedIsClosed ==
  ASSUME NEW S, Quote \in S, Comma \in S, NEW a \in Seq(S), NEW b \in Seq(S), NEW text,
         IsJoin(text, a, Quote, <<Comma>> \o b)
  PROVE  Erase(text, Len(a) + 2) = b /\ Len(b) < Len(text)
<1> DEFINE front == a \o <<Quote>>
<1>1. <<Quote>> \in Seq(S) /\ <<Comma>> \in Seq(S) /\ Len(<<Quote>>) = 1 /\ Len(a) \in Nat
  BY OneCharacter, LenProperties
<1>2. front \in Seq(S) /\ Len(front) = Len(a) + 1
  BY <1>1, ConcatProperties
<1>3. text = front \o (<<Comma>> \o b)
  BY DEF IsJoin
<1> HIDE DEF front
<1>4. text = front \o <<Comma>> \o b
  BY <1>1, <1>2, <1>3, ConcatAssociative
<1>5. IsJoin(text, front, Comma, b)
  BY <1>4 DEF IsJoin
<1>6. Erase(text, Len(front) + 1) = b
  BY <1>2, <1>5, JoinIsTakenApart
<1>7. Len(text) = Len(front) + 1 + Len(b) /\ Len(b) \in Nat
  BY <1>2, <1>5, PartsOfAJoin
<1>8. QED
  BY <1>1, <1>2, <1>6, <1>7

LEMMA SeparatorsAreCharacters == Comma \in STRING /\ Quote \in STRING /\ Comma # Quote
<1>1. Comma \in STRING /\ Quote \in STRING
  BY SeparatorsAreStrings
<1>2. Comma # Quote
  BY Zenon DEF Comma, Quote
<1>3. QED
  BY <1>1, <1>2

LEMMA QuotedIsAText == ASSUME NEW S, Quote \in S, NEW a \in Seq(S) PROVE Quoted(a) \in Seq(S)
<1>1. <<Quote>> \in Seq(S)
  BY OneCharacter
<1>2. <<Quote>> \o a \in Seq(S)
  BY <1>1, ConcatProperties
<1>3. QED
  BY <1>1, <1>2, ConcatProperties DEF Quoted

(***************************************************************************)
(* The cells of a part, and what is left of its row from each on.          *)
(***************************************************************************)
RowFrom(part, n) == JoinedFrom(CellsOf(part))[n]

LEMMA RowOfAPart ==
  ASSUME NEW S, S = STRING, NEW part, FitsARow(part)
  PROVE  /\ Comma \in S /\ Quote \in S
         /\ \A n \in 1..9 : CellsOf(part)[n] \in Seq(S) /\ RowFrom(part, n) \in Seq(S)
         /\ \A n \in 1..8 : IsJoin(RowFrom(part, n), CellsOf(part)[n], Comma, RowFrom(part, n + 1))
         /\ RowFrom(part, 9) = CellsOf(part)[9]
         /\ RowOf(part) = RowFrom(part, 1)
<1>1. Comma \in S /\ Quote \in S
  BY SeparatorsAreCharacters
<1>2. /\ DOMAIN part = DOMAIN EmptyPart
      /\ part.identifier \in Seq(Seq(S)) /\ part.identifier # <<>>
      /\ \A cell \in DOMAIN part \ {"identifier"} : part[cell] \in Seq(S)
  BY DEF FitsARow, IsPartData
<1>3. /\ Len(part.identifier) \in Nat /\ 1 \in 1..Len(part.identifier)
      /\ \A n \in 1..Len(part.identifier) : part.identifier[n] \in Seq(S)
  <2>1. Len(part.identifier) \in Nat /\ Len(part.identifier) # 0
    BY <1>2, LenProperties, EmptySeq
  <2>2. \A n \in 1..Len(part.identifier) : part.identifier[n] \in Seq(S)
    BY <1>2, <2>1, ElementOfSeq
  <2>3. QED
    BY <2>1, <2>2
<1>4. JoinedFrom(part.identifier)[1] \in Seq(S)
  BY <1>1, <1>3, JoinedAreTexts
<1>5. /\ Quoted(JoinedFrom(part.identifier)[1]) \in Seq(S)
      /\ Quoted(part.description) \in Seq(S)
  <2>1. part.description \in Seq(S)
    BY <1>2 DEF EmptyPart
  <2>2. QED
    BY <1>1, <1>4, <2>1, QuotedIsAText
<1>6. PICK cells : cells = CellsOf(part)
  OBVIOUS
<1>7. Len(cells) = 9 /\ \A n \in 1..9 : cells[n] \in Seq(S)
  <2>1. /\ part.item \in Seq(S) /\ part.quantity \in Seq(S) /\ part.manufacturer \in Seq(S)
        /\ part.partNumber \in Seq(S) /\ part.description \in Seq(S) /\ part.dni \in Seq(S)
        /\ part.status \in Seq(S) /\ part.maxTemp \in Seq(S)
    BY <1>2 DEF EmptyPart
  <2>2. PICK list : list = IF Len(part.identifier) = 1 THEN part.identifier[1]
                           ELSE Quoted(JoinedFrom(part.identifier)[1])
    OBVIOUS
  <2>3. PICK text : text = IF Contains(part.description, Comma) THEN Quoted(part.description)
                           ELSE part.description
    OBVIOUS
  <2>4. list \in Seq(S) /\ text \in Seq(S)
    BY <1>3, <1>5, <2>1, <2>2, <2>3
  <2>5. cells = <<part.item, part.quantity, part.manufacturer, part.partNumber, list, text,
                  part.dni, part.status, part.maxTemp>>
    BY <1>6, <2>2, <2>3 DEF CellsOf
  <2>6. Len(cells) = 9
    BY <2>5
  <2>7. /\ cells[1] = part.item /\ cells[2] = part.quantity /\ cells[3] = part.manufacturer
        /\ cells[4] = part.partNumber /\ cells[5] = list /\ cells[6] = text
        /\ cells[7] = part.dni /\ cells[8] = part.status /\ cells[9] = part.maxTemp
    BY <2>5
  <2>8. \A n \in 1..9 : \/ n = 1 \/ n = 2 \/ n = 3 \/ n = 4 \/ n = 5
                       \/ n = 6 \/ n = 7 \/ n = 8 \/ n = 9
    OBVIOUS
  <2>9. QED
    BY <2>1, <2>4, <2>6, <2>7, <2>8
<1>8. \A n \in 1..9 :
         /\ JoinedFrom(cells)[n] \in Seq(S)
         /\ n = 9 => JoinedFrom(cells)[n] = cells[n]
         /\ n # 9 => IsJoin(JoinedFrom(cells)[n], cells[n], Comma, JoinedFrom(cells)[n + 1])
  <2>1. \A n \in 1..Len(cells) :
            /\ JoinedFrom(cells)[n] \in Seq(S)
            /\ n = Len(cells) => JoinedFrom(cells)[n] = cells[n]
            /\ n # Len(cells) =>
                  IsJoin(JoinedFrom(cells)[n], cells[n], Comma, JoinedFrom(cells)[n + 1])
    <3>1. Len(cells) \in Nat /\ \A n \in 1..Len(cells) : cells[n] \in Seq(S)
      BY <1>7
    <3>2. QED
      BY <1>1, <3>1, JoinedAreTexts
  <2>2. QED
    BY <1>7, <2>1, Zenon
<1>9. \A n \in 1..9 : RowFrom(part, n) = JoinedFrom(cells)[n]
  BY <1>6 DEF RowFrom
<1>10. RowOf(part) = RowFrom(part, 1)
  BY DEF RowOf, RowFrom
<1>11. \A n \in 1..8 : n \in 1..9 /\ n # 9 /\ n + 1 \in 1..9
  OBVIOUS
<1>12. 9 \in 1..9
  OBVIOUS
<1>13. QED
  BY <1>1, <1>6, <1>7, <1>8, <1>9, <1>10, <1>11, <1>12

LEMMA CellIsTaken ==
  ASSUME NEW part, FitsARow(part), NEW n \in 1..8, ~ Contains(CellsOf(part)[n], Comma),
         Len(RowFrom(part, n)) < SizeMax
  PROVE  /\ Cell(RowFrom(part, n)) = CellsOf(part)[n]
         /\ AfterCell(RowFrom(part, n)) = RowFrom(part, n + 1)
         /\ Len(RowFrom(part, n + 1)) < SizeMax
<1>1. PICK S : S = STRING
  OBVIOUS
<1>2. PICK text, cell, rest : /\ text = RowFrom(part, n) /\ cell = CellsOf(part)[n]
                              /\ rest = RowFrom(part, n + 1)
  OBVIOUS
<1>3. /\ Comma \in S
      /\ \A k \in 1..9 : CellsOf(part)[k] \in Seq(S) /\ RowFrom(part, k) \in Seq(S)
      /\ \A k \in 1..8 : IsJoin(RowFrom(part, k), CellsOf(part)[k], Comma, RowFrom(part, k + 1))
  BY <1>1, RowOfAPart
<1>4. n \in 1..9 /\ n + 1 \in 1..9
  OBVIOUS
<1>5. cell \in Seq(S) /\ rest \in Seq(S) /\ IsJoin(text, cell, Comma, rest)
  BY <1>2, <1>3, <1>4
<1>6. ~ Contains(cell, Comma) /\ Len(text) < SizeMax
  BY <1>2
<1>7. Cell(text) = cell /\ AfterCell(text) = rest /\ Len(rest) < SizeMax
  BY <1>3, <1>5, <1>6, CellOfAJoin
<1>8. QED
  BY <1>2, <1>7

(***************************************************************************)
(* The invariant of well-formed rows.  What is left of the row of a part   *)
(* is its row from the cell that is read next, or from a name of its list, *)
(* and the cells of temp before it are those of the part.                  *)
(***************************************************************************)
CellsRead(part, n) ==
    \A cell \in DOMAIN ColumnOf : ColumnOf[cell] < n => temp[cell] = part[cell]
NamesFrom(names, m) == IF m = Len(names) THEN <<>> ELSE JoinedFrom(names)[m + 1]
NamesRead(part, m) ==
    /\ m \in 0..Len(part.identifier)
    /\ Len(temp.identifier) = m
    /\ \A n \in 1..m : temp.identifier[n] = part.identifier[n]
    /\ IsJoin(holder, NamesFrom(part.identifier, m), Quote, <<Comma>> \o RowFrom(part, 6))

AtACell(part) ==
    /\ billAt \in DOMAIN ColumnOf
    /\ holder = RowFrom(part, ColumnOf[billAt])
    /\ ColumnOf[billAt] <= 5 => temp.identifier = <<>>
    /\ CellsRead(part, ColumnOf[billAt])
InTheList(part) ==
    /\ billAt = "list" /\ Len(part.identifier) > 1
    /\ CellsRead(part, 5)
    /\ \E m \in Nat : NamesRead(part, m)
ReadSoFar(part) ==
    Len(holder) < SizeMax /\ (billAt = "threw" \/ AtACell(part) \/ InTheList(part))

PartsSoFar ==
    ~ BetweenLines => \A part \in Parts : CurrentLine = RowOf(part) => ReadSoFar(part)
PartsStored ==
    \A n \in DOMAIN billData : \E k \in 1..billLines :
       /\ CompletesPart(k, n)
       /\ \A part \in Parts : billFile[k] = RowOf(part) => billData[n] = part

BackInv == PartsSoFar /\ PartsStored

(***************************************************************************)
(* A step that reads a cell of the part into its column.                   *)
(***************************************************************************)
LEMMA CellIsTold ==
  ASSUME BillInv, NEW part, AtACell(part),
         billAt' \in DOMAIN ColumnOf, ColumnOf[billAt'] = ColumnOf[billAt] + 1,
         holder' = RowFrom(part, ColumnOf[billAt']), Len(holder') < SizeMax,
         temp' = [temp EXCEPT ![billAt] = part[billAt]]
  PROVE  ReadSoFar(part)'
<1>1. PICK n : n = ColumnOf[billAt]
  OBVIOUS
<1>2. /\ \A cell \in DOMAIN ColumnOf : ColumnOf[cell] \in Nat
      /\ \A cell \in DOMAIN ColumnOf : ColumnOf[cell] = n => cell = billAt
      /\ "identifier" \in DOMAIN ColumnOf /\ ColumnOf["identifier"] = 5
      /\ DOMAIN temp = DOMAIN ColumnOf /\ billAt \in DOMAIN ColumnOf /\ n \in Nat
  <2>1. DOMAIN temp = DOMAIN ColumnOf
    BY BillFacts DEF IsPartData, EmptyPart, ColumnOf
  <2>2. QED
    BY <1>1, <2>1 DEF AtACell, ColumnOf
<1>3. \A cell \in DOMAIN ColumnOf : temp'[cell] = IF cell = billAt THEN part[cell] ELSE temp[cell]
  BY <1>2
<1>4. \A cell \in DOMAIN ColumnOf : ColumnOf[cell] < n + 1 => ColumnOf[cell] < n \/ cell = billAt
  BY <1>2
<1>5. CellsRead(part, n + 1)'
  BY <1>1, <1>3, <1>4 DEF CellsRead, AtACell
<1>6. ASSUME n + 1 <= 5
      PROVE  temp'.identifier = <<>>
  <2>1. n <= 5 /\ billAt # "identifier"
    BY <1>1, <1>2, <1>6
  <2>2. QED
    BY <1>1, <1>2, <1>3, <2>1 DEF AtACell
<1>7. AtACell(part)'
  BY <1>1, <1>5, <1>6 DEF AtACell, RowFrom
<1>8. QED
  BY <1>7 DEF ReadSoFar

LEMMA CopiedCells ==
  ASSUME NEW part, FitsARow(part), NEW cell \in DOMAIN Behind
  PROVE  /\ ColumnOf[cell] \in 1..8 /\ CellsOf(part)[ColumnOf[cell]] = part[cell]
         /\ ~ Contains(part[cell], Comma)
         /\ cell \in DOMAIN ColumnOf /\ Behind[cell] \in DOMAIN ColumnOf
         /\ ColumnOf[Behind[cell]] = ColumnOf[cell] + 1
<1>1. cell \in {"item", "quantity", "manufacturer", "partNumber", "dni", "status"}
  BY DEF Behind
<1>2. ~ Contains(part[cell], Comma)
  BY <1>1 DEF FitsARow, IsPartData, EmptyPart
<1>3. CellsOf(part)[ColumnOf[cell]] = part[cell]
  <2>1. /\ CellsOf(part)[1] = part.item /\ CellsOf(part)[2] = part.quantity
        /\ CellsOf(part)[3] = part.manufacturer /\ CellsOf(part)[4] = part.partNumber
        /\ CellsOf(part)[7] = part.dni /\ CellsOf(part)[8] = part.status
    BY DEF CellsOf
  <2>2. QED
    BY <1>1, <2>1 DEF ColumnOf
<1>4. /\ cell \in DOMAIN ColumnOf /\ Behind[cell] \in DOMAIN ColumnOf
      /\ ColumnOf[Behind[cell]] = ColumnOf[cell] + 1
  BY <1>1 DEF Behind, ColumnOf
<1>5. ColumnOf[cell] \in 1..8
  BY <1>1 DEF ColumnOf
<1>6. QED
  BY <1>2, <1>3, <1>4, <1>5

LEMMA CopyCellTells ==
  ASSUME BillInv, NEW part, FitsARow(part), ReadSoFar(part), CopyCell
  PROVE  ReadSoFar(part)'
<1>1. /\ billAt \in DOMAIN Behind /\ billAt' = Behind[billAt]
      /\ temp' = [temp EXCEPT ![billAt] = Cell(holder)] /\ holder' = AfterCell(holder)
  BY DEF CopyCell
<1>2. billAt # "threw" /\ billAt # "list"
  BY <1>1 DEF Behind
<1>3. AtACell(part) /\ Len(holder) < SizeMax
  BY <1>2 DEF ReadSoFar, InTheList
<1>4. /\ ColumnOf[billAt] \in 1..8 /\ CellsOf(part)[ColumnOf[billAt]] = part[billAt]
      /\ ~ Contains(part[billAt], Comma)
      /\ Behind[billAt] \in DOMAIN ColumnOf
      /\ ColumnOf[Behind[billAt]] = ColumnOf[billAt] + 1
  BY <1>1, CopiedCells
<1>5. holder = RowFrom(part, ColumnOf[billAt])
  BY <1>3 DEF AtACell
<1>6. /\ Cell(holder) = part[billAt]
      /\ AfterCell(holder) = RowFrom(part, ColumnOf[billAt] + 1)
      /\ Len(AfterCell(holder)) < SizeMax
  BY <1>3, <1>4, <1>5, CellIsTaken
<1>7. QED
  BY <1>1, <1>3, <1>4, <1>6, CellIsTold

(***************************************************************************)
(* The identifiers of a part, one by one and joined.                       *)
(***************************************************************************)
LEMMA NamesOfAPart ==
  ASSUME NEW S, S = STRING, NEW part, FitsARow(part), NEW names, names = part.identifier
  PROVE  /\ names \in Seq(Seq(S)) /\ Len(names) \in Nat /\ 1 \in 1..Len(names)
         /\ \A n \in 1..Len(names) : /\ names[n] \in Seq(S)
                                     /\ ~ Contains(names[n], Comma)
                                     /\ ~ Contains(names[n], Quote)
                                     /\ JoinedFrom(names)[n] \in Seq(S)
         /\ JoinedFrom(names)[Len(names)] = names[Len(names)]
         /\ \A n \in 1..Len(names) : n # Len(names) =>
                IsJoin(JoinedFrom(names)[n], names[n], Comma, JoinedFrom(names)[n + 1])
         /\ Len(names) > 1 => names[Len(names)] # <<>>
<1>1. names \in Seq(Seq(S)) /\ names # <<>>
  BY DEF FitsARow, IsPartData
<1>2. Len(names) \in Nat /\ 1 \in 1..Len(names) /\ DOMAIN names = 1..Len(names)
  <2>1. Len(names) \in Nat /\ Len(names) # 0 /\ DOMAIN names = 1..Len(names)
    BY <1>1, LenProperties, EmptySeq
  <2>2. QED
    BY <2>1
<1>3. \A n \in 1..Len(names) : names[n] \in Seq(S)
  BY <1>1, <1>2, ElementOfSeq
<1>4. \A n \in 1..Len(names) : ~ Contains(names[n], Comma) /\ ~ Contains(names[n], Quote)
  BY <1>2 DEF FitsARow
<1>5. Len(names) > 1 => names[Len(names)] # <<>>
  BY DEF FitsARow
<1>6. Comma \in S
  BY SeparatorsAreCharacters
<1>7. \A n \in 1..Len(names) :
         /\ JoinedFrom(names)[n] \in Seq(S)
         /\ n = Len(names) => JoinedFrom(names)[n] = names[n]
         /\ n # Len(names) =>
               IsJoin(JoinedFrom(names)[n], names[n], Comma, JoinedFrom(names)[n + 1])
  <2>1. Len(names) \in Nat
    BY <1>2
  <2>2. QED
    BY <1>3, <1>6, <2>1, JoinedAreTexts, SMTT(60)
<1>8. Len(names) \in 1..Len(names)
  BY <1>2
<1>9. JoinedFrom(names)[Len(names)] = names[Len(names)]
  BY <1>7, <1>8
<1>10. QED
  BY <1>1, <1>2, <1>3, <1>4, <1>5, <1>7, <1>9

(***************************************************************************)
(* In a list, the quote is first behind the last name only; the last name  *)
(* ends at the quote, and every other at a comma.                          *)
(***************************************************************************)
ListRest(part) == <<Comma>> \o RowFrom(part, 6)

LEMMA NameIsTaken ==
  ASSUME NEW part, FitsARow(part), Len(part.identifier) > 1, Len(holder) < SizeMax,
         NEW m \in Nat, NamesRead(part, m), m # Len(part.identifier)
  PROVE  LET names == part.identifier
         IN /\ First(holder) # Quote /\ m + 1 \in 1..Len(names)
            /\ m + 1 = Len(names) =>
                  /\ Find(holder, Quote) < Find(holder, Comma)
                  /\ Substr(holder, 0, Find(holder, Quote)) = names[m + 1]
                  /\ IsJoin(Erase(holder, Find(holder, Quote)),
                            NamesFrom(names, m + 1), Quote, ListRest(part))
                  /\ Len(Erase(holder, Find(holder, Quote))) < SizeMax
            /\ m + 1 # Len(names) =>
                  /\ Find(holder, Comma) < Find(holder, Quote)
                  /\ Cell(holder) = names[m + 1]
                  /\ IsJoin(AfterCell(holder), NamesFrom(names, m + 1), Quote, ListRest(part))
                  /\ Len(AfterCell(holder)) < SizeMax
<1>1. PICK S, names, tail, name, text :
         /\ S = STRING /\ names = part.identifier /\ tail = ListRest(part)
         /\ name = names[m + 1] /\ text = holder
  OBVIOUS
<1>2. /\ Len(names) \in Nat /\ 1 \in 1..Len(names)
      /\ \A n \in 1..Len(names) : /\ names[n] \in Seq(S)
                                  /\ ~ Contains(names[n], Comma)
                                  /\ ~ Contains(names[n], Quote)
                                  /\ JoinedFrom(names)[n] \in Seq(S)
      /\ JoinedFrom(names)[Len(names)] = names[Len(names)]
      /\ \A n \in 1..Len(names) : n # Len(names) =>
                IsJoin(JoinedFrom(names)[n], names[n], Comma, JoinedFrom(names)[n + 1])
      /\ Len(names) > 1 => names[Len(names)] # <<>>
  BY <1>1, NamesOfAPart
<1>3. Comma \in S /\ Quote \in S /\ Comma # Quote
  BY <1>1, SeparatorsAreCharacters
<1>4. m + 1 \in 1..Len(names) /\ m \in 0..Len(names) /\ m # Len(names)
  BY <1>1, <1>2 DEF NamesRead
<1>5. IsJoin(text, JoinedFrom(names)[m + 1], Quote, tail)
  BY <1>1, <1>4 DEF NamesRead, NamesFrom, ListRest
<1>6. /\ name \in Seq(S) /\ ~ Contains(name, Comma) /\ ~ Contains(name, Quote)
      /\ JoinedFrom(names)[m + 1] \in Seq(S)
  BY <1>1, <1>2, <1>4
<1>7. tail \in Seq(S)
  <2>1. RowFrom(part, 6) \in Seq(S)
    BY <1>1, RowOfAPart
  <2>2. <<Comma>> \in Seq(S)
    BY <1>3, OneCharacter
  <2>3. QED
    BY <1>1, <2>1, <2>2, ConcatProperties DEF ListRest
<1>8. Len(text) < SizeMax
  BY <1>1
<1>9. CASE m + 1 = Len(names)
  <2>1. IsJoin(text, name, Quote, tail) /\ name # <<>>
    BY <1>1, <1>2, <1>5, <1>9
  <2>2. First(text) # Quote
    BY <1>3, <1>6, <1>7, <2>1, FirstOfAJoin
  <2>3. Find(text, Quote) = Len(name) /\ Find(text, Quote) < Find(text, Comma)
    BY <1>3, <1>6, <1>7, <1>8, <2>1, SeparatorIsFound
  <2>4. /\ Erase(text, Len(name)) = <<Quote>> \o tail
        /\ Erase(text, Len(name) + 1) = tail
        /\ Substr(text, 0, Len(name)) = name
        /\ ~ Contains(name, Quote) => Find(text, Quote) = Len(name)
    BY <1>3, <1>6, <1>7, <2>1, JoinIsTakenApart
  <2>5. IsJoin(<<Quote>> \o tail, <<>>, Quote, tail)
    BY <1>3, <1>7, NothingBefore
  <2>6. NamesFrom(names, m + 1) = <<>>
    BY <1>9 DEF NamesFrom
  <2>7. Len(<<Quote>> \o tail) < SizeMax
    <3>1. /\ text \in Seq(S) /\ Len(text) = Len(name) + 1 + Len(tail)
          /\ Len(name) \in Nat /\ Len(tail) \in Nat
          /\ \A n \in 1..Len(name) : text[n] = name[n]
          /\ text[Len(name) + 1] = Quote
          /\ \A n \in 1..Len(tail) : text[Len(name) + 1 + n] = tail[n]
          /\ text = name \o (<<Quote>> \o tail)
      BY <1>3, <1>6, <1>7, <2>1, PartsOfAJoin
    <3>2. <<Quote>> \in Seq(S) /\ Len(<<Quote>>) = 1
      BY <1>3, OneCharacter
    <3>3. Len(<<Quote>> \o tail) = 1 + Len(tail)
      BY <1>7, <3>2, ConcatProperties
    <3>4. QED
      BY <1>8, <3>1, <3>3 DEF SizeMax
  <2>8. QED
    BY <1>1, <1>4, <1>9, <2>2, <2>3, <2>4, <2>5, <2>6, <2>7
<1>10. CASE m + 1 # Len(names)
  <2>1. PICK next : next = JoinedFrom(names)[m + 2]
    OBVIOUS
  <2>2. m + 2 \in 1..Len(names) /\ (m + 1) + 1 = m + 2
    BY <1>2, <1>4, <1>10
  <2>3. next \in Seq(S) /\ IsJoin(JoinedFrom(names)[m + 1], name, Comma, next)
    BY <1>1, <1>2, <1>4, <1>10, <2>1, <2>2
  <2>4. PICK rest : rest = next \o <<Quote>> \o tail
    OBVIOUS
  <2>5. rest \in Seq(S) /\ IsJoin(rest, next, Quote, tail) /\ IsJoin(text, name, Comma, rest)
    BY <1>3, <1>5, <1>6, <1>7, <2>3, <2>4, JoinOfThree
  <2>6. First(text) # Quote
    BY <1>3, <1>6, <2>5, FirstOfAJoin
  <2>7. Find(text, Comma) < Find(text, Quote)
    BY <1>3, <1>6, <1>8, <2>5, SeparatorIsFound
  <2>8. Cell(text) = name /\ AfterCell(text) = rest /\ Len(rest) < SizeMax
    BY <1>3, <1>6, <1>8, <2>5, CellOfAJoin
  <2>9. NamesFrom(names, m + 1) = next
    BY <1>10, <2>1, <2>2 DEF NamesFrom
  <2>10. QED
    BY <1>1, <1>4, <1>10, <2>5, <2>6, <2>7, <2>8, <2>9
<1>11. QED
  BY <1>9, <1>10

LEMMA ListIsClosed ==
  ASSUME NEW part, FitsARow(part), NamesRead(part, Len(part.identifier)), Len(holder) < SizeMax
  PROVE  /\ First(holder) = Quote /\ Erase(holder, 2) = RowFrom(part, 6)
         /\ Len(RowFrom(part, 6)) < SizeMax
<1>1. PICK S, none, rest, tail, text :
         /\ S = STRING /\ none = <<>> /\ rest = RowFrom(part, 6) /\ tail = ListRest(part)
         /\ text = holder
  OBVIOUS
<1>2. Comma \in S /\ Quote \in S /\ rest \in Seq(S)
  BY <1>1, RowOfAPart
<1>3. none \in Seq(S) /\ Len(none) = 0 /\ ~ Contains(none, Quote)
  BY <1>1, EmptySeq DEF Contains
<1>4. tail = <<Comma>> \o rest /\ tail \in Seq(S)
  <2>1. <<Comma>> \in Seq(S)
    BY <1>2, OneCharacter
  <2>2. QED
    BY <1>1, <1>2, <2>1, ConcatProperties DEF ListRest
<1>5. IsJoin(text, none, Quote, tail)
  BY <1>1 DEF NamesRead, NamesFrom, ListRest
<1>6. First(text) = Quote
  BY <1>1, <1>2, <1>3, <1>4, <1>5, FirstOfAJoin
<1>7. Erase(text, Len(none) + 2) = rest /\ Len(rest) < Len(text)
  BY <1>2, <1>3, <1>4, <1>5, QuotedIsClosed
<1>8. Len(text) \in Nat /\ Len(rest) \in Nat
  <2>1. text \in Seq(S)
    BY <1>2, <1>3, <1>4, <1>5, PartsOfAJoin
  <2>2. QED
    BY <1>2, <2>1, LenProperties
<1>9. QED
  BY <1>1, <1>3, <1>6, <1>7, <1>8 DEF SizeMax

(***************************************************************************)
(* One identifier, or a list of several.                                   *)
(***************************************************************************)
LEMMA IdentifierCell ==
  ASSUME NEW part, FitsARow(part), Len(RowFrom(part, 5)) < SizeMax
  PROVE  LET names == part.identifier
             text == RowFrom(part, 5)
         IN /\ First(text) = Quote <=> Len(names) # 1
            /\ Len(names) = 1 => /\ Cell(text) = names[1]
                                 /\ AfterCell(text) = RowFrom(part, 6)
                                 /\ Len(AfterCell(text)) < SizeMax
            /\ Len(names) # 1 => /\ Len(names) > 1
                                 /\ IsJoin(Erase(text, 1), NamesFrom(names, 0), Quote, ListRest(part))
                                 /\ Len(Erase(text, 1)) < SizeMax
<1>1. PICK S, names, text, rest, joined :
         /\ S = STRING /\ names = part.identifier /\ text = RowFrom(part, 5)
         /\ rest = RowFrom(part, 6) /\ joined = JoinedFrom(names)[1]
  OBVIOUS
<1>2. /\ names \in Seq(Seq(S)) /\ Len(names) \in Nat /\ 1 \in 1..Len(names)
      /\ names[1] \in Seq(S) /\ ~ Contains(names[1], Comma) /\ ~ Contains(names[1], Quote)
      /\ joined \in Seq(S)
  BY <1>1, NamesOfAPart
<1>3. /\ Comma \in S /\ Quote \in S /\ rest \in Seq(S) /\ Comma # Quote
      /\ IsJoin(text, CellsOf(part)[5], Comma, rest)
  <2>1. 5 \in 1..8 /\ 5 \in 1..9 /\ 6 \in 1..9 /\ 5 + 1 = 6
    OBVIOUS
  <2>2. Comma # Quote
    BY SeparatorsAreCharacters
  <2>3. /\ Comma \in S /\ Quote \in S
        /\ \A n \in 1..9 : CellsOf(part)[n] \in Seq(S) /\ RowFrom(part, n) \in Seq(S)
        /\ \A n \in 1..8 : IsJoin(RowFrom(part, n), CellsOf(part)[n], Comma, RowFrom(part, n + 1))
    BY <1>1, RowOfAPart
  <2>4. QED
    BY <1>1, <2>1, <2>2, <2>3
<1>4. CellsOf(part)[5] = IF Len(names) = 1 THEN names[1] ELSE Quoted(joined)
  BY <1>1 DEF CellsOf
<1>5. Len(text) < SizeMax
  BY <1>1
<1>6. CASE Len(names) = 1
  <2>1. PICK name : name = names[1]
    OBVIOUS
  <2>2. IsJoin(text, name, Comma, rest) /\ name \in Seq(S)
        /\ ~ Contains(name, Comma) /\ ~ Contains(name, Quote)
    BY <1>2, <1>3, <1>4, <1>6, <2>1
  <2>3. First(text) # Quote
    BY <1>3, <2>2, FirstOfAJoin
  <2>4. Cell(text) = name /\ AfterCell(text) = rest /\ Len(rest) < SizeMax
    BY <1>3, <1>5, <2>2, CellOfAJoin
  <2>5. QED
    BY <1>1, <1>6, <2>1, <2>3, <2>4
<1>7. CASE Len(names) # 1
  <2>1. IsJoin(text, Quoted(joined), Comma, rest)
    BY <1>3, <1>4, <1>7
  <2>2. /\ First(text) = Quote
        /\ Erase(text, 1) \in Seq(S) /\ Len(Erase(text, 1)) < Len(text)
        /\ IsJoin(Erase(text, 1), joined, Quote, <<Comma>> \o rest)
        /\ <<Comma>> \o rest \in Seq(S)
    BY <1>2, <1>3, <2>1, QuotedIsOpened
  <2>3. NamesFrom(names, 0) = joined
    BY <1>1, <1>2 DEF NamesFrom
  <2>4. Len(Erase(text, 1)) < SizeMax
    <3>1. text \in Seq(S)
      <4>1. 5 \in 1..9
        OBVIOUS
      <4>2. \A n \in 1..9 : CellsOf(part)[n] \in Seq(S) /\ RowFrom(part, n) \in Seq(S)
        BY <1>1, RowOfAPart
      <4>3. QED
        BY <1>1, <4>1, <4>2
    <3>2. Len(text) \in Nat /\ Len(Erase(text, 1)) \in Nat
      BY <2>2, <3>1, LenProperties
    <3>3. QED
      BY <1>5, <2>2, <3>2 DEF SizeMax
  <2>5. Len(names) > 1
    <3>1. PICK count : count = Len(names)
      OBVIOUS
    <3>2. count \in Nat /\ 1 \in 1..count /\ count # 1
      BY <1>2, <1>7, <3>1
    <3>3. count > 1
      BY <3>2
    <3>4. QED
      BY <3>1, <3>3
  <2>6. QED
    BY <1>1, <1>7, <2>2, <2>3, <2>4, <2>5 DEF ListRest
<1>8. QED
  BY <1>6, <1>7

LEMMA OneIdentifierTells ==
  ASSUME BillInv, NEW part, FitsARow(part), ReadSoFar(part), OneIdentifier
  PROVE  ReadSoFar(part)'
<1>1. /\ billAt = "identifier" /\ billAt' = "description" /\ First(holder) # Quote
      /\ temp' = [temp EXCEPT !.identifier = Append(@, Cell(holder))]
      /\ holder' = AfterCell(holder)
  BY DEF OneIdentifier, Push
<1>2. AtACell(part) /\ Len(holder) < SizeMax
  BY <1>1 DEF ReadSoFar, InTheList
<1>3. holder = RowFrom(part, 5) /\ temp.identifier = <<>>
  BY <1>1, <1>2 DEF AtACell, ColumnOf
<1>4. /\ Len(part.identifier) = 1 /\ Cell(holder) = part.identifier[1]
      /\ holder' = RowFrom(part, 6) /\ Len(holder') < SizeMax
  BY <1>1, <1>2, <1>3, IdentifierCell
<1>5. Append(temp.identifier, Cell(holder)) = part.identifier
  <2>1. part.identifier \in Seq(Seq(STRING))
    BY DEF FitsARow, IsPartData
  <2>2. PICK names : names = part.identifier
    OBVIOUS
  <2>3. names = <<names[1]>>
    BY <1>4, <2>1, <2>2
  <2>4. QED
    BY <1>3, <1>4, <2>2, <2>3
<1>6. temp' = [temp EXCEPT ![billAt] = part[billAt]]
  BY <1>1, <1>5
<1>7. billAt' \in DOMAIN ColumnOf /\ ColumnOf[billAt'] = ColumnOf[billAt] + 1 /\ ColumnOf[billAt'] = 6
  BY <1>1 DEF ColumnOf
<1>8. QED
  BY <1>2, <1>4, <1>6, <1>7, CellIsTold

LEMMA OpenListTells ==
  ASSUME BillInv, NEW part, FitsARow(part), ReadSoFar(part), OpenList
  PROVE  ReadSoFar(part)'
<1>1. /\ billAt = "identifier" /\ billAt' = "list" /\ First(holder) = Quote
      /\ holder' = Erase(holder, 1) /\ temp' = temp
  BY DEF OpenList
<1>2. AtACell(part) /\ Len(holder) < SizeMax
  BY <1>1 DEF ReadSoFar, InTheList
<1>3. holder = RowFrom(part, 5) /\ temp.identifier = <<>> /\ CellsRead(part, 5)
  BY <1>1, <1>2 DEF AtACell, ColumnOf
<1>4. /\ Len(part.identifier) > 1
      /\ IsJoin(holder', NamesFrom(part.identifier, 0), Quote, ListRest(part))
      /\ Len(holder') < SizeMax
  BY <1>1, <1>2, <1>3, IdentifierCell
<1>5. NamesRead(part, 0)'
  <2>1. Len(part.identifier) \in Nat
    BY NamesOfAPart
  <2>2. 0 \in 0..Len(part.identifier) /\ Len(temp'.identifier) = 0
    BY <1>1, <1>3, <2>1
  <2>3. QED
    BY <1>4, <2>2 DEF NamesRead, ListRest, NamesFrom, RowFrom
<1>6. InTheList(part)'
  BY <1>1, <1>3, <1>4, <1>5 DEF InTheList, CellsRead
<1>7. QED
  BY <1>4, <1>6 DEF ReadSoFar

(***************************************************************************)
(* A name of the list is put behind those that are read.                   *)
(***************************************************************************)
LEMMA NameIsTold ==
  ASSUME BillInv, NEW part, FitsARow(part), Len(part.identifier) > 1, CellsRead(part, 5),
         NEW m \in Nat, NamesRead(part, m), m + 1 \in 1..Len(part.identifier),
         Push(part.identifier[m + 1]), billAt' = "list", Len(holder') < SizeMax,
         IsJoin(holder', NamesFrom(part.identifier, m + 1), Quote, ListRest(part))
  PROVE  ReadSoFar(part)'
<1>1. PICK names, list, name : /\ names = part.identifier /\ list = temp.identifier
                               /\ name = names[m + 1]
  OBVIOUS
<1>2. list \in Seq(Seq(STRING)) /\ name \in Seq(STRING)
  <2>1. list \in Seq(Seq(STRING))
    BY <1>1, BillFacts DEF IsPartData
  <2>2. name \in Seq(STRING)
    BY <1>1, NamesOfAPart
  <2>3. QED
    BY <2>1, <2>2
<1>3. "identifier" \in DOMAIN temp /\ DOMAIN temp = DOMAIN ColumnOf
  BY BillFacts DEF IsPartData, EmptyPart, ColumnOf
<1>4. /\ temp'.identifier = Append(list, name)
      /\ \A cell \in DOMAIN ColumnOf : cell # "identifier" => temp'[cell] = temp[cell]
  BY <1>1, <1>3 DEF Push
<1>5. /\ Len(list) = m /\ \A n \in 1..m : list[n] = names[n]
  BY <1>1 DEF NamesRead
<1>6. /\ Len(Append(list, name)) = m + 1
      /\ \A n \in 1..m + 1 : Append(list, name)[n] = names[n]
  <2>1. /\ Len(Append(list, name)) = Len(list) + 1
        /\ \A i \in 1..Len(list) : Append(list, name)[i] = list[i]
        /\ Append(list, name)[Len(list) + 1] = name
    BY <1>2, AppendProperties
  <2>2. \A n \in 1..m + 1 : n \in 1..m \/ n = m + 1
    OBVIOUS
  <2>3. QED
    BY <1>1, <1>5, <2>1, <2>2
<1>7. NamesRead(part, m + 1)'
  <2>1. m + 1 \in 0..Len(part.identifier)
    OBVIOUS
  <2>2. QED
    BY <1>1, <1>4, <1>6, <2>1 DEF NamesRead, ListRest, NamesFrom, RowFrom
<1>8. CellsRead(part, 5)'
  <2>1. \A cell \in DOMAIN ColumnOf : ColumnOf[cell] < 5 => cell # "identifier"
    BY DEF ColumnOf
  <2>2. QED
    BY <1>4, <2>1 DEF CellsRead
<1>9. InTheList(part)'
  <2>1. m + 1 \in Nat
    OBVIOUS
  <2>2. QED
    BY <1>7, <1>8, <2>1 DEF InTheList
<1>10. QED
  BY <1>9 DEF ReadSoFar

LEMMA ListTells ==
  ASSUME BillInv, NEW part, FitsARow(part), ReadSoFar(part),
         ListName \/ LastListName \/ PushThrows \/ CloseList
  PROVE  ReadSoFar(part)'
<1>1. billAt = "list"
  BY DEF ListName, LastListName, PushThrows, CloseList
<1>2. InTheList(part) /\ Len(holder) < SizeMax
  BY <1>1 DEF ReadSoFar, AtACell, ColumnOf
<1>3. PICK m \in Nat : NamesRead(part, m)
  BY <1>2 DEF InTheList
<1>4. PICK names : names = part.identifier
  OBVIOUS
<1>5. Len(names) > 1 /\ CellsRead(part, 5) /\ Len(names) \in Nat
  BY <1>2, <1>4, NamesOfAPart DEF InTheList
<1>6. CASE m = Len(names)
  <2>1. /\ First(holder) = Quote /\ Erase(holder, 2) = RowFrom(part, 6)
        /\ Len(RowFrom(part, 6)) < SizeMax
    BY <1>2, <1>3, <1>4, <1>6, ListIsClosed
  <2>2. billAt' = "description" /\ holder' = RowFrom(part, 6) /\ temp' = temp
    BY <2>1 DEF ListName, LastListName, PushThrows, CloseList
  <2>3. temp.identifier = names
    <3>1. PICK list : list = temp.identifier
      OBVIOUS
    <3>2. list \in Seq(Seq(STRING)) /\ names \in Seq(Seq(STRING))
      BY <1>4, <3>1, BillFacts DEF IsPartData, FitsARow
    <3>3. Len(list) = Len(names) /\ \A n \in 1..Len(list) : list[n] = names[n]
      BY <1>3, <1>4, <1>6, <3>1 DEF NamesRead
    <3>4. QED
      BY <3>1, <3>2, <3>3, SeqEqual
  <2>4. CellsRead(part, 6)
    <3>1. \A cell \in DOMAIN ColumnOf : ColumnOf[cell] < 6 => ColumnOf[cell] < 5 \/ cell = "identifier"
      BY DEF ColumnOf
    <3>2. QED
      BY <1>4, <1>5, <2>3, <3>1 DEF CellsRead
  <2>5. billAt' \in DOMAIN ColumnOf /\ ColumnOf[billAt'] = 6
    BY <2>2 DEF ColumnOf
  <2>6. AtACell(part)'
    BY <2>2, <2>4, <2>5 DEF AtACell, RowFrom, CellsRead
  <2>7. QED
    BY <2>1, <2>2, <2>6 DEF ReadSoFar
<1>7. CASE m # Len(names)
  <2>1. /\ First(holder) # Quote /\ m + 1 \in 1..Len(names)
        /\ m + 1 = Len(names) =>
              /\ Find(holder, Quote) < Find(holder, Comma)
              /\ Substr(holder, 0, Find(holder, Quote)) = names[m + 1]
              /\ IsJoin(Erase(holder, Find(holder, Quote)),
                        NamesFrom(names, m + 1), Quote, ListRest(part))
              /\ Len(Erase(holder, Find(holder, Quote))) < SizeMax
        /\ m + 1 # Len(names) =>
              /\ Find(holder, Comma) < Find(holder, Quote)
              /\ Cell(holder) = names[m + 1]
              /\ IsJoin(AfterCell(holder), NamesFrom(names, m + 1), Quote, ListRest(part))
              /\ Len(AfterCell(holder)) < SizeMax
    BY <1>2, <1>3, <1>4, <1>5, <1>7, NameIsTaken
  <2>2. Find(holder, Quote) \in Nat /\ Find(holder, Comma) \in Nat
    BY BillFacts, FindIsThere
  <2>3. CASE PushThrows
    BY <1>2, <2>3 DEF PushThrows, ReadSoFar
  <2>4. CASE ListName
    <3>1. m + 1 # Len(names)
      BY <2>1, <2>2, <2>4 DEF ListName
    <3>2. /\ Push(names[m + 1]) /\ billAt' = "list" /\ Len(holder') < SizeMax
          /\ IsJoin(holder', NamesFrom(names, m + 1), Quote, ListRest(part))
      BY <1>1, <2>1, <2>4, <3>1 DEF ListName
    <3>3. QED
      BY <1>3, <1>4, <1>5, <2>1, <3>2, NameIsTold
  <2>5. CASE LastListName
    <3>1. m + 1 = Len(names)
      BY <2>1, <2>2, <2>5 DEF LastListName
    <3>2. /\ Push(names[m + 1]) /\ billAt' = "list" /\ Len(holder') < SizeMax
          /\ IsJoin(holder', NamesFrom(names, m + 1), Quote, ListRest(part))
      BY <1>1, <2>1, <2>5, <3>1 DEF LastListName
    <3>3. QED
      BY <1>3, <1>4, <1>5, <2>1, <3>2, NameIsTold
  <2>6. QED
    BY <2>1, <2>3, <2>4, <2>5 DEF CloseList
<1>8. QED
  BY <1>6, <1>7

(***************************************************************************)
(* The description, in quotes if there is a comma in it.                   *)
(***************************************************************************)
LEMMA DescriptionCell ==
  ASSUME NEW part, FitsARow(part), Len(RowFrom(part, 6)) < SizeMax
  PROVE  LET text == RowFrom(part, 6)
             inner == Erase(text, 1)
         IN /\ First(text) # Quote =>
                  /\ Cell(text) = part.description
                  /\ AfterCell(text) = RowFrom(part, 7)
            /\ First(text) = Quote =>
                  /\ Substr(inner, 0, Find(inner, Quote)) = part.description
                  /\ Erase(inner, SizeT(Find(inner, Quote) + 2)) = RowFrom(part, 7)
            /\ Len(RowFrom(part, 7)) < SizeMax
<1>1. PICK S, words, text, rest : /\ S = STRING /\ words = part.description
                                  /\ text = RowFrom(part, 6) /\ rest = RowFrom(part, 7)
  OBVIOUS
<1>2. words \in Seq(S) /\ ~ Contains(words, Quote)
  BY <1>1 DEF FitsARow, IsPartData, EmptyPart
<1>3. /\ Comma \in S /\ Quote \in S /\ text \in Seq(S) /\ rest \in Seq(S) /\ Comma # Quote
      /\ IsJoin(text, CellsOf(part)[6], Comma, rest)
  <2>1. 6 \in 1..8 /\ 6 \in 1..9 /\ 7 \in 1..9 /\ 6 + 1 = 7
    OBVIOUS
  <2>2. Comma # Quote
    BY SeparatorsAreCharacters
  <2>3. /\ Comma \in S /\ Quote \in S
        /\ \A n \in 1..9 : CellsOf(part)[n] \in Seq(S) /\ RowFrom(part, n) \in Seq(S)
        /\ \A n \in 1..8 : IsJoin(RowFrom(part, n), CellsOf(part)[n], Comma, RowFrom(part, n + 1))
    BY <1>1, RowOfAPart
  <2>4. QED
    BY <1>1, <2>1, <2>2, <2>3
<1>4. CellsOf(part)[6] = IF Contains(words, Comma) THEN Quoted(words) ELSE words
  BY <1>1 DEF CellsOf
<1>5. Len(text) < SizeMax /\ Len(text) \in Nat /\ Len(rest) \in Nat
  BY <1>1, <1>3, LenProperties
<1>6. CASE ~ Contains(words, Comma)
  <2>1. IsJoin(text, words, Comma, rest)
    BY <1>3, <1>4, <1>6
  <2>2. First(text) # Quote
    BY <1>2, <1>3, <2>1, FirstOfAJoin
  <2>3. Cell(text) = words /\ AfterCell(text) = rest /\ Len(rest) < SizeMax
    BY <1>2, <1>3, <1>5, <1>6, <2>1, CellOfAJoin
  <2>4. QED
    BY <1>1, <2>2, <2>3
<1>7. CASE Contains(words, Comma)
  <2>1. IsJoin(text, Quoted(words), Comma, rest)
    BY <1>3, <1>4, <1>7
  <2>2. PICK inner, tail : inner = Erase(text, 1) /\ tail = <<Comma>> \o rest
    OBVIOUS
  <2>3. /\ First(text) = Quote
        /\ Erase(text, 1) \in Seq(S) /\ Len(Erase(text, 1)) < Len(text)
        /\ IsJoin(Erase(text, 1), words, Quote, <<Comma>> \o rest)
        /\ <<Comma>> \o rest \in Seq(S)
    BY <1>2, <1>3, <2>1, QuotedIsOpened
  <2>4. IsJoin(inner, words, Quote, tail) /\ tail \in Seq(S) /\ inner \in Seq(S)
        /\ Len(inner) < Len(text)
    BY <2>2, <2>3
  <2>5. /\ Erase(inner, Len(words)) = <<Quote>> \o tail
        /\ Erase(inner, Len(words) + 1) = tail
        /\ Substr(inner, 0, Len(words)) = words
        /\ ~ Contains(words, Quote) => Find(inner, Quote) = Len(words)
    BY <1>2, <1>3, <2>4, JoinIsTakenApart
  <2>6. Erase(inner, Len(words) + 2) = rest /\ Len(rest) < Len(inner)
    BY <1>2, <1>3, <2>2, <2>4, QuotedIsClosed
  <2>7. Len(inner) = Len(words) + 1 + Len(tail) /\ Len(tail) \in Nat /\ Len(words) \in Nat
        /\ Len(inner) \in Nat
    <3>1. Len(inner) = Len(words) + 1 + Len(tail) /\ Len(words) \in Nat /\ Len(tail) \in Nat
      BY <1>2, <1>3, <2>4, LengthOfAJoin
    <3>2. QED
      BY <3>1
  <2>8. Len(words) + 2 \in Nat /\ Len(words) + 2 <= SizeMax /\ Len(rest) < SizeMax
    BY <1>5, <2>4, <2>6, <2>7 DEF SizeMax
  <2>9. SizeT(Len(words) + 2) = Len(words) + 2
    BY <2>8, SizeOfALength
  <2>10. QED
    BY <1>1, <1>2, <2>2, <2>3, <2>5, <2>6, <2>8, <2>9
<1>8. QED
  BY <1>6, <1>7

LEMMA DescriptionTells ==
  ASSUME BillInv, NEW part, FitsARow(part), ReadSoFar(part),
         PlainDescription \/ QuotedDescription
  PROVE  ReadSoFar(part)'
<1>1. billAt = "description" /\ billAt' = "dni"
  BY DEF PlainDescription, QuotedDescription
<1>2. AtACell(part) /\ Len(holder) < SizeMax
  BY <1>1 DEF ReadSoFar, InTheList
<1>3. holder = RowFrom(part, 6)
  BY <1>1, <1>2 DEF AtACell, ColumnOf
<1>4. /\ temp' = [temp EXCEPT !.description = part.description]
      /\ holder' = RowFrom(part, 7) /\ Len(holder') < SizeMax
  BY <1>2, <1>3, DescriptionCell DEF PlainDescription, QuotedDescription
<1>5. billAt' \in DOMAIN ColumnOf /\ ColumnOf[billAt'] = ColumnOf[billAt] + 1 /\ ColumnOf[billAt'] = 7
  BY <1>1 DEF ColumnOf
<1>6. temp' = [temp EXCEPT ![billAt] = part[billAt]]
  BY <1>1, <1>4
<1>7. QED
  BY <1>2, <1>4, <1>5, <1>6, CellIsTold

(***************************************************************************)
(* The temperature completes the part.                                     *)
(***************************************************************************)
LEMMA StoredIsThePart ==
  ASSUME BillInv, NEW part, FitsARow(part), ReadSoFar(part), billAt = "maxTemp"
  PROVE  [temp EXCEPT !.maxTemp = holder] = part
<1>1. AtACell(part)
  BY DEF ReadSoFar, InTheList
<1>2. /\ holder = RowFrom(part, 9)
      /\ \A cell \in DOMAIN ColumnOf \ {"maxTemp"} : temp[cell] = part[cell]
  <2>1. /\ ColumnOf["maxTemp"] = 9
        /\ \A cell \in DOMAIN ColumnOf \ {"maxTemp"} : ColumnOf[cell] < 9
    BY DEF ColumnOf
  <2>2. QED
    BY <1>1, <2>1 DEF AtACell, CellsRead
<1>3. holder = part.maxTemp
  <2>1. CellsOf(part)[9] = part.maxTemp
    BY DEF CellsOf
  <2>2. QED
    BY <1>2, <2>1, RowOfAPart
<1>4. DOMAIN temp = DOMAIN ColumnOf /\ "maxTemp" \in DOMAIN ColumnOf
  BY BillFacts DEF IsPartData, EmptyPart, ColumnOf
<1>5. PICK stored : stored = [temp EXCEPT !.maxTemp = holder]
  OBVIOUS
<1>6. stored = [cell \in DOMAIN ColumnOf |-> part[cell]]
  BY <1>2, <1>3, <1>4, <1>5
<1>7. part = [cell \in DOMAIN ColumnOf |-> part[cell]]
  <2>1. DOMAIN part = DOMAIN ColumnOf /\ DOMAIN part = DOMAIN EmptyPart
    BY DEF FitsARow, IsPartData, EmptyPart, ColumnOf
  <2>2. part = [cell \in DOMAIN EmptyPart |-> part[cell]]
    BY DEF FitsARow
  <2>3. QED
    BY <2>1, <2>2
<1>8. QED
  BY <1>5, <1>6, <1>7

(***************************************************************************)
(* Parts that are stored stay as they are, while lines are read.           *)
(***************************************************************************)
LEMMA StoredPartsStay ==
  ASSUME BillInv, PartsStored, UNCHANGED <<billFile, billData>>,
         billLines' \in Nat, billLines <= billLines'
  PROVE  PartsStored'
<1>1. \A n : PartsIn(n)' = PartsIn(n)
  BY DEF PartsIn
<1>2. \A k, n : CompletesPart(k, n)' = CompletesPart(k, n)
  BY <1>1 DEF CompletesPart
<1>3. billLines \in Nat
  BY BillFacts
<1>4. \A k \in 1..billLines : k \in 1..billLines'
  BY <1>3
<1>5. QED
  BY <1>2, <1>4 DEF PartsStored, RowOf

LEMMA BackGetLine == ASSUME BillInv, BackInv, GetLine PROVE BackInv'
<1>1. /\ billAt = "line" /\ billLines < Len(billFile) /\ billLines' = billLines + 1
      /\ holder' = billFile[billLines + 1] /\ UNCHANGED <<billFile, temp, billData>>
      /\ billAt' \in {"item", "line"}
  BY DEF GetLine
<1>2. /\ billLines \in Nat /\ billLines' \in Nat /\ billLines <= billLines'
      /\ billLines + 1 \in DOMAIN billFile
  <2>1. billLines \in Nat /\ Len(billFile) \in Nat /\ DOMAIN billFile = 1..Len(billFile)
    BY BillFacts
  <2>2. QED
    BY <1>1, <2>1
<1>3. PartsStored'
  BY <1>1, <1>2, StoredPartsStay DEF BackInv
<1>4. ASSUME billAt' = "item", NEW part \in Parts, holder' = RowOf(part)
      PROVE  ReadSoFar(part)'
  <2>1. Len(holder') < SizeMax
    BY <1>1, <1>2 DEF BillInv, LinesAreShort
  <2>2. holder' = RowFrom(part, 1)
    BY <1>4 DEF RowOf, RowFrom
  <2>3. temp'.identifier = <<>>
    BY <1>1, EmptyPartIsAPart DEF BillInv, BillTypeOK
  <2>4. /\ ColumnOf["item"] = 1 /\ "item" \in DOMAIN ColumnOf
        /\ \A cell \in DOMAIN ColumnOf : ~ (ColumnOf[cell] < 1)
    BY DEF ColumnOf
  <2>5. AtACell(part)'
    BY <1>4, <2>2, <2>3, <2>4 DEF AtACell, CellsRead, RowFrom
  <2>6. QED
    BY <2>1, <2>5 DEF ReadSoFar
<1>5. PartsSoFar'
  <2>1. CurrentLine' = holder'
    BY <1>1 DEF CurrentLine
  <2>2. ~ BetweenLines' => billAt' = "item"
    BY <1>1 DEF BetweenLines
  <2>3. QED
    BY <1>4, <2>1, <2>2 DEF PartsSoFar, RowOf
<1>6. QED
  BY <1>3, <1>5 DEF BackInv

LEMMA BackWithinALine ==
  ASSUME BillInv, BackInv, [BillNext]_billVars,
         ~ (GetLine \/ EndOfFile \/ StorePart \/ UNCHANGED billVars)
  PROVE  BackInv'
<1>1. /\ ~ BetweenLines /\ UNCHANGED <<billFile, billLines, billData>>
  BY DEF BillNext, CopyCell, OneIdentifier, OpenList, ListName, LastListName, PushThrows,
         CloseList, PlainDescription, QuotedDescription, BetweenLines, Behind
<1>2. billLines \in Nat
  BY BillFacts
<1>3. PartsStored'
  BY <1>1, <1>2, StoredPartsStay DEF BackInv
<1>4. ASSUME NEW part \in Parts, CurrentLine = RowOf(part)
      PROVE  ReadSoFar(part)'
  <2>1. FitsARow(part)
    BY PartsAssumption
  <2>2. ReadSoFar(part)
    BY <1>1, <1>4 DEF BackInv, PartsSoFar
  <2>3. QED
    BY <2>1, <2>2, CopyCellTells, OneIdentifierTells, OpenListTells, ListTells,
       DescriptionTells DEF BillNext
<1>5. PartsSoFar'
  BY <1>1, <1>4 DEF PartsSoFar, CurrentLine, RowOf
<1>6. QED
  BY <1>3, <1>5 DEF BackInv

LEMMA BackStorePart == ASSUME BillInv, BackInv, StorePart PROVE BackInv'
<1>1. PICK stored : stored = [temp EXCEPT !.maxTemp = holder]
  OBVIOUS
<1>2. /\ billAt = "maxTemp" /\ billAt' = "line" /\ billData' = Append(billData, stored)
      /\ UNCHANGED <<billFile, billLines>>
  BY <1>1 DEF StorePart
<1>3. PartsSoFar'
  BY <1>2 DEF PartsSoFar, BetweenLines
<1>4. ~ BetweenLines /\ billLines \in Nat
  BY <1>2, BillFacts DEF BetweenLines
<1>5. ASSUME NEW part \in Parts, CurrentLine = RowOf(part)
      PROVE  stored = part
  <2>1. FitsARow(part) /\ ReadSoFar(part)
    BY <1>4, <1>5, PartsAssumption DEF BackInv, PartsSoFar
  <2>2. QED
    BY <1>1, <1>2, <2>1, StoredIsThePart
<1>6. PICK len \in Nat : /\ len = Len(billData) /\ DOMAIN billData = 1..len
                         /\ DOMAIN billData' = 1..len + 1
                         /\ \A n \in 1..len : billData'[n] = billData[n]
                         /\ billData'[len + 1] = stored
  <2>1. IsASequence(billData)
    BY DEF BillInv
  <2>2. QED
    BY <1>2, <2>1, SequenceGrows
<1>7. PartsStored'
  <2>1. \A k, n : CompletesPart(k, n)' = CompletesPart(k, n)
    BY <1>2 DEF CompletesPart, PartsIn
  <2>2. ASSUME NEW n \in 1..len
        PROVE  \E k \in 1..billLines :
                  /\ CompletesPart(k, n)
                  /\ \A part \in Parts : billFile[k] = RowOf(part) => billData'[n] = part
    BY <1>6 DEF BackInv, PartsStored
  <2>3. PartsIn(billLines) = len + 1 /\ billLines # 0 /\ IsPart(billFile[billLines])
    BY <1>4, <1>6 DEF BillInv, RowsCounted, CurrentLine
  <2>4. billLines \in 1..billLines /\ CompletesPart(billLines, len + 1)
    BY <1>4, <2>3, PartIsCompleted
  <2>5. \A part \in Parts : billFile[billLines] = RowOf(part) => billData'[len + 1] = part
    BY <1>5, <1>6 DEF CurrentLine
  <2>6. \A n \in 1..len + 1 : n \in 1..len \/ n = len + 1
    OBVIOUS
  <2>7. QED
    BY <1>2, <1>6, <2>1, <2>2, <2>4, <2>5, <2>6 DEF PartsStored, RowOf
<1>8. QED
  BY <1>3, <1>7 DEF BackInv

LEMMA BackInvBegins == ASSUME BillBegins PROVE BackInv
<1>1. DOMAIN billData = {}
  BY DEF BillBegins
<1>2. QED
  BY <1>1 DEF BillBegins, BackInv, PartsSoFar, PartsStored, BetweenLines

LEMMA BackInvStep == BillInv /\ BackInv /\ [BillNext]_billVars => BackInv'
<1> SUFFICES ASSUME BillInv, BackInv, [BillNext]_billVars
             PROVE  BackInv'
  OBVIOUS
<1>1. billLines \in Nat
  BY BillFacts
<1>2. CASE UNCHANGED billVars \/ EndOfFile
  <2>1. UNCHANGED <<billFile, billLines, holder, temp, billData>>
    BY <1>2 DEF billVars, EndOfFile
  <2>2. PartsStored'
    BY <1>1, <2>1, StoredPartsStay DEF BackInv
  <2>3. ASSUME ~ BetweenLines'
        PROVE  billAt' = billAt /\ ~ BetweenLines
    BY <1>2, <2>3 DEF BetweenLines, billVars, EndOfFile
  <2>4. PartsSoFar'
    BY <2>1, <2>3 DEF BackInv, PartsSoFar, CurrentLine, RowOf, ReadSoFar, AtACell, InTheList,
                      NamesRead, CellsRead, RowFrom, NamesFrom, IsJoin
  <2>5. QED
    BY <2>2, <2>4 DEF BackInv
<1>3. QED
  BY <1>2, BackGetLine, BackWithinALine, BackStorePart DEF BillNext

LEMMA BackInvTellsTheParts == ASSUME BillInv, BackInv PROVE PartsAreReadBack
<1>1. Len(billData) = PartsIn(billLines) - (IF billAt \in {"line", "done"} THEN 0 ELSE 1)
  <2>1. PICK S : billData \in Seq(S)
    BY DEF BillInv, IsASequence
  <2>2. Len(billData) \in Nat /\ PartsIn(billLines) \in Nat
    BY <2>1, BillFacts, LenProperties, PartsAreCounted
  <2>3. QED
    BY <2>2 DEF BillInv, RowsCounted, BetweenLines
<1>2. ASSUME NEW n \in DOMAIN billData, NEW part \in Parts, PartLine(n) = RowOf(part)
      PROVE  billData[n] = part
  <2>1. PICK k \in 1..billLines :
           /\ CompletesPart(k, n)
           /\ billFile[k] = RowOf(part) => billData[n] = part
    BY DEF BackInv, PartsStored
  <2>2. PartLine(n) = billFile[k]
    BY <2>1, BillFacts, LineOfAPart
  <2>3. QED
    BY <1>2, <2>1, <2>2
<1>3. QED
  BY <1>1, <1>2 DEF PartsAreReadBack
=========================================================================
