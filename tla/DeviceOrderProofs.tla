----------------------- MODULE DeviceOrderProofs ------------------------
(***************************************************************************)
(* Proofs about DeviceOrder, for every set of netlists: boards that can be *)
(* built and boards that cannot, of any size.                              *)
(***************************************************************************)
EXTENDS DeviceOrder, RelayTablesProofs

(***************************************************************************)
(* The first expander whose DIN is on a net is on it with its DIN.         *)
(***************************************************************************)
LEMMA FirstDinIsOnTheNet ==
  ASSUME NEW net \in Seq(Line), HasDin(net)
  PROVE  /\ \E j \in DOMAIN net : IsDin(net[j]) /\ net[j].identifier = FirstDin(net)
         /\ FirstDin(net) \in STRING
<1> DEFINE T == {j \in DOMAIN net : IsDin(net[j])}
           least(j) == /\ IsDin(net[j])
                       /\ \A m \in DOMAIN net : IsDin(net[m]) => j <= m
<1>1. T \subseteq Nat /\ T # {}
  BY LenProperties DEF HasDin
<1>2. \E j \in DOMAIN net : least(j)
  <2> HIDE DEF T
  <2>1. PICK x \in T : \A y \in T : x <= y
    BY <1>1, LeastElement
  <2>2. QED
    BY <2>1 DEF T
<1>3. PICK j : /\ j \in DOMAIN net
               /\ least(j)
               /\ FirstDin(net) = net[j].identifier
  <2> DEFINE first == CHOOSE j \in DOMAIN net : least(j)
  <2>1. first \in DOMAIN net /\ least(first)
    <3> HIDE DEF least
    <3>1. QED
      BY <1>2
  <2>2. FirstDin(net) = net[first].identifier
    BY DEF FirstDin
  <2>3. QED
    BY <2>1, <2>2
<1>4. net[j] \in Line
  BY <1>3, LenProperties, ElementOfSeq
<1>5. QED
  BY <1>3, <1>4 DEF Line
-------------------------------------------------------------------------
(***************************************************************************)
(* What it takes to build a board: a serial pin of an expander is on one   *)
(* net, so that the net tells the expander and the expander the net.       *)
(***************************************************************************)
LEMMA OneNetPerDin ==
  ASSUME NEW netlist \in Seq(Seq(Line)), OnePlacePerPin(netlist),
         NEW k \in DOMAIN netlist, NEW m \in DOMAIN netlist,
         HasDin(netlist[k]), HasDin(netlist[m]),
         FirstDin(netlist[k]) = FirstDin(netlist[m])
  PROVE  k = m
<1>1. netlist[k] \in Seq(Line) /\ netlist[m] \in Seq(Line)
  BY LenProperties, ElementOfSeq
<1>2. PICK j \in DOMAIN netlist[k] : /\ IsDin(netlist[k][j])
                                     /\ netlist[k][j].identifier = FirstDin(netlist[k])
  BY <1>1, FirstDinIsOnTheNet
<1>3. PICK n \in DOMAIN netlist[m] : /\ IsDin(netlist[m][n])
                                     /\ netlist[m][n].identifier = FirstDin(netlist[m])
  BY <1>1, FirstDinIsOnTheNet
<1>4. QED
  BY <1>2, <1>3 DEF OnePlacePerPin, IsDin

LEMMA OneNetPerDout ==
  ASSUME NEW netlist, OnePlacePerPin(netlist),
         NEW k \in DOMAIN netlist, NEW m \in DOMAIN netlist,
         NEW j \in DOMAIN netlist[k], NEW n \in DOMAIN netlist[m],
         IsDout(netlist[k][j]), IsDout(netlist[m][n]),
         netlist[k][j].identifier = netlist[m][n].identifier
  PROVE  k = m
BY DEF OnePlacePerPin, IsDout

(***************************************************************************)
(* Two expanders that drive the same one are the same.                     *)
(***************************************************************************)
LEMMA DrivenByOne ==
  ASSUME NEW netlist \in Seq(Seq(Line)), WellFormed(netlist),
         NEW x, NEW y, NEW z, Drives(netlist, x, z), Drives(netlist, y, z)
  PROVE  x = y
<1>1. PICK k \in DOMAIN netlist :
         /\ \E j \in DOMAIN netlist[k] :
               IsDout(netlist[k][j]) /\ netlist[k][j].identifier = x
         /\ HasDin(netlist[k]) /\ FirstDin(netlist[k]) = z
  BY DEF Drives
<1>2. PICK m \in DOMAIN netlist :
         /\ \E j \in DOMAIN netlist[m] :
               IsDout(netlist[m][j]) /\ netlist[m][j].identifier = y
         /\ HasDin(netlist[m]) /\ FirstDin(netlist[m]) = z
  BY DEF Drives
<1>3. k = m
  BY <1>1, <1>2, OneNetPerDin DEF WellFormed
<1>4. QED
  BY <1>1, <1>2, <1>3 DEF WellFormed, OneDriver

(***************************************************************************)
(* Nothing drives the expander that a source feeds.                        *)
(***************************************************************************)
LEMMA SourceIsNotDriven ==
  ASSUME NEW netlist \in Seq(Seq(Line)), WellFormed(netlist),
         NEW k \in DOMAIN netlist, IsSource(netlist[k]),
         NEW x, Drives(netlist, x, FirstDin(netlist[k]))
  PROVE  FALSE
<1>1. PICK m \in DOMAIN netlist :
         /\ \E j \in DOMAIN netlist[m] :
               IsDout(netlist[m][j]) /\ netlist[m][j].identifier = x
         /\ HasDin(netlist[m]) /\ FirstDin(netlist[m]) = FirstDin(netlist[k])
  BY DEF Drives
<1>2. k = m
  BY <1>1, OneNetPerDin DEF WellFormed, IsSource
<1>3. QED
  BY <1>1, <1>2 DEF IsSource, HasDout
-------------------------------------------------------------------------
(***************************************************************************)
(* The type invariant holds in every reachable state of getDeviceOrder.    *)
(* ioData is never shorter than what was found, since it begins with one   *)
(* element and gets another one before each expander but the first.        *)
(***************************************************************************)
RoomForFound == expanders <= Len(ioData) /\ Len(ioData) > 0
TypedWithRoom == OrderTypeOK /\ RoomForFound

LEMMA DefaultIOType == DefaultIO \in IO
BY TextsAreStrings DEF DefaultIO, IO

LEMMA StoreType ==
  ASSUME NEW io \in Seq(IO),
         expanders \in Nat, expanders < Len(io),
         NEW x \in STRING, Store(io, x)
  PROVE  /\ ioData' \in Seq(IO)
         /\ Len(ioData') = Len(io)
         /\ expanders' = expanders + 1
         /\ ioData'[expanders'] = [identifier |-> x, position |-> expanders']
         /\ \A n \in 1..Len(io) : n # expanders' => ioData'[n] = io[n]
<1> DEFINE e == [identifier |-> x, position |-> expanders + 1]
<1>1. e \in IO
  BY DEF IO
<1>2. expanders + 1 \in 1..Len(io)
  BY LenProperties
<1>3. ioData' = [io EXCEPT ![expanders + 1] = e] /\ expanders' = expanders + 1
  BY DEF Store
<1> HIDE DEF e
<1>4. /\ ioData' \in Seq(IO)
      /\ Len(ioData') = Len(io)
      /\ \A n \in 1..Len(io) : ioData'[n] = IF n = expanders + 1 THEN e ELSE io[n]
  BY <1>1, <1>2, <1>3, ExceptSeq
<1>5. QED
  BY <1>2, <1>3, <1>4 DEF e

(* What a step of the first loop that finds an expander leaves. *)
LEMMA FirstLinkStores ==
  ASSUME TypedWithRoom, expanders = 0, FirstLink
  PROVE  /\ TypedWithRoom'
         /\ expanders' = 1
         /\ ioData'[1] = [identifier |-> FirstDin(netlistData[i]), position |-> 1]
<1>1. netlistData[i] \in Seq(Line)
  BY LenProperties, ElementOfSeq DEF FirstLink, TypedWithRoom, OrderTypeOK
<1>2. FirstDin(netlistData[i]) \in STRING
  BY <1>1, FirstDinIsOnTheNet DEF FirstLink, IsSource
<1>3. /\ ioData' \in Seq(IO)
      /\ Len(ioData') = Len(ioData)
      /\ expanders' = expanders + 1
      /\ ioData'[expanders'] = [identifier |-> FirstDin(netlistData[i]),
                                position |-> expanders']
  BY <1>2, StoreType DEF FirstLink, TypedWithRoom, OrderTypeOK, RoomForFound
<1>4. QED
  BY <1>3, LenProperties DEF FirstLink, TypedWithRoom, OrderTypeOK, RoomForFound

(* What a step of the second loop that finds an expander leaves. *)
LEMMA FollowStores ==
  ASSUME TypedWithRoom, Follow
  PROVE  /\ TypedWithRoom'
         /\ expanders' = expanders + 1
         /\ ioData'[expanders'] = [identifier |-> FirstDin(netlistData[i]),
                                   position |-> expanders']
         /\ \A n \in 1..expanders : ioData'[n] = ioData[n]
         /\ Len(ioData') = Len(ioData) + 1
         /\ i \in DOMAIN netlistData /\ l \in DOMAIN netlistData[i]
<1> DEFINE io == Append(ioData, DefaultIO)
<1>1. /\ i \in DOMAIN netlistData
      /\ netlistData[i] \in Seq(Line)
      /\ l \in DOMAIN netlistData[i]
  <2>1. i \in DOMAIN netlistData /\ netlistData[i] \in Seq(Line)
    BY LenProperties, ElementOfSeq DEF Follow, AtLine, TypedWithRoom, OrderTypeOK
  <2>2. QED
    BY <2>1, LenProperties DEF Follow, AtLine, TypedWithRoom, OrderTypeOK
<1>2. FirstDin(netlistData[i]) \in STRING
  BY <1>1, FirstDinIsOnTheNet DEF Follow
<1>3. /\ io \in Seq(IO)
      /\ Len(io) = Len(ioData) + 1
      /\ \A n \in 1..Len(ioData) : io[n] = ioData[n]
  BY DefaultIOType, AppendProperties DEF TypedWithRoom, OrderTypeOK
<1>4. expanders \in Nat /\ expanders <= Len(ioData) /\ Len(ioData) \in Nat
  BY LenProperties DEF TypedWithRoom, OrderTypeOK, RoomForFound
<1>5. /\ ioData' \in Seq(IO)
      /\ Len(ioData') = Len(io)
      /\ expanders' = expanders + 1
      /\ ioData'[expanders'] = [identifier |-> FirstDin(netlistData[i]),
                                position |-> expanders']
      /\ \A n \in 1..Len(io) : n # expanders' => ioData'[n] = io[n]
  <2>1. Store(io, FirstDin(netlistData[i]))
    BY DEF Follow
  <2>2. expanders < Len(io)
    BY <1>3, <1>4
  <2> HIDE DEF io
  <2>3. QED
    BY <1>2, <1>3, <1>4, <2>1, <2>2, StoreType
<1> HIDE DEF io
<1>6. \A n \in 1..expanders : ioData'[n] = ioData[n]
  BY <1>3, <1>4, <1>5
<1>7. TypedWithRoom'
  BY <1>3, <1>4, <1>5 DEF Follow, TypedWithRoom, OrderTypeOK, RoomForFound
<1>8. QED
  BY <1>1, <1>3, <1>5, <1>6, <1>7
-------------------------------------------------------------------------
(* The state variables a step of the loops leaves alone, unless it finds   *)
(* an expander.                                                            *)
LEMMA TypedStep ==
  ASSUME TypedWithRoom, at = "first" => expanders = 0, [OrderNext]_orderVars
  PROVE  TypedWithRoom'
<1> USE DEF TypedWithRoom, OrderTypeOK, RoomForFound
<1>1. CASE FirstLink
  <2>1. expanders = 0
    BY <1>1 DEF FirstLink
  <2>2. QED
    BY <1>1, <2>1, FirstLinkStores
<1>2. CASE NotFirstLink
  BY <1>2 DEF NotFirstLink
<1>3. CASE NoFirstLink
  BY <1>3 DEF NoFirstLink
<1>4. CASE Follow
  BY <1>4, FollowStores
<1>5. CASE PushBackThrows
  BY <1>5 DEF PushBackThrows
<1>6. CASE LastDevice
  BY <1>6 DEF LastDevice
<1>7. CASE NextLine
  BY <1>7 DEF NextLine
<1>8. CASE Crash
  BY <1>8 DEF Crash
<1>9. CASE NextNet
  BY <1>9 DEF NextNet
<1>10. CASE NextPass
  BY <1>10 DEF NextPass
<1>11. CASE UNCHANGED orderVars
  BY <1>11 DEF orderVars
<1>12. QED
  BY <1>1, <1>2, <1>3, <1>4, <1>5, <1>6, <1>7, <1>8, <1>9, <1>10, <1>11
     DEF OrderNext

LEMMA TypedInit == OrderInit => TypedWithRoom
<1> SUFFICES ASSUME OrderInit
             PROVE  TypedWithRoom
  OBVIOUS
<1>1. netlistData \in Seq(Seq(Line))
  BY DeviceOrderAssumption DEF OrderInit, OrderBegins
<1>2. ioData \in Seq(IO) /\ Len(ioData) = 1
  BY DefaultIOType DEF OrderInit, OrderBegins
<1>3. QED
  BY <1>1, <1>2 DEF OrderInit, OrderBegins, TypedWithRoom, OrderTypeOK, RoomForFound
-------------------------------------------------------------------------
(***************************************************************************)
(* The inductive invariant.  The first loop has found nothing, and passed  *)
(* over no source; once it is over, an expander was found if the board has *)
(* a source, and the list begins with the one the first source feeds.      *)
(***************************************************************************)
SourcesPassed == at = "first" => /\ expanders = 0
                                 /\ \A k \in 1..i - 1 : ~ IsSource(netlistData[k])
FoundFromSource == at # "first" /\ expanders = 0 => ~ HasSource(netlistData)
OrderInv == /\ TypedWithRoom
            /\ SourcesPassed
            /\ FoundFromSource
            /\ FollowsTheWiring
            /\ EndsAtTerminator

(* A step that finds nothing and leaves the second loop, if at all,        *)
(* without returning.                                                      *)
LEMMA NothingFound ==
  ASSUME OrderInv, TypedWithRoom',
         UNCHANGED <<netlistData, ioData, expanders>>,
         at # "first", at' # "first", at' = "done" => at = "done"
  PROVE  OrderInv'
BY DEF OrderInv, SourcesPassed, FoundFromSource, FollowsTheWiring, EndsAtTerminator,
       Found

LEMMA OrderInvInit == OrderInit => OrderInv
<1> SUFFICES ASSUME OrderInit
             PROVE  OrderInv
  OBVIOUS
<1>1. TypedWithRoom
  BY TypedInit
<1>2. at = "first" /\ expanders = 0 /\ i = 1
  BY DEF OrderInit, OrderBegins
<1>3. QED
  BY <1>1, <1>2 DEF OrderInv, SourcesPassed, FoundFromSource, FollowsTheWiring,
                    EndsAtTerminator

LEMMA OrderInvStep == OrderInv /\ [OrderNext]_orderVars => OrderInv'
<1> SUFFICES ASSUME OrderInv, [OrderNext]_orderVars
             PROVE  OrderInv'
  OBVIOUS
<1>0. TypedWithRoom'
  BY TypedStep DEF OrderInv, SourcesPassed
<1>t. /\ netlistData \in Seq(Seq(Line)) /\ expanders \in Nat
      /\ i \in Nat \ {0} /\ l \in Nat \ {0}
      /\ DOMAIN netlistData = 1..Len(netlistData) /\ Len(netlistData) \in Nat
  BY LenProperties DEF OrderInv, TypedWithRoom, OrderTypeOK
<1>1. CASE FirstLink
  <2>1. /\ expanders = 0
        /\ i \in DOMAIN netlistData
        /\ IsFirstSource(netlistData, i)
        /\ at' = "chain" /\ netlistData' = netlistData
    BY <1>1, <1>t DEF FirstLink, OrderInv, SourcesPassed, IsFirstSource
  <2>2. /\ expanders' = 1
        /\ ioData'[1] = [identifier |-> FirstDin(netlistData[i]), position |-> 1]
    BY <1>1, <2>1, FirstLinkStores DEF OrderInv
  <2>3. FollowsTheWiring'
    BY <2>1, <2>2 DEF FollowsTheWiring, Found
  <2>4. QED
    BY <1>0, <2>1, <2>2, <2>3
       DEF OrderInv, SourcesPassed, FoundFromSource, EndsAtTerminator
<1>2. CASE NotFirstLink
  <2>1. \A k \in 1..i' - 1 : ~ IsSource(netlistData[k])
    <3>1. i' - 1 = i /\ \A k \in 1..i - 1 : ~ IsSource(netlistData[k])
      BY <1>2, <1>t DEF NotFirstLink, OrderInv, SourcesPassed
    <3>2. \A k \in 1..i : k \in 1..i - 1 \/ k = i
      BY <1>t
    <3>3. QED
      BY <1>2, <3>1, <3>2 DEF NotFirstLink
  <2>2. at' = "first" /\ expanders' = 0 /\ netlistData' = netlistData
    BY <1>2 DEF NotFirstLink, OrderInv, SourcesPassed
  <2>3. QED
    BY <1>0, <2>1, <2>2 DEF OrderInv, SourcesPassed, FoundFromSource,
                            FollowsTheWiring, EndsAtTerminator
<1>3. CASE NoFirstLink
  <2>1. ~ HasSource(netlistData)
    BY <1>3, <1>t DEF NoFirstLink, OrderInv, SourcesPassed, HasSource
  <2>2. at' = "chain" /\ expanders' = 0 /\ netlistData' = netlistData
    BY <1>3 DEF NoFirstLink, OrderInv, SourcesPassed
  <2>3. QED
    BY <1>0, <2>1, <2>2 DEF OrderInv, SourcesPassed, FoundFromSource,
                            FollowsTheWiring, EndsAtTerminator
<1>4. CASE Follow
  <2> DEFINE y == FirstDin(netlistData[i])
  <2>1. /\ expanders' = expanders + 1
        /\ ioData'[expanders'] = [identifier |-> y, position |-> expanders']
        /\ \A n \in 1..expanders : ioData'[n] = ioData[n]
        /\ i \in DOMAIN netlistData /\ l \in DOMAIN netlistData[i]
    BY <1>4, FollowStores DEF OrderInv
  <2>2. /\ at = "chain" /\ at' = "chain" /\ netlistData' = netlistData
        /\ HasDin(netlistData[i]) /\ IsDout(netlistData[i][l])
        /\ expanders > 0 => netlistData[i][l].identifier = ioData[expanders].identifier
    BY <1>4 DEF Follow, AtLine, MayBeLast
  <2>3. /\ Found'[expanders + 1] = y
        /\ \A n \in 1..expanders : Found[n] = ioData[n].identifier /\ Found'[n] = Found[n]
    <3>1. /\ expanders + 1 \in 1..expanders'
          /\ \A n \in 1..expanders : n \in 1..expanders'
      BY <1>t, <2>1
    <3>2. Found'[expanders + 1] = ioData'[expanders'].identifier
      BY <2>1, <3>1 DEF Found
    <3>3. \A n \in 1..expanders : /\ Found[n] = ioData[n].identifier
                                  /\ Found'[n] = ioData'[n].identifier
      BY <3>1 DEF Found
    <3> HIDE DEF y
    <3>4. QED
      BY <2>1, <3>2, <3>3
  <2>4. \A n \in 1..expanders' : ioData'[n].position = n
    <3>1. ioData'[expanders'].position = expanders'
      BY <2>1
    <3>2. \A n \in 1..expanders : ioData'[n].position = n
      BY <2>1 DEF OrderInv, FollowsTheWiring
    <3>3. \A n \in 1..expanders' : n \in 1..expanders \/ n = expanders'
      BY <1>t, <2>1
    <3>4. QED
      BY <3>1, <3>2, <3>3
  <2>5. \A n \in 1..expanders' - 1 : Drives(netlistData', Found'[n], Found'[n + 1])
    <3> SUFFICES ASSUME NEW n \in 1..expanders
                 PROVE  Drives(netlistData, Found'[n], Found'[n + 1])
      BY <1>t, <2>1, <2>2
    <3>1. CASE n = expanders
      <4>1. expanders > 0 /\ Found'[n] = netlistData[i][l].identifier /\ Found'[n + 1] = y
        BY <1>t, <2>2, <2>3, <3>1
      <4>2. QED
        BY <2>1, <2>2, <4>1 DEF Drives
    <3>2. CASE n # expanders
      <4>1. n \in 1..expanders - 1 /\ n + 1 \in 1..expanders
        BY <1>t, <3>2
      <4>2. QED
        BY <2>3, <4>1 DEF OrderInv, FollowsTheWiring
    <3>3. QED
      BY <3>1, <3>2
  <2>6. HasSource(netlistData) =>
          \E k \in DOMAIN netlistData : /\ IsFirstSource(netlistData, k)
                                        /\ FirstDin(netlistData[k]) = Found'[1]
    <3>1. HasSource(netlistData) => expanders > 0
      BY <1>t, <2>2 DEF OrderInv, FoundFromSource
    <3>2. QED
      BY <1>t, <2>3, <3>1 DEF OrderInv, FollowsTheWiring
  <2>7. FollowsTheWiring'
    BY <2>2, <2>4, <2>5, <2>6 DEF FollowsTheWiring
  <2>8. QED
    BY <1>0, <1>t, <2>1, <2>2, <2>7
       DEF OrderInv, SourcesPassed, FoundFromSource, EndsAtTerminator
<1>5. CASE PushBackThrows
  BY <1>0, <1>5, NothingFound DEF PushBackThrows, AtLine
<1>6. CASE LastDevice
  <2>1. i \in DOMAIN netlistData /\ l \in DOMAIN netlistData[i]
    <3>1. i \in DOMAIN netlistData /\ netlistData[i] \in Seq(Line)
      BY <1>6, <1>t, ElementOfSeq DEF LastDevice, AtLine
    <3>2. QED
      BY <1>6, <1>t, <3>1, LenProperties DEF LastDevice, AtLine
  <2>2. /\ at = "chain" /\ at' = "done"
        /\ UNCHANGED <<netlistData, ioData, expanders>>
        /\ ~ HasDin(netlistData[i]) /\ IsDout(netlistData[i][l])
        /\ expanders > 0 => netlistData[i][l].identifier = ioData[expanders].identifier
    BY <1>6 DEF LastDevice, AtLine, MayBeLast
  <2>3. FollowsTheWiring'
    BY <2>2 DEF OrderInv, FollowsTheWiring, Found
  <2>4. EndsAtTerminator'
    <3> SUFFICES ASSUME HasSource(netlistData)
                 PROVE  expanders > 0 /\ Terminated(netlistData, Found'[expanders])
      BY <2>2 DEF EndsAtTerminator
    <3>1. expanders > 0
      BY <1>t, <2>2 DEF OrderInv, FoundFromSource
    <3>2. Found'[expanders] = netlistData[i][l].identifier
      BY <1>t, <2>2, <3>1 DEF Found
    <3>3. QED
      BY <2>1, <2>2, <3>1, <3>2 DEF Terminated
  <2>5. QED
    BY <1>0, <2>2, <2>3, <2>4 DEF OrderInv, SourcesPassed, FoundFromSource
<1>7. CASE NextLine
  BY <1>0, <1>7, NothingFound DEF NextLine, AtLine
<1>8. CASE Crash
  BY <1>0, <1>8, NothingFound DEF Crash, AtLine
<1>9. CASE NextNet
  BY <1>0, <1>9, NothingFound DEF NextNet
<1>10. CASE NextPass
  BY <1>0, <1>10, NothingFound DEF NextPass
<1>11. CASE UNCHANGED orderVars
  BY <1>0, <1>11 DEF orderVars, OrderInv, SourcesPassed, FoundFromSource,
                     FollowsTheWiring, EndsAtTerminator, Found
<1>12. QED
  BY <1>1, <1>2, <1>3, <1>4, <1>5, <1>6, <1>7, <1>8, <1>9, <1>10, <1>11
     DEF OrderNext

LEMMA OrderInvariant == OrderSpec => []OrderInv
BY OrderInvInit, OrderInvStep, PTL DEF OrderSpec
-------------------------------------------------------------------------
(***************************************************************************)
(* For every set of netlists the type invariant holds, and ioData has an   *)
(* element for each expander that was found (Input.cpp:272, 314-321).      *)
(***************************************************************************)
THEOREM OrderTypeCorrect == OrderSpec => [](OrderTypeOK /\ RoomForFound)
<1>1. OrderInv => OrderTypeOK /\ RoomForFound
  BY DEF OrderInv, TypedWithRoom
<1>2. QED
  BY <1>1, OrderInvariant, PTL

(***************************************************************************)
(* The list is always a chain of the wiring, and begins with the expander  *)
(* the first source feeds.                                                 *)
(***************************************************************************)
THEOREM OrderFollowsTheWiring == OrderSpec => []FollowsTheWiring
<1>1. OrderInv => FollowsTheWiring
  BY DEF OrderInv
<1>2. QED
  BY <1>1, OrderInvariant, PTL

(***************************************************************************)
(* When getDeviceOrder returns on a board with a source, the chain is      *)
(* complete.                                                               *)
(***************************************************************************)
THEOREM ReturnsCompleteChain == OrderSpec => []EndsAtTerminator
<1>1. OrderInv => EndsAtTerminator
  BY DEF OrderInv
<1>2. QED
  BY <1>1, OrderInvariant, PTL

(***************************************************************************)
(* ioData[-1] is read on boards without a source only.                     *)
(***************************************************************************)
THEOREM ReadsInsideIoData == OrderSpec => []NoReadBeforeFirst
<1>1. OrderInv => NoReadBeforeFirst
  BY DEF OrderInv, FoundFromSource, NoReadBeforeFirst
<1>2. QED
  BY <1>1, OrderInvariant, PTL
-------------------------------------------------------------------------
(***************************************************************************)
(* On a board that can be built no expander is listed twice.  The one that *)
(* is found next cannot be the first in the list, which a source feeds and *)
(* nothing drives; nor a later one, since the one before that would drive  *)
(* the same expander as the last one does, and be listed twice already.    *)
(***************************************************************************)
LEMMA NoneTwiceStep ==
  OrderInv /\ OrderInv' /\ NoneTwice /\ [OrderNext]_orderVars => NoneTwice'
<1> SUFFICES ASSUME OrderInv, OrderInv', NoneTwice, [OrderNext]_orderVars,
                    WellFormed(netlistData'), HasSource(netlistData')
             PROVE  IsInjective(Found')
  BY DEF NoneTwice
<1>t. expanders \in Nat /\ netlistData \in Seq(Seq(Line))
  BY DEF OrderInv, TypedWithRoom, OrderTypeOK
<1>n. netlistData' = netlistData
  BY DEF OrderNext, orderVars, FirstLink, NotFirstLink, NoFirstLink, Follow,
         PushBackThrows, LastDevice, NextLine, Crash, NextNet, NextPass
<1>f. DOMAIN Found = 1..expanders /\ DOMAIN Found' = 1..expanders'
  BY DEF Found
<1>i. IsInjective(Found)
  BY <1>n DEF NoneTwice
<1>1. CASE Follow
  <2>1. /\ expanders' = expanders + 1
        /\ \A n \in 1..expanders : ioData'[n] = ioData[n]
    BY <1>1, FollowStores DEF OrderInv
  <2>2. \A n \in 1..expanders : Found'[n] = Found[n]
    BY <1>t, <2>1 DEF Found
  <2>3. ASSUME NEW m \in 1..expanders, Found'[m] = Found'[expanders + 1]
        PROVE  FALSE
    <3>1. expanders \in 1..expanders' - 1 /\ expanders' \in Nat
      BY <1>t, <2>1
    <3>2. Drives(netlistData, Found'[expanders], Found'[m])
      BY <1>n, <2>1, <2>3, <3>1 DEF OrderInv, FollowsTheWiring
    <3>3. CASE m = 1
      <4>1. PICK k \in DOMAIN netlistData : /\ IsFirstSource(netlistData, k)
                                            /\ FirstDin(netlistData[k]) = Found'[1]
        BY <1>n, <3>1 DEF OrderInv, FollowsTheWiring
      <4>2. QED
        BY <1>t, <1>n, <3>2, <3>3, <4>1, SourceIsNotDriven DEF IsFirstSource
    <3>4. CASE m # 1
      <4>1. m - 1 \in 1..expanders /\ m - 1 \in 1..expanders' - 1 /\ (m - 1) + 1 = m
        BY <1>t, <2>1, <3>4
      <4>2. Drives(netlistData, Found'[m - 1], Found'[m])
        BY <1>n, <4>1 DEF OrderInv, FollowsTheWiring
      <4>3. Found'[m - 1] = Found'[expanders]
        BY <1>t, <1>n, <3>2, <4>2, DrivenByOne
      <4>4. Found[m - 1] = Found[expanders]
        BY <1>t, <2>2, <4>1, <4>3
      <4>5. m - 1 = expanders
        BY <1>t, <1>f, <1>i, <4>1, <4>4 DEF IsInjective
      <4>6. QED
        BY <1>t, <4>5
    <3>5. QED
      BY <3>3, <3>4
  <2>4. ASSUME NEW a \in 1..expanders + 1, NEW b \in 1..expanders + 1,
               Found'[a] = Found'[b]
        PROVE  a = b
    <3>1. CASE a \in 1..expanders /\ b \in 1..expanders
      BY <1>f, <1>i, <2>2, <2>4, <3>1 DEF IsInjective
    <3>2. CASE a = expanders + 1 /\ b \in 1..expanders
      BY <2>3, <2>4, <3>2
    <3>3. CASE b = expanders + 1 /\ a \in 1..expanders
      BY <2>3, <2>4, <3>3
    <3>4. QED
      BY <1>t, <3>1, <3>2, <3>3
  <2>5. QED
    BY <1>f, <2>1, <2>4 DEF IsInjective
<1>2. CASE FirstLink
  <2>1. expanders' = 1
    BY <1>2, FirstLinkStores DEF FirstLink, OrderInv, SourcesPassed
  <2>2. QED
    BY <1>f, <2>1 DEF IsInjective
<1>3. CASE UNCHANGED <<ioData, expanders>>
  BY <1>i, <1>3 DEF Found
<1>4. QED
  BY <1>1, <1>2, <1>3 DEF OrderNext, orderVars, NotFirstLink, NoFirstLink,
     PushBackThrows, LastDevice, NextLine, Crash, NextNet, NextPass

(***************************************************************************)
(* The list has every expander once, on every board that can be built.     *)
(***************************************************************************)
THEOREM OrderIsInjective == OrderSpec => []NoneTwice
<1>1. OrderInit => NoneTwice
  BY DEF OrderInit, OrderBegins, NoneTwice, Found, IsInjective
<1>2. QED
  BY <1>1, NoneTwiceStep, OrderInvariant, PTL DEF OrderSpec
=========================================================================
