-------------------------- MODULE DeviceOrder ---------------------------
(***************************************************************************)
(* Input::getDeviceOrder: the order of the IO expanders along their daisy  *)
(* chain.  A first loop looks for an expander whose DIN is on a net        *)
(* without a DOUT; a second one passes over the whole netlist again and    *)
(* again, and follows the DOUT of the expander it found last, until a DOUT *)
(* has no DIN on its net.  One step is one net of the first loop, and one  *)
(* line of the second, at which the code may leave.                        *)
(*                                                                         *)
(* Before an expander is found, the second loop reads ioData[-1].  What is *)
(* there is not defined: the comparison may come out either way, or the    *)
(* program may end.                                                        *)
(***************************************************************************)
EXTENDS Netlist, SequencesExt

CONSTANTS Netlists,     \* the netlists getDeviceOrder may be called with
          MemoryLimit   \* elements ioData can have before push_back throws

(* The first loop uses two texts as marks in place of an identifier: ""    *)
(* for a net without a DIN so far, "OUTPUT" for a net with a DOUT.  No     *)
(* component of a board is called that.                                    *)
ASSUME DeviceOrderAssumption ==
    /\ Netlists \subseteq Seq(Seq(Line))
    /\ \A netlist \in Netlists : {"", "OUTPUT"} \intersect Identifiers(netlist) = {}
    /\ MemoryLimit \in Nat \ {0}

VARIABLES at,           \* first, chain, done, threw or crashed
          expanders,    \* how many of them were found
          i,            \* the net the loop is at, from 1
          l             \* the line of it the second loop is at, from 1

orderVars == <<at, netlistData, ioData, expanders, i, l>>

OrderBegins == /\ at = "first"
               /\ ioData = <<DefaultIO>>
               /\ expanders = 0
               /\ i = 1
               /\ l = 1
OrderInit == netlistData \in Netlists /\ OrderBegins

(* ioData[expanders] is filled in, and counted. *)
StoreFromZero(io, identifier) ==
    /\ ioData' = [io EXCEPT ![expanders + 1] =
                    [identifier |-> identifier, position |-> expanders]]
    /\ expanders' = expanders + 1
Store(io, identifier) ==
    /\ ioData' = [io EXCEPT ![expanders + 1] =
                    [identifier |-> identifier, position |-> expanders + 1]]
    /\ expanders' = expanders + 1

(* The first loop: a net with a DIN and no DOUT starts the chain. *)
FirstLinkOfAnyNet ==
    /\ at = "first"
    /\ i <= Len(netlistData)
    /\ HasDin(netlistData[i])
    /\ Store(ioData, FirstDin(netlistData[i]))
    /\ at' = "chain"
    /\ i' = 1
    /\ UNCHANGED <<netlistData, l>>
FirstLinkUncounted ==
    /\ at = "first"
    /\ i <= Len(netlistData)
    /\ IsSource(netlistData[i])
    /\ ioData' = [ioData EXCEPT ![1].identifier = FirstDin(netlistData[i])]
    /\ at' = "chain"
    /\ i' = 1
    /\ UNCHANGED <<netlistData, expanders, l>>
FirstLink ==
    /\ at = "first"
    /\ i <= Len(netlistData)
    /\ IsSource(netlistData[i])
    /\ Store(ioData, FirstDin(netlistData[i]))
    /\ at' = "chain"
    /\ i' = 1
    /\ UNCHANGED <<netlistData, l>>

NotFirstLink ==
    /\ at = "first"
    /\ i <= Len(netlistData)
    /\ ~ IsSource(netlistData[i])
    /\ i' = i + 1
    /\ UNCHANGED <<at, netlistData, ioData, expanders, l>>

NoFirstLink ==
    /\ at = "first"
    /\ i > Len(netlistData)
    /\ at' = "chain"
    /\ i' = 1
    /\ UNCHANGED <<netlistData, ioData, expanders, l>>
-------------------------------------------------------------------------
AtLine == at = "chain" /\ i <= Len(netlistData) /\ l <= Len(netlistData[i])

(* The comparison with ioData[expanders - 1].identifier. *)
MayBeLast(x) == expanders > 0 => x = ioData[expanders].identifier
MayDiffer(x) == expanders > 0 => x # ioData[expanders].identifier

(* Line l is the DOUT of the last expander, and its net has a DIN. *)
FollowsItself ==
    /\ AtLine
    /\ IsDout(netlistData[i][l])
    /\ MayBeLast(netlistData[i][l].identifier)
    /\ HasDin(netlistData[i])
    /\ Len(ioData) < MemoryLimit
    /\ Store(Append(ioData, DefaultIO), netlistData[i][l].identifier)
    /\ l' = l + 1
    /\ UNCHANGED <<at, netlistData, i>>
Follow ==
    /\ AtLine
    /\ IsDout(netlistData[i][l])
    /\ MayBeLast(netlistData[i][l].identifier)
    /\ HasDin(netlistData[i])
    /\ Len(ioData) < MemoryLimit
    /\ Store(Append(ioData, DefaultIO), FirstDin(netlistData[i]))
    /\ l' = l + 1
    /\ UNCHANGED <<at, netlistData, i>>

(* ... but there is no memory for another element of ioData. *)
PushBackThrows ==
    /\ AtLine
    /\ IsDout(netlistData[i][l])
    /\ MayBeLast(netlistData[i][l].identifier)
    /\ HasDin(netlistData[i])
    /\ Len(ioData) >= MemoryLimit
    /\ at' = "threw"
    /\ UNCHANGED <<netlistData, ioData, expanders, i, l>>

(* Line l is the DOUT of the last expander, and nothing follows it. *)
StopAtAnyDout ==
    /\ AtLine
    /\ IsDout(netlistData[i][l])
    /\ ~ HasDin(netlistData[i])
    /\ at' = "done"
    /\ UNCHANGED <<netlistData, ioData, expanders, i, l>>
LastDeviceUnlessLinked ==
    /\ AtLine
    /\ IsDout(netlistData[i][l])
    /\ MayBeLast(netlistData[i][l].identifier)
    /\ ~ HasDin(netlistData[i])
    /\ expanders <= 1
    /\ at' = "done"
    /\ UNCHANGED <<netlistData, ioData, expanders, i, l>>
LastDevice ==
    /\ AtLine
    /\ IsDout(netlistData[i][l])
    /\ MayBeLast(netlistData[i][l].identifier)
    /\ ~ HasDin(netlistData[i])
    /\ at' = "done"
    /\ UNCHANGED <<netlistData, ioData, expanders, i, l>>

NextLine ==
    /\ AtLine
    /\ IsDout(netlistData[i][l]) => MayDiffer(netlistData[i][l].identifier)
    /\ l' = l + 1
    /\ UNCHANGED <<at, netlistData, ioData, expanders, i>>

(* Reading in front of ioData ends the program. *)
Crash ==
    /\ AtLine
    /\ IsDout(netlistData[i][l])
    /\ expanders = 0
    /\ at' = "crashed"
    /\ UNCHANGED <<netlistData, ioData, expanders, i, l>>

NextNet ==
    /\ at = "chain"
    /\ i <= Len(netlistData)
    /\ l > Len(netlistData[i])
    /\ i' = i + 1
    /\ l' = 1
    /\ UNCHANGED <<at, netlistData, ioData, expanders>>

(* The pass is over and lastDevice is not set: another pass. *)
StopAfterOnePass ==
    /\ at = "chain"
    /\ i > Len(netlistData)
    /\ at' = "done"
    /\ UNCHANGED <<netlistData, ioData, expanders, i, l>>
NextPassFromZero ==
    /\ at = "chain"
    /\ i > Len(netlistData)
    /\ i' = 0
    /\ UNCHANGED <<at, netlistData, ioData, expanders, l>>
NextPass ==
    /\ at = "chain"
    /\ i > Len(netlistData)
    /\ i' = 1
    /\ UNCHANGED <<at, netlistData, ioData, expanders, l>>
-------------------------------------------------------------------------
OrderNext == \/ FirstLink \/ NotFirstLink \/ NoFirstLink
             \/ Follow \/ PushBackThrows \/ LastDevice \/ NextLine \/ Crash
             \/ NextNet \/ NextPass

OrderSpec == OrderInit /\ [][OrderNext]_orderVars

(* The loop runs: nothing it does waits for anybody. *)
FairOrderSpec == OrderSpec /\ WF_orderVars(OrderNext)
-------------------------------------------------------------------------
(* The expanders found so far, in order. *)
Found == [n \in 1..expanders |-> ioData[n].identifier]

(* Type invariant. *)
OrderTypeOK == /\ at \in {"first", "chain", "done", "threw", "crashed"}
               /\ netlistData \in Seq(Seq(Line))
               /\ ioData \in Seq(IO)
               /\ expanders \in Nat
               /\ i \in Nat \ {0}
               /\ l \in Nat \ {0}

(* The positions along ioData are those of the wiring: the first expander  *)
(* is fed by a net no expander drives, and each of the others by the one   *)
(* before it, whatever order the nets and their lines come in              *)
(* (Input.cpp:274-343).  Only when there is no first expander may the list *)
(* begin with another one.                                                 *)
FollowsTheWiring ==
    /\ \A n \in 1..expanders : ioData[n].position = n
    /\ \A n \in 1..expanders - 1 : Drives(netlistData, Found[n], Found[n + 1])
    /\ expanders > 0 /\ HasSource(netlistData) =>
          \E k \in DOMAIN netlistData : /\ IsFirstSource(netlistData, k)
                                        /\ FirstDin(netlistData[k]) = Found[1]

(* On a board that can be built and has a first expander, none is listed   *)
(* twice, so that two relays on different expanders get different device   *)
(* numbers (Input.cpp:310-325, Relay.cpp:94-100).                          *)
NoneTwice == WellFormed(netlistData) /\ HasSource(netlistData) => IsInjective(Found)

(* The list is complete when getDeviceOrder returns: the last expander in  *)
(* it has its DOUT on a net that leads nowhere (Input.cpp:326-330).        *)
EndsAtTerminator ==
    at = "done" /\ HasSource(netlistData) =>
       expanders > 0 /\ Terminated(netlistData, Found[expanders])

(* ioData[-1] is only read if no expander is fed from outside: the second  *)
(* loop begins with an expander, if there is one (Input.cpp:310).          *)
NoReadBeforeFirst == at \in {"chain", "crashed"} /\ expanders = 0
                        => ~ HasSource(netlistData)

(* Input.cpp:327: if no corresponding DIN is found the daisy chain is      *)
(* complete, and the loop is left.  On a board with a first expander whose *)
(* last DOUT is connected to nothing at all, no corresponding DIN is ever  *)
(* found.                                                                  *)
NoDinEndsTheChain ==
    at = "first" /\ WellFormed(netlistData) /\ HasSource(netlistData)
       ~> at = "done"
=========================================================================
