------------------------- MODULE NetlistReader --------------------------
(***************************************************************************)
(* Input::getNetlistData: the lines of the netlist file, one per step, are *)
(* put into netlistData, a net for every run of lines with one name.  A    *)
(* file that cannot be opened is a file without lines.                     *)
(*                                                                         *)
(* The columns of a line are taken apart already, and toUpper has been     *)
(* applied.  The name of a line is the text before its first blank: "" if  *)
(* the line is empty or begins with a blank.  SpaceLine is the one line    *)
(* whose text is also the start value of comparator.                       *)
(***************************************************************************)
EXTENDS Netlist, SequencesExt

EmptyLine == [name |-> NoText, identifier |-> NoText, connection |-> NotDigits,
              device |-> NoText]
SpaceLine == [EmptyLine EXCEPT !.device = Blank]

(* The columns of a line: a blank has none. *)
Columns(holder) == IF holder = SpaceLine THEN EmptyLine ELSE holder

VARIABLES netlistFile,   \* the lines of the file
          linesRead,     \* how many of them have been read
          comparator,    \* the line before, or SpaceLine
          loopCounter    \* the net lines are added to, from 0

readerVars == <<netlistFile, linesRead, comparator, netlistData, loopCounter>>

ReaderBegins == /\ linesRead = 0
                /\ comparator = SpaceLine
                /\ netlistData = <<>>
                /\ loopCounter = 0

(* The line begins another net than the line before it. *)
StartsNet(holder) == comparator # SpaceLine /\ comparator.name # holder.name

(* A line is read: netlistData grows by an empty net for every line, and   *)
(* the columns go to the net loopCounter points at.                        *)
ReadLineForgettingIt ==
    /\ linesRead < Len(netlistFile)
    /\ LET holder == netlistFile[linesRead + 1]
       IN /\ loopCounter' = IF StartsNet(holder) THEN loopCounter + 1 ELSE loopCounter
          /\ netlistData' = [Append(netlistData, <<>>) EXCEPT
                                ![loopCounter' + 1] = Append(@, Columns(holder))]
    /\ linesRead' = linesRead + 1
    /\ UNCHANGED <<netlistFile, comparator>>
ReadLine ==
    /\ linesRead < Len(netlistFile)
    /\ LET holder == netlistFile[linesRead + 1]
       IN /\ loopCounter' = IF StartsNet(holder) THEN loopCounter + 1 ELSE loopCounter
          /\ netlistData' = [Append(netlistData, <<>>) EXCEPT
                                ![loopCounter' + 1] = Append(@, Columns(holder))]
          /\ comparator' = holder
    /\ linesRead' = linesRead + 1
    /\ UNCHANGED netlistFile

ReaderNext == ReadLine
-------------------------------------------------------------------------
(* Type invariant. *)
ReaderTypeOK == /\ netlistFile \in Seq(Line)
                /\ linesRead \in 0..Len(netlistFile)
                /\ comparator \in Line
                /\ netlistData \in Seq(Seq(Line))
                /\ loopCounter \in 0..Len(netlistData)

(* Every line of the file is in one net, in the order of the file, and the *)
(* nets beyond loopCounter are empty (Input.cpp:248-253): later passes     *)
(* over netlistData see each line once.  Two lines are in one net if and   *)
(* only if all the lines from the one to the other have one name; a blank  *)
(* in a line of its own is the exception, since comparator then looks as   *)
(* it does before the first line (Input.cpp:214-221).                      *)
Number(p) == Cardinality({q \in Places : Before(q, p)}) + 1
EveryLineOnce ==
    /\ Len(netlistData) = linesRead
    /\ Cardinality(Places) = linesRead
    /\ \A p \in Places : LineAt(p) = Columns(netlistFile[Number(p)])
    /\ \A n \in DOMAIN netlistData : netlistData[n] = <<>> <=> n > loopCounter + 1
OneName(m, n) == \A k \in m..n : netlistFile[k].name = netlistFile[m].name
OneNetPerRun ==
    /\ EveryLineOnce
    /\ (\A m \in 1..linesRead : netlistFile[m] # SpaceLine) =>
          \A p, q \in Places :
             Before(p, q) => (p[1] = q[1] <=> OneName(Number(p), Number(q)))
=========================================================================
