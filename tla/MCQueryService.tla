------------------------- MODULE MCQueryService -------------------------
(***************************************************************************)
(* Instances of QueryService for TLC: two event loops, or one, and three   *)
(* requests of which the first has the longest Configuration.csv.          *)
(***************************************************************************)
EXTENDS QueryService, TLC

CONSTANTS t1, t2, nowhere, r1, r2, r3

TwoLoops == {t1, t2}
OneLoop == {t1}

(* r1 and r3 come from clients of one loop, r2 from one of the other; r1   *)
(* and r2 alone; all three of one loop.                                    *)
BothLoops == {[r \in Requests |-> IF r = r2 THEN t2 ELSE t1]}
OneHome == [r \in Requests |-> t1]
OnlyOneLoop == {OneHome}
TwoOrAll == {[r \in Requests |-> CASE r = r1 -> t1 [] r = r2 -> t2 [] r = r3 -> nowhere],
             OneHome}

\* How many relays each request has.
TwoOneTwo == [r \in Requests |-> IF r = r2 THEN 1 ELSE 2]
TwoOneNone == [r \in Requests |-> CASE r = r1 -> 2 [] r = r2 -> 1 [] r = r3 -> 0]
OneEach == [r \in Requests |-> 1]
NoneEach == [r \in Requests |-> 0]

TwoRequests == {r1, r2}
ThreeRequests == {r1, r2, r3}

AllMishaps == Mishap
MishapsWithoutOutput ==
    {"badRequest", "nestedBody", "badInput", "endlessInput", "crash", "stop"}
OutputMishaps == {"csvWrite", "database"}
NoMishaps == {}
=========================================================================
