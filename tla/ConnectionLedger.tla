------------------------ MODULE ConnectionLedger ------------------------
(***************************************************************************)
(* What a client of MySQLConnectionPool (CIBData.h) may rely on, with      *)
(* everything that makes the pool concurrent left out: no queue order, no  *)
(* mutex, no condition variable.  A ledger of numbered connections: each   *)
(* is in stock, lent to one thread, or gone for ever; numbers are issued   *)
(* once, and never more than Limit of them.                                *)
(***************************************************************************)
EXTENDS Naturals

CONSTANTS Threads,  \* the threads that borrow connections
          Limit     \* how many connections may ever be opened

VARIABLES free,     \* connections in stock
          lent,     \* lent[t]: the connection thread t has, or None
          issued    \* how many connections were opened so far

ledgerVars == <<free, lent, issued>>

None == 0
Number == 1..Limit

Init == /\ free = {}
        /\ lent = [t \in Threads |-> None]
        /\ issued = 0

(* A new connection is put in stock. *)
Stock == /\ issued < Limit
         /\ issued' = issued + 1
         /\ free' = free \union {issued + 1}
         /\ UNCHANGED lent

(* The stock is closed: the program ends before it serves anybody. *)
CloseDown == /\ free' = {}
             /\ lent = [t \in Threads |-> None]
             /\ UNCHANGED <<lent, issued>>

(* A thread with no connection gets one from the stock ... *)
Lend(t, c) == /\ lent[t] = None
              /\ c \in free
              /\ free' = free \ {c}
              /\ lent' = [lent EXCEPT ![t] = c]
              /\ UNCHANGED issued

(* ... or a new one, that was never in stock. *)
LendNew(t) == /\ lent[t] = None
              /\ issued < Limit
              /\ issued' = issued + 1
              /\ lent' = [lent EXCEPT ![t] = issued + 1]
              /\ UNCHANGED free

(* The thread gives its connection back, or loses it: then nobody ever     *)
(* sees that connection again.                                             *)
GiveBack(t) == /\ lent[t] # None
               /\ free' = free \union {lent[t]}
               /\ lent' = [lent EXCEPT ![t] = None]
               /\ UNCHANGED issued

Lose(t) == /\ lent[t] # None
           /\ lent' = [lent EXCEPT ![t] = None]
           /\ UNCHANGED <<free, issued>>

Next == \/ Stock
        \/ CloseDown
        \/ \E t \in Threads : \/ \E c \in Number : Lend(t, c)
                              \/ LendNew(t)
                              \/ GiveBack(t)
                              \/ Lose(t)

Spec == Init /\ [][Next]_ledgerVars
=========================================================================
