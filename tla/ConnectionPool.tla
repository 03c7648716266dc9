------------------------- MODULE ConnectionPool -------------------------
(***************************************************************************)
(* MySQLConnectionPool of CIBData.h: a queue of MySQL connections guarded  *)
(* by mutex_ and condition_, filled by the constructor with poolSize_      *)
(* connections and grown on demand by getConnection().                     *)
(*                                                                         *)
(* A connection is a number, given out in the order connections are        *)
(* opened, so that a connection that was closed and one that replaces it   *)
(* are told apart.  A critical section that neither waits nor calls the    *)
(* database is one action; getConnection() keeps mutex_ while it connects, *)
(* so connecting is a state of its own during which every other critical   *)
(* section is shut out.  The thread states are:                            *)
(*    out         not inside the pool, without a connection                *)
(*    waiting     asleep in condition_.wait                                *)
(*    notified    woken up, must take mutex_ again and look at pool_ again *)
(*    connecting  in createConnection(), with mutex_ held                  *)
(*    holding     returned from getConnection() with a connection          *)
(***************************************************************************)
EXTENDS Naturals, Sequences, FiniteSets, SequencesExt

CONSTANTS Threads,         \* the threads that run request handlers
          PoolSize,        \* the constructor's poolSize argument (main: 5)
          ConnectMayFail,  \* may createConnection() throw an SQLException?
          HandlerMayThrow  \* may a handler leave by an exception between
                           \* getConnection() and releaseConnection()?

ASSUME PoolAssumption == /\ IsFiniteSet(Threads)
                         /\ PoolSize \in Nat \ {0}
                         /\ ConnectMayFail \in BOOLEAN
                         /\ HandlerMayThrow \in BOOLEAN

VARIABLES phase,              \* of main: constructing, running, failed
          pool_,              \* the queue of idle connections
          activeConnections_, \* how many creations were started on demand
          at,                 \* at[t]: where thread t is, see above
          conn,               \* conn[t]: the connection t holds, or NoConn
          opened,             \* how many connections were opened so far
          closed              \* the connections whose deleter has run

poolVars == <<phase, pool_, activeConnections_, at, conn, opened, closed>>

NoConn == 0
ThreadState == {"out", "waiting", "notified", "connecting", "holding"}

Waiting  == {t \in Threads : at[t] = "waiting"}
Notified == {t \in Threads : at[t] = "notified"}

(* mutex_ can be taken: nobody is inside createConnection(), the only      *)
(* place where a thread keeps it over more than one step.                  *)
MutexFree == \A t \in Threads : at[t] # "connecting"

(* A thread that may enter the body of the while loop of getConnection():  *)
(* a new caller, or a waiter that was woken up and competes again.         *)
Contends(t) == /\ phase = "running"
               /\ at[t] \in {"out", "notified"}
               /\ MutexFree

(* The condition under which getConnection() opens a connection itself.    *)
MayGrowOneMore == activeConnections_ <= PoolSize
MayGrow == activeConnections_ < PoolSize
-------------------------------------------------------------------------
PoolInit == /\ phase = "constructing"
            /\ pool_ = <<>>
            /\ activeConnections_ = 0
            /\ at = [t \in Threads |-> "out"]
            /\ conn = [t \in Threads |-> NoConn]
            /\ opened = 0
            /\ closed = {}

(* One turn of the constructor's loop; after the last one main goes on to  *)
(* register the handlers and serve.                                        *)
Construct ==
    /\ phase = "constructing"
    /\ opened' = opened + 1
    /\ pool_' = Append(pool_, opened')
    /\ phase' = IF opened' = PoolSize THEN "running" ELSE "constructing"
    /\ UNCHANGED <<activeConnections_, at, conn, closed>>

(* createConnection() throws in the constructor: pool_ is destroyed, which *)
(* closes what it holds, and main returns 1.                               *)
ConstructThrows ==
    /\ ConnectMayFail
    /\ phase = "constructing"
    /\ phase' = "failed"
    /\ closed' = 1..opened
    /\ pool_' = <<>>
    /\ UNCHANGED <<activeConnections_, at, conn, opened>>

(* getConnection() finds pool_ not empty and takes its front. *)
TakePooledAndKeepIt(t) ==
    /\ Contends(t)
    /\ pool_ # <<>>
    /\ conn' = [conn EXCEPT ![t] = Head(pool_)]
    /\ at' = [at EXCEPT ![t] = "holding"]
    /\ UNCHANGED <<phase, pool_, activeConnections_, opened, closed>>
TakePooled(t) ==
    /\ Contends(t)
    /\ pool_ # <<>>
    /\ conn' = [conn EXCEPT ![t] = Head(pool_)]
    /\ pool_' = Tail(pool_)
    /\ at' = [at EXCEPT ![t] = "holding"]
    /\ UNCHANGED <<phase, activeConnections_, opened, closed>>

(* getConnection() finds pool_ empty and counts a new connection, before   *)
(* it tries to open it.                                                    *)
BeginCreate(t) ==
    /\ Contends(t)
    /\ pool_ = <<>>
    /\ MayGrow
    /\ activeConnections_' = activeConnections_ + 1
    /\ at' = [at EXCEPT ![t] = "connecting"]
    /\ UNCHANGED <<phase, pool_, conn, opened, closed>>

CreateOk(t) ==
    /\ at[t] = "connecting"
    /\ opened' = opened + 1
    /\ conn' = [conn EXCEPT ![t] = opened']
    /\ at' = [at EXCEPT ![t] = "holding"]
    /\ UNCHANGED <<phase, pool_, activeConnections_, closed>>

(* connect() or setSchema() throws: the exception leaves getConnection(),  *)
(* mutex_ is unlocked by the unwinding, and the count stays where it is.   *)
CreateThrows(t) ==
    /\ ConnectMayFail
    /\ at[t] = "connecting"
    /\ at' = [at EXCEPT ![t] = "out"]
    /\ UNCHANGED <<phase, pool_, activeConnections_, conn, opened, closed>>

(* getConnection() finds pool_ empty and may not grow: condition_.wait.    *)
Block(t) ==
    /\ Contends(t)
    /\ pool_ = <<>>
    /\ ~ MayGrow
    /\ at' = [at EXCEPT ![t] = "waiting"]
    /\ UNCHANGED <<phase, pool_, activeConnections_, conn, opened, closed>>

(* condition_.wait may return without a notification. *)
SpuriousWakeup(t) ==
    /\ at[t] = "waiting"
    /\ at' = [at EXCEPT ![t] = "notified"]
    /\ UNCHANGED <<phase, pool_, activeConnections_, conn, opened, closed>>

(* condition_.notify_one: one waiter, if there is any, must look again;    *)
(* t is the notifier, which leaves the pool.                               *)
NotifyNobody(t) == at' = [at EXCEPT ![t] = "out"]
NotifyOne(t) ==
    \/ /\ Waiting = {}
       /\ at' = [at EXCEPT ![t] = "out"]
    \/ \E w \in Waiting : at' = [at EXCEPT ![t] = "out", ![w] = "notified"]

(* releaseConnection(conn): push at the back and notify. *)
ReleaseToNobody(t) ==
    /\ at[t] = "holding"
    /\ MutexFree
    /\ conn' = [conn EXCEPT ![t] = NoConn]
    /\ closed' = closed \union {conn[t]}
    /\ NotifyOne(t)
    /\ UNCHANGED <<phase, pool_, activeConnections_, opened>>
ReleaseConnection(t) ==
    /\ at[t] = "holding"
    /\ MutexFree
    /\ pool_' = Append(pool_, conn[t])
    /\ conn' = [conn EXCEPT ![t] = NoConn]
    /\ NotifyOne(t)
    /\ UNCHANGED <<phase, activeConnections_, opened, closed>>

(* The handler leaves by an exception: the last shared_ptr to the          *)
(* connection goes, its deleter closes the connection, and the pool is     *)
(* told nothing.                                                           *)
DropUncounting(t) ==
    /\ at[t] = "holding"
    /\ closed' = closed \union {conn[t]}
    /\ activeConnections_' = activeConnections_ - 1
    /\ conn' = [conn EXCEPT ![t] = NoConn]
    /\ at' = [at EXCEPT ![t] = "out"]
    /\ UNCHANGED <<phase, pool_, opened>>
DropKeepingItPooled(t) ==
    /\ at[t] = "holding"
    /\ closed' = closed \union {conn[t]}
    /\ pool_' = Append(pool_, conn[t])
    /\ conn' = [conn EXCEPT ![t] = NoConn]
    /\ at' = [at EXCEPT ![t] = "out"]
    /\ UNCHANGED <<phase, activeConnections_, opened>>
Drop(t) ==
    /\ at[t] = "holding"
    /\ closed' = closed \union {conn[t]}
    /\ conn' = [conn EXCEPT ![t] = NoConn]
    /\ at' = [at EXCEPT ![t] = "out"]
    /\ UNCHANGED <<phase, pool_, activeConnections_, opened>>
-------------------------------------------------------------------------
(* The steps of getConnection(), from the call to its return. *)
GetConnection(t) == \/ TakePooled(t)
                    \/ BeginCreate(t)
                    \/ CreateOk(t)
                    \/ CreateThrows(t)
                    \/ Block(t)
                    \/ SpuriousWakeup(t)

PoolNext == \/ Construct
            \/ ConstructThrows
            \/ \E t \in Threads : \/ GetConnection(t)
                                  \/ ReleaseConnection(t)
                                  \/ HandlerMayThrow /\ Drop(t)

PoolSpec == PoolInit /\ [][PoolNext]_poolVars
-------------------------------------------------------------------------
(* Type invariant. *)
TypeOK == /\ phase \in {"constructing", "running", "failed"}
          /\ pool_ \in Seq(Nat)
          /\ activeConnections_ \in Nat
          /\ at \in [Threads -> ThreadState]
          /\ conn \in [Threads -> Nat]
          /\ opened \in Nat
          /\ closed \subseteq Nat

Pooled == ToSet(pool_)
Lent == {conn[t] : t \in Threads} \ {NoConn}

(* A connection has one owner: it is not in the queue twice, not held by   *)
(* two threads, not both queued and held, and once its deleter has run it  *)
(* is neither.  Two handlers that share a connection would interleave      *)
(* their statements on one MySQL session (CIBData.h:94-112).               *)
OneOwner == /\ IsInjective(pool_)
            /\ \A t, u \in Threads :
                  conn[t] = conn[u] /\ conn[t] # NoConn => t = u
            /\ Pooled \intersect Lent = {}
            /\ (Pooled \union Lent) \intersect closed = {}

(* No connection is forgotten: every one that was opened is queued, held   *)
(* by a thread that is using it, or closed.                                *)
AllAccountedFor == 1..opened = Pooled \union Lent \union closed

(* However requests, failures and wake-ups interleave, a process opens at  *)
(* most twice poolSize connections in its whole life: poolSize in the      *)
(* constructor and poolSize on demand, since activeConnections_ starts at  *)
(* zero beside a full queue and is never taken down (CIBData.h:97-98).     *)
OpenedBound == opened <= 2 * PoolSize

(* No wake-up is lost: while somebody is asleep in condition_.wait, every  *)
(* connection in the queue has a woken thread on its way to it, although   *)
(* callers that never slept may take connections first (CIBData.h:96-111). *)
NoLostWakeup == Waiting # {} => Len(pool_) <= Cardinality(Notified)

(* driver_->connect is never run by two threads at a time (CIBData.h:121). *)
OneConnecting == \A t, u \in Threads :
                    at[t] = "connecting" /\ at[u] = "connecting" => t = u

(* CIBData.h:140 and main.cpp:84 call poolSize_ the size of the pool: no   *)
(* more connections are open at a time than that.                          *)
OpenWithinPoolSize == Cardinality(1..opened \ closed) <= PoolSize

(* The pool as a ledger of connections. *)
Ledger == INSTANCE ConnectionLedger
             WITH Limit <- 2 * PoolSize,
                  free <- Pooled, lent <- conn, issued <- opened
LedgerSpec == Ledger!Spec
=========================================================================
