---------------------- MODULE ConnectionPoolProofs ----------------------
(***************************************************************************)
(* Proofs about ConnectionPool, for every set of threads and every pool    *)
(* size.                                                                   *)
(***************************************************************************)
EXTENDS ConnectionPool, FiniteSetTheorems, SequenceTheorems, TLAPS

(***************************************************************************)
(* The type invariant holds in every reachable state of the pool.          *)
(***************************************************************************)
THEOREM TypeCorrect == PoolSpec => []TypeOK
<1>1. PoolInit => TypeOK
  BY PoolAssumption DEF PoolInit, TypeOK, ThreadState, NoConn
<1>2. TypeOK /\ [PoolNext]_poolVars => TypeOK'
  <2> SUFFICES ASSUME TypeOK, [PoolNext]_poolVars
               PROVE  TypeOK'
    OBVIOUS
  <2> USE DEF TypeOK, ThreadState
  <2>1. CASE Construct
    BY <2>1 DEF Construct
  <2>2. CASE ConstructThrows
    BY <2>2 DEF ConstructThrows
  <2>3. ASSUME NEW t \in Threads, TakePooled(t)
        PROVE  TypeOK'
    <3>1. Head(pool_) \in Nat /\ Tail(pool_) \in Seq(Nat)
      BY <2>3, HeadTailProperties DEF TakePooled
    <3>2. QED
      BY <2>3, <3>1 DEF TakePooled
  <2>4. ASSUME NEW t \in Threads, BeginCreate(t)
        PROVE  TypeOK'
    BY <2>4 DEF BeginCreate
  <2>5. ASSUME NEW t \in Threads, CreateOk(t)
        PROVE  TypeOK'
    BY <2>5 DEF CreateOk
  <2>6. ASSUME NEW t \in Threads, CreateThrows(t)
        PROVE  TypeOK'
    BY <2>6 DEF CreateThrows
  <2>7. ASSUME NEW t \in Threads, Block(t)
        PROVE  TypeOK'
    BY <2>7 DEF Block
  <2>8. ASSUME NEW t \in Threads, SpuriousWakeup(t)
        PROVE  TypeOK'
    BY <2>8 DEF SpuriousWakeup
  <2>9. ASSUME NEW t \in Threads, ReleaseConnection(t)
        PROVE  TypeOK'
    <3>1. Append(pool_, conn[t]) \in Seq(Nat)
      OBVIOUS
    <3>2. at' \in [Threads -> ThreadState]
      BY <2>9 DEF ReleaseConnection, NotifyOne, Waiting
    <3>3. QED
      BY <2>9, <3>1, <3>2 DEF ReleaseConnection, NoConn
  <2>10. ASSUME NEW t \in Threads, Drop(t)
         PROVE  TypeOK'
    BY <2>10 DEF Drop, NoConn
  <2>11. CASE UNCHANGED poolVars
    BY <2>11 DEF poolVars
  <2>12. QED
    BY <2>1, <2>2, <2>3, <2>4, <2>5, <2>6, <2>7, <2>8, <2>9, <2>10, <2>11
       DEF PoolNext, GetConnection
<1>3. QED
  BY <1>1, <1>2, PTL DEF PoolSpec
-------------------------------------------------------------------------
(***************************************************************************)
(* Lemmas on the queue: what taking its front and appending to it do to    *)
(* its set of elements.                                                    *)
(***************************************************************************)
LEMMA FrontTaken ==
  ASSUME NEW s \in Seq(Nat), s # <<>>, IsInjective(s)
  PROVE  /\ ToSet(s) = ToSet(Tail(s)) \union {Head(s)}
         /\ Head(s) \notin ToSet(Tail(s))
         /\ IsInjective(Tail(s))
<1>1. /\ Len(s) \in Nat \ {0}
      /\ DOMAIN s = 1..Len(s)
      /\ Tail(s) \in Seq(Nat)
      /\ Len(Tail(s)) = Len(s) - 1
      /\ DOMAIN Tail(s) = 1..(Len(s) - 1)
      /\ \A i \in 1..(Len(s) - 1) : Tail(s)[i] = s[i + 1]
      /\ Head(s) = s[1]
  BY HeadTailProperties, LenProperties, EmptySeq
<1>2. IsInjective(Tail(s))
  BY <1>1 DEF IsInjective
<1>3. Head(s) \notin ToSet(Tail(s))
  BY <1>1 DEF IsInjective, ToSet
<1>4. ASSUME NEW i \in 1..Len(s)
      PROVE  s[i] \in ToSet(Tail(s)) \union {Head(s)}
  <2>1. CASE i = 1
    BY <2>1, <1>1
  <2>2. CASE i # 1
    <3>1. i - 1 \in 1..(Len(s) - 1) /\ (i - 1) + 1 = i
      BY <2>2, <1>1
    <3>2. Tail(s)[i - 1] = s[i]
      BY <3>1, <1>1
    <3>3. QED
      BY <3>1, <3>2, <1>1 DEF ToSet
  <2>3. QED
    BY <2>1, <2>2
<1>5. ASSUME NEW i \in 1..(Len(s) - 1)
      PROVE  Tail(s)[i] \in ToSet(s)
  BY <1>1 DEF ToSet
<1>6. Head(s) \in ToSet(s)
  BY <1>1 DEF ToSet
<1>7. QED
  BY <1>1, <1>2, <1>3, <1>4, <1>5, <1>6 DEF ToSet

LEMMA BackAdded ==
  ASSUME NEW s \in Seq(Nat), NEW e \in Nat
  PROVE  /\ ToSet(Append(s, e)) = ToSet(s) \union {e}
         /\ IsInjective(s) /\ e \notin ToSet(s) => IsInjective(Append(s, e))
<1>1. /\ Len(s) \in Nat
      /\ DOMAIN s = 1..Len(s)
      /\ DOMAIN Append(s, e) = 1..(Len(s) + 1)
      /\ \A i \in 1..Len(s) : Append(s, e)[i] = s[i]
      /\ Append(s, e)[Len(s) + 1] = e
  BY AppendProperties, LenProperties
<1>2. \A i \in 1..(Len(s) + 1) : i \in 1..Len(s) \/ i = Len(s) + 1
  BY <1>1
<1>3. ToSet(Append(s, e)) = ToSet(s) \union {e}
  BY <1>1, <1>2 DEF ToSet
<1>4. ASSUME IsInjective(s), e \notin ToSet(s)
      PROVE  IsInjective(Append(s, e))
  <2> SUFFICES ASSUME NEW i \in 1..(Len(s) + 1), NEW j \in 1..(Len(s) + 1),
                      Append(s, e)[i] = Append(s, e)[j]
               PROVE  i = j
    BY <1>1 DEF IsInjective
  <2>1. CASE i \in 1..Len(s) /\ j \in 1..Len(s)
    BY <2>1, <1>1, <1>4 DEF IsInjective
  <2>2. CASE i \in 1..Len(s) /\ j = Len(s) + 1
    BY <2>2, <1>1, <1>4 DEF ToSet
  <2>3. CASE i = Len(s) + 1 /\ j \in 1..Len(s)
    BY <2>3, <1>1, <1>4 DEF ToSet
  <2>4. QED
    BY <1>2, <2>1, <2>2, <2>3
<1>5. QED
  BY <1>3, <1>4
-------------------------------------------------------------------------
(***************************************************************************)
(* Ownership.  OneOwner and AllAccountedFor are not inductive alone: that  *)
(* a connection about to be queued is new to the queue needs that exactly  *)
(* the holding threads have one, and that a destroyed queue was the only   *)
(* place connections could be needs that nobody is served during           *)
(* construction.                                                           *)
(***************************************************************************)
HoldersHaveOne == \A t \in Threads : at[t] = "holding" <=> conn[t] # NoConn

NobodyServedYet == phase = "constructing" => /\ \A t \in Threads : at[t] = "out"
                                             /\ closed = {}

OwnershipInv == /\ TypeOK
                /\ OneOwner
                /\ AllAccountedFor
                /\ HoldersHaveOne
                /\ NobodyServedYet

(***************************************************************************)
(* A connection that is opened now was never seen before.                  *)
(***************************************************************************)
LEMMA NextNumberIsNew ==
  ASSUME OwnershipInv
  PROVE  /\ opened + 1 \notin Pooled \union Lent \union closed
         /\ 1..(opened + 1) = (1..opened) \union {opened + 1}
BY DEF OwnershipInv, AllAccountedFor, TypeOK

(***************************************************************************)
(* A thread without a connection that gets c, and a thread that gives up   *)
(* the one it has: what becomes of the set of lent connections.            *)
(***************************************************************************)
LEMMA LentToOne ==
  ASSUME TypeOK, NEW t \in Threads, conn[t] = NoConn,
         NEW c \in Nat \ {NoConn}, c \notin Lent,
         \A u, v \in Threads : conn[u] = conn[v] /\ conn[u] # NoConn => u = v,
         conn' = [conn EXCEPT ![t] = c]
  PROVE  /\ Lent' = Lent \union {c}
         /\ \A u, v \in Threads :
               conn'[u] = conn'[v] /\ conn'[u] # NoConn => u = v
<1>1. \A u \in Threads : conn'[u] = IF u = t THEN c ELSE conn[u]
  BY DEF TypeOK
<1>2. Lent' = {conn'[u] : u \in Threads} \ {NoConn}
  BY DEF Lent, NoConn
<1>3. Lent' = Lent \union {c}
  BY <1>1, <1>2 DEF Lent
<1>4. QED
  BY <1>1, <1>3 DEF Lent

LEMMA LentNoMore ==
  ASSUME TypeOK, NEW t \in Threads, conn[t] # NoConn,
         \A u, v \in Threads : conn[u] = conn[v] /\ conn[u] # NoConn => u = v,
         conn' = [conn EXCEPT ![t] = NoConn]
  PROVE  /\ Lent = Lent' \union {conn[t]}
         /\ conn[t] \notin Lent'
         /\ \A u, v \in Threads :
               conn'[u] = conn'[v] /\ conn'[u] # NoConn => u = v
<1>1. \A u \in Threads : conn'[u] = IF u = t THEN NoConn ELSE conn[u]
  BY DEF TypeOK
<1>2. Lent' = {conn'[u] : u \in Threads} \ {NoConn}
  BY DEF Lent, NoConn
<1>3. QED
  BY <1>1, <1>2 DEF Lent

(***************************************************************************)
(* Every step of the pool preserves the ownership invariant.               *)
(***************************************************************************)
LEMMA OwnershipStep == OwnershipInv /\ TypeOK' /\ [PoolNext]_poolVars => OwnershipInv'
<1> SUFFICES ASSUME OwnershipInv, TypeOK', [PoolNext]_poolVars
             PROVE  OneOwner' /\ AllAccountedFor' /\ HoldersHaveOne' /\ NobodyServedYet'
  BY DEF OwnershipInv
<1>a. /\ TypeOK /\ OneOwner /\ AllAccountedFor
      /\ HoldersHaveOne /\ NobodyServedYet
  BY DEF OwnershipInv
<1>b. NoConn = 0 /\ NoConn' = 0
  BY DEF NoConn
<1>c. ASSUME NEW c, c \in Pooled \union Lent
      PROVE  c \in Nat \ {NoConn}
  BY <1>a, <1>b, <1>c DEF AllAccountedFor, TypeOK
<1>1. CASE Construct
  <2>1. /\ opened' = opened + 1
        /\ pool_' = Append(pool_, opened + 1)
        /\ UNCHANGED <<at, conn, closed>>
        /\ phase = "constructing"
    BY <1>1 DEF Construct
  <2>2. Pooled' = Pooled \union {opened + 1} /\ IsInjective(pool_')
    BY <2>1, <1>a, NextNumberIsNew, BackAdded DEF Pooled, OneOwner, TypeOK
  <2>3. Lent' = Lent
    BY <2>1 DEF Lent, NoConn
  <2>4. OneOwner'
    BY <2>1, <2>2, <2>3, <1>a, NextNumberIsNew DEF OneOwner, NoConn
  <2>5. AllAccountedFor'
    BY <2>1, <2>2, <2>3, <1>a, NextNumberIsNew DEF AllAccountedFor
  <2>6. HoldersHaveOne' /\ NobodyServedYet'
    BY <2>1, <1>a DEF HoldersHaveOne, NobodyServedYet, NoConn
  <2>7. QED
    BY <2>4, <2>5, <2>6
<1>2. CASE ConstructThrows
  <2>1. /\ phase = "constructing" /\ phase' = "failed"
        /\ closed' = 1..opened
        /\ pool_' = <<>>
        /\ UNCHANGED <<at, conn, opened>>
    BY <1>2 DEF ConstructThrows
  <2>2. Pooled' = {} /\ IsInjective(pool_')
    BY <2>1 DEF Pooled, ToSet, IsInjective
  <2>3. \A t \in Threads : conn[t] = NoConn
    BY <2>1, <1>a DEF HoldersHaveOne, NobodyServedYet
  <2>4. Lent' = {}
    BY <2>1, <2>3 DEF Lent, NoConn
  <2>5. QED
    BY <2>1, <2>2, <2>3, <2>4, <1>a
       DEF OneOwner, AllAccountedFor, HoldersHaveOne, NobodyServedYet, NoConn
<1>3. ASSUME NEW t \in Threads, TakePooled(t)
      PROVE  OneOwner' /\ AllAccountedFor' /\ HoldersHaveOne' /\ NobodyServedYet'
  <2>1. /\ pool_ # <<>> /\ pool_' = Tail(pool_)
        /\ conn' = [conn EXCEPT ![t] = Head(pool_)]
        /\ at' = [at EXCEPT ![t] = "holding"]
        /\ UNCHANGED <<phase, opened, closed>>
        /\ phase = "running"
        /\ at[t] # "holding"
    BY <1>3 DEF TakePooled, Contends
  <2>2. /\ Pooled = Pooled' \union {Head(pool_)}
        /\ Head(pool_) \notin Pooled'
        /\ IsInjective(pool_')
    BY <2>1, <1>a, FrontTaken DEF Pooled, OneOwner, TypeOK
  <2>3. conn[t] = NoConn
    BY <2>1, <1>a DEF HoldersHaveOne
  <2>4. Head(pool_) \in Nat \ {NoConn} /\ Head(pool_) \notin Lent
    BY <2>2, <1>a, <1>c DEF OneOwner
  <2>5. /\ Lent' = Lent \union {Head(pool_)}
        /\ \A u, v \in Threads :
              conn'[u] = conn'[v] /\ conn'[u] # NoConn => u = v
    BY <2>1, <2>3, <2>4, <1>a, LentToOne DEF OneOwner
  <2>6. OneOwner'
    BY <2>1, <2>2, <2>4, <2>5, <1>a DEF OneOwner, NoConn
  <2>7. AllAccountedFor'
    BY <2>1, <2>2, <2>5, <1>a DEF AllAccountedFor
  <2>8. HoldersHaveOne' /\ NobodyServedYet'
    BY <2>1, <2>4, <1>a DEF HoldersHaveOne, NobodyServedYet, NoConn, TypeOK
  <2>9. QED
    BY <2>6, <2>7, <2>8
<1>4. ASSUME NEW t \in Threads,
             \/ BeginCreate(t) \/ CreateThrows(t) \/ Block(t) \/ SpuriousWakeup(t)
      PROVE  OneOwner' /\ AllAccountedFor' /\ HoldersHaveOne' /\ NobodyServedYet'
  <2>1. /\ UNCHANGED <<phase, pool_, conn, opened, closed>>
        /\ at[t] # "holding"
        /\ \E s \in ThreadState \ {"holding"} : at' = [at EXCEPT ![t] = s]
        /\ phase = "constructing" => FALSE
    BY <1>4, <1>a
       DEF BeginCreate, CreateThrows, Block, SpuriousWakeup, Contends,
           ThreadState, NobodyServedYet
  <2>2. QED
    BY <2>1, <1>a DEF OneOwner, AllAccountedFor, HoldersHaveOne, NobodyServedYet,
                      Pooled, Lent, NoConn, TypeOK
<1>5. ASSUME NEW t \in Threads, CreateOk(t)
      PROVE  OneOwner' /\ AllAccountedFor' /\ HoldersHaveOne' /\ NobodyServedYet'
  <2>1. /\ at[t] = "connecting"
        /\ opened' = opened + 1
        /\ conn' = [conn EXCEPT ![t] = opened + 1]
        /\ at' = [at EXCEPT ![t] = "holding"]
        /\ UNCHANGED <<phase, pool_, closed>>
    BY <1>5 DEF CreateOk
  <2>2. Pooled' = Pooled /\ conn[t] = NoConn
    BY <2>1, <1>a DEF Pooled, HoldersHaveOne
  <2>3. opened + 1 \in Nat \ {NoConn} /\ opened + 1 \notin Lent
    BY <1>a, <1>b, NextNumberIsNew DEF TypeOK
  <2>4. /\ Lent' = Lent \union {opened + 1}
        /\ \A u, v \in Threads :
              conn'[u] = conn'[v] /\ conn'[u] # NoConn => u = v
    BY <2>1, <2>2, <2>3, <1>a, LentToOne DEF OneOwner
  <2>5. OneOwner'
    BY <2>1, <2>2, <2>4, <1>a, NextNumberIsNew DEF OneOwner, NoConn
  <2>6. AllAccountedFor'
    BY <2>1, <2>2, <2>4, <1>a, NextNumberIsNew DEF AllAccountedFor
  <2>7. HoldersHaveOne' /\ NobodyServedYet'
    BY <2>1, <2>3, <1>a DEF HoldersHaveOne, NobodyServedYet, NoConn, TypeOK
  <2>8. QED
    BY <2>5, <2>6, <2>7
<1>6. ASSUME NEW t \in Threads, ReleaseConnection(t)
      PROVE  OneOwner' /\ AllAccountedFor' /\ HoldersHaveOne' /\ NobodyServedYet'
  <2>1. /\ at[t] = "holding"
        /\ pool_' = Append(pool_, conn[t])
        /\ conn' = [conn EXCEPT ![t] = NoConn]
        /\ UNCHANGED <<phase, opened, closed>>
    BY <1>6 DEF ReleaseConnection
  <2>2. conn[t] \in Lent /\ conn[t] # NoConn /\ conn[t] \in Nat
    BY <2>1, <1>a DEF HoldersHaveOne, Lent, TypeOK
  <2>3. Pooled' = Pooled \union {conn[t]} /\ IsInjective(pool_')
    BY <2>1, <2>2, <1>a, BackAdded DEF Pooled, OneOwner, TypeOK
  <2>4. /\ Lent = Lent' \union {conn[t]}
        /\ conn[t] \notin Lent'
        /\ \A u, v \in Threads :
              conn'[u] = conn'[v] /\ conn'[u] # NoConn => u = v
    BY <2>1, <2>2, <1>a, LentNoMore DEF OneOwner
  <2>5. OneOwner'
    BY <2>1, <2>3, <2>4, <1>a DEF OneOwner, NoConn
  <2>6. AllAccountedFor'
    BY <2>1, <2>3, <2>4, <1>a DEF AllAccountedFor
  <2>7. \A u \in Threads : /\ u = t => at'[u] = "out"
                           /\ u # t => (at'[u] = "holding" <=> at[u] = "holding")
    BY <1>6, <1>a DEF ReleaseConnection, NotifyOne, Waiting, TypeOK
  <2>8. phase # "constructing"
    BY <2>1, <1>a DEF NobodyServedYet
  <2>9. HoldersHaveOne' /\ NobodyServedYet'
    BY <2>1, <2>7, <2>8, <1>a DEF HoldersHaveOne, NobodyServedYet, NoConn, TypeOK
  <2>10. QED
    BY <2>5, <2>6, <2>9
<1>7. ASSUME NEW t \in Threads, Drop(t)
      PROVE  OneOwner' /\ AllAccountedFor' /\ HoldersHaveOne' /\ NobodyServedYet'
  <2>1. /\ at[t] = "holding"
        /\ closed' = closed \union {conn[t]}
        /\ conn' = [conn EXCEPT ![t] = NoConn]
        /\ at' = [at EXCEPT ![t] = "out"]
        /\ UNCHANGED <<phase, pool_, opened>>
    BY <1>7 DEF Drop
  <2>2. conn[t] \in Lent /\ conn[t] # NoConn
    BY <2>1, <1>a DEF HoldersHaveOne, Lent
  <2>3. Pooled' = Pooled
    BY <2>1 DEF Pooled
  <2>4. /\ Lent = Lent' \union {conn[t]}
        /\ conn[t] \notin Lent'
        /\ \A u, v \in Threads :
              conn'[u] = conn'[v] /\ conn'[u] # NoConn => u = v
    BY <2>1, <2>2, <1>a, LentNoMore DEF OneOwner
  <2>5. OneOwner'
    BY <2>1, <2>2, <2>3, <2>4, <1>a DEF OneOwner, NoConn
  <2>6. AllAccountedFor'
    BY <2>1, <2>3, <2>4, <1>a DEF AllAccountedFor
  <2>7. HoldersHaveOne' /\ NobodyServedYet'
    BY <2>1, <1>a DEF HoldersHaveOne, NobodyServedYet, NoConn, TypeOK
  <2>8. QED
    BY <2>5, <2>6, <2>7
<1>8. CASE UNCHANGED poolVars
  BY <1>8, <1>a DEF poolVars, OneOwner, AllAccountedFor, HoldersHaveOne,
                    NobodyServedYet, Pooled, Lent, NoConn
<1>9. QED
  BY <1>1, <1>2, <1>3, <1>4, <1>5, <1>6, <1>7, <1>8 DEF PoolNext, GetConnection

(***************************************************************************)
(* The ownership invariant holds before the constructor has run.           *)
(***************************************************************************)
LEMMA OwnershipAtStart == PoolInit => OwnershipInv
<1> SUFFICES ASSUME PoolInit
             PROVE  OwnershipInv
  OBVIOUS
<1>1. Pooled = {} /\ Lent = {} /\ IsInjective(pool_)
  BY DEF PoolInit, Pooled, Lent, ToSet, IsInjective
<1>2. 1..opened = {}
  BY DEF PoolInit
<1>3. QED
  BY <1>1, <1>2 DEF PoolInit, OwnershipInv, TypeOK, ThreadState, NoConn, OneOwner,
                    AllAccountedFor, HoldersHaveOne, NobodyServedYet

(***************************************************************************)
(* No connection has two owners and none is forgotten, in every reachable  *)
(* state of a pool of any size, used by any number of threads.             *)
(***************************************************************************)
THEOREM Ownership == PoolSpec => [](OneOwner /\ AllAccountedFor)
<1>1. OwnershipInv => OneOwner /\ AllAccountedFor
  BY DEF OwnershipInv
<1>2. QED
  BY <1>1, OwnershipAtStart, TypeCorrect, OwnershipStep, PTL DEF PoolSpec
-------------------------------------------------------------------------
(***************************************************************************)
(* How many connections a process can open.  activeConnections_ is never   *)
(* more than PoolSize, and every connection beyond the PoolSize ones of    *)
(* the constructor was counted in it first: while a thread is connecting   *)
(* the count is one ahead.                                                 *)
(***************************************************************************)
CountInv == /\ TypeOK
            /\ OneConnecting
            /\ activeConnections_ <= PoolSize
            /\ opened <= PoolSize + activeConnections_
            /\ \A t \in Threads : at[t] = "connecting" =>
                  opened < PoolSize + activeConnections_
            /\ phase = "constructing" => /\ opened < PoolSize
                                         /\ \A t \in Threads : at[t] = "out"

LEMMA CountStep == CountInv /\ TypeOK' /\ [PoolNext]_poolVars => CountInv'
<1> SUFFICES ASSUME CountInv, TypeOK', [PoolNext]_poolVars
             PROVE  CountInv'
  OBVIOUS
<1>a. PoolSize \in Nat \ {0} /\ opened \in Nat /\ activeConnections_ \in Nat
  BY PoolAssumption DEF CountInv, TypeOK
<1>1. CASE Construct
  BY <1>1, <1>a DEF Construct, CountInv, OneConnecting
<1>2. CASE ConstructThrows
  BY <1>2, <1>a DEF ConstructThrows, CountInv, OneConnecting
<1>3. ASSUME NEW t \in Threads, TakePooled(t)
      PROVE  CountInv'
  BY <1>3, <1>a DEF TakePooled, Contends, CountInv, OneConnecting, TypeOK
<1>4. ASSUME NEW t \in Threads, BeginCreate(t)
      PROVE  CountInv'
  BY <1>4, <1>a DEF BeginCreate, Contends, MutexFree, MayGrow, CountInv,
                    OneConnecting, TypeOK
<1>5. ASSUME NEW t \in Threads, CreateOk(t)
      PROVE  CountInv'
  BY <1>5, <1>a DEF CreateOk, CountInv, OneConnecting, TypeOK
<1>6. ASSUME NEW t \in Threads,
             \/ CreateThrows(t) \/ Block(t) \/ SpuriousWakeup(t) \/ Drop(t)
      PROVE  CountInv'
  BY <1>6, <1>a DEF CreateThrows, Block, SpuriousWakeup, Drop, Contends,
                    CountInv, OneConnecting, TypeOK
<1>7. ASSUME NEW t \in Threads, ReleaseConnection(t)
      PROVE  CountInv'
  <2>1. /\ phase # "constructing"
        /\ UNCHANGED <<phase, activeConnections_, opened>>
        /\ \A u \in Threads : at'[u] = "connecting" => at[u] = "connecting"
    BY <1>7 DEF ReleaseConnection, NotifyOne, Waiting, CountInv, TypeOK
  <2>2. QED
    BY <2>1 DEF CountInv, OneConnecting
<1>8. CASE UNCHANGED poolVars
  BY <1>8 DEF poolVars, CountInv, OneConnecting
<1>9. QED
  BY <1>1, <1>2, <1>3, <1>4, <1>5, <1>6, <1>7, <1>8 DEF PoolNext, GetConnection

(***************************************************************************)
(* The counting invariant holds before the constructor has run.            *)
(***************************************************************************)
LEMMA CountAtStart == PoolInit => CountInv
BY PoolAssumption DEF PoolInit, CountInv, OneConnecting, TypeOK, ThreadState, NoConn

(***************************************************************************)
(* A process opens at most 2 * PoolSize connections in its life, and the   *)
(* driver is never asked to connect by two threads at a time.              *)
(***************************************************************************)
THEOREM OpenedAtMostTwice == PoolSpec => [](OpenedBound /\ OneConnecting)
<1>1. CountInv => OpenedBound /\ OneConnecting
  BY PoolAssumption DEF CountInv, OpenedBound, TypeOK
<1>2. QED
  BY <1>1, CountAtStart, TypeCorrect, CountStep, PTL DEF PoolSpec
-------------------------------------------------------------------------
(***************************************************************************)
(* Wake-ups.  Only a release adds to the queue, and it wakes somebody if   *)
(* there is anybody to wake; a woken thread leaves Notified by taking a    *)
(* connection or by finding that there is none.                            *)
(***************************************************************************)
WakeupInv == /\ TypeOK
             /\ NoLostWakeup
             /\ phase = "constructing" => \A t \in Threads : at[t] = "out"

(***************************************************************************)
(* The woken threads are finitely many, and one more or one less of them   *)
(* counts for one.                                                         *)
(***************************************************************************)
LEMMA NotifiedFinite ==
  /\ IsFiniteSet(Notified)
  /\ Cardinality(Notified) \in Nat
<1>1. Notified \in SUBSET Threads
  BY DEF Notified
<1>2. QED
  BY <1>1, PoolAssumption, FS_Subset, FS_CardinalityType

LEMMA WakeupStep == WakeupInv /\ TypeOK' /\ [PoolNext]_poolVars => WakeupInv'
<1> SUFFICES ASSUME WakeupInv, TypeOK', [PoolNext]_poolVars
             PROVE  WakeupInv'
  OBVIOUS
<1>a. /\ TypeOK /\ NoLostWakeup
      /\ Len(pool_) \in Nat
      /\ phase = "constructing" => \A t \in Threads : at[t] = "out"
  BY LenProperties DEF WakeupInv, TypeOK
<1>b. ASSUME UNCHANGED <<pool_, at>>, phase' = "constructing" => phase = "constructing"
      PROVE  WakeupInv'
  BY <1>a, <1>b DEF WakeupInv, NoLostWakeup, Waiting, Notified
<1>c. ASSUME pool_' = <<>>, phase' = "constructing" => \A t \in Threads : at'[t] = "out"
      PROVE  WakeupInv'
  <2>1. Len(pool_') = 0
    BY <1>c
  <2>2. Cardinality(Notified)' \in Nat
    <3>1. Notified' \in SUBSET Threads
      BY DEF Notified
    <3>2. QED
      BY <3>1, PoolAssumption, FS_Subset, FS_CardinalityType
  <2>3. QED
    BY <1>c, <2>1, <2>2 DEF WakeupInv, NoLostWakeup
<1>1. CASE Construct
  <2>1. /\ \A t \in Threads : at'[t] = "out"
        /\ phase' \in {"constructing", "running"}
    BY <1>1, <1>a DEF Construct
  <2>2. QED
    BY <2>1 DEF WakeupInv, NoLostWakeup, Waiting
<1>2. CASE ConstructThrows
  BY <1>2, <1>c DEF ConstructThrows
<1>3. ASSUME NEW t \in Threads, TakePooled(t)
      PROVE  WakeupInv'
  <2>1. /\ Len(pool_') = Len(pool_) - 1
        /\ at' = [at EXCEPT ![t] = "holding"]
        /\ at[t] \in {"out", "notified"}
        /\ phase' = "running"
    BY <1>3, <1>a, HeadTailProperties DEF TakePooled, Contends, TypeOK
  <2>2. Waiting' = Waiting /\ Notified' = Notified \ {t}
    BY <2>1, <1>a DEF Waiting, Notified, TypeOK
  <2>3. Cardinality(Notified') >= Cardinality(Notified) - 1
    <3>1. Cardinality(Notified \ {t}) =
            IF t \in Notified THEN Cardinality(Notified) - 1 ELSE Cardinality(Notified)
      BY NotifiedFinite, FS_RemoveElement
    <3>2. QED
      BY <2>2, <3>1, NotifiedFinite
  <2>4. Cardinality(Notified') \in Nat
    BY <2>2, NotifiedFinite, FS_RemoveElement, FS_CardinalityType
  <2>5. Waiting' # {} => Len(pool_') <= Cardinality(Notified')
    BY <2>1, <2>2, <2>3, <2>4, <1>a, NotifiedFinite DEF NoLostWakeup
  <2>6. QED
    BY <2>1, <2>5 DEF WakeupInv, NoLostWakeup
<1>4. ASSUME NEW t \in Threads, BeginCreate(t) \/ Block(t)
      PROVE  WakeupInv'
  BY <1>4, <1>c DEF BeginCreate, Block, Contends
<1>5. ASSUME NEW t \in Threads, \/ CreateOk(t) \/ CreateThrows(t) \/ Drop(t)
      PROVE  WakeupInv'
  <2>1. /\ pool_' = pool_
        /\ phase' = phase
        /\ at[t] \in {"connecting", "holding"}
        /\ \E s \in {"holding", "out"} : at' = [at EXCEPT ![t] = s]
        /\ phase # "constructing"
    BY <1>5, <1>a DEF CreateOk, CreateThrows, Drop
  <2>2. Waiting' = Waiting /\ Notified' = Notified
    BY <2>1, <1>a DEF Waiting, Notified, TypeOK
  <2>3. QED
    BY <2>1, <2>2, <1>a DEF WakeupInv, NoLostWakeup
<1>6. ASSUME NEW t \in Threads, SpuriousWakeup(t)
      PROVE  WakeupInv'
  <2>1. /\ pool_' = pool_
        /\ phase' = phase
        /\ at[t] = "waiting"
        /\ at' = [at EXCEPT ![t] = "notified"]
        /\ phase # "constructing"
    BY <1>6, <1>a DEF SpuriousWakeup
  <2>2. Waiting' \subseteq Waiting /\ Notified' = Notified \union {t} /\ t \in Waiting
    BY <2>1, <1>a DEF Waiting, Notified, TypeOK
  <2>3. Cardinality(Notified') \in Nat /\ Cardinality(Notified') >= Cardinality(Notified)
    <3>1. Cardinality(Notified \union {t}) =
            IF t \in Notified THEN Cardinality(Notified) ELSE Cardinality(Notified) + 1
      BY NotifiedFinite, FS_AddElement
    <3>2. QED
      BY <2>2, <3>1, NotifiedFinite
  <2>4. Waiting' # {} => Len(pool_') <= Cardinality(Notified')
    BY <2>1, <2>2, <2>3, <1>a, NotifiedFinite DEF NoLostWakeup
  <2>5. QED
    BY <2>1, <2>4 DEF WakeupInv, NoLostWakeup
<1>7. ASSUME NEW t \in Threads, ReleaseConnection(t)
      PROVE  WakeupInv'
  <2>1. /\ Len(pool_') = Len(pool_) + 1
        /\ at[t] = "holding"
        /\ phase' = phase /\ phase # "constructing"
        /\ NotifyOne(t)
    BY <1>7, <1>a, AppendProperties DEF ReleaseConnection, TypeOK
  <2>2. CASE Waiting = {} /\ at' = [at EXCEPT ![t] = "out"]
    <3>1. Waiting' = {}
      BY <2>2, <1>a DEF Waiting, TypeOK
    <3>2. QED
      BY <2>1, <3>1 DEF WakeupInv, NoLostWakeup
  <2>3. ASSUME NEW w \in Waiting, at' = [at EXCEPT ![t] = "out", ![w] = "notified"]
        PROVE  WakeupInv'
    <3>1. w \in Threads /\ at[w] = "waiting" /\ w # t
      BY <2>1, <2>3 DEF Waiting
    <3>2. /\ Notified' = Notified \union {w}
          /\ w \notin Notified
          /\ Waiting # {}
      BY <2>1, <2>3, <3>1, <1>a DEF Waiting, Notified, TypeOK
    <3>3. Cardinality(Notified') = Cardinality(Notified) + 1
      BY <3>2, NotifiedFinite, FS_AddElement
    <3>4. Len(pool_') <= Cardinality(Notified')
      BY <2>1, <3>2, <3>3, <1>a, NotifiedFinite DEF NoLostWakeup
    <3>5. QED
      BY <2>1, <3>4 DEF WakeupInv, NoLostWakeup
  <2>4. QED
    BY <2>1, <2>2, <2>3 DEF NotifyOne
<1>8. CASE UNCHANGED poolVars
  BY <1>8, <1>b DEF poolVars
<1>9. QED
  BY <1>1, <1>2, <1>3, <1>4, <1>5, <1>6, <1>7, <1>8 DEF PoolNext, GetConnection

(***************************************************************************)
(* No wake-up is ever lost, with any number of waiters and callers.        *)
(***************************************************************************)
THEOREM WakeupsReachWaiters == PoolSpec => []NoLostWakeup
<1>1. PoolInit => WakeupInv
  BY PoolAssumption
     DEF PoolInit, WakeupInv, NoLostWakeup, Waiting, TypeOK, ThreadState, NoConn
<1>2. WakeupInv => NoLostWakeup
  BY DEF WakeupInv
<1>3. QED
  BY <1>1, <1>2, TypeCorrect, WakeupStep, PTL DEF PoolSpec
-------------------------------------------------------------------------
(***************************************************************************)
(* Refinement: each step of the pool is one entry in the ledger, or none.  *)
(***************************************************************************)
LEMMA LedgerStep ==
  OwnershipInv /\ CountInv /\ [PoolNext]_poolVars =>
    [Ledger!Next]_<<Pooled, conn, opened>>
<1> SUFFICES ASSUME OwnershipInv, CountInv, [PoolNext]_poolVars
             PROVE  Ledger!Next \/ UNCHANGED <<Pooled, conn, opened>>
  BY DEF Ledger!ledgerVars
<1>a. /\ TypeOK /\ OneOwner /\ AllAccountedFor
      /\ HoldersHaveOne /\ NobodyServedYet
  BY DEF OwnershipInv
<1>b. /\ PoolSize \in Nat \ {0} /\ opened \in Nat /\ activeConnections_ \in Nat
      /\ NoConn = 0 /\ Ledger!None = 0
  BY PoolAssumption, <1>a DEF TypeOK, NoConn, Ledger!None
<1>1. CASE Construct
  <2>1. Pooled' = Pooled \union {opened + 1}
    BY <1>1, <1>a, BackAdded DEF Construct, Pooled, TypeOK
  <2>2. opened < 2 * PoolSize
    BY <1>1, <1>b DEF Construct, CountInv
  <2>3. Ledger!Stock
    BY <1>1, <2>1, <2>2 DEF Construct, Ledger!Stock
  <2>4. QED
    BY <2>3 DEF Ledger!Next
<1>2. CASE ConstructThrows
  <2>1. Pooled' = {}
    BY <1>2 DEF ConstructThrows, Pooled, ToSet
  <2>2. conn' = [t \in Threads |-> Ledger!None]
    BY <1>2, <1>a, <1>b DEF ConstructThrows, HoldersHaveOne, NobodyServedYet, TypeOK
  <2>3. Ledger!CloseDown
    BY <1>2, <2>1, <2>2, <1>a, <1>b DEF ConstructThrows, Ledger!CloseDown
  <2>4. QED
    BY <2>3 DEF Ledger!Next
<1>3. ASSUME NEW t \in Threads, TakePooled(t)
      PROVE  Ledger!Next
  <2>1. /\ Pooled = Pooled' \union {Head(pool_)}
        /\ Head(pool_) \notin Pooled'
    BY <1>3, <1>a, FrontTaken DEF TakePooled, Pooled, OneOwner, TypeOK
  <2>2. conn[t] = Ledger!None
    BY <1>3, <1>a, <1>b DEF TakePooled, Contends, HoldersHaveOne
  <2>3. opened <= 2 * PoolSize
    BY <1>b DEF CountInv
  <2>4. Head(pool_) \in Ledger!Number
    BY <2>1, <2>3, <1>a, <1>b DEF AllAccountedFor, Ledger!Number
  <2>5. Ledger!Lend(t, Head(pool_))
    BY <1>3, <2>1, <2>2 DEF TakePooled, Ledger!Lend
  <2>6. QED
    BY <2>4, <2>5 DEF Ledger!Next
<1>4. ASSUME NEW t \in Threads,
             \/ BeginCreate(t) \/ CreateThrows(t) \/ Block(t) \/ SpuriousWakeup(t)
      PROVE  UNCHANGED <<Pooled, conn, opened>>
  BY <1>4 DEF BeginCreate, CreateThrows, Block, SpuriousWakeup, Pooled
<1>5. ASSUME NEW t \in Threads, CreateOk(t)
      PROVE  Ledger!Next
  <2>1. Pooled' = Pooled
    BY <1>5 DEF CreateOk, Pooled
  <2>2. conn[t] = Ledger!None
    BY <1>5, <1>a, <1>b DEF CreateOk, HoldersHaveOne
  <2>3. opened < 2 * PoolSize
    BY <1>5, <1>b DEF CreateOk, CountInv
  <2>4. Ledger!LendNew(t)
    BY <1>5, <2>1, <2>2, <2>3 DEF CreateOk, Ledger!LendNew
  <2>5. QED
    BY <2>4 DEF Ledger!Next
<1>6. ASSUME NEW t \in Threads, ReleaseConnection(t)
      PROVE  Ledger!Next
  <2>1. conn[t] # Ledger!None /\ conn[t] \in Nat
    BY <1>6, <1>a, <1>b DEF ReleaseConnection, HoldersHaveOne, TypeOK
  <2>2. Pooled' = Pooled \union {conn[t]}
    BY <1>6, <1>a, <2>1, BackAdded DEF ReleaseConnection, Pooled, TypeOK
  <2>3. Ledger!GiveBack(t)
    BY <1>6, <1>b, <2>1, <2>2 DEF ReleaseConnection, Ledger!GiveBack
  <2>4. QED
    BY <2>3 DEF Ledger!Next
<1>7. ASSUME NEW t \in Threads, Drop(t)
      PROVE  Ledger!Next
  <2>1. Pooled' = Pooled /\ conn[t] # Ledger!None
    BY <1>7, <1>a, <1>b DEF Drop, Pooled, HoldersHaveOne
  <2>2. Ledger!Lose(t)
    BY <1>7, <1>b, <2>1 DEF Drop, Ledger!Lose
  <2>3. QED
    BY <2>2 DEF Ledger!Next
<1>8. CASE UNCHANGED poolVars
  BY <1>8 DEF poolVars, Pooled
<1>9. QED
  BY <1>1, <1>2, <1>3, <1>4, <1>5, <1>6, <1>7, <1>8 DEF PoolNext, GetConnection

(***************************************************************************)
(* The pool implements the ledger: whatever its clients and the database   *)
(* do, connections are lent, returned and lost one at a time.              *)
(***************************************************************************)
THEOREM PoolImplementsLedger == PoolSpec => LedgerSpec
<1>1. PoolInit => Ledger!Init
  <2> SUFFICES ASSUME PoolInit
               PROVE  Ledger!Init
    OBVIOUS
  <2>1. Pooled = {}
    BY DEF PoolInit, Pooled, ToSet
  <2>2. QED
    BY <2>1 DEF PoolInit, NoConn, Ledger!Init, Ledger!None
<1>2. PoolInit => OwnershipInv /\ CountInv
  BY OwnershipAtStart, CountAtStart
<1>3. OwnershipInv /\ CountInv /\ [PoolNext]_poolVars =>
        [Ledger!Next]_(Ledger!ledgerVars)
  BY LedgerStep DEF Ledger!ledgerVars
<1>4. QED
  BY <1>1, <1>2, <1>3, TypeCorrect, OwnershipStep, CountStep, PTL
     DEF PoolSpec, LedgerSpec, Ledger!Spec
=========================================================================
