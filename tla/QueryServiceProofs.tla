----------------------- MODULE QueryServiceProofs -----------------------
(***************************************************************************)
(* Proofs about QueryService, for every number of event loops, requests,   *)
(* connections and rows, and whatever may go wrong.                        *)
(***************************************************************************)
EXTENDS QueryService, ConnectionPoolProofs

(***************************************************************************)
(* The handlers use the pool as the pool expects: every step of the        *)
(* service is a step of the pool, or leaves it alone (main.cpp:39-59).     *)
(* What is proved of the pool therefore holds in the service.              *)
(***************************************************************************)
LEMMA ServiceUsesPool == QuerySpec => PoolSpec
<1>1. QueryInit => PoolInit
  BY DEF QueryInit
<1>2. [QueryNext]_queryVars => [PoolNext]_poolVars
  <2> SUFFICES ASSUME [QueryNext]_queryVars
               PROVE  [PoolNext]_poolVars
    OBVIOUS
  <2>1. CASE StartUp
    BY <2>1 DEF StartUp, PoolNext
  <2>2. ASSUME NEW t \in Threads, HandlerStep(t)
        PROVE  [PoolNext]_poolVars
    <3>1. CASE \/ Refuse(t) \/ ParseThrows(t) \/ Accept(t) \/ Compute(t) \/ NeverReturn(t)
               \/ Crash(t)
      BY <3>1 DEF Refuse, ParseThrows, Accept, Compute, NeverReturn, Crash
    <3>2. CASE OpenCsv(t) \/ OpenFails(t) \/ WriteRow(t) \/ CloseCsv(t) \/ WriteFails(t)
      BY <3>2 DEF OpenCsv, OpenFails, WriteRow, CloseCsv, WriteFails
    <3>3. CASE ExecuteRow(t) \/ SectionDone(t) \/ StatementFails(t) \/ Reply(t)
      BY <3>3 DEF ExecuteRow, SectionDone, StatementFails, Reply
    <3>4. CASE Connect(t)
      BY <3>4 DEF Connect, PoolNext, GetConnection
    <3>5. CASE ConnectThrows(t)
      BY <3>5 DEF ConnectThrows, PoolNext, GetConnection
    <3>6. CASE Release(t)
      BY <3>6 DEF Release, PoolNext
    <3>7. CASE Fail(t)
      BY <3>7, ServiceAssumption DEF Fail, Raises, Unreadable, PoolNext
    <3>8. QED
      BY <2>2, <3>1, <3>2, <3>3, <3>4, <3>5, <3>6, <3>7 DEF HandlerStep
  <2>3. ASSUME NEW t \in Threads, WakeUp(t)
        PROVE  [PoolNext]_poolVars
    BY <2>3 DEF WakeUp, PoolNext, GetConnection
  <2>4. ASSUME NEW t \in Threads, Stop(t)
        PROVE  [PoolNext]_poolVars
    BY <2>4 DEF Stop
  <2>5. CASE UNCHANGED queryVars
    BY <2>5 DEF queryVars
  <2>6. QED
    BY <2>1, <2>2, <2>3, <2>4, <2>5 DEF QueryNext
<1>3. QED
  BY <1>1, <1>2, PTL DEF QuerySpec, PoolSpec
-------------------------------------------------------------------------
(***************************************************************************)
(* Where a handler goes from a step between getConnection and the reply.   *)
(***************************************************************************)
LEMMA NextStep ==
  ASSUME NEW p \in DOMAIN After
  PROVE  /\ After[p] \in Step
         /\ After[p] \notin {"idle", "endless", "getConnection"}
         /\ p # "releaseConnection" => After[p] \in Using
         /\ p = "releaseConnection" => After[p] = "reply"
BY DEF After, Step, Using

LEMMA StepsOfTheReply ==
  /\ "reply" \in Step /\ "idle" \in Step /\ "endless" \in Step /\ "getConnection" \in Step
  /\ "getInputData" \in Step
  /\ "reply" \notin Using /\ "idle" \notin Using /\ "getConnection" \notin Using
  /\ "endless" \in Using /\ "releaseConnection" \in Using /\ "getInputData" \in Using
  /\ Table \union {"getInputData", "relayConvert", "openCsv", "writeCsv"}
        \subseteq DOMAIN After \ {"getConnection", "releaseConnection"}
  /\ {"getConnection", "releaseConnection"} \subseteq DOMAIN After
  /\ Table \union {"getInputData", "relayConvert", "openCsv", "writeCsv"} \subseteq Using
BY DEF After, Step, Using, Table

(***************************************************************************)
(* The step a handler is at tells where its thread is in the pool.         *)
(***************************************************************************)
HandlerInv == /\ pc \in [Threads -> Step]
              /\ at \in [Threads -> ThreadState]
              /\ ConnectionWhileUsed

(***************************************************************************)
(* Away from the pool, only a step out of those with a connection, or into *)
(* them, could break it.                                                   *)
(***************************************************************************)
LEMMA PoolUntouched ==
  ASSUME HandlerInv, NEW t \in Threads, NEW p \in Step,
         pc' = [pc EXCEPT ![t] = p], at' = at,
         p \in Using <=> pc[t] \in Using,
         p # "getConnection" => pc[t] # "getConnection"
  PROVE  HandlerInv'
BY DEF HandlerInv, ConnectionWhileUsed, ThreadState

LEMMA HandlerStepKeepsInv ==
  ASSUME HandlerInv, NEW t \in Threads, HandlerStep(t)
  PROVE  HandlerInv'
<1> USE StepsOfTheReply
<1>1. CASE Refuse(t) \/ ParseThrows(t)
  <2>1. pc[t] = "idle" /\ pc' = [pc EXCEPT ![t] = "idle"] /\ at' = at
    BY <1>1 DEF Refuse, ParseThrows, Serving, Finish, poolVars
  <2>2. QED
    BY <2>1, PoolUntouched
<1>2. CASE Accept(t)
  <2>1. pc[t] = "idle" /\ pc' = [pc EXCEPT ![t] = "getConnection"] /\ at' = at
    BY <1>2 DEF Accept, Serving, poolVars
  <2>2. QED
    BY <2>1, PoolUntouched
<1>3. CASE Connect(t)
  <2>1. pc[t] = "getConnection" /\ at[t] # "holding"
    BY <1>3 DEF Connect, HandlerInv, ConnectionWhileUsed
  <2>2. at' = [at EXCEPT ![t] = at'[t]] /\ at'[t] \in ThreadState
    BY <1>3 DEF Connect, TakePooled, BeginCreate, CreateOk, Block, HandlerInv, ThreadState
  <2>3. CASE at'[t] = "holding"
    <3>1. pc' = [pc EXCEPT ![t] = "getInputData"]
      BY <1>3, <2>1, <2>3 DEF Connect, GoOn, After
    <3>2. QED
      BY <2>1, <2>2, <2>3, <3>1 DEF HandlerInv, ConnectionWhileUsed
  <2>4. CASE at'[t] # "holding"
    <3>1. pc' = pc
      BY <1>3, <2>4 DEF Connect
    <3>2. QED
      BY <2>1, <2>2, <2>4, <3>1 DEF HandlerInv, ConnectionWhileUsed
  <2>5. QED
    BY <2>3, <2>4
<1>4. CASE ConnectThrows(t)
  <2>1. /\ pc[t] \notin Using
        /\ at' = [at EXCEPT ![t] = "out"]
        /\ pc' = [pc EXCEPT ![t] = "idle"]
    BY <1>4 DEF ConnectThrows, CreateThrows, Finish, HandlerInv, ConnectionWhileUsed
  <2>2. QED
    BY <2>1 DEF HandlerInv, ConnectionWhileUsed, ThreadState
<1>5. CASE NeverReturn(t)
  <2>1. pc[t] = "getInputData" /\ pc' = [pc EXCEPT ![t] = "endless"] /\ at' = at
    BY <1>5 DEF NeverReturn, poolVars
  <2>2. QED
    BY <2>1, PoolUntouched
<1>6. CASE Compute(t) \/ OpenCsv(t) \/ CloseCsv(t) \/ WriteFails(t) \/ SectionDone(t) \/ StatementFails(t)
  <2>1. /\ pc[t] \in Table \union {"getInputData", "relayConvert", "openCsv", "writeCsv"}
        /\ pc' = [pc EXCEPT ![t] = After[pc[t]]]
        /\ at' = at
    BY <1>6 DEF Compute, OpenCsv, CloseCsv, WriteFails, SectionDone, StatementFails, GoOn, poolVars
  <2>2. /\ After[pc[t]] \in Step /\ After[pc[t]] \in Using /\ pc[t] \in Using
        /\ pc[t] # "getConnection"
    BY <2>1, NextStep
  <2>3. QED
    BY <2>1, <2>2, PoolUntouched
<1>7. CASE OpenFails(t)
  <2>1. /\ pc[t] = "openCsv" /\ pc' = [pc EXCEPT ![t] = After["writeCsv"]] /\ at' = at
    BY <1>7 DEF OpenFails, poolVars
  <2>2. After["writeCsv"] \in Step /\ After["writeCsv"] \in Using
    BY NextStep
  <2>3. QED
    BY <2>1, <2>2, PoolUntouched
<1>8. CASE Crash(t) \/ WriteRow(t) \/ ExecuteRow(t)
  BY <1>8 DEF Crash, WriteRow, ExecuteRow, poolVars, HandlerInv, ConnectionWhileUsed
<1>9. CASE Fail(t)
  <2>1. /\ pc[t] \in Using
        /\ at' = [at EXCEPT ![t] = "out"]
        /\ pc' = [pc EXCEPT ![t] = "idle"]
    BY <1>9 DEF Fail, Drop, Finish, HandlerInv, ConnectionWhileUsed
  <2>2. QED
    BY <2>1 DEF HandlerInv, ConnectionWhileUsed, ThreadState
<1>10. CASE Release(t)
  <2>1. pc[t] = "releaseConnection" /\ pc' = [pc EXCEPT ![t] = "reply"]
    BY <1>10, NextStep DEF Release, GoOn
  <2>2. CASE at' = [at EXCEPT ![t] = "out"]
    BY <2>1, <2>2 DEF HandlerInv, ConnectionWhileUsed, ThreadState
  <2>3. ASSUME NEW w \in Waiting, at' = [at EXCEPT ![t] = "out", ![w] = "notified"]
        PROVE  HandlerInv'
    <3>1. w \in Threads /\ at[w] = "waiting" /\ at[t] = "holding" /\ w # t
      BY <1>10, <2>3 DEF Release, ReleaseConnection, Waiting
    <3>2. pc[w] = "getConnection"
      BY <3>1 DEF HandlerInv, ConnectionWhileUsed
    <3>3. QED
      BY <2>1, <2>3, <3>1, <3>2 DEF HandlerInv, ConnectionWhileUsed, ThreadState
  <2>4. QED
    BY <1>10, <2>2, <2>3 DEF Release, ReleaseConnection, NotifyOne
<1>11. CASE Reply(t)
  <2>1. pc[t] = "reply" /\ pc' = [pc EXCEPT ![t] = "idle"] /\ at' = at
    BY <1>11 DEF Reply, Finish, poolVars
  <2>2. QED
    BY <2>1, PoolUntouched
<1>12. QED
  BY <1>1, <1>2, <1>3, <1>4, <1>5, <1>6, <1>7, <1>8, <1>9, <1>10, <1>11 DEF HandlerStep

LEMMA HandlerInvariant == QuerySpec => []HandlerInv
<1>1. QueryInit => HandlerInv
  BY StepsOfTheReply
     DEF QueryInit, PoolInit, ServiceInit, HandlerInv, ConnectionWhileUsed, ThreadState
<1>2. HandlerInv /\ [QueryNext]_queryVars => HandlerInv'
  <2> SUFFICES ASSUME HandlerInv, [QueryNext]_queryVars
               PROVE  HandlerInv'
    OBVIOUS
  <2>1. CASE StartUp
    BY <2>1 DEF StartUp, Construct, ConstructThrows, serviceVars, HandlerInv, ConnectionWhileUsed
  <2>2. ASSUME NEW t \in Threads, HandlerStep(t)
        PROVE  HandlerInv'
    BY <2>2, HandlerStepKeepsInv
  <2>3. ASSUME NEW t \in Threads, WakeUp(t)
        PROVE  HandlerInv'
    BY <2>3 DEF WakeUp, SpuriousWakeup, serviceVars, HandlerInv, ConnectionWhileUsed, ThreadState
  <2>4. ASSUME NEW t \in Threads, Stop(t)
        PROVE  HandlerInv'
    BY <2>4 DEF Stop, poolVars, HandlerInv, ConnectionWhileUsed
  <2>5. CASE UNCHANGED queryVars
    BY <2>5 DEF queryVars, poolVars, serviceVars, HandlerInv, ConnectionWhileUsed
  <2>6. QED
    BY <2>1, <2>2, <2>3, <2>4, <2>5 DEF QueryNext
<1>3. QED
  BY <1>1, <1>2, PTL DEF QuerySpec

(***************************************************************************)
(* A handler has a connection exactly while it uses one: none of its ways  *)
(* out, by a reply or by an exception, keeps it, and none goes on without  *)
(* (main.cpp:39-79).                                                       *)
(***************************************************************************)
THEOREM ConnectionExactlyWhileUsed == QuerySpec => []ConnectionWhileUsed
<1>1. HandlerInv => ConnectionWhileUsed
  BY DEF HandlerInv
<1>2. QED
  BY <1>1, HandlerInvariant, PTL
-------------------------------------------------------------------------
(***************************************************************************)
(* Replies.  A loop that is not idle has a request of one of its clients,  *)
(* which has not been answered; so no other loop can have it, and it is    *)
(* not taken again.                                                        *)
(***************************************************************************)
ReplyInv == /\ cur \in [Threads -> Requests \union {NoRequest}]
            /\ replies \in [Requests -> Seq({200, 400, 500})]
            /\ \A t \in Threads : pc[t] = "idle" <=> cur[t] = NoRequest
            /\ \A t \in Threads : cur[t] # NoRequest =>
                  home[cur[t]] = t /\ replies[cur[t]] = <<>>
            /\ \A r \in Requests : Len(replies[r]) <= 1

LEMMA Answered ==
  ASSUME HandlerInv, ReplyInv, NEW t \in Threads, NEW r \in Requests,
         NEW status \in {200, 400, 500},
         home[r] = t, replies[r] = <<>>, cur[t] \in {r, NoRequest},
         Finish(t, r, status), home' = home
  PROVE  ReplyInv'
<1>1. /\ cur' = [cur EXCEPT ![t] = NoRequest]
      /\ replies' = [replies EXCEPT ![r] = <<status>>]
      /\ pc' = [pc EXCEPT ![t] = "idle"]
  BY DEF Finish, ReplyInv
<1>2. <<status>> \in Seq({200, 400, 500}) /\ Len(<<status>>) = 1
  OBVIOUS
<1>3. cur' \in [Threads -> Requests \union {NoRequest}]
  BY <1>1 DEF ReplyInv
<1>4. replies' \in [Requests -> Seq({200, 400, 500})] /\ \A q \in Requests : Len(replies'[q]) <= 1
  BY <1>1, <1>2 DEF ReplyInv
<1>5. \A u \in Threads : pc'[u] = "idle" <=> cur'[u] = NoRequest
  BY <1>1 DEF ReplyInv, HandlerInv
<1>6. ASSUME NEW u \in Threads, cur'[u] # NoRequest
      PROVE  home[cur'[u]] = u /\ replies'[cur'[u]] = <<>>
  <2>1. u # t /\ cur'[u] = cur[u] /\ cur[u] # NoRequest
    BY <1>1, <1>6 DEF ReplyInv
  <2>2. home[cur[u]] = u /\ replies[cur[u]] = <<>> /\ cur[u] # r
    BY <2>1 DEF ReplyInv
  <2>3. QED
    BY <1>1, <2>1, <2>2 DEF ReplyInv
<1>7. QED
  BY <1>3, <1>4, <1>5, <1>6 DEF ReplyInv

LEMMA CurrentRequest ==
  ASSUME ReplyInv, NEW t \in Threads, pc[t] # "idle"
  PROVE  cur[t] \in Requests /\ home[cur[t]] = t /\ replies[cur[t]] = <<>>
BY DEF ReplyInv

LEMMA GoesOn ==
  ASSUME HandlerInv, ReplyInv, NEW t \in Threads, NEW p, p # "idle", pc[t] # "idle",
         pc' = [pc EXCEPT ![t] = p], UNCHANGED <<home, cur, replies>>
  PROVE  ReplyInv'
BY DEF HandlerInv, ReplyInv

LEMMA HandlerStepKeepsReplies ==
  ASSUME HandlerInv, ReplyInv, NEW t \in Threads, HandlerStep(t)
  PROVE  ReplyInv'
<1> USE StepsOfTheReply
<1>1. CASE Refuse(t) \/ ParseThrows(t)
  <2>1. PICK r \in Pending(t), status \in {400, 500} : Finish(t, r, status)
    BY <1>1 DEF Refuse, ParseThrows
  <2>2. /\ r \in Requests /\ home[r] = t /\ replies[r] = <<>>
        /\ cur[t] = NoRequest /\ home' = home
    BY <1>1 DEF Refuse, ParseThrows, Pending, Serving, ReplyInv
  <2>3. QED
    BY <2>1, <2>2, Answered
<1>2. CASE Accept(t)
  <2>1. PICK r \in Pending(t) : cur' = [cur EXCEPT ![t] = r]
    BY <1>2 DEF Accept
  <2>2. r \in Requests /\ home[r] = t /\ replies[r] = <<>> /\ r # NoRequest
    BY ServiceAssumption DEF Pending
  <2>3. pc' = [pc EXCEPT ![t] = "getConnection"] /\ UNCHANGED <<home, replies>>
    BY <1>2 DEF Accept
  <2>4. QED
    BY <2>1, <2>2, <2>3 DEF ReplyInv, HandlerInv
<1>3. CASE Connect(t)
  <2>1. pc[t] = "getConnection" /\ UNCHANGED <<home, cur, replies>>
    BY <1>3 DEF Connect
  <2>2. \E p : p # "idle" /\ pc' = [pc EXCEPT ![t] = p]
    <3>1. CASE at'[t] = "holding"
      BY <1>3, <2>1, <3>1, NextStep DEF Connect, GoOn
    <3>2. CASE at'[t] # "holding"
      <4>1. pc' = [pc EXCEPT ![t] = "getConnection"]
        BY <1>3, <2>1, <3>2 DEF Connect, HandlerInv
      <4>2. QED
        BY <4>1
    <3>3. QED
      BY <3>1, <3>2
  <2>3. QED
    BY <2>1, <2>2, GoesOn
<1>4. CASE ConnectThrows(t)
  <2>1. pc[t] # "idle"
    BY <1>4 DEF ConnectThrows, CreateThrows, HandlerInv, ConnectionWhileUsed
  <2>2. Finish(t, cur[t], 500) /\ home' = home
    BY <1>4 DEF ConnectThrows
  <2>3. QED
    BY <2>1, <2>2, CurrentRequest, Answered
<1>5. CASE NeverReturn(t)
  <2>1. /\ pc[t] = "getInputData" /\ pc' = [pc EXCEPT ![t] = "endless"]
        /\ UNCHANGED <<home, cur, replies>>
    BY <1>5 DEF NeverReturn
  <2>2. QED
    BY <2>1, GoesOn
<1>6. CASE Compute(t) \/ OpenCsv(t) \/ CloseCsv(t) \/ WriteFails(t) \/ SectionDone(t) \/ StatementFails(t)
  <2>1. /\ pc[t] \in Table \union {"getInputData", "relayConvert", "openCsv", "writeCsv"}
        /\ pc' = [pc EXCEPT ![t] = After[pc[t]]]
        /\ UNCHANGED <<home, cur, replies>>
    BY <1>6 DEF Compute, OpenCsv, CloseCsv, WriteFails, SectionDone, StatementFails, GoOn
  <2>2. After[pc[t]] # "idle" /\ pc[t] # "idle"
    BY <2>1, NextStep
  <2>3. QED
    BY <2>1, <2>2, GoesOn
<1>7. CASE OpenFails(t)
  <2>1. /\ pc[t] = "openCsv" /\ pc' = [pc EXCEPT ![t] = After["writeCsv"]]
        /\ UNCHANGED <<home, cur, replies>>
    BY <1>7 DEF OpenFails
  <2>2. After["writeCsv"] # "idle"
    BY NextStep
  <2>3. QED
    BY <2>1, <2>2, GoesOn
<1>8. CASE Crash(t) \/ WriteRow(t) \/ ExecuteRow(t)
  BY <1>8 DEF Crash, WriteRow, ExecuteRow, ReplyInv
<1>9. CASE Fail(t)
  <2>1. pc[t] # "idle"
    BY <1>9 DEF Fail, Drop, HandlerInv, ConnectionWhileUsed
  <2>2. Finish(t, cur[t], 500) /\ home' = home
    BY <1>9 DEF Fail
  <2>3. QED
    BY <2>1, <2>2, CurrentRequest, Answered
<1>10. CASE Release(t)
  <2>1. /\ pc[t] = "releaseConnection" /\ pc' = [pc EXCEPT ![t] = "reply"]
        /\ UNCHANGED <<home, cur, replies>>
    BY <1>10, NextStep DEF Release, GoOn
  <2>2. QED
    BY <2>1, GoesOn
<1>11. CASE Reply(t)
  <2>1. pc[t] # "idle" /\ Finish(t, cur[t], 200) /\ home' = home
    BY <1>11 DEF Reply
  <2>2. QED
    BY <2>1, CurrentRequest, Answered
<1>12. QED
  BY <1>1, <1>2, <1>3, <1>4, <1>5, <1>6, <1>7, <1>8, <1>9, <1>10, <1>11 DEF HandlerStep

LEMMA ReplyInvariant == QuerySpec => []ReplyInv
<1>1. QueryInit => ReplyInv
  <2> SUFFICES ASSUME QueryInit
               PROVE  ReplyInv
    OBVIOUS
  <2>1. /\ cur = [t \in Threads |-> NoRequest]
        /\ pc = [t \in Threads |-> "idle"]
        /\ replies = [r \in Requests |-> <<>>]
    BY DEF QueryInit, ServiceInit
  <2>2. <<>> \in Seq({200, 400, 500}) /\ Len(<<>>) = 0
    OBVIOUS
  <2>3. QED
    BY <2>1, <2>2 DEF ReplyInv
<1>2. HandlerInv /\ ReplyInv /\ [QueryNext]_queryVars => ReplyInv'
  <2> SUFFICES ASSUME HandlerInv, ReplyInv, [QueryNext]_queryVars
               PROVE  ReplyInv'
    OBVIOUS
  <2>1. CASE StartUp
    BY <2>1 DEF StartUp, serviceVars, ReplyInv
  <2>2. ASSUME NEW t \in Threads, HandlerStep(t)
        PROVE  ReplyInv'
    BY <2>2, HandlerStepKeepsReplies
  <2>3. ASSUME NEW t \in Threads, WakeUp(t)
        PROVE  ReplyInv'
    BY <2>3 DEF WakeUp, serviceVars, ReplyInv
  <2>4. ASSUME NEW t \in Threads, Stop(t)
        PROVE  ReplyInv'
    BY <2>4 DEF Stop, ReplyInv
  <2>5. CASE UNCHANGED queryVars
    BY <2>5 DEF queryVars, serviceVars, ReplyInv
  <2>6. QED
    BY <2>1, <2>2, <2>3, <2>4, <2>5 DEF QueryNext
<1>3. QED
  BY <1>1, <1>2, HandlerInvariant, PTL DEF QuerySpec

(***************************************************************************)
(* Every request is answered at most once: no catch block, early return or *)
(* other loop calls its callback again (main.cpp:19-36, 62-78).            *)
(***************************************************************************)
THEOREM AnsweredOnce == QuerySpec => []OneReply
<1>1. ReplyInv => OneReply
  BY ServiceAssumption DEF ReplyInv, OneReply
<1>2. QED
  BY <1>1, ReplyInvariant, PTL
-------------------------------------------------------------------------
(***************************************************************************)
(* Rows in the tables.  The step a handler is at tells which tables it has *)
(* dealt with, and the row how far it is in the one it is at; a request    *)
(* that nobody has taken has no rows.                                      *)
(***************************************************************************)
Saving(p) == p \in Table \union {"releaseConnection", "reply"}
Past(p, s) == \/ p \in {"releaseConnection", "reply"}
              \/ p = "OutputConfigFile" /\ s # "OutputConfigFile"
              \/ p = "InputNetlist" /\ s = "InputBOM"
Complete(r, s) == saved[r][s] = Lines(r, s) \/ <<r, s>> \in logged
FileDealtWith(r) == r \in created \/ <<r, "Configuration.csv">> \in logged

HandlerRows(t) ==
    cur[t] # NoRequest =>
       /\ pc[t] = "openCsv" => row[t] = 0
       /\ Saving(pc[t]) => FileDealtWith(cur[t])
       /\ \A s \in Table :
             /\ Past(pc[t], s) => Complete(cur[t], s)
             /\ pc[t] = s => saved[cur[t]][s] = row[t]
             /\ pc[t] # s /\ ~ Past(pc[t], s) => saved[cur[t]][s] = 0

RequestRows(r) ==
    \A s \in Table :
       /\ saved[r][s] <= Lines(r, s)
       /\ replies[r] = <<>> /\ (\A t \in Threads : cur[t] # r) => saved[r][s] = 0
       /\ replies[r] = <<200>> => Complete(r, s)
       /\ saved[r][s] > 0 => /\ FileDealtWith(r)
                             /\ \A q \in Table : Past(s, q) => Complete(r, q)

SaveInv == /\ row \in [Threads -> Nat]
           /\ saved \in [Requests -> [Table -> Nat]]
           /\ \A t \in Threads : HandlerRows(t)
           /\ \A r \in Requests : RequestRows(r)

LEMMA LinesAreNat ==
  ASSUME NEW r \in Requests, NEW s \in Table
  PROVE  Lines(r, s) \in Nat
BY ServiceAssumption DEF Lines, Table

(***************************************************************************)
(* A handler only touches its own request: what it does need be looked at  *)
(* for its loop and this request only.                                     *)
(***************************************************************************)
LEMMA OwnRequest ==
  ASSUME ReplyInv, SaveInv, NEW t \in Threads, NEW r \in Requests,
         cur[t] \in {r, NoRequest}, home[r] = t,
         \A u \in Threads \ {t} : pc'[u] = pc[u] /\ cur'[u] = cur[u] /\ row'[u] = row[u],
         \A q \in Requests \ {r} : saved'[q] = saved[q] /\ replies'[q] = replies[q],
         logged \subseteq logged', created \subseteq created',
         row' \in [Threads -> Nat], saved' \in [Requests -> [Table -> Nat]],
         HandlerRows(t)', RequestRows(r)'
  PROVE  SaveInv'
<1>1. ASSUME NEW u \in Threads \ {t}
      PROVE  HandlerRows(u)'
  <2>1. cur[u] # NoRequest => cur[u] \in Requests \ {r}
    BY DEF ReplyInv
  <2>2. HandlerRows(u)
    BY DEF SaveInv
  <2>3. QED
    BY <2>1, <2>2 DEF HandlerRows, Complete, FileDealtWith
<1>2. ASSUME NEW q \in Requests \ {r}
      PROVE  RequestRows(q)'
  <2>1. (\A u \in Threads : cur'[u] # q) => \A u \in Threads : cur[u] # q
    BY ServiceAssumption
  <2>2. RequestRows(q)
    BY DEF SaveInv
  <2>3. QED
    BY <2>1, <2>2 DEF RequestRows, Complete, FileDealtWith
<1>3. QED
  BY <1>1, <1>2 DEF SaveInv

(***************************************************************************)
(* Steps that leave the tables alone: those before saveData ...            *)
(***************************************************************************)
LEMMA BeforeTheTables ==
  ASSUME ReplyInv, SaveInv, NEW t \in Threads, NEW p, NEW n \in Nat,
         pc[t] # "idle", ~ Saving(pc[t]),
         pc \in [Threads -> Step], pc' = [pc EXCEPT ![t] = p], row' = [row EXCEPT ![t] = n],
         UNCHANGED <<home, cur, replies, saved>>, created \subseteq created',
         logged \subseteq logged',
         p = "openCsv" => n = 0,
         Saving(p) => p = "InputBOM" /\ n = 0 /\ FileDealtWith(cur[t])'
  PROVE  SaveInv'
<1>1. PICK r \in Requests : r = cur[t] /\ home[r] = t /\ replies[r] = <<>> /\ r # NoRequest
  BY CurrentRequest, ServiceAssumption
<1>2. \A s \in Table : saved[r][s] = 0
  <2>1. \A s \in Table : pc[t] # s /\ ~ Past(pc[t], s)
    BY DEF Saving, Past, Table
  <2>2. QED
    BY <1>1, <2>1 DEF SaveInv, HandlerRows
<1>3. HandlerRows(t)'
  <2>1. pc'[t] = p /\ row'[t] = n /\ cur'[t] = r
    BY <1>1 DEF SaveInv
  <2>2. \A s \in Table : ~ Past(p, s)
    BY DEF Saving, Past, Table
  <2>3. QED
    BY <1>1, <1>2, <2>1, <2>2 DEF HandlerRows, FileDealtWith, Saving
<1>4. RequestRows(r)'
  BY <1>1, <1>2, LinesAreNat DEF RequestRows
<1>5. row' \in [Threads -> Nat] /\ saved' \in [Requests -> [Table -> Nat]]
  BY DEF SaveInv
<1>6. QED
  BY <1>1, <1>3, <1>4, <1>5, OwnRequest

(***************************************************************************)
(* ... and the answer.                                                     *)
(***************************************************************************)
LEMMA RowsOfTheAnswered ==
  ASSUME ReplyInv, SaveInv, NEW t \in Threads, NEW r \in Requests,
         NEW status \in {200, 400, 500},
         pc \in [Threads -> Step],
         cur[t] \in {r, NoRequest}, home[r] = t, replies[r] = <<>>,
         Finish(t, r, status), UNCHANGED <<row, saved, created>>, logged \subseteq logged',
         status = 200 => \A s \in Table : Complete(r, s)
  PROVE  SaveInv'
<1>1. /\ cur' = [cur EXCEPT ![t] = NoRequest]
      /\ replies' = [replies EXCEPT ![r] = <<status>>]
      /\ pc' = [pc EXCEPT ![t] = "idle"]
  BY DEF Finish, ReplyInv
<1>2. HandlerRows(t)'
  BY <1>1 DEF HandlerRows, ReplyInv
<1>3. replies'[r] # <<>> /\ (replies'[r] = <<200>> => status = 200)
  BY <1>1 DEF ReplyInv
<1>4. RequestRows(r)'
  BY <1>3 DEF RequestRows, SaveInv, Complete, FileDealtWith
<1>5. row' \in [Threads -> Nat] /\ saved' \in [Requests -> [Table -> Nat]]
  BY DEF SaveInv
<1>6. /\ \A u \in Threads \ {t} : pc'[u] = pc[u] /\ cur'[u] = cur[u]
      /\ \A q \in Requests \ {r} : replies'[q] = replies[q]
  BY <1>1 DEF ReplyInv
<1>7. /\ \A u \in Threads \ {t} : row'[u] = row[u]
      /\ \A q \in Requests \ {r} : saved'[q] = saved[q]
      /\ logged \subseteq logged' /\ created \subseteq created'
  OBVIOUS
<1>8. \A u \in Threads \ {t} : pc'[u] = pc[u] /\ cur'[u] = cur[u] /\ row'[u] = row[u]
  BY <1>6, <1>7
<1>9. \A q \in Requests \ {r} : saved'[q] = saved[q] /\ replies'[q] = replies[q]
  BY <1>6, <1>7
<1>10. cur[t] \in {r, NoRequest} /\ home[r] = t
  OBVIOUS
<1>11. QED
  BY <1>2, <1>4, <1>5, <1>7, <1>8, <1>9, <1>10, OwnRequest

(***************************************************************************)
(* A section of saveData: a row goes to its table, or the section ends.    *)
(***************************************************************************)
LEMMA RowIsSaved ==
  ASSUME HandlerInv, ReplyInv, SaveInv, NEW t \in Threads, ExecuteRow(t)
  PROVE  SaveInv'
<1>1. PICK s \in Table : s = pc[t]
  BY DEF ExecuteRow
<1>2. s # "idle" /\ Saving(s) /\ ~ Past(s, s)
  BY DEF Saving, Past, Table
<1>3. PICK r \in Requests : r = cur[t] /\ home[r] = t /\ replies[r] = <<>> /\ r # NoRequest
  BY <1>1, <1>2, CurrentRequest, ServiceAssumption
<1>4. HandlerRows(t) /\ RequestRows(r)
  BY DEF SaveInv
<1>5. row[t] \in Nat /\ Lines(r, s) \in Nat /\ saved[r][s] = row[t]
  BY <1>1, <1>3, <1>4, LinesAreNat DEF SaveInv, HandlerRows
<1>6. /\ saved' = [saved EXCEPT ![r][s] = row[t] + 1]
      /\ row' = [row EXCEPT ![t] = row[t] + 1]
      /\ row[t] < Lines(r, s)
      /\ UNCHANGED <<home, pc, cur, replies, created, logged>>
  BY <1>1, <1>3, <1>5 DEF ExecuteRow
<1>7. row' \in [Threads -> Nat] /\ saved' \in [Requests -> [Table -> Nat]]
  BY <1>5, <1>6 DEF SaveInv
<1>8. /\ saved'[r][s] = row[t] + 1 /\ row'[t] = row[t] + 1
      /\ \A q \in Table \ {s} : saved'[r][q] = saved[r][q]
      /\ \A q \in Requests \ {r} : saved'[q] = saved[q]
      /\ \A u \in Threads \ {t} : row'[u] = row[u]
  BY <1>6 DEF SaveInv
<1>9. \A q \in Table : Past(s, q) => q # s /\ Complete(r, q)
  BY <1>1, <1>2, <1>3, <1>4 DEF HandlerRows
<1>10. FileDealtWith(r)
  BY <1>1, <1>2, <1>3, <1>4 DEF HandlerRows
<1>11. \A q \in Table \ {s} : ~ Past(s, q) => saved[r][q] = 0
  BY <1>1, <1>3, <1>4 DEF HandlerRows
<1>12. \A q \in Table \ {s} : Complete(r, q) => Complete(r, q)'
  BY <1>6, <1>8 DEF Complete
<1>13. HandlerRows(t)'
  <2>1. cur'[t] = r /\ pc'[t] = s /\ FileDealtWith(r)' /\ s # "openCsv"
    BY <1>1, <1>3, <1>6, <1>10 DEF FileDealtWith, Table
  <2>2. QED
    BY <1>2, <1>8, <1>9, <1>11, <1>12, <2>1 DEF HandlerRows
<1>14. RequestRows(r)'
  <2>1. replies'[r] # <<200>> /\ cur'[t] = r
    BY <1>3, <1>6
  <2>2. ASSUME NEW q \in Table
        PROVE  /\ saved'[r][q] <= Lines(r, q)
               /\ saved'[r][q] > 0 => /\ FileDealtWith(r)'
                                      /\ \A x \in Table : Past(q, x) => Complete(r, x)'
    <3>1. CASE q = s
      BY <1>5, <1>6, <1>8, <1>9, <1>10, <1>12, <3>1 DEF FileDealtWith
    <3>2. CASE q # s /\ Past(s, q)
      <4>1. \A x \in Table : Past(q, x) => x # s
        BY <3>2 DEF Past, Table
      <4>2. saved'[r][q] = saved[r][q] /\ FileDealtWith(r)'
        BY <1>6, <1>8, <1>10, <3>2 DEF FileDealtWith
      <4>3. QED
        BY <1>4, <1>12, <4>1, <4>2 DEF RequestRows
    <3>3. CASE q # s /\ ~ Past(s, q)
      BY <1>8, <1>11, <3>3, LinesAreNat
    <3>4. QED
      BY <3>1, <3>2, <3>3
  <2>3. QED
    BY <2>1, <2>2 DEF RequestRows
<1>15. QED
  BY <1>3, <1>6, <1>7, <1>8, <1>13, <1>14, OwnRequest

LEMMA SectionEnds ==
  ASSUME HandlerInv, ReplyInv, SaveInv, NEW t \in Threads,
         pc[t] \in Table, GoOn(t),
         UNCHANGED <<home, cur, replies, created, saved>>,
         logged \subseteq logged',
         saved[cur[t]][pc[t]] = Lines(cur[t], pc[t]) \/ <<cur[t], pc[t]>> \in logged'
  PROVE  SaveInv'
<1>1. PICK s \in Table : s = pc[t]
  OBVIOUS
<1>2. s # "idle" /\ Saving(s)
  BY DEF Saving, Table
<1>3. PICK r \in Requests : r = cur[t] /\ home[r] = t /\ replies[r] = <<>> /\ r # NoRequest
  BY <1>1, <1>2, CurrentRequest, ServiceAssumption
<1>4. HandlerRows(t) /\ RequestRows(r)
  BY DEF SaveInv
<1>5. PICK p : p = After[s]
  OBVIOUS
<1>6. /\ p # "openCsv"
      /\ Saving(p)
      /\ \A q \in Table : Past(p, q) => Past(s, q) \/ q = s
      /\ \A q \in Table : ~ Past(p, q) => s # q /\ ~ Past(s, q)
      /\ \A q \in Table : p = q => ~ Past(p, q)
  BY <1>5 DEF After, Saving, Past, Table
<1>7. pc' = [pc EXCEPT ![t] = p] /\ row' = [row EXCEPT ![t] = 0]
  BY <1>1, <1>5 DEF GoOn
<1>8. pc'[t] = p /\ row'[t] = 0 /\ cur'[t] = r
  BY <1>3, <1>7 DEF HandlerInv, SaveInv
<1>9. FileDealtWith(r)' /\ Complete(r, s)'
  <2>1. FileDealtWith(r)
    BY <1>1, <1>2, <1>3, <1>4 DEF HandlerRows
  <2>2. QED
    BY <1>1, <1>3, <2>1 DEF FileDealtWith, Complete
<1>10. \A q \in Table : Complete(r, q) => Complete(r, q)'
  BY DEF Complete
<1>11. HandlerRows(t)'
  <2>1. \A q \in Table : Past(p, q) => Complete(r, q)'
    BY <1>1, <1>3, <1>4, <1>6, <1>9, <1>10 DEF HandlerRows
  <2>2. \A q \in Table : ~ Past(p, q) => saved'[r][q] = 0
    BY <1>1, <1>3, <1>4, <1>6 DEF HandlerRows
  <2>3. QED
    BY <1>6, <1>8, <1>9, <2>1, <2>2 DEF HandlerRows
<1>12. RequestRows(r)'
  <2>1. cur'[t] = r /\ replies'[r] = <<>>
    BY <1>3, <1>8
  <2>2. QED
    BY <1>4, <1>9, <1>10, <2>1 DEF RequestRows
<1>13. row' \in [Threads -> Nat] /\ saved' \in [Requests -> [Table -> Nat]]
  BY <1>7 DEF SaveInv
<1>14. \A u \in Threads \ {t} : pc'[u] = pc[u] /\ row'[u] = row[u]
  BY <1>7 DEF HandlerInv, SaveInv
<1>15. QED
  BY <1>3, <1>11, <1>12, <1>13, <1>14, OwnRequest

LEMMA HandlerStepKeepsRows ==
  ASSUME HandlerInv, ReplyInv, SaveInv, NEW t \in Threads, HandlerStep(t)
  PROVE  SaveInv'
<1>a. /\ pc \in [Threads -> Step]
      /\ row \in [Threads -> Nat]
  BY DEF HandlerInv, SaveInv
<1>1. CASE Refuse(t) \/ ParseThrows(t)
  <2>1. PICK r \in Pending(t), status \in {400, 500} : Finish(t, r, status)
    BY <1>1 DEF Refuse, ParseThrows
  <2>2. r \in Requests /\ home[r] = t /\ replies[r] = <<>> /\ cur[t] = NoRequest
    BY <1>1 DEF Refuse, ParseThrows, Pending, Serving, ReplyInv
  <2>3. UNCHANGED <<row, saved, created>> /\ logged \subseteq logged'
    BY <1>1 DEF Refuse, ParseThrows
  <2>4. QED
    BY <1>a, <2>1, <2>2, <2>3, RowsOfTheAnswered
<1>2. CASE Accept(t)
  <2>1. PICK r \in Pending(t) : cur' = [cur EXCEPT ![t] = r]
    BY <1>2 DEF Accept
  <2>2. /\ r \in Requests /\ home[r] = t /\ replies[r] = <<>> /\ r # NoRequest
        /\ cur[t] = NoRequest
    BY <1>2, ServiceAssumption DEF Accept, Pending, Serving, ReplyInv
  <2>3. /\ pc' = [pc EXCEPT ![t] = "getConnection"]
        /\ UNCHANGED <<row, replies, saved, logged, created>>
    BY <1>2 DEF Accept
  <2>4. /\ pc'[t] = "getConnection" /\ cur'[t] = r
        /\ \A u \in Threads \ {t} : pc'[u] = pc[u] /\ cur'[u] = cur[u]
    BY <1>a, <2>1, <2>3 DEF ReplyInv
  <2>5. \A u \in Threads : cur[u] # r
    BY <2>2, <2>4 DEF ReplyInv
  <2>6. \A s \in Table : saved[r][s] = 0
    BY <2>2, <2>5 DEF SaveInv, RequestRows
  <2>7. HandlerRows(t)'
    <3>1. ~ Saving("getConnection") /\ \A s \in Table : ~ Past("getConnection", s)
      BY DEF Saving, Past, Table
    <3>2. QED
      BY <2>3, <2>4, <2>6, <3>1 DEF HandlerRows, Saving
  <2>8. RequestRows(r)'
    <3>1. \A s \in Table : saved'[r][s] = 0 /\ Lines(r, s) \in Nat
      BY <2>2, <2>3, <2>6, LinesAreNat
    <3>2. replies'[r] = <<>> /\ <<>> # <<200>>
      BY <2>2, <2>3
    <3>3. QED
      BY <3>1, <3>2 DEF RequestRows
  <2>9. row' \in [Threads -> Nat] /\ saved' \in [Requests -> [Table -> Nat]]
    BY <2>3 DEF SaveInv
  <2>10. /\ \A u \in Threads \ {t} : row'[u] = row[u]
         /\ \A q \in Requests \ {r} : saved'[q] = saved[q] /\ replies'[q] = replies[q]
         /\ logged \subseteq logged' /\ created \subseteq created'
    BY <2>3
  <2>11. QED
    BY <2>2, <2>4, <2>7, <2>8, <2>9, <2>10, OwnRequest
<1>3. CASE Connect(t)
  <2>1. pc[t] = "getConnection" /\ UNCHANGED <<home, cur, replies, saved, logged, created>>
    BY <1>3 DEF Connect
  <2>2. PICK p, n : /\ pc' = [pc EXCEPT ![t] = p] /\ row' = [row EXCEPT ![t] = n]
                    /\ p \in {"getConnection", "getInputData"} /\ n \in Nat
    <3>1. CASE at'[t] = "holding"
      <4>1. pc' = [pc EXCEPT ![t] = "getInputData"] /\ row' = [row EXCEPT ![t] = 0]
        BY <1>3, <2>1, <3>1 DEF Connect, GoOn, After
      <4>2. QED
        BY <4>1
    <3>2. CASE at'[t] # "holding"
      <4>1. pc' = [pc EXCEPT ![t] = "getConnection"] /\ row' = [row EXCEPT ![t] = row[t]]
        BY <1>3, <1>a, <2>1, <3>2 DEF Connect
      <4>2. QED
        BY <1>a, <4>1
    <3>3. QED
      BY <3>1, <3>2
  <2>3. ~ Saving(p) /\ ~ Saving(pc[t]) /\ p # "openCsv" /\ pc[t] # "idle"
    BY <2>1, <2>2 DEF Saving, Table
  <2>4. QED
    BY <1>a, <2>1, <2>2, <2>3, BeforeTheTables
<1>4. CASE ConnectThrows(t)
  <2>1. pc[t] # "idle"
    BY <1>4, StepsOfTheReply DEF ConnectThrows, CreateThrows, HandlerInv, ConnectionWhileUsed
  <2>2. Finish(t, cur[t], 500) /\ UNCHANGED <<row, saved, logged, created>>
    BY <1>4 DEF ConnectThrows
  <2>3. QED
    BY <1>a, <2>1, <2>2, CurrentRequest, RowsOfTheAnswered
<1>5. CASE Compute(t) \/ NeverReturn(t) \/ OpenCsv(t)
  <2>1. PICK p \in {"relayConvert", "openCsv", "writeCsv", "endless"}, n \in Nat :
           /\ pc' = [pc EXCEPT ![t] = p] /\ row' = [row EXCEPT ![t] = n]
           /\ p = "openCsv" => n = 0
    <3>1. CASE Compute(t) \/ OpenCsv(t)
      <4>1. /\ pc' = [pc EXCEPT ![t] = After[pc[t]]] /\ row' = [row EXCEPT ![t] = 0]
            /\ pc[t] \in {"getInputData", "relayConvert", "openCsv"}
        BY <3>1 DEF Compute, OpenCsv, GoOn
      <4>2. After[pc[t]] \in {"relayConvert", "openCsv", "writeCsv"}
        BY <4>1 DEF After
      <4>3. QED
        BY <4>1, <4>2
    <3>2. CASE NeverReturn(t)
      <4>1. pc' = [pc EXCEPT ![t] = "endless"] /\ row' = [row EXCEPT ![t] = row[t]]
        BY <1>a, <3>2 DEF NeverReturn
      <4>2. QED
        BY <1>a, <4>1
    <3>3. QED
      BY <1>5, <3>1, <3>2
  <2>2. /\ pc[t] \in {"getInputData", "relayConvert", "openCsv"}
        /\ UNCHANGED <<home, cur, replies, saved, logged, created>>
    BY <1>5 DEF Compute, NeverReturn, OpenCsv
  <2>3. ~ Saving(p) /\ ~ Saving(pc[t]) /\ pc[t] # "idle"
    BY <2>2 DEF Saving, Table
  <2>4. QED
    BY <1>a, <2>1, <2>2, <2>3, BeforeTheTables
<1>6. CASE OpenFails(t) \/ CloseCsv(t) \/ WriteFails(t)
  <2>1. cur[t] \in Requests
    BY <1>6, CurrentRequest DEF OpenFails, CloseCsv, WriteFails
  <2>2. pc' = [pc EXCEPT ![t] = "InputBOM"] /\ row' = [row EXCEPT ![t] = 0]
    <3>1. CASE OpenFails(t)
      <4>1. row[t] = 0
        BY <2>1, <3>1, ServiceAssumption DEF OpenFails, SaveInv, HandlerRows
      <4>2. pc' = [pc EXCEPT ![t] = "InputBOM"] /\ row' = row
        BY <3>1 DEF OpenFails, After
      <4>3. QED
        BY <1>a, <4>1, <4>2
    <3>2. CASE CloseCsv(t) \/ WriteFails(t)
      BY <3>2 DEF CloseCsv, WriteFails, GoOn, After
    <3>3. QED
      BY <1>6, <3>1, <3>2
  <2>3. /\ pc[t] \in {"openCsv", "writeCsv"}
        /\ UNCHANGED <<home, cur, replies, saved>> /\ logged \subseteq logged'
        /\ created \subseteq created' /\ FileDealtWith(cur[t])'
    BY <1>6 DEF OpenFails, CloseCsv, WriteFails, FileDealtWith
  <2>4. ~ Saving(pc[t]) /\ pc[t] # "idle" /\ "InputBOM" # "openCsv"
    BY <2>3 DEF Saving, Table
  <2>5. QED
    BY <1>a, <2>2, <2>3, <2>4, BeforeTheTables
<1>7. CASE WriteRow(t)
  <2>1. /\ pc[t] = "writeCsv" /\ pc' = [pc EXCEPT ![t] = "writeCsv"]
        /\ row' = [row EXCEPT ![t] = row[t] + 1] /\ row[t] + 1 \in Nat
        /\ UNCHANGED <<home, cur, replies, saved, logged, created>>
    BY <1>7, <1>a DEF WriteRow
  <2>2. ~ Saving("writeCsv") /\ "writeCsv" # "openCsv" /\ "writeCsv" # "idle"
    BY DEF Saving, Table
  <2>3. QED
    BY <1>a, <2>1, <2>2, BeforeTheTables
<1>8. CASE Crash(t)
  BY <1>8 DEF Crash, SaveInv, HandlerRows, RequestRows, Complete, FileDealtWith
<1>9. CASE ExecuteRow(t)
  BY <1>9, RowIsSaved
<1>10. CASE SectionDone(t)
  <2>1. /\ pc[t] \in Table /\ GoOn(t) /\ row[t] = Lines(cur[t], pc[t])
        /\ UNCHANGED <<home, cur, replies, created, saved, logged>>
    BY <1>10 DEF SectionDone
  <2>2. pc[t] # "idle"
    BY <2>1 DEF Table
  <2>3. saved[cur[t]][pc[t]] = row[t]
    BY <2>1, <2>2, CurrentRequest, ServiceAssumption DEF SaveInv, HandlerRows
  <2>4. QED
    BY <2>1, <2>3, SectionEnds
<1>11. CASE StatementFails(t)
  <2>1. /\ pc[t] \in Table /\ GoOn(t) /\ <<cur[t], pc[t]>> \in logged'
        /\ UNCHANGED <<home, cur, replies, created, saved>> /\ logged \subseteq logged'
    BY <1>11 DEF StatementFails
  <2>2. QED
    BY <2>1, SectionEnds
<1>12. CASE Fail(t)
  <2>1. pc[t] # "idle"
    BY <1>12, StepsOfTheReply DEF Fail, Drop, HandlerInv, ConnectionWhileUsed
  <2>2. Finish(t, cur[t], 500) /\ UNCHANGED <<row, saved, logged, created>>
    BY <1>12 DEF Fail
  <2>3. QED
    BY <1>a, <2>1, <2>2, CurrentRequest, RowsOfTheAnswered
<1>13. CASE Release(t)
  <2>1. /\ pc[t] = "releaseConnection" /\ pc' = [pc EXCEPT ![t] = "reply"]
        /\ row' = [row EXCEPT ![t] = 0]
        /\ UNCHANGED <<home, cur, replies, saved, logged, created>>
    BY <1>13 DEF Release, GoOn, After
  <2>2. PICK r \in Requests : r = cur[t] /\ home[r] = t /\ r # NoRequest
    BY <2>1, CurrentRequest, ServiceAssumption
  <2>3. HandlerRows(t) /\ RequestRows(r)
    BY DEF SaveInv
  <2>4. /\ pc'[t] = "reply" /\ cur'[t] = r
        /\ \A u \in Threads \ {t} : pc'[u] = pc[u] /\ row'[u] = row[u]
        /\ row' \in [Threads -> Nat] /\ saved' \in [Requests -> [Table -> Nat]]
    BY <1>a, <2>1, <2>2 DEF SaveInv
  <2>5. HandlerRows(t)'
    <3>1. FileDealtWith(r)' /\ \A s \in Table : Complete(r, s)'
      BY <2>1, <2>2, <2>3 DEF HandlerRows, Saving, Past, FileDealtWith, Complete
    <3>2. \A s \in Table : s # "reply" /\ Past("reply", s)
      BY DEF Past, Table
    <3>3. QED
      BY <2>4, <3>1, <3>2 DEF HandlerRows
  <2>6. RequestRows(r)'
    BY <2>1, <2>3 DEF RequestRows, Complete, FileDealtWith
  <2>7. QED
    BY <2>1, <2>2, <2>4, <2>5, <2>6, OwnRequest
<1>14. CASE Reply(t)
  <2>1. /\ pc[t] = "reply" /\ Finish(t, cur[t], 200)
        /\ UNCHANGED <<row, saved, logged, created>>
    BY <1>14 DEF Reply
  <2>2. cur[t] \in Requests /\ home[cur[t]] = t /\ replies[cur[t]] = <<>>
    BY <2>1, CurrentRequest
  <2>3. \A s \in Table : Complete(cur[t], s)
    BY <2>1, <2>2, ServiceAssumption DEF SaveInv, HandlerRows, Past
  <2>4. QED
    BY <1>a, <2>1, <2>2, <2>3, RowsOfTheAnswered
<1>15. QED
  BY <1>1, <1>2, <1>3, <1>4, <1>5, <1>6, <1>7, <1>8, <1>9, <1>10, <1>11, <1>12, <1>13, <1>14
     DEF HandlerStep

LEMMA SaveInvariant == QuerySpec => []SaveInv
<1>1. QueryInit => SaveInv
  <2> SUFFICES ASSUME QueryInit
               PROVE  SaveInv
    OBVIOUS
  <2>1. /\ cur = [t \in Threads |-> NoRequest]
        /\ row = [t \in Threads |-> 0]
        /\ replies = [r \in Requests |-> <<>>]
        /\ saved = [r \in Requests |-> [s \in Table |-> 0]]
    BY DEF QueryInit, ServiceInit
  <2>2. \A r \in Requests, s \in Table : saved[r][s] = 0 /\ replies[r] = <<>>
    BY <2>1
  <2>3. \A r \in Requests : RequestRows(r)
    BY <2>2, LinesAreNat DEF RequestRows
  <2>4. QED
    BY <2>1, <2>3 DEF SaveInv, HandlerRows
<1>2. HandlerInv /\ ReplyInv /\ SaveInv /\ [QueryNext]_queryVars => SaveInv'
  <2> SUFFICES ASSUME HandlerInv, ReplyInv, SaveInv, [QueryNext]_queryVars
               PROVE  SaveInv'
    OBVIOUS
  <2>1. ASSUME NEW t \in Threads, HandlerStep(t)
        PROVE  SaveInv'
    BY <2>1, HandlerStepKeepsRows
  <2>2. CASE UNCHANGED <<pc, cur, row, replies, created, saved, logged>>
    BY <2>2 DEF SaveInv, HandlerRows, RequestRows, Complete, FileDealtWith
  <2>3. QED
    BY <2>1, <2>2 DEF QueryNext, StartUp, WakeUp, Stop, queryVars, serviceVars
<1>3. QED
  BY <1>1, <1>2, HandlerInvariant, ReplyInvariant, PTL DEF QuerySpec

(***************************************************************************)
(* Who is told 200 has all rows in every table for which the database has  *)
(* not refused a statement, and no row is saved twice (Output.cpp:47-115,  *)
(* main.cpp:56-64).                                                        *)
(***************************************************************************)
THEOREM SuccessIsKnown == QuerySpec => []SuccessIsSavedOrRejected
<1>1. SaveInv => SuccessIsSavedOrRejected
  BY DEF SaveInv, RequestRows, Complete, SuccessIsSavedOrRejected
<1>2. QED
  BY <1>1, SaveInvariant, PTL

(***************************************************************************)
(* Wherever a request is cut off, its rows are those of the tables up to   *)
(* the one it had come to (main.cpp:53-56, Output.cpp:45-115).             *)
(***************************************************************************)
THEOREM TablesInOrder == QuerySpec => []TablesFillInOrder
<1>1. SaveInv => TablesFillInOrder
  <2> SUFFICES ASSUME SaveInv, NEW r \in Requests, NEW m \in 1..3,
                      saved[r][TableOrder[m]] > 0
               PROVE  /\ FileDealtWith(r)
                      /\ \A n \in 1..m - 1 : Complete(r, TableOrder[n])
    BY DEF TablesFillInOrder, FileDealtWith, Complete
  <2>1. /\ TableOrder[m] \in Table
        /\ \A n \in 1..m - 1 : TableOrder[n] \in Table /\ Past(TableOrder[m], TableOrder[n])
    <3>1. /\ TableOrder[1] = "InputBOM" /\ TableOrder[2] = "InputNetlist"
          /\ TableOrder[3] = "OutputConfigFile"
      BY DEF TableOrder
    <3>2. (m = 1 \/ m = 2 \/ m = 3) /\ \A n \in 1..m - 1 : n = 1 \/ (n = 2 /\ m = 3)
      OBVIOUS
    <3>3. QED
      BY <3>1, <3>2 DEF Past, Table
  <2>2. QED
    BY <2>1 DEF SaveInv, RequestRows
<1>2. QED
  BY <1>1, SaveInvariant, PTL
-------------------------------------------------------------------------
(***************************************************************************)
(* The account of connections: those in the queue, in use, being opened,   *)
(* and those that may still be opened.                                     *)
(***************************************************************************)
Account == Len(pool_) + Cardinality(Lent) + Cardinality(Connecting)
              + (PoolSize - activeConnections_)

LEMMA FiniteParts ==
  ASSUME OwnershipInv
  PROVE  /\ IsFiniteSet(Lent) /\ Cardinality(Lent) \in Nat
         /\ IsFiniteSet(Connecting) /\ Cardinality(Connecting) \in Nat
         /\ Len(pool_) \in Nat /\ activeConnections_ \in Nat /\ PoolSize \in Nat
<1>1. Lent \in SUBSET (1..opened) /\ opened \in Nat
  BY DEF OwnershipInv, AllAccountedFor, TypeOK
<1>2. IsFiniteSet(1..opened)
  BY <1>1, FS_Interval
<1>3. IsFiniteSet(Lent)
  BY <1>1, <1>2, FS_Subset
<1>4. Connecting \in SUBSET Threads
  BY DEF Connecting
<1>5. IsFiniteSet(Connecting)
  BY <1>4, PoolAssumption, FS_Subset
<1>6. QED
  BY <1>3, <1>5, FS_CardinalityType, LenProperties, PoolAssumption DEF OwnershipInv, TypeOK

LEMMA LentGains ==
  ASSUME OwnershipInv, NEW t \in Threads, at[t] # "holding",
         NEW c \in Nat, c # NoConn, c \notin Lent, conn' = [conn EXCEPT ![t] = c]
  PROVE  Cardinality(Lent') = Cardinality(Lent) + 1
<1>1. conn[t] = NoConn /\ conn \in [Threads -> Nat]
  BY DEF OwnershipInv, HoldersHaveOne, TypeOK
<1>2. Lent' = Lent \union {c}
  BY <1>1 DEF Lent
<1>3. QED
  BY <1>2, FiniteParts, FS_AddElement

LEMMA LentLoses ==
  ASSUME OwnershipInv, NEW t \in Threads, at[t] = "holding",
         conn' = [conn EXCEPT ![t] = NoConn]
  PROVE  Cardinality(Lent') = Cardinality(Lent) - 1
<1>1. conn[t] # NoConn /\ conn[t] \in Lent /\ conn \in [Threads -> Nat]
  BY DEF OwnershipInv, HoldersHaveOne, TypeOK, Lent
<1>2. \A u \in Threads \ {t} : conn'[u] = conn[u] /\ conn[u] # conn[t]
  BY <1>1 DEF OwnershipInv, OneOwner
<1>3. Lent' = Lent \ {conn[t]}
  BY <1>1, <1>2 DEF Lent
<1>4. QED
  BY <1>1, <1>3, FiniteParts, FS_RemoveElement

(***************************************************************************)
(* Only a connect that throws, and a handler that does, take something off *)
(* the account.                                                            *)
(***************************************************************************)
LEMMA AccountKept ==
  ASSUME OwnershipInv, NEW t \in Threads,
         \/ TakePooled(t) \/ BeginCreate(t) \/ CreateOk(t) \/ Block(t)
         \/ SpuriousWakeup(t) \/ ReleaseConnection(t)
  PROVE  Account' = Account
<1>a. /\ pool_ \in Seq(Nat) /\ at \in [Threads -> ThreadState] /\ conn \in [Threads -> Nat]
      /\ opened \in Nat /\ PoolSize' = PoolSize
  BY DEF OwnershipInv, TypeOK
<1>1. CASE TakePooled(t)
  <2>1. Head(pool_) \in Pooled /\ Head(pool_) \in Nat /\ Len(pool_') = Len(pool_) - 1
    <3>1. pool_ # <<>> /\ pool_' = Tail(pool_)
      BY <1>1 DEF TakePooled
    <3>2. QED
      BY <1>a, <3>1, FrontTaken, HeadTailProperties DEF OwnershipInv, OneOwner, Pooled
  <2>2. Head(pool_) \notin Lent /\ Head(pool_) # NoConn
    BY <2>1 DEF OwnershipInv, OneOwner, AllAccountedFor, NoConn
  <2>3. Cardinality(Lent') = Cardinality(Lent) + 1
    BY <1>1, <2>1, <2>2, LentGains DEF TakePooled, Contends
  <2>4. Connecting' = Connecting /\ activeConnections_' = activeConnections_
    BY <1>1, <1>a DEF TakePooled, Contends, Connecting
  <2>5. QED
    BY <2>1, <2>3, <2>4, FiniteParts DEF Account
<1>2. CASE BeginCreate(t)
  <2>1. Connecting' = Connecting \union {t} /\ t \notin Connecting
    BY <1>2, <1>a DEF BeginCreate, Contends, Connecting
  <2>2. Cardinality(Connecting') = Cardinality(Connecting) + 1
    BY <2>1, FiniteParts, FS_AddElement
  <2>3. /\ pool_' = pool_ /\ Lent' = Lent
        /\ activeConnections_' = activeConnections_ + 1
    BY <1>2 DEF BeginCreate, Lent
  <2>4. QED
    BY <2>2, <2>3, FiniteParts DEF Account
<1>3. CASE CreateOk(t)
  <2>1. Connecting' = Connecting \ {t} /\ t \in Connecting
    BY <1>3, <1>a DEF CreateOk, Connecting
  <2>2. Cardinality(Connecting') = Cardinality(Connecting) - 1
    BY <2>1, FiniteParts, FS_RemoveElement
  <2>3. Cardinality(Lent') = Cardinality(Lent) + 1
    <3>1. opened + 1 \in Nat /\ opened + 1 # NoConn /\ opened + 1 \notin Lent
      BY <1>a, NextNumberIsNew DEF NoConn
    <3>2. at[t] # "holding" /\ conn' = [conn EXCEPT ![t] = opened + 1]
      BY <1>3 DEF CreateOk
    <3>3. QED
      BY <3>1, <3>2, LentGains
  <2>4. pool_' = pool_ /\ activeConnections_' = activeConnections_
    BY <1>3 DEF CreateOk
  <2>5. QED
    BY <2>2, <2>3, <2>4, FiniteParts DEF Account
<1>4. CASE Block(t) \/ SpuriousWakeup(t)
  <2>1. /\ Connecting' = Connecting /\ Lent' = Lent
        /\ pool_' = pool_ /\ activeConnections_' = activeConnections_
    BY <1>4, <1>a DEF Block, SpuriousWakeup, Contends, Connecting, Lent
  <2>2. QED
    BY <2>1 DEF Account
<1>5. CASE ReleaseConnection(t)
  <2>1. Len(pool_') = Len(pool_) + 1 /\ activeConnections_' = activeConnections_
    BY <1>5, <1>a, AppendProperties DEF ReleaseConnection
  <2>2. Cardinality(Lent') = Cardinality(Lent) - 1
    BY <1>5, LentLoses DEF ReleaseConnection
  <2>3. Connecting' = Connecting
    <3>1. \A u \in Threads : at'[u] = "connecting" <=> at[u] = "connecting"
      BY <1>5, <1>a DEF ReleaseConnection, NotifyOne, Waiting
    <3>2. QED
      BY <3>1 DEF Connecting
  <2>4. QED
    BY <2>1, <2>2, <2>3, FiniteParts DEF Account
<1>6. QED
  BY <1>1, <1>2, <1>3, <1>4, <1>5

LEMMA AccountCharged ==
  ASSUME OwnershipInv, NEW t \in Threads, CreateThrows(t) \/ Drop(t)
  PROVE  Account' = Account - 1
<1>a. at \in [Threads -> ThreadState] /\ PoolSize' = PoolSize
  BY DEF OwnershipInv, TypeOK
<1>1. CASE CreateThrows(t)
  <2>1. Connecting' = Connecting \ {t} /\ t \in Connecting
    BY <1>1, <1>a DEF CreateThrows, Connecting
  <2>2. Cardinality(Connecting') = Cardinality(Connecting) - 1
    BY <2>1, FiniteParts, FS_RemoveElement
  <2>3. pool_' = pool_ /\ Lent' = Lent /\ activeConnections_' = activeConnections_
    BY <1>1 DEF CreateThrows, Lent
  <2>4. QED
    BY <2>2, <2>3, FiniteParts DEF Account
<1>2. CASE Drop(t)
  <2>1. Cardinality(Lent') = Cardinality(Lent) - 1
    BY <1>2, LentLoses DEF Drop
  <2>2. /\ Connecting' = Connecting
        /\ pool_' = pool_ /\ activeConnections_' = activeConnections_
    BY <1>2, <1>a DEF Drop, Connecting
  <2>3. QED
    BY <2>1, <2>2, FiniteParts DEF Account
<1>3. QED
  BY <1>1, <1>2

(***************************************************************************)
(* What the failed requests have cost and what is on the account make up   *)
(* the 2 * PoolSize connections of a process; before it serves, the        *)
(* constructor is filling the queue.                                       *)
(***************************************************************************)
Balanced == Account + Cardinality(Failed) = 2 * PoolSize

(* A body that could not be parsed is that of a request with an answer.    *)
BodiesAnswered == \A r \in Requests : <<r, "body">> \in logged => replies[r] # <<>>

FailureInv == /\ BodiesAnswered
              /\ phase = "running" => Balanced
              /\ phase = "constructing" =>
                    /\ Len(pool_) = opened
                    /\ activeConnections_ = 0
                    /\ \A t \in Threads : pc[t] = "idle"
                    /\ \A r \in Requests : replies[r] = <<>>

LEMMA FailedFinite == IsFiniteSet(Failed) /\ Cardinality(Failed) \in Nat
<1>1. Failed \in SUBSET Requests
  BY DEF Failed
<1>2. IsFiniteSet(Failed)
  BY <1>1, ServiceAssumption, FS_Subset
<1>3. QED
  BY <1>2, FS_CardinalityType

LEMMA FillingUp ==
  ASSUME OwnershipInv, FailureInv, StartUp
  PROVE  FailureInv'
<1>a. pool_ \in Seq(Nat) /\ opened \in Nat /\ PoolSize \in Nat /\ PoolSize' = PoolSize
  BY PoolAssumption DEF OwnershipInv, TypeOK
<1>1. CASE ConstructThrows
  BY <1>1 DEF StartUp, ConstructThrows, serviceVars, FailureInv, BodiesAnswered
<1>2. CASE Construct
  <2>1. /\ phase = "constructing" /\ opened' = opened + 1
        /\ Len(pool_') = opened + 1 /\ activeConnections_' = 0
        /\ UNCHANGED <<at, conn, pc, replies, logged>>
    BY <1>2, <1>a, AppendProperties
       DEF StartUp, Construct, FailureInv, serviceVars
  <2>2. CASE opened' = PoolSize
    <3>1. \A t \in Threads : at[t] = "out" /\ conn[t] = NoConn
      BY <2>1 DEF OwnershipInv, NobodyServedYet, HoldersHaveOne
    <3>2. Lent' = {} /\ Connecting' = {}
      BY <2>1, <3>1 DEF Lent, Connecting
    <3>3. Failed' = {}
      BY <2>1 DEF FailureInv, Failed
    <3>4. Balanced'
      BY <1>a, <2>1, <2>2, <3>2, <3>3, FS_EmptySet DEF Balanced, Account
    <3>5. phase' = "running"
      BY <1>2, <2>2 DEF Construct
    <3>6. BodiesAnswered'
      BY <2>1 DEF FailureInv, BodiesAnswered
    <3>7. QED
      BY <3>4, <3>5, <3>6 DEF FailureInv
  <2>3. CASE opened' # PoolSize
    <3>1. phase' = "constructing"
      BY <1>2, <2>3 DEF Construct
    <3>2. QED
      BY <2>1, <3>1 DEF FailureInv, BodiesAnswered
  <2>4. QED
    BY <2>2, <2>3
<1>3. QED
  BY <1>1, <1>2 DEF StartUp

(***************************************************************************)
(* An answer of 500 adds its request to those that failed, unless its body *)
(* could not be parsed; no other answer does.                              *)
(***************************************************************************)
LEMMA AnswerCounts ==
  ASSUME ReplyInv, BodiesAnswered, NEW t \in Threads, NEW r \in Requests, replies[r] = <<>>,
         NEW status \in {200, 400, 500}, Finish(t, r, status)
  PROVE  /\ status = 500 /\ logged' = logged =>
               Cardinality(Failed') = Cardinality(Failed) + 1
         /\ status # 500 /\ logged' = logged => Failed' = Failed
         /\ logged' = logged \union {<<r, "body">>} => Failed' = Failed
<1>1. replies' = [replies EXCEPT ![r] = <<status>>] /\ r \notin Failed /\ <<r, "body">> \notin logged
  BY DEF Finish, Failed, BodiesAnswered
<1>2. replies'[r] = <<status>> /\ \A q \in Requests \ {r} : replies'[q] = replies[q]
  BY <1>1 DEF ReplyInv
<1>3. status = 500 /\ logged' = logged => Failed' = Failed \union {r}
  BY <1>1, <1>2 DEF Failed
<1>4. status # 500 /\ logged' = logged => Failed' = Failed
  <2>1. status # 500 => <<status>> # <<500>>
    OBVIOUS
  <2>2. QED
    BY <1>1, <1>2, <2>1 DEF Failed
<1>5. ASSUME logged' = logged \union {<<r, "body">>}
      PROVE  Failed' = Failed
  <2>1. \A q \in Requests \ {r} : <<q, "body">> \in logged' <=> <<q, "body">> \in logged
    BY <1>5
  <2>2. <<r, "body">> \in logged'
    BY <1>5
  <2>3. QED
    BY <1>1, <1>2, <2>1, <2>2 DEF Failed
<1>6. QED
  BY <1>1, <1>3, <1>4, <1>5, FailedFinite, FS_AddElement

(***************************************************************************)
(* A message about a table or the file has nothing to do with that.        *)
(***************************************************************************)
LEMMA OtherMessages ==
  ASSUME NEW q, NEW x, x # "body", replies' = replies,
         logged' = logged \/ logged' = logged \union {<<q, x>>}
  PROVE  Failed' = Failed /\ (BodiesAnswered => BodiesAnswered')
<1>1. \A r \in Requests : <<r, "body">> \in logged' <=> <<r, "body">> \in logged
  OBVIOUS
<1>2. QED
  BY <1>1 DEF Failed, BodiesAnswered

LEMMA MessagesOfAStep ==
  ASSUME NEW t \in Threads, OpenFails(t) \/ StatementFails(t)
  PROVE  /\ UNCHANGED poolVars /\ replies' = replies
         /\ \E q, x : x # "body" /\ logged' = logged \union {<<q, x>>}
  BY DEF OpenFails, StatementFails, Table

LEMMA HandlerStepKeepsBodies ==
  ASSUME HandlerInv, ReplyInv, NEW t \in Threads, HandlerStep(t) \/ WakeUp(t), BodiesAnswered
  PROVE  BodiesAnswered'
<1>1. ASSUME NEW r \in Requests, NEW status, Finish(t, r, status), replies[r] = <<>>,
             logged' \subseteq logged \union {<<r, "body">>}
      PROVE  BodiesAnswered'
  <2>1. replies' = [replies EXCEPT ![r] = <<status>>]
    BY <1>1 DEF Finish
  <2>2. replies'[r] = <<status>> /\ \A q \in Requests \ {r} : replies'[q] = replies[q]
    BY <2>1 DEF ReplyInv
  <2>3. \A q \in Requests \ {r} : <<q, "body">> \in logged' => <<q, "body">> \in logged
    BY <1>1
  <2>4. QED
    BY <2>2, <2>3 DEF BodiesAnswered
<1>2. CASE Refuse(t) \/ ParseThrows(t)
  BY <1>1, <1>2 DEF Refuse, ParseThrows, Pending
<1>3. CASE ConnectThrows(t) \/ Fail(t) \/ Reply(t)
  <2>1. pc[t] # "idle"
    BY <1>3, StepsOfTheReply
       DEF ConnectThrows, CreateThrows, Fail, Drop, Reply, HandlerInv, ConnectionWhileUsed
  <2>2. logged' = logged /\ \E status : Finish(t, cur[t], status)
    BY <1>3 DEF ConnectThrows, Fail, Reply
  <2>3. QED
    BY <1>1, <2>1, <2>2, CurrentRequest
<1>4. CASE OpenFails(t) \/ StatementFails(t)
  BY <1>4, MessagesOfAStep, OtherMessages
<1>5. CASE \/ Accept(t) \/ Connect(t) \/ Compute(t) \/ NeverReturn(t) \/ Crash(t)
           \/ OpenCsv(t) \/ WriteRow(t) \/ CloseCsv(t) \/ WriteFails(t)
           \/ ExecuteRow(t) \/ SectionDone(t) \/ Release(t) \/ WakeUp(t)
  <2>1. UNCHANGED <<replies, logged>>
    BY <1>5 DEF Accept, Connect, Compute, NeverReturn, Crash, OpenCsv, WriteRow, CloseCsv,
                WriteFails, ExecuteRow, SectionDone, Release, WakeUp, serviceVars
  <2>2. QED
    BY <2>1 DEF BodiesAnswered
<1>6. QED
  BY <1>2, <1>3, <1>4, <1>5 DEF HandlerStep

LEMMA HandlerStepKeepsBalance ==
  ASSUME HandlerInv, ReplyInv, OwnershipInv, NEW t \in Threads,
         HandlerStep(t) \/ WakeUp(t), Balanced, BodiesAnswered
  PROVE  Balanced'
<1>a. Account \in Int /\ Cardinality(Failed) \in Nat /\ PoolSize \in Nat /\ PoolSize' = PoolSize
  BY FiniteParts, FailedFinite DEF Account
<1>1. ASSUME UNCHANGED poolVars, Failed' = Failed
      PROVE  Balanced'
  BY <1>1 DEF poolVars, Balanced, Account, Lent, Connecting
<1>2. ASSUME CreateThrows(t) \/ Drop(t), Cardinality(Failed') = Cardinality(Failed) + 1
      PROVE  Balanced'
  BY <1>a, <1>2, AccountCharged DEF Balanced
<1>3. ASSUME \/ TakePooled(t) \/ BeginCreate(t) \/ CreateOk(t) \/ Block(t)
             \/ SpuriousWakeup(t) \/ ReleaseConnection(t),
             UNCHANGED <<replies, logged>>
      PROVE  Balanced'
  <2>1. Failed' = Failed
    BY <1>3 DEF Failed
  <2>2. QED
    BY <1>3, <2>1, AccountKept DEF Balanced
<1>4. CASE Refuse(t)
  <2>1. PICK r \in Pending(t) : Finish(t, r, 400)
    BY <1>4 DEF Refuse
  <2>2. r \in Requests /\ replies[r] = <<>> /\ UNCHANGED <<poolVars, logged>>
    BY <1>4 DEF Refuse, Pending
  <2>3. QED
    BY <1>1, <2>1, <2>2, AnswerCounts
<1>5. CASE ParseThrows(t)
  <2>1. PICK r \in Pending(t) : Finish(t, r, 500) /\ logged' = logged \union {<<r, "body">>}
    BY <1>5 DEF ParseThrows
  <2>2. r \in Requests /\ replies[r] = <<>> /\ UNCHANGED poolVars
    BY <1>5 DEF ParseThrows, Pending
  <2>3. QED
    BY <1>1, <2>1, <2>2, AnswerCounts
<1>6. CASE Reply(t)
  <2>1. pc[t] # "idle" /\ Finish(t, cur[t], 200) /\ UNCHANGED <<poolVars, logged>>
    BY <1>6 DEF Reply
  <2>2. QED
    BY <1>1, <2>1, CurrentRequest, AnswerCounts
<1>7. CASE ConnectThrows(t) \/ Fail(t)
  <2>1. pc[t] # "idle"
    BY <1>7, StepsOfTheReply
       DEF ConnectThrows, CreateThrows, Fail, Drop, HandlerInv, ConnectionWhileUsed
  <2>2. (CreateThrows(t) \/ Drop(t)) /\ Finish(t, cur[t], 500) /\ logged' = logged
    BY <1>7 DEF ConnectThrows, Fail
  <2>3. QED
    BY <1>2, <2>1, <2>2, CurrentRequest, AnswerCounts
<1>8. CASE Connect(t)
  BY <1>3, <1>8 DEF Connect
<1>9. CASE Release(t) \/ WakeUp(t)
  BY <1>3, <1>9 DEF Release, WakeUp, serviceVars
<1>10. CASE \/ Accept(t) \/ Compute(t) \/ NeverReturn(t) \/ Crash(t)
           \/ OpenCsv(t) \/ WriteRow(t) \/ CloseCsv(t) \/ WriteFails(t)
           \/ ExecuteRow(t) \/ SectionDone(t)
  <2>1. UNCHANGED <<poolVars, replies, logged>>
    BY <1>10 DEF Accept, Compute, NeverReturn, Crash, OpenCsv, WriteRow,
                CloseCsv, WriteFails, ExecuteRow, SectionDone
  <2>2. QED
    BY <1>1, <2>1 DEF Failed
<1>11. CASE OpenFails(t) \/ StatementFails(t)
  BY <1>1, <1>11, MessagesOfAStep, OtherMessages
<1>12. QED
  BY <1>4, <1>5, <1>6, <1>7, <1>8, <1>9, <1>10, <1>11 DEF HandlerStep

(***************************************************************************)
(* No loop works while the constructor does, and none changes phase.       *)
(***************************************************************************)
LEMMA HandlersWaitForMain ==
  ASSUME HandlerInv, FailureInv, NEW t \in Threads, HandlerStep(t) \/ WakeUp(t)
  PROVE  phase' = phase /\ phase # "constructing"
<1>1. phase' = phase
  BY DEF HandlerStep, WakeUp, Refuse, ParseThrows, Accept, Connect, ConnectThrows, Compute,
         NeverReturn,
         Crash, OpenCsv, OpenFails, WriteRow, CloseCsv, WriteFails, ExecuteRow, SectionDone,
         StatementFails, Fail, Release, Reply, poolVars, TakePooled, BeginCreate, CreateOk,
         Block, CreateThrows, Drop, ReleaseConnection, SpuriousWakeup
<1>2. phase = "running" \/ pc[t] # "idle"
  BY DEF HandlerInv, ConnectionWhileUsed, Using, Table,
         HandlerStep, WakeUp, Refuse, ParseThrows, Accept, Serving, Connect, ConnectThrows, Compute,
         NeverReturn, Crash, OpenCsv, OpenFails, WriteRow, CloseCsv, WriteFails, ExecuteRow,
         SectionDone, StatementFails, Fail, Release, Reply, CreateThrows, Drop, SpuriousWakeup,
         After
<1>3. QED
  BY <1>1, <1>2 DEF FailureInv

(***************************************************************************)
(* Every request that is answered 500 after it has called getConnection    *)
(* costs the process one of the connections it can ever have; one whose    *)
(* body cannot be parsed costs nothing, and nothing else does: a pool of   *)
(* any size is out of connections after 2 * PoolSize such failures,        *)
(* however many requests succeed in between (CIBData.h:97-99,              *)
(* main.cpp:19, 39, 66-79).                                                *)
(***************************************************************************)
THEOREM EveryFailureCosts == QuerySpec => []EveryFailureCostsAConnection
<1>1. QueryInit => FailureInv
  BY DEF QueryInit, PoolInit, ServiceInit, FailureInv, BodiesAnswered
<1>2. HandlerInv /\ ReplyInv /\ OwnershipInv /\ FailureInv /\ [QueryNext]_queryVars
         => FailureInv'
  <2> SUFFICES ASSUME HandlerInv, ReplyInv, OwnershipInv, FailureInv,
                      [QueryNext]_queryVars
               PROVE  FailureInv'
    OBVIOUS
  <2>1. CASE StartUp
    BY <2>1, FillingUp
  <2>2. ASSUME NEW t \in Threads, HandlerStep(t) \/ WakeUp(t)
        PROVE  FailureInv'
    BY <2>2, HandlersWaitForMain, HandlerStepKeepsBalance, HandlerStepKeepsBodies DEF FailureInv
  <2>3. CASE UNCHANGED <<poolVars, pc, replies, logged>>
    BY <2>3 DEF poolVars, FailureInv, Balanced, Account, Lent, Connecting, Failed, BodiesAnswered
  <2>4. QED
    BY <2>1, <2>2, <2>3 DEF QueryNext, Stop, queryVars, serviceVars
<1>3. PoolSpec => []OwnershipInv
  BY OwnershipAtStart, TypeCorrect, OwnershipStep, PTL DEF PoolSpec
<1>4. QuerySpec => []OwnershipInv
  BY <1>3, ServiceUsesPool
<1>5. FailureInv => EveryFailureCostsAConnection
  BY DEF FailureInv, Balanced, Account, EveryFailureCostsAConnection
<1>6. QED
  BY <1>1, <1>2, <1>4, <1>5, HandlerInvariant, ReplyInvariant, PTL DEF QuerySpec
-------------------------------------------------------------------------
(***************************************************************************)
(* The file Configuration.csv, and what a request leaves in it and in the  *)
(* tables.  A row of the file is of a request, or a hole.                  *)
(***************************************************************************)
FileRow == (Requests \X (Nat \ {0})) \union {Hole}

(***************************************************************************)
(* A row put at an offset changes that place, and may leave holes in front *)
(* of it.                                                                  *)
(***************************************************************************)
LEMMA PutKeepsRows ==
  ASSUME csv \in Seq(FileRow), NEW n \in Nat \ {0}, NEW x \in FileRow
  PROVE  /\ Put(csv, n, x) \in Seq(FileRow)
         /\ \A m \in DOMAIN Put(csv, n, x) :
               \/ Put(csv, n, x)[m] = x
               \/ Put(csv, n, x)[m] = Hole
               \/ m \in DOMAIN csv /\ Put(csv, n, x)[m] = csv[m]
<1>1. PICK k \in Nat : k = IF n > Len(csv) THEN n ELSE Len(csv)
  BY LenProperties
<1>2. Put(csv, n, x) = [m \in 1..k |-> IF m = n THEN x
                                        ELSE IF m <= Len(csv) THEN csv[m] ELSE Hole]
  BY <1>1 DEF Put
<1>3. \A m \in 1..k : m <= Len(csv) => m \in DOMAIN csv /\ csv[m] \in FileRow
  BY LenProperties, ElementOfSeq
<1>4. \A m \in 1..k : (IF m = n THEN x ELSE IF m <= Len(csv) THEN csv[m] ELSE Hole) \in FileRow
  BY <1>3 DEF FileRow
<1>5. Put(csv, n, x) \in [1..k -> FileRow]
  BY <1>2, <1>4
<1>6. QED
  BY <1>2, <1>3, <1>5, SeqDef

(***************************************************************************)
(* A row put behind the last one is appended.                              *)
(***************************************************************************)
LEMMA PutAtTheEnd ==
  ASSUME NEW r, NEW n \in Nat
  PROVE  Put([m \in 1..n |-> <<r, m>>], n + 1, <<r, n + 1>>) = [m \in 1..n + 1 |-> <<r, m>>]
<1>1. Len([m \in 1..n |-> <<r, m>>]) = n
  OBVIOUS
<1>2. QED
  BY <1>1 DEF Put
-------------------------------------------------------------------------
(***************************************************************************)
(* What a request has left in the file.  It has left nothing before its    *)
(* handler has opened the file; and a request that was answered 400 or 500 *)
(* has left nothing at all, or the bill without its last line.             *)
(***************************************************************************)
NotInFile(r) == /\ \A n \in DOMAIN csv : csv[n] = Hole \/ csv[n][1] # r
                /\ r \notin created
NothingSaved(r) == \A s \in Table : saved[r][s] = 0
BillCutShort(r) == /\ "badQuantity" \in Mishaps
                   /\ saved[r] = [s \in Table |-> IF s = "InputBOM" THEN BomLines - 1 ELSE 0]

Early == {"getConnection", "getInputData", "relayConvert", "openCsv", "endless"}

HandlerFile(t) == cur[t] # NoRequest /\ pc[t] \in Early => NotInFile(cur[t])

RequestFile(r) ==
    /\ replies[r] = <<>> /\ (\A t \in Threads : cur[t] # r) => NotInFile(r)
    /\ replies[r] = <<400>> => NotInFile(r) /\ NothingSaved(r)
    /\ replies[r] = <<500>> => \/ NotInFile(r) /\ NothingSaved(r)
                               \/ BillCutShort(r)

FileInv == /\ csv \in Seq(FileRow)
           /\ created \subseteq Requests
           /\ \A t \in Threads : HandlerFile(t)
           /\ \A r \in Requests : RequestFile(r)

(***************************************************************************)
(* A handler leaves traces of its own request only.                        *)
(***************************************************************************)
LEMMA OwnTraces ==
  ASSUME ReplyInv, FileInv, NEW t \in Threads, NEW r \in Requests,
         cur[t] \in {r, NoRequest}, home[r] = t,
         \A u \in Threads \ {t} : pc'[u] = pc[u] /\ cur'[u] = cur[u],
         \A q \in Requests \ {r} : replies'[q] = replies[q] /\ saved'[q] = saved[q],
         \A q \in Requests \ {r} : NotInFile(q) => NotInFile(q)',
         csv' \in Seq(FileRow), created' \subseteq Requests,
         HandlerFile(t)', RequestFile(r)'
  PROVE  FileInv'
<1>1. ASSUME NEW u \in Threads \ {t}
      PROVE  HandlerFile(u)'
  <2>1. cur[u] # NoRequest => cur[u] \in Requests \ {r}
    BY DEF ReplyInv
  <2>2. HandlerFile(u)
    BY DEF FileInv
  <2>3. QED
    BY <2>1, <2>2 DEF HandlerFile
<1>2. ASSUME NEW q \in Requests \ {r}
      PROVE  RequestFile(q)'
  <2>1. (\A u \in Threads : cur'[u] # q) => \A u \in Threads : cur[u] # q
    BY ServiceAssumption
  <2>2. RequestFile(q)
    BY DEF FileInv
  <2>3. replies'[q] = replies[q] /\ saved'[q] = saved[q] /\ (NotInFile(q) => NotInFile(q)')
    OBVIOUS
  <2>4. (NothingSaved(q) => NothingSaved(q)') /\ (BillCutShort(q) => BillCutShort(q)')
    BY <2>3 DEF NothingSaved, BillCutShort
  <2>5. QED
    BY <2>1, <2>2, <2>3, <2>4 DEF RequestFile
<1>3. QED
  BY <1>1, <1>2 DEF FileInv

(***************************************************************************)
(* Steps that have nothing to do with the file, up to the one that opens   *)
(* it and from saveData on ...                                             *)
(***************************************************************************)
LEMMA GoesOnBesideTheFile ==
  ASSUME HandlerInv, ReplyInv, FileInv, NEW t \in Threads, NEW p,
         pc[t] # "idle", pc' = [pc EXCEPT ![t] = p], p \in Early => pc[t] \in Early,
         UNCHANGED <<home, cur, replies, csv, created>>,
         \A q \in Requests \ {cur[t]} : saved'[q] = saved[q]
  PROVE  FileInv'
<1>1. PICK r \in Requests : r = cur[t] /\ home[r] = t /\ replies[r] = <<>> /\ r # NoRequest
  BY CurrentRequest, ServiceAssumption
<1>2. pc'[t] = p /\ \A u \in Threads \ {t} : pc'[u] = pc[u] /\ cur'[u] = cur[u]
  BY DEF HandlerInv
<1>3. \A q \in Requests : NotInFile(q) => NotInFile(q)'
  BY DEF NotInFile
<1>4. HandlerFile(t)'
  BY <1>1, <1>2, <1>3 DEF FileInv, HandlerFile
<1>5. RequestFile(r)'
  <2>1. replies'[r] = <<>> /\ cur'[t] = r
    BY <1>1
  <2>2. QED
    BY <2>1 DEF RequestFile
<1>6. csv' \in Seq(FileRow) /\ created' \subseteq Requests
  BY DEF FileInv
<1>7. QED
  BY <1>1, <1>2, <1>3, <1>4, <1>5, <1>6, OwnTraces

(***************************************************************************)
(* ... those that write to it ...                                          *)
(***************************************************************************)
LEMMA WritesToTheFile ==
  ASSUME HandlerInv, ReplyInv, FileInv, NEW t \in Threads, NEW p,
         pc[t] # "idle", pc' = [pc EXCEPT ![t] = p], p \notin Early,
         UNCHANGED <<home, cur, replies, saved>>,
         created' \in {created, created \union {cur[t]}},
         csv' \in Seq(FileRow),
         \A m \in DOMAIN csv' : \/ csv'[m] = Hole \/ csv'[m][1] = cur[t]
                                \/ m \in DOMAIN csv /\ csv'[m] = csv[m]
  PROVE  FileInv'
<1>1. PICK r \in Requests : r = cur[t] /\ home[r] = t /\ replies[r] = <<>> /\ r # NoRequest
  BY CurrentRequest, ServiceAssumption
<1>2. pc'[t] = p /\ \A u \in Threads \ {t} : pc'[u] = pc[u] /\ cur'[u] = cur[u]
  BY DEF HandlerInv
<1>3. ASSUME NEW q \in Requests \ {r}, NotInFile(q)
      PROVE  NotInFile(q)'
  BY <1>1, <1>3 DEF NotInFile
<1>4. HandlerFile(t)'
  BY <1>2 DEF HandlerFile
<1>5. RequestFile(r)'
  <2>1. replies'[r] = <<>> /\ cur'[t] = r
    BY <1>1
  <2>2. QED
    BY <2>1 DEF RequestFile
<1>6. created' \subseteq Requests
  BY <1>1 DEF FileInv
<1>7. QED
  BY <1>1, <1>2, <1>3, <1>4, <1>5, <1>6, OwnTraces

(***************************************************************************)
(* ... and the answers: a 400 or 500 of a request that has left nothing,   *)
(* the 500 of saveData, and a 200.                                         *)
(***************************************************************************)
LEMMA TracesOfTheAnswered ==
  ASSUME HandlerInv, ReplyInv, FileInv, NEW t \in Threads, NEW r \in Requests,
         NEW status \in {200, 400, 500},
         cur[t] \in {r, NoRequest}, home[r] = t, replies[r] = <<>>,
         Finish(t, r, status), UNCHANGED <<csv, created, saved>>,
         \/ status = 200
         \/ NotInFile(r) /\ NothingSaved(r)
         \/ status = 500 /\ BillCutShort(r)
  PROVE  FileInv'
<1>1. /\ cur' = [cur EXCEPT ![t] = NoRequest]
      /\ replies' = [replies EXCEPT ![r] = <<status>>]
      /\ pc' = [pc EXCEPT ![t] = "idle"]
  BY DEF Finish, ReplyInv
<1>2. /\ \A u \in Threads \ {t} : pc'[u] = pc[u] /\ cur'[u] = cur[u]
      /\ \A q \in Requests \ {r} : replies'[q] = replies[q] /\ saved'[q] = saved[q]
      /\ replies'[r] = <<status>> /\ pc'[t] = "idle"
  BY <1>1 DEF HandlerInv, ReplyInv
<1>3. /\ \A q \in Requests : NotInFile(q) => NotInFile(q)'
      /\ NothingSaved(r) => NothingSaved(r)'
      /\ BillCutShort(r) => BillCutShort(r)'
  BY DEF NotInFile, NothingSaved, BillCutShort
<1>4. HandlerFile(t)'
  BY <1>2 DEF HandlerFile, Early
<1>5. RequestFile(r)'
  <2>1. replies'[r] # <<>> /\ (replies'[r] = <<400>> => status = 400)
        /\ (replies'[r] = <<500>> => status = 500)
    BY <1>2
  <2>2. QED
    BY <1>3, <2>1 DEF RequestFile
<1>6. csv' \in Seq(FileRow) /\ created' \subseteq Requests
  BY DEF FileInv
<1>7. QED
  BY <1>2, <1>3, <1>4, <1>5, <1>6, OwnTraces

(***************************************************************************)
(* Before the tables a handler has saved nothing, and in the first one     *)
(* only the rows it has gone through.                                      *)
(***************************************************************************)
LEMMA NothingSavedYet ==
  ASSUME ReplyInv, SaveInv, NEW t \in Threads, pc[t] # "idle", ~ Saving(pc[t])
  PROVE  NothingSaved(cur[t])
<1>1. cur[t] # NoRequest
  BY CurrentRequest, ServiceAssumption
<1>2. \A s \in Table : pc[t] # s /\ ~ Past(pc[t], s)
  BY DEF Saving, Past, Table
<1>3. QED
  BY <1>1, <1>2 DEF SaveInv, HandlerRows, NothingSaved

LEMMA UnreadableCutsTheBill ==
  ASSUME ReplyInv, SaveInv, NEW t \in Threads, Unreadable(t)
  PROVE  BillCutShort(cur[t])
<1>1. pc[t] = "InputBOM" /\ row[t] + 1 = BomLines /\ "badQuantity" \in Mishaps
  BY DEF Unreadable
<1>2. cur[t] \in Requests /\ cur[t] # NoRequest /\ row[t] \in Nat
  BY <1>1, CurrentRequest, ServiceAssumption DEF SaveInv
<1>3. saved[cur[t]]["InputBOM"] = row[t]
  BY <1>1, <1>2 DEF SaveInv, HandlerRows, Table
<1>4. \A s \in Table \ {"InputBOM"} : saved[cur[t]][s] = 0
  <2>1. \A s \in Table \ {"InputBOM"} : pc[t] # s /\ ~ Past(pc[t], s)
    BY <1>1 DEF Past, Table
  <2>2. QED
    BY <1>2, <2>1 DEF SaveInv, HandlerRows
<1>5. saved[cur[t]] \in [Table -> Nat] /\ "InputBOM" \in Table
  BY <1>2 DEF SaveInv, Table
<1>6. row[t] = BomLines - 1
  BY <1>1, <1>2, ServiceAssumption
<1>7. saved[cur[t]] = [s \in Table |-> IF s = "InputBOM" THEN BomLines - 1 ELSE 0]
  BY <1>3, <1>4, <1>5, <1>6
<1>8. QED
  BY <1>1, <1>7 DEF BillCutShort

LEMMA HandlerStepKeepsFile ==
  ASSUME HandlerInv, ReplyInv, SaveInv, FileInv, NEW t \in Threads, HandlerStep(t)
  PROVE  FileInv'
<1> USE StepsOfTheReply
<1>a. pc \in [Threads -> Step] /\ row \in [Threads -> Nat] /\ csv \in Seq(FileRow)
  BY DEF HandlerInv, SaveInv, FileInv
<1>1. CASE Refuse(t) \/ ParseThrows(t)
  <2>1. PICK r \in Pending(t), status \in {400, 500} : Finish(t, r, status)
    BY <1>1 DEF Refuse, ParseThrows
  <2>2. r \in Requests /\ home[r] = t /\ replies[r] = <<>> /\ cur[t] = NoRequest
    BY <1>1 DEF Refuse, ParseThrows, Pending, Serving, ReplyInv
  <2>3. \A u \in Threads : cur[u] # r
    BY <2>2, ServiceAssumption DEF ReplyInv
  <2>4. NotInFile(r) /\ NothingSaved(r)
    BY <2>2, <2>3 DEF FileInv, RequestFile, SaveInv, RequestRows, NothingSaved
  <2>5. UNCHANGED <<csv, created, saved>>
    BY <1>1 DEF Refuse, ParseThrows
  <2>6. QED
    BY <2>1, <2>2, <2>4, <2>5, TracesOfTheAnswered
<1>2. CASE Accept(t)
  <2>1. PICK r \in Pending(t) : cur' = [cur EXCEPT ![t] = r]
    BY <1>2 DEF Accept
  <2>2. /\ r \in Requests /\ home[r] = t /\ replies[r] = <<>> /\ r # NoRequest
        /\ cur[t] = NoRequest
    BY <1>2, ServiceAssumption DEF Accept, Pending, Serving, ReplyInv
  <2>3. /\ pc' = [pc EXCEPT ![t] = "getConnection"]
        /\ UNCHANGED <<replies, csv, created, saved>>
    BY <1>2 DEF Accept
  <2>4. cur'[t] = r /\ \A u \in Threads \ {t} : pc'[u] = pc[u] /\ cur'[u] = cur[u]
    BY <1>a, <2>1, <2>3 DEF ReplyInv
  <2>5. \A u \in Threads : cur[u] # r
    BY <2>2, <2>4, ServiceAssumption DEF ReplyInv
  <2>6. NotInFile(r)
    BY <2>2, <2>5 DEF FileInv, RequestFile
  <2>7. \A q \in Requests : NotInFile(q) => NotInFile(q)'
    BY <2>3 DEF NotInFile
  <2>8. HandlerFile(t)'
    BY <2>2, <2>4, <2>6, <2>7 DEF HandlerFile
  <2>9. RequestFile(r)'
    <3>1. replies'[r] = <<>>
      BY <2>2, <2>3
    <3>2. QED
      BY <2>2, <2>6, <2>7, <3>1 DEF RequestFile
  <2>10. csv' \in Seq(FileRow) /\ created' \subseteq Requests
    BY <2>3 DEF FileInv
  <2>11. QED
    BY <2>2, <2>3, <2>4, <2>7, <2>8, <2>9, <2>10, OwnTraces
<1>3. CASE Connect(t)
  <2>1. pc[t] = "getConnection" /\ UNCHANGED <<home, cur, replies, csv, created, saved>>
    BY <1>3 DEF Connect
  <2>2. \E p : pc' = [pc EXCEPT ![t] = p]
    <3>1. CASE at'[t] = "holding"
      BY <1>3, <3>1 DEF Connect, GoOn
    <3>2. CASE at'[t] # "holding"
      <4>1. pc' = [pc EXCEPT ![t] = pc[t]]
        BY <1>3, <1>a, <3>2 DEF Connect
      <4>2. QED
        BY <4>1
    <3>3. QED
      BY <3>1, <3>2
  <2>3. QED
    BY <2>1, <2>2, GoesOnBesideTheFile DEF Early
<1>4. CASE ConnectThrows(t)
  <2>1. pc[t] = "getConnection"
    BY <1>4 DEF ConnectThrows, CreateThrows, HandlerInv, ConnectionWhileUsed, Using, After
  <2>2. Finish(t, cur[t], 500) /\ UNCHANGED <<csv, created, saved>>
    BY <1>4 DEF ConnectThrows
  <2>3. cur[t] \in Requests /\ cur[t] # NoRequest /\ home[cur[t]] = t /\ replies[cur[t]] = <<>>
    BY <2>1, CurrentRequest, ServiceAssumption
  <2>4. NotInFile(cur[t]) /\ NothingSaved(cur[t])
    BY <2>1, <2>3, NothingSavedYet DEF FileInv, HandlerFile, Early, Saving, Table
  <2>5. QED
    BY <2>2, <2>3, <2>4, TracesOfTheAnswered
<1>5. CASE Compute(t) \/ NeverReturn(t)
  <2>1. /\ \E p : pc' = [pc EXCEPT ![t] = p]
        /\ pc[t] \in {"getInputData", "relayConvert"}
        /\ UNCHANGED <<home, cur, replies, csv, created, saved>>
    BY <1>5 DEF Compute, NeverReturn, GoOn
  <2>2. QED
    BY <2>1, GoesOnBesideTheFile DEF Early
<1>6. CASE OpenFails(t)
  <2>1. /\ \E p : pc' = [pc EXCEPT ![t] = p]
        /\ pc[t] = "openCsv"
        /\ UNCHANGED <<home, cur, replies, csv, created, saved>>
    BY <1>6 DEF OpenFails
  <2>2. QED
    BY <2>1, GoesOnBesideTheFile DEF Early
<1>7. CASE OpenCsv(t)
  <2>1. /\ pc[t] = "openCsv" /\ pc' = [pc EXCEPT ![t] = "writeCsv"] /\ csv' = <<>>
        /\ UNCHANGED <<home, cur, replies, created, saved>>
    BY <1>7 DEF OpenCsv, GoOn, After
  <2>2. csv' \in Seq(FileRow) /\ DOMAIN csv' = {}
    BY <2>1
  <2>3. QED
    BY <2>1, <2>2, WritesToTheFile DEF Early
<1>8. CASE WriteRow(t) \/ CloseCsv(t) \/ WriteFails(t)
  <2>1. /\ pc[t] = "writeCsv" /\ \E p \in {"writeCsv", "InputBOM"} : pc' = [pc EXCEPT ![t] = p]
        /\ UNCHANGED <<home, cur, replies, saved>>
        /\ created' \in {created, created \union {cur[t]}}
        /\ csv' \in {csv, Put(csv, row[t] + 1, <<cur[t], row[t] + 1>>)}
    <3>1. CASE WriteRow(t)
      <4>1. pc' = [pc EXCEPT ![t] = "writeCsv"]
        BY <1>a, <3>1 DEF WriteRow
      <4>2. QED
        BY <3>1, <4>1 DEF WriteRow
    <3>2. CASE CloseCsv(t) \/ WriteFails(t)
      BY <3>2 DEF CloseCsv, WriteFails, GoOn, After
    <3>3. QED
      BY <1>8, <3>1, <3>2
  <2>2. cur[t] \in Requests /\ row[t] + 1 \in Nat \ {0}
    BY <1>a, <2>1, CurrentRequest
  <2>3. <<cur[t], row[t] + 1>> \in FileRow /\ Hole \in FileRow
    BY <2>2 DEF FileRow
  <2>4. /\ csv' \in Seq(FileRow)
        /\ \A m \in DOMAIN csv' : \/ csv'[m] = Hole \/ csv'[m][1] = cur[t]
                                  \/ m \in DOMAIN csv /\ csv'[m] = csv[m]
    <3>1. CASE csv' = csv
      BY <1>a, <3>1
    <3>2. CASE csv' = Put(csv, row[t] + 1, <<cur[t], row[t] + 1>>)
      <4>1. PICK n \in Nat \ {0} : n = row[t] + 1
        BY <2>2
      <4>2. PICK x \in FileRow : x = <<cur[t], n>> /\ x[1] = cur[t]
        BY <2>3, <4>1
      <4>3. csv' = Put(csv, n, x)
        BY <3>2, <4>1, <4>2
      <4>4. /\ Put(csv, n, x) \in Seq(FileRow)
            /\ \A m \in DOMAIN Put(csv, n, x) :
                  \/ Put(csv, n, x)[m] = x
                  \/ Put(csv, n, x)[m] = Hole
                  \/ m \in DOMAIN csv /\ Put(csv, n, x)[m] = csv[m]
        BY <1>a, <2>3, <4>1, <4>2, PutKeepsRows
      <4>5. QED
        BY <4>2, <4>3, <4>4
    <3>3. QED
      BY <2>1, <3>1, <3>2
  <2>5. pc[t] # "idle" /\ "writeCsv" \notin Early /\ "InputBOM" \notin Early
    BY <2>1 DEF Early
  <2>6. QED
    BY <2>1, <2>4, <2>5, WritesToTheFile
<1>9. CASE ExecuteRow(t)
  <2>1. /\ pc[t] \in Table /\ pc' = [pc EXCEPT ![t] = pc[t]]
        /\ UNCHANGED <<home, cur, replies, csv, created>>
        /\ \A q \in Requests \ {cur[t]} : saved'[q] = saved[q]
    BY <1>9, <1>a DEF ExecuteRow, SaveInv
  <2>2. pc[t] # "idle" /\ pc[t] \notin Early
    BY <2>1 DEF Table, Early
  <2>3. QED
    BY <2>1, <2>2, GoesOnBesideTheFile
<1>10. CASE SectionDone(t) \/ StatementFails(t) \/ Release(t)
  <2>1. /\ pc[t] \in Table \union {"releaseConnection"} /\ pc' = [pc EXCEPT ![t] = After[pc[t]]]
        /\ UNCHANGED <<home, cur, replies, csv, created, saved>>
    BY <1>10 DEF SectionDone, StatementFails, Release, GoOn
  <2>2. pc[t] # "idle" /\ After[pc[t]] \notin Early
    BY <2>1 DEF Table, Early, After
  <2>3. QED
    BY <2>1, <2>2, GoesOnBesideTheFile
<1>11. CASE Crash(t)
  BY <1>11 DEF Crash, FileInv, HandlerFile, RequestFile, NotInFile, NothingSaved, BillCutShort
<1>12. CASE Fail(t)
  <2>1. Raises(t) /\ Finish(t, cur[t], 500) /\ UNCHANGED <<csv, created, saved>>
    BY <1>12 DEF Fail
  <2>2. pc[t] \in {"getInputData", "relayConvert"} \/ Unreadable(t)
    BY <2>1 DEF Raises
  <2>3. pc[t] # "idle"
    BY <2>2 DEF Unreadable
  <2>4. cur[t] \in Requests /\ cur[t] # NoRequest /\ home[cur[t]] = t /\ replies[cur[t]] = <<>>
    BY <2>3, CurrentRequest, ServiceAssumption
  <2>5. CASE pc[t] \in {"getInputData", "relayConvert"}
    <3>1. NotInFile(cur[t]) /\ NothingSaved(cur[t])
      BY <2>4, <2>5, NothingSavedYet DEF FileInv, HandlerFile, Early, Saving, Table
    <3>2. QED
      BY <2>1, <2>4, <3>1, TracesOfTheAnswered
  <2>6. CASE Unreadable(t)
    BY <2>1, <2>4, <2>6, UnreadableCutsTheBill, TracesOfTheAnswered
  <2>7. QED
    BY <2>2, <2>5, <2>6
<1>13. CASE Reply(t)
  <2>1. pc[t] # "idle" /\ Finish(t, cur[t], 200) /\ UNCHANGED <<csv, created, saved>>
    BY <1>13 DEF Reply
  <2>2. QED
    BY <2>1, CurrentRequest, TracesOfTheAnswered
<1>14. QED
  BY <1>1, <1>2, <1>3, <1>4, <1>5, <1>6, <1>7, <1>8, <1>9, <1>10, <1>11, <1>12, <1>13
     DEF HandlerStep

LEMMA FileInvariant == QuerySpec => []FileInv
<1>1. QueryInit => FileInv
  BY DEF QueryInit, ServiceInit, FileInv, HandlerFile, RequestFile, NotInFile
<1>2. HandlerInv /\ ReplyInv /\ SaveInv /\ FileInv /\ [QueryNext]_queryVars => FileInv'
  <2> SUFFICES ASSUME HandlerInv, ReplyInv, SaveInv, FileInv, [QueryNext]_queryVars
               PROVE  FileInv'
    OBVIOUS
  <2>1. ASSUME NEW t \in Threads, HandlerStep(t)
        PROVE  FileInv'
    BY <2>1, HandlerStepKeepsFile
  <2>2. CASE UNCHANGED <<pc, cur, replies, created, csv, saved>>
    BY <2>2 DEF FileInv, HandlerFile, RequestFile, NotInFile, NothingSaved, BillCutShort
  <2>3. QED
    BY <2>1, <2>2 DEF QueryNext, StartUp, WakeUp, Stop, queryVars, serviceVars
<1>3. QED
  BY <1>1, <1>2, HandlerInvariant, ReplyInvariant, SaveInvariant, PTL DEF QuerySpec

(***************************************************************************)
(* What a request that failed leaves behind is known from the way it       *)
(* failed: nothing, or the bill without its last line (main.cpp:47-56,     *)
(* Output.cpp:53).                                                         *)
(***************************************************************************)
THEOREM FailureIsKnown == QuerySpec => []FailureLeavesKnownRows
<1>1. FileInv => FailureLeavesKnownRows
  BY DEF FileInv, RequestFile, NotInFile, NothingSaved, BillCutShort, Untouched,
         FailureLeavesKnownRows
<1>2. QED
  BY <1>1, FileInvariant, PTL
-------------------------------------------------------------------------
(***************************************************************************)
(* Type correctness of the service: the domains that the invariants above  *)
(* have, and those of what none of them is about.                          *)
(***************************************************************************)
RestTypeOK == /\ logged \subseteq Requests \X Reported
              /\ home \in Homes
              /\ life \in {"up", "stopping", "ended"}

THEOREM ServiceTypeCorrect == QuerySpec => []QueryTypeOK
<1>1. QueryInit => RestTypeOK
  BY DEF QueryInit, ServiceInit, RestTypeOK
<1>2. ReplyInv /\ RestTypeOK /\ [QueryNext]_queryVars => RestTypeOK'
  <2> SUFFICES ASSUME ReplyInv, RestTypeOK, [QueryNext]_queryVars
               PROVE  RestTypeOK'
    OBVIOUS
  <2> USE DEF RestTypeOK
  <2>1. ASSUME NEW t \in Threads, StatementFails(t) \/ OpenFails(t) \/ ParseThrows(t)
        PROVE  RestTypeOK'
    <3>1. CASE StatementFails(t) \/ OpenFails(t)
      <4>1. pc[t] # "idle"
        BY <3>1 DEF StatementFails, OpenFails, Table
      <4>2. cur[t] \in Requests
        BY <4>1, CurrentRequest
      <4>3. QED
        BY <3>1, <4>2 DEF StatementFails, OpenFails, Reported
    <3>2. CASE ParseThrows(t)
      BY <3>2 DEF ParseThrows, Pending, Reported
    <3>3. QED
      BY <2>1, <3>1, <3>2
  <2>2. ASSUME NEW t \in Threads, Stop(t) \/ Crash(t)
        PROVE  RestTypeOK'
    BY <2>2 DEF Stop, Crash
  <2>3. CASE UNCHANGED <<logged, home, life>>
    BY <2>3
  <2>4. ASSUME NEW t \in Threads, HandlerStep(t)
        PROVE  RestTypeOK'
    <3>1. \/ StatementFails(t) \/ OpenFails(t) \/ ParseThrows(t) \/ Crash(t)
          \/ UNCHANGED <<logged, home, life>>
      BY <2>4 DEF HandlerStep, Refuse, Accept, Connect, ConnectThrows, Compute, NeverReturn,
                  OpenCsv, WriteRow, CloseCsv, WriteFails, ExecuteRow, SectionDone,
                  Fail, Release, Reply
    <3>2. QED
      BY <2>1, <2>2, <2>3, <3>1
  <2>5. QED
    BY <2>2, <2>3, <2>4 DEF QueryNext, StartUp, WakeUp, queryVars, serviceVars
<1>3. TypeOK /\ HandlerInv /\ ReplyInv /\ SaveInv /\ FileInv /\ RestTypeOK => QueryTypeOK
  <2> SUFFICES ASSUME FileInv
               PROVE  \A n \in DOMAIN csv : csv[n] \in FileRow
    BY DEF HandlerInv, ReplyInv, SaveInv, FileInv, RestTypeOK, QueryTypeOK, FileRow
  <2>1. QED
    BY ElementOfSeq DEF FileInv
<1>4. QuerySpec => []TypeOK
  BY ServiceUsesPool, TypeCorrect
<1>5. QED
  BY <1>1, <1>2, <1>3, <1>4, HandlerInvariant, ReplyInvariant, SaveInvariant, FileInvariant, PTL
     DEF QuerySpec
-------------------------------------------------------------------------
(***************************************************************************)
(* The file, if all clients are of one loop.  It is what a request wrote,  *)
(* as far as it has come: while a handler is writing, as many rows as it   *)
(* has put there; and once it has reported the file as created, nobody     *)
(* else opens it before the handler is done.                               *)
(***************************************************************************)
OneLoop == \A r, q \in Requests : home[r] = home[q]

FirstRows(r, n) == [m \in 1..n |-> <<r, m>>]
BeginningOf(r) == \E n \in 0..RelayAmount[r] : csv = FirstRows(r, n)

WholeUnlessWriteFails(r) == "csvWrite" \notin Mishaps => csv = RowsOf(r)

WritesInOrder(t) ==
    cur[t] # NoRequest =>
       /\ pc[t] = "writeCsv" => /\ csv = FirstRows(cur[t], row[t])
                                /\ row[t] = 0 \/ row[t] < RelayAmount[cur[t]]
                                /\ cur[t] \notin created
       /\ cur[t] \in created => BeginningOf(cur[t]) /\ WholeUnlessWriteFails(cur[t])

OneFileInv == /\ csv = <<>> \/ \E r \in Requests : BeginningOf(r)
              /\ \A t \in Threads : WritesInOrder(t)

LEMMA BeginningIsPrefix ==
  ASSUME NEW r \in Requests, BeginningOf(r)
  PROVE  IsPrefix(csv, RowsOf(r))
<1>1. PICK n \in 0..RelayAmount[r] : csv = FirstRows(r, n)
  BY DEF BeginningOf
<1>2. RelayAmount[r] \in Nat /\ n \in Nat /\ n <= RelayAmount[r]
  BY ServiceAssumption
<1>3. /\ Len(csv) = n /\ Len(RowsOf(r)) = RelayAmount[r]
      /\ csv = [m \in 1..n |-> <<r, m>>] /\ RowsOf(r) = [m \in 1..RelayAmount[r] |-> <<r, m>>]
  BY <1>1, <1>2 DEF FirstRows, RowsOf
<1>4. SubSeq(csv, 1, n) = [m \in 1..n |-> csv[m]]
  BY <1>2, <1>3
<1>5. SubSeq(RowsOf(r), 1, n) = [m \in 1..n |-> RowsOf(r)[m]]
  BY <1>2, <1>3
<1>6. \A m \in 1..n : csv[m] = RowsOf(r)[m]
  BY <1>2, <1>3
<1>7. SubSeq(csv, 1, n) = SubSeq(RowsOf(r), 1, n)
  BY <1>4, <1>5, <1>6
<1>8. QED
  BY <1>2, <1>3, <1>7 DEF IsPrefix

(***************************************************************************)
(* With one loop, all others have nothing to do.                           *)
(***************************************************************************)
LEMMA OthersAreIdle ==
  ASSUME OneLoop, ReplyInv, NEW t \in Threads, NEW r \in Requests, home[r] = t,
         NEW u \in Threads \ {t}
  PROVE  cur[u] = NoRequest
BY DEF OneLoop, ReplyInv

LEMMA OnlyLoop ==
  ASSUME OneLoop, HandlerInv, ReplyInv, OneFileInv,
         NEW t \in Threads, NEW r \in Requests, home[r] = t,
         \A u \in Threads \ {t} : cur'[u] = cur[u],
         csv' = <<>> \/ csv' = csv \/ BeginningOf(r)',
         WritesInOrder(t)'
  PROVE  OneFileInv'
<1>1. \A u \in Threads \ {t} : WritesInOrder(u)'
  BY OthersAreIdle DEF WritesInOrder
<1>2. csv' = <<>> \/ \E q \in Requests : BeginningOf(q)'
  <2>1. CASE csv' = csv
    BY <2>1 DEF OneFileInv, BeginningOf
  <2>2. QED
    BY <2>1
<1>3. QED
  BY <1>1, <1>2 DEF OneFileInv

(***************************************************************************)
(* The file is as it was, and so is what the handler has reported.         *)
(***************************************************************************)
LEMMA FileIsLeftAlone ==
  ASSUME OneLoop, HandlerInv, ReplyInv, OneFileInv, NEW t \in Threads, NEW p,
         pc[t] # "idle", pc' = [pc EXCEPT ![t] = p], p # "writeCsv",
         UNCHANGED <<home, cur, csv, created>>
  PROVE  OneFileInv'
<1>1. cur[t] \in Requests /\ home[cur[t]] = t
  BY CurrentRequest
<1>2. pc'[t] = p
  BY DEF HandlerInv
<1>3. WritesInOrder(t)'
  BY <1>2 DEF OneFileInv, WritesInOrder, BeginningOf, WholeUnlessWriteFails
<1>4. QED
  BY <1>1, <1>3, OnlyLoop

LEMMA HandlerStepKeepsOneFile ==
  ASSUME OneLoop, HandlerInv, ReplyInv, SaveInv, FileInv, OneFileInv,
         NEW t \in Threads, HandlerStep(t)
  PROVE  OneFileInv'
<1> USE StepsOfTheReply
<1>a. /\ pc \in [Threads -> Step] /\ row \in [Threads -> Nat]
      /\ \A r \in Requests : RelayAmount[r] \in Nat
  BY ServiceAssumption DEF HandlerInv, SaveInv
<1>b. ASSUME NEW r \in Requests, home[r] = t, cur' = [cur EXCEPT ![t] = NoRequest],
             UNCHANGED <<csv, created>>
      PROVE  OneFileInv'
  <2>1. cur'[t] = NoRequest /\ \A u \in Threads \ {t} : cur'[u] = cur[u]
    BY <1>b DEF ReplyInv
  <2>2. WritesInOrder(t)'
    BY <2>1 DEF WritesInOrder
  <2>3. QED
    BY <1>b, <2>1, <2>2, OnlyLoop
<1>1. CASE Refuse(t) \/ ParseThrows(t)
  <2>1. PICK r \in Pending(t), status \in {400, 500} : Finish(t, r, status)
    BY <1>1 DEF Refuse, ParseThrows
  <2>2. QED
    BY <1>1, <1>b, <2>1 DEF Refuse, ParseThrows, Pending, Finish
<1>2. CASE Accept(t)
  <2>1. PICK r \in Pending(t) : cur' = [cur EXCEPT ![t] = r]
    BY <1>2 DEF Accept
  <2>2. r \in Requests /\ home[r] = t /\ replies[r] = <<>> /\ cur[t] = NoRequest
    BY <1>2 DEF Accept, Pending, Serving, ReplyInv
  <2>3. /\ pc' = [pc EXCEPT ![t] = "getConnection"] /\ UNCHANGED <<csv, created>>
    BY <1>2 DEF Accept
  <2>4. cur'[t] = r /\ pc'[t] = "getConnection" /\ \A u \in Threads \ {t} : cur'[u] = cur[u]
    BY <1>a, <2>1, <2>3 DEF ReplyInv
  <2>5. r \notin created
    <3>1. \A u \in Threads : cur[u] # r
      BY <2>2, ServiceAssumption DEF ReplyInv
    <3>2. QED
      BY <2>2, <3>1 DEF FileInv, RequestFile, NotInFile
  <2>6. WritesInOrder(t)'
    BY <2>3, <2>4, <2>5 DEF WritesInOrder
  <2>7. QED
    BY <2>2, <2>3, <2>4, <2>6, OnlyLoop
<1>3. CASE Connect(t)
  <2>1. pc[t] = "getConnection" /\ UNCHANGED <<home, cur, csv, created>>
    BY <1>3 DEF Connect
  <2>2. \E p : p # "writeCsv" /\ pc' = [pc EXCEPT ![t] = p]
    <3>1. CASE at'[t] = "holding"
      <4>1. pc' = [pc EXCEPT ![t] = "getInputData"]
        BY <1>3, <2>1, <3>1 DEF Connect, GoOn, After
      <4>2. QED
        BY <4>1
    <3>2. CASE at'[t] # "holding"
      <4>1. pc' = [pc EXCEPT ![t] = "getConnection"]
        BY <1>3, <1>a, <2>1, <3>2 DEF Connect
      <4>2. QED
        BY <4>1
    <3>3. QED
      BY <3>1, <3>2
  <2>3. QED
    BY <2>1, <2>2, FileIsLeftAlone
<1>4. CASE ConnectThrows(t) \/ Fail(t) \/ Reply(t)
  <2>1. pc[t] # "idle"
    BY <1>4 DEF ConnectThrows, CreateThrows, Fail, Drop, Reply, HandlerInv, ConnectionWhileUsed
  <2>2. cur' = [cur EXCEPT ![t] = NoRequest] /\ UNCHANGED <<csv, created>>
    BY <1>4 DEF ConnectThrows, Fail, Reply, Finish
  <2>3. QED
    BY <1>b, <2>1, <2>2, CurrentRequest
<1>5. CASE Compute(t) \/ NeverReturn(t) \/ OpenFails(t)
  <2>1. /\ \E p \in {"relayConvert", "openCsv", "endless", "InputBOM"} : pc' = [pc EXCEPT ![t] = p]
        /\ pc[t] \in {"getInputData", "relayConvert", "openCsv"}
        /\ UNCHANGED <<home, cur, csv, created>>
    BY <1>5 DEF Compute, NeverReturn, OpenFails, GoOn, After
  <2>2. QED
    BY <2>1, FileIsLeftAlone
<1>6. CASE OpenCsv(t)
  <2>1. /\ pc[t] = "openCsv" /\ pc' = [pc EXCEPT ![t] = "writeCsv"] /\ csv' = <<>>
        /\ row' = [row EXCEPT ![t] = 0] /\ UNCHANGED <<home, cur, created>>
    BY <1>6 DEF OpenCsv, GoOn, After
  <2>2. cur[t] \in Requests /\ home[cur[t]] = t /\ cur[t] # NoRequest
    BY <2>1, CurrentRequest, ServiceAssumption
  <2>3. cur[t] \notin created
    BY <2>1, <2>2 DEF FileInv, HandlerFile, NotInFile, Early
  <2>4. row'[t] = 0 /\ csv' = FirstRows(cur[t], 0)
    BY <1>a, <2>1 DEF FirstRows
  <2>5. WritesInOrder(t)'
    BY <2>1, <2>3, <2>4 DEF WritesInOrder
  <2>6. QED
    BY <2>1, <2>2, <2>5, OnlyLoop
<1>7. CASE WriteRow(t) \/ CloseCsv(t) \/ WriteFails(t)
  <2>1. pc[t] = "writeCsv" /\ UNCHANGED <<home, cur>>
    BY <1>7 DEF WriteRow, CloseCsv, WriteFails
  <2>2. PICK r \in Requests : r = cur[t] /\ home[r] = t /\ r # NoRequest
    BY <2>1, CurrentRequest, ServiceAssumption
  <2>3. PICK n \in Nat : n = row[t]
    BY <1>a
  <2>4. csv = FirstRows(r, n) /\ (n = 0 \/ n < RelayAmount[r])
    BY <2>1, <2>2, <2>3 DEF OneFileInv, WritesInOrder
  <2>5. Put(csv, n + 1, <<r, n + 1>>) = FirstRows(r, n + 1)
    BY <2>4, PutAtTheEnd DEF FirstRows
  <2>6. BeginningOf(r)
    BY <1>a, <2>4 DEF BeginningOf
  <2>7. CASE WriteRow(t)
    <3>1. /\ csv' = FirstRows(r, n + 1) /\ n + 1 < RelayAmount[r] /\ row'[t] = n + 1
      BY <1>a, <2>2, <2>3, <2>5, <2>7 DEF WriteRow
    <3>2. BeginningOf(r)'
      BY <1>a, <3>1 DEF BeginningOf
    <3>3. WritesInOrder(t)'
      <4>1. r \notin created'
        BY <2>1, <2>2, <2>7 DEF WriteRow, OneFileInv, WritesInOrder
      <4>2. QED
        BY <2>1, <2>2, <3>1, <4>1 DEF WritesInOrder
    <3>4. QED
      BY <2>1, <2>2, <3>2, <3>3, OnlyLoop
  <2>8. CASE CloseCsv(t) \/ WriteFails(t)
    <3>1. pc'[t] = "InputBOM"
      BY <1>a, <2>8 DEF CloseCsv, WriteFails, GoOn, After
    <3>2. BeginningOf(r)'
      <4>1. CASE csv' = csv
        BY <2>6, <4>1 DEF BeginningOf
      <4>2. CASE csv' # csv
        <5>1. csv' = FirstRows(r, n + 1) /\ RelayAmount[r] # 0
          BY <2>2, <2>3, <2>5, <2>8, <4>2 DEF CloseCsv, WriteFails
        <5>2. n + 1 \in 0..RelayAmount[r]
          BY <1>a, <2>4, <5>1
        <5>3. QED
          BY <5>1, <5>2 DEF BeginningOf
      <4>3. QED
        BY <4>1, <4>2
    <3>3. WholeUnlessWriteFails(r)'
      <4>1. SUFFICES ASSUME CloseCsv(t)
                     PROVE  csv' = FirstRows(r, RelayAmount[r])
        BY <2>8 DEF WholeUnlessWriteFails, WriteFails, FirstRows, RowsOf
      <4>2. CASE RelayAmount[r] = 0
        BY <1>a, <2>2, <2>4, <4>1, <4>2 DEF CloseCsv
      <4>3. CASE RelayAmount[r] # 0
        <5>1. csv' = FirstRows(r, n + 1) /\ n + 1 >= RelayAmount[r]
          BY <2>2, <2>3, <2>5, <4>1, <4>3 DEF CloseCsv
        <5>2. n + 1 = RelayAmount[r]
          BY <1>a, <2>4, <4>3, <5>1
        <5>3. QED
          BY <5>1, <5>2
      <4>4. QED
        BY <4>2, <4>3
    <3>4. WritesInOrder(t)'
      BY <2>1, <2>2, <3>1, <3>2, <3>3 DEF WritesInOrder
    <3>5. QED
      BY <2>1, <2>2, <3>2, <3>4, OnlyLoop
  <2>9. QED
    BY <1>7, <2>7, <2>8
<1>8. CASE ExecuteRow(t) \/ SectionDone(t) \/ StatementFails(t) \/ Release(t)
  <2>1. /\ pc[t] \in Table \union {"releaseConnection"}
        /\ pc' = [pc EXCEPT ![t] = pc[t]] \/ pc' = [pc EXCEPT ![t] = After[pc[t]]]
        /\ UNCHANGED <<home, cur, csv, created>>
    BY <1>8, <1>a DEF ExecuteRow, SectionDone, StatementFails, Release, GoOn
  <2>2. pc[t] # "idle" /\ pc[t] # "writeCsv" /\ After[pc[t]] # "writeCsv"
    BY <2>1 DEF Table, After
  <2>3. QED
    BY <2>1, <2>2, FileIsLeftAlone
<1>9. CASE Crash(t)
  BY <1>9 DEF Crash, OneFileInv, WritesInOrder, BeginningOf, WholeUnlessWriteFails
<1>10. QED
  BY <1>1, <1>2, <1>3, <1>4, <1>5, <1>6, <1>7, <1>8, <1>9 DEF HandlerStep

(***************************************************************************)
(* A handler that has reported the file as created finds all rows of its   *)
(* request there, and no others, until it is done, if all requests come    *)
(* from clients of one loop and no write ever fails.                       *)
(***************************************************************************)
CreatedIsWhole ==
    OneLoop => \A t \in Threads : cur[t] \in created => WholeUnlessWriteFails(cur[t])

(***************************************************************************)
(* If all requests come from clients of one loop, the file is the          *)
(* beginning of what one request wrote, and while a handler goes on after  *)
(* it has reported the file as created, the rows are the first rows of its *)
(* own request: all of them, unless a write may have failed                *)
(* (Output.cpp:11-36).                                                     *)
(***************************************************************************)
THEOREM FileOfOneRequest == QuerySpec => [](CsvOfOneRequest /\ CreatedIsWhole)
<1>1. QueryInit => (OneLoop => OneFileInv)
  BY DEF QueryInit, ServiceInit, OneFileInv, WritesInOrder
<1>2. HandlerInv /\ ReplyInv /\ SaveInv /\ FileInv /\ (OneLoop => OneFileInv) /\ [QueryNext]_queryVars
         => (OneLoop => OneFileInv)'
  <2> SUFFICES ASSUME HandlerInv, ReplyInv, SaveInv, FileInv, OneLoop => OneFileInv,
                      [QueryNext]_queryVars, OneLoop'
               PROVE  OneFileInv'
    OBVIOUS
  <2>1. home' = home
    BY DEF QueryNext, StartUp, HandlerStep, WakeUp, Stop, queryVars, serviceVars, Refuse,
           ParseThrows, Accept, Connect, ConnectThrows, Compute, NeverReturn, Crash, OpenCsv, OpenFails, WriteRow,
           CloseCsv, WriteFails, ExecuteRow, SectionDone, StatementFails, Fail, Release, Reply
  <2>2. OneLoop /\ OneFileInv
    BY <2>1 DEF OneLoop
  <2>3. ASSUME NEW t \in Threads, HandlerStep(t)
        PROVE  OneFileInv'
    BY <2>2, <2>3, HandlerStepKeepsOneFile
  <2>4. CASE UNCHANGED <<pc, cur, row, created, csv>>
    BY <2>2, <2>4 DEF OneFileInv, WritesInOrder, BeginningOf, WholeUnlessWriteFails
  <2>5. QED
    BY <2>3, <2>4 DEF QueryNext, StartUp, WakeUp, Stop, queryVars, serviceVars
<1>3. FileInv /\ (OneLoop => OneFileInv) => CreatedIsWhole
  BY ServiceAssumption DEF FileInv, OneFileInv, WritesInOrder, CreatedIsWhole
<1>4. FileInv /\ (OneLoop => OneFileInv) => CsvOfOneRequest
  <2> SUFFICES ASSUME FileInv, OneFileInv
               PROVE  /\ csv = <<>> \/ \E r \in Requests : IsPrefix(csv, RowsOf(r))
                      /\ \A t \in Threads : cur[t] \in created => IsPrefix(csv, RowsOf(cur[t]))
    BY DEF CsvOfOneRequest, OneLoop
  <2>1. \A t \in Threads : cur[t] \in created => cur[t] \in Requests /\ cur[t] # NoRequest
    BY ServiceAssumption DEF FileInv
  <2>2. QED
    BY <2>1, BeginningIsPrefix DEF OneFileInv, WritesInOrder
<1>5. QED
  BY <1>1, <1>2, <1>3, <1>4, HandlerInvariant, ReplyInvariant, SaveInvariant, FileInvariant, PTL
     DEF QuerySpec
=========================================================================
