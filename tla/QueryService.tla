-------------------------- MODULE QueryService --------------------------
(***************************************************************************)
(* The server of main.cpp around the pool of CIBData.h: event loops that   *)
(* run handleQuery for POST /query and stopService for /stop, one handler  *)
(* at a time per loop, all of them sharing the connection pool, the file   *)
(* Configuration.csv and the database (Output.cpp).                        *)
(*                                                                         *)
(* A thread of the pool is an event loop.  Drogon binds a client to one    *)
(* loop, so a request can only be handled by its home.  What getInputData  *)
(* and relayConvert compute is left out: the handler may go on, raise an   *)
(* exception, never come back or bring the process down, as Mishaps        *)
(* allows; how they come to do so is the subject of InputData.             *)
(*                                                                         *)
(* Rows of the CSV file are taken to have one length, so that the offset   *)
(* of a stream is the number of rows it has written.                       *)
(***************************************************************************)
EXTENDS ConnectionPool

CONSTANTS Requests,      \* the /query requests that are ever received
          Homes,         \* the values home may have
          Nowhere,       \* the home of a request that is not sent
          BomLines,      \* rows of billData that getBillData reads
          NetlistLines,  \* rows of netlistData that getNetlistData reads
          RelayAmount,   \* RelayAmount[r]: relay.relayAmount, for r
          Mishaps        \* what may go wrong, a subset of Mishap

Mishap == {"badRequest",    \* not JSON, or without the two paths
           "nestedBody",    \* JSON nested too deeply: the parser throws
           "badInput",      \* getInputData throws (stoi of a pin number)
           "endlessInput",  \* getInputData does not return
           "badRelay",      \* relayConvert throws (stoi of a port)
           "badQuantity",   \* the last BOM line has no number as quantity
           "csvOpen",       \* Configuration.csv cannot be opened
           "csvWrite",      \* ... or cannot be written any more
           "database",      \* a statement throws an SQLException
           "crash",         \* memory is read that is not the program's
           "stop"}          \* somebody asks for /stop

NoRequest == 0

ASSUME ServiceAssumption ==
    /\ IsFiniteSet(Requests)
    /\ NoRequest \notin Requests
    /\ Homes \subseteq [Requests -> Threads \union {Nowhere}]
    /\ Nowhere \notin Threads
    /\ BomLines \in Nat /\ NetlistLines \in Nat
    /\ RelayAmount \in [Requests -> Nat]
    /\ Mishaps \subseteq Mishap
    /\ Mishaps \intersect {"badInput", "badRelay", "badQuantity"} # {}
          => HandlerMayThrow

VARIABLES home,      \* home[r]: the loop of the client that sends r
          pc,        \* pc[t]: the step of handleQuery loop t is at
          cur,       \* cur[t]: the request it handles, or NoRequest
          row,       \* row[t]: the rows the current step has dealt with
          replies,   \* replies[r]: status codes passed to r's callback
          csv,       \* Configuration.csv: a sequence of rows <<request, i>>
          created,   \* requests for which "created successfully" was printed
          saved,     \* saved[r][s]: rows of r inserted into table s
          logged,    \* <<r, x>>: a failure of r was logged that has to do
                     \* with x: a table, the file, or the body of r
          life       \* up, stopping after app().quit(), or ended by a crash

serviceVars == <<home, pc, cur, row, replies, csv, created, saved, logged, life>>
queryVars == <<poolVars, serviceVars>>

Hole == <<>>                 \* bytes of the file nobody wrote
Table == {"InputBOM", "InputNetlist", "OutputConfigFile"}
Reported == Table \union {"body", "Configuration.csv"}

(* The steps of handleQuery between getConnection and the reply. *)
AfterForgettingRelease ==
    [getConnection |-> "getInputData",   getInputData |-> "relayConvert",
     relayConvert |-> "openCsv",         openCsv |-> "writeCsv",
     writeCsv |-> "InputBOM",            InputBOM |-> "InputNetlist",
     InputNetlist |-> "OutputConfigFile", OutputConfigFile |-> "reply",
     releaseConnection |-> "reply"]
AfterWritingFirst ==
    [getConnection |-> "getInputData",   getInputData |-> "openCsv",
     relayConvert |-> "InputBOM",        openCsv |-> "writeCsv",
     writeCsv |-> "relayConvert",        InputBOM |-> "InputNetlist",
     InputNetlist |-> "OutputConfigFile",
     OutputConfigFile |-> "releaseConnection", releaseConnection |-> "reply"]
After ==
    [getConnection |-> "getInputData",   getInputData |-> "relayConvert",
     relayConvert |-> "openCsv",         openCsv |-> "writeCsv",
     writeCsv |-> "InputBOM",            InputBOM |-> "InputNetlist",
     InputNetlist |-> "OutputConfigFile",
     OutputConfigFile |-> "releaseConnection", releaseConnection |-> "reply"]
Step == DOMAIN After \union {"idle", "reply", "endless"}

(* The steps at which the handler has a connection in its hands. *)
Using == (DOMAIN After \ {"getConnection"}) \union {"endless"}

Lines(r, s) == CASE s = "InputBOM" -> BomLines
                 [] s = "InputNetlist" -> NetlistLines
                 [] s = "OutputConfigFile" -> RelayAmount[r]

(* What a whole Configuration.csv of r is. *)
RowsOf(r) == [i \in 1..RelayAmount[r] |-> <<r, i>>]

(* A file after a row is written at offset i. *)
Put(file, i, x) == [n \in 1..(IF i > Len(file) THEN i ELSE Len(file)) |->
                       IF n = i THEN x
                       ELSE IF n <= Len(file) THEN file[n] ELSE Hole]
-------------------------------------------------------------------------
ServiceInit == /\ home \in Homes
               /\ pc = [t \in Threads |-> "idle"]
               /\ cur = [t \in Threads |-> NoRequest]
               /\ row = [t \in Threads |-> 0]
               /\ replies = [r \in Requests |-> <<>>]
               /\ csv = <<>>
               /\ created = {}
               /\ saved = [r \in Requests |-> [s \in Table |-> 0]]
               /\ logged = {}
               /\ life = "up"
QueryInit == PoolInit /\ ServiceInit

(* Loop t takes work from its clients. *)
Serving(t) == phase = "running" /\ pc[t] = "idle" /\ life = "up"
Pending(t) == {r \in Requests : home[r] = t /\ replies[r] = <<>>}

(* callback(resp) for r, and handleQuery returns. *)
Finish(t, r, status) ==
    /\ replies' = [replies EXCEPT ![r] = Append(@, status)]
    /\ cur' = [cur EXCEPT ![t] = NoRequest]
    /\ pc' = [pc EXCEPT ![t] = "idle"]

(* Loop t goes on with the next step of handleQuery. *)
GoOn(t) == /\ pc' = [pc EXCEPT ![t] = After[pc[t]]]
           /\ row' = [row EXCEPT ![t] = 0]

(* The body is not JSON, or a path is missing: 400, and an early return. *)
RefuseAndGoOn(t) ==
    /\ "badRequest" \in Mishaps
    /\ Serving(t)
    /\ \E r \in Pending(t) :
          /\ replies' = [replies EXCEPT ![r] = Append(@, 400)]
          /\ cur' = [cur EXCEPT ![t] = r]
          /\ pc' = [pc EXCEPT ![t] = "getConnection"]
    /\ UNCHANGED <<poolVars, home, row, csv, created, saved, logged, life>>
Refuse(t) ==
    /\ "badRequest" \in Mishaps
    /\ Serving(t)
    /\ \E r \in Pending(t) : Finish(t, r, 400)
    /\ UNCHANGED <<poolVars, home, row, csv, created, saved, logged, life>>

(* reader.parse throws, since the body nests deeper than its stackLimit:   *)
(* the exception is caught and answered before there is a connection.      *)
ParseThrows(t) ==
    /\ "nestedBody" \in Mishaps
    /\ Serving(t)
    /\ \E r \in Pending(t) : /\ Finish(t, r, 500)
                             /\ logged' = logged \union {<<r, "body">>}
    /\ UNCHANGED <<poolVars, home, row, csv, created, saved, life>>

Accept(t) ==
    /\ Serving(t)
    /\ \E r \in Pending(t) : cur' = [cur EXCEPT ![t] = r]
    /\ pc' = [pc EXCEPT ![t] = "getConnection"]
    /\ UNCHANGED <<poolVars, home, row, replies, csv, created, saved, logged, life>>

(* pool->getConnection(), until it returns or throws. *)
Connect(t) ==
    /\ pc[t] = "getConnection"
    /\ \/ TakePooled(t)
       \/ BeginCreate(t)
       \/ CreateOk(t)
       \/ Block(t)
    /\ IF at'[t] = "holding" THEN GoOn(t) ELSE UNCHANGED <<pc, row>>
    /\ UNCHANGED <<home, cur, replies, csv, created, saved, logged, life>>

WakeUp(t) == life # "ended" /\ SpuriousWakeup(t) /\ UNCHANGED serviceVars

ConnectThrows(t) ==
    /\ CreateThrows(t)
    /\ Finish(t, cur[t], 500)
    /\ UNCHANGED <<home, row, csv, created, saved, logged, life>>

(* getInputData and relayConvert work on objects of their own. *)
Compute(t) ==
    /\ pc[t] \in {"getInputData", "relayConvert"}
    /\ GoOn(t)
    /\ UNCHANGED <<poolVars, home, cur, replies, csv, created, saved, logged, life>>

(* getInputData goes round a loop it will not leave. *)
NeverReturn(t) ==
    /\ "endlessInput" \in Mishaps
    /\ pc[t] = "getInputData"
    /\ pc' = [pc EXCEPT ![t] = "endless"]
    /\ UNCHANGED <<poolVars, home, cur, row, replies, csv, created, saved, logged, life>>

(* outputRelayData opens Configuration.csv, which truncates it ... *)
OpenCsvAsItIs(t) ==
    /\ pc[t] = "openCsv"
    /\ GoOn(t)
    /\ UNCHANGED <<poolVars, home, cur, replies, csv, created, saved, logged, life>>
OpenCsv(t) ==
    /\ pc[t] = "openCsv"
    /\ csv' = <<>>
    /\ GoOn(t)
    /\ UNCHANGED <<poolVars, home, cur, replies, created, saved, logged, life>>

(* ... or cannot open it, and returns after a message. *)
OpenFails(t) ==
    /\ "csvOpen" \in Mishaps
    /\ pc[t] = "openCsv"
    /\ pc' = [pc EXCEPT ![t] = After["writeCsv"]]
    /\ logged' = logged \union {<<cur[t], "Configuration.csv">>}
    /\ UNCHANGED <<poolVars, home, cur, row, replies, csv, created, saved, life>>

(* A row that std::endl flushes: every row but the last. *)
WriteRow(t) ==
    /\ pc[t] = "writeCsv"
    /\ row[t] + 1 < RelayAmount[cur[t]]
    /\ csv' = Put(csv, row[t] + 1, <<cur[t], row[t] + 1>>)
    /\ row' = [row EXCEPT ![t] = @ + 1]
    /\ UNCHANGED <<poolVars, home, pc, cur, replies, created, saved, logged, life>>

(* The last row, if there is one, reaches the file with close(). *)
CloseCsv(t) ==
    /\ pc[t] = "writeCsv"
    /\ row[t] + 1 >= RelayAmount[cur[t]]
    /\ csv' = IF RelayAmount[cur[t]] = 0 THEN csv
              ELSE Put(csv, row[t] + 1, <<cur[t], row[t] + 1>>)
    /\ created' = created \union {cur[t]}
    /\ GoOn(t)
    /\ UNCHANGED <<poolVars, home, cur, replies, saved, logged, life>>

(* A write fails: the stream ignores the rest, and nobody looks. *)
WriteFails(t) ==
    /\ "csvWrite" \in Mishaps
    /\ pc[t] = "writeCsv"
    /\ RelayAmount[cur[t]] > 0
    /\ created' = created \union {cur[t]}
    /\ GoOn(t)
    /\ UNCHANGED <<poolVars, home, cur, replies, csv, saved, logged, life>>
-------------------------------------------------------------------------
(* saveData: one section per table, each in a try block of its own. *)
Unreadable(t) == /\ "badQuantity" \in Mishaps
                 /\ pc[t] = "InputBOM"
                 /\ row[t] + 1 = BomLines

ExecuteRow(t) ==
    /\ pc[t] \in Table
    /\ row[t] < Lines(cur[t], pc[t])
    /\ saved' = [saved EXCEPT ![cur[t]][pc[t]] = @ + 1]
    /\ row' = [row EXCEPT ![t] = @ + 1]
    /\ UNCHANGED <<poolVars, home, pc, cur, replies, csv, created, logged, life>>

SectionDoneEarly(t) ==
    /\ pc[t] \in Table
    /\ row[t] + 1 >= Lines(cur[t], pc[t])
    /\ GoOn(t)
    /\ UNCHANGED <<poolVars, home, cur, replies, csv, created, saved, logged, life>>
SectionDone(t) ==
    /\ pc[t] \in Table
    /\ row[t] = Lines(cur[t], pc[t])
    /\ GoOn(t)
    /\ UNCHANGED <<poolVars, home, cur, replies, csv, created, saved, logged, life>>

(* prepareStatement or execute throws an SQLException: the section is      *)
(* given up with a message, the next one is tried.                         *)
StatementFails(t) ==
    /\ "database" \in Mishaps
    /\ pc[t] \in Table
    /\ row[t] = 0 \/ row[t] < Lines(cur[t], pc[t])
    /\ logged' = logged \union {<<cur[t], pc[t]>>}
    /\ GoOn(t)
    /\ UNCHANGED <<poolVars, home, cur, replies, csv, created, saved, life>>

(* An exception that handleQuery catches, raised with a connection in hand.*)
Raises(t) == \/ "badInput" \in Mishaps /\ pc[t] = "getInputData"
             \/ "badRelay" \in Mishaps /\ pc[t] = "relayConvert"
             \/ Unreadable(t)
Fail(t) ==
    /\ Raises(t)
    /\ Drop(t)
    /\ Finish(t, cur[t], 500)
    /\ UNCHANGED <<home, row, csv, created, saved, logged, life>>

Release(t) ==
    /\ pc[t] = "releaseConnection"
    /\ ReleaseConnection(t)
    /\ GoOn(t)
    /\ UNCHANGED <<home, cur, replies, csv, created, saved, logged, life>>

Reply(t) ==
    /\ pc[t] = "reply"
    /\ Finish(t, cur[t], 200)
    /\ UNCHANGED <<poolVars, home, row, csv, created, saved, logged, life>>

(* stopService: app().quit(); every loop ends the handler it is in.  *)
Stop(t) ==
    /\ "stop" \in Mishaps
    /\ Serving(t)
    /\ life' = "stopping"
    /\ UNCHANGED <<poolVars, home, pc, cur, row, replies, csv, created, saved, logged>>
-------------------------------------------------------------------------
(* A read outside of an object: of ioData or of nameBreaks in what computes *)
(* the rows, or of the first identifier of a part that has none.  The      *)
(* process ends, with all of its loops.                                    *)
Crash(t) ==
    /\ "crash" \in Mishaps
    /\ \/ pc[t] \in {"getInputData", "relayConvert"}
       \/ pc[t] = "InputBOM" /\ row[t] < BomLines
    /\ life' = "ended"
    /\ UNCHANGED <<poolVars, home, pc, cur, row, replies, csv, created, saved, logged>>

(* The steps of loop t in handleQuery, as long as the process lives. *)
HandlerStep(t) == /\ life # "ended"
                  /\ \/ Refuse(t) \/ ParseThrows(t) \/ Accept(t)
                     \/ Connect(t) \/ ConnectThrows(t)
                     \/ Compute(t) \/ NeverReturn(t) \/ Crash(t)
                     \/ OpenCsv(t) \/ OpenFails(t)
                     \/ WriteRow(t) \/ CloseCsv(t) \/ WriteFails(t)
                     \/ ExecuteRow(t) \/ SectionDone(t) \/ StatementFails(t)
                     \/ Fail(t) \/ Release(t) \/ Reply(t)

StartUp == (Construct \/ ConstructThrows) /\ UNCHANGED serviceVars

QueryNext == \/ StartUp
             \/ \E t \in Threads : HandlerStep(t) \/ WakeUp(t) \/ Stop(t)

QuerySpec == QueryInit /\ [][QueryNext]_queryVars

(* main and every loop are threads the system runs: neither stops for ever *)
(* in front of a step it can take.  Nothing makes condition_.wait return   *)
(* without a notification, nor anybody ask for /stop.                      *)
QueryFairness == /\ WF_queryVars(StartUp)
                 /\ \A t \in Threads : WF_queryVars(HandlerStep(t))

FairQuerySpec == QuerySpec /\ QueryFairness
-------------------------------------------------------------------------
(* Type invariant. *)
QueryTypeOK ==
    /\ TypeOK
    /\ pc \in [Threads -> Step]
    /\ cur \in [Threads -> Requests \union {NoRequest}]
    /\ row \in [Threads -> Nat]
    /\ replies \in [Requests -> Seq({200, 400, 500})]
    /\ \A n \in DOMAIN csv : csv[n] \in (Requests \X (Nat \ {0})) \union {Hole}
    /\ created \subseteq Requests
    /\ saved \in [Requests -> [Table -> Nat]]
    /\ logged \subseteq Requests \X Reported
    /\ home \in Homes
    /\ life \in {"up", "stopping", "ended"}

(* Whatever a handler does, and whichever of its calls throws, it has a    *)
(* connection exactly between the return of getConnection and the call of  *)
(* releaseConnection or the exception: no way out of handleQuery keeps one *)
(* (a leak), and no statement runs after it was given back, when another   *)
(* loop may be using it (main.cpp:39-79).                                  *)
ConnectionWhileUsed ==
    \A t \in Threads : /\ pc[t] \in Using <=> at[t] = "holding"
                       /\ at[t] # "out" => pc[t] \in Using \union {"getConnection"}

(* A client gets one answer: the callback of a request is called at one of *)
(* the ends of handleQuery and at no other, not again by a loop that goes  *)
(* on behind an early reply, nor by another loop (main.cpp:19-36, 62-78).  *)
OneReply == \A r \in Requests :
               /\ Len(replies[r]) <= 1
               /\ replies[r] # <<>> => \A t \in Threads : cur[t] # r
               /\ \A t, u \in Threads : cur[t] = r /\ cur[u] = r => t = u

(* What a request that failed leaves behind is known from how it failed:   *)
(* a 400, and a 500 before the file was opened, leave nothing in it or in  *)
(* the tables; the only 500 after that is saveData's, which leaves the     *)
(* rows of InputBOM before the bad one and nothing in the later tables     *)
(* (main.cpp:47-56, Output.cpp:53).                                        *)
Untouched(r) == /\ \A s \in Table : saved[r][s] = 0
                /\ \A n \in DOMAIN csv : csv[n] = Hole \/ csv[n][1] # r
                /\ r \notin created
FailureLeavesKnownRows ==
    \A r \in Requests :
       /\ replies[r] = <<400>> => Untouched(r)
       /\ replies[r] = <<500>> =>
             \/ Untouched(r)
             \/ /\ "badQuantity" \in Mishaps
                /\ saved[r] = [s \in Table |->
                                  IF s = "InputBOM" THEN BomLines - 1 ELSE 0]

(* A 200 says of every table that all the rows of the request are in it,   *)
(* or that the database refused a statement for it; no row is in a table   *)
(* twice (Output.cpp:47-115, main.cpp:56-64).                              *)
SuccessIsSavedOrRejected ==
    \A r \in Requests, s \in Table :
       /\ saved[r][s] <= Lines(r, s)
       /\ replies[r] = <<200>> /\ <<r, s>> \notin logged
             => saved[r][s] = Lines(r, s)

(* A request answered 500 has cost the process one of the 2 * poolSize     *)
(* connections it can ever have, unless its body could not be parsed, and  *)
(* nothing else has: those in the queue or in use, and those that may      *)
(* still be opened, make up the rest, whatever interleaves                 *)
(* (CIBData.h:97-99, main.cpp:19, 39, 66-79).                              *)
Failed == {r \in Requests : replies[r] = <<500>> /\ <<r, "body">> \notin logged}
Connecting == {t \in Threads : at[t] = "connecting"}
EveryFailureCostsAConnection ==
    phase = "running" =>
       Len(pool_) + Cardinality(Lent) + Cardinality(Connecting)
          + (PoolSize - activeConnections_) + Cardinality(Failed) = 2 * PoolSize

(* If all requests come from clients of one loop, Configuration.csv is     *)
(* what one request wrote, or the beginning of it, whatever fails: no rows *)
(* of an earlier, or longer, file are left in it; and while a handler goes *)
(* on after it has reported the file as created, the rows are its own      *)
(* (Output.cpp:11-36).                                                     *)
CsvOfOneRequest ==
    (\A r, q \in Requests : home[r] = home[q]) =>
       /\ csv = <<>> \/ \E r \in Requests : IsPrefix(csv, RowsOf(r))
       /\ \A t \in Threads : cur[t] \in created => IsPrefix(csv, RowsOf(cur[t]))

(* Wherever a request is cut off, by an exception or by the end of the     *)
(* process, a table has rows of it only if each table before it has all    *)
(* its rows, or refused one, and the CSV file was reported before them, as *)
(* created or as one that cannot be opened (main.cpp:53-56,                *)
(* Output.cpp:14-36, 45-115).                                              *)
TableOrder == <<"InputBOM", "InputNetlist", "OutputConfigFile">>
TablesFillInOrder ==
    \A r \in Requests : \A m \in 1..3 : saved[r][TableOrder[m]] > 0 =>
       /\ r \in created \/ <<r, "Configuration.csv">> \in logged
       /\ \A n \in 1..m - 1 :
             \/ saved[r][TableOrder[n]] = Lines(r, TableOrder[n])
             \/ <<r, TableOrder[n]>> \in logged

StuckBehind(t) == pc[t] = "endless"

(* The only things that keep a request from its answer for ever: the       *)
(* service was told to stop or crashed, the loop of the client is in       *)
(* getInputData for ever, all connections are lost, or the ones that are   *)
(* left are in the hands of loops that never come back.  A lost wake-up or *)
(* a deadlock of waiting loops is not among them.                          *)
OutOfReach == /\ pool_ = <<>>
              /\ activeConnections_ = PoolSize
              /\ Connecting = {}
              /\ \A t \in Threads : at[t] = "holding" => StuckBehind(t)
EveryRequestIsAnswered ==
    \A r \in Requests :
       phase = "running" /\ home[r] \in Threads ~>
          \/ replies[r] # <<>>
          \/ life # "up"
          \/ StuckBehind(home[r])
          \/ OutOfReach

(* After /stop every loop comes to rest, so that run() can return, unless  *)
(* one is in getInputData or in getConnection for ever.                    *)
StopComesToRest ==
    life = "stopping" ~>
                \/ \A t \in Threads : pc[t] = "idle"
                \/ \E t \in Threads : StuckBehind(t)
                \/ OutOfReach
                \/ life = "ended"

(* main.cpp:55 saves the data to the database and main.cpp:61 returns a    *)
(* response of success: whoever is told 200 has the data in the database.  *)
SuccessMeansSaved ==
    \A r \in Requests : replies[r] = <<200>> =>
       saved[r] = [s \in Table |-> Lines(r, s)]

(* Output.cpp:34-36 prints that the CSV file was created successfully: at  *)
(* that moment the file is what the request wrote.                         *)
CreatedMeansWritten ==
    [][\A r \in created' \ created : csv' = RowsOf(r)]_queryVars
=========================================================================
