# relay_dev: specifications, model checks and proofs

relay_dev is a small HTTP service in C++ (drogon, MySQL Connector/C++). A client posts the paths of a bill of
materials and of a netlist to `/query`; the service reads both files, finds the relays of the board and the IO
expanders (MAX6957) that drive them, writes one line per relay to `Configuration.csv`, saves the input and the result in
three MySQL tables and answers with the number of relays. This directory models it in TLA+, checks the models with TLC
and proves the most important properties with TLAPS.

The repository has no documentation and no tests of its own; what its code promises is in its comments. Everything
under `src/drogon`, `src/trantor`, `src/json`, `src/jdbc`, `src/lib` and `src/bin` is third-party. The program is what
`relay.vcxproj` compiles: `main.cpp`, `Input.cpp`, `Relay.cpp`, `Output.cpp` with `CIBData.h`. `relay.cpp` is the
command line tool the service was made from; it is kept in the repository and no longer compiled.

## Inventory

| Component | State | Operations | Hard behaviour | What makes it correct |
|---|---|---|---|---|
| Connection pool, `MySQLConnectionPool` (`CIBData.h`) | `pool_`, `activeConnections_`, `mutex_`, `condition_` | constructor, `getConnection`, `releaseConnection`, `createConnection`, the deleter of a connection | threads at every lock, `wait` and `notify_one`; spurious wake-ups; `connect` throws, in the constructor or under the mutex; connections dropped by exceptions | one owner per connection, none forgotten, a bound on connections, no lost wake-up |
| Service and handler (`main.cpp`) | event loops, replies | `handleQuery`, `stopService`, `main` | handlers on several loops, two early returns, two catch blocks, one of which also answers exceptions raised before there is a connection, a handler that never returns, one that ends the process, `/stop` while others work | one reply per request, a connection exactly while it is used, everybody answered in the end |
| Output (`Output.cpp`) | `Configuration.csv`, three tables | `outputRelayData`, `saveData` | one file shared by all handlers, file and database errors that are swallowed, an exception or a crash in the middle of saving | what a reply tells about the file and the tables |
| Input data of a request, `Input::getInputData` | all of the five rows below | the calls, one after the other | an exception, a crash or an endless loop in any of them | the rows describe the board that is in the files |
| BOM reader, `Input::getBillData` | `billData`, `temp`, `holder` | one cell, one name of a list | missing cells, missing quotes (an endless loop) | cells end up in their columns, termination |
| Netlist reader, `Input::getNetlistData` | `netlistData`, `comparator`, `loopCounter` | one line | first line, empty lines, runs of lines | one net per run of lines with one name |
| Expander order, `Input::getDeviceOrder` | `ioData`, `expanders`, `lastDevice` | search of the first link, passes over the netlist | any order of nets and lines, open chains, `ioData[-1]` | the order of the daisy chain, termination |
| Relay list and conversion, `Input::filterNetlistData`, `Relay.cpp` | `relayList`, `relayData`, `deviceModifier` | one net, one relay | uninitialised ints, `stoi` exceptions, several expander pins on a net, a character code used as a length | one row per relay net, distinct addresses, normal state, names |
| Stand-alone tool (`relay.cpp`) | the same data, `relayConnection`, `gndData` | the same steps as one program | relays found while reading, by a flag that outlives a net; no `catch` anywhere | agrees with the service; its own rules for state and strength |

How they interact: `main` constructs the pool and registers `handleQuery` and `stopService` with drogon. Drogon's event
loops (one thread each; how many is up to `config.json`, which is not in the repository, and 1 by default) call the
handlers; a handler runs to its end on its loop. `handleQuery` borrows a connection from the pool, runs `getInputData` and `relayConvert` on objects of its own,
writes the CSV file and the tables, and gives the connection back. The pool, the file and the database are what
handlers share. So the models are in two groups: `QueryService` over `ConnectionPool` is about what is shared, and
leaves out what is computed; `InputData` is about what is computed, by one handler on its own.

## Modules

| Module | What it is |
|---|---|
| `ConnectionPool` | the pool; one action per critical section, and a state "connecting" for the one that is long |
| `ConnectionLedger` | abstract specification of the pool: numbered connections in stock, lent, or gone |
| `ConnectionPoolProofs` | theorems about the pool |
| `QueryService` | event loops running `handleQuery` and `stopService` over `ConnectionPool` (it EXTENDS it and takes every step that touches the pool from it), with the CSV file and the tables |
| `QueryServiceProofs` | theorems about the service; it EXTENDS the proofs of the pool |
| `Text` | the operations of `std::string` the program uses, with `npos` and the wrap-around of `size_t` |
| `BillReader` | `getBillData`, one cell or one name of a list per step |
| `Netlist` | what the modules on netlists share: lines, nets, expander pins, and the wiring as relations without any program |
| `NetlistReader` | `getNetlistData`, one line per step |
| `DeviceOrder` | `getDeviceOrder`, one net (first loop) or one line (second loop) per step |
| `DeviceOrderProofs` | theorems about the device order |
| `ReaderProofs` | lemmas about both readers and their inductive invariants, for the two modules below that contain them |
| `RelayNames` | `convertPin` and `convertEnum` as operators on texts |
| `RelayTables` | the relay models, pins and ports, used by the service and the tool |
| `RelayTablesProofs` | lemmas about texts, lines, ports and lists of relays, for all modules of proofs on files and boards |
| `RelayConvert` | `filterNetlistData` and `relayConvert`, one net or one relay per step |
| `RelayConvertProofs` | theorems about filter and conversion |
| `InputData` | `getInputData` and `relayConvert` from the two files to the rows: `BillReader`, `NetlistReader`, `RelayConvert` and `DeviceOrder` composed, each beginning when the one before it has returned |
| `InputDataProofs` | theorems about the two files and their rows; it EXTENDS the proofs of the four parts |
| `StandAlone` | the tool of `relay.cpp`; what it has in common with the service it takes from the modules above |
| `StandAloneProofs` | theorems about the tool |
| `MC...` | instances for TLC: constants, small sets of boards and files |

### ConnectionPool

Variables have the names of the code: `pool_` is the queue, `activeConnections_` the counter. `at[t]` is where thread
`t` is, `conn[t]` the connection in its hands. Connections are numbered in the order they are opened, so that the
connection that was closed is told from the one opened later. A critical section is one action because nobody can look
at the pool during it; `createConnection` in `getConnection` is the exception: the mutex stays locked during the connect, which is a state of its own
(`connecting`), in which `MutexFree` shuts out every other critical section. `condition_.wait` is split at the wait:
`Block` releases the mutex, `NotifyOne` and `SpuriousWakeup` wake, and a woken thread competes for the mutex again with
new callers (`Contends`). `Drop` is the unwinding of a handler: the last `shared_ptr` goes and the deleter closes the
connection; the pool does not know. `ConstructThrows` is the constructor failing in `main`, which returns 1.

The constants say which faults are possible: `ConnectMayFail`, `HandlerMayThrow`.

### QueryService

`pc[t]` is the step of `handleQuery` loop `t` is at; `After` is the order of the steps in the code. A request belongs to
one loop (`home[r]`, one of the assignments in `Homes`), because drogon binds a client to a loop: requests behind a handler that does not return are not
taken by another loop. A request whose home is `Nowhere` is not sent. What `getInputData` and `relayConvert` compute is
not repeated here; they go on, throw, never return or bring the process down (`Mishaps`), and `InputData` shows when they
do. `csv` is the file, a sequence of rows `<<request, number>>`; each handler writes
at an offset of its own, and `std::endl` and `close` are what brings a row to the file. `saved[r][s]` counts the rows of
request `r` in table `s`; autocommit is on, so that rows stay when a later statement fails or the process ends. `created` and `logged`
record the messages printed: for which requests the file was reported as created, and which failure was reported of which table,
of the file or of the body of a request. A body can be refused (400, `Refuse`) or make the parser throw, which jsoncpp does
when it nests too deeply (500, `ParseThrows`); both happen before `getConnection`. `life` is "up", "stopping" after `quit`, or "ended" by a `Crash`, a read outside of an
object (`ioData[-1]`, `nameBreaks[0]`, `identifier[0]`), after which no loop takes a step.

External, modelled from how the code uses them: the loops of drogon and their requests, the effect of `quit` (loops
finish the handler they run and take no more work), the offsets of file streams.

### Text, BillReader

A text is a sequence of characters. `find` answers `Npos`, the largest `size_t`, and `Npos + 1` is 0 (`SizeT`; the type
has 16 bits here, far more than a line is long). That is what decides the fate of rows with missing cells or quotes:
`erase(0, npos + 1)` erases nothing. Of the characters of a line only commas, quotes and digits matter. `holder` is
what is left of the line and `temp` the part being read, as in the code; `billAt` is the cell `getBillData` is at. The
loop over a quoted list has no other end than the closing quote: each pass pushes a name, until `push_back` throws
`bad_alloc` after `ListLimit` names. Lines are shorter than `SizeMax`, as texts are shorter than the largest `size_t`
(`InputAssumption`, `ToolAssumption`); a line of that many characters would hold a place that looks like `npos`.

### Netlist, NetlistReader, DeviceOrder

A line is its four columns; a net is a sequence of lines, where the code keeps four parallel vectors. Identifiers and
devices are only compared. Connections are numbers; `NotDigits` and `TooLarge` stand for the ones `all_of(isdigit)`
rejects and the ones `stoi` throws on, `Suffixed(n)` for digits with letters behind them, which `isdigit` rejects and
`stoi` reads as `n`. Leading zeros are left out (the code compares texts in one place and numbers in another).
`NoText` and `Blank` are the identifiers of a line that has none. A place is a net and a line of it; `Places`, `LineAt` and
`Before` are what the properties of several modules say about places.

In `DeviceOrder`, the read of `ioData[-1]` is undefined behaviour: the comparison may come out either way or the
program may end (`Crash`). `MemoryLimit` is the number of elements after which `push_back` throws `bad_alloc`; a cycle
in the chain ends that way. `Netlist` defines the wiring without a program (`Drives`, `Terminated`, `IsSource`), which is
what the order is compared with.

### RelayNames, RelayTables, RelayConvert

`convertChain` returns an uninitialised int because `boardType` is never set, so `deviceModifier` is
either; `convertDevice` returns any int (`AnyInt`) for an expander that is not in `ioData`. A device name "contains" a
relay model if it is the model. Names of nets are model values for the readers and texts for `convertPin` and
`convertEnum`; the constant `Spelling` gives the text of each name. `convertEnum` counts with the code of the last
character; for names that have no underscore it reads an element of an empty vector, which ends the program
(`ConvertCrashes`).

### InputData

The variables of the four modules; `billAt = "done"` enables the netlist reader, its end the filter, the end of the
filter the device order, and `at = "done"` the conversion. `netlistData` is the variable all of them share, so the boards
that are ordered and converted here are those the reader makes from a file, not ones chosen for the purpose.

### StandAlone

The tool extends the readers and the device order, whose loops it has copies of: `getBillData` is the same text; one line of
`getNetlistData` is the line of `NetlistReader` with the search for relays and for GND lines added to it; the second
loop of `getDeviceOrder` is that of `DeviceOrder`, from a first expander found in another way. The tool counts
`expanders` from 0 with one element in `ioData`, the service from 1 with none: the variable is the service's here.
`gndData` is a set, because the code only asks whether it contains a text.

## Runs

| Run | Instance | What it shows |
|---|---|---|
| `PoolFaulty` | 3 threads, poolSize 2, all faults | ownership, accounting, bound, wake-ups, refinement of `ConnectionLedger` |
| `PoolOverSize` | 3 threads, poolSize 2, no faults | finding: more connections open than the "pool size" |
| `QueryEffects` | 2 requests on 2 loops, and 3 of 2, 1 and 0 relays on one, all mishaps | one reply; what a 200, 400 and 500 leave in the file and the tables; how far a request that is cut off has come; the CSV file is one request's on one loop |
| `QueryLive` | 2 loops, 3 requests, poolSize 1, fairness | connection exactly while used, every 500 from `getConnection` on costs a connection and an earlier one costs none, everybody is answered, `/stop` comes to rest |
| `QuerySuccess` | 1 loop, 2 requests, failing statements | finding: 200 without the rows in the database |
| `QueryCsvTwoLoops` | 2 loops, 2 requests, no fault at all | finding: a CSV file that another handler has truncated is reported as created |
| `Input` | bills of two rows; all netlist files of up to 4 lines over two names, empty lines and blanks; all arrangements of the serial pins of 2 expanders; chains of 3; 2 expanders with relays in all orders of nets | each reader against what its file says, the order against the wiring, addresses against both; a closed board is converted in the end |
| `OrderOpenEnd` | chains of 3 whose last DOUT is in no net | finding: the search never ends |
| `Convert` | two nets with all kinds of pins; relay nets with up to 2 resistors and 2 models; all short names | one row per relay net, distinct addresses, those of the pin that made the net a relay, normal state and drive, pin and enumeration agree |
| `ConvertPulldown` | the same boards with resistors | finding: only one resistor of a net is looked at, here one that leads nowhere while the other leads to GND |
| `EnumLongName` | names of 46 to 59 characters, which is about the code of a digit | finding: the last word of a long name is cut |
| `StandAlone` | a chain of 2 expanders with relays and a GND net in all orders; arrangements of 2 expanders; files of up to 4 lines | the tool finds the relays and the order the service finds; what its own rule for the normal state gives; it ends |

Bounds. Three threads and two connections are the smallest instance in which a thread waits, another is woken, and a
third that never slept takes the connection first; with both kinds of failure every connection can be lost. Two loops suffice for every
pair of steps of two handlers; three requests on one loop let one find what two others left (a lost connection, a longer
file). Every counter is bounded by the requests and rows; nothing is cut off by a state constraint.

The first row of a bill is every row of one cell or of four cells with up to three or four more characters (a letter, a
comma, a quote) behind them, which is every shape the loops distinguish: a cell missing at every place, lists and
descriptions open, closed and empty; the second row is a well-formed one, which shows what is left over of the first.
`ListLimit` 4 is more than the names of any list that is closed in these rows. Two names and four lines give every
order of beginning, continuing and interrupting a net, also by lines the reader treats specially. The boards contain a
net with a DIN, a DOUT, both in both orders, two of one kind, or none, before and after each other; identifiers are only
compared, so that boards whose first expander is U2 are left out as mirror images. `MemoryLimit` is one more than the
expanders of any board.

Fairness. `QueryLive`: weak fairness of each loop's step and of `main`: they are threads the system schedules, and a call of the
driver or of the file system returns. Spurious wake-ups and `/stop` are not fair: nothing makes them happen. Starvation by an
endless stream of requests is outside: requests are finitely many. `Input`, `OrderOpenEnd`, `StandAlone`: weak fairness of the one thread, which waits for nobody.

Deadlock checking is off where the system really stops: `main` failed, all requests answered, all connections lost, the
process ended, the end of a function.

## Findings

1. `PoolOverSize`: `poolSize` connections in the constructor and `poolSize` more on demand.
2. `QuerySuccess`: `saveData` swallows SQL exceptions, the client is told 200.
3. `QueryCsvTwoLoops`: with two event loops the handlers overwrite each other's `Configuration.csv`. The shortest trace: one
   handler's open truncates the file under the other, whose last row then comes behind a hole.
4. `OrderOpenEnd`: an expander chain whose last DOUT is not in the netlist makes `getDeviceOrder` loop for ever.
5. `ConvertPulldown`: only one resistor of a net is looked up; a relay that another one pulls down to GND is taken to be normally open.
6. `EnumLongName`: `convertEnum` counts with `relayName.back()` where `relayName.size()` is meant.

Three more places where the code is not what its comments say are in the models as the code has them, without a run of their own:

- `activeConnections_` is called the current number of active connections (`CIBData.h:139`), but it is raised for connects that then
  fail, and lowered for no connection that is lost (`BeginCreate`, `Drop`);
- relays of the tool "are set to 10.5 mA by default" (`relay.cpp:751`), but every line that says nothing of the strength overwrites
  the default with an empty one, so that a net without a relay model has an empty strength in the file (`ToolStrength`);
- where the tool "finds the associated input" of the first link (`relay.cpp:444`), it takes the first expander on that net,
  whatever its pin is (`GetFirstDevice`); `SameOrderAsTheService` and `ToolEnds` are about boards on which this is the one with the DIN.

Described by properties that hold:

- what the count of `activeConnections_` leads to: each request answered 500 after `getConnection` began costs
  the process one connection for good (`EveryFailureCostsAConnection`), and after `2 * poolSize` of them nobody is served
  any more (`OutOfReach` in `EveryRequestIsAnswered`); one whose body could not be parsed costs nothing;
- `getDeviceOrder` does not come back on any netlist without an expander that ends its chain, also on an empty or
  missing netlist file (`RowsNeedATerminator`); the handler keeps its loop and its connection;
- a quoted list of identifiers without closing quote makes `getBillData` push names until the memory ends, and nothing else
  does (part of `ClosedBoardsAreConverted`); a row with too few cells repeats its last one (`ShortRowRepeatsLastCell`);
- an empty pair of quotes as identifiers gives a part with none, of which `saveData` reads the first
  (`NoIdentifierMeansEmptyQuotes`);
- a net with several expander lines gets port and device number of the first one, also if that is not the pin that makes it a
  relay; `RowDrivesTheRelayPin` says when it is.

## Proofs

Eight modules hold proofs, and TLAPS checks every step of them. The theorems are about every value of the constants,
the runs above about the instances.

| Theorem | Says | For every |
|---|---|---|
| `TypeCorrect` | `TypeOK` | finite set of threads, pool size, kind of fault |
| `Ownership` | `OneOwner`, `AllAccountedFor` | the same |
| `OpenedAtMostTwice` | `OpenedBound`, `OneConnecting` | the same |
| `WakeupsReachWaiters` | `NoLostWakeup` | the same |
| `PoolImplementsLedger` | the pool refines `ConnectionLedger` | the same |
| `ServiceTypeCorrect` | `QueryTypeOK` | also set of requests, homes, rows and mishaps |
| `ConnectionExactlyWhileUsed` | `ConnectionWhileUsed` | the same |
| `AnsweredOnce` | `OneReply` | the same |
| `SuccessIsKnown` | `SuccessIsSavedOrRejected` | the same |
| `FailureIsKnown` | `FailureLeavesKnownRows` | the same |
| `TablesInOrder` | `TablesFillInOrder` | the same |
| `FileOfOneRequest` | `CsvOfOneRequest`; and `CreatedIsWhole`: if no write can fail, a handler that has reported the file finds all rows there | the same (both ask for clients of one loop) |
| `EveryFailureCosts` | `EveryFailureCostsAConnection` | the same |
| `OrderTypeCorrect` | `OrderTypeOK`, and `RoomForFound`: `ioData` has an element for each expander found | set of netlists of any size, well formed or not |
| `OrderFollowsTheWiring` | `FollowsTheWiring` | the same |
| `ReturnsCompleteChain` | `EndsAtTerminator` | the same |
| `ReadsInsideIoData` | `NoReadBeforeFirst` | the same |
| `OrderIsInjective` | `NoneTwice` | the same (the property itself asks for a board that can be built) |
| `ConvertTypeCorrect` | `ConvertTypeOK` | netlist and `ioData`, whether they fit each other or not |
| `RowsFollowTheRelays` | `OneRowPerRelayNet` | the same |
| `AddressesAreDistinct` | `DistinctAddresses` | the same (the property asks for a board whose relays can be told apart) |
| `RowsDriveTheirPins` | `RowDrivesTheRelayPin` | the same (the property asks for no other expander line in front) |
| `PulldownCloses` | `PulldownMeansClosed` | the same |
| `DriveIsThatOfAModel` | `DriveFollowsModel` | the same |
| `EnumerationAndPinAgree` | `EnumerationNamesThePin` | the same, and spelling of the names |
| `InputTypeCorrect` | `InputTypeOK` | pair of files: lines of a bill of any length and shape, any netlist |
| `NetsAreTheRuns` | `OneNetPerRun` | the same |
| `RowsFillTheirColumns` | `ShortRowRepeatsLastCell` | the same |
| `RowsBecomeTheirParts` | `PartsAreReadBack` | the same, and set of parts that fit a row |
| `MissingIdentifierIsQuoted` | `NoIdentifierMeansEmptyQuotes` | the same |
| `NoRowsWithoutTerminator` | `RowsNeedATerminator` | the same |
| `NumbersAreThePlaces` | `NumberIsPlaceOnChain` | the same |
| `GoodBoardsAreAddressed` | on a good board `Addressable` is met, so that `DistinctAddresses` says something of it | the same |
| `RequestEndsOnce` | a request goes from `getInputData` to `relayConvert` to its rows, or throws or crashes, and then nothing goes on (an action property of `Outcome`) | the same |
| `EveryRelayHasARow` | a request with rows has one for each net with a relay pin | the same |
| `FailuresHaveACause` | a request throws or crashes only for something in its files; `ioData` never outgrows the expanders of a board that can be built | the same |
| `ToolTypeCorrect` | `ToolTypeOK` | the same |
| `ScanFindsThem` | `ScanFindsTheRelays` | the same |
| `ToolFindsTheOrder` | `SameOrderAsTheService` | the same |
| `ClosedRelaysAreOnGround` | `ClosedMeansOnGround` | the same |
| `ToolReadsTheFiles` | `OneNetPerRun`, `PartsAreReadBack`, `ShortRowRepeatsLastCell`, `NoIdentifierMeansEmptyQuotes`, of the tool | the same |
| `FileHasEveryRelay` | a CSV file the tool has written has one row for each net with a relay pin | the same |

Assumptions. `PoolAssumption`: threads are finitely many, the pool has at least one connection. `ServiceAssumption`: the types of
the constants, that `NoRequest` is no request and `Nowhere` no loop, and that handlers may throw if there is a mishap that makes them.
`DeviceOrderAssumption`: netlists are sequences of nets of lines, and no component is called "" or "OUTPUT", which the first loop of
`getDeviceOrder` uses as marks. `ConvertAssumption`: the types of the boards and of the spelling. `InputAssumption` and
`ToolAssumption`: files are sequences of lines, those of a bill shorter than `SizeMax`. `PartsAssumption`: the parts that well-formed rows are
about fit a row (`FitsARow`: at least one identifier, no comma in a cell that is copied, neither comma nor quote in an identifier,
a last identifier of a list that is not empty, no quote in the description); it is about the parts `PartsAreReadBack` speaks of and
says nothing of the lines of a bill. `TextsAreStrings`, `SeparatorsAreStrings`: `NoText`, `Blank`, comma and quote are texts. TLC evaluates all of them in the runs of these modules.

The argument about the pool. `OneOwner` alone is not inductive: a connection that is opened next must be one nobody
has, which needs `AllAccountedFor` (opened numbers are exactly the known ones) and that a thread holds a connection
exactly while it is "holding" (`OwnershipInv`). The bound on opened connections (`CountInv`) pays for every connect in
advance: `activeConnections_` was raised before it, so that `opened` is strictly below `PoolSize + activeConnections_`
while a thread is connecting; one thread connects at a time because connecting shuts out every other critical section.
For wake-ups (`WakeupInv`), the connections in the queue number at most the woken threads while anybody sleeps: a
release adds one to both, a thread goes to sleep on an empty queue only, and a thread that takes a connection without
being woken takes one off the left side. The refinement maps queued connections to the stock and `conn` to what is lent, with
`2 * PoolSize` as the limit, and uses both invariants.

The argument about the service. The lemma `ServiceUsesPool` (`QuerySpec => PoolSpec`) goes through the steps: each is a step of the pool together with a step
of a handler, or leaves the pool alone; with it whatever is proved of the
pool is known in the service. `HandlerInv` relates the place of each loop in `handleQuery` with its place in the pool; it is
`ConnectionWhileUsed` with the domains of `pc` and `at`. `ReplyInv` relates replies and loops: a request has a reply only
when no loop is at it, a loop that is idle is at none, and a request that is being handled is so by its home
only, which is what excludes two loops with one request. `OneReply` follows. `SaveInv` relates the tables with the place
and the row of the loop (`HandlerRows`) and, once the loop is gone, with the reply (`RequestRows`): the tables `Past` the place are
complete or refused a statement, the one being filled has as many rows as the loop has dealt with, and the later ones have none;
a request without a reply that no loop has taken has no rows at all. For `EveryFailureCostsAConnection` the `Account` of connections (queued, lent, being opened,
still permitted) is followed through the steps of the pool: a connection or a permission moves from one part to another in all of them but
`CreateThrows` and `Drop`, which take one off, and these two are the steps of the service that add a request to `Failed`, one that
had no reply before (`ReplyInv`) and no message about its body (`BodiesAnswered`); a `ParseThrows` takes nothing off and adds
nothing, as its request has such a message. `FailureInv` adds the queue while the constructor is filling it, which makes the balance true when `main` begins to serve; that two threads
never have one connection, so that `Lent` loses exactly one element, is `OwnershipInv` of the pool.

What failed requests leave (`FileInv`). A request has nothing in the file while its loop is at a step before the open
(`HandlerFile`), nor before any loop has taken it; the steps that answer 400 or 500 begin at such a place, but for the
exception of `stoi` in `saveData`, which is thrown after the file was written and at the last line of the bill (`BillCutShort`). That
writing at an offset, over the rows of others or behind holes, brings rows of the writing request only into the file is a lemma about `Put`.

The file of one loop (`OneFileInv`). The file is always the beginning of the rows of one request: nobody but the one loop
has its hands on it, the open cuts it to nothing, and each row is put behind the last one (`PutAtTheEnd`), since what the loop has
written is as long as the file. A handler that has reported the file as created finds a beginning of its own rows there until it is done, since a
request is handled once; all of them unless a write failed (`WholeUnlessWriteFails`), which the code reports as created just the same.

The argument about the device order (`OrderInv`). While the first loop runs it has passed over no source, so the net it
takes is the first one, and if it takes none there is none; so `expanders = 0` in the second loop means a board without
a source, and `ioData[expanders - 1]` is a real element otherwise. Then each `Follow` adds a link of the wiring at the
end. That no expander is listed twice (`OrderIsInjective`) uses two facts about boards that can be built: nothing
drives the expander a source feeds (`SourceIsNotDriven`), and an expander is driven by one other at most (`DrivenByOne`).
A repeated expander would either be the first one, which is driven by none, or repeat the one before it as well.

The argument about the conversion (`ConvertInv`). The filter's list is the relays among the nets it has passed: there is an increasing
map from the list to the nets it was taken of (`ListsTheRelays`), which `ListGrows` extends by one. Each row is what
the conversion makes of its relay (`RowsAreConverted`), with the modifier drawn in the beginning; the properties follow from
that without any further step: addresses, because two relays with one device number have one expander line in common with `ioData`, and one
port gives back one pin (`PortTellsThePin`); the normal state, from where the two ends of the resistor are; pin and enumeration, from what the
code of the last digit is.

The argument about the netlist reader (`ReaderInv`). It numbers the places of the nets by how many come before each, and says
that the line at a place is the line of the file with its number; reading a line adds one place behind all others
(`ReadLineAddsAPlace`), whose net is that of the place before it exactly if the two lines have one name (`LineJoinsTheRun`).

The argument about the bill reader (`BillInv`, `PlainInv`, `BackInv`). What `holder` has is the current line without its first `k` characters.
For `NoIdentifierMeansEmptyQuotes` it is enough that `k` is at the beginning of a cell until the identifiers, and
behind a quote that opens a cell in a list without names. For `ShortRowRepeatsLastCell` the line has no quotes, so that the
reader is never in a list, and `k` is where the column begins that is read next (`PlainSoFar`). Columns are told by counting commas, without
any recursion: that `find` and `erase` go from one to the next, and stay where they are at the last one since `npos + 1` is 0, is `CellOfARest`.
For `PartsAreReadBack` the row is that of a part, and `holder` is always the rest of that row: from the next cell on (`AtACell`), or
from the next name of the list on, up to the closing quote (`InTheList`), while the cells of `temp` before it, and the names it has, are
those of the part (`ReadSoFar`). A rest is a cell, a comma and a shorter rest (`JoinedAreTexts`, `IsJoin`), so that one cell is taken by
one lemma (`CellOfAJoin`); the loop over the list stops at the right place because neither the names nor, for the last one,
the empty text in front of the closing quote can be taken for it (`NameIsTaken`, `ListIsClosed`). That `temp` is empty when a row begins
is in the type invariant; without it the names of the row before would come first.

The argument about the composition (`InputInv`): the invariants of the parts, none of which begins before the one before it has ended.
`NumberIsPlaceOnChain` needs the chain that `getDeviceOrder` has found to be the whole chain of the wiring, which has one
beginning and one way on; `GoodBoardsAreAddressed` shows that the condition of `DistinctAddresses` is what a good board
gives, so that the addresses of the rows are distinct in the program and not only in the conversion. It needs that each element of `ioData`
was filled in (`NoElementEmpty`).

The argument about the outcomes (`OutcomeInv`, `CauseInv`). `Outcome` reads off the parts what `handleQuery` sees of them: that it is still in
`getInputData` or in `relayConvert`, that it has the rows, an exception, or that the process is gone; `NextOutcomes` says what may follow what.
This is what `Compute`, `Fail` and `Crash` of `QueryService` take for granted, and `NeverReturn` is a request that stays in `getInputData`. The order of the parts is in
`InputInv`; what is added is that all nets were filtered when the order is looked for. With the map from the list to the nets
(`ListsTheRelays`), which is then one to one and onto the nets with a relay pin (`ListHasAllRelays`), the number of rows follows.
`CauseInv` keeps the reason for which each part has stopped: it was in a list, so that there is a quote in the row (`NoQuoteInARest`), and had no memory; the filter
met a number that is too large; the second loop read in front of `ioData` with nothing found; a relay, which is a net of the file
(`CurrentIsANet`), has a name or a pin that cannot be read. On a board that can be built and has a first expander, `push_back` throws only with a
memory of no more elements than there are expanders, because `ioData` is full (`NoElementEmpty`), its expanders are on the board
(`FoundAreExpanders`), and none is there twice (`NoneTwice`). So a board as in `ClosedBoard` can fail for lack of memory only.

The argument about the tool (`ScanInv`, `ToolInv`). The flag is right about the net that is being read, `FlagIsRight`, and the list
has the relays of the nets before it; the last net is added at the end of the file, which is what makes the lists of both programs
equal. `gndData` has the keys of the GND lines read so far. From the first expander on the loop is that of the service, so that its
lemmas are cited; a key tells the part if identifiers and device names joined by an underscore do (`KeysTellParts`). The invariants of
the bill (`PlainInv`, `BackInv`) are about `billVars` alone, so that the tool has their theorems with the same lemmas.

Only model-checked: liveness (`EveryRequestIsAnswered`, `StopComesToRest`, `ClosedBoardsAreConverted`, `ToolEnds`), which is
out of the prover's reach. Every invariant the passing runs check is a theorem.

The definitions of the models are written for both tools where a proof goes through them: the first and the last index a search
stops at are `Min` and `Max` of the set of indices, not a fold over the sequence; what is joined with commas is a function on
the places of the list (`JoinedFrom`); tables are functions; a list of relays is described by
`ListsTheRelays`.

## Plan

Done: all modules of the list above, with proofs of all safety invariants and action properties. The modules are proved one by one; the service takes of
`InputData` what `RequestEndsOnce`, `EveryRelayHasARow` and `FailuresHaveACause` say. Left: how long one request may stay in `getInputData` while others are
served, which would need the files of all requests in the state of `QueryService`.

## Not modelled

- Third-party code: drogon, trantor, jsoncpp and the MySQL connector are headers and binaries of other projects, more than nine
  tenths of the lines of the repository. What the program relies on is in `QueryService`, marked external. Of the program's own
  code the modules leave little out; as a share of all lines it is small for this reason.
- `toUpper`: the files are taken to be in upper case. The tool has no `toUpper`, so that what is said of the tool and the service in
  common holds for such files only. `isdigit` and `toupper` of characters with negative codes; leading zeros of connections.
- How a line of the netlist is split into its four columns: lines come as records (`Columns` keeps what the split does with
  empty lines and blanks).
- A device name that contains a relay model without being it, and the order in which `std::map` lists the models: no name
  in the table contains another.
- The values of columns that are only copied, of the identifiers of a part all but the first in `saveData`, the switching times,
  which are constants, the wording of replies and log lines.
- Texts that coincide once identifier and device are joined in the tool's `gndData`; write errors of its CSV file; its
  message about missing arguments.
- Connections the server has closed: no connection is stale in the models. Single statements fail (`StatementFails`), on any
  connection; that all statements on one do, until it is dropped, is not said.
- What happens after the process has ended: nothing in the repository starts it again, and it has no state on disk but the
  CSV file and the tables.
- The project files of the build.
