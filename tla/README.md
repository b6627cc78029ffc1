# A verification project for the C! library (cbang)

C! (`src/src/cbang`) is a C++ library of system building blocks: an event
library with HTTP servers, HTTP clients and websockets on top of libevent, thread
pools, an ACME certificate client, logging, configuration, JSON, databases and
more.  This directory models the parts of it whose correctness depends on the
order in which things happen.  The modules are TLA+, TLC checks them on small
instances, and TLAPS proves the main theorems for every value of the constants.

Run everything in this directory: `tlc -workers 2 -config HTTPServer.cfg MCHTTPServer`,
`tlapm ThreadedServerProofs.tla`.  The module and the configuration of each run are in
`PROJECT.json`.

## 1. Inventory

| Part | State | Operations | What makes it hard |
|---|---|---|---|
| `event/ConcurrentPool` with `QueuedTask`, `os/ThreadPool`, `os/Thread`, `os/Condition` | two priority queues, `active`, an event, thread states and shutdown flags | `submit`, `run` (thread), `complete` (event loop), `start`, `stop`, `join` | threads, a condition variable, a callback that may be skipped when it is pending |
| `acmev2/Account` | the step of a renewal, nonce, order, authorization, retries, current certificate | `update` (timer), `responseHandler`, `next` (retry timer), `challengeRequest` | a dozen responses in a row, any of which may fail; a one-use nonce |
| `event/Connection` (incoming), `Headers`, `Request`, `BufferEvent` | parser state, input and output buffers, active request, event queue | `readCB`, `writeCB`, `errorCB`, `reply`, `sendChunk`, timeouts | TCP cuts anywhere; callbacks are queued and run later; per-request members in a long-lived object |
| `event/HTTP`, `event/WebServer` | connection list, accept event, limits | `bind`, `acceptCB`, `remove`, `expireCB`, `evict` | the accept event is switched off at the limit |
| `event/Websocket` | opcode, mask, message so far, ping and pong timers | `readHeader`, `readBody`, `writeFrame`, `close`, `ping`, `pong` | fragments, control frames, two sides closing at once |
| `event/Connection` (outgoing), `BufferEvent`, `OutgoingRequest` | queue of requests, socket state, retries, retry timer | `makeRequest`, `cancelRequest`, `connect`, `retry`, `done`, callbacks | lookups, connects, timeouts and callbacks of an earlier socket; reentrant callbacks |
| `net/IPRangeSet` | sorted vector of range ends | `insert`, `erase`, `contains` | in-place merging, both ends of the address space |
| `http/Server`, `http/Connection`, `http/ConnectionQueue`, `socket/SocketServer` | state of each connection, queue, worker threads, flags | `service`, `processConnection`, `handleConnection`, `start`, `stop`, `join` | a server thread and workers that share connections; time-outs that do not wait for a worker |
| `http/SessionManager`, `db/Transaction` | sessions, `dirty`, the table in the database | open, get, close, `update`, `save`, `load` | a flag read without the mutex, failing saves, crashes |
| `util/Rate`, `util/ACLSet` | ring of buckets; users, groups, paths and a cache of decisions | `event`, `get`; `allow`, changes of the sets | time that jumps; inherited rights, a cache to be flushed |
| `db/maria/EventDB`, `db/maria/DB` | state of a query, result, row, retries | `query`, `connect`, `ping`, `close`, continuation | any call may be pending, fail, or start the query again |
| `log/Logger`, `os/SignalManager`, `os/ProcessLock`, `os/Subprocess` | log file, handlers, lock file, pipes | rotate, dispatch, acquire, wait | threads, signals, other processes |
| `json`, `xml`, `config`, `tar`, `openssl`, `pci`, `gpu`, `js`, `script`, ... | | | data formats and wrappers; no state machine worth checking |
| `libevent`, `sqlite3`, `re2`, `zlib`, ... (bundled) | | | third-party code |

`PROJECT.json` has the same list in full, with what is modelled of each part, the
hazards at the lines where they bite, and the source lines of every definition.

## 2. Modules

Common to the event-driven modules (`ACMEAccount`, `ServerConnection`,
`Websocket`, `ClientConnection`): an object and what it owns are one record; a
member function is an operator from the record it finds to the record it leaves,
so that one callback, with everything it calls, is one step, as it is in a
single-threaded event loop.  A function that throws sets `threw`, and the
operator of the code that catches the exception looks at it.  Where the code
queues a callback (`BufferEvent` calls its callbacks through events), the queue
is part of the record, because what happens between queueing and running is where
these classes are hard.  What the environment decides (the network, the peer, the
application) is a quantifier or an action.

**`ConcurrentPool`** (with `os/ThreadPool`, `os/Thread`, `os/Condition`).  Every
pool thread, the event loop and the owner that starts, stops and joins the pool
have a program counter; a step is the code between two points where another
thread can see what was done.  `Submit`, `Take`, `Push`, `Activate` and `Decr` are
`submit()` and the stretches of `run()`; `Fire` to `Complete` are `complete()`;
`CallStart`, `CallStop` and `OwnerStep` are `start()`, `stop()` and `join()`.
Waiting, signalling and broadcasting follow POSIX, spurious wakeups included.
`MCConcurrentPool` gives priorities and time stamps.

**`TaskService`** is what the pool promises: a task goes from new to queued,
running, finished, reported and completed; no more tasks run at once than there
are threads, and a task runs only when no queued task outranks it.
`ConcurrentPool` implements it under the mapping `Status`.

**`ACMEAccount`** (with `KeyCert`).  `update`, `Respond` (`responseHandler()`), `RetryEvent`
(`next()`) and `challengeRequest` are the callbacks.  A server is `"orderly"` (it
fails, refuses and delays but sends whole documents and offers an http-01
challenge) or `"any"`.  From some time on (`calm`) it answers to the point.

**`ServerConnection`**, with clients in `MCRequests`, which `MCServerConnection` and
`MCEventLoop` put on it.  The stream is a
sequence of symbols (a line, its end, a body byte); the network hands it over in
pieces of any size.  `manner` says whether a piece may end inside a line and
whether the client pipelines.  Handlers reply at once, later, in chunks, throw,
refuse the request or decline to continue.  A request has its place in the stream as
its `id`, and `output` holds the ids of the responses in it, so that what the client
receives (`answers`) says which request it answers.

**`HTTPListener`**.  The phase of each client, the list and the accept event.
`free` is `Connection::free()` with `HTTP::remove()`; a connection that is dropped
from the list while a request is handled lives until the request is done.

**`Websocket`**, with clients in `MCWebsocket`.  A payload byte carries the key it
was masked with, so that it comes out right only under that key.  `App` is the
application, which sends and closes when it likes; if it keeps the websocket (`kept`),
also when the connection has let go of it (`queued` is false).  `sockError` is a client
that hangs up, a time-out or a read or write that fails.

**`ClientConnection`**.  The queue of requests, the socket, the callbacks that are
queued and the retry timer.  A response is one symbol; `ServerConnection` has the
parsing.  A member function that calls `onResponse()` stops there, with a frame on
`stack` for the rest of it (`Return`, or `Throw` when the callback throws): between
the two the callback may make and cancel requests.  `custom` says whether requests are
cancelled, whether the callback of an answered request (`"reenter"`) or of a failed
one (`"resubmit"`) makes requests, and whether the server sends a `100` first.

**`IPRanges`, `IPRangeSet`**.  `IPRanges` has the algorithms (`find`, `shift`, `Insert`,
`Erase`) as operators on a vector; `IPRangeSet` is the object they change, with the
plain set of addresses beside it as the reference.

**`QueuedTask`**.  A task that hands data from its `run()` to the event loop while it
runs.  The pool thread is in `enqueue()` (`Enqueue` to `Enqueued`), the loop in
`dequeue()` (`Dispatch` to `Leave`), `success()` (`Flush`) or `complete()`, each cut
where the task's mutex is taken or released.  Of the pool it uses what `TaskService`
promises: the task is reported once, after `run()` has ended.

**`EventDB`** (with `maria/DB`).  One action for each case of `next()`, and one for
each way a non-blocking call goes on: `Pend`, `Answer`, `Complete`, `Fail`.  `Raise`
follows an exception to where it is caught: in the owner, in the handler of
`operator()`, or, from a retry, in the event loop.  The server's answer is a script
that gives the number of rows of each statement.

**`ThreadedServer`** (`http/Server`, `http/Connection`, `http/ConnectionQueue`,
`socket/SocketServer`, `os/Thread`).  The server thread, each worker and the owner
have a place in their code.  `Select` to `Cleanup` are a pass of `service()`; between
`Visit` and `Timeouts` is `processConnection()`, one action per state and outcome;
`PoolThread` to `Built` are a worker; `StartPool` to `Joined` the owner, and
`StartFails` is a `start()` whose `startup()` throws when the workers already run.  A
connection's state is written by the server thread and by workers without a lock, as
in the code.  `ReadHeader` has no case for "Already have a response"
(`Server.cpp:318`): `setState(READING_HEADER)` resets the response, and nothing gives
it a status before a handler is chosen.

**`SessionStore`** (`http/SessionManager`, `db/Transaction`).  Workers change the
sessions in critical sections; `SaveBegin` to `SaveFails` are `save()`, row by row;
`Crash` and `Restart` with `Loaded` (`load()`) may come at any time.

**`ACLSet`**.  Every change, both questions, `clear()` and `read()`, with both caches.
**`Rate`**.  `event()`, `get()` and `reset()` on the ring of buckets, with the number
of events at each time beside it as the reference.

`MCEventLoop` puts together what an event loop drives (`HTTPListener`,
`ServerConnection`, `EventDB`, `QueuedTask`), `MCHTTPServer` the threaded server and
what its threads use (`ThreadedServer`, `IPRangeSet`, `SessionStore`, `ACLSet`,
`Rate`).  The parts of a group share no state, so their interleavings say nothing
new: a variable `part` says which one runs, the others stay as they began.

**`ConcurrentPoolProofs`, `ThreadedServerProofs`** (with the lemmas on `IPRanges`),
**`ACMEAccountProofs`, `ClientConnectionLemmas`, `ClientConnectionProofs`,
`EventDBProofs`, `EventLoopProofs`** (listener, queued task, database) and
**`HTTPServerProofs`** (filter, sessions, access lists) hold the theorems.  The last two extend `MCEventLoop` and `MCHTTPServer`: what is
proved of a part is carried over to the specification that TLC runs, whose steps are
steps of the part or leave it alone.

An operator with an underscore in its name (`Passed_OffByOne`) is a mutant: the
definition before the underscore with a mistake in it, which `PROJECT.json` names
with the property that catches it.  No specification uses one.

## 3. What TLC checks

| Run | Instance | States | Shows |
|---|---|---|---|
| `pool` | 2 threads, 2 tasks of different rank, 3 calls of `start`, `stop` or `join`, 1 spurious wakeup | 729k | no task lost or handled twice (`EachTaskInOnePlace`), no completion or wakeup lost, outcomes settled, `ImplementsService` |
| `pool_liveness` | the same without spurious wakeups, fair | 339k | tasks that a thread can get to are completed, calls return |
| `acme` | 2 certificates, up to 2 authorizations, a limit of 0 and of 1 retries, both kinds of servers | 223k | one operation at a time, fresh nonces, every due certificate tried, certificates earned, renewed in the end |
| `websocket` | 1 message in up to 3 fragments, then 2 control frames, then a close, a message, a reserved opcode or an unmasked frame; cut anywhere; connections that fail, an application that sends and closes, 1 message or ping of the server's own | 358k | messages whole, in order and not left unread (`MessagesArrive`), a close frame answered, the last one, and nothing written without a websocket (`ClosingHandshake`), pings answered with their payload |
| `client_connection` | 3 requests, 1 retry, cancelling, callbacks that make requests, rejected responses | 364k | one callback per request and its own response (`SettledOnce`), not repeated but by `sendError()` and written to a connected socket (`WrittenOnce`), never stranded (`Watched`, `Answered`) |
| `event_loop` | listener: 4 clients, limit 2, evictions, time to live. Server connection: 3 requests of one framing, bodies of 0 to 3 bytes with a limit of 2, or 2 with an `Expect`; one by one, pipelined, or cut inside lines. Database: 4 answers of 1 to 3 statements, 3 operations, 3 attempts. Queued task: 3 data | 73k | limit and accept event agree, backlog served; requests parsed as sent, nothing left unread, answered in order (`AnswersInOrder`) and in the end; calls of the database legal, every row shown once, operations end; data processed promptly, in order and before `complete()` |
| `http_server` | server: 1 client and 2 workers, or 2 clients and 1 worker, room for 1. Ranges: 3-bit addresses, every sequence of operations. Sessions: 2 ids, 3 seconds, 1 failure or crash. Access: 1 user, 1 group, 2 paths. Rate: 3 buckets, 6 periods, 4 events, the clock set back once, 1 reset | 256k | one thread per connection (`OneHolder`), none forgotten, `SharedOnlyLate`, requests processed, `join()` returns; `contains()` is membership; `CleanIsSaved`, `SavedAtOnce`; `allow()` answers what the lists say; `get()` counts the events of its window |

Bounds and why they are enough: two threads and two tasks are the least that lets
one thread sleep, one work and a task wait; the proofs below do not depend on
them.  Two certificates let one fail before the other, and two authorizations let
the second be skipped.  Three requests let something be left over from the first
and the second.  A limit of 2 with four clients fills the list and keeps one
waiting.  Eight addresses hold up to four ranges and both ends.  A message in
three fragments has a first, a middle and a last one.  The retry limits 0 and 1
stand for none and some: with `next()` as it is, no limit above 0 is ever reached.
The code's five attempts of a query are three, so that one is the first, one in
between and one the last.  Two workers can want one connection, and two clients one
place; both at once is left to the proof.  Two sessions let a save stop between
them, and three seconds let one be old and the other new.  Six periods exceed the
ring of three, so that it is passed whole and in part, and `Width` exceeds the clock,
so that an unsigned difference wraps only when time runs backwards.

Fairness.  The pool: every thread that can take a step takes one in the end
(the operating system's scheduler); nothing is assumed of submissions, calls or
spurious wakeups.  Event-driven modules: the loop serves active events, due timers
and ready sockets.  `ServerConnection`: also, a peer that takes data takes all of
it in the end (strong fairness of `sockWrite`), and handlers finish their replies.
`HTTPListener`: a connection ends in the end, because `readTimeout` and
`writeTimeout` close a silent one.  `ACMEAccount`: requests are answered or fail
(a connection has timeouts), `update()` is called again and again, and the server
does not misbehave for ever.  `ClientConnection`: the loop alone; `Answered` needs
nothing of the server because every wait has a timeout.  `EventDB`: `next()` runs
on and a pending call is answered or fails; that the retries end follows from their
count.  `QueuedTask`: the loop runs and a call of `enqueue()` ends; `run()` need not,
so that `Prompt` is about data processed while the task runs.  `ThreadedServer`: the
scheduler runs every thread and handlers return; nothing is assumed of the clients,
of time-outs or of the owner.  The other parts of `http_server` need none.

Deadlock is not checked, because each of these systems may stop: all tasks are done,
all requests answered, the client gone, the bounded calls made.

### Where the code departs from what it says

Five runs expect a violation; each checks what a comment or an option's text says.

| Run | What TLC shows |
|---|---|
| `acme_retries` | `next()` resets the retry count on every attempt, so `acmev2-retries` never takes effect |
| `server_split_header` | a header line that arrives in two reads ends the headers early |
| `websocket_interleaved` | a control frame between two fragments loses the fragments before it |
| `client_double_dispatch` | a request made in `onResponse()` is written twice; the extra response goes to the next request |
| `session_zero_timeout` | a `session-timeout` of 0, documented as none, removes sessions after a second when a `session-lifetime` is set |

The passing runs are restricted where a departure would hide everything else.
These restrictions, with what happens without them.  The properties are guarded by
variables that are fixed in `Init` (`server`, `maxRetries`, `manner`, `custom`) or
record what happened (`old`, `late`, `dropped`); take a guard out, or set a constant
as said here, to see the violation:

* `ACMEAccount`, `OneOperation`: asked of an orderly server.  An authorization
  without an http-01 challenge (`acmev2/Account.cpp:411-427`) leaves the account
  waiting for nothing.
* `ACMEAccount`, `maxRetries > 0` in `OneOperation`, `EveryDueCertTried` and
  `RenewedEventually`: with a limit of 0, giving up before the directory is read
  ends in `next()` throwing with nothing scheduled (`Account.cpp:461-465`), and a
  pass that begins with registration goes on from a `currentKeyCert` past the end.
* `ServerConnection`, `manner`: with `"split"`, which `WholeLinesParsed` excepts,
  `readBody()` loops on an incomplete chunk size (`event/Connection.cpp:626`).  With
  `"pipeline"`, a request already in the buffer is not looked at before more data
  comes (`Connection.cpp:763`).  `NothingUnread` excepts both.
* `MCRequests`, `Mixed`: after a chunked request, `chunkedRequest` stays
  set (`Connection.cpp:555`) and a request with a length is read as chunked, which
  violates `NothingUnread`.
* `ServerConnection`, `Impatient` in `AnswersInOrder`: the write callback of a
  `100 Continue` can pop a request whose body arrived first and whose handler has yet
  to reply (`Connection.cpp:733`).  The reply then throws, the client gets no response,
  and one that does not wait for it takes the next response for this request.
* `ServerConnection`, `MaxHeader`: `headerSize` adds up over the requests of a
  connection (`Connection.cpp:458`), so that under a limit a later request is
  refused though it is as short as the first (script `Gets`, `MaxHeader = 8`).
* `HTTPListener`, `Addresses`: `bind()` accepts one address
  (`event/HTTP.cpp:97-98`), while `http-addresses` is a list.
* `HTTPListener`, `old` in `AcceptsWithRoom` and `BacklogServed`: `acceptCB()`
  deletes the accept event at the limit, `remove()` adds it again, but `expireCB()`
  (`HTTP.cpp:175`) erases connections without adding it; after that the server can
  have room and not accept.  A connection that `expireCB()` drops while its request
  is handled is open and not counted.
* `Websocket`, `Batching`: the second of two frames in one read waits for more data
  (`Connection.cpp:417`), which violates `MessagesArrive`.  `MCWebsocket`, `Pinging`:
  the mask of a control frame is not copied (`event/Websocket.cpp:180`), so that
  `PingAnswered` fails.  `BareClose`: a close frame without a status throws before it
  is answered (`Websocket.cpp:237`), and the connection is closed without a close frame,
  which `ClosingHandshake` takes for a connection that was lost.
* `Websocket`, `PingAnswered`: a ping that is read after `close()` has its pong timer
  all the same; `pong()` then throws, and `Event::call()` logs it.
* `ClientConnection`, `custom`: with `"cancel"`, a retry timer left behind makes a
  working connection reconnect and send again (`Connection.cpp:358`), or opens one
  that nobody watches; and a connect callback left in the queue is taken for the
  next socket's (`Connection.cpp:687`).  With `"resubmit"`, a request made in an error
  callback enters `connect()` while `free()` or `fail()` is half way: `free()` calls it
  back at once with the error of the others, and the connect or the retry timer that it
  started goes on without it.  With `"reenter"`, see
  `client_double_dispatch`.  With `"continue"`, a response in the same segment as
  the `100` waits for more data (`Connection.cpp:534`).
* `ClientConnection`, `replying` in `WrittenOnce`: a response with a header line, a
  length or a body that is too long, or without a length, is answered with
  `sendError()` (`Connection.cpp:456,566,578,582`).  On an outgoing connection that
  writes the request again, with `Connection: close` (`Request.cpp:742-796`); a second
  `sendError()` throws, and the request fails.
* `ThreadedServer`, `late` in `SharedOnlyLate`: a time-out is tested in every state
  (`http/Server.cpp:406`), so that the server thread reports a connection, with its
  context, while a worker builds the response with it.  The comment at
  `Server.cpp:308` rules that out.  `OneHolder` shows that the harm stays there: the
  connection is not given to a second worker.
* `ThreadedServer`, `DirectJoin`: `join()` without `stop()` waits for the workers
  before it sets the flag that ends them (`Server.cpp:199`), and `JoinReturns` fails.
* `ThreadedServer`, `MaxStarts`: nothing resets `quit` of the queue, so that after a
  second `start()` an idle worker asks the queue again and again without waiting.
* `ThreadedServer`, `Accept`: at the limit, `createConnection()` returns a null
  pointer that `SocketServer::service()` uses before it tests it
  (`socket/SocketServer.cpp:126`); the exception ends the pass, and clients that are
  waiting are accepted in a later one.
* `SessionStore`, `dropped` in `CleanIsSaved`: `save()` clears `dirty` first, so that
  the sessions of a save that failed are not saved before the next change
  (`http/SessionManager.cpp:228`).  When the transaction could not be rolled back
  either, every later save is refused by `begin()`.
* `EventDB`: an exception of a retry leaves through the handler that caught the
  first one, and the operation ends without a last call of its callback
  (`db/maria/EventDB.cpp:160`); `Ended` counts that as an end.  One operation is
  under way at a time.  Of a second one the code refuses `connect()` and `close()`
  (`assertNotPending()`), not `ping()`; a second `query()` gets an event whose handler
  goes on with the pending call of the first (`EventDB.cpp:274`).
* `QueuedTask`: a task that fails drops the data it has enqueued and the loop has not
  seen, which `Delivered` and `Prompt` except.
* `ACLSet`: `clear()` and `read()` leave the cache of `allowGroup()` as it is, so that
  it may go on allowing a group that no longer exists; `AllowIsCurrent` is about
  `allow()`.  The model is of one thread: the caches have no lock of their own.
* `Rate`: `reset()` clears the first bucket only; `RateIsAverage` shows that `get()`
  does not see the others before `event()` has cleared them.

## 4. What is proved

`ConcurrentPoolProofs`, for any number of threads, tasks, calls and wakeups:

* `TypeCorrect`.  `TypeOK` is strengthened by `Hands`: a thread has a task exactly
  at the places of its code where it works on one, the event loop likewise, and a
  thread object is `STOPPED` exactly when no system thread exists.  `TypeInv` is both.
* `MutexCorrect` (`MutexProtects`): who is at a place inside the lock holds the
  mutex, and `active` is the number of threads at work.
* `PlacesCorrect` (`EachTaskInOnePlace`) and `CompletionCorrect`
  (`NoLostCompletion`): each is inductive relative to `TypeInv`.
* `WakeupCorrect` (`StopWakesWaiters` and `NoLostWakeup`), assuming that `start()`
  is not called while threads run (`~RestartRunning`): `Thread::start()` then joins
  the thread without waking it.  `NoLostWakeup` is not inductive.  `Inductive` adds
  the mutex invariant and `WakeInv`: a thread told to stop is asleep, or about to
  sleep, only while a broadcast is to come; and the threads that a `start()` in
  progress has yet to reach are stopped or told to.
* `JoinCorrect` (`JoinEndsThreads`): with `Reaped`, the threads that `join()` has
  passed do not exist.
* `OutcomeCorrect` (`OutcomeSettled`): from `EachTaskInOnePlace`; only the thread
  that runs a task sets its outcome, and such a task is not completed.

The refinement, in the same module: `PoolImplementsService`, the initial states map to
initial states and each step to a step of `TaskService` or a stutter, given
`TypeInv` and `EachTaskInOnePlace`.

`ThreadedServerProofs`, for any clients, workers, limit and number of starts:

* `OneThreadEach` (`OneHolder`), `NoneForgotten` (`Attended`) and
  `SharedAfterTimeout` (`SharedOnlyLate`).  None is inductive: a time-out moves a
  connection on while a worker has it, and what keeps the server thread from queueing
  it again is that it can then only be reported and closed.  `HeldStates` says so: a
  connection in the queue or with a worker is `PROCESSING`, `REPORTING` or `CLOSING`,
  is not one that still has to be accepted or is about to read its next request, and
  is being reported only when it is late.  `Places` says which threads have a
  connection where.  `Invariance` proves both with the properties.
* `ConnectionsBounded`: never more than `max-connections` connections.
* What the operators of `IPRanges` compute, for any vector of ranges and any width of
  an address; `HTTPServerProofs` instantiates these lemmas.  `FindFinds`: the bisection
  ends at an odd position inside a range or at an even one between two
  (`Position`), by induction on the size of the interval that is left.
  `InsertUnites` and `EraseSubtracts`: the vector is the old one up to one position and
  after another, with at most two new numbers in between (`Rebuilt`); it is sorted
  again, and its ranges cover the union, or the difference.  `LessInside` shows that
  `start - 1` and `end + 1` do not wrap where `erase()` computes them.

`EventLoopProofs`, of `MCEventLoop`, whose parts are proved about separately:

* the listener, for every finite set of clients and all limits: `TypeCorrect`,
  `ListCorrect`, `CountCorrect` and `LoopAccepts` (`AcceptsWithRoom`), each inductive
  relative to `TypeOK`; the last uses the lemma that a superset of a full list is full;
* the queued task, for any amount of data: `LoopDelivers` (`Delivered`) and
  `FlushesAlone`, that `success()` may read the queue without the mutex.  The invariant
  `Chain` says that what was handled, what is in hand and what is queued are, in that
  order, what was sent; it is given up (`Abandoned`) only when `process()` throws in
  `success()`;
* the database: `LoopCallsAreLegal` and `LoopShowsResults`, from `EventDBProofs`.

`EventDBProofs`, for any answers that have a result (`ScriptsOK`) and any limit on the
retries: `CallsAreLegal` (`AssertionsHold`) and `EveryResultShown` (`ResultsShown`).
`Resulting` says for each case of `next()` and each call whether a result is stored and
whether more follow.  `Showing` says what the callback was shown at each place: the
results before the present one, its beginning and the rows that were fetched.  What a
query shows is defined by recursion over its results (`ShownOf`); that there is such a
function, what its values are and their type are proved by looking at the least
argument for which it would fail, with the well-foundedness of the natural numbers.

`HTTPServerProofs`, of `MCHTTPServer`:

* the filter, for addresses of any width (`BitsAssumption`): `ServerFiltersMembers`
  (`ContainsMembers`).  The invariant `RangesInv` says that the vector represents the
  set: its numbers never fall, only the end of a range may repeat its start, all are
  addresses, and an address is within a range exactly if it is in the set.
  `ContainsMembers` speaks of what the bisection returns; `RangesInv` speaks of the
  ranges themselves, which is what `insert()` and `erase()` change, and `ContainsWithin`
  says that the bisection finds them;
* the sessions, for any ids and limits and any number of failures and crashes:
  `ServerKeepsSessions` (`CleanIsSaved`) and `ServerCommitsOneMoment` (`SavedAtOnce`).
  `SaverInv`: while rows are written the mutex is held and they agree with the
  sessions.  A change between the clearing of `dirty` and the lock sets `dirty` again;
  that is why the unlocked flag does no harm;
* the access lists, for any users, groups, paths and documents that have the form of
  the set (`DocsAssumption`): `NamesAlwaysResolve`, that groups and lists name only
  what exists, so that `allow()` never throws, and `ServerAllowsCurrent`
  (`AllowIsCurrent`), from `CacheRight`: a cache that is not dirty holds right answers
  only.

`ACMEAccountProofs`, for any number of certificates and authorizations, any limit on
retries and both kinds of servers: `NeverTwoOperations` (`OneOperation`),
`NoncesAreFresh` (`FreshNonce`), `NoDueCertSkipped` (`EveryDueCertTried`) and
`OnlyEarnedCertificates` (`CertificateEarned`, an action property).  None of the four is
inductive; `IInv` adds, for each, what it rests on:

* `Waiting`: at most one of a request and the retry timer is outstanding, nothing when
  the account is idle, and a `POST` carries a fresh nonce (`NoStaleNonce`: a nonce goes
  stale only while the account is idle, and `update()` drops it);
* `Prepared` and `Busy`, with an orderly server and retries: what `next()` reads in a
  state is there, so that it does not throw and leave the account waiting for nothing;
* `Validated`: the order at hand was made for the present certificate, the
  authorizations before `currentAuth` are valid, and from `STATE_FINALIZE` on all are;
* `Ahead`: a certificate that was due when the pass began and was not tried lies at or
  after `currentKeyCert`.

`next()` calls itself through `nextKeyCert()` and back; `NextEffect` sums up all that
the other proofs need of it, and that the certificate it goes on to is the first that
is due uses the least element of a set of numbers.

`ClientConnectionLemmas` (the invariant, and what each member function does to it) and
`ClientConnectionProofs` (the actions), for any requests, any limit on retries and every `custom`:
`SettledOnceHolds`, `WrittenOnceHolds` and `WatchedHolds`.  The invariant `IInv` has

* `Settled`, the books: the requests in the queue are different and not called back,
  the others that were made and not dropped were called back once;
* `Nested`, what a callback finds: `done()` calls back outside of all other callbacks,
  and while `free()` or `fail()` does nothing is connected;
* `Steady`, what each state of the connection says of its requests, its socket, its
  buffers and the events that are active: e.g. in `CONNECTING` with the socket ready,
  `connectCB()` is to come, and a failed socket has its `errorCB()` to come;
* `Open`, that a connection that is made has its socket: without cancellation;
* `Fresh`, that at most one event is active and it belongs to the present socket, and
  the retry timer runs only while disconnected: without cancellation and requests made
  in the callback of a failed one;
* `Once`, that a request is sent once, and once more after a `sendError()`, and that one
  behind the head, or that waits for a connection, was not: without cancellation and
  without requests made in callbacks;
* `Matching`, `Quiet` and `Flow`: responses went to their requests, and what is in the
  buffers and at the server is about the request at the head, in one place at a time
  until a `sendError()`; without requests made in the callback of an answered one.

`SettledOnce` needs `Flow` for its second half: that the response belongs to the
request is only as good as what was left in the buffers by the one before.  A request
that `sendError()` repeats may be answered twice, and the second answer must not reach
the next request: the repeated request says `Connection: close`, so that `done()` resets
the connection.  `reset()`, `free()`, `retry()`, `connect()`, `fail()`, `write()` and
`done()` have a lemma each that gives their outcome: the connection starts over, calls a
request back, or has written one.  The callbacks, and what comes after a callback
returns (`ReturnInv`, `ThrowInv`), are combinations of them.

Only model-checked: `ServerConnection` (`WholeLinesParsed`, `NothingUnread`,
`AnswersInOrder`), `Websocket`, `RateIsAverage` of `Rate`,
and all liveness (`RenewedEventually`, the `Answered` of both connections and the
others).  Liveness under fairness is out of the prover's reach; so is `Websocket` as it
stands, because it declares a recursive operator.  What the parser of
`ServerConnection` makes of a stream and what `Rate` adds up are defined by recursion
over data; the way taken for `ShownOf` and `find()`, to look at the least
counterexample, is open to them and has not been taken.

## 5. What is not modelled

* Data formats, text processing and wrappers of libraries and system calls (JSON,
  XML, URIs, options, tar, OpenSSL, SQLite, PCI): nothing there depends on order.
* TLS below a connection, `CONNECT` tunnels, DNS caching, versions of HTTP before 1.1.
* Outgoing websockets, which mask what they send, and the headers of the upgrade.
* Of the threaded server: the parsing of requests, whose outcomes are choices here,
  the mode without worker threads, in which one thread does everything in turn, and
  the capture of requests to files.
* Of the sessions: the LevelDB variant, which writes one batch, and cookies.
  `net/SessionManager`, the event library's, is a map that one thread uses and that
  is not saved.
* Signals, process locks, subprocesses and the logger: what they guarantee is what the
  kernel does with signals, file locks and pipes; between the calls they are
  sequential, and the logger holds one lock around a line.
* The reference counts of tasks and connections, and memory in general.
* The bundled third-party libraries.

## 6. What could come next

1. Inductive invariants and proofs for `Rate` (`RateIsAverage`) and the closing
   handshake of `Websocket`.
2. A composition of `ServerConnection` with `HTTPListener` (the list is shared) and
   of `Websocket` with the end of the HTTP connection below it.
