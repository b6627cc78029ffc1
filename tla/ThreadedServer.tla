----------------------------- MODULE ThreadedServer -----------------------------
(***************************************************************************)
(* HTTP::Server, the threaded web server (http/Server, http/Connection,    *)
(* http/ConnectionQueue on top of socket/SocketServer and os/Thread).      *)
(*                                                                         *)
(* One server thread multiplexes the sockets and moves every connection    *)
(* through its states; a pool of worker threads takes connections that are *)
(* PROCESSING from the connection queue and builds their responses; the    *)
(* owner starts, stops and joins the server.  A connection is named by the *)
(* client it serves.  Reading and writing are abstracted to their outcomes *)
(* (some progress, complete, an exception); a socket that is not ready and *)
(* a context whose isReady() is false are the same choice of select; a     *)
(* time-out or a restart time may pass at any moment.                      *)
(***************************************************************************)
EXTENDS Integers, FiniteSets

CONSTANTS
  Clients,         \* the clients, each of which connects once
  Workers,         \* threads there may be in the pool
  maxConnections,  \* option max-connections
  MaxStarts,       \* how often the owner starts the server
  DirectJoin       \* may the owner join() without a stop() before?

ASSUME BoundsAreNatural == maxConnections \in Nat /\ MaxStarts \in Nat

VARIABLES
  pool,         \* the threads createThreadPool() created
  arrived,      \* clients that have connected, or never will
  backlog,      \* clients the listening socket has not accepted yet
  connections,  \* SocketServer::connections; its order only decides who is visited first
  state,        \* Connection::state of every client's connection
  late,         \* connections past connection-timeout or max-connect-time
  delayed,      \* connections whose restartTime is not 0
  persistent,   \* connections whose request and response are persistent
  queue,        \* the ConnectionQueue: how often its heap holds each connection
  quit,         \* ConnectionQueue::quit
  shutdown,     \* Thread::shutdown of the server
  server,       \* the server thread: where it is and its local variables
  worker,       \* the pool's threads: where each is and the connection it has
  owner,        \* where the owner is in start(), stop() and join()
  starts        \* calls of start() so far

clientVars == <<pool, arrived, backlog>>
conVars == <<connections, state, late, delayed, persistent>>
queueVars == <<queue, quit>>
ownerVars == <<owner, starts, shutdown>>
vars == <<clientVars, conVars, queueVars, ownerVars, server, worker>>

States == {"READING_HEADER", "READING_DATA", "PROCESSING", "DELAY_PROCESSING",
           "WRITING_HEADER", "WRITING_DATA", "REPORTING", "CLOSING"}

Threadless ==
  [at |-> "off", con |-> {}, ready |-> {}, listen |-> FALSE, todo |-> {}, next |-> "CLOSING"]

Init ==
  /\ pool \in (SUBSET Workers) \ {{}}
  /\ arrived \in SUBSET Clients
  /\ backlog = {} /\ connections = {}
  /\ state = [c \in Clients |-> "READING_HEADER"]
  /\ late = {} /\ delayed = {} /\ persistent = {}
  /\ queue = [c \in Clients |-> 0]
  /\ quit = FALSE /\ shutdown = FALSE
  /\ server = Threadless
  /\ worker = [w \in Workers |-> [at |-> "off", con |-> {}]]
  /\ owner = "stopped" /\ starts = 0

-----------------------------------------------------------------------------
(* The world: clients connect and time passes.                             *)

\* A client connects, once, while the listening socket is open.
Connect(c) ==
  /\ c \notin arrived /\ server.at # "off"
  /\ arrived' = arrived \union {c}
  /\ backlog' = backlog \union {c}
  /\ UNCHANGED <<pool, conVars, queueVars, ownerVars, server, worker>>

\* connectionTimeout < now - lastIO or maxConnectTime < now - startTime becomes true.
Expire(c) ==
  /\ c \in connections \ late
  /\ late' = late \union {c}
  /\ UNCHANGED <<clientVars, connections, state, delayed, persistent, queueVars,
                 ownerVars, server, worker>>

-----------------------------------------------------------------------------
(* The owner.                                                              *)

\* Server::start(): the pool's threads are started first,
StartPool ==
  /\ owner = "stopped" /\ starts < MaxStarts
  /\ worker' = [w \in Workers |-> [at |-> IF w \in pool THEN "loop" ELSE "off", con |-> {}]]
  /\ owner' = "starting"
  /\ starts' = starts + 1
  /\ UNCHANGED <<clientVars, conVars, queueVars, shutdown, server>>

\* then Thread::start() clears the shutdown flag and creates the server thread.
StartThread ==
  /\ owner = "starting"
  /\ shutdown' = FALSE
  /\ server' = [Threadless EXCEPT !.at = "service"]
  /\ owner' = "running"
  /\ UNCHANGED <<clientVars, conVars, queueVars, worker, starts>>

\* Or startup() or pthread_create() fails.  The pool runs without a server thread
\* until the owner stops and joins the server; it does not call start() before.
StartFails ==
  /\ owner = "starting"
  /\ shutdown' \in {shutdown, FALSE}
  /\ owner' = "running"
  /\ UNCHANGED <<clientVars, conVars, queueVars, server, worker, starts>>

\* Server::stop(): the server's own flag,
Stop ==
  /\ owner = "running"
  /\ shutdown' = TRUE
  /\ owner' = "stopping"
  /\ UNCHANGED <<clientVars, conVars, queueVars, server, worker, starts>>

\* Mutant of ShutdownQueue: stop() does not shut the queue down.
ShutdownQueue_NoQuit ==
  /\ owner = "stopping"
  /\ owner' = "told"
  /\ UNCHANGED <<clientVars, conVars, queueVars, shutdown, server, worker, starts>>

\* then the queue's; the pool threads' own flags are read by nobody.
ShutdownQueue ==
  /\ owner = "stopping"
  /\ quit' = TRUE
  /\ owner' = "told"
  /\ UNCHANGED <<clientVars, conVars, queue, shutdown, server, worker, starts>>

\* Server::join() waits for every thread of the pool,
Join ==
  /\ owner = "told" \/ (DirectJoin /\ owner = "running")
  /\ owner' = "joining"
  /\ UNCHANGED <<clientVars, conVars, queueVars, shutdown, server, worker, starts>>

\* then Thread::join() tells the server thread to stop unless stop() did,
JoinThread ==
  /\ owner = "joining" /\ \A w \in Workers : worker[w].at = "off"
  /\ shutdown' = TRUE
  /\ owner' = "waiting"
  /\ UNCHANGED <<clientVars, conVars, queueVars, server, worker, starts>>

\* and waits for it.
Joined ==
  /\ owner = "waiting" /\ server.at = "off"
  /\ owner' = "stopped"
  /\ UNCHANGED <<clientVars, conVars, queueVars, shutdown, server, worker, starts>>

-----------------------------------------------------------------------------
\* Connection::setState() and what Connection::fail() does to persistent
SetState(c, s) == state' = [state EXCEPT ![c] = s]
Fail(cs) == persistent' = persistent \ cs

-----------------------------------------------------------------------------
(* The worker threads.                                                     *)

\* poolThread(): while (!shouldShutdown()) handleConnection(0.1)
PoolThread(w) ==
  /\ worker[w].at = "loop"
  /\ worker' = [worker EXCEPT ![w].at = IF shutdown THEN "off" ELSE "next"]
  /\ UNCHANGED <<clientVars, conVars, queueVars, ownerVars, server>>

\* ConnectionQueue::next(): the timed wait only leads to another test of the
\* loop's condition, so it ends with a connection or with quit.  Which one the
\* heap has in front depends on start times, which are not kept.
NextConnection(w) ==
  /\ worker[w].at = "next"
  /\ \/ \E c \in Clients :
          /\ queue[c] > 0
          /\ queue' = [queue EXCEPT ![c] = @ - 1]
          /\ worker' = [worker EXCEPT ![w] = [at |-> "taken", con |-> {c}]]
     \/ /\ \A c \in Clients : queue[c] = 0
        /\ quit
        /\ worker' = [worker EXCEPT ![w].at = "loop"]
        /\ UNCHANGED queue
  /\ UNCHANGED <<clientVars, conVars, quit, ownerVars, server>>

\* Mutant of Drop: the thread ends with its first connection.
Drop_End(w) == worker' = [worker EXCEPT ![w] = [at |-> "off", con |-> {}]]

Drop(w) == worker' = [worker EXCEPT ![w] = [at |-> "loop", con |-> {}]]

\* handleConnection() and the start of process(): only a connection that is
\* still PROCESSING is processed.
Take(w) ==
  /\ worker[w].at = "taken"
  /\ \E c \in worker[w].con :
       \/ /\ state[c] = "PROCESSING"
          /\ delayed' = delayed \ {c}
          /\ worker' = [worker EXCEPT ![w].at = "build"]
       \/ /\ state[c] # "PROCESSING"
          /\ Drop(w)
          /\ UNCHANGED delayed
  /\ UNCHANGED <<clientVars, connections, state, late, persistent, queueVars,
                 ownerVars, server>>

\* Connection::process(): the handler builds the response, may ask for a delay
\* on the way, or throws, which makes the response an error page.
Build(w) ==
  /\ worker[w].at = "build"
  /\ delayed' \in {delayed, delayed \union worker[w].con}
  /\ UNCHANGED persistent \/ Fail(worker[w].con)
  /\ worker' = [worker EXCEPT ![w].at = "built"]
  /\ UNCHANGED <<clientVars, connections, state, late, queueVars, ownerVars, server>>

\* the end of process()
Built(w) ==
  /\ worker[w].at = "built"
  /\ \E c \in worker[w].con :
       SetState(c, IF c \in delayed THEN "DELAY_PROCESSING" ELSE "WRITING_HEADER")
  /\ Drop(w)
  /\ UNCHANGED <<clientVars, connections, late, delayed, persistent, queueVars,
                 ownerVars, server>>

-----------------------------------------------------------------------------
(* The server thread: SocketServer::run() calls service() until shutdown.  *)
(* server.at is where in service() it is, server.ready the sockets of      *)
(* connections select() found ready, server.listen whether the listening   *)
(* socket was, server.todo the connections processConnections() still has  *)
(* to visit, server.con the one it visits, and server.next the state that  *)
(* follows reportResults().                                                *)

Watched == {c \in connections : state[c] \in {"READING_HEADER", "READING_DATA",
                                              "WRITING_HEADER", "WRITING_DATA"}}

\* connectionsReady(): there is a connection whose delay may be over.
ConnectionsReady == ~shutdown /\ \E c \in connections : state[c] = "DELAY_PROCESSING"

\* addConnectionSockets() and select(): the connections are only visited when
\* some socket is ready or some connection is delayed.
Select ==
  /\ server.at = "service" /\ ~shutdown
  /\ \E ready \in SUBSET Watched, listen \in BOOLEAN :
       /\ listen => backlog # {}
       /\ server' = [server EXCEPT
            !.at = IF ready # {} \/ listen \/ ConnectionsReady THEN "process" ELSE "cleanup",
            !.ready = ready, !.listen = listen, !.todo = connections]
  /\ UNCHANGED <<clientVars, conVars, queueVars, ownerVars, worker>>

\* The loop of processConnections() ends,
ProcessConnections ==
  /\ server.at = "process" /\ (server.todo = {} \/ shutdown)
  /\ server' = [server EXCEPT !.at = IF server.listen /\ ~shutdown THEN "accept" ELSE "cleanup",
                              !.ready = {}, !.todo = {}]
  /\ UNCHANGED <<clientVars, conVars, queueVars, ownerVars, worker>>

\* or calls processConnection() for its next connection.
Visit(c) ==
  /\ server.at = "process" /\ c \in server.todo /\ ~shutdown
  /\ server' = [server EXCEPT !.at = "visit", !.con = {c}, !.todo = @ \ {c}]
  /\ UNCHANGED <<clientVars, conVars, queueVars, ownerVars, worker>>

At(place, c) == server.at = place /\ c \in server.con
Goto(place) == server' = [server EXCEPT !.at = place]
Return == server' = [server EXCEPT !.at = "process", !.con = {}, !.ready = @ \ server.con,
                                   !.next = "CLOSING"]
ReadyIn(c, s) == At("visit", c) /\ c \in server.ready /\ state[c] = s
\* A transfer sets lastIO, which leaves only max-connect-time to make c late.
Transfer(c) == late' \in {late, late \ {c}}

\* A pass of processConnection() that finds nothing to do in this state; the
\* restart time of a delayed connection may lie ahead.
Pass(c) ==
  /\ At("visit", c)
  /\ \/ c \in Watched \ server.ready
     \/ state[c] \in {"PROCESSING", "DELAY_PROCESSING", "CLOSING"}
  /\ Goto("timeouts")
  /\ UNCHANGED <<clientVars, conVars, queueVars, ownerVars, worker>>

\* readHeader(), read(), writeHeader() or write() returns false.
Partial(c) ==
  /\ At("visit", c) /\ c \in Watched \intersect server.ready
  /\ Transfer(c)
  /\ Goto("timeouts")
  /\ UNCHANGED <<clientVars, connections, state, delayed, persistent, queueVars,
                 ownerVars, worker>>

\* Any of them throws: the catch clauses, fail() and another pass.
Abort(c) ==
  /\ At("visit", c) /\ c \in Watched \intersect server.ready
  /\ Fail({c})
  /\ SetState(c, "REPORTING")
  /\ UNCHANGED <<clientVars, connections, late, delayed, queueVars, ownerVars, server, worker>>

\* A complete header: no handler matches or it does not allow the client, or
\* the handler is set and the data is read in the same pass.  There is no response
\* already: a connection that enters READING_HEADER resets it, and nothing gives it
\* a status before the handler is set.
ReadHeader(c) ==
  /\ ReadyIn(c, "READING_HEADER")
  /\ Transfer(c)
  /\ \/ /\ Fail({c})
        /\ SetState(c, "WRITING_HEADER")
     \/ /\ persistent' \in {persistent \union {c}, persistent \ {c}}
        /\ SetState(c, "READING_DATA")
  /\ UNCHANGED <<clientVars, connections, delayed, queueVars, ownerVars, server, worker>>

\* Mutant of ReadData: the connection is not queued.
ReadData_NoEnqueue(c) ==
  /\ ReadyIn(c, "READING_DATA")
  /\ Transfer(c)
  /\ SetState(c, "PROCESSING")
  /\ Goto("timeouts")
  /\ UNCHANGED <<clientVars, connections, delayed, persistent, queueVars, ownerVars,
                 worker>>

\* The request is complete: first the state is set,
ReadData(c) ==
  /\ ReadyIn(c, "READING_DATA")
  /\ Transfer(c)
  /\ SetState(c, "PROCESSING")
  /\ Goto("enqueue")
  /\ UNCHANGED <<clientVars, connections, delayed, persistent, queueVars, ownerVars,
                 worker>>

\* Mutant of Restart: the connection is queued and left DELAY_PROCESSING.
Restart_NoState(c) ==
  /\ At("visit", c) /\ state[c] = "DELAY_PROCESSING"
  /\ Goto("enqueue")
  /\ UNCHANGED <<clientVars, connections, state, late, delayed, persistent, queueVars,
                 ownerVars, worker>>

\* as it is when the restart time has passed,
Restart(c) ==
  /\ At("visit", c) /\ state[c] = "DELAY_PROCESSING"
  /\ SetState(c, "PROCESSING")
  /\ Goto("enqueue")
  /\ UNCHANGED <<clientVars, connections, late, delayed, persistent, queueVars,
                 ownerVars, worker>>

\* and then the connection is queued.
Enqueue(c) ==
  /\ At("enqueue", c)
  /\ queue' = [queue EXCEPT ![c] = @ + 1]
  /\ Goto("timeouts")
  /\ UNCHANGED <<clientVars, conVars, quit, ownerVars, worker>>

WriteHeader(c) ==
  /\ ReadyIn(c, "WRITING_HEADER")
  /\ Transfer(c)
  /\ SetState(c, "WRITING_DATA")
  /\ UNCHANGED <<clientVars, connections, delayed, persistent, queueVars, ownerVars,
                 server, worker>>

\* The response is complete; reportResults() is called before a persistent
\* connection reads its next request and before any other one is closed.
WriteData(c) ==
  /\ ReadyIn(c, "WRITING_DATA")
  /\ Transfer(c)
  /\ SetState(c, "REPORTING")
  /\ server' = [server EXCEPT !.at = "report",
                              !.next = IF c \in persistent THEN "READING_HEADER" ELSE "CLOSING"]
  /\ UNCHANGED <<clientVars, connections, delayed, persistent, queueVars, ownerVars, worker>>

\* The pass of a connection that is already REPORTING.
Report(c) ==
  /\ At("visit", c) /\ state[c] = "REPORTING"
  /\ server' = [server EXCEPT !.at = "report", !.next = "CLOSING"]
  /\ UNCHANGED <<clientVars, conVars, queueVars, ownerVars, worker>>

\* reportResults() returns.
Reported(c) ==
  /\ At("report", c)
  /\ SetState(c, server.next)
  /\ Goto(IF server.next = "READING_HEADER" THEN "visit" ELSE "timeouts")
  /\ UNCHANGED <<clientVars, connections, late, delayed, persistent, queueVars,
                 ownerVars, worker>>

\* state < REPORTING in the order of the enumeration
BeforeReporting(c) == state[c] \notin {"REPORTING", "CLOSING"}

\* reportResults() throws: the connection stays in REPORTING and is visited
\* again, unless a worker has moved it on since.
ReportThrows(c) ==
  /\ At("report", c)
  /\ \/ /\ BeforeReporting(c)
        /\ Fail({c})
        /\ SetState(c, "REPORTING")
        /\ Goto("visit")
     \/ /\ ~BeforeReporting(c)
        /\ Return
        /\ UNCHANGED <<state, persistent>>
  /\ UNCHANGED <<clientVars, connections, late, delayed, queueVars, ownerVars, worker>>

\* Mutant of Timeouts: the times are not compared.
Timeouts_Always(c) ==
  /\ At("timeouts", c)
  /\ \/ /\ BeforeReporting(c)
        /\ SetState(c, "REPORTING")
        /\ Goto("visit")
     \/ /\ ~BeforeReporting(c)
        /\ Return
        /\ UNCHANGED state
  /\ UNCHANGED <<clientVars, connections, late, delayed, persistent, queueVars,
                 ownerVars, worker>>

\* The test that ends every other pass.  It applies in every state before
\* REPORTING, PROCESSING included.
Timeouts(c) ==
  /\ At("timeouts", c)
  /\ \/ /\ BeforeReporting(c) /\ c \in late
        /\ SetState(c, "REPORTING")
        /\ Goto("visit")
     \/ /\ ~(BeforeReporting(c) /\ c \in late)
        /\ Return
        /\ UNCHANGED state
  /\ UNCHANGED <<clientVars, connections, late, delayed, persistent, queueVars,
                 ownerVars, worker>>

-----------------------------------------------------------------------------
(* Accepting, dropping and closing connections.                            *)

\* What limitConnections() may drop: without room the oldest of the
\* connections that are past min-connect-time, if any, and not PROCESSING.
\* There is never more than one too many.
Drops ==
  {{}} \union {{d} : d \in {e \in connections : /\ maxConnections <= Cardinality(connections)
                                                /\ state[e] # "PROCESSING"}}

\* The connections cs are closed and leave the list.  Nothing but the state of
\* such a connection is read again, by a worker that still holds it.
Close(cs) ==
  /\ late' = late \ cs /\ delayed' = delayed \ cs /\ persistent' = persistent \ cs
Closing == {c \in connections : state[c] = "CLOSING"}

\* accept() finds no more clients,
AcceptNone ==
  /\ server.at = "accept" /\ backlog = {}
  /\ Goto("cleanup")
  /\ UNCHANGED <<clientVars, conVars, queueVars, ownerVars, worker>>

\* one the filter denies,
Deny(c) ==
  /\ server.at = "accept" /\ c \in backlog
  /\ backlog' = backlog \ {c}
  /\ UNCHANGED <<pool, arrived, conVars, queueVars, ownerVars, server, worker>>

\* or one for which createConnection() makes room if it can; without room the
\* null pointer it returns ends the loop with an exception.
Accept(c) ==
  /\ server.at = "accept" /\ c \in backlog
  /\ backlog' = backlog \ {c}
  /\ \E drop \in Drops :
       LET open == connections \ (Closing \union drop) IN
       /\ Close(connections \ open)
       /\ \/ /\ maxConnections <= Cardinality(open)
             /\ connections' = open
             /\ Goto("cleanup")
             /\ state' = [d \in Clients |-> IF d \in drop THEN "CLOSING" ELSE state[d]]
          \/ /\ ~(maxConnections <= Cardinality(open))
             /\ connections' = open \union {c}
             /\ state' = [d \in Clients |-> IF d = c THEN "READING_HEADER"
                                            ELSE IF d \in drop THEN "CLOSING" ELSE state[d]]
             /\ UNCHANGED server
  /\ UNCHANGED <<pool, arrived, queueVars, ownerVars, worker>>

\* cleanupConnections() at the end of service()
Cleanup ==
  /\ server.at = "cleanup"
  /\ Close(Closing)
  /\ connections' = connections \ Closing
  /\ server' = [Threadless EXCEPT !.at = "service"]
  /\ UNCHANGED <<clientVars, state, queueVars, ownerVars, worker>>

\* The loop of run() ends, because of the flag or because select() throws, and
\* SocketServer::shutdown() closes every connection.
Exit ==
  /\ server.at = "service"
  /\ backlog' = {}
  /\ Close(connections)
  /\ connections' = {}
  /\ state' = [c \in Clients |-> IF c \in connections THEN "CLOSING" ELSE state[c]]
  /\ server' = Threadless
  /\ UNCHANGED <<pool, arrived, queueVars, ownerVars, worker>>

-----------------------------------------------------------------------------
ServerStep ==
  \/ Select \/ ProcessConnections \/ AcceptNone \/ Cleanup \/ (shutdown /\ Exit)
  \/ \E c \in Clients :
       \/ Visit(c) \/ Pass(c) \/ Partial(c) \/ Abort(c) \/ ReadHeader(c) \/ ReadData(c)
       \/ Restart(c) \/ Enqueue(c) \/ WriteHeader(c) \/ WriteData(c) \/ Report(c)
       \/ Reported(c) \/ ReportThrows(c) \/ Timeouts(c) \/ Deny(c) \/ Accept(c)

WorkerStep(w) == PoolThread(w) \/ NextConnection(w) \/ Take(w) \/ Build(w) \/ Built(w)

\* The owner goes on with a call it has begun.
OwnerStep == StartThread \/ StartFails \/ ShutdownQueue \/ JoinThread \/ Joined

Next ==
  \/ \E c \in Clients : Connect(c) \/ Expire(c)
  \/ StartPool \/ Stop \/ Join \/ OwnerStep
  \/ \E w \in Workers : WorkerStep(w)
  \/ ServerStep \/ Exit

Spec == Init /\ [][Next]_vars

\* The scheduler runs every thread and handlers return.  Nothing makes a client
\* send, select() fail or the owner call start(), stop() or join().
Fairness ==
  /\ WF_vars(ServerStep) /\ WF_vars(OwnerStep)
  /\ \A w \in Workers : WF_vars(WorkerStep(w))

FairSpec == Spec /\ Fairness

-----------------------------------------------------------------------------
TypeOK ==
  /\ pool \subseteq Workers
  /\ backlog \subseteq arrived /\ arrived \subseteq Clients /\ connections \subseteq arrived
  /\ state \in [Clients -> States]
  /\ {late, delayed, persistent} \subseteq SUBSET Clients
  /\ queue \in [Clients -> Nat]
  /\ quit \in BOOLEAN /\ shutdown \in BOOLEAN
  /\ server \in [at : {"off", "service", "process", "visit", "enqueue", "report", "timeouts",
                       "accept", "cleanup"},
                 con : SUBSET Clients, ready : SUBSET Clients, listen : BOOLEAN,
                 todo : SUBSET Clients, next : {"READING_HEADER", "CLOSING"}]
  /\ worker \in [Workers -> [at : {"off", "loop", "next", "taken", "build", "built"},
                             con : SUBSET Clients]]
  /\ owner \in {"stopped", "starting", "running", "stopping", "told", "joining", "waiting"}
  /\ starts \in 0..MaxStarts

Holding(w, c) == c \in worker[w].con

\* A connection never has two threads working on it: it is at most once in the
\* queue, never queued while a worker has it, and never with two workers,
\* whatever time-outs, delays and late workers do to its state.
OneHolder ==
  \A c \in Clients :
    /\ queue[c] <= 1
    /\ queue[c] = 1 => ~At("enqueue", c) /\ \A w \in Workers : ~Holding(w, c)
    /\ \A w \in Workers : Holding(w, c) => /\ ~At("enqueue", c)
                                           /\ \A v \in Workers \ {w} : ~Holding(v, c)

\* A connection that is PROCESSING is never forgotten: it is in the queue, a
\* worker has it, or the server thread is about to queue it.
Attended ==
  \A c \in Clients : state[c] = "PROCESSING" =>
    queue[c] > 0 \/ At("enqueue", c) \/ \E w \in Workers : Holding(w, c)

\* There are never more than max-connections connections.
Bounded == Cardinality(connections) <= maxConnections

\* Every request that is PROCESSING is processed, or closed, in the end.
ProcessedEventually == \A c \in Clients : state[c] = "PROCESSING" ~> state[c] # "PROCESSING"

\* "Tell the thread to stop then call wait()": join() returns.
JoinReturns == owner = "joining" ~> owner = "stopped"

\* "Don't access Context from cb::HTTP while PROCESSING": the server thread is in
\* reportResults(), which gets the context, while a worker builds the response
\* with it, only for a connection whose time-out made it leave PROCESSING.
SharedOnlyLate ==
  \A c \in Clients, w \in Workers :
    At("report", c) /\ worker[w].at = "build" /\ Holding(w, c) => c \in late
================================================================================
