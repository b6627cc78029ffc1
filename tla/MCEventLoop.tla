------------------------------- MODULE MCEventLoop -------------------------------
(***************************************************************************)
(* Parts that the event loop drives, for TLC: the listener, the server's   *)
(* end of an HTTP connection, the database connection and a task that      *)
(* reports to the loop.  No two of them share state, so one part runs,     *)
(* which is chosen at the start, and the others stay as they were          *)
(* initialised.                                                            *)
(***************************************************************************)
EXTENDS HTTPListener, MCRequests

CONSTANTS
  Requests, Manners, Handlers, MaxBody, MaxHeader,   \* of ServerConnection
  Answers, Retry, MaxCalls,                          \* of EventDB
  MaxData                                            \* of QueuedTask

VARIABLES
  part,
  manner, requests, sent, wire, closed, con,
  connected, at, op, caller, state, retry, res, row, script, results, rows, log, ended, calls,
  mutex, queue, active, worker, loop, data, enqueued, handled, threw

Server == INSTANCE ServerConnection WITH Scripts <- Requests, script <- requests
Database == INSTANCE EventDB WITH Scripts <- Answers
Task == INSTANCE QueuedTask WITH sent <- enqueued

serverVars == <<manner, requests, sent, wire, closed, con>>
databaseVars == <<connected, at, op, caller, state, retry, res, row, script, results, rows, log,
                  ended, calls>>
taskVars == <<mutex, queue, active, worker, loop, data, enqueued, handled, threw>>

\* Queries of one to three statements, with and without a result set (EventDB's
\* NoSet), an empty one included
MCAnswers == {<<-1>>, <<2>>, <<0, -1, 1>>, <<-1, 1>>}

\* A query has a statement at least; a result has rows, or there is no set.
ASSUME AnswersAssumption == \A s \in Answers : s \in Seq(Nat \cup {-1}) /\ s # <<>>

\* A server's client at the start is one of many; the other parts keep one.
SomeClient == CHOOSE c \in KeepAlive : TRUE

MCInit ==
  /\ part \in {"listener", "server", "database", "task"}
  /\ Init /\ Server!Init /\ Database!Init /\ Task!Init
  /\ part = "server" \/ (manner = {} /\ requests = SomeClient)

MCNext ==
  /\ UNCHANGED part
  /\ \/ part = "listener" /\ Next /\ UNCHANGED <<serverVars, databaseVars, taskVars>>
     \/ part = "server" /\ Server!Next /\ UNCHANGED <<vars, databaseVars, taskVars>>
     \/ part = "database" /\ Database!Next /\ UNCHANGED <<vars, serverVars, taskVars>>
     \/ part = "task" /\ Task!Next /\ UNCHANGED <<vars, serverVars, databaseVars>>

mcVars == <<part, vars, serverVars, databaseVars, taskVars>>

\* The fairness of the parts' FairSpecs
MCFairness ==
  /\ WF_vars(part = "listener" /\ bind)
  /\ \A c \in Clients : /\ WF_vars(part = "listener" /\ acceptCB(c))
                        /\ SF_vars(part = "listener" /\ free(c))
  /\ WF_serverVars(part = "server" /\ Server!Poll)
  /\ WF_serverVars(part = "server" /\ Server!Timeout)
  /\ \A e \in {"sockRead", "sockWrite", "read", "write", "error"} :
       []<>(part = "server" => ~Server!Running(e))
  /\ SF_serverVars(part = "server" /\ Server!sockWrite /\ con'.output = <<>>)
  /\ WF_serverVars(part = "server" /\ Server!LateReply)
  /\ SF_serverVars(part = "server" /\ Server!sendChunk(TRUE))
  /\ WF_databaseVars(part = "database" /\ Database!Cases)
  /\ WF_databaseVars(part = "database" /\ Database!Calls)
  /\ WF_taskVars(part = "task" /\ Task!EnqueueEnds)
  /\ WF_taskVars(part = "task" /\ Task!Loop)

MCSpec == MCInit /\ [][MCNext]_mcVars /\ MCFairness
--------------------------------------------------------------------------------
\* A handler gets the requests as they were sent, and readBody() comes back, when
\* the network cuts between lines or inside bodies only.
WholeLinesParsed == part = "server" => Server!WholeLinesParsed

\* A connection that waits for its client has given every request that arrived
\* in full to its handler.
NothingUnread == part = "server" => Server!NothingUnread

\* The client gets the responses in the order of its requests.
AnswersInOrder == part = "server" => Server!AnswersInOrder

\* A request the client has sent is answered unless the connection is closed.
Answered == Server!Answered

\* The assertions of the non-blocking calls hold when next() makes them.
AssertionsHold == part = "database" => Database!AssertionsHold

\* A query that is DONE has shown its callback every result and row once, in order.
ResultsShown == part = "database" => Database!ResultsShown

\* Every operation of the database connection ends.
Ended == Database!Ended

\* process() sees a task's data in order, and all of it before complete().
Delivered == part = "task" => Task!Delivered

\* What a task enqueues is processed while it still runs.
Prompt == Task!Prompt
================================================================================
