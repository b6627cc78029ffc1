-------------------------------- MODULE EventDB --------------------------------
(***************************************************************************)
(* MariaDB::EventDB and its QueryCallback (db/maria/EventDB.cpp) on top of *)
(* the non-blocking calls of MariaDB::DB (db/maria/DB.cpp).                *)
(*                                                                         *)
(* A query runs as a state machine: next() goes from case to case until a  *)
(* non-blocking call is pending, the event loop calls back when the server *)
(* has answered, and next() goes on where it stopped.  Every call may      *)
(* complete at once, be pending first, or raise an error.  The server's    *)
(* answer to a query is a script: for each statement the number of rows of *)
(* its result set, or NoSet when it has none.  One operation is under way  *)
(* at a time.                                                              *)
(***************************************************************************)
EXTENDS Integers, Sequences

CONSTANTS
  Scripts,   \* what the server may answer to a query
  Retry,     \* QueryCallback's retry, 5 in the code
  MaxCalls   \* bound on the operations the owner asks for

NoSet == -1

VARIABLES
  connected,  \* DB::connected
  at,         \* "idle", "run" in next(), "call" in a non-blocking call, "wait" for the event
  op,         \* the non-blocking call under way, or the last one
  caller,     \* where an exception goes: "owner", "loop" or the "retry" of operator()
  state,      \* QueryCallback::state
  retry,      \* QueryCallback::retry
  res,        \* haveResult()
  row,        \* haveRow()
  script,     \* the server's answer to the query under way
  results,    \* the results of it that have not been left behind
  rows,       \* rows of the current result that were not fetched
  log,        \* what the callback was called with, but for ERROR, since the query was last sent
  ended,      \* how the last operation ended
  calls       \* operations asked for so far

dbVars == <<connected, res, row, results, rows>>
queryVars == <<state, retry, script>>
vars == <<dbVars, queryVars, at, op, caller, log, ended, calls>>

Init ==
  /\ connected = FALSE /\ at = "idle" /\ op = "none" /\ caller = "owner"
  /\ state = "DONE" /\ retry = 0 /\ res = FALSE /\ row = FALSE
  /\ script = <<>> /\ results = <<>> /\ rows = 0
  /\ log = <<>> /\ ended = "none" /\ calls = 0

\* The operation is over: with the callback's last call, with an exception the
\* owner gets, or with an exception that only the event loop sees.
End(how) == at' = "idle" /\ ended' = how

-----------------------------------------------------------------------------
(* The owner's operations.                                                 *)

Ask == at = "idle" /\ calls < MaxCalls /\ calls' = calls + 1 /\ caller' = "owner"

\* connect(), ping() and close(); closeNB() asserts the connection.
Request(o) ==
  /\ Ask
  /\ op' = o
  /\ IF o = "close" /\ ~connected
     THEN End("ERROR")
     ELSE at' = "call" /\ ended' = "none"
  /\ UNCHANGED <<dbVars, queryVars, log>>

\* query(): the first part of next() runs in the owner's call; queryNB()
\* asserts the connection.
Query(s) ==
  /\ Ask
  /\ op' = "none"
  /\ script' = s
  /\ state' = "START" /\ retry' = Retry /\ log' = <<>>
  /\ at' = "run" /\ ended' = "none"
  /\ UNCHANGED dbVars

-----------------------------------------------------------------------------
(* QueryCallback::next(), one action per case.                             *)

Run(s) == at = "run" /\ state = s

\* call(): an exception of the callback is answered with an ERROR, unless it was
\* thrown by the query's last call, and next() goes on as if there were none.
Call(what) == log' = IF what = "ERROR" THEN log ELSE Append(log, what)

NonBlocking(o) == at' = "call" /\ op' = o

moreResults == Len(results) > 1

\* Mutant of Raise: the retries are not counted.
Raise_NoCount(who, deadlock) ==
  \/ /\ who = "owner"
     /\ End("thrown")
     /\ UNCHANGED <<caller, state, retry, log>>
  \/ /\ who = "retry"
     /\ End("lost")
     /\ UNCHANGED <<caller, state, retry, log>>
  \/ /\ who = "loop" /\ deadlock /\ retry > 1
     /\ log' = <<>>
     /\ state' = "START" /\ at' = "run" /\ caller' = "retry"
     /\ UNCHANGED <<retry, ended>>
  \/ /\ who = "loop" /\ ~(deadlock /\ retry > 1)
     /\ Call("ERROR")
     /\ End("ERROR")
     /\ caller' = who
     /\ retry' = IF deadlock THEN retry - 1 ELSE retry
     /\ UNCHANGED state

\* An exception leaves next() or a continuation; who is where it goes: to the
\* owner of query(), to the handler in operator(), or, when that handler itself
\* called next(), past it to the event loop.
Raise(who, deadlock) ==
  \/ /\ who = "owner"
     /\ End("thrown")
     /\ UNCHANGED <<caller, state, retry, log>>
  \/ /\ who = "retry"
     /\ End("lost")
     /\ UNCHANGED <<caller, state, retry, log>>
  \/ /\ who = "loop" /\ deadlock /\ retry > 1
     /\ log' = <<>>
     /\ state' = "START" /\ at' = "run" /\ caller' = "retry"
     /\ retry' = retry - 1
     /\ UNCHANGED ended
  \/ /\ who = "loop" /\ ~(deadlock /\ retry > 1)
     /\ Call("ERROR")
     /\ End("ERROR")
     /\ caller' = who
     /\ retry' = IF deadlock THEN retry - 1 ELSE retry
     /\ UNCHANGED state

\* STATE_START: queryNB() asserts that there is a connection.
Start ==
  /\ Run("START")
  /\ \/ /\ connected
        /\ state' = "QUERY"
        /\ NonBlocking("query")
        /\ UNCHANGED <<caller, retry, log, ended>>
     \/ /\ ~connected
        /\ Raise(caller, FALSE)
        /\ UNCHANGED op
  /\ UNCHANGED <<dbVars, script, calls>>

\* STATE_QUERY
Store ==
  /\ Run("QUERY")
  /\ state' = "STORE"
  /\ NonBlocking("store")
  /\ UNCHANGED <<dbVars, retry, script, caller, log, ended, calls>>

\* STATE_STORE
Stored ==
  /\ Run("STORE")
  /\ \/ /\ ~res
        /\ state' = IF moreResults THEN "NEXT" ELSE "DONE"
        /\ UNCHANGED <<at, op, log>>
     \/ /\ res
        /\ Call("BEGIN_RESULT")
        /\ state' = "FETCH"
        /\ NonBlocking("fetch")
  /\ UNCHANGED <<dbVars, retry, script, caller, ended, calls>>

\* Mutant of Fetch: freeResultNB() is not called.
Fetch_NoFree ==
  /\ Run("FETCH")
  /\ \/ /\ row
        /\ Call("ROW")
        /\ NonBlocking("fetch")
        /\ UNCHANGED state
     \/ /\ ~row
        /\ state' = "FREE"
        /\ UNCHANGED <<at, op, log>>
  /\ UNCHANGED <<dbVars, retry, script, caller, ended, calls>>

\* STATE_FETCH
Fetch ==
  /\ Run("FETCH")
  /\ \/ /\ row
        /\ Call("ROW")
        /\ NonBlocking("fetch")
        /\ UNCHANGED state
     \/ /\ ~row
        /\ state' = "FREE"
        /\ NonBlocking("free")
        /\ UNCHANGED log
  /\ UNCHANGED <<dbVars, retry, script, caller, ended, calls>>

\* Mutant of Freed: further results are not asked for.
Freed_Last ==
  /\ Run("FREE")
  /\ Call("END_RESULT")
  /\ state' = "DONE"
  /\ UNCHANGED <<dbVars, retry, script, at, op, caller, ended, calls>>

\* STATE_FREE
Freed ==
  /\ Run("FREE")
  /\ Call("END_RESULT")
  /\ state' = IF moreResults THEN "NEXT" ELSE "DONE"
  /\ UNCHANGED <<dbVars, retry, script, at, op, caller, ended, calls>>

\* STATE_NEXT
NextResult ==
  /\ Run("NEXT")
  /\ state' = "QUERY"
  /\ NonBlocking("next")
  /\ UNCHANGED <<dbVars, retry, script, caller, log, ended, calls>>

\* STATE_DONE
Done ==
  /\ Run("DONE")
  /\ Call("DONE")
  /\ End("DONE")
  /\ UNCHANGED <<dbVars, queryVars, op, caller, calls>>

-----------------------------------------------------------------------------
(* The non-blocking calls: xNB() starts one, continueNB() goes on with it  *)
(* when the event fires.                                                   *)

\* The call has to wait for the server; newEvent() or renewEvent() arms the event.
Pend ==
  /\ at = "call"
  /\ at' = "wait"
  /\ UNCHANGED <<dbVars, queryVars, op, caller, log, ended, calls>>

\* The continuation of a pending call is run by the event loop.
Context == IF at = "wait" THEN "loop" ELSE caller

\* connectNB(), pingNB() and closeNB() are complete; ping() is DONE even when
\* the server did not answer.
Complete ==
  /\ at \in {"call", "wait"}
  /\ op \in {"connect", "ping", "close"}
  /\ connected' \in (CASE op = "connect" -> {TRUE}
                       [] op = "ping" -> BOOLEAN
                       [] op = "close" -> {FALSE})
  /\ caller' = Context
  /\ End("DONE")
  /\ UNCHANGED <<res, row, results, rows, queryVars, op, log, calls>>

\* What each call of a query gets from the server.
Effect ==
  \/ /\ op = "query"
     /\ results' = script
     /\ UNCHANGED <<res, row, rows>>
  \/ /\ op = "store"
     /\ res' = (Head(results) # NoSet)
     /\ rows' = IF Head(results) # NoSet THEN Head(results) ELSE 0
     /\ UNCHANGED <<row, results>>
  \/ /\ op = "fetch"
     /\ row' = (rows > 0)
     /\ rows' = IF rows > 0 THEN rows - 1 ELSE 0
     /\ UNCHANGED <<res, results>>
  \/ /\ op = "free"
     /\ res' = FALSE /\ row' = FALSE
     /\ UNCHANGED <<rows, results>>
  \/ /\ op = "next"
     /\ results' = Tail(results)
     /\ UNCHANGED <<res, row, rows>>

\* A call of a query is complete: next() goes on.
Answer ==
  /\ at \in {"call", "wait"}
  /\ Effect
  /\ caller' = Context
  /\ at' = "run"
  /\ UNCHANGED <<connected, queryVars, op, log, ended, calls>>

\* A call fails.  fetch and free work on a stored result and cannot.
Fail ==
  /\ at \in {"call", "wait"}
  /\ \/ /\ op = "connect"
        /\ caller' = Context
        /\ End("ERROR")
        /\ UNCHANGED <<state, retry, log>>
     \/ /\ op \in {"query", "store", "next"}
        /\ \E deadlock \in BOOLEAN : Raise(Context, deadlock)
  /\ UNCHANGED <<dbVars, script, op, calls>>

-----------------------------------------------------------------------------
Calls == Pend \/ Complete \/ Answer \/ Fail
Cases == Start \/ Store \/ Stored \/ Fetch \/ Freed \/ NextResult \/ Done

Next ==
  \/ \E o \in {"connect", "ping", "close"} : Request(o)
  \/ \E s \in Scripts : Query(s)
  \/ Cases \/ Calls

Spec == Init /\ [][Next]_vars

\* next() runs to its end and the server answers every call.
Fairness == WF_vars(Cases) /\ WF_vars(Calls)

FairSpec == Spec /\ Fairness

-----------------------------------------------------------------------------
\* The assertions of the calls hold whenever next() makes them: a result is
\* fetched from and freed only while there is one, and stored or left for the
\* next one only after the last one was freed, also by the query after one
\* that failed half way.
AssertionsHold ==
  at \in {"call", "wait"} =>
    /\ op \in {"fetch", "free"} => res
    /\ op \in {"store", "next"} => ~res /\ results # <<>>
    /\ op = "query" => ~res /\ ~row

\* What the callback is shown of a result
Shown(n) == IF n = NoSet THEN <<>>
            ELSE <<"BEGIN_RESULT">> \o [i \in 1..n |-> "ROW"] \o <<"END_RESULT">>

\* What it is shown of the first k results of s, for each k
ShownOf(s) ==
  LET upTo[k \in 0..Len(s)] == IF k = 0 THEN <<>> ELSE upTo[k - 1] \o Shown(s[k])
  IN  upTo

\* A query that is DONE has shown its callback every result set in order, each
\* row of it once, between one BEGIN_RESULT and one END_RESULT, however often
\* it was suspended and retried on the way.
ResultsShown ==
  ended = "DONE" /\ op \notin {"connect", "ping", "close"} =>
    log = Append(ShownOf(script)[Len(script)], "DONE")

\* Every operation ends.
Ended == at # "idle" ~> at = "idle"
================================================================================
