---------------------------- MODULE ClientConnection ----------------------------
(***************************************************************************)
(* An outgoing event/Connection: its queue of requests, connecting and     *)
(* reconnecting, writing a request, reading its response, timeouts, retry  *)
(* and cancellation.  As in ServerConnection the Connection and its        *)
(* BufferEvent are one record, a member function is an operator on it, and *)
(* queue is libevent's queue of active events: an event stays in it when   *)
(* the socket it was about is closed.  A response is one symbol with the   *)
(* request it answers; ServerConnection has the parsing.  SSL is left out. *)
(*                                                                         *)
(* A member function that calls onResponse() stops there: the callback     *)
(* runs with a frame on the stack that says what the function does once    *)
(* the callback returns.  A callback may make and cancel requests, and so  *)
(* enter the connection again before that.                                 *)
(*                                                                         *)
(* x, an operator's last parameter, is how BufferEvent::connect() goes.    *)
(***************************************************************************)
EXTENDS Integers, Sequences, FiniteSets, Functions

CONSTANTS Reqs,          \* the requests the application may make
          MaxRetries,    \* maxRetries, 0 for no limit
          Customs        \* what a use of the connection may bring, see custom

ASSUME ClientAssumption ==
    /\ MaxRetries \in Nat
    /\ Customs \subseteq SUBSET {"cancel", "reenter", "resubmit", "continue"}

VARIABLES custom,   \* whether the application cancels requests, the callback of
                    \* a request that was answered (reenter) or failed (resubmit)
                    \* makes one, and the server sends a 100 before a response
          made,     \* requests made so far
          dropped,  \* requests cancelled before their turn, without a callback
          con,      \* the Connection
          peer      \* the server's end of the socket

vars == <<custom, made, dropped, con, peer>>

NoPeer == [got |-> <<>>, replies |-> <<>>, fin |-> FALSE]

Init ==
    /\ custom \in Customs
    /\ made = {} /\ dropped = {} /\ peer = NoPeer
    /\ con = [state |-> "DISCONNECTED", requests |-> <<>>, retries |-> 0,
              retryEvent |-> FALSE, detectClose |-> FALSE,
              sock |-> "IDLE", read |-> FALSE, input |-> <<>>, output |-> <<>>,
              queue |-> <<>>, pending |-> {}, refused |-> FALSE,
              stack |-> <<>>, replying |-> {},
              result |-> [r \in Reqs |-> <<>>],   \* calls of onResponse(): the
                           \* request the response was for, itself if there was none
              sends |-> [r \in Reqs |-> 0]]       \* times the kernel took it
--------------------------------------------------------------------------------
Activate(c, e) ==
    IF e \in Range(c.queue) THEN c ELSE [c EXCEPT !.queue = Append(@, e)]

isConnected(c) == c.state \notin {"DISCONNECTED", "CONNECTING"}

\* BufferEvent::close(), which does nothing without a socket.
close(c) ==
    IF c.sock \in {"IDLE", "FAILED"} THEN c
    ELSE [c EXCEPT !.sock = "IDLE", !.read = FALSE]

scheduleErrorCB(c, flag, refused) ==
    Activate([close(c) EXCEPT !.sock = "FAILED", !.pending = @ \cup {flag},
                              !.refused = refused], "error")

reset_KeepOutput(c) == [close(c) EXCEPT !.input = <<>>, !.state = "DISCONNECTED"]

reset(c) == [close(c) EXCEPT !.input = <<>>, !.output = <<>>, !.state = "DISCONNECTED"]

\* pop() and onResponse() of the active request, given the response to request of;
\* f is what the caller does afterwards: "free" its loop, "fail" the rest of fail(),
\* "keep" and "close" the rest of done().
onResponse(c, f, of) ==
    [c EXCEPT !.requests = Tail(@),
              !.result[Head(c.requests)] = Append(@, of),
              !.stack = <<f>> \o @]

\* The loop of free(): every request gets the error.
callback(c) ==
    IF c.requests = <<>> THEN c ELSE onResponse(c, "free", Head(c.requests))

free_Active(c) == [callback(reset(c)) EXCEPT !.requests = <<>>]

free(c) == callback(reset(c))

MayRetry(c) == MaxRetries = 0 \/ c.retries < MaxRetries

retry_NoTimer(c) ==
    IF MayRetry(c) THEN [reset(c) EXCEPT !.retries = @ + 1] ELSE free(c)

retry(c) ==
    IF MayRetry(c) THEN [reset(c) EXCEPT !.retryEvent = TRUE, !.retries = @ + 1]
    ELSE free(c)

\* connect() and BufferEvent::connect(): the address is known or looked up; a
\* step throws, or the error is reported in a callback.
connect(c, x) ==
    LET d == [reset(c) EXCEPT !.state = "CONNECTING", !.sock = x]
    IN  CASE c.state = "CONNECTING" -> c
          [] c.state # "CONNECTING" /\ x \in {"DNS_LOOKUP", "SOCK_CONNECT"} -> d
          [] c.state # "CONNECTING" /\ x = "throws" -> retry(reset(c))
          [] c.state # "CONNECTING" /\ x = "fails" ->
               scheduleErrorCB([d EXCEPT !.sock = "SOCK_CONNECT"], "ERROR", FALSE)

\* Without a request pop() throws, and free() finds none either.
fail(c) ==
    IF c.requests = <<>> THEN reset(c)
    ELSE onResponse(reset(c), "fail", Head(c.requests))

\* fail() after the callback.
failed(c, x) == IF c.requests # <<>> THEN connect(c, x) ELSE reset(c)

\* Connection::write() of the active request.
write(c) ==
    [c EXCEPT !.output = Append(@, Head(c.requests)), !.detectClose = FALSE,
              !.read = FALSE, !.state = "WRITING"]

dispatch(c, x) == IF isConnected(c) THEN write(c) ELSE connect(c, x)

makeRequest(c, req, x) ==
    LET d == [c EXCEPT !.requests = Append(@, req)]
    IN  IF c.requests = <<>> THEN dispatch(d, x) ELSE d

\* What std::list::remove() leaves of requests that hold req once.
Without(requests, req) ==
    LET k == CHOOSE i \in DOMAIN requests : requests[i] = req
    IN  [i \in 1..(Len(requests) - 1) |-> requests[IF i < k THEN i ELSE i + 1]]

cancelRequest(c, req) ==
    IF Head(c.requests) = req THEN fail(c)
    ELSE [c EXCEPT !.requests = Without(@, req)]

\* sendError() of an outgoing request, which writes the request again; a second one
\* throws.
sendError(c) ==
    IF Head(c.requests) \in c.replying THEN fail(c)
    ELSE write([c EXCEPT !.replying = @ \cup {Head(c.requests)}])

\* The response says so, or the request since its sendError().
NeedsClose(c, t) == t.kind \in {"close", "stream"} \/ Head(c.requests) \in c.replying

detect_NoRead(c) == [c EXCEPT !.detectClose = TRUE]

\* Persistent connection: notice when the other side closes.
detect(c) == [c EXCEPT !.detectClose = TRUE, !.read = TRUE]

\* done(): the response t is complete.
done(c, t) ==
    onResponse([c EXCEPT !.read = FALSE, !.state = "IDLE"],
               IF NeedsClose(c, t) THEN "close" ELSE "keep", t.of)

\* done() after the callback.
finish(c, needsClose, x) ==
    LET d == IF needsClose THEN reset(c) ELSE c
    IN  IF c.requests # <<>> THEN dispatch(d, x)
        ELSE IF needsClose THEN free(d)
        ELSE detect(d)

startRead(c) == [c EXCEPT !.read = TRUE, !.state = "READING_FIRSTLINE"]

\* readFirstLine(), readHeader() and getBody() of one response.  A rejected one has a
\* line, a length or a body that is too long, or no length although the connection
\* stays open.
readResponse(c) ==
    LET t == Head(c.input)
        d == [c EXCEPT !.input = Tail(@)]
    IN  IF c.input = <<>> THEN c
        ELSE CASE t.kind = "100"      -> startRead(d)
               [] t.kind = "bad"      -> fail(d)
               [] t.kind = "rejected" -> sendError(d)
               [] t.kind = "stream"   -> [c EXCEPT !.state = "READING_BODY"]
               [] t.kind \in {"keep", "close"} -> done(d, t)

readCB(c) ==
    CASE c.state = "DISCONNECTED" -> fail(c)
      [] c.state = "IDLE" -> reset(c)
      [] c.state = "READING_FIRSTLINE" -> readResponse(c)
      [] c.state \in {"CONNECTING", "READING_BODY", "WRITING"} -> c

writeCB(c) ==
    CASE c.state \in {"CONNECTING", "READING_BODY"} -> c
      [] c.state = "WRITING" -> IF c.output # <<>> THEN c ELSE startRead(c)
      [] c.state \in {"DISCONNECTED", "IDLE", "READING_FIRSTLINE"} -> fail(c)

\* connectCB(); out of CONNECTING it throws, and Event::call() catches that.
connectCB(c) ==
    LET d == [c EXCEPT !.retries = 0, !.state = "IDLE"]
    IN  IF c.state # "CONNECTING" THEN c
        ELSE IF c.requests # <<>> THEN write(d) ELSE d

\* errorCB(); a response without a length ends with the stream.
errorCB(c) ==
    LET d == [c EXCEPT !.pending = {}, !.refused = FALSE]
        e == reset([d EXCEPT !.detectClose = FALSE])
    IN  IF c.state = "DISCONNECTED" THEN d
        ELSE IF c.state = "CONNECTING" /\ c.refused THEN free(d)
        ELSE IF c.state = "CONNECTING" /\ "TIMEOUT" \notin c.pending THEN retry(d)
        ELSE IF c.state = "CONNECTING" THEN fail(d)
        ELSE IF c.state = "READING_BODY" /\ c.pending = {"EOF"} THEN done(d, Head(c.input))
        ELSE IF ~c.detectClose THEN fail(d)
        ELSE IF c.requests = <<>> THEN free(e) ELSE e
--------------------------------------------------------------------------------
Connects == {"DNS_LOOKUP", "SOCK_CONNECT", "throws", "fails"}

\* A new socket has a new other end.
Step(c) ==
    /\ con' = c
    /\ peer' = IF c.sock \in {"SOCK_READY"} THEN peer ELSE NoPeer

\* What BufferEvent calls for the event e.
Handled(e, c) ==
    CASE e = "connect" -> connectCB(c)
      [] e = "read"    -> readCB(c)
      [] e = "write"   -> writeCB(c)
      [] e = "error"   -> errorCB(c)

Callback(e) ==
    /\ con.stack = <<>> /\ con.queue # <<>> /\ Head(con.queue) = e
    /\ Step(Handled(e, [con EXCEPT !.queue = Tail(@)]))
    /\ UNCHANGED <<custom, made, dropped>>

ConnectCB == Callback("connect")
ReadCB == Callback("read")
WriteCB == Callback("write")
ErrorCB == Callback("error")

\* The retry timer.
RetryEvent ==
    /\ con.stack = <<>> /\ con.retryEvent
    /\ \E x \in Connects : Step(connect([con EXCEPT !.retryEvent = FALSE], x))
    /\ UNCHANGED <<custom, made, dropped>>

\* What f does after the callback.
Resumed(c, f, x) ==
    CASE f = "free" -> callback(c)
      [] f = "fail" -> failed(c, x)
      [] f \in {"keep", "close"} -> finish(c, f = "close", x)

\* onResponse() returns; free() and fail() catch what it throws and go on.
Return ==
    /\ con.stack # <<>>
    /\ \E x \in Connects : Step(Resumed([con EXCEPT !.stack = Tail(@)], Head(con.stack), x))
    /\ UNCHANGED <<custom, made, dropped>>

\* done() catches it and frees.
Throw ==
    /\ con.stack # <<>> /\ Head(con.stack) \in {"keep", "close"}
    /\ Step(free([con EXCEPT !.stack = Tail(@)]))
    /\ UNCHANGED <<custom, made, dropped>>

\* Requests are made between two events and, where custom says so, in a callback.
MayMake ==
    con.stack # <<>> =>
        (IF Head(con.stack) \in {"keep", "close"} THEN "reenter" ELSE "resubmit") \in custom

MakeRequest(r) ==
    /\ r \notin made /\ MayMake
    /\ made' = made \cup {r}
    /\ \E x \in Connects : Step(makeRequest(con, r, x))
    /\ UNCHANGED <<custom, dropped>>

CancelRequest(r) ==
    /\ "cancel" \in custom /\ r \in Range(con.requests)
    /\ dropped' = IF r = Head(con.requests) THEN dropped ELSE dropped \cup {r}
    /\ Step(cancelRequest(con, r))
    /\ UNCHANGED <<custom, made>>
--------------------------------------------------------------------------------
\* The loop polls when no event is active.
Idle == con.queue = <<>> /\ con.stack = <<>>

\* dnsCB(), sockConnect().
Resolve ==
    /\ Idle /\ con.sock = "DNS_LOOKUP"
    /\ \/ Step([con EXCEPT !.sock = "SOCK_CONNECT"])
       \/ \E refused \in BOOLEAN : Step(scheduleErrorCB(con, "ERROR", refused))
    /\ UNCHANGED <<custom, made, dropped>>

sockConnect ==
    /\ Idle /\ con.sock = "SOCK_CONNECT"
    /\ \/ Step(Activate([con EXCEPT !.sock = "SOCK_READY"], "connect"))
       \/ \E refused \in BOOLEAN : Step(scheduleErrorCB(con, "ERROR", refused))
    /\ UNCHANGED <<custom, made, dropped>>

Ready == Idle /\ con.sock = "SOCK_READY"

sockWrite ==
    /\ Ready /\ con.output # <<>>
    /\ \/ /\ con' = Activate([con EXCEPT
                       !.output = <<>>,
                       !.sends = [r \in Reqs |->
                         @[r] + Cardinality({i \in DOMAIN con.output : con.output[i] = r})]],
                       "write")
          /\ peer' = [peer EXCEPT !.got = @ \o con.output]
       \/ Step(scheduleErrorCB(con, "ERROR", FALSE))
    /\ UNCHANGED <<custom, made, dropped>>

sockRead ==
    /\ Ready /\ con.read
    /\ \/ \E k \in 1..Len(peer.replies) :
            /\ con' = Activate([con EXCEPT !.input = @ \o SubSeq(peer.replies, 1, k)], "read")
            /\ peer' = [peer EXCEPT !.replies = SubSeq(@, k + 1, Len(@))]
       \/ peer.replies = <<>> /\ peer.fin /\ Step(scheduleErrorCB(con, "EOF", FALSE))
    /\ UNCHANGED <<custom, made, dropped>>

Timeout ==
    /\ Idle
    /\ \/ con.sock = "SOCK_CONNECT"
       \/ con.sock = "SOCK_READY" /\ (con.read \/ con.output # <<>>)
    /\ Step(scheduleErrorCB(con, "TIMEOUT", FALSE))
    /\ UNCHANGED <<custom, made, dropped>>

\* A response and what comes with it, as it is read.
Answer(req, kinds) == [i \in DOMAIN kinds |-> [of |-> req, kind |-> kinds[i]]]

\* The server answers in order, and hangs up after a response that says so.  What
\* follows a rejected response does not parse.
Reply ==
    /\ peer.got # <<>> /\ ~peer.fin
    /\ \E early \in {<<>>, <<"100">>},
          kinds \in {<<"keep">>, <<"close">>, <<"stream">>, <<"bad">>,
                    <<"rejected">>, <<"rejected", "bad">>} :
         /\ early # <<>> => "continue" \in custom
         /\ peer' = [got |-> Tail(peer.got),
                     replies |-> peer.replies \o Answer(Head(peer.got), early \o kinds),
                     fin |-> kinds[1] \in {"close", "stream"}]
    /\ UNCHANGED <<custom, made, dropped, con>>

HangUp ==
    /\ con.sock = "SOCK_READY" /\ ~peer.fin
    /\ peer' = [peer EXCEPT !.fin = TRUE]
    /\ UNCHANGED <<custom, made, dropped, con>>

Loop ==
    \/ ConnectCB \/ ReadCB \/ WriteCB \/ ErrorCB \/ RetryEvent
    \/ Return \/ Throw
    \/ Resolve \/ sockConnect \/ sockWrite \/ sockRead \/ Timeout

Next ==
    \/ \E r \in Reqs : MakeRequest(r) \/ CancelRequest(r)
    \/ Loop \/ Reply \/ HangUp

Spec == Init /\ [][Next]_vars

\* The loop runs: active events, due timers and ready sockets are served.
FairSpec == Spec /\ WF_vars(Loop)
--------------------------------------------------------------------------------
\* onResponse() is called once for every request: not while the request waits in
\* the queue, and not twice, however connections fail and are made again.
CalledOnce ==
    \A r \in made \ dropped :
        Len(con.result[r]) = IF r \in Range(con.requests) THEN 0 ELSE 1

\* "If this is the active request dispatch it", "If there are more requests start
\* the next one": a request that succeeds was given the response to itself.
ResponsesMatch ==
    \A r \in Reqs : \A i \in DOMAIN con.result[r] : con.result[r][i] = r

\* Every request is called back once, and, when no callback of done() makes a request,
\* with its own response: a late answer to a request that was cancelled or failed never
\* reaches the next one.
SettledOnce == CalledOnce /\ ("reenter" \notin custom => ResponsesMatch)

\* No request goes out twice: what the server may have acted upon is not repeated,
\* only connecting is, and sendError(), which repeats a request once when its response
\* is rejected.  A use that cancels requests or makes them in callbacks can repeat
\* more.  And requests are written to a connection that is open, or was until just
\* now, where none is cancelled: no callback is left over from a socket before.
WrittenOnce ==
    /\ custom \cap {"cancel", "reenter", "resubmit"} = {} =>
         \A r \in Reqs : con.sends[r] <= IF r \in con.replying THEN 2 ELSE 1
    /\ "cancel" \notin custom /\ con.output # <<>> => con.sock \in {"SOCK_READY", "FAILED"}

\* A request that waits has something to wait for: a callback that runs or is due, a
\* socket event or the retry timer.  "Persistent Connection, detect if other side
\* closes": so has an open connection without requests, if none was cancelled and
\* none made in the callback of one that failed.
Watched ==
    /\ con.requests # <<>> =>
         \/ con.stack # <<>> \/ con.queue # <<>> \/ con.retryEvent
         \/ con.sock \in {"DNS_LOOKUP", "SOCK_CONNECT"}
         \/ con.sock = "SOCK_READY" /\ (con.read \/ con.output # <<>>)
    /\ /\ con.requests = <<>> /\ con.sock = "SOCK_READY"
       /\ con.queue = <<>> /\ con.stack = <<>>
       /\ custom \cap {"cancel", "resubmit"} = {}
       => con.detectClose /\ con.read

\* Every request gets its callback, whatever the network and the server do.
Answered ==
    \A r \in Reqs : (r \in made) ~> (con.result[r] # <<>> \/ r \in dropped)
================================================================================
