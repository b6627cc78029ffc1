--------------------------- MODULE ServerConnection ---------------------------
(***************************************************************************)
(* An incoming event/Connection with the event/BufferEvent below it and    *)
(* the event/Request and event/Headers it reads into: one keep-alive HTTP  *)
(* connection of a server, from acceptRequest() to free().                 *)
(*                                                                         *)
(* What the client sends is a sequence of symbols: a line is one symbol    *)
(* and "eol", a body is a run of "b".  The network hands it over in pieces *)
(* of any size.  The connection is one record; a member function is an     *)
(* operator from the record it finds to the one it leaves, and sets threw  *)
(* when its code throws.  queue is libevent's queue of active events: the  *)
(* two socket events and the deferred callbacks of BufferEvent.            *)
(***************************************************************************)
EXTENDS Integers, Sequences, Functions

CONSTANTS Scripts,     \* the sequences of requests a client may send
          Manners,     \* how a client may send them, see manner
          Handlers,    \* what a request handler may do, see done() and getBody()
          MaxBody,     \* maxBodySize, 0 for none
          MaxHeader    \* maxHeaderSize, 0 for none

VARIABLES manner,      \* may a piece of the stream end inside a line, does the
                       \* client send on before it is answered?
          script, sent, wire,  \* the client: its requests, how many it sent,
          closed,              \* what is under way, whether it hung up
          con                  \* the Connection

client == <<manner, script, sent, wire, closed>>
vars == <<client, con>>

Bytes(n) == [i \in 1..n |-> "b"]
Lines(s) == [i \in 1..(2 * Len(s)) |-> IF i % 2 = 1 THEN s[(i + 1) \div 2] ELSE "eol"]

\* Lines that carry a number n: Content-Length: n, and the size of a chunk.
Lengths == <<"len0", "len1", "len2", "len3">>
Sizes == <<"size0", "size1", "size2", "size3">>
HasLength(headers) == headers \cap Range(Lengths) # {}
LengthOf(headers) == (CHOOSE i \in DOMAIN Lengths : Lengths[i] \in headers) - 1
SizeOf(line) == (CHOOSE i \in DOMAIN Sizes : Sizes[i] = line) - 1
HeaderLines == Range(Lengths) \cup {"chunked", "close", "expect", "expects", "other"}

\* The symbols of a request: [method, headers (a sequence), body (a length)].
Encode(m) ==
    Lines(<<m.method>> \o m.headers) \o <<"eol">> \o
    IF "chunked" \in Range(m.headers)
    THEN (IF m.body = 0 THEN <<>>
          ELSE <<Sizes[m.body + 1], "eol">> \o Bytes(m.body) \o <<"eol">>)
         \o <<"size0", "eol", "eol">>
    ELSE Bytes(m.body)

Methods == {"GET", "POST"}

\* id is the place of the request in the stream.
NewRequest(method, id) ==
    [id |-> id, method |-> method, headers |-> {}, body |-> 0, replying |-> FALSE,
     chunked |-> FALSE, close |-> FALSE]

Init ==
    /\ manner \in Manners /\ script \in Scripts
    /\ sent = 0 /\ wire = <<>> /\ closed = FALSE
    /\ con = [state |-> "READING_FIRSTLINE", read |-> TRUE, minRead |-> 0,
              input |-> <<>>, output |-> <<>>, sock |-> "SOCK_READY",
              queue |-> <<>>, requests |-> <<>>, chunkedRequest |-> FALSE,
              headerSize |-> 0, bodySize |-> 0, bytesToRead |-> 0,
              listed |-> TRUE, spin |-> FALSE,
              threw |-> FALSE,
              served |-> <<>>,    \* requests given to a handler
              held |-> {},        \* ids of the ones it will reply to later
              taken |-> 0,        \* requests taken off the connection
              answers |-> <<>>]   \* ids of the responses the client has received
--------------------------------------------------------------------------------
Throw(c) == [c EXCEPT !.threw = TRUE]
setRead(c, enabled) == [c EXCEPT !.read = enabled]
setState(c, s) == [c EXCEPT !.state = s]
Activate(c, e) ==
    IF e \in Range(c.queue) THEN c ELSE [c EXCEPT !.queue = Append(@, e)]

\* BufferEvent::close() does nothing without a file descriptor.
close(c) ==
    IF c.sock # "SOCK_READY" THEN c
    ELSE [c EXCEPT !.sock = "IDLE", !.read = FALSE]

reset(c) == setState([close(c) EXCEPT !.output = <<>>, !.input = <<>>], "DISCONNECTED")

\* HTTP::remove() takes the connection off the server's list.
free(c) == [reset(c) EXCEPT !.requests = <<>>, !.listed = FALSE]

fail(c) == free(c)

scheduleErrorCB(c) ==
    Activate([close(c) EXCEPT !.sock = "FAILED"], "error")

\* The output buffer holds the id of a request where its response ends, and More for
\* what comes before.
More == 0
add(c, x) ==
    IF x = More /\ c.output # <<>> /\ c.output[Len(c.output)] = More THEN c
    ELSE [c EXCEPT !.output = Append(@, x)]

\* Connection::write() of the active request.
write(c, last) ==
    setState(setRead(add(c, IF last THEN c.requests[1].id ELSE More), FALSE), "WRITING")

\* Request::reply() and write(); getRequest() throws without a request.
reply(c) ==
    IF c.requests = <<>> \/ c.requests[1].replying THEN Throw(c)
    ELSE write([c EXCEPT !.requests[1].replying = TRUE], ~c.requests[1].chunked)

sendError(c) ==
    IF c.requests = <<>> THEN Throw(c)
    ELSE reply([c EXCEPT !.requests[1].close = TRUE])

startRead_NoRead(c) == setState(c, "READING_FIRSTLINE")

startRead(c) == setState(setRead(c, TRUE), "READING_FIRSTLINE")

\* done() of an incoming connection and HTTP::dispatch(): the handler h replies
\* now, later or in chunks, or throws and has the error sent for it.
done(c, h) ==
    LET req == c.requests[1]
        d == [setState(setRead(c, FALSE), "WRITING") EXCEPT
                !.served = Append(@, [method  |-> req.method,
                                      headers |-> req.headers,
                                      body    |-> req.body])]
    IN  CASE h = "reply"   -> reply(d)
          [] h \in {"later", "refuse", "decline"} -> [d EXCEPT !.held = @ \cup {req.id}]
          [] h = "chunked" -> reply([d EXCEPT !.requests[1].chunked = TRUE])
          [] h = "raise"   -> sendError(d)
--------------------------------------------------------------------------------
\* The length of a line, in symbols; its end takes one more.
LineLength == 1

\* Buffer::readLine(): "" also when the buffer holds no end of line.
readLine(buf) ==
    LET ends == {i \in 1..Len(buf) : buf[i] = "eol"}
        end  == CHOOSE i \in ends : \A j \in ends : i <= j
    IN  IF ends = {} THEN [line |-> "", rest |-> buf]
        ELSE [line |-> CASE end = 1 -> "" [] end = 2 -> buf[1] [] end > 2 -> "junk",
              rest |-> SubSeq(buf, end + 1, Len(buf))]

\* A line of Headers::parse(), p being what the lines before it left: an empty line
\* ends the headers, and so does the end of the buffer; bytes counts symbols.
ParseLine(p, maxSize) ==
    LET l == readLine(p.rest)
        r == [p EXCEPT !.rest = l.rest]
    IN  CASE p.verdict # "none" -> p
          [] p.verdict = "none" ->
             IF p.rest = <<>> THEN [p EXCEPT !.verdict = "more"]
             ELSE IF l.line = "" THEN [r EXCEPT !.verdict = "done"]
             ELSE IF \/ maxSize # 0 /\ maxSize < p.bytes + LineLength + 1
                     \/ l.line \notin HeaderLines
             THEN [r EXCEPT !.verdict = "throw"]
             ELSE [r EXCEPT !.headers = @ \cup {l.line}, !.bytes = @ + LineLength + 1]

\* Headers::parse(): a line takes a symbol at least, so that the loop ends.
Parse(buf, headers, maxSize) ==
    LET after[n \in 0..(Len(buf) + 1)] ==
          IF n = 0 THEN [headers |-> headers, rest |-> buf, bytes |-> 0, verdict |-> "none"]
          ELSE ParseLine(after[n - 1], maxSize)
    IN  after[Len(buf) + 1]

\* The unsigned difference maxHeaderSize - headerSize once it is negative: above
\* any size the model reaches.
Wrapped == 2^30

\* What Headers::parse() left, p, taken over by tryReadHeader().
Parsed(c, p) ==
    LET d == [c EXCEPT !.input = p.rest, !.requests[1].headers = p.headers]
    IN  IF p.verdict = "throw" THEN [con |-> sendError(d), done |-> FALSE]
        ELSE [con  |-> [d EXCEPT !.headerSize = @ + Len(c.input) - Len(p.rest)],
              done |-> p.verdict = "done"]

\* tryReadHeader() and its result.
tryReadHeader(c) ==
    LET maxSize == CASE MaxHeader = 0 -> 0
                     [] MaxHeader >= c.headerSize -> MaxHeader - c.headerSize
                     [] 0 < MaxHeader /\ MaxHeader < c.headerSize -> Wrapped
    IN  Parsed(c, Parse(c.input, c.requests[1].headers, maxSize))

AfterTrailer(t, h) == IF t.done THEN done(t.con, h) ELSE t.con

readTrailer(c, h) == AfterTrailer(tryReadHeader(setState(c, "READING_TRAILER")), h)

TooLong(n) == MaxBody # 0 /\ MaxBody < n

ChunkHere(c) == Len(c.input) >= c.bytesToRead

\* A turn of the loop of readBody() over chunks, s being what the turns before it
\* left.  Without an end of line readLine() returns "" and leaves the buffer as it
\* is, and the loop never ends.
Chunk(s) ==
    LET c == s.con
        l == readLine(c.input)
        n == SizeOf(l.line)
        d == [c EXCEPT !.input = l.rest, !.bodySize = @ + n, !.bytesToRead = n]
    IN  IF s.then # "loop" THEN s
        ELSE IF c.input = <<>> \/ (c.bytesToRead >= 0 /\ ~ChunkHere(c))
        THEN [con |-> c, then |-> "progress"]
        ELSE IF c.bytesToRead >= 0
        THEN [con |-> [c EXCEPT !.input = SubSeq(@, c.bytesToRead + 1, Len(@)),
                                !.requests[1].body = @ + c.bytesToRead,
                                !.bytesToRead = -1],
              then |-> "loop"]
        ELSE IF "eol" \notin Range(c.input) THEN [con |-> c, then |-> "spin"]
        ELSE IF l.line = "" THEN [con |-> [c EXCEPT !.input = l.rest], then |-> "loop"]
        ELSE IF l.line \notin Range(Sizes) THEN [con |-> [c EXCEPT !.input = l.rest], then |-> "throw"]
        ELSE IF TooLong(d.bodySize) THEN [con |-> d, then |-> "error"]
        ELSE IF n = 0 THEN [con |-> [d EXCEPT !.headerSize = 0], then |-> "trailer"]
        ELSE [con |-> d, then |-> "loop"]

\* The loop: a turn that goes on takes a symbol at least.
Chunks(c) ==
    LET after[n \in 0..(Len(c.input) + 1)] ==
          IF n = 0 THEN [con |-> c, then |-> "loop"] ELSE Chunk(after[n - 1])
    IN  after[Len(c.input) + 1]

ReadLength_NoCount(c) ==
    [con |-> [c EXCEPT !.bodySize = @ + Len(c.input), !.input = <<>>,
                       !.requests[1].body = @ + Len(c.input)],
     then |-> "progress"]

\* The Content-Length arm of readBody().
ReadLength(c) ==
    LET bytes == IF 0 <= c.bytesToRead /\ c.bytesToRead < Len(c.input)
                 THEN c.bytesToRead ELSE Len(c.input)
        d == [c EXCEPT !.bodySize = @ + bytes,
                       !.bytesToRead = IF 0 <= @ THEN @ - bytes ELSE @]
    IN  IF TooLong(d.bodySize) THEN [con |-> d, then |-> "error"]
        ELSE [con |-> [d EXCEPT !.input = SubSeq(@, bytes + 1, Len(@)),
                                !.requests[1].body = @ + bytes],
              then |-> "progress"]

\* The rest of readBody(), after its loop or its read.
AfterRead(r, h) ==
    LET d == r.con
    IN  CASE r.then = "spin"    -> [d EXCEPT !.spin = TRUE]
          [] r.then = "throw"   -> Throw(d)
          [] r.then = "error"   -> sendError(d)
          [] r.then = "trailer" -> readTrailer(d, h)
          [] r.then = "progress" /\ d.bytesToRead # 0 ->
               [setRead(d, TRUE) EXCEPT
                  !.minRead = IF 0 < d.bytesToRead THEN d.bytesToRead ELSE @]
          [] r.then = "progress" /\ d.bytesToRead = 0 -> done(d, h)

readBody(c, h) == AfterRead(IF c.chunkedRequest THEN Chunks(c) ELSE ReadLength(c), h)

\* "100 HTTP continue" for a client that waits for it, if onContinue() agrees.
Expects(hs) == hs \cap {"expect", "expects"} # {}
Continue(c, h) ==
    IF "expect" \in c.requests[1].headers /\ h # "decline" THEN add(c, More)
    ELSE sendError(c)

getBody(c, h) ==
    LET hs == c.requests[1].headers
        b == [setState(c, "READING_BODY") EXCEPT !.bytesToRead = -1, !.bodySize = 0]
        d == IF "chunked" \in hs THEN [b EXCEPT !.chunkedRequest = TRUE]
             ELSE IF HasLength(hs) THEN [b EXCEPT !.bytesToRead = LengthOf(hs)]
             ELSE b
    IN  CASE c.requests[1].method = "GET" -> done(c, h)
          [] c.requests[1].method # "GET" ->
             IF "chunked" \notin hs /\ ~HasLength(hs)
             THEN IF "close" \in hs THEN done(b, h) ELSE sendError(b)
             ELSE IF "chunked" \notin hs /\ TooLong(LengthOf(hs))
             THEN sendError(d)
             ELSE IF Expects(hs) /\ d.input = <<>>
             THEN Continue(d, h)
             ELSE readBody(d, h)

readHeader_Early(c, h) ==
    LET t == tryReadHeader(setState(c, "READING_HEADERS"))
    IN  IF h = "refuse" THEN fail(t.con) ELSE getBody(t.con, h)

\* onHeaders() of a handler may cancel the request.
AfterHeader(t, h) ==
    IF ~t.done THEN t.con
    ELSE IF h = "refuse" THEN fail(t.con)
    ELSE getBody(t.con, h)

readHeader(c, h) == AfterHeader(tryReadHeader(setState(c, "READING_HEADERS")), h)

\* What throws is answered with an error, for which there must be a request.
ErrorSent(c) == IF c.threw THEN sendError([c EXCEPT !.threw = FALSE]) ELSE c

readFirstLine(c, h) ==
    LET l == readLine(c.input)
        d == [c EXCEPT !.input = l.rest]
        e == [d EXCEPT !.headerSize = @ + LineLength + 1]
    IN  IF l.line = "" THEN d                          \* Need more data
        ELSE ErrorSent(
               IF MaxHeader # 0 /\ MaxHeader < LineLength THEN sendError(d)
               ELSE IF l.line \notin Methods THEN Throw(e)
               ELSE readHeader([e EXCEPT !.requests = Append(@, NewRequest(l.line, c.taken + 1))], h))

Caught(c) == IF c.threw THEN fail([c EXCEPT !.threw = FALSE]) ELSE c

readCB(c, h) ==
    Caught(CASE c.state = "DISCONNECTED"      -> Throw(c)
             [] c.state = "READING_FIRSTLINE" -> readFirstLine(c, h)
             [] c.state = "READING_HEADERS"   -> readHeader(c, h)
             [] c.state = "READING_BODY"      -> readBody(c, h)
             [] c.state = "READING_TRAILER"   -> readTrailer(c, h)
             [] c.state = "WRITING"           -> c)

writeCB_Early(c) ==
    IF c.state = "WRITING" /\ c.output = <<>> /\ c.requests # <<>>
    THEN startRead([c EXCEPT !.requests = Tail(@), !.taken = @ + 1]) ELSE c

\* Versions before 1.1 are left out: a connection is kept unless one side asked
\* to close it.
writeCB(c) ==
    LET req == c.requests[1]
        p == [c EXCEPT !.requests = Tail(@), !.taken = @ + 1]
    IN  CASE c.state \notin {"READING_BODY", "WRITING"} -> fail(c)
          [] c.state = "READING_BODY" -> c
          [] c.state = "WRITING" ->
               IF c.output # <<>> THEN c
               ELSE IF c.requests = <<>> THEN fail(c)
               ELSE IF req.chunked THEN c
               ELSE IF "close" \in req.headers \/ req.close THEN free(p)
               ELSE startRead(p)

errorCB(c) == IF c.state = "DISCONNECTED" THEN c ELSE fail(c)
--------------------------------------------------------------------------------
ClientSend ==
    /\ sent < Len(script) /\ ~closed
    /\ "pipeline" \in manner \/ Len(con.answers) = sent
    /\ sent' = sent + 1
    /\ wire' = wire \o Encode(script[sent + 1])
    /\ UNCHANGED <<manner, script, closed, con>>

ClientClose == ~closed /\ closed' = TRUE /\ UNCHANGED <<manner, script, sent, wire, con>>

Idle == con.queue = <<>> /\ con.sock = "SOCK_READY" /\ ~con.spin

ReadReady == con.read /\ (wire # <<>> \/ closed)

\* The event loop finds the socket ready.
Poll ==
    /\ Idle
    /\ \E q \in {<<"sockRead">>, <<"sockWrite">>, <<"sockRead", "sockWrite">>,
                 <<"sockWrite", "sockRead">>} :
         /\ "sockRead" \in Range(q) => ReadReady
         /\ "sockWrite" \in Range(q) => con.output # <<>>
         /\ con' = [con EXCEPT !.queue = q]
    /\ UNCHANGED client

\* Nothing happens for readTimeout or writeTimeout seconds.
Timeout ==
    /\ Idle
    /\ (con.read /\ ~ReadReady) \/ con.output # <<>>
    /\ con' = scheduleErrorCB(con)
    /\ UNCHANGED client

Running(e) == con.queue # <<>> /\ Head(con.queue) = e /\ ~con.spin
Dequeued == [con EXCEPT !.queue = Tail(@)]

InsideLine(k) ==
    k < Len(wire) /\ wire[k + 1] = "eol" /\ wire[k] \notin {"eol", "b"}

scheduleReadCB(c) ==
    IF Len(c.input) < c.minRead THEN c
    ELSE Activate([c EXCEPT !.minRead = 0], "read")

\* sockReadCB() and sockRead(); the event is gone if it was deleted meanwhile.
sockRead ==
    /\ Running("sockRead")
    /\ \/ /\ ~(con.sock = "SOCK_READY" /\ con.read)
          /\ con' = Dequeued /\ UNCHANGED wire
       \/ /\ con.sock = "SOCK_READY" /\ con.read
          /\ IF wire = <<>> THEN con' = scheduleErrorCB(Dequeued) /\ UNCHANGED wire
             ELSE \E k \in 1..Len(wire) :
                    /\ "split" \in manner \/ ~InsideLine(k)
                    /\ con' = scheduleReadCB([Dequeued EXCEPT
                                               !.input = @ \o SubSeq(wire, 1, k)])
                    /\ wire' = SubSeq(wire, k + 1, Len(wire))
    /\ UNCHANGED <<manner, script, sent, closed>>

\* The kernel takes k symbols of the output.
Written(c, k) ==
    LET d == [c EXCEPT !.output = SubSeq(@, k + 1, Len(@)),
                       !.answers = @ \o SelectSeq(SubSeq(c.output, 1, k), LAMBDA x : x # More)]
    IN  IF d.output = <<>> THEN Activate(d, "write") ELSE d

\* sockWriteCB() and sockWrite(): all, some or none of the output is written.
sockWrite ==
    /\ Running("sockWrite")
    /\ con' \in IF con.sock = "SOCK_READY" /\ con.output # <<>>
               THEN {Written(Dequeued, k) : k \in 0..Len(con.output)}
                    \cup {scheduleErrorCB(Dequeued)}
               ELSE {Dequeued}
    /\ UNCHANGED client

ReadCB ==
    /\ Running("read")
    /\ con' \in {readCB(Dequeued, h) : h \in Handlers}
    /\ UNCHANGED client

WriteCB == Running("write") /\ con' = writeCB(Dequeued) /\ UNCHANGED client

ErrorCB == Running("error") /\ con' = errorCB(Dequeued) /\ UNCHANGED client

\* A handler that holds on to its request replies; checkActiveRequest() throws, to the
\* handler, if the request is not the one at the head any more.
LateReply ==
    /\ ~con.spin
    /\ \E id \in con.held :
         LET c == [con EXCEPT !.held = @ \ {id}]
         IN  con' = IF c.requests # <<>> /\ c.requests[1].id = id THEN reply(c) ELSE c
    /\ UNCHANGED client

\* It sends the chunks of its response.
sendChunk(last) ==
    /\ con.requests # <<>> /\ con.requests[1].chunked /\ ~con.spin
    /\ con' = [write(con, last) EXCEPT !.requests[1].chunked = ~last]
    /\ UNCHANGED client

Next ==
    \/ ClientSend \/ ClientClose
    \/ Poll \/ Timeout \/ sockRead \/ sockWrite \/ ReadCB \/ WriteCB \/ ErrorCB
    \/ LateReply \/ sendChunk(FALSE) \/ sendChunk(TRUE)

Spec == Init /\ [][Next]_vars

\* The event loop polls and runs what it finds: a callback is enabled exactly
\* while its event is at the head of the queue and takes it off, so that weak
\* fairness of the callbacks is that no event stays there.  Handlers finish
\* their replies; output that the peer keeps taking is written in the end.
FairSpec ==
    /\ Spec
    /\ WF_vars(Poll) /\ WF_vars(Timeout)
    /\ \A e \in {"sockRead", "sockWrite", "read", "write", "error"} : []<>(~Running(e))
    /\ SF_vars(sockWrite /\ con'.output = <<>>)
    /\ WF_vars(LateReply) /\ SF_vars(sendChunk(TRUE))
--------------------------------------------------------------------------------
Meaning(m) == [method |-> m.method, headers |-> Range(m.headers), body |-> m.body]

\* "Last header", "Need more data": however the network cuts the stream, a handler
\* gets the requests the client sent, in order, each with all of its headers and
\* its whole body, which is within maxBodySize.
ParsedAsSent ==
    /\ Len(con.served) <= sent
    /\ \A i \in 1..Len(con.served) :
         con.served[i] = Meaning(script[i]) /\ (MaxBody # 0 => con.served[i].body <= MaxBody)

\* The same when the network cuts between lines or inside bodies only; and readBody()
\* comes back from its loop over chunks and no exception leaves a callback.
WholeLinesParsed == "split" \notin manner => ParsedAsSent /\ ~con.spin /\ ~con.threw

\* A client that expects 100 Continue but sends on meanwhile.
Impatient ==
    "pipeline" \in manner /\ \E i \in DOMAIN script : Expects(Range(script[i].headers))

\* "Incoming: accept another request": the responses come in the order of the requests,
\* the i-th to the i-th, whenever the handlers reply, however many requests are under
\* way and however the output is cut.  A request that expects 100 Continue may go
\* unanswered, for the callback of the 100 Continue can take it off before its handler
\* replies: a client that sends on then gets the next response first.  Even then no
\* response comes twice, or after that to a later request.
AnswersInOrder ==
    "split" \notin manner =>
        /\ \A i, j \in DOMAIN con.answers : i < j => con.answers[i] < con.answers[j]
        /\ ~Impatient => \A i \in DOMAIN con.answers : con.answers[i] = i

\* A connection that waits for its client has nothing of the client's left to
\* do: every request that has arrived in full was given to its handler, if it was
\* sent after the answer to the one before it and whole lines arrive.
NothingUnread ==
    manner = {} /\ Idle /\ con.read /\ wire = <<>> => Len(con.served) = sent

\* A request the client has sent is answered unless the connection is closed,
\* whatever cuts, handlers, timeouts and failed writes come in between.
Answered ==
    \A i \in 1..3 : sent >= i /\ manner = {} ~> Len(con.answers) >= i \/ ~con.listed
================================================================================
