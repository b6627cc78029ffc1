-------------------------------- MODULE Websocket --------------------------------
(***************************************************************************)
(* event/Websocket on an incoming event/Connection, from upgrade() on: the *)
(* frames a client sends, the messages the handler gets, pings, pongs and  *)
(* the closing handshake.  A frame on the wire is a head and its payload   *)
(* bytes; a byte carries its value and the key it is masked with, so that  *)
(* it comes out right only under that key.  The Websocket and the          *)
(* Connection below it are one record, a member function is an operator on *)
(* it, and queue is libevent's queue of active events.                     *)
(***************************************************************************)
EXTENDS Integers, Sequences, SequencesExt

CONSTANTS Scripts,     \* sequences of frames [op, fin, key, data] of a client
          Batching,    \* may one read bring more than one frame?
          MaxBody,     \* maxBodySize, 0 for none
          MaxSends     \* bound on the pings and messages the server sends on its own

ASSUME WebsocketAssumption == /\ Batching \in BOOLEAN /\ MaxBody \in Nat
                              /\ MaxSends \in Nat

VARIABLES script, sent,   \* the client: its frames, how many it sent,
          wire,           \* what is under way
          con             \* the Websocket and its Connection

client == <<script, sent, wire>>
vars == <<client, con>>

DataOps == {"TEXT", "CONTINUE"}
NoKey == 0          \* wsMask before the first data frame

TooBig(n) == MaxBody # 0 /\ MaxBody < n

\* A client does not send the payload of a frame that the server refuses.
Encode(f) ==
    <<[head |-> TRUE, frame |-> [f EXCEPT !.data = Len(f.data)]]>> \o
    IF TooBig(Len(f.data)) THEN <<>>
    ELSE [i \in DOMAIN f.data |-> [head |-> FALSE, key |-> f.key, value |-> f.data[i]]]

\* A frame of the server; the response to the upgrade goes before the first.
Frame(op, fin, data) == [op |-> op, fin |-> fin, data |-> data]
Upgrade == Frame("HTTP", TRUE, <<>>)

\* queued: the Websocket is the connection's request; kept: the application holds a
\* pointer to it, so that it outlives that.
Init ==
    /\ script \in Scripts
    /\ sent = 0 /\ wire = <<>>
    /\ \E kept \in BOOLEAN :
       con = [state |-> "WRITING", active |-> TRUE, open |-> TRUE,
              queued |-> TRUE, kept |-> kept,
              read |-> FALSE, input |-> <<>>, output |-> <<Upgrade>>, queue |-> <<>>,
              wsOpCode |-> "TEXT", wsFinish |-> FALSE, wsMask |-> NoKey,
              bytesToRead |-> 0, wsMsg |-> <<>>,
              pingEvent |-> TRUE, pongEvent |-> FALSE, pongPayload |-> <<>>,
              threw |-> FALSE,
              got |-> <<>>,        \* messages given to the handler
              owed |-> FALSE,      \* was a ping read since the last pong?
              wrote |-> <<>>]      \* frames the client has received
--------------------------------------------------------------------------------
Throw(c) == [c EXCEPT !.threw = TRUE]

Activate(c, e) ==
    IF e \in Range(c.queue) THEN c ELSE [c EXCEPT !.queue = Append(@, e)]

\* Connection::pop() destroys a Websocket that nobody else holds, its events with it.
pop(c) ==
    [c EXCEPT !.queued = FALSE, !.pingEvent = @ /\ c.kept, !.pongEvent = @ /\ c.kept]

\* Connection::fail() and free() of an incoming connection.
fail(c) ==
    pop([c EXCEPT !.open = FALSE, !.read = FALSE, !.input = <<>>, !.output = <<>>,
                  !.state = "DISCONNECTED"])

\* Connection::write() checks that this is its request; there is no other state to
\* change while the Websocket is active.
writeFrame(c, f) ==
    IF ~c.active \/ ~c.queued THEN Throw(c) ELSE [c EXCEPT !.output = Append(@, f)]

\* send() of a message of n frames; Request::send() of a Websocket that is closed
\* keeps the data to itself.
send(c, n) ==
    LET frame(i) == Frame(IF i = 1 THEN "TEXT" ELSE "CONTINUE", i = n, <<>>)
        after[i \in 0..n] ==
          IF i = 0 \/ ~c.active THEN c ELSE writeFrame(after[i - 1], frame(i))
    IN  after[n]

CloseFrame == Frame("CLOSE", TRUE, <<>>)

close_Active(c) ==
    IF ~c.active THEN c
    ELSE writeFrame([c EXCEPT !.pingEvent = FALSE, !.pongEvent = FALSE], CloseFrame)

\* What writeFrame() throws leaves the Websocket active.
close(c) ==
    LET w == writeFrame([c EXCEPT !.pingEvent = FALSE, !.pongEvent = FALSE], CloseFrame)
    IN  IF ~c.active THEN c ELSE [w EXCEPT !.active = w.threw]

\* Creates the event anew when close() has released it.
schedulePing(c) == [c EXCEPT !.pingEvent = TRUE]

\* message(): the handler answers a message, keeps quiet or throws.
message(c, h) ==
    LET d == [schedulePing(c) EXCEPT !.got = Append(@, c.wsMsg)]
    IN  CASE h = "quiet" -> d
          [] h = "raise" -> close(d)
          [] h = "answer" -> send(d, 1)

TooLong(c, n) == TooBig(Len(c.wsMsg) + n)

Kept_Never(c, op) == <<>>

\* What is left in wsMsg when a frame with this opcode begins.
Kept(c, op) == IF op = "CONTINUE" THEN c.wsMsg ELSE <<>>

\* readHeader() of a whole head; mask and wsFinish are only kept of data frames.
\* The payload of a frame that was refused is read as a head next: the websocket
\* is closed by then, and the model takes such a head for a refused one as well.
\* Result: is there a body to read?
readHeader(c) ==
    LET f == Head(c.input).frame
        d == [c EXCEPT !.input = Tail(@), !.bytesToRead = f.data, !.wsOpCode = f.op,
                       !.wsMsg = Kept(c, f.op)]
    IN  IF c.input = <<>> THEN [con |-> c, body |-> FALSE]        \* Wait for more
        ELSE IF ~Head(c.input).head THEN [con |-> c, body |-> FALSE]
        ELSE IF f.key = NoKey THEN [con |-> close(c), body |-> FALSE]
        ELSE IF f.op \in DataOps /\ TooLong(d, f.data)
        THEN [con |-> close(d), body |-> FALSE]
        ELSE IF f.op \in DataOps
        THEN [con |-> [d EXCEPT !.wsMask = f.key, !.wsFinish = f.fin], body |-> TRUE]
        ELSE [con |-> IF f.op = "RESERVED" THEN close(d) ELSE d,
              body |-> f.op # "RESERVED"]

Demask(c, bytes) ==
    [i \in DOMAIN bytes |-> IF bytes[i].key = c.wsMask THEN bytes[i].value ELSE "garbled"]

schedulePong_Never(c) == [c EXCEPT !.pongPayload = c.wsMsg, !.owed = TRUE]

\* One pong answers the pings of five seconds.
schedulePong(c) == [c EXCEPT !.pongEvent = TRUE, !.pongPayload = c.wsMsg, !.owed = TRUE]

\* string(wsMsg.begin() + 2, wsMsg.end()) has a negative length, and throws.
NoStatus(msg) == Len(msg) < 2

\* readBody() once the payload is there.
readBody(c, h) ==
    LET n == c.bytesToRead
        d == [c EXCEPT !.input = SubSeq(@, n + 1, Len(@)),
                       !.wsMsg = @ \o Demask(c, SubSeq(c.input, 1, n))]
    IN  CASE c.wsOpCode \in DataOps ->
               IF c.wsFinish THEN [message(d, h) EXCEPT !.wsMsg = <<>>] ELSE d
          [] c.wsOpCode = "CLOSE" -> IF NoStatus(d.wsMsg) THEN Throw(d) ELSE close(d)
          [] c.wsOpCode = "PING" -> schedulePing(schedulePong(d))
          [] c.wsOpCode = "PONG" -> schedulePing(d)

websockReadBody(c, h) ==
    LET r == readBody(c, h)
    IN  IF Len(c.input) < c.bytesToRead THEN [c EXCEPT !.state = "WEBSOCK_BODY"]
        ELSE IF r.threw THEN [r EXCEPT !.state = "WEBSOCK_BODY"]
        ELSE [r EXCEPT !.state = IF r.active THEN "WEBSOCK_HEADER" ELSE "WRITING"]

websockReadHeader(c, h) ==
    LET r == readHeader([c EXCEPT !.read = TRUE, !.state = "WEBSOCK_HEADER"])
    IN  IF r.body THEN websockReadBody(r.con, h) ELSE r.con

Caught(c) == IF c.threw THEN fail([c EXCEPT !.threw = FALSE]) ELSE c

readCB(c, h) ==
    CASE c.state = "WEBSOCK_HEADER" -> Caught(websockReadHeader(c, h))
      [] c.state = "WEBSOCK_BODY"   -> Caught(websockReadBody(c, h))
      [] c.state \in {"WRITING", "READING_FIRSTLINE"} -> c
      [] c.state = "DISCONNECTED"   -> fail(c)

\* The Websocket that is done is popped and the connection goes back to reading
\* HTTP requests: the model ends there.
writeCB(c, h) ==
    CASE c.state \in {"DISCONNECTED", "READING_FIRSTLINE"} -> fail(c)
      [] c.state \in {"WEBSOCK_HEADER", "WEBSOCK_BODY"} -> c
      [] c.state = "WRITING" /\ c.output # <<>> -> c
      [] c.state = "WRITING" /\ c.output = <<>> /\ c.active -> Caught(websockReadHeader(c, h))
      [] c.state = "WRITING" /\ c.output = <<>> /\ ~c.active ->
           [pop(c) EXCEPT !.read = TRUE, !.state = "READING_FIRSTLINE"]
--------------------------------------------------------------------------------
ClientSend ==
    /\ sent < Len(script)
    /\ Batching \/ wire = <<>>
    /\ sent' = sent + 1
    /\ wire' = wire \o Encode(script[sent + 1])
    /\ UNCHANGED <<script, con>>

\* BufferEvent: the kernel has data or room for output.
sockRead ==
    /\ con.open /\ con.read /\ "read" \notin Range(con.queue) /\ wire # <<>>
    /\ con.state # "READING_FIRSTLINE"
    /\ \E k \in 1..Len(wire) :
         /\ con' = Activate([con EXCEPT !.input = @ \o SubSeq(wire, 1, k)], "read")
         /\ wire' = SubSeq(wire, k + 1, Len(wire))
    /\ UNCHANGED <<script, sent>>

\* All of the output is written or the first k frames.
sockWrite ==
    /\ con.open /\ con.output # <<>> /\ "write" \notin Range(con.queue)
    /\ \E k \in 1..Len(con.output) :
         LET c == [con EXCEPT !.output = SubSeq(@, k + 1, Len(@)),
                              !.wrote = @ \o SubSeq(con.output, 1, k)]
         IN  con' = IF c.output = <<>> THEN Activate(c, "write") ELSE c
    /\ UNCHANGED client

\* The client hangs up, a failed read or write, or nothing to read, or no room for
\* output, for readTimeout or writeTimeout seconds.
sockError ==
    /\ con.open /\ ((con.read /\ wire = <<>>) \/ con.output # <<>>)
    /\ con' = Activate([con EXCEPT !.open = FALSE, !.read = FALSE], "error")
    /\ UNCHANGED client

Running(e) == con.queue # <<>> /\ Head(con.queue) = e
Dequeued == [con EXCEPT !.queue = Tail(@)]
Handlers == {"quiet", "answer", "raise"}

ReadCB ==
    Running("read") /\ con' \in {readCB(Dequeued, h) : h \in Handlers} /\ UNCHANGED client

WriteCB ==
    Running("write") /\ con' \in {writeCB(Dequeued, h) : h \in Handlers} /\ UNCHANGED client

\* errorCB() pops the Websocket, if it is one, and fails.
ErrorCB == Running("error") /\ con' = fail(Dequeued) /\ UNCHANGED client

\* All that the server wrote; may it send something on its own?
Frames == con.wrote \o con.output
MaySend == Len(SelectSeq(Frames, LAMBDA f : f.op \in {"PING", "TEXT"})) < MaxSends

\* pongEvent and pingEvent fire; Event::call() catches what writeFrame() throws.
pong ==
    LET w == writeFrame([con EXCEPT !.pongEvent = FALSE],
                        Frame("PONG", TRUE, con.pongPayload))
    IN  /\ con.pongEvent
        /\ con' = IF w.threw THEN [w EXCEPT !.threw = FALSE]
                  ELSE [w EXCEPT !.pongPayload = <<>>, !.owed = FALSE]
        /\ UNCHANGED client

ping ==
    LET w == writeFrame([con EXCEPT !.pingEvent = FALSE], Frame("PING", TRUE, <<>>))
    IN  /\ con.pingEvent /\ MaySend
        /\ con' = IF w.threw THEN [w EXCEPT !.threw = FALSE] ELSE schedulePing(w)
        /\ UNCHANGED client

\* The application calls send() or close() at any time; what they throw is its own.
App ==
    /\ con.queued \/ con.kept
    /\ \E c \in {close(con)} \cup
                {send(con, n) : n \in IF MaySend THEN 1..2 ELSE {}} :
         con' = [c EXCEPT !.threw = FALSE]
    /\ UNCHANGED client

Next ==
    \/ ClientSend \/ sockRead \/ sockWrite \/ sockError
    \/ ReadCB \/ WriteCB \/ ErrorCB \/ pong \/ ping \/ App

Spec == Init /\ [][Next]_vars

\* The loop serves ready sockets, active events and due timers.
FairSpec ==
    /\ Spec
    /\ SF_vars(sockRead) /\ SF_vars(sockWrite) /\ WF_vars(pong)
    /\ []<>(con.queue = <<>>)
--------------------------------------------------------------------------------
\* The messages of a sequence of frames: the payloads of a first frame and its
\* continuations; frames of other kinds may stand between them.
RECURSIVE Messages(_, _)
Messages(frames, part) ==
    IF frames = <<>> THEN <<>>
    ELSE LET f == Head(frames)
             p == IF f.op = "TEXT" THEN f.data ELSE part \o f.data
         IN  IF f.op \notin DataOps THEN Messages(Tail(frames), part)
             ELSE IF f.fin THEN <<p>> \o Messages(Tail(frames), <<>>)
             ELSE Messages(Tail(frames), p)

\* "Last part of message?": the handler gets the messages the client sent, whole and
\* in order, without those above maxBodySize, however they are fragmented and however
\* the network cuts the stream.
MessagesAsSent ==
    IsPrefix(con.got, SelectSeq(Messages(script, <<>>), LAMBDA m : ~TooBig(Len(m))))

\* Messages arrive, and promptly: a connection that waits for its client has no
\* whole frame left to read.
MessagesArrive ==
    /\ MessagesAsSent
    /\ /\ con.state \in {"WEBSOCK_HEADER", "WEBSOCK_BODY"} /\ con.active
       /\ con.queue = <<>> /\ wire = <<>>
       => con.input = <<>>

\* A close frame is the last frame that is written, and there is one at most, though
\* handler, application, timers and client may all have a reason to write.  Once the
\* connection has let go of the websocket none of them writes to it, which would end
\* up among HTTP responses, though an application that keeps the websocket still calls
\* it and its timers still fire.  And "Send close response": a client that sends a
\* close frame receives one, if the connection lasts.
ClosingHandshake ==
    /\ [](\A i \in DOMAIN Frames : Frames[i].op = "CLOSE" => i = Len(Frames))
    /\ [][~con.queued => Len(con'.output) <= Len(con.output)]_vars
    /\ sent > 0 /\ script[sent].op = "CLOSE" ~>
           ~con.open \/ (con.wrote # <<>> /\ Last(con.wrote).op = "CLOSE")

\* Each ping that was read is followed by a pong, unless the websocket is closed or
\* its connection lost first, and a pong gives back the payload of the last of them.
PingAnswered ==
    /\ con.owed ~> ~con.owed \/ ~con.active \/ ~con.queued
    /\ [][Len(con'.output) > Len(con.output) /\ Last(con'.output).op = "PONG" =>
            \E i \in 1..sent : /\ script[i].op = "PING"
                               /\ script[i].data = Last(con'.output).data
                               /\ \A j \in (i + 1)..sent : script[j].op = "PING" =>
                                    wire # <<>> \/ con.input # <<>>
                                    \/ script[j].data = script[i].data]_vars
================================================================================
