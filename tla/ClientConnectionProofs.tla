-------------------------- MODULE ClientConnectionProofs --------------------------
(***************************************************************************)
(* Every step of an outgoing Connection keeps the invariant of             *)
(* ClientConnectionLemmas, and what follows from it: every request is      *)
(* called back once and with its own response, none is sent twice but by   *)
(* sendError(), and whatever waits has something to wait for.              *)
(***************************************************************************)
EXTENDS ClientConnectionLemmas
--------------------------------------------------------------------------------
(***************************************************************************)
(* The callbacks of the BufferEvent.                                       *)
(***************************************************************************)
\* The step of a callback: c has the event taken off.
Called(e, c) ==
    /\ con.stack = <<>> /\ con.queue # <<>> /\ Head(con.queue) = e
    /\ c = [con EXCEPT !.queue = Tail(@)]
    /\ custom' = custom /\ made' = made /\ dropped' = dropped /\ peer' = Other(peer)

LEMMA CalledStep ==
    ASSUME NEW e, Callback(e)
    PROVE  \E c : Called(e, c) /\ con' = Handled(e, c)
<1> DEFINE c == [con EXCEPT !.queue = Tail(@)]
<1>1. Called(e, c) /\ con' = Handled(e, c)
    BY Zenon DEF Callback, Called, Step, Other
<1> QED BY Zenon, <1>1

LEMMA CalledDequeued ==
    ASSUME IInv, NEW e, NEW c, Called(e, c)
    PROVE  /\ Dequeued(c) /\ con.stack = <<>> /\ con.queue # <<>> /\ Head(con.queue) = e
           /\ custom' = custom /\ made' = made /\ dropped' = dropped /\ peer' = Other(peer)
           /\ TypeInv /\ Steady(con) /\ ~Closing(con) /\ IsCon(con)
           /\ made' \subseteq Reqs /\ dropped' \subseteq made'
<1>1. IsCon(con) /\ con.queue # <<>>
    BY Zenon DEF IInv, TypeInv, Called
<1>2. Tail(con.queue) \in Seq(Events)
    BY <1>1, HeadAndTail DEF IsCon
<1>3. c = [con EXCEPT !.queue = Tail(con.queue)]
    BY Zenon DEF Called
<1>4. Dequeued(c)
    BY ZenonT(60), <1>1, <1>2, <1>3 DEF Dequeued, IsCon
<1> QED BY Zenon, <1>1, <1>4 DEF Called, IInv, TypeInv, Closing

\* c has the requests, events and callbacks of b.
Alike(b, c) ==
    /\ IsCon(c) /\ c.requests = b.requests /\ c.result = b.result /\ c.queue = b.queue
    /\ c.retryEvent = b.retryEvent /\ c.stack = b.stack
    /\ c.replying = b.replying /\ c.sends = b.sends

\* A callback that ends the connection.
LEMMA CalledAgain ==
    ASSUME IInv, NEW e, NEW b, Called(e, b), NEW c, Alike(b, c),
           Restarted(c, con'), Kept(c, con'), c.requests # <<>> \/ Stopped(c, con'),
           Stopped(c, con') \/ con.state \in Unconnected
    PROVE  IInv'
<1>1. /\ con.stack = <<>> /\ con.queue # <<>> /\ Dequeued(b)
      /\ custom' = custom /\ made' = made /\ dropped' = dropped /\ peer' = Other(peer)
    BY Zenon, CalledDequeued
<1>2. /\ ~Cancels => "connect" \notin Range(b.queue)
      /\ ~Cancels /\ ~Resubmits => b.queue = <<>> /\ ~b.retryEvent
    BY Zenon, <1>1, Dequeue
<1>3. /\ IsCon(c) /\ c.requests = con.requests /\ c.result = con.result
      /\ c.sends = con.sends /\ c.replying = con.replying /\ c.stack = <<>>
      /\ c.queue = b.queue /\ c.retryEvent = b.retryEvent
    BY Zenon, <1>1 DEF Dequeued, Alike
<1>4. \A i \in DOMAIN c.stack : c.stack[i] \in {"keep", "close"} => i = Len(c.stack)
    BY Zenon, <1>3, Nothing
<1> QED BY Zenon, <1>1, <1>2, <1>3, <1>4, AgainInv

LEMMA ConnectCBInv ==
    ASSUME IInv, ConnectCB
    PROVE  IInv'
<1>1. PICK c : Called("connect", c) /\ con' = Handled("connect", c)
    BY Zenon, CalledStep DEF ConnectCB
<1>2. /\ Dequeued(c) /\ con.stack = <<>> /\ con.queue # <<>> /\ Head(con.queue) = "connect"
      /\ custom' = custom /\ made' = made /\ dropped' = dropped /\ peer' = Other(peer)
      /\ TypeInv /\ Steady(con) /\ ~Closing(con) /\ IsCon(con)
      /\ made' \subseteq Reqs /\ dropped' \subseteq made'
    BY Zenon, <1>1, CalledDequeued
<1> DEFINE d == [c EXCEPT !.retries = 0, !.state = "IDLE"]
<1>3. con' = IF c.state # "CONNECTING" THEN c
             ELSE IF c.requests # <<>> THEN write(d) ELSE d
    BY Zenon, <1>1 DEF Handled, connectCB
<1>4. CASE con.state # "CONNECTING"
    <2>1. con' = c
        BY Zenon, <1>2, <1>3, <1>4 DEF Dequeued
    <2> QED BY Zenon, <2>1, <1>2, <1>4, IgnoredInv
<1>5. /\ \A e \in Range(con.queue) : e # "connect" => e \in Range(c.queue)
      /\ ~Cancels => "connect" \notin Range(c.queue)
      /\ ~Cancels /\ ~Resubmits => c.queue = <<>> /\ ~c.retryEvent
    BY Zenon, <1>2, Dequeue
<1>6. /\ IsCon(d) /\ d.state = "IDLE" /\ d.sock = con.sock /\ d.requests = con.requests
      /\ d.result = con.result /\ d.sends = con.sends /\ d.replying = con.replying
      /\ d.stack = <<>> /\ d.queue = c.queue /\ d.retryEvent = c.retryEvent
      /\ d.input = con.input /\ d.output = con.output /\ d.detectClose = con.detectClose
    BY ZenonT(60), <1>2 DEF Dequeued, IsCon
<1> HIDE DEF d
<1>7. ASSUME con.state = "CONNECTING"
      PROVE  /\ con.state \in Unconnected /\ con.state \notin Active
             /\ con.sock # "IDLE" /\ con.output = <<>>
             /\ con.sock = "FAILED" => "error" \in Range(c.queue)
             /\ ~Cancels => con.sock = "SOCK_READY"
             /\ ~Reenters => /\ Matching(con.result)
                             /\ con.input = <<>> /\ peer.got = <<>> /\ peer.replies = <<>>
    <2>1. con.state \in Unconnected /\ con.state \notin Active /\ con.state # "WRITING"
        BY Zenon, <1>7 DEF Unconnected, Active
    <2>2. /\ con.sock # "IDLE" /\ con.output = <<>>
          /\ con.sock = "FAILED" => "error" \in Range(con.queue)
        BY Zenon, <2>1, <1>2, <1>7 DEF Steady
    <2>3. "connect" \in Range(con.queue)
        <3>1. con.queue \in Seq(Events)
            BY Zenon, <1>2 DEF IsCon
        <3>2. 1 \in DOMAIN con.queue /\ con.queue[1] = "connect"
            BY <3>1, <1>2, HeadAndTail
        <3> QED BY Zenon, <3>2, InRange
    <2>4. ~Cancels => con.sock = "SOCK_READY"
        BY Zenon, <2>3 DEF IInv, Open
    <2>5. ~Reenters => /\ Matching(con.result)
                       /\ con.input = <<>> /\ peer.got = <<>> /\ peer.replies = <<>>
        BY Zenon, <2>1, <1>2 DEF IInv, Flow
    <2> QED BY Zenon, <2>1, <2>2, <2>4, <2>5, <1>5
<1>8. Settled(d.requests, d.result, made' \ dropped')
    BY Zenon, <1>2, <1>6 DEF IInv
<1>9. \A i \in DOMAIN d.stack : d.stack[i] \in {"keep", "close"} => i = Len(d.stack)
    BY Zenon, <1>6, Nothing
<1>10. CASE con.state = "CONNECTING" /\ con.requests # <<>>
    <2>1. con' = write(d)
        BY Zenon, <1>2, <1>3, <1>10 DEF Dequeued
    <2>2. Written(d, con')
        BY Zenon, <2>1, <1>6, <1>10, WriteResult
    <2>3. con'.requests = d.requests /\ con'.result = d.result
        BY Zenon, <2>2 DEF Written
    <2>4. ASSUME ~Cancels, ~Resubmits, ~Reenters
          PROVE  /\ \A r \in Reqs : d.sends[r] <= Limit(d, r) /\ (r \notin made' => Unsent(d, r))
                 /\ \A i \in DOMAIN d.requests : i > 1 => Unsent(d, d.requests[i])
                 /\ d.sends[Head(d.requests)] < Limit(d, Head(d.requests))
        <3>1. Once(con, made)
            BY Zenon, <2>4 DEF IInv
        <3>2. \A i \in DOMAIN con.requests : Unsent(con, con.requests[i])
            BY Zenon, <3>1, <1>7, <1>10 DEF Once
        <3>3. \A r : Unsent(con, r) => Unsent(d, r)
            BY Zenon, <1>6 DEF Unsent
        <3>4. \A r \in Reqs : d.sends[r] <= Limit(d, r)
            BY Zenon, <3>1, <1>6 DEF Once, Limit
        <3>5. con.requests \in Seq(Reqs)
            BY Zenon, <1>2 DEF IsCon
        <3>6. Head(con.requests) = con.requests[1] /\ 1 \in DOMAIN con.requests
            BY <3>5, <1>10, HeadAndTail
        <3>7. Unsent(d, Head(d.requests))
            BY Zenon, <3>2, <3>3, <3>6, <1>6
        <3>8. d.sends[Head(d.requests)] < Limit(d, Head(d.requests))
            BY <3>7 DEF Unsent, Limit
        <3> QED BY Zenon, <3>1, <3>2, <3>3, <3>4, <3>8, <1>2, <1>6 DEF Once
    <2>5. ~Cancels => d.sock \in {"SOCK_READY", "FAILED"} /\ "connect" \notin Range(d.queue)
        BY Zenon, <1>5, <1>6, <1>7, <1>10
    <2>6. ~Cancels /\ ~Resubmits => ~d.retryEvent /\ d.queue = <<>>
        BY Zenon, <1>5, <1>6
    <2>7. ~Reenters => /\ d.stack = <<>> /\ d.output = <<>> /\ Matching(con'.result)
                       /\ d.input = <<>> /\ peer.got = <<>> /\ peer.replies = <<>>
        BY Zenon, <2>3, <1>6, <1>7, <1>10
    <2>8. d.sock # "IDLE" /\ (d.sock = "FAILED" => "error" \in Range(d.queue))
        BY Zenon, <1>6, <1>7, <1>10
    <2> QED BY ZenonT(60), <2>2, <2>3, <2>4, <2>5, <2>6, <2>7, <2>8, <1>2, <1>6, <1>8, <1>9,
               Nothing, WrittenInv
<1>11. CASE con.state = "CONNECTING" /\ con.requests = <<>>
    <2>1. con' = d
        BY Zenon, <1>2, <1>3, <1>11 DEF Dequeued
    <2>2. TypeInv' /\ peer' = peer
        BY Zenon, <2>1, <1>2, <1>6, SamePeer
    <2>3. Cancels \/ Resubmits
        BY Zenon, <1>11 DEF IInv, Fresh
    <2>4. Nested(d) /\ Quiet(d)
        BY Zenon, <1>6, Nothing DEF Nested, Quiet
    <2>5. Steady(d)
        BY ZenonT(60), <1>6, <1>7, <1>11 DEF Steady, Active, Unconnected
    <2>6. ~Cancels => Open(d)
        BY Zenon, <1>5, <1>6, <1>7, <1>11 DEF Open
    <2>7. ~Reenters => Matching(d.result) /\ Flow(d, peer)
        <3>1. d.state \notin Active
            BY Zenon, <1>6 DEF Active
        <3> QED BY Zenon, <3>1, <1>6, <1>7, <1>11, NothingFlows
    <2> QED BY Zenon, <2>1, <2>2, <2>3, <2>4, <2>5, <2>6, <2>7, <1>2, <1>8, Assembled
<1> QED BY Zenon, <1>4, <1>10, <1>11

\* The response is taken out of the buffer.
LEMMA TakenOff ==
    ASSUME IInv, NEW c, Dequeued(c), con.input # <<>>, NEW d,
           d = [c EXCEPT !.input = Tail(c.input)]
    PROVE  /\ Head(con.input) \in Response /\ Alike(c, d) /\ c.input = con.input
           /\ d.state = con.state /\ d.sock = con.sock /\ d.requests = con.requests
           /\ d.detectClose = con.detectClose /\ d.output = con.output
           /\ d.input = Tail(con.input) /\ d.replying = con.replying
<1>1. IsCon(c) /\ c.input = con.input
    BY Zenon DEF Dequeued
<1>2. Head(con.input) \in Response /\ Tail(c.input) \in Seq(Response)
    BY <1>1, HeadAndTail DEF IsCon
<1>3. /\ IsCon(d) /\ d.input = Tail(c.input)
      /\ d.state = c.state /\ d.sock = c.sock /\ d.requests = c.requests /\ d.result = c.result
      /\ d.queue = c.queue /\ d.retryEvent = c.retryEvent /\ d.detectClose = c.detectClose
      /\ d.output = c.output /\ d.stack = c.stack /\ d.replying = c.replying /\ d.sends = c.sends
    BY ZenonT(60), <1>1, <1>2 DEF IsCon
<1> QED BY Zenon, <1>1, <1>2, <1>3 DEF Dequeued, Alike

\* sendError() writes the request once more.
LEMMA SendErrorInv ==
    ASSUME IInv, NEW c, Called("read", c), con.state = "READING_FIRSTLINE", con.input # <<>>,
           con' = sendError([c EXCEPT !.input = Tail(c.input)])
    PROVE  IInv'
<1>1. /\ Dequeued(c) /\ con.stack = <<>> /\ con.queue # <<>> /\ Head(con.queue) = "read"
      /\ custom' = custom /\ made' = made /\ dropped' = dropped /\ peer' = Other(peer)
      /\ TypeInv /\ Steady(con) /\ ~Closing(con) /\ IsCon(con)
      /\ made' \subseteq Reqs /\ dropped' \subseteq made'
    BY Zenon, CalledDequeued
<1> DEFINE d == [c EXCEPT !.input = Tail(c.input)]
           h == Head(con.requests)
           w == [d EXCEPT !.replying = d.replying \cup {h}]
<1>2. /\ Alike(c, d) /\ d.state = con.state /\ d.sock = con.sock /\ d.requests = con.requests
      /\ d.output = con.output /\ d.input = Tail(con.input) /\ d.replying = con.replying
    BY Zenon, <1>1, TakenOff
<1>3. con' = IF h \in con.replying THEN fail(d) ELSE write(w)
    <2>1. con' = sendError(d)
        BY Zenon
    <2> HIDE DEF d
    <2> QED BY <2>1, <1>2 DEF sendError
<1>4. CASE h \in con.replying
    <2>1. con' = fail(d)
        BY Zenon, <1>3, <1>4
    <2>2. IsCon(d)
        BY Zenon, <1>2 DEF Alike
    <2>3. Restarted(d, con') /\ Kept(d, con') /\ Stopped(d, con')
        BY Zenon, <2>1, <2>2, FailResult
    <2> HIDE DEF d
    <2> QED BY Zenon, <2>3, <1>2, CalledAgain
<1>5. CASE h \notin con.replying
    <2>1. /\ con.requests # <<>> /\ con.output = <<>> /\ con.sock # "IDLE"
          /\ con.sock = "FAILED" => "error" \in Range(con.queue)
        BY Zenon, <1>1 DEF Steady, Active
    <2>2. con.requests \in Seq(Reqs) /\ con.input \in Seq(Response)
        BY Zenon, <1>1 DEF IsCon
    <2>3. h \in Reqs /\ h = con.requests[1] /\ 1 \in DOMAIN con.requests
        BY <2>1, <2>2, HeadAndTail
    <2>4. IsCon(d)
        BY Zenon, <1>2 DEF Alike
    <2> HIDE DEF d, h
    <2>5. /\ IsCon(w) /\ w.state = d.state /\ w.sock = con.sock /\ w.requests = con.requests
          /\ w.result = d.result /\ w.queue = d.queue /\ w.retryEvent = d.retryEvent
          /\ w.output = <<>> /\ w.input = Tail(con.input) /\ w.stack = d.stack
          /\ w.replying = con.replying \cup {h} /\ w.sends = d.sends
        BY ZenonT(60), <1>2, <2>1, <2>3, <2>4 DEF IsCon
    <2> HIDE DEF w
    <2>6. /\ w.stack = <<>> /\ w.queue = c.queue /\ w.retryEvent = c.retryEvent
          /\ w.sends = con.sends /\ w.result = con.result
        BY Zenon, <2>5, <1>1, <1>2 DEF Alike, Dequeued
    <2>7. Written(w, con')
        BY Zenon, <2>1, <2>5, <1>3, <1>5, WriteResult
    <2>8. con'.requests = con.requests /\ con'.result = con.result
        BY Zenon, <2>5, <2>6, <2>7 DEF Written
    <2>9. Settled(con'.requests, con'.result, made' \ dropped')
        BY Zenon, <2>8, <1>1 DEF IInv
    <2>10. /\ \A e \in Range(con.queue) : e # "read" => e \in Range(w.queue)
           /\ ~Cancels => "connect" \notin Range(w.queue)
           /\ ~Cancels /\ ~Resubmits => w.queue = <<>> /\ ~w.retryEvent
        BY Zenon, <2>6, <1>1, Dequeue
    <2>11. ASSUME ~Reenters
           PROVE  /\ Matching(con'.result) /\ Head(w.requests) \in w.replying
                  /\ \A i \in DOMAIN peer.got : peer.got[i] = Head(w.requests)
                  /\ \A i \in DOMAIN peer.replies : peer.replies[i].of = Head(w.requests)
                  /\ \A i \in DOMAIN w.input : w.input[i].of = Head(w.requests)
        <3>1. Matching(con.result) /\ Flow(con, peer) /\ Head(w.requests) = h
            BY Zenon, <2>5, <2>11, <1>1 DEF IInv, h
        <3>2. /\ \A i \in DOMAIN peer.got : peer.got[i] = h
              /\ \A i \in DOMAIN peer.replies : peer.replies[i].of = h
              /\ \A i \in DOMAIN con.input : con.input[i].of = h
            BY Zenon, <3>1 DEF Flow, h
        <3>3. \A i \in DOMAIN Tail(con.input) : Tail(con.input)[i].of = h
            BY Zenon, <3>2, <2>2, OwnTail
        <3>4. h \in w.replying
            BY <2>5
        <3> QED BY Zenon, <3>1, <3>2, <3>3, <3>4, <2>5, <2>8
    <2>12. ASSUME ~Cancels, ~Resubmits, ~Reenters
           PROVE  /\ \A r \in Reqs : w.sends[r] <= Limit(w, r) /\ (r \notin made' => Unsent(w, r))
                  /\ \A i \in DOMAIN w.requests : i > 1 => Unsent(w, w.requests[i])
                  /\ w.sends[Head(w.requests)] < Limit(w, Head(w.requests))
        <3>1. Once(con, made) /\ Settled(con.requests, con.result, made \ dropped)
            BY Zenon, <2>12 DEF IInv
        <3>2. h \in made
            BY Zenon, <3>1, <2>3 DEF Settled
        <3>3. \A r : r # h => Limit(w, r) = Limit(con, r) /\ (Unsent(con, r) => Unsent(w, r))
            BY <2>5, <2>6 DEF Limit, Unsent
        <3>4. w.sends[h] <= 1 /\ w.sends[h] \in Nat /\ Limit(w, h) = 2
            <4>1. con.sends[h] <= Limit(con, h)
                BY Zenon, <3>1, <2>3 DEF Once
            <4>2. Limit(con, h) = 1
                BY Zenon, <1>5 DEF Limit
            <4>3. h \in w.replying
                BY <2>5
            <4>4. con.sends[h] \in Nat
                BY <1>1, <2>3 DEF IsCon
            <4> QED BY Zenon, <4>1, <4>2, <4>3, <4>4, <2>6 DEF Limit
        <3>5. w.sends[h] <= Limit(w, h) /\ w.sends[h] < Limit(w, h)
            BY <3>4
        <3>6. \A r \in Reqs : w.sends[r] <= Limit(w, r)
            BY Zenon, <3>1, <3>3, <3>5, <2>6 DEF Once
        <3>7. \A r \in Reqs : r \notin made' => Unsent(w, r)
            BY Zenon, <3>1, <3>2, <3>3, <1>1 DEF Once
        <3>8. ASSUME NEW i \in DOMAIN con.requests, i > 1
              PROVE  Unsent(w, con.requests[i])
            <4>1. i # 1
                BY <3>8
            <4>2. con.requests[i] # h
                BY Zenon, <4>1, <3>1, <2>3 DEF Settled
            <4> QED BY Zenon, <4>2, <3>1, <3>3, <3>8 DEF Once
        <3> QED BY Zenon, <3>5, <3>6, <3>7, <3>8, <2>5 DEF h
    <2>13. w.sock = "FAILED" => "error" \in Range(w.queue)
        BY Zenon, <2>1, <2>5, <2>10
    <2>14. ~Cancels => w.sock \in {"SOCK_READY", "FAILED"} /\ "connect" \notin Range(w.queue)
        BY Zenon, <2>5, <2>10 DEF IInv, Open, Unconnected
    <2> QED BY ZenonT(60), <2>1, <2>5, <2>6, <2>7, <2>9, <2>10, <2>11, <2>12, <2>13, <2>14, <1>1,
               Nothing, WrittenInv
<1> QED BY Zenon, <1>4, <1>5

\* done() calls the request back that was answered.
LEMMA DoneCall ==
    ASSUME NEW d, IsCon(d), d.requests # <<>>, NEW t, t.of \in Reqs
    PROVE  \E b, f : /\ f = (IF NeedsClose(d, t) THEN "close" ELSE "keep")
                     /\ CalledBack(b, done(d, t), f, t.of)
                     /\ b.state = "IDLE" /\ b.sock = d.sock /\ b.requests = d.requests
                     /\ b.result = d.result /\ b.queue = d.queue
                     /\ b.retryEvent = d.retryEvent /\ b.input = d.input
                     /\ b.output = d.output /\ b.stack = d.stack
                     /\ b.replying = d.replying /\ b.sends = d.sends
<1> DEFINE b == [d EXCEPT !.read = FALSE, !.state = "IDLE"]
           f == IF NeedsClose(d, t) THEN "close" ELSE "keep"
<1>1. done(d, t) = onResponse(b, f, t.of)
    BY DEF done
<1>2. /\ IsCon(b) /\ b.state = "IDLE" /\ b.sock = d.sock /\ b.requests = d.requests
      /\ b.result = d.result /\ b.queue = d.queue
      /\ b.retryEvent = d.retryEvent /\ b.input = d.input
      /\ b.output = d.output /\ b.stack = d.stack
      /\ b.replying = d.replying /\ b.sends = d.sends
    BY ZenonT(60) DEF IsCon
<1>3. f \in Frames
    BY DEF Frames
<1> HIDE DEF b, f
<1>4. CalledBack(b, done(d, t), f, t.of)
    BY Zenon, <1>1, <1>2, <1>3, CallResult
<1> QED BY Zenon, <1>2, <1>4 DEF f

LEMMA ReadResponseInv ==
    ASSUME IInv, NEW c, Called("read", c), con.state = "READING_FIRSTLINE",
           con' = readResponse(c)
    PROVE  IInv'
<1>1. /\ Dequeued(c) /\ con.stack = <<>> /\ con.queue # <<>> /\ Head(con.queue) = "read"
      /\ custom' = custom /\ made' = made /\ dropped' = dropped /\ peer' = Other(peer)
      /\ TypeInv /\ Steady(con) /\ ~Closing(con) /\ IsCon(con)
    BY Zenon, CalledDequeued
<1>2. /\ IsCon(c) /\ c.input = con.input /\ c.state = con.state /\ c.requests = con.requests
      /\ c.replying = con.replying
    BY Zenon, <1>1 DEF Dequeued
<1>3. CASE con.input = <<>>
    <2>1. con' = c
        BY Zenon, <1>2, <1>3 DEF readResponse
    <2> QED BY Zenon, <2>1, <1>1, IgnoredInv
<1> DEFINE t == Head(con.input)
           d == [c EXCEPT !.input = Tail(c.input)]
<1>4. CASE con.input # <<>>
    <2>0. /\ t \in Response /\ Alike(c, d) /\ d.state = con.state /\ d.sock = con.sock
          /\ d.requests = con.requests /\ d.output = con.output /\ d.input = Tail(con.input)
          /\ d.detectClose = con.detectClose /\ d.replying = con.replying
        BY Zenon, <1>1, <1>4, TakenOff
    <2>1. /\ t \in Response /\ Alike(c, d) /\ d.state = con.state /\ d.sock = con.sock
          /\ d.requests = con.requests /\ d.output = con.output /\ d.input = Tail(con.input)
          /\ d.detectClose = con.detectClose /\ d.replying = con.replying /\ IsCon(d)
        <3> HIDE DEF d
        <3> QED BY Zenon, <2>0 DEF Alike
    <2>2. t.of \in Reqs /\ t.kind \in Kinds
        BY <2>1 DEF Response
    <2>3. /\ con.requests # <<>> /\ con.output = <<>> /\ con.state \in Active
          /\ con.read \/ con.sock = "FAILED"
        BY Zenon, <1>1 DEF Steady, Active
    <2>4. con' = CASE t.kind = "100"      -> startRead(d)
                   [] t.kind = "bad"      -> fail(d)
                   [] t.kind = "rejected" -> sendError(d)
                   [] t.kind = "stream"   -> [c EXCEPT !.state = "READING_BODY"]
                   [] t.kind \in {"keep", "close"} -> done(d, t)
        BY Zenon, <1>2, <1>4 DEF readResponse
    <2> HIDE DEF t
    <2>5. CASE t.kind = "100"
        <3>1. con' = startRead(d)
            BY <2>4, <2>5
        <3> HIDE DEF d
        <3>2. con' = [d EXCEPT !.read = TRUE, !.state = "READING_FIRSTLINE"]
            BY <3>1 DEF startRead
        <3>3. /\ IsCon(con') /\ con'.state = "READING_FIRSTLINE" /\ con'.read
              /\ con'.sock = d.sock /\ con'.queue = d.queue /\ con'.requests = d.requests
              /\ con'.retryEvent = d.retryEvent /\ con'.detectClose = d.detectClose
              /\ con'.input = d.input /\ con'.output = d.output /\ con'.stack = d.stack
              /\ con'.replying = d.replying /\ con'.result = d.result /\ con'.sends = d.sends
            BY ZenonT(60), <3>2, <2>1 DEF IsCon
        <3>4. /\ d.sock = c.sock /\ d.queue = c.queue /\ d.requests = c.requests
              /\ d.retryEvent = c.retryEvent /\ d.detectClose = c.detectClose
              /\ d.input = Tail(c.input) /\ d.output = c.output /\ d.stack = c.stack
              /\ d.replying = c.replying /\ d.result = c.result /\ d.sends = c.sends
            BY Zenon, <2>1, <1>1 DEF Alike, Dequeued
        <3>5. Reading(c, con') /\ con'.input = Tail(c.input)
            BY Zenon, <3>3, <3>4 DEF Reading
        <3> QED BY Zenon, <3>5, <2>3, <1>1, <1>2, <1>4, ReadingInv
    <2>6. CASE t.kind = "bad"
        <3>1. con' = fail(d)
            BY <2>4, <2>6
        <3> HIDE DEF d
        <3>2. Restarted(d, con') /\ Kept(d, con') /\ Stopped(d, con')
            BY Zenon, <3>1, <2>1, FailResult
        <3> QED BY Zenon, <3>2, <2>1, CalledAgain
    <2>7. CASE t.kind = "rejected"
        <3>1. con' = sendError(d)
            BY <2>4, <2>7
        <3> QED BY Zenon, <3>1, <1>4, SendErrorInv
    <2>8. CASE t.kind = "stream"
        <3>1. con' = [c EXCEPT !.state = "READING_BODY"]
            BY <2>4, <2>8
        <3>2. c.input # <<>> /\ Head(c.input).kind = "stream" /\ (c.read \/ c.sock = "FAILED")
            BY Zenon, <2>3, <2>8, <1>1, <1>2, <1>4 DEF Dequeued, t
        <3>3. Reading(c, con') /\ con'.input = c.input
            BY ZenonT(60), <3>1, <3>2, <1>2 DEF Reading, IsCon
        <3> QED BY Zenon, <3>3, <2>3, <1>1, ReadingInv
    <2>9. CASE t.kind \in {"keep", "close"}
        <3>1. con' = done(d, t)
            BY <2>4, <2>9
        <3> HIDE DEF d
        <3>2. PICK b, f : /\ f = (IF NeedsClose(d, t) THEN "close" ELSE "keep")
                          /\ CalledBack(b, done(d, t), f, t.of)
                          /\ b.state = "IDLE" /\ b.sock = d.sock /\ b.requests = d.requests
                          /\ b.result = d.result /\ b.queue = d.queue
                          /\ b.retryEvent = d.retryEvent /\ b.input = d.input
                          /\ b.output = d.output /\ b.stack = d.stack
                          /\ b.replying = d.replying /\ b.sends = d.sends
            BY Zenon, <2>1, <2>2, <2>3, DoneCall
        <3>3. /\ f \in {"keep", "close"}
              /\ f = "keep" => t.kind = "keep" /\ Head(con.requests) \notin con.replying
            BY Zenon, <3>2, <2>1, <2>9 DEF NeedsClose
        <3>4. /\ b.sock = c.sock /\ b.requests = c.requests /\ b.result = c.result
              /\ b.queue = c.queue /\ b.retryEvent = c.retryEvent /\ b.output = c.output
              /\ b.stack = c.stack /\ b.replying = c.replying /\ b.sends = c.sends
              /\ b.input = Tail(con.input) /\ CalledBack(b, con', f, t.of)
            BY Zenon, <3>1, <3>2, <2>1, <1>1 DEF Alike, Dequeued
        <3>5. f = "keep" => /\ Head(con.input).kind = "keep" /\ b.input = Tail(con.input)
                            /\ Head(con.requests) \notin con.replying
                            /\ Head(con.queue) = "read"
            BY Zenon, <3>3, <3>4, <1>1 DEF t
        <3>6. CalledBack(b, con', f, Head(con.input).of) /\ b.state = "IDLE"
            BY Zenon, <3>2, <3>4 DEF t
        <3> QED BY Zenon, <3>3, <3>4, <3>5, <3>6, <1>1, <1>4, DoneInv
    <2> QED BY Zenon, <2>2, <2>5, <2>6, <2>7, <2>8, <2>9 DEF Kinds
<1> QED BY Zenon, <1>3, <1>4

LEMMA ReadCBInv ==
    ASSUME IInv, ReadCB
    PROVE  IInv'
<1>1. PICK c : Called("read", c) /\ con' = Handled("read", c)
    BY Zenon, CalledStep DEF ReadCB
<1>2. /\ Dequeued(c) /\ con.stack = <<>> /\ con.queue # <<>> /\ Head(con.queue) = "read"
      /\ custom' = custom /\ made' = made /\ dropped' = dropped /\ peer' = Other(peer)
      /\ Steady(con) /\ IsCon(con)
    BY Zenon, <1>1, CalledDequeued
<1>3. IsCon(c) /\ Alike(c, c) /\ c.state = con.state /\ c.requests = con.requests
    BY Zenon, <1>2 DEF Dequeued, Alike
<1>4. con' = readCB(c)
    BY Zenon, <1>1 DEF Handled
<1>5. CASE con.state = "DISCONNECTED"
    <2>1. con' = fail(c)
        BY <1>3, <1>4, <1>5 DEF readCB
    <2>2. Restarted(c, con') /\ Kept(c, con') /\ Stopped(c, con')
        BY Zenon, <2>1, <1>3, FailResult
    <2> QED BY Zenon, <2>2, <1>1, <1>3, CalledAgain
<1>6. CASE con.state = "IDLE"
    <2>1. con' = reset(c)
        BY <1>3, <1>4, <1>6 DEF readCB
    <2>2. c.requests = <<>> /\ "throws" \in Connects
        BY Zenon, <1>2, <1>3, <1>6 DEF Steady, Connects
    <2>3. Restarted(c, con') /\ Kept(c, con') /\ Stopped(c, con')
        BY Zenon, <2>1, <2>2, <1>3, ResetAndConnect
    <2> QED BY Zenon, <2>3, <1>1, <1>3, CalledAgain
<1>7. CASE con.state = "READING_FIRSTLINE"
    <2>1. con' = readResponse(c)
        BY <1>3, <1>4, <1>7 DEF readCB
    <2> QED BY Zenon, <2>1, <1>1, <1>7, ReadResponseInv
<1>8. CASE con.state \in {"CONNECTING", "READING_BODY", "WRITING"}
    <2>1. con' = c
        BY <1>3, <1>4, <1>8 DEF readCB
    <2> QED BY Zenon, <2>1, <1>2, <1>8, IgnoredInv
<1> QED BY Zenon, <1>2, <1>5, <1>6, <1>7, <1>8 DEF IsCon

LEMMA WriteCBInv ==
    ASSUME IInv, WriteCB
    PROVE  IInv'
<1>1. PICK c : Called("write", c) /\ con' = Handled("write", c)
    BY Zenon, CalledStep DEF WriteCB
<1>2. /\ Dequeued(c) /\ con.stack = <<>> /\ con.queue # <<>> /\ Head(con.queue) = "write"
      /\ custom' = custom /\ made' = made /\ dropped' = dropped /\ peer' = Other(peer)
      /\ Steady(con) /\ IsCon(con)
    BY Zenon, <1>1, CalledDequeued
<1>3. /\ IsCon(c) /\ Alike(c, c) /\ c.state = con.state /\ c.output = con.output
    BY Zenon, <1>2 DEF Dequeued, Alike
<1>4. con' = writeCB(c)
    BY Zenon, <1>1 DEF Handled
<1>5. CASE \/ con.state \in {"CONNECTING", "READING_BODY"}
           \/ con.state = "WRITING" /\ con.output # <<>>
    <2>1. con' = c
        BY <1>3, <1>4, <1>5 DEF writeCB
    <2> QED BY Zenon, <2>1, <1>2, <1>5, IgnoredInv
<1>6. CASE con.state = "WRITING" /\ con.output = <<>>
    <2>1. con' = startRead(c)
        BY <1>3, <1>4, <1>6 DEF writeCB
    <2>2. con' = [c EXCEPT !.read = TRUE, !.state = "READING_FIRSTLINE"]
        BY <2>1 DEF startRead
    <2>3. Reading(c, con') /\ con'.input = c.input
        BY ZenonT(60), <2>2, <1>3 DEF Reading, IsCon
    <2>4. con.state \in Active
        BY Zenon, <1>6 DEF Active
    <2> QED BY Zenon, <2>3, <2>4, <1>2, <1>6, ReadingInv
<1>7. CASE con.state \in {"DISCONNECTED", "IDLE", "READING_FIRSTLINE"}
    <2>1. con' = fail(c)
        BY <1>3, <1>4, <1>7 DEF writeCB
    <2>2. Restarted(c, con') /\ Kept(c, con') /\ Stopped(c, con')
        BY Zenon, <2>1, <1>3, FailResult
    <2> QED BY Zenon, <2>2, <1>1, <1>3, CalledAgain
<1> QED BY Zenon, <1>2, <1>5, <1>6, <1>7 DEF IsCon

LEMMA ErrorCBInv ==
    ASSUME IInv, ErrorCB
    PROVE  IInv'
<1>1. PICK c : Called("error", c) /\ con' = Handled("error", c)
    BY Zenon, CalledStep DEF ErrorCB
<1>2. /\ Dequeued(c) /\ con.stack = <<>> /\ con.queue # <<>> /\ Head(con.queue) = "error"
      /\ custom' = custom /\ made' = made /\ dropped' = dropped /\ peer' = Other(peer)
      /\ Steady(con) /\ IsCon(con)
    BY Zenon, <1>1, CalledDequeued
<1> DEFINE d == [c EXCEPT !.pending = {}, !.refused = FALSE]
           w == [d EXCEPT !.detectClose = FALSE]
<1>3. /\ Dequeued(d) /\ d.queue = c.queue
    BY ZenonT(60), <1>2 DEF Dequeued, IsCon
<1>4. con' = errorCB(c) /\ c.state = con.state /\ c.input = con.input /\ c.requests = con.requests
    BY Zenon, <1>1, <1>2 DEF Handled, Dequeued
<1>5. con' = IF con.state = "DISCONNECTED" THEN d
             ELSE IF con.state = "CONNECTING" /\ c.refused THEN free(d)
             ELSE IF con.state = "CONNECTING" /\ "TIMEOUT" \notin c.pending THEN retry(d)
             ELSE IF con.state = "CONNECTING" THEN fail(d)
             ELSE IF con.state = "READING_BODY" /\ c.pending = {"EOF"} THEN done(d, Head(con.input))
             ELSE IF ~c.detectClose THEN fail(d)
             ELSE IF con.requests = <<>> THEN free(reset(w)) ELSE reset(w)
    BY Zenon, <1>4 DEF errorCB
<1>6. /\ Alike(c, d) /\ IsCon(d) /\ d.requests = con.requests /\ d.input = con.input
      /\ d.detectClose = con.detectClose
    BY Zenon, <1>2, <1>3 DEF Dequeued, Alike
<1> HIDE DEF d
<1>7. CASE con.state = "DISCONNECTED"
    BY Zenon, <1>2, <1>3, <1>5, <1>7, IgnoredInv
<1>8. CASE con' = free(d)
    <2>1. Restarted(d, con') /\ Kept(d, con') /\ Stopped(d, con')
        BY Zenon, <1>6, <1>8, FreeResult
    <2> QED BY Zenon, <2>1, <1>1, <1>6, CalledAgain
<1>9. CASE con' = fail(d)
    <2>1. Restarted(d, con') /\ Kept(d, con') /\ Stopped(d, con')
        BY Zenon, <1>6, <1>9, FailResult
    <2> QED BY Zenon, <2>1, <1>1, <1>6, CalledAgain
<1>10. CASE con' = retry(d) /\ con.state = "CONNECTING"
    <2>1. Restarted(d, con') /\ Kept(d, con')
        BY Zenon, <1>6, <1>10, RetryResult
    <2>2. con.state \in Unconnected
        BY Zenon, <1>10 DEF Unconnected
    <2>3. ~Cancels /\ ~Resubmits => d.requests # <<>>
        BY Zenon, <1>6, <1>10 DEF IInv, Fresh
    <2>4. /\ ~Cancels => "connect" \notin Range(d.queue)
          /\ ~Cancels /\ ~Resubmits => d.queue = <<>> /\ ~d.retryEvent
        BY Zenon, <1>2, <1>3, Dequeue
    <2>5. /\ d.result = con.result /\ d.sends = con.sends /\ d.replying = con.replying
          /\ d.stack = <<>>
        BY Zenon, <1>2, <1>3 DEF Dequeued
    <2>6. \A i \in DOMAIN d.stack : d.stack[i] \in {"keep", "close"} => i = Len(d.stack)
        BY Zenon, <2>5, Nothing
    <2> QED BY Zenon, <2>1, <2>2, <2>3, <2>4, <2>5, <2>6, <1>2, <1>6, AgainInv
<1>11. CASE con.state = "READING_BODY" /\ con' = done(d, Head(con.input))
    <2>1. /\ con.requests # <<>> /\ con.input # <<>> /\ Head(con.input).kind = "stream"
        BY Zenon, <1>2, <1>11 DEF Steady, Active
    <2>2. con.input \in Seq(Response)
        BY Zenon, <1>2 DEF IsCon
    <2>3. Head(con.input).of \in Reqs
        <3>1. Head(con.input) \in Response
            BY <2>1, <2>2, HeadAndTail
        <3> QED BY <3>1 DEF Response
    <2>4. NeedsClose(d, Head(con.input))
        BY Zenon, <2>1 DEF NeedsClose
    <2>5. PICK b, f : /\ f = (IF NeedsClose(d, Head(con.input)) THEN "close" ELSE "keep")
                      /\ CalledBack(b, done(d, Head(con.input)), f, Head(con.input).of)
                      /\ b.state = "IDLE" /\ b.sock = d.sock /\ b.requests = d.requests
                      /\ b.result = d.result /\ b.queue = d.queue
                      /\ b.retryEvent = d.retryEvent /\ b.input = d.input
                      /\ b.output = d.output /\ b.stack = d.stack
                      /\ b.replying = d.replying /\ b.sends = d.sends
        BY Zenon, <2>1, <2>3, <1>6, DoneCall
    <2>6. f = "close" /\ CalledBack(b, con', f, Head(con.input).of)
        BY Zenon, <2>4, <2>5, <1>11
    <2> QED BY Zenon, <2>1, <2>5, <2>6, <1>2, <1>3, <1>11, DoneInv
<1>12. CASE /\ con.state \notin Unconnected /\ c.detectClose
            /\ con' = IF con.requests = <<>> THEN free(reset(w)) ELSE reset(w)
    <2>1. con.requests = <<>>
        <3>1. con.detectClose /\ con.state \notin Active
            BY Zenon, <1>2, <1>12 DEF Dequeued, Steady
        <3>2. con.state = "IDLE"
            BY Zenon, <3>1, <1>2, <1>12 DEF Active, Unconnected, IsCon
        <3> QED BY Zenon, <3>2, <1>2 DEF Steady
    <2>2. Alike(c, w) /\ w.requests = con.requests /\ IsCon(w)
        BY ZenonT(60), <1>6 DEF Alike, IsCon
    <2>3. con' = free(reset(w)) /\ "throws" \in Connects
        BY Zenon, <2>1, <1>12 DEF Connects
    <2> HIDE DEF w
    <2>4. Restarted(w, con') /\ Kept(w, con') /\ Stopped(w, con')
        BY Zenon, <2>1, <2>2, <2>3, ResetAndConnect
    <2> QED BY Zenon, <2>2, <2>4, <1>1, CalledAgain
<1>13. con.state \in Unconnected <=> con.state \in {"DISCONNECTED", "CONNECTING"}
    BY Zenon DEF Unconnected
<1> QED BY Zenon, <1>5, <1>7, <1>8, <1>9, <1>10, <1>11, <1>12, <1>13
--------------------------------------------------------------------------------
(***************************************************************************)
(* The retry timer, and what is left to do after a callback.               *)
(***************************************************************************)
LEMMA RetryEventInv ==
    ASSUME IInv, RetryEvent
    PROVE  IInv'
<1> DEFINE c == [con EXCEPT !.retryEvent = FALSE]
<1>1. PICK x \in Connects : con' = connect(c, x) /\ peer' = Other(peer)
    BY Zenon DEF RetryEvent, Step, Other
<1>2. /\ con.stack = <<>> /\ con.retryEvent
      /\ custom' = custom /\ made' = made /\ dropped' = dropped
      /\ TypeInv /\ IsCon(con) /\ Nested(con) /\ Steady(con) /\ ~Closing(con)
    BY Zenon DEF RetryEvent, IInv, TypeInv, Closing
<1>3. /\ IsCon(c) /\ ~c.retryEvent /\ c.state = con.state /\ c.sock = con.sock
      /\ c.requests = con.requests /\ c.result = con.result /\ c.queue = con.queue
      /\ c.detectClose = con.detectClose /\ c.read = con.read
      /\ c.input = con.input /\ c.output = con.output /\ c.stack = con.stack
      /\ c.replying = con.replying /\ c.sends = con.sends
    BY ZenonT(60), <1>2 DEF IsCon
<1> HIDE DEF c
<1>4. \A i \in DOMAIN c.stack : c.stack[i] \in {"keep", "close"} => i = Len(c.stack)
    BY Zenon, <1>2, <1>3, Nothing
<1>5. ~Cancels /\ ~Resubmits => /\ con.state = "DISCONNECTED" /\ con.requests # <<>>
                                /\ con.queue = <<>>
    BY Zenon, <1>2 DEF IInv, Fresh
<1>6. CASE con.state # "CONNECTING"
    <2>1. Restarted(c, con') /\ Kept(c, con')
        BY Zenon, <1>1, <1>3, <1>6, ConnectResult
    <2>2. ~Cancels => "connect" \notin Range(c.queue)
        BY Zenon, <1>3, <1>6 DEF IInv, Open
    <2>3. ~Cancels /\ ~Resubmits => con.state \in Unconnected
        BY Zenon, <1>5 DEF Unconnected
    <2> QED BY Zenon, <2>1, <2>2, <2>3, <1>1, <1>2, <1>3, <1>4, <1>5, AgainInv
<1>7. CASE con.state = "CONNECTING"
    <2>1. con' = c
        BY <1>1, <1>3, <1>7 DEF connect
    <2>2. Cancels \/ Resubmits
        BY Zenon, <1>5, <1>7
    <2>3. TypeInv' /\ peer' = peer
        BY Zenon, <2>1, <1>1, <1>2, <1>3, SamePeer DEF TypeInv
    <2>4. Settled(c.requests, c.result, made \ dropped)
        BY Zenon, <1>3 DEF IInv
    <2>5. Nested(c) /\ Quiet(c)
        BY Zenon, <1>2, <1>3 DEF Nested, Quiet
    <2>6. Steady(c)
        BY ZenonT(60), <1>2, <1>3, <1>7 DEF Steady, Active, Unconnected, Closing
    <2>7. ~Cancels => Open(c)
        BY Zenon, <1>3 DEF IInv, Open
    <2>8. ~Reenters => Matching(c.result) /\ Flow(c, peer)
        BY ZenonT(60), <1>2, <1>3 DEF IInv, Flow
    <2> QED BY Zenon, <2>1, <2>2, <2>3, <2>4, <2>5, <2>6, <2>7, <2>8, <1>2, Assembled
<1> QED BY Zenon, <1>6, <1>7

\* A callback returns: c has its frame taken off.
Unframed(c) == c = [con EXCEPT !.stack = Tail(con.stack)]

LEMMA Returned ==
    ASSUME IInv, con.stack # <<>>, NEW c, Unframed(c)
    PROVE  /\ IsCon(c) /\ c.stack = Tail(con.stack) /\ c.state = con.state /\ c.sock = con.sock
           /\ c.requests = con.requests /\ c.result = con.result /\ c.queue = con.queue
           /\ c.retryEvent = con.retryEvent
           /\ c.input = con.input /\ c.output = con.output
           /\ c.replying = con.replying /\ c.sends = con.sends
           /\ \A i \in DOMAIN c.stack : c.stack[i] \in {"keep", "close"} => i = Len(c.stack)
           /\ Head(con.stack) \in Frames /\ Head(con.stack) = con.stack[1]
           /\ con.stack[1] \in {"keep", "close"} => c.stack = <<>>
           /\ ~Cancels => "connect" \notin Range(c.queue)
           /\ ~Cancels /\ ~Resubmits => c.queue = <<>> /\ ~c.retryEvent /\ c.stack = <<>>
           /\ TypeInv /\ IsCon(con) /\ Nested(con) /\ Steady(con)
           /\ made \subseteq Reqs /\ dropped \subseteq made
<1>1. /\ TypeInv /\ IsCon(con) /\ Nested(con) /\ Steady(con) /\ con.stack \in Seq(Frames)
      /\ \A i \in DOMAIN con.stack : con.stack[i] \in {"keep", "close"} => i = Len(con.stack)
      /\ made \subseteq Reqs /\ dropped \subseteq made
    BY Zenon DEF IInv, TypeInv, IsCon, Nested
<1>2. /\ Head(con.stack) \in Frames /\ Head(con.stack) = con.stack[1]
      /\ Tail(con.stack) \in Seq(Frames)
      /\ \A i \in DOMAIN Tail(con.stack) :
           Tail(con.stack)[i] \in {"keep", "close"} => i = Len(Tail(con.stack))
      /\ con.stack[1] \in {"keep", "close"} => Tail(con.stack) = <<>>
      /\ Len(con.stack) = 1 => Tail(con.stack) = <<>>
    BY Zenon, <1>1, Below
<1>3. /\ IsCon(c) /\ c.stack = Tail(con.stack) /\ c.state = con.state /\ c.sock = con.sock
      /\ c.requests = con.requests /\ c.result = con.result /\ c.queue = con.queue
      /\ c.retryEvent = con.retryEvent
      /\ c.input = con.input /\ c.output = con.output
      /\ c.replying = con.replying /\ c.sends = con.sends
    BY ZenonT(60), <1>1, <1>2 DEF IsCon, Unframed
<1>4. ~Cancels => "connect" \notin Range(con.queue)
    BY Zenon DEF IInv, Open
<1>5. ~Cancels /\ ~Resubmits => con.queue = <<>> /\ ~con.retryEvent /\ Len(con.stack) = 1
    BY Zenon DEF IInv, Fresh
<1> QED BY Zenon, <1>1, <1>2, <1>3, <1>4, <1>5

\* What was to do ends the connection.
LEMMA ReturnAgain ==
    ASSUME IInv, con.stack # <<>>, peer' = Other(peer),
           custom' = custom, made' = made, dropped' = dropped,
           NEW c, Unframed(c),
           Restarted(c, con'), Kept(c, con'), c.requests # <<>> \/ Stopped(c, con')
    PROVE  IInv'
<1>1. /\ IsCon(c) /\ c.requests = con.requests /\ c.result = con.result
      /\ c.replying = con.replying /\ c.sends = con.sends
      /\ \A i \in DOMAIN c.stack : c.stack[i] \in {"keep", "close"} => i = Len(c.stack)
      /\ ~Cancels => "connect" \notin Range(c.queue)
      /\ ~Cancels /\ ~Resubmits => c.queue = <<>> /\ ~c.retryEvent /\ c.stack = <<>>
    BY Zenon, Returned
<1> QED BY Zenon, <1>1, AgainInv

LEMMA ReturnFree ==
    ASSUME IInv, con.stack # <<>>, con.stack[1] = "free", peer' = Other(peer),
           custom' = custom, made' = made, dropped' = dropped,
           NEW c, Unframed(c), con' = callback(c)
    PROVE  IInv'
<1>1. /\ IsCon(c) /\ c.stack = Tail(con.stack) /\ c.state = con.state /\ c.sock = con.sock
      /\ c.requests = con.requests /\ c.result = con.result /\ c.queue = con.queue
      /\ c.retryEvent = con.retryEvent /\ c.input = con.input /\ c.output = con.output
      /\ c.replying = con.replying /\ c.sends = con.sends
      /\ Head(con.stack) = "free" /\ Nested(con) /\ IsCon(con)
    BY Zenon, Returned
<1>2. con.state \in Unconnected /\ con.stack[1] # "close"
    BY Zenon, <1>1 DEF Nested
<1>3. Settled(c.requests, c.result, made' \ dropped')
    BY Zenon, <1>1 DEF IInv
<1>4. CASE con.requests = <<>>
    <2>1. con' = c
        BY Zenon, <1>1, <1>4 DEF callback
    <2> QED BY Zenon, <2>1, <1>1, <1>2, <1>3, <1>4, UnwindInv
<1>5. CASE con.requests # <<>>
    <2>1. con' = onResponse(c, "free", Head(c.requests))
        BY Zenon, <1>1, <1>5 DEF callback
    <2>2. c.requests \in Seq(Reqs) /\ c.requests # <<>> /\ con.stack \in Seq(Frames)
        BY Zenon, <1>1, <1>5 DEF IsCon
    <2>3. Head(c.requests) \in Reqs /\ "free" \in Frames
        BY <2>2, HeadAndTail DEF Frames
    <2>4. CalledBack(c, con', "free", Head(c.requests))
        BY Zenon, <2>1, <2>2, <2>3, <1>1, CallResult
    <2>5. <<Head(con.stack)>> \o Tail(con.stack) = con.stack
        BY Zenon, <2>2, Popped
    <2>6. /\ con'.stack = con.stack /\ con'.requests = Tail(con.requests)
          /\ Settled(con'.requests, con'.result, made' \ dropped')
          /\ Matching(con.result) => Matching(con'.result)
        BY Zenon, <2>4, <2>5, <1>1, <1>3 DEF CalledBack
    <2>7. /\ IsCon(con') /\ con'.state = con.state /\ con'.sock = con.sock
          /\ con'.queue = con.queue /\ con'.retryEvent = con.retryEvent
          /\ con'.input = con.input /\ con'.output = con.output
          /\ con'.sends = con.sends /\ con'.replying = con.replying
        BY Zenon, <2>4, <1>1 DEF CalledBack
    <2> QED BY Zenon, <2>6, <2>7, <1>2, <1>5, UnwindInv
<1> QED BY Zenon, <1>4, <1>5

\* connect() does nothing while the connection is made.
LEMMA ConnectAlready ==
    ASSUME NEW c, NEW x, c.state = "CONNECTING"
    PROVE  connect(c, x) = c
BY DEF connect

LEMMA ReturnFail ==
    ASSUME IInv, con.stack # <<>>, con.stack[1] = "fail", peer' = Other(peer),
           custom' = custom, made' = made, dropped' = dropped, NEW x \in Connects,
           NEW c, Unframed(c), con' = failed(c, x)
    PROVE  IInv'
<1>1. /\ IsCon(c) /\ c.stack = Tail(con.stack) /\ c.state = con.state /\ c.sock = con.sock
      /\ c.requests = con.requests /\ c.result = con.result /\ c.queue = con.queue
      /\ c.retryEvent = con.retryEvent /\ c.input = con.input /\ c.output = con.output
      /\ c.replying = con.replying /\ c.sends = con.sends /\ Nested(con)
    BY Zenon, Returned
<1>2. con.state \in Unconnected /\ con.stack[1] # "close"
    BY Zenon, <1>1 DEF Nested
<1>3. CASE con.requests = <<>>
    <2>1. con' = reset(c) /\ c.requests = <<>>
        BY Zenon, <1>1, <1>3 DEF failed
    <2>2. Restarted(c, con') /\ Kept(c, con') /\ Stopped(c, con')
        BY Zenon, <2>1, <1>1, ResetAndConnect
    <2> QED BY Zenon, <2>2, ReturnAgain
<1>4. con.requests # <<>> => con' = connect(c, x)
    BY Zenon, <1>1 DEF failed
<1>5. CASE con.requests # <<>> /\ con.state = "CONNECTING"
    <2>1. con' = c
        BY Zenon, <1>1, <1>4, <1>5, ConnectAlready
    <2>2. Settled(con'.requests, con'.result, made' \ dropped')
        BY Zenon, <2>1, <1>1 DEF IInv
    <2> QED BY Zenon, <2>1, <2>2, <1>1, <1>2, <1>5, UnwindInv
<1>6. CASE con.requests # <<>> /\ con.state # "CONNECTING"
    <2>1. Restarted(c, con') /\ Kept(c, con') /\ c.requests # <<>>
        BY Zenon, <1>1, <1>4, <1>6, ConnectResult
    <2> QED BY Zenon, <2>1, ReturnAgain
<1> QED BY Zenon, <1>3, <1>5, <1>6

LEMMA ReturnClose ==
    ASSUME IInv, con.stack # <<>>, peer' = Other(peer),
           custom' = custom, made' = made, dropped' = dropped, NEW x \in Connects,
           NEW c, Unframed(c), con' = finish(c, TRUE, x)
    PROVE  IInv'
<1>1. IsCon(c)
    BY Zenon, Returned
<1>2. con' = IF c.requests # <<>> THEN dispatch(reset(c), x) ELSE free(reset(c))
    BY Zenon DEF finish
<1>3. ~isConnected(reset(c))
    BY Zenon, <1>1, ResetResult DEF isConnected
<1>4. con' = IF c.requests # <<>> THEN connect(reset(c), x) ELSE free(reset(c))
    BY Zenon, <1>2, <1>3 DEF dispatch
<1>5. Restarted(c, con') /\ Kept(c, con') /\ (c.requests # <<>> \/ Stopped(c, con'))
    BY Zenon, <1>1, <1>4, ResetAndConnect
<1> QED BY Zenon, <1>5, ReturnAgain

LEMMA DetectResult ==
    ASSUME NEW c, IsCon(c), NEW d, d = detect(c)
    PROVE  /\ IsCon(d) /\ d.stack = c.stack /\ d.requests = c.requests
           /\ d.read /\ d.detectClose /\ d.state = c.state /\ d.sock = c.sock
           /\ d.queue = c.queue /\ d.retryEvent = c.retryEvent /\ d.input = c.input
           /\ d.output = c.output /\ d.sends = c.sends /\ d.replying = c.replying
           /\ d.result = c.result
<1>1. d = [c EXCEPT !.detectClose = TRUE, !.read = TRUE]
    BY DEF detect
<1> QED BY ZenonT(60), <1>1 DEF IsCon

LEMMA ReturnKeep ==
    ASSUME IInv, con.stack # <<>>, con.stack[1] = "keep", peer' = Other(peer),
           custom' = custom, made' = made, dropped' = dropped, NEW x \in Connects,
           NEW c, Unframed(c), con' = finish(c, FALSE, x)
    PROVE  IInv'
<1>1. /\ IsCon(c) /\ c.stack = Tail(con.stack) /\ c.state = con.state /\ c.sock = con.sock
      /\ c.requests = con.requests /\ c.result = con.result /\ c.queue = con.queue
      /\ c.retryEvent = con.retryEvent /\ c.input = con.input /\ c.output = con.output
      /\ c.replying = con.replying /\ c.sends = con.sends /\ c.stack = <<>>
      /\ \A i \in DOMAIN c.stack : c.stack[i] \in {"keep", "close"} => i = Len(c.stack)
      /\ ~Cancels => "connect" \notin Range(c.queue)
      /\ ~Cancels /\ ~Resubmits => c.queue = <<>> /\ ~c.retryEvent
      /\ TypeInv /\ IsCon(con) /\ Nested(con) /\ Steady(con)
      /\ made' \subseteq Reqs /\ dropped' \subseteq made'
    BY Zenon, Returned
<1>2. con' = IF c.requests = <<>> THEN detect(c)
             ELSE IF isConnected(c) THEN write(c) ELSE connect(c, x)
    BY Zenon DEF finish, dispatch
<1>3. Settled(c.requests, c.result, made' \ dropped')
    BY Zenon, <1>1 DEF IInv
<1>4. CASE con.requests = <<>>
    <2>1. con' = detect(c)
        BY Zenon, <1>1, <1>2, <1>4
    <2>2. /\ IsCon(con') /\ con'.stack = c.stack /\ con'.requests = c.requests
          /\ con'.read /\ con'.detectClose /\ con'.state = c.state /\ con'.sock = c.sock
          /\ con'.queue = c.queue /\ con'.retryEvent = c.retryEvent /\ con'.input = c.input
          /\ con'.output = c.output /\ con'.sends = c.sends /\ con'.replying = c.replying
          /\ con'.result = c.result
        BY Zenon, <2>1, <1>1, DetectResult
    <2>3. /\ IsCon(con') /\ con'.stack = <<>> /\ con'.requests = <<>>
          /\ con'.read /\ con'.detectClose /\ con'.state = con.state /\ con'.sock = con.sock
          /\ con'.queue = con.queue /\ con'.retryEvent = con.retryEvent
          /\ con'.input = con.input /\ con'.output = con.output /\ con'.sends = con.sends
          /\ con'.replying = con.replying /\ con'.result = con.result
        BY Zenon, <2>2, <1>1, <1>4
    <2> QED BY Zenon, <2>3, <1>4, DetectInv
<1>5. CASE con.requests # <<>> /\ con.state = "CONNECTING"
    <2>1. con' = c
        <3>1. con' = connect(c, x)
            BY Zenon, <1>1, <1>2, <1>5 DEF isConnected
        <3> QED BY Zenon, <3>1, <1>1, <1>5, ConnectAlready
    <2>2. con.state \in Unconnected
        BY Zenon, <1>5 DEF Unconnected
    <2> QED BY Zenon, <2>1, <2>2, <1>1, <1>3, <1>5, UnwindInv
<1>6. CASE con.requests # <<>> /\ con.state = "DISCONNECTED"
    <2>1. con' = connect(c, x)
        BY Zenon, <1>1, <1>2, <1>6 DEF isConnected
    <2>2. Restarted(c, con') /\ Kept(c, con') /\ c.requests # <<>>
        BY Zenon, <2>1, <1>1, <1>6, ConnectResult
    <2> QED BY Zenon, <2>2, ReturnAgain
<1>7. CASE con.requests # <<>> /\ con.state \notin Unconnected
    <2>1. con' = write(c)
        BY Zenon, <1>1, <1>2, <1>7 DEF isConnected, Unconnected
    <2>2. Written(c, con')
        BY Zenon, <2>1, <1>1, <1>7, WriteResult
    <2>3. con'.requests = c.requests /\ con'.result = c.result
        BY Zenon, <2>2 DEF Written
    <2>4. c.sock # "IDLE" /\ (c.sock = "FAILED" => "error" \in Range(c.queue))
        BY Zenon, <1>1, <1>7 DEF Steady, Closing, Unconnected
    <2>5. ASSUME ~Reenters
          PROVE  /\ c.output = <<>> /\ Matching(con'.result)
                 /\ c.input = <<>> /\ peer.got = <<>> /\ peer.replies = <<>>
        <3>1. Matching(con.result) /\ con.state # "WRITING" /\ Flow(con, peer)
            BY Zenon, <2>5 DEF IInv, Quiet, Closing
        <3>2. con.state \notin Active
            BY Zenon, <3>1, <1>1 DEF Active, Nested
        <3> QED BY Zenon, <3>1, <3>2, <2>3, <1>1 DEF Flow, Steady
    <2>6. ~Cancels => c.sock \in {"SOCK_READY", "FAILED"}
        BY Zenon, <1>1, <1>7 DEF IInv, Open
    <2>7. ASSUME ~Cancels, ~Resubmits, ~Reenters
          PROVE  /\ \A r \in Reqs : c.sends[r] <= Limit(c, r) /\ (r \notin made' => Unsent(c, r))
                 /\ \A i \in DOMAIN c.requests : i > 1 => Unsent(c, c.requests[i])
                 /\ c.sends[Head(c.requests)] < Limit(c, Head(c.requests))
        <3>1. Once(con, made)
            BY Zenon, <2>7 DEF IInv
        <3>2. \A r : Limit(c, r) = Limit(con, r) /\ (Unsent(con, r) => Unsent(c, r))
            BY Zenon, <1>1 DEF Limit, Unsent
        <3>3. \A i \in DOMAIN c.requests : Unsent(c, c.requests[i])
            BY Zenon, <3>1, <3>2, <1>1 DEF Once
        <3>4. con.requests \in Seq(Reqs)
            BY Zenon, <1>1 DEF IsCon
        <3>5. Head(con.requests) = con.requests[1] /\ 1 \in DOMAIN con.requests
            BY <3>4, <1>7, HeadAndTail
        <3>6. Unsent(c, Head(c.requests))
            BY Zenon, <3>3, <3>5, <1>1
        <3>7. c.sends[Head(c.requests)] < Limit(c, Head(c.requests))
            BY <3>6 DEF Unsent, Limit
        <3> QED BY Zenon, <3>1, <3>2, <3>3, <3>7, <1>1 DEF Once
    <2> QED BY ZenonT(60), <2>2, <2>3, <2>4, <2>5, <2>6, <2>7, <1>1, <1>3, Nothing, WrittenInv
<1> QED BY Zenon, <1>4, <1>5, <1>6, <1>7 DEF Unconnected

LEMMA ReturnInv ==
    ASSUME IInv, Return
    PROVE  IInv'
<1> DEFINE c == [con EXCEPT !.stack = Tail(con.stack)]
<1>1. PICK x \in Connects : con' = Resumed(c, Head(con.stack), x) /\ peer' = Other(peer)
    BY Zenon DEF Return, Step, Other
<1>2. con.stack # <<>> /\ custom' = custom /\ made' = made /\ dropped' = dropped
    BY Zenon DEF Return
<1>0. Unframed(c)
    BY DEF Unframed
<1> HIDE DEF c
<1>3. Head(con.stack) \in Frames /\ Head(con.stack) = con.stack[1]
    BY Zenon, <1>0, <1>2, Returned
<1>4. CASE con.stack[1] = "free"
    <2>1. con' = callback(c)
        BY <1>1, <1>3, <1>4 DEF Resumed
    <2> QED BY Zenon, <2>1, <1>0, <1>1, <1>2, <1>4, ReturnFree
<1>5. CASE con.stack[1] = "fail"
    <2>1. con' = failed(c, x)
        BY <1>1, <1>3, <1>5 DEF Resumed
    <2> QED BY Zenon, <2>1, <1>0, <1>1, <1>2, <1>5, ReturnFail
<1>6. CASE con.stack[1] = "keep"
    <2>1. con' = finish(c, FALSE, x)
        BY Zenon, <1>1, <1>3, <1>6 DEF Resumed
    <2> QED BY Zenon, <2>1, <1>0, <1>1, <1>2, <1>6, ReturnKeep
<1>7. CASE con.stack[1] = "close"
    <2>1. con' = finish(c, TRUE, x)
        BY Zenon, <1>1, <1>3, <1>7 DEF Resumed
    <2> QED BY Zenon, <2>1, <1>0, <1>1, <1>2, <1>7, ReturnClose
<1> QED BY Zenon, <1>3, <1>4, <1>5, <1>6, <1>7 DEF Frames

LEMMA ThrowInv ==
    ASSUME IInv, Throw
    PROVE  IInv'
<1> DEFINE c == [con EXCEPT !.stack = Tail(con.stack)]
<1>1. /\ con' = free(c) /\ peer' = Other(peer) /\ con.stack # <<>>
      /\ custom' = custom /\ made' = made /\ dropped' = dropped
    BY Zenon DEF Throw, Step, Other
<1>0. Unframed(c)
    BY DEF Unframed
<1> HIDE DEF c
<1>2. IsCon(c)
    BY Zenon, <1>0, <1>1, Returned
<1>3. Restarted(c, con') /\ Kept(c, con') /\ Stopped(c, con')
    BY Zenon, <1>1, <1>2, FreeResult
<1> QED BY Zenon, <1>0, <1>1, <1>3, ReturnAgain
--------------------------------------------------------------------------------
(***************************************************************************)
(* Requests are made and cancelled.                                        *)
(***************************************************************************)
LEMMA AppendedBehind ==
    ASSUME NEW S, NEW s \in Seq(S), NEW e \in S
    PROVE  /\ Append(s, e) \in Seq(S) /\ Append(s, e) # <<>>
           /\ s # <<>> => Head(Append(s, e)) = Head(s)
           /\ s = <<>> => Append(s, e) = <<e>>
<1>1. ASSUME s # <<>> PROVE Head(Append(s, e)) = Head(s)
    <2>1. Len(s) \in Nat \ {0} /\ Head(s) = s[1]
        BY <1>1, HeadAndTail
    <2>2. Append(s, e) \in Seq(S) /\ Append(s, e) # <<>> /\ Append(s, e)[1] = s[1]
        BY <2>1, Appended
    <2>3. Head(Append(s, e)) = Append(s, e)[1]
        BY <2>2, HeadAndTail
    <2> QED BY Zenon, <2>1, <2>2, <2>3
<1>2. Append(<<>>, e) = <<e>>
    OBVIOUS
<1>3. Append(s, e) \in Seq(S) /\ Append(s, e) # <<>>
    BY Appended
<1> QED BY Zenon, <1>1, <1>2, <1>3

\* A request is appended: c is con with r at the end of its queue.
Queued(c, r) == c = [con EXCEPT !.requests = Append(con.requests, r)]

LEMMA AppendedRequest ==
    ASSUME IInv, NEW r \in Reqs, r \notin made, made' = made \cup {r}, dropped' = dropped,
           NEW c, Queued(c, r)
    PROVE  /\ IsCon(c) /\ c.requests = Append(con.requests, r) /\ c.requests # <<>>
           /\ c.state = con.state /\ c.sock = con.sock /\ c.result = con.result
           /\ c.queue = con.queue /\ c.retryEvent = con.retryEvent
           /\ c.detectClose = con.detectClose /\ c.read = con.read
           /\ c.input = con.input /\ c.output = con.output /\ c.stack = con.stack
           /\ c.replying = con.replying /\ c.sends = con.sends
           /\ Settled(c.requests, c.result, made' \ dropped')
           /\ made' \subseteq Reqs /\ dropped' \subseteq made'
           /\ con.requests # <<>> => Head(c.requests) = Head(con.requests)
           /\ con.requests = <<>> => c.requests = <<r>>
<1>1. /\ IsCon(con) /\ con.requests \in Seq(Reqs) /\ con.result \in [Reqs -> Seq(Reqs)]
      /\ made \subseteq Reqs /\ dropped \subseteq made
      /\ Settled(con.requests, con.result, made \ dropped)
    BY Zenon DEF IInv, TypeInv, IsCon
<1> DEFINE q == Append(con.requests, r)
<1>2. q \in Seq(Reqs) /\ q # <<>>
    BY Zenon, <1>1, AppendedBehind
<1>3. Settled(q, con.result, (made \ dropped) \cup {r})
    <2>1. r \notin made \ dropped
        BY Zenon
    <2> QED BY Zenon, <2>1, <1>1, SettleNew
<1>4. made' \ dropped' = (made \ dropped) \cup {r}
    BY <1>1
<1>5. con.requests # <<>> => Head(q) = Head(con.requests)
    BY Zenon, <1>1, AppendedBehind
<1>6. con.requests = <<>> => q = <<r>>
    BY Zenon, <1>1, AppendedBehind
<1>7. made' \subseteq Reqs /\ dropped' \subseteq made'
    BY <1>1
<1> HIDE DEF q
<1>8. c = [con EXCEPT !.requests = q]
    BY DEF q, Queued
<1>9. /\ IsCon(c) /\ c.requests = q
      /\ c.state = con.state /\ c.sock = con.sock /\ c.result = con.result
      /\ c.queue = con.queue /\ c.retryEvent = con.retryEvent
      /\ c.detectClose = con.detectClose /\ c.read = con.read
      /\ c.input = con.input /\ c.output = con.output /\ c.stack = con.stack
      /\ c.replying = con.replying /\ c.sends = con.sends
    BY ZenonT(60), <1>1, <1>2, <1>8 DEF IsCon
<1>10. Settled(c.requests, c.result, made' \ dropped')
    BY Zenon, <1>3, <1>4, <1>9
<1> QED BY Zenon, <1>2, <1>5, <1>6, <1>7, <1>9, <1>10 DEF q

\* The new request was not sent, nor in sendError().
LEMMA AppendedUnsent ==
    ASSUME NEW c, IsCon(c), NEW M, Once(c, M), NEW r \in Reqs, r \notin M, NEW i,
           i \in DOMAIN Append(c.requests, r), i > 1 \/ c.requests = <<>> \/ c.state \in Unconnected
    PROVE  Unsent(c, Append(c.requests, r)[i])
<1>1. c.requests \in Seq(Reqs)
    BY Zenon DEF IsCon
<1>2. /\ DOMAIN Append(c.requests, r) = 1..(Len(c.requests) + 1) /\ Len(c.requests) \in Nat
      /\ DOMAIN c.requests = 1..Len(c.requests)
      /\ Append(c.requests, r)[Len(c.requests) + 1] = r
      /\ \A j \in 1..Len(c.requests) : Append(c.requests, r)[j] = c.requests[j]
      /\ c.requests = <<>> => Len(c.requests) = 0
    BY <1>1, Appended
<1>3. CASE i = Len(c.requests) + 1
    BY Zenon, <1>2, <1>3 DEF Once
<1>4. CASE i # Len(c.requests) + 1
    <2>1. i \in 1..Len(c.requests)
        BY <1>2, <1>4
    <2>2. c.requests # <<>>
        BY <2>1, <1>2
    <2> QED BY Zenon, <2>1, <2>2, <1>2 DEF Once
<1> QED BY Zenon, <1>3, <1>4

\* Behind others, or while the connection is made, a request just waits.
LEMMA QueuedInv ==
    ASSUME IInv, NEW r \in Reqs, r \notin made, made' = made \cup {r}, dropped' = dropped,
           custom' = custom, peer' = Other(peer),
           Queued(con', r),
           con.requests # <<>> \/ con.state = "CONNECTING"
    PROVE  IInv'
<1> DEFINE c == con'
<1>1. /\ IsCon(c) /\ c.requests = Append(con.requests, r) /\ c.requests # <<>>
      /\ c.state = con.state /\ c.sock = con.sock /\ c.result = con.result
      /\ c.queue = con.queue /\ c.retryEvent = con.retryEvent
      /\ c.detectClose = con.detectClose /\ c.read = con.read
      /\ c.input = con.input /\ c.output = con.output /\ c.stack = con.stack
      /\ c.replying = con.replying /\ c.sends = con.sends
      /\ Settled(c.requests, c.result, made' \ dropped')
      /\ made' \subseteq Reqs /\ dropped' \subseteq made'
      /\ con.requests # <<>> => Head(c.requests) = Head(con.requests)
    BY ZenonT(60), AppendedRequest
<1>2. TypeInv /\ IsCon(con) /\ Nested(con) /\ Steady(con)
    BY Zenon DEF IInv, TypeInv
<1>3. TypeInv' /\ peer' = peer
    BY Zenon, <1>1, <1>2, SamePeer
<1> HIDE DEF c
<1>4. Nested(c)
    BY Zenon, <1>1, <1>2 DEF Nested
<1>5. Steady(c)
    <2>1. ~(con.state = "IDLE" /\ con.stack = <<>>)
        BY Zenon, <1>2 DEF Steady
    <2>2. con.state = "DISCONNECTED" => con.stack # <<>> \/ con.retryEvent
        BY Zenon, <1>2 DEF Steady
    <2>3. Closing(con) => Closing(c)
        BY Zenon, <1>1 DEF Closing
    <2> QED BY ZenonT(60), <2>1, <2>2, <2>3, <1>1, <1>2 DEF Steady
<1>6. ~Cancels => Open(c)
    BY Zenon, <1>1 DEF IInv, Open
<1>7. ~Cancels /\ ~Resubmits => Fresh(c)
    BY ZenonT(60), <1>1 DEF IInv, Fresh
<1>8. con.state \in Active => con.requests # <<>>
    BY Zenon, <1>2 DEF Steady
<1>9. ASSUME ~Cancels, ~Resubmits, ~Reenters PROVE Once(c, made')
    <2>1. Once(con, made)
        BY Zenon, <1>9 DEF IInv
    <2>2. \A s : Limit(c, s) = Limit(con, s) /\ (Unsent(con, s) => Unsent(c, s))
        BY Zenon, <1>1 DEF Limit, Unsent
    <2>3. \A s \in Reqs : s \notin made' => s \notin made
        BY Zenon
    <2>4. ASSUME NEW i \in DOMAIN c.requests,
                 i > 1 \/ c.state \in Unconnected \/ c.stack # <<>>
          PROVE  Unsent(c, c.requests[i])
        <3>1. CASE i > 1 \/ con.requests = <<>> \/ con.state \in Unconnected
            <4>1. Unsent(con, Append(con.requests, r)[i])
                BY Zenon, <3>1, <2>1, <1>1, <1>2, AppendedUnsent
            <4> QED BY Zenon, <4>1, <2>2, <1>1
        <3>2. CASE i <= 1 /\ con.requests # <<>> /\ con.stack # <<>>
            <4>1. con.requests \in Seq(Reqs)
                BY Zenon, <1>2 DEF IsCon
            <4>2. i \in 1..(Len(con.requests) + 1) /\ Len(con.requests) \in Nat
                BY <4>1, <1>1, Appended
            <4>3. i \in DOMAIN con.requests /\ Append(con.requests, r)[i] = con.requests[i]
                BY <4>1, <4>2, <3>2, Appended
            <4> QED BY Zenon, <4>3, <3>2, <2>1, <2>2, <1>1 DEF Once
        <3>3. i \in Nat
            <4>1. con.requests \in Seq(Reqs)
                BY Zenon, <1>2 DEF IsCon
            <4> QED BY <4>1, <1>1, Appended
        <3>4. i > 1 \/ i <= 1
            BY <3>3
        <3> QED BY Zenon, <3>1, <3>2, <3>4, <2>4, <1>1
    <2>5. c.output # <<>> => /\ c.output = <<Head(c.requests)>>
                             /\ c.sends[Head(c.requests)] < Limit(c, Head(c.requests))
        <3>1. con.output # <<>> => con.requests # <<>>
            BY Zenon, <1>2 DEF Steady, Active
        <3> QED BY Zenon, <3>1, <2>1, <2>2, <1>1 DEF Once
    <2> QED BY Zenon, <2>1, <2>2, <2>3, <2>4, <2>5, <1>1 DEF Once
<1>10. ASSUME ~Reenters
       PROVE  Matching(c.result) /\ Quiet(c) /\ (Closing(c) \/ Flow(c, peer))
    <2>1. Matching(c.result) /\ Quiet(c) /\ (Closing(con) => Closing(c))
        BY Zenon, <1>1, <1>10 DEF IInv, Quiet, Closing
    <2>2. CASE Flow(con, peer) /\ con.state \in Active
        BY ZenonT(60), <2>1, <2>2, <1>1, <1>8 DEF Flow
    <2>3. CASE Flow(con, peer) /\ con.state \notin Active
        <3>1. /\ c.state \notin Active /\ c.input = <<>> /\ c.output = <<>>
              /\ peer.got = <<>> /\ peer.replies = <<>>
            BY Zenon, <2>3, <1>1, <1>2 DEF Flow, Steady, Active
        <3> QED BY Zenon, <3>1, <2>1, NothingFlows
    <2> QED BY Zenon, <2>1, <2>2, <2>3, <1>10 DEF IInv
<1> QED BY Zenon, <1>1, <1>3, <1>4, <1>5, <1>6, <1>7, <1>9, <1>10, Assembled DEF c

LEMMA MakeRequestInv ==
    ASSUME IInv, NEW r \in Reqs, MakeRequest(r)
    PROVE  IInv'
<1> DEFINE c == [con EXCEPT !.requests = Append(con.requests, r)]
<1>1. PICK x \in Connects : con' = makeRequest(con, r, x) /\ peer' = Other(peer)
    BY Zenon DEF MakeRequest, Step, Other
<1>2. /\ r \notin made /\ MayMake
      /\ made' = made \cup {r} /\ dropped' = dropped /\ custom' = custom
      /\ TypeInv /\ IsCon(con) /\ Nested(con) /\ Steady(con)
    BY Zenon DEF MakeRequest, IInv, TypeInv
<1>3. con' = IF con.requests = <<>> THEN dispatch(c, x) ELSE c
    BY Zenon, <1>1 DEF makeRequest
<1>0. Queued(c, r)
    BY DEF Queued
<1> HIDE DEF c
<1>4. /\ IsCon(c) /\ c.requests = Append(con.requests, r) /\ c.requests # <<>>
      /\ c.state = con.state /\ c.sock = con.sock /\ c.result = con.result
      /\ c.queue = con.queue /\ c.retryEvent = con.retryEvent
      /\ c.detectClose = con.detectClose /\ c.read = con.read
      /\ c.input = con.input /\ c.output = con.output /\ c.stack = con.stack
      /\ c.replying = con.replying /\ c.sends = con.sends
      /\ Settled(c.requests, c.result, made' \ dropped')
      /\ made' \subseteq Reqs /\ dropped' \subseteq made'
      /\ con.requests = <<>> => c.requests = <<r>>
    BY ZenonT(60), <1>0, <1>2, AppendedRequest
<1>5. CASE con.requests # <<>>
    BY Zenon, <1>0, <1>1, <1>2, <1>3, <1>5, QueuedInv
<1>6. \A i \in DOMAIN c.stack : c.stack[i] \in {"keep", "close"} => i = Len(c.stack)
    BY Zenon, <1>2, <1>4 DEF Nested
<1>7. con.stack # <<>> => /\ con.stack[1] = Head(con.stack) /\ Head(con.stack) \in Frames
    BY <1>2, HeadAndTail DEF IsCon
<1>8. ASSUME con.requests = <<>>, ~Cancels, ~Resubmits, ~Reenters
      PROVE  /\ \A s \in Reqs : c.sends[s] <= Limit(c, s) /\ (s \notin made' => Unsent(c, s))
             /\ \A i \in DOMAIN c.requests : Unsent(c, c.requests[i])
             /\ Unsent(c, Head(c.requests))
    <2>1. Once(con, made)
        BY Zenon, <1>8 DEF IInv
    <2>2. \A s : Limit(c, s) = Limit(con, s) /\ (Unsent(con, s) => Unsent(c, s))
        BY Zenon, <1>4 DEF Limit, Unsent
    <2>3. \A s \in Reqs : c.sends[s] <= Limit(c, s) /\ (s \notin made' => Unsent(c, s))
        BY Zenon, <2>1, <2>2, <1>2, <1>4 DEF Once
    <2>4. Unsent(c, r)
        BY Zenon, <2>1, <2>2, <1>2 DEF Once
    <2>5. Head(<<r>>) = r /\ \A i \in DOMAIN <<r>> : <<r>>[i] = r
        OBVIOUS
    <2> QED BY Zenon, <2>3, <2>4, <2>5, <1>4, <1>8
<1>9. CASE con.requests = <<>> /\ con.state = "CONNECTING"
    <2>1. con' = c
        <3>1. con' = connect(c, x)
            BY Zenon, <1>3, <1>4, <1>9 DEF dispatch, isConnected
        <3> QED BY Zenon, <3>1, <1>4, <1>9, ConnectAlready
    <2> QED BY Zenon, <2>1, <1>0, <1>1, <1>2, <1>9, QueuedInv
<1>10. CASE con.requests = <<>> /\ con.state = "DISCONNECTED"
    <2>1. con' = connect(c, x)
        BY Zenon, <1>3, <1>4, <1>10 DEF dispatch, isConnected
    <2>2. Restarted(c, con') /\ Kept(c, con')
        BY Zenon, <2>1, <1>4, <1>10, ConnectResult
    <2>3. Settled(con'.requests, con'.result, made' \ dropped')
        BY Zenon, <2>2, <1>4 DEF Kept
    <2>4. ~Reenters => Matching(con'.result)
        BY Zenon, <2>2, <1>4 DEF Kept, IInv
    <2>5. ~Cancels => "connect" \notin Range(c.queue)
        BY Zenon, <1>4, <1>10 DEF IInv, Open
    <2>6. ASSUME ~Cancels, ~Resubmits
          PROVE  c.queue = <<>> /\ ~c.retryEvent /\ c.stack = <<>>
        <3>1. con.queue = <<>> /\ ~con.retryEvent
            BY Zenon, <2>6, <1>10 DEF IInv, Fresh
        <3>2. ASSUME con.stack # <<>> PROVE FALSE
            <4>1. Head(con.stack) \notin {"keep", "close"}
                BY Zenon, <3>2, <2>6, <1>7, <1>10 DEF IInv, Fresh
            <4>2. "resubmit" \in custom
                BY Zenon, <4>1, <3>2, <1>2 DEF MayMake
            <4> QED BY Zenon, <4>2, <2>6 DEF Resubmits
        <3> QED BY Zenon, <3>1, <3>2, <1>4
    <2>7. ASSUME ~Cancels, ~Resubmits, ~Reenters
          PROVE  \A i \in DOMAIN con'.requests : Unsent(c, con'.requests[i])
        <3>1. CASE Waiting(c, con')
            <4>1. con'.requests = c.requests
                BY Zenon, <3>1 DEF Waiting
            <4> QED BY Zenon, <4>1, <2>7, <1>8, <1>10
        <3>2. CASE Stopped(c, con')
            <4>1. con'.requests = Tail(<<r>>)
                BY Zenon, <3>2, <1>4, <1>10 DEF Stopped
            <4>2. Tail(<<r>>) = <<>>
                OBVIOUS
            <4> QED BY Zenon, <4>1, <4>2, Nothing
        <3> QED BY Zenon, <3>1, <3>2, <2>2 DEF Restarted
    <2> QED BY Zenon, <2>2, <2>3, <2>4, <2>5, <2>6, <2>7, <1>1, <1>2, <1>4, <1>6, <1>8, <1>10,
               RestartInv
<1>11. CASE con.requests = <<>> /\ con.state \notin Unconnected
    <2>1. con' = write(c)
        BY Zenon, <1>3, <1>4, <1>11 DEF dispatch, isConnected, Unconnected
    <2>2. Written(c, con')
        BY Zenon, <2>1, <1>4, WriteResult
    <2>3. con'.requests = c.requests /\ con'.result = c.result
        BY Zenon, <2>2 DEF Written
    <2>4. con.state \notin Active /\ con.state # "WRITING" /\ con.output = <<>>
        BY Zenon, <1>2, <1>11 DEF Steady, Active
    <2>5. con.sock # "IDLE" /\ (con.sock = "FAILED" => Closing(c) \/ "error" \in Range(c.queue))
        BY Zenon, <1>2, <1>4, <1>11 DEF Steady, Unconnected, Closing
    <2>6. c.stack # <<>> => c.stack[1] \in {"keep", "close"}
        BY Zenon, <1>2, <1>4, <1>11 DEF Nested
    <2>7. ASSUME ~Reenters
          PROVE  /\ c.stack = <<>> /\ Matching(con'.result)
                 /\ c.input = <<>> /\ peer.got = <<>> /\ peer.replies = <<>>
        <3>1. con.stack = <<>>
            <4>1. ASSUME con.stack # <<>> PROVE FALSE
                <5>1. "reenter" \in custom
                    BY Zenon, <4>1, <2>6, <1>2, <1>4, <1>7 DEF MayMake
                <5> QED BY Zenon, <5>1, <2>7 DEF Reenters
            <4> QED BY Zenon, <4>1
        <3>2. Matching(con.result) /\ Flow(con, peer)
            BY Zenon, <3>1, <2>7 DEF IInv, Closing
        <3> QED BY Zenon, <3>1, <3>2, <2>3, <2>4, <1>4 DEF Flow
    <2>8. ~Cancels => c.sock \in {"SOCK_READY", "FAILED"} /\ "connect" \notin Range(c.queue)
        BY Zenon, <1>4, <1>11 DEF IInv, Open, Unconnected
    <2>9. ASSUME ~Cancels, ~Resubmits
          PROVE  /\ ~c.retryEvent /\ Len(c.queue) <= 1
                 /\ c.queue # <<>> => \/ c.queue[1] = "read" /\ c.sock = "SOCK_READY"
                                      \/ c.queue[1] = "error" /\ c.sock = "FAILED"
                 /\ c.stack # <<>> => Len(c.stack) = 1 /\ c.queue = <<>>
        BY ZenonT(60), <2>4, <2>9, <1>4, <1>11 DEF IInv, Fresh, Unconnected
    <2>10. ASSUME ~Cancels, ~Resubmits, ~Reenters
           PROVE  c.sends[Head(c.requests)] < Limit(c, Head(c.requests))
        <3>1. Unsent(c, Head(c.requests))
            BY Zenon, <2>10, <1>8, <1>11
        <3> QED BY <3>1 DEF Unsent, Limit
    <2>11. c.output = <<>>
        BY Zenon, <2>4, <1>4
    <2> QED BY ZenonT(60), <2>2, <2>3, <2>5, <2>6, <2>7, <2>8, <2>9, <2>10, <2>11,
               <1>1, <1>2, <1>4, <1>6, <1>8, <1>11, WrittenInv
<1> QED BY Zenon, <1>5, <1>9, <1>10, <1>11 DEF Unconnected

LEMMA CancelRequestInv ==
    ASSUME IInv, NEW r \in Reqs, CancelRequest(r)
    PROVE  IInv'
<1>1. /\ Cancels /\ r \in Range(con.requests) /\ con' = cancelRequest(con, r)
      /\ dropped' = (IF r = Head(con.requests) THEN dropped ELSE dropped \cup {r})
      /\ made' = made /\ custom' = custom /\ peer' = Other(peer)
      /\ TypeInv /\ IsCon(con) /\ Nested(con) /\ Steady(con)
    BY Zenon DEF CancelRequest, Step, Other, IInv, TypeInv, Cancels
<1>2. CASE r = Head(con.requests)
    <2>1. con' = fail(con) /\ dropped' = dropped
        BY Zenon, <1>1, <1>2 DEF cancelRequest
    <2>2. Restarted(con, con') /\ Kept(con, con') /\ Stopped(con, con')
        BY Zenon, <2>1, <1>1, FailResult
    <2>3. \A i \in DOMAIN con.stack : con.stack[i] \in {"keep", "close"} => i = Len(con.stack)
        BY Zenon, <1>1 DEF Nested
    <2> QED BY Zenon, <2>1, <2>2, <2>3, <1>1, AgainInv
<1>3. CASE r # Head(con.requests)
    <2> DEFINE q == Without(con.requests, r)
               c == con'
    <2>1. /\ con.requests \in Seq(Reqs) /\ con.result \in [Reqs -> Seq(Reqs)]
          /\ con.requests # <<>>
          /\ made \subseteq Reqs /\ dropped \subseteq made
          /\ Settled(con.requests, con.result, made \ dropped)
        BY Zenon, <1>1, Nothing DEF IInv, TypeInv, IsCon
    <2>2. /\ q \in Seq(Reqs) /\ q # <<>> /\ Head(q) = Head(con.requests)
          /\ Settled(q, con.result, (made \ dropped) \ {r})
        BY Zenon, <2>1, <1>1, <1>3, SettleWithout
    <2>3. con' = [con EXCEPT !.requests = q]
        BY Zenon, <1>1, <1>3 DEF cancelRequest
    <2> HIDE DEF q
    <2>4. /\ IsCon(c) /\ c.requests = q
          /\ c.state = con.state /\ c.sock = con.sock /\ c.result = con.result
          /\ c.queue = con.queue /\ c.retryEvent = con.retryEvent
          /\ c.detectClose = con.detectClose /\ c.read = con.read
          /\ c.input = con.input /\ c.output = con.output /\ c.stack = con.stack
          /\ c.replying = con.replying /\ c.sends = con.sends
        BY ZenonT(60), <2>2, <2>3, <1>1 DEF IsCon
    <2>5. made' \subseteq Reqs /\ dropped' \subseteq made'
        <3>1. r \in made
            <4>1. PICK i \in DOMAIN con.requests : con.requests[i] = r
                BY Zenon, <1>1, InRange
            <4> QED BY Zenon, <4>1, <2>1 DEF Settled
        <3> QED BY SMTT(30), <3>1, <2>1, <1>1, <1>3
    <2>6. made' \ dropped' = (made \ dropped) \ {r}
        BY <1>1, <1>3
    <2>7. TypeInv' /\ peer' = peer
        BY Zenon, <2>4, <2>5, <1>1, SamePeer
    <2>8. Settled(c.requests, c.result, made' \ dropped')
        BY Zenon, <2>2, <2>4, <2>6
    <2> HIDE DEF c
    <2>9. Nested(c)
        BY Zenon, <2>4, <1>1 DEF Nested
    <2>10. Steady(c)
        <3>1. Closing(con) => Closing(c)
            BY Zenon, <2>4 DEF Closing
        <3>2. ~(con.state = "IDLE" /\ con.stack = <<>>)
            BY Zenon, <2>1, <1>1 DEF Steady
        <3>3. con.state = "DISCONNECTED" => con.stack # <<>> \/ con.retryEvent
            BY Zenon, <2>1, <1>1 DEF Steady
        <3> QED BY ZenonT(60), <3>1, <3>2, <3>3, <2>2, <2>4, <1>1 DEF Steady
    <2>11. ASSUME ~Reenters
           PROVE  Matching(c.result) /\ Quiet(c) /\ (Closing(c) \/ Flow(c, peer))
        <3>1. Matching(c.result) /\ Quiet(c) /\ (Closing(con) => Closing(c))
            BY Zenon, <2>4, <2>11 DEF IInv, Quiet, Closing
        <3>2. Flow(con, peer) => Flow(c, peer)
            BY ZenonT(60), <2>2, <2>4 DEF Flow
        <3> QED BY Zenon, <3>1, <3>2, <2>11 DEF IInv
    <2> QED BY Zenon, <2>7, <2>8, <2>9, <2>10, <2>11, <1>1, Assembled DEF c
<1> QED BY Zenon, <1>2, <1>3
--------------------------------------------------------------------------------
(***************************************************************************)
(* The socket: the loop polls, nothing is active and no callback runs.     *)
(***************************************************************************)
\* The socket fails, which the error callback will tell the connection.
LEMMA ScheduleInv ==
    ASSUME IInv, Idle, con.sock \notin {"IDLE", "FAILED"}, peer' = Other(peer),
           custom' = custom, made' = made, dropped' = dropped,
           NEW flag, NEW refused, con' = scheduleErrorCB(con, flag, refused)
    PROVE  IInv'
<1> DEFINE d == con'
<1>1. /\ TypeInv /\ IsCon(con) /\ Nested(con) /\ Steady(con)
      /\ con.queue = <<>> /\ con.stack = <<>>
      /\ Settled(con.requests, con.result, made \ dropped)
      /\ made \subseteq Reqs /\ dropped \subseteq made
    BY Zenon DEF IInv, TypeInv, Idle
<1>2. Failed(con, d)
    BY Zenon, <1>1, ScheduleResult
<1>3. /\ IsCon(d) /\ d.sock = "FAILED" /\ "error" \in Range(d.queue) /\ d.queue = <<"error">>
      /\ d.state = con.state /\ d.requests = con.requests /\ d.retryEvent = con.retryEvent
      /\ d.detectClose = con.detectClose /\ d.input = con.input /\ d.output = con.output
      /\ d.result = con.result /\ d.sends = con.sends
      /\ d.stack = <<>> /\ d.replying = con.replying
    BY Zenon, <1>1, <1>2 DEF Failed
<1>4. peer' = NoPeer
    BY <1>3 DEF Other
<1>5. TypeInv'
    BY Zenon, <1>1, <1>3, <1>4, NoPeerType DEF TypeInv
<1> HIDE DEF d
<1>6. Nested(d) /\ Quiet(d)
    BY Zenon, <1>3, Nothing DEF Nested, Quiet
<1>7. con.state # "DISCONNECTED"
    BY Zenon, <1>1 DEF Steady
<1>8. Steady(d)
    <2>1. con.state = "WRITING" => con.output # <<>>
        BY Zenon, <1>1, Nothing DEF Steady
    <2> QED BY ZenonT(60), <2>1, <1>1, <1>3, <1>7 DEF Steady
<1>9. \A e : e \in Range(<<"error">>) => e = "error"
    <2>1. \A i \in DOMAIN <<"error">> : <<"error">>[i] = "error"
        OBVIOUS
    <2> QED BY Zenon, <2>1, InRange
<1>10. ~Cancels => Open(d)
    BY Zenon, <1>3, <1>9 DEF IInv, Open
<1>11. ~Cancels /\ ~Resubmits => Fresh(d)
    <2>1. Len(<<"error">>) <= 1 /\ <<"error">>[1] = "error"
        OBVIOUS
    <2> QED BY ZenonT(60), <2>1, <1>3, <1>7 DEF IInv, Fresh
<1>12. ~Cancels /\ ~Resubmits /\ ~Reenters => Once(d, made)
    BY Zenon, <1>1, <1>3 DEF IInv, Once, Limit, Unsent
<1>13. ASSUME ~Reenters PROVE Matching(d.result) /\ Flow(d, NoPeer)
    <2>1. Matching(con.result) /\ Flow(con, peer)
        BY Zenon, <1>1, <1>13 DEF IInv, Closing
    <2>2. \A input, replies : Last(input, replies) => Last(input, <<>>)
        BY Zenon, Nothing DEF Last
    <2> QED BY ZenonT(60), <2>1, <2>2, <1>3, NoPeerType, Nothing DEF Flow
<1> QED BY Zenon, <1>1, <1>3, <1>4, <1>5, <1>6, <1>8, <1>10, <1>11, <1>12, <1>13, Assembled DEF d

\* The socket gets on with connecting.
LEMMA ConnectingInv ==
    ASSUME IInv, Idle, con.sock \in {"DNS_LOOKUP", "SOCK_CONNECT"}, peer' = Other(peer),
           custom' = custom, made' = made, dropped' = dropped, IsCon(con'),
           \/ con'.sock = "SOCK_CONNECT" /\ con'.queue = <<>>
           \/ /\ con'.sock = "SOCK_READY" /\ con'.queue = <<"connect">>
              /\ "connect" \in Range(con'.queue),
           con'.state = con.state, con'.requests = con.requests, con'.result = con.result,
           con'.retryEvent = con.retryEvent, con'.detectClose = con.detectClose,
           con'.read = con.read, con'.input = con.input, con'.output = con.output,
           con'.stack = con.stack, con'.replying = con.replying, con'.sends = con.sends
    PROVE  IInv'
<1> DEFINE d == con'
<1>1. /\ TypeInv /\ IsCon(con) /\ Nested(con) /\ Steady(con)
      /\ con.queue = <<>> /\ con.stack = <<>>
      /\ Settled(con.requests, con.result, made \ dropped)
      /\ made \subseteq Reqs /\ dropped \subseteq made
    BY Zenon DEF IInv, TypeInv, Idle
<1>2. peer = NoPeer
    BY Zenon, <1>1 DEF TypeInv
<1>3. peer' = NoPeer
    BY <1>2 DEF Other
<1>4. TypeInv'
    BY Zenon, <1>1, <1>3, NoPeerType DEF TypeInv
<1>5. con.state # "DISCONNECTED"
    BY Zenon, <1>1 DEF Steady
<1>6. Nested(d) /\ Quiet(d)
    BY Zenon, <1>1, Nothing DEF Nested, Quiet
<1>7. Steady(d)
    <2>1. con.state = "WRITING" => con.output # <<>>
        BY Zenon, <1>1, Nothing DEF Steady
    <2>2. con.state \in {"READING_FIRSTLINE", "READING_BODY"} => con.read
        BY Zenon, <1>1 DEF Steady
    <2> QED BY ZenonT(60), <2>1, <2>2, <1>1, <1>5 DEF Steady
<1>8. ~Cancels => con.state = "CONNECTING"
    BY Zenon, <1>5 DEF IInv, Open, Unconnected
<1>9. ~Cancels => Open(d)
    BY Zenon, <1>1, <1>8, Nothing DEF Open, Unconnected
<1>10. ~Cancels /\ ~Resubmits => Fresh(d)
    <2>1. Len(<<"connect">>) <= 1 /\ <<"connect">>[1] = "connect"
        OBVIOUS
    <2>2. ~Cancels /\ ~Resubmits => con.requests # <<>> /\ ~con.retryEvent
        BY Zenon, <1>8 DEF IInv, Fresh
    <2> QED BY ZenonT(60), <2>1, <2>2, <1>1, <1>8, Nothing DEF Fresh
<1>11. ~Cancels /\ ~Resubmits /\ ~Reenters => Once(d, made)
    BY Zenon DEF IInv, Once, Limit, Unsent
<1>12. ~Reenters => Matching(d.result) /\ Flow(d, NoPeer)
    BY ZenonT(60), <1>1, <1>2 DEF IInv, Closing, Flow
<1> QED BY Zenon, <1>1, <1>3, <1>4, <1>6, <1>7, <1>9, <1>10, <1>11, <1>12, Assembled

LEMMA ResolveInv ==
    ASSUME IInv, Resolve
    PROVE  IInv'
<1> DEFINE c == [con EXCEPT !.sock = "SOCK_CONNECT"]
<1>1. /\ custom' = custom /\ made' = made /\ dropped' = dropped
      /\ Idle /\ con.sock = "DNS_LOOKUP" /\ peer' = Other(peer)
      /\ con' = c \/ \E refused \in BOOLEAN : con' = scheduleErrorCB(con, "ERROR", refused)
    BY Zenon DEF Resolve, Step, Other
<1>2. IsCon(con) /\ con.queue = <<>>
    BY Zenon, <1>1 DEF IInv, TypeInv, Idle
<1>3. CASE con' = c
    <2>1. /\ IsCon(con') /\ con'.sock = "SOCK_CONNECT" /\ con'.queue = con.queue
          /\ con'.state = con.state /\ con'.requests = con.requests /\ con'.result = con.result
          /\ con'.retryEvent = con.retryEvent /\ con'.detectClose = con.detectClose
          /\ con'.read = con.read /\ con'.input = con.input /\ con'.output = con.output
          /\ con'.stack = con.stack /\ con'.replying = con.replying /\ con'.sends = con.sends
        BY ZenonT(60), <1>2, <1>3 DEF IsCon
    <2> QED BY Zenon, <2>1, <1>1, <1>2, ConnectingInv
<1> HIDE DEF c
<1>4. ASSUME NEW refused \in BOOLEAN, con' = scheduleErrorCB(con, "ERROR", refused)
      PROVE  IInv'
    BY Zenon, <1>1, <1>4, ScheduleInv
<1> QED BY Zenon, <1>1, <1>3, <1>4

LEMMA SockConnectInv ==
    ASSUME IInv, sockConnect
    PROVE  IInv'
<1> DEFINE c == [con EXCEPT !.sock = "SOCK_READY"]
<1>1. /\ custom' = custom /\ made' = made /\ dropped' = dropped
      /\ Idle /\ con.sock = "SOCK_CONNECT" /\ peer' = Other(peer)
      /\ \/ con' = Activate(c, "connect")
         \/ \E refused \in BOOLEAN : con' = scheduleErrorCB(con, "ERROR", refused)
    BY Zenon DEF sockConnect, Step, Other
<1>2. IsCon(con) /\ con.queue = <<>>
    BY Zenon, <1>1 DEF IInv, TypeInv, Idle
<1>3. CASE con' = Activate(c, "connect")
    <2>1. /\ IsCon(c) /\ c.sock = "SOCK_READY" /\ c.queue = con.queue
          /\ c.state = con.state /\ c.requests = con.requests /\ c.result = con.result
          /\ c.retryEvent = con.retryEvent /\ c.detectClose = con.detectClose
          /\ c.read = con.read /\ c.input = con.input /\ c.output = con.output
          /\ c.stack = con.stack /\ c.replying = con.replying /\ c.sends = con.sends
        BY ZenonT(60), <1>2 DEF IsCon
    <2> HIDE DEF c
    <2>2. "connect" \in Events
        BY DEF Events
    <2>3. Activated(c, con', "connect")
        BY Zenon, <2>1, <2>2, <1>3, ActivateResult
    <2>4. /\ IsCon(con') /\ con'.sock = "SOCK_READY" /\ con'.queue = <<"connect">>
          /\ "connect" \in Range(con'.queue)
          /\ con'.state = con.state /\ con'.requests = con.requests /\ con'.result = con.result
          /\ con'.retryEvent = con.retryEvent /\ con'.detectClose = con.detectClose
          /\ con'.read = con.read /\ con'.input = con.input /\ con'.output = con.output
          /\ con'.stack = con.stack /\ con'.replying = con.replying /\ con'.sends = con.sends
        BY Zenon, <2>1, <2>3, <1>2 DEF Activated
    <2> QED BY Zenon, <2>4, <1>1, ConnectingInv
<1> HIDE DEF c
<1>4. ASSUME NEW refused \in BOOLEAN, con' = scheduleErrorCB(con, "ERROR", refused)
      PROVE  IInv'
    BY Zenon, <1>1, <1>4, ScheduleInv
<1> QED BY Zenon, <1>1, <1>3, <1>4

LEMMA TimeoutInv ==
    ASSUME IInv, Timeout
    PROVE  IInv'
<1> DEFINE no == FALSE
<1>1. /\ custom' = custom /\ made' = made /\ dropped' = dropped
      /\ Idle /\ con.sock \notin {"IDLE", "FAILED"} /\ peer' = Other(peer)
      /\ con' = scheduleErrorCB(con, "TIMEOUT", no)
    BY DEF Timeout, Step, Other
<1> HIDE DEF no
<1> QED BY Zenon, <1>1, ScheduleInv

\* The first k of t move to the end of s.
LEMMA Moved ==
    ASSUME NEW S, NEW s \in Seq(S), NEW t \in Seq(S), NEW k \in 1..Len(t)
    PROVE  /\ s \o SubSeq(t, 1, k) \in Seq(S) /\ Len(s) \in Nat /\ Len(t) \in Nat
           /\ Len(s \o SubSeq(t, 1, k)) = Len(s) + k
           /\ DOMAIN (s \o SubSeq(t, 1, k)) = 1..(Len(s) + k)
           /\ \A i \in 1..Len(s) : (s \o SubSeq(t, 1, k))[i] = s[i]
           /\ \A i \in 1..k : (s \o SubSeq(t, 1, k))[Len(s) + i] = t[i]
           /\ SubSeq(t, k + 1, Len(t)) \in Seq(S)
           /\ Len(SubSeq(t, k + 1, Len(t))) = Len(t) - k
           /\ DOMAIN SubSeq(t, k + 1, Len(t)) = 1..(Len(t) - k)
           /\ \A i \in 1..(Len(t) - k) : SubSeq(t, k + 1, Len(t))[i] = t[k + i]
           /\ k = Len(t) => SubSeq(t, k + 1, Len(t)) = <<>>
BY SMTT(30), SMTT(60)

\* All that is read, and all that is left, belongs to one request.
Own(input, replies, h) ==
    /\ \A i \in DOMAIN replies : replies[i].of = h
    /\ \A i \in DOMAIN input : input[i].of = h

\* What it means that input and replies were s and t.
MovedOn(s, t, input, replies) ==
    /\ input \in Seq(Response) /\ replies \in Seq(Response)
    /\ \A h : Own(s, t, h) => Own(input, replies, h)
    /\ Last(s, t) => Last(input, replies)
    /\ s # <<>> => input # <<>> /\ Head(input) = Head(s)

LEMMA MovedParts ==
    ASSUME NEW s \in Seq(Response), NEW t \in Seq(Response), NEW k \in 1..Len(t)
    PROVE  MovedOn(s, t, s \o SubSeq(t, 1, k), SubSeq(t, k + 1, Len(t)))
<1> DEFINE u == s \o SubSeq(t, 1, k)
           v == SubSeq(t, k + 1, Len(t))
<1>1. /\ Len(s) \in Nat /\ Len(t) \in Nat /\ k \in Nat /\ k >= 1 /\ k <= Len(t)
      /\ u \in Seq(Response) /\ Len(u) = Len(s) + k /\ DOMAIN u = 1..(Len(s) + k)
      /\ \A i \in 1..Len(s) : u[i] = s[i]
      /\ \A i \in 1..k : u[Len(s) + i] = t[i]
      /\ v \in Seq(Response) /\ Len(v) = Len(t) - k /\ DOMAIN v = 1..(Len(t) - k)
      /\ \A i \in 1..(Len(t) - k) : v[i] = t[k + i]
      /\ k = Len(t) => v = <<>>
    BY SMTT(30), SMTT(60), Moved
<1>2. DOMAIN s = 1..Len(s) /\ DOMAIN t = 1..Len(t) /\ t # <<>>
    BY SMTT(30), SMTT(60), Sequence, <1>1
<1> HIDE DEF u, v
<1>3. ASSUME NEW i \in DOMAIN u, i \notin 1..Len(s)
      PROVE  /\ i - Len(s) \in 1..k /\ i - Len(s) \in DOMAIN t /\ u[i] = t[i - Len(s)]
             /\ i - Len(s) = Len(t) => k = Len(t) /\ i = Len(u)
    <2> DEFINE j == i - Len(s)
    <2>1. j \in 1..k /\ i = Len(s) + j
        BY SMTT(30), SMTT(60), <1>1, <1>3
    <2> HIDE DEF j
    <2>2. u[i] = t[j]
        BY Zenon, <2>1, <1>1
    <2>3. /\ Len(s) \in Nat /\ Len(t) \in Nat /\ k \in Nat /\ k <= Len(t)
          /\ Len(u) = Len(s) + k
        BY Zenon, <1>1
    <2>4. j \in 1..Len(t)
        BY <2>1, <2>3
    <2>5. j = Len(t) => k = Len(t) /\ i = Len(u)
        BY <2>1, <2>3
    <2> QED BY Zenon, <2>1, <2>2, <2>4, <2>5, <1>2 DEF j
<1>4. ASSUME NEW i \in DOMAIN v
      PROVE  /\ k + i \in DOMAIN t /\ v[i] = t[k + i]
             /\ k + i = Len(t) => i = Len(v)
    <2>1. i \in 1..(Len(t) - k) /\ k + i \in 1..Len(t) /\ (k + i = Len(t) => i = Len(t) - k)
        BY SMTT(30), SMTT(60), <1>1, <1>4
    <2> QED BY Zenon, <2>1, <1>1, <1>2
<1>5. ASSUME NEW h, Own(s, t, h) PROVE Own(u, v, h)
    <2>1. ASSUME NEW i \in DOMAIN u PROVE u[i].of = h
        <3>1. CASE i \in 1..Len(s)
            BY Zenon, <3>1, <1>1, <1>2, <1>5 DEF Own
        <3>2. CASE i \notin 1..Len(s)
            BY Zenon, <3>2, <1>3, <1>5 DEF Own
        <3> QED BY Zenon, <3>1, <3>2
    <2>2. ASSUME NEW i \in DOMAIN v PROVE v[i].of = h
        BY Zenon, <1>4, <1>5 DEF Own
    <2> QED BY Zenon, <2>1, <2>2 DEF Own
<1>6. ASSUME Last(s, t) PROVE Last(u, v)
    <2>1. ASSUME NEW i \in DOMAIN u, u[i].kind = "keep" PROVE i = Len(u) /\ v = <<>>
        <3>1. i \notin 1..Len(s)
            BY Zenon, <2>1, <1>1, <1>2, <1>6 DEF Last
        <3>2. i - Len(s) = Len(t)
            BY Zenon, <3>1, <2>1, <1>3, <1>6 DEF Last
        <3> QED BY Zenon, <3>1, <3>2, <1>1, <1>3
    <2>2. ASSUME NEW i \in DOMAIN v, v[i].kind = "keep" PROVE i = Len(v)
        BY Zenon, <2>2, <1>4, <1>6 DEF Last
    <2> QED BY Zenon, <2>1, <2>2 DEF Last
<1>7. ASSUME s # <<>> PROVE u # <<>> /\ Head(u) = Head(s)
    <2>1. Len(s) \in Nat \ {0} /\ Head(s) = s[1]
        BY <1>7, HeadAndTail
    <2>2. 1 \in 1..Len(s) /\ Len(s) + k > 0
        BY <2>1, <1>1
    <2>3. u # <<>>
        BY SMTT(30), <2>2, <1>1, Sequence
    <2>4. Head(u) = u[1]
        BY SMTT(30), <2>3, <1>1, HeadAndTail
    <2> QED BY Zenon, <2>1, <2>2, <2>3, <2>4, <1>1
<1> QED BY Zenon, <1>1, <1>5, <1>6, <1>7 DEF MovedOn, u, v

\* The input buffer was filled.
Filled(c, input) == [c EXCEPT !.input = input]

Received(c, d, input) ==
    /\ IsCon(d) /\ d.sock = c.sock /\ d.queue = <<"read">>
    /\ d.state = c.state /\ d.requests = c.requests
    /\ d.retryEvent = c.retryEvent /\ d.detectClose = c.detectClose
    /\ d.input = input /\ d.output = c.output /\ d.read = c.read
    /\ d.result = c.result /\ d.sends = c.sends
    /\ d.stack = c.stack /\ d.replying = c.replying

LEMMA InputFilled ==
    ASSUME NEW c, IsCon(c), NEW input \in Seq(Response), c.queue = <<>>
    PROVE  Received(c, Activate(Filled(c, input), "read"), input)
<1> DEFINE b == Filled(c, input)
           d == Activate(b, "read")
<1>1. /\ IsCon(b) /\ b.input = input
      /\ b.sock = c.sock /\ b.queue = c.queue
      /\ b.state = c.state /\ b.requests = c.requests
      /\ b.retryEvent = c.retryEvent /\ b.detectClose = c.detectClose
      /\ b.output = c.output /\ b.read = c.read /\ b.result = c.result
      /\ b.sends = c.sends /\ b.stack = c.stack /\ b.replying = c.replying
    BY ZenonT(60) DEF IsCon, Filled
<1> HIDE DEF b
<1>2. "read" \in Events
    BY DEF Events
<1>3. Activated(b, d, "read")
    BY Zenon, <1>1, <1>2, ActivateResult
<1> HIDE DEF d
<1>4. Received(c, d, input)
    BY Zenon, <1>1, <1>3 DEF Received, Activated
<1> QED BY Zenon, <1>4 DEF d, b

\* The kernel gives what has come.
LEMMA ReceivedInv ==
    ASSUME IInv, custom' = custom, made' = made, dropped' = dropped, Ready,
           NEW input, NEW replies, peer.replies # <<>>,
           MovedOn(con.input, peer.replies, input, replies),
           Received(con, con', input), peer'.got = peer.got, peer'.replies = replies,
           peer' \in [got : Seq(Reqs), replies : Seq(Response), fin : BOOLEAN]
    PROVE  IInv'
<1> DEFINE d == con'
<1>1. /\ TypeInv /\ IsCon(con) /\ Nested(con) /\ Steady(con)
      /\ con.queue = <<>> /\ con.stack = <<>> /\ con.sock = "SOCK_READY"
      /\ Settled(con.requests, con.result, made \ dropped)
      /\ made \subseteq Reqs /\ dropped \subseteq made
    BY Zenon DEF IInv, TypeInv, Ready, Idle
<1>2. /\ IsCon(d) /\ d.sock = "SOCK_READY" /\ d.queue = <<"read">>
      /\ d.state = con.state /\ d.requests = con.requests
      /\ d.retryEvent = con.retryEvent /\ d.detectClose = con.detectClose
      /\ d.input = input /\ d.output = con.output /\ d.read = con.read
      /\ d.result = con.result /\ d.sends = con.sends
      /\ d.stack = <<>> /\ d.replying = con.replying
    BY Zenon, <1>1 DEF Received
<1>3. TypeInv'
    BY Zenon, <1>1, <1>2 DEF TypeInv
<1>4. con.state \notin Unconnected
    BY Zenon, <1>1, Nothing DEF Steady, Unconnected
<1> HIDE DEF d
<1>5. Nested(d) /\ Quiet(d)
    BY Zenon, <1>2, Nothing DEF Nested, Quiet
<1>6. Steady(d)
    <2>1. con.state = "WRITING" => con.output # <<>>
        BY Zenon, <1>1, Nothing DEF Steady
    <2>2. con.state = "READING_BODY" => d.input # <<>> /\ Head(d.input).kind = "stream"
        BY Zenon, <1>1, <1>2 DEF Steady, MovedOn
    <2>3. con.state \notin {"DISCONNECTED", "CONNECTING"}
        BY Zenon, <1>4 DEF Unconnected
    <2> QED BY ZenonT(60), <2>1, <2>2, <2>3, <1>1, <1>2 DEF Steady, Unconnected
<1>7. ~Cancels => Open(d)
    <2>2. "connect" \notin Range(<<"read">>)
        BY DEF Range
    <2> QED BY Zenon, <2>2, <1>2, <1>4 DEF Open
<1>8. ~Cancels /\ ~Resubmits => Fresh(d)
    <2>1. Len(<<"read">>) <= 1 /\ <<"read">>[1] = "read" /\ <<"read">> # <<>>
        OBVIOUS
    <2> QED BY ZenonT(60), <2>1, <1>2, <1>4 DEF IInv, Fresh, Unconnected
<1>9. ~Cancels /\ ~Resubmits /\ ~Reenters => Once(d, made)
    BY Zenon, <1>1, <1>2 DEF IInv, Once, Limit, Unsent
<1>10. ASSUME ~Reenters PROVE Matching(d.result) /\ Flow(d, peer')
    <2>1. Matching(con.result) /\ Flow(con, peer) /\ con.state \in Active
        BY Zenon, <1>1, <1>10 DEF IInv, Closing, Flow
    <2>2. Own(d.input, replies, Head(con.requests))
        <3>1. Own(con.input, peer.replies, Head(con.requests))
            BY Zenon, <2>1 DEF Flow, Own
        <3> QED BY Zenon, <3>1, <1>2 DEF MovedOn
    <2>3. ASSUME Head(con.requests) \notin con.replying
          PROVE  /\ con.output = <<>> /\ peer.got = <<>> /\ Last(d.input, replies)
                 /\ Len(con.output) <= 1 /\ Len(peer.got) <= 1
        BY Zenon, <2>1, <2>3, <1>2 DEF Flow, MovedOn
    <2>4. /\ \A i \in DOMAIN con.output : con.output[i] = Head(con.requests)
          /\ \A i \in DOMAIN peer.got : peer.got[i] = Head(con.requests)
        BY Zenon, <2>1 DEF Flow
    <2> QED BY ZenonT(60), <2>1, <2>2, <2>3, <2>4, <1>2 DEF Flow, Own
<1> QED BY Zenon, <1>1, <1>2, <1>3, <1>5, <1>6, <1>7, <1>8, <1>9, <1>10, Assembled DEF d

LEMMA ServerSent ==
    ASSUME NEW p \in [got : Seq(Reqs), replies : Seq(Response), fin : BOOLEAN],
           NEW replies \in Seq(Response)
    PROVE  LET q == [p EXCEPT !.replies = replies]
           IN  /\ q.got = p.got /\ q.replies = replies
               /\ q \in [got : Seq(Reqs), replies : Seq(Response), fin : BOOLEAN]
BY SMTT(30), SMTT(60)

LEMMA SockReadInv ==
    ASSUME IInv, sockRead
    PROVE  IInv'
<1> DEFINE no == FALSE
           input(k) == con.input \o SubSeq(peer.replies, 1, k)
           replies(k) == SubSeq(peer.replies, k + 1, Len(peer.replies))
<1>1. /\ custom' = custom /\ made' = made /\ dropped' = dropped /\ Ready
      /\ \/ \E k \in 1..Len(peer.replies) :
              /\ con' = Activate(Filled(con, input(k)), "read")
              /\ peer' = [peer EXCEPT !.replies = replies(k)]
         \/ con' = scheduleErrorCB(con, "EOF", no) /\ peer' = Other(peer)
    BY Zenon DEF sockRead, Step, Other, Filled
<1>2. /\ IsCon(con) /\ con.queue = <<>> /\ con.sock = "SOCK_READY"
      /\ con.input \in Seq(Response)
      /\ peer \in [got : Seq(Reqs), replies : Seq(Response), fin : BOOLEAN]
    BY Zenon, <1>1 DEF IInv, TypeInv, Ready, Idle, IsCon
<1>3. peer.replies \in Seq(Response)
    BY <1>2
<1> HIDE DEF no
<1>4. ASSUME NEW k \in 1..Len(peer.replies),
             con' = Activate(Filled(con, input(k)), "read"),
             peer' = [peer EXCEPT !.replies = replies(k)]
      PROVE  IInv'
    <2>1. MovedOn(con.input, peer.replies, input(k), replies(k))
        BY Zenon, <1>2, <1>3, MovedParts
    <2>2. peer.replies # <<>>
        BY <1>3, Sequence
    <2> DEFINE in == input(k)
               re == replies(k)
    <2>3. /\ con' = Activate(Filled(con, in), "read")
          /\ peer' = [peer EXCEPT !.replies = re]
          /\ MovedOn(con.input, peer.replies, in, re)
        BY Zenon, <2>1, <1>4
    <2> HIDE DEF input, replies, in, re
    <2>4. in \in Seq(Response) /\ re \in Seq(Response)
        BY Zenon, <2>3 DEF MovedOn
    <2>5. Received(con, con', in)
        BY Zenon, <2>3, <2>4, <1>2, InputFilled
    <2>6. /\ peer'.got = peer.got /\ peer'.replies = re
          /\ peer' \in [got : Seq(Reqs), replies : Seq(Response), fin : BOOLEAN]
        BY Zenon, <2>3, <2>4, <1>2, ServerSent
    <2> QED BY Zenon, <2>2, <2>3, <2>5, <2>6, <1>1, ReceivedInv
<1> HIDE DEF input, replies
<1>5. CASE con' = scheduleErrorCB(con, "EOF", no) /\ peer' = Other(peer)
    <2>1. Idle /\ con.sock \notin {"IDLE", "FAILED"}
        BY Zenon, <1>1 DEF Ready
    <2> QED BY Zenon, <2>1, <1>1, <1>5, ScheduleInv
<1> QED BY Zenon, <1>1, <1>4, <1>5
--------------------------------------------------------------------------------
\* What the server does is nothing to the Connection before it is read.
LEMMA ServerInv ==
    ASSUME IInv, UNCHANGED <<custom, made, dropped, con>>, con.sock = "SOCK_READY",
           peer' \in [got : Seq(Reqs), replies : Seq(Response), fin : BOOLEAN],
           ~Reenters => Closing(con) \/ Flow(con, peer')
    PROVE  IInv'
<1>1. custom' = custom /\ made' = made /\ dropped' = dropped /\ con' = con
    OBVIOUS
<1>2. TypeInv'
    BY Zenon, <1>1 DEF IInv, TypeInv
<1>3. /\ Settled(con'.requests, con'.result, made' \ dropped')
      /\ Nested(con') /\ Steady(con')
      /\ ~Cancels => Open(con')
      /\ ~Cancels /\ ~Resubmits => Fresh(con')
      /\ ~Cancels /\ ~Resubmits /\ ~Reenters => Once(con', made')
      /\ ~Reenters => Matching(con'.result) /\ Quiet(con')
    BY Zenon, <1>1 DEF IInv
<1>4. ~Reenters => Closing(con') \/ Flow(con', peer')
    BY Zenon, <1>1
<1>5. Cancels' = Cancels /\ Reenters' = Reenters /\ Resubmits' = Resubmits
    BY Zenon, <1>1 DEF Cancels, Reenters, Resubmits
<1> QED BY Zenon, <1>2, <1>3, <1>4, <1>5 DEF IInv

\* What a server says in answer to one request, "keep" at its end only.
Saying(kinds) ==
    /\ kinds \in Seq(Kinds)
    /\ \A i \in DOMAIN kinds : kinds[i] = "keep" => i = Len(kinds)

LEMMA Said ==
    ASSUME NEW early \in {<<>>, <<"100">>},
           NEW kinds \in {<<"keep">>, <<"close">>, <<"stream">>, <<"bad">>,
                          <<"rejected">>, <<"rejected", "bad">>}
    PROVE  Saying(early \o kinds)
<1> DEFINE s == early \o kinds
<1>1. (\E k \in Kinds : kinds = <<k>>) \/ kinds = <<"rejected", "bad">>
    BY Zenon DEF Kinds
<1>2. "100" \in Kinds /\ "rejected" \in Kinds /\ "bad" \in Kinds
    BY Zenon DEF Kinds
<1>3. ASSUME NEW k \in Kinds PROVE <<>> \o <<k>> = <<k>> /\ Saying(<<k>>)
    BY DEF Saying
<1>4. ASSUME NEW k \in Kinds PROVE Saying(<<"100">> \o <<k>>)
    <2> DEFINE u == <<"100">> \o <<k>>
    <2>1. u \in Seq(Kinds)
        BY <1>2
    <2>2. Len(u) = 2 /\ DOMAIN u = {1, 2} /\ u[1] = "100"
        OBVIOUS
    <2> HIDE DEF u
    <2>3. "100" # "keep"
        OBVIOUS
    <2>4. Saying(u)
        BY Zenon, <2>1, <2>2, <2>3 DEF Saying
    <2> QED BY Zenon, <2>4 DEF u
<1> DEFINE v == <<"rejected", "bad">>
<1>5. <<>> \o v = v /\ Saying(v)
    BY <1>2 DEF Saying
<1>6. Saying(<<"100">> \o v)
    <2> DEFINE u == <<"100">> \o v
    <2>1. u \in Seq(Kinds)
        BY <1>2
    <2>2. DOMAIN u = 1..3
        OBVIOUS
    <2>3. u[1] = "100" /\ u[2] = "rejected" /\ u[3] = "bad"
        OBVIOUS
    <2> HIDE DEF u
    <2>4. \A i \in DOMAIN u : u[i] # "keep"
        BY <2>2, <2>3
    <2>5. Saying(u)
        BY Zenon, <2>1, <2>4 DEF Saying
    <2> QED BY Zenon, <2>5 DEF u
<1>7. kinds = v => Saying(s)
    BY Zenon, <1>5, <1>6
<1>8. ASSUME NEW k \in Kinds, kinds = <<k>> PROVE Saying(s)
    BY Zenon, <1>3, <1>4, <1>8
<1> QED BY Zenon, <1>1, <1>7, <1>8

\* As responses to h.
Answers(t, h) ==
    /\ t \in Seq(Response)
    /\ \A i \in DOMAIN t : t[i].of = h
    /\ \A i \in DOMAIN t : t[i].kind = "keep" => i = Len(t)

LEMMA AnswerSays ==
    ASSUME NEW h \in Reqs, NEW kinds, Saying(kinds)
    PROVE  Answers(Answer(h, kinds), h)
<1> DEFINE t == Answer(h, kinds)
<1>1. Len(kinds) \in Nat /\ DOMAIN kinds = 1..Len(kinds)
    BY Sequence DEF Saying
<1>2. /\ DOMAIN t = DOMAIN kinds
      /\ \A i \in DOMAIN kinds : t[i] = [of |-> h, kind |-> kinds[i]]
    BY Zenon DEF Answer
<1>3. \A i \in DOMAIN kinds : kinds[i] \in Kinds
    BY <1>1 DEF Saying
<1>4. ASSUME NEW k \in Kinds
      PROVE  /\ [of |-> h, kind |-> k] \in Response
             /\ [of |-> h, kind |-> k].of = h /\ [of |-> h, kind |-> k].kind = k
    BY DEF Response
<1>5. t = [i \in 1..Len(kinds) |-> t[i]]
    BY Zenon, <1>1 DEF Answer
<1> HIDE DEF t
<1>6. ASSUME NEW i \in 1..Len(kinds)
      PROVE  t[i] \in Response /\ t[i].of = h /\ t[i].kind = kinds[i]
    <2>1. t[i] = [of |-> h, kind |-> kinds[i]] /\ kinds[i] \in Kinds
        BY Zenon, <1>1, <1>2, <1>3
    <2> QED BY Zenon, <2>1, <1>4
<1>7. t \in Seq(Response) /\ Len(t) = Len(kinds)
    BY SMTT(30), <1>1, <1>2, <1>5, <1>6
<1> QED BY Zenon, <1>1, <1>2, <1>6, <1>7 DEF Answers, Saying, t

\* The replies of the server and what it adds, s and t, are w.
Added(s, t, w, h) ==
    /\ w \in Seq(Response)
    /\ s = <<>> => w = t
    /\ (\A i \in DOMAIN s : s[i].of = h) => \A i \in DOMAIN w : w[i].of = h

LEMMA RepliesAdded ==
    ASSUME NEW s \in Seq(Response), NEW h, NEW t, Answers(t, h)
    PROVE  Added(s, t, s \o t, h)
<1>1. t \in Seq(Response) /\ \A i \in DOMAIN t : t[i].of = h
    BY Zenon DEF Answers
<1>2. s \o t \in Seq(Response)
    BY <1>1
<1>3. s = <<>> => s \o t = t
    BY <1>1
<1>4. ASSUME NEW i \in DOMAIN (s \o t)
      PROVE  (\E j \in DOMAIN s : (s \o t)[i] = s[j]) \/ (\E j \in DOMAIN t : (s \o t)[i] = t[j])
    <2>1. /\ Len(s) \in Nat /\ Len(t) \in Nat
          /\ DOMAIN s = 1..Len(s) /\ DOMAIN t = 1..Len(t)
          /\ i \in 1..(Len(s) + Len(t))
        BY <1>1
    <2>2. CASE i <= Len(s)
        <3>1. i \in DOMAIN s /\ (s \o t)[i] = s[i]
            BY <2>1, <2>2, <1>1
        <3> QED BY Zenon, <3>1
    <2>3. CASE i > Len(s)
        <3>1. i - Len(s) \in DOMAIN t /\ (s \o t)[i] = t[i - Len(s)]
            BY <2>1, <2>3, <1>1
        <3> QED BY Zenon, <3>1
    <2>4. i <= Len(s) \/ i > Len(s)
        BY <2>1
    <2> QED BY Zenon, <2>2, <2>3, <2>4
<1> QED BY Zenon, <1>1, <1>2, <1>3, <1>4 DEF Added

\* The server has answered the first of what it got.
Replied(p, q, t) ==
    /\ q \in [got : Seq(Reqs), replies : Seq(Response), fin : BOOLEAN]
    /\ q.got = Tail(p.got) /\ q.replies = p.replies \o t

LEMMA ReplyMade ==
    ASSUME TypeInv, Reply
    PROVE  /\ UNCHANGED <<custom, made, dropped, con>> /\ peer.got # <<>>
           /\ \E t : Answers(t, Head(peer.got)) /\ Replied(peer, peer', t)
<1> DEFINE h == Head(peer.got)
<1>1. /\ UNCHANGED <<custom, made, dropped, con>> /\ peer.got # <<>>
      /\ \E early \in {<<>>, <<"100">>},
            kinds \in {<<"keep">>, <<"close">>, <<"stream">>, <<"bad">>,
                      <<"rejected">>, <<"rejected", "bad">>} :
           peer' = [got |-> Tail(peer.got),
                    replies |-> peer.replies \o Answer(h, early \o kinds),
                    fin |-> kinds[1] \in {"close", "stream"}]
    BY Zenon DEF Reply
<1>2. PICK early \in {<<>>, <<"100">>},
           kinds \in {<<"keep">>, <<"close">>, <<"stream">>, <<"bad">>,
                     <<"rejected">>, <<"rejected", "bad">>} :
           peer' = [got |-> Tail(peer.got),
                    replies |-> peer.replies \o Answer(h, early \o kinds),
                    fin |-> kinds[1] \in {"close", "stream"}]
    BY Zenon, <1>1
<1> DEFINE t == Answer(h, early \o kinds)
           u == Tail(peer.got)
           v == peer.replies \o t
           f == kinds[1] \in {"close", "stream"}
<1>3. peer.got \in Seq(Reqs) /\ peer.replies \in Seq(Response)
    BY DEF TypeInv
<1>4. h \in Reqs /\ u \in Seq(Reqs)
    BY <1>1, <1>3, HeadAndTail
<1>5. peer' = [got |-> u, replies |-> v, fin |-> f]
    BY Zenon, <1>2
<1> HIDE DEF h
<1>6. Answers(t, h)
    BY Zenon, <1>4, Said, AnswerSays
<1> HIDE DEF t, u, f
<1>7. v \in Seq(Response)
    BY Zenon, <1>3, <1>4, <1>6, RepliesAdded DEF Added
<1>10. f \in BOOLEAN
    BY DEF f
<1> HIDE DEF v
<1>8. /\ peer' \in [got : Seq(Reqs), replies : Seq(Response), fin : BOOLEAN]
      /\ peer'.got = u /\ peer'.replies = v
    BY SMTT(30), <1>4, <1>5, <1>7, <1>10
<1>9. Replied(peer, peer', t)
    BY Zenon, <1>8 DEF Replied, u, v
<1> QED BY Zenon, <1>1, <1>6, <1>9 DEF h

\* The answer of the server is about the request at the head.
LEMMA ReplyInv ==
    ASSUME IInv, Reply
    PROVE  IInv'
<1>1. /\ TypeInv /\ IsCon(con)
      /\ peer \in [got : Seq(Reqs), replies : Seq(Response), fin : BOOLEAN]
    BY Zenon DEF IInv, TypeInv
<1>2. peer.got \in Seq(Reqs) /\ peer.replies \in Seq(Response)
    BY <1>1
<1>3. UNCHANGED <<custom, made, dropped, con>> /\ peer.got # <<>>
    BY Zenon, <1>1, ReplyMade
<1>4. PICK t : Answers(t, Head(peer.got)) /\ Replied(peer, peer', t)
    BY Zenon, <1>1, ReplyMade
<1>5. con.sock = "SOCK_READY"
    <2>1. NoPeer.got = <<>>
        BY DEF NoPeer
    <2> QED BY Zenon, <2>1, <1>1, <1>3 DEF TypeInv
<1>6. /\ Head(peer.got) = peer.got[1] /\ 1 \in DOMAIN peer.got /\ Tail(peer.got) \in Seq(Reqs)
      /\ Len(peer.got) <= 1 => Tail(peer.got) = <<>>
      /\ \A i \in DOMAIN Tail(peer.got) :
           \E j \in DOMAIN peer.got : Tail(peer.got)[i] = peer.got[j]
    <2>1. /\ Head(peer.got) = peer.got[1] /\ Len(peer.got) \in Nat \ {0}
          /\ DOMAIN peer.got = 1..Len(peer.got)
          /\ Tail(peer.got) \in Seq(Reqs) /\ Len(Tail(peer.got)) = Len(peer.got) - 1
          /\ \A i \in 1..Len(peer.got) - 1 : Tail(peer.got)[i] = peer.got[i + 1]
        BY <1>2, <1>3, HeadAndTail
    <2>2. 1 \in DOMAIN peer.got
        BY <2>1
    <2>3. ASSUME Len(peer.got) <= 1 PROVE Tail(peer.got) = <<>>
        <3> DEFINE n == Len(peer.got)
                   m == Len(Tail(peer.got))
        <3> HIDE DEF n, m
        <3>2. n \in Nat \ {0} /\ n <= 1 /\ m = n - 1
            BY Zenon, <2>1, <2>3 DEF n, m
        <3>3. m = 0
            BY <3>2
        <3>1. Len(Tail(peer.got)) = 0
            BY Zenon, <3>3 DEF m
        <3> QED BY <3>1, <2>1, Sequence
    <2>4. ASSUME NEW i \in DOMAIN Tail(peer.got)
          PROVE  \E j \in DOMAIN peer.got : Tail(peer.got)[i] = peer.got[j]
        <3>1. i \in 1..Len(peer.got) - 1 /\ i + 1 \in 1..Len(peer.got)
            BY <2>1, <2>4
        <3> QED BY Zenon, <3>1, <2>1
    <2> QED BY Zenon, <2>1, <2>2, <2>3, <2>4
<1> DEFINE u == Tail(peer.got)
           v == peer.replies \o t
           h == Head(con.requests)
<1>7. /\ peer' \in [got : Seq(Reqs), replies : Seq(Response), fin : BOOLEAN]
      /\ peer'.got = u /\ peer'.replies = v
    BY Zenon, <1>4 DEF Replied
<1>8. Added(peer.replies, t, v, Head(peer.got))
    BY Zenon, <1>2, <1>4, RepliesAdded
<1> HIDE DEF u, v, h
<1>9. ASSUME ~Reenters, ~Closing(con)
      PROVE  Flow(con, peer')
    <2>1. Flow(con, peer)
        BY Zenon, <1>9 DEF IInv
    <2>2. con.state \in Active /\ Head(peer.got) = h
        BY Zenon, <2>1, <1>3, <1>6 DEF Flow, h
    <2>3. \A i \in DOMAIN u : u[i] = h
        BY Zenon, <2>1, <1>6 DEF Flow, h, u
    <2>4. \A i \in DOMAIN v : v[i].of = h
        BY Zenon, <2>1, <2>2, <1>8 DEF Flow, Added, h
    <2>5. /\ \A i \in DOMAIN con.output : con.output[i] = h
          /\ \A i \in DOMAIN con.input : con.input[i].of = h
        BY Zenon, <2>1 DEF Flow, h
    <2>6. ASSUME h \notin con.replying
          PROVE  /\ Len(con.output) <= 1 /\ Len(u) <= 1
                 /\ con.output = <<>> /\ u = <<>> /\ Last(con.input, v)
        <3>1. /\ Len(con.output) <= 1 /\ Len(peer.got) <= 1
              /\ con.output = <<>> /\ peer.replies = <<>> /\ con.input = <<>>
            BY Zenon, <2>1, <2>2, <2>6, <1>3 DEF Flow, h
        <3>2. u = <<>> /\ v = t
            BY Zenon, <3>1, <1>6, <1>8 DEF Added, u
        <3>3. Last(con.input, v)
            BY Zenon, <3>1, <3>2, <1>4, Nothing DEF Last, Answers
        <3> QED BY Zenon, <3>1, <3>2, <3>3, Nothing
    <2> QED BY Zenon, <2>2, <2>3, <2>4, <2>5, <2>6, <1>7 DEF Flow, h
<1> QED BY Zenon, <1>3, <1>5, <1>7, <1>9, ServerInv

\* The server hangs up.
LEMMA HangUpInv ==
    ASSUME IInv, HangUp
    PROVE  IInv'
<1>1. /\ UNCHANGED <<custom, made, dropped, con>>
      /\ con.sock = "SOCK_READY" /\ peer' = [peer EXCEPT !.fin = TRUE]
    BY Zenon DEF HangUp
<1>2. peer \in [got : Seq(Reqs), replies : Seq(Response), fin : BOOLEAN]
    BY Zenon DEF IInv, TypeInv
<1>3. /\ peer' \in [got : Seq(Reqs), replies : Seq(Response), fin : BOOLEAN]
      /\ peer'.got = peer.got /\ peer'.replies = peer.replies
    BY Zenon, <1>1, <1>2
<1>4. ~Reenters => Closing(con) \/ Flow(con, peer')
    BY Zenon, <1>3 DEF IInv, Flow
<1> QED BY Zenon, <1>1, <1>3, <1>4, ServerInv
--------------------------------------------------------------------------------
\* A new connection.
LEMMA InitInv ==
    ASSUME Init
    PROVE  IInv
<1>1. /\ made = {} /\ dropped = {} /\ peer = NoPeer
      /\ con.state = "DISCONNECTED" /\ con.requests = <<>> /\ ~con.retryEvent
      /\ con.sock = "IDLE" /\ con.input = <<>> /\ con.output = <<>> /\ con.queue = <<>>
      /\ con.stack = <<>> /\ con.replying = {}
      /\ con.result = [r \in Reqs |-> <<>>] /\ con.sends = [r \in Reqs |-> 0]
      /\ DOMAIN con = {"state", "requests", "retries", "retryEvent", "detectClose", "sock",
                       "read", "input", "output", "queue", "pending", "refused", "stack",
                       "replying", "result", "sends"}
    BY ZenonT(60) DEF Init
<1>2. /\ \A r \in Reqs : con.result[r] = <<>> /\ con.sends[r] = 0
      /\ con.sends \in [Reqs -> Nat] /\ con.result \in [Reqs -> Seq(Reqs)]
    BY <1>1
<1>3. /\ <<>> \in Seq(Reqs) /\ <<>> \in Seq(Response) /\ <<>> \in Seq(Events)
      /\ <<>> \in Seq(Frames) /\ 0 <= 1
    OBVIOUS
<1>4. IsCon(con)
    BY Zenon, <1>1, <1>2, <1>3 DEF IsCon
<1>5. TypeInv
    BY Zenon, <1>1, <1>4, NoPeerType DEF TypeInv
<1>6. Settled(con.requests, con.result, made \ dropped)
    BY Zenon, <1>1, <1>2, Nothing DEF Settled
<1>7. Nested(con) /\ Steady(con) /\ Quiet(con)
    BY Zenon, <1>1, Nothing DEF Nested, Steady, Quiet, Active, Unconnected
<1>8. Open(con)
    BY Zenon, <1>1, Nothing DEF Open, Unconnected
<1>9. Fresh(con)
    BY Zenon, <1>1, Nothing DEF Fresh
<1>10. Once(con, made)
    BY Zenon, <1>1, <1>2, <1>3, Nothing DEF Once, Limit, Unsent
<1>11. Matching(con.result)
    BY Zenon, <1>2, Nothing DEF Matching
<1>12. Flow(con, peer)
    <2>1. NoPeer.got = <<>> /\ NoPeer.replies = <<>>
        BY DEF NoPeer
    <2> QED BY Zenon, <2>1, <1>1, Nothing DEF Flow, Active
<1> QED BY Zenon, <1>5, <1>6, <1>7, <1>8, <1>9, <1>10, <1>11, <1>12 DEF IInv

--------------------------------------------------------------------------------
(* Writing to the socket counts what is sent. *)
INSTANCE FiniteSetTheorems

\* How often a request is in a buffer.
LEMMA Counted ==
    ASSUME NEW s \in Seq(Reqs), NEW r \in Reqs
    PROVE  LET n == Cardinality({i \in DOMAIN s : s[i] = r})
           IN  /\ n \in Nat
               /\ \A h \in Reqs : s = <<h>> => n = IF r = h THEN 1 ELSE 0
<1> DEFINE S == {i \in DOMAIN s : s[i] = r}
<1>1. DOMAIN s = 1..Len(s) /\ Len(s) \in Nat
    BY SMTT(30), Sequence
<1>2. Cardinality(S) \in Nat
    <2>1. IsFiniteSet(1..Len(s))
        BY SMTT(30), SMTT(60), <1>1, FS_Interval
    <2>2. S \subseteq 1..Len(s)
        BY Zenon, <1>1
    <2>3. IsFiniteSet(S)
        BY Zenon, <2>1, <2>2, FS_Subset
    <2> QED BY Zenon, <2>3, FS_CardinalityType
<1>3. ASSUME NEW h \in Reqs, s = <<h>>
      PROVE  Cardinality(S) = IF r = h THEN 1 ELSE 0
    <2>1. DOMAIN s = {1} /\ s[1] = h
        BY SMTT(30), SMTT(60), <1>3
    <2>2. CASE r = h
        <3>1. S = {1}
            BY Zenon, <2>1, <2>2
        <3> QED BY Zenon, <3>1, <2>2, FS_Singleton
    <2>3. CASE r # h
        <3>1. S = {}
            BY Zenon, <2>1, <2>3
        <3> QED BY Zenon, <3>1, <2>3, FS_EmptySet
    <2> QED BY Zenon, <2>2, <2>3
<1> QED BY Zenon, <1>2, <1>3

\* The counts after output was sent.
Sent(sent, output, sends) ==
    /\ sent \in [Reqs -> Nat]
    /\ \A r, h \in Reqs : output = <<h>> =>
         sent[r] = sends[r] + (IF r = h THEN 1 ELSE 0)

LEMMA CountedAll ==
    ASSUME NEW output \in Seq(Reqs), NEW sends \in [Reqs -> Nat]
    PROVE  Sent([r \in Reqs |->
                   sends[r] + Cardinality({i \in DOMAIN output : output[i] = r})],
                output, sends)
<1> DEFINE n(r) == Cardinality({i \in DOMAIN output : output[i] = r})
<1>1. \A r \in Reqs : n(r) \in Nat
    BY Counted
<1>2. \A r, h \in Reqs : output = <<h>> => n(r) = IF r = h THEN 1 ELSE 0
    BY Zenon, Counted
<1> HIDE DEF n
<1>3. [r \in Reqs |-> sends[r] + n(r)] \in [Reqs -> Nat]
    BY <1>1
<1>4. Sent([r \in Reqs |-> sends[r] + n(r)], output, sends)
    BY Zenon, <1>2, <1>3 DEF Sent
<1> QED BY Zenon, <1>4 DEF n

\* The output buffer was taken.
Emptied(c, sent) == [c EXCEPT !.output = <<>>, !.sends = sent]

\* What that leaves, when writeCB() is active.
Taken(c, d, sent) ==
    /\ IsCon(d) /\ d.sock = c.sock /\ d.queue = <<"write">>
    /\ d.state = c.state /\ d.requests = c.requests
    /\ d.retryEvent = c.retryEvent /\ d.detectClose = c.detectClose
    /\ d.input = c.input /\ d.output = <<>> /\ d.read = c.read
    /\ d.result = c.result /\ d.sends = sent
    /\ d.stack = c.stack /\ d.replying = c.replying

LEMMA OutputTaken ==
    ASSUME NEW c, IsCon(c), NEW sent \in [Reqs -> Nat], c.queue = <<>>
    PROVE  Taken(c, Activate(Emptied(c, sent), "write"), sent)
<1> DEFINE b == Emptied(c, sent)
           d == Activate(b, "write")
<1>1. /\ DOMAIN b = DOMAIN c /\ b.output = <<>> /\ b.sends = sent
      /\ \A f \in DOMAIN c \ {"output", "sends"} : b[f] = c[f]
    BY Zenon DEF IsCon, Emptied
<1> HIDE DEF b
<1>2. /\ b.sock = c.sock /\ b.queue = c.queue
      /\ b.state = c.state /\ b.requests = c.requests
      /\ b.retryEvent = c.retryEvent /\ b.detectClose = c.detectClose
      /\ b.input = c.input /\ b.read = c.read /\ b.result = c.result
      /\ b.stack = c.stack /\ b.replying = c.replying
    BY ZenonT(60), <1>1 DEF IsCon
<1>3. <<>> \in Seq(Reqs)
    OBVIOUS
<1>4. IsCon(b)
    BY ZenonT(60), <1>1, <1>2, <1>3 DEF IsCon
<1>5. "write" \in Events
    BY DEF Events
<1>6. Activated(b, d, "write")
    BY Zenon, <1>4, <1>5, ActivateResult
<1> HIDE DEF d
<1>7. Taken(c, d, sent)
    BY Zenon, <1>1, <1>2, <1>6 DEF Taken, Activated
<1> QED BY Zenon, <1>7 DEF d, b

\* The server gets what was in the buffer.
LEMMA ServerGets ==
    ASSUME NEW p \in [got : Seq(Reqs), replies : Seq(Response), fin : BOOLEAN],
           NEW output \in Seq(Reqs)
    PROVE  LET q == [p EXCEPT !.got = @ \o output]
           IN  /\ q.got = p.got \o output /\ q.replies = p.replies
               /\ q \in [got : Seq(Reqs), replies : Seq(Response), fin : BOOLEAN]
<1>1. p.got \o output \in Seq(Reqs)
    OBVIOUS
<1> DEFINE g == p.got \o output
<1> HIDE DEF g
<1>2. [p EXCEPT !.got = g] \in [got : Seq(Reqs), replies : Seq(Response), fin : BOOLEAN]
    BY ZenonT(60), <1>1 DEF g
<1>3. [p EXCEPT !.got = g].got = g /\ [p EXCEPT !.got = g].replies = p.replies
    OBVIOUS
<1> QED BY ZenonT(60), <1>2, <1>3 DEF g

\* Only the request at the head is sent, within its limit.
LEMMA SentOnce ==
    ASSUME IsCon(con), Once(con, made), Settled(con.requests, con.result, made \ dropped),
           con.output # <<>>, con.requests # <<>>, con.state \notin Unconnected,
           con.stack = <<>>, NEW sent, Sent(sent, con.output, con.sends),
           NEW d, Taken(con, d, sent)
    PROVE  Once(d, made)
<1> DEFINE q == con.requests
           h == Head(q)
           sends == con.sends
           n(r) == Limit(con, r)
<1>1. q \in Seq(Reqs) /\ q # <<>> /\ sends \in [Reqs -> Nat]
    BY Zenon DEF IsCon
<1>2. /\ \A i, j \in DOMAIN q : q[i] = q[j] => i = j
      /\ \A i \in DOMAIN q : q[i] \in made
    BY Zenon DEF Settled
<1>3. /\ \A r \in Reqs : sends[r] <= n(r)
      /\ \A r \in Reqs : r \notin made => sends[r] = 0 /\ r \notin con.replying
      /\ \A i \in DOMAIN q : i > 1 => sends[q[i]] = 0 /\ q[i] \notin con.replying
      /\ con.output = <<h>> /\ sends[h] < n(h)
    BY Zenon DEF Once, Unsent
<1>4. /\ h = q[1] /\ h \in Reqs /\ 1 \in DOMAIN q /\ \A i \in DOMAIN q : q[i] \in Reqs
    BY SMTT(30), <1>1, HeadAndTail
<1>5. \A r \in Reqs : n(r) \in Nat
    BY DEF Limit
<1> HIDE DEF q, sends, h, n
<1>6. /\ \A r \in Reqs : sent[r] = sends[r] + (IF r = h THEN 1 ELSE 0)
      /\ sent \in [Reqs -> Nat]
    BY Zenon, <1>3, <1>4 DEF sends, Sent
<1>7. h \in made
    BY ZenonT(60), <1>2, <1>4
<1>8. \A r \in Reqs : r # h => sent[r] = sends[r]
    BY SMTT(30), <1>1, <1>6
<1>9. \A r \in Reqs : sent[r] <= n(r)
    <2>1. sent[h] <= n(h)
        <3>1. /\ sends[h] \in Nat /\ n(h) \in Nat /\ sends[h] < n(h)
              /\ sent[h] = sends[h] + 1
            BY Zenon, <1>1, <1>3, <1>4, <1>5, <1>6
        <3> QED BY <3>1
    <2> QED BY Zenon, <2>1, <1>3, <1>8
<1>10. \A r \in Reqs : r \notin made => sent[r] = 0 /\ r \notin con.replying
    BY Zenon, <1>3, <1>7, <1>8
<1>11. ASSUME NEW i \in DOMAIN q, i > 1
       PROVE  sent[q[i]] = 0 /\ q[i] \notin con.replying
    <2>1. i # 1
        BY SMTT(30), <1>1, <1>11, Sequence
    <2>2. q[i] # h /\ q[i] \in Reqs
        BY Zenon, <2>1, <1>2, <1>4
    <2> QED BY Zenon, <2>2, <1>3, <1>8, <1>11
<1>12. /\ d.requests = q /\ d.state = con.state /\ d.stack = <<>> /\ d.output = <<>>
       /\ d.replying = con.replying /\ d.sends = sent
    BY Zenon DEF Taken, q
<1>13. \A r : Limit(d, r) = n(r)
    BY Zenon, <1>12 DEF Limit, n
<1> QED BY Zenon, <1>9, <1>10, <1>11, <1>12, <1>13 DEF Once, Unsent

\* What is added to what the server got is the same request.
Repeated(s, h) == \A i \in DOMAIN s : s[i] = h

LEMMA GotMore ==
    ASSUME NEW s \in Seq(Reqs), NEW t \in Seq(Reqs), NEW h, Repeated(s, h), Repeated(t, h)
    PROVE  Repeated(s \o t, h) /\ (s = <<>> => s \o t = t)
<1>1. /\ Len(s) \in Nat /\ Len(t) \in Nat
      /\ DOMAIN s = 1..Len(s) /\ DOMAIN t = 1..Len(t)
      /\ DOMAIN (s \o t) = 1..(Len(s) + Len(t))
    OBVIOUS
<1>2. s = <<>> => s \o t = t
    OBVIOUS
<1>3. ASSUME NEW i \in DOMAIN (s \o t) PROVE (s \o t)[i] = h
    <2>1. CASE i <= Len(s)
        <3>1. i \in DOMAIN s /\ (s \o t)[i] = s[i]
            BY SMTT(30), <2>1, <1>1
        <3> QED BY Zenon, <3>1 DEF Repeated
    <2>2. CASE i > Len(s)
        <3>1. i - Len(s) \in DOMAIN t /\ (s \o t)[i] = t[i - Len(s)]
            BY SMTT(30), <2>2, <1>1
        <3> QED BY Zenon, <3>1 DEF Repeated
    <2>3. i <= Len(s) \/ i > Len(s)
        BY SMTT(30), <1>1
    <2> QED BY Zenon, <2>1, <2>2, <2>3
<1> QED BY Zenon, <1>2, <1>3 DEF Repeated

\* The kernel takes the request in the output buffer.
LEMMA SentInv ==
    ASSUME IInv, custom' = custom, made' = made, dropped' = dropped, Ready, con.output # <<>>,
           NEW sent, Sent(sent, con.output, con.sends), Taken(con, con', sent),
           peer'.got = peer.got \o con.output, peer'.replies = peer.replies,
           peer' \in [got : Seq(Reqs), replies : Seq(Response), fin : BOOLEAN]
    PROVE  IInv'
<1> DEFINE d == con'
<1>1. /\ TypeInv /\ IsCon(con) /\ Nested(con) /\ Steady(con)
      /\ con.queue = <<>> /\ con.stack = <<>> /\ con.sock = "SOCK_READY"
      /\ Settled(con.requests, con.result, made \ dropped)
      /\ made \subseteq Reqs /\ dropped \subseteq made
      /\ peer \in [got : Seq(Reqs), replies : Seq(Response), fin : BOOLEAN]
    BY Zenon DEF IInv, TypeInv, Ready, Idle
<1>2. /\ IsCon(d) /\ d.sock = "SOCK_READY" /\ d.queue = <<"write">>
      /\ d.state = con.state /\ d.requests = con.requests
      /\ d.retryEvent = con.retryEvent /\ d.detectClose = con.detectClose
      /\ d.input = con.input /\ d.output = <<>> /\ d.read = con.read
      /\ d.result = con.result /\ d.sends = sent
      /\ d.stack = <<>> /\ d.replying = con.replying
    BY Zenon, <1>1 DEF Taken
<1>3. TypeInv'
    BY Zenon, <1>1, <1>2 DEF TypeInv
<1>4. con.state = "WRITING"
    BY Zenon, <1>1 DEF Steady
<1>5. /\ con.state \in Active /\ con.state \notin Unconnected
      /\ con.requests # <<>> /\ ~con.detectClose
    BY Zenon, <1>1, <1>4 DEF Steady, Active, Unconnected
<1>6. con.output \in Seq(Reqs) /\ con.requests \in Seq(Reqs) /\ peer.got \in Seq(Reqs)
    BY <1>1 DEF IsCon
<1> HIDE DEF d
<1>7. Nested(d) /\ Quiet(d)
    BY Zenon, <1>2, Nothing DEF Nested, Quiet
<1>8. "write" \in Range(<<"write">>) /\ "connect" \notin Range(<<"write">>)
    BY DEF Range
<1>9. Steady(d)
    BY Zenon, <1>2, <1>4, <1>5, <1>8 DEF Steady, Unconnected
<1>10. ~Cancels => Open(d)
    BY ZenonT(60), <1>2, <1>8 DEF Open
<1>11. ~Cancels /\ ~Resubmits => Fresh(d)
    <2>1. Len(<<"write">>) <= 1 /\ <<"write">>[1] = "write" /\ <<"write">> # <<>>
        OBVIOUS
    <2> QED BY ZenonT(60), <2>1, <1>2, <1>4 DEF IInv, Fresh
<1>12. ~Cancels /\ ~Resubmits /\ ~Reenters => Once(d, made)
    BY Zenon, <1>1, <1>5, SentOnce DEF IInv, d
<1>13. ASSUME ~Reenters PROVE Matching(d.result) /\ Flow(d, peer')
    <2>1. Matching(con.result) /\ Flow(con, peer)
        BY Zenon, <1>1, <1>13 DEF IInv, Closing
    <2>2. /\ \A i \in DOMAIN peer.got : peer.got[i] = Head(con.requests)
          /\ \A i \in DOMAIN con.output : con.output[i] = Head(con.requests)
          /\ \A i \in DOMAIN peer.replies : peer.replies[i].of = Head(con.requests)
          /\ \A i \in DOMAIN con.input : con.input[i].of = Head(con.requests)
        BY Zenon, <2>1 DEF Flow
    <2>3. /\ \A i \in DOMAIN peer'.got : peer'.got[i] = Head(con.requests)
          /\ peer.got = <<>> => peer'.got = con.output
        <3> DEFINE h == Head(con.requests)
        <3>1. Repeated(peer.got, h) /\ Repeated(con.output, h)
            BY Zenon, <2>2 DEF Repeated
        <3> HIDE DEF h
        <3>2. /\ Repeated(peer.got \o con.output, h)
              /\ peer.got = <<>> => peer.got \o con.output = con.output
            BY Zenon, <3>1, <1>6, GotMore
        <3> QED BY Zenon, <3>2 DEF Repeated, h
    <2>4. ASSUME Head(con.requests) \notin con.replying
          PROVE  /\ Len(peer'.got) <= 1 /\ peer'.replies = <<>> /\ d.input = <<>>
                 /\ Last(d.input, peer'.replies)
        <3>1. /\ Len(con.output) <= 1 /\ peer.got = <<>> /\ peer.replies = <<>>
              /\ con.input = <<>> /\ Last(con.input, peer.replies)
            BY Zenon, <2>1, <2>4, <1>5 DEF Flow
        <3> QED BY Zenon, <3>1, <2>3, <1>2
    <2> QED BY Zenon, <2>1, <2>2, <2>3, <2>4, <1>2, <1>5, Nothing DEF Flow
<1> QED BY Zenon, <1>1, <1>2, <1>3, <1>7, <1>9, <1>10, <1>11, <1>12, <1>13, Assembled DEF d

\* sockWrite() keeps the invariant.
LEMMA SockWriteInv ==
    ASSUME IInv, sockWrite
    PROVE  IInv'
<1> DEFINE no == FALSE
           sent == [r \in Reqs |->
                      con.sends[r] + Cardinality({i \in DOMAIN con.output : con.output[i] = r})]
<1>1. /\ custom' = custom /\ made' = made /\ dropped' = dropped /\ Ready /\ con.output # <<>>
      /\ \/ /\ con' = Activate(Emptied(con, sent), "write")
            /\ peer' = [peer EXCEPT !.got = @ \o con.output]
         \/ con' = scheduleErrorCB(con, "ERROR", no) /\ peer' = Other(peer)
    BY Zenon DEF sockWrite, Step, Other, Emptied
<1>2. /\ IsCon(con) /\ con.queue = <<>> /\ con.sock = "SOCK_READY"
      /\ con.output \in Seq(Reqs) /\ con.sends \in [Reqs -> Nat]
      /\ peer \in [got : Seq(Reqs), replies : Seq(Response), fin : BOOLEAN]
    BY Zenon, <1>1 DEF IInv, TypeInv, Ready, Idle, IsCon
<1>3. Sent(sent, con.output, con.sends)
    BY Zenon, <1>2, CountedAll
<1> HIDE DEF no, sent
<1>4. sent \in [Reqs -> Nat]
    BY Zenon, <1>3 DEF Sent
<1>5. CASE /\ con' = Activate(Emptied(con, sent), "write")
           /\ peer' = [peer EXCEPT !.got = @ \o con.output]
    <2>1. Taken(con, con', sent)
        BY Zenon, <1>2, <1>4, <1>5, OutputTaken
    <2>2. /\ peer'.got = peer.got \o con.output /\ peer'.replies = peer.replies
          /\ peer' \in [got : Seq(Reqs), replies : Seq(Response), fin : BOOLEAN]
        BY Zenon, <1>2, <1>5, ServerGets
    <2> QED BY Zenon, <2>1, <2>2, <1>1, <1>3, SentInv
<1>6. CASE con' = scheduleErrorCB(con, "ERROR", no) /\ peer' = Other(peer)
    <2>1. Idle /\ con.sock \notin {"IDLE", "FAILED"}
        BY Zenon, <1>1 DEF Ready
    <2> QED BY ZenonT(60), <2>1, <1>1, <1>6, ScheduleInv
<1> QED BY Zenon, <1>1, <1>5, <1>6
--------------------------------------------------------------------------------
\* Every step keeps the invariant.
LEMMA NextInv ==
    ASSUME IInv, [Next]_vars
    PROVE  IInv'
<1>1. CASE \E r \in Reqs : MakeRequest(r) \/ CancelRequest(r)
    BY Zenon, <1>1, MakeRequestInv, CancelRequestInv
<1>2. CASE ConnectCB \/ ReadCB \/ WriteCB \/ ErrorCB
    BY Zenon, <1>2, ConnectCBInv, ReadCBInv, WriteCBInv, ErrorCBInv
<1>3. CASE RetryEvent \/ Return \/ Throw
    BY Zenon, <1>3, RetryEventInv, ReturnInv, ThrowInv
<1>4. CASE Resolve \/ sockConnect \/ sockWrite \/ sockRead \/ Timeout
    BY ZenonT(60), <1>4, ResolveInv, SockConnectInv, SockWriteInv, SockReadInv, TimeoutInv
<1>5. CASE Reply \/ HangUp
    BY Zenon, <1>5, ReplyInv, HangUpInv
<1>6. CASE UNCHANGED vars
    <2>1. custom' = custom /\ made' = made /\ dropped' = dropped /\ con' = con /\ peer' = peer
        BY <1>6 DEF vars
    <2> QED BY Zenon, <2>1 DEF IInv, TypeInv, Cancels, Reenters, Resubmits
<1> QED BY Zenon, <1>1, <1>2, <1>3, <1>4, <1>5, <1>6 DEF Next, Loop

\* The books, the events and what is in flight fit together in every reachable
\* state of a Connection, whatever order the callbacks, timers and calls come in.
THEOREM Invariant == Spec => []IInv
<1>1. Init => IInv
    BY Zenon, InitInv
<1>2. IInv /\ [Next]_vars => IInv'
    BY Zenon, NextInv
<1> QED BY <1>1, <1>2, PTL DEF Spec

\* onResponse() is called once for every request that is not cancelled while it
\* waits, and never while the request is in the queue, also when callbacks make
\* requests while free(), fail() or done() are at work; when no callback of done()
\* makes one, what a request is given is the response to itself, also after the
\* connection failed, was retried or its request was cancelled.
THEOREM SettledOnceHolds == Spec => []SettledOnce
<1>1. IInv => SettledOnce
    <2> SUFFICES ASSUME IInv PROVE SettledOnce
        OBVIOUS
    <2>1. made \ dropped \subseteq Reqs /\ Settled(con.requests, con.result, made \ dropped)
        BY Zenon DEF IInv, TypeInv
    <2>2. CalledOnce
        BY Zenon, <2>1 DEF CalledOnce, Settled
    <2>3. "reenter" \notin custom => ResponsesMatch
        BY Zenon DEF IInv, ResponsesMatch, Matching, Reenters
    <2> QED BY Zenon, <2>2, <2>3 DEF SettledOnce
<1> QED BY <1>1, Invariant, PTL

\* Connecting is retried, writing is not: when the application neither cancels nor
\* makes requests from callbacks, no request goes out twice but one whose response
\* readResponse() rejected, which sendError() writes once more; and without
\* cancellation there is an open socket whenever there is something to write, or
\* errorCB() is about to be called.
THEOREM WrittenOnceHolds == Spec => []WrittenOnce
<1>1. IInv => WrittenOnce
    <2> SUFFICES ASSUME IInv PROVE WrittenOnce
        OBVIOUS
    <2>1. custom \cap {"cancel", "reenter", "resubmit"} = {} =>
            \A r \in Reqs : con.sends[r] <= IF r \in con.replying THEN 2 ELSE 1
        <3>1. custom \cap {"cancel", "reenter", "resubmit"} = {} =>
                ~Cancels /\ ~Resubmits /\ ~Reenters
            BY Zenon DEF Cancels, Reenters, Resubmits
        <3> QED BY Zenon, <3>1 DEF IInv, Once, Limit
    <2>2. "cancel" \notin custom /\ con.output # <<>> => con.sock \in {"SOCK_READY", "FAILED"}
        BY Zenon DEF IInv, Steady, Open, Unconnected, Cancels
    <2> QED BY Zenon, <2>1, <2>2 DEF WrittenOnce
<1> QED BY <1>1, Invariant, PTL

\* No request waits for nothing: a callback runs, an event is active, the retry
\* timer runs, the socket is being connected, read or written.  An open connection
\* without requests reads to notice that the other side closes.
THEOREM WatchedHolds == Spec => []Watched
<1>1. IInv => Watched
    <2> SUFFICES ASSUME IInv PROVE Watched
        OBVIOUS
    <2>1. IsCon(con) /\ Steady(con) /\ (~Cancels /\ ~Resubmits => Fresh(con))
        BY Zenon DEF IInv, TypeInv
    <2>2. con.queue = <<>> => \A e : e \notin Range(con.queue)
        BY Zenon, Nothing
    <2>3. con.requests # <<>> =>
            \/ con.stack # <<>> \/ con.queue # <<>> \/ con.retryEvent
            \/ con.sock \in {"DNS_LOOKUP", "SOCK_CONNECT"}
            \/ con.sock = "SOCK_READY" /\ (con.read \/ con.output # <<>>)
        BY ZenonT(60), <2>1, <2>2 DEF Steady, Closing, IsCon
    <2>4. /\ con.requests = <<>> /\ con.sock = "SOCK_READY" /\ con.queue = <<>>
          /\ con.stack = <<>> /\ ~Cancels /\ ~Resubmits
          => con.detectClose /\ con.read
        <3> SUFFICES ASSUME con.requests = <<>>, con.sock = "SOCK_READY", con.queue = <<>>,
                            con.stack = <<>>, ~Cancels, ~Resubmits
                     PROVE  con.detectClose /\ con.read
            OBVIOUS
        <3>1. con.state \notin Active
            BY Zenon, <2>1 DEF Steady
        <3>2. con.state \notin Unconnected
            BY Zenon, <2>1, <2>2 DEF Steady, Unconnected
        <3>3. con.state = "IDLE"
            BY Zenon, <3>1, <3>2, <2>1 DEF IsCon, Active, Unconnected
        <3> QED BY Zenon, <3>3, <2>1 DEF Fresh
    <2>5. custom \cap {"cancel", "resubmit"} = {} => ~Cancels /\ ~Resubmits
        BY Zenon DEF Cancels, Resubmits
    <2> QED BY Zenon, <2>3, <2>4, <2>5 DEF Watched
<1> QED BY <1>1, Invariant, PTL
================================================================================
