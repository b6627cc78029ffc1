-------------------------- MODULE ClientConnectionLemmas --------------------------
(***************************************************************************)
(* The inductive invariant of an outgoing Connection and the lemmas that   *)
(* ClientConnectionProofs rests on.                                        *)
(*                                                                         *)
(* The invariant has six parts.  Settled keeps the books: who waits and    *)
(* who was called back.  Nested says which callbacks may run inside which  *)
(* others.  Steady says what each state of the Connection implies for its  *)
(* socket, buffers and events.  Open and Fresh say that no event and no    *)
(* timer outlives its socket, which only cancelRequest() and a request     *)
(* made in an error callback can break.  Once says that nothing that waits *)
(* behind the head was sent.  Flow says that what is on its way, in the    *)
(* buffers or at the server, is about the request at the head, which only  *)
(* a callback of done() that makes a request can break.                    *)
(*                                                                         *)
(* A lemma per member function says what it leaves of a connection, as an  *)
(* outcome (Restarted, Written), and a lemma per outcome that it keeps the *)
(* invariant.                                                              *)
(***************************************************************************)
EXTENDS ClientConnection, SequenceTheorems, TLAPS
--------------------------------------------------------------------------------
\* The responses of a server, each one symbol.
Kinds == {"100", "bad", "rejected", "stream", "keep", "close"}
Response == [of : Reqs, kind : Kinds]
\* The callbacks of a BufferEvent.
Events == {"connect", "read", "write", "error"}
\* What is left to do after onResponse().
Frames == {"free", "fail", "keep", "close"}

\* What the application may do.
Cancels == "cancel" \in custom
Reenters == "reenter" \in custom
Resubmits == "resubmit" \in custom

\* The types of a Connection and its BufferEvent.
IsCon(c) ==
    /\ DOMAIN c = {"state", "requests", "retries", "retryEvent", "detectClose", "sock",
                   "read", "input", "output", "queue", "pending", "refused", "stack",
                   "replying", "result", "sends"}
    /\ c.state \in {"DISCONNECTED", "CONNECTING", "IDLE", "WRITING",
                    "READING_FIRSTLINE", "READING_BODY"}
    /\ c.sock \in {"IDLE", "DNS_LOOKUP", "SOCK_CONNECT", "SOCK_READY", "FAILED"}
    /\ c.requests \in Seq(Reqs)
    /\ c.input \in Seq(Response)
    /\ c.output \in Seq(Reqs)
    /\ c.queue \in Seq(Events)
    /\ c.stack \in Seq(Frames)
    /\ c.replying \subseteq Reqs
    /\ c.result \in [Reqs -> Seq(Reqs)]
    /\ c.sends \in [Reqs -> Nat]

\* The requests that wait, and the ones in live that were called back once.
Settled(requests, result, live) ==
    /\ \A i, j \in DOMAIN requests : requests[i] = requests[j] => i = j
    /\ \A i \in DOMAIN requests : requests[i] \in live
    /\ \A r \in Reqs :
         Len(result[r]) = IF r \in Range(requests) \/ r \notin live THEN 0 ELSE 1

\* A request was written and its response is awaited.
Active == {"WRITING", "READING_FIRSTLINE", "READING_BODY"}
Unconnected == {"DISCONNECTED", "CONNECTING"}

\* done() calls back outside of every other callback, and within a callback of free()
\* or fail() nothing is connected.
Nested(c) ==
    /\ \A i \in DOMAIN c.stack : c.stack[i] \in {"keep", "close"} => i = Len(c.stack)
    /\ c.stack # <<>> =>
         IF c.stack[1] \in {"keep", "close"}
         THEN c.state \notin {"READING_FIRSTLINE", "READING_BODY"}
         ELSE c.state \in Unconnected

\* done() is about to close the connection.
Closing(c) == c.stack # <<>> /\ c.stack[1] = "close"

\* What the state of the connection says of its requests, socket and buffers.
Steady(c) ==
    /\ c.state \in Active => c.requests # <<>> /\ ~c.detectClose
    /\ c.state = "IDLE" /\ c.stack = <<>> => c.requests = <<>>
    /\ c.state = "DISCONNECTED" =>
         /\ c.sock \in {"IDLE", "FAILED"}
         /\ c.requests # <<>> => c.stack # <<>> \/ c.retryEvent
    /\ c.sock = "IDLE" => c.state = "DISCONNECTED"
    /\ c.sock = "FAILED" =>
         c.state = "DISCONNECTED" \/ Closing(c) \/ "error" \in Range(c.queue)
    /\ c.state \in Unconnected => c.input = <<>>
    /\ c.state # "WRITING" => c.output = <<>>
    /\ c.state = "CONNECTING" /\ c.sock = "SOCK_READY" => "connect" \in Range(c.queue)
    /\ c.state = "WRITING" => c.output # <<>> \/ "write" \in Range(c.queue)
    /\ c.state \in {"READING_FIRSTLINE", "READING_BODY"} => c.read \/ c.sock = "FAILED"
    /\ c.state = "READING_BODY" => c.input # <<>> /\ Head(c.input).kind = "stream"

\* Without cancellation a connection that is made has its socket.
Open(c) ==
    /\ "connect" \in Range(c.queue) =>
         /\ c.queue = <<"connect">> /\ c.stack = <<>>
         /\ c.state = "CONNECTING" /\ c.sock = "SOCK_READY"
    /\ c.state \notin Unconnected => c.sock \in {"SOCK_READY", "FAILED"}

\* Without cancellation, and requests made in error callbacks, no event is left over.
Fresh(c) ==
    /\ c.state = "CONNECTING" => c.requests # <<>>
    /\ c.retryEvent => c.state = "DISCONNECTED" /\ c.requests # <<>>
    /\ c.state = "DISCONNECTED" => c.queue = <<>>
    /\ c.stack # <<>> =>
         /\ Len(c.stack) = 1 /\ c.queue = <<>> /\ ~c.retryEvent /\ c.state # "CONNECTING"
         /\ c.state = "DISCONNECTED" => c.stack[1] \notin {"keep", "close"}
    /\ c.state = "IDLE" /\ c.sock = "SOCK_READY" /\ c.stack = <<>> =>
          c.queue # <<>> \/ (c.detectClose /\ c.read)
    /\ Len(c.queue) <= 1
    /\ c.queue # <<>> =>
         \/ c.queue[1] = "connect" /\ c.state = "CONNECTING" /\ c.sock = "SOCK_READY"
         \/ c.queue[1] = "read" /\ c.sock = "SOCK_READY"
         \/ c.queue[1] = "write" /\ c.state = "WRITING" /\ c.sock = "SOCK_READY" /\ c.output = <<>>
         \/ c.queue[1] = "error" /\ c.sock = "FAILED"

\* How often a request may go out: once more after sendError().
Limit(c, r) == IF r \in c.replying THEN 2 ELSE 1

\* Neither sent nor in sendError().
Unsent(c, r) == c.sends[r] = 0 /\ r \notin c.replying

\* Nothing is written more often.
Once(c, M) ==
    /\ \A r \in Reqs : c.sends[r] <= Limit(c, r)
    /\ \A r \in Reqs : r \notin M => Unsent(c, r)
    /\ \A i \in DOMAIN c.requests :
         i > 1 \/ c.state \in Unconnected \/ c.stack # <<>> => Unsent(c, c.requests[i])
    /\ c.output # <<>> =>
         /\ c.output = <<Head(c.requests)>>
         /\ c.sends[Head(c.requests)] < Limit(c, Head(c.requests))

\* Whoever was called back was given its own response.
Matching(result) ==
    \A r \in Reqs : \A i \in DOMAIN result[r] : result[r][i] = r

\* No request is written within a callback.
Quiet(c) == c.stack # <<>> => c.state # "WRITING"

\* An answer that leaves the connection open is the last there is.
Last(input, replies) ==
    /\ \A i \in DOMAIN input : input[i].kind = "keep" => i = Len(input) /\ replies = <<>>
    /\ \A i \in DOMAIN replies : replies[i].kind = "keep" => i = Len(replies)

\* What is on its way belongs to the request at the head, and is one request or
\* response until sendError() writes the request again.
Flow(c, p) ==
    /\ c.state \notin Active => c.input = <<>> /\ p.got = <<>> /\ p.replies = <<>>
    /\ \A i \in DOMAIN c.output : c.output[i] = Head(c.requests)
    /\ \A i \in DOMAIN p.got : p.got[i] = Head(c.requests)
    /\ \A i \in DOMAIN p.replies : p.replies[i].of = Head(c.requests)
    /\ \A i \in DOMAIN c.input : c.input[i].of = Head(c.requests)
    /\ c.state \in Active /\ Head(c.requests) \notin c.replying =>
         /\ Len(c.output) <= 1 /\ Len(p.got) <= 1
         /\ c.output # <<>> => p.got = <<>> /\ p.replies = <<>> /\ c.input = <<>>
         /\ p.got # <<>> => p.replies = <<>> /\ c.input = <<>>
         /\ Last(c.input, p.replies)

\* The types, and that a server is only there while the socket is.
TypeInv ==
    /\ IsCon(con)
    /\ made \subseteq Reqs /\ dropped \subseteq made
    /\ peer \in [got : Seq(Reqs), replies : Seq(Response), fin : BOOLEAN]
    /\ con.sock # "SOCK_READY" => peer = NoPeer

\* The inductive invariant, with the uses for which a part of it holds.
IInv ==
    /\ TypeInv
    /\ Settled(con.requests, con.result, made \ dropped)
    /\ Nested(con) /\ Steady(con)
    /\ ~Cancels => Open(con)
    /\ ~Cancels /\ ~Resubmits => Fresh(con)
    /\ ~Cancels /\ ~Resubmits /\ ~Reenters => Once(con, made)
    /\ ~Reenters => /\ Matching(con.result) /\ Quiet(con)
                    /\ Closing(con) \/ Flow(con, peer)
--------------------------------------------------------------------------------
(***************************************************************************)
(* The books: who waits and who was called back.                           *)
(***************************************************************************)
LEMMA InRange ==
    ASSUME NEW s, NEW e
    PROVE  e \in Range(s) <=> \E i \in DOMAIN s : s[i] = e
BY DEF Range

\* Sequences: what the library modules say of them, as the proofs use it.
LEMMA Sequence ==
    ASSUME NEW S, NEW s \in Seq(S)
    PROVE  /\ DOMAIN s = 1..Len(s) /\ Len(s) \in Nat
           /\ \A i \in 1..Len(s) : s[i] \in S
           /\ s # <<>> <=> Len(s) > 0
OBVIOUS

LEMMA HeadAndTail ==
    ASSUME NEW S, NEW s \in Seq(S), s # <<>>
    PROVE  /\ Head(s) = s[1] /\ Head(s) \in S /\ Len(s) \in Nat \ {0}
           /\ Tail(s) \in Seq(S) /\ Len(Tail(s)) = Len(s) - 1
           /\ DOMAIN s = 1..Len(s) /\ DOMAIN Tail(s) = 1..(Len(s) - 1)
           /\ \A i \in 1..(Len(s) - 1) : Tail(s)[i] = s[i + 1]
OBVIOUS

LEMMA Appended ==
    ASSUME NEW S, NEW s \in Seq(S), NEW e \in S
    PROVE  /\ Append(s, e) \in Seq(S) /\ Append(s, e) # <<>>
           /\ Len(Append(s, e)) = Len(s) + 1 /\ Len(s) \in Nat
           /\ DOMAIN Append(s, e) = 1..(Len(s) + 1) /\ DOMAIN s = 1..Len(s)
           /\ Append(s, e)[Len(s) + 1] = e
           /\ \A i \in 1..Len(s) : Append(s, e)[i] = s[i]
OBVIOUS

LEMMA Pushed ==
    ASSUME NEW S, NEW s \in Seq(S), NEW e \in S
    PROVE  /\ <<e>> \o s \in Seq(S) /\ <<e>> \o s # <<>>
           /\ Len(<<e>> \o s) = Len(s) + 1 /\ Len(s) \in Nat
           /\ DOMAIN (<<e>> \o s) = 1..(Len(s) + 1) /\ DOMAIN s = 1..Len(s)
           /\ (<<e>> \o s)[1] = e
           /\ \A i \in 1..Len(s) : (<<e>> \o s)[i + 1] = s[i]
           /\ s = <<>> => <<e>> \o s = <<e>>
<1>1. <<e>> \in Seq(S) /\ Len(<<e>>) = 1 /\ <<e>>[1] = e /\ Len(s) \in Nat
    OBVIOUS
<1> DEFINE u == <<e>>
<1>2. u \in Seq(S) /\ Len(u) = 1 /\ u[1] = e
    BY <1>1
<1> HIDE DEF u
<1>3. /\ u \o s \in Seq(S) /\ Len(u \o s) = 1 + Len(s)
      /\ \A i \in 1..(1 + Len(s)) : (u \o s)[i] = IF i <= 1 THEN u[i] ELSE s[i - 1]
    <2>1. /\ u \o s \in Seq(S) /\ Len(u \o s) = Len(u) + Len(s)
          /\ \A i \in 1..(Len(u) + Len(s)) :
               (u \o s)[i] = IF i <= Len(u) THEN u[i] ELSE s[i - Len(u)]
        BY Zenon, <1>2, ConcatProperties
    <2> QED BY Zenon, <2>1, <1>2
<1>4. DOMAIN (u \o s) = 1..(Len(s) + 1) /\ DOMAIN s = 1..Len(s) /\ u \o s # <<>>
    BY <1>1, <1>3, Sequence
<1>5. (u \o s)[1] = e
    BY <1>1, <1>2, <1>3
<1>6. ASSUME NEW i \in 1..Len(s)
      PROVE  (u \o s)[i + 1] = s[i]
    <2>1. i + 1 \in 1..(1 + Len(s)) /\ ~(i + 1 <= 1) /\ (i + 1) - 1 = i
        BY <1>1
    <2> QED BY <2>1, <1>3
<1>7. s = <<>> => u \o s = u
    BY <1>2, ConcatEmptySeq
<1> QED BY <1>1, <1>3, <1>4, <1>5, <1>6, <1>7 DEF u

LEMMA Popped ==
    ASSUME NEW S, NEW s \in Seq(S), s # <<>>
    PROVE  /\ <<Head(s)>> \o Tail(s) = s
           /\ Len(s) = 1 => Tail(s) = <<>>
<1>1. <<Head(s)>> \o Tail(s) = s
    <2> DEFINE h == Head(s)
               t == Tail(s)
    <2>1. /\ h \in S /\ h = s[1] /\ t \in Seq(S) /\ Len(s) \in Nat \ {0} /\ Len(t) = Len(s) - 1
          /\ \A i \in 1..(Len(s) - 1) : t[i] = s[i + 1]
        BY HeadAndTail
    <2> HIDE DEF h, t
    <2>2. /\ <<h>> \o t \in Seq(S) /\ Len(<<h>> \o t) = Len(t) + 1
          /\ (<<h>> \o t)[1] = h /\ \A i \in 1..Len(t) : (<<h>> \o t)[i + 1] = t[i]
        BY <2>1, Pushed
    <2>3. ASSUME NEW i \in 1..Len(s)
          PROVE  (<<h>> \o t)[i] = s[i]
        <3>1. CASE i = 1
            BY <3>1, <2>1, <2>2
        <3>2. CASE i # 1
            <4>1. i - 1 \in 1..(Len(s) - 1) /\ (i - 1) + 1 = i
                BY <3>2, <2>1
            <4> QED BY Zenon, <4>1, <2>1, <2>2
        <3> QED BY Zenon, <3>1, <3>2
    <2>4. Len(<<h>> \o t) = Len(s)
        BY <2>1, <2>2
    <2>5. <<h>> \o t = s
        <3> DEFINE u == <<h>> \o t
        <3> HIDE DEF u
        <3>1. u \in Seq(S) /\ Len(u) = Len(s) /\ \A i \in 1..Len(u) : u[i] = s[i]
            BY <2>2, <2>3, <2>4 DEF u
        <3> QED BY <3>1, SeqEqual DEF u
    <2> QED BY <2>5 DEF h, t
<1>2. Len(s) = 1 => Tail(s) = <<>>
    <2>1. Tail(s) \in Seq(S) /\ Len(Tail(s)) = Len(s) - 1
        BY HeadAndTail
    <2> DEFINE t == Tail(s)
    <2> HIDE DEF t
    <2>2. t \in Seq(S) /\ Len(t) = 0 => t = <<>>
        OBVIOUS
    <2> QED BY <2>1, <2>2 DEF t
<1> QED BY <1>1, <1>2

\* fail() and done() call back the request at the head and take it off.
LEMMA SettleHead ==
    ASSUME NEW q \in Seq(Reqs), NEW res \in [Reqs -> Seq(Reqs)], NEW t \in Reqs,
           q # <<>>
    PROVE  LET one == [res EXCEPT ![Head(q)] = Append(@, t)]
           IN  /\ one \in [Reqs -> Seq(Reqs)]
               /\ \A live : Settled(q, res, live) => Settled(Tail(q), one, live)
               /\ t = Head(q) /\ Matching(res) => Matching(one)
<1> DEFINE h == Head(q)
           one == [res EXCEPT ![h] = Append(@, t)]
<1>1. /\ h \in Reqs /\ h = q[1] /\ Tail(q) \in Seq(Reqs) /\ Len(q) \in Nat \ {0}
      /\ Len(Tail(q)) = Len(q) - 1
      /\ \A i \in 1..(Len(q) - 1) : Tail(q)[i] = q[i + 1]
    BY HeadAndTail
<1>2. /\ Append(res[h], t) \in Seq(Reqs)
      /\ Len(Append(res[h], t)) = Len(res[h]) + 1
    BY <1>1, Appended
<1>3. /\ one \in [Reqs -> Seq(Reqs)]
      /\ one[h] = Append(res[h], t)
      /\ \A r \in Reqs \ {h} : one[r] = res[r]
    BY <1>1, <1>2
<1> HIDE DEF one
<1>4. ASSUME NEW live, Settled(q, res, live)
      PROVE  Settled(Tail(q), one, live)
    <2>1. DOMAIN q = 1..Len(q) /\ DOMAIN Tail(q) = 1..(Len(q) - 1)
        BY HeadAndTail
    <2>2. \A i \in 1..(Len(q) - 1) : i + 1 \in 1..Len(q) /\ i + 1 # 1
        BY <1>1
    <2>3. \A i \in 2..Len(q) : i - 1 \in 1..(Len(q) - 1) /\ (i - 1) + 1 = i
        BY <1>1
    <2>4. 1 \in 1..Len(q)
        BY <1>1
    <2>5. \A i, j \in 1..Len(q) : q[i] = q[j] => i = j
        BY Zenon, <1>4, <2>1 DEF Settled
    <2>6. \A r : r \in Range(Tail(q)) <=> r \in Range(q) /\ r # h
        <3>1. ASSUME NEW r, r \in Range(Tail(q))
              PROVE  r \in Range(q) /\ r # h
            <4>1. PICK i \in 1..(Len(q) - 1) : Tail(q)[i] = r
                BY Zenon, <3>1, <2>1, InRange
            <4> QED BY <4>1, <1>1, <2>1, <2>2, <2>4, <2>5, InRange
        <3>2. ASSUME NEW r, r \in Range(q), r # h
              PROVE  r \in Range(Tail(q))
            <4>1. PICK i \in 1..Len(q) : q[i] = r
                BY Zenon, <3>2, <2>1, InRange
            <4>2. i \in 2..Len(q)
                BY <4>1, <3>2, <1>1
            <4> QED BY Zenon, <4>1, <4>2, <1>1, <2>1, <2>3, InRange
        <3> QED BY <3>1, <3>2
    <2>7. h \in Range(q) /\ h \in live
        <3>1. 1 \in DOMAIN q /\ q[1] = h
            BY <1>1, <2>1, <2>4
        <3>2. \A i \in DOMAIN q : q[i] \in live
            BY <1>4 DEF Settled
        <3> QED BY Zenon, <3>1, <3>2, InRange
    <2>8. \A r \in Reqs :
            Len(one[r]) = IF r \in Range(Tail(q)) \/ r \notin live THEN 0 ELSE 1
        <3>1. \A r \in Reqs : Len(res[r]) = IF r \in Range(q) \/ r \notin live THEN 0 ELSE 1
            BY <1>4 DEF Settled
        <3>2. Len(one[h]) = 1 /\ h \notin Range(Tail(q))
            BY <3>1, <2>6, <2>7, <1>1, <1>2, <1>3
        <3> QED BY Zenon, <3>1, <3>2, <2>6, <2>7, <1>3
    <2>9. \A i, j \in DOMAIN Tail(q) : Tail(q)[i] = Tail(q)[j] => i = j
        BY SMTT(30), SMTT(60), <1>1, <2>1, <2>2, <2>5
    <2>10. \A i \in DOMAIN Tail(q) : Tail(q)[i] \in live
        BY SMTT(30), <1>1, <1>4, <2>1, <2>2 DEF Settled
    <2> QED BY <2>8, <2>9, <2>10 DEF Settled
<1>5. ASSUME t = h, Matching(res)
      PROVE  Matching(one)
    <2> SUFFICES ASSUME NEW r \in Reqs, NEW i \in DOMAIN one[r]
                 PROVE  one[r][i] = r
        BY DEF Matching
    <2> HIDE DEF h
    <2>1. CASE r = h
        <3>0. res[h] \in Seq(Reqs) /\ one[h] = Append(res[h], t)
            BY <1>1, <1>3
        <3>1. /\ i \in 1..(Len(res[h]) + 1) /\ Len(res[h]) \in Nat
              /\ DOMAIN res[h] = 1..Len(res[h])
              /\ Append(res[h], t)[Len(res[h]) + 1] = t
              /\ \A j \in 1..Len(res[h]) : Append(res[h], t)[j] = res[h][j]
            BY <3>0, <2>1, Appended
        <3>2. CASE i = Len(res[h]) + 1
            BY <3>1, <3>2, <2>1, <1>3, <1>5
        <3>3. CASE i \in 1..Len(res[h])
            <4>1. one[r][i] = res[h][i]
                BY Zenon, <3>0, <3>1, <3>3, <2>1
            <4>2. i \in DOMAIN res[h]
                BY Zenon, <3>1, <3>3
            <4>3. h \in Reqs /\ \A j \in DOMAIN res[h] : res[h][j] = h
                BY <2>1, <1>5 DEF Matching
            <4> QED BY Zenon, <4>1, <4>2, <4>3, <2>1
        <3> QED BY <3>1, <3>2, <3>3
    <2>2. CASE r # h
        BY <2>2, <1>3, <1>5 DEF Matching
    <2> QED BY <2>1, <2>2
<1> QED BY Zenon, <1>3, <1>4, <1>5 DEF one

\* makeRequest() adds a request to the ones that wait.
LEMMA SettleNew ==
    ASSUME NEW q \in Seq(Reqs), NEW res \in [Reqs -> Seq(Reqs)], NEW live,
           NEW r \in Reqs, r \notin live, Settled(q, res, live)
    PROVE  Settled(Append(q, r), res, live \cup {r})
<1>1. /\ Len(Append(q, r)) = Len(q) + 1 /\ Len(q) \in Nat
      /\ Append(q, r)[Len(q) + 1] = r
      /\ \A i \in 1..Len(q) : Append(q, r)[i] = q[i]
      /\ DOMAIN Append(q, r) = 1..(Len(q) + 1) /\ DOMAIN q = 1..Len(q)
    BY Appended
<1>2. \A s : s \in Range(Append(q, r)) <=> s \in Range(q) \/ s = r
    <2>1. ASSUME NEW s, s \in Range(Append(q, r))
          PROVE  s \in Range(q) \/ s = r
        <3>1. PICK i \in DOMAIN Append(q, r) : Append(q, r)[i] = s
            BY Zenon, <2>1, InRange
        <3>2. i \in 1..Len(q) \/ i = Len(q) + 1
            BY <1>1
        <3> QED BY <3>1, <3>2, <1>1, InRange
    <2>2. ASSUME NEW s, s \in Range(q)
          PROVE  s \in Range(Append(q, r))
        <3>1. PICK i \in DOMAIN q : q[i] = s
            BY <2>2, InRange
        <3>2. i \in 1..(Len(q) + 1)
            BY <1>1
        <3> QED BY Zenon, <3>1, <3>2, <1>1, InRange
    <2>3. r \in Range(Append(q, r))
        <3>1. Len(q) + 1 \in 1..(Len(q) + 1)
            BY <1>1
        <3> QED BY Zenon, <3>1, <1>1, InRange
    <2> QED BY <2>1, <2>2, <2>3
<1>3. \A s \in Reqs :
        Len(res[s]) = IF s \in Range(Append(q, r)) \/ s \notin live \cup {r} THEN 0 ELSE 1
    BY <1>2 DEF Settled
<1>4. \A i \in DOMAIN Append(q, r) : Append(q, r)[i] \in live \cup {r}
    BY <1>1 DEF Settled
<1>5. ASSUME NEW i \in DOMAIN Append(q, r), NEW j \in DOMAIN Append(q, r),
             Append(q, r)[i] = Append(q, r)[j]
      PROVE  i = j
    <2>1. CASE i = Len(q) + 1 /\ j # Len(q) + 1
        BY <2>1, <1>1, <1>5 DEF Settled
    <2>2. CASE i # Len(q) + 1 /\ j = Len(q) + 1
        BY <2>2, <1>1, <1>5 DEF Settled
    <2>3. CASE i # Len(q) + 1 /\ j # Len(q) + 1
        BY <2>3, <1>1, <1>5 DEF Settled
    <2> QED BY <2>1, <2>2, <2>3
<1> QED BY ZenonT(60), <1>3, <1>4, <1>5 DEF Settled

\* Skipping k maps 1..(n - 1) one to one onto the rest of 1..n.
LEMMA Shift ==
    ASSUME NEW n \in Nat, NEW k \in 2..n
    PROVE  /\ \A i \in 1..(n - 1) :
                /\ (IF i < k THEN i ELSE i + 1) \in 1..n
                /\ (IF i < k THEN i ELSE i + 1) # k
           /\ \A i, j \in 1..(n - 1) :
                (IF i < k THEN i ELSE i + 1) = (IF j < k THEN j ELSE j + 1) => i = j
           /\ \A j \in 1..n : j # k => \E i \in 1..(n - 1) : j = (IF i < k THEN i ELSE i + 1)
           /\ 1 \in 1..(n - 1) /\ n - 1 \in Nat /\ (IF 1 < k THEN 1 ELSE 1 + 1) = 1
<1>1. ASSUME NEW j \in 1..n, j # k
      PROVE  \E i \in 1..(n - 1) : j = (IF i < k THEN i ELSE i + 1)
    <2>1. CASE j < k
        <3> WITNESS j \in 1..(n - 1)
        <3> QED BY <2>1
    <2>2. CASE j > k
        <3> WITNESS j - 1 \in 1..(n - 1)
        <3> QED BY <2>2
    <2> QED BY <1>1, <2>1, <2>2
<1> QED BY <1>1

\* cancelRequest() of a request that is not the active one takes it out.
LEMMA SettleWithout ==
    ASSUME NEW q \in Seq(Reqs), NEW res \in [Reqs -> Seq(Reqs)], NEW live,
           NEW r \in Range(q), r # Head(q), Settled(q, res, live)
    PROVE  /\ Without(q, r) \in Seq(Reqs) /\ Without(q, r) # <<>>
           /\ Head(Without(q, r)) = Head(q)
           /\ Settled(Without(q, r), res, live \ {r})
<1> DEFINE n == Len(q)
           k == CHOOSE i \in DOMAIN q : q[i] = r
           f(i) == IF i < k THEN i ELSE i + 1
           w == Without(q, r)
<1>1. k \in DOMAIN q /\ q[k] = r
    BY InRange
<1>2. q # <<>>
    BY InRange
<1>3. Head(q) = q[1] /\ n \in Nat \ {0} /\ DOMAIN q = 1..n
    BY <1>2, HeadAndTail
<1>4. w = [i \in 1..(n - 1) |-> q[f(i)]]
    BY DEF Without
<1>5. /\ \A i, j \in 1..n : q[i] = q[j] => i = j
      /\ \A i \in 1..n : q[i] \in live
      /\ \A s \in Reqs : Len(res[s]) = IF s \in Range(q) \/ s \notin live THEN 0 ELSE 1
    BY ZenonT(60), <1>3 DEF Settled
<1>6. \A i \in 1..n : q[i] \in Reqs
    BY Sequence
<1> HIDE DEF k, n
<1>7. k \in 2..n
    BY <1>1, <1>3
<1>8. /\ \A i \in 1..(n - 1) : f(i) \in 1..n /\ f(i) # k
      /\ \A i, j \in 1..(n - 1) : f(i) = f(j) => i = j
      /\ \A j \in 1..n : j # k => \E i \in 1..(n - 1) : j = f(i)
      /\ 1 \in 1..(n - 1) /\ n - 1 \in Nat /\ f(1) = 1
    BY Zenon, <1>3, <1>7, Shift
<1> HIDE DEF f, w
<1>9. /\ w \in [1..(n - 1) -> Reqs]
      /\ \A i \in 1..(n - 1) : w[i] = q[f(i)]
      /\ DOMAIN w = 1..(n - 1)
    BY <1>4, <1>6, <1>8
<1>10. w \in Seq(Reqs) /\ Len(w) = n - 1
    <2>1. \A m \in Nat : \A v \in [1..m -> Reqs] : v \in Seq(Reqs) /\ Len(v) = m
        OBVIOUS
    <2> QED BY Zenon, <2>1, <1>8, <1>9
<1>11. w # <<>> /\ Head(w) = Head(q)
    <2>1. w # <<>>
        BY <1>8, <1>9
    <2>2. Head(w) = w[1]
        BY <2>1, <1>10, HeadAndTail
    <2>3. w[1] = q[1]
        BY <1>8, <1>9
    <2> QED BY <2>1, <2>2, <2>3, <1>3
<1>12. \A i, j \in DOMAIN w : w[i] = w[j] => i = j
    BY SMTT(30), <1>5, <1>8, <1>9
<1>13. \A i \in DOMAIN w : w[i] \in live /\ w[i] # r
    <2>1. k \in 1..n
        BY <1>1, <1>3
    <2>2. ASSUME NEW i \in DOMAIN w
          PROVE  w[i] \in live /\ w[i] # r
        <3>1. f(i) \in 1..n /\ f(i) # k /\ w[i] = q[f(i)]
            BY Zenon, <2>2, <1>8, <1>9
        <3> QED BY Zenon, <3>1, <2>1, <1>1, <1>5
    <2> QED BY Zenon, <2>2
<1>14. \A s : s \in Range(w) <=> s \in Range(q) /\ s # r
    <2>1. ASSUME NEW s, s \in Range(w)
          PROVE  s \in Range(q) /\ s # r
        <3>1. PICK i \in DOMAIN w : w[i] = s
            BY <2>1, InRange
        <3>2. f(i) \in DOMAIN q /\ q[f(i)] = s
            BY <3>1, <1>3, <1>8, <1>9
        <3> QED BY <3>1, <3>2, <1>13, InRange
    <2>2. ASSUME NEW s, s \in Range(q), s # r
          PROVE  s \in Range(w)
        <3>1. PICK j \in DOMAIN q : q[j] = s
            BY <2>2, InRange
        <3>2. PICK i \in 1..(n - 1) : j = f(i)
            BY Zenon, <3>1, <2>2, <1>1, <1>3, <1>8
        <3> QED BY Zenon, <3>1, <3>2, <1>9, InRange
    <2> QED BY <2>1, <2>2
<1>15. \A s \in Reqs :
         Len(res[s]) = IF s \in Range(w) \/ s \notin live \ {r} THEN 0 ELSE 1
    BY <1>5, <1>14
<1>16. Settled(w, res, live \ {r})
    BY <1>12, <1>13, <1>15 DEF Settled
<1> QED BY <1>10, <1>11, <1>16 DEF w
--------------------------------------------------------------------------------
(***************************************************************************)
(* What a member function leaves behind.  Most of them end the connection: *)
(* they call back, wait for the retry timer or connect again.              *)
(***************************************************************************)
\* c became d, disconnected, and the request at the head, if there was one, is
\* being called back.
Stopped(c, d) ==
    /\ d.state = "DISCONNECTED" /\ d.sock \in {"IDLE", "FAILED"}
    /\ d.queue = c.queue /\ d.retryEvent = c.retryEvent
    /\ IF c.requests = <<>> THEN d.requests = <<>> /\ d.stack = c.stack
       ELSE /\ d.requests = Tail(c.requests)
            /\ \E f \in {"free", "fail"} : d.stack = <<f>> \o c.stack

\* c became d, and the requests wait for a new connection.
Waiting(c, d) ==
    /\ d.requests = c.requests /\ d.stack = c.stack
    /\ \/ /\ d.state = "DISCONNECTED" /\ d.sock \in {"IDLE", "FAILED"}
          /\ d.queue = c.queue /\ d.retryEvent
       \/ /\ d.state = "CONNECTING" /\ d.sock \in {"DNS_LOOKUP", "SOCK_CONNECT"}
          /\ d.queue = c.queue /\ d.retryEvent = c.retryEvent
       \/ /\ d.state = "CONNECTING" /\ d.sock = "FAILED"
          /\ "error" \in Range(d.queue) /\ Range(d.queue) \subseteq Range(c.queue) \cup {"error"}
          /\ c.queue = <<>> => d.queue = <<"error">>
          /\ d.retryEvent = c.retryEvent

\* c became d without a connection.
Restarted(c, d) ==
    /\ IsCon(d)
    /\ d.sends = c.sends /\ d.replying = c.replying
    /\ d.input = <<>> /\ d.output = <<>>
    /\ Stopped(c, d) \/ Waiting(c, d)

\* Whoever waited in c waits in d or was called back with a result of its own.
Kept(c, d) ==
    /\ \A live : Settled(c.requests, c.result, live) => Settled(d.requests, d.result, live)
    /\ Matching(c.result) => Matching(d.result)

\* reset() closes the socket and empties the buffers.
LEMMA ResetResult ==
    ASSUME NEW c, IsCon(c)
    PROVE  /\ IsCon(reset(c)) /\ reset(c).state = "DISCONNECTED"
           /\ reset(c).sock \in {"IDLE", "FAILED"}
           /\ reset(c).input = <<>> /\ reset(c).output = <<>>
           /\ reset(c).requests = c.requests /\ reset(c).result = c.result
           /\ reset(c).queue = c.queue /\ reset(c).retryEvent = c.retryEvent
           /\ reset(c).stack = c.stack /\ reset(c).replying = c.replying
           /\ reset(c).sends = c.sends
BY DEF reset, close, IsCon

\* onResponse() took the request at the head off and calls it back.
CalledBack(c, d, f, of) ==
    /\ IsCon(d) /\ d.requests = Tail(c.requests) /\ d.stack = <<f>> \o c.stack
    /\ d.state = c.state /\ d.sock = c.sock /\ d.queue = c.queue
    /\ d.retryEvent = c.retryEvent /\ d.input = c.input /\ d.output = c.output
    /\ d.replying = c.replying /\ d.sends = c.sends
    /\ \A live : Settled(c.requests, c.result, live) => Settled(d.requests, d.result, live)
    /\ of = Head(c.requests) /\ Matching(c.result) => Matching(d.result)

LEMMA CallResult ==
    ASSUME NEW c, IsCon(c), c.requests # <<>>, NEW f \in Frames, NEW of \in Reqs
    PROVE  CalledBack(c, onResponse(c, f, of), f, of)
<1> DEFINE one == [c.result EXCEPT ![Head(c.requests)] = Append(@, of)]
           s == <<f>> \o c.stack
           d == onResponse(c, f, of)
<1>1. c.requests \in Seq(Reqs) /\ c.result \in [Reqs -> Seq(Reqs)] /\ c.stack \in Seq(Frames)
    BY DEF IsCon
<1>2. /\ one \in [Reqs -> Seq(Reqs)]
      /\ \A live : Settled(c.requests, c.result, live) => Settled(Tail(c.requests), one, live)
      /\ of = Head(c.requests) /\ Matching(c.result) => Matching(one)
    BY Zenon, <1>1, SettleHead
<1>3. s \in Seq(Frames)
    BY <1>1, Pushed
<1>4. Tail(c.requests) \in Seq(Reqs)
    BY <1>1, HeadAndTail
<1>5. d = [c EXCEPT !.requests = Tail(c.requests), !.result = one, !.stack = s]
    BY DEF onResponse, IsCon
<1> HIDE DEF one, s, d
<1>6. /\ IsCon(d) /\ d.requests = Tail(c.requests) /\ d.stack = s /\ d.result = one
      /\ d.state = c.state /\ d.sock = c.sock /\ d.queue = c.queue
      /\ d.retryEvent = c.retryEvent /\ d.input = c.input /\ d.output = c.output
      /\ d.replying = c.replying /\ d.sends = c.sends
    BY ZenonT(60), <1>2, <1>3, <1>4, <1>5 DEF IsCon
<1> QED BY Zenon, <1>2, <1>6 DEF CalledBack, d, s

\* free() and fail() start with reset() and a callback.
LEMMA ResetAndCall ==
    ASSUME NEW c, IsCon(c), NEW f \in {"free", "fail"}, NEW d,
           d = IF c.requests = <<>> THEN reset(c)
               ELSE onResponse(reset(c), f, Head(reset(c).requests))
    PROVE  Kept(c, d) /\ Restarted(c, d) /\ Stopped(c, d)
<1> DEFINE e == reset(c)
<1>1. /\ IsCon(e) /\ e.state = "DISCONNECTED" /\ e.sock \in {"IDLE", "FAILED"}
      /\ e.input = <<>> /\ e.output = <<>>
      /\ e.requests = c.requests /\ e.result = c.result
      /\ e.queue = c.queue /\ e.retryEvent = c.retryEvent
      /\ e.stack = c.stack /\ e.replying = c.replying /\ e.sends = c.sends
    BY Zenon, ResetResult
<1> HIDE DEF e
<1>2. CASE c.requests = <<>>
    <2>1. d = e
        BY <1>2 DEF e
    <2> QED BY Zenon, <2>1, <1>1, <1>2 DEF Kept, Restarted, Stopped
<1>3. CASE c.requests # <<>>
    <2>1. d = onResponse(e, f, Head(e.requests))
        BY <1>3 DEF e
    <2>2. Head(e.requests) \in Reqs /\ f \in Frames /\ e.requests # <<>>
        BY <1>1, <1>3, HeadAndTail DEF IsCon, Frames
    <2>3. CalledBack(e, d, f, Head(e.requests))
        BY Zenon, <2>1, <2>2, <1>1, CallResult
    <2>4. Kept(c, d)
        BY Zenon, <2>3, <1>1 DEF Kept, CalledBack
    <2>5. Stopped(c, d)
        <3>1. \E g \in {"free", "fail"} : d.stack = <<g>> \o c.stack
            BY Zenon, <2>3, <1>1 DEF CalledBack
        <3> QED BY Zenon, <3>1, <2>3, <1>1, <1>3 DEF Stopped, CalledBack
    <2> QED BY Zenon, <2>3, <2>4, <2>5, <1>1 DEF Restarted, CalledBack
<1> QED BY <1>2, <1>3

\* free() calls back the first request, or there is none.
LEMMA FreeResult ==
    ASSUME NEW c, IsCon(c)
    PROVE  Kept(c, free(c)) /\ Restarted(c, free(c)) /\ Stopped(c, free(c))
<1>1. reset(c).requests = c.requests
    BY ResetResult
<1>2. free(c) = IF c.requests = <<>> THEN reset(c)
                ELSE onResponse(reset(c), "free", Head(reset(c).requests))
    BY <1>1 DEF free, callback
<1> QED BY Zenon, <1>2, ResetAndCall

\* So does fail().
LEMMA FailResult ==
    ASSUME NEW c, IsCon(c)
    PROVE  Kept(c, fail(c)) /\ Restarted(c, fail(c)) /\ Stopped(c, fail(c))
<1>1. reset(c).requests = c.requests
    BY ResetResult
<1>2. fail(c) = IF c.requests = <<>> THEN reset(c)
                ELSE onResponse(reset(c), "fail", Head(reset(c).requests))
    BY <1>1 DEF fail
<1> QED BY Zenon, <1>2, ResetAndCall

\* retry() starts the timer, or gives up.
LEMMA RetryResult ==
    ASSUME NEW c, IsCon(c)
    PROVE  Kept(c, retry(c)) /\ Restarted(c, retry(c))
<1>1. CASE MayRetry(c)
    <2> DEFINE d == [reset(c) EXCEPT !.retryEvent = TRUE, !.retries = @ + 1]
    <2>1. retry(c) = d
        BY <1>1 DEF retry
    <2>2. /\ IsCon(d) /\ d.state = "DISCONNECTED" /\ d.sock \in {"IDLE", "FAILED"}
          /\ d.input = <<>> /\ d.output = <<>> /\ d.requests = c.requests
          /\ d.result = c.result /\ d.queue = c.queue /\ d.retryEvent /\ d.sends = c.sends
          /\ d.stack = c.stack /\ d.replying = c.replying
        BY ZenonT(60), ResetResult DEF IsCon
    <2> HIDE DEF d
    <2> QED BY Zenon, <2>1, <2>2 DEF Kept, Restarted, Waiting
<1>2. CASE ~MayRetry(c)
    <2>1. retry(c) = free(c)
        BY <1>2 DEF retry
    <2> QED BY Zenon, <2>1, FreeResult
<1> QED BY <1>1, <1>2

\* The event e was made active.
Activated(c, d, e) ==
    /\ IsCon(d) /\ e \in Range(d.queue)
    /\ Range(d.queue) \subseteq Range(c.queue) \cup {e}
    /\ c.queue = <<>> => d.queue = <<e>>
    /\ d.state = c.state /\ d.sock = c.sock /\ d.requests = c.requests
    /\ d.retryEvent = c.retryEvent /\ d.detectClose = c.detectClose
    /\ d.read = c.read /\ d.input = c.input /\ d.output = c.output
    /\ d.result = c.result /\ d.sends = c.sends
    /\ d.stack = c.stack /\ d.replying = c.replying

LEMMA ActivateResult ==
    ASSUME NEW c, IsCon(c), NEW e \in Events
    PROVE  Activated(c, Activate(c, e), e)
<1>1. c.queue \in Seq(Events)
    BY DEF IsCon
<1>2. CASE e \in Range(c.queue)
    <2>1. Activate(c, e) = c /\ c.queue # <<>>
        BY <1>2, <1>1, InRange DEF Activate
    <2> QED BY Zenon, <2>1, <1>2 DEF Activated
<1>3. CASE e \notin Range(c.queue)
    <2> DEFINE d == Activate(c, e)
    <2>1. d = [c EXCEPT !.queue = Append(@, e)]
        BY <1>3 DEF Activate
    <2>2. /\ d.queue = Append(c.queue, e)
          /\ d.state = c.state /\ d.sock = c.sock /\ d.requests = c.requests
          /\ d.retryEvent = c.retryEvent /\ d.detectClose = c.detectClose
          /\ d.read = c.read /\ d.input = c.input /\ d.output = c.output
          /\ d.result = c.result /\ d.sends = c.sends
          /\ d.stack = c.stack /\ d.replying = c.replying /\ DOMAIN d = DOMAIN c
        BY Zenon, <2>1 DEF IsCon
    <2> HIDE DEF d
    <2>3. /\ Append(c.queue, e) \in Seq(Events) /\ Len(c.queue) \in Nat
          /\ DOMAIN Append(c.queue, e) = 1..(Len(c.queue) + 1) /\ DOMAIN c.queue = 1..Len(c.queue)
          /\ Append(c.queue, e)[Len(c.queue) + 1] = e
          /\ \A i \in 1..Len(c.queue) : Append(c.queue, e)[i] = c.queue[i]
        BY <1>1, Appended
    <2>4. IsCon(d)
        BY Zenon, <2>2, <2>3 DEF IsCon
    <2>5. e \in Range(d.queue)
        <3>1. Len(c.queue) + 1 \in 1..(Len(c.queue) + 1)
            BY <2>3
        <3> QED BY Zenon, <3>1, <2>2, <2>3, InRange
    <2>6. ASSUME NEW s \in Range(d.queue)
          PROVE  s \in Range(c.queue) \cup {e}
        <3>1. PICK i \in DOMAIN d.queue : d.queue[i] = s
            BY Zenon, <2>6, InRange
        <3>2. i \in 1..(Len(c.queue) + 1) /\ Append(c.queue, e)[i] = s
            BY Zenon, <3>1, <2>2, <2>3
        <3>3. CASE i = Len(c.queue) + 1
            BY Zenon, <3>2, <3>3, <2>3
        <3>4. CASE i # Len(c.queue) + 1
            <4>1. i \in DOMAIN c.queue
                BY <3>2, <3>4, <2>3
            <4> QED BY Zenon, <4>1, <3>2, <2>3, InRange
        <3> QED BY <3>3, <3>4
    <2>7. c.queue = <<>> => d.queue = <<e>>
        BY SMTT(30), SMTT(60), <2>2
    <2> QED BY Zenon, <2>2, <2>4, <2>5, <2>6, <2>7 DEF Activated, d
<1> QED BY <1>2, <1>3

\* The socket failed and errorCB() is due.
Failed(c, d) ==
    /\ IsCon(d) /\ d.sock = "FAILED"
    /\ "error" \in Range(d.queue)
    /\ Range(d.queue) \subseteq Range(c.queue) \cup {"error"}
    /\ c.queue = <<>> => d.queue = <<"error">>
    /\ d.state = c.state /\ d.requests = c.requests
    /\ d.retryEvent = c.retryEvent /\ d.detectClose = c.detectClose
    /\ d.input = c.input /\ d.output = c.output
    /\ d.result = c.result /\ d.sends = c.sends
    /\ d.stack = c.stack /\ d.replying = c.replying

LEMMA ScheduleResult ==
    ASSUME NEW c, IsCon(c), NEW flag, NEW refused
    PROVE  Failed(c, scheduleErrorCB(c, flag, refused))
<1> DEFINE e == [close(c) EXCEPT !.sock = "FAILED", !.pending = @ \cup {flag},
                                 !.refused = refused]
<1>1. /\ IsCon(e) /\ e.sock = "FAILED" /\ e.queue = c.queue
      /\ e.state = c.state /\ e.requests = c.requests
      /\ e.retryEvent = c.retryEvent /\ e.detectClose = c.detectClose
      /\ e.input = c.input /\ e.output = c.output
      /\ e.result = c.result /\ e.sends = c.sends
      /\ e.stack = c.stack /\ e.replying = c.replying
    BY DEF close, IsCon
<1>2. scheduleErrorCB(c, flag, refused) = Activate(e, "error")
    BY DEF scheduleErrorCB
<1>3. "error" \in Events
    BY DEF Events
<1> HIDE DEF e
<1>4. Activated(e, scheduleErrorCB(c, flag, refused), "error")
    BY Zenon, <1>1, <1>2, <1>3, ActivateResult
<1> QED BY Zenon, <1>1, <1>4 DEF Activated, Failed

\* connect() starts anew, unless the connection is being made already.
LEMMA ConnectResult ==
    ASSUME NEW c, IsCon(c), c.state # "CONNECTING", NEW x \in Connects
    PROVE  Kept(c, connect(c, x)) /\ Restarted(c, connect(c, x))
<1> DEFINE d == connect(c, x)
           f == [reset(c) EXCEPT !.state = "CONNECTING", !.sock = x]
<1>1. CASE x \in {"DNS_LOOKUP", "SOCK_CONNECT"}
    <2>1. d = f
        BY Zenon, <1>1 DEF connect
    <2>2. /\ IsCon(f) /\ f.state = "CONNECTING" /\ f.sock \in {"DNS_LOOKUP", "SOCK_CONNECT"}
          /\ f.input = <<>> /\ f.output = <<>> /\ f.requests = c.requests
          /\ f.result = c.result /\ f.queue = c.queue /\ f.retryEvent = c.retryEvent
          /\ f.stack = c.stack /\ f.replying = c.replying /\ f.sends = c.sends
        BY ZenonT(60), <1>1, ResetResult DEF IsCon
    <2> HIDE DEF f, d
    <2> QED BY Zenon, <2>1, <2>2 DEF Kept, Restarted, Waiting, d
<1>2. CASE x = "throws"
    <2> DEFINE e == reset(c)
    <2>1. d = retry(e)
        BY <1>2 DEF connect
    <2>2. /\ IsCon(e) /\ e.requests = c.requests /\ e.result = c.result
          /\ e.queue = c.queue /\ e.retryEvent = c.retryEvent /\ e.sends = c.sends
          /\ e.stack = c.stack /\ e.replying = c.replying
        BY ResetResult
    <2> HIDE DEF e, d
    <2>3. Kept(e, d) /\ Restarted(e, d)
        BY <2>1, <2>2, RetryResult
    <2>4. Stopped(e, d) => Stopped(c, d)
        BY Zenon, <2>2 DEF Stopped
    <2>5. Waiting(e, d) => Waiting(c, d)
        BY Zenon, <2>2 DEF Waiting
    <2> QED BY Zenon, <2>2, <2>3, <2>4, <2>5 DEF Kept, Restarted, d
<1>3. CASE x = "fails"
    <2> DEFINE e == [f EXCEPT !.sock = "SOCK_CONNECT"]
               no == FALSE
    <2>1. d = scheduleErrorCB(e, "ERROR", no)
        BY <1>3 DEF connect
    <2>2. /\ IsCon(e) /\ e.state = "CONNECTING" /\ e.input = <<>> /\ e.output = <<>>
          /\ e.requests = c.requests /\ e.result = c.result /\ e.queue = c.queue
          /\ e.stack = c.stack /\ e.replying = c.replying
          /\ e.retryEvent = c.retryEvent /\ e.sends = c.sends
        BY ZenonT(60), ResetResult DEF IsCon
    <2> HIDE DEF e, d, no
    <2>3. Failed(e, d)
        BY Zenon, <2>1, <2>2, ScheduleResult
    <2>4. Waiting(c, d)
        BY Zenon, <2>2, <2>3 DEF Waiting, Failed
    <2> QED BY Zenon, <2>2, <2>3, <2>4 DEF Kept, Restarted, Failed, d
<1> QED BY SMTT(30), SMTT(60), <1>1, <1>2, <1>3 DEF Connects

\* fail() after the callback, done() after the callback when it closes: nothing is
\* left, or the connection is made again.
LEMMA ResetAndConnect ==
    ASSUME NEW c, IsCon(c), NEW x \in Connects, NEW d,
           \/ c.requests = <<>> /\ (d = reset(c) \/ d = free(reset(c)))
           \/ c.requests # <<>> /\ d = connect(reset(c), x)
    PROVE  Kept(c, d) /\ Restarted(c, d) /\ (c.requests # <<>> \/ Stopped(c, d))
<1> DEFINE e == reset(c)
<1>1. /\ IsCon(e) /\ e.state = "DISCONNECTED" /\ e.sock \in {"IDLE", "FAILED"}
      /\ e.input = <<>> /\ e.output = <<>>
      /\ e.requests = c.requests /\ e.result = c.result
      /\ e.queue = c.queue /\ e.retryEvent = c.retryEvent
      /\ e.stack = c.stack /\ e.replying = c.replying /\ e.sends = c.sends
    BY Zenon, ResetResult
<1> HIDE DEF e
<1>2. CASE c.requests = <<>> /\ d = reset(c)
    <2>1. d = e
        BY <1>2 DEF e
    <2> QED BY Zenon, <2>1, <1>1, <1>2 DEF Kept, Restarted, Stopped
<1>3. CASE d = free(reset(c)) \/ (c.requests # <<>> /\ d = connect(reset(c), x))
    <2>1. Kept(e, d) /\ Restarted(e, d) /\ (c.requests # <<>> \/ Stopped(e, d))
        BY Zenon, <1>1, <1>3, FreeResult, ConnectResult DEF e
    <2>2. Stopped(e, d) => Stopped(c, d)
        BY Zenon, <1>1 DEF Stopped
    <2>3. Waiting(e, d) => Waiting(c, d)
        BY Zenon, <1>1 DEF Waiting
    <2> QED BY Zenon, <2>1, <2>2, <2>3, <1>1 DEF Kept, Restarted
<1> QED BY Zenon, <1>2, <1>3

\* c wrote the request at the head and became d.
Written(c, d) ==
    /\ IsCon(d) /\ d.state = "WRITING" /\ d.requests # <<>> /\ ~d.detectClose
    /\ d.output = Append(c.output, Head(d.requests)) /\ d.output # <<>>
    /\ d.requests = c.requests /\ d.result = c.result
    /\ d.sock = c.sock /\ d.queue = c.queue /\ d.input = c.input
    /\ d.retryEvent = c.retryEvent /\ d.stack = c.stack
    /\ d.sends = c.sends /\ d.replying = c.replying

LEMMA WriteResult ==
    ASSUME NEW c, IsCon(c), c.requests # <<>>
    PROVE  Written(c, write(c))
<1> DEFINE d == write(c)
           o == Append(c.output, Head(c.requests))
<1>1. c.output \in Seq(Reqs) /\ Head(c.requests) \in Reqs
    BY HeadAndTail DEF IsCon
<1>2. o \in Seq(Reqs) /\ o # <<>>
    BY <1>1, Appended
<1>3. d = [c EXCEPT !.output = o, !.detectClose = FALSE, !.read = FALSE, !.state = "WRITING"]
    BY DEF write
<1> HIDE DEF d, o
<1>4. /\ IsCon(d) /\ d.state = "WRITING" /\ d.requests = c.requests /\ ~d.detectClose
      /\ d.output = o /\ d.sock = c.sock /\ d.queue = c.queue /\ d.input = c.input
      /\ d.retryEvent = c.retryEvent /\ d.sends = c.sends /\ d.result = c.result
      /\ d.stack = c.stack /\ d.replying = c.replying
    BY ZenonT(60), <1>2, <1>3 DEF IsCon
<1> QED BY Zenon, <1>2, <1>4 DEF Written, d, o
--------------------------------------------------------------------------------
(***************************************************************************)
(* What that means for the invariant.                                      *)
(***************************************************************************)
\* The empty sequence has no index.
LEMMA Nothing ==
    /\ Len(<<>>) = 0 /\ Len(<<>>) <= 1 /\ DOMAIN <<>> = {}
    /\ \A e : e \notin Range(<<>>)
BY DEF Range

\* A connection that ended or starts anew is steady,
LEMMA RestartedSteady ==
    ASSUME NEW c, NEW d, IsCon(c), Restarted(c, d)
    PROVE  /\ Steady(d) /\ d.sock # "SOCK_READY" /\ d.state \in Unconnected
           /\ d.input = <<>> /\ d.output = <<>>
<1>1. CASE Stopped(c, d)
    <2>1. d.requests = <<>> \/ d.stack # <<>>
        <3>1. ASSUME NEW f \in {"free", "fail"} PROVE <<f>> \o c.stack # <<>>
            <4>1. f \in Frames /\ c.stack \in Seq(Frames)
                BY DEF Frames, IsCon
            <4> QED BY <4>1, Pushed
        <3> QED BY Zenon, <3>1, <1>1 DEF Stopped
    <2> QED BY Zenon, <2>1, <1>1 DEF Restarted, Stopped, Steady, Active, Unconnected
<1>2. CASE Waiting(c, d)
    BY Zenon, <1>2 DEF Restarted, Waiting, Steady, Active, Unconnected
<1> QED BY Zenon, <1>1, <1>2 DEF Restarted

\* only done() is at the bottom of the stack,
LEMMA RestartedNested ==
    ASSUME NEW c, NEW d, IsCon(c), Restarted(c, d),
           \A i \in DOMAIN c.stack : c.stack[i] \in {"keep", "close"} => i = Len(c.stack)
    PROVE  Nested(d) /\ Quiet(d)
<1>1. d.state \in Unconnected /\ d.state \notin {"READING_FIRSTLINE", "READING_BODY", "WRITING"}
    BY Zenon, RestartedSteady DEF Unconnected
<1>2. \A i \in DOMAIN d.stack : d.stack[i] \in {"keep", "close"} => i = Len(d.stack)
    <2>1. ASSUME NEW f \in {"free", "fail"}, d.stack = <<f>> \o c.stack,
                 NEW i \in DOMAIN d.stack, d.stack[i] \in {"keep", "close"}
          PROVE  i = Len(d.stack)
        <3>1. c.stack \in Seq(Frames) /\ f \in Frames /\ f \notin {"keep", "close"}
            BY DEF IsCon, Frames
        <3>2. /\ Len(d.stack) = Len(c.stack) + 1 /\ Len(c.stack) \in Nat
              /\ DOMAIN d.stack = 1..(Len(c.stack) + 1) /\ DOMAIN c.stack = 1..Len(c.stack)
              /\ d.stack[1] = f
              /\ \A j \in 1..Len(c.stack) : d.stack[j + 1] = c.stack[j]
            BY <3>1, <2>1, Pushed
        <3>3. i # 1
            BY Zenon, <3>1, <3>2, <2>1
        <3>4. i - 1 \in 1..Len(c.stack) /\ (i - 1) + 1 = i
            BY <3>2, <3>3
        <3>5. c.stack[i - 1] = d.stack[i] /\ i - 1 \in DOMAIN c.stack
            BY Zenon, <3>2, <3>4
        <3>6. i - 1 = Len(c.stack)
            BY Zenon, <3>5, <2>1
        <3> QED BY <3>2, <3>4, <3>6
    <2>2. d.stack = c.stack \/ \E f \in {"free", "fail"} : d.stack = <<f>> \o c.stack
        BY Zenon DEF Restarted, Stopped, Waiting
    <2> QED BY Zenon, <2>1, <2>2
<1> QED BY Zenon, <1>1, <1>2 DEF Nested, Quiet

\* has no event left of a socket before,
LEMMA RestartedOpen ==
    ASSUME NEW c, NEW d, IsCon(c), Restarted(c, d), "connect" \notin Range(c.queue)
    PROVE  Open(d)
<1>1. d.state \in Unconnected
    BY Zenon, RestartedSteady
<1>2. "connect" \notin Range(d.queue)
    BY Zenon DEF Restarted, Stopped, Waiting
<1> QED BY Zenon, <1>1, <1>2 DEF Open

LEMMA RestartedFresh ==
    ASSUME NEW c, NEW d, IsCon(c), Restarted(c, d),
           c.queue = <<>>, ~c.retryEvent, c.stack = <<>>,
           c.requests # <<>> \/ Stopped(c, d)
    PROVE  Fresh(d)
<1>1. Len(<<"error">>) <= 1 /\ <<"error">>[1] = "error" /\ <<"error">> # <<>>
    OBVIOUS
<1>2. CASE Stopped(c, d)
    <2>1. d.stack # <<>> => Len(d.stack) = 1 /\ d.stack[1] \notin {"keep", "close"}
        <3>1. d.stack = <<>> \/ \E f \in {"free", "fail"} : d.stack = <<f>> \o <<>>
            BY Zenon, <1>2 DEF Stopped
        <3>2. ASSUME NEW f \in {"free", "fail"}
              PROVE  Len(<<f>> \o <<>>) = 1 /\ (<<f>> \o <<>>)[1] \notin {"keep", "close"}
            OBVIOUS
        <3> QED BY Zenon, <3>1, <3>2
    <2> QED BY Zenon, <2>1, <1>2, Nothing DEF Stopped, Fresh
<1>3. CASE Waiting(c, d) /\ c.requests # <<>>
    BY ZenonT(60), <1>1, <1>3, Nothing DEF Waiting, Fresh
<1> QED BY Zenon, <1>2, <1>3 DEF Restarted

\* and what waits for it was not sent.
LEMMA RestartedOnce ==
    ASSUME NEW c, NEW d, NEW M, IsCon(c), Restarted(c, d),
           \A r \in Reqs : c.sends[r] <= Limit(c, r) /\ (r \notin M => Unsent(c, r)),
           \A i \in DOMAIN d.requests : Unsent(c, d.requests[i])
    PROVE  Once(d, M)
<1>1. d.sends = c.sends /\ d.replying = c.replying /\ d.output = <<>>
    BY Zenon DEF Restarted
<1> QED BY Zenon, <1>1 DEF Once, Limit, Unsent

\* Nothing is on its way from or to a server that is not connected.
LEMMA NothingFlows ==
    ASSUME NEW c, NEW p, c.state \notin Active, c.input = <<>>, c.output = <<>>,
           p.got = <<>>, p.replies = <<>>
    PROVE  Flow(c, p)
BY Zenon, Nothing DEF Flow

\* No server is a value of its type.
LEMMA NoPeerType ==
    /\ NoPeer \in [got : Seq(Reqs), replies : Seq(Response), fin : BOOLEAN]
    /\ NoPeer.got = <<>> /\ NoPeer.replies = <<>>
BY SMTT(30), SMTT(60) DEF NoPeer

\* The server after a step: gone with the socket.
Other(p) == IF con'.sock \in {"SOCK_READY"} THEN p ELSE NoPeer

\* The server stays while the socket is the same.
LEMMA SamePeer ==
    ASSUME TypeInv, peer' = Other(peer), IsCon(con'), con'.sock = con.sock,
           made' \subseteq Reqs, dropped' \subseteq made'
    PROVE  peer' = peer /\ TypeInv'
<1>1. CASE con.sock = "SOCK_READY"
    BY <1>1 DEF Other, TypeInv
<1>2. CASE con.sock # "SOCK_READY"
    BY <1>2 DEF Other, TypeInv
<1> QED BY <1>1, <1>2

\* The parts of the invariant.
LEMMA Assembled ==
    ASSUME custom' = custom, TypeInv',
           Settled(con'.requests, con'.result, made' \ dropped'),
           Nested(con'), Steady(con'),
           ~Cancels => Open(con'),
           ~Cancels /\ ~Resubmits => Fresh(con'),
           ~Cancels /\ ~Resubmits /\ ~Reenters => Once(con', made'),
           ~Reenters => /\ Matching(con'.result) /\ Quiet(con')
                        /\ Closing(con') \/ Flow(con', peer')
    PROVE  IInv'
<1>1. Cancels' = Cancels /\ Reenters' = Reenters /\ Resubmits' = Resubmits
    BY DEF Cancels, Reenters, Resubmits
<1> QED BY Zenon, <1>1 DEF IInv

\* What is to be shown of a step that ends the connection.
LEMMA RestartInv ==
    ASSUME TypeInv, custom' = custom, peer' = Other(peer),
           made' \subseteq Reqs, dropped' \subseteq made',
           NEW c, IsCon(c), Restarted(c, con'),
           Settled(con'.requests, con'.result, made' \ dropped'),
           ~Reenters => Matching(con'.result),
           \A i \in DOMAIN c.stack : c.stack[i] \in {"keep", "close"} => i = Len(c.stack),
           ~Cancels => "connect" \notin Range(c.queue),
           ~Cancels /\ ~Resubmits => /\ c.queue = <<>> /\ ~c.retryEvent /\ c.stack = <<>>
                                     /\ c.requests # <<>> \/ Stopped(c, con'),
           ~Cancels /\ ~Resubmits /\ ~Reenters =>
             /\ \A r \in Reqs : c.sends[r] <= Limit(c, r) /\ (r \notin made' => Unsent(c, r))
             /\ \A i \in DOMAIN con'.requests : Unsent(c, con'.requests[i])
    PROVE  IInv'
<1>1. /\ Steady(con') /\ con'.sock # "SOCK_READY" /\ con'.state \in Unconnected
      /\ con'.input = <<>> /\ con'.output = <<>>
    BY Zenon, RestartedSteady
<1>2. Nested(con') /\ Quiet(con')
    BY Zenon, RestartedNested
<1>3. peer' = NoPeer
    BY <1>1 DEF Other
<1>4. IsCon(con')
    BY Zenon DEF Restarted
<1>5. TypeInv'
    BY Zenon, <1>3, <1>4, NoPeerType DEF TypeInv
<1>6. ~Cancels => Open(con')
    BY Zenon, RestartedOpen
<1>7. ~Cancels /\ ~Resubmits => Fresh(con')
    BY Zenon, RestartedFresh
<1>8. ~Cancels /\ ~Resubmits /\ ~Reenters => Once(con', made')
    BY Zenon, RestartedOnce
<1>9. Flow(con', peer')
    <2>1. con'.state \notin Active
        BY <1>1 DEF Unconnected, Active
    <2>2. peer'.got = <<>> /\ peer'.replies = <<>>
        BY Zenon, <1>3, NoPeerType
    <2> QED BY Zenon, <2>1, <2>2, <1>1, NothingFlows
<1> QED BY Zenon, <1>1, <1>2, <1>5, <1>6, <1>7, <1>8, <1>9, Assembled

\* What waits behind the head was not sent.
LEMMA OnceTail ==
    ASSUME NEW c, NEW M, IsCon(c), Once(c, M), c.requests # <<>>
    PROVE  \A i \in DOMAIN Tail(c.requests) : Unsent(c, Tail(c.requests)[i])
<1> SUFFICES ASSUME NEW i \in DOMAIN Tail(c.requests)
             PROVE  Unsent(c, Tail(c.requests)[i])
    OBVIOUS
<1>1. /\ DOMAIN c.requests = 1..Len(c.requests) /\ Len(c.requests) \in Nat
      /\ i \in 1..(Len(c.requests) - 1)
      /\ Tail(c.requests)[i] = c.requests[i + 1]
    BY HeadAndTail DEF IsCon
<1>2. i + 1 \in DOMAIN c.requests /\ i + 1 > 1
    BY <1>1
<1> QED BY Zenon, <1>1, <1>2 DEF Once

\* Functions that end the connection, called with c, which has the requests of con.
LEMMA AgainInv ==
    ASSUME IInv, custom' = custom, peer' = Other(peer), made' = made, dropped' = dropped,
           NEW c, IsCon(c), Restarted(c, con'), Kept(c, con'),
           c.requests = con.requests, c.result = con.result,
           c.sends = con.sends, c.replying = con.replying,
           \A i \in DOMAIN c.stack : c.stack[i] \in {"keep", "close"} => i = Len(c.stack),
           ~Cancels => "connect" \notin Range(c.queue),
           ~Cancels /\ ~Resubmits => /\ c.queue = <<>> /\ ~c.retryEvent /\ c.stack = <<>>
                                     /\ c.requests # <<>> \/ Stopped(c, con'),
           ~Cancels /\ ~Resubmits =>
             Stopped(c, con') \/ con.state \in Unconnected \/ con.stack # <<>>
    PROVE  IInv'
<1>1. TypeInv /\ made' \subseteq Reqs /\ dropped' \subseteq made' /\ IsCon(con)
    BY Zenon DEF IInv, TypeInv
<1>2. Settled(con'.requests, con'.result, made' \ dropped')
    BY Zenon DEF IInv, Kept
<1>3. ~Reenters => Matching(con'.result)
    BY Zenon DEF IInv, Kept
<1>4. ASSUME ~Cancels, ~Resubmits, ~Reenters
      PROVE  /\ \A r \in Reqs : c.sends[r] <= Limit(c, r) /\ (r \notin made' => Unsent(c, r))
             /\ \A i \in DOMAIN con'.requests : Unsent(c, con'.requests[i])
    <2>1. Once(con, made)
        BY Zenon, <1>4 DEF IInv
    <2>2. \A r \in Reqs : c.sends[r] <= Limit(c, r) /\ (r \notin made' => Unsent(c, r))
        BY Zenon, <2>1 DEF Once, Limit, Unsent
    <2>3. \A r : Unsent(con, r) => Unsent(c, r)
        BY Zenon DEF Unsent
    <2>4. CASE Stopped(c, con') /\ con.requests = <<>>
        BY Zenon, <2>2, <2>4, Nothing DEF Stopped
    <2>5. CASE Stopped(c, con') /\ con.requests # <<>>
        <3>1. con'.requests = Tail(con.requests)
            BY Zenon, <2>5 DEF Stopped
        <3> QED BY Zenon, <3>1, <2>1, <2>2, <2>3, <2>5, <1>1, OnceTail
    <2>6. CASE Waiting(c, con') /\ (con.state \in Unconnected \/ con.stack # <<>>)
        <3>1. con'.requests = con.requests
            BY Zenon, <2>6 DEF Waiting
        <3> QED BY Zenon, <3>1, <2>1, <2>2, <2>3, <2>6 DEF Once
    <2> QED BY Zenon, <2>4, <2>5, <2>6, <1>4 DEF Restarted
<1> QED BY Zenon, <1>1, <1>2, <1>3, <1>4, RestartInv

\* The request at the head was written.
LEMMA WrittenSteady ==
    ASSUME NEW c, NEW d, IsCon(c), Written(c, d), c.sock # "IDLE",
           c.sock = "FAILED" => Closing(c) \/ "error" \in Range(c.queue),
           \A i \in DOMAIN c.stack : c.stack[i] \in {"keep", "close"} => i = Len(c.stack),
           c.stack # <<>> => c.stack[1] \in {"keep", "close"}
    PROVE  Steady(d) /\ Nested(d)
BY ZenonT(60) DEF Written, Steady, Nested, Closing, Unconnected

LEMMA WrittenFresh ==
    ASSUME NEW c, NEW d, IsCon(c), Written(c, d), ~c.retryEvent, Len(c.queue) <= 1,
           c.queue # <<>> => \/ c.queue[1] = "read" /\ c.sock = "SOCK_READY"
                             \/ c.queue[1] = "error" /\ c.sock = "FAILED",
           c.stack # <<>> => Len(c.stack) = 1 /\ c.queue = <<>>
    PROVE  Fresh(d)
BY ZenonT(60) DEF Written, Fresh

LEMMA WrittenOnceMore ==
    ASSUME NEW c, NEW d, NEW M, IsCon(c), Written(c, d), c.stack = <<>>, c.output = <<>>,
           \A r \in Reqs : c.sends[r] <= Limit(c, r) /\ (r \notin M => Unsent(c, r)),
           \A i \in DOMAIN c.requests : i > 1 => Unsent(c, c.requests[i]),
           c.sends[Head(c.requests)] < Limit(c, Head(c.requests))
    PROVE  Once(d, M)
<1>1. d.output = <<Head(d.requests)>>
    <2>1. Append(<<>>, Head(d.requests)) = <<Head(d.requests)>>
        OBVIOUS
    <2> QED BY Zenon, <2>1 DEF Written
<1>2. d.state \notin Unconnected
    BY DEF Written, Unconnected
<1>3. /\ d.requests = c.requests /\ d.sends = c.sends /\ d.replying = c.replying
      /\ d.stack = <<>>
    BY Zenon DEF Written
<1>4. \A r : Limit(d, r) = Limit(c, r) /\ (Unsent(c, r) => Unsent(d, r))
    BY Zenon, <1>3 DEF Limit, Unsent
<1> QED BY Zenon, <1>1, <1>2, <1>3, <1>4 DEF Once

LEMMA WrittenFlow ==
    ASSUME NEW c, NEW d, NEW p, IsCon(c), Written(c, d), c.output = <<>>,
           \/ c.input = <<>> /\ p.got = <<>> /\ p.replies = <<>>
           \/ /\ Head(c.requests) \in c.replying
              /\ \A i \in DOMAIN p.got : p.got[i] = Head(c.requests)
              /\ \A i \in DOMAIN p.replies : p.replies[i].of = Head(c.requests)
              /\ \A i \in DOMAIN c.input : c.input[i].of = Head(c.requests)
    PROVE  Flow(d, p)
<1>1. /\ d.output = <<Head(d.requests)>> /\ Len(d.output) <= 1
      /\ \A i \in DOMAIN d.output : d.output[i] = Head(d.requests)
    <2> DEFINE h == Head(d.requests)
    <2> HIDE DEF h
    <2>1. /\ Append(<<>>, h) = <<h>> /\ Len(<<h>>) <= 1
          /\ \A i \in DOMAIN <<h>> : <<h>>[i] = h
        OBVIOUS
    <2>2. d.output = <<h>>
        BY Zenon, <2>1 DEF Written, h
    <2> QED BY Zenon, <2>1, <2>2 DEF h
<1>2. /\ d.state \in Active /\ d.requests = c.requests /\ d.input = c.input
      /\ d.replying = c.replying
    BY Zenon DEF Written, Active
<1>3. CASE c.input = <<>> /\ p.got = <<>> /\ p.replies = <<>>
    <2>1. Last(<<>>, <<>>)
        BY Zenon, Nothing DEF Last
    <2> QED BY ZenonT(60), <2>1, <1>1, <1>2, <1>3, Nothing DEF Flow
<1>4. CASE /\ Head(c.requests) \in c.replying
           /\ \A i \in DOMAIN p.got : p.got[i] = Head(c.requests)
           /\ \A i \in DOMAIN p.replies : p.replies[i].of = Head(c.requests)
           /\ \A i \in DOMAIN c.input : c.input[i].of = Head(c.requests)
    BY ZenonT(60), <1>1, <1>2, <1>4 DEF Flow
<1> QED BY Zenon, <1>3, <1>4

\* What is to be shown of a step that writes a request.
LEMMA WrittenInv ==
    ASSUME TypeInv, custom' = custom, peer' = Other(peer),
           made' \subseteq Reqs, dropped' \subseteq made',
           NEW c, IsCon(c), Written(c, con'), c.sock = con.sock, c.sock # "IDLE",
           c.sock = "FAILED" => Closing(c) \/ "error" \in Range(c.queue),
           Settled(con'.requests, con'.result, made' \ dropped'),
           \A i \in DOMAIN c.stack : c.stack[i] \in {"keep", "close"} => i = Len(c.stack),
           c.stack # <<>> => c.stack[1] \in {"keep", "close"},
           ~Reenters =>
             /\ c.stack = <<>> /\ c.output = <<>> /\ Matching(con'.result)
             /\ \/ c.input = <<>> /\ peer.got = <<>> /\ peer.replies = <<>>
                \/ /\ Head(c.requests) \in c.replying
                   /\ \A i \in DOMAIN peer.got : peer.got[i] = Head(c.requests)
                   /\ \A i \in DOMAIN peer.replies : peer.replies[i].of = Head(c.requests)
                   /\ \A i \in DOMAIN c.input : c.input[i].of = Head(c.requests),
           ~Cancels => c.sock \in {"SOCK_READY", "FAILED"} /\ "connect" \notin Range(c.queue),
           ~Cancels /\ ~Resubmits =>
             /\ ~c.retryEvent /\ Len(c.queue) <= 1
             /\ c.queue # <<>> => \/ c.queue[1] = "read" /\ c.sock = "SOCK_READY"
                                  \/ c.queue[1] = "error" /\ c.sock = "FAILED"
             /\ c.stack # <<>> => Len(c.stack) = 1 /\ c.queue = <<>>,
           ~Cancels /\ ~Resubmits /\ ~Reenters =>
             /\ \A r \in Reqs : c.sends[r] <= Limit(c, r) /\ (r \notin made' => Unsent(c, r))
             /\ \A i \in DOMAIN c.requests : i > 1 => Unsent(c, c.requests[i])
             /\ c.sends[Head(c.requests)] < Limit(c, Head(c.requests))
    PROVE  IInv'
<1>1. IsCon(con') /\ con'.sock = con.sock /\ con'.queue = c.queue /\ con'.stack = c.stack
    BY Zenon DEF Written
<1>2. peer' = peer /\ TypeInv'
    BY Zenon, <1>1, SamePeer
<1>3. Steady(con') /\ Nested(con')
    BY Zenon, WrittenSteady
<1>4. ~Cancels => Open(con')
    BY Zenon, <1>1 DEF Open
<1>5. ~Cancels /\ ~Resubmits => Fresh(con')
    BY Zenon, WrittenFresh
<1>6. ~Cancels /\ ~Resubmits /\ ~Reenters => Once(con', made')
    BY Zenon, WrittenOnceMore
<1>7. ~Reenters => Flow(con', peer') /\ Quiet(con')
    <2>1. ~Reenters => Flow(con', peer)
        BY Zenon, WrittenFlow
    <2> QED BY Zenon, <2>1, <1>1, <1>2 DEF Quiet
<1> QED BY Zenon, <1>2, <1>3, <1>4, <1>5, <1>6, <1>7, Assembled

\* c is con without the event that is called.
Dequeued(c) ==
    /\ IsCon(c) /\ c.queue = Tail(con.queue)
    /\ c.state = con.state /\ c.sock = con.sock /\ c.requests = con.requests
    /\ c.retryEvent = con.retryEvent /\ c.detectClose = con.detectClose
    /\ c.read = con.read /\ c.input = con.input /\ c.output = con.output
    /\ c.stack = con.stack /\ c.replying = con.replying
    /\ c.result = con.result /\ c.sends = con.sends

LEMMA One ==
    \A n \in Nat \ {0} : n <= 1 => n = 1
OBVIOUS

LEMMA Dequeue ==
    ASSUME IInv, con.queue # <<>>, NEW c, Dequeued(c)
    PROVE  /\ Head(con.queue) \in Events /\ Head(con.queue) = con.queue[1]
           /\ \A e \in Range(con.queue) : e # Head(con.queue) => e \in Range(c.queue)
           /\ ~Cancels => "connect" \notin Range(c.queue)
           /\ ~Cancels /\ ~Resubmits => c.queue = <<>> /\ ~c.retryEvent
<1> DEFINE q == con.queue
<1>1. q \in Seq(Events) /\ q # <<>> /\ c.queue = Tail(q)
    BY Zenon DEF IInv, TypeInv, IsCon, Dequeued
<1>2. /\ Head(q) \in Events /\ Head(q) = q[1] /\ Len(q) \in Nat \ {0}
      /\ DOMAIN q = 1..Len(q) /\ DOMAIN Tail(q) = 1..(Len(q) - 1)
      /\ \A i \in 1..(Len(q) - 1) : Tail(q)[i] = q[i + 1]
      /\ Len(q) = 1 => Tail(q) = <<>>
    BY <1>1, HeadAndTail, Popped
<1> HIDE DEF q
<1>3. ASSUME NEW e, e \in Range(q), e # Head(q)
      PROVE  e \in Range(Tail(q))
    <2>1. PICK i \in DOMAIN q : q[i] = e
        BY Zenon, <1>3, InRange
    <2>2. i # 1
        BY Zenon, <2>1, <1>2, <1>3
    <2>3. i - 1 \in 1..(Len(q) - 1) /\ (i - 1) + 1 = i
        BY <2>2, <1>2
    <2>4. i - 1 \in DOMAIN Tail(q) /\ Tail(q)[i - 1] = e
        BY Zenon, <2>1, <2>3, <1>2
    <2> QED BY Zenon, <2>4, InRange
<1>4. ASSUME NEW e, e \in Range(Tail(q))
      PROVE  e \in Range(q)
    <2>1. PICK i \in DOMAIN Tail(q) : Tail(q)[i] = e
        BY Zenon, <1>4, InRange
    <2>2. i + 1 \in DOMAIN q /\ q[i + 1] = e
        BY <2>1, <1>2
    <2> QED BY Zenon, <2>2, InRange
<1>5. ~Cancels => "connect" \notin Range(Tail(q))
    <2> SUFFICES ASSUME ~Cancels, "connect" \in Range(Tail(q)) PROVE FALSE
        OBVIOUS
    <2>1. Open(con) /\ "connect" \in Range(q)
        BY Zenon, <1>4 DEF IInv, q
    <2>2. q = <<"connect">>
        BY Zenon, <2>1 DEF Open, q
    <2>3. Len(<<"connect">>) = 1
        OBVIOUS
    <2>4. Tail(q) = <<>>
        BY Zenon, <2>2, <2>3, <1>2
    <2> QED BY Zenon, <2>4, Nothing
<1>6. ~Cancels /\ ~Resubmits => Tail(q) = <<>> /\ ~con.retryEvent
    <2> SUFFICES ASSUME ~Cancels, ~Resubmits PROVE Tail(q) = <<>> /\ ~con.retryEvent
        OBVIOUS
    <2>1. Fresh(con)
        BY Zenon DEF IInv
    <2>2. Len(q) <= 1 /\ ~con.retryEvent
        BY Zenon, <2>1, <1>1 DEF Fresh, q
    <2> QED BY Zenon, <2>2, <1>2, One
<1> QED BY Zenon, <1>1, <1>2, <1>3, <1>5, <1>6 DEF Dequeued, q

\* An event that changes nothing.
LEMMA IgnoredInv ==
    ASSUME IInv, custom' = custom, peer' = Other(peer), made' = made, dropped' = dropped,
           con.stack = <<>>, con.queue # <<>>, Dequeued(con'),
           Head(con.queue) = "connect" => con.state # "CONNECTING",
           Head(con.queue) = "read" => con.state # "IDLE",
           Head(con.queue) = "write" => con.state # "WRITING" \/ con.output # <<>>,
           Head(con.queue) = "error" => con.state = "DISCONNECTED"
    PROVE  IInv'
<1> DEFINE d == con'
<1>1. /\ Head(con.queue) \in Events /\ Head(con.queue) = con.queue[1]
      /\ \A e \in Range(con.queue) : e # Head(con.queue) => e \in Range(d.queue)
      /\ ~Cancels => "connect" \notin Range(d.queue)
      /\ ~Cancels /\ ~Resubmits => d.queue = <<>> /\ ~d.retryEvent
    BY Zenon, Dequeue
<1>2. /\ IsCon(d) /\ d.state = con.state /\ d.sock = con.sock /\ d.requests = con.requests
      /\ d.retryEvent = con.retryEvent /\ d.detectClose = con.detectClose
      /\ d.read = con.read /\ d.input = con.input /\ d.output = con.output
      /\ d.stack = con.stack /\ d.replying = con.replying
      /\ d.result = con.result /\ d.sends = con.sends
    BY Zenon DEF Dequeued
<1>3. /\ TypeInv /\ Settled(con.requests, con.result, made \ dropped)
      /\ Nested(con) /\ Steady(con)
    BY Zenon DEF IInv
<1>4. TypeInv' /\ peer' = peer
    BY Zenon, <1>2, <1>3, SamePeer DEF TypeInv
<1> HIDE DEF d
<1>5. Nested(d) /\ Quiet(d)
    BY Zenon, <1>2, <1>3 DEF Nested, Quiet
<1>6. Steady(d)
    <2>1. d.sock = "FAILED" => d.state = "DISCONNECTED" \/ "error" \in Range(d.queue)
        BY Zenon, <1>1, <1>2, <1>3 DEF Steady, Closing
    <2>2. d.state = "CONNECTING" /\ d.sock = "SOCK_READY" => "connect" \in Range(d.queue)
        BY Zenon, <1>1, <1>2, <1>3 DEF Steady
    <2>3. d.state = "WRITING" => d.output # <<>> \/ "write" \in Range(d.queue)
        BY Zenon, <1>1, <1>2, <1>3 DEF Steady
    <2> QED BY ZenonT(60), <1>2, <1>3, <2>1, <2>2, <2>3 DEF Steady
<1>7. ~Cancels => Open(d)
    BY Zenon, <1>1, <1>2 DEF Open, IInv
<1>8. ~Cancels /\ ~Resubmits => Fresh(d)
    <2> SUFFICES ASSUME ~Cancels, ~Resubmits PROVE Fresh(d)
        OBVIOUS
    <2>1. Fresh(con) /\ d.queue = <<>> /\ ~d.retryEvent
        BY Zenon, <1>1 DEF IInv
    <2>2. con.queue[1] \in {"connect", "read", "write", "error"}
        BY Zenon, <1>1 DEF Events
    <2>3. con.state # "IDLE"
        BY Zenon, <2>1, <2>2, <1>1 DEF Fresh
    <2> QED BY ZenonT(60), <2>1, <2>3, <1>2, Nothing DEF Fresh
<1>9. ~Cancels /\ ~Resubmits /\ ~Reenters => Once(d, made)
    BY Zenon, <1>2 DEF IInv, Once, Limit, Unsent
<1>10. ~Reenters => Matching(d.result) /\ Flow(d, peer)
    BY Zenon, <1>2 DEF IInv, Closing, Flow
<1> QED BY Zenon, <1>2, <1>3, <1>4, <1>5, <1>6, <1>7, <1>8, <1>9, <1>10, Assembled DEF d

\* What follows the first response of the input.
LEMMA LastTail ==
    ASSUME NEW input \in Seq(Response), NEW replies, input # <<>>, Last(input, replies)
    PROVE  /\ Last(Tail(input), replies)
           /\ Head(input).kind = "keep" => Tail(input) = <<>> /\ replies = <<>>
<1>1. /\ Head(input) = input[1] /\ Len(input) \in Nat \ {0} /\ Len(Tail(input)) = Len(input) - 1
      /\ DOMAIN input = 1..Len(input) /\ DOMAIN Tail(input) = 1..(Len(input) - 1)
      /\ \A i \in 1..(Len(input) - 1) : Tail(input)[i] = input[i + 1]
      /\ Len(input) = 1 => Tail(input) = <<>>
    BY HeadAndTail, Popped
<1>2. ASSUME NEW i \in DOMAIN Tail(input), Tail(input)[i].kind = "keep"
      PROVE  i = Len(Tail(input)) /\ replies = <<>>
    <2>1. i + 1 \in DOMAIN input /\ Tail(input)[i] = input[i + 1]
        BY <1>1
    <2>2. i + 1 = Len(input) /\ replies = <<>>
        BY Zenon, <2>1, <1>2 DEF Last
    <2> QED BY <2>2, <1>1
<1>3. ASSUME Head(input).kind = "keep"
      PROVE  Tail(input) = <<>> /\ replies = <<>>
    <2>1. 1 \in DOMAIN input
        BY <1>1
    <2>2. 1 = Len(input) /\ replies = <<>>
        BY Zenon, <2>1, <1>1, <1>3 DEF Last
    <2> QED BY Zenon, <2>2, <1>1
<1> QED BY Zenon, <1>2, <1>3 DEF Last

\* All of the input is about one request.
LEMMA OwnTail ==
    ASSUME NEW input \in Seq(Response), input # <<>>, NEW h,
           \A i \in DOMAIN input : input[i].of = h
    PROVE  Head(input).of = h /\ \A i \in DOMAIN Tail(input) : Tail(input)[i].of = h
<1>1. /\ Head(input) = input[1] /\ Len(input) \in Nat \ {0}
      /\ DOMAIN input = 1..Len(input) /\ DOMAIN Tail(input) = 1..(Len(input) - 1)
      /\ \A i \in 1..(Len(input) - 1) : Tail(input)[i] = input[i + 1]
    BY HeadAndTail
<1>2. \A i \in 1..(Len(input) - 1) : i + 1 \in 1..Len(input)
    BY <1>1
<1>3. 1 \in 1..Len(input)
    BY <1>1
<1> QED BY ZenonT(60), <1>1, <1>2, <1>3

\* The connection reads on.
Reading(c, d) ==
    /\ IsCon(d) /\ d.state \in {"READING_FIRSTLINE", "READING_BODY"}
    /\ d.read \/ d.sock = "FAILED"
    /\ d.input \in {c.input, Tail(c.input)}
    /\ d.state = "READING_BODY" => d.input # <<>> /\ Head(d.input).kind = "stream"
    /\ d.sock = c.sock /\ d.queue = c.queue /\ d.requests = c.requests
    /\ d.retryEvent = c.retryEvent /\ d.detectClose = c.detectClose /\ d.output = c.output
    /\ d.stack = c.stack /\ d.replying = c.replying /\ d.result = c.result /\ d.sends = c.sends

LEMMA ReadingInv ==
    ASSUME IInv, custom' = custom, peer' = Other(peer), made' = made, dropped' = dropped,
           con.stack = <<>>, con.queue # <<>>, Head(con.queue) \in {"read", "write"},
           con.state \in Active, con.output = <<>>,
           NEW c, Dequeued(c), Reading(c, con'),
           con'.input # c.input => c.input # <<>>
    PROVE  IInv'
<1> DEFINE d == con'
<1>1. /\ \A e \in Range(con.queue) : e # Head(con.queue) => e \in Range(d.queue)
      /\ ~Cancels => "connect" \notin Range(d.queue)
      /\ ~Cancels /\ ~Resubmits => d.queue = <<>> /\ ~d.retryEvent
    BY Zenon, Dequeue DEF Reading
<1>2. /\ IsCon(d) /\ d.sock = con.sock /\ d.requests = con.requests
      /\ d.detectClose = con.detectClose /\ d.output = <<>> /\ d.stack = <<>>
      /\ d.replying = con.replying /\ d.result = con.result /\ d.sends = con.sends
      /\ d.read \/ d.sock = "FAILED"
      /\ d.state = "READING_BODY" => d.input # <<>> /\ Head(d.input).kind = "stream"
      /\ d.state \in {"READING_FIRSTLINE", "READING_BODY"}
      /\ d.input = con.input \/ (con.input # <<>> /\ d.input = Tail(con.input))
    BY Zenon DEF Dequeued, Reading
<1>3. /\ TypeInv /\ Settled(con.requests, con.result, made \ dropped)
      /\ Steady(con) /\ con.input \in Seq(Response)
    BY Zenon DEF IInv, TypeInv, IsCon
<1>4. TypeInv' /\ peer' = peer
    BY Zenon, <1>2, <1>3, SamePeer DEF TypeInv
<1> HIDE DEF d
<1>5. d.state \in Active /\ d.state \notin Unconnected /\ con.state \notin Unconnected
    BY Zenon, <1>2 DEF Active, Unconnected
<1>6. Nested(d) /\ Quiet(d)
    BY Zenon, <1>2, Nothing DEF Nested, Quiet
<1>7. Steady(d)
    <2>1. d.sock = "FAILED" => "error" \in Range(d.queue)
        BY Zenon, <1>1, <1>2, <1>3 DEF Steady, Closing, Active
    <2>2. d.requests # <<>> /\ ~d.detectClose /\ d.sock # "IDLE"
        BY Zenon, <1>2, <1>3, <1>5 DEF Steady, Unconnected
    <2> QED BY Zenon, <2>1, <2>2, <1>2, <1>5 DEF Steady, Unconnected
<1>8. ~Cancels => Open(d)
    BY Zenon, <1>1, <1>2, <1>5 DEF Open, IInv
<1>9. ~Cancels /\ ~Resubmits => Fresh(d)
    BY ZenonT(60), <1>1, <1>2, Nothing DEF Fresh
<1>10. ~Cancels /\ ~Resubmits /\ ~Reenters => Once(d, made)
    BY Zenon, <1>2, <1>5 DEF IInv, Once, Limit, Unsent
<1>11. ~Reenters => Matching(d.result) /\ Flow(d, peer)
    <2> SUFFICES ASSUME ~Reenters PROVE Matching(d.result) /\ Flow(d, peer)
        OBVIOUS
    <2>1. Matching(d.result) /\ Flow(con, peer)
        BY Zenon, <1>2 DEF IInv, Closing
    <2>2. \A i \in DOMAIN d.input : d.input[i].of = Head(d.requests)
        <3>1. \A i \in DOMAIN con.input : con.input[i].of = Head(d.requests)
            BY Zenon, <2>1, <1>2 DEF Flow
        <3>2. CASE d.input = con.input
            BY Zenon, <3>1, <3>2
        <3>3. CASE con.input # <<>> /\ d.input = Tail(con.input)
            <4>1. \A i \in DOMAIN Tail(con.input) : Tail(con.input)[i].of = Head(d.requests)
                BY Zenon, <3>1, <3>3, <1>3, OwnTail
            <4> QED BY Zenon, <4>1, <3>3
        <3> QED BY Zenon, <3>2, <3>3, <1>2
    <2>3. ASSUME Head(d.requests) \notin d.replying
          PROVE  /\ Len(peer.got) <= 1 /\ Last(d.input, peer.replies)
                 /\ peer.got # <<>> => peer.replies = <<>> /\ d.input = <<>>
        <3>1. /\ Len(peer.got) <= 1 /\ Last(con.input, peer.replies)
              /\ peer.got # <<>> => peer.replies = <<>> /\ con.input = <<>>
            BY Zenon, <2>1, <2>3, <1>2 DEF Flow
        <3> QED BY Zenon, <3>1, <1>2, <1>3, LastTail
    <2> QED BY ZenonT(60), <2>1, <2>2, <2>3, <1>2, <1>5, Nothing DEF Flow
<1> QED BY Zenon, <1>2, <1>3, <1>4, <1>6, <1>7, <1>8, <1>9, <1>10, <1>11, Assembled DEF d

\* done() calls the request at the head back.
LEMMA DoneInv ==
    ASSUME IInv, custom' = custom, peer' = Other(peer), made' = made, dropped' = dropped,
           con.stack = <<>>, con.queue # <<>>, Head(con.queue) \in {"read", "error"},
           con.state \in {"READING_FIRSTLINE", "READING_BODY"}, con.input # <<>>,
           NEW c, Dequeued(c), NEW b, NEW f \in {"keep", "close"},
           CalledBack(b, con', f, Head(con.input).of),
           b.state = "IDLE", b.sock = c.sock, b.requests = c.requests, b.result = c.result,
           b.queue = c.queue, b.retryEvent = c.retryEvent, b.output = c.output,
           b.stack = c.stack, b.replying = c.replying, b.sends = c.sends,
           f = "keep" => /\ Head(con.input).kind = "keep" /\ b.input = Tail(con.input)
                         /\ Head(con.requests) \notin con.replying
                         /\ Head(con.queue) = "read"
    PROVE  IInv'
<1> DEFINE d == con'
<1>1. /\ \A e \in Range(con.queue) : e # Head(con.queue) => e \in Range(d.queue)
      /\ ~Cancels => "connect" \notin Range(d.queue)
      /\ ~Cancels /\ ~Resubmits => d.queue = <<>> /\ ~d.retryEvent
    BY Zenon, Dequeue DEF CalledBack
<1>2. /\ IsCon(d) /\ d.state = "IDLE" /\ d.sock = con.sock /\ d.requests = Tail(con.requests)
      /\ d.stack = <<f>> \o <<>> /\ d.input = b.input /\ d.output = con.output
      /\ d.replying = con.replying /\ d.sends = con.sends
    BY Zenon DEF Dequeued, CalledBack
<1>3. /\ TypeInv /\ IsCon(con) /\ Steady(con) /\ con.requests \in Seq(Reqs)
      /\ con.input \in Seq(Response)
    BY Zenon DEF IInv, TypeInv, IsCon
<1>4. TypeInv' /\ peer' = peer
    BY Zenon, <1>2, <1>3, SamePeer DEF TypeInv
<1>5. Settled(d.requests, d.result, made \ dropped)
    BY Zenon DEF IInv, Dequeued, CalledBack
<1> HIDE DEF d
<1>6. d.stack = <<f>> /\ d.stack # <<>> /\ Len(d.stack) = 1 /\ d.stack[1] = f /\ DOMAIN d.stack = {1}
    BY <1>2
<1>7. Nested(d) /\ Quiet(d)
    BY ZenonT(60), <1>2, <1>6 DEF Nested, Quiet
<1>8. con.state \in Active /\ con.state \notin Unconnected /\ con.state # "WRITING"
    BY Zenon DEF Active, Unconnected
<1>9. con.requests # <<>> /\ con.output = <<>> /\ con.sock # "IDLE"
    BY Zenon, <1>3, <1>8 DEF Steady, Unconnected
<1>10. Steady(d)
    <2>1. d.sock = "FAILED" => Closing(d) \/ "error" \in Range(d.queue)
        <3>1. CASE f = "close"
            BY Zenon, <3>1, <1>6 DEF Closing
        <3>2. CASE f = "keep"
            BY Zenon, <3>2, <1>1, <1>2, <1>3, <1>8 DEF Steady, Closing, Unconnected
        <3> QED BY Zenon, <3>1, <3>2
    <2> QED BY ZenonT(60), <2>1, <1>2, <1>6, <1>9 DEF Steady, Active, Unconnected
<1>11. ~Cancels => Open(d)
    BY Zenon, <1>1, <1>2, <1>8 DEF Open, IInv
<1>12. ~Cancels /\ ~Resubmits => Fresh(d)
    BY ZenonT(60), <1>1, <1>2, <1>6, Nothing DEF Fresh
<1>13. ASSUME ~Cancels, ~Resubmits, ~Reenters PROVE Once(d, made)
    <2>1. Once(con, made)
        BY Zenon, <1>13 DEF IInv
    <2>2. \A i \in DOMAIN d.requests : Unsent(con, d.requests[i])
        BY Zenon, <2>1, <1>2, <1>3, <1>9, OnceTail
    <2> QED BY Zenon, <2>1, <2>2, <1>2, <1>9 DEF Once, Limit, Unsent
<1>14. ASSUME ~Reenters PROVE Matching(d.result) /\ (Closing(d) \/ Flow(d, peer))
    <2>1. Matching(con.result) /\ Flow(con, peer)
        BY Zenon, <1>14 DEF IInv, Closing
    <2>2. Head(con.input).of = Head(con.requests)
        <3>1. \A i \in DOMAIN con.input : con.input[i].of = Head(con.requests)
            BY Zenon, <2>1 DEF Flow
        <3> QED BY Zenon, <3>1, <1>3, OwnTail
    <2>3. Matching(d.result)
        BY Zenon, <2>1, <2>2 DEF Dequeued, CalledBack, d
    <2>4. CASE f = "close"
        BY Zenon, <2>3, <2>4, <1>6 DEF Closing
    <2>5. CASE f = "keep"
        <3>1. Last(con.input, peer.replies) /\ peer.got = <<>>
            BY Zenon, <2>1, <2>5, <1>8 DEF Flow
        <3>2. d.input = <<>> /\ peer.replies = <<>>
            BY Zenon, <3>1, <2>5, <1>2, <1>3, LastTail
        <3>3. d.state \notin Active /\ d.output = <<>>
            BY Zenon, <1>2, <1>9 DEF Active
        <3> QED BY Zenon, <3>1, <3>2, <3>3, <2>3, NothingFlows
    <2> QED BY Zenon, <2>4, <2>5
<1> QED BY Zenon, <1>4, <1>5, <1>7, <1>10, <1>11, <1>12, <1>13, <1>14, Assembled DEF d

\* What is below the top of the stack.
LEMMA Below ==
    ASSUME NEW s \in Seq(Frames), s # <<>>,
           \A i \in DOMAIN s : s[i] \in {"keep", "close"} => i = Len(s)
    PROVE  /\ Head(s) \in Frames /\ Head(s) = s[1] /\ Tail(s) \in Seq(Frames)
           /\ \A i \in DOMAIN Tail(s) : Tail(s)[i] \in {"keep", "close"} => i = Len(Tail(s))
           /\ s[1] \in {"keep", "close"} => Tail(s) = <<>>
           /\ Len(s) = 1 => Tail(s) = <<>>
<1>1. /\ Head(s) \in Frames /\ Head(s) = s[1] /\ Tail(s) \in Seq(Frames)
      /\ Len(s) \in Nat \ {0} /\ Len(Tail(s)) = Len(s) - 1
      /\ DOMAIN s = 1..Len(s) /\ DOMAIN Tail(s) = 1..(Len(s) - 1)
      /\ \A i \in 1..(Len(s) - 1) : Tail(s)[i] = s[i + 1]
      /\ Len(s) = 1 => Tail(s) = <<>>
    BY HeadAndTail, Popped
<1>2. ASSUME NEW i \in DOMAIN Tail(s), Tail(s)[i] \in {"keep", "close"}
      PROVE  i = Len(Tail(s))
    <2>1. i + 1 \in DOMAIN s /\ Tail(s)[i] = s[i + 1]
        BY <1>1
    <2>2. i + 1 = Len(s)
        BY Zenon, <2>1, <1>2
    <2> QED BY <2>2, <1>1
<1>3. 1 \in DOMAIN s
    BY <1>1
<1> QED BY Zenon, <1>1, <1>2, <1>3

\* The loop of free(), or fail(), goes on without a change to the connection.
LEMMA UnwindInv ==
    ASSUME IInv, custom' = custom, peer' = Other(peer), made' = made, dropped' = dropped,
           con.stack # <<>>, con.stack[1] # "close", con.state \in Unconnected, IsCon(con'),
           con'.state = con.state, con'.sock = con.sock, con'.queue = con.queue,
           con'.retryEvent = con.retryEvent, con'.input = con.input,
           con'.output = con.output, con'.sends = con.sends, con'.replying = con.replying,
           Settled(con'.requests, con'.result, made' \ dropped'),
           Matching(con.result) => Matching(con'.result),
           \/ /\ con'.stack = Tail(con.stack) /\ con'.requests = con.requests
              /\ con.requests = <<>> \/ con.state = "CONNECTING"
           \/ /\ con'.stack = con.stack
              /\ con.requests # <<>> /\ con'.requests = Tail(con.requests)
    PROVE  IInv'
<1> DEFINE d == con'
<1>1. /\ TypeInv /\ IsCon(con) /\ Nested(con) /\ Steady(con) /\ con.stack \in Seq(Frames)
      /\ \A i \in DOMAIN con.stack : con.stack[i] \in {"keep", "close"} => i = Len(con.stack)
    BY Zenon DEF IInv, TypeInv, IsCon, Nested
<1>2. con.state \in Unconnected /\ con.state \notin Active /\ ~Closing(con)
    BY Zenon DEF Unconnected, Active, Closing
<1>3. TypeInv' /\ peer' = peer
    BY Zenon, <1>1, SamePeer DEF TypeInv
<1>4. \A i \in DOMAIN d.stack : d.stack[i] \in {"keep", "close"} => i = Len(d.stack)
    BY Zenon, <1>1, Below
<1>5. Nested(d) /\ Quiet(d)
    BY Zenon, <1>2, <1>4 DEF Nested, Quiet, Unconnected
<1>6. Steady(d)
    <2>1. d.state = "DISCONNECTED" /\ d.requests # <<>> => d.stack # <<>>
        BY Zenon
    <2>2. d.sock = "FAILED" => d.state = "DISCONNECTED" \/ "error" \in Range(d.queue)
        BY Zenon, <1>1, <1>2 DEF Steady
    <2> QED BY ZenonT(60), <2>1, <2>2, <1>1, <1>2 DEF Steady, Unconnected, Active
<1>7. ~Cancels => Open(d)
    BY Zenon, <1>2 DEF Open, IInv
<1>8. ASSUME ~Cancels, ~Resubmits PROVE Fresh(d)
    <2>1. /\ Fresh(con) /\ Len(con.stack) = 1 /\ con.queue = <<>> /\ ~con.retryEvent
          /\ con.state = "DISCONNECTED"
        BY Zenon, <1>2, <1>8 DEF IInv, Fresh, Unconnected
    <2>2. d.stack = <<>> \/ d.stack = con.stack
        BY Zenon, <2>1, <1>1, Below
    <2> QED BY ZenonT(60), <2>1, <2>2, Nothing DEF Fresh
<1>9. ASSUME ~Cancels, ~Resubmits, ~Reenters PROVE Once(d, made)
    <2>1. Once(con, made) /\ con.output = <<>>
        BY Zenon, <1>1, <1>2, <1>9 DEF IInv, Steady, Unconnected
    <2>2. \A i \in DOMAIN d.requests : Unsent(con, d.requests[i])
        BY Zenon, <2>1, <1>1, <1>2, OnceTail DEF Once
    <2> QED BY Zenon, <2>1, <2>2 DEF Once, Limit, Unsent
<1>10. ASSUME ~Reenters PROVE Matching(d.result) /\ Flow(d, peer)
    <2>1. Matching(con.result) /\ Flow(con, peer) /\ con.output = <<>>
        BY Zenon, <1>1, <1>2, <1>10 DEF IInv, Steady, Unconnected
    <2>2. d.input = <<>> /\ peer.got = <<>> /\ peer.replies = <<>>
        BY Zenon, <2>1, <1>2 DEF Flow
    <2> QED BY Zenon, <2>1, <2>2, <1>2, NothingFlows
<1> QED BY Zenon, <1>3, <1>5, <1>6, <1>7, <1>8, <1>9, <1>10, Assembled

\* done() waits for the next request or the end of the connection.
LEMMA DetectInv ==
    ASSUME IInv, custom' = custom, peer' = Other(peer), made' = made, dropped' = dropped,
           con.stack # <<>>, con.stack[1] = "keep", con.requests = <<>>, IsCon(con'),
           con'.stack = <<>>, con'.requests = <<>>, con'.read, con'.detectClose,
           con'.state = con.state, con'.sock = con.sock, con'.queue = con.queue,
           con'.retryEvent = con.retryEvent, con'.input = con.input, con'.output = con.output,
           con'.sends = con.sends, con'.replying = con.replying, con'.result = con.result
    PROVE  IInv'
<1> DEFINE d == con'
<1>1. /\ TypeInv /\ Steady(con) /\ ~Closing(con)
      /\ Settled(con.requests, con.result, made \ dropped)
    BY Zenon DEF IInv, Closing
<1>2. TypeInv' /\ peer' = peer
    BY Zenon, <1>1, SamePeer DEF TypeInv
<1>3. Nested(d) /\ Quiet(d)
    BY Zenon, Nothing DEF Nested, Quiet
<1>4. con.state \notin Active /\ con.output = <<>> /\ con.state # "WRITING"
    BY Zenon, <1>1 DEF Steady, Active
<1>5. Steady(d)
    BY ZenonT(60), <1>1, <1>4 DEF Steady, Active
<1>6. ~Cancels => Open(d)
    BY Zenon DEF Open, IInv
<1>7. ASSUME ~Cancels, ~Resubmits PROVE Fresh(d)
    <2>1. /\ con.queue = <<>> /\ ~con.retryEvent
          /\ con.state \notin {"CONNECTING", "DISCONNECTED"}
        BY Zenon, <1>7 DEF IInv, Fresh
    <2> QED BY ZenonT(60), <2>1, Nothing DEF Fresh
<1>8. ~Cancels /\ ~Resubmits /\ ~Reenters => Once(d, made)
    BY Zenon, <1>4, Nothing DEF IInv, Once, Limit, Unsent
<1>9. ASSUME ~Reenters PROVE Matching(d.result) /\ Flow(d, peer)
    <2>1. Matching(con.result) /\ Flow(con, peer)
        BY Zenon, <1>1, <1>9 DEF IInv
    <2>2. d.input = <<>> /\ peer.got = <<>> /\ peer.replies = <<>>
        BY Zenon, <2>1, <1>4 DEF Flow
    <2> QED BY Zenon, <2>1, <2>2, <1>4, NothingFlows
<1> QED BY Zenon, <1>1, <1>2, <1>3, <1>5, <1>6, <1>7, <1>8, <1>9, Assembled
================================================================================
