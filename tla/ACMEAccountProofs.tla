--------------------------- MODULE ACMEAccountProofs ---------------------------
(***************************************************************************)
(* OneOperation, FreshNonce, EveryDueCertTried and CertificateEarned of    *)
(* ACMEAccount, for any number of certificates and authorizations, any     *)
(* limit on retries and any server.  The member functions of Account are   *)
(* operators, so most of the argument is about what they do to a record;   *)
(* NextEffect says all that is ever needed of next().                      *)
(***************************************************************************)
EXTENDS ACMEAccount, WellFoundedInduction, TLAPS

USE DEF STATE_IDLE, STATE_GET_DIR, STATE_REGISTER, STATE_NEW_ORDER, STATE_GET_AUTH,
        STATE_CHALLENGE, STATE_FINALIZE, STATE_GET_ORDER, STATE_GET_CERT

IsAccount(a) ==
  /\ DOMAIN a = {"state", "retries", "currentKeyCert", "directory", "nonce", "kid", "order",
                 "currentAuth", "authorization", "token", "due", "wait", "request", "sent",
                 "timer", "threw"}
  /\ a.state \in 0..8 /\ a.retries \in Nat /\ a.currentKeyCert \in Nat
  /\ a.directory \in {"null", "good", "partial"} /\ a.nonce \in {"none", "fresh", "stale"}
  /\ a.kid \in BOOLEAN /\ a.order \in Nat \cup {NoOrder} /\ a.currentAuth \in Nat
  /\ a.authorization \in {"partial", "http-01", "other"} /\ a.token \in BOOLEAN
  /\ a.due \in [Certs -> BOOLEAN] /\ a.wait \in [Certs -> BOOLEAN]
  /\ a.request \in {"none", "HEAD", "GET", "POST"} /\ a.sent \in {"none", "fresh", "stale"}
  /\ a.timer \in {"off", "pending", "active"} /\ a.threw \in BOOLEAN

TypeInv ==
  /\ IsAccount(acct) /\ ~acct.threw
  /\ server \in {"orderly", "any"} /\ maxRetries \in Nat
  /\ orderFor \in [cert : Nat, auths : Nat \cup {NoOrder}]
  /\ validated \subseteq Nat /\ owed \subseteq Certs /\ tried \subseteq Nat
--------------------------------------------------------------------------------
\* A callback of the account that has not sent a request nor set the timer.
Ready(a) == a.request = "none" /\ a.timer = "off"

\* An account is waiting for one thing at most, for nothing when it is idle, and
\* what it has sent carries a fresh nonce.
Waiting(a) ==
  /\ a.request = "none" \/ a.timer = "off"
  /\ a.state = STATE_IDLE => Ready(a)
  /\ a.request = "POST" => a.sent = "fresh"
  /\ a.request # "none" => a.retries = 0
  /\ a.state = STATE_NEW_ORDER => a.request # "GET"

\* A nonce goes stale only while the account is idle.
NoStaleNonce(a) == a.state # STATE_IDLE => a.nonce # "stale"

\* From an orderly server a busy account has what next() reads in its state.
Prepared(a) ==
  /\ a.directory # "partial"
  /\ a.state > STATE_GET_DIR => a.directory = "good"
  /\ a.state \in STATE_GET_AUTH..STATE_GET_CERT => a.order # NoOrder
  /\ a.state = STATE_CHALLENGE => a.authorization = "http-01"

Busy(a) == a.state # STATE_IDLE => ~Ready(a)

\* The present order was made for the present certificate, the authorizations
\* before currentAuth are valid, and all of them are once it is to be finalized.
Validated(a, o, v) ==
  /\ a.state \in STATE_GET_AUTH..STATE_GET_CERT => o.cert = a.currentKeyCert
  /\ a.state \in {STATE_GET_AUTH, STATE_CHALLENGE} =>
       /\ a.order # NoOrder => a.order = o.auths
       /\ 0..(a.currentAuth - 1) \subseteq v
  /\ a.state = STATE_CHALLENGE \/ (a.state = STATE_GET_AUTH /\ a.request \in {"GET", "POST"}) =>
       a.order # NoOrder /\ a.currentAuth < a.order
  /\ a.state \in STATE_FINALIZE..STATE_GET_CERT =>
       o.auths > 0 /\ 0..(o.auths - 1) \subseteq v

\* What a pass over keyCerts still owes lies ahead of it.
Ahead(a, w, t) ==
  /\ \A c \in Certs : ~a.wait[c]
  /\ \A c \in w \ t : c >= a.currentKeyCert /\ a.due[c]
  /\ a.state = STATE_IDLE => w \subseteq t
  /\ a.state \in STATE_GET_AUTH..STATE_GET_CERT => a.currentKeyCert \in t
  /\ a.state \in {STATE_GET_DIR, STATE_REGISTER} => a.currentKeyCert = 0
  /\ a.state > STATE_GET_DIR => a.directory # "null"
  /\ a.state > STATE_REGISTER => a.kid
  /\ a.directory = "null" \/ ~a.kid => a.currentKeyCert = 0

IInv ==
  /\ TypeInv /\ Waiting(acct) /\ NoStaleNonce(acct)
  /\ server = "orderly" /\ maxRetries > 0 => Prepared(acct) /\ Busy(acct)
  /\ Validated(acct, orderFor, validated)
  /\ maxRetries > 0 =>
       /\ Ahead(acct, owed, tried)
       /\ acct.state = STATE_NEW_ORDER /\ acct.request = "POST" => acct.currentKeyCert \in tried
--------------------------------------------------------------------------------
\* A non-empty set of numbers has a least one.
LEMMA LeastNumber ==
  ASSUME NEW S, S \subseteq Nat, S # {}
  PROVE  \E x \in S : \A y \in S : x <= y
<1> DEFINE R == {ss \in Nat \X Nat : ss[1] < ss[2]}
<1>1. IsWellFoundedOn(R, Nat)
  BY NatLessThanWellFounded DEF OpToRel
<1> HIDE DEF R
<1>2. PICK x \in S : \A y \in S : ~(<<y, x>> \in R)
  BY <1>1, WFMin, Zenon
<1>3. \A y \in S : ~(y < x)
  BY <1>2, Zenon DEF R
<1> QED BY <1>3

\* What next() leaves alone wherever it ends, and what it sends.  A function that
\* throws has sent nothing.
Sends(a, b) ==
  /\ IsAccount(b) /\ b.timer = "off"
  /\ b.directory = a.directory /\ b.kid = a.kid /\ b.order = a.order
  /\ b.currentAuth = a.currentAuth /\ b.authorization = a.authorization
  /\ b.due = a.due /\ b.wait = a.wait /\ b.retries = a.retries
  /\ b.nonce \in {a.nonce, "none"}
  /\ b.request = "POST" => a.nonce # "none" /\ b.sent = a.nonce
  /\ b.threw => b.request = "none"

Stays(a, b) == b.state = a.state /\ b.currentKeyCert = a.currentKeyCert

\* A callback that can go on: nothing is sent and nothing thrown.
Able(a) == IsAccount(a) /\ Ready(a) /\ ~a.threw

LEMMA ThrowEffect ==
  ASSUME NEW a, Able(a)
  PROVE  Sends(a, Throw(a)) /\ Stays(a, Throw(a)) /\ Throw(a).threw /\ Throw(a).request = "none"
BY SMT DEF Able, IsAccount, Ready, Sends, Stays, Throw

LEMMA GetEffect ==
  ASSUME NEW a, Able(a)
  PROVE  Sends(a, get(a)) /\ Stays(a, get(a)) /\ get(a).request = "GET" /\ ~get(a).threw
BY SMT DEF Able, IsAccount, Ready, Sends, Stays, get

\* head() throws without a directory.
LEMMA HeadEffect ==
  ASSUME NEW a, Able(a)
  PROVE  /\ Sends(a, head(a)) /\ Stays(a, head(a)) /\ head(a).request \in {"none", "HEAD"}
         /\ a.directory = "good" => head(a).request = "HEAD" /\ ~head(a).threw
<1>1. CASE a.directory = "good"
  BY <1>1, SMT DEF Able, IsAccount, Ready, Sends, Stays, head
<1>2. CASE a.directory # "good"
  BY <1>2, ThrowEffect DEF head
<1> QED BY <1>1, <1>2

\* post() throws without a nonce, and cannot resolve a name without a directory.
LEMMA PostEffect ==
  ASSUME NEW a, Able(a)
  PROVE  /\ Sends(a, post(a)) /\ Stays(a, post(a)) /\ post(a).request \in {"none", "POST"}
         /\ a.nonce # "none" => post(a).request = "POST" /\ ~post(a).threw
         /\ Sends(a, postName(a)) /\ Stays(a, postName(a))
         /\ postName(a).request \in {"none", "POST"}
         /\ a.nonce # "none" /\ a.directory = "good" =>
              postName(a).request = "POST" /\ ~postName(a).threw
<1>1. /\ Sends(a, post(a)) /\ Stays(a, post(a)) /\ post(a).request \in {"none", "POST"}
      /\ a.nonce # "none" => post(a).request = "POST" /\ ~post(a).threw
  <2>1. CASE a.nonce # "none"
    BY <2>1, SMT DEF Able, IsAccount, Ready, Sends, Stays, post
  <2>2. CASE a.nonce = "none"
    BY <2>2, ThrowEffect DEF post
  <2> QED BY <2>1, <2>2
<1>2. CASE a.directory = "good"
  BY <1>1, <1>2 DEF postName
<1>3. CASE a.directory # "good"
  BY <1>1, <1>3, ThrowEffect DEF postName
<1> QED BY <1>2, <1>3

\* The search of the STATE_NEW_ORDER arm from a position of keyCerts: it ends at
\* the first certificate that needs renewal, or in STATE_IDLE.
Searches(a, from, b) ==
  \/ /\ b.state = STATE_IDLE /\ b.request = "none" /\ ~b.threw
     /\ \A c \in Certs : c >= from => ~needsRenewal(a, c)
  \/ /\ b.state = STATE_NEW_ORDER /\ b.request \in {"none", "POST"}
     /\ b.currentKeyCert \in Certs /\ b.currentKeyCert >= from
     /\ \A c \in Certs : from <= c /\ c < b.currentKeyCert => ~needsRenewal(a, c)
     /\ a.nonce # "none" /\ a.directory = "good" => b.request = "POST" /\ ~b.threw

LEMMA NewOrderEffect ==
  ASSUME NEW a, Able(a), a.state = STATE_NEW_ORDER
  PROVE  Sends(a, NewOrder(a)) /\ Searches(a, a.currentKeyCert, NewOrder(a))
<1> DEFINE later == {c \in Certs : c >= a.currentKeyCert /\ needsRenewal(a, c)}
           first == CHOOSE c \in later : \A d \in later : c <= d
           last == IF a.currentKeyCert > NumCerts THEN a.currentKeyCert ELSE NumCerts
           moved == [a EXCEPT !.currentKeyCert = first]
<1> USE AccountAssumption
<1>1. CASE later = {}
  <2>1. NewOrder(a) = [a EXCEPT !.currentKeyCert = last, !.state = STATE_IDLE]
    BY <1>1 DEF NewOrder
  <2>2. last \in Nat
    BY DEF AccountAssumption, Able, IsAccount
  <2> HIDE DEF last
  <2>3. Sends(a, NewOrder(a))
    BY <2>1, <2>2, SMT DEF Able, IsAccount, Ready, Sends
  <2>4. /\ NewOrder(a).state = STATE_IDLE /\ NewOrder(a).request = "none"
        /\ ~NewOrder(a).threw
    BY <2>1, SMT DEF Able, IsAccount, Ready
  <2> QED BY <1>1, <2>3, <2>4 DEF Searches
<1>2. CASE later # {}
  <2>1. NewOrder(a) = postName(moved)
    BY <1>2 DEF NewOrder
  <2>2. \E c \in later : \A d \in later : c <= d
    <3>1. later \subseteq Nat
      BY DEF Certs, AccountAssumption
    <3> QED BY <1>2, <3>1, LeastNumber, Zenon
  <2>3. first \in later /\ \A d \in later : first <= d
    BY <2>2
  <2> HIDE DEF first
  <2>4. first \in Certs /\ first \in Nat /\ first >= a.currentKeyCert
    <3>1. first \in Certs /\ first >= a.currentKeyCert
      BY <2>3
    <3> QED BY <3>1 DEF Certs, AccountAssumption
  <2>5. \A c \in Certs : a.currentKeyCert <= c /\ c < first => ~needsRenewal(a, c)
    <3>1. \A c \in later : ~(c < first)
      BY <2>3, <2>4 DEF Certs, AccountAssumption
    <3> QED BY <3>1, <2>4 DEF Certs, AccountAssumption, Able, IsAccount
  <2> HIDE DEF later
  <2>6. /\ Able(moved) /\ moved.currentKeyCert = first /\ moved.state = STATE_NEW_ORDER
        /\ moved.nonce = a.nonce /\ moved.directory = a.directory
    BY <2>4, SMT DEF Able, IsAccount, Ready
  <2>7. Sends(a, moved)
    BY <2>4, SMT DEF Able, IsAccount, Ready, Sends
  <2> HIDE DEF moved
  <2>8. /\ Sends(moved, postName(moved)) /\ Stays(moved, postName(moved))
        /\ postName(moved).request \in {"none", "POST"}
        /\ moved.nonce # "none" /\ moved.directory = "good" =>
              postName(moved).request = "POST" /\ ~postName(moved).threw
    BY <2>6, PostEffect
  <2>9. Sends(a, NewOrder(a))
    BY <2>1, <2>6, <2>7, <2>8 DEF Sends
  <2>10. Searches(a, a.currentKeyCert, NewOrder(a))
    BY <2>1, <2>4, <2>5, <2>6, <2>8 DEF Searches, Stays
  <2> QED BY <2>9, <2>10
<1> QED BY <1>1, <1>2

\* The STATE_CHALLENGE arm sends, throws, or does nothing at all.
LEMMA ChallengeEffect ==
  ASSUME NEW a, Able(a)
  PROVE  /\ Sends(a, Challenge(a)) /\ Stays(a, Challenge(a))
         /\ a.authorization = "http-01" /\ a.nonce # "none" =>
              Challenge(a).request = "POST" /\ ~Challenge(a).threw
<1> DEFINE b == [a EXCEPT !.token = TRUE]
<1>1. Able(b) /\ Sends(a, b) /\ Stays(a, b) /\ b.nonce = a.nonce
  BY SMT DEF Able, IsAccount, Ready, Sends, Stays
<1> HIDE DEF b
<1>2. CASE a.authorization = "http-01"
  <2>1. Challenge(a) = post(b)
    BY <1>2 DEF Challenge, b
  <2>2. /\ Sends(b, post(b)) /\ Stays(b, post(b))
        /\ b.nonce # "none" => post(b).request = "POST" /\ ~post(b).threw
    BY <1>1, PostEffect
  <2> QED BY <1>1, <2>1, <2>2 DEF Sends, Stays
<1>3. CASE a.authorization = "partial"
  <2>1. Challenge(a) = Throw(a)
    BY <1>3 DEF Challenge
  <2> QED BY <1>3, <2>1, ThrowEffect
<1>4. CASE a.authorization = "other"
  <2>1. Challenge(a) = a
    BY <1>4 DEF Challenge
  <2> QED BY <1>4, <2>1 DEF Able, Ready, Sends, Stays
<1> QED BY <1>2, <1>3, <1>4 DEF Able, IsAccount

\* Everything that is needed of next(): with retries reset it sends, throws, or
\* looks for the next certificate to order.
Goes(a, b) ==
  /\ Sends(a, b) /\ b.retries = 0
  /\ \/ Stays(a, b)
     \/ a.state = STATE_NEW_ORDER /\ Searches(a, a.currentKeyCert, b)
     \/ a.state = STATE_GET_AUTH /\ Searches(a, a.currentKeyCert + 1, b)
  /\ b.state = STATE_IDLE => b.request = "none" /\ ~b.threw
  /\ b.state = STATE_NEW_ORDER => b.request # "GET"
  /\ b.state = STATE_GET_AUTH /\ b.request \in {"GET", "POST"} =>
       a.order # NoOrder /\ a.currentAuth < a.order
  /\ Prepared(a) => ~b.threw /\ (b.state # STATE_IDLE => b.request # "none")

\* An arm of next() that does not look for a certificate.
LEMMA StaysGoes ==
  ASSUME NEW a, NEW b, Able(a), a.retries = 0, Sends(a, b), Stays(a, b),
         a.state = STATE_IDLE => b.request = "none" /\ ~b.threw,
         a.state = STATE_NEW_ORDER => b.request # "GET",
         a.state = STATE_GET_AUTH =>
           \/ b.request \in {"none", "HEAD"}
           \/ a.order # NoOrder /\ a.currentAuth < a.order,
         Prepared(a) => ~b.threw /\ (a.state # STATE_IDLE => b.request # "none")
  PROVE  Goes(a, b)
BY DEF Goes, Sends, Stays

Reset(a0, a) == a = [a0 EXCEPT !.retries = 0]

LEMMA NextEffect ==
  ASSUME NEW a0, Able(a0), NEW a, Reset(a0, a)
  PROVE  Goes(a, next(a0)) /\ Able(a)
<1>1. Able(a) /\ a.retries = 0
  BY SMT DEF Able, IsAccount, Ready, Reset
<1>2. a.state \in 0..8
  BY <1>1 DEF Able, IsAccount
<1>3. CASE STATE_GET_DIR < a.state /\ a.nonce = "none"
  <2>1. next(a0) = head(a)
    BY <1>3 DEF next, Reset
  <2>2. /\ Sends(a, head(a)) /\ Stays(a, head(a)) /\ head(a).request \in {"none", "HEAD"}
        /\ a.directory = "good" => head(a).request = "HEAD" /\ ~head(a).threw
    BY <1>1, HeadEffect
  <2> QED BY <1>1, <1>3, <2>1, <2>2, StaysGoes DEF Prepared
<1>4. CASE ~(STATE_GET_DIR < a.state /\ a.nonce = "none")
  <2>1. CASE a.state = STATE_IDLE
    <3>1. next(a0) = a
      BY <1>4, <2>1 DEF next, Reset
    <3> QED BY <1>1, <2>1, <3>1 DEF Goes, Sends, Stays, Able, Ready
  <2>2. CASE a.state = STATE_GET_DIR
    <3>1. next(a0) = get(a)
      BY <1>4, <2>2 DEF next, Reset
    <3>2. Sends(a, get(a)) /\ Stays(a, get(a)) /\ get(a).request = "GET" /\ ~get(a).threw
      BY <1>1, GetEffect
    <3> QED BY <1>1, <2>2, <3>1, <3>2, StaysGoes
  <2>3. CASE a.state = STATE_REGISTER
    <3>1. next(a0) = postName(a)
      BY <1>4, <2>3 DEF next, Reset
    <3>2. /\ Sends(a, postName(a)) /\ Stays(a, postName(a))
          /\ a.directory = "good" => postName(a).request = "POST" /\ ~postName(a).threw
      BY <1>1, <1>4, <2>3, PostEffect
    <3> QED BY <1>1, <2>3, <3>1, <3>2, StaysGoes DEF Prepared
  <2>4. CASE a.state = STATE_NEW_ORDER
    <3>1. next(a0) = NewOrder(a)
      BY <1>4, <2>4 DEF next, Reset
    <3>2. Sends(a, NewOrder(a)) /\ Searches(a, a.currentKeyCert, NewOrder(a))
      BY <1>1, <2>4, NewOrderEffect
    <3> QED BY <1>1, <1>4, <2>4, <3>1, <3>2 DEF Goes, Sends, Searches, Prepared
  <2>5. CASE a.state = STATE_GET_AUTH
    <3>1. CASE a.order = NoOrder
      <4>1. next(a0) = Throw(a)
        BY <1>4, <2>5, <3>1 DEF next, Reset
      <4>2. Sends(a, Throw(a)) /\ Stays(a, Throw(a)) /\ Throw(a).request = "none"
        BY <1>1, ThrowEffect
      <4>3. ~Prepared(a)
        BY <2>5, <3>1 DEF Prepared
      <4> QED BY <1>1, <2>5, <4>1, <4>2, <4>3, StaysGoes
    <3>2. CASE a.order # NoOrder /\ a.currentAuth < a.order
      <4>1. next(a0) = get(a)
        BY SMTT(30), SMTT(60), <1>4, <2>5, <3>2 DEF next, Reset
      <4>2. Sends(a, get(a)) /\ Stays(a, get(a)) /\ get(a).request = "GET" /\ ~get(a).threw
        BY <1>1, GetEffect
      <4> QED BY <1>1, <2>5, <3>2, <4>1, <4>2, StaysGoes
    <3>3. CASE a.order # NoOrder /\ ~(a.currentAuth < a.order)
      <4> DEFINE m == [a EXCEPT !.currentKeyCert = @ + 1, !.state = STATE_NEW_ORDER]
      <4>1. next(a0) = NewOrder(m)
        BY <1>4, <2>5, <3>3 DEF next, Reset
      <4>2. /\ Able(m) /\ m.state = STATE_NEW_ORDER /\ Sends(a, m)
            /\ m.currentKeyCert = a.currentKeyCert + 1
            /\ m.nonce = a.nonce /\ m.directory = a.directory
            /\ m.due = a.due /\ m.wait = a.wait
        BY <1>1, SMT DEF Able, IsAccount, Ready, Sends
      <4> HIDE DEF m
      <4>3. Sends(m, NewOrder(m)) /\ Searches(m, m.currentKeyCert, NewOrder(m))
        BY <4>2, NewOrderEffect
      <4>4. Sends(a, NewOrder(m)) /\ Searches(a, a.currentKeyCert + 1, NewOrder(m))
        BY <4>2, <4>3 DEF Sends, Searches, needsRenewal
      <4> QED BY <1>1, <1>4, <2>5, <4>1, <4>4 DEF Goes, Sends, Searches, Prepared
    <3> QED BY <3>1, <3>2, <3>3
  <2>6. CASE a.state = STATE_CHALLENGE
    <3>1. next(a0) = Challenge(a)
      BY <1>4, <2>6 DEF next, Reset
    <3>2. /\ Sends(a, Challenge(a)) /\ Stays(a, Challenge(a))
          /\ a.authorization = "http-01" => Challenge(a).request = "POST" /\ ~Challenge(a).threw
      BY <1>1, <1>4, <2>6, ChallengeEffect
    <3> QED BY <1>1, <2>6, <3>1, <3>2, StaysGoes DEF Prepared
  <2>7. CASE a.state = STATE_GET_ORDER
    <3>1. next(a0) = post(a)
      BY <1>4, <2>7 DEF next, Reset
    <3>2. /\ Sends(a, post(a)) /\ Stays(a, post(a))
          /\ post(a).request = "POST" /\ ~post(a).threw
      BY <1>1, <1>4, <2>7, PostEffect
    <3> QED BY <1>1, <2>7, <3>1, <3>2, StaysGoes
  <2>8. CASE a.state \in {STATE_FINALIZE, STATE_GET_CERT}
    <3>1. CASE a.order = NoOrder
      <4>1. next(a0) = Throw(a)
        BY <1>4, <2>8, <3>1 DEF next, Reset
      <4>2. Sends(a, Throw(a)) /\ Stays(a, Throw(a))
        BY <1>1, ThrowEffect
      <4>3. ~Prepared(a)
        BY <2>8, <3>1 DEF Prepared
      <4> QED BY <1>1, <2>8, <4>1, <4>2, <4>3, StaysGoes
    <3>2. CASE a.order # NoOrder
      <4>1. next(a0) = post(a)
        BY <1>4, <2>8, <3>2 DEF next, Reset
      <4>2. /\ Sends(a, post(a)) /\ Stays(a, post(a))
            /\ post(a).request = "POST" /\ ~post(a).threw
        BY <1>1, <1>4, <2>8, PostEffect
      <4> QED BY <1>1, <2>8, <4>1, <4>2, StaysGoes
    <3> QED BY <3>1, <3>2
  <2> QED BY <1>2, <2>1, <2>2, <2>3, <2>4, <2>5, <2>6, <2>7, <2>8
<1> QED BY <1>1, <1>3, <1>4
--------------------------------------------------------------------------------
\* What the rest of a callback may rely on, for an order o of which v are valid
\* and a pass that owes w and has tried t.
Good(a, o, v, w, t) ==
  /\ a.nonce # "stale"
  /\ Validated(a, o, v)
  /\ server = "orderly" /\ maxRetries > 0 => Prepared(a)
  /\ maxRetries > 0 => Ahead(a, w, t)

\* How a function of the account leaves it: a function that threw can be followed
\* by retry().
Done(a) ==
  /\ IsAccount(a) /\ Waiting(a)
  /\ a.threw => Ready(a) /\ a.state # STATE_IDLE /\ (a.retries = 0 \/ maxRetries = 0)

\* An account that is not idle goes on by itself.
GoesOn(a) == server = "orderly" /\ maxRetries > 0 => ~a.threw /\ Busy(a)

LEMMA NextDone ==
  ASSUME NEW a, NEW b, Able(a), Goes(a, b), a.nonce # "stale"
  PROVE  Done(b) /\ b.nonce # "stale"
<1>1. IsAccount(b) /\ b.timer = "off"
  BY DEF Goes, Sends
<1>2. b.nonce # "stale" /\ (b.request = "POST" => b.sent = "fresh")
  BY DEF Goes, Sends, Able, IsAccount
<1> QED BY <1>1, <1>2 DEF Done, Goes, Sends, Waiting, Ready

\* Looking for a certificate leaves the order behind; staying keeps it.
LEMMA NextValidated ==
  ASSUME NEW a, NEW b, NEW o, NEW v, Able(a), Goes(a, b), Validated(a, o, v)
  PROVE  Validated(b, o, v)
<1>1. b.order = a.order /\ b.currentAuth = a.currentAuth
  BY DEF Goes, Sends
<1>2. CASE Stays(a, b)
  BY <1>1, <1>2 DEF Goes, Validated, Stays
<1>3. CASE b.state \in {STATE_IDLE, STATE_NEW_ORDER}
  BY <1>3 DEF Validated
<1> QED BY <1>2, <1>3 DEF Goes, Searches

LEMMA NextPrepared ==
  ASSUME NEW a, NEW b, Able(a), Goes(a, b), Prepared(a)
  PROVE  Prepared(b) /\ ~b.threw /\ Busy(b)
<1>1. /\ b.directory = a.directory /\ b.order = a.order /\ b.authorization = a.authorization
      /\ ~b.threw /\ (b.state # STATE_IDLE => b.request # "none")
  BY DEF Goes, Sends
<1>2. \/ b.state = a.state \/ b.state = STATE_IDLE
      \/ b.state = STATE_NEW_ORDER /\ a.state > STATE_GET_DIR
  BY DEF Goes, Stays, Searches
<1> QED BY <1>1, <1>2 DEF Prepared, Busy, Ready

\* The search passes over no certificate that is owed.
LEMMA NextAhead ==
  ASSUME NEW a, NEW b, NEW w, NEW t, w \subseteq Certs, Able(a), Goes(a, b), Ahead(a, w, t)
  PROVE  Ahead(b, w, t)
<1>1. b.directory = a.directory /\ b.kid = a.kid /\ b.due = a.due /\ b.wait = a.wait
  BY DEF Goes, Sends
<1>2. CASE Stays(a, b)
  BY <1>1, <1>2 DEF Ahead, Stays
<1>3. ASSUME NEW from \in Nat, a.state \in {STATE_NEW_ORDER, STATE_GET_AUTH},
             Searches(a, from, b), \A c \in w \ t : c >= from
      PROVE  Ahead(b, w, t)
  <2>1. \A c \in w \ t : needsRenewal(a, c)
    BY DEF Ahead, needsRenewal
  <2>2. a.directory # "null" /\ a.kid
    BY <1>3 DEF Ahead
  <2>3. CASE b.state = STATE_IDLE
    <3>1. \A c \in Certs : c >= from => ~needsRenewal(a, c)
      BY <1>3, <2>3 DEF Searches
    <3>2. w \subseteq t
      BY <1>3, <2>1, <3>1
    <3> QED BY <1>1, <2>2, <2>3, <3>2 DEF Ahead
  <2>4. CASE b.state = STATE_NEW_ORDER
    <3>1. /\ b.currentKeyCert \in Certs
          /\ \A c \in Certs : from <= c /\ c < b.currentKeyCert => ~needsRenewal(a, c)
      BY <1>3, <2>4 DEF Searches
    <3>2. \A c \in w \ t : ~(c < b.currentKeyCert)
      BY <1>3, <2>1, <3>1
    <3>3. \A c \in w \ t : c >= b.currentKeyCert
      BY <3>1, <3>2, AccountAssumption DEF Certs, AccountAssumption
    <3> QED BY <1>1, <2>2, <2>4, <3>3 DEF Ahead
  <2> QED BY <1>3, <2>3, <2>4 DEF Searches
<1>4. CASE a.state = STATE_NEW_ORDER /\ Searches(a, a.currentKeyCert, b)
  BY <1>3, <1>4 DEF Ahead, Able, IsAccount
<1>5. CASE a.state = STATE_GET_AUTH /\ Searches(a, a.currentKeyCert + 1, b)
  <2>1. \A c \in w \ t : c >= a.currentKeyCert + 1
    BY <1>5, AccountAssumption DEF Ahead, Able, IsAccount, Certs, AccountAssumption
  <2>2. a.currentKeyCert + 1 \in Nat
    BY DEF Able, IsAccount
  <2> QED BY <1>3, <1>5, <2>1, <2>2
<1> QED BY <1>2, <1>4, <1>5 DEF Goes

\* Two records that agree on what these predicates read.
Alike(a, b) ==
  /\ b.state = a.state /\ b.currentKeyCert = a.currentKeyCert /\ b.directory = a.directory
  /\ b.kid = a.kid /\ b.order = a.order /\ b.currentAuth = a.currentAuth
  /\ b.authorization = a.authorization /\ b.due = a.due /\ b.wait = a.wait
  /\ b.nonce = a.nonce /\ b.request = a.request

LEMMA AlikeGood ==
  ASSUME NEW a, NEW b, NEW o, NEW v, NEW w, NEW t, Alike(a, b), Good(a, o, v, w, t)
  PROVE  Good(b, o, v, w, t)
<1>1. Validated(b, o, v)
  BY DEF Alike, Good, Validated
<1>2. Prepared(a) => Prepared(b)
  BY DEF Alike, Prepared
<1>3. Ahead(a, w, t) => Ahead(b, w, t)
  BY DEF Alike, Ahead
<1> QED BY <1>1, <1>2, <1>3 DEF Alike, Good

\* next() keeps what the callback relies on, whatever it does.
LEMMA NextGood ==
  ASSUME NEW a, NEW o, NEW v, NEW w, NEW t, w \subseteq Certs, Able(a), Good(a, o, v, w, t)
  PROVE  /\ Done(next(a)) /\ Good(next(a), o, v, w, t) /\ GoesOn(next(a))
         /\ next(a).due = a.due /\ next(a).order = a.order
         /\ next(a).state \in {a.state, STATE_IDLE, STATE_NEW_ORDER}
         /\ next(a).request = "POST" => a.nonce # "none"
<1> DEFINE z == [a EXCEPT !.retries = 0]
<1>1. Alike(a, z) /\ z.due = a.due
  BY SMT DEF Able, IsAccount, Alike
<1>2. Reset(a, z)
  BY DEF Reset
<1> HIDE DEF z
<1>3. Able(z) /\ Goes(z, next(a))
  BY <1>2, NextEffect
<1>4. Good(z, o, v, w, t)
  BY <1>1, AlikeGood
<1>5. Done(next(a)) /\ next(a).nonce # "stale"
  BY <1>3, <1>4, NextDone DEF Good
<1>6. Validated(next(a), o, v)
  BY <1>3, <1>4, NextValidated DEF Good
<1>7. server = "orderly" /\ maxRetries > 0 => Prepared(next(a)) /\ ~next(a).threw /\ Busy(next(a))
  BY <1>3, <1>4, NextPrepared DEF Good
<1>8. maxRetries > 0 => Ahead(next(a), w, t)
  BY SMTT(30), SMTT(60), <1>3, <1>4, NextAhead DEF Good
<1>9. /\ next(a).due = a.due /\ next(a).order = a.order
      /\ next(a).state \in {a.state, STATE_IDLE, STATE_NEW_ORDER}
      /\ next(a).request = "POST" => a.nonce # "none"
  BY <1>1, <1>3 DEF Goes, Sends, Stays, Searches, Alike
<1> QED BY <1>5, <1>6, <1>7, <1>8, <1>9, SMTT(30), SMTT(60) DEF Good, GoesOn

\* The order and the pass survive nextKeyCert() where the present certificate has
\* been tried.
LEMMA NextKeyCertGood ==
  ASSUME NEW a, NEW o, NEW v, NEW w, NEW t, w \subseteq Certs, Able(a), Good(a, o, v, w, t),
         a.currentKeyCert \in t \/ maxRetries = 0,
         a.state > STATE_REGISTER \/ maxRetries = 0
  PROVE  /\ Done(nextKeyCert(a)) /\ Good(nextKeyCert(a), o, v, w, t)
         /\ GoesOn(nextKeyCert(a)) /\ nextKeyCert(a).due = a.due
         /\ nextKeyCert(a).state \in {STATE_IDLE, STATE_NEW_ORDER}
<1> DEFINE m == [a EXCEPT !.currentKeyCert = @ + 1, !.state = STATE_NEW_ORDER]
<1>1. /\ Able(m) /\ m.state = STATE_NEW_ORDER /\ m.currentKeyCert = a.currentKeyCert + 1
      /\ m.due = a.due /\ m.wait = a.wait /\ m.directory = a.directory /\ m.kid = a.kid
      /\ m.nonce = a.nonce
  BY SMT DEF Able, IsAccount, Ready
<1>2. nextKeyCert(a) = next(m)
  BY DEF nextKeyCert
<1> HIDE DEF m
<1>3. Validated(m, o, v)
  BY <1>1 DEF Validated
<1>. maxRetries > 0 => maxRetries # 0
  OBVIOUS
<1>4. server = "orderly" /\ maxRetries > 0 => Prepared(m)
  <2>1. server = "orderly" /\ maxRetries > 0 => Prepared(a) /\ a.state > STATE_REGISTER
    BY Zenon DEF Good
  <2> QED BY <1>1, <2>1 DEF Prepared, Able, IsAccount
<1>5. maxRetries > 0 => Ahead(m, w, t)
  <2> SUFFICES ASSUME maxRetries > 0 PROVE Ahead(m, w, t)
    OBVIOUS
  <2>1. Ahead(a, w, t) /\ a.currentKeyCert \in t /\ a.state > STATE_REGISTER
    BY Zenon DEF Good
  <2>2. \A c \in w \ t : c >= a.currentKeyCert + 1
    BY <2>1, AccountAssumption DEF Ahead, Able, IsAccount, Certs, AccountAssumption
  <2>3. a.directory # "null" /\ a.kid
    BY <2>1 DEF Ahead, Able, IsAccount
  <2> QED BY <1>1, <2>1, <2>2, <2>3 DEF Ahead
<1>6. Good(m, o, v, w, t)
  BY <1>1, <1>3, <1>4, <1>5 DEF Good
<1> QED BY <1>1, <1>2, <1>6, NextGood, SMTT(30), SMTT(60)

\* retry() sets the timer, or gives the certificate up.
LEMMA RetryGood ==
  ASSUME NEW a, NEW o, NEW v, NEW w, NEW t, w \subseteq Certs, maxRetries \in Nat,
         Able(a), Good(a, o, v, w, t), a.state # STATE_IDLE, a.retries = 0 \/ maxRetries = 0
  PROVE  /\ Done(retry(a)) /\ Good(retry(a), o, v, w, t) /\ GoesOn(retry(a))
         /\ retry(a).due = a.due
         /\ \/ retry(a).state = a.state /\ retry(a).order = a.order
            \/ retry(a).state \in {STATE_IDLE, STATE_NEW_ORDER}
<1> DEFINE b == [a EXCEPT !.retries = @ + 1]
<1>1. Able(b) /\ Alike(a, b) /\ b.state # STATE_IDLE
  BY SMT DEF Able, IsAccount, Ready, Alike
<1>2. Good(b, o, v, w, t)
  BY <1>1, AlikeGood
<1>3. CASE a.retries < maxRetries
  <2> DEFINE d == [b EXCEPT !.timer = "pending"]
  <2>. ~(a.retries >= maxRetries)
    BY <1>3 DEF Able, IsAccount
  <2>1. retry(a) = d
    BY <1>3 DEF retry
  <2> HIDE DEF b
  <2>2. /\ IsAccount(d) /\ Alike(b, d) /\ d.request = "none" /\ d.timer = "pending" /\ ~d.threw
    BY <1>1, SMT DEF Able, IsAccount, Ready, Alike
  <2> HIDE DEF d
  <2>3. Good(d, o, v, w, t)
    BY <1>2, <2>2, AlikeGood
  <2>4. d.state = a.state /\ d.order = a.order /\ d.due = a.due
    BY <1>1, <2>2 DEF Alike
  <2>5. Done(d) /\ GoesOn(d)
    BY <2>2, <2>4, SMTT(30), SMTT(60) DEF Done, GoesOn, Waiting, Busy, Ready
  <2> QED BY <2>1, <2>3, <2>4, <2>5
<1>4. CASE a.retries >= maxRetries
  <2>1. maxRetries = 0
    BY <1>4 DEF Able, IsAccount
  <2>2. CASE a.currentKeyCert \notin Certs
    <3>1. retry(a) = Throw(b)
      BY <1>4, <2>2 DEF retry, Able, IsAccount
    <3> HIDE DEF b
    <3>2. /\ IsAccount(Throw(b)) /\ Alike(b, Throw(b)) /\ Ready(Throw(b))
      BY <1>1, SMT DEF Able, IsAccount, Ready, Alike, Throw
    <3>3. Good(Throw(b), o, v, w, t)
      BY <1>2, <3>2, AlikeGood
    <3>4. /\ Throw(b).state = a.state /\ Throw(b).order = a.order /\ Throw(b).due = a.due
      BY <1>1, <3>2 DEF Alike
    <3>5. Done(Throw(b)) /\ GoesOn(Throw(b))
      BY <2>1, <3>2, <3>4 DEF Done, GoesOn, Waiting, Ready
    <3> QED BY <3>1, <3>3, <3>4, <3>5
  <2>3. CASE a.currentKeyCert \in Certs
    <3> DEFINE d == [b EXCEPT !.wait[a.currentKeyCert] = TRUE]
    <3>1. retry(a) = nextKeyCert(d)
      BY <1>4, <2>3 DEF retry, Able, IsAccount
    <3> HIDE DEF b
    <3>2. /\ Able(d) /\ d.state = b.state /\ d.currentKeyCert = b.currentKeyCert
          /\ d.order = b.order /\ d.currentAuth = b.currentAuth /\ d.request = b.request
          /\ d.nonce = b.nonce /\ d.due = b.due
      BY <1>1, <2>3, SMT DEF Able, IsAccount, Ready
    <3> HIDE DEF d
    <3>3. Good(d, o, v, w, t)
      BY <1>2, <2>1, <3>2 DEF Good, Validated
    <3>4. d.due = a.due
      BY <1>1, <3>2 DEF Alike
    <3> QED BY <2>1, <3>1, <3>2, <3>3, <3>4, NextKeyCertGood
  <2> QED BY <2>2, <2>3
<1> QED BY <1>3, <1>4 DEF Able, IsAccount

\* nextAuth() of an order whose present authorization the server called valid.
LEMMA NextAuthGood ==
  ASSUME NEW a, NEW o, NEW v, NEW w, NEW t, w \subseteq Certs,
         Able(a), Good(a, o, v, w, t), a.state \in {STATE_GET_AUTH, STATE_CHALLENGE},
         a.order # NoOrder, a.currentAuth < a.order
  PROVE  /\ Done(nextAuth(a)) /\ Good(nextAuth(a), o, v \cup {a.currentAuth}, w, t)
         /\ GoesOn(nextAuth(a)) /\ nextAuth(a).due = a.due
<1> DEFINE s == IF a.currentAuth + 1 < a.order THEN STATE_GET_AUTH ELSE STATE_FINALIZE
           m == [a EXCEPT !.currentAuth = @ + 1, !.state = s]
           u == v \cup {a.currentAuth}
<1>1. s \in {STATE_GET_AUTH, STATE_FINALIZE}
  OBVIOUS
<1>2. nextAuth(a) = next(m)
  BY DEF nextAuth
<1>3. s = STATE_GET_AUTH => a.currentAuth + 1 < a.order
  OBVIOUS
<1>4. s = STATE_FINALIZE => ~(a.currentAuth + 1 < a.order)
  OBVIOUS
<1> HIDE DEF s
<1>5. /\ Able(m) /\ m.state = s /\ m.currentKeyCert = a.currentKeyCert
      /\ m.currentAuth = a.currentAuth + 1
      /\ m.due = a.due /\ m.wait = a.wait /\ m.directory = a.directory /\ m.kid = a.kid
      /\ m.nonce = a.nonce /\ m.order = a.order /\ m.request = "none"
  BY <1>1, SMT DEF Able, IsAccount, Ready
<1> HIDE DEF m
<1>6. o.cert = a.currentKeyCert /\ a.order = o.auths /\ 0..(a.currentAuth - 1) \subseteq v
  BY DEF Good, Validated
<1>7. 0..a.currentAuth \subseteq u
  <2>1. \A i \in 0..a.currentAuth : i = a.currentAuth \/ i \in 0..(a.currentAuth - 1)
    BY DEF Able, IsAccount
  <2> QED BY <1>6, <2>1
<1> HIDE DEF u
<1>8. Validated(m, o, u)
  <2>1. CASE s = STATE_GET_AUTH
    <3>1. m.currentAuth - 1 = a.currentAuth
      BY <1>5 DEF Able, IsAccount
    <3> QED BY <1>5, <1>6, <1>7, <2>1, <3>1 DEF Validated
  <2>2. CASE s = STATE_FINALIZE
    <3>1. o.auths - 1 = a.currentAuth /\ o.auths > 0
      BY <1>4, <1>6, <2>2 DEF Able, IsAccount
    <3> QED BY <1>5, <1>6, <1>7, <2>2, <3>1 DEF Validated
  <2> QED BY <1>1, <2>1, <2>2
<1>9. server = "orderly" /\ maxRetries > 0 => Prepared(m)
  BY <1>1, <1>5 DEF Good, Prepared
<1>10. maxRetries > 0 => Ahead(m, w, t)
  BY <1>1, <1>5 DEF Good, Ahead
<1>11. Good(m, o, u, w, t)
  BY <1>5, <1>8, <1>9, <1>10 DEF Good
<1>12. /\ Done(next(m)) /\ Good(next(m), o, u, w, t) /\ GoesOn(next(m)) /\ next(m).due = m.due
  BY <1>5, <1>11, NextGood, SMTT(30), SMTT(60)
<1> QED BY <1>2, <1>5, <1>12 DEF u

LEMMA ThrowGood ==
  ASSUME NEW a, NEW o, NEW v, NEW w, NEW t, Able(a), Good(a, o, v, w, t),
         a.state # STATE_IDLE, a.retries = 0
  PROVE  /\ Done(Throw(a)) /\ Good(Throw(a), o, v, w, t) /\ Throw(a).threw
         /\ Throw(a).due = a.due /\ Throw(a).state = a.state
<1>1. /\ IsAccount(Throw(a)) /\ Alike(a, Throw(a)) /\ Ready(Throw(a)) /\ Throw(a).threw
      /\ Throw(a).retries = 0
  BY SMT DEF Able, IsAccount, Ready, Alike, Throw
<1>2. Good(Throw(a), o, v, w, t)
  BY <1>1, AlikeGood
<1>3. Throw(a).due = a.due /\ Throw(a).state = a.state
  BY <1>1 DEF Alike
<1> QED BY <1>1, <1>2, <1>3 DEF Done, Waiting, Ready
--------------------------------------------------------------------------------
\* What an answer may hold.
IsAnswer(r) ==
  /\ r.status \in {"garbage", "pending", "processing", "valid", "invalid"}
  /\ r.doc \in {"good", "partial"} /\ r.auths \in Nat
  /\ r.offer \in {"http-01", "other", "partial"}
  /\ server = "orderly" => r.doc = "good" /\ r.offer = "http-01"

LEMMA AnswerFields ==
  ASSUME NEW s, NEW r \in Answers(s), server \in {"orderly", "any"}
  PROVE  IsAnswer(r)
<1>1. 0..MaxAuths \subseteq Nat
  OBVIOUS
<1>2. CASE r \in [ok : BOOLEAN, nonce : BOOLEAN, problem : {TRUE}, status : {"valid"},
                  doc : {"good"}, auths : {0}, offer : {"http-01"}]
  BY <1>2 DEF IsAnswer
<1>3. CASE r \in [ok : {TRUE}, nonce : BOOLEAN, problem : {FALSE},
     status : {"garbage", "pending", "processing", "valid", "invalid"},
     doc : IF s \in {STATE_GET_DIR, STATE_NEW_ORDER, STATE_FINALIZE, STATE_GET_ORDER}
           THEN Docs ELSE {"good"},
     auths : IF s = STATE_NEW_ORDER THEN 0..MaxAuths ELSE {0},
     offer : IF s = STATE_GET_AUTH THEN Offers ELSE {"http-01"}]
  <2>1. /\ r.status \in {"garbage", "pending", "processing", "valid", "invalid"}
        /\ r.doc = "good" \/ r.doc \in Docs
        /\ r.auths = 0 \/ r.auths \in 0..MaxAuths
        /\ r.offer = "http-01" \/ r.offer \in Offers
    BY <1>3
  <2> QED BY <1>1, <2>1 DEF IsAnswer, Docs, Offers
<1> QED BY <1>2, <1>3, Zenon DEF Answers

\* What is known of the request whose answer is looked at.
Asking(a, t) ==
  /\ a.state = STATE_GET_AUTH => a.order # NoOrder /\ a.currentAuth < a.order
  /\ a.state = STATE_NEW_ORDER /\ maxRetries > 0 => a.currentKeyCert \in t

\* How the switch of responseHandler() leaves the account.
Handled(d, o, v, w, t) ==
  /\ Done(d) /\ Good(d, o, v, w, t) /\ (d.threw \/ GoesOn(d))

LEMMA GetDirectory ==
  ASSUME NEW a, NEW o, NEW v, NEW w, NEW t, w \subseteq Certs, Able(a), Good(a, o, v, w, t),
         a.state = STATE_GET_DIR, NEW r, IsAnswer(r), r.status # "garbage"
  PROVE  Handled(Dispatch(a, r), o, v, w, t) /\ Dispatch(a, r).due = a.due
<1> DEFINE m == [[a EXCEPT !.directory = r.doc] EXCEPT !.state = @ + 1]
<1>1. Dispatch(a, r) = next(m)
  BY DEF Dispatch, Advance
<1>2. /\ Able(m) /\ m.state = STATE_REGISTER /\ m.directory = r.doc
      /\ m.currentKeyCert = a.currentKeyCert /\ m.kid = a.kid
      /\ m.due = a.due /\ m.wait = a.wait /\ m.nonce = a.nonce
  BY SMT DEF Able, IsAccount, Ready, IsAnswer
<1> HIDE DEF m
<1>3. Validated(m, o, v)
  BY <1>2 DEF Validated
<1>4. server = "orderly" /\ maxRetries > 0 => Prepared(m)
  BY <1>2 DEF IsAnswer, Prepared
<1>5. maxRetries > 0 => Ahead(m, w, t)
  BY <1>2 DEF IsAnswer, Good, Ahead
<1>6. Good(m, o, v, w, t)
  BY <1>2, <1>3, <1>4, <1>5 DEF Good
<1>7. /\ Done(next(m)) /\ Good(next(m), o, v, w, t) /\ GoesOn(next(m)) /\ next(m).due = m.due
  BY <1>2, <1>6, NextGood, SMTT(30), SMTT(60)
<1> QED BY <1>1, <1>2, <1>7 DEF Handled

LEMMA Registered ==
  ASSUME NEW a, NEW o, NEW v, NEW w, NEW t, w \subseteq Certs, Able(a), Good(a, o, v, w, t),
         a.state = STATE_REGISTER, NEW r, r.status # "garbage"
  PROVE  Handled(Dispatch(a, r), o, v, w, t) /\ Dispatch(a, r).due = a.due
<1> DEFINE m == [[a EXCEPT !.kid = TRUE] EXCEPT !.state = @ + 1]
<1>1. Dispatch(a, r) = next(m)
  BY DEF Dispatch, Advance
<1>2. /\ Able(m) /\ m.state = STATE_NEW_ORDER /\ m.directory = a.directory
      /\ m.currentKeyCert = a.currentKeyCert /\ m.kid
      /\ m.due = a.due /\ m.wait = a.wait /\ m.nonce = a.nonce
  BY SMT DEF Able, IsAccount, Ready
<1> HIDE DEF m
<1>3. Validated(m, o, v)
  BY <1>2 DEF Validated
<1>4. server = "orderly" /\ maxRetries > 0 => Prepared(m)
  BY <1>2 DEF Good, Prepared
<1>5. maxRetries > 0 => Ahead(m, w, t)
  BY <1>2 DEF Good, Ahead
<1>6. Good(m, o, v, w, t)
  BY <1>2, <1>3, <1>4, <1>5 DEF Good
<1>7. /\ Done(next(m)) /\ Good(next(m), o, v, w, t) /\ GoesOn(next(m)) /\ next(m).due = m.due
  BY <1>2, <1>6, NextGood, SMTT(30), SMTT(60)
<1> QED BY <1>1, <1>2, <1>7 DEF Handled

\* The order is for the present certificate and nothing of it is valid yet.
LEMMA OrderMade ==
  ASSUME NEW a, NEW o, NEW v, NEW w, NEW t, w \subseteq Certs, Able(a), Good(a, o, v, w, t),
         Asking(a, t), a.state = STATE_NEW_ORDER, NEW r, IsAnswer(r), r.status # "garbage",
         NEW d, d = Dispatch(a, r)
  PROVE  /\ Handled(d, [cert |-> a.currentKeyCert, auths |-> d.order], {}, w, t)
         /\ d.due = a.due /\ d.state \in {STATE_GET_AUTH, STATE_IDLE, STATE_NEW_ORDER}
<1> DEFINE n == IF r.doc = "good" THEN r.auths ELSE NoOrder
           m == [[a EXCEPT !.currentAuth = 0, !.order = n] EXCEPT !.state = @ + 1]
           p == [cert |-> a.currentKeyCert, auths |-> n]
<1>1. Dispatch(a, r) = next(m)
  BY DEF Dispatch, Advance
<1>2. /\ n \in Nat \cup {NoOrder}
      /\ server = "orderly" => n # NoOrder
  BY DEF IsAnswer, NoOrder
<1> HIDE DEF n
<1>3. /\ Able(m) /\ m.state = STATE_GET_AUTH /\ m.directory = a.directory
      /\ m.currentKeyCert = a.currentKeyCert /\ m.kid = a.kid
      /\ m.due = a.due /\ m.wait = a.wait /\ m.nonce = a.nonce
      /\ m.order = n /\ m.currentAuth = 0 /\ m.request = "none"
  BY <1>2, SMT DEF Able, IsAccount, Ready
<1> HIDE DEF m
<1>4. Validated(m, p, {})
  BY <1>3 DEF Validated
<1>5. server = "orderly" /\ maxRetries > 0 => Prepared(m)
  BY <1>2, <1>3 DEF Good, Prepared
<1>6. maxRetries > 0 => Ahead(m, w, t)
  BY <1>3 DEF Good, Ahead, Asking
<1>7. Good(m, p, {}, w, t)
  BY <1>3, <1>4, <1>5, <1>6 DEF Good
<1>8. /\ Done(next(m)) /\ Good(next(m), p, {}, w, t) /\ GoesOn(next(m)) /\ next(m).due = m.due
      /\ next(m).order = m.order /\ next(m).state \in {m.state, STATE_IDLE, STATE_NEW_ORDER}
  BY <1>3, <1>7, NextGood, SMTT(30), SMTT(60)
<1> QED BY <1>1, <1>3, <1>8, SMTT(30), SMTT(60) DEF Handled

\* The authorization of STATE_GET_AUTH: only "valid" counts it.
LEMMA Authorized ==
  ASSUME NEW a, NEW o, NEW v, NEW w, NEW t, w \subseteq Certs, maxRetries \in Nat,
         Able(a), a.retries = 0, Good(a, o, v, w, t), Asking(a, t),
         a.state = STATE_GET_AUTH, NEW r, IsAnswer(r), r.status # "garbage"
  PROVE  /\ Handled(Dispatch(a, r), o,
                    IF r.status = "valid" THEN v \cup {a.currentAuth} ELSE v, w, t)
         /\ Dispatch(a, r).due = a.due
<1> DEFINE b == [a EXCEPT !.authorization = r.offer]
<1>1. Dispatch(a, r) = GetAuth(b, r.status)
  BY DEF Dispatch
<1>2. /\ Able(b) /\ b.state = STATE_GET_AUTH /\ b.directory = a.directory
      /\ b.currentKeyCert = a.currentKeyCert /\ b.kid = a.kid /\ b.retries = 0
      /\ b.due = a.due /\ b.wait = a.wait /\ b.nonce = a.nonce /\ b.request = "none"
      /\ b.order = a.order /\ b.currentAuth = a.currentAuth /\ b.authorization = r.offer
  BY SMT DEF Able, IsAccount, Ready, IsAnswer
<1> HIDE DEF b
<1>3. b.order # NoOrder /\ b.currentAuth < b.order
  BY <1>2 DEF Asking
<1>4. Good(b, o, v, w, t)
  <2>1. Validated(b, o, v)
    BY <1>2 DEF Good, Validated
  <2>2. Prepared(a) => Prepared(b)
    BY <1>2 DEF Prepared
  <2>3. Ahead(a, w, t) => Ahead(b, w, t)
    BY SMTT(30), SMTT(60), <1>2 DEF Ahead
  <2> QED BY <1>2, <2>1, <2>2, <2>3 DEF Good
<1>5. CASE r.status = "pending"
  <2> DEFINE m == [b EXCEPT !.state = @ + 1]
  <2>1. GetAuth(b, r.status) = next(m)
    BY <1>5 DEF GetAuth, Advance
  <2>2. /\ Able(m) /\ m.state = STATE_CHALLENGE /\ m.directory = b.directory
        /\ m.currentKeyCert = b.currentKeyCert /\ m.kid = b.kid
        /\ m.due = b.due /\ m.wait = b.wait /\ m.nonce = b.nonce
        /\ m.order = b.order /\ m.currentAuth = b.currentAuth
        /\ m.authorization = b.authorization
    BY <1>2, SMT DEF Able, IsAccount, Ready
  <2> HIDE DEF m
  <2>3. Validated(m, o, v)
    BY <1>2, <1>3, <1>4, <2>2 DEF Good, Validated
  <2>4. server = "orderly" /\ maxRetries > 0 => Prepared(m)
    BY SMTT(30), SMTT(60), <1>2, <1>3, <1>4, <2>2 DEF Good, Prepared, IsAnswer
  <2>5. maxRetries > 0 => Ahead(m, w, t)
    BY <1>2, <1>4, <2>2 DEF Good, Ahead
  <2>6. Good(m, o, v, w, t)
    BY ZenonT(60), <1>4, <2>2, <2>3, <2>4, <2>5 DEF Good
  <2>7. Handled(next(m), o, v, w, t) /\ next(m).due = m.due
    BY <2>2, <2>6, NextGood, SMTT(30), SMTT(60) DEF Handled
  <2> QED BY <1>1, <1>2, <1>5, <2>1, <2>2, <2>7
<1>6. CASE r.status = "processing"
  <2>1. GetAuth(b, r.status) = retry(b)
    BY ZenonT(60), <1>6 DEF GetAuth
  <2>2. Handled(retry(b), o, v, w, t) /\ retry(b).due = b.due
    BY SMTT(30), SMTT(60), <1>2, <1>4, RetryGood DEF Handled
  <2> QED BY <1>1, <1>2, <1>6, <2>1, <2>2
<1>7. CASE r.status = "valid"
  <2>1. GetAuth(b, r.status) = nextAuth(b)
    BY SMTT(30), SMTT(60), <1>7 DEF GetAuth
  <2>2. Handled(nextAuth(b), o, v \cup {b.currentAuth}, w, t) /\ nextAuth(b).due = b.due
    BY ZenonT(60), <1>2, <1>3, <1>4, NextAuthGood DEF Handled
  <2> QED BY <1>1, <1>2, <1>7, <2>1, <2>2
<1>8. CASE r.status = "invalid"
  <2>1. CASE b.authorization = "partial"
    <3>1. GetAuth(b, r.status) = Throw(b)
      BY SMTT(30), SMTT(60), <1>8, <2>1 DEF GetAuth
    <3>2. Handled(Throw(b), o, v, w, t) /\ Throw(b).due = b.due
      BY <1>2, <1>4, ThrowGood DEF Handled
    <3> QED BY <1>1, <1>2, <1>8, <3>1, <3>2
  <2>2. CASE b.authorization # "partial"
    <3>1. GetAuth(b, r.status) = nextKeyCert(b)
      BY ZenonT(60), <1>8, <2>2 DEF GetAuth
    <3>2. b.currentKeyCert \in t \/ maxRetries = 0
      BY SMTT(30), SMTT(60), <1>2, <1>4 DEF Good, Ahead
    <3>3. Handled(nextKeyCert(b), o, v, w, t) /\ nextKeyCert(b).due = b.due
      BY SMTT(30), SMTT(60), <1>2, <1>4, <3>2, NextKeyCertGood DEF Handled
    <3> QED BY <1>1, <1>2, <1>8, <3>1, <3>3
  <2> QED BY SMTT(30), SMTT(60), <2>1, <2>2
<1> QED BY <1>5, <1>6, <1>7, <1>8 DEF IsAnswer

LEMMA Challenged ==
  ASSUME NEW a, NEW o, NEW v, NEW w, NEW t, w \subseteq Certs, maxRetries \in Nat,
         Able(a), a.retries = 0, Good(a, o, v, w, t),
         a.state = STATE_CHALLENGE, NEW r, IsAnswer(r), r.status # "garbage"
  PROVE  /\ Handled(Dispatch(a, r), o,
                    IF r.status = "valid" THEN v \cup {a.currentAuth} ELSE v, w, t)
         /\ Dispatch(a, r).due = a.due
<1>1. a.order # NoOrder /\ a.currentAuth < a.order
  BY SMTT(30), SMTT(60) DEF Good, Validated
<1>2. CASE r.status = "valid"
  <2>1. Dispatch(a, r) = nextAuth(a)
    BY <1>2 DEF Dispatch
  <2>2. Handled(nextAuth(a), o, v \cup {a.currentAuth}, w, t) /\ nextAuth(a).due = a.due
    BY <1>1, NextAuthGood DEF Handled
  <2> QED BY <1>2, <2>1, <2>2
<1>3. CASE r.status = "pending"
  <2> DEFINE m == [a EXCEPT !.state = STATE_GET_AUTH]
  <2>1. Dispatch(a, r) = retry(m)
    BY <1>3 DEF Dispatch
  <2>2. /\ Able(m) /\ m.state = STATE_GET_AUTH /\ m.directory = a.directory
        /\ m.currentKeyCert = a.currentKeyCert /\ m.kid = a.kid
        /\ m.due = a.due /\ m.wait = a.wait /\ m.nonce = a.nonce /\ m.request = "none"
        /\ m.order = a.order /\ m.currentAuth = a.currentAuth /\ m.retries = 0
    BY SMT DEF Able, IsAccount, Ready
  <2> HIDE DEF m
  <2>3. Validated(m, o, v)
    BY <2>2 DEF Good, Validated
  <2>4. server = "orderly" /\ maxRetries > 0 => Prepared(m)
    BY SMTT(30), SMTT(60), <2>2 DEF Good, Prepared
  <2>5. maxRetries > 0 => Ahead(m, w, t)
    BY <2>2 DEF Good, Ahead
  <2>6. Good(m, o, v, w, t)
    BY <2>2, <2>3, <2>4, <2>5 DEF Good
  <2>7. Handled(retry(m), o, v, w, t) /\ retry(m).due = m.due
    BY SMTT(30), SMTT(60), <2>2, <2>6, RetryGood DEF Handled
  <2> QED BY <1>3, <2>1, <2>2, <2>7
<1>4. CASE r.status \notin {"valid", "pending"}
  <2>1. Dispatch(a, r) = nextKeyCert(a)
    BY <1>4 DEF Dispatch
  <2>2. a.currentKeyCert \in t \/ maxRetries = 0
    BY DEF Good, Ahead
  <2>3. Handled(nextKeyCert(a), o, v, w, t) /\ nextKeyCert(a).due = a.due
    BY SMTT(30), SMTT(60), <2>2, NextKeyCertGood DEF Handled
  <2> QED BY <1>4, <2>1, <2>3
<1> QED BY SMTT(30), SMTT(60), <1>2, <1>3, <1>4

LEMMA Finalized ==
  ASSUME NEW a, NEW o, NEW v, NEW w, NEW t, w \subseteq Certs, maxRetries \in Nat,
         Able(a), a.retries = 0, Good(a, o, v, w, t),
         a.state \in {STATE_FINALIZE, STATE_GET_ORDER}, NEW r, IsAnswer(r)
  PROVE  Handled(Dispatch(a, r), o, v, w, t) /\ Dispatch(a, r).due = a.due
<1> DEFINE b == [a EXCEPT !.state = STATE_GET_ORDER]
           n == IF r.doc = "good" THEN r.auths ELSE NoOrder
           d == [b EXCEPT !.order = n]
<1>1. /\ r.status = "garbage" => Dispatch(a, r) = Throw(b)
      /\ r.status = "processing" => Dispatch(a, r) = retry(d)
      /\ r.status = "valid" => Dispatch(a, r) = Advance(d)
      /\ r.status \notin {"garbage", "processing", "valid"} => Dispatch(a, r) = nextKeyCert(d)
  <2>1. CASE a.state = STATE_FINALIZE
    BY <2>1 DEF Dispatch
  <2>2. CASE a.state = STATE_GET_ORDER
    BY <2>2 DEF Dispatch
  <2> QED BY <2>1, <2>2
<1>2. /\ Able(b) /\ b.state = STATE_GET_ORDER /\ b.directory = a.directory
      /\ b.currentKeyCert = a.currentKeyCert /\ b.kid = a.kid /\ b.retries = 0
      /\ b.due = a.due /\ b.wait = a.wait /\ b.nonce = a.nonce /\ b.order = a.order
  BY SMT DEF Able, IsAccount, Ready
<1> HIDE DEF b
<1>3. Good(b, o, v, w, t)
  <2>1. Validated(b, o, v)
    BY <1>2 DEF Good, Validated
  <2>2. Prepared(a) => Prepared(b)
    BY SMTT(30), SMTT(60), <1>2 DEF Prepared
  <2>3. Ahead(a, w, t) => Ahead(b, w, t)
    BY <1>2 DEF Ahead
  <2> QED BY SMTT(30), SMTT(60), <1>2, <2>1, <2>2, <2>3 DEF Good
<1>4. n \in Nat \cup {NoOrder} /\ (server = "orderly" => n # NoOrder)
  BY DEF IsAnswer, NoOrder
<1> HIDE DEF n
<1>5. /\ Able(d) /\ d.state = STATE_GET_ORDER /\ d.directory = b.directory
      /\ d.currentKeyCert = b.currentKeyCert /\ d.kid = b.kid /\ d.retries = 0
      /\ d.due = b.due /\ d.wait = b.wait /\ d.nonce = b.nonce /\ d.order = n
  BY <1>2, <1>4, SMT DEF Able, IsAccount, Ready
<1> HIDE DEF d
<1>6. Good(d, o, v, w, t)
  <2>1. Validated(d, o, v)
    BY <1>2, <1>3, <1>5 DEF Good, Validated
  <2>2. server = "orderly" /\ Prepared(b) => Prepared(d)
    BY SMTT(30), SMTT(60), <1>2, <1>4, <1>5 DEF Prepared
  <2>3. Ahead(b, w, t) => Ahead(d, w, t)
    BY ZenonT(60), <1>2, <1>5 DEF Ahead
  <2> QED BY ZenonT(60), <1>3, <1>5, <2>1, <2>2, <2>3 DEF Good
<1>7. CASE r.status = "garbage"
  <2>1. Handled(Throw(b), o, v, w, t) /\ Throw(b).due = b.due
    BY SMTT(30), SMTT(60), <1>2, <1>3, ThrowGood DEF Handled
  <2> QED BY <1>1, <1>2, <1>7, <2>1
<1>8. CASE r.status = "processing"
  <2>1. Handled(retry(d), o, v, w, t) /\ retry(d).due = d.due
    BY SMTT(30), SMTT(60), <1>5, <1>6, RetryGood DEF Handled
  <2> QED BY ZenonT(60), <1>1, <1>2, <1>5, <1>8, <2>1
<1>9. CASE r.status = "valid"
  <2> DEFINE m == [d EXCEPT !.state = @ + 1]
  <2>1. Advance(d) = next(m)
    BY DEF Advance
  <2>2. /\ Able(m) /\ m.state = STATE_GET_CERT /\ m.directory = d.directory
        /\ m.currentKeyCert = d.currentKeyCert /\ m.kid = d.kid
        /\ m.due = d.due /\ m.wait = d.wait /\ m.nonce = d.nonce /\ m.order = d.order
    BY SMTT(30), SMTT(60), <1>5, SMT DEF Able, IsAccount, Ready
  <2> HIDE DEF m
  <2>3. Validated(m, o, v)
    BY SMTT(30), SMTT(60), <1>5, <1>6, <2>2 DEF Good, Validated
  <2>4. Prepared(d) => Prepared(m)
    BY SMTT(30), SMTT(60), <1>5, <2>2 DEF Prepared
  <2>5. Ahead(d, w, t) => Ahead(m, w, t)
    BY <1>5, <2>2 DEF Ahead
  <2>6. Good(m, o, v, w, t)
    BY ZenonT(60), <1>6, <2>2, <2>3, <2>4, <2>5 DEF Good
  <2>7. Handled(next(m), o, v, w, t) /\ next(m).due = m.due
    BY ZenonT(60), <2>2, <2>6, NextGood DEF Handled
  <2> QED BY <1>1, <1>2, <1>5, <1>9, <2>1, <2>2, <2>7
<1>10. CASE r.status \notin {"garbage", "processing", "valid"}
  <2>1. d.currentKeyCert \in t \/ maxRetries = 0
    BY SMTT(30), SMTT(60), <1>5, <1>6 DEF Good, Ahead
  <2>2. Handled(nextKeyCert(d), o, v, w, t) /\ nextKeyCert(d).due = d.due
    BY SMTT(30), SMTT(60), <1>5, <1>6, <2>1, NextKeyCertGood DEF Handled
  <2> QED BY ZenonT(60), <1>1, <1>2, <1>5, <1>10, <2>2
<1> QED BY <1>7, <1>8, <1>9, <1>10

\* Only the chain of the present certificate is replaced.
LEMMA Stored ==
  ASSUME NEW a, NEW o, NEW v, NEW w, NEW t, w \subseteq Certs, maxRetries \in Nat,
         Able(a), a.retries = 0, Good(a, o, v, w, t),
         a.state = STATE_GET_CERT, NEW r
  PROVE  /\ Handled(Dispatch(a, r), o, v, w, t)
         /\ \A c \in Certs : a.due[c] /\ ~Dispatch(a, r).due[c] => c = a.currentKeyCert
<1>1. CASE a.currentKeyCert \notin Certs
  <2>1. Dispatch(a, r) = Throw(a)
    BY <1>1 DEF Dispatch
  <2>2. Handled(Throw(a), o, v, w, t) /\ Throw(a).due = a.due
    BY SMTT(30), SMTT(60), ThrowGood DEF Handled
  <2> QED BY <2>1, <2>2
<1>2. ASSUME NEW x \in BOOLEAN, a.currentKeyCert \in Certs,
             NEW m, m = [a EXCEPT !.due[a.currentKeyCert] = x]
      PROVE  /\ Able(m) /\ m.state = a.state /\ m.retries = 0 /\ Good(m, o, v, w, t)
             /\ m.currentKeyCert = a.currentKeyCert
             /\ \A c \in Certs : c # a.currentKeyCert => m.due[c] = a.due[c]
  <2>1. /\ Able(m) /\ m.state = STATE_GET_CERT /\ m.directory = a.directory
        /\ m.currentKeyCert = a.currentKeyCert /\ m.kid = a.kid /\ m.retries = 0
        /\ m.wait = a.wait /\ m.nonce = a.nonce /\ m.order = a.order
    BY <1>2, SMT DEF Able, IsAccount, Ready
  <2>2. \A c \in Certs : c # a.currentKeyCert => m.due[c] = a.due[c]
    BY <1>2, SMT DEF Able, IsAccount
  <2>3. Validated(m, o, v)
    BY <2>1 DEF Good, Validated
  <2>4. Prepared(a) => Prepared(m)
    BY SMTT(30), SMTT(60), <2>1 DEF Prepared
  <2>5. Ahead(a, w, t) => Ahead(m, w, t)
    BY <2>1, <2>2 DEF Ahead
  <2>6. Good(m, o, v, w, t)
    BY ZenonT(60), <2>1, <2>3, <2>4, <2>5 DEF Good
  <2> QED BY <2>1, <2>2, <2>6
<1>3. CASE a.currentKeyCert \in Certs /\ r.status = "valid"
  <2> DEFINE m == [a EXCEPT !.due[a.currentKeyCert] = FALSE]
  <2>1. Dispatch(a, r) = nextKeyCert(m)
    BY <1>3 DEF Dispatch
  <2>2. /\ Able(m) /\ m.state = a.state /\ m.retries = 0 /\ Good(m, o, v, w, t)
        /\ m.currentKeyCert = a.currentKeyCert
        /\ \A c \in Certs : c # a.currentKeyCert => m.due[c] = a.due[c]
    BY <1>2, <1>3, Zenon
  <2> HIDE DEF m
  <2>3. m.currentKeyCert \in t \/ maxRetries = 0
    BY SMTT(30), SMTT(60), <2>2 DEF Good, Ahead
  <2>4. Handled(nextKeyCert(m), o, v, w, t) /\ nextKeyCert(m).due = m.due
    BY SMTT(30), SMTT(60), <2>2, <2>3, NextKeyCertGood DEF Handled
  <2> QED BY <2>1, <2>2, <2>4
<1>4. CASE a.currentKeyCert \in Certs /\ r.status # "valid"
  <2> DEFINE m == [a EXCEPT !.due[a.currentKeyCert] = TRUE]
  <2>1. Dispatch(a, r) = Throw(m)
    BY <1>4 DEF Dispatch
  <2>2. /\ Able(m) /\ m.state = a.state /\ m.retries = 0 /\ Good(m, o, v, w, t)
        /\ \A c \in Certs : c # a.currentKeyCert => m.due[c] = a.due[c]
    BY <1>2, <1>4, Zenon
  <2> HIDE DEF m
  <2>3. Handled(Throw(m), o, v, w, t) /\ Throw(m).due = m.due
    BY <2>2, ThrowGood DEF Handled
  <2> QED BY <2>1, <2>2, <2>3
<1> QED BY ZenonT(60), <1>1, <1>3, <1>4

\* What an answer makes of the order and of its valid authorizations.
Made(a, d) == a.state = STATE_NEW_ORDER /\ d.state = STATE_GET_AUTH

OrderOf(a, d, o) ==
  IF Made(a, d) THEN [cert |-> a.currentKeyCert, auths |-> d.order] ELSE o

ValidOf(a, d, said, v) ==
  IF Made(a, d) THEN {} ELSE IF said THEN v \cup {a.currentAuth} ELSE v

\* Without an order it does not matter which one is remembered.
LEMMA NoOrderGood ==
  ASSUME NEW a, NEW o, NEW v, NEW p, NEW u, NEW w, NEW t,
         a.state \in {STATE_IDLE, STATE_NEW_ORDER}, Good(a, o, v, w, t)
  PROVE  Good(a, p, u, w, t)
<1>1. Validated(a, p, u)
  BY SMTT(30), SMTT(60) DEF Validated
<1> QED BY <1>1 DEF Good

LEMMA DispatchGood ==
  ASSUME NEW a, NEW o, NEW v, NEW w, NEW t, w \subseteq Certs, maxRetries \in Nat,
         Able(a), a.retries = 0, Good(a, o, v, w, t), Asking(a, t),
         a.state # STATE_IDLE, NEW r, IsAnswer(r), NEW d, d = Dispatch(a, r),
         NEW said \in BOOLEAN,
         said <=> r.status = "valid" /\ a.state \in {STATE_GET_AUTH, STATE_CHALLENGE}
  PROVE  /\ Handled(d, OrderOf(a, d, o), ValidOf(a, d, said, v), w, t)
         /\ \A c \in Certs : a.due[c] /\ ~d.due[c] =>
              a.state = STATE_GET_CERT /\ c = a.currentKeyCert
<1>1. a.state \in 1..8
  BY SMTT(30), SMTT(60) DEF Able, IsAccount
<1>2. ~Made(a, d) => OrderOf(a, d, o) = o
  BY DEF OrderOf
<1>3. ~Made(a, d) /\ ~said => ValidOf(a, d, said, v) = v
  BY DEF ValidOf
<1>4. ~Made(a, d) /\ said => ValidOf(a, d, said, v) = v \cup {a.currentAuth}
  BY ZenonT(60) DEF ValidOf
<1>5. CASE a.state \in 1..5 /\ r.status = "garbage"
  <2>1. d = Throw(a)
    BY <1>5 DEF Dispatch
  <2>2. Handled(d, o, v, w, t) /\ d.due = a.due /\ d.state = a.state
    BY ZenonT(60), <2>1, ThrowGood DEF Handled
  <2>3. ~Made(a, d) /\ ~said
    BY SMTT(30), SMTT(60), <1>5, <2>2 DEF Made
  <2> QED BY <1>2, <1>3, <2>2, <2>3
<1>6. CASE a.state = STATE_GET_DIR /\ r.status # "garbage"
  <2>1. Handled(d, o, v, w, t) /\ d.due = a.due
    BY <1>6, GetDirectory
  <2>2. ~Made(a, d) /\ ~said
    BY SMTT(30), SMTT(60), <1>6 DEF Made
  <2> QED BY ZenonT(60), <1>2, <1>3, <2>1, <2>2
<1>7. CASE a.state = STATE_REGISTER /\ r.status # "garbage"
  <2>1. Handled(d, o, v, w, t) /\ d.due = a.due
    BY <1>7, Registered
  <2>2. ~Made(a, d) /\ ~said
    BY SMTT(30), SMTT(60), <1>7 DEF Made
  <2> QED BY <1>2, <1>3, <2>1, <2>2
<1>8. CASE a.state = STATE_NEW_ORDER /\ r.status # "garbage"
  <2>1. /\ Handled(d, [cert |-> a.currentKeyCert, auths |-> d.order], {}, w, t)
        /\ d.due = a.due /\ d.state \in {STATE_GET_AUTH, STATE_IDLE, STATE_NEW_ORDER}
    BY ZenonT(60), <1>8, OrderMade
  <2>2. CASE Made(a, d)
    <3>1. /\ OrderOf(a, d, o) = [cert |-> a.currentKeyCert, auths |-> d.order]
          /\ ValidOf(a, d, said, v) = {}
      BY ZenonT(60), <2>2 DEF OrderOf, ValidOf
    <3> QED BY <2>1, <3>1
  <2>3. CASE ~Made(a, d)
    <3>1. d.state \in {STATE_IDLE, STATE_NEW_ORDER}
      BY Zenon, <1>8, <2>1, <2>3 DEF Made
    <3>2. Handled(d, o, v, w, t)
      BY <2>1, <3>1, NoOrderGood DEF Handled
    <3>3. ~said
      BY <1>8
    <3> QED BY <1>2, <1>3, <2>1, <2>3, <3>2, <3>3
  <2> QED BY ZenonT(60), <2>2, <2>3
<1>9. CASE a.state \in {STATE_GET_AUTH, STATE_CHALLENGE} /\ r.status # "garbage"
  <2>1. /\ Handled(d, o, IF r.status = "valid" THEN v \cup {a.currentAuth} ELSE v, w, t)
        /\ d.due = a.due
    BY <1>9, Authorized, Challenged, ZenonT(60)
  <2>2. ~Made(a, d) /\ (said <=> r.status = "valid")
    BY <1>9 DEF Made
  <2> QED BY <1>2, <1>3, <1>4, <2>1, <2>2, Zenon
<1>10. CASE a.state \in {STATE_FINALIZE, STATE_GET_ORDER}
  <2>1. Handled(d, o, v, w, t) /\ d.due = a.due
    BY <1>10, Finalized
  <2>2. ~Made(a, d) /\ ~said
    BY SMTT(30), SMTT(60), <1>10 DEF Made
  <2> QED BY <1>2, <1>3, <2>1, <2>2
<1>11. CASE a.state = STATE_GET_CERT
  <2>1. /\ Handled(d, o, v, w, t)
        /\ \A c \in Certs : a.due[c] /\ ~d.due[c] => c = a.currentKeyCert
    BY <1>11, Stored
  <2>2. ~Made(a, d) /\ ~said
    BY <1>11 DEF Made
  <2> QED BY ZenonT(60), <1>2, <1>3, <1>11, <2>1, <2>2
<1>12. \/ a.state \in 1..5 /\ r.status = "garbage"
       \/ a.state = STATE_GET_DIR /\ r.status # "garbage"
       \/ a.state = STATE_REGISTER /\ r.status # "garbage"
       \/ a.state = STATE_NEW_ORDER /\ r.status # "garbage"
       \/ a.state \in {STATE_GET_AUTH, STATE_CHALLENGE} /\ r.status # "garbage"
       \/ a.state \in {STATE_FINALIZE, STATE_GET_ORDER}
       \/ a.state = STATE_GET_CERT
  BY SMTT(30), SMTT(60), <1>1
<1> QED BY Zenon, <1>5, <1>6, <1>7, <1>8, <1>9, <1>10, <1>11, <1>12
--------------------------------------------------------------------------------
Said(r) ==
  /\ r.ok /\ ~r.problem /\ r.status = "valid"
  /\ acct.request # "HEAD"
  /\ acct.state \in {STATE_GET_AUTH, STATE_CHALLENGE}

\* How a whole callback leaves the account.
Left(f, o, v, w, t) == Done(f) /\ Good(f, o, v, w, t) /\ GoesOn(f)

\* retry() after a function of the account has thrown.
LEMMA RetryAfter ==
  ASSUME NEW d, NEW o, NEW v, owed \subseteq Certs, maxRetries \in Nat,
         Done(d), Good(d, o, v, owed, tried), d.threw,
         NEW f, f = retry([d EXCEPT !.threw = FALSE])
  PROVE  /\ Left(f, o, v, owed, tried) /\ f.due = d.due
         /\ \/ f.state = d.state /\ f.order = d.order
            \/ f.state \in {STATE_IDLE, STATE_NEW_ORDER}
<1> DEFINE z == [d EXCEPT !.threw = FALSE]
<1>1. Able(z) /\ Alike(d, z) /\ z.retries = d.retries
  BY SMT DEF Done, Able, IsAccount, Ready, Alike
<1> HIDE DEF z
<1>2. Good(z, o, v, owed, tried)
  BY <1>1, AlikeGood
<1>3. z.state # STATE_IDLE /\ (z.retries = 0 \/ maxRetries = 0)
  BY <1>1 DEF Done, Alike
<1>4. /\ Left(retry(z), o, v, owed, tried) /\ retry(z).due = z.due
      /\ \/ retry(z).state = z.state /\ retry(z).order = z.order
         \/ retry(z).state \in {STATE_IDLE, STATE_NEW_ORDER}
  BY <1>1, <1>2, <1>3, RetryGood DEF Left
<1>5. f = retry(z)
  BY DEF z
<1> QED BY <1>1, <1>4, <1>5 DEF Alike

\* The account as responseHandler() finds it once the request is over, with or
\* without a new nonce.
LEMMA Answering ==
  ASSUME IInv, acct.request # "none",
         NEW a, a = [acct EXCEPT !.request = "none", !.sent = "none"],
         NEW b, b = a \/ b = [a EXCEPT !.nonce = "fresh"]
  PROVE  /\ Able(b) /\ b.retries = 0 /\ Good(b, orderFor, validated, owed, tried)
         /\ b.state = acct.state /\ b.state # STATE_IDLE /\ b.due = acct.due
         /\ b.currentKeyCert = acct.currentKeyCert /\ b.currentAuth = acct.currentAuth
         /\ acct.request # "HEAD" => Asking(b, tried)
<1>1. /\ IsAccount(acct) /\ ~acct.threw /\ acct.timer = "off" /\ acct.retries = 0
      /\ acct.state # STATE_IDLE /\ acct.nonce # "stale"
  BY SMTT(30), SMTT(60) DEF IInv, TypeInv, Waiting, NoStaleNonce, Ready
<1>2. /\ Able(a) /\ a.retries = 0 /\ a.state = acct.state /\ a.nonce = acct.nonce
      /\ a.currentKeyCert = acct.currentKeyCert /\ a.directory = acct.directory
      /\ a.kid = acct.kid /\ a.order = acct.order /\ a.currentAuth = acct.currentAuth
      /\ a.authorization = acct.authorization /\ a.due = acct.due /\ a.wait = acct.wait
  BY <1>1, SMT DEF Able, IsAccount, Ready
<1>3. /\ Able(b) /\ b.retries = 0 /\ b.state = acct.state /\ b.nonce # "stale"
      /\ b.currentKeyCert = acct.currentKeyCert /\ b.directory = acct.directory
      /\ b.kid = acct.kid /\ b.order = acct.order /\ b.currentAuth = acct.currentAuth
      /\ b.authorization = acct.authorization /\ b.due = acct.due /\ b.wait = acct.wait
      /\ b.request = "none"
  <2>1. CASE b = a
    BY <1>1, <1>2, <2>1 DEF Able, Ready
  <2>2. CASE b = [a EXCEPT !.nonce = "fresh"]
    BY <1>2, <2>2, SMT DEF Able, IsAccount, Ready
  <2> QED BY <2>1, <2>2
<1>4. Validated(b, orderFor, validated)
  BY <1>3 DEF IInv, Validated
<1>5. server = "orderly" /\ maxRetries > 0 => Prepared(b)
  BY <1>3 DEF IInv, Prepared
<1>6. maxRetries > 0 => Ahead(b, owed, tried)
  BY <1>3 DEF IInv, Ahead
<1>7. Good(b, orderFor, validated, owed, tried)
  BY <1>3, <1>4, <1>5, <1>6 DEF Good
<1>8. acct.request # "HEAD" => Asking(b, tried)
  <2> SUFFICES ASSUME acct.request # "HEAD" PROVE Asking(b, tried)
    OBVIOUS
  <2>1. acct.request \in {"GET", "POST"}
    BY <1>1 DEF IsAccount
  <2>2. acct.state = STATE_GET_AUTH => acct.order # NoOrder /\ acct.currentAuth < acct.order
    BY <2>1 DEF IInv, Validated
  <2>3. acct.state = STATE_NEW_ORDER => acct.request = "POST"
    BY ZenonT(60), <2>1 DEF IInv, Waiting
  <2> QED BY <1>3, <2>2, <2>3 DEF Asking, IInv
<1> QED BY <1>1, <1>3, <1>7, <1>8

\* One answer, from the account before it to the account after it.
LEMMA HandlerGood ==
  ASSUME IInv, acct.request # "none", NEW r, IsAnswer(r),
         NEW f, f = responseHandler(acct, r), NEW said \in BOOLEAN, said <=> Said(r)
  PROVE  /\ Left(f, OrderOf(acct, f, orderFor), ValidOf(acct, f, said, validated),
                 owed, tried)
         /\ \A c \in Certs : acct.due[c] /\ ~f.due[c] =>
              acct.state = STATE_GET_CERT /\ c = acct.currentKeyCert
<1> DEFINE a == [acct EXCEPT !.request = "none", !.sent = "none"]
           b == IF r.nonce THEN [a EXCEPT !.nonce = "fresh"] ELSE a
           d == CASE acct.request = "HEAD"               -> next(b)
                  [] acct.request # "HEAD" /\ r.problem  -> retry(b)
                  [] acct.request # "HEAD" /\ ~r.problem -> Dispatch(b, r)
           O(x) == OrderOf(acct, x, orderFor)
           V(x) == ValidOf(acct, x, said, validated)
           Kept(x) == \A c \in Certs : acct.due[c] /\ ~x.due[c] =>
                        acct.state = STATE_GET_CERT /\ c = acct.currentKeyCert
<1>1. owed \subseteq Certs /\ maxRetries \in Nat
  BY SMTT(30), SMTT(60) DEF IInv, TypeInv
<1>2. /\ ~r.ok => f = retry(a)
      /\ r.ok /\ d.threw => f = retry([d EXCEPT !.threw = FALSE])
      /\ r.ok /\ ~d.threw => f = d
  BY ZenonT(30) DEF responseHandler
<1>3. /\ acct.request = "HEAD" => d = next(b)
      /\ acct.request # "HEAD" /\ r.problem => d = retry(b)
      /\ acct.request # "HEAD" /\ ~r.problem => d = Dispatch(b, r)
  BY Zenon
<1>4. b = a \/ b = [a EXCEPT !.nonce = "fresh"]
  OBVIOUS
<1> HIDE DEF d, b
<1>5. /\ Able(a) /\ a.retries = 0 /\ Good(a, orderFor, validated, owed, tried)
      /\ a.state = acct.state /\ a.state # STATE_IDLE /\ a.due = acct.due
  BY Answering, Zenon
<1>6. /\ Able(b) /\ b.retries = 0 /\ Good(b, orderFor, validated, owed, tried)
      /\ b.state = acct.state /\ b.state # STATE_IDLE /\ b.due = acct.due
      /\ b.currentKeyCert = acct.currentKeyCert /\ b.currentAuth = acct.currentAuth
      /\ acct.request # "HEAD" => Asking(b, tried)
  BY <1>4, Answering, Zenon
<1> HIDE DEF a
\* An account that neither got an order nor an authorization.
<1>7. ASSUME NEW x, Good(x, orderFor, validated, owed, tried), ~Made(acct, x), ~said
      PROVE  Good(x, O(x), V(x), owed, tried)
  BY <1>7 DEF OrderOf, ValidOf
<1>8. CASE ~r.ok
  <2>1. /\ Done(retry(a)) /\ Good(retry(a), orderFor, validated, owed, tried) /\ GoesOn(retry(a))
        /\ retry(a).due = a.due
        /\ \/ retry(a).state = a.state
           \/ retry(a).state \in {STATE_IDLE, STATE_NEW_ORDER}
    BY <1>1, <1>5, RetryGood
  <2>2. ~Made(acct, f) /\ ~said
    BY <1>2, <1>5, <1>8, <2>1 DEF Made, Said
  <2>3. Good(f, O(f), V(f), owed, tried)
    BY ZenonT(60), <1>2, <1>7, <1>8, <2>1, <2>2
  <2> QED BY ZenonT(60), <1>2, <1>5, <1>8, <2>1, <2>3 DEF Left
<1>9. CASE r.ok
  <2>1. Done(d) /\ Good(d, O(d), V(d), owed, tried) /\ (d.threw \/ GoesOn(d)) /\ Kept(d)
    <3>1. CASE acct.request = "HEAD"
      <4>1. /\ Done(d) /\ Good(d, orderFor, validated, owed, tried) /\ GoesOn(d)
            /\ d.due = b.due /\ d.state \in {b.state, STATE_IDLE, STATE_NEW_ORDER}
        <5>1. d = next(b)
          BY Zenon, <1>3, <3>1
        <5> QED BY Zenon, <1>1, <1>6, <5>1, NextGood
      <4>2. ~Made(acct, d) /\ ~said
        BY SMTT(30), SMTT(60), <1>6, <3>1, <4>1 DEF Made, Said
      <4>3. Good(d, O(d), V(d), owed, tried)
        BY <1>7, <4>1, <4>2
      <4> QED BY SMTT(30), SMTT(60), <1>6, <4>1, <4>3
    <3>2. CASE acct.request # "HEAD" /\ r.problem
      <4>1. /\ Done(d) /\ Good(d, orderFor, validated, owed, tried) /\ GoesOn(d)
            /\ d.due = b.due
            /\ d.state = b.state \/ d.state \in {STATE_IDLE, STATE_NEW_ORDER}
        <5>1. d = retry(b)
          BY Zenon, <1>3, <3>2
        <5> QED BY Zenon, <1>1, <1>6, <5>1, RetryGood
      <4>2. ~Made(acct, d) /\ ~said
        BY SMTT(30), SMTT(60), <1>6, <3>2, <4>1 DEF Made, Said
      <4>3. Good(d, O(d), V(d), owed, tried)
        BY ZenonT(60), <1>7, <4>1, <4>2
      <4> QED BY ZenonT(60), <1>6, <4>1, <4>3
    <3>3. CASE acct.request # "HEAD" /\ ~r.problem
      <4>1. said <=> r.status = "valid" /\ b.state \in {STATE_GET_AUTH, STATE_CHALLENGE}
        BY SMTT(30), SMTT(60), <1>6, <1>9, <3>3 DEF Said
      <4>2. /\ Handled(d, OrderOf(b, d, orderFor), ValidOf(b, d, said, validated), owed, tried)
            /\ \A c \in Certs : b.due[c] /\ ~d.due[c] =>
                 b.state = STATE_GET_CERT /\ c = b.currentKeyCert
        BY ZenonT(60), <1>1, <1>3, <1>6, <3>3, <4>1, DispatchGood
      <4>3. OrderOf(b, d, orderFor) = O(d) /\ ValidOf(b, d, said, validated) = V(d)
        BY <1>6 DEF OrderOf, ValidOf, Made
      <4> QED BY <1>6, <4>2, <4>3 DEF Handled
    <3> QED BY ZenonT(60), <3>1, <3>2, <3>3
  <2>2. CASE ~d.threw
    BY <1>2, <1>9, <2>1, <2>2 DEF Left
  <2>3. CASE d.threw
    <3>1. /\ Left(f, O(d), V(d), owed, tried) /\ f.due = d.due
          /\ \/ f.state = d.state /\ f.order = d.order
             \/ f.state \in {STATE_IDLE, STATE_NEW_ORDER}
      BY SMTT(30), SMTT(60), <1>1, <1>2, <1>9, <2>1, <2>3, RetryAfter
    <3>2. CASE f.state = d.state /\ f.order = d.order
      <4>1. O(f) = O(d) /\ V(f) = V(d)
        BY ZenonT(60), <3>2 DEF OrderOf, ValidOf, Made
      <4> QED BY ZenonT(60), <2>1, <3>1, <4>1
    <3>3. CASE f.state \in {STATE_IDLE, STATE_NEW_ORDER}
      <4>1. Good(f, O(f), V(f), owed, tried)
        BY <3>1, <3>3, NoOrderGood DEF Left
      <4> QED BY <2>1, <3>1, <4>1 DEF Left
    <3> QED BY <3>1, <3>2, <3>3
  <2> QED BY <2>2, <2>3, SMTT(30), SMTT(60)
<1> QED BY <1>8, <1>9
--------------------------------------------------------------------------------
\* What a callback leaves behind satisfies the invariant.
LEMMA LeftInv ==
  ASSUME NEW f, Left(f, orderFor', validated', owed', tried),
         acct' = [f EXCEPT !.threw = FALSE], server' = server, maxRetries' = maxRetries,
         server \in {"orderly", "any"}, maxRetries \in Nat,
         orderFor' \in [cert : Nat, auths : Nat \cup {NoOrder}], validated' \subseteq Nat,
         owed' \subseteq Certs, tried \subseteq Nat, Ordered
  PROVE  IInv'
<1>1. IsAccount(f) /\ Waiting(f) /\ Good(f, orderFor', validated', owed', tried)
  BY DEF Left, Done
<1>2. /\ IsAccount(acct') /\ ~acct'.threw /\ Alike(f, acct') /\ acct'.retries = f.retries
      /\ acct'.timer = f.timer /\ acct'.sent = f.sent
  BY <1>1, SMT DEF IsAccount, Alike
<1>3. Good(acct', orderFor', validated', owed', tried)
  BY <1>1, <1>2, AlikeGood
<1>4. Waiting(acct')
  BY <1>1, <1>2 DEF Waiting, Ready, Alike
<1>5. server = "orderly" /\ maxRetries > 0 => Busy(acct')
  BY <1>2 DEF Left, GoesOn, Busy, Ready, Alike
<1>6. tried \subseteq tried' /\ tried' \subseteq Nat
  BY <1>2 DEF Ordered, IsAccount
<1>7. acct'.state = STATE_NEW_ORDER /\ acct'.request = "POST" => acct'.currentKeyCert \in tried'
  BY DEF Ordered
<1>8. maxRetries > 0 => Ahead(acct', owed', tried')
  BY <1>3, <1>6 DEF Good, Ahead
<1>9. TypeInv'
  BY SMTT(30), SMTT(60), <1>2, <1>6 DEF TypeInv
<1> QED BY <1>3, <1>4, <1>5, <1>7, <1>8, <1>9 DEF IInv, Good, NoStaleNonce

LEMMA RespondInv ==
  ASSUME IInv, Respond
  PROVE  /\ IInv'
         /\ \A c \in Certs : acct.due[c] /\ ~acct'.due[c] =>
              acct.state = STATE_GET_CERT /\ c = acct.currentKeyCert
<1>1. acct.request # "none"
  BY DEF Respond
<1>2. PICK r \in IF calm THEN ToThePoint(Asked) ELSE Answers(Asked) :
        /\ Becomes(responseHandler(acct, r))
        /\ orderFor' = OrderOf(acct, responseHandler(acct, r), orderFor)
        /\ validated' = ValidOf(acct, responseHandler(acct, r), Said(r), validated)
  BY Zenon DEF Respond, OrderOf, ValidOf, Made, Said
<1>3. r \in Answers(Asked)
  BY <1>2 DEF ToThePoint
<1>4. /\ owed' = owed /\ server' = server /\ maxRetries' = maxRetries /\ Ordered
  BY DEF Respond
<1>5. /\ IsAccount(acct) /\ server \in {"orderly", "any"} /\ maxRetries \in Nat
      /\ orderFor \in [cert : Nat, auths : Nat \cup {NoOrder}] /\ validated \subseteq Nat
      /\ owed \subseteq Certs /\ tried \subseteq Nat
  BY Zenon DEF IInv, TypeInv
<1>6. IsAnswer(r)
  BY <1>3, <1>5, AnswerFields
<1> DEFINE f == responseHandler(acct, r)
<1>7. PICK said \in BOOLEAN : said <=> Said(r)
  BY Zenon
<1>8. validated' = ValidOf(acct, f, said, validated)
  BY <1>2, <1>7 DEF ValidOf
<1>9. acct' = [f EXCEPT !.threw = FALSE] /\ orderFor' = OrderOf(acct, f, orderFor)
  BY ZenonT(60), <1>2 DEF Becomes
<1>10. /\ Left(f, OrderOf(acct, f, orderFor), ValidOf(acct, f, said, validated), owed, tried)
       /\ \A c \in Certs : acct.due[c] /\ ~f.due[c] =>
            acct.state = STATE_GET_CERT /\ c = acct.currentKeyCert
  BY ZenonT(60), <1>1, <1>6, <1>7, HandlerGood
<1> HIDE DEF f
<1>11. IsAccount(f)
  BY <1>10 DEF Left, Done
<1>12. orderFor' \in [cert : Nat, auths : Nat \cup {NoOrder}]
  <2>1. CASE Made(acct, f)
    <3>1. orderFor' = [cert |-> acct.currentKeyCert, auths |-> f.order]
      BY <1>9, <2>1 DEF OrderOf
    <3>2. acct.currentKeyCert \in Nat /\ f.order \in Nat \cup {NoOrder}
      BY <1>5, <1>11 DEF IsAccount
    <3> QED BY <3>1, <3>2
  <2>2. CASE ~Made(acct, f)
    BY SMTT(30), SMTT(60), <1>5, <1>9, <2>2 DEF OrderOf
  <2> QED BY <2>1, <2>2
<1>13. validated' \subseteq Nat
  BY Zenon, <1>5, <1>8 DEF ValidOf, IsAccount
<1>14. IInv'
  BY <1>4, <1>5, <1>8, <1>9, <1>10, <1>12, <1>13, LeftInv
<1>15. acct'.due = f.due
  BY <1>9, <1>11, SMT DEF IsAccount
<1> QED BY <1>10, <1>14, <1>15

\* retryEvent runs next() on an account that is not idle.
LEMMA RetryEventInv ==
  ASSUME IInv, RetryEvent
  PROVE  IInv' /\ acct'.due = acct.due
<1> DEFINE a == [acct EXCEPT !.timer = "off"]
<1>1. /\ IsAccount(acct) /\ ~acct.threw /\ acct.request = "none"
      /\ acct.state # STATE_IDLE /\ acct.nonce # "stale"
  BY DEF IInv, TypeInv, Waiting, NoStaleNonce, Ready, RetryEvent
<1>2. /\ Able(a) /\ Alike(acct, a)
  BY <1>1, SMT DEF Able, IsAccount, Ready, Alike
<1>3. Good(a, orderFor, validated, owed, tried)
  <2>1. Good(acct, orderFor, validated, owed, tried)
    BY <1>1 DEF IInv, Good
  <2> QED BY <1>2, <2>1, AlikeGood
<1>4. acct' = [next(a) EXCEPT !.threw = FALSE] /\ Ordered
  BY DEF RetryEvent, Becomes
<1> HIDE DEF a
<1>5. /\ server \in {"orderly", "any"} /\ maxRetries \in Nat
      /\ orderFor \in [cert : Nat, auths : Nat \cup {NoOrder}] /\ validated \subseteq Nat
      /\ owed \subseteq Certs /\ tried \subseteq Nat
  BY Zenon DEF IInv, TypeInv
<1>6. Left(next(a), orderFor, validated, owed, tried) /\ next(a).due = a.due
  BY <1>2, <1>3, <1>5, NextGood DEF Left
<1>7. /\ server' = server /\ maxRetries' = maxRetries /\ orderFor' = orderFor
      /\ validated' = validated /\ owed' = owed
  BY DEF RetryEvent
<1>8. IInv'
  BY <1>4, <1>5, <1>6, <1>7, LeftInv, Zenon
<1>9. acct'.due = next(a).due
  BY ZenonT(60), <1>4, <1>6, SMT DEF Left, Done, IsAccount
<1> QED BY <1>2, <1>6, <1>8, <1>9 DEF Alike

\* A pass begins with everything it owes ahead of it and without a nonce.
LEMMA UpdateInv ==
  ASSUME IInv, update
  PROVE  IInv' /\ acct'.due = acct.due
<1> DEFINE b == Begin(acct)
           a == [b EXCEPT !.nonce = "none"]
<1>1. /\ IsAccount(acct) /\ ~acct.threw /\ Ready(acct) /\ acct.state = STATE_IDLE
  BY ZenonT(60) DEF IInv, TypeInv, Waiting, update
<1>2. /\ Able(b) /\ b.due = acct.due /\ b.wait = acct.wait /\ b.kid = acct.kid
      /\ b.directory = acct.directory
      /\ \/ b.state = STATE_GET_DIR /\ acct.directory = "null"
              /\ b.currentKeyCert = acct.currentKeyCert
         \/ b.state = STATE_REGISTER /\ acct.directory # "null" /\ ~acct.kid
              /\ b.currentKeyCert = acct.currentKeyCert
         \/ b.state = STATE_NEW_ORDER /\ acct.directory # "null" /\ acct.kid
              /\ b.currentKeyCert = 0
  <2>1. CASE acct.directory = "null"
    <3>1. b = [acct EXCEPT !.state = STATE_GET_DIR]
      BY <2>1 DEF Begin
    <3> HIDE DEF b
    <3> QED BY <1>1, <2>1, <3>1, SMT DEF Able, IsAccount, Ready
  <2>2. CASE acct.directory # "null" /\ ~acct.kid
    <3>1. b = [acct EXCEPT !.state = STATE_REGISTER]
      BY SMTT(30), SMTT(60), <2>2 DEF Begin
    <3> HIDE DEF b
    <3> QED BY <1>1, <2>2, <3>1, SMT DEF Able, IsAccount, Ready
  <2>3. CASE acct.directory # "null" /\ acct.kid
    <3>1. b = [acct EXCEPT !.state = STATE_NEW_ORDER, !.currentKeyCert = 0]
      BY <2>3 DEF Begin
    <3> HIDE DEF b
    <3>2. Able(b)
      BY <1>1, <3>1, SMTT(30), SMTT(60) DEF Able, IsAccount, Ready
    <3>3. /\ b.due = acct.due /\ b.wait = acct.wait /\ b.kid = acct.kid
          /\ b.directory = acct.directory /\ b.state = STATE_NEW_ORDER /\ b.currentKeyCert = 0
      BY <1>1, <3>1, SMTT(30), SMTT(60) DEF IsAccount
    <3> QED BY <2>3, <3>2, <3>3
  <2> QED BY <2>1, <2>2, <2>3
<1>3. acct' = [next(a) EXCEPT !.threw = FALSE]
  BY DEF update, Becomes
<1> HIDE DEF b
<1>4. /\ Able(a) /\ a.due = b.due /\ a.wait = b.wait /\ a.kid = b.kid /\ a.nonce = "none"
      /\ a.directory = b.directory /\ a.state = b.state /\ a.currentKeyCert = b.currentKeyCert
  BY <1>2, SMT DEF Able, IsAccount, Ready
<1> HIDE DEF a
<1>5. /\ server \in {"orderly", "any"} /\ maxRetries \in Nat
      /\ orderFor \in [cert : Nat, auths : Nat \cup {NoOrder}] /\ validated \subseteq Nat
  BY Zenon DEF IInv, TypeInv
<1>6. /\ owed' = {c \in Certs : needsRenewal(acct, c)} /\ tried' = {}
      /\ server' = server /\ maxRetries' = maxRetries /\ orderFor' = orderFor
      /\ validated' = validated
  BY DEF update
<1>7. owed' \subseteq Certs
  BY SMTT(30), SMTT(60), <1>6
<1>8. Good(a, orderFor, validated, owed', {})
  <2>1. Validated(a, orderFor, validated)
    BY SMTT(30), SMTT(60), <1>2, <1>4 DEF Validated
  <2>2. server = "orderly" /\ maxRetries > 0 => Prepared(a)
    BY SMTT(30), SMTT(60), <1>1, <1>2, <1>4 DEF IInv, Prepared, IsAccount
  <2>3. maxRetries > 0 => Ahead(a, owed', {})
    <3> SUFFICES ASSUME maxRetries > 0 PROVE Ahead(a, owed', {})
      OBVIOUS
    <3>1. a.currentKeyCert = 0
      BY ZenonT(60), <1>2, <1>4 DEF IInv, Ahead
    <3>2. \A c \in owed' : c >= 0 /\ a.due[c]
      BY SMTT(30), SMTT(60), <1>2, <1>4, <1>6, AccountAssumption
         DEF needsRenewal, Certs, AccountAssumption
    <3>3. \A c \in Certs : ~a.wait[c]
      BY ZenonT(60), <1>2, <1>4 DEF IInv, Ahead
    <3> QED BY <1>2, <1>4, <3>1, <3>2, <3>3 DEF Ahead
  <2> QED BY SMTT(30), SMTT(60), <1>4, <2>1, <2>2, <2>3 DEF Good
<1>9. /\ Left(next(a), orderFor, validated, owed', {}) /\ next(a).due = a.due
      /\ next(a).request # "POST"
  BY <1>4, <1>7, <1>8, NextGood DEF Left
<1>10. acct'.request = next(a).request /\ acct'.due = next(a).due
  BY <1>3, <1>9, SMT DEF Left, Done, IsAccount
<1>11. IInv'
  <2> DEFINE f == next(a)
  <2>1. IsAccount(f) /\ Waiting(f) /\ Good(f, orderFor, validated, owed', {})
    BY <1>9 DEF Left, Done
  <2> HIDE DEF f
  <2>2. /\ IsAccount(acct') /\ ~acct'.threw /\ Alike(f, acct') /\ acct'.retries = f.retries
        /\ acct'.timer = f.timer /\ acct'.sent = f.sent
    BY <1>3, <2>1, SMT DEF IsAccount, Alike, f
  <2>3. Good(acct', orderFor, validated, owed', {})
    BY <2>1, <2>2, AlikeGood
  <2>4. Waiting(acct')
    BY ZenonT(60), <2>1, <2>2 DEF Waiting, Ready, Alike
  <2>5. server = "orderly" /\ maxRetries > 0 => Busy(acct')
    BY ZenonT(60), <1>9, <2>2 DEF Left, GoesOn, Busy, Ready, Alike, f
  <2>6. TypeInv'
    BY <1>5, <1>6, <1>7, <2>2 DEF TypeInv
  <2> QED BY ZenonT(60), <1>6, <1>9, <1>10, <2>3, <2>4, <2>5, <2>6 DEF IInv, Good, NoStaleNonce
<1> QED BY <1>2, <1>4, <1>9, <1>10, <1>11

\* The timer runs out, or the server's validation runs it early.
LEMMA TimerInv ==
  ASSUME IInv, TimerExpires \/ challengeRequest
  PROVE  IInv' /\ acct'.due = acct.due
<1>1. /\ acct.timer = "pending" /\ acct' = [acct EXCEPT !.timer = "active"]
      /\ UNCHANGED <<server, maxRetries, ghosts>>
  BY DEF TimerExpires, challengeRequest
<1>2. IsAccount(acct) /\ ~acct.threw
  BY DEF IInv, TypeInv
<1>3. /\ IsAccount(acct') /\ ~acct'.threw /\ Alike(acct, acct') /\ acct'.retries = acct.retries
      /\ acct'.timer = "active" /\ acct'.sent = acct.sent
  BY <1>1, <1>2, SMT DEF IsAccount, Alike
<1>4. Waiting(acct') /\ NoStaleNonce(acct') /\ Busy(acct')
  BY <1>1, <1>3 DEF IInv, Waiting, Ready, NoStaleNonce, Busy, Alike
<1>5. Good(acct, orderFor, validated, owed, tried)
  BY <1>1 DEF IInv, Good, Waiting, Ready, NoStaleNonce
<1>6. Good(acct', orderFor, validated, owed, tried)
  BY <1>3, <1>5, AlikeGood
<1>7. TypeInv'
  BY <1>1, <1>3 DEF IInv, TypeInv, ghosts
<1>8. acct'.due = acct.due /\ acct'.request = "none"
  BY SMTT(30), SMTT(60), <1>1, <1>3 DEF Alike, IInv, Waiting
<1> QED BY <1>1, <1>4, <1>6, <1>7, <1>8 DEF IInv, Good, ghosts

\* A step of the world outside: dates pass and the server calms down.
LEMMA TimePassesInv ==
  ASSUME IInv, NEW s, IsAccount(acct'), ~acct'.threw, acct'.state = s, acct.state = s,
         acct'.currentKeyCert = acct.currentKeyCert, acct'.directory = acct.directory,
         acct'.kid = acct.kid, acct'.order = acct.order, acct'.currentAuth = acct.currentAuth,
         acct'.authorization = acct.authorization, acct'.request = acct.request,
         acct'.timer = acct.timer, acct'.sent = acct.sent, acct'.retries = acct.retries,
         s # STATE_IDLE => acct'.nonce = acct.nonce,
         \A c \in Certs : acct.due[c] => acct'.due[c],
         \A c \in Certs : ~acct.wait[c] => ~acct'.wait[c],
         UNCHANGED <<server, maxRetries, ghosts>>
  PROVE  IInv'
<1>1. TypeInv'
  BY ZenonT(60) DEF IInv, TypeInv, ghosts
<1>2. Waiting(acct') /\ NoStaleNonce(acct')
  BY SMTT(30), SMTT(60) DEF IInv, Waiting, Ready, NoStaleNonce
<1>3. Prepared(acct) => Prepared(acct')
  BY DEF Prepared
<1>4. Busy(acct) => Busy(acct')
  BY ZenonT(60) DEF Busy, Ready
<1>5. Validated(acct', orderFor', validated')
  BY ZenonT(60) DEF IInv, Validated, ghosts
<1>6. maxRetries > 0 => Ahead(acct', owed', tried')
  <2>1. owed \subseteq Certs
    BY DEF IInv, TypeInv
  <2> QED BY ZenonT(60), <2>1 DEF IInv, Ahead, ghosts
<1>7. server' = server /\ maxRetries' = maxRetries /\ tried' = tried
  BY Zenon DEF ghosts
<1>8. server = "orderly" /\ maxRetries > 0 => Prepared(acct') /\ Busy(acct')
  BY Zenon, <1>3, <1>4 DEF IInv
<1>9. maxRetries > 0 /\ acct'.state = STATE_NEW_ORDER /\ acct'.request = "POST"
        => acct'.currentKeyCert \in tried
  BY Zenon DEF IInv
<1> QED BY Zenon, <1>1, <1>2, <1>5, <1>6, <1>7, <1>8, <1>9 DEF IInv

LEMMA OutsideInv ==
  ASSUME IInv, (\E c \in Certs : Expire(c) \/ WaitOver(c)) \/ NonceAges \/ CalmDown
               \/ UNCHANGED vars
  PROVE  IInv' /\ \A c \in Certs : acct.due[c] => acct'.due[c]
<1>1. IsAccount(acct) /\ ~acct.threw
  BY DEF IInv, TypeInv
<1>2. ASSUME NEW c \in Certs, Expire(c)
      PROVE  IInv' /\ \A e \in Certs : acct.due[e] => acct'.due[e]
  <2>1. acct' = [acct EXCEPT !.due[c] = TRUE] /\ UNCHANGED <<server, maxRetries, ghosts>>
    BY <1>2 DEF Expire
  <2>2. /\ IsAccount(acct') /\ ~acct'.threw /\ acct'.state = acct.state
        /\ acct'.currentKeyCert = acct.currentKeyCert /\ acct'.directory = acct.directory
        /\ acct'.kid = acct.kid /\ acct'.order = acct.order
        /\ acct'.currentAuth = acct.currentAuth /\ acct'.authorization = acct.authorization
        /\ acct'.request = acct.request /\ acct'.timer = acct.timer /\ acct'.sent = acct.sent
        /\ acct'.retries = acct.retries /\ acct'.nonce = acct.nonce /\ acct'.wait = acct.wait
    BY <1>1, <2>1, SMT DEF IsAccount
  <2>3. \A e \in Certs : acct.due[e] => acct'.due[e]
    BY <1>1, <2>1, SMT DEF IsAccount
  <2> QED BY <2>1, <2>2, <2>3, TimePassesInv, Zenon
<1>3. ASSUME NEW c \in Certs, WaitOver(c)
      PROVE  IInv' /\ acct'.due = acct.due
  <2>1. acct' = [acct EXCEPT !.wait[c] = FALSE] /\ UNCHANGED <<server, maxRetries, ghosts>>
    BY <1>3 DEF WaitOver
  <2>2. /\ IsAccount(acct') /\ ~acct'.threw /\ acct'.state = acct.state
        /\ acct'.currentKeyCert = acct.currentKeyCert /\ acct'.directory = acct.directory
        /\ acct'.kid = acct.kid /\ acct'.order = acct.order
        /\ acct'.currentAuth = acct.currentAuth /\ acct'.authorization = acct.authorization
        /\ acct'.request = acct.request /\ acct'.timer = acct.timer /\ acct'.sent = acct.sent
        /\ acct'.retries = acct.retries /\ acct'.nonce = acct.nonce /\ acct'.due = acct.due
    BY <1>1, <2>1, SMT DEF IsAccount
  <2>3. \A e \in Certs : ~acct.wait[e] => ~acct'.wait[e]
    BY <1>1, <2>1, SMT DEF IsAccount
  <2> QED BY <2>1, <2>2, <2>3, TimePassesInv, Zenon
<1>4. CASE NonceAges
  <2>1. /\ acct.state = STATE_IDLE /\ acct' = [acct EXCEPT !.nonce = "stale"]
        /\ UNCHANGED <<server, maxRetries, ghosts>>
    BY <1>4 DEF NonceAges
  <2>2. /\ IsAccount(acct') /\ ~acct'.threw /\ acct'.state = acct.state
        /\ acct'.currentKeyCert = acct.currentKeyCert /\ acct'.directory = acct.directory
        /\ acct'.kid = acct.kid /\ acct'.order = acct.order
        /\ acct'.currentAuth = acct.currentAuth /\ acct'.authorization = acct.authorization
        /\ acct'.request = acct.request /\ acct'.timer = acct.timer /\ acct'.sent = acct.sent
        /\ acct'.retries = acct.retries /\ acct'.due = acct.due /\ acct'.wait = acct.wait
    BY <1>1, <2>1, SMT DEF IsAccount
  <2> QED BY <2>1, <2>2, TimePassesInv
<1>5. CASE CalmDown \/ UNCHANGED vars
  <2>1. acct' = acct /\ UNCHANGED <<server, maxRetries, ghosts>>
    BY <1>5 DEF CalmDown, vars
  <2> QED BY <1>1, <2>1, TimePassesInv
<1> QED BY <1>2, <1>3, <1>4, <1>5

LEMMA InitInv == Init => IInv
<1> SUFFICES ASSUME Init PROVE IInv
  OBVIOUS
<1>1. PICK d \in [Certs -> BOOLEAN] :
         acct = [state |-> STATE_IDLE, retries |-> 0, currentKeyCert |-> 0,
                 directory |-> "null", nonce |-> "none", kid |-> FALSE,
                 order |-> NoOrder, currentAuth |-> 0,
                 authorization |-> "partial", token |-> FALSE,
                 due |-> d, wait |-> [c \in Certs |-> FALSE],
                 request |-> "none", sent |-> "none", timer |-> "off",
                 threw |-> FALSE]
  BY Zenon DEF Init
<1>2. /\ IsAccount(acct) /\ ~acct.threw /\ acct.state = STATE_IDLE /\ Ready(acct)
      /\ acct.directory = "null" /\ acct.currentKeyCert = 0 /\ acct.nonce = "none"
      /\ \A c \in Certs : ~acct.wait[c]
  BY SMTT(30), SMTT(60), <1>1 DEF IsAccount, Ready
<1>3. /\ server \in {"orderly", "any"} /\ maxRetries \in Nat
      /\ orderFor = [cert |-> 0, auths |-> 0] /\ validated = {} /\ owed = {} /\ tried = {}
  BY AccountAssumption DEF Init, AccountAssumption
<1>4. TypeInv
  BY <1>2, <1>3 DEF TypeInv
<1>5. Waiting(acct) /\ NoStaleNonce(acct) /\ Prepared(acct) /\ Busy(acct)
  BY <1>2 DEF Waiting, NoStaleNonce, Prepared, Busy, Ready
<1>6. Validated(acct, orderFor, validated)
  BY SMTT(30), SMTT(60), <1>2 DEF Validated
<1>7. Ahead(acct, owed, tried)
  BY SMTT(30), SMTT(60), <1>2, <1>3 DEF Ahead
<1> QED BY <1>2, <1>4, <1>5, <1>6, <1>7 DEF IInv

\* Every step of the account, of its timers and of the world outside keeps IInv,
\* and only an answer in STATE_GET_CERT ends a certificate's being due.
LEMMA StepInv ==
  ASSUME IInv, [Next]_vars
  PROVE  /\ IInv'
         /\ \A c \in Certs : acct.due[c] /\ ~acct'.due[c] =>
              acct.state = STATE_GET_CERT /\ c = acct.currentKeyCert
<1>1. CASE Respond
  BY <1>1, RespondInv
<1>2. CASE TimerExpires \/ challengeRequest
  BY <1>2, TimerInv
<1>3. CASE RetryEvent
  BY <1>3, RetryEventInv
<1>4. CASE update
  BY <1>4, UpdateInv
<1>5. CASE (\E c \in Certs : Expire(c) \/ WaitOver(c)) \/ NonceAges \/ CalmDown
           \/ UNCHANGED vars
  BY <1>5, OutsideInv
<1> QED BY SMTT(30), SMTT(60), <1>1, <1>2, <1>3, <1>4, <1>5 DEF Next

--------------------------------------------------------------------------------
\* IInv is an invariant of the account with its callbacks, its timers and any
\* server: the types, what the account waits for, what it has prepared for the
\* state it is in, which authorizations are valid and which certificates lie ahead.
THEOREM Invariance == Spec => []IInv
<1>1. IInv /\ [Next]_vars => IInv'
  BY StepInv
<1> QED BY InitInv, <1>1, PTL DEF Spec

\* The callbacks of an account never overlap, for any number of certificates,
\* any limit of retries and any server: an account waits for an answer or for
\* retryEvent() and not for both, an idle one for neither, and with an orderly
\* server and retries one that is not idle waits for one of them.
THEOREM NeverTwoOperations == Spec => []OneOperation
<1>1. IInv => OneOperation
  BY DEF IInv, Waiting, Busy, Ready, OneOperation
<1> QED BY <1>1, Invariance, PTL

\* post() never signs with a nonce it has used or kept over an idle time.
THEOREM NoncesAreFresh == Spec => []FreshNonce
<1>1. IInv => FreshNonce
  BY DEF IInv, Waiting, FreshNonce
<1> QED BY <1>1, Invariance, PTL

\* A pass of update() that is over has asked for an order for each certificate
\* that was due when it began, however often the server failed it.
THEOREM NoDueCertSkipped == Spec => []EveryDueCertTried
<1>1. IInv => EveryDueCertTried
  BY DEF IInv, Ahead, EveryDueCertTried
<1> QED BY <1>1, Invariance, PTL

\* responseHandler() stores a chain in a KeyCert only for an order made for that
\* KeyCert, each of whose authorizations the server has called valid.
THEOREM OnlyEarnedCertificates == Spec => CertificateEarned
<1>1. IInv /\ [Next]_vars => [\A c \in Certs : acct.due[c] /\ ~acct'.due[c] =>
                                /\ orderFor.cert = c
                                /\ orderFor.auths > 0
                                /\ 0..(orderFor.auths - 1) \subseteq validated]_vars
  <2> SUFFICES ASSUME IInv, [Next]_vars, NEW c \in Certs, acct.due[c], ~acct'.due[c]
               PROVE  /\ orderFor.cert = c
                      /\ orderFor.auths > 0
                      /\ 0..(orderFor.auths - 1) \subseteq validated
    OBVIOUS
  <2>1. acct.state = STATE_GET_CERT /\ c = acct.currentKeyCert
    BY SMTT(30), SMTT(60), StepInv
  <2>2. Validated(acct, orderFor, validated)
    BY DEF IInv
  <2> QED BY <2>1, <2>2 DEF Validated, STATE_GET_CERT, STATE_GET_AUTH, STATE_FINALIZE
<1> QED BY <1>1, Invariance, PTL DEF Spec, CertificateEarned
================================================================================
