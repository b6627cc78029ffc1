------------------------------ MODULE ACMEAccount ------------------------------
(***************************************************************************)
(* acmev2/Account: a certificate client driven by three callbacks of one   *)
(* event loop: update() (a periodic timer), responseHandler() (the answer  *)
(* to the one request in flight) and next() run by retryEvent.  The fields *)
(* of Account, the certificates it looks after, the request in flight and  *)
(* retryEvent are one record, and a member function is an operator from    *)
(* such a record to the one it leaves behind.  An operator whose code      *)
(* throws sets threw; the callback that catches the exception looks at it. *)
(* The server is the environment: it answers anything Answers allows.      *)
(***************************************************************************)
EXTENDS Integers, FiniteSets

CONSTANTS NumCerts,    \* keyCerts.size()
          MaxAuths,    \* bound: authorizations in an order
          RetryLimits, \* values of Account::maxRetries
          Servers      \* kinds of servers: "orderly" or "any"

ASSUME AccountAssumption == /\ NumCerts \in Nat \ {0}
                            /\ MaxAuths \in Nat
                            /\ RetryLimits \subseteq Nat
                            /\ Servers \subseteq {"orderly", "any"}

STATE_IDLE == 0
STATE_GET_DIR == 1
STATE_REGISTER == 2
STATE_NEW_ORDER == 3
STATE_GET_AUTH == 4
STATE_CHALLENGE == 5
STATE_FINALIZE == 6
STATE_GET_ORDER == 7
STATE_GET_CERT == 8

Certs == 0..(NumCerts - 1)
NoOrder == -1           \* order is null, or lacks the fields next() reads

VARIABLES
  server,      \* the kind of server
  maxRetries,  \* Account::maxRetries
  acct,        \* the Account
  calm,        \* from some time on the server answers to the point
  attempts,    \* how often in a row the present operation was retried
  orderFor,    \* the order made last: its certificate and its authorizations
  validated,   \* authorizations of the order the server called valid
  owed, tried  \* certificates due when update() began; those ordered since

ghosts == <<attempts, orderFor, validated, owed, tried>>
vars == <<server, maxRetries, acct, calm, ghosts>>

Init ==
    /\ \E d \in [Certs -> BOOLEAN] :
         acct = [state |-> STATE_IDLE, retries |-> 0, currentKeyCert |-> 0,
                 directory |-> "null", nonce |-> "none", kid |-> FALSE,
                 order |-> NoOrder, currentAuth |-> 0,
                 authorization |-> "partial", token |-> FALSE,
                 due |-> d, wait |-> [c \in Certs |-> FALSE],
                 request |-> "none", sent |-> "none", timer |-> "off",
                 threw |-> FALSE]
    /\ server \in Servers /\ maxRetries \in RetryLimits /\ calm = FALSE
    /\ attempts = 0 /\ orderFor = [cert |-> 0, auths |-> 0]
    /\ validated = {} /\ owed = {} /\ tried = {}
--------------------------------------------------------------------------------
Throw(a) == [a EXCEPT !.threw = TRUE]

\* due: the chain is empty, about to expire or for another key or domain.
needsRenewal(a, c) == a.due[c] /\ ~a.wait[c]

\* getURL() needs the directory to turn a name into a URI, or URI() throws.
head(a) ==
    IF a.directory # "good" THEN Throw(a) ELSE [a EXCEPT !.request = "HEAD"]

get(a) == [a EXCEPT !.request = "GET"]

\* getProtected() throws without a nonce; the nonce is used once.
post(a) ==
    IF a.nonce = "none" THEN Throw(a)
    ELSE [a EXCEPT !.request = "POST", !.sent = a.nonce, !.nonce = "none"]

\* post() of a name the directory resolves.
postName(a) == IF a.directory # "good" THEN Throw(a) ELSE post(a)

NewOrder_SkipOne(a) ==
    LET later == {c \in Certs : c > a.currentKeyCert /\ needsRenewal(a, c)}
        first == CHOOSE c \in later : \A d \in later : c <= d
    IN  IF later = {}
        THEN [a EXCEPT !.currentKeyCert = NumCerts, !.state = STATE_IDLE]
        ELSE postName([a EXCEPT !.currentKeyCert = first])

\* The STATE_NEW_ORDER arm of next().
NewOrder(a) ==
    LET later == {c \in Certs : c >= a.currentKeyCert /\ needsRenewal(a, c)}
        first == CHOOSE c \in later : \A d \in later : c <= d
        last == IF a.currentKeyCert > NumCerts THEN a.currentKeyCert ELSE NumCerts
    IN  IF later = {}
        THEN [a EXCEPT !.currentKeyCert = last, !.state = STATE_IDLE]
        ELSE postName([a EXCEPT !.currentKeyCert = first])

\* The STATE_CHALLENGE arm: nothing is sent without an http-01 challenge.
Challenge(a) ==
    CASE a.authorization = "partial" -> Throw(a)
      [] a.authorization = "http-01" -> post([a EXCEPT !.token = TRUE])
      [] a.authorization = "other" -> a

next(a0) ==
    LET a == [a0 EXCEPT !.retries = 0]
        s == a.state
    IN  IF STATE_GET_DIR < s /\ a.nonce = "none" THEN head(a)
        ELSE CASE s = STATE_IDLE      -> a
               [] s = STATE_GET_DIR   -> get(a)
               [] s = STATE_REGISTER  -> postName(a)
               [] s = STATE_NEW_ORDER -> NewOrder(a)
               [] s = STATE_GET_AUTH  ->
                    IF a.order = NoOrder THEN Throw(a)
                    ELSE IF a.currentAuth < a.order THEN get(a)
                    ELSE NewOrder([a EXCEPT !.currentKeyCert = @ + 1,
                                            !.state = STATE_NEW_ORDER])
               [] s = STATE_CHALLENGE -> Challenge(a)
               [] s = STATE_GET_ORDER -> post(a)
               [] s \in {STATE_FINALIZE, STATE_GET_CERT} ->
                    IF a.order = NoOrder THEN Throw(a) ELSE post(a)

nextKeyCert(a) ==
    next([a EXCEPT !.currentKeyCert = @ + 1, !.state = STATE_NEW_ORDER])

nextAuth_Finalize(a) == next([a EXCEPT !.currentAuth = @ + 1, !.state = STATE_FINALIZE])

nextAuth(a) ==
    IF a.order = NoOrder THEN Throw(a)
    ELSE next([a EXCEPT !.currentAuth = @ + 1,
                        !.state = IF a.currentAuth + 1 < a.order
                                  THEN STATE_GET_AUTH ELSE STATE_FINALIZE])

retry_NoTimer(a) == [a EXCEPT !.retries = @ + 1]

\* keyCerts.at() throws past the end.
retry(a) ==
    LET b == [a EXCEPT !.retries = @ + 1]
    IN  CASE a.retries < maxRetries -> [b EXCEPT !.timer = "pending"]
          [] a.retries >= maxRetries /\ a.currentKeyCert \notin Certs -> Throw(b)
          [] a.retries >= maxRetries /\ a.currentKeyCert \in Certs ->
               nextKeyCert([b EXCEPT !.wait[a.currentKeyCert] = TRUE])
--------------------------------------------------------------------------------
\* What the server may answer.  "garbage" is a document, a header field or a
\* chain whose parsing throws; auths and offer matter to one state each (the
\* authorizations of an order are not read again once it is final).  An orderly
\* server fails and refuses, but leaves nothing out of its documents and offers
\* an http-01 challenge.
Docs == {"good"} \cup IF server = "any" THEN {"partial"} ELSE {}
Offers == {"http-01"} \cup IF server = "any" THEN {"other", "partial"} ELSE {}

\* A failure, a problem document or an answer; nothing else is read of the first
\* two.
Answers(s) ==
    [ok : BOOLEAN, nonce : BOOLEAN, problem : {TRUE}, status : {"valid"},
     doc : {"good"}, auths : {0}, offer : {"http-01"}] \cup
    [ok : {TRUE}, nonce : BOOLEAN, problem : {FALSE},
     status : {"garbage", "pending", "processing", "valid", "invalid"},
     doc : IF s \in {STATE_GET_DIR, STATE_NEW_ORDER, STATE_FINALIZE, STATE_GET_ORDER}
           THEN Docs ELSE {"good"},
     auths : IF s = STATE_NEW_ORDER THEN 0..MaxAuths ELSE {0},
     offer : IF s = STATE_GET_AUTH THEN Offers ELSE {"http-01"}]

ToThePoint(s) ==
    {r \in Answers(s) :
       /\ r.ok /\ r.nonce /\ ~r.problem /\ r.doc = "good"
       /\ r.status \in IF s = STATE_GET_AUTH THEN {"pending", "valid"} ELSE {"valid"}
       /\ s = STATE_NEW_ORDER => r.auths > 0}

Advance(a) == next([a EXCEPT !.state = @ + 1])

GetAuth(b, status) ==
    CASE status = "pending"    -> Advance(b)
      [] status = "processing" -> retry(b)
      [] status = "valid"      -> nextAuth(b)
      [] status = "invalid"    ->
           IF b.authorization = "partial" THEN Throw(b) ELSE nextKeyCert(b)

\* The switch of responseHandler().
Dispatch(a, r) ==
    LET s == a.state
        c == a.currentKeyCert
    IN  CASE s = STATE_IDLE -> a
          [] s \in {STATE_GET_DIR, STATE_REGISTER, STATE_NEW_ORDER,
                    STATE_GET_AUTH, STATE_CHALLENGE} /\ r.status = "garbage" -> Throw(a)
          [] s = STATE_GET_DIR /\ r.status # "garbage" ->
               Advance([a EXCEPT !.directory = r.doc])
          [] s = STATE_REGISTER /\ r.status # "garbage" ->
               Advance([a EXCEPT !.kid = TRUE])
          [] s = STATE_NEW_ORDER /\ r.status # "garbage" ->
               Advance([a EXCEPT !.currentAuth = 0,
                          !.order = IF r.doc = "good" THEN r.auths ELSE NoOrder])
          [] s = STATE_GET_AUTH /\ r.status # "garbage" ->
               GetAuth([a EXCEPT !.authorization = r.offer], r.status)
          [] s = STATE_CHALLENGE /\ r.status # "garbage" ->
               CASE r.status = "valid"   -> nextAuth(a)
                 [] r.status = "pending" -> retry([a EXCEPT !.state = STATE_GET_AUTH])
                 [] OTHER                -> nextKeyCert(a)
          [] s \in {STATE_FINALIZE, STATE_GET_ORDER} ->
               LET b == [a EXCEPT !.state = STATE_GET_ORDER]
                   d == [b EXCEPT !.order = IF r.doc = "good" THEN r.auths ELSE NoOrder]
               IN  CASE r.status = "garbage"    -> Throw(b)
                     [] r.status = "processing" -> retry(d)
                     [] r.status = "valid"      -> Advance(d)
                     [] OTHER                   -> nextKeyCert(d)
          [] s = STATE_GET_CERT ->
               IF c \notin Certs THEN Throw(a)
               ELSE IF r.status = "valid"
               THEN nextKeyCert([a EXCEPT !.due[c] = FALSE])
               ELSE Throw([a EXCEPT !.due[c] = TRUE])

\* responseHandler(): the exception of the first try is caught, that of the
\* last retry() goes to OutgoingRequest::onResponse(), which logs it.
responseHandler(a0, r) ==
    LET a == [a0 EXCEPT !.request = "none", !.sent = "none"]
        b == IF r.nonce THEN [a EXCEPT !.nonce = "fresh"] ELSE a
        d == CASE a0.request = "HEAD"               -> next(b)
               [] a0.request # "HEAD" /\ r.problem  -> retry(b)
               [] a0.request # "HEAD" /\ ~r.problem -> Dispatch(b, r)
    IN  IF ~r.ok THEN retry(a)
        ELSE IF d.threw THEN retry([d EXCEPT !.threw = FALSE])
        ELSE d
--------------------------------------------------------------------------------
\* What the callbacks of the event loop do; Event::call() and onResponse() log
\* and drop an exception.
Becomes(a) == acct' = [a EXCEPT !.threw = FALSE]

Op(a) == <<a.state, a.currentKeyCert, a.currentAuth>>

Retried ==
    attempts' = IF Op(acct') # Op(acct)
                THEN IF acct'.timer = "pending" THEN 1 ELSE 0
                ELSE IF acct'.timer = "pending" /\ attempts <= maxRetries
                THEN attempts + 1 ELSE attempts

Ordered ==
    tried' = IF acct'.state = STATE_NEW_ORDER /\ acct'.request = "POST"
             THEN tried \cup {acct'.currentKeyCert} ELSE tried

\* The answer to a HEAD has no document, whatever the state.
Asked == IF acct.request = "HEAD" THEN STATE_IDLE ELSE acct.state

Respond ==
    /\ acct.request # "none"
    /\ \E r \in IF calm THEN ToThePoint(Asked) ELSE Answers(Asked) :
         LET a == responseHandler(acct, r)
             made == acct.state = STATE_NEW_ORDER /\ a.state = STATE_GET_AUTH
             said == /\ r.ok /\ ~r.problem /\ r.status = "valid"
                     /\ acct.request # "HEAD"
                     /\ acct.state \in {STATE_GET_AUTH, STATE_CHALLENGE}
         IN  /\ Becomes(a)
             /\ orderFor' = IF made THEN [cert |-> acct.currentKeyCert, auths |-> a.order]
                            ELSE orderFor
             /\ validated' = IF made THEN {}
                             ELSE IF said THEN validated \cup {acct.currentAuth}
                             ELSE validated
    /\ Retried /\ Ordered
    /\ UNCHANGED <<server, maxRetries, calm, owed>>

TimerExpires ==
    /\ acct.timer = "pending"
    /\ acct' = [acct EXCEPT !.timer = "active"]
    /\ UNCHANGED <<server, maxRetries, calm, ghosts>>

\* A GET of the challenge path, by the server's validation.
challengeRequest ==
    /\ acct.token
    /\ acct.timer = "pending"
    /\ acct' = [acct EXCEPT !.timer = "active"]
    /\ UNCHANGED <<server, maxRetries, calm, ghosts>>

RetryEvent ==
    /\ acct.timer = "active"
    /\ Becomes(next([acct EXCEPT !.timer = "off"]))
    /\ Retried /\ Ordered
    /\ UNCHANGED <<server, maxRetries, calm, orderFor, validated, owed>>

Begin(a) ==
    CASE a.directory = "null" -> [a EXCEPT !.state = STATE_GET_DIR]
      [] a.directory # "null" /\ ~a.kid -> [a EXCEPT !.state = STATE_REGISTER]
      [] a.directory # "null" /\ a.kid -> [a EXCEPT !.state = STATE_NEW_ORDER,
                                                    !.currentKeyCert = 0]

update_KeepNonce ==
    /\ acct.state = STATE_IDLE
    /\ \E c \in Certs : needsRenewal(acct, c)
    /\ Becomes(next(Begin(acct)))
    /\ owed' = {c \in Certs : needsRenewal(acct, c)}
    /\ tried' = IF acct'.state = STATE_NEW_ORDER /\ acct'.request = "POST"
                THEN {acct'.currentKeyCert} ELSE {}
    /\ attempts' = 0
    /\ UNCHANGED <<server, maxRetries, calm, orderFor, validated>>

update_AnyState ==
    /\ \E c \in Certs : needsRenewal(acct, c)
    /\ Becomes(next([Begin(acct) EXCEPT !.nonce = "none"]))
    /\ owed' = {c \in Certs : needsRenewal(acct, c)}
    /\ tried' = {}
    /\ attempts' = 0
    /\ UNCHANGED <<server, maxRetries, calm, orderFor, validated>>

update ==
    /\ acct.state = STATE_IDLE
    /\ \E c \in Certs : needsRenewal(acct, c)
    /\ Becomes(next([Begin(acct) EXCEPT !.nonce = "none"]))
    /\ owed' = {c \in Certs : needsRenewal(acct, c)}
    /\ tried' = {}
    /\ attempts' = 0
    /\ UNCHANGED <<server, maxRetries, calm, orderFor, validated>>

\* Time passes: a certificate comes close to its end, a waitUntil is reached, a
\* nonce kept by an idle account goes stale.
Expire(c) ==
    /\ ~acct.due[c]
    /\ acct' = [acct EXCEPT !.due[c] = TRUE]
    /\ UNCHANGED <<server, maxRetries, calm, ghosts>>

WaitOver(c) ==
    /\ acct.wait[c]
    /\ acct' = [acct EXCEPT !.wait[c] = FALSE]
    /\ UNCHANGED <<server, maxRetries, calm, ghosts>>

NonceAges ==
    /\ acct.state = STATE_IDLE /\ acct.nonce = "fresh"
    /\ acct' = [acct EXCEPT !.nonce = "stale"]
    /\ UNCHANGED <<server, maxRetries, calm, ghosts>>

CalmDown == ~calm /\ calm' = TRUE /\ UNCHANGED <<server, maxRetries, acct, ghosts>>

Next ==
    \/ Respond \/ TimerExpires \/ challengeRequest \/ RetryEvent \/ update
    \/ \E c \in Certs : Expire(c) \/ WaitOver(c)
    \/ NonceAges \/ CalmDown

Spec == Init /\ [][Next]_vars

\* A request is answered or fails (Connection has read, write and connect
\* timeouts), timers fire and the server does not misbehave for ever.
FairSpec ==
    /\ Spec
    /\ WF_vars(Respond) /\ WF_vars(TimerExpires) /\ WF_vars(RetryEvent)
    /\ WF_vars(update) /\ WF_vars(CalmDown)
    /\ \A c \in Certs : WF_vars(WaitOver(c))
--------------------------------------------------------------------------------
\* The three callbacks never overlap: an account waits for an answer or for
\* retryEvent but not for both, and an idle account waits for neither, so that
\* update(), which looks only at the state, cannot start a second chain of
\* requests beside the first.  With an orderly server and retries an account that
\* is not idle waits for one of them; otherwise update() would return at its first
\* line for ever ("Check for renewals at updateRate starting now", simpleInit()).
OneOperation ==
    /\ acct.request = "none" \/ acct.timer = "off"
    /\ acct.state = STATE_IDLE => acct.request = "none" /\ acct.timer = "off"
    /\ acct.state # STATE_IDLE /\ server = "orderly" /\ maxRetries > 0 =>
         acct.request # "none" \/ acct.timer # "off"

\* Every signed request carries a nonce of its own that was not kept over an
\* idle time ("Nonce used", "Nonce stale after idle").
FreshNonce == acct.request = "POST" => acct.sent = "fresh"

\* A chain is only ever stored in the KeyCert its order was made for, and only
\* after the server called each authorization of that order valid.
CertificateEarned ==
    [][\A c \in Certs : acct.due[c] /\ ~acct'.due[c] =>
           /\ orderFor.cert = c
           /\ orderFor.auths > 0
           /\ 0..(orderFor.auths - 1) \subseteq validated]_vars

\* A pass over keyCerts that ends in STATE_IDLE asked for an order for every
\* certificate that was due when update() began it, if there are retries: without
\* them nextKeyCert() is also how a failed registration is given up, and the next
\* pass, which begins with registration, goes on from the index it left.
EveryDueCertTried ==
    acct.state = STATE_IDLE /\ maxRetries > 0 => owed \subseteq tried

\* "Maximum number of times to retry an operation before giving up."
RetriesBounded == attempts <= maxRetries

\* Once an orderly server answers to the point every due certificate is renewed,
\* if there are retries.
RenewedEventually ==
    \A c \in Certs :
        (server = "orderly" /\ maxRetries > 0 /\ calm /\ acct.due[c]) ~> ~acct.due[c]
================================================================================
