---------------------------------- MODULE Rate ----------------------------------
(***************************************************************************)
(* Rate (util/Rate.h): an average over the last Size periods, kept in a    *)
(* ring of buckets that event() advances.  The clock is the wall clock in  *)
(* periods; it may jump forward and be set back.  delta is unsigned.       *)
(* total, a plain sum of all events, is left out.                          *)
(***************************************************************************)
EXTENDS Integers, FiniteSets, FiniteSetsExt

CONSTANTS Size,       \* buckets.size()
          Width,      \* values of an unsigned, more than MaxTime
          MaxTime,    \* bound of the clock
          MaxEvents,  \* bound on the events
          MaxBack,    \* bound on how often the clock is set back
          MaxResets   \* bound on the calls of reset()

VARIABLES buckets, last, head, fill,   \* the fields
          now,      \* the clock
          back,     \* how often it was set back
          seen,     \* for each time, the events that happened at it since reset()
          reset     \* how often reset() was called

vars == <<buckets, last, head, fill, now, back, seen, reset>>

Ring == 0 .. Size - 1
Times == 1 .. MaxTime
SumOver(S, f) == MapThenSumSet(LAMBDA t : f[t], S)

Init ==
  /\ buckets \in [Ring -> {0}] /\ last = 0 /\ head = 0 /\ fill = 1
  /\ now = 1 /\ back = 0 /\ reset = 0
  /\ seen = [t \in Times |-> 0]

\* time - last in unsigned arithmetic
Delta(time) == (time - last) % Width

\* The loop of event() clears the buckets it passes, at most all of them.
Steps(time) == IF last = 0 THEN 0
               ELSE IF Delta(time) < Size THEN Delta(time) ELSE Size
\* Mutant of Passed: the bucket is cleared before head is advanced.
Passed_OffByOne(time) == {(head + i) % Size : i \in 0 .. Steps(time) - 1}

Passed(time) == {(head + i) % Size : i \in 1 .. Steps(time)}

Event ==
  /\ SumOver(Times, seen) < MaxEvents
  /\ fill' = IF fill + Steps(now) < Size THEN fill + Steps(now) ELSE Size
  /\ head' = (head + Steps(now)) % Size
  /\ buckets' = [b \in Ring |-> (IF b \in Passed(now) THEN 0 ELSE buckets[b])
                                + (IF b = head' THEN 1 ELSE 0)]
  /\ last' = now
  /\ seen' = [seen EXCEPT ![now] = @ + 1]
  /\ UNCHANGED <<now, back, reset>>

\* reset() clears the first bucket only.
Reset ==
  /\ reset < MaxResets
  /\ reset' = reset + 1
  /\ last' = 0 /\ head' = 0 /\ fill' = 1
  /\ buckets' = [buckets EXCEPT ![0] = 0]
  /\ seen' = [t \in Times |-> 0]
  /\ UNCHANGED <<now, back>>

Tick ==
  /\ now' \in now + 1 .. MaxTime
  /\ UNCHANGED <<buckets, last, head, fill, back, seen, reset>>

SetBack ==
  /\ back < MaxBack
  /\ back' = back + 1
  /\ now' \in 1 .. now - 1
  /\ UNCHANGED <<buckets, last, head, fill, seen, reset>>

Next == Event \/ Reset \/ Tick \/ SetBack

Spec == Init /\ [][Next]_vars

\* get(): the buckets it adds up, none when it returns 0, and what it divides by.
Counted ==
  LET delta == Delta(now)
      used  == IF Size - delta < fill THEN Size - delta ELSE fill
  IN IF last = 0 \/ Size <= delta \/ used < 2 THEN [count |-> 0, span |-> 0]
     ELSE [count |-> SumOver({(head + Size - i) % Size : i \in 0 .. used - 1}, buckets),
           span |-> used + delta]

-----------------------------------------------------------------------------
Window == {t \in Times : now - Size < t /\ t <= now}

\* get() never counts an event twice, one older than Size periods or one from
\* before reset(), also when the clock is set back.  While it was not, get()
\* counts every event of the last Size periods and divides by the time since
\* the first event, at most Size; only when all that is left of the events is
\* in one bucket does it return 0.
RateIsAverage ==
  /\ Counted.count <= SumOver(Window, seen)
  /\ back = 0 /\ Counted.span > 0 =>
       /\ Counted.count = SumOver(Window, seen)
       /\ \E first \in Times :
            /\ seen[first] > 0 /\ \A t \in Times : seen[t] > 0 => first <= t
            /\ Counted.span = IF now - first + 1 < Size THEN now - first + 1 ELSE Size
  /\ back = 0 /\ Counted.span = 0 => \A t, u \in Window : seen[t] > 0 /\ seen[u] > 0 => t = u
================================================================================
