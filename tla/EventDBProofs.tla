----------------------------- MODULE EventDBProofs -----------------------------
(***************************************************************************)
(* AssertionsHold and ResultsShown of EventDB for every set of scripts,    *)
(* every Retry and every number of operations.                             *)
(***************************************************************************)
EXTENDS EventDB, SequenceTheorems, WellFoundedInduction, TLAPS

\* The rows of a result, or NoSet
Rows == Nat \cup {-1}

\* A query has a statement at least.
ScriptsOK == \A s \in Scripts : s \in Seq(Rows) /\ s # <<>>

\* The case of next() that follows each call
After(o) == CASE o = "query" -> "QUERY" [] o = "store" -> "STORE" [] o = "fetch" -> "FETCH"
              [] o = "free" -> "FREE" [] o = "next" -> "QUERY" [] OTHER -> "none"

InCall == at \in {"call", "wait"}
OfQuery == op \in {"query", "store", "fetch", "free", "next"}

\* A stored result is there exactly from the end of the call that stores it to
\* the end of the one that frees it; no call in between can fail, so an
\* operation that ends early leaves none behind.
Resulting ==
  /\ script # <<>> => script \in Seq(Rows)
  /\ results \in Seq(Rows)
  /\ at = "idle" => ~res /\ ~row
  /\ InCall /\ OfQuery => state = After(op) /\ script \in Seq(Rows) /\ script # <<>>
  /\ InCall /\ ~OfQuery => ~res /\ ~row /\ op \in {"connect", "ping", "close"}
  /\ InCall /\ op \in {"query", "store", "next"} => ~res /\ ~row
  /\ InCall /\ op \in {"fetch", "free"} => res
  /\ InCall /\ op = "free" => ~row
  /\ InCall /\ op \in {"store", "fetch", "free", "next"} => results # <<>>
  /\ InCall /\ op = "next" => Len(results) > 1
  /\ at = "run" =>
       /\ script \in Seq(Rows) /\ script # <<>>
       /\ state \in {"START", "QUERY", "NEXT", "DONE"} => ~res /\ ~row
       /\ state = "STORE" => ~row
       /\ state = "FETCH" => res
       /\ state = "FREE" => ~res /\ ~row
       /\ state \in {"QUERY", "STORE", "FETCH", "FREE", "NEXT"} => results # <<>>
       /\ state = "NEXT" => Len(results) > 1

LEMMA TailLeft ==
  ASSUME NEW S, NEW s \in Seq(S), Len(s) > 1
  PROVE  Tail(s) \in Seq(S) /\ Len(Tail(s)) = Len(s) - 1 /\ Tail(s) # <<>>
  OBVIOUS

LEMMA ResultingInit == Init => Resulting
  BY SMTT(30) DEF Init, Resulting, InCall

LEMMA ResultingStep ==
  ASSUME ScriptsOK, Resulting, [Next]_vars
  PROVE  Resulting'
<1> USE DEF Resulting, InCall, OfQuery, dbVars, queryVars, End,
            NonBlocking, moreResults
<1>1. CASE UNCHANGED vars
  BY SMTT(30), <1>1 DEF vars
<1>2. CASE \E o \in {"connect", "ping", "close"} : Request(o)
  BY SMTT(30), <1>2 DEF Request, Ask
<1>3. CASE \E s \in Scripts : Query(s)
  BY <1>3 DEF Query, Ask, ScriptsOK, Rows
<1>4. CASE Start
  BY <1>4 DEF Start, Run, Raise, After
<1>5. CASE Store \/ Stored
  BY <1>5 DEF Store, Stored, Run, After
<1>6. CASE Fetch \/ Freed
  BY <1>6 DEF Fetch, Freed, Run, After
<1>7. CASE NextResult \/ Done
  BY SMTT(30), <1>7 DEF NextResult, Done, Run, After
<1>8. CASE Pend
  BY <1>8 DEF Pend
<1>9. CASE Complete
  BY SMTT(30), <1>9 DEF Complete
<1>10. CASE Answer
  <2>1. /\ at' = "run" /\ OfQuery /\ state = After(op) /\ UNCHANGED <<state, script, op>>
        /\ script \in Seq(Rows) /\ script # <<>>
    BY <1>10 DEF Answer, Effect
  <2>2. CASE op = "query"
    BY SMTT(30), <1>10, <2>1, <2>2 DEF Answer, Effect, After
  <2>3. CASE op = "store"
    BY SMTT(30), <1>10, <2>1, <2>3 DEF Answer, Effect, After
  <2>4. CASE op = "fetch"
    BY SMTT(30), <1>10, <2>1, <2>4 DEF Answer, Effect, After
  <2>5. CASE op = "free"
    BY SMTT(30), <1>10, <2>1, <2>5 DEF Answer, Effect, After
  <2>6. CASE op = "next"
    <3>1. results' = Tail(results) /\ UNCHANGED <<res, row>> /\ Len(results) > 1
      BY SMTT(30), <1>10, <2>6 DEF Answer, Effect
    <3>2. results' \in Seq(Rows) /\ results' # <<>>
      BY <3>1, TailLeft
    <3> QED BY SMTT(30), <2>1, <2>6, <1>10, <3>1, <3>2 DEF Answer, After
  <2> QED BY ZenonT(60), <2>1, <2>2, <2>3, <2>4, <2>5, <2>6
<1>11. CASE Fail
  BY <1>11 DEF Fail, Raise
<1> QED
  BY ZenonT(60), <1>1, <1>2, <1>3, <1>4, <1>5, <1>6, <1>7, <1>8, <1>9, <1>10, <1>11
  DEF Next, Cases, Calls

\* The non-blocking calls that next() makes find what they assert, whichever of
\* them are pending first, fail or are retried (AssertionsHold).
THEOREM CallsAreLegal == ASSUME ScriptsOK PROVE Spec => []AssertionsHold
<1>1. Resulting => AssertionsHold
  BY DEF Resulting, AssertionsHold, InCall, OfQuery
<1>2. Resulting /\ [Next]_vars => Resulting'
  BY ResultingStep
<1> QED BY <1>1, <1>2, ResultingInit, PTL DEF Spec

--------------------------------------------------------------------------------
(* What the callback is shown.  ShownOf is defined by recursion over the    *)
(* results; that such a function exists, and what it is made of, follows   *)
(* from looking at the least number of results for which it would not.     *)

LEMMA LeastNumber ==
  ASSUME NEW S, S \subseteq Nat, S # {}
  PROVE  \E x \in S : \A y \in S : x <= y
<1> DEFINE R == {ss \in Nat \X Nat : ss[1] < ss[2]}
<1>1. IsWellFoundedOn(R, Nat)
  BY NatLessThanWellFounded DEF OpToRel
<1> HIDE DEF R
<1>2. PICK x \in S : \A y \in S : ~(<<y, x>> \in R)
  BY Zenon, <1>1, WFMin
<1>3. \A y \in S : ~(y < x)
  BY Zenon, <1>2 DEF R
<1> QED BY <1>3

\* f shows the first n results of s
Shows(s, n, f) ==
  f = [k \in 0..n |-> IF k = 0 THEN <<>> ELSE f[k - 1] \o Shown(s[k])]

LEMMA ShowsExtends ==
  ASSUME NEW s, NEW n \in Nat, NEW f, Shows(s, n, f)
  PROVE  \E g : Shows(s, n + 1, g)
<1> DEFINE g == [k \in 0..(n + 1) |-> IF k <= n THEN f[k]
                                      ELSE f[n] \o Shown(s[n + 1])]
<1>1. \A k \in 0..n : f[k] = IF k = 0 THEN <<>> ELSE f[k - 1] \o Shown(s[k])
  BY DEF Shows
<1>2. \A k \in 0..(n + 1) :
        g[k] = IF k = 0 THEN <<>> ELSE g[k - 1] \o Shown(s[k])
  BY <1>1
<1> HIDE DEF g
<1>3. g = [k \in 0..(n + 1) |-> g[k]]
  BY DEF g
<1>4. Shows(s, n + 1, g)
  BY <1>2, <1>3 DEF Shows
<1> QED BY <1>4

LEMMA ShowsExists ==
  ASSUME NEW s, NEW n \in Nat
  PROVE  \E f : Shows(s, n, f)
<1> DEFINE Without == {m \in Nat : ~\E f : Shows(s, m, f)}
<1> SUFFICES ASSUME Without # {}
             PROVE  FALSE
  OBVIOUS
<1>1. PICK m \in Without : \A l \in Without : m <= l
  BY Zenon, LeastNumber
<1>2. CASE m = 0
  <2> DEFINE f == [k \in 0..0 |-> <<>>]
  <2>1. Shows(s, 0, f)
    BY DEF Shows
  <2> QED BY <1>1, <1>2, <2>1
<1>3. CASE m # 0
  <2>1. m - 1 \in Nat /\ m - 1 \notin Without
    BY <1>1, <1>3
  <2>2. PICK f : Shows(s, m - 1, f)
    BY <2>1
  <2>3. \E g : Shows(s, (m - 1) + 1, g)
    BY <2>1, <2>2, ShowsExtends
  <2>4. (m - 1) + 1 = m
    BY <1>1
  <2> QED BY <1>1, <2>3, <2>4
<1> QED BY <1>2, <1>3

LEMMA ShownOfStep ==
  ASSUME NEW s \in Seq(Rows)
  PROVE  /\ ShownOf(s)[0] = <<>>
         /\ \A k \in 1..Len(s) :
              ShownOf(s)[k] = ShownOf(s)[k - 1] \o Shown(s[k])
<1> DEFINE f == ShownOf(s)
<1>1. Len(s) \in Nat
  OBVIOUS
<1>2. f = CHOOSE g : Shows(s, Len(s), g)
  BY DEF ShownOf, Shows
<1>3. Shows(s, Len(s), f)
  BY <1>1, <1>2, ShowsExists
<1> HIDE DEF f
<1>4. \A k \in 0..Len(s) : f[k] = IF k = 0 THEN <<>> ELSE f[k - 1] \o Shown(s[k])
  BY SMTT(30), <1>3 DEF Shows
<1>5. f[0] = <<>>
  <2>1. 0 \in 0..Len(s)
    BY <1>1
  <2> QED BY Zenon, <1>4, <2>1
<1>6. ASSUME NEW k \in 1..Len(s)
      PROVE  f[k] = f[k - 1] \o Shown(s[k])
  <2>1. k \in 0..Len(s) /\ k # 0
    BY <1>1
  <2> QED BY Zenon, <1>4, <2>1
<1> QED BY Zenon, <1>5, <1>6 DEF f

Words == {"BEGIN_RESULT", "ROW", "END_RESULT"}

LEMMA WordsTyped ==
  ASSUME NEW m \in Nat
  PROVE  /\ [i \in 1..m |-> "ROW"] \in Seq(Words)
         /\ <<"BEGIN_RESULT">> \in Seq(Words) /\ <<"END_RESULT">> \in Seq(Words)
<1>1. [i \in 1..m |-> "ROW"] \in [1..m -> Words]
  BY DEF Words
<1>2. [i \in 1..m |-> "ROW"] \in Seq(Words)
  BY <1>1, SeqDef
<1>3. "BEGIN_RESULT" \in Words /\ "END_RESULT" \in Words
  BY DEF Words
<1> HIDE DEF Words
<1> QED BY <1>2, <1>3

LEMMA ShownTyped ==
  ASSUME NEW n \in Rows
  PROVE  Shown(n) \in Seq(Words)
<1>1. CASE n = -1
  BY <1>1 DEF Shown, NoSet
<1>2. CASE n # -1
  <2> DEFINE r == [i \in 1..n |-> "ROW"]
  <2>1. /\ <<"BEGIN_RESULT">> \in Seq(Words) /\ r \in Seq(Words)
        /\ <<"END_RESULT">> \in Seq(Words)
    BY <1>2, WordsTyped DEF Rows
  <2>2. Shown(n) = <<"BEGIN_RESULT">> \o r \o <<"END_RESULT">>
    BY Zenon, <1>2 DEF Shown, NoSet
  <2> HIDE DEF r
  <2>3. <<"BEGIN_RESULT">> \o r \in Seq(Words)
    BY <2>1, ConcatProperties
  <2> QED BY <2>1, <2>2, <2>3, ConcatProperties
<1> QED BY <1>1, <1>2

LEMMA ShownOfTyped ==
  ASSUME NEW s \in Seq(Rows), NEW k \in 0..Len(s)
  PROVE  ShownOf(s)[k] \in Seq(Words)
<1> DEFINE f == ShownOf(s)
<1> DEFINE Untyped == {j \in 0..Len(s) : f[j] \notin Seq(Words)}
<1> SUFFICES ASSUME Untyped # {}
             PROVE  FALSE
  OBVIOUS
<1>1. Untyped \subseteq Nat
  OBVIOUS
<1>2. PICK m \in Untyped : \A l \in Untyped : m <= l
  BY Zenon, <1>1, LeastNumber
<1>3. f[0] = <<>> /\ \A j \in 1..Len(s) : f[j] = f[j - 1] \o Shown(s[j])
  BY Zenon, ShownOfStep
<1> HIDE DEF f
<1>4. m # 0 /\ m \in 1..Len(s) /\ m - 1 \in 0..Len(s)
  <2>1. f[0] \in Seq(Words)
    BY <1>3
  <2>2. m # 0
    BY <1>2, <2>1
  <2> QED BY <1>2, <2>2
<1>5. f[m - 1] \in Seq(Words)
  BY <1>2, <1>4
<1>6. Shown(s[m]) \in Seq(Words)
  BY <1>4, ShownTyped
<1>7. f[m - 1] \o Shown(s[m]) \in Seq(Words)
  BY <1>5, <1>6, ConcatProperties
<1>8. f[m] = f[m - 1] \o Shown(s[m])
  BY ZenonT(60), <1>3, <1>4
<1> QED BY Zenon, <1>2, <1>7, <1>8

\* What the callback was shown when k results of s and m rows of the next one are
\* behind it
SoFar(s, k, m) == Append(ShownOf(s)[k], "BEGIN_RESULT") \o [i \in 1..m |-> "ROW"]

LEMMA SoFarTyped ==
  ASSUME NEW s \in Seq(Rows), NEW k \in 0..Len(s), NEW m \in Nat
  PROVE  /\ Append(ShownOf(s)[k], "BEGIN_RESULT") \in Seq(Words)
         /\ [i \in 1..m |-> "ROW"] \in Seq(Words)
         /\ SoFar(s, k, m) \in Seq(Words)
<1>1. ShownOf(s)[k] \in Seq(Words)
  BY ShownOfTyped
<1>2. "BEGIN_RESULT" \in Words
  BY DEF Words
<1>3. Append(ShownOf(s)[k], "BEGIN_RESULT") \in Seq(Words)
  BY <1>1, <1>2, AppendProperties
<1>4. [i \in 1..m |-> "ROW"] \in Seq(Words)
  BY WordsTyped
<1> QED BY Zenon, <1>3, <1>4, ConcatProperties DEF SoFar

LEMMA SoFarBegin ==
  ASSUME NEW s \in Seq(Rows), NEW k \in 0..Len(s)
  PROVE  Append(ShownOf(s)[k], "BEGIN_RESULT") = SoFar(s, k, 0)
<1>1. Append(ShownOf(s)[k], "BEGIN_RESULT") \in Seq(Words)
  BY SoFarTyped
<1>2. [i \in 1..0 |-> "ROW"] = <<>>
  OBVIOUS
<1> QED BY <1>1, <1>2, ConcatEmptySeq DEF SoFar

LEMMA SoFarRow ==
  ASSUME NEW s \in Seq(Rows), NEW k \in 0..Len(s), NEW m \in Nat
  PROVE  Append(SoFar(s, k, m), "ROW") = SoFar(s, k, m + 1)
<1> DEFINE b == Append(ShownOf(s)[k], "BEGIN_RESULT")
<1> DEFINE r == [i \in 1..m |-> "ROW"]
<1>1. b \in Seq(Words) /\ r \in Seq(Words) /\ b \o r \in Seq(Words)
  BY Zenon, SoFarTyped DEF SoFar
<1>2. [i \in 1..(m + 1) |-> "ROW"] = r \o <<"ROW">>
  OBVIOUS
<1> HIDE DEF b, r
<1>3. Append(b \o r, "ROW") = (b \o r) \o <<"ROW">>
  BY <1>1, AppendIsConcat DEF Words
<1>4. (b \o r) \o <<"ROW">> = b \o (r \o <<"ROW">>)
  BY <1>1, WordsTyped, ConcatAssociative
<1> QED BY Zenon, <1>2, <1>3, <1>4 DEF SoFar, b, r

\* The result is shown whole once END_RESULT follows its last row.
LEMMA SoFarEnd ==
  ASSUME NEW s \in Seq(Rows), NEW k \in 1..Len(s)
  PROVE  /\ s[k] = -1 => ShownOf(s)[k] = ShownOf(s)[k - 1]
         /\ s[k] # -1 =>
              Append(SoFar(s, k - 1, s[k]), "END_RESULT") = ShownOf(s)[k]
<1> DEFINE u == ShownOf(s)[k - 1]
<1> DEFINE r == [i \in 1..s[k] |-> "ROW"]
<1>1. k - 1 \in 0..Len(s) /\ s[k] \in Rows
  OBVIOUS
<1>2. u \in Seq(Words)
  BY <1>1, ShownOfTyped
<1>3. ShownOf(s)[k] = u \o Shown(s[k])
  BY Zenon, ShownOfStep
<1>4. s[k] = -1 => ShownOf(s)[k] = u
  BY <1>2, <1>3, ConcatEmptySeq DEF Shown, NoSet
<1>5. ASSUME s[k] # -1
      PROVE  Append(SoFar(s, k - 1, s[k]), "END_RESULT") = ShownOf(s)[k]
  <2>1. s[k] \in Nat
    BY <1>1, <1>5 DEF Rows
  <2>2. r \in Seq(Words) /\ Append(u, "BEGIN_RESULT") \in Seq(Words)
    BY Zenon, <1>1, <2>1, SoFarTyped
  <2>3. Shown(s[k]) = <<"BEGIN_RESULT">> \o r \o <<"END_RESULT">>
    BY Zenon, <1>5 DEF Shown, NoSet
  <2> HIDE DEF u, r
  <2>4. Append(u, "BEGIN_RESULT") = u \o <<"BEGIN_RESULT">>
    BY <1>2, AppendIsConcat DEF Words
  <2>5. Append((u \o <<"BEGIN_RESULT">>) \o r, "END_RESULT")
          = ((u \o <<"BEGIN_RESULT">>) \o r) \o <<"END_RESULT">>
    BY <1>2, <2>2, <2>4, AppendIsConcat, ConcatProperties DEF Words
  <2>6. <<"BEGIN_RESULT">> \in Seq(Words) /\ <<"END_RESULT">> \in Seq(Words)
    BY <2>1, WordsTyped
  <2>7. <<"BEGIN_RESULT">> \o r \in Seq(Words)
    BY <2>2, <2>6, ConcatProperties
  <2>8. (u \o <<"BEGIN_RESULT">>) \o r = u \o (<<"BEGIN_RESULT">> \o r)
    BY <1>2, <2>2, <2>6, ConcatAssociative
  <2>9. (u \o (<<"BEGIN_RESULT">> \o r)) \o <<"END_RESULT">>
          = u \o ((<<"BEGIN_RESULT">> \o r) \o <<"END_RESULT">>)
    <3> DEFINE b == <<"BEGIN_RESULT">> \o r
    <3> DEFINE e == <<"END_RESULT">>
    <3>1. b \in Seq(Words) /\ e \in Seq(Words)
      BY <2>6, <2>7
    <3> HIDE DEF b, e
    <3>2. (u \o b) \o e = u \o (b \o e)
      BY SMTT(30), <1>2, <3>1, ConcatAssociative
    <3> QED BY Zenon, <3>2 DEF b, e
  <2> QED BY Zenon, <1>3, <2>3, <2>4, <2>5, <2>8, <2>9 DEF SoFar, u, r
<1> QED BY <1>4, <1>5

\* The results that were left behind, and what the callback was shown of the first
\* k of the answer
Behind == Len(script) - Len(results)
Seen(k) == ShownOf(script)[k]

\* The results not left behind are the last ones of the answer.
Following == Behind \in Nat /\ \A i \in 1..Len(results) : results[i] = script[Behind + i]

\* next() is about to run, or runs, one of the states; or one of the calls does
During(states, ops) == (at = "run" /\ state \in states) \/ (InCall /\ op \in ops)

\* The log holds what was left behind in full, and the rows of the first result
\* that were fetched.
Showing ==
  /\ at # "idle" => ended = "none"
  /\ ResultsShown
  /\ During({"START"}, {"query"}) => log = <<>>
  /\ During({"QUERY", "STORE", "FETCH", "FREE", "NEXT", "DONE"},
            {"store", "fetch", "free", "next"}) =>
       Following
  /\ During({"QUERY", "STORE"}, {"store"}) => log = Seen(Behind)
  /\ During({"STORE"}, {}) => (res <=> results[1] # -1) /\ (res => rows = results[1])
  /\ During({"FETCH"}, {"fetch"}) => rows \in 0..results[1]
  /\ During({}, {"fetch"}) => log = SoFar(script, Behind, results[1] - rows)
  /\ During({"FETCH"}, {}) =>
       IF row THEN rows < results[1] /\ log = SoFar(script, Behind, results[1] - rows - 1)
       ELSE rows = 0 /\ log = SoFar(script, Behind, results[1])
  /\ During({"FREE"}, {"free"}) =>
       results[1] # -1 /\ log = SoFar(script, Behind, results[1])
  /\ During({"NEXT", "DONE"}, {"next"}) => log = Seen(Behind + 1)
  /\ During({"DONE"}, {}) => Len(results) = 1

LEMMA OneOrMore == \A n \in Nat \ {0} : n > 1 \/ n = 1
  OBVIOUS

LEMMA ShowingInit == Init => Showing
  BY DEF Init, ResultsShown, Showing, During, InCall

\* The result that is being shown is the next one of the answer.
LEMMA Current ==
  ASSUME Resulting, Showing,
         During({"QUERY", "STORE", "FETCH", "FREE", "NEXT", "DONE"},
                {"store", "fetch", "free", "next"})
  PROVE  /\ script \in Seq(Rows) /\ results \in Seq(Rows) /\ Len(results) \in Nat \ {0}
         /\ Behind \in 0..Len(script) /\ Behind + 1 \in 1..Len(script)
         /\ results[1] = script[Behind + 1] /\ results[1] \in Rows
<1>1. script \in Seq(Rows) /\ results \in Seq(Rows) /\ results # <<>>
  <2>1. script \in Seq(Rows) /\ results \in Seq(Rows)
    BY DEF Resulting, During, InCall, OfQuery
  <2>2. CASE at = "run" /\ state = "DONE"
    <3>1. Len(results) = 1
      BY <2>2 DEF Showing, During
    <3> QED BY <2>1, <3>1, EmptySeq
  <2>3. CASE ~(at = "run" /\ state = "DONE")
    BY <2>1, <2>3 DEF Resulting, During, InCall
  <2> QED BY <2>2, <2>3
<1>2. Behind \in Nat /\ \A i \in 1..Len(results) : results[i] = script[Behind + i]
  BY DEF Showing, Following
<1>3. Len(results) \in Nat \ {0} /\ Len(script) \in Nat
  BY <1>1, EmptySeq, LenProperties
<1>4. Behind \in 0..Len(script) /\ Behind + 1 \in 1..Len(script)
  BY <1>2, <1>3 DEF Behind
<1>5. results[1] = script[Behind + 1]
  BY <1>2, <1>3
<1>6. results[1] \in Rows
  BY <1>1, <1>3
<1> QED BY <1>1, <1>3, <1>4, <1>5, <1>6

LEMMA ShowingStep ==
  ASSUME Resulting, Showing, [Next]_vars
  PROVE  Showing'
<1> USE DEF InCall, During, Following, Behind, Seen, dbVars, queryVars,
            End, NonBlocking, ResultsShown
<1>1. CASE UNCHANGED vars
  BY <1>1 DEF Showing, vars
<1>2. CASE \E o \in {"connect", "ping", "close"} : Request(o)
  BY <1>2 DEF Showing, Request, Ask
<1>3. CASE \E s \in Scripts : Query(s)
  BY <1>3 DEF Showing, Query, Ask
<1>4. CASE Start
  BY <1>4 DEF Showing, Start, Run, Raise, Call
<1>5. CASE Store
  BY <1>5 DEF Showing, Store, Run
<1>6. CASE Stored
  <2>1. During({"STORE"}, {})
    BY <1>6 DEF Stored, Run
  <2>2. /\ script \in Seq(Rows) /\ Len(results) \in Nat \ {0}
        /\ Behind \in 0..Len(script) /\ Behind + 1 \in 1..Len(script)
        /\ results[1] = script[Behind + 1] /\ results[1] \in Rows
    BY <2>1, Current
  <2>3. CASE ~res
    <3>1. Seen(Behind + 1) = Seen((Behind + 1) - 1)
      BY Zenon, <2>1, <2>2, <2>3, SoFarEnd DEF Showing
    <3>2. log = Seen(Behind + 1)
      BY <2>1, <2>2, <3>1 DEF Showing
    <3>3. /\ at = "run" /\ at' = "run" /\ state = "STORE" /\ ended = "none"
          /\ UNCHANGED <<script, results, log, ended, op>>
          /\ state' = IF Len(results) > 1 THEN "NEXT" ELSE "DONE"
      BY <1>6, <2>3 DEF Showing, Stored, Run, moreResults
    <3>4. Following' /\ UNCHANGED Behind
      BY <2>1, <3>3 DEF Showing
    <3> HIDE DEF Following, Behind
    <3>5. CASE Len(results) > 1
      BY <3>2, <3>3, <3>4, <3>5 DEF Showing
    <3>6. CASE Len(results) = 1
      BY <3>2, <3>3, <3>4, <3>6 DEF Showing
    <3>7. Len(results) > 1 \/ Len(results) = 1
      <4>1. Len(results) \in Nat \ {0}
        BY <2>2
      <4> QED BY ZenonT(60), <4>1, OneOrMore
    <3> QED BY Zenon, <3>5, <3>6, <3>7
  <2>4. CASE res
    <3>1. log' = SoFar(script, Behind, 0)
      BY Zenon, <1>6, <2>1, <2>2, <2>4, SoFarBegin DEF Showing, Stored, Call
    <3>2. rows = results[1] /\ rows \in Nat
      BY <2>1, <2>2, <2>4 DEF Showing, Rows
    <3> QED BY <1>6, <2>2, <2>4, <3>1, <3>2 DEF Showing, Stored, Run
  <2> QED BY <2>3, <2>4
<1>7. CASE Fetch
  <2>1. During({"FETCH"}, {})
    BY <1>7 DEF Fetch, Run
  <2>2. /\ script \in Seq(Rows) /\ Behind \in 0..Len(script) /\ results[1] \in Rows
        /\ rows \in 0..results[1]
    BY <2>1, Current DEF Showing
  <2>3. CASE row
    <3>1. /\ rows < results[1] /\ rows \in Nat /\ results[1] \in Nat
          /\ log = SoFar(script, Behind, results[1] - rows - 1)
      BY <2>1, <2>2, <2>3 DEF Showing, Rows
    <3>2. results[1] - rows - 1 \in Nat /\ (results[1] - rows - 1) + 1 = results[1] - rows
      BY <3>1
    <3>3. log' = SoFar(script, Behind, results[1] - rows)
      BY Zenon, <1>7, <2>2, <2>3, <3>1, <3>2, SoFarRow DEF Fetch, Call
    <3> QED BY <1>7, <2>2, <2>3, <3>3 DEF Showing, Fetch, Run
  <2>4. CASE ~row
    BY <1>7, <2>1, <2>2, <2>4 DEF Showing, Fetch, Run, Rows
  <2> QED BY <2>3, <2>4
<1>8. CASE Freed
  <2>1. During({"FREE"}, {})
    BY <1>8 DEF Freed, Run
  <2>2. /\ script \in Seq(Rows) /\ Len(results) \in Nat \ {0}
        /\ Behind \in 0..Len(script) /\ Behind + 1 \in 1..Len(script)
        /\ results[1] = script[Behind + 1] /\ results[1] \in Rows
    BY <2>1, Current
  <2>3. results[1] # -1 /\ log = SoFar(script, Behind, results[1])
    BY <2>1 DEF Showing
  <2>4. (Behind + 1) - 1 = Behind
    BY <2>2
  <2>5. Append(log, "END_RESULT") = Seen(Behind + 1)
    BY ZenonT(60), <2>2, <2>3, <2>4, SoFarEnd
  <2>6. log' = Seen(Behind + 1)
    BY <1>8, <2>5 DEF Freed, Call
  <2>7. /\ at = "run" /\ at' = "run" /\ state = "FREE" /\ ended = "none"
        /\ UNCHANGED <<script, results, ended, op>>
        /\ state' = IF Len(results) > 1 THEN "NEXT" ELSE "DONE"
    BY <1>8 DEF Showing, Freed, Run, moreResults
  <2>8. Following' /\ UNCHANGED Behind
    BY <2>1, <2>7 DEF Showing
  <2> HIDE DEF Following, Behind
  <2>9. CASE Len(results) > 1
    BY SMTT(30), <2>6, <2>7, <2>8, <2>9 DEF Showing
  <2>10. CASE Len(results) = 1
    BY SMTT(30), <2>6, <2>7, <2>8, <2>10 DEF Showing
  <2>11. Len(results) > 1 \/ Len(results) = 1
    <3>1. Len(results) \in Nat \ {0}
      BY <2>2
    <3> QED BY <3>1, OneOrMore
  <2> QED BY Zenon, <2>9, <2>10, <2>11
<1>9. CASE NextResult
  BY <1>9 DEF Showing, NextResult, Run
<1>10. CASE Done
  <2>1. During({"DONE"}, {})
    BY <1>10 DEF Done, Run
  <2>2. Len(results) = 1 /\ script \in Seq(Rows) /\ log = Seen(Behind + 1)
    BY <2>1, Current DEF Showing
  <2>3. log' = Append(Seen(Len(script)), "DONE")
    BY <1>10, <2>2 DEF Done, Call
  <2> QED BY <1>10, <2>3 DEF Showing, Done
<1>11. CASE Pend
  BY <1>11 DEF Showing, Pend
<1>12. CASE Complete
  BY <1>12 DEF Showing, Complete
<1>13. CASE Answer
  <2>1. /\ InCall /\ OfQuery /\ at' = "run" /\ state = After(op)
        /\ UNCHANGED <<state, script, op, log, ended>>
        /\ script \in Seq(Rows) /\ script # <<>> /\ ended = "none"
    BY SMTT(30), <1>13 DEF Answer, Effect, Resulting, OfQuery, Showing
  <2>2. CASE op = "query"
    <3>1. results' = script /\ state = "QUERY" /\ log = <<>>
      BY <1>13, <2>1, <2>2 DEF Answer, Effect, After, Showing
    <3>2. Seen(0) = <<>>
      BY Zenon, <2>1, ShownOfStep
    <3>3. Len(script) \in Nat
      BY <2>1
    <3>4. Behind' = 0
      BY <2>1, <3>1, <3>3
    <3>5. Following'
      BY <2>1, <3>1, <3>3, <3>4
    <3> HIDE DEF Following, Behind
    <3> QED BY <2>1, <2>2, <3>1, <3>2, <3>4, <3>5 DEF Showing
  <2>3. CASE op = "store"
    <3>1. /\ res' = (Head(results) # -1) /\ (Head(results) # -1 => rows' = Head(results))
          /\ UNCHANGED results /\ state = "STORE" /\ log = Seen(Behind)
      BY <1>13, <2>1, <2>3 DEF Answer, Effect, NoSet, After, Showing
    <3>2. /\ Behind \in Nat /\ Head(results) = results[1]
          /\ \A i \in 1..Len(results) : results[i] = script[Behind + i]
      BY <2>1, <2>3, Current DEF Showing
    <3> QED BY Zenon, <2>1, <2>3, <3>1, <3>2 DEF Showing
  <2>4. CASE op = "fetch"
    <3>1. /\ row' = (rows > 0) /\ rows' = (IF rows > 0 THEN rows - 1 ELSE 0)
          /\ UNCHANGED results /\ state = "FETCH"
          /\ log = SoFar(script, Behind, results[1] - rows) /\ rows \in 0..results[1]
      BY SMTT(30), <1>13, <2>1, <2>4 DEF Answer, Effect, After, Showing
    <3>2. /\ Behind \in Nat /\ results[1] \in Rows
          /\ \A i \in 1..Len(results) : results[i] = script[Behind + i]
      BY <2>1, <2>4, Current DEF Showing
    <3>3. results[1] \in Nat /\ rows \in Nat
      BY <3>1, <3>2 DEF Rows
    <3>6. Following' /\ UNCHANGED Behind
      BY SMTT(30), <2>1, <3>1, <3>2
    <3> HIDE DEF Following, Behind
    <3>4. CASE rows > 0
      <4>1. results[1] - rows = results[1] - rows' - 1
        BY <3>1, <3>3, <3>4
      <4>2. row'
        BY Zenon, <3>1, <3>4
      <4>3. rows' < results[1] /\ rows' \in 0..results[1]
        BY <3>1, <3>3, <3>4
      <4> QED BY <2>1, <2>4, <3>1, <3>6, <4>1, <4>2, <4>3 DEF Showing
    <3>5. CASE rows = 0
      <4>1. results[1] - rows = results[1]
        BY <3>3, <3>5
      <4>2. ~(rows > 0)
        BY <3>5
      <4>3. ~row'
        BY ZenonT(60), <3>1, <4>2
      <4>4. rows' = 0 /\ rows' \in 0..results[1]
        BY <3>1, <3>3, <3>5
      <4> QED BY <2>1, <2>4, <3>1, <3>6, <4>1, <4>3, <4>4 DEF Showing
    <3> QED BY <3>3, <3>4, <3>5
  <2>5. CASE op = "free"
    BY <1>13, <2>1, <2>5 DEF Answer, Effect, After, Showing
  <2>6. CASE op = "next"
    <3>1. results' = Tail(results) /\ state = "QUERY" /\ Len(results) > 1
          /\ log = Seen(Behind + 1)
      BY ZenonT(60), <1>13, <2>1, <2>6 DEF Answer, Effect, After, Showing, Resulting
    <3>2. /\ results \in Seq(Rows) /\ Behind \in Nat /\ Len(script) \in Nat
          /\ \A i \in 1..Len(results) : results[i] = script[Behind + i]
      BY <2>1, <2>6, Current DEF Showing
    <3>3. Behind' = Behind + 1
      <4>1. Len(results') = Len(results) - 1 /\ Len(results) \in Nat
        BY <3>1, <3>2, TailLeft
      <4> QED BY <2>1, <3>2, <4>1
    <3>4. ASSUME NEW i \in 1..Len(results')
          PROVE  results'[i] = script[Behind' + i]
      <4>1. i + 1 \in 1..Len(results) /\ Tail(results)[i] = results[i + 1]
        BY <3>1, <3>2, TailLeft
      <4>2. results[i + 1] = script[Behind + (i + 1)]
        BY <3>2, <4>1
      <4>3. Behind + (i + 1) = Behind' + i
        BY <3>2, <3>3
      <4> QED BY Zenon, <3>1, <4>1, <4>2, <4>3
    <3>5. log' = Seen(Behind)'
      BY <2>1, <3>1, <3>3
    <3>6. Following'
      BY SMTT(30), <2>1, <3>2, <3>3, <3>4
    <3> HIDE DEF Following, Behind, Seen
    <3> QED BY <2>1, <2>6, <3>1, <3>5, <3>6 DEF Showing
  <2> QED BY SMTT(30), <2>1, <2>2, <2>3, <2>4, <2>5, <2>6 DEF OfQuery
<1>14. CASE Fail
  BY <1>14 DEF Showing, Fail, Raise, Call
<1> QED
  BY SMTT(30), <1>1, <1>2, <1>3, <1>4, <1>5, <1>6, <1>7, <1>8, <1>9, <1>10, <1>11, <1>12,
     <1>13, <1>14
  DEF Next, Cases, Calls

\* A query that is DONE has shown its callback every result set in order, each row
\* of it once, however often it was suspended and retried (ResultsShown).
THEOREM EveryResultShown == ASSUME ScriptsOK PROVE Spec => []ResultsShown
<1>1. Showing => ResultsShown
  BY DEF Showing
<1>2. Resulting /\ Showing /\ [Next]_vars => Resulting' /\ Showing'
  BY ResultingStep, ShowingStep
<1> QED BY <1>1, <1>2, ResultingInit, ShowingInit, PTL DEF Spec
================================================================================
