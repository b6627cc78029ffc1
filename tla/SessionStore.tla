----------------------------- MODULE SessionStore -----------------------------
(***************************************************************************)
(* HTTP::SessionManager (http/SessionManager.cpp) with the DB::Database    *)
(* and DB::Transaction it is saved with.  Worker threads open, find and    *)
(* close sessions and clean up the old ones, each under the manager's      *)
(* mutex; one thread saves the sessions in a transaction, and loads them   *)
(* when the program starts again.  The database may fail at any step of a  *)
(* save, and the program may crash at any time.                            *)
(*                                                                         *)
(* A table of sessions is a function from the ids it has to the times of   *)
(* the session's creation and last use.                                    *)
(***************************************************************************)
EXTENDS Integers

CONSTANTS Ids,
          sessionTimeout, sessionLifetime,
          CleanupInterval,   \* 5 seconds in the code
          MaxTime,           \* bound of the clock
          MaxFaults          \* bound on the failures and crashes

VARIABLES
  sessions, dirty, lastSessionCleanup,   \* the fields of the manager
  now,        \* Time::now()
  locked,     \* does the saving thread hold the mutex?
  saver,      \* the saving thread: "idle", "begun", "writing", "loading"
  rows,       \* the rows written in, or read from, the database so far
  table,      \* what is committed
  open,       \* Database::transaction is set
  dropped,    \* has a save failed since the last one that was committed?
  running,    \* is the program up?
  faults

managerVars == <<sessions, dirty, lastSessionCleanup>>
saveVars == <<locked, saver, rows, open>>
vars == <<managerVars, saveVars, table, now, dropped, running, faults>>

Empty == [i \in {} |-> 0]
IsATable(t) == t = [i \in DOMAIN t |-> t[i]]
Remove(t, S) == [i \in DOMAIN t \ S |-> t[i]]
Put(t, i, s) == [j \in DOMAIN t \union {i} |-> IF j = i THEN s ELSE t[j]]

Init ==
  /\ sessions = Empty /\ dirty = FALSE /\ lastSessionCleanup = 0
  /\ now = 0 /\ locked = FALSE /\ saver = "idle" /\ rows = Empty
  /\ table = Empty /\ open = FALSE /\ dropped = FALSE /\ running = TRUE /\ faults = 0

-----------------------------------------------------------------------------
(* The worker threads.  Each operation is one critical section.            *)

Worker == running /\ ~locked /\ UNCHANGED <<saveVars, table, now, dropped, running, faults>>

\* openSession(): the session of that id, or a new one.
OpenSession(i) ==
  /\ Worker
  /\ sessions' = Put(sessions, i,
       [created |-> IF i \in DOMAIN sessions THEN sessions[i].created ELSE now, used |-> now])
  /\ dirty' = TRUE
  /\ UNCHANGED lastSessionCleanup

\* getSession(): touch().  The session may be an old one that was not removed yet.
GetSession(i) ==
  /\ Worker
  /\ i \in DOMAIN sessions
  /\ sessions' = [sessions EXCEPT ![i].used = now]
  /\ dirty' = TRUE
  /\ UNCHANGED lastSessionCleanup

CloseSession(i) ==
  /\ Worker
  /\ sessions' = Remove(sessions, {i})
  /\ dirty' = TRUE
  /\ UNCHANGED lastSessionCleanup

\* The test of update()
Old(t) == {i \in DOMAIN t : \/ t[i].used + sessionTimeout < now
                            \/ t[i].created + sessionLifetime < now}

\* Mutant of CleanUp: sessions are removed and dirty is not set.
CleanUp_Quiet(t) ==
  IF (sessionLifetime # 0 \/ sessionTimeout # 0) /\ lastSessionCleanup + CleanupInterval < now
  THEN /\ lastSessionCleanup' = now
       /\ sessions' = Remove(t, Old(t))
       /\ UNCHANGED dirty
  ELSE sessions' = t /\ UNCHANGED <<dirty, lastSessionCleanup>>

\* update(), applied to the table t: at most every CleanupInterval seconds, and
\* only when one of the two times is set.
CleanUp(t) ==
  IF (sessionLifetime # 0 \/ sessionTimeout # 0) /\ lastSessionCleanup + CleanupInterval < now
  THEN /\ lastSessionCleanup' = now
       /\ sessions' = Remove(t, Old(t))
       /\ dirty' = (dirty \/ Old(t) # {})
  ELSE sessions' = t /\ UNCHANGED <<dirty, lastSessionCleanup>>

Update == Worker /\ CleanUp(sessions)

-----------------------------------------------------------------------------
(* save()                                                                  *)

Saver(at) == running /\ saver = at /\ UNCHANGED <<lastSessionCleanup, sessions, now, running>>

\* if (!dirty) return; dirty = false; begin(); deleteAll()
SaveBegin ==
  /\ Saver("idle")
  /\ dirty /\ ~open
  /\ dirty' = FALSE
  /\ open' = TRUE /\ rows' = Empty
  /\ saver' = "begun"
  /\ UNCHANGED <<locked, table, dropped, faults>>

\* begin() throws while the last transaction has not ended.
SaveRefused ==
  /\ Saver("idle")
  /\ dirty /\ open
  /\ dirty' = FALSE
  /\ dropped' = TRUE
  /\ UNCHANGED <<saveVars, table, faults>>

\* Mutant of SaveLock: the sessions are written without the mutex.
SaveLock_NoLock ==
  /\ Saver("begun")
  /\ saver' = "writing"
  /\ UNCHANGED <<locked, dirty, rows, open, table, dropped, faults>>

SaveLock ==
  /\ Saver("begun")
  /\ locked' = TRUE
  /\ saver' = "writing"
  /\ UNCHANGED <<dirty, rows, open, table, dropped, faults>>

SaveRow ==
  /\ Saver("writing")
  /\ \E i \in DOMAIN sessions \ DOMAIN rows : rows' = Put(rows, i, sessions[i])
  /\ UNCHANGED <<dirty, locked, saver, open, table, dropped, faults>>

SaveCommit ==
  /\ Saver("writing")
  /\ DOMAIN sessions \subseteq DOMAIN rows
  /\ table' = rows
  /\ open' = FALSE /\ locked' = FALSE /\ saver' = "idle"
  /\ dropped' = FALSE
  /\ UNCHANGED <<dirty, rows, faults>>

\* A statement or the commit throws: the mutex is released and ~Transaction
\* rolls back; it gives up when that has failed for too long.
SaveFails ==
  /\ \E at \in {"begun", "writing"} : Saver(at)
  /\ faults < MaxFaults /\ faults' = faults + 1
  /\ open' \in BOOLEAN
  /\ locked' = FALSE /\ saver' = "idle"
  /\ dropped' = TRUE
  /\ UNCHANGED <<dirty, rows, table>>

-----------------------------------------------------------------------------
(* A crash, and load() when the program is started again.                  *)

Crash ==
  /\ running /\ faults < MaxFaults
  /\ faults' = faults + 1
  /\ running' = FALSE
  /\ sessions' = Empty /\ dirty' = FALSE /\ lastSessionCleanup' = 0
  /\ locked' = FALSE /\ saver' = "idle" /\ rows' = Empty /\ open' = FALSE
  /\ dropped' = FALSE
  /\ UNCHANGED <<table, now>>

\* load(): the rows are read without the mutex; workers may be running.
Restart ==
  /\ ~running
  /\ running' = TRUE
  /\ saver' = "loading" /\ rows' = table
  /\ UNCHANGED <<managerVars, locked, open, table, now, dropped, faults>>

\* The sessions are replaced, then update() is called, under the mutex.
Loaded ==
  /\ running /\ saver = "loading"
  /\ CleanUp(rows)
  /\ saver' = "idle"
  /\ UNCHANGED <<locked, rows, open, table, now, dropped, running, faults>>

Tick == now < MaxTime /\ now' = now + 1
        /\ UNCHANGED <<managerVars, saveVars, table, dropped, running, faults>>

Next ==
  \/ \E i \in Ids : OpenSession(i) \/ GetSession(i) \/ CloseSession(i)
  \/ Update
  \/ SaveBegin \/ SaveRefused \/ SaveLock \/ SaveRow \/ SaveCommit \/ SaveFails
  \/ Crash \/ Restart \/ Loaded \/ Tick

Spec == Init /\ [][Next]_vars

-----------------------------------------------------------------------------
\* A manager that is not dirty has nothing to save: what is committed is what
\* it holds, whatever the workers did while save() or load() was under way.
\* The exception is a save that failed, which has cleared the flag already.
CleanIsSaved ==
  running /\ saver = "idle" /\ ~dirty /\ ~dropped => table = sessions

\* What is committed is at every commit the whole table as it is at that
\* moment, never a mixture of two; nothing else changes it.
SavedAtOnce == [][table' # table => table' = sessions]_vars

\* "Zero for no session timeout.", "Zero for unlimited session lifetime.":
\* update() removes a session only for a limit that is set.
ZeroIsNoLimit ==
  [][lastSessionCleanup' > lastSessionCleanup /\ saver = saver' =>
       \A i \in DOMAIN sessions \ DOMAIN sessions' :
         \/ sessionTimeout # 0 /\ sessions[i].used + sessionTimeout < now
         \/ sessionLifetime # 0 /\ sessions[i].created + sessionLifetime < now]_vars
================================================================================
