------------------------------ MODULE TaskService ------------------------------
(***************************************************************************)
(* What event/ConcurrentPool promises the program that submits a task:     *)
(* the task waits its turn, is run once by one of Size threads, and then   *)
(* the event loop reports its outcome once (success() or error()) and      *)
(* calls complete() once, one task at a time.  No threads, locks, queues   *)
(* or events: ConcurrentPool.tla is shown to implement this specification. *)
(***************************************************************************)
EXTENDS Integers, FiniteSets

CONSTANTS Tasks,       \* the tasks a program may submit
          Size,        \* number of threads of the pool
          Less(_, _)   \* Task::operator<

VARIABLES status,      \* [Tasks -> Statuses]
          failed       \* the tasks whose run() threw

avars == <<status, failed>>

Statuses == {"new", "queued", "running", "finished", "reported", "completed"}

At(s) == {t \in Tasks : status[t] = s}

Move(t, from, to) ==
    /\ status[t] = from
    /\ status' = [status EXCEPT ![t] = to]

AInit == status = [t \in Tasks |-> "new"] /\ failed = {}

ASubmit(t) == Move(t, "new", "queued") /\ UNCHANGED failed

\* A free thread takes a task that no queued task outranks.
ABegin(t) ==
    /\ Move(t, "queued", "running")
    /\ Cardinality(At("running")) < Size
    /\ \A u \in At("queued") : ~Less(t, u)
    /\ UNCHANGED failed

\* run() returned, or threw and the exception was stored in the task.
AEnd(t) ==
    /\ Move(t, "running", "finished")
    /\ failed' \in {failed, failed \cup {t}}

\* The event loop called success() or error(); it does one task at a time.
AReport(t) == Move(t, "finished", "reported") /\ At("reported") = {} /\ UNCHANGED failed

\* The event loop called complete().
AComplete(t) == Move(t, "reported", "completed") /\ UNCHANGED failed

ANext == \E t \in Tasks :
    ASubmit(t) \/ ABegin(t) \/ AEnd(t) \/ AReport(t) \/ AComplete(t)

ASpec == AInit /\ [][ANext]_avars
================================================================================
