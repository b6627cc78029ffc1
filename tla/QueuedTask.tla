------------------------------ MODULE QueuedTask ------------------------------
(***************************************************************************)
(* ConcurrentPool::QueuedTask (event/ConcurrentPool.h): a task that hands  *)
(* data from its run(), which a pool thread executes, to process() in the  *)
(* event loop while it is still running.  enqueue() pushes under the       *)
(* task's mutex and activates the task's event; the event's dequeue()      *)
(* processes unlocked; success() flushes what is left without the mutex;   *)
(* complete() deletes the event.  The pool promises what TaskService says: *)
(* after run() has returned or thrown, the loop calls success() or error() *)
(* and then complete(), once.  process() and run() may throw.              *)
(***************************************************************************)
EXTENDS Integers, Sequences

CONSTANTS MaxData   \* bound: data the task enqueues

VARIABLES
  mutex,    \* who holds the task's mutex: "none", "worker" or "loop"
  queue,    \* QueuedTask::queue
  active,   \* is the task's event activated?
  worker,   \* the pool thread: "run", "push", "activate", "unlock", "returned" or "threw"
  loop,     \* the event loop: "dispatch", "lock", "test", "process", "relock",
            \* "leave", "flush", "complete" or "completed"
  data,     \* the datum dequeue() has popped, in a sequence of at most one
  sent,     \* the data enqueued, in order: 1, 2 ...
  handled,  \* the data process() was called with, in order
  threw     \* has process() thrown?

vars == <<mutex, queue, active, worker, loop, data, sent, handled, threw>>

Init ==
  /\ mutex = "none" /\ queue = <<>> /\ active = FALSE
  /\ worker = "run" /\ loop = "dispatch" /\ data = <<>>
  /\ sent = <<>> /\ handled = <<>> /\ threw = FALSE

Lock(who) == mutex = "none" /\ mutex' = who
Unlock(who) == mutex = who /\ mutex' = "none"

-----------------------------------------------------------------------------
(* The pool thread, in run().                                              *)

\* enqueue(): lock, push, activate, unlock.
Enqueue ==
  /\ worker = "run" /\ Len(sent) < MaxData
  /\ Lock("worker")
  /\ worker' = "push"
  /\ UNCHANGED <<queue, active, loop, data, sent, handled, threw>>

Push ==
  /\ worker = "push"
  /\ queue' = Append(queue, Len(sent) + 1) /\ sent' = Append(sent, Len(sent) + 1)
  /\ worker' = "activate"
  /\ UNCHANGED <<mutex, active, loop, data, handled, threw>>

\* Mutant of Activate: enqueue() does not activate the event.
Activate_Skip ==
  /\ worker = "activate"
  /\ worker' = "unlock"
  /\ UNCHANGED <<mutex, queue, active, loop, data, sent, handled, threw>>

Activate ==
  /\ worker = "activate"
  /\ active' = TRUE
  /\ worker' = "unlock"
  /\ UNCHANGED <<mutex, queue, loop, data, sent, handled, threw>>

Enqueued ==
  /\ worker = "unlock"
  /\ Unlock("worker")
  /\ worker' = "run"
  /\ UNCHANGED <<queue, active, loop, data, sent, handled, threw>>

\* run() returns or throws, and the pool puts the task on its completed queue.
Finish ==
  /\ worker = "run"
  /\ worker' \in {"returned", "threw"}
  /\ UNCHANGED <<mutex, queue, active, loop, data, sent, handled, threw>>

-----------------------------------------------------------------------------
(* The event loop.                                                         *)

\* The task's event is dispatched: dequeue() locks.
Dispatch ==
  /\ loop = "dispatch" /\ active
  /\ active' = FALSE
  /\ loop' = "lock"
  /\ UNCHANGED <<mutex, queue, worker, data, sent, handled, threw>>

Dequeue ==
  /\ loop \in {"lock", "relock"}
  /\ Lock("loop")
  /\ loop' = "test"
  /\ UNCHANGED <<queue, active, worker, data, sent, handled, threw>>

\* while (!queue.empty()): pop under the mutex, then unlock to process.
Pop ==
  /\ loop = "test" /\ queue # <<>>
  /\ data' = <<Head(queue)>> /\ queue' = Tail(queue)
  /\ Unlock("loop")
  /\ loop' = "process"
  /\ UNCHANGED <<active, worker, sent, handled, threw>>

Process ==
  /\ loop = "process"
  /\ handled' = Append(handled, Head(data)) /\ data' = <<>>
  /\ loop' = "relock"
  /\ UNCHANGED <<mutex, queue, active, worker, sent, threw>>

\* process() throws: SmartUnlock locks again, SmartLock unlocks, and the loop
\* logs the exception.  The rest of the queue stays.
ProcessThrows ==
  /\ loop = "process"
  /\ Lock("loop")
  /\ handled' = Append(handled, Head(data)) /\ data' = <<>>
  /\ threw' = TRUE
  /\ loop' = "leave"
  /\ UNCHANGED <<queue, active, worker, sent>>

Leave ==
  /\ \/ loop = "test" /\ queue = <<>>
     \/ loop = "leave"
  /\ Unlock("loop")
  /\ loop' = "dispatch"
  /\ UNCHANGED <<queue, active, worker, data, sent, handled, threw>>

\* Mutant of Report: success() leaves the queue as it is.
Report_NoFlush ==
  /\ loop = "dispatch" /\ worker \in {"returned", "threw"}
  /\ loop' = "complete"
  /\ UNCHANGED <<mutex, queue, active, worker, data, sent, handled, threw>>

\* The pool's complete() reports the task; error() of a failed one does nothing.
Report ==
  /\ loop = "dispatch" /\ worker \in {"returned", "threw"}
  /\ loop' = IF worker = "returned" THEN "flush" ELSE "complete"
  /\ UNCHANGED <<mutex, queue, active, worker, data, sent, handled, threw>>

\* success(): the datum is processed before it is popped.
Flush ==
  /\ loop = "flush" /\ queue # <<>>
  /\ handled' = Append(handled, Head(queue))
  /\ \/ queue' = Tail(queue) /\ UNCHANGED <<threw, loop>>
     \/ threw' = TRUE /\ loop' = "complete" /\ UNCHANGED queue
  /\ UNCHANGED <<mutex, active, worker, data, sent>>

Flushed ==
  /\ loop = "flush" /\ queue = <<>>
  /\ loop' = "complete"
  /\ UNCHANGED <<mutex, queue, active, worker, data, sent, handled, threw>>

\* complete(): the event is deleted.
Complete ==
  /\ loop = "complete"
  /\ active' = FALSE
  /\ loop' = "completed"
  /\ UNCHANGED <<mutex, queue, worker, data, sent, handled, threw>>

-----------------------------------------------------------------------------
Worker == Enqueue \/ Push \/ Activate \/ Enqueued \/ Finish
Loop == Dispatch \/ Dequeue \/ Pop \/ Process \/ ProcessThrows \/ Leave
        \/ Report \/ Flush \/ Flushed \/ Complete

Next == Worker \/ Loop

Spec == Init /\ [][Next]_vars

\* The event loop runs, and the pool thread ends its calls of enqueue(); its
\* run() need not return.
EnqueueEnds == Push \/ Activate \/ Enqueued
Fairness == WF_vars(EnqueueEnds) /\ WF_vars(Loop)

FairSpec == Spec /\ Fairness

-----------------------------------------------------------------------------
\* process() sees the data in the order enqueue() was called, none of it twice
\* and none left out, whether dequeue() or success() hands it over.
InOrder == /\ Len(handled) <= Len(sent)
           /\ \A i \in 1 .. Len(handled) : handled[i] = sent[i]

\* A task that succeeded has had all its data processed before complete(),
\* unless process() threw.
AllBeforeComplete ==
  loop \in {"complete", "completed"} /\ worker = "returned" /\ ~threw => handled = sent

\* Both: the data of a task that succeeds is processed, each once and in order,
\* before the task is complete.
Delivered == InOrder /\ AllBeforeComplete

\* success() reads the queue without the mutex: nobody else is using it.
FlushAlone ==
  loop = "flush" => worker = "returned" /\ mutex = "none"

\* What is enqueued is processed while the task still runs: at the latest when
\* the loop has come round, unless the task fails or process() throws.
Prompt ==
  \A d \in 1..MaxData :
    Len(sent) >= d ~> Len(handled) >= d \/ worker = "threw" \/ threw
================================================================================
