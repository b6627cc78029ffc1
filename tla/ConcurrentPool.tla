---------------------------- MODULE ConcurrentPool ----------------------------
(***************************************************************************)
(* event/ConcurrentPool with the os/ThreadPool, os/Thread and os/Condition *)
(* it is made of: pool threads take tasks from the ready queue, run them   *)
(* unlocked and put them on the completed queue; an event wakes the event  *)
(* loop, which empties that queue and calls success()/error() and then     *)
(* complete() of each task.  An owner thread starts, stops and joins the   *)
(* pool.  One action is one stretch of a thread's code between two points  *)
(* where another thread may see what it did.                               *)
(***************************************************************************)
EXTENDS Integers, FiniteSets

CONSTANTS N,               \* ThreadPool size
          Tasks,           \* the tasks the program submits, each once
          Priority, Stamp, \* Task::priority and Task::ts (seconds)
          NoTask,
          RestartRunning,  \* may start() be called while threads are running?
          MaxCalls,        \* bound: calls of start(), stop(), join()
          MaxSpurious      \* bound: spurious wakeups

ASSUME SizeAssumption == N \in Nat \ {0}
ASSUME TaskAssumption == /\ NoTask \notin Tasks
                         /\ Priority \in [Tasks -> Int]
                         /\ Stamp \in [Tasks -> Nat]
ASSUME CallAssumption == /\ RestartRunning \in BOOLEAN
                         /\ MaxCalls \in Nat
                         /\ MaxSpurious \in Nat

Threads == 1..N
Nobody == 0
Loop == N + 1

VARIABLES
  mutex,      \* holder of the pool's mutex: a thread, Loop or Nobody
  ready, completed,      \* the two priority queues
  active,     \* ConcurrentPool::active
  pending,    \* event->isPending()
  pc, task,   \* per pool thread: where it is, the task it holds
  state,      \* Thread::state
  shutdown,   \* Thread::shutdown
  lpc, cur,   \* the event loop: where it is, the task it delivers
  opc, k,     \* the owner: the call it is in, the thread that call has reached
  joining,    \* is the stop() in progress the first half of join()?
  submitted, failed, \* tasks submitted; tasks with Task::failed set
  done,       \* tasks whose complete() was called
  calls, spurious    \* how much of the bounds is used

thrVars == <<pc, task, state, shutdown>>
queueVars == <<ready, completed, active>>
loopVars == <<lpc, cur, done>>
ownVars == <<opc, k, joining, calls>>
vars == <<mutex, queueVars, pending, thrVars, loopVars, ownVars,
          submitted, failed, spurious>>

\* Where a pool thread is.  It holds the mutex at Locked.
Locked == {"test", "check", "recheck", "push", "activate", "decr", "exit"}
Holding == {"run", "relock", "push"}            \* it has a task
Counted == Holding \cup {"activate", "decr"}    \* it is counted in active
PCs == Locked \cup {"none", "starter", "lock", "waiting", "woken", "run",
                    "relock", "done", "gone"}

LPCs == {"dispatch", "lock", "while", "deliver", "complete", "relock"}
OPCs == {"idle", "start", "startWait", "stop", "broadcast", "wait"}

waiting == {w \in Threads : pc[w] = "waiting"}

\* Task::operator<: a priority queue's top has the highest priority and,
\* among those, the latest time stamp.
Less(t, u) == IF Priority[t] = Priority[u] THEN Stamp[t] < Stamp[u]
                                           ELSE Priority[t] < Priority[u]

\* Mutant of Tops: the comparison of TaskPtrCompare turned round.
Tops_Reversed(q) == {t \in q : \A u \in q : ~Less(u, t)}

\* What queue_t::top() may return (tasks that compare equal tie).
Tops(q) == {t \in q : \A u \in q : ~Less(t, u)}

Init ==
    /\ mutex = Nobody
    /\ ready = {} /\ completed = {} /\ active = 0
    /\ pending = FALSE
    /\ pc = [w \in Threads |-> "none"]
    /\ task = [w \in Threads |-> NoTask]
    /\ state = [w \in Threads |-> "STOPPED"]
    /\ shutdown = [w \in Threads |-> FALSE]
    /\ lpc = "dispatch" /\ cur = NoTask /\ done = {}
    /\ opc = "idle" /\ k = 1 /\ joining = FALSE
    /\ submitted = {} /\ failed = {}
    /\ calls = 0 /\ spurious = 0

Goto(w, l) == pc' = [pc EXCEPT ![w] = l]

--------------------------------------------------------------------------------
(* Any thread: submit(), which ends with Condition::signal().              *)

\* pthread_cond_signal: wakes one waiter, if there is one.
Signal == IF waiting = {} THEN pc' = pc
                          ELSE \E w \in waiting : Goto(w, "woken")

\* Mutant of Submit: nobody is woken.
Submit_NoSignal(t) ==
    /\ mutex = Nobody
    /\ t \notin submitted
    /\ submitted' = submitted \cup {t}
    /\ ready' = ready \cup {t}
    /\ UNCHANGED <<mutex, completed, active, pending, thrVars,
                   loopVars, ownVars, failed, spurious>>

Submit(t) ==
    /\ mutex = Nobody
    /\ t \notin submitted
    /\ submitted' = submitted \cup {t}
    /\ ready' = ready \cup {t}
    /\ Signal
    /\ UNCHANGED <<mutex, completed, active, pending, task, state, shutdown,
                   loopVars, ownVars, failed, spurious>>

--------------------------------------------------------------------------------
(* A pool thread: Thread::starter() and ConcurrentPool::run().             *)

Starter(w) ==
    /\ pc[w] = "starter"
    /\ state' = [state EXCEPT ![w] = "RUNNING"]
    /\ Goto(w, "lock")
    /\ UNCHANGED <<mutex, queueVars, pending, task, shutdown, loopVars, ownVars,
                   submitted, failed, spurious>>

\* Acquire the mutex: on entry, on return from wait(), after running a task.
Lock(w) ==
    /\ mutex = Nobody
    /\ mutex' = w
    /\ \/ pc[w] = "lock" /\ Goto(w, "test")
       \/ pc[w] = "woken" /\ Goto(w, "recheck")
       \/ pc[w] = "relock" /\ Goto(w, "push")
    /\ UNCHANGED <<queueVars, pending, task, state, shutdown, loopVars, ownVars,
                   submitted, failed, spurious>>

Test(w) ==
    /\ pc[w] = "test"
    /\ Goto(w, IF shutdown[w] THEN "exit" ELSE "check")
    /\ UNCHANGED <<mutex, queueVars, pending, task, state, shutdown, loopVars,
                   ownVars, submitted, failed, spurious>>

\* if (ready.empty()) Condition::wait(): unlocks and blocks in one step.
Check(w) ==
    /\ pc[w] = "check"
    /\ IF ready = {} THEN mutex' = Nobody /\ Goto(w, "waiting")
                     ELSE mutex' = mutex /\ Goto(w, "recheck")
    /\ UNCHANGED <<queueVars, pending, task, state, shutdown, loopVars, ownVars,
                   submitted, failed, spurious>>

\* After wait(): told to stop, or another thread was faster.
Recheck(w) ==
    /\ pc[w] = "recheck"
    /\ shutdown[w] \/ ready = {}
    /\ Goto(w, IF shutdown[w] THEN "exit" ELSE "test")
    /\ UNCHANGED <<mutex, queueVars, pending, task, state, shutdown, loopVars,
                   ownVars, submitted, failed, spurious>>

\* Mutants of Take: without ready.pop(); with completed.push() before run().
Take_NoPop(w) ==
    /\ pc[w] = "recheck"
    /\ ~shutdown[w]
    /\ \E t \in Tops(ready) : task' = [task EXCEPT ![w] = t]
    /\ active' = active + 1
    /\ mutex' = Nobody
    /\ Goto(w, "run")
    /\ UNCHANGED <<ready, completed, pending, state, shutdown, loopVars, ownVars,
                   submitted, failed, spurious>>
Take_PushFirst(w) ==
    /\ pc[w] = "recheck"
    /\ ~shutdown[w]
    /\ \E t \in Tops(ready) :
          /\ task' = [task EXCEPT ![w] = t]
          /\ ready' = ready \ {t}
          /\ completed' = completed \cup {t}
    /\ active' = active + 1
    /\ mutex' = Nobody
    /\ Goto(w, "run")
    /\ UNCHANGED <<pending, state, shutdown, loopVars, ownVars, submitted,
                   failed, spurious>>

\* ready.top(), ready.pop(), active++, and unlock to run the task.
Take(w) ==
    /\ pc[w] = "recheck"
    /\ ~shutdown[w]
    /\ \E t \in Tops(ready) :
          /\ task' = [task EXCEPT ![w] = t]
          /\ ready' = ready \ {t}
    /\ active' = active + 1
    /\ mutex' = Nobody
    /\ Goto(w, "run")
    /\ UNCHANGED <<completed, pending, state, shutdown, loopVars, ownVars,
                   submitted, failed, spurious>>

\* task->run() returns or throws; an exception is stored in the task.
RunTask(w) ==
    /\ pc[w] = "run"
    /\ failed' \in {failed, failed \cup {task[w]}}
    /\ Goto(w, "relock")
    /\ UNCHANGED <<mutex, queueVars, pending, task, state, shutdown, loopVars,
                   ownVars, submitted, spurious>>

\* completed.push(task), and the test of if (!event->isPending()).
Push(w) ==
    /\ pc[w] = "push"
    /\ completed' = completed \cup {task[w]}
    /\ task' = [task EXCEPT ![w] = NoTask]
    /\ Goto(w, IF pending THEN "decr" ELSE "activate")
    /\ UNCHANGED <<mutex, ready, active, pending, state, shutdown, loopVars,
                   ownVars, submitted, failed, spurious>>

Activate(w) ==
    /\ pc[w] = "activate"
    /\ pending' = TRUE
    /\ Goto(w, "decr")
    /\ UNCHANGED <<mutex, queueVars, task, state, shutdown, loopVars, ownVars,
                   submitted, failed, spurious>>

Decr(w) ==
    /\ pc[w] = "decr"
    /\ active' = active - 1
    /\ Goto(w, "test")
    /\ UNCHANGED <<mutex, ready, completed, pending, task, state, shutdown,
                   loopVars, ownVars, submitted, failed, spurious>>

\* run() returns: the SmartLock unlocks.
Exit(w) ==
    /\ pc[w] = "exit"
    /\ mutex' = Nobody
    /\ Goto(w, "done")
    /\ UNCHANGED <<queueVars, pending, task, state, shutdown, loopVars, ownVars,
                   submitted, failed, spurious>>

\* Thread::done(); the thread function returns.
Done(w) ==
    /\ pc[w] = "done"
    /\ state' = [state EXCEPT ![w] = "DONE"]
    /\ Goto(w, "gone")
    /\ UNCHANGED <<mutex, queueVars, pending, task, shutdown, loopVars, ownVars,
                   submitted, failed, spurious>>

\* pthread_cond_wait may return without a signal.
Spurious(w) ==
    /\ pc[w] = "waiting"
    /\ spurious < MaxSpurious
    /\ spurious' = spurious + 1
    /\ Goto(w, "woken")
    /\ UNCHANGED <<mutex, queueVars, pending, task, state, shutdown, loopVars,
                   ownVars, submitted, failed>>

--------------------------------------------------------------------------------
(* The event loop: ConcurrentPool::complete(), the event's callback.       *)

\* libevent takes an active event off its queue before it calls back.
Fire ==
    /\ lpc = "dispatch" /\ pending
    /\ pending' = FALSE
    /\ lpc' = "lock"
    /\ UNCHANGED <<mutex, queueVars, thrVars, cur, done, ownVars, submitted,
                   failed, spurious>>

LoopLock ==
    /\ lpc \in {"lock", "relock"}
    /\ mutex = Nobody
    /\ mutex' = Loop
    /\ lpc' = "while"
    /\ UNCHANGED <<queueVars, pending, thrVars, cur, done, ownVars, submitted,
                   failed, spurious>>

\* Pop a completed task, or return; either way unlock.
Pop ==
    /\ lpc = "while"
    /\ mutex' = Nobody
    /\ \/ /\ completed = {}
          /\ lpc' = "dispatch"
          /\ UNCHANGED <<completed, cur>>
       \/ \E t \in Tops(completed) :
             /\ cur' = t
             /\ completed' = completed \ {t}
             /\ lpc' = "deliver"
    /\ UNCHANGED <<ready, active, pending, thrVars, done, ownVars, submitted,
                   failed, spurious>>

\* error() or success(); what it throws is caught.
Deliver ==
    /\ lpc = "deliver"
    /\ lpc' = "complete"
    /\ UNCHANGED <<mutex, queueVars, pending, thrVars, cur, done, ownVars,
                   submitted, failed, spurious>>

\* Mutant of Complete: "if" for "while (!completed.empty())".
Complete_Once ==
    /\ lpc = "complete"
    /\ done' = done \cup {cur}
    /\ cur' = NoTask
    /\ lpc' = "dispatch"
    /\ UNCHANGED <<mutex, queueVars, pending, thrVars, ownVars, submitted,
                   failed, spurious>>

Complete ==
    /\ lpc = "complete"
    /\ done' = done \cup {cur}
    /\ cur' = NoTask
    /\ lpc' = "relock"
    /\ UNCHANGED <<mutex, queueVars, pending, thrVars, ownVars, submitted,
                   failed, spurious>>

--------------------------------------------------------------------------------
(* The owner: ThreadPool::start(), ConcurrentPool::stop() and join().      *)

Call(c) ==
    /\ opc = "idle" /\ calls < MaxCalls
    /\ calls' = calls + 1
    /\ opc' = c /\ k' = 1

CallStart ==
    /\ Call("start")
    /\ RestartRunning \/ \A w \in Threads : shutdown[w] \/ state[w] = "STOPPED"
    /\ joining' = FALSE
    /\ UNCHANGED <<mutex, queueVars, pending, thrVars, loopVars, submitted,
                   failed, spurious>>

CallStop ==
    /\ Call("stop")
    /\ joining' \in BOOLEAN
    /\ UNCHANGED <<mutex, queueVars, pending, thrVars, loopVars, submitted,
                   failed, spurious>>

\* The for loops over the pool: on to the next thread, or to l.
Advance(l) == IF k < N THEN k' = k + 1 /\ opc' = opc
                       ELSE k' = 1 /\ opc' = l

\* Thread::start() of thread k: pthread_create succeeds, or it fails and
\* the exception ends ThreadPool::start().
StartThread ==
    /\ opc = "start" /\ state[k] = "STOPPED"
    /\ shutdown' = [shutdown EXCEPT ![k] = FALSE]
    /\ \/ /\ state' = [state EXCEPT ![k] = "STARTING"]
          /\ Goto(k, "starter")
          /\ Advance("idle")
       \/ /\ opc' = "idle" /\ k' = 1
          /\ UNCHANGED <<state, pc>>
    /\ UNCHANGED <<mutex, queueVars, pending, task, loopVars, joining, calls,
                   submitted, failed, spurious>>

\* Thread::start() of a thread that is not stopped first joins it:
\* Thread::join() sets shutdown, without waking the thread, and waits.
StartJoin ==
    /\ opc = "start" /\ state[k] # "STOPPED"
    /\ shutdown' = [shutdown EXCEPT ![k] = TRUE]
    /\ opc' = "startWait"
    /\ UNCHANGED <<mutex, queueVars, pending, pc, task, state, loopVars, k,
                   joining, calls, submitted, failed, spurious>>

\* pthread_join returns once the thread function has.
Reap(w) ==
    /\ pc[w] = "gone"
    /\ state' = [state EXCEPT ![w] = "STOPPED"]
    /\ Goto(w, "none")

StartWait ==
    /\ opc = "startWait"
    /\ Reap(k)
    /\ opc' = "start"
    /\ UNCHANGED <<mutex, queueVars, pending, task, shutdown, loopVars, k,
                   joining, calls, submitted, failed, spurious>>

\* ThreadPool::stop(): Thread::stop() of thread k, without the mutex.
StopThread ==
    /\ opc = "stop"
    /\ shutdown' = [shutdown EXCEPT ![k] = TRUE]
    /\ Advance("broadcast")
    /\ UNCHANGED <<mutex, queueVars, pending, pc, task, state, loopVars,
                   joining, calls, submitted, failed, spurious>>

\* Mutant of Broadcast: signal() for broadcast().
Broadcast_Signal ==
    /\ opc = "broadcast"
    /\ mutex = Nobody
    /\ Signal
    /\ opc' = IF joining THEN "wait" ELSE "idle"
    /\ UNCHANGED <<mutex, queueVars, pending, task, state, shutdown, loopVars,
                   k, joining, calls, submitted, failed, spurious>>

\* Condition::broadcast() takes the mutex.
Broadcast ==
    /\ opc = "broadcast"
    /\ mutex = Nobody
    /\ pc' = [w \in Threads |-> IF w \in waiting THEN "woken" ELSE pc[w]]
    /\ opc' = IF joining THEN "wait" ELSE "idle"
    /\ UNCHANGED <<mutex, queueVars, pending, task, state, shutdown, loopVars,
                   k, joining, calls, submitted, failed, spurious>>

\* ThreadPool::wait(): Thread::wait() of thread k.
WaitThread ==
    /\ opc = "wait"
    /\ \/ state[k] = "STOPPED" /\ UNCHANGED <<state, pc>>
       \/ state[k] # "STOPPED" /\ Reap(k)
    /\ Advance("idle")
    /\ UNCHANGED <<mutex, queueVars, pending, task, shutdown, loopVars,
                   joining, calls, submitted, failed, spurious>>

--------------------------------------------------------------------------------
WorkerStep(w) ==
    \/ Starter(w) \/ Lock(w) \/ Test(w) \/ Check(w) \/ Recheck(w)
    \/ Take(w) \/ RunTask(w) \/ Push(w) \/ Activate(w) \/ Decr(w) \/ Exit(w) \/ Done(w)

LoopStep == Fire \/ LoopLock \/ Pop \/ Deliver \/ Complete

\* What the owner does once it is inside a call.
OwnerStep == StartThread \/ StartJoin \/ StartWait \/ StopThread
             \/ Broadcast \/ WaitThread

Next ==
    \/ \E t \in Tasks : Submit(t)
    \/ \E w \in Threads : WorkerStep(w) \/ Spurious(w)
    \/ LoopStep
    \/ CallStart \/ CallStop \/ OwnerStep

Spec == Init /\ [][Next]_vars

\* Threads run: none that can take a step is passed over for ever.  Nothing
\* is assumed of submissions, of owner calls or of spurious wakeups.
Fairness == /\ \A w \in Threads : WF_vars(WorkerStep(w))
            /\ WF_vars(LoopStep)
            /\ WF_vars(OwnerStep)

FairSpec == Spec /\ Fairness

--------------------------------------------------------------------------------
\* The type invariant.
TypeOK ==
    /\ mutex \in Threads \cup {Loop, Nobody}
    /\ ready \subseteq Tasks /\ completed \subseteq Tasks
    /\ active \in Int
    /\ pending \in BOOLEAN
    /\ pc \in [Threads -> PCs]
    /\ task \in [Threads -> Tasks \cup {NoTask}]
    /\ state \in [Threads -> {"STOPPED", "STARTING", "RUNNING", "DONE"}]
    /\ shutdown \in [Threads -> BOOLEAN]
    /\ lpc \in LPCs /\ cur \in Tasks \cup {NoTask} /\ done \subseteq Tasks
    /\ opc \in OPCs /\ k \in Threads /\ joining \in BOOLEAN
    /\ submitted \subseteq Tasks /\ failed \subseteq Tasks
    /\ calls \in 0..MaxCalls /\ spurious \in 0..MaxSpurious

\* The places a submitted task can be in besides the two queues and done.
Holds(w, t) == pc[w] \in Holding /\ task[w] = t
Held == {t \in Tasks : \E w \in Threads : Holds(w, t)}
Delivering == {t \in Tasks : lpc \in {"deliver", "complete"} /\ cur = t}

\* A task is never lost and never handled twice: each submitted task is in
\* exactly one of the ready queue, one thread's hands, the completed queue,
\* the event loop's hands and the set of completed tasks (run(), complete()).
EachTaskInOnePlace ==
    /\ submitted = ready \cup Held \cup completed \cup Delivering \cup done
    /\ ready \cap (Held \cup completed \cup Delivering \cup done) = {}
    /\ Held \cap (completed \cup Delivering \cup done) = {}
    /\ completed \cap (Delivering \cup done) = {}
    /\ Delivering \cap done = {}
    /\ \A v, w \in Threads, t \in Tasks : Holds(v, t) /\ Holds(w, t) => v = w

\* The queues and active are only touched by the holder of the mutex, and
\* active, which getNumActive() reports, counts the threads at work.
MutexProtects ==
    /\ \A w \in Threads : pc[w] \in Locked <=> mutex = w
    /\ lpc = "while" <=> mutex = Loop
    /\ active = Cardinality({w \in Threads : pc[w] \in Counted})

\* The event loop cannot miss a completed task: when the queue is not empty
\* the event is pending, or complete() has yet to look at the queue again,
\* or the thread that found the event idle is about to activate it.  This is
\* why run() may skip event->activate() when event->isPending().
NoLostCompletion ==
    completed # {} =>
        pending \/ lpc # "dispatch" \/ \E w \in Threads : pc[w] = "activate"

\* A thread told to stop is not left asleep: it waits only while the stop()
\* that told it has its broadcast still to come.
StopWakesWaiters ==
    \A w \in waiting : shutdown[w] => opc \in {"stop", "broadcast"}

\* No lost wakeup: while a task is ready and a thread sleeps, some thread
\* that was not told to stop is on its way to look at the ready queue, or a
\* broadcast is to come.
NoLostWakeup ==
    ready # {} /\ waiting # {} =>
        \/ opc \in {"stop", "broadcast"}
        \/ \E w \in Threads : pc[w] \notin {"none", "waiting", "exit", "done", "gone"}
                              /\ ~shutdown[w]

\* join() returns only when no pool thread exists any more, so that the
\* pool, and what the tasks refer to, may then be destroyed.
JoinEndsThreads ==
    [][opc = "wait" /\ opc' = "idle" => \A w \in Threads : pc'[w] = "none"]_vars

\* A task that was completed stays completed; nothing un-submits a task, and
\* whether it failed is settled before its outcome is reported (getFailed()
\* in complete() is read without the mutex).
OutcomeSettled ==
    [][/\ done \subseteq done'
       /\ \A t \in completed \cup Delivering \cup done : t \in failed' <=> t \in failed]_vars

\* Liveness.  A task the pool can get to is completed unless the pool is stopped.
Pickable == \E w \in Threads : pc[w] \notin {"none", "exit", "done", "gone"}
                               /\ ~shutdown[w]
ReadyIsCompleted ==
    \A t \in Tasks :
        (t \in ready /\ Pickable) ~> (t \in done \/ \E w \in Threads : shutdown[w])

\* stop(), join() and a start() that follows a stop() return.
CallsReturn == (opc # "idle") ~> (opc = "idle")

\* TaskService is what the program sees.
Running(t) == \E w \in Threads : pc[w] = "run" /\ task[w] = t
Reported(t) == lpc = "complete" /\ cur = t

Status ==
    [t \in Tasks |->
        CASE t \notin submitted -> "new"
          [] t \in ready -> "queued"
          [] Running(t) -> "running"
          [] Reported(t) -> "reported"
          [] t \in done -> "completed"
          [] OTHER -> "finished"]

Service == INSTANCE TaskService WITH Size <- N, status <- Status

\* ConcurrentPool implements the task service: run(), submit() and complete()
\* give each task its turn, one run, one report and one completion.
ImplementsService == Service!ASpec
================================================================================
