------------------------- MODULE ConcurrentPoolProofs -------------------------
(***************************************************************************)
(* Safety of ConcurrentPool for every pool size and every set of tasks, and *)
(* that it implements TaskService.                                          *)
(***************************************************************************)
EXTENDS ConcurrentPool, TLAPS

USE SizeAssumption, TaskAssumption, CallAssumption
USE DEF SizeAssumption, TaskAssumption, CallAssumption

--------------------------------------------------------------------------------
(* Types.  task[w] and cur are tasks exactly while they are in use, and a  *)
(* Thread is STOPPED exactly when it has no operating system thread.       *)

Hands ==
    /\ \A w \in Threads : pc[w] \in Holding <=> task[w] # NoTask
    /\ lpc \in {"deliver", "complete"} <=> cur # NoTask
    /\ \A w \in Threads : state[w] = "STOPPED" <=> pc[w] = "none"

TypeInv == TypeOK /\ Hands

LEMMA InitType == Init => TypeInv
<1> SUFFICES ASSUME Init PROVE TypeInv OBVIOUS
<1>1. TypeOK
  <2>1. /\ mutex \in Threads \cup {Loop, Nobody}
        /\ pc \in [Threads -> PCs]
        /\ task \in [Threads -> Tasks \cup {NoTask}]
        /\ state \in [Threads -> {"STOPPED", "STARTING", "RUNNING", "DONE"}]
        /\ shutdown \in [Threads -> BOOLEAN]
    BY DEF Init, PCs
  <2>2. /\ lpc \in LPCs /\ opc \in OPCs /\ k \in Threads
    BY DEF Init, LPCs, OPCs, Threads
  <2>3. pending \in BOOLEAN /\ joining \in BOOLEAN
    BY Zenon DEF Init
  <2>4. active \in Int /\ calls \in 0..MaxCalls /\ spurious \in 0..MaxSpurious
    BY DEF Init
  <2>5. /\ ready \subseteq Tasks /\ completed \subseteq Tasks /\ done \subseteq Tasks
        /\ submitted \subseteq Tasks /\ failed \subseteq Tasks
        /\ cur \in Tasks \cup {NoTask}
    BY DEF Init
  <2> QED BY <2>1, <2>2, <2>3, <2>4, <2>5 DEF TypeOK
<1>2. Hands BY DEF Init, Hands, Holding, Threads
<1> QED BY <1>1, <1>2 DEF TypeInv

LEMMA WorkerType ==
    ASSUME TypeInv, NEW w \in Threads, WorkerStep(w) \/ Spurious(w)
    PROVE  TypeInv'
<1> USE DEF TypeInv, Hands, TypeOK, Threads, PCs, Locked, Holding, Goto, Nobody,
            Loop, queueVars, loopVars, ownVars
<1>1. CASE Starter(w) BY <1>1 DEF Starter
<1>2. CASE Lock(w) BY ZenonT(60), <1>2 DEF Lock
<1>3. CASE Test(w) BY ZenonT(60), <1>3 DEF Test
<1>4. CASE Check(w) BY ZenonT(60), <1>4 DEF Check
<1>5. CASE Recheck(w) BY Zenon, <1>5 DEF Recheck
<1>13. CASE Take(w)
  <2>1. PICK t \in ready : /\ task' = [task EXCEPT ![w] = t]
                           /\ ready' = ready \ {t}
    BY Zenon, <1>13 DEF Take, Tops
  <2>2. TypeOK' BY <1>13, <2>1 DEF Take
  <2>3. Hands' BY <1>13, <2>1 DEF Take
  <2> QED BY SMTT(30), SMTT(60), <2>2, <2>3
<1>6. CASE RunTask(w) BY <1>6 DEF RunTask
<1>7. CASE Push(w) BY <1>7 DEF Push
<1>8. CASE Activate(w) BY Zenon, <1>8 DEF Activate
<1>9. CASE Decr(w) BY SMTT(30), SMTT(60), <1>9 DEF Decr
<1>10. CASE Exit(w) BY <1>10 DEF Exit
<1>11. CASE Done(w) BY SMTT(30), SMTT(60), <1>11 DEF Done
<1>12. CASE Spurious(w)
  <2>1. TypeOK' BY <1>12 DEF Spurious
  <2>2. Hands' BY Zenon, <1>12 DEF Spurious
  <2> QED BY <2>1, <2>2
<1> QED BY Zenon, <1>1, <1>2, <1>3, <1>4, <1>5, <1>6, <1>7, <1>8, <1>9, <1>10,
           <1>11, <1>12, <1>13 DEF WorkerStep

LEMMA LoopType == ASSUME TypeInv, LoopStep PROVE TypeInv'
<1> USE DEF TypeInv, Hands, TypeOK, LPCs, Nobody, Loop, queueVars, thrVars,
            loopVars, ownVars
<1>1. CASE Fire BY Zenon, <1>1 DEF Fire
<1>2. CASE LoopLock BY <1>2 DEF LoopLock
<1>3. CASE Pop BY <1>3 DEF Pop, Tops
<1>4. CASE Deliver BY <1>4 DEF Deliver
<1>5. CASE Complete BY <1>5 DEF Complete
<1> QED BY <1>1, <1>2, <1>3, <1>4, <1>5 DEF LoopStep

LEMMA SubmitType == ASSUME TypeInv, NEW t \in Tasks, Submit(t) PROVE TypeInv'
BY ZenonT(60) DEF TypeInv, Hands, TypeOK, Submit, Signal, waiting, Goto, Threads, PCs,
       Locked, Holding, loopVars, ownVars

LEMMA OwnerType ==
    ASSUME TypeInv, CallStart \/ CallStop \/ OwnerStep
    PROVE  TypeInv'
<1> USE DEF TypeInv, Hands, TypeOK, Threads, PCs, Locked, Holding, OPCs, Goto,
            Advance, Call, Reap, queueVars, thrVars, loopVars, ownVars
<1>1. CASE CallStart
  <2>1. joining' \in BOOLEAN BY Zenon, <1>1 DEF CallStart
  <2>3. TypeOK' BY <1>1, <2>1 DEF CallStart
  <2>2. Hands' BY <1>1 DEF CallStart
  <2> QED BY <2>2, <2>3
<1>2. CASE CallStop BY <1>2 DEF CallStop
<1>3. CASE StartThread
  <2>1. TypeOK' BY <1>3 DEF StartThread
  <2>2. Hands' BY ZenonT(60), <1>3 DEF StartThread
  <2> QED BY <2>1, <2>2
<1>4. CASE StartJoin BY <1>4 DEF StartJoin
<1>5. CASE StartWait BY SMTT(30), SMTT(60), <1>5 DEF StartWait
<1>6. CASE StopThread BY <1>6 DEF StopThread
<1>7. CASE Broadcast BY <1>7 DEF Broadcast, waiting
<1>8. CASE WaitThread
  <2>1. TypeOK'
    <3>1. k' \in Threads /\ opc' \in OPCs BY <1>8 DEF WaitThread
    <3>2. pc' \in [Threads -> PCs]
          /\ state' \in [Threads -> {"STOPPED", "STARTING", "RUNNING", "DONE"}]
      BY ZenonT(60), <1>8 DEF WaitThread
    <3> QED BY <1>8, <3>1, <3>2 DEF WaitThread
  <2>2. Hands' BY ZenonT(60), <1>8 DEF WaitThread
  <2> QED BY <2>1, <2>2
<1> HIDE DEF TypeInv
<1> QED BY Zenon, <1>1, <1>2, <1>3, <1>4, <1>5, <1>6, <1>7, <1>8 DEF OwnerStep

LEMMA StutterType == ASSUME TypeInv, UNCHANGED vars PROVE TypeInv'
BY DEF TypeInv, Hands, TypeOK, vars, queueVars, thrVars, loopVars, ownVars

LEMMA TypeStep == TypeInv /\ [Next]_vars => TypeInv'
BY WorkerType, LoopType, SubmitType, OwnerType, StutterType DEF Next

\* Every reachable state is well typed; a thread holds a task exactly while
\* run() is between ready.pop() and completed.push().
THEOREM TypeCorrect == Spec => []TypeOK
<1>1. Spec => []TypeInv
  BY InitType, TypeStep, PTL DEF Spec
<1> QED BY <1>1, PTL DEF TypeInv
--------------------------------------------------------------------------------
(* The mutex.                                                              *)

MutexInv ==
    /\ \A w \in Threads : pc[w] \in Locked <=> mutex = w
    /\ lpc = "while" <=> mutex = Loop

LEMMA MutexStep == TypeInv /\ MutexInv /\ [Next]_vars => MutexInv'
<1> SUFFICES ASSUME TypeInv, MutexInv, [Next]_vars PROVE MutexInv'
  OBVIOUS
<1> USE DEF TypeInv, Hands, TypeOK, MutexInv, Threads, Locked, Goto, Nobody, Loop,
            queueVars, thrVars, loopVars, ownVars
<1>1. ASSUME NEW w \in Threads, WorkerStep(w) \/ Spurious(w) PROVE MutexInv'
  <2>1. CASE Starter(w) BY <2>1 DEF Starter
  <2>2. CASE Lock(w) BY <2>2 DEF Lock
  <2>3. CASE Test(w) BY <2>3 DEF Test
  <2>4. CASE Check(w)
    <3>1. CASE ready = {} BY <2>4, <3>1 DEF Check
    <3>2. CASE ready # {} BY SMTT(30), SMTT(60), <2>4, <3>2 DEF Check
    <3> QED BY <3>1, <3>2
  <2>5. CASE Recheck(w) BY <2>5 DEF Recheck
  <2>6. CASE Take(w) BY <2>6 DEF Take
  <2>7. CASE RunTask(w) BY <2>7 DEF RunTask
  <2>8. CASE Push(w)
    <3>1. pc'[w] \in Locked /\ \A v \in Threads \ {w} : pc'[v] = pc[v]
      BY <2>8 DEF Push
    <3> QED BY <2>8, <3>1 DEF Push
  <2>9. CASE Activate(w) BY <2>9 DEF Activate
  <2>10. CASE Decr(w) BY <2>10 DEF Decr
  <2>11. CASE Exit(w) BY <2>11 DEF Exit
  <2>12. CASE Done(w) BY <2>12 DEF Done
  <2>13. CASE Spurious(w) BY <2>13 DEF Spurious
  <2> QED BY <1>1, <2>1, <2>2, <2>3, <2>4, <2>5, <2>6, <2>7, <2>8, <2>9, <2>10,
             <2>11, <2>12, <2>13 DEF WorkerStep
<1>2. ASSUME NEW t \in Tasks, Submit(t) PROVE MutexInv'
  BY <1>2 DEF Submit, Signal, waiting
<1>3. CASE LoopStep
  BY <1>3 DEF LoopStep, Fire, LoopLock, Pop, Deliver, Complete
<1>4. CASE CallStart \/ CallStop BY Zenon, <1>4 DEF CallStart, CallStop, Call
<1>5. CASE OwnerStep
  <2>1. CASE StartThread BY <2>1 DEF StartThread
  <2>2. CASE StartJoin BY <2>2 DEF StartJoin
  <2>3. CASE StartWait BY <2>3 DEF StartWait, Reap
  <2>4. CASE StopThread BY <2>4 DEF StopThread
  <2>5. CASE Broadcast BY <2>5 DEF Broadcast, waiting
  <2>6. CASE WaitThread BY <2>6 DEF WaitThread, Reap
  <2> QED BY <1>5, <2>1, <2>2, <2>3, <2>4, <2>5, <2>6 DEF OwnerStep
<1>6. CASE UNCHANGED vars BY <1>6 DEF vars
<1> QED BY <1>1, <1>2, <1>3, <1>4, <1>5, <1>6 DEF Next

--------------------------------------------------------------------------------
(* Where each task is.                                                     *)

LEMMA PlacesFrame ==
    ASSUME EachTaskInOnePlace, ready' = ready, completed' = completed,
           done' = done, submitted' = submitted, Delivering' = Delivering,
           \A v \in Threads, t \in Tasks : Holds(v, t)' <=> Holds(v, t)
    PROVE  EachTaskInOnePlace'
<1>1. Held' = Held BY DEF Held
<1> HIDE DEF Held, Holds, Delivering
<1> QED BY <1>1 DEF EachTaskInOnePlace

LEMMA PlacesStep ==
    TypeInv /\ TypeInv' /\ EachTaskInOnePlace /\ [Next]_vars => EachTaskInOnePlace'
<1> SUFFICES ASSUME TypeInv, TypeInv', EachTaskInOnePlace, [Next]_vars
             PROVE  EachTaskInOnePlace'
  OBVIOUS
<1>1. ASSUME UNCHANGED <<ready, completed, done, submitted, lpc, cur, task>>,
             \A v \in Threads : pc'[v] \in Holding <=> pc[v] \in Holding
      PROVE  EachTaskInOnePlace'
  <2>1. Delivering' = Delivering BY <1>1 DEF Delivering
  <2>2. \A v \in Threads, t \in Tasks : Holds(v, t)' <=> Holds(v, t)
    BY <1>1 DEF Holds
  <2> QED BY <1>1, <2>1, <2>2, PlacesFrame
<1>2. ASSUME NEW w \in Threads, WorkerStep(w) \/ Spurious(w)
      PROVE  EachTaskInOnePlace'
  <2> USE DEF TypeInv, TypeOK, Hands, Goto, Holding, queueVars, loopVars
  <2>1. CASE Starter(w) BY <1>1, <2>1 DEF Starter
  <2>2. CASE Lock(w) BY <1>1, <2>2 DEF Lock
  <2>3. CASE Test(w) BY <1>1, <2>3 DEF Test
  <2>4. CASE Check(w) BY <1>1, <2>4 DEF Check
  <2>5. CASE Recheck(w) BY SMTT(30), SMTT(60), <1>1, <2>5 DEF Recheck
  <2>6. CASE Take(w)
    <3>1. PICK t \in ready : /\ task' = [task EXCEPT ![w] = t]
                             /\ ready' = ready \ {t}
      BY Zenon, <2>6 DEF Take, Tops
    <3>2. \A v \in Threads, u \in Tasks :
             Holds(v, u)' <=> IF v = w THEN u = t ELSE Holds(v, u)
      BY <2>6, <3>1 DEF Take, Holds
    <3>3. \A u \in Tasks : ~Holds(w, u) BY <2>6 DEF Take, Holds
    <3>4. Held' = Held \cup {t} BY <3>2, <3>3 DEF Held
    <3>5. Delivering' = Delivering BY SMTT(30), SMTT(60), <2>6 DEF Take, Delivering
    <3>6. t \notin Held BY DEF EachTaskInOnePlace
    <3>7. UNCHANGED <<completed, done, submitted>> BY <2>6 DEF Take
    <3>8. \A v \in Threads : ~Holds(v, t) BY <3>6 DEF Held
    <3> QED BY SMTT(30), SMTT(60), <3>1, <3>2, <3>4, <3>5, <3>6, <3>7, <3>8 DEF EachTaskInOnePlace
  <2>7. CASE RunTask(w) BY SMTT(30), SMTT(60), <1>1, <2>7 DEF RunTask
  <2>8. CASE Push(w)
    <3> DEFINE t == task[w]
    <3>1. t \in Tasks /\ Holds(w, t) BY SMTT(30), SMTT(60), <2>8 DEF Push, Holds
    <3>2. \A v \in Threads, u \in Tasks :
             Holds(v, u)' <=> v # w /\ Holds(v, u)
      BY SMTT(30), SMTT(60), <2>8 DEF Push, Holds
    <3>3. \A v \in Threads : Holds(v, t) => v = w
      BY <3>1 DEF EachTaskInOnePlace
    <3>4. \A u \in Tasks : Holds(w, u) => u = t BY DEF Holds
    <3>5. Held' = Held \ {t} BY <3>1, <3>2, <3>3, <3>4 DEF Held
    <3>6. t \in Held BY SMTT(30), SMTT(60), <3>1 DEF Held
    <3>7. Delivering' = Delivering BY <2>8 DEF Push, Delivering
    <3>8. completed' = completed \cup {t} /\ UNCHANGED <<ready, done, submitted>>
      BY SMTT(30), SMTT(60), <2>8 DEF Push
    <3> HIDE DEF t
    <3> QED BY SMTT(30), SMTT(60), <3>1, <3>2, <3>5, <3>6, <3>7, <3>8 DEF EachTaskInOnePlace
  <2>9. CASE Activate(w) BY SMTT(30), SMTT(60), <1>1, <2>9 DEF Activate
  <2>10. CASE Decr(w) BY SMTT(30), SMTT(60), <1>1, <2>10 DEF Decr
  <2>11. CASE Exit(w) BY SMTT(30), SMTT(60), <1>1, <2>11 DEF Exit
  <2>12. CASE Done(w) BY SMTT(30), SMTT(60), <1>1, <2>12 DEF Done
  <2>13. CASE Spurious(w) BY <1>1, <2>13 DEF Spurious
  <2> QED BY <1>2, <2>1, <2>2, <2>3, <2>4, <2>5, <2>6, <2>7, <2>8, <2>9, <2>10,
             <2>11, <2>12, <2>13 DEF WorkerStep
<1>3. ASSUME NEW t \in Tasks, Submit(t) PROVE EachTaskInOnePlace'
  <2>1. \A v \in Threads : pc'[v] \in Holding <=> pc[v] \in Holding
    BY SMTT(30), SMTT(60), <1>3 DEF Submit, Signal, waiting, Goto, Holding, TypeInv, TypeOK
  <2>2. \A v \in Threads, u \in Tasks : Holds(v, u)' <=> Holds(v, u)
    BY Zenon, <1>3, <2>1 DEF Submit, Holds
  <2>3. Held' = Held BY <2>2 DEF Held
  <2>4. Delivering' = Delivering BY <1>3 DEF Submit, Delivering, loopVars
  <2>5. t \notin submitted /\ submitted' = submitted \cup {t}
        /\ ready' = ready \cup {t} /\ UNCHANGED <<completed, done>>
    BY <1>3 DEF Submit, loopVars
  <2> QED BY SMTT(30), SMTT(60), <2>2, <2>3, <2>4, <2>5 DEF EachTaskInOnePlace
<1>4. CASE LoopStep
  <2>0. ASSUME pc' = pc, task' = task
        PROVE  (\A v \in Threads, u \in Tasks : Holds(v, u)' <=> Holds(v, u))
               /\ Held' = Held
    BY <2>0 DEF Holds, Held
  <2>1. CASE Fire \/ LoopLock \/ Deliver
    <3>1. Delivering' = Delivering
      BY <2>1 DEF Delivering, Fire, LoopLock, Deliver, TypeInv, Hands
    <3> QED BY <2>0, <2>1, <3>1, PlacesFrame
            DEF Fire, LoopLock, Deliver, thrVars, queueVars
  <2>2. CASE Pop /\ completed = {}
    <3>1. Delivering' = Delivering /\ completed' = completed
      BY <2>2 DEF Delivering, Pop, Tops, TypeInv, Hands
    <3> QED BY <2>0, <2>2, <3>1, PlacesFrame DEF Pop, thrVars
  <2>3. CASE Pop /\ completed # {}
    <3>1. PICK t \in completed : /\ cur' = t
                                 /\ completed' = completed \ {t}
                                 /\ lpc' = "deliver"
      BY <2>3 DEF Pop, Tops
    <3>2. Delivering = {} BY <2>3 DEF Delivering, Pop
    <3>3. t \in Tasks BY DEF TypeInv, TypeOK
    <3>4. Delivering' = {t} BY <3>1, <3>3 DEF Delivering
    <3>5. UNCHANGED <<ready, done, submitted, pc, task>> BY <2>3 DEF Pop, thrVars
    <3> QED BY <2>0, <3>1, <3>2, <3>4, <3>5 DEF EachTaskInOnePlace
  <2>4. CASE Complete
    <3>1. cur \in Tasks BY <2>4 DEF Complete, TypeInv, TypeOK, Hands
    <3>2. Delivering = {cur} BY <2>4, <3>1 DEF Complete, Delivering
    <3>3. Delivering' = {} BY <2>4 DEF Complete, Delivering
    <3>4. done' = done \cup {cur}
          /\ UNCHANGED <<ready, completed, submitted, pc, task>>
      BY <2>4 DEF Complete, thrVars, queueVars
    <3> QED BY SMTT(30), SMTT(60), <2>0, <3>1, <3>2, <3>3, <3>4 DEF EachTaskInOnePlace
  <2> QED BY <1>4, <2>1, <2>2, <2>3, <2>4 DEF LoopStep
<1> USE DEF TypeInv, Hands, TypeOK, Goto, Holding, Threads, queueVars, loopVars, thrVars
<1>5. CASE CallStart \/ CallStop BY SMTT(30), SMTT(60), <1>1, <1>5 DEF CallStart, CallStop, Call
<1>6. CASE OwnerStep
  <2>1. CASE StartThread BY SMTT(30), SMTT(60), <1>1, <2>1 DEF StartThread
  <2>2. CASE StartJoin BY SMTT(30), SMTT(60), <1>1, <2>2 DEF StartJoin
  <2>3. CASE StartWait BY SMTT(30), SMTT(60), <1>1, <2>3 DEF StartWait, Reap
  <2>4. CASE StopThread BY SMTT(30), SMTT(60), <1>1, <2>4 DEF StopThread
  <2>5. CASE Broadcast BY SMTT(30), SMTT(60), <1>1, <2>5 DEF Broadcast, waiting
  <2>6. CASE WaitThread BY <1>1, <2>6 DEF WaitThread, Reap
  <2> QED BY SMTT(30), SMTT(60), <1>6, <2>1, <2>2, <2>3, <2>4, <2>5, <2>6 DEF OwnerStep
<1>7. CASE UNCHANGED vars BY <1>1, <1>7 DEF vars
<1> QED BY SMTT(30), SMTT(60), <1>2, <1>3, <1>4, <1>5, <1>6, <1>7 DEF Next

\* No task is lost or handled twice by submit(), run() and complete(),
\* however their steps interleave with start(), stop() and join().
THEOREM PlacesCorrect == Spec => []EachTaskInOnePlace
<1>1. Init => EachTaskInOnePlace
  BY DEF Init, EachTaskInOnePlace, Held, Holds, Delivering, Holding
<1>2. Spec => [](TypeInv /\ EachTaskInOnePlace)
  BY <1>1, InitType, TypeStep, PlacesStep, PTL DEF Spec
<1> QED BY <1>2, PTL
--------------------------------------------------------------------------------
(* The event loop hears of every completed task.                           *)

LEMMA CompletionStep ==
    TypeInv /\ NoLostCompletion /\ [Next]_vars => NoLostCompletion'
<1> SUFFICES ASSUME TypeInv, NoLostCompletion, [Next]_vars PROVE NoLostCompletion'
  OBVIOUS
<1>1. ASSUME completed' = completed, pending' = pending, lpc' = lpc,
             \A v \in Threads : pc[v] = "activate" => pc'[v] = "activate"
      PROVE  NoLostCompletion'
  BY SMTT(30), SMTT(60), <1>1 DEF NoLostCompletion
<1> USE DEF TypeInv, Hands, TypeOK, Goto, Threads, queueVars, loopVars
<1>2. ASSUME NEW w \in Threads, WorkerStep(w) \/ Spurious(w)
      PROVE  NoLostCompletion'
  <2>1. CASE Starter(w) BY SMTT(30), SMTT(60), <1>1, <2>1 DEF Starter
  <2>2. CASE Lock(w) BY SMTT(30), SMTT(60), <1>1, <2>2 DEF Lock
  <2>3. CASE Test(w) BY SMTT(30), SMTT(60), <1>1, <2>3 DEF Test
  <2>4. CASE Check(w) BY SMTT(30), SMTT(60), <1>1, <2>4 DEF Check
  <2>5. CASE Recheck(w) BY SMTT(30), SMTT(60), <1>1, <2>5 DEF Recheck
  <2>6. CASE Take(w) BY SMTT(30), SMTT(60), <1>1, <2>6 DEF Take
  <2>7. CASE RunTask(w) BY <1>1, <2>7 DEF RunTask
  <2>8. CASE Push(w)
    <3>1. CASE pending BY SMTT(30), SMTT(60), <2>8, <3>1 DEF Push, NoLostCompletion
    <3>2. CASE ~pending
      <4>1. pc'[w] = "activate" BY SMTT(30), SMTT(60), <2>8, <3>2 DEF Push
      <4> QED BY <4>1 DEF NoLostCompletion
    <3> QED BY SMTT(30), SMTT(60), <3>1, <3>2
  <2>9. CASE Activate(w)
    <3>1. pending' = TRUE BY <2>9 DEF Activate
    <3> QED BY SMTT(30), SMTT(60), <3>1 DEF NoLostCompletion
  <2>10. CASE Decr(w) BY SMTT(30), SMTT(60), <1>1, <2>10 DEF Decr
  <2>11. CASE Exit(w) BY SMTT(30), SMTT(60), <1>1, <2>11 DEF Exit
  <2>12. CASE Done(w) BY SMTT(30), SMTT(60), <1>1, <2>12 DEF Done
  <2>13. CASE Spurious(w) BY <1>1, <2>13 DEF Spurious
  <2> QED BY SMTT(30), SMTT(60), <1>2, <2>1, <2>2, <2>3, <2>4, <2>5, <2>6, <2>7, <2>8, <2>9, <2>10,
             <2>11, <2>12, <2>13 DEF WorkerStep
<1>3. ASSUME NEW t \in Tasks, Submit(t) PROVE NoLostCompletion'
  BY <1>1, <1>3 DEF Submit, Signal, waiting
<1>4. CASE LoopStep
  <2>1. CASE lpc' # "dispatch" BY SMTT(30), SMTT(60), <2>1 DEF NoLostCompletion
  <2>2. CASE lpc' = "dispatch"
    BY SMTT(30), SMTT(60), <1>4, <2>2 DEF LoopStep, Fire, LoopLock, Pop, Deliver, Complete,
                      NoLostCompletion
  <2> QED BY <2>1, <2>2
<1>5. CASE CallStart \/ CallStop BY <1>1, <1>5 DEF CallStart, CallStop, thrVars
<1>6. CASE OwnerStep
  <2>1. CASE StartThread BY SMTT(30), SMTT(60), <1>1, <2>1 DEF StartThread
  <2>2. CASE StartJoin BY SMTT(30), SMTT(60), <1>1, <2>2 DEF StartJoin
  <2>3. CASE StartWait BY SMTT(30), SMTT(60), <1>1, <2>3 DEF StartWait, Reap
  <2>4. CASE StopThread BY SMTT(30), SMTT(60), <1>1, <2>4 DEF StopThread
  <2>5. CASE Broadcast BY SMTT(30), SMTT(60), <1>1, <2>5 DEF Broadcast, waiting
  <2>6. CASE WaitThread BY <1>1, <2>6 DEF WaitThread, Reap
  <2> QED BY SMTT(30), SMTT(60), <1>6, <2>1, <2>2, <2>3, <2>4, <2>5, <2>6 DEF OwnerStep
<1>7. CASE UNCHANGED vars BY <1>1, <1>7 DEF vars, thrVars
<1> QED BY <1>2, <1>3, <1>4, <1>5, <1>6, <1>7 DEF Next

\* run() may leave event->activate() out when the event is pending: complete()
\* still gets to every task in the completed queue.
THEOREM CompletionCorrect == Spec => []NoLostCompletion
<1>1. Init => NoLostCompletion BY DEF Init, NoLostCompletion
<1>2. Spec => [](TypeInv /\ NoLostCompletion)
  BY <1>1, InitType, TypeStep, CompletionStep, PTL DEF Spec
<1> QED BY <1>2, PTL

--------------------------------------------------------------------------------
(* Waking up.  A thread between its test of shutdown and wait() holds the  *)
(* mutex, so that the broadcast of stop() comes after it has gone to sleep;*)
(* start() finds only threads that are stopped or were told to stop.       *)

WakeInv ==
    /\ \A w \in Threads : pc[w] \in {"check", "waiting"} /\ shutdown[w]
                           => opc \in {"stop", "broadcast"}
    /\ opc \in {"start", "startWait"} =>
          \A w \in Threads : w >= k => shutdown[w] \/ state[w] = "STOPPED"
    /\ opc = "startWait" => shutdown[k]

Awake(w) == pc[w] \notin {"none", "waiting", "exit", "done", "gone"} /\ ~shutdown[w]

Inductive == TypeInv /\ MutexInv /\ WakeInv /\ NoLostWakeup

LEMMA WakeWorker ==
    ASSUME Inductive, ~RestartRunning, NEW w \in Threads, WorkerStep(w) \/ Spurious(w)
    PROVE  WakeInv'
<1> USE DEF Inductive, TypeInv, TypeOK, Hands, WakeInv, Goto, queueVars, loopVars,
            ownVars
<1>1. CASE Starter(w) BY SMTT(30), SMTT(60), <1>1 DEF Starter
<1>2. CASE Lock(w) BY SMTT(30), SMTT(60), <1>2 DEF Lock
<1>3. CASE Test(w) BY SMTT(30), SMTT(60), <1>3 DEF Test
<1>4. CASE Check(w) BY SMTT(30), SMTT(60), <1>4 DEF Check
<1>5. CASE Recheck(w) BY SMTT(30), SMTT(60), <1>5 DEF Recheck
<1>6. CASE Take(w) BY SMTT(30), SMTT(60), <1>6 DEF Take
<1>7. CASE RunTask(w) BY SMTT(30), SMTT(60), <1>7 DEF RunTask
<1>8. CASE Push(w) BY SMTT(30), SMTT(60), <1>8 DEF Push
<1>9. CASE Activate(w) BY SMTT(30), SMTT(60), <1>9 DEF Activate
<1>10. CASE Decr(w) BY SMTT(30), SMTT(60), <1>10 DEF Decr
<1>11. CASE Exit(w) BY SMTT(30), SMTT(60), <1>11 DEF Exit
<1>12. CASE Done(w) BY SMTT(30), SMTT(60), <1>12 DEF Done
<1>13. CASE Spurious(w) BY <1>13 DEF Spurious
<1> QED BY ZenonT(60), <1>1, <1>2, <1>3, <1>4, <1>5, <1>6, <1>7, <1>8, <1>9, <1>10, <1>11,
           <1>12, <1>13 DEF WorkerStep
LEMMA WakeOwner ==
    ASSUME Inductive, ~RestartRunning, CallStart \/ CallStop \/ OwnerStep
    PROVE  WakeInv'
<1> USE DEF Inductive, TypeInv, TypeOK, Hands, WakeInv, Goto, Threads, queueVars,
            thrVars, loopVars
<1>1. CASE CallStart BY SMTT(30), SMTT(60), <1>1 DEF CallStart, Call, MutexInv
<1>2. CASE CallStop BY SMTT(30), SMTT(60), <1>2 DEF CallStop, Call
<1>3. CASE StartThread BY SMTT(30), SMTT(60), <1>3 DEF StartThread, Advance
<1>4. CASE StartJoin BY SMTT(30), SMTT(60), <1>4 DEF StartJoin
<1>5. CASE StartWait BY SMTT(30), SMTT(60), <1>5 DEF StartWait, Reap
<1>6. CASE StopThread BY SMTT(30), SMTT(60), <1>6 DEF StopThread, Advance
<1>7. CASE Broadcast
  <2>1. \A w \in Threads : pc'[w] \notin {"check", "waiting"}
    BY SMTT(30), SMTT(60), <1>7 DEF Broadcast, waiting, MutexInv, Locked, Nobody
  <2> QED BY <1>7, <2>1 DEF Broadcast
<1>8. CASE WaitThread BY ZenonT(60), <1>8 DEF WaitThread, Reap, Advance
<1> QED BY ZenonT(60), <1>1, <1>2, <1>3, <1>4, <1>5, <1>6, <1>7, <1>8 DEF OwnerStep

LEMMA WakeOther ==
    ASSUME Inductive,
           (\E t \in Tasks : Submit(t)) \/ LoopStep \/ UNCHANGED vars
    PROVE  WakeInv' /\ NoLostWakeup'
<1> USE DEF Inductive, TypeInv, TypeOK, WakeInv, NoLostWakeup, waiting, thrVars,
            ownVars, queueVars
<1>1. ASSUME NEW t \in Tasks, Submit(t) PROVE WakeInv' /\ NoLostWakeup'
  <2>1. CASE waiting = {} BY ZenonT(60), <1>1, <2>1 DEF Submit, Signal
  <2>2. CASE waiting # {}
    <3>1. PICK w \in waiting : pc' = [pc EXCEPT ![w] = "woken"]
      BY SMTT(30), SMTT(60), <1>1, <2>2 DEF Submit, Signal, Goto
    <3>2. UNCHANGED <<shutdown, opc, k, state>> BY SMTT(30), SMTT(60), <1>1 DEF Submit
    <3>3. WakeInv' BY SMTT(30), SMTT(60), <3>1, <3>2
    <3>4. opc \in {"stop", "broadcast"} \/ ~shutdown[w] BY <3>1
    <3>5. NoLostWakeup' BY SMTT(30), SMTT(60), <3>1, <3>2, <3>4
    <3> QED BY <3>3, <3>5
  <2> QED BY SMTT(30), SMTT(60), <2>1, <2>2
<1>2. CASE LoopStep
  BY ZenonT(60), <1>2 DEF LoopStep, Fire, LoopLock, Pop, Deliver, Complete
<1>3. CASE UNCHANGED vars BY <1>3 DEF vars
<1> QED BY ZenonT(60), <1>1, <1>2, <1>3

LEMMA AwakeWorker ==
    ASSUME Inductive, NEW w \in Threads, WorkerStep(w) \/ Spurious(w)
    PROVE  NoLostWakeup'
<1> USE DEF Inductive, TypeInv, TypeOK, Goto, queueVars, ownVars, waiting
<1>1. ASSUME \A v \in Threads \ {w} : pc'[v] = pc[v],
             shutdown' = shutdown, opc' = opc, ready' \subseteq ready,
             pc'[w] # "waiting", Awake(w) => Awake(w)'
      PROVE  NoLostWakeup'
  BY ZenonT(60), <1>1 DEF NoLostWakeup, Awake
<1>2. CASE Starter(w) BY ZenonT(60), <1>1, <1>2 DEF Starter, Awake
<1>3. CASE Lock(w) BY ZenonT(60), <1>1, <1>3 DEF Lock, Awake
<1>4. CASE Test(w) BY <1>1, <1>4 DEF Test, Awake
<1>5. CASE Check(w)
  <2>1. CASE ready = {} BY ZenonT(60), <1>5, <2>1 DEF Check, NoLostWakeup
  <2>2. CASE ready # {} BY ZenonT(60), <1>1, <1>5, <2>2 DEF Check, Awake
  <2> QED BY ZenonT(60), <2>1, <2>2
<1>6. CASE Recheck(w) BY ZenonT(60), <1>1, <1>6 DEF Recheck, Awake
<1>7. CASE Take(w) BY ZenonT(60), <1>1, <1>7 DEF Take, Awake
<1>8. CASE RunTask(w) BY ZenonT(60), <1>1, <1>8 DEF RunTask, Awake
<1>9. CASE Push(w) BY SMTT(30), SMTT(60), <1>1, <1>9 DEF Push, Awake
<1>10. CASE Activate(w) BY ZenonT(60), <1>1, <1>10 DEF Activate, Awake
<1>11. CASE Decr(w) BY SMTT(30), SMTT(60), <1>1, <1>11 DEF Decr, Awake
<1>12. CASE Exit(w) BY SMTT(30), SMTT(60), <1>1, <1>12 DEF Exit, Awake
<1>13. CASE Done(w) BY ZenonT(60), <1>1, <1>13 DEF Done, Awake
<1>14. CASE Spurious(w) BY <1>1, <1>14 DEF Spurious, Awake
<1> QED BY ZenonT(60), <1>2, <1>3, <1>4, <1>5, <1>6, <1>7, <1>8, <1>9, <1>10, <1>11, <1>12,
           <1>13, <1>14 DEF WorkerStep

LEMMA AwakeOwner ==
    ASSUME Inductive, ~RestartRunning, CallStart \/ CallStop \/ OwnerStep
    PROVE  NoLostWakeup'
<1> USE DEF Inductive, TypeInv, TypeOK, Hands, Threads, Goto, queueVars, thrVars, waiting
<1>1. ASSUME ready' = ready, opc' \in {"stop", "broadcast"} \/ opc \notin {"stop", "broadcast"},
             \A v \in Threads : pc'[v] = "waiting" => pc[v] = "waiting",
             \A v \in Threads : Awake(v) => Awake(v)' \/ opc' \in {"stop", "broadcast"}
      PROVE  NoLostWakeup'
  BY SMTT(30), SMTT(60), <1>1 DEF NoLostWakeup, Awake
<1>2. CASE CallStart BY SMTT(30), SMTT(60), <1>1, <1>2 DEF CallStart, Call, Awake
<1>3. CASE CallStop BY SMTT(30), SMTT(60), <1>1, <1>3 DEF CallStop, Call, Awake
<1>4. CASE StartThread BY SMTT(30), SMTT(60), <1>1, <1>4 DEF StartThread, Advance, Awake
<1>5. CASE StartJoin
  <2>1. shutdown[k] BY SMTT(30), SMTT(60), <1>5 DEF StartJoin, WakeInv
  <2>2. \A v \in Threads : shutdown'[v] <=> shutdown[v] BY <1>5, <2>1 DEF StartJoin
  <2> QED BY SMTT(30), SMTT(60), <1>1, <1>5, <2>2 DEF StartJoin, Awake
<1>6. CASE StartWait BY SMTT(30), SMTT(60), <1>1, <1>6 DEF StartWait, Reap, Awake
<1>7. CASE StopThread BY SMTT(30), SMTT(60), <1>1, <1>7 DEF StopThread, Advance, Awake
<1>8. CASE Broadcast
  <2>1. \A v \in Threads : pc'[v] # "waiting" BY <1>8 DEF Broadcast
  <2> QED BY SMTT(30), SMTT(60), <2>1 DEF NoLostWakeup
<1>9. CASE WaitThread BY <1>1, <1>9 DEF WaitThread, Reap, Advance, Awake
<1> QED BY SMTT(30), SMTT(60), <1>2, <1>3, <1>4, <1>5, <1>6, <1>7, <1>8, <1>9 DEF OwnerStep

\* stop() leaves no thread asleep and submit() no task unattended, provided
\* start() is only called on a pool that is stopped or was told to stop.
THEOREM WakeupCorrect ==
    ASSUME ~RestartRunning
    PROVE  Spec => [](StopWakesWaiters /\ NoLostWakeup)
<1>1. Init => Inductive
  <2> SUFFICES ASSUME Init PROVE Inductive OBVIOUS
  <2>1. TypeInv BY InitType
  <2>2. MutexInv BY SMTT(30), SMTT(60) DEF Init, MutexInv, Threads, Locked, Nobody, Loop
  <2>3. WakeInv /\ NoLostWakeup BY DEF Init, WakeInv, NoLostWakeup
  <2> QED BY <2>1, <2>2, <2>3 DEF Inductive
<1>2. Inductive /\ [Next]_vars => Inductive'
  <2> SUFFICES ASSUME Inductive, [Next]_vars PROVE Inductive' OBVIOUS
  <2>1. TypeInv' /\ MutexInv' BY TypeStep, MutexStep DEF Inductive
  <2>2. WakeInv' BY WakeWorker, WakeOwner, WakeOther DEF Next
  <2>3. NoLostWakeup' BY AwakeWorker, AwakeOwner, WakeOther DEF Next
  <2> QED BY <2>1, <2>2, <2>3 DEF Inductive
<1>3. Inductive => StopWakesWaiters /\ NoLostWakeup
  BY DEF Inductive, WakeInv, StopWakesWaiters, waiting
<1> QED BY <1>1, <1>2, <1>3, PTL DEF Spec
--------------------------------------------------------------------------------
(* join() and the outcome of a task.                                       *)

Reaped == /\ opc = "wait" => \A w \in Threads : w < k => pc[w] = "none"
          /\ opc = "broadcast" => k = 1

LEMMA ReapedStep == TypeInv /\ Reaped /\ [Next]_vars => Reaped'
<1> SUFFICES ASSUME TypeInv, Reaped, [Next]_vars PROVE Reaped'
  OBVIOUS
<1> USE DEF TypeInv, Hands, TypeOK, Reaped, Goto, Threads, ownVars, thrVars
<1>1. ASSUME opc' = opc, k' = k, \A v \in Threads : pc[v] = "none" => pc'[v] = "none"
      PROVE  Reaped'
  BY SMTT(30), SMTT(60), <1>1
<1>2. ASSUME NEW w \in Threads, WorkerStep(w) \/ Spurious(w) PROVE Reaped'
  <2>1. opc' = opc /\ k' = k
    BY ZenonT(60), <1>2 DEF WorkerStep, Starter, Lock, Test, Check, Recheck, Take, RunTask, Push,
                Activate, Decr, Exit, Done, Spurious
  <2>2. pc[w] # "none" /\ \A v \in Threads \ {w} : pc'[v] = pc[v]
    BY ZenonT(60), <1>2 DEF WorkerStep, Starter, Lock, Test, Check, Recheck, Take, RunTask, Push,
                Activate, Decr, Exit, Done, Spurious
  <2> QED BY SMTT(30), SMTT(60), <1>1, <2>1, <2>2
<1>3. ASSUME NEW t \in Tasks, Submit(t) PROVE Reaped'
  BY ZenonT(60), <1>1, <1>3 DEF Submit, Signal, waiting
<1>4. CASE LoopStep
  BY SMTT(30), SMTT(60), <1>1, <1>4 DEF LoopStep, Fire, LoopLock, Pop, Deliver, Complete
<1>5. CASE CallStart \/ CallStop BY SMTT(30), SMTT(60), <1>5 DEF CallStart, CallStop, Call
<1>6. CASE OwnerStep
  <2>1. CASE StartThread BY SMTT(30), SMTT(60), <2>1 DEF StartThread, Advance
  <2>2. CASE StartJoin BY SMTT(30), SMTT(60), <2>2 DEF StartJoin
  <2>3. CASE StartWait BY SMTT(30), SMTT(60), <2>3 DEF StartWait
  <2>4. CASE StopThread BY SMTT(30), SMTT(60), <2>4 DEF StopThread, Advance
  <2>5. CASE Broadcast BY SMTT(30), SMTT(60), <2>5 DEF Broadcast
  <2>6. CASE WaitThread BY <2>6 DEF WaitThread, Reap, Advance
  <2> QED BY SMTT(30), SMTT(60), <1>6, <2>1, <2>2, <2>3, <2>4, <2>5, <2>6 DEF OwnerStep
<1>7. CASE UNCHANGED vars BY <1>1, <1>7 DEF vars
<1> QED BY SMTT(30), SMTT(60), <1>2, <1>3, <1>4, <1>5, <1>6, <1>7 DEF Next
\* When join() returns every pool thread is gone.
THEOREM JoinCorrect == Spec => JoinEndsThreads
<1>1. Init => Reaped BY DEF Init, Reaped
<1>2. TypeInv /\ Reaped /\ [Next]_vars =>
         [opc = "wait" /\ opc' = "idle" => \A w \in Threads : pc'[w] = "none"]_vars
  <2> SUFFICES ASSUME TypeInv, Reaped, Next, opc = "wait", opc' = "idle",
                      NEW w \in Threads
               PROVE  pc'[w] = "none"
    BY SMTT(30), SMTT(60)
  <2>1. WaitThread
    BY ZenonT(60) DEF Next, WorkerStep, Starter, Lock, Test, Check, Recheck, Take, RunTask, Push,
           Activate, Decr, Exit, Done, Spurious, Submit, LoopStep, Fire, LoopLock,
           Pop, Deliver, Complete, CallStart, CallStop, Call, OwnerStep, StartThread,
           StartJoin, StartWait, StopThread, Broadcast, ownVars
  <2>2. k = N BY SMTT(30), SMTT(60), <2>1 DEF WaitThread, Advance, TypeInv, TypeOK, Threads
  <2>3. pc'[k] = "none" /\ \A v \in Threads \ {k} : pc'[v] = pc[v]
    BY SMTT(30), SMTT(60), <2>1 DEF WaitThread, Reap, Goto, TypeInv, TypeOK, Hands
  <2> QED BY <2>2, <2>3 DEF Reaped, Threads
<1> QED BY <1>1, <1>2, InitType, TypeStep, ReapedStep, PTL DEF Spec, JoinEndsThreads

LEMMA FailedStep ==
    ASSUME TypeInv, Next
    PROVE  failed' = failed \/ \E w \in Threads : RunTask(w)
BY ZenonT(60) DEF Next, WorkerStep, Starter, Lock, Test, Check, Recheck, Take, Push,
       Activate, Decr, Exit, Done, Spurious, Submit, LoopStep, Fire, LoopLock,
       Pop, Deliver, Complete, CallStart, CallStop, OwnerStep, StartThread,
       StartJoin, StartWait, StopThread, Broadcast, WaitThread

LEMMA DoneStep == ASSUME Next PROVE done' = done \/ Complete
BY ZenonT(60) DEF Next, WorkerStep, Starter, Lock, Test, Check, Recheck, Take, RunTask, Push,
       Activate, Decr, Exit, Done, Spurious, Submit, LoopStep, Fire, LoopLock,
       Pop, Deliver, CallStart, CallStop, OwnerStep, StartThread,
       StartJoin, StartWait, StopThread, Broadcast, WaitThread, loopVars

\* complete() reads getFailed() without the mutex, after run() is over:
\* what it reads can no longer change.
THEOREM OutcomeCorrect == Spec => OutcomeSettled
<1>1. Init => EachTaskInOnePlace
  BY DEF Init, EachTaskInOnePlace, Held, Holds, Delivering, Holding
<1>2. TypeInv /\ EachTaskInOnePlace /\ [Next]_vars =>
        [/\ done \subseteq done'
         /\ \A t \in completed \cup Delivering \cup done : t \in failed' <=> t \in failed]_vars
  <2> SUFFICES ASSUME TypeInv, EachTaskInOnePlace, Next
               PROVE  /\ done \subseteq done'
                      /\ \A t \in completed \cup Delivering \cup done :
                            t \in failed' <=> t \in failed
    OBVIOUS
  <2>1. done \subseteq done' BY ZenonT(60), DoneStep DEF Complete
  <2>2. ASSUME NEW w \in Threads, RunTask(w),
               NEW t \in completed \cup Delivering \cup done
        PROVE  t \in failed' <=> t \in failed
    <3>1. task[w] \in Held
      BY ZenonT(60), <2>2 DEF RunTask, Held, Holds, Holding, TypeInv, TypeOK, Hands
    <3>2. t # task[w] BY <2>2, <3>1 DEF EachTaskInOnePlace
    <3> QED BY ZenonT(60), <2>2, <3>2 DEF RunTask
  <2> QED BY <2>1, <2>2, FailedStep
<1> QED BY <1>1, <1>2, InitType, TypeStep, PlacesStep, PTL DEF Spec, OutcomeSettled

--------------------------------------------------------------------------------
(* ConcurrentPool implements TaskService: each step of a thread, of the    *)
(* event loop or of the owner moves one task on in the abstract service,   *)
(* or changes nothing there.                                               *)

\* What Status tells apart, and nothing else, decides the abstract state.
LEMMA StatusFrame ==
    ASSUME submitted' = submitted, ready' = ready, done' = done,
           \A t \in Tasks : Running(t)' <=> Running(t),
           \A t \in Tasks : Reported(t)' <=> Reported(t)
    PROVE  Status' = Status
BY DEF Status

\* Under EachTaskInOnePlace at most one arm of Status applies.
LEMMA StatusIs ==
    ASSUME TypeInv, EachTaskInOnePlace, NEW t \in Tasks
    PROVE  /\ Status[t] = "new" <=> t \notin submitted
           /\ Status[t] = "queued" <=> t \in ready
           /\ Status[t] = "running" <=> Running(t)
           /\ Status[t] = "reported" <=> Reported(t)
           /\ Status[t] = "completed" <=> t \in done
<1>1. Running(t) => t \in Held BY DEF Running, Held, Holds, Holding
<1>2. Reported(t) => t \in Delivering BY DEF Reported, Delivering
<1> QED BY <1>1, <1>2 DEF Status, EachTaskInOnePlace

LEMMA RunningFrame ==
    ASSUME TypeInv, task' = task,
           \A v \in Threads : pc'[v] = "run" <=> pc[v] = "run"
    PROVE  \A t \in Tasks : Running(t)' <=> Running(t)
BY DEF Running

AbsStep == Service!ANext \/ UNCHANGED Service!avars

LEMMA AbsStutter == ASSUME Status' = Status, failed' = failed PROVE AbsStep
BY DEF AbsStep, Service!avars

LEMMA SubmitRefines ==
    ASSUME TypeInv, EachTaskInOnePlace, NEW t \in Tasks, Submit(t)
    PROVE  AbsStep
<1>1. \A u \in Tasks : Running(u)' <=> Running(u)
  BY DEF Submit, Signal, waiting, Goto, Running, TypeInv, TypeOK
<1>2. \A u \in Tasks : Reported(u)' <=> Reported(u)
  BY DEF Submit, Reported, loopVars
<1>3. /\ t \notin submitted /\ submitted' = submitted \cup {t}
      /\ ready' = ready \cup {t} /\ done' = done /\ failed' = failed
  BY ZenonT(60) DEF Submit, loopVars
<1>4. t \notin done /\ ~Running(t) /\ ~Reported(t)
  BY ZenonT(60), <1>3 DEF EachTaskInOnePlace, Running, Reported, Held, Holds, Holding, Delivering
<1>5. Status'[t] = "queued" BY <1>1, <1>2, <1>3, <1>4 DEF Status
<1>6. \A u \in Tasks \ {t} : Status'[u] = Status[u]
  BY <1>1, <1>2, <1>3 DEF Status
<1>7. Status' = [Status EXCEPT ![t] = "queued"] BY Zenon, <1>5, <1>6 DEF Status
<1>8. Status[t] = "new" BY <1>3, StatusIs
<1>9. Service!ASubmit(t) BY <1>3, <1>7, <1>8 DEF Service!ASubmit, Service!Move
<1> QED BY SMTT(30), SMTT(60), <1>9 DEF AbsStep, Service!ANext

LEMMA LoopRefines ==
    ASSUME TypeInv, EachTaskInOnePlace, LoopStep
    PROVE  AbsStep
<1>0. \A u \in Tasks : Running(u)' <=> Running(u)
  BY DEF LoopStep, Fire, LoopLock, Pop, Deliver, Complete, thrVars, Running
<1>1. CASE Fire \/ LoopLock \/ Pop
  <2>1. \A u \in Tasks : ~Reported(u)' /\ ~Reported(u)
    BY SMTT(30), SMTT(60), <1>1 DEF Fire, LoopLock, Pop, Reported
  <2>2. UNCHANGED <<submitted, ready, done, failed>>
    BY <1>1 DEF Fire, LoopLock, Pop, queueVars
  <2> QED BY SMTT(30), SMTT(60), <1>0, <2>1, <2>2, StatusFrame, AbsStutter
<1>2. CASE Deliver
  <2>1. cur \in Tasks BY <1>2 DEF Deliver, TypeInv, TypeOK, Hands
  <2>2. UNCHANGED <<submitted, ready, done, failed, cur>>
    BY <1>2 DEF Deliver, queueVars
  <2>3. cur \in Delivering BY ZenonT(60), <1>2, <2>1 DEF Deliver, Delivering
  <2>4. cur \in submitted /\ cur \notin ready /\ cur \notin done /\ ~Running(cur)
    BY <2>1, <2>3 DEF EachTaskInOnePlace, Running, Held, Holds, Holding
  <2>5. \A u \in Tasks : ~Reported(u) BY <1>2 DEF Deliver, Reported
  <2>6. \A u \in Tasks : Reported(u)' <=> u = cur BY <1>2, <2>2 DEF Deliver, Reported
  <2>7. Status'[cur] = "reported" /\ Status[cur] = "finished"
    BY <1>0, <2>1, <2>2, <2>4, <2>5, <2>6 DEF Status
  <2>8. \A u \in Tasks \ {cur} : Status'[u] = Status[u]
    BY <1>0, <2>2, <2>5, <2>6 DEF Status
  <2>9. Status' = [Status EXCEPT ![cur] = "reported"] BY Zenon, <2>1, <2>7, <2>8 DEF Status
  <2>10. \A u \in Tasks : Status[u] # "reported" BY <2>5, StatusIs
  <2>11. Service!At("reported") = {} BY <2>10 DEF Service!At
  <2>12. Service!AReport(cur)
    BY <2>2, <2>7, <2>9, <2>11 DEF Service!AReport, Service!Move
  <2> QED BY SMTT(30), SMTT(60), <2>1, <2>12 DEF AbsStep, Service!ANext
<1>3. CASE Complete
  <2>1. cur \in Tasks BY <1>3 DEF Complete, TypeInv, TypeOK, Hands
  <2>2. UNCHANGED <<submitted, ready, failed>> /\ done' = done \cup {cur}
    BY <1>3 DEF Complete, queueVars
  <2>3. cur \in Delivering BY ZenonT(60), <1>3, <2>1 DEF Complete, Delivering
  <2>4. cur \in submitted /\ cur \notin ready /\ ~Running(cur)
    BY <2>1, <2>3 DEF EachTaskInOnePlace, Running, Held, Holds, Holding
  <2>5. \A u \in Tasks : ~Reported(u)' BY <1>3 DEF Complete, Reported
  <2>6. \A u \in Tasks : Reported(u) <=> u = cur BY <1>3 DEF Complete, Reported
  <2>7. Status'[cur] = "completed"
    BY <1>0, <2>1, <2>2, <2>4, <2>5 DEF Status
  <2>8. \A u \in Tasks \ {cur} : Status'[u] = Status[u]
    BY <1>0, <2>2, <2>5, <2>6 DEF Status
  <2>9. Status' = [Status EXCEPT ![cur] = "completed"] BY ZenonT(60), <2>1, <2>7, <2>8 DEF Status
  <2>10. Status[cur] = "reported" BY <2>1, <2>6, StatusIs
  <2>11. Service!AComplete(cur)
    BY ZenonT(60), <2>2, <2>9, <2>10 DEF Service!AComplete, Service!Move
  <2> QED BY ZenonT(60), <2>1, <2>11 DEF AbsStep, Service!ANext
<1> QED BY ZenonT(60), <1>1, <1>2, <1>3 DEF LoopStep

LEMMA OwnerRefines ==
    ASSUME TypeInv, CallStart \/ CallStop \/ OwnerStep
    PROVE  AbsStep
<1> USE DEF TypeInv, TypeOK, Hands, Threads, Goto, queueVars, thrVars, loopVars
<1>1. UNCHANGED <<submitted, ready, done, failed, lpc, cur, task>>
  BY ZenonT(60) DEF CallStart, CallStop, OwnerStep, StartThread, StartJoin, StartWait,
         StopThread, Broadcast, WaitThread
<1>2. \A v \in Threads : pc'[v] = "run" <=> pc[v] = "run"
  <2>1. CASE CallStart \/ CallStop BY ZenonT(60), <2>1 DEF CallStart, CallStop
  <2>2. CASE StartThread BY ZenonT(60), <2>2 DEF StartThread
  <2>3. CASE StartJoin \/ StopThread BY ZenonT(60), <2>3 DEF StartJoin, StopThread
  <2>4. CASE StartWait BY ZenonT(60), <2>4 DEF StartWait, Reap
  <2>5. CASE Broadcast BY ZenonT(60), <2>5 DEF Broadcast, waiting
  <2>6. CASE WaitThread BY ZenonT(60), <2>6 DEF WaitThread, Reap
  <2> QED BY ZenonT(60), <2>1, <2>2, <2>3, <2>4, <2>5, <2>6 DEF OwnerStep
<1>3. \A u \in Tasks : Running(u)' <=> Running(u) BY SMTT(30), SMTT(60), <1>1, <1>2, RunningFrame
<1>4. \A u \in Tasks : Reported(u)' <=> Reported(u) BY <1>1 DEF Reported
<1> QED BY <1>1, <1>3, <1>4, StatusFrame, AbsStutter

\* TaskService brings its own copy of Cardinality.
LEMMA SameCardinality == ASSUME NEW S PROVE Service!Cardinality(S) = Cardinality(S)
BY SMTT(30), SMTT(60) DEF Service!Cardinality, Cardinality

\* A worker's step is a step of the service, or none, when the pool does not run
\* more tasks than it has threads.
LEMMA WorkerRefines ==
    ASSUME TypeInv, TypeInv', EachTaskInOnePlace, EachTaskInOnePlace',
           NEW w \in Threads, WorkerStep(w) \/ Spurious(w),
           pc[w] # "run" => Cardinality({t \in Tasks : Running(t)}) < N
    PROVE  AbsStep
<1> USE DEF TypeInv, TypeOK, Goto, queueVars, loopVars
<1>1. ASSUME UNCHANGED <<submitted, ready, done, lpc, cur, failed, task>>,
             \A v \in Threads : pc'[v] = "run" <=> pc[v] = "run"
      PROVE  AbsStep
  <2>1. \A t \in Tasks : Running(t)' <=> Running(t) BY ZenonT(60), <1>1, RunningFrame
  <2>2. \A t \in Tasks : Reported(t)' <=> Reported(t) BY ZenonT(60), <1>1 DEF Reported
  <2>3. Status' = Status BY <1>1, <2>1, <2>2, StatusFrame
  <2> QED BY SMTT(30), SMTT(60), <1>1, <2>3, AbsStutter
<1>2. CASE Starter(w) BY ZenonT(60), <1>1, <1>2 DEF Starter
<1>3. CASE Lock(w) BY ZenonT(60), <1>1, <1>3 DEF Lock
<1>4. CASE Test(w) BY ZenonT(60), <1>1, <1>4 DEF Test
<1>5. CASE Check(w) BY ZenonT(60), <1>1, <1>5 DEF Check
<1>6. CASE Recheck(w) BY ZenonT(60), <1>1, <1>6 DEF Recheck
<1>7. CASE Take(w)
  <2>1. PICK t \in Tops(ready) : /\ task' = [task EXCEPT ![w] = t]
                                 /\ ready' = ready \ {t}
    BY ZenonT(60), <1>7 DEF Take
  <2>2. t \in ready /\ t \in Tasks BY SMTT(30), SMTT(60), <2>1 DEF Tops
  <2>3. \A u \in Tasks : Running(u)' <=> Running(u) \/ u = t
    BY ZenonT(60), <1>7, <2>1, <2>2 DEF Take, Running
  <2>4. \A u \in Tasks : Reported(u)' <=> Reported(u)
    BY Zenon, <1>7 DEF Take, Reported
  <2>5. Status' = [Status EXCEPT ![t] = "running"]
    <3>1. t \in submitted /\ t \notin done /\ ~Reported(t)
      BY Zenon, <2>2 DEF EachTaskInOnePlace, Reported, Delivering
    <3>2. submitted' = submitted /\ done' = done BY Zenon, <1>7 DEF Take
    <3>3. Status'[t] = "running"
      BY SMTT(30), SMTT(60), <2>1, <2>2, <2>3, <2>4, <3>1, <3>2 DEF Status
    <3>4. \A u \in Tasks \ {t} : Status'[u] = Status[u]
      BY <2>1, <2>3, <2>4, <3>2 DEF Status
    <3> QED BY ZenonT(60), <3>3, <3>4 DEF Status
  <2>6. \A u \in Tasks : Status[u] = "queued" <=> u \in ready BY ZenonT(60), StatusIs
  <2>7. \A u \in Tasks : Status[u] = "running" <=> Running(u) BY ZenonT(60), StatusIs
  <2>8. Service!At("running") = {u \in Tasks : Running(u)} BY ZenonT(60), <2>7 DEF Service!At
  <2>9. Service!Cardinality(Service!At("running")) < N
    <3>1. Cardinality({u \in Tasks : Running(u)}) < N BY Zenon, <1>7 DEF Take
    <3>2. Cardinality(Service!At("running")) < N BY ZenonT(60), <2>8, <3>1
    <3> QED BY SMTT(30), SMTT(60), <3>2, SameCardinality
  <2>10. \A u \in Service!At("queued") : ~Less(t, u)
    BY Zenon, <2>1, <2>6 DEF Tops, Service!At
  <2>11. Service!ABegin(t)
    <3>1. Service!Move(t, "queued", "running")
      BY <2>2, <2>5, <2>6 DEF Service!Move
    <3>2. failed' = failed BY ZenonT(60), <1>7 DEF Take
    <3> QED BY <2>9, <2>10, <3>1, <3>2 DEF Service!ABegin
  <2> QED BY SMTT(30), SMTT(60), <2>2, <2>11 DEF AbsStep, Service!ANext
<1>8. CASE RunTask(w)
  <2> DEFINE t == task[w]
  <2>1. t \in Tasks /\ Running(t) /\ Holds(w, t)
    <3>1. pc[w] = "run" BY ZenonT(60), <1>8 DEF RunTask
    <3>2. t \in Tasks BY <3>1 DEF Hands, Holding
    <3> QED BY ZenonT(60), <3>1, <3>2 DEF Holding, Holds, Running
  <2>2. \A v \in Threads : pc[v] = "run" /\ task[v] = t => v = w
    BY Zenon, <2>1 DEF EachTaskInOnePlace, Holds, Holding
  <2>3. \A u \in Tasks : Running(u)' <=> Running(u) /\ u # t
    BY ZenonT(60), <1>8, <2>1, <2>2 DEF RunTask, Running
  <2>4. \A u \in Tasks : Reported(u)' <=> Reported(u)
    BY Zenon, <1>8 DEF RunTask, Reported
  <2>5. Status' = [Status EXCEPT ![t] = "finished"]
    <3>1. t \in Held BY Zenon, <2>1 DEF Held
    <3>2. UNCHANGED <<submitted, ready, done>> BY ZenonT(60), <1>8 DEF RunTask
    <3>3. t \in submitted /\ t \notin ready /\ t \notin done /\ ~Reported(t)
      BY Zenon, <2>1, <3>1 DEF EachTaskInOnePlace, Reported, Delivering
    <3>4. Status'[t] = "finished" BY SMTT(30), SMTT(60), <2>1, <2>3, <2>4, <3>2, <3>3 DEF Status
    <3>5. \A u \in Tasks \ {t} : Status'[u] = Status[u]
      BY <2>3, <2>4, <3>2 DEF Status
    <3> QED BY ZenonT(60), <2>1, <3>4, <3>5 DEF Status
  <2>6. Status[t] = "running" BY ZenonT(60), <2>1, StatusIs
  <2>7. Service!AEnd(t)
    BY ZenonT(60), <1>8, <2>5, <2>6 DEF RunTask, Service!AEnd, Service!Move
  <2> QED BY ZenonT(60), <2>1, <2>7 DEF AbsStep, Service!ANext
<1>9. CASE Push(w)
  <2>1. \A u \in Tasks : Running(u)' <=> Running(u)
    BY ZenonT(60), <1>9 DEF Push, Running
  <2>2. \A u \in Tasks : Reported(u)' <=> Reported(u)
    BY ZenonT(60), <1>9 DEF Push, Reported
  <2> QED BY ZenonT(60), <1>9, <2>1, <2>2, StatusFrame, AbsStutter DEF Push
<1>10. CASE Activate(w) BY ZenonT(60), <1>1, <1>10 DEF Activate
<1>11. CASE Decr(w) BY ZenonT(60), <1>1, <1>11 DEF Decr
<1>12. CASE Exit(w) BY ZenonT(60), <1>1, <1>12 DEF Exit
<1>13. CASE Done(w) BY ZenonT(60), <1>1, <1>13 DEF Done
<1>14. CASE Spurious(w) BY ZenonT(60), <1>1, <1>14 DEF Spurious
<1> QED BY ZenonT(60), <1>2, <1>3, <1>4, <1>5, <1>6, <1>7, <1>8, <1>9, <1>10, <1>11, <1>12,
           <1>13, <1>14 DEF WorkerStep
--------------------------------------------------------------------------------
(* ConcurrentPool::active counts the threads at work.                      *)

Working == {w \in Threads : pc[w] \in Counted}

\* A step counts a thread that comes to work or leaves it.
CountFollows ==
    \/ Working' = Working /\ active' = active
    \/ \E w \in Threads \ Working : Working' = Working \cup {w} /\ active' = active + 1
    \/ \E w \in Working : Working' = Working \ {w} /\ active' = active - 1

LEMMA WorkingStep == TypeInv /\ [Next]_vars => CountFollows
<1> SUFFICES ASSUME TypeInv, [Next]_vars PROVE CountFollows
  OBVIOUS
<1>1. ASSUME Working' = Working, active' = active PROVE CountFollows
  BY SMTT(30), SMTT(60), <1>1 DEF CountFollows
<1>2. ASSUME NEW w \in Threads, WorkerStep(w) \/ Spurious(w) PROVE CountFollows
  <2> USE DEF TypeInv, TypeOK, Goto, Working, Counted, Holding, queueVars
  <2>1. CASE Starter(w) BY ZenonT(60), <1>1, <2>1 DEF Starter
  <2>2. CASE Lock(w) BY SMTT(30), SMTT(60), <1>1, <2>2 DEF Lock
  <2>3. CASE Test(w) BY ZenonT(60), <1>1, <2>3 DEF Test
  <2>4. CASE Check(w) BY ZenonT(60), <1>1, <2>4 DEF Check
  <2>5. CASE Recheck(w) BY SMTT(30), SMTT(60), <1>1, <2>5 DEF Recheck
  <2>6. CASE Take(w)
    <3>1. Working' = Working \cup {w} /\ w \notin Working BY <2>6 DEF Take
    <3>2. active' = active + 1 BY <2>6 DEF Take
    <3> HIDE DEF Working
    <3> QED BY Zenon, <1>2, <3>1, <3>2 DEF CountFollows
  <2>7. CASE RunTask(w) BY Zenon, <1>1, <2>7 DEF RunTask
  <2>8. CASE Push(w) BY ZenonT(60), <1>1, <2>8 DEF Push
  <2>9. CASE Activate(w) BY ZenonT(60), <1>1, <2>9 DEF Activate
  <2>10. CASE Decr(w)
    <3>1. Working' = Working \ {w} /\ w \in Working BY ZenonT(60), <2>10 DEF Decr
    <3>2. active' = active - 1 BY <2>10 DEF Decr
    <3> HIDE DEF Working
    <3> QED BY Zenon, <3>1, <3>2 DEF CountFollows
  <2>11. CASE Exit(w) BY <1>1, <2>11 DEF Exit
  <2>12. CASE Done(w) BY ZenonT(60), <1>1, <2>12 DEF Done
  <2>13. CASE Spurious(w) BY <1>1, <2>13 DEF Spurious
  <2> QED BY SMTT(30), SMTT(60), <1>2, <2>1, <2>2, <2>3, <2>4, <2>5, <2>6, <2>7, <2>8, <2>9, <2>10,
             <2>11, <2>12, <2>13 DEF WorkerStep
<1> USE DEF TypeInv, Hands, TypeOK, Goto, Working, Counted, Holding, Threads,
            queueVars, thrVars
<1>3. ASSUME NEW t \in Tasks, Submit(t) PROVE CountFollows
  BY ZenonT(60), <1>1, <1>3 DEF Submit, Signal, waiting
<1>4. CASE LoopStep
  BY Zenon, <1>1, <1>4 DEF LoopStep, Fire, LoopLock, Pop, Deliver, Complete
<1>5. CASE CallStart \/ CallStop BY ZenonT(60), <1>1, <1>5 DEF CallStart, CallStop, Call
<1>6. CASE OwnerStep
  <2>1. CASE StartThread BY ZenonT(60), <1>1, <2>1 DEF StartThread
  <2>2. CASE StartJoin BY ZenonT(60), <1>1, <2>2 DEF StartJoin
  <2>3. CASE StartWait BY ZenonT(60), <1>1, <2>3 DEF StartWait, Reap
  <2>4. CASE StopThread BY Zenon, <1>1, <2>4 DEF StopThread
  <2>5. CASE Broadcast BY ZenonT(60), <1>1, <2>5 DEF Broadcast, waiting
  <2>6. CASE WaitThread BY ZenonT(60), <1>1, <2>6 DEF WaitThread, Reap
  <2> QED BY SMTT(30), SMTT(60), <1>6, <2>1, <2>2, <2>3, <2>4, <2>5, <2>6 DEF OwnerStep
<1>7. CASE UNCHANGED vars BY <1>1, <1>7 DEF vars
<1> QED BY SMTT(30), SMTT(60), <1>2, <1>3, <1>4, <1>5, <1>6, <1>7 DEF Next

--------------------------------------------------------------------------------
INSTANCE FiniteSetTheorems

CountInv == active = Cardinality(Working)

LEMMA WorkingFinite == ASSUME TypeInv
                       PROVE IsFiniteSet(Working) /\ Cardinality(Working) \in Nat
<1>1. IsFiniteSet(Threads) BY FS_Interval DEF Threads
<1>2. IsFiniteSet(Working) BY SMTT(30), SMTT(60), <1>1, FS_Subset DEF Working
<1> QED BY <1>2, FS_CardinalityType

LEMMA CountStep == TypeInv /\ CountInv /\ [Next]_vars => CountInv'
<1> SUFFICES ASSUME TypeInv, CountInv, [Next]_vars PROVE CountInv'
  OBVIOUS
<1>1. CountFollows BY Zenon, WorkingStep
<1>2. CASE Working' = Working /\ active' = active BY Zenon, <1>2 DEF CountInv
<1>3. ASSUME NEW w \in Threads \ Working, Working' = Working \cup {w}, active' = active + 1
      PROVE  CountInv'
  <2>1. Cardinality(Working \cup {w}) = Cardinality(Working) + 1
    BY ZenonT(60), <1>3, WorkingFinite, FS_AddElement
  <2> QED BY Zenon, <1>3, <2>1 DEF CountInv
<1>4. ASSUME NEW w \in Working, Working' = Working \ {w}, active' = active - 1
      PROVE  CountInv'
  <2>1. Cardinality(Working \ {w}) = Cardinality(Working) - 1
    BY ZenonT(60), <1>4, WorkingFinite, FS_RemoveElement
  <2> QED BY Zenon, <1>4, <2>1 DEF CountInv
<1> QED BY Zenon, <1>1, <1>2, <1>3, <1>4 DEF CountFollows

\* run() and complete() touch the queues only with the mutex held, and
\* getNumActive() is the number of threads at work.
THEOREM MutexCorrect == Spec => []MutexProtects
<1>1. Init => MutexInv /\ CountInv
  <2> SUFFICES ASSUME Init PROVE MutexInv /\ CountInv OBVIOUS
  <2>1. MutexInv BY SMTT(30), SMTT(60) DEF Init, MutexInv, Threads, Locked, Nobody, Loop
  <2>2. Working = {} BY DEF Init, Working, Counted, Holding
  <2> QED BY SMTT(30), SMTT(60), <2>1, <2>2, FS_EmptySet DEF Init, CountInv
<1>2. Spec => [](TypeInv /\ MutexInv /\ CountInv)
  BY <1>1, InitType, TypeStep, MutexStep, CountStep, PTL DEF Spec
<1>3. MutexInv /\ CountInv => MutexProtects
  BY DEF MutexInv, CountInv, Working, MutexProtects
<1> QED BY <1>2, <1>3, PTL
--------------------------------------------------------------------------------
\* A thread about to take a task leaves room in the count of running tasks.
LEMMA RoomToRun ==
    ASSUME TypeInv, NEW w \in Threads, pc[w] # "run"
    PROVE  Cardinality({t \in Tasks : Running(t)}) < N
<1> DEFINE Runners == {v \in Threads : pc[v] = "run"}
           R == {t \in Tasks : Running(t)}
           f == [v \in Runners |-> task[v]]
<1>1. IsFiniteSet(Threads) /\ Cardinality(Threads) = N
  <2>1. IsFiniteSet(1..N) /\ Cardinality(1..N) = IF 1 > N THEN 0 ELSE N - 1 + 1
    BY FS_Interval
  <2> QED BY <2>1 DEF Threads
<1>2. Runners \subseteq Threads \ {w} OBVIOUS
<1>3. IsFiniteSet(Threads \ {w}) /\ Cardinality(Threads \ {w}) = N - 1
  BY ZenonT(60), <1>1, FS_RemoveElement
<1>4. /\ IsFiniteSet(Runners)
      /\ Cardinality(Runners) <= Cardinality(Threads \ {w})
  BY ZenonT(60), <1>2, <1>3, FS_Subset
<1>5. f \in Surjection(Runners, R)
  BY SMTT(30), SMTT(60) DEF Surjection, Running, TypeInv, TypeOK, Hands, Holding
<1> HIDE DEF Runners, R, f
<1>6. IsFiniteSet(R) /\ Cardinality(R) <= Cardinality(Runners)
  BY ZenonT(60), <1>4, <1>5, FS_Surjection
<1>7. Cardinality(R) \in Nat /\ Cardinality(Runners) \in Nat
  BY ZenonT(60), <1>4, <1>6, FS_CardinalityType
<1>8. Cardinality(R) < N BY SMTT(30), SMTT(60), <1>3, <1>4, <1>6, <1>7
<1> QED BY <1>8 DEF R

\* The pool gives every submitted task its turn in priority order, one run
\* on one of its N threads, one report and one completion.
THEOREM PoolImplementsService == Spec => ImplementsService
<1>1. Init => Service!AInit
  <2> SUFFICES ASSUME Init PROVE Service!AInit OBVIOUS
  <2>1. \A t \in Tasks : t \notin submitted /\ t \notin ready /\ t \notin done
                        /\ ~Running(t) /\ ~Reported(t)
    BY DEF Init, Running, Reported
  <2>2. Status = [t \in Tasks |-> "new"] BY SMTT(30), SMTT(60), <2>1 DEF Status
  <2> QED BY <2>2 DEF Init, Service!AInit
<1>2. Init => EachTaskInOnePlace
  BY DEF Init, EachTaskInOnePlace, Held, Holds, Delivering, Holding
<1>3. TypeInv /\ TypeInv' /\ EachTaskInOnePlace /\ EachTaskInOnePlace' /\ [Next]_vars
        => [Service!ANext]_(Service!avars)
  <2> SUFFICES ASSUME TypeInv, TypeInv', EachTaskInOnePlace, EachTaskInOnePlace',
                      [Next]_vars
               PROVE  AbsStep
    BY SMTT(30), SMTT(60) DEF AbsStep
  <2>1. CASE UNCHANGED vars
    <3>1. UNCHANGED <<submitted, ready, done, failed, lpc, cur, task, pc>>
      BY ZenonT(60), <2>1 DEF vars, queueVars, thrVars, loopVars
    <3>2. \A u \in Tasks : Running(u)' <=> Running(u) BY SMTT(30), SMTT(60), <3>1 DEF Running
    <3>3. \A u \in Tasks : Reported(u)' <=> Reported(u) BY <3>1 DEF Reported
    <3> QED BY ZenonT(60), <3>1, <3>2, <3>3, StatusFrame, AbsStutter
  <2>2. ASSUME NEW w \in Threads, WorkerStep(w) \/ Spurious(w) PROVE AbsStep
    <3>1. pc[w] # "run" => Cardinality({t \in Tasks : Running(t)}) < N BY Zenon, RoomToRun
    <3> QED BY Zenon, <2>2, <3>1, WorkerRefines
  <2> QED BY Zenon, <2>1, <2>2, SubmitRefines, LoopRefines, OwnerRefines DEF Next
<1> QED BY <1>1, <1>2, <1>3, InitType, TypeStep, PlacesStep, PTL
        DEF Spec, ImplementsService, Service!ASpec
================================================================================
