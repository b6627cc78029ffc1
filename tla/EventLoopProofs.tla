---------------------------- MODULE EventLoopProofs ----------------------------
(***************************************************************************)
(* The parts of the event loop that MCEventLoop puts together, for every   *)
(* set of clients and every limit of the listener, any amount of a task's  *)
(* data, any answers of the database's server and any number of retries.   *)
(***************************************************************************)
EXTENDS MCEventLoop, TLAPS

--------------------------------------------------------------------------------
(* A task that reports to the loop.                                        *)

\* Where each of the two threads is, and that the mutex follows.
Places ==
  /\ worker \in {"run", "push", "activate", "unlock", "returned", "threw"}
  /\ loop \in {"dispatch", "lock", "test", "process", "relock", "leave",
               "flush", "complete", "completed"}
  /\ mutex \in {"none", "worker", "loop"}
  /\ mutex = "worker" <=> worker \in {"push", "activate", "unlock"}
  /\ mutex = "loop" <=> loop \in {"test", "leave"}
  /\ loop = "flush" => worker = "returned"
  /\ loop \in {"complete", "completed"} => worker \in {"returned", "threw"}
  /\ threw \in BOOLEAN

Sequenced ==
  /\ queue \in Seq(Nat) /\ data \in Seq(Nat) /\ enqueued \in Seq(Nat) /\ handled \in Seq(Nat)
  /\ Len(data) = IF loop = "process" THEN 1 ELSE 0

\* What was handled, what is being processed and what is queued is what was
\* sent.  It no longer is after process() has thrown in success(): the datum
\* it threw on is still queued, and nothing is done with it any more.
\* (The data are numbered, so that each sequence says which ones it holds.)
ChainOf(h, d, q, s) ==
  /\ Len(s) = Len(h) + Len(d) + Len(q)
  /\ \A i \in 1 .. Len(s) : s[i] = i
  /\ \A i \in 1 .. Len(h) : h[i] = i
  /\ \A i \in 1 .. Len(d) : d[i] = Len(h) + i
  /\ \A i \in 1 .. Len(q) : q[i] = Len(h) + Len(d) + i

Chain == ChainOf(handled, data, queue, enqueued)

Abandoned == threw /\ worker = "returned" /\ loop \in {"complete", "completed"}

TaskInv ==
  /\ Places /\ Sequenced
  /\ Chain \/ (Abandoned /\ Task!InOrder)
  /\ loop \in {"complete", "completed"} /\ worker = "returned" /\ ~threw => queue = <<>>

\* What Append() and Tail() do to the indices.
LEMMA AppendIndices ==
  ASSUME NEW s \in Seq(Nat), NEW d \in Nat
  PROVE  /\ Append(s, d) \in Seq(Nat) /\ Len(Append(s, d)) = Len(s) + 1
         /\ Append(s, d)[Len(s) + 1] = d
         /\ \A i \in 1 .. Len(s) : Append(s, d)[i] = s[i]
OBVIOUS

LEMMA TailIndices ==
  ASSUME NEW s \in Seq(Nat), Len(s) > 0
  PROVE  /\ Tail(s) \in Seq(Nat) /\ Len(Tail(s)) = Len(s) - 1
         /\ Head(s) \in Nat /\ Head(s) = s[1]
         /\ \A i \in 1 .. Len(s) - 1 : Tail(s)[i] = s[i + 1]
OBVIOUS

\* A datum goes down the chain: it is enqueued, popped and handled, or, by
\* success(), handled and popped.
LEMMA ChainPush ==
  ASSUME NEW h \in Seq(Nat), NEW d \in Seq(Nat), NEW q \in Seq(Nat), NEW s \in Seq(Nat),
         ChainOf(h, d, q, s)
  PROVE  ChainOf(h, d, Append(q, Len(s) + 1), Append(s, Len(s) + 1))
<1> DEFINE n == Len(s) + 1
<1>1. n \in Nat
  OBVIOUS
<1>2. \A i \in 1 .. Len(q) + 1 : Append(q, n)[i] = Len(h) + Len(d) + i
  <2>1. Append(q, n)[Len(q) + 1] = n /\ n = Len(h) + Len(d) + (Len(q) + 1)
    BY AppendIndices, <1>1 DEF ChainOf
  <2>2. \A i \in 1 .. Len(q) : Append(q, n)[i] = Len(h) + Len(d) + i
    BY AppendIndices, <1>1 DEF ChainOf
  <2> HIDE DEF n
  <2> TAKE i \in 1 .. Len(q) + 1
  <2>3. CASE i = Len(q) + 1
    BY <2>1, <2>3
  <2>4. CASE i # Len(q) + 1
    <3>1. i \in 1 .. Len(q)
      BY <2>4
    <3> QED BY <2>2, <3>1
  <2> QED BY <2>3, <2>4
<1>3. \A i \in 1 .. Len(s) + 1 : Append(s, n)[i] = i
  BY AppendIndices, <1>1 DEF ChainOf
<1>4. Len(Append(q, n)) = Len(q) + 1 /\ Len(Append(s, n)) = Len(s) + 1
  BY SMTT(30), AppendIndices, <1>1
<1> HIDE DEF n
<1>5. ChainOf(h, d, Append(q, n), Append(s, n))
  BY SMTT(30), <1>2, <1>3, <1>4 DEF ChainOf
<1> QED BY <1>5 DEF n

LEMMA ChainPop ==
  ASSUME NEW h \in Seq(Nat), NEW q \in Seq(Nat), NEW s \in Seq(Nat),
         Len(q) > 0, ChainOf(h, <<>>, q, s)
  PROVE  ChainOf(h, <<Head(q)>>, Tail(q), s)
<1>1. Len(Tail(q)) = Len(q) - 1 /\ \A i \in 1 .. Len(q) - 1 : Tail(q)[i] = q[i + 1]
  BY TailIndices
<1>2. Head(q) = Len(h) + 1 /\ Len(s) = Len(h) + Len(q)
  BY TailIndices DEF ChainOf
<1>3. \A i \in 1 .. Len(q) - 1 : Tail(q)[i] = Len(h) + 1 + i
  BY <1>1 DEF ChainOf
<1>4. Len(<<Head(q)>>) = 1 /\ <<Head(q)>>[1] = Len(h) + 1
  BY <1>2
<1>5. \A i \in 1 .. 1 : <<Head(q)>>[i] = Len(h) + i
  BY <1>4
<1>6. Len(s) = Len(h) + 1 + (Len(q) - 1)
  BY <1>2
<1>7. \A i \in 1 .. Len(s) : s[i] = i
  BY DEF ChainOf
<1>8. \A i \in 1 .. Len(h) : h[i] = i
  BY DEF ChainOf
<1> QED BY Zenon, <1>1, <1>3, <1>4, <1>5, <1>6, <1>7, <1>8 DEF ChainOf

LEMMA ChainHandle ==
  ASSUME NEW h \in Seq(Nat), NEW d \in Seq(Nat), NEW q \in Seq(Nat), NEW s \in Seq(Nat),
         Len(d) = 1, ChainOf(h, d, q, s)
  PROVE  ChainOf(Append(h, Head(d)), <<>>, q, s)
<1>1. Head(d) = Len(h) + 1 /\ Head(d) \in Nat
  BY TailIndices DEF ChainOf
<1>2. \A i \in 1 .. Len(h) + 1 : Append(h, Head(d))[i] = i
  BY <1>1, AppendIndices DEF ChainOf
<1>3. Len(Append(h, Head(d))) = Len(h) + 1
  BY <1>1, AppendIndices
<1> QED BY <1>2, <1>3 DEF ChainOf

LEMMA ChainFlush ==
  ASSUME NEW h \in Seq(Nat), NEW q \in Seq(Nat), NEW s \in Seq(Nat),
         Len(q) > 0, ChainOf(h, <<>>, q, s)
  PROVE  ChainOf(Append(h, Head(q)), <<>>, Tail(q), s)
<1>1. <<Head(q)>> \in Seq(Nat) /\ Len(<<Head(q)>>) = 1 /\ Head(<<Head(q)>>) = Head(q)
      /\ Tail(q) \in Seq(Nat)
  BY TailIndices
<1>2. ChainOf(h, <<Head(q)>>, Tail(q), s)
  BY ChainPop
<1>3. ChainOf(Append(h, Head(<<Head(q)>>)), <<>>, Tail(q), s)
  BY Zenon, <1>1, <1>2, ChainHandle
<1> QED BY <1>1, <1>3

LEMMA TaskInit == Task!Init => TaskInv
<1> SUFFICES ASSUME Task!Init PROVE TaskInv
  OBVIOUS
<1>1. Places
  BY Zenon DEF Task!Init, Places
<1>2. Sequenced /\ Chain
  BY DEF Task!Init, Sequenced, Chain, ChainOf
<1> QED BY <1>1, <1>2 DEF Task!Init, TaskInv

LEMMA TaskWorkerStep ==
  ASSUME TaskInv, Task!Worker
  PROVE  TaskInv'
<1> USE DEF TaskInv, Places, Sequenced
<1>1. Chain
  BY DEF Task!Worker, Task!Enqueue, Task!Push, Task!Activate, Task!Enqueued, Task!Finish, Abandoned
<1>2. CASE Task!Push
  <2>1. /\ queue' = Append(queue, Len(enqueued) + 1)
        /\ enqueued' = Append(enqueued, Len(enqueued) + 1)
        /\ UNCHANGED <<mutex, loop, data, handled, threw>> /\ worker' = "activate"
        /\ worker = "push"
    BY <1>2 DEF Task!Push
  <2>2. Sequenced'
    BY <2>1
  <2>3. Chain'
    BY <1>1, <2>1, ChainPush DEF Chain
  <2> QED BY SMTT(30), <2>1, <2>2, <2>3
<1>3. CASE Task!Enqueue \/ Task!Activate \/ Task!Enqueued \/ Task!Finish
  <2>1. UNCHANGED <<queue, data, enqueued, handled, loop, threw>>
    BY <1>3 DEF Task!Enqueue, Task!Activate, Task!Enqueued, Task!Finish
  <2>2. Chain'
    BY SMTT(30), <1>1, <2>1 DEF Chain
  <2>3. Places'
    BY ZenonT(60), <1>3
    DEF Task!Enqueue, Task!Activate, Task!Enqueued, Task!Finish, Task!Lock, Task!Unlock
  <2>4. loop \notin {"complete", "completed"}
    BY <1>3 DEF Task!Enqueue, Task!Activate, Task!Enqueued, Task!Finish
  <2> QED BY SMTT(30), <2>1, <2>2, <2>3, <2>4
<1> QED BY SMTT(30), <1>2, <1>3 DEF Task!Worker

LEMMA TaskLoopStep ==
  ASSUME TaskInv, Task!Loop
  PROVE  TaskInv'
<1> USE DEF TaskInv, Places, Sequenced
<1>1. CASE Task!Pop
  <2>1. Chain /\ queue # <<>> /\ Len(data) = 0 /\ Len(queue) > 0
    BY <1>1 DEF Task!Pop, Abandoned
  <2>2. /\ data' = <<Head(queue)>> /\ queue' = Tail(queue)
        /\ UNCHANGED <<enqueued, handled, worker, threw>> /\ loop' = "process"
    BY <1>1 DEF Task!Pop
  <2>3. Chain'
    <3>1. data = <<>>
      BY <2>1
    <3> QED BY SMTT(30), <2>1, <2>2, <3>1, ChainPop DEF Chain
  <2>4. Sequenced'
    BY <2>1, <2>2, TailIndices
  <2> QED BY SMTT(30), <1>1, <2>2, <2>3, <2>4 DEF Task!Pop, Task!Unlock
<1>2. CASE Task!Process \/ Task!ProcessThrows
  <2>1. Chain /\ Len(data) = 1
    BY SMTT(30), <1>2 DEF Task!Process, Task!ProcessThrows, Abandoned
  <2>2. /\ handled' = Append(handled, Head(data)) /\ data' = <<>>
        /\ UNCHANGED <<enqueued, queue, worker>> /\ loop' \in {"relock", "leave"}
    BY <1>2 DEF Task!Process, Task!ProcessThrows
  <2>0. Head(data) \in Nat /\ Head(data) = data[1]
    <3>1. data \in Seq(Nat)
      OBVIOUS
    <3> HIDE DEF TaskInv, Places, Sequenced
    <3>2. Len(data) > 0
      BY <2>1
    <3> QED BY SMTT(30), <3>1, <3>2, TailIndices
  <2>3. Chain'
    BY SMTT(30), <2>1, <2>2, ChainHandle DEF Chain
  <2>4. Sequenced'
    <3>1. handled' \in Seq(Nat) /\ data' \in Seq(Nat) /\ Len(data') = 0
      BY <2>0, <2>2, AppendIndices
    <3> QED BY SMTT(30), <2>2, <3>1
  <2>5. Places'
    BY ZenonT(60), <1>2 DEF Task!Process, Task!ProcessThrows, Task!Lock
  <2> QED BY SMTT(30), <2>2, <2>3, <2>4, <2>5
<1>3. CASE Task!Flush
  <2>1. Chain /\ Len(queue) > 0 /\ Len(data) = 0
    BY <1>3 DEF Task!Flush, Abandoned
  <2>0. data = <<>>
    BY <2>1
  <2>2. /\ handled' = Append(handled, Head(queue))
        /\ UNCHANGED <<enqueued, data, mutex, worker>>
    BY <1>3 DEF Task!Flush
  <2>3. CASE queue' = Tail(queue) /\ UNCHANGED <<threw, loop>>
    <3>1. Chain'
      BY <2>0, <2>1, <2>2, <2>3, ChainFlush DEF Chain
    <3> QED BY SMTT(30), <1>3, <2>1, <2>2, <2>3, <3>1 DEF Task!Flush
  <2>4. CASE threw' = TRUE /\ loop' = "complete" /\ UNCHANGED queue
    <3>1. Task!InOrder'
      <4>1. ChainOf(handled', <<>>, Tail(queue), enqueued)
        BY SMTT(30), <2>0, <2>1, <2>2, ChainFlush DEF Chain
      <4>2. Len(handled') = Len(handled) + 1 /\ Len(enqueued) = Len(handled) + Len(queue)
        BY SMTT(30), <2>0, <2>1, <2>2, TailIndices, AppendIndices DEF Chain, ChainOf
      <4>3. Len(handled') <= Len(enqueued)
        BY SMTT(30), <2>1, <4>2
      <4>4. \A i \in 1 .. Len(handled') : handled'[i] = i
        BY SMTT(30), <4>1 DEF ChainOf
      <4>5. \A i \in 1 .. Len(enqueued) : enqueued[i] = i
        BY <4>1 DEF ChainOf
      <4>6. enqueued' = enqueued
        BY <2>2
      <4> QED BY SMTT(30), <2>1, <4>2, <4>3, <4>4, <4>5, <4>6 DEF Task!InOrder
    <3>2. Abandoned'
      BY SMTT(30), <1>3, <2>2, <2>4 DEF Task!Flush, Abandoned
    <3> QED BY <1>3, <2>1, <2>2, <2>4, <3>1, <3>2 DEF Task!Flush
  <2> QED BY Zenon, <1>3, <2>3, <2>4 DEF Task!Flush
<1>4. CASE Task!Dispatch \/ Task!Dequeue \/ Task!Leave \/ Task!Report \/ Task!Flushed
  <2>1. Chain /\ UNCHANGED <<queue, data, enqueued, handled, worker, threw>>
    BY SMTT(30), <1>4
    DEF Task!Dispatch, Task!Dequeue, Task!Leave, Task!Report, Task!Flushed, Abandoned
  <2>2. Chain'
    BY SMTT(30), <2>1 DEF Chain
  <2>3. Places'
    BY SMTT(30), <1>4
    DEF Task!Dispatch, Task!Dequeue, Task!Leave, Task!Report, Task!Flushed, Task!Lock,
        Task!Unlock
  <2>4. Sequenced'
    BY SMTT(30), <1>4, <2>1 DEF Task!Dispatch, Task!Dequeue, Task!Leave, Task!Report, Task!Flushed
  <2>5. (loop \in {"complete", "completed"} /\ worker = "returned" /\ ~threw => queue = <<>>)'
    BY <1>4, <2>1 DEF Task!Dispatch, Task!Dequeue, Task!Leave, Task!Report, Task!Flushed
  <2> QED BY SMTT(30), <2>2, <2>3, <2>4, <2>5
<1>5. CASE Task!Complete
  <2>1. UNCHANGED <<queue, data, enqueued, handled, worker, threw, mutex>>
    BY <1>5 DEF Task!Complete
  <2>2. Chain \/ (Abandoned /\ Task!InOrder)
    OBVIOUS
  <2>3. Chain' \/ (Abandoned' /\ Task!InOrder')
    BY <1>5, <2>1, <2>2 DEF Task!Complete, Chain, Abandoned, Task!InOrder
  <2> QED BY SMTT(30), <1>5, <2>1, <2>3 DEF Task!Complete
<1> QED BY SMTT(30), <1>1, <1>2, <1>3, <1>4, <1>5 DEF Task!Loop

\* The inductive invariant holds in every reachable state.
THEOREM TaskInvariance == Task!Spec => []TaskInv
<1>1. TaskInv /\ UNCHANGED Task!vars => TaskInv'
  BY DEF TaskInv, Places, Sequenced, Chain, Abandoned, Task!InOrder, Task!vars
<1>2. TaskInv /\ [Task!Next]_(Task!vars) => TaskInv'
  BY <1>1, TaskWorkerStep, TaskLoopStep DEF Task!Next
<1> QED BY <1>2, TaskInit, PTL DEF Task!Spec

LEMMA HandedInOrder == TaskInv => Task!InOrder
<1> SUFFICES ASSUME Chain, Sequenced PROVE Task!InOrder
  BY DEF TaskInv
<1>1. Len(handled) <= Len(enqueued)
  BY DEF Chain, ChainOf, Sequenced
<1>2. \A i \in 1 .. Len(handled) : handled[i] = i /\ i \in 1 .. Len(enqueued)
  BY <1>1 DEF Chain, ChainOf, Sequenced
<1>3. \A i \in 1 .. Len(enqueued) : enqueued[i] = i
  BY DEF Chain, ChainOf
<1> QED BY SMTT(30), <1>1, <1>2, <1>3 DEF Task!InOrder

LEMMA NothingLeftBehind == TaskInv => Task!AllBeforeComplete
<1> SUFFICES ASSUME TaskInv, loop \in {"complete", "completed"}, worker = "returned", ~threw
             PROVE  handled = enqueued
  BY DEF Task!AllBeforeComplete
<1>1. Chain /\ Len(queue) = 0 /\ Len(data) = 0
  BY DEF TaskInv, Abandoned, Sequenced
<1> QED BY SMTT(30), <1>1 DEF TaskInv, Sequenced, Chain, ChainOf

\* QueuedTask hands process() the data in the order it was enqueued, and a task
\* that succeeds has handed over everything when complete() is called.
THEOREM DataDelivered == Task!Spec => []Task!Delivered
<1>1. TaskInv => Task!Delivered
  BY HandedInOrder, NothingLeftBehind DEF Task!Delivered
<1> QED BY <1>1, TaskInvariance, PTL

\* QueuedTask::success() may read the queue without the task's mutex.
THEOREM FlushesAlone == Task!Spec => []Task!FlushAlone
<1>1. TaskInv => Task!FlushAlone
  BY DEF TaskInv, Places, Task!FlushAlone
<1> QED BY <1>1, TaskInvariance, PTL

--------------------------------------------------------------------------------
(* The listener.  CountBounded and AcceptsWithRoom need TypeOK (the list   *)
(* is finite, being a set of clients).                                     *)

INSTANCE FiniteSetTheorems
USE ListenerAssumption DEF ListenerAssumption

\* Dropping connections keeps the map from clients to phases well typed.
LEMMA DroppedType ==
    ASSUME TypeOK, NEW S
    PROVE  Dropped(S) \in [Clients -> Phases]
  BY DEF TypeOK, Dropped, Phases

\* The list stays finite when connections come and go.
LEMMA FiniteList ==
    ASSUME NEW S, S \subseteq Clients
    PROVE  IsFiniteSet(S) /\ Cardinality(S) \in Nat
  BY FS_Subset, FS_CardinalityType

\* Every variable of the listener keeps its type.
THEOREM TypeCorrect == Spec => []TypeOK
<1>1. Init => TypeOK
  <2> SUFFICES ASSUME Init PROVE TypeOK
    OBVIOUS
  <2>1. ports \in 0..Addresses
    BY DEF Init
  <2>2. failed \in BOOLEAN /\ accepting \in BOOLEAN
    BY Zenon DEF Init
  <2>3. connections \subseteq Clients /\ old \subseteq Clients
    BY DEF Init
  <2>4. peer \in [Clients -> Phases]
    BY DEF Init, Phases
  <2> QED
    BY <2>1, <2>2, <2>3, <2>4, Zenon DEF TypeOK
<1>2. TypeOK /\ [Next]_vars => TypeOK'
  <2> SUFFICES ASSUME TypeOK, [Next]_vars PROVE TypeOK'
    OBVIOUS
  <2>1. CASE bind
    <3>1. ports' \in 0..Addresses
      BY <2>1 DEF bind, TypeOK
    <3>2. failed' \in BOOLEAN /\ accepting' \in BOOLEAN
      BY <2>1, Zenon DEF bind, TypeOK
    <3>3. UNCHANGED <<connections, peer, old>>
      BY <2>1 DEF bind
    <3> QED
      BY <3>1, <3>2, <3>3 DEF TypeOK
  <2>2. CASE expireCB
    BY <2>2, DroppedType DEF expireCB, TypeOK
  <2>3. ASSUME NEW c \in Clients, acceptCB(c) PROVE TypeOK'
    <3>1. PICK evicted \in SUBSET connections :
            LET left == connections \ evicted
            IN  IF Full(left)
                THEN /\ accepting' = FALSE
                     /\ connections' = left /\ peer' = Dropped(evicted)
                ELSE /\ UNCHANGED accepting
                     /\ connections' = left \cup {c}
                     /\ peer' = [Dropped(evicted) EXCEPT ![c] = "idle"]
      BY Zenon, <2>3 DEF acceptCB
    <3>2. peer' \in [Clients -> Phases]
      BY <3>1, DroppedType DEF Phases
    <3> QED
      BY Zenon, <2>3, <3>1, <3>2 DEF acceptCB, TypeOK
  <2>4. ASSUME NEW c \in Clients,
               Connect(c) \/ newRequest(c) \/ writeCB(c) \/ free(c) \/ Age(c)
        PROVE  TypeOK'
    BY Zenon, <2>4 DEF Connect, newRequest, writeCB, free, Age, TypeOK, Phases
  <2>5. CASE UNCHANGED vars
    BY <2>5 DEF vars, TypeOK
  <2> QED
    BY <2>1, <2>2, <2>3, <2>4, <2>5 DEF Next
<1> QED
  BY <1>1, <1>2, PTL DEF Spec

\* The list that acceptCB() counts and the sockets that are open agree.
THEOREM ListCorrect == Spec => []ListIsOpen
<1>1. Init => ListIsOpen
  BY DEF Init, ListIsOpen, Open
<1>2. TypeOK /\ ListIsOpen /\ [Next]_vars => ListIsOpen'
  <2> SUFFICES ASSUME TypeOK, ListIsOpen, [Next]_vars PROVE ListIsOpen'
    OBVIOUS
  <2>1. CASE bind
    BY <2>1 DEF bind, ListIsOpen, Open
  <2>2. CASE expireCB
    BY <2>2 DEF expireCB, ListIsOpen, Open, Dropped, TypeOK, Phases
  <2>3. ASSUME NEW c \in Clients, acceptCB(c) PROVE ListIsOpen'
    <3>1. PICK evicted \in SUBSET connections :
            LET left == connections \ evicted
            IN  IF Full(left)
                THEN /\ accepting' = FALSE
                     /\ connections' = left /\ peer' = Dropped(evicted)
                ELSE /\ UNCHANGED accepting
                     /\ connections' = left \cup {c}
                     /\ peer' = [Dropped(evicted) EXCEPT ![c] = "idle"]
      BY Zenon, <2>3 DEF acceptCB
    <3>2. CASE Full(connections \ evicted)
      BY <3>1, <3>2 DEF ListIsOpen, Open, Dropped, TypeOK, Phases
    <3>3. CASE ~Full(connections \ evicted)
      BY Zenon, <3>1, <3>3 DEF ListIsOpen, Open, Dropped, TypeOK, Phases
    <3> QED
      BY <3>2, <3>3
  <2>4. ASSUME NEW c \in Clients,
               Connect(c) \/ newRequest(c) \/ writeCB(c) \/ free(c) \/ Age(c)
        PROVE  ListIsOpen'
    BY <2>4 DEF Connect, newRequest, writeCB, free, Age, TypeOK, Phases,
                ListIsOpen, Open
  <2>5. CASE UNCHANGED vars
    BY <2>5 DEF vars, ListIsOpen, Open
  <2> QED
    BY <2>1, <2>2, <2>3, <2>4, <2>5 DEF Next
<1> QED
  BY <1>1, <1>2, TypeCorrect, PTL DEF Spec

\* However accepts, evictions, expiries and closes interleave, there are never
\* more than maxConnections connections in the list.
THEOREM CountCorrect == Spec => []CountBounded
<1>1. Init => CountBounded
  BY FS_EmptySet DEF Init, CountBounded
<1>2. TypeOK /\ CountBounded /\ [Next]_vars => CountBounded'
  <2> SUFFICES ASSUME TypeOK, CountBounded, [Next]_vars, MaxConnections # 0
               PROVE  Cardinality(connections') <= MaxConnections
    BY DEF CountBounded
  <2>0. connections \subseteq Clients /\ Cardinality(connections) <= MaxConnections
    BY DEF TypeOK, CountBounded
  <2>1. ASSUME connections' \subseteq connections
        PROVE  Cardinality(connections') <= MaxConnections
    <3>1. Cardinality(connections') <= Cardinality(connections)
      BY SMTT(30), <2>0, <2>1, FiniteList, FS_Subset
    <3> QED
      BY SMTT(30), <2>0, <2>1, <3>1, FiniteList
  <2>2. ASSUME NEW c \in Clients, acceptCB(c)
        PROVE  Cardinality(connections') <= MaxConnections
    <3>1. PICK left \in SUBSET connections :
            connections' = left \/ (~Full(left) /\ connections' = left \cup {c})
      BY Zenon, <2>2 DEF acceptCB
    <3>2. CASE connections' = left
      BY <2>1, <3>1, <3>2
    <3>3. CASE ~Full(left) /\ connections' = left \cup {c}
      <4>1. IsFiniteSet(left) /\ Cardinality(left) \in Nat
        BY <2>0, <3>1, FiniteList
      <4>2. Cardinality(left) < MaxConnections
        BY <3>3, <4>1 DEF Full
      <4>3. Cardinality(left \cup {c}) <= Cardinality(left) + 1
            /\ Cardinality(left \cup {c}) \in Nat
        <5>1. Cardinality(left \cup {c}) =
                IF c \in left THEN Cardinality(left) ELSE Cardinality(left) + 1
          BY Zenon, <4>1, FS_AddElement
        <5> QED
          BY <4>1, <5>1
      <4> QED
        BY <3>3, <4>1, <4>2, <4>3
    <3> QED
      BY SMTT(30), <3>1, <3>2, <3>3
  <2>3. ASSUME NEW c \in Clients,
               Connect(c) \/ newRequest(c) \/ writeCB(c) \/ free(c) \/ Age(c)
        PROVE  connections' \subseteq connections
    BY <2>3 DEF Connect, newRequest, writeCB, free, Age
  <2>4. CASE bind \/ expireCB \/ UNCHANGED vars
    <3>1. connections' \subseteq connections
      BY <2>4 DEF bind, expireCB, vars
    <3> QED
      BY <2>1, <3>1
  <2> QED
    BY SMTT(30), <2>1, <2>2, <2>3, <2>4 DEF Next
<1> QED
  BY <1>1, <1>2, TypeCorrect, PTL DEF Spec

\* A list that is full stays full when connections are added to it.
LEMMA FullMonotone ==
    ASSUME NEW S, NEW T, T \subseteq Clients, S \subseteq T, Full(S)
    PROVE  Full(T)
<1>1. Cardinality(S) \in Nat /\ Cardinality(T) \in Nat
  BY FiniteList
<1>2. Cardinality(S) <= Cardinality(T)
  BY ZenonT(60), FiniteList, FS_Subset
<1> QED
  BY <1>1, <1>2 DEF Full

\* The listener never sleeps while it has room, unless expireCB() made the room:
\* each step that shortens the list watches acceptEvent again, leaves the list
\* full, or takes off connections that are old.
THEOREM AcceptCorrect == Spec => []AcceptsWithRoom
<1>1. Init => AcceptsWithRoom
  BY DEF Init, AcceptsWithRoom
<1>2. TypeOK /\ AcceptsWithRoom /\ [Next]_vars => AcceptsWithRoom'
  <2> SUFFICES ASSUME TypeOK, AcceptsWithRoom, [Next]_vars PROVE AcceptsWithRoom'
    OBVIOUS
  <2>0. connections \subseteq Clients /\ old \subseteq Clients
    BY DEF TypeOK
  <2>1. CASE bind
    BY <2>1 DEF bind, AcceptsWithRoom, Full
  <2>2. ASSUME NEW c \in Clients, acceptCB(c) PROVE AcceptsWithRoom'
    <3>1. accepting /\ old' = old
      BY <2>2 DEF acceptCB
    <3>2. PICK left \in SUBSET connections :
            \/ Full(left) /\ connections' = left
            \/ accepting' = accepting
      BY Zenon, <2>2 DEF acceptCB
    <3>3. CASE Full(left) /\ connections' = left
      <4>1. Full(left \cup old)
        BY ZenonT(60), <2>0, <3>2, <3>3, FullMonotone
      <4> QED
        BY <3>1, <3>3, <4>1 DEF AcceptsWithRoom, Full
    <3>4. CASE accepting' = accepting
      BY <3>1, <3>4 DEF AcceptsWithRoom
    <3> QED
      BY ZenonT(60), <3>2, <3>3, <3>4
  <2>3. ASSUME NEW c \in Clients, Age(c) PROVE AcceptsWithRoom'
    <3>1. CASE ports > 0 /\ ~accepting
      <4>1. connections \cup old \subseteq connections' \cup old'
            /\ connections' \cup old' \subseteq Clients
        BY <2>0, <2>3 DEF Age
      <4>2. Full(connections' \cup old')
        BY ZenonT(60), <3>1, <4>1, FullMonotone DEF AcceptsWithRoom
      <4> QED
        BY <4>2 DEF AcceptsWithRoom, Full
    <3> QED
      BY <2>3, <3>1 DEF Age, AcceptsWithRoom
  <2>4. ASSUME NEW c \in Clients,
               Connect(c) \/ newRequest(c) \/ writeCB(c) \/ free(c)
        PROVE  AcceptsWithRoom'
    BY <2>4 DEF Connect, newRequest, writeCB, free, AcceptsWithRoom, Full
  <2>5. CASE expireCB
    <3>1. connections' \cup old' = connections \cup old
      BY <2>5 DEF expireCB
    <3> QED
      BY <2>5, <3>1 DEF expireCB, AcceptsWithRoom, Full
  <2>6. CASE UNCHANGED vars
    BY <2>6 DEF vars, AcceptsWithRoom, Full
  <2> QED
    BY ZenonT(60), <2>1, <2>2, <2>3, <2>4, <2>5, <2>6 DEF Next
<1> QED
  BY <1>1, <1>2, TypeCorrect, PTL DEF Spec

HIDE ListenerAssumption DEF ListenerAssumption

--------------------------------------------------------------------------------
(* The event loop with its parts: a part that runs follows its own         *)
(* specification, and one that does not run stays as it was initialised.   *)

LEMMA ListenerPart == MCSpec => Spec
<1>1. MCInit => Init
  BY DEF MCInit
<1>2. [MCNext]_mcVars => [Next]_vars
  BY DEF MCNext, mcVars, vars
<1> QED BY <1>1, <1>2, PTL DEF MCSpec, Spec

LEMMA TaskPart == MCSpec => Task!Spec
<1>1. MCInit => Task!Init
  BY SMTT(30) DEF MCInit
<1>2. [MCNext]_mcVars => [Task!Next]_(Task!vars)
  BY DEF MCNext, mcVars, taskVars, Task!vars
<1> QED BY <1>1, <1>2, PTL DEF MCSpec, Task!Spec

\* EventDBProofs proves the theorems of the database connection about an instance
\* of its own; the two say the same.
DB == INSTANCE EventDBProofs WITH Scripts <- Answers

LEMMA SameInit == Database!Init => DB!Init
  BY DEF Database!Init, DB!Init

LEMMA SameNext == [Database!Next]_(Database!vars) => [DB!Next]_(DB!vars)
<1> USE DEF Database!dbVars, DB!dbVars, Database!queryVars, DB!queryVars, Database!End, DB!End,
            Database!NonBlocking, DB!NonBlocking, Database!Call, DB!Call, Database!Run, DB!Run,
            Database!Raise, DB!Raise, Database!Ask, DB!Ask, Database!Context, DB!Context,
            Database!moreResults, DB!moreResults, Database!NoSet, DB!NoSet
<1>1. UNCHANGED Database!vars => UNCHANGED DB!vars
  BY ZenonT(60) DEF Database!vars, DB!vars
<1>2. ASSUME NEW o, Database!Request(o)
      PROVE  DB!Request(o)
  BY ZenonT(60), <1>2 DEF Database!Request, DB!Request
<1>3. ASSUME NEW s, Database!Query(s)
      PROVE  DB!Query(s)
  BY ZenonT(60), <1>3 DEF Database!Query, DB!Query
<1>4. Database!Start => DB!Start
  BY ZenonT(60) DEF Database!Start, DB!Start
<1>5. Database!Store => DB!Store
  BY ZenonT(60) DEF Database!Store, DB!Store
<1>6. Database!Stored => DB!Stored
  BY ZenonT(60) DEF Database!Stored, DB!Stored
<1>7. Database!Fetch => DB!Fetch
  BY ZenonT(60) DEF Database!Fetch, DB!Fetch
<1>8. Database!Freed => DB!Freed
  BY ZenonT(60) DEF Database!Freed, DB!Freed
<1>9. Database!NextResult => DB!NextResult
  BY ZenonT(60) DEF Database!NextResult, DB!NextResult
<1>10. Database!Done => DB!Done
  BY ZenonT(60) DEF Database!Done, DB!Done
<1>11. Database!Pend => DB!Pend
  BY ZenonT(60) DEF Database!Pend, DB!Pend
<1>12. Database!Complete => DB!Complete
  BY Zenon DEF Database!Complete, DB!Complete
<1>13. Database!Answer => DB!Answer
  BY ZenonT(60) DEF Database!Answer, DB!Answer, Database!Effect, DB!Effect
<1>14. Database!Fail => DB!Fail
  BY DEF Database!Fail, DB!Fail
<1> QED
  BY Zenon, <1>1, <1>2, <1>3, <1>4, <1>5, <1>6, <1>7, <1>8, <1>9, <1>10, <1>11, <1>12, <1>13, <1>14
  DEF Database!Next, DB!Next, Database!Cases, DB!Cases, Database!Calls, DB!Calls

LEMMA DatabasePart == MCSpec => DB!Spec
<1>1. MCInit => DB!Init
  BY ZenonT(60), SameInit DEF MCInit
<1>2. [MCNext]_mcVars => [Database!Next]_(Database!vars)
  BY DEF MCNext, mcVars, databaseVars, Database!vars, Database!dbVars, Database!queryVars
<1> QED BY <1>1, <1>2, SameNext, PTL DEF MCSpec, DB!Spec

LEMMA AnswersOK == DB!ScriptsOK
  BY ZenonT(60), AnswersAssumption DEF AnswersAssumption, DB!ScriptsOK, DB!Rows

\* The server accepts whenever the list has room, unless connections that reached
\* their time to live made it.
THEOREM LoopAccepts == MCSpec => []AcceptsWithRoom
  BY ListenerPart, AcceptCorrect, PTL

\* process() sees a task's data in the order it was enqueued, and all of it before
\* complete() of a task that succeeds.
THEOREM LoopDelivers == MCSpec => []Delivered
<1>1. Task!Delivered => Delivered
  BY DEF Delivered
<1> QED BY <1>1, TaskPart, DataDelivered, PTL

\* The non-blocking calls that next() makes find what they assert, whichever of
\* them are pending first, fail or are retried.
THEOREM LoopCallsAreLegal == MCSpec => []AssertionsHold
<1>1. DB!AssertionsHold => AssertionsHold
  BY DEF DB!AssertionsHold, Database!AssertionsHold, AssertionsHold
<1>2. DB!Spec => []DB!AssertionsHold
  BY ZenonT(60), AnswersOK, DB!CallsAreLegal
<1> QED BY <1>1, <1>2, DatabasePart, PTL

\* A query that is DONE has shown its callback every result set and row once, in
\* order, however often it was suspended and retried.
THEOREM LoopShowsResults == MCSpec => []ResultsShown
<1>1. DB!ResultsShown => ResultsShown
  BY Zenon DEF DB!ResultsShown, ResultsShown, Database!ResultsShown, Database!ShownOf,
               DB!ShownOf, Database!Shown, DB!Shown, Database!NoSet, DB!NoSet
<1>2. DB!Spec => []DB!ResultsShown
  BY AnswersOK, DB!EveryResultShown
<1> QED BY <1>1, <1>2, DatabasePart, PTL
================================================================================
