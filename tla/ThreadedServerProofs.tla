------------------------- MODULE ThreadedServerProofs -------------------------
(***************************************************************************)
(* OneHolder, Attended, SharedOnlyLate and Bounded of ThreadedServer for   *)
(* every set of clients and workers and every maxConnections; and what the *)
(* operations of IPRanges, the ranges of addresses that the server admits  *)
(* or denies, do to any vector of ranges.                                  *)
(***************************************************************************)
EXTENDS ThreadedServer, IPRanges, TLAPS

\* A worker has a connection, or the queue does.
Held(c) == queue[c] > 0 \/ \E w \in Workers : Holding(w, c)

Busy == {"taken", "build", "built"}
Visiting == {"visit", "enqueue", "report", "timeouts"}

\* Threads have a connection exactly while their code does.
Places ==
  /\ \A w \in Workers : IF worker[w].at \in Busy THEN \E c \in Clients : worker[w].con = {c}
                                                 ELSE worker[w].con = {}
  /\ IF server.at \in Visiting THEN \E c \in Clients : server.con = {c} ELSE server.con = {}
  /\ server.con \subseteq connections /\ server.todo \subseteq connections
  /\ server.at = "accept" => server.todo = {}
  /\ connections \intersect backlog = {}
  /\ owner \in {"stopped", "waiting"} => \A w \in Workers : worker[w].at = "off"
  /\ owner \in {"stopped", "starting"} => server.at = "off"

\* A connection that is held is in a state in which only the server thread's
\* time-out, or the holder, moves it on; so it is not about to be queued, nor
\* about to read its next request, nor one that is still to be accepted; and it
\* is reported only when it is late.
HeldStates ==
  \A c \in Clients :
    /\ Held(c) => state[c] \in {"PROCESSING", "REPORTING", "CLOSING"}
    /\ At("enqueue", c) => state[c] = "PROCESSING" /\ ~Held(c)
    /\ At("report", c) /\ server.next = "READING_HEADER" => ~Held(c)
    /\ c \in backlog \/ c \notin arrived => ~Held(c)
    /\ Held(c) /\ (state[c] = "REPORTING" \/ At("report", c)) => c \in late

Safe == TypeOK /\ Places /\ HeldStates /\ OneHolder /\ Attended

LEMMA Initially == Init => Safe
<1> SUFFICES ASSUME Init PROVE Safe
  OBVIOUS
<1>1. TypeOK
  <2>1. /\ state \in [Clients -> States] /\ queue \in [Clients -> Nat]
        /\ server = Threadless /\ owner = "stopped" /\ starts \in 0..MaxStarts
        /\ worker = [w \in Workers |-> [at |-> "off", con |-> {}]]
    BY BoundsAreNatural DEF Init, States
  <2>2. /\ pool \subseteq Workers /\ arrived \subseteq Clients
        /\ backlog \subseteq arrived /\ connections \subseteq arrived
        /\ {late, delayed, persistent} \subseteq SUBSET Clients
        /\ quit \in BOOLEAN /\ shutdown \in BOOLEAN
    BY Zenon DEF Init
  <2>3. worker \in [Workers -> [at : {"off", "loop", "next", "taken", "build", "built"},
                               con : SUBSET Clients]]
    BY <2>1
  <2>4. server \in [at : {"off", "service", "process", "visit", "enqueue", "report", "timeouts",
                         "accept", "cleanup"},
                   con : SUBSET Clients, ready : SUBSET Clients, listen : BOOLEAN,
                   todo : SUBSET Clients, next : {"READING_HEADER", "CLOSING"}]
    BY <2>1 DEF Threadless
  <2> QED BY <2>1, <2>2, <2>3, <2>4 DEF TypeOK
<1>2. Places
  BY DEF Init, Places, Threadless, Busy, Visiting
<1>3. \A c \in Clients : ~Held(c)
  BY DEF Init, Held, Holding
<1>4. HeldStates /\ OneHolder /\ Attended
  BY <1>3 DEF Init, HeldStates, OneHolder, Attended, Threadless, At, Held
<1> QED BY <1>1, <1>2, <1>4 DEF Safe

\* The owner and the world: what they change holds no connection.
LEMMA OwnerSafe ==
  ASSUME Safe,
         (\E c \in Clients : Connect(c) \/ Expire(c)) \/ StartPool \/ Stop \/ Join \/ OwnerStep
  PROVE  Safe'
<1> USE DEF Safe, conVars, queueVars, clientVars, ownerVars
<1>1. CASE \E c \in Clients : Connect(c)
  <2>1. TypeOK' /\ Places'
    BY <1>1 DEF Connect, TypeOK, Places
  <2>2. HeldStates'
    BY <1>1 DEF Connect, TypeOK, HeldStates, Held, Holding, At
  <2>3. OneHolder' /\ Attended'
    BY <1>1 DEF Connect, OneHolder, Attended, Holding, At
  <2> QED BY <2>1, <2>2, <2>3
<1>2. CASE \E c \in Clients : Expire(c)
  BY <1>2 DEF Expire, TypeOK, Places, HeldStates, Held, OneHolder, Attended, Holding, At
<1>3. CASE StartPool
  <2>1. \A w \in Workers : worker[w].con = {} /\ worker'[w].con = {}
    BY <1>3 DEF StartPool, Places, Busy
  <2>2. TypeOK' /\ Places'
    BY <1>3, BoundsAreNatural DEF StartPool, TypeOK, Places, Busy
  <2>3. HeldStates' /\ OneHolder' /\ Attended'
    BY Zenon, <1>3, <2>1 DEF StartPool, HeldStates, Held, OneHolder, Attended, Holding, At
  <2> QED BY <2>2, <2>3
<1>4. CASE StartThread
  <2>1. server.con = {} /\ server'.con = {} /\ server'.at = "service"
    BY <1>4 DEF StartThread, Places, Visiting, Threadless
  <2>2. TypeOK' /\ Places'
    BY Zenon, <1>4, <2>1 DEF StartThread, TypeOK, Places, Threadless, Visiting
  <2>3. HeldStates' /\ OneHolder' /\ Attended'
    BY <1>4, <2>1 DEF StartThread, HeldStates, Held, OneHolder, Attended, Holding, At
  <2> QED BY <2>2, <2>3
<1>5. CASE Stop \/ Join \/ ShutdownQueue \/ JoinThread \/ Joined
  <2>1. UNCHANGED <<clientVars, conVars, queue, server, worker, starts>>
    BY <1>5 DEF Stop, Join, ShutdownQueue, JoinThread, Joined
  <2>2. /\ owner' \in {"stopping", "told", "joining", "waiting", "stopped"}
        /\ owner' \in {"stopped", "waiting"} => \A w \in Workers : worker[w].at = "off"
        /\ owner' = "stopped" => server.at = "off"
        /\ quit' \in BOOLEAN /\ shutdown' \in BOOLEAN
    BY Zenon, <1>5 DEF Stop, Join, ShutdownQueue, JoinThread, Joined, TypeOK, Places
  <2>3. TypeOK'
    BY <2>1, <2>2 DEF TypeOK
  <2>4. Places'
    BY <2>1, <2>2 DEF Places
  <2>5. HeldStates' /\ OneHolder' /\ Attended'
    BY <2>1 DEF HeldStates, Held, OneHolder, Attended, Holding, At
  <2> QED BY <2>3, <2>4, <2>5
<1>6. CASE StartFails
  <2>1. UNCHANGED <<clientVars, conVars, queueVars, server, worker, starts>>
    BY <1>6 DEF StartFails
  <2>2. owner = "starting" /\ owner' = "running" /\ shutdown' \in BOOLEAN
    BY <1>6 DEF StartFails, TypeOK
  <2>3. TypeOK' /\ Places'
    BY Zenon, <2>1, <2>2 DEF TypeOK, Places, Busy, Visiting
  <2>4. HeldStates' /\ OneHolder' /\ Attended'
    BY Zenon, <2>1 DEF HeldStates, Held, OneHolder, Attended, Holding, At
  <2> QED BY <2>3, <2>4
<1> QED BY <1>1, <1>2, <1>3, <1>4, <1>5, <1>6 DEF OwnerStep

\* The workers: a connection goes from the queue to one worker, and from there
\* to no holder, in a state that is no longer PROCESSING.
LEMMA WorkerSafe ==
  ASSUME Safe, NEW w \in Workers, WorkerStep(w)
  PROVE  Safe'
<1> USE DEF Safe, conVars, queueVars, clientVars, ownerVars
<1>1. CASE PoolThread(w)
  <2>1. \A v \in Workers : worker'[v].con = worker[v].con
    BY <1>1 DEF PoolThread, TypeOK
  <2>2. TypeOK' /\ Places'
    BY <1>1 DEF PoolThread, TypeOK, Places, Busy
  <2>3. HeldStates' /\ OneHolder' /\ Attended'
    BY <1>1, <2>1 DEF PoolThread, HeldStates, Held, OneHolder, Attended, Holding, At
  <2> QED BY <2>2, <2>3
<1>2. CASE NextConnection(w)
  <2>1. worker[w].con = {} /\ worker[w].at = "next"
    BY <1>2 DEF NextConnection, Places, Busy
  <2>2. CASE \E c \in Clients : /\ queue[c] > 0
                                /\ queue' = [queue EXCEPT ![c] = @ - 1]
                                /\ worker' = [worker EXCEPT ![w] = [at |-> "taken", con |-> {c}]]
    <3> PICK c \in Clients : /\ queue[c] > 0
                             /\ queue' = [queue EXCEPT ![c] = @ - 1]
                             /\ worker' = [worker EXCEPT ![w] = [at |-> "taken", con |-> {c}]]
      BY Zenon, <2>2
    <3>1. /\ UNCHANGED <<clientVars, conVars, quit, ownerVars, server>>
          /\ queue[c] = 1 /\ ~At("enqueue", c) /\ \A v \in Workers : ~Holding(v, c)
      BY <1>2 DEF NextConnection, OneHolder, TypeOK
    <3>2. /\ queue'[c] = 0 /\ Holding(w, c)'
          /\ \A v \in Workers \ {w} : worker'[v] = worker[v]
          /\ \A d \in Clients \ {c} : queue'[d] = queue[d] /\ ~Holding(w, d)'
      BY <3>1 DEF TypeOK, Holding
    <3>3. TypeOK' /\ Places'
      <4>1. queue' \in [Clients -> Nat]
        BY <3>1 DEF TypeOK
      <4>2. worker' \in [Workers -> [at : {"off", "loop", "next", "taken", "build", "built"},
                                     con : SUBSET Clients]]
        BY DEF TypeOK
      <4>3. TypeOK'
        BY <3>1, <4>1, <4>2 DEF TypeOK
      <4>4. Places'
        BY <2>1, <3>1, <3>2 DEF Places, TypeOK, Busy
      <4> QED BY <4>3, <4>4
    <3>4. \A d \in Clients : Held(d)' => Held(d)
      BY <3>1, <3>2 DEF Held, Holding
    <3>5. HeldStates'
      BY <3>1, <3>4 DEF HeldStates, At
    <3>6. OneHolder'
      BY <2>1, <3>1, <3>2 DEF OneHolder, Holding, At
    <3>7. Attended'
      BY <2>1, <3>1, <3>2 DEF Attended, Holding, At
    <3> QED BY <3>3, <3>5, <3>6, <3>7
  <2>3. CASE worker' = [worker EXCEPT ![w].at = "loop"] /\ UNCHANGED queue
    <3>1. \A v \in Workers : worker'[v].con = worker[v].con
      BY <2>3 DEF TypeOK
    <3>2. TypeOK' /\ Places'
      BY SMTT(30), <1>2, <2>1, <2>3 DEF NextConnection, TypeOK, Places, Busy
    <3>3. HeldStates' /\ OneHolder' /\ Attended'
      BY <1>2, <2>3, <3>1 DEF NextConnection, HeldStates, Held, OneHolder, Attended, Holding, At
    <3> QED BY <3>2, <3>3
  <2> QED BY <1>2, <2>2, <2>3 DEF NextConnection
<1>3. CASE Take(w) \/ Build(w) \/ Built(w)
  <2> PICK c \in Clients : worker[w].con = {c}
    BY <1>3 DEF Take, Build, Built, Places, Busy
  <2>1. UNCHANGED <<clientVars, connections, late, queueVars, ownerVars, server>>
    BY <1>3 DEF Take, Build, Built
  <2>2. CASE UNCHANGED state /\ worker' = [worker EXCEPT ![w].at = "build"]
    <3>1. \A v \in Workers : worker'[v].con = worker[v].con
      BY <2>2 DEF TypeOK
    <3>2. HeldStates' /\ OneHolder' /\ Attended'
      BY <2>1, <2>2, <3>1 DEF HeldStates, Held, OneHolder, Attended, Holding, At
    <3>3. TypeOK' /\ Places'
      BY SMTT(30), <1>3, <2>1, <2>2, <3>1 DEF Take, Build, Built, Drop, Fail, TypeOK, Places, Busy
    <3> QED BY <3>2, <3>3
  <2>3. CASE UNCHANGED state /\ worker' = [worker EXCEPT ![w].at = "built"]
    <3>1. \A v \in Workers : worker'[v].con = worker[v].con
      BY <2>3 DEF TypeOK
    <3>2. HeldStates' /\ OneHolder' /\ Attended'
      BY <2>1, <2>3, <3>1 DEF HeldStates, Held, OneHolder, Attended, Holding, At
    <3>3. TypeOK' /\ Places'
      BY <1>3, <2>1, <2>3, <3>1 DEF Take, Build, Built, Drop, Fail, TypeOK, Places, Busy
    <3> QED BY <3>2, <3>3
  <2>4. CASE /\ Drop(w)
             /\ \/ UNCHANGED state /\ state[c] # "PROCESSING"
                \/ /\ state' = [state EXCEPT ![c] = IF c \in delayed THEN "DELAY_PROCESSING"
                                                                     ELSE "WRITING_HEADER"]
    <3>1. /\ worker'[w].con = {} /\ worker'[w].at = "loop"
          /\ \A v \in Workers \ {w} : worker'[v] = worker[v]
      BY <2>4 DEF Drop, TypeOK
    <3>2. /\ state'[c] # "PROCESSING"
          /\ \A d \in Clients \ {c} : state'[d] = state[d]
      BY <2>4 DEF TypeOK
    <3>3. \A d \in Clients : Held(d)' => Held(d) /\ d # c
      BY <2>1, <3>1 DEF Held, Holding, OneHolder, TypeOK
    <3>4. HeldStates'
      BY <2>1, <3>1, <3>2, <3>3 DEF HeldStates, At, Held, Holding
    <3>5. OneHolder' /\ Attended'
      BY <2>1, <3>1, <3>2 DEF OneHolder, Attended, Holding, At
    <3>6. TypeOK'
      <4>1. state' \in [Clients -> States]
        BY <2>4 DEF TypeOK, States
      <4>2. worker' \in [Workers -> [at : {"off", "loop", "next", "taken", "build", "built"},
                                     con : SUBSET Clients]]
        BY <2>4 DEF TypeOK, Drop
      <4>3. {late, delayed, persistent}' \subseteq SUBSET Clients
        BY <1>3, <2>1 DEF Take, Build, Built, Fail, TypeOK
      <4> QED BY <2>1, <4>1, <4>2, <4>3 DEF TypeOK
    <3>7. Places'
      BY <2>1, <3>1, <1>3 DEF Places, Busy, Take, Build, Built
    <3> QED BY <3>4, <3>5, <3>6, <3>7
  <2> QED BY <1>3, <2>2, <2>3, <2>4 DEF Take, Build, Built, SetState
<1> QED BY <1>1, <1>2, <1>3 DEF WorkerStep

\* A step that leaves the queue and the workers alone and makes a connection
\* PROCESSING only where it is about to be queued has but its types, its places
\* and the states of the connections that are held to answer for.
LEMMA HoldersStay ==
  ASSUME Safe, UNCHANGED <<queue, worker>>, TypeOK', Places',
         \A c \in Clients : /\ Held(c) => state'[c] \in {"PROCESSING", "REPORTING", "CLOSING"}
                            /\ At("enqueue", c)' => state'[c] = "PROCESSING" /\ ~Held(c)
                            /\ At("report", c)' /\ server'.next = "READING_HEADER" => ~Held(c)
                            /\ (c \in backlog \/ c \notin arrived)' => ~Held(c)
                            /\ Held(c) /\ (state[c] = "REPORTING" \/ At("report", c))' => c \in late'
                            /\ state'[c] = "PROCESSING" =>
                                 At("enqueue", c)' \/ (state[c] = "PROCESSING" /\ ~At("enqueue", c))
  PROVE  Safe'
<1>1. \A c \in Clients : /\ Held(c)' <=> Held(c)
                         /\ \A w \in Workers : Holding(w, c)' <=> Holding(w, c)
  BY DEF Held, Holding
<1>2. HeldStates'
  BY <1>1 DEF HeldStates
<1>3. OneHolder'
  BY <1>1 DEF Safe, OneHolder, Held, TypeOK
<1>4. Attended'
  BY <1>1 DEF Safe, Attended
<1> QED BY <1>2, <1>3, <1>4 DEF Safe

\* The loop of the server thread around the visits.
LEMMA LoopSafe ==
  ASSUME Safe, Select \/ ProcessConnections \/ AcceptNone \/ Cleanup \/ Exit
                 \/ \E c \in Clients : Visit(c)
  PROVE  Safe'
<1> USE DEF Safe, conVars, queueVars, clientVars, ownerVars
<1>1. CASE Select
  <2>1. TypeOK'
    <3> PICK ready \in SUBSET Watched, listen \in BOOLEAN :
          server' = [server EXCEPT
            !.at = IF ready # {} \/ listen \/ ConnectionsReady THEN "process" ELSE "cleanup",
            !.ready = ready, !.listen = listen, !.todo = connections]
      BY Zenon, <1>1 DEF Select
    <3>1. ready \subseteq Clients /\ connections \subseteq Clients
      BY SMTT(30) DEF TypeOK, Watched
    <3> QED BY ZenonT(60), <1>1, <3>1 DEF TypeOK, Select
  <2>2. Places'
    BY ZenonT(60), <1>1 DEF TypeOK, Places, Visiting, Select, Watched
  <2> QED
    BY ZenonT(60), <1>1, <2>1, <2>2, HoldersStay DEF TypeOK, HeldStates, At, Select, Watched
<1>2. CASE ProcessConnections
  <2>1. TypeOK'
    BY Zenon, <1>2 DEF TypeOK, ProcessConnections
  <2>2. Places'
    BY <1>2 DEF TypeOK, Places, Visiting, ProcessConnections
  <2> QED
    BY <1>2, <2>1, <2>2, HoldersStay DEF TypeOK, HeldStates, At, ProcessConnections
<1>3. CASE AcceptNone
  <2>1. TypeOK'
    BY <1>3 DEF TypeOK, AcceptNone, Goto
  <2>2. Places'
    BY <1>3 DEF TypeOK, Places, Visiting, AcceptNone, Goto
  <2> QED
    BY ZenonT(60), <1>3, <2>1, <2>2, HoldersStay DEF TypeOK, HeldStates, At, AcceptNone, Goto
<1>4. CASE Cleanup
  <2>1. TypeOK'
    BY ZenonT(60), <1>4 DEF TypeOK, Cleanup, Close, Closing, Threadless
  <2>2. Places'
    BY <1>4 DEF TypeOK, Places, Visiting, Cleanup, Close, Closing, Threadless
  <2> QED
    BY <1>4, <2>1, <2>2, HoldersStay
    DEF TypeOK, HeldStates, At, Cleanup, Close, Closing, Threadless
<1>5. CASE Exit
  <2>1. TypeOK'
    BY SMTT(30), <1>5 DEF TypeOK, Exit, Close, Threadless, States
  <2>2. Places'
    BY ZenonT(60), <1>5 DEF TypeOK, Places, Visiting, Exit, Close, Threadless, States
  <2> QED
    BY Zenon, <1>5, <2>1, <2>2, HoldersStay DEF TypeOK, HeldStates, At, Exit, Close, Threadless, States
<1>6. ASSUME NEW c \in Clients, Visit(c) PROVE Safe'
  <2>1. server' = [at |-> "visit", con |-> {c}, ready |-> server.ready, listen |-> server.listen,
                   todo |-> server.todo \ {c}, next |-> server.next]
    BY ZenonT(60), <1>6 DEF TypeOK, Visit
  <2>2. /\ UNCHANGED <<clientVars, conVars, queueVars, ownerVars, worker>>
        /\ server.at = "process" /\ c \in server.todo
    BY Zenon, <1>6 DEF Visit
  <2>3. /\ server'.con = {c} /\ server'.todo = server.todo \ {c} /\ server'.at = "visit"
        /\ server.todo \ {c} \subseteq server.todo
    BY <2>1
  <2>4. TypeOK'
    <3>1. server' \in [at : {"off", "service", "process", "visit", "enqueue", "report", "timeouts",
                            "accept", "cleanup"},
                      con : SUBSET Clients, ready : SUBSET Clients, listen : BOOLEAN,
                      todo : SUBSET Clients, next : {"READING_HEADER", "CLOSING"}]
      <4>1. /\ {c} \in SUBSET Clients /\ server.todo \ {c} \in SUBSET Clients
            /\ server.ready \in SUBSET Clients /\ server.listen \in BOOLEAN
            /\ server.next \in {"READING_HEADER", "CLOSING"}
        BY SMTT(30), <2>3 DEF TypeOK
      <4> HIDE DEF Safe
      <4> QED BY <2>1, <4>1
    <3> QED BY <2>2, <3>1 DEF TypeOK
  <2>5. Places'
    <3>1. server'.todo \subseteq connections
      BY <2>3 DEF Places
    <3>2. server'.con \subseteq connections
      BY <2>2, <2>3 DEF Places
    <3> QED BY ZenonT(60), <2>2, <2>3, <3>1, <3>2 DEF Places, Visiting
  <2> QED
    BY SMTT(30), <2>2, <2>3, <2>4, <2>5, HoldersStay DEF HeldStates, At
<1> QED BY SMTT(30), <1>1, <1>2, <1>3, <1>4, <1>5, <1>6

\* A visit of the server thread to one connection, but for the queueing.
LEMMA VisitSafe ==
  ASSUME Safe, NEW c \in Clients,
         \/ Pass(c) \/ Partial(c) \/ Abort(c) \/ ReadHeader(c) \/ ReadData(c) \/ Restart(c)
         \/ WriteHeader(c) \/ WriteData(c) \/ Report(c) \/ Reported(c) \/ ReportThrows(c)
         \/ Timeouts(c)
  PROVE  Safe'
<1> USE DEF Safe, conVars, queueVars, clientVars, ownerVars
<1>1. CASE Pass(c)
  <2>1. TypeOK'
    BY <1>1 DEF TypeOK, States, Pass, At, Goto, Watched
  <2>2. Places'
    BY <1>1 DEF TypeOK, Places, Visiting, Pass, At, Goto, Watched
  <2> QED
    BY ZenonT(60), <1>1, <2>1, <2>2, HoldersStay
    DEF TypeOK, Places, Visiting, HeldStates, Pass, At, Goto, Watched
<1>2. CASE Partial(c)
  <2>1. TypeOK'
    BY <1>2 DEF TypeOK, States, Partial, At, Goto, Transfer, Watched
  <2>2. Places'
    BY SMTT(30), <1>2 DEF TypeOK, Places, Visiting, Partial, At, Goto, Transfer, Watched
  <2> QED
    BY <1>2, <2>1, <2>2, HoldersStay
    DEF TypeOK, Places, Visiting, HeldStates, Partial, At, Goto, Transfer, Watched
<1>3. CASE Abort(c)
  <2>1. TypeOK'
    BY <1>3 DEF TypeOK, States, Abort, At, Fail, SetState, Watched
  <2>2. Places'
    BY <1>3 DEF TypeOK, Places, Visiting, Abort, At, Fail, SetState, Watched
  <2> QED
    BY ZenonT(60), <1>3, <2>1, <2>2, HoldersStay
    DEF TypeOK, Places, Visiting, HeldStates, Abort, At, Fail, SetState, Watched
<1>4. CASE ReadHeader(c)
  <2>1. TypeOK'
    BY <1>4 DEF TypeOK, States, ReadHeader, At, ReadyIn, Transfer, Fail, SetState
  <2>2. Places'
    BY <1>4 DEF TypeOK, Places, Visiting, ReadHeader, At, ReadyIn, Transfer, Fail, SetState
  <2>3. /\ UNCHANGED <<clientVars, queueVars, server, worker>>
        /\ At("visit", c) /\ ~Held(c) /\ state'[c] \in {"WRITING_HEADER", "READING_DATA"}
        /\ \A d \in Clients \ {c} : state'[d] = state[d] /\ (d \in late => d \in late')
    BY ZenonT(60), <1>4 DEF TypeOK, HeldStates, ReadHeader, ReadyIn, Transfer, SetState
  <2> QED
    BY <2>1, <2>2, <2>3, HoldersStay DEF HeldStates, At
<1>5. CASE ReadData(c)
  <2>1. TypeOK'
    BY <1>5 DEF TypeOK, States, ReadData, At, ReadyIn, Transfer, SetState, Goto
  <2>2. Places'
    BY ZenonT(60), <1>5 DEF TypeOK, Places, Visiting, ReadData, At, ReadyIn, Transfer, SetState, Goto
  <2> QED
    BY <1>5, <2>1, <2>2, HoldersStay
    DEF TypeOK, Places, Visiting, HeldStates, ReadData, At, ReadyIn, Transfer, SetState,
        Goto
<1>6. CASE Restart(c)
  <2>1. TypeOK'
    BY ZenonT(60), <1>6 DEF TypeOK, States, Restart, At, SetState, Goto
  <2>2. Places'
    BY <1>6 DEF TypeOK, Places, Visiting, Restart, At, SetState, Goto
  <2> QED
    BY SMTT(30), <1>6, <2>1, <2>2, HoldersStay
    DEF TypeOK, Places, Visiting, HeldStates, Restart, At, SetState, Goto
<1>7. CASE WriteHeader(c)
  <2>1. TypeOK'
    BY <1>7 DEF TypeOK, States, WriteHeader, At, ReadyIn, Transfer, SetState
  <2>2. Places'
    BY <1>7 DEF TypeOK, Places, Visiting, WriteHeader, At, ReadyIn, Transfer, SetState
  <2> QED
    BY ZenonT(60), <1>7, <2>1, <2>2, HoldersStay
    DEF TypeOK, Places, Visiting, HeldStates, WriteHeader, At, ReadyIn, Transfer, SetState
<1>8. CASE WriteData(c)
  <2>1. TypeOK'
    BY ZenonT(60), <1>8 DEF TypeOK, States, WriteData, At, ReadyIn, Transfer, SetState
  <2>2. Places'
    BY <1>8 DEF TypeOK, Places, Visiting, WriteData, At, ReadyIn, Transfer, SetState
  <2> QED
    BY <1>8, <2>1, <2>2, HoldersStay
    DEF TypeOK, Places, Visiting, HeldStates, WriteData, At, ReadyIn, Transfer, SetState
<1>9. CASE Report(c)
  <2>1. TypeOK'
    BY Zenon, <1>9 DEF TypeOK, States, Report, At
  <2>2. Places'
    BY ZenonT(60), <1>9 DEF TypeOK, Places, Visiting, Report, At
  <2> QED
    BY <1>9, <2>1, <2>2, HoldersStay DEF TypeOK, Places, Visiting, HeldStates, Report, At
<1>10. CASE Reported(c)
  <2>1. TypeOK'
    BY <1>10 DEF TypeOK, States, Reported, At, SetState, Goto
  <2>2. Places'
    BY ZenonT(60), <1>10 DEF TypeOK, Places, Visiting, Reported, At, SetState, Goto
  <2> QED
    BY SMTT(30), <1>10, <2>1, <2>2, HoldersStay
    DEF TypeOK, Places, Visiting, HeldStates, Reported, At, SetState, Goto
<1>11. CASE ReportThrows(c)
  <2>1. \/ /\ server' = [server EXCEPT !.at = "visit"]
           /\ BeforeReporting(c) /\ state' = [state EXCEPT ![c] = "REPORTING"]
        \/ /\ server' = [at |-> "process", con |-> {}, ready |-> server.ready \ server.con,
                         listen |-> server.listen, todo |-> server.todo, next |-> "CLOSING"]
           /\ UNCHANGED state
    BY Zenon, <1>11 DEF TypeOK, ReportThrows, SetState, Goto, Return
  <2>2. TypeOK'
    BY <1>11, <2>1 DEF TypeOK, States, ReportThrows, Fail
  <2>3. Places'
    BY <1>11, <2>1 DEF TypeOK, Places, Visiting, ReportThrows, At
  <2> QED
    BY <1>11, <2>1, <2>2, <2>3, HoldersStay
    DEF TypeOK, HeldStates, ReportThrows, At, BeforeReporting
<1>12. CASE Timeouts(c)
  <2>1. \/ /\ server' = [server EXCEPT !.at = "visit"]
           /\ BeforeReporting(c) /\ state' = [state EXCEPT ![c] = "REPORTING"]
        \/ /\ server' = [at |-> "process", con |-> {}, ready |-> server.ready \ server.con,
                         listen |-> server.listen, todo |-> server.todo, next |-> "CLOSING"]
           /\ UNCHANGED state
    BY Zenon, <1>12 DEF TypeOK, Timeouts, SetState, Goto, Return
  <2>2. TypeOK'
    BY <1>12, <2>1 DEF TypeOK, States, Timeouts
  <2>3. Places'
    BY <1>12, <2>1 DEF TypeOK, Places, Visiting, Timeouts, At
  <2> QED
    BY <1>12, <2>1, <2>2, <2>3, HoldersStay
    DEF TypeOK, HeldStates, Timeouts, At, BeforeReporting
<1> QED BY ZenonT(60), <1>1, <1>2, <1>3, <1>4, <1>5, <1>6, <1>7, <1>8, <1>9, <1>10, <1>11, <1>12

\* Queueing a connection that nobody holds.
LEMMA EnqueueSafe ==
  ASSUME Safe, NEW c \in Clients, Enqueue(c)
  PROVE  Safe'
<1> USE DEF Safe, conVars, queueVars, clientVars, ownerVars
<1>1. /\ server' = [server EXCEPT !.at = "timeouts"] /\ server.con = {c} /\ server.at = "enqueue"
      /\ UNCHANGED <<clientVars, conVars, quit, ownerVars, worker>>
  BY DEF Enqueue, Goto, At, Places, Visiting
<1>2. state[c] = "PROCESSING" /\ ~Held(c) /\ c \in connections
  BY <1>1 DEF HeldStates, At, Places
<1>3. /\ queue[c] = 0 /\ queue'[c] = 1 /\ queue' \in [Clients -> Nat]
      /\ \A d \in Clients \ {c} : queue'[d] = queue[d]
  BY <1>2 DEF Enqueue, Held, TypeOK
<1>4. TypeOK'
  BY <1>1, <1>3 DEF TypeOK
<1>5. Places'
  BY <1>1 DEF TypeOK, Places, Visiting
<1>6. \A d \in Clients : Held(d)' => Held(d) \/ d = c
  BY <1>1, <1>3 DEF Held, Holding
<1>7. HeldStates'
  BY <1>1, <1>2, <1>6 DEF HeldStates, At, TypeOK, Places
<1>8. OneHolder'
  BY <1>1, <1>2, <1>3 DEF OneHolder, At, Holding, Held, TypeOK
<1>9. Attended'
  BY <1>1, <1>3 DEF Attended, At, Holding, TypeOK
<1> QED BY <1>4, <1>5, <1>7, <1>8, <1>9

\* Accepting a client, or not.
LEMMA AcceptSafe ==
  ASSUME Safe, NEW c \in Clients, Deny(c) \/ Accept(c)
  PROVE  Safe'
<1> USE DEF Safe, conVars, queueVars, clientVars, ownerVars
<1>1. CASE Deny(c)
  <2>1. TypeOK'
    BY <1>1 DEF TypeOK, Deny
  <2>2. Places'
    BY ZenonT(60), <1>1 DEF TypeOK, Places, Deny
  <2> QED BY <1>1, <2>1, <2>2, HoldersStay DEF HeldStates, At, Deny
<1>2. CASE Accept(c)
  <2>1. /\ server.at = "accept" /\ server.con = {} /\ server.todo = {}
        /\ c \in backlog /\ c \notin connections /\ ~Held(c) /\ backlog' = backlog \ {c}
        /\ UNCHANGED <<pool, arrived, queueVars, ownerVars, worker>>
    BY <1>2 DEF Accept, Places, Visiting, HeldStates
  <2>2. PICK drop \in Drops :
          /\ Close(connections \ (connections \ (Closing \union drop)))
          /\ connections' \subseteq connections \union {c}
          /\ \/ server' = [server EXCEPT !.at = "cleanup"]
             \/ UNCHANGED server
          /\ \/ state' = [d \in Clients |-> IF d \in drop THEN "CLOSING" ELSE state[d]]
             \/ state' = [d \in Clients |-> IF d = c THEN "READING_HEADER"
                                            ELSE IF d \in drop THEN "CLOSING" ELSE state[d]]
    BY Zenon, <1>2 DEF Accept, Goto
  <2>3. state' \in [Clients -> States]
    BY <2>2 DEF TypeOK, States
  <2>4. {late, delayed, persistent}' \subseteq SUBSET Clients
    BY <2>2 DEF TypeOK, Close
  <2>5. /\ server' \in [at : {"off", "service", "process", "visit", "enqueue", "report",
                             "timeouts", "accept", "cleanup"},
                       con : SUBSET Clients, ready : SUBSET Clients, listen : BOOLEAN,
                       todo : SUBSET Clients, next : {"READING_HEADER", "CLOSING"}]
        /\ server'.at \in {"accept", "cleanup"} /\ server'.con = {} /\ server'.todo = {}
    BY <2>1, <2>2 DEF TypeOK
  <2>6. connections' \subseteq arrived /\ backlog' \subseteq arrived
    BY <2>1, <2>2 DEF TypeOK
  <2>7. TypeOK'
    BY <2>1, <2>3, <2>4, <2>5, <2>6 DEF TypeOK
  <2>8. Places'
    BY <2>1, <2>2, <2>5 DEF Places, Visiting
  <2>9. \A d \in Clients : /\ Held(d) => state'[d] \in {state[d], "CLOSING"}
                           /\ state'[d] = "PROCESSING" => state[d] = "PROCESSING"
    BY <2>1, <2>2
  <2>10. \A d \in Clients : d \in late /\ state'[d] = "REPORTING" => d \in late'
    BY <2>2 DEF Close, Closing
  <2>11. \A d \in Clients : Held(d) /\ state'[d] = "REPORTING" => d \in late
    BY <2>9 DEF HeldStates
  <2> QED BY ZenonT(60), <2>1, <2>5, <2>7, <2>8, <2>9, <2>10, <2>11, HoldersStay DEF HeldStates, At
<1> QED BY ZenonT(60), <1>1, <1>2

\* The inductive invariant behind the theorems that follow.
THEOREM Invariance == Spec => []Safe
<1>1. Safe /\ [Next]_vars => Safe'
  <2> SUFFICES ASSUME Safe, [Next]_vars PROVE Safe'
    BY ZenonT(60)
  <2>1. CASE UNCHANGED vars
    <3>1. \A c \in Clients : Held(c)' <=> Held(c)
      BY <2>1 DEF Held, Holding, vars, queueVars
    <3> QED
      BY <2>1, <3>1 DEF vars, clientVars, conVars, queueVars, ownerVars, Safe, TypeOK, Places,
                        HeldStates, OneHolder, Attended, Holding, At
  <2>2. CASE ServerStep \/ Exit
    BY <2>2, LoopSafe, VisitSafe, EnqueueSafe, AcceptSafe DEF ServerStep
  <2>3. CASE \E w \in Workers : WorkerStep(w)
    BY <2>3, WorkerSafe
  <2> QED BY <2>1, <2>2, <2>3, OwnerSafe DEF Next
<1> QED BY Initially, <1>1, PTL DEF Spec

\* No connection ever has two threads at work on it (OneHolder): what
\* processConnection() queues is with nobody else, whatever the time-outs did.
THEOREM OneThreadEach == Spec => []OneHolder
<1>1. Safe => OneHolder
  BY DEF Safe
<1> QED BY <1>1, Invariance, PTL

\* A connection that is PROCESSING is queued, held, or being queued (Attended).
THEOREM NoneForgotten == Spec => []Attended
<1>1. Safe => Attended
  BY DEF Safe
<1> QED BY <1>1, Invariance, PTL

\* The server thread reports a connection that a worker still has only after a
\* time-out (SharedOnlyLate).
THEOREM SharedAfterTimeout == Spec => []SharedOnlyLate
<1>1. Safe => SharedOnlyLate
  BY DEF Safe, HeldStates, Held, SharedOnlyLate
<1> QED BY <1>1, Invariance, PTL

--------------------------------------------------------------------------------
(* The vector of ranges.                                                   *)

INSTANCE WellFoundedInduction

\* The intervals of positions that find() searches.
Pairs(s) == (0..Len(s)) \X (0..Len(s))

\* One turn of the bisection of r
Turn(s, ip, f, r) ==
    LET mid == (r[2] - r[1]) \div 2 + r[1]
    IN  IF r[1] >= r[2] THEN r[1]
        ELSE IF Nth(s, mid) = ip THEN IF Odd(mid) THEN mid ELSE mid + 1
        ELSE IF ip < Nth(s, mid) THEN f[<<r[1], mid>>]
        ELSE f[<<mid + 1, r[2]>>]

\* f is the recursive function of find().
IsSeek(s, ip, f) == f = [r \in Pairs(s) |-> Turn(s, ip, f, r)]

\* The halves that the bisection goes on with are smaller intervals of positions.
LEMMA Halves ==
  ASSUME NEW s \in Seq(Int), NEW r \in Pairs(s), r[1] < r[2],
         NEW mid, mid = (r[2] - r[1]) \div 2 + r[1]
  PROVE  /\ mid \in Nat /\ r[1] <= mid /\ mid < r[2] /\ r[2] <= Len(s)
         /\ <<r[1], mid>> \in Pairs(s) /\ mid - r[1] < r[2] - r[1]
         /\ <<mid + 1, r[2]>> \in Pairs(s) /\ r[2] - (mid + 1) < r[2] - r[1]
<1> DEFINE a == r[1]
           b == r[2]
<1>1. a \in 0..Len(s) /\ b \in 0..Len(s)
  BY DEF Pairs
<1> HIDE DEF a, b
<1>2. Len(s) \in Nat
  OBVIOUS
<1>3. mid \in Nat /\ a <= mid /\ mid < b
  <2>1. mid = (b - a) \div 2 + a /\ a < b
    BY DEF a, b
  <2> QED BY <1>1, <1>2, <2>1
<1>4. <<a, mid>> \in Pairs(s) /\ <<mid + 1, b>> \in Pairs(s)
  <2>1. mid \in 0..Len(s) /\ mid + 1 \in 0..Len(s)
    BY <1>1, <1>2, <1>3
  <2> QED BY <1>1, <2>1, Zenon DEF Pairs
<1>5. b <= Len(s) /\ mid - a < b - a /\ b - (mid + 1) < b - a
  BY <1>1, <1>2, <1>3
<1> QED BY <1>3, <1>4, <1>5 DEF a, b

\* Functions that agree on the smaller intervals leave a turn the same.
LEMMA TurnLocal ==
  ASSUME NEW s \in Seq(Int), NEW ip, NEW f, NEW g, NEW r \in Pairs(s),
         \A x \in Pairs(s) : x[2] - x[1] < r[2] - r[1] => f[x] = g[x]
  PROVE  Turn(s, ip, f, r) = Turn(s, ip, g, r)
<1> DEFINE mid == (r[2] - r[1]) \div 2 + r[1]
<1>1. CASE r[1] >= r[2]
  BY <1>1, Zenon DEF Turn
<1>2. CASE ~(r[1] >= r[2])
  <2>0. r[1] < r[2]
    BY <1>2 DEF Pairs
  <2> HIDE DEF mid
  <2>1. /\ <<r[1], mid>> \in Pairs(s) /\ mid - r[1] < r[2] - r[1]
        /\ <<mid + 1, r[2]>> \in Pairs(s) /\ r[2] - (mid + 1) < r[2] - r[1]
    BY <2>0, Halves, Zenon DEF mid
  <2>2. f[<<r[1], mid>>] = g[<<r[1], mid>>]
    BY <2>1
  <2>3. f[<<mid + 1, r[2]>>] = g[<<mid + 1, r[2]>>]
    BY <2>1
  <2> QED BY <2>2, <2>3, Zenon DEF Turn, mid
<1> QED BY <1>1, <1>2

\* A set of numbers has a least one; the inductions below take the least
\* counterexample.
LEMMA LeastNumber ==
  ASSUME NEW S, S \subseteq Nat, S # {}
  PROVE  \E x \in S : \A y \in S : x <= y
<1> DEFINE R == {ss \in Nat \X Nat : ss[1] < ss[2]}
<1>1. IsWellFoundedOn(R, Nat)
  BY NatLessThanWellFounded DEF OpToRel
<1> HIDE DEF R
<1>2. PICK x \in S : \A y \in S : ~(<<y, x>> \in R)
  BY <1>1, WFMin, Zenon
<1>3. \A y \in S : ~(y < x)
  BY <1>2, Zenon DEF R
<1> QED BY <1>3

\* f is right on the intervals of at most n positions.
Right(s, ip, f, n) ==
  /\ f = [r \in Pairs(s) |-> f[r]]
  /\ \A r \in Pairs(s) : r[2] - r[1] <= n => f[r] = Turn(s, ip, f, r)

\* There is a function that is right everywhere.
LEMMA SeekExists ==
  ASSUME NEW s \in Seq(Int), NEW ip
  PROVE  \E f : IsSeek(s, ip, f)
<1> DEFINE Bad == {n \in Nat : ~\E f : Right(s, ip, f, n)}
<1>1. Bad = {}
  <2> SUFFICES ASSUME Bad # {} PROVE FALSE
    OBVIOUS
  <2>1. PICK n \in Bad : \A m \in Bad : n <= m
    <3>1. Bad \subseteq Nat
      OBVIOUS
    <3> HIDE DEF Bad
    <3> QED BY Zenon, <3>1, LeastNumber
  <2>2. n \in Nat /\ ~\E f : Right(s, ip, f, n)
    OBVIOUS
  <2>3. \E g : /\ g = [r \in Pairs(s) |-> g[r]]
               /\ \A r \in Pairs(s) : r[2] - r[1] < n => g[r] = Turn(s, ip, g, r)
    <3>1. CASE n = 0
      <4> DEFINE g == [r \in Pairs(s) |-> r[1]]
      <4>1. g = [r \in Pairs(s) |-> g[r]]
        BY Zenon
      <4>2. ASSUME NEW r \in Pairs(s), r[2] - r[1] < n PROVE g[r] = Turn(s, ip, g, r)
        <5>1. r[1] >= r[2]
          BY <3>1, <4>2 DEF Pairs
        <5>2. g[r] = r[1]
          BY Zenon
        <5> QED BY <5>1, <5>2, Zenon DEF Turn
      <4> HIDE DEF g
      <4> QED BY <4>1, <4>2, Zenon
    <3>2. CASE n # 0
      <4>1. n - 1 \in Nat /\ n - 1 \notin Bad
        BY <2>1, <2>2, <3>2
      <4>2. PICK g : Right(s, ip, g, n - 1)
        BY <4>1, Zenon
      <4>3. \A r \in Pairs(s) : r[2] - r[1] < n => r[2] - r[1] <= n - 1
        BY <2>2 DEF Pairs
      <4> QED BY <4>2, <4>3, Zenon DEF Right
    <3> QED BY <3>1, <3>2
  <2>4. PICK g : /\ g = [r \in Pairs(s) |-> g[r]]
                 /\ \A r \in Pairs(s) : r[2] - r[1] < n => g[r] = Turn(s, ip, g, r)
    BY <2>3
  <2> DEFINE f == [r \in Pairs(s) |-> Turn(s, ip, g, r)]
  <2>5. ASSUME NEW r \in Pairs(s), r[2] - r[1] < n PROVE f[r] = g[r]
    BY <2>4, <2>5, Zenon
  <2>6. ASSUME NEW r \in Pairs(s), r[2] - r[1] <= n PROVE f[r] = Turn(s, ip, f, r)
    <3>1. f[r] = Turn(s, ip, g, r)
      BY Zenon
    <3> HIDE DEF f
    <3>2. \A x \in Pairs(s) : x[2] - x[1] < r[2] - r[1] => f[x] = g[x]
      <4>1. \A x \in Pairs(s) : x[2] - x[1] < r[2] - r[1] => x[2] - x[1] < n
        BY <2>2, <2>6 DEF Pairs
      <4> QED BY <4>1, <2>5, Zenon
    <3> QED BY <3>1, <3>2, TurnLocal, Zenon
  <2>7. f = [r \in Pairs(s) |-> f[r]]
    BY Zenon
  <2> HIDE DEF f
  <2> QED BY <2>2, <2>6, <2>7, Zenon DEF Right
<1>2. Len(s) \in Nat
  OBVIOUS
<1>3. PICK f : Right(s, ip, f, Len(s))
  BY <1>1, <1>2, Zenon
<1>4. \A r \in Pairs(s) : r[2] - r[1] <= Len(s)
  BY <1>2 DEF Pairs
<1> QED BY <1>3, <1>4, Zenon DEF Right, IsSeek

\* The numbers never fall, and only the end of a range repeats the number before it:
\* a range of one address has its start and end equal.
Vector(s) ==
  /\ s \in Seq(Int) /\ Len(s) % 2 = 0
  /\ \A i \in 1..(Len(s) - 1) : s[i] <= s[i + 1] /\ (s[i] = s[i + 1] => (i + 1) % 2 = 0)

\* What find() promises: an odd position is inside a range, an even one between
\* two of them.
Position(s, ip, p) ==
  /\ p \in 0..Len(s)
  /\ p % 2 = 1 => s[p] <= ip /\ ip <= s[p + 1]
  /\ p % 2 = 0 => (p > 0 => s[p] < ip) /\ (p < Len(s) => ip < s[p + 1])

\* What is outside of the interval r is less, or greater, than ip.
Around(s, ip, r) ==
  /\ r \in Pairs(s) /\ r[1] <= r[2]
  /\ r[1] > 0 => s[r[1]] < ip
  /\ r[2] < Len(s) => ip < s[r[2] + 1]

\* An odd position is between two others.
LEMMA OddInside ==
  ASSUME NEW n \in Nat, NEW l \in Nat, n <= l, l % 2 = 0, n % 2 = 1
  PROVE  0 < n /\ n + 1 <= l
OBVIOUS

\* An even position that is not the last has a range after it.
LEMMA EvenInside ==
  ASSUME NEW n \in Nat, NEW l \in Nat, n < l, l % 2 = 0, n % 2 # 1
  PROVE  (n + 1) % 2 = 1 /\ n + 2 <= l
OBVIOUS

\* Neighbours of a vector.
LEMMA Neighbours ==
  ASSUME NEW s, Vector(s), NEW i \in 1..Len(s), i + 1 <= Len(s)
  PROVE  /\ s[i] \in Int /\ s[i + 1] \in Int /\ s[i] <= s[i + 1]
         /\ s[i] = s[i + 1] => (i + 1) % 2 = 0
<1>0. s \in Seq(Int)
  BY DEF Vector
<1>1. Len(s) \in Nat
  BY <1>0
<1>2. i + 1 \in 1..Len(s) /\ i \in 1..(Len(s) - 1)
  BY <1>1
<1>3. s[i] \in Int /\ s[i + 1] \in Int
  BY <1>0, <1>2
<1> QED BY Zenon, <1>2, <1>3 DEF Vector

\* A vector rises, and only the two ends of a range may be the same.
Rises(s, i, j) == s[i] <= s[j] /\ (s[i] = s[j] => j = i + 1 /\ j % 2 = 0)

\* What holds of neighbours holds at a distance.
LEMMA Rising ==
  ASSUME NEW s, Vector(s), NEW i \in 1..Len(s), NEW j \in 1..Len(s), i < j
  PROVE  s[i] \in Int /\ s[j] \in Int /\ Rises(s, i, j)
<1>1. Len(s) \in Nat /\ s \in Seq(Int)
  BY DEF Vector
<1>2. \A m \in 1..Len(s) : s[m] \in Int
  BY <1>1
<1> DEFINE Bad == {m \in Nat : m \in (i + 1)..Len(s) /\ ~Rises(s, i, m)}
<1>3. Bad = {}
  <2> SUFFICES ASSUME Bad # {} PROVE FALSE
    OBVIOUS
  <2>1. PICK m \in Bad : \A x \in Bad : m <= x
    <3>1. Bad \subseteq Nat
      OBVIOUS
    <3> HIDE DEF Bad
    <3> QED BY Zenon, <3>1, LeastNumber
  <2>2. m \in Nat /\ m \in (i + 1)..Len(s) /\ ~Rises(s, i, m)
    OBVIOUS
  <2>3. CASE m = i + 1
    BY <1>1, <2>2, <2>3, Neighbours DEF Rises
  <2>4. CASE m # i + 1
    <3>1. /\ m - 1 \in (i + 1)..Len(s) /\ m - 1 \in 1..Len(s) /\ m - 1 \in Nat
          /\ m - 1 + 1 = m /\ m - 1 + 1 <= Len(s) /\ ~(m <= m - 1) /\ m \in 1..Len(s)
      BY <1>1, <2>2, <2>4
    <3>2. Rises(s, i, m - 1)
      BY Zenon, <2>1, <3>1
    <3>3. s[m - 1] <= s[m] /\ (s[m - 1] = s[m] => m % 2 = 0)
      BY Zenon, <3>1, Neighbours
    <3>4. s[i] \in Int /\ s[m - 1] \in Int /\ s[m] \in Int
      BY Zenon, <1>2, <3>1
    <3>5. s[i] <= s[m - 1] /\ (s[i] = s[m - 1] => m - 1 = i + 1 /\ (m - 1) % 2 = 0)
      BY Zenon, <3>2 DEF Rises
    <3>6. s[i] <= s[m]
      BY SMTT(30), SMTT(60), <3>3, <3>4, <3>5
    <3>7. ASSUME s[i] = s[m] PROVE FALSE
      <4>1. s[i] = s[m - 1] /\ s[m - 1] = s[m]
        BY <3>3, <3>4, <3>5, <3>7
      <4>2. m % 2 = 0 /\ (m - 1) % 2 = 0
        BY <3>3, <3>5, <4>1
      <4> QED BY <2>2, <4>2
    <3> QED BY Zenon, <2>2, <3>6, <3>7 DEF Rises
  <2> QED BY <2>3, <2>4
<1>4. j \in Nat /\ j \in (i + 1)..Len(s)
  BY <1>1
<1> QED BY Zenon, <1>2, <1>3, <1>4

\* g is right on the intervals smaller than r.
RightBelow(s, ip, g, r) ==
  \A x : Around(s, ip, x) /\ x[2] - x[1] < r[2] - r[1] => Position(s, ip, g[x])

\* One turn of the bisection keeps the promise of find().
LEMMA TurnFinds ==
  ASSUME NEW s, Vector(s), NEW ip \in Int, NEW g, NEW r, Around(s, ip, r),
         RightBelow(s, ip, g, r)
  PROVE  Position(s, ip, Turn(s, ip, g, r))
<1>1. s \in Seq(Int) /\ r \in Pairs(s)
  BY DEF Vector, Around
<1>2. Len(s) \in Nat
  BY <1>1
<1>3. Len(s) % 2 = 0
  BY DEF Vector
<1>4. PICK a \in 0..Len(s), b \in 0..Len(s) : r = <<a, b>>
  BY <1>1 DEF Pairs
<1>5. /\ a <= b /\ (a > 0 => s[a] < ip) /\ (b < Len(s) => ip < s[b + 1])
  BY <1>4 DEF Around
<1>6. CASE a >= b
  <2>1. Turn(s, ip, g, r) = a
    BY <1>4, <1>6, Zenon DEF Turn
  <2>2. Position(s, ip, a)
    <3>1. a = b
      BY <1>2, <1>5, <1>6
    <3>2. a \in Nat /\ a <= Len(s)
      BY <1>2
    <3>3. CASE a % 2 = 1
      <4>1. 0 < a /\ a + 1 <= Len(s) /\ a % 2 # 0
        BY <1>2, <1>3, <3>2, <3>3, OddInside
      <4>2. s[a] \in Int /\ s[a + 1] \in Int
        BY <1>1, <1>2, <3>2, <4>1
      <4>3. s[a] < ip /\ ip < s[a + 1]
        BY <1>2, <1>5, <3>1, <3>2, <4>1
      <4> QED BY <3>3, <4>1, <4>2, <4>3 DEF Position
    <3>4. CASE a % 2 # 1
      BY <1>5, <3>1, <3>4 DEF Position
    <3> QED BY <3>3, <3>4
  <2> QED BY <2>1, <2>2
<1>7. CASE a < b
  <2> DEFINE mid == (b - a) \div 2 + a
  <2>1. mid \in Nat /\ a <= mid /\ mid < b /\ mid < Len(s)
    BY <1>2, <1>7
  <2>2. s[mid + 1] \in Int
    BY <1>1, <1>2, <2>1
  <2>3. Turn(s, ip, g, r) =
          IF s[mid + 1] = ip THEN IF mid % 2 = 1 THEN mid ELSE mid + 1
          ELSE IF ip < s[mid + 1] THEN g[<<a, mid>>] ELSE g[<<mid + 1, b>>]
    <3>1. ~(a >= b)
      BY <1>2, <1>7
    <3>2. r[1] = a /\ r[2] = b
      BY <1>4
    <3> QED BY <3>1, <3>2, Zenon DEF Turn, Nth, Odd
  <2> HIDE DEF mid
  <2>4. CASE s[mid + 1] = ip
    <3>1. CASE mid % 2 = 1
      <4>1. 0 < mid /\ mid <= Len(s) /\ mid + 1 <= Len(s) /\ mid % 2 # 0
        BY <1>2, <2>1, <3>1
      <4>2. s[mid] \in Int /\ s[mid] <= s[mid + 1]
        <5>1. mid \in 1..Len(s)
          BY <1>2, <2>1, <4>1
        <5> QED BY <4>1, <5>1, Neighbours
      <4>3. mid \in 0..Len(s)
        BY <1>2, <2>1
      <4>4. Position(s, ip, mid)
        BY <2>4, <3>1, <4>1, <4>2, <4>3 DEF Position
      <4> QED BY <2>3, <2>4, <3>1, <4>4
    <3>2. CASE mid % 2 # 1
      <4>1. (mid + 1) % 2 = 1 /\ mid + 2 <= Len(s)
        BY <1>2, <1>3, <2>1, <3>2, EvenInside
      <4>2. s[mid + 1] <= s[mid + 1 + 1]
        <5>1. mid + 1 \in 1..Len(s) /\ mid + 1 + 1 <= Len(s)
          BY <1>2, <2>1, <4>1
        <5> QED BY <5>1, Neighbours
      <4>3. mid + 1 \in 0..Len(s) /\ (mid + 1) % 2 # 0
        BY <1>2, <2>1, <4>1
      <4>4. Position(s, ip, mid + 1)
        BY SMTT(30), SMTT(60), <2>2, <2>4, <4>1, <4>2, <4>3 DEF Position
      <4> QED BY <2>3, <2>4, <3>2, <4>4
    <3> QED BY ZenonT(60), <3>1, <3>2
  <2>5. CASE s[mid + 1] # ip /\ ip < s[mid + 1]
    <3>1. <<a, mid>> \in Pairs(s)
      <4>1. mid \in 0..Len(s)
        BY <1>2, <2>1
      <4> QED BY <1>4, <4>1, Zenon DEF Pairs
    <3>2. Around(s, ip, <<a, mid>>)
      BY <1>2, <1>5, <2>1, <2>5, <3>1 DEF Around
    <3>3. mid - a < b - a
      BY <1>2, <2>1
    <3>4. Position(s, ip, g[<<a, mid>>])
      BY ZenonT(60), <1>4, <3>2, <3>3 DEF RightBelow
    <3> QED BY <2>3, <2>5, <3>4
  <2>6. CASE s[mid + 1] # ip /\ ~(ip < s[mid + 1])
    <3>1. <<mid + 1, b>> \in Pairs(s)
      <4>1. mid + 1 \in 0..Len(s)
        BY <1>2, <2>1
      <4> QED BY <1>4, <4>1, Zenon DEF Pairs
    <3>2. Around(s, ip, <<mid + 1, b>>)
      BY <1>2, <1>5, <2>1, <2>2, <2>6, <3>1 DEF Around
    <3>3. b - (mid + 1) < b - a
      BY <1>2, <2>1
    <3>4. Position(s, ip, g[<<mid + 1, b>>])
      BY <1>4, <3>2, <3>3 DEF RightBelow
    <3> QED BY <2>3, <2>6, <3>4
  <2> QED BY <2>4, <2>5, <2>6
<1> QED BY <1>2, <1>6, <1>7

\* find() keeps its promise, whatever the vector and the address.
LEMMA FindFinds ==
  ASSUME NEW s, Vector(s), NEW ip \in Int
  PROVE  Position(s, ip, find(s, ip))
<1>0. s \in Seq(Int) /\ Len(s) \in Nat
  BY DEF Vector
<1> DEFINE g == CHOOSE f : IsSeek(s, ip, f)
<1>1. IsSeek(s, ip, g)
  BY <1>0, SeekExists, Zenon
<1>2. find(s, ip) = g[<<0, Len(s)>>]
  BY Zenon DEF find, IsSeek, Turn, Pairs
<1> HIDE DEF g
<1>3. \A r \in Pairs(s) : g[r] = Turn(s, ip, g, r)
  BY <1>1, Zenon DEF IsSeek
<1> DEFINE Bad == {n \in Nat : \E r : Around(s, ip, r) /\ r[2] - r[1] = n
                                     /\ ~Position(s, ip, g[r])}
<1>4. Bad = {}
  <2> SUFFICES ASSUME Bad # {} PROVE FALSE
    OBVIOUS
  <2>1. PICK n \in Bad : \A m \in Bad : n <= m
    <3>1. Bad \subseteq Nat
      OBVIOUS
    <3> HIDE DEF Bad
    <3> QED BY Zenon, <3>1, LeastNumber
  <2>2. PICK r : Around(s, ip, r) /\ r[2] - r[1] = n /\ ~Position(s, ip, g[r])
    OBVIOUS
  <2>3. ASSUME NEW x, Around(s, ip, x), x[2] - x[1] < r[2] - r[1] PROVE Position(s, ip, g[x])
    <3>1. x[2] - x[1] \in Nat
      <4>1. x[1] \in 0..Len(s) /\ x[2] \in 0..Len(s) /\ x[1] <= x[2]
        BY ZenonT(60), <2>3 DEF Around, Pairs
      <4> QED BY SMTT(30), SMTT(60), <1>0, <4>1
    <3>2. ~(n <= x[2] - x[1])
      BY <2>2, <2>3, <3>1
    <3> QED BY ZenonT(60), <2>1, <2>3, <3>1, <3>2
  <2>4. Position(s, ip, Turn(s, ip, g, r))
    <3>1. RightBelow(s, ip, g, r)
      BY <2>3, Zenon DEF RightBelow
    <3> QED BY <2>2, <3>1, TurnFinds, Zenon
  <2> QED BY <1>3, <2>2, <2>4, Zenon DEF Around
<1>5. Around(s, ip, <<0, Len(s)>>)
  BY <1>0 DEF Around, Pairs
<1>6. Position(s, ip, g[<<0, Len(s)>>])
  <2>1. Len(s) - 0 \in Nat
    BY <1>0
  <2> QED BY <1>4, <1>5, <2>1
<1> QED BY <1>2, <1>6

\* The elements of what is put together.
LEMMA Concat ==
  ASSUME NEW a \in Seq(Int), NEW b \in Seq(Int)
  PROVE  /\ a \o b \in Seq(Int) /\ Len(a \o b) = Len(a) + Len(b)
         /\ \A i \in 1..Len(a) : (a \o b)[i] = a[i]
         /\ \A i \in 1..Len(b) : (a \o b)[Len(a) + i] = b[i]
OBVIOUS

\* The elements up to a position, and the elements after one.
LEMMA Before ==
  ASSUME NEW s \in Seq(Int), NEW k \in 0..Len(s)
  PROVE  /\ SubSeq(s, 1, k) \in Seq(Int) /\ Len(SubSeq(s, 1, k)) = k
         /\ \A i \in 1..k : SubSeq(s, 1, k)[i] = s[i]
OBVIOUS

LEMMA After ==
  ASSUME NEW s \in Seq(Int), NEW q \in 0..Len(s)
  PROVE  /\ SubSeq(s, q + 1, Len(s)) \in Seq(Int)
         /\ Len(SubSeq(s, q + 1, Len(s))) = Len(s) - q
         /\ \A i \in 1..(Len(s) - q) : SubSeq(s, q + 1, Len(s))[i] = s[q + i]
OBVIOUS

\* u is s with the numbers after position p and up to position q replaced by mid.
Spliced(s, p, mid, q, u) ==
  /\ u \in Seq(Int) /\ Len(u) = p + Len(mid) + (Len(s) - q)
  /\ \A i \in 1..p : u[i] = s[i]
  /\ \A i \in 1..Len(mid) : u[p + i] = mid[i]
  /\ \A i \in 1..(Len(s) - q) : u[p + Len(mid) + i] = s[q + i]

\* That is how shift() puts its vector together.
LEMMA Splice ==
  ASSUME NEW s \in Seq(Int), NEW p \in 0..Len(s), NEW q \in 0..Len(s), NEW z \in Seq(Int)
  PROVE  Spliced(s, p, z, q, SubSeq(s, 1, p) \o z \o SubSeq(s, q + 1, Len(s)))
<1> DEFINE a == SubSeq(s, 1, p)
           b == SubSeq(s, q + 1, Len(s))
           c == a \o z
           t == c \o b
<1>1. a \in Seq(Int) /\ Len(a) = p /\ \A i \in 1..p : a[i] = s[i]
  BY Zenon, Before
<1>2. b \in Seq(Int) /\ Len(b) = Len(s) - q /\ \A i \in 1..(Len(s) - q) : b[i] = s[q + i]
  BY Zenon, After
<1> HIDE DEF a, b
<1>3. /\ c \in Seq(Int) /\ Len(c) = p + Len(z)
      /\ \A i \in 1..p : c[i] = a[i]
      /\ \A i \in 1..Len(z) : c[p + i] = z[i]
  BY Zenon, <1>1, Concat
<1> HIDE DEF c
<1>4. /\ t \in Seq(Int) /\ Len(t) = p + Len(z) + (Len(s) - q)
      /\ \A i \in 1..(p + Len(z)) : t[i] = c[i]
      /\ \A i \in 1..(Len(s) - q) : t[p + Len(z) + i] = b[i]
  <2>1. /\ t \in Seq(Int) /\ Len(t) = Len(c) + Len(b)
        /\ \A i \in 1..Len(c) : t[i] = c[i]
        /\ \A i \in 1..Len(b) : t[Len(c) + i] = b[i]
    BY Zenon, <1>2, <1>3, Concat
  <2> HIDE DEF t
  <2> QED BY Zenon, <1>2, <1>3, <2>1
<1> HIDE DEF t
<1>5. Len(z) \in Nat
  OBVIOUS
<1>6. \A i \in 1..p : t[i] = s[i]
  <2> TAKE i \in 1..p
  <2>1. i \in 1..(p + Len(z))
    BY <1>5
  <2> QED BY Zenon, <2>1, <1>1, <1>3, <1>4
<1>7. \A i \in 1..Len(z) : t[p + i] = z[i]
  <2> TAKE i \in 1..Len(z)
  <2>1. p + i \in 1..(p + Len(z))
    BY <1>5
  <2> QED BY Zenon, <2>1, <1>3, <1>4
<1>8. \A i \in 1..(Len(s) - q) : t[p + Len(z) + i] = s[q + i]
  BY Zenon, <1>2, <1>4
<1>9. Spliced(s, p, z, q, t)
  BY Zenon, <1>4, <1>6, <1>7, <1>8 DEF Spliced
<1> QED BY <1>9 DEF a, b, c, t

\* What shift() keeps of s, wherever the numbers after position go.
LEMMA ShiftKeeps ==
  ASSUME NEW s \in Seq(Int), NEW q \in 0..Len(s), NEW c \in Int, 0 <= q + c
  PROVE  /\ shift(s, c, q) \in Seq(Int) /\ Len(shift(s, c, q)) = Len(s) + c
         /\ \A i \in 1..q : i <= q + c => shift(s, c, q)[i] = s[i]
         /\ \A i \in 1..(Len(s) - q) : shift(s, c, q)[q + c + i] = s[q + i]
<1>1. Len(s) \in Nat
  OBVIOUS
<1>2. CASE c >= 0
  <2> DEFINE z == [i \in 1..c |-> 0]
             t == SubSeq(s, 1, q) \o z \o SubSeq(s, q + 1, Len(s))
  <2>1. z \in Seq(Int) /\ Len(z) = c
    BY <1>2
  <2> HIDE DEF z
  <2>2. Spliced(s, q, z, q, t)
    BY Zenon, <2>1, Splice
  <2>3. shift(s, c, q) = t
    BY Zenon, <1>2 DEF shift, z
  <2> HIDE DEF t
  <2>4. /\ t \in Seq(Int) /\ Len(t) = q + c + (Len(s) - q)
        /\ \A i \in 1..q : t[i] = s[i]
        /\ \A i \in 1..(Len(s) - q) : t[q + c + i] = s[q + i]
    BY Zenon, <2>1, <2>2 DEF Spliced
  <2>5. Len(t) = Len(s) + c
    BY <1>1, <2>4
  <2> QED BY Zenon, <2>3, <2>4, <2>5
<1>3. CASE ~(c >= 0)
  <2> DEFINE t == SubSeq(s, 1, q + c) \o <<>> \o SubSeq(s, q + 1, Len(s))
  <2>1. q + c \in 0..Len(s)
    BY <1>1, <1>3
  <2>2. <<>> \in Seq(Int) /\ Len(<<>>) = 0
    OBVIOUS
  <2>3. Spliced(s, q + c, <<>>, q, t)
    BY Zenon, <2>1, <2>2, Splice
  <2>4. shift(s, c, q) = t
    <3>1. SubSeq(s, 1, q + c) \in Seq(Int)
      BY Zenon, <2>1, Before
    <3>2. SubSeq(s, 1, q + c) \o <<>> = SubSeq(s, 1, q + c)
      BY <3>1
    <3> QED BY Zenon, <1>3, <3>2 DEF shift
  <2> HIDE DEF t
  <2>5. /\ t \in Seq(Int) /\ Len(t) = q + c + 0 + (Len(s) - q)
        /\ \A i \in 1..(q + c) : t[i] = s[i]
        /\ \A i \in 1..(Len(s) - q) : t[q + c + 0 + i] = s[q + i]
    BY Zenon, <2>2, <2>3 DEF Spliced
  <2>6. Len(t) = Len(s) + c /\ q + c + 0 = q + c
    BY <1>1, <2>5
  <2>7. \A i \in 1..q : i <= q + c => i \in 1..(q + c)
    BY <1>1
  <2> QED BY Zenon, <2>4, <2>5, <2>6, <2>7
<1> QED BY <1>2, <1>3

\* Put changes one place.
LEMMA PutKeeps ==
  ASSUME NEW t \in Seq(Int), NEW j \in Int, j + 1 \in 1..Len(t), NEW x \in Int
  PROVE  /\ Put(t, j, x) \in Seq(Int) /\ Len(Put(t, j, x)) = Len(t)
         /\ Put(t, j, x)[j + 1] = x
         /\ \A i \in 1..Len(t) : i # j + 1 => Put(t, j, x)[i] = t[i]
BY DEF Put

\* u is s up to position p and after position q, with k - p numbers in between.
Rebuilt(s, p, k, q, u) ==
  /\ u \in Seq(Int) /\ Len(u) = k + (Len(s) - q)
  /\ \A i \in 1..p : u[i] = s[i]
  /\ \A i \in 1..(Len(s) - q) : u[k + i] = s[q + i]

\* shift() leaves what is before p and after q.
LEMMA Shifted ==
  ASSUME NEW s \in Seq(Int), NEW p \in 0..Len(s), NEW q \in p..Len(s), NEW k \in Nat, p <= k
  PROVE  Rebuilt(s, p, k, q, shift(s, k - q, q))
<1> DEFINE t == shift(s, k - q, q)
<1>1. Len(s) \in Nat /\ q \in 0..Len(s)
  OBVIOUS
<1>2. k - q \in Int /\ q + (k - q) = k /\ 0 <= q + (k - q)
  BY <1>1
<1>3. /\ t \in Seq(Int) /\ Len(t) = Len(s) + (k - q)
      /\ \A i \in 1..q : i <= q + (k - q) => t[i] = s[i]
      /\ \A i \in 1..(Len(s) - q) : t[q + (k - q) + i] = s[q + i]
  BY Zenon, <1>1, <1>2, ShiftKeeps
<1> HIDE DEF t
<1>4. Len(t) = k + (Len(s) - q)
  BY <1>1, <1>3
<1>5. \A i \in 1..p : i \in 1..q /\ i <= k
  BY <1>1
<1>6. Rebuilt(s, p, k, q, t)
  BY Zenon, <1>2, <1>3, <1>4, <1>5 DEF Rebuilt
<1> QED BY <1>6 DEF t

\* A number between p and k is put in.
LEMMA PutBetween ==
  ASSUME NEW s \in Seq(Int), NEW p \in 0..Len(s), NEW q \in p..Len(s), NEW k \in Nat,
         NEW t, Rebuilt(s, p, k, q, t), NEW j \in Int, p <= j, j < k, NEW x \in Int
  PROVE  /\ Rebuilt(s, p, k, q, Put(t, j, x)) /\ Put(t, j, x)[j + 1] = x
         /\ \A i \in 1..k : i # j + 1 => Put(t, j, x)[i] = t[i]
<1> DEFINE u == Put(t, j, x)
<1>1. t \in Seq(Int) /\ Len(t) = k + (Len(s) - q)
  BY Zenon DEF Rebuilt
<1>2. Len(s) \in Nat
  OBVIOUS
<1>3. j + 1 \in 1..Len(t)
  BY <1>1, <1>2
<1>4. /\ u \in Seq(Int) /\ Len(u) = Len(t) /\ u[j + 1] = x
      /\ \A i \in 1..Len(t) : i # j + 1 => u[i] = t[i]
  BY Zenon, <1>1, <1>3, PutKeeps
<1> HIDE DEF u
<1>5. \A i \in 1..p : i \in 1..Len(t) /\ i # j + 1
  BY <1>1, <1>2
<1>6. \A i \in 1..(Len(s) - q) : k + i \in 1..Len(t) /\ k + i # j + 1
  BY <1>1, <1>2
<1>7. \A i \in 1..k : i \in 1..Len(t)
  BY <1>1, <1>2
<1>8. Rebuilt(s, p, k, q, u)
  BY Zenon, <1>1, <1>4, <1>5, <1>6 DEF Rebuilt
<1> QED BY Zenon, <1>4, <1>7, <1>8 DEF u

\* insert() and erase() rebuild s between two positions; first and last tell
\* whether a number is put in after p and before q.
Rebuild(s, p, q, first, x, last, y) ==
    LET change == (IF first /\ last THEN 2 ELSE 0) - Even(q - p)
        t == shift(s, change, q)
        u == IF first THEN Put(t, p, x) ELSE t
    IN  IF last THEN Put(u, q + change - 1, y) ELSE u

\* How many numbers it puts in.
Numbers(first, last) == (IF first THEN 1 ELSE 0) + (IF last THEN 1 ELSE 0)

\* The numbers are put where they belong, and the others stay.
LEMMA RebuildResult ==
  ASSUME NEW s \in Seq(Int), NEW p \in 0..Len(s), NEW q \in p..Len(s),
         NEW first \in BOOLEAN, NEW last \in BOOLEAN, NEW x \in Int, NEW y \in Int,
         (q - p) % 2 = 0 <=> (first <=> last)
  PROVE  LET u == Rebuild(s, p, q, first, x, last, y)
             k == p + Numbers(first, last)
         IN  /\ Rebuilt(s, p, k, q, u)
             /\ first => u[p + 1] = x
             /\ last  => u[k] = y
<1> DEFINE u == Rebuild(s, p, q, first, x, last, y)
           k == p + Numbers(first, last)
           change == (IF first /\ last THEN 2 ELSE 0) - Even(q - p)
           t == shift(s, change, q)
<1>1. Len(s) \in Nat /\ p \in Nat /\ q \in Nat /\ p <= q
  OBVIOUS
<1>2. k \in Nat /\ p <= k /\ change = k - q
  <2>1. (q - p) % 2 \in {0, 1}
    BY <1>1
  <2>2. CASE first /\ last
    BY <1>1, <2>1, <2>2 DEF Numbers, Even
  <2>3. CASE first /\ ~last
    BY <1>1, <2>1, <2>3 DEF Numbers, Even
  <2>4. CASE ~first /\ last
    BY <1>1, <2>1, <2>4 DEF Numbers, Even
  <2>5. CASE ~first /\ ~last
    BY <1>1, <2>1, <2>5 DEF Numbers, Even
  <2> QED BY <2>2, <2>3, <2>4, <2>5
<1>3. u = LET v == IF first THEN Put(t, p, x) ELSE t
          IN  IF last THEN Put(v, q + change - 1, y) ELSE v
  BY Zenon DEF Rebuild
<1> HIDE DEF change, u
<1>4. Rebuilt(s, p, k, q, t)
  BY Zenon, <1>2, Shifted
<1> HIDE DEF t
<1>5. q + change - 1 = k - 1
  BY SMTT(30), SMTT(60), <1>1, <1>2
<1>6. CASE first /\ last
  <2>1. k = p + 2 /\ p \in Int /\ k - 1 \in Int /\ p < k /\ p <= k - 1 /\ k - 1 < k
        /\ p + 1 \in 1..k /\ p + 1 # k - 1 + 1 /\ k - 1 + 1 = k
    BY SMTT(30), SMTT(60), <1>1, <1>6 DEF Numbers
  <2> DEFINE v == Put(t, p, x)
  <2>2. Rebuilt(s, p, k, q, v) /\ v[p + 1] = x
    <3>1. p <= p
      BY <1>1
    <3> QED BY SMTT(30), SMTT(60), <1>2, <1>4, <2>1, <3>1, PutBetween
  <2>3. u = Put(v, k - 1, y)
    BY Zenon, <1>3, <1>5, <1>6
  <2> HIDE DEF v, k
  <2>4. Rebuilt(s, p, k, q, u) /\ u[k - 1 + 1] = y /\ u[p + 1] = v[p + 1]
    BY <1>2, <2>1, <2>2, <2>3, PutBetween
  <2> QED BY Zenon, <2>1, <2>2, <2>4 DEF u, k
<1>7. CASE first /\ ~last
  <2>1. k = p + 1 /\ p \in Int /\ p <= p /\ p < k
    BY <1>1, <1>7 DEF Numbers
  <2>2. u = Put(t, p, x)
    BY Zenon, <1>3, <1>7
  <2> HIDE DEF k
  <2>3. Rebuilt(s, p, k, q, u) /\ u[p + 1] = x
    BY SMTT(30), SMTT(60), <1>2, <1>4, <2>1, <2>2, PutBetween
  <2> QED BY Zenon, <1>7, <2>3 DEF u, k
<1>8. CASE ~first /\ last
  <2>1. k = p + 1 /\ k - 1 \in Int /\ p <= k - 1 /\ k - 1 < k /\ k - 1 + 1 = k
    BY <1>1, <1>8 DEF Numbers
  <2>2. u = Put(t, k - 1, y)
    BY Zenon, <1>3, <1>5, <1>8
  <2> HIDE DEF k
  <2>3. Rebuilt(s, p, k, q, u) /\ u[k - 1 + 1] = y
    BY SMTT(30), SMTT(60), <1>2, <1>4, <2>1, <2>2, PutBetween
  <2> QED BY Zenon, <1>8, <2>1, <2>3 DEF u, k
<1>9. CASE ~first /\ ~last
  <2>1. u = t
    BY Zenon, <1>3, <1>9
  <2> QED BY Zenon, <1>4, <1>9, <2>1 DEF u
<1> QED BY <1>6, <1>7, <1>8, <1>9 DEF u

--------------------------------------------------------------------------------
(* What the two positions that insert() and erase() start from mean.       *)

\* Places that differ by the same distance from an even one are even or odd together.
LEMMA SameParity ==
  ASSUME NEW k \in Nat, NEW q \in Nat, k % 2 = q % 2, NEW m \in Int
  PROVE  (k + m) % 2 = (q + m) % 2
OBVIOUS

\* u rises from place i to the next, and from place p to the one after k.
Step(u, i) == u[i] <= u[i + 1] /\ (u[i] = u[i + 1] => (i + 1) % 2 = 0)
Steps(u, p, k) == \A i \in p..k : 1 <= i /\ i + 1 <= Len(u) => Step(u, i)

\* A rebuilt vector rises if it does so where it was rebuilt.
LEMMA RebuiltVector ==
  ASSUME NEW s, Vector(s), NEW p \in 0..Len(s), NEW q \in p..Len(s), NEW k \in Nat, p <= k,
         k % 2 = q % 2, NEW u, Rebuilt(s, p, k, q, u),
         Steps(u, p, k)
  PROVE  Vector(u)
<1>1. s \in Seq(Int)
  BY DEF Vector
<1>2. Len(s) \in Nat /\ Len(s) % 2 = 0
  <2>1. Len(s) % 2 = 0
    BY Zenon DEF Vector
  <2>2. Len(s) \in Nat
    BY <1>1
  <2> QED BY <2>1, <2>2
<1>3. /\ u \in Seq(Int) /\ Len(u) = k + (Len(s) - q)
      /\ \A i \in 1..p : u[i] = s[i]
      /\ \A i \in 1..(Len(s) - q) : u[k + i] = s[q + i]
  BY Zenon DEF Rebuilt
<1>4. Len(u) \in Nat /\ Len(u) % 2 = 0
  <2>1. Len(u) = k + (Len(s) - q) /\ q \in Nat /\ Len(s) - q \in Int
    BY <1>2, <1>3
  <2>2. (k + (Len(s) - q)) % 2 = (q + (Len(s) - q)) % 2
    BY Zenon, <2>1, SameParity
  <2>3. q + (Len(s) - q) = Len(s)
    BY <1>2, <2>1
  <2> QED BY <1>2, <2>1, <2>2, <2>3
<1>5. ASSUME NEW i \in 1..(Len(u) - 1)
      PROVE  Step(u, i)
  <2>1. CASE i < p
    <3>1. i \in 1..p /\ i + 1 \in 1..p /\ i \in 1..Len(s) /\ i + 1 <= Len(s)
      BY <1>2, <2>1
    <3>2. u[i] = s[i] /\ u[i + 1] = s[i + 1]
      BY Zenon, <1>3, <3>1
    <3> QED BY Zenon, <3>1, <3>2, Neighbours DEF Step
  <2>2. CASE p <= i /\ i <= k
    <3>1. i \in p..k /\ 1 <= i /\ i + 1 <= Len(u)
      BY <1>4, <2>2
    <3> QED BY Zenon, <3>1 DEF Steps
  <2>3. CASE k < i
    <3> DEFINE m == i - k
    <3>0. Len(u) = k + (Len(s) - q)
      BY <1>3
    <3>1. /\ m \in 1..(Len(s) - q) /\ m + 1 \in 1..(Len(s) - q) /\ i = k + m
          /\ i + 1 = k + (m + 1) /\ q + (m + 1) = q + m + 1
          /\ q + m \in 1..Len(s) /\ q + m + 1 <= Len(s)
      BY <1>2, <1>4, <2>3, <3>0
    <3>2. (q + m + 1) % 2 = (i + 1) % 2
      <4>1. q \in Nat /\ m + 1 \in Int
        BY <1>2, <1>4
      <4>2. (k + (m + 1)) % 2 = (q + (m + 1)) % 2
        BY Zenon, <4>1, SameParity
      <4> QED BY Zenon, <3>1, <4>2
    <3> HIDE DEF m
    <3>3. u[i] = s[q + m] /\ u[i + 1] = s[q + m + 1]
      BY Zenon, <1>3, <3>1
    <3>4. s[q + m] <= s[q + m + 1] /\ (s[q + m] = s[q + m + 1] => (q + m + 1) % 2 = 0)
      BY Zenon, <3>1, Neighbours
    <3> QED BY Zenon, <3>2, <3>3, <3>4 DEF Step
  <2>4. i < p \/ (p <= i /\ i <= k) \/ k < i
    BY <1>2, <1>4
  <2> QED BY Zenon, <2>1, <2>2, <2>3, <2>4
<1> QED BY Zenon, <1>3, <1>4, <1>5 DEF Vector, Step

\* ip is within the range that begins at the odd place i.
InRange(s, i, ip) == i % 2 = 1 /\ s[i] <= ip /\ ip <= s[i + 1]

\* ip is within a range of s.
Within(s, ip) == \E i \in 1..Len(s) : InRange(s, i, ip)

\* The ranges that end at position p or before, begin after q, or neither.
Low(s, p, ip) == \E i \in 1..p : i + 1 <= p /\ InRange(s, i, ip)
High(s, q, ip) == \E i \in 1..(Len(s) - q) : InRange(s, q + i, ip)
Between(s, p, q, ip) == \E i \in p..q : 1 <= i /\ i + 1 <= Len(s) /\ InRange(s, i, ip)

\* The addresses of a rebuilt vector are those of the parts that stay and those of
\* the part that was rebuilt.
LEMMA WithinParts ==
  ASSUME NEW s, Vector(s), NEW p \in 0..Len(s), NEW q \in p..Len(s), NEW k \in Nat, p <= k,
         k % 2 = q % 2, NEW u, Vector(u), Rebuilt(s, p, k, q, u), NEW ip
  PROVE  Within(u, ip) <=> Low(s, p, ip) \/ High(s, q, ip) \/ Between(u, p, k, ip)
<1>1. s \in Seq(Int) /\ u \in Seq(Int)
  BY DEF Vector
<1>2. Len(s) \in Nat /\ Len(u) \in Nat /\ Len(u) = k + (Len(s) - q)
  <2>1. Len(u) = k + (Len(s) - q)
    BY Zenon DEF Rebuilt
  <2>2. Len(s) \in Nat /\ Len(u) \in Nat
    BY <1>1
  <2> QED BY <2>1, <2>2
<1>3. Len(u) % 2 = 0
  BY DEF Vector
<1>4. /\ \A i \in 1..p : u[i] = s[i]
      /\ \A i \in 1..(Len(s) - q) : u[k + i] = s[q + i]
  BY Zenon DEF Rebuilt
<1>5. ASSUME NEW i \in 1..p, i + 1 <= p
      PROVE  InRange(u, i, ip) <=> InRange(s, i, ip)
  <2>1. i + 1 \in 1..p
    BY <1>2, <1>5
  <2> QED BY Zenon, <1>4, <2>1 DEF InRange
<1>6. ASSUME NEW i \in 1..(Len(s) - q)
      PROVE  InRange(u, k + i, ip) <=> InRange(s, q + i, ip)
  <2>1. (k + i) % 2 = 1 <=> (q + i) % 2 = 1
    BY <1>2
  <2>2. CASE (q + i) % 2 = 1
    <3>1. Len(s) % 2 = 0
      BY DEF Vector
    <3>2. i + 1 \in 1..(Len(s) - q) /\ k + i + 1 = k + (i + 1) /\ q + i + 1 = q + (i + 1)
      BY <1>2, <2>2, <3>1
    <3>3. u[k + i] = s[q + i] /\ u[k + (i + 1)] = s[q + (i + 1)]
      BY Zenon, <1>4, <3>2
    <3>4. u[k + i + 1] = s[q + i + 1]
      BY Zenon, <3>2, <3>3
    <3> QED BY Zenon, <2>1, <3>3, <3>4 DEF InRange
  <2>3. CASE (q + i) % 2 # 1
    BY Zenon, <2>1, <2>3 DEF InRange
  <2> QED BY Zenon, <2>2, <2>3
<1>7. ASSUME Within(u, ip)
      PROVE  Low(s, p, ip) \/ High(s, q, ip) \/ Between(u, p, k, ip)
  <2>1. PICK i \in 1..Len(u) : InRange(u, i, ip)
    BY Zenon, <1>7 DEF Within
  <2>2. i + 1 <= Len(u)
    <3>1. i % 2 = 1
      BY <2>1 DEF InRange
    <3> QED BY <1>2, <1>3, <3>1
  <2>3. CASE i < p
    <3>1. i \in 1..p /\ i + 1 <= p
      BY <1>2, <2>3
    <3> QED BY Zenon, <1>5, <2>1, <3>1 DEF Low
  <2>4. CASE p <= i /\ i <= k
    <3>1. i \in p..k /\ 1 <= i
      BY <1>2, <2>4
    <3> QED BY Zenon, <2>1, <2>2, <3>1 DEF Between
  <2>5. CASE k < i
    <3>1. i - k \in 1..(Len(s) - q) /\ k + (i - k) = i
      BY <1>2, <2>5
    <3> QED BY Zenon, <1>6, <2>1, <3>1 DEF High
  <2>6. i < p \/ (p <= i /\ i <= k) \/ k < i
    BY <1>2
  <2> QED BY Zenon, <2>3, <2>4, <2>5, <2>6
<1>8. ASSUME Low(s, p, ip) PROVE Within(u, ip)
  <2>1. PICK i \in 1..p : i + 1 <= p /\ InRange(s, i, ip)
    BY Zenon, <1>8 DEF Low
  <2>2. i \in 1..Len(u)
    BY <1>2
  <2> QED BY Zenon, <1>5, <2>1, <2>2 DEF Within
<1>9. ASSUME High(s, q, ip) PROVE Within(u, ip)
  <2>1. PICK i \in 1..(Len(s) - q) : InRange(s, q + i, ip)
    BY Zenon, <1>9 DEF High
  <2>2. k + i \in 1..Len(u)
    BY <1>2
  <2> QED BY Zenon, <1>6, <2>1, <2>2 DEF Within
<1>10. ASSUME Between(u, p, k, ip) PROVE Within(u, ip)
  <2>1. PICK i \in p..k : 1 <= i /\ i + 1 <= Len(u) /\ InRange(u, i, ip)
    BY Zenon, <1>10 DEF Between
  <2>2. i \in 1..Len(u)
    BY <1>2, <2>1
  <2> QED BY Zenon, <2>1, <2>2 DEF Within
<1> QED BY Zenon, <1>7, <1>8, <1>9, <1>10

\* The same of s itself.
LEMMA WithinSelf ==
  ASSUME NEW s, Vector(s), NEW p \in 0..Len(s), NEW q \in p..Len(s), NEW ip
  PROVE  Within(s, ip) <=> Low(s, p, ip) \/ High(s, q, ip) \/ Between(s, p, q, ip)
<1>1. s \in Seq(Int)
  BY DEF Vector
<1>2. Len(s) \in Nat
  BY <1>1
<1>3. q \in Nat /\ p <= q /\ q % 2 = q % 2 /\ Len(s) = q + (Len(s) - q)
  BY <1>2
<1>4. Rebuilt(s, p, q, q, s)
  BY Zenon, <1>1, <1>3 DEF Rebuilt
<1> QED BY <1>3, <1>4, WithinParts

\* The numbers of a vector, and how many there are.
LEMMA Element ==
  ASSUME NEW s, Vector(s), NEW i \in 1..Len(s)
  PROVE  s[i] \in Int
<1>1. s \in Seq(Int)
  BY DEF Vector
<1> QED BY <1>1

LEMMA Length ==
  ASSUME NEW s, Vector(s)
  PROVE  Len(s) \in Nat /\ Len(s) % 2 = 0
<1>1. s \in Seq(Int) /\ Len(s) % 2 = 0
  BY Zenon DEF Vector
<1>2. Len(s) \in Nat
  BY <1>1
<1> QED BY Zenon, <1>1, <1>2

\* The numbers of a vector never fall.
LEMMA Ascends ==
  ASSUME NEW s, Vector(s), NEW i \in 1..Len(s), NEW j \in 1..Len(s), i <= j
  PROVE  s[i] \in Int /\ s[j] \in Int /\ s[i] <= s[j]
<1>1. s[i] \in Int /\ s[j] \in Int
  BY Zenon, Element
<1>2. CASE i < j
  BY Zenon, <1>1, <1>2, Rising DEF Rises
<1>3. CASE ~(i < j)
  <2>1. Len(s) \in Nat
    BY Length
  <2>2. i = j
    BY <1>3, <2>1
  <2> QED BY <1>1, <2>2
<1> QED BY Zenon, <1>2, <1>3

\* The numbers at place i and after it are different.
Apart(u, i) == 1 <= i /\ i + 1 <= Len(u) => u[i] < u[i + 1]

\* Different numbers may follow each other anywhere.
LEMMA ApartStep ==
  ASSUME NEW u \in Seq(Int), NEW i \in 1..Len(u), i + 1 <= Len(u), Apart(u, i)
  PROVE  Step(u, i)
<1>1. u[i] < u[i + 1]
  BY DEF Apart
<1>2. u[i] \in Int /\ u[i + 1] \in Int
  OBVIOUS
<1>3. u[i] <= u[i + 1] /\ u[i] # u[i + 1]
  BY <1>1, <1>2
<1> QED BY Zenon, <1>3 DEF Step

\* A vector rebuilt so that one range, at the odd place m, is at the joint.
LEMMA OneRange ==
  ASSUME NEW s, Vector(s), NEW p \in 0..Len(s), NEW q \in p..Len(s), NEW k \in Nat,
         k % 2 = q % 2, NEW u, Rebuilt(s, p, k, q, u), NEW m \in Nat, m % 2 = 1,
         m \in {p, p + 1}, k \in {m, m + 1}, m + 1 <= Len(u), u[m] <= u[m + 1],
         m = p + 1 => Apart(u, p), k = m + 1 => Apart(u, k)
  PROVE  /\ Vector(u)
         /\ \A ip : Within(u, ip) <=> \/ Low(s, p, ip) \/ High(s, q, ip)
                                      \/ u[m] <= ip /\ ip <= u[m + 1]
<1>1. Len(s) \in Nat /\ u \in Seq(Int)
  BY Zenon, Length DEF Rebuilt
<1>2. Len(u) \in Nat /\ p \in Nat /\ p <= k /\ (m + 1) % 2 = 0 /\ m \in 1..Len(u) /\ m \in p..k
  BY SMTT(30), SMTT(60), <1>1
<1>3. Steps(u, p, k)
  <2>1. ASSUME NEW i \in p..k, 1 <= i, i + 1 <= Len(u) PROVE Step(u, i)
    <3>1. i = m \/ (i = p /\ m = p + 1) \/ (i = k /\ k = m + 1)
      BY <1>2
    <3>2. i \in 1..Len(u)
      BY <1>2, <2>1
    <3> QED BY Zenon, <1>1, <1>2, <2>1, <3>1, <3>2, ApartStep DEF Step
  <2> QED BY Zenon, <2>1 DEF Steps
<1>4. Vector(u)
  BY Zenon, <1>2, <1>3, RebuiltVector
<1>5. ASSUME NEW ip
      PROVE  Between(u, p, k, ip) <=> u[m] <= ip /\ ip <= u[m + 1]
  <2>1. ASSUME NEW i \in p..k, 1 <= i, i % 2 = 1 PROVE i = m
    BY <1>2, <2>1
  <2>2. 1 <= m
    BY <1>2
  <2>3. ASSUME Between(u, p, k, ip) PROVE u[m] <= ip /\ ip <= u[m + 1]
    BY Zenon, <2>1, <2>3 DEF Between, InRange
  <2>4. ASSUME u[m] <= ip, ip <= u[m + 1] PROVE Between(u, p, k, ip)
    BY Zenon, <1>2, <2>2, <2>4 DEF Between, InRange
  <2> QED BY Zenon, <2>3, <2>4
<1>6. ASSUME NEW ip
      PROVE  Within(u, ip) <=> Low(s, p, ip) \/ High(s, q, ip) \/ Between(u, p, k, ip)
  BY Zenon, <1>2, <1>4, WithinParts
<1> QED BY Zenon, <1>4, <1>5, <1>6

\* The positions of two addresses are in the order of the addresses.
LEMMA PositionsOrdered ==
  ASSUME NEW s, Vector(s), NEW a \in Int, NEW b \in Int, a <= b,
         NEW p, Position(s, a, p), NEW q, Position(s, b, q)
  PROVE  p <= q
<1>1. p \in 0..Len(s) /\ q \in 0..Len(s)
  BY Zenon DEF Position
<1>2. Len(s) \in Nat
  BY Length
<1> SUFFICES ASSUME q < p PROVE FALSE
  BY <1>1, <1>2
<1>3. p \in 1..Len(s) /\ q + 1 \in 1..Len(s) /\ q + 1 <= p /\ p > 0 /\ q < Len(s)
  BY <1>1, <1>2
<1>4. s[p] \in Int /\ s[q + 1] \in Int /\ s[q + 1] <= s[p]
  BY Zenon, <1>3, Ascends
<1>5. /\ p % 2 = 1 => s[p] <= a
      /\ p % 2 = 0 => s[p] < a
      /\ q % 2 = 1 => b <= s[q + 1]
      /\ q % 2 = 0 => b < s[q + 1]
  BY Zenon, <1>3 DEF Position
<1>6. (p % 2 = 1 \/ p % 2 = 0) /\ (q % 2 = 1 \/ q % 2 = 0)
  BY <1>1, <1>2
<1>7. p % 2 = 1 /\ q % 2 = 1 /\ s[p] = s[q + 1]
  <2> HIDE DEF Vector
  <2> QED BY <1>4, <1>5, <1>6
<1>8. q + 1 < p
  BY <1>1, <1>2, <1>3, <1>7
<1>9. p % 2 = 0
  BY Zenon, <1>3, <1>7, <1>8, Rising DEF Rises
<1> QED BY <1>7, <1>9

\* The range that insert() leaves at the joint goes from Lo to Hi.
Lo(s, a, p) == IF p % 2 = 1 THEN s[p] ELSE a
Hi(s, b, q) == IF q % 2 = 1 THEN s[q + 1] ELSE b

\* What Position says of its neighbours, and of what is before and after them.
LEMMA PositionFacts ==
  ASSUME NEW s, Vector(s), NEW a \in Int, NEW p, Position(s, a, p)
  PROVE  /\ p \in Nat /\ p <= Len(s) /\ (p % 2 = 1 \/ p % 2 = 0)
         /\ p % 2 = 1 => /\ p \in 1..Len(s) /\ p + 1 \in 1..Len(s)
                         /\ s[p] \in Int /\ s[p + 1] \in Int /\ s[p] <= a /\ a <= s[p + 1]
         /\ p % 2 = 0 => /\ p > 0 => p \in 1..Len(s) /\ s[p] \in Int /\ s[p] < a
                         /\ p < Len(s) => p + 1 \in 1..Len(s) /\ s[p + 1] \in Int /\ a < s[p + 1]
<1>1. p \in 0..Len(s)
  BY Zenon DEF Position
<1>2. Len(s) \in Nat /\ Len(s) % 2 = 0
  BY Zenon, Length
<1>3. p \in Nat /\ p <= Len(s) /\ (p % 2 = 1 \/ p % 2 = 0)
  BY <1>1, <1>2
<1>4. ASSUME p % 2 = 1
      PROVE  /\ p \in 1..Len(s) /\ p + 1 \in 1..Len(s)
             /\ s[p] \in Int /\ s[p + 1] \in Int /\ s[p] <= a /\ a <= s[p + 1]
  <2>1. p \in 1..Len(s) /\ p + 1 \in 1..Len(s)
    BY <1>2, <1>3, <1>4
  <2> QED BY Zenon, <1>4, <2>1, Element DEF Position
<1>5. ASSUME p % 2 = 0, p > 0 PROVE p \in 1..Len(s) /\ s[p] \in Int /\ s[p] < a
  <2>1. p \in 1..Len(s)
    BY <1>2, <1>3, <1>5
  <2> QED BY Zenon, <1>5, <2>1, Element DEF Position
<1>6. ASSUME p % 2 = 0, p < Len(s)
      PROVE  p + 1 \in 1..Len(s) /\ s[p + 1] \in Int /\ a < s[p + 1]
  <2>1. p + 1 \in 1..Len(s)
    BY <1>2, <1>3, <1>6
  <2> QED BY Zenon, <1>6, <2>1, Element DEF Position
<1> QED BY Zenon, <1>3, <1>4, <1>5, <1>6

\* An odd place is not an even one.
LEMMA OddAfter ==
  ASSUME NEW p \in Nat, NEW i \in Nat, p <= i, p % 2 = 0, i % 2 = 1
  PROVE  p + 1 <= i
OBVIOUS

LEMMA OddBefore ==
  ASSUME NEW q \in Nat, NEW i \in Nat, i <= q, q % 2 = 0, i % 2 = 1
  PROVE  i + 1 <= q
OBVIOUS

\* The joint covers the ranges between the positions and the addresses inserted.
LEMMA Joint ==
  ASSUME NEW s, Vector(s), NEW a \in Int, NEW b \in Int, a <= b,
         NEW p, Position(s, a, p), NEW q, Position(s, b, q), p <= q, NEW ip \in Int
  PROVE  Between(s, p, q, ip) \/ (a <= ip /\ ip <= b) <=> Lo(s, a, p) <= ip /\ ip <= Hi(s, b, q)
<1>1. Len(s) \in Nat
  BY Zenon, Length
<1>2. /\ p \in Nat /\ p <= Len(s) /\ (p % 2 = 1 \/ p % 2 = 0)
      /\ p % 2 = 1 => /\ p \in 1..Len(s) /\ p + 1 \in 1..Len(s)
                      /\ s[p] \in Int /\ s[p + 1] \in Int /\ s[p] <= a /\ a <= s[p + 1]
      /\ p % 2 = 0 => /\ p > 0 => p \in 1..Len(s) /\ s[p] \in Int /\ s[p] < a
                      /\ p < Len(s) => p + 1 \in 1..Len(s) /\ s[p + 1] \in Int /\ a < s[p + 1]
  BY Zenon, PositionFacts
<1>3. /\ q \in Nat /\ q <= Len(s) /\ (q % 2 = 1 \/ q % 2 = 0)
      /\ q % 2 = 1 => /\ q \in 1..Len(s) /\ q + 1 \in 1..Len(s)
                      /\ s[q] \in Int /\ s[q + 1] \in Int /\ s[q] <= b /\ b <= s[q + 1]
      /\ q % 2 = 0 => /\ q > 0 => q \in 1..Len(s) /\ s[q] \in Int /\ s[q] < b
                      /\ q < Len(s) => q + 1 \in 1..Len(s) /\ s[q + 1] \in Int /\ b < s[q + 1]
  BY Zenon, PositionFacts
<1>4. Lo(s, a, p) \in Int /\ Lo(s, a, p) <= a
  BY <1>2 DEF Lo
<1>5. Hi(s, b, q) \in Int /\ b <= Hi(s, b, q)
  BY <1>3 DEF Hi
<1>6. ASSUME Between(s, p, q, ip) PROVE Lo(s, a, p) <= ip /\ ip <= Hi(s, b, q)
  <2>1. PICK i \in p..q : 1 <= i /\ i + 1 <= Len(s) /\ InRange(s, i, ip)
    BY Zenon, <1>6 DEF Between
  <2>2. i % 2 = 1 /\ s[i] <= ip /\ ip <= s[i + 1]
    BY Zenon, <2>1 DEF InRange
  <2>3. i \in 1..Len(s) /\ i + 1 \in 1..Len(s)
    BY <1>1, <1>2, <1>3, <2>1
  <2>4. s[i] \in Int /\ s[i + 1] \in Int
    BY Zenon, <2>3, Element
  <2>5. Lo(s, a, p) <= s[i]
    <3>1. CASE p % 2 = 1
      <4>1. p \in 1..Len(s) /\ p <= i
        BY SMTT(30), SMTT(60), <1>1, <1>2, <2>1, <3>1
      <4> QED BY Zenon, <2>3, <3>1, <4>1, Ascends DEF Lo
    <3>2. CASE p % 2 = 0
      <4>0. p \in Nat /\ i \in Nat /\ p <= i
        BY <1>2, <1>3
      <4>1. p < Len(s) /\ p + 1 <= i
        <5>1. p + 1 <= i
          BY Zenon, <2>2, <3>2, <4>0, OddAfter
        <5> QED BY <1>1, <2>1, <4>0, <5>1
      <4>2. p + 1 \in 1..Len(s) /\ s[p + 1] \in Int /\ a < s[p + 1]
        BY Zenon, <1>2, <3>2, <4>1
      <4>3. s[p + 1] <= s[i]
        BY Zenon, <2>3, <4>1, <4>2, Ascends
      <4>4. Lo(s, a, p) = a
        BY <3>2 DEF Lo
      <4> QED BY SMTT(30), SMTT(60), <2>4, <4>2, <4>3, <4>4
    <3> QED BY Zenon, <1>2, <3>1, <3>2
  <2>6. s[i + 1] <= Hi(s, b, q)
    <3>1. CASE q % 2 = 1
      <4>1. q + 1 \in 1..Len(s) /\ i + 1 <= q + 1
        BY SMTT(30), SMTT(60), <1>1, <1>3, <2>1, <3>1
      <4> QED BY Zenon, <2>3, <3>1, <4>1, Ascends DEF Hi
    <3>2. CASE q % 2 = 0
      <4>0. q \in Nat /\ i \in Nat /\ i <= q
        BY <1>2, <1>3
      <4>1. q > 0 /\ i + 1 <= q
        <5>1. i + 1 <= q
          BY Zenon, <2>2, <3>2, <4>0, OddBefore
        <5> QED BY <4>0, <5>1
      <4>2. q \in 1..Len(s) /\ s[q] \in Int /\ s[q] < b
        BY Zenon, <1>3, <3>2, <4>1
      <4>3. s[i + 1] <= s[q]
        BY Zenon, <2>3, <4>1, <4>2, Ascends
      <4>4. Hi(s, b, q) = b
        BY <3>2 DEF Hi
      <4> QED BY SMTT(30), SMTT(60), <2>4, <4>2, <4>3, <4>4
    <3> QED BY Zenon, <1>3, <3>1, <3>2
  <2> QED BY SMTT(30), SMTT(60), <1>4, <1>5, <2>2, <2>4, <2>5, <2>6
<1>7. ASSUME a <= ip, ip <= b PROVE Lo(s, a, p) <= ip /\ ip <= Hi(s, b, q)
  BY <1>4, <1>5, <1>7
<1>8. ASSUME Lo(s, a, p) <= ip, ip <= Hi(s, b, q), ~(a <= ip) PROVE Between(s, p, q, ip)
  <2>1. p % 2 = 1
    BY Zenon, <1>2, <1>8 DEF Lo
  <2>2. s[p] <= ip
    BY Zenon, <1>8, <2>1 DEF Lo
  <2>3. ip <= s[p + 1]
    BY SMTT(30), SMTT(60), <1>2, <1>8, <2>1
  <2>4. p \in p..q /\ 1 <= p /\ p + 1 <= Len(s)
    BY SMTT(30), SMTT(60), <1>1, <1>2, <1>3, <2>1
  <2> QED BY Zenon, <2>1, <2>2, <2>3, <2>4 DEF Between, InRange
<1>9. ASSUME Lo(s, a, p) <= ip, ip <= Hi(s, b, q), ~(ip <= b) PROVE Between(s, p, q, ip)
  <2>1. q % 2 = 1
    BY Zenon, <1>3, <1>9 DEF Hi
  <2>2. ip <= s[q + 1]
    BY Zenon, <1>9, <2>1 DEF Hi
  <2>3. s[q] <= ip
    BY SMTT(30), SMTT(60), <1>3, <1>9, <2>1
  <2>4. q \in p..q /\ 1 <= q /\ q + 1 <= Len(s)
    BY <1>1, <1>2, <1>3, <2>1
  <2> QED BY Zenon, <2>1, <2>2, <2>3, <2>4 DEF Between, InRange
<1> QED BY Zenon, <1>6, <1>7, <1>8, <1>9

\* Every number of s is in T.
All(s, T) == \A i \in 1..Len(s) : s[i] \in T

\* So is every number of u after position p and up to position k.
Middle(u, p, k, T) == \A i \in (p + 1)..k : u[i] \in T

\* The numbers of a rebuilt vector are in T if the new ones are.
LEMMA RebuiltAll ==
  ASSUME NEW s \in Seq(Int), NEW p \in 0..Len(s), NEW q \in p..Len(s), NEW T, All(s, T),
         NEW k \in Nat, p <= k, NEW u, Rebuilt(s, p, k, q, u), Middle(u, p, k, T)
  PROVE  All(u, T)
<1>1. Len(s) \in Nat
  OBVIOUS
<1>2. Len(u) = k + (Len(s) - q)
  BY Zenon DEF Rebuilt
<1> SUFFICES ASSUME NEW i \in 1..Len(u) PROVE u[i] \in T
  BY Zenon DEF All
<1>3. CASE i <= p
  <2>1. i \in 1..p /\ i \in 1..Len(s)
    BY <1>1, <1>2, <1>3
  <2> QED BY Zenon, <2>1 DEF Rebuilt, All
<1>4. CASE p < i /\ i <= k
  <2>1. i \in (p + 1)..k
    BY <1>1, <1>2, <1>4
  <2> QED BY Zenon, <2>1 DEF Middle
<1>5. CASE k < i
  <2>1. i - k \in 1..(Len(s) - q) /\ k + (i - k) = i /\ q + (i - k) \in 1..Len(s)
    BY <1>1, <1>2, <1>5
  <2>2. u[k + (i - k)] = s[q + (i - k)]
    BY Zenon, <2>1 DEF Rebuilt
  <2> QED BY Zenon, <2>1, <2>2 DEF All
<1>6. i <= p \/ (p < i /\ i <= k) \/ k < i
  BY <1>1, <1>2
<1> QED BY Zenon, <1>3, <1>4, <1>5, <1>6

\* An even number of numbers goes if none or two come, an odd number if one does.
Paired(p, q, first, last) == (q - p) % 2 = 0 <=> (first <=> last)

\* The place m of the joint, and what is before and after it.
JointAt(p, q, k, m, first, last) ==
  /\ k \in Nat /\ k % 2 = q % 2 /\ m \in Nat /\ m % 2 = 1
  /\ m \in {p, p + 1} /\ k \in {m, m + 1}
  /\ k = m <=> q % 2 = 1
  /\ m = p <=> p % 2 = 1
  /\ Paired(p, q, first, last)

\* There is such a place.
LEMMA JointPlace ==
  ASSUME NEW p \in Nat, NEW q \in Nat, p <= q
  PROVE  JointAt(p, q, p + Numbers(p % 2 # 1, q % 2 # 1),
                 IF p % 2 = 1 THEN p ELSE p + 1, p % 2 # 1, q % 2 # 1)
BY DEF Numbers, JointAt, Paired

\* What RebuildResult and RebuiltAll say of u.
Parts(s, p, k, q, u, first, x, last, y, T) ==
  /\ k \in Nat /\ p <= k /\ Rebuilt(s, p, k, q, u)
  /\ first => u[p + 1] = x
  /\ last  => u[k] = y
  /\ (first => x \in T) /\ (last => y \in T) => Middle(u, p, k, T)

\* They say it of Rebuild.
LEMMA RebuiltParts ==
  ASSUME NEW s \in Seq(Int), NEW p \in 0..Len(s), NEW q \in p..Len(s),
         NEW first \in BOOLEAN, NEW last \in BOOLEAN, NEW x \in Int, NEW y \in Int,
         Paired(p, q, first, last), NEW T
  PROVE  Parts(s, p, p + Numbers(first, last), q, Rebuild(s, p, q, first, x, last, y),
               first, x, last, y, T)
<1> DEFINE u == Rebuild(s, p, q, first, x, last, y)
           k == p + Numbers(first, last)
<1>1. Rebuilt(s, p, k, q, u) /\ (first => u[p + 1] = x) /\ (last => u[k] = y)
  BY RebuildResult DEF Paired
<1> HIDE DEF u
<1>2. Len(s) \in Nat
  OBVIOUS
<1>3. k \in Nat /\ p <= k
  BY <1>2 DEF Numbers
<1>4. ASSUME first => x \in T, last => y \in T PROVE Middle(u, p, k, T)
  <2>1. ASSUME NEW i \in (p + 1)..k PROVE u[i] \in T
    <3>1. (first /\ i = p + 1) \/ (last /\ i = k)
      BY <1>2 DEF Numbers
    <3> HIDE DEF k
    <3> QED BY Zenon, <1>1, <1>4, <3>1
  <2> HIDE DEF k
  <2> QED BY Zenon, <2>1 DEF Middle
<1> HIDE DEF k
<1>5. Parts(s, p, k, q, u, first, x, last, y, T)
  BY Zenon, <1>1, <1>3, <1>4 DEF Parts
<1> QED BY <1>5 DEF u, k

\* insert() unites.
LEMMA InsertUnites ==
  ASSUME NEW s, Vector(s), NEW a \in Int, NEW b \in Int, a <= b, NEW T, All(s, T), a \in T, b \in T
  PROVE  /\ Vector(Insert(s, a, b)) /\ All(Insert(s, a, b), T)
         /\ \A ip \in Int : Within(Insert(s, a, b), ip) <=> Within(s, ip) \/ (a <= ip /\ ip <= b)
<1> DEFINE p == find(s, a)
           q == find(s, b)
           first == p % 2 # 1
           last == q % 2 # 1
           u == Rebuild(s, p, q, first, a, last, b)
           k == p + Numbers(first, last)
           m == IF p % 2 = 1 THEN p ELSE p + 1
<1>1. Insert(s, a, b) = u
  BY Zenon DEF Insert, Rebuild, Odd
<1>2. Position(s, a, p) /\ Position(s, b, q)
  BY Zenon, FindFinds
<1> HIDE DEF p, q
<1>3. p <= q
  BY Zenon, <1>2, PositionsOrdered
<1>4. Len(s) \in Nat /\ s \in Seq(Int)
  BY Zenon, Length DEF Vector
<1>5. p \in 0..Len(s) /\ q \in p..Len(s) /\ p \in Nat /\ q \in Nat
  <2>1. p \in 0..Len(s) /\ q \in 0..Len(s)
    BY Zenon, <1>2 DEF Position
  <2> QED BY <1>3, <1>4, <2>1
<1>0. JointAt(p, q, k, m, first, last)
  BY Zenon, <1>3, <1>5, JointPlace
<1>6. /\ k \in Nat /\ k % 2 = q % 2 /\ m \in Nat /\ m % 2 = 1
      /\ m \in {p, p + 1} /\ k \in {m, m + 1}
      /\ k = m <=> q % 2 = 1
      /\ m = p <=> p % 2 = 1
  <2> HIDE DEF k, m, first, last
  <2> QED BY Zenon, <1>0 DEF JointAt
<1>7. Parts(s, p, k, q, u, first, a, last, b, T)
  <2>1. first \in BOOLEAN /\ last \in BOOLEAN
    OBVIOUS
  <2>2. Paired(p, q, first, last)
    BY Zenon, <1>0 DEF JointAt
  <2> HIDE DEF first, last
  <2> QED BY Zenon, <1>4, <1>5, <2>1, <2>2, RebuiltParts
<1> HIDE DEF u
<1>8. Rebuilt(s, p, k, q, u) /\ (first => u[p + 1] = a) /\ (last => u[k] = b)
  <2> HIDE DEF first, last, k
  <2> QED BY Zenon, <1>7 DEF Parts
<1>9. All(u, T)
  <2> HIDE DEF first, last, k
  <2>1. k \in Nat /\ p <= k /\ Middle(u, p, k, T)
    BY Zenon, <1>7 DEF Parts
  <2> QED BY Zenon, <1>4, <1>5, <1>8, <2>1, RebuiltAll
<1>10. /\ Len(u) = k + (Len(s) - q) /\ u \in Seq(Int)
       /\ \A i \in 1..p : u[i] = s[i]
       /\ \A i \in 1..(Len(s) - q) : u[k + i] = s[q + i]
  BY Zenon, <1>8 DEF Rebuilt
<1>11. u[m] = Lo(s, a, p)
  <2>1. CASE p % 2 = 1
    <3>1. m = p /\ p \in 1..p
      BY <1>5, <2>1
    <3> QED BY Zenon, <1>10, <2>1, <3>1 DEF Lo
  <2>2. CASE p % 2 # 1
    BY Zenon, <1>8, <2>2 DEF Lo
  <2> QED BY Zenon, <2>1, <2>2
<1>12. m + 1 <= Len(u) /\ u[m + 1] = Hi(s, b, q)
  <2>1. CASE q % 2 = 1
    <3>1. q + 1 \in 1..Len(s)
      BY Zenon, <1>2, <2>1, PositionFacts
    <3>2. k = m /\ 1 \in 1..(Len(s) - q)
      BY <1>4, <1>5, <1>6, <2>1, <3>1
    <3>3. u[k + 1] = s[q + 1]
      BY Zenon, <1>10, <3>2
    <3>4. k + 1 <= Len(u)
      <4> HIDE DEF k, m
      <4> QED BY SMTT(30), SMTT(60), <1>4, <1>5, <1>6, <1>10, <3>1
    <3> QED BY Zenon, <2>1, <3>2, <3>3, <3>4 DEF Hi
  <2>2. CASE q % 2 # 1
    <3>1. k = m + 1
      BY Zenon, <1>6, <2>2
    <3>2. k <= Len(u)
      <4> HIDE DEF k, m
      <4> QED BY <1>4, <1>5, <1>6, <1>10
    <3>3. u[k] = b
      BY Zenon, <1>8, <2>2
    <3> QED BY Zenon, <2>2, <3>1, <3>2, <3>3 DEF Hi
  <2> QED BY Zenon, <2>1, <2>2
<1>13. u[m] <= u[m + 1]
  <2>1. Lo(s, a, p) \in Int /\ Lo(s, a, p) <= a
    <3>1. p % 2 = 1 => s[p] \in Int /\ s[p] <= a
      BY Zenon, <1>2, PositionFacts
    <3> QED BY <3>1 DEF Lo
  <2>2. Hi(s, b, q) \in Int /\ b <= Hi(s, b, q)
    <3>1. q % 2 = 1 => s[q + 1] \in Int /\ b <= s[q + 1]
      BY Zenon, <1>2, PositionFacts
    <3> QED BY <3>1 DEF Hi
  <2>3. Lo(s, a, p) <= Hi(s, b, q)
    BY <2>1, <2>2
  <2> QED BY Zenon, <1>11, <1>12, <2>3
<1>14. ASSUME m = p + 1 PROVE Apart(u, p)
  <2> SUFFICES ASSUME 1 <= p PROVE u[p] < u[p + 1]
    BY Zenon DEF Apart
  <2>1. p % 2 = 0 /\ first /\ p > 0 /\ p \in 1..p
    BY <1>5, <1>6, <1>14
  <2>2. s[p] < a
    BY Zenon, <1>2, <2>1, PositionFacts
  <2>3. u[p] = s[p] /\ u[p + 1] = a
    BY Zenon, <1>8, <1>10, <2>1
  <2> QED BY Zenon, <2>2, <2>3
<1>15. ASSUME k = m + 1 PROVE Apart(u, k)
  <2> SUFFICES ASSUME k + 1 <= Len(u) PROVE u[k] < u[k + 1]
    BY Zenon DEF Apart
  <2>1. last
    <3> HIDE DEF k, m
    <3> QED BY <1>6, <1>15
  <2>2. q % 2 = 0
    BY <1>5, <2>1
  <2>3. q < Len(s) /\ 1 \in 1..(Len(s) - q)
    <3>1. Len(u) = k + (Len(s) - q) /\ k \in Nat
      BY Zenon, <1>6, <1>10
    <3> HIDE DEF k
    <3> QED BY <1>4, <1>5, <3>1
  <2>4. b < s[q + 1]
    BY Zenon, <1>2, <2>2, <2>3, PositionFacts
  <2>5. u[k] = b /\ u[k + 1] = s[q + 1]
    BY Zenon, <1>8, <1>10, <2>1, <2>3
  <2> QED BY Zenon, <2>4, <2>5
<1>16. /\ Vector(u)
       /\ \A ip : Within(u, ip) <=> \/ Low(s, p, ip) \/ High(s, q, ip)
                                    \/ u[m] <= ip /\ ip <= u[m + 1]
  <2> HIDE DEF k, m
  <2> QED BY Zenon, <1>5, <1>6, <1>8, <1>12, <1>13, <1>14, <1>15, OneRange
<1>17. ASSUME NEW ip \in Int
       PROVE  Within(u, ip) <=> Within(s, ip) \/ (a <= ip /\ ip <= b)
  <2>1. Within(s, ip) <=> Low(s, p, ip) \/ High(s, q, ip) \/ Between(s, p, q, ip)
    BY Zenon, <1>5, WithinSelf
  <2>2. Between(s, p, q, ip) \/ (a <= ip /\ ip <= b)
          <=> Lo(s, a, p) <= ip /\ ip <= Hi(s, b, q)
    BY Zenon, <1>2, <1>3, Joint
  <2> HIDE DEF k, m
  <2>3. Within(u, ip) <=> Low(s, p, ip) \/ High(s, q, ip)
                          \/ (Lo(s, a, p) <= ip /\ ip <= Hi(s, b, q))
    BY Zenon, <1>11, <1>12, <1>16
  <2> QED BY Zenon, <2>1, <2>2, <2>3
<1> QED BY Zenon, <1>1, <1>9, <1>16, <1>17

--------------------------------------------------------------------------------
\* The numbers up to position p are less than a, the others are not; those up to
\* position q are not greater than b, the others are.
CutBefore(s, a, p) ==
  p \in 0..Len(s) /\ (p > 0 => s[p] < a) /\ (p < Len(s) => a <= s[p + 1])

CutAfter(s, b, q) ==
  q \in 0..Len(s) /\ (q > 0 => s[q] <= b) /\ (q < Len(s) => b < s[q + 1])

\* The neighbours of a cut.
LEMMA BeforeFacts ==
  ASSUME NEW s, Vector(s), NEW a \in Int, NEW p, CutBefore(s, a, p)
  PROVE  /\ p \in Nat /\ p <= Len(s)
         /\ p > 0 => p \in 1..Len(s) /\ s[p] \in Int /\ s[p] < a
         /\ p < Len(s) => p + 1 \in 1..Len(s) /\ s[p + 1] \in Int /\ a <= s[p + 1]
<1>1. Len(s) \in Nat /\ p \in 0..Len(s)
  BY Zenon, Length DEF CutBefore
<1>2. p \in Nat /\ p <= Len(s)
  BY <1>1
<1>3. ASSUME p > 0 PROVE p \in 1..Len(s) /\ s[p] \in Int /\ s[p] < a
  <2>1. p \in 1..Len(s)
    BY <1>1, <1>3
  <2> QED BY Zenon, <1>3, <2>1, Element DEF CutBefore
<1>4. ASSUME p < Len(s) PROVE p + 1 \in 1..Len(s) /\ s[p + 1] \in Int /\ a <= s[p + 1]
  <2>1. p + 1 \in 1..Len(s)
    BY <1>1, <1>4
  <2> QED BY Zenon, <1>4, <2>1, Element DEF CutBefore
<1> QED BY Zenon, <1>2, <1>3, <1>4

LEMMA AfterFacts ==
  ASSUME NEW s, Vector(s), NEW b \in Int, NEW q, CutAfter(s, b, q)
  PROVE  /\ q \in Nat /\ q <= Len(s)
         /\ q > 0 => q \in 1..Len(s) /\ s[q] \in Int /\ s[q] <= b
         /\ q < Len(s) => q + 1 \in 1..Len(s) /\ s[q + 1] \in Int /\ b < s[q + 1]
<1>1. Len(s) \in Nat /\ q \in 0..Len(s)
  BY Zenon, Length DEF CutAfter
<1>2. q \in Nat /\ q <= Len(s)
  BY <1>1
<1>3. ASSUME q > 0 PROVE q \in 1..Len(s) /\ s[q] \in Int /\ s[q] <= b
  <2>1. q \in 1..Len(s)
    BY <1>1, <1>3
  <2> QED BY Zenon, <1>3, <2>1, Element DEF CutAfter
<1>4. ASSUME q < Len(s) PROVE q + 1 \in 1..Len(s) /\ s[q + 1] \in Int /\ b < s[q + 1]
  <2>1. q + 1 \in 1..Len(s)
    BY <1>1, <1>4
  <2> QED BY Zenon, <1>4, <2>1, Element DEF CutAfter
<1> QED BY Zenon, <1>2, <1>3, <1>4

\* erase() starts one position earlier, or ends one later, at the edge of a range.
StartEdge(s, a, p) == Odd(p) /\ Nth(s, p - 1) = a
EndEdge(s, b, q) == Odd(q) /\ Nth(s, q) = b
StartAt(s, a, p) == IF StartEdge(s, a, p) THEN p - 1 ELSE p
EndAt(s, b, q) == IF EndEdge(s, b, q) THEN q + 1 ELSE q

\* The positions that erase() works between are cuts, and they are odd where a range
\* is left with a part.
LEMMA StartCut ==
  ASSUME NEW s, Vector(s), NEW a \in Int, NEW p, Position(s, a, p)
  PROVE  /\ CutBefore(s, a, StartAt(s, a, p)) /\ StartAt(s, a, p) <= p
         /\ StartAt(s, a, p) % 2 = 1 <=> Odd(p) /\ ~StartEdge(s, a, p)
<1>1. Len(s) \in Nat /\ Len(s) % 2 = 0
  BY Zenon, Length
<1>2. /\ p \in Nat /\ p <= Len(s) /\ (p % 2 = 1 \/ p % 2 = 0)
      /\ p % 2 = 1 => /\ p \in 1..Len(s) /\ p + 1 \in 1..Len(s)
                      /\ s[p] \in Int /\ s[p + 1] \in Int /\ s[p] <= a /\ a <= s[p + 1]
      /\ p % 2 = 0 => /\ p > 0 => p \in 1..Len(s) /\ s[p] \in Int /\ s[p] < a
                      /\ p < Len(s) => p + 1 \in 1..Len(s) /\ s[p + 1] \in Int /\ a < s[p + 1]
  BY Zenon, PositionFacts
<1>3. p - 1 + 1 = p
  BY <1>2
<1>4. StartEdge(s, a, p) <=> p % 2 = 1 /\ s[p] = a
  BY Zenon, <1>3 DEF StartEdge, Odd, Nth
<1>5. CASE p % 2 = 0
  <2>1. StartAt(s, a, p) = p /\ ~StartEdge(s, a, p) /\ p \in 0..Len(s) /\ p % 2 # 1 /\ p <= p
    BY SMTT(30), SMTT(60), <1>1, <1>2, <1>4, <1>5 DEF StartAt
  <2>2. p < Len(s) => a <= s[p + 1]
    BY <1>2, <1>5
  <2>3. CutBefore(s, a, p)
    BY Zenon, <1>2, <1>5, <2>1, <2>2 DEF CutBefore
  <2> QED BY Zenon, <2>1, <2>3 DEF Odd
<1>6. CASE p % 2 = 1 /\ s[p] # a
  <2>1. StartAt(s, a, p) = p /\ ~StartEdge(s, a, p) /\ p \in 0..Len(s) /\ p <= p
    BY SMTT(30), SMTT(60), <1>1, <1>2, <1>4, <1>6 DEF StartAt
  <2>2. s[p] < a
    BY <1>2, <1>6
  <2>3. CutBefore(s, a, p)
    BY Zenon, <1>2, <1>6, <2>1, <2>2 DEF CutBefore
  <2> QED BY Zenon, <1>6, <2>1, <2>3 DEF Odd
<1>7. CASE p % 2 = 1 /\ s[p] = a
  <2>1. StartAt(s, a, p) = p - 1 /\ StartEdge(s, a, p)
    BY Zenon, <1>4, <1>7 DEF StartAt
  <2>2. p - 1 \in 0..Len(s) /\ (p - 1) % 2 # 1 /\ p - 1 <= p
    BY <1>1, <1>2, <1>7
  <2>3. ASSUME p - 1 > 0 PROVE s[p - 1] < a
    <3>1. p - 1 \in 1..Len(s) /\ p - 1 + 1 <= Len(s) /\ p % 2 # 0
      BY <1>1, <1>2, <1>7, <2>3
    <3>2. /\ s[p - 1] \in Int /\ s[p] \in Int /\ s[p - 1] <= s[p]
          /\ s[p - 1] = s[p] => p % 2 = 0
      BY Zenon, <1>3, <3>1, Neighbours
    <3> QED BY <1>7, <3>1, <3>2
  <2>4. a <= s[p - 1 + 1]
    BY <1>2, <1>3, <1>7
  <2>5. CutBefore(s, a, p - 1)
    BY Zenon, <2>2, <2>3, <2>4 DEF CutBefore
  <2> QED BY Zenon, <2>1, <2>2, <2>5
<1> QED BY Zenon, <1>2, <1>5, <1>6, <1>7

LEMMA EndCut ==
  ASSUME NEW s, Vector(s), NEW b \in Int, NEW q, Position(s, b, q)
  PROVE  /\ CutAfter(s, b, EndAt(s, b, q)) /\ q <= EndAt(s, b, q)
         /\ EndAt(s, b, q) % 2 = 1 <=> Odd(q) /\ ~EndEdge(s, b, q)
<1>1. Len(s) \in Nat /\ Len(s) % 2 = 0
  BY Zenon, Length
<1>2. /\ q \in Nat /\ q <= Len(s) /\ (q % 2 = 1 \/ q % 2 = 0)
      /\ q % 2 = 1 => /\ q \in 1..Len(s) /\ q + 1 \in 1..Len(s)
                      /\ s[q] \in Int /\ s[q + 1] \in Int /\ s[q] <= b /\ b <= s[q + 1]
      /\ q % 2 = 0 => /\ q > 0 => q \in 1..Len(s) /\ s[q] \in Int /\ s[q] < b
                      /\ q < Len(s) => q + 1 \in 1..Len(s) /\ s[q + 1] \in Int /\ b < s[q + 1]
  BY Zenon, PositionFacts
<1>4. EndEdge(s, b, q) <=> q % 2 = 1 /\ s[q + 1] = b
  BY Zenon DEF EndEdge, Odd, Nth
<1>5. CASE q % 2 = 0
  <2>1. EndAt(s, b, q) = q /\ ~EndEdge(s, b, q) /\ q \in 0..Len(s) /\ q % 2 # 1 /\ q <= q
    BY SMTT(30), SMTT(60), <1>1, <1>2, <1>4, <1>5 DEF EndAt
  <2>2. q > 0 => s[q] <= b
    BY <1>2, <1>5
  <2>3. CutAfter(s, b, q)
    BY Zenon, <1>2, <1>5, <2>1, <2>2 DEF CutAfter
  <2> QED BY Zenon, <2>1, <2>3 DEF Odd
<1>6. CASE q % 2 = 1 /\ s[q + 1] # b
  <2>1. EndAt(s, b, q) = q /\ ~EndEdge(s, b, q) /\ q \in 0..Len(s) /\ q <= q
    BY SMTT(30), SMTT(60), <1>1, <1>2, <1>4, <1>6 DEF EndAt
  <2>2. b < s[q + 1]
    BY <1>2, <1>6
  <2>3. CutAfter(s, b, q)
    BY Zenon, <1>2, <1>6, <2>1, <2>2 DEF CutAfter
  <2> QED BY Zenon, <1>6, <2>1, <2>3 DEF Odd
<1>7. CASE q % 2 = 1 /\ s[q + 1] = b
  <2>1. EndAt(s, b, q) = q + 1 /\ EndEdge(s, b, q)
    BY Zenon, <1>4, <1>7 DEF EndAt
  <2>2. q + 1 \in 0..Len(s) /\ (q + 1) % 2 # 1 /\ q <= q + 1
    BY <1>1, <1>2, <1>7
  <2>3. ASSUME q + 1 < Len(s) PROVE b < s[q + 1 + 1]
    <3>1. q + 1 \in 1..Len(s) /\ q + 1 + 1 <= Len(s) /\ (q + 1 + 1) % 2 # 0
      BY <1>1, <1>2, <1>7, <2>3
    <3>2. /\ s[q + 1] \in Int /\ s[q + 1 + 1] \in Int /\ s[q + 1] <= s[q + 1 + 1]
          /\ s[q + 1] = s[q + 1 + 1] => (q + 1 + 1) % 2 = 0
      BY Zenon, <3>1, Neighbours
    <3> QED BY SMTT(30), SMTT(60), <1>7, <3>1, <3>2
  <2>4. s[q + 1] <= b
    BY <1>2, <1>7
  <2>5. CutAfter(s, b, q + 1)
    BY Zenon, <2>2, <2>3, <2>4 DEF CutAfter
  <2> QED BY Zenon, <2>1, <2>2, <2>5
<1> QED BY Zenon, <1>2, <1>5, <1>6, <1>7

\* What erase() leaves of the ranges that it cuts.
Left(s, a, p, ip) == p % 2 = 1 /\ s[p] <= ip /\ ip <= a - 1
Rest(s, b, q, ip) == q % 2 = 1 /\ b + 1 <= ip /\ ip <= s[q + 1]

\* The ranges before a cut, and after it, are out of reach of the erased addresses.
LEMMA LowLess ==
  ASSUME NEW s, Vector(s), NEW a \in Int, NEW p, CutBefore(s, a, p), NEW ip \in Int, Low(s, p, ip)
  PROVE  ip < a
<1>1. PICK i \in 1..p : i + 1 <= p /\ InRange(s, i, ip)
  BY Zenon DEF Low
<1>2. p \in Nat /\ p <= Len(s) /\ Len(s) \in Nat
  BY Zenon, BeforeFacts, Length
<1>3. i + 1 \in 1..Len(s) /\ p \in 1..Len(s) /\ p > 0
  BY <1>1, <1>2
<1>4. s[i + 1] \in Int /\ s[p] \in Int /\ s[i + 1] <= s[p]
  BY Zenon, <1>1, <1>3, Ascends
<1>5. s[p] < a /\ ip <= s[i + 1]
  BY Zenon, <1>1, <1>3, BeforeFacts DEF InRange
<1> QED BY <1>4, <1>5

LEMMA HighGreater ==
  ASSUME NEW s, Vector(s), NEW b \in Int, NEW q, CutAfter(s, b, q), NEW ip \in Int, High(s, q, ip)
  PROVE  b < ip
<1>1. PICK i \in 1..(Len(s) - q) : InRange(s, q + i, ip)
  BY Zenon DEF High
<1>2. q \in Nat /\ q <= Len(s) /\ Len(s) \in Nat
  BY Zenon, AfterFacts, Length
<1>3. q + i \in 1..Len(s) /\ q + 1 \in 1..Len(s) /\ q < Len(s) /\ q + 1 <= q + i
  BY <1>1, <1>2
<1>4. s[q + 1] \in Int /\ s[q + i] \in Int /\ s[q + 1] <= s[q + i]
  BY Zenon, <1>3, Ascends
<1>5. b < s[q + 1] /\ s[q + i] <= ip
  BY Zenon, <1>1, <1>3, AfterFacts DEF InRange
<1> QED BY <1>4, <1>5

\* Of the ranges between the cuts, what is not erased is what erase() leaves.
LEMMA BetweenLeft ==
  ASSUME NEW s, Vector(s), NEW a \in Int, NEW b \in Int, a <= b, NEW p, CutBefore(s, a, p),
         NEW q, CutAfter(s, b, q), p <= q, NEW ip \in Int
  PROVE  Between(s, p, q, ip) /\ ~(a <= ip /\ ip <= b) <=> Left(s, a, p, ip) \/ Rest(s, b, q, ip)
<1>1. Len(s) \in Nat /\ Len(s) % 2 = 0
  BY Zenon, Length
<1>2. /\ p \in Nat /\ p <= Len(s)
      /\ p > 0 => p \in 1..Len(s) /\ s[p] \in Int /\ s[p] < a
      /\ p < Len(s) => p + 1 \in 1..Len(s) /\ s[p + 1] \in Int /\ a <= s[p + 1]
  BY Zenon, BeforeFacts
<1>3. /\ q \in Nat /\ q <= Len(s)
      /\ q > 0 => q \in 1..Len(s) /\ s[q] \in Int /\ s[q] <= b
      /\ q < Len(s) => q + 1 \in 1..Len(s) /\ s[q + 1] \in Int /\ b < s[q + 1]
  BY Zenon, AfterFacts
<1>4. ASSUME Between(s, p, q, ip), ~(a <= ip /\ ip <= b)
      PROVE  Left(s, a, p, ip) \/ Rest(s, b, q, ip)
  <2>1. PICK i \in p..q : 1 <= i /\ i + 1 <= Len(s) /\ InRange(s, i, ip)
    BY Zenon, <1>4 DEF Between
  <2>2. i % 2 = 1 /\ s[i] <= ip /\ ip <= s[i + 1]
    BY Zenon, <2>1 DEF InRange
  <2>3. i \in 1..Len(s) /\ i + 1 \in 1..Len(s) /\ i \in Nat /\ p <= i /\ i <= q
    <3>1. p \in Nat /\ q \in Nat /\ 1 <= i /\ i + 1 <= Len(s)
      BY Zenon, <1>2, <1>3, <2>1
    <3> QED BY <1>1, <3>1
  <2>4. s[i] \in Int /\ s[i + 1] \in Int
    BY Zenon, <2>3, Element
  <2>5. CASE ip < a
    <3>1. i = p
      <4> SUFFICES ASSUME i # p PROVE FALSE
        OBVIOUS
      <4>1. p < Len(s) /\ p + 1 <= i
        BY <1>1, <1>2, <2>3
      <4>2. p + 1 \in 1..Len(s) /\ s[p + 1] \in Int /\ a <= s[p + 1]
        BY Zenon, <1>2, <4>1
      <4>3. s[p + 1] <= s[i]
        BY Zenon, <2>3, <4>1, <4>2, Ascends
      <4> QED BY SMTT(30), SMTT(60), <2>2, <2>4, <2>5, <4>2, <4>3
    <3>2. ip <= a - 1
      BY <2>5
    <3> QED BY Zenon, <2>2, <3>1, <3>2 DEF Left
  <2>6. CASE b < ip
    <3>1. i = q
      <4> SUFFICES ASSUME i # q PROVE FALSE
        OBVIOUS
      <4>1. q > 0 /\ i + 1 <= q
        BY <1>1, <1>3, <2>3
      <4>2. q \in 1..Len(s) /\ s[q] \in Int /\ s[q] <= b
        BY Zenon, <1>3, <4>1
      <4>3. s[i + 1] <= s[q]
        BY Zenon, <2>3, <4>1, <4>2, Ascends
      <4> QED BY SMTT(30), SMTT(60), <2>2, <2>4, <2>6, <4>2, <4>3
    <3>2. b + 1 <= ip
      BY <2>6
    <3> QED BY Zenon, <2>2, <3>1, <3>2 DEF Rest
  <2>7. ip < a \/ b < ip
    BY <1>4
  <2> QED BY Zenon, <2>5, <2>6, <2>7
<1>5. ASSUME Left(s, a, p, ip) PROVE Between(s, p, q, ip) /\ ~(a <= ip /\ ip <= b)
  <2>1. p % 2 = 1 /\ s[p] <= ip /\ ip <= a - 1
    BY Zenon, <1>5 DEF Left
  <2>2. p \in p..q /\ 1 <= p /\ p + 1 <= Len(s) /\ p < Len(s)
    <3>1. p \in Nat /\ q \in Nat /\ p <= Len(s) /\ p % 2 = 1
      BY Zenon, <1>2, <1>3, <2>1
    <3> QED BY <1>1, <3>1
  <2>3. ip <= s[p + 1] /\ ~(a <= ip)
    BY <1>2, <2>1, <2>2
  <2> QED BY Zenon, <2>1, <2>2, <2>3 DEF Between, InRange
<1>6. ASSUME Rest(s, b, q, ip) PROVE Between(s, p, q, ip) /\ ~(a <= ip /\ ip <= b)
  <2>1. q % 2 = 1 /\ b + 1 <= ip /\ ip <= s[q + 1]
    BY Zenon, <1>6 DEF Rest
  <2>2. q \in p..q /\ 1 <= q /\ q + 1 <= Len(s) /\ q > 0
    <3>1. p \in Nat /\ q \in Nat /\ q <= Len(s) /\ q % 2 = 1
      BY Zenon, <1>2, <1>3, <2>1
    <3> QED BY <1>1, <3>1
  <2>3. s[q] <= ip /\ ~(ip <= b)
    BY SMTT(30), SMTT(60), <1>3, <2>1, <2>2
  <2> QED BY Zenon, <2>1, <2>2, <2>3 DEF Between, InRange
<1> QED BY Zenon, <1>4, <1>5, <1>6

\* What erase() puts at the joint: the end of the range before it, the start of
\* the range after it, both or none.
GapAt(p, q, k) ==
  /\ k \in Nat /\ p <= k /\ k % 2 = q % 2 /\ (p % 2 = 1 => p + 1 <= k)
  /\ \A i \in p..k : /\ i % 2 = 0 => i = p \/ (i = p + 1 /\ p % 2 = 1)
                     /\ i % 2 = 0 => i = k \/ (i + 1 = k /\ q % 2 = 1)
                     /\ i % 2 = 0 \/ i % 2 = 1
                     /\ i % 2 = 1 => i = p \/ i = k

\* There is such a k.
LEMMA GapPlace ==
  ASSUME NEW p \in Nat, NEW q \in Nat, p <= q
  PROVE  /\ GapAt(p, q, p + Numbers(p % 2 = 1, q % 2 = 1))
         /\ Paired(p, q, p % 2 = 1, q % 2 = 1)
BY DEF Numbers, GapAt, Paired

\* The rebuilt vector is sorted, and between the positions it has what erase() leaves.
LEMMA Gap ==
  ASSUME NEW s, Vector(s), NEW a \in Int, NEW b \in Int, a <= b, NEW p, CutBefore(s, a, p),
         NEW q, CutAfter(s, b, q), p <= q, NEW k, GapAt(p, q, k), NEW u, NEW T,
         Parts(s, p, k, q, u, p % 2 = 1, a - 1, q % 2 = 1, b + 1, T)
  PROVE  /\ Vector(u)
         /\ \A ip \in Int : Between(u, p, k, ip) <=> Left(s, a, p, ip) \/ Rest(s, b, q, ip)
<1>1. Len(s) \in Nat /\ Len(s) % 2 = 0
  BY Zenon, Length
<1>2. /\ p \in Nat /\ p <= Len(s)
      /\ p > 0 => p \in 1..Len(s) /\ s[p] \in Int /\ s[p] < a
  BY Zenon, BeforeFacts
<1>3. /\ q \in Nat /\ q <= Len(s)
      /\ q < Len(s) => q + 1 \in 1..Len(s) /\ s[q + 1] \in Int /\ b < s[q + 1]
  BY Zenon, AfterFacts
<1>4. k \in Nat /\ p <= k /\ k % 2 = q % 2 /\ (p % 2 = 1 => p + 1 <= k)
  BY Zenon DEF GapAt
<1>5. /\ p % 2 = 1 => u[p + 1] = a - 1
      /\ q % 2 = 1 => u[k] = b + 1
  BY Zenon DEF Parts
<1>6. /\ u \in Seq(Int) /\ Len(u) = k + (Len(s) - q)
      /\ \A i \in 1..p : u[i] = s[i]
      /\ \A i \in 1..(Len(s) - q) : u[k + i] = s[q + i]
  BY Zenon DEF Parts, Rebuilt
<1>7. Len(u) \in Nat /\ Len(u) = k + (Len(s) - q)
  BY <1>1, <1>3, <1>4, <1>6
<1>8. ASSUME p > 0 PROVE u[p] = s[p]
  <2>1. p \in 1..p
    BY <1>2, <1>8
  <2> QED BY Zenon, <1>6, <2>1
<1>9. ASSUME k + 1 <= Len(u) PROVE q < Len(s) /\ u[k + 1] = s[q + 1]
  <2>1. q < Len(s) /\ 1 \in 1..(Len(s) - q)
    <3>1. q \in Nat /\ k \in Nat /\ Len(s) \in Nat
      BY Zenon, <1>1, <1>3, <1>4
    <3> QED BY <1>7, <1>9, <3>1
  <2> QED BY Zenon, <1>6, <2>1
<1>10. ASSUME NEW i \in p..k, 1 <= i, i + 1 <= Len(u)
       PROVE  Step(u, i)
  <2>1. i \in 1..Len(u) /\ i \in Nat
    BY <1>2, <1>4, <1>7, <1>10
  <2>2. CASE i % 2 = 0
    <3>1. u[i] < a
      <4>1. CASE i = p
        <5>1. p > 0
          BY SMTT(30), SMTT(60), <1>2, <1>10, <4>1
        <5> QED BY Zenon, <1>2, <1>8, <4>1, <5>1
      <4>2. CASE i = p + 1 /\ p % 2 = 1
        <5>1. u[i] = a - 1
          BY Zenon, <1>5, <4>2
        <5> QED BY <5>1
      <4> QED BY Zenon, <2>2, <4>1, <4>2 DEF GapAt
    <3>2. b < u[i + 1]
      <4>1. CASE i = k
        BY Zenon, <1>3, <1>9, <1>10, <4>1
      <4>2. CASE i + 1 = k /\ q % 2 = 1
        <5>1. u[i + 1] = b + 1
          BY Zenon, <1>5, <4>2
        <5> QED BY <5>1
      <4> QED BY Zenon, <2>2, <4>1, <4>2 DEF GapAt
    <3>3. u[i] \in Int /\ u[i + 1] \in Int
      <4>1. u \in Seq(Int)
        BY Zenon, <1>6
      <4> QED BY <1>7, <1>10, <2>1, <4>1
    <3>4. u[i] < u[i + 1]
      BY SMTT(30), SMTT(60), <3>1, <3>2, <3>3
    <3>5. Apart(u, i)
      BY Zenon, <3>4 DEF Apart
    <3> QED BY Zenon, <1>6, <1>10, <2>1, <3>5, ApartStep
  <2>3. CASE i % 2 = 1
    <3>1. (i + 1) % 2 = 0
      BY <2>1, <2>3
    <3>2. CASE i = p
      <4>1. p > 0
        BY <1>2, <1>10, <3>2
      <4>2. u[i] = s[p] /\ u[i + 1] = a - 1 /\ s[p] \in Int /\ s[p] < a
        BY Zenon, <1>2, <1>5, <1>8, <2>3, <3>2, <4>1
      <4>3. u[i] <= u[i + 1]
        BY <4>2
      <4> QED BY Zenon, <3>1, <4>3 DEF Step
    <3>3. CASE i = k
      <4>1. q % 2 = 1
        BY Zenon, <1>4, <2>3, <3>3
      <4>2. u[i] = b + 1 /\ u[i + 1] = s[q + 1] /\ s[q + 1] \in Int /\ b < s[q + 1]
        BY Zenon, <1>3, <1>5, <1>9, <1>10, <3>3, <4>1
      <4>3. u[i] <= u[i + 1]
        BY <4>2
      <4> QED BY Zenon, <3>1, <4>3 DEF Step
    <3> QED BY Zenon, <2>3, <3>2, <3>3 DEF GapAt
  <2> QED BY Zenon, <2>2, <2>3 DEF GapAt
<1>11. Vector(u)
  <2>1. p \in 0..Len(s) /\ q \in p..Len(s)
    BY <1>1, <1>2, <1>3
  <2>2. Rebuilt(s, p, k, q, u)
    BY Zenon DEF Parts
  <2>3. Steps(u, p, k)
    BY Zenon, <1>10 DEF Steps
  <2> QED BY Zenon, <1>4, <2>1, <2>2, <2>3, RebuiltVector
<1>12. ASSUME NEW ip \in Int, Between(u, p, k, ip)
       PROVE  Left(s, a, p, ip) \/ Rest(s, b, q, ip)
  <2>1. PICK i \in p..k : 1 <= i /\ i + 1 <= Len(u) /\ InRange(u, i, ip)
    BY Zenon, <1>12 DEF Between
  <2>2. i % 2 = 1 /\ u[i] <= ip /\ ip <= u[i + 1]
    BY Zenon, <2>1 DEF InRange
  <2>3. CASE i = p
    <3>1. p > 0
      BY <1>2, <2>1, <2>3
    <3> QED BY Zenon, <1>5, <1>8, <2>2, <2>3, <3>1 DEF Left
  <2>4. CASE i = k
    BY Zenon, <1>4, <1>5, <1>9, <2>1, <2>2, <2>4 DEF Rest
  <2> QED BY Zenon, <2>2, <2>3, <2>4 DEF GapAt
<1>13. ASSUME NEW ip \in Int, Left(s, a, p, ip) PROVE Between(u, p, k, ip)
  <2>1. p % 2 = 1 /\ s[p] <= ip /\ ip <= a - 1
    BY Zenon, <1>13 DEF Left
  <2>2. p \in p..k /\ 1 <= p /\ p + 1 <= Len(u) /\ p > 0
    <3>1. /\ p \in Nat /\ q \in Nat /\ q <= Len(s) /\ Len(s) \in Nat /\ p + 1 <= k
          /\ k \in Nat /\ p <= k
      BY Zenon, <1>1, <1>2, <1>3, <1>4, <2>1
    <3>2. 1 <= p
      BY <2>1, <3>1
    <3> QED BY <1>7, <3>1, <3>2
  <2> QED BY Zenon, <1>5, <1>8, <2>1, <2>2 DEF Between, InRange
<1>14. ASSUME NEW ip \in Int, Rest(s, b, q, ip) PROVE Between(u, p, k, ip)
  <2>1. q % 2 = 1 /\ b + 1 <= ip /\ ip <= s[q + 1]
    BY Zenon, <1>14 DEF Rest
  <2>2. k \in p..k /\ 1 <= k /\ k + 1 <= Len(u) /\ k % 2 = 1
    <3>1. /\ p \in Nat /\ q \in Nat /\ q <= Len(s) /\ Len(s) \in Nat
          /\ k \in Nat /\ p <= k
      BY Zenon, <1>1, <1>2, <1>3, <1>4
    <3>2. q < Len(s)
      BY SMTT(30), SMTT(60), <1>1, <2>1, <3>1
    <3>3. k % 2 = 1 /\ 1 <= k
      BY <1>4, <2>1
    <3> QED BY <1>7, <3>1, <3>2, <3>3
  <2> QED BY Zenon, <1>5, <1>9, <2>1, <2>2 DEF Between, InRange
<1> QED BY Zenon, <1>11, <1>12, <1>13, <1>14

\* The arithmetic of uint32_t does nothing to an address.
LEMMA WrapSame ==
  ASSUME 2^Bits \in Nat \ {0}, NEW n \in Int
  PROVE  Wrap(n) \in Int /\ (n \in IPs => Wrap(n) = n)
<1> DEFINE M == 2^Bits
<1>1. M \in Nat \ {0}
  OBVIOUS
<1> HIDE DEF M
<1>2. n % M \in Int /\ (n \in 0..(M - 1) => n % M = n)
  BY <1>1
<1> QED BY Zenon, <1>2 DEF M, Wrap, IPs

\* start - 1 and end + 1 do not wrap where erase() computes them: there is an address
\* below start, or above end, in the range that is cut.
LEMMA LessInside ==
  ASSUME 2^Bits \in Nat \ {0}, NEW x \in IPs, NEW y \in IPs, x < y
  PROVE  y - 1 \in IPs /\ x + 1 \in IPs
<1> DEFINE M == 2^Bits
<1>1. M \in Nat \ {0} /\ x \in 0..(M - 1) /\ y \in 0..(M - 1)
  BY Zenon DEF IPs
<1> HIDE DEF M
<1>2. y - 1 \in 0..(M - 1) /\ x + 1 \in 0..(M - 1)
  BY <1>1
<1> QED BY Zenon, <1>2 DEF M, IPs

\* erase() subtracts.
LEMMA EraseSubtracts ==
  ASSUME 2^Bits \in Nat \ {0}, NEW s, Vector(s), All(s, IPs), NEW a \in IPs, NEW b \in IPs, a <= b
  PROVE  /\ Vector(Erase(s, a, b)) /\ All(Erase(s, a, b), IPs)
         /\ \A ip \in Int :
              Within(Erase(s, a, b), ip) <=> Within(s, ip) /\ ~(a <= ip /\ ip <= b)
<1> DEFINE pa == find(s, a)
           qb == find(s, b)
           p == StartAt(s, a, pa)
           q == EndAt(s, b, qb)
           first == Odd(pa) /\ ~StartEdge(s, a, pa)
           last == Odd(qb) /\ ~EndEdge(s, b, qb)
           u == Rebuild(s, p, q, first, Wrap(a - 1), last, Wrap(b + 1))
           k == p + Numbers(first, last)
<1>1. Erase(s, a, b) = u
  BY Zenon DEF Erase, Rebuild, StartAt, EndAt, StartEdge, EndEdge
<1>2. a \in Int /\ b \in Int
  <2>1. \A M \in Nat \ {0} : \A n \in 0..(M - 1) : n \in Int
    OBVIOUS
  <2> QED BY Zenon, <2>1 DEF IPs
<1>3. Position(s, a, pa) /\ Position(s, b, qb)
  BY Zenon, <1>2, FindFinds
<1> HIDE DEF pa, qb
<1>4. /\ CutBefore(s, a, p) /\ CutAfter(s, b, q)
      /\ p % 2 = 1 <=> first
      /\ q % 2 = 1 <=> last
      /\ p <= pa /\ qb <= q
  BY Zenon, <1>2, <1>3, StartCut, EndCut
<1>5. pa <= qb
  BY Zenon, <1>2, <1>3, PositionsOrdered
<1>6. first \in BOOLEAN /\ last \in BOOLEAN
  OBVIOUS
<1> HIDE DEF p, q, first, last
<1>7. Len(s) \in Nat /\ s \in Seq(Int)
  BY Zenon, Length DEF Vector
<1>8. p \in Nat /\ q \in Nat /\ p <= q /\ p \in 0..Len(s) /\ q \in p..Len(s)
  <2>1. p \in 0..Len(s) /\ q \in 0..Len(s) /\ pa \in 0..Len(s) /\ qb \in 0..Len(s)
    BY Zenon, <1>3, <1>4 DEF CutBefore, CutAfter, Position
  <2>2. p <= pa /\ qb <= q
    BY Zenon, <1>4
  <2> QED BY <1>5, <1>7, <2>1, <2>2
<1>9. GapAt(p, q, k) /\ Paired(p, q, first, last)
  <2>1. GapAt(p, q, p + Numbers(p % 2 = 1, q % 2 = 1)) /\ Paired(p, q, p % 2 = 1, q % 2 = 1)
    BY Zenon, <1>8, GapPlace
  <2>2. Numbers(p % 2 = 1, q % 2 = 1) = Numbers(first, last)
    BY Zenon, <1>4 DEF Numbers
  <2>3. Paired(p, q, first, last)
    BY Zenon, <1>4, <2>1 DEF Paired
  <2> QED BY Zenon, <2>1, <2>2, <2>3
<1>10. a - 1 \in Int /\ b + 1 \in Int /\ Wrap(a - 1) \in Int /\ Wrap(b + 1) \in Int
  <2>1. a - 1 \in Int /\ b + 1 \in Int
    BY <1>2
  <2> QED BY Zenon, <2>1, WrapSame
<1>11. Parts(s, p, k, q, u, first, Wrap(a - 1), last, Wrap(b + 1), IPs)
  BY Zenon, <1>6, <1>7, <1>8, <1>9, <1>10, RebuiltParts
<1> HIDE DEF u, k
<1>12. ASSUME p % 2 = 1 PROVE a - 1 \in IPs /\ Wrap(a - 1) = a - 1
  <2>1. p > 0
    BY <1>8, <1>12
  <2>2. p \in 1..Len(s) /\ s[p] < a
    BY Zenon, <1>2, <1>4, <2>1, BeforeFacts
  <2>3. s[p] \in IPs
    BY Zenon, <2>2 DEF All
  <2>4. a - 1 \in IPs
    BY Zenon, <2>2, <2>3, LessInside
  <2> QED BY Zenon, <1>10, <2>4, WrapSame
<1>13. ASSUME q % 2 = 1 PROVE b + 1 \in IPs /\ Wrap(b + 1) = b + 1
  <2>1. q < Len(s)
    <3>1. Len(s) % 2 = 0 /\ q <= Len(s)
      BY Zenon, <1>2, <1>4, AfterFacts, Length
    <3> QED BY <1>7, <1>8, <1>13, <3>1
  <2>2. q + 1 \in 1..Len(s) /\ b < s[q + 1]
    BY Zenon, <1>2, <1>4, <2>1, AfterFacts
  <2>3. s[q + 1] \in IPs
    BY Zenon, <2>2 DEF All
  <2>4. b + 1 \in IPs
    BY Zenon, <2>2, <2>3, LessInside
  <2> QED BY Zenon, <1>10, <2>4, WrapSame
<1>14. Parts(s, p, k, q, u, p % 2 = 1, a - 1, q % 2 = 1, b + 1, IPs)
  BY Zenon, <1>4, <1>11, <1>12, <1>13 DEF Parts
<1>15. /\ Vector(u)
       /\ \A ip \in Int : Between(u, p, k, ip) <=> Left(s, a, p, ip) \/ Rest(s, b, q, ip)
  BY Zenon, <1>2, <1>4, <1>8, <1>9, <1>14, Gap
<1>16. k \in Nat /\ p <= k /\ k % 2 = q % 2 /\ Rebuilt(s, p, k, q, u) /\ Middle(u, p, k, IPs)
  BY Zenon, <1>9, <1>12, <1>13, <1>14 DEF Parts, GapAt
<1>17. All(u, IPs)
  BY Zenon, <1>7, <1>8, <1>16, RebuiltAll
<1>18. ASSUME NEW ip \in Int
       PROVE  Within(u, ip) <=> Within(s, ip) /\ ~(a <= ip /\ ip <= b)
  <2>1. Within(s, ip) <=> Low(s, p, ip) \/ High(s, q, ip) \/ Between(s, p, q, ip)
    BY Zenon, <1>8, WithinSelf
  <2>2. Within(u, ip) <=> Low(s, p, ip) \/ High(s, q, ip) \/ Between(u, p, k, ip)
    BY Zenon, <1>8, <1>15, <1>16, WithinParts
  <2>3. Between(s, p, q, ip) /\ ~(a <= ip /\ ip <= b)
          <=> Left(s, a, p, ip) \/ Rest(s, b, q, ip)
    BY Zenon, <1>2, <1>4, <1>8, BetweenLeft
  <2>4. Low(s, p, ip) => ~(a <= ip)
    <3>1. Low(s, p, ip) => ip < a
      BY Zenon, <1>2, <1>4, LowLess
    <3> QED BY <1>2, <3>1
  <2>5. High(s, q, ip) => ~(ip <= b)
    <3>1. High(s, q, ip) => b < ip
      BY Zenon, <1>2, <1>4, HighGreater
    <3> QED BY <1>2, <3>1
  <2> QED BY Zenon, <1>15, <2>1, <2>2, <2>3, <2>4, <2>5
<1> QED BY Zenon, <1>1, <1>15, <1>17, <1>18

--------------------------------------------------------------------------------
\* contains() is true within the ranges.
LEMMA ContainsWithin ==
  ASSUME NEW s, Vector(s), NEW ip \in Int
  PROVE  contains(s, ip) <=> Within(s, ip)
<1> DEFINE p == find(s, ip)
<1>1. Position(s, ip, p)
  BY Zenon, FindFinds
<1>2. contains(s, ip) <=> p % 2 = 1
  BY Zenon DEF contains, Odd
<1> HIDE DEF p
<1>3. Len(s) \in Nat /\ Len(s) % 2 = 0
  BY Zenon, Length
<1>4. p \in Nat /\ p <= Len(s) /\ (p % 2 = 1 \/ p % 2 = 0)
  BY Zenon, <1>1, PositionFacts
<1>5. ASSUME p % 2 = 1 PROVE Within(s, ip)
  BY Zenon, <1>1, <1>5, PositionFacts DEF Within, InRange
<1>6. ASSUME p % 2 = 0, Within(s, ip) PROVE FALSE
  <2>1. PICK i \in 1..Len(s) : InRange(s, i, ip)
    BY Zenon, <1>6 DEF Within
  <2>2. i % 2 = 1 /\ s[i] <= ip /\ ip <= s[i + 1]
    BY Zenon, <2>1 DEF InRange
  <2>3. i \in Nat /\ i + 1 \in 1..Len(s)
    BY <1>3, <2>2
  <2>4. CASE i < p
    <3>1. i + 1 <= p /\ p > 0 /\ p \in 1..Len(s)
      BY <1>3, <1>4, <2>3, <2>4
    <3>2. s[p] < ip
      BY Zenon, <1>1, <1>6, <3>1, PositionFacts
    <3>3. s[i + 1] \in Int /\ s[p] \in Int /\ s[i + 1] <= s[p]
      BY Zenon, <2>3, <3>1, Ascends
    <3> QED BY SMTT(30), SMTT(60), <2>2, <3>2, <3>3
  <2>5. CASE p < i
    <3>1. p + 1 <= i /\ p < Len(s) /\ p + 1 \in 1..Len(s)
      BY SMTT(30), SMTT(60), <1>3, <1>4, <2>3, <2>5
    <3>2. ip < s[p + 1]
      BY Zenon, <1>1, <1>6, <3>1, PositionFacts
    <3>3. s[p + 1] \in Int /\ s[i] \in Int /\ s[p + 1] <= s[i]
      BY Zenon, <3>1, Ascends
    <3> QED BY SMTT(30), SMTT(60), <2>2, <3>2, <3>3
  <2>6. i < p \/ p < i
    <3>1. i # p
      BY <1>6, <2>2
    <3> QED BY <1>4, <2>3, <3>1
  <2> QED BY Zenon, <2>4, <2>5, <2>6
<1>7. p % 2 = 0 => p % 2 # 1
  OBVIOUS
<1> QED BY Zenon, <1>2, <1>4, <1>5, <1>6, <1>7

\* Addresses are numbers.
LEMMA Addresses ==
  ASSUME 2^Bits \in Nat \ {0}, NEW ip \in IPs
  PROVE  ip \in Int
<1> DEFINE M == 2^Bits
<1>1. M \in Nat \ {0} /\ ip \in 0..(M - 1)
  BY Zenon DEF IPs
<1> HIDE DEF M
<1> QED BY <1>1

\* The ends of a range, in order.
LEMMA Ends ==
  ASSUME 2^Bits \in Nat \ {0}, NEW a \in IPs, NEW b \in IPs
  PROVE  /\ Lesser(a, b) \in IPs /\ Greater(a, b) \in IPs
         /\ Lesser(a, b) \in Int /\ Greater(a, b) \in Int /\ Lesser(a, b) <= Greater(a, b)
<1>1. a \in Int /\ b \in Int
  BY Zenon, Addresses
<1> QED BY <1>1 DEF Lesser, Greater

\* The vector s is sorted, and exactly the addresses of the set M are within its
\* ranges.
Represents(s, M) ==
  /\ Vector(s) /\ All(s, IPs)
  /\ \A ip \in IPs : Within(s, ip) <=> ip \in M

\* The empty vector has no addresses.
LEMMA EmptyRepresents == Represents(<<>>, {})
<1>1. Vector(<<>>) /\ Len(<<>>) = 0 /\ 1..0 = {}
  BY DEF Vector
<1>2. 1..Len(<<>>) = {}
  BY Zenon, <1>1
<1> QED BY Zenon, <1>1, <1>2 DEF Represents, All, Within

\* An address is in the range from x to y when it lies between them.
LEMMA Interval ==
  ASSUME 2^Bits \in Nat \ {0}, NEW x \in Int, NEW y \in Int
  PROVE  \A ip \in IPs : ip \in Int /\ (ip \in x..y <=> x <= ip /\ ip <= y)
<1>1. \A ip \in Int : ip \in x..y <=> x <= ip /\ ip <= y
  OBVIOUS
<1> QED BY Zenon, <1>1, Addresses

\* insert() adds the addresses of its range.
LEMMA InsertRepresents ==
  ASSUME 2^Bits \in Nat \ {0}, NEW s, NEW M, Represents(s, M), NEW a \in IPs, NEW b \in IPs
  PROVE  Represents(Insert(s, Lesser(a, b), Greater(a, b)), M \cup Lesser(a, b)..Greater(a, b))
<1> DEFINE x == Lesser(a, b)
           y == Greater(a, b)
           u == Insert(s, x, y)
<1>1. x \in IPs /\ y \in IPs /\ x \in Int /\ y \in Int /\ x <= y
  BY Zenon, Ends
<1> HIDE DEF x, y
<1>2. /\ Vector(u) /\ All(u, IPs)
      /\ \A ip \in Int : Within(u, ip) <=> Within(s, ip) \/ (x <= ip /\ ip <= y)
  BY Zenon, <1>1, InsertUnites DEF Represents
<1> HIDE DEF u
<1>3. \A ip \in IPs : ip \in Int /\ (ip \in x..y <=> x <= ip /\ ip <= y)
  BY Zenon, <1>1, Interval
<1>4. Represents(u, M \cup x..y)
  BY Zenon, <1>2, <1>3 DEF Represents
<1> QED BY Zenon, <1>4 DEF u, x, y

\* erase() removes the addresses of its range.
LEMMA EraseRepresents ==
  ASSUME 2^Bits \in Nat \ {0}, NEW s, NEW M, Represents(s, M), NEW a \in IPs, NEW b \in IPs
  PROVE  Represents(Erase(s, Lesser(a, b), Greater(a, b)), M \ Lesser(a, b)..Greater(a, b))
<1> DEFINE x == Lesser(a, b)
           y == Greater(a, b)
           u == Erase(s, x, y)
<1>1. x \in IPs /\ y \in IPs /\ x \in Int /\ y \in Int /\ x <= y
  BY Zenon, Ends
<1> HIDE DEF x, y
<1>2. /\ Vector(u) /\ All(u, IPs)
      /\ \A ip \in Int : Within(u, ip) <=> Within(s, ip) /\ ~(x <= ip /\ ip <= y)
  BY Zenon, <1>1, EraseSubtracts DEF Represents
<1> HIDE DEF u
<1>3. \A ip \in IPs : ip \in Int /\ (ip \in x..y <=> x <= ip /\ ip <= y)
  BY Zenon, <1>1, Interval
<1>4. Represents(u, M \ x..y)
  BY Zenon, <1>2, <1>3 DEF Represents
<1> QED BY Zenon, <1>4 DEF u, x, y

\* contains() is true of the addresses that the vector represents.
LEMMA ContainsRepresented ==
  ASSUME 2^Bits \in Nat \ {0}, NEW s, NEW M, Represents(s, M)
  PROVE  \A ip \in IPs : contains(s, ip) <=> ip \in M
<1>1. \A ip \in IPs : ip \in Int
  BY Zenon, Addresses
<1>2. \A ip \in Int : contains(s, ip) <=> Within(s, ip)
  BY Zenon, ContainsWithin DEF Represents
<1> QED BY Zenon, <1>1, <1>2 DEF Represents

\* The vector holds pairs start <= end, ascending and without overlap.
LEMMA RepresentationSorted ==
  ASSUME NEW s, NEW M, Represents(s, M)
  PROVE  /\ Len(s) % 2 = 0
         /\ \A i \in 1..Len(s) :
              /\ s[i] \in IPs
              /\ i > 1 => IF i % 2 = 0 THEN s[i - 1] <= s[i] ELSE s[i - 1] < s[i]
<1>1. Vector(s) /\ All(s, IPs)
  BY Zenon DEF Represents
<1>2. Len(s) \in Nat /\ Len(s) % 2 = 0
  BY Zenon, <1>1, Length
<1>3. ASSUME NEW i \in 1..Len(s), i > 1
      PROVE  IF i % 2 = 0 THEN s[i - 1] <= s[i] ELSE s[i - 1] < s[i]
  <2>1. i - 1 \in 1..Len(s) /\ i - 1 + 1 <= Len(s) /\ i - 1 + 1 = i
    BY <1>2, <1>3
  <2>2. /\ s[i - 1] \in Int /\ s[i] \in Int /\ s[i - 1] <= s[i]
        /\ s[i - 1] = s[i] => i % 2 = 0
    BY Zenon, <1>1, <2>1, Neighbours
  <2>3. i % 2 # 0 => s[i - 1] < s[i]
    BY <2>2
  <2> QED BY Zenon, <2>2, <2>3
<1> QED BY Zenon, <1>1, <1>2, <1>3 DEF All

--------------------------------------------------------------------------------
(* The number of connections.                                              *)

INSTANCE FiniteSetTheorems

\* A connection is only added where there is room for it.
LEMMA BoundKept ==
  ASSUME IsFiniteSet(connections), Bounded, Next
  PROVE  (IsFiniteSet(connections) /\ Bounded)'
<1>1. CASE connections' \subseteq connections
  BY SMTT(30), SMTT(60), <1>1, FS_Subset, FS_CardinalityType, BoundsAreNatural DEF Bounded
<1>2. ASSUME NEW c \in Clients, Accept(c) PROVE (IsFiniteSet(connections) /\ Bounded)'
  <2> PICK drop \in Drops :
        LET open == connections \ (Closing \union drop) IN
        \/ connections' = open
        \/ ~(maxConnections <= Cardinality(open)) /\ connections' = open \union {c}
    BY Zenon, <1>2 DEF Accept
  <2> DEFINE open == connections \ (Closing \union drop)
  <2>1. /\ IsFiniteSet(open) /\ Cardinality(open) \in Nat
        /\ Cardinality(open) <= Cardinality(connections)
    BY ZenonT(60), FS_Subset, FS_CardinalityType
  <2>2. /\ IsFiniteSet(open \union {c})
        /\ Cardinality(open \union {c}) \in {Cardinality(open), Cardinality(open) + 1}
    BY ZenonT(60), <2>1, FS_AddElement
  <2>3. Cardinality(connections) \in Nat
    BY FS_CardinalityType
  <2>4. \/ connections' = open
        \/ ~(maxConnections <= Cardinality(open)) /\ connections' = open \union {c}
    OBVIOUS
  <2> HIDE DEF open
  <2>5. Cardinality(open) <= maxConnections
    BY SMTT(30), SMTT(60), <2>1, <2>3, BoundsAreNatural DEF Bounded
  <2>6. ~(maxConnections <= Cardinality(open)) => Cardinality(open \union {c}) <= maxConnections
    BY SMTT(30), SMTT(60), <2>1, <2>2, BoundsAreNatural
  <2>7. IsFiniteSet(connections') /\ Cardinality(connections') <= maxConnections
    BY Zenon, <2>1, <2>2, <2>4, <2>5, <2>6
  <2> QED BY <2>7 DEF Bounded
<1>3. (\A c \in Clients : ~Accept(c)) => connections' \subseteq connections
  BY Zenon DEF Next, Connect, Expire, StartPool, Stop, Join, OwnerStep, StartThread, StartFails,
         ShutdownQueue,
         JoinThread, Joined, WorkerStep, PoolThread, NextConnection, Take, Build, Built,
         ServerStep, Select, ProcessConnections, AcceptNone, Cleanup, Exit, Visit, Pass,
         Partial, Abort, ReadHeader, ReadData, Restart, Enqueue, WriteHeader, WriteData,
         Report, Reported, ReportThrows, Timeouts, Deny, conVars, clientVars
<1> QED BY ZenonT(60), <1>1, <1>2, <1>3

\* createConnection() never lets the connections outnumber max-connections
\* (Bounded), which limitConnections() relies on when it drops at most one.
THEOREM ConnectionsBounded == Spec => []Bounded
<1> DEFINE FB == IsFiniteSet(connections) /\ Bounded
<1>1. Init => FB
  BY SMTT(30), SMTT(60), FS_EmptySet, BoundsAreNatural DEF Init, Bounded
<1>2. FB /\ [Next]_vars => FB'
  BY BoundKept DEF vars, conVars, Bounded
<1>3. FB => Bounded
  OBVIOUS
<1> QED BY <1>1, <1>2, <1>3, PTL DEF Spec
================================================================================
