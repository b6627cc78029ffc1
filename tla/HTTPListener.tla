------------------------------ MODULE HTTPListener ------------------------------
(***************************************************************************)
(* event/HTTP, the listening side of a web server, and the part of         *)
(* event/WebServer::init() that binds it.  acceptEvent is watched while    *)
(* accepting; a connection is in the list connections from acceptCB() to   *)
(* HTTP::remove(), which Connection::free() calls, or until expireCB()     *)
(* drops it.  The list holds the reference that keeps an idle Connection   *)
(* alive; a Connection with a request is also kept by that request.        *)
(***************************************************************************)
EXTENDS Integers, FiniteSets

CONSTANTS Clients,         \* the clients; each connects once
          MaxConnections,  \* HTTP::maxConnections, 0 for no limit
          MaxTTL,          \* is there a maxConnectionTTL?
          Evicting,        \* does the handler override HTTPHandler::evict()?
          Addresses        \* the number of http-addresses

ASSUME ListenerAssumption == /\ IsFiniteSet(Clients)
                             /\ MaxConnections \in Nat
                             /\ MaxTTL \in BOOLEAN
                             /\ Evicting \in BOOLEAN
                             /\ Addresses \in Nat \ {0}

VARIABLES ports,        \* how many addresses init() has bound
          failed,       \* init() has thrown
          accepting,    \* acceptEvent is pending
          connections,  \* HTTP::connections
          peer,         \* what became of each client
          old           \* connections past maxConnectionTTL

vars == <<ports, failed, accepting, connections, peer, old>>

Phases == {"away",      \* has not connected
           "backlog",   \* waits in the listen queue
           "idle",      \* its Connection reads, without a request
           "busy",      \* its Connection has a request
           "gone"}      \* its socket is closed

Open == {c \in Clients : peer[c] \in {"idle", "busy"}}

Init ==
    /\ ports = 0 /\ failed = FALSE
    /\ accepting = FALSE
    /\ connections = {} /\ old = {}
    /\ peer = [c \in Clients |-> "away"]
--------------------------------------------------------------------------------
\* HTTP::bind() for the next of the addresses; "Already bound" leaves init().
bind ==
    /\ ports < Addresses /\ ~failed
    /\ IF ports > 0
       THEN failed' = TRUE /\ UNCHANGED <<ports, accepting>>
       ELSE ports' = 1 /\ accepting' = TRUE /\ UNCHANGED failed
    /\ UNCHANGED <<connections, peer, old>>

Listening == ports = Addresses

Connect(c) ==
    /\ Listening /\ peer[c] = "away"
    /\ peer' = [peer EXCEPT ![c] = "backlog"]
    /\ UNCHANGED <<ports, failed, accepting, connections, old>>

\* A Connection that nothing refers to is destroyed, which closes its socket.
Dropped(S) == [c \in Clients |-> IF c \in S /\ peer[c] = "idle" THEN "gone" ELSE peer[c]]

Full(S) == MaxConnections # 0 /\ MaxConnections <= Cardinality(S)

\* HTTPHandler::evict() may take connections off the list; by default it does
\* nothing.  With the list still full acceptEvent is deleted.
acceptCB(c) ==
    /\ accepting /\ peer[c] = "backlog"
    /\ \E evicted \in IF Evicting /\ Full(connections) THEN SUBSET connections ELSE {{}} :
         LET left == connections \ evicted
         IN  IF Full(left)
             THEN /\ accepting' = FALSE
                  /\ connections' = left /\ peer' = Dropped(evicted)
             ELSE /\ UNCHANGED accepting
                  /\ connections' = left \cup {c}
                  /\ peer' = [Dropped(evicted) EXCEPT ![c] = "idle"]
    /\ UNCHANGED <<ports, failed, old>>

newRequest(c) ==
    /\ peer[c] = "idle"
    /\ peer' = [peer EXCEPT ![c] = "busy"]
    /\ UNCHANGED <<ports, failed, accepting, connections, old>>

\* writeCB() pops the request of a persistent connection; off the list that was
\* the last reference.
writeCB(c) ==
    /\ peer[c] = "busy"
    /\ peer' = [peer EXCEPT ![c] = IF c \in connections THEN "idle" ELSE "gone"]
    /\ UNCHANGED <<ports, failed, accepting, connections, old>>

free_NoAdd(c) ==
    /\ c \in Open
    /\ peer' = [peer EXCEPT ![c] = "gone"]
    /\ connections' = connections \ {c}
    /\ UNCHANGED <<ports, failed, accepting, old>>

\* Connection::free() and HTTP::remove(): an error, a timeout, the client hangs
\* up or the last answer was written.
free(c) ==
    /\ c \in Open
    /\ peer' = [peer EXCEPT ![c] = "gone"]
    /\ connections' = connections \ {c}
    /\ accepting' = TRUE
    /\ UNCHANGED <<ports, failed, old>>

Age(c) ==
    /\ MaxTTL /\ c \in connections \ old
    /\ old' = old \cup {c}
    /\ UNCHANGED <<ports, failed, accepting, connections, peer>>

\* Once per minute.
expireCB ==
    /\ MaxTTL /\ connections \cap old # {}
    /\ connections' = connections \ old
    /\ peer' = Dropped(connections \cap old)
    /\ UNCHANGED <<ports, failed, accepting, old>>

Next ==
    \/ bind \/ expireCB
    \/ \E c \in Clients : \/ Connect(c) \/ acceptCB(c) \/ newRequest(c)
                          \/ writeCB(c) \/ free(c) \/ Age(c)

Spec == Init /\ [][Next]_vars

\* The loop accepts what it finds.  No client asks for ever: a silent one is
\* closed by readTimeout or writeTimeout, another hangs up.
FairSpec ==
    /\ Spec
    /\ WF_vars(bind)
    /\ \A c \in Clients : WF_vars(acceptCB(c)) /\ SF_vars(free(c))
--------------------------------------------------------------------------------
TypeOK ==
    /\ ports \in 0..Addresses /\ failed \in BOOLEAN /\ accepting \in BOOLEAN
    /\ connections \subseteq Clients /\ old \subseteq Clients
    /\ peer \in [Clients -> Phases]

\* The list that maxConnections is compared with holds open connections only,
\* each once, and every open connection is on it or was dropped while busy.
ListIsOpen ==
    /\ connections \subseteq Open
    /\ \A c \in Clients : peer[c] = "idle" => c \in connections

\* However accepts, evictions and closes interleave there are never more than
\* maxConnections connections in the list.
CountBounded == MaxConnections # 0 => Cardinality(connections) <= MaxConnections

\* acceptCB() deletes acceptEvent when the list is full and remove() adds it
\* again: the listener never sleeps while it has room, unless expireCB() made it.
AcceptsWithRoom == ports > 0 /\ ~accepting => Full(connections \cup old)

\* A client in the listen queue is accepted in the end, unless connections
\* reach maxConnectionTTL.
BacklogServed ==
    \A c \in Clients : peer[c] = "backlog" ~> peer[c] # "backlog" \/ old # {}
================================================================================
