------------------------------ MODULE MCHTTPServer ------------------------------
(***************************************************************************)
(* The threaded web server for TLC, with what its threads use: the filter  *)
(* of addresses, the sessions and their database, the access lists and the *)
(* rates.  No two of them share state, so one part runs, which is chosen   *)
(* at the start, and the others stay as they were initialised.             *)
(***************************************************************************)
EXTENDS ThreadedServer, Sequences

CONSTANTS
  Bits,                                                           \* of IPRangeSet
  Ids, sessionTimeout, sessionLifetime, CleanupInterval, MaxDate, MaxFaults,  \* of SessionStore
  Users, Groups, Paths, Docs,                                     \* of ACLSet
  Size, Width, MaxTime, MaxEvents, MaxBack, MaxResets             \* of Rate

VARIABLES
  part,
  rangeSet, addresses,
  sessions, unsaved, lastSessionCleanup, date, locked, saver, rows, table, open, dropped,
  running, faults,
  users, groups, members, acls, aclUsers, aclGroups, dirty, cache, groupCache,
  buckets, last, head, fill, now, back, seen, reset

Ranges == INSTANCE IPRangeSet WITH members <- addresses
Sessions == INSTANCE SessionStore WITH MaxTime <- MaxDate, dirty <- unsaved, now <- date
Access == INSTANCE ACLSet
Rates == INSTANCE Rate

rangeVars == <<rangeSet, addresses>>
sessionVars == <<sessions, unsaved, lastSessionCleanup, date, locked, saver, rows, table, open,
                 dropped, running, faults>>
accessVars == <<users, groups, members, acls, aclUsers, aclGroups, dirty, cache, groupCache>>
rateVars == <<buckets, last, head, fill, now, back, seen, reset>>

\* "/" and a page; a document that names nobody, and one that only has an ACL
\* whose names are to be added.
MCPaths == {<<>>, <<"page">>}
NoACL == [users |-> {}, groups |-> {}, members |-> [g \in Groups |-> {}], acls |-> {},
          aclUsers |-> [p \in MCPaths |-> {}], aclGroups |-> [p \in MCPaths |-> {}]]
OneACL == [NoACL EXCEPT !.acls = {<<"page">>}, !.aclUsers = [p \in MCPaths |-> Users],
                        !.aclGroups = [p \in MCPaths |-> Groups]]
MCDocs == {NoACL, OneACL}

\* There are 2^Bits addresses.
ASSUME BitsAssumption == 2^Bits \in Nat \ {0}

\* A document names users, groups and paths there are.
ASSUME DocsAssumption ==
  Docs \subseteq [users : SUBSET Users, groups : SUBSET Groups,
                  members : [Groups -> SUBSET Users], acls : SUBSET Paths,
                  aclUsers : [Paths -> SUBSET Users], aclGroups : [Paths -> SUBSET Groups]]

\* A pool of two threads serves one client; a pool of one thread serves two,
\* which then compete for a place.
Pools == {<<{1, 2}, {2}>>, <<{1}, {}>>}

MCInit ==
  /\ Init /\ Ranges!Init /\ Sessions!Init /\ Access!Init /\ Rates!Init
  /\ \/ part = "server" /\ <<pool, arrived>> \in Pools
     \/ part \in {"ranges", "sessions", "access", "rates"} /\ <<pool, arrived>> = <<{1}, {}>>

MCNext ==
  /\ UNCHANGED part
  /\ \/ part = "server" /\ Next /\ UNCHANGED <<rangeVars, sessionVars, accessVars, rateVars>>
     \/ part = "ranges" /\ Ranges!Next /\ UNCHANGED <<vars, sessionVars, accessVars, rateVars>>
     \/ part = "sessions" /\ Sessions!Next /\ UNCHANGED <<vars, rangeVars, accessVars, rateVars>>
     \/ part = "access" /\ Access!Next /\ UNCHANGED <<vars, rangeVars, sessionVars, rateVars>>
     \/ part = "rates" /\ Rates!Next /\ UNCHANGED <<vars, rangeVars, sessionVars, accessVars>>

mcVars == <<part, vars, rangeVars, sessionVars, accessVars, rateVars>>

\* The fairness of ThreadedServer; the other parts have none.
MCFairness ==
  /\ WF_vars(part = "server" /\ ServerStep) /\ WF_vars(part = "server" /\ OwnerStep)
  /\ \A w \in Workers : WF_vars(part = "server" /\ WorkerStep(w))

MCSpec == MCInit /\ [][MCNext]_mcVars /\ MCFairness
--------------------------------------------------------------------------------
\* contains() is true of exactly the addresses inserted and not erased since,
\* and the vector of ranges stays sorted.
ContainsMembers == part = "ranges" => Ranges!ContainsMembers

\* A session manager that is not dirty has nothing to save.
CleanIsSaved == part = "sessions" => Sessions!CleanIsSaved

\* A commit stores the whole table of sessions as it is at that moment.
SavedAtOnce == Sessions!SavedAtOnce

\* allow() answers what the users, the groups and the ACLs say now.
AllowIsCurrent == part = "access" => Access!AllowIsCurrent

\* get() counts the events of the last periods, each once, and no others.
RateIsAverage == part = "rates" => Rates!RateIsAverage
================================================================================
