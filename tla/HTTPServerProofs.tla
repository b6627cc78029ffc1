---------------------------- MODULE HTTPServerProofs ----------------------------
(***************************************************************************)
(* The filter of addresses, the sessions and the access lists of the web   *)
(* server, for every width of an address and every set of ids, users,      *)
(* groups, paths and documents.                                            *)
(***************************************************************************)
EXTENDS MCHTTPServer, TLAPS

--------------------------------------------------------------------------------
(* The session manager.                                                    *)

\* While the rows are written the mutex is held and they are rows of the table
\* of sessions; while they are loaded they are what is committed.
SaverInv ==
  /\ Sessions!IsATable(sessions) /\ Sessions!IsATable(rows) /\ Sessions!IsATable(table)
  /\ unsaved \in BOOLEAN /\ dropped \in BOOLEAN /\ running \in BOOLEAN
  /\ locked = (saver = "writing")
  /\ saver \in {"idle", "begun", "writing", "loading"}
  /\ saver = "writing" => /\ DOMAIN rows \subseteq DOMAIN sessions
                          /\ \A i \in DOMAIN rows : rows[i] = sessions[i]
  /\ saver = "begun" => rows = Sessions!Empty
  /\ saver = "loading" => rows = table
  /\ ~running => saver = "idle"

SessionsInv == SaverInv /\ Sessions!CleanIsSaved

\* Removing nothing from a table leaves it as it is.
LEMMA RemoveNothing ==
  ASSUME NEW t, Sessions!IsATable(t)
  PROVE  Sessions!Remove(t, {}) = t
BY DEF Sessions!Remove, Sessions!IsATable

\* update() leaves a clean manager with the table it was given, or dirty.
LEMMA CleanUpOrDirty ==
  ASSUME NEW t, Sessions!IsATable(t), unsaved \in BOOLEAN, Sessions!CleanUp(t)
  PROVE  /\ Sessions!IsATable(sessions') /\ unsaved' \in BOOLEAN
         /\ ~unsaved' => ~unsaved /\ sessions' = t
<1>1. CASE (sessionLifetime # 0 \/ sessionTimeout # 0)
             /\ lastSessionCleanup + CleanupInterval < date
  <2>1. /\ sessions' = Sessions!Remove(t, Sessions!Old(t))
        /\ unsaved' = (unsaved \/ Sessions!Old(t) # {})
    BY <1>1 DEF Sessions!CleanUp
  <2>2. Sessions!IsATable(sessions')
    BY <2>1 DEF Sessions!Remove, Sessions!IsATable
  <2>3. CASE unsaved'
    BY <2>1, <2>2, <2>3
  <2>4. CASE ~unsaved'
    BY Zenon, <2>1, <2>2, <2>4, RemoveNothing
  <2> QED BY <2>3, <2>4, <2>1
<1>2. CASE ~((sessionLifetime # 0 \/ sessionTimeout # 0)
             /\ lastSessionCleanup + CleanupInterval < date)
  BY <1>2 DEF Sessions!CleanUp
<1> QED BY <1>1, <1>2

\* Two tables with the same rows are the same.
LEMMA SameRows ==
  ASSUME NEW t, NEW u, Sessions!IsATable(t), Sessions!IsATable(u), DOMAIN t = DOMAIN u,
         \A i \in DOMAIN t : t[i] = u[i]
  PROVE  t = u
BY DEF Sessions!IsATable

LEMMA SessionsInit == Sessions!Init => SessionsInv
BY Zenon DEF Sessions!Init, SessionsInv, SaverInv, Sessions!CleanIsSaved, Sessions!Empty,
       Sessions!IsATable

\* A worker changes the sessions only while the rows are not being written,
\* and marks the manager dirty with it.
LEMMA SessionStep ==
  ASSUME SessionsInv,
         \/ \E i \in Ids : \/ Sessions!OpenSession(i)
                            \/ Sessions!GetSession(i) \/ Sessions!CloseSession(i)
         \/ Sessions!Update
  PROVE  SessionsInv'
<1> USE DEF SessionsInv, SaverInv, Sessions!CleanIsSaved, Sessions!saveVars
<1>1. CASE \E i \in Ids : \/ Sessions!OpenSession(i)
                           \/ Sessions!GetSession(i) \/ Sessions!CloseSession(i)
  <2>1. Sessions!IsATable(sessions')
    BY <1>1 DEF Sessions!OpenSession, Sessions!GetSession, Sessions!CloseSession, Sessions!Put,
                Sessions!Remove, Sessions!IsATable
  <2>2. unsaved' = TRUE /\ Sessions!Worker
    BY <1>1 DEF Sessions!OpenSession, Sessions!GetSession, Sessions!CloseSession
  <2> QED BY Zenon, <2>1, <2>2 DEF Sessions!Worker
<1>2. CASE Sessions!Update
  <2>1. Sessions!Worker /\ Sessions!CleanUp(sessions)
    BY <1>2 DEF Sessions!Update
  <2>2. /\ Sessions!IsATable(sessions') /\ unsaved' \in BOOLEAN
        /\ ~unsaved' => ~unsaved /\ sessions' = sessions
    BY <2>1, CleanUpOrDirty
  <2> QED BY <2>1, <2>2 DEF Sessions!Worker
<1> QED BY <1>1, <1>2

\* A commit makes the committed table the one the workers see.
LEMMA CommitStep ==
  ASSUME SaverInv, Sessions!SaveCommit
  PROVE  table' = sessions
<1>1. DOMAIN rows = DOMAIN sessions
  BY DEF SaverInv, Sessions!SaveCommit, Sessions!Saver
<1>2. rows = sessions
  BY ZenonT(60), <1>1, SameRows DEF SaverInv, Sessions!SaveCommit, Sessions!Saver
<1> QED BY <1>2 DEF Sessions!SaveCommit

LEMMA SaveStep ==
  ASSUME SessionsInv,
         \/ Sessions!SaveBegin \/ Sessions!SaveRefused \/ Sessions!SaveLock
         \/ Sessions!SaveRow \/ Sessions!SaveCommit \/ Sessions!SaveFails
  PROVE  SessionsInv'
<1> USE DEF SessionsInv, SaverInv, Sessions!CleanIsSaved, Sessions!Saver, Sessions!saveVars
<1>1. CASE Sessions!SaveBegin
  BY Zenon, <1>1 DEF Sessions!SaveBegin, Sessions!Empty, Sessions!IsATable
<1>2. CASE Sessions!SaveRefused
  BY Zenon, <1>2 DEF Sessions!SaveRefused
<1>3. CASE Sessions!SaveLock
  BY Zenon, <1>3 DEF Sessions!SaveLock, Sessions!Empty
<1>4. CASE Sessions!SaveRow
  <2>1. PICK i \in DOMAIN sessions \ DOMAIN rows : rows' = Sessions!Put(rows, i, sessions[i])
    BY <1>4 DEF Sessions!SaveRow
  <2>2. Sessions!IsATable(rows') /\ DOMAIN rows' = DOMAIN rows \union {i}
    BY <2>1 DEF Sessions!Put, Sessions!IsATable
  <2>3. \A j \in DOMAIN rows' : rows'[j] = sessions[j]
    BY <1>4, <2>1, <2>2 DEF Sessions!Put, Sessions!SaveRow
  <2> QED BY <1>4, <2>1, <2>2, <2>3 DEF Sessions!SaveRow
<1>5. CASE Sessions!SaveCommit
  BY Zenon, <1>5, CommitStep DEF Sessions!SaveCommit
<1>6. CASE Sessions!SaveFails
  BY Zenon, <1>6 DEF Sessions!SaveFails
<1> QED BY <1>1, <1>2, <1>3, <1>4, <1>5, <1>6

LEMMA RestartStep ==
  ASSUME SessionsInv,
         \/ Sessions!Crash \/ Sessions!Restart \/ Sessions!Loaded \/ Sessions!Tick
         \/ UNCHANGED Sessions!vars
  PROVE  SessionsInv'
<1> USE DEF SessionsInv, SaverInv, Sessions!CleanIsSaved, Sessions!saveVars,
            Sessions!managerVars
<1>1. CASE Sessions!Crash
  BY Zenon, <1>1 DEF Sessions!Crash, Sessions!Empty, Sessions!IsATable
<1>2. CASE Sessions!Restart
  BY <1>2 DEF Sessions!Restart
<1>3. CASE Sessions!Loaded
  <2>1. Sessions!CleanUp(rows)
    BY <1>3 DEF Sessions!Loaded
  <2>2. /\ Sessions!IsATable(sessions') /\ unsaved' \in BOOLEAN
        /\ ~unsaved' => ~unsaved /\ sessions' = rows
    BY <2>1, CleanUpOrDirty
  <2> QED BY <1>3, <2>2 DEF Sessions!Loaded
<1>4. CASE Sessions!Tick
  BY <1>4 DEF Sessions!Tick
<1>5. CASE UNCHANGED Sessions!vars
  BY <1>5 DEF Sessions!vars
<1> QED BY <1>1, <1>2, <1>3, <1>4, <1>5

\* The inductive invariant holds in every reachable state.
THEOREM SessionsInvariance == Sessions!Spec => []SessionsInv
<1>1. SessionsInv /\ [Sessions!Next]_(Sessions!vars) => SessionsInv'
  BY SessionStep, SaveStep, RestartStep DEF Sessions!Next
<1> QED BY <1>1, SessionsInit, PTL DEF Sessions!Spec

\* The dirty flag of http/SessionManager is never clear while there is
\* something to save, unless a save has failed.
THEOREM CleanManagerIsSaved == Sessions!Spec => []Sessions!CleanIsSaved
<1>1. SessionsInv => Sessions!CleanIsSaved
  BY DEF SessionsInv
<1> QED BY <1>1, SessionsInvariance, PTL

\* SessionManager::save() commits the table of one moment.
THEOREM CommitsOneMoment == Sessions!Spec => Sessions!SavedAtOnce
<1>1. SessionsInv /\ [Sessions!Next]_(Sessions!vars) =>
        [table' # table => table' = sessions]_(Sessions!vars)
  <2> SUFFICES ASSUME SessionsInv, Sessions!Next, table' # table
               PROVE  table' = sessions
    OBVIOUS
  <2>1. Sessions!SaveCommit
    BY Zenon DEF Sessions!Next, Sessions!Worker, Sessions!OpenSession, Sessions!GetSession,
           Sessions!CloseSession, Sessions!Update, Sessions!Saver, Sessions!SaveBegin,
           Sessions!SaveRefused, Sessions!SaveLock, Sessions!SaveRow, Sessions!SaveFails,
           Sessions!Crash, Sessions!Restart, Sessions!Loaded, Sessions!Tick
  <2> QED BY <2>1, CommitStep DEF SessionsInv
<1> QED BY <1>1, SessionsInvariance, PTL DEF Sessions!Spec, Sessions!SavedAtOnce

--------------------------------------------------------------------------------
(* The access lists.                                                       *)

AccessTypeOK ==
  /\ users \in SUBSET Users /\ groups \in SUBSET Groups /\ acls \in SUBSET Paths
  /\ members \in [Groups -> SUBSET Users]
  /\ aclUsers \in [Paths -> SUBSET Users] /\ aclGroups \in [Paths -> SUBSET Groups]
  /\ dirty \in BOOLEAN

\* Unless it is dirty, the cache of allow() holds only answers that are right.
CacheRight ==
  ~dirty => \A e \in cache : e[3] = Access!allowNoCache(e[1], e[2])

\* Asking changes neither the set nor a right answer.
LEMMA AskingKeepsAnswers ==
  ASSUME UNCHANGED Access!setVars, NEW p, NEW u
  PROVE  Access!allowNoCache(p, u)' = Access!allowNoCache(p, u)
BY DEF Access!setVars, Access!allowNoCache, Access!Nearest, Access!OnTheWay

\* A right cache gives the right answer.
LEMMA RightAnswer ==
  ASSUME CacheRight, NEW p, NEW u
  PROVE  Access!AllowAnswer(p, u) = Access!allowNoCache(p, u)
<1>1. CASE Access!Cached(cache, p, u) = {}
  BY <1>1 DEF Access!AllowAnswer
<1>2. CASE Access!Cached(cache, p, u) # {}
  <2>1. ~dirty /\ Access!Cached(cache, p, u) = Access!Entries(cache, p, u)
    BY <1>2 DEF Access!Cached
  <2>2. \A e \in Access!Cached(cache, p, u) : e[3] = Access!allowNoCache(p, u)
    BY <2>1 DEF Access!Entries, CacheRight
  <2>3. Access!AllowAnswer(p, u) = \E e \in Access!Cached(cache, p, u) : e[3]
    BY Zenon, <1>2 DEF Access!AllowAnswer
  <2>4. PICK f \in Access!Cached(cache, p, u) : TRUE
    BY <1>2
  <2>5. Access!allowNoCache(p, u) \in BOOLEAN
    BY DEF Access!allowNoCache
  <2> QED BY Zenon, <2>2, <2>3, <2>4, <2>5
<1> QED BY <1>1, <1>2

\* The two questions
Ask == \/ \E p \in Paths, u \in Users : Access!Allow(p, u)
       \/ \E p \in Paths, g \in Groups : Access!AllowGroup(p, g)

LEMMA AskStep ==
  ASSUME CacheRight, dirty \in BOOLEAN, Ask
  PROVE  CacheRight'
<1>1. UNCHANGED Access!setVars
  BY DEF Ask, Access!Allow, Access!AllowGroup
<1>2. SUFFICES ASSUME NEW e \in cache'
               PROVE  e[3] = Access!allowNoCache(e[1], e[2])'
  BY DEF CacheRight
<1>3. e[3] = Access!allowNoCache(e[1], e[2])
  <2>1. CASE ~dirty /\ e \in cache
    BY <2>1 DEF CacheRight
  <2>2. CASE dirty \/ e \notin cache
    <3>1. PICK p \in Paths, u \in Users : e = <<p, u, Access!AllowAnswer(p, u)>>
      BY <1>2, <2>2 DEF Ask, Access!Allow, Access!AllowGroup
    <3>2. Access!AllowAnswer(p, u) = Access!allowNoCache(p, u)
      BY ZenonT(60), RightAnswer
    <3> QED BY <3>1, <3>2
  <2> QED BY <2>1, <2>2
<1> QED BY <1>1, <1>3, AskingKeepsAnswers

\* Every change marks the cache dirty, or empties it.
LEMMA ChangeStep ==
  ASSUME Access!Next, ~Ask
  PROVE  dirty' = TRUE \/ cache' = {}
BY ZenonT(60) DEF Access!Next, Ask, Access!AddUser, Access!DelUser, Access!AddGroup, Access!DelGroup,
       Access!GroupAddUser, Access!GroupDelUser, Access!AddACL,
       Access!DelACL, Access!ACLAddUser, Access!ACLDelUser, Access!ACLAddGroup,
       Access!ACLDelGroup, Access!Clear, Access!Read, Access!Touch

LEMMA AccessTypeStep ==
  ASSUME AccessTypeOK, Access!Next
  PROVE  AccessTypeOK'
<1> USE DEF AccessTypeOK, Access!Touch, Access!setVars
<1>1. CASE \E u \in Users : Access!AddUser(u) \/ Access!DelUser(u)
  BY ZenonT(60), <1>1 DEF Access!AddUser, Access!DelUser
<1>2. CASE \E g \in Groups : Access!AddGroup(g) \/ Access!DelGroup(g)
  BY ZenonT(60), <1>2 DEF Access!AddGroup, Access!DelGroup
<1>3. CASE \E g \in Groups, u \in Users : Access!GroupAddUser(g, u) \/ Access!GroupDelUser(g, u)
  <2> PICK g \in Groups, u \in Users : Access!GroupAddUser(g, u) \/ Access!GroupDelUser(g, u)
    BY <1>3
  <2>1. members[g] \union {u} \in SUBSET Users /\ members[g] \ {u} \in SUBSET Users
    OBVIOUS
  <2>2. CASE Access!GroupAddUser(g, u)
    BY <2>1, <2>2 DEF Access!GroupAddUser
  <2>3. CASE Access!GroupDelUser(g, u)
    BY <2>1, <2>3 DEF Access!GroupDelUser
  <2> QED BY <2>2, <2>3
<1>4. CASE \E p \in Paths : Access!AddACL(p) \/ Access!DelACL(p)
  BY Zenon, <1>4 DEF Access!AddACL, Access!DelACL
<1>5. CASE \E p \in Paths, u \in Users : Access!ACLAddUser(p, u) \/ Access!ACLDelUser(p, u)
  <2> PICK p \in Paths, u \in Users : Access!ACLAddUser(p, u) \/ Access!ACLDelUser(p, u)
    BY <1>5
  <2>1. aclUsers[p] \union {u} \in SUBSET Users /\ aclUsers[p] \ {u} \in SUBSET Users
    OBVIOUS
  <2>2. CASE Access!ACLAddUser(p, u)
    BY <2>1, <2>2 DEF Access!ACLAddUser
  <2>3. CASE Access!ACLDelUser(p, u)
    BY <2>1, <2>3 DEF Access!ACLDelUser
  <2> QED BY <2>2, <2>3
<1>6. CASE \E p \in Paths, g \in Groups : Access!ACLAddGroup(p, g) \/ Access!ACLDelGroup(p, g)
  <2> PICK p \in Paths, g \in Groups : Access!ACLAddGroup(p, g) \/ Access!ACLDelGroup(p, g)
    BY <1>6
  <2>1. aclGroups[p] \union {g} \in SUBSET Groups /\ aclGroups[p] \ {g} \in SUBSET Groups
    OBVIOUS
  <2>2. CASE Access!ACLAddGroup(p, g)
    BY <2>1, <2>2 DEF Access!ACLAddGroup
  <2>3. CASE Access!ACLDelGroup(p, g)
    BY <2>1, <2>3 DEF Access!ACLDelGroup
  <2> QED BY <2>2, <2>3
<1>7. CASE Ask
  BY Zenon, <1>7 DEF Ask, Access!Allow, Access!AllowGroup
<1>8. CASE Access!Clear
  BY <1>8 DEF Access!Clear
<1>9. CASE \E doc \in Docs : Access!Read(doc)
  <2> PICK doc \in Docs : Access!Read(doc)
    BY <1>9
  <2>1. /\ doc.users \in SUBSET Users /\ doc.groups \in SUBSET Groups
        /\ doc.acls \in SUBSET Paths /\ doc.members \in [Groups -> SUBSET Users]
        /\ doc.aclUsers \in [Paths -> SUBSET Users]
        /\ doc.aclGroups \in [Paths -> SUBSET Groups]
    BY DocsAssumption DEF DocsAssumption
  <2>2. users' \in SUBSET Users
    <3>1. /\ Access!Named(doc.members, doc.groups) \subseteq Users
          /\ Access!Named(doc.aclUsers, doc.acls) \subseteq Users
      BY ZenonT(60), <2>1 DEF Access!Named
    <3> QED BY ZenonT(60), <2>1, <3>1 DEF Access!Read
  <2>3. groups' \in SUBSET Groups /\ acls' \in SUBSET Paths /\ dirty' \in BOOLEAN
    <3>1. Access!Named(doc.aclGroups, doc.acls) \subseteq Groups
      BY <2>1 DEF Access!Named
    <3> QED BY ZenonT(60), <2>1, <3>1 DEF Access!Read
  <2>4. members' \in [Groups -> SUBSET Users]
    BY SMTT(30), <2>1 DEF Access!Read
  <2>5. aclUsers' \in [Paths -> SUBSET Users] /\ aclGroups' \in [Paths -> SUBSET Groups]
    BY SMTT(30), <2>1 DEF Access!Read
  <2> QED BY <2>2, <2>3, <2>4, <2>5
<1> QED BY <1>1, <1>2, <1>3, <1>4, <1>5, <1>6, <1>7, <1>8, <1>9 DEF Access!Next, Ask

\* What is deleted is deleted wherever it is named, and what is named is added.
LEMMA NamesStep ==
  ASSUME AccessTypeOK, Access!NamesResolve, Access!Next
  PROVE  Access!NamesResolve'
<1> USE DEF AccessTypeOK, Access!NamesResolve, Access!setVars
<1>1. CASE \E u \in Users : Access!AddUser(u) \/ Access!DelUser(u)
  BY <1>1 DEF Access!AddUser, Access!DelUser
<1>2. CASE \E g \in Groups : Access!AddGroup(g) \/ Access!DelGroup(g)
  BY <1>2 DEF Access!AddGroup, Access!DelGroup
<1>3. CASE \E g \in Groups, u \in Users : Access!GroupAddUser(g, u) \/ Access!GroupDelUser(g, u)
  BY <1>3 DEF Access!GroupAddUser, Access!GroupDelUser
<1>4. CASE \E p \in Paths : Access!AddACL(p) \/ Access!DelACL(p)
  BY <1>4 DEF Access!AddACL, Access!DelACL
<1>5. CASE \E p \in Paths, u \in Users : Access!ACLAddUser(p, u) \/ Access!ACLDelUser(p, u)
  BY <1>5 DEF Access!ACLAddUser, Access!ACLDelUser
<1>6. CASE \E p \in Paths, g \in Groups : Access!ACLAddGroup(p, g) \/ Access!ACLDelGroup(p, g)
  BY <1>6 DEF Access!ACLAddGroup, Access!ACLDelGroup
<1>7. CASE Ask
  BY <1>7 DEF Ask, Access!Allow, Access!AllowGroup
<1>8. CASE Access!Clear
  BY ZenonT(60), <1>8 DEF Access!Clear
<1>9. CASE \E doc \in Docs : Access!Read(doc)
  <2> PICK doc \in Docs : Access!Read(doc)
    BY ZenonT(60), <1>9
  <2>1. /\ \A g \in doc.groups : doc.members[g] \subseteq users'
        /\ \A p \in doc.acls : /\ doc.aclUsers[p] \subseteq users'
                               /\ doc.aclGroups[p] \subseteq groups'
        /\ doc.groups \subseteq groups' /\ acls' = doc.acls
    <3>1. \A g \in doc.groups : doc.members[g] \subseteq Access!Named(doc.members, doc.groups)
      BY DEF Access!Named
    <3>2. \A p \in doc.acls : /\ doc.aclUsers[p] \subseteq Access!Named(doc.aclUsers, doc.acls)
                              /\ doc.aclGroups[p] \subseteq Access!Named(doc.aclGroups, doc.acls)
      BY ZenonT(60) DEF Access!Named
    <3> QED BY ZenonT(60), <3>1, <3>2 DEF Access!Read
  <2>2. \A g \in Groups : members'[g] = IF g \in doc.groups THEN doc.members[g] ELSE {}
    BY ZenonT(60) DEF Access!Read
  <2>3. \A p \in Paths :
          /\ aclUsers'[p] = IF p \in doc.acls THEN doc.aclUsers[p] ELSE {}
          /\ aclGroups'[p] = IF p \in doc.acls THEN doc.aclGroups[p] ELSE {}
    BY DEF Access!Read
  <2> QED BY <2>1, <2>2, <2>3
<1> QED BY ZenonT(60), <1>1, <1>2, <1>3, <1>4, <1>5, <1>6, <1>7, <1>8, <1>9 DEF Access!Next, Ask

AccessInv == AccessTypeOK /\ Access!NamesResolve /\ CacheRight

LEMMA AccessInit == Access!Init => AccessInv
BY Zenon DEF Access!Init, AccessInv, AccessTypeOK, Access!NamesResolve, CacheRight

\* The inductive invariant holds in every reachable state.
THEOREM AccessInvariance == Access!Spec => []AccessInv
<1>1. AccessInv /\ Access!Next => AccessInv'
  <2> SUFFICES ASSUME AccessInv, Access!Next PROVE AccessInv'
    OBVIOUS
  <2>1. AccessTypeOK' /\ Access!NamesResolve'
    BY AccessTypeStep, NamesStep DEF AccessInv
  <2>2. CASE Ask
    BY <2>1, <2>2, AskStep DEF AccessInv, AccessTypeOK
  <2>3. CASE ~Ask
    BY Zenon, <2>1, <2>3, ChangeStep DEF AccessInv, CacheRight
  <2> QED BY <2>2, <2>3
<1>2. AccessInv /\ UNCHANGED Access!vars => AccessInv'
  <2> SUFFICES ASSUME AccessInv, UNCHANGED Access!vars PROVE AccessInv'
    OBVIOUS
  <2>1. UNCHANGED Access!setVars /\ UNCHANGED Access!cacheVars /\ UNCHANGED dirty
    BY DEF Access!vars
  <2>2. AccessTypeOK' /\ Access!NamesResolve'
    BY <2>1 DEF AccessInv, AccessTypeOK, Access!NamesResolve, Access!setVars
  <2>3. CacheRight'
    BY <2>1, AskingKeepsAnswers DEF AccessInv, CacheRight, Access!cacheVars
  <2> QED BY <2>2, <2>3 DEF AccessInv
<1>3. AccessInv /\ [Access!Next]_(Access!vars) => AccessInv'
  BY <1>1, <1>2
<1> QED BY <1>3, AccessInit, PTL DEF Access!Spec

\* ACLSet::allowNoCache() never meets a group that does not exist.
THEOREM NamesAlwaysResolve == Access!Spec => []Access!NamesResolve
<1>1. AccessInv => Access!NamesResolve
  BY DEF AccessInv
<1> QED BY <1>1, AccessInvariance, PTL

\* ACLSet::allow() never gives an answer from before a change.
THEOREM AllowAlwaysCurrent == Access!Spec => []Access!AllowIsCurrent
<1>1. AccessInv => Access!AllowIsCurrent
  BY RightAnswer DEF AccessInv, Access!AllowIsCurrent
<1> QED BY <1>1, AccessInvariance, PTL

--------------------------------------------------------------------------------
(* The server with its parts: a part that runs follows its own             *)
(* specification, and one that does not run stays as it was initialised.   *)

\* The filter of the composed system is an IPRangeSet.
LEMMA RangesPart == MCSpec => Ranges!Spec
<1>1. MCInit => Ranges!Init
  BY SMTT(30) DEF MCInit
<1>2. [MCNext]_mcVars => [Ranges!Next]_(Ranges!vars)
  BY Zenon DEF MCNext, mcVars, rangeVars, Ranges!vars
<1> QED BY <1>1, <1>2, PTL DEF MCSpec, Ranges!Spec

\* The session manager of the composed system is a SessionStore.
LEMMA SessionsPart == MCSpec => Sessions!Spec
<1>1. MCInit => Sessions!Init
  BY SMTT(30) DEF MCInit
<1>2. [MCNext]_mcVars => [Sessions!Next]_(Sessions!vars)
  BY DEF MCNext, mcVars, sessionVars, Sessions!vars, Sessions!managerVars, Sessions!saveVars
<1> QED BY <1>1, <1>2, PTL DEF MCSpec, Sessions!Spec

\* The access lists of the composed system are an ACLSet.
LEMMA AccessPart == MCSpec => Access!Spec
<1>1. MCInit => Access!Init
  BY SMTT(30) DEF MCInit
<1>2. [MCNext]_mcVars => [Access!Next]_(Access!vars)
  BY DEF MCNext, mcVars, accessVars, Access!vars, Access!setVars, Access!cacheVars
<1> QED BY <1>1, <1>2, PTL DEF MCSpec, Access!Spec

\* The dirty flag of http/SessionManager is never clear while there is
\* something to save, unless a save has failed.
THEOREM ServerKeepsSessions == MCSpec => []CleanIsSaved
<1>1. Sessions!CleanIsSaved => CleanIsSaved
  BY DEF CleanIsSaved
<1> QED BY <1>1, SessionsPart, CleanManagerIsSaved, PTL

\* SessionManager::save() commits the table of one moment.
THEOREM ServerCommitsOneMoment == MCSpec => SavedAtOnce
BY SessionsPart, CommitsOneMoment, PTL DEF SavedAtOnce

\* ACLSet::allow() never gives an answer from before a change.
THEOREM ServerAllowsCurrent == MCSpec => []AllowIsCurrent
<1>1. Access!AllowIsCurrent => AllowIsCurrent
  BY ZenonT(60) DEF AllowIsCurrent
<1> QED BY <1>1, AccessPart, AllowAlwaysCurrent, PTL

--------------------------------------------------------------------------------
(* The filter of addresses.                                                *)

\* What is proved of the vector of ranges.
Filter == INSTANCE ThreadedServerProofs

\* The vector represents the addresses that were inserted and not erased since.
RangesInv == Filter!Represents(rangeSet, addresses)

\* The operations of the filter are the ones that the lemmas are about.
LEMMA SameContains ==
  /\ Ranges!IPs = Filter!IPs
  /\ \A s, ip : Ranges!contains(s, ip) <=> Filter!contains(s, ip)
<1>1. Ranges!IPs = Filter!IPs
  BY ZenonT(30) DEF Ranges!IPs, Filter!IPs
<1>2. \A s, ip : Ranges!contains(s, ip) <=> Filter!contains(s, ip)
  BY ZenonT(60) DEF Ranges!contains, Filter!contains, Ranges!find, Filter!find, Ranges!Nth,
         Filter!Nth, Ranges!Odd, Filter!Odd
<1> QED BY ZenonT(30), <1>1, <1>2

LEMMA SameInsert ==
  ASSUME NEW a, NEW b, Ranges!insert(a, b)
  PROVE  /\ rangeSet' = Filter!Insert(rangeSet, Filter!Lesser(a, b), Filter!Greater(a, b))
         /\ addresses' = addresses \union Filter!Lesser(a, b)..Filter!Greater(a, b)
BY ZenonT(60) DEF Ranges!insert, Ranges!Insert, Filter!Insert, Ranges!find, Filter!find,
       Ranges!shift, Filter!shift, Ranges!Put, Filter!Put, Ranges!Nth, Filter!Nth, Ranges!Odd,
       Filter!Odd, Ranges!Even, Filter!Even, Ranges!Lesser, Filter!Lesser, Ranges!Greater,
       Filter!Greater

LEMMA SameErase ==
  ASSUME NEW a, NEW b, Ranges!erase(a, b)
  PROVE  /\ rangeSet' = Filter!Erase(rangeSet, Filter!Lesser(a, b), Filter!Greater(a, b))
         /\ addresses' = addresses \ Filter!Lesser(a, b)..Filter!Greater(a, b)
BY ZenonT(60) DEF Ranges!erase, Ranges!Erase, Filter!Erase, Ranges!find, Filter!find,
       Ranges!shift, Filter!shift, Ranges!Put, Filter!Put, Ranges!Nth, Filter!Nth, Ranges!Odd,
       Filter!Odd, Ranges!Even, Filter!Even, Ranges!Wrap, Filter!Wrap, Ranges!Lesser,
       Filter!Lesser, Ranges!Greater, Filter!Greater

\* insert() and erase() keep the vector in step with the set.
LEMMA RangesStep ==
  ASSUME RangesInv, [Ranges!Next]_(Ranges!vars)
  PROVE  RangesInv'
<1>1. CASE UNCHANGED Ranges!vars
  BY ZenonT(30), <1>1 DEF RangesInv, Ranges!vars
<1>2. ASSUME NEW a \in Ranges!IPs, NEW b \in Ranges!IPs, Ranges!insert(a, b) \/ Ranges!erase(a, b)
      PROVE  RangesInv'
  <2> DEFINE x == Filter!Lesser(a, b)
             y == Filter!Greater(a, b)
  <2>1. a \in Filter!IPs /\ b \in Filter!IPs
    BY ZenonT(30), SameContains
  <2>2. CASE Ranges!insert(a, b)
    <3>1. rangeSet' = Filter!Insert(rangeSet, x, y) /\ addresses' = addresses \union x..y
      BY ZenonT(30), <2>2, SameInsert
    <3>2. Filter!Represents(Filter!Insert(rangeSet, x, y), addresses \union x..y)
      BY ZenonT(30), <2>1, BitsAssumption, BoundsAreNatural, Filter!InsertRepresents DEF RangesInv
    <3> QED BY ZenonT(30), <3>1, <3>2 DEF RangesInv
  <2>3. CASE Ranges!erase(a, b)
    <3>1. rangeSet' = Filter!Erase(rangeSet, x, y) /\ addresses' = addresses \ x..y
      BY ZenonT(30), <2>3, SameErase
    <3>2. Filter!Represents(Filter!Erase(rangeSet, x, y), addresses \ x..y)
      BY ZenonT(30), <2>1, BitsAssumption, BoundsAreNatural, Filter!EraseRepresents DEF RangesInv
    <3> QED BY ZenonT(30), <3>1, <3>2 DEF RangesInv
  <2> QED BY ZenonT(30), <1>2, <2>2, <2>3
<1> QED BY ZenonT(30), <1>1, <1>2 DEF Ranges!Next

\* A vector that represents the set answers contains() rightly, and is sorted.
LEMMA RangesRight ==
  ASSUME RangesInv
  PROVE  Ranges!ContainsMembers
<1>1. Ranges!Sorted
  BY ZenonT(30), BoundsAreNatural, Filter!RepresentationSorted, SameContains
     DEF RangesInv, Ranges!Sorted
<1>2. \A ip \in Ranges!IPs : Ranges!contains(rangeSet, ip) <=> ip \in addresses
  BY ZenonT(30), BitsAssumption, BoundsAreNatural, Filter!ContainsRepresented, SameContains
     DEF RangesInv
<1> QED BY ZenonT(30), <1>1, <1>2 DEF Ranges!ContainsMembers

\* IPRangeSet::contains() is true of exactly the addresses that insert() put in and
\* erase() did not take out since, and the vector stays sorted, however many
\* ranges there are and however wide an address is.
THEOREM ServerFiltersMembers == MCSpec => []ContainsMembers
<1>1. Ranges!Init => RangesInv
  BY ZenonT(30), BoundsAreNatural, Filter!EmptyRepresents DEF Ranges!Init, RangesInv
<1>2. RangesInv /\ [Ranges!Next]_(Ranges!vars) => RangesInv'
  BY ZenonT(30), RangesStep
<1>3. RangesInv => ContainsMembers
  BY ZenonT(30), RangesRight DEF ContainsMembers
<1> QED BY <1>1, <1>2, <1>3, RangesPart, PTL DEF Ranges!Spec
================================================================================
