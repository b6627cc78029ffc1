-------------------------------- MODULE ACLSet --------------------------------
(***************************************************************************)
(* ACLSet (util/ACLSet.cpp): users, groups and access lists on a tree of   *)
(* paths, with a cache of the answers of allow() and one of allowGroup()   *)
(* that every change marks dirty and the next question flushes.            *)
(*                                                                         *)
(* A path is the sequence of its names, <<>> being "/".  A map is a set of *)
(* keys and a function that is {} at the other keys.                       *)
(***************************************************************************)
EXTENDS Integers, Sequences

CONSTANTS Users, Groups, Paths,
          Docs   \* the JSON documents read() may be given, as records like set

VARIABLES
  users,       \* ACLSet::users
  groups, members,             \* ACLSet::groups
  acls, aclUsers, aclGroups,   \* ACLSet::acls
  dirty,
  cache, groupCache   \* sets of <<path, user or group, answer>>

setVars == <<users, groups, members, acls, aclUsers, aclGroups>>
cacheVars == <<cache, groupCache>>
vars == <<setVars, dirty, cacheVars>>

Init ==
  /\ users = {} /\ groups = {} /\ acls = {}
  /\ members = [g \in Groups |-> {}]
  /\ aclUsers = [p \in Paths |-> {}] /\ aclGroups = [p \in Paths |-> {}]
  /\ dirty = FALSE /\ cache = {} /\ groupCache = {}

-----------------------------------------------------------------------------
(* The answers.                                                            *)

\* The loop over parentPath(): the ACLs on the way from the path to "/".
\* Only the one nearest to the path is looked at.
OnTheWay(path) == {p \in acls : Len(p) <= Len(path) /\ p = SubSeq(path, 1, Len(p))}
Nearest(path, p) == p \in OnTheWay(path) /\ \A q \in OnTheWay(path) : Len(q) <= Len(p)

allowNoCache(path, user) ==
  /\ user \in users
  /\ \E p \in acls : /\ Nearest(path, p)
                     /\ \/ user \in aclUsers[p]
                        \/ \E g \in aclGroups[p] : user \in members[g]

allowGroupNoCache(path, group) ==
  /\ group \in groups
  /\ \E p \in acls : Nearest(path, p) /\ group \in aclGroups[p]

\* The entries of a cache for one question
Entries(c, path, who) == {e \in c : e[1] = path /\ e[2] = who}

\* flushDirtyCache() followed by the look-up: what a cache still says.
Cached(c, path, who) == IF dirty THEN {} ELSE Entries(c, path, who)

\* What allow() and allowGroup() return
AllowAnswer(path, user) ==
  IF Cached(cache, path, user) = {} THEN allowNoCache(path, user)
  ELSE \E e \in Cached(cache, path, user) : e[3]
GroupAnswer(path, group) ==
  IF Cached(groupCache, path, group) = {} THEN allowGroupNoCache(path, group)
  ELSE \E e \in Cached(groupCache, path, group) : e[3]

\* flushDirtyCache() clears both caches; then the answer is entered in one.
Allow(path, user) ==
  /\ cache' = (IF dirty THEN {} ELSE cache) \union {<<path, user, AllowAnswer(path, user)>>}
  /\ groupCache' = IF dirty THEN {} ELSE groupCache
  /\ dirty' = FALSE
  /\ UNCHANGED setVars

AllowGroup(path, group) ==
  /\ cache' = IF dirty THEN {} ELSE cache
  /\ groupCache' = (IF dirty THEN {} ELSE groupCache)
                     \union {<<path, group, GroupAnswer(path, group)>>}
  /\ dirty' = FALSE
  /\ UNCHANGED setVars

-----------------------------------------------------------------------------
(* The changes.  Each marks the caches dirty first, also when it then      *)
(* throws because the group or the ACL does not exist.                     *)

Touch == dirty' = TRUE /\ UNCHANGED cacheVars

AddUser(u) ==
  /\ Touch
  /\ users' = users \union {u}
  /\ UNCHANGED <<groups, members, acls, aclUsers, aclGroups>>

DelUser(u) ==
  /\ Touch
  /\ users' = users \ {u}
  /\ members' = [g \in Groups |-> members[g] \ {u}]
  /\ aclUsers' = [p \in Paths |-> aclUsers[p] \ {u}]
  /\ UNCHANGED <<groups, acls, aclGroups>>

AddGroup(g) ==
  /\ Touch
  /\ groups' = groups \union {g}
  /\ UNCHANGED <<users, members, acls, aclUsers, aclGroups>>

DelGroup(g) ==
  /\ Touch
  /\ groups' = groups \ {g}
  /\ members' = [members EXCEPT ![g] = {}]
  /\ aclGroups' = [p \in Paths |-> aclGroups[p] \ {g}]
  /\ UNCHANGED <<users, acls, aclUsers>>

GroupAddUser(g, u) ==
  /\ Touch
  /\ users' = users \union {u}
  /\ groups' = groups \union {g}
  /\ members' = [members EXCEPT ![g] = @ \union {u}]
  /\ UNCHANGED <<acls, aclUsers, aclGroups>>

\* Mutant of GroupDelUser: the caches are not marked dirty.
GroupDelUser_NoTouch(g, u) ==
  /\ members' = IF g \in groups THEN [members EXCEPT ![g] = @ \ {u}] ELSE members
  /\ UNCHANGED <<dirty, cacheVars, users, groups, acls, aclUsers, aclGroups>>

GroupDelUser(g, u) ==
  /\ Touch
  /\ members' = IF g \in groups THEN [members EXCEPT ![g] = @ \ {u}] ELSE members
  /\ UNCHANGED <<users, groups, acls, aclUsers, aclGroups>>

AddACL(p) ==
  /\ Touch
  /\ acls' = acls \union {p}
  /\ UNCHANGED <<users, groups, members, aclUsers, aclGroups>>

DelACL(p) ==
  /\ Touch
  /\ acls' = acls \ {p}
  /\ aclUsers' = [aclUsers EXCEPT ![p] = {}]
  /\ aclGroups' = [aclGroups EXCEPT ![p] = {}]
  /\ UNCHANGED <<users, groups, members>>

ACLAddUser(p, u) ==
  /\ Touch
  /\ users' = users \union {u}
  /\ acls' = acls \union {p}
  /\ aclUsers' = [aclUsers EXCEPT ![p] = @ \union {u}]
  /\ UNCHANGED <<groups, members, aclGroups>>

ACLDelUser(p, u) ==
  /\ Touch
  /\ aclUsers' = IF p \in acls THEN [aclUsers EXCEPT ![p] = @ \ {u}] ELSE aclUsers
  /\ UNCHANGED <<users, groups, members, acls, aclGroups>>

ACLAddGroup(p, g) ==
  /\ Touch
  /\ groups' = groups \union {g}
  /\ acls' = acls \union {p}
  /\ aclGroups' = [aclGroups EXCEPT ![p] = @ \union {g}]
  /\ UNCHANGED <<users, members, aclUsers>>

ACLDelGroup(p, g) ==
  /\ Touch
  /\ aclGroups' = IF p \in acls THEN [aclGroups EXCEPT ![p] = @ \ {g}] ELSE aclGroups
  /\ UNCHANGED <<users, groups, members, acls, aclUsers>>

\* clear() empties one of the two caches and does not mark them dirty.
Clear ==
  /\ users' = {} /\ groups' = {} /\ acls' = {}
  /\ members' = [g \in Groups |-> {}]
  /\ aclUsers' = [p \in Paths |-> {}] /\ aclGroups' = [p \in Paths |-> {}]
  /\ cache' = {}
  /\ UNCHANGED <<dirty, groupCache>>

\* What the members of S name
Named(f, S) == UNION {f[x] : x \in S}

\* read(): clear(), then an add for everything the document names.  What a
\* group or an ACL names is added too.
Read(doc) ==
  /\ users' = doc.users \union Named(doc.members, doc.groups)
                        \union Named(doc.aclUsers, doc.acls)
  /\ groups' = doc.groups \union Named(doc.aclGroups, doc.acls)
  /\ members' = [g \in Groups |-> IF g \in doc.groups THEN doc.members[g] ELSE {}]
  /\ acls' = doc.acls
  /\ aclUsers' = [p \in Paths |-> IF p \in doc.acls THEN doc.aclUsers[p] ELSE {}]
  /\ aclGroups' = [p \in Paths |-> IF p \in doc.acls THEN doc.aclGroups[p] ELSE {}]
  /\ cache' = {}
  /\ dirty' = (dirty \/ doc.users # {} \/ doc.groups # {} \/ doc.acls # {})
  /\ UNCHANGED groupCache

Next ==
  \/ \E u \in Users : AddUser(u) \/ DelUser(u)
  \/ \E g \in Groups : AddGroup(g) \/ DelGroup(g)
  \/ \E g \in Groups, u \in Users : GroupAddUser(g, u) \/ GroupDelUser(g, u)
  \/ \E p \in Paths : AddACL(p) \/ DelACL(p)
  \/ \E p \in Paths, u \in Users : ACLAddUser(p, u) \/ ACLDelUser(p, u) \/ Allow(p, u)
  \/ \E p \in Paths, g \in Groups : ACLAddGroup(p, g) \/ ACLDelGroup(p, g) \/ AllowGroup(p, g)
  \/ Clear
  \/ \E doc \in Docs : Read(doc)

Spec == Init /\ [][Next]_vars

-----------------------------------------------------------------------------
\* Every name a group or an ACL holds is the name of a user or a group of the
\* set: allowNoCache() never throws "ACL contains non-existant group", and
\* what write() writes is what read() reads back.
NamesResolve ==
  /\ \A g \in Groups : members[g] \subseteq users /\ (g \notin groups => members[g] = {})
  /\ \A p \in Paths : /\ aclUsers[p] \subseteq users /\ aclGroups[p] \subseteq groups
                      /\ p \notin acls => aclUsers[p] = {} /\ aclGroups[p] = {}

\* Whatever was asked and changed before, allow() answers what the users, the
\* groups and the ACLs say now.
AllowIsCurrent ==
  \A p \in Paths, u \in Users : AllowAnswer(p, u) = allowNoCache(p, u)
================================================================================
