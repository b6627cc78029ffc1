------------------------------- MODULE IPRangeSet -------------------------------
(***************************************************************************)
(* net/IPRangeSet: the vector of IPRanges, changed in place by insert()    *)
(* and erase().  The plain set members is the reference.                   *)
(***************************************************************************)
EXTENDS IPRanges

VARIABLES rangeSet,  \* IPRangeSet::rangeSet
          members    \* the addresses inserted and not erased since

vars == <<rangeSet, members>>
--------------------------------------------------------------------------------
Init == rangeSet = <<>> /\ members = {}

\* The ends of a range may be given in either order.
insert(a, b) ==
    /\ rangeSet' = Insert(rangeSet, Lesser(a, b), Greater(a, b))
    /\ members' = members \cup Lesser(a, b)..Greater(a, b)

erase(a, b) ==
    /\ rangeSet' = Erase(rangeSet, Lesser(a, b), Greater(a, b))
    /\ members' = members \ Lesser(a, b)..Greater(a, b)

Next == \E a, b \in IPs : insert(a, b) \/ erase(a, b)

Spec == Init /\ [][Next]_vars
--------------------------------------------------------------------------------
\* The vector holds pairs start <= end, in ascending order and without overlap,
\* which is what find() relies on.
Sorted ==
    /\ Len(rangeSet) % 2 = 0
    /\ \A i \in 1..Len(rangeSet) :
         /\ rangeSet[i] \in IPs
         /\ i > 1 => IF i % 2 = 0 THEN rangeSet[i - 1] <= rangeSet[i]
                                  ELSE rangeSet[i - 1] < rangeSet[i]

\* contains() is true of exactly the addresses that were inserted and not erased
\* since, however the ranges overlapped, touched or split each other, and the
\* vector stays sorted.
ContainsMembers == Sorted /\ \A ip \in IPs : contains(rangeSet, ip) <=> ip \in members
================================================================================
