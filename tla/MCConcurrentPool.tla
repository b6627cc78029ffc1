--------------------------- MODULE MCConcurrentPool ---------------------------
(***************************************************************************)
(* ConcurrentPool for TLC: the first two tasks have the same priority and  *)
(* are told apart by their time stamps, the third outranks them.           *)
(***************************************************************************)
EXTENDS ConcurrentPool

CONSTANTS t1, t2, t3

MCPriority == [t \in Tasks |-> IF t = t3 THEN 1 ELSE 0]
MCStamp == [t \in Tasks |-> IF t = t2 THEN 6 ELSE 5]
================================================================================
