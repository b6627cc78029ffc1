-------------------------- MODULE MCServerConnection --------------------------
(* ServerConnection with the clients of MCRequests, for TLC. *)
EXTENDS ServerConnection, MCRequests
================================================================================
