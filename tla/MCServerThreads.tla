-------------------------- MODULE MCServerThreads --------------------------
(* Instances of ServerThreads for TLC. *)
EXTENDS ServerThreadsProps, TLC

CONSTANTS c1, c2

MCTwo      == {c1, c2}
MCAll      == {"setup", "listen", "accept", "spawn"}
=============================================================================
