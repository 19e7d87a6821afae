---------------------------- MODULE MCCtcpServer ----------------------------
(***************************************************************************)
(* Model values for CtcpServer.                                            *)
(***************************************************************************)
EXTENDS CtcpServer

\* The sockets hold two datagrams, and the one of the first client only one.
Queues == [p \in Clients \cup {Server} |-> IF p = 1 THEN 1 ELSE 2]

=============================================================================
