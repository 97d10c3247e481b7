---------------------------- MODULE MCPollServer ----------------------------
(* Instances of PollServer for TLC. *)
EXTENDS PollServer, TLC

\* Connections are interchangeable (used in the run without liveness).
Interchangeable == Permutations(Conns)
=============================================================================
