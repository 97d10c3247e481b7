-------------------------- MODULE MCProcessServer --------------------------
(* Instances of ProcessServer for TLC. *)
EXTENDS ProcessServer, TLC

\* Processes, and connections, are interchangeable (used in runs without liveness).
Interchangeable == Permutations(Children) \cup Permutations(Conns)
=============================================================================
