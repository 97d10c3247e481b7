--------------------------- MODULE MCProcessRuns ---------------------------
(* Instances of ProcessRuns for TLC. *)
EXTENDS ProcessRuns, TLC

\* Four messages, or two and a further SIGINT, or one and a process that is killed or a call that
\* fails, or a run beside another.
MCCost ==
    [e \in Events |-> CASE e = "message" -> 1 [] e = "signal" -> 2 [] e = "beside" -> 4 [] OTHER -> 3]

\* Runs, and children, are interchangeable.
Interchangeable == Permutations(Runs) \cup Permutations(Children)
=============================================================================
