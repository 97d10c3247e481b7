------------------------------ MODULE MCLoadTest ------------------------------
(* Instances of LoadTest for TLC. *)
EXTENDS LoadTest

\* One client runs on as many processors as there are threads, and its calls may fail; the others
\* run on one, and work as they should.
MCLarge == CHOOSE c \in Clients : TRUE
MCProcessors ==
    [c \in Clients |-> IF c = MCLarge THEN Threads ELSE {CHOOSE t \in Threads : TRUE}]
MCFailing == {MCLarge}
=============================================================================
