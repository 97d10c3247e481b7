--------------------------------- MODULE Core ---------------------------------
(***************************************************************************)
(* The core: it sets up what every server is given, loads a server library *)
(* and calls the three functions of its API, each of which returns the     *)
(* state to go to.                                                         *)
(***************************************************************************)

VARIABLES
    core,         \* how far run() is
    next_state,   \* the API function to call, or to be called
    exit_status

coreVars == <<core, next_state, exit_status>>

Server_States == {"INITIALIZE_SERVER", "RUN_SERVER", "CLOSE_SERVER", "ERROR", "EXIT"}

InitCore == core = "setup" /\ next_state = "INITIALIZE_SERVER" /\ exit_status = "success"

Fail == core' = "exited" /\ exit_status' = "failure" /\ UNCHANGED next_state

\* The memory manager, the log file or the address may be refused.
setup_core_object ==
    /\ core = "setup"
    /\ Fail \/ (core' = "load" /\ UNCHANGED <<next_state, exit_status>>)

\* The library, or one of its three functions, may be missing.
get_api ==
    /\ core = "load"
    /\ Fail \/ (core' = "loop" /\ UNCHANGED <<next_state, exit_status>>)

\* run_core is in the API function of state s.
Calling(s) == core = "loop" /\ next_state = s

StatusAfter == IF next_state = "ERROR" THEN "failure" ELSE exit_status

\* That function returns r.
Returns(r) ==
    /\ next_state' = r
    /\ exit_status' = StatusAfter
    /\ UNCHANGED core

run_core_exit ==
    /\ Calling("EXIT")
    /\ core' = "exited"
    /\ UNCHANGED <<next_state, exit_status>>

CoreTypeOK ==
    /\ core \in {"setup", "load", "loop", "exited"}
    /\ next_state \in Server_States
    /\ exit_status \in {"success", "failure"}
=============================================================================
