-------------------------- MODULE ClientController ---------------------------
(***************************************************************************)
(* The controller of a load test: it accepts clients until the user types  *)
(* "start", tells them all to start and what to send, waits, tells them to *)
(* stop, and closes.  A client is known here by its connection.            *)
(***************************************************************************)
EXTENDS Integers, Sequences

CONSTANTS
    Clients,
    MaxConns,   \* MAX_CONNS
    Faults      \* which calls may fail

FaultKinds == {"poll", "accept", "logger", "malloc", "thread", "server", "stdio"}

ASSUME ControllerAssumption == MaxConns \in Nat \ {0} /\ Faults \subseteq FaultKinds

VARIABLES
    ctl,        \* where the controller is; "killed" by SIGPIPE
    rev,        \* the pollfds whose revents are set
    exit,       \* handle()'s loop is to end
    started,    \* s->started
    sig_quit,
    accepted,   \* s->accepted_fds
    next,       \* index of the loop of send_start, send_data and send_stop
    failed,     \* the result of that loop is an error
    typed,      \* a line is waiting on standard input
    lobby,      \* connections established and not accepted
    sent,       \* what was written to each client: "CUT" is a DATA cut short
    left        \* clients whose end is closed

ctlVars == <<ctl, rev, exit, started, accepted, next, failed>>
linkVars == <<lobby, sent, left>>
controllerVars == <<ctlVars, sig_quit, typed, linkVars>>

\* What a client of a test is told, in this order.
Script == <<"START", "DATA", "STOP">>
Message == [send_start |-> "START", send_data |-> "DATA", send_stop |-> "STOP"]
Sending == DOMAIN Message

Ended == ctl \in {"exited", "killed"}
Has(c) == \E i \in DOMAIN accepted : accepted[i] = c

-----------------------------------------------------------------------------
(* handle(): rounds of poll, accept and a line of input. *)

Teardown == IF started THEN "send_stop" ELSE "close"

\* Mutant: the loop test forgets the signal.
LoopOverExit(x) == x
LoopOver(x) == x \/ sig_quit
LoopTest(x) == ctl' = IF LoopOver(x) THEN Teardown ELSE "poll"

\* The sockets that are ready, or none after the timeout.
poll_returns ==
    /\ ctl = "poll"
    /\ rev' = {"listen" : c \in lobby} \cup (IF typed THEN {"stdin"} ELSE {})
    /\ ctl' = "accept"
    /\ UNCHANGED <<exit, started, accepted, next, failed, sig_quit, typed, linkVars>>

\* EINTR, or an error, leaves revents as it is: before the first return, uninitialised.
poll_fails ==
    /\ ctl = "poll"
    /\ (sig_quit /\ UNCHANGED exit) \/ ("poll" \in Faults /\ exit' = TRUE)
    /\ ctl' = "accept"
    /\ UNCHANGED <<rev, started, accepted, next, failed, sig_quit, typed, linkVars>>

\* The descriptor is stored before the limit is looked at: one past the array it lands in
\* num_conns, which is then over the limit.
handle_accept ==
    /\ ctl = "accept"
    /\ IF "listen" \in rev
       THEN \/ \E c \in lobby : /\ lobby' = lobby \ {c}
                                /\ accepted' = Append(accepted, c)
                                /\ exit' = (Len(accepted) >= MaxConns)
            \/ /\ "accept" \in Faults
               /\ exit' = TRUE
               /\ UNCHANGED <<lobby, accepted>>
       ELSE UNCHANGED <<lobby, accepted, exit>>
    /\ rev' = rev \ {"listen"}
    /\ ctl' = "stdin"
    /\ UNCHANGED <<started, next, failed, sig_quit, typed, sent, left>>

handle_stdin ==
    /\ ctl = "stdin"
    /\ IF "stdin" \in rev
       THEN /\ typed /\ typed' = FALSE
            /\ LoopTest(exit) \/ ctl' = "send_start"
       ELSE LoopTest(exit) /\ UNCHANGED typed
    /\ rev' = {} /\ next' = 1 /\ failed' = FALSE
    /\ UNCHANGED <<exit, started, accepted, sig_quit, linkVars>>

-----------------------------------------------------------------------------
(* send_start, send_data and send_stop: the same loop over the clients. *)

\* Mutant: the last client is left out.
ToSendButLast == next < Len(accepted)
ToSend == next <= Len(accepted)

\* write_fully to a client: one that has closed may take it, refuse it, or kill the writer; one
\* that is there takes it, but for write_interrupted below.
\* The loop goes on; send_data remembers any error, the others only the last.
send_next ==
    /\ ctl \in Sending /\ ToSend
    /\ next' = next + 1
    /\ LET c == accepted[next]
           earlier == ctl = "send_data" /\ failed
       IN  IF c \notin left
           THEN /\ sent' = [sent EXCEPT ![c] = Append(@, Message[ctl])]
                /\ failed' = earlier /\ UNCHANGED ctl
           ELSE /\ UNCHANGED sent
                /\ \/ failed' = TRUE /\ UNCHANGED ctl
                   \/ failed' = earlier /\ ctl' \in {ctl, "killed"}
    /\ UNCHANGED <<rev, exit, started, accepted, sig_quit, typed, lobby, left>>

\* Past the end of the array num_conns and what follows it are taken for descriptors: errors.
Failed == failed \/ Len(accepted) > MaxConns

send_done ==
    /\ ctl \in Sending /\ ~ToSend
    /\ started' = (ctl # "send_stop")
    /\ \/ ctl = "send_stop" /\ ctl' = "close"
       \/ ctl # "send_stop" /\ Failed /\ ctl' = "send_stop"
       \/ ctl = "send_start" /\ ~Failed /\ ctl' = "send_data"
       \/ ctl = "send_data" /\ ~Failed /\ ctl' = "wait"
    /\ next' = 1 /\ failed' = FALSE
    /\ UNCHANGED <<rev, exit, accepted, sig_quit, typed, linkVars>>

\* wait_duration, at its end or on SIGINT; then destroy_state.
wait_duration ==
    /\ ctl = "wait"
    /\ ctl' = Teardown
    /\ UNCHANGED <<rev, exit, started, accepted, next, failed, sig_quit, typed, linkVars>>

destroy_state ==
    /\ ctl = "close"
    /\ ctl' = "exited"
    /\ UNCHANGED <<rev, exit, started, accepted, next, failed, sig_quit, typed, linkVars>>

ControllerStep ==
    \/ poll_returns \/ poll_fails
    \/ handle_accept \/ handle_stdin
    \/ send_next \/ send_done
    \/ wait_duration \/ destroy_state

\* revents that poll() did not set make accept() or read() block.
AcceptBlocked == ctl = "accept" /\ "listen" \in rev /\ lobby = {}
StdinBlocked == ctl = "stdin" /\ "stdin" \in rev /\ ~typed

\* SIGINT, at any step.  A call that blocks fails with EINTR, which is an error.
signal_handler ==
    /\ ~Ended
    /\ sig_quit' = TRUE
    /\ CASE AcceptBlocked -> exit' = TRUE /\ rev' = rev \ {"listen"} /\ ctl' = "stdin"
         [] StdinBlocked  -> rev' = {} /\ ctl' = Teardown /\ UNCHANGED exit
         [] OTHER         -> UNCHANGED <<exit, rev, ctl>>
    /\ UNCHANGED <<started, accepted, next, failed, typed, linkVars>>

\* SIGINT while write_fully is blocked: -1 for a client that is there.  START finds the socket's
\* buffer empty, so it does not block; DATA is cut short, by the second signal (after the first,
\* write() returns what it took and is called again); STOP is lost if the buffer is full still.
write_interrupted(full) ==
    /\ ctl \in Sending /\ ToSend /\ accepted[next] \notin left
    /\ \/ /\ ctl = "send_data" /\ sig_quit
          /\ sent' = [sent EXCEPT ![accepted[next]] = Append(@, "CUT")]
       \/ ctl = "send_stop" /\ accepted[next] \in full /\ UNCHANGED sent
    /\ sig_quit' = TRUE
    /\ next' = next + 1 /\ failed' = TRUE
    /\ UNCHANGED <<ctl, rev, exit, started, accepted, typed, lobby, left>>

\* A line is read in handle()'s loop only.
type_line ==
    /\ ctl \in {"poll", "accept", "stdin"} /\ ~typed
    /\ typed' = TRUE
    /\ UNCHANGED <<ctlVars, sig_quit, linkVars>>

InitController ==
    /\ ctl = "poll" /\ rev \in SUBSET {"listen", "stdin"}
    /\ exit = FALSE /\ started = FALSE /\ sig_quit = FALSE
    /\ accepted = <<>> /\ next = 1 /\ failed = FALSE /\ typed = FALSE
    /\ lobby = {} /\ left = {} /\ sent = [c \in Clients |-> <<>>]

ControllerTypeOK ==
    /\ ctl \in {"poll", "accept", "stdin", "wait", "close", "exited", "killed"} \cup Sending
    /\ rev \subseteq {"listen", "stdin"}
    /\ exit \in BOOLEAN /\ started \in BOOLEAN /\ sig_quit \in BOOLEAN /\ failed \in BOOLEAN
    /\ accepted \in Seq(Clients) /\ Len(accepted) <= MaxConns + 1
    /\ next \in 1 .. Len(accepted) + 1 /\ typed \in BOOLEAN
    /\ lobby \subseteq Clients /\ left \subseteq Clients
    /\ sent \in [Clients -> Seq({"START", "DATA", "CUT", "STOP"})]
=============================================================================
