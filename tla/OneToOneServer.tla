---------------------------- MODULE OneToOneServer ----------------------------
(***************************************************************************)
(* The one-to-one server, run by the core: it serves one client until the  *)
(* client closes, then the next.  It learns of SIGINT from a pipe it       *)
(* writes to itself, which every select() watches with the socket that is  *)
(* waited for.                                                             *)
(*                                                                         *)
(* The kernel and the clients are those of Kernel.                         *)
(***************************************************************************)
EXTENDS Kernel, Core

CONSTANT MaxSignals   \* bound: SIGINTs handled

ASSUME SignalsAssumption == MaxSignals \in Nat

VARIABLES
    pc,           \* where run_server is, or was left; "killed" by a signal
    so,           \* the state object is allocated
    handler,      \* handle_sigint is installed
    listening,    \* so->listen_fd is set
    client_fd,    \* so->client_fd
    bytes_read,   \* body pieces received of the current message
    self_pipe     \* bytes in the pipe; nobody reads them

setupVars == <<so, handler, listening>>
serverVars == <<pc, setupVars, client_fd, bytes_read, self_pipe>>
vars == <<coreVars, serverVars, kernelVars, clientVars>>

Killed == pc = "killed"
Down == Killed \/ core = "exited" \/ next_state \notin {"INITIALIZE_SERVER", "RUN_SERVER"}

-----------------------------------------------------------------------------
(* initialize_server *)

\* calloc refused: so stays NULL.
setup_state_fails ==
    /\ Calling("INITIALIZE_SERVER") /\ ~Killed
    /\ "malloc" \in Faults
    /\ Returns("ERROR")
    /\ UNCHANGED <<serverVars, kernelVars, clientVars>>

\* set_signal_handler returns no value when sigaction succeeds, so that what its caller reads
\* may be an error too, with the handler installed; so it is if socket, bind or listen fails.
open_server_for_listen ==
    /\ Calling("INITIALIZE_SERVER") /\ ~Killed
    /\ so' = TRUE
    /\ \/ Returns("RUN_SERVER") /\ handler' = TRUE /\ listening' = TRUE /\ pc' = "next"
       \/ Returns("ERROR") /\ handler' \in BOOLEAN /\ UNCHANGED <<listening, pc>>
    /\ UNCHANGED <<client_fd, bytes_read, self_pipe, kernelVars, clientVars>>

-----------------------------------------------------------------------------
(* run_server *)

At(l) == Calling("RUN_SERVER") /\ pc = l

\* Mutant: the client before is not closed.
ClosedBeforeNone == open
ClosedBefore == [open EXCEPT ![client_fd] = NoConn]

\* The first time, client_fd is the 0 of calloc, and descriptor 0 is closed.
close_client ==
    /\ At("next")
    /\ open' = ClosedBefore
    /\ pc' = "listen"
    /\ UNCHANGED <<coreVars, setupVars, client_fd, bytes_read, self_pipe,
                   stdin_hup, backlog, clientVars>>

\* What select() has to report of the socket the server waits for.
ReadReady ==
    IF pc = "listen" THEN backlog # {}
    ELSE Readable(open[client_fd]) \/ IsReset(open[client_fd])

Waiting == Calling("RUN_SERVER") /\ pc \in {"listen", "await_head", "await_body"}
AfterWait(l) == CASE l = "listen" -> "accept" [] l = "await_head" -> "head" [] OTHER -> "body"

\* Mutant: while a message is received the pipe is not watched.
PipeWatchedListening == pc = "listen" /\ self_pipe > 0
PipeReady == self_pipe > 0

\* Mutant: EINTR is an error like any other.
TerminationAsError == "ERROR"
Termination == "CLOSE_SERVER"

\* check_fd: select() returns, with the pipe readable (or EINTR, and then it is), or without.
check_fd ==
    /\ Waiting
    /\ IF PipeReady
       THEN Returns(Termination) /\ UNCHANGED pc
       ELSE ReadReady /\ pc' = AfterWait(pc) /\ UNCHANGED coreVars
    /\ UNCHANGED <<setupVars, client_fd, bytes_read, self_pipe, kernelVars, clientVars>>

\* Mutant: the result goes to client_fd before it is checked.
FdUnchecked == -1
FdOnError == client_fd

accept_conn ==
    /\ At("accept")
    /\ \/ \E k \in backlog, f \in Fds :
             /\ LowestFreeFd(f)
             /\ backlog' = backlog \ {k}
             /\ open' = [open EXCEPT ![f] = k]
             /\ client_fd' = f
             /\ pc' = "await_head"
             /\ UNCHANGED coreVars
       \/ /\ "accept" \in Faults
          /\ client_fd' = FdOnError
          /\ Returns("ERROR")
          /\ UNCHANGED <<pc, backlog, open>>
    /\ UNCHANGED <<setupVars, bytes_read, self_pipe, stdin_hup, clientVars>>

Client == open[client_fd]

\* Mutant: a closed connection is waited on again.
AfterClosedSame == "await_head"
AfterClosed == "next"

\* recv() of a piece: data, the end of the stream, or a reset.
Receive(next) ==
    /\ \/ /\ HasData(Client)
          /\ taken' = [taken EXCEPT ![Client] = @ + 1]
          /\ pc' = next
          /\ UNCHANGED coreVars
       \/ /\ AtEof(Client)
          /\ pc' = AfterClosed
          /\ UNCHANGED <<coreVars, taken>>
       \/ /\ RecvFails(Client)
          /\ Returns("ERROR")
          /\ UNCHANGED <<pc, taken>>
    /\ UNCHANGED <<setupVars, client_fd, self_pipe, kernelVars, peer, wrote, reply>>

recv_length == At("head") /\ Receive("await_body") /\ bytes_read' = 0

\* Mutant: one recv() is taken for the whole message.
BodyDoneEarly(n) == n >= 1
BodyDone(n) == n >= Body

recv_body ==
    /\ At("body")
    /\ Receive(IF BodyDone(bytes_read + 1) THEN "respond" ELSE "await_body")
    /\ bytes_read' = IF HasData(Client) THEN bytes_read + 1 ELSE bytes_read

\* send() of the count, after log(); then the client's next message, which is the end of its
\* stream.  After a RST the send fails, with SIGPIPE unless the RST is first reported.
respond ==
    /\ At("respond")
    /\ \/ Answer(Client, bytes_read) /\ pc' = "await_head" /\ UNCHANGED coreVars
       \/ /\ IsReset(Client)
          /\ \/ pc' = "killed" /\ UNCHANGED coreVars
             \/ peer[Client] = "rst" /\ Returns("ERROR") /\ UNCHANGED pc
          /\ UNCHANGED <<peer, reply>>
    /\ UNCHANGED <<setupVars, client_fd, bytes_read, self_pipe, kernelVars, wrote, taken>>

-----------------------------------------------------------------------------
(* close_server, after a signal or an error *)

\* A listen_fd that was never set is 0; a client_fd that is closed already is no error.
destroy_state ==
    /\ Calling("CLOSE_SERVER") \/ Calling("ERROR")
    /\ ~Killed /\ so
    /\ open' = [f \in Fds |-> IF f = client_fd \/ (~listening /\ f = 0) THEN NoConn ELSE open[f]]
    /\ Returns("EXIT")
    /\ UNCHANGED <<serverVars, stdin_hup, backlog, clientVars>>

\* Without a state object it reads through a null pointer.
destroy_no_state ==
    /\ Calling("ERROR") /\ ~Killed /\ ~so
    /\ pc' = "killed"
    /\ UNCHANGED <<coreVars, setupVars, client_fd, bytes_read, self_pipe, kernelVars, clientVars>>

-----------------------------------------------------------------------------
\* SIGINT, at any step.  Before the handler is installed it ends the process.
handle_sigint ==
    /\ ~Killed /\ core # "exited" /\ self_pipe < MaxSignals
    /\ IF handler THEN self_pipe' = self_pipe + 1 /\ UNCHANGED pc
                  ELSE pc' = "killed" /\ UNCHANGED self_pipe
    /\ UNCHANGED <<coreVars, setupVars, client_fd, bytes_read, kernelVars, clientVars>>

ServerUnchanged == UNCHANGED <<coreVars, serverVars>>
ClientMoves(k) == ClientStep(k) /\ ServerUnchanged
RstArrives(k) == DeliverRst(k) /\ ServerUnchanged

EnvStep ==
    \/ \E k \in Conns : ClientMoves(k) \/ RstArrives(k)
    \/ /\ \E k \in Conns : \/ listening /\ ~Down /\ ClientConnect(k)
                           \/ ClientAbort(k) \/ ClientReset(k)
       /\ ServerUnchanged

CoreStep ==
    /\ ~Killed
    /\ setup_core_object \/ get_api \/ run_core_exit
    /\ UNCHANGED <<serverVars, kernelVars, clientVars>>

ServerStep ==
    \/ CoreStep
    \/ setup_state_fails \/ open_server_for_listen
    \/ close_client \/ check_fd \/ accept_conn
    \/ recv_length \/ recv_body \/ respond
    \/ destroy_state \/ destroy_no_state

Init ==
    /\ InitCore /\ InitKernel
    /\ pc = "idle" /\ so = FALSE /\ handler = FALSE /\ listening = FALSE
    /\ client_fd = 0 /\ bytes_read = 0 /\ self_pipe = 0

Next == ServerStep \/ handle_sigint \/ EnvStep

ClientsFair == \A k \in Conns : WF_vars(ClientMoves(k)) /\ WF_vars(RstArrives(k))

Spec == Init /\ [][Next]_vars

\* Only the server is owed a turn; Served adds the clients.
FairSpec == Spec /\ WF_vars(ServerStep)

-----------------------------------------------------------------------------
(* Properties. *)

\* Every variable has its type.
TypeOK ==
    /\ pc \in {"idle", "next", "listen", "accept", "await_head", "head", "await_body", "body",
               "respond", "killed"}
    /\ so \in BOOLEAN /\ handler \in BOOLEAN /\ listening \in BOOLEAN
    /\ client_fd \in Fds
    /\ bytes_read \in 0 .. Body /\ self_pipe \in 0 .. MaxSignals
    /\ CoreTypeOK /\ KernelTypeOK /\ ClientTypeOK

\* A client that is still there is only ever answered with the length of its whole message.
ReplyOnlyWhole == \A k \in Conns : peer[k] = "open" => reply[k] \in {NoReply, Body}

\* The exit status tells how the server ended: success only after SIGINT, failure only after a
\* refused setup or accept or a reset connection, whatever signals came in between.
StatusTellsWhy ==
    core = "exited" =>
        IF exit_status = "success" THEN self_pipe > 0
        ELSE ~listening \/ pc = "accept" \/ \E k \in Conns : IsReset(k)

\* Where a connection stands with the server.
TableOf(k) ==
    IF \E f \in Fds : open[f] = k THEN "watched"
    ELSE IF peer[k] = "none" \/ k \in backlog THEN "new"
    ELSE "gone"

TableNow == [k \in Conns |-> TableOf(k)]

Table == INSTANCE ConnectionTable WITH MaxConnections <- 1, table <- TableNow

\* The server implements the connection table with one place: a client is accepted only when the
\* descriptor of the one before is closed, and no descriptor is lost on the way.
ImplementsTable == Table!Spec

\* A SIGINT ends the server whatever the clients do: it comes in the middle of an accept or of a
\* message, between select() and the call select() allowed, and no client need write or close.
Stops == self_pipe > 0 ~> core = "exited" \/ Killed

\* If the clients do their part, each one that connects is answered, although it waits until those
\* before it have closed, unless it leaves or the server goes down.
Served == ClientsFair => \A k \in Conns :
    peer[k] = "open" ~> reply[k] = Body \/ peer[k] # "open" \/ Down
=============================================================================
