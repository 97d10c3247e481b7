------------------------------ MODULE PollServer ------------------------------
(***************************************************************************)
(* The poll server, run by the core: one process that polls the listening  *)
(* socket and the client sockets, and receives each message itself,        *)
(* blocking in recv() until it has all of it.  A connection is kept twice: *)
(* in the local array pollfds, which poll() uses, and in so->client_fd,    *)
(* which finds an empty place and is what teardown closes.                 *)
(*                                                                         *)
(* The kernel and the clients are those of Kernel.                         *)
(***************************************************************************)
EXTENDS Kernel, Core, FiniteSets

CONSTANTS
    MaxConnections,  \* MAX_CONNECTIONS
    SizeMax,         \* largest value of a size_t
    MaxSignals       \* bound: SIGINTs or SIGTERMs received

ASSUME LimitsAssumption ==
    /\ MaxConnections \in Nat \ {0}
    /\ SizeMax \in Nat /\ MaxConnections < SizeMax
    /\ MaxSignals \in Nat

VARIABLES
    pc,               \* where the server is: see TypeOK
    fd,               \* pollfds[p].fd of every client slot; 0: empty
    events,           \* pollfds[p].events has POLLIN
    revents,          \* pollfds[p].revents, while the slots are scanned
    listening,        \* pollfds[0].events has POLLIN
    client_fd,        \* so->client_fd, numbered like the slots
    num_connections,
    bytes_read,       \* body pieces received of the current message
    GOGO_POLL,
    signals           \* signals received so far

slotVars   == <<fd, events, listening, client_fd, num_connections>>
signalVars == <<GOGO_POLL, signals>>
ServerVars == <<pc, slotVars, revents, bytes_read, signalVars>>
vars == <<coreVars, ServerVars, kernelVars, clientVars>>

Slots == 1 .. MaxConnections
Down == pc \in {"close", "done", "killed"}
InLoop == pc \in {"poll", "scan", "body", "respond"}

-----------------------------------------------------------------------------
(* initialize_server, and run_server up to its loop. *)

\* calloc refused: there is no state object.
setup_poll_state_fails ==
    /\ Calling("INITIALIZE_SERVER") /\ pc = "init" /\ "malloc" \in Faults
    /\ pc' = "nostate"
    /\ Returns("ERROR")
    /\ UNCHANGED <<slotVars, revents, bytes_read, signalVars, kernelVars, clientVars>>

\* socket, bind and listen; any of them may be refused.
open_poll_server_for_listen ==
    /\ Calling("INITIALIZE_SERVER") /\ pc = "init"
    /\ \/ pc' = "ready" /\ Returns("RUN_SERVER")
       \/ Returns("ERROR") /\ UNCHANGED pc
    /\ UNCHANGED <<slotVars, revents, bytes_read, signalVars, kernelVars, clientVars>>

\* pollfds, a local array, gets the values it has in Init; then the handlers are set.
run_poll_server ==
    /\ Calling("RUN_SERVER") /\ pc = "ready"
    /\ pc' = "poll"
    /\ UNCHANGED <<coreVars, slotVars, revents, bytes_read, signalVars, kernelVars, clientVars>>

-----------------------------------------------------------------------------
(* The loop test `while (GOGO_POLL)` is taken together with the last step of *)
(* the iteration before it: nothing else reads the flag.                     *)

Stays(l) == pc' = l /\ UNCHANGED coreVars
Leaves(r) == pc' = "close" /\ Returns(r)
LoopTest == IF GOGO_POLL THEN Stays("poll") ELSE Leaves("CLOSE_SERVER")
Fails == Leaves("ERROR")

PollEvents(p) == PollOf(fd[p], events[p])
ListenReady == listening /\ backlog # {}
PollReturns == ListenReady \/ \E p \in Slots : PollEvents(p) # "none"

\* Mutant: the search is dropped and every connection gets the default index.
DefaultIndex(p) == p = 1
\* The first index with client_fd 0, and the first of all if there is none.
get_conn_index(p) ==
    \/ client_fd[p] = 0 /\ \A q \in Slots : q < p => client_fd[q] # 0
    \/ p = 1 /\ \A q \in Slots : client_fd[q] # 0

SizeInc(n) == IF n = SizeMax THEN 0 ELSE n + 1
\* Mutant: the count is signed.
SizeDecSigned(n) == n - 1
SizeDec(n) == IF n = 0 THEN SizeMax ELSE n - 1

\* Mutant: > for >=.
ListenAfterAcceptLate(n) == n <= MaxConnections
ListenAfterAccept(n) == n < MaxConnections

poll_accept ==
    /\ pc = "poll" /\ ListenReady
    /\ \E k \in backlog, p \in Slots, f \in Fds :
          /\ get_conn_index(p)
          /\ LowestFreeFd(f)
          /\ backlog' = backlog \ {k}
          /\ open' = [open EXCEPT ![f] = k]
          /\ client_fd' = [client_fd EXCEPT ![p] = f]
          /\ fd' = [fd EXCEPT ![p] = f]
          /\ events' = [events EXCEPT ![p] = TRUE]
    /\ num_connections' = SizeInc(num_connections)
    /\ listening' = (listening /\ ListenAfterAccept(num_connections'))
    /\ LoopTest
    /\ UNCHANGED <<revents, bytes_read, signalVars, stdin_hup, clientVars>>

accept_fails ==
    /\ pc = "poll" /\ ListenReady
    /\ "accept" \in Faults \/ \A f \in Fds : open[f] # NoConn
    /\ Fails
    /\ UNCHANGED <<slotVars, revents, bytes_read, signalVars, kernelVars, clientVars>>

\* poll() returns, without the listening socket, and poll_comm starts from its snapshot.
poll_sockets ==
    /\ pc = "poll" /\ ~ListenReady /\ PollReturns
    /\ revents' = [p \in Slots |-> PollEvents(p)]
    /\ Stays("scan")
    /\ UNCHANGED <<slotVars, bytes_read, signalVars, kernelVars, clientVars>>

\* Mutant: a hung-up slot is left alone.
NeedsActionNoHup(p) == revents[p] = "in"
NeedsAction(p) == revents[p] \in {"in", "hup"}
\* The slot poll_comm has reached.
Current(p) == NeedsAction(p) /\ \A q \in Slots : q < p => ~NeedsAction(q)
Receiving(p) == Current(p) /\ revents[p] = "in"
Handled(p) == revents' = [revents EXCEPT ![p] = "none"]
NoRevents == [p \in Slots |-> "none"]

\* recv() of the length.  At the end of the stream the length is never written: whatever value
\* it has, the buffer is allocated or not, and the body loop then receives nothing.
recv_length(p) ==
    LET k == open[fd[p]]
    IN  /\ pc = "scan" /\ Receiving(p)
        /\ \/ /\ HasData(k)
              /\ taken' = [taken EXCEPT ![k] = @ + 1]
              /\ Stays("body") \/ ("malloc" \in Faults /\ Fails)
           \/ /\ AtEof(k)
              /\ Stays("respond") \/ ("malloc" \in Faults /\ Fails)
              /\ UNCHANGED taken
           \/ /\ RecvFails(k)
              /\ Fails
              /\ UNCHANGED taken
        /\ bytes_read' = 0
        /\ UNCHANGED <<slotVars, revents, signalVars, kernelVars, peer, wrote, reply>>

\* Mutant: the loop ends after one recv().
BodyDoneEarly(n) == n >= 1
BodyDone(n) == n >= Body

\* The recv() loop over the body; log() follows it.
recv_body(p) ==
    LET k == open[fd[p]]
    IN  /\ pc = "body" /\ Receiving(p)
        /\ \/ /\ HasData(k)
              /\ taken' = [taken EXCEPT ![k] = @ + 1]
              /\ bytes_read' = bytes_read + 1
              /\ Stays(IF BodyDone(bytes_read + 1) THEN "respond" ELSE "body")
           \/ /\ AtEof(k)
              /\ Stays("respond")
              /\ UNCHANGED <<taken, bytes_read>>
           \/ /\ RecvFails(k)
              /\ Fails
              /\ UNCHANGED <<taken, bytes_read>>
        /\ UNCHANGED <<slotVars, revents, signalVars, kernelVars, peer, wrote, reply>>

\* send() of the count.  After a RST it fails, with SIGPIPE (whose default action is kept)
\* unless the RST is first reported as ECONNRESET.
respond(p) ==
    LET k == open[fd[p]]
    IN  /\ pc = "respond" /\ Receiving(p)
        /\ \/ Answer(k, bytes_read) /\ Stays("scan")
           \/ /\ IsReset(k)
              /\ Stays("killed") \/ (peer[k] = "rst" /\ Fails)
              /\ UNCHANGED <<peer, reply>>
        /\ Handled(p)
        /\ UNCHANGED <<slotVars, bytes_read, signalVars, kernelVars, wrote, taken>>

\* Mutant: the index of the slot is used for client_fd, which starts one lower.
ConnIndexOff(p) == p + 1
ConnIndex(p) == p

\* Mutant: the listening socket is never polled again.
ListenAfterRemoveOff(n) == listening
ListenAfterRemove(n) == listening \/ n < MaxConnections

poll_remove_connection(p) ==
    /\ pc = "scan" /\ Current(p) /\ revents[p] = "hup"
    /\ open' = [open EXCEPT ![fd[p]] = NoConn]
    /\ fd' = [fd EXCEPT ![p] = 0]
    /\ events' = [events EXCEPT ![p] = FALSE]
    /\ client_fd' = [client_fd EXCEPT ![ConnIndex(p)] = 0]
    /\ num_connections' = SizeDec(num_connections)
    /\ listening' = ListenAfterRemove(num_connections')
    /\ Handled(p)
    /\ UNCHANGED <<coreVars, pc, bytes_read, signalVars, stdin_hup, backlog, clientVars>>

poll_comm_done ==
    /\ pc = "scan" /\ \A p \in Slots : ~NeedsAction(p)
    /\ revents' = NoRevents
    /\ LoopTest
    /\ UNCHANGED <<slotVars, bytes_read, signalVars, kernelVars, clientVars>>

\* Mutant: the last place is forgotten.
ClosedAtExitButLast(f) == \E p \in Slots \ {MaxConnections} : client_fd[p] = f
ClosedAtExit(f) == \E p \in Slots : client_fd[p] = f

\* close_server, after the loop or after a refused socket.  A place that holds 0 closes
\* descriptor 0, and so does a listen_fd that was never set, when every place holds 0.
destroy_poll_state ==
    /\ Calling("CLOSE_SERVER") \/ Calling("ERROR")
    /\ pc \in {"init", "close"}
    /\ open' = [f \in Fds |-> IF ClosedAtExit(f) THEN NoConn ELSE open[f]]
    /\ pc' = "done"
    /\ Returns("EXIT")
    /\ UNCHANGED <<slotVars, revents, bytes_read, signalVars, stdin_hup, backlog, clientVars>>

\* Without a state object it reads through a null pointer.
destroy_no_state ==
    /\ Calling("ERROR") /\ pc = "nostate"
    /\ Stays("killed")
    /\ UNCHANGED <<slotVars, revents, bytes_read, signalVars, kernelVars, clientVars>>

-----------------------------------------------------------------------------
(* Signals.  SA_RESTART is not set, so a call the server is blocked in       *)
(* returns EINTR; one that arrives just before the call only clears the flag. *)

Signalled ==
    /\ signals < MaxSignals
    /\ signals' = signals + 1
    /\ UNCHANGED <<slotVars, revents, bytes_read, kernelVars, clientVars>>

end_gogo_handler ==
    /\ InLoop /\ Signalled
    /\ GOGO_POLL' = FALSE
    /\ UNCHANGED <<coreVars, pc>>

\* Before the handlers are set the signal ends the process.
signalled_early ==
    /\ core # "exited" /\ pc \in {"init", "nostate", "ready"} /\ Signalled
    /\ Stays("killed")
    /\ UNCHANGED GOGO_POLL

\* Mutant: EINTR ends the loop wherever it comes from.
RecvInterruptedEnds == "CLOSE_SERVER"
RecvInterrupted == "ERROR"

\* EINTR: poll() ends the loop, and recv() is an error like any other.
interrupted ==
    /\ Signalled
    /\ GOGO_POLL' = FALSE
    /\ \/ pc = "poll" /\ ~PollReturns /\ Leaves("CLOSE_SERVER")
       \/ /\ pc \in {"scan", "body"}
          /\ \E p \in Slots : /\ Receiving(p) /\ ~HasData(open[fd[p]])
                              /\ peer[open[fd[p]]] = "open"
          /\ Leaves(RecvInterrupted)

-----------------------------------------------------------------------------
ServerUnchanged == UNCHANGED <<coreVars, ServerVars>>
ClientMoves(k) == ClientStep(k) /\ ServerUnchanged
RstArrives(k) == DeliverRst(k) /\ ServerUnchanged

EnvStep ==
    \/ \E k \in Conns : ClientMoves(k) \/ RstArrives(k)
    \/ /\ \/ \E k \in Conns : \/ (InLoop \/ pc = "ready") /\ ClientConnect(k)
                              \/ ClientAbort(k) \/ ClientReset(k)
          \/ StdinHangup
       /\ ServerUnchanged

CoreStep ==
    /\ pc # "killed"
    /\ setup_core_object \/ get_api \/ run_core_exit
    /\ UNCHANGED <<ServerVars, kernelVars, clientVars>>

Init ==
    /\ InitCore /\ pc = "init"
    /\ fd = [p \in Slots |-> 0] /\ events = [p \in Slots |-> FALSE] /\ revents = NoRevents
    /\ client_fd = [p \in Slots |-> 0]
    /\ listening = TRUE /\ num_connections = 0 /\ bytes_read = 0
    /\ GOGO_POLL = TRUE /\ signals = 0
    /\ InitKernel

ServerStep ==
    \/ CoreStep
    \/ setup_poll_state_fails \/ open_poll_server_for_listen \/ run_poll_server
    \/ poll_accept \/ accept_fails
    \/ poll_sockets
    \/ \E p \in Slots : recv_length(p) \/ recv_body(p) \/ respond(p) \/ poll_remove_connection(p)
    \/ poll_comm_done
    \/ destroy_poll_state \/ destroy_no_state

Next == ServerStep \/ end_gogo_handler \/ signalled_early \/ interrupted \/ EnvStep

Spec == Init /\ [][Next]_vars

\* The server is scheduled, and a client that connected sends its message and closes once it is
\* answered, unless it is cancelled or cut off.  Nobody is obliged to connect or to send a signal.
Fairness ==
    /\ WF_vars(ServerStep)
    /\ \A k \in Conns : WF_vars(ClientMoves(k)) /\ WF_vars(RstArrives(k))

FairSpec == Spec /\ Fairness

-----------------------------------------------------------------------------
(* Properties. *)

\* Every variable has its type.
TypeOK ==
    /\ pc \in {"init", "nostate", "ready", "poll", "scan", "body", "respond", "close", "done",
               "killed"}
    /\ fd \in [Slots -> Fds] /\ client_fd \in [Slots -> Fds]
    /\ events \in [Slots -> BOOLEAN] /\ listening \in BOOLEAN
    /\ revents \in [Slots -> {"none", "in", "hup", "nval"}]
    /\ num_connections \in 0 .. SizeMax
    /\ bytes_read \in 0 .. Body
    /\ GOGO_POLL \in BOOLEAN /\ signals \in 0 .. MaxSignals
    /\ CoreTypeOK /\ KernelTypeOK /\ ClientTypeOK

\* The array poll() uses and the array accept and teardown use hold the same connections, each
\* once, num_connections counts them, and the listening socket is polled exactly while there is
\* room: accept never overwrites a connection and never stays off.
TwoArraysOneTable ==
    ~stdin_hup =>
        /\ client_fd = fd
        /\ \A p, q \in Slots : p # q /\ fd[p] # 0 => fd[p] # fd[q]
        /\ num_connections = Cardinality({p \in Slots : client_fd[p] # 0})
        /\ listening <=> num_connections < MaxConnections

\* A client that is still there is only ever answered with the length of its whole message.
ReplyOnlyWhole == \A k \in Conns : peer[k] = "open" => reply[k] \in {NoReply, Body}

\* Teardown closes every connection the server accepted, wherever the loop was left.
NothingLeftOpen == pc = "done" /\ ~stdin_hup => \A f \in Fds : open[f] \notin Conns

\* Nothing has been received from k, or its whole message and it was answered.
Settled(k) == taken[k] = 0 \/ (taken[k] = Body + 1 /\ reply[k] = Body)

\* The program reports success only if a signal ended it between two messages: no client that is
\* still there was left in the middle of its own.
SuccessBetweenMessages ==
    core = "exited" /\ exit_status = "success" =>
        signals > 0 /\ \A k \in Conns : peer[k] = "open" => Settled(k)

\* A client that closes after its answer does not bring the server down: it is seen to have
\* closed and is removed, not received from and written to again.
ClosedClientsHarmless == pc # "killed"

\* Where a connection stands in the arrays.
TableOf(k) ==
    IF \E p \in Slots : open[client_fd[p]] = k THEN "watched"
    ELSE IF peer[k] = "none" \/ k \in backlog THEN "new"
    ELSE "gone"

TableNow == [k \in Conns |-> TableOf(k)]

Table == INSTANCE ConnectionTable WITH table <- TableNow

\* Until descriptor 0 is hung up, the two arrays, the descriptor table and the counter implement
\* the connection table: each connection is accepted once into a place of its own, kept until it
\* is removed or the server goes down, and no more than MaxConnections are.
ImplementsTable ==
    /\ Table!Init
    /\ [][~stdin_hup => Table!Next \/ UNCHANGED TableNow]_vars

-----------------------------------------------------------------------------
(* Liveness, under FairSpec. *)

\* A connected client is answered with its length, although every message is received to its end
\* before another is looked at, unless the client leaves, the server goes down or descriptor 0
\* is hung up.
Served == \A k \in Conns :
    peer[k] = "open" ~> reply[k] = Body \/ peer[k] # "open" \/ Down \/ stdin_hup

\* A connection the client has closed is removed, unless the server goes down or descriptor 0
\* is hung up.
Freed == \A k \in Conns :
    peer[k] = "fin" ~> (k \notin backlog /\ \A f \in Fds : open[f] # k) \/ Down \/ stdin_hup
=============================================================================
