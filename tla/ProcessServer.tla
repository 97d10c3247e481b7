---------------------------- MODULE ProcessServer ----------------------------
(***************************************************************************)
(* The process server: a parent that polls the listening socket, the       *)
(* child-to-parent pipe and the client sockets, and a pool of children     *)
(* that read the messages.  The parent lends a readable connection to a    *)
(* child by passing its descriptor over a UNIX domain socket and negating  *)
(* the slot's fd, so that poll() ignores it; the child writes the fd       *)
(* number back through the pipe once the message has been received, and    *)
(* only then logs it and answers the client.                               *)
(*                                                                         *)
(* Process-shared state: the semaphores, the domain socket and the pipe.   *)
(* The kernel and the clients are those of Kernel.                         *)
(* Setup has succeeded in the initial state; the four semaphores then have *)
(* the values sem_open gives fresh ones.                                   *)
(***************************************************************************)
EXTENDS Kernel, Sequences, FiniteSets

CONSTANTS
    Children,        \* the NUM_CHILD_PROCESSES workers
    Parent,          \* the parent process
    MaxConnections,  \* MAX_CONNECTIONS
    SizeMax,         \* largest value of a size_t
    MaxSignals       \* bound: SIGINTs or SIGTERMs sent from outside

ASSUME ChildrenAssumption == IsFiniteSet(Children) /\ Parent \notin Children
ASSUME LimitsAssumption ==
    /\ MaxConnections \in Nat \ {0}
    /\ SizeMax \in Nat /\ MaxConnections < SizeMax
    /\ MaxSignals \in Nat

VARIABLES
    \* the parent
    ppc,              \* where it is: see TypeOK
    unreaped,         \* children waitpid() has not been called for yet
    fd,               \* pollfds[p].fd of every client slot; negative: disabled, 0: empty
    events,           \* pollfds[p].events has POLLIN
    revents,          \* pollfds[p].revents, while the slots are scanned
    listening,        \* pollfds[0].events has POLLIN
    num_connections,
    \* the children
    cpc,              \* where each is: see TypeOK
    client_fd_parent, \* the descriptor's number in the parent
    client_fd_local,  \* the connection its received descriptor refers to
    bytes_read,       \* body pieces received of the current message
    \* every process
    GOGO_PROCESS,
    pending,          \* processes a signal has been sent to and not delivered
    signals,          \* signals sent from outside so far
    late,             \* history: those the parent got after its loop, as it takes its children down
    \* between the processes
    domain_sem_read, domain_sem_write, pipe_sem_write, log_sem,
    domain,           \* domain socket: messages in transit
    pipe              \* child-to-parent pipe: fd numbers in transit

slotVars   == <<fd, events, listening, num_connections>>
parentVars == <<ppc, unreaped, revents>>
childVars  == <<cpc, client_fd_parent, client_fd_local, bytes_read>>
signalVars == <<GOGO_PROCESS, pending, signals, late>>
domainVars == <<domain_sem_read, domain_sem_write, domain>>
pipeVars   == <<pipe_sem_write, pipe>>
vars == <<slotVars, parentVars, childVars, signalVars, domainVars, pipeVars, log_sem,
          kernelVars, clientVars>>

Procs   == Children \cup {Parent}
Slots   == 2 .. MaxConnections + 1
Dead    == {c \in Children : cpc[c] \in {"exited", "killed"}}
Live    == Children \ Dead

-----------------------------------------------------------------------------
(* The parent.  The loop test `while (GOGO_PROCESS)` is taken together with  *)
(* the last step of the iteration before it: nothing else reads the flag.    *)

PLoopTest == ppc' = IF GOGO_PROCESS[Parent] THEN "poll" ELSE "kill"

\* What poll() reports for a client slot.
PollEvents(p) == PollOf(fd[p], events[p])

ListenReady == listening /\ backlog # {}
\* revents == POLLIN exactly: once every writer is dead POLLHUP is set as well.
PipeReady == pipe # <<>> /\ Live # {}

FirstEmpty(p) == fd[p] = 0 /\ \A q \in Slots : q < p => fd[q] # 0
\* Mutant: the search is dropped and every connection gets the default slot.
DefaultIndex(p) == p = 2
\* The slot for a new connection: the first empty one, and slot 2 if there is none.
p_get_pollfd_index(p) ==
    FirstEmpty(p) \/ (p = 2 /\ \A q \in Slots : fd[q] # 0)

SizeInc(n) == IF n = SizeMax THEN 0 ELSE n + 1
SizeDec(n) == IF n = 0 THEN SizeMax ELSE n - 1

\* Mutant: > for >=.
ListenAfterAcceptLate(n) == n <= MaxConnections
ListenAfterAccept(n) == n < MaxConnections

p_accept_new_connection ==
    /\ ppc = "poll" /\ ListenReady
    /\ \E k \in backlog, p \in Slots, f \in Fds :
          /\ p_get_pollfd_index(p)
          /\ LowestFreeFd(f)
          /\ backlog' = backlog \ {k}
          /\ open' = [open EXCEPT ![f] = k]
          /\ fd' = [fd EXCEPT ![p] = f]
          /\ events' = [events EXCEPT ![p] = TRUE]
    /\ num_connections' = SizeInc(num_connections)
    /\ listening' = ListenAfterAccept(num_connections')
    /\ PLoopTest
    /\ UNCHANGED <<unreaped, revents, childVars, signalVars, domainVars, pipeVars, log_sem,
                   stdin_hup, clientVars>>

\* accept() returns -1, or there is no descriptor left: the server goes down.
p_accept_fails ==
    /\ ppc = "poll" /\ ListenReady
    /\ "accept" \in Faults \/ \A f \in Fds : open[f] # NoConn
    /\ ppc' = "kill"
    /\ UNCHANGED <<unreaped, revents, slotVars, childVars, signalVars, domainVars, pipeVars,
                   log_sem, kernelVars, clientVars>>

\* Mutant: the first disabled slot is enabled, whichever it is.
EnableAny(f) == [p \in Slots |-> IF fd[p] < 0 /\ \A q \in Slots : q < p => fd[q] >= 0
                                 THEN -fd[p] ELSE fd[p]]
\* Mutant: no slot is enabled.
EnableNever(f) == fd
Enable(f) == [p \in Slots |-> IF fd[p] = -f THEN -fd[p] ELSE fd[p]]

p_read_pipe_reenable_fd ==
    /\ ppc = "poll" /\ ~ListenReady /\ PipeReady
    /\ pipe' = Tail(pipe)
    /\ pipe_sem_write' = pipe_sem_write + 1
    /\ fd' = Enable(Head(pipe))
    /\ PLoopTest
    /\ UNCHANGED <<unreaped, revents, events, listening, num_connections, childVars, signalVars,
                   domainVars, log_sem, kernelVars, clientVars>>

\* With every child dead the pipe's reading end is POLLHUP, and poll() never blocks.
PollReturns ==
    ListenReady \/ PipeReady \/ Live = {} \/ \E p \in Slots : PollEvents(p) # "none"

\* poll() returns and the scan of the client slots starts from its snapshot.
p_poll_sockets ==
    /\ ppc = "poll" /\ ~ListenReady /\ ~PipeReady /\ PollReturns
    /\ revents' = [p \in Slots |-> PollEvents(p)]
    /\ ppc' = "scan"
    /\ UNCHANGED <<unreaped, slotVars, childVars, signalVars, domainVars, pipeVars, log_sem,
                   kernelVars, clientVars>>

\* Mutant: a hung-up slot is left alone.
NeedsActionNoHup(p) == revents[p] = "in"
NeedsAction(p) == revents[p] \in {"in", "hup"}
\* The slot the scan has reached.
Current(p) == NeedsAction(p) /\ \A q \in Slots : q < p => ~NeedsAction(q)
NoRevents == [p \in Slots |-> "none"]

\* Mutant: the slot stays enabled while a child has the connection.
DisableForgotten(p) == fd
Disable(p) == [fd EXCEPT ![p] = -fd[p]]

\* Mutant: the semaphore is not waited for.
DomainFreeIgnored == TRUE
DomainFree == domain_sem_write > 0

\* sem_wait, sendmsg, sem_post, and the caller's `fd *= -1`.
p_send_to_child(p) ==
    /\ ppc = "scan" /\ Current(p) /\ revents[p] = "in"
    /\ DomainFree /\ Live # {} /\ open[fd[p]] \in Conns
    /\ domain_sem_write' = domain_sem_write - 1
    /\ domain' = Append(domain, [fd |-> fd[p], conn |-> open[fd[p]]])
    /\ domain_sem_read' = domain_sem_read + 1
    /\ fd' = Disable(p)
    /\ revents' = [revents EXCEPT ![p] = "none"]
    /\ UNCHANGED <<ppc, unreaped, events, listening, num_connections, childVars, signalVars,
                   pipeVars, log_sem, kernelVars, clientVars>>

\* sendmsg() returns -1 (a bad descriptor, or the injected fault): the server goes down.
p_send_fails(p) ==
    /\ ppc = "scan" /\ Current(p) /\ revents[p] = "in"
    /\ DomainFree /\ Live # {} /\ ("sendmsg" \in Faults \/ open[fd[p]] \notin Conns)
    /\ domain_sem_write' = domain_sem_write - 1
    /\ ppc' = "kill"
    /\ revents' = NoRevents
    /\ UNCHANGED <<unreaped, slotVars, childVars, signalVars, domain_sem_read, domain,
                   pipeVars, log_sem, kernelVars, clientVars>>

\* No process holds the reading end any more: SIGPIPE, whose default action is kept.
p_send_sigpipe(p) ==
    /\ ppc = "scan" /\ Current(p) /\ revents[p] = "in"
    /\ DomainFree /\ Live = {}
    /\ ppc' = "killed"
    /\ domain_sem_write' = domain_sem_write - 1
    /\ revents' = NoRevents
    /\ UNCHANGED <<unreaped, slotVars, childVars, signalVars, domain_sem_read, domain,
                   pipeVars, log_sem, kernelVars, clientVars>>

\* Mutant: the listening socket is never polled again.
ListenAfterRemoveOff(n) == listening
ListenAfterRemove(n) == listening \/ n < MaxConnections

p_remove_connection(p) ==
    /\ ppc = "scan" /\ Current(p) /\ revents[p] = "hup"
    /\ open' = [open EXCEPT ![fd[p]] = NoConn]
    /\ fd' = [fd EXCEPT ![p] = 0]
    /\ events' = [events EXCEPT ![p] = FALSE]
    /\ num_connections' = SizeDec(num_connections)
    /\ listening' = ListenAfterRemove(num_connections')
    /\ revents' = [revents EXCEPT ![p] = "none"]
    /\ UNCHANGED <<ppc, unreaped, childVars, signalVars, domainVars, pipeVars, log_sem,
                   stdin_hup, backlog, clientVars>>

p_scan_done ==
    /\ ppc = "scan" /\ \A p \in Slots : ~NeedsAction(p)
    /\ revents' = NoRevents
    /\ PLoopTest
    /\ UNCHANGED <<unreaped, slotVars, childVars, signalVars, domainVars, pipeVars, log_sem,
                   kernelVars, clientVars>>

\* p_destroy_parent_state: signal every child ...
p_signal_children ==
    /\ ppc = "kill"
    /\ pending' = pending \cup Live
    /\ late' = IF Parent \in pending THEN 1 ELSE 0
    /\ ppc' = "reap"
    /\ UNCHANGED <<unreaped, revents, slotVars, childVars, GOGO_PROCESS, signals, domainVars,
                   pipeVars, log_sem, kernelVars, clientVars>>

\* Mutant: waitpid() with WNOHANG.
WaitReturnsAtOnce(c) == TRUE
WaitReturns(c) == c \in Dead

\* ... wait for each ...
p_waitpid(c) ==
    /\ ppc = "reap" /\ c \in unreaped /\ WaitReturns(c)
    /\ unreaped' = unreaped \ {c}
    /\ UNCHANGED <<ppc, revents, slotVars, childVars, signalVars, domainVars, pipeVars, log_sem,
                   kernelVars, clientVars>>

\* ... and close what pollfds holds (a negative fd is EBADF, and ignored).
p_close_files ==
    /\ ppc = "reap" /\ unreaped = {}
    /\ open' = [f \in Fds |-> IF \E p \in Slots : fd[p] = f THEN NoConn ELSE open[f]]
    /\ ppc' = "done"
    /\ UNCHANGED <<unreaped, revents, slotVars, childVars, signalVars, domainVars, pipeVars,
                   log_sem, stdin_hup, backlog, clientVars>>

ParentGone == ppc \in {"done", "killed"}

-----------------------------------------------------------------------------
(* The children. *)

CGoto(c, at) == cpc' = [cpc EXCEPT ![c] = at]
CLoopTest(c) == CGoto(c, IF GOGO_PROCESS[c] THEN "getwait" ELSE "exited")
\* A -1 goes through the ERROR state, where the child closes its files and exits.
CFails(c) == CGoto(c, "exited")

\* sem_wait, recvmsg, sem_post, and getpeername, which needs a connected socket.
c_get_file_description_from_domain_socket(c) ==
    /\ cpc[c] = "getwait" /\ domain_sem_read > 0 /\ domain # <<>>
    /\ domain_sem_read' = domain_sem_read - 1
    /\ domain' = Tail(domain)
    /\ domain_sem_write' = domain_sem_write + 1
    /\ client_fd_parent' = [client_fd_parent EXCEPT ![c] = Head(domain).fd]
    /\ client_fd_local' = [client_fd_local EXCEPT ![c] = Head(domain).conn]
    /\ bytes_read' = [bytes_read EXCEPT ![c] = 0]
    /\ \/ ~IsReset(Head(domain).conn) /\ CGoto(c, "header")
       \/ (IsReset(Head(domain).conn) \/ "getpeername" \in Faults) /\ CFails(c)
    /\ UNCHANGED <<parentVars, slotVars, signalVars, pipeVars, log_sem, kernelVars, clientVars>>

\* recv() of the length.  At the end of the stream the length is never written: whatever
\* value it has, the buffer is allocated or not, and the body loop then receives nothing.
c_get_message_length(c) ==
    LET k == client_fd_local[c]
    IN  /\ cpc[c] = "header"
        /\ \/ /\ HasData(k)
              /\ taken' = [taken EXCEPT ![k] = @ + 1]
              /\ CGoto(c, "body") \/ ("malloc" \in Faults /\ CFails(c))
           \/ /\ AtEof(k)
              /\ CGoto(c, "body") \/ ("malloc" \in Faults /\ CFails(c))
              /\ UNCHANGED taken
           \/ /\ RecvFails(k)
              /\ CFails(c)
              /\ UNCHANGED taken
        /\ UNCHANGED <<parentVars, slotVars, client_fd_parent, client_fd_local, bytes_read,
                       signalVars, domainVars, pipeVars, log_sem, kernelVars, peer, wrote, reply>>

\* Mutant: the loop ends after one recv().
BodyDoneEarly(n) == n >= 1
BodyDone(n) == n >= Body

\* The recv() loop over the body.
c_recv_body(c) ==
    LET k == client_fd_local[c]
    IN  /\ cpc[c] = "body"
        /\ \/ /\ HasData(k)
              /\ taken' = [taken EXCEPT ![k] = @ + 1]
              /\ bytes_read' = [bytes_read EXCEPT ![c] = @ + 1]
              /\ CGoto(c, IF BodyDone(bytes_read[c] + 1) THEN "pipewait" ELSE "body")
           \/ /\ AtEof(k)
              /\ CGoto(c, "pipewait")
              /\ UNCHANGED <<taken, bytes_read>>
           \/ /\ RecvFails(k)
              /\ CFails(c)
              /\ UNCHANGED <<taken, bytes_read>>
        /\ UNCHANGED <<parentVars, slotVars, client_fd_parent, client_fd_local, signalVars,
                       domainVars, pipeVars, log_sem, kernelVars, peer, wrote, reply>>

\* Mutant: the child's own descriptor is reported.
FinishedFdLocal(c) == client_fd_local[c]
FinishedFd(c) == client_fd_parent[c]

\* Write the fd number to the pipe; without a reader, SIGPIPE.
c_inform_parent_recv_finished(c) ==
    /\ cpc[c] = "pipewait" /\ pipe_sem_write > 0
    /\ pipe_sem_write' = pipe_sem_write - 1
    /\ \/ /\ ~ParentGone
          /\ pipe' = Append(pipe, FinishedFd(c))
          /\ CGoto(c, "logwait")
       \/ /\ ParentGone
          /\ CGoto(c, "killed")
          /\ UNCHANGED pipe
    /\ UNCHANGED <<parentVars, slotVars, client_fd_parent, client_fd_local, bytes_read,
                   signalVars, domainVars, log_sem, kernelVars, clientVars>>

\* c_log: take the log semaphore ...
c_log_wait(c) ==
    /\ cpc[c] = "logwait" /\ log_sem > 0
    /\ log_sem' = log_sem - 1
    /\ CGoto(c, "logging")
    /\ UNCHANGED <<parentVars, slotVars, client_fd_parent, client_fd_local, bytes_read,
                   signalVars, domainVars, pipeVars, kernelVars, clientVars>>

\* ... write the row and release it.
c_log_write(c) ==
    /\ cpc[c] = "logging"
    /\ log_sem' = log_sem + 1
    /\ CGoto(c, "respond")
    /\ UNCHANGED <<parentVars, slotVars, client_fd_parent, client_fd_local, bytes_read,
                   signalVars, domainVars, pipeVars, kernelVars, clientVars>>

\* send() the count, close the descriptor and test the loop condition.  A write after a RST
\* fails, with SIGPIPE unless the RST is first reported as ECONNRESET.
c_respond(c) ==
    LET k == client_fd_local[c]
    IN  /\ cpc[c] = "respond"
        /\ \/ Answer(k, bytes_read[c]) /\ CLoopTest(c)
           \/ /\ IsReset(k)
              /\ CGoto(c, "killed") \/ (peer[k] = "rst" /\ CFails(c))
              /\ UNCHANGED <<peer, reply>>
        /\ UNCHANGED <<parentVars, slotVars, client_fd_parent, client_fd_local, bytes_read,
                       signalVars, domainVars, pipeVars, log_sem, kernelVars, wrote, taken>>

-----------------------------------------------------------------------------
(* Signals.  The handler clears GOGO_PROCESS; SA_RESTART is not set, so a call *)
(* the process is blocked in returns EINTR.  A signal that arrives just before *)
(* the call does not interrupt it: only the flag is cleared.                   *)

\* kill(parent), or SIGINT from the terminal to the whole process group.
SendSignal ==
    /\ signals < MaxSignals
    /\ signals' = signals + 1
    /\ \E targets \in {{Parent}, Procs} :
          pending' = pending \cup {x \in targets : IF x = Parent THEN ~ParentGone ELSE x \in Live}
    /\ late' = IF ppc = "reap" THEN late + 1 ELSE late
    /\ UNCHANGED <<parentVars, slotVars, childVars, GOGO_PROCESS, domainVars, pipeVars, log_sem,
                   kernelVars, clientVars>>

Delivered(x) ==
    /\ x \in pending
    /\ pending' = pending \ {x}
    /\ GOGO_PROCESS' = [GOGO_PROCESS EXCEPT ![x] = FALSE]

end_gogo_handler(x) ==
    /\ Delivered(x)
    /\ UNCHANGED <<parentVars, slotVars, childVars, signals, late, domainVars, pipeVars, log_sem,
                   kernelVars, clientVars>>

\* EINTR in the parent: poll() ends the loop; p_send_to_child returns 0 although nothing was
\* sent, and its caller disables the slot; waitpid() is not called again for that child.
p_interrupted ==
    /\ Delivered(Parent)
    /\ \/ /\ ppc = "poll" /\ ~PollReturns
          /\ ppc' = "kill"
          /\ UNCHANGED <<fd, revents, unreaped>>
       \/ /\ ppc = "scan" /\ ~DomainFree
          /\ \E p \in Slots :
                /\ Current(p) /\ revents[p] = "in"
                /\ fd' = Disable(p)
                /\ revents' = [revents EXCEPT ![p] = "none"]
          /\ UNCHANGED <<ppc, unreaped>>
       \/ /\ ppc = "reap"
          /\ \E c \in unreaped \cap Live : unreaped' = unreaped \ {c}
          /\ UNCHANGED <<ppc, fd, revents>>
    /\ UNCHANGED <<events, listening, num_connections, childVars, signals, late, domainVars,
                   pipeVars, log_sem, kernelVars, clientVars>>

\* EINTR in a child: while waiting for work it leaves the loop; a wait for the pipe or the log
\* is given up and the handler goes on without it; in recv() it is an error.
c_interrupted(c) ==
    /\ Delivered(c)
    /\ \/ cpc[c] = "getwait" /\ domain_sem_read = 0 /\ CGoto(c, "exited")
       \/ cpc[c] = "pipewait" /\ pipe_sem_write = 0 /\ CGoto(c, "logwait")
       \/ cpc[c] = "logwait" /\ log_sem = 0 /\ CGoto(c, "respond")
       \/ /\ cpc[c] \in {"header", "body"}
          /\ ~HasData(client_fd_local[c]) /\ peer[client_fd_local[c]] = "open"
          /\ CFails(c)
    /\ UNCHANGED <<parentVars, slotVars, client_fd_parent, client_fd_local, bytes_read, signals,
                   late, domainVars, pipeVars, log_sem, kernelVars, clientVars>>

-----------------------------------------------------------------------------
ServerVars == <<parentVars, slotVars, childVars, signalVars, domainVars, pipeVars, log_sem>>

\* A client's own step: it sends its message, and closes once it has been answered.
ClientMoves(k) == ClientStep(k) /\ UNCHANGED ServerVars
RstArrives(k) == DeliverRst(k) /\ UNCHANGED ServerVars

EnvStep ==
    \/ \E k \in Conns : ClientMoves(k) \/ RstArrives(k)
    \/ /\ \/ \E k \in Conns : (~ParentGone /\ ClientConnect(k)) \/ ClientAbort(k) \/ ClientReset(k)
          \/ StdinHangup
       /\ UNCHANGED ServerVars

-----------------------------------------------------------------------------
Init ==
    /\ ppc = "poll" /\ unreaped = Children /\ revents = NoRevents
    /\ fd = [p \in Slots |-> 0] /\ events = [p \in Slots |-> FALSE]
    /\ listening = TRUE /\ num_connections = 0
    /\ cpc = [c \in Children |-> "getwait"]
    /\ client_fd_parent = [c \in Children |-> 0]
    /\ client_fd_local = [c \in Children |-> NoConn]
    /\ bytes_read = [c \in Children |-> 0]
    /\ GOGO_PROCESS = [x \in Procs |-> TRUE] /\ pending = {}
    /\ signals = 0 /\ late = 0
    /\ domain_sem_read = 0 /\ domain_sem_write = 1 /\ pipe_sem_write = 1 /\ log_sem = 1
    /\ domain = <<>> /\ pipe = <<>>
    /\ InitKernel

ParentStep ==
    \/ p_accept_new_connection \/ p_accept_fails
    \/ p_read_pipe_reenable_fd
    \/ p_poll_sockets
    \/ \E p \in Slots : \/ p_send_to_child(p) \/ p_send_fails(p) \/ p_send_sigpipe(p)
                        \/ p_remove_connection(p)
    \/ p_scan_done
    \/ p_signal_children
    \/ \E c \in Children : p_waitpid(c)
    \/ p_close_files

ChildStep(c) ==
    \/ c_get_file_description_from_domain_socket(c)
    \/ c_get_message_length(c)
    \/ c_recv_body(c)
    \/ c_inform_parent_recv_finished(c)
    \/ c_log_wait(c) \/ c_log_write(c)
    \/ c_respond(c)

SignalStep ==
    \/ SendSignal
    \/ \E x \in Procs : end_gogo_handler(x)
    \/ p_interrupted
    \/ \E c \in Children : c_interrupted(c)

Next == ParentStep \/ (\E c \in Children : ChildStep(c)) \/ SignalStep \/ EnvStep

Spec == Init /\ [][Next]_vars

\* Every process is scheduled, a signal that was sent is delivered, and a client that connected
\* sends its message and closes once it is answered.  Nothing obliges a client to connect,
\* anyone to send a signal, or any call to fail.
Fairness ==
    /\ WF_vars(ParentStep)
    /\ \A c \in Children : WF_vars(ChildStep(c))
    /\ \A k \in Conns : WF_vars(ClientMoves(k)) /\ WF_vars(RstArrives(k))
    /\ WF_vars(end_gogo_handler(Parent) \/ p_interrupted)
    /\ \A c \in Children : WF_vars(end_gogo_handler(c) \/ c_interrupted(c))

FairSpec == Spec /\ Fairness

-----------------------------------------------------------------------------
(* Properties. *)

Holding(c) == cpc[c] \in {"header", "body", "pipewait"}
Reading(c) == cpc[c] \in {"header", "body"}

\* Descriptor 0 is still what it was at start and the parent has not closed its files.
Sane == ~stdin_hup /\ ppc # "done"

\* Slot p is disabled, and it is the slot of connection k, whose descriptor is f.
LentSlot(p, f, k) == f # 0 /\ fd[p] = -f /\ open[f] = k

ParentTypeOK ==
    /\ ppc \in {"poll", "scan", "kill", "reap", "done", "killed"}
    /\ unreaped \subseteq Children
    /\ revents \in [Slots -> {"none", "in", "hup", "nval"}]
SlotTypeOK ==
    /\ fd \in [Slots -> Int] /\ \A p \in Slots : fd[p] \in Fds \/ -fd[p] \in Fds
    /\ events \in [Slots -> BOOLEAN]
    /\ listening \in BOOLEAN
    /\ num_connections \in 0 .. SizeMax
ChildTypeOK ==
    /\ cpc \in [Children -> {"getwait", "header", "body", "pipewait", "logwait", "logging",
                             "respond", "exited", "killed"}]
    /\ client_fd_parent \in [Children -> Fds]
    /\ client_fd_local \in [Children -> Conns \cup {NoConn}]
    /\ bytes_read \in [Children -> 0 .. Body]
SignalTypeOK ==
    /\ GOGO_PROCESS \in [Procs -> BOOLEAN]
    /\ pending \subseteq Procs
    /\ signals \in 0 .. MaxSignals /\ late \in Nat
IpcTypeOK ==
    /\ domain_sem_read \in Nat /\ domain_sem_write \in Nat
    /\ pipe_sem_write \in Nat /\ log_sem \in Nat
    /\ domain \in Seq([fd : Fds, conn : Conns])
    /\ pipe \in Seq(Fds)

\* Every variable has its type.
TypeOK ==
    /\ ParentTypeOK /\ SlotTypeOK /\ ChildTypeOK /\ SignalTypeOK /\ IpcTypeOK
    /\ KernelTypeOK /\ ClientTypeOK

\* Two children never receive from the same connection at once: the slot stays disabled from
\* the moment the parent passes the descriptor on until the child has the whole message.
ExclusiveReader ==
    ~stdin_hup =>
        \A c, d \in Children :
            c # d /\ Reading(c) /\ Reading(d) => client_fd_local[c] # client_fd_local[d]

\* An fd number on its way (in the domain socket, in a child, in the pipe) names a disabled slot,
\* that slot holds the very connection that was passed on, and no number is on its way twice:
\* so p_read_pipe_reenable_fd enables the slot the child was reading, even when the kernel has
\* reused descriptor numbers in the meantime.
NoStaleToken ==
    Sane =>
        /\ \A i \in DOMAIN domain :
              \E p \in Slots : LentSlot(p, domain[i].fd, domain[i].conn)
        /\ \A c \in Children : Holding(c) =>
              \E p \in Slots : LentSlot(p, client_fd_parent[c], client_fd_local[c])
        /\ \A i \in DOMAIN pipe : \E p \in Slots, k \in Conns : LentSlot(p, pipe[i], k)
        /\ \A c, d \in Children :
              c # d /\ Holding(c) /\ Holding(d) => client_fd_parent[c] # client_fd_parent[d]
        /\ \A c \in Children, i \in DOMAIN domain :
              Holding(c) => client_fd_parent[c] # domain[i].fd
        /\ \A c \in Children, i \in DOMAIN pipe : Holding(c) => client_fd_parent[c] # pipe[i]
        /\ \A i \in DOMAIN domain, j \in DOMAIN pipe : domain[i].fd # pipe[j]

\* num_connections counts the slots in use, and the listening socket is polled exactly while
\* there is an empty slot: accept never overwrites a slot, and never stays off.
ConnCount ==
    ~stdin_hup =>
        /\ num_connections = Cardinality({p \in Slots : fd[p] # 0})
        /\ listening <=> \E p \in Slots : fd[p] = 0

\* A child is only given a connection with something to receive, and nobody else takes it
\* first: the recv() of the length never blocks.
HeaderNeverBlocks ==
    ~stdin_hup =>
        \A c \in Children : cpc[c] = "header" =>
            HasData(client_fd_local[c]) \/ peer[client_fd_local[c]] # "open"

\* A client that is still there is only ever answered with the length of its whole message.
ReplyOnlyWhole ==
    ~stdin_hup => \A k \in Conns : peer[k] = "open" => reply[k] \in {NoReply, Body}

\* The semaphores guard one-place buffers: while the parent runs there is at most one message in
\* the domain socket, the read semaphore counts it, the write semaphore is its complement, and
\* the pipe holds a number exactly while its semaphore is taken.
OnePlaceBuffers ==
    ppc \in {"poll", "scan"} =>
        /\ Len(domain) <= 1
        /\ domain_sem_read = Len(domain) /\ domain_sem_read + domain_sem_write = 1
        /\ pipe_sem_write + Len(pipe) = 1

\* The parent waits for room in the domain socket while every child waits for room in the pipe.
CircularWait ==
    /\ ppc = "scan" /\ \E p \in Slots : Current(p) /\ revents[p] = "in"
    /\ domain_sem_write = 0 /\ pipe_sem_write = 0
    /\ Live # {} /\ \A c \in Live : cpc[c] = "pipewait"

\* The listening socket is polled whenever fewer than MaxConnections connections are open.
ListenWhenRoom ==
    Cardinality({f \in Fds : open[f] \in Conns}) < MaxConnections => listening

\* That circular wait needs three more connections than children: one being dispatched, one in
\* the domain socket and one in the pipe.
NoCircularWait ==
    ~stdin_hup /\ MaxConnections <= Cardinality(Live) + 2 => ~CircularWait

\* The parent closes its files and unlinks the semaphores only when every child has exited, but
\* for one child per signal it gets while it waits for them, whose waitpid() fails with EINTR and
\* is not repeated: the signal that ended its loop costs nothing.  An orphan has its own signal.
OrphansOnlyBySignal ==
    ppc = "done" =>
        /\ Cardinality(Live) <= late
        /\ \A c \in Live : c \in pending \/ ~GOGO_PROCESS[c]

\* A slot is filled when empty, and disabled and enabled with its fd kept; it is emptied only
\* when enabled, and only when its client has gone.
SlotStep(p) ==
    \/ fd'[p] = fd[p]
    \/ fd[p] = 0 /\ fd'[p] > 0 /\ open'[fd'[p]] \in Conns
    \/ fd'[p] = -fd[p] /\ open' = open
    \/ fd[p] > 0 /\ fd'[p] = 0 /\ open[fd[p]] \in Conns /\ peer[open[fd[p]]] # "open"
SlotLifecycle == [][~stdin_hup => \A p \in Slots : SlotStep(p)]_vars

-----------------------------------------------------------------------------
(* Refinement. *)

\* Where a connection stands in the parent's pollfds array.
TableOf(k) ==
    IF \E p \in Slots : fd[p] > 0 /\ open[fd[p]] = k THEN "watched"
    ELSE IF \E p \in Slots : fd[p] < 0 /\ open[-fd[p]] = k THEN "lent"
    ELSE IF peer[k] = "none" \/ k \in backlog THEN "new"
    ELSE "gone"

TableNow == [k \in Conns |-> TableOf(k)]

Table == INSTANCE ConnectionTable WITH table <- TableNow

\* The pollfds array, the descriptor table and the counter implement the connection table: no
\* more than MaxConnections connections are kept, each is accepted once, lent to one child at a
\* time, and closed only while it is not lent.
ImplementsTable == Table!Spec

-----------------------------------------------------------------------------
(* Liveness, under FairSpec. *)

\* A connected client is answered.
Served == \A k \in Conns : peer[k] = "open" ~> reply[k] = Body

\* A slot that was disabled is enabled again.
Reenabled == \A p \in Slots : fd[p] < 0 ~> fd[p] >= 0

\* A connection the client has closed is removed, and its slot is free for another.
Freed == \A k \in Conns : peer[k] = "fin" ~> \A f \in Fds : open[f] # k

\* A signal to the parent brings the server down.
ShutdownCompletes == ~GOGO_PROCESS[Parent] ~> ppc = "done"
=============================================================================
