------------------------------ MODULE ProcessRuns ------------------------------
(***************************************************************************)
(* Runs of the process server on one machine, one after another or at the  *)
(* same time: setup, what the processes do with the four named semaphores, *)
(* teardown, and a process killed anywhere.  The names are the same in     *)
(* every run, and so are the port and the log file.  What the connections  *)
(* carry is ProcessServer's; here a message is only a message.             *)
(***************************************************************************)
EXTENDS Integers, FiniteSets

CONSTANTS
    Runs,                 \* instances of the program
    NoRun,                \* a name that is not there, a handle that was not opened
    Children,             \* NUM_CHILD_PROCESSES of them in each run
    Budget,               \* bound on what happens, over all runs
    Cost                  \* what each event takes of it: a message, a kill, a further SIGINT to a
                          \* parent, a call that fails, and a run that starts beside a live one

Events ==
    {"message", "kill", "signal", "beside", "sem_open", "fork", "calloc", "bind", "getpeername"}

ASSUME RunsAssumption == NoRun \notin Runs
ASSUME ChildrenAssumption == IsFiniteSet(Children) /\ Children # {}
ASSUME BudgetAssumption == Budget \in Nat /\ Cost \in [Events -> Nat \ {0}]

VARIABLES
    names,     \* the run whose semaphore a name stands for
    value,     \* the semaphores, each known by its name and the run that created it
    sems,      \* the semaphores a run has opened
    parent,    \* whether a run's parent is there, and how it ended
    ppc, at,   \* where the parent is, or was when it ended, and its loop counter
    running,   \* GOGO_PROCESS in the parent
    port,      \* the run that has the port
    child,     \* whether a child is there, and how it ended
    cpc,       \* where a child is, or was when it ended
    gogo,      \* GOGO_PROCESS in a child
    pending,   \* children with a SIGINT on its way
    given_up,  \* children the parent no longer waits for: a signal ended its waitpid()
    domain,    \* messages in a run's domain socket
    pipe,      \* numbers in a run's pipe
    spent,     \* what has been spent of Budget
    log,       \* the log file: the run that alone has written it, if there is one, and its lines
    rows       \* rows a child has printed

nameVars == <<names, value, sems>>
parentVars == <<parent, ppc, at, running, port>>
childVars == <<child, cpc, gogo, pending, given_up>>
socketVars == <<domain, pipe>>
logVars == <<log, rows>>
vars == <<nameVars, parentVars, childVars, socketVars, spent, logVars>>

\* The semaphores in the order they are opened, and unlinked.
Order == <<"pipe", "domain_read", "domain_write", "log">>
Sems == {Order[i] : i \in 1 .. 4}
InitialValue == [s \in Sems |-> IF s = "domain_read" THEN 0 ELSE 1]

-----------------------------------------------------------------------------
(* Semaphores and processes. *)

\* The semaphore run r knows as s.
Object(r, s) == value[s][sems[r][s]]
SetObject(r, s, n) == value' = [value EXCEPT ![s][sems[r][s]] = n]
\* Mutant: sem_trywait(), whose result is not looked at.
sem_trywait(r, s) == SetObject(r, s, Object(r, s) - 1)
sem_wait(r, s) == Object(r, s) > 0 /\ SetObject(r, s, Object(r, s) - 1)
sem_post(r, s) == SetObject(r, s, Object(r, s) + 1)

\* A process that is alive, and where it is.
PAt(r, pc) == parent[r] = "alive" /\ ppc[r] = pc
CAt(r, c, pc) == child[r][c] = "alive" /\ cpc[r][c] = pc

PGoto(r, pc) == ppc' = [ppc EXCEPT ![r] = pc]
CGoto(r, c, pc) == cpc' = [cpc EXCEPT ![r][c] = pc]

\* A process that is killed keeps the place where it was.
PEnds(r, how) == parent' = [parent EXCEPT ![r] = how]
CEnds(r, c, how) == child' = [child EXCEPT ![r][c] = how]

\* Who still has the parent's ends of the pipe and of the domain socket: the parent until it
\* closes its files, and a child that has not closed its copies yet.
ParentEndsOpen(r) ==
    \/ parent[r] = "alive" /\ ppc[r] \notin {"unlink", "exit"}
    \/ \E c \in Children : CAt(r, c, "start")

NewLog(r) == [owner |-> r, headers |-> 0, rows |-> 0]

\* Mutant: the process leaves without fclose().
NotFlushed(r, n) == log
\* fclose() at exit: what the process has in its FILE buffer, n rows and the header that every
\* process has from before the fork, goes to the file.
Flushed(r, n) ==
    IF log.owner = r THEN [log EXCEPT !.headers = @ + 1, !.rows = @ + n] ELSE NewLog(NoRun)

\* Event e happens, if the budget has it.
Spend(e) == spent + Cost[e] <= Budget /\ spent' = spent + Cost[e]

PExits(r) == PEnds(r, "exited") /\ log' = Flushed(r, 0)
PortAfter(r) == IF port = r THEN NoRun ELSE port
PDies(r) == PEnds(r, "killed") /\ port' = PortAfter(r)

-----------------------------------------------------------------------------
(* Setup. *)

\* fopen() truncates the log, the header is printed into the buffer, and the state is allocated.
setup_process_server(r) ==
    /\ parent[r] = "none"
    /\ \/ (\A q \in Runs : parent[q] # "alive") /\ UNCHANGED spent
       \/ Spend("beside")
    /\ PEnds(r, "alive")
    /\ log' = NewLog(r)
    /\ UNCHANGED <<nameVars, ppc, at, running, port, childVars, socketVars, rows>>

\* sem_open(s, O_CREAT, ...): a semaphore that exists is opened as it is.
Opened(r, s) == IF names[s] = NoRun THEN r ELSE names[s]
\* Mutant: the value is set whether the semaphore existed or not.
ValueReset(r, s) == InitialValue[s]
ValueOpened(r, s) == IF names[s] = NoRun THEN InitialValue[s] ELSE value[s][names[s]]

\* The next of the four calls; what became of them is looked at after the last.
open_semaphores(r) ==
    /\ PAt(r, "open")
    /\ LET s == Order[at[r]]
           o == Opened(r, s)
       IN  \/ /\ names' = [names EXCEPT ![s] = o]
              /\ sems' = [sems EXCEPT ![r][s] = o]
              /\ value' = [value EXCEPT ![s][o] = ValueOpened(r, s)]
              /\ UNCHANGED spent
           \/ Spend("sem_open") /\ UNCHANGED nameVars
    /\ IF at[r] < 4
       THEN at' = [at EXCEPT ![r] = @ + 1] /\ UNCHANGED ppc
       ELSE /\ at' = [at EXCEPT ![r] = 1]
            /\ PGoto(r, IF \E s \in Sems : sems'[r][s] = NoRun THEN "unlink" ELSE "fork")
    /\ UNCHANGED <<parent, running, port, childVars, socketVars, logVars>>

\* The domain sockets are opened with the first fork.
fork_child_process(r) ==
    /\ PAt(r, "fork")
    /\ \E c \in Children :
          /\ child[r][c] = "none"
          /\ CEnds(r, c, "alive")
    /\ IF \E c \in Children : child'[r][c] = "none" THEN UNCHANGED ppc ELSE PGoto(r, "setup")
    /\ UNCHANGED <<nameVars, parent, at, running, port, cpc, gogo, pending, given_up, socketVars,
                   spent, logVars>>

\* The parent struct is allocated, and the port bound.
p_setup_parent(r) ==
    /\ PAt(r, "setup") /\ port = NoRun
    /\ port' = r
    /\ PGoto(r, "poll")
    /\ UNCHANGED <<nameVars, parent, at, running, childVars, socketVars, spent, logVars>>

\* Mutant: close_server tears down whatever is there.
CloseAnyway(r, has_parent) == PGoto(r, "kill") /\ UNCHANGED <<parent, log>>
\* An error of setup: the ERROR state calls close_server, which does nothing where there is no
\* parent struct.
CloseAfterError(r, has_parent) ==
    IF has_parent
    THEN PGoto(r, "kill") /\ UNCHANGED <<parent, log>>
    ELSE PExits(r) /\ UNCHANGED ppc

\* A call of setup fails; bind() does while another run has the port.
setup_fails(r) ==
    /\ \/ PAt(r, "fork") /\ Spend("fork") /\ CloseAfterError(r, FALSE)
       \/ PAt(r, "setup") /\ Spend("calloc") /\ CloseAfterError(r, FALSE)
       \/ /\ PAt(r, "setup")
          /\ (port # NoRun /\ UNCHANGED spent) \/ Spend("bind")
          /\ CloseAfterError(r, TRUE)
    /\ UNCHANGED <<nameVars, at, running, port, childVars, socketVars, rows>>

\* setup_process_state fails: there is not even a state object, which close_server dereferences.
setup_crashes(r) ==
    /\ PAt(r, "open") /\ at[r] = 1 /\ Spend("calloc")
    /\ PEnds(r, "killed")
    /\ UNCHANGED <<nameVars, ppc, at, running, port, childVars, socketVars, logVars>>

-----------------------------------------------------------------------------
(* The parent. *)

\* A client's message: p_send_to_child waits for room in the domain socket ...
p_dispatch(r) ==
    /\ PAt(r, "poll") /\ running[r] /\ Spend("message")
    /\ PGoto(r, "sendwait")
    /\ UNCHANGED <<nameVars, parent, at, running, port, childVars, socketVars, logVars>>

p_send_wait(r) ==
    /\ PAt(r, "sendwait")
    /\ sem_wait(r, "domain_write")
    /\ PGoto(r, "send")
    /\ UNCHANGED <<names, sems, parent, at, running, port, childVars, socketVars, spent, logVars>>

\* ... sends; with every child dead nobody has the reading end, and SIGPIPE is not handled ...
p_send_to_child(r) ==
    /\ PAt(r, "send")
    /\ \/ /\ \E c \in Children : child[r][c] = "alive"
          /\ domain' = [domain EXCEPT ![r] = @ + 1]
          /\ PGoto(r, "sent")
          /\ UNCHANGED <<parent, port>>
       \/ /\ \A c \in Children : child[r][c] # "alive"
          /\ PDies(r)
          /\ UNCHANGED <<domain, ppc>>
    /\ UNCHANGED <<nameVars, at, running, childVars, pipe, spent, logVars>>

\* ... and announces what it sent.
p_announce(r) ==
    /\ PAt(r, "sent")
    /\ sem_post(r, "domain_read")
    /\ PGoto(r, "poll")
    /\ UNCHANGED <<names, sems, parent, at, running, port, childVars, socketVars, spent, logVars>>

\* A number is read from the pipe, and then its semaphore posted.
p_read_pipe_reenable_fd(r) ==
    /\ PAt(r, "poll") /\ running[r] /\ pipe[r] > 0
    /\ pipe' = [pipe EXCEPT ![r] = @ - 1]
    /\ PGoto(r, "drained")
    /\ UNCHANGED <<nameVars, parent, at, running, port, childVars, domain, spent, logVars>>

p_post_pipe(r) ==
    /\ PAt(r, "drained")
    /\ sem_post(r, "pipe")
    /\ PGoto(r, "poll")
    /\ UNCHANGED <<names, sems, parent, at, running, port, childVars, socketVars, spent, logVars>>

Looping == {"poll", "sendwait", "send", "sent", "drained"}

\* SIGINT to a parent in its loop clears the flag; EINTR gives up a wait that blocks, with
\* nothing sent.
p_end_gogo_handler(r) ==
    /\ parent[r] = "alive" /\ running[r] /\ ppc[r] \in Looping
    /\ \/ UNCHANGED ppc
       \/ ppc[r] = "sendwait" /\ Object(r, "domain_write") = 0 /\ PGoto(r, "poll")
    /\ running' = [running EXCEPT ![r] = FALSE]
    /\ UNCHANGED <<nameVars, parent, at, port, childVars, socketVars, spent, logVars>>

\* The loop ends, and the parent tears down: it signals the children ...
p_signal_children(r) ==
    /\ PAt(r, "kill") \/ (PAt(r, "poll") /\ ~running[r])
    /\ pending' = [pending EXCEPT ![r] = {c \in Children : child[r][c] = "alive"}]
    /\ PGoto(r, "reap")
    /\ UNCHANGED <<nameVars, parent, at, running, port, child, cpc, gogo, given_up, socketVars,
                   spent, logVars>>

\* Mutant: waitpid() with WNOHANG.
AnyChildren(r) == TRUE
ChildrenGone(r) == \A c \in Children \ given_up[r] : child[r][c] # "alive"

\* ... waits for one after another and closes its files ...
p_waitpid(r) ==
    /\ PAt(r, "reap") /\ ChildrenGone(r)
    /\ port' = PortAfter(r)
    /\ PGoto(r, "unlink")
    /\ UNCHANGED <<nameVars, parent, at, running, childVars, socketVars, spent, logVars>>

\* A further SIGINT: EINTR gives up a wait for room, or ends the waitpid() for a child, which is
\* not repeated.  Any child still waited for may be the one.
p_interrupted(r) ==
    /\ parent[r] = "alive" /\ ~running[r] /\ Spend("signal")
    /\ \/ /\ ppc[r] = "sendwait" /\ Object(r, "domain_write") = 0
          /\ PGoto(r, "poll") /\ UNCHANGED given_up
       \/ /\ ppc[r] = "reap"
          /\ \E c \in Children \ given_up[r] :
                child[r][c] = "alive" /\ given_up' = [given_up EXCEPT ![r] = @ \cup {c}]
          /\ UNCHANGED ppc
    /\ UNCHANGED <<nameVars, parent, at, running, port, child, cpc, gogo, pending, socketVars,
                   logVars>>

\* Mutant: the last name is forgotten.
UnlinkedButLog(s) == IF s = "log" THEN names[s] ELSE NoRun
Unlinked(s) == NoRun

\* ... and unlinks the four names, whosever they are.
unlink_semaphores(r) ==
    /\ PAt(r, "unlink")
    /\ names' = [names EXCEPT ![Order[at[r]]] = Unlinked(Order[at[r]])]
    /\ IF at[r] < 4
       THEN at' = [at EXCEPT ![r] = @ + 1] /\ UNCHANGED ppc
       ELSE PGoto(r, "exit") /\ UNCHANGED at
    /\ UNCHANGED <<value, sems, parent, running, port, childVars, socketVars, spent, logVars>>

p_exit(r) ==
    /\ PAt(r, "exit") /\ PExits(r)
    /\ UNCHANGED <<nameVars, ppc, at, running, port, childVars, socketVars, spent, rows>>

-----------------------------------------------------------------------------
(* The children. *)

c_setup_child(r, c) ==
    /\ CAt(r, c, "start")
    /\ \/ CGoto(r, c, "getwait") /\ UNCHANGED spent
       \/ CGoto(r, c, "served") /\ Spend("calloc")
    /\ UNCHANGED <<nameVars, parentVars, child, gogo, pending, given_up, socketVars, logVars>>

\* c_get_file_description_from_domain_socket: the semaphore says there is a message ...
c_read_wait(r, c) ==
    /\ CAt(r, c, "getwait")
    /\ sem_wait(r, "domain_read")
    /\ CGoto(r, c, "recv")
    /\ UNCHANGED <<names, sems, parentVars, child, gogo, pending, given_up, socketVars, spent,
                   logVars>>

\* ... and recvmsg() takes it, or returns 0 when there is none and never will be ...
c_recvmsg(r, c) ==
    /\ CAt(r, c, "recv")
    /\ \/ /\ domain[r] > 0 /\ domain' = [domain EXCEPT ![r] = @ - 1]
          /\ CGoto(r, c, "room")
       \/ /\ domain[r] = 0 /\ ~ParentEndsOpen(r) /\ UNCHANGED domain
          /\ CGoto(r, c, "eof")
    /\ UNCHANGED <<nameVars, parentVars, child, gogo, pending, given_up, pipe, spent, logVars>>

\* Mutant: there is room only after a message was received.
RoomAfterMessage(r, received) ==
    IF received THEN sem_post(r, "domain_write") ELSE UNCHANGED value
RoomAfter(r, received) == sem_post(r, "domain_write")

\* ... after which there is room for another, whatever it returned.  getpeername() or a later
\* call on the connection may fail; after 0 CMSG_FIRSTHDR is null, and dereferenced; after an
\* error the child gives up.
c_post_room(r, c) ==
    /\ child[r][c] = "alive"
    /\ \/ /\ cpc[r][c] = "room" /\ RoomAfter(r, TRUE) /\ UNCHANGED child
          /\ \/ CGoto(r, c, "pipewait") /\ UNCHANGED spent
             \/ CGoto(r, c, "served") /\ Spend("getpeername")
       \/ /\ cpc[r][c] = "eof" /\ RoomAfter(r, FALSE) /\ UNCHANGED spent
          /\ CGoto(r, c, "starved") /\ CEnds(r, c, "killed")
       \/ /\ cpc[r][c] = "failed" /\ RoomAfter(r, FALSE) /\ UNCHANGED <<child, spent>>
          /\ CGoto(r, c, "starved")
    /\ UNCHANGED <<names, sems, parentVars, gogo, pending, given_up, socketVars, logVars>>

\* The pipe's semaphore is taken ...
c_pipe_wait(r, c) ==
    /\ CAt(r, c, "pipewait")
    /\ sem_wait(r, "pipe")
    /\ CGoto(r, c, "write")
    /\ UNCHANGED <<names, sems, parentVars, child, gogo, pending, given_up, socketVars, spent,
                   logVars>>

\* ... and the number written; without a reading end, SIGPIPE.
c_inform_parent_recv_finished(r, c) ==
    /\ CAt(r, c, "write")
    /\ \/ /\ ParentEndsOpen(r)
          /\ pipe' = [pipe EXCEPT ![r] = @ + 1]
          /\ CGoto(r, c, "logwait") /\ UNCHANGED child
       \/ /\ ~ParentEndsOpen(r)
          /\ CEnds(r, c, "killed") /\ UNCHANGED <<cpc, pipe>>
    /\ UNCHANGED <<nameVars, parentVars, gogo, pending, given_up, domain, spent, logVars>>

c_log_wait(r, c) ==
    /\ CAt(r, c, "logwait")
    /\ sem_wait(r, "log")
    /\ CGoto(r, c, "logging")
    /\ UNCHANGED <<names, sems, parentVars, child, gogo, pending, given_up, socketVars, spent,
                   logVars>>

\* The row is printed into the buffer, the semaphore posted, and the client answered: to be
\* killed in between is to be killed before, for the row is lost and the semaphore kept.
c_log(r, c) ==
    /\ CAt(r, c, "logging")
    /\ sem_post(r, "log")
    /\ rows' = [rows EXCEPT ![r][c] = @ + 1]
    /\ CGoto(r, c, IF gogo[r][c] THEN "getwait" ELSE "served")
    /\ UNCHANGED <<names, sems, parentVars, child, gogo, pending, given_up, socketVars, spent, log>>

\* A child that has left its loop ends by itself.
c_exit(r, c) ==
    /\ CAt(r, c, "served") \/ CAt(r, c, "starved")
    /\ CEnds(r, c, "exited") /\ log' = Flushed(r, rows[r][c])
    /\ UNCHANGED <<nameVars, parentVars, cpc, gogo, pending, given_up, socketVars, spent, rows>>

-----------------------------------------------------------------------------
(* Signals from the parent, and kills. *)

Delivered(r, c) ==
    /\ c \in pending[r] /\ child[r][c] = "alive"
    /\ pending' = [pending EXCEPT ![r] = @ \ {c}]

\* A child that has not set its handlers dies; any other clears its flag.
c_end_gogo_handler(r, c) ==
    /\ Delivered(r, c)
    /\ \/ cpc[r][c] = "start" /\ CEnds(r, c, "killed") /\ UNCHANGED gogo
       \/ cpc[r][c] # "start" /\ gogo' = [gogo EXCEPT ![r][c] = FALSE] /\ UNCHANGED child
    /\ UNCHANGED <<nameVars, parentVars, cpc, given_up, socketVars, spent, logVars>>

\* EINTR: while waiting for work the child leaves its loop; a wait for the pipe or the log is
\* given up and the child goes on without it; a recvmsg() that blocks fails.
c_interrupted(r, c) ==
    /\ Delivered(r, c)
    /\ gogo' = [gogo EXCEPT ![r][c] = FALSE]
    /\ \/ cpc[r][c] = "getwait" /\ Object(r, "domain_read") = 0 /\ CGoto(r, c, "served")
       \/ cpc[r][c] = "recv" /\ domain[r] = 0 /\ ParentEndsOpen(r) /\ CGoto(r, c, "failed")
       \/ cpc[r][c] = "pipewait" /\ Object(r, "pipe") = 0 /\ CGoto(r, c, "logwait")
       \/ cpc[r][c] = "logwait" /\ Object(r, "log") = 0 /\ CGoto(r, c, "served")
    /\ UNCHANGED <<nameVars, parentVars, child, given_up, socketVars, spent, logVars>>

\* Children that a parent which dies now may have signalled already.
Signalled(r) ==
    IF ppc[r] = "kill" \/ (ppc[r] = "poll" /\ ~running[r])
    THEN {c \in Children : child[r][c] = "alive"} ELSE {}

\* SIGKILL, a crash, or SIGINT before the parent has set its handlers.
kill_process(r) ==
    /\ Spend("kill")
    /\ \/ /\ parent[r] = "alive" /\ PDies(r) /\ UNCHANGED child
          /\ \E S \in SUBSET Signalled(r) : pending' = [pending EXCEPT ![r] = @ \cup S]
       \/ /\ \E c \in Children : child[r][c] = "alive" /\ CEnds(r, c, "killed")
          /\ UNCHANGED <<parent, port, pending>>
    /\ UNCHANGED <<nameVars, ppc, at, running, cpc, gogo, given_up, socketVars, logVars>>

-----------------------------------------------------------------------------
Init ==
    /\ names = [s \in Sems |-> NoRun]
    /\ value = [s \in Sems |-> [r \in Runs |-> 0]]
    /\ sems = [r \in Runs |-> [s \in Sems |-> NoRun]]
    /\ parent = [r \in Runs |-> "none"] /\ ppc = [r \in Runs |-> "open"]
    /\ at = [r \in Runs |-> 1] /\ running = [r \in Runs |-> TRUE] /\ port = NoRun
    /\ child = [r \in Runs |-> [c \in Children |-> "none"]]
    /\ cpc = [r \in Runs |-> [c \in Children |-> "start"]]
    /\ gogo = [r \in Runs |-> [c \in Children |-> TRUE]]
    /\ pending = [r \in Runs |-> {}] /\ given_up = [r \in Runs |-> {}]
    /\ domain = [r \in Runs |-> 0] /\ pipe = [r \in Runs |-> 0] /\ spent = 0
    /\ log = NewLog(NoRun)
    /\ rows = [r \in Runs |-> [c \in Children |-> 0]]

ParentStep(r) ==
    \/ setup_process_server(r) \/ open_semaphores(r)
    \/ fork_child_process(r) \/ p_setup_parent(r) \/ setup_fails(r) \/ setup_crashes(r)
    \/ p_dispatch(r) \/ p_send_wait(r) \/ p_send_to_child(r) \/ p_announce(r)
    \/ p_read_pipe_reenable_fd(r) \/ p_post_pipe(r) \/ p_end_gogo_handler(r)
    \/ p_signal_children(r) \/ p_waitpid(r) \/ p_interrupted(r)
    \/ unlink_semaphores(r) \/ p_exit(r)

ChildStep(r, c) ==
    \/ c_setup_child(r, c)
    \/ c_read_wait(r, c) \/ c_recvmsg(r, c) \/ c_post_room(r, c)
    \/ c_pipe_wait(r, c) \/ c_inform_parent_recv_finished(r, c)
    \/ c_log_wait(r, c) \/ c_log(r, c) \/ c_exit(r, c)
    \/ c_end_gogo_handler(r, c) \/ c_interrupted(r, c)

Next ==
    \E r \in Runs :
        ParentStep(r) \/ (\E c \in Children : ChildStep(r, c)) \/ kill_process(r)

Spec == Init /\ [][Next]_vars

-----------------------------------------------------------------------------
(* Properties. *)

ChildPlaces ==
    {"start", "getwait", "recv", "room", "eof", "failed", "starved", "pipewait", "write",
     "logwait", "logging", "served"}
Ended == {"alive", "exited", "killed", "none"}

NameTypeOK ==
    /\ names \in [Sems -> Runs \cup {NoRun}]
    /\ value \in [Sems -> [Runs -> Nat]]
    /\ sems \in [Runs -> [Sems -> Runs \cup {NoRun}]]
ParentTypeOK ==
    /\ parent \in [Runs -> Ended]
    /\ ppc \in [Runs -> Looping \cup {"open", "fork", "setup", "kill", "reap", "unlink", "exit"}]
    /\ at \in [Runs -> 1 .. 4]
    /\ running \in [Runs -> BOOLEAN] /\ port \in Runs \cup {NoRun}
ChildTypeOK ==
    /\ child \in [Runs -> [Children -> Ended]]
    /\ cpc \in [Runs -> [Children -> ChildPlaces]]
    /\ gogo \in [Runs -> [Children -> BOOLEAN]]
    /\ pending \in [Runs -> SUBSET Children] /\ given_up \in [Runs -> SUBSET Children]
SocketTypeOK == domain \in [Runs -> Nat] /\ pipe \in [Runs -> Nat]
LogTypeOK ==
    /\ log \in [owner : Runs \cup {NoRun}, headers : Nat, rows : Nat]
    /\ rows \in [Runs -> [Children -> Nat]]

\* Every variable has its type.
TypeOK ==
    /\ NameTypeOK /\ ParentTypeOK /\ ChildTypeOK /\ SocketTypeOK /\ LogTypeOK
    /\ spent \in 0 .. Budget

\* The runs that opened semaphore s of run o, and their children at certain places.
Users(s, o) == {r \in Runs : sems[r][s] = o}
ChildrenAt(U, places) == {x \in U \X Children : cpc[x[1]][x[2]] \in places}
ParentsAt(U, place) == {r \in U : ppc[r] = place}
\* What f counts, for each member of S.
Total(f, S) == Cardinality({x \in S \X (1 .. Budget) : x[2] <= f[x[1]]})

\* Wherever processes are killed, a message in a domain socket is announced by the read
\* semaphore, except for one whose sender has not announced it yet, and except for what a process
\* took with it: one that has the semaphore and no message yet, or an orphan of another run, which
\* found no message of its own; and there is room for one message, which a sender about to send,
\* a message, or a receiver that has not posted yet has taken, or one more for each such orphan.
MessagesAnnounced ==
    \A o \in Runs :
        LET R == Users("domain_read", o)
            W == Users("domain_write", o)
            recv == Cardinality(ChildrenAt(R, {"recv", "eof", "failed", "starved"}))
            sent == Cardinality(ParentsAt(R, "sent"))
            send == Cardinality(ParentsAt(W, "send"))
            room == Cardinality(ChildrenAt(W, {"room"}))
            starved == Cardinality(ChildrenAt(W, {"starved"}))
        IN  /\ R # {} => Total(domain, R) = value["domain_read"][o] + recv + sent
            /\ W # {} => value["domain_write"][o] + send + Total(domain, W) + room = 1 + starved

\* A semaphore of value 1, or one holder.
OneHolder(v, H) == (v = 1 /\ H = {}) \/ (v = 0 /\ \E h \in H : H = {h})

\* Whatever runs share them and wherever processes are killed, the pipe semaphore is taken by one
\* number in one pipe, by the child that has yet to write it or by the parent that has read it and
\* not posted, and the log semaphore by one child; a holder that is dead keeps what it has.
LocksConserved ==
    \A o \in Runs :
        LET P == Users("pipe", o)
            L == Users("log", o)
            full == {<<r>> : r \in {q \in P : pipe[q] = 1}}
            drained == {<<r, NoRun>> : r \in ParentsAt(P, "drained")}
        IN  /\ P # {} => /\ \A r \in P : pipe[r] <= 1
                         /\ OneHolder(value["pipe"][o],
                                      full \cup ChildrenAt(P, {"write"}) \cup drained)
            /\ L # {} => OneHolder(value["log"][o], ChildrenAt(L, {"logging"}))

\* Setup was given up half way, where there is no parent struct.
Abandoned(r) == parent[r] = "exited" /\ ppc[r] \in {"fork", "setup"}

\* A semaphore is left behind only by a run that was killed or gave its setup up.
NamesLeftByFailure ==
    \A s \in Sems : names[s] # NoRun =>
        parent[names[s]] \in {"alive", "killed"} \/ Abandoned(names[s])

\* The parent has closed its files, or is gone.
PastItsFiles(r) == parent[r] # "alive" \/ ppc[r] \in {"unlink", "exit"}

\* A child outlives its parent's files only when the parent was killed, gave its setup up, or had
\* its waitpid() for that very child ended by a signal; this last orphan has been told to stop.
OrphansAccountedFor ==
    \A r \in Runs, c \in Children :
        child[r][c] = "alive" /\ PastItsFiles(r) =>
            \/ parent[r] = "killed" \/ Abandoned(r)
            \/ c \in given_up[r] /\ (c \in pending[r] \/ ~gogo[r][c])

\* p_destroy_parent_state signals processes it has forked, and never process 0, its own group.
KillsOnlyChildren ==
    \A r \in Runs : ppc[r] = "kill" => \A c \in Children : child[r][c] # "none"

\* The log of a run to which no other run wrote has one header for each of its processes that
\* ended by itself, and each row of those once.
LogAccounts ==
    log.owner # NoRun =>
        LET r == log.owner
            gone == {c \in Children : child[r][c] = "exited"}
        IN  /\ log.headers = Cardinality(gone) + (IF parent[r] = "exited" THEN 1 ELSE 0)
            /\ log.rows = Total(rows[r], gone)
=============================================================================
