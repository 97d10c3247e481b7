-------------------------- MODULE ProcessRunsProofs --------------------------
(***************************************************************************)
(* Proofs about ProcessRuns, for any number of runs and of children, and   *)
(* any budget.                                                             *)
(***************************************************************************)
EXTENDS ProcessRuns, TLAPS

LEMMA SemNames == Sems = {"pipe", "domain_read", "domain_write", "log"}
                  /\ \A i \in 1 .. 4 : Order[i] \in Sems
<1>1. \A i \in 1 .. 4 : i = 1 \/ i = 2 \/ i = 3 \/ i = 4
  OBVIOUS
<1> QED
  BY <1>1 DEF Sems, Order

(***************************************************************************)
(* Types.                                                                  *)
(***************************************************************************)

\* wait and post keep a semaphore's value natural.
LEMMA SemTypes ==
    ASSUME NameTypeOK, NEW r \in Runs, NEW s \in Sems,
           sem_wait(r, s) \/ sem_post(r, s), UNCHANGED <<names, sems>>
    PROVE  NameTypeOK'
<1> USE DEF NameTypeOK
<1>1. value \in [Sems -> [Runs -> Nat]] /\ sems[r][s] \in Runs \cup {NoRun}
  OBVIOUS
<1>2. CASE sems[r][s] \in Runs
  <2>1. Object(r, s) \in Nat
    BY <1>1, <1>2 DEF Object
  <2>2. PICK n \in Nat : value' = [value EXCEPT ![s][sems[r][s]] = n]
    BY <2>1 DEF sem_wait, sem_post, SetObject
  <2> QED
    BY <2>2, <1>1
<1>3. CASE sems[r][s] \notin Runs
  <2>1. PICK n : value' = [value EXCEPT ![s][sems[r][s]] = n]
    BY DEF sem_wait, sem_post, SetObject
  <2>2. [value[s] EXCEPT ![sems[r][s]] = n] \in [Runs -> Nat]
    <3>1. ASSUME NEW g \in [Runs -> Nat], NEW o, o \notin Runs
          PROVE  [g EXCEPT ![o] = n] \in [Runs -> Nat]
      BY <3>1
    <3>2. value[s] \in [Runs -> Nat]
      BY <1>1
    <3> QED
      BY <1>3, <3>1, <3>2
  <2> QED
    BY <2>1, <2>2, <1>1
<1> QED
  BY <1>2, <1>3

\* A function of two arguments, changed at one place.
LEMMA ChangedAt ==
    ASSUME NEW S, NEW T, NEW V, NEW f \in [S -> [T -> V]], NEW a \in S, NEW b \in T, NEW v \in V
    PROVE  /\ [f EXCEPT ![a][b] = v] \in [S -> [T -> V]]
           /\ \A x \in S, y \in T :
                 [f EXCEPT ![a][b] = v][x][y] = IF x = a /\ y = b THEN v ELSE f[x][y]
<1>1. [f[a] EXCEPT ![b] = v] \in [T -> V]
  OBVIOUS
<1>2. \A y \in T : [f[a] EXCEPT ![b] = v][y] = IF y = b THEN v ELSE f[a][y]
  OBVIOUS
<1> QED
  BY <1>1, <1>2

LEMMA LogTypes ==
    ASSUME LogTypeOK, NEW r \in Runs, NEW n \in Nat
    PROVE  Flushed(r, n) \in [owner : Runs \cup {NoRun}, headers : Nat, rows : Nat]
<1>1. log.owner \in Runs \cup {NoRun} /\ log.headers \in Nat /\ log.rows \in Nat
  BY DEF LogTypeOK
<1>2. log = [owner |-> log.owner, headers |-> log.headers, rows |-> log.rows]
  BY DEF LogTypeOK
<1>3. log.owner = r =>
        Flushed(r, n) = [owner |-> log.owner, headers |-> log.headers + 1, rows |-> log.rows + n]
  BY <1>2 DEF Flushed
<1>4. log.owner # r => Flushed(r, n) = [owner |-> NoRun, headers |-> 0, rows |-> 0]
  BY DEF Flushed, NewLog
<1>5. log.headers + 1 \in Nat /\ log.rows + n \in Nat
  BY <1>1
<1> QED
  BY <1>1, <1>3, <1>4, <1>5

LEMMA SpentTypes == ASSUME TypeOK, NEW e \in Events, Spend(e) PROVE spent' \in 0 .. Budget
<1>1. spent \in 0 .. Budget /\ Budget \in Nat /\ Cost[e] \in Nat \ {0}
  BY BudgetAssumption DEF TypeOK
<1>2. spent' = spent + Cost[e] /\ spent + Cost[e] <= Budget
  BY DEF Spend
<1> QED
  BY <1>1, <1>2

LEMMA InitTypes == Init => TypeOK
<1> SUFFICES ASSUME Init PROVE TypeOK
  OBVIOUS
<1> USE DEF Init
<1>1. NameTypeOK /\ SocketTypeOK
  BY DEF NameTypeOK, SocketTypeOK
<1>2. ParentTypeOK
  BY DEF ParentTypeOK, Ended
<1>3. ChildTypeOK
  BY DEF ChildTypeOK, ChildPlaces, Ended
<1>4. LogTypeOK
  BY DEF LogTypeOK, NewLog
<1>5. spent \in 0 .. Budget
  BY BudgetAssumption
<1> QED
  BY <1>1, <1>2, <1>3, <1>4, <1>5 DEF TypeOK

LEMMA NameTypesKept == TypeOK /\ [Next]_vars => NameTypeOK'
<1> SUFFICES ASSUME TypeOK, [Next]_vars PROVE NameTypeOK'
  OBVIOUS
<1> USE DEF TypeOK
<1>1. CASE UNCHANGED vars
  BY <1>1 DEF vars, nameVars, NameTypeOK
<1>2. ASSUME NEW r \in Runs, open_semaphores(r) PROVE NameTypeOK'
  <2>1. at[r] \in 1 .. 4
    BY DEF ParentTypeOK
  <2> DEFINE s == Order[at[r]]
             o == Opened(r, s)
  <2>2. s \in Sems
    BY <2>1, SemNames
  <2>3. o \in Runs
    BY <2>2 DEF NameTypeOK, Opened
  <2>4. ValueOpened(r, s) \in Nat
    BY <2>2, RunsAssumption DEF NameTypeOK, ValueOpened, InitialValue
  <2>5. CASE UNCHANGED nameVars
    BY <2>5 DEF NameTypeOK, nameVars
  <2>6. CASE /\ names' = [names EXCEPT ![s] = o]
             /\ sems' = [sems EXCEPT ![r][s] = o]
             /\ value' = [value EXCEPT ![s][o] = ValueOpened(r, s)]
    BY <2>2, <2>3, <2>4, <2>6 DEF NameTypeOK
  <2> QED
    BY <1>2, <2>5, <2>6 DEF open_semaphores
<1>3. ASSUME NEW r \in Runs, unlink_semaphores(r) PROVE NameTypeOK'
  BY <1>3 DEF unlink_semaphores, Unlinked, NameTypeOK
<1>4. ASSUME NEW r \in Runs, p_send_wait(r) \/ p_announce(r) \/ p_post_pipe(r) PROVE NameTypeOK'
  BY <1>4, SemNames, SemTypes DEF p_send_wait, p_announce, p_post_pipe
<1>5. ASSUME NEW r \in Runs, NEW c \in Children, ChildStep(r, c) PROVE NameTypeOK'
  <2>1. CASE c_read_wait(r, c)
    BY <2>1, SemNames, SemTypes DEF c_read_wait
  <2>2. CASE c_post_room(r, c)
    BY <2>2, SemNames, SemTypes DEF c_post_room, RoomAfter
  <2>3. CASE c_pipe_wait(r, c)
    BY <2>3, SemNames, SemTypes DEF c_pipe_wait
  <2>4. CASE c_log_wait(r, c) \/ c_log(r, c)
    BY <2>4, SemNames, SemTypes DEF c_log_wait, c_log
  <2>5. CASE UNCHANGED nameVars
    BY <2>5 DEF nameVars, NameTypeOK
  <2> QED
    BY <1>5, <2>1, <2>2, <2>3, <2>4, <2>5
    DEF ChildStep, c_setup_child, c_recvmsg, c_inform_parent_recv_finished, c_exit,
        c_end_gogo_handler, c_interrupted
<1>6. ASSUME NEW r \in Runs,
             \/ setup_process_server(r) \/ fork_child_process(r) \/ p_setup_parent(r)
             \/ setup_fails(r) \/ setup_crashes(r) \/ p_dispatch(r) \/ p_send_to_child(r)
             \/ p_read_pipe_reenable_fd(r) \/ p_end_gogo_handler(r) \/ p_signal_children(r)
             \/ p_waitpid(r) \/ p_interrupted(r) \/ p_exit(r) \/ kill_process(r)
      PROVE NameTypeOK'
  BY <1>6 DEF setup_process_server, fork_child_process, p_setup_parent, setup_fails, setup_crashes,
              p_dispatch, p_send_to_child, p_read_pipe_reenable_fd, p_end_gogo_handler,
              p_signal_children, p_waitpid, p_interrupted, p_exit, kill_process, nameVars, NameTypeOK
<1> QED
  BY <1>1, <1>2, <1>3, <1>4, <1>5, <1>6 DEF Next, ParentStep

LEMMA ParentTypesKept == TypeOK /\ [Next]_vars => ParentTypeOK'
<1> SUFFICES ASSUME TypeOK, [Next]_vars PROVE ParentTypeOK'
  OBVIOUS
<1> USE DEF TypeOK, ParentTypeOK, Looping
<1>1. CASE UNCHANGED vars
  BY <1>1 DEF vars, parentVars
<1>2. ASSUME NEW r \in Runs, ParentStep(r) PROVE ParentTypeOK'
  <2> USE DEF PGoto, PEnds, PExits, PDies, PortAfter, Ended
  <2>1. CASE setup_process_server(r) \/ open_semaphores(r)
    BY <2>1 DEF setup_process_server, open_semaphores
  <2>2. CASE fork_child_process(r) \/ p_setup_parent(r)
    BY <2>2 DEF fork_child_process, p_setup_parent
  <2>3. CASE setup_fails(r) \/ setup_crashes(r)
    BY <2>3 DEF setup_fails, setup_crashes, CloseAfterError
  <2>4. CASE p_dispatch(r) \/ p_send_wait(r) \/ p_send_to_child(r) \/ p_announce(r)
    BY <2>4 DEF p_dispatch, p_send_wait, p_send_to_child, p_announce
  <2>5. CASE p_read_pipe_reenable_fd(r) \/ p_post_pipe(r) \/ p_end_gogo_handler(r)
    BY <2>5 DEF p_read_pipe_reenable_fd, p_post_pipe, p_end_gogo_handler
  <2>6. CASE p_signal_children(r) \/ p_waitpid(r) \/ p_interrupted(r) \/ unlink_semaphores(r)
             \/ p_exit(r)
    BY <2>6 DEF p_signal_children, p_waitpid, p_interrupted, unlink_semaphores, p_exit
  <2> QED
    BY <1>2, <2>1, <2>2, <2>3, <2>4, <2>5, <2>6 DEF ParentStep
<1>3. ASSUME NEW r \in Runs, NEW c \in Children, ChildStep(r, c) PROVE UNCHANGED parentVars
  BY <1>3 DEF ChildStep, c_setup_child, c_read_wait, c_recvmsg, c_post_room, c_pipe_wait,
              c_inform_parent_recv_finished, c_log_wait, c_log, c_exit, c_end_gogo_handler,
              c_interrupted
<1>4. ASSUME NEW r \in Runs, kill_process(r) PROVE ParentTypeOK'
  BY <1>4 DEF kill_process, PDies, PEnds, PortAfter, Ended
<1> QED
  BY <1>1, <1>2, <1>3, <1>4 DEF Next, parentVars

LEMMA ChildTypesKept == TypeOK /\ [Next]_vars => ChildTypeOK'
<1> SUFFICES ASSUME TypeOK, [Next]_vars PROVE ChildTypeOK'
  OBVIOUS
<1> USE DEF TypeOK, ChildTypeOK
<1>1. CASE UNCHANGED vars
  BY <1>1 DEF vars, childVars
<1>2. ASSUME NEW r \in Runs, ParentStep(r) PROVE ChildTypeOK'
  <2>1. CASE fork_child_process(r)
    <3>1. ASSUME NEW c \in Children
          PROVE  [child EXCEPT ![r][c] = "alive"] \in [Runs -> [Children -> Ended]]
      BY ChangedAt DEF Ended
    <3> QED
      BY <2>1, <3>1 DEF fork_child_process, CEnds
  <2>2. CASE p_signal_children(r)
    BY <2>2 DEF p_signal_children
  <2>4. CASE p_interrupted(r)
    <3>1. UNCHANGED <<child, cpc, gogo, pending>>
      BY <2>4 DEF p_interrupted
    <3>2. \/ UNCHANGED given_up
          \/ \E c \in Children : given_up' = [given_up EXCEPT ![r] = @ \cup {c}]
      BY <2>4 DEF p_interrupted
    <3>3. given_up' \in [Runs -> SUBSET Children]
      BY <3>2
    <3> QED
      BY <3>1, <3>3
  <2>3. CASE UNCHANGED childVars
    BY <2>3 DEF childVars
  <2> QED
    BY <1>2, <2>1, <2>2, <2>3, <2>4
    DEF ParentStep, setup_process_server, open_semaphores, p_setup_parent, setup_fails,
        setup_crashes, p_dispatch, p_send_wait, p_send_to_child, p_announce,
        p_read_pipe_reenable_fd, p_post_pipe, p_end_gogo_handler, p_waitpid, unlink_semaphores,
        p_exit
<1>3. ASSUME NEW r \in Runs, NEW c \in Children, ChildStep(r, c) PROVE ChildTypeOK'
  <2>1. \/ UNCHANGED child
        \/ \E how \in Ended : CEnds(r, c, how)
    BY <1>3 DEF ChildStep, c_setup_child, c_read_wait, c_recvmsg, c_post_room, c_pipe_wait,
              c_inform_parent_recv_finished, c_log_wait, c_log, c_exit, c_end_gogo_handler,
              c_interrupted, Ended
  <2>2. UNCHANGED cpc \/ \E pc \in ChildPlaces : CGoto(r, c, pc)
    BY <1>3 DEF ChildPlaces, ChildStep, c_setup_child, c_read_wait, c_recvmsg, c_post_room, c_pipe_wait,
              c_inform_parent_recv_finished, c_log_wait, c_log, c_exit, c_end_gogo_handler,
              c_interrupted
  <2>0. UNCHANGED given_up
    BY <1>3 DEF ChildStep, c_setup_child, c_read_wait, c_recvmsg, c_post_room, c_pipe_wait,
              c_inform_parent_recv_finished, c_log_wait, c_log, c_exit, c_end_gogo_handler,
              c_interrupted
  <2>3. \/ UNCHANGED <<gogo, pending>>
        \/ /\ UNCHANGED gogo \/ gogo' = [gogo EXCEPT ![r][c] = FALSE]
           /\ pending' = [pending EXCEPT ![r] = @ \ {c}]
    BY <1>3 DEF ChildStep, c_setup_child, c_read_wait, c_recvmsg, c_post_room, c_pipe_wait,
              c_inform_parent_recv_finished, c_log_wait, c_log, c_exit, c_end_gogo_handler,
              c_interrupted, Delivered
  <2>4. child' \in [Runs -> [Children -> Ended]]
    <3>1. ASSUME NEW how \in Ended PROVE [child EXCEPT ![r][c] = how] \in [Runs -> [Children -> Ended]]
      BY ChangedAt
    <3> QED
      BY <2>1, <3>1 DEF CEnds
  <2>5. cpc' \in [Runs -> [Children -> ChildPlaces]]
    <3>1. ASSUME NEW pc \in ChildPlaces
          PROVE  [cpc EXCEPT ![r][c] = pc] \in [Runs -> [Children -> ChildPlaces]]
      BY ChangedAt
    <3> QED
      BY <2>2, <3>1 DEF CGoto
  <2>6. gogo' \in [Runs -> [Children -> BOOLEAN]]
    <3>1. [gogo EXCEPT ![r][c] = FALSE] \in [Runs -> [Children -> BOOLEAN]]
      BY ChangedAt
    <3> QED
      BY <2>3, <3>1
  <2>7. pending' \in [Runs -> SUBSET Children]
    BY <2>3
  <2> QED
    BY <2>4, <2>5, <2>6, <2>7, <2>0
<1>4. ASSUME NEW r \in Runs, kill_process(r) PROVE ChildTypeOK'
  <2>1. UNCHANGED child \/ \E c \in Children : CEnds(r, c, "killed")
    BY <1>4 DEF kill_process
  <2>2. child' \in [Runs -> [Children -> Ended]]
    <3>1. "killed" \in Ended
      BY DEF Ended
    <3>2. ASSUME NEW c \in Children
          PROVE  [child EXCEPT ![r][c] = "killed"] \in [Runs -> [Children -> Ended]]
      BY <3>1, ChangedAt
    <3> QED
      BY <2>1, <3>2 DEF CEnds
  <2>3. pending' \in [Runs -> SUBSET Children]
    BY <1>4 DEF kill_process, Signalled
  <2> QED
    BY <1>4, <2>2, <2>3 DEF kill_process
<1> QED
  BY <1>1, <1>2, <1>3, <1>4 DEF Next

LEMMA SocketTypesKept == TypeOK /\ [Next]_vars => SocketTypeOK'
<1> SUFFICES ASSUME TypeOK, [Next]_vars PROVE SocketTypeOK'
  OBVIOUS
<1> USE DEF TypeOK, SocketTypeOK
<1>1. CASE UNCHANGED vars
  BY <1>1 DEF vars, socketVars
<1>2. ASSUME NEW r \in Runs, ParentStep(r) PROVE SocketTypeOK'
  <2>1. CASE p_send_to_child(r) \/ p_read_pipe_reenable_fd(r)
    BY <2>1 DEF p_send_to_child, p_read_pipe_reenable_fd
  <2>2. CASE UNCHANGED socketVars
    BY <2>2 DEF socketVars
  <2> QED
    BY <1>2, <2>1, <2>2
    DEF ParentStep, setup_process_server, open_semaphores, fork_child_process, p_setup_parent,
        setup_fails, setup_crashes, p_dispatch, p_send_wait, p_announce, p_post_pipe,
        p_end_gogo_handler, p_signal_children, p_waitpid, p_interrupted, unlink_semaphores, p_exit
<1>3. ASSUME NEW r \in Runs, NEW c \in Children, ChildStep(r, c) PROVE SocketTypeOK'
  <2>1. CASE c_recvmsg(r, c)
    BY <2>1 DEF c_recvmsg
  <2>2. CASE c_inform_parent_recv_finished(r, c)
    BY <2>2 DEF c_inform_parent_recv_finished
  <2>3. CASE UNCHANGED socketVars
    BY <2>3 DEF socketVars
  <2> QED
    BY <1>3, <2>1, <2>2, <2>3
    DEF ChildStep, c_setup_child, c_read_wait, c_post_room, c_pipe_wait, c_log_wait, c_log, c_exit,
        c_end_gogo_handler, c_interrupted
<1>4. ASSUME NEW r \in Runs, kill_process(r) PROVE SocketTypeOK'
  BY <1>4 DEF kill_process, socketVars
<1> QED
  BY <1>1, <1>2, <1>3, <1>4 DEF Next

LEMMA LogTypesKept == TypeOK /\ [Next]_vars => LogTypeOK'
<1> SUFFICES ASSUME TypeOK, [Next]_vars PROVE LogTypeOK'
  OBVIOUS
<1> USE DEF TypeOK
<1>1. CASE UNCHANGED logVars
  BY <1>1 DEF logVars, LogTypeOK
<1>2. ASSUME NEW r \in Runs, setup_process_server(r) PROVE LogTypeOK'
  BY <1>2 DEF setup_process_server, NewLog, LogTypeOK
<1>3. ASSUME NEW r \in Runs, NEW n \in Nat, log' = Flushed(r, n), UNCHANGED rows PROVE LogTypeOK'
  BY <1>3, LogTypes DEF LogTypeOK
<1>4. ASSUME NEW r \in Runs, setup_fails(r) \/ p_exit(r) PROVE LogTypeOK'
  BY <1>4, <1>1, <1>3 DEF setup_fails, CloseAfterError, p_exit, PExits, logVars
<1>5. ASSUME NEW r \in Runs, NEW c \in Children, ChildStep(r, c) PROVE LogTypeOK'
  <2>1. rows[r][c] \in Nat
    BY DEF LogTypeOK
  <2>2. CASE c_log(r, c)
    BY <2>1, <2>2 DEF c_log, LogTypeOK
  <2>3. CASE c_exit(r, c)
    BY <2>1, <2>3, <1>3 DEF c_exit
  <2>4. CASE ~c_log(r, c) /\ ~c_exit(r, c)
    BY <1>1, <1>5, <2>4
    DEF ChildStep, c_setup_child, c_read_wait, c_recvmsg, c_post_room, c_pipe_wait,
        c_inform_parent_recv_finished, c_log_wait, c_end_gogo_handler, c_interrupted, logVars
  <2> QED
    BY <2>2, <2>3, <2>4
<1>6. ASSUME NEW r \in Runs,
             \/ open_semaphores(r) \/ fork_child_process(r) \/ p_setup_parent(r) \/ setup_crashes(r)
             \/ p_dispatch(r) \/ p_send_wait(r) \/ p_send_to_child(r) \/ p_announce(r)
             \/ p_read_pipe_reenable_fd(r) \/ p_post_pipe(r) \/ p_end_gogo_handler(r)
             \/ p_signal_children(r) \/ p_waitpid(r) \/ p_interrupted(r) \/ unlink_semaphores(r)
             \/ kill_process(r)
      PROVE UNCHANGED logVars
  BY <1>6 DEF open_semaphores, fork_child_process, p_setup_parent, setup_crashes, p_dispatch,
              p_send_wait, p_send_to_child, p_announce, p_read_pipe_reenable_fd, p_post_pipe,
              p_end_gogo_handler, p_signal_children, p_waitpid, p_interrupted, unlink_semaphores,
              kill_process, logVars
<1> QED
  BY <1>1, <1>2, <1>4, <1>5, <1>6 DEF Next, ParentStep, vars

LEMMA SpentKept == TypeOK /\ [Next]_vars => spent' \in 0 .. Budget
<1> SUFFICES ASSUME TypeOK, [Next]_vars PROVE spent' \in 0 .. Budget
  OBVIOUS
<1>1. CASE spent' = spent
  BY <1>1 DEF TypeOK
<1>2. CASE \E e \in Events : Spend(e)
  BY <1>2, SpentTypes
<1>3. ASSUME NEW r \in Runs, ParentStep(r) PROVE spent' = spent \/ \E e \in Events : Spend(e)
  BY <1>3 DEF Events, ParentStep, setup_process_server, open_semaphores, fork_child_process,
              p_setup_parent, setup_fails, setup_crashes, p_dispatch, p_send_wait, p_send_to_child,
              p_announce, p_read_pipe_reenable_fd, p_post_pipe, p_end_gogo_handler,
              p_signal_children, p_waitpid, p_interrupted, unlink_semaphores, p_exit
<1>4. ASSUME NEW r \in Runs, NEW c \in Children, ChildStep(r, c)
      PROVE  spent' = spent \/ \E e \in Events : Spend(e)
  BY <1>4 DEF Events, ChildStep, c_setup_child, c_read_wait, c_recvmsg, c_post_room, c_pipe_wait,
              c_inform_parent_recv_finished, c_log_wait, c_log, c_exit, c_end_gogo_handler,
              c_interrupted
<1>5. ASSUME NEW r \in Runs, kill_process(r) PROVE \E e \in Events : Spend(e)
  BY <1>5 DEF kill_process, Events
<1> QED
  BY <1>1, <1>2, <1>3, <1>4, <1>5 DEF Next, vars

LEMMA TypesKept == TypeOK /\ [Next]_vars => TypeOK'
  BY NameTypesKept, ParentTypesKept, ChildTypesKept, SocketTypesKept, LogTypesKept, SpentKept
  DEF TypeOK

\* Every variable has its type.
THEOREM TypeCorrect == Spec => []TypeOK
  BY InitTypes, TypesKept, PTL DEF Spec

(***************************************************************************)
(* How far each run is, and what it has opened, forked and unlinked.       *)
(***************************************************************************)

\* Where the parent is once it has forked all its children, until it closes its files.
Forked == Looping \cup {"setup", "kill", "reap"}

LifeOf(r) ==
    /\ parent[r] = "none" => ppc[r] = "open" /\ at[r] = 1
    /\ parent[r] = "exited" => ppc[r] \in {"fork", "setup", "exit"}
    /\ ppc[r] = "open" => pipe[r] = 0 /\ \A c \in Children : child[r][c] = "none"
    /\ ppc[r] \notin {"open", "unlink", "exit"} => at[r] = 1
    /\ ppc[r] \in Forked => \A c \in Children : child[r][c] # "none"
    /\ \A c \in Children : child[r][c] = "none" => cpc[r][c] = "start"

OpenOf(r) ==
    /\ ppc[r] = "open" => \A i \in 1 .. 4 : i >= at[r] => sems[r][Order[i]] = NoRun
    /\ ppc[r] \notin {"open", "unlink", "exit"} \/ (\E c \in Children : child[r][c] # "none") =>
          \A s \in Sems : sems[r][s] # NoRun

\* A child that is alive when its parent waits has been told to stop, and when the parent is past
\* waiting it is one whose wait was given up.
ToldOf(r) ==
    \A c \in Children : child[r][c] = "alive" =>
        /\ ppc[r] \in {"reap", "unlink", "exit"} => c \in pending[r] \/ ~gogo[r][c]
        /\ ppc[r] \in {"unlink", "exit"} => c \in given_up[r]

\* The run that created a semaphore has it open, and has not unlinked its name if the name still
\* stands for it.
Creators ==
    /\ \A s \in Sems : names[s] # NoRun => sems[names[s]][s] = names[s]
    /\ \A r \in Runs, s \in Sems : sems[r][s] # NoRun => sems[sems[r][s]][s] = sems[r][s]
    /\ \A r \in Runs : ppc[r] \in {"unlink", "exit"} =>
          \A i \in 1 .. 4 : i < at[r] \/ ppc[r] = "exit" => names[Order[i]] # r

Life == \A r \in Runs : LifeOf(r) /\ OpenOf(r) /\ ToldOf(r)
IInv == TypeOK /\ Life /\ Creators

(***************************************************************************)
(* The locks, without sets: free and nobody has it, or taken by one.       *)
(***************************************************************************)

HasLog(o, r, c) == sems[r]["log"] = o /\ cpc[r][c] = "logging"
LogLock(o) ==
    \/ /\ value["log"][o] = 1
       /\ \A r \in Runs, c \in Children : ~HasLog(o, r, c)
    \/ /\ value["log"][o] = 0
       /\ \E r \in Runs, c \in Children :
             /\ HasLog(o, r, c)
             /\ \A q \in Runs, d \in Children : HasLog(o, q, d) => q = r /\ d = c

Writes(o, r, c) == sems[r]["pipe"] = o /\ cpc[r][c] = "write"
Filled(o, r) == sems[r]["pipe"] = o /\ pipe[r] # 0
Drained(o, r) == sems[r]["pipe"] = o /\ ppc[r] = "drained"

PipeFree(o) ==
    \A r \in Runs : ~Filled(o, r) /\ ~Drained(o, r) /\ \A c \in Children : ~Writes(o, r, c)
PipeWriter(o) ==
    /\ \A q \in Runs : ~Filled(o, q) /\ ~Drained(o, q)
    /\ \E r \in Runs, c \in Children :
          Writes(o, r, c) /\ \A q \in Runs, d \in Children : Writes(o, q, d) => q = r /\ d = c
PipeFull(o) ==
    /\ \A q \in Runs : ~Drained(o, q) /\ \A d \in Children : ~Writes(o, q, d)
    /\ \E r \in Runs : Filled(o, r) /\ pipe[r] = 1 /\ \A q \in Runs : Filled(o, q) => q = r
PipeReader(o) ==
    /\ \A q \in Runs : ~Filled(o, q) /\ \A d \in Children : ~Writes(o, q, d)
    /\ \E r \in Runs : Drained(o, r) /\ \A q \in Runs : Drained(o, q) => q = r
PipeLock(o) ==
    \/ value["pipe"][o] = 1 /\ PipeFree(o)
    \/ value["pipe"][o] = 0 /\ (PipeWriter(o) \/ PipeFull(o) \/ PipeReader(o))

Locks ==
    \A o \in Runs :
        /\ sems[o]["log"] = o => LogLock(o)
        /\ sems[o]["pipe"] = o => PipeLock(o)

(***************************************************************************)
(* What a step leaves alone.                                               *)
(***************************************************************************)

\* A run's own variables are changed by its own steps only.
LEMMA Others ==
    ASSUME TypeOK, NEW r \in Runs, NEW q \in Runs, q # r,
           ParentStep(r) \/ (\E c \in Children : ChildStep(r, c)) \/ kill_process(r)
    PROVE  /\ parent'[q] = parent[q] /\ ppc'[q] = ppc[q] /\ at'[q] = at[q] /\ sems'[q] = sems[q]
           /\ child'[q] = child[q] /\ cpc'[q] = cpc[q] /\ gogo'[q] = gogo[q]
           /\ pending'[q] = pending[q] /\ given_up'[q] = given_up[q]
           /\ domain'[q] = domain[q] /\ pipe'[q] = pipe[q]
<1> USE DEF TypeOK, NameTypeOK, ParentTypeOK, ChildTypeOK, SocketTypeOK
<1>1. CASE ParentStep(r)
  <2> USE DEF PGoto, PEnds, PExits, PDies, nameVars, childVars, socketVars
  <2>1. CASE setup_process_server(r) \/ open_semaphores(r)
    BY <2>1 DEF setup_process_server, open_semaphores
  <2>2. CASE fork_child_process(r) \/ p_setup_parent(r)
    BY <2>2 DEF fork_child_process, p_setup_parent, CEnds
  <2>3. CASE setup_fails(r) \/ setup_crashes(r)
    BY <2>3 DEF setup_fails, setup_crashes, CloseAfterError
  <2>4. CASE p_dispatch(r) \/ p_send_wait(r) \/ p_send_to_child(r) \/ p_announce(r)
    BY <2>4 DEF p_dispatch, p_send_wait, p_send_to_child, p_announce
  <2>5. CASE p_read_pipe_reenable_fd(r) \/ p_post_pipe(r) \/ p_end_gogo_handler(r)
    BY <2>5 DEF p_read_pipe_reenable_fd, p_post_pipe, p_end_gogo_handler
  <2>6. CASE p_signal_children(r) \/ p_waitpid(r) \/ p_interrupted(r) \/ unlink_semaphores(r)
             \/ p_exit(r)
    BY <2>6 DEF p_signal_children, p_waitpid, p_interrupted, unlink_semaphores, p_exit
  <2> QED
    BY <1>1, <2>1, <2>2, <2>3, <2>4, <2>5, <2>6 DEF ParentStep
<1>2. ASSUME NEW c \in Children, ChildStep(r, c)
      PROVE  /\ UNCHANGED <<parentVars, sems>>
             /\ child'[q] = child[q] /\ cpc'[q] = cpc[q] /\ gogo'[q] = gogo[q]
             /\ pending'[q] = pending[q] /\ given_up'[q] = given_up[q]
             /\ domain'[q] = domain[q] /\ pipe'[q] = pipe[q]
  BY <1>2 DEF ChildStep, c_setup_child, c_read_wait, c_recvmsg, c_post_room, c_pipe_wait,
              c_inform_parent_recv_finished, c_log_wait, c_log, c_exit, c_end_gogo_handler,
              c_interrupted, Delivered, CGoto, CEnds, nameVars, socketVars
<1>3. CASE kill_process(r)
  BY <1>3 DEF kill_process, PEnds, PDies, CEnds, nameVars, socketVars
<1> QED
  BY <1>1, <1>2, <1>3 DEF parentVars

\* A step of a child is a step of a living child, which no step of its brings back.
LEMMA ChildKeeps ==
    ASSUME TypeOK, NEW r \in Runs, NEW c \in Children, ChildStep(r, c)
    PROVE  /\ UNCHANGED <<parentVars, names, sems>>
           /\ child[r][c] = "alive"
           /\ \A d \in Children :
                 /\ child'[r][d] = "alive" => child[r][d] = "alive"
                 /\ child'[r][d] = "none" <=> child[r][d] = "none"
                 /\ d # c => cpc'[r][d] = cpc[r][d]
           /\ UNCHANGED given_up
           /\ \/ UNCHANGED <<gogo, pending>>
              \/ /\ pending' = [pending EXCEPT ![r] = @ \ {c}]
                 /\ \A d \in Children : d # c => gogo'[r][d] = gogo[r][d]
                 /\ child'[r][c] # "alive" \/ ~gogo'[r][c]
<1>1. UNCHANGED <<parentVars, names, sems>> /\ child[r][c] = "alive"
  BY DEF ChildStep, c_setup_child, c_read_wait, c_recvmsg, c_post_room, c_pipe_wait,
              c_inform_parent_recv_finished, c_log_wait, c_log, c_exit, c_end_gogo_handler,
              c_interrupted,
         CAt, Delivered, nameVars
<1>2. UNCHANGED child \/ \E how \in {"exited", "killed"} : CEnds(r, c, how)
  BY DEF ChildStep, c_setup_child, c_read_wait, c_recvmsg, c_post_room, c_pipe_wait,
              c_inform_parent_recv_finished, c_log_wait, c_log, c_exit, c_end_gogo_handler,
              c_interrupted
<1>3. UNCHANGED cpc \/ \E pc : CGoto(r, c, pc)
  BY DEF ChildStep, c_setup_child, c_read_wait, c_recvmsg, c_post_room, c_pipe_wait,
              c_inform_parent_recv_finished, c_log_wait, c_log, c_exit, c_end_gogo_handler,
              c_interrupted
<1>4. \A d \in Children : d # c => cpc'[r][d] = cpc[r][d]
  BY <1>3 DEF CGoto, TypeOK, ChildTypeOK
<1>5. ASSUME NEW how \in {"exited", "killed"}, CEnds(r, c, how), NEW d \in Children
      PROVE  child'[r][d] = IF d = c THEN how ELSE child[r][d]
  BY <1>5, ChangedAt DEF CEnds, TypeOK, ChildTypeOK, Ended
<1>6. UNCHANGED given_up
  BY DEF ChildStep, c_setup_child, c_read_wait, c_recvmsg, c_post_room, c_pipe_wait,
         c_inform_parent_recv_finished, c_log_wait, c_log, c_exit, c_end_gogo_handler,
         c_interrupted
<1>7. \/ UNCHANGED <<gogo, pending>>
      \/ /\ pending' = [pending EXCEPT ![r] = @ \ {c}]
         /\ gogo' = [gogo EXCEPT ![r][c] = FALSE] \/ (UNCHANGED gogo /\ CEnds(r, c, "killed"))
  BY DEF ChildStep, c_setup_child, c_read_wait, c_recvmsg, c_post_room, c_pipe_wait,
         c_inform_parent_recv_finished, c_log_wait, c_log, c_exit, c_end_gogo_handler,
         c_interrupted, Delivered
<1>8. ASSUME gogo' = [gogo EXCEPT ![r][c] = FALSE]
      PROVE  ~gogo'[r][c] /\ \A d \in Children : d # c => gogo'[r][d] = gogo[r][d]
  BY <1>8, ChangedAt DEF TypeOK, ChildTypeOK
<1>9. CEnds(r, c, "killed") => child'[r][c] # "alive"
  BY <1>5
<1> QED
  BY <1>1, <1>2, <1>4, <1>5, <1>6, <1>7, <1>8, <1>9

(***************************************************************************)
(* The life of a run.                                                      *)
(***************************************************************************)

LEMMA LifeInit == Init => Life /\ Creators
  BY SemNames DEF Init, Life, LifeOf, OpenOf, ToldOf, Creators, Forked, Looping

LEMMA LifeOfKept ==
    ASSUME TypeOK, Life, NEW r \in Runs,
           ParentStep(r) \/ (\E c \in Children : ChildStep(r, c)) \/ kill_process(r)
    PROVE  LifeOf(r)'
<1>0. child \in [Runs -> [Children -> Ended]] /\ LifeOf(r)
  BY DEF Life, TypeOK, ChildTypeOK
<1>1. CASE ParentStep(r)
  <2> USE <1>0 DEF TypeOK, ParentTypeOK, SocketTypeOK, LifeOf, Forked, Looping, PAt, PGoto, PEnds, PExits,
                  PDies, childVars, socketVars
  <2>1. CASE setup_process_server(r) \/ open_semaphores(r)
    BY <2>1 DEF setup_process_server, open_semaphores
  <2>2. CASE fork_child_process(r)
    <3>1. PICK c \in Children : child[r][c] = "none" /\ child' = [child EXCEPT ![r][c] = "alive"]
      BY <2>2 DEF fork_child_process, CEnds
    <3>2. \A d \in Children : child'[r][d] = IF d = c THEN "alive" ELSE child[r][d]
      BY <3>1, ChangedAt DEF Ended
    <3> QED
      BY <2>2, <3>2 DEF fork_child_process
  <2>3. CASE p_setup_parent(r) \/ setup_fails(r) \/ setup_crashes(r)
    BY <2>3 DEF p_setup_parent, setup_fails, setup_crashes, CloseAfterError
  <2>4. CASE p_dispatch(r) \/ p_send_wait(r) \/ p_send_to_child(r) \/ p_announce(r)
    BY <2>4 DEF p_dispatch, p_send_wait, p_send_to_child, p_announce
  <2>5. CASE p_read_pipe_reenable_fd(r) \/ p_post_pipe(r) \/ p_end_gogo_handler(r)
    BY <2>5 DEF p_read_pipe_reenable_fd, p_post_pipe, p_end_gogo_handler
  <2>6. CASE p_signal_children(r) \/ p_waitpid(r) \/ p_interrupted(r) \/ unlink_semaphores(r)
             \/ p_exit(r)
    BY <2>6 DEF p_signal_children, p_waitpid, p_interrupted, unlink_semaphores, p_exit
  <2> QED
    BY <1>1, <2>1, <2>2, <2>3, <2>4, <2>5, <2>6 DEF ParentStep
<1>2. ASSUME NEW c \in Children, ChildStep(r, c) PROVE LifeOf(r)'
  <2>1. /\ UNCHANGED <<parent, ppc, at>> /\ child[r][c] = "alive"
        /\ \A d \in Children :
              /\ child'[r][d] = "alive" => child[r][d] = "alive"
              /\ child'[r][d] = "none" <=> child[r][d] = "none"
              /\ d # c => cpc'[r][d] = cpc[r][d]
    BY <1>2, ChildKeeps DEF parentVars
  <2>2. ppc[r] # "open"
    BY <1>0, <2>1 DEF LifeOf
  <2>3. \A d \in Children : child'[r][d] = "none" => cpc'[r][d] = "start"
    BY <1>0, <2>1 DEF LifeOf
  <2> QED
    BY <1>0, <2>1, <2>2, <2>3 DEF LifeOf
<1>3. CASE kill_process(r)
  <2>1. CASE PDies(r) /\ UNCHANGED child
    BY <1>0, <1>3, <2>1
    DEF kill_process, PDies, PEnds, LifeOf, Forked, Looping, socketVars, TypeOK, ParentTypeOK
  <2>2. CASE UNCHANGED parent /\ \E c \in Children : child[r][c] = "alive" /\ CEnds(r, c, "killed")
    <3>1. PICK c \in Children : child[r][c] = "alive" /\ child' = [child EXCEPT ![r][c] = "killed"]
      BY <2>2 DEF CEnds
    <3>2. \A d \in Children : child'[r][d] = IF d = c THEN "killed" ELSE child[r][d]
      BY <1>0, <3>1, ChangedAt DEF Ended
    <3> QED
      BY <1>0, <1>3, <2>2, <3>1, <3>2 DEF kill_process, LifeOf, socketVars
  <2> QED
    BY <1>3, <2>1, <2>2 DEF kill_process
<1> QED
  BY <1>1, <1>2, <1>3

LEMMA OpenOfKept ==
    ASSUME TypeOK, Life, NEW r \in Runs,
           ParentStep(r) \/ (\E c \in Children : ChildStep(r, c)) \/ kill_process(r)
    PROVE  OpenOf(r)'
<1>0. child \in [Runs -> [Children -> Ended]] /\ LifeOf(r) /\ OpenOf(r)
  BY DEF Life, TypeOK, ChildTypeOK
<1>1. CASE ParentStep(r)
  <2> USE <1>0 DEF TypeOK, ParentTypeOK, LifeOf, OpenOf, PAt, PGoto, PEnds, PExits, PDies, childVars, nameVars
  <2>1. CASE setup_process_server(r)
    BY <2>1 DEF setup_process_server
  <2>2. CASE open_semaphores(r)
    <3>1. at[r] \in 1 .. 4 /\ PAt(r, "open") /\ UNCHANGED child
      BY <2>2 DEF open_semaphores
    <3>2. \A i \in 1 .. 4 : i # at[r] => Order[i] # Order[at[r]]
      BY <3>1 DEF Order
    <3>3. \A i \in 1 .. 4 : i # at[r] => sems'[r][Order[i]] = sems[r][Order[i]]
      <4>1. sems \in [Runs -> [Sems -> Runs \cup {NoRun}]]
        BY DEF NameTypeOK
      <4>2. ASSUME NEW o, sems' = [sems EXCEPT ![r][Order[at[r]]] = o], NEW i \in 1 .. 4, i # at[r]
            PROVE  sems'[r][Order[i]] = sems[r][Order[i]]
        <5>1. sems'[r] = [sems[r] EXCEPT ![Order[at[r]]] = o]
          BY <4>1, <4>2
        <5>2. Order[i] \in Sems /\ Order[i] # Order[at[r]]
          BY <3>2, <4>2, SemNames
        <5> QED
          BY <4>1, <5>1, <5>2
      <4>3. UNCHANGED sems \/ sems' = [sems EXCEPT ![r][Order[at[r]]] = Opened(r, Order[at[r]])]
        BY <2>2 DEF open_semaphores
      <4> QED
        BY <4>2, <4>3
    <3>4. CASE at[r] < 4
      BY <2>2, <3>1, <3>3, <3>4 DEF open_semaphores
    <3>5. CASE at[r] = 4
      BY <2>2, <3>1, <3>5 DEF open_semaphores
    <3> QED
      BY <3>1, <3>4, <3>5
  <2>3. CASE fork_child_process(r)
    BY <2>3 DEF fork_child_process
  <2>4. CASE p_setup_parent(r) \/ setup_fails(r) \/ setup_crashes(r)
    BY <2>4 DEF p_setup_parent, setup_fails, setup_crashes, CloseAfterError
  <2>5. CASE p_dispatch(r) \/ p_send_wait(r) \/ p_send_to_child(r) \/ p_announce(r)
    BY <2>5 DEF p_dispatch, p_send_wait, p_send_to_child, p_announce
  <2>6. CASE p_read_pipe_reenable_fd(r) \/ p_post_pipe(r) \/ p_end_gogo_handler(r)
    BY <2>6 DEF p_read_pipe_reenable_fd, p_post_pipe, p_end_gogo_handler, Looping
  <2>7. CASE p_signal_children(r) \/ p_waitpid(r) \/ p_interrupted(r) \/ unlink_semaphores(r)
             \/ p_exit(r)
    BY <2>7 DEF p_signal_children, p_waitpid, p_interrupted, unlink_semaphores, p_exit
  <2> QED
    BY <1>1, <2>1, <2>2, <2>3, <2>4, <2>5, <2>6, <2>7 DEF ParentStep
<1>2. ASSUME NEW c \in Children, ChildStep(r, c) PROVE OpenOf(r)'
  BY <1>0, <1>2, ChildKeeps DEF OpenOf, parentVars
<1>3. CASE kill_process(r)
  <2>1. \A d \in Children : child'[r][d] # "none" => child[r][d] # "none"
    <3>1. CASE UNCHANGED child
      BY <3>1
    <3>2. CASE \E c \in Children : child[r][c] = "alive" /\ CEnds(r, c, "killed")
      BY <1>0, <3>2, ChangedAt DEF CEnds, Ended
    <3> QED
      BY <1>3, <3>1, <3>2 DEF kill_process
  <2> QED
    BY <1>0, <1>3, <2>1 DEF kill_process, OpenOf, nameVars
<1> QED
  BY <1>1, <1>2, <1>3

LEMMA ToldOfKept ==
    ASSUME TypeOK, Life, NEW r \in Runs,
           ParentStep(r) \/ (\E c \in Children : ChildStep(r, c)) \/ kill_process(r)
    PROVE  ToldOf(r)'
<1>0. LifeOf(r) /\ ToldOf(r) /\ child \in [Runs -> [Children -> Ended]]
      /\ pending \in [Runs -> SUBSET Children] /\ given_up \in [Runs -> SUBSET Children]
  BY DEF Life, TypeOK, ChildTypeOK
<1>1. ASSUME UNCHANGED <<child, gogo, pending, given_up>>,
             ppc'[r] \in {"reap", "unlink", "exit"} => ppc[r] \in {"reap", "unlink", "exit"},
             ppc'[r] \in {"unlink", "exit"} => ppc[r] \in {"unlink", "exit"}
      PROVE  ToldOf(r)'
  BY <1>0, <1>1 DEF ToldOf
<1>2. CASE ParentStep(r)
  <2> USE DEF TypeOK, ParentTypeOK, PAt, PGoto, childVars
  <2>1. CASE open_semaphores(r) \/ fork_child_process(r)
    <3>1. CASE fork_child_process(r)
      BY <3>1 DEF fork_child_process, ToldOf
    <3>2. CASE open_semaphores(r)
      BY <1>0, <3>2 DEF open_semaphores, LifeOf, ToldOf
    <3> QED
      BY <2>1, <3>1, <3>2
  <2>2. CASE setup_process_server(r) \/ p_setup_parent(r) \/ setup_fails(r) \/ setup_crashes(r)
    BY <1>1, <2>2 DEF setup_process_server, p_setup_parent, setup_fails, setup_crashes,
                      CloseAfterError
  <2>3. CASE p_dispatch(r) \/ p_send_wait(r) \/ p_send_to_child(r) \/ p_announce(r)
    BY <1>1, <2>3 DEF p_dispatch, p_send_wait, p_send_to_child, p_announce
  <2>4. CASE p_read_pipe_reenable_fd(r) \/ p_post_pipe(r) \/ p_end_gogo_handler(r)
    BY <1>1, <2>4 DEF p_read_pipe_reenable_fd, p_post_pipe, p_end_gogo_handler, Looping
  <2>5. CASE p_signal_children(r)
    BY <1>0, <2>5 DEF p_signal_children, ToldOf
  <2>6. CASE p_waitpid(r)
    BY <1>0, <2>6 DEF p_waitpid, ChildrenGone, ToldOf
  <2>7. CASE p_interrupted(r)
    BY <1>0, <2>7 DEF p_interrupted, ToldOf
  <2>8. CASE unlink_semaphores(r) \/ p_exit(r)
    BY <1>1, <2>8 DEF unlink_semaphores, p_exit
  <2> QED
    BY <1>2, <2>1, <2>2, <2>3, <2>4, <2>5, <2>6, <2>7, <2>8 DEF ParentStep
<1>3. ASSUME NEW c \in Children, ChildStep(r, c) PROVE ToldOf(r)'
  <2>1. /\ UNCHANGED <<ppc, given_up>>
        /\ \A d \in Children : child'[r][d] = "alive" => child[r][d] = "alive"
    BY <1>3, ChildKeeps DEF parentVars
  <2>2. CASE UNCHANGED <<gogo, pending>>
    BY <1>0, <2>1, <2>2 DEF ToldOf
  <2>3. CASE /\ pending' = [pending EXCEPT ![r] = @ \ {c}]
             /\ \A d \in Children : d # c => gogo'[r][d] = gogo[r][d]
             /\ child'[r][c] # "alive" \/ ~gogo'[r][c]
    BY <1>0, <2>1, <2>3 DEF ToldOf
  <2> QED
    BY <1>3, <2>2, <2>3, ChildKeeps
<1>4. CASE kill_process(r)
  <2>1. \A d \in Children : child'[r][d] = "alive" => child[r][d] = "alive"
    <3>1. CASE UNCHANGED child
      BY <3>1
    <3>2. CASE \E c \in Children : child[r][c] = "alive" /\ CEnds(r, c, "killed")
      BY <1>0, <3>2, ChangedAt DEF CEnds, Ended
    <3> QED
      BY <1>4, <3>1, <3>2 DEF kill_process
  <2>2. pending[r] \subseteq pending'[r] /\ UNCHANGED <<ppc, gogo, given_up>>
    BY <1>0, <1>4 DEF kill_process
  <2> QED
    BY <1>0, <2>1, <2>2 DEF ToldOf
<1> QED
  BY <1>2, <1>3, <1>4

LEMMA LifeKept == TypeOK /\ Life /\ [Next]_vars => Life'
<1> SUFFICES ASSUME TypeOK, Life, [Next]_vars PROVE Life'
  OBVIOUS
<1>1. CASE UNCHANGED vars
  BY <1>1 DEF vars, nameVars, parentVars, childVars, socketVars, Life, LifeOf, OpenOf, ToldOf
<1>2. ASSUME NEW r \in Runs,
             ParentStep(r) \/ (\E c \in Children : ChildStep(r, c)) \/ kill_process(r)
      PROVE  Life'
  <2>1. ASSUME NEW q \in Runs, q # r PROVE LifeOf(q)' /\ OpenOf(q)' /\ ToldOf(q)'
    BY <1>2, <2>1, Others DEF Life, LifeOf, OpenOf, ToldOf
  <2> QED
    BY <1>2, <2>1, LifeOfKept, OpenOfKept, ToldOfKept DEF Life
<1> QED
  BY <1>1, <1>2 DEF Next

(***************************************************************************)
(* Names and the runs that created what they stand for.                    *)
(***************************************************************************)

LEMMA CreatorsKept == TypeOK /\ Life /\ Creators /\ [Next]_vars => Creators'
<1> SUFFICES ASSUME TypeOK, Life, Creators, [Next]_vars PROVE Creators'
  OBVIOUS
<1>0. /\ names \in [Sems -> Runs \cup {NoRun}]
      /\ sems \in [Runs -> [Sems -> Runs \cup {NoRun}]]
      /\ at \in [Runs -> 1 .. 4]
  BY DEF TypeOK, NameTypeOK, ParentTypeOK
<1>1. ASSUME UNCHANGED <<names, sems>>,
             \A r \in Runs : ppc'[r] \in {"unlink", "exit"} =>
                \A i \in 1 .. 4 : i < at'[r] \/ ppc'[r] = "exit" => names[Order[i]] # r
      PROVE  Creators'
  BY <1>1 DEF Creators
<1>2. ASSUME UNCHANGED <<names, sems, ppc, at>> PROVE Creators'
  BY <1>1, <1>2 DEF Creators
<1>3. ASSUME NEW r \in Runs, open_semaphores(r) PROVE Creators'
  <2> DEFINE s == Order[at[r]]
             o == Opened(r, s)
  <2>1. s \in Sems /\ at[r] \in 1 .. 4 /\ parent[r] = "alive" /\ ppc[r] = "open"
    BY <1>0, <1>3, SemNames DEF open_semaphores, PAt
  <2>2. sems[r][s] = NoRun
    BY <2>1 DEF Life, OpenOf
  <2>3. \A q \in Runs : q # r => ppc'[q] = ppc[q] /\ at'[q] = at[q]
    BY <1>0, <1>3 DEF open_semaphores, PGoto, TypeOK, ParentTypeOK
  <2>4. ppc'[r] # "exit" /\ (ppc'[r] = "unlink" => at'[r] = 1)
    BY <1>0, <1>3, <2>1 DEF open_semaphores, PGoto, TypeOK, ParentTypeOK
  <2>6. CASE UNCHANGED nameVars
    <3>1. ASSUME NEW q \in Runs, ppc'[q] \in {"unlink", "exit"},
                 NEW i \in 1 .. 4, i < at'[q] \/ ppc'[q] = "exit"
          PROVE  names[Order[i]] # q
      <4>1. q # r
        BY <2>1, <2>4, <3>1
      <4> QED
        BY <2>3, <3>1, <4>1 DEF Creators
    <3> QED
      BY <1>1, <2>6, <3>1 DEF nameVars
  <2>7. CASE names' = [names EXCEPT ![s] = o] /\ sems' = [sems EXCEPT ![r][s] = o]
    <3> HIDE DEF s, o
    <3>1. o \in Runs /\ (names[s] = NoRun => o = r) /\ (names[s] # NoRun => o = names[s])
      BY <1>0, <2>1 DEF o, Opened
    <3>2. \A q \in Runs, t \in Sems : sems'[q][t] = IF q = r /\ t = s THEN o ELSE sems[q][t]
      BY <1>0, <2>1, <2>7, <3>1, ChangedAt
    <3>3. \A t \in Sems : names'[t] = IF t = s THEN o ELSE names[t]
      BY <1>0, <2>1, <2>7
    <3>4. names[s] # NoRun => sems[names[s]][s] = names[s]
      BY <2>1 DEF Creators
    <3>5. sems'[o][s] = o
      BY <1>0, <2>1, <3>1, <3>2, <3>4
    <3>6. ASSUME NEW t \in Sems, names'[t] # NoRun PROVE sems'[names'[t]][t] = names'[t]
      <4>1. CASE t = s
        BY <3>3, <3>5, <4>1
      <4>2. CASE t # s
        BY <1>0, <3>2, <3>3, <3>6, <4>2 DEF Creators
      <4> QED
        BY <4>1, <4>2
    <3>7. ASSUME NEW q \in Runs, NEW t \in Sems, sems'[q][t] # NoRun
          PROVE  sems'[sems'[q][t]][t] = sems'[q][t]
      <4>1. CASE q = r /\ t = s
        BY <3>2, <3>5, <4>1
      <4>2. CASE ~(q = r /\ t = s)
        <5>1. sems'[q][t] = sems[q][t] /\ sems[q][t] \in Runs
          BY <1>0, <3>2, <3>7, <4>2
        <5>2. sems[sems[q][t]][t] = sems[q][t]
          BY <3>7, <5>1 DEF Creators
        <5>3. ~(sems[q][t] = r /\ t = s)
          BY <2>2, <5>1, <5>2, RunsAssumption
        <5> QED
          BY <3>2, <5>1, <5>2, <5>3
      <4> QED
        BY <4>1, <4>2
    <3>8. ASSUME NEW q \in Runs, ppc'[q] \in {"unlink", "exit"},
                 NEW i \in 1 .. 4, i < at'[q] \/ ppc'[q] = "exit"
          PROVE  names'[Order[i]] # q
      <4>1. q # r
        BY <2>1, <2>4, <3>8
      <4>2. names[Order[i]] # q
        BY <2>3, <3>8, <4>1 DEF Creators
      <4>3. Order[i] \in Sems
        BY SemNames
      <4> QED
        BY <3>1, <3>3, <4>1, <4>2, <4>3
    <3> QED
      BY <3>6, <3>7, <3>8 DEF Creators
  <2> QED
    BY <1>3, <2>6, <2>7 DEF open_semaphores
<1>4. ASSUME NEW r \in Runs, unlink_semaphores(r) PROVE Creators'
  <2>1. at[r] \in 1 .. 4 /\ Order[at[r]] \in Sems /\ ppc[r] = "unlink" /\ UNCHANGED sems
    BY <1>0, <1>4, SemNames DEF unlink_semaphores, PAt
  <2>2. \A t \in Sems : names'[t] = IF t = Order[at[r]] THEN NoRun ELSE names[t]
    BY <1>0, <1>4, <2>1 DEF unlink_semaphores, Unlinked
  <2>3. ASSUME NEW q \in Runs, ppc'[q] \in {"unlink", "exit"},
               NEW i \in 1 .. 4, i < at'[q] \/ ppc'[q] = "exit"
        PROVE  names'[Order[i]] # q
    <3>1. Order[i] \in Sems
      BY SemNames
    <3>2. CASE i = at[r]
      BY <2>2, <3>1, <3>2, RunsAssumption
    <3>3. CASE i # at[r]
      <4>1. ppc[q] \in {"unlink", "exit"} /\ (i < at[q] \/ ppc[q] = "exit")
        <5>1. CASE q # r
          BY <1>0, <1>4, <2>3, <5>1 DEF unlink_semaphores, PGoto, TypeOK, ParentTypeOK
        <5>2. CASE q = r /\ at[r] < 4
          BY <1>0, <1>4, <2>1, <2>3, <3>3, <5>2 DEF unlink_semaphores, TypeOK, ParentTypeOK
        <5>3. CASE q = r /\ at[r] = 4
          BY <2>1, <3>3, <5>3
        <5> QED
          BY <2>1, <5>1, <5>2, <5>3
      <4>2. names[Order[i]] # q
        BY <2>1, <2>3, <4>1 DEF Creators
      <4> QED
        BY <2>2, <3>1, <4>2, RunsAssumption
    <3> QED
      BY <3>2, <3>3
  <2>4. \A t \in Sems : names'[t] # NoRun => sems[names'[t]][t] = names'[t]
    BY <2>2 DEF Creators
  <2> QED
    BY <2>1, <2>3, <2>4 DEF Creators
<1>5. ASSUME NEW r \in Runs,
             \/ setup_process_server(r) \/ setup_fails(r) \/ setup_crashes(r)
             \/ fork_child_process(r) \/ p_setup_parent(r) \/ p_dispatch(r) \/ p_send_wait(r)
             \/ p_send_to_child(r) \/ p_announce(r) \/ p_read_pipe_reenable_fd(r)
             \/ p_post_pipe(r) \/ p_end_gogo_handler(r) \/ p_signal_children(r)
             \/ p_interrupted(r) \/ p_exit(r) \/ kill_process(r)
      PROVE  Creators'
  <2>1. UNCHANGED <<names, sems, at>>
    BY <1>5 DEF setup_process_server, setup_fails, setup_crashes, fork_child_process, p_setup_parent,
              p_dispatch, p_send_wait, p_send_to_child, p_announce, p_read_pipe_reenable_fd,
              p_post_pipe, p_end_gogo_handler, p_signal_children, p_interrupted, p_exit,
              kill_process, nameVars
  <2>2. \A q \in Runs : ppc'[q] \in {"unlink", "exit"} => ppc'[q] = ppc[q]
    BY <1>5 DEF setup_process_server, setup_fails, setup_crashes, CloseAfterError,
              fork_child_process, p_setup_parent,
              p_dispatch, p_send_wait, p_send_to_child, p_announce, p_read_pipe_reenable_fd,
              p_post_pipe, p_end_gogo_handler, p_signal_children, p_interrupted, p_exit,
              kill_process, PGoto, TypeOK, ParentTypeOK
  <2> QED
    BY <1>1, <2>1, <2>2 DEF Creators
<1>6. ASSUME NEW r \in Runs, p_waitpid(r) PROVE Creators'
  <2>1. UNCHANGED <<names, sems, at>> /\ at[r] = 1
    BY <1>6 DEF p_waitpid, nameVars, PAt, Life, LifeOf
  <2>2. \A q \in Runs : ppc'[q] = IF q = r THEN "unlink" ELSE ppc[q]
    BY <1>6 DEF p_waitpid, PGoto, TypeOK, ParentTypeOK
  <2> QED
    BY <1>1, <2>1, <2>2 DEF Creators
<1>7. ASSUME NEW r \in Runs, NEW c \in Children, ChildStep(r, c) PROVE Creators'
  BY <1>2, <1>7, ChildKeeps DEF parentVars
<1>8. CASE UNCHANGED vars
  BY <1>2, <1>8 DEF vars, nameVars, parentVars
<1> QED
  BY <1>3, <1>4, <1>5, <1>6, <1>7, <1>8 DEF Next, ParentStep

(***************************************************************************)
(* The pipe and log semaphores.                                            *)
(***************************************************************************)

\* What waiting and posting do to the semaphores.
LEMMA SemEffect ==
    ASSUME NameTypeOK, NEW r \in Runs, NEW s \in Sems, sems[r][s] # NoRun
    PROVE  /\ sems[r][s] \in Runs
           /\ sem_wait(r, s) =>
                /\ value[s][sems[r][s]] > 0
                /\ \A t \in Sems, o \in Runs :
                      value'[t][o] = IF t = s /\ o = sems[r][s] THEN value[t][o] - 1 ELSE value[t][o]
           /\ sem_post(r, s) =>
                \A t \in Sems, o \in Runs :
                   value'[t][o] = IF t = s /\ o = sems[r][s] THEN value[t][o] + 1 ELSE value[t][o]
<1>1. sems[r][s] \in Runs /\ value \in [Sems -> [Runs -> Nat]]
  BY DEF NameTypeOK
<1>2. ASSUME NEW n \in Nat, SetObject(r, s, n)
      PROVE  \A t \in Sems, o \in Runs :
                value'[t][o] = IF t = s /\ o = sems[r][s] THEN n ELSE value[t][o]
  BY <1>1, <1>2, ChangedAt DEF SetObject
<1>3. Object(r, s) = value[s][sems[r][s]] /\ Object(r, s) \in Nat
  BY <1>1 DEF Object
<1>4. ASSUME sem_wait(r, s) PROVE Object(r, s) > 0 /\ SetObject(r, s, Object(r, s) - 1)
  BY <1>4 DEF sem_wait
<1>5. ASSUME sem_post(r, s) PROVE SetObject(r, s, Object(r, s) + 1)
  BY <1>5 DEF sem_post
<1>6. Object(r, s) > 0 => Object(r, s) - 1 \in Nat
  BY <1>3
<1>7. Object(r, s) + 1 \in Nat
  BY <1>3
<1>8. sem_wait(r, s) => \A t \in Sems, o \in Runs :
          value'[t][o] = IF t = s /\ o = sems[r][s] THEN value[t][o] - 1 ELSE value[t][o]
  BY <1>2, <1>3, <1>4, <1>6
<1>9. sem_post(r, s) => \A t \in Sems, o \in Runs :
          value'[t][o] = IF t = s /\ o = sems[r][s] THEN value[t][o] + 1 ELSE value[t][o]
  BY <1>2, <1>3, <1>5, <1>7
<1> QED
  BY <1>1, <1>3, <1>4, <1>8, <1>9

LEMMA LogQuiet ==
    ASSUME NEW o \in Runs, LogLock(o), value'["log"][o] = value["log"][o],
           \A q \in Runs, d \in Children : HasLog(o, q, d)' <=> HasLog(o, q, d)
    PROVE  LogLock(o)'
  BY DEF LogLock

LEMMA PipeQuiet ==
    ASSUME NEW o \in Runs, PipeLock(o), value'["pipe"][o] = value["pipe"][o],
           \A q \in Runs : sems[q]["pipe"] = o => pipe'[q] = pipe[q],
           \A q \in Runs : Filled(o, q)' <=> Filled(o, q),
           \A q \in Runs : Drained(o, q)' <=> Drained(o, q),
           \A q \in Runs, d \in Children : Writes(o, q, d)' <=> Writes(o, q, d)
    PROVE  PipeLock(o)'
<1>1. PipeFree(o) => PipeFree(o)'
  BY DEF PipeFree
<1>2. PipeWriter(o) => PipeWriter(o)'
  BY DEF PipeWriter
<1>3. ASSUME PipeFull(o) PROVE PipeFull(o)'
  <2>1. PICK r \in Runs : Filled(o, r) /\ pipe[r] = 1 /\ \A q \in Runs : Filled(o, q) => q = r
    BY <1>3 DEF PipeFull
  <2>2. pipe'[r] = 1
    BY <2>1 DEF Filled
  <2> QED
    BY <1>3, <2>1, <2>2 DEF PipeFull
<1>4. PipeReader(o) => PipeReader(o)'
  BY DEF PipeReader
<1> QED
  BY <1>1, <1>2, <1>3, <1>4 DEF PipeLock

\* Opening a semaphore makes nobody have it.
LEMMA LocksOpened ==
    ASSUME TypeOK, Life, Creators, Locks, NEW r \in Runs, open_semaphores(r)
    PROVE  Locks'
<1> DEFINE s == Order[at[r]]
           o == Opened(r, s)
<1>1. s \in Sems /\ at[r] \in 1 .. 4 /\ ppc[r] = "open"
  BY SemNames DEF open_semaphores, PAt, TypeOK, ParentTypeOK
<1>2. sems[r][s] = NoRun /\ pipe[r] = 0 /\ \A c \in Children : cpc[r][c] = "start"
  BY <1>1 DEF Life, LifeOf, OpenOf
<1>3. UNCHANGED <<cpc, pipe>>
  BY DEF open_semaphores, childVars, socketVars
<1>6. \A q \in Runs : ppc'[q] = "drained" <=> ppc[q] = "drained"
  BY <1>1 DEF open_semaphores, PGoto, TypeOK, ParentTypeOK
<1>4. CASE UNCHANGED nameVars
  BY <1>3, <1>4, <1>6 DEF nameVars, Locks, LogLock, HasLog, PipeLock, PipeFree, PipeWriter, PipeFull,
                       PipeReader, Filled, Drained, Writes
<1>5. CASE /\ sems' = [sems EXCEPT ![r][s] = o]
           /\ value' = [value EXCEPT ![s][o] = ValueOpened(r, s)]
  <2>1. o \in Runs /\ (names[s] = NoRun => o = r) /\ (names[s] # NoRun => o = names[s])
    BY <1>1 DEF Opened, TypeOK, NameTypeOK
  <2>2. ValueOpened(r, s) \in Nat
    BY <1>1, RunsAssumption DEF TypeOK, NameTypeOK, ValueOpened, InitialValue
  <2> HIDE DEF s, o
  <2>3. \A q \in Runs, t \in Sems : sems'[q][t] = IF q = r /\ t = s THEN o ELSE sems[q][t]
    <3>1. sems \in [Runs -> [Sems -> Runs \cup {NoRun}]]
      BY DEF TypeOK, NameTypeOK
    <3> QED
      BY <1>1, <1>5, <2>1, <3>1, ChangedAt
  <2>4. \A t \in Sems, q \in Runs :
           value'[t][q] = IF t = s /\ q = o THEN ValueOpened(r, s) ELSE value[t][q]
    <3>1. value \in [Sems -> [Runs -> Nat]]
      BY DEF TypeOK, NameTypeOK
    <3> QED
      BY <1>1, <1>5, <2>1, <2>2, <3>1, ChangedAt
  <2>5. names[s] # NoRun => ValueOpened(r, s) = value[s][o] /\ sems[o][s] = o
    BY <1>1, <2>1 DEF ValueOpened, Creators
  <2>6. names[s] = NoRun => /\ ValueOpened(r, s) = InitialValue[s]
                            /\ \A q \in Runs : sems[q][s] # r
    BY <1>1, <1>2, <2>1, RunsAssumption DEF ValueOpened, Creators
  <2>7. "log" \in Sems /\ "pipe" \in Sems /\ InitialValue["log"] = 1 /\ InitialValue["pipe"] = 1
    BY SemNames DEF InitialValue
  <2>8. ASSUME NEW x \in Runs, sems'[x]["log"] = x PROVE LogLock(x)'
    <3>1. CASE s = "log" /\ x = o /\ names[s] = NoRun
      <4>1. value'["log"][x] = 1
        BY <2>4, <2>6, <2>7, <3>1
      <4>2. ASSUME NEW q \in Runs, NEW d \in Children PROVE ~HasLog(x, q, d)'
        BY <1>2, <1>3, <2>1, <2>3, <2>6, <2>7, <3>1 DEF HasLog
      <4> QED
        BY <4>1, <4>2 DEF LogLock
    <3>2. CASE ~(s = "log" /\ x = o /\ names[s] = NoRun)
      <4>1. value'["log"][x] = value["log"][x]
        BY <2>4, <2>5, <2>7, <3>2
      <4>2. sems[x]["log"] = x
        BY <2>1, <2>3, <2>5, <2>7, <2>8, <3>2
      <4>3. ASSUME NEW q \in Runs, NEW d \in Children PROVE HasLog(x, q, d)' <=> HasLog(x, q, d)
        BY <1>2, <1>3, <2>3, <2>7, RunsAssumption DEF HasLog
      <4> QED
        BY <4>1, <4>2, <4>3, LogQuiet DEF Locks
    <3> QED
      BY <3>1, <3>2
  <2>9. ASSUME NEW x \in Runs, sems'[x]["pipe"] = x PROVE PipeLock(x)'
    <3>1. CASE s = "pipe" /\ x = o /\ names[s] = NoRun
      <4>1. value'["pipe"][x] = 1
        BY <2>4, <2>6, <2>7, <3>1
      <4>2. ASSUME NEW q \in Runs
            PROVE  ~Filled(x, q)' /\ ~Drained(x, q)' /\ \A d \in Children : ~Writes(x, q, d)'
        BY <1>1, <1>2, <1>3, <1>6, <2>1, <2>3, <2>6, <2>7, <3>1 DEF Filled, Drained, Writes
      <4> QED
        BY <4>1, <4>2 DEF PipeLock, PipeFree
    <3>2. CASE ~(s = "pipe" /\ x = o /\ names[s] = NoRun)
      <4>1. value'["pipe"][x] = value["pipe"][x]
        BY <2>4, <2>5, <2>7, <3>2
      <4>2. sems[x]["pipe"] = x
        BY <2>1, <2>3, <2>5, <2>7, <2>9, <3>2
      <4>3. ASSUME NEW q \in Runs, NEW d \in Children PROVE Writes(x, q, d)' <=> Writes(x, q, d)
        BY <1>2, <1>3, <2>3, <2>7, RunsAssumption DEF Writes
      <4>4. \A q \in Runs : Filled(x, q)' <=> Filled(x, q)
        BY <1>2, <1>3, <2>3, <2>7, RunsAssumption DEF Filled
      <4>5. \A q \in Runs : Drained(x, q)' <=> Drained(x, q)
        BY <1>1, <1>2, <1>6, <2>3, <2>7, RunsAssumption DEF Drained
      <4> QED
        BY <1>3, <4>1, <4>2, <4>3, <4>4, <4>5, PipeQuiet DEF Locks
    <3> QED
      BY <3>1, <3>2
  <2> QED
    BY <2>8, <2>9 DEF Locks
<1> QED
  BY <1>4, <1>5 DEF open_semaphores

\* A step that gives and takes neither lock.
LEMMA LocksQuiet ==
    ASSUME Locks, UNCHANGED <<sems, pipe>>,
           \A o \in Runs : /\ value'["log"][o] = value["log"][o]
                         /\ value'["pipe"][o] = value["pipe"][o],
           \A q \in Runs, d \in Children :
              /\ cpc'[q][d] = "logging" <=> cpc[q][d] = "logging"
              /\ cpc'[q][d] = "write" <=> cpc[q][d] = "write",
           \A q \in Runs : ppc'[q] = "drained" <=> ppc[q] = "drained"
    PROVE  Locks'
<1>1. ASSUME NEW o \in Runs, sems[o]["log"] = o PROVE LogLock(o)'
  <2>1. \A q \in Runs, d \in Children : HasLog(o, q, d)' <=> HasLog(o, q, d)
    BY DEF HasLog
  <2> QED
    BY <1>1, <2>1, LogQuiet DEF Locks
<1>2. ASSUME NEW o \in Runs, sems[o]["pipe"] = o PROVE PipeLock(o)'
  <2>1. \A q \in Runs, d \in Children : Writes(o, q, d)' <=> Writes(o, q, d)
    BY DEF Writes
  <2>2. \A q \in Runs : (Filled(o, q)' <=> Filled(o, q)) /\ (Drained(o, q)' <=> Drained(o, q))
    BY DEF Filled, Drained
  <2> QED
    BY <1>2, <2>1, <2>2, PipeQuiet DEF Locks
<1> QED
  BY <1>1, <1>2 DEF Locks

\* A step at the places of run r that leaves its pipe lock in order leaves every lock in order, when
\* it touches no other semaphore and no holder of the log's.
LEMMA LocksMoved ==
    ASSUME Locks, NEW r \in Runs, NEW o \in Runs, sems[r]["pipe"] = o, UNCHANGED sems,
           \A x \in Runs : /\ value'["log"][x] = value["log"][x]
                           /\ x # o => value'["pipe"][x] = value["pipe"][x],
           \A q \in Runs : q # r => /\ pipe'[q] = pipe[q]
                                    /\ ppc'[q] = "drained" <=> ppc[q] = "drained",
           \A q \in Runs, d \in Children :
              /\ cpc'[q][d] = "logging" <=> cpc[q][d] = "logging"
              /\ q # r => (cpc'[q][d] = "write" <=> cpc[q][d] = "write"),
           sems[o]["pipe"] = o => PipeLock(o)'
    PROVE  Locks'
<1>1. ASSUME NEW x \in Runs, sems[x]["log"] = x PROVE LogLock(x)'
  <2>1. \A q \in Runs, d \in Children : HasLog(x, q, d)' <=> HasLog(x, q, d)
    BY DEF HasLog
  <2> QED
    BY <1>1, <2>1, LogQuiet DEF Locks
<1>2. ASSUME NEW x \in Runs, x # o, sems[x]["pipe"] = x PROVE PipeLock(x)'
  <2>1. \A q \in Runs, d \in Children : Writes(x, q, d)' <=> Writes(x, q, d)
    BY <1>2 DEF Writes
  <2>2. \A q \in Runs : (Filled(x, q)' <=> Filled(x, q)) /\ (Drained(x, q)' <=> Drained(x, q))
    BY <1>2 DEF Filled, Drained
  <2>3. \A q \in Runs : sems[q]["pipe"] = x => pipe'[q] = pipe[q]
    BY <1>2
  <2> QED
    BY <1>2, <2>1, <2>2, <2>3, PipeQuiet DEF Locks
<1> QED
  BY <1>1, <1>2 DEF Locks

LEMMA LocksByChild ==
    ASSUME TypeOK, Life, Creators, Locks, NEW r \in Runs, NEW c \in Children, ChildStep(r, c)
    PROVE  Locks'
<1>1. UNCHANGED <<sems, ppc>> /\ child[r][c] = "alive"
  BY ChildKeeps DEF parentVars
<1>2. \A q \in Runs, d \in Children : ~(q = r /\ d = c) => cpc'[q][d] = cpc[q][d]
  BY ChildKeeps, Others
<1>3. \A s \in Sems : sems[r][s] # NoRun /\ sems[sems[r][s]][s] = sems[r][s]
  BY <1>1 DEF Life, OpenOf, Creators
<1>4. /\ "log" \in Sems /\ "pipe" \in Sems /\ "domain_read" \in Sems /\ "domain_write" \in Sems
      /\ NameTypeOK /\ cpc \in [Runs -> [Children -> ChildPlaces]] /\ pipe \in [Runs -> Nat]
  BY SemNames DEF TypeOK, ChildTypeOK, SocketTypeOK
<1>5. ASSUME NEW pc, CGoto(r, c, pc) PROVE cpc'[r][c] = pc
  <2>1. cpc' = [cpc EXCEPT ![r] = [cpc[r] EXCEPT ![c] = pc]]
    BY <1>5 DEF CGoto
  <2>2. cpc'[r] = [cpc[r] EXCEPT ![c] = pc]
    BY <1>4, <2>1
  <2> QED
    BY <1>4, <2>2
<1>6. CASE c_log_wait(r, c)
  <2> DEFINE o == sems[r]["log"]
  <2>1. cpc[r][c] = "logwait" /\ cpc'[r][c] = "logging" /\ UNCHANGED pipe /\ sem_wait(r, "log")
    BY <1>5, <1>6 DEF c_log_wait, CAt, socketVars
  <2>2. /\ o \in Runs /\ sems[o]["log"] = o /\ value["log"][o] > 0
        /\ \A x \in Runs : /\ value'["log"][x] = IF x = o THEN value["log"][x] - 1 ELSE value["log"][x]
                          /\ value'["pipe"][x] = value["pipe"][x]
    BY <1>3, <1>4, <2>1, SemEffect
  <2>3. ASSUME NEW x \in Runs, sems[x]["log"] = x PROVE LogLock(x)'
    <3>1. CASE x = o
      <4>1. value["log"][o] = 1 /\ \A q \in Runs, d \in Children : ~HasLog(o, q, d)
        BY <2>2 DEF Locks, LogLock
      <4>2. value'["log"][o] = 0
        BY <2>2, <4>1
      <4>3. HasLog(o, r, c)'
        BY <1>1, <2>1 DEF HasLog
      <4>4. \A q \in Runs, d \in Children : HasLog(o, q, d)' => q = r /\ d = c
        BY <1>1, <1>2, <4>1 DEF HasLog
      <4> QED
        BY <1>1, <3>1, <4>2, <4>3, <4>4 DEF LogLock, HasLog
    <3>2. CASE x # o
      <4>1. \A q \in Runs, d \in Children : HasLog(x, q, d)' <=> HasLog(x, q, d)
        BY <1>1, <1>2, <3>2 DEF HasLog
      <4> QED
        BY <2>2, <2>3, <3>2, <4>1, LogQuiet DEF Locks
    <3> QED
      BY <3>1, <3>2
  <2>4. ASSUME NEW x \in Runs, sems[x]["pipe"] = x PROVE PipeLock(x)'
    <3>1. \A q \in Runs, d \in Children : Writes(x, q, d)' <=> Writes(x, q, d)
      BY <1>1, <1>2, <2>1 DEF Writes
    <3>2. \A q \in Runs : (Filled(x, q)' <=> Filled(x, q)) /\ (Drained(x, q)' <=> Drained(x, q))
      BY <1>1, <2>1 DEF Filled, Drained
    <3> QED
      BY <1>1, <2>1, <2>2, <2>4, <3>1, <3>2, PipeQuiet DEF Locks
  <2> QED
    BY <1>1, <2>3, <2>4 DEF Locks
<1>7. CASE c_log(r, c)
  <2> DEFINE o == sems[r]["log"]
  <2>1. cpc[r][c] = "logging" /\ cpc'[r][c] \in {"getwait", "served"}
        /\ UNCHANGED pipe /\ sem_post(r, "log")
    BY <1>5, <1>7 DEF c_log, CAt, socketVars
  <2>2. /\ o \in Runs /\ sems[o]["log"] = o
        /\ \A x \in Runs : /\ value'["log"][x] = IF x = o THEN value["log"][x] + 1 ELSE value["log"][x]
                          /\ value'["pipe"][x] = value["pipe"][x]
    BY <1>3, <1>4, <2>1, SemEffect
  <2>3. ASSUME NEW x \in Runs, sems[x]["log"] = x PROVE LogLock(x)'
    <3>1. CASE x = o
      <4>1. HasLog(o, r, c)
        BY <2>1 DEF HasLog
      <4>2. value["log"][o] = 0 /\ \A q \in Runs, d \in Children : HasLog(o, q, d) => q = r /\ d = c
        BY <2>2, <4>1 DEF Locks, LogLock
      <4>3. value'["log"][o] = 1
        BY <2>2, <4>2
      <4>4. \A q \in Runs, d \in Children : ~HasLog(o, q, d)'
        BY <1>1, <1>2, <2>1, <4>2 DEF HasLog
      <4> QED
        BY <1>1, <3>1, <4>3, <4>4 DEF LogLock, HasLog
    <3>2. CASE x # o
      <4>1. \A q \in Runs, d \in Children : HasLog(x, q, d)' <=> HasLog(x, q, d)
        BY <1>1, <1>2, <3>2 DEF HasLog
      <4> QED
        BY <2>2, <2>3, <3>2, <4>1, LogQuiet DEF Locks
    <3> QED
      BY <3>1, <3>2
  <2>4. ASSUME NEW x \in Runs, sems[x]["pipe"] = x PROVE PipeLock(x)'
    <3>1. \A q \in Runs, d \in Children : Writes(x, q, d)' <=> Writes(x, q, d)
      BY <1>1, <1>2, <2>1 DEF Writes
    <3>2. \A q \in Runs : (Filled(x, q)' <=> Filled(x, q)) /\ (Drained(x, q)' <=> Drained(x, q))
      BY <1>1, <2>1 DEF Filled, Drained
    <3> QED
      BY <1>1, <2>1, <2>2, <2>4, <3>1, <3>2, PipeQuiet DEF Locks
  <2> QED
    BY <1>1, <2>3, <2>4 DEF Locks
<1>8. CASE c_pipe_wait(r, c)
  <2> DEFINE o == sems[r]["pipe"]
  <2>1. /\ cpc[r][c] = "pipewait" /\ cpc'[r][c] = "write"
        /\ UNCHANGED pipe /\ sem_wait(r, "pipe")
    BY <1>5, <1>8 DEF c_pipe_wait, CAt, socketVars
  <2>2. /\ o \in Runs /\ sems[o]["pipe"] = o /\ value["pipe"][o] > 0
        /\ \A x \in Runs : /\ value'["pipe"][x] = IF x = o THEN value["pipe"][x] - 1 ELSE value["pipe"][x]
                          /\ value'["log"][x] = value["log"][x]
    BY <1>3, <1>4, <2>1, SemEffect
  <2>3. value["pipe"][o] = 1 /\ PipeFree(o)
    BY <2>2 DEF Locks, PipeLock
  <2>4. PipeLock(o)'
    <3>1. Writes(o, r, c)' /\ \A q \in Runs, d \in Children : Writes(o, q, d)' => q = r /\ d = c
      BY <1>1, <1>2, <2>1, <2>3 DEF PipeFree, Writes
    <3>2. \A q \in Runs : ~Filled(o, q)' /\ ~Drained(o, q)'
      BY <1>1, <2>1, <2>3 DEF PipeFree, Filled, Drained
    <3>3. value'["pipe"][o] = 0
      BY <2>2, <2>3
    <3>4. (value["pipe"][o] = 0 /\ PipeWriter(o))'
      BY <1>1, <3>1, <3>2, <3>3 DEF PipeWriter, Writes, Filled, Drained
    <3> QED
      BY <1>1, <3>4 DEF PipeLock
  <2> QED
    BY <1>1, <1>2, <2>1, <2>2, <2>4, LocksMoved
<1>9. CASE c_inform_parent_recv_finished(r, c)
  <2> DEFINE o == sems[r]["pipe"]
  <2>1. cpc[r][c] = "write" /\ UNCHANGED value
    BY <1>9 DEF c_inform_parent_recv_finished, CAt, nameVars
  <2>2. o \in Runs /\ sems[o]["pipe"] = o
    BY <1>3, <1>4 DEF NameTypeOK
  <2>3. CASE UNCHANGED <<cpc, pipe>>
    BY <1>1, <2>1, <2>3, LocksQuiet
  <2>4. CASE cpc'[r][c] = "logwait" /\ pipe' = [pipe EXCEPT ![r] = @ + 1]
    <3>1. Writes(o, r, c)
      BY <2>1 DEF Writes
    <3>2. value["pipe"][o] = 0 /\ PipeWriter(o)
      BY <2>2, <3>1 DEF Locks, PipeLock, PipeFree, PipeFull, PipeReader
    <3>3. pipe[r] = 0
      BY <1>4, <3>2 DEF PipeWriter, Filled
    <3>4. pipe'[r] = 1 /\ \A q \in Runs : q # r => pipe'[q] = pipe[q]
      BY <1>4, <2>4, <3>3
    <3>5. \A q \in Runs, d \in Children : Writes(o, q, d) => q = r /\ d = c
      BY <3>1, <3>2 DEF PipeWriter
    <3>6. \A q \in Runs : ~Drained(o, q)' /\ \A d \in Children : ~Writes(o, q, d)'
      BY <1>1, <1>2, <2>4, <3>2, <3>5 DEF PipeWriter, Drained, Writes
    <3>7. Filled(o, r)' /\ \A q \in Runs : Filled(o, q)' => q = r
      BY <1>1, <3>2, <3>4 DEF PipeWriter, Filled
    <3>8. (value["pipe"][o] = 0 /\ PipeFull(o))'
      BY <1>1, <2>1, <3>2, <3>4, <3>6, <3>7 DEF PipeFull, Writes, Filled, Drained
    <3>9. PipeLock(o)'
      BY <1>1, <3>8 DEF PipeLock
    <3> QED
      BY <1>1, <1>2, <2>1, <2>2, <2>4, <3>4, <3>9, LocksMoved
  <2> QED
    BY <1>5, <1>9, <2>3, <2>4 DEF c_inform_parent_recv_finished
<1>10. CASE \/ c_setup_child(r, c) \/ c_end_gogo_handler(r, c) \/ c_read_wait(r, c)
            \/ c_recvmsg(r, c) \/ c_post_room(r, c) \/ c_exit(r, c) \/ c_interrupted(r, c)
  <2>1. UNCHANGED pipe
    BY <1>10 DEF c_setup_child, c_end_gogo_handler, c_read_wait, c_recvmsg, c_post_room, c_exit,
              c_interrupted, socketVars
  <2>2. \/ UNCHANGED value \/ sem_wait(r, "domain_read") \/ sem_post(r, "domain_write")
    BY <1>10 DEF c_setup_child, c_end_gogo_handler, c_read_wait, c_recvmsg, c_post_room, c_exit,
              c_interrupted, nameVars, RoomAfter
  <2>3. \A o \in Runs : value'["log"][o] = value["log"][o] /\ value'["pipe"][o] = value["pipe"][o]
    BY <1>3, <1>4, <2>2, SemEffect
  <2>4. \/ UNCHANGED cpc
        \/ /\ cpc[r][c] \notin {"logging", "write"}
           /\ \E pc \in ChildPlaces \ {"logging", "write"} : CGoto(r, c, pc)
    BY <1>10 DEF c_setup_child, c_end_gogo_handler, c_read_wait, c_recvmsg, c_post_room, c_exit,
              c_interrupted, CAt, ChildPlaces
  <2>5. \/ UNCHANGED cpc
        \/ cpc[r][c] \notin {"logging", "write"} /\ cpc'[r][c] \notin {"logging", "write"}
    BY <1>5, <2>4
  <2>6. \A q \in Runs, d \in Children :
           /\ cpc'[q][d] = "logging" <=> cpc[q][d] = "logging"
           /\ cpc'[q][d] = "write" <=> cpc[q][d] = "write"
    BY <1>2, <2>5
  <2> QED
    BY <1>1, <2>1, <2>3, <2>6, LocksQuiet
<1> QED
  BY <1>6, <1>7, <1>8, <1>9, <1>10 DEF ChildStep

LEMMA LocksByParent ==
    ASSUME TypeOK, Life, Creators, Locks, NEW r \in Runs, ParentStep(r) \/ kill_process(r)
    PROVE  Locks'
<1>1. CASE open_semaphores(r)
  BY <1>1, LocksOpened
<1>2. ppc \in [Runs -> Looping \cup {"open", "fork", "setup", "kill", "reap", "unlink", "exit"}]
      /\ pipe \in [Runs -> Nat] /\ NameTypeOK
      /\ "pipe" \in Sems /\ "log" \in Sems /\ "domain_read" \in Sems /\ "domain_write" \in Sems
  BY SemNames DEF TypeOK, ParentTypeOK, SocketTypeOK
<1>3. CASE p_read_pipe_reenable_fd(r)
  <2> DEFINE o == sems[r]["pipe"]
  <2>1. /\ ppc[r] = "poll" /\ pipe[r] > 0 /\ pipe' = [pipe EXCEPT ![r] = @ - 1]
        /\ PGoto(r, "drained") /\ UNCHANGED <<value, sems, cpc>>
    BY <1>3 DEF p_read_pipe_reenable_fd, PAt, childVars, nameVars
  <2>2. o \in Runs /\ sems[o]["pipe"] = o
    <3>1. sems[r]["pipe"] # NoRun
      BY <1>2, <2>1 DEF Life, OpenOf
    <3> QED
      BY <1>2, <3>1 DEF Creators, NameTypeOK
  <2>3. value["pipe"][o] = 0 /\ PipeFull(o)
    BY <1>2, <2>1, <2>2 DEF Locks, PipeLock, PipeFree, PipeWriter, PipeReader, Filled
  <2>4. pipe[r] = 1 /\ \A q \in Runs : Filled(o, q) => q = r
    BY <1>2, <2>1, <2>3 DEF PipeFull, Filled
  <2>5. pipe'[r] = 0 /\ \A q \in Runs : q # r => pipe'[q] = pipe[q]
    BY <1>2, <2>1, <2>4
  <2>6. \A q \in Runs : ppc'[q] = IF q = r THEN "drained" ELSE ppc[q]
    BY <1>2, <2>1 DEF PGoto
  <2>7. \A q \in Runs : ~Filled(o, q)' /\ \A d \in Children : ~Writes(o, q, d)'
    BY <2>1, <2>3, <2>4, <2>5 DEF PipeFull, Filled, Writes
  <2>8. Drained(o, r)' /\ \A q \in Runs : Drained(o, q)' => q = r
    BY <2>1, <2>3, <2>6 DEF PipeFull, Drained
  <2>9. (value["pipe"][o] = 0 /\ PipeReader(o))'
    BY <2>1, <2>3, <2>7, <2>8 DEF PipeReader, Filled, Drained, Writes
  <2>10. PipeLock(o)'
    BY <2>1, <2>9 DEF PipeLock
  <2> QED
    BY <2>1, <2>2, <2>5, <2>6, <2>10, LocksMoved
<1>4. CASE p_post_pipe(r)
  <2> DEFINE o == sems[r]["pipe"]
  <2>1. /\ ppc[r] = "drained" /\ PGoto(r, "poll") /\ sem_post(r, "pipe")
        /\ UNCHANGED <<sems, cpc, pipe>>
    BY <1>4 DEF p_post_pipe, PAt, childVars, socketVars
  <2>2. sems[r]["pipe"] # NoRun /\ sems[o]["pipe"] = o
    BY <1>2, <2>1 DEF Life, OpenOf, Creators
  <2>3. /\ o \in Runs
        /\ \A x \in Runs : /\ value'["pipe"][x] = IF x = o THEN value["pipe"][x] + 1 ELSE value["pipe"][x]
                          /\ value'["log"][x] = value["log"][x]
    BY <1>2, <2>1, <2>2, SemEffect
  <2>4. value["pipe"][o] = 0 /\ PipeReader(o)
    BY <2>1, <2>2, <2>3 DEF Locks, PipeLock, PipeFree, PipeWriter, PipeFull, Drained
  <2>5. \A q \in Runs : ppc'[q] = IF q = r THEN "poll" ELSE ppc[q]
    BY <1>2, <2>1 DEF PGoto
  <2>6. \A q \in Runs : Drained(o, q) => q = r
    BY <2>1, <2>4 DEF PipeReader, Drained
  <2>7. \A q \in Runs : ~Filled(o, q)' /\ ~Drained(o, q)' /\ \A d \in Children : ~Writes(o, q, d)'
    BY <2>1, <2>4, <2>5, <2>6 DEF PipeReader, Filled, Drained, Writes
  <2>8. value'["pipe"][o] = 1
    BY <2>3, <2>4
  <2>9. (value["pipe"][o] = 1 /\ PipeFree(o))'
    BY <2>1, <2>7, <2>8 DEF PipeFree, Filled, Drained, Writes
  <2>10. PipeLock(o)'
    BY <2>1, <2>9 DEF PipeLock
  <2> QED
    BY <2>1, <2>2, <2>3, <2>5, <2>10, LocksMoved
<1>5. CASE p_send_wait(r) \/ p_announce(r)
  <2>1. ppc[r] \in {"sendwait", "sent"} /\ UNCHANGED <<sems, cpc, pipe>>
        /\ (sem_wait(r, "domain_write") \/ sem_post(r, "domain_read"))
    BY <1>5 DEF p_send_wait, p_announce, PAt, childVars, socketVars
  <2>2. sems[r]["domain_read"] # NoRun /\ sems[r]["domain_write"] # NoRun
    BY <1>2, <2>1 DEF Life, OpenOf
  <2>3. \A o \in Runs : value'["log"][o] = value["log"][o] /\ value'["pipe"][o] = value["pipe"][o]
    BY <1>2, <2>1, <2>2, SemEffect
  <2>4. \A q \in Runs : ppc'[q] = "drained" <=> ppc[q] = "drained"
    BY <1>2, <1>5 DEF p_send_wait, p_announce, PAt, PGoto
  <2> QED
    BY <2>1, <2>3, <2>4, LocksQuiet
<1>6. CASE \/ setup_process_server(r) \/ fork_child_process(r) \/ p_setup_parent(r)
           \/ setup_fails(r) \/ setup_crashes(r) \/ p_dispatch(r) \/ p_send_to_child(r)
           \/ p_end_gogo_handler(r) \/ p_signal_children(r) \/ p_waitpid(r) \/ p_interrupted(r)
           \/ unlink_semaphores(r) \/ p_exit(r) \/ kill_process(r)
  <2>1. UNCHANGED <<value, sems, cpc, pipe>>
    BY <1>6 DEF setup_process_server, fork_child_process, p_setup_parent, setup_fails, setup_crashes,
              p_dispatch, p_send_to_child, p_end_gogo_handler, p_signal_children, p_waitpid,
              p_interrupted, unlink_semaphores, p_exit, kill_process, nameVars, childVars, socketVars
  <2>2. \A q \in Runs : ppc'[q] = "drained" <=> ppc[q] = "drained"
    BY <1>2, <1>6
    DEF setup_process_server, fork_child_process, p_setup_parent, setup_fails, setup_crashes,
        CloseAfterError, p_dispatch, p_send_to_child, p_end_gogo_handler, p_signal_children,
        p_waitpid, p_interrupted, unlink_semaphores, p_exit, kill_process, PAt, PGoto
  <2> QED
    BY <2>1, <2>2, LocksQuiet
<1> QED
  BY <1>1, <1>3, <1>4, <1>5, <1>6 DEF ParentStep

(***************************************************************************)
(* Theorems.                                                               *)
(***************************************************************************)

LEMMA IInvInvariant == Spec => [](IInv /\ Locks)
<1>1. Init => IInv /\ Locks
  <2>1. Init => Locks
    BY RunsAssumption, SemNames DEF Init, Locks
  <2> QED
    BY <2>1, InitTypes, LifeInit DEF IInv
<1>2. IInv /\ Locks /\ [Next]_vars => (IInv /\ Locks)'
  <2> SUFFICES ASSUME IInv, Locks, [Next]_vars PROVE (IInv /\ Locks)'
    OBVIOUS
  <2>1. IInv'
    BY TypesKept, LifeKept, CreatorsKept DEF IInv
  <2>2. ASSUME UNCHANGED vars PROVE Locks'
    BY <2>2, LocksQuiet DEF vars, nameVars, parentVars, childVars, socketVars
  <2>3. ASSUME Next PROVE Locks'
    BY <2>3, LocksByChild, LocksByParent DEF Next, IInv
  <2> QED
    BY <2>1, <2>2, <2>3
<1> QED
  BY <1>1, <1>2, PTL DEF Spec

LEMMA NamesHeld == IInv => NamesLeftByFailure
<1> SUFFICES ASSUME IInv, NEW s \in Sems, names[s] # NoRun
             PROVE  parent[names[s]] \in {"alive", "killed"} \/ Abandoned(names[s])
  BY DEF NamesLeftByFailure
<1> DEFINE o == names[s]
<1>1. o \in Runs /\ sems[o][s] = o /\ parent[o] \in Ended
  BY DEF IInv, TypeOK, NameTypeOK, ParentTypeOK, Creators
<1>2. PICK i \in 1 .. 4 : s = Order[i]
  BY DEF Sems
<1>3. parent[o] # "none"
  BY <1>1, <1>2, RunsAssumption DEF IInv, Life, LifeOf, OpenOf
<1>4. ppc[o] # "exit"
  BY <1>1, <1>2 DEF IInv, Creators
<1> QED
  BY <1>1, <1>3, <1>4 DEF IInv, Life, LifeOf, Abandoned, Ended

\* The four names are left behind only by a run that was killed or gave its setup up.
THEOREM NamesLeftOnlyByFailure == Spec => []NamesLeftByFailure
  BY NamesHeld, IInvInvariant, PTL

\* A child outlives its parent's files only when the parent was killed or gave its setup up, or when
\* the wait for that child was ended by a further signal, and then it has been told to stop.
THEOREM OrphansAreAccountedFor == Spec => []OrphansAccountedFor
<1>1. IInv => OrphansAccountedFor
  <2> SUFFICES ASSUME IInv, NEW r \in Runs, NEW c \in Children, child[r][c] = "alive",
                      PastItsFiles(r), parent[r] # "killed", ~Abandoned(r)
               PROVE  c \in given_up[r] /\ (c \in pending[r] \/ ~gogo[r][c])
    BY DEF OrphansAccountedFor
  <2>1. LifeOf(r) /\ ToldOf(r) /\ parent[r] \in Ended
    BY DEF IInv, Life, TypeOK, ParentTypeOK
  <2>2. ppc[r] # "open"
    BY <2>1 DEF LifeOf
  <2>3. ppc[r] \in {"unlink", "exit"}
    BY <2>1, <2>2 DEF LifeOf, PastItsFiles, Abandoned, Ended
  <2> QED
    BY <2>1, <2>3 DEF ToldOf
<1> QED
  BY <1>1, IInvInvariant, PTL

\* p_destroy_parent_state signals no process it has not forked.
THEOREM KillsOnlyOwnChildren == Spec => []KillsOnlyChildren
<1>1. IInv => KillsOnlyChildren
  BY DEF IInv, Life, LifeOf, Forked, KillsOnlyChildren
<1> QED
  BY <1>1, IInvInvariant, PTL

\* The pipe semaphore and the log semaphore are free or taken by one, however many runs use them.
THEOREM LocksAreConserved == Spec => []LocksConserved
<1>1. ASSUME IInv, Locks, NEW o \in Runs, Users("log", o) # {}
      PROVE  OneHolder(value["log"][o], ChildrenAt(Users("log", o), {"logging"}))
  <2> DEFINE H == ChildrenAt(Users("log", o), {"logging"})
  <2>1. LogLock(o)
    BY <1>1, SemNames, RunsAssumption DEF Users, IInv, Creators, Locks
  <2>2. \A x : x \in H <=> \E q \in Runs, d \in Children : x = <<q, d>> /\ HasLog(o, q, d)
    BY DEF ChildrenAt, Users, HasLog
  <2>3. CASE value["log"][o] = 1 /\ \A r \in Runs, c \in Children : ~HasLog(o, r, c)
    BY <2>2, <2>3 DEF OneHolder
  <2>4. CASE /\ value["log"][o] = 0
             /\ \E r \in Runs, c \in Children :
                   /\ HasLog(o, r, c)
                   /\ \A q \in Runs, d \in Children : HasLog(o, q, d) => q = r /\ d = c
    <3>1. PICK r \in Runs, c \in Children :
               /\ HasLog(o, r, c)
               /\ \A q \in Runs, d \in Children : HasLog(o, q, d) => q = r /\ d = c
      BY <2>4
    <3>2. <<r, c>> \in H /\ H = {<<r, c>>}
      BY <2>2, <3>1
    <3> QED
      BY <2>4, <3>2 DEF OneHolder
  <2> QED
    BY <2>1, <2>3, <2>4 DEF LogLock
<1>2. ASSUME IInv, Locks, NEW o \in Runs, Users("pipe", o) # {}
      PROVE  /\ \A r \in Users("pipe", o) : pipe[r] <= 1
             /\ OneHolder(value["pipe"][o],
                          {<<r>> : r \in {q \in Users("pipe", o) : pipe[q] = 1}}
                            \cup ChildrenAt(Users("pipe", o), {"write"})
                            \cup {<<r, NoRun>> : r \in ParentsAt(Users("pipe", o), "drained")})
  <2> DEFINE F == {<<r>> : r \in {q \in Users("pipe", o) : pipe[q] = 1}}
             W == ChildrenAt(Users("pipe", o), {"write"})
             D == {<<r, NoRun>> : r \in ParentsAt(Users("pipe", o), "drained")}
  <2>1. PipeLock(o)
    BY <1>2, SemNames, RunsAssumption DEF Users, IInv, Creators, Locks
  <2>2. \A x : x \in W <=> \E q \in Runs, d \in Children : x = <<q, d>> /\ Writes(o, q, d)
    BY DEF ChildrenAt, Users, Writes
  <2>3. \A x : x \in F <=> \E q \in Runs : x = <<q>> /\ Filled(o, q) /\ pipe[q] = 1
    BY DEF Users, Filled
  <2>4. \A x : x \in D <=> \E q \in Runs : x = <<q, NoRun>> /\ Drained(o, q)
    BY DEF ParentsAt, Users, Drained
  <2>5. \A r \in Users("pipe", o) : r \in Runs /\ (pipe[r] # 0 <=> Filled(o, r))
    BY DEF Users, Filled
  <2> HIDE DEF F, W, D
  <2>6. CASE value["pipe"][o] = 1 /\ PipeFree(o)
    <3>1. F = {} /\ W = {} /\ D = {}
      BY <2>2, <2>3, <2>4, <2>6 DEF PipeFree
    <3> QED
      BY <2>5, <2>6, <3>1 DEF OneHolder, PipeFree, F, W, D
  <2>7. CASE value["pipe"][o] = 0 /\ PipeFull(o)
    <3>1. PICK r \in Runs : Filled(o, r) /\ pipe[r] = 1 /\ \A q \in Runs : Filled(o, q) => q = r
      BY <2>7 DEF PipeFull
    <3>2. W = {} /\ D = {}
      BY <2>2, <2>4, <2>7 DEF PipeFull
    <3>3. <<r>> \in F /\ F = {<<r>>}
      BY <2>3, <3>1
    <3>4. \A q \in Users("pipe", o) : pipe[q] <= 1
      BY <2>5, <3>1
    <3> QED
      BY <2>7, <3>2, <3>3, <3>4 DEF OneHolder, F, W, D
  <2>8. CASE value["pipe"][o] = 0 /\ PipeWriter(o)
    <3>1. PICK r \in Runs, c \in Children :
               /\ Writes(o, r, c)
               /\ \A q \in Runs, d \in Children : Writes(o, q, d) => q = r /\ d = c
      BY <2>8 DEF PipeWriter
    <3>2. F = {} /\ D = {}
      BY <2>3, <2>4, <2>8 DEF PipeWriter
    <3>3. <<r, c>> \in W /\ W = {<<r, c>>}
      BY <2>2, <3>1
    <3>4. \A q \in Users("pipe", o) : pipe[q] <= 1
      BY <2>5, <2>8 DEF PipeWriter
    <3> QED
      BY <2>8, <3>2, <3>3, <3>4 DEF OneHolder, F, W, D
  <2>9. CASE value["pipe"][o] = 0 /\ PipeReader(o)
    <3>1. PICK r \in Runs : Drained(o, r) /\ \A q \in Runs : Drained(o, q) => q = r
      BY <2>9 DEF PipeReader
    <3>2. F = {} /\ W = {}
      BY <2>2, <2>3, <2>9 DEF PipeReader
    <3>3. <<r, NoRun>> \in D /\ D = {<<r, NoRun>>}
      BY <2>4, <3>1
    <3>4. \A q \in Users("pipe", o) : pipe[q] <= 1
      BY <2>5, <2>9 DEF PipeReader
    <3> QED
      BY <2>9, <3>2, <3>3, <3>4 DEF OneHolder, F, W, D
  <2> QED
    BY <2>1, <2>6, <2>7, <2>8, <2>9 DEF PipeLock
<1>3. IInv /\ Locks => LocksConserved
  BY <1>1, <1>2 DEF LocksConserved
<1> QED
  BY <1>3, IInvInvariant, PTL
=============================================================================
