---------------------------- MODULE OneToOneProofs ----------------------------
(***************************************************************************)
(* Proofs about the one-to-one server: the invariants its runs check, and  *)
(* that it implements a connection table of one place.                     *)
(***************************************************************************)
EXTENDS OneToOneServer, FiniteSetTheorems, TLAPS

Handling == pc \in {"await_head", "head", "await_body", "body", "respond"}

\* Only client_fd may be a connection, and it is one while a client is served and none while the
\* next is waited for; a connection is open, in the backlog, or neither.
ClientInv ==
    /\ \A f \in Fds : open[f] \in Conns => f = client_fd
    /\ Calling("RUN_SERVER") /\ Handling => open[client_fd] \in Conns
    /\ Calling("RUN_SERVER") /\ pc \in {"listen", "accept"} => open[client_fd] \notin Conns
    /\ \A k \in backlog : peer[k] # "none" /\ \A f \in Fds : open[f] # k
    /\ \A f \in Fds : open[f] \in Conns => peer[open[f]] # "none"

\* What is left to receive of the message.
MessageInv ==
    /\ pc \in {"await_body", "body"} => bytes_read < Body
    /\ pc = "respond" => bytes_read = Body

\* Until the library is loaded, initialize_server is what will be called.
CoreInv == core \in {"setup", "load"} => next_state = "INITIALIZE_SERVER"

TypeInv == TypeOK /\ CoreInv /\ ClientInv /\ MessageInv

USE DEF Calling, NoReply, ClientTypeOK

LEMMA InitTypeInv == Init => TypeInv
<1> SUFFICES ASSUME Init PROVE TypeInv
  OBVIOUS
<1> USE ConnsAssumption, BodyAssumption, FdsAssumption, SignalsAssumption
    DEF Init, InitCore, InitKernel
<1>1. TypeOK
  <2>1. CoreTypeOK /\ KernelTypeOK
    BY DEF CoreTypeOK, KernelTypeOK, Server_States
  <2>2. ClientTypeOK
    BY DEF ClientTypeOK
  <2>3. so \in BOOLEAN /\ handler \in BOOLEAN /\ listening \in BOOLEAN
    BY Zenon
  <2>4. bytes_read \in 0 .. Body /\ self_pipe \in 0 .. MaxSignals /\ client_fd \in Fds
    OBVIOUS
  <2>5. pc = "idle"
    OBVIOUS
  <2> QED
    BY <2>1, <2>2, <2>3, <2>4, <2>5, Zenon DEF TypeOK
<1>2. CoreInv /\ ClientInv /\ MessageInv
  BY DEF CoreInv, ClientInv, MessageInv, Handling
<1> QED
  BY <1>1, <1>2 DEF TypeInv

\* What the server does to the clients.
LEMMA ServerTypeInv == TypeInv /\ ServerStep => TypeInv'
<1> SUFFICES ASSUME TypeInv, ServerStep PROVE TypeInv'
  OBVIOUS
<1> USE ConnsAssumption, BodyAssumption, FdsAssumption
    DEF TypeInv, TypeOK, CoreTypeOK, KernelTypeOK, CoreInv, ClientInv, MessageInv, Handling,
        setupVars, serverVars, coreVars, kernelVars, clientVars, Server_States
<1>1. CASE CoreStep
  BY <1>1 DEF CoreStep, setup_core_object, get_api, run_core_exit, Fail
<1>2. CASE setup_state_fails
  BY <1>2 DEF setup_state_fails, Returns, StatusAfter
<1>10. CASE open_server_for_listen
  <2>1. CoreTypeOK' /\ CoreInv' /\ ClientInv' /\ MessageInv'
    BY <1>10 DEF open_server_for_listen, Returns, StatusAfter
  <2>2. handler' \in BOOLEAN /\ listening' \in BOOLEAN /\ so' \in BOOLEAN
    BY <1>10, Zenon DEF open_server_for_listen
  <2> QED
    BY <1>10, <2>1, <2>2 DEF open_server_for_listen
<1>3. CASE close_client
  BY <1>3 DEF close_client, At, ClosedBefore
<1>4. CASE check_fd
  BY <1>4 DEF check_fd, Waiting, AfterWait, PipeReady, Termination, Returns, StatusAfter
<1>5. CASE accept_conn
  BY <1>5 DEF accept_conn, At, LowestFreeFd, FdOnError, Returns, StatusAfter
<1>6. CASE recv_length
  BY <1>6 DEF recv_length, At, Receive, HasData, AfterClosed, Client, Returns, StatusAfter
<1>7. CASE recv_body
  <2> DEFINE next == IF BodyDone(bytes_read + 1) THEN "respond" ELSE "await_body"
             k == open[client_fd]
  <2>1. k \in Conns /\ At("body")
    BY <1>7 DEF recv_body, At
  <2>2. CASE HasData(k)
    <3>1. bytes_read' = bytes_read + 1 /\ bytes_read + 1 \in 0 .. Body
      BY <1>7, <2>1, <2>2 DEF recv_body, Client, At
    <3>2. next = "respond" => bytes_read + 1 = Body
      BY <3>1 DEF BodyDone
    <3>3. next = "await_body" => bytes_read + 1 < Body
      BY <3>1 DEF BodyDone
    <3>4. next \in {"respond", "await_body"}
      OBVIOUS
    <3> HIDE DEF next
    <3> QED
      BY <1>7, <2>1, <2>2, <3>1, <3>2, <3>3, <3>4
         DEF recv_body, At, Receive, HasData, AtEof, RecvFails, AfterClosed, Client, Returns, StatusAfter, next
  <2>3. CASE ~HasData(k)
    <3> HIDE DEF next
    <3> QED
      BY <1>7, <2>1, <2>3 DEF recv_body, At, Receive, AfterClosed, Client, Returns, StatusAfter
  <2> QED
    BY <2>2, <2>3
<1>8. CASE respond
  BY <1>8 DEF respond, At, Answer, Client, IsReset, Returns, StatusAfter
<1>9. CASE destroy_state \/ destroy_no_state
  BY <1>9 DEF destroy_state, destroy_no_state, Returns, StatusAfter
<1> QED
  BY <1>1, <1>2, <1>10, <1>3, <1>4, <1>5, <1>6, <1>7, <1>8, <1>9 DEF ServerStep

LEMMA EnvTypeInv == TypeInv /\ (EnvStep \/ handle_sigint) => TypeInv'
<1> SUFFICES ASSUME TypeInv, EnvStep \/ handle_sigint PROVE TypeInv'
  OBVIOUS
<1> USE ConnsAssumption, BodyAssumption, FdsAssumption, SignalsAssumption
    DEF TypeInv, TypeOK, CoreTypeOK, KernelTypeOK, CoreInv, ClientInv, MessageInv, Handling,
        setupVars, serverVars, coreVars, kernelVars, clientVars, Server_States
<1>1. CASE handle_sigint
  BY <1>1 DEF handle_sigint, Killed
<1>2. ASSUME NEW k \in Conns, ClientMoves(k) \/ RstArrives(k) PROVE TypeInv'
  BY <1>2 DEF ClientMoves, ClientStep, ClientWrite, ClientClose, RstArrives, DeliverRst,
              ServerUnchanged
<1>3. ASSUME NEW k \in Conns, ClientConnect(k), ServerUnchanged PROVE TypeInv'
  BY <1>3 DEF ClientConnect, ServerUnchanged
<1>4. ASSUME NEW k \in Conns, ClientAbort(k) \/ ClientReset(k), ServerUnchanged PROVE TypeInv'
  BY <1>4 DEF ClientAbort, ClientReset, ServerUnchanged
<1> QED
  BY <1>1, <1>2, <1>3, <1>4 DEF EnvStep

LEMMA TypeInvariant == Spec => []TypeInv
<1>1. TypeInv /\ UNCHANGED vars => TypeInv'
  BY DEF vars, coreVars, serverVars, setupVars, kernelVars, clientVars, TypeInv, TypeOK,
         CoreTypeOK, KernelTypeOK, CoreInv, ClientInv, MessageInv, Handling
<1>2. TypeInv /\ [Next]_vars => TypeInv'
  BY <1>1, ServerTypeInv, EnvTypeInv DEF Next
<1> QED
  BY <1>2, InitTypeInv, PTL DEF Spec

\* A message is being answered only when all of it has come.
ReplyInv == \A k \in Conns : peer[k] \in {"none", "open"} => reply[k] \in {NoReply, Body}

LEMMA ReplyInvariant == Spec => []ReplyInv
<1>1. Init => ReplyInv
  BY DEF Init, InitKernel, ReplyInv
<1>2. TypeInv /\ ReplyInv /\ [Next]_vars => ReplyInv'
  <2> SUFFICES ASSUME TypeInv, ReplyInv, [Next]_vars,
                      NEW k \in Conns, peer'[k] \in {"none", "open"}
               PROVE  reply'[k] \in {NoReply, Body}
    BY DEF ReplyInv
  <2> USE DEF TypeInv, TypeOK, ReplyInv, clientVars
  <2>1. CASE respond
    BY <2>1 DEF respond, At, Answer, Client, MessageInv, ClientInv, Handling
  <2>2. CASE ServerStep /\ ~respond
    BY <2>2 DEF ServerStep, CoreStep, setup_state_fails, open_server_for_listen, close_client,
                check_fd, accept_conn, recv_length, recv_body, Receive, destroy_state,
                destroy_no_state
  <2>3. CASE handle_sigint
    BY <2>3 DEF handle_sigint
  <2>4. CASE EnvStep
    BY <2>4 DEF EnvStep, ClientMoves, ClientStep, ClientWrite, ClientClose, RstArrives,
                DeliverRst, ClientConnect, ClientAbort, ClientReset
  <2>5. CASE UNCHANGED vars
    BY <2>5 DEF vars
  <2> QED
    BY <2>1, <2>2, <2>3, <2>4, <2>5 DEF Next
<1> QED
  BY <1>1, <1>2, TypeInvariant, PTL DEF Spec

-----------------------------------------------------------------------------
(* Why the server ends. *)

Cause == ~listening \/ pc = "accept" \/ \E k \in Conns : IsReset(k)

\* An error has a cause and an orderly end a signal, from the return of run_server to the exit.
StatusInv ==
    /\ listening => handler /\ so
    /\ next_state = "INITIALIZE_SERVER" => ~listening
    /\ next_state \in {"INITIALIZE_SERVER", "RUN_SERVER", "CLOSE_SERVER"} /\ core # "exited" =>
          exit_status = "success"
    /\ next_state = "CLOSE_SERVER" => self_pipe > 0
    /\ next_state = "EXIT" /\ exit_status = "success" => self_pipe > 0
    /\ next_state = "ERROR" => Cause
    /\ exit_status = "failure" => Cause
    /\ core = "exited" => exit_status = "failure" \/ next_state = "EXIT"

LEMMA CauseStays ==
    ASSUME TypeInv, Cause, listening => handler, UNCHANGED listening, pc' = pc \/ (~handler /\ pc' = "killed"),
           \A k \in Conns : IsReset(k) => IsReset(k)'
    PROVE  Cause'
<1> QED
  BY DEF Cause

LEMMA StatusServer == TypeInv /\ StatusInv /\ ServerStep => StatusInv'
<1> SUFFICES ASSUME TypeInv, StatusInv, ServerStep PROVE StatusInv'
  OBVIOUS
<1> USE ConnsAssumption
    DEF StatusInv, coreVars, setupVars, serverVars, clientVars, kernelVars
<1>1. CASE CoreStep
  BY <1>1 DEF CoreStep, setup_core_object, get_api, run_core_exit, Fail, Cause, IsReset,
              TypeInv, CoreInv
<1>2. CASE setup_state_fails \/ open_server_for_listen
  BY <1>2 DEF setup_state_fails, open_server_for_listen, Returns, StatusAfter, Cause, IsReset
<1>3. CASE close_client
  BY <1>3 DEF close_client, At, Cause, IsReset
<1>4. CASE check_fd
  BY <1>4 DEF check_fd, Waiting, PipeReady, Termination, Returns, StatusAfter
<1>5. CASE accept_conn
  BY <1>5 DEF accept_conn, At, Returns, StatusAfter, Cause
<1>6. CASE recv_length \/ recv_body
  <2>1. open[client_fd] \in Conns
    BY <1>6 DEF recv_length, recv_body, At, TypeInv, ClientInv, Handling
  <2> QED
    BY <1>6, <2>1 DEF recv_length, recv_body, At, Receive, RecvFails, Client, Returns,
                      StatusAfter, Cause, IsReset
<1>7. CASE respond
  <2>1. open[client_fd] \in Conns
    BY <1>7 DEF respond, At, TypeInv, ClientInv, Handling
  <2> QED
    BY <1>7, <2>1 DEF respond, At, Answer, Client, Returns, StatusAfter, Cause, IsReset
<1>8. CASE destroy_state \/ destroy_no_state
  BY <1>8 DEF destroy_state, destroy_no_state, Returns, StatusAfter, Cause, IsReset
<1> QED
  BY <1>1, <1>2, <1>3, <1>4, <1>5, <1>6, <1>7, <1>8 DEF ServerStep

LEMMA StatusInvariant == Spec => []StatusInv
<1>1. Init => StatusInv
  BY DEF Init, InitCore, StatusInv, Cause
<1>2. TypeInv /\ StatusInv /\ (EnvStep \/ handle_sigint \/ UNCHANGED vars) => StatusInv'
  <2> SUFFICES ASSUME TypeInv, StatusInv, EnvStep \/ handle_sigint \/ UNCHANGED vars
               PROVE  StatusInv'
    OBVIOUS
  <2> USE DEF StatusInv, coreVars, setupVars, serverVars, clientVars, kernelVars
  <2>1. \A k \in Conns : IsReset(k) => IsReset(k)'
    BY DEF IsReset, EnvStep, ClientMoves, ClientStep, ClientWrite, ClientClose, RstArrives,
           DeliverRst, ClientConnect, ClientAbort, ClientReset, handle_sigint, vars,
           TypeInv, TypeOK
  <2>2. UNCHANGED <<core, next_state, exit_status, listening, handler, so>>
    BY DEF EnvStep, ClientMoves, RstArrives, ServerUnchanged, handle_sigint, vars
  <2>3. self_pipe' = self_pipe \/ self_pipe' = self_pipe + 1
    BY DEF EnvStep, ClientMoves, RstArrives, ServerUnchanged, handle_sigint, vars
  <2>4. pc' = pc \/ (~handler /\ pc' = "killed")
    BY DEF EnvStep, ClientMoves, RstArrives, ServerUnchanged, handle_sigint, vars
  <2>5. Cause => Cause'
    BY <2>1, <2>2, <2>4, CauseStays
  <2> QED
    BY <2>2, <2>3, <2>5 DEF TypeInv, TypeOK
<1>3. TypeInv /\ StatusInv /\ [Next]_vars => StatusInv'
  BY <1>2, StatusServer DEF Next
<1> QED
  BY <1>1, <1>3, TypeInvariant, PTL DEF Spec

\* Every variable keeps its type, for any numbers of clients, descriptors and signals.
THEOREM OneTypeCorrect == Spec => []TypeOK
<1>1. TypeInv => TypeOK
  BY DEF TypeInv
<1> QED
  BY <1>1, TypeInvariant, PTL

\* A client that is still there is only answered with the length of its whole message, for any
\* message length and any faults.
THEOREM OneReplyWhole == Spec => []ReplyOnlyWhole
<1>1. ReplyInv => ReplyOnlyWhole
  BY DEF ReplyInv, ReplyOnlyWhole
<1> QED
  BY <1>1, ReplyInvariant, PTL

\* The exit status tells a shutdown asked for from an error, and an error has a cause.
THEOREM StatusTold == Spec => []StatusTellsWhy
<1>1. TypeInv /\ StatusInv => StatusTellsWhy
  BY DEF TypeInv, TypeOK, CoreTypeOK, StatusInv, StatusTellsWhy, Cause
<1> QED
  BY <1>1, TypeInvariant, StatusInvariant, PTL

-----------------------------------------------------------------------------
(* The connection table. *)

\* A step that leaves descriptors and backlog alone leaves the table alone.
LEMMA TableSame ==
    ASSUME UNCHANGED <<open, backlog>>, \A k \in Conns : peer'[k] = "none" <=> peer[k] = "none"
    PROVE  TableNow' = TableNow
<1>1. \A k \in Conns : TableOf(k)' = TableOf(k)
  BY DEF TableOf
<1> QED
  BY <1>1 DEF TableNow

\* Closing client_fd, and what is no connection besides, drops the client, if there is one.
LEMMA TableDrop ==
    ASSUME TypeInv, UNCHANGED <<backlog, peer>>, NEW D \in SUBSET Fds, client_fd \in D,
           open' = [f \in Fds |-> IF f \in D THEN NoConn ELSE open[f]]
    PROVE  TableNow' = [k \in Conns |-> IF TableNow[k] = "watched" THEN "gone" ELSE TableNow[k]]
<1> USE ConnsAssumption DEF TypeInv, ClientInv
<1> SUFFICES ASSUME NEW k \in Conns
             PROVE  TableOf(k)' = IF TableOf(k) = "watched" THEN "gone" ELSE TableOf(k)
  BY DEF TableNow
<1>1. \A f \in Fds : open'[f] # k
  BY DEF TypeOK, KernelTypeOK
<1>2. CASE \E f \in Fds : open[f] = k
  BY <1>1, <1>2 DEF TableOf
<1>3. CASE \A f \in Fds : open[f] # k
  BY <1>1, <1>3 DEF TableOf
<1> QED
  BY <1>2, <1>3

\* A client is accepted from the backlog while no other is kept.
LEMMA TableAccept ==
    ASSUME TypeInv, accept_conn
    PROVE  Table!Next \/ UNCHANGED TableNow
<1> USE ConnsAssumption, FdsAssumption DEF TypeInv, ClientInv, clientVars
<1>1. CASE UNCHANGED <<open, backlog>>
  BY <1>1, TableSame DEF accept_conn
<1>2. ASSUME NEW k \in backlog, NEW f \in Fds, LowestFreeFd(f),
             backlog' = backlog \ {k}, open' = [open EXCEPT ![f] = k]
      PROVE  Table!Accept(k) /\ k \in Conns
  <2>1. k \in Conns /\ open[f] = NoConn
    BY <1>2 DEF LowestFreeFd, TypeOK, KernelTypeOK
  <2>2. \A g \in Fds : open[g] \notin Conns
    BY DEF accept_conn, At
  <2>3. \A j \in Conns : TableOf(j) # "watched"
    BY <2>2 DEF TableOf
  <2>4. {j \in Conns : TableNow[j] \in {"watched", "lent"}} = {}
    BY <2>3 DEF TableNow, TableOf
  <2>5. Table!Cardinality(Table!Kept) < 1
    <3>1. Table!Cardinality({}) = Cardinality({})
      BY Zenon DEF Table!Cardinality, Cardinality
    <3> QED
      BY <2>4, <3>1, FS_EmptySet DEF Table!Kept
  <2>6. TableNow[k] = "new"
    BY <1>2, <2>1 DEF TableOf, TableNow
  <2>7. TableOf(k)' = "watched"
    BY <1>2, <2>1 DEF TableOf, TypeOK, KernelTypeOK
  <2>8. ASSUME NEW j \in Conns, j # k PROVE TableOf(j)' = TableOf(j)
    <3>1. UNCHANGED peer
      BY DEF accept_conn
    <3>2. (\E g \in Fds : open'[g] = j) <=> (\E g \in Fds : open[g] = j)
      BY <1>2, <2>1, <2>2, <2>8 DEF TypeOK, KernelTypeOK
    <3> QED
      BY <1>2, <2>8, <3>1, <3>2 DEF TableOf
  <2>9. TableNow' = [TableNow EXCEPT ![k] = "watched"]
    BY <2>1, <2>7, <2>8 DEF TableNow
  <2> QED
    BY <2>1, <2>5, <2>6, <2>9 DEF Table!Accept
<1> QED
  BY <1>1, <1>2 DEF accept_conn, Table!Next

LEMMA TableServer == TypeInv /\ ServerStep => Table!Next \/ UNCHANGED TableNow
<1> SUFFICES ASSUME TypeInv, ServerStep PROVE Table!Next \/ UNCHANGED TableNow
  OBVIOUS
<1> USE DEF kernelVars, clientVars
<1>1. CASE CoreStep \/ setup_state_fails \/ open_server_for_listen \/ check_fd
           \/ recv_length \/ recv_body \/ destroy_no_state
  <2>1. UNCHANGED <<open, backlog, peer>>
    BY <1>1 DEF CoreStep, setup_state_fails, open_server_for_listen, check_fd, recv_length,
                recv_body, Receive, destroy_no_state
  <2> QED
    BY <2>1, TableSame
<1>2. CASE respond
  <2>1. UNCHANGED <<open, backlog>>
    BY <1>2 DEF respond
  <2>2. \A k \in Conns : peer'[k] = "none" <=> peer[k] = "none"
    BY <1>2 DEF respond, Answer, TypeInv, TypeOK
  <2> QED
    BY <2>1, <2>2, TableSame
<1>3. CASE close_client
  <2>1. open' = [f \in Fds |-> IF f \in {client_fd} THEN NoConn ELSE open[f]]
    BY <1>3 DEF close_client, ClosedBefore, TypeInv, TypeOK, KernelTypeOK
  <2>2. Table!CloseAll
    BY <1>3, <2>1, TableDrop DEF close_client, Table!CloseAll, TypeInv, TypeOK, TableNow
  <2> QED
    BY <2>2 DEF Table!Next
<1>4. CASE destroy_state
  <2> DEFINE D == {f \in Fds : f = client_fd \/ (~listening /\ f = 0)}
  <2>1. open' = [f \in Fds |-> IF f \in D THEN NoConn ELSE open[f]]
    BY <1>4 DEF destroy_state
  <2>2. client_fd \in D
    BY DEF TypeInv, TypeOK
  <2>3. UNCHANGED <<backlog, peer>>
    BY <1>4 DEF destroy_state
  <2> HIDE DEF D
  <2>4. D \in SUBSET Fds
    BY DEF D
  <2>5. Table!CloseAll
    BY <2>1, <2>2, <2>3, <2>4, TableDrop DEF Table!CloseAll
  <2> QED
    BY <2>5 DEF Table!Next
<1>5. CASE accept_conn
  BY <1>5, TableAccept
<1> QED
  BY <1>1, <1>2, <1>3, <1>4, <1>5 DEF ServerStep

\* The one-to-one server implements the connection table with one place.
THEOREM OneImplementsTable == Spec => ImplementsTable
<1>1. Init => Table!Init
  <2> SUFFICES ASSUME Init PROVE \A k \in Conns : TableOf(k) = "new"
    BY DEF Table!Init, TableNow
  <2> QED
    BY ConnsAssumption DEF Init, InitKernel, TableOf
<1>2. TypeInv /\ [Next]_vars => [Table!Next]_TableNow
  <2> SUFFICES ASSUME TypeInv, EnvStep \/ handle_sigint \/ UNCHANGED vars
               PROVE  UNCHANGED TableNow
    BY TableServer DEF Next
  <2>1. ASSUME NEW k \in Conns, ClientConnect(k) PROVE UNCHANGED TableNow
    <3>1. \A f \in Fds : open[f] # k
      BY <2>1 DEF ClientConnect, TypeInv, ClientInv
    <3>2. \A j \in Conns : TableOf(j)' = TableOf(j)
      BY <2>1, <3>1 DEF ClientConnect, TableOf, TypeInv, TypeOK
    <3> QED
      BY <3>2 DEF TableNow
  <2>2. CASE \A k \in Conns : ~ClientConnect(k)
    <3>1. UNCHANGED <<open, backlog>>
      BY <2>2 DEF EnvStep, ClientMoves, ClientStep, ClientWrite, ClientClose, RstArrives,
                  DeliverRst, ClientAbort, ClientReset, handle_sigint, vars, kernelVars
    <3>2. \A k \in Conns : peer'[k] = "none" <=> peer[k] = "none"
      BY <2>2 DEF EnvStep, ClientMoves, ClientStep, ClientWrite, ClientClose, RstArrives,
                  DeliverRst, ClientAbort, ClientReset, handle_sigint, vars, clientVars,
                  TypeInv, TypeOK
    <3> QED
      BY <3>1, <3>2, TableSame
  <2> QED
    BY <2>1, <2>2
<1> QED
  BY <1>1, <1>2, TypeInvariant, PTL DEF Spec, ImplementsTable, Table!Spec
-----------------------------------------------------------------------------
(***************************************************************************)
(* Clients that keep to the protocol: they close when they are answered.   *)
(***************************************************************************)

Polite == "abort" \notin Faults /\ "reset" \notin Faults

Waits(k) == peer[k] = "open" /\ reply[k] = NoReply

\* Whoever has not been answered is there; one is answered when its message has been taken.
ClientsInv ==
    \A k \in Conns :
        /\ peer[k] = "none" \/ Waits(k) \/ (peer[k] \in {"open", "fin"} /\ reply[k] # NoReply)
        /\ taken[k] <= Body => reply[k] = NoReply
        /\ peer[k] = "none" \/ k \in backlog => taken[k] = 0

\* How much of the message of the client that is served has been taken.
ProgressInv ==
    /\ At("await_head") \/ At("head") => taken[Client] \in {0, Body + 1}
    /\ At("await_body") \/ At("body") => taken[Client] = bytes_read + 1
    /\ At("respond") => taken[Client] = Body + 1 /\ Waits(Client)

ServedInv == ClientsInv /\ ProgressInv

LEMMA ServedReceive ==
    ASSUME TypeInv, ServedInv, recv_length \/ recv_body
    PROVE  ServedInv'
<1> DEFINE k == Client
<1>1. /\ k \in Conns /\ Calling("RUN_SERVER") /\ UNCHANGED <<open, client_fd, backlog, peer, wrote, reply>>
      /\ taken \in [Conns -> 0 .. Body + 1] /\ wrote \in [Conns -> 0 .. Body + 1]
      /\ Body \in Nat \ {0} /\ bytes_read \in 0 .. Body /\ reply \in [Conns -> {NoReply} \cup 0 .. Body]
  BY BodyAssumption
  DEF recv_length, recv_body, Receive, At, Client, kernelVars, TypeInv, TypeOK, ClientInv, Handling
<1>2. peer[k] # "none" /\ k \notin backlog
  BY <1>1 DEF recv_length, recv_body, At, Client, TypeInv, TypeOK, ClientInv
<1>3. CASE HasData(k)
  <2>1. taken[k] <= Body /\ Waits(k)
    BY <1>1, <1>2, <1>3 DEF HasData, ServedInv, ClientsInv, Waits
  <2>2. taken' = [taken EXCEPT ![k] = @ + 1] /\ UNCHANGED next_state
    BY <1>1, <1>3 DEF recv_length, recv_body, Receive, AtEof, RecvFails, coreVars
  <2>3. \/ pc = "head" /\ taken[k] = 0 /\ pc' = "await_body" /\ bytes_read' = 0
        \/ /\ pc = "body" /\ taken[k] = bytes_read + 1 /\ bytes_read' = bytes_read + 1
           /\ pc' = IF bytes_read + 1 >= Body THEN "respond" ELSE "await_body"
    <3>1. CASE recv_length
      BY <1>1, <1>3, <2>1, <3>1
      DEF recv_length, Receive, At, AtEof, RecvFails, ServedInv, ProgressInv
    <3>2. CASE recv_body
      BY <1>1, <1>3, <3>2
      DEF recv_body, Receive, At, AtEof, RecvFails, BodyDone, ServedInv, ProgressInv
    <3> QED
      BY <3>1, <3>2
  <2>4. taken'[k] = taken[k] + 1 /\ \A j \in Conns : j # k => taken'[j] = taken[j]
    BY <1>1, <2>2
  <2>5. Client' = k /\ peer'[k] = "open" /\ reply'[k] = NoReply
    BY <1>1, <2>1 DEF Client, Waits
  <2> HIDE DEF k
  <2>6. ClientsInv'
    BY <1>1, <1>2, <2>1, <2>4 DEF ServedInv, ClientsInv, Waits
  <2>7. ProgressInv'
    <3>1. pc' = "await_body" => taken'[k] = bytes_read' + 1
      BY <1>1, <2>3, <2>4
    <3>2. pc' = "respond" => taken'[k] = Body + 1
      BY <1>1, <2>1, <2>3, <2>4
    <3>3. pc' \in {"await_body", "respond"} /\ Client' = k
      BY <2>3, <2>5
    <3>4. taken'[Client'] = taken'[k]
      BY <3>3
    <3>5. peer'[Client'] = "open" /\ reply'[Client'] = NoReply
      BY <2>5
    <3> QED
      BY <3>1, <3>2, <3>3, <3>4, <3>5 DEF ProgressInv, At, Waits
  <2> QED
    BY <2>6, <2>7 DEF ServedInv
<1>4. CASE ~HasData(k)
  <2>1. UNCHANGED taken /\ (pc' = AfterClosed \/ next_state' = "ERROR")
    BY <1>1, <1>4 DEF recv_length, recv_body, Receive, Returns
  <2>2. ProgressInv'
    BY <2>1 DEF ProgressInv, At, AfterClosed
  <2> QED
    BY <1>1, <2>1, <2>2 DEF ServedInv, ClientsInv, Waits
<1> QED
  BY <1>3, <1>4

LEMMA ServedStep ==
    ASSUME Polite, TypeInv, ServedInv, [Next]_vars
    PROVE  ServedInv'
<1> USE BodyAssumption
<1>1. CASE recv_length \/ recv_body
  BY <1>1, ServedReceive
<1>2. CASE respond
  <2> DEFINE k == Client
  <2>1. /\ k \in Conns /\ Waits(k) /\ taken[k] = Body + 1 /\ bytes_read = Body
        /\ reply \in [Conns -> {NoReply} \cup 0 .. Body] /\ Body \in Nat
    BY <1>2 DEF respond, At, Client, TypeInv, TypeOK, ClientInv, MessageInv, Handling, ServedInv,
           ProgressInv
  <2>2. /\ UNCHANGED <<open, client_fd, backlog, peer, taken>> /\ reply' = [reply EXCEPT ![k] = Body]
        /\ pc' = "await_head"
    BY <1>2, <2>1 DEF respond, Answer, Waits, IsReset, kernelVars
  <2>3. Client' = k
    BY <2>2 DEF Client
  <2>4. ProgressInv'
    BY <2>1, <2>2, <2>3 DEF ProgressInv, At
  <2> HIDE DEF k
  <2>5. ASSUME NEW j \in Conns, j # k PROVE reply'[j] = reply[j]
    BY <2>1, <2>2, <2>5
  <2>6. reply'[k] # NoReply /\ peer[k] = "open" /\ ~(taken[k] <= Body)
    BY <2>1, <2>2 DEF Waits
  <2>7. peer[k] # "none" /\ k \notin backlog
    BY <1>2, <2>6 DEF k, respond, At, Client, TypeInv, TypeOK, ClientInv
  <2>8. ClientsInv'
    BY <2>2, <2>5, <2>6, <2>7 DEF ServedInv, ClientsInv, Waits
  <2> QED
    BY <2>4, <2>8 DEF ServedInv
<1>3. CASE check_fd
  <2>1. UNCHANGED <<open, client_fd, backlog, peer, taken, reply, bytes_read>>
        /\ \/ next_state' = "CLOSE_SERVER"
           \/ /\ Calling("RUN_SERVER") /\ pc \in {"listen", "await_head", "await_body"}
              /\ pc' = AfterWait(pc)
    BY <1>3 DEF check_fd, Waiting, Returns, Termination, kernelVars, clientVars
  <2>2. ProgressInv'
    BY <2>1 DEF ServedInv, ProgressInv, At, AfterWait, Client
  <2> QED
    BY <2>1, <2>2 DEF ServedInv, ClientsInv, Waits
<1>4. CASE accept_conn
  <2>1. UNCHANGED <<peer, taken, reply>> /\ backlog' \subseteq backlog
    BY <1>4 DEF accept_conn, clientVars
  <2>2. ClientsInv'
    BY <2>1 DEF ServedInv, ClientsInv, Waits
  <2>3. ASSUME NEW b \in backlog, NEW f \in Fds, open' = [open EXCEPT ![f] = b], client_fd' = f,
               pc' = "await_head"
        PROVE  ProgressInv'
    <3>1. b \in Conns /\ taken[b] = 0
      BY DEF TypeInv, TypeOK, KernelTypeOK, ServedInv, ClientsInv
    <3>2. Client' = b
      BY <2>3 DEF Client, TypeInv, TypeOK, KernelTypeOK
    <3>3. taken'[Client'] = 0
      BY <2>1, <3>1, <3>2
    <3> QED
      BY <2>3, <3>3 DEF ProgressInv, At
  <2>4. next_state' = "ERROR" => ProgressInv'
    BY DEF ProgressInv, At
  <2> QED
    BY <1>4, <2>2, <2>3, <2>4 DEF accept_conn, Returns, ServedInv
<1>5. CASE CoreStep \/ setup_state_fails \/ open_server_for_listen \/ close_client
           \/ destroy_state \/ destroy_no_state
  <2>1. UNCHANGED <<backlog, peer, taken, reply>>
    BY <1>5 DEF CoreStep, setup_state_fails, open_server_for_listen, close_client, destroy_state,
           destroy_no_state, kernelVars, clientVars
  <2>2. pc' \in {"next", "listen", "killed", "idle"} \/ ~Calling("RUN_SERVER")'
        \/ UNCHANGED <<pc, core, next_state, open, client_fd, bytes_read>>
    BY <1>5 DEF CoreStep, setup_core_object, get_api, run_core_exit, Fail, setup_state_fails,
           open_server_for_listen, close_client, destroy_state, destroy_no_state, Returns,
           serverVars, kernelVars, coreVars, TypeInv, CoreInv
  <2>3. ProgressInv'
    BY <2>1, <2>2 DEF ServedInv, ProgressInv, At, Client, Waits
  <2> QED
    BY <2>1, <2>3 DEF ServedInv, ClientsInv, Waits
<1>6. CASE handle_sigint \/ UNCHANGED vars
  <2>1. UNCHANGED <<coreVars, open, client_fd, bytes_read, backlog, peer, taken, reply>>
        /\ (pc' = pc \/ pc' = "killed")
    BY <1>6 DEF handle_sigint, vars, serverVars, kernelVars, clientVars
  <2>2. ProgressInv'
    BY <2>1 DEF ServedInv, ProgressInv, At, Client, Waits, coreVars
  <2> QED
    BY <2>1, <2>2 DEF ServedInv, ClientsInv, Waits
<1>7. CASE EnvStep
  <2>1. UNCHANGED <<coreVars, pc, client_fd, bytes_read, open, taken, reply>>
    BY <1>7 DEF EnvStep, ClientMoves, ClientStep, ClientWrite, ClientClose, RstArrives, DeliverRst,
           ClientConnect, ClientAbort, ClientReset, ServerUnchanged, serverVars, kernelVars
  <2>2. /\ \A k \in Conns : Waits(k) => Waits(k)'
        /\ \A k \in Conns : peer'[k] = "none" \/ k \in backlog' => peer[k] = "none" \/ k \in backlog
        /\ \A k \in Conns : peer'[k] = peer[k] \/ (peer[k] = "none" /\ peer'[k] = "open")
                            \/ (peer[k] = "open" /\ reply[k] # NoReply /\ peer'[k] = "fin")
    BY <1>7
    DEF EnvStep, ClientMoves, ClientStep, ClientWrite, ClientClose, RstArrives, DeliverRst,
        ClientConnect, ClientAbort, ClientReset, kernelVars, Waits, Polite, ServedInv, ClientsInv,
        TypeInv, TypeOK
  <2>3. ClientsInv'
    <3>1. \A k \in Conns : peer[k] = "none" => reply[k] = NoReply
      BY DEF ServedInv, ClientsInv, TypeInv, TypeOK
    <3> QED
      BY <2>1, <2>2, <3>1 DEF ServedInv, ClientsInv, Waits
  <2>4. At("respond") => Client \in Conns
    BY DEF At, Client, TypeInv, ClientInv, Handling
  <2>5. ProgressInv'
    BY <2>1, <2>2, <2>4 DEF ServedInv, ProgressInv, At, Client, coreVars
  <2> QED
    BY <2>3, <2>5 DEF ServedInv
<1> QED
  BY <1>1, <1>2, <1>3, <1>4, <1>5, <1>6, <1>7 DEF Next, ServerStep

\* Once it listens the server is never killed, and the only error it ends with is accept()'s.
SurvivesClients == listening => ~Killed /\ (exit_status = "failure" => pc = "accept")

\* On either platform, whatever the order in which its clients come, write and close: if they close
\* only when they are answered, none of them brings the one-to-one server down.  It takes the end
\* of a client's stream for the end of the client, where the other two go by POLLHUP.
THEOREM OneSurvivesItsClients == ASSUME Polite PROVE Spec => []SurvivesClients
<1>1. Init => ServedInv
  BY DEF Init, InitCore, InitKernel, ServedInv, ClientsInv, ProgressInv, At, Waits
<1>2. TypeInv /\ ServedInv /\ [Next]_vars => ServedInv'
  BY ServedStep
<1>3. Init => (listening => ~Killed)
  BY DEF Init
<1>4. TypeInv /\ ServedInv /\ StatusInv /\ (listening => ~Killed) /\ [Next]_vars
         => (listening => ~Killed)'
  <2> SUFFICES ASSUME TypeInv, ServedInv, StatusInv, listening => ~Killed, [Next]_vars
               PROVE  (listening => ~Killed)'
    OBVIOUS
  <2>1. CASE respond
    <3>1. Waits(Client)
      BY <2>1 DEF respond, ServedInv, ProgressInv
    <3> QED
      BY <2>1, <3>1 DEF respond, Waits, IsReset, Killed
  <2>2. CASE ServerStep /\ ~respond
    BY <2>2 DEF ServerStep, CoreStep, setup_state_fails, open_server_for_listen, close_client,
           check_fd, accept_conn, recv_length, recv_body, Receive, AfterClosed, AfterWait,
           destroy_state, destroy_no_state, Killed, StatusInv, setupVars, serverVars, Waiting
  <2>3. CASE handle_sigint
    BY <2>3 DEF handle_sigint, Killed, StatusInv, setupVars
  <2>4. CASE EnvStep \/ UNCHANGED vars
    BY <2>4 DEF EnvStep, ClientMoves, RstArrives, ServerUnchanged, serverVars, setupVars, vars, Killed
  <2> QED
    BY <2>1, <2>2, <2>3, <2>4 DEF Next
<1>5. ServedInv /\ StatusInv /\ (listening => ~Killed) => SurvivesClients
  BY DEF SurvivesClients, StatusInv, Cause, ServedInv, ClientsInv, IsReset, Waits
<1> QED
  BY <1>1, <1>2, <1>3, <1>4, <1>5, TypeInvariant, StatusInvariant, PTL DEF Spec
=============================================================================
