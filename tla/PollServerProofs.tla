--------------------------- MODULE PollServerProofs ---------------------------
(***************************************************************************)
(* Proofs about PollServer, for any number of connections and slots, with  *)
(* every fault and on both platforms.                                      *)
(***************************************************************************)
EXTENDS PollServer, FiniteSetTheorems, TLAPS

(***************************************************************************)
(* Types.  TypeOK is not inductive: a slot that is received from must hold *)
(* a connection, which is so because poll() said there was something to    *)
(* receive and no earlier slot of the same scan closed its descriptor.     *)
(***************************************************************************)

Scanning == pc \in {"scan", "body", "respond"}

\* Where the loop has no snapshot of poll().
Unscanned == pc \in {"init", "nostate", "ready", "poll"}

ScanInv ==
    /\ Unscanned => \A p \in Slots : revents[p] = "none"
    /\ Scanning => \A p \in Slots : revents[p] = "in" => open[fd[p]] \in Conns
    /\ Scanning => \A p, q \in Slots : revents[p] = "in" /\ revents[q] = "hup" => fd[p] # fd[q]
    /\ pc = "body" => bytes_read < Body

TypeInv == TypeOK /\ ScanInv

USE DEF Slots, NoReply, Stays, Leaves

LEMMA InitTypeInv == Init => TypeInv
<1> SUFFICES ASSUME Init PROVE TypeInv
  OBVIOUS
<1> USE LimitsAssumption, BodyAssumption, FdsAssumption DEF Init
<1>1. KernelTypeOK
  BY DEF InitKernel, KernelTypeOK
<1>2. ClientTypeOK
  BY DEF InitKernel, ClientTypeOK
<1>3. TypeOK
  BY <1>1, <1>2 DEF TypeOK, NoRevents, InitCore, CoreTypeOK, Server_States
<1>4. ScanInv
  BY DEF ScanInv, Scanning, Unscanned, NoRevents
<1> QED
  BY <1>3, <1>4 DEF TypeInv

\* A step of the core, or of the server outside its loop and its teardown.
OuterStep ==
    CoreStep \/ setup_poll_state_fails \/ open_poll_server_for_listen \/ run_poll_server
    \/ destroy_no_state

LEMMA OuterFrame ==
    ASSUME TypeInv, OuterStep
    PROVE  /\ UNCHANGED <<slotVars, revents, bytes_read, signalVars, kernelVars, clientVars>>
           /\ \/ pc' = pc
              \/ /\ pc \in {"init", "nostate", "ready"}
                 /\ pc' \in {"nostate", "ready", "poll", "killed"}
           /\ pc' = pc \/ Calling("INITIALIZE_SERVER") \/ Calling("RUN_SERVER") \/ Calling("ERROR")
BY DEF OuterStep, CoreStep, setup_poll_state_fails, open_poll_server_for_listen, run_poll_server,
       destroy_no_state, ServerVars

\* The core's variables keep their types.
LEMMA CoreTypes == CoreTypeOK /\ ServerStep => CoreTypeOK'
<1> SUFFICES ASSUME CoreTypeOK, ServerStep PROVE CoreTypeOK'
  OBVIOUS
<1> USE DEF CoreTypeOK, Server_States, coreVars
<1>1. ASSUME NEW r \in Server_States, Returns(r) PROVE CoreTypeOK'
  BY <1>1 DEF Returns, StatusAfter
<1>2. CASE CoreStep
  BY <1>2 DEF CoreStep, setup_core_object, get_api, run_core_exit, Fail
<1>3. ServerStep /\ ~CoreStep =>
        UNCHANGED coreVars \/ \E r \in {"RUN_SERVER", "CLOSE_SERVER", "ERROR", "EXIT"} : Returns(r)
  BY DEF ServerStep, setup_poll_state_fails, open_poll_server_for_listen, run_poll_server,
         poll_accept, accept_fails, poll_sockets, recv_length, recv_body, respond,
         poll_remove_connection, poll_comm_done, destroy_poll_state, destroy_no_state, LoopTest, Fails
<1> QED
  BY <1>1, <1>2, <1>3

\* A step of the server keeps the types.
LEMMA ServerTypeInv == TypeInv /\ ServerStep => TypeInv'
<1> SUFFICES ASSUME TypeInv, ServerStep PROVE TypeInv'
  OBVIOUS
<1>0. CoreTypeOK'
  BY CoreTypes DEF TypeInv, TypeOK
<1> USE <1>0, LimitsAssumption, BodyAssumption, FdsAssumption
        DEF TypeInv, TypeOK, KernelTypeOK, ScanInv, Scanning, Unscanned
<1>1. CASE poll_accept
  <2> USE <1>1 DEF poll_accept
  <2>1. TypeOK'
    BY DEF ClientTypeOK, clientVars, signalVars, SizeInc, ListenAfterAccept, LoopTest
  <2>2. pc' \in {"poll", "close"} /\ UNCHANGED revents
    BY DEF LoopTest
  <2> QED
    BY <2>1, <2>2
<1>2. CASE accept_fails
  BY <1>2 DEF accept_fails, Fails, ClientTypeOK, slotVars, signalVars, kernelVars, clientVars
<1>3. CASE poll_sockets
  <2>1. TypeOK'
    BY <1>3 DEF poll_sockets, PollEvents, PollOf, ClientTypeOK, slotVars, signalVars, kernelVars,
                clientVars
  <2>2. UNCHANGED <<fd, open, bytes_read>> /\ pc' = "scan"
        /\ \A p \in Slots : revents'[p] = PollEvents(p)
    BY <1>3 DEF poll_sockets, slotVars, kernelVars
  <2>3. \A p \in Slots : revents'[p] = "in" => open[fd[p]] \in Conns
    BY <2>2 DEF PollEvents, PollOf
  <2>4. \A p, q \in Slots : revents'[p] = "in" /\ revents'[q] = "hup" => fd[p] # fd[q]
    BY <2>2 DEF PollEvents, PollOf
  <2> QED
    BY <2>1, <2>2, <2>3, <2>4
<1>4. ASSUME NEW p \in Slots, recv_length(p) \/ recv_body(p) PROVE TypeInv'
  <2> DEFINE k == open[fd[p]]
  <2>1. k \in Conns /\ revents[p] = "in" /\ Scanning
    BY <1>4 DEF recv_length, recv_body, Receiving
  <2>2. ClientTypeOK'
    BY <1>4, <2>1 DEF recv_length, recv_body, ClientTypeOK, HasData
  <2>3. /\ pc' \in {"body", "respond", "close"} /\ bytes_read' \in 0 .. Body
        /\ pc' = "body" => bytes_read' < Body
    BY <1>4, <2>1 DEF recv_length, recv_body, Fails, BodyDone
  <2>4. UNCHANGED <<slotVars, revents, signalVars, kernelVars>>
    BY <1>4 DEF recv_length, recv_body
  <2> QED
    BY <2>1, <2>2, <2>3, <2>4 DEF slotVars, signalVars, kernelVars
<1>5. ASSUME NEW p \in Slots, respond(p) PROVE TypeInv'
  <2> DEFINE k == open[fd[p]]
  <2>1. k \in Conns /\ Scanning
    BY <1>5 DEF respond, Receiving
  <2>2. ClientTypeOK'
    BY <1>5, <2>1 DEF respond, Answer, ClientTypeOK
  <2>3. pc' \in {"scan", "killed", "close"} /\ revents' = [revents EXCEPT ![p] = "none"]
    BY <1>5 DEF respond, Fails, Handled
  <2>4. UNCHANGED <<slotVars, bytes_read, signalVars, kernelVars>>
    BY <1>5 DEF respond
  <2> QED
    BY <2>1, <2>2, <2>3, <2>4 DEF slotVars, signalVars, kernelVars
<1>6. ASSUME NEW p \in Slots, poll_remove_connection(p) PROVE TypeInv'
  <2>1. /\ pc = "scan" /\ revents[p] = "hup" /\ UNCHANGED <<pc, bytes_read>>
        /\ open' = [open EXCEPT ![fd[p]] = NoConn]
        /\ fd' = [fd EXCEPT ![p] = 0]
        /\ revents' = [revents EXCEPT ![p] = "none"]
    BY <1>6 DEF poll_remove_connection, Handled
  <2>2. TypeOK'
    BY <1>6, <2>1 DEF poll_remove_connection, ConnIndex, SizeDec, ListenAfterRemove, ClientTypeOK,
                      signalVars, clientVars
  <2>3. ScanInv'
    BY <2>1
  <2> QED
    BY <2>2, <2>3
<1>7. CASE poll_comm_done
  BY <1>7 DEF poll_comm_done, NoRevents, LoopTest, ClientTypeOK, slotVars, signalVars, kernelVars,
              clientVars
<1>8. CASE destroy_poll_state
  BY <1>8 DEF destroy_poll_state, ClosedAtExit, ClientTypeOK, slotVars, signalVars, clientVars
<1>9. CASE OuterStep
  BY <1>9, OuterFrame DEF ClientTypeOK, slotVars, signalVars, kernelVars, clientVars
<1> QED
  BY <1>1, <1>2, <1>3, <1>4, <1>5, <1>6, <1>7, <1>8, <1>9 DEF ServerStep, OuterStep

\* What the clients and the kernel leave alone.
EnvFrameGoal ==
    /\ UNCHANGED <<coreVars, ServerVars, open>>
    /\ stdin_hup => stdin_hup'
    /\ \A k \in Conns : peer'[k] = "none" => peer[k] = "none"
    /\ \A k \in Conns : k \in backlog => k \in backlog'
    /\ \A k \in Conns : k \in backlog' => k \in backlog \/ (peer[k] = "none" /\ peer'[k] # "none")
    /\ \A k \in Conns : peer[k] = "none" => peer'[k] = "none" \/ k \in backlog'

LEMMA EnvFrame == TypeInv /\ EnvStep => KernelTypeOK' /\ ClientTypeOK' /\ EnvFrameGoal
<1> SUFFICES ASSUME TypeInv, EnvStep PROVE KernelTypeOK' /\ ClientTypeOK' /\ EnvFrameGoal
  OBVIOUS
<1> USE BodyAssumption DEF TypeInv, TypeOK, KernelTypeOK, ClientTypeOK, EnvFrameGoal
<1>1. UNCHANGED <<coreVars, ServerVars>>
  BY DEF EnvStep, ClientMoves, RstArrives, ServerUnchanged
<1>2. ASSUME NEW k \in Conns, ClientConnect(k)
      PROVE  KernelTypeOK' /\ ClientTypeOK' /\ EnvFrameGoal
  BY <1>1, <1>2 DEF ClientConnect
<1>3. ASSUME NEW k \in Conns, ClientWrite(k)
      PROVE  KernelTypeOK' /\ ClientTypeOK' /\ EnvFrameGoal
  BY <1>1, <1>3 DEF ClientWrite, kernelVars
<1>4. ASSUME NEW k \in Conns,
             ClientClose(k) \/ ClientAbort(k) \/ ClientReset(k) \/ DeliverRst(k)
      PROVE  KernelTypeOK' /\ ClientTypeOK' /\ EnvFrameGoal
  BY <1>1, <1>4 DEF ClientClose, ClientAbort, ClientReset, DeliverRst, kernelVars
<1>5. CASE StdinHangup
  BY <1>1, <1>5 DEF StdinHangup, clientVars
<1> QED
  BY <1>2, <1>3, <1>4, <1>5 DEF EnvStep, ClientMoves, RstArrives, ClientStep

SignalStep == end_gogo_handler \/ signalled_early \/ interrupted

\* What a signal leaves alone.
LEMMA SignalFrame ==
    ASSUME TypeInv, SignalStep
    PROVE  /\ UNCHANGED <<slotVars, revents, bytes_read, kernelVars, clientVars>>
           /\ pc \notin {"close", "done"} /\ pc' \in {pc, "close", "killed"}
           /\ GOGO_POLL' \in BOOLEAN /\ signals' \in 0 .. MaxSignals
           /\ CoreTypeOK'
<1> USE DEF SignalStep, end_gogo_handler, signalled_early, interrupted
<1>1. UNCHANGED coreVars \/ Returns("CLOSE_SERVER") \/ Returns("ERROR")
  BY DEF RecvInterrupted
<1>2. CoreTypeOK'
  BY <1>1 DEF TypeInv, TypeOK, CoreTypeOK, Server_States, Returns, StatusAfter, coreVars
<1>3. Signalled /\ GOGO_POLL' \in BOOLEAN
  BY DEF TypeInv, TypeOK
<1>4. pc \notin {"close", "done"} /\ pc' \in {pc, "close", "killed"}
  BY DEF InLoop
<1> QED
  BY <1>2, <1>3, <1>4, LimitsAssumption DEF Signalled, TypeInv, TypeOK

LEMMA TypeInvariant == Spec => []TypeInv
<1>1. TypeInv /\ [Next]_vars => TypeInv'
  <2> SUFFICES ASSUME TypeInv, [Next]_vars PROVE TypeInv'
    OBVIOUS
  <2> USE DEF TypeInv, TypeOK, ScanInv, Scanning, Unscanned
  <2>1. CASE ServerStep
    BY <2>1, ServerTypeInv
  <2>2. CASE SignalStep
    BY <2>2, SignalFrame DEF KernelTypeOK, ClientTypeOK, slotVars, kernelVars, clientVars
  <2>3. CASE EnvStep
    BY <2>3, EnvFrame DEF EnvFrameGoal, ServerVars, slotVars, signalVars, coreVars, CoreTypeOK
  <2>4. CASE UNCHANGED vars
    BY <2>4 DEF vars, ServerVars, KernelTypeOK, ClientTypeOK, slotVars, signalVars, kernelVars,
                clientVars, coreVars, CoreTypeOK
  <2> QED
    BY <2>1, <2>2, <2>3, <2>4 DEF Next, SignalStep
<1> QED
  BY <1>1, InitTypeInv, PTL DEF Spec

\* Every reachable state of the poll server has the types of TypeOK, even after standard input
\* was hung up and the counter has wrapped.
THEOREM PollTypeCorrect == Spec => []TypeOK
<1>1. TypeInv => TypeOK
  BY DEF TypeInv
<1> QED
  BY <1>1, TypeInvariant, PTL

-----------------------------------------------------------------------------
(***************************************************************************)
(* The arrays, the descriptor table and the backlog agree, as long as      *)
(* descriptor 0 is standard input.                                         *)
(***************************************************************************)

\* Connection k has been accepted, or has not reached the server.
Known(k) == peer[k] # "none" /\ k \notin backlog

ArrayInv ==
    ~stdin_hup =>
        /\ \A p \in Slots : NeedsAction(p) => fd[p] # 0
        /\ \A k \in backlog : peer[k] # "none"
        /\ \A f, g \in Fds : open[f] = open[g] /\ open[f] \in Conns => f = g
        /\ \A f \in Fds : open[f] \in Conns => Known(open[f])
        /\ \A f \in Fds : open[f] \in Conns => \E p \in Slots : fd[p] = f
        /\ pc # "done" => open[0] = Stdin
        /\ pc # "done" => \A p \in Slots : fd[p] # 0 => open[fd[p]] \in Conns
        /\ pc = "done" => \A f \in Fds : open[f] \notin Conns

\* The two are proved together: a slot is filled when it is empty because the counter is right.
TableInv == ArrayInv /\ TwoArraysOneTable

Used == {p \in Slots : fd[p] # 0}

LEMMA SlotSets ==
    ASSUME NEW T \in SUBSET Slots
    PROVE  /\ IsFiniteSet(T) /\ Cardinality(T) \in Nat /\ Cardinality(T) <= MaxConnections
           /\ Cardinality(T) < MaxConnections <=> \E p \in Slots : p \notin T
<1>1. IsFiniteSet(Slots) /\ Cardinality(Slots) = MaxConnections
  <2>1. 1 \in Int /\ MaxConnections \in Int /\ ~(1 > MaxConnections)
    BY LimitsAssumption
  <2>2. IsFiniteSet(1 .. MaxConnections) /\ Cardinality(1 .. MaxConnections) = MaxConnections - 1 + 1
    BY <2>1, FS_Interval
  <2> QED
    BY <2>1, <2>2
<1>2. IsFiniteSet(T) /\ Cardinality(T) <= MaxConnections /\ (Cardinality(T) = MaxConnections => T = Slots)
  BY <1>1, FS_Subset
<1>3. Cardinality(T) \in Nat
  BY <1>2, FS_CardinalityType
<1>4. T = Slots => Cardinality(T) = MaxConnections
  BY <1>1
<1>5. T = Slots <=> ~ \E p \in Slots : p \notin T
  OBVIOUS
<1> QED
  BY <1>2, <1>3, <1>4, <1>5, LimitsAssumption

LEMMA InitTableInv == Init => TableInv
<1> SUFFICES ASSUME Init PROVE TableInv
  OBVIOUS
<1>1. ArrayInv
  BY FdsAssumption, ConnsAssumption DEF Init, InitKernel, ArrayInv, NeedsAction, NoRevents
<1>2. {p \in Slots : client_fd[p] # 0} = {}
  BY DEF Init
<1>3. Cardinality({p \in Slots : client_fd[p] # 0}) = 0
  BY <1>2, FS_EmptySet
<1> QED
  BY <1>1, <1>3, LimitsAssumption DEF Init, TableInv, TwoArraysOneTable

\* What accept does to the arrays: an empty slot gets a descriptor above 0 that was free.
LEMMA AcceptFills ==
    ASSUME TypeInv, TableInv, poll_accept, ~stdin_hup'
    PROVE  \E k \in backlog, p \in Slots, f \in Fds \ {0} :
              /\ fd[p] = 0 /\ open[f] = NoConn
              /\ \A q \in Slots : fd[q] # f
              /\ backlog' = backlog \ {k}
              /\ open' = [open EXCEPT ![f] = k]
              /\ client_fd' = [client_fd EXCEPT ![p] = f]
              /\ fd' = [fd EXCEPT ![p] = f]
<1>1. PICK k \in backlog, p \in Slots, f \in Fds :
            /\ get_conn_index(p)
            /\ LowestFreeFd(f)
            /\ backlog' = backlog \ {k}
            /\ open' = [open EXCEPT ![f] = k]
            /\ client_fd' = [client_fd EXCEPT ![p] = f]
            /\ fd' = [fd EXCEPT ![p] = f]
  BY Zenon DEF poll_accept
<1> USE FdsAssumption, ConnsAssumption DEF TypeInv, TypeOK, KernelTypeOK
<1>2. ~stdin_hup /\ pc = "poll" /\ listening
  BY DEF poll_accept, ListenReady
<1>3. \E q \in Slots : fd[q] = 0
  <2>1. Used \in SUBSET Slots /\ Cardinality(Used) < MaxConnections
    BY <1>2 DEF TableInv, TwoArraysOneTable, Used
  <2> QED
    BY <2>1, SlotSets DEF Used
<1>4. fd[p] = 0
  BY <1>1, <1>2, <1>3 DEF get_conn_index, TableInv, TwoArraysOneTable
<1>5. open[f] = NoConn /\ f # 0
  BY <1>1, <1>2 DEF LowestFreeFd, TableInv, ArrayInv
<1>6. \A q \in Slots : fd[q] # f
  BY <1>2, <1>5 DEF TableInv, ArrayInv
<1> QED
  BY <1>1, <1>4, <1>5, <1>6

LEMMA ArrayServer == TypeInv /\ TableInv /\ ServerStep => ArrayInv'
<1> SUFFICES ASSUME TypeInv, TableInv, ServerStep, ~stdin_hup' PROVE ArrayInv'
  BY DEF ArrayInv
<1> USE ConnsAssumption, FdsAssumption DEF TypeInv, TypeOK, KernelTypeOK, Known
<1>1. CASE poll_accept
  <2>1. PICK k \in backlog, p \in Slots, f \in Fds \ {0} :
              /\ fd[p] = 0 /\ open[f] = NoConn
              /\ \A q \in Slots : fd[q] # f
              /\ backlog' = backlog \ {k}
              /\ open' = [open EXCEPT ![f] = k]
              /\ fd' = [fd EXCEPT ![p] = f]
    BY <1>1, AcceptFills
  <2>2. /\ UNCHANGED <<stdin_hup, revents, peer>> /\ pc = "poll" /\ pc' \in {"poll", "close"}
        /\ ~stdin_hup
    BY <1>1 DEF poll_accept, clientVars, LoopTest
  <2>3. \A q \in Slots : ~NeedsAction(q)'
    BY <2>2 DEF ScanInv, Unscanned, NeedsAction
  <2>4. \A g \in Fds : open[g] # k
    BY <2>2 DEF TableInv, ArrayInv
  <2>5. \A g \in Fds : open'[g] \in Conns => \E q \in Slots : fd'[q] = g
    <3> SUFFICES ASSUME NEW g \in Fds, open'[g] \in Conns PROVE \E q \in Slots : fd'[q] = g
      OBVIOUS
    <3>1. CASE g = f
      BY <2>1, <3>1
    <3>2. CASE g # f
      <4>1. open[g] \in Conns
        BY <2>1, <3>2
      <4>2. g # 0
        BY <2>2, <4>1 DEF TableInv, ArrayInv
      <4>3. PICK q \in Slots : fd[q] = g
        BY <2>2, <4>1 DEF TableInv, ArrayInv
      <4> QED
        BY <2>1, <4>2, <4>3
    <3> QED
      BY <3>1, <3>2
  <2>6. \A g \in Fds : open'[g] \in Conns => peer'[open'[g]] # "none" /\ open'[g] \notin backlog'
    BY <2>1, <2>2, <2>4 DEF TableInv, ArrayInv
  <2>7. \A g, h \in Fds : open'[g] = open'[h] /\ open'[g] \in Conns => g = h
    <3>1. \A g, h \in Fds : open[g] = open[h] /\ open[g] \in Conns => g = h
      BY <2>2 DEF TableInv, ArrayInv
    <3>2. \A g \in Fds : IF g = f THEN open'[g] = k ELSE open'[g] = open[g]
      BY <2>1
    <3> QED
      BY <2>4, <3>1, <3>2
  <2>8. open'[0] = Stdin /\ \A q \in Slots : fd'[q] # 0 => open'[fd'[q]] \in Conns
    BY <2>1, <2>2 DEF TableInv, ArrayInv
  <2>9. \A j \in backlog' : peer'[j] # "none"
    BY <2>1, <2>2 DEF TableInv, ArrayInv
  <2> QED
    BY <2>2, <2>3, <2>5, <2>6, <2>7, <2>8, <2>9 DEF ArrayInv
<1>2. CASE poll_sockets
  <2>1. /\ UNCHANGED <<stdin_hup, peer, open, backlog, fd>> /\ pc = "poll" /\ pc' = "scan"
        /\ ~stdin_hup /\ \A p \in Slots : revents'[p] = PollEvents(p)
    BY <1>2 DEF poll_sockets, kernelVars, clientVars, slotVars
  <2>2. \A p \in Slots : NeedsAction(p)' => fd[p] # 0
    BY <2>1 DEF NeedsAction, PollEvents, PollOf, TableInv, ArrayInv
  <2> QED
    BY <2>1, <2>2 DEF TableInv, ArrayInv
<1>3. ASSUME NEW p \in Slots, poll_remove_connection(p) PROVE ArrayInv'
  <2>1. /\ UNCHANGED <<stdin_hup, peer, backlog, pc>> /\ ~stdin_hup /\ fd[p] # 0 /\ pc = "scan"
        /\ open' = [open EXCEPT ![fd[p]] = NoConn]
        /\ fd' = [fd EXCEPT ![p] = 0] /\ revents' = [revents EXCEPT ![p] = "none"]
    BY <1>3 DEF poll_remove_connection, Current, Handled, clientVars, TableInv, ArrayInv
  <2>2. \A q \in Slots : NeedsAction(q)' => q # p /\ NeedsAction(q)
    BY <2>1 DEF NeedsAction
  <2>3. \A q \in Slots : q # p /\ fd[q] # 0 => fd[q] # fd[p]
    BY <2>1 DEF TableInv, TwoArraysOneTable
  <2>4. \A g \in Fds : open'[g] \in Conns => g # fd[p] /\ open'[g] = open[g]
    BY <2>1
  <2>5. \A g \in Fds : open'[g] \in Conns => \E q \in Slots : fd'[q] = g
    <3> SUFFICES ASSUME NEW g \in Fds, open'[g] \in Conns PROVE \E q \in Slots : fd'[q] = g
      OBVIOUS
    <3>1. PICK q \in Slots : fd[q] = g
      BY <2>1, <2>4 DEF TableInv, ArrayInv
    <3> QED
      BY <2>1, <2>4, <3>1
  <2>6. \A q \in Slots : fd'[q] # 0 => open'[fd'[q]] \in Conns
    BY <2>1, <2>3 DEF TableInv, ArrayInv
  <2> QED
    BY <2>1, <2>2, <2>4, <2>5, <2>6 DEF TableInv, ArrayInv
<1>4. CASE \/ accept_fails \/ poll_comm_done
           \/ \E p \in Slots : recv_length(p) \/ recv_body(p) \/ respond(p)
  <2>1. /\ UNCHANGED <<stdin_hup, open, backlog, fd>> /\ ~stdin_hup
        /\ pc # "done" /\ pc' # "done"
    BY <1>4 DEF accept_fails, poll_comm_done, recv_length, recv_body, respond, Fails, LoopTest,
                BodyDone, slotVars, kernelVars
  <2>2. \A k \in Conns : peer'[k] = "none" <=> peer[k] = "none"
    BY <1>4 DEF accept_fails, poll_comm_done, recv_length, recv_body, respond, Answer, clientVars,
                ClientTypeOK
  <2>3. \A p \in Slots : NeedsAction(p)' => NeedsAction(p)
    BY <1>4 DEF accept_fails, poll_comm_done, recv_length, recv_body, respond, NeedsAction, Handled,
                NoRevents
  <2> QED
    BY <2>1, <2>2, <2>3 DEF TableInv, ArrayInv
<1>5. CASE destroy_poll_state
  <2>1. /\ UNCHANGED <<stdin_hup, peer, backlog, fd, revents>> /\ ~stdin_hup
        /\ pc # "done" /\ pc' = "done"
        /\ open' = [f \in Fds |-> IF \E p \in Slots : fd[p] = f THEN NoConn ELSE open[f]]
    BY <1>5 DEF destroy_poll_state, ClosedAtExit, slotVars, clientVars, TableInv, TwoArraysOneTable
  <2>2. \A f \in Fds : open'[f] \notin Conns
    BY <2>1 DEF TableInv, ArrayInv
  <2> QED
    BY <2>1, <2>2 DEF TableInv, ArrayInv, NeedsAction
<1>6. CASE OuterStep
  <2>1. UNCHANGED <<stdin_hup, peer, open, backlog, fd, revents>> /\ ~stdin_hup
    BY <1>6, OuterFrame DEF slotVars, kernelVars, clientVars
  <2>2. pc' = "done" <=> pc = "done"
    BY <1>6, OuterFrame
  <2> QED
    BY <2>1, <2>2 DEF TableInv, ArrayInv, NeedsAction
<1> QED
  BY <1>1, <1>2, <1>3, <1>4, <1>5, <1>6 DEF ServerStep, OuterStep

LEMMA CountServer == TypeInv /\ TableInv /\ ServerStep => TwoArraysOneTable'
<1> SUFFICES ASSUME TypeInv, TableInv, ServerStep, ~stdin_hup' PROVE TwoArraysOneTable'
  BY DEF TwoArraysOneTable
<1> USE LimitsAssumption, FdsAssumption DEF TypeInv, TypeOK, TableInv
<1>1. CASE poll_accept
  <2>1. PICK p \in Slots, f \in Fds \ {0} :
              /\ fd[p] = 0
              /\ \A q \in Slots : fd[q] # f
              /\ client_fd' = [client_fd EXCEPT ![p] = f]
              /\ fd' = [fd EXCEPT ![p] = f]
    BY <1>1, AcceptFills
  <2>2. ~stdin_hup /\ listening /\ num_connections' = SizeInc(num_connections)
        /\ listening' = (num_connections' < MaxConnections)
    BY <1>1 DEF poll_accept, ListenReady, ListenAfterAccept
  <2>3. client_fd' = fd' /\ \A q, r \in Slots : q # r /\ fd'[q] # 0 => fd'[q] # fd'[r]
    BY <2>1, <2>2 DEF TwoArraysOneTable
  <2>4. Used' = Used \cup {p} /\ p \notin Used /\ Used \in SUBSET Slots /\ Used' \in SUBSET Slots
    BY <2>1 DEF Used
  <2>5. Cardinality(Used') = Cardinality(Used) + 1
    BY <2>4, SlotSets, FS_AddElement
  <2>6. num_connections = Cardinality(Used) /\ Cardinality(Used') <= MaxConnections
    BY <2>2, <2>4, SlotSets DEF TwoArraysOneTable, Used
  <2>7. num_connections' = Cardinality(Used')
    BY <2>2, <2>5, <2>6 DEF SizeInc
  <2> QED
    BY <2>2, <2>3, <2>7 DEF TwoArraysOneTable, Used
<1>2. ASSUME NEW p \in Slots, poll_remove_connection(p) PROVE TwoArraysOneTable'
  <2>1. /\ ~stdin_hup /\ fd[p] # 0
        /\ fd' = [fd EXCEPT ![p] = 0] /\ client_fd' = [client_fd EXCEPT ![p] = 0]
        /\ num_connections' = SizeDec(num_connections)
        /\ listening' = ListenAfterRemove(num_connections')
    BY <1>2 DEF poll_remove_connection, Current, ConnIndex, ArrayInv
  <2>2. client_fd' = fd' /\ \A q, r \in Slots : q # r /\ fd'[q] # 0 => fd'[q] # fd'[r]
    BY <2>1 DEF TwoArraysOneTable
  <2>3. Used' = Used \ {p} /\ p \in Used /\ Used \in SUBSET Slots /\ Used' \in SUBSET Slots
    BY <2>1 DEF Used
  <2>4. Cardinality(Used') = Cardinality(Used) - 1
    BY <2>3, SlotSets, FS_RemoveElement
  <2>5. /\ num_connections = Cardinality(Used) /\ Cardinality(Used) <= MaxConnections
        /\ Cardinality(Used) \in Nat /\ Cardinality(Used') \in Nat
    BY <2>1, <2>3, SlotSets DEF TwoArraysOneTable, Used
  <2>6. num_connections' = Cardinality(Used') /\ Cardinality(Used') < MaxConnections
    BY <2>1, <2>4, <2>5 DEF SizeDec
  <2>7. listening'
    BY <2>1, <2>6 DEF ListenAfterRemove
  <2> QED
    BY <2>2, <2>6, <2>7 DEF TwoArraysOneTable, Used
<1>3. CASE \/ accept_fails \/ poll_sockets \/ poll_comm_done \/ destroy_poll_state
           \/ \E p \in Slots : recv_length(p) \/ recv_body(p) \/ respond(p)
  BY <1>3 DEF accept_fails, poll_sockets, poll_comm_done, destroy_poll_state, recv_length, recv_body,
              respond, slotVars, kernelVars, TwoArraysOneTable
<1>4. CASE OuterStep
  BY <1>4, OuterFrame DEF slotVars, kernelVars, TwoArraysOneTable
<1> QED
  BY <1>1, <1>2, <1>3, <1>4 DEF ServerStep, OuterStep

LEMMA TableInvariant == Spec => [](TypeInv /\ TableInv)
<1>1. TypeInv /\ TableInv /\ [Next]_vars => TableInv'
  <2> SUFFICES ASSUME TypeInv, TableInv, [Next]_vars PROVE TableInv'
    OBVIOUS
  <2> USE DEF TableInv, ArrayInv, TwoArraysOneTable, Known, NeedsAction
  <2>1. CASE ServerStep
    BY <2>1, ArrayServer, CountServer
  <2>2. CASE SignalStep
    <3>1. /\ UNCHANGED <<stdin_hup, peer, open, backlog, fd, client_fd, listening, num_connections,
                         revents>>
          /\ pc # "done" /\ pc' # "done"
      BY <2>2, SignalFrame DEF slotVars, kernelVars, clientVars
    <3> QED
      BY <3>1
  <2>3. CASE EnvStep
    <3>1. KernelTypeOK' /\ EnvFrameGoal
      BY <2>3, EnvFrame
    <3>2. UNCHANGED <<pc, fd, client_fd, listening, num_connections, revents, open>>
      BY <3>1 DEF EnvFrameGoal, ServerVars, slotVars
    <3>3. open \in [Fds -> Conns \cup {NoConn, Stdin}] /\ backlog \subseteq Conns
          /\ backlog' \subseteq Conns
      BY <3>1 DEF KernelTypeOK, TypeInv, TypeOK
    <3> QED
      BY <3>1, <3>2, <3>3 DEF EnvFrameGoal
  <2>4. CASE UNCHANGED vars
    BY <2>4 DEF vars, ServerVars, slotVars, kernelVars, clientVars
  <2> QED
    BY <2>1, <2>2, <2>3, <2>4 DEF Next, SignalStep
<1> QED
  BY <1>1, InitTableInv, TypeInvariant, PTL DEF Spec

\* Until descriptor 0 is hung up, pollfds and so->client_fd hold the same connections, each once,
\* num_connections counts them, and accept is polled for exactly while there is room.
THEOREM ArraysAgree == Spec => []TwoArraysOneTable
<1>1. TableInv => TwoArraysOneTable
  BY DEF TableInv
<1> QED
  BY <1>1, TableInvariant, PTL

\* destroy_poll_state leaves no connection open, wherever the loop was left.
THEOREM TeardownComplete == Spec => []NothingLeftOpen
<1>1. TableInv => NothingLeftOpen
  BY DEF TableInv, ArrayInv, NothingLeftOpen
<1> QED
  BY <1>1, TableInvariant, PTL

-----------------------------------------------------------------------------
(* The connection table. *)

IsNew(k) == peer[k] = "none" \/ k \in backlog
InSlot(k) == \E p \in Slots : open[client_fd[p]] = k

\* Which slot a connection is in and whether it is new decide its place in the table.
LEMMA TableSame ==
    ASSUME \A k \in Conns : InSlot(k)' <=> InSlot(k), \A k \in Conns : IsNew(k)' <=> IsNew(k)
    PROVE  TableNow' = TableNow
<1>1. \A k \in Conns : TableOf(k)' = TableOf(k)
  BY Zenon DEF TableOf, InSlot, IsNew
<1> QED
  BY <1>1 DEF TableNow

\* Each connection kept has a slot in use of its own: the slots in use bound their number.
LEMMA KeptBounded ==
    ASSUME TypeInv, TableInv, ~stdin_hup, pc # "done"
    PROVE  /\ IsFiniteSet(Table!Kept)
           /\ Table!Cardinality(Table!Kept) <= Cardinality(Used)
<1> DEFINE K == {k \in Conns : InSlot(k)}
           U == {p \in Slots : open[fd[p]] \in Conns}
           at == [p \in U |-> open[fd[p]]]
<1>1. client_fd = fd /\ open[0] = Stdin
  BY DEF TableInv, TwoArraysOneTable, ArrayInv
<1>2. U \subseteq Used /\ Used \subseteq Slots
  BY <1>1, ConnsAssumption DEF Used
<1>3. at \in Surjection(U, K)
  <2>1. \A p \in U : at[p] \in K
    BY <1>1 DEF InSlot
  <2>2. at \in [U -> K]
    BY <2>1
  <2>3. \A k \in K : \E p \in U : at[p] = k
    BY <1>1 DEF InSlot
  <2> QED
    BY <2>2, <2>3 DEF Surjection
<1>4. IsFiniteSet(Used)
  BY SlotSets DEF Used
<1>5. IsFiniteSet(U) /\ Cardinality(U) <= Cardinality(Used)
  BY <1>2, <1>4, FS_Subset
<1>6. Cardinality(K) <= Cardinality(U)
  <2> HIDE DEF K, U, at
  <2> QED
    BY <1>3, <1>5, FS_Surjection
<1>10. IsFiniteSet(K)
  <2> HIDE DEF K, U, at
  <2> QED
    BY <1>3, <1>5, FS_Surjection
<1>7. Cardinality(K) \in Nat /\ Cardinality(U) \in Nat /\ Cardinality(Used) \in Nat
  BY <1>4, <1>5, <1>10, FS_CardinalityType
<1>8. Table!Kept = K
  BY DEF Table!Kept, TableNow, TableOf, InSlot
<1>9. Table!Cardinality(K) = Cardinality(K)
  BY Zenon DEF Table!Cardinality, Cardinality
<1> HIDE DEF K, U, at
<1> QED
  BY <1>5, <1>6, <1>7, <1>8, <1>9, <1>10

LEMMA TableAccept ==
    ASSUME TypeInv, TableInv, poll_accept, ~stdin_hup, ~stdin_hup'
    PROVE  Table!Next
<1>1. PICK k \in backlog, p \in Slots, f \in Fds \ {0} :
            /\ fd[p] = 0 /\ open[f] = NoConn
            /\ \A q \in Slots : fd[q] # f
            /\ backlog' = backlog \ {k}
            /\ open' = [open EXCEPT ![f] = k]
            /\ client_fd' = [client_fd EXCEPT ![p] = f]
            /\ fd' = [fd EXCEPT ![p] = f]
  BY AcceptFills
<1>2. pc = "poll" /\ UNCHANGED peer /\ client_fd = fd /\ open[0] = Stdin
  BY DEF poll_accept, clientVars, TableInv, TwoArraysOneTable, ArrayInv
<1> USE FdsAssumption, ConnsAssumption, LimitsAssumption DEF TypeInv, TypeOK, KernelTypeOK
<1>3. k \in Conns /\ \A g \in Fds : open[g] # k
  BY <1>1, <1>2 DEF TableInv, ArrayInv, Known
<1>4. TableNow[k] = "new"
  BY <1>1, <1>2, <1>3 DEF TableNow, TableOf
<1>5. TableOf(k)' = "watched"
  BY <1>1, <1>2, <1>3 DEF TableOf
<1>6. ASSUME NEW j \in Conns, j # k PROVE TableOf(j)' = TableOf(j)
  <2>1. \A q \in Slots : q # p => open'[client_fd'[q]] = open[client_fd[q]]
    BY <1>1, <1>2
  <2>2. open'[client_fd'[p]] = k /\ open[client_fd[p]] = Stdin
    BY <1>1, <1>2
  <2>3. InSlot(j)' <=> InSlot(j)
    BY <1>6, <2>1, <2>2 DEF InSlot
  <2>4. IsNew(j)' <=> IsNew(j)
    BY <1>1, <1>2, <1>6 DEF IsNew
  <2> QED
    BY <2>3, <2>4, Zenon DEF TableOf, InSlot, IsNew
<1>7. TableNow' = [TableNow EXCEPT ![k] = "watched"]
  BY <1>3, <1>5, <1>6 DEF TableNow
<1>8. Table!Cardinality(Table!Kept) < MaxConnections
  <2>1. Cardinality(Used) < MaxConnections
    BY <1>1, <1>2, SlotSets DEF Used
  <2>2. Table!Cardinality(Table!Kept) <= Cardinality(Used)
    BY <1>2, KeptBounded
  <2>3. Table!Cardinality(Table!Kept) \in Nat
    <3>1. Table!Cardinality(Table!Kept) = Cardinality(Table!Kept)
      BY Zenon DEF Table!Cardinality, Cardinality
    <3>2. IsFiniteSet(Table!Kept)
      BY <1>2, KeptBounded
    <3> QED
      BY <3>1, <3>2, FS_CardinalityType
  <2>4. Cardinality(Used) \in Nat
    BY SlotSets DEF Used
  <2> QED
    BY <2>1, <2>2, <2>3, <2>4
<1> QED
  BY <1>3, <1>4, <1>7, <1>8 DEF Table!Next, Table!Accept

\* A removed connection was in the one slot that is emptied.
LEMMA TableRemove ==
    ASSUME TypeInv, TableInv, NEW p \in Slots, poll_remove_connection(p), ~stdin_hup
    PROVE  Table!Next
<1>1. /\ pc = "scan" /\ fd[p] # 0 /\ client_fd = fd /\ open[0] = Stdin
      /\ \A q \in Slots : q # p => fd[q] # fd[p]
  BY DEF poll_remove_connection, Current, TableInv, TwoArraysOneTable, ArrayInv
<1> USE FdsAssumption, ConnsAssumption DEF TypeInv, TypeOK, KernelTypeOK
<1>2. /\ open' = [open EXCEPT ![fd[p]] = NoConn]
      /\ client_fd' = [client_fd EXCEPT ![p] = 0]
      /\ UNCHANGED <<backlog, peer>>
  BY DEF poll_remove_connection, ConnIndex, clientVars
<1>3. PICK k \in Conns : k = open[fd[p]] /\ Known(k) /\ \A f \in Fds : open[f] = k => f = fd[p]
  <2>1. /\ open[fd[p]] \in Conns /\ Known(open[fd[p]])
        /\ \A f \in Fds : open[f] = open[fd[p]] => f = fd[p]
    BY <1>1 DEF TableInv, ArrayInv
  <2> QED
    BY <2>1
<1>4. TableNow[k] = "watched"
  BY <1>1, <1>3 DEF TableNow, TableOf
<1>5. \A q \in Slots : open'[client_fd'[q]] = IF q = p THEN Stdin ELSE open[client_fd[q]]
  BY <1>1, <1>2
<1>6. TableOf(k)' = "gone"
  <2>1. ~InSlot(k)'
    BY <1>1, <1>3, <1>5 DEF InSlot
  <2>2. ~IsNew(k)'
    BY <1>2, <1>3 DEF IsNew, Known
  <2> QED
    BY <2>1, <2>2, Zenon DEF TableOf, InSlot, IsNew
<1>7. ASSUME NEW j \in Conns, j # k PROVE TableOf(j)' = TableOf(j)
  <2>1. InSlot(j)' <=> InSlot(j)
    BY <1>1, <1>3, <1>5, <1>7 DEF InSlot
  <2>2. IsNew(j)' <=> IsNew(j)
    BY <1>2 DEF IsNew
  <2> QED
    BY <2>1, <2>2, Zenon DEF TableOf, InSlot, IsNew
<1>8. TableNow' = [TableNow EXCEPT ![k] = "gone"]
  BY <1>3, <1>6, <1>7 DEF TableNow
<1> QED
  BY <1>3, <1>4, <1>8 DEF Table!Next, Table!Drop

LEMMA TableDestroy ==
    ASSUME TypeInv, TableInv, destroy_poll_state, ~stdin_hup
    PROVE  Table!Next
<1> USE FdsAssumption, ConnsAssumption DEF TypeInv, TypeOK, KernelTypeOK
<1>1. /\ UNCHANGED <<client_fd, backlog, peer>> /\ client_fd = fd /\ pc # "done"
      /\ open' = [f \in Fds |-> IF ClosedAtExit(f) THEN NoConn ELSE open[f]]
  BY DEF destroy_poll_state, slotVars, clientVars, TableInv, TwoArraysOneTable
<1>2. \A p \in Slots : open'[client_fd'[p]] = NoConn
  BY <1>1 DEF ClosedAtExit
<1>3. ASSUME NEW k \in Conns
      PROVE  TableOf(k)' = IF TableOf(k) = "watched" THEN "gone" ELSE TableOf(k)
  <2>1. ~InSlot(k)' /\ (IsNew(k)' <=> IsNew(k))
    BY <1>1, <1>2 DEF InSlot, IsNew
  <2>2. InSlot(k) => ~IsNew(k)
    <3> SUFFICES ASSUME NEW p \in Slots, open[client_fd[p]] = k PROVE ~IsNew(k)
      BY DEF InSlot
    <3>1. Known(open[client_fd[p]])
      BY <1>1 DEF TableInv, ArrayInv
    <3> QED
      BY <3>1 DEF IsNew, Known
  <2> QED
    BY <2>1, <2>2, Zenon DEF TableOf, InSlot, IsNew
<1>4. Table!CloseAll
  BY <1>3 DEF Table!CloseAll, TableNow
<1> QED
  BY <1>4 DEF Table!Next

LEMMA TableServer ==
    ASSUME TypeInv, TableInv, ServerStep, ~stdin_hup
    PROVE  Table!Next \/ UNCHANGED TableNow
<1>1. UNCHANGED stdin_hup
  BY DEF ServerStep, poll_accept, accept_fails, poll_sockets, recv_length, recv_body, respond,
         poll_remove_connection, poll_comm_done, destroy_poll_state, setup_poll_state_fails,
         open_poll_server_for_listen, run_poll_server, destroy_no_state, CoreStep, kernelVars
<1>2. CASE accept_fails \/ poll_sockets \/ poll_comm_done
           \/ \E p \in Slots : recv_length(p) \/ recv_body(p) \/ respond(p)
  <2>1. UNCHANGED <<open, backlog, client_fd>>
    BY <1>2 DEF accept_fails, poll_sockets, poll_comm_done, recv_length, recv_body, respond,
                slotVars, kernelVars
  <2>2. \A k \in Conns : peer'[k] = "none" <=> peer[k] = "none"
    BY <1>2 DEF accept_fails, poll_sockets, poll_comm_done, recv_length, recv_body, respond,
                Answer, clientVars, TypeInv, TypeOK, ClientTypeOK
  <2> QED
    BY <2>1, <2>2, TableSame DEF InSlot, IsNew
<1>3. CASE OuterStep
  <2>1. UNCHANGED <<open, backlog, client_fd, peer>>
    BY <1>3, OuterFrame DEF slotVars, kernelVars, clientVars
  <2> QED
    BY <2>1, TableSame DEF InSlot, IsNew
<1> QED
  BY <1>1, <1>2, <1>3, TableAccept, TableRemove, TableDestroy DEF ServerStep, OuterStep

\* Until descriptor 0 is hung up the poll server implements the connection table.
THEOREM PollImplementsTable == Spec => ImplementsTable
<1>1. Init => Table!Init
  <2> SUFFICES ASSUME Init PROVE \A k \in Conns : TableOf(k) = "new"
    BY DEF Table!Init, TableNow
  <2> QED
    BY ConnsAssumption, FdsAssumption DEF Init, InitKernel, TableOf
<1>2. TypeInv /\ TableInv /\ [Next]_vars
        => [~stdin_hup => Table!Next \/ UNCHANGED TableNow]_vars
  <2> SUFFICES ASSUME TypeInv, TableInv, ~stdin_hup, Next, ~ServerStep PROVE UNCHANGED TableNow
    BY TableServer
  <2>1. CASE SignalStep
    <3>1. UNCHANGED <<open, backlog, client_fd, peer>>
      BY <2>1, SignalFrame DEF slotVars, kernelVars, clientVars
    <3> QED
      BY <3>1, TableSame DEF InSlot, IsNew
  <2>2. CASE EnvStep
    <3>1. EnvFrameGoal
      BY <2>2, EnvFrame
    <3>2. \A k \in Conns : IsNew(k)' <=> IsNew(k)
      BY <3>1 DEF EnvFrameGoal, IsNew
    <3>3. \A k \in Conns : InSlot(k)' <=> InSlot(k)
      BY <3>1 DEF EnvFrameGoal, InSlot, ServerVars, slotVars
    <3> QED
      BY <3>2, <3>3, TableSame
  <2> QED
    BY <2>1, <2>2 DEF Next, SignalStep
<1> QED
  BY <1>1, <1>2, TableInvariant, PTL DEF Spec, ImplementsTable

-----------------------------------------------------------------------------
(***************************************************************************)
(* Answers.  The server looks at one message at a time and receives it to  *)
(* its end, so between two messages every client that is still there has   *)
(* had nothing received from it, or everything, and then it was answered.  *)
(***************************************************************************)

\* The connection whose message is being received.
Now(k) == \E p \in Slots : Receiving(p) /\ open[fd[p]] = k

Whole(k) ==
    /\ reply[k] \in {NoReply, Body}
    /\ Unscanned \/ pc = "scan" => Settled(k)
    /\ pc \in {"body", "respond"} /\ ~Now(k) => Settled(k)
    /\ pc = "body" /\ Now(k) => taken[k] = bytes_read + 1
    /\ pc = "respond" /\ Now(k) => taken[k] = Body + 1 /\ bytes_read = Body

Here(k) == peer[k] \in {"none", "open"}
WholeInv == \A k \in Conns : Here(k) => Whole(k)

LEMMA OneCurrent ==
    ASSUME NEW p \in Slots, NEW q \in Slots, Current(p), Current(q)
    PROVE  p = q
BY LimitsAssumption DEF Current

\* A step that is not one of the message's own.
LEMMA WholeOther ==
    ASSUME WholeInv, UNCHANGED <<taken, reply>>, Unscanned' \/ pc' = "scan" => Unscanned \/ pc = "scan",
           pc' \notin {"body", "respond"}, \A k \in Conns : Here(k)' => Here(k)
    PROVE  WholeInv'
BY DEF WholeInv, Whole, Settled, Unscanned

\* The server counts what it receives and answers the count of the whole message.
LEMMA WholeMessage ==
    ASSUME TypeInv, WholeInv, NEW p \in Slots, recv_length(p) \/ recv_body(p) \/ respond(p)
    PROVE  WholeInv'
<1>1. PICK k \in Conns : k = open[fd[p]] /\ Receiving(p)
  BY DEF recv_length, recv_body, respond, Receiving, TypeInv, ScanInv, Scanning
<1>2. \A j \in Conns : Now(j) <=> j = k
  BY <1>1, OneCurrent DEF Now, Receiving
<1>3. \A j \in Conns : Here(j)' => Here(j)
  BY DEF recv_length, recv_body, respond, Answer, Here, TypeInv, TypeOK, ClientTypeOK
<1>4. ASSUME recv_length(p) \/ recv_body(p) PROVE WholeInv'
  <2>1. UNCHANGED <<fd, open, revents, reply>>
    BY <1>4 DEF recv_length, recv_body, slotVars, kernelVars
  <2>2. \A j \in Conns : Now(j)' <=> j = k
    BY <1>2, <2>1 DEF Now, Receiving, Current, NeedsAction
  <2>3. \A j \in Conns : j # k => taken'[j] = taken[j]
    BY <1>1, <1>4 DEF recv_length, recv_body, TypeInv, TypeOK, ClientTypeOK
  <2>4. pc' \in {"body", "respond", "close"} /\ pc \in {"scan", "body"}
    BY <1>4 DEF recv_length, recv_body, Fails
  <2>5. ASSUME NEW j \in Conns, j # k, Here(j)' PROVE Whole(j)'
    BY <1>2, <1>3, <2>1, <2>2, <2>3, <2>4, <2>5 DEF WholeInv, Whole, Settled, Unscanned
  <2>6. ASSUME Here(k)' PROVE Whole(k)'
    <3>1. Whole(k) /\ Here(k) /\ ~AtEof(k) /\ Now(k) /\ Now(k)'
      BY <1>1, <1>2, <1>3, <2>2, <2>6 DEF WholeInv, Here, AtEof
    <3>2. /\ taken[k] \in 0 .. Body + 1 /\ wrote[k] \in 0 .. Body + 1 /\ bytes_read \in 0 .. Body
          /\ Body \in Nat \ {0}
      BY <1>1, BodyAssumption DEF TypeInv, TypeOK, ClientTypeOK
    <3>3. ASSUME recv_length(p) PROVE Whole(k)'
      <4>1. pc = "scan" /\ taken[k] \in {0, Body + 1}
        BY <3>1, <3>3 DEF recv_length, Whole, Settled
      <4>2. \/ pc' = "close"
            \/ HasData(k) /\ taken'[k] = taken[k] + 1 /\ pc' = "body" /\ bytes_read' = 0
        BY <1>1, <3>1, <3>3 DEF recv_length, Fails, TypeInv, TypeOK, ClientTypeOK
      <4>3. pc' = "body" => taken'[k] = bytes_read' + 1
        BY <3>2, <4>1, <4>2 DEF HasData
      <4> QED
        BY <2>1, <3>1, <4>2, <4>3 DEF Whole, Unscanned
    <3>4. ASSUME recv_body(p) PROVE Whole(k)'
      <4>1. pc = "body" /\ taken[k] = bytes_read + 1
        BY <3>1, <3>4 DEF recv_body, Whole
      <4>2. \/ pc' = "close"
            \/ /\ taken'[k] = taken[k] + 1 /\ bytes_read' = bytes_read + 1
               /\ pc' = IF bytes_read + 1 >= Body THEN "respond" ELSE "body"
        BY <1>1, <3>1, <3>4 DEF recv_body, BodyDone, Fails, TypeInv, TypeOK, ClientTypeOK
      <4>3. bytes_read < Body
        BY <4>1 DEF TypeInv, ScanInv
      <4>4. /\ pc' = "body" => taken'[k] = bytes_read' + 1
            /\ pc' = "respond" => taken'[k] = Body + 1 /\ bytes_read' = Body
        BY <3>2, <4>1, <4>2, <4>3
      <4> QED
        BY <2>1, <2>4, <3>1, <4>4 DEF Whole, Unscanned
    <3> QED
      BY <1>4, <3>3, <3>4
  <2> QED
    BY <2>5, <2>6 DEF WholeInv
<1>5. ASSUME respond(p) PROVE WholeInv'
  <2>1. /\ UNCHANGED <<taken, bytes_read>> /\ pc = "respond" /\ pc' \in {"scan", "killed", "close"}
        /\ UNCHANGED reply \/ reply' = [reply EXCEPT ![k] = bytes_read]
    BY <1>1, <1>5 DEF respond, Answer, Fails
  <2>2. ASSUME NEW j \in Conns, Here(j)' PROVE Whole(j)'
    <3>1. /\ j # k => Settled(j)
          /\ j = k => taken[k] = Body + 1 /\ bytes_read = Body
          /\ reply[j] \in {NoReply, Body}
      BY <1>1, <1>2, <1>3, <2>1, <2>2 DEF WholeInv, Whole
    <3>2. j # k => reply'[j] = reply[j]
      BY <2>1 DEF TypeInv, TypeOK, ClientTypeOK
    <3>3. j = k => reply'[k] = Body
      <4> SUFFICES ASSUME j = k PROVE reply'[k] = Body
        OBVIOUS
      <4>1. peer'[k] = "open" /\ reply' = [reply EXCEPT ![k] = bytes_read]
        BY <1>1, <1>5, <2>2 DEF respond, Answer, IsReset, Here, TypeInv, TypeOK, ClientTypeOK
      <4> QED
        BY <3>1, <4>1 DEF TypeInv, TypeOK, ClientTypeOK
    <3> QED
      BY <2>1, <3>1, <3>2, <3>3 DEF Whole, Settled
  <2> QED
    BY <2>2 DEF WholeInv
<1> QED
  BY <1>4, <1>5

LEMMA WholeStep == TypeInv /\ WholeInv /\ [Next]_vars => WholeInv'
<1> SUFFICES ASSUME TypeInv, WholeInv, [Next]_vars PROVE WholeInv'
  OBVIOUS
<1>1. ASSUME NEW p \in Slots, recv_length(p) \/ recv_body(p) \/ respond(p) PROVE WholeInv'
  BY <1>1, WholeMessage
<1>2. CASE \/ poll_accept \/ accept_fails \/ poll_sockets \/ poll_comm_done \/ destroy_poll_state
           \/ \E p \in Slots : poll_remove_connection(p)
  <2>1. /\ UNCHANGED <<taken, reply, peer>>
        /\ (pc \in {"poll", "scan"} /\ pc' \in {"poll", "scan", "close"}) \/ pc' = "done"
    BY <1>2 DEF poll_accept, accept_fails, poll_sockets, poll_comm_done, destroy_poll_state,
                poll_remove_connection, LoopTest, Fails, clientVars
  <2> QED
    BY <2>1, WholeOther DEF Here, Unscanned
<1>3. CASE SignalStep \/ UNCHANGED vars
  <2>1. /\ UNCHANGED <<fd, open, revents, bytes_read, taken, reply, peer>>
        /\ pc' \in {pc, "close", "killed"}
    BY <1>3, SignalFrame DEF slotVars, kernelVars, clientVars, vars, ServerVars
  <2>2. \A k \in Conns : Now(k)' <=> Now(k)
    BY <2>1 DEF Now, Receiving, Current, NeedsAction
  <2> QED
    BY <2>1, <2>2 DEF WholeInv, Whole, Settled, Here, Unscanned
<1>4. CASE EnvStep
  <2>1. UNCHANGED <<pc, fd, open, revents, bytes_read>>
    BY <1>4, EnvFrame DEF EnvFrameGoal, ServerVars, slotVars
  <2>2. UNCHANGED <<taken, reply>> /\ \A k \in Conns : Here(k)' => Here(k)
    BY <1>4 DEF EnvStep, ClientMoves, RstArrives, ClientStep, ClientConnect, ClientWrite, ClientClose,
                ClientAbort, ClientReset, DeliverRst, StdinHangup, clientVars, Here, TypeInv, TypeOK,
                ClientTypeOK
  <2>3. \A k \in Conns : Now(k)' <=> Now(k)
    BY <2>1 DEF Now, Receiving, Current, NeedsAction
  <2> QED
    BY <2>1, <2>2, <2>3 DEF WholeInv, Whole, Settled, Unscanned
<1>5. CASE OuterStep
  <2>1. /\ UNCHANGED <<taken, reply, peer, fd, open, revents, bytes_read>>
        /\ pc' = pc \/ (Unscanned /\ pc' \in {"nostate", "ready", "poll", "killed"})
    BY <1>5, OuterFrame DEF Unscanned, slotVars, kernelVars, clientVars
  <2>2. \A k \in Conns : Now(k)' <=> Now(k)
    BY <2>1 DEF Now, Receiving, Current, NeedsAction
  <2> QED
    BY <2>1, <2>2 DEF WholeInv, Whole, Settled, Here, Unscanned
<1> QED
  BY <1>1, <1>2, <1>3, <1>4, <1>5 DEF Next, ServerStep, SignalStep, OuterStep

\* The poll server never answers a client that is still there with the length of part of its
\* message, even after descriptor 0 was hung up and two places hold the same descriptor.
THEOREM PollRepliesWhole == Spec => []ReplyOnlyWhole
<1>1. Init => WholeInv
  BY DEF Init, InitKernel, WholeInv, Whole, Settled
<1>2. WholeInv => ReplyOnlyWhole
  BY DEF WholeInv, Whole, ReplyOnlyWhole, Here
<1> QED
  BY <1>1, <1>2, TypeInvariant, WholeStep, PTL DEF Spec

-----------------------------------------------------------------------------
(***************************************************************************)
(* The exit status.                                                        *)
(***************************************************************************)

\* What the core calls first, and that only close_server comes after the loop.
CallInv ==
    /\ core \in {"setup", "load"} => next_state = "INITIALIZE_SERVER"
    /\ core = "exited" => next_state = "EXIT" \/ exit_status = "failure"
    /\ InLoop => core = "loop" /\ next_state = "RUN_SERVER"
    /\ next_state = "CLOSE_SERVER" => pc = "close"
    /\ ~GOGO_POLL => signals > 0

\* close_server was called, or has returned, with no error before it.
ClosedWell == next_state = "CLOSE_SERVER" \/ (next_state = "EXIT" /\ exit_status = "success")

WellInv == ClosedWell => signals > 0 /\ \A k \in Conns : Here(k) => Settled(k)

StatusInv == CallInv /\ WellInv

\* A step after which nobody who is there has been received from, and the core calls what it did.
LEMMA StatusSame ==
    ASSUME StatusInv, UNCHANGED <<coreVars, taken, reply>>, signals' >= signals, signals \in Nat,
           signals' \in Nat, InLoop' => InLoop, pc = "close" => pc' = "close",
           ~GOGO_POLL' => ~GOGO_POLL \/ signals' > 0, \A k \in Conns : Here(k)' => Here(k)
    PROVE  StatusInv'
BY DEF StatusInv, CallInv, WellInv, ClosedWell, Settled, coreVars

\* A step that leaves the loop.
LEMMA StatusLeaves ==
    ASSUME StatusInv, core = "loop", pc' = "close", NEW r \in {"CLOSE_SERVER", "ERROR"}, Returns(r),
           ~GOGO_POLL' => signals' > 0,
           r = "CLOSE_SERVER" => signals' > 0 /\ \A k \in Conns : Here(k)' => Settled(k)'
    PROVE  StatusInv'
BY DEF StatusInv, CallInv, WellInv, ClosedWell, Returns, InLoop

\* A step of the loop that does not leave it, or is the last.
LEMMA StatusStays ==
    ASSUME StatusInv, InLoop, UNCHANGED <<coreVars, signalVars>>, pc' # "close"
    PROVE  StatusInv'
BY DEF StatusInv, CallInv, WellInv, ClosedWell, InLoop, coreVars, signalVars

LEMMA StatusLoop ==
    ASSUME TypeInv, WholeInv, StatusInv, InLoop, ServerStep, ~OuterStep, ~destroy_poll_state
    PROVE  StatusInv'
<1>1. core = "loop"
  BY DEF StatusInv, CallInv
<1>2. UNCHANGED signalVars /\ \A k \in Conns : Here(k)' => Here(k)
  BY DEF ServerStep, OuterStep, poll_accept, accept_fails, poll_sockets, recv_length, recv_body,
         respond, poll_remove_connection, poll_comm_done, Answer, clientVars, Here, TypeInv, TypeOK,
         ClientTypeOK
<1>3. \/ UNCHANGED coreVars /\ pc' # "close"
      \/ pc' = "close" /\ Returns("ERROR")
      \/ (poll_accept \/ poll_comm_done) /\ LoopTest
  BY DEF ServerStep, OuterStep, poll_accept, accept_fails, poll_sockets, recv_length, recv_body,
         respond, poll_remove_connection, poll_comm_done, Fails, InLoop
<1>4. ASSUME poll_accept \/ poll_comm_done, ~GOGO_POLL
      PROVE  signals > 0 /\ \A k \in Conns : Here(k)' => Settled(k)'
  <2>1. pc \in {"poll", "scan"} /\ UNCHANGED <<taken, reply>>
    BY <1>4 DEF poll_accept, poll_comm_done, clientVars
  <2> QED
    BY <1>2, <1>4, <2>1 DEF WholeInv, Whole, Settled, Unscanned, StatusInv, CallInv
<1>5. ~GOGO_POLL' => signals' > 0
  BY <1>2 DEF StatusInv, CallInv, signalVars
<1>6. CASE UNCHANGED coreVars /\ pc' # "close"
  BY <1>2, <1>6, StatusStays
<1>7. CASE pc' = "close" /\ Returns("ERROR")
  BY <1>1, <1>5, <1>7, StatusLeaves
<1>8. CASE (poll_accept \/ poll_comm_done) /\ LoopTest
  <2>1. CASE GOGO_POLL
    BY <1>2, <1>8, <2>1, StatusStays DEF LoopTest
  <2>2. CASE ~GOGO_POLL
    <3>1. pc' = "close" /\ Returns("CLOSE_SERVER")
      BY <1>8, <2>2 DEF LoopTest
    <3>2. signals' > 0
      BY <1>4, <1>5, <1>8, <1>2, <2>2 DEF signalVars
    <3> QED
      BY <1>1, <1>4, <1>5, <1>8, <2>2, <3>1, <3>2, StatusLeaves
  <2> QED
    BY <2>1, <2>2
<1> QED
  BY <1>3, <1>6, <1>7, <1>8

LEMMA StatusOuter == TypeInv /\ StatusInv /\ (OuterStep \/ destroy_poll_state) => StatusInv'
<1> SUFFICES ASSUME TypeInv, StatusInv, OuterStep \/ destroy_poll_state PROVE StatusInv'
  OBVIOUS
<1> USE DEF StatusInv, CallInv, WellInv, ClosedWell, Settled, Here, InLoop, coreVars, Calling
<1>1. UNCHANGED <<clientVars, signalVars>>
  BY OuterFrame DEF destroy_poll_state
<1>2. CASE CoreStep
  <2>1. UNCHANGED pc
    BY <1>2 DEF CoreStep, ServerVars
  <2> QED
    BY <1>1, <1>2, <2>1 DEF CoreStep, setup_core_object, get_api, run_core_exit, Fail, clientVars,
                            signalVars
<1>3. CASE setup_poll_state_fails \/ open_poll_server_for_listen
  BY <1>1, <1>3 DEF setup_poll_state_fails, open_poll_server_for_listen, Returns, StatusAfter,
                    clientVars, signalVars
<1>4. CASE run_poll_server \/ destroy_no_state
  BY <1>1, <1>4 DEF run_poll_server, destroy_no_state, clientVars, signalVars
<1>5. CASE destroy_poll_state
  BY <1>1, <1>5 DEF destroy_poll_state, Returns, StatusAfter, clientVars, signalVars
<1> QED
  BY <1>2, <1>3, <1>4, <1>5 DEF OuterStep

LEMMA StatusStep == TypeInv /\ WholeInv /\ StatusInv /\ [Next]_vars => StatusInv'
<1> SUFFICES ASSUME TypeInv, WholeInv, StatusInv, [Next]_vars PROVE StatusInv'
  OBVIOUS
<1>1. CASE ServerStep
  <2>1. ServerStep /\ ~OuterStep /\ ~destroy_poll_state => InLoop
    BY DEF ServerStep, OuterStep, poll_accept, accept_fails, poll_sockets, recv_length, recv_body,
           respond, poll_remove_connection, poll_comm_done, InLoop
  <2> QED
    BY <1>1, <2>1, StatusLoop, StatusOuter
<1>2. CASE end_gogo_handler \/ signalled_early
  <2>1. /\ UNCHANGED <<coreVars, taken, reply, peer>> /\ signals' = signals + 1
        /\ signals \in Nat
        /\ InLoop' => InLoop
        /\ pc = "close" => pc' = "close"
    BY <1>2, LimitsAssumption DEF end_gogo_handler, signalled_early, Signalled, clientVars, InLoop,
                                  TypeInv, TypeOK
  <2> QED
    BY <2>1, StatusSame DEF Here
<1>3. CASE interrupted
  <2>1. UNCHANGED <<taken, reply, peer>> /\ signals' > 0
    BY <1>3, LimitsAssumption DEF interrupted, Signalled, clientVars, TypeInv, TypeOK
  <2>2. core = "loop"
    BY <1>3 DEF interrupted, InLoop, StatusInv, CallInv
  <2>3. \/ pc = "poll" /\ Leaves("CLOSE_SERVER")
        \/ Leaves("ERROR")
    BY <1>3 DEF interrupted, RecvInterrupted
  <2>4. pc = "poll" => \A k \in Conns : Here(k)' => Settled(k)'
    BY <2>1 DEF WholeInv, Whole, Unscanned, Settled, Here
  <2> QED
    BY <2>1, <2>2, <2>3, <2>4, StatusLeaves
<1>4. CASE EnvStep \/ UNCHANGED vars
  <2>1. UNCHANGED <<coreVars, taken, reply, pc, GOGO_POLL, signals>>
        /\ \A k \in Conns : Here(k)' => Here(k)
    BY <1>4 DEF EnvStep, ClientMoves, RstArrives, ServerUnchanged, ServerVars, signalVars, vars,
                ClientStep, ClientConnect, ClientWrite, ClientClose, ClientAbort, ClientReset,
                DeliverRst, StdinHangup, clientVars, Here, TypeInv, TypeOK, ClientTypeOK
  <2>2. signals \in Nat
    BY LimitsAssumption DEF TypeInv, TypeOK
  <2> QED
    BY <2>1, <2>2, StatusSame DEF InLoop, StatusInv, CallInv
<1> QED
  BY <1>1, <1>2, <1>3, <1>4 DEF Next

\* The program exits with success only after a signal, and only if the signal did not cut a message
\* short: with the status goes that every client still there was answered or not yet looked at.
THEOREM PollSuccessBetweenMessages == Spec => []SuccessBetweenMessages
<1>1. Init => WholeInv
  BY DEF Init, InitKernel, WholeInv, Whole, Settled
<1>2. Init => StatusInv
  BY DEF Init, InitCore, StatusInv, CallInv, WellInv, ClosedWell, InLoop
<1>3. StatusInv => SuccessBetweenMessages
  BY DEF StatusInv, CallInv, WellInv, ClosedWell, SuccessBetweenMessages, Here
<1> QED
  BY <1>1, <1>2, <1>3, TypeInvariant, WholeStep, StatusStep, PTL DEF Spec

-----------------------------------------------------------------------------
(***************************************************************************)
(* Closed clients.  Where poll() reports POLLHUP for a peer that closed,   *)
(* as the comments of poll_server.c expect, and clients close only once    *)
(* they have been answered, the server receives only from a client that is *)
(* waiting for its answer.                                                 *)
(***************************************************************************)

Polite == Platform = "macos" /\ "abort" \notin Faults /\ "reset" \notin Faults

WaitingInv ==
    ~stdin_hup =>
        /\ \A k \in Conns : reply[k] = NoReply => Here(k)
        /\ \A k \in Conns : taken[k] <= Body => reply[k] = NoReply
        /\ Scanning => \A p \in Slots : revents[p] = "in" => reply[open[fd[p]]] = NoReply

\* An answer goes to a client that is there to read it, and draws no RST.
AnswersThePresent ==
    pc = "respond" /\ ~stdin_hup =>
        \A p \in Slots : Receiving(p) => peer[open[fd[p]]] = "open"

\* A step outside of the scan.
LEMMA WaitingOther ==
    ASSUME WaitingInv, UNCHANGED <<taken, reply, peer>>, stdin_hup => stdin_hup', ~Scanning'
    PROVE  WaitingInv'
BY DEF WaitingInv, Here

LEMMA WaitingMessage ==
    ASSUME TypeInv, TableInv, WholeInv, WaitingInv, ~stdin_hup,
           NEW p \in Slots, recv_length(p) \/ recv_body(p) \/ respond(p)
    PROVE  WaitingInv'
<1>1. PICK k \in Conns : k = open[fd[p]] /\ Receiving(p)
  BY DEF recv_length, recv_body, respond, Receiving, TypeInv, ScanInv, Scanning
<1>2. Scanning /\ reply[k] = NoReply /\ Here(k)
  BY <1>1 DEF recv_length, recv_body, respond, Scanning, WaitingInv, Receiving
<1>3. /\ taken \in [Conns -> 0 .. Body + 1] /\ reply \in [Conns -> {NoReply} \cup 0 .. Body]
      /\ Body \in Nat \ {0} /\ fd \in [Slots -> Fds] /\ revents \in [Slots -> {"none", "in", "hup", "nval"}]
      /\ bytes_read \in 0 .. Body /\ peer \in [Conns -> {"none", "open", "fin", "rstdue", "rst", "finrst"}]
  BY BodyAssumption DEF TypeInv, TypeOK, ClientTypeOK
<1>4. CASE recv_length(p) \/ recv_body(p)
  <2>1. /\ UNCHANGED <<fd, open, revents, reply, peer, stdin_hup>>
        /\ UNCHANGED taken \/ taken' = [taken EXCEPT ![k] = @ + 1]
    BY <1>1, <1>4 DEF recv_length, recv_body, slotVars, kernelVars
  <2>2. \A j \in Conns : taken[j] \in Int /\ taken'[j] \in Int /\ taken'[j] >= taken[j]
    BY <1>3, <2>1
  <2>3. \A j \in Conns : taken'[j] <= Body => taken[j] <= Body
    BY <1>3, <2>2
  <2> QED
    BY <1>2, <2>1, <2>3 DEF WaitingInv, Here
<1>5. CASE respond(p)
  <2>1. taken[k] = Body + 1 /\ bytes_read = Body
    BY <1>1, <1>2, <1>5 DEF respond, WholeInv, Whole, Now
  <2>2. /\ UNCHANGED <<fd, open, taken, stdin_hup>> /\ Handled(p)
        /\ \/ reply' = [reply EXCEPT ![k] = bytes_read] /\ UNCHANGED peer
           \/ UNCHANGED <<peer, reply>>
    BY <1>1, <1>2, <1>5 DEF respond, Answer, slotVars, kernelVars, Here, IsReset
  <2>3. \A j \in Conns : reply'[j] = NoReply => reply[j] = NoReply
    BY <1>3, <2>1, <2>2
  <2>4. \A j \in Conns : j # k => reply'[j] = reply[j]
    BY <1>3, <2>2
  <2>5. \A q \in Slots : revents'[q] = "in" => revents[q] = "in" /\ q # p
    BY <1>3, <2>2 DEF Handled
  <2>6. ASSUME NEW q \in Slots, revents'[q] = "in" PROVE reply'[open'[fd'[q]]] = NoReply
    <3>1. q # p /\ revents[q] = "in" /\ open[fd[q]] \in Conns /\ reply[open[fd[q]]] = NoReply
      BY <1>2, <2>5, <2>6 DEF TypeInv, ScanInv, WaitingInv
    <3>2. fd[q] # 0 /\ fd[p] # 0
      BY <1>1, <3>1 DEF TableInv, ArrayInv, NeedsAction, Receiving
    <3>3. fd[q] # fd[p]
      BY <3>1, <3>2 DEF TableInv, TwoArraysOneTable
    <3>4. open[fd[q]] # k
      BY <1>1, <1>3, <3>1, <3>3 DEF TableInv, ArrayInv
    <3> QED
      BY <2>2, <2>4, <3>1, <3>4
  <2>7. \A j \in Conns : taken'[j] <= Body => j # k
    BY <1>3, <2>1, <2>2
  <2> QED
    BY <1>2, <2>2, <2>3, <2>4, <2>6, <2>7 DEF WaitingInv, Here
<1> QED
  BY <1>4, <1>5

\* poll() says POLLIN of a client that has sent something and has not been answered.
LEMMA WaitingPolled ==
    ASSUME Polite, TypeInv, WholeInv, WaitingInv, ~stdin_hup, poll_sockets
    PROVE  WaitingInv'
<1>1. /\ UNCHANGED <<fd, open, taken, reply, peer, stdin_hup>> /\ pc = "poll"
      /\ \A p \in Slots : revents'[p] = PollEvents(p)
  BY DEF poll_sockets, slotVars, kernelVars, clientVars
<1>2. ASSUME NEW p \in Slots, PollEvents(p) = "in" PROVE reply[open[fd[p]]] = NoReply
  <2> DEFINE k == open[fd[p]]
  <2>1. k \in Conns /\ ~HungUp(k) /\ Readable(k)
    BY <1>2 DEF PollEvents, PollOf, TypeInv, TypeOK, KernelTypeOK
  <2> HIDE DEF k
  <2>2. Here(k) /\ HasData(k)
    BY <2>1 DEF Polite, HungUp, Readable, IsReset, Here, TypeInv, TypeOK, ClientTypeOK
  <2>3. taken[k] \in 0 .. Body + 1 /\ wrote[k] \in 0 .. Body + 1 /\ Body \in Nat
    BY <2>1, BodyAssumption DEF TypeInv, TypeOK, ClientTypeOK
  <2>4. Settled(k)
    BY <1>1, <2>1, <2>2 DEF WholeInv, Whole, Unscanned
  <2>5. taken[k] <= Body
    BY <2>2, <2>3, <2>4 DEF Settled, HasData
  <2> QED
    BY <2>1, <2>5 DEF WaitingInv, k
<1> QED
  BY <1>1, <1>2 DEF WaitingInv, Here

LEMMA WaitingStep ==
    ASSUME Polite, TypeInv, TableInv, WholeInv, WaitingInv, [Next]_vars
    PROVE  WaitingInv'
<1>0. stdin_hup => stdin_hup'
  <2>1. CASE EnvStep
    BY <2>1, EnvFrame DEF EnvFrameGoal
  <2>2. CASE SignalStep \/ OuterStep \/ UNCHANGED vars
    BY <2>2, SignalFrame, OuterFrame DEF kernelVars, vars
  <2>3. CASE ServerStep /\ ~OuterStep
    BY <2>3 DEF ServerStep, OuterStep, poll_accept, accept_fails, poll_sockets, recv_length,
           recv_body, respond, poll_remove_connection, poll_comm_done, destroy_poll_state, kernelVars
  <2> QED
    BY <2>1, <2>2, <2>3 DEF Next, SignalStep
<1> SUFFICES ASSUME ~stdin_hup PROVE WaitingInv'
  BY <1>0 DEF WaitingInv
<1>1. CASE \E p \in Slots : recv_length(p) \/ recv_body(p) \/ respond(p)
  BY <1>1, WaitingMessage
<1>2. CASE poll_sockets
  BY <1>2, WaitingPolled
<1>3. CASE poll_accept \/ accept_fails \/ poll_comm_done \/ destroy_poll_state
  <2>1. UNCHANGED <<taken, reply, peer>> /\ pc' \in {"poll", "close", "done"}
    BY <1>3 DEF poll_accept, accept_fails, poll_comm_done, destroy_poll_state, LoopTest, Fails,
           clientVars
  <2> QED
    BY <1>0, <2>1, WaitingOther DEF Scanning
<1>4. ASSUME NEW p \in Slots, poll_remove_connection(p) PROVE WaitingInv'
  <2>1. /\ UNCHANGED <<taken, reply, peer, stdin_hup>> /\ Scanning /\ revents[p] = "hup"
        /\ open' = [open EXCEPT ![fd[p]] = NoConn] /\ fd' = [fd EXCEPT ![p] = 0] /\ Handled(p)
    BY <1>4 DEF poll_remove_connection, clientVars, Scanning
  <2>2. ASSUME NEW q \in Slots, revents'[q] = "in"
        PROVE  revents[q] = "in" /\ open'[fd'[q]] = open[fd[q]]
    <3>1. q # p /\ revents[q] = "in"
      BY <2>1, <2>2 DEF Handled, TypeInv, TypeOK
    <3>2. fd[q] # fd[p] /\ fd'[q] = fd[q]
      BY <2>1, <3>1 DEF TypeInv, TypeOK, ScanInv
    <3> QED
      BY <2>1, <3>1, <3>2 DEF TypeInv, TypeOK, KernelTypeOK
  <2> QED
    BY <2>1, <2>2 DEF WaitingInv, Here
<1>5. CASE SignalStep \/ OuterStep \/ UNCHANGED vars
  <2>1. /\ UNCHANGED <<taken, reply, peer, fd, open, revents, stdin_hup>>
        /\ pc' = pc \/ pc' \in {"close", "killed", "nostate", "ready", "poll"}
    BY <1>5, SignalFrame, OuterFrame DEF slotVars, kernelVars, clientVars, vars, ServerVars
  <2> QED
    BY <2>1 DEF WaitingInv, Here, Scanning
<1>6. CASE EnvStep
  <2>1. UNCHANGED <<pc, fd, revents, open>>
    BY <1>6, EnvFrame DEF EnvFrameGoal, ServerVars, slotVars
  <2>2. UNCHANGED <<taken, reply>> /\ \A k \in Conns : Here(k) /\ reply[k] = NoReply => Here(k)'
    BY <1>6 DEF EnvStep, ClientMoves, RstArrives, ClientStep, ClientConnect, ClientWrite, ClientClose,
                ClientAbort, ClientReset, DeliverRst, StdinHangup, clientVars, Here, Polite,
                TypeInv, TypeOK, ClientTypeOK
  <2> QED
    BY <2>1, <2>2 DEF WaitingInv, Scanning
<1> QED
  BY <1>1, <1>2, <1>3, <1>4, <1>5, <1>6 DEF Next, ServerStep, SignalStep, OuterStep

LEMMA WaitingInvariant == ASSUME Polite PROVE Spec => [](TypeInv /\ TableInv /\ WholeInv /\ WaitingInv)
<1>1. Init => WholeInv /\ WaitingInv
  BY DEF Init, InitKernel, WholeInv, Whole, Settled, WaitingInv, Here, Scanning
<1>2. TypeInv /\ TableInv /\ WholeInv /\ WaitingInv /\ [Next]_vars => WaitingInv'
  BY WaitingStep
<1> QED
  BY <1>1, <1>2, TableInvariant, WholeStep, PTL DEF Spec

\* On macOS, with clients that do not close before their answer, the server answers only clients
\* that are there to read it.
THEOREM PollAnswersThePresent == ASSUME Polite PROVE Spec => []AnswersThePresent
<1>1. TypeInv /\ TableInv /\ WaitingInv => AnswersThePresent
  <2> SUFFICES ASSUME TypeInv, TableInv, WaitingInv, pc = "respond", ~stdin_hup,
                      NEW p \in Slots, Receiving(p)
               PROVE  peer[open[fd[p]]] = "open"
    BY DEF AnswersThePresent
  <2>1. open[fd[p]] \in Conns /\ reply[open[fd[p]]] = NoReply
    BY DEF TypeInv, ScanInv, Scanning, WaitingInv, Receiving
  <2>2. fd[p] \in Fds
    BY DEF TypeInv, TypeOK
  <2> QED
    BY <2>1, <2>2 DEF WaitingInv, Here, TableInv, ArrayInv, Known
<1> QED
  BY <1>1, WaitingInvariant, PTL

\* There, nothing kills it: what fails on Linux holds for any number of clients on macOS.
THEOREM PollClosedClientsHarmless ==
    ASSUME Platform = "macos", Faults = {}, MaxSignals = 0
    PROVE  Spec => []ClosedClientsHarmless
<1> DEFINE Runs == pc \notin {"nostate", "killed"} /\ ~stdin_hup
<1>1. Polite
  BY DEF Polite
<1>2. Init => Runs
  BY DEF Init, InitKernel
<1>3. TypeInv /\ AnswersThePresent /\ Runs /\ [Next]_vars => Runs'
  <2> SUFFICES ASSUME TypeInv, AnswersThePresent, Runs, [Next]_vars PROVE Runs'
    OBVIOUS
  <2>1. CASE EnvStep
    BY <2>1, EnvFrame
    DEF EnvFrameGoal, ServerVars, EnvStep, ClientMoves, RstArrives, ClientStep, ClientConnect,
        ClientWrite, ClientClose, ClientAbort, ClientReset, DeliverRst, StdinHangup, kernelVars
  <2>2. ~SignalStep
    BY DEF SignalStep, end_gogo_handler, signalled_early, interrupted, Signalled, TypeInv, TypeOK
  <2>3. CASE OuterStep
    BY <2>3, OuterFrame DEF OuterStep, CoreStep, setup_poll_state_fails, destroy_no_state,
           open_poll_server_for_listen, run_poll_server, ServerVars, kernelVars
  <2>4. CASE UNCHANGED vars
    BY <2>4 DEF vars, ServerVars, kernelVars
  <2>5. ASSUME NEW p \in Slots, respond(p) PROVE Runs'
    <3>1. peer[open[fd[p]]] = "open"
      BY <2>5 DEF respond, AnswersThePresent
    <3> QED
      BY <2>5, <3>1 DEF respond, IsReset, kernelVars
  <2>6. ASSUME NEW p \in Slots, recv_length(p) \/ recv_body(p) \/ poll_remove_connection(p)
        PROVE  Runs'
    BY <2>6 DEF recv_length, recv_body, poll_remove_connection, Fails, kernelVars
  <2>7. CASE poll_accept \/ accept_fails \/ poll_sockets \/ poll_comm_done \/ destroy_poll_state
    BY <2>7 DEF poll_accept, accept_fails, poll_sockets, poll_comm_done, destroy_poll_state,
           LoopTest, Fails, kernelVars
  <2> QED
    BY <2>1, <2>2, <2>3, <2>4, <2>5, <2>6, <2>7 DEF Next, ServerStep, SignalStep, OuterStep
<1>4. Runs => ClosedClientsHarmless
  BY DEF ClosedClientsHarmless
<1> QED
  BY <1>1, <1>2, <1>3, <1>4, PollAnswersThePresent, TypeInvariant, PTL DEF Spec
=============================================================================
