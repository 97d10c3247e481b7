------------------------- MODULE ProcessServerProofs -------------------------
(***************************************************************************)
(* Proofs about ProcessServer, for any number of children, connections and *)
(* slots, with every fault and on both platforms: types, and that the      *)
(* handshake is right, that is, a connection that is passed to a child is  *)
(* that child's alone until its number comes back.  The argument is a      *)
(* chain of inductive invariants, each resting on the ones before it:      *)
(* types (TypeInv), the buffers hold one message (BufInv), the slots and   *)
(* the descriptor table agree (SlotInv), the counter counts the slots      *)
(* (ConnCount), every number on its way belongs to a disabled slot         *)
(* (TokenInv), and what is handed over is readable (ReadyInv).             *)
(***************************************************************************)
EXTENDS ProcessServer, SequenceTheorems, FiniteSetTheorems, TLAPS

(***************************************************************************)
(* Types.  TypeOK is not inductive: what the parent puts in the domain     *)
(* socket has its type because the slot the scan has reached is not        *)
(* disabled, and a child handles a connection, not the zeroed struct.      *)
(***************************************************************************)

Busy(c) == cpc[c] \in {"header", "body", "pipewait", "logwait", "logging", "respond"}

ScanInv ==
    /\ ppc # "scan" => \A p \in Slots : revents[p] = "none"
    /\ \A p \in Slots : NeedsAction(p) => fd[p] \in Fds

WorkInv ==
    \A c \in Children :
        /\ Busy(c) => client_fd_local[c] \in Conns
        /\ cpc[c] = "header" => bytes_read[c] = 0
        /\ cpc[c] = "body" => bytes_read[c] < Body

TypeInv == TypeOK /\ ScanInv /\ WorkInv

USE DEF Slots, Procs, NoReply

LEMMA InitTypeInv == Init => TypeInv
<1> SUFFICES ASSUME Init PROVE TypeInv
  OBVIOUS
<1> USE LimitsAssumption, BodyAssumption, FdsAssumption
<1>1. ParentTypeOK /\ SlotTypeOK
  BY DEF Init, InitKernel, ParentTypeOK, SlotTypeOK, NoRevents
<1>2. ChildTypeOK /\ SignalTypeOK
  BY DEF Init, InitKernel, ChildTypeOK, SignalTypeOK
<1>3. IpcTypeOK
  BY DEF Init, InitKernel, IpcTypeOK
<1>4. KernelTypeOK
  BY DEF Init, InitKernel, KernelTypeOK
<1>5. ClientTypeOK
  BY DEF Init, InitKernel, ClientTypeOK
<1>6. ScanInv /\ WorkInv
  BY DEF Init, InitKernel, ScanInv, WorkInv, Busy, NeedsAction, NoRevents
<1> QED
  BY <1>1, <1>2, <1>3, <1>4, <1>5, <1>6 DEF TypeInv, TypeOK

\* A step of the parent keeps the types.
LEMMA ParentTypeInv == TypeInv /\ ParentStep => TypeInv'
<1> SUFFICES ASSUME TypeInv, ParentStep PROVE TypeInv'
  OBVIOUS
<1> USE LimitsAssumption, BodyAssumption, FdsAssumption DEF TypeInv, TypeOK
<1>1. CASE p_accept_new_connection
  <2> USE <1>1 DEF p_accept_new_connection
  <2>1. ParentTypeOK' /\ ScanInv'
    BY DEF ParentTypeOK, ScanInv, NeedsAction, PLoopTest
  <2>2. SlotTypeOK' /\ KernelTypeOK'
    BY DEF SlotTypeOK, KernelTypeOK, SizeInc, ListenAfterAccept
  <2>3. ChildTypeOK' /\ WorkInv'
    BY DEF ChildTypeOK, WorkInv, Busy, childVars
  <2>4. SignalTypeOK' /\ IpcTypeOK' /\ ClientTypeOK'
    BY DEF SignalTypeOK, IpcTypeOK, ClientTypeOK, signalVars, domainVars, pipeVars, clientVars
  <2> QED
    BY <2>1, <2>2, <2>3, <2>4
<1>2. CASE p_accept_fails
  BY <1>2 DEF p_accept_fails, ParentTypeOK, SlotTypeOK, ChildTypeOK, SignalTypeOK, IpcTypeOK,
              KernelTypeOK, ClientTypeOK, ScanInv, WorkInv, Busy, NeedsAction, slotVars,
              childVars, signalVars, domainVars, pipeVars, kernelVars, clientVars
<1>3. CASE p_read_pipe_reenable_fd
  <2> USE <1>3 DEF p_read_pipe_reenable_fd
  <2>1. ParentTypeOK' /\ ScanInv'
    BY DEF ParentTypeOK, ScanInv, NeedsAction, PLoopTest
  <2>2. SlotTypeOK'
    BY DEF SlotTypeOK, Enable
  <2>3. ChildTypeOK' /\ WorkInv'
    BY DEF ChildTypeOK, WorkInv, Busy, childVars
  <2>4. IpcTypeOK'
    BY DEF IpcTypeOK, PipeReady, domainVars
  <2>5. SignalTypeOK' /\ KernelTypeOK' /\ ClientTypeOK'
    BY DEF SignalTypeOK, KernelTypeOK, ClientTypeOK, signalVars, kernelVars, clientVars
  <2> QED
    BY <2>1, <2>2, <2>3, <2>4, <2>5
<1>4. CASE p_poll_sockets
  BY <1>4 DEF p_poll_sockets, ParentTypeOK, SlotTypeOK, ChildTypeOK, SignalTypeOK, IpcTypeOK,
              KernelTypeOK, ClientTypeOK, ScanInv, WorkInv, Busy, NeedsAction, PollEvents, PollOf,
              slotVars, childVars, signalVars, domainVars, pipeVars, kernelVars, clientVars
<1>5. ASSUME NEW p \in Slots, p_send_to_child(p) PROVE TypeInv'
  <2> USE <1>5 DEF p_send_to_child
  <2>1. ParentTypeOK' /\ ScanInv'
    BY DEF ParentTypeOK, SlotTypeOK, ScanInv, NeedsAction, Disable
  <2>2. SlotTypeOK'
    BY DEF SlotTypeOK, Disable
  <2>3. ChildTypeOK' /\ WorkInv'
    BY DEF ChildTypeOK, WorkInv, Busy, childVars
  <2>4. IpcTypeOK'
    <3>1. fd[p] \in Fds
      BY DEF ScanInv, Current
    <3> QED
      BY <3>1 DEF IpcTypeOK, DomainFree, pipeVars
  <2>5. SignalTypeOK' /\ KernelTypeOK' /\ ClientTypeOK'
    BY DEF SignalTypeOK, KernelTypeOK, ClientTypeOK, signalVars, kernelVars, clientVars
  <2> QED
    BY <2>1, <2>2, <2>3, <2>4, <2>5
<1>6. ASSUME NEW p \in Slots, p_send_fails(p) \/ p_send_sigpipe(p) PROVE TypeInv'
  <2> USE <1>6 DEF p_send_fails, p_send_sigpipe
  <2>1. ParentTypeOK' /\ ScanInv'
    BY DEF ParentTypeOK, ScanInv, NeedsAction, NoRevents
  <2>2. SlotTypeOK' /\ ChildTypeOK' /\ WorkInv'
    BY DEF SlotTypeOK, ChildTypeOK, WorkInv, Busy, slotVars, childVars
  <2>3. SignalTypeOK' /\ IpcTypeOK' /\ KernelTypeOK' /\ ClientTypeOK'
    BY DEF SignalTypeOK, IpcTypeOK, KernelTypeOK, ClientTypeOK, DomainFree, signalVars, pipeVars,
           kernelVars, clientVars
  <2> QED
    BY <2>1, <2>2, <2>3
<1>7. ASSUME NEW p \in Slots, p_remove_connection(p) PROVE TypeInv'
  <2> USE <1>7 DEF p_remove_connection
  <2>1. ParentTypeOK' /\ ScanInv'
    BY DEF ParentTypeOK, ScanInv, NeedsAction
  <2>2. SlotTypeOK'
    BY DEF SlotTypeOK, SizeDec, ListenAfterRemove
  <2>3. KernelTypeOK'
    BY DEF KernelTypeOK
  <2>4. ChildTypeOK' /\ WorkInv'
    BY DEF ChildTypeOK, WorkInv, Busy, childVars
  <2>5. SignalTypeOK' /\ IpcTypeOK' /\ ClientTypeOK'
    BY DEF SignalTypeOK, IpcTypeOK, ClientTypeOK, signalVars, domainVars, pipeVars, clientVars
  <2> QED
    BY <2>1, <2>2, <2>3, <2>4, <2>5
<1>8. CASE p_scan_done
  BY <1>8 DEF p_scan_done, ParentTypeOK, SlotTypeOK, ChildTypeOK, SignalTypeOK, IpcTypeOK,
              KernelTypeOK, ClientTypeOK, ScanInv, WorkInv, Busy, NeedsAction, NoRevents,
              PLoopTest, slotVars, childVars, signalVars, domainVars, pipeVars, kernelVars,
              clientVars
<1>9. CASE p_signal_children
  BY <1>9 DEF p_signal_children, ParentTypeOK, SlotTypeOK, ChildTypeOK, SignalTypeOK, IpcTypeOK,
              KernelTypeOK, ClientTypeOK, ScanInv, WorkInv, Busy, NeedsAction, Live,
              slotVars, childVars, domainVars, pipeVars, kernelVars, clientVars
<1>10. ASSUME NEW c \in Children, p_waitpid(c) PROVE TypeInv'
  BY <1>10 DEF p_waitpid, ParentTypeOK, SlotTypeOK, ChildTypeOK, SignalTypeOK, IpcTypeOK,
               KernelTypeOK, ClientTypeOK, ScanInv, WorkInv, Busy, NeedsAction, slotVars,
               childVars, signalVars, domainVars, pipeVars, kernelVars, clientVars
<1>11. CASE p_close_files
  BY <1>11 DEF p_close_files, ParentTypeOK, SlotTypeOK, ChildTypeOK, SignalTypeOK, IpcTypeOK,
               KernelTypeOK, ClientTypeOK, ScanInv, WorkInv, Busy, NeedsAction, slotVars,
               childVars, signalVars, domainVars, pipeVars, clientVars
<1> QED
  BY <1>1, <1>2, <1>3, <1>4, <1>5, <1>6, <1>7, <1>8, <1>9, <1>10, <1>11 DEF ParentStep

\* A step of a child keeps the types.
LEMMA ChildTypeInv == ASSUME NEW c \in Children, TypeInv, ChildStep(c) PROVE TypeInv'
<1> USE LimitsAssumption, BodyAssumption, FdsAssumption DEF TypeInv, TypeOK
<1>1. CASE c_get_file_description_from_domain_socket(c)
  <2> USE <1>1 DEF c_get_file_description_from_domain_socket
  <2>1. Head(domain) \in [fd : Fds, conn : Conns]
    BY HeadTailProperties DEF IpcTypeOK
  <2> DEFINE f == Head(domain).fd
             k == Head(domain).conn
  <2>1a. f \in Fds /\ k \in Conns
    BY <2>1
  <2>b. /\ client_fd_parent' = [client_fd_parent EXCEPT ![c] = f]
        /\ client_fd_local' = [client_fd_local EXCEPT ![c] = k]
        /\ bytes_read' = [bytes_read EXCEPT ![c] = 0]
        /\ cpc' = [cpc EXCEPT ![c] = "header"] \/ cpc' = [cpc EXCEPT ![c] = "exited"]
    BY DEF CGoto, CFails
  <2> HIDE DEF f, k, c_get_file_description_from_domain_socket
  <2>2. ChildTypeOK' /\ WorkInv'
    BY <2>1a, <2>b DEF ChildTypeOK, WorkInv, Busy
  <2> USE DEF c_get_file_description_from_domain_socket
  <2>3. IpcTypeOK'
    BY HeadTailProperties DEF IpcTypeOK, pipeVars
  <2>4. ParentTypeOK' /\ ScanInv' /\ SlotTypeOK'
    BY DEF ParentTypeOK, ScanInv, SlotTypeOK, NeedsAction, parentVars, slotVars
  <2>5. SignalTypeOK' /\ KernelTypeOK' /\ ClientTypeOK'
    BY DEF SignalTypeOK, KernelTypeOK, ClientTypeOK, signalVars, kernelVars, clientVars
  <2> QED
    BY <2>2, <2>3, <2>4, <2>5
<1>2. CASE c_get_message_length(c) \/ c_recv_body(c)
  <2> DEFINE k == client_fd_local[c]
  <2> USE <1>2 DEF c_get_message_length, c_recv_body
  <2>1. k \in Conns
    BY DEF WorkInv, Busy
  <2>2. ChildTypeOK' /\ WorkInv'
    BY <2>1 DEF ChildTypeOK, WorkInv, Busy, CGoto, CFails, BodyDone
  <2>3. ClientTypeOK'
    BY <2>1 DEF ClientTypeOK, HasData
  <2>4. ParentTypeOK' /\ ScanInv' /\ SlotTypeOK'
    BY DEF ParentTypeOK, ScanInv, SlotTypeOK, NeedsAction, parentVars, slotVars
  <2>5. SignalTypeOK' /\ IpcTypeOK' /\ KernelTypeOK'
    BY DEF SignalTypeOK, IpcTypeOK, KernelTypeOK, signalVars, domainVars, pipeVars, kernelVars
  <2> QED
    BY <2>2, <2>3, <2>4, <2>5
<1>3. CASE \/ c_inform_parent_recv_finished(c) \/ c_log_wait(c) \/ c_log_write(c)
  <2> USE <1>3 DEF c_inform_parent_recv_finished, c_log_wait, c_log_write
  <2>1. ChildTypeOK' /\ WorkInv'
    BY DEF ChildTypeOK, WorkInv, Busy, CGoto
  <2>2. IpcTypeOK'
    <3>1. client_fd_parent[c] \in Fds
      BY DEF ChildTypeOK
    <3>2. pipe' \in Seq(Fds)
      BY <3>1, AppendProperties DEF IpcTypeOK, FinishedFd, pipeVars
    <3> QED
      BY <3>2 DEF IpcTypeOK, domainVars, pipeVars
  <2>3. ParentTypeOK' /\ ScanInv' /\ SlotTypeOK'
    BY DEF ParentTypeOK, ScanInv, SlotTypeOK, NeedsAction, parentVars, slotVars
  <2>4. SignalTypeOK' /\ KernelTypeOK' /\ ClientTypeOK'
    BY DEF SignalTypeOK, KernelTypeOK, ClientTypeOK, signalVars, kernelVars, clientVars
  <2> QED
    BY <2>1, <2>2, <2>3, <2>4
<1>4. CASE c_respond(c)
  <2> USE <1>4 DEF c_respond, Answer
  <2>1. ChildTypeOK' /\ WorkInv'
    BY DEF ChildTypeOK, WorkInv, Busy, CGoto, CFails, CLoopTest
  <2>2. ClientTypeOK'
    BY DEF ClientTypeOK, ChildTypeOK
  <2>3. ParentTypeOK' /\ ScanInv' /\ SlotTypeOK'
    BY DEF ParentTypeOK, ScanInv, SlotTypeOK, NeedsAction, parentVars, slotVars
  <2>4. SignalTypeOK' /\ IpcTypeOK' /\ KernelTypeOK'
    BY DEF SignalTypeOK, IpcTypeOK, KernelTypeOK, signalVars, domainVars, pipeVars, kernelVars
  <2> QED
    BY <2>1, <2>2, <2>3, <2>4
<1> QED
  BY <1>1, <1>2, <1>3, <1>4 DEF ChildStep

\* A signal being sent or delivered keeps the types.
LEMMA SignalTypeInv == TypeInv /\ SignalStep => TypeInv'
<1> SUFFICES ASSUME TypeInv, SignalStep PROVE TypeInv'
  OBVIOUS
<1> USE LimitsAssumption, BodyAssumption, FdsAssumption DEF TypeInv, TypeOK
<1>1. CASE SendSignal
  BY <1>1 DEF SendSignal, ParentTypeOK, SlotTypeOK, ChildTypeOK, SignalTypeOK, IpcTypeOK,
              KernelTypeOK, ClientTypeOK, ScanInv, WorkInv, Busy, NeedsAction, parentVars,
              slotVars, childVars, domainVars, pipeVars, kernelVars, clientVars
<1>2. ASSUME NEW x \in Procs, end_gogo_handler(x) PROVE TypeInv'
  BY <1>2 DEF end_gogo_handler, Delivered, ParentTypeOK, SlotTypeOK, ChildTypeOK, SignalTypeOK,
              IpcTypeOK, KernelTypeOK, ClientTypeOK, ScanInv, WorkInv, Busy, NeedsAction,
              parentVars, slotVars, childVars, domainVars, pipeVars, kernelVars, clientVars
<1>3. CASE p_interrupted
  <2> USE <1>3 DEF p_interrupted, Delivered
  <2>1. ParentTypeOK' /\ SignalTypeOK'
    BY DEF ParentTypeOK, SignalTypeOK
  <2>2. ScanInv'
    BY DEF ParentTypeOK, SlotTypeOK, ScanInv, NeedsAction, Disable
  <2>3. ChildTypeOK' /\ WorkInv'
    BY DEF ChildTypeOK, WorkInv, Busy, childVars
  <2>4. IpcTypeOK' /\ KernelTypeOK' /\ ClientTypeOK'
    BY DEF IpcTypeOK, KernelTypeOK, ClientTypeOK, domainVars, pipeVars, kernelVars, clientVars
  <2>5. SlotTypeOK'
    BY DEF SlotTypeOK, Disable
  <2> QED
    BY <2>1, <2>2, <2>3, <2>4, <2>5
<1>4. ASSUME NEW c \in Children, c_interrupted(c) PROVE TypeInv'
  <2> USE <1>4 DEF c_interrupted, Delivered
  <2>1. ChildTypeOK' /\ WorkInv' /\ SignalTypeOK'
    BY DEF ChildTypeOK, WorkInv, Busy, SignalTypeOK, CGoto, CFails
  <2>2. ParentTypeOK' /\ ScanInv' /\ SlotTypeOK'
    BY DEF ParentTypeOK, ScanInv, SlotTypeOK, NeedsAction, parentVars, slotVars
  <2>3. IpcTypeOK' /\ KernelTypeOK' /\ ClientTypeOK'
    BY DEF IpcTypeOK, KernelTypeOK, ClientTypeOK, domainVars, pipeVars, kernelVars, clientVars
  <2> QED
    BY <2>1, <2>2, <2>3
<1> QED
  BY <1>1, <1>2, <1>3, <1>4 DEF SignalStep

\* A step of the clients or the kernel keeps the types.
LEMMA EnvTypeInv == TypeInv /\ EnvStep => TypeInv'
<1> SUFFICES ASSUME TypeInv, EnvStep PROVE TypeInv'
  OBVIOUS
<1> USE LimitsAssumption, BodyAssumption, FdsAssumption DEF TypeInv, TypeOK
<1>1. KernelTypeOK' /\ ClientTypeOK'
  <2>1. ASSUME NEW k \in Conns, ClientConnect(k) PROVE KernelTypeOK' /\ ClientTypeOK'
    BY <2>1 DEF ClientConnect, KernelTypeOK, ClientTypeOK
  <2>2. ASSUME NEW k \in Conns, ClientWrite(k) PROVE KernelTypeOK' /\ ClientTypeOK'
    BY <2>2 DEF ClientWrite, KernelTypeOK, ClientTypeOK, kernelVars
  <2>3. ASSUME NEW k \in Conns,
               ClientClose(k) \/ ClientAbort(k) \/ ClientReset(k) \/ DeliverRst(k)
        PROVE  KernelTypeOK' /\ ClientTypeOK'
    BY <2>3 DEF ClientClose, ClientAbort, ClientReset, DeliverRst, KernelTypeOK, ClientTypeOK,
                kernelVars
  <2>4. CASE StdinHangup
    BY <2>4 DEF StdinHangup, KernelTypeOK, ClientTypeOK, clientVars
  <2> QED
    BY <2>1, <2>2, <2>3, <2>4 DEF EnvStep, ClientMoves, RstArrives, ClientStep
<1>2. UNCHANGED ServerVars
  BY DEF EnvStep, ClientMoves, RstArrives
<1>3. /\ ParentTypeOK' /\ SlotTypeOK' /\ ChildTypeOK' /\ SignalTypeOK' /\ IpcTypeOK'
      /\ ScanInv' /\ WorkInv'
  BY <1>2 DEF ServerVars, ParentTypeOK, SlotTypeOK, ChildTypeOK, SignalTypeOK, IpcTypeOK, ScanInv,
              WorkInv, Busy, NeedsAction, parentVars, slotVars, childVars, signalVars, domainVars,
              pipeVars
<1> QED
  BY <1>1, <1>3

LEMMA StutterTypeInv == TypeInv /\ UNCHANGED vars => TypeInv'
BY DEF TypeInv, TypeOK, ParentTypeOK, SlotTypeOK, ChildTypeOK, SignalTypeOK, IpcTypeOK,
       KernelTypeOK, ClientTypeOK, ScanInv, WorkInv, Busy, NeedsAction, vars, parentVars,
       slotVars, childVars, signalVars, domainVars, pipeVars, kernelVars, clientVars

LEMMA TypeInvariant == Spec => []TypeInv
<1>1. TypeInv /\ [Next]_vars => TypeInv'
  BY ParentTypeInv, ChildTypeInv, SignalTypeInv, EnvTypeInv, StutterTypeInv DEF Next
<1> QED
  BY <1>1, InitTypeInv, PTL DEF Spec

\* Every reachable state of the process server has the types of TypeOK: in particular what
\* travels through the domain socket and the pipe are descriptors of the parent.
THEOREM TypeCorrect == Spec => []TypeOK
<1>1. TypeInv => TypeOK
  BY DEF TypeInv
<1> QED
  BY <1>1, TypeInvariant, PTL

(***************************************************************************)
(* What a step of each kind leaves alone.                                  *)
(***************************************************************************)

\* Once a client has gone it never comes back.
Left(k) == peer[k] \notin {"none", "open"}

ChildFrameGoal(c) ==
    /\ UNCHANGED <<parentVars, slotVars, signalVars, kernelVars, wrote>>
    /\ \A k \in Conns : peer'[k] = "none" <=> peer[k] = "none"
    /\ \A k \in Conns : Left(k) => Left(k)'
    /\ \A d \in Children \ {c} :
          /\ cpc'[d] = cpc[d]
          /\ client_fd_parent'[d] = client_fd_parent[d]
          /\ client_fd_local'[d] = client_fd_local[d]

LEMMA ChildFrame == ASSUME NEW c \in Children, TypeInv, ChildStep(c) PROVE ChildFrameGoal(c)
<1> USE DEF TypeInv, TypeOK, ChildTypeOK, ClientTypeOK, ChildFrameGoal, Left
<1>1. CASE c_get_file_description_from_domain_socket(c)
  BY <1>1 DEF c_get_file_description_from_domain_socket, CGoto, CFails, clientVars
<1>2. CASE c_get_message_length(c) \/ c_recv_body(c)
  BY <1>2 DEF c_get_message_length, c_recv_body, CGoto, CFails
<1>3. CASE c_inform_parent_recv_finished(c) \/ c_log_wait(c) \/ c_log_write(c)
  BY <1>3 DEF c_inform_parent_recv_finished, c_log_wait, c_log_write, CGoto, clientVars
<1>4. CASE c_respond(c)
  BY <1>4 DEF c_respond, Answer, CGoto, CFails, CLoopTest, IsReset
<1> QED
  BY <1>1, <1>2, <1>3, <1>4 DEF ChildStep

EnvFrameGoal ==
    /\ UNCHANGED <<ServerVars, open, taken>>
    /\ stdin_hup => stdin_hup'
    /\ \A k \in Conns : Left(k) => Left(k)'
    /\ \A k \in Conns : wrote'[k] >= wrote[k]
    /\ \A k \in Conns : peer'[k] = "none" => peer[k] = "none" /\ (k \in backlog' => k \in backlog)
    /\ \A k \in Conns : k \in backlog' => k \in backlog \/ peer[k] = "none"

LEMMA EnvFrame == TypeInv /\ EnvStep => EnvFrameGoal
<1> SUFFICES ASSUME TypeInv, EnvStep PROVE EnvFrameGoal
  OBVIOUS
<1> USE LimitsAssumption, BodyAssumption
        DEF TypeInv, TypeOK, ClientTypeOK, KernelTypeOK, Left, EnvFrameGoal
<1>1. UNCHANGED ServerVars
  BY DEF EnvStep, ClientMoves, RstArrives
<1>2. ASSUME NEW k \in Conns, ClientConnect(k) PROVE EnvFrameGoal
  BY <1>1, <1>2 DEF ClientConnect
<1>3. ASSUME NEW k \in Conns, ClientWrite(k) PROVE EnvFrameGoal
  BY <1>1, <1>3 DEF ClientWrite, kernelVars
<1>4. ASSUME NEW k \in Conns,
             ClientClose(k) \/ ClientAbort(k) \/ ClientReset(k) \/ DeliverRst(k)
      PROVE  EnvFrameGoal
  BY <1>1, <1>4 DEF ClientClose, ClientAbort, ClientReset, DeliverRst, kernelVars
<1>5. CASE StdinHangup
  BY <1>1, <1>5 DEF StdinHangup, clientVars
<1> QED
  BY <1>2, <1>3, <1>4, <1>5 DEF EnvStep, ClientMoves, RstArrives, ClientStep

-----------------------------------------------------------------------------
(***************************************************************************)
(* The semaphores make the domain socket and the pipe one-place buffers.   *)
(***************************************************************************)

BufInv ==
    /\ Len(domain) <= 1 /\ Len(pipe) <= 1
    /\ ppc \in {"poll", "scan"} =>
          domain_sem_read = Len(domain) /\ domain_sem_read + domain_sem_write = 1
    /\ ~ParentGone => pipe_sem_write + Len(pipe) = 1

LEMMA BufStep == TypeInv /\ BufInv /\ [Next]_vars => BufInv'
<1> SUFFICES ASSUME TypeInv, BufInv, [Next]_vars PROVE BufInv'
  OBVIOUS
<1> USE HeadTailProperties, AppendProperties DEF TypeInv, TypeOK, IpcTypeOK, BufInv, ParentGone
<1>1. CASE ParentStep
  <2>1. CASE \/ p_accept_new_connection \/ p_accept_fails \/ p_poll_sockets \/ p_scan_done
             \/ p_signal_children \/ p_close_files
             \/ \E c \in Children : p_waitpid(c)
             \/ \E p \in Slots : p_remove_connection(p)
    BY <2>1 DEF p_accept_new_connection, p_accept_fails, p_poll_sockets, p_scan_done,
                p_signal_children, p_close_files, p_waitpid, p_remove_connection, PLoopTest,
                domainVars, pipeVars
  <2>2. CASE p_read_pipe_reenable_fd
    BY <2>2 DEF p_read_pipe_reenable_fd, PipeReady, PLoopTest, domainVars
  <2>3. ASSUME NEW p \in Slots, p_send_to_child(p) PROVE BufInv'
    <3>1. [fd |-> fd[p], conn |-> open[fd[p]]] \in [fd : Fds, conn : Conns]
      BY <2>3 DEF p_send_to_child, ScanInv, Current
    <3> QED
      BY <2>3, <3>1 DEF p_send_to_child, DomainFree, pipeVars
  <2>4. CASE \E p \in Slots : p_send_fails(p) \/ p_send_sigpipe(p)
    BY <2>4 DEF p_send_fails, p_send_sigpipe, pipeVars
  <2> QED
    BY <1>1, <2>1, <2>2, <2>3, <2>4 DEF ParentStep
<1>2. ASSUME NEW c \in Children, ChildStep(c) PROVE BufInv'
  <2>1. UNCHANGED ppc
    BY <1>2, ChildFrame DEF ChildFrameGoal, parentVars
  <2>2. CASE c_get_file_description_from_domain_socket(c)
    BY <2>1, <2>2 DEF c_get_file_description_from_domain_socket, pipeVars
  <2>3. CASE c_inform_parent_recv_finished(c)
    BY <2>1, <2>3 DEF c_inform_parent_recv_finished, FinishedFd, ChildTypeOK, domainVars
  <2>4. CASE \/ c_get_message_length(c) \/ c_recv_body(c) \/ c_log_wait(c) \/ c_log_write(c)
             \/ c_respond(c)
    BY <2>1, <2>4 DEF c_get_message_length, c_recv_body, c_log_wait, c_log_write, c_respond, Answer,
                      domainVars, pipeVars
  <2> QED
    BY <1>2, <2>2, <2>3, <2>4 DEF ChildStep
<1>3. CASE SignalStep
  BY <1>3 DEF SignalStep, SendSignal, end_gogo_handler, p_interrupted, c_interrupted, parentVars,
              domainVars, pipeVars
<1>4. CASE EnvStep
  BY <1>4, EnvFrame DEF EnvFrameGoal, ServerVars, parentVars, domainVars, pipeVars
<1>5. CASE UNCHANGED vars
  BY <1>5 DEF vars, parentVars, domainVars, pipeVars
<1> QED
  BY <1>1, <1>2, <1>3, <1>4, <1>5 DEF Next

-----------------------------------------------------------------------------
(***************************************************************************)
(* The slots and the descriptor table agree, as long as descriptor 0 is    *)
(* standard input and the parent has not closed its files.                 *)
(***************************************************************************)

SlotInv ==
    Sane =>
        /\ open[0] = Stdin
        /\ \A p \in Slots : fd[p] > 0 => open[fd[p]] \in Conns
        /\ \A p \in Slots : fd[p] < 0 => open[-fd[p]] \in Conns
        /\ \A p, q \in Slots : p # q /\ fd[p] # 0 => fd[p] # fd[q] /\ fd[p] # -fd[q]
        /\ \A f, g \in Fds : open[f] = open[g] /\ open[f] \in Conns => f = g
        /\ \A k \in Conns, f \in Fds : k \in backlog \/ peer[k] = "none" => open[f] # k
        /\ \A k \in backlog : peer[k] # "none"
        /\ \A p \in Slots : NeedsAction(p) => fd[p] > 0

LEMMA InitSlotInv == Init => SlotInv
BY FdsAssumption, ConnsAssumption DEF Init, InitKernel, SlotInv, NeedsAction, NoRevents

LEMMA SlotParent == TypeInv /\ SlotInv /\ ParentStep => SlotInv'
<1> SUFFICES ASSUME TypeInv, SlotInv, ParentStep, Sane' PROVE SlotInv'
  BY DEF SlotInv
<1> USE ConnsAssumption, FdsAssumption DEF TypeInv, TypeOK, SlotTypeOK, KernelTypeOK
<1>1. CASE p_accept_new_connection
  <2>1. PICK k \in backlog, p \in Slots, f \in Fds :
              /\ LowestFreeFd(f)
              /\ backlog' = backlog \ {k}
              /\ open' = [open EXCEPT ![f] = k]
              /\ fd' = [fd EXCEPT ![p] = f]
    BY <1>1 DEF p_accept_new_connection
  <2>2. UNCHANGED <<stdin_hup, revents, peer>> /\ ppc = "poll" /\ Sane
    BY <1>1 DEF p_accept_new_connection, clientVars, Sane
  <2>3. f # 0 /\ open[f] = NoConn /\ k \in Conns
    BY <2>1, <2>2 DEF LowestFreeFd, SlotInv
  <2>4. \A q \in Slots : fd[q] # f /\ fd[q] # -f
    BY <2>2, <2>3 DEF SlotInv
  <2>5. \A q \in Slots : ~NeedsAction(q)'
    BY <2>2 DEF ScanInv, NeedsAction
  <2> QED
    BY <2>1, <2>2, <2>3, <2>4, <2>5 DEF SlotInv
<1>2. CASE p_read_pipe_reenable_fd
  <2>1. Head(pipe) \in Fds
    BY <1>2, HeadTailProperties DEF p_read_pipe_reenable_fd, PipeReady, IpcTypeOK
  <2>2. /\ UNCHANGED <<stdin_hup, revents, peer, open, backlog>> /\ ppc = "poll" /\ Sane
        /\ \A q \in Slots : fd'[q] = fd[q] \/ fd'[q] = -fd[q]
    BY <1>2 DEF p_read_pipe_reenable_fd, Enable, kernelVars, clientVars, Sane
  <2>3. \A q \in Slots : ~NeedsAction(q)'
    BY <2>2 DEF ScanInv, NeedsAction
  <2> QED
    BY <2>2, <2>3 DEF SlotInv
<1>3. CASE p_poll_sockets
  <2>1. UNCHANGED <<stdin_hup, peer, open, backlog, fd>> /\ Sane
    BY <1>3 DEF p_poll_sockets, kernelVars, clientVars, slotVars, Sane
  <2>2. \A p \in Slots : NeedsAction(p)' => fd[p] > 0
    <3> SUFFICES ASSUME NEW p \in Slots, NeedsAction(p)' PROVE fd[p] > 0
      OBVIOUS
    <3>1. PollEvents(p) \in {"in", "hup"}
      BY <1>3 DEF p_poll_sockets, NeedsAction
    <3>2. fd[p] >= 0 /\ (fd[p] = 0 => open[0] # Stdin \/ stdin_hup)
      BY <3>1 DEF PollEvents, PollOf
    <3> QED
      BY <2>1, <3>2 DEF SlotInv, Sane
  <2> QED
    BY <2>1, <2>2 DEF SlotInv
<1>4. ASSUME NEW p \in Slots, p_send_to_child(p) PROVE SlotInv'
  <2>1. /\ UNCHANGED <<stdin_hup, peer, open, backlog>> /\ Sane
        /\ fd' = [fd EXCEPT ![p] = -fd[p]] /\ revents' = [revents EXCEPT ![p] = "none"]
    BY <1>4 DEF p_send_to_child, Disable, kernelVars, clientVars, Sane
  <2>2. \A q \in Slots : NeedsAction(q)' => q # p /\ NeedsAction(q)
    BY <2>1 DEF NeedsAction, ParentTypeOK
  <2> QED
    BY <2>1, <2>2 DEF SlotInv
<1>5. ASSUME NEW p \in Slots, p_send_fails(p) \/ p_send_sigpipe(p) PROVE SlotInv'
  BY <1>5 DEF p_send_fails, p_send_sigpipe, SlotInv, Sane, NeedsAction, NoRevents, slotVars,
              kernelVars, clientVars
<1>6. ASSUME NEW p \in Slots, p_remove_connection(p) PROVE SlotInv'
  <2>1. /\ UNCHANGED <<stdin_hup, peer, backlog>> /\ Sane /\ fd[p] > 0
        /\ open' = [open EXCEPT ![fd[p]] = NoConn]
        /\ fd' = [fd EXCEPT ![p] = 0] /\ revents' = [revents EXCEPT ![p] = "none"]
    BY <1>6 DEF p_remove_connection, Current, SlotInv, clientVars, Sane
  <2>2. \A q \in Slots : NeedsAction(q)' => q # p /\ NeedsAction(q)
    BY <2>1 DEF NeedsAction, ParentTypeOK
  <2> QED
    BY <2>1, <2>2 DEF SlotInv
<1>7. CASE \/ p_accept_fails \/ p_scan_done \/ p_signal_children
           \/ \E c \in Children : p_waitpid(c)
  <2>1. UNCHANGED <<stdin_hup, peer, open, backlog, fd>> /\ Sane
    BY <1>7 DEF p_accept_fails, p_scan_done, p_signal_children, p_waitpid, kernelVars, clientVars,
                slotVars, Sane, PLoopTest
  <2>2. \A p \in Slots : NeedsAction(p)' => NeedsAction(p)
    BY <1>7 DEF p_accept_fails, p_scan_done, p_signal_children, p_waitpid, NeedsAction, NoRevents
  <2> QED
    BY <2>1, <2>2 DEF SlotInv
<1>8. CASE p_close_files
  BY <1>8 DEF p_close_files, Sane
<1> QED
  BY <1>1, <1>2, <1>3, <1>4, <1>5, <1>6, <1>7, <1>8 DEF ParentStep

LEMMA SlotStepInv == TypeInv /\ SlotInv /\ [Next]_vars => SlotInv'
<1> SUFFICES ASSUME TypeInv, SlotInv, [Next]_vars, Sane' PROVE SlotInv'
  BY DEF SlotInv
<1>1. CASE ParentStep
  BY <1>1, SlotParent
<1>2. ASSUME NEW c \in Children, ChildStep(c) PROVE SlotInv'
  BY <1>2, ChildFrame DEF ChildFrameGoal, SlotInv, Sane, NeedsAction, parentVars, slotVars,
                          kernelVars, TypeInv, TypeOK, KernelTypeOK
<1>3. CASE SignalStep
  <2>1. CASE SendSignal \/ (\E x \in Procs : end_gogo_handler(x))
             \/ \E c \in Children : c_interrupted(c)
    BY <2>1 DEF SendSignal, end_gogo_handler, c_interrupted, SlotInv, Sane, NeedsAction,
                parentVars, slotVars, kernelVars, clientVars
  <2>2. CASE p_interrupted
    <3>1. UNCHANGED <<stdin_hup, peer, open, backlog>> /\ Sane
      BY <2>2 DEF p_interrupted, kernelVars, clientVars, Sane
    <3>2. CASE UNCHANGED <<fd, revents>>
      BY <3>1, <3>2 DEF SlotInv, NeedsAction
    <3>3. ASSUME NEW p \in Slots, fd' = Disable(p), revents' = [revents EXCEPT ![p] = "none"]
          PROVE  SlotInv'
      <4>1. \A q \in Slots : NeedsAction(q)' => q # p /\ NeedsAction(q)
        BY <3>3 DEF NeedsAction, TypeInv, TypeOK, ParentTypeOK
      <4> QED
        BY <3>1, <3>3, <4>1 DEF SlotInv, Disable, TypeInv, TypeOK, SlotTypeOK
    <3> QED
      BY <2>2, <3>2, <3>3 DEF p_interrupted
  <2> QED
    BY <1>3, <2>1, <2>2 DEF SignalStep
<1>4. CASE EnvStep
  <2>1. UNCHANGED <<open, fd, ppc, revents>> /\ Sane
    BY <1>4, EnvFrame DEF EnvFrameGoal, ServerVars, parentVars, slotVars, Sane
  <2>2. backlog' \subseteq Conns
    BY <1>4, EnvTypeInv DEF TypeInv, TypeOK, KernelTypeOK
  <2>3. /\ \A k \in Conns : peer'[k] = "none" => peer[k] = "none" /\ (k \in backlog' => k \in backlog)
        /\ \A k \in Conns : k \in backlog' => k \in backlog \/ peer[k] = "none"
    BY <1>4, EnvFrame DEF EnvFrameGoal
  <2> QED
    BY <2>1, <2>2, <2>3 DEF SlotInv, NeedsAction
<1>5. CASE UNCHANGED vars
  BY <1>5 DEF vars, SlotInv, Sane, NeedsAction, parentVars, slotVars, kernelVars, clientVars
<1> QED
  BY <1>1, <1>2, <1>3, <1>4, <1>5 DEF Next

-----------------------------------------------------------------------------
(***************************************************************************)
(* num_connections counts the slots in use.                                *)
(***************************************************************************)

Used == {p \in Slots : fd[p] # 0}

LEMMA SlotSets ==
    ASSUME NEW T \in SUBSET Slots
    PROVE  /\ IsFiniteSet(T) /\ Cardinality(T) \in Nat /\ Cardinality(T) <= MaxConnections
           /\ Cardinality(T) < MaxConnections <=> \E p \in Slots : p \notin T
<1>1. IsFiniteSet(Slots) /\ Cardinality(Slots) = MaxConnections
  <2> DEFINE b == MaxConnections + 1
  <2>1. 2 \in Int /\ b \in Int /\ ~(2 > b) /\ b - 2 + 1 = MaxConnections
    BY LimitsAssumption, BodyAssumption
  <2> HIDE DEF b
  <2>2. IsFiniteSet(2 .. b) /\ Cardinality(2 .. b) = b - 2 + 1
    BY <2>1, FS_Interval
  <2> QED
    BY <2>1, <2>2 DEF b, Slots
<1>2. IsFiniteSet(T) /\ Cardinality(T) <= MaxConnections /\ (Cardinality(T) = MaxConnections => T = Slots)
  BY <1>1, FS_Subset
<1>3. Cardinality(T) \in Nat
  BY <1>2, FS_CardinalityType
<1>4. T = Slots => Cardinality(T) = MaxConnections
  BY <1>1
<1>5. T = Slots <=> ~ \E p \in Slots : p \notin T
  OBVIOUS
<1> QED
  BY <1>2, <1>3, <1>4, <1>5, LimitsAssumption, BodyAssumption

LEMMA InitConnCount == Init => ConnCount
<1> SUFFICES ASSUME Init PROVE ConnCount
  OBVIOUS
<1>1. {p \in Slots : fd[p] # 0} = {}
  BY DEF Init, InitKernel
<1>2. \E p \in Slots : fd[p] = 0
  <2>1. 2 \in Slots
    BY LimitsAssumption, BodyAssumption DEF Slots
  <2> QED
    BY <2>1 DEF Init, InitKernel
<1>3. Cardinality({p \in Slots : fd[p] # 0}) = 0
  BY <1>1, FS_EmptySet
<1>4. num_connections = 0 /\ listening = TRUE
  BY DEF Init, InitKernel
<1> QED
  BY <1>2, <1>3, <1>4 DEF ConnCount

LEMMA ConnCountStep == TypeInv /\ SlotInv /\ ConnCount /\ [Next]_vars => ConnCount'
<1> SUFFICES ASSUME TypeInv, SlotInv, ConnCount, [Next]_vars, ~stdin_hup' PROVE ConnCount'
  BY DEF ConnCount
<1> USE LimitsAssumption, BodyAssumption, FdsAssumption, ConnsAssumption
        DEF TypeInv, TypeOK, SlotTypeOK, KernelTypeOK
<1>0. ASSUME ~stdin_hup, UNCHANGED <<listening, num_connections>>,
             \A p \in Slots : fd'[p] = fd[p] \/ fd'[p] = -fd[p]
      PROVE  ConnCount'
  <2>1. {p \in Slots : fd'[p] # 0} = {p \in Slots : fd[p] # 0}
    BY <1>0
  <2>2. (\E p \in Slots : fd'[p] = 0) <=> \E p \in Slots : fd[p] = 0
    BY <1>0
  <2> QED
    BY <1>0, <2>1, <2>2 DEF ConnCount
<1>1. CASE p_accept_new_connection
  <2>1. PICK p \in Slots, f \in Fds :
              /\ p_get_pollfd_index(p)
              /\ LowestFreeFd(f)
              /\ fd' = [fd EXCEPT ![p] = f]
    BY <1>1 DEF p_accept_new_connection
  <2>2. ~stdin_hup /\ Sane /\ listening
    BY <1>1 DEF p_accept_new_connection, Sane, ListenReady
  <2>3. f > 0
    BY <2>1, <2>2 DEF LowestFreeFd, SlotInv
  <2>4. fd[p] = 0
    BY <2>1, <2>2 DEF ConnCount, p_get_pollfd_index, FirstEmpty
  <2>5. Used' = Used \cup {p} /\ p \notin Used
    BY <2>1, <2>3, <2>4 DEF Used
  <2>6. Cardinality(Used') = Cardinality(Used) + 1
    <3>1. IsFiniteSet(Used)
      BY SlotSets DEF Used
    <3> QED
      BY <2>5, <3>1, FS_AddElement
  <2>7. num_connections' = Cardinality(Used')
    <3>1. num_connections = Cardinality(Used) /\ Cardinality(Used') <= MaxConnections
      BY <2>2, <2>5, SlotSets DEF ConnCount, Used
    <3> QED
      BY <1>1, <2>6, <3>1 DEF p_accept_new_connection, SizeInc
  <2>8. Used' \in SUBSET Slots
    BY <2>5 DEF Used
  <2>9. listening' <=> \E q \in Slots : q \notin Used'
    <3>1. Cardinality(Used') < MaxConnections <=> \E q \in Slots : q \notin Used'
      BY <2>8, SlotSets
    <3>2. listening' = (num_connections' < MaxConnections)
      BY <1>1 DEF p_accept_new_connection, ListenAfterAccept
    <3> QED
      BY <2>7, <3>1, <3>2
  <2> QED
    BY <2>7, <2>9 DEF ConnCount, Used
<1>2. ASSUME NEW p \in Slots, p_remove_connection(p) PROVE ConnCount'
  <2>1. ~stdin_hup /\ fd[p] > 0 /\ fd' = [fd EXCEPT ![p] = 0]
    BY <1>2 DEF p_remove_connection, Current, SlotInv, Sane
  <2>2. Used' = Used \ {p} /\ p \in Used
    BY <2>1 DEF Used
  <2>3. Cardinality(Used') = Cardinality(Used) - 1
    <3>1. IsFiniteSet(Used)
      BY SlotSets DEF Used
    <3> QED
      BY <2>2, <3>1, FS_RemoveElement
  <2>4. num_connections' = Cardinality(Used') /\ Cardinality(Used') < MaxConnections
    <3>1. /\ num_connections = Cardinality(Used) /\ Cardinality(Used) <= MaxConnections
          /\ Cardinality(Used) \in Nat /\ Cardinality(Used') \in Nat
      BY <2>1, <2>2, SlotSets DEF ConnCount, Used
    <3> QED
      BY <1>2, <2>3, <3>1 DEF p_remove_connection, SizeDec
  <2>5. listening'
    BY <1>2, <2>4 DEF p_remove_connection, ListenAfterRemove
  <2>6. \E q \in Slots : fd'[q] = 0
    BY <2>1
  <2> QED
    BY <2>4, <2>5, <2>6 DEF ConnCount, Used
<1>3. CASE p_read_pipe_reenable_fd
  <2>1. ~stdin_hup /\ UNCHANGED <<listening, num_connections>>
    BY <1>3 DEF p_read_pipe_reenable_fd, kernelVars
  <2>2. Head(pipe) \in Fds
    BY <1>3, HeadTailProperties DEF p_read_pipe_reenable_fd, PipeReady, IpcTypeOK
  <2>3. \A p \in Slots : fd'[p] = fd[p] \/ fd'[p] = -fd[p]
    BY <1>3, <2>2 DEF p_read_pipe_reenable_fd, Enable
  <2> QED
    BY <1>0, <2>1, <2>3
<1>4. ASSUME NEW p \in Slots, p_send_to_child(p) PROVE ConnCount'
  <2>1. ~stdin_hup /\ UNCHANGED <<listening, num_connections>>
    BY <1>4 DEF p_send_to_child, kernelVars
  <2>2. \A q \in Slots : fd'[q] = fd[q] \/ fd'[q] = -fd[q]
    BY <1>4 DEF p_send_to_child, Disable
  <2> QED
    BY <1>0, <2>1, <2>2
<1>5. CASE p_interrupted
  <2>1. ~stdin_hup /\ UNCHANGED <<listening, num_connections>>
    BY <1>5 DEF p_interrupted, kernelVars
  <2>2. \A q \in Slots : fd'[q] = fd[q] \/ fd'[q] = -fd[q]
    BY <1>5 DEF p_interrupted, Disable
  <2> QED
    BY <1>0, <2>1, <2>2
<1>6. ASSUME UNCHANGED slotVars, stdin_hup => stdin_hup' PROVE ConnCount'
  BY <1>0, <1>6 DEF slotVars
<1>7. CASE \/ p_accept_fails \/ p_poll_sockets \/ p_scan_done \/ p_signal_children
           \/ p_close_files \/ (\E c \in Children : p_waitpid(c))
           \/ (\E p \in Slots : p_send_fails(p) \/ p_send_sigpipe(p))
  BY <1>6, <1>7 DEF p_accept_fails, p_poll_sockets, p_scan_done, p_signal_children, p_close_files,
                    p_waitpid, p_send_fails, p_send_sigpipe, kernelVars
<1>8. ASSUME NEW c \in Children, ChildStep(c) PROVE ConnCount'
  BY <1>6, <1>8, ChildFrame DEF ChildFrameGoal, kernelVars
<1>9. CASE SendSignal \/ (\E x \in Procs : end_gogo_handler(x)) \/ \E c \in Children : c_interrupted(c)
  BY <1>6, <1>9 DEF SendSignal, end_gogo_handler, c_interrupted, kernelVars
<1>10. CASE EnvStep
  BY <1>6, <1>10, EnvFrame DEF EnvFrameGoal, ServerVars
<1>11. CASE UNCHANGED vars
  BY <1>6, <1>11 DEF vars, kernelVars
<1> QED
  BY <1>1, <1>2, <1>3, <1>4, <1>5, <1>7, <1>8, <1>9, <1>10, <1>11
     DEF Next, ParentStep, SignalStep

-----------------------------------------------------------------------------
(***************************************************************************)
(* The numbers on their way belong to disabled slots.                      *)
(***************************************************************************)

\* No connection is on its way to two readers.  Unlike NoStaleToken this survives the parent:
\* a child that waitpid() was interrupted for may still be reading.
ReadInv ==
    ~stdin_hup =>
        /\ \A c, d \in Children :
              c # d /\ Holding(c) /\ Holding(d) => client_fd_local[c] # client_fd_local[d]
        /\ \A c \in Children, i \in DOMAIN domain :
              Holding(c) => domain[i].conn # client_fd_local[c]

TokenInv == NoStaleToken /\ ReadInv

LEMMA InitTokenInv == Init => TokenInv
<1> SUFFICES ASSUME Init PROVE TokenInv
  OBVIOUS
<1>1. \A c \in Children : ~Holding(c)
  BY DEF Init, InitKernel, Holding
<1>2. DOMAIN domain = {} /\ DOMAIN pipe = {}
  BY DEF Init, InitKernel
<1> QED
  BY <1>1, <1>2 DEF TokenInv, NoStaleToken, ReadInv

\* A sequence of at most one element.
LEMMA AtMostOne ==
    ASSUME NEW S, NEW s \in Seq(S), Len(s) <= 1
    PROVE  /\ \A i \in DOMAIN s : i = 1 /\ s # <<>> /\ s[i] = Head(s) /\ s[i] \in S
           /\ s # <<>> => DOMAIN Tail(s) = {} /\ DOMAIN s = {1} /\ s[1] = Head(s)
           /\ Len(s) = 0 => \A e \in S : DOMAIN Append(s, e) = {1} /\ Append(s, e)[1] = e
<1>1. \A i \in DOMAIN s : i = 1 /\ s # <<>> /\ s[i] = Head(s) /\ s[i] \in S
  OBVIOUS
<1>2. s # <<>> => DOMAIN Tail(s) = {} /\ DOMAIN s = {1} /\ s[1] = Head(s)
  <2> SUFFICES ASSUME s # <<>> PROVE DOMAIN Tail(s) = {} /\ DOMAIN s = {1} /\ s[1] = Head(s)
    OBVIOUS
  <2>0. Len(s) \in Nat \ {0}
    BY EmptySeq
  <2>1. Len(s) = 1
    BY <2>0
  <2>2. DOMAIN s = {1} /\ s[1] = Head(s)
    BY <2>1
  <2>3. Tail(s) \in Seq(S) /\ Len(Tail(s)) = 0
    BY <2>1, HeadTailProperties
  <2>4. DOMAIN Tail(s) = 1 .. 0
    BY <2>3
  <2> QED
    BY <2>2, <2>4
<1>3. Len(s) = 0 => \A e \in S : DOMAIN Append(s, e) = {1} /\ Append(s, e)[1] = e
  BY AppendProperties
<1> QED
  BY <1>1, <1>2, <1>3

\* A step that sends, receives and enables nothing keeps TokenInv if it keeps lent slots lent.
LEMMA TokenKept ==
    ASSUME TypeInv, BufInv, TokenInv, UNCHANGED <<domain, pipe>>,
           stdin_hup => stdin_hup', Sane' => Sane,
           \A c \in Children :
              Holding(c)' => /\ Holding(c)
                             /\ client_fd_parent'[c] = client_fd_parent[c]
                             /\ client_fd_local'[c] = client_fd_local[c],
           Sane' => \A p \in Slots, f \in Fds, k \in Conns : LentSlot(p, f, k) => LentSlot(p, f, k)'
    PROVE  TokenInv'
<1> USE DEF TypeInv, TypeOK, IpcTypeOK, ChildTypeOK
<1>1. \A i \in DOMAIN domain : domain[i].fd \in Fds /\ domain[i].conn \in Conns
  <2>1. \A i \in DOMAIN domain : domain[i] \in [fd : Fds, conn : Conns]
    BY AtMostOne DEF BufInv
  <2> QED
    BY <2>1
<1>2. \A i \in DOMAIN pipe : pipe[i] \in Fds
  BY AtMostOne DEF BufInv
<1>3. \A c \in Children : Holding(c) => client_fd_parent[c] \in Fds /\ client_fd_local[c] \in Conns
  BY DEF WorkInv, Busy, Holding
<1> HIDE DEF TypeInv, TypeOK, IpcTypeOK, ChildTypeOK, Holding
<1>4. ReadInv'
  BY DEF TokenInv, ReadInv
<1>5. ASSUME Sane' PROVE NoStaleToken'
  <2>1. NoStaleToken!2
    BY <1>5 DEF TokenInv, NoStaleToken
  <2> QED
    BY <1>1, <1>2, <1>3, <1>5, <2>1 DEF NoStaleToken
<1> QED
  BY <1>4, <1>5 DEF TokenInv, NoStaleToken

Invs == TypeInv /\ BufInv /\ SlotInv /\ ConnCount /\ TokenInv

LEMMA TokenAccept == Invs /\ p_accept_new_connection => TokenInv'
<1> SUFFICES ASSUME Invs, p_accept_new_connection PROVE TokenInv'
  OBVIOUS
<1> USE DEF Invs
<1>1. PICK p \in Slots, f \in Fds, k \in backlog :
            /\ p_get_pollfd_index(p)
            /\ LowestFreeFd(f)
            /\ open' = [open EXCEPT ![f] = k]
            /\ fd' = [fd EXCEPT ![p] = f]
  BY DEF p_accept_new_connection
<1>2. /\ UNCHANGED <<domain, pipe, stdin_hup, cpc, client_fd_parent, client_fd_local>>
      /\ listening /\ ppc = "poll" /\ (Sane' => Sane)
  BY DEF p_accept_new_connection, domainVars, pipeVars, childVars, ListenReady, Sane
<1>3. ~stdin_hup => fd[p] = 0
  BY <1>1, <1>2 DEF ConnCount, p_get_pollfd_index, FirstEmpty
<1>4. ASSUME Sane', NEW q \in Slots, NEW g \in Fds, NEW l \in Conns, LentSlot(q, g, l)
      PROVE  LentSlot(q, g, l)'
  <2>1. q # p
    BY <1>2, <1>3, <1>4, FdsAssumption DEF LentSlot, Sane
  <2>2. g # f
    BY <1>1, <1>4, ConnsAssumption DEF LentSlot, LowestFreeFd
  <2> QED
    BY <1>1, <1>4, <2>1, <2>2 DEF LentSlot, TypeInv, TypeOK, SlotTypeOK, KernelTypeOK
<1> QED
  BY <1>2, <1>4, TokenKept DEF Holding

LEMMA TokenRemove ==
    ASSUME Invs, NEW p \in Slots, p_remove_connection(p) PROVE TokenInv'
<1> USE DEF Invs
<1>1. /\ UNCHANGED <<domain, pipe, stdin_hup, cpc, client_fd_parent, client_fd_local>>
      /\ (Sane' => Sane) /\ NeedsAction(p)
      /\ open' = [open EXCEPT ![fd[p]] = NoConn]
      /\ fd' = [fd EXCEPT ![p] = 0]
  BY DEF p_remove_connection, Current, domainVars, pipeVars, childVars, Sane
<1>2. ASSUME Sane', NEW q \in Slots, NEW g \in Fds, NEW l \in Conns, LentSlot(q, g, l)
      PROVE  LentSlot(q, g, l)'
  <2>1. fd[p] > 0 /\ q # p /\ g # fd[p]
    BY <1>1, <1>2, FdsAssumption DEF LentSlot, SlotInv, TypeInv, TypeOK, SlotTypeOK
  <2> QED
    BY <1>1, <1>2, <2>1 DEF LentSlot, TypeInv, TypeOK, SlotTypeOK, KernelTypeOK
<1> QED
  BY <1>1, <1>2, TokenKept DEF Holding

LEMMA TokenInterrupted == Invs /\ p_interrupted => TokenInv'
<1> SUFFICES ASSUME Invs, p_interrupted PROVE TokenInv'
  OBVIOUS
<1> USE DEF Invs
<1>1. /\ UNCHANGED <<domain, pipe, stdin_hup, cpc, client_fd_parent, client_fd_local, open>>
      /\ (Sane' => Sane)
  BY DEF p_interrupted, domainVars, pipeVars, childVars, kernelVars, Sane
<1>2. ASSUME Sane', NEW q \in Slots, NEW g \in Fds, NEW l \in Conns, LentSlot(q, g, l)
      PROVE  LentSlot(q, g, l)'
  <2>1. CASE UNCHANGED fd
    BY <1>1, <1>2, <2>1 DEF LentSlot
  <2>2. ASSUME NEW p \in Slots, Current(p), fd' = Disable(p) PROVE LentSlot(q, g, l)'
    <3>1. fd[p] > 0 /\ q # p
      BY <1>1, <1>2, <2>2, FdsAssumption DEF LentSlot, Current, SlotInv, TypeInv, TypeOK, SlotTypeOK
    <3> QED
      BY <1>1, <1>2, <2>2, <3>1 DEF LentSlot, Disable, TypeInv, TypeOK, SlotTypeOK
  <2> QED
    BY <2>1, <2>2 DEF p_interrupted
<1> QED
  BY <1>1, <1>2, TokenKept DEF Holding

\* The number that comes back through the pipe enables a slot that no other number names.
LEMMA TokenReenable == Invs /\ p_read_pipe_reenable_fd => TokenInv'
<1> SUFFICES ASSUME Invs, p_read_pipe_reenable_fd PROVE TokenInv'
  OBVIOUS
<1> USE DEF Invs
<1> DEFINE h == Head(pipe)
<1>1. /\ UNCHANGED <<domain, stdin_hup, cpc, client_fd_parent, client_fd_local, open>>
      /\ (Sane' => Sane) /\ pipe # <<>> /\ pipe' = Tail(pipe) /\ fd' = Enable(h)
  BY DEF p_read_pipe_reenable_fd, PipeReady, domainVars, childVars, kernelVars, Sane
<1>2. /\ DOMAIN pipe' = {} /\ DOMAIN pipe = {1} /\ pipe[1] = h /\ h \in Fds
  BY <1>1, AtMostOne DEF BufInv, TypeInv, TypeOK, IpcTypeOK
<1> HIDE DEF h
<1>3. ReadInv'
  BY <1>1 DEF TokenInv, ReadInv, Holding
<1>4. ASSUME Sane', NEW q \in Slots, NEW g \in Fds, NEW l \in Conns, LentSlot(q, g, l), g # h
      PROVE  LentSlot(q, g, l)'
  BY <1>1, <1>2, <1>4, FdsAssumption DEF LentSlot, Enable
<1>5. \A i \in DOMAIN domain : domain[i].fd \in Fds /\ domain[i].conn \in Conns
  <2>1. \A i \in DOMAIN domain : domain[i] \in [fd : Fds, conn : Conns]
    BY AtMostOne DEF BufInv, TypeInv, TypeOK, IpcTypeOK
  <2> QED
    BY <2>1
<1>6. \A c \in Children : Holding(c) => client_fd_parent[c] \in Fds /\ client_fd_local[c] \in Conns
  BY DEF WorkInv, Busy, Holding, TypeInv, TypeOK, ChildTypeOK
<1>7. ASSUME Sane' PROVE NoStaleToken'
  <2>1. Sane
    BY <1>1, <1>7
  <2>2. /\ \A i \in DOMAIN domain' :
              \E p \in Slots : LentSlot(p, domain[i].fd, domain[i].conn)'
        /\ \A c \in Children : Holding(c)' =>
              \E p \in Slots : LentSlot(p, client_fd_parent[c], client_fd_local[c])'
    BY <1>1, <1>2, <1>4, <1>5, <1>6, <1>7, <2>1 DEF TokenInv, NoStaleToken, Holding
  <2> QED
    BY <1>1, <1>2, <2>1, <2>2 DEF TokenInv, NoStaleToken, Holding
<1> QED
  BY <1>3, <1>7 DEF TokenInv, NoStaleToken

\* The connection that is passed on was nobody's: its slot was enabled.
LEMMA TokenSend == ASSUME Invs, NEW p \in Slots, p_send_to_child(p) PROVE TokenInv'
<1> USE DEF Invs
<1>0. PICK f \in Fds, k \in Conns : f = fd[p] /\ k = open[fd[p]]
  BY DEF p_send_to_child, Current, TypeInv, ScanInv
<1> DEFINE m == [fd |-> f, conn |-> k]
<1>1. /\ UNCHANGED <<pipe, stdin_hup, cpc, client_fd_parent, client_fd_local, open>>
      /\ ppc = "scan" /\ NeedsAction(p) /\ (Sane' => Sane)
      /\ domain' = Append(domain, m) /\ fd' = [fd EXCEPT ![p] = -f]
      /\ domain_sem_write > 0
  BY <1>0 DEF p_send_to_child, Current, Disable, DomainFree, pipeVars, childVars, kernelVars, Sane
<1>2. DOMAIN domain' = {1} /\ domain'[1] = m /\ DOMAIN domain = {}
  <2>1. domain \in Seq([fd : Fds, conn : Conns]) /\ Len(domain) = 0
    BY <1>1 DEF BufInv, TypeInv, TypeOK, IpcTypeOK
  <2>2. m \in [fd : Fds, conn : Conns]
    OBVIOUS
  <2> QED
    BY <1>1, <2>1, <2>2, AtMostOne
<1> HIDE DEF m
<1>3. m.fd = f /\ m.conn = k
  BY DEF m
<1>4. \A c \in Children : Holding(c) => client_fd_parent[c] \in Fds /\ client_fd_local[c] \in Conns
  BY DEF WorkInv, Busy, Holding, TypeInv, TypeOK, ChildTypeOK
<1>5. \A i \in DOMAIN pipe : pipe[i] \in Fds
  BY AtMostOne DEF BufInv, TypeInv, TypeOK, IpcTypeOK
<1>6. ASSUME Sane, NEW q \in Slots, NEW g \in Fds, NEW l \in Conns, LentSlot(q, g, l)
      PROVE  LentSlot(q, g, l)' /\ g # f /\ l # k
  <2>1. f > 0 /\ q # p
    BY <1>0, <1>1, <1>6, FdsAssumption DEF LentSlot, SlotInv, TypeInv, TypeOK, SlotTypeOK
  <2>2. g # f
    BY <1>0, <1>6, <2>1 DEF LentSlot, SlotInv, TypeInv, TypeOK, SlotTypeOK
  <2>3. l # k
    BY <1>0, <1>1, <1>6, <2>2 DEF LentSlot, SlotInv
  <2> QED
    BY <1>1, <1>6, <2>1, <2>2, <2>3 DEF LentSlot, TypeInv, TypeOK, SlotTypeOK
<1>7. ASSUME Sane PROVE LentSlot(p, f, k)'
  <2>1. f > 0
    BY <1>0, <1>1, <1>7 DEF SlotInv
  <2> QED
    BY <1>0, <1>1, <2>1 DEF LentSlot, TypeInv, TypeOK, SlotTypeOK
<1>8. ASSUME Sane PROVE
        /\ \A c \in Children : Holding(c) =>
              /\ \E q \in Slots : LentSlot(q, client_fd_parent[c], client_fd_local[c])'
              /\ client_fd_parent[c] # f /\ client_fd_local[c] # k
        /\ \A i \in DOMAIN pipe :
              (\E q \in Slots, l \in Conns : LentSlot(q, pipe[i], l)') /\ pipe[i] # f
  <2>1. ASSUME NEW c \in Children, Holding(c)
        PROVE  /\ \E q \in Slots : LentSlot(q, client_fd_parent[c], client_fd_local[c])'
               /\ client_fd_parent[c] # f /\ client_fd_local[c] # k
    <3>1. PICK q \in Slots : LentSlot(q, client_fd_parent[c], client_fd_local[c])
      BY <1>8, <2>1 DEF TokenInv, NoStaleToken
    <3>2. /\ LentSlot(q, client_fd_parent[c], client_fd_local[c])'
          /\ client_fd_parent[c] # f /\ client_fd_local[c] # k
      BY <1>1, <1>4, <1>6, <1>8, <2>1, <3>1
    <3> QED
      BY <3>2
  <2>2. ASSUME NEW i \in DOMAIN pipe
        PROVE  (\E q \in Slots, l \in Conns : LentSlot(q, pipe[i], l)') /\ pipe[i] # f
    <3>1. PICK q \in Slots, l \in Conns : LentSlot(q, pipe[i], l)
      BY <1>8 DEF TokenInv, NoStaleToken
    <3>2. LentSlot(q, pipe[i], l)' /\ pipe[i] # f
      BY <1>1, <1>5, <1>6, <1>8, <3>1
    <3> QED
      BY <3>2
  <2> QED
    BY <2>1, <2>2
<1>9. ~stdin_hup => Sane
  BY <1>1 DEF Sane
<1>10. ReadInv'
  BY <1>1, <1>2, <1>3, <1>8, <1>9 DEF TokenInv, ReadInv, Holding
<1>11. NoStaleToken'
  BY <1>1, <1>2, <1>3, <1>7, <1>8 DEF TokenInv, NoStaleToken, Holding
<1> QED
  BY <1>10, <1>11 DEF TokenInv

\* A child takes a number out of the domain socket, or puts its number into the pipe.
LEMMA TokenChild == ASSUME Invs, NEW c \in Children, ChildStep(c) PROVE TokenInv'
<1> USE DEF Invs
<1>0. /\ UNCHANGED <<fd, open, stdin_hup, ppc>> /\ (Sane' <=> Sane)
      /\ \A p \in Slots, f \in Fds, k \in Conns : LentSlot(p, f, k)' <=> LentSlot(p, f, k)
  BY ChildFrame DEF ChildFrameGoal, parentVars, slotVars, kernelVars, Sane, LentSlot
<1>a. \A d \in Children \ {c} :
         /\ Holding(d)' <=> Holding(d)
         /\ client_fd_parent'[d] = client_fd_parent[d] /\ client_fd_local'[d] = client_fd_local[d]
  BY ChildFrame DEF ChildFrameGoal, Holding
<1>1. CASE c_get_file_description_from_domain_socket(c)
  <2> DEFINE m == Head(domain)
  <2>1. /\ UNCHANGED pipe /\ domain # <<>> /\ domain' = Tail(domain) /\ ~Holding(c)
        /\ client_fd_parent'[c] = m.fd /\ client_fd_local'[c] = m.conn
    BY <1>1 DEF c_get_file_description_from_domain_socket, pipeVars, Holding, TypeInv, TypeOK,
                ChildTypeOK
  <2>2. DOMAIN domain' = {} /\ DOMAIN domain = {1} /\ domain[1] = m
    BY <2>1, AtMostOne DEF BufInv, TypeInv, TypeOK, IpcTypeOK
  <2> HIDE DEF m
  <2>3. ReadInv'
    BY <1>0, <1>a, <2>1, <2>2 DEF TokenInv, ReadInv
  <2>4. ASSUME Sane' PROVE NoStaleToken'
    <3>1. \A p \in Slots : \A f, k : LentSlot(p, f, k)' <=> LentSlot(p, f, k)
      BY <1>0 DEF LentSlot
    <3>2. NoStaleToken /\ Sane
      BY <1>0, <2>4 DEF TokenInv
    <3> QED
      BY <1>a, <2>1, <2>2, <3>1, <3>2 DEF NoStaleToken
  <2> QED
    BY <2>3, <2>4 DEF TokenInv, NoStaleToken
<1>2. CASE c_inform_parent_recv_finished(c) /\ ~ParentGone
  <2> DEFINE f == client_fd_parent[c]
  <2>1. /\ UNCHANGED <<domain, client_fd_parent, client_fd_local>> /\ pipe' = Append(pipe, f)
        /\ Holding(c) /\ ~Holding(c)' /\ Len(pipe) = 0 /\ f \in Fds /\ client_fd_local[c] \in Conns
    BY <1>2 DEF c_inform_parent_recv_finished, FinishedFd, CGoto, domainVars, Holding, BufInv,
                TypeInv, TypeOK, ChildTypeOK, IpcTypeOK, WorkInv, Busy
  <2>2. DOMAIN pipe' = {1} /\ pipe'[1] = f
    BY <2>1, AtMostOne DEF TypeInv, TypeOK, IpcTypeOK
  <2> HIDE DEF f
  <2>3. ReadInv'
    BY <1>0, <1>a, <2>1 DEF TokenInv, ReadInv
  <2>4. ASSUME Sane' PROVE NoStaleToken'
    <3>1. \A p \in Slots : \A g, k : LentSlot(p, g, k)' <=> LentSlot(p, g, k)
      BY <1>0 DEF LentSlot
    <3>2. NoStaleToken /\ Sane
      BY <1>0, <2>4 DEF TokenInv
    <3> QED
      BY <1>a, <2>1, <2>2, <3>1, <3>2 DEF NoStaleToken, f
  <2> QED
    BY <2>3, <2>4 DEF TokenInv, NoStaleToken
<1>3. CASE \/ c_inform_parent_recv_finished(c) /\ ParentGone
           \/ c_get_message_length(c) \/ c_recv_body(c) \/ c_log_wait(c) \/ c_log_write(c)
           \/ c_respond(c)
  <2>1. /\ UNCHANGED <<domain, pipe, client_fd_parent, client_fd_local>>
        /\ Holding(c)' => Holding(c)
    BY <1>3 DEF c_inform_parent_recv_finished, c_get_message_length, c_recv_body, c_log_wait,
                c_log_write, c_respond, Answer, CGoto, CFails, CLoopTest, Holding, domainVars, pipeVars,
                TypeInv, TypeOK, ChildTypeOK
  <2> QED
    BY <1>0, <1>a, <2>1, TokenKept
<1> QED
  BY <1>1, <1>2, <1>3 DEF ChildStep

LEMMA TokenStep == Invs /\ [Next]_vars => TokenInv'
<1> SUFFICES ASSUME Invs, [Next]_vars PROVE TokenInv'
  OBVIOUS
<1>1. ASSUME UNCHANGED <<domain, pipe, fd, open, client_fd_parent, client_fd_local>>,
             stdin_hup => stdin_hup', Sane' => Sane,
             \A c \in Children : Holding(c)' => Holding(c)
      PROVE  TokenInv'
  BY <1>1, TokenKept DEF Invs, LentSlot
<1>2. CASE \/ p_accept_fails \/ p_poll_sockets \/ p_scan_done \/ p_signal_children
           \/ (\E c \in Children : p_waitpid(c))
           \/ (\E p \in Slots : p_send_fails(p) \/ p_send_sigpipe(p))
  BY <1>1, <1>2 DEF p_accept_fails, p_poll_sockets, p_scan_done, p_signal_children, p_waitpid,
        p_send_fails, p_send_sigpipe, kernelVars, slotVars, childVars, domainVars, pipeVars, Sane,
        Holding
<1>3. CASE p_close_files
  <2>1. /\ UNCHANGED <<domain, pipe, client_fd_parent, client_fd_local, cpc, stdin_hup>>
        /\ ~Sane'
    BY <1>3 DEF p_close_files, domainVars, pipeVars, childVars, Sane
  <2> QED
    BY <2>1, TokenKept DEF Invs, Holding
<1>4. CASE SendSignal \/ \E x \in Procs : end_gogo_handler(x)
  BY <1>1, <1>4 DEF SendSignal, end_gogo_handler, kernelVars, slotVars, childVars, domainVars,
        pipeVars, parentVars, Sane, Holding
<1>5. ASSUME NEW c \in Children, c_interrupted(c) PROVE TokenInv'
  <2>1. \A d \in Children : Holding(d)' => Holding(d)
    BY <1>5 DEF c_interrupted, CGoto, CFails, Holding, Invs, TypeInv, TypeOK, ChildTypeOK
  <2> QED
    BY <1>1, <1>5, <2>1 DEF c_interrupted, kernelVars, slotVars, domainVars, pipeVars, parentVars,
          Sane
<1>6. CASE EnvStep
  BY <1>1, <1>6, EnvFrame DEF EnvFrameGoal, Invs, ServerVars, parentVars, slotVars, childVars,
        domainVars, pipeVars, Sane, Holding
<1>7. CASE UNCHANGED vars
  BY <1>1, <1>7 DEF vars, parentVars, slotVars, childVars, domainVars, pipeVars, kernelVars, Sane,
        Holding
<1> QED
  BY <1>2, <1>3, <1>4, <1>5, <1>6, <1>7, TokenAccept, TokenRemove, TokenInterrupted, TokenReenable,
     TokenSend, TokenChild DEF Next, ParentStep, SignalStep

-----------------------------------------------------------------------------
(***************************************************************************)
(* What is handed over is readable, and what is removed has been left.     *)
(***************************************************************************)

Ready(k) == HasData(k) \/ Left(k)

ReadyInv ==
    ~stdin_hup =>
        /\ \A p \in Slots : revents[p] = "in" => Ready(open[fd[p]])
        /\ \A p \in Slots : revents[p] = "hup" => Left(open[fd[p]])
        /\ \A i \in DOMAIN domain : Ready(domain[i].conn)
        /\ \A c \in Children : cpc[c] = "header" => Ready(client_fd_local[c])

LEMMA InitReadyInv == Init => ReadyInv
<1> SUFFICES ASSUME Init PROVE ReadyInv
  OBVIOUS
<1>1. \A p \in Slots : revents[p] = "none"
  BY DEF Init, InitKernel, NoRevents
<1>2. \A c \in Children : cpc[c] # "header"
  BY DEF Init, InitKernel
<1>3. DOMAIN domain = {}
  BY DEF Init, InitKernel
<1> QED
  BY <1>1, <1>2, <1>3 DEF ReadyInv

\* The connections ReadyInv speaks of are connections.
LEMMA HandedConns ==
    ASSUME Invs
    PROVE  /\ \A i \in DOMAIN domain : domain[i].conn \in Conns
           /\ \A c \in Children : Holding(c) => client_fd_local[c] \in Conns
           /\ ~stdin_hup => \A p \in Slots : NeedsAction(p) =>
                  ppc = "scan" /\ Sane /\ fd[p] \in Fds /\ fd[p] > 0 /\ open[fd[p]] \in Conns
<1> USE DEF Invs, TypeInv, TypeOK
<1>1. \A i \in DOMAIN domain : domain[i].conn \in Conns
  <2>1. \A i \in DOMAIN domain : domain[i] \in [fd : Fds, conn : Conns]
    BY AtMostOne DEF BufInv, IpcTypeOK
  <2> QED
    BY <2>1
<1>2. \A c \in Children : Holding(c) => client_fd_local[c] \in Conns
  BY DEF WorkInv, Busy, Holding
<1>3. ASSUME ~stdin_hup, NEW p \in Slots, NeedsAction(p)
      PROVE  ppc = "scan" /\ Sane /\ fd[p] \in Fds /\ fd[p] > 0 /\ open[fd[p]] \in Conns
  <2>1. ppc = "scan" /\ Sane /\ fd[p] \in Fds
    BY <1>3 DEF ScanInv, NeedsAction, Sane
  <2> QED
    BY <1>3, <2>1 DEF SlotInv
<1> QED
  BY <1>1, <1>2, <1>3

\* A step under which readable connections stay readable, and which hands nothing over.
LEMMA ReadyKept ==
    ASSUME Invs, ReadyInv, UNCHANGED domain, stdin_hup => stdin_hup',
           \A k \in Conns : HasData(k) => HasData(k)',
           \A k \in Conns : Left(k) => Left(k)',
           \A c \in Children : cpc'[c] = "header" =>
              cpc[c] = "header" /\ client_fd_local'[c] = client_fd_local[c],
           ~stdin_hup => \A p \in Slots : revents'[p] \in {"in", "hup"} =>
              revents'[p] = revents[p] /\ open'[fd'[p]] = open[fd[p]]
    PROVE  ReadyInv'
<1>1. \A k \in Conns : Ready(k) => Ready(k)'
  BY DEF Ready
<1> USE HandedConns
<1>2. ASSUME ~stdin_hup', NEW p \in Slots
      PROVE  /\ revents'[p] = "in" => Ready(open[fd[p]])'
             /\ revents'[p] = "hup" => Left(open[fd[p]])'
  <2> SUFFICES ASSUME revents'[p] \in {"in", "hup"}
               PROVE  /\ revents'[p] = "in" => Ready(open[fd[p]])'
                      /\ revents'[p] = "hup" => Left(open[fd[p]])'
    OBVIOUS
  <2>1. PICK k : k = open[fd[p]] /\ k = open'[fd'[p]] /\ k \in Conns /\ revents'[p] = revents[p]
    BY <1>2 DEF NeedsAction
  <2>2. /\ revents[p] = "in" => Ready(k)
        /\ revents[p] = "hup" => Left(k)
    BY <1>2, <2>1 DEF ReadyInv
  <2>3. /\ revents[p] = "in" => Ready(k)'
        /\ revents[p] = "hup" => Left(k)'
    BY <1>1, <2>1, <2>2
  <2> QED
    BY <2>1, <2>3 DEF Ready, Left, HasData
<1>3. ASSUME ~stdin_hup', NEW i \in DOMAIN domain PROVE Ready(domain[i].conn)'
  BY <1>1, <1>3 DEF ReadyInv, Ready, Left, HasData
<1>4. ASSUME ~stdin_hup', NEW c \in Children, cpc'[c] = "header" PROVE Ready(client_fd_local[c])'
  <2>1. PICK k \in Conns : k = client_fd_local[c] /\ k = client_fd_local'[c]
    BY <1>4 DEF Holding
  <2>2. Ready(k)'
    BY <1>1, <1>4, <2>1 DEF ReadyInv
  <2> QED
    BY <2>1, <2>2 DEF Ready, Left, HasData
<1> QED
  BY <1>2, <1>3, <1>4 DEF ReadyInv

LEMMA ReadyParent == Invs /\ ReadyInv /\ ParentStep => ReadyInv'
<1> SUFFICES ASSUME Invs, ReadyInv, ParentStep PROVE ReadyInv'
  OBVIOUS
<1> USE DEF HasData, Left
<1>1. CASE p_poll_sockets
  <2>1. UNCHANGED <<domain, stdin_hup, peer, wrote, taken, cpc, client_fd_local, fd, open>>
    BY <1>1 DEF p_poll_sockets, domainVars, kernelVars, clientVars, childVars, slotVars
  <2>2. ASSUME ~stdin_hup, NEW p \in Slots
        PROVE  /\ revents'[p] = "in" => Ready(open[fd[p]])
               /\ revents'[p] = "hup" => Left(open[fd[p]])
    <3>0. revents'[p] = PollEvents(p)
      BY <1>1 DEF p_poll_sockets
    <3>1. Sane /\ ppc = "poll"
      BY <1>1, <2>2 DEF p_poll_sockets, Sane
    <3>2. ASSUME PollEvents(p) \in {"in", "hup"} PROVE open[fd[p]] \in Conns
      <4>1. fd[p] \in Int
        BY DEF Invs, TypeInv, TypeOK, SlotTypeOK
      <4>2. fd[p] >= 0 /\ open[fd[p]] # Stdin
        BY <2>2, <3>2, <4>1 DEF PollEvents, PollOf
      <4>3. fd[p] > 0
        BY <3>1, <4>1, <4>2 DEF Invs, SlotInv
      <4> QED
        BY <3>1, <4>3 DEF Invs, SlotInv
    <3>3. ASSUME PollEvents(p) = "in" PROVE Readable(open[fd[p]])
      BY <3>3 DEF PollEvents, PollOf
    <3>4. ASSUME PollEvents(p) = "hup" PROVE HungUp(open[fd[p]])
      BY <2>2, <3>4 DEF PollEvents, PollOf
    <3> QED
      BY <3>0, <3>2, <3>3, <3>4 DEF Ready, Readable, HungUp, IsReset
  <2> QED
    BY <2>1, <2>2 DEF ReadyInv, Ready
<1>2. ASSUME NEW p \in Slots, p_send_to_child(p) PROVE ReadyInv'
  <2>1. PICK k \in Conns : k = open[fd[p]]
    BY <1>2 DEF p_send_to_child
  <2>2. /\ UNCHANGED <<stdin_hup, peer, wrote, taken, cpc, client_fd_local, open>>
        /\ revents' = [revents EXCEPT ![p] = "none"] /\ fd' = [fd EXCEPT ![p] = -fd[p]]
        /\ revents[p] = "in" /\ Current(p) /\ domain_sem_write > 0 /\ ppc = "scan"
        /\ domain' = Append(domain, [fd |-> fd[p], conn |-> k])
    BY <1>2, <2>1 DEF p_send_to_child, DomainFree, Disable, kernelVars, clientVars, childVars
  <2>3. fd[p] \in Fds
    BY <2>2 DEF Invs, TypeInv, ScanInv, Current
  <2>4. DOMAIN domain' = {1} /\ domain'[1].conn = k
    <3>1. domain \in Seq([fd : Fds, conn : Conns]) /\ Len(domain) = 0
      BY <2>2 DEF Invs, BufInv, TypeInv, TypeOK, IpcTypeOK
    <3>2. [fd |-> fd[p], conn |-> k] \in [fd : Fds, conn : Conns]
      BY <2>3
    <3> QED
      BY <2>2, <3>1, <3>2, AtMostOne
  <2>5. ~stdin_hup => Ready(k)
    BY <2>1, <2>2 DEF ReadyInv
  <2>6. ~stdin_hup => \A q \in Slots : revents'[q] \in {"in", "hup"} =>
              revents'[q] = revents[q] /\ open'[fd'[q]] = open[fd[q]]
    BY <2>2 DEF Invs, TypeInv, TypeOK, ParentTypeOK, SlotTypeOK
  <2>7. ASSUME ~stdin_hup', NEW q \in Slots
        PROVE  /\ revents'[q] = "in" => Ready(open[fd[q]])'
               /\ revents'[q] = "hup" => Left(open[fd[q]])'
    BY <2>2, <2>6, <2>7 DEF ReadyInv, Ready
  <2> QED
    BY <2>2, <2>4, <2>5, <2>7 DEF ReadyInv, Ready
<1>3. ASSUME NEW p \in Slots, p_remove_connection(p) PROVE ReadyInv'
  <2>1. /\ UNCHANGED <<domain, stdin_hup, peer, wrote, taken, cpc, client_fd_local>>
        /\ revents' = [revents EXCEPT ![p] = "none"] /\ fd' = [fd EXCEPT ![p] = 0]
        /\ open' = [open EXCEPT ![fd[p]] = NoConn] /\ NeedsAction(p)
    BY <1>3 DEF p_remove_connection, Current, domainVars, clientVars, childVars
  <2>2. ASSUME ~stdin_hup, NEW q \in Slots, revents'[q] \in {"in", "hup"}
        PROVE  revents'[q] = revents[q] /\ open'[fd'[q]] = open[fd[q]]
    <3>1. q # p /\ revents'[q] = revents[q]
      BY <2>1, <2>2 DEF Invs, TypeInv, TypeOK, ParentTypeOK
    <3>2. Sane /\ fd[q] \in Fds /\ fd[q] > 0 /\ fd[p] > 0
      BY <2>1, <2>2, <3>1, HandedConns DEF NeedsAction
    <3>3. fd[q] # fd[p]
      BY <3>1, <3>2 DEF Invs, SlotInv
    <3> QED
      BY <2>1, <3>1, <3>2, <3>3 DEF Invs, TypeInv, TypeOK, SlotTypeOK, KernelTypeOK
  <2> QED
    BY <2>1, <2>2, ReadyKept
<1>4. CASE \/ p_accept_new_connection \/ p_accept_fails \/ p_read_pipe_reenable_fd \/ p_scan_done
           \/ p_signal_children \/ p_close_files \/ (\E c \in Children : p_waitpid(c))
           \/ (\E p \in Slots : p_send_fails(p) \/ p_send_sigpipe(p))
  <2>1. UNCHANGED <<domain, stdin_hup, peer, wrote, taken, cpc, client_fd_local>>
    BY <1>4 DEF p_accept_new_connection, p_accept_fails, p_read_pipe_reenable_fd, p_scan_done,
                p_signal_children, p_close_files, p_waitpid, p_send_fails, p_send_sigpipe,
                domainVars, kernelVars, clientVars, childVars
  <2>2. \A p \in Slots : revents'[p] \notin {"in", "hup"}
    BY <1>4 DEF p_accept_new_connection, p_accept_fails, p_read_pipe_reenable_fd, p_scan_done,
                p_signal_children, p_close_files, p_waitpid, p_send_fails, p_send_sigpipe,
                NoRevents, Invs, TypeInv, ScanInv
  <2> QED
    BY <2>1, <2>2, ReadyKept
<1> QED
  BY <1>1, <1>2, <1>3, <1>4 DEF ParentStep

\* The reader of a connection is alone with it, so what it receives was promised to nobody else.
LEMMA ReadyChild == ASSUME Invs, ReadyInv, NEW c \in Children, ChildStep(c) PROVE ReadyInv'
<1>0. /\ UNCHANGED <<fd, open, stdin_hup, revents, wrote>> /\ (\A k \in Conns : Left(k) => Left(k)')
      /\ \A d \in Children \ {c} : cpc'[d] = cpc[d] /\ client_fd_local'[d] = client_fd_local[d]
  BY ChildFrame DEF Invs, ChildFrameGoal, parentVars, slotVars, kernelVars
<1>1. CASE c_get_file_description_from_domain_socket(c)
  <2>1. /\ UNCHANGED <<peer, taken>> /\ domain # <<>> /\ domain' = Tail(domain)
        /\ client_fd_local'[c] = Head(domain).conn
    BY <1>1 DEF c_get_file_description_from_domain_socket, clientVars, Invs, TypeInv, TypeOK,
                ChildTypeOK
  <2>2. DOMAIN domain' = {} /\ DOMAIN domain = {1} /\ domain[1] = Head(domain)
    BY <2>1, AtMostOne DEF Invs, BufInv, TypeInv, TypeOK, IpcTypeOK
  <2> QED
    BY <1>0, <2>1, <2>2 DEF ReadyInv, Ready, HasData, Left
<1>2. CASE c_get_message_length(c) \/ c_recv_body(c)
  <2>1. PICK k \in Conns : k = client_fd_local[c]
    BY <1>2, HandedConns DEF c_get_message_length, c_recv_body, Holding
  <2>2. /\ UNCHANGED <<domain, client_fd_local, peer>> /\ Reading(c) /\ cpc'[c] # "header"
        /\ \A l \in Conns \ {k} : taken'[l] = taken[l]
    BY <1>2, <2>1 DEF c_get_message_length, c_recv_body, domainVars, CGoto, CFails, Reading, Invs,
                TypeInv, TypeOK, ChildTypeOK, ClientTypeOK
  <2>3. \A l \in Conns \ {k} : Ready(l) => Ready(l)'
    BY <1>0, <2>2 DEF Ready, HasData
  <2> SUFFICES ASSUME ~stdin_hup PROVE ReadyInv'
    BY <1>0 DEF ReadyInv
  <2>4. \A i \in DOMAIN domain : domain[i].conn \in Conns \ {k}
    BY <2>1, <2>2, HandedConns DEF Invs, TokenInv, ReadInv, Reading, Holding
  <2>5. \A d \in Children : cpc'[d] = "header" =>
           d # c /\ cpc[d] = "header" /\ client_fd_local'[d] = client_fd_local[d]
           /\ client_fd_local[d] \in Conns \ {k}
    BY <1>0, <2>1, <2>2, HandedConns DEF Invs, TokenInv, ReadInv, Reading, Holding
  <2>6. \A p \in Slots : NeedsAction(p) => open[fd[p]] \in Conns \ {k}
    <3> SUFFICES ASSUME NEW p \in Slots, NeedsAction(p) PROVE open[fd[p]] \in Conns \ {k}
      OBVIOUS
    <3>1. Sane /\ fd[p] \in Fds /\ fd[p] > 0 /\ open[fd[p]] \in Conns
      BY HandedConns
    <3>2. PICK q \in Slots : LentSlot(q, client_fd_parent[c], k)
      BY <2>1, <2>2, <3>1 DEF Invs, TokenInv, NoStaleToken, Reading, Holding
    <3>3. client_fd_parent[c] \in Fds
      BY DEF Invs, TypeInv, TypeOK, ChildTypeOK
    <3>4. fd[q] < 0 /\ q # p
      <4>1. client_fd_parent[c] \in Nat /\ client_fd_parent[c] # 0
        BY <3>2, <3>3, FdsAssumption DEF LentSlot
      <4>2. fd[q] = -client_fd_parent[c]
        BY <3>2 DEF LentSlot
      <4> QED
        BY <3>1, <4>1, <4>2
    <3>5. fd[p] # client_fd_parent[c]
      <4>1. fd[q] # 0 => fd[q] # -fd[p]
        BY <3>1, <3>4 DEF Invs, SlotInv
      <4> QED
        BY <3>2, <3>4, <4>1 DEF LentSlot
    <3>6. open[client_fd_parent[c]] = k
      BY <3>2 DEF LentSlot
    <3> QED
      BY <3>1, <3>3, <3>5, <3>6 DEF Invs, SlotInv
  <2>7. ASSUME NEW p \in Slots
        PROVE  /\ revents'[p] = "in" => Ready(open[fd[p]])'
               /\ revents'[p] = "hup" => Left(open[fd[p]])'
    <3>1. revents[p] = "in" => Ready(open[fd[p]]) /\ open[fd[p]] \in Conns \ {k}
      BY <2>6 DEF ReadyInv, NeedsAction
    <3> QED
      BY <1>0, <2>2, <2>3, <3>1 DEF ReadyInv, Ready, HasData, Left
  <2>8. \A i \in DOMAIN domain : Ready(domain[i].conn)'
    BY <2>2, <2>3, <2>4 DEF ReadyInv, Ready, HasData, Left
  <2>9. \A d \in Children : cpc'[d] = "header" => Ready(client_fd_local[d])'
    BY <2>3, <2>5 DEF ReadyInv, Ready, HasData, Left
  <2> QED
    BY <2>2, <2>7, <2>8, <2>9 DEF ReadyInv
<1>3. CASE \/ c_inform_parent_recv_finished(c) \/ c_log_wait(c) \/ c_log_write(c) \/ c_respond(c)
  <2>1. /\ UNCHANGED <<domain, client_fd_local, taken>> /\ cpc'[c] # "header"
    BY <1>3 DEF c_inform_parent_recv_finished, c_log_wait, c_log_write, c_respond, Answer, domainVars,
                clientVars, CGoto, CFails, CLoopTest, Invs, TypeInv, TypeOK, ChildTypeOK
  <2> QED
    BY <1>0, <2>1, ReadyKept DEF HasData
<1> QED
  BY <1>1, <1>2, <1>3 DEF ChildStep

LEMMA ReadyStep == Invs /\ ReadyInv /\ [Next]_vars => ReadyInv'
<1> SUFFICES ASSUME Invs, ReadyInv, [Next]_vars PROVE ReadyInv'
  OBVIOUS
<1>1. CASE SignalStep
  <2>1. CASE SendSignal \/ \E x \in Procs : end_gogo_handler(x)
    BY <2>1, ReadyKept DEF SendSignal, end_gogo_handler, domainVars, kernelVars, clientVars,
          childVars, parentVars, slotVars, HasData, Left
  <2>2. ASSUME NEW c \in Children, c_interrupted(c) PROVE ReadyInv'
    <3>1. \A d \in Children : cpc'[d] = "header" => cpc[d] = "header"
      BY <2>2 DEF c_interrupted, CGoto, CFails, Invs, TypeInv, TypeOK, ChildTypeOK
    <3> QED
      BY <2>2, <3>1, ReadyKept DEF c_interrupted, domainVars, kernelVars, clientVars, parentVars,
            slotVars, HasData, Left
  <2>3. CASE p_interrupted
    <3>1. UNCHANGED <<domain, stdin_hup, peer, wrote, taken, cpc, client_fd_local, open>>
      BY <2>3 DEF p_interrupted, domainVars, kernelVars, clientVars, childVars
    <3>2. \A q \in Slots : revents'[q] \in {"in", "hup"} => revents'[q] = revents[q] /\ fd'[q] = fd[q]
      BY <2>3 DEF p_interrupted, Disable, Invs, TypeInv, TypeOK, ParentTypeOK, SlotTypeOK
    <3> QED
      BY <3>1, <3>2, ReadyKept DEF HasData, Left
  <2> QED
    BY <1>1, <2>1, <2>2, <2>3 DEF SignalStep
<1>2. CASE EnvStep
  <2>1. /\ UNCHANGED <<domain, revents, fd, open, cpc, client_fd_local, taken>>
        /\ (stdin_hup => stdin_hup') /\ \A k \in Conns : wrote'[k] >= wrote[k]
        /\ \A k \in Conns : Left(k) => Left(k)'
    BY <1>2, EnvFrame DEF Invs, EnvFrameGoal, ServerVars, parentVars, slotVars, childVars, domainVars
  <2>2. \A k \in Conns : wrote'[k] \in Int /\ wrote[k] \in Int /\ taken[k] \in Int
    <3>1. TypeInv /\ TypeInv'
      BY <1>2, EnvTypeInv DEF Invs
    <3>2. Body + 1 \in Int
      BY LimitsAssumption, BodyAssumption
    <3> QED
      BY <3>1, <3>2 DEF TypeInv, TypeOK, ClientTypeOK
  <2>3. \A k \in Conns : HasData(k) => HasData(k)'
    BY <2>1, <2>2 DEF HasData
  <2> QED
    BY <2>1, <2>3, ReadyKept
<1>3. CASE UNCHANGED vars
  BY <1>3, ReadyKept DEF vars, domainVars, kernelVars, clientVars, childVars, parentVars, slotVars,
        HasData, Left
<1> QED
  BY <1>1, <1>2, <1>3, ReadyParent, ReadyChild DEF Next

-----------------------------------------------------------------------------
(***************************************************************************)
(* The theorems.                                                           *)
(***************************************************************************)

LEMMA InitBufInv == Init => BufInv
<1> SUFFICES ASSUME Init PROVE BufInv
  OBVIOUS
<1>1. Len(domain) = 0 /\ Len(pipe) = 0
  BY DEF Init, InitKernel
<1> QED
  BY <1>1 DEF Init, InitKernel, BufInv

HandshakeInv == Invs /\ ReadyInv

LEMMA HandshakeInvariant == Spec => []HandshakeInv
<1>1. Init => HandshakeInv
  BY InitTypeInv, InitBufInv, InitSlotInv, InitConnCount, InitTokenInv, InitReadyInv
     DEF HandshakeInv, Invs
<1>2. HandshakeInv /\ [Next]_vars => HandshakeInv'
  <2> SUFFICES ASSUME HandshakeInv, [Next]_vars PROVE HandshakeInv'
    OBVIOUS
  <2>1. TypeInv'
    BY ParentTypeInv, ChildTypeInv, SignalTypeInv, EnvTypeInv, StutterTypeInv
       DEF Next, HandshakeInv, Invs
  <2>2. BufInv' /\ SlotInv' /\ ConnCount'
    BY BufStep, SlotStepInv, ConnCountStep DEF HandshakeInv, Invs
  <2>3. TokenInv' /\ ReadyInv'
    BY TokenStep, ReadyStep DEF HandshakeInv
  <2> QED
    BY <2>1, <2>2, <2>3 DEF HandshakeInv, Invs
<1> QED
  BY <1>1, <1>2, PTL DEF Spec

\* For any number of children and connections: an fd number in the domain socket, in a child or
\* in the pipe names a disabled slot that still holds the connection it was sent for, and no
\* number is on its way twice.  Hence the fd that p_read_pipe_reenable_fd enables is the one
\* whose message has been received, although the kernel reuses descriptor numbers.
THEOREM TokensNeverStale == Spec => []NoStaleToken
<1>1. HandshakeInv => NoStaleToken
  BY DEF HandshakeInv, Invs, TokenInv
<1> QED
  BY <1>1, HandshakeInvariant, PTL

\* Two children never receive from one connection at once.
THEOREM OneReader == Spec => []ExclusiveReader
<1>1. HandshakeInv => ExclusiveReader
  BY DEF HandshakeInv, Invs, TokenInv, ReadInv, ExclusiveReader, Reading, Holding
<1> QED
  BY <1>1, HandshakeInvariant, PTL

\* num_connections is the number of slots in use, and accepting is suspended exactly while
\* none is free: p_get_pollfd_index never falls back on a slot that is taken.
THEOREM ConnectionsCounted == Spec => []ConnCount
<1>1. HandshakeInv => ConnCount
  BY DEF HandshakeInv, Invs
<1> QED
  BY <1>1, HandshakeInvariant, PTL

\* The semaphores keep the domain socket and the pipe one-place buffers while the parent polls.
THEOREM SemaphoresGuardBuffers == Spec => []OnePlaceBuffers
<1>1. HandshakeInv => OnePlaceBuffers
  BY DEF HandshakeInv, Invs, BufInv, OnePlaceBuffers, ParentGone
<1> QED
  BY <1>1, HandshakeInvariant, PTL

\* The recv() of a message's length finds bytes, the end of the stream or an error waiting: no
\* idle client can hold a child.
THEOREM HeadersReady == Spec => []HeaderNeverBlocks
<1>1. HandshakeInv => HeaderNeverBlocks
  BY DEF HandshakeInv, ReadyInv, Ready, Left, HeaderNeverBlocks
<1> QED
  BY <1>1, HandshakeInvariant, PTL

\* A slot goes through its life in order: it is filled only when empty, disabled and enabled
\* with its descriptor kept, and emptied only while enabled and once its client has gone.
THEOREM SlotsLiveInOrder == Spec => SlotLifecycle
<1>1. ASSUME HandshakeInv, [Next]_vars, ~stdin_hup, NEW p \in Slots PROVE SlotStep(p)
  <2> USE <1>1 DEF SlotStep
  <2>1. CASE p_accept_new_connection
    <3>1. PICK k \in backlog, q \in Slots, f \in Fds :
                /\ p_get_pollfd_index(q) /\ LowestFreeFd(f)
                /\ open' = [open EXCEPT ![f] = k] /\ fd' = [fd EXCEPT ![q] = f]
      BY <2>1 DEF p_accept_new_connection
    <3>2. Sane /\ listening
      BY <2>1 DEF p_accept_new_connection, Sane, ListenReady
    <3>3. fd[q] = 0
      BY <3>1, <3>2 DEF HandshakeInv, Invs, ConnCount, p_get_pollfd_index, FirstEmpty
    <3>4. f > 0
      BY <3>1, <3>2, FdsAssumption, ConnsAssumption DEF LowestFreeFd, HandshakeInv, Invs, SlotInv
    <3> QED
      BY <3>1, <3>3, <3>4
         DEF HandshakeInv, Invs, TypeInv, TypeOK, SlotTypeOK, KernelTypeOK
  <2>2. CASE p_read_pipe_reenable_fd
    BY <2>2 DEF p_read_pipe_reenable_fd, Enable, kernelVars
  <2>3. ASSUME NEW q \in Slots, p_send_to_child(q) PROVE SlotStep(p)
    BY <2>3 DEF p_send_to_child, Disable, kernelVars, HandshakeInv, Invs, TypeInv, TypeOK,
                SlotTypeOK
  <2>4. CASE p_interrupted
    BY <2>4 DEF p_interrupted, Disable, kernelVars, HandshakeInv, Invs, TypeInv, TypeOK,
                SlotTypeOK
  <2>5. ASSUME NEW q \in Slots, p_remove_connection(q) PROVE SlotStep(p)
    <3>1. NeedsAction(q) /\ revents[q] = "hup" /\ fd' = [fd EXCEPT ![q] = 0]
      BY <2>5 DEF p_remove_connection, Current
    <3>2. fd[q] > 0 /\ open[fd[q]] \in Conns
      BY <3>1, HandedConns DEF HandshakeInv
    <3>3. peer[open[fd[q]]] # "open"
      BY <3>1 DEF HandshakeInv, ReadyInv, Left
    <3> QED
      BY <3>1, <3>2, <3>3 DEF HandshakeInv, Invs, TypeInv, TypeOK, SlotTypeOK
  <2>6. CASE UNCHANGED slotVars
    BY <2>6 DEF slotVars
  <2>7. CASE \/ p_accept_fails \/ p_poll_sockets \/ p_scan_done \/ p_signal_children
             \/ p_close_files \/ (\E c \in Children : p_waitpid(c))
             \/ (\E q \in Slots : p_send_fails(q) \/ p_send_sigpipe(q))
    BY <2>6, <2>7 DEF p_accept_fails, p_poll_sockets, p_scan_done, p_signal_children,
                      p_close_files, p_waitpid, p_send_fails, p_send_sigpipe
  <2>8. CASE \/ SendSignal \/ (\E x \in Procs : end_gogo_handler(x))
             \/ \E c \in Children : c_interrupted(c)
    BY <2>6, <2>8 DEF SendSignal, end_gogo_handler, c_interrupted
  <2>9. CASE \E c \in Children : ChildStep(c)
    BY <2>6, <2>9, ChildFrame DEF ChildFrameGoal, HandshakeInv, Invs
  <2>10. CASE EnvStep
    BY <2>6, <2>10, EnvFrame DEF EnvFrameGoal, ServerVars, HandshakeInv, Invs
  <2>11. CASE UNCHANGED vars
    BY <2>6, <2>11 DEF vars
  <2> QED
    BY <2>1, <2>2, <2>3, <2>4, <2>5, <2>7, <2>8, <2>9, <2>10, <2>11
       DEF Next, ParentStep, SignalStep
<1>2. HandshakeInv /\ [Next]_vars => [~stdin_hup => \A p \in Slots : SlotStep(p)]_vars
  BY <1>1
<1> QED
  BY <1>2, HandshakeInvariant, PTL DEF Spec, SlotLifecycle
=============================================================================
