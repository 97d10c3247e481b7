------------------------- MODULE ProcessOutcomeProofs -------------------------
(***************************************************************************)
(* Proofs about what comes of the process server: which children its       *)
(* teardown leaves behind, and what its clients are answered.  They rest   *)
(* on the invariants of ProcessServerProofs.                               *)
(***************************************************************************)
EXTENDS ProcessServerProofs

-----------------------------------------------------------------------------
(***************************************************************************)
(* Orphans.  A wait for a live child is given up only by a signal that the *)
(* parent gets while it takes its children down, and each such signal      *)
(* gives up one; by then every child has had its own.                      *)
(***************************************************************************)

\* Live children the parent will not wait for any more.
GivenUp == Live \ unreaped

\* A signal is on its way to the child, or has cleared its flag.
Told(c) == c \in pending \/ ~GOGO_PROCESS[c]

TakingDown == ppc \in {"reap", "done"}

OrphanInv ==
    /\ ~TakingDown => unreaped = Children
    /\ TakingDown =>
          /\ Cardinality(GivenUp) + (IF Parent \in pending THEN 1 ELSE 0) <= late
          /\ \A c \in Live : Told(c)
    /\ ppc = "done" => unreaped = {}

LEMMA ChildSets ==
    ASSUME NEW S \in SUBSET Children
    PROVE  /\ IsFiniteSet(S) /\ Cardinality(S) \in Nat
           /\ \A T \in SUBSET S : Cardinality(T) \in Nat /\ Cardinality(T) <= Cardinality(S)
<1>1. \A T \in SUBSET Children : IsFiniteSet(T) /\ Cardinality(T) \in Nat
  BY ChildrenAssumption, FS_Subset, FS_CardinalityType
<1>2. \A T \in SUBSET S : T \in SUBSET Children /\ Cardinality(T) <= Cardinality(S)
  BY <1>1, FS_Subset
<1> QED
  BY <1>1, <1>2

LEMMA InitOrphanInv == Init => OrphanInv
BY DEF Init, OrphanInv, TakingDown

\* A step that gives no child up, takes no child's signal back, and sends the parent none.
LEMMA OrphansKept ==
    ASSUME TypeInv, OrphanInv, late' = late, Live' \subseteq Live, GivenUp' \subseteq GivenUp,
           \A c \in Live' : Told(c) => Told(c)',
           Parent \in pending' => Parent \in pending,
           TakingDown' <=> TakingDown,
           TakingDown \/ unreaped' = unreaped,
           ppc' = "done" => unreaped' = {}
    PROVE  OrphanInv'
<1>1. GivenUp \in SUBSET Children
  BY DEF GivenUp, Live
<1>2. /\ Cardinality(GivenUp) \in Nat /\ Cardinality(GivenUp') \in Nat
      /\ Cardinality(GivenUp') <= Cardinality(GivenUp)
  BY <1>1, ChildSets
<1>3. late \in Int
  BY DEF TypeInv, TypeOK, SignalTypeOK
<1>4. TakingDown' =>
          Cardinality(GivenUp') + (IF Parent \in pending' THEN 1 ELSE 0) <= late'
  BY <1>2, <1>3 DEF OrphanInv
<1>5. TakingDown' => \A c \in Live' : Told(c)'
  BY DEF OrphanInv
<1>6. ~TakingDown' => unreaped' = Children
  BY DEF OrphanInv
<1> QED
  BY <1>4, <1>5, <1>6 DEF OrphanInv

LEMMA OrphanStep == TypeInv /\ OrphanInv /\ [Next]_vars => OrphanInv'
<1> SUFFICES ASSUME TypeInv, OrphanInv, [Next]_vars PROVE OrphanInv'
  OBVIOUS
<1>0. Parent \notin Live /\ Live \subseteq Children
  BY ChildrenAssumption DEF Live
<1>1. CASE p_signal_children
  <2>1. /\ UNCHANGED <<cpc, unreaped, GOGO_PROCESS>> /\ pending' = pending \cup Live
        /\ ppc = "kill" /\ ppc' = "reap" /\ late' = IF Parent \in pending THEN 1 ELSE 0
    BY <1>1 DEF p_signal_children, childVars
  <2>2. Live' = Live /\ unreaped' = Children
    BY <2>1 DEF Live, Dead, OrphanInv, TakingDown
  <2>3. Cardinality(GivenUp') = 0
    BY <1>0, <2>2, FS_EmptySet DEF GivenUp
  <2>4. Parent \in pending' <=> Parent \in pending
    BY <1>0, <2>1
  <2>5. \A c \in Live' : Told(c)'
    BY <2>1, <2>2 DEF Told
  <2> QED
    BY <2>1, <2>3, <2>4, <2>5 DEF OrphanInv, TakingDown
<1>2. CASE ParentStep /\ ~p_signal_children
  <2>1. UNCHANGED <<cpc, pending, GOGO_PROCESS, late>>
    BY <1>2 DEF ParentStep, p_accept_new_connection, p_accept_fails, p_read_pipe_reenable_fd,
                p_poll_sockets, p_send_to_child, p_send_fails, p_send_sigpipe, p_remove_connection,
                p_scan_done, p_waitpid, p_close_files, childVars, signalVars
  <2>2. Live' = Live /\ \A c \in Live' : Told(c) => Told(c)'
    BY <2>1 DEF Live, Dead, Told
  <2>3. GivenUp' \subseteq GivenUp
    <3>1. CASE \E c \in Children : p_waitpid(c)
      BY <2>1, <3>1 DEF p_waitpid, WaitReturns, GivenUp, Live, Dead
    <3>2. CASE UNCHANGED unreaped
      BY <2>1, <3>2 DEF GivenUp, Live, Dead
    <3> QED
      BY <1>2, <3>1, <3>2
         DEF ParentStep, p_accept_new_connection, p_accept_fails, p_read_pipe_reenable_fd,
             p_poll_sockets, p_send_to_child, p_send_fails, p_send_sigpipe, p_remove_connection,
             p_scan_done, p_close_files
  <2>4. /\ TakingDown' <=> TakingDown
        /\ TakingDown \/ unreaped' = unreaped
        /\ ppc' = "done" => unreaped' = {}
    BY <1>2 DEF ParentStep, p_accept_new_connection, p_accept_fails, p_read_pipe_reenable_fd,
                p_poll_sockets, p_send_to_child, p_send_fails, p_send_sigpipe, p_remove_connection,
                p_scan_done, p_waitpid, p_close_files, PLoopTest, TakingDown
  <2> QED
    BY <2>1, <2>2, <2>3, <2>4, OrphansKept
<1>3. ASSUME NEW c \in Children, ChildStep(c) PROVE OrphanInv'
  <2>1. /\ UNCHANGED <<ppc, unreaped, pending, GOGO_PROCESS, late>>
        /\ \A d \in Children \ {c} : cpc'[d] = cpc[d]
    BY <1>3, ChildFrame DEF ChildFrameGoal, parentVars, signalVars
  <2>2. c \in Live
    BY <1>3 DEF ChildStep, c_get_file_description_from_domain_socket, c_get_message_length,
                c_recv_body, c_inform_parent_recv_finished, c_log_wait, c_log_write, c_respond,
                Live, Dead
  <2>3. Live' \subseteq Live /\ GivenUp' \subseteq GivenUp
    BY <2>1, <2>2 DEF GivenUp, Live, Dead
  <2> QED
    BY <2>1, <2>3, OrphansKept DEF OrphanInv, TakingDown, Told
<1>4. CASE SendSignal
  <2>1. /\ UNCHANGED <<cpc, unreaped, ppc, GOGO_PROCESS>> /\ pending \subseteq pending'
        /\ late' = IF ppc = "reap" THEN late + 1 ELSE late
        /\ ppc = "done" => (Parent \in pending' => Parent \in pending)
    BY <1>0, <1>4 DEF SendSignal, parentVars, childVars, ParentGone
  <2>2. GivenUp' = GivenUp /\ Live' = Live
    BY <2>1 DEF GivenUp, Live, Dead
  <2>3. Cardinality(GivenUp) \in Nat /\ late \in Int
    BY ChildSets DEF GivenUp, Live, TypeInv, TypeOK, SignalTypeOK
  <2>4. TakingDown =>
            Cardinality(GivenUp') + (IF Parent \in pending' THEN 1 ELSE 0) <= late'
    BY <2>1, <2>2, <2>3 DEF OrphanInv, TakingDown
  <2>5. TakingDown => \A c \in Live' : Told(c)'
    BY <2>1, <2>2 DEF OrphanInv, Told
  <2> QED
    BY <2>1, <2>4, <2>5 DEF OrphanInv, TakingDown
<1>5. ASSUME NEW x \in Procs, end_gogo_handler(x) PROVE OrphanInv'
  <2>1. /\ UNCHANGED <<cpc, unreaped, ppc, late>> /\ pending' = pending \ {x}
        /\ GOGO_PROCESS' = [GOGO_PROCESS EXCEPT ![x] = FALSE]
    BY <1>5 DEF end_gogo_handler, Delivered, parentVars, childVars
  <2>2. GivenUp' = GivenUp /\ Live' = Live
    BY <2>1 DEF GivenUp, Live, Dead
  <2>3. \A c \in Live' : Told(c) => Told(c)'
    BY <1>0, <2>1, <2>2 DEF Told, TypeInv, TypeOK, SignalTypeOK, Procs
  <2> QED
    BY <2>1, <2>2, <2>3, OrphansKept DEF OrphanInv, TakingDown
<1>6. CASE p_interrupted
  <2>1. /\ UNCHANGED <<cpc, late>> /\ pending' = pending \ {Parent} /\ Parent \in pending
        /\ GOGO_PROCESS' = [GOGO_PROCESS EXCEPT ![Parent] = FALSE]
    BY <1>6 DEF p_interrupted, Delivered, childVars
  <2>2. Live' = Live /\ \A c \in Live' : Told(c) => Told(c)'
    BY <1>0, <2>1 DEF Told, Live, Dead, TypeInv, TypeOK, SignalTypeOK, Procs
  <2>3. CASE UNCHANGED unreaped /\ ~TakingDown /\ ~TakingDown'
    BY <2>1, <2>2, <2>3, OrphansKept DEF GivenUp, TakingDown
  <2>4. ASSUME NEW c \in unreaped \cap Live, unreaped' = unreaped \ {c}, ppc = "reap", ppc' = ppc
        PROVE  OrphanInv'
    <3>1. GivenUp' = GivenUp \cup {c} /\ c \notin GivenUp
      BY <2>2, <2>4 DEF GivenUp
    <3>2. IsFiniteSet(GivenUp) /\ Cardinality(GivenUp) \in Nat
      BY ChildSets DEF GivenUp, Live
    <3>3. Cardinality(GivenUp') = Cardinality(GivenUp) + 1
      BY <3>1, <3>2, FS_AddElement
    <3>4. late \in Int
      BY DEF TypeInv, TypeOK, SignalTypeOK
    <3>5. Cardinality(GivenUp') + (IF Parent \in pending' THEN 1 ELSE 0) <= late'
      BY <2>1, <2>4, <3>2, <3>3, <3>4 DEF OrphanInv, TakingDown
    <3>6. \A d \in Live' : Told(d)'
      BY <2>2, <2>4 DEF OrphanInv, TakingDown
    <3> QED
      BY <2>4, <3>5, <3>6 DEF OrphanInv, TakingDown
  <2>5. \/ UNCHANGED unreaped /\ ~TakingDown /\ ~TakingDown'
        \/ ppc = "reap" /\ ppc' = ppc /\ \E c \in unreaped \cap Live : unreaped' = unreaped \ {c}
    BY <1>6 DEF p_interrupted, TakingDown
  <2> QED
    BY <2>3, <2>4, <2>5
<1>7. ASSUME NEW c \in Children, c_interrupted(c) PROVE OrphanInv'
  <2>1. /\ UNCHANGED <<ppc, unreaped, late>> /\ pending' = pending \ {c}
        /\ GOGO_PROCESS' = [GOGO_PROCESS EXCEPT ![c] = FALSE]
        /\ \A d \in Children \ {c} : cpc'[d] = cpc[d]
        /\ c \in Live
    BY <1>7 DEF c_interrupted, Delivered, parentVars, CGoto, CFails, Live, Dead, TypeInv, TypeOK,
                ChildTypeOK
  <2>2. Live' \subseteq Live /\ GivenUp' \subseteq GivenUp
    BY <2>1 DEF GivenUp, Live, Dead
  <2>3. \A d \in Live' : Told(d) => Told(d)'
    BY <1>0, <2>1, <2>2 DEF Told, TypeInv, TypeOK, SignalTypeOK, Procs
  <2> QED
    BY <2>1, <2>2, <2>3, OrphansKept DEF OrphanInv, TakingDown
<1>8. CASE EnvStep \/ UNCHANGED vars
  <2>1. UNCHANGED <<cpc, unreaped, ppc, pending, GOGO_PROCESS, late>>
    BY <1>8, EnvFrame DEF EnvFrameGoal, ServerVars, vars, parentVars, childVars, signalVars
  <2>2. GivenUp' = GivenUp /\ Live' = Live
    BY <2>1 DEF GivenUp, Live, Dead
  <2> QED
    BY <2>1, <2>2, OrphansKept DEF OrphanInv, TakingDown, Told
<1> QED
  BY <1>1, <1>2, <1>3, <1>4, <1>5, <1>6, <1>7, <1>8 DEF Next, SignalStep

\* However many children there are and whatever fails, when the parent closes its files it leaves
\* no more of them behind than it got signals while it took them down (the one that ended its loop
\* is not among these), and each of those left behind has its own signal or had it.
THEOREM OrphansNeedSignals == Spec => []OrphansOnlyBySignal
<1>1. OrphanInv /\ TypeInv => OrphansOnlyBySignal
  <2> SUFFICES ASSUME OrphanInv, TypeInv, ppc = "done"
               PROVE  Cardinality(Live) <= late /\ \A c \in Live : Told(c)
    BY DEF OrphansOnlyBySignal, Told
  <2>1. GivenUp = Live
    BY DEF OrphanInv, GivenUp
  <2>2. Cardinality(Live) \in Nat /\ late \in Int
    BY ChildSets DEF Live, TypeInv, TypeOK, SignalTypeOK
  <2> QED
    BY <2>1, <2>2 DEF OrphanInv, TakingDown
<1> QED
  BY <1>1, InitOrphanInv, OrphanStep, TypeInvariant, PTL DEF Spec
-----------------------------------------------------------------------------
(***************************************************************************)
(* Answers.  A client that is still there has been read from not at all,   *)
(* or as far as the child that has its connection says, or to the end of   *)
(* its one message.                                                        *)
(***************************************************************************)

\* What child c's progress says of connection k.
Account(c, k) ==
    /\ cpc[c] = "header" => taken[k] = 0
    /\ cpc[c] = "body" => taken[k] = bytes_read[c] + 1
    /\ cpc[c] = "pipewait" => taken[k] = Body + 1
    /\ cpc[c] \in {"pipewait", "logwait", "logging", "respond"} => bytes_read[c] = Body

\* A connection the parent watches, or will watch again, has been read whole or not at all.
WatchedWhole ==
    Sane => \A k \in Conns : ~Left(k) =>
        /\ k \in backlog \/ peer[k] = "none" => taken[k] = 0
        /\ \A p \in Slots : fd[p] > 0 /\ open[fd[p]] = k => taken[k] \in {0, Body + 1}
        /\ \A p \in Slots, i \in DOMAIN pipe : LentSlot(p, pipe[i], k) => taken[k] = Body + 1

\* One that was passed on is at the start of its message, or where its child is.
LentAccounted ==
    ~stdin_hup => \A k \in Conns : ~Left(k) =>
        /\ \A i \in DOMAIN domain : domain[i].conn = k => taken[k] = 0
        /\ \A c \in Children : client_fd_local[c] = k => Account(c, k)
        /\ reply[k] \in {NoReply, Body}

MessageInv == WatchedWhole /\ LentAccounted

LEMMA InitMessageInv == Init => MessageInv
<1> SUFFICES ASSUME Init PROVE MessageInv
  OBVIOUS
<1>1. /\ \A k \in Conns : taken[k] = 0 /\ reply[k] = NoReply
      /\ \A c \in Children : cpc[c] = "getwait"
      /\ DOMAIN domain = {} /\ DOMAIN pipe = {}
  BY DEF Init, InitKernel
<1> QED
  BY <1>1 DEF MessageInv, WatchedWhole, LentAccounted, Account

\* A step that receives and answers nothing, and after which no connection is watched or on its
\* way that was not.
LEMMA WatchedKept ==
    ASSUME WatchedWhole, UNCHANGED <<taken, peer>>, Sane' => Sane,
           Sane' => \A k \in Conns :
              /\ k \in backlog' => k \in backlog
              /\ \A p \in Slots : fd'[p] > 0 /\ open'[fd'[p]] = k =>
                    \E q \in Slots : fd[q] > 0 /\ open[fd[q]] = k
              /\ \A p \in Slots, i \in DOMAIN pipe' : LentSlot(p, pipe[i], k)' =>
                    \E j \in DOMAIN pipe : LentSlot(p, pipe[j], k)
    PROVE  WatchedWhole'
<1> SUFFICES ASSUME Sane', NEW k \in Conns, ~Left(k)'
             PROVE  /\ k \in backlog' \/ peer'[k] = "none" => taken'[k] = 0
                    /\ \A p \in Slots : fd'[p] > 0 /\ open'[fd'[p]] = k => taken'[k] \in {0, Body + 1}
                    /\ \A p \in Slots, i \in DOMAIN pipe' :
                          LentSlot(p, pipe[i], k)' => taken'[k] = Body + 1
  BY DEF WatchedWhole
<1>1. ~Left(k) /\ Sane
  BY DEF Left
<1> QED
  BY <1>1 DEF WatchedWhole

LEMMA LentKept ==
    ASSUME LentAccounted, UNCHANGED <<taken, reply, domain>>, stdin_hup => stdin_hup',
           \A k \in Conns : Left(k) => Left(k)',
           \A c \in Children, k \in Conns :
              client_fd_local'[c] = k /\ (client_fd_local[c] = k => Account(c, k)) => Account(c, k)'
    PROVE  LentAccounted'
BY DEF LentAccounted

\* A slot that is disabled is not one whose number is in the pipe.
LEMMA WatchedDisable ==
    ASSUME Invs, WatchedWhole, NEW p \in Slots, NeedsAction(p), Sane,
           UNCHANGED <<taken, peer, open, backlog, pipe>>, fd' = [fd EXCEPT ![p] = -fd[p]]
    PROVE  WatchedWhole'
<1>1. fd[p] > 0 /\ fd[p] \in Fds
  BY HandedConns DEF Sane
<1>2. ASSUME NEW k \in Conns, NEW q \in Slots, fd'[q] > 0, open'[fd'[q]] = k
      PROVE  fd[q] > 0 /\ open[fd[q]] = k
  BY <1>1, <1>2 DEF Invs, TypeInv, TypeOK, SlotTypeOK
<1>3. ASSUME NEW k \in Conns, NEW q \in Slots, NEW i \in DOMAIN pipe, LentSlot(q, pipe[i], k)'
      PROVE  LentSlot(q, pipe[i], k)
  <2>0. PICK g \in Fds : g = pipe[i]
    BY AtMostOne DEF Invs, BufInv, TypeInv, TypeOK, IpcTypeOK
  <2>1. PICK r \in Slots, l \in Conns : LentSlot(r, g, l)
    BY <2>0 DEF Invs, TokenInv, NoStaleToken
  <2>2. g > 0 /\ fd[r] = -g
    BY <2>1, FdsAssumption DEF LentSlot
  <2>3. r # p /\ fd[p] # g
    BY <1>1, <2>2, FdsAssumption DEF Invs, SlotInv
  <2>4. q # p
    BY <1>1, <1>3, <2>0, <2>3, FdsAssumption DEF LentSlot, Invs, TypeInv, TypeOK, SlotTypeOK
  <2> QED
    BY <1>3, <2>4 DEF LentSlot, Invs, TypeInv, TypeOK, SlotTypeOK
<1> QED
  BY <1>2, <1>3, WatchedKept

\* The parent accepts a connection nobody has read from, and enables one that was read whole.
LEMMA WatchedParent == Invs /\ MessageInv /\ ParentStep => WatchedWhole'
<1> SUFFICES ASSUME Invs, MessageInv, ParentStep, Sane' PROVE WatchedWhole'
  BY DEF WatchedWhole
<1> USE DEF MessageInv
<1>1. CASE p_accept_new_connection
  <2>1. PICK b \in backlog, p \in Slots, f \in Fds :
              /\ LowestFreeFd(f)
              /\ backlog' = backlog \ {b}
              /\ open' = [open EXCEPT ![f] = b]
              /\ fd' = [fd EXCEPT ![p] = f]
    BY <1>1 DEF p_accept_new_connection
  <2>2. UNCHANGED <<pipe, taken, peer>> /\ Sane
    BY <1>1 DEF p_accept_new_connection, pipeVars, clientVars, Sane
  <2>3. open[f] = NoConn /\ f > 0 /\ b \in Conns
    BY <2>1, <2>2, FdsAssumption, ConnsAssumption
       DEF LowestFreeFd, Invs, SlotInv, TypeInv, TypeOK, KernelTypeOK
  <2>4. ASSUME NEW q \in Slots, NEW k \in Conns, fd'[q] > 0, open'[fd'[q]] = k
        PROVE  k = b \/ (fd[q] > 0 /\ open[fd[q]] = k)
    <3>1. CASE q = p
      BY <2>1, <2>4, <3>1 DEF Invs, TypeInv, TypeOK, SlotTypeOK, KernelTypeOK
    <3>2. CASE q # p
      <4>1. fd'[q] = fd[q] /\ fd[q] \in Fds
        BY <2>1, <2>4, <3>2, FdsAssumption DEF Invs, TypeInv, TypeOK, SlotTypeOK
      <4> QED
        BY <2>1, <2>4, <4>1 DEF Invs, TypeInv, TypeOK, KernelTypeOK
    <3> QED
      BY <3>1, <3>2
  <2>5. ASSUME NEW q \in Slots, NEW k \in Conns, NEW i \in DOMAIN pipe, LentSlot(q, pipe[i], k)'
        PROVE  LentSlot(q, pipe[i], k)
    <3>0. PICK g \in Fds : g = pipe[i]
      BY AtMostOne DEF Invs, BufInv, TypeInv, TypeOK, IpcTypeOK
    <3>1. fd'[q] = -g /\ open'[g] = k /\ g > 0
      BY <2>2, <2>5, <3>0, FdsAssumption DEF LentSlot
    <3>2. q # p /\ fd[q] = -g
      BY <2>1, <2>3, <3>1, FdsAssumption DEF Invs, TypeInv, TypeOK, SlotTypeOK
    <3>3. open[g] \in Conns
      BY <2>2, <3>1, <3>2, FdsAssumption DEF Invs, SlotInv
    <3>4. g # f
      BY <2>3, <3>3, ConnsAssumption
    <3> QED
      BY <2>1, <3>0, <3>1, <3>2, <3>4 DEF LentSlot, Invs, TypeInv, TypeOK, KernelTypeOK
  <2>6. ASSUME NEW k \in Conns, ~Left(k)'
        PROVE  /\ k \in backlog' \/ peer'[k] = "none" => taken'[k] = 0
               /\ \A q \in Slots : fd'[q] > 0 /\ open'[fd'[q]] = k => taken'[k] \in {0, Body + 1}
               /\ \A q \in Slots, i \in DOMAIN pipe' :
                     LentSlot(q, pipe[i], k)' => taken'[k] = Body + 1
    <3>1. ~Left(k)
      BY <2>2, <2>6 DEF Left
    <3> QED
      BY <2>1, <2>2, <2>4, <2>5, <3>1 DEF WatchedWhole
  <2> QED
    BY <2>6 DEF WatchedWhole
<1>2. CASE p_read_pipe_reenable_fd
  <2> DEFINE h == Head(pipe)
  <2>1. /\ UNCHANGED <<taken, peer, open, backlog>> /\ Sane
        /\ pipe # <<>> /\ pipe' = Tail(pipe) /\ fd' = Enable(h)
    BY <1>2 DEF p_read_pipe_reenable_fd, PipeReady, kernelVars, clientVars, Sane
  <2>2. DOMAIN pipe' = {} /\ DOMAIN pipe = {1} /\ pipe[1] = h /\ h \in Fds
    BY <2>1, AtMostOne DEF Invs, BufInv, TypeInv, TypeOK, IpcTypeOK
  <2> HIDE DEF h
  <2>3. ASSUME NEW k \in Conns, ~Left(k), NEW p \in Slots, fd'[p] > 0, open'[fd'[p]] = k
        PROVE  taken[k] \in {0, Body + 1}
    <3>1. CASE fd[p] = -h
      <4>1. fd'[p] = h /\ LentSlot(p, h, k)
        BY <2>1, <2>2, <2>3, <3>1, FdsAssumption DEF Enable, LentSlot
      <4> QED
        BY <2>1, <2>2, <2>3, <4>1 DEF WatchedWhole
    <3>2. CASE fd[p] # -h
      BY <2>1, <2>3, <3>2 DEF Enable, WatchedWhole
    <3> QED
      BY <3>1, <3>2
  <2>4. \A k \in Conns : ~Left(k)' => ~Left(k)
    BY <2>1 DEF Left
  <2> QED
    BY <2>1, <2>2, <2>3, <2>4 DEF WatchedWhole
<1>3. ASSUME NEW p \in Slots, p_send_to_child(p) PROVE WatchedWhole'
  <2>1. /\ UNCHANGED <<taken, peer, open, backlog, pipe>> /\ Sane /\ NeedsAction(p)
        /\ fd' = [fd EXCEPT ![p] = -fd[p]]
    BY <1>3 DEF p_send_to_child, Current, Disable, kernelVars, clientVars, pipeVars, Sane
  <2> QED
    BY <2>1, WatchedDisable
<1>4. ASSUME NEW p \in Slots, p_remove_connection(p) PROVE WatchedWhole'
  <2>1. /\ UNCHANGED <<taken, peer, backlog, pipe>> /\ Sane /\ NeedsAction(p)
        /\ fd' = [fd EXCEPT ![p] = 0] /\ open' = [open EXCEPT ![fd[p]] = NoConn]
    BY <1>4 DEF p_remove_connection, Current, clientVars, pipeVars, Sane
  <2>2. fd[p] > 0 /\ fd[p] \in Fds
    BY <2>1, HandedConns DEF Sane
  <2>3. ASSUME NEW k \in Conns, NEW q \in Slots, fd'[q] > 0, open'[fd'[q]] = k
        PROVE  fd[q] > 0 /\ open[fd[q]] = k
    <3>1. fd'[q] = fd[q] /\ fd[q] \in Fds
      BY <2>1, <2>3, FdsAssumption DEF Invs, TypeInv, TypeOK, SlotTypeOK
    <3> QED
      BY <2>1, <2>2, <2>3, <3>1, ConnsAssumption DEF Invs, TypeInv, TypeOK, KernelTypeOK
  <2>4. ASSUME NEW k \in Conns, NEW q \in Slots, NEW i \in DOMAIN pipe, LentSlot(q, pipe[i], k)'
        PROVE  LentSlot(q, pipe[i], k)
    <3>0. PICK g \in Fds : g = pipe[i]
      BY AtMostOne DEF Invs, BufInv, TypeInv, TypeOK, IpcTypeOK
    <3>1. fd'[q] = -g /\ open'[g] = k /\ g > 0
      BY <2>1, <2>4, <3>0, FdsAssumption DEF LentSlot
    <3>2. fd[q] = -g
      BY <2>1, <3>1, FdsAssumption DEF Invs, TypeInv, TypeOK, SlotTypeOK
    <3>3. open[g] = k
      BY <2>1, <2>2, <3>1, ConnsAssumption DEF Invs, TypeInv, TypeOK, KernelTypeOK
    <3> QED
      BY <3>0, <3>1, <3>2, <3>3 DEF LentSlot
  <2> QED
    BY <2>1, <2>3, <2>4, WatchedKept
<1>5. CASE \/ p_accept_fails \/ p_poll_sockets \/ p_scan_done \/ p_signal_children
           \/ (\E c \in Children : p_waitpid(c))
           \/ (\E p \in Slots : p_send_fails(p) \/ p_send_sigpipe(p))
  <2>1. UNCHANGED <<taken, peer, open, backlog, fd, pipe>> /\ Sane
    BY <1>5 DEF p_accept_fails, p_poll_sockets, p_scan_done, p_signal_children, p_waitpid,
                p_send_fails, p_send_sigpipe, kernelVars, clientVars, slotVars, pipeVars, Sane
  <2> QED
    BY <2>1, WatchedKept DEF LentSlot
<1>6. CASE p_close_files
  BY <1>6 DEF p_close_files, Sane
<1> QED
  BY <1>1, <1>2, <1>3, <1>4, <1>5, <1>6 DEF ParentStep

\* The connection a child receives from is neither watched nor named in the pipe.
LEMMA WatchedChild ==
    ASSUME Invs, MessageInv, NEW c \in Children, ChildStep(c) PROVE WatchedWhole'
<1> SUFFICES ASSUME Sane' PROVE WatchedWhole'
  BY DEF WatchedWhole
<1> USE DEF MessageInv
<1>0. /\ UNCHANGED <<fd, open, backlog>> /\ Sane
      /\ \A k \in Conns : peer'[k] = "none" <=> peer[k] = "none"
      /\ \A k \in Conns : ~Left(k)' => ~Left(k)
      /\ \A p \in Slots : \A f, k : LentSlot(p, f, k)' <=> LentSlot(p, f, k)
  BY ChildFrame DEF Invs, ChildFrameGoal, parentVars, slotVars, kernelVars, Sane, LentSlot
<1>1. CASE c_get_message_length(c) \/ c_recv_body(c)
  <2>1. PICK k \in Conns : k = client_fd_local[c] /\ Holding(c)
    BY <1>1, HandedConns DEF c_get_message_length, c_recv_body, Holding
  <2>2. UNCHANGED pipe /\ \A l \in Conns \ {k} : taken'[l] = taken[l]
    BY <1>1, <2>1 DEF c_get_message_length, c_recv_body, pipeVars, Invs, TypeInv, TypeOK, ClientTypeOK
  <2>3. PICK q \in Slots, f \in Fds : f = client_fd_parent[c] /\ LentSlot(q, f, k)
    BY <1>0, <2>1 DEF Invs, TokenInv, NoStaleToken, TypeInv, TypeOK, ChildTypeOK
  <2>4. f > 0 /\ fd[q] = -f /\ open[f] = k
    BY <2>3, FdsAssumption DEF LentSlot
  <2>5. k \notin backlog /\ peer[k] # "none"
    BY <1>0, <2>4 DEF Invs, SlotInv
  <2>6. ASSUME NEW p \in Slots, fd[p] > 0 PROVE open[fd[p]] # k
    <3>1. fd[p] \in Fds /\ p # q
      BY <2>4, <2>6, FdsAssumption DEF Invs, TypeInv, TypeOK, SlotTypeOK
    <3>2. fd[p] # f
      BY <1>0, <2>4, <2>6, <3>1, FdsAssumption DEF Invs, SlotInv
    <3> QED
      BY <1>0, <2>4, <3>1, <3>2 DEF Invs, SlotInv
  <2>7. ASSUME NEW p \in Slots, NEW i \in DOMAIN pipe PROVE ~LentSlot(p, pipe[i], k)
    <3>1. pipe[i] \in Fds
      BY AtMostOne DEF Invs, BufInv, TypeInv, TypeOK, IpcTypeOK
    <3>2. pipe[i] # f
      BY <1>0, <2>1, <2>3 DEF Invs, TokenInv, NoStaleToken
    <3> QED
      BY <1>0, <2>4, <3>1, <3>2 DEF LentSlot, Invs, SlotInv
  <2> QED
    BY <1>0, <2>2, <2>5, <2>6, <2>7 DEF WatchedWhole
<1>2. CASE c_inform_parent_recv_finished(c) /\ ~ParentGone
  <2> DEFINE f == client_fd_parent[c]
  <2>1. /\ UNCHANGED taken /\ pipe' = Append(pipe, f) /\ Holding(c) /\ cpc[c] = "pipewait"
        /\ Len(pipe) = 0 /\ f \in Fds /\ client_fd_local[c] \in Conns
    BY <1>2 DEF c_inform_parent_recv_finished, FinishedFd, clientVars, Holding, Invs, BufInv,
                TypeInv, TypeOK, ChildTypeOK, IpcTypeOK, WorkInv, Busy
  <2>2. DOMAIN pipe' = {1} /\ pipe'[1] = f
    BY <2>1, AtMostOne DEF Invs, TypeInv, TypeOK, IpcTypeOK
  <2>3. \E q \in Slots : LentSlot(q, f, client_fd_local[c])
    BY <1>0, <2>1 DEF Invs, TokenInv, NoStaleToken
  <2> HIDE DEF f
  <2>4. ASSUME NEW k \in Conns, ~Left(k), NEW p \in Slots, LentSlot(p, f, k)
        PROVE  taken[k] = Body + 1
    <3>1. k = client_fd_local[c]
      BY <2>3, <2>4 DEF LentSlot
    <3> QED
      BY <1>0, <2>1, <2>4, <3>1 DEF LentAccounted, Account, Sane
  <2> QED
    BY <1>0, <2>1, <2>2, <2>4 DEF WatchedWhole
<1>3. CASE \/ c_inform_parent_recv_finished(c) /\ ParentGone
           \/ c_get_file_description_from_domain_socket(c)
           \/ c_log_wait(c) \/ c_log_write(c) \/ c_respond(c)
  <2>1. UNCHANGED <<pipe, taken>>
    BY <1>3 DEF c_inform_parent_recv_finished, c_get_file_description_from_domain_socket, c_log_wait,
                c_log_write, c_respond, pipeVars, clientVars
  <2> QED
    BY <1>0, <2>1 DEF WatchedWhole
<1> QED
  BY <1>1, <1>2, <1>3 DEF ChildStep

\* What the parent passes on is at the start of its message: it has data, or its client has gone.
LEMMA LentParent == Invs /\ ReadyInv /\ MessageInv /\ ParentStep => LentAccounted'
<1> SUFFICES ASSUME Invs, ReadyInv, MessageInv, ParentStep PROVE LentAccounted'
  OBVIOUS
<1> USE DEF MessageInv
<1>1. ASSUME NEW p \in Slots, p_send_to_child(p) PROVE LentAccounted'
  <2>1. PICK k \in Conns : k = open[fd[p]]
    BY <1>1 DEF p_send_to_child
  <2>2. /\ UNCHANGED <<stdin_hup, peer, taken, reply, cpc, client_fd_local, bytes_read>>
        /\ revents[p] = "in" /\ Current(p) /\ domain_sem_write > 0 /\ ppc = "scan"
        /\ domain' = Append(domain, [fd |-> fd[p], conn |-> k])
    BY <1>1, <2>1 DEF p_send_to_child, DomainFree, kernelVars, clientVars, childVars
  <2>3. fd[p] \in Fds
    BY <2>2 DEF Invs, TypeInv, ScanInv, Current
  <2>4. DOMAIN domain' = {1} /\ domain'[1].conn = k
    <3>1. domain \in Seq([fd : Fds, conn : Conns]) /\ Len(domain) = 0
      BY <2>2 DEF Invs, BufInv, TypeInv, TypeOK, IpcTypeOK
    <3>2. [fd |-> fd[p], conn |-> k] \in [fd : Fds, conn : Conns]
      BY <2>3
    <3> QED
      BY <2>2, <3>1, <3>2, AtMostOne
  <2>5. ASSUME ~stdin_hup, ~Left(k) PROVE taken[k] = 0
    <3>1. HasData(k)
      BY <2>1, <2>2, <2>5 DEF ReadyInv, Ready
    <3>2. Sane /\ fd[p] > 0
      BY <2>2, <2>5, HandedConns DEF Current
    <3>3. taken[k] \in {0, Body + 1}
      BY <2>1, <2>5, <3>2 DEF WatchedWhole
    <3> QED
      BY <3>1, <3>3, BodyAssumption DEF HasData, Invs, TypeInv, TypeOK, ClientTypeOK
  <2> QED
    BY <2>2, <2>4, <2>5 DEF LentAccounted, Account, Left
<1>2. CASE ~ \E p \in Slots : p_send_to_child(p)
  <2>1. UNCHANGED <<stdin_hup, peer, taken, reply, domain, cpc, client_fd_local, bytes_read>>
    BY <1>2 DEF ParentStep, p_accept_new_connection, p_accept_fails, p_read_pipe_reenable_fd,
                p_poll_sockets, p_send_fails, p_send_sigpipe, p_remove_connection, p_scan_done,
                p_signal_children, p_waitpid, p_close_files, kernelVars, clientVars, childVars,
                domainVars
  <2> QED
    BY <2>1, LentKept DEF Account, Left
<1> QED
  BY <1>1, <1>2

\* A child counts what it receives, goes on when it has the whole message, and answers the count.
LEMMA LentChild ==
    ASSUME Invs, MessageInv, NEW c \in Children, ChildStep(c) PROVE LentAccounted'
<1> SUFFICES ASSUME ~stdin_hup', NEW k \in Conns, ~Left(k)'
             PROVE  /\ \A i \in DOMAIN domain' : domain'[i].conn = k => taken'[k] = 0
                    /\ \A d \in Children : client_fd_local'[d] = k => Account(d, k)'
                    /\ reply'[k] \in {NoReply, Body}
  BY DEF LentAccounted
<1>0. /\ ~stdin_hup /\ ~Left(k)
      /\ \A d \in Children \ {c} : cpc'[d] = cpc[d] /\ client_fd_local'[d] = client_fd_local[d]
  BY ChildFrame DEF Invs, ChildFrameGoal, kernelVars
<1>a. /\ \A i \in DOMAIN domain : domain[i].conn = k => taken[k] = 0
      /\ \A d \in Children : client_fd_local[d] = k => Account(d, k)
      /\ reply[k] \in {NoReply, Body}
  BY <1>0 DEF MessageInv, LentAccounted
<1> USE DEF Invs, TypeInv, TypeOK, ChildTypeOK
<1>1. CASE c_get_file_description_from_domain_socket(c)
  <2>1. /\ UNCHANGED <<taken, reply>> /\ domain # <<>> /\ domain' = Tail(domain)
        /\ client_fd_local'[c] = Head(domain).conn
        /\ cpc'[c] \in {"header", "exited"}
        /\ \A d \in Children \ {c} : bytes_read'[d] = bytes_read[d]
    BY <1>1 DEF c_get_file_description_from_domain_socket, CGoto, CFails, clientVars
  <2>2. DOMAIN domain' = {} /\ DOMAIN domain = {1} /\ domain[1] = Head(domain)
    BY <2>1, AtMostOne DEF BufInv, IpcTypeOK
  <2>3. client_fd_local'[c] = k => Account(c, k)'
    BY <1>a, <2>1, <2>2 DEF Account
  <2>4. \A d \in Children \ {c} : client_fd_local'[d] = k => Account(d, k)'
    BY <1>0, <1>a, <2>1 DEF Account
  <2> QED
    BY <1>a, <2>1, <2>2, <2>3, <2>4
<1>2. CASE c_get_message_length(c) \/ c_recv_body(c)
  <2>1. client_fd_local[c] \in Conns /\ Holding(c) /\ cpc[c] \in {"header", "body"}
    BY <1>2, HandedConns DEF c_get_message_length, c_recv_body, Holding
  <2>2. /\ UNCHANGED <<domain, client_fd_local, reply>>
        /\ \A l \in Conns : l # client_fd_local[c] => taken'[l] = taken[l]
        /\ \A d \in Children \ {c} : bytes_read'[d] = bytes_read[d]
    BY <1>2, <2>1 DEF c_get_message_length, c_recv_body, domainVars, ClientTypeOK
  <2>3. CASE client_fd_local[c] # k
    BY <1>0, <1>a, <2>2, <2>3 DEF Account
  <2>4. CASE client_fd_local[c] = k
    <3>1. /\ \A i \in DOMAIN domain : domain[i].conn # k
          /\ \A d \in Children \ {c} : client_fd_local[d] = k => ~Holding(d)
      BY <1>0, <2>1, <2>4 DEF TokenInv, ReadInv
    <3>2. \A d \in Children \ {c} : client_fd_local[d] = k => Account(d, k)'
      BY <1>0, <1>a, <2>2, <3>1 DEF Account, Holding
    <3>3. ~AtEof(k)
      BY <1>0 DEF AtEof, Left
    <3>4. Account(c, k)
      BY <1>a, <2>4
    <3>5. /\ taken[k] \in Nat /\ Body \in Nat /\ bytes_read[c] \in Nat
          /\ cpc[c] = "header" => bytes_read[c] = 0
          /\ cpc[c] = "body" => bytes_read[c] < Body
      BY BodyAssumption DEF ClientTypeOK, WorkInv
    <3> HIDE DEF Invs, TypeInv, TypeOK, ChildTypeOK
    <3>6. ASSUME c_get_message_length(c) PROVE Account(c, k)'
      <4>1. \/ cpc'[c] = "exited"
            \/ taken'[k] = taken[k] + 1 /\ cpc'[c] = "body" /\ bytes_read'[c] = bytes_read[c]
        BY <2>4, <3>3, <3>6 DEF c_get_message_length, CGoto, CFails, ClientTypeOK, Invs, TypeInv,
           TypeOK, ChildTypeOK
      <4>2. cpc[c] = "header"
        BY <3>6 DEF c_get_message_length
      <4> QED
        BY <3>4, <3>5, <4>1, <4>2 DEF Account
    <3>7. ASSUME c_recv_body(c) PROVE Account(c, k)'
      <4>1. \/ cpc'[c] = "exited"
            \/ /\ taken'[k] = taken[k] + 1 /\ bytes_read'[c] = bytes_read[c] + 1
               /\ cpc'[c] = IF bytes_read[c] + 1 >= Body THEN "pipewait" ELSE "body"
        BY <2>4, <3>3, <3>7 DEF c_recv_body, CGoto, CFails, BodyDone, ClientTypeOK, Invs, TypeInv,
           TypeOK, ChildTypeOK
      <4>2. cpc[c] = "body"
        BY <3>7 DEF c_recv_body
      <4> QED
        BY <3>4, <3>5, <4>1, <4>2 DEF Account
    <3>8. Account(c, k)'
      BY <1>2, <3>6, <3>7
    <3> QED
      BY <1>a, <2>2, <3>1, <3>2, <3>8
  <2> QED
    BY <2>3, <2>4
<1>3. CASE c_inform_parent_recv_finished(c) \/ c_log_wait(c) \/ c_log_write(c) \/ c_respond(c)
  <2>1. /\ UNCHANGED <<domain, client_fd_local, taken, bytes_read>>
        /\ \/ cpc[c] = "pipewait" /\ cpc'[c] \in {"logwait", "killed"}
           \/ cpc[c] = "logwait" /\ cpc'[c] = "logging"
           \/ cpc[c] = "logging" /\ cpc'[c] = "respond"
           \/ cpc[c] = "respond" /\ cpc'[c] \in {"getwait", "exited", "killed"}
    BY <1>3 DEF c_inform_parent_recv_finished, c_log_wait, c_log_write, c_respond, CGoto, CFails,
                CLoopTest, domainVars, clientVars
  <2>2. \A d \in Children : client_fd_local'[d] = k => Account(d, k)'
    BY <1>0, <1>a, <2>1 DEF Account
  <2>3. reply'[k] \in {NoReply, Body}
    <3>1. CASE c_respond(c)
      <4>1. UNCHANGED reply \/ reply' = [reply EXCEPT ![client_fd_local[c]] = bytes_read[c]]
        BY <3>1 DEF c_respond, Answer
      <4>2. client_fd_local[c] = k => bytes_read[c] = Body
        BY <1>a, <3>1 DEF c_respond, Account
      <4> QED
        BY <1>a, <4>1, <4>2 DEF ClientTypeOK
    <3>2. CASE ~c_respond(c)
      BY <1>3, <1>a, <3>2 DEF c_inform_parent_recv_finished, c_log_wait, c_log_write, clientVars
    <3> QED
      BY <3>1, <3>2
  <2> QED
    BY <1>a, <2>1, <2>2, <2>3
<1> QED
  BY <1>1, <1>2, <1>3 DEF ChildStep

LEMMA MessageStep == HandshakeInv /\ MessageInv /\ [Next]_vars => MessageInv'
<1> SUFFICES ASSUME Invs, ReadyInv, MessageInv, [Next]_vars PROVE MessageInv'
  BY DEF HandshakeInv
<1>1. CASE ParentStep
  BY <1>1, WatchedParent, LentParent DEF MessageInv
<1>2. ASSUME NEW c \in Children, ChildStep(c) PROVE MessageInv'
  BY <1>2, WatchedChild, LentChild DEF MessageInv
<1>3. ASSUME UNCHANGED <<taken, peer, reply, open, backlog, fd, pipe, domain, stdin_hup>>,
             Sane' => Sane,
             \A c \in Children, k \in Conns :
                client_fd_local'[c] = k /\ (client_fd_local[c] = k => Account(c, k))
                => Account(c, k)'
      PROVE  MessageInv'
  <2>1. WatchedWhole'
    BY <1>3, WatchedKept DEF MessageInv, LentSlot
  <2>2. LentAccounted'
    BY <1>3, LentKept DEF MessageInv, Left
  <2> QED
    BY <2>1, <2>2 DEF MessageInv
<1>4. CASE \/ SendSignal \/ (\E x \in Procs : end_gogo_handler(x)) \/ UNCHANGED vars
  BY <1>3, <1>4 DEF SendSignal, end_gogo_handler, vars, parentVars, slotVars, childVars, domainVars,
        pipeVars, kernelVars, clientVars, Sane, Account
<1>5. CASE p_interrupted
  <2>1. LentAccounted'
    BY <1>5, LentKept DEF p_interrupted, childVars, domainVars, kernelVars, clientVars, MessageInv,
          Left, Account
  <2>2. /\ UNCHANGED <<taken, peer, open, backlog, pipe, stdin_hup>> /\ (Sane' => Sane)
        /\ \/ UNCHANGED fd
           \/ \E p \in Slots : NeedsAction(p) /\ fd' = [fd EXCEPT ![p] = -fd[p]]
    BY <1>5 DEF p_interrupted, Current, Disable, pipeVars, kernelVars, clientVars, Sane
  <2>3. WatchedWhole'
    <3>1. CASE UNCHANGED fd
      BY <2>2, <3>1, WatchedKept DEF MessageInv, LentSlot
    <3>2. CASE ~Sane
      BY <2>2, <3>2 DEF WatchedWhole
    <3>3. ASSUME Sane, NEW p \in Slots, NeedsAction(p), fd' = [fd EXCEPT ![p] = -fd[p]]
          PROVE  WatchedWhole'
      BY <2>2, <3>3, WatchedDisable DEF MessageInv
    <3> QED
      BY <2>2, <3>1, <3>2, <3>3
  <2> QED
    BY <2>1, <2>3 DEF MessageInv
<1>6. ASSUME NEW c \in Children, c_interrupted(c) PROVE MessageInv'
  <2>1. /\ UNCHANGED <<client_fd_local, bytes_read, taken>>
        /\ \A d \in Children \ {c} : cpc'[d] = cpc[d]
        /\ \/ cpc[c] = "pipewait" /\ cpc'[c] = "logwait"
           \/ cpc[c] = "logwait" /\ cpc'[c] = "respond"
           \/ cpc'[c] = "exited"
    BY <1>6 DEF c_interrupted, CGoto, CFails, clientVars, Invs, TypeInv, TypeOK, ChildTypeOK
  <2>2. ASSUME NEW d \in Children, NEW k \in Conns, client_fd_local[d] = k => Account(d, k),
               client_fd_local'[d] = k
        PROVE  Account(d, k)'
    BY <2>1, <2>2 DEF Account
  <2> QED
    BY <1>3, <1>6, <2>2 DEF c_interrupted, parentVars, slotVars, domainVars, pipeVars, kernelVars,
          clientVars, Sane
<1>7. CASE EnvStep
  <2>1. /\ UNCHANGED <<taken, open, fd, pipe, domain, cpc, client_fd_local, bytes_read, ppc>>
        /\ (Sane' => Sane) /\ (stdin_hup => stdin_hup')
        /\ \A k \in Conns : Left(k) => Left(k)'
        /\ \A k \in Conns : peer'[k] = "none" => peer[k] = "none"
        /\ \A k \in Conns : k \in backlog' => k \in backlog \/ peer[k] = "none"
    BY <1>7, EnvFrame DEF Invs, EnvFrameGoal, ServerVars, parentVars, slotVars, childVars,
          domainVars, pipeVars, Sane
  <2>2. UNCHANGED reply
    BY <1>7 DEF EnvStep, ClientMoves, RstArrives, ClientStep, ClientConnect, ClientWrite, ClientClose,
          ClientAbort, ClientReset, DeliverRst, StdinHangup, clientVars
  <2>3. LentAccounted'
    BY <2>1, <2>2, LentKept DEF MessageInv, Account
  <2>4. WatchedWhole'
    BY <2>1 DEF MessageInv, WatchedWhole, LentSlot
  <2> QED
    BY <2>3, <2>4 DEF MessageInv
<1> QED
  BY <1>1, <1>2, <1>4, <1>5, <1>6, <1>7 DEF Next, SignalStep

\* A client that is still there is never answered with the length of part of its message: a
\* descriptor is only handed on with its message unread, and enabled again with it read to the end.
THEOREM RepliesWhole == Spec => []ReplyOnlyWhole
<1>1. MessageInv => ReplyOnlyWhole
  BY DEF MessageInv, LentAccounted, ReplyOnlyWhole, Left
<1> QED
  BY <1>1, InitMessageInv, MessageStep, HandshakeInvariant, PTL DEF Spec
-----------------------------------------------------------------------------
(***************************************************************************)
(* Clients that are there.  On macOS a connection that its client has      *)
(* closed is POLLHUP and is removed, so that clients which close only when *)
(* they have been answered are all there to read the answer.               *)
(***************************************************************************)

\* On macOS, with no client that goes away before it is answered.
Polite == Platform = "macos" /\ "abort" \notin Faults /\ "reset" \notin Faults

Waits(k) == peer[k] = "open" /\ reply[k] = NoReply
AfterReceive(c) == cpc[c] \in {"logwait", "logging", "respond"}

ClientsInv ==
    \A k \in Conns :
        /\ peer[k] = "none" \/ Waits(k) \/ (peer[k] \in {"open", "fin"} /\ reply[k] # NoReply)
        /\ taken[k] <= Body => reply[k] = NoReply

\* Whoever's connection is about to be passed on, has been, or is at a child is waiting, and is at
\* one child: between two messages nobody has a connection, and each has one message.
HandedInv ==
    /\ \A p \in Slots : revents[p] = "in" => Waits(open[fd[p]])
    /\ \A i \in DOMAIN domain : Waits(domain[i].conn) /\ taken[domain[i].conn] = 0
    /\ \A c \in Children : Busy(c) => Waits(client_fd_local[c])
    /\ \A c \in Children : AfterReceive(c) => taken[client_fd_local[c]] = Body + 1
    /\ \A c, d \in Children :
          c # d /\ Busy(c) /\ Busy(d) => client_fd_local[c] # client_fd_local[d]

PresentInv == ~stdin_hup => ClientsInv /\ HandedInv

\* A step in which nobody sends, receives or answers, and nothing is passed on.
LEMMA PresentKept ==
    ASSUME PresentInv, UNCHANGED <<taken, reply, peer, domain, client_fd_local>>,
           stdin_hup => stdin_hup',
           ~stdin_hup => \A p \in Slots : revents'[p] = "in" =>
              revents[p] = "in" /\ open'[fd'[p]] = open[fd[p]],
           ~stdin_hup => \A c \in Children :
              /\ Busy(c)' => Busy(c)
              /\ AfterReceive(c)' => AfterReceive(c) \/ taken[client_fd_local[c]] = Body + 1
    PROVE  PresentInv'
<1> SUFFICES ASSUME ~stdin_hup' PROVE (ClientsInv /\ HandedInv)'
  BY DEF PresentInv
<1>1. ~stdin_hup /\ ClientsInv /\ HandedInv
  BY DEF PresentInv
<1>2. ClientsInv'
  BY <1>1 DEF ClientsInv, Waits
<1>3. HandedInv'
  BY <1>1 DEF HandedInv, Waits
<1> QED
  BY <1>2, <1>3

\* poll() says POLLIN of a client that has sent something, and is waiting.
LEMMA PresentPolled ==
    ASSUME Polite, Invs, PresentInv, ~stdin_hup, p_poll_sockets, NEW p \in Slots, revents'[p] = "in"
    PROVE  Waits(open[fd[p]])
<1> DEFINE k == open[fd[p]]
<1>1. PollOf(fd[p], events[p]) = "in" /\ Sane
  BY DEF p_poll_sockets, PollEvents, Sane
<1>2. fd[p] >= 0 /\ fd[p] \in Fds
  BY <1>1, FdsAssumption DEF PollOf, Invs, TypeInv, TypeOK, SlotTypeOK
<1>3. k \in Conns /\ ~HungUp(k) /\ Readable(k)
  BY <1>1, <1>2 DEF PollOf, Invs, TypeInv, TypeOK, KernelTypeOK
<1>4. peer[k] # "none"
  BY <1>1, <1>2, <1>3 DEF Invs, SlotInv
<1> HIDE DEF k
<1>5. peer[k] = "open" /\ HasData(k)
  BY <1>3, <1>4 DEF Polite, HungUp, Readable, IsReset, PresentInv, ClientsInv, Waits
<1>6. taken[k] <= Body
  BY <1>3, <1>5, BodyAssumption DEF HasData, Invs, TypeInv, TypeOK, ClientTypeOK
<1> QED
  BY <1>3, <1>5, <1>6 DEF PresentInv, ClientsInv, Waits, k

LEMMA PresentParent ==
    ASSUME Polite, Invs, ReadyInv, MessageInv, PresentInv, ParentStep PROVE PresentInv'
<1>1. CASE p_poll_sockets
  <2> SUFFICES ASSUME ~stdin_hup' PROVE (ClientsInv /\ HandedInv)'
    BY DEF PresentInv
  <2>1. UNCHANGED <<taken, reply, peer, domain, cpc, client_fd_local, fd, open, stdin_hup>>
    BY <1>1 DEF p_poll_sockets, domainVars, kernelVars, clientVars, childVars, slotVars
  <2>2. \A p \in Slots : revents'[p] = "in" => Waits(open[fd[p]])
    BY <1>1, <2>1, PresentPolled
  <2> QED
    BY <2>1, <2>2 DEF PresentInv, ClientsInv, HandedInv, Waits, Busy, AfterReceive
<1>2. ASSUME NEW p \in Slots, p_send_to_child(p) PROVE PresentInv'
  <2> SUFFICES ASSUME ~stdin_hup' PROVE (ClientsInv /\ HandedInv)'
    BY DEF PresentInv
  <2>1. PICK k \in Conns : k = open[fd[p]]
    BY <1>2 DEF p_send_to_child
  <2>2. /\ UNCHANGED <<stdin_hup, peer, wrote, taken, reply, cpc, client_fd_local, open>>
        /\ revents[p] = "in" /\ Current(p) /\ domain_sem_write > 0 /\ ppc = "scan"
        /\ domain' = Append(domain, [fd |-> fd[p], conn |-> k])
        /\ fd' = [fd EXCEPT ![p] = -fd[p]] /\ revents' = [revents EXCEPT ![p] = "none"]
    BY <1>2, <2>1 DEF p_send_to_child, DomainFree, Disable, kernelVars, clientVars, childVars
  <2>3. Sane /\ fd[p] \in Fds /\ fd[p] > 0
    BY <2>2, HandedConns DEF Current
  <2>4. DOMAIN domain' = {1} /\ domain'[1].conn = k
    <3>1. domain \in Seq([fd : Fds, conn : Conns]) /\ Len(domain) = 0
      BY <2>2 DEF Invs, BufInv, TypeInv, TypeOK, IpcTypeOK
    <3>2. [fd |-> fd[p], conn |-> k] \in [fd : Fds, conn : Conns]
      BY <2>3
    <3> QED
      BY <2>2, <3>1, <3>2, AtMostOne
  <2>5. ClientsInv /\ HandedInv
    BY <2>2 DEF PresentInv
  <2>6. Waits(k)
    BY <2>1, <2>2, <2>5 DEF HandedInv
  <2>7. taken[k] = 0
    <3>1. ~Left(k)
      BY <2>6 DEF Left, Waits
    <3>2. HasData(k)
      BY <2>1, <2>2, <3>1 DEF ReadyInv, Ready
    <3>3. taken[k] \in {0, Body + 1}
      BY <2>1, <2>3, <3>1 DEF MessageInv, WatchedWhole
    <3> QED
      BY <3>2, <3>3, BodyAssumption DEF HasData, Invs, TypeInv, TypeOK, ClientTypeOK
  <2>8. ASSUME NEW q \in Slots, revents'[q] = "in"
        PROVE  revents[q] = "in" /\ open'[fd'[q]] = open[fd[q]]
    BY <2>2, <2>8 DEF Invs, TypeInv, TypeOK, ParentTypeOK, SlotTypeOK
  <2>9. ClientsInv'
    BY <2>2, <2>5 DEF ClientsInv, Waits
  <2>10. HandedInv'
    BY <2>2, <2>4, <2>5, <2>6, <2>7, <2>8 DEF HandedInv, Waits, Busy, AfterReceive
  <2> QED
    BY <2>9, <2>10
<1>3. ASSUME NEW p \in Slots, p_remove_connection(p) PROVE PresentInv'
  <2>1. /\ UNCHANGED <<stdin_hup, peer, taken, reply, cpc, client_fd_local, domain>> /\ Current(p)
        /\ fd' = [fd EXCEPT ![p] = 0] /\ revents' = [revents EXCEPT ![p] = "none"]
        /\ open' = [open EXCEPT ![fd[p]] = NoConn]
    BY <1>3 DEF p_remove_connection, clientVars, childVars, domainVars
  <2>2. ASSUME ~stdin_hup, NEW q \in Slots, revents'[q] = "in"
        PROVE  revents[q] = "in" /\ open'[fd'[q]] = open[fd[q]]
    <3>1. q # p /\ revents[q] = "in" /\ fd'[q] = fd[q]
      BY <2>1, <2>2 DEF Invs, TypeInv, TypeOK, ParentTypeOK, SlotTypeOK
    <3>2. Sane /\ fd[p] > 0 /\ fd[q] > 0 /\ fd[q] \in Fds
      BY <2>1, <2>2, <3>1, HandedConns DEF Current, NeedsAction
    <3>3. fd[q] # fd[p]
      BY <3>1, <3>2, FdsAssumption DEF Invs, SlotInv
    <3> QED
      BY <2>1, <3>1, <3>2, <3>3 DEF Invs, TypeInv, TypeOK, KernelTypeOK
  <2> QED
    BY <2>1, <2>2, PresentKept DEF Busy, AfterReceive
<1>4. CASE \/ p_accept_new_connection \/ p_accept_fails \/ p_read_pipe_reenable_fd \/ p_scan_done
           \/ p_signal_children \/ (\E c \in Children : p_waitpid(c)) \/ p_close_files
           \/ (\E p \in Slots : p_send_fails(p) \/ p_send_sigpipe(p))
  <2>1. UNCHANGED <<stdin_hup, peer, taken, reply, cpc, client_fd_local, domain>>
    BY <1>4 DEF p_accept_new_connection, p_accept_fails, p_read_pipe_reenable_fd, p_scan_done,
           p_signal_children, p_waitpid, p_close_files, p_send_fails, p_send_sigpipe,
           kernelVars, clientVars, childVars, domainVars
  <2>2. \A q \in Slots : revents'[q] # "in"
    BY <1>4 DEF p_accept_new_connection, p_accept_fails, p_read_pipe_reenable_fd, p_scan_done,
           p_signal_children, p_waitpid, p_close_files, p_send_fails, p_send_sigpipe, NoRevents,
           Invs, TypeInv, ScanInv
  <2> QED
    BY <2>1, <2>2, PresentKept DEF Busy, AfterReceive
<1> QED
  BY <1>1, <1>2, <1>3, <1>4 DEF ParentStep

LEMMA PresentChild ==
    ASSUME Polite, Invs, ReadyInv, MessageInv, PresentInv, NEW c \in Children, ChildStep(c)
    PROVE  PresentInv'
<1> DEFINE k == client_fd_local[c]
<1>0. /\ UNCHANGED <<revents, fd, open, stdin_hup>>
      /\ \A d \in Children \ {c} : cpc'[d] = cpc[d] /\ client_fd_local'[d] = client_fd_local[d]
      /\ cpc \in [Children -> {"getwait", "header", "body", "pipewait", "logwait", "logging",
                               "respond", "exited", "killed"}]
      /\ taken \in [Conns -> 0 .. Body + 1] /\ reply \in [Conns -> {NoReply} \cup 0 .. Body]
      /\ Body \in Nat \ {0} /\ \A d \in Children : Busy(d) => client_fd_local[d] \in Conns
  BY ChildFrame, BodyAssumption
  DEF Invs, ChildFrameGoal, parentVars, slotVars, kernelVars, TypeInv, TypeOK, ChildTypeOK,
      ClientTypeOK, WorkInv
<1> SUFFICES ASSUME ~stdin_hup PROVE (ClientsInv /\ HandedInv)'
  BY <1>0 DEF PresentInv
<1>a. ClientsInv /\ HandedInv
  BY DEF PresentInv
<1>1. CASE c_get_file_description_from_domain_socket(c)
  <2>1. /\ UNCHANGED <<taken, reply, peer>> /\ domain # <<>> /\ domain' = Tail(domain)
        /\ client_fd_local' = [client_fd_local EXCEPT ![c] = Head(domain).conn]
        /\ cpc'[c] \in {"header", "exited"}
    BY <1>0, <1>1 DEF c_get_file_description_from_domain_socket, CGoto, CFails, clientVars
  <2>2. DOMAIN domain' = {} /\ DOMAIN domain = {1} /\ domain[1] = Head(domain)
    BY <2>1, AtMostOne DEF Invs, BufInv, TypeInv, TypeOK, IpcTypeOK
  <2>3. client_fd_local'[c] = domain[1].conn
    BY <2>1, <2>2 DEF Invs, TypeInv, TypeOK, ChildTypeOK
  <2>4. Waits(domain[1].conn) /\ taken[domain[1].conn] = 0
    BY <1>a, <2>2 DEF HandedInv
  <2>5. ASSUME NEW d \in Children \ {c}, Busy(d) PROVE client_fd_local[d] # domain[1].conn
    <3>1. CASE Holding(d)
      BY <2>2, <3>1 DEF Invs, TokenInv, ReadInv
    <3>2. CASE AfterReceive(d)
      BY <1>0, <1>a, <2>4, <3>2 DEF HandedInv
    <3> QED
      BY <2>5, <3>1, <3>2 DEF Busy, Holding, AfterReceive
  <2>6. ClientsInv'
    BY <1>a, <2>1 DEF ClientsInv, Waits
  <2>7. HandedInv'
    BY <1>0, <1>a, <2>1, <2>2, <2>3, <2>4, <2>5 DEF HandedInv, Waits, Busy, AfterReceive
  <2> QED
    BY <2>6, <2>7
<1>2. CASE c_get_message_length(c) \/ c_recv_body(c)
  <2>1. /\ UNCHANGED <<domain, client_fd_local, reply, peer>>
        /\ cpc[c] \in {"header", "body"} /\ cpc'[c] \in {"body", "pipewait", "exited"}
        /\ \/ UNCHANGED taken
           \/ taken' = [taken EXCEPT ![k] = @ + 1]
    BY <1>0, <1>2 DEF c_get_message_length, c_recv_body, CGoto, CFails, domainVars
  <2>2. k \in Conns /\ Holding(c) /\ Busy(c)
    BY <1>0, <2>1 DEF Busy, Holding
  <2> HIDE DEF k
  <2>3. \A j \in Conns : taken'[j] >= taken[j] /\ taken[j] \in Int /\ taken'[j] \in Int
                        /\ (j # k => taken'[j] = taken[j])
    BY <1>0, <2>1, <2>2
  <2>4. \A i \in DOMAIN domain : domain[i].conn # k /\ domain[i].conn \in Conns
    BY <2>2, HandedConns DEF Invs, TokenInv, ReadInv, k
  <2>5. \A d \in Children \ {c} : Busy(d) => client_fd_local[d] # k
    BY <1>a, <2>2 DEF HandedInv, k
  <2>6. ClientsInv'
    <3>1. \A j \in Conns : taken'[j] <= Body => taken[j] <= Body
      BY <1>0, <2>3
    <3> QED
      BY <1>a, <2>1, <3>1 DEF ClientsInv, Waits
  <2>7. /\ \A i \in DOMAIN domain : taken'[domain[i].conn] = 0
        /\ \A d \in Children : Busy(d)' => Busy(d)
        /\ \A d \in Children : AfterReceive(d)' => taken'[client_fd_local[d]] = Body + 1
    <3>1. \A i \in DOMAIN domain : taken'[domain[i].conn] = 0
      BY <1>a, <2>3, <2>4 DEF HandedInv
    <3>2. ~AfterReceive(c)'
      BY <2>1 DEF AfterReceive
    <3>3. \A d \in Children : Busy(d)' => Busy(d)
      BY <1>0, <2>2 DEF Busy
    <3>4. ASSUME NEW d \in Children, AfterReceive(d)' PROVE taken'[client_fd_local[d]] = Body + 1
      <4>1. d # c /\ AfterReceive(d) /\ Busy(d)
        BY <1>0, <3>2, <3>4 DEF AfterReceive, Busy
      <4>2. client_fd_local[d] \in Conns /\ client_fd_local[d] # k
        BY <1>0, <2>5, <4>1
      <4> QED
        BY <1>a, <2>3, <4>1, <4>2 DEF HandedInv
    <3> QED
      BY <3>1, <3>3, <3>4
  <2>8. HandedInv'
    BY <1>0, <1>a, <2>1, <2>7 DEF HandedInv, Waits
  <2> QED
    BY <2>6, <2>8
<1>3. CASE c_inform_parent_recv_finished(c) \/ c_log_wait(c) \/ c_log_write(c)
  <2>1. /\ UNCHANGED <<domain, client_fd_local, reply, peer, taken>>
        /\ \/ cpc[c] = "pipewait" /\ cpc'[c] \in {"logwait", "killed"}
           \/ AfterReceive(c) /\ cpc'[c] \in {"logging", "respond"}
    BY <1>0, <1>3 DEF c_inform_parent_recv_finished, c_log_wait, c_log_write, CGoto, domainVars,
           clientVars, AfterReceive
  <2>2. cpc[c] = "pipewait" => taken[k] = Body + 1
    <3>1. ASSUME cpc[c] = "pipewait" PROVE k \in Conns /\ ~Left(k)
      BY <1>0, <1>a, <3>1 DEF Busy, HandedInv, Waits, Left
    <3> QED
      BY <3>1 DEF MessageInv, LentAccounted, Account
  <2>3. \A d \in Children : /\ Busy(d)' => Busy(d)
                            /\ AfterReceive(d)' => AfterReceive(d) \/ taken[client_fd_local[d]] = Body + 1
    BY <1>0, <2>1, <2>2 DEF Busy, AfterReceive
  <2>4. PresentInv'
    BY <1>0, <2>1, <2>3, PresentKept
  <2> QED
    BY <1>0, <2>4 DEF PresentInv
<1>4. CASE c_respond(c)
  <2>1. /\ UNCHANGED <<domain, client_fd_local, taken>> /\ cpc[c] = "respond"
        /\ k \in Conns /\ Waits(k) /\ taken[k] = Body + 1
    BY <1>0, <1>4, <1>a DEF c_respond, domainVars, Busy, HandedInv, AfterReceive
  <2>2. bytes_read[c] = Body
    BY <2>1 DEF MessageInv, LentAccounted, Account, Left, Waits
  <2>3. /\ UNCHANGED peer /\ reply' = [reply EXCEPT ![k] = Body]
        /\ cpc'[c] \in {"getwait", "exited"}
    BY <1>0, <1>4, <2>1, <2>2 DEF c_respond, Answer, IsReset, Waits, CLoopTest, CGoto
  <2> HIDE DEF k
  <2>4. \A j \in Conns : j # k => (Waits(j)' <=> Waits(j))
    BY <1>0, <2>3 DEF Waits
  <2>5. ClientsInv'
    <3>1. ASSUME NEW j \in Conns, j # k
          PROVE  /\ peer'[j] = peer[j] /\ reply'[j] = reply[j] /\ taken'[j] = taken[j]
      BY <1>0, <2>1, <2>3, <3>1
    <3>2. peer'[k] = "open" /\ reply'[k] # NoReply /\ taken'[k] = Body + 1
      BY <1>0, <2>1, <2>3 DEF Waits, NoReply
    <3> QED
      BY <1>0, <1>a, <3>1, <3>2 DEF ClientsInv, Waits
  <2>6. ASSUME NEW p \in Slots, revents[p] = "in" PROVE open[fd[p]] \in Conns /\ open[fd[p]] # k
    <3>1. open[fd[p]] \in Conns /\ Waits(open[fd[p]]) /\ Ready(open[fd[p]])
      BY <1>a, <2>6, HandedConns DEF HandedInv, NeedsAction, ReadyInv
    <3>2. HasData(open[fd[p]])
      BY <3>1 DEF Ready, Left, Waits
    <3> QED
      BY <1>0, <2>1, <3>1, <3>2 DEF HasData, Invs, TypeInv, TypeOK, ClientTypeOK
  <2>7. \A i \in DOMAIN domain : domain[i].conn \in Conns /\ domain[i].conn # k
    BY <1>0, <1>a, <2>1, HandedConns DEF HandedInv
  <2>8. \A d \in Children : Busy(d)' => Busy(d) /\ client_fd_local[d] \in Conns /\ client_fd_local[d] # k
    BY <1>0, <1>a, <2>1, <2>3 DEF HandedInv, Busy, k
  <2>9. \A d \in Children : AfterReceive(d)' => AfterReceive(d)
    BY <1>0, <2>3 DEF AfterReceive
  <2>10. HandedInv'
    BY <1>0, <1>a, <2>1, <2>4, <2>6, <2>7, <2>8, <2>9 DEF HandedInv
  <2> QED
    BY <2>5, <2>10
<1> QED
  BY <1>1, <1>2, <1>3, <1>4 DEF ChildStep

LEMMA PresentStep ==
    ASSUME Polite, HandshakeInv, MessageInv, PresentInv, [Next]_vars
    PROVE  PresentInv'
<1>0. Invs /\ ReadyInv
  BY DEF HandshakeInv
<1>1. CASE ParentStep
  BY <1>0, <1>1, PresentParent
<1>2. ASSUME NEW c \in Children, ChildStep(c) PROVE PresentInv'
  BY <1>0, <1>2, PresentChild
<1>3. CASE SendSignal \/ (\E x \in Procs : end_gogo_handler(x)) \/ UNCHANGED vars
  BY <1>3, PresentKept DEF SendSignal, end_gogo_handler, vars, parentVars, slotVars, childVars,
        domainVars, kernelVars, clientVars, Busy, AfterReceive
<1>4. CASE p_interrupted
  <2>1. /\ UNCHANGED <<taken, reply, peer, domain, cpc, client_fd_local, open, stdin_hup>>
        /\ \/ UNCHANGED <<fd, revents>>
           \/ \E p \in Slots : fd' = [fd EXCEPT ![p] = -fd[p]]
                               /\ revents' = [revents EXCEPT ![p] = "none"]
    BY <1>4 DEF p_interrupted, Disable, childVars, domainVars, kernelVars, clientVars
  <2>2. \A q \in Slots : revents'[q] = "in" => revents[q] = "in" /\ open'[fd'[q]] = open[fd[q]]
    BY <1>0, <2>1 DEF Invs, TypeInv, TypeOK, ParentTypeOK, SlotTypeOK
  <2> QED
    BY <2>1, <2>2, PresentKept DEF Busy, AfterReceive
<1>5. ASSUME NEW c \in Children, c_interrupted(c) PROVE PresentInv'
  <2>1. /\ UNCHANGED <<taken, reply, peer, domain, client_fd_local, fd, open, revents, stdin_hup>>
        /\ \A d \in Children \ {c} : cpc'[d] = cpc[d]
        /\ \/ cpc[c] = "pipewait" /\ cpc'[c] = "logwait"
           \/ cpc[c] = "logwait" /\ cpc'[c] = "respond"
           \/ cpc'[c] = "exited"
    BY <1>0, <1>5 DEF c_interrupted, CGoto, CFails, parentVars, slotVars, domainVars, kernelVars,
           clientVars, Invs, TypeInv, TypeOK, ChildTypeOK
  <2>2. ASSUME ~stdin_hup, cpc[c] = "pipewait" PROVE taken[client_fd_local[c]] = Body + 1
    <3>1. client_fd_local[c] \in Conns /\ ~Left(client_fd_local[c])
      BY <1>0, <2>2 DEF PresentInv, HandedInv, Waits, Left, Busy, Invs, TypeInv, WorkInv
    <3> QED
      BY <2>2, <3>1 DEF MessageInv, LentAccounted, Account
  <2>3. ~stdin_hup => \A d \in Children :
           /\ Busy(d)' => Busy(d)
           /\ AfterReceive(d)' => AfterReceive(d) \/ taken[client_fd_local[d]] = Body + 1
    BY <2>1, <2>2 DEF Busy, AfterReceive
  <2> QED
    BY <2>1, <2>3, PresentKept
<1>6. CASE EnvStep
  <2> SUFFICES ASSUME ~stdin_hup' PROVE (ClientsInv /\ HandedInv)'
    BY DEF PresentInv
  <2>1. /\ UNCHANGED <<cpc, client_fd_local, domain, revents, fd, open, taken>> /\ ~stdin_hup
    BY <1>0, <1>6, EnvFrame DEF Invs, EnvFrameGoal, ServerVars, childVars, domainVars, parentVars,
           slotVars
  <2>2. ClientsInv /\ HandedInv
    BY <2>1 DEF PresentInv
  <2>3. /\ UNCHANGED reply /\ \A k \in Conns : Waits(k) => Waits(k)'
        /\ \A k \in Conns : peer'[k] = peer[k] \/ (peer[k] = "none" /\ peer'[k] = "open")
                            \/ (peer[k] = "open" /\ reply[k] # NoReply /\ peer'[k] = "fin")
    BY <1>0, <1>6, <2>2
    DEF EnvStep, ClientMoves, RstArrives, ClientStep, ClientConnect, ClientWrite, ClientClose,
        ClientAbort, ClientReset, DeliverRst, StdinHangup, clientVars, Waits, Polite, ClientsInv,
        Invs, TypeInv, TypeOK, ClientTypeOK
  <2>4. ClientsInv'
    BY <2>1, <2>2, <2>3, BodyAssumption DEF ClientsInv, Waits, Invs, TypeInv, TypeOK, ClientTypeOK
  <2>5. /\ \A p \in Slots : revents[p] = "in" => open[fd[p]] \in Conns
        /\ \A i \in DOMAIN domain : domain[i].conn \in Conns
        /\ \A c \in Children : Busy(c) => client_fd_local[c] \in Conns
    BY <1>0, <2>1, HandedConns DEF NeedsAction, Invs, TypeInv, WorkInv
  <2>6. HandedInv'
    BY <2>1, <2>2, <2>3, <2>5 DEF HandedInv, Busy, AfterReceive
  <2> QED
    BY <2>4, <2>6
<1> QED
  BY <1>1, <1>2, <1>3, <1>4, <1>5, <1>6 DEF Next, SignalStep

PresentAll == HandshakeInv /\ MessageInv /\ PresentInv

LEMMA PresentInvariant == ASSUME Polite PROVE Spec => []PresentAll
<1>1. Init => PresentInv
  <2> SUFFICES ASSUME Init PROVE ClientsInv /\ HandedInv
    BY DEF PresentInv
  <2>1. /\ \A k \in Conns : peer[k] = "none" /\ reply[k] = NoReply
        /\ \A c \in Children : cpc[c] = "getwait" /\ ~Busy(c) /\ ~AfterReceive(c)
        /\ \A p \in Slots : revents[p] = "none"
        /\ DOMAIN domain = {}
    BY DEF Init, InitKernel, NoRevents, Busy, AfterReceive
  <2> QED
    BY <2>1 DEF ClientsInv, HandedInv
<1>2. PresentInv /\ HandshakeInv /\ MessageInv /\ [Next]_vars => PresentInv'
  BY PresentStep
<1> QED
  BY <1>1, <1>2, InitMessageInv, MessageStep, HandshakeInvariant, PTL DEF Spec, PresentAll

\* A child has the connection of a client that is there and waits for this child's answer: nobody
\* else has it, from recvmsg() until the child has answered, long after it has told the parent
\* and the parent watches the connection again.
AtWorkForWaiting ==
    ~stdin_hup =>
        \A c \in Children : Busy(c) =>
            /\ peer[client_fd_local[c]] = "open" /\ reply[client_fd_local[c]] = NoReply
            /\ \A d \in Children : d # c /\ Busy(d) => client_fd_local[d] # client_fd_local[c]

\* On macOS, with clients that do not close before their answer, the children work only for clients
\* that are there to read it, and no two for the same one.
THEOREM ChildrenServeThePresent == ASSUME Polite PROVE Spec => []AtWorkForWaiting
<1>1. PresentAll => AtWorkForWaiting
  BY DEF PresentAll, PresentInv, HandedInv, Waits, AtWorkForWaiting
<1> QED
  BY <1>1, PresentInvariant, PTL

\* Nobody is killed, and the children that started are all there until the parent takes them down.
NobodyKilled ==
    /\ ppc # "killed" /\ \A c \in Children : cpc[c] # "killed"
    /\ ppc \in {"poll", "scan"} => Live = Children

\* What NobodyKilled rests on: until then no process has been sent a signal.
QuietInv ==
    /\ NobodyKilled /\ ~stdin_hup /\ signals = 0 /\ late = 0 /\ Parent \notin pending
    /\ ppc \in {"poll", "scan", "kill"} => pending = {} /\ \A x \in Procs : GOGO_PROCESS[x]

LEMMA QuietStep ==
    ASSUME Polite, Faults = {}, MaxSignals = 0, Children # {},
           PresentAll, OrphanInv, QuietInv, [Next]_vars
    PROVE  QuietInv'
<1>0. Invs /\ ReadyInv /\ ClientsInv /\ HandedInv
  BY DEF PresentAll, PresentInv, HandshakeInv, QuietInv
<1>1. CASE ParentStep
  <2>1. UNCHANGED <<cpc, signals, GOGO_PROCESS, stdin_hup>>
    BY <1>1 DEF ParentStep, p_accept_new_connection, p_accept_fails, p_read_pipe_reenable_fd,
                p_poll_sockets, p_send_to_child, p_send_fails, p_send_sigpipe, p_remove_connection,
                p_scan_done, p_signal_children, p_waitpid, p_close_files, childVars, signalVars,
                kernelVars
  <2>2. ~ \E p \in Slots : p_send_sigpipe(p)
    BY DEF p_send_sigpipe, QuietInv, NobodyKilled
  <2>3. CASE p_signal_children
    BY <2>1, <2>3, ChildrenAssumption DEF p_signal_children, QuietInv, NobodyKilled, Live, Dead
  <2>4. CASE ~p_signal_children
    <3>1. /\ UNCHANGED <<pending, late>>
          /\ ppc' = ppc \/ ppc' \in {"kill", "done"} \/ (ppc' \in {"poll", "scan"} /\ ppc \in {"poll", "scan"})
          /\ ppc' = "kill" => ppc \in {"poll", "scan"}
      BY <1>1, <2>2, <2>4
      DEF ParentStep, p_accept_new_connection, p_accept_fails, p_read_pipe_reenable_fd,
          p_poll_sockets, p_send_to_child, p_send_fails, p_remove_connection,
          p_scan_done, p_waitpid, p_close_files, signalVars, PLoopTest
    <3> QED
      BY <2>1, <3>1 DEF QuietInv, NobodyKilled, Live, Dead
  <2> QED
    BY <2>3, <2>4
<1>2. ASSUME NEW c \in Children, ChildStep(c) PROVE QuietInv'
  <2>1. /\ UNCHANGED <<ppc, signals, late, pending, GOGO_PROCESS, stdin_hup>>
        /\ \A d \in Children \ {c} : cpc'[d] = cpc[d]
    BY <1>0, <1>2, ChildFrame DEF Invs, ChildFrameGoal, parentVars, signalVars, kernelVars
  <2>2. c \in Live /\ ~ParentGone
    <3>1. c \in Live
      BY <1>2 DEF ChildStep, c_get_file_description_from_domain_socket, c_get_message_length,
                c_recv_body, c_inform_parent_recv_finished, c_log_wait, c_log_write, c_respond,
                Live, Dead
    <3>2. ASSUME ppc = "done" PROVE FALSE
      <4>1. unreaped = {} /\ Cardinality(GivenUp) <= 0 + 0
        BY <3>2, ChildSets DEF OrphanInv, TakingDown, QuietInv, GivenUp, Live
      <4>2. GivenUp = Live /\ IsFiniteSet(Live)
        BY <4>1, ChildSets DEF GivenUp, Live
      <4>3. Cardinality(Live) \in Nat /\ Cardinality(Live) = 0
        BY <4>1, <4>2, ChildSets DEF Live
      <4> QED
        BY <3>1, <4>2, <4>3, FS_EmptySet
    <3> QED
      BY <3>1, <3>2 DEF ParentGone, QuietInv, NobodyKilled
  <2>3. cpc'[c] # "killed" /\ (cpc'[c] = "exited" => ~GOGO_PROCESS[c])
    <3> USE <1>0 DEF CGoto, CFails, CLoopTest, Invs, TypeInv, TypeOK, ChildTypeOK
    <3>1. CASE c_get_file_description_from_domain_socket(c)
      <4>1. domain # <<>> /\ DOMAIN domain = {1} /\ domain[1] = Head(domain)
        BY <3>1, AtMostOne DEF c_get_file_description_from_domain_socket, BufInv, IpcTypeOK
      <4>2. ~IsReset(Head(domain).conn)
        BY <4>1 DEF HandedInv, Waits, IsReset
      <4> QED
        BY <3>1, <4>2 DEF c_get_file_description_from_domain_socket
    <3>2. CASE c_get_message_length(c) \/ c_recv_body(c)
      <4>1. ~RecvFails(client_fd_local[c])
        BY <3>2 DEF c_get_message_length, c_recv_body, RecvFails, HandedInv, Waits, Busy
      <4> QED
        BY <3>2, <4>1 DEF c_get_message_length, c_recv_body
    <3>3. CASE c_inform_parent_recv_finished(c) \/ c_log_wait(c) \/ c_log_write(c)
      BY <2>2, <3>3 DEF c_inform_parent_recv_finished, c_log_wait, c_log_write
    <3>4. CASE c_respond(c)
      <4>1. ~IsReset(client_fd_local[c])
        BY <3>4 DEF c_respond, HandedInv, Waits, Busy, IsReset
      <4> QED
        BY <3>4, <4>1 DEF c_respond
    <3> QED
      BY <1>2, <3>1, <3>2, <3>3, <3>4 DEF ChildStep
  <2> QED
    BY <2>1, <2>3 DEF QuietInv, NobodyKilled, Live, Dead, Procs
<1>3. CASE SendSignal \/ p_interrupted
  BY <1>3 DEF SendSignal, p_interrupted, Delivered, QuietInv
<1>4. ASSUME NEW x \in Procs, end_gogo_handler(x) PROVE QuietInv'
  BY <1>4 DEF end_gogo_handler, Delivered, QuietInv, NobodyKilled, Live, Dead, parentVars, childVars,
        kernelVars
<1>5. ASSUME NEW c \in Children, c_interrupted(c) PROVE QuietInv'
  <2>1. /\ UNCHANGED <<ppc, signals, late, stdin_hup>> /\ c \in pending /\ pending' = pending \ {c}
        /\ cpc'[c] # "killed" /\ \A d \in Children \ {c} : cpc'[d] = cpc[d]
    BY <1>0, <1>5 DEF c_interrupted, Delivered, CGoto, CFails, parentVars, kernelVars,
          Invs, TypeInv, TypeOK, ChildTypeOK
  <2>2. ppc \notin {"poll", "scan", "kill"}
    BY <2>1 DEF QuietInv
  <2> QED
    BY <2>1, <2>2 DEF QuietInv, NobodyKilled
<1>6. CASE EnvStep \/ UNCHANGED vars
  <2>1. UNCHANGED <<ppc, cpc, signals, late, pending, GOGO_PROCESS>>
    BY <1>0, <1>6, EnvFrame DEF Invs, EnvFrameGoal, ServerVars, vars, parentVars, childVars, signalVars
  <2>2. UNCHANGED stdin_hup
    BY <1>6 DEF EnvStep, ClientMoves, RstArrives, ClientStep, ClientConnect, ClientWrite, ClientClose,
          ClientAbort, ClientReset, DeliverRst, StdinHangup, kernelVars, vars
  <2> QED
    BY <2>1, <2>2 DEF QuietInv, NobodyKilled, Live, Dead
<1> QED
  BY <1>1, <1>2, <1>3, <1>4, <1>5, <1>6 DEF Next, SignalStep

\* On macOS, where no call fails and nobody sends a signal, no process is ever killed by SIGPIPE and
\* the pool of children stays whole until the parent takes it down (if accept() finds no descriptor
\* left): the course of events that starves the server on Linux, where a closed client can cost a
\* child, does not exist there, however many clients come and close.
THEOREM PoolStaysWhole ==
    ASSUME Platform = "macos", Faults = {}, MaxSignals = 0, Children # {}
    PROVE  Spec => []NobodyKilled
<1>1. Polite
  BY DEF Polite
<1>2. Init => QuietInv
  BY DEF Init, InitKernel, QuietInv, NobodyKilled, Live, Dead, Procs
<1>3. PresentAll /\ OrphanInv /\ QuietInv /\ [Next]_vars => QuietInv'
  BY <1>1, QuietStep
<1>4. QuietInv => NobodyKilled
  BY DEF QuietInv
<1>5. Spec => []PresentAll
  BY <1>1, PresentInvariant
<1> QED
  BY <1>2, <1>3, <1>4, <1>5, InitOrphanInv, OrphanStep, TypeInvariant, PTL DEF Spec
=============================================================================
