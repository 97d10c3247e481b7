-------------------------- MODULE ProcessCountProofs --------------------------
(***************************************************************************)
(* Proofs about ProcessRuns that count: what the semaphores of the domain  *)
(* sockets announce, and what the log file holds, for any number of runs   *)
(* and of children, and any budget.  They rest on the invariants of        *)
(* ProcessRunsProofs.                                                      *)
(***************************************************************************)
EXTENDS ProcessRunsProofs, FiniteSetTheorems

(***************************************************************************)
(* Totals.                                                                 *)
(***************************************************************************)

Units(f, S) == {x \in S \X (1 .. Budget) : x[2] <= f[x[1]]}

LEMMA UnitsFinite ==
    ASSUME NEW S, IsFiniteSet(S), NEW f
    PROVE  IsFiniteSet(Units(f, S)) /\ Total(f, S) = Cardinality(Units(f, S)) /\ Total(f, S) \in Nat
<1>1. IsFiniteSet(S \X (1 .. Budget))
  <2>1. IsFiniteSet(1 .. Budget)
    BY FS_Interval, BudgetAssumption
  <2> QED
    BY <2>1, FS_Product
<1>2. IsFiniteSet(Units(f, S))
  <2>1. Units(f, S) \in SUBSET (S \X (1 .. Budget))
    BY DEF Units
  <2> QED
    BY <1>1, <2>1, FS_Subset
<1>3. Total(f, S) = Cardinality(Units(f, S))
  BY DEF Total, Units
<1> QED
  BY <1>2, <1>3, FS_CardinalityType

\* What f does outside of S is not counted.
LEMMA TotalSame ==
    ASSUME NEW S, NEW f, NEW g, \A x \in S : g[x] = f[x]
    PROVE  Total(g, S) = Total(f, S)
<1>1. \A x \in S \X (1 .. Budget) : x[2] <= g[x[1]] <=> x[2] <= f[x[1]]
  OBVIOUS
<1> QED
  BY <1>1 DEF Total

\* One more, for one member of S.
LEMMA TotalMore ==
    ASSUME NEW S, IsFiniteSet(S), NEW a \in S, NEW f, NEW g,
           f[a] \in Nat, g[a] = f[a] + 1, g[a] <= Budget, \A x \in S : x # a => g[x] = f[x]
    PROVE  Total(g, S) = Total(f, S) + 1
<1> DEFINE u == <<a, g[a]>>
<1>1. u \in S \X (1 .. Budget) /\ u \notin Units(f, S)
  BY BudgetAssumption DEF Units
<1>2. ASSUME NEW x \in S \X (1 .. Budget)
      PROVE  x[2] <= g[x[1]] <=> x[2] <= f[x[1]] \/ x = u
  <2>1. x = <<x[1], x[2]>> /\ x[1] \in S /\ x[2] \in 1 .. Budget
    OBVIOUS
  <2>2. CASE x[1] = a
    <3>1. x = u <=> x[2] = g[a]
      BY <2>1, <2>2
    <3> QED
      BY <2>1, <2>2, <3>1, BudgetAssumption
  <2>3. CASE x[1] # a
    <3>1. x # u
      BY <2>3
    <3> QED
      BY <2>1, <2>3, <3>1
  <2> QED
    BY <2>2, <2>3
<1>3. Units(g, S) = Units(f, S) \cup {u}
  <2> HIDE DEF u
  <2> QED
    BY <1>1, <1>2 DEF Units
<1>4. Cardinality(Units(f, S) \cup {u}) = Cardinality(Units(f, S)) + 1
  BY <1>1, UnitsFinite, FS_AddElement
<1> QED
  BY <1>3, <1>4, UnitsFinite

\* One more member, for which f is n.
LEMMA TotalJoined ==
    ASSUME NEW S, IsFiniteSet(S), NEW a, a \notin S, NEW f, f[a] \in Nat, f[a] <= Budget
    PROVE  Total(f, S \cup {a}) = Total(f, S) + f[a]
<1> DEFINE N == {a} \X (1 .. f[a])
<1>1. IsFiniteSet(N) /\ Cardinality(N) = f[a]
  <2>1. IsFiniteSet({a}) /\ Cardinality({a}) = 1
    BY FS_Singleton
  <2>2. IsFiniteSet(1 .. f[a]) /\ Cardinality(1 .. f[a]) = f[a]
    BY FS_Interval
  <2>3. IsFiniteSet(N) /\ Cardinality(N) = Cardinality({a}) * Cardinality(1 .. f[a])
    BY <2>1, <2>2, FS_Product
  <2> QED
    BY <2>1, <2>2, <2>3
<1>2. Units(f, S \cup {a}) = Units(f, S) \cup N
  <2>1. ASSUME NEW x \in (S \cup {a}) \X (1 .. Budget), x[2] <= f[x[1]] PROVE x \in Units(f, S) \cup N
    <3>1. CASE x[1] = a
      BY <2>1, <3>1
    <3>2. CASE x[1] # a
      <4>1. x = <<x[1], x[2]>> /\ x[1] \in S /\ x[2] \in 1 .. Budget
        BY <3>2
      <4> QED
        BY <2>1, <4>1 DEF Units
    <3> QED
      BY <3>1, <3>2
  <2>2. ASSUME NEW x \in N PROVE x \in Units(f, S \cup {a})
    <3>1. x = <<x[1], x[2]>> /\ x[1] = a /\ x[2] \in 1 .. f[a]
      OBVIOUS
    <3>2. x[2] \in 1 .. Budget
      BY <3>1, BudgetAssumption
    <3> QED
      BY <3>1, <3>2 DEF Units
  <2>3. Units(f, S) \subseteq Units(f, S \cup {a})
    BY DEF Units
  <2>4. Units(f, S \cup {a}) \subseteq Units(f, S) \cup N
    BY <2>1 DEF Units
  <2> QED
    BY <2>2, <2>3, <2>4
<1>3. Units(f, S) \cap N = {}
  BY DEF Units
<1>4. Cardinality(Units(f, S) \cup N) = Cardinality(Units(f, S)) + Cardinality(N)
  <2>1. Cardinality(Units(f, S) \cap N) = 0
    BY <1>3, FS_EmptySet
  <2>2. Cardinality(Units(f, S) \cup N)
          = Cardinality(Units(f, S)) + Cardinality(N) - Cardinality(Units(f, S) \cap N)
    BY <1>1, UnitsFinite, FS_Union
  <2>3. Cardinality(Units(f, S)) \in Nat /\ Cardinality(N) \in Nat
    BY <1>1, UnitsFinite
  <2> QED
    BY <2>1, <2>2, <2>3
<1>5. IsFiniteSet(S \cup {a})
  BY FS_AddElement
<1> QED
  BY <1>1, <1>2, <1>4, <1>5, UnitsFinite

(***************************************************************************)
(* The budget bounds what is counted: each message that waits in a domain  *)
(* socket, is being handled or has a row was paid for.                     *)
(***************************************************************************)

Started == {r \in Runs : parent[r] # "none"}

\* A run that has not opened its semaphores has sent nothing, and a child that has not been set up
\* has printed nothing.
Fresh ==
    \A r \in Runs :
        /\ ppc[r] = "open" => domain[r] = 0
        /\ \A c \in Children : cpc[r][c] = "start" => rows[r][c] = 0

Sending(r) == IF ppc[r] \in {"sendwait", "send"} THEN 1 ELSE 0
Holding(r, c) ==
    IF cpc[r][c] \in {"room", "pipewait", "write", "logwait", "logging"} THEN 1 ELSE 0
Paid(r, c) == rows[r][c] + Holding(r, c) + domain[r] + Sending(r) <= spent
Bound == \A r \in Runs, c \in Children : Paid(r, c)

CountInv == IInv /\ IsFiniteSet(Started) /\ Fresh /\ Bound

LEMMA SpentGrows == TypeOK /\ [Next]_vars => spent' >= spent /\ spent' \in Nat
<1> SUFFICES ASSUME TypeOK, [Next]_vars PROVE spent' >= spent /\ spent' \in Nat
  OBVIOUS
<1>0. spent \in Nat /\ Budget \in Nat /\ \A e \in Events : Cost[e] \in Nat \ {0}
  BY BudgetAssumption DEF TypeOK
<1>1. ASSUME NEW e \in Events, Spend(e) PROVE spent' >= spent
  BY <1>0, <1>1 DEF Spend
<1>2. ASSUME NEW r \in Runs, ParentStep(r) PROVE spent' = spent \/ \E e \in Events : Spend(e)
  BY <1>2 DEF Events, ParentStep, setup_process_server, open_semaphores, fork_child_process,
              p_setup_parent, setup_fails, setup_crashes, p_dispatch, p_send_wait, p_send_to_child,
              p_announce, p_read_pipe_reenable_fd, p_post_pipe, p_end_gogo_handler,
              p_signal_children, p_waitpid, p_interrupted, unlink_semaphores, p_exit
<1>3. ASSUME NEW r \in Runs, NEW c \in Children, ChildStep(r, c)
      PROVE  spent' = spent \/ \E e \in Events : Spend(e)
  BY <1>3 DEF Events, ChildStep, c_setup_child, c_read_wait, c_recvmsg, c_post_room, c_pipe_wait,
              c_inform_parent_recv_finished, c_log_wait, c_log, c_exit, c_end_gogo_handler,
              c_interrupted
<1>4. ASSUME NEW r \in Runs, kill_process(r) PROVE \E e \in Events : Spend(e)
  BY <1>4 DEF kill_process, Events
<1>5. spent' = spent \/ \E e \in Events : Spend(e)
  BY <1>2, <1>3, <1>4 DEF Next, vars
<1>6. spent' \in 0 .. Budget
  BY SpentKept
<1> QED
  BY <1>0, <1>1, <1>5, <1>6

\* What a step of the parent, or a kill, does to what is counted.
LEMMA ParentCounts ==
    ASSUME TypeOK, NEW r \in Runs, ParentStep(r) \/ kill_process(r)
    PROVE  /\ UNCHANGED <<cpc, rows>>
           /\ domain'[r] + Sending(r)' <= domain[r] + Sending(r) + (spent' - spent)
           /\ ppc'[r] = "open" => ppc[r] = "open" /\ domain'[r] = domain[r]
<1> USE DEF TypeOK, ParentTypeOK, SocketTypeOK, Sending, PAt, PGoto, childVars, logVars, Looping
<1>0. /\ spent \in Nat /\ domain[r] \in Nat /\ Sending(r) \in Nat
      /\ \A e \in Events : Cost[e] \in Nat \ {0}
  BY BudgetAssumption
<1>1. UNCHANGED <<cpc, rows>>
  BY DEF ParentStep, setup_process_server, open_semaphores, fork_child_process,
         p_setup_parent, setup_fails, setup_crashes, p_dispatch, p_send_wait, p_send_to_child,
         p_announce, p_read_pipe_reenable_fd, p_post_pipe, p_end_gogo_handler, p_signal_children,
         p_waitpid, p_interrupted, unlink_semaphores, p_exit, kill_process
<1>2. spent' >= spent /\ spent' \in Nat
  BY SpentGrows DEF Next
<1>3. CASE p_dispatch(r)
  <2>1. spent' = spent + Cost["message"] /\ "message" \in Events
    BY <1>3 DEF p_dispatch, Spend, Events
  <2>2. ppc[r] = "poll" /\ ppc'[r] = "sendwait" /\ domain'[r] = domain[r]
    BY <1>3 DEF p_dispatch, socketVars
  <2> QED
    BY <1>0, <1>1, <2>1, <2>2
<1>4. CASE p_send_to_child(r)
  <2>1. ppc[r] = "send"
    BY <1>4 DEF p_send_to_child
  <2>2. \/ domain'[r] = domain[r] + 1 /\ ppc'[r] = "sent"
        \/ UNCHANGED <<domain, ppc>>
    BY <1>4 DEF p_send_to_child
  <2> QED
    BY <1>0, <1>1, <1>2, <2>1, <2>2
<1>5. CASE ~p_dispatch(r) /\ ~p_send_to_child(r)
  <2>1. domain' = domain
    BY <1>5 DEF ParentStep, setup_process_server, open_semaphores, fork_child_process,
         p_setup_parent, setup_fails, setup_crashes, p_send_wait, p_announce,
         p_read_pipe_reenable_fd, p_post_pipe, p_end_gogo_handler, p_signal_children, p_waitpid,
         p_interrupted, unlink_semaphores, p_exit, kill_process, socketVars
  <2>2. \/ ppc'[r] = ppc[r]
        \/ ppc'[r] \notin {"open", "sendwait", "send"}
        \/ ppc[r] = "sendwait" /\ ppc'[r] = "send"
    BY <1>5 DEF ParentStep, setup_process_server, open_semaphores, fork_child_process,
         p_setup_parent, setup_fails, setup_crashes, CloseAfterError, p_send_wait, p_announce,
         p_read_pipe_reenable_fd, p_post_pipe, p_end_gogo_handler, p_signal_children, p_waitpid,
         p_interrupted, unlink_semaphores, p_exit, kill_process, parentVars
  <2> QED
    BY <1>0, <1>1, <1>2, <2>1, <2>2
<1> QED
  BY <1>3, <1>4, <1>5

\* What a step of a child does to what is counted.
LEMMA ChildCounts ==
    ASSUME TypeOK, Fresh, NEW r \in Runs, NEW c \in Children, ChildStep(r, c)
    PROVE  /\ UNCHANGED ppc
           /\ domain' = domain \/ (domain' = [domain EXCEPT ![r] = @ - 1] /\ domain[r] > 0)
           /\ rows'[r][c] + Holding(r, c)' + domain'[r] <= rows[r][c] + Holding(r, c) + domain[r]
           /\ cpc'[r][c] = "start" => cpc[r][c] = "start" /\ rows'[r][c] = rows[r][c]
           /\ \A q \in Runs, d \in Children :
                 ~(q = r /\ d = c) => rows'[q][d] = rows[q][d] /\ cpc'[q][d] = cpc[q][d]
           /\ rows' \in [Runs -> [Children -> Nat]]
<1>0. /\ cpc \in [Runs -> [Children -> ChildPlaces]]
      /\ rows \in [Runs -> [Children -> Nat]] /\ domain \in [Runs -> Nat]
  BY DEF TypeOK, ChildTypeOK, LogTypeOK, SocketTypeOK
<1>1. UNCHANGED ppc /\ \A q \in Runs, d \in Children : ~(q = r /\ d = c) => cpc'[q][d] = cpc[q][d]
  BY ChildKeeps, Others DEF parentVars
<1>2. ASSUME NEW pc, CGoto(r, c, pc) PROVE cpc'[r][c] = pc
  <2>1. cpc' = [cpc EXCEPT ![r] = [cpc[r] EXCEPT ![c] = pc]]
    BY <1>2 DEF CGoto
  <2> QED
    BY <1>0, <2>1
<1>3. CASE c_recvmsg(r, c)
  <2>1. cpc[r][c] = "recv" /\ UNCHANGED rows
    BY <1>3 DEF c_recvmsg, CAt, logVars
  <2>2. rows[r][c] \in Nat /\ domain[r] \in Nat
    BY <1>0
  <2>3. CASE domain[r] > 0
    <3>1. cpc'[r][c] = "room" /\ domain' = [domain EXCEPT ![r] = @ - 1]
      BY <1>2, <1>3, <2>3 DEF c_recvmsg
    <3>2. domain'[r] = domain[r] - 1
      BY <1>0, <3>1
    <3> QED
      BY <1>0, <1>1, <2>1, <2>2, <2>3, <3>1, <3>2 DEF Holding
  <2>4. CASE ~(domain[r] > 0)
    <3>1. cpc'[r][c] = "eof" /\ UNCHANGED domain
      BY <1>2, <1>3, <2>4 DEF c_recvmsg
    <3> QED
      BY <1>0, <1>1, <2>1, <2>2, <3>1 DEF Holding
  <2> QED
    BY <2>3, <2>4
<1>4. CASE c_log(r, c)
  <2>1. /\ cpc[r][c] = "logging" /\ cpc'[r][c] \in {"getwait", "served"} /\ UNCHANGED domain
        /\ rows' = [rows EXCEPT ![r][c] = rows[r][c] + 1]
    BY <1>2, <1>4 DEF c_log, CAt, socketVars
  <2>2. rows[r][c] \in Nat /\ domain[r] \in Nat
    BY <1>0
  <2>3. /\ rows' \in [Runs -> [Children -> Nat]]
        /\ \A q \in Runs, d \in Children :
              rows'[q][d] = IF q = r /\ d = c THEN rows[r][c] + 1 ELSE rows[q][d]
    <3>1. rows[r][c] + 1 \in Nat /\ rows \in [Runs -> [Children -> Nat]]
      BY <1>0, <2>2
    <3> QED
      BY <2>1, <3>1, ChangedAt
  <2>4. Holding(r, c) = 1 /\ Holding(r, c)' = 0 /\ rows'[r][c] = rows[r][c] + 1
    BY <2>1, <2>3 DEF Holding
  <2>5. rows'[r][c] + Holding(r, c)' + domain'[r] <= rows[r][c] + Holding(r, c) + domain[r]
    BY <2>1, <2>2, <2>4
  <2> QED
    BY <1>1, <2>1, <2>3, <2>5
<1>5. CASE ~c_recvmsg(r, c) /\ ~c_log(r, c)
  <2>1. UNCHANGED <<rows, domain>>
    BY <1>5 DEF ChildStep, c_setup_child, c_read_wait, c_post_room, c_pipe_wait,
         c_inform_parent_recv_finished, c_log_wait, c_exit, c_end_gogo_handler, c_interrupted,
         socketVars, logVars
  <2>2. \/ cpc'[r][c] = cpc[r][c]
        \/ cpc'[r][c] \notin {"start", "room", "pipewait", "write", "logwait", "logging"}
        \/ cpc[r][c] \in {"room", "pipewait", "write", "logwait"} /\ cpc'[r][c] # "start"
    BY <1>2, <1>5 DEF ChildStep, c_setup_child, c_read_wait, c_post_room, c_pipe_wait,
         c_inform_parent_recv_finished, c_log_wait, c_exit, c_end_gogo_handler, c_interrupted, CAt
  <2>3. rows[r][c] \in Nat /\ domain[r] \in Nat
    BY <1>0
  <2>4. Holding(r, c)' <= Holding(r, c) /\ Holding(r, c)' \in Nat /\ Holding(r, c) \in Nat
    BY <2>2 DEF Holding
  <2>5. rows'[r][c] + Holding(r, c)' + domain'[r] <= rows[r][c] + Holding(r, c) + domain[r]
    BY <2>1, <2>3, <2>4
  <2> QED
    BY <1>0, <1>1, <2>1, <2>2, <2>5
<1> QED
  BY <1>3, <1>4, <1>5

LEMMA StartedKept == TypeOK /\ IsFiniteSet(Started) /\ [Next]_vars => IsFiniteSet(Started')
<1> SUFFICES ASSUME TypeOK, IsFiniteSet(Started), [Next]_vars PROVE IsFiniteSet(Started')
  OBVIOUS
<1>1. CASE UNCHANGED vars
  BY <1>1 DEF vars, parentVars, Started
<1>2. ASSUME NEW r \in Runs,
             ParentStep(r) \/ (\E c \in Children : ChildStep(r, c)) \/ kill_process(r)
      PROVE  IsFiniteSet(Started')
  <2>1. Started' \in SUBSET (Started \cup {r})
    BY <1>2, Others DEF Started
  <2>2. IsFiniteSet(Started \cup {r})
    BY FS_AddElement
  <2> QED
    BY <2>1, <2>2, FS_Subset
<1> QED
  BY <1>1, <1>2 DEF Next

\* In a run whose variables a step leaves alone what is counted stays as it is.
LEMMA CountsElsewhere ==
    ASSUME TypeOK, Fresh, Bound, spent' >= spent, spent' \in Nat,
           NEW q \in Runs, ppc'[q] = ppc[q], domain'[q] = domain[q],
           \A c \in Children : cpc'[q][c] = cpc[q][c] /\ rows'[q][c] = rows[q][c]
    PROVE  /\ ppc'[q] = "open" => domain'[q] = 0
           /\ \A c \in Children : (cpc'[q][c] = "start" => rows'[q][c] = 0) /\ Paid(q, c)'
<1>1. spent \in Nat /\ domain[q] \in Nat /\ \A c \in Children : rows[q][c] \in Nat
  BY BudgetAssumption DEF TypeOK, SocketTypeOK, LogTypeOK
<1>2. ASSUME NEW c \in Children PROVE Paid(q, c)'
  <2>1. Paid(q, c) /\ Sending(q)' = Sending(q) /\ Holding(q, c)' = Holding(q, c)
    BY DEF Bound, Sending, Holding
  <2>2. Sending(q) \in Nat /\ Holding(q, c) \in Nat
    BY DEF Sending, Holding
  <2> QED
    BY <1>1, <2>1, <2>2 DEF Paid
<1> QED
  BY <1>2 DEF Fresh

LEMMA FreshBoundKept == CountInv /\ [Next]_vars => (Fresh /\ Bound)'
<1> SUFFICES ASSUME CountInv, [Next]_vars PROVE (Fresh /\ Bound)'
  OBVIOUS
<1>0. TypeOK /\ Life /\ Fresh /\ Bound /\ spent' >= spent /\ spent' \in Nat /\ spent \in Nat
  BY SpentGrows, BudgetAssumption DEF CountInv, IInv, TypeOK
<1>1. CASE UNCHANGED vars
  BY <1>0, <1>1, CountsElsewhere DEF vars, parentVars, childVars, socketVars, logVars, Fresh, Bound
<1>2. ASSUME NEW r \in Runs, ParentStep(r) \/ kill_process(r) PROVE (Fresh /\ Bound)'
  <2>1. /\ UNCHANGED <<cpc, rows>>
        /\ domain'[r] + Sending(r)' <= domain[r] + Sending(r) + (spent' - spent)
        /\ ppc'[r] = "open" => ppc[r] = "open" /\ domain'[r] = domain[r]
    BY <1>0, <1>2, ParentCounts
  <2>2. ASSUME NEW c \in Children PROVE Paid(r, c)'
    <3>1. Paid(r, c) /\ Holding(r, c)' = Holding(r, c)
      BY <1>0, <2>1 DEF Bound, Holding
    <3>2. domain[r] \in Nat /\ domain'[r] \in Nat /\ rows[r][c] \in Nat
      BY <1>0, SocketTypesKept DEF TypeOK, SocketTypeOK, LogTypeOK
    <3>3. Sending(r) \in Nat /\ Sending(r)' \in Nat /\ Holding(r, c) \in Nat
      BY DEF Sending, Holding
    <3> QED
      BY <1>0, <2>1, <3>1, <3>2, <3>3 DEF Paid
  <2>3. ASSUME NEW q \in Runs, q # r
        PROVE  /\ ppc'[q] = "open" => domain'[q] = 0
               /\ \A c \in Children : Paid(q, c)'
    BY <1>0, <1>2, <2>1, <2>3, Others, CountsElsewhere
  <2> QED
    BY <1>0, <2>1, <2>2, <2>3 DEF Fresh, Bound
<1>3. ASSUME NEW r \in Runs, NEW c \in Children, ChildStep(r, c) PROVE (Fresh /\ Bound)'
  <2>1. /\ UNCHANGED ppc
        /\ domain' = domain \/ (domain' = [domain EXCEPT ![r] = @ - 1] /\ domain[r] > 0)
        /\ rows'[r][c] + Holding(r, c)' + domain'[r] <= rows[r][c] + Holding(r, c) + domain[r]
        /\ cpc'[r][c] = "start" => cpc[r][c] = "start" /\ rows'[r][c] = rows[r][c]
        /\ \A q \in Runs, d \in Children :
              ~(q = r /\ d = c) => rows'[q][d] = rows[q][d] /\ cpc'[q][d] = cpc[q][d]
        /\ rows' \in [Runs -> [Children -> Nat]]
    BY <1>0, <1>3, ChildCounts
  <2>2. /\ \A q \in Runs : domain[q] \in Nat /\ domain'[q] \in Nat /\ domain'[q] <= domain[q]
        /\ \A q \in Runs : q # r => domain'[q] = domain[q]
    BY <1>0, <2>1 DEF TypeOK, SocketTypeOK
  <2>3. ASSUME NEW d \in Children PROVE Paid(r, d)'
    <3>1. Paid(r, d) /\ Sending(r)' = Sending(r) /\ Sending(r) \in Nat
      BY <1>0, <2>1 DEF Bound, Sending
    <3>2. rows[r][d] \in Nat /\ rows'[r][d] \in Nat /\ Holding(r, d) \in Nat /\ Holding(r, d)' \in Nat
      BY <1>0, <2>1 DEF TypeOK, LogTypeOK, Holding
    <3>3. CASE d = c
      BY <1>0, <2>1, <2>2, <3>1, <3>2, <3>3 DEF Paid
    <3>4. CASE d # c
      <4>1. rows'[r][d] = rows[r][d] /\ Holding(r, d)' = Holding(r, d)
        BY <2>1, <3>4 DEF Holding
      <4> QED
        BY <1>0, <2>2, <3>1, <3>2, <4>1 DEF Paid
    <3> QED
      BY <3>3, <3>4
  <2>4. ASSUME NEW q \in Runs, q # r PROVE \A d \in Children : Paid(q, d)'
    BY <1>0, <2>1, <2>2, <2>4, CountsElsewhere
  <2>5. ppc[r] # "open"
    BY <1>0, <1>3, ChildKeeps DEF Life, LifeOf
  <2> QED
    BY <1>0, <2>1, <2>2, <2>3, <2>4, <2>5 DEF Fresh, Bound
<1> QED
  BY <1>1, <1>2, <1>3 DEF Next

LEMMA CountInvariant == Spec => []CountInv
<1>1. Init => CountInv
  <2> SUFFICES ASSUME Init PROVE CountInv
    OBVIOUS
  <2>1. IInv
    BY InitTypes, LifeInit DEF IInv
  <2>2. Started = {}
    BY DEF Init, Started
  <2>3. Fresh /\ Bound
    BY DEF Init, Fresh, Bound, Paid, Holding, Sending
  <2> QED
    BY <2>1, <2>2, <2>3, FS_EmptySet DEF CountInv
<1>2. CountInv /\ [Next]_vars => CountInv'
  BY TypesKept, LifeKept, CreatorsKept, StartedKept, FreshBoundKept DEF CountInv, IInv
<1> QED
  BY <1>1, <1>2, PTL DEF Spec

(***************************************************************************)
(* The semaphores of the domain sockets, each known by its run.            *)
(***************************************************************************)

Reading == {"recv", "eof", "failed", "starved"}
Room == {"room"}
Starved == {"starved"}

ReadOf(o) ==
    LET R == Users("domain_read", o)
    IN  Total(domain, R) = value["domain_read"][o] + Cardinality(ChildrenAt(R, Reading))
                             + Cardinality(ParentsAt(R, "sent"))
RoomOf(o) ==
    LET W == Users("domain_write", o)
    IN  value["domain_write"][o] + Cardinality(ParentsAt(W, "send")) + Total(domain, W)
          + Cardinality(ChildrenAt(W, Room))
          = 1 + Cardinality(ChildrenAt(W, Starved))

Announced ==
    \A o \in Runs :
        /\ sems[o]["domain_read"] = o => ReadOf(o)
        /\ sems[o]["domain_write"] = o => RoomOf(o)

LEMMA UsersFinite ==
    ASSUME CountInv, NEW s \in Sems, NEW o \in Runs
    PROVE  /\ IsFiniteSet(Users(s, o)) /\ Users(s, o) \subseteq Runs
           /\ \A P : IsFiniteSet(ChildrenAt(Users(s, o), P))
           /\ \A p : IsFiniteSet(ParentsAt(Users(s, o), p))
<1>1. Users(s, o) \in SUBSET Started
  <2> SUFFICES ASSUME NEW r \in Runs, sems[r][s] = o, parent[r] = "none" PROVE FALSE
    BY DEF Users, Started
  <2>1. ppc[r] = "open" /\ at[r] = 1
    BY DEF CountInv, IInv, Life, LifeOf
  <2>2. PICK i \in 1 .. 4 : s = Order[i]
    BY DEF Sems
  <2> QED
    BY <2>1, <2>2, RunsAssumption DEF CountInv, IInv, Life, OpenOf
<1>2. IsFiniteSet(Users(s, o))
  BY <1>1, FS_Subset DEF CountInv
<1>3. IsFiniteSet(Users(s, o) \X Children)
  BY <1>2, FS_Product, ChildrenAssumption
<1>4. ASSUME NEW P PROVE IsFiniteSet(ChildrenAt(Users(s, o), P))
  <2>1. ChildrenAt(Users(s, o), P) \in SUBSET (Users(s, o) \X Children)
    BY DEF ChildrenAt
  <2> QED
    BY <1>3, <2>1, FS_Subset
<1>5. ASSUME NEW p PROVE IsFiniteSet(ParentsAt(Users(s, o), p))
  <2>1. ParentsAt(Users(s, o), p) \in SUBSET Users(s, o)
    BY DEF ParentsAt
  <2> QED
    BY <1>2, <2>1, FS_Subset
<1> QED
  BY <1>2, <1>4, <1>5 DEF Users

\* What is paid for fits the budget.
LEMMA DomainBounded ==
    ASSUME CountInv, NEW r \in Runs
    PROVE  /\ domain[r] \in Nat /\ domain[r] + Sending(r) <= Budget
           /\ \A c \in Children : rows[r][c] \in Nat /\ rows[r][c] + Holding(r, c) <= Budget
<1>1. /\ domain[r] \in Nat /\ Sending(r) \in Nat /\ spent \in Nat /\ spent <= Budget /\ Budget \in Nat
      /\ \A c \in Children : rows[r][c] \in Nat /\ Holding(r, c) \in Nat
  BY BudgetAssumption
  DEF CountInv, IInv, TypeOK, SocketTypeOK, LogTypeOK, Sending, Holding
<1>2. \A c \in Children : rows[r][c] + Holding(r, c) + domain[r] + Sending(r) <= spent
  BY DEF CountInv, Bound, Paid
<1>3. ASSUME NEW c \in Children
      PROVE  domain[r] + Sending(r) <= Budget /\ rows[r][c] + Holding(r, c) <= Budget
  BY <1>1, <1>2
<1> QED
  BY <1>1, <1>3, ChildrenAssumption

(***************************************************************************)
(* The same with the state of a step as parameters.                        *)
(***************************************************************************)

Places(f, U, P) == {x \in U \X Children : f[x[1]][x[2]] \in P}
Posts(f, U, p) == {r \in U : f[r] = p}

ReadEq(U, dom, v, f, pf) ==
    Total(dom, U) = v + Cardinality(Places(f, U, Reading)) + Cardinality(Posts(pf, U, "sent"))
RoomEq(U, dom, v, f, pf) ==
    v + Cardinality(Posts(pf, U, "send")) + Total(dom, U) + Cardinality(Places(f, U, Room))
      = 1 + Cardinality(Places(f, U, Starved))

Ind(x, P) == IF x \in P THEN 1 ELSE 0
Is(x, p) == IF x = p THEN 1 ELSE 0

\* All that the two equations count is natural.
LEMMA CountsNat ==
    ASSUME NEW U, IsFiniteSet(U)
    PROVE  /\ \A f : Total(f, U) \in Nat
           /\ \A f, P : IsFiniteSet(Places(f, U, P)) /\ Cardinality(Places(f, U, P)) \in Nat
           /\ \A f, p : IsFiniteSet(Posts(f, U, p)) /\ Cardinality(Posts(f, U, p)) \in Nat
<1>1. IsFiniteSet(U \X Children)
  BY FS_Product, ChildrenAssumption
<1>2. ASSUME NEW f, NEW P
      PROVE  IsFiniteSet(Places(f, U, P)) /\ Cardinality(Places(f, U, P)) \in Nat
  <2>1. Places(f, U, P) \in SUBSET (U \X Children)
    BY DEF Places
  <2> QED
    BY <1>1, <2>1, FS_Subset, FS_CardinalityType
<1>3. ASSUME NEW f, NEW p PROVE IsFiniteSet(Posts(f, U, p)) /\ Cardinality(Posts(f, U, p)) \in Nat
  <2>1. Posts(f, U, p) \in SUBSET U
    BY DEF Posts
  <2> QED
    BY <2>1, FS_Subset, FS_CardinalityType
<1> QED
  BY <1>2, <1>3, UnitsFinite

\* A child comes to one of the places.
LEMMA PlacesMore ==
    ASSUME NEW U, IsFiniteSet(U), NEW P, NEW f, NEW g, NEW r \in U, NEW c \in Children,
           f[r][c] \notin P, g[r][c] \in P,
           \A q \in U, d \in Children : ~(q = r /\ d = c) => g[q][d] = f[q][d]
    PROVE  Cardinality(Places(g, U, P)) = Cardinality(Places(f, U, P)) + 1
<1> DEFINE u == <<r, c>>
<1>1. u \in U \X Children /\ u \notin Places(f, U, P)
  BY DEF Places
<1>2. ASSUME NEW x \in U \X Children
      PROVE  g[x[1]][x[2]] \in P <=> f[x[1]][x[2]] \in P \/ x = u
  <2>1. x = <<x[1], x[2]>> /\ x[1] \in U /\ x[2] \in Children
    OBVIOUS
  <2>2. x = u <=> x[1] = r /\ x[2] = c
    BY <2>1
  <2> QED
    BY <2>1, <2>2
<1>3. Places(g, U, P) = Places(f, U, P) \cup {u}
  <2> HIDE DEF u
  <2> QED
    BY <1>1, <1>2 DEF Places
<1> QED
  BY <1>1, <1>3, CountsNat, FS_AddElement

\* A child comes to one of the places, leaves it, or neither.
LEMMA PlacesChange ==
    ASSUME NEW U, IsFiniteSet(U), NEW P, NEW f, NEW g, NEW r \in U, NEW c \in Children,
           \A q \in U, d \in Children : ~(q = r /\ d = c) => g[q][d] = f[q][d]
    PROVE  Cardinality(Places(g, U, P))
             = Cardinality(Places(f, U, P)) + Ind(g[r][c], P) - Ind(f[r][c], P)
<1>0. Cardinality(Places(g, U, P)) \in Nat /\ Cardinality(Places(f, U, P)) \in Nat
  BY CountsNat
<1>1. CASE f[r][c] \notin P /\ g[r][c] \in P
  BY <1>0, <1>1, PlacesMore DEF Ind
<1>2. CASE f[r][c] \in P /\ g[r][c] \notin P
  <2>1. \A q \in U, d \in Children : ~(q = r /\ d = c) => f[q][d] = g[q][d]
    OBVIOUS
  <2>2. Cardinality(Places(f, U, P)) = Cardinality(Places(g, U, P)) + 1
    BY <1>2, <2>1, PlacesMore
  <2> QED
    BY <1>0, <1>2, <2>2 DEF Ind
<1>3. CASE g[r][c] \in P <=> f[r][c] \in P
  <2>1. \A x \in U \X Children : g[x[1]][x[2]] \in P <=> f[x[1]][x[2]] \in P
    <3> SUFFICES ASSUME NEW q \in U, NEW d \in Children PROVE g[q][d] \in P <=> f[q][d] \in P
      OBVIOUS
    <3> QED
      BY <1>3
  <2>2. Places(g, U, P) = Places(f, U, P)
    BY <2>1 DEF Places
  <2> QED
    BY <1>0, <1>3, <2>2 DEF Ind
<1> QED
  BY <1>1, <1>2, <1>3

\* A parent comes to the place, leaves it, or neither.
LEMMA PostsChange ==
    ASSUME NEW U, IsFiniteSet(U), NEW p, NEW f, NEW g, NEW r \in U,
           \A q \in U : q # r => g[q] = f[q]
    PROVE  Cardinality(Posts(g, U, p))
             = Cardinality(Posts(f, U, p)) + Is(g[r], p) - Is(f[r], p)
<1>0. /\ IsFiniteSet(Posts(g, U, p)) /\ Cardinality(Posts(g, U, p)) \in Nat
      /\ IsFiniteSet(Posts(f, U, p)) /\ Cardinality(Posts(f, U, p)) \in Nat
  BY CountsNat
<1>1. CASE f[r] # p /\ g[r] = p
  <2>1. Posts(g, U, p) = Posts(f, U, p) \cup {r} /\ r \notin Posts(f, U, p)
    BY <1>1 DEF Posts
  <2> QED
    BY <1>0, <1>1, <2>1, FS_AddElement DEF Is
<1>2. CASE f[r] = p /\ g[r] # p
  <2>1. Posts(f, U, p) = Posts(g, U, p) \cup {r} /\ r \notin Posts(g, U, p)
    BY <1>2 DEF Posts
  <2>2. Cardinality(Posts(f, U, p)) = Cardinality(Posts(g, U, p)) + 1
    BY <1>0, <2>1, FS_AddElement
  <2> QED
    BY <1>0, <1>2, <2>2 DEF Is
<1>3. CASE g[r] = p <=> f[r] = p
  <2>1. Posts(g, U, p) = Posts(f, U, p)
    BY <1>3 DEF Posts
  <2> QED
    BY <1>0, <1>3, <2>1 DEF Is
<1> QED
  BY <1>1, <1>2, <1>3

\* One message more in a domain socket, one less, or neither.
LEMMA TotalChange ==
    ASSUME NEW U, IsFiniteSet(U), NEW f, NEW g, NEW r \in U, NEW n \in {-1, 0, 1},
           f[r] \in 0 .. Budget, g[r] \in 0 .. Budget, g[r] = f[r] + n,
           \A q \in U : q # r => g[q] = f[q]
    PROVE  Total(g, U) = Total(f, U) + n
<1>0. Budget \in Nat /\ Total(f, U) \in Nat /\ Total(g, U) \in Nat
  BY BudgetAssumption, UnitsFinite
<1>1. CASE n = 1
  BY <1>0, <1>1, TotalMore
<1>2. CASE n = -1
  <2>1. g[r] \in Nat /\ f[r] = g[r] + 1 /\ f[r] <= Budget
    BY <1>0, <1>2
  <2>2. Total(f, U) = Total(g, U) + 1
    BY <2>1, TotalMore
  <2> QED
    BY <1>0, <1>2, <2>2
<1>3. CASE n = 0
  <2>1. \A q \in U : g[q] = f[q]
    BY <1>0, <1>3
  <2> QED
    BY <1>0, <1>3, <2>1, TotalSame
<1> QED
  BY <1>1, <1>2, <1>3

\* The equations in a state and after a step that leaves the users of the semaphores alone.
LEMMA Equations ==
    ASSUME CountInv, UNCHANGED sems, NEW o \in Runs
    PROVE  LET R == Users("domain_read", o)
               W == Users("domain_write", o)
           IN  /\ ReadOf(o) <=> ReadEq(R, domain, value["domain_read"][o], cpc, ppc)
               /\ ReadOf(o)' <=> ReadEq(R, domain', value'["domain_read"][o], cpc', ppc')
               /\ RoomOf(o) <=> RoomEq(W, domain, value["domain_write"][o], cpc, ppc)
               /\ RoomOf(o)' <=> RoomEq(W, domain', value'["domain_write"][o], cpc', ppc')
               /\ IsFiniteSet(R) /\ R \subseteq Runs /\ IsFiniteSet(W) /\ W \subseteq Runs
<1>1. \A s \in Sems : Users(s, o)' = Users(s, o)
  BY DEF Users
<1>2. "domain_read" \in Sems /\ "domain_write" \in Sems
  BY SemNames
<1> QED
  BY <1>1, <1>2, UsersFinite
  DEF ReadOf, RoomOf, ReadEq, RoomEq, ChildrenAt, ParentsAt, Places, Posts

\* A step that leaves all that is counted of U alone.
LEMMA CountsSame ==
    ASSUME NEW U, NEW dom, NEW dom2, NEW v, NEW f, NEW f2, NEW pf, NEW pf2,
           \A q \in U : /\ dom2[q] = dom[q] /\ pf2[q] = pf[q]
                        /\ \A d \in Children : f2[q][d] = f[q][d]
    PROVE  /\ ReadEq(U, dom, v, f, pf) => ReadEq(U, dom2, v, f2, pf2)
           /\ RoomEq(U, dom, v, f, pf) => RoomEq(U, dom2, v, f2, pf2)
<1>1. Total(dom2, U) = Total(dom, U)
  BY TotalSame
<1>2. \A P : Places(f2, U, P) = Places(f, U, P)
  <2>1. \A x \in U \X Children : f2[x[1]][x[2]] = f[x[1]][x[2]]
    OBVIOUS
  <2> QED
    BY <2>1 DEF Places
<1>3. \A p : Posts(pf2, U, p) = Posts(pf, U, p)
  BY DEF Posts
<1> QED
  BY <1>1, <1>2, <1>3 DEF ReadEq, RoomEq

\* A step of run r and of one child c of it: each equation stays when what is added to and taken
\* from it balance.
LEMMA Balanced ==
    ASSUME NEW U, IsFiniteSet(U), NEW r \in U, NEW c \in Children,
           NEW dom, NEW dom2, NEW v \in Nat, NEW v2 \in Nat, NEW f, NEW f2, NEW pf, NEW pf2,
           dom[r] \in 0 .. Budget, dom2[r] \in 0 .. Budget, dom2[r] - dom[r] \in {-1, 0, 1},
           \A q \in U : q # r => dom2[q] = dom[q],
           \A q \in U : q # r => pf2[q] = pf[q],
           \A q \in U, d \in Children : ~(q = r /\ d = c) => f2[q][d] = f[q][d]
    PROVE  /\ ReadEq(U, dom, v, f, pf)
                /\ dom2[r] - dom[r] = (v2 - v)
                     + (Ind(f2[r][c], Reading) - Ind(f[r][c], Reading))
                     + (Is(pf2[r], "sent") - Is(pf[r], "sent"))
                => ReadEq(U, dom2, v2, f2, pf2)
           /\ RoomEq(U, dom, v, f, pf)
                /\ (v2 - v) + (Is(pf2[r], "send") - Is(pf[r], "send")) + (dom2[r] - dom[r])
                     + (Ind(f2[r][c], Room) - Ind(f[r][c], Room))
                     = Ind(f2[r][c], Starved) - Ind(f[r][c], Starved)
                => RoomEq(U, dom2, v2, f2, pf2)
<1> DEFINE n == dom2[r] - dom[r]
<1>1. Total(dom2, U) = Total(dom, U) + n
  <2>1. n \in {-1, 0, 1} /\ dom2[r] = dom[r] + n
    BY BudgetAssumption
  <2> HIDE DEF n
  <2> QED
    BY <2>1, TotalChange
<1>2. \A P : Cardinality(Places(f2, U, P))
               = Cardinality(Places(f, U, P)) + Ind(f2[r][c], P) - Ind(f[r][c], P)
  BY PlacesChange
<1>3. /\ Cardinality(Posts(pf2, U, "sent"))
           = Cardinality(Posts(pf, U, "sent")) + Is(pf2[r], "sent") - Is(pf[r], "sent")
      /\ Cardinality(Posts(pf2, U, "send"))
           = Cardinality(Posts(pf, U, "send")) + Is(pf2[r], "send") - Is(pf[r], "send")
  BY PostsChange
<1>4. /\ n \in Int /\ Total(dom, U) \in Nat
      /\ \A g, P : Cardinality(Places(g, U, P)) \in Nat
      /\ \A g, p : Cardinality(Posts(g, U, p)) \in Nat
      /\ \A x, P : Ind(x, P) \in Int /\ Is(x, P) \in Int
  <2>1. dom[r] \in Int /\ dom2[r] \in Int
    BY BudgetAssumption
  <2>2. \A x, P : Ind(x, P) \in Int /\ Is(x, P) \in Int
    BY DEF Ind, Is
  <2>3. n \in Int
    BY <2>1
  <2> HIDE DEF n
  <2> QED
    BY <2>2, <2>3, CountsNat
<1>5. ASSUME ReadEq(U, dom, v, f, pf),
             n = (v2 - v) + (Ind(f2[r][c], Reading) - Ind(f[r][c], Reading))
                   + (Is(pf2[r], "sent") - Is(pf[r], "sent"))
      PROVE  ReadEq(U, dom2, v2, f2, pf2)
  <2> HIDE DEF n
  <2>1. /\ Cardinality(Places(f2, U, Reading))
             = Cardinality(Places(f, U, Reading)) + Ind(f2[r][c], Reading) - Ind(f[r][c], Reading)
        /\ Cardinality(Posts(pf2, U, "sent"))
             = Cardinality(Posts(pf, U, "sent")) + Is(pf2[r], "sent") - Is(pf[r], "sent")
    BY <1>2, <1>3
  <2>2. /\ Cardinality(Places(f, U, Reading)) \in Nat /\ Cardinality(Posts(pf, U, "sent")) \in Nat
        /\ Ind(f2[r][c], Reading) \in Int /\ Ind(f[r][c], Reading) \in Int
        /\ Is(pf2[r], "sent") \in Int /\ Is(pf[r], "sent") \in Int
        /\ n \in Int /\ Total(dom, U) \in Nat
    BY <1>4
  <2> QED
    BY <1>1, <1>5, <2>1, <2>2 DEF ReadEq
<1>6. ASSUME RoomEq(U, dom, v, f, pf),
             (v2 - v) + (Is(pf2[r], "send") - Is(pf[r], "send")) + n
               + (Ind(f2[r][c], Room) - Ind(f[r][c], Room))
               = Ind(f2[r][c], Starved) - Ind(f[r][c], Starved)
      PROVE  RoomEq(U, dom2, v2, f2, pf2)
  <2> HIDE DEF n
  <2>1. /\ Cardinality(Places(f2, U, Room))
             = Cardinality(Places(f, U, Room)) + Ind(f2[r][c], Room) - Ind(f[r][c], Room)
        /\ Cardinality(Places(f2, U, Starved))
             = Cardinality(Places(f, U, Starved)) + Ind(f2[r][c], Starved) - Ind(f[r][c], Starved)
        /\ Cardinality(Posts(pf2, U, "send"))
             = Cardinality(Posts(pf, U, "send")) + Is(pf2[r], "send") - Is(pf[r], "send")
    BY <1>2, <1>3
  <2>2. /\ Cardinality(Places(f, U, Room)) \in Nat /\ Cardinality(Places(f, U, Starved)) \in Nat
        /\ Cardinality(Posts(pf, U, "send")) \in Nat
        /\ Ind(f2[r][c], Room) \in Int /\ Ind(f[r][c], Room) \in Int
        /\ Ind(f2[r][c], Starved) \in Int /\ Ind(f[r][c], Starved) \in Int
        /\ Is(pf2[r], "send") \in Int /\ Is(pf[r], "send") \in Int
        /\ n \in Int /\ Total(dom, U) \in Nat
    BY <1>4
  <2> QED
    BY <1>1, <1>6, <2>1, <2>2 DEF RoomEq
<1> QED
  BY <1>5, <1>6

\* What a step of r and c does to the two semaphores, where it balances the rest.
ReadMoves(r, c) ==
    \A o \in Runs :
        IF o = sems[r]["domain_read"]
        THEN domain'[r] - domain[r] = (value'["domain_read"][o] - value["domain_read"][o])
               + (Ind(cpc'[r][c], Reading) - Ind(cpc[r][c], Reading))
               + (Is(ppc'[r], "sent") - Is(ppc[r], "sent"))
        ELSE value'["domain_read"][o] = value["domain_read"][o]
RoomMoves(r, c) ==
    \A o \in Runs :
        IF o = sems[r]["domain_write"]
        THEN (value'["domain_write"][o] - value["domain_write"][o])
               + (Is(ppc'[r], "send") - Is(ppc[r], "send")) + (domain'[r] - domain[r])
               + (Ind(cpc'[r][c], Room) - Ind(cpc[r][c], Room))
               = Ind(cpc'[r][c], Starved) - Ind(cpc[r][c], Starved)
        ELSE value'["domain_write"][o] = value["domain_write"][o]

LEMMA AnnouncedStep ==
    ASSUME CountInv, Announced, TypeOK', NEW r \in Runs, NEW c \in Children, sems' = sems,
           \A q \in Runs : q # r => domain'[q] = domain[q],
           \A q \in Runs : q # r => ppc'[q] = ppc[q],
           \A q \in Runs, d \in Children : ~(q = r /\ d = c) => cpc'[q][d] = cpc[q][d],
           domain'[r] \in 0 .. Budget, domain'[r] - domain[r] \in {-1, 0, 1},
           ReadMoves(r, c), RoomMoves(r, c)
    PROVE  Announced'
<1>0. /\ "domain_read" \in Sems /\ "domain_write" \in Sems
      /\ \A s \in Sems, o \in Runs : value[s][o] \in Nat /\ value'[s][o] \in Nat
      /\ domain[r] \in 0 .. Budget
  <2>1. domain[r] \in Nat /\ Sending(r) \in Nat /\ domain[r] + Sending(r) <= Budget
    BY DomainBounded DEF Sending
  <2> QED
    BY <2>1, SemNames, BudgetAssumption DEF CountInv, IInv, TypeOK, NameTypeOK
<1>1. ASSUME NEW o \in Runs, sems[o]["domain_read"] = o PROVE ReadOf(o)'
  <2> DEFINE R == Users("domain_read", o)
             v == value["domain_read"][o]
             v2 == value'["domain_read"][o]
  <2>1. ReadEq(R, domain, v, cpc, ppc) /\ IsFiniteSet(R) /\ R \subseteq Runs
    BY <1>1, Equations DEF Announced
  <2>2. CASE o = sems[r]["domain_read"]
    <3>1. r \in R /\ v \in Nat /\ v2 \in Nat
      BY <1>0, <2>2 DEF Users
    <3>2. domain'[r] - domain[r] = (v2 - v)
            + (Ind(cpc'[r][c], Reading) - Ind(cpc[r][c], Reading))
            + (Is(ppc'[r], "sent") - Is(ppc[r], "sent"))
      BY <2>2 DEF ReadMoves
    <3>3. ReadEq(R, domain', v2, cpc', ppc')
      <4> HIDE DEF R, v, v2
      <4>1. /\ \A q \in R : q # r => domain'[q] = domain[q]
            /\ \A q \in R : q # r => ppc'[q] = ppc[q]
            /\ \A q \in R, d \in Children : ~(q = r /\ d = c) => cpc'[q][d] = cpc[q][d]
        BY <2>1
      <4> QED
        BY <1>0, <2>1, <3>1, <3>2, <4>1, Balanced
    <3> QED
      BY <3>3, Equations
  <2>3. CASE o # sems[r]["domain_read"]
    <3>1. v2 = v
      BY <2>3 DEF ReadMoves
    <3>2. \A q \in R : /\ domain'[q] = domain[q] /\ ppc'[q] = ppc[q]
                       /\ \A d \in Children : cpc'[q][d] = cpc[q][d]
      BY <2>3 DEF Users
    <3>3. ReadEq(R, domain', v2, cpc', ppc')
      BY <2>1, <3>1, <3>2, CountsSame
    <3> QED
      BY <3>3, Equations
  <2> QED
    BY <2>2, <2>3
<1>2. ASSUME NEW o \in Runs, sems[o]["domain_write"] = o PROVE RoomOf(o)'
  <2> DEFINE W == Users("domain_write", o)
             v == value["domain_write"][o]
             v2 == value'["domain_write"][o]
  <2>1. RoomEq(W, domain, v, cpc, ppc) /\ IsFiniteSet(W) /\ W \subseteq Runs
    BY <1>2, Equations DEF Announced
  <2>2. CASE o = sems[r]["domain_write"]
    <3>1. r \in W /\ v \in Nat /\ v2 \in Nat
      BY <1>0, <2>2 DEF Users
    <3>2. (v2 - v) + (Is(ppc'[r], "send") - Is(ppc[r], "send")) + (domain'[r] - domain[r])
            + (Ind(cpc'[r][c], Room) - Ind(cpc[r][c], Room))
            = Ind(cpc'[r][c], Starved) - Ind(cpc[r][c], Starved)
      BY <2>2 DEF RoomMoves
    <3>3. RoomEq(W, domain', v2, cpc', ppc')
      <4> HIDE DEF W, v, v2
      <4>1. /\ \A q \in W : q # r => domain'[q] = domain[q]
            /\ \A q \in W : q # r => ppc'[q] = ppc[q]
            /\ \A q \in W, d \in Children : ~(q = r /\ d = c) => cpc'[q][d] = cpc[q][d]
        BY <2>1
      <4> QED
        BY <1>0, <2>1, <3>1, <3>2, <4>1, Balanced
    <3> QED
      BY <3>3, Equations
  <2>3. CASE o # sems[r]["domain_write"]
    <3>1. v2 = v
      BY <2>3 DEF RoomMoves
    <3>2. \A q \in W : /\ domain'[q] = domain[q] /\ ppc'[q] = ppc[q]
                       /\ \A d \in Children : cpc'[q][d] = cpc[q][d]
      BY <2>3 DEF Users
    <3>3. RoomEq(W, domain', v2, cpc', ppc')
      BY <2>1, <3>1, <3>2, CountsSame
    <3> QED
      BY <3>3, Equations
  <2> QED
    BY <2>2, <2>3
<1> QED
  BY <1>1, <1>2 DEF Announced

\* A step that neither sends nor receives.
LEMMA AnnouncedQuiet ==
    ASSUME CountInv, Announced, TypeOK', NEW r \in Runs, NEW c \in Children,
           sems' = sems, domain' = domain,
           \A o \in Runs : /\ value'["domain_read"][o] = value["domain_read"][o]
                         /\ value'["domain_write"][o] = value["domain_write"][o],
           \A q \in Runs : q # r => ppc'[q] = ppc[q],
           \A q \in Runs, d \in Children : ~(q = r /\ d = c) => cpc'[q][d] = cpc[q][d],
           ppc'[r] = ppc[r] \/ (ppc[r] \notin {"send", "sent"} /\ ppc'[r] \notin {"send", "sent"}),
           \/ cpc'[r][c] = cpc[r][c]
           \/ cpc[r][c] \notin Reading \cup Room /\ cpc'[r][c] \notin Reading \cup Room
           \/ cpc[r][c] = "recv" /\ cpc'[r][c] \in {"eof", "failed"}
    PROVE  Announced'
<1>1. domain[r] \in Nat /\ domain'[r] \in 0 .. Budget /\ domain'[r] - domain[r] = 0
  <2>1. domain[r] \in Nat /\ Sending(r) \in Nat /\ domain[r] + Sending(r) <= Budget
    BY DomainBounded DEF Sending
  <2> QED
    BY <2>1, BudgetAssumption
<1>2. \A s \in Sems, o \in Runs : value[s][o] \in Nat
  BY DEF CountInv, IInv, TypeOK, NameTypeOK
<1>3. \A o \in Runs : /\ value'["domain_read"][o] - value["domain_read"][o] = 0
                      /\ value'["domain_write"][o] - value["domain_write"][o] = 0
  BY <1>2, SemNames
<1>4. /\ Is(ppc'[r], "sent") - Is(ppc[r], "sent") = 0
      /\ Is(ppc'[r], "send") - Is(ppc[r], "send") = 0
  BY DEF Is
<1>5. /\ Ind(cpc'[r][c], Reading) - Ind(cpc[r][c], Reading) = 0
      /\ Ind(cpc'[r][c], Room) - Ind(cpc[r][c], Room) = 0
      /\ Ind(cpc'[r][c], Starved) - Ind(cpc[r][c], Starved) = 0
  BY DEF Ind, Reading, Room, Starved
<1>6. ReadMoves(r, c) /\ RoomMoves(r, c)
  BY <1>1, <1>3, <1>4, <1>5 DEF ReadMoves, RoomMoves
<1> QED
  BY <1>1, <1>6, AnnouncedStep

\* The parent takes room, sends, and announces.
LEMMA AnnouncedSend ==
    ASSUME CountInv, Announced, TypeOK', NEW r \in Runs,
           p_send_wait(r) \/ p_send_to_child(r) \/ p_announce(r)
    PROVE  Announced'
<1>0. /\ NameTypeOK /\ "domain_read" \in Sems /\ "domain_write" \in Sems
      /\ \A s \in Sems, o \in Runs : value[s][o] \in Nat
      /\ ppc \in [Runs -> Looping \cup {"open", "fork", "setup", "kill", "reap", "unlink", "exit"}]
      /\ domain \in [Runs -> Nat]
  BY SemNames DEF CountInv, IInv, TypeOK, NameTypeOK, ParentTypeOK, SocketTypeOK
<1>1. UNCHANGED <<sems, cpc>> /\ ppc[r] \in {"sendwait", "send", "sent"}
  BY DEF p_send_wait, p_send_to_child, p_announce, PAt, childVars, nameVars
<1>2. sems[r]["domain_read"] # NoRun /\ sems[r]["domain_write"] # NoRun
  BY <1>0, <1>1 DEF CountInv, IInv, Life, OpenOf
<1>3. PICK c \in Children : TRUE
  BY ChildrenAssumption
<1>4. domain[r] \in Nat /\ domain[r] \in 0 .. Budget /\ domain[r] + Sending(r) <= Budget
  <2>1. domain[r] \in Nat /\ Sending(r) \in Nat /\ domain[r] + Sending(r) <= Budget
    BY DomainBounded DEF Sending
  <2> QED
    BY <2>1, BudgetAssumption
<1>5. /\ Ind(cpc'[r][c], Reading) - Ind(cpc[r][c], Reading) = 0
      /\ Ind(cpc'[r][c], Room) - Ind(cpc[r][c], Room) = 0
      /\ Ind(cpc'[r][c], Starved) - Ind(cpc[r][c], Starved) = 0
  BY <1>1 DEF Ind
<1>6. CASE p_send_wait(r)
  <2>1. /\ sem_wait(r, "domain_write") /\ domain' = domain
        /\ ppc[r] = "sendwait" /\ ppc' = [ppc EXCEPT ![r] = "send"]
    BY <1>6 DEF p_send_wait, PAt, PGoto, socketVars
  <2>2. \A o \in Runs :
           /\ o = sems[r]["domain_write"] =>
                 value'["domain_write"][o] - value["domain_write"][o] = -1
           /\ o # sems[r]["domain_write"] => value'["domain_write"][o] = value["domain_write"][o]
           /\ value'["domain_read"][o] = value["domain_read"][o]
           /\ value'["domain_read"][o] - value["domain_read"][o] = 0
    BY <1>0, <1>2, <2>1, SemEffect
  <2>3. /\ ppc'[r] = "send" /\ \A q \in Runs : q # r => ppc'[q] = ppc[q]
        /\ domain'[r] - domain[r] = 0
    BY <1>0, <2>1
  <2>4. Is(ppc'[r], "send") - Is(ppc[r], "send") = 1 /\ Is(ppc'[r], "sent") - Is(ppc[r], "sent") = 0
    BY <2>1, <2>3 DEF Is
  <2>5. ReadMoves(r, c) /\ RoomMoves(r, c)
    BY <1>5, <2>2, <2>3, <2>4 DEF ReadMoves, RoomMoves
  <2> QED
    BY <1>1, <1>4, <2>1, <2>3, <2>5, AnnouncedStep
<1>7. CASE p_send_to_child(r) /\ UNCHANGED <<domain, ppc>>
  <2>1. value' = value
    BY <1>7 DEF p_send_to_child, nameVars
  <2> QED
    BY <1>1, <1>3, <1>7, <2>1, AnnouncedQuiet
<1>8. CASE p_send_to_child(r) /\ domain' = [domain EXCEPT ![r] = @ + 1] /\ PGoto(r, "sent")
  <2>1. ppc[r] = "send" /\ ppc' = [ppc EXCEPT ![r] = "sent"] /\ value' = value
    BY <1>8 DEF p_send_to_child, PAt, PGoto, nameVars
  <2>2. /\ ppc'[r] = "sent" /\ \A q \in Runs : q # r => ppc'[q] = ppc[q]
        /\ domain'[r] = domain[r] + 1 /\ \A q \in Runs : q # r => domain'[q] = domain[q]
    BY <1>0, <1>8, <2>1
  <2>3. domain'[r] \in 0 .. Budget /\ domain'[r] - domain[r] = 1
    BY <1>4, <2>1, <2>2, BudgetAssumption DEF Sending
  <2>4. \A o \in Runs :
           /\ value'["domain_read"][o] = value["domain_read"][o]
           /\ value'["domain_read"][o] - value["domain_read"][o] = 0
           /\ value'["domain_write"][o] = value["domain_write"][o]
           /\ value'["domain_write"][o] - value["domain_write"][o] = 0
    BY <1>0, <2>1
  <2>5. /\ Is(ppc'[r], "send") - Is(ppc[r], "send") = -1
        /\ Is(ppc'[r], "sent") - Is(ppc[r], "sent") = 1
    BY <2>1, <2>2 DEF Is
  <2>6. ReadMoves(r, c) /\ RoomMoves(r, c)
    BY <1>5, <2>3, <2>4, <2>5 DEF ReadMoves, RoomMoves
  <2> QED
    BY <1>1, <2>2, <2>3, <2>6, AnnouncedStep
<1>9. CASE p_announce(r)
  <2>1. /\ sem_post(r, "domain_read") /\ domain' = domain
        /\ ppc[r] = "sent" /\ ppc' = [ppc EXCEPT ![r] = "poll"]
    BY <1>9 DEF p_announce, PAt, PGoto, socketVars
  <2>2. \A o \in Runs :
           /\ o = sems[r]["domain_read"] =>
                 value'["domain_read"][o] - value["domain_read"][o] = 1
           /\ o # sems[r]["domain_read"] => value'["domain_read"][o] = value["domain_read"][o]
           /\ value'["domain_write"][o] = value["domain_write"][o]
           /\ value'["domain_write"][o] - value["domain_write"][o] = 0
    BY <1>0, <1>2, <2>1, SemEffect
  <2>3. /\ ppc'[r] = "poll" /\ \A q \in Runs : q # r => ppc'[q] = ppc[q]
        /\ domain'[r] - domain[r] = 0
    BY <1>0, <2>1
  <2>4. /\ Is(ppc'[r], "send") - Is(ppc[r], "send") = 0
        /\ Is(ppc'[r], "sent") - Is(ppc[r], "sent") = -1
    BY <2>1, <2>3 DEF Is
  <2>5. ReadMoves(r, c) /\ RoomMoves(r, c)
    BY <1>5, <2>2, <2>3, <2>4 DEF ReadMoves, RoomMoves
  <2> QED
    BY <1>1, <1>4, <2>1, <2>3, <2>5, AnnouncedStep
<1> QED
  BY <1>6, <1>7, <1>8, <1>9 DEF p_send_to_child

\* A child waits for a message, receives it, makes room for another; the rest does not matter.
LEMMA AnnouncedChild ==
    ASSUME CountInv, Announced, TypeOK', NEW r \in Runs, NEW c \in Children, ChildStep(r, c)
    PROVE  Announced'
<1>0. /\ TypeOK /\ NameTypeOK /\ "domain_read" \in Sems /\ "domain_write" \in Sems
      /\ "pipe" \in Sems /\ "log" \in Sems
      /\ \A s \in Sems, o \in Runs : value[s][o] \in Nat
      /\ cpc \in [Runs -> [Children -> ChildPlaces]] /\ domain \in [Runs -> Nat]
  BY SemNames DEF CountInv, IInv, TypeOK, NameTypeOK, ChildTypeOK, SocketTypeOK
<1>1. /\ sems' = sems /\ ppc' = ppc /\ child[r][c] = "alive"
      /\ \A q \in Runs, d \in Children : ~(q = r /\ d = c) => cpc'[q][d] = cpc[q][d]
      /\ \A q \in Runs : q # r => domain'[q] = domain[q]
  BY <1>0, ChildKeeps, Others DEF parentVars
<1>2. \A s \in Sems : sems[r][s] # NoRun
  BY <1>1 DEF CountInv, IInv, Life, OpenOf
<1>3. ASSUME NEW pc, CGoto(r, c, pc) PROVE cpc'[r][c] = pc
  <2>1. cpc' = [cpc EXCEPT ![r] = [cpc[r] EXCEPT ![c] = pc]]
    BY <1>3 DEF CGoto
  <2> QED
    BY <1>0, <2>1
<1>4. domain[r] \in Nat /\ domain[r] \in 0 .. Budget
  <2>1. domain[r] \in Nat /\ Sending(r) \in Nat /\ domain[r] + Sending(r) <= Budget
    BY DomainBounded DEF Sending
  <2> QED
    BY <2>1, BudgetAssumption
<1>5. /\ Is(ppc'[r], "send") - Is(ppc[r], "send") = 0
      /\ Is(ppc'[r], "sent") - Is(ppc[r], "sent") = 0
  BY <1>1 DEF Is
<1>6. CASE c_read_wait(r, c)
  <2>1. /\ cpc[r][c] = "getwait" /\ cpc'[r][c] = "recv" /\ sem_wait(r, "domain_read")
        /\ domain' = domain
    BY <1>3, <1>6 DEF c_read_wait, CAt, socketVars
  <2>2. \A o \in Runs :
           /\ o = sems[r]["domain_read"] =>
                 value'["domain_read"][o] - value["domain_read"][o] = -1
           /\ o # sems[r]["domain_read"] => value'["domain_read"][o] = value["domain_read"][o]
           /\ value'["domain_write"][o] = value["domain_write"][o]
           /\ value'["domain_write"][o] - value["domain_write"][o] = 0
    BY <1>0, <1>2, <2>1, SemEffect
  <2>3. domain'[r] - domain[r] = 0
    BY <1>4, <2>1
  <2>4. /\ Ind(cpc'[r][c], Reading) - Ind(cpc[r][c], Reading) = 1
        /\ Ind(cpc'[r][c], Room) - Ind(cpc[r][c], Room) = 0
        /\ Ind(cpc'[r][c], Starved) - Ind(cpc[r][c], Starved) = 0
    BY <2>1 DEF Ind, Reading, Room, Starved
  <2>5. ReadMoves(r, c) /\ RoomMoves(r, c)
    BY <1>5, <2>2, <2>3, <2>4 DEF ReadMoves, RoomMoves
  <2> QED
    BY <1>1, <1>4, <2>1, <2>3, <2>5, AnnouncedStep
<1>7. CASE c_recvmsg(r, c) /\ domain[r] > 0
  <2>1. /\ cpc[r][c] = "recv" /\ cpc'[r][c] = "room" /\ value' = value
        /\ domain' = [domain EXCEPT ![r] = @ - 1]
    BY <1>3, <1>7 DEF c_recvmsg, CAt, nameVars
  <2>2. domain'[r] \in 0 .. Budget /\ domain'[r] - domain[r] = -1
    BY <1>0, <1>4, <1>7, <2>1, BudgetAssumption
  <2>3. \A o \in Runs :
           /\ value'["domain_read"][o] = value["domain_read"][o]
           /\ value'["domain_read"][o] - value["domain_read"][o] = 0
           /\ value'["domain_write"][o] = value["domain_write"][o]
           /\ value'["domain_write"][o] - value["domain_write"][o] = 0
    BY <1>0, <2>1
  <2>4. /\ Ind(cpc'[r][c], Reading) - Ind(cpc[r][c], Reading) = -1
        /\ Ind(cpc'[r][c], Room) - Ind(cpc[r][c], Room) = 1
        /\ Ind(cpc'[r][c], Starved) - Ind(cpc[r][c], Starved) = 0
    BY <2>1 DEF Ind, Reading, Room, Starved
  <2>5. ReadMoves(r, c) /\ RoomMoves(r, c)
    BY <1>5, <2>2, <2>3, <2>4 DEF ReadMoves, RoomMoves
  <2> QED
    BY <1>1, <2>2, <2>5, AnnouncedStep
<1>8. CASE c_post_room(r, c)
  <2>1. /\ sem_post(r, "domain_write") /\ domain' = domain
        /\ \/ cpc[r][c] = "room" /\ cpc'[r][c] \in {"pipewait", "served"}
           \/ cpc[r][c] \in {"eof", "failed"} /\ cpc'[r][c] = "starved"
    BY <1>3, <1>8 DEF c_post_room, RoomAfter, socketVars
  <2>2. \A o \in Runs :
           /\ o = sems[r]["domain_write"] =>
                 value'["domain_write"][o] - value["domain_write"][o] = 1
           /\ o # sems[r]["domain_write"] => value'["domain_write"][o] = value["domain_write"][o]
           /\ value'["domain_read"][o] = value["domain_read"][o]
           /\ value'["domain_read"][o] - value["domain_read"][o] = 0
    BY <1>0, <1>2, <2>1, SemEffect
  <2>3. domain'[r] - domain[r] = 0
    BY <1>4, <2>1
  <2>4. /\ Ind(cpc'[r][c], Reading) - Ind(cpc[r][c], Reading) = 0
        /\ 1 + (Ind(cpc'[r][c], Room) - Ind(cpc[r][c], Room))
             = Ind(cpc'[r][c], Starved) - Ind(cpc[r][c], Starved)
        /\ Ind(cpc'[r][c], Room) - Ind(cpc[r][c], Room) \in Int
    BY <2>1 DEF Ind, Reading, Room, Starved
  <2>5. ReadMoves(r, c) /\ RoomMoves(r, c)
    BY <1>5, <2>2, <2>3, <2>4 DEF ReadMoves, RoomMoves
  <2> QED
    BY <1>1, <1>4, <2>1, <2>3, <2>5, AnnouncedStep
<1>9. CASE /\ ~c_read_wait(r, c) /\ ~(c_recvmsg(r, c) /\ domain[r] > 0) /\ ~c_post_room(r, c)
  <2>1. /\ domain' = domain
        /\ \/ UNCHANGED value \/ sem_wait(r, "pipe")
           \/ sem_wait(r, "log") \/ sem_post(r, "log")
    BY <1>9 DEF ChildStep, c_setup_child, c_recvmsg, c_pipe_wait, c_inform_parent_recv_finished,
         c_log_wait, c_log, c_exit, c_end_gogo_handler, c_interrupted, socketVars, nameVars
  <2>2. \A o \in Runs : /\ value'["domain_read"][o] = value["domain_read"][o]
                       /\ value'["domain_write"][o] = value["domain_write"][o]
    BY <1>0, <1>2, <2>1, SemEffect
  <2>3. \/ UNCHANGED cpc
        \/ /\ cpc[r][c] \in {"start", "getwait", "pipewait", "write", "logwait", "logging"}
           /\ \E pc \in {"getwait", "served", "write", "logwait", "logging"} : CGoto(r, c, pc)
        \/ cpc[r][c] = "recv" /\ \E pc \in {"eof", "failed"} : CGoto(r, c, pc)
    BY <1>9 DEF ChildStep, c_setup_child, c_recvmsg, c_pipe_wait, c_inform_parent_recv_finished,
         c_log_wait, c_log, c_exit, c_end_gogo_handler, c_interrupted, CAt
  <2>4. \/ cpc'[r][c] = cpc[r][c]
        \/ cpc[r][c] \notin Reading \cup Room /\ cpc'[r][c] \notin Reading \cup Room
        \/ cpc[r][c] = "recv" /\ cpc'[r][c] \in {"eof", "failed"}
    BY <1>3, <2>3 DEF Reading, Room
  <2> QED
    BY <1>1, <2>1, <2>2, <2>4, AnnouncedQuiet
<1> QED
  BY <1>6, <1>7, <1>8, <1>9

\* A run that opens a semaphore has sent and received nothing; if it has created it, it is the
\* only one to have it.
LEMMA AnnouncedOpened ==
    ASSUME CountInv, Announced, TypeOK', NEW r \in Runs, open_semaphores(r)
    PROVE  Announced'
<1> DEFINE s == Order[at[r]]
           o == Opened(r, s)
<1>0. /\ NameTypeOK /\ "domain_read" \in Sems /\ "domain_write" \in Sems
      /\ value \in [Sems -> [Runs -> Nat]] /\ sems \in [Runs -> [Sems -> Runs \cup {NoRun}]]
      /\ InitialValue["domain_read"] = 0 /\ InitialValue["domain_write"] = 1
  BY SemNames DEF CountInv, IInv, TypeOK, NameTypeOK, InitialValue
<1>1. s \in Sems /\ at[r] \in 1 .. 4 /\ ppc[r] = "open"
  BY SemNames DEF open_semaphores, PAt, CountInv, IInv, TypeOK, ParentTypeOK
<1>2. /\ sems[r][s] = NoRun /\ domain[r] = 0
      /\ \A c \in Children : cpc[r][c] = "start"
  BY <1>1 DEF CountInv, IInv, Life, LifeOf, OpenOf, Fresh
<1>3. /\ cpc' = cpc /\ domain' = domain
      /\ ppc[r] \notin {"send", "sent"} /\ ppc'[r] \notin {"send", "sent"}
      /\ \A q \in Runs : q # r => ppc'[q] = ppc[q]
  BY <1>1 DEF open_semaphores, childVars, socketVars, PGoto, CountInv, IInv, TypeOK, ParentTypeOK
<1>4. CASE UNCHANGED nameVars
  <2>1. PICK c \in Children : TRUE
    BY ChildrenAssumption
  <2> QED
    BY <1>3, <1>4, <2>1, AnnouncedQuiet DEF nameVars
<1>5. CASE /\ sems' = [sems EXCEPT ![r][s] = o]
           /\ value' = [value EXCEPT ![s][o] = ValueOpened(r, s)]
  <2>1. o \in Runs /\ (names[s] = NoRun => o = r) /\ (names[s] # NoRun => o = names[s])
    BY <1>0, <1>1 DEF Opened, NameTypeOK
  <2>2. ValueOpened(r, s) \in Nat
    BY <1>0, <1>1, RunsAssumption DEF NameTypeOK, ValueOpened, InitialValue
  <2> HIDE DEF s, o
  <2>3. \A q \in Runs, t \in Sems : sems'[q][t] = IF q = r /\ t = s THEN o ELSE sems[q][t]
    <3>1. sems \in [Runs -> [Sems -> Runs \cup {NoRun}]]
      BY <1>0
    <3> QED
      BY <1>1, <1>5, <2>1, <3>1, ChangedAt
  <2>4. \A t \in Sems, q \in Runs :
           value'[t][q] = IF t = s /\ q = o THEN ValueOpened(r, s) ELSE value[t][q]
    <3>1. value \in [Sems -> [Runs -> Nat]]
      BY <1>0
    <3> QED
      BY <1>1, <1>5, <2>1, <2>2, <3>1, ChangedAt
  <2>5. names[s] # NoRun => ValueOpened(r, s) = value[s][o] /\ sems[o][s] = o
    BY <1>1, <2>1 DEF ValueOpened, CountInv, IInv, Creators
  <2>6. names[s] = NoRun => /\ ValueOpened(r, s) = InitialValue[s]
                            /\ \A q \in Runs : sems[q][s] # r
    BY <1>1, <1>2, <2>1, RunsAssumption DEF ValueOpened, CountInv, IInv, Creators
  \* Who opens another semaphore, or joins, changes nothing that is counted.
  <2>7. ASSUME NEW x \in Runs, NEW t \in Sems, ~(t = s /\ x = o /\ names[s] = NoRun), sems'[x][t] = x
        PROVE  /\ sems[x][t] = x /\ value'[t][x] = value[t][x]
               /\ Users(t, x)' = Users(t, x) \cup (IF t = s /\ x = o THEN {r} ELSE {})
               /\ t = s /\ x = o => r \notin Users(t, x)
    <3>1. sems[x][t] = x
      BY <2>1, <2>3, <2>5, <2>7
    <3>2. value'[t][x] = value[t][x]
      BY <2>4, <2>5, <2>7
    <3>3. Users(t, x)' = Users(t, x) \cup (IF t = s /\ x = o THEN {r} ELSE {})
      BY <1>2, <2>3, RunsAssumption DEF Users
    <3>4. t = s /\ x = o => r \notin Users(t, x)
      BY <1>2, RunsAssumption DEF Users
    <3> QED
      BY <3>1, <3>2, <3>3, <3>4
  <2>8. ASSUME NEW x \in Runs, NEW t \in Sems, t = s, x = o, names[s] = NoRun
        PROVE  Users(t, x)' = {r} /\ value'[t][x] = InitialValue[t]
    BY <2>1, <2>3, <2>4, <2>6, <2>8 DEF Users
  <2>9. /\ Total(domain, {r}) = 0
        /\ \A P : "start" \notin P => Cardinality(Places(cpc, {r}, P)) = 0
        /\ \A p \in {"send", "sent"} : Cardinality(Posts(ppc', {r}, p)) = 0
    <3>1. Units(domain, {r}) = {}
      BY <1>2, BudgetAssumption DEF Units
    <3>2. IsFiniteSet({r})
      BY FS_Singleton
    <3>3. \A P : "start" \notin P => Places(cpc, {r}, P) = {}
      BY <1>2 DEF Places
    <3>4. \A p \in {"send", "sent"} : Posts(ppc', {r}, p) = {}
      BY <1>3 DEF Posts
    <3> QED
      BY <3>1, <3>2, <3>3, <3>4, UnitsFinite, FS_EmptySet
  <2>10. ASSUME NEW U, U \subseteq Runs, IsFiniteSet(U), r \notin U
         PROVE  /\ Total(domain, U \cup {r}) = Total(domain, U)
                /\ \A P : "start" \notin P => Places(cpc, U \cup {r}, P) = Places(cpc, U, P)
                /\ \A p \in {"send", "sent"} : Posts(ppc', U \cup {r}, p) = Posts(ppc, U, p)
    <3>1. Total(domain, U \cup {r}) = Total(domain, U) + domain[r]
      BY <1>2, <2>10, BudgetAssumption, TotalJoined
    <3>2. Total(domain, U) \in Nat
      BY <2>10, CountsNat
    <3>3. \A P : "start" \notin P => Places(cpc, U \cup {r}, P) = Places(cpc, U, P)
      <4> SUFFICES ASSUME NEW P, "start" \notin P
                   PROVE  \A x \in (U \cup {r}) \X Children :
                             cpc[x[1]][x[2]] \in P => x \in U \X Children
        BY DEF Places
      <4> QED
        BY <1>2
    <3>4. \A p \in {"send", "sent"} : Posts(ppc', U \cup {r}, p) = Posts(ppc, U, p)
      BY <1>3, <2>10 DEF Posts
    <3>5. Total(domain, U \cup {r}) = Total(domain, U)
      BY <1>2, <3>1, <3>2
    <3> QED
      BY <3>3, <3>4, <3>5
  <2>11. \A U, p : U \subseteq Runs /\ p \in {"send", "sent"} =>
            Posts(ppc', U, p) = Posts(ppc, U, p)
    BY <1>3 DEF Posts
  <2>12. "start" \notin Reading /\ "start" \notin Starved /\ "start" \notin Room
    BY DEF Reading, Starved, Room
  <2>13. ASSUME NEW x \in Runs, sems'[x]["domain_read"] = x PROVE ReadOf(x)'
    <3> DEFINE t == "domain_read"
               R == Users(t, x)
    <3>1. CASE t = s /\ x = o /\ names[s] = NoRun
      <4>1. ReadEq({r}, domain, value'[t][x], cpc, ppc')
        <5>1. value'[t][x] = 0
          BY <1>0, <2>8, <3>1
        <5>2. /\ Total(domain, {r}) = 0 /\ Cardinality(Places(cpc, {r}, Reading)) = 0
              /\ Cardinality(Posts(ppc', {r}, "sent")) = 0
          BY <2>9, <2>12
        <5> QED
          BY <5>1, <5>2 DEF ReadEq
      <4>2. R' = {r}
        BY <1>0, <2>8, <3>1
      <4> QED
        BY <1>3, <4>1, <4>2 DEF ReadOf, ReadEq, ChildrenAt, ParentsAt, Places, Posts
    <3>2. CASE ~(t = s /\ x = o /\ names[s] = NoRun)
      <4>1. /\ sems[x][t] = x /\ value'[t][x] = value[t][x]
            /\ R' = R \cup (IF t = s /\ x = o THEN {r} ELSE {})
            /\ t = s /\ x = o => r \notin R
        BY <1>0, <2>7, <2>13, <3>2
      <4>2. ReadEq(R, domain, value[t][x], cpc, ppc)
        BY <4>1 DEF Announced, ReadOf, ReadEq, ChildrenAt, ParentsAt, Places, Posts
      <4>3. R \subseteq Runs /\ IsFiniteSet(R)
        BY <1>0, UsersFinite
      <4>4. ReadEq(R', domain, value'[t][x], cpc, ppc')
        BY <2>10, <2>11, <2>12, <4>1, <4>2, <4>3 DEF ReadEq
      <4> QED
        BY <1>3, <4>4 DEF ReadOf, ReadEq, ChildrenAt, ParentsAt, Places, Posts
    <3> QED
      BY <3>1, <3>2
  <2>14. ASSUME NEW x \in Runs, sems'[x]["domain_write"] = x PROVE RoomOf(x)'
    <3> DEFINE t == "domain_write"
               W == Users(t, x)
    <3>1. CASE t = s /\ x = o /\ names[s] = NoRun
      <4>1. RoomEq({r}, domain, value'[t][x], cpc, ppc')
        <5>1. value'[t][x] = 1
          BY <1>0, <2>8, <3>1
        <5>2. /\ Total(domain, {r}) = 0 /\ Cardinality(Places(cpc, {r}, Starved)) = 0
              /\ Cardinality(Posts(ppc', {r}, "send")) = 0
              /\ Cardinality(Places(cpc, {r}, Room)) = 0
          BY <2>9, <2>12
        <5> QED
          BY <5>1, <5>2 DEF RoomEq
      <4>2. W' = {r}
        BY <1>0, <2>8, <3>1
      <4> QED
        BY <1>3, <4>1, <4>2 DEF RoomOf, RoomEq, ChildrenAt, ParentsAt, Places, Posts
    <3>2. CASE ~(t = s /\ x = o /\ names[s] = NoRun)
      <4>1. /\ sems[x][t] = x /\ value'[t][x] = value[t][x]
            /\ W' = W \cup (IF t = s /\ x = o THEN {r} ELSE {})
            /\ t = s /\ x = o => r \notin W
        BY <1>0, <2>7, <2>14, <3>2
      <4>2. RoomEq(W, domain, value[t][x], cpc, ppc)
        BY <4>1 DEF Announced, RoomOf, RoomEq, ChildrenAt, ParentsAt, Places, Posts
      <4>3. W \subseteq Runs /\ IsFiniteSet(W)
        BY <1>0, UsersFinite
      <4>4. RoomEq(W', domain, value'[t][x], cpc, ppc')
        BY <2>10, <2>11, <2>12, <4>1, <4>2, <4>3 DEF RoomEq
      <4> QED
        BY <1>3, <4>4 DEF RoomOf, RoomEq, ChildrenAt, ParentsAt, Places, Posts
    <3> QED
      BY <3>1, <3>2
  <2> QED
    BY <2>13, <2>14 DEF Announced
<1> QED
  BY <1>4, <1>5 DEF open_semaphores

LEMMA AnnouncedParent ==
    ASSUME CountInv, Announced, TypeOK', NEW r \in Runs, ParentStep(r) \/ kill_process(r)
    PROVE  Announced'
<1>1. CASE open_semaphores(r)
  BY <1>1, AnnouncedOpened
<1>2. CASE p_send_wait(r) \/ p_send_to_child(r) \/ p_announce(r)
  BY <1>2, AnnouncedSend
<1>3. CASE ~open_semaphores(r) /\ ~p_send_wait(r) /\ ~p_send_to_child(r) /\ ~p_announce(r)
  <2>1. sems' = sems /\ domain' = domain /\ cpc' = cpc
    BY <1>3 DEF ParentStep, setup_process_server, fork_child_process, p_setup_parent, setup_fails,
              setup_crashes, p_dispatch, p_read_pipe_reenable_fd, p_post_pipe, p_end_gogo_handler,
              p_signal_children, p_waitpid, p_interrupted, unlink_semaphores, p_exit, kill_process,
              nameVars, childVars, socketVars
  <2>2. /\ ppc'[r] = ppc[r] \/ (ppc[r] \notin {"send", "sent"} /\ ppc'[r] \notin {"send", "sent"})
        /\ \A q \in Runs : q # r => ppc'[q] = ppc[q]
    BY <1>3 DEF ParentStep, setup_process_server, fork_child_process, p_setup_parent, setup_fails,
              CloseAfterError, setup_crashes, p_dispatch, p_read_pipe_reenable_fd, p_post_pipe,
              p_end_gogo_handler, p_signal_children, p_waitpid, p_interrupted, unlink_semaphores,
              p_exit, kill_process, parentVars, PAt, PGoto, CountInv, IInv, TypeOK, ParentTypeOK
  <2>3. \A o \in Runs : /\ value'["domain_read"][o] = value["domain_read"][o]
                       /\ value'["domain_write"][o] = value["domain_write"][o]
    <3>1. UNCHANGED value \/ (p_post_pipe(r) /\ sem_post(r, "pipe"))
      BY <1>3 DEF ParentStep, setup_process_server, fork_child_process, p_setup_parent, setup_fails,
              setup_crashes, p_dispatch, p_read_pipe_reenable_fd, p_post_pipe, p_end_gogo_handler,
              p_signal_children, p_waitpid, p_interrupted, unlink_semaphores, p_exit, kill_process,
              nameVars
    <3>2. ASSUME p_post_pipe(r) PROVE sems[r]["pipe"] # NoRun
      BY <3>2, SemNames DEF p_post_pipe, PAt, CountInv, IInv, Life, OpenOf
    <3>3. NameTypeOK
      BY DEF CountInv, IInv, TypeOK
    <3> QED
      BY <3>1, <3>2, <3>3, SemNames, SemEffect
  <2>4. PICK c \in Children : TRUE
    BY ChildrenAssumption
  <2> QED
    BY <2>1, <2>2, <2>3, <2>4, AnnouncedQuiet
<1> QED
  BY <1>1, <1>2, <1>3

LEMMA AnnouncedInvariant == Spec => [](CountInv /\ Announced)
<1>1. Init => Announced
  BY RunsAssumption, SemNames DEF Init, Announced
<1>2. CountInv /\ Announced /\ [Next]_vars => Announced'
  <2> SUFFICES ASSUME CountInv, Announced, [Next]_vars PROVE Announced'
    OBVIOUS
  <2>1. TypeOK'
    BY TypesKept DEF CountInv, IInv
  <2>2. ASSUME UNCHANGED vars PROVE Announced'
    <3> USE DEF vars, nameVars, parentVars, childVars, socketVars
    <3>1. \A o \in Runs : (ReadOf(o)' <=> ReadOf(o)) /\ (RoomOf(o)' <=> RoomOf(o))
      BY <2>2, Equations
    <3> QED
      BY <2>2, <3>1 DEF Announced
  <2> QED
    BY <2>1, <2>2, AnnouncedChild, AnnouncedParent DEF Next
<1> QED
  BY <1>1, <1>2, CountInvariant, PTL DEF Spec

\* The read semaphore announces each message in the domain sockets of its users, but for one that
\* is sent and not announced yet, and one for each process that took the announcement and has, or
\* found, no message; and there is room for one message, but for what a sender, a message or a
\* receiver that has yet to post it holds, or one more for each process that found nothing.
THEOREM EveryMessageAnnounced == Spec => []MessagesAnnounced
<1>1. CountInv /\ Announced => MessagesAnnounced
  <2> SUFFICES ASSUME CountInv, Announced, NEW o \in Runs
               PROVE  /\ Users("domain_read", o) # {} => ReadOf(o)
                      /\ Users("domain_write", o) # {} => RoomOf(o)
    BY DEF MessagesAnnounced, ReadOf, RoomOf, Reading, Room, Starved
  <2>1. \A s \in Sems : Users(s, o) # {} => sems[o][s] = o
    BY RunsAssumption DEF Users, CountInv, IInv, Creators
  <2> QED
    BY <2>1, SemNames DEF Announced
<1> QED
  BY <1>1, AnnouncedInvariant, PTL

(***************************************************************************)
(* The log file.                                                           *)
(***************************************************************************)

Gone(r) == {c \in Children : child[r][c] = "exited"}
Headers(r) == Cardinality(Gone(r)) + (IF parent[r] = "exited" THEN 1 ELSE 0)
LogOf(r) == log.headers = Headers(r) /\ log.rows = Total(rows[r], Gone(r))

LEMMA LogAccountsOf ==
    /\ LogAccounts /\ log.owner # NoRun => LogOf(log.owner)
    /\ (log'.owner # NoRun => log'.owner \in Runs /\ \A q \in Runs : log'.owner = q => LogOf(q)')
          => LogAccounts'
<1>1. LogAccounts /\ log.owner # NoRun => LogOf(log.owner)
  BY DEF LogAccounts, LogOf, Headers, Gone
<1>2. ASSUME NEW q \in Runs, log'.owner = q, LogOf(q)' PROVE LogAccounts'
  BY <1>2 DEF LogAccounts, LogOf, Headers, Gone
<1>3. ASSUME log'.owner = NoRun PROVE LogAccounts'
  BY <1>3 DEF LogAccounts
<1> QED
  BY <1>1, <1>2, <1>3

LEMMA GoneFinite == ASSUME NEW r \in Runs PROVE IsFiniteSet(Gone(r)) /\ Cardinality(Gone(r)) \in Nat
<1>1. Gone(r) \in SUBSET Children
  BY DEF Gone
<1> QED
  BY <1>1, ChildrenAssumption, FS_Subset, FS_CardinalityType

\* What does not end a process by itself and does not write to the log keeps the account.
LEMMA LogOfSame ==
    ASSUME NEW r \in Runs, LogOf(r), log' = log,
           parent'[r] = "exited" <=> parent[r] = "exited",
           \A c \in Children : child'[r][c] = "exited" <=> child[r][c] = "exited",
           \A c \in Children : child[r][c] = "exited" => rows'[r][c] = rows[r][c]
    PROVE  LogOf(r)'
<1>1. Gone(r)' = Gone(r)
  BY DEF Gone
<1>2. Total(rows'[r], Gone(r)) = Total(rows[r], Gone(r))
  BY TotalSame DEF Gone
<1>3. Headers(r)' = Headers(r)
  BY <1>1 DEF Headers
<1> QED
  BY <1>1, <1>2, <1>3 DEF LogOf

\* The parent writes the log when it starts, with nothing to account for, and when it exits.
LEMMA ParentLog ==
    ASSUME IInv, NEW r \in Runs, ParentStep(r) \/ kill_process(r)
    PROVE  \/ /\ log' = NewLog(r) /\ parent'[r] = "alive"
              /\ \A c \in Children : child'[r][c] = "none"
           \/ /\ log' = log
              /\ parent'[r] = "exited" <=> parent[r] = "exited"
              /\ \A c \in Children : child'[r][c] = "exited" <=> child[r][c] = "exited"
           \/ /\ log' = Flushed(r, 0) /\ parent[r] # "exited" /\ parent'[r] = "exited"
              /\ child' = child
<1> USE DEF IInv, TypeOK, ParentTypeOK, PEnds, PDies, PExits, PAt, parentVars, childVars, logVars
<1>0. child \in [Runs -> [Children -> Ended]]
  BY DEF ChildTypeOK
<1>1. CASE setup_process_server(r)
  <2>1. \A c \in Children : child[r][c] = "none"
    BY <1>1 DEF setup_process_server, Life, LifeOf
  <2> QED
    BY <1>1, <2>1 DEF setup_process_server
<1>2. CASE fork_child_process(r)
  <2>1. PICK c \in Children : child[r][c] = "none" /\ child' = [child EXCEPT ![r][c] = "alive"]
    BY <1>2 DEF fork_child_process, CEnds
  <2>2. \A d \in Children : child'[r][d] = IF d = c THEN "alive" ELSE child[r][d]
    BY <1>0, <2>1, ChangedAt DEF Ended
  <2> QED
    BY <1>2, <2>1, <2>2 DEF fork_child_process
<1>3. CASE setup_fails(r)
  BY <1>3 DEF setup_fails, CloseAfterError
<1>4. CASE p_exit(r)
  BY <1>4 DEF p_exit
<1>5. CASE kill_process(r)
  <2>1. CASE parent[r] = "alive" /\ PDies(r) /\ UNCHANGED child
    BY <1>5, <2>1 DEF kill_process
  <2>2. CASE UNCHANGED parent /\ \E c \in Children : child[r][c] = "alive" /\ CEnds(r, c, "killed")
    <3>1. PICK c \in Children : child[r][c] = "alive" /\ child' = [child EXCEPT ![r][c] = "killed"]
      BY <2>2 DEF CEnds
    <3>2. \A d \in Children : child'[r][d] = IF d = c THEN "killed" ELSE child[r][d]
      BY <1>0, <3>1, ChangedAt DEF Ended
    <3> QED
      BY <1>5, <2>2, <3>1, <3>2 DEF kill_process
  <2> QED
    BY <1>5, <2>1, <2>2 DEF kill_process
<1>6. CASE ParentStep(r) /\ ~setup_process_server(r) /\ ~fork_child_process(r) /\ ~setup_fails(r)
           /\ ~p_exit(r)
  <2>1. UNCHANGED <<log, child>>
    BY <1>6 DEF ParentStep, open_semaphores, p_setup_parent, setup_crashes, p_dispatch, p_send_wait,
              p_send_to_child, p_announce, p_read_pipe_reenable_fd, p_post_pipe, p_end_gogo_handler,
              p_signal_children, p_waitpid, p_interrupted, unlink_semaphores
  <2>2. parent'[r] = "exited" <=> parent[r] = "exited"
    BY <1>6 DEF ParentStep, open_semaphores, p_setup_parent, setup_crashes, p_dispatch, p_send_wait,
              p_send_to_child, p_announce, p_read_pipe_reenable_fd, p_post_pipe, p_end_gogo_handler,
              p_signal_children, p_waitpid, p_interrupted, unlink_semaphores
  <2> QED
    BY <2>1, <2>2
<1> QED
  BY <1>1, <1>2, <1>3, <1>4, <1>5, <1>6

\* A child writes the log when it exits, with all the rows it has printed.
LEMMA ChildLog ==
    ASSUME CountInv, NEW r \in Runs, NEW c \in Children, ChildStep(r, c)
    PROVE  /\ child[r][c] = "alive" /\ UNCHANGED parent
           /\ \A d \in Children : d # c => child'[r][d] = child[r][d]
           /\ \/ log' = log /\ child'[r][c] # "exited"
              \/ log' = Flushed(r, rows'[r][c]) /\ child'[r][c] = "exited"
<1>0. TypeOK /\ child \in [Runs -> [Children -> Ended]]
  BY DEF CountInv, IInv, TypeOK, ChildTypeOK
<1>1. child[r][c] = "alive" /\ UNCHANGED parent
  BY <1>0, ChildKeeps DEF parentVars
<1>2. ASSUME NEW how \in Ended, CEnds(r, c, how), NEW d \in Children
      PROVE  child'[r][d] = IF d = c THEN how ELSE child[r][d]
  BY <1>0, <1>2, ChangedAt DEF CEnds
<1>3. \/ log' = log /\ (UNCHANGED child \/ CEnds(r, c, "killed"))
      \/ log' = Flushed(r, rows'[r][c]) /\ CEnds(r, c, "exited")
  BY DEF ChildStep, c_setup_child, c_read_wait, c_recvmsg, c_post_room, c_pipe_wait,
         c_inform_parent_recv_finished, c_log_wait, c_log, c_exit, c_end_gogo_handler,
         c_interrupted, logVars
<1>4. "killed" \in Ended /\ "exited" \in Ended
  BY DEF Ended
<1> QED
  BY <1>1, <1>2, <1>3, <1>4

LEMMA FlushedLog ==
    ASSUME LogTypeOK, NEW r \in Runs, NEW n \in Nat, log' = Flushed(r, n), log'.owner # NoRun
    PROVE  /\ log.owner = r /\ log'.owner = r
           /\ log'.headers = log.headers + 1 /\ log'.rows = log.rows + n
  BY DEF Flushed, NewLog, LogTypeOK

LEMMA LogKeptByParent ==
    ASSUME CountInv, LogAccounts, NEW r \in Runs, ParentStep(r) \/ kill_process(r)
    PROVE  LogAccounts'
<1>0. /\ IInv /\ TypeOK /\ LogTypeOK /\ UNCHANGED rows
      /\ log.owner \in Runs \cup {NoRun} /\ log.headers \in Nat /\ log.rows \in Nat
  BY ParentCounts DEF CountInv, IInv, TypeOK, LogTypeOK
<1>1. CASE /\ log' = NewLog(r) /\ parent'[r] = "alive"
           /\ \A c \in Children : child'[r][c] = "none"
  <2>1. Gone(r)' = {}
    BY <1>1 DEF Gone
  <2>2. Headers(r)' = 0
    BY <1>1, <2>1, FS_EmptySet DEF Headers
  <2>3. Units(rows'[r], {}) = {}
    BY DEF Units
  <2>4. Total(rows'[r], {}) = 0
    BY <2>3, UnitsFinite, FS_EmptySet
  <2> QED
    BY <1>1, <2>1, <2>2, <2>4, LogAccountsOf DEF LogOf, NewLog
<1>2. CASE /\ log' = log
           /\ parent'[r] = "exited" <=> parent[r] = "exited"
           /\ \A c \in Children : child'[r][c] = "exited" <=> child[r][c] = "exited"
  <2> SUFFICES ASSUME NEW q \in Runs, LogOf(q) PROVE LogOf(q)'
    BY <1>0, <1>2, LogAccountsOf
  <2>1. CASE q = r
    BY <1>0, <1>2, <2>1, LogOfSame
  <2>2. CASE q # r
    BY <1>0, <1>2, <2>2, LogOfSame, Others
  <2> QED
    BY <2>1, <2>2
<1>3. CASE /\ log' = Flushed(r, 0) /\ parent[r] # "exited" /\ parent'[r] = "exited"
           /\ child' = child
  <2> SUFFICES ASSUME log'.owner # NoRun PROVE LogAccounts'
    BY LogAccountsOf
  <2>1. log.owner = r /\ log'.owner = r /\ log'.headers = log.headers + 1 /\ log'.rows = log.rows + 0
    BY <1>0, <1>3, FlushedLog
  <2>2. LogOf(r)
    BY <2>1, LogAccountsOf, RunsAssumption
  <2>3. Gone(r)' = Gone(r)
    BY <1>3 DEF Gone
  <2>4. Headers(r)' = Headers(r) + 1
    BY <1>3, <2>3, GoneFinite DEF Headers
  <2> QED
    BY <1>0, <2>1, <2>2, <2>3, <2>4, LogAccountsOf DEF LogOf
<1> QED
  BY <1>0, <1>1, <1>2, <1>3, ParentLog

LEMMA LogKeptByChild ==
    ASSUME CountInv, CountInv', LogAccounts, NEW r \in Runs, NEW c \in Children, ChildStep(r, c)
    PROVE  LogAccounts'
<1>0. /\ TypeOK /\ LogTypeOK /\ Fresh
      /\ log.owner \in Runs \cup {NoRun} /\ log.headers \in Nat /\ log.rows \in Nat
  BY DEF CountInv, IInv, TypeOK, LogTypeOK
<1>1. /\ rows' \in [Runs -> [Children -> Nat]]
      /\ \A q \in Runs, d \in Children : ~(q = r /\ d = c) => rows'[q][d] = rows[q][d]
  BY <1>0, ChildCounts
<1>2. /\ child[r][c] = "alive" /\ UNCHANGED parent
      /\ \A d \in Children : d # c => child'[r][d] = child[r][d]
  BY ChildLog
<1>3. CASE log' = log /\ child'[r][c] # "exited"
  <2> SUFFICES ASSUME NEW q \in Runs, LogOf(q) PROVE LogOf(q)'
    BY <1>0, <1>3, LogAccountsOf
  <2>1. CASE q = r
    BY <1>1, <1>2, <1>3, <2>1, LogOfSame
  <2>2. CASE q # r
    BY <1>0, <1>1, <1>3, <2>2, LogOfSame, Others
  <2> QED
    BY <2>1, <2>2
<1>4. CASE log' = Flushed(r, rows'[r][c]) /\ child'[r][c] = "exited"
  <2> SUFFICES ASSUME log'.owner # NoRun PROVE LogAccounts'
    BY LogAccountsOf
  <2> DEFINE n == rows'[r][c]
             G == Gone(r)
  <2>1. n \in Nat /\ n <= Budget
    <3>1. Paid(r, c)' /\ spent' \in 0 .. Budget /\ domain'[r] \in Nat /\ n \in Nat
      BY <1>1 DEF CountInv, Bound, IInv, TypeOK, SocketTypeOK
    <3>2. Holding(r, c)' \in Nat /\ Sending(r)' \in Nat
      BY DEF Holding, Sending
    <3> QED
      BY <3>1, <3>2, BudgetAssumption DEF Paid
  <2>2. log.owner = r /\ log'.owner = r /\ log'.headers = log.headers + 1 /\ log'.rows = log.rows + n
    <3> HIDE DEF n
    <3> QED
      BY <1>0, <1>4, <2>1, FlushedLog DEF n
  <2>3. LogOf(r)
    BY <2>2, LogAccountsOf, RunsAssumption
  <2>4. c \notin G /\ Gone(r)' = G \cup {c}
    BY <1>2, <1>4 DEF Gone
  <2>5. IsFiniteSet(G) /\ Cardinality(G) \in Nat
    BY GoneFinite
  <2>6. Cardinality(Gone(r)') = Cardinality(G) + 1
    BY <2>4, <2>5, FS_AddElement
  <2>7. Headers(r)' = Headers(r) + 1
    BY <1>2, <2>5, <2>6 DEF Headers
  <2>8. Total(rows'[r], Gone(r)') = Total(rows[r], G) + n
    <3>1. Total(rows'[r], G \cup {c}) = Total(rows'[r], G) + n
      BY <2>1, <2>4, <2>5, TotalJoined
    <3>2. Total(rows'[r], G) = Total(rows[r], G)
      BY <1>1, <2>4, TotalSame DEF Gone
    <3> QED
      BY <2>4, <3>1, <3>2
  <2> QED
    BY <2>2, <2>3, <2>7, <2>8, LogAccountsOf DEF LogOf
<1> QED
  BY <1>3, <1>4, ChildLog

\* Wherever a process is killed, the log of a run to which no other run wrote has the header once
\* for each of its processes that has exited, since the fork copied the buffer it was in, and every
\* row those have printed, once.
THEOREM LogAddsUp == Spec => []LogAccounts
<1>1. Init => LogAccounts
  BY DEF Init, LogAccounts, NewLog
<1>2. CountInv /\ CountInv' /\ LogAccounts /\ [Next]_vars => LogAccounts'
  <2> SUFFICES ASSUME CountInv, CountInv', LogAccounts, [Next]_vars PROVE LogAccounts'
    OBVIOUS
  <2>1. ASSUME UNCHANGED vars PROVE LogAccounts'
    BY <2>1 DEF vars, parentVars, childVars, logVars, LogAccounts, Total
  <2> QED
    BY <2>1, LogKeptByParent, LogKeptByChild DEF Next
<1> QED
  BY <1>1, <1>2, CountInvariant, PTL DEF Spec

(***************************************************************************)
(* Runs that nothing disturbs: nobody is killed, no call of theirs fails,  *)
(* no parent is signalled again and none is started while another is       *)
(* alive.                                                                  *)
(***************************************************************************)

Undisturbed == \A e \in Events \ {"message"} : Cost[e] > Budget

Alive(r) == parent[r] = "alive"
Tearing(r) == ppc[r] \in {"reap", "unlink", "exit"}

\* A run alone: it has its own semaphores, or none; until its parent has signalled the children
\* they are all there, and while one of them is, so are the parent's files.
CleanRun(r) ==
    /\ parent[r] # "killed" /\ ppc[r] # "kill"
    /\ parent[r] = "exited" => ppc[r] = "exit"
    /\ Alive(r) => \A q \in Runs : Alive(q) => q = r
    /\ \A s \in Sems : sems[r][s] \in {r, NoRun}
    /\ domain[r] > 0 => \A s \in Sems : sems[r][s] # NoRun
    /\ port = r => Alive(r) /\ ppc[r] \notin {"open", "fork", "setup", "unlink", "exit"}
    /\ given_up[r] = {}
    /\ ~Tearing(r) => /\ pending[r] = {}
                      /\ \A c \in Children : gogo[r][c] /\ child[r][c] \in {"none", "alive"}
    /\ \A c \in Children : /\ cpc[r][c] \notin {"eof", "failed", "starved"}
                           /\ cpc[r][c] = "served" => Tearing(r)
                           /\ child[r][c] = "killed" => cpc[r][c] = "start"
                           /\ child[r][c] = "alive" => Alive(r) /\ ppc[r] \notin {"unlink", "exit"}

CleanInv == \A r \in Runs : CleanRun(r)

LEMMA OnlyMessages ==
    ASSUME Undisturbed, TypeOK, NEW e \in Events \ {"message"}
    PROVE  ~Spend(e)
<1>1. spent \in Nat /\ Cost[e] \in Nat /\ Budget \in Nat /\ Cost[e] > Budget
  BY BudgetAssumption DEF TypeOK, Undisturbed
<1> QED
  BY <1>1 DEF Spend

LEMMA Failures ==
    /\ {"kill", "signal", "beside", "sem_open", "fork", "calloc", "bind", "getpeername"}
          \subseteq Events
    /\ "message" \notin
          {"kill", "signal", "beside", "sem_open", "fork", "calloc", "bind", "getpeername"}
  BY DEF Events

\* Where a name stands for a semaphore, the run that created it is the one that is alive.
LEMMA NamesAlive ==
    ASSUME IInv, CleanInv, NEW s \in Sems, names[s] # NoRun
    PROVE  names[s] \in Runs /\ Alive(names[s])
<1>1. names[s] \in Runs
  BY DEF IInv, TypeOK, NameTypeOK
<1>2. parent[names[s]] \in {"alive", "killed"} \/ Abandoned(names[s])
  BY NamesHeld DEF NamesLeftByFailure
<1> QED
  BY <1>1, <1>2 DEF CleanInv, CleanRun, Alive, Abandoned

LEMMA CleanByParent ==
    ASSUME Undisturbed, IInv, Fresh, CleanInv, NEW r \in Runs, ParentStep(r)
    PROVE  CleanRun(r)'
<1> USE DEF Alive, Tearing, PAt, PGoto, PEnds
<1>0. /\ CleanRun(r) /\ LifeOf(r) /\ OpenOf(r)
      /\ parent \in [Runs -> Ended] /\ sems \in [Runs -> [Sems -> Runs \cup {NoRun}]]
      /\ child \in [Runs -> [Children -> Ended]] /\ domain \in [Runs -> Nat]
      /\ pending \in [Runs -> SUBSET Children] /\ port \in Runs \cup {NoRun}
      /\ ppc \in [Runs -> Looping \cup {"open", "fork", "setup", "kill", "reap", "unlink", "exit"}]
  BY DEF CleanInv, IInv, Life, TypeOK, NameTypeOK, ParentTypeOK, ChildTypeOK, SocketTypeOK
<1>1. \A e \in Events \ {"message"} : ~Spend(e)
  BY OnlyMessages DEF IInv
<1>2. ~p_interrupted(r)
  BY <1>1, Failures DEF p_interrupted
<1>3. UNCHANGED <<cpc, gogo, given_up>> /\ \A q \in Runs : q # r => parent'[q] = parent[q]
  <2>1. UNCHANGED <<cpc, gogo, given_up>>
    BY <1>1, <1>2 DEF ParentStep, setup_process_server, open_semaphores, fork_child_process,
           p_setup_parent, setup_fails, setup_crashes, p_dispatch, p_send_wait, p_send_to_child,
           p_announce, p_read_pipe_reenable_fd, p_post_pipe, p_end_gogo_handler, p_signal_children,
           p_waitpid, unlink_semaphores, p_exit, childVars
  <2> QED
    BY <2>1, Others DEF IInv
<1>4. CASE setup_process_server(r)
  <2>1. parent[r] = "none" /\ \A q \in Runs : ~Alive(q)
    BY <1>1, <1>4, Failures DEF setup_process_server
  <2>2. ppc[r] = "open" /\ \A c \in Children : child[r][c] = "none"
    BY <1>0, <2>1 DEF LifeOf
  <2>3. parent'[r] = "alive" /\ UNCHANGED <<sems, domain, port, ppc, child, pending>>
    BY <1>0, <1>4 DEF setup_process_server, nameVars, childVars, socketVars
  <2> QED
    BY <1>0, <1>3, <2>1, <2>2, <2>3 DEF CleanRun
<1>5. CASE open_semaphores(r)
  <2> DEFINE s == Order[at[r]]
  <2>1. s \in Sems /\ at[r] \in 1 .. 4 /\ ppc[r] = "open" /\ Alive(r) /\ domain[r] = 0
    BY <1>5, SemNames DEF open_semaphores, IInv, TypeOK, ParentTypeOK, Fresh
  <2>2. sems[r][s] = NoRun
    BY <1>0, <2>1 DEF OpenOf
  <2>3. Opened(r, s) = r
    <3>1. ASSUME names[s] # NoRun PROVE FALSE
      <4>1. names[s] \in Runs /\ Alive(names[s])
        BY <2>1, <3>1, NamesAlive
      <4>2. names[s] = r
        BY <1>0, <2>1, <4>1 DEF CleanRun
      <4> QED
        BY <2>1, <2>2, <3>1, <4>2, RunsAssumption DEF IInv, Creators
    <3> QED
      BY <3>1 DEF Opened
  <2>4. sems' = [sems EXCEPT ![r][s] = r]
    BY <1>1, <1>5, <2>3, Failures DEF open_semaphores
  <2>5. \A q \in Runs, t \in Sems : sems'[q][t] = IF q = r /\ t = s THEN r ELSE sems[q][t]
    <3> HIDE DEF s
    <3> QED
      BY <1>0, <2>1, <2>4, ChangedAt
  <2>6. \A c \in Children : child[r][c] = "none"
    BY <1>0, <2>1 DEF LifeOf
  <2>7. /\ UNCHANGED <<parent, port, child, pending, domain>>
        /\ ppc'[r] \in {"open", "fork", "unlink"}
    BY <1>0, <1>5, <2>1 DEF open_semaphores, childVars, socketVars
  <2> QED
    BY <1>0, <1>3, <2>1, <2>5, <2>6, <2>7 DEF CleanRun
<1>6. CASE fork_child_process(r)
  <2>1. PICK c \in Children : child[r][c] = "none" /\ child' = [child EXCEPT ![r][c] = "alive"]
    BY <1>6 DEF fork_child_process, CEnds
  <2>2. \A d \in Children : child'[r][d] = IF d = c THEN "alive" ELSE child[r][d]
    BY <1>0, <2>1, ChangedAt DEF Ended
  <2>3. /\ UNCHANGED <<parent, port, sems, pending, domain>>
        /\ Alive(r) /\ ppc[r] = "fork" /\ ppc'[r] \in {"fork", "setup"}
    BY <1>0, <1>6 DEF fork_child_process, nameVars, socketVars
  <2> QED
    BY <1>0, <1>3, <2>2, <2>3 DEF CleanRun
<1>7. CASE p_setup_parent(r)
  <2>1. /\ UNCHANGED <<parent, sems, pending, domain, child>>
        /\ Alive(r) /\ ppc[r] = "setup" /\ ppc'[r] = "poll"
    BY <1>0, <1>7 DEF p_setup_parent, nameVars, childVars, socketVars
  <2> QED
    BY <1>0, <1>3, <2>1 DEF CleanRun
<1>8. ~setup_fails(r) /\ ~setup_crashes(r)
  <2>1. ASSUME PAt(r, "setup") PROVE port = NoRun
    BY <1>0, <2>1 DEF CleanInv, CleanRun
  <2> QED
    BY <1>1, <2>1, Failures DEF setup_fails, setup_crashes
<1>9. CASE p_send_to_child(r)
  <2>1. ppc[r] = "send" /\ Alive(r) /\ \A s \in Sems : sems[r][s] # NoRun
    BY <1>0, <1>9 DEF p_send_to_child, OpenOf
  <2>2. \A c \in Children : child[r][c] = "alive"
    BY <1>0, <2>1 DEF CleanRun, LifeOf, Forked, Looping
  <2>3. ppc'[r] = "sent" /\ UNCHANGED <<parent, port, child, pending, sems>>
    BY <1>0, <1>9, <2>2, ChildrenAssumption DEF p_send_to_child, childVars, nameVars
  <2> QED
    BY <1>0, <1>3, <2>1, <2>3 DEF CleanRun
<1>10. CASE \/ p_dispatch(r) \/ p_send_wait(r) \/ p_announce(r) \/ p_read_pipe_reenable_fd(r)
            \/ p_post_pipe(r) \/ p_end_gogo_handler(r)
  <2>1. /\ UNCHANGED <<parent, port, child, pending, sems, domain>>
        /\ ppc[r] \in Looping /\ ppc'[r] \in Looping
    BY <1>0, <1>10 DEF p_dispatch, p_send_wait, p_announce, p_read_pipe_reenable_fd, p_post_pipe,
       p_end_gogo_handler, Looping, nameVars, parentVars, childVars, socketVars
  <2> QED
    BY <1>0, <1>3, <2>1 DEF CleanRun, Looping
<1>11. CASE p_signal_children(r)
  <2>1. /\ UNCHANGED <<parent, port, child, sems, domain>>
        /\ ppc[r] = "poll" /\ ppc'[r] = "reap"
    BY <1>0, <1>11 DEF p_signal_children, CleanRun, nameVars, socketVars
  <2> QED
    BY <1>0, <1>3, <2>1 DEF CleanRun
<1>12. CASE p_waitpid(r)
  <2>1. /\ UNCHANGED <<parent, child, sems, domain, pending>>
        /\ ppc[r] = "reap" /\ ppc'[r] = "unlink" /\ port' # r
        /\ \A c \in Children : child[r][c] # "alive"
    BY <1>0, <1>12, RunsAssumption
    DEF p_waitpid, PortAfter, ChildrenGone, CleanRun, nameVars, childVars, socketVars
  <2> QED
    BY <1>0, <1>3, <2>1 DEF CleanRun
<1>13. CASE unlink_semaphores(r) \/ p_exit(r)
  <2>1. /\ UNCHANGED <<port, child, sems, domain, pending>>
        /\ \/ ppc[r] = "unlink" /\ ppc'[r] \in {"unlink", "exit"} /\ parent'[r] = parent[r]
           \/ ppc[r] = "exit" /\ ppc'[r] = "exit" /\ parent[r] = "alive" /\ parent'[r] = "exited"
    BY <1>0, <1>13 DEF unlink_semaphores, p_exit, PExits, nameVars, childVars, socketVars
  <2>2. \A c \in Children : child[r][c] # "alive"
    BY <1>0, <2>1 DEF CleanRun
  <2> QED
    BY <1>0, <1>3, <2>1, <2>2 DEF CleanRun
<1> QED
  BY <1>2, <1>4, <1>5, <1>6, <1>7, <1>8, <1>9, <1>10, <1>11, <1>12, <1>13 DEF ParentStep

\* In an undisturbed run recvmsg() finds the message that the semaphore announced.
LEMMA CleanFinds ==
    ASSUME CountInv, Announced, CleanInv, NEW r \in Runs, NEW c \in Children, cpc[r][c] = "recv"
    PROVE  domain[r] > 0
<1> DEFINE R == Users("domain_read", r)
<1>1. "domain_read" \in Sems
  BY SemNames
<1>2. child[r][c] # "none" /\ \A s \in Sems : sems[r][s] # NoRun
  BY DEF CountInv, IInv, Life, LifeOf, OpenOf
<1>3. R = {r}
  BY <1>1, <1>2, RunsAssumption DEF CleanInv, CleanRun, Users
<1>4. Total(domain, R) = value["domain_read"][r] + Cardinality(ChildrenAt(R, Reading))
                           + Cardinality(ParentsAt(R, "sent"))
  BY <1>1, <1>3 DEF Users, Announced, ReadOf
<1>5. Cardinality(ChildrenAt(R, Reading)) \in Nat \ {0}
  <2>1. IsFiniteSet(ChildrenAt(R, Reading))
    BY <1>1, UsersFinite
  <2>2. <<r, c>> \in ChildrenAt(R, Reading)
    BY <1>3 DEF ChildrenAt, Reading
  <2> QED
    BY <2>1, <2>2, FS_EmptySet, FS_CardinalityType
<1>6. value["domain_read"][r] \in Nat /\ domain[r] \in Nat
  BY <1>1 DEF CountInv, IInv, TypeOK, NameTypeOK, SocketTypeOK
<1>8. Cardinality(ParentsAt(R, "sent")) \in Nat
  BY <1>1, UsersFinite, FS_CardinalityType
<1>7. ASSUME domain[r] = 0 PROVE Total(domain, R) = 0
  <2>1. Units(domain, R) = {}
    BY <1>3, <1>7, BudgetAssumption DEF Units
  <2>2. IsFiniteSet(R)
    BY <1>1, UsersFinite
  <2> QED
    BY <2>1, <2>2, UnitsFinite, FS_EmptySet
<1> QED
  BY <1>4, <1>5, <1>6, <1>7, <1>8

LEMMA CleanByChild ==
    ASSUME Undisturbed, CountInv, Announced, CleanInv,
           NEW r \in Runs, NEW c \in Children, ChildStep(r, c)
    PROVE  CleanRun(r)'
<1>0. /\ CleanRun(r) /\ TypeOK /\ Fresh
      /\ child \in [Runs -> [Children -> Ended]] /\ gogo \in [Runs -> [Children -> BOOLEAN]]
      /\ pending \in [Runs -> SUBSET Children] /\ domain \in [Runs -> Nat]
      /\ cpc \in [Runs -> [Children -> ChildPlaces]]
  BY DEF CleanInv, CountInv, IInv, TypeOK, ChildTypeOK, SocketTypeOK
<1>1. \A e \in Events \ {"message"} : ~Spend(e)
  BY <1>0, OnlyMessages
<1>2. /\ UNCHANGED <<parentVars, names, sems, given_up>> /\ child[r][c] = "alive"
      /\ \A d \in Children : d # c => cpc'[r][d] = cpc[r][d]
  BY <1>0, ChildKeeps
<1>3. ParentEndsOpen(r) /\ cpc[r][c] \notin {"eof", "failed", "starved"}
  BY <1>0, <1>2 DEF CleanRun, Alive, ParentEndsOpen
<1>4. cpc[r][c] = "recv" => domain[r] # 0
  BY <1>0, CleanFinds
<1>5. \A e \in {"calloc", "getpeername"} : ~Spend(e)
  BY <1>1, Failures
<1>6. ASSUME NEW how, CEnds(r, c, how), NEW d \in Children
      PROVE  child'[r][d] = IF d = c THEN how ELSE child[r][d]
  <2>1. child'[r] = [child[r] EXCEPT ![c] = how]
    BY <1>0, <1>6 DEF CEnds
  <2> QED
    BY <1>0, <2>1
<1>7. ASSUME NEW pc, CGoto(r, c, pc) PROVE cpc'[r][c] = pc
  <2>1. cpc'[r] = [cpc[r] EXCEPT ![c] = pc]
    BY <1>0, <1>7 DEF CGoto
  <2> QED
    BY <1>0, <2>1
<1>10. pending[r] # {} \/ ~gogo[r][c] => Tearing(r)
  BY <1>0 DEF CleanRun
\* What the step does to the child itself, and that it was signalled if it ends.
<1>8. /\ cpc'[r][c] \notin {"eof", "failed", "starved"}
      /\ \/ UNCHANGED child
         \/ CEnds(r, c, "exited") /\ Tearing(r)
         \/ CEnds(r, c, "killed") /\ cpc'[r][c] = "start" /\ Tearing(r)
      /\ cpc'[r][c] = "served" => Tearing(r)
      /\ UNCHANGED <<gogo, pending>> \/ Tearing(r)
  <2>1. CASE c_setup_child(r, c)
    BY <1>5, <1>7, <2>1 DEF c_setup_child
  <2>2. CASE c_read_wait(r, c) \/ c_pipe_wait(r, c) \/ c_log_wait(r, c)
    BY <1>7, <2>2 DEF c_read_wait, c_pipe_wait, c_log_wait
  <2>3. CASE c_recvmsg(r, c)
    BY <1>4, <1>7, <2>3 DEF c_recvmsg, CAt
  <2>4. CASE c_post_room(r, c)
    BY <1>3, <1>5, <1>7, <2>4 DEF c_post_room
  <2>5. CASE c_inform_parent_recv_finished(r, c)
    BY <1>3, <1>7, <2>5 DEF c_inform_parent_recv_finished
  <2>6. CASE c_log(r, c)
    BY <1>7, <1>10, <2>6 DEF c_log
  <2>7. CASE c_exit(r, c)
    BY <1>0, <1>3, <2>7 DEF c_exit, CAt, CleanRun
  <2>8. CASE c_end_gogo_handler(r, c)
    BY <1>0, <1>3, <1>10, <2>8 DEF c_end_gogo_handler, Delivered, CleanRun
  <2>9. CASE c_interrupted(r, c)
    BY <1>4, <1>7, <1>10, <2>9 DEF c_interrupted, Delivered
  <2> QED
    BY <2>1, <2>2, <2>3, <2>4, <2>5, <2>6, <2>7, <2>8, <2>9 DEF ChildStep
<1>9. domain'[r] <= domain[r]
  <2>1. domain' = domain \/ (domain' = [domain EXCEPT ![r] = @ - 1] /\ domain[r] > 0)
    BY <1>0, ChildCounts
  <2> QED
    BY <1>0, <2>1
<1>11. domain'[r] > 0 => domain[r] > 0
  <2>1. domain[r] \in Nat /\ domain'[r] \in Nat
    BY <1>0, SocketTypesKept DEF Next, SocketTypeOK
  <2> QED
    BY <1>9, <2>1
<1>12. CASE UNCHANGED child
  BY <1>0, <1>2, <1>8, <1>11, <1>12 DEF CleanRun, Alive, Tearing, parentVars
<1>13. CASE ~UNCHANGED child
  <2>1. PICK how \in {"exited", "killed"} : CEnds(r, c, how) /\ (how = "killed" => cpc'[r][c] = "start")
    BY <1>8, <1>13
  <2>2. \A d \in Children : child'[r][d] = IF d = c THEN how ELSE child[r][d]
    BY <1>6, <2>1
  <2>3. Tearing(r)
    BY <1>8, <1>13
  <2> QED
    BY <1>0, <1>2, <1>8, <1>11, <2>1, <2>2, <2>3 DEF CleanRun, Alive, Tearing, parentVars
<1> QED
  BY <1>12, <1>13

\* A step of one run leaves the others as they are, except that it may come to be the one alive.
LEMMA CleanElsewhere ==
    ASSUME Undisturbed, IInv, CleanInv, NEW r \in Runs, NEW q \in Runs, q # r,
           ParentStep(r) \/ (\E c \in Children : ChildStep(r, c))
    PROVE  CleanRun(q)'
<1>0. /\ CleanRun(q) /\ TypeOK /\ port \in Runs \cup {NoRun}
      /\ gogo \in [Runs -> [Children -> BOOLEAN]] /\ pending \in [Runs -> SUBSET Children]
  BY DEF CleanInv, IInv, TypeOK, ParentTypeOK, ChildTypeOK
<1>1. /\ parent'[q] = parent[q] /\ ppc'[q] = ppc[q] /\ sems'[q] = sems[q]
      /\ child'[q] = child[q] /\ cpc'[q] = cpc[q] /\ domain'[q] = domain[q]
  BY <1>0, Others
<1>2. gogo'[q] = gogo[q] /\ pending'[q] = pending[q] /\ given_up'[q] = given_up[q]
  BY <1>0, Others
<1>3. port' = q => port = q
  <2>1. CASE ParentStep(r)
    BY <1>0, <2>1, RunsAssumption
    DEF ParentStep, setup_process_server, open_semaphores, fork_child_process,
        p_setup_parent, setup_fails, setup_crashes, p_dispatch, p_send_wait, p_send_to_child,
        p_announce, p_read_pipe_reenable_fd, p_post_pipe, p_end_gogo_handler, p_signal_children,
        p_waitpid, p_interrupted, unlink_semaphores, p_exit, parentVars, PDies, PortAfter
  <2>2. ASSUME NEW c \in Children, ChildStep(r, c) PROVE port' = port
    BY <1>0, <2>2, ChildKeeps DEF parentVars
  <2> QED
    BY <2>1, <2>2
<1>4. Alive(q) => ~Alive(r)'
  <2>1. ASSUME Alive(q) PROVE ~Alive(r)
    BY <1>0, <2>1 DEF CleanRun
  <2>2. ASSUME setup_process_server(r) PROVE ~Alive(q)
    BY <2>2, OnlyMessages, Failures, <1>0 DEF setup_process_server, Alive
  <2>3. ASSUME ~setup_process_server(r), Alive(r)' PROVE Alive(r)
    <3>1. CASE ParentStep(r)
      BY <2>3, <3>1 DEF ParentStep, open_semaphores, fork_child_process, p_setup_parent,
           setup_fails, setup_crashes, p_dispatch, p_send_wait, p_send_to_child, p_announce,
           p_read_pipe_reenable_fd, p_post_pipe, p_end_gogo_handler, p_signal_children, p_waitpid,
           p_interrupted, unlink_semaphores, p_exit, PAt, Alive, parentVars
    <3>2. ASSUME NEW c \in Children, ChildStep(r, c) PROVE Alive(r)
      BY <1>0, <2>3, <3>2, ChildKeeps DEF parentVars, Alive
    <3> QED
      BY <3>1, <3>2
  <2> QED
    BY <2>1, <2>2, <2>3
<1>5. \A p \in Runs : p # r => (Alive(p)' <=> Alive(p))
  BY <1>0, Others DEF Alive
<1>6. Alive(q)' => \A p \in Runs : Alive(p)' => p = q
  BY <1>0, <1>4, <1>5 DEF CleanRun
<1>7. (Alive(q)' <=> Alive(q)) /\ (Tearing(q)' <=> Tearing(q))
  BY <1>1 DEF Alive, Tearing
<1> QED
  BY <1>0, <1>1, <1>2, <1>3, <1>6, <1>7 DEF CleanRun

\* One run after another: no two of them have a semaphore in common, or a name that outlives its
\* run; no parent dies and no child outlives its parent; a child is killed only before it has set
\* its handlers; no child finds its message gone, or its pipe closed, which would kill it; and as in
\* ProcessServer a domain socket holds one message.
Apart ==
    /\ \A r \in Runs : /\ parent[r] # "killed" /\ domain[r] <= 1
                       /\ \A s \in Sems : sems[r][s] \in {r, NoRun}
                       /\ Alive(r) => \A q \in Runs : Alive(q) => q = r
    /\ \A r \in Runs, c \in Children : /\ child[r][c] = "alive" => Alive(r)
                                       /\ child[r][c] = "killed" => cpc[r][c] = "start"
                                       /\ cpc[r][c] \notin {"eof", "failed", "starved"}
    /\ \A s \in Sems : names[s] # NoRun => Alive(names[s])

LEMMA CleanRoom ==
    ASSUME CountInv, Announced, CleanInv, NEW r \in Runs
    PROVE  domain[r] <= 1
<1> DEFINE W == Users("domain_write", r)
           s == "domain_write"
<1>0. s \in Sems /\ CleanRun(r) /\ value[s][r] \in Nat /\ domain[r] \in Nat
  BY SemNames DEF CleanInv, CountInv, IInv, TypeOK, NameTypeOK, SocketTypeOK
<1>1. SUFFICES ASSUME domain[r] > 0 PROVE domain[r] <= 1
  BY <1>0
<1>2. sems[r][s] = r
  BY <1>0, <1>1 DEF CleanRun
<1>3. W = {r} /\ IsFiniteSet(W)
  BY <1>0, <1>2, RunsAssumption, UsersFinite DEF CleanInv, CleanRun, Users
<1>4. RoomOf(r)
  BY <1>2 DEF Announced
<1>5. Cardinality(ChildrenAt(W, Starved)) = 0
  <2>1. ChildrenAt(W, Starved) = {}
    BY <1>0, <1>3 DEF CleanRun, ChildrenAt, Starved
  <2> QED
    BY <2>1, FS_EmptySet
<1>6. Cardinality(ParentsAt(W, "send")) \in Nat
  BY <1>0, UsersFinite, FS_CardinalityType
<1>7. Total(domain, W) = domain[r]
  <2>1. domain[r] <= Budget
    <3>1. domain[r] + Sending(r) <= Budget /\ Sending(r) \in Nat
      BY DomainBounded DEF Sending
    <3> QED
      BY <1>0, <3>1, BudgetAssumption
  <2>2. ASSUME NEW E, E = {} PROVE Total(domain, E \cup {r}) = domain[r]
    <3>1. IsFiniteSet(E) /\ Cardinality(E) = 0
      BY <2>2, FS_EmptySet
    <3>2. Units(domain, E) = E
      BY <2>2 DEF Units
    <3>3. Total(domain, E \cup {r}) = Total(domain, E) + domain[r]
      BY <1>0, <2>1, <2>2, <3>1, TotalJoined
    <3> QED
      BY <1>0, <3>1, <3>2, <3>3, UnitsFinite
  <2>3. \A E : E = {} => E \cup {r} = W
    BY <1>3
  <2> QED
    BY <2>2, <2>3
<1>8. value[s][r] + Cardinality(ParentsAt(W, "send")) + Total(domain, W)
         + Cardinality(ChildrenAt(W, Room))
         = 1 + Cardinality(ChildrenAt(W, Starved))
  BY <1>4 DEF RoomOf
<1>9. Cardinality(ChildrenAt(W, Room)) \in Nat
  BY <1>0, UsersFinite, FS_CardinalityType
<1> QED
  BY <1>0, <1>5, <1>6, <1>7, <1>8, <1>9

\* What goes wrong among runs comes of a process that is killed, a call that fails or a run beside
\* another: without these, setup finds no name of an earlier run, and teardown leaves none.
THEOREM UndisturbedRunsApart == ASSUME Undisturbed PROVE Spec => []Apart
<1>1. Init => CleanInv
  <2> SUFFICES ASSUME Init, NEW r \in Runs PROVE CleanRun(r)
    BY DEF CleanInv
  <2>1. /\ parent[r] = "none" /\ ppc[r] = "open" /\ domain[r] = 0 /\ port = NoRun
        /\ pending[r] = {} /\ given_up[r] = {} /\ \A s \in Sems : sems[r][s] = NoRun
        /\ \A c \in Children : child[r][c] = "none" /\ cpc[r][c] = "start" /\ gogo[r][c]
    BY DEF Init
  <2> QED
    BY <2>1, RunsAssumption DEF CleanRun, Alive, Tearing
<1>2. CountInv /\ Announced /\ CleanInv /\ [Next]_vars => CleanInv'
  <2> SUFFICES ASSUME CountInv, Announced, CleanInv, [Next]_vars PROVE CleanInv'
    OBVIOUS
  <2>0. IInv /\ Fresh
    BY DEF CountInv
  <2>1. CASE UNCHANGED vars
    <3> USE DEF vars, nameVars, parentVars, childVars, socketVars
    <3> SUFFICES ASSUME NEW r \in Runs PROVE CleanRun(r)'
      BY DEF CleanInv
    <3>1. CleanRun(r)
      BY DEF CleanInv
    <3>2. (Tearing(r)' <=> Tearing(r)) /\ \A q \in Runs : Alive(q)' <=> Alive(q)
      BY <2>1 DEF Tearing, Alive
    <3> QED
      BY <2>1, <3>1, <3>2 DEF CleanRun
  <2>2. ASSUME NEW r \in Runs PROVE ~kill_process(r)
    BY <2>0, OnlyMessages, Failures DEF kill_process, IInv
  <2>3. ASSUME NEW r \in Runs, ParentStep(r) \/ \E c \in Children : ChildStep(r, c)
        PROVE  CleanInv'
    <3>1. CleanRun(r)'
      BY <2>0, <2>3, CleanByParent, CleanByChild
    <3>2. \A q \in Runs : q # r => CleanRun(q)'
      BY <2>0, <2>3, CleanElsewhere
    <3> QED
      BY <3>1, <3>2 DEF CleanInv
  <2> QED
    BY <2>1, <2>2, <2>3 DEF Next
<1>3. CountInv /\ Announced /\ CleanInv => Apart
  <2> SUFFICES ASSUME CountInv, Announced, CleanInv PROVE Apart
    OBVIOUS
  <2>1. IInv
    BY DEF CountInv
  <2> QED
    BY <2>1, CleanRoom, NamesAlive DEF Apart, CleanInv, CleanRun
<1> QED
  BY <1>1, <1>2, <1>3, AnnouncedInvariant, PTL DEF Spec
=============================================================================
