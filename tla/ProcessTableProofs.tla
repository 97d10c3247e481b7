-------------------------- MODULE ProcessTableProofs --------------------------
(***************************************************************************)
(* Proofs that the process server implements the connection table, and     *)
(* that its parent and children do not wait for each other in a circle     *)
(* while there are few enough slots.  They rest on the invariants of       *)
(* ProcessServerProofs.                                                    *)
(***************************************************************************)
EXTENDS ProcessServerProofs

-----------------------------------------------------------------------------
(***************************************************************************)
(* The place of a connection in the table.                                 *)
(***************************************************************************)

Watched(k) == \E p \in Slots : fd[p] > 0 /\ open[fd[p]] = k
Lent(k) == \E p \in Slots : fd[p] < 0 /\ open[-fd[p]] = k
IsNew(k) == k \in backlog \/ peer[k] = "none"

LEMMA Places ==
    ASSUME NEW k \in Conns
    PROVE  /\ Watched(k) => TableOf(k) = "watched"
           /\ ~Watched(k) /\ Lent(k) => TableOf(k) = "lent"
           /\ ~Watched(k) /\ ~Lent(k) /\ IsNew(k) => TableOf(k) = "new"
           /\ ~Watched(k) /\ ~Lent(k) /\ ~IsNew(k) => TableOf(k) = "gone"
BY Zenon DEF TableOf, Watched, Lent, IsNew

LEMMA PlaceSame ==
    ASSUME NEW k \in Conns, Watched(k)' <=> Watched(k), Lent(k)' <=> Lent(k), IsNew(k)' <=> IsNew(k)
    PROVE  TableOf(k)' = TableOf(k)
BY Zenon DEF TableOf, Watched, Lent, IsNew

LEMMA TableSame ==
    ASSUME \A k \in Conns : /\ Watched(k)' <=> Watched(k)
                            /\ Lent(k)' <=> Lent(k)
                            /\ IsNew(k)' <=> IsNew(k)
    PROVE  TableNow' = TableNow
<1>1. \A k \in Conns : TableOf(k)' = TableOf(k)
  BY PlaceSame
<1> QED
  BY <1>1 DEF TableNow

\* What a used slot holds, and that nothing else does.
LEMMA SlotOwner ==
    ASSUME Invs, Sane, NEW p \in Slots, fd[p] # 0
    PROVE  \E f \in Fds : /\ f > 0 /\ (fd[p] = f \/ fd[p] = -f) /\ open[f] \in Conns
                          /\ ~IsNew(open[f])
                          /\ \A q \in Slots : q # p => fd[q] # f /\ fd[q] # -f
                          /\ \A g \in Fds : open[g] = open[f] => g = f
<1> USE FdsAssumption DEF Invs, TypeInv, TypeOK, SlotTypeOK
<1>1. PICK f \in Fds : f > 0 /\ (fd[p] = f \/ fd[p] = -f)
  <2>1. fd[p] \in Fds \/ -fd[p] \in Fds
    OBVIOUS
  <2> QED
    BY <2>1
<1>2. open[f] \in Conns
  BY <1>1 DEF SlotInv
<1>3. ~IsNew(open[f])
  BY <1>2 DEF SlotInv, IsNew
<1>4. \A q \in Slots : q # p => fd[q] # f /\ fd[q] # -f
  <2> SUFFICES ASSUME NEW q \in Slots, q # p PROVE fd[q] # f /\ fd[q] # -f
    OBVIOUS
  <2>1. fd[p] # 0 /\ fd[p] # fd[q] /\ fd[p] # -fd[q]
    BY DEF SlotInv
  <2> QED
    BY <1>1, <2>1
<1>5. \A g \in Fds : open[g] = open[f] => g = f
  BY <1>2 DEF SlotInv
<1> QED
  BY <1>1, <1>2, <1>3, <1>4, <1>5

\* Each connection kept has a slot in use of its own: the slots in use bound their number.
LEMMA KeptBounded ==
    ASSUME Invs, Sane
    PROVE  /\ IsFiniteSet(Table!Kept)
           /\ Table!Cardinality(Table!Kept) = Cardinality(Table!Kept)
           /\ Cardinality(Table!Kept) <= Cardinality(Used)
<1> DEFINE K == {k \in Conns : Watched(k) \/ Lent(k)}
           at == [p \in Used |-> IF fd[p] > 0 THEN open[fd[p]] ELSE open[-fd[p]]]
<1>1. at \in Surjection(Used, K)
  <2>1. \A p \in Used : at[p] \in K
    <3> SUFFICES ASSUME NEW p \in Used PROVE at[p] \in K
      OBVIOUS
    <3>1. p \in Slots /\ fd[p] \in Int /\ fd[p] # 0
      BY DEF Used, Invs, TypeInv, TypeOK, SlotTypeOK
    <3> QED
      BY <3>1 DEF Invs, SlotInv, Watched, Lent
  <2>2. at \in [Used -> K]
    BY <2>1
  <2>3. \A k \in K : \E p \in Used : at[p] = k
    <3> SUFFICES ASSUME NEW k \in K PROVE \E p \in Used : at[p] = k
      OBVIOUS
    <3>1. PICK p \in Slots : \/ fd[p] > 0 /\ open[fd[p]] = k
                             \/ fd[p] < 0 /\ open[-fd[p]] = k
      BY DEF Watched, Lent
    <3> QED
      BY <3>1 DEF Used, Invs, TypeInv, TypeOK, SlotTypeOK
  <2> QED
    BY <2>2, <2>3 DEF Surjection
<1>2. IsFiniteSet(Used)
  BY SlotSets DEF Used
<1>3. IsFiniteSet(K) /\ Cardinality(K) <= Cardinality(Used)
  <2> HIDE DEF K, at
  <2> QED
    BY <1>1, <1>2, FS_Surjection
<1>4. Table!Kept = K
  <2>1. \A k \in Conns : TableNow[k] \in {"watched", "lent"} <=> Watched(k) \/ Lent(k)
    BY Places DEF TableNow
  <2> QED
    BY <2>1 DEF Table!Kept
<1>5. Table!Cardinality(K) = Cardinality(K)
  BY Zenon DEF Table!Cardinality, Cardinality
<1> HIDE DEF K, at
<1> QED
  BY <1>3, <1>4, <1>5

-----------------------------------------------------------------------------
(***************************************************************************)
(* The steps that change the table.                                        *)
(***************************************************************************)

\* The connection is put in an empty slot, and there was room for it.
LEMMA TableAccept == Invs /\ Sane /\ p_accept_new_connection => Table!Next
<1> SUFFICES ASSUME Invs, Sane, p_accept_new_connection PROVE Table!Next
  OBVIOUS
<1>1. PICK k \in backlog, p \in Slots, f \in Fds :
            /\ p_get_pollfd_index(p)
            /\ LowestFreeFd(f)
            /\ backlog' = backlog \ {k}
            /\ open' = [open EXCEPT ![f] = k]
            /\ fd' = [fd EXCEPT ![p] = f]
  BY DEF p_accept_new_connection
<1>2. UNCHANGED peer /\ listening
  BY DEF p_accept_new_connection, clientVars, ListenReady
<1>3. fd[p] = 0 /\ open[f] = NoConn /\ f > 0 /\ k \in Conns
  BY <1>1, <1>2, FdsAssumption, ConnsAssumption
     DEF Sane, Invs, ConnCount, p_get_pollfd_index, FirstEmpty, LowestFreeFd, SlotInv, TypeInv, TypeOK,
         KernelTypeOK
<1>4. ASSUME NEW q \in Slots, fd[q] # 0
      PROVE  /\ q # p /\ fd'[q] = fd[q]
             /\ fd[q] > 0 => open'[fd[q]] = open[fd[q]]
             /\ fd[q] < 0 => open'[-fd[q]] = open[-fd[q]]
  <2>1. PICK g \in Fds : g > 0 /\ (fd[q] = g \/ fd[q] = -g) /\ open[g] \in Conns
    BY <1>4, SlotOwner
  <2>2. g # f
    BY <1>3, <2>1, ConnsAssumption
  <2>3. q # p /\ fd'[q] = fd[q] /\ open'[g] = open[g]
    BY <1>1, <1>3, <1>4, <2>2 DEF Invs, TypeInv, TypeOK, SlotTypeOK, KernelTypeOK
  <2>4. g \in Int /\ -(-g) = g
    BY <2>1, FdsAssumption
  <2> QED
    BY <2>1, <2>3, <2>4
<1>5. fd'[p] = f /\ open'[f] = k
  BY <1>1 DEF Invs, TypeInv, TypeOK, SlotTypeOK, KernelTypeOK
<1>6. \A q \in Slots : q # p => fd'[q] = fd[q]
  BY <1>1 DEF Invs, TypeInv, TypeOK, SlotTypeOK
<1>7. ASSUME NEW j \in Conns
      PROVE  /\ Watched(j)' <=> Watched(j) \/ j = k
             /\ Lent(j)' <=> Lent(j)
             /\ IsNew(j)' <=> IsNew(j) /\ j # k
  <2>1. \A q \in Slots : fd[q] \in Int
    BY DEF Invs, TypeInv, TypeOK, SlotTypeOK
  <2>2. Watched(j)' <=> Watched(j) \/ j = k
    BY <1>3, <1>4, <1>5, <1>6, <2>1 DEF Watched
  <2>3. Lent(j)' <=> Lent(j)
    <3>1. ASSUME NEW q \in Slots
          PROVE  fd'[q] < 0 /\ open'[-fd'[q]] = j <=> fd[q] < 0 /\ open[-fd[q]] = j
      <4>1. CASE q = p
        BY <1>3, <1>5, <4>1, FdsAssumption
      <4>2. CASE q # p
        <5>1. fd'[q] = fd[q] /\ fd[q] \in Int
          BY <1>6, <2>1, <4>2
        <5>2. fd[q] < 0 => open'[-fd[q]] = open[-fd[q]]
          BY <1>4, <5>1
        <5> QED
          BY <5>1, <5>2
      <4> QED
        BY <4>1, <4>2
    <3> QED
      BY <3>1 DEF Lent
  <2>4. peer[k] # "none"
    BY <1>1 DEF Sane, Invs, SlotInv
  <2>5. IsNew(j)' <=> IsNew(j) /\ j # k
    BY <1>1, <1>2, <2>4 DEF IsNew
  <2> QED
    BY <2>2, <2>3, <2>5
<1>8. ~Watched(k) /\ ~Lent(k) /\ IsNew(k)
  <2>1. IsNew(k)
    BY <1>1 DEF IsNew
  <2>2. \A g \in Fds : open[g] # k
    BY <1>1, <1>3 DEF Sane, Invs, SlotInv
  <2>3. ASSUME NEW q \in Slots, fd[q] # 0
        PROVE  /\ fd[q] > 0 => open[fd[q]] # k
               /\ fd[q] < 0 => open[-fd[q]] # k
    <3>1. PICK g \in Fds : g > 0 /\ (fd[q] = g \/ fd[q] = -g)
      BY <2>3, SlotOwner
    <3>2. g \in Int /\ -(-g) = g
      BY <3>1, FdsAssumption
    <3> QED
      BY <2>2, <3>1, <3>2
  <2>4. \A q \in Slots : fd[q] \in Int
    BY DEF Invs, TypeInv, TypeOK, SlotTypeOK
  <2> QED
    BY <2>1, <2>3, <2>4 DEF Watched, Lent
<1>9. TableNow[k] = "new" /\ TableOf(k)' = "watched"
  <2>1. Watched(k)'
    BY <1>3, <1>7
  <2>2. TableOf(k)' = "watched"
    BY <2>1, Zenon DEF TableOf, Watched
  <2> QED
    BY <1>3, <1>8, <2>2, Places DEF TableNow
<1>10. \A j \in Conns : j # k => TableOf(j)' = TableOf(j)
  BY <1>7, PlaceSame
<1>11. TableNow' = [TableNow EXCEPT ![k] = "watched"]
  BY <1>3, <1>9, <1>10 DEF TableNow
<1>12. Table!Cardinality(Table!Kept) < MaxConnections
  <2>1. Cardinality(Used) < MaxConnections /\ Cardinality(Used) \in Nat
    BY <1>3, SlotSets DEF Used
  <2>2. Cardinality(Table!Kept) \in Nat
    BY KeptBounded, FS_CardinalityType
  <2> QED
    BY <2>1, <2>2, KeptBounded, LimitsAssumption
<1> QED
  BY <1>3, <1>9, <1>11, <1>12 DEF Table!Next, Table!Accept

\* A slot's number changes its sign: the connection is lent, or comes back.
LEMMA SignChanged ==
    ASSUME Invs, Sane, NEW p \in Slots, fd[p] # 0, fd' = [fd EXCEPT ![p] = -fd[p]],
           UNCHANGED <<open, backlog, peer>>
    PROVE  Table!Next
<1>1. PICK f \in Fds : /\ f > 0 /\ (fd[p] = f \/ fd[p] = -f) /\ open[f] \in Conns
                       /\ \A g \in Fds : open[g] = open[f] => g = f
                       /\ \A q \in Slots : q # p => fd[q] # f /\ fd[q] # -f
  BY SlotOwner
<1>2. PICK k \in Conns : k = open[f]
  BY <1>1
<1>3. /\ \A q \in Slots : q # p => fd'[q] = fd[q]
      /\ fd[p] = f => fd'[p] = -f
      /\ fd[p] = -f => fd'[p] = f
      /\ f \in Int
  BY <1>1, FdsAssumption DEF Invs, TypeInv, TypeOK, SlotTypeOK
<1>4. ASSUME NEW q \in Slots, q # p
      PROVE  /\ fd[q] > 0 => open[fd[q]] # k
             /\ fd[q] < 0 => open[-fd[q]] # k
  <2> SUFFICES ASSUME fd[q] # 0 PROVE /\ fd[q] > 0 => open[fd[q]] # k
                                      /\ fd[q] < 0 => open[-fd[q]] # k
    OBVIOUS
  <2>1. PICK g \in Fds : g > 0 /\ (fd[q] = g \/ fd[q] = -g)
    BY SlotOwner
  <2>2. g \in Int /\ -(-g) = g /\ g # f
    BY <1>1, <1>4, <2>1, FdsAssumption
  <2> QED
    BY <1>1, <1>2, <2>1, <2>2
<1>5. \A q \in Slots : fd[q] \in Int
  BY DEF Invs, TypeInv, TypeOK, SlotTypeOK
<1>6. ASSUME NEW j \in Conns, j # k PROVE TableOf(j)' = TableOf(j)
  <2>1. \A q \in Slots : /\ fd[q] > 0 /\ open[fd[q]] = j <=> fd'[q] > 0 /\ open[fd'[q]] = j
                         /\ fd[q] < 0 /\ open[-fd[q]] = j <=> fd'[q] < 0 /\ open[-fd'[q]] = j
    BY <1>1, <1>2, <1>3, <1>5, <1>6
  <2>2. (Watched(j)' <=> Watched(j)) /\ (Lent(j)' <=> Lent(j)) /\ (IsNew(j)' <=> IsNew(j))
    BY <2>1 DEF Watched, Lent, IsNew
  <2> QED
    BY <2>2, PlaceSame
<1>7. CASE fd[p] = f
  <2>1. TableNow[k] = "watched"
    BY <1>1, <1>2, <1>7, Places DEF TableNow, Watched
  <2>2. ~Watched(k)' /\ Lent(k)'
    BY <1>1, <1>2, <1>3, <1>4, <1>5, <1>7 DEF Watched, Lent
  <2>3. TableOf(k)' = "lent"
    BY <2>2, Zenon DEF TableOf, Watched, Lent
  <2>4. TableNow' = [TableNow EXCEPT ![k] = "lent"]
    BY <1>6, <2>3 DEF TableNow
  <2> QED
    BY <2>1, <2>4 DEF Table!Next, Table!Lend
<1>8. CASE fd[p] = -f
  <2>1. ~Watched(k) /\ Lent(k)
    BY <1>1, <1>2, <1>3, <1>4, <1>5, <1>8 DEF Watched, Lent
  <2>2. TableNow[k] = "lent"
    BY <2>1, Places DEF TableNow
  <2>3. Watched(k)'
    BY <1>1, <1>2, <1>3, <1>8 DEF Watched
  <2>4. TableOf(k)' = "watched"
    BY <2>3, Zenon DEF TableOf, Watched
  <2>5. TableNow' = [TableNow EXCEPT ![k] = "watched"]
    BY <1>6, <2>4 DEF TableNow
  <2> QED
    BY <2>2, <2>5 DEF Table!Next, Table!Return
<1> QED
  BY <1>1, <1>7, <1>8

\* The number that comes back changes the sign of one slot.
LEMMA TableReenable == Invs /\ Sane /\ p_read_pipe_reenable_fd => Table!Next
<1> SUFFICES ASSUME Invs, Sane, p_read_pipe_reenable_fd PROVE Table!Next
  OBVIOUS
<1> DEFINE h == Head(pipe)
<1>1. UNCHANGED <<open, backlog, peer>> /\ pipe # <<>> /\ fd' = Enable(h)
  BY DEF p_read_pipe_reenable_fd, PipeReady, kernelVars, clientVars
<1>2. DOMAIN pipe = {1} /\ pipe[1] = h /\ h \in Fds
  BY <1>1, AtMostOne DEF Invs, BufInv, TypeInv, TypeOK, IpcTypeOK
<1> HIDE DEF h
<1>3. PICK p \in Slots : h # 0 /\ fd[p] = -h
  BY <1>2 DEF Invs, TokenInv, NoStaleToken, LentSlot
<1>4. fd[p] # 0 /\ \A q \in Slots : q # p => fd[q] # -h
  <2>1. PICK f \in Fds : /\ f > 0 /\ (fd[p] = f \/ fd[p] = -f)
                         /\ \A q \in Slots : q # p => fd[q] # f /\ fd[q] # -f
    BY <1>2, <1>3, FdsAssumption, SlotOwner
  <2>2. f = h
    BY <1>2, <1>3, <2>1, FdsAssumption
  <2> QED
    BY <1>2, <1>3, <2>1, <2>2, FdsAssumption
<1>5. fd' = [fd EXCEPT ![p] = -fd[p]]
  BY <1>1, <1>3, <1>4 DEF Enable, Invs, TypeInv, TypeOK, SlotTypeOK
<1> QED
  BY <1>1, <1>4, <1>5, SignChanged

\* A removed connection was in the one slot that is emptied.
LEMMA TableRemove ==
    ASSUME Invs, Sane, NEW p \in Slots, p_remove_connection(p) PROVE Table!Next
<1>1. /\ open' = [open EXCEPT ![fd[p]] = NoConn]
      /\ fd' = [fd EXCEPT ![p] = 0]
      /\ UNCHANGED <<backlog, peer>> /\ NeedsAction(p)
  BY DEF p_remove_connection, Current, clientVars
<1>2. fd[p] > 0 /\ fd[p] \in Fds
  BY <1>1, HandedConns DEF Sane
<1>3. PICK f \in Fds, k \in Conns :
            /\ f = fd[p] /\ k = open[f] /\ ~IsNew(k)
            /\ \A q \in Slots : q # p => fd[q] # f /\ fd[q] # -f
            /\ \A g \in Fds : open[g] = k => g = f
  <2>1. PICK f \in Fds : /\ f > 0 /\ (fd[p] = f \/ fd[p] = -f) /\ open[f] \in Conns
                         /\ ~IsNew(open[f])
                         /\ \A q \in Slots : q # p => fd[q] # f /\ fd[q] # -f
                         /\ \A g \in Fds : open[g] = open[f] => g = f
    BY <1>2, SlotOwner
  <2>2. f = fd[p]
    BY <1>2, <2>1, FdsAssumption
  <2> QED
    BY <2>1, <2>2
<1>4. f > 0 /\ fd'[p] = 0 /\ \A q \in Slots : q # p => fd'[q] = fd[q]
  BY <1>1, <1>2, <1>3 DEF Invs, TypeInv, TypeOK, SlotTypeOK
<1>5. ASSUME NEW q \in Slots, q # p, fd[q] # 0
      PROVE  \E g \in Fds : /\ g > 0 /\ (fd[q] = g \/ fd[q] = -g)
                            /\ open'[g] = open[g] /\ open[g] # k
  <2>1. PICK g \in Fds : g > 0 /\ (fd[q] = g \/ fd[q] = -g)
    BY <1>5, SlotOwner
  <2>2. g # f
    BY <1>3, <1>5, <2>1
  <2>3. open'[g] = open[g] /\ open[g] # k
    BY <1>1, <1>3, <2>2 DEF Invs, TypeInv, TypeOK, KernelTypeOK
  <2> QED
    BY <2>1, <2>3
<1>6. ASSUME NEW q \in Slots, q # p
      PROVE  /\ fd[q] \in Int
             /\ fd[q] > 0 => open'[fd[q]] = open[fd[q]] /\ open[fd[q]] # k
             /\ fd[q] < 0 => open'[-fd[q]] = open[-fd[q]] /\ open[-fd[q]] # k
  <2>1. fd[q] \in Int
    BY DEF Invs, TypeInv, TypeOK, SlotTypeOK
  <2>2. CASE fd[q] = 0
    BY <2>1, <2>2
  <2>3. CASE fd[q] # 0
    <3>1. PICK g \in Fds : /\ g > 0 /\ (fd[q] = g \/ fd[q] = -g)
                           /\ open'[g] = open[g] /\ open[g] # k
      BY <1>5, <1>6, <2>3
    <3>2. g \in Int /\ -(-g) = g
      BY <3>1, FdsAssumption
    <3> QED
      BY <2>1, <3>1, <3>2
  <2> QED
    BY <2>2, <2>3
<1>7. ~Watched(k)' /\ ~Lent(k)' /\ ~IsNew(k)'
  <2>1. \A q \in Slots : ~(fd'[q] > 0 /\ open'[fd'[q]] = k) /\ ~(fd'[q] < 0 /\ open'[-fd'[q]] = k)
    BY <1>4, <1>6
  <2> QED
    BY <1>1, <1>3, <2>1 DEF Watched, Lent, IsNew
<1>8. ASSUME NEW j \in Conns, j # k PROVE TableOf(j)' = TableOf(j)
  <2>1. ASSUME NEW q \in Slots
        PROVE  /\ fd'[q] > 0 /\ open'[fd'[q]] = j <=> fd[q] > 0 /\ open[fd[q]] = j
               /\ fd'[q] < 0 /\ open'[-fd'[q]] = j <=> fd[q] < 0 /\ open[-fd[q]] = j
    <3>1. CASE q = p
      BY <1>3, <1>4, <1>8, <3>1, FdsAssumption
    <3>2. CASE q # p
      BY <1>4, <1>6, <3>2
    <3> QED
      BY <3>1, <3>2
  <2>2. (Watched(j)' <=> Watched(j)) /\ (Lent(j)' <=> Lent(j)) /\ (IsNew(j)' <=> IsNew(j))
    BY <1>1, <2>1 DEF Watched, Lent, IsNew
  <2> QED
    BY <2>2, PlaceSame
<1>9. TableNow[k] = "watched"
  BY <1>3, <1>4, Places DEF TableNow, Watched
<1>10. TableOf(k)' = "gone"
  BY <1>7, Zenon DEF TableOf, Watched, Lent, IsNew
<1>11. TableNow' = [TableNow EXCEPT ![k] = "gone"]
  BY <1>8, <1>10 DEF TableNow
<1> QED
  BY <1>9, <1>11 DEF Table!Next, Table!Drop

\* At the end whatever is watched is closed; close() of a negative number closes nothing.
LEMMA TableClose == Invs /\ Sane /\ p_close_files => Table!Next
<1> SUFFICES ASSUME Invs, Sane, p_close_files PROVE Table!Next
  OBVIOUS
<1>1. /\ open' = [f \in Fds |-> IF \E p \in Slots : fd[p] = f THEN NoConn ELSE open[f]]
      /\ UNCHANGED <<fd, backlog, peer>>
  BY DEF p_close_files, slotVars, clientVars
<1>2. ASSUME NEW k \in Conns
      PROVE  TableOf(k)' = IF TableOf(k) = "watched" THEN "gone" ELSE TableOf(k)
  <2>1. \A q \in Slots : fd[q] \in Int /\ (fd[q] > 0 => fd[q] \in Fds) /\ (fd[q] < 0 => -fd[q] \in Fds)
    BY FdsAssumption DEF Invs, TypeInv, TypeOK, SlotTypeOK
  <2>2. ~Watched(k)'
    BY <1>1, <1>2, <2>1, ConnsAssumption DEF Watched
  <2>3. Lent(k)' <=> Lent(k)
    <3>1. ASSUME NEW q \in Slots, fd[q] < 0 PROVE open'[-fd[q]] = open[-fd[q]]
      <4>1. PICK f \in Fds : /\ f > 0 /\ (fd[q] = f \/ fd[q] = -f)
                             /\ \A r \in Slots : r # q => fd[r] # f /\ fd[r] # -f
        BY <2>1, <3>1, SlotOwner
      <4>2. f = -fd[q] /\ fd[q] # f
        BY <2>1, <3>1, <4>1, FdsAssumption
      <4>3. \A r \in Slots : fd[r] # f
        BY <4>1, <4>2
      <4> QED
        BY <1>1, <4>2, <4>3
    <3> QED
      BY <1>1, <3>1 DEF Lent
  <2>4. IsNew(k)' <=> IsNew(k)
    BY <1>1 DEF IsNew
  <2>5. Watched(k) => ~Lent(k) /\ ~IsNew(k)
    <3> SUFFICES ASSUME NEW p \in Slots, fd[p] > 0, open[fd[p]] = k PROVE ~Lent(k) /\ ~IsNew(k)
      BY DEF Watched
    <3>1. PICK f \in Fds : /\ f > 0 /\ (fd[p] = f \/ fd[p] = -f) /\ ~IsNew(open[f])
                           /\ \A q \in Slots : q # p => fd[q] # f /\ fd[q] # -f
                           /\ \A g \in Fds : open[g] = open[f] => g = f
      BY <2>1, SlotOwner
    <3>2. f = fd[p] /\ open[f] = k
      BY <2>1, <3>1, FdsAssumption
    <3>3. ASSUME NEW q \in Slots, fd[q] < 0 PROVE open[-fd[q]] # k
      <4>1. -fd[q] \in Fds /\ q # p
        BY <2>1, <3>2, <3>3
      <4>2. -fd[q] # f
        BY <2>1, <3>1, <4>1, FdsAssumption
      <4> QED
        BY <3>1, <3>2, <4>1, <4>2
    <3> QED
      BY <3>1, <3>2, <3>3 DEF Lent
  <2> QED
    BY <2>2, <2>3, <2>4, <2>5, Zenon DEF TableOf, Watched, Lent, IsNew
<1>3. Table!CloseAll
  BY <1>2 DEF Table!CloseAll, TableNow
<1> QED
  BY <1>3 DEF Table!Next

-----------------------------------------------------------------------------
\* Every step but the hang-up of standard input is a step of the table or none.
LEMMA TableParent == Invs /\ ~stdin_hup /\ ParentStep => Table!Next \/ UNCHANGED TableNow
<1> SUFFICES ASSUME Invs, ~stdin_hup, ParentStep PROVE Table!Next \/ UNCHANGED TableNow
  OBVIOUS
<1>1. Sane
  BY DEF Sane, ParentStep, p_accept_new_connection, p_accept_fails, p_read_pipe_reenable_fd,
         p_poll_sockets, p_send_to_child, p_send_fails, p_send_sigpipe, p_remove_connection,
         p_scan_done, p_signal_children, p_waitpid, p_close_files
<1>2. CASE \/ p_accept_fails \/ p_poll_sockets \/ p_scan_done \/ p_signal_children
           \/ (\E c \in Children : p_waitpid(c))
           \/ (\E p \in Slots : p_send_fails(p) \/ p_send_sigpipe(p))
  <2>1. UNCHANGED <<open, backlog, fd, peer>>
    BY <1>2 DEF p_accept_fails, p_poll_sockets, p_scan_done, p_signal_children, p_waitpid,
                p_send_fails, p_send_sigpipe, kernelVars, clientVars, slotVars
  <2> QED
    BY <2>1, TableSame DEF Watched, Lent, IsNew
<1>3. ASSUME NEW p \in Slots, p_send_to_child(p) PROVE Table!Next
  <2>1. UNCHANGED <<open, backlog, peer>> /\ fd' = [fd EXCEPT ![p] = -fd[p]] /\ NeedsAction(p)
    BY <1>3 DEF p_send_to_child, Current, Disable, kernelVars, clientVars
  <2>2. fd[p] # 0
    BY <1>1, <2>1, HandedConns DEF Sane
  <2> QED
    BY <1>1, <2>1, <2>2, SignChanged
<1> QED
  BY <1>1, <1>2, <1>3, TableAccept, TableReenable, TableRemove, TableClose DEF ParentStep

LEMMA TableOther ==
    Invs /\ ~stdin_hup /\ Next /\ ~ParentStep => Table!Next \/ UNCHANGED TableNow
<1> SUFFICES ASSUME Invs, ~stdin_hup, Next, ~ParentStep PROVE Table!Next \/ UNCHANGED TableNow
  OBVIOUS
<1>1. ASSUME UNCHANGED <<fd, open>>, \A k \in Conns : IsNew(k)' <=> IsNew(k)
      PROVE  UNCHANGED TableNow
  BY <1>1, TableSame DEF Watched, Lent
<1>2. ASSUME NEW c \in Children, ChildStep(c) PROVE UNCHANGED TableNow
  BY <1>1, <1>2, ChildFrame DEF Invs, ChildFrameGoal, slotVars, kernelVars, IsNew
<1>3. CASE SendSignal \/ (\E x \in Procs : end_gogo_handler(x)) \/ \E c \in Children : c_interrupted(c)
  BY <1>1, <1>3 DEF SendSignal, end_gogo_handler, c_interrupted, slotVars, kernelVars, clientVars, IsNew
<1>4. CASE p_interrupted
  <2>1. UNCHANGED <<open, backlog, peer>>
    BY <1>4 DEF p_interrupted, kernelVars, clientVars
  <2>2. CASE UNCHANGED fd
    BY <1>1, <2>1, <2>2 DEF IsNew
  <2>3. ASSUME NEW p \in Slots, Current(p), fd' = Disable(p) PROVE Table!Next
    <3>1. Sane /\ fd[p] # 0
      BY <2>3, HandedConns DEF Current
    <3> QED
      BY <2>1, <2>3, <3>1, SignChanged DEF Disable
  <2> QED
    BY <1>4, <2>2, <2>3 DEF p_interrupted
<1>5. CASE EnvStep
  <2>1. UNCHANGED <<fd, open>>
    BY <1>5, EnvFrame DEF Invs, EnvFrameGoal, ServerVars, slotVars
  <2>2. \A k \in Conns : IsNew(k)' <=> IsNew(k)
    BY <1>5 DEF EnvStep, ClientMoves, RstArrives, ClientStep, ClientConnect, ClientWrite, ClientClose,
          ClientAbort, ClientReset, DeliverRst, StdinHangup, kernelVars, clientVars, IsNew, Invs,
          TypeInv, TypeOK, ClientTypeOK
  <2> QED
    BY <1>1, <2>1, <2>2
<1> QED
  BY <1>2, <1>3, <1>4, <1>5 DEF Next, SignalStep

\* As long as standard input cannot be hung up, the process server implements the connection
\* table: through every reuse of a descriptor number a connection is accepted once, while there
\* is room, is watched by the parent or lent to one child, and is given up only while watched.
THEOREM ProcessImplementsTable ==
    ASSUME "stdin" \notin Faults
    PROVE  Spec => ImplementsTable
<1>1. Init => Table!Init
  <2> SUFFICES ASSUME Init PROVE \A k \in Conns : TableOf(k) = "new"
    BY DEF Table!Init, TableNow
  <2>1. (\A p \in Slots : fd[p] = 0) /\ \A k \in Conns : peer[k] = "none"
    BY DEF Init, InitKernel
  <2>2. \A p \in Slots : ~(fd[p] > 0) /\ ~(fd[p] < 0)
    BY <2>1
  <2>3. \A k \in Conns : ~Watched(k) /\ ~Lent(k) /\ IsNew(k)
    BY <2>1, <2>2, Zenon DEF Watched, Lent, IsNew
  <2> QED
    BY <2>3, Places
<1>2. Init => ~stdin_hup
  BY DEF Init, InitKernel
<1>3. ~stdin_hup /\ HandshakeInv /\ [Next]_vars => ~stdin_hup'
  <2> SUFFICES ASSUME ~stdin_hup, HandshakeInv, [Next]_vars PROVE UNCHANGED stdin_hup
    OBVIOUS
  <2>1. CASE ParentStep
    BY <2>1 DEF ParentStep, p_accept_new_connection, p_accept_fails, p_read_pipe_reenable_fd,
         p_poll_sockets, p_send_to_child, p_send_fails, p_send_sigpipe, p_remove_connection,
         p_scan_done, p_signal_children, p_waitpid, p_close_files, kernelVars
  <2>2. ASSUME NEW c \in Children, ChildStep(c) PROVE UNCHANGED stdin_hup
    BY <2>2, ChildFrame DEF HandshakeInv, Invs, ChildFrameGoal, kernelVars
  <2>3. CASE SignalStep
    BY <2>3 DEF SignalStep, SendSignal, end_gogo_handler, p_interrupted, c_interrupted, kernelVars
  <2>4. CASE EnvStep
    BY <2>4 DEF EnvStep, ClientMoves, RstArrives, ClientStep, ClientConnect, ClientWrite, ClientClose,
          ClientAbort, ClientReset, DeliverRst, StdinHangup, kernelVars
  <2>5. CASE UNCHANGED vars
    BY <2>5 DEF vars, kernelVars
  <2> QED
    BY <2>1, <2>2, <2>3, <2>4, <2>5 DEF Next
<1>4. HandshakeInv /\ ~stdin_hup /\ [Next]_vars => [Table!Next]_TableNow
  <2>1. ASSUME UNCHANGED vars PROVE UNCHANGED TableNow
    BY <2>1, TableSame DEF vars, slotVars, kernelVars, clientVars, Watched, Lent, IsNew
  <2> QED
    BY <2>1, TableParent, TableOther DEF HandshakeInv
<1> QED
  BY <1>1, <1>2, <1>3, <1>4, HandshakeInvariant, PTL DEF Spec, ImplementsTable, Table!Spec

-----------------------------------------------------------------------------
(***************************************************************************)
(* The circular wait.  Each number on its way has a slot of its own, and   *)
(* the connection being dispatched has one more.                           *)
(***************************************************************************)

LEMMA CircleTakesSlots == HandshakeInv => NoCircularWait
<1> SUFFICES ASSUME Invs, ~stdin_hup, MaxConnections <= Cardinality(Live) + 2, CircularWait
             PROVE  FALSE
  BY DEF HandshakeInv, NoCircularWait
<1> HIDE DEF Slots
<1>f. \A f \in Fds : f \in Int /\ (f # 0 => f > 0)
  BY FdsAssumption
<1>1. Sane /\ ~ParentGone /\ ppc = "scan"
  BY DEF CircularWait, Sane, ParentGone
<1>2. PICK p \in Slots : fd[p] > 0 /\ fd[p] \in Fds
  BY HandedConns DEF CircularWait, Current
<1>t. domain \in Seq([fd : Fds, conn : Conns]) /\ pipe \in Seq(Fds)
  BY DEF Invs, TypeInv, TypeOK, IpcTypeOK
<1>3. Len(domain) = 1 /\ Len(pipe) = 1
  <2>1. /\ domain_sem_read = Len(domain) /\ domain_sem_read + domain_sem_write = 1
        /\ pipe_sem_write + Len(pipe) = 1
    BY <1>1 DEF Invs, BufInv
  <2>2. domain_sem_write = 0 /\ pipe_sem_write = 0
    BY DEF CircularWait
  <2>3. \A n \in Nat : (n + 0 = 1 => n = 1) /\ (0 + n = 1 => n = 1)
    OBVIOUS
  <2>4. Len(domain) \in Nat /\ Len(pipe) \in Nat
    BY <1>t
  <2>5. Len(domain) + 0 = 1 /\ 0 + Len(pipe) = 1
    BY <2>1, <2>2
  <2> QED
    BY <2>3, <2>4, <2>5
<1>4. /\ 1 \in DOMAIN domain /\ 1 \in DOMAIN pipe
      /\ domain[1].fd \in Fds /\ pipe[1] \in Fds
  <2>1. /\ \A i \in DOMAIN domain : domain[i] \in [fd : Fds, conn : Conns]
        /\ \A i \in DOMAIN pipe : pipe[i] \in Fds
    <3>1. Len(domain) <= 1 /\ Len(pipe) <= 1
      BY DEF Invs, BufInv
    <3>2. \A i \in DOMAIN domain : domain[i] \in [fd : Fds, conn : Conns]
      BY <1>t, <3>1, AtMostOne
    <3> QED
      BY <1>t, <3>1, <3>2, AtMostOne
  <2>2. DOMAIN domain = 1 .. Len(domain) /\ DOMAIN pipe = 1 .. Len(pipe)
    BY <1>t
  <2>3. 1 \in DOMAIN domain /\ 1 \in DOMAIN pipe
    BY <1>3, <2>2
  <2> QED
    BY <2>1, <2>3
<1>5. PICK x \in Slots : LentSlot(x, domain[1].fd, domain[1].conn)
  BY <1>1, <1>4 DEF Invs, TokenInv, NoStaleToken
<1>6. PICK y \in Slots : \E k \in Conns : LentSlot(y, pipe[1], k)
  BY <1>1, <1>4 DEF Invs, TokenInv, NoStaleToken
<1> DEFINE a == domain[1].fd
           b == pipe[1]
<1>7. /\ a \in Int /\ a > 0 /\ b \in Int /\ b > 0 /\ a # b
      /\ fd[x] = -a /\ fd[y] = -b
  <2>1. a # b
    BY <1>1, <1>4 DEF Invs, TokenInv, NoStaleToken
  <2>2. a # 0 /\ fd[x] = -a
    BY <1>5 DEF LentSlot
  <2>3. b # 0 /\ fd[y] = -b
    BY <1>6 DEF LentSlot
  <2> QED
    BY <1>f, <1>4, <2>1, <2>2, <2>3
<1>8. ASSUME NEW c \in Live
      PROVE  /\ c \in Children /\ Holding(c)
             /\ client_fd_parent[c] \in Int /\ client_fd_parent[c] > 0
             /\ client_fd_parent[c] # a /\ client_fd_parent[c] # b
             /\ \E q \in Slots : fd[q] = -client_fd_parent[c]
  <2>1. c \in Children /\ Holding(c)
    BY DEF CircularWait, Live, Holding
  <2>2. client_fd_parent[c] \in Fds
    BY <2>1 DEF Invs, TypeInv, TypeOK, ChildTypeOK
  <2>3. PICK q \in Slots : LentSlot(q, client_fd_parent[c], client_fd_local[c])
    BY <1>1, <2>1 DEF Invs, TokenInv, NoStaleToken
  <2>4. client_fd_parent[c] # a /\ client_fd_parent[c] # b
    BY <1>1, <1>4, <2>1 DEF Invs, TokenInv, NoStaleToken
  <2>5. client_fd_parent[c] # 0 /\ fd[q] = -client_fd_parent[c]
    BY <2>3 DEF LentSlot
  <2>6. client_fd_parent[c] \in Int /\ client_fd_parent[c] > 0
    BY <1>f, <2>2, <2>5
  <2> QED
    BY <2>1, <2>4, <2>5, <2>6
<1> DEFINE T == ((Slots \ {p}) \ {x}) \ {y}
           at == [c \in Live |-> CHOOSE q \in Slots : fd[q] = -client_fd_parent[c]]
<1>n. \A f, g \in Int : (f > 0 /\ g > 0 => g # -f) /\ (-f = -g => f = g)
  OBVIOUS
<1>9. ASSUME NEW c \in Live PROVE at[c] \in T /\ fd[at[c]] = -client_fd_parent[c]
  <2>1. at[c] \in Slots /\ fd[at[c]] = -client_fd_parent[c]
    BY <1>8
  <2> HIDE DEF at, a, b
  <2>2. fd[p] \in Int
    BY <1>2, <1>f
  <2>3. at[c] # p
    BY <1>2, <1>8, <1>n, <2>1, <2>2
  <2>4. at[c] # x
    BY <1>7, <1>8, <1>n, <2>1
  <2>5. at[c] # y
    BY <1>7, <1>8, <1>n, <2>1
  <2> QED
    BY <2>1, <2>3, <2>4, <2>5
<1>10. \A c, d \in Live : at[c] = at[d] => c = d
  <2> SUFFICES ASSUME NEW c \in Live, NEW d \in Live, at[c] = at[d], c # d PROVE FALSE
    OBVIOUS
  <2> HIDE DEF at, a, b
  <2>1. -client_fd_parent[c] = -client_fd_parent[d]
    BY <1>9
  <2>2. client_fd_parent[c] = client_fd_parent[d]
    BY <1>8, <1>n, <2>1
  <2> QED
    BY <1>1, <1>8, <2>2 DEF Invs, TokenInv, NoStaleToken
<1>11. at \in Injection(Live, T)
  <2>1. at \in [Live -> T]
    BY <1>9
  <2> QED
    BY <1>10, <2>1 DEF Injection, IsInjective
<1>12. IsFiniteSet(T) /\ Cardinality(T) = MaxConnections - 3
  <2>1. IsFiniteSet(Slots) /\ Cardinality(Slots) = MaxConnections
    BY SlotSets, LimitsAssumption
  <2> HIDE DEF a, b
  <2>p. fd[p] \in Int
    BY <1>2, <1>f
  <2>2. p # x /\ p # y
    BY <1>2, <1>7, <1>n, <2>p
  <2>3. x # y
    BY <1>7, <1>n
  <2>4. IsFiniteSet(Slots \ {p}) /\ Cardinality(Slots \ {p}) = MaxConnections - 1
    BY <2>1, FS_RemoveElement
  <2>5. x \in Slots \ {p}
    BY <2>2
  <2>6. /\ IsFiniteSet((Slots \ {p}) \ {x})
        /\ Cardinality((Slots \ {p}) \ {x}) = MaxConnections - 1 - 1
    BY <2>4, <2>5, FS_RemoveElement
  <2>7. y \in (Slots \ {p}) \ {x}
    BY <2>2, <2>3
  <2>8. IsFiniteSet(T) /\ Cardinality(T) = MaxConnections - 1 - 1 - 1
    BY <2>6, <2>7, FS_RemoveElement
  <2> QED
    BY <2>8, LimitsAssumption
<1>13. Cardinality(Live) <= Cardinality(T) /\ Cardinality(Live) \in Nat
  <2> HIDE DEF T, at
  <2> QED
    BY <1>11, <1>12, FS_Injection, FS_CardinalityType
<1> HIDE DEF T
<1> QED
  BY <1>12, <1>13, LimitsAssumption

\* The parent cannot be kept waiting for room in the domain socket by children that all wait for
\* room in the pipe, as long as there are at most two more slots than live children, however many
\* there are of either.
THEOREM NobodyWaitsInACircle == Spec => []NoCircularWait
BY CircleTakesSlots, HandshakeInvariant, PTL
=============================================================================
