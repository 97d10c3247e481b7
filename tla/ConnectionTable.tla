--------------------------- MODULE ConnectionTable ---------------------------
(***************************************************************************)
(* What a polling server promises about the connections it keeps in its    *)
(* pollfds array.  A connection is accepted once, is either watched (its   *)
(* descriptor is polled) or lent (a worker receives from it and nobody     *)
(* polls it), and is given up only from the watched state.  At most        *)
(* MaxConnections are kept at a time.                                      *)
(***************************************************************************)
EXTENDS Integers, FiniteSets

CONSTANTS Conns, MaxConnections

VARIABLE table

Kept == {k \in Conns : table[k] \in {"watched", "lent"}}

Init == table = [k \in Conns |-> "new"]

Accept(k) ==
    /\ table[k] = "new" /\ Cardinality(Kept) < MaxConnections
    /\ table' = [table EXCEPT ![k] = "watched"]

Lend(k) ==
    /\ table[k] = "watched"
    /\ table' = [table EXCEPT ![k] = "lent"]

Return(k) ==
    /\ table[k] = "lent"
    /\ table' = [table EXCEPT ![k] = "watched"]

Drop(k) ==
    /\ table[k] = "watched"
    /\ table' = [table EXCEPT ![k] = "gone"]

\* The server goes down: whatever it watches is closed.
CloseAll == table' = [k \in Conns |-> IF table[k] = "watched" THEN "gone" ELSE table[k]]

Next == (\E k \in Conns : Accept(k) \/ Lend(k) \/ Return(k) \/ Drop(k)) \/ CloseAll

Spec == Init /\ [][Next]_table
=============================================================================
