--------------------------- MODULE MCOneToOneServer ---------------------------
(* Instances of OneToOneServer for TLC. *)
EXTENDS OneToOneServer
=============================================================================
