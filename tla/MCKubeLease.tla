---------------------------- MODULE MCKubeLease ----------------------------
(* TLC instances of KubeLease. *)
EXTENDS KubeLease
CONSTANTS o1, o2
MCOp == {o1, o2}
MCSkew == [o \in Op |-> IF o = o1 THEN 0 ELSE MaxSkew]
=============================================================================
