------------------------------ MODULE Operations ------------------------------
(***************************************************************************)
(* What the models of the plugins share: the operations that run           *)
(* concurrently, each the life of one process of the tool and its plugins. *)
(***************************************************************************)
CONSTANT Op
=============================================================================
