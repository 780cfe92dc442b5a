-------------------------- MODULE MCPluginProtocol --------------------------
(* TLC instances of PluginProtocol. *)
EXTENDS PluginProtocol
CONSTANTS c1, c2
=============================================================================
