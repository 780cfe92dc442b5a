------------------------------ MODULE MCCompose ------------------------------
EXTENDS ComposeRuntime, TLC

Symmetry == Permutations(Op)
==============================================================================
