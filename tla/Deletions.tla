------------------------------- MODULE Deletions -------------------------------
(***************************************************************************)
(* What may be deleted, by the core and by the Kubernetes plugin.          *)
(***************************************************************************)
EXTENDS Prune, KubeWorkloads

\* A `prune` deletes nothing that its user was not shown, and an `up` of a
\* namespace that is there deletes and replaces nothing in it
\* (docs/product-spec.md, 14.1 and 6).
NothingElseIsDeleted == PruneSparesTheRest /\ KwNonDestructive
==============================================================================
