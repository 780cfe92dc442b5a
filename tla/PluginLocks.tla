----------------------------- MODULE PluginLocks -----------------------------
(***************************************************************************)
(* The locks of the plugins: the sentinel lease of Fly, the directory of   *)
(* an SSH host and the flock of a Hetzner machine, and what the first two  *)
(* promise together.                                                       *)
(***************************************************************************)
EXTENDS FlyLock, SshLock, Hetzner

\* The Machine lease of Fly and the directory of a host both implement the
\* abstract lock: nobody is granted what another holds, a step begins only
\* under it, and what was lost is never owned again (ensure_authority,
\* existing_lock_result; docs/product-spec.md, 13).
LocksImplementLock == FlyImplementsLock /\ SshImplementsLock
==============================================================================
