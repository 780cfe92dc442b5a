--------------------------- MODULE PluginResources ---------------------------
(***************************************************************************)
(* The plugins' locks and what they make of an environment: the promises   *)
(* that several of them give alike.                                        *)
(***************************************************************************)
EXTENDS PluginLocks, FlyApps, KubeEnvironment, ComposeRuntime

\* What the plugins keep and what is there of theirs has its type.
PluginsTypeOK ==
    /\ FlyLockTypeOK /\ AppsTypeOK /\ EnvTypeOK /\ CompTypeOK /\ SshTypeOK /\ HzTypeOK

\* A failed `up` that says that it has undone itself leaves nothing of what it
\* made and has lost nothing of what it found, whatever of its answers were
\* lost, on Fly, in a Kubernetes namespace and on Hetzner.
CompensationIsExact == AppCompensationIsExact /\ EnvCompensationIsExact /\ HzCompensationIsExact
==============================================================================
