-------------------------------- MODULE MCCore --------------------------------
(***************************************************************************)
(* Components of the core and the workloads of the Kubernetes plugin,      *)
(* checked in one run: `part` says which of them a behaviour is about; the *)
(* others stay in one state.                                               *)
(***************************************************************************)
EXTENDS Deletions, RollbackClaims, ProjectFile, PluginStore,
        ChildProcess, Settings, SecretStore, ComposeContract, TLC

CONSTANTS o1, o2,
          Parts  \* subset of {"prune", "claims", "project file", "plugin store", "workloads",
                 \* "child process", "settings", "secrets", "documents"}

VARIABLE part

\* The second build of a plugin carries the version of the first.
MCVersion == (1 :> "v1") @@ (2 :> "v1") @@ (3 :> "v2")

\* A checkout beside one of the same environment; of a branch whose name is
\* normalized to the same; of another project of the same slug; of the same
\* project, renamed; and of another project and branch.
MCIdentity(project, slug, branch) ==
    [project |-> project, slug |-> slug, profile |-> "preview", branch |-> branch]
MCVisits ==
    LET slash == MCIdentity("p1", "shop", "feature/login")
        dash == MCIdentity("p1", "shop", "feature-login")
        other == MCIdentity("p2", "shop", "feature-login")
    IN  {<<dash, dash>>, <<slash, dash>>, <<dash, other>>, <<slash, other>>,
         <<dash, MCIdentity("p1", "store", "feature-login")>>}
MCNormal ==
    [name \in {"shop", "store", "preview", "feature-login", "feature/login"} |->
        IF name = "feature/login" THEN "feature-login" ELSE name]

Init ==
    /\ part \in Parts
    /\ PruneInit
    /\ part # "prune" => pruneSpace = PruneNothing /\ pruneTask = [o \in Op |-> "up"]
    /\ ClaimInit
    /\ part # "claims" => claimPlan = [a \in ClaimActions |-> "none"]
    /\ PfInit
    /\ part # "project file" => pfLists = "project"
    /\ PsInit
    /\ KwInit
    /\ part # "workloads" => kwTree.text = [s \in KwServices |-> "image"]
    /\ ChInit
    /\ part # "child process" => chRun.runner = "core" /\ chRun.rescue = "deadline"
    /\ IF part = "settings" THEN StInit ELSE StStart({"fly"}, 0) /\ ~stAsks
    /\ SecInit
    /\ IF part = "documents" THEN CcInit
       ELSE CcStart({"fly"}, {<<MCIdentity("p1", "shop", "b"), MCIdentity("p1", "shop", "b")>>})

PrunePart(Step) ==
    /\ part = "prune" /\ Step
    /\ UNCHANGED <<part, claimVars, pfVars, psVars, kwVars, chVars, stVars, secVars, ccVars>>
ClaimsPart(Step) ==
    /\ part = "claims" /\ Step
    /\ UNCHANGED <<part, pruneVars, pfVars, psVars, kwVars, chVars, stVars, secVars, ccVars>>
FilePart(Step) ==
    /\ part = "project file" /\ Step
    /\ UNCHANGED <<part, pruneVars, claimVars, psVars, kwVars, chVars, stVars, secVars, ccVars>>
StorePart(Step) ==
    /\ part = "plugin store" /\ Step
    /\ UNCHANGED <<part, pruneVars, claimVars, pfVars, kwVars, chVars, stVars, secVars, ccVars>>
WorkloadsPart(Step) ==
    /\ part = "workloads" /\ Step
    /\ UNCHANGED <<part, pruneVars, claimVars, pfVars, psVars, chVars, stVars, secVars, ccVars>>
ProcessPart(Step) ==
    /\ part = "child process" /\ Step
    /\ UNCHANGED <<part, pruneVars, claimVars, pfVars, psVars, kwVars, stVars, secVars, ccVars>>
SettingsPart(Step) ==
    /\ part = "settings" /\ Step
    /\ UNCHANGED <<part, pruneVars, claimVars, pfVars, psVars, kwVars, chVars, secVars, ccVars>>
SecretsPart(Step) ==
    /\ part = "secrets" /\ Step
    /\ UNCHANGED <<part, pruneVars, claimVars, pfVars, psVars, kwVars, chVars, stVars, ccVars>>
DocumentsPart(Step) ==
    /\ part = "documents" /\ Step
    /\ UNCHANGED <<part, pruneVars, claimVars, pfVars, psVars, kwVars, chVars, stVars, secVars>>

Next ==
    \/ PrunePart(PruneNextState) \/ ClaimsPart(ClaimNext) \/ FilePart(PfNext)
    \/ StorePart(PsNext) \/ WorkloadsPart(KwNext) \/ ProcessPart(ChNext)
    \/ SettingsPart(StNext) \/ SecretsPart(SecNext) \/ DocumentsPart(CcNext)

vars ==
    <<part, pruneVars, claimVars, pfVars, psVars, kwVars, chVars, stVars, secVars, ccVars>>

\* Weak fairness of the process of a removal; and of a caller's own steps, of
\* the death of a killed program, of a pipe that has room for a token, and of
\* the one rescue that the behaviour is about.  Nothing makes a program exit.
Fairness ==
    /\ \A o \in Op : WF_vars(PrunePart(PruneStep(o)))
    /\ WF_vars(ProcessPart(ChProceed)) /\ WF_vars(ProcessPart(ChDies))
    /\ WF_vars(ProcessPart(ChIs("fly") /\ ChTakes)) /\ WF_vars(ProcessPart(ChRescued))

Spec == Init /\ [][Next]_vars /\ Fairness

CoreTypeOK ==
    /\ PruneTypeOK /\ ClaimTypeOK /\ PfTypeOK /\ PsTypeOK /\ KwTypeOK
    /\ part = "child process" => ChTypeOK
    /\ part = "settings" => StTypeOK
    /\ part = "secrets" => SecTypeOK
    /\ part = "documents" => CcTypeOK

\* A `prune` that succeeds has left nothing of what it selected, a plugin
\* command that succeeds has made the lock and the store what it says, an
\* external program that is said to have succeeded has, the target settings that
\* `init` has checked are the ones its plugin accepts, a secret that was
\* stored alone stays stored, and a document that was accepted keeps its meaning
\* under names of its environment (the prune, plugin, secret and init commands,
\* the runners of processes, the validators and renderers of documents).
SuccessIsTrue ==
    /\ PruneSuccessIsWhole /\ PsAnswersAreTrue
    /\ part = "child process" => ChAnswersAreTrue
    /\ part = "settings" => StAnswersAreTrue
    /\ part = "secrets" => SecAnswersAreTrue
    /\ part = "documents" => CcAnswersAreTrue

\* A `prune` or `down --all` that is run until it succeeds gets there, and the
\* call of an external program that a rescue reaches ends, with the program dead
\* (docs/plugin-protocol.md, 10).
CoreSettles ==
    <>[](/\ part = "prune" => PruneIsThrough
         /\ part = "child process" => ChIsThrough)
==============================================================================
