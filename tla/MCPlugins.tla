------------------------------ MODULE MCPlugins ------------------------------
(***************************************************************************)
(* The plugins' locks and resources, checked in one run: `part` says which *)
(* of the components a behaviour is about; the others stay in one state.   *)
(***************************************************************************)
EXTENDS PluginResources, TLC

CONSTANTS o1, o2, c1, c2,
          Parts  \* subset of {"fly lock", "fly apps", "kubernetes", "compose", "ssh", "hetzner"}

VARIABLE part

\* The clock of o1 is a tick ahead of the provider's, that of o2 one behind.
MCSkew == (o1 :> 1) @@ (o2 :> 0 - 1)

Init ==
    /\ part \in Parts
    /\ FlyLockInit
    /\ part # "fly lock" => flySentinel = "absent"
    /\ AppsInit
    /\ part # "fly apps" => appCloud[1].id = "none"
    /\ EnvInit
    /\ part # "kubernetes" =>
        /\ ~EnvThere /\ envTask = [o \in Op |-> "up"]
        /\ envControl = [o \in Op |-> CHOOSE c \in EnvControls : TRUE]
    /\ CompInit
    /\ part # "compose" => compRuns = CompNothing /\ compTask = [o \in Op |-> "up"]
    /\ SshInit
    /\ HzInit
    /\ part # "hetzner" => hzFirewall = HzNone /\ hzTask = [o \in Op |-> "up"]

FlyLockPart(Step) == part = "fly lock" /\ Step
    /\ UNCHANGED <<part, appVars, envVars, compVars, sshVars, hzVars>>
FlyAppsPart(Step) == part = "fly apps" /\ Step
    /\ UNCHANGED <<part, flyLockVars, envVars, compVars, sshVars, hzVars>>
KubernetesPart(Step) == part = "kubernetes" /\ Step
    /\ UNCHANGED <<part, flyLockVars, appVars, compVars, sshVars, hzVars>>
ComposePart(Step) == part = "compose" /\ Step
    /\ UNCHANGED <<part, flyLockVars, appVars, envVars, sshVars, hzVars>>
SshPart(Step) == part = "ssh" /\ Step
    /\ UNCHANGED <<part, flyLockVars, appVars, envVars, compVars, hzVars>>
HetznerPart(Step) == part = "hetzner" /\ Step
    /\ UNCHANGED <<part, flyLockVars, appVars, envVars, compVars, sshVars>>

Next ==
    \/ FlyLockPart(FlyLockNext) \/ FlyAppsPart(AppsNext) \/ KubernetesPart(EnvNextState)
    \/ ComposePart(CompNext) \/ SshPart(SshNext) \/ HetznerPart(HzNext)

vars == <<part, flyLockVars, appVars, envVars, compVars, sshVars, hzVars>>

\* Weak fairness of each process: of the process of an operation, and of the
\* shells on a host.  The behaviours of one part know only its own steps, so
\* that the processes of different parts may share a conjunct.
Process(o, n) ==
    \/ SshPart(SshShellStep(<<o, n>>))
    \/ n = 1 /\ o = o1 /\ FlyAppsPart(AppStep)
    \/ n = 1 /\ (KubernetesPart(EnvStep(o)) \/ ComposePart(CompStep(o)) \/ HetznerPart(HzStep(o)))

Fairness == \A o \in Op, n \in 1..SshAttempts : WF_vars(Process(o, n))

Spec == Init /\ [][Next]_vars /\ Fairness

\* Everything comes to its end.
EverythingSettles ==
    <>[](/\ part = "fly apps" => AppDownIsThrough
         /\ EnvDownIsThrough /\ CompDownIsThrough /\ HzDownIsThrough
         /\ SshHostIsFree)
==============================================================================
