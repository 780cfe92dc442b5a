------------------------------ MODULE ProjectFile ------------------------------
(***************************************************************************)
(* lightrail.toml and the commands that read and write it: `init`,         *)
(* `init --force`, `profile add | default | remove`, beside the `up` and   *)
(* `down` that find their environments by the identity and the profile it  *)
(* names.  No lock covers it: every command reads it, decides, and         *)
(* replaces the whole of it by a rename.                                   *)
(*                                                                         *)
(* A profile is its name; slug, apps, settings and the Compose files are   *)
(* left out, and the environments of several branches are one.             *)
(***************************************************************************)
EXTENDS Operations, Integers, FiniteSets

CONSTANTS
    PfProfiles,
    PfTasks,     \* subset of {"init", "force", "add", "default", "remove", "up", "down"}
    PfCommands,  \* bound: how many commands are run
    PfCounts,    \* subset of {"project", "profile"}: what a target's inspection lists
    PfFaults,    \* subset of {"call", "die"}
    PfBudget     \* how many of them happen

ASSUME PfAssumption ==
    /\ PfTasks \subseteq {"init", "force", "add", "default", "remove", "up", "down"}
    /\ PfCounts \subseteq {"project", "profile"} /\ PfFaults \subseteq {"call", "die"}
    /\ PfCommands \in Nat /\ PfBudget \in Nat

VARIABLES
    pfFile,   \* lightrail.toml, or PfNone
    pfCloud,  \* live environments: identity of the project, profile
    pfLists,  \* what the target's inspection lists
    pfSelf,   \* for each process: where it is, its command and profile, and
              \* the configuration that it has read or is about to write
    pfIds,    \* ghost: the identities that lightrail.toml has had
    pfRaced,  \* ghost: two commands overlapped that nothing keeps apart
    pfRun, pfLeft

pfVars == <<pfFile, pfCloud, pfLists, pfSelf, pfIds, pfRaced, pfRun, pfLeft>>

PfNone == [id |-> 0, profiles |-> {}, default |-> "none"]
PfIdle == [at |-> "idle", task |-> "none", name |-> "none", copy |-> PfNone]

PfInit ==
    /\ pfFile = PfNone /\ pfCloud = {} /\ pfLists \in PfCounts
    /\ pfSelf = [o \in Op |-> PfIdle]
    /\ pfIds = {} /\ pfRaced = FALSE /\ pfRun = 0 /\ pfLeft = PfBudget

------------------------------------------------------------------------------
PfGo(o, where) == pfSelf' = [pfSelf EXCEPT ![o].at = where]
PfEnd(o) == pfSelf' = [pfSelf EXCEPT ![o] = PfIdle]
PfTakes(o, copy, where) == pfSelf' = [pfSelf EXCEPT ![o].at = where, ![o].copy = copy]
PfFault(kind) == kind \in PfFaults /\ pfLeft > 0 /\ pfLeft' = pfLeft - 1
PfInits(task) == task \in {"init", "force"}

\* LightrailConfig::validate, of what the file names.
PfValid(config) == config.id # 0 /\ config.default \in config.profiles

\* The environment of a command, as EnvironmentIdentity derives it.
PfEnvironment(o) == <<pfSelf[o].copy.id, pfSelf[o].name>>

\* Two commands that nothing keeps apart: two initializations, and an `up`
\* beside one that writes the file.
PfConflict(one, other) ==
    \/ PfInits(one) /\ PfInits(other)
    \/ one = "up" /\ other \notin {"none", "up", "down"}
    \/ other = "up" /\ one \notin {"none", "up", "down"}

\* A command is run.  Before a forced `init` its user has destroyed what is
\* live, as it is asked of them (docs/product-spec.md, 18.2).
PfBegin(o) ==
    /\ pfSelf[o] = PfIdle /\ pfRun < PfCommands /\ pfRun' = pfRun + 1
    /\ \E task \in PfTasks, name \in PfProfiles :
        /\ task = "force" => pfCloud = {}
        /\ pfSelf' = [pfSelf EXCEPT ![o] =
            [at |-> CASE PfInits(task) -> "looking" [] task = "remove" -> "counting"
                      [] OTHER -> "loading",
             task |-> task, name |-> name, copy |-> PfNone]]
        /\ pfRaced' = (pfRaced \/ \E p \in Op \ {o} : PfConflict(task, pfSelf[p].task))
    /\ UNCHANGED <<pfFile, pfCloud, pfLists, pfIds, pfLeft>>

------------------------------------------------------------------------------
(* init.                                                                   *)

\* existing_project_id: without --force a file that is there is kept.
PfMayInit(o) == pfFile = PfNone \/ pfSelf[o].task = "force"

\* run: the first look; the answers take as long as their user likes.
PfLook(o) ==
    /\ pfSelf[o].at = "looking"
    /\ IF PfMayInit(o) THEN PfGo(o, "asking") ELSE PfEnd(o)
    /\ UNCHANGED <<pfFile, pfCloud, pfLists, pfIds, pfRaced, pfRun, pfLeft>>

\* Mutant of PfAnswered: the identity is always a new one.
PfAnsweredAnew(o) ==
    [id |-> pfRun, profiles |-> {pfSelf[o].name}, default |-> pfSelf[o].name]

\* initialize_from_inventory: the configuration the answers make; an identity
\* that is there is kept.
PfAnswered(o) ==
    [id |-> IF pfFile = PfNone THEN pfRun ELSE pfFile.id,
     profiles |-> {pfSelf[o].name}, default |-> pfSelf[o].name]

PfAsk(o) ==
    /\ pfSelf[o].at = "asking"
    /\ \/ PfMayInit(o) /\ PfTakes(o, PfAnswered(o), "checking") /\ UNCHANGED pfLeft
       \/ ~PfMayInit(o) /\ PfEnd(o) /\ UNCHANGED pfLeft
       \/ PfFault("call") /\ PfEnd(o)
    /\ UNCHANGED <<pfFile, pfCloud, pfLists, pfIds, pfRaced, pfRun>>

\* write_config looks once more, and forgets the identity it has read.
PfCheck(o) ==
    /\ pfSelf[o].at = "checking"
    /\ IF PfMayInit(o) THEN PfGo(o, "saving") ELSE PfEnd(o)
    /\ UNCHANGED <<pfFile, pfCloud, pfLists, pfIds, pfRaced, pfRun, pfLeft>>

------------------------------------------------------------------------------
(* profile, up and down.                                                   *)

\* live_environment_count, for the profile that is to go: Kubernetes and Fly
\* list every environment of the project, a machine is that of its profile.
PfLive(o) ==
    {e \in pfCloud : e[1] = pfFile.id /\ (pfLists = "project" \/ e[2] = pfSelf[o].name)}

\* Mutant of PfCount: an inspection that fails has found nothing.
PfCountHeedless(o) ==
    /\ pfSelf[o].at = "counting"
    /\ \/ /\ IF pfSelf[o].name \in pfFile.profiles /\ PfLive(o) = {} THEN PfGo(o, "loading") ELSE PfEnd(o)
          /\ UNCHANGED pfLeft
       \/ PfFault("call") /\ PfGo(o, "loading")
    /\ UNCHANGED <<pfFile, pfCloud, pfLists, pfIds, pfRaced, pfRun>>

PfCount(o) ==
    /\ pfSelf[o].at = "counting"
    /\ \/ /\ IF pfSelf[o].name \in pfFile.profiles /\ PfLive(o) = {} THEN PfGo(o, "loading") ELSE PfEnd(o)
          /\ UNCHANGED pfLeft
       \/ PfFault("call") /\ PfEnd(o)
    /\ UNCHANGED <<pfFile, pfCloud, pfLists, pfIds, pfRaced, pfRun>>

\* What add, default and remove make of the file they have read; `up` and
\* `down` only read it.
PfEdited(o) ==
    LET name == pfSelf[o].name IN
    CASE pfSelf[o].task = "add" -> [pfFile EXCEPT !.profiles = @ \union {name}]
      [] pfSelf[o].task = "default" -> [pfFile EXCEPT !.default = name]
      [] pfSelf[o].task = "remove" -> [pfFile EXCEPT !.profiles = @ \ {name}]
      [] OTHER -> pfFile

\* A profile that is added is a new one; the default is not removed.
PfAllowed(o) ==
    LET name == pfSelf[o].name IN
    /\ PfValid(pfFile)
    /\ (name \in pfFile.profiles) = (pfSelf[o].task # "add")
    /\ pfSelf[o].task = "remove" => name # pfFile.default

PfLoad(o) ==
    /\ pfSelf[o].at = "loading"
    /\ IF PfAllowed(o)
       THEN PfTakes(o, PfEdited(o), IF pfSelf[o].task \in {"up", "down"} THEN "acting" ELSE "saving")
       ELSE PfEnd(o)
    /\ UNCHANGED <<pfFile, pfCloud, pfLists, pfIds, pfRaced, pfRun, pfLeft>>

\* A new file beside the old one, and a rename over it.
PfSave(o) ==
    /\ pfSelf[o].at = "saving" /\ PfEnd(o)
    /\ \/ /\ PfValid(pfSelf[o].copy) /\ pfFile' = pfSelf[o].copy
          /\ pfIds' = pfIds \union {pfSelf[o].copy.id} /\ UNCHANGED pfLeft
       \/ ~PfValid(pfSelf[o].copy) /\ UNCHANGED <<pfFile, pfIds, pfLeft>>
       \/ PfFault("call") /\ UNCHANGED <<pfFile, pfIds>>
    /\ UNCHANGED <<pfCloud, pfLists, pfRaced, pfRun>>

\* What `up` makes and `down` removes; either may fail first.
PfAct(o) ==
    /\ pfSelf[o].at = "acting" /\ PfEnd(o)
    /\ \/ /\ pfCloud' = IF pfSelf[o].task = "up" THEN pfCloud \union {PfEnvironment(o)}
                        ELSE pfCloud \ {PfEnvironment(o)}
          /\ UNCHANGED pfLeft
       \/ PfFault("call") /\ UNCHANGED pfCloud
    /\ UNCHANGED <<pfFile, pfLists, pfIds, pfRaced, pfRun>>

\* The process dies; another may follow.
PfDie(o) ==
    /\ pfSelf[o] # PfIdle /\ PfFault("die") /\ PfEnd(o)
    /\ UNCHANGED <<pfFile, pfCloud, pfLists, pfIds, pfRaced, pfRun>>

PfNext ==
    \E o \in Op :
        \/ PfBegin(o) \/ PfLook(o) \/ PfAsk(o) \/ PfCheck(o) \/ PfCount(o) \/ PfLoad(o)
        \/ PfSave(o) \/ PfAct(o) \/ PfDie(o)
PfSpec == PfInit /\ [][PfNext]_pfVars

------------------------------------------------------------------------------
PfConfig == [id : 0..PfCommands, profiles : SUBSET PfProfiles, default : PfProfiles \union {"none"}]

\* Types, and that what is on disk is always a valid file.
PfTypeOK ==
    /\ pfFile \in PfConfig /\ (pfFile = PfNone \/ PfValid(pfFile))
    /\ pfCloud \subseteq (1..PfCommands) \X PfProfiles /\ pfLists \in PfCounts
    /\ pfSelf \in [Op -> [at : {"idle", "looking", "asking", "checking", "counting", "loading",
                                "saving", "acting"},
                          task : PfTasks \union {"none"}, name : PfProfiles \union {"none"},
                          copy : PfConfig]]
    /\ pfIds \subseteq 1..PfCommands /\ pfRaced \in BOOLEAN
    /\ pfRun \in 0..PfCommands /\ pfLeft \in 0..PfBudget

\* Whatever commands are run, fail or die, each environment that is live is
\* one that the file still leads to, and the project keeps the identity it
\* was given, as long as no two initializations overlap and nothing is written
\* beside an `up` (docs/product-spec.md: "preserving the immutable project
\* ID", "Removal refuses to orphan discovered live environments").
PfNothingOrphaned ==
    \/ pfRaced
    \/ /\ Cardinality(pfIds) <= 1
       /\ \A e \in pfCloud : e[1] = pfFile.id /\ e[2] \in pfFile.profiles
==============================================================================
