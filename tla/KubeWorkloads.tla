----------------------------- MODULE KubeWorkloads -----------------------------
(***************************************************************************)
(* What the Kubernetes plugin makes of a Compose project: the revision of  *)
(* a checkout, the images, Jobs and workloads that are rendered from it,   *)
(* and the chain of `up` and `down` that brings a namespace from one to    *)
(* another while the user edits and commits.  Operations follow each       *)
(* other (what keeps them apart is KubeLease and KubeEnvironment); one     *)
(* that dies leaves what it has done to the next.                          *)
(*                                                                         *)
(* A service stands for the objects rendered for it; its text is all that  *)
(* Compose says of it.  Exposure and expiry are KubeEnvironment's.         *)
(***************************************************************************)
EXTENDS Integers, FiniteSets

CONSTANTS
    KwJobs,      \* services that are Jobs
    KwWorkloads, \* services that are Deployments or StatefulSets
    KwSecretive, \* services with a generated environment Secret
    KwTexts,     \* texts a service may have; of "built" the image is built locally
    KwOps,       \* bound: how many operations are run
    KwEdits,     \* bound: how many edits and commits the user makes
    KwFaults,    \* subset of {"call", "die", "unwell"}
    KwBudget     \* how many of them happen

KwServices == KwJobs \union KwWorkloads

ASSUME KwAssumption ==
    /\ KwJobs \intersect KwWorkloads = {} /\ KwSecretive \subseteq KwServices
    /\ "none" \notin KwTexts /\ KwFaults \subseteq {"call", "die", "unwell"}
    /\ KwOps \in Nat /\ KwEdits \in Nat /\ KwBudget \in Nat

VARIABLES
    kwTree,   \* the checkout: commit, whether it is dirty, the text of each service
    kwSpace,  \* the revision label of the namespace, or KwNone
    kwObject, \* of each service: the spec hash it was applied with, and its health
    kwPushed, \* images in the registry: service and revision
    kwSelf,   \* the operation: where it is, its command and number, what its locked
              \* inspection saw, its revision and texts, and what its loop has to do
    kwRun, kwEdited, kwLeft

kwVars == <<kwTree, kwSpace, kwObject, kwPushed, kwSelf, kwRun, kwEdited, kwLeft>>

KwNone == [of |-> "nothing", commit |-> 0, op |-> 0, text |-> [s \in KwServices |-> "none"]]
KwAbsent == [hash |-> KwNone, roll |-> 0, health |-> "absent"]
KwEmpty == [s \in KwServices |-> KwAbsent]
KwIdle ==
    [at |-> "idle", task |-> "none", op |-> 0, space |-> KwNone, object |-> KwEmpty,
     revision |-> KwNone, todo |-> {}]

KwInit ==
    /\ \E text \in [KwServices -> KwTexts] : kwTree = [commit |-> 0, dirty |-> FALSE, text |-> text]
    /\ kwSpace = KwNone /\ kwObject = KwEmpty /\ kwPushed = {}
    /\ kwSelf = KwIdle /\ kwRun = 0 /\ kwEdited = 0 /\ kwLeft = KwBudget

------------------------------------------------------------------------------
KwGo(where) == kwSelf' = [kwSelf EXCEPT !.at = where]
KwGoWith(where, todo) == kwSelf' = [kwSelf EXCEPT !.at = where, !.todo = todo]
KwFault(kind) == kind \in KwFaults /\ kwLeft > 0 /\ kwLeft' = kwLeft - 1
KwEnded == {"idle", "refused", "succeeded", "failed"}

\* The user edits a service, adds or removes one, or commits, at any time.
KwEdit ==
    /\ kwEdited < KwEdits /\ kwEdited' = kwEdited + 1
    /\ \/ \E s \in KwServices, text \in KwTexts \union {"none"} :
            kwTree' = [kwTree EXCEPT !.dirty = TRUE, !.text[s] = text]
       \/ kwTree' = [kwTree EXCEPT !.dirty = FALSE, !.commit = @ + 1]
    /\ UNCHANGED <<kwSpace, kwObject, kwPushed, kwSelf, kwRun, kwLeft>>

\* revision: the normalized project, the commit, and, if anything could differ
\* under the same commit, the operation.
KwRevision(tree, op) ==
    [of |-> "tree", commit |-> tree.commit, text |-> tree.text,
     op |-> IF tree.dirty \/ \E s \in KwServices : tree.text[s] = "built" THEN op ELSE 0]

\* Of a revision: its services, and those whose image it builds.
KwDesired(revision) == {s \in KwServices : revision.text[s] # "none"}
KwBuilds(revision) == {s \in KwServices : revision.text[s] = "built"}

\* render_environment: every label set carries the revision, so every spec hash
\* changes with it; a workload with a Secret also carries its operation.
KwRendered(s, revision, op) ==
    [hash |-> revision, roll |-> IF s \in KwSecretive \ KwJobs THEN op ELSE 0]
KwSame(s, object, revision, op) ==
    [hash |-> object.hash, roll |-> object.roll] = KwRendered(s, revision, op)

\* The command resolves the checkout once, takes the lock and looks.
KwBegin ==
    /\ kwSelf.at \in KwEnded /\ kwRun < KwOps /\ kwRun' = kwRun + 1
    /\ \E task \in {"up", "down"} :
        kwSelf' = [KwIdle EXCEPT !.at = "planning", !.task = task, !.op = kwRun + 1,
                      !.space = kwSpace, !.object = kwObject,
                      !.revision = KwRevision(kwTree, kwRun + 1)]
    /\ UNCHANGED <<kwTree, kwSpace, kwObject, kwPushed, kwEdited, kwLeft>>

------------------------------------------------------------------------------
(* plan: an `up` removes nothing, adds nothing to a revision that is there, *)
(* and replaces no Job.                                                     *)

KwSeen == {s \in KwServices : kwSelf.object[s].hash # KwNone}

\* ensure_no_stale_resources and ensure_no_runtime_additions.
KwStale == KwSeen \ KwDesired(kwSelf.revision)
KwAdded == IF kwSelf.space = KwNone THEN {} ELSE KwDesired(kwSelf.revision) \ KwSeen

\* job_needs_create refuses what it finds changed.
KwChangedJobs ==
    {s \in KwJobs \intersect KwSeen \intersect KwDesired(kwSelf.revision) :
        ~KwSame(s, kwSelf.object[s], kwSelf.revision, kwSelf.op)}

\* Mutant of KwRefused: what the project no longer has is left where it is.
KwRefusedUnlessStale == KwAdded # {} \/ KwChangedJobs # {}

KwRefused == KwStale # {} \/ KwAdded # {} \/ KwChangedJobs # {}

\* A Job that is there unchanged is not applied, the rest always is.
KwSelected == KwDesired(kwSelf.revision) \ (KwJobs \intersect KwSeen)

KwPlan ==
    /\ kwSelf.at = "planning"
    /\ IF kwSelf.task = "down" THEN KwGo("deleting")
       ELSE IF KwRefused \/ KwDesired(kwSelf.revision) = {} THEN KwGo("refused")
       ELSE KwGoWith("building", KwBuilds(kwSelf.revision))
    /\ UNCHANGED <<kwTree, kwSpace, kwObject, kwPushed, kwRun, kwEdited, kwLeft>>

------------------------------------------------------------------------------
(* apply.                                                                  *)

\* A call that fails ends the apply, wherever it is.
KwFails == KwFault("call") /\ KwGoWith("undoing", {})

\* apply_builder: one image after another is built and pushed.
KwBuild ==
    /\ kwSelf.at = "building"
    /\ \/ kwSelf.todo = {} /\ UNCHANGED <<kwPushed, kwLeft>>
          /\ KwGo(IF kwSelf.space = KwNone THEN "claiming" ELSE "first")
       \/ \E s \in kwSelf.todo :
            /\ kwPushed' = kwPushed \union {<<s, kwSelf.revision>>}
            /\ KwGoWith("building", kwSelf.todo \ {s}) /\ UNCHANGED kwLeft
       \/ KwFails /\ UNCHANGED kwPushed
    /\ UNCHANGED <<kwTree, kwSpace, kwObject, kwRun, kwEdited>>

\* claim_namespace creates it with the label of the revision already on it.
KwClaim ==
    /\ kwSelf.at = "claiming"
    /\ \/ kwSpace' = kwSelf.revision /\ KwGo("first") /\ UNCHANGED kwLeft
       \/ KwFails /\ kwSpace' \in {kwSpace, kwSelf.revision}
    /\ UNCHANGED <<kwTree, kwObject, kwPushed, kwRun, kwEdited>>

\* What a server-side apply makes of an object: the same manifest changes
\* nothing, another one starts a rollout beside what is available.
KwApplied(s) ==
    IF KwSame(s, kwObject[s], kwSelf.revision, kwSelf.op) THEN kwObject[s]
    ELSE [hash |-> kwSelf.revision, roll |-> KwRendered(s, kwSelf.revision, kwSelf.op).roll,
          health |-> IF kwObject[s].health \in {"ready", "replacing"} THEN "replacing" ELSE "starting"]

\* apply_in_order: one list for the Jobs, one for the workloads.  A list is
\* applied object by object, as far as it gets.
KwApply ==
    /\ kwSelf.at \in {"first", "second"}
    /\ LET phase == KwSelected \intersect (IF kwSelf.at = "first" THEN KwJobs ELSE KwWorkloads)
           apply(done) == kwObject' = [s \in KwServices |->
                                        IF s \in done THEN KwApplied(s) ELSE kwObject[s]]
       IN \/ /\ apply(phase) /\ UNCHANGED kwLeft
             /\ IF kwSelf.at = "first" THEN KwGo("second") ELSE KwGoWith("waiting", KwSelected)
          \/ KwFails /\ \E done \in SUBSET phase : apply(done)
    /\ UNCHANGED <<kwTree, kwSpace, kwPushed, kwRun, kwEdited>>

\* Mutant of KwWait: what was found available is taken for rolled out.
KwWaitAvailable ==
    /\ kwSelf.at = "waiting"
    /\ IF kwSelf.todo = {}
       THEN KwGo(IF kwSelf.space = KwNone THEN "verifying" ELSE "labelling")
       ELSE \E s \in kwSelf.todo :
            kwObject[s].health \in {"replacing", "ready"} /\ KwGoWith("waiting", kwSelf.todo \ {s})
    /\ UNCHANGED <<kwTree, kwSpace, kwObject, kwPushed, kwRun, kwEdited, kwLeft>>

\* wait_for_resources: for each object that was applied, until it is rolled out
\* or complete, or the deadline passes.
KwWait ==
    /\ kwSelf.at = "waiting"
    /\ \/ kwSelf.todo = {} /\ UNCHANGED kwLeft
          /\ KwGo(IF kwSelf.space = KwNone THEN "verifying" ELSE "labelling")
       \/ \E s \in kwSelf.todo :
            /\ kwObject[s].health = "ready"
            /\ KwGoWith("waiting", kwSelf.todo \ {s}) /\ UNCHANGED kwLeft
       \/ (\E s \in kwSelf.todo : kwObject[s].health # "ready") /\ KwGoWith("undoing", {})
          /\ UNCHANGED kwLeft
    /\ UNCHANGED <<kwTree, kwSpace, kwObject, kwPushed, kwRun, kwEdited>>

\* reconcile_namespace_metadata, the last thing of Runtime.
KwLabel ==
    /\ kwSelf.at = "labelling"
    /\ \/ kwSpace' = kwSelf.revision /\ KwGo("verifying") /\ UNCHANGED kwLeft
       \/ KwFails /\ kwSpace' \in {kwSpace, kwSelf.revision}
    /\ UNCHANGED <<kwTree, kwObject, kwPushed, kwRun, kwEdited>>

\* resource_status: a Job has succeeded, and something of each workload is
\* available, old or new.
KwAvailable(s) == kwObject[s].health \in (IF s \in KwJobs THEN {"ready"} ELSE {"ready", "replacing"})

\* Mutant of KwVerify: it only asks whether the environment is there.
KwVerifyPresence ==
    /\ kwSelf.at = "verifying"
    /\ KwGo("succeeded")
    /\ UNCHANGED <<kwTree, kwSpace, kwObject, kwPushed, kwRun, kwEdited, kwLeft>>

\* The core's last inspection: all that is in the namespace, not only what was
\* applied.
KwVerify ==
    /\ kwSelf.at = "verifying"
    /\ \/ /\ UNCHANGED kwLeft
          /\ KwGo(IF \A s \in KwServices : kwObject[s] = KwAbsent \/ KwAvailable(s)
                  THEN "succeeded" ELSE "undoing")
       \/ KwFails
    /\ UNCHANGED <<kwTree, kwSpace, kwObject, kwPushed, kwRun, kwEdited>>

------------------------------------------------------------------------------
(* What is undone, what is deleted, and the cluster.                        *)

\* Mutant of KwUndo: a failed `up` clears what it leaves.
KwUndoAll ==
    /\ kwSelf.at = "undoing"
    /\ KwGo("deleting")
    /\ UNCHANGED <<kwTree, kwSpace, kwObject, kwPushed, kwRun, kwEdited, kwLeft>>

\* A revision that is there is never undone: Runtime has no inverse, what was
\* found stays as the `up` has left it.  What was not there goes.
KwUndo ==
    /\ kwSelf.at = "undoing"
    /\ KwGo(IF kwSelf.space = KwNone THEN "deleting" ELSE "failed")
    /\ UNCHANGED <<kwTree, kwSpace, kwObject, kwPushed, kwRun, kwEdited, kwLeft>>

\* The namespace is deleted and waited for; the images are kept.
KwDelete ==
    /\ kwSelf.at = "deleting"
    /\ \/ /\ kwSpace' = KwNone /\ kwObject' = KwEmpty /\ UNCHANGED kwLeft
          /\ KwGo(IF kwSelf.task = "down" THEN "succeeded" ELSE "failed")
       \/ /\ KwFault("call") /\ KwGo("failed")
          /\ \/ UNCHANGED <<kwSpace, kwObject>>
             \/ kwSpace' = KwNone /\ kwObject' = KwEmpty
    /\ UNCHANGED <<kwTree, kwPushed, kwRun, kwEdited>>

KwDie ==
    /\ kwSelf.at \notin KwEnded /\ KwFault("die") /\ KwGoWith("failed", {})
    /\ UNCHANGED <<kwTree, kwSpace, kwObject, kwPushed, kwRun, kwEdited>>

\* Pods start, Jobs complete, at the second try too; or they do not.
KwHealth(s, health) == kwObject' = [kwObject EXCEPT ![s].health = health]
KwCluster ==
    /\ \E s \in KwServices :
        \/ kwObject[s].health \notin {"absent", "ready"} /\ KwHealth(s, "ready") /\ UNCHANGED kwLeft
        \/ s \in KwWorkloads /\ kwObject[s].health = "ready" /\ KwFault("unwell") /\ KwHealth(s, "unready")
        \/ s \in KwJobs /\ kwObject[s].health = "starting" /\ KwFault("unwell") /\ KwHealth(s, "unready")
    /\ UNCHANGED <<kwTree, kwSpace, kwPushed, kwSelf, kwRun, kwEdited>>

KwNext ==
    \/ KwEdit \/ KwBegin \/ KwPlan \/ KwBuild \/ KwClaim \/ KwApply \/ KwWait \/ KwLabel
    \/ KwVerify \/ KwUndo \/ KwDelete \/ KwDie \/ KwCluster
KwSpec == KwInit /\ [][KwNext]_kwVars

------------------------------------------------------------------------------
KwRevisions ==
    [of : {"nothing", "tree"}, commit : 0..KwEdits, op : 0..KwOps,
     text : [KwServices -> KwTexts \union {"none"}]]
KwObjects ==
    [hash : KwRevisions, roll : 0..KwOps,
     health : {"absent", "starting", "replacing", "ready", "unready"}]

KwTypeOK ==
    /\ kwTree \in [commit : 0..KwEdits, dirty : BOOLEAN, text : [KwServices -> KwTexts \union {"none"}]]
    /\ kwSpace \in KwRevisions /\ kwObject \in [KwServices -> KwObjects]
    /\ \A image \in kwPushed : image[1] \in KwServices /\ image[2] \in KwRevisions
    /\ kwSelf.at \in KwEnded \union {"planning", "building", "claiming", "first", "second", "waiting",
                                     "labelling", "verifying", "undoing", "deleting"}
    /\ kwSelf.space \in KwRevisions /\ kwSelf.revision \in KwRevisions /\ kwSelf.todo \subseteq KwServices
    /\ kwRun \in 0..KwOps /\ kwEdited \in 0..KwEdits /\ kwLeft \in 0..KwBudget

\* An `up` succeeds only when the namespace names its revision, holds exactly
\* what that revision renders, every image of it has been pushed, every Job has
\* completed and every workload is rolled out and was available at the last
\* look, whatever the operations before it left half done.
KwWhole ==
    /\ kwSpace = kwSelf.revision
    /\ \A s \in KwServices :
        IF s \notin KwDesired(kwSelf.revision) THEN kwObject[s] = KwAbsent
        ELSE /\ KwSame(s, kwObject[s], kwSelf.revision, kwSelf.op)
             /\ kwObject[s].health = "ready"
             /\ s \in KwBuilds(kwSelf.revision) => <<s, kwSelf.revision>> \in kwPushed
KwSuccessIsWhole ==
    [][kwSelf.at # "succeeded" /\ kwSelf'.at = "succeeded" /\ kwSelf.task = "up" => KwWhole']_kwVars

\* An `up` that found an environment, fail where it may, deletes nothing of it
\* and replaces none of its Jobs (docs/product-spec.md: "Kubernetes `up` never
\* uses a destructive replacement").
KwNonDestructive ==
    [][kwSelf.task = "up" /\ kwSelf.space # KwNone /\ kwSelf'.op = kwSelf.op =>
        \A s \in KwServices :
            /\ kwObject[s] # KwAbsent => kwObject'[s] # KwAbsent
            /\ s \in KwJobs \intersect KwSeen => kwObject'[s].hash = kwObject[s].hash]_kwVars

\* An `up` of a clean checkout that builds nothing is not refused over a Job
\* that such an `up` has made and whose text has not changed since (README.md:
\* "Unchanged image-only Jobs are repeatable").
KwJobIsRepeatable ==
    kwSelf.at = "refused" /\ kwSelf.revision.op = 0 =>
        \A s \in KwChangedJobs :
            kwSelf.object[s].hash.op = 0 =>
                kwSelf.object[s].hash.text[s] # kwSelf.revision.text[s]
==============================================================================
