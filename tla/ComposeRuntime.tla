--------------------------- MODULE ComposeRuntime ----------------------------
(***************************************************************************)
(* The Compose runtime on one host: the generated documents of one         *)
(* environment, their copies of the previous revision, the marker that     *)
(* tells a rollback what to restore, and the containers that run from      *)
(* them.  The operations are an `up` with its compensation and a `down`    *)
(* that is run until it is through.                                        *)
(*                                                                         *)
(* A remote script runs over SSH.  It may not start, fail at any of its    *)
(* commands, or run to its end with its answer lost.  When its client goes *)
(* (its call is lost or cancelled, its process dies) only the local ssh is *)
(* killed: the script itself may stop there or go on on the host, command  *)
(* by command, beside whatever is done there next.  What a script reads to *)
(* begin with it has read by then.  The lock too is a session of its own:  *)
(* when that drops, the call that is under way goes on, and the next       *)
(* operation may begin.                                                    *)
(***************************************************************************)
EXTENDS Operations, Naturals

CONSTANTS
    CompTasks,   \* subset of {"up", "down"}
    CompPriors,  \* what may be there: subset of {"nothing", "environment"}
    CompFaults,  \* subset of {"call", "cancel", "drop", "die"}
    CompBudget   \* how many of them happen

ASSUME CompAssumption ==
    /\ Op \intersect {"absent", "past", "nobody"} = {}
    /\ CompTasks \subseteq {"up", "down"}
    /\ CompPriors \subseteq {"nothing", "environment"}
    /\ CompFaults \subseteq {"call", "cancel", "drop", "die"}
    /\ CompBudget \in Nat

VARIABLES
    compDoc,    \* the generated documents, each as the revision it is of
    compPrev,   \* their `.previous` copies
    compAssets, \* the revision that wrote the files under assets/ last
    compMarker, \* rollback.operation
    compDone,   \* rollback.completed
    compRuns,   \* the documents that the containers were started from
    compKept,   \* labelled resources: subset of {"volumes", "network"}
    compStray,  \* remote scripts that outlive their client
    compHeld,   \* who holds the host's lock
    compTask,   \* what an operation is
    compPlan,   \* what its locked inspection saw
    compPc,     \* what it is doing
    compUndone, \* operations whose Runtime compensation answered `destroyed`
    compLeft,   \* faults that may still happen
    compBeside  \* history: since their plan, something else changed the host

compFiles == <<compDoc, compPrev, compAssets, compMarker, compDone>>
compHost == <<compFiles, compRuns, compKept>>
compSelf == <<compHeld, compTask, compPlan>>
compVars == <<compHost, compStray, compSelf, compPc, compUndone, compLeft, compBeside>>

CompDocs == {"base", "override", "manifest"}

\* The order in which every script takes the documents.
CompRank == [base |-> 1, override |-> 2, manifest |-> 3]

CompNoDocs == [d \in CompDocs |-> "absent"]
CompNothing == <<>>
CompPartly == <<"some">>
CompMark(state, o) == <<state, o>>
CompNoMark == CompMark("absent", "nobody")

\* Compose starts from the base and the runtime override.
CompFrom(doc) == <<doc["base"], doc["override"]>>

\* inspect_request: what containers are there when the manifest is, and what
\* carries the labels when it is not.
CompStatus ==
    IF compDoc["manifest"] # "absent"
    THEN IF compRuns = CompNothing THEN "absent" ELSE "revision"
    ELSE IF compRuns = CompNothing /\ compKept = {} THEN "absent" ELSE "orphans"

CompSeen == [status |-> CompStatus, doc |-> compDoc, runs |-> compRuns, assets |-> compAssets]

CompInit ==
    /\ \E prior \in CompPriors :
        LET there == prior = "environment" IN
        /\ compDoc = [d \in CompDocs |-> IF there THEN "past" ELSE "absent"]
        /\ compAssets = IF there THEN "past" ELSE "absent"
        /\ compRuns = IF there THEN <<"past", "past">> ELSE CompNothing
        /\ compKept = IF there THEN {"volumes", "network"} ELSE {}
        \* A deployment that succeeded leaves its own marker.
        /\ compMarker = IF there THEN CompMark("begun", "past") ELSE CompNoMark
    /\ compPrev = CompNoDocs /\ compDone = "nobody" /\ compStray = {}
    /\ compHeld = {} /\ compTask \in [Op -> CompTasks]
    /\ compPlan = [o \in Op |-> CompSeen]
    /\ compPc = [o \in Op |-> "start"]
    /\ compUndone = {} /\ compBeside = {}
    /\ compLeft = CompBudget

------------------------------------------------------------------------------
(* What the scripts do: `now` are the commands of one that run.            *)

\* The network of this environment, created and joined by the shared Traefik.
CompConnects(now) ==
    /\ compKept' = IF now = {} THEN compKept ELSE compKept \union {"network"}
    /\ UNCHANGED <<compFiles, compRuns>>

\* Mutant of CompCopies: the marker is written first.
CompCopiesMarked(o, now) ==
    /\ compMarker' = IF 1 \in now THEN CompMark("begun", o) ELSE compMarker
    /\ compPrev' = [d \in CompDocs |->
                        IF CompRank[d] + 1 \in now THEN compDoc[d] ELSE compPrev[d]]
    /\ compDone' = IF 5 \in now THEN "nobody" ELSE compDone
    /\ UNCHANGED <<compDoc, compAssets, compRuns, compKept>>

\* backup_previous: every document is copied, or its stale copy removed; the
\* marker of this operation is written last.
CompCopies(o, now) ==
    /\ compPrev' = [d \in CompDocs |-> IF CompRank[d] \in now THEN compDoc[d] ELSE compPrev[d]]
    /\ compDone' = IF 4 \in now THEN "nobody" ELSE compDone
    /\ compMarker' = IF 5 \in now THEN CompMark("begun", o) ELSE compMarker
    /\ UNCHANGED <<compDoc, compAssets, compRuns, compKept>>

\* upload_compose_assets writes over the files; they have no copies.
CompStores(o, now) ==
    /\ compAssets' = IF now = {} THEN compAssets ELSE o
    /\ UNCHANGED <<compDoc, compPrev, compMarker, compDone, compRuns, compKept>>

\* upload_atomic of a document.
CompInstalls(o, d, now) ==
    /\ compDoc' = IF now = {} THEN compDoc ELSE [compDoc EXCEPT ![d] = o]
    /\ UNCHANGED <<compPrev, compAssets, compMarker, compDone, compRuns, compKept>>

\* docker compose up, from the documents that it has read.
CompBrings(docs, now) ==
    /\ compRuns' = IF 2 \in now THEN docs ELSE IF 1 \in now THEN CompPartly ELSE compRuns
    /\ compKept' = IF now = {} THEN compKept ELSE compKept \union {"volumes", "network"}
    /\ UNCHANGED compFiles

\* rollback_previous: each copy is moved back; if any was, the marker says so.
CompMoved(now) == {d \in CompDocs : CompRank[d] \in now /\ compPrev[d] # "absent"}
CompMoves(o, found, now) ==
    /\ compDoc' = [d \in CompDocs |-> IF d \in CompMoved(now) THEN compPrev[d] ELSE compDoc[d]]
    /\ compPrev' = [d \in CompDocs |-> IF d \in CompMoved(now) THEN "absent" ELSE compPrev[d]]
    /\ compMarker' = IF 4 \in now /\ (found \/ CompMoved(now) # {})
                     THEN CompMark("restored", o) ELSE compMarker
    /\ UNCHANGED <<compAssets, compDone, compRuns, compKept>>

\* rollback.completed is written and the marker removed.
CompCompletes(o, now) ==
    /\ compDone' = IF 1 \in now THEN o ELSE compDone
    /\ compMarker' = IF 2 \in now THEN CompNoMark ELSE compMarker
    /\ UNCHANGED <<compDoc, compPrev, compAssets, compRuns, compKept>>

\* destroy_owned_environment: containers, volumes and networks go by label; the
\* directory goes, some documents first, when its manifest proved to be the
\* environment's.
CompClears(owned, now) ==
    \E gone \in SUBSET CompDocs :
        /\ ~owned \/ now \intersect {4, 5} = {} => gone = {}
        /\ owned /\ 5 \in now => gone = CompDocs
        /\ compRuns' = IF 1 \in now THEN CompNothing ELSE compRuns
        /\ compKept' = compKept \ ((IF 2 \in now THEN {"volumes"} ELSE {})
                                   \union (IF 3 \in now THEN {"network"} ELSE {}))
        /\ compDoc' = [d \in CompDocs |-> IF d \in gone THEN "absent" ELSE compDoc[d]]
        /\ IF owned /\ 5 \in now
           THEN /\ compPrev' = CompNoDocs /\ compAssets' = "absent"
                /\ compMarker' = CompNoMark /\ compDone' = "nobody"
           ELSE UNCHANGED <<compPrev, compAssets, compMarker, compDone>>

------------------------------------------------------------------------------
(* Scripts and their clients.                                              *)

\* How many commands a script has.
CompLength ==
    [ingress |-> 1, backup |-> 5, assets |-> 1, base |-> 1, override |-> 1, manifest |-> 1,
     compose |-> 2, restore |-> 4, complete |-> 2, destroy |-> 5]

CompDoes(s, now) ==
    \/ s.script = "ingress" /\ CompConnects(now)
    \/ s.script = "backup" /\ CompCopies(s.of, now)
    \/ s.script = "assets" /\ CompStores(s.of, now)
    \/ s.script \in CompDocs /\ CompInstalls(s.of, s.script, now)
    \/ s.script = "compose" /\ CompBrings(s.knows, now)
    \/ s.script = "restore" /\ CompMoves(s.of, s.knows # <<>>, now)
    \/ s.script = "complete" /\ CompCompletes(s.of, now)
    \/ s.script = "destroy" /\ CompClears(s.knows # <<>>, now)

\* What a script knows: the documents to start, whether the directory is owned,
\* whether any copy was there to be moved.
CompReads(script) ==
    IF script = "compose" THEN CompFrom(compDoc)
    ELSE IF script = "destroy" /\ compDoc["manifest"] # "absent" THEN <<"owned">>
    ELSE <<>>
CompLearns(s, now) ==
    IF s.script = "restore" /\ CompMoved(now) # {} THEN <<"found">> ELSE s.knows

CompLaunched(o, script) == [of |-> o, script |-> script, done |-> 0, knows |-> CompReads(script)]

\* When command k of a script whose client is gone has run: what is left of it.
CompRest(s, k) ==
    IF k = CompLength[s.script] THEN {}
    ELSE {[s EXCEPT !.done = k, !.knows = CompLearns(s, s.done + 1 .. k)]}

\* A script whose client goes: it ends where it is, or goes on from there.
CompCut(s) ==
    \E k \in 0..CompLength[s.script] :
        /\ CompDoes(s, 1..k)
        /\ compStray' \in {compStray, compStray \union CompRest(s, k)}

CompGo(o, where) == compPc' = [compPc EXCEPT ![o] = where]
CompFault(kind) == kind \in CompFaults /\ compLeft > 0 /\ compLeft' = compLeft - 1

CompAtWork == {o \in Op : compPc[o] \notin {"start", "over"}}
CompBesides(others) == compBeside' = compBeside \union others

\* A call of o that runs a script: it is answered, or its client goes first.
CompCall(o, script, next, otherwise, undone) ==
    /\ LET s == CompLaunched(o, script) IN
       \/ /\ CompDoes(s, 1..CompLength[script]) /\ CompGo(o, next)
          /\ compUndone' = compUndone \union undone
          /\ UNCHANGED <<compStray, compLeft>>
       \/ /\ CompCut(s) /\ CompGo(o, otherwise)
          /\ CompFault("call") /\ UNCHANGED compUndone
    /\ CompBesides(CompAtWork \ {o})
    /\ UNCHANGED compSelf

\* What o does without changing the host.
CompQuietly == UNCHANGED <<compHost, compStray, compSelf, compBeside>>

\* The lock is taken and the environment inspected and planned under it.
CompStart(o) ==
    /\ compPc[o] = "start" /\ compHeld = {}
    /\ compHeld' = {o}
    /\ compPlan' = [compPlan EXCEPT ![o] = CompSeen]
    /\ compBeside' = compBeside \ {o}
    /\ CompGo(o, IF compTask[o] = "up" THEN "ingress" ELSE "destroy")
    /\ UNCHANGED <<compHost, compStray, compTask, compUndone, compLeft>>

------------------------------------------------------------------------------
(* deploy.  A call that fails ends it; only a failed `compose up` and a     *)
(* revision that does not stay ready restore the previous one at once.      *)

\* Where each script leads: ensure_ingress, backup_previous,
\* upload_compose_assets and the uploads of the documents.
CompAfter == [ingress |-> "backup", backup |-> "assets", assets |-> "base",
              base |-> "override", override |-> "manifest", manifest |-> "compose"]
CompPrepare(o) ==
    /\ compPc[o] \in DOMAIN CompAfter
    /\ CompCall(o, compPc[o], CompAfter[compPc[o]], "undo", {})

\* The external images are pulled and Compose waits for the containers.
CompCompose(o) ==
    /\ compPc[o] = "compose"
    /\ \/ CompCall(o, "compose", "stable", "restoreAtOnce", {})
       \/ CompFault("call") /\ CompGo(o, "undo") /\ CompQuietly /\ UNCHANGED compUndone

\* The stable window and the look at the images, then, with its images in the
\* manifest, the endpoints.
CompWatch(o) ==
    /\ compPc[o] \in {"stable", "expose"}
    /\ \/ /\ CompGo(o, IF compPc[o] = "stable" THEN "record" ELSE "succeeded")
          /\ UNCHANGED compLeft
       \/ CompFault("call") /\ compPc[o] = "stable" /\ CompGo(o, "restoreAtOnce")
       \/ CompFault("call") /\ CompGo(o, "undo")
    /\ CompQuietly /\ UNCHANGED compUndone

CompRecord(o) == compPc[o] = "record" /\ CompCall(o, "manifest", "expose", "undo", {})

------------------------------------------------------------------------------
(* rollback_previous: inside a deploy that failed, whose result is ignored, *)
(* and as the compensation that the core asks for.                          *)

CompAtOnce(o) == compPc[o] \in {"restoreAtOnce", "reapplyAtOnce", "completeAtOnce"}
CompThen(o, next, atOnce) == IF CompAtOnce(o) THEN atOnce ELSE next
CompGiveUp(o) == CompThen(o, "failed", "undo")

\* Run again, it goes on where it stopped.  Another operation's marker ends it
\* (exit 74), and so does one of its own without any copy left.
CompRestorable(o) == compMarker = CompMark("begun", o) /\ compPrev # CompNoDocs
CompRestored(o) == compMarker = CompMark("restored", o) \/ compDone = o
CompRestore(o) ==
    /\ compPc[o] \in {"restore", "restoreAtOnce"}
    /\ LET next == CompThen(o, "reapply", "reapplyAtOnce") IN
       \/ CompRestorable(o) /\ CompCall(o, "restore", next, CompGiveUp(o), {})
       \/ /\ ~CompRestorable(o) /\ CompGo(o, IF CompRestored(o) THEN next ELSE CompGiveUp(o))
          /\ CompQuietly /\ UNCHANGED <<compUndone, compLeft>>

\* Compose starts the documents that are in place again.
CompReapply(o) ==
    /\ compPc[o] \in {"reapply", "reapplyAtOnce"}
    /\ CompCall(o, "compose", CompThen(o, "complete", "completeAtOnce"), CompGiveUp(o), {})

\* The core is told.
CompComplete(o) ==
    /\ compPc[o] \in {"complete", "completeAtOnce"}
    /\ CompCall(o, "complete", CompGiveUp(o), CompGiveUp(o), IF CompAtOnce(o) THEN {} ELSE {o})

\* classify_rollback: what was absent is cleaned up, a revision restored, and
\* what had none is reported; nothing is done without the lock.
\* restore_previous: without a marker the revision that the manifest names tells
\* whether anything is left to do.
CompUndo(o) ==
    /\ compPc[o] = "undo"
    /\ LET plan == compPlan[o]
           already == compMarker = CompNoMark /\ compDoc["manifest"] = plan.doc["manifest"]
           helps == o \in compHeld /\ plan.status # "orphans"
       IN \/ /\ helps /\ plan.status = "absent" /\ CompGo(o, "destroy")
             /\ UNCHANGED <<compUndone, compLeft>>
          \/ /\ helps /\ plan.status = "revision"
             /\ CompGo(o, IF already THEN "failed" ELSE "restore")
             /\ compUndone' = IF already THEN compUndone \union {o} ELSE compUndone
             /\ UNCHANGED compLeft
          \/ ~helps /\ CompGo(o, "failed") /\ UNCHANGED <<compUndone, compLeft>>
          \/ helps /\ CompFault("call") /\ CompGo(o, "failed") /\ UNCHANGED compUndone
    /\ CompQuietly

------------------------------------------------------------------------------
\* Mutant of CompDestroy: without a manifest there is nothing to destroy.
CompDestroyListed(o) ==
    /\ compPc[o] = "destroy" /\ compDoc["manifest"] # "absent"
    /\ IF compTask[o] = "up" THEN CompCall(o, "destroy", "failed", "failed", {o})
                             ELSE CompCall(o, "destroy", "destroyed", "again", {})

\* destroy_environment, as the compensation of an `up` or as a `down`.
CompDestroy(o) ==
    /\ compPc[o] = "destroy"
    /\ IF compTask[o] = "up" THEN CompCall(o, "destroy", "failed", "failed", {o})
                             ELSE CompCall(o, "destroy", "destroyed", "again", {})

\* Mutant of CompFinish: what failed keeps the lock.
CompFinishKeeping(o) ==
    /\ compPc[o] \in {"succeeded", "failed", "destroyed", "again"}
    /\ compHeld' = IF compPc[o] \in {"succeeded", "destroyed"} THEN compHeld \ {o} ELSE compHeld
    /\ CompGo(o, IF compPc[o] = "again" THEN "start" ELSE "over")
    /\ UNCHANGED <<compHost, compStray, compTask, compPlan, compUndone, compLeft, compBeside>>

\* The lock is released; a `down` that did not get through is run again.
CompFinish(o) ==
    /\ compPc[o] \in {"succeeded", "failed", "destroyed", "again"}
    /\ compHeld' = compHeld \ {o}
    /\ CompGo(o, IF compPc[o] = "again" THEN "start" ELSE "over")
    /\ UNCHANGED <<compHost, compStray, compTask, compPlan, compUndone, compLeft, compBeside>>

------------------------------------------------------------------------------
(* What may happen to an operation and its scripts.                        *)

CompApplying == {"compose", "stable", "record", "expose", "succeeded", "restoreAtOnce",
                 "reapplyAtOnce", "completeAtOnce"} \union DOMAIN CompAfter

\* The script that the place of an operation runs, if it runs one.
CompScripts(o) ==
    {script \in DOMAIN CompLength :
        \/ script = "manifest" /\ compPc[o] = "record"
        \/ script = "restore" /\ compPc[o] \in {"restore", "restoreAtOnce"} /\ CompRestorable(o)
        \/ script = "compose" /\ compPc[o] \in {"reapply", "reapplyAtOnce"}
        \/ script = "complete" /\ compPc[o] \in {"complete", "completeAtOnce"}
        \/ script \notin {"restore", "complete"} /\ script = compPc[o]}

\* kill_on_drop: the local ssh is killed, and nothing else.
CompAbandon(o) ==
    /\ IF CompScripts(o) = {} THEN UNCHANGED <<compHost, compStray>>
       ELSE \E script \in CompScripts(o) : CompCut(CompLaunched(o, script))
    /\ CompBesides(CompAtWork \ {o})

\* The handler of the call is dropped, and the core compensates.
CompCancel(o) ==
    /\ compPc[o] \in CompApplying
    /\ CompFault("cancel") /\ CompGo(o, "undo")
    /\ CompAbandon(o)
    /\ UNCHANGED <<compSelf, compUndone>>

\* The process dies, and with it the session that holds the lock.
CompDie(o) ==
    /\ o \in CompAtWork
    /\ CompFault("die") /\ CompGo(o, "over") /\ compHeld' = compHeld \ {o}
    /\ CompAbandon(o)
    /\ UNCHANGED <<compTask, compPlan, compUndone>>

\* That session drops, and the call that is under way does not notice.
CompDrop(o) ==
    /\ o \in compHeld
    /\ CompFault("drop") /\ compHeld' = {}
    /\ UNCHANGED <<compHost, compStray, compTask, compPlan, compPc, compUndone, compBeside>>

\* A script without a client runs its next command.
CompGoesOn(s) ==
    /\ CompDoes(s, {s.done + 1})
    /\ compStray' = (compStray \ {s}) \union CompRest(s, s.done + 1)
    /\ CompBesides(CompAtWork)
    /\ UNCHANGED <<compSelf, compPc, compUndone, compLeft>>

CompStep(o) ==
    \/ CompStart(o) \/ CompPrepare(o) \/ CompCompose(o) \/ CompWatch(o) \/ CompRecord(o)
    \/ CompRestore(o) \/ CompReapply(o) \/ CompComplete(o) \/ CompUndo(o) \/ CompDestroy(o)
    \/ CompFinish(o)

CompNext ==
    \/ \E o \in Op : CompStep(o) \/ CompCancel(o) \/ CompDie(o) \/ CompDrop(o)
    \/ \E s \in compStray : CompGoesOn(s)

CompSpec == CompInit /\ [][CompNext]_compVars

------------------------------------------------------------------------------
CompTags == {"absent", "past"} \union Op

\* Every variable has its type, and the lock has one holder, who is at work.
CompTypeOK ==
    /\ compDoc \in [CompDocs -> CompTags] /\ compPrev \in [CompDocs -> CompTags]
    /\ compAssets \in CompTags /\ compDone \in {"nobody"} \union Op
    /\ compRuns \in {CompNothing, CompPartly} \union (CompTags \X CompTags)
    /\ compKept \subseteq {"volumes", "network"}
    /\ compHeld \subseteq CompAtWork /\ \A o, p \in compHeld : o = p
    /\ \A s \in compStray : s.of \in Op /\ s.done \in 0..(CompLength[s.script] - 1)
    /\ compUndone \subseteq Op /\ compBeside \subseteq Op /\ compLeft \in 0..CompBudget

\* Every document was there when the operation was planned.
CompWhole(o) == compPlan[o].status = "revision" /\ \A d \in CompDocs : compPlan[o].doc[d] # "absent"

\* What an operation tells the core about the runtime is true when it says so,
\* if nothing else has changed the host since its plan: no script without a
\* client and no operation that lost its lock.  A success runs the documents of
\* its own revision.  A compensation that answered left nothing when the
\* environment was absent, and the very documents that the locked plan saw,
\* started again or never stopped, when they were all there, however often it
\* was cut short (rollback_previous, restore_previous).  A `down` that answered
\* left nothing that its labels would find (destroy_environment).
CompAnswersAreTrue ==
    \A o \in Op \ compBeside :
        /\ compPc[o] = "succeeded" => compDoc = [d \in CompDocs |-> o] /\ compRuns = <<o, o>>
        /\ compPc[o] = "failed" /\ o \in compUndone =>
            /\ compPlan[o].status = "absent" => compRuns = CompNothing /\ compKept = {}
            /\ CompWhole(o) => /\ compDoc = compPlan[o].doc
                               /\ compRuns \in {compPlan[o].runs, CompFrom(compDoc)}
        /\ compPc[o] = "destroyed" =>
            compRuns = CompNothing /\ compKept = {} /\ compDoc["manifest"] = "absent"

\* While an update is at work, and nothing else has changed the host since its
\* plan, every document that it found is still on the host, in its place or as
\* its copy, after whichever command of whichever script the work stopped
\* (backup_previous, rollback_previous; docs/product-spec.md:134: "The previous
\* healthy generated documents are retained sufficiently to support best-effort
\* application rollback").  The files under assets/ are not.
CompFoundIsRetained ==
    \A o \in CompAtWork \ compBeside :
        compTask[o] = "up" /\ CompWhole(o) =>
            \A d \in CompDocs : compPlan[o].doc[d] \in {compDoc[d], compPrev[d]}

\* What an operation tells the core about a Compose runtime is true, and while
\* an update is at work no generated document that it found is lost, as long as
\* nothing else has changed the host since its plan (rollback_previous,
\* destroy_environment, backup_previous; docs/product-spec.md:134).
CompFoundIsKept == CompAnswersAreTrue /\ CompFoundIsRetained

\* A `down` that is run until it is through ends, whatever an `up` that failed
\* or died, or a removal that was cut short, left on the host.
CompDownIsThrough == \A o \in Op : compTask[o] = "down" => compPc[o] = "over"

\* Of a first deployment that was cancelled, nothing runs once its compensation
\* has answered (docs/plugin-protocol.md:52-55: the deadline "is still
\* cancellation, not permission to abandon a child process or provider
\* mutation"; lib.rs:122-123: "Every child process is kill-on-drop, so no
\* separate operation registry is needed").
CompCancelledIsUndone ==
    \A o \in Op : compPc[o] = "failed" /\ o \in compUndone /\ compPlan[o].status = "absent" =>
        compRuns = CompNothing
=============================================================================
