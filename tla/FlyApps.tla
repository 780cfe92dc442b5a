------------------------------- MODULE FlyApps -------------------------------
(***************************************************************************)
(* The Fly plugin's resources: one `up` of an environment of one App per   *)
(* service, with its compensation, and the `down`s after it.  An App is    *)
(* made in three calls (App, Volume, Machine), its Machine is replaced by  *)
(* the runtime, a public App gets an address, and the expiry is written    *)
(* last.  Any call may fail before or after it took effect, the operation  *)
(* may be cancelled, its process may die, and somebody who does not use    *)
(* the tool may change what is there.                                      *)
(*                                                                         *)
(* The project lock is held throughout (FlyLock); a check of the lock that *)
(* fails is one of the failures of the call that follows it.  A call whose *)
(* answer is lost has either taken effect by then or never will.  A look   *)
(* at an App and a call that follows it at once are one step; but a call   *)
(* that names an App after other calls may reach whoever has that name.    *)
(***************************************************************************)
EXTENDS Naturals, FiniteSets

CONSTANTS
    AppCount,    \* the services, in the order of their App names
    AppVolumes,  \* those with a volume
    AppPublic,   \* those that are public
    AppPriors,   \* what may be there: "nothing", "environment", "bare" (an
                 \* environment that has lost its addresses)
    AppFaults,   \* subset of {"call", "die", "cancel", "meddle"}
    AppBudget    \* how many of them happen

Apps == 1..AppCount

ASSUME AppAssumption ==
    /\ AppCount \in Nat \ {0}
    /\ AppVolumes \subseteq Apps /\ AppPublic \subseteq Apps
    /\ AppPriors \subseteq {"nothing", "environment", "bare"}
    /\ AppFaults \subseteq {"call", "die", "cancel", "meddle"}
    /\ AppBudget \in Nat

VARIABLES
    appCloud,      \* each App at the provider
    appPlan,       \* what the locked plan saw
    appProv,       \* provisional_apps: what this operation has created
    appVersion,    \* runtime_versions: the Machine version that it launched
    appAddress,    \* exposure_inverses
    appExpiry,     \* expiry_inverses
    appPc,         \* what the process is doing
    appAt,         \* the App it is doing it to
    appErred,      \* a failure that does not stop the loop
    appRan,        \* capabilities whose apply has been called
    appState,      \* the state that the Target's apply returned
    appUndone,     \* capabilities whose compensation answered `destroyed`
    appCaptured,   \* the exact resources a deletion may touch
    appFor,        \* why it deletes: cleanup, rollback, down
    appCancelled,  \* the operation's cancellation
    appLeft        \* faults that may still happen

appVars == <<appCloud, appPlan, appProv, appVersion, appAddress, appExpiry, appPc,
             appAt, appErred, appRan, appState, appUndone, appCaptured,
             appFor, appCancelled, appLeft>>

\* Everything but the position, the cloud and the faults.
appMemory == <<appProv, appVersion, appAddress, appExpiry>>
appCourse == <<appPlan, appRan, appState, appUndone, appCaptured, appFor>>

AppAbsent == [id |-> "none", machine |-> FALSE, volume |-> FALSE, version |-> 0,
              ip |-> FALSE, expiry |-> "none"]
AppPrior(a, addressed) ==
    [id |-> "past", machine |-> TRUE, volume |-> a \in AppVolumes, version |-> 1,
     ip |-> addressed /\ a \in AppPublic, expiry |-> "prior"]

\* Somebody else's App of the same name, in another network.  A usurper took the
\* name after the plugin had last looked whose it was.
AppForeign == {"foreign", "usurper"}
AppStranger(id, machine) ==
    [AppAbsent EXCEPT !.id = id, !.machine = machine, !.version = IF machine THEN 1 ELSE 0]

AppUnknown == [known |-> FALSE, id |-> "none", machine |-> FALSE, volume |-> FALSE]
AppNoInverse == [known |-> FALSE, version |-> 0, learned |-> FALSE]
AppNothing == [a \in Apps |-> AppUnknown]
AppNoInverses == [a \in Apps |-> AppNoInverse]

AppsInit ==
    /\ \E prior \in AppPriors :
        appCloud = [a \in Apps |-> IF prior = "nothing" THEN AppAbsent
                                   ELSE AppPrior(a, prior = "environment")]
    /\ appPlan = appCloud
    /\ appProv = AppNothing /\ appCaptured = AppNothing /\ appState = AppNothing
    /\ appVersion = [a \in Apps |-> 0]
    /\ appAddress = AppNoInverses /\ appExpiry = AppNoInverses
    /\ appPc = "planned" /\ appAt = 1 /\ appErred = FALSE
    /\ appRan = {} /\ appUndone = {}
    /\ appFor = "cleanup" /\ appCancelled = FALSE /\ appLeft = AppBudget

------------------------------------------------------------------------------
(* The course of a loop over the Apps, and how a call may end.             *)

AppFresh == \A a \in Apps : appPlan[a].id = "none"

AppGo(where, a) == appPc' = where /\ appAt' = a

\* On to the next App of S, or to what follows the loop.
AppAfter(S, a) == {b \in S : b > a}
AppFirst(S) == CHOOSE a \in S : \A b \in S : a <= b
AppLoop(S, a, again, after) ==
    IF AppAfter(S, a) = {} THEN AppGo(after, 1)
    ELSE AppGo(again, AppFirst(AppAfter(S, a)))
AppEnter(S, loop, after) == AppLoop(S, 0, loop, after)

AppFault(kind) ==
    kind \in AppFaults /\ appLeft > 0 /\ appLeft' = appLeft - 1

\* A provider call: it takes effect and is answered, it takes effect and its
\* answer is lost, or it fails.
AppCall(outcome) ==
    \/ outcome = "ok" /\ UNCHANGED appLeft
    \/ outcome \in {"lost", "no"} /\ AppFault("call")
AppOutcomes == {"ok", "lost", "no"}

\* What makes a wait or an answer fail.
AppTrouble(seen) ==
    \/ AppFault("call")
    \/ (appCancelled \/ seen) /\ UNCHANGED appLeft

\* The App's name carries the marker of the project, so it is discovered; a
\* foreign Machine in it, or another network, is an ownership conflict.
AppConflict == \E a \in Apps : appCloud[a].id \in AppForeign

\* Owned by exact metadata, or an orphan on the project's own network.
AppOwned == {a \in Apps : appCloud[a].id \in {"past", "op"}}

\* discover_inner, as the exact resources a deletion compares.
AppSeen(a) ==
    IF a \in AppOwned
    THEN [known |-> TRUE, id |-> appCloud[a].id, machine |-> appCloud[a].machine,
          volume |-> appCloud[a].volume]
    ELSE AppUnknown
AppDiscovered == [a \in Apps |-> AppSeen(a)]

\* The public Apps that the plan gives an address to, and the loop over them.
AppUnaddressed == {a \in AppPublic : ~appPlan[a].ip}
AppExposing == AppEnter(AppUnaddressed, "allocate", "commit")

\* An apply that fails, or whose operation was cancelled, enters rollback.
AppFailStage == AppGo("undoDns", 1) /\ appErred' = FALSE

------------------------------------------------------------------------------
(* Target: create_target_app for each App of an environment that is absent. *)

\* plan_up_actions: Target has work in an absent environment only; a revision
\* that is already there leaves Runtime nothing to do.
AppStart ==
    /\ appPc = "planned"
    /\ \/ AppFresh /\ AppGo("check", 1) /\ appRan' = {"Target"}
       \/ ~AppFresh /\ AppGo("update", 1) /\ UNCHANGED appRan
       \/ ~AppFresh /\ AppExposing /\ UNCHANGED appRan
    /\ UNCHANGED <<appCloud, appMemory, appErred, appPlan, appState, appUndone,
                   appCaptured, appFor, appCancelled, appLeft>>

\* The loop's check for cancellation, and the name must still be free.
AppCheckFree ==
    /\ appPc = "check"
    /\ IF ~appCancelled /\ appCloud[appAt].id = "none"
       THEN AppGo("create", appAt) /\ UNCHANGED appErred
       ELSE AppFailStage
    /\ UNCHANGED <<appCloud, appMemory, appCourse, appCancelled, appLeft>>

\* remember_provisional comes before the call; only a refusal forgets it.  A
\* lost answer is made up for by looking, if that gets through.
AppCreate ==
    /\ appPc = "create"
    /\ LET a == appAt
           record(id) == appProv' = [appProv EXCEPT ![a] =
                            [known |-> TRUE, id |-> id, machine |-> FALSE, volume |-> FALSE]]
       IN \/ /\ appCloud[a].id # "none"
             /\ AppFailStage /\ UNCHANGED <<appCloud, appProv, appLeft>>
          \/ /\ appCloud[a].id = "none"
             /\ \E outcome \in AppOutcomes :
                 /\ AppCall(outcome)
                 /\ appCloud' = IF outcome = "no" THEN appCloud
                                ELSE [appCloud EXCEPT ![a].id = "op"]
                 /\ \/ /\ outcome = "ok"
                       /\ record("op")
                       /\ AppGo(IF a \in AppVolumes THEN "volume" ELSE "machine", a)
                       /\ UNCHANGED appErred
                    \/ /\ outcome = "lost"
                       /\ record("op") \/ record("none")
                       /\ AppFailStage
                    \/ /\ outcome = "no"
                       /\ record("none") \/ UNCHANGED appProv
                       /\ AppFailStage
    /\ UNCHANGED <<appVersion, appAddress, appExpiry, appCourse, appCancelled>>

\* The Volume, then the Machine, of whatever App has the name: an error cleans
\* up what was learned so far.
AppCreatePart(field, made, next, after) ==
    /\ appPc = field
    /\ LET a == appAt
           learn == appProv' = [appProv EXCEPT ![a][field] = TRUE]
       IN \E outcome \in AppOutcomes :
           /\ IF appCloud[a].id # "none" THEN AppCall(outcome)
              ELSE outcome = "no" /\ UNCHANGED appLeft
           /\ appCloud' = IF outcome = "no" THEN appCloud ELSE [appCloud EXCEPT ![a] = made]
           /\ \/ /\ outcome = "ok"
                 /\ learn
                 /\ IF field = "volume" THEN AppGo(next, a) ELSE AppLoop(Apps, a, next, after)
              \/ /\ outcome = "lost"
                 /\ learn \/ UNCHANGED appProv
                 /\ AppGo("cleanup", a)
              \/ /\ outcome = "no"
                 /\ UNCHANGED appProv
                 /\ AppGo("cleanup", a)
    /\ UNCHANGED <<appErred, appVersion, appAddress, appExpiry, appCourse, appCancelled>>

AppCreateVolume ==
    AppCreatePart("volume", [appCloud[appAt] EXCEPT !.volume = TRUE], "machine", "created")
AppCreateMachine ==
    AppCreatePart("machine", [appCloud[appAt] EXCEPT !.machine = TRUE, !.version = 1],
                  "check", "created")

\* apply ends with a discovery whose result is the state the core keeps.
AppCreated ==
    /\ appPc = "created"
    /\ \/ /\ ~appCancelled /\ UNCHANGED <<appErred, appLeft>>
          /\ appState' = AppDiscovered
          /\ AppGo("update", 1)
       \/ /\ AppTrouble(FALSE)
          /\ appState' \in {appState, AppDiscovered}
          /\ AppFailStage
    /\ UNCHANGED <<appCloud, appMemory, appPlan, appRan, appUndone, appCaptured, appFor,
                   appCancelled>>

------------------------------------------------------------------------------
(* Runtime, Exposure and Dns: each call is preceded by a look at the very   *)
(* Machine version that the plan or the stage before it left.              *)

\* verify_initial_target, or the Machine that the plan names.
AppAsPlanned(a) ==
    /\ appCloud[a].machine
    /\ IF AppFresh
       THEN appProv[a] = AppSeen(a)
       ELSE a \in AppOwned /\ appCloud[a].version = appPlan[a].version

\* apply_runtime, up to the update of one Machine.
AppUpdate ==
    /\ appPc = "update"
    /\ LET a == appAt IN
       \/ /\ appCancelled \/ ~AppAsPlanned(a)
          /\ AppFailStage
          /\ UNCHANGED <<appCloud, appLeft>>
       \/ /\ ~appCancelled /\ AppAsPlanned(a)
          /\ \E outcome \in AppOutcomes :
              /\ AppCall(outcome)
              /\ appCloud' = IF outcome = "no" THEN appCloud
                             ELSE [appCloud EXCEPT ![a].version = 2]
              /\ IF outcome = "ok" THEN AppGo("launched", a) /\ UNCHANGED appErred
                                   ELSE AppFailStage
    /\ UNCHANGED <<appMemory, appCourse, appCancelled>>

\* wait_machine_started, and after the last one wait_public_workloads.
AppLaunched ==
    /\ appPc = "launched"
    /\ \/ /\ ~appCancelled /\ UNCHANGED <<appErred, appLeft>>
          /\ appVersion' = [appVersion EXCEPT ![appAt] = 2]
          /\ AppLoop(Apps, appAt, "update", "ready")
       \/ /\ AppTrouble(FALSE)
          /\ AppFailStage
          /\ UNCHANGED appVersion
    /\ UNCHANGED <<appCloud, appProv, appAddress, appExpiry, appCourse, appCancelled>>

\* The public Apps answer, or the shared deadline passes.
AppReady ==
    /\ appPc = "ready"
    /\ \/ ~appCancelled /\ AppExposing /\ UNCHANGED <<appErred, appLeft>>
       \/ AppTrouble(FALSE) /\ AppFailStage
    /\ UNCHANGED <<appCloud, appMemory, appCourse, appCancelled>>

\* verify_exposure_runtime and verify_expiry_runtime.
AppAsLaunched(a) ==
    /\ a \in AppOwned /\ appCloud[a].machine
    /\ appCloud[a].version = IF appVersion[a] # 0 THEN appVersion[a] ELSE appPlan[a].version

\* apply_exposure for one App; the inverse is remembered before the call, and
\* a lost answer is made up for by looking, if that gets through.
AppAllocate ==
    /\ appPc = "allocate"
    /\ LET a == appAt
           remember(learned) ==
               appAddress' = [appAddress EXCEPT ![a] =
                   [known |-> TRUE, version |-> appCloud[a].version, learned |-> learned]]
           sound == AppAsLaunched(a) /\ ~appCloud[a].ip /\ (AppFresh => AppAsPlanned(a))
       IN \/ /\ appCancelled \/ ~sound
             /\ AppFailStage
             /\ UNCHANGED <<appCloud, appAddress, appLeft>>
          \/ /\ ~appCancelled /\ sound
             /\ \E outcome \in AppOutcomes :
                 /\ AppCall(outcome)
                 /\ appCloud' = IF outcome = "no" THEN appCloud
                                ELSE [appCloud EXCEPT ![a].ip = TRUE]
                 /\ IF outcome = "ok"
                    THEN /\ remember(TRUE)
                         /\ AppLoop(AppUnaddressed, a, "allocate", "reachable")
                         /\ UNCHANGED appErred
                    ELSE /\ \E learned \in {FALSE, outcome = "lost"} : remember(learned)
                         /\ AppFailStage
    /\ appRan' = appRan \union {"Exposure"}
    /\ UNCHANGED <<appProv, appVersion, appExpiry, appPlan, appState, appUndone, appCaptured,
                   appFor, appCancelled>>

\* wait_public_workloads.
AppReachable ==
    /\ appPc = "reachable"
    /\ \/ ~appCancelled /\ AppGo("commit", 1) /\ UNCHANGED <<appErred, appLeft>>
       \/ AppTrouble(FALSE) /\ AppFailStage
    /\ UNCHANGED <<appCloud, appMemory, appCourse, appCancelled>>

\* Mutant of AppCommit: the inverse is remembered once the write has succeeded.
AppCommitLate ==
    /\ appPc = "commit"
    /\ LET a == appAt
           sound == AppAsLaunched(a) /\ appCloud[a].expiry = appPlan[a].expiry
       IN \/ /\ appCancelled
             /\ AppFailStage
             /\ UNCHANGED <<appCloud, appExpiry, appLeft>>
          \/ /\ ~appCancelled /\ ~sound
             /\ AppLoop(Apps, a, "commit", "committed") /\ appErred' = TRUE
             /\ UNCHANGED <<appCloud, appExpiry, appLeft>>
          \/ /\ ~appCancelled /\ sound
             /\ \E outcome \in AppOutcomes :
                 /\ AppCall(outcome)
                 /\ appCloud' = IF outcome = "no" THEN appCloud
                                ELSE [appCloud EXCEPT ![a].expiry = "new"]
                 /\ appErred' = (appErred \/ outcome # "ok")
                 /\ appExpiry' = IF outcome # "ok" THEN appExpiry
                                 ELSE [appExpiry EXCEPT ![a] =
                     [known |-> TRUE, version |-> appCloud[a].version, learned |-> TRUE]]
                 /\ AppLoop(Apps, a, "commit", "committed")
    /\ appRan' = appRan \union {"Dns"}
    /\ UNCHANGED <<appProv, appVersion, appAddress, appPlan, appState, appUndone, appCaptured,
                   appFor, appCancelled>>

\* apply_expiry for one App: a failure does not keep the others from it.
AppCommit ==
    /\ appPc = "commit"
    /\ LET a == appAt
           sound == AppAsLaunched(a) /\ appCloud[a].expiry = appPlan[a].expiry
       IN \/ /\ appCancelled
             /\ AppFailStage
             /\ UNCHANGED <<appCloud, appExpiry, appLeft>>
          \/ /\ ~appCancelled /\ ~sound
             /\ AppLoop(Apps, a, "commit", "committed") /\ appErred' = TRUE
             /\ UNCHANGED <<appCloud, appExpiry, appLeft>>
          \/ /\ ~appCancelled /\ sound
             /\ appExpiry' = [appExpiry EXCEPT ![a] =
                    [known |-> TRUE, version |-> appCloud[a].version, learned |-> TRUE]]
             /\ \E outcome \in AppOutcomes :
                 /\ AppCall(outcome)
                 /\ appCloud' = IF outcome = "no" THEN appCloud
                                ELSE [appCloud EXCEPT ![a].expiry = "new"]
                 /\ appErred' = (appErred \/ outcome # "ok")
                 /\ AppLoop(Apps, a, "commit", "committed")
    /\ appRan' = appRan \union {"Dns"}
    /\ UNCHANGED <<appProv, appVersion, appAddress, appPlan, appState, appUndone, appCaptured,
                   appFor, appCancelled>>

\* The apply answers, the core verifies readiness and commits.
AppCommitted ==
    /\ appPc = "committed"
    /\ \/ ~appCancelled /\ ~appErred /\ AppGo("succeeded", 1) /\ UNCHANGED <<appErred, appLeft>>
       \/ AppTrouble(appErred) /\ AppFailStage
    /\ UNCHANGED <<appCloud, appMemory, appCourse, appCancelled>>

------------------------------------------------------------------------------
(* Compensation, in the reverse order of the stages: the core asserts the   *)
(* lock anew before each, which a cancelled operation is refused.           *)

\* rollback_expiry for one inverse.
AppRestore ==
    /\ appPc = "restore"
    /\ LET a == appAt
           still == /\ a \in AppOwned /\ appCloud[a].machine
                    /\ appCloud[a].version = appExpiry[a].version
           keep == appErred' = TRUE /\ UNCHANGED appExpiry
           forget == appExpiry' = [appExpiry EXCEPT ![a] = AppNoInverse] /\ UNCHANGED appErred
       IN /\ \/ /\ ~still \/ appCloud[a].expiry \notin {appPlan[a].expiry, "new"}
                /\ keep /\ UNCHANGED <<appCloud, appLeft>>
             \/ /\ still /\ appCloud[a].expiry = appPlan[a].expiry
                /\ forget /\ UNCHANGED <<appCloud, appLeft>>
             \/ /\ still /\ appCloud[a].expiry = "new"
                /\ \E outcome \in AppOutcomes :
                    /\ AppCall(outcome)
                    /\ appCloud' = IF outcome = "no" THEN appCloud
                                   ELSE [appCloud EXCEPT ![a].expiry = appPlan[a].expiry]
                    /\ IF outcome = "ok" THEN forget ELSE keep
          /\ AppLoop({b \in Apps : appExpiry[b].known}, a, "restore", "restored")
    /\ UNCHANGED <<appProv, appVersion, appAddress, appCourse, appCancelled>>

\* rollback_exposure for one inverse: only the very address that was learned.
AppRelease ==
    /\ appPc = "release"
    /\ LET a == appAt
           still == /\ a \in AppOwned /\ appCloud[a].machine
                    /\ appCloud[a].version = appAddress[a].version
           gone == appCloud[a].id = "none"
           keep == appErred' = TRUE /\ UNCHANGED appAddress
           forget == appAddress' = [appAddress EXCEPT ![a] = AppNoInverse] /\ UNCHANGED appErred
       IN /\ \/ /\ ~gone
                /\ ~still \/ (appCloud[a].ip /\ ~appAddress[a].learned)
                /\ keep /\ UNCHANGED <<appCloud, appLeft>>
             \/ /\ gone \/ (still /\ ~appCloud[a].ip)
                /\ forget /\ UNCHANGED <<appCloud, appLeft>>
             \/ /\ still /\ appCloud[a].ip /\ appAddress[a].learned
                /\ \E outcome \in AppOutcomes :
                    /\ AppCall(outcome)
                    /\ appCloud' = IF outcome = "no" THEN appCloud
                                   ELSE [appCloud EXCEPT ![a].ip = FALSE]
                    /\ IF outcome = "ok" THEN forget ELSE keep
          /\ AppLoop({b \in Apps : appAddress[b].known}, a, "release", "released")
    /\ UNCHANGED <<appProv, appVersion, appExpiry, appCourse, appCancelled>>

\* The core's rollback: the next capability that ran, its loop, and its answer.
AppUndoStage(stage, where, loop, next) ==
    \/ /\ appPc = where /\ stage \notin appRan
       /\ AppGo(next, 1)
       /\ UNCHANGED <<appErred, appUndone, appLeft>>
    \/ /\ appPc = where /\ stage \in appRan /\ ~appCancelled
       /\ loop
       /\ appErred' = FALSE
       /\ UNCHANGED <<appUndone, appLeft>>
    \* The lock is not confirmed: the whole rollback stops here.
    \/ /\ appPc = where /\ stage \in appRan
       /\ AppTrouble(FALSE)
       /\ AppGo("failed", 1)
       /\ UNCHANGED <<appErred, appUndone>>

AppAnswerUndo(stage, where, next) ==
    /\ appPc = where
    /\ \/ appUndone' = appUndone \union (IF appErred THEN {} ELSE {stage}) /\ UNCHANGED appLeft
       \/ AppFault("call") /\ UNCHANGED appUndone
    /\ AppGo(next, 1)
    /\ UNCHANGED appErred

AppUndo ==
    /\ \/ AppUndoStage("Dns", "undoDns",
              AppEnter({a \in Apps : appExpiry[a].known}, "restore", "restored"), "undoExposure")
       \/ AppAnswerUndo("Dns", "restored", "undoExposure")
       \/ AppUndoStage("Exposure", "undoExposure",
              AppEnter({a \in Apps : appAddress[a].known}, "release", "released"), "undoTarget")
       \/ AppAnswerUndo("Exposure", "released", "undoTarget")
       \/ AppUndoStage("Target", "undoTarget", AppGo("destroy", 1), "failed")
       \/ AppAnswerUndo("Target", "destroyed", "failed") /\ appFor = "rollback"
    /\ appFor' = IF appPc = "undoTarget" THEN "rollback" ELSE appFor
    /\ UNCHANGED <<appCloud, appMemory, appPlan, appRan, appState, appCaptured, appCancelled>>

------------------------------------------------------------------------------
(* Deletion: of one App that could not be made (cleanup), of what a failed  *)
(* up made (rollback), of what an inspection saw (down).                    *)

\* merge_captured: the returned state and the provisional records must agree.
AppMergeable(a) == appState[a].known /\ appProv[a].known => appState[a] = appProv[a]
AppMerged(a) == IF appState[a].known THEN appState[a] ELSE appProv[a]

\* assert_destroy_continuity: whatever is there is exactly what was captured.
AppContinuous(captured) == \A a \in AppOwned : captured[a] = AppSeen(a)

\* delete_provisional_app; only what was learned may be deleted.
AppCleanup ==
    /\ appPc = "cleanup"
    /\ appCaptured' = [AppNothing EXCEPT ![appAt] = appProv[appAt]]
    /\ appFor' = "cleanup"
    /\ AppGo("verify", appAt) /\ appErred' = FALSE
    /\ UNCHANGED <<appCloud, appMemory, appPlan, appRan, appState, appUndone,
                   appCancelled, appLeft>>

\* destroy for the Target: nothing is deleted unless everything is continuous.
AppDestroy ==
    /\ appPc = "destroy"
    /\ LET captured == IF appFor = "down" THEN appCaptured
                       ELSE [a \in Apps |-> AppMerged(a)]
           sound == /\ appFor = "rollback" => \A a \in Apps : AppMergeable(a)
                    /\ ~AppConflict /\ AppContinuous(captured)
       IN \/ /\ sound /\ UNCHANGED appLeft
             /\ appCaptured' = captured
             /\ AppEnter({a \in Apps : captured[a].known}, "verify", "destroyed")
          \/ /\ AppTrouble(~sound)
             /\ AppGo("failed", 1)
             /\ UNCHANGED appCaptured
    /\ appErred' = FALSE
    /\ UNCHANGED <<appCloud, appMemory, appPlan, appRan, appState, appUndone, appFor,
                   appCancelled>>

\* After the last or a failed step for one App: a cleanup fails its stage, a
\* destruction goes on with the next App.
AppDeleted(gone) ==
    /\ appProv' = [appProv EXCEPT ![appAt] = IF gone THEN AppUnknown ELSE @]
    /\ IF appFor = "cleanup" THEN AppFailStage
       ELSE /\ AppLoop({b \in Apps : appCaptured[b].known}, appAt, "verify", "destroyed")
            /\ appErred' = (appErred \/ ~gone)

\* delete_captured_app_bounded looks before it deletes.
AppVerify ==
    /\ appPc = "verify"
    /\ LET a == appAt
           same == appCaptured[a] = AppSeen(a)
       IN \/ /\ ~appCancelled /\ appCloud[a].id = "none"
             /\ AppDeleted(TRUE) /\ UNCHANGED appLeft
          \/ /\ ~appCancelled /\ appCloud[a].id # "none" /\ same
             /\ AppGo("unmachine", a) /\ UNCHANGED <<appProv, appErred, appLeft>>
          \/ /\ AppTrouble(appCloud[a].id # "none" /\ ~same)
             /\ AppDeleted(FALSE)
    /\ UNCHANGED <<appCloud, appVersion, appAddress, appExpiry, appCourse, appCancelled>>

\* Its App ID and network are those that were captured.
AppSame(a) == appCloud[a].id = appCaptured[a].id

\* The Machine, then the Volume, each by its own ID, which another App does not
\* have.  What cannot be found is gone, and a busy Volume is tried again.
AppDeletePart(where, without, next) ==
    /\ appPc = where
    /\ LET a == appAt IN
       \E outcome \in AppOutcomes :
        /\ \/ ~appCancelled /\ AppCall(outcome)
           \/ appCancelled /\ outcome = "no" /\ UNCHANGED appLeft
        /\ appCloud' = IF outcome = "no" \/ ~AppSame(a) THEN appCloud
                       ELSE [appCloud EXCEPT ![a] = without]
        /\ \/ /\ outcome = "ok"
              /\ AppGo(next, a)
              /\ UNCHANGED <<appProv, appErred>>
           \/ /\ outcome # "ok" /\ where = "unvolume" /\ ~appCancelled
              /\ UNCHANGED <<appPc, appAt, appProv, appErred>>
           \/ /\ outcome # "ok"
              /\ AppDeleted(FALSE)
    /\ UNCHANGED <<appVersion, appAddress, appExpiry, appCourse, appCancelled>>

AppDeleteMachine ==
    AppDeletePart("unmachine", [appCloud[appAt] EXCEPT !.machine = FALSE, !.version = 0,
                                                       !.expiry = "none"], "drain")
AppDeleteVolume ==
    AppDeletePart("unvolume", [appCloud[appAt] EXCEPT !.volume = FALSE], "emptied")

\* The App of that name lists none of them any more.  A new one is a drift, and
\* an App that is gone lists nothing.
AppListed(where, field, next) ==
    /\ appPc = where
    /\ LET a == appAt
           clear == appCloud[a].id # "none" /\ ~appCloud[a][field]
       IN \/ /\ ~appCancelled /\ clear
             /\ AppGo(next, a) /\ UNCHANGED <<appProv, appErred, appLeft>>
          \/ AppTrouble(~clear) /\ AppDeleted(FALSE)
    /\ UNCHANGED <<appCloud, appVersion, appAddress, appExpiry, appCourse, appCancelled>>

AppDrained == AppListed("drain", "machine", "unvolume")
AppEmptied == AppListed("emptied", "volume", "recheck")

\* Mutant of AppRecheck: the App's immutable ID is not compared.
AppRecheckByName ==
    /\ appPc = "recheck"
    /\ LET a == appAt
           gone == appCloud[a].id = "none"
       IN \/ ~appCancelled /\ gone /\ AppDeleted(TRUE) /\ UNCHANGED appLeft
          \/ /\ ~appCancelled /\ ~gone
             /\ AppGo("unapp", a) /\ UNCHANGED <<appProv, appErred, appLeft>>
          \/ AppTrouble(FALSE) /\ AppDeleted(FALSE)
    /\ UNCHANGED <<appCloud, appVersion, appAddress, appExpiry, appCourse, appCancelled>>

\* The App itself is looked at again, before it is deleted for the first time.
AppRecheck ==
    /\ appPc = "recheck"
    /\ LET a == appAt
           gone == appCloud[a].id = "none"
       IN \/ ~appCancelled /\ gone /\ AppDeleted(TRUE) /\ UNCHANGED appLeft
          \/ /\ ~appCancelled /\ ~gone /\ AppSame(a)
             /\ AppGo("unapp", a) /\ UNCHANGED <<appProv, appErred, appLeft>>
          \/ AppTrouble(~gone /\ ~AppSame(a)) /\ AppDeleted(FALSE)
    /\ UNCHANGED <<appCloud, appVersion, appAddress, appExpiry, appCourse, appCancelled>>

\* The App goes by its name, whoever has it by now; one with Machines may be
\* refused until the time is up.
AppDeleteApp ==
    /\ appPc = "unapp"
    /\ LET a == appAt IN
       \/ /\ ~appCancelled
          /\ \E outcome \in AppOutcomes :
              /\ AppCall(outcome)
              /\ appCloud' = IF outcome = "no" THEN appCloud
                             ELSE [appCloud EXCEPT ![a] = AppAbsent]
              /\ \/ /\ AppGo(IF outcome = "ok" THEN "pending" ELSE "again", a)
                    /\ UNCHANGED <<appProv, appErred>>
                 \/ outcome # "ok" /\ AppDeleted(FALSE)
       \/ /\ appCancelled \/ appCloud[a].machine
          /\ AppDeleted(FALSE)
          /\ UNCHANGED <<appCloud, appLeft>>
    /\ UNCHANGED <<appVersion, appAddress, appExpiry, appCourse, appCancelled>>

\* After a refusal or without an answer: an App of that name, any App, makes
\* the plugin delete it once more.
AppDeleteAgain ==
    /\ appPc = "again"
    /\ LET a == appAt
           gone == appCloud[a].id = "none"
       IN \/ ~appCancelled /\ gone /\ AppDeleted(TRUE) /\ UNCHANGED appLeft
          \/ /\ ~appCancelled /\ ~gone
             /\ AppGo("unapp", a) /\ UNCHANGED <<appProv, appErred, appLeft>>
          \/ AppTrouble(FALSE) /\ AppDeleted(FALSE)
    /\ UNCHANGED <<appCloud, appVersion, appAddress, appExpiry, appCourse, appCancelled>>

\* Until there is no App of that name; another one is a drift.
AppVanished ==
    /\ appPc = "pending"
    /\ LET gone == appCloud[appAt].id = "none"
       IN \/ ~appCancelled /\ gone /\ AppDeleted(TRUE) /\ UNCHANGED appLeft
          \/ AppTrouble(~gone) /\ AppDeleted(FALSE)
    /\ UNCHANGED <<appCloud, appVersion, appAddress, appExpiry, appCourse, appCancelled>>

AppDeleting == {"verify", "unmachine", "drain", "unvolume", "emptied", "recheck", "unapp",
                "again", "pending"}
AppEnded == {"succeeded", "failed", "dead"}

\* Another process runs `down`: it inspects, plans, and destroys what it saw.
AppDown ==
    /\ appPc \in AppEnded /\ AppOwned # {} /\ ~AppConflict
    /\ appCaptured' = AppDiscovered
    /\ appFor' = "down" /\ appCancelled' = FALSE
    /\ AppGo("destroy", 1)
    /\ appProv' = AppNothing /\ appState' = AppNothing
    /\ appVersion' = [a \in Apps |-> 0]
    /\ appAddress' = AppNoInverses /\ appExpiry' = AppNoInverses
    /\ appRan' = {} /\ appUndone' = {}
    /\ UNCHANGED <<appCloud, appPlan, appErred, appLeft>>

AppDownEnds ==
    /\ appPc = "destroyed" /\ appFor = "down"
    /\ AppGo("failed", 1)
    /\ UNCHANGED <<appCloud, appMemory, appCourse, appErred, appCancelled, appLeft>>

------------------------------------------------------------------------------
(* Cancellation, death, and others.                                        *)

AppApplying == {"check", "create", "volume", "machine", "created", "update", "launched",
                "ready", "allocate", "reachable", "commit", "committed"}

\* Ctrl+C during an apply: the core cancels the operation, for good.
AppCancel ==
    /\ AppFault("cancel")
    /\ appPc \in AppApplying
    /\ appCancelled' = TRUE
    /\ UNCHANGED <<appCloud, appMemory, appCourse, appPc, appAt, appErred>>

AppDie ==
    /\ AppFault("die")
    /\ appPc \notin AppEnded \union {"planned"}
    /\ AppGo("dead", 1)
    /\ UNCHANGED <<appCloud, appMemory, appCourse, appErred, appCancelled>>

\* Where the next call goes to whatever App has the name.
AppByName == {"volume", "machine", "unapp", "again"}

AppMeddle(a) ==
    /\ AppFault("meddle")
    /\ LET newcomer == IF a = appAt /\ appPc \in AppByName THEN "usurper" ELSE "foreign"
           strangers == {AppStranger(newcomer, machine) : machine \in BOOLEAN}
       IN \E now \in strangers \union {AppAbsent, [appCloud[a] EXCEPT !.version = 3]} :
           /\ appCloud[a].machine \/ now \in strangers
           /\ appCloud' = [appCloud EXCEPT ![a] = now]
    /\ UNCHANGED <<appMemory, appCourse, appPc, appAt, appErred, appCancelled>>

AppForward ==
    \/ AppStart \/ AppCheckFree \/ AppCreate \/ AppCreateVolume \/ AppCreateMachine \/ AppCreated
    \/ AppUpdate \/ AppLaunched \/ AppReady \/ AppAllocate \/ AppReachable
    \/ AppCommit \/ AppCommitted
AppBackward ==
    \/ AppRestore \/ AppRelease \/ AppUndo
    \/ AppCleanup \/ AppDestroy \/ AppVerify
    \/ AppDeleteMachine \/ AppDrained \/ AppDeleteVolume \/ AppEmptied
    \/ AppRecheck \/ AppDeleteApp \/ AppDeleteAgain \/ AppVanished
    \/ AppDown \/ AppDownEnds

AppStep == AppForward \/ AppBackward
AppsNext == AppStep \/ AppCancel \/ AppDie \/ \E a \in Apps : AppMeddle(a)

AppsSpec == AppsInit /\ [][AppsNext]_appVars

------------------------------------------------------------------------------
(* Properties.                                                             *)

AppParts == [id : {"none", "past", "op"} \union AppForeign, machine : BOOLEAN, volume : BOOLEAN,
             version : 0..3, ip : BOOLEAN, expiry : {"none", "prior", "new"}]
AppRecords == [known : BOOLEAN, id : {"none", "past", "op"}, machine : BOOLEAN,
               volume : BOOLEAN]
AppInverses == [known : BOOLEAN, version : 0..3, learned : BOOLEAN]

AppsTypeOK ==
    /\ appCloud \in [Apps -> AppParts] /\ appPlan \in [Apps -> AppParts]
    /\ appProv \in [Apps -> AppRecords] /\ appState \in [Apps -> AppRecords]
    /\ appCaptured \in [Apps -> AppRecords]
    /\ appVersion \in [Apps -> {0, 2}]
    /\ appAddress \in [Apps -> AppInverses] /\ appExpiry \in [Apps -> AppInverses]
    /\ appPc \in AppApplying \union AppEnded \union AppDeleting \union
                 {"planned", "undoDns", "restore", "restored", "undoExposure", "release",
                  "released", "undoTarget", "cleanup", "destroy", "destroyed"}
    /\ appAt \in Apps /\ appErred \in BOOLEAN
    /\ appRan \subseteq {"Target", "Exposure", "Dns"} /\ appUndone \subseteq appRan
    /\ appFor \in {"cleanup", "rollback", "down"}
    /\ appCancelled \in BOOLEAN /\ appLeft \in 0..AppBudget

\* A capability whose compensation was reported as complete has left nothing
\* of the operation behind, whatever was lost on the way: no App that it made,
\* no address that it allocated, no expiry that it wrote (plugin.rs, destroy,
\* rollback_exposure, rollback_expiry; docs/architecture.md:768).
AppCompensationIsExact ==
    /\ "Target" \in appUndone => \A a \in Apps : appCloud[a].id # "op"
    /\ "Exposure" \in appUndone => \A a \in AppOwned : appCloud[a].ip => appPlan[a].ip
    /\ "Dns" \in appUndone => \A a \in AppOwned : appCloud[a].expiry # "new"

\* An App that somebody else put in the place of one is never touched, unless
\* it took the name between the plugin's last look at the App and a call by name
\* (plugin.rs, delete_captured_app_bounded, create_target_app).
AppStrangersSpared ==
    [][\A a \in Apps : appCloud[a].id \in AppForeign =>
        \/ appCloud'[a] = appCloud[a]
        \/ appLeft' < appLeft /\ UNCHANGED <<appPc, appAt>>
        \/ appCloud[a].id = "usurper" /\ a = appAt /\ appPc \in AppByName]_appVars

\* docs/product-spec.md: an App name alone never authorizes deletion, so that an
\* App is deleted after a look that showed it to be the captured one.
AppNameAuthorizesNothing ==
    [][appPc # "unapp" /\ appPc' = "unapp" => AppSame(appAt)]_appVars

\* A `down` that is run again and again removes the environment, wherever the
\* one before it was interrupted, unless the ownership of an App is disputed
\* (docs/product-spec.md:1136).
AppDownIsThrough ==
    /\ appPc \in AppEnded
    /\ (\A a \in Apps : appCloud[a].id = "none") \/ AppConflict

\* README.md:92, docs/product-spec.md:1020: a cancelled up follows the normal
\* rollback path, so that a first deployment leaves nothing behind.
AppCancelledUpIsUndone ==
    appPc = "failed" /\ appCancelled /\ AppFresh => \A a \in Apps : appCloud[a].id # "op"
=============================================================================
