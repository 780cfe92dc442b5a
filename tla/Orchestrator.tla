----------------------------- MODULE Orchestrator -----------------------------
(***************************************************************************)
(* The core's mutating operations: `up` with its rollback and `down`, run  *)
(* by separate CLI processes against one environment.  Each operation      *)
(* plans, takes the target's operation lock, plans again, and then calls   *)
(* one plugin per capability, checking before every call that the lock is  *)
(* still the very one that it was given, and journalling on local disk.    *)
(*                                                                         *)
(* The lock is the abstract one of LockAuthority, extended by what the     *)
(* plugin protocol lets an authority answer: a check that comes too late   *)
(* may be granted a new token.  Whether a call that has begun stops with   *)
(* the lock is the plugin's affair.  Those of Kubernetes and Fly check     *)
(* their lock before each change and cancel the call with it; Hetzner      *)
(* looks once, at the start of a call, and SSH and Compose never look, so  *)
(* that a call of theirs may change the environment under the next holder. *)
(***************************************************************************)
EXTENDS Integers, FiniteSets

CONSTANTS
    Op,         \* operations; each is the life of one CLI process
    Past,       \* whoever made what is there at the start
    Nobody,
    Used,       \* the capabilities whose plugins have something to manage
    Inspected,  \* those whose status readiness is judged by
    Fenced,     \* those whose plugin stops acting when the lock is lost
    Machine,    \* isolation = machine: the target owns everything on it
    Contract,   \* what plans say of rolling an action back
    Kinds,      \* the commands that are run, with their options
    Moments,    \* when Ctrl+C is pressed: during a call, between two calls
    SaveFaults, \* saving the journal may fail
    Faults      \* calls fail or go unanswered, locks lapse, processes die

Rank == [Target |-> 1, Builder |-> 2, Runtime |-> 3, Exposure |-> 4, Dns |-> 5]

ASSUME OrchestratorAssumption ==
    /\ Nobody \notin Op /\ Past \notin Op /\ Past # Nobody
    /\ Used \subseteq DOMAIN Rank
    /\ Inspected \subseteq Used /\ Fenced \subseteq Used
    /\ Machine \in BOOLEAN /\ (Machine => "Target" \in Used /\ Fenced = {})
    /\ Contract \in [Used -> {"inverse", "refused", "none"}]
    /\ Kinds \subseteq {"up", "upKeep", "down"} \union (IF Machine THEN {"downForce"} ELSE {})
    /\ Moments \subseteq {"call", "between"}
    /\ SaveFaults \in BOOLEAN /\ Faults \in BOOLEAN

VARIABLES
    world,      \* what exists: who made it, whose revision it is, all of it
    owner,      \* who owns the operation lock
    regranted,  \* its token is not the one that the owner's core holds
    kind,       \* the command and its options
    pc,         \* where the operation is
    plan,       \* the capabilities of the plan in force
    snap,       \* what was observed when the plan was made
    todo,       \* planned capabilities that are not done yet
    applied,    \* what may need compensation, later what still does
    did,        \* how far the current call has come: nothing, part, all
    stray,      \* calls whose answer never came and that may still act
    failed,     \* failures collected by a rollback or a destruction
    interrupt,  \* Ctrl+C: none, taken by the current call, dropped
    disk,       \* the journal's status on disk
    result,     \* what the command will exit with
    disturbed   \* history: operations since whose plan a call without the lock
                \* has changed the environment

vars == <<world, owner, regranted, kind, pc, plan, snap, todo, applied, did,
          stray, failed, interrupt, disk, result, disturbed>>

lockVars == <<owner, regranted>>
planVars == <<kind, plan, snap>>
loopVars == <<todo, applied, did, stray, failed>>

Up == {"up", "upKeep"}
Down == {"down", "downForce", "downBypass"}
Forced == {"downForce", "downBypass"}
Ended == {"done", "dead"}

Absent == [made |-> Nobody, rev |-> Nobody, whole |-> FALSE]
Old == [made |-> Past, rev |-> Past, whole |-> TRUE]
IsAbsent(r) == r.rev = Nobody

\* A machine's runtime cannot outlive it.
Init ==
    /\ world \in [Used -> {Absent, Old}]
    /\ Machine /\ IsAbsent(world["Target"])
         => \A c \in Used : IsAbsent(world[c])
    /\ owner = Nobody /\ regranted = FALSE
    /\ kind = [o \in Op |-> "none"]
    /\ pc = [o \in Op |-> "idle"]
    /\ plan = [o \in Op |-> {}]
    /\ snap = [o \in Op |-> [c \in Used |-> Absent]]
    /\ todo = [o \in Op |-> {}]
    /\ applied = [o \in Op |-> {}]
    /\ did = [o \in Op |-> "nothing"]
    /\ stray = [o \in Op |-> {}]
    /\ failed = [o \in Op |-> FALSE]
    /\ interrupt = [o \in Op |-> "none"]
    /\ disk = [o \in Op |-> "none"]
    /\ result = [o \in Op |-> "none"]
    /\ disturbed = {}

------------------------------------------------------------------------------

Earliest(S) == CHOOSE c \in S : \A d \in S : Rank[c] <= Rank[d]
Latest(S) == CHOOSE c \in S : \A d \in S : Rank[c] >= Rank[d]

\* APPLY_ORDER, DESTROY_ORDER and rollback_order.
Item(o) ==
    IF pc[o] = "reverting" THEN Latest(applied[o])
    ELSE IF kind[o] \in Up THEN Earliest(todo[o]) ELSE Latest(todo[o])

Go(o, where) == pc' = [pc EXCEPT ![o] = where]

\* The end of the work under the lock; the lock is released next.
Conclude(o, what) ==
    /\ Go(o, "releasing")
    /\ result' = [result EXCEPT ![o] = what]

\* save: atomic by a rename, so that a failure leaves the previous journal.
Saved(o, status) == disk' = [disk EXCEPT ![o] = status]
NotSaved == SaveFaults /\ UNCHANGED disk

\* The process ends, and what it knew is gone with it.  A call that it leaves
\* behind, which its plugin still serves, keeps what it was given.
Leave(o, where, calls) ==
    /\ Go(o, where)
    /\ stray' = [stray EXCEPT ![o] = calls]
    /\ IF calls = {}
       THEN /\ kind' = [kind EXCEPT ![o] = "none"]
            /\ snap' = [snap EXCEPT ![o] = [c \in Used |-> Absent]]
       ELSE UNCHANGED <<kind, snap>>
    /\ plan' = [plan EXCEPT ![o] = {}]
    /\ todo' = [todo EXCEPT ![o] = {}]
    /\ applied' = [applied EXCEPT ![o] = {}]
    /\ did' = [did EXCEPT ![o] = "nothing"]
    /\ failed' = [failed EXCEPT ![o] = FALSE]
    /\ interrupt' = [interrupt EXCEPT ![o] = "none"]

------------------------------------------------------------------------------
(* The lock, as its authority and its other clients change it.             *)

Intact(o) == owner = o /\ ~regranted

\* Mutant of MayAct: no plugin looks at its lock.
MayActBlind(o, c) == TRUE

\* A call on c still changes the environment: only a plugin that fences stops.
MayAct(o, c) == c \in Fenced => Intact(o)

\* The calls of o that its plugins go on with when its lock is gone.
Unstopped(o) == {call \in stray[o] : call[1] \notin Fenced}

\* The lease runs out or the authority's session ends.
Lapse ==
    /\ Faults /\ owner # Nobody
    /\ stray' = [stray EXCEPT ![owner] = Unstopped(owner)]
    /\ owner' = Nobody /\ regranted' = FALSE
    /\ UNCHANGED <<world, disturbed, planVars, pc, todo, applied, did, failed, interrupt,
                   disk, result>>

\* Mutant of Confirmed: a new token is as good as the old one.
ConfirmedAnyToken(o) ==
    /\ owner \in {Nobody, o} \/ kind[o] = "downBypass"
    /\ IF Intact(o) \/ kind[o] = "downBypass" THEN UNCHANGED lockVars
       ELSE owner' = o /\ regranted' = TRUE

\* reassert_mutation_lock confirms the lock.  A bypassed lock is not checked.
Confirmed(o) == (Intact(o) \/ kind[o] = "downBypass") /\ UNCHANGED lockVars

\* It does not: not acquired, an error, or a new token, which is released again
\* if that succeeds.
Denied(o) ==
    /\ kind[o] # "downBypass"
    /\ \/ (Faults \/ ~Intact(o)) /\ UNCHANGED lockVars
       \/ /\ owner \in {Nobody, o} /\ ~Intact(o)
          /\ owner' \in {Nobody, o} /\ regranted' = (owner' = o)

------------------------------------------------------------------------------
(* What a call does to the environment.                                    *)

\* Observation and readiness actions carry no rollback metadata.
Observes(c) == c \in {"Exposure", "Dns"} /\ Contract[c] = "none"

Removed(c) ==
    IF Machine /\ c = "Target" THEN [d \in Used |-> IF d = "Builder" THEN world[d] ELSE Absent]
                               ELSE [world EXCEPT ![c] = Absent]

\* There is no machine to put it on any more.
Homeless(c) == Machine /\ c \notin {"Target", "Builder"} /\ IsAbsent(world["Target"])

\* Such calls do nothing.
Idles(verb, c) == (verb = "apply" /\ Observes(c)) \/ (verb # "destroy" /\ Homeless(c))

Acted(o, verb, c, all) ==
    CASE Idles(verb, c) -> world
      [] verb = "apply" /\ ~Idles(verb, c) ->
           [world EXCEPT ![c] = [made |-> IF IsAbsent(@) THEN o ELSE @.made,
                                 rev |-> o, whole |-> all]]
      [] verb = "destroy" /\ all -> Removed(c)
      [] verb = "restore" /\ all /\ ~Idles(verb, c) -> [world EXCEPT ![c] = snap[o][c]]
      [] OTHER -> [world EXCEPT ![c].whole = FALSE]

------------------------------------------------------------------------------
(* classify_rollback, per capability: the compensating call, if there is   *)
(* one, and whether something is left that cannot be rolled back.          *)

\* Mutant of Compensation: what existed before is not told apart.
CompensationBlind(o, c) ==
    IF c = "Builder" THEN "keep" ELSE "destroy"

Compensation(o, c) ==
    LET existed == ~IsAbsent(snap[o][c]) IN
    CASE c = "Builder" -> "keep"
      [] c \in {"Target", "Runtime"} /\ ~existed -> "destroy"
      [] c = "Target" /\ existed -> "keep"
      [] c = "Runtime" /\ existed -> IF Contract[c] = "inverse" THEN "restore" ELSE "keep"
      [] OTHER -> IF Contract[c] # "inverse" THEN "keep"
                  ELSE IF existed THEN "restore" ELSE "destroy"

Unsupported(o, c) ==
    CASE c = "Builder" -> FALSE
      [] c \in {"Target", "Runtime"} -> ~IsAbsent(snap[o][c])
                                        /\ (c = "Target" \/ Contract[c] # "inverse")
      [] OTHER -> Contract[c] = "refused"

Verb(o) ==
    IF pc[o] = "reverting" THEN Compensation(o, Item(o))
    ELSE IF kind[o] \in Up THEN "apply" ELSE "destroy"

------------------------------------------------------------------------------
(* Before the lock.                                                        *)

\* What an up changes: whatever is missing or incomplete, and any of the rest.
UpPlans == {p \in SUBSET Used : \A c \in Used : ~world[c].whole => c \in p}

\* What a down destroys: only a forced one skips what it cannot prepare.
DownPlans(k) ==
    LET all == Used \ {"Builder"} IN
    IF k \in Forced THEN {p \in SUBSET all : "Target" \in p} ELSE {all}

\* The target is prepared so that its lock can be reached; a down shows its
\* whole plan and is over when there is nothing to destroy.
StartUp(o, k) ==
    /\ pc[o] = "idle" /\ k \in Up
    /\ kind' = [kind EXCEPT ![o] = k]
    /\ Go(o, "locking")
    /\ UNCHANGED <<world, disturbed, lockVars, plan, snap, loopVars, interrupt, disk, result>>

StartDown(o, k) ==
    /\ pc[o] = "idle" /\ k \in Down
    /\ \E p \in DownPlans(k) :
         IF \E c \in p : ~IsAbsent(world[c])
         THEN /\ kind' = [kind EXCEPT ![o] = k]
              /\ plan' = [plan EXCEPT ![o] = p]
              /\ snap' = [snap EXCEPT ![o] = world]
              /\ Go(o, "locking")
              /\ UNCHANGED result
         ELSE /\ Go(o, "done")
              /\ result' = [result EXCEPT ![o] = "ok"]
              /\ UNCHANGED planVars
    /\ UNCHANGED <<world, disturbed, lockVars, loopVars, interrupt, disk>>

\* acquire_lock.  It is not retried.
Acquire(o) ==
    /\ pc[o] = "locking" /\ owner = Nobody
    /\ owner' = o /\ regranted' = FALSE
    /\ Go(o, "locked")
    /\ UNCHANGED <<world, disturbed, planVars, loopVars, interrupt, disk, result>>

\* Busy, failed, or granted in an answer that never came.
AcquireFails(o) ==
    /\ pc[o] = "locking"
    /\ \/ (Faults \/ owner # Nobody) /\ UNCHANGED lockVars
       \/ Faults /\ owner = Nobody /\ owner' = o /\ regranted' = FALSE
    /\ Leave(o, "done", stray[o])
    /\ result' = [result EXCEPT ![o] = "error"]
    /\ UNCHANGED <<world, disturbed, disk>>

\* A forced down goes on without a lock whose authority is unavailable.
Bypass(o) ==
    /\ Faults /\ pc[o] = "locking" /\ kind[o] = "downForce"
    /\ kind' = [kind EXCEPT ![o] = "downBypass"]
    /\ Go(o, "locked")
    /\ UNCHANGED <<world, disturbed, lockVars, plan, snap, loopVars, interrupt, disk, result>>

------------------------------------------------------------------------------
(* Under the lock: the authoritative plan and the first journal.           *)

\* A down goes on only with the plan that was shown.
Replan(o) ==
    /\ pc[o] = "locked"
    /\ IF kind[o] \in Up
       THEN \E p \in UpPlans :
              /\ plan' = [plan EXCEPT ![o] = p] /\ todo' = [todo EXCEPT ![o] = p]
              /\ snap' = [snap EXCEPT ![o] = world]
       ELSE /\ snap[o] = world /\ plan[o] \in DownPlans(kind[o])
            /\ todo' = [todo EXCEPT ![o] = plan[o]] /\ UNCHANGED <<plan, snap>>
    /\ disturbed' = disturbed \ {o}
    /\ Go(o, "planned")
    /\ UNCHANGED <<world, lockVars, kind, applied, did, stray, failed, interrupt, disk, result>>

\* Planning fails, an up's plan is destructive, or a down's plan has changed.
PlanRefused(o) ==
    /\ pc[o] = "locked"
    /\ \/ Faults
       \/ kind[o] \in Up /\ \E c \in Used : ~IsAbsent(world[c])
       \/ kind[o] \in Down /\ (snap[o] # world \/ kind[o] \in Forced)
    /\ Conclude(o, "error")
    /\ UNCHANGED <<world, disturbed, lockVars, planVars, loopVars, interrupt, disk>>

\* Mutants of Journal: the status is left as it was created, or a failure to
\* save is ignored.
JournalPlanning(o) ==
    /\ pc[o] = "planned"
    /\ Go(o, "next") /\ Saved(o, "Planning")
    /\ UNCHANGED <<world, disturbed, lockVars, planVars, loopVars, interrupt, result>>
JournalLoose(o) ==
    /\ pc[o] = "planned"
    /\ Go(o, "next")
    /\ Saved(o, "Applying") \/ NotSaved
    /\ UNCHANGED <<world, disturbed, lockVars, planVars, loopVars, interrupt, result>>

Journal(o) ==
    /\ pc[o] = "planned"
    /\ \/ Saved(o, "Applying") /\ Go(o, "next") /\ UNCHANGED result
       \/ NotSaved /\ Conclude(o, "error")
    /\ UNCHANGED <<world, disturbed, lockVars, planVars, loopVars, interrupt>>

------------------------------------------------------------------------------
(* One plugin call per capability.                                         *)

\* The lock is confirmed and the call is sent.  An up enters the capability
\* among those to compensate before it knows what the call will do.
Call(o) ==
    /\ pc[o] = "next" /\ todo[o] # {}
    /\ Confirmed(o)
    /\ Go(o, "calling")
    /\ applied' = IF kind[o] \in Up THEN [applied EXCEPT ![o] = @ \union {Item(o)}] ELSE applied
    /\ UNCHANGED <<world, disturbed, planVars, todo, did, stray, failed, interrupt, disk, result>>

CallRefused(o) ==
    /\ pc[o] = "next" /\ todo[o] # {}
    /\ Denied(o)
    /\ IF kind[o] \in Up
       THEN Go(o, "failing") /\ UNCHANGED failed
       ELSE Go(o, "finishing") /\ failed' = [failed EXCEPT ![o] = TRUE]
    /\ UNCHANGED <<world, disturbed, planVars, todo, applied, did, stray, interrupt, disk, result>>

\* A call that changes something while its operation does not hold the lock that
\* it was given changes it behind the plans of all.
Behind(o) == disturbed' = IF ~Intact(o) /\ world' # world THEN Op ELSE disturbed

\* The plugin changes the environment, in one step or in several.
Act(o) ==
    /\ pc[o] \in {"calling", "reverting"} /\ did[o] # "all" /\ MayAct(o, Item(o))
    /\ \E all \in BOOLEAN :
         /\ world' = Acted(o, Verb(o), Item(o), all)
         /\ did' = [did EXCEPT ![o] = IF all THEN "all" ELSE "part"]
    /\ Behind(o)
    /\ UNCHANGED <<lockVars, planVars, pc, todo, applied, stray, failed, interrupt, disk, result>>

\* The call is no longer waited for: what it did is history.
CallOver(o) ==
    /\ did' = [did EXCEPT ![o] = "nothing"]
    /\ UNCHANGED <<world, disturbed, lockVars, planVars, interrupt>>

\* Mutant of Applied: the cancellation is not looked at.
AppliedHeedless(o) ==
    /\ pc[o] = "calling" /\ kind[o] \in Up /\ did[o] = "all"
    /\ CallOver(o)
    /\ todo' = [todo EXCEPT ![o] = @ \ {Item(o)}]
    /\ Go(o, "next")
    /\ UNCHANGED <<applied, stray, failed, disk, result>>

\* record_apply_attempt, the journal, and check_apply_cancellation.
Applied(o) ==
    /\ pc[o] = "calling" /\ kind[o] \in Up /\ did[o] = "all"
    /\ CallOver(o)
    /\ todo' = [todo EXCEPT ![o] = @ \ {Item(o)}]
    /\ \/ /\ UNCHANGED disk
          /\ Go(o, IF interrupt[o] = "taken" THEN "failing" ELSE "next")
       \/ NotSaved /\ Go(o, "failing")
    /\ UNCHANGED <<applied, stray, failed, result>>

\* The answer is an error, or does not come in time: the request is cancelled,
\* which the call may outlive.  A fenced one does not outlive the lock.
Outlived(o) == stray[o] \union (IF MayAct(o, Item(o)) THEN {<<Item(o), Verb(o)>>} ELSE {})
Unanswered(o) == stray' = [stray EXCEPT ![o] = Outlived(o)]

\* Mutant of ApplyFails: a failed capability is not among those to compensate.
ApplyFailsForgotten(o) ==
    /\ pc[o] = "calling" /\ kind[o] \in Up
    /\ Faults \/ ~MayAct(o, Item(o))
    /\ CallOver(o)
    /\ applied' = [applied EXCEPT ![o] = @ \ {Item(o)}]
    /\ Go(o, "failing")
    /\ UNCHANGED <<todo, stray, failed, disk, result>>

ApplyFails(o) ==
    /\ pc[o] = "calling" /\ kind[o] \in Up
    /\ Faults \/ ~MayAct(o, Item(o))
    /\ CallOver(o)
    /\ UNCHANGED stray \/ Unanswered(o)
    /\ Go(o, "failing")
    /\ UNCHANGED <<todo, applied, failed, disk, result>>

\* Mutant of Destroyed: what remains is not a failure.
DestroyedLoose(o) ==
    /\ pc[o] = "calling" /\ kind[o] \in Down
    /\ did[o] = "all" \/ Faults
    /\ CallOver(o)
    /\ todo' = [todo EXCEPT ![o] = @ \ {Item(o)}]
    /\ Go(o, "next")
    /\ UNCHANGED <<applied, stray, failed, disk, result>>

\* A destruction that was answered: complete, or with something remaining.
Destroyed(o) ==
    /\ pc[o] = "calling" /\ kind[o] \in Down
    /\ did[o] = "all" \/ Faults
    /\ CallOver(o)
    /\ todo' = [todo EXCEPT ![o] = @ \ {Item(o)}]
    /\ \/ /\ UNCHANGED <<disk, result>>
          /\ failed' = [failed EXCEPT ![o] = @ \/ did[o] # "all" \/ interrupt[o] = "taken"]
          /\ Go(o, IF interrupt[o] = "taken" THEN "finishing" ELSE "next")
       \/ NotSaved /\ Conclude(o, "error") /\ UNCHANGED failed
    /\ UNCHANGED <<applied, stray>>

\* Only a forced deletion of a machine tolerates errors, and not the target's.
DestroyFails(o) ==
    /\ pc[o] = "calling" /\ kind[o] \in Down
    /\ Faults \/ ~MayAct(o, Item(o))
    /\ CallOver(o)
    /\ UNCHANGED stray \/ Unanswered(o)
    /\ todo' = [todo EXCEPT ![o] = @ \ {Item(o)}]
    /\ failed' = [failed EXCEPT ![o] = @ \/ interrupt[o] = "taken"
                                         \/ ~(kind[o] \in Forced /\ Item(o) # "Target")]
    /\ Go(o, IF interrupt[o] = "taken" THEN "finishing" ELSE "next")
    /\ UNCHANGED <<applied, disk, result>>

\* A call that nobody waits for any more still acts.
StrayActs(o) ==
    /\ \E call \in stray[o], all \in BOOLEAN :
         MayAct(o, call[1]) /\ world' = Acted(o, call[2], call[1], all)
    /\ Behind(o)
    /\ UNCHANGED <<lockVars, planVars, pc, loopVars, interrupt, disk, result>>

------------------------------------------------------------------------------
(* The end of an up or a down.                                             *)

Verify(o) ==
    /\ pc[o] = "next" /\ kind[o] \in Up /\ todo[o] = {}
    /\ \/ Saved(o, "Verifying") /\ Go(o, "verifying")
       \/ NotSaved /\ Go(o, "failing")
    /\ UNCHANGED <<world, disturbed, lockVars, planVars, loopVars, interrupt, result>>

\* inspect_environment says ready; the revision is committed.
Ready(o) ==
    /\ pc[o] = "verifying"
    /\ \A c \in Inspected : world[c].whole \/ Observes(c)
    /\ \/ Saved(o, "Succeeded") /\ Conclude(o, "ok")
       \/ NotSaved /\ Conclude(o, "error")
    /\ UNCHANGED <<world, disturbed, lockVars, planVars, loopVars, interrupt>>

\* It says anything else, or fails.
NotReady(o) ==
    /\ pc[o] = "verifying"
    /\ Go(o, "failing")
    /\ UNCHANGED <<world, disturbed, lockVars, planVars, loopVars, interrupt, disk, result>>

Finish(o) ==
    /\ pc[o] \in {"next", "finishing"} /\ kind[o] \in Down
    /\ pc[o] = "next" => todo[o] = {}
    /\ IF failed[o]
       THEN Saved(o, "Incomplete") /\ Conclude(o, "error")
       ELSE Saved(o, "Succeeded") /\ Conclude(o, "ok")
    /\ UNCHANGED <<world, disturbed, lockVars, planVars, loopVars, interrupt>>

FinishUnsaved(o) ==
    /\ pc[o] \in {"next", "finishing"} /\ kind[o] \in Down
    /\ pc[o] = "next" => todo[o] = {}
    /\ NotSaved /\ Conclude(o, "error")
    /\ UNCHANGED <<world, disturbed, lockVars, planVars, loopVars, interrupt>>

------------------------------------------------------------------------------
(* rollback_after_failure.                                                 *)

\* The journal is saved first: when that fails nothing is compensated.
Rollback(o) ==
    /\ pc[o] = "failing"
    /\ \/ kind[o] = "upKeep" /\ Saved(o, "Kept") /\ Conclude(o, "error")
       \/ kind[o] = "up" /\ Saved(o, "RollingBack") /\ Go(o, "rolling") /\ UNCHANGED result
       \/ NotSaved /\ Conclude(o, "error")
    /\ UNCHANGED <<world, disturbed, lockVars, planVars, loopVars, interrupt>>

NextUndo(o) == Latest(applied[o])

\* Nothing to call for this capability.
SkipUndo(o) ==
    /\ pc[o] = "rolling" /\ applied[o] # {}
    /\ Compensation(o, NextUndo(o)) = "keep"
    /\ failed' = [failed EXCEPT ![o] = @ \/ Unsupported(o, NextUndo(o))]
    /\ applied' = [applied EXCEPT ![o] = @ \ {NextUndo(o)}]
    /\ UNCHANGED <<world, disturbed, lockVars, planVars, pc, todo, did, stray, interrupt, disk, result>>

Undo(o) ==
    /\ pc[o] = "rolling" /\ applied[o] # {}
    /\ Compensation(o, NextUndo(o)) # "keep"
    /\ Confirmed(o)
    /\ Go(o, "reverting")
    /\ failed' = [failed EXCEPT ![o] = @ \/ Unsupported(o, NextUndo(o))]
    /\ UNCHANGED <<world, disturbed, planVars, todo, applied, did, stray, interrupt, disk, result>>

\* Mutant of UndoRefused: the rollback waits for the lock to come back.
UndoRefusedWaits(o) ==
    /\ pc[o] = "rolling" /\ applied[o] # {}
    /\ Compensation(o, NextUndo(o)) # "keep"
    /\ Denied(o)
    /\ failed' = [failed EXCEPT ![o] = TRUE]
    /\ UNCHANGED <<world, disturbed, planVars, pc, todo, applied, did, stray, interrupt, disk, result>>

\* Without the lock the rollback stops.
UndoRefused(o) ==
    /\ pc[o] = "rolling" /\ applied[o] # {}
    /\ Compensation(o, NextUndo(o)) # "keep"
    /\ Denied(o)
    /\ failed' = [failed EXCEPT ![o] = TRUE]
    /\ applied' = [applied EXCEPT ![o] = {}]
    /\ UNCHANGED <<world, disturbed, planVars, pc, todo, did, stray, interrupt, disk, result>>

Undone(o) ==
    /\ pc[o] = "reverting" /\ did[o] = "all"
    /\ CallOver(o)
    /\ applied' = [applied EXCEPT ![o] = @ \ {Item(o)}]
    /\ Go(o, "rolling")
    /\ UNCHANGED <<todo, stray, failed, disk, result>>

\* Something remains, an error, or no answer: the others are still compensated.
UndoFails(o) ==
    /\ pc[o] = "reverting"
    /\ Faults \/ ~MayAct(o, Item(o))
    /\ CallOver(o)
    /\ UNCHANGED stray \/ Unanswered(o)
    /\ failed' = [failed EXCEPT ![o] = TRUE]
    /\ applied' = [applied EXCEPT ![o] = @ \ {Item(o)}]
    /\ Go(o, "rolling")
    /\ UNCHANGED <<todo, disk, result>>

RolledBack(o) ==
    /\ pc[o] = "rolling" /\ applied[o] = {}
    /\ Saved(o, IF failed[o] THEN "Incomplete" ELSE "Failed") \/ NotSaved
    /\ Conclude(o, "error")
    /\ UNCHANGED <<world, disturbed, lockVars, planVars, loopVars, interrupt>>

------------------------------------------------------------------------------
(* Release, Ctrl+C and sudden death.                                       *)

\* release_lock and finish_with_lock_release.  A new token is not released by
\* the old one.
Release(o) ==
    /\ pc[o] = "releasing" /\ (owner = o => ~regranted)
    /\ IF owner = o THEN owner' = Nobody /\ UNCHANGED regranted ELSE UNCHANGED lockVars
    /\ Leave(o, "done", Unstopped(o))
    /\ UNCHANGED <<world, disturbed, disk, result>>

\* Mutant of ReleaseFails: the error of the release is not returned.
ReleaseFailsSilent(o) ==
    /\ pc[o] = "releasing" /\ kind[o] # "downBypass"
    /\ Faults \/ ~Intact(o)
    /\ Leave(o, "done", stray[o])
    /\ UNCHANGED <<world, disturbed, lockVars, disk, result>>

\* Every attempt fails; the last one may have been served all the same.
ReleaseFails(o) ==
    /\ pc[o] = "releasing" /\ kind[o] # "downBypass"
    /\ Faults \/ ~Intact(o)
    /\ \/ UNCHANGED lockVars /\ Leave(o, "done", stray[o])
       \/ /\ Intact(o) /\ owner' = Nobody /\ UNCHANGED regranted
          /\ Leave(o, "done", Unstopped(o))
    /\ result' = [result EXCEPT ![o] = "error"]
    /\ UNCHANGED <<world, disturbed, disk>>

\* A call with progress listens to Ctrl+C, asks its plugin to stop and goes on
\* waiting.  The first such call replaces the default of the process for good,
\* but nobody listens between two calls or during a rollback.
Listening(o) == pc[o] = "calling"
Trapped(o) == pc[o] \notin {"locking", "locked"} /\ (applied[o] # {} \/ todo[o] # plan[o])

CtrlC(o) ==
    /\ interrupt[o] = "none" /\ pc[o] \notin {"idle", "releasing"} \union Ended
    /\ \/ "call" \in Moments /\ Listening(o)
          /\ interrupt' = [interrupt EXCEPT ![o] = "taken"]
       \/ "between" \in Moments /\ ~Listening(o) /\ Trapped(o)
          /\ interrupt' = [interrupt EXCEPT ![o] = "dropped"]
    /\ UNCHANGED <<world, disturbed, lockVars, planVars, pc, loopVars, disk, result>>

\* The process dies, or Ctrl+C kills it.  Its plugins serve the call that they
\* have begun to the end.
Die(o) ==
    /\ Faults /\ pc[o] \notin {"idle"} \union Ended
    /\ Leave(o, "dead", IF pc[o] \in {"calling", "reverting"} THEN Outlived(o) ELSE stray[o])
    /\ UNCHANGED <<world, disturbed, lockVars, disk, result>>

------------------------------------------------------------------------------

Start(o) == \E k \in Kinds : StartUp(o, k) \/ StartDown(o, k)
Before(o) == Start(o) \/ Acquire(o) \/ AcquireFails(o) \/ Bypass(o)
Planning(o) == Replan(o) \/ PlanRefused(o) \/ Journal(o)
Calling(o) == Call(o) \/ CallRefused(o)
Answer(o) == Applied(o) \/ ApplyFails(o) \/ Destroyed(o) \/ DestroyFails(o)
Closing(o) == Verify(o) \/ Ready(o) \/ NotReady(o) \/ Finish(o) \/ FinishUnsaved(o)
Reverting(o) ==
    \/ Rollback(o) \/ SkipUndo(o) \/ Undo(o) \/ UndoRefused(o) \/ Undone(o)
    \/ UndoFails(o) \/ RolledBack(o)
Releasing(o) == Release(o) \/ ReleaseFails(o)

\* What the core itself does, every timeout included.
Core(o) ==
    \/ Before(o) \/ Planning(o) \/ Calling(o) \/ Answer(o) \/ Closing(o)
    \/ Reverting(o) \/ Releasing(o)

Next ==
    \/ \E o \in Op : Core(o) \/ Act(o) \/ StrayActs(o) \/ CtrlC(o) \/ Die(o)
    \/ Lapse

Spec == Init /\ [][Next]_vars
FairSpec == Spec /\ \A o \in Op : WF_vars(Core(o))

------------------------------------------------------------------------------
(* Properties.                                                             *)

Places == {"idle", "locking", "locked", "planned", "next", "calling", "verifying",
           "finishing", "failing", "rolling", "reverting", "releasing"} \union Ended
Resources == [made : Op \union {Past, Nobody}, rev : Op \union {Past, Nobody}, whole : BOOLEAN]
Statuses == {"none", "Applying", "Verifying", "RollingBack", "Kept", "Failed", "Incomplete",
             "Succeeded"}

\* Type invariant of the environment, the lock and the operations.
TypeOK ==
    /\ world \in [Used -> Resources]
    /\ owner \in Op \union {Nobody} /\ regranted \in BOOLEAN
    /\ kind \in [Op -> {"none"} \union Up \union Down]
    /\ pc \in [Op -> Places]
    /\ plan \in [Op -> SUBSET Used] /\ todo \in [Op -> SUBSET Used]
    /\ applied \in [Op -> SUBSET Used]
    /\ snap \in [Op -> [Used -> Resources]]
    /\ did \in [Op -> {"nothing", "part", "all"}]
    /\ stray \in [Op -> SUBSET (Used \X {"apply", "destroy", "restore"})]
    /\ failed \in [Op -> BOOLEAN]
    /\ interrupt \in [Op -> {"none", "taken", "dropped"}]
    /\ disk \in [Op -> Statuses]
    /\ result \in [Op -> {"none", "ok", "error"}]
    /\ disturbed \subseteq Op

\* Where every plugin fences, as on Kubernetes and on Fly, nothing is ever changed
\* behind the back of an operation: not by a call that went unanswered, not by
\* one whose lease ran out, not by one that a dead process left behind.
Undisturbed == Fenced = Used => disturbed = {}

\* Whatever an operation that owns the lock has still to do is to be done to
\* the environment that its plan was made from, unless a call that did not own
\* the lock has come in between: a plan made stale by another operation is never
\* carried out, even when the lock comes back.
PlanIsCurrent ==
    \A o \in Op \ disturbed : pc[o] \in {"next", "calling"} /\ owner = o =>
        \A c \in todo[o] : world[c] = snap[o][c] \/ (c = Item(o) /\ did[o] # "nothing")

\* A rollback that says it is complete has left the environment as it was
\* found, whichever call failed and however far it had come.  (Its own calls that
\* went unanswered may still act, and so may those of others that no lock
\* stops.  Built images are kept.)
RollbackIsComplete ==
    \A o \in Op \ disturbed : pc[o] = "releasing" /\ disk[o] = "Failed" /\ Intact(o) /\ stray[o] = {} =>
        \A c \in Used \ {"Builder"} : world[c] = snap[o][c]

\* An up that was committed is what exists, and after a down nothing does, as
\* long as nothing was changed behind its back.
SuccessIsWhole ==
    \A o \in Op \ disturbed : pc[o] = "releasing" /\ disk[o] = "Succeeded" /\ Intact(o) =>
        IF kind[o] \in Up
        THEN \A c \in plan[o] : Observes(c) \/ (world[c].rev = o /\ world[c].whole)
        ELSE \A c \in Used \ {"Builder"} : IsAbsent(world[c])

\* While an operation owns the lock, what exists vanishes only by a down's own
\* call or, when it is what this operation created, by its rollback; or by a
\* call of another one that no lock stops, which is then counted as such.
UpSparesOthers ==
    [][\A c \in Used : ~IsAbsent(world[c]) /\ IsAbsent(world'[c]) /\ owner \in Op \ disturbed' =>
          world[c].made = owner \/ kind[owner] \in Down]_vars

\* docs/architecture.md: locks protect the complete mutation aggregate, so
\* nobody else changes what the owner of the lock is working on.
LocksProtect ==
    \A o \in Op : Intact(o) /\ pc[o] \in {"next", "calling"} => o \notin disturbed

\* Whatever an operation left in the environment, a journal on disk tells of it.
LeavesATrace == \A o \in Op, c \in Used : world[c].rev = o => disk[o] # "none"

\* An operation whose Ctrl+C was taken is never committed.
TakenNeverCommits == \A o \in Op : interrupt[o] = "taken" => disk[o] # "Succeeded"

\* Exit code zero: the journal says so on disk and the lock has been given up.
ExitIsTrue ==
    \A o \in Op : result[o] = "ok" =>
        /\ pc[o] = "releasing" => disk[o] = "Succeeded"
        /\ pc[o] = "done" => owner # o

\* Every operation ends, whatever is not answered, refused or lost on its way.
Settles == \A o \in Op : pc[o] = "locking" ~> pc[o] \in Ended

\* docs/product-spec.md: during an in-flight up, Ctrl+C is followed by the normal
\* failure and rollback path.
CtrlCNeverCommits == \A o \in Op : interrupt[o] # "none" => disk[o] # "Succeeded"
=============================================================================
