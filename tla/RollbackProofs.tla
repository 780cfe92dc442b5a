---------------------------- MODULE RollbackProofs ----------------------------
(***************************************************************************)
(* What an up, its rollback and a down leave behind, for any number of     *)
(* operations, any capabilities and every fault: a rollback deletes        *)
(* nothing that it did not create, one that says it is complete has put    *)
(* everything back, and what was committed is what exists.                 *)
(***************************************************************************)
EXTENDS OrchestratorProofs

------------------------------------------------------------------------------
(* A step of one operation leaves the others alone.                        *)

\* What another operation knows stays, and so does the lock that it owns.
Alone(o) ==
    \A p \in Op \ {o} :
        /\ pc'[p] = pc[p] /\ kind'[p] = kind[p] /\ plan'[p] = plan[p] /\ snap'[p] = snap[p]
        /\ todo'[p] = todo[p] /\ applied'[p] = applied[p] /\ did'[p] = did[p]
        /\ stray'[p] = stray[p] /\ failed'[p] = failed[p] /\ disk'[p] = disk[p]
        /\ (owner' = p <=> owner = p) /\ (owner = p => regranted' = regranted)
        /\ p \in disturbed => p \in disturbed'

\* Neither starting nor planning touches another operation.
LEMMA BeforeAlone ==
    ASSUME Typed, NEW o \in Op, Before(o) \/ Planning(o)
    PROVE  Alone(o) /\ UNCHANGED world
<1> USE DEF TypeOK, Typed, Alone, Go
<1>a. Nobody \notin Op BY OrchestratorAssumption DEF OrchestratorAssumption
<1>1. CASE Start(o)
  BY <1>1 DEF Start, StartUp, StartDown, planVars, lockVars, loopVars
<1>2. CASE Acquire(o)
  BY <1>2, <1>a DEF Acquire, planVars, loopVars
<1>3. CASE AcquireFails(o)
  BY <1>3, <1>a DEF AcquireFails, Leave, lockVars
<1>4. CASE Bypass(o)
  BY <1>4 DEF Bypass, lockVars, loopVars
<1>5. CASE Replan(o)
  BY <1>5 DEF Replan, lockVars
<1>6. CASE PlanRefused(o)
  BY <1>6 DEF PlanRefused, Conclude, lockVars, planVars, loopVars
<1>7. CASE Journal(o)
  BY <1>7 DEF Journal, Saved, NotSaved, Conclude, lockVars, planVars, loopVars
<1> QED
  BY <1>1, <1>2, <1>3, <1>4, <1>5, <1>6, <1>7 DEF Before, Planning

\* A denied lock is given to nobody else.
LEMMA DeniedAlone ==
    ASSUME NEW o \in Op, Denied(o)
    PROVE  \A p \in Op \ {o} :
              (owner' = p <=> owner = p) /\ (owner = p => regranted' = regranted)
BY OrchestratorAssumption DEF OrchestratorAssumption, Denied, lockVars

\* Neither does calling a plugin, nor hearing from it.
LEMMA CallingAlone ==
    ASSUME Typed, NEW o \in Op, Calling(o) \/ Answer(o)
    PROVE  Alone(o) /\ UNCHANGED world
<1> USE DEF TypeOK, Typed, Alone, Go
<1>1. CASE Call(o)
  BY <1>1 DEF Call, Confirmed, lockVars, planVars
<1>2. CASE CallRefused(o)
  BY <1>2, DeniedAlone DEF CallRefused, planVars
<1>3. CASE Applied(o)
  BY <1>3 DEF Applied, CallOver, NotSaved, lockVars, planVars
<1>4. CASE ApplyFails(o)
  BY <1>4 DEF ApplyFails, Unanswered, CallOver, lockVars, planVars
<1>5. CASE Destroyed(o)
  BY <1>5 DEF Destroyed, CallOver, NotSaved, Conclude, lockVars, planVars
<1>6. CASE DestroyFails(o)
  BY <1>6 DEF DestroyFails, Unanswered, CallOver, lockVars, planVars
<1> QED
  BY <1>1, <1>2, <1>3, <1>4, <1>5, <1>6 DEF Calling, Answer

\* A release gives up nobody else's lock.
LEMMA ReleasingLock ==
    ASSUME NEW o \in Op, Releasing(o)
    PROVE  /\ UNCHANGED <<world, disk, regranted>>
           /\ owner' = owner \/ (owner = o /\ owner' = Nobody)
<1>1. CASE Release(o)
  BY <1>1 DEF Release, lockVars
<1>2. CASE ReleaseFails(o)
  BY <1>2 DEF ReleaseFails, Intact, lockVars
<1> QED
  BY <1>1, <1>2 DEF Releasing

\* Nor does the end of an operation, a rollback or a release.
LEMMA EndingAlone ==
    ASSUME Typed, NEW o \in Op, Closing(o) \/ Reverting(o) \/ Releasing(o)
    PROVE  Alone(o) /\ UNCHANGED world
<1> USE DEF TypeOK, Typed, Alone, Go
<1>a. Nobody \notin Op BY OrchestratorAssumption DEF OrchestratorAssumption
<1>1. CASE Closing(o)
  BY <1>1
  DEF Closing, Verify, Ready, NotReady, Finish, FinishUnsaved, Saved, NotSaved, Conclude,
      lockVars, planVars, loopVars
<1>2. CASE Rollback(o) \/ RolledBack(o)
  BY <1>2 DEF Rollback, RolledBack, Saved, NotSaved, Conclude, lockVars, planVars, loopVars
<1>3. CASE SkipUndo(o) \/ Undo(o)
  BY <1>3 DEF SkipUndo, Undo, Confirmed, lockVars, planVars
<1>4. CASE UndoRefused(o)
  BY <1>4, DeniedAlone DEF UndoRefused, planVars
<1>5. CASE Undone(o)
  BY <1>5 DEF Undone, CallOver, lockVars, planVars
<1>6. CASE UndoFails(o)
  BY <1>6 DEF UndoFails, Unanswered, CallOver, lockVars, planVars
<1>7. CASE Releasing(o)
  <2>1. PICK calls : Leave(o, "done", calls)
    BY <1>7 DEF Releasing, Release, ReleaseFails
  <2>2. /\ UNCHANGED <<world, disk, regranted>>
        /\ owner' = owner \/ (owner = o /\ owner' = Nobody)
    BY <1>7, ReleasingLock
  <2>3. UNCHANGED disturbed
    BY <1>7 DEF Releasing, Release, ReleaseFails
  <2> QED BY <1>a, <2>1, <2>2, <2>3 DEF Leave
<1> QED
  BY <1>1, <1>2, <1>3, <1>4, <1>5, <1>6, <1>7 DEF Reverting

\* A plugin changes the environment and nothing else; without the lock, behind the
\* plans of all.
LEMMA ActAlone ==
    ASSUME Typed, NEW o \in Op, Act(o) \/ StrayActs(o)
    PROVE  /\ Alone(o) /\ disturbed \subseteq disturbed'
           /\ Intact(o) \/ world' = world \/ disturbed' = Op
           /\ UNCHANGED <<owner, regranted, pc, kind, plan, snap, todo, applied, stray, failed, disk>>
<1> USE DEF TypeOK, Typed, Alone
<1>1. CASE Act(o)
  BY <1>1 DEF Act, Behind, lockVars, planVars
<1>2. CASE StrayActs(o)
  BY <1>2 DEF StrayActs, Behind, lockVars, planVars, loopVars
<1> QED
  BY <1>1, <1>2

\* Ctrl+C and death concern one process.
LEMMA MisfortuneAlone ==
    ASSUME Typed, NEW o \in Op, CtrlC(o) \/ Die(o)
    PROVE  Alone(o) /\ UNCHANGED world
<1> USE DEF TypeOK, Typed, Alone, Go
<1>1. CASE CtrlC(o)
  BY <1>1 DEF CtrlC, lockVars, planVars, loopVars
<1>2. CASE Die(o)
  BY <1>2 DEF Die, Leave, lockVars
<1> QED
  BY <1>1, <1>2

\* What the end of a process leaves of it.
LEMMA Left ==
    ASSUME Typed, NEW o \in Op, NEW w \in Ended, NEW calls, Leave(o, w, calls)
    PROVE  /\ pc'[o] = w /\ stray'[o] = calls /\ did'[o] = "nothing"
           /\ calls = {} => kind'[o] = "none"
           /\ calls # {} => kind'[o] = kind[o] /\ snap'[o] = snap[o]
BY DEF TypeOK, Typed, Leave, Go

------------------------------------------------------------------------------
(* Who may still act.                                                      *)

Early == {"idle", "locking", "locked"}
Final == {"Succeeded", "Failed"}
Downward(o) == kind[o] \in Down

\* A call is in progress only where it is waited for; nothing is owned before it is
\* asked for, and nothing by a down that has bypassed the lock; a rollback is an
\* up's and a cancelled destruction has failed; only a machine's can be forced; and
\* a journal is closed last.
Guarded(o) ==
    /\ owner = o => pc[o] \notin {"idle", "locking"}
    /\ kind[o] = "downBypass" => owner # o /\ pc[o] # "locking"
    /\ did[o] # "nothing" => pc[o] \in {"calling", "reverting"}
    /\ pc[o] \in Early \union {"planned"} => stray[o] = {} /\ applied[o] = {} /\ ~failed[o]
    /\ pc[o] \notin {"idle"} \union Ended \/ stray[o] # {} => kind[o] \in Up \/ Downward(o)
    /\ kind[o] \in Forced => Machine
    /\ pc[o] \in {"verifying", "failing", "rolling", "reverting"} => kind[o] \in Up
    /\ pc[o] = "finishing" => Downward(o) /\ failed[o]
    /\ pc[o] \notin {"releasing"} \union Ended => disk[o] \notin Final
    /\ pc[o] = "releasing" /\ disk[o] = "Failed" => kind[o] \in Up

Guards == Typed /\ \A o \in Op : Guarded(o)

\* Only the operation that moves has to be looked at.
LEMMA GuardedStep ==
    ASSUME Guards, NEW o \in Op, Typed', Alone(o), Guarded(o)'
    PROVE  Guards'
<1> SUFFICES ASSUME NEW p \in Op, p # o PROVE Guarded(p)'
  BY DEF Guards
<1>1. /\ pc'[p] = pc[p] /\ kind'[p] = kind[p] /\ applied'[p] = applied[p] /\ did'[p] = did[p]
      /\ stray'[p] = stray[p] /\ failed'[p] = failed[p] /\ disk'[p] = disk[p]
      /\ (owner' = p <=> owner = p) /\ (owner = p => regranted' = regranted)
  BY DEF Alone
<1>2. Guarded(p) BY DEF Guards
<1> QED
  BY <1>1, <1>2 DEF Guarded, Downward, Intact

\* Before the first call there is nothing to act on.
LEMMA BeforeGuarded ==
    ASSUME Guards, NEW o \in Op, Typed', Before(o) \/ Planning(o)
    PROVE  Guards'
<1> USE DEF TypeOK, Typed, Go, Downward, Intact, Early, Final, Ended, Up, Down, Forced
<1>0. Typed /\ Guarded(o) BY DEF Guards
<1> SUFFICES Guarded(o)'
  BY <1>0, BeforeAlone, GuardedStep
<1>a. Nobody \notin Op BY OrchestratorAssumption DEF OrchestratorAssumption
<1>1. ASSUME NEW k \in Kinds, StartUp(o, k) PROVE Guarded(o)'
  BY <1>0, <1>1 DEF StartUp, lockVars, loopVars, Guarded
<1>2. ASSUME NEW k \in Kinds, StartDown(o, k) PROVE Guarded(o)'
  <2>1. k \in {"down", "downForce"} /\ (k \in Forced => Machine) /\ k # "downBypass"
    BY <1>2, OrchestratorAssumption DEF OrchestratorAssumption, StartDown, Forced
  <2>2. \/ kind'[o] = k /\ pc'[o] = "locking"
        \/ kind'[o] = kind[o] /\ pc'[o] = "done"
    BY <1>0, <1>2, <2>1 DEF StartDown, planVars
  <2> QED BY <1>0, <1>2, <2>1, <2>2 DEF StartDown, lockVars, loopVars, Guarded
<1>3. CASE Acquire(o)
  BY <1>0, <1>3 DEF Acquire, planVars, loopVars, Guarded
<1>4. CASE AcquireFails(o)
  <2>1. Leave(o, "done", stray[o]) /\ stray[o] = {} /\ UNCHANGED disk
    BY <1>0, <1>4 DEF AcquireFails, Guarded
  <2>2. pc'[o] = "done" /\ stray'[o] = {} /\ did'[o] = "nothing" /\ kind'[o] = "none"
    BY <1>0, <2>1, Left DEF Guarded
  <2> QED BY <2>2 DEF Guarded
<1>5. CASE Bypass(o)
  BY <1>0, <1>5 DEF Bypass, Forced, lockVars, loopVars, Guarded
<1>6. CASE Replan(o)
  BY <1>0, <1>6 DEF Replan, lockVars, Guarded
<1>7. CASE PlanRefused(o)
  BY <1>0, <1>7 DEF PlanRefused, Conclude, lockVars, planVars, loopVars, Guarded
<1>8. CASE Journal(o)
  BY <1>0, <1>8 DEF Journal, Saved, NotSaved, Conclude, lockVars, planVars, loopVars, Guarded
<1> QED
  BY <1>1, <1>2, <1>3, <1>4, <1>5, <1>6, <1>7, <1>8 DEF Before, Start, Planning

\* A call is sent by whoever waits for it, and its answer ends it.
LEMMA CallingGuarded ==
    ASSUME Guards, NEW o \in Op, Typed', Calling(o) \/ Answer(o)
    PROVE  Guards'
<1> USE DEF TypeOK, Typed, Go, Downward, Intact, Early, Final, Ended, Up, Down, Forced
<1>0. Typed /\ Guarded(o) BY DEF Guards
<1> SUFFICES Guarded(o)'
  BY <1>0, CallingAlone, GuardedStep
<1>a. Nobody \notin Op BY OrchestratorAssumption DEF OrchestratorAssumption
<1>1. CASE Call(o)
  BY <1>0, <1>1 DEF Call, Confirmed, lockVars, planVars, Guarded
<1>2. CASE CallRefused(o)
  <2>1. UNCHANGED <<owner, regranted>> \/ kind[o] # "downBypass"
    BY <1>2 DEF CallRefused, Denied
  <2> QED BY <1>0, <1>2, <2>1 DEF CallRefused, planVars, Guarded
<1>3. CASE Applied(o)
  BY <1>0, <1>3 DEF Applied, CallOver, NotSaved, lockVars, planVars, Guarded
<1>4. CASE ApplyFails(o)
  BY <1>0, <1>4 DEF ApplyFails, CallOver, lockVars, planVars, Guarded
<1>5. CASE Destroyed(o)
  BY <1>0, <1>5 DEF Destroyed, CallOver, NotSaved, Conclude, lockVars, planVars, Guarded
<1>6. CASE DestroyFails(o)
  BY <1>0, <1>6, ZenonT(60) DEF DestroyFails, CallOver, lockVars, planVars, Guarded
<1> QED
  BY <1>1, <1>2, <1>3, <1>4, <1>5, <1>6 DEF Calling, Answer

\* A plugin that acts changes nothing of this.
LEMMA ActGuarded ==
    ASSUME Guards, NEW o \in Op, Typed', Act(o) \/ StrayActs(o)
    PROVE  Guards'
<1> USE DEF Downward, Intact, Early, Final, Ended, Up, Down, Forced
<1>0. Typed /\ Guarded(o) BY DEF Guards
<1>1. UNCHANGED <<owner, regranted, pc, kind, applied, stray, failed, disk>> /\ Alone(o)
  BY <1>0, ActAlone
<1>2. did' = did \/ pc[o] \in {"calling", "reverting"}
  BY DEF Act, StrayActs, loopVars
<1>3. Guarded(o)'
  BY <1>0, <1>1, <1>2 DEF Guarded
<1> QED
  BY <1>1, <1>3, GuardedStep

\* A journal is closed when the lock is about to be released.
LEMMA EndingGuarded ==
    ASSUME Guards, NEW o \in Op, Typed', Closing(o) \/ Reverting(o) \/ Releasing(o)
    PROVE  Guards'
<1> USE DEF TypeOK, Typed, Go, Downward, Intact, Early, Final, Ended, Up, Down, Forced
<1>0. Typed /\ Guarded(o) BY DEF Guards
<1> SUFFICES Guarded(o)'
  BY <1>0, EndingAlone, GuardedStep
<1>a. Nobody \notin Op BY OrchestratorAssumption DEF OrchestratorAssumption
<1>1. CASE Verify(o) \/ Ready(o) \/ NotReady(o)
  BY <1>0, <1>1
  DEF Verify, Ready, NotReady, Saved, NotSaved, Conclude, lockVars, planVars, loopVars, Guarded
<1>2. CASE Finish(o) \/ FinishUnsaved(o)
  BY <1>0, <1>2
  DEF Finish, FinishUnsaved, Saved, NotSaved, Conclude, lockVars, planVars, loopVars, Guarded
<1>3. CASE Rollback(o) \/ RolledBack(o)
  BY <1>0, <1>3
  DEF Rollback, RolledBack, Saved, NotSaved, Conclude, lockVars, planVars, loopVars, Guarded
<1>4. CASE SkipUndo(o) \/ Undo(o)
  BY <1>0, <1>4 DEF SkipUndo, Undo, Confirmed, lockVars, planVars, Guarded
<1>5. CASE UndoRefused(o)
  <2>1. UNCHANGED <<owner, regranted>> \/ kind[o] # "downBypass"
    BY <1>5 DEF UndoRefused, Denied
  <2> QED BY <1>0, <1>5, <2>1 DEF UndoRefused, planVars, Guarded
<1>6. CASE Undone(o)
  BY <1>0, <1>6 DEF Undone, CallOver, lockVars, planVars, Guarded
<1>7. CASE UndoFails(o)
  BY <1>0, <1>7 DEF UndoFails, CallOver, lockVars, planVars, Guarded
<1>8. CASE Releasing(o)
  <2>1. PICK calls \in {Unstopped(o), stray[o]} :
          Leave(o, "done", calls) /\ (owner' = o => owner = o)
    BY <1>0, <1>8, <1>a DEF Releasing, Release, ReleaseFails, lockVars
  <2>2. /\ pc'[o] = "done" /\ stray'[o] = calls /\ did'[o] = "nothing"
        /\ calls = {} => kind'[o] = "none"
        /\ calls # {} => kind'[o] = kind[o]
    BY <1>0, <2>1, Left
  <2>3. pc[o] = "releasing" BY <1>8 DEF Releasing, Release, ReleaseFails
  <2> QED BY <1>0, <2>1, <2>2, <2>3 DEF Guarded
<1> QED
  BY <1>1, <1>2, <1>3, <1>4, <1>5, <1>6, <1>7, <1>8 DEF Closing, Reverting

\* Neither does what befalls a process or the lock.
LEMMA MisfortuneGuarded ==
    ASSUME Guards, Typed'
    PROVE  /\ \A o \in Op : CtrlC(o) \/ Die(o) => Guards'
           /\ Lapse \/ UNCHANGED vars => Guards'
<1> USE DEF TypeOK, Typed, Downward, Intact, Early, Final, Ended, Up, Down, Forced
<1>0. Typed /\ \A o \in Op : Guarded(o) BY DEF Guards
<1>a. Nobody \notin Op BY OrchestratorAssumption DEF OrchestratorAssumption
<1>1. ASSUME NEW o \in Op, CtrlC(o) PROVE Guards'
  <2>1. Guarded(o)' BY <1>0, <1>1 DEF CtrlC, lockVars, planVars, loopVars, Guarded
  <2> QED BY <1>0, <1>1, <2>1, MisfortuneAlone, GuardedStep
<1>2. ASSUME NEW o \in Op, Die(o) PROVE Guards'
  <2>1. PICK calls : Leave(o, "dead", calls) BY <1>2 DEF Die
  <2>2. /\ pc'[o] = "dead" /\ stray'[o] = calls /\ did'[o] = "nothing"
        /\ calls = {} => kind'[o] = "none"
        /\ calls # {} => kind'[o] = kind[o]
    BY <1>0, <2>1, Left
  <2>3. UNCHANGED <<owner, regranted>> /\ pc[o] \notin {"idle"} \union Ended
    BY <1>2 DEF Die, lockVars
  <2>4. Guarded(o)' BY <1>0, <2>1, <2>2, <2>3 DEF Guarded
  <2> QED BY <1>0, <1>2, <2>4, MisfortuneAlone, GuardedStep
<1>3. CASE Lapse
  <2>1. UNCHANGED <<kind, pc, applied, did, failed, disk>> /\ owner' = Nobody
    BY <1>3 DEF Lapse, planVars
  <2>2. \A p \in Op : stray'[p] \subseteq stray[p]
    BY <1>0, <1>3 DEF Lapse, Unstopped
  <2> QED BY <1>0, <1>a, <2>1, <2>2 DEF Guards, Guarded
<1>4. CASE UNCHANGED vars
  BY <1>0, <1>4 DEF vars, lockVars, planVars, loopVars, Guards, Guarded
<1> QED
  BY <1>1, <1>2, <1>3, <1>4

\* All of it holds from the start, and every step keeps it.
LEMMA GuardsStart == Init => Guards
<1> SUFFICES ASSUME Init PROVE \A o \in Op : Guarded(o)
  BY InitType DEF Guards
<1>1. Nobody \notin Op BY OrchestratorAssumption DEF OrchestratorAssumption
<1> QED
  BY <1>1 DEF Init, Guarded, Downward, Intact, Early, Final, Ended, Forced

\* Every step keeps it.
LEMMA GuardsKept ==
    ASSUME Guards, [Next]_vars
    PROVE  Guards'
<1>1. Typed' BY StepType DEF Guards
<1> QED
  BY <1>1, BeforeGuarded, CallingGuarded, ActGuarded, EndingGuarded, MisfortuneGuarded
  DEF Next, Core

------------------------------------------------------------------------------
(* What a call leaves behind.                                              *)

\* A destroyed machine takes everything on it away; only built images stay.
Sweeps(v, c, all) == v = "destroy" /\ all /\ Machine /\ c = "Target"

\* A call changes its own capability as its verb says, and the others only when
\* it deletes the machine that they are on.
Effect(o, v, c, all) ==
    /\ Idles(v, c) => world' = world
    /\ v = "apply" /\ ~Idles(v, c) =>
          /\ world'[c].made = IF IsAbsent(world[c]) THEN o ELSE world[c].made
          /\ world'[c].rev = o /\ world'[c].whole = all
    /\ v = "destroy" /\ all => world'[c] = Absent
    /\ v = "restore" /\ all /\ ~Idles(v, c) => world'[c] = snap[o][c]
    /\ v # "apply" /\ ~all /\ ~Idles(v, c) => /\ world'[c].made = world[c].made
                              /\ world'[c].rev = world[c].rev /\ world'[c].whole = FALSE
    /\ Sweeps(v, c, all) => \A d \in Used \ {"Builder"} : world'[d] = Absent
    /\ \A d \in Used \ {c} : ~Sweeps(v, c, all) \/ d = "Builder" => world'[d] = world[d]

\* That is what every call does.
LEMMA ActedEffect ==
    ASSUME Typed, NEW o \in Op, NEW v \in Verbs, NEW c \in Used, NEW all \in BOOLEAN,
           world' = Acted(o, v, c, all)
    PROVE  Effect(o, v, c, all)
<1> USE DEF Effect
<1>1. world \in [Used -> Resources] /\ \A d \in Used : world[d] \in Resources
  BY DEF Typed, TypeOK
<1>2. CASE Idles(v, c)
  BY <1>2 DEF Acted, Sweeps, Idles
<1>3. CASE v = "apply" /\ ~Idles(v, c)
  <2>1. world' = [world EXCEPT ![c] = [made |-> IF IsAbsent(world[c]) THEN o ELSE world[c].made,
                                       rev |-> o, whole |-> all]]
    BY <1>3 DEF Acted
  <2> QED BY <1>1, <1>3, <2>1 DEF Sweeps
<1>4. CASE v = "destroy" /\ all
  <2>0. ~Idles(v, c) BY <1>4 DEF Idles
  <2>1. world' = Removed(c) BY <1>4, <2>0 DEF Acted
  <2>2. CASE Machine /\ c = "Target"
    BY <1>1, <1>4, <2>0, <2>1, <2>2 DEF Removed, Sweeps
  <2>3. CASE ~(Machine /\ c = "Target")
    BY <1>1, <1>4, <2>0, <2>1, <2>3 DEF Removed, Sweeps
  <2> QED BY <2>2, <2>3
<1>5. CASE v = "restore" /\ all /\ ~Idles(v, c)
  <2>1. world' = [world EXCEPT ![c] = snap[o][c]] BY <1>5 DEF Acted
  <2> QED BY <1>1, <1>5, <2>1 DEF Sweeps
<1>6. CASE v # "apply" /\ ~all /\ ~Idles(v, c)
  <2>1. world' = [world EXCEPT ![c].whole = FALSE] BY <1>6 DEF Acted
  <2>2. \A d \in Used \ {c} : world'[d] = world[d] BY <1>1, <2>1
  <2>3. world'[c] = [world[c] EXCEPT !.whole = FALSE] BY <1>1, <2>1
  <2>4. /\ world'[c].made = world[c].made /\ world'[c].rev = world[c].rev
        /\ world'[c].whole = FALSE
    BY <1>1, <2>3 DEF Resources
  <2> QED BY <1>6, <2>2, <2>4 DEF Sweeps
<1> QED
  BY <1>2, <1>3, <1>4, <1>5, <1>6 DEF Verbs

\* What does not exist is not half there, and nothing is on a machine that does
\* not exist.
Tidy(w) == \A c \in Used : IsAbsent(w[c]) => w[c] = Absent
Housed(w) ==
    Machine /\ IsAbsent(w["Target"]) => \A c \in Used \ {"Builder"} : IsAbsent(w[c])
Sound(w) == Tidy(w) /\ Housed(w)

\* What an up found still tells its own from what was there, and the machine that
\* it found is still there.
Found(o) ==
    /\ Sound(snap[o])
    /\ \A c \in Used : IsAbsent(snap[o][c]) /\ ~IsAbsent(world[c]) => world[c].made = o
    /\ Machine /\ ~IsAbsent(snap[o]["Target"]) => ~IsAbsent(world["Target"])

\* Calls that an up makes: it applies, destroys what it did not find, and restores
\* what it found.
Fits(o, v, c) ==
    \/ v = "apply"
    \/ v = "destroy" /\ IsAbsent(snap[o][c])
    \/ v = "restore" /\ ~IsAbsent(snap[o][c])

\* An operation is not nobody, and the absent resource has no revision.
LEMMA Revisions ==
    /\ IsAbsent(Absent)
    /\ Nobody \notin Op
    /\ Machine => "Target" \in Used
    /\ Machine \in BOOLEAN
BY OrchestratorAssumption DEF OrchestratorAssumption, IsAbsent, Absent

\* Any call at all, whoever owns the lock, leaves nothing half there that does not
\* exist and nothing on a machine that does not exist.
LEMMA SoundKept ==
    ASSUME Typed, Typed', NEW o \in Op, NEW v \in Verbs, NEW c \in Used, NEW all \in BOOLEAN,
           Sound(world), Tidy(snap[o]), v = "restore" => c # "Target",
           world' = Acted(o, v, c, all)
    PROVE  Sound(world)'
<1>e. Effect(o, v, c, all)
  BY ActedEffect
<1>0. \A d \in Used : world[d] \in Resources /\ world'[d] \in Resources
  BY DEF Typed, TypeOK
<1>1. ASSUME NEW d \in Used, IsAbsent(world'[d]) PROVE world'[d] = Absent
  <2>1. CASE d # c
    <3>1. world'[d] \in {world[d], Absent} BY <1>e, <2>1 DEF Effect
    <3> QED BY <1>1, <3>1 DEF Sound, Tidy
  <2>2. CASE d = c
    <3>1. CASE Idles(v, c)
      BY <1>1, <2>2, <3>1, <1>e DEF Effect, Sound, Tidy
    <3>2. CASE v = "apply" /\ ~Idles(v, c)
      BY <1>1, <2>2, <3>2, <1>e, Revisions DEF Effect, IsAbsent
    <3>3. CASE v = "destroy" /\ all
      BY <2>2, <3>3, <1>e DEF Effect
    <3>4. CASE v = "restore" /\ all /\ ~Idles(v, c)
      BY <1>1, <2>2, <3>4, <1>e DEF Effect, Tidy
    <3>5. CASE v # "apply" /\ ~all /\ ~Idles(v, c)
      <4>1. /\ world'[c].made = world[c].made /\ world'[c].rev = world[c].rev
            /\ world'[c].whole = FALSE
        BY <3>5, <1>e DEF Effect
      <4>2. world[c] = Absent
        BY <1>1, <2>2, <4>1 DEF Sound, Tidy, IsAbsent
      <4> QED BY <1>0, <2>2, <4>1, <4>2 DEF Resources, Absent
    <3> QED BY <3>1, <3>2, <3>3, <3>4, <3>5 DEF Verbs
  <2> QED BY <2>1, <2>2
<1>2. Housed(world')
  <2> SUFFICES ASSUME Machine, IsAbsent(world'["Target"]), NEW d \in Used, d # "Builder",
                      ~IsAbsent(world'[d])
               PROVE  FALSE
    BY DEF Housed
  <2>1. "Target" \in Used /\ d # "Target" BY Revisions
  <2>2. world' # world BY <2>1 DEF Sound, Housed
  <2>3. ~Idles(v, c) BY <2>2, <1>e DEF Effect
  <2>4. CASE Sweeps(v, c, all)
    BY <2>4, <1>e, Revisions DEF Effect
  <2>5. CASE ~Sweeps(v, c, all) /\ c = "Target"
    <3>1. world'[d] = world[d] BY <2>1, <2>5, <1>e DEF Effect
    <3>2. ~IsAbsent(world["Target"]) BY <3>1 DEF Sound, Housed
    <3>3. v = "destroy" /\ all
      BY <2>1, <2>3, <2>5, <3>2, <1>e, Revisions DEF Effect, IsAbsent, Verbs
    <3> QED BY <2>5, <3>3 DEF Sweeps
  <2>6. CASE ~Sweeps(v, c, all) /\ c # "Target"
    <3>1. IsAbsent(world["Target"]) BY <2>1, <2>6, <1>e DEF Effect
    <3>2. IsAbsent(world[d]) BY <3>1 DEF Sound, Housed
    <3>3. d = c BY <2>6, <3>2, <1>e DEF Effect
    <3>4. v # "destroy" BY <2>3, <3>2, <3>3, <1>e, Revisions DEF Effect, IsAbsent
    <3>5. Homeless(c) BY <2>1, <3>1, <3>3 DEF Homeless
    <3> QED BY <2>3, <3>4, <3>5 DEF Idles
  <2> QED BY <2>4, <2>5, <2>6
<1> QED
  BY <1>1, <1>2 DEF Sound, Tidy

\* A call of an up keeps what the up found, and removes only what the up itself made.
LEMMA UpActs ==
    ASSUME Typed, NEW o \in Op, NEW v \in Verbs, NEW c \in Used, NEW all \in BOOLEAN,
           Found(o), Fits(o, v, c), world' = Acted(o, v, c, all), UNCHANGED snap
    PROVE  /\ Found(o)'
           /\ \A d \in Used : ~IsAbsent(world[d]) /\ IsAbsent(world'[d]) => world[d].made = o
<1>e. Effect(o, v, c, all)
  BY ActedEffect
<1>2. ASSUME NEW d \in Used, ~IsAbsent(world[d]), IsAbsent(world'[d])
      PROVE  world[d].made = o /\ IsAbsent(snap[o][d])
  <2>0. ~Idles(v, c) BY <1>2, <1>e DEF Effect
  <2>1. v # "apply" BY <1>2, <2>0, <1>e, Revisions DEF Effect, IsAbsent, Sweeps
  <2>2. all BY <1>2, <2>0, <2>1, <1>e DEF Effect, IsAbsent, Sweeps
  <2>3. CASE v = "restore"
    <3>1. ~IsAbsent(snap[o][c]) /\ world'[c] = snap[o][c]
      BY <2>0, <2>2, <2>3, <1>e DEF Effect, Fits
    <3>2. d # c BY <1>2, <3>1
    <3> QED BY <1>2, <2>3, <3>2, <1>e DEF Effect, Sweeps
  <2>4. CASE v = "destroy"
    <3>1. IsAbsent(snap[o][c]) BY <2>4 DEF Fits
    <3>2. CASE d = c BY <1>2, <3>1, <3>2 DEF Found
    <3>3. CASE d # c
      <4>1. Sweeps(v, c, all) /\ d # "Builder" BY <1>2, <3>3, <1>e DEF Effect
      <4>2. IsAbsent(snap[o][d]) BY <3>1, <4>1 DEF Found, Sound, Housed, Sweeps
      <4> QED BY <1>2, <4>2 DEF Found
    <3> QED BY <3>2, <3>3
  <2> QED BY <2>1, <2>3, <2>4 DEF Verbs
<1>3. ASSUME NEW d \in Used, IsAbsent(snap[o][d]), ~IsAbsent(world'[d])
      PROVE  world'[d].made = o
  <2>1. CASE world' = world BY <1>3, <2>1 DEF Found
  <2>2. CASE world' # world /\ (d # c \/ v # "apply")
    <3>0. ~Idles(v, c) BY <2>2, <1>e DEF Effect
    <3>1. world'[d].made = world[d].made /\ ~IsAbsent(world[d])
      BY <1>3, <2>2, <3>0, <1>e, Revisions DEF Effect, IsAbsent, Fits, Verbs
    <3> QED BY <1>3, <3>1 DEF Found
  <2>3. CASE world' # world /\ d = c /\ v = "apply"
    <3>0. ~Idles(v, c) BY <2>3, <1>e DEF Effect
    <3> QED BY <1>3, <2>3, <3>0, <1>e DEF Effect, Found
  <2> QED BY <2>1, <2>2, <2>3
<1>4. Machine /\ ~IsAbsent(snap[o]["Target"]) => ~IsAbsent(world'["Target"])
  BY <1>2, Revisions DEF Found
<1> QED
  BY <1>2, <1>3, <1>4 DEF Found

\* A destruction only removes.
LEMMA DownActs ==
    ASSUME Typed, NEW o \in Op, NEW c \in Used, NEW all \in BOOLEAN,
           world' = Acted(o, "destroy", c, all)
    PROVE  \A d \in Used : IsAbsent(world[d]) => IsAbsent(world'[d])
<1>e. Effect(o, "destroy", c, all)
  BY ActedEffect DEF Verbs
<1>0. ~Idles("destroy", c)
  BY DEF Idles
<1>1. ~all => \A d \in Used : world'[d].rev = world[d].rev
  BY <1>0, <1>e DEF Effect, Sweeps
<1>2. all => \A d \in Used : world'[d] \in {world[d], Absent}
  BY <1>e DEF Effect
<1> QED
  BY <1>1, <1>2, Revisions DEF IsAbsent

------------------------------------------------------------------------------
(* A rollback deletes nothing that it did not create.                      *)

Working == {"planned", "next", "calling", "verifying", "failing", "rolling", "reverting"}

\* An operation that owns the lock it was given, and behind whose plan nothing was
\* changed; and such an up.
Secure(o) == Intact(o) /\ o \notin disturbed
Upward(o) == Secure(o) /\ kind[o] \in Up

\* Machines are not restored.
Possible(v, c) == v = "restore" => c # "Target"

\* An operation asks for what is possible.  An up tells its own from what was there
\* for as long as it may act, and its calls fit that; a destruction only destroys.
Honest(o) ==
    /\ Tidy(snap[o]) /\ \A call \in stray[o] : Possible(call[2], call[1])
    /\ Upward(o) /\ (pc[o] \in Working \/ stray[o] # {}) =>
          Found(o) /\ \A call \in stray[o] : Fits(o, call[2], call[1])
    /\ Downward(o) => \A call \in stray[o] : call[2] = "destroy"

Sparing == Guards /\ Sound(world) /\ \A o \in Op : Honest(o)

\* What an operation asks its plugins for.
LEMMA Asked ==
    ASSUME Guards, NEW o \in Op, pc[o] \in {"calling", "reverting"}
    PROVE  /\ Item(o) \in Used /\ Verb(o) \in Verbs
           /\ kind[o] \in Up \/ (Downward(o) /\ pc[o] = "calling")
           /\ kind[o] \in Up => Fits(o, Verb(o), Item(o))
           /\ Downward(o) => Verb(o) = "destroy"
           /\ kind[o] \in Up /\ pc[o] = "calling" => Verb(o) = "apply"
           /\ Possible(Verb(o), Item(o))
<1>1. Item(o) \in Used /\ Verb(o) \in Verbs
  BY CallInProgress DEF Guards
<1>2. Guarded(o) BY DEF Guards
<1>3. kind[o] \in Up \/ (Downward(o) /\ pc[o] = "calling")
  BY <1>2 DEF Guarded, Ended
<1>4. \A c \in Used : Compensation(o, c) = "destroy" => Fits(o, "destroy", c)
  BY DEF Compensation, Fits
<1>5. \A c \in Used : Compensation(o, c) = "restore" => Fits(o, "restore", c)
  BY DEF Compensation, Fits
<1>6. pc[o] = "reverting" => Fits(o, Verb(o), Item(o))
  <2> SUFFICES ASSUME pc[o] = "reverting" PROVE Fits(o, Verb(o), Item(o))
    OBVIOUS
  <2>1. Verb(o) = Compensation(o, Item(o)) BY DEF Verb
  <2>2. Verb(o) # "keep" BY <1>1 DEF Verbs
  <2>3. Compensation(o, Item(o)) \in {"keep", "destroy", "restore"} BY DEF Compensation
  <2> QED BY <1>1, <1>4, <1>5, <2>1, <2>2, <2>3
<1>7. pc[o] = "calling" => Verb(o) = IF kind[o] \in Up THEN "apply" ELSE "destroy"
  BY DEF Verb
<1>8. Fits(o, "apply", Item(o))
  BY DEF Fits
<1>9. Possible(Verb(o), Item(o))
  <2>1. CASE pc[o] = "calling" BY <1>7, <2>1 DEF Possible
  <2>2. CASE pc[o] = "reverting"
    <3>1. Verb(o) = Compensation(o, Item(o)) BY <2>2 DEF Verb
    <3> QED BY <3>1 DEF Possible, Compensation
  <2> QED BY <2>1, <2>2
<1> QED
  BY <1>1, <1>3, <1>6, <1>7, <1>8, <1>9 DEF Up, Down, Downward

\* What is done under the lock does not bring the given token back.
LEMMA StillSecure ==
    ASSUME NEW o \in Op, Calling(o) \/ Answer(o) \/ Reverting(o), Secure(o)'
    PROVE  Secure(o)
<1>1. Denied(o) => UNCHANGED <<owner, regranted>> \/ (owner' = o => regranted')
  BY DEF Denied, lockVars
<1>2. CASE Calling(o)
  BY <1>1, <1>2 DEF Calling, Call, CallRefused, Confirmed, Secure, Intact, lockVars
<1>3. CASE Answer(o)
  BY <1>3
  DEF Answer, Applied, ApplyFails, Destroyed, DestroyFails, CallOver, Secure, Intact, lockVars
<1>4. CASE Reverting(o)
  BY <1>1, <1>4
  DEF Reverting, Rollback, SkipUndo, Undo, UndoRefused, Undone, UndoFails, RolledBack, CallOver,
      Confirmed, Secure, Intact, lockVars
<1> QED
  BY <1>2, <1>3, <1>4

\* Only the operation that moves has to be looked at.
LEMMA SparingStep ==
    ASSUME Sparing, Guards', NEW o \in Op, Alone(o),
           world' = world \/ owner = o \/ disturbed' = Op,
           Sound(world)', Honest(o)'
    PROVE  Sparing'
<1> SUFFICES ASSUME NEW p \in Op, p # o PROVE Honest(p)'
  BY DEF Sparing
<1>1. /\ pc'[p] = pc[p] /\ kind'[p] = kind[p] /\ snap'[p] = snap[p] /\ stray'[p] = stray[p]
      /\ (owner' = p <=> owner = p) /\ (owner = p => regranted' = regranted)
      /\ p \in disturbed => p \in disturbed'
  BY DEF Alone
<1>2. Honest(p) BY DEF Sparing
<1>3. Upward(p)' => Upward(p) /\ world' = world
  BY <1>1 DEF Upward, Secure, Intact
<1>4. world' = world => (Found(p)' <=> Found(p))
  BY <1>1 DEF Found, Sound, Tidy, Housed
<1>5. \A call : Fits(p, call[2], call[1])' <=> Fits(p, call[2], call[1])
  BY <1>1 DEF Fits
<1> QED
  BY <1>1, <1>2, <1>3, <1>4, <1>5 DEF Honest, Downward, Tidy

\* An operation that goes on, or whose calls outlive their answers, knows no less.
LEMMA Onward ==
    ASSUME Sparing, NEW o \in Op, UNCHANGED world, snap'[o] = snap[o], kind'[o] = kind[o],
           \/ stray'[o] \subseteq stray[o]
           \/ pc[o] \in {"calling", "reverting"} /\ stray'[o] = Outlived(o),
           Secure(o)' => Secure(o), pc'[o] \in Working => pc[o] \in Working
    PROVE  Honest(o)'
<1>1. Honest(o) BY DEF Sparing
<1>2. pc[o] \in {"calling", "reverting"} =>
        /\ kind[o] \in Up => Fits(o, Verb(o), Item(o))
        /\ Downward(o) => Verb(o) = "destroy"
        /\ Possible(Verb(o), Item(o))
  BY Asked DEF Sparing
<1>3. \A call \in stray'[o] : \/ call \in stray[o]
                              \/ /\ pc[o] \in {"calling", "reverting"}
                                 /\ call = <<Item(o), Verb(o)>>
  BY DEF Outlived
<1>4. \A call : Fits(o, call[2], call[1])' <=> Fits(o, call[2], call[1])
  BY DEF Fits
<1>5. Found(o)' <=> Found(o)
  BY DEF Found, Sound, Tidy, Housed
<1>6. Upward(o)' => Upward(o)
  BY DEF Upward
<1>7. stray'[o] # {} => stray[o] # {} \/ pc[o] \in Working
  BY DEF Working
<1>8. ASSUME Upward(o)', pc'[o] \in Working \/ stray'[o] # {}
      PROVE  Found(o)' /\ \A call \in stray'[o] : Fits(o, call[2], call[1])'
  <2>1. Upward(o) /\ (pc[o] \in Working \/ stray[o] # {}) BY <1>6, <1>7, <1>8
  <2>2. Found(o) /\ \A call \in stray[o] : Fits(o, call[2], call[1])
    BY <1>1, <2>1 DEF Honest
  <2>3. kind[o] \in Up BY <2>1 DEF Upward
  <2> QED BY <1>2, <1>3, <1>4, <1>5, <2>2, <2>3
<1>9. Downward(o)' => \A call \in stray'[o] : call[2] = "destroy"
  BY <1>1, <1>2, <1>3 DEF Honest, Downward
<1>10. Tidy(snap[o])' /\ \A call \in stray'[o] : Possible(call[2], call[1])
  BY <1>1, <1>2, <1>3 DEF Honest, Tidy
<1> QED
  BY <1>8, <1>9, <1>10 DEF Honest

\* One that has nothing to do, now or later, promises nothing.
LEMMA Idle ==
    ASSUME NEW o \in Op, stray'[o] = {}, pc'[o] \notin Working, Tidy(snap'[o])
    PROVE  Honest(o)'
BY DEF Honest, Tidy

\* What a process that ends knew is blank, or as it was.
LEMMA LeftTidy ==
    ASSUME Sparing, NEW o \in Op, NEW w \in Ended, NEW calls, Leave(o, w, calls)
    PROVE  Tidy(snap'[o])
<1>1. Tidy(snap[o]) BY DEF Sparing, Honest
<1>2. snap' \in {snap, [snap EXCEPT ![o] = [c \in Used |-> Absent]]}
  BY DEF Leave
<1>3. snap \in [Op -> [Used -> Resources]] BY DEF Sparing, Guards, Typed, TypeOK
<1> QED BY <1>1, <1>2, <1>3 DEF Tidy

\* An up takes stock when it plans under the lock.
LEMMA BeforeSparing ==
    ASSUME Sparing, Guards', NEW o \in Op, Before(o) \/ Planning(o)
    PROVE  Sparing'
<1> USE DEF TypeOK, Typed, Guards
<1>0. TypeOK /\ Guarded(o) BY DEF Sparing
<1>a. Alone(o) /\ UNCHANGED world BY BeforeAlone DEF Sparing
<1>b. Sound(world)' BY <1>a DEF Sparing, Sound, Tidy, Housed
<1> SUFFICES Honest(o)'
  BY <1>a, <1>b, SparingStep
<1>1. CASE Start(o) \/ Acquire(o) \/ PlanRefused(o) \/ Bypass(o)
  <2>1. stray'[o] = {} /\ pc'[o] \notin Working
    BY <1>0, <1>1
    DEF Start, StartUp, StartDown, Acquire, PlanRefused, Bypass, Conclude, Go, planVars,
        loopVars, Guarded, Early, Working
  <2>2. snap'[o] \in {snap[o], world}
    BY <1>0, <1>1 DEF Start, StartUp, StartDown, Acquire, PlanRefused, Bypass, planVars
  <2>3. Tidy(snap'[o]) BY <2>2 DEF Sparing, Sound, Honest
  <2> QED BY <2>1, <2>3, Idle
<1>2. CASE AcquireFails(o)
  <2>1. Leave(o, "done", stray[o]) /\ stray[o] = {}
    BY <1>0, <1>2 DEF AcquireFails, Guarded, Early
  <2>2. pc'[o] = "done" /\ stray'[o] = {}
    BY <1>0, <2>1 DEF Leave, Go
  <2>3. Tidy(snap'[o]) BY <2>1, LeftTidy DEF Ended
  <2> QED BY <2>2, <2>3, Idle DEF Working
<1>3. CASE Replan(o)
  <2>1. stray'[o] = {} /\ kind'[o] = kind[o]
    BY <1>0, <1>3 DEF Replan, Guarded, Early
  <2>2. kind[o] \in Up => snap'[o] = world
    BY <1>0, <1>3 DEF Replan
  <2>3. kind[o] \in Up => Found(o)'
    BY <1>a, <2>2 DEF Found, Sparing, Sound, Tidy, Housed
  <2>4. Tidy(snap[o])'
    <3>1. snap'[o] \in {snap[o], world} BY <1>0, <1>3 DEF Replan
    <3> QED BY <3>1 DEF Sparing, Sound, Honest, Tidy
  <2> QED BY <2>1, <2>3, <2>4 DEF Honest, Upward, Up
<1>4. CASE Journal(o)
  <2>1. /\ snap'[o] = snap[o] /\ kind'[o] = kind[o] /\ stray'[o] = stray[o]
        /\ (Secure(o)' => Secure(o)) /\ pc[o] \in Working
    BY <1>0, <1>4 DEF Journal, planVars, loopVars, lockVars, Secure, Intact, Working
  <2> QED BY <1>a, <2>1, Onward
<1> QED
  BY <1>1, <1>2, <1>3, <1>4 DEF Before, Planning

\* A call is entered before it is known what it did, and stays on record.
LEMMA CallingSparing ==
    ASSUME Sparing, Guards', NEW o \in Op, Calling(o) \/ Answer(o)
    PROVE  Sparing'
<1> USE DEF TypeOK, Typed, Guards
<1>0. TypeOK /\ Guarded(o) BY DEF Sparing
<1>a. Alone(o) /\ UNCHANGED world BY CallingAlone DEF Sparing
<1>b. Sound(world)' BY <1>a DEF Sparing, Sound, Tidy, Housed
<1> SUFFICES Honest(o)'
  BY <1>a, <1>b, SparingStep
<1>1. snap'[o] = snap[o] /\ kind'[o] = kind[o] /\ pc[o] \in Working
  BY <1>0
  DEF Calling, Call, CallRefused, Answer, Applied, ApplyFails, Destroyed, DestroyFails, CallOver,
      planVars, Working
<1>2. stray'[o] = stray[o] \/ (pc[o] \in {"calling", "reverting"} /\ stray'[o] = Outlived(o))
  BY <1>0
  DEF Calling, Call, CallRefused, Answer, Applied, ApplyFails, Destroyed, DestroyFails, Unanswered
<1>3. Secure(o)' => Secure(o)
  BY StillSecure
<1> QED
  BY <1>a, <1>1, <1>2, <1>3, Onward

\* A rollback forgets nothing of what it found, and the release nothing that may
\* still act.
LEMMA EndingSparing ==
    ASSUME Sparing, Guards', NEW o \in Op, Closing(o) \/ Reverting(o) \/ Releasing(o)
    PROVE  Sparing'
<1> USE DEF TypeOK, Typed, Guards
<1>0. TypeOK /\ Guarded(o) BY DEF Sparing
<1>a. Alone(o) /\ UNCHANGED world BY EndingAlone DEF Sparing
<1>b. Sound(world)' BY <1>a DEF Sparing, Sound, Tidy, Housed
<1> SUFFICES Honest(o)'
  BY <1>a, <1>b, SparingStep
<1>1. CASE Closing(o)
  <2>1. /\ snap'[o] = snap[o] /\ kind'[o] = kind[o] /\ stray'[o] = stray[o]
        /\ Secure(o)' => Secure(o)
    BY <1>1
    DEF Closing, Verify, Ready, NotReady, Finish, FinishUnsaved, planVars, loopVars, lockVars,
        Secure, Intact
  <2>2. pc'[o] \in Working => pc[o] \in Working
    BY <1>0, <1>1
    DEF Closing, Verify, Ready, NotReady, Finish, FinishUnsaved, Conclude, Go, Working
  <2> QED BY <1>a, <2>1, <2>2, Onward
<1>2. CASE Reverting(o)
  <2>1. snap'[o] = snap[o] /\ kind'[o] = kind[o] /\ pc[o] \in Working
    BY <1>0, <1>2
    DEF Reverting, Rollback, SkipUndo, Undo, UndoRefused, Undone, UndoFails, RolledBack, CallOver,
        planVars, Working
  <2>2. stray'[o] = stray[o] \/ (pc[o] \in {"calling", "reverting"} /\ stray'[o] = Outlived(o))
    BY <1>0, <1>2
    DEF Reverting, Rollback, SkipUndo, Undo, UndoRefused, Undone, UndoFails, RolledBack, Unanswered,
        loopVars
  <2>3. Secure(o)' => Secure(o)
    BY <1>2, StillSecure
  <2> QED BY <1>a, <2>1, <2>2, <2>3, Onward
<1>3. CASE Releasing(o)
  <2>1. PICK calls \in {Unstopped(o), stray[o]} : Leave(o, "done", calls)
    BY <1>3 DEF Releasing, Release, ReleaseFails
  <2>2. pc'[o] = "done" /\ stray'[o] = calls
    BY <1>0, <2>1 DEF Leave, Go
  <2>3. CASE calls = {}
    <3>1. Tidy(snap'[o]) BY <2>1, LeftTidy DEF Ended
    <3> QED BY <2>2, <2>3, <3>1, Idle DEF Working
  <2>4. CASE calls # {}
    <3>1. /\ snap'[o] = snap[o] /\ kind'[o] = kind[o] /\ stray'[o] \subseteq stray[o]
      BY <2>1, <2>2, <2>4 DEF Leave, Unstopped
    <3>2. Secure(o)' => Secure(o)
      <4>1. UNCHANGED disturbed BY <1>3 DEF Releasing, Release, ReleaseFails
      <4> QED BY <1>3, <4>1, ReleasingLock, Revisions DEF Secure, Intact
    <3> QED BY <1>a, <2>2, <3>1, <3>2, Onward DEF Working
  <2> QED BY <2>3, <2>4
<1> QED
  BY <1>1, <1>2, <1>3

\* A call of a dead process still fits what the process had found.
LEMMA MisfortuneSparing ==
    ASSUME Sparing, Guards'
    PROVE  /\ \A o \in Op : CtrlC(o) \/ Die(o) => Sparing'
           /\ Lapse \/ UNCHANGED vars => Sparing'
<1> USE DEF TypeOK, Typed, Guards
<1>0. TypeOK BY DEF Sparing
<1>1. ASSUME NEW o \in Op, CtrlC(o) \/ Die(o) PROVE Sparing'
  <2>a. Alone(o) /\ UNCHANGED world BY <1>1, MisfortuneAlone DEF Sparing
  <2>b. Sound(world)' BY <2>a DEF Sparing, Sound, Tidy, Housed
  <2>1. Honest(o)'
    <3>1. CASE CtrlC(o)
      <4>1. /\ snap'[o] = snap[o] /\ kind'[o] = kind[o] /\ stray'[o] = stray[o] /\ pc'[o] = pc[o]
            /\ Secure(o)' => Secure(o)
        BY <3>1 DEF CtrlC, lockVars, planVars, loopVars, Secure, Intact
      <4> QED BY <2>a, <4>1, Onward
    <3>2. CASE Die(o)
      <4>1. PICK calls : /\ Leave(o, "dead", calls)
                         /\ \/ calls = stray[o]
                            \/ pc[o] \in {"calling", "reverting"} /\ calls = Outlived(o)
        <5>1. CASE pc[o] \in {"calling", "reverting"}
          <6>1. Leave(o, "dead", Outlived(o)) BY <3>2, <5>1 DEF Die
          <6> QED BY <5>1, <6>1
        <5>2. CASE pc[o] \notin {"calling", "reverting"}
          <6>1. Leave(o, "dead", stray[o]) BY <3>2, <5>2 DEF Die
          <6> QED BY <6>1
        <5> QED BY <5>1, <5>2
      <4>2. pc'[o] = "dead" /\ stray'[o] = calls
        BY <1>0, <4>1 DEF Leave, Go
      <4>3. CASE calls = {}
        <5>1. Tidy(snap'[o]) BY <4>1, LeftTidy DEF Ended
        <5> QED BY <4>2, <4>3, <5>1, Idle DEF Working
      <4>4. CASE calls # {}
        <5>1. snap'[o] = snap[o] /\ kind'[o] = kind[o]
          BY <4>1, <4>4 DEF Leave
        <5>2. Secure(o)' => Secure(o) BY <3>2 DEF Die, lockVars, Secure, Intact
        <5> QED BY <2>a, <4>1, <4>2, <5>1, <5>2, Onward DEF Working
      <4> QED BY <4>3, <4>4
    <3> QED BY <1>1, <3>1, <3>2
  <2> QED BY <2>a, <2>b, <2>1, SparingStep
<1>2. CASE Lapse
  <2>1. UNCHANGED <<world, kind, snap>> /\ owner' = Nobody
    BY <1>2 DEF Lapse, planVars
  <2>2. \A p \in Op : stray'[p] \subseteq stray[p]
    BY <1>0, <1>2 DEF Lapse, Unstopped
  <2>3. Sound(world)' BY <2>1 DEF Sparing, Sound, Tidy, Housed
  <2>4. \A p \in Op : Honest(p)'
    BY <2>1, <2>2, Revisions DEF Sparing, Honest, Upward, Downward, Secure, Intact, Tidy
  <2> QED BY <2>3, <2>4 DEF Sparing
<1>3. CASE UNCHANGED vars
  <2>1. UNCHANGED <<world, owner, regranted, kind, pc, snap, stray, disturbed>>
    BY <1>3 DEF vars, lockVars, planVars, loopVars
  <2> QED
    BY <2>1 DEF Sparing, Honest, Upward, Downward, Secure, Intact, Found, Fits, Sound, Tidy, Housed
<1> QED
  BY <1>1, <1>2, <1>3

\* A call, answered or not, spares what its operation did not make, unless that is
\* a down or something was changed behind its plan.
LEMMA ActSparing ==
    ASSUME Sparing, Guards', NEW o \in Op, Act(o) \/ StrayActs(o)
    PROVE  /\ Sparing'
           /\ Secure(o) => \A c \in Used : ~IsAbsent(world[c]) /\ IsAbsent(world'[c]) =>
                 world[c].made = o \/ Downward(o)
<1>0. Typed /\ Guarded(o) /\ Honest(o) /\ Sound(world) BY DEF Sparing, Guards
<1>a. /\ Alone(o) /\ disturbed \subseteq disturbed'
      /\ world' = world \/ owner = o \/ disturbed' = Op
      /\ UNCHANGED <<owner, regranted, pc, kind, plan, snap, todo, applied, stray, failed, disk>>
  BY <1>0, ActAlone DEF Intact
<1>b. Typed' BY DEF Guards
<1>1. PICK v \in Verbs, c \in Used, all \in BOOLEAN :
        /\ world' = Acted(o, v, c, all)
        /\ \/ <<c, v>> \in stray[o]
           \/ pc[o] \in {"calling", "reverting"} /\ c = Item(o) /\ v = Verb(o)
  <2>1. CASE Act(o)
    <3>1. Item(o) \in Used /\ Verb(o) \in Verbs /\ pc[o] \in {"calling", "reverting"}
      BY <2>1, Asked DEF Act, Sparing
    <3> QED BY <2>1, <3>1 DEF Act
  <2>2. CASE StrayActs(o)
    <3>1. PICK call \in stray[o], all \in BOOLEAN : world' = Acted(o, call[2], call[1], all)
      BY <2>2 DEF StrayActs
    <3>2. call[1] \in Used /\ call[2] \in Verbs /\ call = <<call[1], call[2]>>
      BY <1>0, <3>1 DEF Typed, TypeOK, Verbs
    <3> QED BY <3>1, <3>2
  <2> QED BY <2>1, <2>2
<1>2. Sound(world)'
  <2>1. Possible(v, c)
    BY <1>0, <1>1, Asked DEF Honest, Sparing
  <2> QED BY <1>0, <1>b, <1>1, <2>1, SoundKept DEF Honest, Possible
<1>3. kind[o] \in Up \/ Downward(o)
  BY <1>0, <1>1 DEF Guarded, Ended
<1>4. ASSUME Upward(o)
      PROVE  /\ Found(o)'
             /\ \A d \in Used : ~IsAbsent(world[d]) /\ IsAbsent(world'[d]) => world[d].made = o
  <2>1. Found(o)
    BY <1>0, <1>1, <1>4 DEF Honest, Working
  <2>2. Fits(o, v, c)
    <3>1. CASE <<c, v>> \in stray[o]
      BY <1>0, <1>4, <3>1 DEF Honest
    <3>2. CASE pc[o] \in {"calling", "reverting"} /\ c = Item(o) /\ v = Verb(o)
      BY <1>4, <3>2, Asked DEF Sparing, Upward
    <3> QED BY <1>1, <3>1, <3>2
  <2> QED BY <1>0, <1>a, <1>1, <2>1, <2>2, UpActs
<1>5. Honest(o)'
  <2>1. \A call : Fits(o, call[2], call[1])' <=> Fits(o, call[2], call[1])
    BY <1>a DEF Fits
  <2>2. Upward(o)' => Upward(o)
    BY <1>a DEF Upward, Secure, Intact
  <2> QED BY <1>0, <1>a, <1>4, <2>1, <2>2 DEF Honest, Downward, Tidy
<1>6. Sparing'
  BY <1>a, <1>2, <1>5, SparingStep
<1> QED
  BY <1>3, <1>4, <1>6 DEF Upward

\* Every step keeps it.
LEMMA SparingKept ==
    ASSUME Sparing, [Next]_vars
    PROVE  Sparing'
<1>1. Guards' BY GuardsKept DEF Sparing
<1> QED
  BY <1>1, BeforeSparing, CallingSparing, ActSparing, EndingSparing, MisfortuneSparing
  DEF Next, Core

\* An environment is tidy when the first operation starts.
LEMMA SparingStart == Init => Sparing
<1> SUFFICES ASSUME Init PROVE Sparing
  OBVIOUS
<1>1. Guards BY GuardsStart
<1>2. Sound(world)
  <2>1. \A c \in Used : world[c] \in {Absent, Old} BY DEF Init
  <2>2. ~IsAbsent(Old)
    BY OrchestratorAssumption DEF OrchestratorAssumption, IsAbsent, Old
  <2> QED BY <2>1, <2>2 DEF Init, Sound, Tidy, Housed
<1>3. \A o \in Op : Honest(o)
  BY DEF Init, Honest, Working, Tidy
<1> QED
  BY <1>1, <1>2, <1>3 DEF Sparing

\* Whatever fails and in whatever order calls are answered: under a lock behind
\* which nothing was changed only a down deletes what another operation or somebody
\* else made.  An up and its rollback delete only what that very up created.
THEOREM RollbackSparesOthers == Spec => UpSparesOthers
<1>1. Init => Sparing
  BY SparingStart
<1>2. Sparing /\ [Next]_vars => Sparing'
  BY SparingKept
<1>3. Sparing /\ [Next]_vars =>
        [\A c \in Used : ~IsAbsent(world[c]) /\ IsAbsent(world'[c]) /\ owner \in Op \ disturbed' =>
            world[c].made = owner \/ kind[owner] \in Down]_vars
  <2> SUFFICES ASSUME Sparing, [Next]_vars, owner \in Op \ disturbed',
                      NEW c \in Used, ~IsAbsent(world[c]), IsAbsent(world'[c])
               PROVE  world[c].made = owner \/ kind[owner] \in Down
    OBVIOUS
  <2>0. Typed BY DEF Sparing, Guards
  <2>1. ASSUME NEW o \in Op, Act(o) \/ StrayActs(o)
        PROVE  world[c].made = owner \/ kind[owner] \in Down
    <3>1. Guards' BY GuardsKept DEF Sparing
    <3>2. Intact(o) /\ o \notin disturbed /\ owner = o
      BY <2>0, <2>1, ActAlone DEF Intact
    <3> QED BY <2>1, <3>1, <3>2, ActSparing DEF Downward, Secure
  <2>2. ASSUME NEW o \in Op, Core(o) \/ CtrlC(o) \/ Die(o)
        PROVE  world' = world
    BY <2>0, <2>2, BeforeAlone, CallingAlone, EndingAlone, MisfortuneAlone DEF Core
  <2>3. Lapse \/ UNCHANGED vars => world' = world
    BY DEF Lapse, vars
  <2> QED BY <2>1, <2>2, <2>3 DEF Next
<1> QED
  BY <1>1, <1>2, <1>3, PTL DEF Spec, UpSparesOthers

------------------------------------------------------------------------------
(* A rollback that says it is complete is.                                 *)

Applying == {"planned", "next", "calling", "verifying"}
Kept(o) == \A c \in Used \ {"Builder"} : world[c] = snap[o][c]

\* Whatever is not as it was found is among what may need compensation.
Accounted(o) ==
    \A c \in Used \ {"Builder"} : (c \in applied[o] /\ ~Observes(c)) \/ world[c] = snap[o][c]

\* While no call went unanswered: an up that has not failed to compensate accounts
\* for what it changed, a compensation that is done has put its capability back, and
\* a journal says Failed only when everything is.
Undoes(o) ==
    Upward(o) /\ stray[o] = {} =>
        /\ pc[o] \in Applying \union {"failing"} => Accounted(o)
        /\ pc[o] \in {"rolling", "reverting"} /\ ~failed[o] => Accounted(o)
        /\ pc[o] = "calling" => Item(o) \in applied[o]
        /\ pc[o] = "reverting" /\ did[o] = "all" => world[Item(o)] = snap[o][Item(o)]
        /\ pc[o] = "releasing" /\ disk[o] = "Failed" => Kept(o)

Undoing == Sparing /\ \A o \in Op : Undoes(o)

\* Only the operation that moves has to be looked at.
LEMMA UndoingStep ==
    ASSUME Undoing, Sparing', NEW o \in Op, Alone(o),
           world' = world \/ owner = o \/ disturbed' = Op, Undoes(o)'
    PROVE  Undoing'
<1> SUFFICES ASSUME NEW p \in Op, p # o PROVE Undoes(p)'
  BY DEF Undoing
<1>1. /\ pc'[p] = pc[p] /\ kind'[p] = kind[p] /\ snap'[p] = snap[p] /\ stray'[p] = stray[p]
      /\ todo'[p] = todo[p] /\ applied'[p] = applied[p] /\ did'[p] = did[p]
      /\ failed'[p] = failed[p] /\ disk'[p] = disk[p]
      /\ (owner' = p <=> owner = p) /\ (owner = p => regranted' = regranted)
      /\ p \in disturbed => p \in disturbed'
  BY DEF Alone
<1>2. Undoes(p) BY DEF Undoing
<1>3. Upward(p)' => Upward(p) /\ world' = world
  BY <1>1 DEF Upward, Secure, Intact
<1>4. Item(p)' = Item(p)
  BY <1>1 DEF Item
<1> QED
  BY <1>1, <1>2, <1>3, <1>4 DEF Undoes, Accounted, Kept

\* What needs no compensating call is an image, an observation, or something that
\* the rollback reports.
LEMMA KeptIsReported ==
    ASSUME NEW o \in Op, NEW c \in Used
    PROVE  /\ Compensation(o, c) = "keep" => c = "Builder" \/ Unsupported(o, c) \/ Observes(c)
           /\ Compensation(o, c) # "keep" => c # "Builder" /\ ~Observes(c)
<1>1. c \in {"Target", "Builder", "Runtime", "Exposure", "Dns"}
  BY OrchestratorAssumption DEF OrchestratorAssumption, Rank
<1>2. Contract[c] \in {"inverse", "refused", "none"}
  BY OrchestratorAssumption DEF OrchestratorAssumption
<1>3. CASE c = "Builder" BY <1>3 DEF Compensation, Unsupported, Observes
<1>4. CASE c = "Target" BY <1>4 DEF Compensation, Unsupported, Observes
<1>5. CASE c = "Runtime" BY <1>2, <1>5 DEF Compensation, Unsupported, Observes
<1>6. CASE c \in {"Exposure", "Dns"} BY <1>2, <1>6 DEF Compensation, Unsupported, Observes
<1> QED
  BY <1>1, <1>3, <1>4, <1>5, <1>6

\* An operation is nowhere yet, or is over.
LEMMA Nowhere ==
    ASSUME NEW o \in Op, pc'[o] \notin Working, pc'[o] = "releasing" => disk'[o] # "Failed"
    PROVE  Undoes(o)'
BY DEF Undoes, Working, Applying

\* A plan starts with nothing to account for.
LEMMA BeforeUndoing ==
    ASSUME Undoing, Sparing', NEW o \in Op, Before(o) \/ Planning(o)
    PROVE  Undoing'
<1> USE DEF TypeOK, Typed, Guards
<1>0. TypeOK /\ Guarded(o) BY DEF Undoing, Sparing
<1>a. Alone(o) /\ UNCHANGED world BY BeforeAlone DEF Undoing, Sparing
<1> SUFFICES Undoes(o)'
  BY <1>a, UndoingStep
<1>1. CASE Start(o) \/ Acquire(o) \/ Bypass(o)
  <2>1. pc'[o] \in {"locking", "locked", "done"}
    BY <1>0, <1>1 DEF Start, StartUp, StartDown, Acquire, Bypass, Go
  <2> QED BY <2>1, Nowhere DEF Working
<1>2. CASE AcquireFails(o)
  <2>1. pc'[o] = "done" BY <1>0, <1>2 DEF AcquireFails, Leave, Go
  <2> QED BY <2>1, Nowhere DEF Working
<1>3. CASE PlanRefused(o)
  <2>1. pc'[o] = "releasing" /\ disk'[o] # "Failed"
    BY <1>0, <1>3 DEF PlanRefused, Conclude, Go, Guarded, Final, Ended
  <2> QED BY <2>1, Nowhere DEF Working
<1>4. CASE Replan(o)
  <2>1. pc'[o] = "planned" /\ kind' = kind
    BY <1>0, <1>4 DEF Replan, Go
  <2>2. kind[o] \in Up => snap'[o] = world
    BY <1>0, <1>4 DEF Replan
  <2>3. kind[o] \in Up => Accounted(o)'
    BY <1>a, <2>2 DEF Accounted
  <2> QED BY <2>1, <2>3 DEF Undoes, Upward
<1>5. CASE Journal(o)
  <2>1. /\ UNCHANGED <<kind, snap, applied, stray, failed>> /\ pc[o] = "planned"
        /\ Upward(o)' => Upward(o)
    BY <1>0, <1>5 DEF Journal, planVars, loopVars, lockVars, Upward, Secure, Intact
  <2>2. pc'[o] = "next" \/ (pc'[o] = "releasing" /\ disk'[o] # "Failed")
    BY <1>0, <1>5 DEF Journal, NotSaved, Conclude, Go, Guarded, Final, Ended
  <2>3. Accounted(o)' <=> Accounted(o) BY <1>a, <2>1 DEF Accounted
  <2> QED BY <1>a, <2>1, <2>2, <2>3 DEF Undoing, Undoes, Applying
<1> QED
  BY <1>1, <1>2, <1>3, <1>4, <1>5 DEF Before, Planning

\* A capability is accounted for before its call is sent, and stays so.
LEMMA CallingUndoing ==
    ASSUME Undoing, Sparing', NEW o \in Op, Calling(o) \/ Answer(o)
    PROVE  Undoing'
<1> USE DEF TypeOK, Typed, Guards
<1>0. TypeOK /\ Guarded(o) /\ Undoes(o) BY DEF Undoing, Sparing
<1>a. Alone(o) /\ UNCHANGED world BY CallingAlone DEF Undoing, Sparing
<1> SUFFICES Undoes(o)'
  BY <1>a, UndoingStep
<1> SUFFICES ASSUME Upward(o)', stray'[o] = {} PROVE Undoes(o)'
  BY DEF Undoes
<1>1. Upward(o) /\ UNCHANGED <<snap, failed>> /\ pc[o] \in {"next", "calling"} /\ kind[o] \notin Down
  <2>1. UNCHANGED kind
    BY DEF Calling, Call, CallRefused, Answer, Applied, ApplyFails, Destroyed, DestroyFails,
           CallOver, planVars
  <2>2. kind[o] \in Up BY <2>1 DEF Upward
  <2>3. kind[o] \notin Down BY <2>2 DEF Up, Down
  <2>4. Call(o) \/ CallRefused(o) \/ Applied(o) \/ ApplyFails(o)
    BY <2>3 DEF Calling, Answer, Destroyed, DestroyFails
  <2>6. Secure(o) BY StillSecure DEF Upward
  <2> QED
    BY <2>2, <2>3, <2>4, <2>6
    DEF Call, CallRefused, Applied, ApplyFails, CallOver, planVars, Upward
<1>2. stray[o] = {}
  BY <1>0, <1>1
  DEF Calling, Call, CallRefused, Answer, Applied, ApplyFails, Destroyed, DestroyFails,
      Unanswered, Outlived
<1>3. Accounted(o)
  BY <1>0, <1>1, <1>2 DEF Undoes, Applying
<1>4. CASE Call(o)
  <2>1. pc'[o] = "calling" /\ pc[o] = "next" /\ applied'[o] = applied[o] \union {Item(o)}
    BY <1>0, <1>1, <1>4 DEF Call, Go, Upward
  <2>2. Item(o)' = Item(o) BY <1>4, <2>1 DEF Call, planVars, Item
  <2>3. Accounted(o)' BY <1>a, <1>1, <1>3, <2>1 DEF Accounted
  <2> QED BY <2>1, <2>2, <2>3 DEF Undoes
<1>5. CASE CallRefused(o) \/ Applied(o) \/ ApplyFails(o)
  <2>1. pc'[o] \in {"next", "failing"} /\ applied'[o] = applied[o]
    BY <1>0, <1>1, <1>5 DEF CallRefused, Applied, ApplyFails, Go, Upward
  <2>2. Accounted(o)' BY <1>a, <1>1, <1>3, <2>1 DEF Accounted
  <2> QED BY <2>1, <2>2 DEF Undoes
<1> QED
  BY <1>1, <1>4, <1>5 DEF Calling, Answer, Destroyed, DestroyFails

\* A capability that is compensated is as it was found; one that is not is reported.
LEMMA RevertingUndoing ==
    ASSUME Undoing, Sparing', NEW o \in Op, Reverting(o)
    PROVE  Undoing'
<1> USE DEF TypeOK, Typed, Guards
<1>0. TypeOK /\ Guarded(o) /\ Undoes(o) BY DEF Undoing, Sparing
<1>a. Alone(o) /\ UNCHANGED world BY EndingAlone DEF Undoing, Sparing
<1> SUFFICES Undoes(o)'
  BY <1>a, UndoingStep
<1> SUFFICES ASSUME Upward(o)', stray'[o] = {} PROVE Undoes(o)'
  BY DEF Undoes
<1>1. UNCHANGED <<kind, snap, todo>>
  BY DEF Reverting, Rollback, SkipUndo, Undo, UndoRefused, Undone, UndoFails, RolledBack, CallOver,
         planVars, loopVars
<1>2. Upward(o)
  <2>1. Secure(o) BY StillSecure DEF Upward
  <2> QED BY <1>1, <2>1 DEF Upward
<1>3. stray[o] = {}
  BY <1>0
  DEF Reverting, Rollback, SkipUndo, Undo, UndoRefused, Undone, UndoFails, RolledBack, Unanswered,
      Outlived, loopVars
<1>4. pc[o] \in {"rolling", "reverting"} =>
        applied[o] \in SUBSET Used /\ (applied[o] # {} => Latest(applied[o]) \in applied[o])
  BY <1>0, Extremes
<1>5. CASE Rollback(o)
  <2>1. /\ UNCHANGED <<applied, failed>> /\ pc[o] = "failing"
        /\ pc'[o] = "rolling" \/ (pc'[o] = "releasing" /\ disk'[o] # "Failed")
    BY <1>0, <1>5 DEF Rollback, Saved, NotSaved, Conclude, Go, loopVars, Guarded, Final, Ended
  <2>2. Accounted(o) BY <1>0, <1>2, <1>3, <2>1 DEF Undoes
  <2>3. Accounted(o)' BY <1>a, <1>1, <2>1, <2>2 DEF Accounted
  <2> QED BY <2>1, <2>3 DEF Undoes, Applying
<1>6. CASE SkipUndo(o)
  <2>1. /\ pc'[o] = "rolling" /\ pc[o] = "rolling" /\ NextUndo(o) \in Used
        /\ applied'[o] = applied[o] \ {NextUndo(o)}
        /\ failed'[o] = (failed[o] \/ Unsupported(o, NextUndo(o)))
        /\ Compensation(o, NextUndo(o)) = "keep"
    BY <1>0, <1>4, <1>6 DEF SkipUndo, NextUndo
  <2>2. ASSUME ~failed'[o] PROVE Accounted(o)'
    <3>1. Accounted(o) BY <1>0, <1>2, <1>3, <2>1, <2>2 DEF Undoes
    <3>2. NextUndo(o) = "Builder" \/ Observes(NextUndo(o))
      BY <2>1, <2>2, KeptIsReported
    <3> QED BY <1>a, <1>1, <2>1, <3>1, <3>2 DEF Accounted
  <2> QED BY <2>1, <2>2 DEF Undoes, Applying
<1>7. CASE Undo(o)
  <2>1. /\ pc'[o] = "reverting" /\ pc[o] = "rolling" /\ applied'[o] = applied[o]
        /\ failed'[o] = (failed[o] \/ Unsupported(o, NextUndo(o))) /\ did'[o] = did[o]
    BY <1>0, <1>7 DEF Undo, Go
  <2>2. did[o] = "nothing" BY <1>0, <2>1 DEF Guarded
  <2>3. ASSUME ~failed'[o] PROVE Accounted(o)'
    <3>1. Accounted(o) BY <1>0, <1>2, <1>3, <2>1, <2>3 DEF Undoes
    <3> QED BY <1>a, <1>1, <2>1, <3>1 DEF Accounted
  <2> QED BY <2>1, <2>2, <2>3 DEF Undoes, Applying
<1>8. CASE UndoRefused(o) \/ UndoFails(o)
  <2>1. pc'[o] = "rolling" /\ failed'[o]
    BY <1>0, <1>8 DEF UndoRefused, UndoFails, Go
  <2> QED BY <2>1 DEF Undoes, Applying
<1>9. CASE Undone(o)
  <2>1. /\ pc'[o] = "rolling" /\ pc[o] = "reverting" /\ did[o] = "all"
        /\ applied'[o] = applied[o] \ {Item(o)} /\ failed'[o] = failed[o]
    BY <1>0, <1>9 DEF Undone, Go
  <2>2. ASSUME ~failed'[o] PROVE Accounted(o)'
    <3>1. Accounted(o) /\ world[Item(o)] = snap[o][Item(o)]
      BY <1>0, <1>2, <1>3, <2>1, <2>2 DEF Undoes
    <3> QED BY <1>a, <1>1, <2>1, <3>1 DEF Accounted
  <2> QED BY <2>1, <2>2 DEF Undoes, Applying
<1>10. CASE RolledBack(o)
  <2>1. /\ pc'[o] = "releasing" /\ pc[o] = "rolling" /\ applied[o] = {}
        /\ disk'[o] = "Failed" => ~failed[o]
    BY <1>0, <1>10 DEF RolledBack, Saved, NotSaved, Conclude, Go, Guarded, Final, Ended
  <2>2. ASSUME disk'[o] = "Failed" PROVE Kept(o)'
    <3>1. Accounted(o) BY <1>0, <1>2, <1>3, <2>1, <2>2 DEF Undoes
    <3> QED BY <1>a, <1>1, <2>1, <3>1 DEF Accounted, Kept
  <2> QED BY <2>1, <2>2 DEF Undoes, Applying
<1> QED
  BY <1>5, <1>6, <1>7, <1>8, <1>9, <1>10 DEF Reverting

\* Without a failure an up ends with what it accounted for; nothing is promised by a
\* down, nor after the lock.
LEMMA EndingUndoing ==
    ASSUME Undoing, Sparing', NEW o \in Op, Closing(o) \/ Releasing(o)
    PROVE  Undoing'
<1> USE DEF TypeOK, Typed, Guards
<1>0. TypeOK /\ Guarded(o) /\ Undoes(o) BY DEF Undoing, Sparing
<1>a. Alone(o) /\ UNCHANGED world BY EndingAlone DEF Undoing, Sparing
<1> SUFFICES Undoes(o)'
  BY <1>a, UndoingStep
<1>1. CASE Verify(o) \/ NotReady(o)
  <2>1. /\ UNCHANGED <<kind, snap, stray, applied, failed, owner, regranted>>
        /\ pc[o] \in Applying /\ pc'[o] \in {"verifying", "failing"}
    BY <1>0, <1>1 DEF Verify, NotReady, Go, lockVars, planVars, loopVars, Applying
  <2>2. Accounted(o)' <=> Accounted(o) BY <1>a, <2>1 DEF Accounted
  <2>3. Upward(o)' => Upward(o)
    BY <1>1, <2>1 DEF Verify, NotReady, Upward, Secure, Intact
  <2> QED BY <1>0, <2>1, <2>2, <2>3 DEF Undoes
<1>2. CASE Ready(o) \/ Finish(o) \/ FinishUnsaved(o)
  <2>1. pc'[o] = "releasing" /\ disk'[o] # "Failed"
    BY <1>0, <1>2
    DEF Ready, Finish, FinishUnsaved, Saved, NotSaved, Conclude, Go, Guarded, Final, Ended
  <2> QED BY <2>1, Nowhere DEF Working
<1>3. CASE Releasing(o)
  <2>1. PICK calls : Leave(o, "done", calls) BY <1>3 DEF Releasing, Release, ReleaseFails
  <2>2. pc'[o] = "done" BY <1>0, <2>1 DEF Leave, Go
  <2> QED BY <2>2, Nowhere DEF Working
<1> QED
  BY <1>1, <1>2, <1>3 DEF Closing

\* A compensation puts its capability back, and with a machine that was not there
\* goes only what was not there either.
LEMMA ActUndoing ==
    ASSUME Undoing, Sparing', NEW o \in Op, Act(o) \/ StrayActs(o)
    PROVE  Undoing'
<1> USE DEF TypeOK, Typed, Guards
<1>0. TypeOK /\ Typed /\ Guarded(o) /\ Undoes(o) BY DEF Undoing, Sparing
<1>a. /\ Alone(o) /\ disturbed \subseteq disturbed'
      /\ world' = world \/ owner = o \/ disturbed' = Op
      /\ UNCHANGED <<owner, regranted, pc, kind, plan, snap, todo, applied, stray, failed, disk>>
  BY <1>0, ActAlone DEF Intact
<1> SUFFICES Undoes(o)'
  BY <1>a, UndoingStep
<1> SUFFICES ASSUME Upward(o), stray[o] = {} PROVE Undoes(o)'
  BY <1>a DEF Undoes, Upward, Secure, Intact
<1>1. Act(o) BY DEF StrayActs
<1>2. /\ Item(o) \in Used /\ Verb(o) \in Verbs /\ Fits(o, Verb(o), Item(o)) /\ kind[o] \in Up
      /\ pc[o] = "calling" => Verb(o) = "apply"
  BY <1>1, Asked DEF Undoing, Sparing, Act, Upward
<1>3. PICK all \in BOOLEAN : /\ world' = Acted(o, Verb(o), Item(o), all)
                             /\ did'[o] = IF all THEN "all" ELSE "part"
  BY <1>0, <1>1 DEF Act
<1>4. Effect(o, Verb(o), Item(o), all)
  BY <1>0, <1>2, <1>3, ActedEffect
<1>5. Item(o)' = Item(o)
  BY <1>a DEF Item
<1>6. Found(o)
  <2>1. Honest(o) /\ pc[o] \in Working BY <1>1 DEF Undoing, Sparing, Act, Working
  <2> QED BY <2>1 DEF Honest
<1>7. CASE pc[o] = "calling"
  <2>1. Accounted(o) /\ Item(o) \in applied[o]
    BY <1>0, <1>7 DEF Undoes, Applying
  <2>2. ~Sweeps(Verb(o), Item(o), all) BY <1>2, <1>7 DEF Sweeps
  <2>3. Accounted(o)'
    <3> SUFFICES ASSUME NEW c \in Used \ {"Builder"}, ~(c \in applied[o] /\ ~Observes(c))
                 PROVE  world'[c] = snap[o][c]
      BY <1>a DEF Accounted
    <3>1. world[c] = snap[o][c] BY <2>1 DEF Accounted
    <3>2. world'[c] = world[c]
      <4>1. CASE c = Item(o)
        BY <1>2, <1>4, <1>7, <2>1, <4>1 DEF Effect, Idles
      <4>2. CASE c # Item(o) BY <1>4, <2>2, <4>2 DEF Effect
      <4> QED BY <4>1, <4>2
    <3> QED BY <3>1, <3>2
  <2> QED BY <1>a, <1>5, <1>7, <2>1, <2>3 DEF Undoes
<1>8. CASE pc[o] = "reverting"
  <2>1. /\ Item(o) \in applied[o] /\ ~Observes(Item(o)) /\ Verb(o) # "apply"
    <3>1. applied[o] # {} /\ applied[o] \in SUBSET Used /\ Compensation(o, Latest(applied[o])) # "keep"
      BY <1>0, <1>8 DEF Busy
    <3>2. Item(o) = Latest(applied[o]) /\ Verb(o) = Compensation(o, Item(o))
      BY <1>8 DEF Item, Verb
    <3>3. Item(o) \in applied[o] BY <3>1, <3>2, Extremes
    <3>4. ~Observes(Item(o)) BY <1>2, <3>1, <3>2, KeptIsReported
    <3>5. Verb(o) # "apply" BY <3>2 DEF Compensation
    <3> QED BY <3>3, <3>4, <3>5
  <2>2. ASSUME ~failed'[o] PROVE Accounted(o)'
    <3>1. Accounted(o) BY <1>0, <1>8, <1>a, <2>2 DEF Undoes
    <3> SUFFICES ASSUME NEW c \in Used \ {"Builder"}, ~(c \in applied[o] /\ ~Observes(c))
                 PROVE  world'[c] = snap[o][c]
      BY <1>a DEF Accounted
    <3>2. world[c] = snap[o][c] BY <3>1 DEF Accounted
    <3>3. c # Item(o) BY <2>1
    <3>4. CASE ~Sweeps(Verb(o), Item(o), all)
      BY <1>4, <3>2, <3>3, <3>4 DEF Effect
    <3>5. CASE Sweeps(Verb(o), Item(o), all)
      <4>1. Machine /\ IsAbsent(snap[o]["Target"]) BY <1>2, <3>5 DEF Sweeps, Fits
      <4>2. snap[o][c] = Absent BY <1>6, <4>1 DEF Found, Sound, Housed, Tidy
      <4> QED BY <1>4, <3>5, <4>2 DEF Effect
    <3> QED BY <3>4, <3>5
  <2>3. ASSUME did'[o] = "all" PROVE world'[Item(o)] = snap[o][Item(o)]
    <3>1. all BY <1>3, <2>3
    <3>2. CASE Verb(o) = "restore"
      <4>1. ~IsAbsent(snap[o][Item(o)]) BY <1>2, <3>2 DEF Fits
      <4>2. ~Homeless(Item(o))
        BY <1>2, <1>6, <4>1, Revisions DEF Found, Sound, Housed, Homeless
      <4>3. ~Idles(Verb(o), Item(o)) BY <3>2, <4>2 DEF Idles
      <4> QED BY <1>4, <3>1, <3>2, <4>3 DEF Effect
    <3>3. CASE Verb(o) = "destroy"
      <4>1. snap[o][Item(o)] = Absent
        BY <1>2, <1>6, <3>3 DEF Fits, Found, Sound, Tidy
      <4> QED BY <1>4, <3>1, <3>3, <4>1 DEF Effect
    <3> QED BY <1>2, <2>1, <3>2, <3>3 DEF Verbs
  <2> QED BY <1>a, <1>5, <1>8, <2>2, <2>3 DEF Undoes, Applying
<1> QED
  BY <1>1, <1>7, <1>8 DEF Act

\* Nothing is promised after a death, and the loss of the lock ends what was.
LEMMA MisfortuneUndoing ==
    ASSUME Undoing, Sparing'
    PROVE  /\ \A o \in Op : CtrlC(o) \/ Die(o) => Undoing'
           /\ Lapse \/ UNCHANGED vars => Undoing'
<1> USE DEF TypeOK, Typed, Guards
<1>0. TypeOK BY DEF Undoing, Sparing
<1>1. ASSUME NEW o \in Op, CtrlC(o) PROVE Undoing'
  <2>1. UNCHANGED <<world, owner, regranted, pc, kind, snap, todo, applied, did, stray, failed, disk,
                    disturbed>>
    BY <1>1 DEF CtrlC, lockVars, planVars, loopVars
  <2>2. \A p \in Op : Item(p)' = Item(p) BY <2>1 DEF Item
  <2> QED BY <2>1, <2>2 DEF Undoing, Undoes, Upward, Secure, Intact, Accounted, Kept
<1>2. ASSUME NEW o \in Op, Die(o) PROVE Undoing'
  <2>1. PICK calls : Leave(o, "dead", calls) BY <1>2 DEF Die
  <2>2. pc'[o] = "dead" BY <1>0, <2>1 DEF Leave, Go
  <2>3. Undoes(o)' BY <2>2, Nowhere DEF Working
  <2> QED BY <1>2, <2>3, MisfortuneAlone, UndoingStep DEF Undoing, Sparing
<1>3. CASE Lapse
  BY <1>3, Revisions DEF Lapse, Undoing, Undoes, Upward, Secure, Intact
<1>4. CASE UNCHANGED vars
  <2>1. UNCHANGED <<world, owner, regranted, pc, kind, snap, todo, applied, did, stray, failed, disk,
                    disturbed>>
    BY <1>4 DEF vars, lockVars, planVars, loopVars
  <2>2. \A p \in Op : Item(p)' = Item(p) BY <2>1 DEF Item
  <2> QED BY <2>1, <2>2 DEF Undoing, Undoes, Upward, Secure, Intact, Accounted, Kept
<1> QED
  BY <1>1, <1>2, <1>3, <1>4

\* A journal that says Failed, and not Incomplete, tells the truth: every capability
\* is as the up found it, whichever call failed, however far it had come and whatever
\* the plugins can compensate, unless a call of its own that went unanswered may
\* still act or one that no lock stops has changed something since its plan.
THEOREM FailedIsUndone == Spec => []RollbackIsComplete
<1>1. Init => Undoing
  <2> SUFFICES ASSUME Init PROVE Undoing
    OBVIOUS
  <2>1. \A o \in Op : Undoes(o) BY DEF Init, Undoes, Applying
  <2> QED BY <2>1, SparingStart DEF Undoing
<1>2. Undoing /\ [Next]_vars => Undoing'
  <2> SUFFICES ASSUME Undoing, [Next]_vars PROVE Undoing'
    OBVIOUS
  <2>1. Sparing' BY SparingKept DEF Undoing
  <2> QED
    BY <2>1, BeforeUndoing, CallingUndoing, RevertingUndoing, EndingUndoing, ActUndoing,
       MisfortuneUndoing
    DEF Next, Core
<1>3. Undoing => RollbackIsComplete
  <2> SUFFICES ASSUME Undoing, NEW o \in Op, pc[o] = "releasing", disk[o] = "Failed", Intact(o),
                      stray[o] = {}, o \notin disturbed
               PROVE  Kept(o)
    BY DEF RollbackIsComplete, Kept
  <2>1. Upward(o) BY DEF Undoing, Sparing, Guards, Guarded, Upward, Secure
  <2> QED BY <2>1 DEF Undoing, Undoes
<1> QED
  BY <1>1, <1>2, <1>3, PTL DEF Spec

------------------------------------------------------------------------------
(* What was committed is what exists.                                      *)

Made(o, c) == Observes(c) \/ (world[c].rev = o /\ world[c].whole)

\* An up has made what its plan no longer has to do, a machine before what is on it,
\* and commits when that is all of the plan.
Builds(o) ==
    Upward(o) =>
        /\ pc[o] \in Applying =>
              /\ stray[o] = {} /\ \A c \in plan[o] : c \in todo[o] \/ Made(o, c)
              /\ Machine => "Target" \in todo[o] \/ ~IsAbsent(world["Target"])
        /\ pc[o] = "calling" /\ did[o] = "all" => Made(o, Item(o))
        /\ pc[o] = "verifying" => todo[o] = {}
        /\ pc[o] = "releasing" /\ disk[o] = "Succeeded" =>
              stray[o] = {} /\ \A c \in plan[o] : Made(o, c)

\* What a down answers for: a forced one for the machine, with which the rest goes.
Aim(o) == IF kind[o] \in Forced THEN {"Target"} ELSE Used \ {"Builder"}

\* A down that has not failed has removed what it no longer has to do.
Razes(o) ==
    Secure(o) /\ Downward(o) =>
        /\ pc[o] \in {"planned", "next", "calling"} /\ ~failed[o] =>
              \A c \in Aim(o) : c \in todo[o] \/ IsAbsent(world[c])
        /\ pc[o] = "calling" /\ did[o] = "all" => IsAbsent(world[Item(o)])
        /\ pc[o] = "releasing" /\ disk[o] = "Succeeded" => \A c \in Aim(o) : IsAbsent(world[c])

Honoured == Sparing /\ \A o \in Op : Builds(o) /\ Razes(o)

\* Only the operation that moves has to be looked at.
LEMMA HonouredStep ==
    ASSUME Honoured, Sparing', NEW o \in Op, Alone(o),
           world' = world \/ owner = o \/ disturbed' = Op,
           Builds(o)', Razes(o)'
    PROVE  Honoured'
<1> SUFFICES ASSUME NEW p \in Op, p # o PROVE Builds(p)' /\ Razes(p)'
  BY DEF Honoured
<1>1. /\ pc'[p] = pc[p] /\ kind'[p] = kind[p] /\ plan'[p] = plan[p] /\ stray'[p] = stray[p]
      /\ todo'[p] = todo[p] /\ applied'[p] = applied[p] /\ did'[p] = did[p]
      /\ failed'[p] = failed[p] /\ disk'[p] = disk[p]
      /\ (owner' = p <=> owner = p) /\ (owner = p => regranted' = regranted)
      /\ p \in disturbed => p \in disturbed'
  BY DEF Alone
<1>2. Builds(p) /\ Razes(p) BY DEF Honoured
<1>3. Secure(p)' => Secure(p) /\ world' = world
  BY <1>1 DEF Secure, Intact
<1>4. Item(p)' = Item(p)
  BY <1>1 DEF Item
<1>5. Builds(p)'
  BY <1>1, <1>2, <1>3, <1>4 DEF Builds, Upward, Made
<1>6. Razes(p)'
  BY <1>1, <1>2, <1>3, <1>4 DEF Razes, Downward, Aim
<1> QED
  BY <1>5, <1>6

\* Nothing is promised elsewhere than on the way to a commit.
LEMMA Uncommitted ==
    ASSUME NEW o \in Op, pc'[o] \notin Applying, pc'[o] = "releasing" => disk'[o] # "Succeeded"
    PROVE  Builds(o)' /\ Razes(o)'
BY DEF Builds, Razes, Applying

\* Whatever is missing or half there is in the plan of an up, and everything is in
\* the plan of a down.
LEMMA BeforeHonoured ==
    ASSUME Honoured, Sparing', NEW o \in Op, Before(o) \/ Planning(o)
    PROVE  Honoured'
<1> USE DEF TypeOK, Typed, Guards
<1>0. TypeOK /\ Guarded(o) BY DEF Honoured, Sparing
<1>a. Alone(o) /\ UNCHANGED world BY BeforeAlone DEF Honoured, Sparing
<1> SUFFICES Builds(o)' /\ Razes(o)'
  BY <1>a, HonouredStep
<1>1. CASE Start(o) \/ Acquire(o) \/ Bypass(o)
  <2>1. pc'[o] \in {"locking", "locked", "done"}
    BY <1>0, <1>1 DEF Start, StartUp, StartDown, Acquire, Bypass, Go
  <2> QED BY <2>1, Uncommitted DEF Applying
<1>2. CASE AcquireFails(o)
  <2>1. pc'[o] = "done" BY <1>0, <1>2 DEF AcquireFails, Leave, Go
  <2> QED BY <2>1, Uncommitted DEF Applying
<1>3. CASE PlanRefused(o)
  <2>1. pc'[o] = "releasing" /\ disk'[o] # "Succeeded"
    BY <1>0, <1>3 DEF PlanRefused, Conclude, Go, Guarded, Final, Ended
  <2> QED BY <2>1, Uncommitted DEF Applying
<1>4. CASE Replan(o)
  <2>1. pc'[o] = "planned" /\ kind' = kind /\ stray'[o] = {}
    BY <1>0, <1>4 DEF Replan, Go, Guarded, Early
  <2>2. ASSUME kind[o] \in Up PROVE Builds(o)'
    <3>1. PICK p \in UpPlans : plan'[o] = p /\ todo'[o] = p
      BY <1>0, <1>4, <2>2 DEF Replan
    <3>2. Machine => "Target" \in p \/ world["Target"].whole
      BY <3>1, Revisions DEF UpPlans
    <3>3. Machine /\ world["Target"].whole => ~IsAbsent(world["Target"])
      BY Revisions DEF Honoured, Sparing, Sound, Tidy, Absent
    <3> QED BY <1>a, <2>1, <3>1, <3>2, <3>3 DEF Builds
  <2>3. ASSUME Downward(o) PROVE Razes(o)'
    <3>1. Aim(o) \subseteq todo'[o]
      BY <1>0, <1>4, <2>3 DEF Replan, DownPlans, Up, Down, Forced, Downward, Aim
    <3> QED BY <2>1, <3>1 DEF Razes, Aim
  <2>4. kind'[o] = kind[o] BY <2>1
  <2>5. kind[o] \notin Up => Builds(o)' BY <2>4 DEF Builds, Upward
  <2>6. ~Downward(o) => Razes(o)' BY <2>4 DEF Razes, Downward
  <2> QED BY <2>2, <2>3, <2>5, <2>6
<1>5. CASE Journal(o)
  <2>1. /\ UNCHANGED <<kind, plan, todo, did, stray, failed, owner, regranted, disturbed>>
        /\ pc[o] = "planned"
    BY <1>5 DEF Journal, planVars, loopVars, lockVars
  <2>2. pc'[o] = "next" \/ (pc'[o] = "releasing" /\ disk'[o] # "Succeeded")
    BY <1>0, <1>5 DEF Journal, NotSaved, Conclude, Go, Guarded, Final, Ended
  <2>3. Builds(o) /\ Razes(o) BY DEF Honoured
  <2>4. CASE pc'[o] = "next"
    <3>1. Builds(o)' BY <1>a, <2>1, <2>3, <2>4 DEF Builds, Made, Upward, Secure, Intact, Applying
    <3>2. Razes(o)' BY <1>a, <2>1, <2>3, <2>4 DEF Razes, Downward, Aim, Secure, Intact
    <3> QED BY <3>1, <3>2
  <2> QED BY <2>2, <2>4, Uncommitted DEF Applying
<1> QED
  BY <1>1, <1>2, <1>3, <1>4, <1>5 DEF Before, Planning

\* A capability leaves the plan of an up when it was made, and of a down when it is
\* gone or the down has failed.
LEMMA CallingHonoured ==
    ASSUME Honoured, Sparing', NEW o \in Op, Calling(o) \/ Answer(o)
    PROVE  Honoured'
<1> USE DEF TypeOK, Typed, Guards
<1>0. TypeOK /\ Guarded(o) /\ Builds(o) /\ Razes(o) BY DEF Honoured, Sparing
<1>a. Alone(o) /\ UNCHANGED world BY CallingAlone DEF Honoured, Sparing
<1> SUFFICES Builds(o)' /\ Razes(o)'
  BY <1>a, HonouredStep
<1>1. CASE CallRefused(o) \/ ApplyFails(o)
  <2>1. pc'[o] \in {"failing", "finishing"}
    BY <1>0, <1>1 DEF CallRefused, ApplyFails, Go
  <2> QED BY <2>1, Uncommitted DEF Applying
<1>2. CASE Call(o)
  <2>1. /\ UNCHANGED <<kind, plan, todo, did, stray, failed>> /\ pc[o] = "next" /\ pc'[o] = "calling"
        /\ did[o] = "nothing" /\ (Secure(o)' => Secure(o))
    BY <1>0, <1>2, StillSecure DEF Calling, Call, Go, planVars, Guarded
  <2>2. Builds(o)' BY <1>0, <1>a, <2>1 DEF Builds, Made, Upward, Applying
  <2>3. Razes(o)' BY <1>0, <1>a, <2>1 DEF Razes, Downward, Aim
  <2> QED BY <2>2, <2>3
<1>3. CASE Applied(o)
  <2>1. /\ UNCHANGED <<kind, plan, stray, failed, owner, regranted, disturbed>>
        /\ pc[o] = "calling" /\ did[o] = "all" /\ kind[o] \in Up /\ pc'[o] \in {"next", "failing"}
        /\ todo'[o] = todo[o] \ {Item(o)}
    BY <1>0, <1>3 DEF Applied, CallOver, Go, planVars, lockVars
  <2>2. Razes(o)' BY <2>1 DEF Razes, Downward, Up, Down
  <2>3. CASE Upward(o)'
    <3>1. Upward(o) BY <2>1, <2>3 DEF Upward, Secure, Intact
    <3>2. Made(o, Item(o)) /\ stray[o] = {}
      BY <1>0, <2>1, <3>1 DEF Builds, Applying
    <3>3. \A c \in plan[o] : c \in todo[o] \/ Made(o, c)
      BY <1>0, <2>1, <3>1 DEF Builds, Applying
    <3>4. Machine => "Target" \in todo[o] \/ ~IsAbsent(world["Target"])
      BY <1>0, <2>1, <3>1 DEF Builds, Applying
    <3>5. Item(o) = "Target" => ~IsAbsent(world["Target"])
      BY <3>2, Revisions DEF Made, Observes, IsAbsent
    <3>6. \A c : Made(o, c)' <=> Made(o, c)
      BY <1>a DEF Made
    <3>7. \A c \in plan'[o] : c \in todo'[o] \/ Made(o, c)'
      BY <2>1, <3>2, <3>3, <3>6
    <3>8. Machine => "Target" \in todo'[o] \/ ~IsAbsent(world'["Target"])
      BY <1>a, <2>1, <3>4, <3>5
    <3> QED BY <2>1, <2>2, <3>2, <3>7, <3>8 DEF Builds
  <2>4. CASE ~Upward(o)' BY <2>2, <2>4 DEF Builds
  <2> QED BY <2>3, <2>4
<1>4. CASE Destroyed(o) \/ DestroyFails(o)
  <2>1. /\ UNCHANGED <<kind, owner, regranted, disturbed>> /\ pc[o] = "calling"
        /\ kind[o] \notin Up
        /\ todo'[o] = todo[o] \ {Item(o)}
    BY <1>0, <1>4 DEF Destroyed, DestroyFails, CallOver, planVars, lockVars, Up, Down
  <2>2. \/ pc'[o] = "next" /\ disk'[o] = disk[o]
        \/ pc'[o] = "finishing"
        \/ pc'[o] = "releasing" /\ disk'[o] # "Succeeded"
    BY <1>0, <1>4 DEF Destroyed, DestroyFails, NotSaved, Conclude, Go, Guarded, Final, Ended
  <2>3. Builds(o)' BY <2>1 DEF Builds, Upward
  <2>4. ASSUME pc'[o] = "next", Downward(o), ~failed'[o]
        PROVE  ~failed[o] /\ (did[o] = "all" \/ (kind[o] \in Forced /\ Item(o) # "Target"))
    <3>1. CASE Destroyed(o)
      BY <1>0, <2>4, <3>1 DEF Destroyed, Conclude, Go
    <3>2. CASE DestroyFails(o)
      BY <1>0, <2>4, <3>2 DEF DestroyFails
    <3> QED BY <1>4, <3>1, <3>2
  <2>5. CASE pc'[o] = "next"
    <3> SUFFICES ASSUME Secure(o), Downward(o), ~failed'[o]
                 PROVE  \A c \in Aim(o) : c \in todo'[o] \/ IsAbsent(world'[c])
      BY <2>1, <2>3, <2>5 DEF Razes, Downward, Aim, Secure, Intact
    <3>1. /\ \A c \in Aim(o) : c \in todo[o] \/ IsAbsent(world[c])
          /\ did[o] = "all" => IsAbsent(world[Item(o)])
      BY <1>0, <2>1, <2>4, <2>5 DEF Razes
    <3> QED BY <1>a, <2>1, <2>4, <2>5, <3>1 DEF Aim
  <2> QED BY <2>2, <2>5, Uncommitted DEF Applying
<1> QED
  BY <1>1, <1>2, <1>3, <1>4 DEF Calling, Answer

\* Only what is complete is committed.
LEMMA EndingHonoured ==
    ASSUME Honoured, Sparing', NEW o \in Op, Closing(o) \/ Reverting(o) \/ Releasing(o)
    PROVE  Honoured'
<1> USE DEF TypeOK, Typed, Guards
<1>0. TypeOK /\ Guarded(o) /\ Builds(o) /\ Razes(o) BY DEF Honoured, Sparing
<1>a. Alone(o) /\ UNCHANGED world BY EndingAlone DEF Honoured, Sparing
<1> SUFFICES Builds(o)' /\ Razes(o)'
  BY <1>a, HonouredStep
<1>1. CASE Verify(o)
  <2>1. /\ UNCHANGED <<kind, plan, todo, did, stray, failed, owner, regranted, disturbed>>
        /\ pc[o] = "next" /\ kind[o] \in Up /\ todo[o] = {} /\ pc'[o] \in {"verifying", "failing"}
    BY <1>0, <1>1 DEF Verify, Go, planVars, loopVars, lockVars
  <2>2. Builds(o)' BY <1>0, <1>a, <2>1 DEF Builds, Made, Upward, Secure, Intact, Applying
  <2>3. Razes(o)' BY <2>1 DEF Razes, Downward, Up, Down
  <2> QED BY <2>2, <2>3
<1>2. CASE Ready(o)
  <2>1. /\ UNCHANGED <<kind, plan, todo, did, stray, failed, owner, regranted, disturbed>>
        /\ pc[o] = "verifying" /\ pc'[o] = "releasing"
    BY <1>0, <1>2 DEF Ready, Conclude, Go, planVars, loopVars, lockVars
  <2>2. kind[o] \in Up BY <1>0, <2>1 DEF Guarded
  <2>3. Builds(o)' BY <1>0, <1>a, <2>1 DEF Builds, Made, Upward, Secure, Intact, Applying
  <2>4. Razes(o)' BY <2>1, <2>2 DEF Razes, Downward, Up, Down
  <2> QED BY <2>3, <2>4
<1>3. CASE Finish(o)
  <2>1. /\ UNCHANGED <<kind, plan, todo, did, stray, failed, owner, regranted, disturbed>>
        /\ pc[o] \in {"next", "finishing"} /\ kind[o] \notin Up /\ (pc[o] = "next" => todo[o] = {})
        /\ pc'[o] = "releasing"
    BY <1>0, <1>3 DEF Finish, Conclude, Go, planVars, loopVars, lockVars, Up, Down
  <2>2. Builds(o)' BY <2>1 DEF Builds, Upward
  <2>3. disk'[o] = "Succeeded" => ~failed[o]
    BY <1>0, <1>3 DEF Finish, Saved
  <2>4. Razes(o)' BY <1>0, <1>a, <2>1, <2>3 DEF Razes, Downward, Aim, Secure, Intact, Guarded
  <2> QED BY <2>2, <2>4
<1>4. CASE NotReady(o) \/ FinishUnsaved(o) \/ Rollback(o) \/ RolledBack(o)
  <2>1. /\ pc'[o] \in {"failing", "rolling", "releasing"}
        /\ pc'[o] = "releasing" => disk'[o] # "Succeeded"
    BY <1>0, <1>4
    DEF NotReady, FinishUnsaved, Rollback, RolledBack, Saved, NotSaved, Conclude, Go, Guarded, Final,
        Ended
  <2> QED BY <2>1, Uncommitted DEF Applying
<1>5. CASE SkipUndo(o) \/ Undo(o) \/ UndoRefused(o) \/ Undone(o) \/ UndoFails(o)
  <2>1. pc'[o] \in {"rolling", "reverting"}
    BY <1>0, <1>5 DEF SkipUndo, Undo, UndoRefused, Undone, UndoFails, Go
  <2> QED BY <2>1, Uncommitted DEF Applying
<1>6. CASE Releasing(o)
  <2>1. PICK calls : Leave(o, "done", calls) BY <1>6 DEF Releasing, Release, ReleaseFails
  <2>2. pc'[o] = "done" BY <1>0, <2>1 DEF Leave, Go
  <2> QED BY <2>2, Uncommitted DEF Applying
<1> QED
  BY <1>1, <1>2, <1>3, <1>4, <1>5, <1>6 DEF Closing, Reverting

\* An up makes its capability and touches no other; a down never makes one.
LEMMA ActHonoured ==
    ASSUME Honoured, Sparing', NEW o \in Op, Act(o) \/ StrayActs(o)
    PROVE  Honoured'
<1> USE DEF TypeOK, Typed, Guards
<1>0. TypeOK /\ Typed /\ Guarded(o) /\ Builds(o) /\ Razes(o) BY DEF Honoured, Sparing
<1>a. /\ Alone(o) /\ disturbed \subseteq disturbed'
      /\ world' = world \/ owner = o \/ disturbed' = Op
      /\ UNCHANGED <<owner, regranted, pc, kind, plan, snap, todo, applied, stray, failed, disk>>
  BY <1>0, ActAlone DEF Intact
<1> SUFFICES Builds(o)' /\ Razes(o)'
  BY <1>a, HonouredStep
<1>1. Item(o)' = Item(o)
  BY <1>a DEF Item
<1>2. Builds(o)'
  <2> SUFFICES ASSUME Upward(o), pc[o] \in Applying \/ (pc[o] = "releasing" /\ disk[o] = "Succeeded")
               PROVE  Builds(o)'
    BY <1>a DEF Builds, Upward, Secure, Intact, Applying
  <2>1. stray[o] = {} BY <1>0 DEF Builds
  <2>2. Act(o) BY <2>1 DEF StrayActs
  <2>3. pc[o] = "calling" BY <2>2 DEF Act, Applying
  <2>4. Item(o) \in Used /\ Verb(o) = "apply" /\ kind[o] \in Up
    BY <2>3, Asked DEF Honoured, Sparing, Upward
  <2>5. PICK all \in BOOLEAN : /\ world' = Acted(o, "apply", Item(o), all)
                               /\ did'[o] = IF all THEN "all" ELSE "part"
    BY <1>0, <2>2, <2>4 DEF Act
  <2>6. Effect(o, "apply", Item(o), all)
    BY <1>0, <2>4, <2>5, ActedEffect DEF Verbs
  <2>7. Item(o) \in todo[o] /\ \A d \in todo[o] : Rank[Item(o)] <= Rank[d]
    <3>1. todo[o] # {} /\ todo[o] \in SUBSET Used BY <1>0, <2>3 DEF Busy
    <3>2. Item(o) = Earliest(todo[o]) BY <2>3, <2>4 DEF Item
    <3> QED BY <3>1, <3>2, Extremes
  <2>8. Machine => "Target" \in todo[o] \/ ~IsAbsent(world["Target"])
    BY <1>0, <2>3 DEF Builds, Applying
  <2>9. ~Homeless(Item(o))
    <3> SUFFICES ASSUME Homeless(Item(o)) PROVE FALSE
      OBVIOUS
    <3>1. Item(o) # "Target" /\ "Target" \in todo[o] BY <2>8 DEF Homeless
    <3>2. Rank[Item(o)] <= Rank["Target"] BY <2>7, <3>1
    <3>3. Rank["Target"] = 1 /\ Rank[Item(o)] \in 1..5 BY <2>4, RankFacts DEF Rank
    <3>4. Rank[Item(o)] = 1 BY <3>2, <3>3
    <3> QED BY <2>4, <3>1, <3>4, RankFacts
  <2>10. \A c \in Used \ {Item(o)} : world'[c] = world[c]
    BY <2>6 DEF Effect, Sweeps
  <2>11. \A c \in plan[o] : c \in todo[o] \/ Made(o, c)'
    BY <1>0, <2>3, <2>7, <2>10 DEF Builds, Applying, Made
  <2>12. Machine => "Target" \in todo[o] \/ ~IsAbsent(world'["Target"])
    BY <2>7, <2>8, <2>10, Revisions
  <2>13. ASSUME did'[o] = "all" PROVE Made(o, Item(o))'
    <3>1. all BY <2>5, <2>13
    <3>2. ~Observes(Item(o)) => world'[Item(o)].rev = o /\ world'[Item(o)].whole = TRUE
      BY <2>6, <2>9, <3>1 DEF Effect, Idles
    <3> QED BY <1>1, <3>2 DEF Made
  <2> QED BY <1>1, <1>a, <2>1, <2>3, <2>11, <2>12, <2>13 DEF Builds
<1>3. Razes(o)'
  <2> SUFFICES ASSUME Secure(o), Downward(o) PROVE Razes(o)'
    BY <1>a DEF Razes, Downward, Secure, Intact
  <2>1. PICK c \in Used, all \in BOOLEAN :
          /\ world' = Acted(o, "destroy", c, all)
          /\ \/ Act(o) /\ c = Item(o) /\ did'[o] = (IF all THEN "all" ELSE "part")
             \/ stray[o] # {} /\ did'[o] = did[o]
    <3>1. CASE Act(o)
      <4>1. Item(o) \in Used /\ Verb(o) = "destroy" BY <3>1, Asked DEF Act, Honoured, Sparing
      <4> QED BY <1>0, <3>1, <4>1 DEF Act
    <3>2. CASE StrayActs(o)
      <4>1. PICK call \in stray[o], all \in BOOLEAN : world' = Acted(o, call[2], call[1], all)
        BY <3>2 DEF StrayActs
      <4>2. call[1] \in Used BY <1>0, <4>1
      <4>3. call[2] = "destroy" BY <4>1 DEF Honoured, Sparing, Honest
      <4>4. did'[o] = did[o] BY <3>2 DEF StrayActs, loopVars
      <4> QED BY <4>1, <4>2, <4>3, <4>4
    <3> QED BY <3>1, <3>2
  <2>2. \A d \in Used : IsAbsent(world[d]) => IsAbsent(world'[d])
    BY <1>0, <2>1, DownActs DEF Honoured, Sparing
  <2>3. Effect(o, "destroy", c, all)
    BY <1>0, <2>1, ActedEffect DEF Verbs
  <2>4. pc[o] = "calling" => Item(o) \in Used
    BY Asked DEF Honoured, Sparing
  <2>5. pc[o] = "calling" /\ did'[o] = "all" => IsAbsent(world'[Item(o)])
    <3> SUFFICES ASSUME pc[o] = "calling", did'[o] = "all" PROVE IsAbsent(world'[Item(o)])
      OBVIOUS
    <3>1. CASE stray[o] # {} /\ did'[o] = did[o]
      BY <1>0, <2>2, <2>4, <3>1 DEF Razes
    <3>2. CASE c = Item(o) /\ did'[o] = (IF all THEN "all" ELSE "part")
      <4>1. all BY <3>2
      <4> QED BY <2>3, <3>2, <4>1, Revisions DEF Effect
    <3> QED BY <2>1, <3>1, <3>2
  <2>6. Aim(o) \subseteq Used /\ Aim(o)' = Aim(o)
    BY <1>0, <1>a, Revisions DEF Aim, Guarded
  <2> QED BY <1>0, <1>1, <1>a, <2>2, <2>5, <2>6 DEF Razes
<1> QED
  BY <1>2, <1>3

\* Nothing else can make or unmake a success.
LEMMA MisfortuneHonoured ==
    ASSUME Honoured, Sparing'
    PROVE  /\ \A o \in Op : CtrlC(o) \/ Die(o) => Honoured'
           /\ Lapse \/ UNCHANGED vars => Honoured'
<1> USE DEF TypeOK, Typed, Guards
<1>0. TypeOK BY DEF Honoured, Sparing
<1>1. ASSUME NEW o \in Op, CtrlC(o) PROVE Honoured'
  <2>1. UNCHANGED <<world, owner, regranted, pc, kind, plan, todo, applied, did, stray, failed, disk,
                    disturbed>>
    BY <1>1 DEF CtrlC, lockVars, planVars, loopVars
  <2>2. \A p \in Op : Item(p)' = Item(p) BY <2>1 DEF Item
  <2> QED BY <2>1, <2>2 DEF Honoured, Builds, Razes, Downward, Aim, Upward, Secure, Intact, Made
<1>2. ASSUME NEW o \in Op, Die(o) PROVE Honoured'
  <2>1. PICK calls : Leave(o, "dead", calls) BY <1>2 DEF Die
  <2>2. pc'[o] = "dead" BY <1>0, <2>1 DEF Leave, Go
  <2>3. Builds(o)' /\ Razes(o)' BY <2>2, Uncommitted DEF Applying
  <2> QED BY <1>2, <2>3, MisfortuneAlone, HonouredStep DEF Honoured, Sparing
<1>3. CASE Lapse
  BY <1>3, Revisions DEF Lapse, Honoured, Builds, Razes, Upward, Secure, Intact
<1>4. CASE UNCHANGED vars
  <2>1. UNCHANGED <<world, owner, regranted, pc, kind, plan, todo, applied, did, stray, failed, disk,
                    disturbed>>
    BY <1>4 DEF vars, lockVars, planVars, loopVars
  <2>2. \A p \in Op : Item(p)' = Item(p) BY <2>1 DEF Item
  <2> QED BY <2>1, <2>2 DEF Honoured, Builds, Razes, Downward, Aim, Upward, Secure, Intact, Made
<1> QED
  BY <1>1, <1>2, <1>3, <1>4

\* What was committed is what exists: after an up that succeeded everything of its
\* plan, whole and of its own revision; after a down nothing but built images.  No
\* call of its own that went unanswered on the way is overlooked; a call that no lock
\* stops, and that has changed something since the plan, is.
THEOREM CommittedIsWhole == Spec => []SuccessIsWhole
<1>1. Init => Honoured
  <2> SUFFICES ASSUME Init PROVE Honoured
    OBVIOUS
  <2>1. \A o \in Op : Builds(o) /\ Razes(o) BY DEF Init, Builds, Razes, Applying
  <2> QED BY <2>1, SparingStart DEF Honoured
<1>2. Honoured /\ [Next]_vars => Honoured'
  <2> SUFFICES ASSUME Honoured, [Next]_vars PROVE Honoured'
    OBVIOUS
  <2>1. Sparing' BY SparingKept DEF Honoured
  <2> QED
    BY <2>1, BeforeHonoured, CallingHonoured, EndingHonoured, ActHonoured, MisfortuneHonoured
    DEF Next, Core
<1>3. Honoured => SuccessIsWhole
  <2> SUFFICES ASSUME Honoured, NEW o \in Op, pc[o] = "releasing", disk[o] = "Succeeded", Intact(o),
                      o \notin disturbed
               PROVE  IF kind[o] \in Up
                      THEN \A c \in plan[o] : Made(o, c)
                      ELSE \A c \in Used \ {"Builder"} : IsAbsent(world[c])
    BY DEF SuccessIsWhole, Made
  <2>1. Builds(o) /\ Razes(o) /\ Guarded(o) /\ Sound(world) /\ Secure(o)
    BY DEF Honoured, Sparing, Guards, Secure
  <2>2. CASE kind[o] \in Up BY <2>1, <2>2 DEF Builds, Upward
  <2>3. CASE kind[o] \notin Up
    <3>1. Downward(o) BY <2>1, <2>3 DEF Guarded, Ended
    <3>2. \A c \in Aim(o) : IsAbsent(world[c]) BY <2>1, <3>1 DEF Razes
    <3>3. kind[o] \in Forced => Machine /\ IsAbsent(world["Target"])
      BY <2>1, <3>2 DEF Guarded, Aim
    <3> QED BY <2>1, <2>3, <3>2, <3>3 DEF Aim, Sound, Housed
  <2> QED BY <2>2, <2>3
<1> QED
  BY <1>1, <1>2, <1>3, PTL DEF Spec
=============================================================================
