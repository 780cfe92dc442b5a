------------------------- MODULE OrchestratorProofs -------------------------
(***************************************************************************)
(* What holds of the core's operations for any number of them, over any    *)
(* capabilities and with every fault: types, the truth of exit codes and   *)
(* journals, and that no stale plan is carried out.                        *)
(***************************************************************************)
EXTENDS Orchestrator, TLAPS

------------------------------------------------------------------------------
(* The order of the capabilities.                                          *)

\* Capabilities are ordered strictly, the target first.
LEMMA RankFacts ==
    /\ Used \subseteq DOMAIN Rank
    /\ \A c \in Used : Rank[c] \in 1..5
    /\ \A c, d \in Used : Rank[c] = Rank[d] => c = d
    /\ \A c \in Used : Rank[c] = 1 => c = "Target"
BY OrchestratorAssumption DEF OrchestratorAssumption, Rank

\* The capability to apply next is one of those that are left, and the first of
\* them; likewise for the last one.
LEMMA Extremes ==
    ASSUME NEW S \in SUBSET Used, S # {}
    PROVE  /\ Earliest(S) \in S /\ \A d \in S : Rank[Earliest(S)] <= Rank[d]
           /\ Latest(S) \in S /\ \A d \in S : Rank[Latest(S)] >= Rank[d]
<1> DEFINE N == {n \in 1..5 : \E c \in S : Rank[c] = n}
<1>1. \E n \in N : \A m \in N : n <= m
  <2>1. N # {} BY RankFacts
  <2>2. CASE 1 \in N BY <2>2
  <2>3. CASE 1 \notin N /\ 2 \in N BY <2>3
  <2>4. CASE 1 \notin N /\ 2 \notin N /\ 3 \in N BY <2>4
  <2>5. CASE 1 \notin N /\ 2 \notin N /\ 3 \notin N /\ 4 \in N BY <2>5
  <2>6. CASE 1 \notin N /\ 2 \notin N /\ 3 \notin N /\ 4 \notin N /\ 5 \in N BY <2>6
  <2> QED BY <2>1, <2>2, <2>3, <2>4, <2>5, <2>6
<1>2. \E n \in N : \A m \in N : n >= m
  <2>1. N # {} BY RankFacts
  <2>2. CASE 5 \in N BY <2>2
  <2>3. CASE 5 \notin N /\ 4 \in N BY <2>3
  <2>4. CASE 5 \notin N /\ 4 \notin N /\ 3 \in N BY <2>4
  <2>5. CASE 5 \notin N /\ 4 \notin N /\ 3 \notin N /\ 2 \in N BY <2>5
  <2>6. CASE 5 \notin N /\ 4 \notin N /\ 3 \notin N /\ 2 \notin N /\ 1 \in N BY <2>6
  <2> QED BY <2>1, <2>2, <2>3, <2>4, <2>5, <2>6
<1>3. \E c \in S : \A d \in S : Rank[c] <= Rank[d]
  BY <1>1, RankFacts
<1>4. \E c \in S : \A d \in S : Rank[c] >= Rank[d]
  BY <1>2, RankFacts
<1> QED
  BY <1>3, <1>4 DEF Earliest, Latest

------------------------------------------------------------------------------
(* Types.                                                                  *)

\* An operation that has not started has no command; a call in progress is for a
\* capability that is left, and a compensation is one that calls a plugin at all.
Busy(o) ==
    /\ pc[o] = "idle" => kind[o] = "none"
    /\ pc[o] = "calling" => todo[o] # {}
    /\ pc[o] = "reverting" => applied[o] # {} /\ Compensation(o, Latest(applied[o])) # "keep"

Typed == TypeOK /\ \A o \in Op : Busy(o)

Verbs == {"apply", "destroy", "restore"}

\* What a call does to well-formed resources is well formed.
LEMMA ActedType ==
    ASSUME TypeOK, NEW o \in Op, NEW v \in Verbs, NEW c \in Used, NEW all \in BOOLEAN
    PROVE  Acted(o, v, c, all) \in [Used -> Resources]
<1>1. world \in [Used -> Resources] /\ snap[o][c] \in Resources
  BY DEF TypeOK
<1>2. Absent \in Resources
  BY DEF Absent, Resources
<1>3. Removed(c) \in [Used -> Resources]
  BY <1>1, <1>2 DEF Removed
<1>4. [world EXCEPT ![c] = [made |-> IF IsAbsent(world[c]) THEN o ELSE world[c].made,
                             rev |-> o, whole |-> all]] \in [Used -> Resources]
  <2>1. [made |-> IF IsAbsent(world[c]) THEN o ELSE world[c].made, rev |-> o, whole |-> all] \in Resources
    BY <1>1 DEF Resources
  <2> QED BY <1>1, <2>1
<1>5. [world EXCEPT ![c].whole = FALSE] \in [Used -> Resources]
  <2>1. [world[c] EXCEPT !.whole = FALSE] \in Resources
    BY <1>1 DEF Resources
  <2> QED BY <1>1, <2>1
<1>6. [world EXCEPT ![c] = snap[o][c]] \in [Used -> Resources]
  BY <1>1
<1> QED
  BY <1>1, <1>3, <1>4, <1>5, <1>6 DEF Acted, Idles, Verbs

\* A call in progress has a capability and a verb.
LEMMA CallInProgress ==
    ASSUME Typed, NEW o \in Op, pc[o] \in {"calling", "reverting"}
    PROVE  Item(o) \in Used /\ Verb(o) \in Verbs
<1>1. todo[o] \in SUBSET Used /\ applied[o] \in SUBSET Used
  BY DEF Typed, TypeOK
<1>2. CASE pc[o] = "calling"
  <2>1. todo[o] # {} BY <1>2 DEF Typed, Busy
  <2>2. Earliest(todo[o]) \in Used /\ Latest(todo[o]) \in Used
    BY <1>1, <2>1, Extremes
  <2> QED BY <1>2, <2>2 DEF Item, Verb, Verbs
<1>3. CASE pc[o] = "reverting"
  <2>1. applied[o] # {} /\ Compensation(o, Latest(applied[o])) # "keep"
    BY <1>3 DEF Typed, Busy
  <2>2. Latest(applied[o]) \in Used
    BY <1>1, <2>1, Extremes
  <2>3. Compensation(o, Latest(applied[o])) \in {"keep", "destroy", "restore"}
    BY DEF Compensation
  <2> QED BY <1>3, <2>1, <2>2, <2>3 DEF Item, Verb, Verbs
<1> QED
  BY <1>2, <1>3

\* A call that is not waited for any more is recorded with both.
LEMMA OutlivedType ==
    ASSUME Typed, NEW o \in Op, pc[o] \in {"calling", "reverting"}
    PROVE  Outlived(o) \in SUBSET (Used \X Verbs)
BY CallInProgress DEF Typed, TypeOK, Outlived, Verbs

\* The end of a process forgets what it knew, and that is well formed.
LEMMA LeaveType ==
    ASSUME Typed, NEW o \in Op, NEW w \in {"done", "dead"},
           NEW calls \in SUBSET (Used \X Verbs), Leave(o, w, calls)
    PROVE  /\ pc' \in [Op -> Places] /\ kind' \in [Op -> {"none"} \union Up \union Down]
           /\ plan' \in [Op -> SUBSET Used] /\ todo' \in [Op -> SUBSET Used]
           /\ applied' \in [Op -> SUBSET Used] /\ snap' \in [Op -> [Used -> Resources]]
           /\ did' \in [Op -> {"nothing", "part", "all"}]
           /\ stray' \in [Op -> SUBSET (Used \X Verbs)] /\ failed' \in [Op -> BOOLEAN]
           /\ interrupt' \in [Op -> {"none", "taken", "dropped"}]
           /\ \A p \in Op : Busy(p)'
<1>1. [c \in Used |-> Absent] \in [Used -> Resources]
  BY DEF Absent, Resources
<1>2. snap' \in [Op -> [Used -> Resources]]
  BY <1>1 DEF Typed, TypeOK, Leave
<1>3. ASSUME NEW p \in Op
      PROVE  Busy(p)'
  <2>1. CASE p = o
    BY <2>1 DEF Typed, TypeOK, Leave, Go, Busy
  <2>2. CASE p # o
    <3>1. /\ pc'[p] = pc[p] /\ kind'[p] = kind[p] /\ todo'[p] = todo[p]
          /\ applied'[p] = applied[p] /\ snap'[p] = snap[p]
      BY <2>2 DEF Typed, TypeOK, Leave, Go
    <3> QED BY <3>1 DEF Typed, Busy, Compensation
  <2> QED BY <2>1, <2>2
<1> QED
  BY <1>2, <1>3, ZenonT(60) DEF Typed, TypeOK, Leave, Go, Places, Ended, Up, Down, Verbs

\* What the other operations know of themselves does not change.
Same(o) ==
    \A p \in Op \ {o} : /\ pc'[p] = pc[p] /\ kind'[p] = kind[p] /\ todo'[p] = todo[p]
                        /\ applied'[p] = applied[p] /\ snap'[p] = snap[p]

\* Then only the operation that moves has to be looked at.
LEMMA BusyStep ==
    ASSUME Typed, NEW o \in Op, Same(o), Busy(o)'
    PROVE  \A p \in Op : Busy(p)'
<1> SUFFICES ASSUME NEW p \in Op, p # o PROVE Busy(p)'
  OBVIOUS
<1>1. /\ pc'[p] = pc[p] /\ kind'[p] = kind[p] /\ todo'[p] = todo[p]
      /\ applied'[p] = applied[p] /\ snap'[p] = snap[p]
  BY DEF Same
<1> QED
  BY <1>1 DEF Typed, Busy, Compensation

\* Starting, locking and planning keep the types.
LEMMA BeforeType ==
    ASSUME Typed, NEW o \in Op, Before(o) \/ Planning(o)
    PROVE  Typed'
<1> USE DEF TypeOK, Places, Statuses, Ended, Up, Down, Forced
<1>0. TypeOK BY DEF Typed
<1>1. ASSUME NEW k \in Kinds, StartUp(o, k) PROVE Typed'
  <2>1. k \in Up \union Down BY <1>1 DEF StartUp
  <2>2. Same(o) /\ Busy(o)' BY <1>0, <1>1 DEF StartUp, Go, loopVars, Same, Busy
  <2> QED BY <1>0, <1>1, <2>1, <2>2, BusyStep DEF StartUp, Go, loopVars, lockVars, Typed
<1>2. ASSUME NEW k \in Kinds, StartDown(o, k) PROVE Typed'
  <2>1. \A p \in DownPlans(k) : p \in SUBSET Used BY DEF DownPlans
  <2>2. Same(o) /\ Busy(o)' BY <1>0, <1>2 DEF StartDown, Go, planVars, loopVars, Same, Busy
  <2>3. /\ kind' \in [Op -> {"none"} \union Up \union Down] /\ plan' \in [Op -> SUBSET Used]
        /\ snap' \in [Op -> [Used -> Resources]] /\ result' \in [Op -> {"none", "ok", "error"}]
        /\ pc' \in [Op -> Places]
    <3>1. PICK p \in DownPlans(k) :
            \/ /\ kind' = [kind EXCEPT ![o] = k] /\ plan' = [plan EXCEPT ![o] = p]
               /\ snap' = [snap EXCEPT ![o] = world] /\ Go(o, "locking") /\ UNCHANGED result
            \/ Go(o, "done") /\ result' = [result EXCEPT ![o] = "ok"] /\ UNCHANGED planVars
      BY <1>2 DEF StartDown
    <3>2. k \in Down /\ p \in SUBSET Used BY <1>2, <2>1, <3>1 DEF StartDown
    <3>3. snap' \in [Op -> [Used -> Resources]] BY <1>0, <3>1 DEF planVars
    <3>4. plan' \in [Op -> SUBSET Used] BY <1>0, <3>1, <3>2 DEF planVars
    <3>5. kind' \in [Op -> {"none"} \union Up \union Down] BY <1>0, <3>1, <3>2 DEF planVars
    <3> QED BY <1>0, <3>1, <3>3, <3>4, <3>5, ZenonT(60) DEF Go
  <2> QED
    BY <1>0, <1>2, <2>2, <2>3, BusyStep DEF StartDown, loopVars, lockVars, Typed
<1>3. CASE Acquire(o)
  <2>2. Same(o) /\ Busy(o)' BY <1>0, <1>3 DEF Acquire, Go, planVars, loopVars, Same, Busy
  <2> QED BY <1>0, <1>3, <2>2, BusyStep DEF Acquire, Go, planVars, loopVars, Typed
<1>4. CASE AcquireFails(o)
  <2>1. stray[o] \in SUBSET (Used \X Verbs) BY <1>0 DEF Verbs
  <2> QED BY <1>0, <1>4, <2>1, LeaveType DEF AcquireFails, lockVars, Typed, Verbs
<1>5. CASE Bypass(o)
  <2>2. Same(o) /\ Busy(o)' BY <1>0, <1>5 DEF Bypass, Go, loopVars, Same, Busy
  <2> QED BY <1>0, <1>5, <2>2, BusyStep DEF Bypass, Go, loopVars, lockVars, Typed
<1>6. CASE Replan(o)
  <2>1. \A p \in UpPlans : p \in SUBSET Used BY DEF UpPlans
  <2>2. Same(o) /\ Busy(o)' BY <1>0, <1>6 DEF Replan, Go, Same, Busy
  <2>3. /\ plan' \in [Op -> SUBSET Used] /\ todo' \in [Op -> SUBSET Used]
        /\ snap' \in [Op -> [Used -> Resources]]
    <3>1. PICK p \in SUBSET Used :
            /\ plan' = plan \/ plan' = [plan EXCEPT ![o] = p]
            /\ todo' = [todo EXCEPT ![o] = p]
            /\ snap' = snap \/ snap' = [snap EXCEPT ![o] = world]
      <4>1. plan[o] \in SUBSET Used BY <1>0
      <4>2. CASE kind[o] \in Up BY <1>6, <2>1, <4>2 DEF Replan
      <4>3. CASE kind[o] \notin Up BY <1>6, <4>1, <4>3 DEF Replan
      <4> QED BY <4>2, <4>3
    <3>2. world \in [Used -> Resources] BY <1>0
    <3> HIDE DEF Resources
    <3>3. snap' \in [Op -> [Used -> Resources]] BY <1>0, <3>1, <3>2
    <3>4. plan' \in [Op -> SUBSET Used] /\ todo' \in [Op -> SUBSET Used] BY <1>0, <3>1
    <3> QED BY <3>3, <3>4
  <2> QED BY <1>0, <1>6, <2>2, <2>3, BusyStep DEF Replan, Go, lockVars, Typed
<1>7. CASE PlanRefused(o)
  <2>2. Same(o) /\ Busy(o)'
    BY <1>0, <1>7 DEF PlanRefused, Conclude, Go, planVars, loopVars, Same, Busy
  <2> QED
    BY <1>0, <1>7, <2>2, BusyStep DEF PlanRefused, Conclude, Go, lockVars, planVars, loopVars, Typed
<1>8. CASE Journal(o)
  <2>2. Same(o) /\ Busy(o)'
    BY <1>0, <1>8 DEF Journal, Conclude, Go, planVars, loopVars, Same, Busy
  <2> QED
    BY <1>0, <1>8, <2>2, BusyStep
    DEF Journal, Saved, NotSaved, Conclude, Go, lockVars, planVars, loopVars, Typed
<1> QED
  BY <1>1, <1>2, <1>3, <1>4, <1>5, <1>6, <1>7, <1>8 DEF Before, Start, Planning

\* So do the calls and their answers.
LEMMA CallingType ==
    ASSUME Typed, NEW o \in Op, Calling(o) \/ Answer(o) \/ Act(o) \/ StrayActs(o)
    PROVE  Typed'
<1> USE DEF TypeOK, Places, Statuses, Ended, Up, Down, Forced
<1>0. TypeOK BY DEF Typed
<1>a. pc[o] = "calling" => Item(o) \in Used BY CallInProgress
<1>1. CASE Call(o)
  <2>1. Item(o) \in Used
    BY <1>0, <1>1, Extremes DEF Call, Item
  <2>2. Same(o) /\ Busy(o)' BY <1>0, <1>1 DEF Call, Go, planVars, Same, Busy
  <2> QED
    BY <1>0, <1>1, <2>1, <2>2, BusyStep DEF Call, Confirmed, Go, lockVars, planVars, Typed
<1>2. CASE CallRefused(o)
  <2>2. Same(o) /\ Busy(o)' BY <1>0, <1>2 DEF CallRefused, Go, planVars, Same, Busy
  <2>3. owner' \in Op \union {Nobody} /\ regranted' \in BOOLEAN
    BY <1>0, <1>2 DEF CallRefused, Denied, lockVars
  <2> QED BY <1>0, <1>2, <2>2, <2>3, BusyStep DEF CallRefused, Go, planVars, Typed
<1>3. CASE Applied(o)
  <2>2. Same(o) /\ Busy(o)' BY <1>0, <1>3 DEF Applied, CallOver, Go, planVars, Same, Busy
  <2> QED
    BY <1>0, <1>3, <2>2, BusyStep DEF Applied, CallOver, NotSaved, Go, lockVars, planVars, Typed
<1>4. CASE ApplyFails(o)
  <2>1. Outlived(o) \in SUBSET (Used \X Verbs) BY <1>4, OutlivedType DEF ApplyFails
  <2>2. Same(o) /\ Busy(o)' BY <1>0, <1>4 DEF ApplyFails, CallOver, Go, planVars, Same, Busy
  <2>3. stray' \in [Op -> SUBSET (Used \X Verbs)]
    BY <1>0, <1>4, <2>1 DEF ApplyFails, Unanswered, Verbs
  <2> QED
    BY <1>0, <1>4, <2>2, <2>3, BusyStep DEF ApplyFails, CallOver, Go, lockVars, planVars, Typed, Verbs
<1>5. CASE Destroyed(o)
  <2>2. Same(o) /\ Busy(o)'
    BY <1>0, <1>5 DEF Destroyed, CallOver, Conclude, Go, planVars, Same, Busy
  <2> QED
    BY <1>0, <1>5, <2>2, BusyStep
    DEF Destroyed, CallOver, NotSaved, Conclude, Go, lockVars, planVars, Typed
<1>6. CASE DestroyFails(o)
  <2>1. Outlived(o) \in SUBSET (Used \X Verbs) BY <1>6, OutlivedType DEF DestroyFails
  <2>2. Same(o) /\ Busy(o)' BY <1>0, <1>6 DEF DestroyFails, CallOver, Go, planVars, Same, Busy
  <2>3. stray' \in [Op -> SUBSET (Used \X Verbs)]
    BY <1>0, <1>6, <2>1 DEF DestroyFails, Unanswered, Verbs
  <2> QED
    BY <1>0, <1>6, <2>2, <2>3, BusyStep DEF DestroyFails, CallOver, Go, lockVars, planVars, Typed, Verbs
<1>7. CASE Act(o)
  <2>1. Item(o) \in Used /\ Verb(o) \in Verbs BY <1>7, CallInProgress DEF Act
  <2>2. world' \in [Used -> Resources] BY <1>0, <1>7, <2>1, ActedType DEF Act
  <2>3. Same(o) /\ Busy(o)'
    BY <1>0, <1>7 DEF Act, planVars, Same, Busy, Compensation, Typed
  <2> QED BY <1>0, <1>7, <2>2, <2>3, BusyStep DEF Act, Behind, lockVars, planVars, Typed
<1>8. CASE StrayActs(o)
  <2>1. \A call \in stray[o] : call[1] \in Used /\ call[2] \in Verbs BY <1>0 DEF Verbs
  <2>2. world' \in [Used -> Resources] BY <1>0, <1>8, <2>1, ActedType DEF StrayActs
  <2>3. Same(o) /\ Busy(o)'
    BY <1>0, <1>8 DEF StrayActs, planVars, loopVars, Same, Busy, Compensation, Typed
  <2> QED BY <1>0, <1>8, <2>2, <2>3, BusyStep DEF StrayActs, Behind, lockVars, planVars, loopVars, Typed
<1> QED
  BY <1>1, <1>2, <1>3, <1>4, <1>5, <1>6, <1>7, <1>8 DEF Calling, Answer

\* So do the end of an operation, its rollback and its release.
LEMMA EndingType ==
    ASSUME Typed, NEW o \in Op, Closing(o) \/ Reverting(o) \/ Releasing(o)
    PROVE  Typed'
<1> USE DEF TypeOK, Places, Statuses, Ended, Up, Down, Forced
<1>0. TypeOK BY DEF Typed
<1>a. stray[o] \in SUBSET (Used \X Verbs) /\ {} \in SUBSET (Used \X Verbs)
  BY <1>0 DEF Verbs
<1>1. CASE Closing(o)
  <2>1. CASE Verify(o)
    <3>1. Same(o) /\ Busy(o)'
      BY <1>0, <2>1 DEF Verify, Go, planVars, loopVars, Same, Busy
    <3> QED
      BY <1>0, <2>1, <3>1, BusyStep DEF Verify, Saved, NotSaved, Go, lockVars, planVars, loopVars, Typed
  <2>2. CASE Ready(o)
    <3>1. Same(o) /\ Busy(o)'
      BY <1>0, <2>2 DEF Ready, Conclude, Go, planVars, loopVars, Same, Busy
    <3> QED
      BY <1>0, <2>2, <3>1, BusyStep
      DEF Ready, Saved, NotSaved, Conclude, Go, lockVars, planVars, loopVars, Typed
  <2>3. CASE NotReady(o)
    <3>1. Same(o) /\ Busy(o)'
      BY <1>0, <2>3 DEF NotReady, Go, planVars, loopVars, Same, Busy
    <3> QED
      BY <1>0, <2>3, <3>1, BusyStep DEF NotReady, Go, lockVars, planVars, loopVars, Typed
  <2>4. CASE Finish(o) \/ FinishUnsaved(o)
    <3>1. Same(o) /\ Busy(o)'
      BY <1>0, <2>4 DEF Finish, FinishUnsaved, Conclude, Go, planVars, loopVars, Same, Busy
    <3> QED
      BY <1>0, <2>4, <3>1, BusyStep, ZenonT(60)
      DEF Finish, FinishUnsaved, Saved, NotSaved, Conclude, Go, lockVars, planVars, loopVars, Typed
  <2> QED BY <1>1, <2>1, <2>2, <2>3, <2>4 DEF Closing
<1>2. CASE Reverting(o)
  <2>1. CASE Rollback(o) \/ RolledBack(o)
    <3>1. Same(o) /\ Busy(o)'
      BY <1>0, <2>1 DEF Rollback, RolledBack, Conclude, Go, planVars, loopVars, Same, Busy
    <3> QED
      BY <1>0, <2>1, <3>1, BusyStep, ZenonT(60)
      DEF Rollback, RolledBack, Saved, NotSaved, Conclude, Go, lockVars, planVars, loopVars, Typed
  <2>2. CASE SkipUndo(o)
    <3>1. Same(o) /\ Busy(o)'
      BY <1>0, <2>2 DEF SkipUndo, planVars, Same, Busy
    <3>2. Unsupported(o, NextUndo(o)) \in BOOLEAN
      BY DEF Unsupported
    <3> QED
      BY <1>0, <2>2, <3>1, <3>2, BusyStep DEF SkipUndo, lockVars, planVars, Typed
  <2>3. CASE Undo(o)
    <3>1. Same(o) /\ Busy(o)'
      BY <1>0, <2>3 DEF Undo, Go, NextUndo, planVars, Same, Busy, Compensation
    <3>2. Unsupported(o, NextUndo(o)) \in BOOLEAN
      BY DEF Unsupported
    <3> QED
      BY <1>0, <2>3, <3>1, <3>2, BusyStep DEF Undo, Confirmed, Go, lockVars, planVars, Typed
  <2>4. CASE UndoRefused(o)
    <3>1. Same(o) /\ Busy(o)'
      BY <1>0, <2>4 DEF UndoRefused, planVars, Same, Busy
    <3>2. owner' \in Op \union {Nobody} /\ regranted' \in BOOLEAN
      BY <1>0, <2>4 DEF UndoRefused, Denied, lockVars
    <3> QED
      BY <1>0, <2>4, <3>1, <3>2, BusyStep DEF UndoRefused, planVars, Typed
  <2>5. CASE Undone(o)
    <3>1. Same(o) /\ Busy(o)'
      BY <1>0, <2>5 DEF Undone, CallOver, Go, planVars, Same, Busy
    <3> QED
      BY <1>0, <2>5, <3>1, BusyStep DEF Undone, CallOver, Go, lockVars, planVars, Typed
  <2>6. CASE UndoFails(o)
    <3>1. Same(o) /\ Busy(o)'
      BY <1>0, <2>6 DEF UndoFails, CallOver, Go, planVars, Same, Busy
    <3>2. Outlived(o) \in SUBSET (Used \X Verbs)
      BY <2>6, OutlivedType DEF UndoFails
    <3>3. stray' \in [Op -> SUBSET (Used \X Verbs)]
      BY <1>0, <2>6, <3>2 DEF UndoFails, Unanswered, Verbs
    <3> QED
      BY <1>0, <2>6, <3>1, <3>3, BusyStep DEF UndoFails, CallOver, Go, lockVars, planVars, Typed, Verbs
  <2> QED BY <1>2, <2>1, <2>2, <2>3, <2>4, <2>5, <2>6 DEF Reverting
<1>3. CASE Releasing(o)
  <2>1. PICK calls \in SUBSET (Used \X Verbs) : Leave(o, "done", calls)
    <3>1. Unstopped(o) \in SUBSET (Used \X Verbs) BY <1>a DEF Unstopped
    <3> QED BY <1>3, <1>a, <3>1 DEF Releasing, Release, ReleaseFails
  <2>2. owner' \in Op \union {Nobody} /\ regranted' \in BOOLEAN
    BY <1>0, <1>3 DEF Releasing, Release, ReleaseFails, lockVars
  <2>3. UNCHANGED <<world, disturbed, disk>> /\ result' \in [Op -> {"none", "ok", "error"}]
    BY <1>0, <1>3 DEF Releasing, Release, ReleaseFails
  <2> QED BY <1>0, <2>1, <2>2, <2>3, LeaveType DEF Typed, Verbs
<1> QED
  BY <1>1, <1>2, <1>3

\* So do Ctrl+C, the death of a process and the loss of a lock.
LEMMA MisfortuneType ==
    ASSUME Typed
    PROVE  /\ \A o \in Op : CtrlC(o) \/ Die(o) => Typed'
           /\ Lapse \/ UNCHANGED vars => Typed'
<1> USE DEF TypeOK, Ended
<1>0. TypeOK BY DEF Typed
<1>1. ASSUME NEW o \in Op, CtrlC(o) PROVE Typed'
  <2>1. Same(o) /\ Busy(o)'
    BY <1>0, <1>1 DEF CtrlC, planVars, loopVars, Same, Busy, Typed, Compensation
  <2> QED BY <1>0, <1>1, <2>1, BusyStep DEF CtrlC, lockVars, planVars, loopVars, Typed
<1>2. ASSUME NEW o \in Op, Die(o) PROVE Typed'
  <2>1. pc[o] \in {"calling", "reverting"} => Outlived(o) \in SUBSET (Used \X Verbs)
    BY OutlivedType
  <2>2. stray[o] \in SUBSET (Used \X Verbs) BY <1>0 DEF Verbs
  <2>3. PICK calls \in SUBSET (Used \X Verbs) : Leave(o, "dead", calls)
    BY <1>2, <2>1, <2>2 DEF Die
  <2> QED BY <1>0, <1>2, <2>3, LeaveType DEF Die, lockVars, Typed, Verbs
<1>3. CASE Lapse
  <2>1. owner \in Op BY <1>0, <1>3 DEF Lapse
  <2>2. \A p \in Op : Busy(p)' BY <1>3 DEF Lapse, planVars, Busy, Typed, Compensation
  <2>3. stray' \in [Op -> SUBSET (Used \X {"apply", "destroy", "restore"})]
    BY <1>0, <1>3, <2>1 DEF Lapse, Unstopped
  <2> QED BY <1>0, <1>3, <2>2, <2>3 DEF Lapse, planVars, Typed
<1>4. CASE UNCHANGED vars
  <2>1. \A p \in Op : Busy(p)'
    BY <1>4 DEF vars, planVars, loopVars, lockVars, Busy, Typed, Compensation
  <2> QED BY <1>0, <1>4, <2>1 DEF vars, Typed
<1> QED
  BY <1>1, <1>2, <1>3, <1>4

\* At the start nothing is in progress.
LEMMA InitType == Init => Typed
<1> SUFFICES ASSUME Init PROVE Typed
  OBVIOUS
<1>1. Absent \in Resources /\ Old \in Resources
  BY DEF Absent, Old, Resources
<1>2. \A c \in Used : world[c] \in Resources
  BY <1>1 DEF Init
<1>3. world \in [Used -> Resources] /\ snap \in [Op -> [Used -> Resources]]
  BY <1>1, <1>2 DEF Init
<1> QED
  BY <1>3 DEF Init, Typed, TypeOK, Busy, Places, Statuses

\* Every step keeps the types.
LEMMA StepType == Typed /\ [Next]_vars => Typed'
BY BeforeType, CallingType, EndingType, MisfortuneType DEF Next, Core

\* Every variable stays in its range, whatever fails.
THEOREM TypeCorrect == Spec => []TypeOK
<1>1. Spec => []Typed
  BY InitType, StepType, PTL DEF Spec
<1>2. Typed => TypeOK
  BY DEF Typed
<1> QED
  BY <1>1, <1>2, PTL

------------------------------------------------------------------------------
(* How an operation ends.                                                  *)

\* A journal says Succeeded only when the work is over, a taken Ctrl+C leads only
\* to places from which nothing is committed, and a command that is to exit with
\* success has said so on disk.
Outcome(o) ==
    /\ pc[o] = "idle" => owner # o /\ result[o] = "none"
    /\ disk[o] = "Succeeded" => pc[o] \in {"releasing"} \union Ended
    /\ interrupt[o] = "taken" =>
          /\ pc[o] \in {"calling", "finishing", "failing", "rolling", "reverting", "releasing"}
          /\ disk[o] # "Succeeded"
    /\ pc[o] = "finishing" => failed[o]
    /\ result[o] = "ok" =>
          /\ pc[o] \in {"releasing"} \union Ended
          /\ pc[o] = "releasing" => disk[o] = "Succeeded"
          /\ pc[o] = "done" => owner # o

Outcomes == Typed /\ \A o \in Op : Outcome(o)

\* A step of one operation does not touch what the others will report.
Elsewhere(o) ==
    \A p \in Op \ {o} :
        /\ pc'[p] = pc[p] /\ interrupt'[p] = interrupt[p] /\ disk'[p] = disk[p]
        /\ result'[p] = result[p] /\ failed'[p] = failed[p]
        /\ owner' = p => owner = p

\* Then only the operation that moves has to be looked at.
LEMMA OutcomeStep ==
    ASSUME Outcomes, NEW o \in Op, Typed', Elsewhere(o), Outcome(o)'
    PROVE  Outcomes'
<1> SUFFICES ASSUME NEW p \in Op, p # o PROVE Outcome(p)'
  BY DEF Outcomes
<1>1. /\ pc'[p] = pc[p] /\ interrupt'[p] = interrupt[p] /\ disk'[p] = disk[p]
      /\ result'[p] = result[p] /\ failed'[p] = failed[p] /\ (owner' = p => owner = p)
  BY DEF Elsewhere
<1> QED
  BY <1>1 DEF Outcomes, Outcome

\* The end of a process reports nothing new.
LEMMA LeaveOutcome ==
    ASSUME Outcomes, NEW o \in Op, NEW w \in Ended, NEW calls, Leave(o, w, calls), UNCHANGED disk
    PROVE  /\ pc'[o] = w /\ interrupt'[o] = "none"
           /\ \A p \in Op \ {o} : /\ pc'[p] = pc[p] /\ interrupt'[p] = interrupt[p]
                                  /\ failed'[p] = failed[p]
BY DEF Outcomes, Typed, TypeOK, Leave, Go

\* Before the first call nothing has been promised.
LEMMA BeforeOutcome ==
    ASSUME Outcomes, NEW o \in Op, Typed', Before(o) \/ Planning(o)
    PROVE  Outcomes'
<1> USE DEF TypeOK, Typed, Up, Down
<1>0. TypeOK /\ Outcome(o) BY DEF Outcomes
<1>1. ASSUME NEW k \in Kinds, StartUp(o, k) PROVE Outcomes'
  <2>1. Elsewhere(o) /\ Outcome(o)'
    BY <1>0, <1>1 DEF StartUp, Go, loopVars, lockVars, Elsewhere, Outcome, Ended
  <2> QED BY <2>1, OutcomeStep
<1>2. ASSUME NEW k \in Kinds, StartDown(o, k) PROVE Outcomes'
  <2>1. \/ Go(o, "locking") /\ UNCHANGED result
        \/ Go(o, "done") /\ result' = [result EXCEPT ![o] = "ok"]
    BY <1>2 DEF StartDown
  <2>2. pc[o] = "idle" /\ UNCHANGED <<owner, failed, interrupt, disk>>
    BY <1>2 DEF StartDown, lockVars, loopVars
  <2>3. Elsewhere(o) /\ Outcome(o)'
    BY <1>0, <2>1, <2>2 DEF Go, Elsewhere, Outcome, Ended
  <2> QED BY <2>3, OutcomeStep
<1>3. CASE Acquire(o)
  <2>1. Elsewhere(o) /\ Outcome(o)'
    BY <1>0, <1>3 DEF Acquire, Go, loopVars, Elsewhere, Outcome, Ended
  <2> QED BY <2>1, OutcomeStep
<1>4. CASE AcquireFails(o)
  <2>1. Leave(o, "done", stray[o]) /\ UNCHANGED disk /\ result' = [result EXCEPT ![o] = "error"]
        /\ owner' \in {owner, o}
    BY <1>4 DEF AcquireFails, lockVars
  <2>2. Elsewhere(o) /\ Outcome(o)'
    BY <1>0, <1>4, <2>1, LeaveOutcome DEF AcquireFails, Elsewhere, Outcome, Ended
  <2> QED BY <2>2, OutcomeStep
<1>5. CASE Bypass(o)
  <2>1. Elsewhere(o) /\ Outcome(o)'
    BY <1>0, <1>5 DEF Bypass, Go, loopVars, lockVars, Elsewhere, Outcome, Ended
  <2> QED BY <2>1, OutcomeStep
<1>6. CASE Replan(o)
  <2>1. Elsewhere(o) /\ Outcome(o)'
    BY <1>0, <1>6 DEF Replan, Go, lockVars, Elsewhere, Outcome, Ended
  <2> QED BY <2>1, OutcomeStep
<1>7. CASE PlanRefused(o)
  <2>1. Elsewhere(o) /\ Outcome(o)'
    BY <1>0, <1>7 DEF PlanRefused, Conclude, Go, lockVars, loopVars, Elsewhere, Outcome, Ended
  <2> QED BY <2>1, OutcomeStep
<1>8. CASE Journal(o)
  <2>1. Elsewhere(o) /\ Outcome(o)'
    BY <1>0, <1>8
    DEF Journal, Saved, NotSaved, Conclude, Go, lockVars, loopVars, Elsewhere, Outcome, Ended
  <2> QED BY <2>1, OutcomeStep
<1> QED
  BY <1>1, <1>2, <1>3, <1>4, <1>5, <1>6, <1>7, <1>8 DEF Before, Start, Planning

\* A call, and its answer, commit nothing.
LEMMA CallingOutcome ==
    ASSUME Outcomes, NEW o \in Op, Typed', Calling(o) \/ Answer(o) \/ Act(o) \/ StrayActs(o)
    PROVE  Outcomes'
<1> USE DEF TypeOK, Typed, Up, Down, Forced
<1>0. TypeOK /\ Outcome(o) BY DEF Outcomes
<1>1. CASE Call(o)
  <2>1. Elsewhere(o) /\ Outcome(o)'
    BY <1>0, <1>1 DEF Call, Confirmed, Go, lockVars, Elsewhere, Outcome, Ended
  <2> QED BY <2>1, OutcomeStep
<1>2. CASE CallRefused(o)
  <2>1. owner' \in {owner, Nobody, o} BY <1>2 DEF CallRefused, Denied, lockVars
  <2>2. Nobody \notin Op BY OrchestratorAssumption DEF OrchestratorAssumption
  <2>3. Elsewhere(o) /\ Outcome(o)'
    BY <1>0, <1>2, <2>1, <2>2 DEF CallRefused, Go, Elsewhere, Outcome, Ended
  <2> QED BY <2>3, OutcomeStep
<1>3. CASE Applied(o)
  <2>1. Elsewhere(o) /\ Outcome(o)'
    BY <1>0, <1>3 DEF Applied, CallOver, NotSaved, Go, lockVars, Elsewhere, Outcome, Ended
  <2> QED BY <2>1, OutcomeStep
<1>4. CASE ApplyFails(o)
  <2>1. Elsewhere(o) /\ Outcome(o)'
    BY <1>0, <1>4 DEF ApplyFails, CallOver, Go, lockVars, Elsewhere, Outcome, Ended
  <2> QED BY <2>1, OutcomeStep
<1>5. CASE Destroyed(o)
  <2>1. Elsewhere(o) /\ Outcome(o)'
    BY <1>0, <1>5
    DEF Destroyed, CallOver, NotSaved, Conclude, Go, lockVars, Elsewhere, Outcome, Ended
  <2> QED BY <2>1, OutcomeStep
<1>6. CASE DestroyFails(o)
  <2>1. interrupt[o] = "taken" => failed'[o]
    BY <1>0, <1>6 DEF DestroyFails
  <2>2. /\ \A p \in Op \ {o} : pc'[p] = pc[p] /\ failed'[p] = failed[p]
        /\ pc'[o] = IF interrupt[o] = "taken" THEN "finishing" ELSE "next"
        /\ pc[o] = "calling" /\ UNCHANGED <<owner, interrupt, disk, result>>
    BY <1>0, <1>6 DEF DestroyFails, CallOver, Go, lockVars
  <2>3. Elsewhere(o) /\ Outcome(o)'
    BY <1>0, <2>1, <2>2 DEF Elsewhere, Outcome, Ended
  <2> QED BY <2>3, OutcomeStep
<1>7. CASE Act(o) \/ StrayActs(o)
  <2>1. UNCHANGED <<owner, pc, failed, interrupt, disk, result>>
    BY <1>7 DEF Act, StrayActs, lockVars, loopVars
  <2>2. Elsewhere(o) /\ Outcome(o)'
    BY <1>0, <2>1 DEF Elsewhere, Outcome
  <2> QED BY <2>2, OutcomeStep
<1> QED
  BY <1>1, <1>2, <1>3, <1>4, <1>5, <1>6, <1>7 DEF Calling, Answer

\* The end of the work commits what may be committed, and a release says so.
LEMMA EndingOutcome ==
    ASSUME Outcomes, NEW o \in Op, Typed', Closing(o) \/ Reverting(o) \/ Releasing(o)
    PROVE  Outcomes'
<1> USE DEF TypeOK, Typed, Up, Down
<1>0. TypeOK /\ Outcome(o) BY DEF Outcomes
<1>a. Nobody \notin Op BY OrchestratorAssumption DEF OrchestratorAssumption
<1>1. CASE Verify(o) \/ Ready(o) \/ NotReady(o)
  <2>1. Elsewhere(o) /\ Outcome(o)'
    BY <1>0, <1>1
    DEF Verify, Ready, NotReady, Saved, NotSaved, Conclude, Go, lockVars, loopVars, Elsewhere,
        Outcome, Ended
  <2> QED BY <2>1, OutcomeStep
<1>2. CASE Finish(o) \/ FinishUnsaved(o)
  <2>1. Elsewhere(o) /\ Outcome(o)'
    BY <1>0, <1>2
    DEF Finish, FinishUnsaved, Saved, NotSaved, Conclude, Go, lockVars, loopVars, Elsewhere,
        Outcome, Ended
  <2> QED BY <2>1, OutcomeStep
<1>3. CASE Rollback(o) \/ RolledBack(o)
  <2>1. Elsewhere(o) /\ Outcome(o)'
    BY <1>0, <1>3
    DEF Rollback, RolledBack, Saved, NotSaved, Conclude, Go, lockVars, loopVars, Elsewhere,
        Outcome, Ended
  <2> QED BY <2>1, OutcomeStep
<1>4. CASE SkipUndo(o) \/ Undo(o)
  <2>1. Elsewhere(o) /\ Outcome(o)'
    BY <1>0, <1>4 DEF SkipUndo, Undo, Confirmed, Go, lockVars, Elsewhere, Outcome, Ended
  <2> QED BY <2>1, OutcomeStep
<1>5. CASE UndoRefused(o)
  <2>1. owner' \in {owner, Nobody, o} BY <1>5 DEF UndoRefused, Denied, lockVars
  <2>2. Elsewhere(o) /\ Outcome(o)'
    BY <1>0, <1>5, <1>a, <2>1 DEF UndoRefused, Elsewhere, Outcome, Ended
  <2> QED BY <2>2, OutcomeStep
<1>6. CASE Undone(o) \/ UndoFails(o)
  <2>1. Elsewhere(o) /\ Outcome(o)'
    BY <1>0, <1>6 DEF Undone, UndoFails, CallOver, Go, lockVars, Elsewhere, Outcome, Ended
  <2> QED BY <2>1, OutcomeStep
<1>7. CASE Release(o)
  <2>1. PICK calls : Leave(o, "done", calls) BY <1>7 DEF Release
  <2>2. owner' # o /\ (\A p \in Op \ {o} : owner' = p => owner = p) /\ UNCHANGED <<disk, result>>
    BY <1>7, <1>a DEF Release, lockVars
  <2>3. Elsewhere(o) /\ Outcome(o)'
    BY <1>0, <1>7, <2>1, <2>2, LeaveOutcome DEF Release, Elsewhere, Outcome, Ended
  <2> QED BY <2>3, OutcomeStep
<1>8. CASE ReleaseFails(o)
  <2>1. PICK calls : Leave(o, "done", calls) BY <1>8 DEF ReleaseFails
  <2>2. owner' \in {owner, Nobody} /\ UNCHANGED disk /\ result' = [result EXCEPT ![o] = "error"]
    BY <1>8 DEF ReleaseFails, lockVars
  <2>3. Elsewhere(o) /\ Outcome(o)'
    BY <1>0, <1>8, <1>a, <2>1, <2>2, LeaveOutcome DEF ReleaseFails, Elsewhere, Outcome, Ended
  <2> QED BY <2>3, OutcomeStep
<1> QED
  BY <1>1, <1>2, <1>3, <1>4, <1>5, <1>6, <1>7, <1>8 DEF Closing, Reverting, Releasing

\* Neither Ctrl+C, nor a death, nor the loss of a lock makes a success.
LEMMA MisfortuneOutcome ==
    ASSUME Outcomes, Typed'
    PROVE  /\ \A o \in Op : CtrlC(o) \/ Die(o) => Outcomes'
           /\ Lapse \/ UNCHANGED vars => Outcomes'
<1> USE DEF TypeOK, Typed
<1>0. TypeOK /\ \A o \in Op : Outcome(o) BY DEF Outcomes
<1>1. ASSUME NEW o \in Op, CtrlC(o) PROVE Outcomes'
  <2>1. Elsewhere(o) /\ Outcome(o)'
    BY <1>0, <1>1 DEF CtrlC, Listening, lockVars, loopVars, Elsewhere, Outcome, Ended
  <2> QED BY <2>1, OutcomeStep
<1>2. ASSUME NEW o \in Op, Die(o) PROVE Outcomes'
  <2>1. PICK calls : Leave(o, "dead", calls) BY <1>2 DEF Die
  <2>2. Elsewhere(o) /\ Outcome(o)'
    BY <1>0, <1>2, <2>1, LeaveOutcome DEF Die, lockVars, Elsewhere, Outcome, Ended
  <2> QED BY <2>2, OutcomeStep
<1>3. CASE Lapse
  <2>1. Nobody \notin Op BY OrchestratorAssumption DEF OrchestratorAssumption
  <2> QED BY <1>0, <1>3, <2>1 DEF Lapse, Outcomes, Outcome
<1>4. CASE UNCHANGED vars
  BY <1>0, <1>4 DEF vars, loopVars, lockVars, Outcomes, Outcome
<1> QED
  BY <1>1, <1>2, <1>3, <1>4

\* Every behaviour keeps all of it.
LEMMA OutcomesHold == Spec => []Outcomes
<1>1. Init => Outcomes
  <2> SUFFICES ASSUME Init PROVE \A o \in Op : Outcome(o)
    BY InitType DEF Outcomes
  <2>1. Nobody \notin Op BY OrchestratorAssumption DEF OrchestratorAssumption
  <2> QED BY <2>1 DEF Init, Outcome
<1>2. Outcomes /\ [Next]_vars => Outcomes'
  <2> SUFFICES ASSUME Outcomes, [Next]_vars PROVE Outcomes'
    OBVIOUS
  <2>1. Typed' BY StepType DEF Outcomes
  <2> QED
    BY <2>1, BeforeOutcome, CallingOutcome, EndingOutcome, MisfortuneOutcome DEF Next, Core
<1> QED
  BY <1>1, <1>2, PTL DEF Spec

\* An operation whose Ctrl+C was taken by a call is never committed, whatever
\* fails later on.
THEOREM CancelledIsNotCommitted == Spec => []TakenNeverCommits
<1>1. Outcomes => TakenNeverCommits
  BY DEF Outcomes, Outcome, TakenNeverCommits
<1> QED
  BY <1>1, OutcomesHold, PTL

\* A command that exits with success has a journal on disk that says so, and has
\* given its lock up, also when the authority granted it again in the meantime.
THEOREM SuccessIsTrue == Spec => []ExitIsTrue
<1>1. Outcomes => ExitIsTrue
  BY DEF Outcomes, Outcome, ExitIsTrue, Ended
<1> QED
  BY <1>1, OutcomesHold, PTL

------------------------------------------------------------------------------
(* The journal tells of everything that may have been changed.             *)

Journalled == {"next", "calling", "verifying", "finishing", "failing", "rolling", "reverting"}

\* Whoever made a revision has a journal on disk.
Told(r) == r \in Op => disk[r] # "none"

\* An operation calls plugins only with a journal on disk, and what it might
\* restore was once told of as well.
Traced(o) ==
    /\ pc[o] \in Journalled => disk[o] # "none"
    /\ stray[o] # {} => disk[o] # "none"
    /\ \A c \in Used : Told(snap[o][c].rev)

Traces ==
    /\ Typed
    /\ \A o \in Op : Traced(o)
    /\ \A c \in Used : Told(world[c].rev)

\* A step of one operation leaves the journals and the calls of the others alone.
Apart(o) ==
    \A p \in Op \ {o} : /\ pc'[p] = pc[p] /\ disk'[p] = disk[p]
                        /\ stray'[p] = stray[p] /\ snap'[p] = snap[p]

\* A revision that comes from what was observed is told of.
Copied(o) == snap'[o] \in {snap[o], world, [c \in Used |-> Absent]}

\* What a step of one operation has to show.
LEMMA TraceStep ==
    ASSUME Traces, NEW o \in Op, Typed', Apart(o), Copied(o),
           disk[o] # "none" => disk'[o] # "none",
           pc'[o] \in Journalled => disk'[o] # "none",
           stray'[o] # {} => disk'[o] # "none",
           \A c \in Used : Told(world'[c].rev)
    PROVE  Traces'
<1>0. Nobody \notin Op /\ Absent.rev = Nobody
  BY OrchestratorAssumption DEF OrchestratorAssumption, Absent
<1>1. \A p \in Op : disk[p] # "none" => disk'[p] # "none"
  BY DEF Apart
<1>2. \A p \in Op, c \in Used : Told(snap'[p][c].rev)
  <2>1. \A c \in Used : Told(snap'[o][c].rev)
    BY <1>0 DEF Copied, Traces, Traced, Told
  <2>2. \A p \in Op \ {o} : snap'[p] = snap[p]
    BY DEF Apart
  <2> QED BY <2>1, <2>2 DEF Traces, Traced
<1>3. ASSUME NEW r PROVE Told(r) => (r \in Op => disk'[r] # "none")
  BY <1>1 DEF Told
<1>4. \A p \in Op, c \in Used : snap'[p][c].rev \in Op => disk'[snap'[p][c].rev] # "none"
  BY <1>2, <1>3
<1>5. \A c \in Used : world'[c].rev \in Op => disk'[world'[c].rev] # "none"
  BY <1>3
<1> QED
  BY <1>4, <1>5 DEF Traces, Traced, Told, Apart

\* A call leaves the operation's revision, an observed one or none behind.
LEMMA ActedTold ==
    ASSUME Traces, NEW o \in Op, disk[o] # "none", NEW v \in Verbs, NEW c \in Used,
           NEW all \in BOOLEAN, world' = Acted(o, v, c, all)
    PROVE  \A d \in Used : Told(world'[d].rev)
<1>0. Nobody \notin Op /\ Absent.rev = Nobody
  BY OrchestratorAssumption DEF OrchestratorAssumption, Absent
<1>1. world \in [Used -> Resources] BY DEF Traces, Typed, TypeOK
<1> SUFFICES ASSUME NEW d \in Used PROVE Told(world'[d].rev)
  OBVIOUS
<1>2. Told(world[d].rev) /\ Told(snap[o][c].rev) /\ Told(o) /\ Told(Absent.rev)
  BY <1>0 DEF Traces, Traced, Told
<1>3. world' = world => Told(world'[d].rev)
  BY <1>2
<1>4. ASSUME NEW m, world' = [world EXCEPT ![c] = [made |-> m, rev |-> o, whole |-> all]]
      PROVE  Told(world'[d].rev)
  BY <1>1, <1>2, <1>4
<1>5. world' = Removed(c) => Told(world'[d].rev)
  BY <1>1, <1>2 DEF Removed
<1>6. world' = [world EXCEPT ![c] = snap[o][c]] => Told(world'[d].rev)
  BY <1>1, <1>2
<1>7. world' = [world EXCEPT ![c].whole = FALSE] => Told(world'[d].rev)
  BY <1>1, <1>2 DEF Resources
<1> QED
  BY <1>3, <1>4, <1>5, <1>6, <1>7 DEF Acted, Idles, Verbs

\* The end of a process keeps its journal, and only calls that were journalled.
LEMMA LeaveTrace ==
    ASSUME Traces, NEW o \in Op, Typed', NEW w \in Ended, NEW calls, Leave(o, w, calls),
           UNCHANGED <<world, disk>>, calls # {} => disk[o] # "none"
    PROVE  Traces'
<1>1. snap'[o] \in {snap[o], [c \in Used |-> Absent]}
  BY DEF Traces, Typed, TypeOK, Leave
<1>2. \A p \in Op \ {o} : snap'[p] = snap[p]
  BY DEF Traces, Typed, TypeOK, Leave
<1>3. pc'[o] = w /\ stray'[o] = calls
  BY DEF Traces, Typed, TypeOK, Leave, Go
<1>4. Apart(o)
  BY <1>2 DEF Traces, Typed, TypeOK, Leave, Go, Apart
<1>5. \A c \in Used : Told(world'[c].rev)
  BY DEF Traces
<1> QED
  BY <1>1, <1>3, <1>4, <1>5, TraceStep DEF Copied, Journalled, Ended

\* Before the first call there is a journal.
LEMMA BeforeTrace ==
    ASSUME Traces, NEW o \in Op, Typed', Before(o) \/ Planning(o)
    PROVE  Traces'
<1> USE DEF TypeOK, Typed, Journalled
<1>0. TypeOK /\ Traced(o) /\ \A c \in Used : Told(world[c].rev) BY DEF Traces
<1>1. CASE Start(o)
  <2>1. /\ UNCHANGED <<world, disk, stray>>
        /\ Apart(o) /\ Copied(o) /\ pc'[o] \in {"locking", "done"}
    BY <1>0, <1>1 DEF Start, StartUp, StartDown, Go, planVars, loopVars, Apart, Copied
  <2> QED BY <1>0, <2>1, TraceStep DEF Traced
<1>2. CASE Acquire(o) \/ Bypass(o) \/ Replan(o) \/ PlanRefused(o)
  <2>1. /\ UNCHANGED <<world, disk, stray>>
        /\ Apart(o) /\ Copied(o) /\ pc'[o] \in {"locked", "planned", "releasing"}
    BY <1>0, <1>2
    DEF Acquire, Bypass, Replan, PlanRefused, Conclude, Go, planVars, loopVars, Apart, Copied
  <2> QED BY <1>0, <2>1, TraceStep DEF Traced
<1>3. CASE AcquireFails(o)
  <2>1. Leave(o, "done", stray[o]) /\ UNCHANGED <<world, disk>>
    BY <1>3 DEF AcquireFails
  <2> QED BY <1>0, <2>1, LeaveTrace DEF Traced, Ended
<1>4. CASE Journal(o)
  <2>1. /\ UNCHANGED <<world, snap, stray>> /\ Apart(o)
        /\ pc'[o] \in {"next", "releasing"}
        /\ pc'[o] = "next" => disk'[o] # "none"
        /\ disk[o] # "none" => disk'[o] # "none"
    BY <1>0, <1>4
    DEF Journal, Saved, NotSaved, Conclude, Go, planVars, loopVars, Apart
  <2> QED BY <1>0, <2>1, TraceStep DEF Traced, Copied
<1> QED
  BY <1>1, <1>2, <1>3, <1>4 DEF Before, Planning

\* A call changes what exists only while there is a journal.
LEMMA CallingTrace ==
    ASSUME Traces, NEW o \in Op, Typed', Calling(o) \/ Answer(o) \/ Act(o) \/ StrayActs(o)
    PROVE  Traces'
<1> USE DEF TypeOK, Typed, Journalled
<1>0. TypeOK /\ Traced(o) /\ \A c \in Used : Told(world[c].rev) BY DEF Traces
<1>1. CASE Calling(o) \/ Answer(o)
  <2>1. UNCHANGED <<world, snap, disk>> /\ disk[o] # "none"
    BY <1>0, <1>1
    DEF Calling, Call, CallRefused, Answer, Applied, ApplyFails, Destroyed, DestroyFails,
        CallOver, NotSaved, planVars, Traced
  <2>2. Apart(o)
    <3>1. CASE Calling(o)
      BY <1>0, <3>1 DEF Calling, Call, CallRefused, Go, planVars, Apart
    <3>2. CASE Applied(o)
      BY <1>0, <2>1, <3>2 DEF Applied, CallOver, Go, planVars, Apart
    <3>3. CASE ApplyFails(o)
      BY <1>0, <2>1, <3>3 DEF ApplyFails, Unanswered, CallOver, Go, planVars, Apart
    <3>4. CASE Destroyed(o)
      BY <1>0, <2>1, <3>4 DEF Destroyed, Conclude, CallOver, Go, planVars, Apart
    <3>5. CASE DestroyFails(o)
      BY <1>0, <2>1, <3>5 DEF DestroyFails, Unanswered, CallOver, Go, planVars, Apart
    <3> QED BY <1>1, <3>1, <3>2, <3>3, <3>4, <3>5 DEF Answer
  <2> QED BY <1>0, <2>1, <2>2, TraceStep DEF Copied
<1>2. CASE Act(o)
  <2>1. disk[o] # "none" BY <1>0, <1>2 DEF Act, Traced
  <2>2. Item(o) \in Used /\ Verb(o) \in Verbs
    BY <1>2, CallInProgress DEF Act, Traces
  <2>3. \A d \in Used : Told(world'[d].rev)
    BY <1>2, <2>1, <2>2, ActedTold DEF Act
  <2>4. UNCHANGED <<pc, snap, stray, disk>> BY <1>2 DEF Act, planVars
  <2> QED BY <2>1, <2>3, <2>4, TraceStep DEF Copied, Apart
<1>3. CASE StrayActs(o)
  <2>1. PICK call \in stray[o], all \in BOOLEAN : world' = Acted(o, call[2], call[1], all)
    BY <1>3 DEF StrayActs
  <2>2. disk[o] # "none" BY <1>0, <2>1 DEF Traced
  <2>3. call[1] \in Used /\ call[2] \in Verbs BY <1>0, <2>1 DEF Verbs
  <2>4. \A d \in Used : Told(world'[d].rev)
    BY <2>1, <2>2, <2>3, ActedTold
  <2>5. UNCHANGED <<pc, snap, stray, disk>> BY <1>3 DEF StrayActs, planVars, loopVars
  <2> QED BY <2>2, <2>4, <2>5, TraceStep DEF Copied, Apart
<1> QED
  BY <1>1, <1>2, <1>3

\* The journal is never removed.
LEMMA EndingTrace ==
    ASSUME Traces, NEW o \in Op, Typed', Closing(o) \/ Reverting(o) \/ Releasing(o)
    PROVE  Traces'
<1> USE DEF TypeOK, Typed, Journalled
<1>0. TypeOK /\ Traced(o) /\ \A c \in Used : Told(world[c].rev) BY DEF Traces
<1>1. CASE Closing(o) \/ Rollback(o) \/ RolledBack(o)
  <2>1. UNCHANGED <<world, snap, stray>> /\ disk[o] # "none"
    BY <1>0, <1>1
    DEF Closing, Verify, Ready, NotReady, Finish, FinishUnsaved, Rollback, RolledBack,
        planVars, loopVars, Traced
  <2>2. disk' = disk \/ \E status \in Statuses \ {"none"} : Saved(o, status)
    BY <1>0, <1>1
    DEF Closing, Verify, Ready, NotReady, Finish, FinishUnsaved, Rollback, RolledBack,
        Saved, NotSaved, Statuses
  <2>3. \E where \in Places : Go(o, where)
    BY <1>1
    DEF Closing, Verify, Ready, NotReady, Finish, FinishUnsaved, Rollback, RolledBack,
        Conclude, Places
  <2>4. Apart(o) BY <1>0, <2>1, <2>2, <2>3 DEF Saved, Go, Apart
  <2>5. disk'[o] # "none" BY <1>0, <2>1, <2>2 DEF Saved
  <2> QED BY <1>0, <2>1, <2>4, <2>5, TraceStep DEF Copied
<1>2. CASE SkipUndo(o) \/ Undo(o) \/ UndoRefused(o) \/ Undone(o) \/ UndoFails(o)
  <2>1. UNCHANGED <<world, snap, disk>> /\ disk[o] # "none"
    BY <1>0, <1>2
    DEF SkipUndo, Undo, UndoRefused, Undone, UndoFails, CallOver, planVars, Traced
  <2>2. Apart(o)
    BY <1>0, <1>2, <2>1
    DEF SkipUndo, Undo, UndoRefused, Undone, UndoFails, Unanswered, CallOver, Go, Apart
  <2> QED BY <1>0, <2>1, <2>2, TraceStep DEF Copied
<1>3. CASE Releasing(o)
  <2>1. PICK calls \in {Unstopped(o), stray[o]} : Leave(o, "done", calls)
    BY <1>3 DEF Releasing, Release, ReleaseFails
  <2>3. calls # {} => stray[o] # {} BY DEF Unstopped
  <2>2. UNCHANGED <<world, disk>> BY <1>3 DEF Releasing, Release, ReleaseFails
  <2> QED BY <1>0, <2>1, <2>2, <2>3, LeaveTrace DEF Traced, Ended
<1> QED
  BY <1>1, <1>2, <1>3 DEF Reverting

\* Nor is it lost with the process or with the lock.
LEMMA MisfortuneTrace ==
    ASSUME Traces, Typed'
    PROVE  /\ \A o \in Op : CtrlC(o) \/ Die(o) => Traces'
           /\ Lapse \/ UNCHANGED vars => Traces'
<1> USE DEF TypeOK, Typed, Journalled
<1>0. TypeOK /\ (\A o \in Op : Traced(o)) /\ \A c \in Used : Told(world[c].rev) BY DEF Traces
<1>1. ASSUME NEW o \in Op, CtrlC(o) PROVE Traces'
  <2>1. UNCHANGED <<world, pc, snap, stray, disk>> BY <1>1 DEF CtrlC, planVars, loopVars
  <2> QED BY <1>0, <2>1 DEF Traces, Traced, Told
<1>2. ASSUME NEW o \in Op, Die(o) PROVE Traces'
  <2>1. PICK calls : Leave(o, "dead", calls) /\ (calls # {} => disk[o] # "none")
    <3>1. CASE pc[o] \in {"calling", "reverting"}
      BY <1>0, <1>2, <3>1 DEF Die, Traced
    <3>2. CASE pc[o] \notin {"calling", "reverting"}
      BY <1>0, <1>2, <3>2 DEF Die, Traced
    <3> QED BY <3>1, <3>2
  <2> QED BY <1>0, <1>2, <2>1, LeaveTrace DEF Die, Ended
<1>3. CASE Lapse
  <2>1. \A p \in Op : stray'[p] # {} => stray[p] # {} BY <1>0, <1>3 DEF Lapse, Unstopped
  <2>2. UNCHANGED <<world, pc, snap, disk>> BY <1>3 DEF Lapse, planVars
  <2> QED BY <1>0, <2>1, <2>2, ZenonT(60) DEF Traces, Traced, Told
<1>4. CASE UNCHANGED vars
  <2>1. UNCHANGED <<world, pc, snap, stray, disk>> BY <1>4 DEF vars, planVars, loopVars
  <2> QED BY <1>0, <2>1 DEF Traces, Traced, Told
<1> QED
  BY <1>1, <1>2, <1>3, <1>4

\* Whatever an operation left in the environment, at whichever point it failed or
\* died, a journal on disk tells of it: the first save precedes the first call, and
\* no later failure to save takes it away.
THEOREM EverythingIsTraced == Spec => []LeavesATrace
<1>1. Init => Traces
  <2> SUFFICES ASSUME Init PROVE Traces
    OBVIOUS
  <2>1. Nobody \notin Op /\ Past \notin Op
    BY OrchestratorAssumption DEF OrchestratorAssumption
  <2>2. \A c \in Used : world[c] \in {Absent, Old}
    BY DEF Init
  <2>3. \A c \in Used : Told(world[c].rev)
    BY <2>1, <2>2 DEF Absent, Old, Told
  <2>4. \A o \in Op : Traced(o)
    BY <2>1 DEF Init, Traced, Told, Absent, Journalled
  <2> QED BY <2>3, <2>4, InitType DEF Traces
<1>2. Traces /\ [Next]_vars => Traces'
  <2> SUFFICES ASSUME Traces, [Next]_vars PROVE Traces'
    OBVIOUS
  <2>1. Typed' BY StepType DEF Traces
  <2> QED
    BY <2>1, BeforeTrace, CallingTrace, EndingTrace, MisfortuneTrace DEF Next, Core
<1>3. Traces => LeavesATrace
  BY DEF Traces, Told, LeavesATrace
<1> QED
  BY <1>1, <1>2, <1>3, PTL DEF Spec

------------------------------------------------------------------------------
(* No stale plan is carried out.                                           *)

Open == {"planned", "next", "calling"}

\* What is left of the plan is to be done to what the plan was made from.
Fresh(o) ==
    o \notin disturbed /\ pc[o] \in Open /\ owner = o =>
        \A c \in todo[o] : \/ world[c] = snap[o][c]
                           \/ pc[o] = "calling" /\ c = Item(o) /\ did[o] # "nothing"

\* A call that a destruction no longer waits for is for a later capability than
\* those that are left: it cannot undo what the plan was made from.
Trailing(o) ==
    /\ pc[o] \in {"idle", "locking", "locked"} => stray[o] = {}
    /\ pc[o] \in Open => \A call \in stray[o] :
          call[2] = "destroy" /\ \A c \in todo[o] : Rank[c] < Rank[call[1]]

CurrentOf(o) == Fresh(o) /\ Trailing(o)

Current == Typed /\ \A o \in Op : CurrentOf(o)

\* A step of one operation changes nothing that the plan of another rests on.
Aside(o) ==
    \A p \in Op \ {o} :
        /\ pc'[p] = pc[p] /\ kind'[p] = kind[p] /\ todo'[p] = todo[p] /\ snap'[p] = snap[p]
        /\ did'[p] = did[p] /\ stray'[p] = stray[p] /\ (owner' = p => owner = p)
        /\ (p \in disturbed => p \in disturbed')

\* Only the owner of the lock changes what exists unnoticed, so only the operation
\* that moves has to be looked at.
LEMMA CurrentStep ==
    ASSUME Current, NEW o \in Op, Typed', Aside(o),
           world' = world \/ owner = o \/ disturbed' = Op, CurrentOf(o)'
    PROVE  Current'
<1> SUFFICES ASSUME NEW p \in Op, p # o PROVE CurrentOf(p)'
  BY DEF Current
<1>1. /\ pc'[p] = pc[p] /\ kind'[p] = kind[p] /\ todo'[p] = todo[p] /\ snap'[p] = snap[p]
      /\ did'[p] = did[p] /\ stray'[p] = stray[p] /\ (owner' = p => owner = p)
      /\ (p \in disturbed => p \in disturbed')
  BY DEF Aside
<1>2. pc[p] = "calling" => Item(p)' = Item(p)
  BY <1>1 DEF Item
<1>3. CurrentOf(p) BY DEF Current
<1>4. Trailing(p)'
  BY <1>1, <1>3 DEF CurrentOf, Trailing
<1>5. Fresh(p)'
  BY <1>1, <1>2, <1>3 DEF CurrentOf, Fresh, Open
<1> QED
  BY <1>4, <1>5 DEF CurrentOf

\* What a call leaves alone: everything but its capability, and what stands on a
\* machine that is deleted.
LEMMA ActedFrame ==
    ASSUME Typed, NEW o \in Op, NEW v \in Verbs, NEW c \in Used, NEW all \in BOOLEAN,
           NEW d \in Used, d # c, ~(v = "destroy" /\ c = "Target"), world' = Acted(o, v, c, all)
    PROVE  world'[d] = world[d]
<1>1. world \in [Used -> Resources] BY DEF Typed, TypeOK
<1>2. v = "destroy" => Removed(c)[d] = world[d]
  BY <1>1 DEF Removed
<1>3. [world EXCEPT ![c].whole = FALSE][d] = world[d] /\ [world EXCEPT ![c] = snap[o][c]][d] = world[d]
  BY <1>1
<1>4. \A r : [world EXCEPT ![c] = r][d] = world[d]
  BY <1>1
<1> QED
  BY <1>2, <1>3, <1>4 DEF Acted, Idles, Verbs

\* An operation that is over, or that only compensates, carries out no plan.
LEMMA Closed ==
    ASSUME NEW o \in Op, pc'[o] \notin Open, pc'[o] \notin {"idle", "locking", "locked"}
    PROVE  CurrentOf(o)'
BY DEF CurrentOf, Fresh, Trailing

\* The plan is made from what exists, and the lock keeps it so.
LEMMA BeforeCurrent ==
    ASSUME Current, NEW o \in Op, Typed', Before(o) \/ Planning(o)
    PROVE  Current'
<1> USE DEF TypeOK, Typed, Open, Ended, Up, Down
<1>0. TypeOK /\ CurrentOf(o) BY DEF Current
<1>1. ASSUME NEW k \in Kinds, StartUp(o, k) PROVE Current'
  <2>1. Aside(o) /\ UNCHANGED <<world, disturbed>> /\ CurrentOf(o)'
    BY <1>0, <1>1
    DEF StartUp, Go, lockVars, loopVars, Aside, CurrentOf, Fresh, Trailing
  <2> QED BY <2>1, CurrentStep
<1>2. ASSUME NEW k \in Kinds, StartDown(o, k) PROVE Current'
  <2>2. pc'[o] \in {"locking", "done"} /\ stray'[o] = {}
    BY <1>0, <1>2 DEF StartDown, Go, planVars, loopVars, CurrentOf, Trailing
  <2>3. Aside(o) /\ UNCHANGED <<world, disturbed>>
    BY <1>0, <1>2 DEF StartDown, Go, planVars, lockVars, loopVars, Aside
  <2>4. CurrentOf(o)'
    BY <1>0, <2>2 DEF CurrentOf, Fresh, Trailing
  <2> QED BY <2>3, <2>4, CurrentStep
<1>3. CASE Acquire(o)
  <2>1. Aside(o) /\ UNCHANGED <<world, disturbed>> /\ CurrentOf(o)'
    BY <1>0, <1>3
    DEF Acquire, Go, planVars, loopVars, Aside, CurrentOf, Fresh, Trailing
  <2> QED BY <2>1, CurrentStep
<1>4. CASE AcquireFails(o)
  <2>1. Leave(o, "done", stray[o]) /\ UNCHANGED <<world, disturbed>> /\ owner' \in {owner, o}
    BY <1>4 DEF AcquireFails, lockVars
  <2>2. Aside(o) /\ pc'[o] = "done"
    BY <1>0, <2>1 DEF Leave, Go, Aside, CurrentOf
  <2> QED BY <2>1, <2>2, Closed, CurrentStep
<1>5. CASE Bypass(o)
  <2>1. Aside(o) /\ UNCHANGED <<world, disturbed>> /\ CurrentOf(o)'
    BY <1>0, <1>5
    DEF Bypass, Go, lockVars, loopVars, Aside, CurrentOf, Fresh, Trailing
  <2> QED BY <2>1, CurrentStep
<1>6. CASE Replan(o)
  <2>1. \A c \in Used : snap'[o][c] = world[c]
    BY <1>0, <1>6 DEF Replan
  <2>2. UNCHANGED <<world, kind, stray, owner, did>> /\ pc'[o] = "planned"
    BY <1>0, <1>6 DEF Replan, Go, lockVars
  <2>3. Aside(o)
    BY <1>0, <1>6, <2>2 DEF Replan, Go, Aside
  <2>4. stray[o] = {} BY <1>0, <1>6 DEF Replan, CurrentOf, Trailing
  <2>5. todo'[o] \in SUBSET Used OBVIOUS
  <2>6. CurrentOf(o)'
    BY <1>0, <2>1, <2>2, <2>4, <2>5 DEF CurrentOf, Fresh, Trailing
  <2> QED BY <2>2, <2>3, <2>6, CurrentStep
<1>7. CASE PlanRefused(o)
  <2>1. Aside(o) /\ UNCHANGED <<world, disturbed>> /\ pc'[o] = "releasing"
    BY <1>0, <1>7
    DEF PlanRefused, Conclude, Go, planVars, lockVars, loopVars, Aside
  <2> QED BY <2>1, Closed, CurrentStep
<1>8. CASE Journal(o)
  <2>1. Aside(o) /\ UNCHANGED <<world, disturbed, kind, todo, snap, did, stray, owner>>
    BY <1>0, <1>8
    DEF Journal, Conclude, Go, planVars, lockVars, loopVars, Aside
  <2>2. pc[o] = "planned" /\ pc'[o] \in {"next", "releasing"}
    BY <1>0, <1>8 DEF Journal, Conclude, Go
  <2>3. CurrentOf(o)'
    BY <1>0, <2>1, <2>2 DEF CurrentOf, Fresh, Trailing
  <2> QED BY <2>1, <2>3, CurrentStep
<1> QED
  BY <1>1, <1>2, <1>3, <1>4, <1>5, <1>6, <1>7, <1>8 DEF Before, Start, Planning

\* A call takes the next capability; its answer takes it off the plan, and so does
\* giving it up.
LEMMA CallingCurrent ==
    ASSUME Current, NEW o \in Op, Typed', Calling(o) \/ Answer(o)
    PROVE  Current'
<1> USE DEF TypeOK, Typed, Open, Ended
<1>0. TypeOK /\ CurrentOf(o) BY DEF Current
<1>1. CASE Call(o)
  <2>1. UNCHANGED <<world, disturbed, kind, todo, snap, did, stray, owner>> /\ Aside(o)
    BY <1>0, <1>1 DEF Call, Confirmed, Go, planVars, lockVars, Aside
  <2>2. pc[o] = "next" /\ pc'[o] = "calling" BY <1>0, <1>1 DEF Call, Go
  <2>3. CurrentOf(o)' BY <1>0, <2>1, <2>2 DEF CurrentOf, Fresh, Trailing
  <2> QED BY <2>1, <2>3, CurrentStep
<1>2. CASE CallRefused(o)
  <2>1. owner' \in {owner, Nobody, o} BY <1>2 DEF CallRefused, Denied, lockVars
  <2>2. Nobody \notin Op BY OrchestratorAssumption DEF OrchestratorAssumption
  <2>3. Aside(o) /\ UNCHANGED <<world, disturbed, kind>> /\ pc'[o] \in {"failing", "finishing"}
    BY <1>0, <1>2, <2>1, <2>2 DEF CallRefused, Go, planVars, Aside
  <2> QED BY <1>0, <2>3, Closed, CurrentStep
<1>3. CASE Answer(o)
  <2>0. pc[o] = "calling" /\ todo[o] # {} /\ Item(o) \in Used
    BY <1>3, CallInProgress DEF Answer, Applied, ApplyFails, Destroyed, DestroyFails, Current, Busy
  <2>1. UNCHANGED <<world, disturbed, kind, snap, owner>>
    BY <1>3 DEF Answer, Applied, ApplyFails, Destroyed, DestroyFails, CallOver, planVars, lockVars
  <2>2. Aside(o)
    <3>1. CASE Applied(o)
      BY <1>0, <2>1, <3>1 DEF Applied, CallOver, Go, Aside
    <3>2. CASE ApplyFails(o)
      BY <1>0, <2>1, <3>2 DEF ApplyFails, Unanswered, CallOver, Go, Aside
    <3>3. CASE Destroyed(o)
      BY <1>0, <2>1, <3>3 DEF Destroyed, Conclude, CallOver, Go, Aside
    <3>4. CASE DestroyFails(o)
      BY <1>0, <2>1, <3>4 DEF DestroyFails, Unanswered, CallOver, Go, Aside
    <3> QED BY <1>3, <3>1, <3>2, <3>3, <3>4 DEF Answer
  <2>3. CASE pc'[o] \notin Open
    <3>1. pc'[o] \in {"failing", "finishing", "releasing"}
      BY <1>0, <1>3, <2>3
      DEF Answer, Applied, ApplyFails, Destroyed, DestroyFails, Conclude, Go
    <3> QED BY <1>0, <2>1, <2>2, <3>1, Closed, CurrentStep
  <2>4. CASE pc'[o] \in Open
    <3>1. pc'[o] = "next" /\ todo'[o] = todo[o] \ {Item(o)}
      BY <1>0, <1>3, <2>4
      DEF Answer, Applied, ApplyFails, Destroyed, DestroyFails, Conclude, Go
    <3>2. Fresh(o)'
      BY <1>0, <2>0, <2>1, <3>1 DEF CurrentOf, Fresh
    <3>3. \A call \in stray'[o] :
             \/ call \in stray[o]
             \/ call = <<Item(o), "destroy">> /\ Item(o) = Latest(todo[o])
      <4>1. CASE Applied(o) \/ Destroyed(o) BY <4>1 DEF Applied, Destroyed
      <4>2. CASE ApplyFails(o) BY <1>0, <4>2, <3>1 DEF ApplyFails, Go
      <4>3. CASE DestroyFails(o)
        <5>1. kind[o] \notin Up BY <4>3 DEF DestroyFails, Up, Down
        <5>2. Item(o) = Latest(todo[o]) /\ Verb(o) = "destroy"
          BY <2>0, <5>1 DEF Item, Verb
        <5> QED BY <1>0, <4>3, <5>2 DEF DestroyFails, Unanswered, Outlived
      <4> QED BY <1>3, <4>1, <4>2, <4>3 DEF Answer
    <3>4. Item(o) = Latest(todo[o]) => \A c \in todo[o] \ {Item(o)} : Rank[c] < Rank[Item(o)]
      <4> SUFFICES ASSUME Item(o) = Latest(todo[o]), NEW c \in todo[o], c # Item(o)
                   PROVE  Rank[c] < Rank[Item(o)]
        OBVIOUS
      <4>1. Rank[Item(o)] >= Rank[c] BY <1>0, <2>0, Extremes
      <4>2. Rank[Item(o)] # Rank[c] /\ Rank[c] \in 1..5 /\ Rank[Item(o)] \in 1..5
        BY <1>0, <2>0, RankFacts
      <4> QED BY <4>1, <4>2
    <3>5. Trailing(o)'
      BY <1>0, <2>0, <3>1, <3>3, <3>4 DEF CurrentOf, Trailing
    <3> QED BY <1>0, <2>1, <2>2, <3>2, <3>5, CurrentStep DEF CurrentOf
  <2> QED BY <2>3, <2>4
<1> QED
  BY <1>1, <1>2, <1>3 DEF Calling

\* A call touches its own capability only; the target, whose deletion takes the
\* rest of a machine with it, is the last one.
LEMMA ActCurrent ==
    ASSUME Current, NEW o \in Op, Typed', Act(o) \/ StrayActs(o)
    PROVE  Current'
<1> USE DEF TypeOK, Open
<1>0. TypeOK /\ CurrentOf(o) BY DEF Current, Typed
<1>1. disturbed' = disturbed \/ disturbed' = Op
  BY DEF Act, StrayActs, Behind
<1>a. world' = world \/ owner = o \/ disturbed' = Op
  BY DEF Act, StrayActs, Behind, Intact
<1>2. CASE Act(o)
  <2>1. UNCHANGED <<pc, kind, todo, snap, stray, owner>> /\ did'[o] # "nothing" /\ Aside(o)
    BY <1>0, <1>1, <1>2 DEF Act, planVars, lockVars, Aside
  <2>2. pc[o] = "calling" => Item(o)' = Item(o) BY <2>1 DEF Item
  <2>3. PICK all \in BOOLEAN : world' = Acted(o, Verb(o), Item(o), all) BY <1>2 DEF Act
  <2>4. Item(o) \in Used /\ Verb(o) \in Verbs BY <1>2, CallInProgress DEF Act, Current
  <2>5. ASSUME pc[o] = "calling", NEW c \in todo[o], c # Item(o) PROVE world'[c] = world[c]
    <3>1. CASE Verb(o) = "destroy" /\ Item(o) = "Target"
      <4>1. Item(o) = Latest(todo[o]) BY <2>5, <3>1 DEF Item, Verb
      <4>2. Rank["Target"] >= Rank[c] BY <1>0, <2>5, <3>1, <4>1, Extremes
      <4>3. Rank["Target"] = 1 BY DEF Rank
      <4>4. c \in Used /\ Rank[c] \in 1..5 BY <1>0, <2>5, RankFacts
      <4>5. Rank[c] = 1 BY <4>2, <4>3, <4>4
      <4> QED BY <2>5, <3>1, <4>4, <4>5, RankFacts
    <3>2. CASE ~(Verb(o) = "destroy" /\ Item(o) = "Target")
      <4>1. Typed /\ c \in Used BY <1>0, <2>5 DEF Current
      <4> QED BY <2>3, <2>4, <2>5, <3>2, <4>1, ActedFrame
    <3> QED BY <3>1, <3>2
  <2>6. pc[o] # "planned" /\ pc[o] # "next" BY <1>2 DEF Act
  <2>7. Fresh(o)'
    BY <1>0, <1>1, <2>1, <2>2, <2>5, <2>6 DEF CurrentOf, Fresh
  <2>8. Trailing(o)' BY <1>0, <2>1 DEF CurrentOf, Trailing
  <2> QED BY <1>a, <2>1, <2>7, <2>8, CurrentStep DEF CurrentOf
<1>3. CASE StrayActs(o)
  <2>1. UNCHANGED <<pc, kind, todo, snap, stray, did, owner>> /\ Aside(o)
    BY <1>0, <1>1, <1>3 DEF StrayActs, planVars, loopVars, lockVars, Aside
  <2>2. pc[o] = "calling" => Item(o)' = Item(o) BY <2>1 DEF Item
  <2>3. PICK call \in stray[o], all \in BOOLEAN : world' = Acted(o, call[2], call[1], all)
    BY <1>3 DEF StrayActs
  <2>4. call[1] \in Used /\ call[2] \in Verbs BY <1>0, <2>3 DEF Verbs
  <2>5. ASSUME pc[o] \in Open, NEW c \in todo[o] PROVE world'[c] = world[c]
    <3>1. Rank[c] < Rank[call[1]] BY <1>0, <2>3, <2>5 DEF CurrentOf, Trailing
    <3>2. Rank[c] \in 1..5 /\ Rank[call[1]] \in 1..5 BY <1>0, <2>4, RankFacts
    <3>3. call[1] # "Target" BY <3>1, <3>2 DEF Rank
    <3>4. call[1] # c BY <3>1, <3>2
    <3>5. Typed /\ c \in Used BY <1>0, <2>5 DEF Current
    <3> QED BY <2>3, <2>4, <3>3, <3>4, <3>5, ActedFrame
  <2>6. Fresh(o)' BY <1>0, <1>1, <2>1, <2>2, <2>5 DEF CurrentOf, Fresh
  <2>7. Trailing(o)' BY <1>0, <2>1 DEF CurrentOf, Trailing
  <2> QED BY <1>a, <2>1, <2>6, <2>7, CurrentStep DEF CurrentOf
<1> QED
  BY <1>2, <1>3

\* What comes after the calls carries out no plan any more.
LEMMA EndingCurrent ==
    ASSUME Current, NEW o \in Op, Typed', Closing(o) \/ Reverting(o) \/ Releasing(o)
    PROVE  Current'
<1> USE DEF TypeOK, Typed, Open, Ended
<1>0. TypeOK /\ CurrentOf(o) BY DEF Current
<1>1. CASE Closing(o) \/ Rollback(o) \/ RolledBack(o)
  <2>1. UNCHANGED <<world, disturbed, kind, todo, snap, stray, did, owner>>
    BY <1>1
    DEF Closing, Verify, Ready, NotReady, Finish, FinishUnsaved, Rollback, RolledBack,
        lockVars, planVars, loopVars
  <2>2. \E where \in {"verifying", "failing", "rolling", "releasing"} : Go(o, where)
    BY <1>1
    DEF Closing, Verify, Ready, NotReady, Finish, FinishUnsaved, Rollback, RolledBack, Conclude
  <2>3. Aside(o) /\ pc'[o] \in {"verifying", "failing", "rolling", "releasing"}
    BY <1>0, <2>1, <2>2 DEF Go, Aside
  <2> QED BY <1>0, <2>1, <2>3, Closed, CurrentStep
<1>2. CASE SkipUndo(o) \/ Undo(o) \/ UndoRefused(o) \/ Undone(o) \/ UndoFails(o)
  <2>1. UNCHANGED <<world, disturbed, kind, todo, snap>> /\ pc'[o] \in {"rolling", "reverting"}
    BY <1>0, <1>2
    DEF SkipUndo, Undo, UndoRefused, Undone, UndoFails, CallOver, Go, planVars
  <2>2. owner' \in {owner, Nobody, o}
    BY <1>2 DEF SkipUndo, Undo, UndoRefused, Undone, UndoFails, CallOver, Confirmed, Denied, lockVars
  <2>3. Nobody \notin Op BY OrchestratorAssumption DEF OrchestratorAssumption
  <2>4. Aside(o)
    BY <1>0, <1>2, <2>1, <2>2, <2>3
    DEF SkipUndo, Undo, UndoRefused, Undone, UndoFails, Unanswered, CallOver, Go, Aside
  <2> QED BY <1>0, <2>1, <2>4, Closed, CurrentStep
<1>3. CASE Releasing(o)
  <2>1. PICK calls : Leave(o, "done", calls)
    BY <1>3 DEF Releasing, Release, ReleaseFails
  <2>2. UNCHANGED <<world, disturbed>> /\ owner' \in {owner, Nobody}
    BY <1>3 DEF Releasing, Release, ReleaseFails, lockVars
  <2>3. Nobody \notin Op BY OrchestratorAssumption DEF OrchestratorAssumption
  <2>4. Aside(o) /\ pc'[o] = "done"
    BY <1>0, <2>1, <2>2, <2>3 DEF Leave, Go, Aside, CurrentOf
  <2> QED BY <2>2, <2>4, Closed, CurrentStep
<1> QED
  BY <1>1, <1>2, <1>3 DEF Reverting

\* A lock that is lost is not found again with the same plan.
LEMMA MisfortuneCurrent ==
    ASSUME Current, Typed'
    PROVE  /\ \A o \in Op : CtrlC(o) \/ Die(o) => Current'
           /\ Lapse \/ UNCHANGED vars => Current'
<1> USE DEF TypeOK, Typed, Open
<1>0. TypeOK /\ \A o \in Op : CurrentOf(o) BY DEF Current
<1>a. Nobody \notin Op BY OrchestratorAssumption DEF OrchestratorAssumption
<1>1. ASSUME NEW o \in Op, CtrlC(o) PROVE Current'
  <2>1. UNCHANGED <<world, disturbed, owner, pc, kind, todo, snap, stray, did>>
    BY <1>1 DEF CtrlC, lockVars, planVars, loopVars
  <2>2. \A p \in Op : pc[p] = "calling" => Item(p)' = Item(p) BY <2>1 DEF Item
  <2> QED BY <1>0, <2>1, <2>2 DEF Current, CurrentOf, Fresh, Trailing
<1>2. ASSUME NEW o \in Op, Die(o) PROVE Current'
  <2>1. PICK calls : Leave(o, "dead", calls) BY <1>2 DEF Die
  <2>2. UNCHANGED <<world, disturbed, owner>> BY <1>2 DEF Die, lockVars
  <2>3. Aside(o) /\ pc'[o] = "dead"
    BY <1>0, <2>1, <2>2 DEF Leave, Go, Aside, CurrentOf
  <2> QED BY <2>2, <2>3, Closed, CurrentStep
<1>3. CASE Lapse
  <2>1. UNCHANGED <<world, disturbed, pc, kind, todo, snap, did>> /\ owner' = Nobody
    BY <1>3 DEF Lapse, planVars
  <2>2. \A p \in Op : stray'[p] \subseteq stray[p] BY <1>0, <1>3 DEF Lapse, Unstopped
  <2>3. \A p \in Op : Trailing(p)' BY <1>0, <2>1, <2>2 DEF CurrentOf, Trailing
  <2>4. \A p \in Op : Fresh(p)' BY <1>a, <2>1 DEF Fresh
  <2> QED BY <2>3, <2>4 DEF Current, CurrentOf
<1>4. CASE UNCHANGED vars
  <2>1. UNCHANGED <<world, disturbed, owner, pc, kind, todo, snap, stray, did>>
    BY <1>4 DEF vars, lockVars, planVars, loopVars
  <2>2. \A p \in Op : pc[p] = "calling" => Item(p)' = Item(p) BY <2>1 DEF Item
  <2> QED BY <1>0, <2>1, <2>2 DEF Current, CurrentOf, Fresh, Trailing
<1> QED
  BY <1>1, <1>2, <1>3, <1>4

\* A plan that another operation made stale is never carried out, whatever calls
\* go unanswered and however often the lock is lost, unless a call that no lock
\* stops changed the environment since the plan was made.
THEOREM PlansStayCurrent == Spec => []PlanIsCurrent
<1>1. Init => Current
  <2> SUFFICES ASSUME Init PROVE \A o \in Op : CurrentOf(o)
    BY InitType DEF Current
  <2> QED BY DEF Init, CurrentOf, Fresh, Trailing, Open
<1>2. Current /\ [Next]_vars => Current'
  <2> SUFFICES ASSUME Current, [Next]_vars PROVE Current'
    OBVIOUS
  <2>1. Typed' BY StepType DEF Current
  <2> QED
    BY <2>1, BeforeCurrent, CallingCurrent, ActCurrent, EndingCurrent, MisfortuneCurrent
    DEF Next, Core
<1>3. Current => PlanIsCurrent
  BY DEF Current, CurrentOf, Fresh, Open, PlanIsCurrent
<1> QED
  BY <1>1, <1>2, <1>3, PTL DEF Spec

------------------------------------------------------------------------------
(* Where every plugin fences, the lock protects what is worked on.         *)

\* A plugin that fences lets no call change anything without its lock.
LEMMA FencedActs ==
    ASSUME Typed, Fenced = Used, NEW o \in Op, Act(o) \/ StrayActs(o)
    PROVE  disturbed' = disturbed
<1>1. CASE Act(o)
  <2>1. Item(o) \in Used BY <1>1, CallInProgress DEF Act
  <2>2. Intact(o) BY <1>1, <2>1 DEF Act, MayAct
  <2> QED BY <1>1, <2>2 DEF Act, Behind
<1>2. CASE StrayActs(o)
  <2>1. PICK call \in stray[o] : MayAct(o, call[1])
    BY <1>2 DEF StrayActs
  <2>2. call[1] \in Used BY DEF Typed, TypeOK
  <2>3. Intact(o) BY <2>1, <2>2 DEF MayAct
  <2> QED BY <1>2, <2>3 DEF StrayActs, Behind
<1> QED
  BY <1>1, <1>2

\* On an authority whose plugins all fence, whatever calls go unanswered, whatever
\* leases lapse and whatever processes die, nothing is changed without the lock;
\* so what the theorems about plans, rollbacks and success except never happens.
THEOREM FencingProtects == Spec => []Undisturbed
<1> DEFINE Inv == Typed /\ Undisturbed
<1>1. Init => Inv
  BY InitType DEF Init, Undisturbed
<1>2. Inv /\ [Next]_vars => Inv'
  <2> SUFFICES ASSUME Typed, Fenced = Used, disturbed = {}, [Next]_vars
               PROVE  disturbed' = {}
    BY StepType DEF Undisturbed
  <2>1. ASSUME NEW o \in Op, Act(o) \/ StrayActs(o) PROVE disturbed' = {}
    BY <2>1, FencedActs
  <2>2. ASSUME NEW o \in Op, Before(o) \/ Planning(o) PROVE disturbed' = {}
    BY <2>2
    DEF Before, Start, StartUp, StartDown, Acquire, AcquireFails, Bypass, Planning, Replan,
        PlanRefused, Journal
  <2>3. ASSUME NEW o \in Op, Calling(o) \/ Answer(o) PROVE disturbed' = {}
    BY <2>3
    DEF Calling, Call, CallRefused, Answer, Applied, ApplyFails, Destroyed, DestroyFails, CallOver
  <2>4. ASSUME NEW o \in Op, Closing(o) \/ Reverting(o) \/ Releasing(o) PROVE disturbed' = {}
    BY <2>4
    DEF Closing, Verify, Ready, NotReady, Finish, FinishUnsaved, Reverting, Rollback, SkipUndo,
        Undo, UndoRefused, Undone, UndoFails, RolledBack, CallOver, Releasing, Release, ReleaseFails
  <2>5. ASSUME NEW o \in Op, CtrlC(o) \/ Die(o) PROVE disturbed' = {}
    BY <2>5 DEF CtrlC, Die
  <2>6. CASE Lapse \/ UNCHANGED vars
    BY <2>6 DEF Lapse, vars
  <2> QED
    BY <2>1, <2>2, <2>3, <2>4, <2>5, <2>6 DEF Next, Core
<1>3. Inv => Undisturbed
  OBVIOUS
<1> QED
  BY <1>1, <1>2, <1>3, PTL DEF Spec
=============================================================================
