-------------------------- MODULE EnvironmentProofs --------------------------
(***************************************************************************)
(* What an operation may do to one environment, under any number of        *)
(* operations and faults.                                                   *)
(*   Kubernetes: its namespace has one authority, keeps an expiry, and is   *)
(* left by a failed operation as it says it is, whichever of any control    *)
(* namespaces the operations go by.                                         *)
(*   Compose: while nothing else changes the host, what an update found is  *)
(* kept until it is restored or replaced, and what is said to be undone is. *)
(*   Fly: whatever an operation has made or changed of the Apps it          *)
(* remembers before it can be lost, and what somebody else has put in the   *)
(* place of one is left alone.                                              *)
(***************************************************************************)
EXTENDS PluginResources, PluginLockProofs, FiniteSetTheorems, WellFoundedInduction

------------------------------------------------------------------------------
(* Types.                                                                  *)

Spaces == [owner : {"none", "us", "foreign"}, control : {"none"} \union EnvControls,
           spec : EnvStamps, expiry : EnvStamps]
Objects == [EnvKinds -> {"absent", "past", "edited"} \union Op]
Plans == [space : Spaces, object : Objects]
Capabilities == {"Runtime", "Exposure", "Dns"}

Idle == {"start", "refused", "over"}
Deleting == {"find", "delete", "verify"}
Undoing == {"undoDns", "annotate", "annotated", "undoExposure", "restore", "change", "undoRuntime"}
Places == EnvApplying \union Undoing \union Deleting \union Idle
            \union {"failed", "again", "destroyed"}

Typed ==
    /\ envSpace \in Spaces
    /\ envObject \in Objects
    /\ envControl \in [Op -> EnvControls]
    /\ envTask \in [Op -> EnvTasks]
    /\ envHeld \in [EnvControls -> SUBSET Op]
    /\ envPlan \in [Op -> Plans]
    /\ envPc \in [Op -> Places]
    /\ envTodo \in [Op -> SUBSET EnvKinds]
    /\ envRan \in [Op -> SUBSET Capabilities]
    /\ envUndone \in [Op -> SUBSET Capabilities]
    /\ envLeft \in 0..EnvBudget

USE DEF EnvGo, EnvGoWith, EnvRun, EnvUndo, envSelf, envOwn

\* A namespace with another revision, and with another expiry.
Revised(s, x) == [s EXCEPT !.spec = x]
Expiring(s, x) == [s EXCEPT !.expiry = x]

\* Each is a namespace, and differs in that alone.
LEMMA Stamped ==
    ASSUME NEW s \in Spaces, NEW x \in EnvStamps
    PROVE  /\ Revised(s, x) \in Spaces /\ Revised(s, x).owner = s.owner
           /\ Revised(s, x).control = s.control /\ Revised(s, x).spec = x
           /\ Revised(s, x).expiry = s.expiry
           /\ Expiring(s, x) \in Spaces /\ Expiring(s, x).owner = s.owner
           /\ Expiring(s, x).control = s.control /\ Expiring(s, x).spec = s.spec
           /\ Expiring(s, x).expiry = x
<1>1. s = [owner |-> s.owner, control |-> s.control, spec |-> s.spec, expiry |-> s.expiry]
  BY DEF Spaces
<1>2. Revised(s, x)
        = [owner |-> s.owner, control |-> s.control, spec |-> x, expiry |-> s.expiry]
  BY <1>1 DEF Revised
<1>3. Expiring(s, x)
        = [owner |-> s.owner, control |-> s.control, spec |-> s.spec, expiry |-> x]
  BY <1>1 DEF Expiring
<1> QED BY <1>2, <1>3 DEF Spaces

\* A name that others took.
Squatted == [EnvNoSpace EXCEPT !.owner = "foreign"]

\* No namespace, and one that others took.
LEMMA SquattedSpace ==
    /\ EnvNoSpace \in Spaces /\ EnvNoSpace.owner = "none"
    /\ EnvNoSpace.spec = "none" /\ EnvNoSpace.expiry = "none"
    /\ Squatted \in Spaces /\ Squatted.owner = "foreign"
    /\ Squatted.spec = "none" /\ Squatted.expiry = "none"
BY DEF Spaces, EnvNoSpace, EnvStamps, Squatted

\* A claim leaves a namespace.
LEMMA Claims ==
    ASSUME NEW o \in Op, NEW c \in EnvControls
    PROVE  /\ EnvNoSpace \in Spaces
           /\ [owner |-> "us", control |-> c, spec |-> o, expiry |-> "none"] \in Spaces
BY DEF Spaces, EnvNoSpace, EnvStamps, Squatted

\* A fault leaves the budget within its bound.
LEMMA Budget ==
    ASSUME Typed, NEW kind, EnvFault(kind)
    PROVE  envLeft' \in 0..EnvBudget
BY EnvAssumption DEF EnvAssumption, Typed, EnvFault

\* Reconciling sets the revision of an own namespace.
LEMMA Reconciled ==
    ASSUME NEW o \in Op, EnvReconcile(o)
    PROVE  envSpace' = envSpace \/ (EnvMine(o) /\ envSpace' = Revised(envSpace, o))
BY Zenon DEF EnvReconcile, Revised

\* Renewing sets its expiry.
LEMMA Renewed ==
    ASSUME NEW o \in Op, EnvRenew(o)
    PROVE  envSpace' = envSpace \/ (EnvMine(o) /\ envSpace' = Expiring(envSpace, o))
BY Zenon DEF EnvRenew, Expiring

\* Annotating puts the planned expiry back.
LEMMA Annotates ==
    ASSUME NEW o \in Op, EnvAnnotate(o)
    PROVE  \/ envSpace' = envSpace
           \/ envSpace' = Expiring(envSpace, envPlan[o].space.expiry)
BY Zenon DEF EnvAnnotate, Expiring

\* Starting keeps the types.
LEMMA StartType == ASSUME Typed, NEW o \in Op, EnvStart(o) PROVE Typed'
<1>1. [space |-> envSpace, object |-> envObject] \in Plans
  BY DEF Typed, Plans
<1>2. envPlan' \in [Op -> Plans] /\ envHeld' \in [EnvControls -> SUBSET Op]
  BY <1>1 DEF EnvStart, Typed
<1>3. envPc' \in [Op -> Places]
  BY DEF EnvStart, Typed, Places, Deleting, Idle, EnvApplying
<1> QED BY <1>2, <1>3 DEF EnvStart, Typed

\* So do the steps of an apply.
LEMMA ApplyingType ==
    ASSUME Typed, NEW o \in Op,
           \/ EnvBeginRuntime(o) \/ EnvBeginExposure(o) \/ EnvClaim(o) \/ EnvApply(o)
           \/ EnvRollout(o) \/ EnvReconcile(o) \/ EnvProbe(o) \/ EnvRenew(o)
    PROVE  Typed'
<1> USE DEF Places, Undoing, EnvApplying, EnvCall
<1>1. CASE EnvBeginRuntime(o)
  BY <1>1 DEF EnvBeginRuntime, EnvBegin, Typed, EnvKinds, Capabilities
<1>2. CASE EnvBeginExposure(o)
  BY <1>2 DEF EnvBeginExposure, EnvBegin, Typed, EnvKinds, Capabilities
<1>3. CASE EnvClaim(o)
  <2>1. envSpace' \in Spaces
    BY <1>3, Claims DEF EnvClaim, Typed
  <2>2. envLeft' \in 0..EnvBudget
    BY <1>3, Budget DEF EnvClaim, Typed
  <2> QED BY <1>3, <2>1, <2>2 DEF EnvClaim, Typed
<1>4. CASE EnvApply(o)
  <2>2. envLeft' \in 0..EnvBudget
    BY <1>4, Budget DEF EnvApply, Typed
  <2>3. envObject' \in Objects
    BY <1>4 DEF EnvApply, Typed, Objects
  <2>4. envPc' \in [Op -> Places] /\ envTodo' \in [Op -> SUBSET EnvKinds]
    BY <1>4 DEF EnvApply, Typed, EnvKinds
  <2> QED BY <1>4, <2>2, <2>3, <2>4 DEF EnvApply, Typed
<1>5. CASE EnvRollout(o)
  BY <1>5, Budget DEF EnvRollout, Typed
<1>6. CASE EnvReconcile(o)
  <2>1. envSpace' \in Spaces
    BY <1>6, Reconciled, Stamped DEF Typed, EnvStamps
  <2>2. envLeft' \in 0..EnvBudget
    BY <1>6, Budget DEF EnvReconcile, Typed
  <2> QED BY <1>6, <2>1, <2>2 DEF EnvReconcile, Typed
<1>7. CASE EnvProbe(o)
  BY <1>7, Budget DEF EnvProbe, Typed, EnvKinds
<1>8. CASE EnvRenew(o)
  <2>1. envSpace' \in Spaces
    BY <1>8, Renewed, Stamped DEF Typed, EnvStamps
  <2>2. envLeft' \in 0..EnvBudget
    BY <1>8, Budget DEF EnvRenew, Typed
  <2> QED BY <1>8, <2>1, <2>2 DEF EnvRenew, Typed, Capabilities
<1> QED BY <1>1, <1>2, <1>3, <1>4, <1>5, <1>6, <1>7, <1>8

\* And those of a compensation.
LEMMA UndoingType ==
    ASSUME Typed, NEW o \in Op,
           \/ EnvUndoDns(o) \/ EnvAnnotate(o) \/ EnvAnnotated(o) \/ EnvUndoExposure(o)
           \/ EnvRestore(o) \/ EnvChange(o) \/ EnvUndoRuntime(o)
    PROVE  Typed'
<1> USE DEF Places, Undoing, EnvApplying, EnvCall, EnvAnswer, Capabilities
<1>1. CASE EnvUndoDns(o)
  BY <1>1, Budget DEF EnvUndoDns, Typed
<1>2. CASE EnvAnnotate(o)
  <2>1. envPlan[o].space.expiry \in EnvStamps
    BY DEF Typed, Plans, Spaces
  <2>2. envSpace' \in Spaces
    BY <1>2, <2>1, Annotates, Stamped DEF Typed
  <2>3. envLeft' \in 0..EnvBudget
    BY <1>2, Budget DEF EnvAnnotate, Typed
  <2> QED BY <1>2, <2>2, <2>3 DEF EnvAnnotate, Typed
<1>3. CASE EnvAnnotated(o)
  BY <1>3, Budget DEF EnvAnnotated, Typed
<1>4. CASE EnvUndoExposure(o)
  BY <1>4, Budget DEF EnvUndoExposure, Typed, EnvKinds
<1>5. CASE EnvRestore(o)
  BY <1>5, Budget DEF EnvRestore, EnvGiveUp, Typed
<1>6. CASE EnvChange(o)
  <2>1. envPlan[o].object \in Objects
    BY DEF Typed, Plans
  <2>2. envObject' \in Objects
    BY <1>6, <2>1 DEF EnvChange, EnvNext, Typed, Objects, EnvKinds, EnvRuntime, EnvExposure
  <2>3. envLeft' \in 0..EnvBudget
    BY <1>6, Budget DEF EnvChange, Typed
  <2> QED BY <1>6, <2>2, <2>3 DEF EnvChange, EnvGiveUp, Typed
<1>7. CASE EnvUndoRuntime(o)
  BY <1>7 DEF EnvUndoRuntime, Typed, Deleting
<1> QED BY <1>1, <1>2, <1>3, <1>4, <1>5, <1>6, <1>7

\* Those of a deletion, and the end of an operation.
LEMMA DeletingType ==
    ASSUME Typed, NEW o \in Op,
           EnvFind(o) \/ EnvDelete(o) \/ EnvVerify(o) \/ EnvFinish(o)
    PROVE  Typed'
<1> USE DEF Places, Deleting, Idle, EnvEnd
<1>1. CASE EnvFind(o)
  BY <1>1, Budget DEF EnvFind, Typed
<1>2. CASE EnvDelete(o)
  <2>1. envSpace' \in Spaces /\ envObject' \in Objects
    BY <1>2, Claims DEF EnvDelete, Typed, Objects, EnvEmpty
  <2>2. envLeft' \in 0..EnvBudget
    BY <1>2, Budget DEF EnvDelete, EnvCall, Typed
  <2> QED BY <1>2, <2>1, <2>2 DEF EnvDelete, Typed
<1>3. CASE EnvVerify(o)
  BY <1>3, Budget DEF EnvVerify, EnvAnswer, Typed, Capabilities
<1>4. CASE EnvFinish(o)
  BY <1>4 DEF EnvFinish, Typed
<1> QED BY <1>1, <1>2, <1>3, <1>4

\* And whatever disturbs them.
LEMMA DisturbType == ASSUME Typed, EnvDisturb PROVE Typed'
<1> USE DEF Places, Undoing, Idle
<1>1. ASSUME NEW o \in Op, EnvStop(o) PROVE Typed'
  BY <1>1, Budget DEF EnvStop, Typed
<1>2. ASSUME NEW o \in Op, EnvCancel(o) PROVE Typed'
  BY <1>2, Budget DEF EnvCancel, Typed
<1>3. ASSUME NEW o \in Op, EnvDie(o) PROVE Typed'
  BY <1>3, Budget DEF EnvDie, Typed
<1>4. ASSUME EnvSquat PROVE Typed'
  <2>1. envSpace' = Squatted
    BY <1>4, Zenon DEF EnvSquat, Squatted
  <2>2. envSpace' \in Spaces
    BY <2>1, SquattedSpace
  <2> QED BY <1>4, <2>2, Budget DEF EnvSquat, Typed
<1>5. ASSUME NEW k \in EnvExposure, EnvEdit(k) PROVE Typed'
  BY <1>5, Budget DEF EnvEdit, Typed, Objects
<1> QED BY <1>1, <1>2, <1>3, <1>4, <1>5 DEF EnvDisturb

------------------------------------------------------------------------------
(* The invariant.                                                          *)

Works(o) == envPc[o] \notin Idle

\* Who works holds the Lease of its control namespace, and holds it alone.
Leased ==
    /\ \A o \in Op : o \in envHeld[envControl[o]] <=> Works(o)
    /\ \A o, p \in Op : Works(o) /\ Works(p) /\ envControl[o] = envControl[p] => o = p

\* Where an operation can be, by its task and by what its plan saw.
Path(o) ==
    /\ envTask[o] = "down" => envPc[o] \in Idle \union Deleting \union {"again", "destroyed"}
    /\ envTask[o] = "up" =>
        /\ envPc[o] \notin {"again", "destroyed"}
        /\ envPc[o] \in Deleting => EnvFresh(o)
    /\ envPc[o] = "claim" => EnvFresh(o)
    /\ envPc[o] \in {"reconcile", "annotate", "annotated", "restore", "change"} => ~EnvFresh(o)

\* The namespace is that of an operation that has claimed it or found it, until
\* it deletes it.
Sure == {"apply", "rollout", "reconcile", "exposure", "probe", "dns", "restoreAtOnce",
         "changeAtOnce", "succeeded", "annotate", "annotated", "restore", "change", "delete"}
Owns(o) ==
    \/ envPc[o] \in Sure
    \/ Works(o) /\ ~EnvFresh(o) /\ envPc[o] \notin {"verify", "again", "destroyed"}
    => EnvMine(o)

\* Only an environment has an expiry and a revision.
Expires ==
    /\ envSpace.owner # "us" => envSpace.expiry = "none" /\ envSpace.spec = "none"
    /\ \A o \in Op : EnvFresh(o) => envPlan[o].space.expiry = "none"

\* Only an up compensates, its capabilities in their order.
Stages(o) ==
    /\ envTask[o] = "down" => envUndone[o] = {}
    /\ "Dns" \in envUndone[o] =>
        envPc[o] \in {"undoExposure", "restore", "change", "undoRuntime", "failed", "over"}
                     \union Deleting
    /\ "Exposure" \in envUndone[o] => envPc[o] \in {"undoRuntime", "failed", "over"} \union Deleting
    /\ "Runtime" \in envUndone[o] => envPc[o] \in {"failed", "over"}

\* Kinds that are as they were planned, but for what somebody edits.
Restored(o, kinds) == \A k \in kinds : envObject[k] \in {envPlan[o].object[k], "edited"}

\* What was compensated is as it was planned, the loop that restores an exposure
\* included.
Undid(o) ==
    Works(o) =>
        /\ EnvFresh(o) /\ "Runtime" \in envUndone[o] => envSpace.spec # o
        /\ ~EnvFresh(o) /\ "Exposure" \in envUndone[o] => Restored(o, EnvExposure)
        /\ envPc[o] \in {"restore", "change"} => Restored(o, EnvExposure \ envTodo[o])
        /\ ~EnvFresh(o) /\ "Dns" \in envUndone[o] => envSpace.expiry = envPlan[o].space.expiry
        /\ envPc[o] = "destroyed" => ~EnvMine(o)

IInv ==
    /\ Typed /\ Leased /\ Expires /\ EnvExpiryKept
    /\ \A o \in Op : Path(o) /\ Owns(o) /\ Stages(o) /\ Undid(o)

------------------------------------------------------------------------------
(* What a step does to the cluster.                                        *)

\* The namespace is claimed when there is none, revised, renewed, annotated or
\* deleted; else it stays.
LEMMA SpaceStep ==
    ASSUME NEW o \in Op, EnvStep(o)
    PROVE  \/ envSpace' = envSpace
           \/ /\ envPc[o] = "claim" /\ ~EnvThere
              /\ envSpace' = [owner |-> "us", control |-> envControl[o],
                              spec |-> o, expiry |-> "none"]
           \/ envPc[o] = "reconcile" /\ EnvMine(o) /\ envSpace' = Revised(envSpace, o)
           \/ envPc[o] = "dns" /\ EnvMine(o) /\ envSpace' = Expiring(envSpace, o)
           \/ /\ envPc[o] = "annotate"
              /\ envSpace' = Expiring(envSpace, envPlan[o].space.expiry)
           \/ envPc[o] = "delete" /\ envSpace' = EnvNoSpace
<1>1. CASE EnvStart(o)
  BY <1>1 DEF EnvStart
<1>2. CASE EnvBeginRuntime(o) \/ EnvBeginExposure(o)
  BY <1>2 DEF EnvBeginRuntime, EnvBeginExposure, EnvBegin
<1>3. CASE EnvClaim(o)
  BY <1>3 DEF EnvClaim
<1>4. CASE EnvApply(o) \/ EnvRollout(o) \/ EnvProbe(o)
  BY <1>4 DEF EnvApply, EnvRollout, EnvProbe
<1>5. CASE EnvReconcile(o)
  BY <1>5, Reconciled DEF EnvReconcile
<1>6. CASE EnvRenew(o)
  BY <1>6, Renewed DEF EnvRenew
<1>7. CASE EnvUndoDns(o) \/ EnvAnnotated(o) \/ EnvUndoExposure(o) \/ EnvUndoRuntime(o)
  BY <1>7 DEF EnvUndoDns, EnvAnnotated, EnvUndoExposure, EnvUndoRuntime
<1>8. CASE EnvAnnotate(o)
  BY <1>8, Annotates DEF EnvAnnotate
<1>9. CASE EnvRestore(o) \/ EnvChange(o)
  BY <1>9 DEF EnvRestore, EnvChange
<1>10. CASE EnvFind(o) \/ EnvVerify(o) \/ EnvFinish(o)
  BY <1>10 DEF EnvFind, EnvVerify, EnvFinish
<1>11. CASE EnvDelete(o)
  BY <1>11 DEF EnvDelete
<1> QED
  BY <1>1, <1>2, <1>3, <1>4, <1>5, <1>6, <1>7, <1>8, <1>9, <1>10, <1>11 DEF EnvStep

\* The objects are applied, restored or deleted with the namespace.
LEMMA ObjectStep ==
    ASSUME NEW o \in Op, EnvStep(o)
    PROVE  \/ envObject' = envObject
           \/ envPc[o] \in {"apply", "delete"} \union EnvChanging
<1>1. CASE EnvStart(o) \/ EnvBeginRuntime(o) \/ EnvBeginExposure(o) \/ EnvClaim(o)
  BY <1>1 DEF EnvStart, EnvBeginRuntime, EnvBeginExposure, EnvBegin, EnvClaim
<1>2. CASE EnvApply(o) \/ EnvChange(o) \/ EnvDelete(o)
  BY <1>2 DEF EnvApply, EnvChange, EnvDelete
<1>3. CASE EnvRollout(o) \/ EnvProbe(o) \/ EnvReconcile(o) \/ EnvRenew(o)
  BY <1>3 DEF EnvRollout, EnvProbe, EnvReconcile, EnvRenew
<1>4. CASE \/ EnvUndoDns(o) \/ EnvAnnotate(o) \/ EnvAnnotated(o) \/ EnvUndoExposure(o)
           \/ EnvUndoRuntime(o) \/ EnvRestore(o)
  BY <1>4 DEF EnvUndoDns, EnvAnnotate, EnvAnnotated, EnvUndoExposure, EnvUndoRuntime, EnvRestore
<1>5. CASE EnvFind(o) \/ EnvVerify(o) \/ EnvFinish(o)
  BY <1>5 DEF EnvFind, EnvVerify, EnvFinish
<1> QED BY <1>1, <1>2, <1>3, <1>4, <1>5 DEF EnvStep

\* An operation changes only a namespace of its own, or claims a free name.
LEMMA OwnChange ==
    ASSUME NEW o \in Op, Owns(o), EnvStep(o), <<envSpace, envObject>>' # <<envSpace, envObject>>
    PROVE  /\ Works(o)
           /\ EnvMine(o) \/ (envPc[o] = "claim" /\ ~EnvThere)
<1>1. envSpace' # envSpace => envPc[o] \in {"claim", "reconcile", "dns", "annotate", "delete"}
  BY SpaceStep
<1>2. envObject' # envObject => envPc[o] \in {"apply", "delete"} \union EnvChanging
  BY ObjectStep
<1>3. envPc[o] = "claim" /\ EnvThere => UNCHANGED <<envSpace, envObject>>
  BY SpaceStep, ObjectStep DEF EnvChanging
<1> QED BY <1>1, <1>2, <1>3 DEF Owns, Sure, Works, Idle, EnvChanging

------------------------------------------------------------------------------
(* One operation and the others.                                           *)

\* A step leaves what the other operations know.
LEMMA Apart ==
    ASSUME Typed, NEW o \in Op, EnvStep(o)
    PROVE  /\ UNCHANGED <<envControl, envTask>>
           /\ envPlan' = envPlan \/ envPc[o] = "start"
           /\ \A p \in Op \ {o} :
                /\ envPc'[p] = envPc[p] /\ envPlan'[p] = envPlan[p] /\ envTodo'[p] = envTodo[p]
                /\ envRan'[p] = envRan[p] /\ envUndone'[p] = envUndone[p]
<1> USE DEF Typed
<1>1. CASE EnvStart(o)
  BY <1>1 DEF EnvStart
<1>2. CASE EnvBeginRuntime(o) \/ EnvBeginExposure(o) \/ EnvClaim(o)
  BY <1>2 DEF EnvBeginRuntime, EnvBeginExposure, EnvBegin, EnvClaim
<1>3. CASE EnvApply(o)
  BY <1>3 DEF EnvApply
<1>4. CASE EnvRollout(o) \/ EnvReconcile(o) \/ EnvProbe(o) \/ EnvRenew(o)
  BY <1>4 DEF EnvRollout, EnvReconcile, EnvProbe, EnvRenew
<1>5. CASE EnvUndoDns(o) \/ EnvAnnotate(o) \/ EnvAnnotated(o) \/ EnvUndoExposure(o)
  BY <1>5 DEF EnvUndoDns, EnvAnnotate, EnvAnnotated, EnvUndoExposure, EnvAnswer
<1>6. CASE EnvUndoRuntime(o) \/ EnvRestore(o) \/ EnvChange(o)
  BY <1>6 DEF EnvUndoRuntime, EnvRestore, EnvChange, EnvAnswer, EnvGiveUp
<1>7. CASE EnvFind(o) \/ EnvDelete(o) \/ EnvVerify(o) \/ EnvFinish(o)
  BY <1>7 DEF EnvFind, EnvDelete, EnvVerify, EnvAnswer, EnvFinish
<1> QED BY <1>1, <1>2, <1>3, <1>4, <1>5, <1>6, <1>7 DEF EnvStep

\* The Lease is taken with the first step of an operation and released with its
\* last, and no step in between moves it.
Takes(o) ==
    /\ ~Works(o) /\ Works(o)' /\ envHeld[envControl[o]] = {}
    /\ envHeld' = [envHeld EXCEPT ![envControl[o]] = {o}]
Releases(o) ==
    /\ Works(o) /\ ~Works(o)'
    /\ envHeld' = [envHeld EXCEPT ![envControl[o]] = {}]
Keeps(o) == envHeld' = envHeld /\ (Works(o)' <=> Works(o))

\* Every step does one of the three.
LEMMA LeaseStep ==
    ASSUME Typed, NEW o \in Op, EnvStep(o)
    PROVE  Takes(o) \/ Releases(o) \/ Keeps(o)
<1> USE DEF Typed, Works, Idle
<1>1. CASE EnvStart(o)
  BY <1>1 DEF EnvStart, Takes, Keeps
<1>2. CASE EnvBeginRuntime(o) \/ EnvBeginExposure(o) \/ EnvClaim(o)
  BY <1>2 DEF EnvBeginRuntime, EnvBeginExposure, EnvBegin, EnvClaim, Keeps
<1>3. CASE EnvApply(o)
  BY <1>3 DEF EnvApply, Keeps
<1>4. CASE EnvRollout(o) \/ EnvReconcile(o) \/ EnvProbe(o) \/ EnvRenew(o)
  BY <1>4 DEF EnvRollout, EnvReconcile, EnvProbe, EnvRenew, Keeps
<1>5. CASE EnvUndoDns(o) \/ EnvAnnotate(o) \/ EnvAnnotated(o) \/ EnvUndoExposure(o)
  BY <1>5 DEF EnvUndoDns, EnvAnnotate, EnvAnnotated, EnvUndoExposure, EnvAnswer, Keeps
<1>6. CASE EnvUndoRuntime(o) \/ EnvRestore(o) \/ EnvChange(o)
  BY <1>6
  DEF EnvUndoRuntime, EnvRestore, EnvRestoring, EnvChange, EnvChanging, EnvAnswer, EnvGiveUp, Keeps
<1>7. CASE EnvFind(o) \/ EnvDelete(o) \/ EnvVerify(o)
  BY <1>7 DEF EnvFind, EnvDelete, EnvVerify, EnvAnswer, EnvEnd, Keeps
<1>8. CASE EnvFinish(o)
  BY <1>8 DEF EnvFinish, Releases
<1> QED BY <1>1, <1>2, <1>3, <1>4, <1>5, <1>6, <1>7, <1>8 DEF EnvStep

\* Each of the three keeps a Lease to one holder.
LEMMA StaysLeased ==
    ASSUME Typed, Leased, NEW o \in Op, Takes(o) \/ Releases(o) \/ Keeps(o),
           UNCHANGED envControl, \A p \in Op \ {o} : envPc'[p] = envPc[p]
    PROVE  Leased'
<1>1. \A p \in Op \ {o} : Works(p)' <=> Works(p)
  BY DEF Works
<1>2. \A p \in Op : envControl[p] \in EnvControls
  BY DEF Typed
<1>3. CASE Takes(o)
  BY <1>1, <1>2, <1>3 DEF Leased, Takes, Typed
<1>4. CASE Releases(o)
  BY <1>1, <1>2, <1>4 DEF Leased, Releases, Typed
<1>5. CASE Keeps(o)
  BY <1>1, <1>5 DEF Leased, Keeps
<1> QED BY <1>3, <1>4, <1>5

\* While an operation works, no other makes, changes or takes its namespace.
LEMMA Undisturbed ==
    ASSUME Typed, Leased, NEW o \in Op, Owns(o), EnvStep(o), NEW p \in Op, p # o, Works(p)
    PROVE  /\ EnvMine(p) => UNCHANGED <<envSpace, envObject>>
           /\ ~EnvMine(p) => ~EnvMine(p)'
<1>1. Works(o) => envControl[o] # envControl[p]
  BY DEF Leased
<1>2. ASSUME EnvMine(p) PROVE UNCHANGED <<envSpace, envObject>>
  BY <1>1, <1>2, OwnChange DEF EnvMine, EnvThere
<1>3. ASSUME ~EnvMine(p) PROVE ~EnvMine(p)'
  <2>1. CASE envSpace' = envSpace
    BY <1>3, <2>1, Apart DEF EnvMine
  <2>2. CASE envSpace' # envSpace
    <3>1. Works(o) /\ envControl[o] # envControl[p]
      BY <1>1, <2>2, OwnChange
    <3>2. envSpace'.owner = "us" => envSpace'.control = envControl[o]
      <4>1. /\ envSpace \in Spaces /\ o \in EnvStamps /\ envPlan[o].space.expiry \in EnvStamps
        BY DEF Typed, Plans, Spaces, EnvStamps
      <4>2. envPc[o] \in {"reconcile", "dns", "annotate"} => EnvMine(o)
        BY DEF Owns, Sure
      <4>3. ASSUME NEW x \in EnvStamps
            PROVE  /\ Revised(envSpace, x).owner = envSpace.owner
                   /\ Revised(envSpace, x).control = envSpace.control
                   /\ Expiring(envSpace, x).owner = envSpace.owner
                   /\ Expiring(envSpace, x).control = envSpace.control
        BY <4>1, Stamped
      <4>4. CASE envSpace' = [owner |-> "us", control |-> envControl[o],
                              spec |-> o, expiry |-> "none"]
        BY <4>4
      <4>5. CASE envSpace' = EnvNoSpace
        BY <4>5, SquattedSpace
      <4> QED BY <2>2, <4>1, <4>2, <4>3, <4>4, <4>5, SpaceStep DEF EnvMine
    <3> QED BY <3>1, <3>2, Apart DEF EnvMine
  <2> QED BY <2>1, <2>2
<1> QED BY <1>2, <1>3

------------------------------------------------------------------------------
(* What a step keeps for the operation that takes it.                      *)

\* Its way: claim is for an environment that was absent, delete and verify for
\* that or for a down.
LEMMA PathStep ==
    ASSUME Typed, NEW o \in Op, Path(o), EnvStep(o)
    PROVE  Path(o)'
<1> USE EnvAssumption DEF EnvAssumption, Typed, Path, EnvFresh, Idle, Deleting
<1>1. CASE EnvStart(o)
  BY <1>1 DEF EnvStart
<1>2. CASE EnvBeginRuntime(o) \/ EnvBeginExposure(o) \/ EnvClaim(o)
  BY <1>2 DEF EnvBeginRuntime, EnvBeginExposure, EnvBegin, EnvClaim
<1>3. CASE EnvApply(o)
  BY <1>3 DEF EnvApply
<1>4. CASE EnvRollout(o) \/ EnvReconcile(o) \/ EnvProbe(o) \/ EnvRenew(o)
  BY <1>4 DEF EnvRollout, EnvReconcile, EnvProbe, EnvRenew
<1>5. CASE EnvUndoDns(o) \/ EnvAnnotate(o) \/ EnvAnnotated(o) \/ EnvUndoExposure(o)
  BY <1>5 DEF EnvUndoDns, EnvAnnotate, EnvAnnotated, EnvUndoExposure, EnvAnswer
<1>6. CASE EnvUndoRuntime(o) \/ EnvRestore(o) \/ EnvChange(o)
  BY <1>6 DEF EnvUndoRuntime, EnvRestore, EnvRestoring, EnvChange, EnvChanging, EnvAnswer,
              EnvGiveUp, EnvAtOnce
<1>7. CASE EnvFind(o) \/ EnvDelete(o) \/ EnvVerify(o)
  BY <1>7 DEF EnvFind, EnvDelete, EnvVerify, EnvAnswer, EnvEnd
<1>8. CASE EnvFinish(o)
  BY <1>8 DEF EnvFinish
<1> QED BY <1>1, <1>2, <1>3, <1>4, <1>5, <1>6, <1>7, <1>8 DEF EnvStep

\* Its order: a capability counts as undone only past its own compensation.
LEMMA StagesStep ==
    ASSUME Typed, NEW o \in Op, Path(o), Stages(o), EnvStep(o)
    PROVE  Stages(o)'
<1> USE DEF Typed, Stages, Path, Idle, Deleting
<1>1. CASE EnvStart(o)
  BY <1>1 DEF EnvStart
<1>2. CASE EnvBeginRuntime(o) \/ EnvBeginExposure(o) \/ EnvClaim(o)
  BY <1>2 DEF EnvBeginRuntime, EnvBeginExposure, EnvBegin, EnvClaim
<1>3. CASE EnvApply(o)
  BY <1>3 DEF EnvApply
<1>4. CASE EnvRollout(o) \/ EnvReconcile(o) \/ EnvProbe(o) \/ EnvRenew(o)
  BY <1>4 DEF EnvRollout, EnvReconcile, EnvProbe, EnvRenew
<1>5. CASE EnvUndoDns(o) \/ EnvAnnotate(o) \/ EnvAnnotated(o) \/ EnvUndoExposure(o)
  BY <1>5 DEF EnvUndoDns, EnvAnnotate, EnvAnnotated, EnvUndoExposure, EnvAnswer
<1>6. CASE EnvUndoRuntime(o) \/ EnvRestore(o) \/ EnvChange(o)
  BY <1>6 DEF EnvUndoRuntime, EnvRestore, EnvRestoring, EnvChange, EnvChanging, EnvAnswer,
              EnvGiveUp, EnvAtOnce
<1>7. CASE EnvFind(o) \/ EnvDelete(o) \/ EnvVerify(o)
  <2>1. envTask[o] \in {"up", "down"}
    BY EnvAssumption DEF EnvAssumption
  <2> QED BY <1>7, <2>1 DEF EnvFind, EnvDelete, EnvVerify, EnvAnswer, EnvEnd
<1>8. CASE EnvFinish(o)
  BY <1>8 DEF EnvFinish
<1> QED BY <1>1, <1>2, <1>3, <1>4, <1>5, <1>6, <1>7, <1>8 DEF EnvStep

\* Only its own deletion takes a namespace from an operation.
LEMMA StillMine ==
    ASSUME Typed, NEW o \in Op, EnvStep(o), EnvMine(o), envPc[o] # "delete"
    PROVE  EnvMine(o)'
<1>1. /\ envSpace \in Spaces /\ o \in EnvStamps /\ envPlan[o].space.expiry \in EnvStamps
  BY DEF Typed, Plans, Spaces, EnvStamps
<1>2. ASSUME NEW x \in EnvStamps
      PROVE  /\ Revised(envSpace, x).owner = envSpace.owner
             /\ Revised(envSpace, x).control = envSpace.control
             /\ Expiring(envSpace, x).owner = envSpace.owner
             /\ Expiring(envSpace, x).control = envSpace.control
  BY <1>1, Stamped
<1>3. envSpace'.owner = envSpace.owner /\ envSpace'.control = envSpace.control
  BY <1>1, <1>2, SpaceStep DEF EnvMine, EnvThere
<1> QED BY <1>3, Apart DEF EnvMine

\* Its authority: what it goes on with is its own.
LEMMA OwnsStep ==
    ASSUME Typed, NEW o \in Op, Path(o), Owns(o), EnvStep(o)
    PROVE  Owns(o)'
<1> USE DEF Typed, Owns, Sure, Works, Idle
<1>1. CASE EnvStart(o)
  <2>1. envSpace.owner \in {"none", "us", "foreign"}
    BY DEF Typed, Spaces
  <2>2. envPlan'[o].space = envSpace \/ ~Works(o)'
    BY <1>1 DEF EnvStart
  <2>3. EnvFresh(o)' \/ ~Works(o)' \/ EnvMine(o)'
    BY <1>1, <2>1, <2>2 DEF EnvStart, EnvPlannable, EnvUndisputed, EnvFresh, EnvMine
  <2> QED BY <1>1, <2>3 DEF EnvStart
<1>a. ~EnvStart(o) => (EnvFresh(o)' <=> EnvFresh(o)) /\ envPc[o] # "start"
  <2>1. CASE envPc[o] = "start"
    BY <2>1
    DEF EnvStep, EnvBeginRuntime, EnvBeginExposure, EnvClaim, EnvApply, EnvRollout, EnvReconcile,
        EnvProbe, EnvRenew, EnvUndoDns, EnvAnnotate, EnvAnnotated, EnvUndoExposure, EnvRestore,
        EnvRestoring, EnvChange, EnvChanging, EnvUndoRuntime, EnvFind, EnvDelete, EnvVerify,
        EnvFinish
  <2> QED BY <2>1, Apart DEF EnvFresh
<1>b. EnvMine(o) /\ envPc[o] # "delete" => EnvMine(o)'
  BY StillMine
<1>2. CASE EnvBeginRuntime(o) \/ EnvBeginExposure(o)
  BY <1>2, <1>a, <1>b DEF EnvBeginRuntime, EnvBeginExposure, EnvBegin, EnvStart
<1>3. CASE EnvClaim(o)
  BY <1>3, <1>a, <1>b DEF EnvClaim, EnvClaimed, EnvMine, EnvStart, Path
<1>4. CASE EnvApply(o)
  BY <1>4, <1>a, <1>b DEF EnvApply, EnvStart
<1>5. CASE EnvRollout(o) \/ EnvReconcile(o) \/ EnvProbe(o) \/ EnvRenew(o)
  BY <1>5, <1>a, <1>b DEF EnvRollout, EnvReconcile, EnvProbe, EnvRenew, EnvStart
<1>6. CASE EnvUndoDns(o) \/ EnvAnnotate(o) \/ EnvAnnotated(o) \/ EnvUndoExposure(o)
  BY <1>6, <1>a, <1>b
  DEF EnvUndoDns, EnvAnnotate, EnvAnnotated, EnvUndoExposure, EnvAnswer, EnvStart
<1>7. CASE EnvUndoRuntime(o) \/ EnvRestore(o) \/ EnvChange(o)
  BY <1>7, <1>a, <1>b
  DEF EnvUndoRuntime, EnvRestore, EnvRestoring, EnvChange, EnvChanging, EnvAnswer, EnvGiveUp,
      EnvAtOnce, EnvStart
<1>8. CASE EnvFind(o) \/ EnvDelete(o) \/ EnvVerify(o)
  <2>1. envTask[o] \in {"up", "down"}
    BY EnvAssumption DEF EnvAssumption
  <2>2. envTask[o] = "up" => EnvFresh(o)
    BY <1>8 DEF Path, Deleting, EnvFind, EnvDelete, EnvVerify
  <2> QED
    BY <1>8, <1>a, <1>b, <2>1, <2>2 DEF EnvFind, EnvDelete, EnvVerify, EnvAnswer, EnvEnd, EnvStart
<1>9. CASE EnvFinish(o)
  BY <1>9 DEF EnvFinish
<1> QED BY <1>1, <1>2, <1>3, <1>4, <1>5, <1>6, <1>7, <1>8, <1>9 DEF EnvStep

\* What a namespace may become under a step, field by field.
LEMMA ExpiryStep ==
    ASSUME Typed, Expires, NEW o \in Op, Owns(o), EnvStep(o)
    PROVE  \/ envSpace'.owner # "us" /\ envSpace'.expiry = "none" /\ envSpace'.spec = "none"
           \/ envPc[o] = "claim" /\ envSpace'.owner = "us"
           \/ /\ EnvMine(o) /\ envSpace'.owner = "us"
              /\ envSpace'.expiry \in {envSpace.expiry, o, envPlan[o].space.expiry}
              /\ envPc[o] \notin {"dns", "annotate"} => envSpace'.expiry = envSpace.expiry
              /\ envPc[o] = "annotate" =>
                    envSpace' = envSpace \/ envSpace'.expiry = envPlan[o].space.expiry
              /\ envPc[o] = "dns" => envSpace' = envSpace \/ envSpace'.expiry = o
           \/ envSpace' = envSpace
<1>1. /\ envSpace \in Spaces /\ o \in EnvStamps /\ envPlan[o].space.expiry \in EnvStamps
  BY DEF Typed, Plans, Spaces, EnvStamps
<1>2. envPc[o] \in {"reconcile", "dns", "annotate"} => EnvMine(o)
  BY DEF Owns, Sure
<1>3. ASSUME NEW x \in EnvStamps
      PROVE  /\ Revised(envSpace, x).owner = envSpace.owner
             /\ Revised(envSpace, x).expiry = envSpace.expiry
             /\ Expiring(envSpace, x).owner = envSpace.owner
             /\ Expiring(envSpace, x).expiry = x
  BY <1>1, Stamped
<1>4. CASE envSpace' = [owner |-> "us", control |-> envControl[o], spec |-> o, expiry |-> "none"]
           /\ envPc[o] = "claim"
  BY <1>4
<1>5. CASE envSpace' = EnvNoSpace
  BY <1>5, SquattedSpace
<1>6. CASE envPc[o] = "reconcile" /\ envSpace' = Revised(envSpace, o)
  BY <1>1, <1>2, <1>3, <1>6 DEF EnvMine
<1>7. CASE envPc[o] = "dns" /\ envSpace' = Expiring(envSpace, o)
  BY <1>1, <1>2, <1>3, <1>7 DEF EnvMine
<1>8. CASE envPc[o] = "annotate" /\ envSpace' = Expiring(envSpace, envPlan[o].space.expiry)
  BY <1>1, <1>2, <1>3, <1>8 DEF EnvMine
<1> QED BY <1>4, <1>5, <1>6, <1>7, <1>8, SpaceStep

\* A plan is made when an operation starts.
LEMMA Planned ==
    ASSUME Typed, NEW o \in Op, EnvStep(o)
    PROVE  \/ envPlan' = envPlan /\ (Works(o)' => Works(o))
           \/ /\ envPc[o] = "start" /\ envSpace' = envSpace /\ envObject' = envObject
              /\ envPlan'[o].space = envSpace
              /\ \A p \in Op \ {o} : envPlan'[p] = envPlan[p]
<1>1. CASE EnvStart(o)
  <2>1. CASE EnvPlannable(o)
    BY <1>1, <2>1 DEF EnvStart, Typed
  <2>2. CASE ~EnvPlannable(o)
    BY <1>1, <2>2 DEF EnvStart, Typed, Works, Idle
  <2> QED BY <2>1, <2>2
<1>2. CASE ~EnvStart(o)
  <2>1. envPc[o] # "start" /\ envPc[o] \notin Idle
    BY <1>2
    DEF EnvStep, EnvBeginRuntime, EnvBeginExposure, EnvClaim, EnvApply, EnvRollout, EnvReconcile,
        EnvProbe, EnvRenew, EnvUndoDns, EnvAnnotate, EnvAnnotated, EnvUndoExposure, EnvRestore,
        EnvRestoring, EnvChange, EnvChanging, EnvUndoRuntime, EnvFind, EnvDelete, EnvVerify,
        EnvFinish, Idle
  <2> QED BY <2>1, Apart DEF Works
<1> QED BY <1>1, <1>2

\* Only an environment has an expiry, and a plan is of what there was.
LEMMA ExpiresStep ==
    ASSUME Typed, Expires, NEW o \in Op, Path(o), Owns(o), EnvStep(o)
    PROVE  Expires'
<1>1. envSpace'.owner # "us" => envSpace'.expiry = "none" /\ envSpace'.spec = "none"
  BY ExpiryStep DEF Expires
<1>2. \A p \in Op : EnvFresh(p)' => envPlan'[p].space.expiry = "none"
  BY Planned DEF Expires, EnvFresh
<1> QED BY <1>1, <1>2 DEF Expires

\* Its expiry, and that of every other operation's environment.
LEMMA ExpiryKeptStep ==
    ASSUME Typed, Leased, Leased', Expires, EnvExpiryKept,
           NEW o \in Op, Path(o), Owns(o), EnvStep(o)
    PROVE  EnvExpiryKept'
<1> SUFFICES ASSUME NEW p \in Op, Works(p)', envPlan'[p].space.expiry # "none", EnvMine(p)'
             PROVE  envSpace'.expiry # "none"
  BY DEF EnvExpiryKept, Leased
<1>1. CASE p # o
  <2>1. Works(p) /\ envPlan'[p] = envPlan[p] /\ EnvMine(p)
    BY <1>1, Apart, Undisturbed DEF Works
  <2> QED BY <1>1, <2>1, Undisturbed DEF EnvExpiryKept, Leased
<1>2. CASE p = o
  <2>1. CASE envPlan' = envPlan /\ Works(o)
    <3>1. envPc[o] # "claim"
      BY <1>2, <2>1 DEF Path, Expires
    <3>2. o # "none"
      BY EnvAssumption DEF EnvAssumption
    <3>3. EnvMine(o) => envSpace.expiry # "none"
      BY <1>2, <2>1 DEF EnvExpiryKept, Leased
    <3>4. envSpace' = envSpace => EnvMine(o)
      BY <1>2, Apart DEF EnvMine
    <3>5. envSpace'.owner = "us"
      BY DEF EnvMine
    <3> QED BY <1>2, <2>1, <3>1, <3>2, <3>3, <3>4, <3>5, ExpiryStep
  <2>2. CASE ~(envPlan' = envPlan /\ Works(o))
    BY <1>2, <2>2, Planned
  <2> QED BY <2>1, <2>2
<1> QED BY <1>1, <1>2

\* Its compensation: what it counts as undone is as it was planned.
LEMMA UndidStep ==
    ASSUME Typed, Expires, NEW o \in Op, Path(o), Owns(o), Stages(o), Undid(o), EnvStep(o)
    PROVE  Undid(o)'
<1> USE DEF Typed, Undid
<1>a. envTask[o] \in {"up", "down"}
  BY EnvAssumption DEF EnvAssumption
<1>1. CASE EnvStart(o)
  <2>1. envUndone'[o] = {}
    BY <1>1 DEF EnvStart, Stages, Deleting, Capabilities
  <2>2. envPc'[o] \notin {"restore", "change"} /\ (envPc'[o] = "destroyed" => ~EnvThere)
    BY <1>1 DEF EnvStart
  <2>3. ~EnvThere => ~EnvMine(o)'
    BY <1>1 DEF EnvStart, EnvThere, EnvMine
  <2> QED BY <2>1, <2>2, <2>3
<1>b. ~EnvStart(o) => envPlan' = envPlan /\ Works(o)
  BY Apart
  DEF EnvStep, EnvBeginRuntime, EnvBeginExposure, EnvClaim, EnvApply, EnvRollout, EnvReconcile,
      EnvProbe, EnvRenew, EnvUndoDns, EnvAnnotate, EnvAnnotated, EnvUndoExposure, EnvRestore,
      EnvRestoring, EnvChange, EnvChanging, EnvUndoRuntime, EnvFind, EnvDelete, EnvVerify,
      EnvFinish, Works, Idle
<1>2. CASE \/ EnvBeginRuntime(o) \/ EnvBeginExposure(o) \/ EnvClaim(o) \/ EnvApply(o)
           \/ EnvRollout(o) \/ EnvReconcile(o) \/ EnvProbe(o) \/ EnvRenew(o)
  <2>1. envPc[o] \in EnvApplying
    BY <1>2
    DEF EnvBeginRuntime, EnvBeginExposure, EnvClaim, EnvApply, EnvRollout, EnvReconcile, EnvProbe,
        EnvRenew, EnvApplying
  <2>2. envUndone[o] = {}
    BY <2>1 DEF Stages, EnvApplying, Deleting, Capabilities
  <2>3. envUndone' = envUndone
    BY <1>2
    DEF EnvBeginRuntime, EnvBeginExposure, EnvBegin, EnvClaim, EnvApply, EnvRollout, EnvReconcile,
        EnvProbe, EnvRenew
  <2>4. envPc'[o] \notin {"restore", "change", "destroyed"}
    <3>1. CASE EnvApply(o)
      BY <3>1 DEF EnvApply
    <3>2. CASE EnvClaim(o)
      BY <3>2 DEF EnvClaim
    <3> QED
      BY <1>2, <3>1, <3>2
      DEF EnvBeginRuntime, EnvBeginExposure, EnvBegin, EnvRollout, EnvReconcile, EnvProbe, EnvRenew
  <2> QED BY <2>2, <2>3, <2>4
<1>3. CASE EnvUndoDns(o) \/ EnvAnnotated(o)
  <2>1. UNCHANGED <<envSpace, envObject>>
    BY <1>3 DEF EnvUndoDns, EnvAnnotated
  <2>2. EnvFresh(o)' <=> EnvFresh(o)
    BY <1>3, <1>b DEF EnvStart, EnvUndoDns, EnvAnnotated, EnvFresh
  <2>3. "Runtime" \notin envUndone'[o] /\ "Exposure" \notin envUndone'[o]
    BY <1>3 DEF EnvUndoDns, EnvAnnotated, EnvAnswer, Stages, Deleting
  <2>4. envPc'[o] \notin {"restore", "change", "destroyed"}
    BY <1>3 DEF EnvUndoDns, EnvAnnotated, EnvAnswer
  <2>5. "Dns" \in envUndone'[o] /\ ~EnvFresh(o) => envSpace.expiry = envPlan[o].space.expiry
    BY <1>3 DEF EnvUndoDns, EnvAnnotated, EnvAnswer, Stages, Deleting
  <2>6. envPlan' = envPlan
    BY <1>3 DEF EnvUndoDns, EnvAnnotated
  <2> QED BY <2>1, <2>2, <2>3, <2>4, <2>5, <2>6
<1>4. CASE EnvAnnotate(o)
  <2>1. envUndone[o] = {} /\ envUndone' = envUndone
    BY <1>4 DEF EnvAnnotate, Stages, Deleting, Capabilities
  <2>2. envPc'[o] \notin {"restore", "change", "destroyed"}
    BY <1>4 DEF EnvAnnotate
  <2> QED BY <2>1, <2>2
<1>5. CASE EnvUndoExposure(o)
  <2>1. UNCHANGED <<envSpace, envObject, envPlan>>
    BY <1>5 DEF EnvUndoExposure
  <2>2. "Runtime" \notin envUndone'[o] /\ ("Exposure" \in envUndone'[o] => EnvFresh(o))
    BY <1>5 DEF EnvUndoExposure, EnvAnswer, Stages, Deleting
  <2>3. "Dns" \in envUndone'[o] => "Dns" \in envUndone[o]
    BY <1>5 DEF EnvUndoExposure, EnvAnswer
  <2>4. /\ envPc'[o] # "destroyed"
        /\ envPc'[o] \in {"restore", "change"} => envTodo'[o] = EnvExposure
    BY <1>5 DEF EnvUndoExposure, EnvAnswer
  <2>5. (EnvFresh(o)' <=> EnvFresh(o)) /\ Works(o)
    BY <1>5, <2>1 DEF EnvFresh, EnvUndoExposure, Works, Idle
  <2> QED BY <2>1, <2>2, <2>3, <2>4, <2>5 DEF Restored
<1>6. CASE EnvUndoRuntime(o)
  <2>1. UNCHANGED <<envSpace, envObject, envPlan, envUndone>> /\ Works(o)
    BY <1>6 DEF EnvUndoRuntime, Works, Idle
  <2>2. envPc'[o] \notin {"restore", "change", "destroyed"}
    BY <1>6 DEF EnvUndoRuntime
  <2> QED BY <2>1, <2>2 DEF EnvFresh, Restored

<1>7. CASE EnvRestore(o)
  <2>2. UNCHANGED <<envSpace, envObject, envPlan>> /\ Works(o) /\ envPc'[o] # "destroyed"
    BY <1>7 DEF EnvRestore, EnvRestoring, EnvAnswer, EnvGiveUp, Works, Idle
  <2>3. "Runtime" \notin envUndone'[o] /\ ("Dns" \in envUndone'[o] => "Dns" \in envUndone[o])
    BY <1>7 DEF EnvRestore, EnvRestoring, EnvAnswer, EnvGiveUp, Stages, Deleting
  <2>4. "Exposure" \in envUndone'[o] => envPc[o] = "restore" /\ envTodo[o] = {}
    BY <1>7 DEF EnvRestore, EnvRestoring, EnvAnswer, EnvGiveUp, EnvAtOnce, Stages, Deleting
  <2>5. envPc[o] = "restore" => Restored(o, EnvExposure \ envTodo[o])
    BY <2>2
  <2>6. envPc'[o] \in {"restore", "change"} =>
          /\ envPc[o] = "restore"
          /\ \/ envTodo'[o] = envTodo[o]
             \/ \E k : envTodo'[o] = envTodo[o] \ {k} /\ envObject[k] = envPlan[o].object[k]
    <3>1. CASE envTodo' = envTodo
      BY <1>7, <3>1
      DEF EnvRestore, EnvRestoring, EnvAnswer, EnvGiveUp, EnvAtOnce
    <3>2. CASE envTodo[o] # {} /\ EnvUndisputed(o) /\ EnvNeed(o, EnvNext(o)) = "nothing"
               /\ envTodo' = [envTodo EXCEPT ![o] = @ \ {EnvNext(o)}] /\ envPc' = envPc
      <4>1. envObject[EnvNext(o)] = envPlan[o].object[EnvNext(o)]
        BY <3>2 DEF EnvNeed
      <4> QED BY <1>7, <3>2, <4>1 DEF EnvRestore, EnvRestoring
    <3>3. CASE envPc'[o] \notin {"restore", "change"}
      BY <3>3
    <3> QED
      BY <1>7, <3>1, <3>2, <3>3
      DEF EnvRestore, EnvRestoring, EnvAnswer, EnvGiveUp, EnvAtOnce
  <2>7. envPc'[o] \in {"restore", "change"} => Restored(o, EnvExposure \ envTodo'[o])
    BY <2>5, <2>6 DEF Restored
  <2>8. Restored(o, EnvExposure)' <=> Restored(o, EnvExposure)
    BY <2>2 DEF Restored
  <2>9. Restored(o, EnvExposure \ envTodo[o])' <=> Restored(o, EnvExposure \ envTodo'[o])
    BY <2>2 DEF Restored
  <2>10. envTodo[o] = {} => EnvExposure \ envTodo[o] = EnvExposure
    OBVIOUS
  <2>11. EnvFresh(o)' <=> EnvFresh(o)
    BY <2>2 DEF EnvFresh
  <2> QED BY <2>2, <2>3, <2>4, <2>5, <2>7, <2>8, <2>9, <2>10, <2>11
<1>8. CASE EnvChange(o)
  <2>1. UNCHANGED <<envSpace, envPlan, envUndone>> /\ Works(o)
    BY <1>8 DEF EnvChange, EnvChanging, Works, Idle
  <2>2. "Runtime" \notin envUndone[o] /\ "Exposure" \notin envUndone[o]
    BY <1>8 DEF EnvChange, EnvChanging, Stages, Deleting
  <2>3. envPc'[o] # "destroyed"
    BY <1>8 DEF EnvChange, EnvChanging, EnvGiveUp
  <2>4. envPc'[o] \in {"restore", "change"} => envPc[o] = "change" /\ envTodo' = envTodo
    BY <1>8 DEF EnvChange, EnvChanging, EnvGiveUp, EnvAtOnce
  <2>5. \A k \in EnvExposure : envObject'[k] \in {envObject[k], envPlan[o].object[k]}
    BY <1>8 DEF EnvChange, Objects, EnvKinds
  <2>6. envPc[o] = "change" /\ envTodo' = envTodo => Restored(o, EnvExposure \ envTodo[o])'
    BY <2>1, <2>5 DEF Restored
  <2>7. EnvFresh(o)' <=> EnvFresh(o)
    BY <2>1 DEF EnvFresh
  <2> QED BY <2>1, <2>2, <2>3, <2>4, <2>6, <2>7
<1>9. CASE EnvFind(o) \/ EnvDelete(o)
  <2>1. UNCHANGED <<envPlan, envUndone>> /\ Works(o)
    BY <1>9 DEF EnvFind, EnvDelete, Works, Idle
  <2>2. EnvFresh(o) \/ envUndone[o] = {}
    BY <1>9, <1>a DEF EnvFind, EnvDelete, Path, Stages, Deleting
  <2>3. "Runtime" \notin envUndone[o]
    BY <1>9 DEF EnvFind, EnvDelete, Stages
  <2>4. envPc'[o] \notin {"restore", "change", "destroyed"}
    BY <1>9 DEF EnvFind, EnvDelete, EnvEnd
  <2> QED BY <2>1, <2>2, <2>3, <2>4 DEF EnvFresh
<1>10. CASE EnvVerify(o)
  <2>1. UNCHANGED <<envSpace, envPlan>>
    BY <1>10 DEF EnvVerify
  <2>2. ~EnvFresh(o) => envUndone'[o] = {}
    BY <1>10, <1>a DEF EnvVerify, EnvAnswer, Path, Stages, Deleting
  <2>3. "Runtime" \in envUndone'[o] => envSpace.spec # o
    <3>1. "Runtime" \in envUndone'[o] => ~EnvThere
      BY <1>10 DEF EnvVerify, EnvAnswer, Stages
    <3> QED BY <3>1, EnvAssumption DEF EnvAssumption, Expires, EnvThere
  <2>4. envPc'[o] \notin {"restore", "change"} /\ (envPc'[o] = "destroyed" => ~EnvThere)
    BY <1>10 DEF EnvVerify, EnvAnswer, EnvEnd
  <2>5. ~EnvThere => ~EnvMine(o)'
    BY <2>1 DEF EnvThere, EnvMine
  <2> QED BY <2>1, <2>2, <2>3, <2>4, <2>5 DEF EnvFresh
<1>11. CASE EnvFinish(o)
  BY <1>11 DEF EnvFinish, Works, Idle
<1> QED
  BY <1>1, <1>2, <1>3, <1>4, <1>5, <1>6, <1>7, <1>8, <1>9, <1>10, <1>11 DEF EnvStep

\* Nobody sets a revision but that of its own.
LEMMA SpecStep ==
    ASSUME Typed, NEW o \in Op, EnvStep(o), NEW p \in Op, p # o, envSpace.spec # p
    PROVE  envSpace'.spec # p
<1>1. /\ envSpace \in Spaces /\ o \in EnvStamps /\ envPlan[o].space.expiry \in EnvStamps
  BY DEF Typed, Plans, Spaces, EnvStamps
<1>2. /\ Revised(envSpace, o).spec = o
      /\ Expiring(envSpace, o).spec = envSpace.spec
      /\ Expiring(envSpace, envPlan[o].space.expiry).spec = envSpace.spec
  BY <1>1, Stamped
<1>3. EnvNoSpace.spec # p
  BY SquattedSpace, EnvAssumption DEF EnvAssumption
<1> QED BY <1>2, <1>3, SpaceStep

------------------------------------------------------------------------------
(* What a step keeps for the others, and what a disturbance keeps.          *)

\* The way, the authority, the order and the compensation of another operation.
LEMMA OthersStep ==
    ASSUME Typed, Leased, NEW o \in Op, Owns(o), EnvStep(o),
           NEW p \in Op, p # o, Path(p), Owns(p), Stages(p), Undid(p)
    PROVE  Path(p)' /\ Owns(p)' /\ Stages(p)' /\ Undid(p)'
<1>1. /\ envTask'[p] = envTask[p] /\ envControl'[p] = envControl[p]
      /\ envPc'[p] = envPc[p] /\ envPlan'[p] = envPlan[p] /\ envTodo'[p] = envTodo[p]
      /\ envUndone'[p] = envUndone[p]
  BY Apart
<1>2. (Works(p)' <=> Works(p)) /\ (EnvFresh(p)' <=> EnvFresh(p))
  BY <1>1 DEF Works, EnvFresh
<1>3. Path(p)' /\ Stages(p)'
  BY <1>1, <1>2 DEF Path, Stages
<1>4. Works(p) /\ EnvMine(p) => UNCHANGED <<envSpace, envObject>> /\ EnvMine(p)'
  BY <1>1, Undisturbed DEF EnvMine
<1>5. Owns(p)'
  BY <1>1, <1>2, <1>4 DEF Owns, Sure, Works, Idle
<1>6. ASSUME Works(p) PROVE Undid(p)'
  <2>1. CASE EnvMine(p)
    <3>1. UNCHANGED <<envSpace, envObject>>
      BY <1>4, <1>6, <2>1
    <3>2. EnvMine(p)' /\ (Restored(p, EnvExposure)' <=> Restored(p, EnvExposure))
      BY <1>1, <1>4, <1>6, <2>1, <3>1 DEF Restored
    <3>3. Restored(p, EnvExposure \ envTodo[p])' <=> Restored(p, EnvExposure \ envTodo[p])
      BY <1>1, <3>1 DEF Restored
    <3> QED BY <1>1, <1>2, <1>6, <2>1, <3>1, <3>2, <3>3 DEF Undid
  <2>2. CASE ~EnvMine(p)
    <3>1. EnvFresh(p) \/ envPc[p] \in {"verify", "again", "destroyed"}
      BY <1>6, <2>2 DEF Owns
    <3>2. ~EnvFresh(p) => "Exposure" \notin envUndone[p] /\ "Dns" \notin envUndone[p]
      BY <3>1, EnvAssumption DEF EnvAssumption, Typed, Path, Stages, Deleting
    <3>3. envPc[p] \notin {"restore", "change"}
      BY <2>2 DEF Owns, Sure
    <3>4. EnvFresh(p) /\ "Runtime" \in envUndone[p] => envSpace'.spec # p
      BY <1>6, <2>2, SpecStep DEF Undid
    <3>5. ~EnvMine(p)'
      BY <1>6, <2>2, Undisturbed
    <3> QED BY <1>1, <1>2, <3>2, <3>3, <3>4, <3>5 DEF Undid
  <2> QED BY <2>1, <2>2
<1> QED BY <1>2, <1>3, <1>5, <1>6 DEF Undid

\* A fault from outside: a stop, a cancellation and a death move an operation on,
\* a squatter takes a free name, an edit marks an object.
LEMMA MovedOn ==
    ASSUME IInv, Typed', NEW o \in Op, EnvStop(o) \/ EnvCancel(o) \/ EnvDie(o)
    PROVE  IInv'
<1> USE DEF IInv
<1>1. /\ UNCHANGED <<envSpace, envObject, envControl, envTask, envPlan, envRan, envUndone>>
      /\ \A p \in Op \ {o} : envPc'[p] = envPc[p] /\ envTodo'[p] = envTodo[p]
      /\ envPc'[o] \in {"undoDns", "failed", "over"}
      /\ envPc'[o] = "undoDns" => envPc[o] \in EnvApplying
      /\ envPc'[o] = "failed" => envPc[o] \in {"undoDns", "undoExposure", "undoRuntime"}
      /\ Works(o)
      /\ Works(o)' => envHeld' = envHeld
      /\ ~Works(o)' => envHeld' = [envHeld EXCEPT ![envControl[o]] = {}]
  <2> USE DEF Typed, Works, Idle
  <2>1. CASE EnvStop(o)
    BY <2>1 DEF EnvStop
  <2>2. CASE EnvCancel(o)
    BY <2>2 DEF EnvCancel, EnvApplying
  <2>3. CASE EnvDie(o)
    BY <2>3 DEF EnvDie, Leased
  <2> QED BY <2>1, <2>2, <2>3
<1>2. Leased'
  <2>1. Releases(o) \/ Keeps(o)
    BY <1>1 DEF Releases, Keeps
  <2> QED BY <1>1, <2>1, StaysLeased
<1>3. Expires'
  BY <1>1 DEF Expires, EnvFresh
<1>4. EnvExpiryKept'
  <2>1. \A p \in Op : Works(p)' => Works(p)
    BY <1>1 DEF Works
  <2>2. \A p \in Op : EnvMine(p)' <=> EnvMine(p)
    BY <1>1 DEF EnvMine
  <2> QED BY <1>1, <1>2, <2>1, <2>2 DEF EnvExpiryKept, Leased
<1>5. ASSUME NEW p \in Op PROVE Path(p)' /\ Owns(p)' /\ Stages(p)' /\ Undid(p)'
  <2>1. /\ EnvMine(p)' <=> EnvMine(p)
        /\ EnvFresh(p)' <=> EnvFresh(p)
        /\ Restored(p, EnvExposure)' <=> Restored(p, EnvExposure)
    BY <1>1 DEF EnvMine, EnvFresh, Restored
  <2>2. CASE p # o
    <3>1. envPc'[p] = envPc[p] /\ envTodo'[p] = envTodo[p] /\ (Works(p)' <=> Works(p))
      BY <1>1, <2>2 DEF Works
    <3>2. Restored(p, EnvExposure \ envTodo[p])' <=> Restored(p, EnvExposure \ envTodo[p])
      BY <1>1, <3>1 DEF Restored
    <3>3. Path(p)' /\ Owns(p)' /\ Stages(p)'
      BY <1>1, <2>1, <3>1 DEF Path, Owns, Stages
    <3>4. Undid(p)'
      BY <1>1, <2>1, <3>1, <3>2 DEF Undid
    <3> QED BY <3>3, <3>4
  <2>3. CASE p = o
    <3>1. envTask[o] \in {"up", "down"}
      BY EnvAssumption DEF EnvAssumption, Typed
    <3>2. envTask[o] = "up" \/ envPc'[o] = "over"
      BY <1>1, <3>1 DEF Path, EnvApplying, Idle, Deleting
    <3>3. Path(o)'
      BY <1>1, <2>1, <2>3, <3>2, <3>1 DEF Path, Idle, Deleting
    <3>4. Owns(o)'
      BY <1>1, <2>1, <2>3 DEF Owns, Sure, Works, Idle, EnvApplying
    <3>5. Stages(o)'
      BY <1>1, <2>3 DEF Stages, EnvApplying, Deleting
    <3>6. Undid(o)'
      <4>1. CASE envPc'[o] = "over"
        BY <4>1 DEF Undid, Works, Idle
      <4>2. CASE envPc'[o] # "over"
        BY <1>1, <2>1, <2>3, <4>2 DEF Undid
      <4> QED BY <4>1, <4>2
    <3> QED BY <2>3, <3>3, <3>4, <3>5, <3>6
  <2> QED BY <2>2, <2>3
<1> QED BY <1>2, <1>3, <1>4, <1>5

\* What an operation knows is not touched by a squatter or an edit.
LEMMA FromOutside ==
    ASSUME IInv, Typed', EnvSquat \/ \E k \in EnvExposure : EnvEdit(k)
    PROVE  IInv'
<1> USE DEF IInv
<1>1. UNCHANGED <<envControl, envTask, envHeld, envPlan, envPc, envTodo, envRan, envUndone>>
  BY DEF EnvSquat, EnvEdit
<1>2. \/ EnvThere /\ envSpace' = envSpace
      \/ ~EnvThere /\ envSpace' = Squatted /\ envObject' = envObject
      \/ envSpace' = envSpace
  <2>1. CASE EnvSquat
    BY <2>1, Zenon DEF EnvSquat, Squatted
  <2>2. CASE \E k \in EnvExposure : EnvEdit(k)
    BY <2>2 DEF EnvEdit
  <2> QED BY <2>1, <2>2
<1>3. \A k \in EnvKinds : envObject'[k] \in {envObject[k], "edited"}
  BY DEF EnvSquat, EnvEdit, Typed, Objects
<1>4. Leased'
  BY <1>1 DEF Leased, Works
<1>5. Expires'
  BY <1>1, <1>2, SquattedSpace DEF Expires, EnvFresh
<1>6. \A p \in Op : EnvMine(p)' <=> EnvMine(p)
  BY <1>1, <1>2, SquattedSpace DEF EnvMine, EnvThere
<1>7. \A p \in Op : EnvMine(p) => envSpace' = envSpace
  BY <1>2 DEF EnvMine, EnvThere
<1>8. EnvExpiryKept'
  BY <1>1, <1>6, <1>7 DEF EnvExpiryKept
<1>9. ASSUME NEW p \in Op PROVE Path(p)' /\ Owns(p)' /\ Stages(p)' /\ Undid(p)'
  <2>1. (Works(p)' <=> Works(p)) /\ (EnvFresh(p)' <=> EnvFresh(p))
    BY <1>1 DEF Works, EnvFresh
  <2>2. Path(p)' /\ Owns(p)' /\ Stages(p)'
    BY <1>1, <1>6, <2>1 DEF Path, Owns, Stages
  <2>3. /\ Restored(p, EnvExposure) => Restored(p, EnvExposure)'
        /\ Restored(p, EnvExposure \ envTodo[p]) => Restored(p, EnvExposure \ envTodo[p])'
    BY <1>1, <1>3 DEF Restored, EnvKinds
  <2>4. envSpace.spec # p => envSpace'.spec # p
    BY <1>2, SquattedSpace, EnvAssumption DEF EnvAssumption
  <2>5. ASSUME Works(p) PROVE Undid(p)'
    <3>1. CASE EnvMine(p)
      BY <1>1, <1>6, <1>7, <2>1, <2>3, <2>4, <2>5, <3>1 DEF Undid
    <3>2. CASE ~EnvMine(p)
      <4>1. EnvFresh(p) \/ envPc[p] \in {"verify", "again", "destroyed"}
        BY <2>5, <3>2 DEF Owns
      <4>2. ~EnvFresh(p) => "Exposure" \notin envUndone[p] /\ "Dns" \notin envUndone[p]
        BY <4>1, EnvAssumption DEF EnvAssumption, Typed, Path, Stages, Deleting
      <4> QED BY <1>1, <1>6, <2>1, <2>3, <2>4, <2>5, <3>2, <4>2 DEF Undid
    <3> QED BY <3>1, <3>2
  <2> QED BY <2>1, <2>2, <2>5 DEF Undid
<1> QED BY <1>4, <1>5, <1>8, <1>9

------------------------------------------------------------------------------
(* The theorems.                                                           *)

\* Every operation begins with nothing but its profile.
LEMMA Initially == EnvInit => IInv
<1> SUFFICES ASSUME EnvInit PROVE IInv
  OBVIOUS
<1>1. PICK prior \in EnvPriors, c \in EnvControls :
        /\ envSpace = IF prior = "nothing" THEN EnvNoSpace
                      ELSE [owner |-> "us", control |-> c, spec |-> "past", expiry |-> "past"]
        /\ envObject = [k \in EnvKinds |->
                IF prior = "nothing" \/ (prior = "unexposed" /\ k = "Ingress")
                THEN "absent" ELSE "past"]
  BY DEF EnvInit
<1>2. /\ envSpace \in Spaces
      /\ envSpace.owner # "us" => envSpace.expiry = "none" /\ envSpace.spec = "none"
  BY <1>1, SquattedSpace DEF Spaces, EnvStamps
<1>3. envObject \in Objects
  BY <1>1 DEF Objects
<1>4. EnvUnseen \in Plans /\ EnvUnseen.space = EnvNoSpace
  BY SquattedSpace DEF EnvUnseen, EnvEmpty, Plans, Objects
<1>5. envPlan \in [Op -> Plans] /\ \A o \in Op : EnvFresh(o) /\ envPlan[o].space.expiry = "none"
  BY <1>4, SquattedSpace DEF EnvInit, EnvFresh
<1>6. Typed
  <2>1. envLeft \in 0..EnvBudget
    BY EnvAssumption DEF EnvAssumption, EnvInit
  <2> QED BY <1>2, <1>3, <1>5, <2>1 DEF EnvInit, Typed, Places, Idle
<1>7. \A o \in Op : ~Works(o) /\ envUndone[o] = {} /\ envPc[o] = "start"
  BY DEF EnvInit, Works, Idle
<1>8. Leased
  BY <1>6, <1>7 DEF EnvInit, Leased, Typed
<1>9. Expires /\ EnvExpiryKept
  BY <1>2, <1>5 DEF Expires, EnvExpiryKept
<1>10. \A o \in Op : Path(o) /\ Owns(o) /\ Stages(o) /\ Undid(o)
  BY <1>7, <1>5 DEF Path, Owns, Sure, Stages, Undid, Idle, Deleting
<1> QED BY <1>6, <1>8, <1>9, <1>10 DEF IInv

\* Every step keeps the types.
LEMMA StepType == ASSUME Typed, NEW o \in Op, EnvStep(o) PROVE Typed'
BY StartType, ApplyingType, UndoingType, DeletingType DEF EnvStep

\* Every step keeps the invariant.
LEMMA Inductive == IInv /\ [EnvNextState]_envVars => IInv'
<1> SUFFICES ASSUME IInv, [EnvNextState]_envVars PROVE IInv'
  OBVIOUS
<1>1. ASSUME NEW o \in Op, EnvStep(o) PROVE IInv'
  <2>1. Typed /\ Leased /\ Expires /\ Path(o) /\ Owns(o) /\ Stages(o) /\ Undid(o) /\ EnvExpiryKept
    BY DEF IInv
  <2>2. Typed' /\ Expires'
    BY <1>1, <2>1, StepType, ExpiresStep
  <2>3. Leased'
    BY <1>1, <2>1, LeaseStep, StaysLeased, Apart
  <2>4. EnvExpiryKept'
    BY <1>1, <2>1, <2>3, ExpiryKeptStep
  <2>5. Path(o)' /\ Owns(o)' /\ Stages(o)' /\ Undid(o)'
    BY <1>1, <2>1, PathStep, OwnsStep, StagesStep, UndidStep
  <2>6. ASSUME NEW p \in Op, p # o PROVE Path(p)' /\ Owns(p)' /\ Stages(p)' /\ Undid(p)'
    <3>1. Path(p) /\ Owns(p) /\ Stages(p) /\ Undid(p)
      BY DEF IInv
    <3> QED BY <1>1, <2>1, <2>6, <3>1, OthersStep
  <2> QED BY <2>2, <2>3, <2>4, <2>5, <2>6 DEF IInv
<1>2. ASSUME EnvDisturb PROVE IInv'
  <2>1. Typed'
    BY <1>2, DisturbType DEF IInv
  <2> QED BY <1>2, <2>1, MovedOn, FromOutside DEF EnvDisturb
<1>3. CASE UNCHANGED envVars
  BY <1>3
  DEF envVars, IInv, Typed, Leased, Works, Expires, EnvExpiryKept, Path, Owns, Stages, Undid,
      EnvFresh, EnvMine, Restored
<1> QED BY <1>1, <1>2, <1>3 DEF EnvNextState

\* The invariant holds in every state.
LEMMA Invariant == EnvSpec => []IInv
<1> QED BY Initially, Inductive, PTL DEF EnvSpec

\* Every variable of a Kubernetes environment has its type, and exactly the
\* operations that are at work hold their Lease.
THEOREM EnvironmentTypeCorrect == EnvSpec => []EnvTypeOK
<1>1. IInv => EnvTypeOK
  BY DEF IInv, Typed, Leased, Works, Idle, EnvTypeOK, Spaces, Objects, Capabilities
<1> QED BY <1>1, Invariant, PTL

\* A namespace and what is in it are changed only by an operation that holds the
\* Lease of the control namespace it records (claim_namespace,
\* ensure_observed_control_namespace), for any number of operations and of
\* control namespaces, whatever fails, dies, is cancelled or is taken.
THEOREM OneAuthority == EnvSpec => EnvOneAuthority
<1>1. IInv => \A o \in Op :
        EnvStep(o) /\ EnvThere /\ <<envSpace, envObject>>' # <<envSpace, envObject>> => EnvMine(o)
  BY OwnChange DEF IInv
<1> QED BY <1>1, Invariant, PTL DEF EnvSpec, EnvOneAuthority

\* An environment that had an expiry keeps one as long as it exists and the
\* operation that planned it is at work (apply_dns, rollback_dns,
\* reconcile_namespace_metadata): prune can always find it.
THEOREM ExpiryKept == EnvSpec => []EnvExpiryKept
<1>1. IInv => EnvExpiryKept
  BY DEF IInv
<1> QED BY <1>1, Invariant, PTL

\* What a failed up counts as compensated is what its locked plan saw, and a
\* down that answers `destroyed` has left no namespace under its Lease
\* (restore_exposure_entries, rollback_dns, delete_namespace_exact).
THEOREM CompensatesExactly == EnvSpec => []EnvCompensationIsExact
<1>1. IInv => EnvCompensationIsExact
  BY DEF IInv, Undid, Works, Idle, Restored, EnvCompensationIsExact
<1> QED BY <1>1, Invariant, PTL

------------------------------------------------------------------------------
(* The Compose runtime of one environment: types; what a script does at     *)
(* whichever command it ends; and the invariant of a host on which scripts  *)
(* without a client go on: what is known of an operation while nothing else *)
(* has changed the host since its plan.                                     *)

CompRunning == {CompNothing, CompPartly} \union (CompTags \X CompTags)
CompViews ==
    [status : {"absent", "revision", "orphans"}, doc : [CompDocs -> CompTags], runs : CompRunning,
     assets : CompTags]
CompForward == {"assets", "base", "override", "manifest", "compose", "stable", "record", "expose",
                "succeeded"}
CompOnce == {"restoreAtOnce", "reapplyAtOnce", "completeAtOnce"}
CompBack == {"restore", "reapply", "complete"}
CompPlaces ==
    {"start", "over", "ingress", "backup", "undo", "failed", "destroy", "destroyed", "again"}
        \union CompForward \union CompOnce \union CompBack
CompHostTypes ==
    /\ compDoc \in [CompDocs -> CompTags] /\ compPrev \in [CompDocs -> CompTags]
    /\ compAssets \in CompTags /\ compDone \in {"nobody"} \union Op
    /\ compMarker \in {"absent", "begun", "restored"} \X ({"nobody", "past"} \union Op)
    /\ compRuns \in CompRunning /\ compKept \subseteq {"volumes", "network"}
CompSelfTypes ==
    /\ compHeld \subseteq Op /\ compTask \in [Op -> {"up", "down"}]
    /\ compPlan \in [Op -> CompViews] /\ compPc \in [Op -> CompPlaces]
    /\ compUndone \subseteq Op /\ compLeft \in 0..CompBudget /\ compBeside \subseteq Op

\* The scripts that may be on the host without a client.
CompKnown == {<<>>, <<"owned">>, <<"found">>} \union (CompTags \X CompTags)
CompRemote ==
    {s \in [of : Op, script : DOMAIN CompLength, done : Nat, knows : CompKnown] :
        /\ s.done < CompLength[s.script]
        /\ s.script = "compose" => s.knows \in CompTags \X CompTags}
CompTypes == CompHostTypes /\ CompSelfTypes /\ compStray \subseteq CompRemote
CompLocked == compHeld \subseteq CompAtWork /\ \A o, p \in compHeld : o = p

\* What an operation has not begun bears no mark of it, and none of its scripts
\* is about to set one.
CompEarly(o) == compPc[o] \in {"start", "ingress", "backup"}
CompUnmarked(o) == compMarker[2] # o /\ compDone # o
CompFresh ==
    /\ \A o \in Op : compTask[o] = "down" \/ CompEarly(o) => CompUnmarked(o)
    /\ \A s \in compStray : s.script # "destroy" => compTask[s.of] = "up" /\ ~CompEarly(s.of)

\* What a command is at, and what its plan has seen.
CompTasked(o) ==
    /\ compPc[o] \in CompForward \union CompOnce \union CompBack
                        \union {"ingress", "backup", "undo", "failed"} => compTask[o] = "up"
    /\ compPc[o] \in {"destroyed", "again"} => compTask[o] = "down"
    /\ compPc[o] \in CompBack => compPlan[o].status = "revision"
    /\ compPc[o] = "destroy" /\ compTask[o] = "up" => compPlan[o].status = "absent"
CompUploaded ==
    [assets |-> {}, base |-> {}, override |-> {"base"}, manifest |-> {"base", "override"},
     compose |-> CompDocs, stable |-> CompDocs, record |-> CompDocs, expose |-> CompDocs,
     succeeded |-> CompDocs]
CompAdvanced(o) ==
    /\ compPc[o] \in {"ingress", "backup"} =>
        compDoc = compPlan[o].doc /\ compRuns = compPlan[o].runs
    /\ compPc[o] \in CompForward =>
        /\ compMarker = CompMark("begun", o) /\ compDone # o
        /\ \A d \in CompUploaded[compPc[o]] : compDoc[d] = o
    /\ compPc[o] \in {"stable", "record", "expose", "succeeded"} => compRuns = <<o, o>>
    /\ compPc[o] \in {"complete", "completeAtOnce"} => compRuns = CompFrom(compDoc)
    /\ compPc[o] = "destroyed" =>
        compRuns = CompNothing /\ compKept = {} /\ compDoc["manifest"] = "absent"

\* While a revision is updated: its documents, in place or as copies; and how
\* far it has been restored.
CompSafe(o) ==
    /\ compDoc = compPlan[o].doc \/ compMarker = CompMark("begun", o)
    /\ compMarker = CompMark("begun", o) =>
        \A d \in CompDocs :
            \/ compPrev[d] = compPlan[o].doc[d]
            \/ compPrev[d] = "absent" /\ compDoc[d] = compPlan[o].doc[d]
    /\ compDone = o => compDoc = compPlan[o].doc
    /\ compMarker = CompNoMark => compRuns \in {compPlan[o].runs, CompFrom(compDoc)}
CompRestoring(o) ==
    compTask[o] = "up" /\ CompWhole(o) =>
        /\ CompSafe(o)
        /\ compPc[o] \in CompForward => \A d \in CompDocs : compPrev[d] = compPlan[o].doc[d]
        /\ compPc[o] \in {"reapply", "reapplyAtOnce", "complete", "completeAtOnce"} =>
            compDoc = compPlan[o].doc
        /\ compPc[o] \in {"restore", "restoreAtOnce", "reapply", "reapplyAtOnce"} =>
            compMarker # CompNoMark

\* What is said to be undone is.
CompSaid(o) ==
    compPc[o] = "failed" /\ o \in compUndone =>
        /\ compPlan[o].status = "absent" => compRuns = CompNothing /\ compKept = {}
        /\ CompWhole(o) => /\ compDoc = compPlan[o].doc
                           /\ compRuns \in {compPlan[o].runs, CompFrom(compDoc)}
CompMine(o) == CompAdvanced(o) /\ CompRestoring(o) /\ CompSaid(o)
CompInv ==
    /\ CompTypes /\ CompLocked /\ CompFresh
    /\ \A o \in CompAtWork : CompTasked(o)
    /\ \A o \in compUndone : compPc[o] \in {"failed", "over"}
    /\ \A o \in CompAtWork \ compBeside : CompMine(o)

\* Of what the marks and the scripts consist.
LEMMA CompDistinct ==
    /\ \A a, b \in CompTags : <<a, b>> # CompNothing /\ <<a, b>> # CompPartly
    /\ CompPartly # CompNothing
    /\ \A o : CompMark("begun", o) # CompNoMark /\ CompMark("restored", o) # CompNoMark
    /\ \A o, p : CompMark("begun", o) # CompMark("restored", p)
    /\ \A s, o : CompMark(s, o)[1] = s /\ CompMark(s, o)[2] = o
    /\ \A a, b, c, d : <<a, b>> = <<c, d>> => a = c /\ b = d
  BY DEF CompNothing, CompPartly, CompMark, CompNoMark
LEMMA CompLengths ==
    /\ DOMAIN CompLength = {"ingress", "backup", "assets", "base", "override", "manifest",
                            "compose", "restore", "complete", "destroy"}
    /\ \A script \in DOMAIN CompLength : CompLength[script] \in 1..5
    /\ \A script \in {"ingress", "assets", "base", "override", "manifest"} :
        CompLength[script] = 1
    /\ CompLength["backup"] = 5 /\ CompLength["destroy"] = 5 /\ CompLength["restore"] = 4
    /\ CompLength["compose"] = 2 /\ CompLength["complete"] = 2
  BY DEF CompLength

\* A script that is launched or goes on is one that may be on the host.
LEMMA CompLaunches ==
    ASSUME CompTypes, NEW o \in Op, NEW script \in DOMAIN CompLength
    PROVE  /\ CompLaunched(o, script) \in CompRemote
           /\ CompLaunched(o, script).of = o /\ CompLaunched(o, script).script = script
           /\ CompLaunched(o, script).done = 0
           /\ CompLaunched(o, script).knows = CompReads(script)
<1>1. CompReads(script) \in CompKnown /\ (script = "compose" => CompReads(script) \in CompTags \X CompTags)
  BY DEF CompReads, CompKnown, CompFrom, CompTypes, CompHostTypes, CompDocs
<1> QED BY <1>1, CompLengths DEF CompLaunched, CompRemote
LEMMA CompRestIs ==
    ASSUME NEW s \in CompRemote, NEW k \in Nat, k <= CompLength[s.script]
    PROVE  \A r \in CompRest(s, k) : r \in CompRemote /\ r.of = s.of /\ r.script = s.script
<1>1. CompLearns(s, s.done + 1 .. k) \in CompKnown
      /\ (s.script = "compose" => CompLearns(s, s.done + 1 .. k) \in CompTags \X CompTags)
  BY DEF CompLearns, CompRemote, CompKnown
<1> DEFINE r == [s EXCEPT !.done = k, !.knows = CompLearns(s, s.done + 1 .. k)]
<1>2. CompLength[s.script] \in 1..5
  BY CompLengths DEF CompRemote
<1>3. k # CompLength[s.script] => r \in CompRemote
  <2>1. /\ s \in [of : Op, script : DOMAIN CompLength, done : Nat, knows : CompKnown]
        /\ s.script = "compose" => s.knows \in CompTags \X CompTags
    BY DEF CompRemote
  <2>2. r \in [of : Op, script : DOMAIN CompLength, done : Nat, knows : CompKnown]
        /\ r.script = s.script /\ r.done = k /\ r.knows = CompLearns(s, s.done + 1 .. k)
    BY <2>1, <1>1
  <2> HIDE DEF r
  <2>3. k # CompLength[s.script] => k < CompLength[s.script]
    BY <1>2
  <2> QED BY <2>2, <2>3, <1>1 DEF CompRemote
<1>4. r.of = s.of /\ r.script = s.script
  BY DEF CompRemote
<1> QED BY <1>3, <1>4 DEF CompRest

\* Whatever commands of a script run, the host keeps its types, and only the
\* operation of the script is marked by it, if it is not one that removes.
LEMMA CompDoesTypes ==
    ASSUME CompTypes, NEW s \in CompRemote, NEW now, CompDoes(s, now)
    PROVE  CompHostTypes'
<1> USE DEF CompTypes, CompHostTypes
<1>0. s.of \in Op /\ (s.script = "compose" => s.knows \in CompTags \X CompTags)
  BY DEF CompRemote
<1>1. CASE s.script = "ingress" /\ CompConnects(now)
  BY <1>1 DEF CompConnects, compFiles
<1>2. CASE s.script = "backup" /\ CompCopies(s.of, now)
  BY <1>0, <1>2 DEF CompCopies, CompMark
<1>3. CASE s.script = "assets" /\ CompStores(s.of, now)
  BY <1>0, <1>3 DEF CompStores, CompTags
<1>4. CASE s.script \in CompDocs /\ CompInstalls(s.of, s.script, now)
  BY <1>0, <1>4 DEF CompInstalls, CompTags
<1>5. CASE s.script = "compose" /\ CompBrings(s.knows, now)
  BY <1>0, <1>5 DEF CompBrings, compFiles, CompRunning
<1>6. CASE s.script = "restore" /\ CompMoves(s.of, s.knows # <<>>, now)
  BY <1>0, <1>6 DEF CompMoves, CompMark, CompTags
<1>7. CASE s.script = "complete" /\ CompCompletes(s.of, now)
  BY <1>0, <1>7 DEF CompCompletes, CompMark, CompNoMark
<1>8. CASE s.script = "destroy" /\ CompClears(s.knows # <<>>, now)
  <2>1. \E gone : compDoc' = [d \in CompDocs |-> IF d \in gone THEN "absent" ELSE compDoc[d]]
    BY <1>8 DEF CompClears
  <2>2. compDoc' \in [CompDocs -> CompTags]
    BY <2>1 DEF CompTags
  <2>3. compRuns' \in CompRunning /\ compKept' \subseteq {"volumes", "network"}
    BY <1>8 DEF CompClears, CompRunning
  <2>4. /\ compPrev' \in [CompDocs -> CompTags] /\ compAssets' \in CompTags
        /\ compDone' \in {"nobody"} \union Op
        /\ compMarker' \in {"absent", "begun", "restored"} \X ({"nobody", "past"} \union Op)
    BY <1>8 DEF CompClears, CompNoDocs, CompNoMark, CompMark, CompTags
  <2> QED BY <2>2, <2>3, <2>4
<1> QED BY <1>1, <1>2, <1>3, <1>4, <1>5, <1>6, <1>7, <1>8 DEF CompDoes
LEMMA CompDoesMarks ==
    ASSUME CompTypes, NEW s \in CompRemote, NEW now, CompDoes(s, now), NEW q \in Op,
           CompUnmarked(q), q = s.of => s.script \in {"destroy", "ingress"}
    PROVE  CompUnmarked(q)'
<1> USE CompAssumption DEF CompUnmarked, CompMark, CompNoMark, compFiles
<1>1. CASE s.script = "ingress" /\ CompConnects(now)
  BY <1>1 DEF CompConnects
<1>2. CASE s.script = "backup" /\ CompCopies(s.of, now)
  BY <1>2 DEF CompCopies
<1>3. CASE s.script = "assets" /\ CompStores(s.of, now)
  BY <1>3 DEF CompStores
<1>4. CASE s.script \in CompDocs /\ CompInstalls(s.of, s.script, now)
  BY <1>4 DEF CompInstalls
<1>5. CASE s.script = "compose" /\ CompBrings(s.knows, now)
  BY <1>5 DEF CompBrings
<1>6. CASE s.script = "restore" /\ CompMoves(s.of, s.knows # <<>>, now)
  BY <1>6 DEF CompMoves
<1>7. CASE s.script = "complete" /\ CompCompletes(s.of, now)
  BY <1>7 DEF CompCompletes
<1>8. CASE s.script = "destroy" /\ CompClears(s.knows # <<>>, now)
  BY <1>8 DEF CompClears
<1> QED BY <1>1, <1>2, <1>3, <1>4, <1>5, <1>6, <1>7, <1>8 DEF CompDoes

\* A step of an operation: what it does to the host, it does by the first
\* commands of a script of its place, whose client may be gone then.
CompAct(o) == CompStep(o) \/ CompCancel(o) \/ CompDie(o) \/ CompDrop(o)
CompWorks(o) ==
    /\ \E script \in CompScripts(o) : \E k \in 0..CompLength[script] :
        /\ CompDoes(CompLaunched(o, script), 1..k)
        /\ compStray' \in {compStray, compStray \union CompRest(CompLaunched(o, script), k)}
    /\ compBeside' = compBeside \union (CompAtWork \ {o})
CompRests(o) == UNCHANGED <<compHost, compStray>>
LEMMA CompCalls ==
    ASSUME CompTypes, NEW o \in Op, NEW script \in CompScripts(o), NEW next \in CompPlaces,
           NEW otherwise \in CompPlaces \ {"start", "ingress", "backup"}, NEW undone \in SUBSET {o},
           CompCall(o, script, next, otherwise, undone)
    PROVE  /\ CompWorks(o) /\ UNCHANGED <<compHeld, compTask, compPlan>>
           /\ compLeft' \in 0..CompBudget /\ compUndone' \in {compUndone, compUndone \union undone}
           /\ \/ /\ CompDoes(CompLaunched(o, script), 1..CompLength[script])
                 /\ compPc' = [compPc EXCEPT ![o] = next] /\ compStray' = compStray
                 /\ compUndone' = compUndone \union undone
              \/ compPc' = [compPc EXCEPT ![o] = otherwise] /\ compUndone' = compUndone
<1>0. script \in DOMAIN CompLength
  BY CompLengths DEF CompScripts
<1> DEFINE s == CompLaunched(o, script)
<1>1. s.script = script /\ CompLength[script] \in 1..5
  BY <1>0, CompLaunches, CompLengths
<1>2. \/ /\ CompDoes(s, 1..CompLength[script]) /\ compPc' = [compPc EXCEPT ![o] = next]
         /\ compUndone' = compUndone \union undone /\ compStray' = compStray
         /\ compLeft' = compLeft
      \/ /\ CompCut(s) /\ compPc' = [compPc EXCEPT ![o] = otherwise] /\ compUndone' = compUndone
         /\ compLeft > 0 /\ compLeft' = compLeft - 1
  BY DEF CompCall, CompGo, CompFault
<1>3. compBeside' = compBeside \union (CompAtWork \ {o}) /\ UNCHANGED <<compHeld, compTask, compPlan>>
  BY DEF CompCall, CompBesides, compSelf
<1>4. CompWorks(o)
  <2> HIDE DEF s
  <2>1. \E k \in 0..CompLength[script] :
            CompDoes(s, 1..k) /\ compStray' \in {compStray, compStray \union CompRest(s, k)}
    BY <1>1, <1>2 DEF CompCut
  <2> QED BY <2>1, <1>3 DEF CompWorks, s
<1> HIDE DEF s
<1>5. compLeft' \in 0..CompBudget
  BY <1>2, CompAssumption DEF CompTypes, CompSelfTypes
<1> QED BY <1>2, <1>3, <1>4, <1>5 DEF s

LEMMA CompAbandons ==
    ASSUME CompTypes, NEW o \in Op, CompAbandon(o)
    PROVE  /\ CompWorks(o) \/ CompRests(o)
           /\ compBeside' = compBeside \union (CompAtWork \ {o})
<1>1. CASE CompScripts(o) = {}
  BY <1>1 DEF CompAbandon, CompBesides, CompRests
<1>2. CASE CompScripts(o) # {}
  <2>1. PICK script \in CompScripts(o) : CompCut(CompLaunched(o, script))
    BY <1>2 DEF CompAbandon
  <2>2. script \in DOMAIN CompLength
    BY CompLengths DEF CompScripts
  <2> QED BY <2>1, <2>2, CompLaunches DEF CompAbandon, CompBesides, CompWorks, CompCut
<1> QED BY <1>1, <1>2

\* What a step leaves alone: the other operations, but that they are no longer
\* alone when it does something.
CompFramed(o) ==
    /\ CompWorks(o) \/ CompRests(o)
    /\ compTask' = compTask /\ CompSelfTypes'
    /\ compBeside \ {o} \subseteq compBeside' /\ compHeld' \ {o} \subseteq compHeld
    /\ compUndone \subseteq compUndone' /\ compUndone' \subseteq compUndone \union {o}
    /\ \A p \in Op : p # o => compPc'[p] = compPc[p] /\ compPlan'[p] = compPlan[p]
    /\ compPc[o] # "start" => compPlan' = compPlan /\ compBeside \subseteq compBeside'
    /\ compStray' # compStray => ~CompEarly(o)'

LEMMA CompMovesOn ==
    ASSUME CompTypes, NEW o \in Op, NEW where \in CompPlaces, compPc' = [compPc EXCEPT ![o] = where]
    PROVE  /\ compPc' \in [Op -> CompPlaces] /\ compPc'[o] = where
           /\ \A p \in Op : p # o => compPc'[p] = compPc[p]
  BY DEF CompTypes, CompSelfTypes
LEMMA CompQuiets ==
    ASSUME CompTypes, NEW o \in Op, NEW where \in CompPlaces, CompGo(o, where), CompQuietly,
           compUndone' \in {compUndone, compUndone \union {o}},
           compLeft' = compLeft \/ CompFault("call"), compPc[o] # "start"
    PROVE  CompFramed(o) /\ compPc'[o] = where /\ UNCHANGED <<compHost, compPlan>>
<1>1. compLeft' \in 0..CompBudget
  BY CompAssumption DEF CompTypes, CompSelfTypes, CompFault
<1>2. /\ compPc' \in [Op -> CompPlaces] /\ compPc'[o] = where
      /\ \A p \in Op : p # o => compPc'[p] = compPc[p]
  BY CompMovesOn DEF CompGo
<1>3. UNCHANGED <<compHost, compStray, compHeld, compTask, compPlan, compBeside>>
  BY DEF CompQuietly, compSelf
<1>4. CompSelfTypes'
  BY <1>1, <1>2, <1>3 DEF CompTypes, CompSelfTypes
<1> QED BY <1>2, <1>3, <1>4 DEF CompFramed, CompRests
LEMMA CompCallFramed ==
    ASSUME CompTypes, NEW o \in Op, NEW script \in CompScripts(o), NEW next \in CompPlaces,
           NEW otherwise \in CompPlaces \ {"start", "ingress", "backup"}, NEW undone \in SUBSET {o},
           CompCall(o, script, next, otherwise, undone), compPc[o] # "start"
    PROVE  /\ CompFramed(o) /\ compPlan' = compPlan
           /\ \/ /\ CompDoes(CompLaunched(o, script), 1..CompLength[script]) /\ compPc'[o] = next
                 /\ compUndone' = compUndone \union undone
              \/ compPc'[o] = otherwise /\ compUndone' = compUndone
<1>1. /\ CompWorks(o) /\ UNCHANGED <<compHeld, compTask, compPlan>>
      /\ compLeft' \in 0..CompBudget /\ compUndone' \in {compUndone, compUndone \union undone}
      /\ \/ /\ CompDoes(CompLaunched(o, script), 1..CompLength[script])
            /\ compPc' = [compPc EXCEPT ![o] = next] /\ compUndone' = compUndone \union undone
            /\ compStray' = compStray
         \/ compPc' = [compPc EXCEPT ![o] = otherwise] /\ compUndone' = compUndone
  BY CompCalls
<1>2. /\ compPc' \in [Op -> CompPlaces] /\ (compPc'[o] = next \/ compPc'[o] = otherwise)
      /\ \A p \in Op : p # o => compPc'[p] = compPc[p]
  BY <1>1, CompMovesOn
<1>3. compBeside' = compBeside \union (CompAtWork \ {o})
  BY <1>1 DEF CompWorks
<1>4. CompSelfTypes'
  BY <1>1, <1>2, <1>3 DEF CompTypes, CompSelfTypes, CompAtWork
<1>5. CompFramed(o)
  BY <1>1, <1>2, <1>3, <1>4, CompMovesOn DEF CompFramed, CompEarly
<1> QED BY <1>1, <1>5, CompMovesOn

\* The place of each operation that runs a script, and that script.
LEMMA CompPlaced ==
    ASSUME CompTypes, NEW o \in Op
    PROVE  /\ compPc[o] \in DOMAIN CompAfter \union {"compose", "destroy"} =>
                compPc[o] \in CompScripts(o)
           /\ compPc[o] = "record" => "manifest" \in CompScripts(o)
           /\ compPc[o] \in {"restore", "restoreAtOnce"} /\ CompRestorable(o) =>
                "restore" \in CompScripts(o)
           /\ compPc[o] \in {"reapply", "reapplyAtOnce"} => "compose" \in CompScripts(o)
           /\ compPc[o] \in {"complete", "completeAtOnce"} => "complete" \in CompScripts(o)
           /\ \A script \in CompScripts(o) :
                /\ script \in DOMAIN CompLength /\ CompLaunched(o, script) \in CompRemote
                /\ compPc[o] \notin {"start", "over"}
                /\ compPc[o] \in {"ingress", "backup", "assets", "compose", "base", "override",
                                  "manifest", "destroy"} => script = compPc[o]
                /\ script = "destroy" => compPc[o] = "destroy"
                /\ script = "ingress" => compPc[o] = "ingress"
                /\ script = "backup" => compPc[o] = "backup"
                /\ script = "assets" => compPc[o] = "assets"
                /\ script = "manifest" => compPc[o] \in {"manifest", "record"}
                /\ script = "base" => compPc[o] = "base"
                /\ script = "override" => compPc[o] = "override"
                /\ script = "compose" => compPc[o] \in {"compose", "reapply", "reapplyAtOnce"}
                /\ script = "complete" => compPc[o] \in {"complete", "completeAtOnce"}
                /\ script = "restore" =>
                    compPc[o] \in {"restore", "restoreAtOnce"} /\ CompRestorable(o)
<1>1. DOMAIN CompAfter = {"ingress", "backup", "assets", "base", "override", "manifest"}
  BY DEF CompAfter
<1>2. \A script \in CompScripts(o) : script \in DOMAIN CompLength
  BY DEF CompScripts
<1>3. \A script \in CompScripts(o) : CompLaunched(o, script) \in CompRemote
  BY <1>2, CompLaunches
<1> QED BY <1>1, <1>2, <1>3, CompLengths DEF CompScripts

LEMMA CompPrepares ==
    ASSUME NEW o \in Op, CompPrepare(o)
    PROVE  /\ CompCall(o, compPc[o], CompAfter[compPc[o]], "undo", {})
           /\ \/ compPc[o] = "ingress" /\ CompAfter[compPc[o]] = "backup"
              \/ compPc[o] = "backup" /\ CompAfter[compPc[o]] = "assets"
              \/ compPc[o] = "assets" /\ CompAfter[compPc[o]] = "base"
              \/ compPc[o] = "base" /\ CompAfter[compPc[o]] = "override"
              \/ compPc[o] = "override" /\ CompAfter[compPc[o]] = "manifest"
              \/ compPc[o] = "manifest" /\ CompAfter[compPc[o]] = "compose"
           /\ compPc[o] \in DOMAIN CompAfter /\ CompAfter[compPc[o]] \in CompPlaces
  BY DEF CompPrepare, CompAfter, CompPlaces, CompForward

LEMMA CompFrames ==
    ASSUME CompTypes, CompLocked, NEW o \in Op, CompAct(o)
    PROVE  CompFramed(o)
<1> USE DEF CompPlaces, CompForward, CompOnce, CompBack
<1>1. CASE CompStart(o)
  <2>1. CompSeen \in CompViews
    BY DEF CompTypes, CompHostTypes, CompSeen, CompStatus, CompViews
  <2>2. [compPlan EXCEPT ![o] = CompSeen] \in [Op -> CompViews]
    BY <2>1 DEF CompTypes, CompSelfTypes
  <2>3. compPc[o] = "start" /\ compPc' \in [Op -> CompPlaces] /\ compBeside' = compBeside \ {o}
    BY <1>1 DEF CompStart, CompGo, CompTypes, CompSelfTypes
  <2>4. \A p \in Op : p # o => compPc'[p] = compPc[p] /\ compPlan'[p] = compPlan[p]
    BY <1>1 DEF CompStart, CompGo, CompTypes, CompSelfTypes
  <2>5. /\ UNCHANGED <<compHost, compStray, compTask, compUndone, compLeft>> /\ compHeld' = {o}
        /\ compPlan' = [compPlan EXCEPT ![o] = CompSeen]
    BY <1>1 DEF CompStart
  <2>6. CompSelfTypes'
    BY <2>2, <2>3, <2>5 DEF CompTypes, CompSelfTypes
  <2> QED BY <2>3, <2>4, <2>5, <2>6 DEF CompFramed, CompRests
<1>2. CASE CompPrepare(o)
  BY <1>2, CompPrepares, CompPlaced, CompCallFramed
<1>3. CASE CompCompose(o)
  <2>1. CASE CompCall(o, "compose", "stable", "restoreAtOnce", {})
    BY <1>3, <2>1, CompPlaced, CompCallFramed DEF CompCompose
  <2>2. CASE CompFault("call") /\ CompGo(o, "undo") /\ CompQuietly /\ UNCHANGED compUndone
    BY <1>3, <2>2, CompQuiets DEF CompCompose
  <2> QED BY <1>3, <2>1, <2>2 DEF CompCompose
<1>4. CASE CompWatch(o)
  BY <1>4, CompQuiets DEF CompWatch
<1>5. CASE CompRecord(o)
  BY <1>5, CompPlaced, CompCallFramed DEF CompRecord
<1>6. CASE CompRestore(o)
  <2>1. CompGiveUp(o) \in {"failed", "undo"}
        /\ CompThen(o, "reapply", "reapplyAtOnce") \in {"reapply", "reapplyAtOnce"}
    BY DEF CompGiveUp, CompThen
  <2> QED BY <1>6, <2>1, CompPlaced, CompCallFramed, CompQuiets DEF CompRestore
<1>7. CASE CompReapply(o)
  <2>1. CompGiveUp(o) \in {"failed", "undo"}
        /\ CompThen(o, "complete", "completeAtOnce") \in {"complete", "completeAtOnce"}
    BY DEF CompGiveUp, CompThen
  <2> QED BY <1>7, <2>1, CompPlaced, CompCallFramed DEF CompReapply
<1>8. CASE CompComplete(o)
  <2>1. CompGiveUp(o) \in {"failed", "undo"}
    BY DEF CompGiveUp, CompThen
  <2> QED BY <1>8, <2>1, CompPlaced, CompCallFramed DEF CompComplete
<1>9. CASE CompUndo(o)
  BY <1>9, CompQuiets DEF CompUndo
<1>10. CASE CompDestroy(o)
  BY <1>10, CompPlaced, CompCallFramed DEF CompDestroy
<1>11. CASE CompFinish(o)
  <2>1. compPc' \in [Op -> CompPlaces] /\ \A p \in Op : p # o => compPc'[p] = compPc[p]
    BY <1>11 DEF CompFinish, CompGo, CompTypes, CompSelfTypes
  <2> QED BY <1>11, <2>1 DEF CompFinish, CompFramed, CompRests, CompTypes, CompSelfTypes
<1>12. CASE CompCancel(o)
  <2>1. /\ compPc' \in [Op -> CompPlaces] /\ compPc'[o] = "undo"
        /\ \A p \in Op : p # o => compPc'[p] = compPc[p]
    BY <1>12, CompMovesOn DEF CompCancel, CompGo
  <2>2. (CompWorks(o) \/ CompRests(o)) /\ compBeside' = compBeside \union (CompAtWork \ {o})
    BY <1>12, CompAbandons DEF CompCancel
  <2>3. UNCHANGED <<compHeld, compTask, compPlan, compUndone>> /\ compLeft' \in 0..CompBudget
    BY <1>12, CompAssumption DEF CompCancel, CompFault, compSelf, CompTypes, CompSelfTypes
  <2>4. CompSelfTypes'
    BY <2>1, <2>2, <2>3 DEF CompTypes, CompSelfTypes, CompAtWork
  <2> QED BY <2>1, <2>2, <2>3, <2>4 DEF CompFramed, CompEarly
<1>13. CASE CompDie(o)
  <2>1. /\ compPc' \in [Op -> CompPlaces] /\ compPc'[o] = "over"
        /\ \A p \in Op : p # o => compPc'[p] = compPc[p]
    BY <1>13, CompMovesOn DEF CompDie, CompGo
  <2>2. (CompWorks(o) \/ CompRests(o)) /\ compBeside' = compBeside \union (CompAtWork \ {o})
    BY <1>13, CompAbandons DEF CompDie
  <2>3. /\ UNCHANGED <<compTask, compPlan, compUndone>> /\ compLeft' \in 0..CompBudget
        /\ compHeld' = compHeld \ {o}
    BY <1>13, CompAssumption DEF CompDie, CompFault, CompTypes, CompSelfTypes
  <2>4. CompSelfTypes'
    BY <2>1, <2>2, <2>3 DEF CompTypes, CompSelfTypes, CompAtWork
  <2> QED BY <2>1, <2>2, <2>3, <2>4 DEF CompFramed, CompEarly
<1>14. CASE CompDrop(o)
  BY <1>14, CompAssumption DEF CompDrop, CompFault, CompFramed, CompRests, CompTypes, CompSelfTypes
<1> QED BY <1>1, <1>2, <1>3, <1>4, <1>5, <1>6, <1>7, <1>8, <1>9, <1>10, <1>11, <1>12, <1>13, <1>14
       DEF CompAct, CompStep

\* Every step keeps the types and the one holder of the lock.
LEMMA CompTypesKept ==
    ASSUME CompTypes, NEW o \in Op, CompFramed(o)
    PROVE  CompTypes'
<1>1. CASE CompRests(o)
  BY <1>1 DEF CompFramed, CompRests, CompTypes, CompHostTypes, compHost, compFiles
<1>2. CASE CompWorks(o)
  <2>0. PICK script \in CompScripts(o) : \E k \in 0..CompLength[script] :
            /\ CompDoes(CompLaunched(o, script), 1..k)
            /\ compStray' \in {compStray, compStray \union CompRest(CompLaunched(o, script), k)}
    BY <1>2 DEF CompWorks
  <2>1. PICK k \in 0..CompLength[script] :
            /\ CompDoes(CompLaunched(o, script), 1..k)
            /\ compStray' \in {compStray, compStray \union CompRest(CompLaunched(o, script), k)}
    BY <2>0
  <2>2. /\ CompLaunched(o, script) \in CompRemote /\ CompLaunched(o, script).script = script
        /\ CompLength[script] \in 1..5
    BY CompPlaced, CompLaunches, CompLengths
  <2>3. CompHostTypes'
    BY <2>1, <2>2, CompDoesTypes
  <2>4. CompRest(CompLaunched(o, script), k) \subseteq CompRemote
    BY <2>2, CompRestIs
  <2> QED BY <2>1, <2>3, <2>4 DEF CompTypes, CompFramed
<1> QED BY <1>1, <1>2 DEF CompFramed
LEMMA CompLockedKept ==
    ASSUME CompTypes, CompLocked, NEW o \in Op, CompAct(o)
    PROVE  CompLocked'
<1>0. CompFramed(o)
  BY CompFrames
<1>1. \A p \in Op : p # o => compPc'[p] = compPc[p]
  BY <1>0 DEF CompFramed
<1>2. CASE compHeld' \subseteq compHeld \ {o}
  BY <1>1, <1>2 DEF CompLocked, CompAtWork
<1>3. CASE CompStart(o)
  <2>1. compHeld' = {o} /\ compPc'[o] \in {"ingress", "destroy"}
    BY <1>3 DEF CompStart, CompGo, CompTypes, CompSelfTypes
  <2> QED BY <2>1 DEF CompLocked, CompAtWork
<1>4. CASE compHeld' = compHeld /\ compPc'[o] \notin {"start", "over"}
  BY <1>1, <1>4 DEF CompLocked, CompAtWork
<1>5. CASE CompFinish(o) \/ CompDie(o) \/ CompDrop(o)
  BY <1>2, <1>5 DEF CompFinish, CompDie, CompDrop, CompLocked
<1>6. ASSUME NEW where \in CompPlaces \ {"start", "over"}, compPc' = [compPc EXCEPT ![o] = where]
      PROVE  compPc'[o] \notin {"start", "over"}
  BY <1>6, CompMovesOn
<1> USE DEF CompPlaces, CompForward, CompOnce, CompBack
<1>7. ASSUME NEW script, NEW next \in CompPlaces \ {"start", "over"},
             NEW otherwise \in CompPlaces \ {"start", "over"}, NEW undone,
             CompCall(o, script, next, otherwise, undone)
      PROVE  CompLocked'
  BY <1>4, <1>6, <1>7 DEF CompCall, CompGo, compSelf
<1>8. ASSUME NEW where \in CompPlaces \ {"start", "over"}, CompGo(o, where),
             CompQuietly \/ UNCHANGED compSelf
      PROVE  CompLocked'
  BY <1>4, <1>6, <1>8 DEF CompQuietly, CompGo, compSelf
<1>9. CASE CompPrepare(o)
  BY <1>7, <1>9, CompPrepares
<1>10. CASE CompCompose(o) \/ CompWatch(o) \/ CompRecord(o) \/ CompUndo(o) \/ CompCancel(o)
  BY <1>7, <1>8, <1>10 DEF CompCompose, CompWatch, CompRecord, CompUndo, CompCancel
<1>11. CASE CompRestore(o) \/ CompReapply(o) \/ CompComplete(o) \/ CompDestroy(o)
  BY <1>7, <1>8, <1>11
     DEF CompRestore, CompReapply, CompComplete, CompDestroy, CompGiveUp, CompThen
<1> QED BY <1>3, <1>5, <1>9, <1>10, <1>11 DEF CompAct, CompStep

\* What a command is at fits what it is, and it does not begin twice.
LEMMA CompTaskedKept ==
    ASSUME CompTypes, CompLocked, NEW o \in Op, CompAct(o), o \in CompAtWork => CompTasked(o)
    PROVE  /\ o \in CompAtWork' => CompTasked(o)'
           /\ CompEarly(o)' => \/ compTask[o] = "down"
                               \/ CompEarly(o) /\ (CompRests(o) \/ compPc[o] = "ingress")
           /\ compUndone' # compUndone => compPc'[o] = "failed"
           /\ compPc[o] = "failed" => compPc'[o] \in {"failed", "over"}
           /\ compPc[o] # "over"
<1>0. CompFramed(o)
  BY CompFrames
<1>t. compPc[o] \notin {"start", "over"} => CompTasked(o)
  BY DEF CompAtWork
<1>2. compPc[o] # "start" => compTask' = compTask /\ compPlan' = compPlan
  BY <1>0 DEF CompFramed
<1>5. compUndone \union {} = compUndone
  OBVIOUS
<1>6. ASSUME NEW script \in CompScripts(o), NEW next \in CompPlaces,
             NEW otherwise \in CompPlaces \ {"start", "ingress", "backup"},
             NEW undone \in SUBSET {o}, CompCall(o, script, next, otherwise, undone)
      PROVE  /\ \/ compPc'[o] = next /\ compUndone' = compUndone \union undone
                \/ compPc'[o] = otherwise /\ compUndone' = compUndone
             /\ compPc[o] \notin {"start", "over"} /\ compTask' = compTask /\ compPlan' = compPlan
  <2>1. compPc[o] \notin {"start", "over"}
    BY CompPlaced
  <2>2. /\ CompFramed(o) /\ compPlan' = compPlan
        /\ \/ compPc'[o] = next /\ compUndone' = compUndone \union undone
           \/ compPc'[o] = otherwise /\ compUndone' = compUndone
    BY <1>6, <2>1, CompCallFramed
  <2> QED BY <2>1, <2>2, <1>2
<1>7. ASSUME NEW where, CompGo(o, where) PROVE compPc'[o] = where
  BY <1>7 DEF CompGo, CompTypes, CompSelfTypes
<1> USE DEF CompForward, CompOnce, CompBack, CompTasked, CompEarly, CompPlaces
<1>1. CASE CompStart(o)
  BY <1>0, <1>1
     DEF CompStart, CompGo, CompFramed, CompTypes, CompSelfTypes, CompAtWork, CompRests
<1>8. CASE CompPrepare(o)
  BY <1>6, <1>8, <1>t, CompPrepares, CompPlaced
<1>9. CASE CompCompose(o)
  BY <1>2, <1>6, <1>7, <1>9, <1>t, CompPlaced DEF CompCompose
<1>10. CASE CompWatch(o)
  BY <1>2, <1>7, <1>10, <1>t DEF CompWatch
<1>11. CASE CompRecord(o)
  BY <1>6, <1>11, <1>t, CompPlaced DEF CompRecord
<1>12. CASE CompRestore(o)
  <2>1. /\ compPc[o] \in {"restore", "restoreAtOnce"}
        /\ \/ /\ CompThen(o, "reapply", "reapplyAtOnce") = "reapply" /\ CompGiveUp(o) = "failed"
              /\ compPc[o] = "restore"
           \/ /\ CompThen(o, "reapply", "reapplyAtOnce") = "reapplyAtOnce" /\ CompGiveUp(o) = "undo"
              /\ compPc[o] = "restoreAtOnce"
    BY <1>12 DEF CompRestore, CompThen, CompGiveUp, CompAtOnce
  <2>2. CASE /\ CompRestorable(o)
             /\ CompCall(o, "restore", CompThen(o, "reapply", "reapplyAtOnce"), CompGiveUp(o), {})
    <3>1. "restore" \in CompScripts(o) /\ {} \in SUBSET {o}
      BY <2>1, <2>2, CompPlaced
    <3>2. /\ compPc'[o] \in {CompThen(o, "reapply", "reapplyAtOnce"), CompGiveUp(o)}
          /\ compUndone' = compUndone /\ compTask' = compTask /\ compPlan' = compPlan
      BY <1>5, <1>6, <2>1, <2>2, <3>1
    <3> QED BY <1>t, <2>1, <3>2
  <2>3. CASE /\ compUndone' = compUndone
             /\ \/ CompGo(o, CompGiveUp(o))
                \/ CompGo(o, CompThen(o, "reapply", "reapplyAtOnce"))
    BY <1>2, <1>7, <1>t, <2>1, <2>3
  <2> QED BY <1>12, <2>2, <2>3 DEF CompRestore
<1>13. CASE CompReapply(o)
  BY <1>6, <1>13, <1>t, CompPlaced DEF CompReapply, CompThen, CompGiveUp, CompAtOnce
<1>14. CASE CompComplete(o)
  <2>1. CASE compPc[o] = "complete" /\ CompCall(o, "complete", "failed", "failed", {o})
    BY <1>6, <1>t, <2>1, CompPlaced
  <2>2. CASE compPc[o] = "completeAtOnce" /\ CompCall(o, "complete", "undo", "undo", {})
    <3>1. "complete" \in CompScripts(o) /\ {} \in SUBSET {o}
      BY <2>2, CompPlaced
    <3>2. /\ compPc'[o] = "undo" /\ compUndone' = compUndone
          /\ compTask' = compTask /\ compPlan' = compPlan
      BY <1>5, <1>6, <2>2, <3>1
    <3> QED BY <1>t, <2>2, <3>2
  <2> QED BY <1>14, <2>1, <2>2 DEF CompComplete, CompThen, CompGiveUp, CompAtOnce
<1>15. CASE CompUndo(o)
  BY <1>2, <1>7, <1>15, <1>t DEF CompUndo, CompTypes, CompSelfTypes, CompViews
<1>16. CASE CompDestroy(o)
  <2>1. CASE compTask[o] = "up" /\ CompCall(o, "destroy", "failed", "failed", {o})
    BY <1>6, <1>16, <1>t, <2>1, CompPlaced DEF CompDestroy
  <2>2. CASE compTask[o] = "down" /\ CompCall(o, "destroy", "destroyed", "again", {})
    BY <1>6, <1>16, <1>t, <2>2, CompPlaced DEF CompDestroy
  <2> QED BY <1>16, <2>1, <2>2 DEF CompDestroy, CompTypes, CompSelfTypes
<1>17. CASE CompFinish(o)
  BY <1>2, <1>7, <1>17, <1>t DEF CompFinish, CompAtWork
<1>18. CASE CompCancel(o)
  BY <1>2, <1>7, <1>18, <1>t DEF CompCancel, CompApplying, CompAfter
<1>19. CASE CompDie(o)
  BY <1>2, <1>7, <1>19, <1>t DEF CompDie, CompAtWork
<1>20. CASE CompDrop(o)
  BY <1>2, <1>20, <1>t DEF CompDrop, CompAtWork, CompLocked, CompRests
<1> QED BY <1>1, <1>8, <1>9, <1>10, <1>11, <1>12, <1>13, <1>14, <1>15, <1>16, <1>17, <1>18, <1>19,
           <1>20
       DEF CompAct, CompStep

\* What has not begun stays unmarked.
LEMMA CompFreshKept ==
    ASSUME CompTypes, CompLocked, CompFresh, NEW o \in Op, CompAct(o),
           o \in CompAtWork => CompTasked(o)
    PROVE  CompFresh'
<1>0. /\ CompFramed(o)
      /\ CompEarly(o)' => \/ compTask[o] = "down"
                          \/ CompEarly(o) /\ (CompRests(o) \/ compPc[o] = "ingress")
  BY CompFrames, CompTaskedKept
<1>1. \A p \in Op : p # o => (CompEarly(p)' <=> CompEarly(p))
  BY <1>0 DEF CompFramed, CompEarly
<1>2. compTask' = compTask
  BY <1>0 DEF CompFramed
<1>3. CASE CompRests(o)
  <2>1. UNCHANGED <<compMarker, compDone, compStray>>
    BY <1>3 DEF CompRests, compHost, compFiles
  <2>2. ASSUME NEW q \in Op, compTask'[q] = "down" \/ CompEarly(q)' PROVE CompUnmarked(q)'
    BY <1>0, <1>1, <1>2, <2>1, <2>2 DEF CompFresh, CompUnmarked
  <2>3. ASSUME NEW s \in compStray, s.script # "destroy"
        PROVE  compTask'[s.of] = "up" /\ ~CompEarly(s.of)'
    BY <1>0, <1>1, <1>2, <2>3 DEF CompFresh, CompTypes, CompRemote
  <2> QED BY <2>1, <2>2, <2>3 DEF CompFresh
<1>4. CASE CompWorks(o) /\ ~CompRests(o)
  <2>0. PICK script \in CompScripts(o) : \E k \in 0..CompLength[script] :
            /\ CompDoes(CompLaunched(o, script), 1..k)
            /\ compStray' \in {compStray, compStray \union CompRest(CompLaunched(o, script), k)}
    BY <1>4 DEF CompWorks
  <2>1. PICK k \in 0..CompLength[script] :
            /\ CompDoes(CompLaunched(o, script), 1..k)
            /\ compStray' \in {compStray, compStray \union CompRest(CompLaunched(o, script), k)}
    BY <2>0
  <2>2. /\ CompLaunched(o, script) \in CompRemote /\ CompLaunched(o, script).script = script
        /\ CompLaunched(o, script).of = o
        /\ CompLength[script] \in 1..5
    BY CompPlaced, CompLaunches, CompLengths
  <2>3. script # "destroy" => compTask[o] = "up"
    <3>1. CompTasked(o) /\ compPc[o] \notin {"start", "over"}
      BY CompPlaced DEF CompAtWork
    <3>2. script # "destroy" =>
            compPc[o] \in {"ingress", "backup", "assets", "base", "override", "manifest", "record",
                           "compose", "reapply", "reapplyAtOnce", "restore", "restoreAtOnce",
                           "complete", "completeAtOnce"}
      BY CompPlaced, CompLengths
    <3> QED BY <3>1, <3>2 DEF CompTasked, CompForward, CompOnce, CompBack
  <2>4. ASSUME NEW q \in Op, compTask'[q] = "down" \/ CompEarly(q)' PROVE CompUnmarked(q)'
    <3>1. CompUnmarked(q)
      BY <1>0, <1>1, <1>2, <2>4 DEF CompFresh
    <3>2. q = o => script \in {"destroy", "ingress"}
      <4>1. CASE compTask[o] = "down"
        BY <2>3, <4>1
      <4>2. CASE compPc[o] = "ingress"
        BY <4>2, CompPlaced
      <4> QED BY <1>0, <1>2, <1>4, <2>4, <4>1, <4>2
    <3> QED BY <2>1, <2>2, <3>1, <3>2, CompDoesMarks
  <2>5. ASSUME NEW s \in compStray', s.script # "destroy"
        PROVE  compTask'[s.of] = "up" /\ ~CompEarly(s.of)'
    <3>1. CASE s \in compStray
      BY <1>0, <1>1, <1>2, <2>5, <3>1 DEF CompFresh, CompTypes, CompRemote
    <3>2. CASE s \notin compStray
      <4>1. s \in CompRest(CompLaunched(o, script), k) /\ compStray' # compStray
        BY <2>1, <2>5, <3>2
      <4>2. s.of = o /\ s.script = script
        BY <2>2, <4>1, CompRestIs
      <4> QED BY <1>0, <1>2, <2>3, <2>5, <4>1, <4>2 DEF CompFramed
    <3> QED BY <3>1, <3>2
  <2> QED BY <2>4, <2>5 DEF CompFresh
<1> QED BY <1>0, <1>3, <1>4 DEF CompFramed

\* A script that runs to its end.
LEMMA CompRan ==
    ASSUME CompTypes, NEW o \in Op, NEW script \in CompScripts(o),
           CompDoes(CompLaunched(o, script), 1..CompLength[script])
    PROVE  /\ script \notin CompDocs \union {"restore", "destroy"} => compDoc' = compDoc
           /\ script \notin {"compose", "destroy"} => compRuns' = compRuns
           /\ script \notin {"backup", "restore", "complete", "destroy"} =>
                UNCHANGED <<compMarker, compDone, compPrev>>
           /\ script = "backup" =>
                /\ \A d \in CompDocs : compPrev'[d] = compDoc[d]
                /\ compMarker' = CompMark("begun", o) /\ compDone' = "nobody"
           /\ script \in CompDocs => compDoc' = [compDoc EXCEPT ![script] = o]
           /\ script = "compose" => compRuns' = CompFrom(compDoc)
           /\ script = "restore" =>
                /\ \A d \in CompDocs :
                    compDoc'[d] = IF compPrev[d] # "absent" THEN compPrev[d] ELSE compDoc[d]
                /\ compMarker' = CompMark("restored", o) /\ compDone' = compDone
           /\ script = "complete" => compMarker' = CompNoMark /\ compDone' = o
           /\ script = "destroy" =>
                compRuns' = CompNothing /\ compKept' = {} /\ compDoc'["manifest"] = "absent"
<1> DEFINE s == CompLaunched(o, script)
<1>0. /\ script \in DOMAIN CompLength /\ s.script = script /\ s.of = o
      /\ s.knows = CompReads(script) /\ CompDoes(s, 1..CompLength[script])
  BY CompPlaced, CompLaunches
<1> HIDE DEF s
<1> USE DEF CompTypes, CompHostTypes, compFiles
<1>1. CASE script = "ingress" /\ CompConnects(1..1)
  BY <1>1 DEF CompConnects, CompDocs
<1>2. CASE script = "backup" /\ CompCopies(o, 1..5)
  BY <1>2 DEF CompCopies, CompDocs, CompRank
<1>3. CASE script = "assets" /\ CompStores(o, 1..1)
  BY <1>3 DEF CompStores, CompDocs
<1>4. CASE script \in CompDocs /\ CompInstalls(o, script, 1..1)
  BY <1>4 DEF CompInstalls, CompDocs
<1>5. CASE script = "compose" /\ CompBrings(CompFrom(compDoc), 1..2)
  BY <1>5 DEF CompBrings, CompDocs
<1>6. CASE script = "restore" /\ CompMoves(o, s.knows # <<>>, 1..4)
  <2>1. compPrev # CompNoDocs
    BY <1>6, CompPlaced DEF CompRestorable
  <2>2. CompMoved(1..4) = {d \in CompDocs : compPrev[d] # "absent"}
    BY DEF CompMoved, CompDocs, CompRank
  <2>3. CompMoved(1..4) # {}
    BY <2>1, <2>2 DEF CompNoDocs
  <2>4. /\ compDoc' = [d \in CompDocs |-> IF d \in CompMoved(1..4) THEN compPrev[d] ELSE compDoc[d]]
        /\ compMarker' = CompMark("restored", o) /\ compDone' = compDone /\ compRuns' = compRuns
    BY <1>6, <2>3 DEF CompMoves
  <2> QED BY <1>6, <2>2, <2>4 DEF CompDocs
<1>7. CASE script = "complete" /\ CompCompletes(o, 1..2)
  BY <1>7 DEF CompCompletes, CompDocs
<1>8. CASE script = "destroy" /\ CompClears(s.knows # <<>>, 1..5)
  <2>0. 1 \in 1..5 /\ 2 \in 1..5 /\ 3 \in 1..5 /\ 5 \in 1..5
    OBVIOUS
  <2>1. compRuns' = CompNothing /\ compKept' = {}
    <3>1. /\ compRuns' = CompNothing
          /\ compKept' = compKept \ ({"volumes"} \union {"network"})
      BY <1>8, <2>0 DEF CompClears
    <3> QED BY <3>1
  <2>2. PICK gone \in SUBSET CompDocs :
            /\ s.knows # <<>> => gone = CompDocs
            /\ compDoc' = [d \in CompDocs |-> IF d \in gone THEN "absent" ELSE compDoc[d]]
    BY <1>8, <2>0 DEF CompClears
  <2>3. s.knows = <<>> => compDoc["manifest"] = "absent"
    BY <1>0, <1>8 DEF CompReads
  <2>4. compDoc'["manifest"] = "absent"
    BY <2>2, <2>3 DEF CompDocs
  <2> QED BY <1>8, <2>1, <2>4 DEF CompDocs
<1> QED
  <2> HIDE DEF CompTypes, CompHostTypes, compFiles
  <2>1. /\ script \in {"ingress", "assets"} \union CompDocs => CompLength[script] = 1
        /\ script = "compose" => CompReads(script) = CompFrom(compDoc)
    BY CompLengths DEF CompDocs, CompReads
  <2> QED BY <1>0, <1>1, <1>2, <1>3, <1>4, <1>5, <1>6, <1>7, <1>8, <2>1, CompLengths DEF CompDoes

\* Wherever a script of an update stops, the documents that were found are there.
LEMMA CompSafeKept ==
    ASSUME CompTypes, CompFresh, NEW o \in Op, compTask[o] = "up", CompWhole(o), CompTasked(o),
           CompAdvanced(o), CompRestoring(o), NEW script \in CompScripts(o),
           NEW k \in 0..CompLength[script], CompDoes(CompLaunched(o, script), 1..k),
           compPlan' = compPlan
    PROVE  CompSafe(o)'
<1> DEFINE s == CompLaunched(o, script)
<1>0. /\ script \in DOMAIN CompLength /\ s.script = script /\ s.of = o
      /\ s.knows = CompReads(script) /\ CompDoes(s, 1..k)
  BY CompPlaced, CompLaunches
<1> HIDE DEF s
<1>r. /\ CompSafe(o) /\ (compPc[o] \in CompForward => \A d \in CompDocs : compPrev[d] = compPlan[o].doc[d])
      /\ compPc[o] \in {"reapply", "reapplyAtOnce", "complete", "completeAtOnce"} =>
            compDoc = compPlan[o].doc
      /\ compPc[o] \in {"restore", "restoreAtOnce", "reapply", "reapplyAtOnce"} =>
            compMarker # CompNoMark
  BY DEF CompRestoring
<1>f. CompEarly(o) => compMarker # CompMark("begun", o) /\ compDone # o
  BY CompDistinct DEF CompFresh, CompUnmarked
<1> USE DEF compFiles
<1>1. CASE script = "ingress" /\ CompConnects(1..k)
  BY <1>1, <1>r DEF CompConnects, CompSafe, CompFrom
<1>2. CASE script = "backup" /\ CompCopies(o, 1..k)
  <2>1. compPc[o] = "backup" /\ CompLength[script] = 5
    BY <1>2, CompPlaced, CompLengths
  <2>2. compDoc = compPlan[o].doc /\ compRuns = compPlan[o].runs
    BY <2>1 DEF CompAdvanced
  <2>3. compMarker # CompMark("begun", o) /\ compDone # o
    BY <1>f, <2>1 DEF CompEarly
  <2>4. compDoc' = compDoc /\ compRuns' = compRuns /\ compDone' # o
    BY <1>2, <2>3, CompAssumption DEF CompCopies
  <2>5. compMarker' = CompMark("begun", o) => \A d \in CompDocs : compPrev'[d] = compDoc[d]
    <3>1. CASE 5 \in 1..k
      <4>1. k = 5
        BY <2>1, <3>1
      <4> QED BY <1>2, <4>1 DEF CompCopies, CompDocs, CompRank
    <3>2. CASE 5 \notin 1..k
      BY <1>2, <2>3, <3>2 DEF CompCopies
    <3> QED BY <3>1, <3>2
  <2> QED BY <2>2, <2>4, <2>5 DEF CompSafe
<1>3. CASE (script = "assets" /\ CompStores(o, 1..k)) \/ (script \in CompDocs /\ CompInstalls(o, script, 1..k))
  <2>1. compPc[o] \in CompForward
    BY <1>3, CompPlaced DEF CompDocs, CompForward
  <2>2. compMarker = CompMark("begun", o) /\ compDone # o
    BY <2>1 DEF CompAdvanced
  <2>3. UNCHANGED <<compMarker, compDone, compPrev>>
    BY <1>3 DEF CompStores, CompInstalls
  <2> QED BY <1>r, <2>1, <2>2, <2>3, CompDistinct DEF CompSafe
<1>4. CASE script = "compose" /\ CompBrings(s.knows, 1..k)
  <2>1. compPc[o] \in {"compose", "reapply", "reapplyAtOnce"}
    BY <1>4, CompPlaced
  <2>2. compMarker # CompNoMark
    BY <1>r, <2>1, CompDistinct DEF CompAdvanced, CompForward
  <2> QED BY <1>4, <1>r, <2>2 DEF CompBrings, CompSafe
<1>5. CASE script = "restore" /\ CompMoves(o, s.knows # <<>>, 1..k)
  <2>1. compMarker = CompMark("begun", o) /\ CompLength[script] = 4
    BY <1>5, CompPlaced, CompLengths DEF CompRestorable
  <2>2. /\ \A d \in CompDocs :
            \/ compPrev[d] = compPlan[o].doc[d]
            \/ compPrev[d] = "absent" /\ compDoc[d] = compPlan[o].doc[d]
        /\ \A d \in CompDocs : compPlan[o].doc[d] # "absent"
        /\ compDone = o => compDoc = compPlan[o].doc
    <3>1. \A d \in CompDocs : compPlan[o].doc[d] # "absent"
      BY DEF CompWhole
    <3>2. \A d \in CompDocs :
            \/ compPrev[d] = compPlan[o].doc[d]
            \/ compPrev[d] = "absent" /\ compDoc[d] = compPlan[o].doc[d]
      BY <1>r, <2>1 DEF CompSafe
    <3>3. compDone = o => compDoc = compPlan[o].doc
      BY <1>r DEF CompSafe
    <3> QED BY <3>1, <3>2, <3>3
  <2>3. compDoc \in [CompDocs -> CompTags] /\ compPlan[o].doc \in [CompDocs -> CompTags]
    BY DEF CompTypes, CompHostTypes, CompSelfTypes, CompViews
  <2>4. /\ compDoc' = [d \in CompDocs |-> IF d \in CompMoved(1..k) THEN compPrev[d] ELSE compDoc[d]]
        /\ compPrev' = [d \in CompDocs |-> IF d \in CompMoved(1..k) THEN "absent" ELSE compPrev[d]]
        /\ compMarker' \in {compMarker, CompMark("restored", o)} /\ compDone' = compDone
        /\ 4 \notin 1..k => compMarker' = compMarker
    BY <1>5 DEF CompMoves
  <2>5. \A d \in CompMoved(1..k) : compPrev[d] = compPlan[o].doc[d]
    BY <2>2 DEF CompMoved
  <2>6. compDoc = compPlan[o].doc => compDoc' = compDoc
    BY <2>3, <2>4, <2>5
  <2>7. compMarker' = CompMark("restored", o) => compDoc' = compPlan[o].doc
    <3>1. ASSUME 4 \in 1..k PROVE \A d \in CompDocs : compPrev[d] # "absent" => d \in CompMoved(1..k)
      <4>1. k = 4
        BY <2>1, <3>1
      <4> QED BY <4>1 DEF CompMoved, CompDocs, CompRank
    <3>2. ASSUME 4 \in 1..k PROVE \A d \in CompDocs : compDoc'[d] = compPlan[o].doc[d]
      BY <2>2, <2>4, <2>5, <3>1, <3>2
    <3> QED BY <2>1, <2>3, <2>4, <3>2, CompDistinct
  <2>8. ASSUME NEW d \in CompDocs
        PROVE  \/ compPrev'[d] = compPlan[o].doc[d]
               \/ compPrev'[d] = "absent" /\ compDoc'[d] = compPlan[o].doc[d]
    BY <2>2, <2>4, <2>5
  <2> QED BY <2>1, <2>2, <2>4, <2>6, <2>7, <2>8, CompDistinct DEF CompSafe
<1>6. CASE script = "complete" /\ CompCompletes(o, 1..k)
  <2>1. compPc[o] \in {"complete", "completeAtOnce"}
    BY <1>6, CompPlaced
  <2>2. compDoc = compPlan[o].doc /\ compRuns = CompFrom(compDoc)
    BY <1>r, <2>1 DEF CompAdvanced
  <2>3. /\ UNCHANGED <<compDoc, compPrev, compRuns>> /\ compMarker' \in {compMarker, CompNoMark}
    BY <1>6 DEF CompCompletes
  <2> QED BY <1>r, <2>2, <2>3, CompDistinct DEF CompSafe, CompFrom
<1>7. CASE script = "destroy"
  BY <1>7, CompPlaced DEF CompTasked, CompWhole
<1> QED BY <1>0, <1>1, <1>2, <1>3, <1>4, <1>5, <1>6, <1>7 DEF CompDoes

\* An operation that is alone with the host.
CompAlone(o) ==
    /\ o \in CompAtWork \ compBeside /\ CompTasked(o) /\ CompMine(o)
    /\ o \in compUndone => compPc[o] = "failed"
LEMMA CompWorkedSafely ==
    ASSUME CompTypes, CompFresh, NEW o \in Op, CompAlone(o), CompWorks(o) \/ CompRests(o),
           compPlan' = compPlan, compTask[o] = "up", CompWhole(o)
    PROVE  CompSafe(o)'
<1>0. CompTasked(o) /\ CompAdvanced(o) /\ CompRestoring(o)
  BY DEF CompAlone, CompMine
<1>1. CASE CompRests(o)
  BY <1>0, <1>1 DEF CompRests, CompRestoring, CompSafe, compHost, compFiles, CompFrom
<1>2. CASE CompWorks(o)
  <2>1. PICK script \in CompScripts(o) : \E k \in 0..CompLength[script] :
            CompDoes(CompLaunched(o, script), 1..k)
    BY <1>2 DEF CompWorks
  <2> QED BY <1>0, <2>1, CompSafeKept
<1> QED BY <1>1, <1>2

\* Where nothing is promised but that the documents are there.
LEMMA CompEnds ==
    ASSUME NEW o \in Op, compPc'[o] \in {"undo", "failed", "again"}, o \notin compUndone',
           compTask[o] = "up" /\ CompWhole(o) => CompSafe(o)', compPlan' = compPlan,
           compTask' = compTask
    PROVE  CompMine(o)'
<1>1. CompAdvanced(o)'
  BY DEF CompAdvanced, CompForward
<1>2. CompRestoring(o)'
  BY DEF CompRestoring, CompWhole, CompForward
<1> QED BY <1>1, <1>2 DEF CompMine, CompSaid

LEMMA CompStarted ==
    ASSUME CompTypes, CompFresh, NEW o \in Op, CompStart(o)
    PROVE  CompMine(o)'
<1>1. compPlan'[o] = CompSeen /\ UNCHANGED <<compHost, compUndone>>
  BY DEF CompStart, CompTypes, CompSelfTypes
<1>2. compPc'[o] \in {"ingress", "destroy"} /\ compPc[o] = "start"
  BY DEF CompStart, CompGo, CompTypes, CompSelfTypes
<1>3. compMarker # CompMark("begun", o) /\ compDone # o
  BY <1>2, CompDistinct DEF CompFresh, CompEarly, CompUnmarked
<1>4. compPlan'[o].doc = compDoc' /\ compPlan'[o].runs = compRuns'
  BY <1>1 DEF CompSeen, compHost, compFiles
<1>5. compMarker' # CompMark("begun", o) /\ compDone' # o
  BY <1>1, <1>3 DEF compHost, compFiles
<1> QED BY <1>2, <1>4, <1>5
        DEF CompMine, CompAdvanced, CompRestoring, CompSafe, CompSaid, CompForward

\* The answered calls of one script, and those whose client goes.
LEMMA CompCalled ==
    ASSUME CompTypes, CompFresh, NEW o \in Op, CompAlone(o), compPc[o] # "failed",
           NEW script \in CompScripts(o), NEW next \in CompPlaces,
           NEW otherwise \in {"undo", "failed", "again", "restoreAtOnce"}, NEW undone \in SUBSET {o},
           CompCall(o, script, next, otherwise, undone)
    PROVE  /\ compPlan' = compPlan /\ compTask' = compTask
           /\ compTask[o] = "up" /\ CompWhole(o) => CompSafe(o)'
           /\ \/ /\ CompDoes(CompLaunched(o, script), 1..CompLength[script]) /\ compPc'[o] = next
                 /\ o \in compUndone' => o \in undone
              \/ /\ compPc'[o] = otherwise /\ o \notin compUndone'
                 /\ otherwise # "restoreAtOnce" => CompMine(o)'
<1>0. o \notin compUndone /\ compPc[o] # "start" /\ otherwise \in CompPlaces \ {"start", "ingress", "backup"}
  BY DEF CompAlone, CompAtWork, CompPlaces, CompOnce
<1>1. /\ CompFramed(o) /\ compPlan' = compPlan
      /\ \/ /\ CompDoes(CompLaunched(o, script), 1..CompLength[script]) /\ compPc'[o] = next
            /\ compUndone' = compUndone \union undone
         \/ compPc'[o] = otherwise /\ compUndone' = compUndone
  BY <1>0, CompCallFramed
<1>2. compTask' = compTask /\ (CompWorks(o) \/ CompRests(o))
  BY <1>1 DEF CompFramed
<1>3. compTask[o] = "up" /\ CompWhole(o) => CompSafe(o)'
  BY <1>1, <1>2, CompWorkedSafely
<1> QED BY <1>0, <1>1, <1>2, <1>3, CompEnds

\* The steps of a deploy that are answered.
LEMMA CompPreparedOn ==
    ASSUME CompTypes, CompFresh, NEW o \in Op, CompAlone(o), CompPrepare(o), o \notin compBeside'
    PROVE  CompMine(o)'
<1>0. /\ CompCall(o, compPc[o], CompAfter[compPc[o]], "undo", {})
      /\ \/ compPc[o] = "ingress" /\ CompAfter[compPc[o]] = "backup"
         \/ compPc[o] = "backup" /\ CompAfter[compPc[o]] = "assets"
         \/ compPc[o] = "assets" /\ CompAfter[compPc[o]] = "base"
         \/ compPc[o] = "base" /\ CompAfter[compPc[o]] = "override"
         \/ compPc[o] = "override" /\ CompAfter[compPc[o]] = "manifest"
         \/ compPc[o] = "manifest" /\ CompAfter[compPc[o]] = "compose"
      /\ compPc[o] \in DOMAIN CompAfter /\ CompAfter[compPc[o]] \in CompPlaces
  BY CompPrepares
<1> DEFINE next == CompAfter[compPc[o]]
<1>1. /\ compPc[o] \in CompScripts(o) /\ compPc[o] \notin {"start", "failed"}
      /\ {} \in SUBSET {o} /\ next \in CompPlaces
  BY <1>0, CompPlaced
<1>2. CompCall(o, compPc[o], next, "undo", {})
  BY <1>0
<1>3. CompAdvanced(o) /\ CompRestoring(o)
  BY DEF CompAlone, CompMine
<1>4. /\ compPlan' = compPlan /\ compTask' = compTask
      /\ compTask[o] = "up" /\ CompWhole(o) => CompSafe(o)'
      /\ \/ /\ CompDoes(CompLaunched(o, compPc[o]), 1..CompLength[compPc[o]])
            /\ compPc'[o] = next /\ o \notin compUndone'
         \/ CompMine(o)'
  <2> HIDE DEF next
  <2> QED BY <1>1, <1>2, CompCalled
<1>6. CASE /\ CompDoes(CompLaunched(o, compPc[o]), 1..CompLength[compPc[o]])
           /\ compPc'[o] = next /\ o \notin compUndone'
  <2>1. CASE compPc[o] = "ingress"
    <3>1. UNCHANGED <<compDoc, compRuns>> /\ compPc'[o] = "backup"
      BY <1>0, <1>1, <1>6, <2>1, CompRan DEF CompDocs
    <3>2. compDoc = compPlan[o].doc /\ compRuns = compPlan[o].runs
      BY <1>3, <2>1 DEF CompAdvanced
    <3>3. CompAdvanced(o)'
      BY <1>4, <3>1, <3>2 DEF CompAdvanced, CompForward
    <3>4. CompRestoring(o)'
      BY <1>3, <1>4, <3>1 DEF CompRestoring, CompWhole, CompForward
    <3> QED BY <1>6, <3>1, <3>3, <3>4 DEF CompMine, CompSaid
  <2>2. CASE compPc[o] = "backup"
    <3>1. /\ compPc'[o] = "assets" /\ \A d \in CompDocs : compPrev'[d] = compDoc[d]
          /\ compMarker' = CompMark("begun", o) /\ compDone' # o
      BY <1>0, <1>1, <1>6, <2>2, CompRan, CompAssumption
    <3>2. compDoc = compPlan[o].doc
      BY <1>3, <2>2 DEF CompAdvanced
    <3>3. CompAdvanced(o)'
      BY <3>1 DEF CompAdvanced, CompForward, CompUploaded
    <3>4. CompRestoring(o)'
      BY <1>3, <1>4, <3>1, <3>2 DEF CompRestoring, CompWhole, CompForward
    <3> QED BY <1>6, <3>1, <3>3, <3>4 DEF CompMine, CompSaid
  <2>3. CASE compPc[o] \in {"assets", "base", "override", "manifest"}
    <3>1. /\ UNCHANGED <<compMarker, compDone, compPrev>>
          /\ compPc[o] = "assets" => compDoc' = compDoc
          /\ compPc[o] # "assets" => compDoc' = [compDoc EXCEPT ![compPc[o]] = o]
      BY <1>1, <1>6, <2>3, CompRan DEF CompDocs
    <3>2. /\ compPc'[o] \in {"base", "override", "manifest", "compose"}
          /\ CompUploaded[compPc'[o]] \subseteq CompUploaded[compPc[o]] \union {compPc[o]}
          /\ CompUploaded[compPc'[o]] \subseteq CompDocs /\ compPc[o] \in CompForward
      BY <1>0, <1>6, <2>3 DEF CompUploaded, CompDocs, CompForward
    <3>3. compDoc \in [CompDocs -> CompTags]
      BY DEF CompTypes, CompHostTypes
    <3>4. /\ compMarker = CompMark("begun", o) /\ compDone # o
          /\ \A d \in CompUploaded[compPc[o]] : compDoc[d] = o
      BY <1>3, <3>2 DEF CompAdvanced
    <3>5. \A d \in CompUploaded[compPc'[o]] : compDoc'[d] = o
      BY <2>3, <3>1, <3>2, <3>3, <3>4 DEF CompDocs
    <3>6. CompAdvanced(o)'
      BY <3>1, <3>2, <3>4, <3>5 DEF CompAdvanced
    <3>7. CompRestoring(o)'
      BY <1>3, <1>4, <3>1, <3>2 DEF CompRestoring, CompWhole
    <3> QED BY <1>6, <3>2, <3>6, <3>7 DEF CompMine, CompSaid
  <2> QED BY <1>0, <2>1, <2>2, <2>3
<1> QED BY <1>4, <1>6

LEMMA CompQuietOn ==
    ASSUME CompTypes, CompFresh, NEW o \in Op, CompAlone(o), UNCHANGED compHost,
           compPlan' = compPlan, compTask' = compTask
    PROVE  compTask[o] = "up" /\ CompWhole(o) => CompSafe(o)'
  BY DEF CompAlone, CompMine, CompRestoring, CompSafe, compHost, compFiles, CompFrom

LEMMA CompDeployedOn ==
    ASSUME CompTypes, CompFresh, NEW o \in Op, CompAlone(o),
           CompCompose(o) \/ CompWatch(o) \/ CompRecord(o)
    PROVE  CompMine(o)'
<1>0. CompAdvanced(o) /\ CompRestoring(o)
  BY DEF CompAlone, CompMine
<1>1. CASE compPc[o] = "compose" /\ CompCall(o, "compose", "stable", "restoreAtOnce", {})
  <2>1. "compose" \in CompScripts(o) /\ {} \in SUBSET {o} /\ "stable" \in CompPlaces
    BY <1>1, CompPlaced DEF CompPlaces, CompForward
  <2>2. /\ compPlan' = compPlan /\ compTask' = compTask
        /\ compTask[o] = "up" /\ CompWhole(o) => CompSafe(o)'
        /\ \/ /\ CompDoes(CompLaunched(o, "compose"), 1..CompLength["compose"])
              /\ compPc'[o] = "stable" /\ o \notin compUndone'
           \/ compPc'[o] = "restoreAtOnce" /\ o \notin compUndone'
    BY <1>1, <2>1, CompCalled
  <2>3. /\ compMarker = CompMark("begun", o) /\ compDone # o
        /\ \A d \in CompDocs : compDoc[d] = o
    BY <1>0, <1>1 DEF CompAdvanced, CompForward, CompUploaded
  <2>4. CompDoes(CompLaunched(o, "compose"), 1..CompLength["compose"]) =>
            UNCHANGED <<compDoc, compMarker, compDone, compPrev>> /\ compRuns' = <<o, o>>
    BY <2>1, <2>3, CompRan DEF CompDocs, CompFrom
  <2>5. CASE compPc'[o] = "stable" /\ UNCHANGED <<compDoc, compMarker, compDone, compPrev>> /\ compRuns' = <<o, o>>
    <3>1. CompAdvanced(o)'
      BY <2>3, <2>5 DEF CompAdvanced, CompForward, CompUploaded
    <3>2. CompRestoring(o)'
      BY <1>0, <1>1, <2>2, <2>5 DEF CompRestoring, CompWhole, CompForward
    <3> QED BY <2>5, <3>1, <3>2 DEF CompMine, CompSaid
  <2>6. CASE compPc'[o] = "restoreAtOnce"
    <3>1. CompAdvanced(o)'
      BY <2>6 DEF CompAdvanced, CompForward
    <3>2. compMarker' # CompNoMark
      <4>1. CompWorks(o)
        BY <1>1, <2>1, CompCalls DEF CompPlaces, CompOnce
      <4>2. PICK script \in CompScripts(o) : \E k \in 0..CompLength[script] :
                CompDoes(CompLaunched(o, script), 1..k)
        BY <4>1 DEF CompWorks
      <4>3. PICK k \in 0..CompLength[script] : CompDoes(CompLaunched(o, script), 1..k)
        BY <4>2
      <4>4. script = "compose" /\ CompLaunched(o, script).script = script
        BY <1>1, CompPlaced, CompLaunches
      <4>5. compMarker' = compMarker
        BY <4>3, <4>4 DEF CompDoes, CompBrings, compFiles, CompDocs
      <4> QED BY <2>3, <4>5, CompDistinct
    <3>3. CompRestoring(o)'
      BY <2>2, <2>6, <3>2 DEF CompRestoring, CompWhole, CompForward
    <3> QED BY <2>6, <3>1, <3>3 DEF CompMine, CompSaid
  <2> QED BY <2>2, <2>4, <2>5, <2>6
<1>2. CASE /\ \/ compPc[o] = "compose" /\ CompGo(o, "undo")
              \/ compPc[o] \in {"stable", "expose"} /\ CompWatch(o)
           /\ CompQuietly /\ UNCHANGED compUndone
  <2>1. /\ UNCHANGED <<compHost, compPlan, compTask, compUndone>> /\ o \notin compUndone
    BY <1>2 DEF CompQuietly, compSelf, CompAlone
  <2>2. compTask[o] = "up" /\ CompWhole(o) => CompSafe(o)'
    BY <2>1, CompQuietOn
  <2>3. \/ compPc'[o] = "undo"
        \/ compPc[o] = "stable" /\ compPc'[o] \in {"record", "restoreAtOnce"}
        \/ compPc[o] = "expose" /\ compPc'[o] = "succeeded"
    BY <1>2 DEF CompWatch, CompGo, CompTypes, CompSelfTypes
  <2>4. CASE compPc'[o] = "undo"
    BY <2>1, <2>2, <2>4, CompEnds
  <2>5. CASE compPc[o] \in {"stable", "expose"} /\ compPc'[o] \in {"record", "restoreAtOnce", "succeeded"}
    <3>1. /\ compMarker = CompMark("begun", o) /\ compDone # o /\ compRuns = <<o, o>>
          /\ \A d \in CompDocs : compDoc[d] = o
      BY <1>0, <2>5 DEF CompAdvanced, CompForward, CompUploaded
    <3>2. compMarker' = CompMark("begun", o) /\ compDone' # o /\ compRuns' = <<o, o>>
          /\ compDoc' = compDoc /\ compPrev' = compPrev
      BY <2>1, <3>1 DEF compHost, compFiles
    <3>3. CompAdvanced(o)'
      BY <2>5, <3>1, <3>2 DEF CompAdvanced, CompForward, CompUploaded
    <3>4. CompRestoring(o)'
      BY <1>0, <2>1, <2>2, <2>5, <3>2, CompDistinct DEF CompRestoring, CompWhole, CompForward
    <3> QED BY <2>1, <2>5, <3>3, <3>4 DEF CompMine, CompSaid
  <2> QED BY <2>3, <2>4, <2>5
<1>3. CASE compPc[o] = "record" /\ CompCall(o, "manifest", "expose", "undo", {})
  <2>1. "manifest" \in CompScripts(o) /\ {} \in SUBSET {o} /\ "expose" \in CompPlaces
    BY <1>3, CompPlaced DEF CompPlaces, CompForward
  <2>2. /\ compPlan' = compPlan /\ compTask' = compTask
        /\ compTask[o] = "up" /\ CompWhole(o) => CompSafe(o)'
        /\ \/ /\ CompDoes(CompLaunched(o, "manifest"), 1..CompLength["manifest"])
              /\ compPc'[o] = "expose" /\ o \notin compUndone'
           \/ CompMine(o)'
    BY <1>3, <2>1, CompCalled
  <2>3. /\ compMarker = CompMark("begun", o) /\ compDone # o /\ compRuns = <<o, o>>
        /\ \A d \in CompDocs : compDoc[d] = o
    BY <1>0, <1>3 DEF CompAdvanced, CompForward, CompUploaded
  <2>4. CASE /\ CompDoes(CompLaunched(o, "manifest"), 1..CompLength["manifest"])
             /\ compPc'[o] = "expose" /\ o \notin compUndone'
    <3>1. /\ UNCHANGED <<compMarker, compDone, compPrev, compRuns>>
          /\ compDoc' = [compDoc EXCEPT !["manifest"] = o]
      BY <2>1, <2>4, CompRan DEF CompDocs
    <3>2. \A d \in CompDocs : compDoc'[d] = o
      BY <2>3, <3>1 DEF CompTypes, CompHostTypes
    <3>3. CompAdvanced(o)'
      BY <2>3, <2>4, <3>1, <3>2 DEF CompAdvanced, CompForward, CompUploaded
    <3>4. CompRestoring(o)'
      BY <1>0, <1>3, <2>2, <2>4, <3>1 DEF CompRestoring, CompWhole, CompForward
    <3> QED BY <2>4, <3>3, <3>4 DEF CompMine, CompSaid
  <2> QED BY <2>2, <2>4
<1> QED BY <1>1, <1>2, <1>3 DEF CompCompose, CompWatch, CompRecord

\* The steps of rollback_previous.
LEMMA CompRestoredOn ==
    ASSUME CompTypes, CompFresh, NEW o \in Op, CompAlone(o), CompRestore(o)
    PROVE  CompMine(o)'
<1>0. CompAdvanced(o) /\ CompRestoring(o) /\ o \notin compUndone
      /\ compPc[o] \in {"restore", "restoreAtOnce"}
  BY DEF CompAlone, CompMine, CompRestore
<1> DEFINE next == CompThen(o, "reapply", "reapplyAtOnce")
<1>1. CompGiveUp(o) \in {"undo", "failed"} /\ next \in {"reapply", "reapplyAtOnce"}
  BY DEF CompGiveUp, CompThen
<1> HIDE DEF next
<1>2. ASSUME compPc'[o] = next, o \notin compUndone', compPlan' = compPlan, compTask' = compTask,
             compTask[o] = "up" /\ CompWhole(o) =>
                CompSafe(o)' /\ compDoc' = compPlan[o].doc /\ compMarker' # CompNoMark
      PROVE  CompMine(o)'
  <2>1. CompAdvanced(o)'
    BY <1>1, <1>2 DEF CompAdvanced, CompForward
  <2>2. CompRestoring(o)'
    BY <1>1, <1>2 DEF CompRestoring, CompWhole, CompForward
  <2> QED BY <1>1, <1>2, <2>1, <2>2 DEF CompMine, CompSaid
<1>3. CASE CompRestorable(o) /\ CompCall(o, "restore", next, CompGiveUp(o), {})
  <2>1. "restore" \in CompScripts(o) /\ {} \in SUBSET {o} /\ next \in CompPlaces
    BY <1>0, <1>1, <1>3, CompPlaced DEF CompPlaces, CompOnce, CompBack
  <2>2. /\ compPlan' = compPlan /\ compTask' = compTask
        /\ compTask[o] = "up" /\ CompWhole(o) => CompSafe(o)'
        /\ \/ /\ CompDoes(CompLaunched(o, "restore"), 1..CompLength["restore"])
              /\ compPc'[o] = next /\ o \notin compUndone'
           \/ CompMine(o)'
    BY <1>0, <1>1, <1>3, <2>1, CompCalled
  <2>3. CASE /\ CompDoes(CompLaunched(o, "restore"), 1..CompLength["restore"])
             /\ compPc'[o] = next /\ o \notin compUndone'
    <3>1. /\ \A d \in CompDocs :
                compDoc'[d] = IF compPrev[d] # "absent" THEN compPrev[d] ELSE compDoc[d]
          /\ compMarker' = CompMark("restored", o)
      BY <2>1, <2>3, CompRan
    <3>2. compMarker = CompMark("begun", o)
      BY <1>3 DEF CompRestorable
    <3>3. ASSUME compTask[o] = "up", CompWhole(o) PROVE compDoc' = compPlan[o].doc
      <4>1. \A d \in CompDocs : compPlan[o].doc[d] # "absent"
        BY <3>3 DEF CompWhole
      <4>2. \A d \in CompDocs :
                \/ compPrev[d] = compPlan[o].doc[d]
                \/ compPrev[d] = "absent" /\ compDoc[d] = compPlan[o].doc[d]
        BY <1>0, <3>2, <3>3 DEF CompRestoring, CompSafe
      <4>3. \A d \in CompDocs : compDoc'[d] = compPlan[o].doc[d]
        BY <3>1, <4>1, <4>2
      <4>4. compDoc' \in [CompDocs -> CompTags] /\ compPlan[o].doc \in [CompDocs -> CompTags]
        BY <2>1, <2>3, CompPlaced, CompDoesTypes
           DEF CompHostTypes, CompTypes, CompSelfTypes, CompViews
      <4> QED BY <4>3, <4>4
    <3> QED BY <1>2, <2>2, <2>3, <3>1, <3>3, CompDistinct
  <2> QED BY <2>2, <2>3
<1>4. CASE /\ CompGo(o, IF CompRestored(o) THEN next ELSE CompGiveUp(o)) /\ CompQuietly
           /\ UNCHANGED compUndone
  <2>1. /\ UNCHANGED <<compHost, compPlan, compTask, compUndone>>
        /\ compPc'[o] = IF CompRestored(o) THEN next ELSE CompGiveUp(o)
    BY <1>4 DEF CompQuietly, compSelf, CompGo, CompTypes, CompSelfTypes
  <2>2. compTask[o] = "up" /\ CompWhole(o) => CompSafe(o)'
    BY <2>1, CompQuietOn
  <2>3. CASE CompRestored(o)
    <3>1. ASSUME compTask[o] = "up", CompWhole(o)
          PROVE  compDoc = compPlan[o].doc /\ compMarker # CompNoMark
      BY <1>0, <2>3, <3>1, CompDistinct DEF CompRestoring, CompSafe, CompRestored
    <3> QED BY <1>0, <1>2, <2>1, <2>2, <2>3, <3>1 DEF compHost, compFiles
  <2>4. CASE ~CompRestored(o)
    BY <1>0, <1>1, <2>1, <2>2, <2>4, CompEnds
  <2> QED BY <2>3, <2>4
<1> QED BY <1>3, <1>4 DEF CompRestore, next

LEMMA CompReappliedOn ==
    ASSUME CompTypes, CompFresh, NEW o \in Op, CompAlone(o), CompReapply(o)
    PROVE  CompMine(o)'
<1>0. CompAdvanced(o) /\ CompRestoring(o) /\ o \notin compUndone
      /\ compPc[o] \in {"reapply", "reapplyAtOnce"}
  BY DEF CompAlone, CompMine, CompReapply
<1> DEFINE next == CompThen(o, "complete", "completeAtOnce")
<1>1. CompGiveUp(o) \in {"undo", "failed"} /\ next \in {"complete", "completeAtOnce"}
  BY DEF CompGiveUp, CompThen
<1>2. CompCall(o, "compose", next, CompGiveUp(o), {})
  BY DEF CompReapply
<1> HIDE DEF next
<1>3. "compose" \in CompScripts(o) /\ {} \in SUBSET {o} /\ next \in CompPlaces
  BY <1>0, <1>1, CompPlaced DEF CompPlaces, CompOnce, CompBack
<1>4. /\ compPlan' = compPlan /\ compTask' = compTask
      /\ compTask[o] = "up" /\ CompWhole(o) => CompSafe(o)'
      /\ \/ /\ CompDoes(CompLaunched(o, "compose"), 1..CompLength["compose"])
            /\ compPc'[o] = next /\ o \notin compUndone'
         \/ CompMine(o)'
  BY <1>0, <1>1, <1>2, <1>3, CompCalled
<1>5. CASE /\ CompDoes(CompLaunched(o, "compose"), 1..CompLength["compose"])
           /\ compPc'[o] = next /\ o \notin compUndone'
  <2>1. compDoc' = compDoc /\ compRuns' = CompFrom(compDoc)
    BY <1>3, <1>5, CompRan DEF CompDocs
  <2>2. CompAdvanced(o)'
    BY <1>1, <1>5, <2>1 DEF CompAdvanced, CompForward, CompFrom
  <2>3. CompRestoring(o)'
    BY <1>0, <1>1, <1>4, <1>5, <2>1 DEF CompRestoring, CompWhole, CompForward
  <2> QED BY <1>1, <1>5, <2>2, <2>3 DEF CompMine, CompSaid
<1> QED BY <1>4, <1>5

LEMMA CompCompletedOn ==
    ASSUME CompTypes, CompFresh, NEW o \in Op, CompAlone(o), CompComplete(o)
    PROVE  CompMine(o)'
<1>0. CompAdvanced(o) /\ CompRestoring(o) /\ CompTasked(o) /\ o \notin compUndone
      /\ compPc[o] \in {"complete", "completeAtOnce"}
  BY DEF CompAlone, CompMine, CompComplete
<1>1. "complete" \in CompScripts(o) /\ {} \in SUBSET {o} /\ {"undo", "failed"} \subseteq CompPlaces
  BY <1>0, CompPlaced DEF CompPlaces
<1>2. CASE compPc[o] = "completeAtOnce" /\ CompCall(o, "complete", "undo", "undo", {})
  <2>1. /\ compPlan' = compPlan /\ compTask' = compTask
        /\ compTask[o] = "up" /\ CompWhole(o) => CompSafe(o)'
        /\ compPc'[o] = "undo" /\ o \notin compUndone'
    BY <1>0, <1>1, <1>2, CompCalled
  <2> QED BY <2>1, CompEnds
<1>3. CASE compPc[o] = "complete" /\ CompCall(o, "complete", "failed", "failed", {o})
  <2>1. /\ compPlan' = compPlan /\ compTask' = compTask
        /\ compTask[o] = "up" /\ CompWhole(o) => CompSafe(o)'
        /\ \/ /\ CompDoes(CompLaunched(o, "complete"), 1..CompLength["complete"])
              /\ compPc'[o] = "failed"
           \/ CompMine(o)'
    BY <1>0, <1>1, <1>3, CompCalled
  <2>2. CASE /\ CompDoes(CompLaunched(o, "complete"), 1..CompLength["complete"])
             /\ compPc'[o] = "failed"
    <3>1. compDoc' = compDoc /\ compRuns' = compRuns
      BY <1>1, <2>2, CompRan DEF CompDocs
    <3>2. compRuns = CompFrom(compDoc) /\ compTask[o] = "up" /\ compPlan[o].status = "revision"
          /\ (CompWhole(o) => compDoc = compPlan[o].doc)
      BY <1>0, <1>3 DEF CompAdvanced, CompRestoring, CompTasked, CompBack
    <3>3. CompAdvanced(o)'
      BY <2>2 DEF CompAdvanced, CompForward
    <3>4. CompRestoring(o)'
      BY <2>1, <2>2 DEF CompRestoring, CompWhole, CompForward
    <3>5. CompSaid(o)'
      BY <2>1, <3>1, <3>2 DEF CompSaid, CompWhole, CompFrom
    <3> QED BY <3>3, <3>4, <3>5 DEF CompMine
  <2> QED BY <2>1, <2>2
<1> QED BY <1>2, <1>3 DEF CompComplete, CompGiveUp, CompThen, CompAtOnce

\* The compensation that the core asks for, and the removal.
LEMMA CompUndoneOn ==
    ASSUME CompTypes, CompFresh, NEW o \in Op, CompAlone(o), CompUndo(o)
    PROVE  CompMine(o)'
<1>0. CompRestoring(o) /\ CompTasked(o) /\ o \notin compUndone /\ compPc[o] = "undo"
  BY DEF CompAlone, CompMine, CompUndo
<1>1. UNCHANGED <<compHost, compPlan, compTask>> /\ compTask[o] = "up"
  BY <1>0 DEF CompUndo, CompQuietly, compSelf, CompTasked
<1>2. CompWhole(o) => CompSafe(o) /\ CompSafe(o)'
  BY <1>0, <1>1, CompQuietOn DEF CompRestoring
<1> DEFINE already == compMarker = CompNoMark /\ compDoc["manifest"] = compPlan[o].doc["manifest"]
<1>3. \/ compPlan[o].status = "absent" /\ compPc'[o] = "destroy" /\ compUndone' = compUndone
      \/ /\ compPlan[o].status = "revision" /\ ~already
         /\ compPc'[o] = "restore" /\ compUndone' = compUndone
      \/ compPlan[o].status = "revision" /\ already /\ compPc'[o] = "failed"
      \/ compPc'[o] = "failed" /\ compUndone' = compUndone
  BY DEF CompUndo, CompGo, CompTypes, CompSelfTypes
<1>4. CASE compPlan[o].status = "absent" /\ compPc'[o] = "destroy" /\ compUndone' = compUndone
  <2>1. CompAdvanced(o)'
    BY <1>4 DEF CompAdvanced, CompForward
  <2>2. CompRestoring(o)'
    BY <1>1, <1>4 DEF CompRestoring, CompWhole
  <2> QED BY <1>4, <2>1, <2>2 DEF CompMine, CompSaid
<1>5. CASE ~already /\ compPc'[o] = "restore" /\ compUndone' = compUndone
  <2>1. CompAdvanced(o)'
    BY <1>5 DEF CompAdvanced, CompForward
  <2>2. CompWhole(o) => compMarker' # CompNoMark
    <3>1. CompWhole(o) /\ compMarker = CompNoMark => compDoc = compPlan[o].doc
      BY <1>2, CompDistinct DEF CompSafe
    <3> QED BY <1>1, <1>5, <3>1 DEF compHost, compFiles
  <2>3. CompRestoring(o)'
    BY <1>1, <1>2, <1>5, <2>2 DEF CompRestoring, CompWhole, CompForward
  <2> QED BY <1>5, <2>1, <2>3 DEF CompMine, CompSaid
<1>6. CASE compPlan[o].status = "revision" /\ already /\ compPc'[o] = "failed"
  <2>1. CompAdvanced(o)'
    BY <1>6 DEF CompAdvanced, CompForward
  <2>2. CompRestoring(o)'
    BY <1>1, <1>2, <1>6 DEF CompRestoring, CompWhole, CompForward
  <2>3. CompWhole(o) => /\ compDoc = compPlan[o].doc
                        /\ compRuns \in {compPlan[o].runs, CompFrom(compDoc)}
    BY <1>2, <1>6, CompDistinct DEF CompSafe
  <2>4. CompSaid(o)'
    BY <1>1, <1>6, <2>3 DEF CompSaid, CompWhole, CompFrom, compHost, compFiles
  <2> QED BY <2>1, <2>2, <2>4 DEF CompMine
<1>7. CASE compPc'[o] = "failed" /\ compUndone' = compUndone
  BY <1>0, <1>1, <1>2, <1>7, CompEnds
<1> QED BY <1>3, <1>4, <1>5, <1>6, <1>7

LEMMA CompDestroyedOn ==
    ASSUME CompTypes, CompFresh, NEW o \in Op, CompAlone(o), CompDestroy(o)
    PROVE  CompMine(o)'
<1>0. CompTasked(o) /\ o \notin compUndone /\ compPc[o] = "destroy"
  BY DEF CompAlone, CompDestroy
<1>1. "destroy" \in CompScripts(o) /\ {} \in SUBSET {o} /\ {o} \in SUBSET {o}
      /\ {"failed", "destroyed"} \subseteq CompPlaces
  BY <1>0, CompPlaced DEF CompPlaces
<1>2. CompDoes(CompLaunched(o, "destroy"), 1..CompLength["destroy"]) =>
            compRuns' = CompNothing /\ compKept' = {} /\ compDoc'["manifest"] = "absent"
  BY <1>1, CompRan
<1>3. CASE compTask[o] = "up" /\ CompCall(o, "destroy", "failed", "failed", {o})
  <2>1. /\ compPlan' = compPlan /\ compTask' = compTask
        /\ \/ /\ CompDoes(CompLaunched(o, "destroy"), 1..CompLength["destroy"])
              /\ compPc'[o] = "failed"
           \/ CompMine(o)'
    BY <1>0, <1>1, <1>3, CompCalled
  <2>2. compPlan[o].status = "absent"
    BY <1>0, <1>3 DEF CompTasked
  <2> QED BY <1>2, <2>1, <2>2
          DEF CompMine, CompAdvanced, CompRestoring, CompSaid, CompWhole, CompForward
<1>4. CASE compTask[o] = "down" /\ CompCall(o, "destroy", "destroyed", "again", {})
  <2>1. /\ compPlan' = compPlan /\ compTask' = compTask
        /\ \/ /\ CompDoes(CompLaunched(o, "destroy"), 1..CompLength["destroy"])
              /\ compPc'[o] = "destroyed"
           \/ CompMine(o)'
    BY <1>0, <1>1, <1>4, CompCalled
  <2> QED BY <1>2, <1>4, <2>1 DEF CompMine, CompAdvanced, CompRestoring, CompSaid, CompForward
<1> QED BY <1>3, <1>4 DEF CompDestroy, CompTypes, CompSelfTypes

\* Whatever its step, an operation that is still alone is in order.
LEMMA CompMineKept ==
    ASSUME CompTypes, CompLocked, CompFresh, NEW o \in Op, CompAct(o),
           o \in CompAtWork => CompTasked(o), o \in compUndone => compPc[o] \in {"failed", "over"},
           o \in CompAtWork \ compBeside => CompMine(o), o \in CompAtWork' \ compBeside'
    PROVE  CompMine(o)'
<1>0. CompFramed(o) /\ compPc[o] # "over"
  BY CompFrames, CompTaskedKept
<1>1. CASE CompStart(o)
  BY <1>1, CompStarted
<1>2. ASSUME compPc[o] # "start" PROVE CompAlone(o) /\ compPlan' = compPlan /\ compTask' = compTask
  BY <1>0, <1>2 DEF CompFramed, CompAtWork, CompAlone
<1>3. CASE CompPrepare(o)
  <2>1. compPc[o] # "start"
    BY <1>3 DEF CompPrepare, CompAfter
  <2> QED BY <1>2, <1>3, <2>1, CompPreparedOn
<1>4. CASE CompCompose(o) \/ CompWatch(o) \/ CompRecord(o)
  <2>1. compPc[o] # "start"
    BY <1>4 DEF CompCompose, CompWatch, CompRecord
  <2> QED BY <1>2, <1>4, <2>1, CompDeployedOn
<1>5. CASE CompRestore(o)
  BY <1>2, <1>5, CompRestoredOn DEF CompRestore
<1>6. CASE CompReapply(o)
  BY <1>2, <1>6, CompReappliedOn DEF CompReapply
<1>7. CASE CompComplete(o)
  BY <1>2, <1>7, CompCompletedOn DEF CompComplete
<1>8. CASE CompUndo(o)
  BY <1>2, <1>8, CompUndoneOn DEF CompUndo
<1>9. CASE CompDestroy(o)
  BY <1>2, <1>9, CompDestroyedOn DEF CompDestroy
<1>10. CASE CompFinish(o) \/ CompDie(o)
  BY <1>10 DEF CompFinish, CompDie, CompGo, CompAtWork, CompTypes, CompSelfTypes
<1>11. CASE CompCancel(o)
  <2>1. compPc[o] \notin {"start", "failed"} /\ compPc'[o] = "undo" /\ compUndone' = compUndone
    BY <1>11 DEF CompCancel, CompApplying, CompAfter, CompGo, CompTypes, CompSelfTypes
  <2>2. CompAlone(o) /\ compPlan' = compPlan /\ compTask' = compTask
    BY <1>2, <2>1
  <2>3. compTask[o] = "up" /\ CompWhole(o) => CompSafe(o)'
    BY <1>0, <2>2, CompWorkedSafely DEF CompFramed
  <2>4. o \notin compUndone'
    BY <2>1, <2>2 DEF CompAlone
  <2> QED BY <2>1, <2>2, <2>3, <2>4, CompEnds
<1>12. CASE CompDrop(o)
  <2>1. compPc[o] # "start" /\ UNCHANGED <<compHost, compPc, compUndone>>
    BY <1>12 DEF CompDrop, CompLocked, CompAtWork
  <2>2. CompMine(o) /\ compPlan' = compPlan /\ compTask' = compTask
    BY <1>2, <2>1 DEF CompAlone
  <2> QED BY <2>1, <2>2 DEF CompMine, CompAdvanced, CompRestoring, CompSafe, CompSaid, CompWhole,
                            CompFrom, compHost, compFiles
<1> QED BY <1>1, <1>3, <1>4, <1>5, <1>6, <1>7, <1>8, <1>9, <1>10, <1>11, <1>12 DEF CompAct, CompStep

\* Another one is no longer alone, or finds the host as it was.
LEMMA CompOthersKept ==
    ASSUME NEW o \in Op, CompFramed(o), NEW q \in Op, q # o, q \in CompAtWork' \ compBeside',
           q \in CompAtWork \ compBeside => CompMine(q)
    PROVE  CompMine(q)'
<1>1. compPc'[q] = compPc[q] /\ compPlan'[q] = compPlan[q] /\ compTask' = compTask
      /\ (q \in compUndone' <=> q \in compUndone) /\ q \in CompAtWork \ compBeside
  BY DEF CompFramed, CompAtWork
<1>2. CompRests(o)
  BY <1>1 DEF CompFramed, CompWorks
<1>3. UNCHANGED <<compDoc, compPrev, compMarker, compDone, compRuns, compKept>> /\ CompMine(q)
  BY <1>1, <1>2 DEF CompRests, compHost, compFiles
<1>4. CompAdvanced(q)'
  BY <1>1, <1>3 DEF CompMine, CompAdvanced, CompFrom
<1>5. CompRestoring(q)'
  BY <1>1, <1>3 DEF CompMine, CompRestoring, CompSafe, CompWhole, CompFrom
<1>6. CompSaid(q)'
  BY <1>1, <1>3 DEF CompMine, CompSaid, CompWhole, CompFrom
<1> QED BY <1>4, <1>5, <1>6 DEF CompMine

LEMMA CompActs ==
    ASSUME CompInv, NEW o \in Op, CompAct(o)
    PROVE  CompInv'
<1>1. /\ CompTypes /\ CompLocked /\ CompFresh /\ (o \in CompAtWork => CompTasked(o))
      /\ o \in compUndone => compPc[o] \in {"failed", "over"}
      /\ o \in CompAtWork \ compBeside => CompMine(o)
  BY DEF CompInv
<1>2. CompFramed(o)
  BY <1>1, CompFrames
<1>3. CompTypes' /\ CompLocked' /\ CompFresh'
  BY <1>1, <1>2, CompTypesKept, CompLockedKept, CompFreshKept
<1>4. /\ o \in CompAtWork' => CompTasked(o)'
      /\ compUndone' # compUndone => compPc'[o] = "failed"
      /\ compPc[o] = "failed" => compPc'[o] \in {"failed", "over"}
      /\ compPc[o] # "over"
  BY <1>1, CompTaskedKept
<1>5. ASSUME NEW q \in Op, q \in CompAtWork' PROVE CompTasked(q)'
  <2>1. CASE q # o
    <3>1. /\ compPc'[q] = compPc[q] /\ compPlan'[q] = compPlan[q] /\ compTask' = compTask
      BY <1>2, <2>1 DEF CompFramed
    <3> QED BY <1>5, <3>1 DEF CompInv, CompAtWork, CompTasked
  <2> QED BY <1>4, <1>5, <2>1
<1>6. ASSUME NEW q \in compUndone' PROVE compPc'[q] \in {"failed", "over"}
  <2>1. CASE q = o
    BY <1>1, <1>2, <1>4, <1>6, <2>1 DEF CompFramed
  <2>2. CASE q # o
    BY <1>2, <2>2 DEF CompFramed, CompInv, CompTypes, CompSelfTypes
  <2> QED BY <2>1, <2>2
<1>7. ASSUME NEW q \in CompAtWork' \ compBeside' PROVE CompMine(q)'
  <2>1. CASE q = o
    BY <1>1, <1>7, <2>1, CompMineKept
  <2>2. CASE q # o
    BY <1>2, <1>7, <2>2, CompOthersKept DEF CompInv, CompAtWork
  <2> QED BY <2>1, <2>2
<1> QED BY <1>3, <1>5, <1>6, <1>7 DEF CompInv, CompAtWork

\* The next command of a script without a client: nobody is alone any more.
LEMMA CompStraysOn ==
    ASSUME CompInv, NEW s \in compStray, CompGoesOn(s)
    PROVE  CompInv'
<1>0. CompTypes /\ s \in CompRemote /\ s.done + 1 \in Nat /\ s.done + 1 <= CompLength[s.script]
      /\ s.of \in Op
  <2>1. CompTypes /\ s \in CompRemote
    BY DEF CompInv, CompTypes
  <2>2. CompLength[s.script] \in 1..5
    BY <2>1, CompLengths DEF CompRemote
  <2> QED BY <2>1, <2>2 DEF CompRemote
<1>1. /\ CompDoes(s, {s.done + 1}) /\ UNCHANGED <<compSelf, compPc, compUndone, compLeft>>
      /\ compStray' = (compStray \ {s}) \union CompRest(s, s.done + 1)
      /\ compBeside' = compBeside \union CompAtWork
  BY DEF CompGoesOn, CompBesides
<1>2. \A r \in CompRest(s, s.done + 1) : r \in CompRemote /\ r.of = s.of /\ r.script = s.script
  BY <1>0, CompRestIs
<1>3. CompTypes'
  <2>1. CompHostTypes'
    BY <1>0, <1>1, CompDoesTypes
  <2>2. CompSelfTypes'
    BY <1>0, <1>1 DEF CompTypes, CompSelfTypes, compSelf, CompAtWork
  <2> QED BY <1>0, <1>1, <1>2, <2>1, <2>2 DEF CompTypes
<1>4. CompLocked' /\ CompAtWork' = CompAtWork
  BY <1>1 DEF CompInv, CompLocked, compSelf, CompAtWork
<1>5. CompFresh'
  <2>1. compTask' = compTask /\ compPc' = compPc
    BY <1>1 DEF compSelf
  <2>2. ASSUME NEW q \in Op, compTask[q] = "down" \/ CompEarly(q) PROVE CompUnmarked(q)'
    <3>1. CompUnmarked(q) /\ (q = s.of => s.script = "destroy")
      BY <2>2, CompAssumption DEF CompInv, CompFresh
    <3> QED BY <1>0, <1>1, <3>1, CompDoesMarks
  <2>3. ASSUME NEW r \in compStray', r.script # "destroy"
        PROVE  compTask[r.of] = "up" /\ ~CompEarly(r.of)
    <3>1. CASE r \in compStray
      BY <2>3, <3>1 DEF CompInv, CompFresh
    <3>2. CASE r \in CompRest(s, s.done + 1)
      BY <1>2, <2>3, <3>2 DEF CompInv, CompFresh
    <3> QED BY <1>1, <3>1, <3>2
  <2> QED BY <2>1, <2>2, <2>3 DEF CompFresh, CompEarly
<1>6. \A o \in CompAtWork' : CompTasked(o)'
  BY <1>1, <1>4 DEF CompInv, CompTasked, compSelf
<1> QED BY <1>1, <1>3, <1>4, <1>5, <1>6 DEF CompInv

LEMMA CompInitially == CompInit => CompInv
<1> SUFFICES ASSUME CompInit PROVE CompInv
  OBVIOUS
<1>1. CompTypes
  <2>1. CompHostTypes
    BY DEF CompInit, CompHostTypes, CompNoDocs, CompNoMark, CompMark, CompTags, CompRunning
  <2>2. CompSeen \in CompViews
    BY <2>1 DEF CompHostTypes, CompSeen, CompStatus, CompViews
  <2>3. CompSelfTypes
    <3>1. compTask \in [Op -> {"up", "down"}]
      <4>1. compTask \in [Op -> CompTasks] /\ CompTasks \subseteq {"up", "down"}
        BY CompAssumption DEF CompInit
      <4> QED BY <4>1
    <3>0. compLeft \in 0..CompBudget
      BY CompAssumption DEF CompInit
    <3>2. compPlan \in [Op -> CompViews] /\ compPc \in [Op -> CompPlaces]
      BY <2>2 DEF CompInit, CompPlaces
    <3> QED BY <3>0, <3>1, <3>2 DEF CompInit, CompSelfTypes
  <2> QED BY <2>1, <2>3 DEF CompInit, CompTypes
<1>2. CompAtWork = {} /\ CompLocked
  BY DEF CompInit, CompAtWork, CompLocked
<1>3. CompFresh
  BY CompAssumption DEF CompInit, CompFresh, CompUnmarked, CompMark, CompNoMark
<1> QED BY <1>1, <1>2, <1>3 DEF CompInv, CompInit

LEMMA CompInvariant == CompSpec => []CompInv
<1>1. CompInv /\ [CompNext]_compVars => CompInv'
  <2> SUFFICES ASSUME CompInv, [CompNext]_compVars PROVE CompInv'
    OBVIOUS
  <2>1. CASE UNCHANGED compVars
    <3>1. /\ UNCHANGED <<compDoc, compPrev, compAssets, compMarker, compDone, compRuns, compKept>>
          /\ UNCHANGED <<compStray, compHeld, compTask, compPlan, compPc, compUndone, compLeft,
                         compBeside>>
      BY <2>1 DEF compVars, compHost, compFiles, compSelf
    <3>2. CompTypes' /\ CompLocked' /\ CompFresh'
      BY <3>1 DEF CompInv, CompTypes, CompHostTypes, CompSelfTypes, CompLocked, CompAtWork,
                  CompFresh, CompUnmarked, CompEarly
    <3>3. \A o \in CompAtWork' : CompTasked(o)'
      BY <3>1 DEF CompInv, CompTasked, CompAtWork
    <3>4. ASSUME NEW o \in CompAtWork \ compBeside PROVE CompMine(o)'
      BY <3>1 DEF CompInv, CompMine, CompAdvanced, CompRestoring, CompSafe, CompSaid, CompWhole,
                  CompFrom
    <3> QED BY <3>1, <3>2, <3>3, <3>4 DEF CompInv, CompAtWork
  <2>2. ASSUME NEW o \in Op, CompStep(o) \/ CompCancel(o) \/ CompDie(o) \/ CompDrop(o)
        PROVE  CompInv'
    BY <2>2, CompActs DEF CompAct
  <2>3. ASSUME NEW s \in compStray, CompGoesOn(s) PROVE CompInv'
    BY <2>3, CompStraysOn
  <2> QED BY <2>1, <2>2, <2>3 DEF CompNext
<1> QED BY <1>1, CompInitially, PTL DEF CompSpec

\* THEOREM: for every number of operations, whatever was there and however
\* many calls are lost or cancelled, lock sessions drop and processes die,
\* whatever of their scripts goes on beside the next operation: every variable
\* of the host has its type, and its lock one holder, who is at work.
THEOREM CompTypeCorrect == CompSpec => []CompTypeOK
<1>1. CompInv => CompTypeOK
  <2> SUFFICES ASSUME CompInv PROVE CompTypeOK
    OBVIOUS
  <2>1. \A s \in compStray : s.of \in Op /\ s.done \in 0..(CompLength[s.script] - 1)
    <3>1. ASSUME NEW s \in compStray
          PROVE  s.of \in Op /\ s.done \in 0..(CompLength[s.script] - 1)
      <4>1. s \in CompRemote
        BY DEF CompInv, CompTypes
      <4>2. CompLength[s.script] \in 1..5 /\ s.done \in Nat /\ s.done < CompLength[s.script]
        BY <4>1, CompLengths DEF CompRemote
      <4> QED BY <4>1, <4>2 DEF CompRemote
    <3> QED BY <3>1
  <2> QED BY <2>1
          DEF CompInv, CompTypes, CompHostTypes, CompSelfTypes, CompLocked, CompTypeOK, CompRunning
<1> QED BY <1>1, CompInvariant, PTL

\* THEOREM: for every number of operations and of faults, and every prior state
\* of the host: as long as nothing else has changed the host since its plan, a
\* deploy that answered runs its own revision, a compensation that answered left
\* nothing or the very documents and containers that the plan saw, a removal
\* that answered left nothing, and whichever command of whichever script an
\* update stopped after, every document that it found is in place or has its
\* copy (backup_previous, rollback_previous, destroy_environment).
THEOREM CompFoundKept == CompSpec => []CompFoundIsKept
<1>1. CompInv => CompFoundIsKept
  <2> SUFFICES ASSUME CompInv PROVE CompFoundIsKept
    OBVIOUS
  <2>1. ASSUME NEW o \in Op \ compBeside
        PROVE  /\ compPc[o] = "succeeded" =>
                    compDoc = [d \in CompDocs |-> o] /\ compRuns = <<o, o>>
               /\ compPc[o] = "failed" /\ o \in compUndone =>
                    /\ compPlan[o].status = "absent" => compRuns = CompNothing /\ compKept = {}
                    /\ CompWhole(o) => /\ compDoc = compPlan[o].doc
                                       /\ compRuns \in {compPlan[o].runs, CompFrom(compDoc)}
               /\ compPc[o] = "destroyed" =>
                    compRuns = CompNothing /\ compKept = {} /\ compDoc["manifest"] = "absent"
    <3>1. compPc[o] \in {"succeeded", "failed", "destroyed"} => CompMine(o)
      BY DEF CompInv, CompAtWork
    <3>2. compDoc \in [CompDocs -> CompTags]
      BY DEF CompInv, CompTypes, CompHostTypes
    <3>3. ASSUME compPc[o] = "succeeded"
          PROVE  (\A d \in CompDocs : compDoc[d] = o) /\ compRuns = <<o, o>>
      BY <3>1, <3>3 DEF CompMine, CompAdvanced, CompForward, CompUploaded
    <3> QED BY <3>1, <3>2, <3>3 DEF CompMine, CompAdvanced, CompSaid
  <2>2. ASSUME NEW o \in CompAtWork \ compBeside, compTask[o] = "up", CompWhole(o),
               NEW d \in CompDocs
        PROVE  compPlan[o].doc[d] \in {compDoc[d], compPrev[d]}
    <3>1. CompSafe(o)
      BY <2>2 DEF CompInv, CompMine, CompRestoring
    <3> QED BY <3>1 DEF CompSafe
  <2> QED BY <2>1, <2>2 DEF CompFoundIsKept, CompAnswersAreTrue, CompFoundIsRetained
<1> QED BY <1>1, CompInvariant, PTL

------------------------------------------------------------------------------
(* The Apps of one environment on Fly.                                      *)

AppMaking == {"check", "create", "volume", "machine"}
AppRunning == {"created", "update", "launched", "ready", "allocate", "reachable", "commit",
               "committed"}
AppUndoing == {"undoDns", "restore", "restored", "undoExposure", "release", "released",
               "undoTarget"}

AppTypes == AppsTypeOK

\* An App that is not there has nothing; what was planned was there before.
AppThere ==
    \A a \in Apps :
        /\ appCloud[a].id = "none" => appCloud[a] = AppAbsent
        /\ appPlan[a].id # "op" /\ appPlan[a].expiry # "new"

\* What the operation of an `up` and that of a `down` do.
AppCourses ==
    /\ appPc \in AppMaking => AppFresh
    /\ appFor = "down" =>
        /\ appPc \in {"destroy", "destroyed"} \union AppDeleting \union AppEnded
        /\ appUndone = {}
    /\ appFor = "rollback" => appPc \in {"destroy", "destroyed"} \union AppDeleting \union AppEnded
    /\ appFor = "cleanup" => appPc \notin {"destroy", "destroyed"}
    /\ appPc \in {"planned", "cleanup", "undoDns", "restore", "restored"} \union AppMaking
                    \union AppRunning => appUndone = {}
    /\ appFor = "cleanup" /\ appPc \in AppDeleting => appUndone = {}
    /\ appPc \in {"undoExposure", "release", "released"} => appUndone \subseteq {"Dns"}
    /\ "Target" \in appUndone => appPc \in AppEnded
    /\ appPc \in {"restore", "restored"} => "Dns" \in appRan
    /\ appPc \in {"release", "released"} => "Exposure" \in appRan
    /\ appFor = "rollback" /\ appPc \in {"destroy", "destroyed"} \union AppDeleting =>
        "Target" \in appRan

\* Of whatever is being made or deleted the operation knows, and what took its name
\* since is a usurper.
AppKnown ==
    /\ appPc \in AppByName => appCloud[appAt].id # "foreign"
    /\ appPc \in {"volume", "machine"} => appProv[appAt].known
    /\ appPc = "cleanup" => appProv[appAt].known
    /\ appPc = "verify" => appCaptured[appAt].known
    /\ appPc \in AppMaking => \A b \in Apps : b < appAt => appProv[b].known
    /\ AppFresh /\ appPc \in AppRunning => \A b \in Apps : appProv[b].known

\* What it has changed, it remembers, until it is put back.
AppRemembers ==
    appFor # "down" =>
        \A a \in AppOwned :
            /\ appCloud[a].ip /\ ~appPlan[a].ip => appAddress[a].known
            /\ appCloud[a].expiry = "new" => appExpiry[a].known
AppPutBack ==
    /\ ~appErred =>
        /\ appPc = "restore" => \A b \in Apps : b < appAt => ~appExpiry[b].known
        /\ appPc = "restored" => \A b \in Apps : ~appExpiry[b].known
        /\ appPc = "release" => \A b \in Apps : b < appAt => ~appAddress[b].known
        /\ appPc = "released" => \A b \in Apps : ~appAddress[b].known
    /\ "Dns" \in appUndone => \A b \in Apps : ~appExpiry[b].known
    /\ "Exposure" \in appUndone => \A b \in Apps : ~appAddress[b].known

\* What is left to delete of what it has made.
AppDeletes ==
    /\ appFor = "rollback" /\ ~appErred =>
        /\ appPc \in AppDeleting =>
            \A b \in Apps : appCloud[b].id = "op" => b >= appAt /\ appCaptured[b].known
        /\ appPc = "destroyed" => \A b \in Apps : appCloud[b].id # "op"
    /\ "Target" \in appUndone => \A b \in Apps : appCloud[b].id # "op"

AppInv ==
    /\ AppTypes /\ AppThere /\ AppCourses /\ AppKnown /\ AppRemembers /\ AppPutBack /\ AppDeletes

------------------------------------------------------------------------------
(* The loops over the Apps.                                                *)

\* The interval below a number is finite, and intervals are ordered as numbers are.
LEMMA LeastNumber == ASSUME NEW S \in SUBSET Nat, S # {} PROVE \E m \in S : \A n \in S : m <= n
<1> DEFINE below == {0..n : n \in S}
<1>1. below # {}
  OBVIOUS
<1>2. below \subseteq FiniteSubsetsOf(Nat)
  <2>1. ASSUME NEW n \in S PROVE 0..n \in FiniteSubsetsOf(Nat)
    <3>1. IsFiniteSet(0..n) /\ n \in Nat
      BY FS_Interval
    <3> QED BY <3>1 DEF FiniteSubsetsOf
  <2> QED BY <2>1
<1>3. IsWellFoundedOn(StrictSubsetOrdering(Nat), FiniteSubsetsOf(Nat))
  BY FS_StrictSubsetOrderingWellFounded
<1>4. PICK T \in below : \A U \in below : <<U, T>> \notin StrictSubsetOrdering(Nat)
  <2> HIDE DEF below
  <2> QED BY <1>1, <1>2, <1>3, WFMin
<1>5. PICK m \in S : T = 0..m
  OBVIOUS
<1>6. ASSUME NEW n \in S, n < m PROVE FALSE
  <2>1. 0..n \in below
    OBVIOUS
  <2>2. 0..n \subseteq 0..m /\ m \in 0..m /\ m \notin 0..n /\ m \in Nat /\ n \in Nat
    BY <1>6
  <2>3. <<0..n, 0..m>> \in StrictSubsetOrdering(Nat)
    BY <2>2 DEF StrictSubsetOrdering
  <2> QED BY <1>4, <1>5, <2>1, <2>3
<1> QED
  <2>1. m \in Nat /\ \A n \in S : n \in Nat /\ ~(n < m)
    BY <1>6
  <2> QED BY <2>1


\* A loop goes to the least App of its set above the one it is at.
LEMMA AppLooping ==
    ASSUME NEW S \in SUBSET Apps, NEW a \in 0..AppCount, NEW again, NEW after,
           AppLoop(S, a, again, after)
    PROVE  \/ appPc' = after /\ appAt' = 1 /\ \A b \in S : b <= a
           \/ /\ appPc' = again /\ appAt' \in S /\ appAt' > a
              /\ \A b \in S : b <= a \/ b >= appAt'
<1>1. Apps \in SUBSET Nat /\ AppCount \in Nat /\ a \in Nat
  BY AppAssumption DEF Apps
<1>a. AppAfter(S, a) \in SUBSET Nat /\ AppAfter(S, a) \subseteq S
  BY <1>1 DEF AppAfter
<1>2. CASE AppAfter(S, a) = {}
  BY <1>1, <1>2 DEF AppLoop, AppGo, AppAfter
<1>3. CASE AppAfter(S, a) # {}
  <2>1. PICK m \in AppAfter(S, a) : \A b \in AppAfter(S, a) : m <= b
    BY <1>a, <1>3, LeastNumber
  <2>2. /\ AppFirst(AppAfter(S, a)) \in AppAfter(S, a)
        /\ \A b \in AppAfter(S, a) : AppFirst(AppAfter(S, a)) <= b
    BY <2>1 DEF AppFirst
  <2>3. appPc' = again /\ appAt' = AppFirst(AppAfter(S, a))
    BY <1>3 DEF AppLoop, AppGo
  <2> QED BY <1>1, <2>2, <2>3 DEF AppAfter
<1> QED BY <1>2, <1>3

\* A loop that is entered begins with the least App of its set.
LEMMA AppEntering ==
    ASSUME NEW S \in SUBSET Apps, NEW loop, NEW after, AppEnter(S, loop, after)
    PROVE  \/ appPc' = after /\ appAt' = 1 /\ S = {}
           \/ appPc' = loop /\ appAt' \in S /\ \A b \in S : b >= appAt'
<1>1. AppLoop(S, 0, loop, after) /\ 0 \in 0..AppCount /\ \A b \in S : b \in Nat /\ b > 0
  BY AppAssumption DEF AppEnter, Apps
<1>2. \/ appPc' = after /\ appAt' = 1 /\ \A b \in S : b <= 0
      \/ appPc' = loop /\ appAt' \in S /\ \A b \in S : b <= 0 \/ b >= appAt'
  BY <1>1, AppLooping
<1> QED BY <1>1, <1>2

\* A fault is one less that may happen.
LEMMA AppLess ==
    ASSUME AppTypes
    PROVE  /\ \A kind : AppFault(kind) => appLeft' \in 0..AppBudget /\ appLeft' < appLeft
           /\ \A outcome : AppCall(outcome) => appLeft' \in 0..AppBudget
           /\ \A seen : AppTrouble(seen) => appLeft' \in 0..AppBudget
  BY AppAssumption DEF AppTypes, AppsTypeOK, AppFault, AppCall, AppTrouble

\* An App of which two or three parts change.
LEMMA AppMachining ==
    ASSUME NEW B, NEW I, NEW V, NEW E,
           NEW r \in [id : I, machine : B, volume : B, version : V, ip : B, expiry : E],
           NEW i \in I, NEW m \in B, NEW v \in V, NEW e \in E
    PROVE  /\ LET s == [r EXCEPT !.id = i, !.machine = m, !.version = v] IN
                /\ s \in [id : I, machine : B, volume : B, version : V, ip : B, expiry : E]
                /\ s.id = i
           /\ LET s == [r EXCEPT !.machine = m, !.version = v] IN
                /\ s \in [id : I, machine : B, volume : B, version : V, ip : B, expiry : E]
                /\ s.id = r.id /\ s.ip = r.ip /\ s.expiry = r.expiry
           /\ LET s == [r EXCEPT !.machine = m, !.version = v, !.expiry = e] IN
                /\ s \in [id : I, machine : B, volume : B, version : V, ip : B, expiry : E]
                /\ s.id = r.id /\ s.ip = r.ip /\ s.expiry = e
  OBVIOUS

\* What is discovered.
LEMMA AppDiscovering ==
    ASSUME AppTypes
    PROVE  /\ \A a \in Apps : AppSeen(a) \in AppRecords /\ (AppSeen(a).known <=> a \in AppOwned)
           /\ AppDiscovered \in [Apps -> AppRecords] /\ AppNothing \in [Apps -> AppRecords]
           /\ AppNoInverse \in AppInverses /\ AppNoInverses \in [Apps -> AppInverses]
           /\ AppUnknown \in AppRecords /\ ~AppUnknown.known /\ ~AppNoInverse.known
           /\ AppAbsent \in AppParts
           /\ \A id \in AppForeign, machine \in BOOLEAN :
                AppStranger(id, machine) \in AppParts /\ AppStranger(id, machine).id = id
           /\ 1 \in Apps
<1>1. AppUnknown \in AppRecords /\ AppNoInverse \in AppInverses /\ AppAbsent \in AppParts
      /\ ~AppUnknown.known /\ ~AppNoInverse.known
  BY DEF AppUnknown, AppRecords, AppNoInverse, AppInverses, AppAbsent, AppParts
<1>2. ASSUME NEW id \in AppForeign, NEW machine \in BOOLEAN
      PROVE  AppStranger(id, machine) \in AppParts /\ AppStranger(id, machine).id = id
  <2> DEFINE version == IF machine THEN 1 ELSE 0
  <2>1. /\ id \in {"none", "past", "op"} \union AppForeign /\ version \in 0..3
        /\ "none" \in {"none", "prior", "new"}
    OBVIOUS
  <2>2. AppAbsent \in [id : {"none", "past", "op"} \union AppForeign, machine : BOOLEAN,
                       volume : BOOLEAN, version : 0..3, ip : BOOLEAN,
                       expiry : {"none", "prior", "new"}]
    BY <1>1 DEF AppParts
  <2> DEFINE s == [AppAbsent EXCEPT !.id = id, !.machine = machine, !.version = version]
  <2>3. AppStranger(id, machine) = s
    BY DEF AppStranger
  <2>4. s \in AppParts /\ s.id = id
    <3> HIDE DEF AppAbsent, version
    <3> QED BY <2>1, <2>2, AppMachining, Zenon DEF AppParts
  <2> HIDE DEF s
  <2> QED BY <2>3, <2>4
<1>3. ASSUME NEW a \in Apps
      PROVE  AppSeen(a) \in AppRecords /\ (AppSeen(a).known <=> a \in AppOwned)
  <2>1. CASE a \in AppOwned
    BY <2>1 DEF AppSeen, AppRecords, AppTypes, AppsTypeOK, AppParts, AppOwned
  <2>2. CASE a \notin AppOwned
    BY <2>2, <1>1 DEF AppSeen
  <2> QED BY <2>1, <2>2
<1>4. 1 \in Apps
  BY AppAssumption DEF Apps
<1> QED BY <1>1, <1>2, <1>3, <1>4 DEF AppDiscovered, AppNothing, AppNoInverses

\* What a step does to one App, and to no other.
AppElsewhere(a) ==
    \A b \in Apps \ {a} :
        /\ appCloud'[b] = appCloud[b] /\ appProv'[b] = appProv[b]
        /\ appAddress'[b] = appAddress[b] /\ appExpiry'[b] = appExpiry[b]

\* A call that makes an App.
LEMMA AppCreates ==
    ASSUME AppTypes, AppThere, AppCreate
    PROVE  /\ appCloud' \in [Apps -> AppParts] /\ appProv' \in [Apps -> AppRecords]
           /\ AppElsewhere(appAt)
           /\ \/ UNCHANGED appCloud
              \/ /\ appCloud[appAt].id = "none" /\ appCloud'[appAt].id = "op"
                 /\ ~appCloud'[appAt].ip /\ appCloud'[appAt].expiry = "none"
           /\ \/ /\ appPc' \in {"volume", "machine"} /\ appAt' = appAt /\ appErred' = appErred
                 /\ appCloud'[appAt].id = "op" /\ appProv'[appAt].known
              \/ appPc' = "undoDns" /\ appAt' = 1 /\ appErred' = FALSE
<1> DEFINE a == appAt
<1>0. a \in Apps /\ appCloud[a] \in AppParts /\ appProv \in [Apps -> AppRecords]
      /\ appCloud \in [Apps -> AppParts]
  BY DEF AppTypes, AppsTypeOK
<1>1. appProv' = appProv \/ \E id \in {"op", "none"} : appProv' = [appProv EXCEPT ![a] =
            [known |-> TRUE, id |-> id, machine |-> FALSE, volume |-> FALSE]]
  BY DEF AppCreate
<1>2. /\ appProv' \in [Apps -> AppRecords]
      /\ \A b \in Apps \ {a} : appProv'[b] = appProv[b]
  <2>1. CASE appProv' = appProv
    BY <1>0, <2>1
  <2>2. ASSUME NEW id \in {"op", "none"}, NEW r,
               r = [known |-> TRUE, id |-> id, machine |-> FALSE, volume |-> FALSE],
               appProv' = [appProv EXCEPT ![a] = r]
        PROVE  /\ appProv' \in [Apps -> AppRecords]
               /\ \A b \in Apps \ {a} : appProv'[b] = appProv[b]
    <3>1. r \in AppRecords
      BY <2>2 DEF AppRecords
    <3> QED BY <1>0, <2>2, <3>1
  <2> QED BY <1>1, <2>1, <2>2
<1>3. \/ appCloud' = appCloud
      \/ appCloud[a].id = "none" /\ appCloud' = [appCloud EXCEPT ![a].id = "op"]
  BY DEF AppCreate
<1>4. /\ appCloud' \in [Apps -> AppParts]
      /\ \A b \in Apps \ {a} : appCloud'[b] = appCloud[b]
      /\ \/ UNCHANGED appCloud
         \/ /\ appCloud[a].id = "none" /\ appCloud'[a].id = "op"
            /\ ~appCloud'[a].ip /\ appCloud'[a].expiry = "none"
  BY <1>0, <1>3 DEF AppThere, AppParts, AppAbsent
<1>5. AppElsewhere(a)
  BY <1>2, <1>4 DEF AppElsewhere, AppCreate
<1>6. \/ /\ appPc' \in {"volume", "machine"} /\ appAt' = a /\ appErred' = appErred
         /\ appCloud' = [appCloud EXCEPT ![a].id = "op"]
         /\ appProv' = [appProv EXCEPT ![a] =
                [known |-> TRUE, id |-> "op", machine |-> FALSE, volume |-> FALSE]]
      \/ appPc' = "undoDns" /\ appAt' = 1 /\ appErred' = FALSE
  BY DEF AppCreate, AppGo, AppFailStage
<1>7. \/ /\ appPc' \in {"volume", "machine"} /\ appAt' = a /\ appErred' = appErred
         /\ appCloud'[a].id = "op" /\ appProv'[a].known
      \/ appPc' = "undoDns" /\ appAt' = 1 /\ appErred' = FALSE
  BY <1>0, <1>6 DEF AppParts
<1> QED BY <1>0, <1>2, <1>4, <1>5, <1>7

\* An App is the same but for its Machine and Volume.
AppKeeps(a) ==
    /\ appCloud'[a].id = appCloud[a].id /\ (appCloud'[a].ip <=> appCloud[a].ip)
    /\ appCloud'[a].expiry = appCloud[a].expiry

\* A call that makes a Volume or a Machine.
LEMMA AppCreatesParts ==
    ASSUME AppTypes, AppKnown, AppCreateVolume \/ AppCreateMachine
    PROVE  /\ appCloud' \in [Apps -> AppParts] /\ appProv' \in [Apps -> AppRecords]
           /\ AppElsewhere(appAt) /\ AppKeeps(appAt)
           /\ appCloud[appAt].id = "none" => UNCHANGED appCloud
           /\ appPc \in {"volume", "machine"}
           /\ appProv'[appAt].known /\ appErred' = appErred
           /\ \/ appPc' \in {"machine", "cleanup"} /\ appAt' = appAt
              \/ AppLoop(Apps, appAt, "check", "created")
<1> DEFINE a == appAt
<1>0. /\ a \in Apps /\ appCloud[a] \in AppParts /\ appProv[a] \in AppRecords
      /\ appProv \in [Apps -> AppRecords] /\ appCloud \in [Apps -> AppParts]
  BY DEF AppTypes, AppsTypeOK
<1>1. /\ appPc \in {"volume", "machine"} /\ appProv[a].known
      /\ appCloud[a].id = "none" => UNCHANGED appCloud
  BY Zenon DEF AppKnown, AppCreateVolume, AppCreateMachine, AppCreatePart
<1>2. \E made \in AppParts :
        /\ made.id = appCloud[a].id /\ (made.ip <=> appCloud[a].ip)
        /\ made.expiry = appCloud[a].expiry
        /\ appCloud' = appCloud \/ appCloud' = [appCloud EXCEPT ![a] = made]
  <2>1. CASE AppCreateVolume
    <3> DEFINE made == [appCloud[a] EXCEPT !.volume = TRUE]
    <3>1. /\ made \in AppParts /\ made.id = appCloud[a].id /\ (made.ip <=> appCloud[a].ip)
          /\ made.expiry = appCloud[a].expiry
      BY <1>0 DEF AppParts
    <3>2. appCloud' = appCloud \/ appCloud' = [appCloud EXCEPT ![a] = made]
      <4> HIDE DEF made
      <4> QED BY <2>1, Zenon DEF AppCreateVolume, AppCreatePart, made
    <3> HIDE DEF made
    <3> QED BY <3>1, <3>2
  <2>2. CASE AppCreateMachine
    <3> DEFINE made == [appCloud[a] EXCEPT !.machine = TRUE, !.version = 1]
    <3>1. /\ made \in AppParts /\ made.id = appCloud[a].id /\ (made.ip <=> appCloud[a].ip)
          /\ made.expiry = appCloud[a].expiry
      <4>1. TRUE \in BOOLEAN /\ 1 \in 0..3
        OBVIOUS
      <4>2. appCloud[a] \in [id : {"none", "past", "op"} \union AppForeign, machine : BOOLEAN,
                             volume : BOOLEAN, version : 0..3, ip : BOOLEAN,
                             expiry : {"none", "prior", "new"}]
        BY <1>0 DEF AppParts
      <4>3. "none" \in {"none", "past", "op"} \union AppForeign /\ "none" \in {"none", "prior", "new"}
        OBVIOUS
      <4>4. /\ made \in AppParts /\ made.id = appCloud[a].id /\ made.ip = appCloud[a].ip
            /\ made.expiry = appCloud[a].expiry
        BY <4>1, <4>2, <4>3, AppMachining, Zenon DEF AppParts
      <4> HIDE DEF made
      <4> QED BY <4>4
    <3>2. appCloud' = appCloud \/ appCloud' = [appCloud EXCEPT ![a] = made]
      <4> HIDE DEF made
      <4> QED BY <2>2, Zenon DEF AppCreateMachine, AppCreatePart, made
    <3> HIDE DEF made
    <3> QED BY <3>1, <3>2
  <2> QED BY <2>1, <2>2
<1>3. /\ appCloud' \in [Apps -> AppParts] /\ AppKeeps(a)
      /\ \A b \in Apps \ {a} : appCloud'[b] = appCloud[b]
  BY <1>0, <1>2 DEF AppKeeps
<1>4. \/ appProv' = appProv
      \/ appProv' = [appProv EXCEPT ![a].volume = TRUE]
      \/ appProv' = [appProv EXCEPT ![a].machine = TRUE]
  BY Zenon DEF AppCreateVolume, AppCreateMachine, AppCreatePart
<1>5. /\ appProv' \in [Apps -> AppRecords] /\ appProv'[a].known
      /\ \A b \in Apps \ {a} : appProv'[b] = appProv[b]
  <2>1. CASE appProv' = appProv
    BY <1>0, <1>1, <2>1
  <2>2. CASE appProv' = [appProv EXCEPT ![a].volume = TRUE]
    BY <1>0, <1>1, <2>2 DEF AppRecords
  <2>3. CASE appProv' = [appProv EXCEPT ![a].machine = TRUE]
    BY <1>0, <1>1, <2>3 DEF AppRecords
  <2> QED BY <1>4, <2>1, <2>2, <2>3
<1>6. AppElsewhere(a)
  BY <1>3, <1>5 DEF AppElsewhere, AppCreateVolume, AppCreateMachine, AppCreatePart
<1>7. /\ \/ appPc' \in {"machine", "cleanup"} /\ appAt' = appAt
         \/ AppLoop(Apps, appAt, "check", "created")
      /\ appErred' = appErred
  <2>1. ("volume" = "volume") /\ ("machine" = "volume") = FALSE
    OBVIOUS
  <2> QED BY <2>1 DEF AppCreateVolume, AppCreateMachine, AppCreatePart, AppGo
<1> QED BY <1>1, <1>3, <1>5, <1>6, <1>7

\* A Machine that is updated is of an App that is there.
LEMMA AppUpdates ==
    ASSUME AppTypes, AppThere, AppUpdate
    PROVE  /\ appCloud' \in [Apps -> AppParts]
           /\ AppElsewhere(appAt) /\ AppKeeps(appAt)
           /\ UNCHANGED appCloud \/ appCloud[appAt].id # "none"
           /\ \/ appPc' = "launched" /\ appAt' = appAt /\ appErred' = appErred
              \/ appPc' = "undoDns" /\ appAt' = 1 /\ appErred' = FALSE
<1>0. appAt \in Apps /\ appCloud \in [Apps -> AppParts]
  BY DEF AppTypes, AppsTypeOK
<1>1. \/ appCloud' = appCloud
      \/ AppAsPlanned(appAt) /\ appCloud' = [appCloud EXCEPT ![appAt].version = 2]
  BY DEF AppUpdate
<1>2. appCloud[appAt].id = "none" => ~appCloud[appAt].machine
  BY <1>0 DEF AppThere, AppAbsent
<1>3. /\ appCloud' \in [Apps -> AppParts] /\ AppKeeps(appAt)
      /\ \A b \in Apps \ {appAt} : appCloud'[b] = appCloud[b]
  BY <1>0, <1>1 DEF AppKeeps, AppParts
<1>4. UNCHANGED appCloud \/ appCloud[appAt].id # "none"
  BY <1>1, <1>2 DEF AppAsPlanned
<1>5. AppElsewhere(appAt)
  BY <1>3 DEF AppElsewhere, AppUpdate, appMemory
<1>6. \/ appPc' = "launched" /\ appAt' = appAt /\ appErred' = appErred
      \/ appPc' = "undoDns" /\ appAt' = 1 /\ appErred' = FALSE
  BY DEF AppUpdate, AppGo, AppFailStage
<1> QED BY <1>3, <1>4, <1>5, <1>6

\* The address is remembered before it is allocated.
LEMMA AppAllocates ==
    ASSUME AppTypes, AppAllocate
    PROVE  /\ appCloud' \in [Apps -> AppParts] /\ appAddress' \in [Apps -> AppInverses]
           /\ AppElsewhere(appAt)
           /\ appCloud'[appAt].id = appCloud[appAt].id
           /\ appCloud'[appAt].expiry = appCloud[appAt].expiry
           /\ appAddress' = appAddress \/ appAddress'[appAt].known
           /\ UNCHANGED appCloud \/ (appAt \in AppOwned /\ appAddress'[appAt].known)
           /\ \/ AppLoop(AppUnaddressed, appAt, "allocate", "reachable") /\ appErred' = appErred
              \/ appPc' = "undoDns" /\ appAt' = 1 /\ appErred' = FALSE
<1> DEFINE a == appAt
<1>0. /\ a \in Apps /\ appCloud \in [Apps -> AppParts] /\ appAddress \in [Apps -> AppInverses]
      /\ appCloud[a].version \in 0..3
  BY DEF AppTypes, AppsTypeOK, AppParts
<1>1. \/ appCloud' = appCloud /\ appAddress' = appAddress
      \/ /\ a \in AppOwned
         /\ appCloud' = appCloud \/ appCloud' = [appCloud EXCEPT ![a].ip = TRUE]
         /\ \E learned \in BOOLEAN : appAddress' = [appAddress EXCEPT ![a] =
                [known |-> TRUE, version |-> appCloud[a].version, learned |-> learned]]
  BY Zenon DEF AppAllocate, AppAsLaunched
<1>2. /\ appAddress' \in [Apps -> AppInverses]
      /\ \A b \in Apps \ {a} : appAddress'[b] = appAddress[b]
      /\ appAddress' = appAddress \/ appAddress'[a].known
  <2>1. ASSUME NEW learned \in BOOLEAN
        PROVE  LET r == [known |-> TRUE, version |-> appCloud[a].version, learned |-> learned]
               IN  r \in AppInverses /\ r.known
    BY <1>0 DEF AppInverses
  <2> QED BY <1>0, <1>1, <2>1
<1>3. /\ appCloud' \in [Apps -> AppParts]
      /\ appCloud'[a].id = appCloud[a].id /\ appCloud'[a].expiry = appCloud[a].expiry
      /\ \A b \in Apps \ {a} : appCloud'[b] = appCloud[b]
  <2>1. appCloud' = appCloud \/ appCloud' = [appCloud EXCEPT ![a].ip = TRUE]
    BY <1>1, Zenon
  <2> QED BY <1>0, <2>1, ZenonT(60) DEF AppParts
<1>4. AppElsewhere(a)
  BY <1>2, <1>3 DEF AppElsewhere, AppAllocate
<1>5. UNCHANGED appCloud \/ (a \in AppOwned /\ appAddress'[a].known)
  <2>1. ASSUME NEW learned, NEW r,
               r = [known |-> TRUE, version |-> appCloud[a].version, learned |-> learned],
               appAddress' = [appAddress EXCEPT ![a] = r]
        PROVE  appAddress'[a].known
    BY <1>0, <2>1
  <2> QED BY <1>1, <2>1
<1>6. \/ AppLoop(AppUnaddressed, a, "allocate", "reachable") /\ appErred' = appErred
      \/ appPc' = "undoDns" /\ appAt' = 1 /\ appErred' = FALSE
  BY DEF AppAllocate, AppGo, AppFailStage
<1> QED BY <1>2, <1>3, <1>4, <1>5, <1>6

\* The expiry is remembered before it is written.
LEMMA AppCommits ==
    ASSUME AppTypes, AppCommit
    PROVE  /\ appCloud' \in [Apps -> AppParts] /\ appExpiry' \in [Apps -> AppInverses]
           /\ AppElsewhere(appAt)
           /\ appCloud'[appAt].id = appCloud[appAt].id
           /\ appCloud'[appAt].ip <=> appCloud[appAt].ip
           /\ appExpiry' = appExpiry \/ appExpiry'[appAt].known
           /\ UNCHANGED appCloud \/ (appAt \in AppOwned /\ appExpiry'[appAt].known)
           /\ \/ AppLoop(Apps, appAt, "commit", "committed")
              \/ appPc' = "undoDns" /\ appAt' = 1
<1> DEFINE a == appAt
<1>0. /\ a \in Apps /\ appCloud \in [Apps -> AppParts] /\ appExpiry \in [Apps -> AppInverses]
      /\ appCloud[a].version \in 0..3
  BY DEF AppTypes, AppsTypeOK, AppParts
<1> DEFINE r == [known |-> TRUE, version |-> appCloud[a].version, learned |-> TRUE]
<1>1. r \in AppInverses /\ r.known
  BY <1>0 DEF AppInverses
<1> HIDE DEF r
<1>2. \/ appCloud' = appCloud /\ appExpiry' = appExpiry
      \/ /\ a \in AppOwned
         /\ appCloud' = appCloud \/ appCloud' = [appCloud EXCEPT ![a].expiry = "new"]
         /\ appExpiry' = [appExpiry EXCEPT ![a] = r]
  BY Zenon DEF AppCommit, AppAsLaunched, r
<1>3. /\ appExpiry' \in [Apps -> AppInverses]
      /\ \A b \in Apps \ {a} : appExpiry'[b] = appExpiry[b]
      /\ appExpiry' = appExpiry \/ appExpiry'[a].known
      /\ UNCHANGED appCloud \/ (a \in AppOwned /\ appExpiry'[a].known)
  BY <1>0, <1>1, <1>2
<1>4. /\ appCloud' \in [Apps -> AppParts]
      /\ appCloud'[a].id = appCloud[a].id /\ (appCloud'[a].ip <=> appCloud[a].ip)
      /\ \A b \in Apps \ {a} : appCloud'[b] = appCloud[b]
  BY <1>0, <1>2 DEF AppParts
<1>5. AppElsewhere(a)
  BY <1>3, <1>4 DEF AppElsewhere, AppCommit
<1>6. \/ AppLoop(Apps, a, "commit", "committed")
      \/ appPc' = "undoDns" /\ appAt' = 1
  BY DEF AppCommit, AppGo, AppFailStage
<1> QED BY <1>3, <1>4, <1>5, <1>6

\* An expiry is forgotten once it is back, or else the stage has erred.
LEMMA AppRestores ==
    ASSUME AppTypes, AppThere, AppRestore
    PROVE  /\ appCloud' \in [Apps -> AppParts] /\ appExpiry' \in [Apps -> AppInverses]
           /\ AppElsewhere(appAt)
           /\ appCloud'[appAt].id = appCloud[appAt].id
           /\ appCloud'[appAt].ip <=> appCloud[appAt].ip
           /\ UNCHANGED appCloud \/ appAt \in AppOwned
           /\ appCloud'[appAt].expiry = "new" => appCloud[appAt].expiry = "new"
           /\ \/ appExpiry' = appExpiry /\ appErred'
              \/ /\ ~appExpiry'[appAt].known /\ (appErred' <=> appErred)
                 /\ appCloud'[appAt].expiry # "new"
           /\ AppLoop({b \in Apps : appExpiry[b].known}, appAt, "restore", "restored")
<1> DEFINE a == appAt
<1>0. /\ a \in Apps /\ appCloud \in [Apps -> AppParts] /\ appExpiry \in [Apps -> AppInverses]
      /\ appPlan[a].expiry \in {"none", "prior", "new"} /\ appPlan[a].expiry # "new"
      /\ AppNoInverse \in AppInverses /\ ~AppNoInverse.known
  BY AppDiscovering DEF AppTypes, AppsTypeOK, AppParts, AppThere
<1>1. \/ appCloud' = appCloud /\ appExpiry' = appExpiry /\ appErred' = TRUE
      \/ /\ appCloud' = appCloud /\ appCloud[a].expiry = appPlan[a].expiry
         /\ appExpiry' = [appExpiry EXCEPT ![a] = AppNoInverse] /\ appErred' = appErred
      \/ /\ appCloud' = [appCloud EXCEPT ![a].expiry = appPlan[a].expiry] /\ a \in AppOwned
         /\ \/ appExpiry' = [appExpiry EXCEPT ![a] = AppNoInverse] /\ appErred' = appErred
            \/ appExpiry' = appExpiry /\ appErred' = TRUE
  BY Zenon DEF AppRestore
<1>2. /\ appExpiry' \in [Apps -> AppInverses]
      /\ \A b \in Apps \ {a} : appExpiry'[b] = appExpiry[b]
  BY <1>0, <1>1
<1>3. /\ appCloud' \in [Apps -> AppParts]
      /\ appCloud'[a].id = appCloud[a].id /\ (appCloud'[a].ip <=> appCloud[a].ip)
      /\ appCloud'[a].expiry = "new" => appCloud[a].expiry = "new"
      /\ \A b \in Apps \ {a} : appCloud'[b] = appCloud[b]
      /\ UNCHANGED appCloud \/ a \in AppOwned
  BY <1>0, <1>1 DEF AppParts
<1>4. \/ appExpiry' = appExpiry /\ appErred'
      \/ /\ ~appExpiry'[a].known /\ (appErred' <=> appErred)
         /\ appCloud'[a].expiry # "new"
  BY <1>0, <1>1 DEF AppParts
<1>5. AppElsewhere(a)
  BY <1>2, <1>3 DEF AppElsewhere, AppRestore
<1>6. AppLoop({b \in Apps : appExpiry[b].known}, a, "restore", "restored")
  BY DEF AppRestore
<1> QED BY <1>2, <1>3, <1>4, <1>5, <1>6

\* An address is forgotten once it is gone, or else the stage has erred.
LEMMA AppReleases ==
    ASSUME AppTypes, AppRelease
    PROVE  /\ appCloud' \in [Apps -> AppParts] /\ appAddress' \in [Apps -> AppInverses]
           /\ AppElsewhere(appAt)
           /\ appCloud'[appAt].id = appCloud[appAt].id
           /\ appCloud'[appAt].expiry = appCloud[appAt].expiry
           /\ UNCHANGED appCloud \/ appAt \in AppOwned
           /\ appCloud'[appAt].ip => appCloud[appAt].ip
           /\ \/ appAddress' = appAddress /\ appErred'
              \/ /\ ~appAddress'[appAt].known /\ (appErred' <=> appErred)
                 /\ (appCloud[appAt].id = "none" \/ ~appCloud'[appAt].ip)
           /\ AppLoop({b \in Apps : appAddress[b].known}, appAt, "release", "released")
<1> DEFINE a == appAt
<1>0. /\ a \in Apps /\ appCloud \in [Apps -> AppParts] /\ appAddress \in [Apps -> AppInverses]
      /\ AppNoInverse \in AppInverses /\ ~AppNoInverse.known
  BY AppDiscovering DEF AppTypes, AppsTypeOK
<1>1. \/ appCloud' = appCloud /\ appAddress' = appAddress /\ appErred' = TRUE
      \/ /\ appCloud' = appCloud /\ (appCloud[a].id = "none" \/ ~appCloud[a].ip)
         /\ appAddress' = [appAddress EXCEPT ![a] = AppNoInverse] /\ appErred' = appErred
      \/ /\ appCloud' = [appCloud EXCEPT ![a].ip = FALSE] /\ a \in AppOwned
         /\ \/ appAddress' = [appAddress EXCEPT ![a] = AppNoInverse] /\ appErred' = appErred
            \/ appAddress' = appAddress /\ appErred' = TRUE
  BY Zenon DEF AppRelease
<1>2. /\ appAddress' \in [Apps -> AppInverses]
      /\ \A b \in Apps \ {a} : appAddress'[b] = appAddress[b]
  BY <1>0, <1>1
<1>3. /\ appCloud' \in [Apps -> AppParts]
      /\ appCloud'[a].id = appCloud[a].id /\ appCloud'[a].expiry = appCloud[a].expiry
      /\ appCloud'[a].ip => appCloud[a].ip
      /\ \A b \in Apps \ {a} : appCloud'[b] = appCloud[b]
      /\ UNCHANGED appCloud \/ a \in AppOwned
  BY <1>0, <1>1, ZenonT(60) DEF AppParts
<1>4. \/ appAddress' = appAddress /\ appErred'
      \/ /\ ~appAddress'[a].known /\ (appErred' <=> appErred)
         /\ (appCloud[a].id = "none" \/ ~appCloud'[a].ip)
  BY <1>0, <1>1 DEF AppParts
<1>5. AppElsewhere(a)
  BY <1>2, <1>3 DEF AppElsewhere, AppRelease
<1>6. AppLoop({b \in Apps : appAddress[b].known}, a, "release", "released")
  BY DEF AppRelease
<1> QED BY <1>2, <1>3, <1>4, <1>5, <1>6

\* After the last or a failed step for an App the deletion goes on, or fails
\* the stage that it cleans up after.
LEMMA AppDeletions ==
    ASSUME AppTypes, AppDeleted(TRUE) \/ AppDeleted(FALSE)
    PROVE  /\ appProv' \in [Apps -> AppRecords]
           /\ \A b \in Apps \ {appAt} : appProv'[b] = appProv[b]
           /\ appFor = "cleanup" => appPc' = "undoDns" /\ appAt' = 1 /\ appErred' = FALSE
           /\ appFor # "cleanup" =>
                /\ AppLoop({b \in Apps : appCaptured[b].known}, appAt, "verify", "destroyed")
                /\ appErred' \in BOOLEAN
                /\ ~appErred' => ~appErred
                /\ AppDeleted(FALSE) => appErred'
<1>0. /\ appAt \in Apps /\ appProv \in [Apps -> AppRecords] /\ appErred \in BOOLEAN
      /\ AppUnknown \in AppRecords
  BY AppDiscovering DEF AppTypes, AppsTypeOK
<1>1. appProv' = [appProv EXCEPT ![appAt] = AppUnknown] \/ appProv' = [appProv EXCEPT ![appAt] = @]
  BY Zenon DEF AppDeleted
<1>2. /\ appProv' \in [Apps -> AppRecords]
      /\ \A b \in Apps \ {appAt} : appProv'[b] = appProv[b]
  BY <1>0, <1>1
<1>3. appFor = "cleanup" => appPc' = "undoDns" /\ appAt' = 1 /\ appErred' = FALSE
  BY DEF AppDeleted, AppFailStage, AppGo
<1>4. ASSUME appFor # "cleanup"
      PROVE  /\ AppLoop({b \in Apps : appCaptured[b].known}, appAt, "verify", "destroyed")
             /\ appErred' \in BOOLEAN
             /\ ~appErred' => ~appErred
             /\ AppDeleted(FALSE) => appErred'
  <2>1. AppLoop({b \in Apps : appCaptured[b].known}, appAt, "verify", "destroyed")
    BY <1>4, Zenon DEF AppDeleted
  <2>2. AppDeleted(TRUE) => appErred' = (appErred \/ ~TRUE)
    BY <1>4, Zenon DEF AppDeleted
  <2>3. AppDeleted(FALSE) => appErred' = (appErred \/ ~FALSE)
    BY <1>4, Zenon DEF AppDeleted
  <2>4. /\ appErred' = (appErred \/ ~TRUE) => appErred' = appErred
        /\ appErred' = (appErred \/ ~FALSE) => appErred' = TRUE
    BY <1>0
  <2> QED BY <1>0, <2>1, <2>2, <2>3, <2>4, Zenon
<1> QED BY <1>2, <1>3, <1>4

\* The steps of a deletion that only look, and those that remove something.
AppLooks == AppVerify \/ AppDrained \/ AppEmptied \/ AppRecheck \/ AppDeleteAgain \/ AppVanished
AppCuts == AppDeleteMachine \/ AppDeleteVolume \/ AppDeleteApp
AppDeletion == AppLooks \/ AppCuts

\* The next step for the same App, unless the deletion is done with it.
AppDeletesNext ==
    /\ appPc' \in AppDeleting \ {"verify"} /\ appAt' = appAt /\ UNCHANGED <<appProv, appErred>>
    /\ appPc' \in AppByName => appCloud'[appAt].id # "foreign"

\* A look changes nothing, and what it finds gone is deleted.
LEMMA AppLooking ==
    ASSUME AppTypes, AppKnown, AppLooks
    PROVE  /\ UNCHANGED <<appCloud, appVersion, appAddress, appExpiry, appCourse, appCancelled>>
           /\ appPc \in AppDeleting /\ appLeft' \in 0..AppBudget
           /\ \/ AppDeletesNext
              \/ AppDeleted(FALSE)
              \/ AppDeleted(TRUE) /\ appCloud[appAt].id = "none"
<1>0. appAt \in Apps /\ appLeft \in 0..AppBudget /\ appCaptured[appAt] \in AppRecords
  BY DEF AppTypes, AppsTypeOK
<1>1. /\ UNCHANGED <<appCloud, appVersion, appAddress, appExpiry, appCourse, appCancelled>>
      /\ appPc \in AppDeleting
  BY DEF AppLooks, AppVerify, AppDrained, AppEmptied, AppListed, AppRecheck, AppDeleteAgain,
         AppVanished, AppDeleting
<1>2. appLeft' \in 0..AppBudget
  BY <1>0, AppLess DEF AppLooks, AppVerify, AppDrained, AppEmptied, AppListed, AppRecheck,
         AppDeleteAgain, AppVanished
<1>3. ASSUME appPc' \in AppDeleting \ {"verify"}, appAt' = appAt,
             UNCHANGED <<appProv, appErred>>,
             appPc' \in AppByName => appCloud[appAt].id # "foreign"
      PROVE  AppDeletesNext
  BY <1>1, <1>3 DEF AppDeletesNext
<1>4. CASE AppVerify
  <2>1. \/ AppDeleted(TRUE) /\ appCloud[appAt].id = "none"
        \/ appPc' = "unmachine" /\ appAt' = appAt /\ UNCHANGED <<appProv, appErred>>
        \/ AppDeleted(FALSE)
    BY <1>4, Zenon DEF AppVerify, AppGo
  <2> QED BY <1>1, <1>2, <1>3, <2>1 DEF AppDeleting, AppByName
<1>5. CASE AppDrained \/ AppEmptied
  <2>1. \/ appPc' \in {"unvolume", "recheck"} /\ appAt' = appAt /\ UNCHANGED <<appProv, appErred>>
        \/ AppDeleted(FALSE)
    BY <1>5, Zenon DEF AppDrained, AppEmptied, AppListed, AppGo
  <2> QED BY <1>1, <1>2, <1>3, <2>1 DEF AppDeleting, AppByName
<1>6. CASE AppRecheck
  <2>1. \/ AppDeleted(TRUE) /\ appCloud[appAt].id = "none"
        \/ /\ appPc' = "unapp" /\ appAt' = appAt /\ UNCHANGED <<appProv, appErred>>
           /\ AppSame(appAt)
        \/ AppDeleted(FALSE)
    BY <1>6, Zenon DEF AppRecheck, AppGo
  <2>2. AppSame(appAt) => appCloud[appAt].id # "foreign"
    BY <1>0 DEF AppSame, AppRecords
  <2> QED BY <1>1, <1>2, <1>3, <2>1, <2>2 DEF AppDeleting
<1>7. CASE AppDeleteAgain
  <2>1. \/ AppDeleted(TRUE) /\ appCloud[appAt].id = "none"
        \/ appPc' = "unapp" /\ appAt' = appAt /\ UNCHANGED <<appProv, appErred>>
        \/ AppDeleted(FALSE)
    BY <1>7, Zenon DEF AppDeleteAgain, AppGo
  <2>2. appCloud[appAt].id # "foreign"
    BY <1>7 DEF AppDeleteAgain, AppKnown, AppByName
  <2> QED BY <1>1, <1>2, <1>3, <2>1, <2>2 DEF AppDeleting
<1>8. CASE AppVanished
  <2>1. AppDeleted(FALSE) \/ (AppDeleted(TRUE) /\ appCloud[appAt].id = "none")
    BY <1>8, Zenon DEF AppVanished
  <2> QED BY <1>1, <1>2, <2>1
<1> QED BY <1>4, <1>5, <1>6, <1>7, <1>8 DEF AppLooks

\* A Machine or Volume is that of the App with the captured ID.
LEMMA AppRemovesPart ==
    ASSUME AppTypes, AppThere, NEW where \in {"unmachine", "unvolume"},
           NEW without \in AppParts, NEW next \in {"drain", "emptied"},
           AppDeletePart(where, without, next),
           without.id = appCloud[appAt].id, without.ip <=> appCloud[appAt].ip,
           without.expiry \in {appCloud[appAt].expiry, "none"},
           appCloud[appAt] = AppAbsent => without = AppAbsent
    PROVE  /\ appCloud' \in [Apps -> AppParts]
           /\ \A b \in Apps \ {appAt} : appCloud'[b] = appCloud[b]
           /\ appCloud'[appAt].id = "none" => appCloud'[appAt] = AppAbsent
           /\ appCloud'[appAt].id = appCloud[appAt].id
           /\ appCloud'[appAt].ip <=> appCloud[appAt].ip
           /\ appCloud'[appAt].expiry \in {appCloud[appAt].expiry, "none"}
           /\ appCloud[appAt].id \in AppForeign => appCloud'[appAt] = appCloud[appAt]
           /\ AppDeletesNext \/ AppDeleted(FALSE)
<1> DEFINE a == appAt
<1>0. /\ a \in Apps /\ appCloud \in [Apps -> AppParts] /\ appCaptured[a] \in AppRecords
      /\ appCloud[a].id = "none" => appCloud[a] = AppAbsent
  BY DEF AppTypes, AppsTypeOK, AppThere
<1>1. \/ appCloud' = appCloud
      \/ AppSame(a) /\ appCloud' = [appCloud EXCEPT ![a] = without]
  BY Zenon DEF AppDeletePart
<1>2. AppSame(a) => appCloud[a].id \notin AppForeign
  BY <1>0 DEF AppSame, AppRecords, AppForeign
<1>3. \/ AppDeleted(FALSE)
      \/ appPc' \in {next, "unvolume"} /\ appAt' = a /\ UNCHANGED <<appProv, appErred>>
  BY Zenon DEF AppDeletePart, AppGo
<1>4. AppDeletesNext \/ AppDeleted(FALSE)
  BY <1>3 DEF AppDeletesNext, AppDeleting, AppByName
<1>5. CASE appCloud' = appCloud
  BY <1>0, <1>4, <1>5
<1>6. CASE AppSame(a) /\ appCloud' = [appCloud EXCEPT ![a] = without]
  <2>1. /\ appCloud' \in [Apps -> AppParts] /\ appCloud'[a] = without
        /\ \A b \in Apps \ {a} : appCloud'[b] = appCloud[b]
    BY <1>0, <1>6
  <2> QED BY <1>0, <1>2, <1>4, <1>6, <2>1
<1> QED BY <1>1, <1>5, <1>6

\* What an App does not have cannot be taken from it.
LEMMA AppLacking ==
    ASSUME NEW r \in AppParts
    PROVE  /\ r.machine = FALSE /\ r.version = 0 /\ r.expiry = "none" =>
                [r EXCEPT !.machine = FALSE, !.version = 0, !.expiry = "none"] = r
           /\ r.volume = FALSE => [r EXCEPT !.volume = FALSE] = r
  BY DEF AppParts

\* A deletion takes something of the App that it is at, or all of it.
LEMMA AppRemoves ==
    ASSUME AppTypes, AppThere, AppKnown, AppCuts
    PROVE  /\ UNCHANGED <<appVersion, appAddress, appExpiry, appCourse, appCancelled>>
           /\ appPc \in AppDeleting /\ appLeft' \in 0..AppBudget
           /\ appCloud' \in [Apps -> AppParts]
           /\ \A b \in Apps \ {appAt} : appCloud'[b] = appCloud[b]
           /\ appCloud'[appAt].id = "none" => appCloud'[appAt] = AppAbsent
           /\ \/ appCloud'[appAt].id = "none"
              \/ /\ appCloud'[appAt].id = appCloud[appAt].id
                 /\ appCloud'[appAt].ip <=> appCloud[appAt].ip
                 /\ appCloud'[appAt].expiry \in {appCloud[appAt].expiry, "none"}
           /\ appCloud[appAt].id \in AppForeign =>
                \/ appCloud'[appAt] = appCloud[appAt]
                \/ appCloud[appAt].id = "usurper" /\ appPc \in AppByName
           /\ AppDeletesNext \/ AppDeleted(FALSE)
<1> DEFINE a == appAt
<1>0. /\ a \in Apps /\ appCloud[a] \in AppParts /\ appCloud \in [Apps -> AppParts]
      /\ AppAbsent \in AppParts
  BY AppDiscovering DEF AppTypes, AppsTypeOK
<1>1. /\ UNCHANGED <<appVersion, appAddress, appExpiry, appCourse, appCancelled>>
      /\ appPc \in AppDeleting
  BY DEF AppCuts, AppDeleteMachine, AppDeleteVolume, AppDeleteApp, AppDeletePart, AppDeleting
<1>l. appLeft' \in 0..AppBudget
  <2>1. appLeft \in 0..AppBudget
    BY DEF AppTypes, AppsTypeOK
  <2>2. appLeft' = appLeft \/ \E outcome : AppCall(outcome)
    BY Zenon DEF AppCuts, AppDeleteMachine, AppDeleteVolume, AppDeleteApp, AppDeletePart
  <2> QED BY <2>1, <2>2, AppLess
<1>2. CASE AppDeleteMachine
  <2> DEFINE without == [appCloud[a] EXCEPT !.machine = FALSE, !.version = 0, !.expiry = "none"]
  <2>1. /\ without \in AppParts /\ without.id = appCloud[a].id /\ (without.ip <=> appCloud[a].ip)
        /\ without.expiry = "none"
    <3>1. FALSE \in BOOLEAN /\ 0 \in 0..3
      OBVIOUS
    <3>2. appCloud[a] \in [id : {"none", "past", "op"} \union AppForeign, machine : BOOLEAN,
                           volume : BOOLEAN, version : 0..3, ip : BOOLEAN,
                           expiry : {"none", "prior", "new"}]
      BY <1>0 DEF AppParts
    <3>3. "none" \in {"none", "past", "op"} \union AppForeign /\ "none" \in {"none", "prior", "new"}
      OBVIOUS
    <3>4. /\ without \in AppParts /\ without.id = appCloud[a].id /\ without.ip = appCloud[a].ip
          /\ without.expiry = "none"
      BY <3>1, <3>2, <3>3, AppMachining, Zenon DEF AppParts
    <3> HIDE DEF without
    <3> QED BY <3>4
  <2>2. appCloud[a] = AppAbsent => without = AppAbsent
    <3>1. /\ AppAbsent.machine = FALSE /\ AppAbsent.version = 0
          /\ AppAbsent.expiry = "none"
      BY DEF AppAbsent
    <3> QED BY <1>0, <3>1, AppLacking, Zenon
  <2>3. AppDeletePart("unmachine", without, "drain")
    BY <1>2 DEF AppDeleteMachine
  <2> HIDE DEF without
  <2> QED BY <1>1, <1>l, <2>1, <2>2, <2>3, AppRemovesPart
<1>3. CASE AppDeleteVolume
  <2> DEFINE without == [appCloud[a] EXCEPT !.volume = FALSE]
  <2>1. /\ without \in AppParts /\ without.id = appCloud[a].id /\ (without.ip <=> appCloud[a].ip)
        /\ without.expiry = appCloud[a].expiry
    BY <1>0 DEF AppParts
  <2>2. appCloud[a] = AppAbsent => without = AppAbsent
    <3>1. AppAbsent.volume = FALSE
      BY DEF AppAbsent
    <3> QED BY <1>0, <3>1, AppLacking, Zenon
  <2>3. AppDeletePart("unvolume", without, "emptied")
    BY <1>3 DEF AppDeleteVolume
  <2> HIDE DEF without
  <2> QED BY <1>1, <1>l, <2>1, <2>2, <2>3, AppRemovesPart
<1>4. CASE AppDeleteApp
  <2>1. appCloud' = appCloud \/ appCloud' = [appCloud EXCEPT ![a] = AppAbsent]
    BY <1>4, Zenon DEF AppDeleteApp
  <2>2. appPc = "unapp" /\ appCloud[a].id # "foreign"
    BY <1>4 DEF AppDeleteApp, AppKnown, AppByName
  <2>3. AppAbsent.id = "none" /\ (appCloud[a].id = "none" => appCloud[a] = AppAbsent)
    BY <1>0 DEF AppAbsent, AppThere
  <2>4. \/ appPc' \in {"pending", "again"} /\ appAt' = a /\ UNCHANGED <<appProv, appErred>>
        \/ AppDeleted(FALSE)
    BY <1>4, Zenon DEF AppDeleteApp, AppGo
  <2>5. appCloud'[a] = appCloud[a] \/ appCloud'[a] = AppAbsent
    BY <1>0, <2>1
  <2>6. AppDeletesNext \/ AppDeleted(FALSE)
    BY <2>2, <2>3, <2>4, <2>5 DEF AppDeletesNext, AppDeleting
  <2>7. appCloud' \in [Apps -> AppParts] /\ \A b \in Apps \ {a} : appCloud'[b] = appCloud[b]
    BY <1>0, <2>1
  <2> QED BY <1>1, <1>l, <2>2, <2>3, <2>5, <2>6, <2>7 DEF AppForeign, AppByName
<1> QED BY <1>2, <1>3, <1>4 DEF AppCuts

\* Somebody else takes an App away, or puts another in its place.
LEMMA AppMeddles ==
    ASSUME AppTypes, AppThere, NEW a \in Apps, AppMeddle(a)
    PROVE  /\ appCloud' \in [Apps -> AppParts]
           /\ \A b \in Apps \ {a} : appCloud'[b] = appCloud[b]
           /\ appCloud'[a].id = "none" => appCloud'[a] = AppAbsent
           /\ \/ appCloud'[a].id \in {"none"} \union AppForeign
              \/ appCloud'[a].id = appCloud[a].id /\ AppKeeps(a)
           /\ a = appAt /\ appPc \in AppByName /\ appCloud[a].id # "foreign" =>
                appCloud'[a].id # "foreign"
           /\ UNCHANGED <<appMemory, appCourse, appPc, appAt, appErred>>
           /\ appLeft' \in 0..AppBudget /\ appLeft' < appLeft
<1> DEFINE newcomer == IF a = appAt /\ appPc \in AppByName THEN "usurper" ELSE "foreign"
<1>0. /\ appCloud \in [Apps -> AppParts] /\ appCloud[a] \in AppParts
      /\ AppAbsent \in AppParts /\ AppAbsent.id = "none"
      /\ newcomer \in AppForeign /\ newcomer # "none"
  BY AppDiscovering DEF AppTypes, AppsTypeOK, AppForeign, AppAbsent
<1>1. \/ appCloud' = [appCloud EXCEPT ![a] = AppAbsent]
      \/ \E machine \in BOOLEAN : appCloud' = [appCloud EXCEPT ![a] = AppStranger(newcomer, machine)]
      \/ /\ appCloud' = [appCloud EXCEPT ![a] = [appCloud[a] EXCEPT !.version = 3]]
         /\ appCloud[a].machine \/ [appCloud[a] EXCEPT !.version = 3] \in
                {AppStranger(newcomer, machine) : machine \in BOOLEAN}
  BY Zenon DEF AppMeddle
<1>2. \A machine \in BOOLEAN :
        AppStranger(newcomer, machine) \in AppParts /\ AppStranger(newcomer, machine).id = newcomer
  BY <1>0, AppDiscovering
<1> HIDE DEF newcomer
<1>3. appCloud[a].machine => appCloud[a].id # "none"
  BY DEF AppThere, AppAbsent
<1>4. newcomer = "foreign" => ~(a = appAt /\ appPc \in AppByName)
  BY DEF newcomer
<1>5. /\ UNCHANGED <<appMemory, appCourse, appPc, appAt, appErred>>
      /\ appLeft' \in 0..AppBudget /\ appLeft' < appLeft
  BY AppLess DEF AppMeddle
<1>6. CASE appCloud' = [appCloud EXCEPT ![a] = AppAbsent]
  BY <1>0, <1>5, <1>6
<1>7. CASE \E machine \in BOOLEAN :
               appCloud' = [appCloud EXCEPT ![a] = AppStranger(newcomer, machine)]
  <2>1. /\ appCloud' \in [Apps -> AppParts] /\ appCloud'[a].id = newcomer
        /\ \A b \in Apps \ {a} : appCloud'[b] = appCloud[b]
    BY <1>0, <1>2, <1>7
  <2> QED BY <1>0, <1>4, <1>5, <2>1
<1>8. CASE /\ appCloud' = [appCloud EXCEPT ![a] = [appCloud[a] EXCEPT !.version = 3]]
           /\ appCloud[a].machine \/ [appCloud[a] EXCEPT !.version = 3] \in
                  {AppStranger(newcomer, machine) : machine \in BOOLEAN}
  <2> DEFINE now == [appCloud[a] EXCEPT !.version = 3]
  <2>1. now \in AppParts /\ now.id = appCloud[a].id /\ now.ip = appCloud[a].ip
        /\ now.expiry = appCloud[a].expiry
    BY <1>0 DEF AppParts
  <2>2. appCloud[a].id # "none"
    <3>1. now \in {AppStranger(newcomer, machine) : machine \in BOOLEAN} => now.id = newcomer
      <4> HIDE DEF now
      <4> QED BY <1>2
    <3> QED BY <1>0, <1>3, <1>8, <2>1, <3>1
  <2> HIDE DEF now
  <2>3. appCloud' = [appCloud EXCEPT ![a] = now]
    BY <1>8 DEF now
  <2>4. /\ appCloud' \in [Apps -> AppParts] /\ appCloud'[a] = now
        /\ \A b \in Apps \ {a} : appCloud'[b] = appCloud[b]
    BY <1>0, <2>1, <2>3
  <2> QED BY <1>5, <2>1, <2>2, <2>4 DEF AppKeeps
<1> QED BY <1>1, <1>6, <1>7, <1>8

\* A loop goes on, or is entered.
AppGoesOn(S, again, after) ==
    \/ appPc' = after /\ appAt' = 1 /\ \A b \in S : b <= appAt
    \/ /\ appPc' = again /\ appAt' \in S /\ appAt' > appAt
       /\ \A b \in S : b <= appAt \/ b >= appAt'
AppBegins(S, loop, after) ==
    \/ appPc' = after /\ appAt' = 1 /\ S = {}
    \/ appPc' = loop /\ appAt' \in S /\ \A b \in S : b >= appAt'
\* A loop goes on with what it has not dealt with, or is over.
LEMMA AppLoops ==
    ASSUME AppTypes, NEW S \in SUBSET Apps, NEW again, NEW after
    PROVE  /\ AppLoop(S, appAt, again, after) => AppGoesOn(S, again, after)
           /\ AppEnter(S, again, after) => AppBegins(S, again, after)
<1>1. appAt \in 0..AppCount
  BY AppAssumption DEF AppTypes, AppsTypeOK, Apps
<1>2. AppLoop(S, appAt, again, after) => AppGoesOn(S, again, after)
  BY <1>1, AppLooping DEF AppGoesOn
<1>3. AppEnter(S, again, after) => AppBegins(S, again, after)
  BY AppEntering DEF AppBegins
<1> QED BY <1>2, <1>3

\* The sets that they are over.
LEMMA AppSets ==
    /\ AppUnaddressed \in SUBSET Apps /\ Apps \in SUBSET Apps
    /\ {b \in Apps : appExpiry[b].known} \in SUBSET Apps
    /\ {b \in Apps : appAddress[b].known} \in SUBSET Apps
    /\ {b \in Apps : appCaptured[b].known} \in SUBSET Apps
  BY AppAssumption DEF AppUnaddressed

\* Types, one part at a time.
AppHold ==
    /\ appCloud \in [Apps -> AppParts] /\ appPlan \in [Apps -> AppParts]
    /\ appProv \in [Apps -> AppRecords] /\ appVersion \in [Apps -> {0, 2}]
    /\ appAddress \in [Apps -> AppInverses] /\ appExpiry \in [Apps -> AppInverses]
AppStand ==
    /\ appPc \in AppApplying \union AppEnded \union AppDeleting \union
                 {"planned", "undoDns", "restore", "restored", "undoExposure", "release",
                  "released", "undoTarget", "cleanup", "destroy", "destroyed"}
    /\ appAt \in Apps /\ appErred \in BOOLEAN
    /\ appCancelled \in BOOLEAN /\ appLeft \in 0..AppBudget
AppIntend ==
    /\ appState \in [Apps -> AppRecords] /\ appCaptured \in [Apps -> AppRecords]
    /\ appRan \subseteq {"Target", "Exposure", "Dns"} /\ appUndone \subseteq appRan
    /\ appFor \in {"cleanup", "rollback", "down"}

\* A destruction begins once it knows of all that it may find.
LEMMA AppDestroys ==
    ASSUME AppTypes, AppDestroy
    PROVE  /\ appCaptured' \in [Apps -> AppRecords]
           /\ \/ /\ AppBegins({b \in Apps : appCaptured'[b].known}, "verify", "destroyed")
                 /\ \A a \in AppOwned : appCaptured'[a].known
              \/ appPc' = "failed" /\ appAt' = 1 /\ appCaptured' = appCaptured
<1> DEFINE captured == IF appFor = "down" THEN appCaptured ELSE [a \in Apps |-> AppMerged(a)]
<1>1. captured \in [Apps -> AppRecords]
  BY DEF AppTypes, AppsTypeOK, AppMerged
<1>2. \/ /\ AppContinuous(captured) /\ appCaptured' = captured
         /\ AppEnter({a \in Apps : captured[a].known}, "verify", "destroyed")
      \/ appPc' = "failed" /\ appAt' = 1 /\ appCaptured' = appCaptured
  BY DEF AppDestroy, AppGo
<1> HIDE DEF captured
<1>3. CASE /\ AppContinuous(captured) /\ appCaptured' = captured
           /\ AppEnter({a \in Apps : captured[a].known}, "verify", "destroyed")
  <2>1. {a \in Apps : captured[a].known} \in SUBSET Apps
    OBVIOUS
  <2>2. AppBegins({b \in Apps : appCaptured'[b].known}, "verify", "destroyed")
    BY <1>3, <2>1, AppLoops
  <2>3. \A a \in AppOwned : a \in Apps /\ captured[a] = AppSeen(a)
    BY <1>3 DEF AppContinuous, AppOwned
  <2> QED BY <1>1, <1>3, <2>2, <2>3, AppDiscovering
<1>4. CASE appPc' = "failed" /\ appAt' = 1 /\ appCaptured' = appCaptured
  BY <1>4 DEF AppTypes, AppsTypeOK
<1> QED BY <1>2, <1>3, <1>4

\* A deletion goes on to what is captured, and leaves the rest alone.
LEMMA AppDeletesOn ==
    ASSUME AppTypes, AppThere, AppKnown, AppDeletion
    PROVE  /\ appPc \in AppDeleting
           /\ UNCHANGED <<appFor, appUndone, appRan, appCaptured, appAddress, appExpiry>>
           /\ UNCHANGED <<appPlan, appState, appVersion, appCancelled>>
           /\ appCloud' \in [Apps -> AppParts] /\ appProv' \in [Apps -> AppRecords]
           /\ appLeft' \in 0..AppBudget
           /\ \A b \in Apps \ {appAt} : appCloud'[b] = appCloud[b]
           /\ appCloud'[appAt].id \in {appCloud[appAt].id, "none"}
           /\ \/ AppDeletesNext
              \/ appFor = "cleanup" /\ appPc' = "undoDns" /\ appAt' = 1 /\ appErred' = FALSE
              \/ /\ appFor # "cleanup" /\ appErred' \in BOOLEAN
                 /\ AppGoesOn({b \in Apps : appCaptured[b].known}, "verify", "destroyed")
                 /\ ~appErred' => ~appErred /\ appCloud'[appAt].id = "none"
<1>1. /\ appPc \in AppDeleting
      /\ UNCHANGED <<appFor, appUndone, appRan, appCaptured, appAddress, appExpiry>>
      /\ UNCHANGED <<appPlan, appState, appVersion, appCancelled>> /\ appLeft' \in 0..AppBudget
      /\ appCloud' \in [Apps -> AppParts]
      /\ \A b \in Apps \ {appAt} : appCloud'[b] = appCloud[b]
      /\ appCloud'[appAt].id \in {appCloud[appAt].id, "none"}
      /\ \/ AppDeletesNext
         \/ AppDeleted(FALSE)
         \/ AppDeleted(TRUE) /\ appCloud'[appAt].id = "none"
  <2>1. CASE AppLooks
    BY <2>1, AppLooking DEF appCourse, AppTypes, AppsTypeOK
  <2>2. CASE AppCuts
    BY <2>2, AppRemoves DEF appCourse
  <2> QED BY <2>1, <2>2 DEF AppDeletion
<1>2. AppDeleted(TRUE) \/ AppDeleted(FALSE) =>
        \/ appFor = "cleanup" /\ appPc' = "undoDns" /\ appAt' = 1 /\ appErred' = FALSE
        \/ /\ appFor # "cleanup" /\ appErred' \in BOOLEAN
           /\ AppGoesOn({b \in Apps : appCaptured[b].known}, "verify", "destroyed")
           /\ ~appErred' => ~appErred /\ ~AppDeleted(FALSE)
  BY AppDeletions, AppLoops, AppSets
<1>3. appProv' \in [Apps -> AppRecords]
  <2>1. AppDeletesNext => appProv' = appProv
    BY DEF AppDeletesNext
  <2> QED BY <1>1, <2>1, AppDeletions DEF AppTypes, AppsTypeOK
<1> QED BY <1>1, <1>2, <1>3

AppAct == AppStep \/ AppCancel \/ AppDie

\* What there is and what is remembered of it keep their types.
LEMMA AppHoldKept ==
    ASSUME AppTypes, AppThere, AppKnown, AppAct
    PROVE  AppHold'
<1> USE DEF AppTypes, AppsTypeOK, AppHold
<1>1. CASE AppStart
  BY <1>1, AppDiscovering
     DEF AppStart, AppExposing, AppUnaddressed, appMemory, appCourse
<1>2. CASE AppCheckFree
  BY <1>2, AppDiscovering
     DEF AppCheckFree, appMemory, appCourse
<1>3. CASE AppCreate
  BY <1>3, AppCreates, AppDiscovering
     DEF AppCreate, appMemory, appCourse
<1>4. CASE AppCreateVolume
  BY <1>4, AppCreatesParts, AppDiscovering
     DEF AppCreateVolume, AppCreatePart, appMemory, appCourse
<1>5. CASE AppCreateMachine
  BY <1>5, AppCreatesParts, AppDiscovering
     DEF AppCreateMachine, AppCreatePart, appMemory, appCourse
<1>6. CASE AppCreated
  BY <1>6, AppDiscovering
     DEF AppCreated, appMemory, appCourse
<1>7. CASE AppUpdate
  BY <1>7, AppUpdates, AppDiscovering
     DEF AppUpdate, appMemory, appCourse
<1>8. CASE AppLaunched
  BY <1>8, AppDiscovering
     DEF AppLaunched, appMemory, appCourse
<1>9. CASE AppReady
  BY <1>9, AppDiscovering
     DEF AppReady, AppExposing, AppUnaddressed, appMemory, appCourse
<1>10. CASE AppAllocate
  BY <1>10, AppAllocates, AppDiscovering
     DEF AppAllocate, AppUnaddressed, appMemory, appCourse
<1>11. CASE AppReachable
  BY <1>11, AppDiscovering
     DEF AppReachable, appMemory, appCourse
<1>12. CASE AppCommit
  BY <1>12, AppCommits, AppDiscovering
     DEF AppCommit, appMemory, appCourse
<1>13. CASE AppCommitted
  BY <1>13, AppDiscovering
     DEF AppCommitted, appMemory, appCourse
<1>14. CASE AppRestore
  BY <1>14, AppRestores, AppDiscovering
     DEF AppRestore, appMemory, appCourse
<1>15. CASE AppRelease
  BY <1>15, AppReleases, AppDiscovering
     DEF AppRelease, appMemory, appCourse
<1>16. CASE AppUndo
  BY <1>16, AppDiscovering
     DEF AppUndo, AppUndoStage, AppAnswerUndo, appMemory, appCourse
<1>17. CASE AppCleanup
  BY <1>17, AppDiscovering
     DEF AppCleanup, appMemory, appCourse
<1>18. CASE AppDestroy
  BY <1>18, AppDiscovering
     DEF AppDestroy, appMemory, appCourse
<1>19. CASE AppLooks
  BY <1>19, AppDeletesOn DEF AppDeletion
<1>20. CASE AppCuts
  BY <1>20, AppDeletesOn DEF AppDeletion
<1>21. CASE AppDown
  BY <1>21, AppDiscovering
     DEF AppDown, appMemory, appCourse
<1>22. CASE AppDownEnds
  BY <1>22, AppDiscovering
     DEF AppDownEnds, appMemory, appCourse
<1>23. CASE AppCancel
  BY <1>23, AppDiscovering
     DEF AppCancel, appMemory, appCourse
<1>24. CASE AppDie
  BY <1>24, AppDiscovering
     DEF AppDie, appMemory, appCourse
<1> QED BY <1>1, <1>2, <1>3, <1>4, <1>5, <1>6, <1>7, <1>8, <1>9, <1>10, <1>11, <1>12, <1>13,
           <1>14, <1>15, <1>16, <1>17, <1>18, <1>19, <1>20, <1>21, <1>22, <1>23, <1>24
       DEF AppAct, AppStep, AppForward, AppBackward, AppLooks, AppCuts

\* So does the place that the process is at.
LEMMA AppStandKept ==
    ASSUME AppTypes, AppThere, AppKnown, AppAct
    PROVE  AppStand'
<1> USE DEF AppTypes, AppsTypeOK, AppStand, AppApplying, AppEnded, AppDeleting, AppGo, AppFailStage
<1>1. CASE AppStart
  BY <1>1, AppDiscovering, AppLess, AppLoops, AppSets
     DEF AppStart, AppExposing, AppUnaddressed, AppGoesOn, AppBegins
<1>2. CASE AppCheckFree
  BY <1>2, AppDiscovering, AppLess, AppLoops, AppSets
     DEF AppCheckFree, AppGoesOn, AppBegins
<1>3. CASE AppCreate
  <2>1. appPc' \in {"volume", "machine", "undoDns"} /\ appAt' \in Apps /\ appErred' \in BOOLEAN
    BY <1>3, AppCreates, AppDiscovering
  <2>2. appCancelled' = appCancelled /\ appLeft' \in 0..AppBudget
    BY <1>3, AppLess DEF AppCreate
  <2> QED BY <2>1, <2>2
<1>4. CASE AppCreateVolume
  BY <1>4, AppCreatesParts, AppDiscovering, AppLess, AppLoops, AppSets
     DEF AppCreateVolume, AppCreatePart, AppGoesOn, AppBegins
<1>5. CASE AppCreateMachine
  BY <1>5, AppCreatesParts, AppDiscovering, AppLess, AppLoops, AppSets
     DEF AppCreateMachine, AppCreatePart, AppGoesOn, AppBegins
<1>6. CASE AppCreated
  BY <1>6, AppDiscovering, AppLess, AppLoops, AppSets
     DEF AppCreated, AppGoesOn, AppBegins
<1>7. CASE AppUpdate
  BY <1>7, AppUpdates, AppDiscovering, AppLess, AppLoops, AppSets
     DEF AppUpdate, AppGoesOn, AppBegins
<1>8. CASE AppLaunched
  BY <1>8, AppDiscovering, AppLess, AppLoops, AppSets
     DEF AppLaunched, AppGoesOn, AppBegins
<1>9. CASE AppReady
  BY <1>9, AppDiscovering, AppLess, AppLoops, AppSets
     DEF AppReady, AppExposing, AppUnaddressed, AppGoesOn, AppBegins
<1>10. CASE AppAllocate
  BY <1>10, AppAllocates, AppDiscovering, AppLess, AppLoops, AppSets
     DEF AppAllocate, AppUnaddressed, AppGoesOn, AppBegins
<1>11. CASE AppReachable
  BY <1>11, AppDiscovering, AppLess, AppLoops, AppSets
     DEF AppReachable, AppGoesOn, AppBegins
<1>12. CASE AppCommit
  BY <1>12, AppCommits, AppDiscovering, AppLess, AppLoops, AppSets
     DEF AppCommit, AppGoesOn, AppBegins
<1>13. CASE AppCommitted
  BY <1>13, AppDiscovering, AppLess, AppLoops, AppSets
     DEF AppCommitted, AppGoesOn, AppBegins
<1>14. CASE AppRestore
  BY <1>14, AppRestores, AppDiscovering, AppLess, AppLoops, AppSets, ZenonT(60)
     DEF AppRestore, AppGoesOn, AppBegins
<1>15. CASE AppRelease
  BY <1>15, AppReleases, AppDiscovering, AppLess, AppLoops, AppSets
     DEF AppRelease, AppGoesOn, AppBegins
<1>16. CASE AppUndo
  BY <1>16, AppDiscovering, AppLess, AppLoops, AppSets
     DEF AppUndo, AppUndoStage, AppAnswerUndo, AppGoesOn, AppBegins
<1>17. CASE AppCleanup
  BY <1>17, AppDiscovering, AppLess, AppLoops, AppSets
     DEF AppCleanup, AppGoesOn, AppBegins
<1>18. CASE AppDestroy
  <2>1. appErred' = FALSE /\ appCancelled' = appCancelled /\ appLeft' \in 0..AppBudget
    BY <1>18, AppLess DEF AppDestroy
  <2>2. appPc' \in {"verify", "destroyed", "failed"} /\ appAt' \in Apps
    BY <1>18, AppDestroys, AppDiscovering DEF AppBegins
  <2> QED BY <2>1, <2>2
<1>19. CASE AppLooks
  <2>1. appPc' \in AppDeleting \union {"undoDns", "destroyed"} /\ appAt' \in Apps /\ appErred' \in BOOLEAN
    BY <1>19, AppDeletesOn, AppDiscovering DEF AppDeletion, AppGoesOn, AppDeletesNext
  <2>2. appCancelled' = appCancelled /\ appLeft' \in 0..AppBudget
    BY <1>19, AppDeletesOn DEF AppDeletion
  <2> QED BY <2>1, <2>2
<1>20. CASE AppCuts
  <2>1. appPc' \in AppDeleting \union {"undoDns", "destroyed"} /\ appAt' \in Apps /\ appErred' \in BOOLEAN
    BY <1>20, AppDeletesOn, AppDiscovering DEF AppDeletion, AppGoesOn, AppDeletesNext
  <2>2. appCancelled' = appCancelled /\ appLeft' \in 0..AppBudget
    BY <1>20, AppDeletesOn DEF AppDeletion
  <2> QED BY <2>1, <2>2
<1>21. CASE AppDown
  BY <1>21, AppDiscovering, AppLess, AppLoops, AppSets
     DEF AppDown, AppGoesOn, AppBegins
<1>22. CASE AppDownEnds
  BY <1>22, AppDiscovering, AppLess, AppLoops, AppSets
     DEF AppDownEnds, AppGoesOn, AppBegins
<1>23. CASE AppCancel
  BY <1>23, AppDiscovering, AppLess, AppLoops, AppSets
     DEF AppCancel, AppGoesOn, AppBegins
<1>24. CASE AppDie
  BY <1>24, AppDiscovering, AppLess, AppLoops, AppSets
     DEF AppDie, AppGoesOn, AppBegins
<1> QED BY <1>1, <1>2, <1>3, <1>4, <1>5, <1>6, <1>7, <1>8, <1>9, <1>10, <1>11, <1>12, <1>13,
           <1>14, <1>15, <1>16, <1>17, <1>18, <1>19, <1>20, <1>21, <1>22, <1>23, <1>24
       DEF AppAct, AppStep, AppForward, AppBackward, AppLooks, AppCuts

\* So does what it intends.
LEMMA AppIntendKept ==
    ASSUME AppTypes, AppThere, AppKnown, AppCourses, AppAct
    PROVE  AppIntend'
<1> USE DEF AppTypes, AppsTypeOK, AppIntend
<1>1. CASE AppStart
  BY <1>1, AppDiscovering
     DEF AppStart, AppCourses, appCourse
<1>2. CASE AppCheckFree
  BY <1>2, AppDiscovering
     DEF AppCheckFree, appCourse
<1>3. CASE AppCreate
  BY <1>3, AppDiscovering
     DEF AppCreate, appCourse
<1>4. CASE AppCreateVolume
  BY <1>4, AppDiscovering
     DEF AppCreateVolume, AppCreatePart, appCourse
<1>5. CASE AppCreateMachine
  BY <1>5, AppDiscovering
     DEF AppCreateMachine, AppCreatePart, appCourse
<1>6. CASE AppCreated
  BY <1>6, AppDiscovering
     DEF AppCreated, appCourse
<1>7. CASE AppUpdate
  BY <1>7, AppDiscovering
     DEF AppUpdate, appCourse
<1>8. CASE AppLaunched
  BY <1>8, AppDiscovering
     DEF AppLaunched, appCourse
<1>9. CASE AppReady
  BY <1>9, AppDiscovering
     DEF AppReady, AppExposing, AppUnaddressed, appCourse
<1>10. CASE AppAllocate
  BY <1>10, AppDiscovering
     DEF AppAllocate, AppUnaddressed, appCourse
<1>11. CASE AppReachable
  BY <1>11, AppDiscovering
     DEF AppReachable, appCourse
<1>12. CASE AppCommit
  BY <1>12, AppDiscovering
     DEF AppCommit, appCourse
<1>13. CASE AppCommitted
  BY <1>13, AppDiscovering
     DEF AppCommitted, appCourse
<1>14. CASE AppRestore
  BY <1>14, AppDiscovering
     DEF AppRestore, appCourse
<1>15. CASE AppRelease
  BY <1>15, AppDiscovering
     DEF AppRelease, appCourse
<1>16. CASE AppUndo
  BY <1>16, AppDiscovering
     DEF AppUndo, AppUndoStage, AppAnswerUndo, AppCourses, AppGo, AppDeleting, appCourse
<1>17. CASE AppCleanup
  BY <1>17, AppDiscovering
     DEF AppCleanup, appCourse
<1>18. CASE AppDestroy
  BY <1>18, AppDestroys
     DEF AppDestroy, appCourse
<1>19. CASE AppLooks
  BY <1>19, AppDeletesOn DEF AppDeletion
<1>20. CASE AppCuts
  BY <1>20, AppDeletesOn DEF AppDeletion
<1>21. CASE AppDown
  BY <1>21, AppDiscovering
     DEF AppDown, appCourse
<1>22. CASE AppDownEnds
  BY <1>22, AppDiscovering
     DEF AppDownEnds, appCourse
<1>23. CASE AppCancel
  BY <1>23, AppDiscovering
     DEF AppCancel, appCourse
<1>24. CASE AppDie
  BY <1>24, AppDiscovering
     DEF AppDie, appCourse
<1> QED BY <1>1, <1>2, <1>3, <1>4, <1>5, <1>6, <1>7, <1>8, <1>9, <1>10, <1>11, <1>12, <1>13,
           <1>14, <1>15, <1>16, <1>17, <1>18, <1>19, <1>20, <1>21, <1>22, <1>23, <1>24
       DEF AppAct, AppStep, AppForward, AppBackward, AppLooks, AppCuts

\* The plan stays what it was.
LEMMA AppPlanStays ==
    ASSUME AppAct PROVE appPlan' = appPlan /\ (AppFresh' <=> AppFresh)
<1>1. appPlan' = appPlan
  BY DEF AppAct, AppStep, AppForward, AppBackward, appCourse, AppStart, AppCheckFree, AppCreate,
         AppCreateVolume, AppCreateMachine, AppCreatePart, AppCreated, AppUpdate, AppLaunched,
            AppReady,
         AppAllocate, AppReachable, AppCommit, AppCommitted, AppRestore, AppRelease, AppUndo,
            AppCleanup,
         AppDestroy, AppVerify, AppDeleteMachine, AppDeleteVolume, AppDeletePart, AppDrained,
         AppEmptied, AppListed, AppRecheck, AppDeleteApp, AppDeleteAgain, AppVanished, AppDown,
         AppDownEnds, AppCancel, AppDie
<1> QED BY <1>1 DEF AppFresh

\* An App that is not there has nothing.
LEMMA AppThereKept ==
    ASSUME AppTypes, AppThere, AppKnown, AppAct
    PROVE  AppThere'
<1> USE DEF AppThere, AppElsewhere, AppKeeps, AppOwned
<1>1. CASE AppStart
  BY <1>1, AppPlanStays
     DEF AppStart, AppExposing, AppUnaddressed
<1>2. CASE AppCheckFree
  BY <1>2, AppPlanStays
     DEF AppCheckFree
<1>3. CASE AppCreate
  BY <1>3, AppCreates, AppPlanStays
     DEF AppCreate
<1>4. CASE AppCreateVolume
  BY <1>4, AppCreatesParts, AppPlanStays
     DEF AppCreateVolume, AppCreatePart
<1>5. CASE AppCreateMachine
  BY <1>5, AppCreatesParts, AppPlanStays
     DEF AppCreateMachine, AppCreatePart
<1>6. CASE AppCreated
  BY <1>6, AppPlanStays
     DEF AppCreated
<1>7. CASE AppUpdate
  BY <1>7, AppUpdates, AppPlanStays
     DEF AppUpdate
<1>8. CASE AppLaunched
  BY <1>8, AppPlanStays
     DEF AppLaunched
<1>9. CASE AppReady
  BY <1>9, AppPlanStays
     DEF AppReady, AppExposing, AppUnaddressed
<1>10. CASE AppAllocate
  BY <1>10, AppAllocates, AppPlanStays
     DEF AppAllocate, AppUnaddressed
<1>11. CASE AppReachable
  BY <1>11, AppPlanStays
     DEF AppReachable
<1>12. CASE AppCommit
  BY <1>12, AppCommits, AppPlanStays
     DEF AppCommit
<1>13. CASE AppCommitted
  BY <1>13, AppPlanStays
     DEF AppCommitted
<1>14. CASE AppRestore
  BY <1>14, AppRestores, AppPlanStays
     DEF AppRestore
<1>15. CASE AppRelease
  BY <1>15, AppReleases, AppPlanStays
     DEF AppRelease
<1>16. CASE AppUndo
  BY <1>16, AppPlanStays
     DEF AppUndo, AppUndoStage, AppAnswerUndo
<1>17. CASE AppCleanup
  BY <1>17, AppPlanStays
     DEF AppCleanup
<1>18. CASE AppDestroy
  BY <1>18, AppPlanStays
     DEF AppDestroy
<1>19. CASE AppLooks
  BY <1>19, AppLooking, AppPlanStays
<1>20. CASE AppCuts
  BY <1>20, AppRemoves, AppPlanStays
<1>21. CASE AppDown
  BY <1>21, AppPlanStays
     DEF AppDown
<1>22. CASE AppDownEnds
  BY <1>22, AppPlanStays
     DEF AppDownEnds
<1>23. CASE AppCancel
  BY <1>23, AppPlanStays
     DEF AppCancel
<1>24. CASE AppDie
  BY <1>24, AppPlanStays
     DEF AppDie
<1> QED BY <1>1, <1>2, <1>3, <1>4, <1>5, <1>6, <1>7, <1>8, <1>9, <1>10, <1>11, <1>12, <1>13,
           <1>14, <1>15, <1>16, <1>17, <1>18, <1>19, <1>20, <1>21, <1>22, <1>23, <1>24
       DEF AppAct, AppStep, AppForward, AppBackward, AppLooks, AppCuts

\* Each command does what it is for.
LEMMA AppCoursesKept ==
    ASSUME AppTypes, AppThere, AppCourses, AppKnown, AppAct
    PROVE  AppCourses'
<1> USE DEF AppCourses, appCourse, AppGo, AppFailStage, AppGoesOn, AppBegins, AppMaking,
            AppRunning, AppUndoing, AppDeleting, AppEnded, AppApplying
<1>1. CASE AppStart
  <2>1. appPc = "planned" /\ UNCHANGED <<appFor, appUndone>>
    BY <1>1 DEF AppStart
  <2>2. \/ AppFresh /\ appPc' = "check"
        \/ appPc' \in {"update", "allocate", "commit"}
    BY <1>1, AppLoops, AppSets DEF AppStart, AppExposing
  <2> QED BY <2>1, <2>2, AppPlanStays
<1>2. CASE AppCheckFree
  BY <1>2, AppPlanStays, AppLoops, AppSets
     DEF AppCheckFree
<1>3. CASE AppCreate
  BY <1>3, AppCreates, AppPlanStays, AppLoops, AppSets
     DEF AppCreate
<1>4. CASE AppCreateVolume
  BY <1>4, AppCreatesParts, AppPlanStays, AppLoops, AppSets
     DEF AppCreateVolume, AppCreatePart
<1>5. CASE AppCreateMachine
  <2>1. appPc = "machine" /\ UNCHANGED <<appFor, appUndone, appRan>>
    BY <1>5 DEF AppCreateMachine, AppCreatePart
  <2>2. appPc' \in {"machine", "cleanup", "check", "created"}
    BY <1>5, AppCreatesParts, AppLoops, AppSets
  <2> QED BY <2>1, <2>2, AppPlanStays
<1>6. CASE AppCreated
  BY <1>6, AppPlanStays, AppLoops, AppSets
     DEF AppCreated
<1>7. CASE AppUpdate
  BY <1>7, AppUpdates, AppPlanStays, AppLoops, AppSets
     DEF AppUpdate
<1>8. CASE AppLaunched
  <2>1. appPc = "launched" /\ UNCHANGED <<appFor, appUndone, appRan>>
    BY <1>8 DEF AppLaunched
  <2>2. appPc' \in {"update", "ready", "undoDns"}
    BY <1>8, AppLoops, AppSets DEF AppLaunched
  <2> QED BY <2>1, <2>2, AppPlanStays
<1>9. CASE AppReady
  <2>1. appPc = "ready" /\ UNCHANGED <<appFor, appUndone, appRan>>
    BY <1>9 DEF AppReady
  <2>2. appPc' \in {"allocate", "commit", "undoDns"}
    BY <1>9, AppLoops, AppSets DEF AppReady, AppExposing
  <2> QED BY <2>1, <2>2, AppPlanStays
<1>10. CASE AppAllocate
  BY <1>10, AppAllocates, AppPlanStays, AppLoops, AppSets
     DEF AppAllocate, AppUnaddressed
<1>11. CASE AppReachable
  BY <1>11, AppPlanStays, AppLoops, AppSets
     DEF AppReachable
<1>12. CASE AppCommit
  BY <1>12, AppCommits, AppPlanStays, AppLoops, AppSets
     DEF AppCommit
<1>13. CASE AppCommitted
  BY <1>13, AppPlanStays, AppLoops, AppSets
     DEF AppCommitted
<1>14. CASE AppRestore
  BY <1>14, AppRestores, AppPlanStays, AppLoops, AppSets
     DEF AppRestore
<1>15. CASE AppRelease
  BY <1>15, AppReleases, AppPlanStays, AppLoops, AppSets
     DEF AppRelease
<1>16. CASE AppUndo
  <2>1. appRan' = appRan /\ appFor' = IF appPc = "undoTarget" THEN "rollback" ELSE appFor
    BY <1>16 DEF AppUndo
  <2>2. CASE appPc = "undoDns" \/ appPc = "restored"
    <3>1. /\ appPc = "undoDns" => appUndone' = appUndone
          /\ appPc' \in {"restore", "restored"} => "Dns" \in appRan
          /\ appUndone' \subseteq appUndone \union {"Dns"}
          /\ appPc = "undoDns" => appPc' \in {"restore", "restored", "undoExposure", "failed"}
          /\ appPc = "restored" => appPc' = "undoExposure"
      BY <1>16, <2>2, AppLoops, AppSets DEF AppUndo, AppUndoStage, AppAnswerUndo
    <3> QED BY <2>1, <2>2, <3>1, AppPlanStays
  <2>3. CASE appPc = "undoExposure" \/ appPc = "released"
    <3>1. /\ appPc = "undoExposure" => appUndone' = appUndone
          /\ appPc' \in {"release", "released"} => "Exposure" \in appRan
          /\ appUndone' \subseteq appUndone \union {"Exposure"}
          /\ appPc = "undoExposure" => appPc' \in {"release", "released", "undoTarget", "failed"}
          /\ appPc = "released" => appPc' = "undoTarget"
      BY <1>16, <2>3, AppLoops, AppSets DEF AppUndo, AppUndoStage, AppAnswerUndo
    <3> QED BY <2>1, <2>3, <3>1, AppPlanStays
  <2>4. CASE appPc = "undoTarget" \/ appPc = "destroyed"
    <3>1. /\ appPc = "undoTarget" => appUndone' = appUndone
          /\ appPc = "destroyed" => appFor = "rollback" /\ appPc' = "failed"
          /\ appPc = "undoTarget" => appPc' \in {"destroy", "failed"}
          /\ appPc' = "destroy" => "Target" \in appRan
      BY <1>16, <2>4 DEF AppUndo, AppUndoStage, AppAnswerUndo
    <3> QED BY <2>1, <2>4, <3>1, AppPlanStays
  <2> QED BY <1>16, <2>2, <2>3, <2>4 DEF AppUndo, AppUndoStage, AppAnswerUndo
<1>17. CASE AppCleanup
  BY <1>17, AppPlanStays, AppLoops, AppSets
     DEF AppCleanup
<1>18. CASE AppDestroy
  BY <1>18, AppPlanStays, AppLoops, AppSets, AppDestroys
     DEF AppDestroy
<1>19. CASE AppLooks
  <2>1. appPc \in AppDeleting /\ UNCHANGED <<appFor, appUndone, appRan>>
    BY <1>19, AppDeletesOn DEF AppDeletion
  <2>2. \/ appFor = "cleanup" /\ appPc' = "undoDns"
        \/ appFor # "cleanup" /\ appPc' \in {"verify", "destroyed"}
        \/ appPc' \in AppDeleting
    BY <1>19, AppDeletesOn DEF AppDeletion, AppDeletesNext
  <2> QED BY <2>1, <2>2, AppPlanStays
<1>20. CASE AppCuts
  <2>1. appPc \in AppDeleting /\ UNCHANGED <<appFor, appUndone, appRan>>
    BY <1>20, AppDeletesOn DEF AppDeletion
  <2>2. \/ appFor = "cleanup" /\ appPc' = "undoDns"
        \/ appFor # "cleanup" /\ appPc' \in {"verify", "destroyed"}
        \/ appPc' \in AppDeleting
    BY <1>20, AppDeletesOn DEF AppDeletion, AppDeletesNext
  <2> QED BY <2>1, <2>2, AppPlanStays
<1>21. CASE AppDown
  BY <1>21, AppPlanStays, AppLoops, AppSets
     DEF AppDown
<1>22. CASE AppDownEnds
  BY <1>22, AppPlanStays, AppLoops, AppSets
     DEF AppDownEnds
<1>23. CASE AppCancel
  BY <1>23, AppPlanStays, AppLoops, AppSets
     DEF AppCancel
<1>24. CASE AppDie
  BY <1>24, AppPlanStays, AppLoops, AppSets
     DEF AppDie
<1> QED BY <1>1, <1>2, <1>3, <1>4, <1>5, <1>6, <1>7, <1>8, <1>9, <1>10, <1>11, <1>12, <1>13,
           <1>14, <1>15, <1>16, <1>17, <1>18, <1>19, <1>20, <1>21, <1>22, <1>23, <1>24
       DEF AppAct, AppStep, AppForward, AppBackward, AppLooks, AppCuts

\* An `up` goes forward until it fails, or has succeeded.
LEMMA AppForwards ==
    ASSUME AppTypes, AppCourses, AppForward
    PROVE  /\ appPc \in {"planned"} \union AppMaking \union AppRunning
           /\ appPc' \in AppMaking \union AppRunning \union {"undoDns", "cleanup", "succeeded"}
           /\ UNCHANGED <<appFor, appUndone, appCaptured>> /\ appFor = "cleanup" /\ appUndone = {}
<1> USE DEF AppMaking, AppRunning, AppGo, AppFailStage, AppGoesOn, AppBegins
<1>1. UNCHANGED <<appFor, appUndone, appCaptured>>
  BY DEF AppForward, appCourse, AppStart, AppCheckFree, AppCreate, AppCreateVolume,
     AppCreateMachine,
         AppCreatePart, AppCreated, AppUpdate, AppLaunched, AppReady, AppAllocate, AppReachable,
         AppCommit, AppCommitted
<1>2. appPc \in {"planned"} \union AppMaking \union AppRunning
  BY DEF AppForward, AppStart, AppCheckFree, AppCreate, AppCreateVolume, AppCreateMachine,
         AppCreatePart, AppCreated, AppUpdate, AppLaunched, AppReady, AppAllocate, AppReachable,
         AppCommit, AppCommitted
<1>3. appFor = "cleanup" /\ appUndone = {}
  BY <1>2 DEF AppCourses, AppDeleting, AppEnded, AppTypes, AppsTypeOK
<1>4. CASE AppStart
  BY <1>1, <1>2, <1>3, <1>4, AppLoops, AppSets DEF AppStart, AppExposing
<1>5. CASE AppCheckFree \/ AppCreated \/ AppReachable \/ AppCommitted
  BY <1>1, <1>2, <1>3, <1>5 DEF AppCheckFree, AppCreated, AppReachable, AppCommitted
<1>6. CASE AppCreate
  BY <1>1, <1>2, <1>3, <1>6 DEF AppCreate
<1>7. CASE AppCreateVolume \/ AppCreateMachine
  <2>1. \/ appPc' \in {"machine", "cleanup"}
        \/ AppLoop(Apps, appAt, "check", "created")
    BY <1>7 DEF AppCreateVolume, AppCreateMachine, AppCreatePart
  <2> QED BY <1>1, <1>2, <1>3, <2>1, AppLoops, AppSets
<1>8. CASE AppUpdate
  BY <1>1, <1>2, <1>3, <1>8 DEF AppUpdate
<1>9. CASE AppLaunched
  BY <1>1, <1>2, <1>3, <1>9, AppLoops, AppSets DEF AppLaunched
<1>10. CASE AppReady
  BY <1>1, <1>2, <1>3, <1>10, AppLoops, AppSets DEF AppReady, AppExposing
<1>11. CASE AppAllocate
  BY <1>1, <1>2, <1>3, <1>11, AppAllocates, AppLoops, AppSets
<1>12. CASE AppCommit
  BY <1>1, <1>2, <1>3, <1>12, AppCommits, AppLoops, AppSets
<1> QED BY <1>4, <1>5, <1>6, <1>7, <1>8, <1>9, <1>10, <1>11, <1>12 DEF AppForward

\* Once every App is made, an `up` creates no more.
AppRuns ==
    AppCreated \/ AppUpdate \/ AppLaunched \/ AppReady \/ AppAllocate \/ AppReachable \/ AppCommit
        \/ AppCommitted
\* An up that makes its Apps goes on making them, or begins to undo them.
LEMMA AppRunsOn ==
    ASSUME AppTypes, AppRuns
    PROVE  /\ appPc \in AppRunning /\ appPc' \in AppRunning \union {"undoDns", "succeeded"}
           /\ appProv' = appProv
<1> USE DEF AppMaking, AppRunning, AppGo, AppFailStage, AppGoesOn, AppBegins, appMemory
<1>0. appPc \in AppRunning /\ appProv' = appProv
  BY DEF AppRuns, AppCreated, AppUpdate, AppLaunched, AppReady, AppAllocate, AppReachable,
         AppCommit, AppCommitted
<1>1. CASE AppCreated \/ AppReachable \/ AppCommitted \/ AppUpdate
  BY <1>0, <1>1 DEF AppCreated, AppReachable, AppCommitted, AppUpdate
<1>2. CASE AppLaunched
  BY <1>0, <1>2, AppLoops, AppSets DEF AppLaunched
<1>3. CASE AppReady
  BY <1>0, <1>3, AppLoops, AppSets DEF AppReady, AppExposing
<1>4. CASE AppAllocate
  BY <1>0, <1>4, AppAllocates, AppLoops, AppSets
<1>5. CASE AppCommit
  BY <1>0, <1>5, AppCommits, AppLoops, AppSets
<1> QED BY <1>1, <1>2, <1>3, <1>4, <1>5 DEF AppRuns

\* A compensation goes back stage by stage, and answers for one that went through.
LEMMA AppUndoes ==
    ASSUME AppTypes, AppUndo
    PROVE  /\ UNCHANGED <<appCloud, appPlan, appProv, appAddress, appExpiry, appCaptured>>
           /\ appFor' = IF appPc = "undoTarget" THEN "rollback" ELSE appFor
           /\ \/ /\ appPc \in {"undoDns", "undoExposure", "undoTarget"} /\ appUndone' = appUndone
                 /\ appPc' \in {"undoExposure", "undoTarget", "failed", "destroy"}
              \/ /\ appPc \in {"undoDns", "undoExposure"} /\ appUndone' = appUndone
                 /\ \/ AppBegins({a \in Apps : appExpiry[a].known}, "restore", "restored")
                    \/ AppBegins({a \in Apps : appAddress[a].known}, "release", "released")
              \/ /\ appPc = "restored" /\ appPc' = "undoExposure"
                 /\ appUndone' = appUndone \/ (~appErred /\ appUndone' = appUndone \union {"Dns"})
              \/ /\ appPc = "released" /\ appPc' = "undoTarget"
                 /\ \/ appUndone' = appUndone
                    \/ ~appErred /\ appUndone' = appUndone \union {"Exposure"}
              \/ /\ appPc = "destroyed" /\ appFor = "rollback" /\ appPc' = "failed"
                 /\ \/ appUndone' = appUndone
                    \/ ~appErred /\ appUndone' = appUndone \union {"Target"}
<1>1. /\ UNCHANGED <<appCloud, appPlan, appProv, appAddress, appExpiry, appCaptured>>
      /\ appFor' = IF appPc = "undoTarget" THEN "rollback" ELSE appFor
  BY DEF AppUndo, appMemory
<1>2. /\ AppEnter({a \in Apps : appExpiry[a].known}, "restore", "restored") =>
            AppBegins({a \in Apps : appExpiry[a].known}, "restore", "restored")
      /\ AppEnter({a \in Apps : appAddress[a].known}, "release", "released") =>
            AppBegins({a \in Apps : appAddress[a].known}, "release", "released")
  BY AppLoops, AppSets
<1>3. \A stage : /\ appErred => appUndone \union (IF appErred THEN {} ELSE {stage}) = appUndone
                 /\ ~appErred => appUndone \union (IF appErred THEN {} ELSE {stage})
                                    = appUndone \union {stage}
  OBVIOUS
<1>4. CASE AppUndoStage("Dns", "undoDns",
              AppEnter({a \in Apps : appExpiry[a].known}, "restore", "restored"), "undoExposure")
  BY <1>1, <1>2, <1>4 DEF AppUndoStage, AppGo
<1>5. CASE AppUndoStage("Exposure", "undoExposure",
              AppEnter({a \in Apps : appAddress[a].known}, "release", "released"), "undoTarget")
  BY <1>1, <1>2, <1>5 DEF AppUndoStage, AppGo
<1>6. CASE AppUndoStage("Target", "undoTarget", AppGo("destroy", 1), "failed")
  BY <1>1, <1>6 DEF AppUndoStage, AppGo
<1>7. CASE AppAnswerUndo("Dns", "restored", "undoExposure")
  BY <1>1, <1>3, <1>7 DEF AppAnswerUndo, AppGo
<1>8. CASE AppAnswerUndo("Exposure", "released", "undoTarget")
  BY <1>1, <1>3, <1>8 DEF AppAnswerUndo, AppGo
<1>9. CASE AppAnswerUndo("Target", "destroyed", "failed") /\ appFor = "rollback"
  BY <1>1, <1>3, <1>9 DEF AppAnswerUndo, AppGo
<1> QED BY <1>4, <1>5, <1>6, <1>7, <1>8, <1>9 DEF AppUndo

\* Of what is made or deleted the operation knows.
LEMMA AppKnownKept ==
    ASSUME AppTypes, AppThere, AppCourses, AppKnown, AppAct
    PROVE  AppKnown'
<1> USE DEF AppKnown, AppByName, AppMaking, AppRunning
<1>0. AppFresh' <=> AppFresh
  BY AppPlanStays
<1>1. CASE AppStart
  <2>1. /\ \/ AppFresh /\ appPc' = "check" /\ appAt' = 1
           \/ ~AppFresh /\ appPc' \in {"update", "allocate", "commit"}
    BY <1>1, AppLoops, AppSets DEF AppStart, AppExposing, AppGo, AppBegins
  <2> QED BY <2>1, <1>0 DEF Apps
<1>2. CASE AppCheckFree
  <2>1. /\ appPc = "check" /\ UNCHANGED <<appCloud, appProv, appCaptured>>
        /\ (appPc' = "create" /\ appAt' = appAt) \/ appPc' = "undoDns"
    BY <1>2 DEF AppCheckFree, AppGo, AppFailStage, appMemory, appCourse
  <2> QED BY <2>1
<1>3. CASE AppCreate
  <2>1. appPc = "create" /\ appAt \in Apps
    BY <1>3 DEF AppCreate, AppTypes, AppsTypeOK
  <2> QED BY <1>3, <2>1, AppCreates DEF AppElsewhere
<1>4. CASE AppCreateVolume \/ AppCreateMachine
  <2>1. appPc \in {"volume", "machine"} /\ appAt \in Apps
    BY <1>4 DEF AppCreateVolume, AppCreateMachine, AppCreatePart, AppTypes, AppsTypeOK
  <2>2. \A b \in Apps : b < appAt \/ b = appAt => appProv'[b].known
    BY <1>4, <2>1, AppCreatesParts DEF AppElsewhere, Apps
  <2>3. \/ appPc' \in {"machine", "cleanup"} /\ appAt' = appAt
        \/ AppGoesOn(Apps, "check", "created")
    BY <1>4, AppCreatesParts, AppLoops, AppSets
  <2>4. CASE appPc' \in {"machine", "cleanup"} /\ appAt' = appAt
    BY <1>4, <2>1, <2>2, <2>4, AppCreatesParts DEF AppKeeps
  <2>5. CASE AppGoesOn(Apps, "check", "created")
    <3>1. \/ appPc' = "created" /\ \A b \in Apps : b <= appAt
          \/ appPc' = "check" /\ \A b \in Apps : b < appAt' => b <= appAt
      BY <2>5, <2>1 DEF AppGoesOn, Apps
    <3>2. \A b \in Apps : b <= appAt => appProv'[b].known
      BY <2>1, <2>2 DEF Apps
    <3> QED BY <3>1, <3>2
  <2> QED BY <2>3, <2>4, <2>5
<1>5. CASE AppRuns
  <2>1. /\ appPc \in AppRunning /\ appPc' \in AppRunning \union {"undoDns", "succeeded"}
        /\ appProv' = appProv
    BY <1>5, AppRunsOn
  <2> QED BY <2>1, <1>0
<1>6. CASE AppRestore \/ AppRelease
  <2>1. appPc' \in {"restore", "restored", "release", "released"}
    BY <1>6, AppRestores, AppReleases, AppLoops, AppSets DEF AppGoesOn
  <2> QED BY <2>1
<1>7. CASE AppUndo
  <2>1. appPc' \in {"undoExposure", "undoTarget", "failed", "destroy", "restore", "restored",
                    "release", "released"}
    BY <1>7, AppUndoes DEF AppBegins
  <2> QED BY <2>1
<1>8. CASE AppCleanup
  <2>1. appPc' = "verify" /\ appAt' = appAt /\ appAt \in Apps /\ appProv[appAt].known
    BY <1>8 DEF AppCleanup, AppGo, AppTypes, AppsTypeOK
  <2>2. appCaptured'[appAt] = appProv[appAt]
    BY <1>8, <2>1 DEF AppCleanup, AppNothing
  <2> QED BY <2>1, <2>2
<1>9. CASE AppDestroy
  BY <1>9, AppDestroys DEF AppBegins
<1>10. CASE AppDeletion
  <2>1. \/ AppDeletesNext
        \/ appPc' \in {"undoDns", "destroyed"}
        \/ appPc' = "verify" /\ appCaptured' = appCaptured /\ appCaptured[appAt'].known
    BY <1>10, AppDeletesOn DEF AppGoesOn
  <2> QED BY <2>1 DEF AppDeletesNext, AppDeleting
<1>11. CASE AppDown \/ AppDownEnds \/ AppDie
  BY <1>11 DEF AppDown, AppDownEnds, AppDie, AppGo
<1>12. CASE AppCancel
  BY <1>12 DEF AppCancel, appMemory, appCourse, AppFresh
<1> QED BY <1>1, <1>2, <1>3, <1>4, <1>5, <1>6, <1>7, <1>8, <1>9, <1>10, <1>11, <1>12
       DEF AppAct, AppStep, AppForward, AppBackward, AppRuns, AppDeletion, AppLooks, AppCuts

\* What is changed is remembered first.
LEMMA AppRemembersKept ==
    ASSUME AppTypes, AppThere, AppCourses, AppKnown, AppRemembers, AppAct
    PROVE  AppRemembers'
<1> USE DEF AppRemembers, AppOwned
<1>0. appPlan' = appPlan
  BY AppPlanStays
<1>1. CASE AppCreate
  BY <1>0, <1>1, AppCreates DEF AppElsewhere, AppCreate, appCourse
<1>2. CASE AppCreateVolume \/ AppCreateMachine
  BY <1>0, <1>2, AppCreatesParts
     DEF AppElsewhere, AppKeeps, AppCreateVolume, AppCreateMachine, AppCreatePart, appCourse
<1>3. CASE AppUpdate
  <2>1. UNCHANGED <<appFor, appAddress, appExpiry>>
    BY <1>3 DEF AppUpdate, appMemory, appCourse
  <2> QED BY <1>0, <1>3, <2>1, AppUpdates DEF AppElsewhere, AppKeeps
<1>4. CASE AppAllocate
  BY <1>0, <1>4, AppAllocates DEF AppElsewhere, AppAllocate
<1>5. CASE AppCommit
  BY <1>0, <1>5, AppCommits DEF AppElsewhere, AppCommit
<1>6. CASE AppRestore
  BY <1>0, <1>6, AppRestores DEF AppElsewhere, AppRestore, appCourse
<1>7. CASE AppRelease
  BY <1>0, <1>7, AppReleases DEF AppElsewhere, AppRelease, appCourse
<1>8. CASE AppUndo
  <2>1. appPc = "undoTarget" => appFor # "down"
    BY DEF AppCourses, AppDeleting, AppEnded
  <2> QED BY <1>0, <1>8, <2>1, AppUndoes
<1>9. CASE AppCleanup
  <2>1. appFor # "down" /\ UNCHANGED <<appCloud, appAddress, appExpiry>>
    BY <1>9 DEF AppCleanup, AppCourses, AppDeleting, AppEnded, appMemory
  <2> QED BY <1>0, <2>1
<1>10. CASE AppLooks
  BY <1>0, <1>10, AppLooking DEF appCourse
<1>11. CASE AppCuts
  <2>1. UNCHANGED <<appFor, appAddress, appExpiry>> /\ AppAbsent.id = "none"
    BY <1>11, AppRemoves DEF appCourse, AppAbsent
  <2> QED BY <1>0, <1>11, <2>1, AppRemoves
<1>12. CASE AppDown
  BY <1>12 DEF AppDown
<1>13. CASE /\ UNCHANGED <<appCloud, appAddress, appExpiry, appFor>>
  BY <1>0, <1>13
<1>14. CASE \/ AppStart \/ AppCheckFree \/ AppCreated \/ AppLaunched \/ AppReady \/ AppReachable
            \/ AppCommitted \/ AppDestroy \/ AppDownEnds \/ AppCancel \/ AppDie
  <2>1. UNCHANGED <<appCloud, appAddress, appExpiry, appFor>>
    BY <1>14 DEF AppStart, AppCheckFree, AppCreated, AppLaunched, AppReady, AppReachable,
         AppCommitted, AppDestroy, AppDownEnds, AppCancel, AppDie, appMemory, appCourse
  <2> QED BY <2>1, <1>13
<1> QED BY <1>1, <1>2, <1>3, <1>4, <1>5, <1>6, <1>7, <1>8, <1>9, <1>10, <1>11, <1>12, <1>14
       DEF AppAct, AppStep, AppForward, AppBackward, AppLooks, AppCuts

\* What has been put back is forgotten.
LEMMA AppPutBackKept ==
    ASSUME AppTypes, AppThere, AppCourses, AppKnown, AppPutBack, AppAct
    PROVE  AppPutBack'
<1> USE DEF AppPutBack
<1>0. appAt \in Apps /\ Apps \subseteq Nat
  BY DEF AppTypes, AppsTypeOK, Apps
<1>1. CASE AppForward
  BY <1>1, AppForwards DEF AppMaking, AppRunning
<1>2. CASE AppRestore
  <2>1. /\ appPc = "restore" /\ UNCHANGED <<appUndone, appAddress>>
        /\ AppGoesOn({b \in Apps : appExpiry[b].known}, "restore", "restored")
        /\ "Exposure" \in appUndone => \A b \in Apps : ~appAddress[b].known
        /\ "Dns" \notin appUndone
    BY <1>2, AppRestores, AppLoops, AppSets DEF AppRestore, appCourse, AppCourses
  <2>2. ASSUME ~appErred'
        PROVE  /\ \A b \in Apps : b <= appAt => ~appExpiry'[b].known
               /\ \A b \in Apps : ~appExpiry[b].known => ~appExpiry'[b].known
    <3>1. /\ ~appErred /\ ~appExpiry'[appAt].known
          /\ \A b \in Apps \ {appAt} : appExpiry'[b] = appExpiry[b]
      BY <1>2, <2>2, AppRestores DEF AppElsewhere
    <3>2. \A b \in Apps : b < appAt => ~appExpiry[b].known
      BY <2>1, <3>1
    <3> QED BY <1>0, <3>1, <3>2
  <2>3. ASSUME ~appErred', appPc' = "restored"
        PROVE  \A b \in Apps : ~appExpiry'[b].known
    BY <1>0, <2>1, <2>2, <2>3 DEF AppGoesOn
  <2>4. ASSUME ~appErred', appPc' = "restore"
        PROVE  \A b \in Apps : b < appAt' => ~appExpiry'[b].known
    <3>1. /\ appAt' \in Apps
          /\ \A b \in {c \in Apps : appExpiry[c].known} : b <= appAt \/ b >= appAt'
      BY <2>1, <2>4 DEF AppGoesOn
    <3>2. \A b \in Apps : b < appAt' => b <= appAt \/ ~appExpiry[b].known
      BY <1>0, <3>1
    <3> QED BY <2>2, <2>4, <3>2
  <2>5. appPc' \in {"restore", "restored"}
    BY <2>1 DEF AppGoesOn
  <2> QED BY <2>1, <2>3, <2>4, <2>5
<1>3. CASE AppRelease
  <2>1. /\ appPc = "release" /\ UNCHANGED <<appUndone, appExpiry>>
        /\ AppGoesOn({b \in Apps : appAddress[b].known}, "release", "released")
        /\ "Dns" \in appUndone => \A b \in Apps : ~appExpiry[b].known
        /\ "Exposure" \notin appUndone
    BY <1>3, AppReleases, AppLoops, AppSets DEF AppRelease, appCourse, AppCourses
  <2>2. ASSUME ~appErred'
        PROVE  /\ \A b \in Apps : b <= appAt => ~appAddress'[b].known
               /\ \A b \in Apps : ~appAddress[b].known => ~appAddress'[b].known
    <3>1. /\ ~appErred /\ ~appAddress'[appAt].known
          /\ \A b \in Apps \ {appAt} : appAddress'[b] = appAddress[b]
      BY <1>3, <2>2, AppReleases DEF AppElsewhere
    <3>2. \A b \in Apps : b < appAt => ~appAddress[b].known
      BY <2>1, <3>1
    <3> QED BY <1>0, <3>1, <3>2
  <2>3. ASSUME ~appErred', appPc' = "released"
        PROVE  \A b \in Apps : ~appAddress'[b].known
    BY <1>0, <2>1, <2>2, <2>3 DEF AppGoesOn
  <2>4. ASSUME ~appErred', appPc' = "release"
        PROVE  \A b \in Apps : b < appAt' => ~appAddress'[b].known
    <3>1. /\ appAt' \in Apps
          /\ \A b \in {c \in Apps : appAddress[c].known} : b <= appAt \/ b >= appAt'
      BY <2>1, <2>4 DEF AppGoesOn
    <3>2. \A b \in Apps : b < appAt' => b <= appAt \/ ~appAddress[b].known
      BY <1>0, <3>1
    <3> QED BY <2>2, <2>4, <3>2
  <2>5. appPc' \in {"release", "released"}
    BY <2>1 DEF AppGoesOn
  <2> QED BY <2>1, <2>3, <2>4, <2>5
<1>4. CASE AppUndo
  <2>1. UNCHANGED <<appAddress, appExpiry>>
    BY <1>4, AppUndoes
  <2>2. CASE appPc' \in {"restore", "restored", "release", "released"}
    <3>1. /\ appUndone' = appUndone
          /\ \/ AppBegins({a \in Apps : appExpiry[a].known}, "restore", "restored")
             \/ AppBegins({a \in Apps : appAddress[a].known}, "release", "released")
      BY <1>4, <2>2, AppUndoes
    <3>2. CASE AppBegins({a \in Apps : appExpiry[a].known}, "restore", "restored")
      <4>1. /\ appPc' = "restored" => \A b \in Apps : ~appExpiry[b].known
            /\ appPc' = "restore" => \A b \in Apps : b < appAt' => ~appExpiry[b].known
            /\ appPc' \in {"restore", "restored"}
        <5>1. \/ appPc' = "restored" /\ {a \in Apps : appExpiry[a].known} = {}
              \/ /\ appPc' = "restore" /\ appAt' \in Apps
                 /\ \A b \in {a \in Apps : appExpiry[a].known} : b >= appAt'
          BY <3>2 DEF AppBegins
        <5>2. {a \in Apps : appExpiry[a].known} = {} => \A b \in Apps : ~appExpiry[b].known
          OBVIOUS
        <5>3. ASSUME appAt' \in Apps, \A b \in {a \in Apps : appExpiry[a].known} : b >= appAt',
                     NEW b \in Apps, b < appAt'
              PROVE  ~appExpiry[b].known
          BY <1>0, <5>3
        <5> QED BY <5>1, <5>2, <5>3
      <4> QED BY <2>1, <3>1, <4>1
    <3>3. CASE AppBegins({a \in Apps : appAddress[a].known}, "release", "released")
      <4>1. /\ appPc' = "released" => \A b \in Apps : ~appAddress[b].known
            /\ appPc' = "release" => \A b \in Apps : b < appAt' => ~appAddress[b].known
            /\ appPc' \in {"release", "released"}
        <5>1. \/ appPc' = "released" /\ {a \in Apps : appAddress[a].known} = {}
              \/ /\ appPc' = "release" /\ appAt' \in Apps
                 /\ \A b \in {a \in Apps : appAddress[a].known} : b >= appAt'
          BY <3>3 DEF AppBegins
        <5>2. {a \in Apps : appAddress[a].known} = {} => \A b \in Apps : ~appAddress[b].known
          OBVIOUS
        <5>3. ASSUME appAt' \in Apps, \A b \in {a \in Apps : appAddress[a].known} : b >= appAt',
                     NEW b \in Apps, b < appAt'
              PROVE  ~appAddress[b].known
          BY <1>0, <5>3
        <5> QED BY <5>1, <5>2, <5>3
      <4> QED BY <2>1, <3>1, <4>1
    <3> QED BY <3>1, <3>2, <3>3
  <2>3. CASE appPc' \notin {"restore", "restored", "release", "released"}
    <3>1. /\ "Dns" \in appUndone' => "Dns" \in appUndone \/ (appPc = "restored" /\ ~appErred)
          /\ "Exposure" \in appUndone' =>
                "Exposure" \in appUndone \/ (appPc = "released" /\ ~appErred)
      BY <1>4, <2>3, AppUndoes DEF AppBegins
    <3> QED BY <2>1, <2>3, <3>1
  <2> QED BY <2>2, <2>3
<1>5. CASE AppDeletion
  <2>1. UNCHANGED <<appUndone, appAddress, appExpiry>>
        /\ appPc' \in AppDeleting \union {"undoDns", "destroyed"}
    BY <1>5, AppDeletesOn DEF AppGoesOn, AppDeleting, AppDeletesNext
  <2> QED BY <2>1 DEF AppDeleting
<1>6. CASE AppDestroy
  <2>1. UNCHANGED <<appUndone, appAddress, appExpiry>>
    BY <1>6 DEF AppDestroy, appMemory
  <2> QED BY <1>6, <2>1, AppDestroys DEF AppBegins
<1>7. CASE AppDown
  BY <1>7 DEF AppDown, AppGo
<1>8. CASE AppCleanup \/ AppDownEnds \/ AppDie
  BY <1>8 DEF AppCleanup, AppDownEnds, AppDie, AppGo, appMemory, appCourse
<1>9. CASE AppCancel
  BY <1>9 DEF AppCancel, appMemory, appCourse
<1> QED BY <1>1, <1>2, <1>3, <1>4, <1>5, <1>6, <1>7, <1>8, <1>9
       DEF AppAct, AppStep, AppBackward, AppDeletion, AppLooks, AppCuts

\* Whatever it has made and not deleted is captured, and still to come.
LEMMA AppDeletesKept ==
    ASSUME AppTypes, AppThere, AppCourses, AppKnown, AppDeletes, AppAct
    PROVE  AppDeletes'
<1> USE DEF AppDeletes
<1>0. appAt \in Apps /\ Apps \subseteq Nat
  BY DEF AppTypes, AppsTypeOK, Apps
<1>1. CASE AppForward
  BY <1>1, AppForwards
<1>2. CASE AppRestore \/ AppRelease
  <2>1. /\ appPc' \in {"restore", "restored", "release", "released"}
        /\ UNCHANGED <<appUndone, appFor>>
    BY <1>2, AppRestores, AppReleases, AppLoops, AppSets DEF AppGoesOn, AppRestore, AppRelease,
       appCourse
  <2>2. "Target" \notin appUndone
    BY <1>2 DEF AppCourses, AppEnded, AppRestore, AppRelease
  <2> QED BY <2>1, <2>2 DEF AppDeleting
<1>3. CASE AppUndo
  <2>1. /\ appCloud' = appCloud
        /\ "Target" \in appUndone' => "Target" \in appUndone
                \/ (appPc = "destroyed" /\ appFor = "rollback" /\ ~appErred)
        /\ appPc' \notin AppDeleting \union {"destroyed"}
    BY <1>3, AppUndoes DEF AppBegins, AppDeleting
  <2> QED BY <2>1
<1>4. CASE AppCleanup
  BY <1>4 DEF AppCleanup
<1>5. CASE AppDestroy
  <2>1. /\ appCloud' = appCloud /\ appUndone' = appUndone
        /\ \A b \in Apps : appCloud[b].id = "op" => b \in AppOwned
    BY <1>5 DEF AppDestroy, AppOwned
  <2>2. "Target" \notin appUndone
    BY <1>5 DEF AppDestroy, AppCourses, AppEnded
  <2> QED BY <1>0, <1>5, <2>1, <2>2, AppDestroys DEF AppBegins, AppDeleting
<1>6. CASE AppDeletion
  <2>0. appPc \in AppDeleting /\ UNCHANGED <<appFor, appUndone, appCaptured>>
    BY <1>6, AppDeletesOn
  <2>1. "Target" \notin appUndone
    BY <2>0 DEF AppCourses, AppDeleting, AppEnded
  <2>2. \A b \in Apps : appCloud'[b].id = "op" => appCloud[b].id = "op"
    BY <1>0, <1>6, AppDeletesOn DEF AppKeeps, AppAbsent
  <2>3. ASSUME appFor = "rollback", ~appErred'
        PROVE  /\ appPc' \in AppDeleting =>
                    \A b \in Apps : appCloud'[b].id = "op" => b >= appAt' /\ appCaptured[b].known
               /\ appPc' = "destroyed" => \A b \in Apps : appCloud'[b].id # "op"
    <3>1. CASE /\ appPc' \in AppDeleting \ {"verify"} /\ appAt' = appAt
               /\ appErred' = appErred
      BY <2>0, <2>2, <2>3, <3>1 DEF AppDeleting
    <3>2. CASE /\ AppGoesOn({b \in Apps : appCaptured[b].known}, "verify", "destroyed")
               /\ ~appErred /\ appCloud'[appAt].id = "none"
      <4>1. \A b \in Apps : appCloud'[b].id = "op" => b > appAt /\ appCaptured[b].known
        BY <1>0, <2>0, <2>2, <2>3, <3>2
      <4>2. \/ appPc' = "destroyed" /\ \A b \in {c \in Apps : appCaptured[c].known} : b <= appAt
            \/ /\ appPc' = "verify" /\ appAt' \in Apps
               /\ \A b \in {c \in Apps : appCaptured[c].known} : b <= appAt \/ b >= appAt'
        BY <3>2 DEF AppGoesOn
      <4> QED BY <1>0, <4>1, <4>2 DEF AppDeleting
    <3> QED BY <1>6, <2>3, <3>1, <3>2, AppDeletesOn DEF AppDeletesNext
  <2> QED BY <2>0, <2>1, <2>3
<1>7. CASE AppDown
  BY <1>7 DEF AppDown
<1>8. CASE AppDownEnds \/ AppDie
  BY <1>8 DEF AppDownEnds, AppDie, AppGo, appCourse, AppDeleting
<1>9. CASE AppCancel
  BY <1>9 DEF AppCancel, appMemory, appCourse
<1> QED BY <1>1, <1>2, <1>3, <1>4, <1>5, <1>6, <1>7, <1>8, <1>9
       DEF AppAct, AppStep, AppBackward, AppDeletion, AppLooks, AppCuts

\* What others do makes nothing of the operation's own.
LEMMA AppInvMeddled ==
    ASSUME AppInv, NEW a \in Apps, AppMeddle(a) PROVE AppInv'
<1> USE DEF AppInv
<1>1. /\ appCloud' \in [Apps -> AppParts]
      /\ \A b \in Apps \ {a} : appCloud'[b] = appCloud[b]
      /\ appCloud'[a].id = "none" => appCloud'[a] = AppAbsent
      /\ \/ appCloud'[a].id \in {"none"} \union AppForeign
         \/ appCloud'[a].id = appCloud[a].id /\ AppKeeps(a)
      /\ a = appAt /\ appPc \in AppByName /\ appCloud[a].id # "foreign" =>
            appCloud'[a].id # "foreign"
      /\ appLeft' \in 0..AppBudget
  BY AppMeddles
<1>2. /\ UNCHANGED <<appPlan, appProv, appVersion, appAddress, appExpiry, appPc, appAt, appErred>>
      /\ UNCHANGED <<appRan, appState, appUndone, appCaptured, appFor>>
      /\ appCancelled' = appCancelled
  BY DEF AppMeddle, appMemory, appCourse
<1>3. appPc \in AppByName => appCloud'[appAt].id # "foreign"
  <2>1. appPc \in AppByName => appCloud[appAt].id # "foreign"
    BY DEF AppKnown
  <2> QED BY <1>1, <2>1 DEF AppTypes, AppsTypeOK
<1>4. AppTypes'
  BY <1>1, <1>2 DEF AppTypes, AppsTypeOK
<1>5. AppThere'
  BY <1>1, <1>2 DEF AppThere
<1>6. AppCourses'
  BY <1>2 DEF AppCourses, AppFresh
<1>7. AppKnown'
  BY <1>2, <1>3 DEF AppKnown, AppFresh
<1>8. AppRemembers'
  <2>1. \A b \in AppOwned' : /\ b \in AppOwned
                             /\ appCloud'[b].ip <=> appCloud[b].ip
                             /\ appCloud'[b].expiry = appCloud[b].expiry
    BY <1>1 DEF AppOwned, AppKeeps, AppForeign
  <2> QED BY <1>2, <2>1 DEF AppRemembers
<1>9. AppPutBack'
  BY <1>2 DEF AppPutBack
<1>10. AppDeletes'
  <2>1. \A b \in Apps : appCloud'[b].id = "op" => appCloud[b].id = "op"
    BY <1>1 DEF AppKeeps, AppForeign
  <2> QED BY <1>2, <2>1 DEF AppDeletes
<1> QED BY <1>4, <1>5, <1>6, <1>7, <1>8, <1>9, <1>10

\* The invariant holds at first.
LEMMA AppInvStart == AppsInit => AppInv
<1> SUFFICES ASSUME AppsInit PROVE AppInv
  OBVIOUS
<1> USE DEF AppsInit
<1>1. /\ AppAbsent \in AppParts
      /\ \A a \in Apps, addressed \in BOOLEAN :
            /\ AppPrior(a, addressed) \in AppParts
            /\ AppPrior(a, addressed).id = "past" /\ AppPrior(a, addressed).expiry = "prior"
  BY DEF AppAbsent, AppPrior, AppParts
<1>2. /\ AppUnknown \in AppRecords /\ ~AppUnknown.known
      /\ AppNoInverse \in AppInverses /\ ~AppNoInverse.known
      /\ AppAbsent.id = "none" /\ AppAbsent.expiry = "none"
  BY DEF AppUnknown, AppRecords, AppNoInverse, AppInverses, AppAbsent
<1>3. \A a \in Apps : \/ appCloud[a] = AppAbsent
                      \/ \E addressed \in BOOLEAN : appCloud[a] = AppPrior(a, addressed)
  OBVIOUS
<1>4. /\ appCloud \in [Apps -> AppParts] /\ appPlan = appCloud
      /\ \A a \in Apps : /\ appCloud[a].id \in {"none", "past"}
                         /\ appCloud[a].id = "none" => appCloud[a] = AppAbsent
                         /\ appCloud[a].expiry \in {"none", "prior"}
                         /\ appCloud[a].ip <=> appPlan[a].ip
  BY <1>1, <1>2, <1>3
<1>5. 1 \in Apps
  BY AppAssumption DEF Apps
<1>6. AppTypes
  <2>1. AppNothing \in [Apps -> AppRecords] /\ AppNoInverses \in [Apps -> AppInverses]
    BY <1>2 DEF AppNothing, AppNoInverses
  <2>2. AppHold
    BY <1>4, <2>1 DEF AppHold
  <2>3. AppStand
    <3>1. appPc = "planned" /\ appAt = 1 /\ appErred = FALSE /\ appCancelled = FALSE
      BY Zenon
    <3>2. appLeft = AppBudget /\ AppBudget \in Nat
      BY AppAssumption
    <3>3. appLeft \in 0..AppBudget
      BY <3>2
    <3>4. appErred \in BOOLEAN /\ appCancelled \in BOOLEAN
      BY <3>1
    <3> QED BY <1>5, <3>1, <3>3, <3>4, Zenon DEF AppStand
  <2>4. AppIntend
    BY <2>1 DEF AppIntend
  <2> QED BY <2>2, <2>3, <2>4 DEF AppHold, AppStand, AppIntend, AppTypes, AppsTypeOK
<1>7. AppThere
  BY <1>4 DEF AppThere
<1>8. AppCourses /\ AppKnown /\ AppPutBack /\ AppDeletes
  BY DEF AppCourses, AppKnown, AppPutBack, AppDeletes, AppMaking, AppRunning, AppDeleting, AppEnded,
         AppByName
<1>9. AppRemembers
  BY <1>4 DEF AppRemembers, AppOwned
<1> QED BY <1>6, <1>7, <1>8, <1>9 DEF AppInv

\* It holds in every state.
LEMMA AppInvariant == AppsSpec => []AppInv
<1>1. AppsInit => AppInv
  BY AppInvStart
<1>2. AppInv /\ [AppsNext]_appVars => AppInv'
  <2> SUFFICES ASSUME AppInv, [AppsNext]_appVars PROVE AppInv'
    OBVIOUS
  <2>0. AppTypes /\ AppThere /\ AppCourses /\ AppKnown /\ AppRemembers /\ AppPutBack /\ AppDeletes
    BY DEF AppInv
  <2>1. CASE AppAct
    <3>1. AppTypes'
      BY <2>0, <2>1, AppHoldKept, AppStandKept, AppIntendKept
         DEF AppHold, AppStand, AppIntend, AppTypes, AppsTypeOK
    <3>2. AppThere' /\ AppCourses' /\ AppKnown'
      BY <2>0, <2>1, AppThereKept, AppCoursesKept, AppKnownKept
    <3>3. AppRemembers' /\ AppPutBack' /\ AppDeletes'
      BY <2>0, <2>1, AppRemembersKept, AppPutBackKept, AppDeletesKept
    <3> QED BY <3>1, <3>2, <3>3 DEF AppInv
  <2>2. CASE \E a \in Apps : AppMeddle(a)
    BY <2>2, AppInvMeddled
  <2>3. CASE UNCHANGED appVars
    BY <2>3 DEF appVars, AppInv, AppTypes, AppsTypeOK, AppThere, AppCourses, AppFresh, AppKnown,
         AppOwned, AppRemembers, AppPutBack, AppDeletes
  <2> QED BY <2>1, <2>2, <2>3 DEF AppsNext, AppAct
<1> QED BY <1>1, <1>2, PTL DEF AppsSpec

\* What the operations on the Apps of Fly keep has its type.
THEOREM AppTypesCorrect == AppsSpec => []AppsTypeOK
<1>1. AppInv => AppsTypeOK
  BY DEF AppInv, AppTypes
<1> QED BY <1>1, AppInvariant, PTL

\* Whatever calls fail, whatever answers are lost and whatever others do, a
\* capability whose compensation answered leaves nothing of the operation.
THEOREM AppCompensatesExactly == AppsSpec => []AppCompensationIsExact
<1>1. ASSUME AppInv PROVE AppCompensationIsExact
  <2>0. AppTypes /\ AppCourses /\ AppRemembers /\ AppPutBack /\ AppDeletes
    BY <1>1 DEF AppInv
  <2>1. "Target" \in appUndone => \A a \in Apps : appCloud[a].id # "op"
    BY <2>0 DEF AppDeletes
  <2>2. appUndone # {} => appFor # "down"
    BY <2>0 DEF AppCourses
  <2>3. ASSUME "Exposure" \in appUndone, NEW a \in AppOwned, appCloud[a].ip PROVE appPlan[a].ip
    BY <2>0, <2>2, <2>3 DEF AppRemembers, AppPutBack, AppOwned
  <2>4. ASSUME "Dns" \in appUndone, NEW a \in AppOwned PROVE appCloud[a].expiry # "new"
    BY <2>0, <2>2, <2>4 DEF AppRemembers, AppPutBack, AppOwned
  <2> QED BY <2>1, <2>3, <2>4 DEF AppCompensationIsExact
<1> QED BY <1>1, AppInvariant, PTL

\* No step of an operation reaches an App that somebody else has put in the
\* place of one: whatever changes was made, is owned, or goes by its name.
LEMMA AppReachesItsOwn ==
    ASSUME AppInv, AppAct, NEW a \in Apps, appCloud[a].id \in AppForeign
    PROVE  \/ appCloud'[a] = appCloud[a]
           \/ appCloud[a].id = "usurper" /\ a = appAt /\ appPc \in AppByName
<1>0. AppTypes /\ AppThere /\ AppCourses /\ AppKnown
  BY DEF AppInv
<1>1. (appAt \in AppOwned => a # appAt) /\ appCloud[a].id # "none"
  BY DEF AppOwned, AppForeign
<1>2. CASE AppCreate
  BY <1>0, <1>1, <1>2, AppCreates DEF AppElsewhere
<1>3. CASE AppCreateVolume \/ AppCreateMachine
  <2>1. appPc \in AppByName /\ (a # appAt => appCloud'[a] = appCloud[a])
    BY <1>0, <1>3, AppCreatesParts DEF AppElsewhere, AppByName
  <2>2. a = appAt => appCloud[a].id = "usurper"
    BY <1>0, <2>1 DEF AppKnown, AppForeign
  <2> QED BY <2>1, <2>2
<1>4. CASE AppUpdate
  <2>1. UNCHANGED appCloud \/ AppAsPlanned(appAt)
    BY <1>4 DEF AppUpdate
  <2>2. ASSUME AppAsPlanned(appAt) PROVE appAt \in AppOwned
    <3>1. AppFresh => appProv[appAt].known
      BY <1>0, <1>4 DEF AppKnown, AppRunning, AppUpdate, AppTypes, AppsTypeOK
    <3>2. appAt \in Apps /\ (AppSeen(appAt).known <=> appAt \in AppOwned)
      BY <1>0, AppDiscovering DEF AppTypes, AppsTypeOK
    <3> QED BY <2>2, <3>1, <3>2 DEF AppAsPlanned
  <2> QED BY <1>0, <1>1, <1>4, <2>1, <2>2, AppUpdates DEF AppElsewhere
<1>5. CASE AppAllocate
  BY <1>0, <1>1, <1>5, AppAllocates DEF AppElsewhere
<1>6. CASE AppCommit
  BY <1>0, <1>1, <1>6, AppCommits DEF AppElsewhere
<1>7. CASE AppRestore \/ AppRelease
  BY <1>0, <1>1, <1>7, AppRestores, AppReleases DEF AppElsewhere
<1>8. CASE AppCuts
  <2>1. a # appAt => appCloud'[a] = appCloud[a]
    BY <1>0, <1>8, AppRemoves
  <2> QED BY <1>0, <1>8, <2>1, AppRemoves
<1>9. CASE AppLooks
  BY <1>0, <1>9, AppLooking
<1>10. CASE \/ AppStart \/ AppCheckFree \/ AppCreated \/ AppLaunched \/ AppReady \/ AppReachable
            \/ AppCommitted \/ AppUndo \/ AppCleanup \/ AppDestroy \/ AppDown
            \/ AppDownEnds \/ AppCancel \/ AppDie
  BY <1>10 DEF AppStart, AppCheckFree, AppCreated, AppLaunched, AppReady, AppReachable,
       AppCommitted, AppUndo, AppCleanup, AppDestroy, AppDown, AppDownEnds, AppCancel, AppDie
<1> QED BY <1>2, <1>3, <1>4, <1>5, <1>6, <1>7, <1>8, <1>9, <1>10
       DEF AppAct, AppStep, AppForward, AppBackward, AppLooks, AppCuts

\* An App that somebody else put in the place of one is never touched, unless it
\* took the name between the plugin's last look at the App and a call by name.
THEOREM AppStrangersLeftAlone == AppsSpec => AppStrangersSpared
<1> DEFINE Spares == \A a \in Apps : appCloud[a].id \in AppForeign =>
                        \/ appCloud'[a] = appCloud[a]
                        \/ appLeft' < appLeft /\ UNCHANGED <<appPc, appAt>>
                        \/ appCloud[a].id = "usurper" /\ a = appAt /\ appPc \in AppByName
<1>1. ASSUME AppInv, [AppsNext]_appVars PROVE [Spares]_appVars
  <2>1. CASE AppAct
    BY <1>1, <2>1, AppReachesItsOwn
  <2>2. ASSUME NEW b \in Apps, AppMeddle(b) PROVE Spares
    BY <1>1, <2>2, AppMeddles DEF AppInv
  <2>3. CASE UNCHANGED appVars
    BY <2>3
  <2> QED BY <1>1, <2>1, <2>2, <2>3 DEF AppsNext, AppAct
<1> QED BY <1>1, AppInvariant, PTL DEF AppsSpec, AppStrangersSpared

------------------------------------------------------------------------------
(* The plugins together.                                                   *)

\* What the plugins keep and what is there of theirs has its type.
THEOREM PluginTypesCorrect ==
    ASSUME FlyTiming
    PROVE  FlyLockSpec /\ AppsSpec /\ EnvSpec /\ CompSpec /\ SshSpec /\ HzSpec => []PluginsTypeOK
<1>1. FlyLockSpec /\ SshSpec /\ HzSpec => [](FlyLockTypeOK /\ SshTypeOK /\ HzTypeOK)
  BY FlyTypeCorrect, SshTypeCorrect, HzTypeCorrect, PTL
<1>2. AppsSpec /\ EnvSpec /\ CompSpec => [](AppsTypeOK /\ EnvTypeOK /\ CompTypeOK)
  BY AppTypesCorrect, EnvironmentTypeCorrect, CompTypeCorrect, PTL
<1> QED BY <1>1, <1>2, PTL DEF PluginsTypeOK

\* A failed up that says that it has undone itself has: on Fly, in a Kubernetes
\* namespace and on Hetzner, whatever of its answers were lost.
THEOREM CompensatedIsExact == AppsSpec /\ EnvSpec /\ HzSpec => []CompensationIsExact
  BY AppCompensatesExactly, CompensatesExactly, HzUndoesItself, PTL DEF CompensationIsExact
==============================================================================
