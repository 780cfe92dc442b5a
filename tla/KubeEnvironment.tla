--------------------------- MODULE KubeEnvironment ---------------------------
(***************************************************************************)
(* The Kubernetes plugin's resources: the namespace of one environment,    *)
(* and the operations (an `up` with its compensation, or a `down` that is  *)
(* run until it is through) of several checkouts of the project.  Each     *)
(* holds the project Lease of the control namespace its profile names      *)
(* (KubeLease); checkouts that name different control namespaces hold      *)
(* different Leases and meet in the cluster.                               *)
(*                                                                         *)
(* Every kubectl is a call of its own that may fail before or after it     *)
(* took effect; one whose answer is lost has either taken effect by then   *)
(* or never will.  A check of the Lease that fails is one of the failures  *)
(* of the call that follows it.                                            *)
(***************************************************************************)
EXTENDS Operations, Naturals, FiniteSets

CONSTANTS
    EnvControls,  \* the control namespaces that the profiles name
    EnvTasks,     \* subset of {"up", "down"}
    EnvPriors,    \* what may be there: subset of {"nothing", "environment", "unexposed"}
    EnvFaults,    \* subset of {"call", "die", "cancel", "squat", "edit"}
    EnvBudget     \* how many of them happen

ASSUME EnvAssumption ==
    /\ EnvTasks \subseteq {"up", "down"}
    /\ EnvPriors \subseteq {"nothing", "environment", "unexposed"}
    /\ EnvFaults \subseteq {"call", "die", "cancel", "squat", "edit"}
    /\ EnvBudget \in Nat
    /\ "none" \notin Op

VARIABLES
    envControl, \* the control namespace that the profile of an operation names
    envSpace,   \* the Namespace object
    envObject,  \* the object of each kind in it, as who applied it
    envHeld,    \* the holder of each control namespace's Lease
    envTask,    \* what an operation is
    envPlan,    \* what its locked inspection saw
    envPc,      \* what it is doing
    envTodo,    \* the kinds its current loop still has to do
    envRan,     \* capabilities whose apply has been called
    envUndone,  \* capabilities whose compensation answered `destroyed`
    envLeft     \* faults that may still happen

envVars == <<envControl, envSpace, envObject, envHeld, envTask, envPlan, envPc, envTodo, envRan,
             envUndone, envLeft>>
envSelf == <<envControl, envTask>>
envOwn == <<envSelf, envHeld, envPlan>>

\* The phases in which apply_in_order applies them.
EnvRuntime == {"Secret", "Deployment"}
EnvExposure == {"Middleware", "Ingress"}
EnvKinds == EnvRuntime \union EnvExposure

EnvNoSpace == [owner |-> "none", control |-> "none", spec |-> "none", expiry |-> "none"]
EnvEmpty == [k \in EnvKinds |-> "absent"]
EnvUnseen == [space |-> EnvNoSpace, object |-> EnvEmpty]

EnvThere == envSpace.owner # "none"

EnvInit ==
    /\ \E prior \in EnvPriors, c \in EnvControls :
        /\ envSpace = IF prior = "nothing" THEN EnvNoSpace
                      ELSE [owner |-> "us", control |-> c, spec |-> "past", expiry |-> "past"]
        /\ envObject = [k \in EnvKinds |->
                IF prior = "nothing" \/ (prior = "unexposed" /\ k = "Ingress")
                THEN "absent" ELSE "past"]
    /\ envHeld = [c \in EnvControls |-> {}]
    /\ envControl \in [Op -> EnvControls] /\ envTask \in [Op -> EnvTasks]
    /\ envPlan = [o \in Op |-> EnvUnseen]
    /\ envPc = [o \in Op |-> "start"]
    /\ envTodo = [o \in Op |-> {}]
    /\ envRan = [o \in Op |-> {}] /\ envUndone = [o \in Op |-> {}]
    /\ envLeft = EnvBudget

------------------------------------------------------------------------------
(* How a call may end, and where an operation goes.                        *)

EnvGo(o, where) == envPc' = [envPc EXCEPT ![o] = where]
EnvGoWith(o, where, kinds) == EnvGo(o, where) /\ envTodo' = [envTodo EXCEPT ![o] = kinds]
EnvRun(o, capability) == envRan' = [envRan EXCEPT ![o] = @ \union {capability}]
EnvUndo(o, capability) == envUndone' = [envUndone EXCEPT ![o] = @ \union {capability}]

EnvFault(kind) == kind \in EnvFaults /\ envLeft > 0 /\ envLeft' = envLeft - 1

\* It takes effect and is answered, it takes effect unanswered, or it fails.
EnvCall(outcome) ==
    \/ outcome = "ok" /\ UNCHANGED envLeft
    \/ outcome \in {"lost", "no"} /\ EnvFault("call")
EnvOutcomes == {"ok", "lost", "no"}

\* Owned by exact labels, and under the Lease that this operation holds.
EnvMine(o) == envSpace.owner = "us" /\ envSpace.control = envControl[o]

\* ensure_existing_environment_control_namespace: it lists owned namespaces, so
\* none and somebody else's both pass.
EnvUndisputed(o) == envSpace.owner = "us" => envSpace.control = envControl[o]

EnvFresh(o) == envPlan[o].space.owner = "none"

\* A name that others own and another control namespace are refused, and so is
\* an `up` that would add Runtime resources to a revision that is there.
EnvPlannable(o) ==
    /\ envSpace.owner # "foreign" /\ EnvUndisputed(o)
    /\ envTask[o] = "up" /\ EnvThere => \A k \in EnvRuntime : envObject[k] # "absent"

\* The Lease is taken, the environment inspected and planned under it.
EnvStart(o) ==
    /\ envPc[o] = "start"
    /\ envHeld[envControl[o]] = {}
    /\ IF EnvPlannable(o)
       THEN /\ envHeld' = [envHeld EXCEPT ![envControl[o]] = {o}]
            /\ envPlan' = [envPlan EXCEPT ![o] = [space |-> envSpace, object |-> envObject]]
            /\ EnvGo(o, IF envTask[o] = "up" THEN "runtime"
                        ELSE IF EnvThere THEN "find" ELSE "destroyed")
       ELSE EnvGo(o, "refused") /\ UNCHANGED <<envHeld, envPlan>>
    /\ UNCHANGED <<envSpace, envObject, envSelf, envTodo, envRan, envUndone, envLeft>>

------------------------------------------------------------------------------
(* apply: Runtime, Exposure and Dns.                                       *)

\* apply_resources looks at the control namespace before anything else.
EnvBegin(o, capability, kinds) ==
    /\ EnvRun(o, capability)
    /\ IF EnvUndisputed(o)
       THEN EnvGoWith(o, IF capability = "Runtime" /\ EnvFresh(o) THEN "claim" ELSE "apply", kinds)
       ELSE EnvGoWith(o, "undoDns", {})
    /\ UNCHANGED <<envSpace, envObject, envOwn, envUndone, envLeft>>

EnvBeginRuntime(o) == envPc[o] = "runtime" /\ EnvBegin(o, "Runtime", EnvRuntime)
EnvBeginExposure(o) == envPc[o] = "exposure" /\ EnvBegin(o, "Exposure", EnvExposure)

\* validate_namespace_claim.
EnvClaimed(o, space) ==
    /\ space.owner = "us" /\ space.control = envControl[o] /\ space.spec = o

\* Mutant of EnvClaim: a name that is taken is applied over.
EnvClaimOver(o) ==
    /\ envPc[o] = "claim"
    /\ \E outcome \in EnvOutcomes :
        /\ EnvCall(outcome)
        /\ envSpace' = IF outcome = "no" THEN envSpace
                       ELSE [owner |-> "us", control |-> envControl[o],
                             spec |-> o, expiry |-> "none"]
        /\ IF outcome = "ok" THEN EnvGo(o, "apply") /\ UNCHANGED envTodo
                             ELSE EnvGoWith(o, "undoDns", {})
    /\ UNCHANGED <<envObject, envOwn, envRan, envUndone>>

\* claim_namespace: an atomic create.  A name that is taken, and an answer that
\* is lost, go on only when what is there is exactly what was planned.
EnvClaim(o) ==
    /\ envPc[o] = "claim"
    /\ \E outcome \in EnvOutcomes :
        /\ EnvCall(outcome)
        /\ envSpace' = IF EnvThere \/ outcome = "no" THEN envSpace
                       ELSE [owner |-> "us", control |-> envControl[o],
                             spec |-> o, expiry |-> "none"]
        /\ \/ EnvClaimed(o, envSpace') /\ EnvGo(o, "apply") /\ UNCHANGED envTodo
           \/ /\ ~EnvClaimed(o, envSpace') \/ outcome # "ok"
              /\ EnvGoWith(o, "undoDns", {})
    /\ UNCHANGED <<envObject, envOwn, envRan, envUndone>>

\* One phase of apply_in_order, by name, into whatever namespace is there.  A
\* failed Exposure is compensated at once, a failed Runtime by the core.
EnvApply(o) ==
    /\ envPc[o] = "apply"
    /\ LET runtime == envTodo[o] \subseteq EnvRuntime
           first == IF runtime THEN "Secret" ELSE "Middleware"
           k == IF first \in envTodo[o] THEN first ELSE CHOOSE j \in envTodo[o] : TRUE
           left == envTodo[o] \ {k}
       IN \E outcome \in IF EnvThere THEN EnvOutcomes ELSE {"gone"} :
           /\ IF outcome = "gone" THEN UNCHANGED envLeft ELSE EnvCall(outcome)
           /\ envObject' = IF outcome \in {"ok", "lost"} THEN [envObject EXCEPT ![k] = o]
                           ELSE envObject
           /\ IF outcome # "ok"
              THEN IF runtime THEN EnvGoWith(o, "undoDns", {})
                              ELSE EnvGoWith(o, "restoreAtOnce", EnvExposure)
              ELSE IF left # {} THEN EnvGoWith(o, "apply", left)
              ELSE EnvGoWith(o, IF runtime THEN "rollout" ELSE "probe", {})
    /\ UNCHANGED <<envSpace, envOwn, envRan, envUndone>>

\* wait_for_resources: the workloads become ready, or the deadline passes.
EnvRollout(o) ==
    /\ envPc[o] = "rollout"
    /\ \/ EnvGo(o, IF EnvFresh(o) THEN "exposure" ELSE "reconcile") /\ UNCHANGED envLeft
       \/ EnvFault("call") /\ EnvGo(o, "undoDns")
    /\ UNCHANGED <<envSpace, envObject, envOwn, envTodo, envRan, envUndone>>

\* Mutant of EnvReconcile: the rendered Namespace is applied, without expiry.
EnvReconcileWhole(o) ==
    /\ envPc[o] = "reconcile"
    /\ envSpace' = [envSpace EXCEPT !.spec = o, !.expiry = "none"]
    /\ EnvGo(o, "exposure")
    /\ UNCHANGED <<envObject, envOwn, envTodo, envRan, envUndone, envLeft>>

\* reconcile_namespace_metadata: labels and annotations are set one by one, the
\* expiry is none of them.
EnvReconcile(o) ==
    /\ envPc[o] = "reconcile"
    /\ IF ~EnvMine(o)
       THEN EnvGo(o, "undoDns") /\ UNCHANGED <<envSpace, envLeft>>
       ELSE \E outcome \in EnvOutcomes :
             /\ EnvCall(outcome)
             /\ envSpace' = IF outcome = "no" THEN envSpace ELSE [envSpace EXCEPT !.spec = o]
             /\ EnvGo(o, IF outcome = "ok" THEN "exposure" ELSE "undoDns")
    /\ UNCHANGED <<envObject, envOwn, envTodo, envRan, envUndone>>

\* wait_for_endpoints.
EnvProbe(o) ==
    /\ envPc[o] = "probe"
    /\ \/ EnvGo(o, "dns") /\ UNCHANGED <<envTodo, envLeft>>
       \/ EnvFault("call") /\ EnvGoWith(o, "restoreAtOnce", EnvExposure)
    /\ UNCHANGED <<envSpace, envObject, envOwn, envRan, envUndone>>

\* apply_dns.
EnvRenew(o) ==
    /\ envPc[o] = "dns"
    /\ EnvRun(o, "Dns")
    /\ IF ~EnvMine(o)
       THEN EnvGo(o, "undoDns") /\ UNCHANGED <<envSpace, envLeft>>
       ELSE \E outcome \in EnvOutcomes :
             /\ EnvCall(outcome)
             /\ envSpace' = IF outcome = "no" THEN envSpace ELSE [envSpace EXCEPT !.expiry = o]
             /\ EnvGo(o, IF outcome = "ok" THEN "succeeded" ELSE "undoDns")
    /\ UNCHANGED <<envObject, envOwn, envTodo, envUndone>>

------------------------------------------------------------------------------
(* Compensation, in the reverse order of the capabilities.  A capability    *)
(* that ran in an environment that was absent has nothing to restore: its   *)
(* namespace goes.                                                          *)

\* The reply that this handler gives is what the core learns, if it arrives.
EnvAnswer(o, capability, next) ==
    /\ \/ EnvUndo(o, capability) /\ UNCHANGED envLeft
       \/ EnvFault("call") /\ UNCHANGED envUndone
    /\ EnvGoWith(o, next, {})

\* The core's own check of the lock fails: the rollback stops.
EnvStop(o) ==
    /\ envPc[o] \in {"undoDns", "undoExposure", "undoRuntime"}
    /\ EnvFault("call") /\ EnvGo(o, "failed")
    /\ UNCHANGED <<envSpace, envObject, envOwn, envTodo, envRan, envUndone>>

\* rollback_dns, up to the annotation; expiry_rollback_needed.
EnvUndoDns(o) ==
    /\ envPc[o] = "undoDns"
    /\ LET prior == envPlan[o].space.expiry IN
       \/ /\ "Dns" \notin envRan[o]
          /\ EnvGo(o, "undoExposure") /\ UNCHANGED <<envTodo, envUndone, envLeft>>
       \/ /\ "Dns" \in envRan[o] /\ (EnvFresh(o) \/ (EnvMine(o) /\ envSpace.expiry = prior))
          /\ EnvAnswer(o, "Dns", "undoExposure")
       \/ /\ "Dns" \in envRan[o] /\ ~EnvFresh(o) /\ EnvMine(o)
          /\ envSpace.expiry = o
          /\ EnvGo(o, "annotate") /\ UNCHANGED <<envTodo, envUndone, envLeft>>
       \/ /\ "Dns" \in envRan[o] /\ ~EnvFresh(o)
          /\ ~(EnvMine(o) /\ envSpace.expiry \in {prior, o})
          /\ EnvGo(o, "undoExposure") /\ UNCHANGED <<envTodo, envUndone, envLeft>>
    /\ UNCHANGED <<envSpace, envObject, envOwn, envRan>>

EnvAnnotate(o) ==
    /\ envPc[o] = "annotate"
    /\ \E outcome \in EnvOutcomes :
        /\ EnvCall(outcome)
        /\ envSpace' = IF outcome = "no" \/ ~EnvThere THEN envSpace
                       ELSE [envSpace EXCEPT !.expiry = envPlan[o].space.expiry]
        /\ EnvGo(o, IF outcome = "ok" THEN "annotated" ELSE "undoExposure")
    /\ UNCHANGED <<envObject, envOwn, envTodo, envRan, envUndone>>

EnvAnnotated(o) ==
    /\ envPc[o] = "annotated"
    /\ IF EnvMine(o) /\ envSpace.expiry = envPlan[o].space.expiry
       THEN EnvAnswer(o, "Dns", "undoExposure")
       ELSE EnvGoWith(o, "undoExposure", {}) /\ UNCHANGED <<envUndone, envLeft>>
    /\ UNCHANGED <<envSpace, envObject, envOwn, envRan>>

EnvUndoExposure(o) ==
    /\ envPc[o] = "undoExposure"
    /\ \/ /\ "Exposure" \notin envRan[o]
          /\ EnvGo(o, "undoRuntime") /\ UNCHANGED <<envTodo, envUndone, envLeft>>
       \/ /\ "Exposure" \in envRan[o] /\ EnvFresh(o)
          /\ EnvAnswer(o, "Exposure", "undoRuntime")
       \/ /\ "Exposure" \in envRan[o] /\ ~EnvFresh(o)
          /\ EnvGoWith(o, "restore", EnvExposure) /\ UNCHANGED <<envUndone, envLeft>>
    /\ UNCHANGED <<envSpace, envObject, envOwn, envRan>>

\* restore_exposure_entries: what was there is put back first, a Middleware
\* before the Ingress that names it; what was not is deleted, in reverse.
EnvNext(o) ==
    LET back == {k \in envTodo[o] : envPlan[o].object[k] # "absent"} IN
    IF back # {}
    THEN IF "Middleware" \in back THEN "Middleware" ELSE "Ingress"
    ELSE IF "Ingress" \in envTodo[o] THEN "Ingress" ELSE "Middleware"

\* The end of the loop: the handler answers, or, in an apply that failed, the
\* failure is returned and the core compensates again.
EnvRestoring == {"restore", "restoreAtOnce"}
EnvChanging == {"change", "changeAtOnce"}
EnvAtOnce(o) == envPc[o] \in {"restoreAtOnce", "changeAtOnce"}
EnvGiveUp(o) ==
    EnvGoWith(o, IF EnvAtOnce(o) THEN "undoDns" ELSE "undoRuntime", {})

\* Mutant of EnvNeed: what the operation has added stays.
EnvNeedKept(o, k) ==
    LET prior == envPlan[o].object[k] IN
    CASE envObject[k] = prior \/ prior = "absent" -> "nothing"
      [] envObject[k] = o -> "change"
      [] OTHER -> "conflict"

\* What one resource needs: exposure_restore_needed, and its like for deletes.
\* "edited" is one that has neither the prior manifest nor the attempted hash.
EnvNeed(o, k) ==
    LET prior == envPlan[o].object[k] IN
    CASE envObject[k] = prior -> "nothing"
      [] envObject[k] = o /\ prior # o -> "change"
      [] OTHER -> "conflict"

EnvRestore(o) ==
    /\ envPc[o] \in EnvRestoring
    /\ LET k == EnvNext(o) IN
       \/ /\ envTodo[o] = {}
          /\ IF EnvAtOnce(o)
             THEN EnvGoWith(o, "undoDns", {}) /\ UNCHANGED <<envUndone, envLeft>>
             ELSE EnvAnswer(o, "Exposure", "undoRuntime")
       \/ /\ envTodo[o] # {} /\ EnvUndisputed(o) /\ EnvNeed(o, k) = "nothing"
          /\ envTodo' = [envTodo EXCEPT ![o] = @ \ {k}]
          /\ UNCHANGED <<envPc, envUndone, envLeft>>
       \/ /\ envTodo[o] # {} /\ EnvUndisputed(o) /\ EnvNeed(o, k) = "change"
          /\ EnvGo(o, IF EnvAtOnce(o) THEN "changeAtOnce" ELSE "change")
          /\ UNCHANGED <<envTodo, envUndone, envLeft>>
       \/ /\ envTodo[o] # {} /\ (~EnvUndisputed(o) \/ EnvNeed(o, k) = "conflict")
          /\ EnvGiveUp(o) /\ UNCHANGED <<envUndone, envLeft>>
       \/ EnvFault("call") /\ EnvGiveUp(o) /\ UNCHANGED envUndone
    /\ UNCHANGED <<envSpace, envObject, envOwn, envRan>>

\* The server-side apply of the prior manifest or the exact delete, and the
\* look that follows it: the loop then finds nothing left to do for it.
EnvChange(o) ==
    /\ envPc[o] \in EnvChanging
    /\ \E outcome \in EnvOutcomes :
        /\ EnvCall(outcome)
        /\ envObject' = IF outcome = "no" \/ ~EnvThere THEN envObject
                        ELSE [envObject EXCEPT ![EnvNext(o)] = envPlan[o].object[EnvNext(o)]]
        /\ IF outcome = "ok"
           THEN EnvGo(o, IF EnvAtOnce(o) THEN "restoreAtOnce" ELSE "restore") /\ UNCHANGED envTodo
           ELSE EnvGiveUp(o)
    /\ UNCHANGED <<envSpace, envOwn, envRan, envUndone>>

\* An initial environment is deleted whole; a revision that was updated has no
\* inverse and is reported.
EnvUndoRuntime(o) ==
    /\ envPc[o] = "undoRuntime"
    /\ EnvGo(o, IF "Runtime" \in envRan[o] /\ EnvFresh(o) THEN "find" ELSE "failed")
    /\ UNCHANGED <<envSpace, envObject, envOwn, envTodo, envRan, envUndone, envLeft>>

------------------------------------------------------------------------------
(* delete_namespace_exact: for a `down`, and for an `up` that created it.   *)

EnvEnd(o) == IF envTask[o] = "down" THEN "again" ELSE "failed"

\* get_owned_namespace: absent is deleted already, another owner's is refused.
EnvFind(o) ==
    /\ envPc[o] = "find"
    /\ \/ /\ ~EnvThere
          /\ EnvGo(o, "verify") /\ UNCHANGED envLeft
       \/ /\ EnvMine(o)
          /\ EnvGo(o, "delete") /\ UNCHANGED envLeft
       \/ /\ EnvThere /\ ~EnvMine(o)
          /\ EnvGo(o, EnvEnd(o)) /\ UNCHANGED envLeft
       \/ EnvFault("call") /\ EnvGo(o, EnvEnd(o))
    /\ UNCHANGED <<envSpace, envObject, envOwn, envTodo, envRan, envUndone>>

\* kubectl delete selects by the ownership labels.
EnvDelete(o) ==
    /\ envPc[o] = "delete"
    /\ \E outcome \in EnvOutcomes :
        /\ EnvCall(outcome)
        /\ IF outcome # "no" /\ envSpace.owner = "us"
           THEN envSpace' = EnvNoSpace /\ envObject' = EnvEmpty
           ELSE UNCHANGED <<envSpace, envObject>>
        /\ EnvGo(o, IF outcome = "ok" THEN "verify" ELSE EnvEnd(o))
    /\ UNCHANGED <<envOwn, envTodo, envRan, envUndone>>

\* It is gone, or it (or another in its place) is reported as remaining.
EnvVerify(o) ==
    /\ envPc[o] = "verify"
    /\ \/ /\ ~EnvThere /\ envTask[o] = "down"
          /\ EnvGo(o, "destroyed") /\ UNCHANGED <<envUndone, envLeft, envTodo>>
       \/ /\ ~EnvThere /\ envTask[o] = "up"
          /\ EnvAnswer(o, "Runtime", "failed")
       \/ /\ EnvThere
          /\ EnvGo(o, EnvEnd(o)) /\ UNCHANGED <<envUndone, envLeft, envTodo>>
    /\ UNCHANGED <<envSpace, envObject, envOwn, envRan>>

------------------------------------------------------------------------------
\* The Lease is released; a `down` that did not get through is run again.
EnvFinish(o) ==
    /\ envPc[o] \in {"succeeded", "failed", "destroyed", "again"}
    /\ envHeld' = [envHeld EXCEPT ![envControl[o]] = {}]
    /\ EnvGo(o, IF envPc[o] = "again" THEN "start" ELSE "over")
    /\ UNCHANGED <<envSpace, envObject, envSelf, envPlan, envTodo, envRan, envUndone, envLeft>>

EnvApplying == {"runtime", "claim", "apply", "rollout", "reconcile", "exposure", "probe",
                "dns", "restoreAtOnce", "changeAtOnce", "succeeded"}

\* cancel ends the handler that runs, whatever its last call did; the rollback
\* that the core then starts is cancelled by none of it (CancellationRegistry).
EnvCancel(o) ==
    /\ envPc[o] \in EnvApplying
    /\ EnvFault("cancel") /\ EnvGoWith(o, "undoDns", {})
    /\ UNCHANGED <<envSpace, envObject, envOwn, envRan, envUndone>>

\* The process dies; its Lease expires.
EnvDie(o) ==
    /\ o \in envHeld[envControl[o]]
    /\ EnvFault("die") /\ EnvGo(o, "over")
    /\ envHeld' = [envHeld EXCEPT ![envControl[o]] = {}]
    /\ UNCHANGED <<envSpace, envObject, envSelf, envPlan, envTodo, envRan, envUndone>>

\* Somebody takes the name while it is free.
EnvSquat ==
    /\ ~EnvThere
    /\ EnvFault("squat")
    /\ envSpace' = [EnvNoSpace EXCEPT !.owner = "foreign"]
    /\ UNCHANGED <<envObject, envOwn, envPc, envTodo, envRan, envUndone>>

\* Somebody changes an exposed object.
EnvEdit(k) ==
    /\ envObject[k] # "absent"
    /\ EnvFault("edit")
    /\ envObject' = [envObject EXCEPT ![k] = "edited"]
    /\ UNCHANGED <<envSpace, envOwn, envPc, envTodo, envRan, envUndone>>

EnvStep(o) ==
    \/ EnvStart(o) \/ EnvBeginRuntime(o) \/ EnvBeginExposure(o) \/ EnvClaim(o)
    \/ EnvApply(o) \/ EnvRollout(o) \/ EnvReconcile(o) \/ EnvProbe(o) \/ EnvRenew(o)
    \/ EnvUndoDns(o) \/ EnvAnnotate(o) \/ EnvAnnotated(o) \/ EnvUndoExposure(o)
    \/ EnvRestore(o) \/ EnvChange(o) \/ EnvUndoRuntime(o)
    \/ EnvFind(o) \/ EnvDelete(o) \/ EnvVerify(o) \/ EnvFinish(o)

EnvDisturb ==
    \/ \E o \in Op : EnvStop(o) \/ EnvCancel(o) \/ EnvDie(o)
    \/ EnvSquat \/ \E k \in EnvExposure : EnvEdit(k)

EnvNextState == (\E o \in Op : EnvStep(o)) \/ EnvDisturb

EnvSpec == EnvInit /\ [][EnvNextState]_envVars

------------------------------------------------------------------------------
EnvStamps == {"none", "past"} \union Op

\* Every variable has its type, and a Lease is held by who is at work under it.
EnvTypeOK ==
    /\ envSpace \in [owner : {"none", "us", "foreign"}, control : {"none"} \union EnvControls,
                     spec : EnvStamps, expiry : EnvStamps]
    /\ envObject \in [EnvKinds -> {"absent", "past", "edited"} \union Op]
    /\ envControl \in [Op -> EnvControls] /\ envTodo \in [Op -> SUBSET EnvKinds]
    /\ \A o \in Op :
        o \notin envHeld[envControl[o]] <=> envPc[o] \in {"start", "refused", "over"}
    /\ envRan \in [Op -> SUBSET {"Runtime", "Exposure", "Dns"}]
    /\ envUndone \in [Op -> SUBSET {"Runtime", "Exposure", "Dns"}]
    /\ envLeft \in 0..EnvBudget

\* A namespace and what is in it are changed only by an operation that holds
\* the Lease of the control namespace it records, and never while somebody
\* else owns the name (claim_namespace, ensure_observed_control_namespace;
\* docs/product-spec.md, 13: "preventing a different Lease from silently
\* replacing the original authority").
EnvOneAuthority ==
    [][\A o \in Op :
        EnvStep(o) /\ EnvThere /\ <<envSpace, envObject>>' # <<envSpace, envObject>>
            => EnvMine(o)]_envVars

\* When a failed `up` ends, each capability that told the core it is destroyed
\* left what the locked plan saw: no namespace of this operation when there was
\* none, else the very exposure (but for what somebody edits) and expiry
\* (restore_exposure_entries, rollback_dns, delete_namespace_exact).  When a
\* `down` answers so, no namespace under its Lease is left.
EnvCompensationIsExact ==
    \A o \in Op :
        /\ envPc[o] = "failed" =>
            /\ EnvFresh(o) /\ "Runtime" \in envUndone[o] => envSpace.spec # o
            /\ ~EnvFresh(o) /\ "Exposure" \in envUndone[o] =>
                \A k \in EnvExposure : envObject[k] \in {envPlan[o].object[k], "edited"}
            /\ ~EnvFresh(o) /\ "Dns" \in envUndone[o] =>
                envSpace.expiry = envPlan[o].space.expiry
        /\ envPc[o] = "destroyed" => ~EnvMine(o)

\* An environment that had an expiry when an operation planned keeps one as
\* long as it exists and the operation is at work: prune can always find it
\* (plan: "Reapplying an existing Namespace here would let server-side apply
\* remove the previous expiry before the rest of `up` has succeeded").
EnvExpiryKept ==
    \A o \in Op :
        o \in envHeld[envControl[o]] /\ envPlan[o].space.expiry # "none" /\ EnvMine(o)
            => envSpace.expiry # "none"

\* A `down` that is run until it is through ends: it is refused, its process
\* dies, or it has answered `destroyed`, whatever an `up` that failed or died,
\* or a lost answer, left behind (destroy_runtime).
EnvDownIsThrough ==
    \A o \in Op :
        envTask[o] = "down" => envPc[o] \in {"refused", "over"}
=============================================================================
