-------------------------------- MODULE Prune --------------------------------
(***************************************************************************)
(* `lightrail prune` and `lightrail down --all` on Kubernetes: the core's  *)
(* selection, its second inspection under the project's lock and the       *)
(* plugin's deletions one by one, beside other operations on the same      *)
(* environments.  The Lease is taken as what KubeLease shows of it: an     *)
(* owner that loses it has its running `kubectl` killed.  A killed         *)
(* deletion has taken effect by then or never will.                        *)
(*                                                                         *)
(* An expiry is an hour of `pruneClock`; the annotation of an environment  *)
(* that was never given one is PruneNever.                                 *)
(***************************************************************************)
EXTENDS Operations, Integers, FiniteSets

CONSTANTS
    PruneEnvs,     \* environments of the project, in the order of their namespaces
    PruneAliens,   \* those that another control namespace has claimed
    PruneTasks,    \* subset of {"prune", "all", "up", "down"}
    PruneHours,    \* how far the clock goes
    PruneFaults,   \* subset of {"call", "lapse", "die", "cancel", "elsewhere"}
    PruneBudget    \* how many of them happen

ASSUME PruneAssumption ==
    /\ PruneEnvs \subseteq Nat /\ PruneAliens \subseteq PruneEnvs
    /\ PruneTasks \subseteq {"prune", "all", "up", "down"}
    /\ PruneHours \in Nat /\ PruneBudget \in Nat
    /\ "nobody" \notin Op
    /\ PruneFaults \subseteq {"call", "lapse", "die", "cancel", "elsewhere"}

VARIABLES
    pruneSpace,  \* for each environment its expiry, or PruneGone
    pruneClock,
    pruneHeld,   \* the operation that holds the project's lock
    pruneTask,   \* what an operation is
    pruneNow,    \* the time it captured
    pruneShown,  \* what it showed to its user, or found, before it had the lock
    pruneSeen,   \* what it found under the lock
    pruneTodo,   \* namespaces its call still has to delete
    pruneRemain, \* those that were there after their deletion
    prunePc, pruneLeft

pruneSelf == <<pruneTask, pruneNow, pruneShown, pruneSeen>>
pruneCall == <<pruneTodo, pruneRemain>>
pruneVars == <<pruneSpace, pruneClock, pruneHeld, pruneSelf, pruneCall, prunePc, pruneLeft>>

PruneGone == 0 - 1
PruneNever == PruneHours + 2
PruneNobody == "nobody"
PruneNothing == [e \in PruneEnvs |-> PruneGone]

PruneInit ==
    /\ pruneSpace \in [PruneEnvs -> {PruneGone, 0, PruneNever}]
    /\ \A e \in PruneAliens : pruneSpace[e] = PruneGone
    /\ pruneClock = 0 /\ pruneHeld = PruneNobody
    /\ pruneTask \in [Op -> PruneTasks]
    /\ pruneNow = [o \in Op |-> 0]
    /\ pruneShown = [o \in Op |-> PruneNothing] /\ pruneSeen = [o \in Op |-> PruneNothing]
    /\ pruneTodo = [o \in Op |-> {}] /\ pruneRemain = [o \in Op |-> {}]
    /\ prunePc = [o \in Op |-> "start"]
    /\ pruneLeft = PruneBudget

------------------------------------------------------------------------------
PruneGo(o, where) == prunePc' = [prunePc EXCEPT ![o] = where]
PruneAt(o, from, to) == prunePc[o] = from /\ PruneGo(o, to)
PruneFault(kind) == kind \in PruneFaults /\ pruneLeft > 0 /\ pruneLeft' = pruneLeft - 1
PruneRemoves(o) == pruneTask[o] \in {"prune", "all"}

\* expired_candidates: those whose deadline has passed at the captured time.
PruneExpired(seen, now) == {e \in PruneEnvs : seen[e] # PruneGone /\ seen[e] <= now}

\* What an operation selects of what it found, as core and plan compare it;
\* PruneGone stands for what is not selected.
PruneChosen(o, seen) ==
    [e \in PruneEnvs |->
        IF pruneTask[o] = "all" \/ e \in PruneExpired(seen, pruneNow[o])
        THEN seen[e] ELSE PruneGone]
PruneSet(list) == {e \in PruneEnvs : list[e] # PruneGone}

\* ensure_control_namespace_continuity: no plan is made over an environment
\* that another control namespace has claimed, selected or not.
PrunePlannable == \A e \in PruneAliens : pruneSpace[e] = PruneGone

------------------------------------------------------------------------------
(* Before the lock.                                                        *)

PruneStart(o) ==
    /\ PruneAt(o, "start", IF PruneRemoves(o) THEN "asking" ELSE "waiting")
    /\ pruneNow' = [pruneNow EXCEPT ![o] = pruneClock]
    /\ UNCHANGED <<pruneSpace, pruneClock, pruneHeld, pruneTask, pruneShown, pruneSeen, pruneCall,
                   pruneLeft>>

\* Inspection, selection, plan and confirmation; nothing to do is success.
PruneAsk(o) ==
    LET list == PruneChosen(o, pruneSpace) IN
    /\ PruneAt(o, "asking", IF PruneSet(list) = {} \/ ~PrunePlannable THEN "over" ELSE "waiting")
    /\ pruneShown' = [pruneShown EXCEPT ![o] = list]
    /\ UNCHANGED <<pruneSpace, pruneClock, pruneHeld, pruneTask, pruneNow, pruneSeen, pruneCall,
                   pruneLeft>>

\* acquire_lock on the scope of the project; who gives up tries again later.
PruneWait(o) ==
    /\ prunePc[o] = "waiting"
    /\ \/ pruneHeld = PruneNobody /\ pruneHeld' = o /\ PruneGo(o, "owner")
       \/ pruneHeld # PruneNobody /\ PruneGo(o, "start") /\ UNCHANGED pruneHeld
    /\ UNCHANGED <<pruneSpace, pruneClock, pruneSelf, pruneCall, pruneLeft>>

------------------------------------------------------------------------------
(* Under the lock, in the core.                                            *)

\* Mutant of PruneLook: only the identifiers are compared.
PruneLookLoose(o) ==
    LET list == PruneChosen(o, pruneSpace) IN
    /\ prunePc[o] = "owner" /\ PruneRemoves(o)
    /\ PruneGo(o, IF PruneSet(list) \subseteq PruneSet(pruneShown[o]) THEN "planned" ELSE "failed")
    /\ pruneSeen' = [pruneSeen EXCEPT ![o] = pruneShown[o]]
    /\ UNCHANGED <<pruneSpace, pruneClock, pruneHeld, pruneTask, pruneNow, pruneShown, pruneCall,
                   pruneLeft>>

\* The second inspection; what it selects and plans must be what was shown.
PruneLook(o) ==
    LET list == PruneChosen(o, pruneSpace) IN
    /\ prunePc[o] = "owner" /\ PruneRemoves(o)
    /\ PruneGo(o, IF list = pruneShown[o] /\ PrunePlannable THEN "planned" ELSE "failed")
    /\ pruneSeen' = [pruneSeen EXCEPT ![o] = list]
    /\ UNCHANGED <<pruneSpace, pruneClock, pruneHeld, pruneTask, pruneNow, pruneShown, pruneCall,
                   pruneLeft>>

\* The journal is saved, the lock is checked and the call is sent.
PruneBegin(o) ==
    /\ prunePc[o] = "planned"
    /\ \/ /\ pruneHeld = o /\ PruneGo(o, "asserting")
          /\ pruneTodo' = [pruneTodo EXCEPT ![o] = PruneSet(pruneSeen[o])]
          /\ UNCHANGED pruneLeft
       \/ pruneHeld # o /\ PruneGo(o, "failed") /\ UNCHANGED <<pruneTodo, pruneLeft>>
       \/ PruneFault("call") /\ PruneGo(o, "failed") /\ UNCHANGED pruneTodo
    /\ UNCHANGED <<pruneSpace, pruneClock, pruneHeld, pruneSelf, pruneRemain>>

\* release_lock; a command that failed is run again.
PruneFinish(o) ==
    /\ prunePc[o] \in {"succeeded", "failed"}
    /\ pruneHeld' = IF pruneHeld = o THEN PruneNobody ELSE pruneHeld
    /\ PruneGo(o, IF prunePc[o] = "succeeded" THEN "over" ELSE "start")
    /\ pruneTodo' = [pruneTodo EXCEPT ![o] = {}] /\ pruneRemain' = [pruneRemain EXCEPT ![o] = {}]
    /\ UNCHANGED <<pruneSpace, pruneClock, pruneSelf, pruneLeft>>

------------------------------------------------------------------------------
(* The deletions, in the plugin.                                           *)

PruneNext(o) == CHOOSE e \in pruneTodo[o] : \A f \in pruneTodo[o] : e <= f
PruneDrop(o) == pruneTodo' = [pruneTodo EXCEPT ![o] = @ \ {PruneNext(o)}]

\* assert_authority before each deletion and before the answer.
PruneAssert(o) ==
    /\ prunePc[o] = "asserting"
    /\ \/ /\ pruneHeld = o
          /\ \/ pruneTodo[o] # {} /\ PruneGo(o, "finding")
             \/ pruneTodo[o] = {} /\ PruneGo(o, IF pruneRemain[o] = {} THEN "succeeded" ELSE "failed")
          /\ UNCHANGED pruneLeft
       \/ pruneHeld # o /\ PruneGo(o, "failed") /\ UNCHANGED pruneLeft
       \/ PruneFault("call") /\ PruneGo(o, "failed")
    /\ UNCHANGED <<pruneSpace, pruneClock, pruneHeld, pruneSelf, pruneCall>>

\* get_owned_namespace: one that is gone needs no deletion.
PruneFind(o) ==
    /\ prunePc[o] = "finding"
    /\ \/ /\ pruneSpace[PruneNext(o)] # PruneGone /\ PruneGo(o, "deleting")
          /\ UNCHANGED <<pruneTodo, pruneLeft>>
       \/ /\ pruneSpace[PruneNext(o)] = PruneGone /\ PruneGo(o, "asserting") /\ PruneDrop(o)
          /\ UNCHANGED pruneLeft
       \/ PruneFault("call") /\ PruneGo(o, "failed") /\ UNCHANGED pruneTodo
    /\ UNCHANGED <<pruneSpace, pruneClock, pruneHeld, pruneSelf, pruneRemain>>

\* A `kubectl delete` that was killed may have had its effect.
PruneHalf(o) ==
    \/ UNCHANGED pruneSpace
    \/ prunePc[o] = "deleting" /\ pruneSpace' = [pruneSpace EXCEPT ![PruneNext(o)] = PruneGone]

\* Mutant of PruneDelete: a deletion that fails counts as done.
PruneDeleteHeedless(o) ==
    /\ prunePc[o] = "deleting"
    /\ \/ /\ pruneSpace' = [pruneSpace EXCEPT ![PruneNext(o)] = PruneGone] /\ PruneGo(o, "rereading")
          /\ UNCHANGED <<pruneTodo, pruneLeft>>
       \/ PruneFault("call") /\ PruneHalf(o) /\ PruneGo(o, "asserting") /\ PruneDrop(o)
    /\ UNCHANGED <<pruneClock, pruneHeld, pruneSelf, pruneRemain>>

PruneDelete(o) ==
    /\ prunePc[o] = "deleting"
    /\ \/ /\ pruneSpace' = [pruneSpace EXCEPT ![PruneNext(o)] = PruneGone] /\ PruneGo(o, "rereading")
          /\ UNCHANGED pruneLeft
       \/ PruneFault("call") /\ PruneHalf(o) /\ PruneGo(o, "failed")
    /\ UNCHANGED <<pruneClock, pruneHeld, pruneSelf, pruneCall>>

\* What is there again after its deletion remains.
PruneReread(o) ==
    /\ prunePc[o] = "rereading"
    /\ \/ /\ PruneGo(o, "asserting") /\ PruneDrop(o)
          /\ pruneRemain' = [pruneRemain EXCEPT ![o] =
                IF pruneSpace[PruneNext(o)] = PruneGone THEN @ ELSE @ \union {PruneNext(o)}]
          /\ UNCHANGED pruneLeft
       \/ PruneFault("call") /\ PruneGo(o, "failed") /\ UNCHANGED pruneCall
    /\ UNCHANGED <<pruneSpace, pruneClock, pruneHeld, pruneSelf>>

PruneCalling(o) == prunePc[o] \in {"asserting", "finding", "deleting", "rereading"}

\* Ctrl+C: the deletion is killed, and even an answer that comes is a failure.
PruneCancel(o) ==
    /\ PruneCalling(o) /\ PruneFault("cancel") /\ PruneHalf(o) /\ PruneGo(o, "failed")
    /\ UNCHANGED <<pruneClock, pruneHeld, pruneSelf, pruneCall>>

------------------------------------------------------------------------------
(* The others.                                                             *)

\* The Lease is lost: the heartbeat cancels the call, which kills a deletion
\* that is running and starts no other.
PruneLapse(o) ==
    /\ pruneHeld = o /\ PruneFault("lapse") /\ pruneHeld' = PruneNobody
    /\ PruneHalf(o) /\ PruneGo(o, IF PruneCalling(o) THEN "failed" ELSE prunePc[o])
    /\ UNCHANGED <<pruneClock, pruneSelf, pruneCall>>

\* The process dies; its Lease stays until it has expired.
PruneDie(o) ==
    /\ prunePc[o] \notin {"start", "over", "dead"} /\ PruneFault("die")
    /\ PruneHalf(o) /\ PruneGo(o, "dead")
    /\ pruneTodo' = [pruneTodo EXCEPT ![o] = {}] /\ pruneRemain' = [pruneRemain EXCEPT ![o] = {}]
    /\ UNCHANGED <<pruneClock, pruneHeld, pruneSelf>>

PruneExpire(o) ==
    /\ PruneAt(o, "dead", "start")
    /\ pruneHeld' = IF pruneHeld = o THEN PruneNobody ELSE pruneHeld
    /\ UNCHANGED <<pruneSpace, pruneClock, pruneSelf, pruneCall, pruneLeft>>

\* An `up` refreshes the deadline of its environment, a `down` removes it.
PruneOther(o) ==
    /\ prunePc[o] = "owner" /\ ~PruneRemoves(o)
    /\ \/ /\ pruneHeld = o /\ PruneGo(o, "succeeded")
          /\ \E e \in PruneEnvs \ PruneAliens :
                pruneSpace' = [pruneSpace EXCEPT ![e] =
                    IF pruneTask[o] = "up" THEN pruneClock + 1 ELSE PruneGone]
       \/ pruneHeld # o /\ PruneGo(o, "failed") /\ UNCHANGED pruneSpace
    /\ UNCHANGED <<pruneClock, pruneHeld, pruneSelf, pruneCall, pruneLeft>>

\* Operations under another control namespace do not share the lock.
PruneElsewhere ==
    /\ PruneFault("elsewhere")
    /\ \E e \in PruneAliens, expiry \in {PruneGone, 0, PruneNever} :
            pruneSpace' = [pruneSpace EXCEPT ![e] = expiry]
    /\ UNCHANGED <<pruneClock, pruneHeld, pruneSelf, pruneCall, prunePc>>

PruneTick ==
    /\ pruneClock < PruneHours /\ pruneClock' = pruneClock + 1
    /\ UNCHANGED <<pruneSpace, pruneHeld, pruneSelf, pruneCall, prunePc, pruneLeft>>

PruneStep(o) ==
    \/ PruneStart(o) \/ PruneAsk(o) \/ PruneWait(o) \/ PruneLook(o) \/ PruneBegin(o)
    \/ PruneAssert(o) \/ PruneFind(o) \/ PruneDelete(o) \/ PruneReread(o) \/ PruneFinish(o)
    \/ PruneExpire(o) \/ PruneOther(o)
PruneNextState ==
    \/ \E o \in Op : PruneStep(o) \/ PruneCancel(o) \/ PruneLapse(o) \/ PruneDie(o)
    \/ PruneElsewhere \/ PruneTick
PruneSpec == PruneInit /\ [][PruneNextState]_pruneVars

------------------------------------------------------------------------------
PruneExpiries == {PruneGone, PruneNever} \union 0..PruneHours + 1

\* Types; a deletion has a namespace that is left to be deleted.
PruneTypeOK ==
    /\ pruneSpace \in [PruneEnvs -> PruneExpiries] /\ pruneClock \in 0..PruneHours
    /\ pruneHeld \in Op \union {PruneNobody}
    /\ pruneTask \in [Op -> PruneTasks] /\ pruneNow \in [Op -> 0..PruneHours]
    /\ pruneShown \in [Op -> [PruneEnvs -> PruneExpiries]]
    /\ pruneSeen \in [Op -> [PruneEnvs -> PruneExpiries]]
    /\ pruneTodo \in [Op -> SUBSET PruneEnvs] /\ pruneRemain \in [Op -> SUBSET PruneEnvs]
    /\ prunePc \in [Op -> {"start", "asking", "waiting", "owner", "planned", "asserting", "finding",
                           "deleting", "rereading", "succeeded", "failed", "dead", "over"}]
    /\ \A o \in Op : prunePc[o] \in {"finding", "deleting", "rereading"} => pruneTodo[o] # {}
    /\ pruneLeft \in 0..PruneBudget

\* Whatever happens while a command waits for its lock or goes through its
\* deletions, it deletes only environments that its user was shown, with the
\* deadline they were shown with, and a `prune` only what had expired when it
\* started (docs/product-spec.md, 14.1: "aborts if either the candidate set or
\* the canonical digest of the full serialized plan changed").
PruneSparesTheRest ==
    [][\A o \in Op, e \in PruneEnvs :
        prunePc[o] = "deleting" /\ prunePc'[o] # "deleting" /\ pruneSpace'[e] # pruneSpace[e] =>
            /\ pruneShown[o][e] = pruneSpace[e]
            /\ pruneTask[o] = "prune" => pruneSpace[e] <= pruneNow[o]]_pruneVars

\* A command that succeeds has left none of the environments it selected, as
\* long as it still has the lock.
PruneSuccessIsWhole ==
    \A o \in Op : prunePc[o] = "succeeded" /\ PruneRemoves(o) /\ pruneHeld = o =>
        \A e \in PruneSet(pruneSeen[o]) : pruneSpace[e] = PruneGone

\* A command that is run until it succeeds gets there, whatever its
\* predecessors left half done.
PruneIsThrough == \A o \in Op : prunePc[o] = "over"
==============================================================================
