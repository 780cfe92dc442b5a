------------------------------- MODULE Hetzner -------------------------------
(***************************************************************************)
(* One machine environment at Hetzner: the server and the firewall that    *)
(* carry its labels, and operations that reconcile or delete them, each    *)
(* from a computer of its own.  The operation lock is an flock on the      *)
(* machine, held over SSH.  As long as there is no machine there is only   *)
(* the reservation of each plugin's own session, which `apply` upgrades to *)
(* the flock of the machine once that is ready.                            *)
(*                                                                         *)
(* The provider keeps the names of servers and firewalls unique, so there  *)
(* is at most one of each; an `up` creates at most one of each, so they go *)
(* by the name of the operation that made them.                            *)
(***************************************************************************)
EXTENDS Operations, Naturals

CONSTANTS
    HzTasks,    \* subset of {"up", "down", "all"}; "all" is `down --all`
    HzPriors,   \* what may be there: subset of {"nothing", "firewall", "machine"}
    HzOdd,      \* operations whose checkout has other immutable settings
    HzFaults,   \* subset of {"call", "drop", "die", "cancel"}
    HzBudget    \* how many of them happen

ASSUME HzAssumption ==
    /\ HzTasks \subseteq {"up", "down", "all"}
    /\ HzPriors \subseteq {"nothing", "firewall", "machine"}
    /\ HzOdd \subseteq Op
    /\ HzFaults \subseteq {"call", "drop", "die", "cancel"}
    /\ HzBudget \in Nat
    /\ Op \cap {"past", "none", "nobody", "reserved"} = {}

VARIABLES
    hzMachine,   \* the server: who made it
    hzFirewall,  \* the firewall
    hzShield,    \* the firewall that is applied to the server
    hzFlock,     \* who holds the flock on the server
    hzRemoved,   \* for each server, who removed it
    hzTask,      \* what an operation is
    hzEntry,     \* its entry in `locks`: none, a reservation, or the server locked
    hzAlive,     \* operations whose ssh for that flock still runs
    hzSnapshot,  \* what it saw before it locked
    hzPlan,      \* what its locked plan saw
    hzHand,      \* what the running call found last
    hzHad,       \* operations whose apply found a server
    hzLocked,    \* servers it has ever locked
    hzDenied,    \* the server whose flock its upgrade did not get
    hzBypass,    \* operations that were forced past the lock
    hzCancelled, \* `cancelled`
    hzUndone,    \* operations whose removal was confirmed
    hzPc, hzLeft

hzCloud == <<hzMachine, hzFirewall, hzShield, hzFlock, hzRemoved>>
hzLock == <<hzEntry, hzAlive, hzLocked, hzDenied, hzBypass>>
hzView == <<hzSnapshot, hzPlan, hzHand, hzHad>>
hzRest == <<hzTask, hzCancelled, hzUndone>>
hzVars == <<hzCloud, hzLock, hzView, hzRest, hzPc, hzLeft>>

HzId == Op \union {"past"}
HzNone == "none"
HzNobody == "nobody"
HzUnremoved == [by |-> HzNobody, forced |-> FALSE]

\* Mutant of HzSeen: the firewall is looked up through its server.
HzSeenByServer ==
    [machine |-> hzMachine, firewall |-> IF hzMachine = "none" THEN "none" ELSE hzFirewall]

\* discover, by the labels of the environment.
HzSeen == [machine |-> hzMachine, firewall |-> hzFirewall]
HzAbsent == [machine |-> HzNone, firewall |-> HzNone]

\* The server was made with other settings than o's, by its fingerprint.
HzDiffers(o) == hzMachine # HzNone /\ (hzMachine \in HzOdd) # (o \in HzOdd)

HzInit ==
    /\ \E prior \in HzPriors :
        /\ hzMachine = IF prior = "machine" THEN "past" ELSE HzNone
        /\ hzFirewall = IF prior = "nothing" THEN HzNone ELSE "past"
        /\ hzShield = IF prior = "machine" THEN "past" ELSE HzNone
    /\ hzFlock = HzNobody
    /\ hzRemoved = [m \in HzId |-> HzUnremoved]
    /\ hzTask \in [Op -> HzTasks]
    /\ hzEntry = [o \in Op |-> HzNone] /\ hzAlive = {}
    /\ hzSnapshot = [o \in Op |-> HzAbsent]
    /\ hzPlan = [o \in Op |-> HzAbsent] /\ hzHand = [o \in Op |-> HzAbsent]
    /\ hzHad = {}
    /\ hzLocked = [o \in Op |-> {}] /\ hzDenied = [o \in Op |-> HzNone]
    /\ hzBypass = {} /\ hzCancelled = {} /\ hzUndone = {}
    /\ hzPc = [o \in Op |-> "idle"]
    /\ hzLeft = HzBudget

------------------------------------------------------------------------------
HzGo(o, where) == hzPc' = [hzPc EXCEPT ![o] = where]
HzAt(o, from, to) == hzPc[o] = from /\ HzGo(o, to)
HzFault(kind) == kind \in HzFaults /\ hzLeft > 0 /\ hzLeft' = hzLeft - 1
HzFinds(o, what) == hzHand' = [hzHand EXCEPT ![o] = what]
HzFailed(o) == IF o \in hzHad THEN "undo" ELSE "failed"

\* A mutating call goes on to `to` or, its answer lost or its wait cancelled or
\* failed, to `otherwise`.
HzAnswered(o, to, otherwise) ==
    \/ o \notin hzCancelled /\ HzGo(o, to) /\ UNCHANGED hzLeft
    \/ o \in hzCancelled /\ HzGo(o, otherwise) /\ UNCHANGED hzLeft
    \/ HzFault("call") /\ HzGo(o, otherwise)

\* The server m goes, and with it the flock on it.
HzRemove(o, m) ==
    IF m # HzNone /\ m = hzMachine
    THEN /\ hzMachine' = HzNone /\ hzShield' = HzNone /\ hzFlock' = HzNobody
         /\ hzRemoved' = [hzRemoved EXCEPT ![m] =
                [by |-> o, forced |-> o \in hzBypass]]
    ELSE UNCHANGED <<hzMachine, hzShield, hzFlock, hzRemoved>>

\* acquire_remote_flock on the server m.
HzTake(o, m) ==
    /\ m = hzMachine /\ hzFlock = HzNobody
    /\ hzFlock' = o
    /\ hzEntry' = [hzEntry EXCEPT ![o] = m] /\ hzAlive' = hzAlive \union {o}
    /\ hzLocked' = [hzLocked EXCEPT ![o] = @ \union {m}]

\* lock_release and invalidate_environment_lock: the entry goes, its ssh is killed.
HzDropEntry(o) ==
    /\ hzEntry' = [hzEntry EXCEPT ![o] = HzNone] /\ hzAlive' = hzAlive \ {o}
    /\ hzFlock' = IF hzFlock = o THEN HzNobody ELSE hzFlock

\* The continuity check of the core and ensure_lock of the plugin.
HzHolds(o) == o \in hzBypass \/ hzEntry[o] = "reserved" \/ (hzEntry[o] # HzNone /\ o \in hzAlive)

------------------------------------------------------------------------------
(* What precedes the mutation.                                             *)

\* The first inspection, which the lock's snapshot is of.
HzInspect(o) ==
    /\ HzAt(o, "idle", IF hzTask[o] = "up" \/ HzSeen # HzAbsent THEN "lock" ELSE "over")
    /\ hzSnapshot' = [hzSnapshot EXCEPT ![o] = HzSeen]
    /\ UNCHANGED <<hzCloud, hzLock, hzPlan, hzHand, hzHad, hzRest, hzLeft>>

HzReserve(o) ==
    /\ HzAt(o, "lock", "plan")
    /\ hzSnapshot[o].machine = HzNone
    /\ hzEntry' = [hzEntry EXCEPT ![o] = "reserved"]
    /\ UNCHANGED <<hzCloud, hzAlive, hzLocked, hzDenied, hzBypass, hzView, hzRest, hzLeft>>

HzAcquire(o) ==
    /\ HzAt(o, "lock", "plan")
    /\ hzSnapshot[o].machine # HzNone /\ HzTake(o, hzSnapshot[o].machine)
    /\ UNCHANGED <<hzMachine, hzFirewall, hzShield, hzRemoved, hzDenied, hzBypass, hzView,
                   hzRest, hzLeft>>

HzBusy(o) ==
    /\ HzAt(o, "lock", "release")
    /\ hzSnapshot[o].machine = hzMachine /\ hzFlock # HzNobody
    /\ UNCHANGED <<hzCloud, hzLock, hzView, hzRest, hzLeft>>

\* The locked server does not answer, or is gone: a `down` may be forced on.
HzUnreachable(o) ==
    /\ hzPc[o] = "lock" /\ hzSnapshot[o].machine # HzNone
    /\ (hzSnapshot[o].machine # hzMachine /\ UNCHANGED hzLeft) \/ HzFault("call")
    /\ \/ HzGo(o, "release") /\ UNCHANGED hzBypass
       \/ hzTask[o] # "up" /\ hzBypass' = hzBypass \union {o} /\ HzGo(o, "plan")
    /\ UNCHANGED <<hzCloud, hzEntry, hzAlive, hzLocked, hzDenied, hzView, hzRest>>

\* Planned again under the lock.  An `up` refuses to replace a server and leaves
\* a target without changes alone; a `down` refuses what it did not display.
HzReplan(o) ==
    /\ hzPc[o] = "plan"
    /\ hzPlan' = [hzPlan EXCEPT ![o] = HzSeen]
    /\ \/ /\ hzTask[o] = "up"
          /\ IF HzDiffers(o) THEN HzGo(o, "release")
             ELSE \/ HzGo(o, "apply")
                  \/ HzNone \notin {hzMachine, hzFirewall} /\ hzShield = hzFirewall
                     /\ HzGo(o, "runtime")
       \/ /\ hzTask[o] # "up"
          /\ HzGo(o, IF HzSeen = hzSnapshot[o] THEN "destroy" ELSE "release")
    /\ UNCHANGED <<hzCloud, hzLock, hzSnapshot, hzHand, hzHad, hzRest, hzLeft>>

------------------------------------------------------------------------------
(* apply and reconcile_present.                                            *)

HzApply(o) ==
    /\ hzPc[o] = "apply" /\ HzHolds(o)
    /\ HzFinds(o, HzSeen)
    /\ hzHad' = IF hzMachine # HzNone THEN hzHad \union {o} ELSE hzHad
    /\ HzGo(o, IF HzDiffers(o) THEN "replace" ELSE "firewall")
    /\ UNCHANGED <<hzCloud, hzLock, hzSnapshot, hzPlan, hzRest, hzLeft>>

\* The server was made with other settings.
HzReplace(o) ==
    /\ hzPc[o] = "replace"
    /\ HzRemove(o, hzHand[o].machine)
    /\ HzFinds(o, [machine |-> hzMachine', firewall |-> hzFirewall])
    /\ HzAnswered(o, "firewall", "undo")
    /\ UNCHANGED <<hzFirewall, hzLock, hzSnapshot, hzPlan, hzHad, hzRest>>

\* The firewall found now or before is taken, else one is created; a creation
\* whose answer is lost or refused adopts what is there.
HzFirewall(o) ==
    /\ hzPc[o] = "firewall"
    /\ IF hzHand[o].firewall # HzNone \/ hzFirewall # HzNone
       THEN /\ HzFinds(o, [hzHand[o] EXCEPT !.firewall = IF @ # HzNone THEN @ ELSE hzFirewall])
            /\ HzGo(o, "server")
            /\ UNCHANGED <<hzFirewall, hzLeft>>
       ELSE /\ hzFirewall' = o
            /\ HzFinds(o, [hzHand[o] EXCEPT !.firewall = o])
            /\ HzAnswered(o, "server", HzFailed(o))
    /\ UNCHANGED <<hzMachine, hzShield, hzFlock, hzRemoved, hzLock, hzSnapshot, hzPlan, hzHad,
                   hzRest>>

\* The server likewise; its creation names the firewall.
HzServer(o) ==
    /\ hzPc[o] = "server"
    /\ \/ /\ hzMachine # HzNone
          /\ HzFinds(o, [hzHand[o] EXCEPT !.machine = hzMachine])
          /\ HzGo(o, "attach")
          /\ UNCHANGED <<hzMachine, hzShield, hzLeft>>
       \/ /\ hzMachine = HzNone /\ hzHand[o].firewall = hzFirewall
          /\ hzMachine' = o /\ hzShield' = hzFirewall
          /\ HzFinds(o, [hzHand[o] EXCEPT !.machine = o])
          /\ HzAnswered(o, "attach", HzFailed(o))
       \/ /\ hzMachine = HzNone /\ hzHand[o].firewall # hzFirewall
          /\ HzGo(o, HzFailed(o))
          /\ UNCHANGED <<hzMachine, hzShield, hzHand, hzLeft>>
    /\ UNCHANGED <<hzFirewall, hzFlock, hzRemoved, hzLock, hzSnapshot, hzPlan, hzHad, hzRest>>

HzAttach(o) ==
    /\ hzPc[o] = "attach"
    /\ IF hzMachine = hzHand[o].machine /\ hzFirewall = hzHand[o].firewall /\ hzFirewall # HzNone
       THEN hzShield' = hzFirewall /\ HzAnswered(o, "ready", HzFailed(o))
       ELSE HzGo(o, HzFailed(o)) /\ UNCHANGED <<hzShield, hzLeft>>
    /\ UNCHANGED <<hzMachine, hzFirewall, hzFlock, hzRemoved, hzLock, hzView, hzRest>>

\* wait_until_ready
HzReady(o) ==
    /\ hzPc[o] = "ready"
    /\ IF hzMachine = hzHand[o].machine
       THEN HzAnswered(o, "upgrade", HzFailed(o))
       ELSE HzGo(o, HzFailed(o)) /\ UNCHANGED hzLeft
    /\ UNCHANGED <<hzCloud, hzLock, hzView, hzRest>>

\* upgrade_environment_lock.  A lock that already has a process is left as it is.
HzUpgrade(o) ==
    /\ HzAt(o, "upgrade", "final")
    /\ IF hzEntry[o] = "reserved" THEN HzTake(o, hzHand[o].machine)
       ELSE UNCHANGED <<hzFlock, hzEntry, hzAlive, hzLocked>>
    /\ UNCHANGED <<hzMachine, hzFirewall, hzShield, hzRemoved, hzDenied, hzBypass, hzView,
                   hzRest, hzLeft>>

\* Mutant of HzInvalidate: the session's reservation outlives the refusal.
HzInvalidateNothing(o) == UNCHANGED <<hzEntry, hzAlive, hzFlock>>

HzInvalidate(o) == HzDropEntry(o)

\* The flock is held by another or out of reach: the reservation is given up
\* and the error asks that nothing be deleted (preserve_provider_resources).
HzRefused(o) ==
    /\ HzAt(o, "upgrade", "undo") /\ hzEntry[o] = "reserved"
    /\ \/ (hzMachine # hzHand[o].machine \/ hzFlock # HzNobody) /\ UNCHANGED hzLeft
       \/ HzFault("call")
    /\ HzInvalidate(o)
    /\ hzDenied' = [hzDenied EXCEPT ![o] = hzHand[o].machine]
    /\ UNCHANGED <<hzMachine, hzFirewall, hzShield, hzRemoved, hzLocked, hzBypass, hzView, hzRest>>

\* The last discovery; what was cancelled meanwhile is undone by the core.
HzFinal(o) ==
    /\ HzAt(o, "final", IF hzMachine = HzNone THEN HzFailed(o)
                        ELSE IF o \in hzCancelled THEN "undo" ELSE "runtime")
    /\ UNCHANGED <<hzCloud, hzLock, hzView, hzRest, hzLeft>>

\* The capabilities after the target, and the verification.
HzRuntime(o) ==
    /\ hzPc[o] = "runtime"
    /\ HzAnswered(o, "release", "undo")
    /\ UNCHANGED <<hzCloud, hzLock, hzView, hzRest>>

\* An apply that found no server and failed cleans up after itself.
HzCleanup(o) ==
    /\ HzAt(o, "failed", "cleanServer")
    /\ HzFinds(o, HzSeen)
    /\ UNCHANGED <<hzCloud, hzLock, hzSnapshot, hzPlan, hzHad, hzRest, hzLeft>>

------------------------------------------------------------------------------
(* Removal, in the cleanup of an apply and in destroy.                     *)

\* The core removes a target that its locked plan did not find.
HzUndo(o) ==
    /\ HzAt(o, "undo", IF hzPlan[o] = HzAbsent THEN "destroy" ELSE "release")
    /\ UNCHANGED <<hzCloud, hzLock, hzView, hzRest, hzLeft>>

\* Mutant of HzVerified: the locks and labels are trusted.
HzVerifiedByLabels(o) == TRUE

\* verify_project_snapshot
HzVerified(o) == hzTask[o] = "all" /\ o \notin hzBypass => HzSeen = hzSnapshot[o]

HzDestroy(o) ==
    /\ hzPc[o] = "destroy" /\ HzHolds(o)
    /\ IF HzVerified(o) THEN HzFinds(o, HzSeen) /\ HzGo(o, "server-")
       ELSE HzGo(o, "release") /\ UNCHANGED hzHand
    /\ UNCHANGED <<hzCloud, hzLock, hzSnapshot, hzPlan, hzHad, hzRest, hzLeft>>

\* The lock turns out lost before a mutation: it is given up, nothing is done.
HzLost(o) ==
    /\ hzPc[o] \in {"apply", "destroy"} /\ ~HzHolds(o)
    /\ HzGo(o, "release") /\ HzDropEntry(o)
    /\ UNCHANGED <<hzMachine, hzFirewall, hzShield, hzRemoved, hzLocked, hzDenied, hzBypass,
                   hzView, hzRest, hzLeft>>

HzDeleteServer(o) ==
    /\ \/ hzPc[o] = "server-" /\ HzAnswered(o, "firewall-", "release")
       \/ hzPc[o] = "cleanServer" /\ HzAnswered(o, "cleanFirewall", "undo")
    /\ HzRemove(o, hzHand[o].machine)
    /\ UNCHANGED <<hzFirewall, hzLock, hzView, hzRest>>

\* The provider refuses to delete a firewall that is applied to a server.
HzDeleteFirewall(o) ==
    LET mine == hzHand[o].firewall # HzNone /\ hzHand[o].firewall = hzFirewall
        free == hzShield # hzFirewall
        next == IF hzPc[o] = "firewall-" THEN "confirm" ELSE "undo"
        failed == IF hzPc[o] = "firewall-" THEN "release" ELSE "undo" IN
    /\ hzPc[o] \in {"firewall-", "cleanFirewall"}
    /\ hzFirewall' = IF mine /\ free THEN HzNone ELSE hzFirewall
    /\ \/ HzGo(o, IF mine /\ ~free THEN failed ELSE next) /\ UNCHANGED hzLeft
       \/ HzFault("call") /\ HzGo(o, failed)
    /\ UNCHANGED <<hzMachine, hzShield, hzFlock, hzRemoved, hzLock, hzView, hzRest>>

\* What is discovered once more after the removal is what remains.
HzConfirm(o) ==
    /\ HzAt(o, "confirm", "release")
    /\ hzUndone' = IF HzSeen = HzAbsent THEN hzUndone \union {o} ELSE hzUndone
    /\ UNCHANGED <<hzCloud, hzLock, hzView, hzTask, hzCancelled, hzLeft>>

HzForget(o) ==
    /\ hzSnapshot' = [hzSnapshot EXCEPT ![o] = HzAbsent]
    /\ hzPlan' = [hzPlan EXCEPT ![o] = HzAbsent]
    /\ HzFinds(o, HzAbsent)
    /\ hzHad' = hzHad \ {o} /\ hzBypass' = hzBypass \ {o}

\* The end of the operation; a `down` that did not get through is run again.
HzRelease(o) ==
    /\ HzAt(o, "release", IF hzTask[o] = "up" \/ o \in hzUndone THEN "over" ELSE "idle")
    /\ HzDropEntry(o) /\ HzForget(o)
    /\ hzCancelled' = hzCancelled \ {o}
    /\ UNCHANGED <<hzMachine, hzFirewall, hzShield, hzRemoved, hzLocked, hzDenied, hzTask,
                   hzUndone, hzLeft>>

------------------------------------------------------------------------------
(* Faults.                                                                 *)

HzReads == {"idle", "plan", "apply", "destroy", "failed", "final", "confirm"}

\* A call that only reads fails.
HzReadFails(o) ==
    /\ hzPc[o] \in HzReads /\ HzFault("call")
    /\ HzGo(o, CASE hzPc[o] = "apply" -> "undo"
                 [] hzPc[o] = "failed" -> "undo"
                 [] hzPc[o] = "final" -> HzFailed(o)
                 [] OTHER -> "release")
    /\ UNCHANGED <<hzCloud, hzLock, hzView, hzRest>>

\* The ssh that holds a flock ends: its connection is lost, or its server gone.
HzDrop(o) ==
    /\ o \in hzAlive
    /\ \/ hzFlock # o /\ UNCHANGED hzLeft
       \/ hzFlock = o /\ HzFault("drop")
    /\ hzAlive' = hzAlive \ {o}
    /\ hzFlock' = IF hzFlock = o THEN HzNobody ELSE hzFlock
    /\ UNCHANGED <<hzMachine, hzFirewall, hzShield, hzRemoved, hzEntry, hzLocked, hzDenied,
                   hzBypass, hzView, hzRest, hzPc>>

HzMutating == {"replace", "firewall", "server", "attach", "ready", "upgrade", "final", "failed",
               "cleanServer", "cleanFirewall"}

\* Ctrl+C while a call is in flight; `cancelled` keeps the operation for good.
HzCancel(o) ==
    /\ hzPc[o] \in HzMutating \/ (hzTask[o] # "up" /\ hzPc[o] \in {"server-", "firewall-"})
    /\ o \notin hzCancelled /\ HzFault("cancel")
    /\ hzCancelled' = hzCancelled \union {o}
    /\ UNCHANGED <<hzCloud, hzLock, hzView, hzTask, hzUndone, hzPc>>

HzDie(o) ==
    /\ hzPc[o] \notin {"idle", "over"} /\ HzFault("die")
    /\ HzGo(o, "over") /\ HzDropEntry(o) /\ HzForget(o)
    /\ UNCHANGED <<hzMachine, hzFirewall, hzShield, hzRemoved, hzLocked, hzDenied, hzRest>>

HzStep(o) ==
    \/ HzInspect(o) \/ HzReserve(o) \/ HzAcquire(o) \/ HzBusy(o) \/ HzUnreachable(o)
    \/ HzReplan(o) \/ HzApply(o) \/ HzReplace(o) \/ HzFirewall(o) \/ HzServer(o) \/ HzAttach(o)
    \/ HzReady(o) \/ HzUpgrade(o) \/ HzRefused(o) \/ HzFinal(o) \/ HzRuntime(o) \/ HzCleanup(o)
    \/ HzUndo(o) \/ HzDestroy(o) \/ HzLost(o) \/ HzDeleteServer(o) \/ HzDeleteFirewall(o)
    \/ HzConfirm(o) \/ HzRelease(o)

HzNext == \E o \in Op : HzStep(o) \/ HzReadFails(o) \/ HzDrop(o) \/ HzCancel(o) \/ HzDie(o)

HzSpec == HzInit /\ [][HzNext]_hzVars

------------------------------------------------------------------------------
\* Every variable has its type; an flock is held through a live ssh of whom the
\* `locks` say holds it, and only on a server that is there.
HzTypeOK ==
    /\ {hzMachine, hzFirewall, hzShield} \subseteq HzId \union {HzNone}
    /\ hzFlock \in Op \union {HzNobody}
    /\ hzMachine = HzNone => hzShield = HzNone /\ hzFlock = HzNobody
    /\ hzShield \in {HzNone, hzFirewall}
    /\ \A o \in Op : hzEntry[o] \in HzId \union {HzNone, "reserved"}
    /\ hzFlock # HzNobody => hzFlock \in hzAlive /\ hzEntry[hzFlock] = hzMachine
    /\ hzLeft \in 0..HzBudget

\* An operation that the flock of a server was refused to never removes that
\* server, neither in the cleanup of the failed apply nor in the compensation
\* of the core (upgrade_environment_lock, remote_lock_upgrade_failure;
\* docs/architecture.md: "the new provider resources are preserved for explicit
\* recovery instead of being deleted without a lock").
HzRefusedPreserves ==
    \A o \in Op : hzDenied[o] # HzNone => hzRemoved[hzDenied[o]].by # o

\* `down --all` removes only servers that it locked first, also when another
\* server takes the place of one between the snapshot, the lock and the removal
\* (verify_project_snapshot).
HzProjectRemovesWhatItLocked ==
    \A m \in HzId :
        LET o == hzRemoved[m].by IN
        o # HzNobody => (hzTask[o] = "all" /\ ~hzRemoved[m].forced => m \in hzLocked[o])

\* No operation on Hetzner removes a server that it was refused the flock of,
\* and `down --all` none that it has not locked first (remote_lock_upgrade_failure,
\* verify_project_snapshot; docs/architecture.md: "preserved for explicit
\* recovery instead of being deleted without a lock").
HzTouchesItsOwn == HzRefusedPreserves /\ HzProjectRemovesWhatItLocked

\* A failed `up` whose compensation was confirmed has left nothing behind that
\* it created, whichever of its creations it was not told of (apply, destroy).
HzCompensationIsExact ==
    \A o \in Op : hzPc[o] = "over" /\ o \in hzUndone /\ hzTask[o] = "up"
        => o \notin {hzMachine, hzFirewall}

\* A `down` that is run until it is through ends.
HzDownIsThrough == \A o \in Op : hzTask[o] # "up" => hzPc[o] = "over"
=============================================================================
