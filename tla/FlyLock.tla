------------------------------- MODULE FlyLock -------------------------------
(***************************************************************************)
(* The operation lock of the Fly plugin: a lease of Fly.io's Machines API  *)
(* on a stopped sentinel Machine in a lock App of the project.  There is   *)
(* no heartbeat: before each bounded group of provider calls the plugin    *)
(* compares the expiry it remembers with its clock, and either refreshes   *)
(* the lease or reads it back and demands that nothing has changed.        *)
(*                                                                         *)
(* Time is discrete and relative.  flyLease.left is what is left by the    *)
(* provider's clock, flySeen[o] what the remembered expiry says is left by *)
(* the same clock; operation o reads flySeen[o] + FlySkew[o], since its    *)
(* own clock may be off.                                                   *)
(***************************************************************************)
EXTENDS Operations, Integers

CONSTANTS
    FlyTTL,        \* lock_ttl_seconds
    FlyWork,       \* the durations a check is asked to cover (command and
                   \* readiness timeouts, and 0: a single provider call)
    FlyMargin,     \* LOCK_MARGIN_SECONDS
    FlyAllowance,  \* PROVIDER_CALL_ALLOWANCE_SECONDS
    FlyCallTime,   \* the longest any provider call takes (HTTP timeout)
    FlySkew,       \* the provider's clock minus the operation's
    FlyMaxSkew,
    FlyLoss        \* the calls that may fail, before or after their effect,
                   \* and "die" when processes may die

ASSUME FlyLockAssumption ==
    /\ {"free", "orphan"} \intersect Op = {}
    /\ FlyTTL \in Nat /\ FlyMargin \in Nat /\ FlyAllowance \in Nat
    /\ FlyCallTime \in Nat /\ FlyMaxSkew \in Nat
    /\ FlyWork \subseteq Nat /\ FlyWork # {}
    /\ FlySkew \in [Op -> (0 - FlyMaxSkew)..FlyMaxSkew]
    /\ FlyLoss \subseteq {"sentinel", "acquire", "refresh", "read", "release", "die"}

\* The times fit: what a check demands beyond the work covers the last call
\* of that work and the error of the clock.
FlyTiming == FlyCallTime + FlyMaxSkew <= FlyMargin + FlyAllowance

VARIABLES
    flySentinel,  \* the lock App: absent, app (without a Machine), machine
    flyLease,     \* [nonce, left]; the nonce "free" is no lease, "orphan" one
                  \* whose nonce no process has learned
    flyLock,      \* HeldLock of the operation's process: none, held, gone
    flySeen,      \* HeldLock.expires_at, relative
    flyPc,        \* what the process is doing
    flyNeed,      \* the work of the check or of the mutation it is doing
    flyTimer,     \* ticks until that call or mutation is over
    flyTold       \* the last answer of a check or a release

flyLockVars == <<flySentinel, flyLease, flyLock, flySeen, flyPc, flyNeed,
                 flyTimer, flyTold>>

FlyLockInit ==
    /\ flySentinel \in {"absent", "machine"}
    /\ flyLease = [nonce |-> "free", left |-> 0]
    /\ flyLock = [o \in Op |-> "none"]
    /\ flySeen = [o \in Op |-> 0]
    /\ flyPc = [o \in Op |-> "idle"]
    /\ flyNeed = [o \in Op |-> 0]
    /\ flyTimer = [o \in Op |-> 0]
    /\ flyTold = [o \in Op |-> "none"]

------------------------------------------------------------------------------
(* Reading the lease and the clock.                                        *)

\* Mutant of FlyLive: a lease that is about to expire counts as expired.
FlyLiveLong == flyLease.nonce # "free" /\ flyLease.left > FlyAllowance

FlyLive == flyLease.nonce # "free" /\ flyLease.left > 0
FlyMine(o) == flyLease.nonce = o /\ flyLease.left > 0

\* required_lease_remaining, for a check that covers work w.
FlyRequired(w) == w + FlyMargin + FlyAllowance

\* What the remembered expiry leaves by the operation's clock.
FlyLeft(o) == flySeen[o] + FlySkew[o]

\* lease_needs_refresh.
FlyNeedsRefresh(o, w) == FlyLeft(o) <= FlyRequired(w) + FlyAllowance

FlyGo(o, where, ticks) ==
    /\ flyPc' = [flyPc EXCEPT ![o] = where]
    /\ flyTimer' = [flyTimer EXCEPT ![o] = ticks]

FlyLeast(m, n) == IF m <= n THEN m ELSE n

FlyAnswer(o, what) == flyTold' = [flyTold EXCEPT ![o] = what]

\* How a call ends: answered, its answer lost, or never carried out.
FlyOutcome(call) ==
    {"answered"} \union IF call \in FlyLoss THEN {"lost", "dropped"} ELSE {}

------------------------------------------------------------------------------
(* lock_acquire: the sentinel is found or made, then leased.  A conflict    *)
(* or a retryable error starts over until the deadline of the request.     *)

FlyAcquire(o) ==
    /\ flyPc[o] = "idle"
    /\ FlyGo(o, "find", 0)
    /\ UNCHANGED <<flySentinel, flyLease, flyLock, flySeen, flyNeed, flyTold>>

\* Create the App, or its Machine, unless somebody else did first; what is
\* there afterwards is decided by looking again.
FlyMakeSentinel(o) ==
    /\ flyPc[o] = "find" /\ flySentinel # "machine"
    /\ \/ flySentinel' = IF flySentinel = "absent" THEN "app" ELSE "machine"
       \/ "sentinel" \in FlyLoss /\ UNCHANGED flySentinel
    /\ UNCHANGED <<flyLease, flyLock, flySeen, flyPc, flyNeed, flyTimer, flyTold>>

\* The wait of the acquisition is over: the deadline has passed.
FlyGiveUp(o) ==
    /\ flyPc[o] = "find"
    /\ FlyGo(o, "done", 0)
    /\ UNCHANGED <<flySentinel, flyLease, flyLock, flySeen, flyNeed, flyTold>>

\* The lease is long enough for the longest bounded call.
FlyTTLSuffices(o) == \A w \in FlyWork : FlyTTL + FlySkew[o] > FlyRequired(w)

\* acquire_lease when nobody holds the sentinel.
FlyTakeLease(o) ==
    /\ flyPc[o] = "find" /\ flySentinel = "machine" /\ ~FlyLive
    /\ \E outcome \in FlyOutcome("acquire") :
        \/ /\ outcome = "answered" /\ FlyTTLSuffices(o)
           /\ flyLease' = [nonce |-> o, left |-> FlyTTL]
           /\ flyLock' = [flyLock EXCEPT ![o] = "held"]
           /\ flySeen' = [flySeen EXCEPT ![o] = FlyTTL]
           /\ FlyGo(o, "owner", 0)
        \* Too short: released again at once, if that call gets through.
        \/ /\ outcome = "answered" /\ ~FlyTTLSuffices(o)
           /\ \E released \in FlyOutcome("release") :
                flyLease' = IF released = "dropped"
                            THEN [nonce |-> "orphan", left |-> FlyTTL]
                            ELSE [nonce |-> "free", left |-> 0]
           /\ FlyGo(o, "done", 0)
           /\ UNCHANGED <<flyLock, flySeen>>
        \* Nobody learns the nonce; the retry finds the sentinel taken.
        \/ /\ outcome = "lost"
           /\ flyLease' = [nonce |-> "orphan", left |-> FlyTTL]
           /\ UNCHANGED <<flyLock, flySeen, flyPc, flyTimer>>
    /\ UNCHANGED <<flySentinel, flyNeed, flyTold>>

------------------------------------------------------------------------------
(* ensure_lock / reassert_held, and the mutation it is asked for.          *)

\* The guards that need no call; then a refresh or a comparison is sent.
FlyCheck(o, w) ==
    /\ flyPc[o] = "owner" /\ flyLock[o] = "held"
    /\ flyNeed' = [flyNeed EXCEPT ![o] = w]
    /\ \/ /\ \/ FlyTTL <= FlyRequired(w)
             \/ FlyNeedsRefresh(o, w) /\ FlyLeft(o) <= FlyAllowance
          /\ FlyAnswer(o, "refused")
          /\ UNCHANGED <<flyPc, flyTimer>>
       \/ /\ FlyTTL > FlyRequired(w)
          /\ FlyNeedsRefresh(o, w) /\ FlyLeft(o) > FlyAllowance
          /\ FlyGo(o, "refresh", FlyCallTime)
          /\ UNCHANGED flyTold
       \/ /\ FlyTTL > FlyRequired(w)
          /\ ~FlyNeedsRefresh(o, w)
          /\ FlyGo(o, "compare", FlyCallTime)
          /\ UNCHANGED flyTold
    /\ UNCHANGED <<flySentinel, flyLease, flyLock, flySeen>>

\* The check has passed: the caller runs its bounded calls.
FlyGranted(o) ==
    /\ FlyGo(o, "mutate", flyNeed[o] + FlyCallTime)
    /\ FlyAnswer(o, "confirmed")
FlyRefused(o) ==
    /\ FlyGo(o, "owner", 0)
    /\ FlyAnswer(o, "refused")

\* Mutant of FlyRefreshed: the answer is believed without its nonce and expiry.
FlyRefreshedBlind(o) ==
    /\ flyPc[o] = "refresh"
    /\ IF FlyMine(o) THEN flyLease' = [flyLease EXCEPT !.left = FlyTTL]
                     ELSE flyLease' = flyLease
    /\ flySeen' = [flySeen EXCEPT ![o] = FlyTTL]
    /\ FlyGranted(o)
    /\ UNCHANGED <<flySentinel, flyLock, flyNeed>>

\* The refresh, which the provider refuses unless the nonce is that of a live
\* lease.  Only an answer moves the remembered expiry.
FlyRefreshed(o) ==
    /\ flyPc[o] = "refresh"
    /\ \E outcome \in FlyOutcome("refresh") :
        \/ /\ outcome = "answered" /\ FlyMine(o)
           /\ flyLease' = [flyLease EXCEPT !.left = FlyTTL]
           /\ \/ /\ FlyTTL + FlySkew[o] > FlyRequired(flyNeed[o])
                 /\ flySeen' = [flySeen EXCEPT ![o] = FlyTTL]
                 /\ FlyGranted(o)
              \/ /\ FlyTTL + FlySkew[o] <= FlyRequired(flyNeed[o])
                 /\ UNCHANGED flySeen
                 /\ FlyRefused(o)
        \/ /\ outcome = "lost" /\ FlyMine(o)
           /\ flyLease' = [flyLease EXCEPT !.left = FlyTTL]
           /\ UNCHANGED flySeen
           /\ FlyRefused(o)
        \/ /\ outcome = "dropped" \/ ~FlyMine(o)
           /\ UNCHANGED <<flyLease, flySeen>>
           /\ FlyRefused(o)
    /\ UNCHANGED <<flySentinel, flyLock, flyNeed>>

\* get_lease names the same nonce, the remembered expiry and enough time.
FlySame(o) ==
    /\ FlyMine(o)
    /\ flyLease.left = flySeen[o]
    /\ flyLease.left + FlySkew[o] > FlyRequired(flyNeed[o])

FlyCompared(o) ==
    /\ flyPc[o] = "compare"
    /\ \/ FlySame(o) /\ FlyGranted(o)
       \/ ("read" \in FlyLoss \/ ~FlySame(o)) /\ FlyRefused(o)
    /\ UNCHANGED <<flySentinel, flyLease, flyLock, flySeen, flyNeed>>

FlyEndMutation(o) ==
    /\ flyPc[o] = "mutate"
    /\ FlyGo(o, IF flyLock[o] = "held" THEN "owner" ELSE "done", 0)
    /\ UNCHANGED <<flySentinel, flyLease, flyLock, flySeen, flyNeed, flyTold>>

------------------------------------------------------------------------------
(* lock_release, the end of the process, and time.                         *)

\* A refusal by the provider (not found, or another nonce) drops the entry as
\* lost; any other failure keeps it for a retry.
FlyRelease(o) ==
    /\ flyPc[o] = "owner" /\ flyLock[o] = "held"
    /\ \E outcome \in FlyOutcome("release") :
        \/ /\ outcome = "answered"
           /\ flyLease' = IF FlyMine(o) THEN [nonce |-> "free", left |-> 0]
                                        ELSE flyLease
           /\ flyLock' = [flyLock EXCEPT ![o] = "gone"]
           /\ FlyAnswer(o, IF FlyMine(o) THEN "released" ELSE "lost")
           /\ FlyGo(o, "done", 0)
        \/ /\ outcome = "lost"
           /\ flyLease' = IF FlyMine(o) THEN [nonce |-> "free", left |-> 0]
                                        ELSE flyLease
           /\ FlyAnswer(o, "error")
           /\ UNCHANGED <<flyLock, flyPc, flyTimer>>
        \/ /\ outcome = "dropped"
           /\ FlyAnswer(o, "error")
           /\ UNCHANGED <<flyLease, flyLock, flyPc, flyTimer>>
    /\ UNCHANGED <<flySentinel, flySeen, flyNeed>>

\* The process dies.  A provider call that it has sent may still be under way.
FlyDie(o) ==
    /\ "die" \in FlyLoss /\ flyPc[o] \notin {"idle", "done"}
    /\ flyPc[o] = "mutate" => flyLock[o] = "held"
    /\ flyLock' = [flyLock EXCEPT ![o] = IF @ = "held" THEN "gone" ELSE @]
    /\ IF flyPc[o] = "mutate"
       THEN FlyGo(o, "mutate", FlyLeast(flyTimer[o], FlyCallTime))
       ELSE FlyGo(o, "done", 0)
    /\ UNCHANGED <<flySentinel, flyLease, flySeen, flyNeed, flyTold>>

FlyTimed == {"refresh", "compare", "mutate"}
FlyDown(n, floor) == IF n > floor THEN n - 1 ELSE floor

\* A call that has used up its time ends before time goes on.
FlyTick ==
    /\ \A o \in Op : flyPc[o] \in FlyTimed => flyTimer[o] > 0
    /\ flyLease' = [flyLease EXCEPT !.left = FlyDown(@, 0)]
    /\ flySeen' = [o \in Op |-> FlyDown(flySeen[o], 0 - FlyMaxSkew)]
    /\ flyTimer' = [o \in Op |-> FlyDown(flyTimer[o], 0)]
    /\ UNCHANGED <<flySentinel, flyLock, flyPc, flyNeed, flyTold>>

FlyLockStep(o) ==
    \/ FlyAcquire(o) \/ FlyMakeSentinel(o) \/ FlyGiveUp(o) \/ FlyTakeLease(o)
    \/ \E w \in FlyWork : FlyCheck(o, w)
    \/ FlyRefreshed(o) \/ FlyCompared(o) \/ FlyEndMutation(o)
    \/ FlyRelease(o) \/ FlyDie(o)

FlyLockNext == FlyTick \/ \E o \in Op : FlyLockStep(o)

FlyLockSpec == FlyLockInit /\ [][FlyLockNext]_flyLockVars

------------------------------------------------------------------------------
(* Properties.                                                             *)

FlyLockTypeOK ==
    /\ flySentinel \in {"absent", "app", "machine"}
    /\ flyLease \in [nonce : Op \union {"free", "orphan"}, left : Nat]
    /\ flyLock \in [Op -> {"none", "held", "gone"}]
    /\ flySeen \in [Op -> Int]
    /\ flyPc \in [Op -> {"idle", "find", "owner", "refresh", "compare",
                         "mutate", "done"}]
    /\ flyNeed \in [Op -> Nat]
    /\ flyTimer \in [Op -> Nat]
    /\ flyTold \in [Op -> {"none", "confirmed", "refused", "released", "lost",
                           "error"}]

\* Two operations never have provider calls in flight at the same time, the
\* calls of a process that has died included (plugin.rs, ensure_lock).
FlyOneMutator ==
    \A o, p \in Op : flyPc[o] = "mutate" /\ flyPc[p] = "mutate" => o = p

\* The lease outlives every call that a check has let through, and the expiry
\* a process remembers for it is never later than the real one.
FlyOutlivesCalls ==
    \A o \in Op : flyPc[o] = "mutate" =>
        FlyMine(o) /\ flyTimer[o] < flyLease.left

\* The lease implements the abstract lock: owners are those whose lease lives.
FlyAuthority == INSTANCE LockAuthority WITH
    owners  <- {o \in Op : flyLock[o] = "held" /\ FlyMine(o)},
    working <- {o \in Op : flyLock[o] = "held" /\ flyPc[o] = "mutate"},
    fenced  <- {o \in Op : flyLock[o] # "none"
                             /\ ~(flyLock[o] = "held" /\ FlyMine(o))}

FlyImplementsLock == FlyAuthority!Spec
=============================================================================
