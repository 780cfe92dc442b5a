------------------------------ MODULE KubeLease ------------------------------
(***************************************************************************)
(* The operation lock of the Kubernetes target plugin: one Lease object in *)
(* the control namespace, taken by the plugin process of an operation,     *)
(* renewed by a heartbeat task of that process and relinquished by it.     *)
(*                                                                         *)
(* Time is discrete and relative: every timer is the number of ticks left, *)
(* so the model has no last instant.  A kubectl child is killed when its   *)
(* timer runs out, and Tick waits for a timer that has reached zero to be  *)
(* served: a process that runs at all runs its timers on time.             *)
(*                                                                         *)
(* resourceVersion is kept by what it decides: a write whose read is still *)
(* fresh (nothing has been written since) is applied, any other conflicts. *)
(***************************************************************************)
EXTENDS Integers, FiniteSets

CONSTANTS
    Op,              \* operations; each is the life of one plugin process
    Released,        \* holderIdentity of a relinquished Lease (the empty string)
    NoLease,         \* the Lease object does not exist yet
    LeaseTime,       \* lease_seconds, already clamped
    CommandTimeout,  \* settings.command_timeout()
    AcquireTimeout,  \* timeout_ms of the acquiring call
    ReassertTimeout, \* timeout_ms of a continuity check
    PollDelay,       \* the wait before a live Lease is tried again
    RoundTrip,       \* the least time any kubectl call takes
    Skew,            \* how far an operation's clock is ahead of the slowest
    MaxSkew,
    Faults           \* whether calls fail and processes die at any time

ASSUME ConstantsAssumption ==
    /\ Released \notin Op /\ NoLease \notin Op /\ Released # NoLease
    /\ LeaseTime \in Nat \ {0}
    /\ CommandTimeout \in Nat \ {0}
    /\ AcquireTimeout \in Nat \ {0}
    /\ ReassertTimeout \in Nat
    /\ PollDelay \in Nat \ {0}
    /\ RoundTrip \in Nat
    /\ MaxSkew \in Nat
    /\ Skew \in [Op -> 0..MaxSkew]
    /\ Faults \in BOOLEAN

Least(a, b) == IF a <= b THEN a ELSE b

\* The clamps of the code never bite at the 60 seconds the core asks for.
Interval == LeaseTime \div 3
HeartbeatTimeout == Least(CommandTimeout, LeaseTime \div 6)

\* The least expiry that is told apart: acquisition compares with a clock that
\* it read before three commands.
Floor == 0 - 3 * CommandTimeout

VARIABLES
    lease,    \* [holder, left]: left is expiry minus the slowest clock
    late,     \* writes of killed commands that may still reach the server
    pc,       \* what the request handler of the process is doing
    timer,    \* ticks until the handler's command is killed or its sleep ends
    budget,   \* ticks until the acquire deadline
    age,      \* ticks since acquisition last read its clock
    sent,     \* the handler's write: none, pending at the server, ok, conflict
    fresh,    \* the handler's write carries the current resourceVersion
    entry,    \* the HeldLock entry: none, held, releasing, gone
    lost,     \* HeldLock.lost
    told,     \* the last answer the core has: to a continuity check or a release
    hb, hbTimer, hbSent, hbFresh   \* the heartbeat task

handlerVars == <<pc, timer, budget, age, sent, fresh>>
entryVars == <<entry, lost, told>>
hbVars == <<hb, hbTimer, hbSent, hbFresh>>
vars == <<lease, late, handlerVars, entryVars, hbVars>>

Acquiring == {"create", "get", "replace", "sleep"}
Writing == {"create", "replace", "relPut"}
Commands == {"create", "get", "replace", "reassert", "assert", "apply",
             "relGet", "relPut"}

Init ==
    /\ lease = [holder |-> NoLease, left |-> Floor]
    /\ late = {}
    /\ pc = [o \in Op |-> "idle"]
    /\ timer = [o \in Op |-> 0]
    /\ budget = [o \in Op |-> 0]
    /\ age = [o \in Op |-> 0]
    /\ sent = [o \in Op |-> "none"]
    /\ fresh = [o \in Op |-> FALSE]
    /\ entry = [o \in Op |-> "none"]
    /\ lost = [o \in Op |-> FALSE]
    /\ told = [o \in Op |-> "none"]
    /\ hb = [o \in Op |-> "off"]
    /\ hbTimer = [o \in Op |-> 0]
    /\ hbSent = [o \in Op |-> "none"]
    /\ hbFresh = [o \in Op |-> FALSE]

------------------------------------------------------------------------------
(* What an operation reads from the Lease, by its own clock.               *)

Held(o) == lease.holder = o
Unexpired(o) == lease.left > Skew[o]
Mine(o) == Held(o) /\ Unexpired(o)

\* The writes: what each one stores, as of now.
AcquireLeft(o) == LeaseTime + Skew[o] - age[o]
RenewLeft(o) == LeaseTime + Skew[o] - (HeartbeatTimeout - hbTimer[o])

HandlerWrite(o) ==
    IF pc[o] = "relPut" THEN [by |-> o, holder |-> Released, left |-> Floor]
                        ELSE [by |-> o, holder |-> o, left |-> AcquireLeft(o)]
HbWrite(o) == [by |-> o, holder |-> o, left |-> RenewLeft(o)]

\* Mutant of Store: writes carry no resourceVersion.
StoreBlind(w) ==
    /\ lease' = [holder |-> w.holder, left |-> w.left]
    /\ late' = late

\* The server stores w; every other outstanding write is now stale.
Store(w) ==
    /\ lease' = [holder |-> w.holder, left |-> w.left]
    /\ late' = {}

\* A killed or failed command whose request the server may still apply.
HandlerLate(o) ==
    IF pc[o] \in Writing /\ sent[o] = "pending" /\ fresh[o]
    THEN {HandlerWrite(o)} ELSE {}
HbLate(o) ==
    IF hb[o] = "put" /\ hbSent[o] = "pending" /\ hbFresh[o] THEN {HbWrite(o)} ELSE {}

------------------------------------------------------------------------------
(* Steps of the handler, as updates of its program counter.                *)

Run(o, where, limit) ==
    /\ pc' = [pc EXCEPT ![o] = where]
    /\ timer' = [timer EXCEPT ![o] = limit]

\* A write command starts: its request is pending at the server.
Send(o, isFresh) ==
    /\ sent' = [sent EXCEPT ![o] = "pending"]
    /\ fresh' = [fresh EXCEPT ![o] = isFresh]
NoSend(o) ==
    /\ sent' = [sent EXCEPT ![o] = "none"]
    /\ fresh' = [fresh EXCEPT ![o] = FALSE]

AcquireLimit(o) == Least(CommandTimeout, budget[o])

\* Mutant of Create: the deadline is computed again on every attempt.
CreateRearmed(o) ==
    /\ Run(o, "create", AcquireLimit(o))
    /\ Send(o, lease.holder = NoLease)
    /\ age' = [age EXCEPT ![o] = 0]
    /\ budget' = [budget EXCEPT ![o] = AcquireTimeout]

\* The top of the acquisition loop: read the clock and try to create.
Create(o) ==
    /\ Run(o, "create", AcquireLimit(o))
    /\ Send(o, lease.holder = NoLease)
    /\ age' = [age EXCEPT ![o] = 0]
    /\ UNCHANGED budget

\* The call ends: not acquired, an error, or a Lease given up.
Finish(o) ==
    /\ Run(o, "ended", 0)
    /\ NoSend(o)
    /\ age' = [age EXCEPT ![o] = 0]
    /\ budget' = [budget EXCEPT ![o] = 0]

LoopTop(o) == IF budget[o] > 0 THEN Create(o) ELSE Finish(o)

\* The handler is between two requests.
Await(o) ==
    /\ Run(o, "owner", 0)
    /\ NoSend(o)
    /\ age' = [age EXCEPT ![o] = 0]
    /\ budget' = [budget EXCEPT ![o] = 0]

\* remember: the entry and its heartbeat task.
Remember(o) ==
    /\ Await(o)
    /\ entry' = [entry EXCEPT ![o] = "held"]
    /\ lost' = [lost EXCEPT ![o] = FALSE]
    /\ told' = [told EXCEPT ![o] = "none"]
    /\ hb' = [hb EXCEPT ![o] = "sleep"]
    /\ hbTimer' = [hbTimer EXCEPT ![o] = Interval]
    /\ hbSent' = [hbSent EXCEPT ![o] = "none"]
    /\ hbFresh' = [hbFresh EXCEPT ![o] = FALSE]

HbStop(o) ==
    /\ hb' = [hb EXCEPT ![o] = "off"]
    /\ hbTimer' = [hbTimer EXCEPT ![o] = 0]
    /\ hbSent' = [hbSent EXCEPT ![o] = "none"]
    /\ hbFresh' = [hbFresh EXCEPT ![o] = FALSE]

------------------------------------------------------------------------------
(* Acquisition.                                                            *)

StartAcquire(o) ==
    /\ pc[o] = "idle"
    /\ budget' = [budget EXCEPT ![o] = AcquireTimeout]
    /\ Run(o, "create", Least(CommandTimeout, AcquireTimeout))
    /\ Send(o, lease.holder = NoLease)
    /\ UNCHANGED <<lease, late, age, entryVars, hbVars>>

\* create or replace reported success.
Acquired(o) ==
    /\ pc[o] \in {"create", "replace"} /\ sent[o] = "ok"
    /\ Remember(o)
    /\ UNCHANGED <<lease, late>>

CreateConflict(o) ==
    /\ pc[o] = "create" /\ sent[o] = "conflict"
    /\ IF budget[o] > 0
       THEN /\ Run(o, "get", AcquireLimit(o))
            /\ NoSend(o)
            /\ UNCHANGED <<age, budget>>
       ELSE Finish(o)
    /\ UNCHANGED <<lease, late, entryVars, hbVars>>

\* The Lease is live by the clock read at the top of the loop: wait, or give
\* up at the deadline.  A Lease of our own operation is never waited for.
FoundLive(o) ==
    /\ pc[o] = "get"
    /\ Held(o) \/ lease.left > Skew[o] - age[o]
    /\ IF Held(o) \/ budget[o] = 0
       THEN Finish(o)
       ELSE /\ Run(o, "sleep", Least(PollDelay, budget[o]))
            /\ NoSend(o)
            /\ UNCHANGED <<age, budget>>
    /\ UNCHANGED <<lease, late, entryVars, hbVars>>

\* Mutant of FoundExpired: the Lease is replaced without a look at its expiry.
FoundAny(o) ==
    /\ pc[o] = "get" /\ ~Held(o)
    /\ IF budget[o] > 0
       THEN /\ Run(o, "replace", AcquireLimit(o))
            /\ Send(o, TRUE)
            /\ UNCHANGED <<age, budget>>
       ELSE Finish(o)
    /\ UNCHANGED <<lease, late, entryVars, hbVars>>

FoundExpired(o) ==
    /\ pc[o] = "get"
    /\ ~Held(o) /\ lease.left <= Skew[o] - age[o]
    /\ IF budget[o] > 0
       THEN /\ Run(o, "replace", AcquireLimit(o))
            /\ Send(o, TRUE)
            /\ UNCHANGED <<age, budget>>
       ELSE Finish(o)
    /\ UNCHANGED <<lease, late, entryVars, hbVars>>

Wake(o) ==
    /\ pc[o] = "sleep" /\ timer[o] = 0
    /\ LoopTop(o)
    /\ UNCHANGED <<lease, late, entryVars, hbVars>>

ReplaceConflict(o) ==
    /\ pc[o] = "replace" /\ sent[o] = "conflict"
    /\ LoopTop(o)
    /\ UNCHANGED <<lease, late, entryVars, hbVars>>

\* A command of the acquisition fails or is killed: the call ends in an error.
AcquireFails(o) ==
    /\ pc[o] \in {"create", "get", "replace"}
    /\ Faults \/ timer[o] = 0
    /\ late' = late \union HandlerLate(o)
    /\ Finish(o)
    /\ UNCHANGED <<lease, entryVars, hbVars>>

------------------------------------------------------------------------------
(* The continuity check (reacquire): the core asks before every mutation.  *)

StartReassert(o) ==
    /\ pc[o] = "owner" /\ entry[o] = "held" /\ ~lost[o]
    /\ Run(o, "reassert", Least(CommandTimeout, ReassertTimeout))
    /\ told' = [told EXCEPT ![o] = "none"]
    /\ UNCHANGED <<lease, late, budget, age, sent, fresh, entry, lost, hbVars>>

\* The Lease was read.  What it says decides, not what the heartbeat found
\* meanwhile.  A call that takes a RoundTrip cannot answer a shorter deadline.
ReassertAnswer(o) ==
    /\ pc[o] = "reassert"
    /\ Least(CommandTimeout, ReassertTimeout) >= RoundTrip
    /\ Await(o)
    /\ told' = [told EXCEPT ![o] = IF Mine(o) THEN "confirmed" ELSE "denied"]
    /\ lost' = [lost EXCEPT ![o] = @ \/ ~Mine(o)]
    /\ UNCHANGED <<lease, late, entry, hbVars>>

ReassertFails(o) ==
    /\ pc[o] = "reassert"
    /\ Faults \/ timer[o] = 0
    /\ Await(o)
    /\ told' = [told EXCEPT ![o] = "denied"]
    /\ UNCHANGED <<lease, late, entry, lost, hbVars>>

------------------------------------------------------------------------------
(* A mutating request: each phase of it asserts authority, then runs one   *)
(* kubectl apply that the heartbeat can cancel.                            *)

StartAssert(o) ==
    /\ pc[o] = "owner" /\ told[o] = "confirmed"
    /\ entry[o] = "held" /\ ~lost[o]
    /\ Run(o, "assert", HeartbeatTimeout)
    /\ told' = [told EXCEPT ![o] = "none"]
    /\ UNCHANGED <<lease, late, budget, age, sent, fresh, entry, lost, hbVars>>

\* Cancellation is latched: after a heartbeat that failed meanwhile the apply
\* is killed as it starts.
AssertAnswer(o) ==
    /\ pc[o] = "assert"
    /\ IF Mine(o) /\ ~lost[o] THEN Run(o, "apply", CommandTimeout) ELSE Run(o, "owner", 0)
    /\ lost' = [lost EXCEPT ![o] = @ \/ ~Mine(o)]
    /\ UNCHANGED <<lease, late, budget, age, sent, fresh, entry, told, hbVars>>

AssertFails(o) ==
    /\ pc[o] = "assert"
    /\ Faults \/ timer[o] = 0
    /\ Run(o, "owner", 0)
    /\ UNCHANGED <<lease, late, budget, age, sent, fresh, entryVars, hbVars>>

\* The next phase of the same request asserts authority again.
NextPhase(o) ==
    /\ pc[o] = "apply" /\ ~lost[o]
    /\ Run(o, "assert", HeartbeatTimeout)
    /\ UNCHANGED <<lease, late, budget, age, sent, fresh, entryVars, hbVars>>

ApplyEnds(o) ==
    /\ pc[o] = "apply"
    /\ Run(o, "owner", 0)
    /\ UNCHANGED <<lease, late, budget, age, sent, fresh, entryVars, hbVars>>

------------------------------------------------------------------------------
(* Release: the heartbeat is aborted first, the entry goes when the Lease  *)
(* has been relinquished or turns out to be somebody else's.               *)

\* Mutant of StartRelease: the heartbeat task is not aborted.
StartReleaseUnaborted(o) ==
    /\ pc[o] = "owner" /\ entry[o] \in {"held", "releasing"}
    /\ entry' = [entry EXCEPT ![o] = "releasing"]
    /\ Run(o, "relGet", CommandTimeout)
    /\ NoSend(o)
    /\ told' = [told EXCEPT ![o] = "none"]
    /\ UNCHANGED <<lease, late, budget, age, lost, hbVars>>

StartRelease(o) ==
    /\ pc[o] = "owner" /\ entry[o] \in {"held", "releasing"}
    /\ entry' = [entry EXCEPT ![o] = "releasing"]
    /\ Run(o, "relGet", CommandTimeout)
    /\ NoSend(o)
    /\ told' = [told EXCEPT ![o] = "none"]
    /\ late' = late \union HbLate(o)
    /\ HbStop(o)
    /\ UNCHANGED <<lease, budget, age, lost>>

ReleaseRead(o) ==
    /\ pc[o] = "relGet"
    /\ IF Held(o)
       THEN /\ Run(o, "relPut", CommandTimeout)
            /\ Send(o, TRUE)
            /\ UNCHANGED <<age, budget, entry, told>>
       ELSE /\ Finish(o)
            /\ entry' = [entry EXCEPT ![o] = "gone"]
            /\ told' = [told EXCEPT ![o] = "refused"]
    /\ UNCHANGED <<lease, late, lost, hbVars>>

ReleaseDone(o) ==
    /\ pc[o] = "relPut" /\ sent[o] = "ok"
    /\ Finish(o)
    /\ entry' = [entry EXCEPT ![o] = "gone"]
    /\ told' = [told EXCEPT ![o] = "released"]
    /\ UNCHANGED <<lease, late, lost, hbVars>>

\* The entry stays, marked releasing, and the core may ask again.
ReleaseFails(o) ==
    /\ pc[o] \in {"relGet", "relPut"}
    /\ Faults \/ timer[o] = 0 \/ sent[o] = "conflict"
    /\ late' = late \union HandlerLate(o)
    /\ Await(o)
    /\ UNCHANGED <<lease, entryVars, hbVars>>

------------------------------------------------------------------------------
(* The heartbeat task.                                                     *)

HbRun(o, where, limit) ==
    /\ hb' = [hb EXCEPT ![o] = where]
    /\ hbTimer' = [hbTimer EXCEPT ![o] = limit]

HbWake(o) ==
    /\ hb[o] = "sleep" /\ hbTimer[o] = 0
    /\ HbRun(o, "get", HeartbeatTimeout)
    /\ UNCHANGED <<lease, late, handlerVars, entryVars, hbSent, hbFresh>>

\* renew checks who holds the Lease, not whether it has expired.
HbRead(o) ==
    /\ hb[o] = "get" /\ Held(o)
    /\ HbRun(o, "put", HeartbeatTimeout)
    /\ hbSent' = [hbSent EXCEPT ![o] = "pending"]
    /\ hbFresh' = [hbFresh EXCEPT ![o] = TRUE]
    /\ UNCHANGED <<lease, late, handlerVars, entryVars>>

HbRenewed(o) ==
    /\ hb[o] = "put" /\ hbSent[o] = "ok"
    /\ HbRun(o, "sleep", Interval)
    /\ hbSent' = [hbSent EXCEPT ![o] = "none"]
    /\ hbFresh' = [hbFresh EXCEPT ![o] = FALSE]
    /\ UNCHANGED <<lease, late, handlerVars, entryVars>>

\* Mutants of HbFails: the failure is not noted, or the apply is not cancelled.
HbFailsUnnoted(o) ==
    /\ hb[o] \in {"get", "put"}
    /\ Faults \/ hbTimer[o] = 0
    /\ late' = late \union HbLate(o)
    /\ HbStop(o)
    /\ UNCHANGED <<lease, handlerVars, entryVars>>
HbFailsUncancelled(o) ==
    /\ hb[o] \in {"get", "put"}
    /\ Faults \/ hbTimer[o] = 0
    /\ lost' = [lost EXCEPT ![o] = TRUE]
    /\ late' = late \union HbLate(o)
    /\ HbStop(o)
    /\ UNCHANGED <<lease, handlerVars, entry, told>>

\* Any error of renew: authority is given up for good and the running apply
\* is cancelled.
HbFails(o) ==
    /\ \/ hb[o] = "get" /\ (Faults \/ ~Held(o))
       \/ hb[o] = "put" /\ (Faults \/ hbSent[o] = "conflict")
       \/ hb[o] \in {"get", "put"} /\ hbTimer[o] = 0
    /\ lost' = [lost EXCEPT ![o] = TRUE]
    /\ late' = late \union HbLate(o)
    /\ HbStop(o)
    /\ IF pc[o] = "apply" THEN Run(o, "owner", 0) ELSE UNCHANGED <<pc, timer>>
    /\ UNCHANGED <<lease, budget, age, sent, fresh, entry, told>>

------------------------------------------------------------------------------
(* The process ends or dies: its children are killed with it.              *)

Exit(o) ==
    /\ Faults
    /\ pc[o] \notin {"idle", "ended"}
    /\ late' = late \union HandlerLate(o) \union HbLate(o)
    /\ Finish(o)
    /\ entry' = [entry EXCEPT ![o] = IF @ = "none" THEN "none" ELSE "gone"]
    /\ HbStop(o)
    /\ UNCHANGED <<lease, lost, told>>

------------------------------------------------------------------------------
(* The API server applies requests, each at a moment of its own.           *)

HandlerLands(o) ==
    /\ pc[o] \in Writing /\ sent[o] = "pending"
    /\ IF fresh[o]
       THEN /\ Store(HandlerWrite(o))
            /\ sent' = [sent EXCEPT ![o] = "ok"]
            /\ fresh' = [p \in Op |-> FALSE]
            /\ hbFresh' = [p \in Op |-> FALSE]
       ELSE /\ sent' = [sent EXCEPT ![o] = "conflict"]
            /\ UNCHANGED <<lease, late, fresh, hbFresh>>
    /\ UNCHANGED <<pc, timer, budget, age, entryVars, hb, hbTimer, hbSent>>

HbLands(o) ==
    /\ hb[o] = "put" /\ hbSent[o] = "pending"
    /\ IF hbFresh[o]
       THEN /\ Store(HbWrite(o))
            /\ hbSent' = [hbSent EXCEPT ![o] = "ok"]
            /\ fresh' = [p \in Op |-> FALSE]
            /\ hbFresh' = [p \in Op |-> FALSE]
       ELSE /\ hbSent' = [hbSent EXCEPT ![o] = "conflict"]
            /\ UNCHANGED <<lease, late, fresh, hbFresh>>
    /\ UNCHANGED <<pc, timer, budget, age, sent, entryVars, hb, hbTimer>>

LateLands(w) ==
    /\ Store(w)
    /\ fresh' = [p \in Op |-> FALSE]
    /\ hbFresh' = [p \in Op |-> FALSE]
    /\ UNCHANGED <<pc, timer, budget, age, sent, entryVars, hb, hbTimer, hbSent>>

------------------------------------------------------------------------------
(* Time.                                                                   *)

\* Mutant of Lower: the remaining time does not saturate.
LowerUnbounded(n, bound) == n - 1

Lower(n, bound) == IF n > bound THEN n - 1 ELSE bound

Due(o) ==
    \/ pc[o] \in Commands \union {"sleep"} /\ timer[o] = 0
    \/ hb[o] # "off" /\ hbTimer[o] = 0

Tick ==
    /\ \A o \in Op : ~Due(o)
    /\ lease' = [lease EXCEPT !.left = Lower(@, Floor)]
    /\ late' = {[w EXCEPT !.left = Lower(@, Floor)] : w \in late}
    /\ timer' = [o \in Op |-> Lower(timer[o], 0)]
    /\ budget' = [o \in Op |-> Lower(budget[o], 0)]
    /\ age' = [o \in Op |-> IF pc[o] \in Acquiring THEN age[o] + 1 ELSE 0]
    /\ hbTimer' = [o \in Op |-> Lower(hbTimer[o], 0)]
    /\ UNCHANGED <<pc, sent, fresh, entryVars, hb, hbSent, hbFresh>>

------------------------------------------------------------------------------

Acquire(o) ==
    \/ Acquired(o) \/ CreateConflict(o) \/ FoundLive(o) \/ FoundExpired(o)
    \/ Wake(o) \/ ReplaceConflict(o) \/ AcquireFails(o)

Reassert(o) == ReassertAnswer(o) \/ ReassertFails(o)
Mutate(o) == AssertAnswer(o) \/ AssertFails(o) \/ NextPhase(o) \/ ApplyEnds(o)
Release(o) == ReleaseRead(o) \/ ReleaseDone(o) \/ ReleaseFails(o)
Heartbeat(o) == HbWake(o) \/ HbRead(o) \/ HbRenewed(o) \/ HbFails(o)
Server(o) == HandlerLands(o) \/ HbLands(o)

Next ==
    \/ \E o \in Op :
          \/ StartAcquire(o) \/ Acquire(o)
          \/ StartReassert(o) \/ Reassert(o)
          \/ StartAssert(o) \/ Mutate(o)
          \/ StartRelease(o) \/ Release(o)
          \/ Heartbeat(o) \/ Exit(o) \/ Server(o)
    \/ \E w \in late : LateLands(w)
    \/ Tick

Spec == Init /\ [][Next]_vars

\* A started request runs on; the requests themselves, faults and deaths are
\* the environment's.  Calls that take no time never stop the clock for ever.
Fairness ==
    /\ \A o \in Op : /\ WF_vars(Acquire(o) \/ Reassert(o) \/ Mutate(o) \/ Release(o))
                     /\ WF_vars(Heartbeat(o)) /\ WF_vars(Server(o))
    /\ SF_vars(Tick)

FairSpec == Spec /\ Fairness
------------------------------------------------------------------------------
(* Properties.                                                             *)

Believes(o) == entry[o] = "held" /\ ~lost[o]

Where == {"idle", "owner", "ended"} \union Acquiring \union Commands
WriteStatus == {"none", "pending", "ok", "conflict"}
Writes == [by : Op, holder : Op \union {Released}, left : Int]

HandlerType ==
    /\ pc \in [Op -> Where]
    /\ timer \in [Op -> Nat] /\ budget \in [Op -> Nat] /\ age \in [Op -> Nat]
    /\ sent \in [Op -> WriteStatus]
    /\ fresh \in [Op -> BOOLEAN]

EntryType ==
    /\ entry \in [Op -> {"none", "held", "releasing", "gone"}]
    /\ lost \in [Op -> BOOLEAN]
    /\ told \in [Op -> {"none", "confirmed", "denied", "released", "refused"}]

HbType ==
    /\ hb \in [Op -> {"off", "sleep", "get", "put"}]
    /\ hbTimer \in [Op -> Nat]
    /\ hbSent \in [Op -> WriteStatus]
    /\ hbFresh \in [Op -> BOOLEAN]

\* Type invariant of the Lease, the writes on their way to it, the handlers,
\* the lock map and the heartbeats.
TypeOK ==
    /\ lease \in [holder : Op \union {Released, NoLease}, left : Int]
    /\ late \subseteq Writes
    /\ HandlerType /\ EntryType /\ HbType

\* Two operations never have a kubectl apply in flight at the same time: what
\* the Lease, its heartbeat and the assertions before each phase are for.
OneMutator ==
    \A o, p \in Op : pc[o] = "apply" /\ pc[p] = "apply" => o = p

\* Whoever holds an entry that is not marked lost holds a Lease that no other
\* clock sees expired: a heartbeat that is late, slow or refused gives
\* authority up before anybody else can take it.
OwnerHasAuthority ==
    \A o \in Op : Believes(o) => lease.holder = o /\ lease.left > MaxSkew

\* An operation that had the Lease and has it no longer never gets it back,
\* whatever its killed commands still do at the server: a release is not
\* undone by a heartbeat that was in flight.
NeverRegained ==
    [][\A o \in Op : entry[o] # "none" /\ lease.holder # o => lease'.holder # o]_vars

\* Every acquiring call returns: conflicts, waits and renewals by others end
\* at the deadline of the call.
AcquireSettles == \A o \in Op : pc[o] \in Acquiring ~> pc[o] \notin Acquiring

\* A Lease left behind by a process that died, or that failed to release it,
\* becomes free: nothing goes on renewing it.
OrphanExpires ==
    \A o \in Op : entry[o] \in {"releasing", "gone"} /\ lease.holder = o
                    ~> lease.holder # o \/ lease.left <= 0

\* The Lease implements the abstract lock.
Authority == INSTANCE LockAuthority WITH
    owners  <- {o \in Op : Believes(o)},
    working <- {o \in Op : pc[o] = "apply"},
    fenced  <- {o \in Op : entry[o] # "none" /\ ~Believes(o)}

ImplementsLock == Authority!Spec

\* docs/architecture.md: same-owner reacquisition returns the same token.  A
\* continuity check made while the Lease is the operation's own and live says so.
IntactAuthorityConfirmed ==
    [][\A o \in Op : pc[o] = "reassert" /\ pc'[o] = "owner" /\ Mine(o)
                      => told'[o] = "confirmed"]_vars
=============================================================================
