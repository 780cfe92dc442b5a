--------------------------- MODULE KubeLeaseProofs ---------------------------
(***************************************************************************)
(* The Lease is a lock when its times fit together (SafeTiming): an expiry *)
(* that was computed before the commands of an acquisition still outlives  *)
(* the first heartbeat, and every renewal outlives the next one.           *)
(***************************************************************************)
EXTENDS KubeLease, TLAPS

SafeTiming ==
    /\ LeaseTime - AcquireTimeout > MaxSkew + Interval + 2 * HeartbeatTimeout
    /\ LeaseTime - HeartbeatTimeout > MaxSkew + Interval + 2 * HeartbeatTimeout

------------------------------------------------------------------------------
(* The inductive invariant.                                                *)

\* The clock read at the top of the acquisition loop is no older than the call.
AcquireClock(o) ==
    /\ pc[o] = "idle" => age[o] = 0
    /\ pc[o] \in Acquiring => timer[o] <= budget[o] /\ age[o] + budget[o] <= AcquireTimeout
    /\ pc[o] \in Acquiring \union {"idle"} => entry[o] = "none"
    /\ sent[o] = "ok" /\ pc[o] \in {"create", "replace"} =>
          lease.holder = o /\ lease.left >= LeaseTime - age[o]

\* An owner that believes in its Lease is ahead of its expiry by the time the
\* heartbeat may still take.
OwnerMargin(o) ==
    Believes(o) =>
        /\ lease.holder = o
        /\ hb[o] # "off"
        /\ hb[o] = "sleep" => lease.left > MaxSkew + hbTimer[o] + 2 * HeartbeatTimeout
        /\ hb[o] = "get" => lease.left > MaxSkew + hbTimer[o] + HeartbeatTimeout
        /\ hb[o] = "put" /\ hbSent[o] # "ok" => lease.left > MaxSkew + hbTimer[o]
        /\ hb[o] = "put" /\ hbSent[o] = "ok" =>
              lease.left >= LeaseTime - HeartbeatTimeout + hbTimer[o]

HeartbeatOwned(o) ==
    /\ hb[o] # "off" => entry[o] = "held"
    /\ hb[o] = "put" => hbTimer[o] <= HeartbeatTimeout
    /\ hbFresh[o] => hb[o] = "put" /\ lease.holder = o

\* A write that the server would apply takes nothing from a live owner.
FreshWrite(o) ==
    fresh[o] =>
        /\ pc[o] \in Writing
        /\ pc[o] = "create" => lease.holder = NoLease
        /\ pc[o] = "replace" => lease.left <= MaxSkew
        /\ pc[o] = "relPut" => lease.holder = o

HandlerEntry(o) ==
    /\ pc[o] \in {"relGet", "relPut"} => entry[o] = "releasing"
    /\ pc[o] \in {"assert", "reassert"} => entry[o] = "held"
    /\ pc[o] = "apply" => Believes(o)
    /\ pc[o] = "owner" => entry[o] # "none"

LateWrite(w) ==
    \/ lease.holder = NoLease
    \/ lease.left <= MaxSkew
    \/ lease.holder = w.by /\ entry[w.by] # "none" /\ ~Believes(w.by)

OpInv(o) == /\ AcquireClock(o) /\ OwnerMargin(o) /\ HeartbeatOwned(o)
            /\ FreshWrite(o) /\ HandlerEntry(o)

IInv ==
    /\ TypeOK
    /\ \A o \in Op : OpInv(o)
    /\ \A w \in late : LateWrite(w)

------------------------------------------------------------------------------
(* Types.                                                                  *)

\* The derived times are what the timers range over.
LEMMA Times ==
    /\ Interval \in Nat /\ HeartbeatTimeout \in Nat
    /\ Floor \in Int /\ Floor <= 0
    /\ \A a, b \in Nat : Least(a, b) \in Nat
    /\ \A a, b \in Int : a >= b => Lower(a, b) \in Int /\ Lower(a, b) >= b
BY ConstantsAssumption DEF ConstantsAssumption, Interval, HeartbeatTimeout, Floor,
   Least, Lower

\* The updates of a handler keep its types.
LEMMA RunType ==
    ASSUME HandlerType, NEW o \in Op, NEW w \in Where, NEW n \in Nat, Run(o, w, n)
    PROVE  pc' \in [Op -> Where] /\ timer' \in [Op -> Nat]
BY DEF HandlerType, Run

\* Starting a write, or having none, keeps the types of the write's status.
LEMMA SendType ==
    ASSUME HandlerType, NEW o \in Op, NEW b \in BOOLEAN, Send(o, b) \/ NoSend(o)
    PROVE  sent' \in [Op -> WriteStatus] /\ fresh' \in [Op -> BOOLEAN]
BY DEF HandlerType, Send, NoSend, WriteStatus

\* Ending a call, or waiting for the next request, keeps the handlers' types.
LEMMA FinishType ==
    ASSUME HandlerType, NEW o \in Op, Finish(o) \/ Await(o)
    PROVE  HandlerType'
<1>1. {"ended", "owner"} \subseteq Where BY DEF Where
<1>2. pc' \in [Op -> Where] /\ timer' \in [Op -> Nat]
  BY <1>1, RunType DEF Finish, Await
<1>3. sent' \in [Op -> WriteStatus] /\ fresh' \in [Op -> BOOLEAN]
  BY SendType DEF Finish, Await
<1> QED
  BY <1>2, <1>3 DEF HandlerType, Finish, Await

\* Another attempt of the acquisition, or its end, keeps the handlers' types.
LEMMA LoopTopType ==
    ASSUME HandlerType, NEW o \in Op, LoopTop(o)
    PROVE  HandlerType'
<1>1. CASE Finish(o) BY <1>1, FinishType
<1>2. CASE Create(o)
  <2>1. AcquireLimit(o) \in Nat /\ "create" \in Where
    BY ConstantsAssumption, Times
       DEF AcquireLimit, HandlerType, ConstantsAssumption, Where, Acquiring
  <2>2. pc' \in [Op -> Where] /\ timer' \in [Op -> Nat]
    BY <1>2, <2>1, RunType DEF Create
  <2>3. sent' \in [Op -> WriteStatus] /\ fresh' \in [Op -> BOOLEAN]
    BY <1>2, SendType DEF Create
  <2> QED
    BY <1>2, <2>2, <2>3 DEF HandlerType, Create
<1> QED
  BY <1>1, <1>2 DEF LoopTop

\* A step of the acquisition goes on, or the call ends.
LEMMA GoOnType ==
    ASSUME HandlerType, NEW o \in Op, NEW w \in Where, NEW n \in Nat,
           NEW b \in BOOLEAN, Run(o, w, n), Send(o, b) \/ NoSend(o),
           UNCHANGED <<age, budget>>
    PROVE  HandlerType'
<1>1. pc' \in [Op -> Where] /\ timer' \in [Op -> Nat]
  BY RunType
<1>2. sent' \in [Op -> WriteStatus] /\ fresh' \in [Op -> BOOLEAN]
  BY SendType
<1> QED
  BY <1>1, <1>2 DEF HandlerType

\* The writes of a handler and a heartbeat, and what a killed command leaves behind.
LEMMA WriteInType ==
    ASSUME TypeOK, NEW o \in Op
    PROVE  HandlerWrite(o) \in Writes /\ HbWrite(o) \in Writes
<1>1. /\ Skew[o] \in Int /\ age[o] \in Int /\ hbTimer[o] \in Int
      /\ LeaseTime \in Int /\ HeartbeatTimeout \in Int /\ Floor \in Int
  BY ConstantsAssumption, Times DEF ConstantsAssumption, TypeOK, HandlerType, HbType
<1>2. AcquireLeft(o) \in Int /\ RenewLeft(o) \in Int
  BY <1>1 DEF AcquireLeft, RenewLeft
<1> QED
  BY <1>1, <1>2 DEF HandlerWrite, HbWrite, Writes

\* Whatever a killed command leaves behind is a write.
LEMMA LateType ==
    ASSUME TypeOK, NEW o \in Op
    PROVE  HandlerLate(o) \subseteq Writes /\ HbLate(o) \subseteq Writes
BY WriteInType DEF HandlerLate, HbLate

\* A stored write leaves a Lease of the right type.
LEMMA StoreType ==
    ASSUME NEW w \in Writes, Store(w)
    PROVE  /\ lease' \in [holder : Op \union {Released, NoLease}, left : Int]
           /\ late' \subseteq Writes
BY DEF Store, Writes

\* Aborting the heartbeat keeps its types.
LEMMA HbRunType ==
    ASSUME HbType, NEW o \in Op, HbStop(o)
    PROVE  HbType'
BY DEF HbType, HbStop, WriteStatus

\* Every step keeps the types of the Lease, the handlers and the heartbeats.
LEMMA AcquireTypes ==
    ASSUME TypeOK, NEW o \in Op, StartAcquire(o) \/ Acquire(o)
    PROVE  TypeOK'
<1> USE DEF TypeOK
<1>1. /\ {"create", "get", "replace", "sleep"} \subseteq Where
      /\ AcquireLimit(o) \in Nat /\ Least(PollDelay, budget[o]) \in Nat
      /\ Least(CommandTimeout, AcquireTimeout) \in Nat
      /\ (lease.holder = NoLease) \in BOOLEAN /\ Interval \in Nat
  BY ConstantsAssumption, Times
     DEF ConstantsAssumption, Where, Acquiring, AcquireLimit, HandlerType
<1>2. CASE StartAcquire(o)
  <2>1. pc' \in [Op -> Where] /\ timer' \in [Op -> Nat]
    BY <1>1, <1>2, RunType DEF StartAcquire
  <2>2. sent' \in [Op -> WriteStatus] /\ fresh' \in [Op -> BOOLEAN]
    BY <1>1, <1>2, SendType DEF StartAcquire
  <2> QED
    BY <1>2, <2>1, <2>2, ConstantsAssumption
       DEF StartAcquire, ConstantsAssumption, HandlerType, EntryType, HbType,
           entryVars, hbVars
<1>3. CASE Acquired(o)
  <2>1. HandlerType' BY <1>3, FinishType DEF Acquired, Remember
  <2>2. EntryType' BY <1>3 DEF Acquired, Remember, EntryType
  <2>3. HbType' BY <1>1, <1>3 DEF Acquired, Remember, HbType, WriteStatus
  <2> QED BY <1>3, <2>1, <2>2, <2>3 DEF Acquired
<1>4. CASE CreateConflict(o) \/ FoundLive(o) \/ FoundExpired(o)
  <2>1. HandlerType'
    BY <1>1, <1>4, FinishType, GoOnType DEF CreateConflict, FoundLive, FoundExpired
  <2> QED
    BY <1>4, <2>1 DEF CreateConflict, FoundLive, FoundExpired, EntryType, HbType,
                      entryVars, hbVars
<1>5. CASE Wake(o) \/ ReplaceConflict(o)
  <2>1. HandlerType' BY <1>5, LoopTopType DEF Wake, ReplaceConflict
  <2> QED
    BY <1>5, <2>1 DEF Wake, ReplaceConflict, EntryType, HbType, entryVars, hbVars
<1>6. CASE AcquireFails(o)
  <2>1. HandlerType' BY <1>6, FinishType DEF AcquireFails
  <2>2. late' \subseteq Writes BY <1>6, LateType DEF AcquireFails
  <2> QED
    BY <1>6, <2>1, <2>2 DEF AcquireFails, EntryType, HbType, entryVars, hbVars
<1> QED
  BY <1>2, <1>3, <1>4, <1>5, <1>6 DEF Acquire

\* The same for continuity checks and mutations (reacquire, assert_authority).
LEMMA OwnerTypes ==
    ASSUME TypeOK, NEW o \in Op,
           StartReassert(o) \/ Reassert(o) \/ StartAssert(o) \/ Mutate(o)
    PROVE  TypeOK'
<1> USE DEF TypeOK
<1>1. /\ {"reassert", "assert", "apply", "owner"} \subseteq Where
      /\ Least(CommandTimeout, ReassertTimeout) \in Nat
      /\ CommandTimeout \in Nat /\ HeartbeatTimeout \in Nat /\ 0 \in Nat
  BY ConstantsAssumption, Times DEF ConstantsAssumption, Where, Commands
<1>2. CASE StartReassert(o)
  <2>1. pc' \in [Op -> Where] /\ timer' \in [Op -> Nat]
    BY <1>1, <1>2, RunType DEF StartReassert
  <2> QED BY <1>2, <2>1 DEF StartReassert, HandlerType, EntryType, HbType, hbVars
<1>3. CASE Reassert(o)
  <2>1. HandlerType'
    BY <1>3, FinishType DEF Reassert, ReassertAnswer, ReassertFails
  <2>2. EntryType'
    BY <1>3 DEF Reassert, ReassertAnswer, ReassertFails, EntryType, Mine, Held, Unexpired
  <2> QED
    BY <1>3, <2>1, <2>2 DEF Reassert, ReassertAnswer, ReassertFails, HbType, hbVars
<1>4. CASE StartAssert(o)
  <2>1. pc' \in [Op -> Where] /\ timer' \in [Op -> Nat]
    BY <1>1, <1>4, RunType DEF StartAssert
  <2> QED BY <1>4, <2>1 DEF StartAssert, HandlerType, EntryType, HbType, hbVars
<1>5. CASE Mutate(o)
  <2>1. pc' \in [Op -> Where] /\ timer' \in [Op -> Nat]
    BY <1>1, <1>5, RunType DEF Mutate, AssertAnswer, AssertFails, NextPhase, ApplyEnds
  <2>2. EntryType'
    BY <1>5 DEF Mutate, AssertAnswer, AssertFails, NextPhase, ApplyEnds, EntryType,
                entryVars, Mine, Held, Unexpired
  <2> QED
    BY <1>5, <2>1, <2>2
       DEF Mutate, AssertAnswer, AssertFails, NextPhase, ApplyEnds, HandlerType,
           HbType, hbVars
<1> QED
  BY <1>2, <1>3, <1>4, <1>5

\* The same for release.
LEMMA ReleaseTypes ==
    ASSUME TypeOK, NEW o \in Op, StartRelease(o) \/ Release(o) \/ Exit(o)
    PROVE  TypeOK'
<1> USE DEF TypeOK
<1>1. {"relGet", "relPut"} \subseteq Where /\ CommandTimeout \in Nat
  BY ConstantsAssumption DEF ConstantsAssumption, Where, Commands
<1>2. CASE StartRelease(o)
  <2>1. pc' \in [Op -> Where] /\ timer' \in [Op -> Nat]
    BY <1>1, <1>2, RunType DEF StartRelease
  <2>2. sent' \in [Op -> WriteStatus] /\ fresh' \in [Op -> BOOLEAN]
    BY <1>2, SendType DEF StartRelease
  <2>3. late' \subseteq Writes /\ HbType'
    BY <1>2, LateType, HbRunType DEF StartRelease
  <2> QED BY <1>2, <2>1, <2>2, <2>3 DEF StartRelease, HandlerType, EntryType
<1>3. CASE ReleaseRead(o)
  <2>1. HandlerType'
    BY <1>1, <1>3, FinishType, GoOnType DEF ReleaseRead
  <2>2. EntryType' BY <1>3 DEF ReleaseRead, EntryType
  <2> QED BY <1>3, <2>1, <2>2 DEF ReleaseRead, HbType, hbVars
<1>4. CASE ReleaseDone(o)
  <2>1. HandlerType' BY <1>4, FinishType DEF ReleaseDone
  <2>2. EntryType' BY <1>4 DEF ReleaseDone, EntryType
  <2> QED BY <1>4, <2>1, <2>2 DEF ReleaseDone, HbType, hbVars
<1>5. CASE ReleaseFails(o)
  <2>1. HandlerType' BY <1>5, FinishType DEF ReleaseFails
  <2>2. late' \subseteq Writes BY <1>5, LateType DEF ReleaseFails
  <2> QED
    BY <1>5, <2>1, <2>2 DEF ReleaseFails, EntryType, HbType, entryVars, hbVars
<1>6. CASE Exit(o)
  <2>1. HandlerType' BY <1>6, FinishType DEF Exit
  <2>2. late' \subseteq Writes /\ HbType' BY <1>6, LateType, HbRunType DEF Exit
  <2>3. EntryType' BY <1>6 DEF Exit, EntryType
  <2> QED BY <1>6, <2>1, <2>2, <2>3 DEF Exit
<1> QED
  BY <1>2, <1>3, <1>4, <1>5, <1>6 DEF Release

\* The same for the heartbeat task and the death of the process.
LEMMA HeartbeatTypes ==
    ASSUME TypeOK, NEW o \in Op, Heartbeat(o)
    PROVE  TypeOK'
<1> USE DEF TypeOK
<1>1. Interval \in Nat /\ HeartbeatTimeout \in Nat /\ "owner" \in Where /\ 0 \in Nat
  BY Times DEF Where
<1>2. CASE HbWake(o)
  BY <1>1, <1>2 DEF HbWake, HbRun, HbType, HandlerType, EntryType, handlerVars, entryVars
<1>3. CASE HbRead(o)
  BY <1>1, <1>3 DEF HbRead, HbRun, HbType, HandlerType, EntryType, handlerVars,
                    entryVars, WriteStatus
<1>4. CASE HbRenewed(o)
  BY <1>1, <1>4 DEF HbRenewed, HbRun, HbType, HandlerType, EntryType, handlerVars,
                    entryVars, WriteStatus
<1>5. CASE HbFails(o)
  <2>1. late' \subseteq Writes /\ HbType' BY <1>5, LateType, HbRunType DEF HbFails
  <2>2. EntryType' BY <1>5 DEF HbFails, EntryType
  <2>3. pc' \in [Op -> Where] /\ timer' \in [Op -> Nat]
    <3>1. CASE Run(o, "owner", 0) BY <1>1, <3>1, RunType
    <3>2. CASE UNCHANGED <<pc, timer>> BY <3>2 DEF HandlerType
    <3> QED BY <1>5, <3>1, <3>2 DEF HbFails
  <2> QED BY <1>5, <2>1, <2>2, <2>3 DEF HbFails, HandlerType
<1> QED
  BY <1>2, <1>3, <1>4, <1>5 DEF Heartbeat

\* The same for the API server, whatever write it applies.
LEMMA ServerTypes ==
    ASSUME TypeOK,
           \/ \E o \in Op : Server(o)
           \/ \E w \in late : LateLands(w)
    PROVE  TypeOK'
<1> USE DEF TypeOK
<1>1. ASSUME NEW o \in Op, HandlerLands(o) PROVE TypeOK'
  <2>1. /\ lease' \in [holder : Op \union {Released, NoLease}, left : Int]
        /\ late' \subseteq Writes
    BY <1>1, WriteInType, StoreType DEF HandlerLands
  <2>2. HandlerType' /\ HbType'
    BY <1>1 DEF HandlerLands, HandlerType, HbType, WriteStatus
  <2> QED BY <1>1, <2>1, <2>2 DEF HandlerLands, EntryType, entryVars
<1>2. ASSUME NEW o \in Op, HbLands(o) PROVE TypeOK'
  <2>1. /\ lease' \in [holder : Op \union {Released, NoLease}, left : Int]
        /\ late' \subseteq Writes
    BY <1>2, WriteInType, StoreType DEF HbLands
  <2>2. hbSent' \in [Op -> WriteStatus] /\ hbFresh' \in [Op -> BOOLEAN]
    BY <1>2 DEF HbLands, HbType, WriteStatus
  <2>3. HandlerType' BY <1>2 DEF HbLands, HandlerType
  <2>4. HbType' BY <1>2, <2>2 DEF HbLands, HbType
  <2> QED BY <1>2, <2>1, <2>3, <2>4 DEF HbLands, EntryType, entryVars
<1>3. ASSUME NEW w \in late, LateLands(w) PROVE TypeOK'
  <2>1. /\ lease' \in [holder : Op \union {Released, NoLease}, left : Int]
        /\ late' \subseteq Writes
    BY <1>3, StoreType DEF LateLands
  <2>2. HandlerType' /\ HbType' /\ EntryType'
    BY <1>3 DEF LateLands, HandlerType, HbType, EntryType, entryVars
  <2> QED BY <2>1, <2>2
<1> QED
  BY <1>1, <1>2, <1>3 DEF Server

\* The same for the passage of time.
LEMMA TickTypes ==
    ASSUME TypeOK, Tick
    PROVE  TypeOK'
<1> USE DEF TypeOK
<1>1. \A n \in Int : Lower(n, Floor) \in Int
  BY Times DEF Lower
<1>2. \A n \in Nat : Lower(n, 0) \in Nat
  BY DEF Lower
<1>3. lease' \in [holder : Op \union {Released, NoLease}, left : Int]
  BY <1>1 DEF Tick
<1>4. late' \subseteq Writes
  BY <1>1 DEF Tick, Writes
<1>5. HandlerType' /\ HbType' /\ EntryType'
  BY <1>2 DEF Tick, HandlerType, HbType, EntryType, entryVars
<1> QED
  BY <1>3, <1>4, <1>5

\* TypeOK is inductive.
LEMMA TypeStep == TypeOK /\ [Next]_vars => TypeOK'
<1> SUFFICES ASSUME TypeOK, [Next]_vars PROVE TypeOK'
  OBVIOUS
<1>1. CASE UNCHANGED vars
  BY <1>1 DEF TypeOK, HandlerType, EntryType, HbType, vars, handlerVars, entryVars, hbVars
<1> QED
  BY <1>1, AcquireTypes, OwnerTypes, ReleaseTypes, HeartbeatTypes, ServerTypes, TickTypes
     DEF Next

\* TypeOK holds initially.
LEMMA TypeInit == Init => TypeOK
BY Times DEF Init, TypeOK, HandlerType, EntryType, HbType, Where, WriteStatus

\* Type correctness of the Lease, its handlers and its heartbeats.
THEOREM TypeCorrect == Spec => []TypeOK
BY TypeInit, TypeStep, PTL DEF Spec

------------------------------------------------------------------------------
(* The invariant: what a step leaves alone.                                *)

\* Nothing of operation p changes.
Same(p) ==
    /\ pc'[p] = pc[p] /\ timer'[p] = timer[p] /\ budget'[p] = budget[p]
    /\ age'[p] = age[p] /\ sent'[p] = sent[p] /\ fresh'[p] = fresh[p]
    /\ entry'[p] = entry[p] /\ lost'[p] = lost[p]
    /\ hb'[p] = hb[p] /\ hbTimer'[p] = hbTimer[p]
    /\ hbSent'[p] = hbSent[p] /\ hbFresh'[p] = hbFresh[p]

\* What may be added to the late writes while the Lease stays as it is.
LateOk(o) == \A w \in HandlerLate(o) \union HbLate(o) : LateWrite(w)'

\* A step of operation o alone that does not write the Lease.
LEMMA OwnStep ==
    ASSUME IInv, TypeOK', NEW o \in Op, lease' = lease,
           \A p \in Op \ {o} : Same(p),
           OpInv(o)',
           entry[o] # "none" /\ ~Believes(o) => entry'[o] # "none" /\ ~Believes(o)',
           late' \subseteq late \union HandlerLate(o) \union HbLate(o),
           late' \subseteq late \/ LateOk(o)
    PROVE  IInv'
<1>1. \A p \in Op : OpInv(p)'
  <2> SUFFICES ASSUME NEW p \in Op, p # o PROVE OpInv(p)'
    OBVIOUS
  <2>1. Same(p) /\ OpInv(p) BY DEF IInv
  <2> QED
    BY <2>1 DEF Same, OpInv, AcquireClock, OwnerMargin, HeartbeatOwned, FreshWrite,
                HandlerEntry, Believes
<1>2. \A q \in Op : entry[q] # "none" /\ ~Believes(q) => entry'[q] # "none" /\ ~Believes(q)'
  BY DEF Same, Believes
<1>3. \A w \in late : w.by \in Op /\ LateWrite(w)
  BY DEF IInv, TypeOK, Writes
<1>4. \A w \in late : LateWrite(w)'
  BY <1>2, <1>3 DEF LateWrite
<1> QED
  BY <1>1, <1>4 DEF IInv, LateOk

\* An operation that does not believe in its Lease afterwards leaves only
\* harmless writes behind.
LEMMA LeftBehind ==
    ASSUME IInv, NEW o \in Op, lease' = lease,
           entry[o] # "none" => entry'[o] # "none" /\ ~Believes(o)'
    PROVE  LateOk(o)
<1>1. OpInv(o) BY DEF IInv
<1>2. ASSUME NEW w \in HandlerLate(o) PROVE LateWrite(w)'
  BY <1>1, <1>2 DEF OpInv, FreshWrite, HandlerEntry, HandlerLate, HandlerWrite, LateWrite,
                    Writing
<1>3. ASSUME NEW w \in HbLate(o) PROVE LateWrite(w)'
  BY <1>1, <1>3 DEF OpInv, HeartbeatOwned, HbLate, HbWrite, LateWrite
<1> QED
  BY <1>2, <1>3 DEF LateOk

------------------------------------------------------------------------------
(* The invariant: the steps of one operation.                              *)

\* Before the Lease is remembered, an operation has no entry and no heartbeat.
LEMMA NoEntry ==
    ASSUME IInv, NEW o \in Op, pc[o] \in Acquiring \union {"idle"},
           pc'[o] \in Acquiring \union {"ended"},
           lease' = lease, UNCHANGED <<entryVars, hbVars>>,
           AcquireClock(o)', FreshWrite(o)'
    PROVE  OpInv(o)'
<1>1. OpInv(o) /\ entry[o] = "none" /\ pc'[o] \notin {"relGet", "relPut", "assert", "reassert", "apply", "owner"}
  BY DEF IInv, OpInv, AcquireClock, Acquiring
<1>2. OwnerMargin(o)' /\ HeartbeatOwned(o)'
  BY <1>1 DEF OpInv, OwnerMargin, HeartbeatOwned, Believes, entryVars, hbVars
<1>3. HandlerEntry(o)'
  BY <1>1 DEF HandlerEntry
<1> QED
  BY <1>2, <1>3 DEF OpInv

\* The call ends.
LEMMA FinishInv ==
    ASSUME IInv, NEW o \in Op, Finish(o)
    PROVE  /\ AcquireClock(o)' /\ FreshWrite(o)' /\ HandlerEntry(o)'
           /\ pc'[o] = "ended" /\ ~fresh'[o]
           /\ \A p \in Op \ {o} : /\ pc'[p] = pc[p] /\ timer'[p] = timer[p]
                                  /\ budget'[p] = budget[p] /\ age'[p] = age[p]
                                  /\ sent'[p] = sent[p] /\ fresh'[p] = fresh[p]
<1>1. pc'[o] = "ended" /\ ~fresh'[o]
  BY DEF Finish, Run, NoSend, IInv, TypeOK, HandlerType
<1>2. AcquireClock(o)' /\ FreshWrite(o)' /\ HandlerEntry(o)'
  BY <1>1 DEF AcquireClock, FreshWrite, HandlerEntry, Acquiring
<1> QED
  BY <1>1, <1>2 DEF Finish, Run, NoSend, IInv, TypeOK, HandlerType

\* The acquisition goes on with a command within its deadline.
LEMMA CreateInv ==
    ASSUME IInv, NEW o \in Op, pc[o] \in Acquiring, Create(o), lease' = lease,
           UNCHANGED entryVars
    PROVE  /\ AcquireClock(o)' /\ FreshWrite(o)' /\ pc'[o] = "create"
           /\ \A p \in Op \ {o} : /\ pc'[p] = pc[p] /\ timer'[p] = timer[p]
                                  /\ budget'[p] = budget[p] /\ age'[p] = age[p]
                                  /\ sent'[p] = sent[p] /\ fresh'[p] = fresh[p]
<1>1. /\ OpInv(o) /\ HandlerType
      /\ budget[o] \in Nat /\ age[o] \in Nat /\ CommandTimeout \in Nat
      /\ AcquireTimeout \in Nat
  BY ConstantsAssumption DEF IInv, TypeOK, HandlerType, ConstantsAssumption
<1>2. /\ pc'[o] = "create" /\ timer'[o] = Least(CommandTimeout, budget[o])
      /\ age'[o] = 0 /\ budget'[o] = budget[o]
      /\ sent'[o] = "pending" /\ fresh'[o] = (lease.holder = NoLease)
  BY <1>1 DEF Create, Run, Send, AcquireLimit, HandlerType
<1>3. AcquireClock(o)'
  BY <1>1, <1>2 DEF OpInv, AcquireClock, Acquiring, Least, entryVars
<1>4. FreshWrite(o)'
  BY <1>1, <1>2 DEF FreshWrite, Writing
<1> QED
  BY <1>1, <1>2, <1>3, <1>4 DEF Create, Run, Send, HandlerType

\* The acquisition keeps the invariant: a remembered Lease is fresh enough.
LEMMA AcquireInv ==
    ASSUME SafeTiming, IInv, TypeOK', NEW o \in Op, StartAcquire(o) \/ Acquire(o)
    PROVE  IInv'
<1> USE ConstantsAssumption
<1>0. OpInv(o) /\ HandlerType /\ HbType /\ EntryType
  BY DEF IInv, TypeOK
<1>a. /\ budget[o] \in Nat /\ age[o] \in Nat /\ CommandTimeout \in Nat \ {0}
      /\ AcquireTimeout \in Nat \ {0} /\ PollDelay \in Nat /\ LeaseTime \in Nat
      /\ MaxSkew \in Nat /\ Skew[o] \in 0..MaxSkew /\ lease.left \in Int
  BY <1>0 DEF HandlerType, ConstantsAssumption, IInv, TypeOK
<1>1. CASE StartAcquire(o)
  <2>1. /\ pc'[o] = "create" /\ timer'[o] = Least(CommandTimeout, AcquireTimeout)
        /\ age'[o] = age[o] /\ budget'[o] = AcquireTimeout
        /\ sent'[o] = "pending" /\ fresh'[o] = (lease.holder = NoLease)
        /\ pc[o] = "idle" /\ lease' = lease /\ entry' = entry
    BY <1>0, <1>1 DEF StartAcquire, Run, Send, HandlerType, entryVars
  <2>2. AcquireClock(o)'
    BY <1>0, <1>a, <2>1 DEF OpInv, AcquireClock, Acquiring, Least
  <2>3. FreshWrite(o)' BY <2>1 DEF FreshWrite, Writing
  <2>4. OpInv(o)' BY <1>1, <2>1, <2>2, <2>3, NoEntry DEF StartAcquire, Acquiring
  <2> QED
    BY <1>0, <1>1, <2>4, OwnStep DEF StartAcquire, Run, Send, Same, HandlerType, entryVars,
       hbVars, Believes
<1>2. CASE Acquired(o)
  <2>1. /\ pc'[o] = "owner" /\ sent'[o] = "none" /\ ~fresh'[o]
        /\ entry'[o] = "held" /\ hb'[o] = "sleep" /\ hbTimer'[o] = Interval /\ ~hbFresh'[o]
        /\ lease' = lease
    BY <1>0, <1>2 DEF Acquired, Remember, Await, Run, NoSend, HandlerType, HbType, EntryType
  <2>2. lease.holder = o /\ lease.left >= LeaseTime - AcquireTimeout
    BY <1>0, <1>2, <1>a DEF Acquired, OpInv, AcquireClock, Acquiring
  <2>a. lease.left > MaxSkew + Interval + 2 * HeartbeatTimeout
    <3>1. Interval \in Nat /\ HeartbeatTimeout \in Nat BY Times
    <3> QED BY <1>a, <2>2, <3>1 DEF SafeTiming
  <2>3. OwnerMargin(o)'
    BY <2>1, <2>2, <2>a DEF OwnerMargin
  <2>4. AcquireClock(o)' /\ FreshWrite(o)' /\ HandlerEntry(o)' /\ HeartbeatOwned(o)'
    BY <2>1 DEF AcquireClock, FreshWrite, HandlerEntry, HeartbeatOwned, Acquiring
  <2>5. OpInv(o)' BY <2>3, <2>4 DEF OpInv
  <2> QED
    BY <1>0, <1>2, <2>5, OwnStep DEF Acquired, Remember, Await, Run, NoSend, Same,
       HandlerType, HbType, EntryType, OpInv, AcquireClock, Acquiring
<1>3. CASE CreateConflict(o) \/ FoundLive(o)
  <2>1. CASE Finish(o)
    <3>1. OpInv(o)'
      BY <1>3, <2>1, FinishInv, NoEntry DEF CreateConflict, FoundLive, Acquiring
    <3> QED
      BY <1>0, <1>3, <2>1, <3>1, FinishInv, OwnStep DEF CreateConflict, FoundLive, Same,
         entryVars, hbVars, Believes
  <2>2. CASE ~Finish(o)
    <3>1. /\ pc'[o] \in {"get", "sleep"} /\ timer'[o] <= budget[o]
          /\ age'[o] = age[o] /\ budget'[o] = budget[o] /\ ~fresh'[o]
          /\ pc[o] \in Acquiring /\ lease' = lease /\ entry' = entry
      BY <1>0, <1>3, <1>a, <2>2 DEF CreateConflict, FoundLive, Run, NoSend, HandlerType,
         AcquireLimit, Least, Acquiring, entryVars
    <3>2. AcquireClock(o)' BY <1>0, <1>a, <3>1 DEF OpInv, AcquireClock, Acquiring
    <3>3. FreshWrite(o)' BY <3>1 DEF FreshWrite
    <3>4. OpInv(o)'
      BY <1>3, <3>1, <3>2, <3>3, NoEntry DEF CreateConflict, FoundLive, Acquiring
    <3> QED
      BY <1>0, <1>3, <2>2, <3>4, OwnStep DEF CreateConflict, FoundLive, Run, NoSend, Same,
         HandlerType, entryVars, hbVars, Believes
  <2> QED BY <2>1, <2>2
<1>5. CASE FoundExpired(o)
  <2>1. CASE Finish(o)
    <3>1. OpInv(o)'
      BY <1>5, <2>1, FinishInv, NoEntry DEF FoundExpired, Acquiring
    <3> QED
      BY <1>0, <1>5, <2>1, <3>1, FinishInv, OwnStep DEF FoundExpired, Same,
         entryVars, hbVars, Believes
  <2>2. CASE ~Finish(o)
    <3>0. lease.left <= MaxSkew
      BY <1>a, <1>5 DEF FoundExpired
    <3>1. /\ pc'[o] = "replace" /\ timer'[o] <= budget[o]
          /\ age'[o] = age[o] /\ budget'[o] = budget[o] /\ sent'[o] = "pending"
          /\ pc[o] \in Acquiring /\ lease' = lease /\ entry' = entry
      BY <1>0, <1>5, <1>a, <2>2 DEF FoundExpired, Run, Send, HandlerType,
         AcquireLimit, Least, Acquiring, entryVars
    <3>2. AcquireClock(o)' BY <1>0, <1>a, <3>1 DEF OpInv, AcquireClock, Acquiring
    <3>3. FreshWrite(o)' BY <3>0, <3>1 DEF FreshWrite, Writing
    <3>4. OpInv(o)'
      BY <1>5, <3>1, <3>2, <3>3, NoEntry DEF FoundExpired, Acquiring
    <3> QED
      BY <1>0, <1>5, <2>2, <3>4, OwnStep DEF FoundExpired, Run, Send, Same,
         HandlerType, entryVars, hbVars, Believes
  <2> QED BY <2>1, <2>2
<1>6. CASE Wake(o) \/ ReplaceConflict(o)
  <2>1. pc[o] \in Acquiring /\ lease' = lease /\ UNCHANGED <<entryVars, hbVars, late>>
    BY <1>6 DEF Wake, ReplaceConflict, Acquiring
  <2>2. CASE Finish(o)
    <3>1. OpInv(o)' BY <2>1, <2>2, FinishInv, NoEntry
    <3> QED
      BY <1>0, <2>1, <2>2, <3>1, FinishInv, OwnStep DEF Same, entryVars, hbVars, Believes
  <2>3. CASE Create(o)
    <3>1. OpInv(o)' BY <2>1, <2>3, CreateInv, NoEntry DEF Acquiring, entryVars
    <3> QED
      BY <1>0, <2>1, <2>3, <3>1, CreateInv, OwnStep DEF Same, entryVars, hbVars, Believes
  <2> QED BY <1>6, <2>2, <2>3 DEF Wake, ReplaceConflict, LoopTop
<1>7. CASE AcquireFails(o)
  <2>1. pc[o] \in Acquiring /\ lease' = lease /\ UNCHANGED <<entryVars, hbVars>> /\ Finish(o)
    BY <1>7 DEF AcquireFails, Acquiring
  <2>2. entry[o] = "none"
    BY <1>0, <2>1 DEF OpInv, AcquireClock
  <2>3. OpInv(o)' BY <2>1, FinishInv, NoEntry
  <2>4. LateOk(o)
    BY <2>1, <2>2, LeftBehind
  <2> QED
    BY <1>0, <1>7, <2>1, <2>3, <2>4, FinishInv, OwnStep DEF AcquireFails, Same, entryVars,
       hbVars, Believes
<1> QED
  BY <1>1, <1>2, <1>3, <1>5, <1>6, <1>7 DEF Acquire

\* Continuity checks and mutations keep the invariant.
LEMMA OwnerInv ==
    ASSUME IInv, TypeOK', NEW o \in Op,
           StartReassert(o) \/ Reassert(o) \/ StartAssert(o) \/ Mutate(o)
    PROVE  IInv'
<1>0. OpInv(o) /\ HandlerType /\ HbType /\ EntryType
  BY DEF IInv, TypeOK
<1>1. /\ lease' = lease /\ late' = late /\ UNCHANGED <<entry, hb, hbTimer, hbSent, hbFresh>>
      /\ \A p \in Op \ {o} : Same(p)
  BY <1>0 DEF StartReassert, Reassert, ReassertAnswer, ReassertFails, StartAssert, Mutate,
     AssertAnswer, AssertFails, NextPhase, ApplyEnds, Await, Run, NoSend, HandlerType,
     EntryType, entryVars, hbVars, Same
<1>2. /\ pc[o] \in {"owner", "reassert", "assert", "apply"}
      /\ pc'[o] \in {"owner", "reassert", "assert", "apply"}
      /\ fresh'[o] => fresh[o]
      /\ lost[o] => lost'[o]
      /\ pc'[o] \in {"assert", "reassert"} => entry[o] = "held"
      /\ pc'[o] = "apply" => pc[o] = "assert" /\ ~lost'[o]
  BY <1>0 DEF StartReassert, Reassert, ReassertAnswer, ReassertFails, StartAssert, Mutate,
     AssertAnswer, AssertFails, NextPhase, ApplyEnds, Await, Run, NoSend, HandlerType,
     EntryType, entryVars, hbVars, OpInv, HandlerEntry, Believes, Mine
<1>3. ~fresh[o] /\ entry[o] # "none"
  BY <1>0, <1>2 DEF OpInv, FreshWrite, HandlerEntry, Believes, Writing
<1>4. AcquireClock(o)' /\ FreshWrite(o)' /\ HandlerEntry(o)'
  BY <1>0, <1>1, <1>2, <1>3 DEF AcquireClock, FreshWrite, HandlerEntry, OpInv, Believes,
     Acquiring
<1>5. OwnerMargin(o)' /\ HeartbeatOwned(o)'
  BY <1>0, <1>1, <1>2 DEF OwnerMargin, HeartbeatOwned, OpInv, Believes
<1>6. OpInv(o)' BY <1>4, <1>5 DEF OpInv
<1> QED
  BY <1>1, <1>2, <1>3, <1>6, OwnStep DEF Believes

\* Release keeps the invariant: nobody believes in a Lease being given up.
LEMMA ReleaseInv ==
    ASSUME IInv, TypeOK', NEW o \in Op, StartRelease(o) \/ Release(o) \/ Exit(o)
    PROVE  IInv'
<1>0. OpInv(o) /\ HandlerType /\ HbType /\ EntryType
  BY DEF IInv, TypeOK
<1>1. CASE StartRelease(o)
  <2>1. /\ pc'[o] = "relGet" /\ ~fresh'[o] /\ entry[o] # "none" /\ entry'[o] = "releasing"
        /\ hb'[o] = "off" /\ ~hbFresh'[o] /\ lease' = lease
    BY <1>0, <1>1 DEF StartRelease, Run, NoSend, HbStop, HandlerType, HbType, EntryType
  <2>2. OpInv(o)'
    BY <2>1 DEF OpInv, AcquireClock, OwnerMargin, HeartbeatOwned, FreshWrite, HandlerEntry,
       Believes, Acquiring
  <2>3. ~Believes(o)' BY <2>1 DEF Believes
  <2>4. LateOk(o) BY <2>1, <2>3, LeftBehind
  <2> QED
    BY <1>0, <1>1, <2>1, <2>2, <2>3, <2>4, OwnStep DEF StartRelease, Run, NoSend, HbStop, Same,
       HandlerType, HbType, EntryType
<1>2. CASE ReleaseRead(o) \/ ReleaseDone(o)
  <2>1. /\ entry[o] = "releasing" /\ hb[o] = "off" /\ ~hbFresh[o]
        /\ entry'[o] \in {"releasing", "gone"}
        /\ lease' = lease /\ late' = late /\ UNCHANGED hbVars
    BY <1>0, <1>2 DEF ReleaseRead, ReleaseDone, OpInv, HandlerEntry, HeartbeatOwned, EntryType
  <2>2. /\ pc'[o] = "ended" \/ (pc'[o] = "relPut" /\ lease.holder = o /\ entry' = entry)
        /\ pc'[o] = "ended" => ~fresh'[o]
    BY <1>0, <1>2 DEF ReleaseRead, ReleaseDone, Finish, Run, NoSend, HandlerType, Held
  <2>3. OpInv(o)'
    BY <2>1, <2>2 DEF OpInv, AcquireClock, OwnerMargin, HeartbeatOwned, FreshWrite,
       HandlerEntry, Believes, Acquiring, Writing, hbVars
  <2> QED
    BY <1>0, <1>2, <2>1, <2>3, OwnStep DEF ReleaseRead, ReleaseDone, Finish, Run, Send,
       NoSend, Same, HandlerType, EntryType, hbVars, Believes
<1>3. CASE ReleaseFails(o)
  <2>1. /\ entry[o] = "releasing" /\ entry' = entry /\ lost' = lost
        /\ lease' = lease /\ UNCHANGED hbVars /\ hb[o] = "off" /\ ~hbFresh[o]
    BY <1>0, <1>3 DEF ReleaseFails, OpInv, HandlerEntry, HeartbeatOwned, entryVars
  <2>2. pc'[o] = "owner" /\ ~fresh'[o]
    BY <1>0, <1>3 DEF ReleaseFails, Await, Run, NoSend, HandlerType
  <2>3. OpInv(o)'
    BY <2>1, <2>2 DEF OpInv, AcquireClock, OwnerMargin, HeartbeatOwned, FreshWrite,
       HandlerEntry, Believes, Acquiring, hbVars
  <2>4. ~Believes(o)' BY <2>1 DEF Believes
  <2>5. LateOk(o) BY <2>1, <2>4, LeftBehind
  <2> QED
    BY <1>0, <1>3, <2>1, <2>3, <2>5, OwnStep DEF ReleaseFails, Await, Run, NoSend, Same,
       HandlerType, hbVars, Believes
<1>4. CASE Exit(o)
  <2>1. /\ hb'[o] = "off" /\ ~hbFresh'[o] /\ lease' = lease
        /\ entry'[o] = (IF entry[o] = "none" THEN "none" ELSE "gone")
    BY <1>0, <1>4 DEF Exit, HbStop, HbType, EntryType
  <2>2. OpInv(o)'
    BY <1>4, <2>1, FinishInv DEF Exit, OpInv, OwnerMargin, HeartbeatOwned, Believes
  <2>3. LateOk(o) BY <2>1, LeftBehind DEF Believes
  <2> QED
    BY <1>0, <1>4, <2>1, <2>2, <2>3, FinishInv, OwnStep DEF Exit, HbStop, Same, HbType,
       EntryType, Believes
<1> QED
  BY <1>1, <1>2, <1>3, <1>4 DEF Release

\* The heartbeat and the death of the process keep the invariant.
LEMMA HeartbeatInv ==
    ASSUME SafeTiming, IInv, TypeOK', NEW o \in Op, Heartbeat(o)
    PROVE  IInv'
<1>0. OpInv(o) /\ HandlerType /\ HbType /\ EntryType
  BY DEF IInv, TypeOK
<1>a. /\ hbTimer[o] \in Nat /\ LeaseTime \in Nat /\ MaxSkew \in Nat /\ lease.left \in Int
  BY <1>0, ConstantsAssumption DEF HbType, ConstantsAssumption, IInv, TypeOK
<1>b. Interval \in Nat /\ HeartbeatTimeout \in Nat BY Times
<1>1. CASE HbWake(o) \/ HbRead(o) \/ HbRenewed(o)
  <2>1. /\ lease' = lease /\ late' = late /\ UNCHANGED <<handlerVars, entryVars>>
        /\ \A p \in Op \ {o} : Same(p)
    BY <1>0, <1>1 DEF HbWake, HbRead, HbRenewed, HbRun, HbType, Same, handlerVars, entryVars
  <2>2. AcquireClock(o)' /\ FreshWrite(o)' /\ HandlerEntry(o)'
    BY <1>0, <2>1 DEF OpInv, AcquireClock, FreshWrite, HandlerEntry, Believes, handlerVars,
       entryVars
  <2>3. OwnerMargin(o)' /\ HeartbeatOwned(o)'
    <3>1. CASE HbWake(o)
      <4>1. hb'[o] = "get" /\ hbTimer'[o] = HeartbeatTimeout /\ ~hbFresh[o] /\ hbFresh' = hbFresh
            /\ hb[o] = "sleep" /\ hbTimer[o] = 0
        BY <1>0, <3>1 DEF HbWake, HbRun, HbType, OpInv, HeartbeatOwned
      <4>2. ASSUME Believes(o)
            PROVE  lease.holder = o /\ lease.left > MaxSkew + HeartbeatTimeout + HeartbeatTimeout
        BY <1>0, <1>a, <1>b, <4>1, <4>2 DEF OpInv, OwnerMargin
      <4>3. entry[o] = "held" BY <1>0, <4>1 DEF OpInv, HeartbeatOwned
      <4>4. OwnerMargin(o)' BY <2>1, <4>1, <4>2 DEF OwnerMargin, Believes, entryVars
      <4> QED BY <2>1, <4>1, <4>3, <4>4 DEF HeartbeatOwned, entryVars
    <3>2. CASE HbRead(o)
      <4>1. hb'[o] = "put" /\ hbTimer'[o] = HeartbeatTimeout /\ hbSent'[o] = "pending"
            /\ lease.holder = o /\ hb[o] = "get"
        BY <1>0, <3>2 DEF HbRead, HbRun, HbType, Held
      <4> QED BY <1>0, <1>a, <1>b, <2>1, <4>1 DEF OpInv, OwnerMargin, HeartbeatOwned,
              Believes, entryVars
    <3>3. CASE HbRenewed(o)
      <4>1. hb'[o] = "sleep" /\ hbTimer'[o] = Interval /\ hbSent'[o] = "none" /\ ~hbFresh'[o]
            /\ hb[o] = "put" /\ hbSent[o] = "ok"
        BY <1>0, <3>3 DEF HbRenewed, HbRun, HbType
      <4>2. ASSUME Believes(o)
            PROVE  /\ lease.holder = o
                   /\ lease.left > MaxSkew + Interval + 2 * HeartbeatTimeout
        BY <1>0, <1>a, <1>b, <4>1, <4>2 DEF OpInv, OwnerMargin, SafeTiming
      <4>3. entry[o] = "held" BY <1>0, <4>1 DEF OpInv, HeartbeatOwned
      <4>4. OwnerMargin(o)' BY <2>1, <4>1, <4>2 DEF OwnerMargin, Believes, entryVars
      <4> QED BY <2>1, <4>1, <4>3, <4>4 DEF HeartbeatOwned, entryVars
    <3> QED BY <1>1, <3>1, <3>2, <3>3
  <2>4. OpInv(o)' BY <2>2, <2>3 DEF OpInv
  <2> QED BY <2>1, <2>4, OwnStep DEF Believes, entryVars
<1>2. CASE HbFails(o)
  <2>1. /\ lost'[o] = TRUE /\ hb'[o] = "off" /\ ~hbFresh'[o] /\ lease' = lease
        /\ entry' = entry /\ fresh' = fresh /\ sent' = sent /\ budget' = budget /\ age' = age
        /\ entry[o] = "held"
    BY <1>0, <1>2 DEF HbFails, HbStop, HbType, EntryType, OpInv, HeartbeatOwned
  <2>2. /\ pc'[o] = (IF pc[o] = "apply" THEN "owner" ELSE pc[o])
        /\ \A p \in Op \ {o} : pc'[p] = pc[p] /\ timer'[p] = timer[p]
        /\ pc[o] \in Acquiring => timer'[o] = timer[o]
    BY <1>0, <1>2 DEF HbFails, Run, HandlerType, Acquiring
  <2>3. OpInv(o)'
    BY <1>0, <2>1, <2>2 DEF OpInv, AcquireClock, OwnerMargin, HeartbeatOwned, FreshWrite,
       HandlerEntry, Believes, Acquiring, Writing
  <2>4. ~Believes(o)' BY <2>1 DEF Believes
  <2>5. LateOk(o) BY <2>1, <2>4, LeftBehind
  <2>6. \A p \in Op \ {o} : Same(p)
    BY <1>0, <1>2, <2>1, <2>2 DEF HbFails, HbStop, Same, HbType, EntryType
  <2> QED
    BY <1>2, <2>1, <2>3, <2>4, <2>5, <2>6, OwnStep DEF HbFails
<1> QED
  BY <1>1, <1>2 DEF Heartbeat

------------------------------------------------------------------------------
(* The invariant: the server and the clock.                                *)

\* The server stores a write of p that takes the Lease from nobody but p.
Supersedes(w, p) ==
    \/ lease.holder = NoLease
    \/ lease.left <= MaxSkew
    \/ lease.holder = p /\ (Believes(p) => w.holder = p)

\* Nobody else believes in a Lease that a fresh write replaces, nor is anybody
\* about to remember it.
LEMMA NobodyElse ==
    ASSUME SafeTiming, IInv, NEW o \in Op, NEW p \in Op, NEW w, Supersedes(w, p), o # p
    PROVE  /\ ~Believes(o)
           /\ ~(sent[o] = "ok" /\ pc[o] \in {"create", "replace"})
<1>1. /\ OpInv(o) /\ o # NoLease
      /\ hbTimer[o] \in Nat /\ MaxSkew \in Nat /\ lease.left \in Int /\ LeaseTime \in Nat
      /\ age[o] \in Nat /\ budget[o] \in Nat /\ AcquireTimeout \in Nat
      /\ hb[o] \in {"off", "sleep", "get", "put"}
  BY ConstantsAssumption DEF ConstantsAssumption, IInv, TypeOK, HbType, HandlerType
<1>2. Interval \in Nat /\ HeartbeatTimeout \in Nat BY Times
<1>3. ASSUME Believes(o) PROVE lease.holder = o /\ lease.left > MaxSkew
  BY <1>1, <1>2, <1>3 DEF OpInv, OwnerMargin, SafeTiming
<1>4. ASSUME sent[o] = "ok", pc[o] \in {"create", "replace"}
      PROVE  lease.holder = o /\ lease.left > MaxSkew
  <2>1. age[o] + budget[o] <= AcquireTimeout
    BY <1>1, <1>4 DEF OpInv, AcquireClock, Acquiring
  <2> QED BY <1>1, <1>2, <1>4, <2>1 DEF OpInv, AcquireClock, SafeTiming
<1> QED
  BY <1>1, <1>3, <1>4 DEF Supersedes

\* What the operations look like after the server has stored a write of p.
LEMMA Stored ==
    ASSUME SafeTiming, IInv, TypeOK', NEW p \in Op, NEW w, Supersedes(w, p), Store(w),
           fresh' = [q \in Op |-> FALSE], hbFresh' = [q \in Op |-> FALSE],
           UNCHANGED <<pc, timer, budget, age, entryVars, hb, hbTimer>>,
           \A q \in Op \ {p} : sent'[q] = sent[q] /\ hbSent'[q] = hbSent[q],
           OwnerMargin(p)',
           sent'[p] = "ok" /\ pc[p] \in {"create", "replace"} =>
              w.holder = p /\ w.left >= LeaseTime - age[p]
    PROVE  IInv'
<1>1. late' = {} /\ lease'.holder = w.holder /\ lease'.left = w.left
  BY DEF Store
<1>2. ASSUME NEW o \in Op PROVE OpInv(o)'
  <2>1. OpInv(o) BY DEF IInv
  <2>2. ~fresh'[o] /\ ~hbFresh'[o] OBVIOUS
  <2>3. HeartbeatOwned(o)' /\ FreshWrite(o)' /\ HandlerEntry(o)'
    BY <2>1, <2>2 DEF OpInv, HeartbeatOwned, FreshWrite, HandlerEntry, Believes, entryVars
  <2>4. CASE o = p
    <3>1. AcquireClock(o)'
      BY <1>1, <2>1, <2>4 DEF OpInv, AcquireClock, entryVars
    <3> QED BY <2>3, <2>4, <3>1 DEF OpInv
  <2>5. CASE o # p
    <3>1. /\ ~Believes(o) /\ ~(sent[o] = "ok" /\ pc[o] \in {"create", "replace"})
      BY <2>5, NobodyElse
    <3>2. AcquireClock(o)'
      BY <2>1, <2>5, <3>1 DEF OpInv, AcquireClock, entryVars
    <3>3. OwnerMargin(o)' BY <3>1 DEF OwnerMargin, Believes, entryVars
    <3> QED BY <2>3, <3>2, <3>3 DEF OpInv
  <2> QED BY <2>4, <2>5
<1> QED
  BY <1>1, <1>2 DEF IInv

\* A write of a handler that reaches the server keeps the invariant.
LEMMA HandlerLandsInv ==
    ASSUME SafeTiming, IInv, TypeOK', NEW o \in Op, HandlerLands(o)
    PROVE  IInv'
<1>0. OpInv(o) /\ HandlerType /\ HbType /\ EntryType
  BY DEF IInv, TypeOK
<1>1. CASE fresh[o]
  <2>1. /\ Store(HandlerWrite(o)) /\ sent' = [sent EXCEPT ![o] = "ok"]
        /\ fresh' = [q \in Op |-> FALSE] /\ hbFresh' = [q \in Op |-> FALSE]
        /\ UNCHANGED <<pc, timer, budget, age, entryVars, hb, hbTimer, hbSent>>
        /\ pc[o] \in Writing
    BY <1>1 DEF HandlerLands
  <2>2. ~Believes(o)
    BY <1>0, <2>1 DEF OpInv, AcquireClock, HandlerEntry, Believes, Writing, Acquiring
  <2>3. Supersedes(HandlerWrite(o), o)
    BY <1>0, <1>1, <2>2 DEF OpInv, FreshWrite, Supersedes, Writing
  <2>4. OwnerMargin(o)' BY <2>1, <2>2 DEF OwnerMargin, Believes, entryVars
  <2>5. \A q \in Op \ {o} : sent'[q] = sent[q] /\ hbSent'[q] = hbSent[q]
    BY <1>0, <2>1 DEF HandlerType
  <2>6. pc[o] \in {"create", "replace"} =>
           HandlerWrite(o).holder = o /\ HandlerWrite(o).left >= LeaseTime - age[o]
    <3>1. LeaseTime \in Nat /\ Skew[o] \in Nat /\ age[o] \in Nat
      BY <1>0, ConstantsAssumption DEF ConstantsAssumption, HandlerType
    <3> QED BY <3>1 DEF HandlerWrite, AcquireLeft
  <2> QED BY <2>1, <2>3, <2>4, <2>5, <2>6, Stored
<1>2. CASE ~fresh[o]
  <2>1. /\ lease' = lease /\ late' = late /\ sent'[o] = "conflict"
        /\ UNCHANGED <<pc, timer, budget, age, fresh, entryVars, hbVars>>
        /\ \A p \in Op \ {o} : Same(p)
    BY <1>0, <1>2 DEF HandlerLands, HandlerType, Same, entryVars, hbVars
  <2>2. OpInv(o)'
    BY <1>0, <2>1 DEF OpInv, AcquireClock, OwnerMargin, HeartbeatOwned, FreshWrite,
       HandlerEntry, Believes, entryVars, hbVars
  <2> QED BY <2>1, <2>2, OwnStep DEF Believes, entryVars
<1> QED
  BY <1>1, <1>2

\* A renewal that reaches the server keeps the invariant.
LEMMA HbLandsInv ==
    ASSUME SafeTiming, IInv, TypeOK', NEW o \in Op, HbLands(o)
    PROVE  IInv'
<1>0. OpInv(o) /\ HandlerType /\ HbType /\ EntryType
  BY DEF IInv, TypeOK
<1>1. CASE hbFresh[o]
  <2>1. /\ Store(HbWrite(o)) /\ hbSent' = [hbSent EXCEPT ![o] = "ok"]
        /\ fresh' = [q \in Op |-> FALSE] /\ hbFresh' = [q \in Op |-> FALSE]
        /\ UNCHANGED <<pc, timer, budget, age, entryVars, hb, hbTimer, sent>>
        /\ hb[o] = "put"
    BY <1>1 DEF HbLands
  <2>2. lease.holder = o /\ entry[o] = "held"
    BY <1>0, <1>1 DEF OpInv, HeartbeatOwned
  <2>3. Supersedes(HbWrite(o), o)
    BY <2>2 DEF Supersedes, HbWrite
  <2>4. OwnerMargin(o)'
    <3>1. LeaseTime \in Nat /\ Skew[o] \in Nat /\ hbTimer[o] \in Nat
      BY <1>0, ConstantsAssumption DEF ConstantsAssumption, HbType
    <3>2. HeartbeatTimeout \in Nat BY Times
    <3>3. lease'.holder = o /\ lease'.left >= LeaseTime - HeartbeatTimeout + hbTimer[o]
      BY <2>1, <3>1, <3>2 DEF Store, HbWrite, RenewLeft
    <3>4. hbSent'[o] = "ok" /\ hb'[o] = "put" /\ hbTimer'[o] = hbTimer[o]
      BY <1>0, <2>1 DEF HbType
    <3> QED BY <3>3, <3>4 DEF OwnerMargin
  <2>5. \A q \in Op \ {o} : sent'[q] = sent[q] /\ hbSent'[q] = hbSent[q]
    BY <1>0, <2>1 DEF HbType
  <2>6. ~(pc[o] \in {"create", "replace"})
    BY <1>0, <2>2 DEF OpInv, AcquireClock, Acquiring
  <2> QED BY <2>1, <2>3, <2>4, <2>5, <2>6, Stored
<1>2. CASE ~hbFresh[o]
  <2>1. /\ lease' = lease /\ late' = late /\ hbSent'[o] = "conflict"
        /\ hbSent[o] = "pending"
        /\ UNCHANGED <<handlerVars, entryVars, hb, hbTimer, hbFresh>>
        /\ \A p \in Op \ {o} : Same(p)
    BY <1>0, <1>2 DEF HbLands, HbType, Same, entryVars, handlerVars
  <2>2. OpInv(o)'
    BY <1>0, <2>1 DEF OpInv, AcquireClock, OwnerMargin, HeartbeatOwned, FreshWrite,
       HandlerEntry, Believes, entryVars, handlerVars
  <2> QED BY <2>1, <2>2, OwnStep DEF Believes, entryVars
<1> QED
  BY <1>1, <1>2

\* A write of a killed command that reaches the server keeps the invariant.
LEMMA LateLandsInv ==
    ASSUME SafeTiming, IInv, TypeOK', NEW w \in late, LateLands(w)
    PROVE  IInv'
<1>1. w.by \in Op /\ LateWrite(w) BY DEF IInv, TypeOK, Writes
<1>2. Supersedes(w, w.by) BY <1>1 DEF LateWrite, Supersedes
<1>3. /\ Store(w) /\ fresh' = [q \in Op |-> FALSE] /\ hbFresh' = [q \in Op |-> FALSE]
      /\ UNCHANGED <<pc, timer, budget, age, entryVars, hb, hbTimer, sent, hbSent>>
  BY DEF LateLands
<1>4. ASSUME NEW p \in Op, p = w.by
      PROVE  /\ ~Believes(p) /\ ~(sent[p] = "ok" /\ pc[p] \in {"create", "replace"})
  <2>1. /\ OpInv(p) /\ p # NoLease
        /\ hbTimer[p] \in Nat /\ MaxSkew \in Nat /\ lease.left \in Int /\ LeaseTime \in Nat
        /\ age[p] \in Nat /\ budget[p] \in Nat /\ AcquireTimeout \in Nat
        /\ hb[p] \in {"off", "sleep", "get", "put"}
    BY ConstantsAssumption DEF ConstantsAssumption, IInv, TypeOK, HbType, HandlerType
  <2>2. Interval \in Nat /\ HeartbeatTimeout \in Nat BY Times
  <2>3. ASSUME Believes(p) PROVE lease.holder = p /\ lease.left > MaxSkew
    BY <2>1, <2>2, <2>3 DEF OpInv, OwnerMargin, SafeTiming
  <2>4. ASSUME sent[p] = "ok", pc[p] \in {"create", "replace"}
        PROVE  lease.holder = p /\ lease.left > MaxSkew /\ entry[p] = "none"
    <3>1. age[p] + budget[p] <= AcquireTimeout /\ entry[p] = "none"
      BY <2>1, <2>4 DEF OpInv, AcquireClock, Acquiring
    <3> QED BY <2>1, <2>2, <2>4, <3>1 DEF OpInv, AcquireClock, SafeTiming
  <2> QED BY <1>1, <1>4, <2>1, <2>3, <2>4 DEF LateWrite
<1>5. OwnerMargin(w.by)' BY <1>1, <1>3, <1>4 DEF OwnerMargin, Believes, entryVars
<1> QED BY <1>1, <1>2, <1>3, <1>4, <1>5, Stored

\* Time keeps the invariant: a timer runs out before the Lease does.
LEMMA TickInv ==
    ASSUME SafeTiming, IInv, TypeOK', Tick
    PROVE  IInv'
<1>1. /\ \A n \in Int : Lower(n, Floor) >= n - 1 /\ (n <= MaxSkew => Lower(n, Floor) <= MaxSkew)
      /\ \A n \in Nat : n > 0 => Lower(n, 0) = n - 1
      /\ \A n \in Nat : Lower(n, 0) <= n
  <2>1. Floor \in Int /\ Floor <= 0 /\ MaxSkew \in Nat
    BY Times, ConstantsAssumption DEF ConstantsAssumption
  <2> QED BY <2>1 DEF Lower
<1>2. /\ lease'.holder = lease.holder /\ lease'.left = Lower(lease.left, Floor)
      /\ lease.left \in Int
      /\ UNCHANGED <<pc, sent, fresh, entry, lost, hb, hbSent, hbFresh>>
  BY DEF Tick, IInv, TypeOK, entryVars
<1>3. ASSUME NEW o \in Op PROVE OpInv(o)'
  <2>1. /\ OpInv(o)
        /\ timer[o] \in Nat /\ budget[o] \in Nat /\ age[o] \in Nat /\ hbTimer[o] \in Nat
        /\ hb[o] \in {"off", "sleep", "get", "put"} /\ MaxSkew \in Nat /\ LeaseTime \in Nat
        /\ AcquireTimeout \in Nat
    BY ConstantsAssumption DEF IInv, TypeOK, HandlerType, HbType, ConstantsAssumption
  <2>2. /\ pc[o] \in Acquiring => timer[o] > 0
        /\ hb[o] # "off" => hbTimer[o] > 0
    BY <2>1 DEF Tick, Due, Acquiring, Commands
  <2>3. /\ timer'[o] = Lower(timer[o], 0) /\ budget'[o] = Lower(budget[o], 0)
        /\ hbTimer'[o] = Lower(hbTimer[o], 0)
        /\ age'[o] = (IF pc[o] \in Acquiring THEN age[o] + 1 ELSE 0)
    BY DEF Tick
  <2>4. AcquireClock(o)'
    <3>1. CASE pc[o] \in Acquiring
      <4>1. /\ timer[o] > 0 /\ timer[o] <= budget[o] /\ entry[o] = "none"
            /\ age[o] + budget[o] <= AcquireTimeout
        BY <2>1, <2>2, <3>1 DEF OpInv, AcquireClock
      <4>2. timer'[o] = timer[o] - 1 /\ budget'[o] = budget[o] - 1 /\ age'[o] = age[o] + 1
        BY <1>1, <2>1, <2>3, <3>1, <4>1
      <4>3. timer'[o] <= budget'[o] /\ age'[o] + budget'[o] <= AcquireTimeout
        BY <2>1, <4>1, <4>2
      <4>4. sent[o] = "ok" /\ pc[o] \in {"create", "replace"} =>
               lease'.holder = o /\ lease'.left >= LeaseTime - age'[o]
        <5>1. lease'.left >= lease.left - 1 /\ lease'.left \in Int
          BY <1>1, <1>2 DEF IInv, TypeOK
        <5> QED BY <1>2, <2>1, <4>2, <5>1 DEF OpInv, AcquireClock
      <4>5. pc[o] # "idle" BY <3>1 DEF Acquiring
      <4> QED BY <1>2, <4>1, <4>3, <4>4, <4>5 DEF AcquireClock
    <3>2. CASE pc[o] \notin Acquiring
      BY <1>2, <2>1, <2>3, <3>2 DEF OpInv, AcquireClock, Acquiring
    <3> QED BY <3>1, <3>2
  <2>5. HeartbeatOwned(o)' /\ HandlerEntry(o)'
    <3>1. HeartbeatTimeout \in Nat BY Times
    <3>2. hbTimer'[o] <= hbTimer[o] /\ hbTimer'[o] \in Nat BY <1>1, <2>1, <2>3 DEF Lower
    <3> QED
      BY <1>2, <2>1, <3>1, <3>2 DEF OpInv, HeartbeatOwned, HandlerEntry, Believes
  <2>6. FreshWrite(o)'
    BY <1>1, <1>2, <2>1 DEF OpInv, FreshWrite
  <2>7. OwnerMargin(o)'
    <3>1. HeartbeatTimeout \in Nat BY Times
    <3>2. CASE Believes(o)
      <4>1. hb[o] # "off" /\ hbTimer'[o] = hbTimer[o] - 1 /\ lease'.left >= lease.left - 1
            /\ lease'.left \in Int
        BY <1>1, <1>2, <2>1, <2>2, <2>3, <3>2 DEF OpInv, OwnerMargin, IInv, TypeOK
      <4> QED
        BY <1>2, <2>1, <3>1, <3>2, <4>1 DEF OpInv, OwnerMargin
    <3>3. CASE ~Believes(o)
      BY <1>2, <3>3 DEF OwnerMargin, Believes
    <3> QED BY <3>2, <3>3
  <2> QED BY <2>4, <2>5, <2>6, <2>7 DEF OpInv
<1>4. \A w \in late' : LateWrite(w)'
  <2>1. \A w \in late' : \E v \in late : w.by = v.by
    BY DEF Tick, IInv, TypeOK, Writes
  <2> QED BY <1>1, <1>2, <2>1 DEF IInv, LateWrite, Believes
<1> QED
  BY <1>3, <1>4 DEF IInv

------------------------------------------------------------------------------
(* The theorems.                                                           *)

\* IInv is inductive.
LEMMA InvStep == SafeTiming /\ IInv /\ [Next]_vars => IInv'
<1> SUFFICES ASSUME SafeTiming, IInv, [Next]_vars PROVE IInv'
  OBVIOUS
<1>1. TypeOK' BY TypeStep DEF IInv
<1>2. CASE UNCHANGED vars
  BY <1>2, <1>1 DEF vars, handlerVars, entryVars, hbVars, IInv, OpInv, AcquireClock,
     OwnerMargin, HeartbeatOwned, FreshWrite, HandlerEntry, Believes, LateWrite
<1> QED
  BY <1>1, <1>2, AcquireInv, OwnerInv, ReleaseInv, HeartbeatInv, HandlerLandsInv, HbLandsInv,
     LateLandsInv, TickInv DEF Next, Server

\* IInv holds initially.
LEMMA InvInit == Init => IInv
<1> SUFFICES ASSUME Init PROVE IInv
  OBVIOUS
<1>1. TypeOK BY TypeInit
<1>2. \A o \in Op : OpInv(o)
  BY DEF Init, OpInv, AcquireClock, OwnerMargin, HeartbeatOwned, FreshWrite, HandlerEntry,
     Believes, Acquiring
<1>3. late = {} BY DEF Init
<1> QED BY <1>1, <1>2, <1>3 DEF IInv

\* An operation that holds an entry not marked lost holds the Lease, and no
\* clock within MaxSkew sees it expired.
LEMMA Authoritative == SafeTiming /\ IInv => OwnerHasAuthority
<1> SUFFICES ASSUME SafeTiming, IInv, NEW o \in Op, Believes(o)
             PROVE  lease.holder = o /\ lease.left > MaxSkew
  BY DEF OwnerHasAuthority
<1>1. /\ OpInv(o)
      /\ hbTimer[o] \in Nat /\ MaxSkew \in Nat /\ lease.left \in Int /\ LeaseTime \in Nat
      /\ hb[o] \in {"off", "sleep", "get", "put"}
  BY ConstantsAssumption DEF ConstantsAssumption, IInv, TypeOK, HbType
<1>2. Interval \in Nat /\ HeartbeatTimeout \in Nat BY Times
<1> QED
  BY <1>1, <1>2 DEF OpInv, OwnerMargin, SafeTiming

\* Two applies in flight would be two owners of one Lease.
LEMMA Exclusive == IInv => OneMutator
BY DEF IInv, OpInv, HandlerEntry, OwnerMargin, OneMutator

\* Whenever the times fit together, whoever believes in its Lease has it.
THEOREM LeaseAuthority == ASSUME SafeTiming PROVE Spec => []OwnerHasAuthority
BY InvInit, InvStep, Authoritative, PTL DEF Spec

\* Whenever the times fit together, two operations never mutate at once.
THEOREM LeaseExclusion == ASSUME SafeTiming PROVE Spec => []OneMutator
BY InvInit, InvStep, Exclusive, PTL DEF Spec

------------------------------------------------------------------------------
(* The Lease implements LockAuthority.                                     *)

\* What the abstract lock sees of operation p.
SameStatus(p) ==
    /\ Believes(p)' <=> Believes(p)
    /\ entry'[p] # "none" <=> entry[p] # "none"

Idles(o) == SameStatus(o) /\ (pc'[o] = "apply" <=> pc[o] = "apply")
Begins(o) == SameStatus(o) /\ Believes(o) /\ pc[o] # "apply" /\ pc'[o] = "apply"
Ends(o) == SameStatus(o) /\ pc[o] = "apply" /\ pc'[o] # "apply"
Forfeits(o) == Believes(o) /\ ~Believes(o)' /\ entry'[o] # "none" /\ pc'[o] # "apply"
Granted(o) ==
    /\ \A p \in Op : ~Believes(p)
    /\ entry[o] = "none" /\ Believes(o)' /\ pc[o] # "apply" /\ pc'[o] # "apply"

\* A step that changes one operation in one of these ways is an abstract step.
LEMMA AbstractStep ==
    ASSUME NEW o \in Op,
           \A p \in Op \ {o} : SameStatus(p) /\ pc'[p] = pc[p],
           Idles(o) \/ Begins(o) \/ Ends(o) \/ Forfeits(o) \/ Granted(o)
    PROVE  [Authority!Next]_(Authority!vars)
<1>1. CASE Idles(o)
  BY <1>1 DEF Idles, SameStatus, Authority!vars
<1>2. CASE Begins(o)
  <2>1. Authority!Begin(o)
    BY <1>2 DEF Begins, SameStatus, Authority!Begin
  <2> QED BY <2>1 DEF Authority!Next
<1>3. CASE Ends(o)
  <2>1. Authority!End(o)
    BY <1>3 DEF Ends, SameStatus, Authority!End
  <2> QED BY <2>1 DEF Authority!Next
<1>4. CASE Forfeits(o)
  <2>1. Authority!Forfeit(o)
    BY <1>4 DEF Forfeits, SameStatus, Authority!Forfeit, Believes
  <2> QED BY <2>1 DEF Authority!Next
<1>5. CASE Granted(o)
  <2>1. Authority!Grant(o)
    BY <1>5 DEF Granted, SameStatus, Authority!Grant, Believes
  <2> QED BY <2>1 DEF Authority!Next
<1> QED BY <1>1, <1>2, <1>3, <1>4, <1>5

\* Remembering an acquired Lease is a grant of the abstract lock.
LEMMA GrantStep ==
    ASSUME SafeTiming, IInv, NEW o \in Op, Acquired(o)
    PROVE  [Authority!Next]_(Authority!vars)
<1>1. OpInv(o) /\ HandlerType /\ HbType /\ EntryType
  BY DEF IInv, TypeOK
<1>2. entry[o] = "none" /\ lease.holder = o /\ pc[o] # "apply"
  BY <1>1 DEF Acquired, OpInv, AcquireClock, Acquiring
<1>3. \A p \in Op : ~Believes(p)
  BY <1>2, Authoritative DEF OwnerHasAuthority, Believes
<1>4. Granted(o)
  BY <1>1, <1>2, <1>3 DEF Granted, Acquired, Remember, Await, Run, Believes, HandlerType,
     EntryType
<1>5. \A p \in Op \ {o} : SameStatus(p) /\ pc'[p] = pc[p]
  BY <1>1 DEF Acquired, Remember, Await, Run, SameStatus, Believes, HandlerType, EntryType
<1> QED BY <1>4, <1>5, AbstractStep

\* Steps of one operation other than a grant.
LEMMA OwnAbstractStep ==
    ASSUME SafeTiming, IInv, NEW o \in Op,
           \/ StartAcquire(o) \/ (Acquire(o) /\ ~Acquired(o))
           \/ StartReassert(o) \/ Reassert(o) \/ StartAssert(o) \/ Mutate(o)
           \/ StartRelease(o) \/ Release(o) \/ Heartbeat(o) \/ Exit(o)
    PROVE  [Authority!Next]_(Authority!vars)
<1>1. OpInv(o) /\ HandlerType /\ EntryType
  BY DEF IInv, TypeOK
<1>2. CASE StartAcquire(o) \/ (Acquire(o) /\ ~Acquired(o))
  <2>1. UNCHANGED <<entry, lost>>
    BY <1>2 DEF StartAcquire, Acquire, CreateConflict, FoundLive, FoundExpired, Wake,
       ReplaceConflict, AcquireFails, entryVars
  <2>2. /\ \A p \in Op \ {o} : pc'[p] = pc[p]
        /\ pc[o] # "apply" /\ pc'[o] # "apply"
    BY <1>1, <1>2 DEF StartAcquire, Acquire, CreateConflict, FoundLive, FoundExpired, Wake,
       ReplaceConflict, AcquireFails, LoopTop, Create, Finish, Run, HandlerType
  <2> QED BY <2>1, <2>2, AbstractStep DEF Idles, SameStatus, Believes
<1>3. CASE StartReassert(o) \/ Reassert(o) \/ StartAssert(o) \/ Mutate(o)
  <2>1. /\ entry' = entry
        /\ \A p \in Op \ {o} : pc'[p] = pc[p] /\ lost'[p] = lost[p]
        /\ lost[o] => lost'[o]
        /\ pc'[o] = "apply" => ~lost'[o] /\ pc[o] = "assert"
    BY <1>1, <1>3 DEF StartReassert, Reassert, ReassertAnswer, ReassertFails, StartAssert,
       Mutate, AssertAnswer, AssertFails, NextPhase, ApplyEnds, Await, Run, HandlerType,
       EntryType, entryVars, Mine
  <2>2. pc[o] \in {"apply", "assert"} => entry[o] = "held"
    BY <1>1 DEF OpInv, HandlerEntry, Believes
  <2>3. pc[o] = "apply" => Believes(o)
    BY <1>1 DEF OpInv, HandlerEntry
  <2>4. Idles(o) \/ Begins(o) \/ Ends(o) \/ Forfeits(o)
    BY <2>1, <2>2, <2>3 DEF Idles, Begins, Ends, Forfeits, SameStatus, Believes
  <2> QED BY <2>1, <2>4, AbstractStep DEF SameStatus, Believes
<1>4. CASE StartRelease(o) \/ Release(o)
  <2>1. /\ \A p \in Op \ {o} : pc'[p] = pc[p] /\ entry'[p] = entry[p]
        /\ lost' = lost /\ entry[o] # "none" /\ entry'[o] \in {"releasing", "gone"}
        /\ pc[o] # "apply" /\ pc'[o] # "apply"
    BY <1>1, <1>4 DEF StartRelease, Release, ReleaseRead, ReleaseDone, ReleaseFails, Await,
       Finish, Run, HandlerType, EntryType, entryVars, OpInv, HandlerEntry
  <2>2. Idles(o) \/ Forfeits(o)
    BY <2>1 DEF Idles, Forfeits, SameStatus, Believes
  <2> QED BY <2>1, <2>2, AbstractStep DEF SameStatus, Believes
<1>5. CASE Heartbeat(o)
  <2>1. CASE HbWake(o) \/ HbRead(o) \/ HbRenewed(o)
    BY <2>1, AbstractStep DEF HbWake, HbRead, HbRenewed, handlerVars, entryVars, Idles,
       SameStatus, Believes
  <2>2. CASE HbFails(o)
    <3>1. /\ entry' = entry /\ lost' = [lost EXCEPT ![o] = TRUE]
          /\ pc'[o] # "apply"
          /\ \A p \in Op \ {o} : pc'[p] = pc[p] /\ lost'[p] = lost[p]
      BY <1>1, <2>2 DEF HbFails, Run, HandlerType, EntryType
    <3>2. pc[o] = "apply" => Believes(o)
      BY <1>1 DEF OpInv, HandlerEntry
    <3>3. Idles(o) \/ Forfeits(o)
      BY <1>1, <3>1, <3>2 DEF Idles, Forfeits, SameStatus, Believes, EntryType
    <3> QED BY <3>1, <3>3, AbstractStep DEF SameStatus, Believes
  <2> QED BY <1>5, <2>1, <2>2 DEF Heartbeat
<1>6. CASE Exit(o)
  <2>1. /\ \A p \in Op \ {o} : pc'[p] = pc[p] /\ entry'[p] = entry[p]
        /\ lost' = lost /\ pc'[o] # "apply"
        /\ entry'[o] = (IF entry[o] = "none" THEN "none" ELSE "gone")
    BY <1>1, <1>6 DEF Exit, Finish, Run, HandlerType, EntryType
  <2>2. pc[o] = "apply" => Believes(o)
    BY <1>1 DEF OpInv, HandlerEntry
  <2>3. Idles(o) \/ Forfeits(o)
    BY <2>1, <2>2 DEF Idles, Forfeits, SameStatus, Believes
  <2> QED BY <2>1, <2>3, AbstractStep DEF SameStatus, Believes
<1> QED BY <1>2, <1>3, <1>4, <1>5, <1>6

\* Every step is a step of the abstract lock or leaves it alone.
LEMMA RefinementStep ==
    SafeTiming /\ IInv /\ [Next]_vars => [Authority!Next]_(Authority!vars)
<1> SUFFICES ASSUME SafeTiming, IInv, [Next]_vars PROVE [Authority!Next]_(Authority!vars)
  OBVIOUS
<1>1. CASE UNCHANGED <<pc, entry, lost>>
  BY <1>1 DEF Authority!vars, Believes
<1>2. UNCHANGED vars => UNCHANGED <<pc, entry, lost>>
  BY DEF vars, handlerVars, entryVars
<1>3. (\E o \in Op : Server(o)) \/ (\E w \in late : LateLands(w)) \/ Tick
      => UNCHANGED <<pc, entry, lost>>
  BY DEF Server, HandlerLands, HbLands, LateLands, Tick, entryVars
<1> QED
  BY <1>1, <1>2, <1>3, GrantStep, OwnAbstractStep DEF Next

\* Nobody owns the abstract lock initially.
LEMMA RefinementInit == Init => Authority!Init
BY DEF Init, Authority!Init, Believes

\* Whenever the times fit together, the Lease is a lock: what the operations
\* do is what LockAuthority allows.
THEOREM LeaseIsLock == ASSUME SafeTiming PROVE Spec => ImplementsLock
BY InvInit, InvStep, RefinementInit, RefinementStep, PTL
   DEF Spec, ImplementsLock, Authority!Spec

------------------------------------------------------------------------------
(* No Lease is regained.  This needs none of the times.                    *)

\* A write that was left behind brings its author to a Lease that it still has,
\* or its author never had one.
LateTaken(w) ==
    w.holder # Released =>
        /\ w.holder = w.by
        /\ lease.holder = w.by \/ (entry[w.by] = "none" /\ pc[w.by] = "ended")

OnceInv(o) ==
    /\ pc[o] \in Acquiring \union {"idle"} => entry[o] = "none"
    /\ hbFresh[o] => lease.holder = o

OnceOnly == TypeOK /\ (\A o \in Op : OnceInv(o)) /\ \A w \in late : LateTaken(w)

\* What a step of operation o leaves alone.
Others(o) ==
    \A p \in Op \ {o} : pc'[p] = pc[p] /\ entry'[p] = entry[p] /\ hbFresh'[p] = hbFresh[p]

\* A step of one operation that does not write the Lease.
LEMMA OnceStep ==
    ASSUME OnceOnly, TypeOK', NEW o \in Op, lease' = lease, Others(o), OnceInv(o)',
           pc[o] = "ended" => pc'[o] = "ended" /\ entry'[o] \in {entry[o], "gone"}
              /\ (entry[o] = "none" => entry'[o] = "none"),
           late' \subseteq late \union HandlerLate(o) \union HbLate(o),
           late' \subseteq late \/ pc[o] \notin {"create", "replace"}
              \/ (pc'[o] = "ended" /\ entry'[o] = "none")
    PROVE  OnceOnly'
<1>1. ASSUME NEW p \in Op PROVE OnceInv(p)'
  BY DEF Others, OnceOnly, OnceInv
<1>2. ASSUME NEW w \in late PROVE LateTaken(w)'
  <2>1. w.by \in Op /\ LateTaken(w) BY DEF OnceOnly, TypeOK, Writes
  <2> QED BY <2>1 DEF LateTaken, Others
<1>3. ASSUME NEW w \in HandlerLate(o), w \in late' \ late PROVE LateTaken(w)'
  BY <1>3 DEF HandlerLate, HandlerWrite, LateTaken, Writing
<1>4. ASSUME NEW w \in HbLate(o) PROVE LateTaken(w)'
  BY <1>4 DEF HbLate, HbWrite, LateTaken, OnceOnly, OnceInv
<1> QED BY <1>1, <1>2, <1>3, <1>4 DEF OnceOnly

\* The steps of an operation and of its heartbeat.
LEMMA OnceOwn ==
    ASSUME OnceOnly, TypeOK', NEW o \in Op,
           \/ StartAcquire(o) \/ Acquire(o) \/ StartReassert(o) \/ Reassert(o) \/ StartAssert(o)
           \/ Mutate(o) \/ StartRelease(o) \/ Release(o) \/ Heartbeat(o) \/ Exit(o)
    PROVE  OnceOnly'
<1>t. OnceInv(o) /\ HandlerType /\ EntryType /\ HbType BY DEF OnceOnly, TypeOK
<1>1. CASE StartAcquire(o) \/ (Acquire(o) /\ ~Acquired(o))
  <2>1. /\ lease' = lease /\ UNCHANGED <<entry, hbFresh>>
        /\ \A p \in Op \ {o} : pc'[p] = pc[p]
        /\ pc[o] \in Acquiring \union {"idle"}
        /\ late' = late \/ (late' = late \union HandlerLate(o) /\ pc'[o] = "ended")
    BY <1>t, <1>1 DEF StartAcquire, Acquire, CreateConflict, FoundLive, FoundExpired, Wake,
       ReplaceConflict, AcquireFails, LoopTop, Create, Finish, Run, HandlerType, entryVars, hbVars,
       Acquiring
  <2> QED BY <1>t, <2>1, OnceStep DEF Others, OnceInv, Acquiring
<1>2. CASE Acquired(o)
  <2>1. /\ lease' = lease /\ late' = late /\ Others(o)
        /\ pc[o] # "ended" /\ pc'[o] = "owner" /\ ~hbFresh'[o]
    BY <1>t, <1>2 DEF Acquired, Remember, Await, Run, HandlerType, EntryType, HbType, Others
  <2> QED BY <2>1, OnceStep DEF OnceInv, Acquiring
<1>3. CASE StartReassert(o) \/ Reassert(o) \/ StartAssert(o) \/ Mutate(o)
  <2>1. /\ lease' = lease /\ late' = late /\ UNCHANGED <<entry, hbFresh>>
        /\ \A p \in Op \ {o} : pc'[p] = pc[p]
        /\ pc[o] # "ended" /\ pc'[o] \notin Acquiring \union {"idle"}
    BY <1>t, <1>3 DEF StartReassert, Reassert, ReassertAnswer, ReassertFails, StartAssert,
       Mutate, AssertAnswer, AssertFails, NextPhase, ApplyEnds, Await, Run, HandlerType,
       EntryType, entryVars, hbVars, Acquiring
  <2> QED BY <1>t, <2>1, OnceStep DEF Others, OnceInv
<1>4. CASE StartRelease(o) \/ Release(o)
  <2>1. /\ lease' = lease /\ Others(o) /\ hbFresh'[o] \in {hbFresh[o], FALSE}
        /\ pc[o] \in {"owner", "relGet", "relPut"} /\ pc'[o] \notin Acquiring \union {"idle"}
        /\ late' \subseteq late \union HandlerLate(o) \union HbLate(o)
    <3>1. CASE StartRelease(o)
      BY <1>t, <3>1 DEF StartRelease, Run, HbStop, HandlerType, EntryType, HbType, Others, Acquiring
    <3>2. CASE ReleaseRead(o) \/ ReleaseDone(o)
      BY <1>t, <3>2 DEF ReleaseRead, ReleaseDone, Finish, Run, HandlerType, EntryType, hbVars,
         Others, Acquiring
    <3>3. CASE ReleaseFails(o)
      BY <1>t, <3>3 DEF ReleaseFails, Await, Run, HandlerType, entryVars, hbVars, Others, Acquiring
    <3> QED BY <1>4, <3>1, <3>2, <3>3 DEF Release
  <2> QED BY <1>t, <2>1, OnceStep DEF OnceInv
<1>5. CASE Heartbeat(o)
  <2>1. /\ lease' = lease /\ entry' = entry /\ Others(o) /\ (hbFresh'[o] => lease.holder = o)
        /\ pc'[o] = pc[o] \/ (pc[o] = "apply" /\ pc'[o] = "owner")
        /\ late' \subseteq late \union HbLate(o)
    BY <1>t, <1>5 DEF Heartbeat, HbWake, HbRead, HbRenewed, HbFails, HbStop, HbRun, Run, HandlerType,
       HbType, EntryType, entryVars, handlerVars, Others, Held, OnceInv
  <2>2. OnceInv(o)' BY <1>t, <2>1 DEF OnceInv, Acquiring
  <2>3. ASSUME NEW w \in late' PROVE LateTaken(w)'
    <3>1. CASE w \in late
      <4>1. w.by \in Op /\ LateTaken(w) BY <3>1 DEF OnceOnly, TypeOK, Writes
      <4> QED BY <2>1, <4>1 DEF LateTaken, Others
    <3>2. CASE w \in HbLate(o)
      BY <1>t, <2>1, <3>2 DEF HbLate, HbWrite, LateTaken, OnceInv
    <3> QED BY <2>1, <3>1, <3>2
  <2>4. ASSUME NEW p \in Op PROVE OnceInv(p)'
    BY <2>1, <2>2 DEF Others, OnceOnly, OnceInv
  <2> QED BY <2>3, <2>4 DEF OnceOnly
<1>6. CASE Exit(o)
  <2>1. /\ lease' = lease /\ Others(o) /\ pc'[o] = "ended" /\ pc[o] # "ended" /\ ~hbFresh'[o]
        /\ entry'[o] = (IF entry[o] = "none" THEN "none" ELSE "gone")
        /\ late' \subseteq late \union HandlerLate(o) \union HbLate(o)
    BY <1>t, <1>6 DEF Exit, Finish, Run, HbStop, HandlerType, EntryType, HbType, Others
  <2> QED BY <1>t, <2>1, OnceStep DEF OnceInv, Acquiring
<1> QED BY <1>1, <1>2, <1>3, <1>4, <1>5, <1>6

\* The server and time; whatever the server stores leaves no other write behind.
LEMMA OnceNext == OnceOnly /\ [Next]_vars => OnceOnly'
<1> SUFFICES ASSUME OnceOnly, [Next]_vars PROVE OnceOnly'
  OBVIOUS
<1>1. TypeOK' BY TypeStep DEF OnceOnly
<1>2. ASSUME NEW o \in Op, Server(o) PROVE OnceOnly'
  <2>1. UNCHANGED <<pc, entry>> BY <1>2 DEF Server, HandlerLands, HbLands, entryVars
  <2>2. \/ UNCHANGED <<lease, late, hbFresh>>
        \/ late' = {} /\ hbFresh' = [p \in Op |-> FALSE]
    BY <1>2 DEF Server, HandlerLands, HbLands, Store, hbVars
  <2> QED BY <1>1, <2>1, <2>2 DEF OnceOnly, OnceInv, LateTaken
<1>3. ASSUME NEW w \in late, LateLands(w) PROVE OnceOnly'
  BY <1>1, <1>3 DEF LateLands, Store, OnceOnly, OnceInv, entryVars
<1>4. ASSUME Tick PROVE OnceOnly'
  <2>1. lease'.holder = lease.holder /\ UNCHANGED <<pc, entry, hbFresh>>
    BY <1>4 DEF Tick, entryVars, OnceOnly, TypeOK
  <2>2. \A w \in late' : \E v \in late : w.by = v.by /\ w.holder = v.holder
    BY <1>4 DEF Tick, OnceOnly, TypeOK, Writes
  <2> QED BY <1>1, <2>1, <2>2 DEF OnceOnly, OnceInv, LateTaken
<1>5. CASE UNCHANGED vars
  BY <1>1, <1>5 DEF vars, handlerVars, entryVars, hbVars, OnceOnly, OnceInv, LateTaken
<1> QED BY <1>1, <1>2, <1>3, <1>4, <1>5, OnceOwn DEF Next

\* An operation that has none has not had one.
LEMMA OnceInit == Init => OnceOnly
BY TypeInit DEF Init, OnceOnly, OnceInv

\* Only the server writes the Lease, and what it may still store gives it to
\* nobody who has lost it.
LEMMA NotRegained ==
    OnceOnly /\ [Next]_vars =>
        \A o \in Op : entry[o] # "none" /\ lease.holder # o => lease'.holder # o
<1> SUFFICES ASSUME OnceOnly, [Next]_vars, NEW o \in Op, entry[o] # "none", lease.holder # o
             PROVE  lease'.holder # o
  OBVIOUS
<1>0. Released \notin Op BY ConstantsAssumption DEF ConstantsAssumption
<1>1. ASSUME NEW p \in Op, Server(p) PROVE lease'.holder # o
  BY <1>0, <1>1 DEF Server, HandlerLands, HbLands, Store, HandlerWrite, HbWrite, OnceOnly, OnceInv,
     Acquiring, Writing
<1>2. ASSUME NEW w \in late, LateLands(w) PROVE lease'.holder # o
  BY <1>0, <1>2 DEF LateLands, Store, OnceOnly, LateTaken
<1>3. ASSUME Tick PROVE lease'.holder # o
  BY <1>3 DEF Tick, OnceOnly, TypeOK
<1>4. ASSUME lease' = lease PROVE lease'.holder # o
  BY <1>4
<1>5. ASSUME NEW p \in Op,
             \/ StartAcquire(p) \/ Acquire(p) \/ StartReassert(p) \/ Reassert(p) \/ StartAssert(p)
             \/ Mutate(p) \/ StartRelease(p) \/ Release(p) \/ Heartbeat(p) \/ Exit(p)
      PROVE  lease' = lease
  BY <1>5 DEF StartAcquire, Acquire, Acquired, CreateConflict, FoundLive, FoundExpired, Wake,
     ReplaceConflict, AcquireFails, StartReassert, Reassert, ReassertAnswer, ReassertFails,
     StartAssert, Mutate, AssertAnswer, AssertFails, NextPhase, ApplyEnds, StartRelease, Release,
     ReleaseRead, ReleaseDone, ReleaseFails, Heartbeat, HbWake, HbRead, HbRenewed, HbFails, Exit
<1>6. UNCHANGED vars => lease' = lease BY DEF vars
<1> QED BY <1>1, <1>2, <1>3, <1>4, <1>5, <1>6 DEF Next

\* Whatever the times are: an operation that had the Lease and has it no longer
\* never gets it back, by a renewal in flight, by the request of a command that
\* was killed, or by anything else the server may still apply.
THEOREM LeaseNeverRegained == Spec => NeverRegained
<1>1. OnceOnly /\ [Next]_vars =>
        [\A o \in Op : entry[o] # "none" /\ lease.holder # o => lease'.holder # o]_vars
  BY NotRegained
<1> QED BY <1>1, OnceInit, OnceNext, PTL DEF Spec, NeverRegained
=============================================================================
