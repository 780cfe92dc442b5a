----------------------------- MODULE CoreProofs -----------------------------
(***************************************************************************)
(* What is made, taken down, and reported about it: `prune` and            *)
(* `down --all` delete what they showed and report what remains, for any   *)
(* number of environments and operations; of a failed apply nothing is     *)
(* left that is neither compensated nor reported, for any plan and         *)
(* journal; an `up` of the Kubernetes plugin that succeeds has made its    *)
(* namespace what it says, and never deletes what it found there, for any  *)
(* services, edits and faults; an external program, the settings of a      *)
(* target and a Compose document are what they were said to be; and all    *)
(* of it holds of the components in one run.                               *)
(***************************************************************************)
EXTENDS MCCore, UnlockedFilesProofs, FiniteSetTheorems, SequenceTheorems, TLAPS

------------------------------------------------------------------------------
(* Least and greatest numbers, and counting.                               *)

\* The interval below a number is finite, and intervals are ordered as numbers are.
LEMMA LeastNumber == ASSUME NEW S \in SUBSET Nat, S # {} PROVE \E m \in S : \A n \in S : m <= n
<1> DEFINE below == {0..n : n \in S}
<1>1. below # {}
  OBVIOUS
<1>2. below \subseteq FiniteSubsetsOf(Nat)
  <2>1. ASSUME NEW n \in S PROVE 0..n \in FiniteSubsetsOf(Nat)
    <3>1. IsFiniteSet(0..n) /\ n \in Nat
      BY FS_Interval
    <3> QED BY <3>1 DEF FiniteSubsetsOf
  <2> QED BY <2>1
<1>3. IsWellFoundedOn(StrictSubsetOrdering(Nat), FiniteSubsetsOf(Nat))
  BY FS_StrictSubsetOrderingWellFounded
<1>4. PICK T \in below : \A U \in below : <<U, T>> \notin StrictSubsetOrdering(Nat)
  <2> HIDE DEF below
  <2> QED BY <1>1, <1>2, <1>3, WFMin
<1>5. PICK m \in S : T = 0..m
  OBVIOUS
<1>6. ASSUME NEW n \in S, n < m PROVE FALSE
  <2>1. 0..n \in below
    OBVIOUS
  <2>2. 0..n \subseteq 0..m /\ m \in 0..m /\ m \notin 0..n /\ m \in Nat /\ n \in Nat
    BY <1>6
  <2>3. <<0..n, 0..m>> \in StrictSubsetOrdering(Nat)
    BY <2>2 DEF StrictSubsetOrdering
  <2> QED BY <1>4, <1>5, <2>1, <2>3
<1> QED
  <2>1. m \in Nat /\ \A n \in S : n \in Nat /\ ~(n < m)
    BY <1>6
  <2> QED BY <2>1

\* So has one that is bounded a greatest.
LEMMA GreatestNumber ==
    ASSUME NEW bound \in Nat, NEW S \in SUBSET (0..bound), S # {}
    PROVE  \E m \in S : \A n \in S : n <= m
<1> DEFINE mirror == {bound - n : n \in S}
<1>1. mirror \in SUBSET Nat /\ mirror # {}
  <2>1. ASSUME NEW n \in S PROVE bound - n \in Nat
    <3>1. n \in 0..bound
      OBVIOUS
    <3> QED BY <3>1
  <2>2. \A k \in mirror : k \in Nat
    BY <2>1
  <2> QED BY <2>2
<1>2. PICK k \in mirror : \A l \in mirror : k <= l
  <2> HIDE DEF mirror
  <2> QED BY <1>1, LeastNumber
<1>3. PICK m \in S : k = bound - m
  OBVIOUS
<1>4. ASSUME NEW n \in S PROVE n <= m
  <2>1. bound - n \in mirror
    OBVIOUS
  <2>2. bound - m <= bound - n
    BY <1>2, <1>3, <2>1
  <2>3. m \in 0..bound /\ n \in 0..bound
    OBVIOUS
  <2> QED BY <2>2, <2>3
<1> QED BY <1>4

\* A number has its place among finitely many, and every place is somebody's.
Rank(S, a) == Cardinality({b \in S : b <= a})

\* A rank is within the count ...
LEMMA RankBound ==
    ASSUME NEW S \in SUBSET Nat, IsFiniteSet(S), NEW a \in S
    PROVE  Rank(S, a) \in 1..Cardinality(S)
<1> DEFINE below == {b \in S : b <= a}
<1>1. below \in SUBSET S /\ a \in below /\ Rank(S, a) = Cardinality(below)
  BY DEF Rank
<1> HIDE DEF below
<1>2. IsFiniteSet(below) /\ Cardinality(below) <= Cardinality(S)
  BY <1>1, FS_Subset
<1>3. below # {}
  BY <1>1
<1>4. Cardinality(below) \in Nat /\ Cardinality(below) # 0 /\ Cardinality(S) \in Nat
  BY <1>2, <1>3, FS_CardinalityType, FS_EmptySet
<1> QED BY <1>1, <1>2, <1>4

\* ... grows with the number ...
LEMMA RankGrows ==
    ASSUME NEW S \in SUBSET Nat, IsFiniteSet(S), NEW a \in S, NEW c \in S, a < c
    PROVE  Rank(S, a) # Rank(S, c)
<1> DEFINE low == {b \in S : b <= a}
           high == {b \in S : b <= c}
<1>1. \A b \in S : b \in Nat
  OBVIOUS
<1>2. low \in SUBSET high /\ c \in high /\ c \notin low /\ high \in SUBSET S
  <2>1. \A b \in S : b <= a => b <= c
    BY <1>1
  <2>2. c <= c /\ ~(c <= a)
    BY <1>1
  <2> QED BY <2>1, <2>2
<1>3. Rank(S, a) = Cardinality(low) /\ Rank(S, c) = Cardinality(high)
  BY DEF Rank
<1> HIDE DEF low, high
<1>4. IsFiniteSet(high)
  BY <1>2, FS_Subset
<1> QED BY <1>2, <1>3, <1>4, FS_Subset

\* ... is of one number ...
LEMMA RankUnique ==
    ASSUME NEW S \in SUBSET Nat, IsFiniteSet(S), NEW a \in S, NEW c \in S, Rank(S, a) = Rank(S, c)
    PROVE  a = c
<1>1. ~(a < c) /\ ~(c < a)
  BY RankGrows
<1>2. a \in Nat /\ c \in Nat
  OBVIOUS
<1> QED BY <1>1, <1>2

\* ... and each is somebody's.
LEMMA RankTaken ==
    ASSUME NEW S \in SUBSET Nat, IsFiniteSet(S), NEW k \in 1..Cardinality(S)
    PROVE  \E a \in S : Rank(S, a) = k
<1> DEFINE T == 1..Cardinality(S)
           rank == [a \in S |-> Rank(S, a)]
<1>1. /\ rank \in [S -> T]
      /\ \A a, c \in S : rank[a] = rank[c] => a = c
      /\ \A a \in S : rank[a] = Rank(S, a)
  <2>1. \A a \in S : Rank(S, a) \in T
    BY RankBound
  <2>2. \A a, c \in S : Rank(S, a) = Rank(S, c) => a = c
    BY RankUnique
  <2> HIDE DEF T
  <2> QED BY <2>1, <2>2
<1>2. IsFiniteSet(T) /\ Cardinality(T) = Cardinality(S)
  BY FS_CardinalityType, FS_Interval
<1> HIDE DEF T, rank
<1>3. rank \in Injection(S, T)
  BY <1>1 DEF Injection, IsInjective
<1>4. rank \in Surjection(S, T)
  BY <1>2, <1>3, FS_Injection
<1>5. \A t \in T : \E a \in S : rank[a] = t
  BY <1>4 DEF Surjection
<1> QED BY <1>1, <1>5 DEF T

------------------------------------------------------------------------------
(* Prune and `down --all`.                                                 *)

\* What an operation that has planned under the lock knows: it selects what it
\* showed, nothing of another control namespace, and for a `prune` only what had
\* expired.
PruneSelects(o) ==
    /\ PruneRemoves(o)
    /\ pruneSeen[o] = pruneShown[o]
    /\ \A e \in PruneAliens : pruneSeen[o][e] = PruneGone
    /\ pruneTask[o] = "prune" =>
        \A e \in PruneEnvs : pruneSeen[o][e] # PruneGone => pruneSeen[o][e] <= pruneNow[o]

\* What a call still has to delete is as it was shown, but for the one that it
\* has just deleted.
PruneTodoKept(o) ==
    \A e \in pruneTodo[o] :
        /\ pruneSeen[o][e] # PruneGone
        /\ \/ pruneSpace[e] = pruneSeen[o][e]
           \/ prunePc[o] = "rereading" /\ e = PruneNext(o) /\ pruneSpace[e] = PruneGone

\* What it no longer has to delete is gone, or known to remain.
PruneDone(o) ==
    \A e \in PruneEnvs :
        pruneSeen[o][e] # PruneGone /\ e \notin pruneTodo[o] /\ e \notin pruneRemain[o]
            => pruneSpace[e] = PruneGone

PruneOwn(o) ==
    /\ prunePc[o] = "planned" \/ PruneCalling(o) => PruneSelects(o)
    /\ prunePc[o] = "succeeded" /\ PruneRemoves(o) => PruneSelects(o)
    /\ prunePc[o] = "planned" /\ pruneHeld = o =>
        /\ \A e \in PruneEnvs : pruneSeen[o][e] # PruneGone => pruneSpace[e] = pruneSeen[o][e]
        /\ pruneRemain[o] = {}
    /\ prunePc[o] \in {"start", "asking", "waiting", "owner", "planned", "dead"} =>
        pruneRemain[o] = {}
    /\ PruneCalling(o) => pruneHeld = o /\ PruneTodoKept(o) /\ PruneDone(o)
    /\ prunePc[o] = "succeeded" /\ PruneRemoves(o) /\ pruneHeld = o =>
        \A e \in PruneEnvs : pruneSeen[o][e] # PruneGone => pruneSpace[e] = PruneGone

PruneInv == PruneTypeOK /\ \A o \in Op : PruneOwn(o)

\* The next environment is one that is yet to be deleted.
LEMMA PruneNextTodo ==
    ASSUME PruneTypeOK, NEW o \in Op, pruneTodo[o] # {}
    PROVE  PruneNext(o) \in pruneTodo[o]
<1>1. pruneTodo[o] \in SUBSET Nat
  BY PruneAssumption DEF PruneTypeOK
<1>2. \E e \in pruneTodo[o] : \A f \in pruneTodo[o] : e <= f
  BY <1>1, LeastNumber
<1> QED BY <1>2 DEF PruneNext

\* The invariant holds at first.
LEMMA PruneInvInit == PruneInit => PruneInv
<1> USE PruneAssumption
<1> SUFFICES ASSUME PruneInit PROVE PruneInv
  OBVIOUS
<1>1. PruneTypeOK
  BY DEF PruneInit, PruneTypeOK, PruneNothing, PruneExpiries, PruneGone, PruneNever, PruneNobody
<1>2. ASSUME NEW o \in Op PROVE PruneOwn(o)
  BY DEF PruneInit, PruneOwn, PruneCalling
<1> QED BY <1>1, <1>2 DEF PruneInv

\* Selecting keeps the types.
LEMMA PruneChosenType ==
    ASSUME PruneTypeOK, NEW o \in Op
    PROVE  PruneChosen(o, pruneSpace) \in [PruneEnvs -> PruneExpiries]
BY DEF PruneTypeOK, PruneChosen, PruneExpiries

\* What others do while p holds the lock, and beside it.
PruneApart(p) ==
    /\ prunePc'[p] = prunePc[p] /\ pruneTask'[p] = pruneTask[p] /\ pruneNow'[p] = pruneNow[p]
    /\ pruneShown'[p] = pruneShown[p] /\ pruneSeen'[p] = pruneSeen[p]
    /\ pruneTodo'[p] = pruneTodo[p] /\ pruneRemain'[p] = pruneRemain[p]
    /\ pruneHeld = p <=> pruneHeld' = p
    /\ pruneHeld = p => \A e \in PruneEnvs \ PruneAliens : pruneSpace'[e] = pruneSpace[e]

\* What another does leaves an operation its own.
LEMMA PruneOthers == ASSUME PruneInv, NEW p \in Op, PruneApart(p) PROVE PruneOwn(p)'
<1> USE PruneAssumption
<1>1. /\ PruneOwn(p) /\ pruneTodo[p] \subseteq PruneEnvs
      /\ PruneCalling(p)' <=> PruneCalling(p)
      /\ PruneSelects(p)' <=> PruneSelects(p)
      /\ PruneRemoves(p)' <=> PruneRemoves(p)
      /\ PruneNext(p)' = PruneNext(p)
  BY DEF PruneInv, PruneTypeOK, PruneApart, PruneCalling, PruneSelects, PruneRemoves, PruneNext
<1>2. ASSUME pruneHeld = p, PruneSelects(p)
      PROVE  \A e \in PruneEnvs : pruneSeen[p][e] # PruneGone => pruneSpace'[e] = pruneSpace[e]
  BY <1>2 DEF PruneSelects, PruneApart
<1>3. ASSUME PruneCalling(p) PROVE PruneTodoKept(p)' /\ PruneDone(p)' /\ pruneHeld' = p
  BY <1>1, <1>2, <1>3 DEF PruneOwn, PruneApart, PruneTodoKept, PruneDone
<1>4. /\ prunePc[p] = "planned" /\ pruneHeld' = p =>
            \A e \in PruneEnvs : pruneSeen[p][e] # PruneGone => pruneSpace'[e] = pruneSeen[p][e]
      /\ prunePc[p] = "succeeded" /\ PruneRemoves(p) /\ pruneHeld' = p =>
            \A e \in PruneEnvs : pruneSeen[p][e] # PruneGone => pruneSpace'[e] = PruneGone
  BY <1>1, <1>2 DEF PruneOwn, PruneApart
<1> QED BY <1>1, <1>3, <1>4 DEF PruneOwn, PruneApart

------------------------------------------------------------------------------
(* The types.                                                              *)

PrunePcs == {"start", "asking", "waiting", "owner", "planned", "asserting", "finding",
             "deleting", "rereading", "succeeded", "failed", "dead", "over"}

\* The types of what an operation goes through, and of the faults that are left.
LEMMA PruneWayTypes ==
    ASSUME PruneTypeOK, NEW o \in Op,
           PruneStep(o) \/ PruneCancel(o) \/ PruneLapse(o) \/ PruneDie(o)
    PROVE  /\ prunePc' \in [Op -> PrunePcs]
           /\ \A p \in Op \ {o} : prunePc'[p] = prunePc[p]
           /\ pruneLeft' \in 0..PruneBudget
<1> USE PruneAssumption DEF PruneGo, PruneAt, PruneFault
<1>0. prunePc \in [Op -> PrunePcs] /\ pruneLeft \in 0..PruneBudget
  BY DEF PruneTypeOK, PrunePcs
<1>1. /\ \E where \in PrunePcs : prunePc' = [prunePc EXCEPT ![o] = where]
      /\ pruneLeft' = pruneLeft \/ (pruneLeft > 0 /\ pruneLeft' = pruneLeft - 1)
  <2>1. CASE PruneStart(o) \/ PruneAsk(o) \/ PruneWait(o) \/ PruneLook(o)
    BY <2>1 DEF PruneStart, PruneAsk, PruneWait, PruneLook, PrunePcs
  <2>2. CASE PruneBegin(o)
    BY <2>2 DEF PruneBegin, PrunePcs
  <2>3. CASE PruneFinish(o) \/ PruneExpire(o)
    BY <2>3 DEF PruneFinish, PruneExpire, PrunePcs
  <2>4. CASE PruneAssert(o)
    BY <2>4 DEF PruneAssert, PrunePcs
  <2>5. CASE PruneFind(o)
    BY <2>5 DEF PruneFind, PrunePcs
  <2>6. CASE PruneDelete(o) \/ PruneReread(o)
    BY <2>6 DEF PruneDelete, PruneReread, PrunePcs
  <2>7. CASE PruneOther(o)
    BY <2>7 DEF PruneOther, PrunePcs
  <2>8. CASE PruneCancel(o) \/ PruneDie(o)
    BY <2>8 DEF PruneCancel, PruneDie, PrunePcs
  <2>9. CASE PruneLapse(o)
    <3>1. prunePc[o] \in PrunePcs
      BY <1>0
    <3> QED BY <2>9, <3>1 DEF PruneLapse, PrunePcs
  <2> QED BY <2>1, <2>2, <2>3, <2>4, <2>5, <2>6, <2>7, <2>8, <2>9 DEF PruneStep
<1> QED BY <1>0, <1>1

\* The types of what it remembers.
LEMMA PruneSelfTypes ==
    ASSUME PruneTypeOK, NEW o \in Op,
           PruneStep(o) \/ PruneCancel(o) \/ PruneLapse(o) \/ PruneDie(o)
    PROVE  /\ pruneTask' \in [Op -> PruneTasks] /\ pruneNow' \in [Op -> 0..PruneHours]
           /\ pruneShown' \in [Op -> [PruneEnvs -> PruneExpiries]]
           /\ pruneSeen' \in [Op -> [PruneEnvs -> PruneExpiries]]
           /\ pruneClock' \in 0..PruneHours /\ pruneHeld' \in Op \union {PruneNobody}
<1> USE PruneAssumption DEF PruneTypeOK, pruneSelf
<1>1. CASE PruneStart(o) \/ PruneWait(o) \/ PruneBegin(o) \/ PruneFinish(o) \/ PruneExpire(o)
           \/ PruneOther(o)
  BY <1>1, SMTT(30) DEF PruneStart, PruneWait, PruneBegin, PruneFinish, PruneExpire, PruneOther
<1>2. CASE PruneAsk(o) \/ PruneLook(o)
  BY <1>2, PruneChosenType DEF PruneAsk, PruneLook
<1>3. CASE PruneAssert(o) \/ PruneFind(o) \/ PruneDelete(o) \/ PruneReread(o)
  BY <1>3 DEF PruneAssert, PruneFind, PruneDelete, PruneReread
<1>4. CASE PruneCancel(o) \/ PruneLapse(o) \/ PruneDie(o)
  BY <1>4 DEF PruneCancel, PruneLapse, PruneDie
<1> QED BY <1>1, <1>2, <1>3, <1>4 DEF PruneStep

\* How the namespaces may change: an `up` or a `down` of another operation, a
\* deletion, or one that was killed.
PruneDeletes(o) ==
    /\ prunePc[o] = "deleting"
    /\ pruneSpace' = [pruneSpace EXCEPT ![PruneNext(o)] = PruneGone]

\* An environment changes by a deletion or by the operation of another.
LEMMA PruneSpaceChange ==
    ASSUME NEW o \in Op, PruneStep(o) \/ PruneCancel(o) \/ PruneLapse(o) \/ PruneDie(o)
    PROVE  pruneSpace' = pruneSpace \/ PruneDeletes(o) \/ PruneOther(o)
<1>1. CASE PruneStart(o) \/ PruneAsk(o) \/ PruneWait(o) \/ PruneLook(o) \/ PruneBegin(o)
           \/ PruneFinish(o) \/ PruneExpire(o) \/ PruneAssert(o) \/ PruneFind(o) \/ PruneReread(o)
  BY <1>1 DEF PruneStart, PruneAsk, PruneWait, PruneLook, PruneBegin, PruneFinish, PruneExpire,
     PruneAssert, PruneFind, PruneReread
<1>2. CASE PruneDelete(o) \/ PruneCancel(o) \/ PruneLapse(o) \/ PruneDie(o)
  BY <1>2 DEF PruneDelete, PruneCancel, PruneLapse, PruneDie, PruneHalf, PruneDeletes
<1> QED BY <1>1, <1>2 DEF PruneStep

\* Either leaves an expiry, or nothing.
LEMMA PruneSpaceType ==
    ASSUME PruneTypeOK, NEW o \in Op, PruneStep(o) \/ PruneCancel(o) \/ PruneLapse(o) \/ PruneDie(o)
    PROVE  pruneSpace' \in [PruneEnvs -> PruneExpiries]
<1> USE PruneAssumption DEF PruneTypeOK
<1>1. pruneClock + 1 \in PruneExpiries /\ PruneGone \in PruneExpiries
  BY DEF PruneExpiries
<1>2. CASE PruneDeletes(o)
  BY <1>1, <1>2 DEF PruneDeletes
<1>3. CASE PruneOther(o)
  BY <1>1, <1>3 DEF PruneOther
<1> QED BY <1>2, <1>3, PruneSpaceChange

\* What a call has to delete.
LEMMA PruneTodoTypes ==
    ASSUME PruneTypeOK, NEW o \in Op,
           PruneStep(o) \/ PruneCancel(o) \/ PruneLapse(o) \/ PruneDie(o)
    PROVE  /\ pruneTodo' \in [Op -> SUBSET PruneEnvs] /\ pruneRemain' \in [Op -> SUBSET PruneEnvs]
           /\ \A p \in Op \ {o} : pruneTodo'[p] = pruneTodo[p] /\ pruneRemain'[p] = pruneRemain[p]
           /\ prunePc'[o] \in {"finding", "deleting", "rereading"} => pruneTodo'[o] # {}
<1> USE PruneAssumption DEF PruneTypeOK, pruneCall, PruneGo, PruneAt, PruneCalling
<1>1. CASE PruneStart(o) \/ PruneWait(o) \/ PruneLook(o) \/ PruneAsk(o)
  BY <1>1 DEF PruneStart, PruneWait, PruneLook, PruneAsk
<1>2. CASE PruneBegin(o)
  <2>1. PruneSet(pruneSeen[o]) \subseteq PruneEnvs
    BY DEF PruneSet
  <2> QED BY <1>2, <2>1 DEF PruneBegin
<1>3. CASE PruneFinish(o) \/ PruneExpire(o) \/ PruneOther(o)
  BY <1>3 DEF PruneFinish, PruneExpire, PruneOther
<1>4. CASE PruneAssert(o)
  BY <1>4 DEF PruneAssert
<1>5. CASE PruneFind(o)
  <2>1. pruneTodo' = pruneTodo \/ pruneTodo' = [pruneTodo EXCEPT ![o] = @ \ {PruneNext(o)}]
    BY <1>5 DEF PruneFind, PruneDrop
  <2>2. prunePc'[o] \in {"finding", "deleting", "rereading"} => pruneTodo' = pruneTodo
    BY <1>5 DEF PruneFind
  <2>3. pruneTodo[o] # {} /\ UNCHANGED pruneRemain
    BY <1>5 DEF PruneFind
  <2> QED BY <2>1, <2>2, <2>3
<1>6. CASE PruneDelete(o)
  BY <1>6 DEF PruneDelete
<1>7. CASE PruneReread(o)
  <2>1. PruneNext(o) \in PruneEnvs
    BY <1>7, PruneNextTodo DEF PruneReread
  <2>2. pruneTodo' = pruneTodo \/ pruneTodo' = [pruneTodo EXCEPT ![o] = @ \ {PruneNext(o)}]
    BY <1>7 DEF PruneReread, PruneDrop
  <2>3. \E more \in {{}, {PruneNext(o)}} :
            pruneRemain' = [pruneRemain EXCEPT ![o] = @ \union more]
    BY <1>7 DEF PruneReread
  <2>4. prunePc'[o] \in {"asserting", "failed"}
    BY <1>7 DEF PruneReread
  <2>5. pruneTodo' \in [Op -> SUBSET PruneEnvs]
        /\ \A p \in Op \ {o} : pruneTodo'[p] = pruneTodo[p]
    BY <2>2, SMTT(30)
  <2>6. pruneRemain' \in [Op -> SUBSET PruneEnvs]
        /\ \A p \in Op \ {o} : pruneRemain'[p] = pruneRemain[p]
    BY <2>1, <2>3
  <2> QED BY <2>4, <2>5, <2>6
<1>8. CASE PruneCancel(o) \/ PruneLapse(o) \/ PruneDie(o)
  BY <1>8 DEF PruneCancel, PruneLapse, PruneDie
<1> QED BY <1>1, <1>2, <1>3, <1>4, <1>5, <1>6, <1>7, <1>8 DEF PruneStep

\* Each step keeps the types.
LEMMA PruneTypes ==
    ASSUME PruneTypeOK, NEW o \in Op,
           PruneStep(o) \/ PruneCancel(o) \/ PruneLapse(o) \/ PruneDie(o)
    PROVE  PruneTypeOK'
<1>1. \A p \in Op : prunePc'[p] \in {"finding", "deleting", "rereading"} => pruneTodo'[p] # {}
  BY PruneWayTypes, PruneTodoTypes DEF PruneTypeOK
<1> QED BY <1>1, PruneWayTypes, PruneSelfTypes, PruneSpaceType, PruneTodoTypes
        DEF PruneTypeOK, PrunePcs

------------------------------------------------------------------------------
(* The steps.                                                              *)

\* Only the process that holds the lock, or nobody, changes who holds it, and an
\* environment of this control namespace.
LEMMA PruneSpares ==
    ASSUME PruneInv, NEW o \in Op, NEW p \in Op \ {o},
           PruneStep(o) \/ PruneCancel(o) \/ PruneLapse(o) \/ PruneDie(o)
    PROVE  PruneApart(p)
<1> USE PruneAssumption DEF PruneInv
<1>1. /\ prunePc'[p] = prunePc[p] /\ pruneTodo'[p] = pruneTodo[p] /\ pruneRemain'[p] = pruneRemain[p]
  BY PruneWayTypes, PruneTodoTypes
<1>2. /\ pruneTask'[p] = pruneTask[p] /\ pruneNow'[p] = pruneNow[p]
      /\ pruneShown'[p] = pruneShown[p] /\ pruneSeen'[p] = pruneSeen[p]
  <2> USE DEF PruneTypeOK, pruneSelf
  <2>1. CASE PruneStart(o) \/ PruneAsk(o) \/ PruneLook(o)
    BY <2>1 DEF PruneStart, PruneAsk, PruneLook
  <2>2. CASE PruneWait(o) \/ PruneBegin(o) \/ PruneFinish(o) \/ PruneExpire(o) \/ PruneOther(o)
    BY <2>2 DEF PruneWait, PruneBegin, PruneFinish, PruneExpire, PruneOther
  <2>3. CASE PruneAssert(o) \/ PruneFind(o) \/ PruneDelete(o) \/ PruneReread(o)
    BY <2>3 DEF PruneAssert, PruneFind, PruneDelete, PruneReread
  <2>4. CASE PruneCancel(o) \/ PruneLapse(o) \/ PruneDie(o)
    BY <2>4 DEF PruneCancel, PruneLapse, PruneDie
  <2> QED BY <2>1, <2>2, <2>3, <2>4 DEF PruneStep
<1>3. pruneHeld = p <=> pruneHeld' = p
  <2> USE DEF PruneNobody
  <2>1. CASE PruneStart(o) \/ PruneAsk(o) \/ PruneLook(o) \/ PruneBegin(o) \/ PruneOther(o)
    BY <2>1 DEF PruneStart, PruneAsk, PruneLook, PruneBegin, PruneOther
  <2>2. CASE PruneWait(o) \/ PruneFinish(o) \/ PruneExpire(o)
    BY <2>2 DEF PruneWait, PruneFinish, PruneExpire
  <2>3. CASE PruneAssert(o) \/ PruneFind(o) \/ PruneDelete(o) \/ PruneReread(o)
    BY <2>3 DEF PruneAssert, PruneFind, PruneDelete, PruneReread
  <2>4. CASE PruneCancel(o) \/ PruneLapse(o) \/ PruneDie(o)
    BY <2>4 DEF PruneCancel, PruneLapse, PruneDie
  <2> QED BY <2>1, <2>2, <2>3, <2>4 DEF PruneStep
<1>4. pruneHeld = p => pruneSpace' = pruneSpace
  <2>1. CASE PruneDeletes(o)
    BY <2>1 DEF PruneDeletes, PruneOwn, PruneCalling
  <2>2. CASE PruneOther(o)
    BY <2>2 DEF PruneOther
  <2> QED BY <2>1, <2>2, PruneSpaceChange
<1> QED BY <1>1, <1>2, <1>3, <1>4 DEF PruneApart

\* What o does before its call begins keeps what it knows.
LEMMA PruneBeforeOwn ==
    ASSUME PruneInv, NEW o \in Op,
           PruneStart(o) \/ PruneAsk(o) \/ PruneWait(o) \/ PruneExpire(o) \/ PruneOther(o)
           \/ PruneFinish(o)
    PROVE  PruneOwn(o)'
<1> USE PruneAssumption DEF PruneInv, PruneTypeOK, PruneGo, PruneAt, pruneSelf, pruneCall
<1>1. CASE PruneStart(o)
  BY <1>1 DEF PruneStart, PruneOwn, PruneCalling
<1>2. CASE PruneAsk(o)
  BY <1>2 DEF PruneAsk, PruneOwn, PruneCalling
<1>3. CASE PruneWait(o)
  BY <1>3 DEF PruneWait, PruneOwn, PruneCalling
<1>4. CASE PruneExpire(o)
  BY <1>4 DEF PruneExpire, PruneOwn, PruneCalling
<1>5. CASE PruneOther(o)
  BY <1>5 DEF PruneOther, PruneOwn, PruneCalling, PruneRemoves
<1>6. CASE PruneFinish(o)
  <2>1. prunePc'[o] \in {"over", "start"} /\ pruneRemain'[o] = {}
    BY <1>6 DEF PruneFinish
  <2> QED BY <2>1 DEF PruneOwn, PruneCalling
<1> QED BY <1>1, <1>2, <1>3, <1>4, <1>5, <1>6

\* What it selects under the lock is what it showed.
LEMMA PruneLookOwn == ASSUME PruneInv, NEW o \in Op, PruneLook(o) PROVE PruneOwn(o)'
<1> USE PruneAssumption DEF PruneInv, PruneTypeOK
<1> DEFINE list == PruneChosen(o, pruneSpace)
<1>1. /\ pruneSeen'[o] = list /\ prunePc'[o] \in {"planned", "failed"} /\ PruneRemoves(o)
      /\ prunePc'[o] = "planned" => list = pruneShown[o] /\ PrunePlannable
      /\ prunePc[o] = "owner"
      /\ UNCHANGED <<pruneSpace, pruneHeld, pruneTask, pruneNow, pruneShown, pruneTodo, pruneRemain>>
  BY DEF PruneLook, PruneGo, pruneCall
<1>2. \A e \in PruneEnvs :
        /\ list[e] # PruneGone => list[e] = pruneSpace[e]
        /\ pruneTask[o] = "prune" /\ list[e] # PruneGone => list[e] <= pruneNow[o]
  BY DEF PruneChosen, PruneExpired
<1>3. prunePc'[o] = "planned" => PruneSelects(o)'
  <2> SUFFICES ASSUME prunePc'[o] = "planned" PROVE PruneSelects(o)'
    OBVIOUS
  <2>1. \A e \in PruneAliens : list[e] = PruneGone
    BY <1>1, <1>2 DEF PrunePlannable
  <2> HIDE DEF list
  <2> QED BY <1>1, <1>2, <2>1 DEF PruneSelects, PruneRemoves
<1> HIDE DEF list
<1> QED BY <1>1, <1>2, <1>3 DEF PruneOwn, PruneCalling

\* The call begins with everything it has to delete as it was shown.
LEMMA PruneBeginOwn == ASSUME PruneInv, NEW o \in Op, PruneBegin(o) PROVE PruneOwn(o)'
<1> USE PruneAssumption DEF PruneInv, PruneTypeOK
<1>1. /\ prunePc[o] = "planned" /\ prunePc'[o] \in {"asserting", "failed"}
      /\ prunePc'[o] = "asserting" => pruneHeld = o /\ pruneTodo'[o] = PruneSet(pruneSeen[o])
      /\ UNCHANGED <<pruneSpace, pruneHeld, pruneTask, pruneNow, pruneShown, pruneSeen, pruneRemain>>
  BY DEF PruneBegin, PruneGo, pruneSelf
<1>2. PruneSelects(o)' <=> PruneSelects(o)
  BY <1>1 DEF PruneSelects, PruneRemoves
<1>3. CASE prunePc'[o] = "failed"
  BY <1>3 DEF PruneOwn, PruneCalling
<1>4. CASE prunePc'[o] = "asserting"
  <2>1. \A e \in PruneEnvs : pruneSeen[o][e] # PruneGone => pruneSpace[e] = pruneSeen[o][e]
    BY <1>1, <1>4 DEF PruneOwn
  <2>2. PruneTodoKept(o)' /\ PruneDone(o)'
    BY <1>1, <1>4, <2>1 DEF PruneTodoKept, PruneDone, PruneSet
  <2> QED BY <1>1, <1>2, <1>4, <2>2 DEF PruneOwn, PruneCalling
<1> QED BY <1>1, <1>3, <1>4

\* The answer is success only when nothing is left to delete and nothing remained.
LEMMA PruneAssertOwn == ASSUME PruneInv, NEW o \in Op, PruneAssert(o) PROVE PruneOwn(o)'
<1> USE PruneAssumption DEF PruneInv, PruneTypeOK
<1>1. /\ prunePc[o] = "asserting" /\ prunePc'[o] \in {"finding", "succeeded", "failed"}
      /\ prunePc'[o] = "succeeded" => pruneTodo[o] = {} /\ pruneRemain[o] = {}
      /\ UNCHANGED <<pruneSpace, pruneHeld, pruneTask, pruneNow, pruneShown, pruneSeen, pruneTodo,
                     pruneRemain>>
  BY DEF PruneAssert, PruneGo, pruneSelf, pruneCall
<1>2. PruneSelects(o)' <=> PruneSelects(o)
  BY <1>1 DEF PruneSelects, PruneRemoves
<1>3. pruneHeld = o /\ PruneTodoKept(o) /\ PruneDone(o) /\ PruneSelects(o)
  BY <1>1 DEF PruneOwn, PruneCalling
<1>4. PruneTodoKept(o)' /\ PruneDone(o)'
  BY <1>1, <1>3 DEF PruneTodoKept, PruneDone
<1>5. prunePc'[o] = "succeeded" =>
        \A e \in PruneEnvs : pruneSeen[o][e] # PruneGone => pruneSpace[e] = PruneGone
  BY <1>1, <1>3 DEF PruneDone
<1> QED BY <1>1, <1>2, <1>3, <1>4, <1>5 DEF PruneOwn, PruneCalling

\* One that is already gone is dropped, one that is there is deleted.
LEMMA PruneFindOwn == ASSUME PruneInv, NEW o \in Op, PruneFind(o) PROVE PruneOwn(o)'
<1> USE PruneAssumption DEF PruneInv, PruneTypeOK
<1>1. /\ prunePc[o] = "finding" /\ prunePc'[o] \in {"deleting", "asserting", "failed"}
      /\ \/ UNCHANGED pruneTodo
         \/ pruneTodo'[o] = pruneTodo[o] \ {PruneNext(o)} /\ pruneSpace[PruneNext(o)] = PruneGone
      /\ UNCHANGED <<pruneSpace, pruneHeld, pruneTask, pruneNow, pruneShown, pruneSeen, pruneRemain>>
  BY DEF PruneFind, PruneDrop, PruneGo, pruneSelf
<1>2. PruneSelects(o)' <=> PruneSelects(o)
  BY <1>1 DEF PruneSelects, PruneRemoves
<1>3. pruneHeld = o /\ PruneTodoKept(o) /\ PruneDone(o) /\ PruneSelects(o)
  BY <1>1 DEF PruneOwn, PruneCalling
<1>4. PruneTodoKept(o)' /\ PruneDone(o)'
  BY <1>1, <1>3 DEF PruneTodoKept, PruneDone
<1> QED BY <1>1, <1>2, <1>3, <1>4 DEF PruneOwn, PruneCalling

\* What is deleted is what was to be deleted next.
LEMMA PruneDeleteOwn == ASSUME PruneInv, NEW o \in Op, PruneDelete(o) PROVE PruneOwn(o)'
<1> USE PruneAssumption DEF PruneInv, PruneTypeOK
<1>1. /\ prunePc[o] = "deleting" /\ prunePc'[o] \in {"rereading", "failed"}
      /\ UNCHANGED <<pruneHeld, pruneTask, pruneNow, pruneShown, pruneSeen, pruneTodo, pruneRemain>>
      /\ prunePc'[o] = "rereading" => pruneSpace' = [pruneSpace EXCEPT ![PruneNext(o)] = PruneGone]
  BY DEF PruneDelete, PruneGo, pruneSelf, pruneCall
<1>2. (PruneSelects(o)' <=> PruneSelects(o)) /\ PruneNext(o)' = PruneNext(o)
  BY <1>1 DEF PruneSelects, PruneRemoves, PruneNext
<1>3. pruneHeld = o /\ PruneTodoKept(o) /\ PruneDone(o) /\ PruneSelects(o)
  BY <1>1 DEF PruneOwn, PruneCalling
<1>4. CASE prunePc'[o] = "failed"
  BY <1>4 DEF PruneOwn, PruneCalling
<1>5. CASE prunePc'[o] = "rereading"
  <2>1. pruneTodo[o] \subseteq PruneEnvs /\ PruneNext(o) \in PruneEnvs
    BY <1>1, PruneNextTodo
  <2>2. PruneTodoKept(o)'
    BY <1>1, <1>2, <1>3, <1>5, <2>1 DEF PruneTodoKept
  <2>3. PruneDone(o)'
    BY <1>1, <1>3, <1>5, <2>1 DEF PruneDone
  <2> QED BY <1>1, <1>2, <1>3, <1>5, <2>2, <2>3 DEF PruneOwn, PruneCalling
<1> QED BY <1>1, <1>4, <1>5

\* What is still there after its deletion is reported.
LEMMA PruneRereadOwn == ASSUME PruneInv, NEW o \in Op, PruneReread(o) PROVE PruneOwn(o)'
<1> USE PruneAssumption DEF PruneInv, PruneTypeOK
<1>1. /\ prunePc[o] = "rereading" /\ prunePc'[o] \in {"asserting", "failed"}
      /\ UNCHANGED <<pruneSpace, pruneHeld, pruneTask, pruneNow, pruneShown, pruneSeen>>
      /\ prunePc'[o] = "asserting" =>
            /\ pruneTodo'[o] = pruneTodo[o] \ {PruneNext(o)}
            /\ pruneRemain'[o] = IF pruneSpace[PruneNext(o)] = PruneGone THEN pruneRemain[o]
                                 ELSE pruneRemain[o] \union {PruneNext(o)}
  BY DEF PruneReread, PruneDrop, PruneGo, pruneSelf
<1>2. PruneSelects(o)' <=> PruneSelects(o)
  BY <1>1 DEF PruneSelects, PruneRemoves
<1>3. pruneHeld = o /\ PruneTodoKept(o) /\ PruneDone(o) /\ PruneSelects(o)
  BY <1>1 DEF PruneOwn, PruneCalling
<1>4. CASE prunePc'[o] = "failed"
  BY <1>4 DEF PruneOwn, PruneCalling
<1>5. CASE prunePc'[o] = "asserting"
  <2>1. PruneTodoKept(o)'
    <3>1. \A e \in pruneTodo'[o] : pruneSeen[o][e] # PruneGone /\ pruneSpace[e] = pruneSeen[o][e]
      <4>1. pruneTodo'[o] = pruneTodo[o] \ {PruneNext(o)}
        BY <1>1, <1>5
      <4> QED BY <1>3, <4>1 DEF PruneTodoKept
    <3> QED BY <1>1, <3>1 DEF PruneTodoKept
  <2>2. PruneDone(o)'
    BY <1>1, <1>3, <1>5 DEF PruneDone
  <2> QED BY <1>1, <1>2, <1>3, <1>5, <2>1, <2>2 DEF PruneOwn, PruneCalling
<1> QED BY <1>1, <1>4, <1>5

\* A call that is killed, or whose process dies, is over; a lock that lapses before
\* the call begins is not the planner's any more.
LEMMA PruneKilledOwn ==
    ASSUME PruneInv, NEW o \in Op, PruneCancel(o) \/ PruneLapse(o) \/ PruneDie(o)
    PROVE  PruneOwn(o)'
<1> USE PruneAssumption DEF PruneInv, PruneTypeOK
<1>1. CASE PruneCancel(o)
  BY <1>1 DEF PruneCancel, PruneGo, PruneOwn, PruneCalling
<1>2. CASE PruneDie(o)
  BY <1>2 DEF PruneDie, PruneGo, PruneOwn, PruneCalling
<1>3. CASE PruneLapse(o)
  <2>1. /\ prunePc'[o] = (IF PruneCalling(o) THEN "failed" ELSE prunePc[o])
        /\ pruneHeld' # o
        /\ UNCHANGED <<pruneTask, pruneNow, pruneShown, pruneSeen, pruneTodo, pruneRemain>>
    BY <1>3 DEF PruneLapse, PruneGo, PruneNobody, pruneSelf, pruneCall
  <2>2. PruneSelects(o)' <=> PruneSelects(o)
    BY <2>1 DEF PruneSelects, PruneRemoves
  <2>3. PruneRemoves(o)' <=> PruneRemoves(o)
    BY <2>1 DEF PruneRemoves
  <2> QED BY <2>1, <2>2, <2>3 DEF PruneOwn, PruneCalling
<1> QED BY <1>1, <1>2, <1>3

\* Each step keeps the invariant.
LEMMA PruneInvStep == PruneInv /\ [PruneNextState]_pruneVars => PruneInv'
<1> USE PruneAssumption
<1> SUFFICES ASSUME PruneInv, [PruneNextState]_pruneVars PROVE PruneInv'
  OBVIOUS
<1>1. ASSUME NEW o \in Op, PruneStep(o) \/ PruneCancel(o) \/ PruneLapse(o) \/ PruneDie(o)
      PROVE  PruneInv'
  <2>1. PruneOwn(o)'
    BY <1>1, PruneBeforeOwn, PruneLookOwn, PruneBeginOwn, PruneAssertOwn, PruneFindOwn,
       PruneDeleteOwn, PruneRereadOwn, PruneKilledOwn DEF PruneStep
  <2>2. ASSUME NEW p \in Op \ {o} PROVE PruneOwn(p)'
    BY <1>1, PruneSpares, PruneOthers
  <2> QED BY <1>1, <2>1, <2>2, PruneTypes DEF PruneInv
<1>2. CASE PruneElsewhere
  <2>1. PruneTypeOK'
    BY <1>2 DEF PruneElsewhere, PruneInv, PruneTypeOK, PruneFault, pruneSelf, pruneCall, PruneExpiries
  <2>2. ASSUME NEW p \in Op PROVE PruneApart(p)
    BY <1>2 DEF PruneElsewhere, PruneApart, PruneInv, PruneTypeOK, pruneSelf, pruneCall
  <2> QED BY <2>1, <2>2, PruneOthers DEF PruneInv
<1>3. CASE PruneTick
  <2>1. PruneTypeOK'
    BY <1>3 DEF PruneTick, PruneInv, PruneTypeOK, pruneSelf, pruneCall
  <2>2. ASSUME NEW p \in Op PROVE PruneApart(p)
    BY <1>3 DEF PruneTick, PruneApart, pruneSelf, pruneCall
  <2> QED BY <2>1, <2>2, PruneOthers DEF PruneInv
<1>4. CASE UNCHANGED pruneVars
  <2>1. PruneTypeOK'
    BY <1>4 DEF pruneVars, PruneInv, PruneTypeOK, pruneSelf, pruneCall
  <2>2. ASSUME NEW p \in Op PROVE PruneApart(p)
    BY <1>4 DEF pruneVars, PruneApart, pruneSelf, pruneCall
  <2> QED BY <2>1, <2>2, PruneOthers DEF PruneInv
<1> QED BY <1>1, <1>2, <1>3, <1>4 DEF PruneNextState

\* It holds in every state.
LEMMA PruneInvariant == PruneSpec => []PruneInv
BY PruneInvInit, PruneInvStep, PTL DEF PruneSpec

\* The types of a removal and of the operations beside it, for any number of
\* operations and environments; a deletion has an environment left to delete.
THEOREM PruneTypeCorrect == PruneSpec => []PruneTypeOK
<1>1. PruneInv => PruneTypeOK
  BY DEF PruneInv
<1> QED BY <1>1, PruneInvariant, PTL

\* A removal that succeeds with its lock has left none of what it selected.
THEOREM PrunedIsGone == PruneSpec => []PruneSuccessIsWhole
<1>1. PruneInv => PruneSuccessIsWhole
  BY DEF PruneInv, PruneOwn, PruneSuccessIsWhole, PruneSet
<1> QED BY <1>1, PruneInvariant, PTL

\* A removal deletes only what its user was shown, as it was shown, and a
\* `prune` only what had expired when it started.
THEOREM PruneDeletesTheShown == PruneSpec => PruneSparesTheRest
<1> USE PruneAssumption
<1>1. ASSUME PruneInv, PruneNextState, NEW o \in Op, NEW e \in PruneEnvs,
             prunePc[o] = "deleting", prunePc'[o] # "deleting", pruneSpace'[e] # pruneSpace[e]
      PROVE  /\ pruneShown[o][e] = pruneSpace[e]
             /\ pruneTask[o] = "prune" => pruneSpace[e] <= pruneNow[o]
  <2>1. PruneStep(o) \/ PruneCancel(o) \/ PruneLapse(o) \/ PruneDie(o)
    BY <1>1, PruneWayTypes DEF PruneNextState, PruneElsewhere, PruneTick, PruneInv
  <2>2. pruneTodo[o] # {} /\ pruneSpace \in [PruneEnvs -> PruneExpiries]
    BY <1>1 DEF PruneInv, PruneTypeOK
  <2>3. e = PruneNext(o) /\ e \in pruneTodo[o]
    <3>1. PruneDeletes(o)
      BY <1>1, <2>1, PruneSpaceChange DEF PruneOther
    <3> QED BY <1>1, <2>2, <3>1, PruneNextTodo DEF PruneDeletes, PruneInv
  <2>4. PruneSelects(o) /\ PruneTodoKept(o)
    BY <1>1 DEF PruneInv, PruneOwn, PruneCalling
  <2> QED BY <1>1, <2>3, <2>4 DEF PruneSelects, PruneTodoKept
<1>2. PruneInv /\ [PruneNextState]_pruneVars =>
        [\A o \in Op, e \in PruneEnvs :
            prunePc[o] = "deleting" /\ prunePc'[o] # "deleting" /\ pruneSpace'[e] # pruneSpace[e] =>
                /\ pruneShown[o][e] = pruneSpace[e]
                /\ pruneTask[o] = "prune" => pruneSpace[e] <= pruneNow[o]]_pruneVars
  BY <1>1
<1> QED BY <1>2, PruneInvariant, PTL DEF PruneSpec, PruneSparesTheRest
------------------------------------------------------------------------------
(* The core's reading of a plugin's journal.                               *)

\* The place and the number of the inverses that are added to a journal.
ClaimRank(plan, list, a) == Rank(ClaimAdditions(plan, list), a)
ClaimCount(plan, list) == Cardinality(ClaimAdditions(plan, list))
ClaimNth(plan, list, k) ==
    CHOOSE a \in ClaimAdditions(plan, list) :
        Cardinality({b \in ClaimAdditions(plan, list) : b <= a}) = k

\* Sequence numbers do not decrease.
ClaimOrdered(list) ==
    \A i, j \in DOMAIN list : i <= j => list[i].sequence <= list[j].sequence

\* What the core adds to a journal are some of the actions.
LEMMA ClaimAdditionsFinite ==
    ASSUME NEW plan, NEW list
    PROVE  /\ ClaimAdditions(plan, list) \in SUBSET Nat /\ IsFiniteSet(ClaimAdditions(plan, list))
           /\ ClaimAdditions(plan, list) \in SUBSET ClaimActions
<1>1. ClaimAdditions(plan, list) \in SUBSET ClaimActions
  BY DEF ClaimAdditions
<1> QED BY <1>1, ClaimAssumption, FS_Subset

\* Each planned inverse that the journal lacks is added once.
LEMMA ClaimPlaced ==
    ASSUME NEW plan, NEW list, NEW k \in 1..ClaimCount(plan, list)
    PROVE  ClaimNth(plan, list, k) \in ClaimAdditions(plan, list) /\ ClaimRank(plan, list, ClaimNth(plan, list, k)) = k
<1>1. \E a \in ClaimAdditions(plan, list) : Rank(ClaimAdditions(plan, list), a) = k
  BY RankTaken, ClaimAdditionsFinite DEF ClaimCount
<1>2. ClaimNth(plan, list, k) = CHOOSE a \in ClaimAdditions(plan, list) : Rank(ClaimAdditions(plan, list), a) = k
  BY DEF ClaimNth, Rank
<1> QED BY <1>1, <1>2 DEF ClaimRank

\* Each has its place behind the journal.
LEMMA ClaimPlaceOf ==
    ASSUME NEW plan, NEW list, NEW a \in ClaimAdditions(plan, list)
    PROVE  /\ ClaimRank(plan, list, a) \in 1..ClaimCount(plan, list)
           /\ ClaimNth(plan, list, ClaimRank(plan, list, a)) = a
<1>1. ClaimRank(plan, list, a) \in 1..ClaimCount(plan, list)
  BY RankBound, ClaimAdditionsFinite DEF ClaimCount, ClaimRank
<1>2. /\ ClaimNth(plan, list, ClaimRank(plan, list, a)) \in ClaimAdditions(plan, list)
      /\ ClaimRank(plan, list, ClaimNth(plan, list, ClaimRank(plan, list, a))) = ClaimRank(plan, list, a)
  BY <1>1, ClaimPlaced
<1> QED BY <1>1, <1>2, RankUnique, ClaimAdditionsFinite DEF ClaimRank

\* The highest sequence number.
LEMMA ClaimHighestIs ==
    ASSUME NEW list \in Seq(ClaimEntry), ClaimOrdered(list)
    PROVE  ClaimHighest(list) \in Nat /\ \A i \in DOMAIN list : list[i].sequence <= ClaimHighest(list)
<1>1. CASE list = <<>>
  BY <1>1 DEF ClaimHighest
<1>2. CASE list # <<>>
  <2> DEFINE numbers == {list[i].sequence : i \in DOMAIN list}
  <2>1. Len(list) \in DOMAIN list /\ \A i \in DOMAIN list : i <= Len(list)
    BY <1>2, EmptySeq, LenProperties
  <2>2. list[Len(list)].sequence \in numbers
        /\ \A i \in DOMAIN list : list[i].sequence <= list[Len(list)].sequence
    BY <2>1 DEF ClaimOrdered
  <2>3. \A n \in numbers : n \in Nat
    <3>1. \A i \in DOMAIN list : list[i] \in ClaimEntry
      BY LenProperties
    <3> QED BY <3>1 DEF ClaimEntry
  <2>4. ClaimHighest(list) =
            CHOOSE n \in numbers : \A i \in DOMAIN list : list[i].sequence <= n
    BY <1>2 DEF ClaimHighest
  <2> HIDE DEF numbers
  <2> QED BY <2>2, <2>3, <2>4
<1> QED BY <1>1, <1>2

\* What is added behind a journal.
ClaimAdded(plan, list, k) ==
    [sequence |-> ClaimHighest(list) + k, action |-> ClaimNth(plan, list, k),
     status |-> ClaimLastStatus(list, ClaimNth(plan, list, k)), inverse |-> plan[ClaimNth(plan, list, k)]]

\* The status of an action's last entry.
ClaimIsLast(list, a, i) == i \in ClaimOf(list, a) /\ \A j \in ClaimOf(list, a) : j <= i

\* An action that a journal names has a last entry ...
LEMMA ClaimLastIs ==
    ASSUME NEW list \in Seq(ClaimEntry), NEW a, ClaimOf(list, a) # {}
    PROVE  \E i : ClaimIsLast(list, a, i) /\ ClaimLastStatus(list, a) = list[i].status
<1> DEFINE I == ClaimOf(list, a)
<1>1. Len(list) \in Nat /\ I \in SUBSET (0..Len(list)) /\ I # {}
  BY LenProperties DEF ClaimOf
<1>2. ClaimLastStatus(list, a) = list[CHOOSE i \in I : \A j \in I : j <= i].status
  BY DEF ClaimLastStatus
<1> HIDE DEF I
<1>3. \E i \in I : \A j \in I : j <= i
  BY <1>1, GreatestNumber
<1>4. /\ (CHOOSE i \in I : \A j \in I : j <= i) \in I
      /\ \A j \in I : j <= (CHOOSE i \in I : \A h \in I : h <= i)
  BY <1>3
<1> QED BY <1>2, <1>4 DEF I, ClaimIsLast

\* ... and only one.
LEMMA ClaimLastOnly ==
    ASSUME NEW list \in Seq(ClaimEntry), NEW a, NEW i, NEW j,
           ClaimIsLast(list, a, i), ClaimIsLast(list, a, j)
    PROVE  i = j
<1>1. i \in Nat /\ j \in Nat
  BY LenProperties DEF ClaimIsLast, ClaimOf
<1> QED BY <1>1 DEF ClaimIsLast

\* The last status is a status.
LEMMA ClaimLastType ==
    ASSUME NEW list \in Seq(ClaimEntry), NEW a PROVE ClaimLastStatus(list, a) \in ClaimStatuses
<1>1. CASE ClaimOf(list, a) = {}
  BY <1>1 DEF ClaimLastStatus, ClaimStatuses
<1>2. CASE ClaimOf(list, a) # {}
  <2>1. PICK i : ClaimIsLast(list, a, i) /\ ClaimLastStatus(list, a) = list[i].status
    BY <1>2, ClaimLastIs
  <2>2. list[i] \in ClaimEntry
    BY <2>1, LenProperties DEF ClaimIsLast, ClaimOf
  <2> QED BY <2>1, <2>2 DEF ClaimEntry
<1> QED BY <1>1, <1>2

\* The completed journal, entry by entry.
LEMMA ClaimCompleted ==
    ASSUME NEW list \in Seq(ClaimEntry), ClaimOrdered(list),
           NEW plan \in [ClaimActions -> {"none", "supported", "unsupported"}]
    PROVE  /\ ClaimComplete(plan, list) \in Seq(ClaimEntry)
           /\ Len(list) \in Nat /\ ClaimCount(plan, list) \in Nat
           /\ DOMAIN ClaimComplete(plan, list) = 1..(Len(list) + ClaimCount(plan, list))
           /\ DOMAIN list = 1..Len(list)
           /\ \A i \in 1..Len(list) : ClaimComplete(plan, list)[i] = list[i]
           /\ \A k \in 1..ClaimCount(plan, list) : ClaimComplete(plan, list)[Len(list) + k] = ClaimAdded(plan, list, k)
<1> DEFINE n == ClaimCount(plan, list)
           tail == [k \in 1..n |-> ClaimAdded(plan, list, k)]
<1>1. n \in Nat
  BY ClaimAdditionsFinite, FS_CardinalityType DEF ClaimCount
<1>2. ASSUME NEW k \in 1..n PROVE ClaimAdded(plan, list, k) \in ClaimEntry
  <2>1. ClaimNth(plan, list, k) \in ClaimActions
    BY ClaimPlaced, ClaimAdditionsFinite
  <2>2. ClaimHighest(list) + k \in Nat
    BY ClaimHighestIs
  <2>3. ClaimLastStatus(list, ClaimNth(plan, list, k)) \in ClaimStatuses
    BY ClaimLastType
  <2> QED BY <2>1, <2>2, <2>3 DEF ClaimAdded, ClaimEntry
<1>3. tail \in Seq(ClaimEntry) /\ Len(tail) = n /\ \A k \in 1..n : tail[k] = ClaimAdded(plan, list, k)
  <2> HIDE DEF n
  <2> QED BY <1>1, <1>2
<1>4. ClaimComplete(plan, list) = list \o tail
  BY DEF ClaimComplete, ClaimAdded, ClaimNth, ClaimCount
<1> HIDE DEF tail
<1>5. Len(list) \in Nat /\ DOMAIN list = 1..Len(list)
  BY LenProperties
<1>6. /\ list \o tail \in Seq(ClaimEntry)
      /\ Len(list \o tail) = Len(list) + n
      /\ \A i \in 1..(Len(list) + n) :
            (list \o tail)[i] = IF i <= Len(list) THEN list[i] ELSE tail[i - Len(list)]
  BY <1>3, ConcatProperties
<1>7. DOMAIN (list \o tail) = 1..(Len(list) + n)
  BY <1>6, LenProperties
<1>8. \A i \in 1..Len(list) : (list \o tail)[i] = list[i]
  <2> HIDE DEF n
  <2> QED BY <1>1, <1>5, <1>6
<1>9. \A k \in 1..n : (list \o tail)[Len(list) + k] = ClaimAdded(plan, list, k)
  <2> HIDE DEF n
  <2> SUFFICES ASSUME NEW k \in 1..n PROVE (list \o tail)[Len(list) + k] = ClaimAdded(plan, list, k)
    OBVIOUS
  <2>1. /\ Len(list) + k \in 1..(Len(list) + n) /\ ~(Len(list) + k <= Len(list))
        /\ (Len(list) + k) - Len(list) = k
    BY <1>1, <1>5
  <2> QED BY <1>3, <1>6, <2>1
<1> QED BY <1>1, <1>4, <1>5, <1>6, <1>7, <1>8, <1>9

\* How the completed journal reads: an action that it says nothing of is in the
\* plugin's neither, the latest entry of one has the status of the plugin's last,
\* and every planned inverse is in it.
LEMMA ClaimLatestOnly ==
    ASSUME NEW list, NEW I \in SUBSET Nat, NEW e \in I,
           \A i \in I : list[i].sequence \in Nat,
           \A j \in I : \/ list[j].sequence < list[e].sequence
                        \/ list[j].sequence = list[e].sequence /\ j <= e
    PROVE  ClaimLatest(list, I) = e
<1> DEFINE Latest(i) == \A j \in I : \/ list[j].sequence < list[i].sequence
                                     \/ list[j].sequence = list[i].sequence /\ j <= i
<1>1. Latest(e)
  OBVIOUS
<1>2. ASSUME NEW f \in I, Latest(f) PROVE f = e
  <2>1. /\ \/ list[e].sequence < list[f].sequence
           \/ list[e].sequence = list[f].sequence /\ e <= f
        /\ \/ list[f].sequence < list[e].sequence
           \/ list[f].sequence = list[e].sequence /\ f <= e
    BY <1>1, <1>2
  <2>2. e \in Nat /\ f \in Nat /\ list[e].sequence \in Nat /\ list[f].sequence \in Nat
    OBVIOUS
  <2> QED BY <2>1, <2>2
<1>3. ClaimLatest(list, I) = CHOOSE i \in I : Latest(i)
  BY DEF ClaimLatest
<1> HIDE DEF Latest
<1> QED BY <1>1, <1>2, <1>3

\* What the core reads of a journal that it has completed is what the plugin last said.
LEMMA ClaimReading ==
    ASSUME NEW list \in Seq(ClaimEntry), ClaimOrdered(list), NEW a \in ClaimActions,
           NEW plan \in [ClaimActions -> {"none", "supported", "unsupported"}],
           NEW J, J = ClaimComplete(plan, list)
    PROVE  /\ ClaimOf(J, a) = {} => ClaimOf(list, a) = {}
           /\ ClaimOf(J, a) # {} =>
                J[ClaimLatest(J, ClaimOf(J, a))].status = ClaimLastStatus(list, a)
           /\ plan[a] # "none" => \E i \in ClaimOf(J, a) : J[i].inverse # "none"
<1> DEFINE n == Len(list)
           c == ClaimCount(plan, list)
           I == ClaimOf(J, a)
<1>1. /\ J \in Seq(ClaimEntry) /\ n \in Nat /\ c \in Nat
      /\ DOMAIN J = 1..(n + c) /\ DOMAIN list = 1..n
      /\ \A i \in 1..n : J[i] = list[i]
      /\ \A k \in 1..c : J[n + k] = ClaimAdded(plan, list, k)
  BY ClaimCompleted
<1>2. I \in SUBSET (1..(n + c)) /\ I \in SUBSET Nat
  BY <1>1 DEF ClaimOf
<1>3. \A i \in I : J[i].sequence \in Nat /\ J[i].action = a
  <2>1. \A i \in 1..(n + c) : J[i] \in ClaimEntry
    BY <1>1, LenProperties
  <2> QED BY <1>2, <2>1 DEF ClaimOf, ClaimEntry
<1>4. /\ ClaimHighest(list) \in Nat
      /\ \A i \in 1..n : list[i].sequence <= ClaimHighest(list) /\ list[i].sequence \in Nat
  <2>1. \A i \in 1..n : list[i] \in ClaimEntry
    BY <1>1, LenProperties
  <2> QED BY <1>1, <2>1, ClaimHighestIs DEF ClaimEntry
<1>5. ASSUME NEW i \in I, i > n PROVE \E k \in 1..c : i = n + k /\ ClaimNth(plan, list, k) = a
  <2> HIDE DEF c, n
  <2>1. i - n \in 1..c /\ i = n + (i - n)
    BY <1>1, <1>2, <1>5
  <2>2. J[i] = ClaimAdded(plan, list, i - n)
    BY <1>1, <2>1
  <2>3. ClaimNth(plan, list, i - n) = a
    BY <1>3, <2>2 DEF ClaimAdded
  <2> QED BY <2>1, <2>3
<1>6. \A i \in ClaimOf(list, a) : i \in I /\ i \in 1..n /\ J[i] = list[i]
  <2> HIDE DEF c
  <2> QED BY <1>1 DEF ClaimOf
<1>7. CASE a \in ClaimAdditions(plan, list)
  <2> DEFINE r == ClaimRank(plan, list, a)
             e == n + r
  <2>1. r \in 1..c /\ ClaimNth(plan, list, r) = a
    BY <1>7, ClaimPlaceOf
  <2> HIDE DEF r
  <2>2. e \in 1..(n + c) /\ J[e] = ClaimAdded(plan, list, r)
    <3> HIDE DEF n, c
    <3> QED BY <1>1, <2>1
  <2>3. /\ J[e].action = a /\ J[e].sequence = ClaimHighest(list) + r
        /\ J[e].status = ClaimLastStatus(list, a) /\ J[e].inverse = plan[a]
    BY <2>1, <2>2 DEF ClaimAdded
  <2>4. e \in I
    BY <1>1, <2>2, <2>3 DEF ClaimOf
  <2>5. ASSUME NEW j \in I
        PROVE  \/ J[j].sequence < J[e].sequence
               \/ J[j].sequence = J[e].sequence /\ j <= e
    <3>1. CASE j > n
      <4>1. PICK k \in 1..c : j = n + k /\ ClaimNth(plan, list, k) = a
        BY <1>5, <3>1
      <4>2. k = r
        BY <4>1, ClaimPlaced DEF r
      <4> HIDE DEF n
      <4> QED BY <1>1, <2>1, <4>1, <4>2
    <3>2. CASE ~(j > n)
      <4> HIDE DEF n, c, I
      <4>1. j \in 1..n
        BY <1>1, <1>2, <3>2
      <4>2. J[j].sequence <= ClaimHighest(list) /\ J[j].sequence \in Nat
        BY <1>1, <1>4, <4>1
      <4> QED BY <1>1, <1>4, <2>1, <2>3, <4>2
    <3> QED BY <3>1, <3>2
  <2>6. ClaimLatest(J, I) = e
    <3> HIDE DEF I, e
    <3> QED BY <1>2, <1>3, <2>4, <2>5, ClaimLatestOnly
  <2>7. \E i \in I : J[i].inverse = plan[a]
    BY <2>3, <2>4
  <2> QED BY <2>3, <2>4, <2>6, <2>7
<1>8. CASE a \notin ClaimAdditions(plan, list)
  <2>1. \A i \in I : i \in ClaimOf(list, a)
    <3> SUFFICES ASSUME NEW i \in I PROVE i \in ClaimOf(list, a)
      OBVIOUS
    <3>1. ~(i > n)
      BY <1>5, <1>8, ClaimPlaced
    <3>2. i \in 1..n
      <4> HIDE DEF n, c, I
      <4> QED BY <1>1, <1>2, <3>1
    <3> QED BY <1>1, <1>3, <3>2 DEF ClaimOf
  <2>2. ASSUME I # {}
        PROVE  J[ClaimLatest(J, I)].status = ClaimLastStatus(list, a)
    <3>1. ClaimOf(list, a) # {}
      BY <2>1, <2>2
    <3>2. PICK e : ClaimIsLast(list, a, e) /\ ClaimLastStatus(list, a) = list[e].status
      BY <3>1, ClaimLastIs
    <3>3. e \in I /\ e \in 1..n /\ J[e] = list[e]
      BY <1>6, <3>2 DEF ClaimIsLast
    <3>4. ASSUME NEW j \in I
          PROVE  \/ J[j].sequence < J[e].sequence
                 \/ J[j].sequence = J[e].sequence /\ j <= e
      <4>1. j \in ClaimOf(list, a) /\ j <= e /\ j \in 1..n /\ J[j] = list[j]
        BY <1>6, <2>1, <3>2 DEF ClaimIsLast
      <4>2. J[j].sequence <= J[e].sequence
        BY <1>1, <3>3, <4>1 DEF ClaimOrdered
      <4> QED BY <1>3, <3>3, <4>1, <4>2
    <3>5. ClaimLatest(J, I) = e
      <4> HIDE DEF I
      <4> QED BY <1>2, <1>3, <3>3, <3>4, ClaimLatestOnly
    <3> QED BY <3>2, <3>3, <3>5
  <2>3. plan[a] # "none" => \E i \in I : J[i].inverse # "none"
    <3>1. plan[a] # "none" => \E i \in ClaimOf(list, a) : list[i].inverse # "none"
      BY <1>8 DEF ClaimAdditions
    <3> QED BY <1>6, <3>1
  <2> QED BY <1>6, <2>2, <2>3
<1> QED BY <1>7, <1>8

------------------------------------------------------------------------------
(* The claims.                                                             *)

\* The plugin's journal tells of an action whether it was skipped or rolled back.
ClaimTold(list, status) ==
    \A a \in ClaimActions :
        /\ ClaimOf(list, a) = {} => status[a] \notin ClaimUndone
        /\ \A i : ClaimIsLast(list, a, i) =>
                (list[i].status \in ClaimUndone <=> status[a] \in ClaimUndone)

\* ... and neither leaves anything in place; the core has that journal, or the
\* one it began with, completed.
ClaimInv ==
    /\ ClaimOrdered(claimList)
    /\ ClaimTold(claimList, claimStatus)
    /\ \A a \in claimEffect : claimStatus[a] \notin ClaimUndone
    /\ claimPc = "answered" => claimJournal = ClaimComplete(claimPlan, claimList)
    /\ claimPc # "answered" => claimJournal = ClaimComplete(claimPlan, <<>>)

\* The empty journal is one and says nothing.
LEMMA ClaimEmptyJournal ==
    /\ <<>> \in Seq(ClaimEntry) /\ ClaimOrdered(<<>>) /\ \A a : ClaimOf(<<>>, a) = {}
    /\ \A a, i : ~ClaimIsLast(<<>>, a, i)
<1>1. <<>> \in Seq(ClaimEntry) /\ DOMAIN <<>> = {}
  BY EmptySeq, LenProperties
<1> QED BY <1>1 DEF ClaimOrdered, ClaimOf, ClaimIsLast

\* The invariant holds at first.
LEMMA ClaimInitially == ClaimInit => ClaimTypeOK /\ ClaimInv
<1> SUFFICES ASSUME ClaimInit PROVE ClaimTypeOK /\ ClaimInv
  OBVIOUS
<1>1. ClaimComplete(claimPlan, <<>>) \in Seq(ClaimEntry)
  BY ClaimCompleted, ClaimEmptyJournal DEF ClaimInit
<1>2. ClaimTypeOK
  BY <1>1, ClaimEmptyJournal DEF ClaimTypeOK, ClaimInit
<1>3. ClaimTold(claimList, claimStatus)
  BY ClaimEmptyJournal DEF ClaimTold, ClaimInit, ClaimUndone
<1> QED BY <1>2, <1>3, ClaimEmptyJournal DEF ClaimInv, ClaimInit

\* An entry that the plugin appends leaves the journal in order, and is the last
\* of its action.
LEMMA ClaimAppended ==
    ASSUME NEW list \in Seq(ClaimEntry), ClaimOrdered(list), NEW step \in {0, 1},
           NEW entry \in ClaimEntry, entry.sequence = ClaimHighest(list) + step
    PROVE  /\ Append(list, entry) \in Seq(ClaimEntry) /\ ClaimOrdered(Append(list, entry))
           /\ \A b : b # entry.action => ClaimOf(Append(list, entry), b) = ClaimOf(list, b)
           /\ \A b, i : b # entry.action /\ ClaimIsLast(Append(list, entry), b, i) =>
                ClaimIsLast(list, b, i) /\ Append(list, entry)[i] = list[i]
           /\ ClaimOf(Append(list, entry), entry.action) # {}
           /\ \A i : ClaimIsLast(Append(list, entry), entry.action, i) =>
                Append(list, entry)[i] = entry
<1> DEFINE n == Len(list)
           new == Append(list, entry)
<1>1. /\ new \in Seq(ClaimEntry) /\ n \in Nat /\ DOMAIN list = 1..n /\ Len(new) = n + 1
      /\ \A i \in 1..n : new[i] = list[i]
      /\ new[n + 1] = entry
  BY AppendProperties, LenProperties
<1>2. DOMAIN new = 1..(n + 1)
  BY <1>1, LenProperties
<1> HIDE DEF new
<1>3. ClaimHighest(list) \in Nat /\ \A i \in 1..n : list[i].sequence <= ClaimHighest(list)
  BY <1>1, ClaimHighestIs
<1> HIDE DEF n
<1>4. \A i \in 1..(n + 1) : new[i] \in ClaimEntry /\ new[i].sequence \in Nat
  <2>1. ASSUME NEW i \in 1..(n + 1) PROVE new[i] \in ClaimEntry
    BY <1>1, ElementOfSeq
  <2> QED BY <2>1 DEF ClaimEntry
<1>5. \A i \in 1..(n + 1) : i \in 1..n \/ i = n + 1
  BY <1>1
<1>6. \A i \in 1..n : i \in 1..(n + 1) /\ i <= n + 1 /\ ~(n + 1 <= i)
  BY <1>1
<1>7. ClaimOrdered(new)
  <2> SUFFICES ASSUME NEW i \in 1..(n + 1), NEW j \in 1..(n + 1), i <= j
               PROVE  new[i].sequence <= new[j].sequence
    BY <1>2 DEF ClaimOrdered
  <2>1. CASE j \in 1..n
    <3>1. i \in 1..n
      BY <1>1, <2>1
    <3> QED BY <1>1, <2>1, <3>1 DEF ClaimOrdered
  <2>2. CASE j = n + 1
    <3>1. CASE i = n + 1
      BY <1>4, <2>2, <3>1
    <3>2. CASE i \in 1..n
      <4>1. new[i].sequence <= ClaimHighest(list) /\ new[i].sequence \in Nat
        BY <1>1, <1>3, <1>4, <3>2
      <4>2. new[j].sequence = ClaimHighest(list) + step
        BY <1>1, <2>2
      <4> QED BY <1>3, <4>1, <4>2
    <3> QED BY <1>5, <3>1, <3>2
  <2> QED BY <1>5, <2>1, <2>2
<1>8. \A b : b # entry.action => ClaimOf(new, b) = ClaimOf(list, b)
  BY <1>1, <1>2, <1>5, <1>6 DEF ClaimOf
<1>9. n + 1 \in ClaimOf(new, entry.action)
  <2>1. n + 1 \in 1..(n + 1)
    BY <1>1
  <2> QED BY <1>1, <1>2, <2>1 DEF ClaimOf
<1>10. ASSUME NEW b, NEW i, b # entry.action, ClaimIsLast(new, b, i)
       PROVE  ClaimIsLast(list, b, i) /\ new[i] = list[i]
  <2>1. ClaimIsLast(list, b, i)
    BY <1>8, <1>10 DEF ClaimIsLast
  <2> QED BY <1>1, <2>1 DEF ClaimIsLast, ClaimOf
<1>11. ASSUME NEW i, ClaimIsLast(new, entry.action, i) PROVE new[i] = entry
  <2>1. i \in 1..(n + 1) /\ n + 1 <= i
    BY <1>2, <1>9, <1>11 DEF ClaimIsLast, ClaimOf
  <2> QED BY <1>1, <1>5, <1>6, <2>1
<1> QED BY <1>1, <1>7, <1>8, <1>9, <1>10, <1>11 DEF new

\* Each step keeps it.
LEMMA ClaimStepKeeps == ClaimTypeOK /\ ClaimInv /\ [ClaimNext]_claimVars => ClaimTypeOK' /\ ClaimInv'
<1> SUFFICES ASSUME ClaimTypeOK, ClaimInv, [ClaimNext]_claimVars PROVE ClaimTypeOK' /\ ClaimInv'
  OBVIOUS
<1>0. /\ claimPlan \in [ClaimActions -> {"none", "supported", "unsupported"}]
      /\ claimStatus \in [ClaimActions -> ClaimStatuses \union {"untouched"}]
      /\ claimEffect \subseteq ClaimActions
      /\ claimList \in Seq(ClaimEntry) /\ claimJournal \in Seq(ClaimEntry)
      /\ claimPc \in {"applying", "answered", "failed"}
  BY DEF ClaimTypeOK
<1>1. CASE UNCHANGED claimVars
  BY <1>1 DEF ClaimTypeOK, ClaimInv, claimVars
<1>2. CASE ClaimAnswer
  <2>1. ClaimComplete(claimPlan, claimList) \in Seq(ClaimEntry)
    BY <1>0, ClaimCompleted DEF ClaimInv
  <2>2. ClaimTypeOK'
    BY <1>0, <1>2, <2>1 DEF ClaimTypeOK, ClaimAnswer
  <2>3. UNCHANGED <<claimPlan, claimStatus, claimEffect, claimList>>
    BY <1>2 DEF ClaimAnswer
  <2>4. (claimPc = "answered" => claimJournal = ClaimComplete(claimPlan, claimList))'
    BY <1>2, <2>3 DEF ClaimAnswer
  <2>5. (claimPc # "answered" => claimJournal = ClaimComplete(claimPlan, <<>>))'
    BY <1>2, <2>3 DEF ClaimAnswer, ClaimInv
  <2>6. (/\ ClaimOrdered(claimList)
         /\ ClaimTold(claimList, claimStatus)
         /\ \A a \in claimEffect : claimStatus[a] \notin ClaimUndone)'
    BY <2>3 DEF ClaimInv
  <2> QED BY <2>2, <2>4, <2>5, <2>6 DEF ClaimInv
<1>3. CASE ClaimProceed
  <2>1. PICK a \in ClaimActions : \E status \in ClaimAfter(claimStatus[a]) :
        /\ claimStatus' = [claimStatus EXCEPT ![a] = status]
        /\ \/ ClaimHas(status) /\ claimEffect' = claimEffect \union {a}
           \/ ClaimLacks(status) /\ claimEffect' = claimEffect \ {a}
        /\ \/ \E step \in {0, 1}, inverse \in {"none", claimPlan[a]} :
                    claimList' = Append(claimList,
                        [sequence |-> ClaimHighest(claimList) + step, action |-> a,
                         status |-> status, inverse |-> inverse])
           \/ status \in {"started", "rolling_back"} /\ UNCHANGED claimList
    BY <1>3 DEF ClaimProceed
  <2>2. PICK status \in ClaimAfter(claimStatus[a]) :
        /\ claimStatus' = [claimStatus EXCEPT ![a] = status]
        /\ \/ ClaimHas(status) /\ claimEffect' = claimEffect \union {a}
           \/ ClaimLacks(status) /\ claimEffect' = claimEffect \ {a}
        /\ \/ \E step \in {0, 1}, inverse \in {"none", claimPlan[a]} :
                    claimList' = Append(claimList,
                        [sequence |-> ClaimHighest(claimList) + step, action |-> a,
                         status |-> status, inverse |-> inverse])
           \/ status \in {"started", "rolling_back"} /\ UNCHANGED claimList
    BY <2>1
  <2>3. UNCHANGED <<claimPlan, claimJournal, claimPc>> /\ claimPc = "applying"
    BY <1>3 DEF ClaimProceed
  <2>4. status \in ClaimStatuses /\ claimStatus[a] \notin ClaimUndone
    BY <1>0, <2>2 DEF ClaimAfter, ClaimStatuses, ClaimUndone
  <2>5. /\ claimStatus'[a] = status
        /\ \A b \in ClaimActions : b # a => claimStatus'[b] = claimStatus[b]
        /\ claimStatus' \in [ClaimActions -> ClaimStatuses \union {"untouched"}]
    BY <1>0, <2>2, <2>4
  <2>6. claimEffect' \subseteq ClaimActions /\ \A b \in claimEffect' : claimStatus'[b] \notin ClaimUndone
    <3>1. CASE ClaimHas(status) /\ claimEffect' = claimEffect \union {a}
      BY <1>0, <2>5, <3>1 DEF ClaimInv, ClaimHas, ClaimUndone
    <3>2. CASE claimEffect' = claimEffect \ {a}
      BY <1>0, <2>5, <3>2 DEF ClaimInv
    <3> QED BY <2>2, <3>1, <3>2
  <2>7. /\ claimList' \in Seq(ClaimEntry) /\ ClaimOrdered(claimList')
        /\ ClaimTold(claimList', claimStatus')
    <3>1. CASE status \in {"started", "rolling_back"} /\ UNCHANGED claimList
      <4>1. status \notin ClaimUndone
        BY <3>1 DEF ClaimUndone
      <4>2. \A b \in ClaimActions : claimStatus'[b] \in ClaimUndone <=> claimStatus[b] \in ClaimUndone
        BY <2>4, <2>5, <4>1
      <4> QED BY <1>0, <3>1, <4>2 DEF ClaimInv, ClaimTold
    <3>2. ASSUME NEW step \in {0, 1}, NEW inverse \in {"none", claimPlan[a]},
                 claimList' = Append(claimList,
                        [sequence |-> ClaimHighest(claimList) + step, action |-> a,
                         status |-> status, inverse |-> inverse])
          PROVE  /\ claimList' \in Seq(ClaimEntry) /\ ClaimOrdered(claimList')
                 /\ ClaimTold(claimList', claimStatus')
      <4> DEFINE entry == [sequence |-> ClaimHighest(claimList) + step, action |-> a,
                           status |-> status, inverse |-> inverse]
      <4>1. ClaimHighest(claimList) + step \in Nat
        BY <1>0, ClaimHighestIs DEF ClaimInv
      <4>2. entry \in ClaimEntry
        BY <1>0, <2>4, <4>1 DEF ClaimEntry
      <4>3. /\ entry.sequence = ClaimHighest(claimList) + step
            /\ entry.action = a /\ entry.status = status
        OBVIOUS
      <4>4. claimList' = Append(claimList, entry)
        BY <3>2
      <4> HIDE DEF entry
      <4>5. ClaimOrdered(claimList) /\ ClaimTold(claimList, claimStatus)
        BY DEF ClaimInv
      <4>6. /\ claimList' \in Seq(ClaimEntry) /\ ClaimOrdered(claimList')
            /\ \A b : b # a => ClaimOf(claimList', b) = ClaimOf(claimList, b)
            /\ \A b, i : b # a /\ ClaimIsLast(claimList', b, i) =>
                    ClaimIsLast(claimList, b, i) /\ claimList'[i] = claimList[i]
            /\ ClaimOf(claimList', a) # {}
            /\ \A i : ClaimIsLast(claimList', a, i) => claimList'[i] = entry
        <5>1. /\ Append(claimList, entry) \in Seq(ClaimEntry) /\ ClaimOrdered(Append(claimList, entry))
              /\ \A b : b # entry.action =>
                    ClaimOf(Append(claimList, entry), b) = ClaimOf(claimList, b)
              /\ \A b, i : b # entry.action /\ ClaimIsLast(Append(claimList, entry), b, i) =>
                    ClaimIsLast(claimList, b, i) /\ Append(claimList, entry)[i] = claimList[i]
              /\ ClaimOf(Append(claimList, entry), entry.action) # {}
              /\ \A i : ClaimIsLast(Append(claimList, entry), entry.action, i) =>
                    Append(claimList, entry)[i] = entry
          BY <1>0, <4>2, <4>3, <4>5, ClaimAppended
        <5> QED BY <4>3, <4>4, <5>1
      <4>7. ASSUME NEW b \in ClaimActions, b # a
            PROVE  /\ ClaimOf(claimList', b) = {} => claimStatus'[b] \notin ClaimUndone
                   /\ \A i : ClaimIsLast(claimList', b, i) =>
                        (claimList'[i].status \in ClaimUndone <=> claimStatus'[b] \in ClaimUndone)
        BY <2>5, <4>5, <4>6, <4>7 DEF ClaimTold
      <4>8. \A i : ClaimIsLast(claimList', a, i) =>
                (claimList'[i].status \in ClaimUndone <=> claimStatus'[a] \in ClaimUndone)
        BY <2>5, <4>3, <4>6
      <4> QED BY <4>6, <4>7, <4>8 DEF ClaimTold
    <3> QED BY <2>2, <3>1, <3>2
  <2>8. ClaimTypeOK'
    BY <1>0, <2>3, <2>5, <2>6, <2>7 DEF ClaimTypeOK
  <2>9. claimJournal' = ClaimComplete(claimPlan, <<>>)'
    BY <2>3 DEF ClaimInv
  <2> QED BY <2>3, <2>6, <2>7, <2>8, <2>9 DEF ClaimInv
<1> QED BY <1>1, <1>2, <1>3 DEF ClaimNext

\* What is in place is claimed, or missing an inverse; with an inverse it is
\* claimed; and an answer claims nothing that was skipped or rolled back.
LEMMA ClaimCovers ==
    ASSUME ClaimTypeOK, ClaimInv, NEW a \in ClaimActions
    PROVE  /\ a \in claimEffect => a \in Claims \union ClaimMissing
           /\ a \in claimEffect /\ claimPlan[a] # "none" => a \in Claims
           /\ claimPc = "answered" /\ a \in Claims \union ClaimMissing =>
                claimStatus[a] \notin ClaimUndone
<1> DEFINE list == IF claimPc = "answered" THEN claimList ELSE <<>>
           I == ClaimOf(claimJournal, a)
<1>1. /\ list \in Seq(ClaimEntry) /\ ClaimOrdered(list)
      /\ claimJournal = ClaimComplete(claimPlan, list)
      /\ claimPlan \in [ClaimActions -> {"none", "supported", "unsupported"}]
  BY ClaimEmptyJournal DEF ClaimTypeOK, ClaimInv
<1>2. ClaimOf(list, a) = {} => ClaimLastStatus(list, a) \notin ClaimUndone
  BY DEF ClaimLastStatus, ClaimUndone
<1>3. claimPc # "answered" => ClaimOf(list, a) = {}
  BY ClaimEmptyJournal
<1>4. ASSUME claimPc = "answered"
      PROVE  /\ ClaimOf(list, a) = {} => claimStatus[a] \notin ClaimUndone
             /\ ClaimOf(list, a) # {} =>
                    (ClaimLastStatus(list, a) \in ClaimUndone <=> claimStatus[a] \in ClaimUndone)
  <2>1. list = claimList /\ ClaimTold(list, claimStatus)
    BY <1>4 DEF ClaimInv
  <2> HIDE DEF list
  <2>2. CASE ClaimOf(list, a) = {}
    BY <2>1, <2>2 DEF ClaimTold
  <2>3. CASE ClaimOf(list, a) # {}
    <3>1. PICK i : ClaimIsLast(list, a, i) /\ ClaimLastStatus(list, a) = list[i].status
      BY <1>1, <2>3, ClaimLastIs
    <3> QED BY <2>1, <2>3, <3>1 DEF ClaimTold
  <2> QED BY <2>2, <2>3
<1> HIDE DEF list
<1>5. /\ I = {} => ClaimOf(list, a) = {}
      /\ I # {} => ClaimNow(a) = ClaimLastStatus(list, a)
      /\ claimPlan[a] # "none" => ClaimInverses(a) # {}
  BY <1>1, ClaimReading DEF ClaimNow, ClaimInverses
<1>6. ClaimInverses(a) # {} => I # {}
  BY DEF ClaimInverses
<1>7. a \in claimEffect => claimStatus[a] \notin ClaimUndone
  BY DEF ClaimInv
<1>8. a \in claimEffect => I = {} \/ ClaimNow(a) \notin ClaimUndone
  BY <1>2, <1>3, <1>4, <1>5, <1>7
<1>9. a \in Claims <=> ClaimInverses(a) # {} /\ ClaimNow(a) \notin ClaimUndone
  BY DEF Claims
<1>10. a \in ClaimMissing <=> a \notin Claims /\ (I = {} \/ ClaimNow(a) \notin ClaimUndone)
  BY DEF ClaimMissing, ClaimMayHaveRun
<1> HIDE DEF I
<1> QED BY <1>2, <1>3, <1>4, <1>5, <1>6, <1>8, <1>9, <1>10

\* With it, what is claimed is what is there.
LEMMA ClaimInvExact == ClaimTypeOK /\ ClaimInv => ClaimsAreExact
<1> SUFFICES ASSUME ClaimTypeOK, ClaimInv PROVE ClaimsAreExact
  OBVIOUS
<1>1. /\ claimEffect \subseteq Claims \union ClaimMissing
      /\ {a \in claimEffect : claimPlan[a] # "none"} \subseteq Claims
  BY ClaimCovers DEF ClaimTypeOK
<1>2. claimPc = "answered" =>
        \A a \in Claims \union ClaimMissing : claimStatus[a] \notin ClaimUndone
  BY ClaimCovers DEF Claims, ClaimMissing
<1>3. ASSUME NEW kind \in ClaimCapabilities, NEW prior \in ClaimPriors,
             ClaimOperation(kind, prior) # "cleanup"
      PROVE  (IF kind = "Exposure" THEN {a \in claimEffect : claimPlan[a] # "none"} ELSE claimEffect)
                \subseteq ClaimReported(kind, prior)
                    \union (IF ClaimOperation(kind, prior) = "rollback" THEN ClaimSupported ELSE {})
  <2>1. kind \in {"Target", "Runtime", "Exposure"} /\ prior \in {"absent", "bare", "revision"}
    BY ClaimAssumption DEF ClaimPriors
  <2>2. CASE kind = "Exposure"
    BY <1>1, <1>3, <2>1, <2>2 DEF ClaimOperation, ClaimReported
  <2>3. CASE kind = "Target"
    BY <1>1, <1>3, <2>1, <2>3 DEF ClaimOperation, ClaimReported
  <2>4. CASE kind = "Runtime"
    BY <1>1, <1>3, <2>1, <2>4 DEF ClaimOperation, ClaimReported
  <2> QED BY <2>1, <2>2, <2>3, <2>4
<1> QED BY <1>2, <1>3 DEF ClaimsAreExact

\* Whatever a failed apply has left in place is compensated or reported, with any
\* plan, any journal and any answer or none; nothing is claimed that the plugin
\* has skipped or rolled back (rollback_journal, rollback_claims, classify_rollback).
THEOREM NothingIsLeftUntold == ClaimSpec => []ClaimsAreExact
<1>1. ClaimTypeOK /\ ClaimInv => ClaimsAreExact
  BY ClaimInvExact
<1> QED BY <1>1, ClaimInitially, ClaimStepKeeps, PTL DEF ClaimSpec

\* The core's copy of the journal is one, whatever it adds to it.
THEOREM ClaimTypeCorrect == ClaimSpec => []ClaimTypeOK
BY ClaimInitially, ClaimStepKeeps, PTL DEF ClaimSpec

------------------------------------------------------------------------------
(* The workloads of a Kubernetes environment.                              *)

KwTexted == KwTexts \union {"none"}
KwWorking == {"planning", "building", "claiming", "first", "second", "waiting", "labelling",
              "verifying", "undoing", "deleting"}
KwSelves ==
    [at : KwEnded \union KwWorking, task : {"none", "up", "down"}, op : 0..KwOps,
     space : KwRevisions, object : [KwServices -> KwObjects], revision : KwRevisions,
     todo : SUBSET KwServices]
KwTypes ==
    /\ kwTree \in [commit : 0..kwEdited, dirty : BOOLEAN, text : [KwServices -> KwTexted]]
    /\ kwSpace \in KwRevisions /\ kwObject \in [KwServices -> KwObjects]
    /\ kwPushed \subseteq KwServices \X KwRevisions
    /\ kwSelf \in KwSelves
    /\ kwRun \in 0..KwOps /\ kwEdited \in 0..KwEdits /\ kwLeft \in 0..KwBudget

\* An object that is not there has no hash and no health, and there are none
\* without the namespace.
KwNothingIsAbsent(object) ==
    \A s \in KwServices :
        /\ object[s].hash = KwNone => object[s] = KwAbsent
        /\ object[s].health = "absent" => object[s] = KwAbsent
KwThere ==
    /\ KwNothingIsAbsent(kwObject) /\ KwNothingIsAbsent(kwSelf.object)
    /\ kwSpace = KwNone => kwObject = KwEmpty
    /\ kwSelf.space = KwNone => kwSelf.object = KwEmpty

\* What an operation has resolved, and what its inspection showed of the hashes.
KwKept(s) == kwObject[s].hash = kwSelf.object[s].hash /\ kwObject[s].roll = kwSelf.object[s].roll
KwResolved ==
    /\ kwSelf.at \in KwWorking => kwSelf.task # "none" /\ kwSelf.revision.of = "tree"
    /\ kwSelf.at \notin KwEnded \union {"planning", "deleting"} => kwSelf.task = "up"
    /\ kwSelf.at = "planning" => kwSpace = kwSelf.space /\ \A s \in KwServices : KwKept(s)

\* An `up` applies what it did not refuse.
KwAccepted ==
    /\ kwSelf.at \in KwWorking \ {"planning", "deleting", "undoing"} => ~KwRefused
    /\ kwSelf.at = "deleting" => kwSelf.task = "down" \/ kwSelf.space = KwNone

\* How far it is: the namespace, the images and the objects, of which those that
\* are applied are as they are rendered and the others as they were.
KwSpaced ==
    /\ kwSelf.at \in {"building", "claiming"} => (kwSpace = KwNone <=> kwSelf.space = KwNone)
    /\ kwSelf.at \in {"first", "second", "waiting", "labelling", "verifying"} =>
        kwSpace # KwNone /\ (kwSelf.space = KwNone => kwSpace = kwSelf.revision)
    /\ kwSelf.at = "claiming" => kwSelf.space = KwNone
    /\ kwSelf.at = "labelling" => kwSelf.space # KwNone
    /\ kwSelf.at = "verifying" => kwSpace = kwSelf.revision
KwImaged ==
    /\ kwSelf.at = "building" =>
        \A s \in KwBuilds(kwSelf.revision) \ kwSelf.todo : <<s, kwSelf.revision>> \in kwPushed
    /\ kwSelf.at \in {"claiming", "first", "second", "waiting", "labelling", "verifying"} =>
        \A s \in KwBuilds(kwSelf.revision) : <<s, kwSelf.revision>> \in kwPushed
KwReached ==
    CASE kwSelf.at = "second" -> KwSelected \intersect KwJobs
      [] kwSelf.at \in {"waiting", "labelling", "verifying"} -> KwSelected
      [] OTHER -> {}
KwProgress ==
    /\ kwSelf.at \in {"building", "claiming", "first", "second", "waiting", "labelling",
                     "verifying"} =>
        \A s \in KwServices :
            IF s \in KwReached THEN KwSame(s, kwObject[s], kwSelf.revision, kwSelf.op)
            ELSE KwKept(s)
    /\ kwSelf.at \in {"waiting", "labelling", "verifying"} =>
        \A s \in KwSelected \ (IF kwSelf.at = "waiting" THEN kwSelf.todo ELSE {}) :
            kwObject[s].health \in {"ready", "unready"}
KwInv == KwTypes /\ KwThere /\ KwResolved /\ KwAccepted /\ KwSpaced /\ KwImaged /\ KwProgress

\* The types of what is nothing, not there or empty.
LEMMA KwConstants ==
    /\ KwNone \in KwRevisions /\ KwAbsent \in KwObjects /\ KwEmpty \in [KwServices -> KwObjects]
    /\ KwIdle \in KwSelves
<1>1. KwNone \in KwRevisions
  BY KwAssumption DEF KwNone, KwRevisions
<1>2. KwAbsent \in KwObjects
  BY <1>1, KwAssumption DEF KwAbsent, KwObjects
<1>3. KwEmpty \in [KwServices -> KwObjects]
  BY <1>2 DEF KwEmpty
<1>4. KwIdle \in KwSelves
  BY <1>1, <1>3, KwAssumption DEF KwIdle, KwSelves, KwEnded
<1> QED BY <1>1, <1>2, <1>3, <1>4

\* It holds of the empty cluster.
LEMMA KwInitially == ASSUME KwInit PROVE KwInv
<1> USE DEF KwInit
<1>1. KwTypes
  BY KwConstants, KwAssumption DEF KwTypes, KwTexted
<1>2. KwThere
  BY DEF KwThere, KwNothingIsAbsent, KwEmpty, KwAbsent, KwIdle
<1>3. KwResolved /\ KwAccepted /\ KwSpaced /\ KwImaged /\ KwProgress
  BY DEF KwResolved, KwAccepted, KwSpaced, KwImaged, KwProgress, KwIdle, KwWorking, KwEnded
<1> QED BY <1>1, <1>2, <1>3 DEF KwInv

\* Wherever it goes, an operation keeps its type.
LEMMA KwGoing ==
    ASSUME KwTypes, NEW where \in KwEnded \union KwWorking, NEW todo \in SUBSET KwServices
    PROVE  /\ KwGo(where) => kwSelf' \in KwSelves
           /\ KwGoWith(where, todo) => kwSelf' \in KwSelves
<1>1. kwSelf \in KwSelves
  BY DEF KwTypes
<1>2. [kwSelf EXCEPT !.at = where] \in KwSelves
  BY <1>1 DEF KwSelves
<1>3. [kwSelf EXCEPT !.at = where, !.todo = todo] \in KwSelves
  BY <1>1 DEF KwSelves
<1> QED BY <1>2, <1>3 DEF KwGo, KwGoWith

\* So does the checkout, whatever is edited.
LEMMA KwCheckout ==
    ASSUME NEW C, NEW D, NEW T, NEW tree \in [commit : C, dirty : D, text : T],
           NEW c \in C, NEW d \in D, NEW t \in T
    PROVE  /\ [tree EXCEPT !.dirty = d, !.text = t] \in [commit : C, dirty : D, text : T]
           /\ [tree EXCEPT !.dirty = d, !.commit = c] \in [commit : C, dirty : D, text : T]
  OBVIOUS

\* Every step keeps every type.
LEMMA KwTypesKept == ASSUME KwTypes, [KwNext]_kwVars PROVE KwTypes'
<1>0. kwSelf.todo \subseteq KwServices /\ kwSelf.revision \in KwRevisions
  BY DEF KwTypes, KwSelves
<1>a. \A where \in KwWorking \union KwEnded : KwGo(where) => kwSelf' \in KwSelves
  BY KwGoing
<1>b. \A where \in KwWorking \union KwEnded :
        \A todo \in SUBSET KwServices : KwGoWith(where, todo) => kwSelf' \in KwSelves
  BY KwGoing
<1>c. KwFails => kwSelf' \in KwSelves /\ kwLeft' \in 0..KwBudget
  BY <1>b, KwAssumption DEF KwFails, KwFault, KwTypes, KwWorking
<1>d. \A s \in KwServices : kwSelf.todo \ {s} \in SUBSET KwServices
  BY <1>0
<1>e. \A kind \in {"call", "die", "unwell"} : KwFault(kind) => kwLeft' \in 0..KwBudget
  BY KwAssumption DEF KwFault, KwTypes
<1>1. CASE KwEdit
  <2>0. /\ kwEdited < KwEdits /\ kwEdited' = kwEdited + 1
        /\ UNCHANGED <<kwSpace, kwObject, kwPushed, kwSelf, kwRun, kwLeft>>
    BY <1>1 DEF KwEdit
  <2>1. CASE \E s \in KwServices, text \in KwTexts \union {"none"} :
                kwTree' = [kwTree EXCEPT !.dirty = TRUE, !.text[s] = text]
    <3>1. PICK s \in KwServices, text \in KwTexted :
            kwTree' = [kwTree EXCEPT !.dirty = TRUE, !.text = [kwTree.text EXCEPT ![s] = text]]
      BY <2>1 DEF KwTypes, KwTexted
    <3>2. [kwTree.text EXCEPT ![s] = text] \in [KwServices -> KwTexted]
      BY DEF KwTypes
    <3>3. kwTree' \in [commit : 0..kwEdited', dirty : BOOLEAN, text : [KwServices -> KwTexted]]
      <4>1. kwTree \in [commit : 0..kwEdited', dirty : BOOLEAN, text : [KwServices -> KwTexted]]
        BY <2>0, KwAssumption DEF KwTypes
      <4> QED BY <3>1, <3>2, <4>1, KwCheckout
    <3> QED BY <2>0, <3>3, KwAssumption DEF KwTypes
  <2>2. CASE kwTree' = [kwTree EXCEPT !.dirty = FALSE, !.commit = @ + 1]
    <3>1. kwTree' \in [commit : 0..kwEdited', dirty : BOOLEAN, text : [KwServices -> KwTexted]]
      <4>1. /\ kwTree \in [commit : 0..kwEdited', dirty : BOOLEAN, text : [KwServices -> KwTexted]]
            /\ kwTree.commit + 1 \in 0..kwEdited'
        BY <2>0, KwAssumption DEF KwTypes
      <4> QED BY <2>2, <4>1, KwCheckout
    <3> QED BY <2>0, <3>1, KwAssumption DEF KwTypes
  <2> QED BY <1>1, <2>1, <2>2 DEF KwEdit
<1>2. CASE KwBegin
  <2>1. KwRevision(kwTree, kwRun + 1) \in KwRevisions
    BY <1>2, KwAssumption DEF KwBegin, KwRevision, KwRevisions, KwTexted, KwTypes
  <2>2. kwSelf' \in KwSelves
    <3>1. /\ kwSpace \in KwRevisions /\ kwObject \in [KwServices -> KwObjects]
          /\ kwRun + 1 \in 0..KwOps /\ KwIdle \in KwSelves
      BY <1>2, KwConstants, KwAssumption DEF KwBegin, KwTypes
    <3> QED BY <1>2, <2>1, <3>1 DEF KwBegin, KwSelves, KwWorking
  <2> QED BY <1>2, <2>2, KwAssumption DEF KwBegin, KwTypes
<1>3. CASE KwPlan \/ KwUndo \/ KwDie \/ KwVerify \/ KwWait
  <2>1. KwBuilds(kwSelf.revision) \in SUBSET KwServices /\ {} \in SUBSET KwServices
    BY DEF KwBuilds
  <2>2. kwSelf' \in KwSelves
    <3>1. CASE KwPlan \/ KwUndo \/ KwDie
      BY <3>1, <2>1, <1>a, <1>b DEF KwPlan, KwUndo, KwDie, KwWorking, KwEnded
    <3>2. CASE KwVerify \/ KwWait
      BY <3>2, <2>1, <1>a, <1>b, <1>c, <1>d, <1>0 DEF KwVerify, KwWait, KwWorking, KwEnded
    <3> QED BY <1>3, <3>1, <3>2
  <2>3. kwLeft' \in 0..KwBudget
    BY <1>3, <1>c, <1>e DEF KwPlan, KwUndo, KwDie, KwVerify, KwWait, KwTypes
  <2> QED BY <1>3, <2>2, <2>3 DEF KwTypes, KwPlan, KwUndo, KwDie, KwVerify, KwWait
<1>4. CASE KwBuild
  <2>1. kwSelf' \in KwSelves /\ kwLeft' \in 0..KwBudget
    BY <1>4, <1>a, <1>b, <1>c, <1>d, <1>0 DEF KwBuild, KwWorking, KwTypes
  <2>2. kwPushed' \subseteq KwServices \X KwRevisions
    <3>1. \A s \in kwSelf.todo : {<<s, kwSelf.revision>>} \subseteq KwServices \X KwRevisions
      BY <1>0
    <3> QED BY <1>4, <3>1 DEF KwBuild, KwTypes
  <2> QED BY <1>4, <2>1, <2>2 DEF KwTypes, KwBuild
<1>5. CASE KwClaim \/ KwLabel
  <2>1. kwSelf' \in KwSelves /\ kwLeft' \in 0..KwBudget
    BY <1>5, <1>a, <1>c DEF KwClaim, KwLabel, KwWorking, KwTypes
  <2> QED BY <1>5, <2>1, <1>0 DEF KwClaim, KwLabel, KwTypes
<1>6. CASE KwApply
  <2>1. ASSUME NEW s \in KwServices PROVE KwApplied(s) \in KwObjects
    BY KwAssumption DEF KwApplied, KwObjects, KwSelves, KwRendered, KwTypes
  <2>2. kwObject' \in [KwServices -> KwObjects]
    BY <1>6, <2>1 DEF KwApply, KwTypes
  <2>3. KwSelected \in SUBSET KwServices
    BY DEF KwSelected, KwDesired
  <2>4. kwSelf' \in KwSelves /\ kwLeft' \in 0..KwBudget
    BY <1>6, <1>a, <1>b, <1>c, <2>3 DEF KwApply, KwWorking, KwTypes
  <2> QED BY <1>6, <2>2, <2>4 DEF KwApply, KwTypes
<1>7. CASE KwDelete
  <2>1. kwSelf' \in KwSelves /\ kwLeft' \in 0..KwBudget
    BY <1>7, <1>a, KwAssumption DEF KwDelete, KwEnded, KwTypes, KwFault
  <2> QED BY <1>7, <2>1, KwConstants DEF KwDelete, KwTypes
<1>8. CASE KwCluster
  <2>1. kwLeft' \in 0..KwBudget
    BY <1>8, KwAssumption DEF KwCluster, KwTypes, KwFault
  <2>2. ASSUME NEW s \in KwServices, NEW health \in {"ready", "unready"}, KwHealth(s, health)
        PROVE  kwObject' \in [KwServices -> KwObjects]
    BY <2>2 DEF KwHealth, KwTypes, KwObjects
  <2>3. kwObject' \in [KwServices -> KwObjects]
    BY <1>8, <2>2 DEF KwCluster
  <2> QED BY <1>8, <2>1, <2>3 DEF KwCluster, KwTypes
<1>9. CASE UNCHANGED kwVars
  BY <1>9 DEF kwVars, KwTypes
<1> QED BY <1>1, <1>2, <1>3, <1>4, <1>5, <1>6, <1>7, <1>8, <1>9 DEF KwNext


------------------------------------------------------------------------------
\* An operation keeps what it has resolved and seen.
LEMMA KwStays ==
    ASSUME KwTypes, [KwNext]_kwVars, ~KwBegin
    PROVE  /\ kwSelf'.task = kwSelf.task /\ kwSelf'.op = kwSelf.op /\ kwSelf'.space = kwSelf.space
           /\ kwSelf'.object = kwSelf.object /\ kwSelf'.revision = kwSelf.revision
<1>1. kwSelf \in KwSelves
  BY DEF KwTypes
<1>2. ASSUME NEW where, NEW todo, kwSelf' = kwSelf \/ KwGo(where) \/ KwGoWith(where, todo)
      PROVE  /\ kwSelf'.task = kwSelf.task /\ kwSelf'.op = kwSelf.op /\ kwSelf'.space = kwSelf.space
             /\ kwSelf'.object = kwSelf.object /\ kwSelf'.revision = kwSelf.revision
  BY <1>1, <1>2 DEF KwGo, KwGoWith, KwSelves
<1>3. \E where, todo : kwSelf' = kwSelf \/ KwGo(where) \/ KwGoWith(where, todo)
  <2>1. CASE KwEdit
    BY <2>1 DEF KwEdit
  <2>2. CASE KwPlan \/ KwUndo \/ KwDie
    BY <2>2 DEF KwPlan, KwUndo, KwDie
  <2>3. CASE KwBuild \/ KwClaim \/ KwLabel \/ KwVerify
    BY <2>3 DEF KwBuild, KwClaim, KwLabel, KwVerify, KwFails
  <2>4. CASE KwApply
    BY <2>4 DEF KwApply, KwFails
  <2>5. CASE KwWait
    BY <2>5 DEF KwWait
  <2>6. CASE KwDelete
    BY <2>6 DEF KwDelete
  <2>7. CASE KwCluster \/ UNCHANGED kwVars
    BY <2>7 DEF KwCluster, kwVars
  <2> QED BY <2>1, <2>2, <2>3, <2>4, <2>5, <2>6, <2>7 DEF KwNext
<1> QED BY <1>2, <1>3

\* Who touches the objects.
LEMMA KwTouches ==
    ASSUME KwTypes, KwThere, [KwNext]_kwVars
    PROVE  \/ UNCHANGED kwObject
           \/ KwApply
           \/ kwSpace' = KwNone /\ kwObject' = KwEmpty /\ KwDelete
           \/ \E s \in KwServices, health \in {"ready", "unready"} :
                KwHealth(s, health) /\ kwObject[s].health # "absent" /\ KwCluster
  BY DEF KwNext, KwEdit, KwBegin, KwPlan, KwUndo, KwDie, KwBuild, KwClaim, KwLabel, KwVerify,
         KwWait, KwDelete, KwCluster, kwVars

\* What an apply makes of an object.
LEMMA KwApplying ==
    ASSUME KwTypes, NEW s \in KwServices, kwSelf.revision # KwNone, KwNothingIsAbsent(kwObject)
    PROVE  /\ KwSame(s, KwApplied(s), kwSelf.revision, kwSelf.op)
           /\ KwApplied(s).hash # KwNone /\ KwApplied(s).health # "absent"
           /\ KwApplied(s) # KwAbsent
<1>1. CASE KwSame(s, kwObject[s], kwSelf.revision, kwSelf.op)
  <2>1. kwObject[s].hash = kwSelf.revision
    BY <1>1 DEF KwSame, KwRendered
  <2> QED BY <1>1, <2>1 DEF KwApplied, KwNothingIsAbsent, KwAbsent
<1>2. CASE ~KwSame(s, kwObject[s], kwSelf.revision, kwSelf.op)
  BY <1>2 DEF KwApplied, KwSame, KwRendered, KwAbsent
<1> QED BY <1>1, <1>2


\* What is derived from it stays too.
KwSettled ==
    /\ kwSelf'.task = kwSelf.task /\ kwSelf'.op = kwSelf.op /\ kwSelf'.space = kwSelf.space
    /\ kwSelf'.object = kwSelf.object /\ kwSelf'.revision = kwSelf.revision

\* What is derived from the state that a step leaves alone stays.
LEMMA KwDerived ==
    ASSUME KwSettled
    PROVE  KwRefused' = KwRefused /\ KwSelected' = KwSelected /\ KwSeen' = KwSeen
<1>1. KwSeen' = KwSeen
  BY DEF KwSettled, KwSeen
<1>2. KwStale' = KwStale /\ KwAdded' = KwAdded /\ KwSelected' = KwSelected
  BY <1>1 DEF KwSettled, KwStale, KwAdded, KwSelected
<1>3. KwChangedJobs' = KwChangedJobs
  BY <1>1 DEF KwSettled, KwChangedJobs
<1> QED BY <1>1, <1>2, <1>3 DEF KwRefused

\* Every step keeps the rest: what there is,
LEMMA KwThereKept ==
    ASSUME KwTypes, KwThere, KwResolved, KwSpaced, [KwNext]_kwVars
    PROVE  KwThere'
<1>1. KwNothingIsAbsent(kwObject')
  <2>1. CASE KwApply
    <3>1. kwSelf.revision # KwNone
      BY <2>1 DEF KwApply, KwResolved, KwWorking, KwNone
    <3>2. \A s \in KwServices : KwApplied(s).hash # KwNone /\ KwApplied(s).health # "absent"
      BY <3>1, KwApplying DEF KwThere
    <3>3. \A s \in KwServices : kwObject'[s] \in {kwObject[s], KwApplied(s)}
      BY <2>1 DEF KwApply
    <3> QED BY <3>2, <3>3 DEF KwThere, KwNothingIsAbsent
  <2>2. ASSUME NEW s \in KwServices, NEW health \in {"ready", "unready"}, KwHealth(s, health),
               kwObject[s].health # "absent"
        PROVE  KwNothingIsAbsent(kwObject')
    BY <2>2 DEF KwHealth, KwThere, KwNothingIsAbsent, KwTypes, KwObjects, KwAbsent
  <2>3. CASE kwObject' = KwEmpty
    BY <2>3 DEF KwEmpty, KwNothingIsAbsent
  <2> QED BY <2>1, <2>2, <2>3, KwTouches DEF KwThere
<1>2. kwSpace' = KwNone => kwObject' = KwEmpty
  <2>1. CASE KwApply
    BY <2>1 DEF KwApply, KwSpaced
  <2>2. CASE KwClaim \/ KwLabel
    BY <2>2 DEF KwClaim, KwLabel, KwResolved, KwWorking, KwNone, KwThere
  <2>3. CASE KwCluster
    BY <2>3 DEF KwCluster, KwThere, KwEmpty, KwAbsent, KwHealth
  <2>4. CASE KwDelete
    BY <2>4 DEF KwDelete, KwThere
  <2>5. CASE UNCHANGED <<kwSpace, kwObject>>
    BY <2>5 DEF KwThere
  <2> QED BY <2>1, <2>2, <2>3, <2>4, <2>5 DEF KwNext, KwEdit, KwBegin, KwPlan, KwUndo, KwDie,
             KwBuild, KwVerify, KwWait, kwVars
<1>3. KwNothingIsAbsent(kwSelf'.object) /\ (kwSelf'.space = KwNone => kwSelf'.object = KwEmpty)
  <2>1. CASE KwBegin
    BY <2>1 DEF KwBegin, KwThere, KwIdle
  <2>2. CASE ~KwBegin
    BY <2>2, KwStays DEF KwThere
  <2> QED BY <2>1, <2>2
<1> QED BY <1>1, <1>2, <1>3 DEF KwThere

\* what the operation has resolved,
LEMMA KwResolvedKept ==
    ASSUME KwTypes, KwThere, KwResolved, [KwNext]_kwVars
    PROVE  KwResolved'
<1> USE DEF KwResolved, KwWorking, KwEnded
<1>1. CASE KwBegin
  BY <1>1 DEF KwBegin, KwIdle, KwKept, KwRevision
<1>2. CASE ~KwBegin
  <2>0. KwSettled
    BY <1>2, KwStays DEF KwSettled
  <2>1. kwSelf \in KwSelves
    BY DEF KwTypes
  <2> USE DEF KwSettled, KwSelves, KwGo, KwGoWith, KwFails
  <2>2. CASE KwEdit \/ UNCHANGED kwVars
    BY <2>2 DEF KwEdit, kwVars, KwKept
  <2>3. CASE KwPlan \/ KwUndo \/ KwDie
    BY <2>3, <2>0, <2>1 DEF KwPlan, KwUndo, KwDie
  <2>4. CASE KwBuild \/ KwClaim \/ KwLabel \/ KwVerify
    BY <2>4, <2>0, <2>1 DEF KwBuild, KwClaim, KwLabel, KwVerify
  <2>5. CASE KwApply
    BY <2>5, <2>0, <2>1 DEF KwApply
  <2>6. CASE KwWait
    BY <2>6, <2>0, <2>1 DEF KwWait
  <2>7. CASE KwDelete
    BY <2>7, <2>0, <2>1 DEF KwDelete
  <2>8. CASE KwCluster
    BY <2>8 DEF KwCluster, KwHealth, KwKept, KwTypes, KwObjects
  <2> QED BY <1>2, <2>2, <2>3, <2>4, <2>5, <2>6, <2>7, <2>8 DEF KwNext
<1> QED BY <1>1, <1>2

\* that it has not refused it,
LEMMA KwAcceptedKept ==
    ASSUME KwTypes, KwResolved, KwAccepted, [KwNext]_kwVars
    PROVE  KwAccepted'
<1> USE DEF KwAccepted, KwWorking
<1>1. CASE KwBegin
  BY <1>1 DEF KwBegin, KwIdle
<1>2. CASE ~KwBegin
  <2>0. KwSettled
    BY <1>2, KwStays DEF KwSettled
  <2>1. kwSelf \in KwSelves
    BY DEF KwTypes
  <2>2. KwRefused' = KwRefused
    BY <2>0, KwDerived
  <2> USE DEF KwSettled, KwSelves, KwGo, KwGoWith, KwFails, KwEnded
  <2>3. CASE KwEdit \/ KwCluster \/ UNCHANGED kwVars
    BY <2>3, <2>2, <2>0 DEF KwEdit, kwVars, KwCluster
  <2>4. CASE KwPlan
    BY <2>4, <2>2, <2>0, <2>1 DEF KwPlan, KwResolved
  <2>5. CASE KwUndo \/ KwDie
    BY <2>5, <2>2, <2>0, <2>1 DEF KwUndo, KwDie
  <2>6. CASE KwBuild \/ KwClaim \/ KwLabel \/ KwVerify
    BY <2>6, <2>2, <2>0, <2>1 DEF KwBuild, KwClaim, KwLabel, KwVerify
  <2>7. CASE KwApply
    BY <2>7, <2>2, <2>0, <2>1 DEF KwApply
  <2>8. CASE KwWait
    BY <2>8, <2>2, <2>0, <2>1 DEF KwWait
  <2>9. CASE KwDelete
    BY <2>9, <2>2, <2>0, <2>1 DEF KwDelete
  <2> QED BY <1>2, <2>3, <2>4, <2>5, <2>6, <2>7, <2>8, <2>9 DEF KwNext
<1> QED BY <1>1, <1>2

\* how far its namespace is,
LEMMA KwSpacedKept ==
    ASSUME KwTypes, KwResolved, KwAccepted, KwSpaced, [KwNext]_kwVars
    PROVE  KwSpaced'
<1> USE DEF KwSpaced
<1>1. CASE KwBegin
  BY <1>1 DEF KwBegin, KwIdle
<1>2. CASE ~KwBegin
  <2>0. KwSettled
    BY <1>2, KwStays DEF KwSettled
  <2>1. kwSelf \in KwSelves /\ (kwSelf.at \in KwWorking => kwSelf.revision # KwNone)
    BY DEF KwTypes, KwResolved, KwNone
  <2> USE DEF KwSettled, KwSelves, KwGo, KwGoWith, KwFails
  <2>3. CASE KwEdit \/ KwCluster \/ UNCHANGED kwVars
    BY <2>3, <2>0 DEF KwEdit, kwVars, KwCluster
  <2>4. CASE KwPlan
    BY <2>4, <2>0, <2>1 DEF KwPlan, KwResolved
  <2>5. CASE KwUndo \/ KwDie
    BY <2>5, <2>0, <2>1 DEF KwUndo, KwDie
  <2>6. CASE KwBuild \/ KwClaim \/ KwLabel \/ KwVerify
    BY <2>6, <2>0, <2>1 DEF KwBuild, KwClaim, KwLabel, KwVerify, KwWorking
  <2>7. CASE KwApply
    BY <2>7, <2>0, <2>1 DEF KwApply
  <2>8. CASE KwWait
    BY <2>8, <2>0, <2>1 DEF KwWait
  <2>9. CASE KwDelete
    BY <2>9, <2>0, <2>1 DEF KwDelete
  <2> QED BY <1>2, <2>3, <2>4, <2>5, <2>6, <2>7, <2>8, <2>9 DEF KwNext
<1> QED BY <1>1, <1>2

\* its images,
LEMMA KwImagedKept ==
    ASSUME KwTypes, KwImaged, [KwNext]_kwVars
    PROVE  KwImaged'
<1> USE DEF KwImaged
<1>1. CASE KwBegin
  BY <1>1 DEF KwBegin, KwIdle
<1>2. CASE ~KwBegin
  <2>0. KwSettled
    BY <1>2, KwStays DEF KwSettled
  <2>1. kwSelf \in KwSelves
    BY DEF KwTypes
  <2> USE DEF KwSettled, KwSelves, KwGo, KwGoWith, KwFails
  <2>3. CASE KwEdit \/ KwCluster \/ UNCHANGED kwVars
    BY <2>3, <2>0 DEF KwEdit, kwVars, KwCluster
  <2>4. CASE KwPlan
    BY <2>4, <2>0, <2>1 DEF KwPlan
  <2>5. CASE KwUndo \/ KwDie
    BY <2>5, <2>0, <2>1 DEF KwUndo, KwDie
  <2>6. CASE KwBuild
    BY <2>6, <2>0, <2>1 DEF KwBuild
  <2>7. CASE KwClaim \/ KwLabel \/ KwVerify
    BY <2>7, <2>0, <2>1 DEF KwClaim, KwLabel, KwVerify
  <2>8. CASE KwApply
    BY <2>8, <2>0, <2>1 DEF KwApply
  <2>9. CASE KwWait
    BY <2>9, <2>0, <2>1 DEF KwWait
  <2>10. CASE KwDelete
    BY <2>10, <2>0, <2>1 DEF KwDelete
  <2> QED BY <1>2, <2>3, <2>4, <2>5, <2>6, <2>7, <2>8, <2>9, <2>10 DEF KwNext
<1> QED BY <1>1, <1>2


\* and its objects, of which a Job that was there is not applied.
LEMMA KwProgressKept ==
    ASSUME KwTypes, KwThere, KwResolved, KwProgress, [KwNext]_kwVars
    PROVE  KwProgress'
<1>1. CASE KwBegin
  BY <1>1 DEF KwProgress, KwBegin, KwIdle
<1>2. CASE ~KwBegin
  <2>0. KwSettled
    BY <1>2, KwStays DEF KwSettled
  <2>1. kwSelf \in KwSelves
    BY DEF KwTypes
  <2>2. KwSelected' = KwSelected
    BY <2>0, KwDerived
  <2>d. KwDesired(kwSelf.revision) \subseteq KwServices /\ KwSelected \subseteq KwServices
    BY DEF KwDesired, KwSelected
  <2>3. CASE KwEdit \/ UNCHANGED kwVars
    BY <2>3, <2>2 DEF KwEdit, kwVars, KwProgress, KwReached, KwKept
  <2>4. CASE KwCluster
    <3>1. PICK s \in KwServices, health \in {"ready", "unready"} : KwHealth(s, health)
      BY <2>4 DEF KwCluster
    <3>2. \A r \in KwServices :
            /\ kwObject'[r].hash = kwObject[r].hash /\ kwObject'[r].roll = kwObject[r].roll
            /\ kwObject'[r].health \in {kwObject[r].health, "ready", "unready"}
      BY <3>1 DEF KwHealth, KwTypes, KwObjects
    <3>3. UNCHANGED kwSelf
      BY <2>4 DEF KwCluster
    <3> QED BY <2>2, <2>d, <3>2, <3>3 DEF KwProgress, KwReached, KwKept, KwSame
  <2> USE DEF KwSettled, KwSelves, KwGo, KwGoWith, KwFails
  <2>5. CASE KwPlan
    BY <2>5, <2>2, <2>0, <2>1, ZenonT(60) DEF KwPlan, KwProgress, KwReached, KwKept, KwResolved
  <2>6. CASE KwUndo \/ KwDie \/ KwDelete
    <3>1. kwSelf'.at \in KwEnded \union {"deleting"}
      BY <2>6, <2>1 DEF KwUndo, KwDie, KwDelete, KwEnded
    <3> QED BY <3>1 DEF KwProgress, KwEnded
  <2>7. CASE KwBuild \/ KwClaim
    BY <2>7, <2>0, <2>1 DEF KwBuild, KwClaim, KwProgress, KwReached, KwKept
  <2>8. CASE KwLabel \/ KwVerify
    BY <2>8, <2>2, <2>0, <2>1 DEF KwLabel, KwVerify, KwProgress, KwReached, KwKept
  <2>9. CASE KwWait
    <3>1. CASE kwSelf.todo = {} /\ kwSelf'.at \in {"verifying", "labelling"}
      BY <2>9, <3>1, <2>2, <2>0 DEF KwWait, KwProgress, KwReached, KwKept
    <3>2. CASE \E s \in kwSelf.todo :
                  kwObject[s].health = "ready" /\ KwGoWith("waiting", kwSelf.todo \ {s})
      <4>1. PICK s \in kwSelf.todo :
              /\ kwObject[s].health = "ready"
              /\ kwSelf'.at = "waiting" /\ kwSelf'.todo = kwSelf.todo \ {s}
        BY <3>2, <2>1
      <4> QED BY <2>9, <4>1, <2>2, <2>0 DEF KwWait, KwProgress, KwReached, KwKept
    <3>3. CASE kwSelf'.at = "undoing"
      BY <3>3 DEF KwProgress
    <3> QED BY <2>9, <2>1, <3>1, <3>2, <3>3 DEF KwWait
  <2>10. CASE KwApply
    <3>1. CASE KwFails
      <4>1. kwSelf'.at = "undoing"
        BY <3>1, <2>1
      <4> QED BY <4>1 DEF KwProgress
    <3> DEFINE phase == KwSelected \intersect (IF kwSelf.at = "first" THEN KwJobs ELSE KwWorkloads)
    <3>2. CASE /\ kwObject' = [s \in KwServices |->
                                IF s \in phase THEN KwApplied(s) ELSE kwObject[s]]
               /\ IF kwSelf.at = "first" THEN KwGo("second") ELSE KwGoWith("waiting", KwSelected)
      <4>0. kwSelf.at \in {"first", "second"}
        BY <2>10 DEF KwApply
      <4>1. kwSelf.revision # KwNone
        BY <4>0 DEF KwResolved, KwWorking, KwNone
      <4>2. \A s \in phase : KwSame(s, KwApplied(s), kwSelf.revision, kwSelf.op)
        BY <4>1, <2>d, KwApplying DEF KwThere
      <4>3. \A s \in KwServices :
                /\ s \in phase => KwSame(s, kwObject'[s], kwSelf.revision, kwSelf.op)
                /\ s \notin phase => kwObject'[s] = kwObject[s]
        BY <3>2, <4>2, <2>d
      <4>4. CASE kwSelf.at = "first"
        <5>1. kwSelf'.at = "second"
          BY <3>2, <4>4, <2>1
        <5> QED BY <5>1, <4>3, <4>4, <2>2, <2>0 DEF KwProgress, KwReached, KwKept
      <4>5. CASE kwSelf.at = "second"
        <5>1. kwSelf'.at = "waiting" /\ kwSelf'.todo = KwSelected
          BY <3>2, <4>5, <2>1
        <5>2. KwSelected = (KwSelected \intersect KwJobs) \union phase
          BY <4>5, <2>d DEF KwServices
        <5> HIDE DEF phase
        <5>3. \A s \in KwServices :
                IF s \in KwSelected THEN KwSame(s, kwObject'[s], kwSelf.revision, kwSelf.op)
                ELSE kwObject'[s] = kwObject[s] /\ KwKept(s)
          BY <4>3, <4>5, <5>2 DEF KwProgress, KwReached
        <5> QED BY <5>1, <5>3, <2>2, <2>0 DEF KwProgress, KwReached, KwKept
      <4> QED BY <4>0, <4>4, <4>5
    <3> QED BY <2>10, <3>1, <3>2 DEF KwApply
  <2> QED BY <1>2, <2>3, <2>4, <2>5, <2>6, <2>7, <2>8, <2>9, <2>10 DEF KwNext
<1> QED BY <1>1, <1>2

\* The inductive invariant.
LEMMA KwInvariant == KwSpec => []KwInv
<1>1. KwInit => KwInv
  BY KwInitially
<1>2. KwInv /\ [KwNext]_kwVars => KwInv'
  BY KwTypesKept, KwThereKept, KwResolvedKept, KwAcceptedKept, KwSpacedKept, KwImagedKept,
     KwProgressKept DEF KwInv
<1> QED BY <1>1, <1>2, PTL DEF KwSpec

\* The state of the workloads has its type.
THEOREM KwTypeCorrect == KwSpec => []KwTypeOK
<1>1. KwInv => KwTypeOK
  BY KwAssumption DEF KwInv, KwTypes, KwTypeOK, KwSelves, KwWorking, KwTexted
<1> QED BY <1>1, KwInvariant, PTL

\* What an `up` that has verified leaves.
LEMMA KwVerified ==
    ASSUME KwInv, KwVerify, kwSelf'.at = "succeeded"
    PROVE  KwWhole'
<1> USE DEF KwInv
<1>1. /\ kwSelf.at = "verifying" /\ UNCHANGED <<kwSpace, kwObject, kwPushed>>
      /\ \A s \in KwServices : kwObject[s] = KwAbsent \/ KwAvailable(s)
  BY DEF KwVerify, KwGo, KwGoWith, KwFails, KwTypes, KwSelves
<1>2. UNCHANGED kwSelf.revision /\ UNCHANGED kwSelf.op
  BY KwStays DEF KwVerify, KwNext, KwBegin, KwEnded
<1>3. kwSpace = kwSelf.revision
  BY <1>1 DEF KwSpaced
<1>4. ~KwRefused
  BY <1>1 DEF KwAccepted, KwWorking
<1>5. ASSUME NEW s \in KwServices, s \notin KwDesired(kwSelf.revision)
      PROVE  kwObject[s] = KwAbsent
  <2>1. s \notin KwSelected /\ s \notin KwSeen
    BY <1>4, <1>5 DEF KwSelected, KwRefused, KwStale
  <2>2. kwObject[s].hash = KwNone
    BY <1>1, <2>1 DEF KwProgress, KwReached, KwKept, KwSeen
  <2> QED BY <2>2 DEF KwThere, KwNothingIsAbsent
<1>6. ASSUME NEW s \in KwDesired(kwSelf.revision)
      PROVE  /\ KwSame(s, kwObject[s], kwSelf.revision, kwSelf.op) /\ kwObject[s].health = "ready"
             /\ s \in KwBuilds(kwSelf.revision) => <<s, kwSelf.revision>> \in kwPushed
  <2>0. s \in KwServices
    BY DEF KwDesired
  <2>1. CASE s \in KwSelected
    BY <2>0, <2>1, <1>1 DEF KwProgress, KwReached, KwAvailable, KwAbsent, KwImaged
  <2>2. CASE s \notin KwSelected
    <3>1. s \in KwJobs /\ s \in KwSeen /\ KwSame(s, kwSelf.object[s], kwSelf.revision, kwSelf.op)
      BY <2>2, <1>4, <1>6 DEF KwSelected, KwRefused, KwChangedJobs
    <3>2. KwKept(s)
      BY <2>0, <2>2, <1>1 DEF KwProgress, KwReached
    <3>3. kwObject[s] # KwAbsent
      BY <3>1, <3>2 DEF KwKept, KwSeen, KwAbsent
    <3> QED BY <2>0, <3>1, <3>2, <3>3, <1>1 DEF KwKept, KwSame, KwAvailable, KwImaged
  <2> QED BY <2>1, <2>2
<1> QED BY <1>1, <1>2, <1>3, <1>5, <1>6 DEF KwWhole

\* An `up` that succeeds has made the namespace exactly its revision, for any
\* number of services, edits, operations and faults, and whatever the operations
\* before it left half done: what it did not refuse it has applied and waited
\* for, a Job it did not apply is the one it would have, and the last inspection
\* is of both.
THEOREM KwWhatSucceedsIsWhole == KwSpec => KwSuccessIsWhole
<1>1. ASSUME KwInv, [KwNext]_kwVars, kwSelf.at # "succeeded", kwSelf'.at = "succeeded",
             kwSelf.task = "up"
      PROVE  KwWhole'
  <2>1. kwSelf \in KwSelves
    BY <1>1 DEF KwInv, KwTypes
  <2> USE <2>1 DEF KwSelves, KwGo, KwGoWith, KwFails
  <2>2. CASE KwEdit \/ KwCluster \/ UNCHANGED kwVars
    BY <1>1, <2>2 DEF KwEdit, kwVars, KwCluster
  <2>3. CASE KwBegin
    BY <1>1, <2>3 DEF KwBegin, KwIdle
  <2>4. CASE KwPlan \/ KwUndo \/ KwDie
    BY <1>1, <2>4 DEF KwPlan, KwUndo, KwDie
  <2>5. CASE KwBuild \/ KwClaim \/ KwLabel
    BY <1>1, <2>5 DEF KwBuild, KwClaim, KwLabel
  <2>6. CASE KwApply
    BY <1>1, <2>6 DEF KwApply
  <2>7. CASE KwWait
    BY <1>1, <2>7 DEF KwWait
  <2>8. CASE KwDelete
    BY <1>1, <2>8 DEF KwDelete
  <2>9. CASE KwVerify
    BY <1>1, <2>9, KwVerified
  <2> QED BY <1>1, <2>2, <2>3, <2>4, <2>5, <2>6, <2>7, <2>8, <2>9 DEF KwNext
<1> QED BY <1>1, KwInvariant, PTL DEF KwSpec, KwSuccessIsWhole

\* An `up` that found the namespace deletes nothing in it and replaces none of
\* its Jobs, wherever it fails: an apply starts from what is there, a Job it has
\* seen is not selected, and only a `down`, or an `up` that found no namespace,
\* deletes.
THEOREM KwNothingIsDestroyed == KwSpec => KwNonDestructive
<1>1. ASSUME KwInv, [KwNext]_kwVars, kwSelf.task = "up", kwSelf.space # KwNone,
             NEW s \in KwServices
      PROVE  /\ kwObject[s] # KwAbsent => kwObject'[s] # KwAbsent
             /\ s \in KwJobs \intersect KwSeen => kwObject'[s].hash = kwObject[s].hash
  <2> USE <1>1 DEF KwInv
  <2>1. CASE KwApply
    <3>1. kwSelf.revision # KwNone
      BY <2>1 DEF KwApply, KwResolved, KwWorking, KwNone
    <3>2. KwApplied(s) # KwAbsent
      BY <3>1, KwApplying DEF KwThere
    <3>3. kwObject'[s] \in {kwObject[s], KwApplied(s)}
      BY <2>1 DEF KwApply
    <3>4. s \in KwJobs \intersect KwSeen => kwObject'[s] = kwObject[s]
      BY <2>1 DEF KwApply, KwSelected
    <3> QED BY <3>2, <3>3, <3>4
  <2>2. ~KwDelete
    BY DEF KwDelete, KwAccepted
  <2>3. ASSUME NEW r \in KwServices, NEW health \in {"ready", "unready"}, KwHealth(r, health)
        PROVE  /\ kwObject'[s].hash = kwObject[s].hash
               /\ kwObject[s] # KwAbsent => kwObject'[s] # KwAbsent
    BY <2>3 DEF KwHealth, KwTypes, KwObjects, KwAbsent
  <2>4. CASE UNCHANGED kwObject
    BY <2>4
  <2> QED BY <2>1, <2>2, <2>3, <2>4, KwTouches
<1>2. ASSUME KwInv, [KwNext]_kwVars
      PROVE  kwSelf.task = "up" /\ kwSelf.space # KwNone /\ kwSelf'.op = kwSelf.op =>
                \A s \in KwServices :
                    /\ kwObject[s] # KwAbsent => kwObject'[s] # KwAbsent
                    /\ s \in KwJobs \intersect KwSeen => kwObject'[s].hash = kwObject[s].hash
  BY <1>1, <1>2
<1> QED BY <1>2, KwInvariant, PTL DEF KwSpec, KwNonDestructive

\* Nothing is deleted but what the user was shown or asked to take down: neither
\* by a `prune` nor by an `up`.
THEOREM DeletedIsAsked == PruneSpec /\ KwSpec => NothingElseIsDeleted
  BY PruneDeletesTheShown, KwNothingIsDestroyed DEF NothingElseIsDeleted

------------------------------------------------------------------------------
(* The call of an external program.                                        *)

\* A caller, and what has become of its program and its input.
ChPlaces == {"called", "ready", "feeding", "waiting", "reaping", "collecting", "resting", "ended"}
ChVerdicts == {"none", "completed", "ok", "failed", "timed out", "cancelled", "dropped"}
ChCallers ==
    [runner : ChRunners, rescue : {"deadline", "cancel", "abort"}, input : BOOLEAN, at : ChPlaces,
     verdict : ChVerdicts, tries : 0..ChTries]

\* Input is for a plugin's program; nobody reads what is left of it when all
\* that could are gone; and who writes it first does not wait before it is read.
ChFed ==
    /\ chRun.input => chRun.runner \in {"kubernetes", "fly", "compose"}
    /\ ~chRun.input => chStdin = "none"
    /\ chStdin = "open" => ChAlive \/ chHeir
    /\ ChAt("feeding") => chRun.runner \in {"fly", "compose"}
    /\ ChAt("waiting") /\ chRun.runner \in {"fly", "compose"} => chStdin \in {"none", "fed"}

\* Only a program that is fed or waited for runs; the one of a single attempt
\* does not run before; and success is said last.
ChKept ==
    /\ chChild = "running" => chRun.at \in {"feeding", "waiting"}
    /\ chRun.at \in {"called", "ready"} => ChIs("readiness") \/ chChild = "none"
    /\ ChAt("resting") => ChIs("readiness")
    /\ chRun.verdict = "ok" => ChAt("ended")
    /\ chRun.verdict = "completed" => chRun.runner \in {"core", "kubernetes"}

ChInv == ChTypeOK /\ chRun \in ChCallers /\ ChFed /\ ChKept /\ ChAnswersAreTrue

\* A caller that goes on is at another place and otherwise as it was.
LEMMA ChGoes ==
    ASSUME chRun \in ChCallers, NEW where \in ChPlaces, ChGo(where)
    PROVE  /\ chRun' \in ChCallers /\ chRun'.at = where /\ chRun'.verdict = chRun.verdict
           /\ chRun'.runner = chRun.runner /\ chRun'.rescue = chRun.rescue
           /\ chRun'.input = chRun.input /\ chRun'.tries = chRun.tries
BY DEF ChGo, ChCallers

\* So is one that comes to a verdict.
LEMMA ChTurns ==
    ASSUME chRun \in ChCallers, NEW where \in ChPlaces, NEW verdict \in ChVerdicts,
           ChTurn(where, verdict)
    PROVE  /\ chRun' \in ChCallers /\ chRun'.at = where /\ chRun'.verdict = verdict
           /\ chRun'.runner = chRun.runner /\ chRun'.rescue = chRun.rescue
           /\ chRun'.input = chRun.input /\ chRun'.tries = chRun.tries
BY DEF ChTurn, ChCallers

\* What a caller has, by its fields.
LEMMA ChCaller ==
    ASSUME chRun \in ChCallers
    PROVE  /\ chRun.runner \in ChRunners /\ chRun.at \in ChPlaces /\ chRun.verdict \in ChVerdicts
           /\ chRun.input \in BOOLEAN /\ chRun.tries \in 0..ChTries
BY DEF ChCallers

\* The invariant holds as the caller is called.
LEMMA ChInitially == ASSUME ChInit PROVE ChInv
<1>1. PICK runner \in ChRunners, input \in BOOLEAN :
        /\ input => runner \in {"kubernetes", "fly", "compose"}
        /\ \E rescue \in ChRescues(runner) :
            chRun = [runner |-> runner, rescue |-> rescue, input |-> input,
                     at |-> "called", verdict |-> "none", tries |-> 0]
  BY DEF ChInit
<1>2. PICK rescue \in ChRescues(runner) :
        chRun = [runner |-> runner, rescue |-> rescue, input |-> input,
                 at |-> "called", verdict |-> "none", tries |-> 0]
  BY <1>1
<1>3. rescue \in {"deadline", "cancel", "abort"}
  BY DEF ChRescues
<1>4. 0 \in 0..ChTries
  BY ChAssumption DEF ChAssumption
<1>5. /\ chRun.runner = runner /\ chRun.rescue = rescue /\ chRun.input = input
      /\ chRun.at = "called" /\ chRun.verdict = "none" /\ chRun.tries = 0
  BY <1>2
<1>6. chRun \in ChCallers
  BY <1>2, <1>3, <1>4 DEF ChCallers, ChPlaces, ChVerdicts
<1>7. chEar = "unset" /\ chChild = "none" /\ chHeir = FALSE /\ chStdin = "none" /\ chAsked = "no"
  BY DEF ChInit
<1> QED BY <1>1, <1>4, <1>5, <1>6, <1>7
        DEF ChInv, ChTypeOK, ChFed, ChKept, ChAnswersAreTrue, ChAt, ChIs

\* What a program can become, and its pipe with it.
ChProgresses ==
    /\ chChild' = chChild \/ (chChild = "running" /\ chChild' \in {"well", "ill"})
         \/ (chChild = "doomed" /\ chChild' = "killed")
    /\ chHeir' \in BOOLEAN /\ (chHeir' => chHeir \/ chChild = "running")
    /\ chStdin' = chStdin \/ (chStdin = "open" /\ chStdin' \in {"fed", "broken"})
    /\ chStdin' = "broken" /\ chStdin # "broken" => chChild' \notin {"running", "doomed"} /\ ~chHeir'
    /\ chStdin' = "open" => chChild' \in {"running", "doomed"} \/ chHeir'

\* What the program does is no harm to what its caller has said.
LEMMA ChProgramKeeps == ASSUME ChInv, ChProgram PROVE ChInv'
<1>1. chRun' = chRun /\ chEar' = chEar /\ chAsked' = chAsked
  BY DEF ChProgram, ChTakes, ChExits, ChDies, ChForks, ChHeirExits
<1>2. /\ chChild \in {"none", "running", "doomed", "well", "ill", "killed"}
      /\ chHeir \in BOOLEAN /\ chStdin \in {"none", "open", "fed", "broken"}
      /\ chStdin = "open" => chChild \in {"running", "doomed"} \/ chHeir
  BY DEF ChInv, ChTypeOK, ChFed, ChAlive
<1>3. ChProgresses
  <2>2. CASE ChTakes
    BY <1>2, <2>2 DEF ChTakes, ChProgresses, ChAlive
  <2>3. CASE ChExits
    BY <1>2, <2>3 DEF ChExits, ChProgresses, ChUnread
  <2>4. CASE ChDies
    BY <1>2, <2>4 DEF ChDies, ChProgresses, ChUnread
  <2>5. CASE ChForks
    BY <1>2, <2>5 DEF ChForks, ChProgresses
  <2>6. CASE ChHeirExits
    BY <1>2, <2>6 DEF ChHeirExits, ChProgresses, ChUnread, ChAlive
  <2> QED BY <2>2, <2>3, <2>4, <2>5, <2>6 DEF ChProgram
<1>7. /\ chChild' \in {"none", "running", "doomed", "well", "ill", "killed"}
      /\ chHeir' \in BOOLEAN /\ chStdin' \in {"none", "open", "fed", "broken"}
  BY <1>2, <1>3 DEF ChProgresses
<1>4. ChTypeOK'
  BY <1>1, <1>7 DEF ChInv, ChTypeOK
<1>5. ChFed'
  BY <1>1, <1>2, <1>3 DEF ChInv, ChFed, ChAt, ChAlive, ChProgresses
<1>6. ChKept' /\ ChAnswersAreTrue'
  BY <1>1, <1>2, <1>3 DEF ChInv, ChKept, ChAnswersAreTrue, ChAt, ChIs, ChAlive, ChProgresses
<1> QED BY <1>1, <1>4, <1>5, <1>6 DEF ChInv

\* A caller keeps its way, its rescue and its input.
ChSame ==
    /\ chRun' \in ChCallers /\ chRun'.runner = chRun.runner /\ chRun'.rescue = chRun.rescue
    /\ chRun'.input = chRun.input

\* It has its type after any step.
LEMMA ChTyped ==
    ASSUME ChInv, ChSame, chEar' \in {"unset", "looked", "listening", "heard"},
           chChild' \in {"none", "running", "doomed", "well", "ill", "killed"},
           chHeir' \in BOOLEAN, chStdin' \in {"none", "open", "fed", "broken"},
           chAsked' \in {"no", "missed", "acknowledged"}
    PROVE  ChTypeOK'
<1>1. /\ chRun'.at \in ChPlaces /\ chRun'.verdict \in ChVerdicts /\ chRun'.tries \in 0..ChTries
  BY DEF ChSame, ChCallers
<1> QED BY <1>1 DEF ChInv, ChTypeOK, ChSame, ChPlaces, ChVerdicts

\* The steps that a caller takes, but for how it hears of a cancellation.
ChStep ==
    \/ ChBegin \/ ChSpawn \/ ChFeed \/ ChWait \/ ChPoll \/ ChHear \/ ChGitReaped \/ ChRest
    \/ ChTimer \/ ChDrop
    \/ \E early \in BOOLEAN : ChReap(early) \/ ChCollect(early)

\* They keep what it relies on, and what it has said.
LEMMA ChCallerKeeps ==
    ASSUME ChInv, ChStep
    PROVE  ChSame /\ ChFed' /\ ChKept' /\ ChAnswersAreTrue'
<1> USE DEF ChSame, ChFed, ChKept, ChAnswersAreTrue, ChAt, ChIs, ChAlive, ChQuiet, ChInv, ChKill
<1>0. /\ chRun \in ChCallers /\ chRun.verdict \in ChVerdicts
      /\ {"called", "ready", "feeding", "waiting", "reaping", "collecting", "resting", "ended"}
            \subseteq ChPlaces
      /\ {"none", "completed", "ok", "failed", "timed out", "cancelled", "dropped"}
            \subseteq ChVerdicts
      /\ chStdin \in {"none", "open", "fed", "broken"}
  BY ChCaller DEF ChPlaces, ChVerdicts, ChTypeOK
<1>g. ASSUME NEW where \in ChPlaces, ChGo(where)
      PROVE  ChSame /\ chRun'.at = where /\ chRun'.verdict = chRun.verdict
  BY <1>g, ChGoes DEF ChInv
<1>t. ASSUME NEW where \in ChPlaces, NEW verdict \in ChVerdicts, ChTurn(where, verdict)
      PROVE  ChSame /\ chRun'.at = where /\ chRun'.verdict = verdict
  BY <1>t, ChTurns DEF ChInv
<1>e. ASSUME NEW verdict \in ChVerdicts, ChEnd(verdict)
      PROVE  ChSame /\ chRun'.at = "ended" /\ chRun'.verdict = verdict
  BY <1>0, <1>e, <1>t DEF ChEnd
<1>j. /\ ChJudge \in {"ok", "failed"} /\ (ChJudge = "ok" => chChild = "well")
      /\ ChJudgeFed \in {"ok", "failed"}
      /\ ChJudgeFed = "ok" => chChild = "well" /\ chStdin # "broken"
  BY DEF ChJudge, ChJudgeFed
<1>1. CASE ChBegin
  BY <1>0, <1>g, <1>1 DEF ChBegin
<1>2. CASE ChSpawn
  BY <1>0, <1>g, <1>e, <1>2 DEF ChSpawn
<1>3. CASE ChFeed
  BY <1>0, <1>g, <1>e, <1>3 DEF ChFeed
<1>4. CASE ChWait
  BY <1>0, <1>g, <1>t, <1>e, <1>4, <1>j DEF ChWait
<1>5. CASE ChPoll
  BY <1>0, <1>e, <1>5, <1>j DEF ChPoll
<1>6. CASE ChHear
  BY <1>0, <1>e, <1>t, <1>6 DEF ChHear, ChGiveUp
<1>7. CASE ChGitReaped
  BY <1>0, <1>g, <1>7 DEF ChGitReaped
<1>8. CASE ChRest
  <2>1. CASE chRun.tries < ChTries /\ chRun' = [chRun EXCEPT !.at = "ready", !.tries = @ + 1]
    <3>1. chRun.tries + 1 \in 0..ChTries
      BY <2>1, ChCaller, ChAssumption DEF ChAssumption
    <3>2. ChSame /\ chRun'.at = "ready" /\ chRun'.verdict = chRun.verdict
      BY <1>0, <2>1, <3>1 DEF ChCallers
    <3> QED BY <1>8, <3>2 DEF ChRest
  <2>2. CASE ChEnd("timed out")
    BY <1>0, <1>e, <1>8, <2>2 DEF ChRest
  <2> QED BY <1>8, <2>1, <2>2 DEF ChRest
<1>9. CASE ChTimer
  BY <1>0, <1>e, <1>t, <1>9 DEF ChTimer, ChGiveUp
<1>10. CASE ChDrop
  BY <1>0, <1>e, <1>t, <1>10 DEF ChDrop
<1>11. ASSUME NEW early \in BOOLEAN, ChReap(early)
       PROVE  ChSame /\ ChFed' /\ ChKept' /\ ChAnswersAreTrue'
  BY <1>0, <1>g, <1>t, <1>11 DEF ChReap
<1>12. ASSUME NEW early \in BOOLEAN, ChCollect(early)
       PROVE  ChSame /\ ChFed' /\ ChKept' /\ ChAnswersAreTrue'
  <2>1. CASE ~early /\ ChQuiet /\ ChEnd(chRun.verdict) /\ chRun.verdict # "completed"
    BY <1>0, <1>e, <1>12, <2>1 DEF ChCollect
  <2>2. CASE ~early /\ ChQuiet /\ ChEnd(ChJudgeFed) /\ ChIs("kubernetes")
    BY <1>0, <1>e, <1>j, <1>12, <2>2 DEF ChCollect
  <2>3. CASE ~early /\ ChQuiet /\ ChEnd(ChJudge) /\ chRun.verdict = "completed" /\ ~ChIs("kubernetes")
    BY <1>0, <1>e, <1>j, <1>12, <2>3 DEF ChCollect
  <2>4. CASE early /\ ~ChQuiet /\ ChIs("core") /\ ChEnd(IF chRun.verdict = "completed" THEN "timed out" ELSE chRun.verdict)
    BY <1>0, <1>e, <1>12, <2>4 DEF ChCollect
  <2> QED BY <1>12, <2>1, <2>2, <2>3, <2>4 DEF ChCollect
<1> QED BY <1>1, <1>2, <1>3, <1>4, <1>5, <1>6, <1>7, <1>8, <1>9, <1>10, <1>11, <1>12 DEF ChStep

\* Types are kept by each of its steps.
LEMMA ChCallerTyped == ASSUME ChInv, ChStep, ChSame PROVE ChTypeOK'
<1>1. /\ chChild \in {"none", "running", "doomed", "well", "ill", "killed"}
      /\ chHeir \in BOOLEAN /\ chStdin \in {"none", "open", "fed", "broken"}
      /\ chEar \in {"unset", "looked", "listening", "heard"}
      /\ chAsked \in {"no", "missed", "acknowledged"}
  BY DEF ChInv, ChTypeOK
<1>2. chEar' = chEar /\ chAsked' = chAsked
  BY DEF ChStep, ChBegin, ChSpawn, ChFeed, ChWait, ChPoll, ChHear, ChGitReaped, ChRest, ChTimer,
         ChDrop, ChReap, ChCollect
<1>3. /\ chChild' \in {chChild, "doomed", "running"} /\ chHeir' \in {chHeir, FALSE}
      /\ chStdin' \in {chStdin, "open", "none"}
  BY DEF ChStep, ChBegin, ChSpawn, ChFeed, ChWait, ChPoll, ChHear, ChGitReaped, ChRest, ChTimer,
         ChDrop, ChReap, ChCollect, ChKill, ChGiveUp
<1> QED BY <1>1, <1>2, <1>3, ChTyped

\* A cancellation and who listens to it change nothing else.
LEMMA ChCancelKeeps == ASSUME ChInv, ChCancel \/ ChLook \/ ChListen PROVE ChInv'
<1>1. /\ chRun' = chRun /\ chChild' = chChild /\ chHeir' = chHeir /\ chStdin' = chStdin
  BY DEF ChCancel, ChLook, ChListen
<1>2. chEar' \in {"unset", "looked", "listening", "heard"} /\ chAsked' \in {"no", "missed", "acknowledged"}
  BY DEF ChCancel, ChLook, ChListen, ChInv, ChTypeOK
<1>3. ChTypeOK'
  BY <1>1, <1>2, ZenonT(60) DEF ChInv, ChTypeOK
<1> QED BY <1>1, <1>3 DEF ChInv, ChFed, ChKept, ChAnswersAreTrue, ChAt, ChIs, ChAlive

\* Nothing changes where nothing is done.
LEMMA ChStutters == ASSUME ChInv, UNCHANGED chVars PROVE ChInv'
<1>1. /\ chRun' = chRun /\ chEar' = chEar /\ chChild' = chChild /\ chHeir' = chHeir
      /\ chStdin' = chStdin /\ chAsked' = chAsked
  BY DEF chVars
<1>5. /\ chEar \in {"unset", "looked", "listening", "heard"}
      /\ chChild \in {"none", "running", "doomed", "well", "ill", "killed"}
      /\ chHeir \in BOOLEAN /\ chStdin \in {"none", "open", "fed", "broken"}
      /\ chAsked \in {"no", "missed", "acknowledged"}
  BY DEF ChInv, ChTypeOK
<1>2. ChTypeOK'
  BY <1>1, <1>5, ChTyped DEF ChSame, ChInv
<1>3. ChFed'
  BY <1>1 DEF ChInv, ChFed, ChAt, ChAlive
<1>4. ChKept' /\ ChAnswersAreTrue'
  BY <1>1 DEF ChInv, ChKept, ChAnswersAreTrue, ChAt, ChIs, ChAlive
<1> QED BY <1>1, <1>2, <1>3, <1>4 DEF ChInv

\* The invariant holds in every state.
LEMMA ChInvariant == ChSpec => []ChInv
<1>1. ChInv /\ [ChNext]_chVars => ChInv'
  <2> SUFFICES ASSUME ChInv, [ChNext]_chVars PROVE ChInv'
    OBVIOUS
  <2>1. CASE ChStep
    BY <2>1, ChCallerKeeps, ChCallerTyped DEF ChInv, ChSame
  <2>2. CASE ChProgram \/ ChCancel \/ ChLook \/ ChListen
    BY <2>2, ChProgramKeeps, ChCancelKeeps
  <2>3. CASE UNCHANGED chVars
    BY <2>3, ChStutters
  <2> QED BY <2>1, <2>2, <2>3 DEF ChNext, ChProceed, ChStep
<1> QED BY <1>1, ChInitially, PTL DEF ChSpec

\* An external program that is said to have succeeded has ended well and taken what
\* it was given, and no call ends while its program runs on unkilled, however it
\* hangs, forks or is rescued (the runners of processes).
THEOREM ChAnswersHold == ChSpec => []ChAnswersAreTrue
BY ChInvariant, PTL DEF ChInv

\* A call of an external program is always one that its runner can make: its
\* attempts, its verdict and what is left of its pipes (the runners of processes).
THEOREM ChTypeCorrect == ChSpec => []ChTypeOK
BY ChInvariant, PTL DEF ChInv

------------------------------------------------------------------------------
(* The target's settings, as `init` asks for them.                         *)

\* What is known of a shape: nothing is missing that a validator lets pass.
LEMMA StNothingMissing ==
    ASSUME NEW kind
    PROVE  "missing" \notin StShapes(kind) \cup StInitTakes(kind)
BY DEF StShapes, StInitTakes, StKubernetesInit, StFlyInit, StSshInit, StHetznerInit, StText,
       StArgument, StLabel, StSubdomain, StRegistry, StRepository, StSlug

\* What is checked of Kubernetes and Fly, a plugin accepts, but for these.
LEMMA StKubernetesAgrees ==
    ASSUME stTarget = "kubernetes", NEW f \in StFields("kubernetes"), NEW shape \in StInitTakes(StKind(f)),
           f \notin {"extra", "unknown", "token", "dns"}, shape \in StShapes(StKind(f)),
           f = "repository" => shape \notin {"dashed", "long"}
    PROVE  shape \in StPluginTakes(StKind(f))
BY DEF StInitTakes, StKubernetesInit, StPluginTakes, StKubernetesTakes, StKind, StFields, StRequired, StSlugs, StSubdomains, StEntrypoints, StNumbers, StChoices,
       StArgument, StLabel, StSubdomain, StRegistry, StRepository, StSlug
\* So it is with Fly.
LEMMA StFlyAgrees ==
    ASSUME stTarget = "fly", NEW f \in StFields("fly"), NEW shape \in StInitTakes(StKind(f)),
           f \notin {"extra", "unknown", "token", "dns"}
    PROVE  shape \in StPluginTakes(StKind(f))
BY DEF StInitTakes, StFlyInit, StPluginTakes, StFlyTakes, StKind, StFields, StRequired, StSlugs, StSubdomains, StEntrypoints, StNumbers, StChoices, StText,
       StArgument, StLabel, StSubdomain, StRegistry, StRepository, StSlug

\* What is needed has a value that is as documented.
LEMMA StNeeds ==
    ASSUME NEW target, NEW f \in StNeeded(target)
    PROVE  "fine" \in StShapes(StKind(f))
BY DEF StNeeded, StShapes, StKind, StRequired, StSlugs, StSubdomains, StEntrypoints, StNumbers,
       StChoices, StText

\* So has what a prompt asks for.
LEMMA StAsked ==
    ASSUME NEW f, StAskable(f)
    PROVE  "fine" \in StShapes(StKind(f)) /\ f \notin {"token", "dns"}
BY DEF StAskable, StShapes, StKind, StRequired, StSlugs, StSubdomains, StEntrypoints, StNumbers,
       StChoices, StText

\* Answers are of their shapes; what is written is what has passed, and what is
\* rejected is not accepted.
StAnswered ==
    /\ stTarget \in StTargets /\ stAsks \in BOOLEAN
    /\ \A f \in StFields(stTarget) : stAnswer[f] \in StShapes(StKind(f)) \cup {"absent"}
StPast ==
    /\ stAt \in {"answered", "refused", "written", "accepted", "rejected"}
    /\ stAt \in {"answered", "refused"} => \A f \in StFields(stTarget) : stFile[f] = "absent"
    /\ stAt \in {"written", "accepted", "rejected"} => StPasses /\ stFile = StMerged
    /\ stAt = "rejected" => ~StAccepts

StInv == StAnswered /\ StPast

\* It holds of whatever is answered, however many answers are not the usual.
LEMMA StInitially ==
    ASSUME NEW targets \in SUBSET StTargets, NEW bound, StStart(targets, bound)
    PROVE  StInv
<1>1. /\ stTarget \in StTargets /\ stAsks \in BOOLEAN /\ stAt = "answered"
      /\ stFile = [f \in StFields(stTarget) |-> "absent"]
  BY DEF StStart
<1>2. PICK odd \in SUBSET StFields(stTarget) :
        \E shape \in [odd -> UNION {StShapes(StKind(f)) : f \in odd} \cup {"absent"}] :
            /\ \A f \in odd : shape[f] \in StShapes(StKind(f)) \cup {"absent"}
            /\ stAnswer = [f \in StFields(stTarget) |->
                              IF f \in odd THEN shape[f] ELSE StUsual(stTarget)[f]]
  BY DEF StStart
<1>3. PICK shape :
        /\ \A f \in odd : shape[f] \in StShapes(StKind(f)) \cup {"absent"}
        /\ stAnswer = [f \in StFields(stTarget) |->
                          IF f \in odd THEN shape[f] ELSE StUsual(stTarget)[f]]
  BY <1>2
<1>4. ASSUME NEW f \in StFields(stTarget)
      PROVE  stAnswer[f] \in StShapes(StKind(f)) \cup {"absent"}
  <2>1. StUsual(stTarget)[f] \in StShapes(StKind(f)) \cup {"absent"}
    BY StNeeds DEF StUsual
  <2> QED BY <1>3, <2>1
<1> QED BY <1>1, <1>4 DEF StInv, StAnswered, StPast

\* Each of the two steps keeps it.
LEMMA StStepKeeps == ASSUME StInv, [StNext]_stVars PROVE StInv'
<1>1. /\ stTarget' = stTarget /\ stAsks' = stAsks /\ stAnswer' = stAnswer
  BY DEF StNext, StWrite, StParse, stVars
<1>2. StAnswered'
  BY <1>1 DEF StInv, StAnswered
<1>3. /\ StPasses' = StPasses /\ StMerged' = StMerged
  <2>1. ASSUME NEW f PROVE StChecked(f)' = StChecked(f)
    BY <1>1 DEF StChecked, StAskable
  <2>2. StMerged' = StMerged
    BY <1>1, <2>1 DEF StMerged, StOver
  <2>3. ASSUME NEW kind PROVE StInitTakes(kind)' = StInitTakes(kind)
    BY <1>1 DEF StInitTakes
  <2>4. StPasses' = StPasses
    BY <1>1, <2>1, <2>3 DEF StPasses, StDnsAgrees
  <2> QED BY <2>2, <2>4
<1>4. stFile' = stFile => StAccepts' = StAccepts
  BY <1>1 DEF StAccepts, StPluginTakes, StPublic
<1>5. StPast
  BY DEF StInv
<1>6. ASSUME StWrite PROVE StPast'
  <2>1. CASE StPasses
    BY <1>3, <1>6, <2>1 DEF StWrite, StPast
  <2>2. CASE ~StPasses
    BY <1>1, <1>5, <1>6, <2>2 DEF StWrite, StPast
  <2> QED BY <2>1, <2>2
<1>7. ASSUME StParse PROVE StPast'
  <2>1. StPasses /\ stFile = StMerged
    BY <1>5, <1>7 DEF StParse, StPast
  <2> QED BY <1>3, <1>4, <1>7, <2>1 DEF StParse, StPast
<1>8. ASSUME UNCHANGED stVars PROVE StPast'
  BY <1>1, <1>3, <1>4, <1>5, <1>8 DEF stVars, StPast
<1> QED BY <1>2, <1>6, <1>7, <1>8 DEF StInv, StNext

\* What is written is what was answered or checked, but for two fields.
LEMMA StMergedIs ==
    ASSUME NEW f \in StFields(stTarget)
    PROVE  /\ f = "token" => StMerged[f] = "reference"
           /\ f = "dns" => StMerged[f] = "absent"
           /\ f \notin {"token", "dns"} => StMerged[f] = StOver(f)
<1>1. f = "token" => StMerged[f] = "reference"
  BY DEF StMerged
<1>2. f = "dns" => StMerged[f] = "absent"
  BY DEF StMerged
<1>3. f \notin {"token", "dns"} => StMerged[f] = StOver(f)
  BY DEF StMerged
<1> QED BY <1>1, <1>2, <1>3

\* What has passed and is written is of its shape, and none of it is missing.
LEMMA StWritten ==
    ASSUME StAnswered, StPasses, NEW f \in StFields(stTarget)
    PROVE  /\ StChecked(f) \in StInitTakes(StKind(f)) \cup {"absent"} /\ StChecked(f) # "missing"
           /\ StMerged[f] \in StShapes(StKind(f)) \cup {"absent"}
<1>1. StChecked(f) \in StInitTakes(StKind(f)) \cup {"absent"}
  BY DEF StPasses
<1>2. StChecked(f) # "missing"
  BY <1>1, StNothingMissing
<1>3. stAnswer[f] \in StShapes(StKind(f)) \cup {"absent"}
  BY DEF StAnswered
<1>4. CASE f = "token"
  <2>1. StMerged[f] = "reference"
    BY <1>4, StMergedIs
  <2>2. "reference" \in StShapes(StKind("token"))
    BY DEF StShapes, StKind, StRequired, StSlugs, StSubdomains, StEntrypoints, StNumbers, StChoices
  <2> QED BY <1>1, <1>2, <1>4, <2>1, <2>2
<1>5. CASE f = "dns"
  BY <1>1, <1>2, <1>5, StMergedIs
<1>6. CASE f \notin {"token", "dns"}
  <2>1. StMerged[f] = StOver(f)
    BY <1>6, StMergedIs
  <2>2. CASE stAnswer[f] # "absent"
    BY <1>1, <1>2, <1>3, <2>1, <2>2 DEF StOver
  <2>3. CASE stAnswer[f] = "absent"
    <3>1. StMerged[f] = StChecked(f)
      BY <2>1, <2>3 DEF StOver
    <3>2. StChecked(f) \in {"fine", "missing", "absent"}
      BY <2>3 DEF StChecked
    <3>3. StChecked(f) = "fine" => "fine" \in StShapes(StKind(f))
      BY <2>3, StAsked DEF StChecked
    <3> QED BY <1>1, <1>2, <3>1, <3>2, <3>3
  <2> QED BY <2>2, <2>3
<1> QED BY <1>1, <1>2, <1>4, <1>5, <1>6

\* What is answered and written has its type.
LEMMA StInvTyped == ASSUME StInv PROVE StTypeOK
<1>1. ASSUME NEW f \in StFields(stTarget) PROVE stFile[f] \in StShapes(StKind(f)) \cup {"absent"}
  BY StWritten DEF StInv, StPast
<1> QED BY <1>1 DEF StInv, StAnswered, StPast, StTypeOK

\* What is as it was checked, a plugin accepts.
LEMMA StCheckedIsAccepted ==
    ASSUME StInv, stAt = "rejected", stTarget \in {"kubernetes", "fly"}, StAsChecked,
           stFile["extra"] = "absent",
           stTarget = "kubernetes" => stFile["repository"] \notin {"dashed", "long"}
    PROVE  FALSE
<1>1. StAnswered /\ StPasses /\ stFile = StMerged /\ ~StAccepts
  BY DEF StInv, StPast
<1>2. ASSUME NEW f \in StFields(stTarget)
      PROVE  stFile[f] \in StPluginTakes(StKind(f)) \cup {"absent"}
  <2>1. CASE f = "token"
    <3>1. stTarget = "fly" /\ stFile[f] = "reference"
      BY <1>1, <2>1 DEF StMerged, StFields, StRequired, StSubdomains, StEntrypoints
    <3> QED BY <2>1, <3>1 DEF StPluginTakes, StFlyTakes, StKind, StRequired, StSlugs, StSubdomains, StEntrypoints, StNumbers, StChoices
  <2>2. CASE f \in {"dns", "extra"}
    BY <1>1, <2>2 DEF StMerged
  <2>3. CASE f \notin {"token", "dns", "extra"}
    <3>1. /\ stFile[f] = StChecked(f) /\ stFile[f] \in StInitTakes(StKind(f)) \cup {"absent"}
          /\ stFile[f] \in StShapes(StKind(f)) \cup {"absent"}
      BY <1>1, <2>3, StWritten DEF StAsChecked
    <3>2. CASE f = "unknown"
      BY <3>1, <3>2 DEF StInitTakes, StKubernetesInit, StFlyInit, StKind, StRequired, StSlugs, StSubdomains, StEntrypoints, StNumbers, StChoices
    <3> QED BY <2>3, <3>1, <3>2, StKubernetesAgrees, StFlyAgrees
  <2> QED BY <2>1, <2>2, <2>3
<1>3. ASSUME NEW f \in StNeeded(stTarget) PROVE stFile[f] # "absent"
  <2>1. stTarget = "kubernetes" /\ f \in StRequired /\ f \in StFields(stTarget) \ {"token", "dns"}
    BY DEF StNeeded, StFields, StRequired
  <2>2. stFile[f] = StChecked(f) /\ StChecked(f) # "missing"
    BY <1>1, <2>1, StWritten DEF StAsChecked
  <2> QED BY <2>1, <2>2 DEF StChecked, StAskable, StRequired
<1>4. StAccepts
  BY <1>2, <1>3 DEF StAccepts, StPublic
<1> QED BY <1>1, <1>4

\* What is written has no credential, no open source, and no machine of its own.
LEMMA StInvTrue == ASSUME StInv PROVE StAnswersAreTrue
<1>1. ASSUME stAt \in {"written", "accepted", "rejected"}
      PROVE  /\ stTarget \in {"fly", "hetzner"} => stFile["token"] = "reference"
             /\ stTarget = "hetzner" => stFile["allowed_ssh_cidrs"] # "world"
             /\ stTarget = "ssh" => stFile["host"] # "loopback"
  <2>1. StAnswered /\ StPasses /\ stFile = StMerged
    BY <1>1 DEF StInv, StPast
  <2>2. stTarget \in {"fly", "hetzner"} => stFile["token"] = "reference"
    BY <2>1 DEF StMerged, StFields
  <2>3. ASSUME stTarget = "hetzner" PROVE stFile["allowed_ssh_cidrs"] # "world"
    <3> DEFINE f == "allowed_ssh_cidrs"
    <3>1. f \in StFields(stTarget) /\ StKind(f) = f
      BY <2>3 DEF StFields, StKind, StRequired, StSlugs, StSubdomains, StEntrypoints, StNumbers, StChoices
    <3>2. StChecked(f) # "world"
      BY <2>1, <2>3, <3>1, StWritten DEF StInitTakes, StHetznerInit
    <3>3. stFile[f] = StOver(f)
      BY <2>1, <3>1 DEF StMerged
    <3>4. StAskable(f) <=> stAnswer[f] \in {"absent", "empty"}
      BY DEF StAskable, StRequired
    <3> QED BY <3>2, <3>3, <3>4 DEF StOver, StChecked, StRequired
  <2>4. ASSUME stTarget = "ssh" PROVE stFile["host"] # "loopback"
    <3> DEFINE f == "host"
    <3>1. f \in StFields(stTarget) /\ StKind(f) = f
      BY <2>4 DEF StFields, StKind, StRequired, StSlugs, StSubdomains, StEntrypoints, StNumbers, StChoices
    <3>2. StChecked(f) # "loopback"
      BY <2>1, <2>4, <3>1, StWritten DEF StInitTakes, StSshInit
    <3>3. stFile[f] = StOver(f)
      BY <2>1, <3>1 DEF StMerged
    <3>4. StAskable(f) <=> stAnswer[f] \in {"absent", "odd"}
      BY DEF StAskable, StRequired
    <3> QED BY <3>2, <3>3, <3>4 DEF StOver, StChecked, StRequired
  <2> QED BY <2>2, <2>3, <2>4
<1> QED BY <1>1, StCheckedIsAccepted DEF StAnswersAreTrue

\* The invariant holds in every state.
LEMMA StInvariant == StSpec => []StInv
<1>1. StInit => StInv
  BY StInitially DEF StInit
<1>2. StInv /\ [StNext]_stVars => StInv'
  BY StStepKeeps
<1> QED BY <1>1, <1>2, PTL DEF StSpec

\* The settings that the target's part of `init` has written, and has checked
\* as they are written, the plugin accepts; no credential is written, no
\* machine is open to the world.
THEOREM StAnswersHold == StSpec => []StAnswersAreTrue
<1>1. StInv => StAnswersAreTrue
  BY StInvTrue
<1> QED BY <1>1, StInvariant, PTL

\* Whatever is answered, the settings that `init` has are those of its target,
\* each of a shape that a text can have (the target's part of `init`).
THEOREM StTypeCorrect == StSpec => []StTypeOK
<1>1. StInv => StTypeOK
  BY StInvTyped
<1> QED BY <1>1, StInvariant, PTL

------------------------------------------------------------------------------
(* Compose documents.                                                      *)

\* A document has a shape for each field, whatever has been edited in it.
CcIsDocument(doc) ==
    DOMAIN doc = CcFields /\ \A f \in CcFields : doc[f] \in CcShapes[f]

\* The fields of a document.
LEMMA CcFieldsAre ==
    CcFields = {"network", "volume", "assets", "attached", "mount", "source", "privileged",
                "kind", "deploy", "other", "environment", "public", "pods", "tree"}
BY DEF CcFields, CcShapes

\* The usual document is one.
LEMMA CcUsualIs == CcIsDocument(CcUsual)
BY DEF CcIsDocument, CcUsual, CcShapes, CcFields

\* So is one with an edited field ...
LEMMA CcEditedAre ==
    ASSUME NEW docs, \A doc \in docs : CcIsDocument(doc), NEW doc \in CcEdited(docs)
    PROVE  CcIsDocument(doc)
<1>1. CASE doc \in docs
  BY <1>1
<1>2. CASE doc \notin docs
  <2>1. PICK old \in docs, f \in CcFields :
          doc \in {[old EXCEPT ![f] = shape] : shape \in CcShapes[f]}
    BY <1>2 DEF CcEdited
  <2>2. PICK shape \in CcShapes[f] : doc = [old EXCEPT ![f] = shape]
    BY <2>1
  <2> QED BY <2>2 DEF CcIsDocument
<1> QED BY <1>1, <1>2

\* ... however many are edited.
LEMMA CcDocsAre == ASSUME NEW odd, NEW doc \in CcDocs(odd) PROVE CcIsDocument(doc)
<1>1. \A d \in {CcUsual} : CcIsDocument(d)
  BY CcUsualIs
<1>2. \A d \in CcOneOdd : CcIsDocument(d)
  BY <1>1, CcEditedAre DEF CcOneOdd
<1>3. \A d \in CcTwoOdd : CcIsDocument(d)
  BY <1>2, CcEditedAre DEF CcTwoOdd
<1>4. doc \in {CcUsual} \cup CcOneOdd \cup CcTwoOdd
  <2>1. CASE odd = 0
    BY <2>1 DEF CcDocs
  <2>2. CASE odd # 0 /\ odd = 1
    BY <2>2 DEF CcDocs
  <2>3. CASE odd # 0 /\ odd # 1
    BY <2>3 DEF CcDocs
  <2> QED BY <2>1, <2>2, <2>3
<1> QED BY <1>1, <1>2, <1>3, <1>4

\* Both checkouts have a document, and what is up was accepted.
CcInv ==
    /\ ccRuntime \in CcRuntimes /\ ccWho \in CcVisits
    /\ DOMAIN ccDoc = CcCheckouts
    /\ ccAt \in [CcCheckouts -> {"none", "refused", "up"}]
    /\ \A c \in CcCheckouts : CcIsDocument(ccDoc[c]) /\ (ccAt[c] = "up" => CcAccepts(ccDoc[c]))

\* The invariant holds before anything is up, of whichever runtimes and checkouts.
LEMMA CcInitially ==
    ASSUME NEW runtimes \in SUBSET CcRuntimes, NEW visits \in SUBSET CcVisits,
           CcStart(runtimes, visits)
    PROVE  CcInv
BY CcUsualIs DEF CcStart, CcInv

\* Each step keeps it.
LEMMA CcStepKeeps == ASSUME CcInv, [CcNext]_ccVars PROVE CcInv'
<1>1. ASSUME UNCHANGED ccVars PROVE CcInv'
  BY <1>1 DEF CcInv, CcIsDocument, CcAccepts, CcTakes, ccVars
<1>2. ASSUME NEW c \in CcCheckouts, CcUp(c) PROVE CcInv'
  <2>1. ccRuntime' = ccRuntime /\ ccWho' = ccWho
    BY <1>2 DEF CcUp
  <2>2. PICK doc :
          /\ CcIsDocument(doc)
          /\ ccDoc' = [ccDoc EXCEPT ![c] = doc]
          /\ ccAt' = [ccAt EXCEPT ![c] = IF CcAccepts(doc) THEN "up" ELSE "refused"]
    BY <1>2, CcDocsAre DEF CcUp
  <2>3. CcIsDocument(doc)
    BY <2>2
  <2>4. ASSUME NEW d PROVE CcAccepts(d)' <=> CcAccepts(d')
    BY <2>1 DEF CcAccepts, CcTakes
  <2>5. ASSUME NEW b \in CcCheckouts
        PROVE  CcIsDocument(ccDoc[b])' /\ (ccAt'[b] = "up" => CcAccepts(ccDoc'[b]))
    <3>1. CASE b = c
      BY <2>2, <2>3, <3>1 DEF CcInv, CcIsDocument
    <3>2. CASE b # c
      BY <2>2, <3>2 DEF CcInv, CcIsDocument
    <3> QED BY <3>1, <3>2
  <2>6. ASSUME NEW b \in CcCheckouts, CcAccepts(ccDoc'[b]) PROVE CcAccepts(ccDoc[b])'
    BY <2>1, <2>6 DEF CcAccepts, CcTakes
  <2>7. DOMAIN ccDoc' = CcCheckouts /\ ccAt' \in [CcCheckouts -> {"none", "refused", "up"}]
    BY <2>2 DEF CcInv
  <2> QED BY <2>1, <2>5, <2>6, <2>7 DEF CcInv
<1> QED BY <1>1, <1>2 DEF CcNext

\* Documents have their types.
LEMMA CcInvTyped == ASSUME CcInv PROVE CcTypeOK
BY DEF CcInv, CcTypeOK, CcIsDocument

\* What each runtime takes and does not carry.
LEMMA CcTakenIsCarried ==
    ASSUME NEW c \in CcCheckouts, NEW f \in CcFields, CcInv, ccAt[c] = "up"
    PROVE  \/ ccDoc[c][f] \in CcCarries(f)
           \/ ccRuntime = "compose" /\ f = "kind"
           \/ ccRuntime = "kubernetes" /\ ccDoc[c][f] = "optioned"
           \/ ccRuntime = "fly" /\ ccDoc[c][f] \in {"shared", "anonymous"}
<1> DEFINE shape == ccDoc[c][f]
<1>1. /\ shape \in CcTakes(f) /\ shape \in CcShapes[f]
      /\ CcCoreTakes(ccDoc[c]) /\ ccRuntime \in CcRemote
  BY CcAssumption DEF CcInv, CcAccepts, CcIsDocument
<1>2. f = "mount" => shape # "bind"
  BY <1>1 DEF CcCoreTakes
<1> HIDE DEF shape
<1>3. CASE ccRuntime = "compose"
  <2>1. shape \in CcComposeTakes(f)
    BY <1>1, <1>3 DEF CcTakes
  <2>2. f # "kind" => shape \in CcComposeCarries(f)
    BY <2>1, CcFieldsAre DEF CcComposeCarries, CcComposeTakes, CcOwnVolumes, CcFileAssets
  <2> QED BY <1>3, <2>2 DEF CcCarries, shape
<1>4. CASE ccRuntime = "kubernetes"
  <2>1. shape \in CcKubernetesTakes(f)
    BY <1>1, <1>4 DEF CcTakes
  <2>2. shape # "optioned" => shape \in CcKubernetesCarries(f)
    BY <1>1, <1>2, <2>1, CcFieldsAre
    DEF CcKubernetesCarries, CcKubernetesTakes, CcComposeTakes, CcOwnVolumes, CcFileAssets,
        CcRegistryBuilds, CcWorkloadKinds, CcDefaultNetwork, CcDefaultMember, CcUsual
  <2> QED BY <1>4, <2>2 DEF CcCarries, shape
<1>5. CASE ccRuntime = "fly"
  <2>1. shape \in CcFlyTakes(f)
    BY <1>1, <1>5 DEF CcTakes
  <2>2. shape \notin {"shared", "anonymous"} => shape \in CcFlyCarries(f)
    BY <1>1, <1>2, <2>1, CcFieldsAre
    DEF CcFlyCarries, CcFlyTakes, CcComposeTakes, CcOwnVolumes, CcFlyMounts, CcFlyDeploys,
        CcContained, CcDefaultNetwork, CcDefaultMember, CcUsual
  <2> QED BY <1>5, <2>2 DEF CcCarries, shape
<1> QED BY <1>1, <1>3, <1>4, <1>5 DEF CcRemote

\* What was accepted has no volume of another, and, for Kubernetes and Fly, no
\* assets.
LEMMA CcTaken ==
    ASSUME NEW c \in CcCheckouts, CcInv, ccAt[c] = "up"
    PROVE  /\ ccDoc[c].volume # "external"
           /\ ccRuntime \in {"kubernetes", "fly"} => ccDoc[c].assets = "absent"
           /\ ccRuntime \in CcRemote
<1>1. /\ ccDoc[c].volume \in CcTakes("volume") /\ ccDoc[c].assets \in CcTakes("assets")
      /\ ccRuntime \in CcRemote
  BY CcFieldsAre, CcAssumption DEF CcInv, CcAccepts
<1>2. "external" \notin CcTakes("volume")
  BY DEF CcTakes, CcComposeTakes, CcKubernetesTakes, CcFlyTakes, CcOwnVolumes
<1>3. ccRuntime \in {"kubernetes", "fly"} => CcTakes("assets") = {"absent"}
  BY DEF CcTakes, CcKubernetesTakes, CcFlyTakes, CcUsual
<1> QED BY <1>1, <1>2, <1>3

\* The revision says what runs.
LEMMA CcRevisionIsTrue == ASSUME CcInv PROVE CcRevisionTells
<1> SUFFICES ASSUME CcBothUp, CcSame
             PROVE  /\ CcRevision(1) = CcRevision(2) =>
                        /\ \A f \in CcHashed : ccDoc[1][f] = ccDoc[2][f]
                        /\ CcHidden(ccDoc[1]) \ (IF ccRuntime = "kubernetes" THEN {"environment"} ELSE {}) = {}
                    /\ ccDoc[1] = ccDoc[2] /\ ccWho[1] = ccWho[2] /\ CcHidden(ccDoc[1]) = {} =>
                        CcRevision(1) = CcRevision(2)
  BY DEF CcRevisionTells
<1> USE DEF CcCheckouts
<1>1. ASSUME CcRevision(1) = CcRevision(2)
      PROVE  \A f \in CcHashed : ccDoc[1][f] = ccDoc[2][f]
  <2>1. CcStable(1) = CcStable(2)
    BY <1>1 DEF CcRevision
  <2>2. \A f \in CcHashed : CcStable(1)[f] = <<ccDoc[1][f]>> /\ CcStable(2)[f] = <<ccDoc[2][f]>>
    BY DEF CcStable
  <2> QED BY <2>1, <2>2
<1>2. ASSUME CcRevision(1) = CcRevision(2)
      PROVE  CcHidden(ccDoc[1]) \ (IF ccRuntime = "kubernetes" THEN {"environment"} ELSE {}) = {}
  <2>1. (IF CcHidden(ccDoc[1]) \cap CcSalts # {} THEN 1 ELSE 0)
          = (IF CcHidden(ccDoc[2]) \cap CcSalts # {} THEN 2 ELSE 0)
    BY <1>2 DEF CcRevision
  <2>2. CcHidden(ccDoc[1]) \cap CcSalts = {}
    BY <2>1
  <2>3. /\ ccRuntime \in CcRemote
        /\ ccRuntime \in {"kubernetes", "fly"} => ccDoc[1].assets = "absent"
    BY CcTaken DEF CcBothUp
  <2>4. ccRuntime \in {"kubernetes", "fly"} => "assets" \notin CcHidden(ccDoc[1])
    BY <2>3 DEF CcHidden
  <2>5. CcHidden(ccDoc[1]) \subseteq {"source", "assets", "environment", "tree"}
    BY DEF CcHidden
  <2>6. CASE ccRuntime = "compose"
    BY <2>2, <2>5, <2>6 DEF CcSalts
  <2>7. CASE ccRuntime = "kubernetes"
    BY <2>2, <2>4, <2>5, <2>7 DEF CcSalts
  <2>8. CASE ccRuntime = "fly"
    BY <2>2, <2>4, <2>5, <2>8 DEF CcSalts
  <2> QED BY <2>3, <2>6, <2>7, <2>8 DEF CcRemote
<1>3. ASSUME ccDoc[1] = ccDoc[2], ccWho[1] = ccWho[2], CcHidden(ccDoc[1]) = {}
      PROVE  CcRevision(1) = CcRevision(2)
  <2>1. CcStable(1) = CcStable(2)
    BY <1>3 DEF CcStable
  <2>2. CcHidden(ccDoc[2]) \cap CcSalts = {} /\ CcHidden(ccDoc[1]) \cap CcSalts = {}
    BY <1>3
  <2> QED BY <1>3, <2>1, <2>2 DEF CcRevision
<1> QED BY <1>1, <1>2, <1>3

\* What a deployment claims, apart from routes and images, follows from the
\* environment and the document.
LEMMA CcHeldIsOwn ==
    ASSUME NEW c \in CcCheckouts, NEW d \in CcCheckouts, ccDoc[c] = ccDoc[d],
           CcEnvironment(ccWho[c]) = CcEnvironment(ccWho[d]), NEW n \in CcHeld(c)
    PROVE  n \in CcHeld(d)
<1> DEFINE env == CcEnvironment(ccWho[c])
           doc == ccDoc[c]
<1>1. n \in CcClaims(c) /\ n[1] \notin {"route", "image"}
  BY DEF CcHeld
<1>2. ASSUME NEW who PROVE n \notin CcRoutes(who, doc)
  BY <1>1 DEF CcRoutes
<1>3. \A v : CcVolumeOwner(c, v) = CcVolumeOwner(d, v)
  BY DEF CcVolumeOwner
<1>4. CASE ccRuntime = "compose"
  <2>1. n \in CcComposeClaims(c)
    BY <1>1, <1>4 DEF CcClaims
  <2>2. n \notin {<<"image", env, s, CcRevision(c)>> : s \in CcBuilt(doc)}
    BY <1>1
  <2>3. n \in CcComposeClaims(d)
    BY <1>2, <1>3, <2>1, <2>2 DEF CcComposeClaims
  <2> QED BY <1>1, <1>4, <2>3 DEF CcHeld, CcClaims
<1>5. CASE ccRuntime = "kubernetes"
  <2>1. n \in CcKubernetesClaims(c)
    BY <1>1, <1>5 DEF CcClaims
  <2>2. n \notin {<<"image", CcLabel(ccWho[c].slug), s, CcRevision(c)>> : s \in CcBuilt(doc)}
    BY <1>1
  <2>3. n \in CcKubernetesClaims(d)
    BY <1>2, <2>1, <2>2 DEF CcKubernetesClaims
  <2> QED BY <1>1, <1>5, <2>3 DEF CcHeld, CcClaims
<1>6. CASE ccRuntime \notin {"compose", "kubernetes"}
  <2>1. n \in CcFlyClaims(c)
    BY <1>1, <1>6 DEF CcClaims
  <2>2. n \notin {<<"image", env, s, CcRevision(c)>> : s \in CcBuilt(doc)}
    BY <1>1
  <2>3. n \in CcFlyClaims(d)
    BY <2>1, <2>2 DEF CcFlyClaims
  <2> QED BY <1>1, <1>6, <2>3 DEF CcHeld, CcClaims
<1> QED BY <1>4, <1>5, <1>6

\* A removal finds what its document was given.
LEMMA CcFindsItsOwnAgain == CcFindsItsOwn
<1>1. ASSUME CcSame PROVE CcEnvironment(ccWho[1]) = CcEnvironment(ccWho[2])
  BY <1>1 DEF CcSame, CcEnvironment
<1> QED BY <1>1, CcHeldIsOwn DEF CcFindsItsOwn, CcCheckouts

\* A label is the name's, whatever normalization makes of it.
LEMMA CcLabelTells ==
    ASSUME NEW a, NEW b, CcLabel(a) = CcLabel(b)
    PROVE  a = b
BY DEF CcLabel

\* A claim is a route, a container that has a name, or of its environment.
CcKey(n) == IF ccRuntime = "kubernetes" /\ n[1] = "image" THEN n[4].who ELSE n[2]

\* A name that is claimed is of the environment, but for a fixed one of a container.
LEMMA CcClaimIsOwn ==
    ASSUME CcInv, NEW c \in CcCheckouts, ccAt[c] = "up", NEW n \in CcClaims(c)
    PROVE  \/ n[1] = "route" /\ n \in CcRoutes(ccWho[c], ccDoc[c])
           \/ n[1] = "container" /\ n[2] = <<"host">> /\ ccDoc[c].other = "container_name"
           \/ n[1] # "route" /\ CcKey(n) = CcEnvironment(ccWho[c])
<1> DEFINE env == CcEnvironment(ccWho[c])
           doc == ccDoc[c]
<1>1. \A v : CcVolumeOwner(c, v) = env
  BY CcTaken DEF CcVolumeOwner
<1>2. \A r \in CcRoutes(ccWho[c], doc) : r[1] = "route"
  BY DEF CcRoutes
<1>3. CASE ccRuntime = "compose"
  <2>1. \A m : CcKey(m) = m[2]
    BY <1>3 DEF CcKey
  <2>2. n \in CcComposeClaims(c)
    BY <1>3 DEF CcClaims
  <2>3. CASE n \in CcRoutes(ccWho[c], doc)
    BY <1>2, <2>3
  <2>4. CASE n \in {<<"volume", CcVolumeOwner(c, v), v>> : v \in CcVolumes(doc)}
    BY <1>1, <2>1, <2>4
  <2>5. CASE n \in {<<"container", IF s = "web" /\ doc.other = "container_name" THEN <<"host">> ELSE env, s>> :
                       s \in CcServices}
    <3>1. PICK s \in CcServices :
            n = <<"container", IF s = "web" /\ doc.other = "container_name" THEN <<"host">> ELSE env, s>>
      BY <2>5
    <3>2. CASE s = "web" /\ doc.other = "container_name"
      BY <3>1, <3>2
    <3>3. CASE ~(s = "web" /\ doc.other = "container_name")
      BY <2>1, <3>1, <3>3
    <3> QED BY <3>2, <3>3
  <2>6. CASE \/ n \in {<<"project", env>>, <<"network", env>>, <<"ingress", env>>}
             \/ n \in {<<"asset", env>> : f \in {doc.assets} \ {"absent"}}
             \/ n \in {<<"image", env, s, CcRevision(c)>> : s \in CcBuilt(doc)}
             \/ n \in {<<"router", env, app>> : app \in CcApps(doc)}
    <3>1. n[1] # "route" /\ n[2] = env
      BY <2>6
    <3> QED BY <2>1, <3>1
  <2> QED BY <2>2, <2>3, <2>4, <2>5, <2>6 DEF CcComposeClaims
<1>4. CASE ccRuntime = "kubernetes"
  <2>1. CASE n = <<"namespace", env>>
    BY <2>1 DEF CcKey
  <2>2. CASE n \in {<<"image", CcLabel(ccWho[c].slug), s, CcRevision(c)>> : s \in CcBuilt(doc)}
    <3>1. CcRevision(c).who = env
      BY <1>4 DEF CcRevision
    <3> QED BY <1>4, <2>2, <3>1 DEF CcKey
  <2>3. CASE n \in CcRoutes(ccWho[c], doc)
    BY <1>2, <2>3
  <2> QED BY <1>4, <2>1, <2>2, <2>3 DEF CcClaims, CcKubernetesClaims
<1>5. CASE ccRuntime \notin {"compose", "kubernetes"}
  <2>1. \A m : CcKey(m) = m[2]
    BY <1>5 DEF CcKey
  <2>2. n \in CcFlyClaims(c)
    BY <1>5 DEF CcClaims
  <2> QED BY <2>1, <2>2 DEF CcFlyClaims
<1> QED BY <1>3, <1>4, <1>5

\* So two environments claim no name alike.
LEMMA CcScopedAlways == ASSUME CcInv PROVE CcScoped
<1> SUFFICES ASSUME CcBothUp, ~CcSame, NEW n \in CcClaims(1) \cap CcClaims(2)
             PROVE  \/ n[1] = "route" /\ ccWho[1].project # ccWho[2].project
                       /\ ccWho[1].slug = ccWho[2].slug
                    \/ n[1] = "container" /\ \A c \in CcCheckouts : ccDoc[c].other = "container_name"
  BY DEF CcScoped
<1> USE DEF CcCheckouts
<1>1. ccAt[1] = "up" /\ ccAt[2] = "up"
  BY DEF CcBothUp
<1>2. CcEnvironment(ccWho[1]) # CcEnvironment(ccWho[2])
  BY DEF CcEnvironment, CcSame
<1>3. CcEnvironment(ccWho[1]) # <<"host">> /\ CcEnvironment(ccWho[2]) # <<"host">>
  BY DEF CcEnvironment
<1>4. CASE n[1] = "route"
  <2>1. n \in CcRoutes(ccWho[1], ccDoc[1]) /\ n \in CcRoutes(ccWho[2], ccDoc[2])
    BY <1>1, <1>4, CcClaimIsOwn
  <2>2. /\ n[2] = CcLabel(ccWho[1].branch) /\ n[2] = CcLabel(ccWho[2].branch)
        /\ n[4] = CcLabel(ccWho[1].profile) /\ n[4] = CcLabel(ccWho[2].profile)
        /\ n[5] = CcLabel(ccWho[1].slug) /\ n[5] = CcLabel(ccWho[2].slug)
    BY <2>1 DEF CcRoutes
  <2>3. /\ ccWho[1].branch = ccWho[2].branch /\ ccWho[1].profile = ccWho[2].profile
        /\ ccWho[1].slug = ccWho[2].slug
    BY <2>2, CcLabelTells
  <2> QED BY <1>4, <2>3 DEF CcSame
<1>5. CASE n[1] # "route"
  <2>1. \A c \in CcCheckouts :
            \/ n[1] = "container" /\ n[2] = <<"host">> /\ ccDoc[c].other = "container_name"
            \/ CcKey(n) = CcEnvironment(ccWho[c])
    BY <1>1, <1>5, CcClaimIsOwn
  <2>2. n[1] = "container" => CcKey(n) = n[2]
    BY DEF CcKey
  <2> QED BY <1>2, <1>3, <2>1, <2>2
<1> QED BY <1>4, <1>5

\* What is accepted is true to its document.
LEMMA CcInvTrue == ASSUME CcInv PROVE CcAnswersAreTrue
<1>1. CcMeaningKept
  BY CcTakenIsCarried DEF CcMeaningKept
<1> QED BY <1>1, CcScopedAlways, CcFindsItsOwnAgain, CcRevisionIsTrue DEF CcAnswersAreTrue

\* The invariant holds in every state.
LEMMA CcInvariant == CcSpec => []CcInv
<1>1. CcInit => CcInv
  BY CcInitially DEF CcInit
<1>2. CcInv /\ [CcNext]_ccVars => CcInv'
  BY CcStepKeeps
<1> QED BY <1>1, <1>2, PTL DEF CcSpec

\* A document that was accepted keeps its meaning, but for what each runtime is
\* known to drop; its revision says what runs; it finds its volumes and networks
\* again; and two environments claim no name alike but a route of one slug or the
\* name that both give a container (the validators and renderers of documents).
THEOREM CcAnswersHold == CcSpec => []CcAnswersAreTrue
<1>1. CcInv => CcAnswersAreTrue
  BY CcInvTrue
<1> QED BY <1>1, CcInvariant, PTL

\* A checkout always has a document of the Compose format with every field in a
\* shape that the format has, and stands where its validator has left it.
THEOREM CcTypeCorrect == CcSpec => []CcTypeOK
<1>1. CcInv => CcTypeOK
  BY CcInvTyped
<1> QED BY <1>1, CcInvariant, PTL

------------------------------------------------------------------------------
(* The components in one run.                                              *)

\* What each part's step leaves alone.
LEMMA CoreParts ==
    /\ PrunePart(PruneNextState) =>
        PruneNextState /\ UNCHANGED <<part, claimVars, pfVars, psVars, kwVars, chVars, stVars, secVars, ccVars>>
    /\ ClaimsPart(ClaimNext) =>
        ClaimNext /\ UNCHANGED <<part, pruneVars, pfVars, psVars, kwVars, chVars, stVars, secVars, ccVars>>
    /\ FilePart(PfNext) =>
        PfNext /\ UNCHANGED <<part, pruneVars, claimVars, psVars, kwVars, chVars, stVars, secVars, ccVars>>
    /\ StorePart(PsNext) =>
        PsNext /\ UNCHANGED <<part, pruneVars, claimVars, pfVars, kwVars, chVars, stVars, secVars, ccVars>>
    /\ WorkloadsPart(KwNext) =>
        KwNext /\ UNCHANGED <<part, pruneVars, claimVars, pfVars, psVars, chVars, stVars, secVars, ccVars>>
    /\ ProcessPart(ChNext) =>
        ChNext /\ UNCHANGED <<part, pruneVars, claimVars, pfVars, psVars, kwVars, stVars, secVars, ccVars>>
    /\ SettingsPart(StNext) =>
        StNext /\ UNCHANGED <<part, pruneVars, claimVars, pfVars, psVars, kwVars, chVars, secVars, ccVars>>
    /\ SecretsPart(SecNext) =>
        SecNext /\ UNCHANGED <<part, pruneVars, claimVars, pfVars, psVars, kwVars, chVars, stVars, ccVars>>
    /\ DocumentsPart(CcNext) =>
        CcNext /\ UNCHANGED <<part, pruneVars, claimVars, pfVars, psVars, kwVars, chVars, stVars, secVars>>
<1>1. PrunePart(PruneNextState) =>
       PruneNextState /\ UNCHANGED <<part, claimVars, pfVars, psVars, kwVars, chVars, stVars, secVars, ccVars>>
  BY Zenon DEF PrunePart
<1>2. ClaimsPart(ClaimNext) =>
       ClaimNext /\ UNCHANGED <<part, pruneVars, pfVars, psVars, kwVars, chVars, stVars, secVars, ccVars>>
  BY Zenon DEF ClaimsPart
<1>3. FilePart(PfNext) =>
       PfNext /\ UNCHANGED <<part, pruneVars, claimVars, psVars, kwVars, chVars, stVars, secVars, ccVars>>
  BY Zenon DEF FilePart
<1>4. StorePart(PsNext) =>
       PsNext /\ UNCHANGED <<part, pruneVars, claimVars, pfVars, kwVars, chVars, stVars, secVars, ccVars>>
  BY Zenon DEF StorePart
<1>5. WorkloadsPart(KwNext) =>
       KwNext /\ UNCHANGED <<part, pruneVars, claimVars, pfVars, psVars, chVars, stVars, secVars, ccVars>>
  BY Zenon DEF WorkloadsPart
<1>6. ProcessPart(ChNext) =>
       ChNext /\ UNCHANGED <<part, pruneVars, claimVars, pfVars, psVars, kwVars, stVars, secVars, ccVars>>
  BY Zenon DEF ProcessPart
<1>7. SettingsPart(StNext) =>
       StNext /\ UNCHANGED <<part, pruneVars, claimVars, pfVars, psVars, kwVars, chVars, secVars, ccVars>>
  BY Zenon DEF SettingsPart
<1>8. SecretsPart(SecNext) =>
       SecNext /\ UNCHANGED <<part, pruneVars, claimVars, pfVars, psVars, kwVars, chVars, stVars, ccVars>>
  BY Zenon DEF SecretsPart
<1>9. DocumentsPart(CcNext) =>
       CcNext /\ UNCHANGED <<part, pruneVars, claimVars, pfVars, psVars, kwVars, chVars, stVars, secVars>>
  BY Zenon DEF DocumentsPart
<1> QED BY <1>1, <1>2, <1>3, <1>4, <1>5, <1>6, <1>7, <1>8, <1>9, Zenon

\* Each component takes its own steps, and a behaviour keeps to its part.
LEMMA CoreSteps ==
    ASSUME [Next]_vars
    PROVE  /\ part' = part
           /\ [PruneNextState]_pruneVars /\ [ClaimNext]_claimVars /\ [PfNext]_pfVars
           /\ [PsNext]_psVars /\ [KwNext]_kwVars /\ [ChNext]_chVars /\ [StNext]_stVars
           /\ [SecNext]_secVars /\ [CcNext]_ccVars
<1>1. CASE PrunePart(PruneNextState)
  BY <1>1, CoreParts, Zenon
<1>2. CASE ClaimsPart(ClaimNext)
  BY <1>2, CoreParts, Zenon
<1>3. CASE FilePart(PfNext)
  BY <1>3, CoreParts, Zenon
<1>4. CASE StorePart(PsNext)
  BY <1>4, CoreParts, Zenon
<1>5. CASE WorkloadsPart(KwNext)
  BY <1>5, CoreParts, Zenon
<1>6. CASE ProcessPart(ChNext)
  BY <1>6, CoreParts, Zenon
<1>7. CASE SettingsPart(StNext)
  BY <1>7, CoreParts, Zenon
<1>8. CASE SecretsPart(SecNext)
  BY <1>8, CoreParts, Zenon
<1>9. CASE DocumentsPart(CcNext)
  BY <1>9, CoreParts, Zenon
<1>10. CASE UNCHANGED vars
  BY <1>10, Zenon DEF vars
<1> QED BY <1>1, <1>2, <1>3, <1>4, <1>5, <1>6, <1>7, <1>8, <1>9, <1>10, Zenon DEF Next

\* Each begins as it does alone, the settings and the documents in a behaviour
\* that is about them.
LEMMA CoreStarts ==
    ASSUME Init
    PROVE  /\ PruneInit /\ ClaimInit /\ PfInit /\ PsInit /\ KwInit /\ ChInit /\ SecInit
           /\ part = "settings" => StInit
           /\ part = "documents" => CcInit
BY Zenon DEF Init

\* So a behaviour of all is one of each.
LEMMA CoreIsEach ==
    Spec => PruneSpec /\ ClaimSpec /\ PfSpec /\ PsSpec /\ KwSpec /\ ChSpec /\ SecSpec
<1>1. Init => PruneInit /\ ClaimInit /\ PfInit /\ PsInit /\ KwInit /\ ChInit /\ SecInit
  BY CoreStarts
<1>2. [Next]_vars => [PruneNextState]_pruneVars /\ [ClaimNext]_claimVars /\ [PfNext]_pfVars
        /\ [PsNext]_psVars /\ [KwNext]_kwVars /\ [ChNext]_chVars /\ [SecNext]_secVars
  BY CoreSteps
<1> QED BY <1>1, <1>2, PTL
        DEF Spec, PruneSpec, ClaimSpec, PfSpec, PsSpec, KwSpec, ChSpec, SecSpec

\* Settings and documents keep their invariants in behaviours about them.
CoreHeld ==
    /\ part = "settings" => StInv
    /\ part = "documents" => CcInv

\* They hold it in every state.
LEMMA CoreHeldAlways == Spec => []CoreHeld
<1>1. Init => CoreHeld
  <2>1. StInit => StInv
    BY StInitially DEF StInit
  <2>2. CcInit => CcInv
    BY CcInitially DEF CcInit
  <2> QED BY <2>1, <2>2, CoreStarts, Zenon DEF CoreHeld
<1>2. CoreHeld /\ [Next]_vars => CoreHeld'
  BY CoreSteps, StStepKeeps, CcStepKeeps, Zenon DEF CoreHeld
<1> QED BY <1>1, <1>2, PTL DEF Spec

\* In every behaviour of the core's components, whichever it is about, every
\* variable has its type: the environments and their deadlines, the plan and its
\* journal, lightrail.toml and lightrail.lock, workloads, programs, settings,
\* secrets and documents (the state that each of these parts of the code keeps).
THEOREM CoreTypeCorrect == Spec => []CoreTypeOK
<1>1. /\ PruneTypeOK /\ ClaimTypeOK /\ PfTypeOK /\ PsTypeOK /\ KwTypeOK /\ ChTypeOK /\ SecTypeOK
      /\ CoreHeld
      => CoreTypeOK
  BY StInvTyped, CcInvTyped, Zenon DEF CoreHeld, CoreTypeOK
<1> QED BY <1>1, CoreIsEach, CoreHeldAlways, PruneTypeCorrect, ClaimTypeCorrect, FileTypeCorrect,
           StoreTypeCorrect, KwTypeCorrect, ChTypeCorrect, SecTypeCorrect, PTL

\* What says that it has succeeded has: a `prune` has left nothing of what it
\* selected, a plugin command has made the lock and the store what it says, an
\* external program has ended well, settings that were checked are accepted, a
\* secret that was stored alone stays stored, and a document that was accepted
\* keeps its meaning under names of its environment (the prune, plugin, secret
\* and init commands, the runners of processes, the validators and renderers of
\* documents).
THEOREM CoreSucceeds == Spec => []SuccessIsTrue
<1>1. PruneSuccessIsWhole /\ PsAnswersAreTrue /\ ChAnswersAreTrue /\ SecAnswersAreTrue /\ CoreHeld
      => SuccessIsTrue
  BY StInvTrue, CcInvTrue, Zenon DEF CoreHeld, SuccessIsTrue
<1> QED BY <1>1, CoreIsEach, CoreHeldAlways, PrunedIsGone, PsAnswersHold, ChAnswersHold,
           SecAnswersHold, PTL

\* What else is promised holds in every behaviour of all components: no
\* environment loses the file that leads to it, what runs is what was pinned, a
\* failed apply tells what it has left, an `up` that succeeds has made its
\* namespace what it says, and nothing is deleted that nobody asked for
\* (environment.rs, plugin_store.rs, orchestrator.rs, the Kubernetes plugin).
THEOREM CorePromises ==
    Spec => /\ [](PfNothingOrphaned /\ PsRunsWhatIsPinned /\ ClaimsAreExact)
            /\ KwSuccessIsWhole /\ NothingElseIsDeleted
<1>1. Spec => [](PfNothingOrphaned /\ PsRunsWhatIsPinned /\ ClaimsAreExact)
  BY CoreIsEach, NothingIsOrphaned, RunsWhatIsPinned, NothingIsLeftUntold, PTL
<1> QED BY <1>1, CoreIsEach, KwWhatSucceedsIsWhole, DeletedIsAsked
==============================================================================
