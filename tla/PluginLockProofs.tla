-------------------------- MODULE PluginLockProofs --------------------------
(***************************************************************************)
(* The locks of the plugins keep what the operation lock promises, for any *)
(* number of operations.  A Fly lease without a heartbeat is a lock as     *)
(* long as the margins that every check demands cover the last provider    *)
(* call and the error of the clock (FlyTiming).  The directory of a host   *)
(* is one whatever is lost.  The flock of a machine goes with the machine: *)
(* what was refused to an operation is not removed by it.                  *)
(***************************************************************************)
EXTENDS PluginLocks, TLAPS

------------------------------------------------------------------------------
(* The Fly lease.                                                          *)

\* What a process remembers never promises more than the provider does.
FlyModest(o) ==
    /\ flySeen[o] <= FlyTTL
    /\ FlyMine(o) => flySeen[o] <= flyLease.left

\* Where a process is tells what it holds.
FlyPlace(o) ==
    /\ flyPc[o] \in {"idle", "find"} => flyLock[o] = "none"
    /\ flyPc[o] \in {"owner", "refresh", "compare"} => flyLock[o] = "held"
    /\ flyPc[o] = "mutate" => flyLock[o] # "none"
    /\ flyLock[o] = "none" => flyLease.nonce # o
    /\ flyNeed[o] \in FlyWork \union {0}

\* A call that a check has let through ends before the lease does.
FlyOutlives(o) ==
    flyPc[o] = "mutate" => FlyMine(o) /\ flyTimer[o] < flyLease.left

FlyInv ==
    /\ FlyLockTypeOK
    /\ \A o \in Op : FlyModest(o) /\ FlyPlace(o) /\ FlyOutlives(o)

\* Initially nobody holds anything.
LEMMA FlyInvInit == FlyLockInit => FlyInv
<1> SUFFICES ASSUME FlyLockInit PROVE FlyInv
  OBVIOUS
<1>1. FlyLockTypeOK
  BY DEF FlyLockInit, FlyLockTypeOK
<1>2. ASSUME NEW o \in Op PROVE FlyModest(o) /\ FlyPlace(o) /\ FlyOutlives(o)
  BY FlyLockAssumption DEF FlyLockInit, FlyModest, FlyPlace, FlyOutlives, FlyMine
<1> QED BY <1>1, <1>2 DEF FlyInv

\* The steps of o that leave the lease alone and do not let a call through.
FlyQuiet(o) ==
    \/ FlyAcquire(o) \/ FlyMakeSentinel(o) \/ FlyGiveUp(o)
    \/ \E w \in FlyWork : FlyCheck(o, w)
    \/ FlyEndMutation(o) \/ FlyDie(o)

\* Steps that leave the lease alone keep the invariant.
LEMMA FlyQuietInv == ASSUME FlyInv, NEW o \in Op, FlyQuiet(o) PROVE FlyInv'
<1> USE FlyLockAssumption
<1>1. FlyLockTypeOK'
  BY DEF FlyInv, FlyLockTypeOK, FlyQuiet, FlyAcquire, FlyMakeSentinel, FlyGiveUp, FlyCheck,
     FlyEndMutation, FlyDie, FlyGo, FlyAnswer, FlyLeast
<1>2. UNCHANGED <<flyLease, flySeen>>
  BY DEF FlyQuiet, FlyAcquire, FlyMakeSentinel, FlyGiveUp, FlyCheck, FlyEndMutation, FlyDie
<1>3. \A p \in Op \ {o} : /\ flyPc'[p] = flyPc[p] /\ flyLock'[p] = flyLock[p]
                          /\ flyTimer'[p] = flyTimer[p] /\ flyNeed'[p] = flyNeed[p]
  BY DEF FlyInv, FlyLockTypeOK, FlyQuiet, FlyAcquire, FlyMakeSentinel, FlyGiveUp, FlyCheck,
     FlyEndMutation, FlyDie, FlyGo
<1>4. FlyPlace(o)'
  BY <1>2 DEF FlyInv, FlyLockTypeOK, FlyPlace, FlyQuiet, FlyAcquire, FlyMakeSentinel,
     FlyGiveUp, FlyCheck, FlyEndMutation, FlyDie, FlyGo
<1>5. FlyOutlives(o)'
  <2>1. flyPc'[o] = "mutate" => flyPc[o] = "mutate" /\ flyTimer'[o] <= flyTimer[o]
    BY DEF FlyInv, FlyLockTypeOK, FlyQuiet, FlyAcquire, FlyMakeSentinel, FlyGiveUp, FlyCheck,
       FlyEndMutation, FlyDie, FlyGo, FlyLeast
  <2> QED BY <1>2, <2>1 DEF FlyInv, FlyLockTypeOK, FlyOutlives, FlyMine, FlyQuiet, FlyAcquire,
       FlyMakeSentinel, FlyGiveUp, FlyCheck, FlyEndMutation, FlyDie, FlyGo, FlyLeast
<1>6. ASSUME NEW p \in Op PROVE FlyModest(p)' /\ FlyPlace(p)' /\ FlyOutlives(p)'
  BY <1>2, <1>3, <1>4, <1>5 DEF FlyInv, FlyModest, FlyPlace, FlyOutlives, FlyMine
<1> QED BY <1>1, <1>6 DEF FlyInv

\* A lease is only given out when nobody has a live one, so no call is in
\* flight then.
LEMMA FlyTakeLeaseInv ==
    ASSUME FlyInv, NEW o \in Op, FlyTakeLease(o) PROVE FlyInv'
<1> USE FlyLockAssumption
<1>1. FlyLockTypeOK'
  BY DEF FlyInv, FlyLockTypeOK, FlyTakeLease, FlyGo
<1>2. \A p \in Op : flyPc[p] # "mutate"
  BY DEF FlyInv, FlyOutlives, FlyTakeLease, FlyLive, FlyMine
<1>3. \A p \in Op \ {o} : /\ flyPc'[p] = flyPc[p] /\ flyLock'[p] = flyLock[p]
                          /\ flySeen'[p] = flySeen[p] /\ flyNeed'[p] = flyNeed[p]
  BY DEF FlyInv, FlyLockTypeOK, FlyTakeLease, FlyGo
<1>4. /\ flyPc'[o] # "mutate" /\ flyNeed'[o] = flyNeed[o] /\ flyLock[o] = "none"
      /\ \/ flyPc'[o] = "owner" /\ flyLock'[o] = "held" /\ flySeen'[o] = FlyTTL
            /\ flyLease' = [nonce |-> o, left |-> FlyTTL]
         \/ flyPc'[o] \in {"find", "done"} /\ flyLock'[o] = "none"
            /\ flySeen'[o] = flySeen[o] /\ \A q \in Op : flyLease'.nonce # q
  BY DEF FlyInv, FlyLockTypeOK, FlyPlace, FlyTakeLease, FlyGo, FlyLive, FlyMine
<1>5. FlyModest(o)' /\ FlyPlace(o)' /\ FlyOutlives(o)'
  BY <1>4 DEF FlyInv, FlyLockTypeOK, FlyModest, FlyPlace, FlyOutlives, FlyMine
<1>6. ASSUME NEW p \in Op \ {o} PROVE FlyModest(p)' /\ FlyPlace(p)' /\ FlyOutlives(p)'
  BY <1>2, <1>3, <1>4 DEF FlyInv, FlyLockTypeOK, FlyModest, FlyPlace, FlyOutlives, FlyMine
<1> QED BY <1>1, <1>5, <1>6 DEF FlyInv

\* The two checks: what they let through is covered by what is left.
LEMMA FlyCheckInv ==
    ASSUME FlyTiming, FlyInv, NEW o \in Op, FlyRefreshed(o) \/ FlyCompared(o)
    PROVE  FlyInv'
<1> USE FlyLockAssumption
<1>0. flyNeed[o] \in Nat /\ FlySkew[o] \in Int /\ FlySkew[o] <= FlyMaxSkew
  BY DEF FlyInv, FlyLockTypeOK
<1>1. FlyLockTypeOK'
  BY <1>0 DEF FlyInv, FlyLockTypeOK, FlyRefreshed, FlyCompared, FlyGranted, FlyRefused, FlyGo,
     FlyAnswer
<1>2. \A p \in Op \ {o} : /\ flyPc'[p] = flyPc[p] /\ flyTimer'[p] = flyTimer[p]
                          /\ flySeen'[p] = flySeen[p]
  BY DEF FlyInv, FlyLockTypeOK, FlyRefreshed, FlyCompared, FlyGranted, FlyRefused, FlyGo
<1>3. /\ UNCHANGED <<flyLock, flyNeed>> /\ flyLease'.nonce = flyLease.nonce
      /\ flyPc[o] \in {"refresh", "compare"} /\ flyPc'[o] \in {"owner", "mutate"}
  BY DEF FlyInv, FlyLockTypeOK, FlyRefreshed, FlyCompared, FlyGranted, FlyRefused, FlyGo
<1>4. \/ flyLease' = flyLease
      \/ FlyMine(o) /\ flyLease' = [flyLease EXCEPT !.left = FlyTTL]
  BY DEF FlyRefreshed, FlyCompared
<1>5. FlyModest(o)'
  <2>1. CASE flySeen'[o] = flySeen[o] /\ flyLease' = flyLease
    BY <2>1 DEF FlyInv, FlyModest, FlyMine
  <2>2. CASE flySeen'[o] = FlyTTL /\ flyLease'.left = FlyTTL
    BY <2>2 DEF FlyModest, FlyMine
  <2>3. CASE flySeen'[o] = flySeen[o] /\ flyLease'.left = FlyTTL
    BY <2>3 DEF FlyInv, FlyModest, FlyMine
  <2> QED BY <1>4, <2>1, <2>2, <2>3 DEF FlyInv, FlyLockTypeOK, FlyRefreshed, FlyCompared,
       FlyGranted, FlyRefused
<1>6. FlyOutlives(o)'
  <2> SUFFICES ASSUME flyPc'[o] = "mutate"
               PROVE  FlyMine(o)' /\ flyTimer'[o] < flyLease'.left
    BY DEF FlyOutlives
  <2>1. flyTimer'[o] = flyNeed[o] + FlyCallTime
    BY DEF FlyInv, FlyLockTypeOK, FlyRefreshed, FlyCompared, FlyGranted, FlyRefused, FlyGo
  <2>2. FlyMine(o) /\ flyLease'.left + FlySkew[o] > flyNeed[o] + FlyMargin + FlyAllowance
    BY DEF FlyInv, FlyLockTypeOK, FlyRefreshed, FlyCompared, FlyGranted, FlyRefused, FlyGo,
       FlySame, FlyRequired
  <2>3. flyLease'.left \in Nat
    BY <1>1 DEF FlyLockTypeOK
  <2>4. flyTimer'[o] < flyLease'.left
    BY <1>0, <2>1, <2>2, <2>3 DEF FlyTiming
  <2> QED BY <1>0, <1>3, <2>1, <2>2, <2>3, <2>4 DEF FlyMine
<1>7. FlyPlace(o)'
  BY <1>3 DEF FlyInv, FlyPlace
<1>8. ASSUME NEW p \in Op \ {o} PROVE FlyModest(p)' /\ FlyPlace(p)' /\ FlyOutlives(p)'
  BY <1>2, <1>3, <1>4 DEF FlyInv, FlyLockTypeOK, FlyModest, FlyPlace, FlyOutlives, FlyMine
<1> QED BY <1>1, <1>5, <1>6, <1>7, <1>8 DEF FlyInv

\* An owner that releases has no call in flight, and nobody else has.
LEMMA FlyReleaseInv == ASSUME FlyInv, NEW o \in Op, FlyRelease(o) PROVE FlyInv'
<1> USE FlyLockAssumption
<1>1. FlyLockTypeOK'
  BY DEF FlyInv, FlyLockTypeOK, FlyRelease, FlyGo, FlyAnswer
<1>2. /\ flyPc[o] = "owner" /\ flyPc'[o] \in {"owner", "done"} /\ flyLock[o] = "held"
      /\ flyLock'[o] \in {"held", "gone"} /\ (flyPc'[o] = "owner" => flyLock'[o] = "held")
      /\ UNCHANGED <<flySeen, flyNeed>>
      /\ \A p \in Op \ {o} : /\ flyPc'[p] = flyPc[p] /\ flyLock'[p] = flyLock[p]
                             /\ flyTimer'[p] = flyTimer[p]
  BY DEF FlyInv, FlyLockTypeOK, FlyRelease, FlyGo
<1>3. \/ flyLease' = flyLease
      \/ FlyMine(o) /\ flyLease' = [nonce |-> "free", left |-> 0]
  BY DEF FlyRelease
<1>4. ASSUME NEW p \in Op PROVE FlyModest(p)' /\ FlyPlace(p)' /\ FlyOutlives(p)'
  BY <1>2, <1>3 DEF FlyInv, FlyModest, FlyPlace, FlyOutlives, FlyMine
<1> QED BY <1>1, <1>4 DEF FlyInv

\* Time takes as much from a call as from the lease.
LEMMA FlyTickInv == ASSUME FlyInv, FlyTick PROVE FlyInv'
<1> USE FlyLockAssumption
<1>1. FlyLockTypeOK'
  BY DEF FlyInv, FlyLockTypeOK, FlyTick, FlyDown
<1>2. ASSUME NEW o \in Op PROVE FlyModest(o)' /\ FlyPlace(o)' /\ FlyOutlives(o)'
  <2>1. /\ flyLease'.nonce = flyLease.nonce
        /\ flyLease'.left = (IF flyLease.left > 0 THEN flyLease.left - 1 ELSE 0)
        /\ flySeen'[o] = (IF flySeen[o] > 0 - FlyMaxSkew THEN flySeen[o] - 1
                                                        ELSE 0 - FlyMaxSkew)
        /\ flyTimer'[o] = (IF flyTimer[o] > 0 THEN flyTimer[o] - 1 ELSE 0)
        /\ UNCHANGED <<flyPc, flyLock, flyNeed>>
        /\ flyPc[o] = "mutate" => flyTimer[o] > 0
    BY DEF FlyInv, FlyLockTypeOK, FlyTick, FlyDown, FlyTimed
  <2>2. FlyModest(o) /\ FlyPlace(o) /\ FlyOutlives(o)
    BY DEF FlyInv
  <2>3. /\ flyLease.left \in Nat /\ flySeen[o] \in Int /\ flyTimer[o] \in Nat
        /\ FlyMaxSkew \in Nat /\ FlyTTL \in Nat
    BY DEF FlyInv, FlyLockTypeOK
  <2>4. FlyModest(o)'
    BY <2>1, <2>2, <2>3 DEF FlyModest, FlyMine
  <2>5. FlyOutlives(o)'
    BY <2>1, <2>2, <2>3 DEF FlyOutlives, FlyMine
  <2> QED BY <2>1, <2>2, <2>4, <2>5 DEF FlyPlace
<1> QED BY <1>1, <1>2 DEF FlyInv

\* Each step keeps it.
LEMMA FlyInvStep == FlyTiming /\ FlyInv /\ [FlyLockNext]_flyLockVars => FlyInv'
<1> SUFFICES ASSUME FlyTiming, FlyInv, [FlyLockNext]_flyLockVars PROVE FlyInv'
  OBVIOUS
<1>1. CASE UNCHANGED flyLockVars
  BY <1>1 DEF flyLockVars, FlyInv, FlyLockTypeOK, FlyModest, FlyPlace, FlyOutlives, FlyMine
<1>2. ASSUME NEW o \in Op, FlyLockStep(o) PROVE FlyInv'
  BY <1>2, FlyQuietInv, FlyTakeLeaseInv, FlyCheckInv, FlyReleaseInv DEF FlyLockStep, FlyQuiet
<1> QED BY <1>1, <1>2, FlyTickInv DEF FlyLockNext

\* The model is type correct, whatever the times are chosen, as long as they fit.
THEOREM FlyTypeCorrect == ASSUME FlyTiming PROVE FlyLockSpec => []FlyLockTypeOK
<1>1. FlyInv => FlyLockTypeOK
  BY DEF FlyInv
<1> QED BY <1>1, FlyInvInit, FlyInvStep, PTL DEF FlyLockSpec

\* Every call that a check lets through ends while the lease still lives.
THEOREM FlyCallsCovered == ASSUME FlyTiming PROVE FlyLockSpec => []FlyOutlivesCalls
<1>1. FlyInv => FlyOutlivesCalls
  BY DEF FlyInv, FlyOutlives, FlyOutlivesCalls
<1> QED BY <1>1, FlyInvInit, FlyInvStep, PTL DEF FlyLockSpec

\* Two operations never have provider calls in flight at the same time: a
\* lease has one nonce.
THEOREM FlyExclusion == ASSUME FlyTiming PROVE FlyLockSpec => []FlyOneMutator
<1>1. FlyInv => FlyOneMutator
  BY DEF FlyInv, FlyOutlives, FlyMine, FlyOneMutator
<1> QED BY <1>1, FlyInvInit, FlyInvStep, PTL DEF FlyLockSpec

------------------------------------------------------------------------------
(* The lease implements the abstract lock, step by step.                   *)

\* The operation believes that it owns the lock, and does.
FlyOwns(o) == flyLock[o] = "held" /\ FlyMine(o)

FlyOwners  == {o \in Op : flyLock[o] = "held" /\ FlyMine(o)}
FlyWorking == {o \in Op : flyLock[o] = "held" /\ flyPc[o] = "mutate"}
FlyFenced  == {o \in Op : flyLock[o] # "none"
                            /\ ~(flyLock[o] = "held" /\ FlyMine(o))}

\* No lease has more left than it is given out with.
FlyShort == flyLease.left <= FlyTTL

\* A lease is short at first ...
LEMMA FlyShortInit == FlyLockInit => FlyShort
  BY FlyLockAssumption DEF FlyLockInit, FlyShort

\* ... and stays so.
LEMMA FlyShortStep == FlyInv /\ FlyShort /\ [FlyLockNext]_flyLockVars => FlyShort'
<1> USE FlyLockAssumption
<1> SUFFICES ASSUME FlyInv, FlyShort, [FlyLockNext]_flyLockVars PROVE FlyShort'
  OBVIOUS
<1>0. flyLease.left \in Nat /\ flyLease \in [nonce : Op \union {"free", "orphan"}, left : Nat]
  BY DEF FlyInv, FlyLockTypeOK
<1>1. CASE UNCHANGED flyLockVars
  BY <1>1 DEF flyLockVars, FlyShort
<1>2. CASE FlyTick
  BY <1>0, <1>2 DEF FlyTick, FlyShort, FlyDown
<1>3. ASSUME NEW o \in Op, FlyLockStep(o) PROVE FlyShort'
  <2>1. CASE FlyQuiet(o)
    BY <2>1 DEF FlyQuiet, FlyAcquire, FlyMakeSentinel, FlyGiveUp, FlyCheck, FlyEndMutation,
       FlyDie, FlyShort
  <2>2. CASE FlyTakeLease(o)
    BY <2>2 DEF FlyTakeLease, FlyShort
  <2>3. CASE FlyRefreshed(o) \/ FlyCompared(o)
    BY <1>0, <2>3 DEF FlyRefreshed, FlyCompared, FlyShort
  <2>4. CASE FlyRelease(o)
    BY <2>4 DEF FlyRelease, FlyShort
  <2> QED BY <1>3, <2>1, <2>2, <2>3, <2>4 DEF FlyLockStep, FlyQuiet
<1> QED BY <1>1, <1>2, <1>3 DEF FlyLockNext

\* A step that changes no operation's standing is a stutter.
LEMMA FlyStutters ==
    ASSUME \A p \in Op : /\ flyLock'[p] = "held" /\ FlyMine(p)' <=> FlyOwns(p)
                         /\ (flyLock'[p] # "none") <=> (flyLock[p] # "none")
                         /\ flyLock'[p] = "held" /\ flyPc'[p] = "mutate"
                              <=> flyLock[p] = "held" /\ flyPc[p] = "mutate"
    PROVE  UNCHANGED <<FlyOwners, FlyWorking, FlyFenced>>
  BY DEF FlyOwners, FlyWorking, FlyFenced, FlyOwns

\* A step after which an owner is none any more, and has no call in flight, is
\* its forfeit.
LEMMA FlyForfeits ==
    ASSUME NEW o \in Op, FlyOwns(o),
           ~(flyLock'[o] = "held" /\ FlyMine(o)'), flyLock'[o] # "none",
           ~(flyLock'[o] = "held" /\ flyPc'[o] = "mutate"),
           \A p \in Op \ {o} :
               /\ flyLock'[p] = "held" /\ FlyMine(p)' <=> FlyOwns(p)
               /\ (flyLock'[p] # "none") <=> (flyLock[p] # "none")
               /\ flyLock'[p] = "held" /\ flyPc'[p] = "mutate"
                    <=> flyLock[p] = "held" /\ flyPc[p] = "mutate"
    PROVE  FlyAuthority!Forfeit(o)
<1>1. o \in FlyOwners
  BY DEF FlyOwners, FlyOwns
<1>2. FlyOwners' = FlyOwners \ {o}
  BY DEF FlyOwners, FlyOwns
<1>3. FlyWorking' = FlyWorking \ {o}
  BY DEF FlyWorking
<1>4. FlyFenced' = FlyFenced \union {o}
  BY DEF FlyFenced, FlyOwns
<1> QED BY <1>1, <1>2, <1>3, <1>4 DEF FlyAuthority!Forfeit, FlyOwners, FlyWorking, FlyFenced

FlyView == <<FlyOwners, FlyWorking, FlyFenced>>
FlyMapped == FlyAuthority!Next \/ UNCHANGED FlyView

\* What o does leaves the standing of every other operation alone, as long as
\* the lease stays theirs or nobody's.
FlyApart(o) ==
    \A p \in Op \ {o} : /\ flyPc'[p] = flyPc[p] /\ flyLock'[p] = flyLock[p]
                        /\ FlyMine(p)' <=> FlyMine(p)

\* Who loses the lease forfeits the lock.
LEMMA FlyForfeitStep ==
    ASSUME NEW o \in Op, FlyApart(o), FlyOwns(o),
           ~(flyLock'[o] = "held" /\ FlyMine(o)'), flyLock'[o] # "none",
           ~(flyLock'[o] = "held" /\ flyPc'[o] = "mutate")
    PROVE  FlyMapped
<1>1. \A p \in Op \ {o} :
               /\ flyLock'[p] = "held" /\ FlyMine(p)' <=> FlyOwns(p)
               /\ (flyLock'[p] # "none") <=> (flyLock[p] # "none")
               /\ flyLock'[p] = "held" /\ flyPc'[p] = "mutate"
                    <=> flyLock[p] = "held" /\ flyPc[p] = "mutate"
  BY DEF FlyApart, FlyOwns
<1>2. FlyAuthority!Forfeit(o)
  BY <1>1, FlyForfeits
<1> QED BY <1>2 DEF FlyMapped, FlyAuthority!Next

\* Other steps of an operation do nothing to the lock.
LEMMA FlyStutterStep ==
    ASSUME NEW o \in Op, FlyApart(o),
           flyLock'[o] = "held" /\ FlyMine(o)' <=> FlyOwns(o),
           (flyLock'[o] # "none") <=> (flyLock[o] # "none"),
           flyLock'[o] = "held" /\ flyPc'[o] = "mutate"
             <=> flyLock[o] = "held" /\ flyPc[o] = "mutate"
    PROVE  FlyMapped
<1>1. \A p \in Op : /\ flyLock'[p] = "held" /\ FlyMine(p)' <=> FlyOwns(p)
                    /\ (flyLock'[p] # "none") <=> (flyLock[p] # "none")
                    /\ flyLock'[p] = "held" /\ flyPc'[p] = "mutate"
                         <=> flyLock[p] = "held" /\ flyPc[p] = "mutate"
  BY DEF FlyApart, FlyOwns
<1>2. UNCHANGED <<FlyOwners, FlyWorking, FlyFenced>>
  BY <1>1, FlyStutters
<1> QED BY <1>2 DEF FlyMapped, FlyView

\* The end of the calls that a check let through, and the end of the process:
\* a live owner forfeits the lock, and no other process is affected.
LEMMA FlyQuietMaps == ASSUME FlyInv, NEW o \in Op, FlyQuiet(o) PROVE FlyMapped
<1>1. UNCHANGED flyLease /\ FlyApart(o)
  BY DEF FlyInv, FlyLockTypeOK, FlyApart, FlyMine, FlyQuiet, FlyAcquire, FlyMakeSentinel,
     FlyGiveUp, FlyCheck, FlyEndMutation, FlyDie, FlyGo
<1>2. CASE FlyEndMutation(o) /\ flyLock[o] = "held"
  <2>1. o \in FlyWorking
    BY <1>2 DEF FlyWorking, FlyEndMutation
  <2>2. flyPc'[o] = "owner" /\ UNCHANGED flyLock
    BY <1>2 DEF FlyInv, FlyLockTypeOK, FlyEndMutation, FlyGo
  <2>3. FlyWorking' = FlyWorking \ {o}
    BY <1>1, <2>1, <2>2 DEF FlyWorking, FlyApart
  <2>4. UNCHANGED <<FlyOwners, FlyFenced>>
    BY <1>1, <2>2 DEF FlyOwners, FlyFenced, FlyMine
  <2>5. FlyAuthority!End(o)
    BY <2>1, <2>3, <2>4 DEF FlyAuthority!End, FlyOwners, FlyWorking, FlyFenced
  <2> QED BY <2>5 DEF FlyMapped, FlyAuthority!Next
<1>3. CASE FlyEndMutation(o) /\ flyLock[o] # "held"
  <2>1. UNCHANGED flyLock
    BY <1>3 DEF FlyEndMutation
  <2> QED BY <1>1, <1>3, <2>1, FlyStutterStep DEF FlyOwns, FlyMine
<1>4. CASE FlyDie(o)
  <2>1. /\ flyLock[o] # "none" <=> flyLock'[o] # "none"
        /\ flyLock'[o] # "held"
        /\ flyPc[o] = "mutate" => FlyMine(o)
    BY <1>4 DEF FlyInv, FlyLockTypeOK, FlyOutlives, FlyDie
  <2>2. CASE FlyOwns(o)
    BY <1>1, <2>1, <2>2, FlyForfeitStep DEF FlyOwns
  <2>3. CASE ~FlyOwns(o)
    BY <1>1, <2>1, <2>3, FlyStutterStep DEF FlyOwns
  <2> QED BY <2>2, <2>3
<1>5. CASE FlyAcquire(o) \/ FlyMakeSentinel(o) \/ FlyGiveUp(o) \/ \E w \in FlyWork : FlyCheck(o, w)
  <2>1. UNCHANGED flyLock /\ flyPc[o] # "mutate" /\ flyPc'[o] # "mutate"
    BY <1>5 DEF FlyInv, FlyLockTypeOK, FlyAcquire, FlyMakeSentinel, FlyGiveUp, FlyCheck, FlyGo
  <2> QED BY <1>1, <2>1, FlyStutterStep DEF FlyOwns, FlyMine
<1> QED BY <1>2, <1>3, <1>4, <1>5 DEF FlyQuiet

\* A lease is given out when nobody is an owner, to an operation that never was.
LEMMA FlyTakeLeaseMaps ==
    ASSUME FlyTiming, FlyInv, NEW o \in Op, FlyTakeLease(o) PROVE FlyMapped
<1> USE FlyLockAssumption
<1>1. \A p \in Op : ~FlyMine(p) /\ flyPc[p] # "mutate"
  BY DEF FlyInv, FlyOutlives, FlyTakeLease, FlyLive, FlyMine
<1>2. /\ flyLock[o] = "none" /\ flyPc'[o] # "mutate"
      /\ \A p \in Op \ {o} : flyPc'[p] = flyPc[p] /\ flyLock'[p] = flyLock[p]
  BY DEF FlyInv, FlyLockTypeOK, FlyPlace, FlyTakeLease, FlyGo
<1>3. CASE flyLease' = [nonce |-> o, left |-> FlyTTL] /\ flyLock'[o] = "held"
  <2>1. FlyTTLSuffices(o)
    BY <1>2, <1>3 DEF FlyTakeLease
  <2>2. FlyTTL > 0
    <3>1. PICK w \in FlyWork : FlyTTL + FlySkew[o] > w + FlyMargin + FlyAllowance
      BY <2>1 DEF FlyTTLSuffices, FlyRequired
    <3>2. w \in Nat /\ FlySkew[o] \in Int /\ FlySkew[o] <= FlyMaxSkew
      OBVIOUS
    <3> QED BY <3>1, <3>2 DEF FlyTiming
  <2>3. FlyMine(o)' /\ \A p \in Op \ {o} : ~FlyMine(p)'
    BY <1>3, <2>2 DEF FlyMine
  <2>4. FlyOwners = {} /\ FlyOwners' = {o}
    BY <1>1, <1>3, <2>3 DEF FlyOwners
  <2>5. UNCHANGED FlyWorking
    BY <1>1, <1>2 DEF FlyWorking
  <2>6. o \notin FlyFenced /\ UNCHANGED FlyFenced
    BY <1>1, <1>2, <1>3, <2>3 DEF FlyFenced
  <2>7. FlyAuthority!Grant(o)
    BY <2>4, <2>5, <2>6 DEF FlyAuthority!Grant, FlyOwners, FlyWorking, FlyFenced
  <2> QED BY <2>7 DEF FlyMapped, FlyAuthority!Next
<1>4. CASE flyLock'[o] = "none" /\ flyLease'.nonce \in {"free", "orphan"}
  <2>1. \A p \in Op : ~FlyMine(p)'
    BY <1>4 DEF FlyMine
  <2>2. FlyApart(o)
    BY <1>1, <1>2, <2>1 DEF FlyApart
  <2> QED BY <1>1, <1>2, <1>4, <2>1, <2>2, FlyStutterStep DEF FlyOwns
<1> QED BY <1>2, <1>3, <1>4 DEF FlyInv, FlyLockTypeOK, FlyTakeLease

\* A check that passes begins the mutation of an owner; one that fails changes
\* nothing.
LEMMA FlyCheckMaps ==
    ASSUME FlyInv, FlyShort, NEW o \in Op, FlyRefreshed(o) \/ FlyCompared(o)
    PROVE  FlyMapped
<1> USE FlyLockAssumption
<1>1. \A p \in Op \ {o} : flyPc'[p] = flyPc[p]
  BY DEF FlyInv, FlyLockTypeOK, FlyRefreshed, FlyCompared, FlyGranted, FlyRefused, FlyGo
<1>2. /\ UNCHANGED flyLock /\ flyLock[o] = "held" /\ flyPc[o] # "mutate"
      /\ flyPc'[o] = "mutate" => FlyMine(o)
  BY DEF FlyInv, FlyLockTypeOK, FlyPlace, FlyRefreshed, FlyCompared, FlyGranted, FlyRefused,
     FlyGo, FlySame
<1>3. ASSUME NEW p \in Op PROVE FlyMine(p)' <=> FlyMine(p)
  <2>1. CASE flyLease' = flyLease
    BY <2>1 DEF FlyMine
  <2>2. CASE FlyMine(o) /\ flyLease' = [flyLease EXCEPT !.left = FlyTTL]
    <3>1. FlyTTL > 0 /\ flyLease'.left = FlyTTL /\ flyLease'.nonce = flyLease.nonce
      BY <2>2 DEF FlyInv, FlyLockTypeOK, FlyMine, FlyShort
    <3> QED BY <2>2, <3>1 DEF FlyMine
  <2> QED BY <2>1, <2>2 DEF FlyRefreshed, FlyCompared
<1>4. FlyApart(o)
  BY <1>1, <1>2, <1>3 DEF FlyApart
<1>5. CASE flyPc'[o] = "mutate"
  <2>1. o \in FlyOwners \ FlyWorking
    BY <1>2, <1>5 DEF FlyOwners, FlyWorking
  <2>2. FlyWorking' = FlyWorking \union {o}
    BY <1>1, <1>2, <1>5 DEF FlyWorking
  <2>3. UNCHANGED <<FlyOwners, FlyFenced>>
    BY <1>2, <1>3 DEF FlyOwners, FlyFenced
  <2>4. FlyAuthority!Begin(o)
    BY <2>1, <2>2, <2>3 DEF FlyAuthority!Begin, FlyOwners, FlyWorking, FlyFenced
  <2> QED BY <2>4 DEF FlyMapped, FlyAuthority!Next
<1>6. CASE flyPc'[o] # "mutate"
  BY <1>2, <1>3, <1>4, <1>6, FlyStutterStep DEF FlyOwns
<1> QED BY <1>5, <1>6

\* A release forfeits the lock, whether its answer arrives or not, unless the
\* lease had lapsed before.
LEMMA FlyReleaseMaps == ASSUME FlyInv, NEW o \in Op, FlyRelease(o) PROVE FlyMapped
<1> USE FlyLockAssumption
<1>1. /\ flyPc[o] = "owner" /\ flyPc'[o] # "mutate" /\ flyLock[o] = "held"
      /\ flyLock'[o] # "none"
      /\ \A p \in Op \ {o} : flyPc'[p] = flyPc[p] /\ flyLock'[p] = flyLock[p]
  BY DEF FlyInv, FlyLockTypeOK, FlyRelease, FlyGo
<1>2. \/ flyLease' = flyLease
      \/ FlyMine(o) /\ flyLease' = [nonce |-> "free", left |-> 0]
  BY DEF FlyRelease
<1>3. FlyApart(o) /\ (FlyMine(o)' => FlyMine(o))
  BY <1>1, <1>2 DEF FlyApart, FlyMine
<1>4. CASE FlyMine(o) /\ ~(flyLock'[o] = "held" /\ FlyMine(o)')
  BY <1>1, <1>3, <1>4, FlyForfeitStep DEF FlyOwns
<1>5. CASE FlyMine(o) /\ flyLock'[o] = "held" /\ FlyMine(o)'
  BY <1>1, <1>3, <1>5, FlyStutterStep DEF FlyOwns
<1>6. CASE ~FlyMine(o)
  BY <1>1, <1>3, <1>6, FlyStutterStep DEF FlyOwns
<1> QED BY <1>4, <1>5, <1>6

\* Time ends a lease, and then the ownership of the one operation that had it:
\* it has no call in flight any more.
LEMMA FlyTickMaps == ASSUME FlyInv, FlyTick PROVE FlyMapped
<1> USE FlyLockAssumption
<1>1. /\ UNCHANGED <<flyLock, flyPc>> /\ flyLease'.nonce = flyLease.nonce
      /\ flyLease'.left = (IF flyLease.left > 0 THEN flyLease.left - 1 ELSE 0)
      /\ flyLease.left \in Nat
  BY DEF FlyInv, FlyLockTypeOK, FlyTick, FlyDown
<1>2. CASE \E o \in Op : FlyOwns(o) /\ flyLease.left = 1
  <2>1. PICK o \in Op : FlyOwns(o) /\ flyLease.left = 1
    BY <1>2
  <2>2. ~FlyMine(o)' /\ FlyApart(o)
    BY <1>1, <2>1 DEF FlyApart, FlyMine, FlyOwns
  <2>3. flyPc[o] # "mutate"
    <3>1. flyPc[o] = "mutate" => flyTimer[o] > 0
      BY DEF FlyTick, FlyTimed
    <3>2. flyPc[o] = "mutate" => flyTimer[o] < flyLease.left
      BY DEF FlyInv, FlyOutlives
    <3>3. flyTimer[o] \in Nat
      BY DEF FlyInv, FlyLockTypeOK
    <3> QED BY <2>1, <3>1, <3>2, <3>3
  <2> QED BY <1>1, <2>1, <2>2, <2>3, FlyForfeitStep DEF FlyOwns
<1>3. CASE ~\E o \in Op : FlyOwns(o) /\ flyLease.left = 1
  <2>1. ASSUME NEW p \in Op PROVE flyLock'[p] = "held" /\ FlyMine(p)' <=> FlyOwns(p)
    BY <1>1, <1>3 DEF FlyOwns, FlyMine
  <2>2. UNCHANGED FlyView
    BY <1>1, <2>1, FlyStutters DEF FlyView
  <2> QED BY <2>2 DEF FlyMapped
<1> QED BY <1>2, <1>3

\* The operation lock that leases with a fixed term provide is the abstract
\* one: what the process believes it owns, when it may mutate, and that what
\* was lost or released never comes back.
THEOREM FlyLeaseIsALock == ASSUME FlyTiming PROVE FlyLockSpec => FlyImplementsLock
<1>1. FlyLockInit => FlyAuthority!Init
  BY DEF FlyLockInit, FlyAuthority!Init
<1>2. FlyInv /\ FlyShort /\ [FlyLockNext]_flyLockVars => FlyMapped
  <2> SUFFICES ASSUME FlyInv, FlyShort, [FlyLockNext]_flyLockVars PROVE FlyMapped
    OBVIOUS
  <2>1. CASE UNCHANGED flyLockVars
    BY <2>1 DEF flyLockVars, FlyMapped, FlyView, FlyOwners, FlyWorking, FlyFenced, FlyMine
  <2>2. ASSUME NEW o \in Op, FlyLockStep(o) PROVE FlyMapped
    BY <2>2, FlyQuietMaps, FlyTakeLeaseMaps, FlyCheckMaps, FlyReleaseMaps
       DEF FlyLockStep, FlyQuiet
  <2> QED BY <2>1, <2>2, FlyTickMaps DEF FlyLockNext
<1>3. FlyMapped => [FlyAuthority!Next]_(FlyAuthority!vars)
  BY DEF FlyMapped, FlyView, FlyAuthority!vars, FlyOwners, FlyWorking, FlyFenced
<1> QED
  BY <1>1, <1>2, <1>3, FlyInvInit, FlyInvStep, FlyShortInit, FlyShortStep, PTL
     DEF FlyLockSpec, FlyImplementsLock, FlyAuthority!Spec

------------------------------------------------------------------------------
(* Hetzner.                                                                *)

HzThing == HzId \union {HzNone}
HzSight == [machine : HzThing, firewall : HzThing]

\* Only an `up` applies; it ends its preparations and its apply, and may then
\* have to remove what it made.
HzBefore == {"idle", "lock", "plan", "apply", "replace", "firewall", "server"}
HzApplying == {"apply", "replace", "firewall", "server", "attach", "ready", "upgrade", "final",
               "runtime", "failed", "cleanServer", "cleanFirewall", "undo"}
HzPcs == HzBefore \union HzApplying \union
         {"destroy", "server-", "firewall-", "confirm", "release", "over"}

HzCloudTypes ==
    /\ {hzMachine, hzFirewall, hzShield} \subseteq HzThing
    /\ hzFlock \in Op \union {HzNobody}
    /\ hzRemoved \in [HzId -> [by : Op \union {HzNobody}, forced : BOOLEAN]]
HzEntryTypes ==
    /\ hzEntry \in [Op -> HzId \union {HzNone, "reserved"}]
    /\ hzLocked \in [Op -> SUBSET HzId] /\ hzDenied \in [Op -> HzThing]
    /\ hzAlive \subseteq Op
HzViewTypes ==
    /\ hzSnapshot \in [Op -> HzSight] /\ hzPlan \in [Op -> HzSight] /\ hzHand \in [Op -> HzSight]
HzControlTypes ==
    /\ hzTask \in [Op -> HzTasks] /\ hzPc \in [Op -> HzPcs]
    /\ hzLeft \in 0..HzBudget
HzRoles ==
    \A o \in Op :
        /\ hzPc[o] \in HzApplying => hzTask[o] = "up"
        /\ o \in hzBypass => hzTask[o] # "up"
        /\ hzPc[o] \in {"idle", "over"} => o \notin hzBypass
HzTypes == HzCloudTypes /\ HzEntryTypes /\ HzViewTypes /\ HzControlTypes /\ HzRoles

\* The flock is on the server that is there, and its holder has an entry for it;
\* an operation has none before it locks.
HzFlocked ==
    /\ hzMachine = HzNone => hzShield = HzNone /\ hzFlock = HzNobody
    /\ hzShield \in {HzNone, hzFirewall}
    /\ hzFlock # HzNobody => hzFlock \in hzAlive /\ hzEntry[hzFlock] = hzMachine
    /\ \A o \in Op : hzPc[o] \in {"idle", "lock", "over"} => hzEntry[o] = HzNone

\* A server that was removed stays so: whoever made it makes no other.
HzMade ==
    /\ \A m \in HzId : hzRemoved[m].by # HzNobody => m # hzMachine
    /\ \A o \in Op : hzPc[o] \in HzBefore \/ hzTask[o] # "up" =>
        o # hzMachine /\ hzRemoved[o].by = HzNobody

\* The server whose lock an operation upgrades was not removed by it, and one whose
\* lock it was refused never will be: it has no lock any more.
HzDenial ==
    \A o \in Op :
        /\ hzPc[o] \in {"attach", "ready", "upgrade"} =>
            hzHand[o].machine # HzNone /\ hzRemoved[hzHand[o].machine].by # o
        /\ hzDenied[o] # HzNone =>
            /\ hzTask[o] = "up" /\ hzEntry[o] = HzNone
            /\ hzPc[o] \in {"undo", "destroy", "release", "over"}
            /\ hzRemoved[hzDenied[o]].by # o

\* `down --all` has locked the server of its snapshot, and removes no other.
HzProject ==
    /\ \A o \in Op : hzTask[o] = "all" /\ o \notin hzBypass =>
        /\ hzPc[o] \in {"plan", "destroy", "server-"} =>
                hzSnapshot[o].machine \in hzLocked[o] \union {HzNone}
        /\ hzPc[o] = "server-" => hzHand[o].machine = hzSnapshot[o].machine
    /\ HzProjectRemovesWhatItLocked

\* What an `up` was confirmed to have removed, it does not make again.
HzStaysUndone ==
    \A o \in Op : o \in hzUndone /\ hzTask[o] = "up" =>
        o \notin {hzMachine, hzFirewall} /\ hzPc[o] \in {"release", "over"}

HzInv == HzTypes /\ HzFlocked /\ HzMade /\ HzDenial /\ HzProject /\ HzStaysUndone

\* What the process of an operation, its ssh and its user do.
HzActs(o) == HzStep(o) \/ HzReadFails(o) \/ HzDrop(o) \/ HzCancel(o) \/ HzDie(o)


\* What the removal of a server tells.
HzTells(o, m) ==
    /\ hzMachine' \in {hzMachine, HzNone} /\ hzShield' \in {hzShield, HzNone}
    /\ hzFlock' \in {hzFlock, HzNobody}
    /\ hzRemoved' \in [HzId -> [by : Op \union {HzNobody}, forced : BOOLEAN]]
    /\ \A k \in HzId :
        \/ hzRemoved'[k] = hzRemoved[k]
        \/ /\ k = m /\ m = hzMachine /\ hzMachine' = HzNone
           /\ hzRemoved'[k].by = o /\ hzRemoved'[k].forced = (o \in hzBypass)

\* A removal tells who has removed.
LEMMA HzRemoveTells ==
    ASSUME HzCloudTypes, NEW o \in Op, NEW m \in HzThing, HzRemove(o, m)
    PROVE  HzTells(o, m)
<1> USE DEF HzCloudTypes, HzThing, HzTells
<1>1. CASE m # HzNone /\ m = hzMachine
  <2> DEFINE told == [by |-> o, forced |-> o \in hzBypass]
  <2>1. told \in [by : Op \union {HzNobody}, forced : BOOLEAN]
    OBVIOUS
  <2>2. told.by = o /\ told.forced = (o \in hzBypass)
    OBVIOUS
  <2>3. /\ hzMachine' = HzNone /\ hzShield' = HzNone /\ hzFlock' = HzNobody
        /\ hzRemoved' = [hzRemoved EXCEPT ![m] = told]
    BY <1>1 DEF HzRemove
  <2> HIDE DEF told
  <2>4. m \in HzId
    BY <1>1
  <2> QED BY <1>1, <2>1, <2>2, <2>3, <2>4
<1>2. CASE ~(m # HzNone /\ m = hzMachine)
  BY <1>2 DEF HzRemove
<1> QED BY <1>1, <1>2

\* So does each action that removes a server.
LEMMA HzRemovalTells ==
    ASSUME HzCloudTypes, HzViewTypes, NEW o \in Op, HzReplace(o) \/ HzDeleteServer(o)
    PROVE  HzTells(o, hzHand[o].machine)
<1>1. hzHand[o].machine \in HzThing
  BY DEF HzViewTypes, HzSight
<1>2. HzRemove(o, hzHand[o].machine)
  BY DEF HzReplace, HzDeleteServer
<1> QED BY <1>1, <1>2, HzRemoveTells

\* What an upgrade of the lock changes.
HzUpgraded(o) ==
    /\ hzLocked' \in [Op -> SUBSET HzId] /\ hzEntry' \in [Op -> HzId \union {HzNone, "reserved"}]
    /\ \A p \in Op : p # o => hzLocked'[p] = hzLocked[p]
    /\ hzTask[o] = "up" /\ hzPc' = [hzPc EXCEPT ![o] = "final"]

\* An upgrade is an `up`'s: it locks its server and brings it to the end.
LEMMA HzUpgradeTells ==
    ASSUME HzTypes, HzDenial, NEW o \in Op, HzUpgrade(o) PROVE HzUpgraded(o)
<1> USE DEF HzUpgraded
<1>1. hzPc[o] = "upgrade" /\ hzPc' = [hzPc EXCEPT ![o] = "final"]
  BY DEF HzUpgrade, HzAt, HzGo
<1>2. hzTask[o] = "up" /\ hzHand[o].machine \in HzId
  BY <1>1 DEF HzTypes, HzRoles, HzApplying, HzDenial, HzViewTypes, HzSight, HzThing
<1>3. CASE hzEntry[o] = "reserved"
  <2>1. /\ hzLocked' = [hzLocked EXCEPT ![o] = @ \union {hzHand[o].machine}]
        /\ hzEntry' = [hzEntry EXCEPT ![o] = hzHand[o].machine]
    BY <1>3 DEF HzUpgrade, HzTake
  <2>2. hzLocked[o] \union {hzHand[o].machine} \in SUBSET HzId
    BY <1>2 DEF HzTypes, HzEntryTypes
  <2> QED BY <1>1, <1>2, <2>1, <2>2 DEF HzTypes, HzEntryTypes
<1>4. CASE hzEntry[o] # "reserved"
  BY <1>1, <1>2, <1>4 DEF HzUpgrade, HzTypes, HzEntryTypes
<1> QED BY <1>3, <1>4

\* Only an `up` applies, and only what removes is forced past the lock.
LEMMA HzControlKept ==
    ASSUME HzControlTypes, HzRoles, NEW o \in Op, HzActs(o)
    PROVE  HzControlTypes' /\ HzRoles'
<1> USE DEF HzAnswered, HzAt, HzFailed, HzFault, HzFinds, HzGo, hzCloud, hzLock, hzRest, hzView
<1> USE HzAssumption DEF HzControlTypes, HzRoles, HzPcs, HzBefore, HzApplying
<1>1. CASE \/ HzInspect(o) \/ HzReserve(o) \/ HzAcquire(o) \/ HzBusy(o) \/ HzReplan(o)
           \/ HzApply(o) \/ HzReplace(o) \/ HzFirewall(o)
  BY <1>1 DEF HzInspect, HzReserve, HzAcquire, HzBusy, HzReplan, HzApply, HzReplace, HzFirewall
<1>2. CASE \/ HzServer(o) \/ HzAttach(o) \/ HzReady(o) \/ HzUpgrade(o) \/ HzRefused(o)
           \/ HzFinal(o) \/ HzRuntime(o) \/ HzCleanup(o)
  BY <1>2 DEF HzServer, HzAttach, HzReady, HzUpgrade, HzRefused, HzFinal, HzRuntime, HzCleanup
<1>3. CASE \/ HzUndo(o) \/ HzDestroy(o) \/ HzLost(o) \/ HzDeleteServer(o) \/ HzDeleteFirewall(o)
           \/ HzConfirm(o) \/ HzReadFails(o) \/ HzDrop(o)
  BY <1>3 DEF HzUndo, HzDestroy, HzLost, HzDeleteServer, HzDeleteFirewall, HzConfirm, HzReadFails,
              HzReads, HzDrop
<1>4. CASE HzUnreachable(o)
  BY <1>4 DEF HzUnreachable
<1>5. CASE HzRelease(o)
  BY <1>5 DEF HzRelease, HzForget
<1>6. CASE HzCancel(o)
  BY <1>6 DEF HzCancel, HzMutating
<1>7. CASE HzDie(o)
  BY <1>7 DEF HzDie, HzForget
<1> QED BY <1>1, <1>2, <1>3, <1>4, <1>5, <1>6, <1>7 DEF HzActs, HzStep

\* What is in the cloud is what somebody made, or gone.
LEMMA HzCloudKept ==
    ASSUME HzCloudTypes, HzViewTypes, NEW o \in Op, HzActs(o)
    PROVE  HzCloudTypes'
<1>1. HzReplace(o) \/ HzDeleteServer(o) => HzTells(o, hzHand[o].machine)
  BY HzRemovalTells DEF HzTypes
<1> USE DEF HzAnswered, HzAt, HzFailed, HzFault, HzFinds, HzGo, hzCloud, hzLock, hzRest, hzView
<1> USE DEF HzCloudTypes, HzThing, HzId, HzNone, HzNobody
<1>3. CASE \/ HzInspect(o) \/ HzReserve(o) \/ HzBusy(o) \/ HzUnreachable(o) \/ HzReplan(o)
           \/ HzApply(o) \/ HzReady(o) \/ HzFinal(o)
  BY <1>3 DEF HzInspect, HzReserve, HzBusy, HzUnreachable, HzReplan, HzApply, HzReady, HzFinal
<1>4. CASE \/ HzRuntime(o) \/ HzCleanup(o) \/ HzUndo(o) \/ HzDestroy(o) \/ HzConfirm(o)
           \/ HzReadFails(o) \/ HzCancel(o)
  BY <1>4 DEF HzRuntime, HzCleanup, HzUndo, HzDestroy, HzConfirm, HzReadFails, HzReads, HzCancel,
              HzMutating
<1>5. CASE HzAcquire(o)
  BY <1>5 DEF HzAcquire, HzTake
<1>6. CASE HzReplace(o)
  BY <1>6, <1>1 DEF HzTells, HzReplace
<1>7. CASE HzFirewall(o)
  BY <1>7 DEF HzFirewall
<1>8. CASE HzServer(o)
  BY <1>8 DEF HzServer
<1>9. CASE HzAttach(o)
  BY <1>9 DEF HzAttach
<1>10. CASE HzUpgrade(o)
  BY <1>10 DEF HzUpgrade, HzTake
<1>11. CASE HzRefused(o)
  BY <1>11 DEF HzRefused, HzInvalidate, HzDropEntry
<1>12. CASE HzLost(o)
  BY <1>12 DEF HzLost, HzDropEntry
<1>13. CASE HzDeleteServer(o)
  BY <1>13, <1>1 DEF HzTells, HzDeleteServer
<1>14. CASE HzDeleteFirewall(o)
  BY <1>14 DEF HzDeleteFirewall
<1>15. CASE HzRelease(o)
  BY <1>15 DEF HzRelease, HzDropEntry, HzForget
<1>16. CASE HzDrop(o)
  BY <1>16 DEF HzDrop
<1>17. CASE HzDie(o)
  BY <1>17 DEF HzDie, HzDropEntry, HzForget
<1> QED BY <1>3, <1>4, <1>5, <1>6, <1>7, <1>8, <1>9, <1>10, <1>11, <1>12, <1>13, <1>14, <1>15,
           <1>16, <1>17 DEF HzActs, HzStep

\* What an operation saw was there.
LEMMA HzViewKept ==
    ASSUME HzViewTypes, HzCloudTypes, HzCloudTypes', NEW o \in Op, HzActs(o)
    PROVE  HzViewTypes'
<1> USE DEF HzAnswered, HzAt, HzFailed, HzFault, HzFinds, HzGo, hzCloud, hzLock, hzRest, hzView
<1> USE DEF HzCloudTypes, HzViewTypes, HzSight, HzThing, HzId, HzNone, HzNobody
<1>1. CASE \/ HzReserve(o) \/ HzAcquire(o) \/ HzBusy(o) \/ HzUnreachable(o) \/ HzAttach(o)
           \/ HzReady(o) \/ HzUpgrade(o) \/ HzRefused(o)
  BY <1>1 DEF HzReserve, HzAcquire, HzBusy, HzUnreachable, HzAttach, HzReady, HzUpgrade,
              HzRefused, HzInvalidate
<1>2. CASE \/ HzFinal(o) \/ HzRuntime(o) \/ HzUndo(o) \/ HzLost(o) \/ HzDeleteServer(o)
           \/ HzDeleteFirewall(o) \/ HzConfirm(o) \/ HzReadFails(o)
  BY <1>2 DEF HzFinal, HzRuntime, HzUndo, HzAbsent, HzLost, HzDeleteServer, HzDeleteFirewall,
              HzConfirm, HzSeen, HzReadFails, HzReads
<1>3. CASE \/ HzDrop(o) \/ HzCancel(o)
  BY <1>3 DEF HzDrop, HzCancel, HzMutating
<1>4. CASE HzInspect(o)
  BY <1>4 DEF HzInspect, HzSeen, HzAbsent
<1>5. CASE HzReplan(o)
  BY <1>5 DEF HzReplan, HzSeen
<1>6. CASE HzApply(o)
  BY <1>6 DEF HzApply, HzSeen
<1>7. CASE HzReplace(o)
  BY <1>7 DEF HzReplace
<1>8. CASE HzFirewall(o)
  BY <1>8 DEF HzFirewall
<1>9. CASE HzServer(o)
  BY <1>9 DEF HzServer
<1>10. CASE HzCleanup(o)
  BY <1>10 DEF HzCleanup, HzSeen
<1>11. CASE HzDestroy(o)
  BY <1>11 DEF HzDestroy, HzSeen
<1>12. CASE HzRelease(o)
  BY <1>12 DEF HzRelease, HzForget, HzAbsent
<1>13. CASE HzDie(o)
  BY <1>13 DEF HzDie, HzForget, HzAbsent
<1> QED BY <1>1, <1>2, <1>3, <1>4, <1>5, <1>6, <1>7, <1>8, <1>9, <1>10, <1>11, <1>12,
           <1>13 DEF HzActs, HzStep

\* An entry names a server.
LEMMA HzEntryKept ==
    ASSUME HzTypes, HzDenial, NEW o \in Op, HzActs(o)
    PROVE  HzEntryTypes'
<1>2. HzUpgrade(o) => HzUpgraded(o)
  BY HzUpgradeTells
<1> USE DEF HzAnswered, HzAt, HzFailed, HzFault, HzFinds, HzGo, hzCloud, hzLock, hzRest, hzView
<1> USE DEF HzCloudTypes, HzEntryTypes, HzViewTypes, HzSight, HzThing, HzId, HzNone, HzNobody,
            HzTypes, HzControlTypes, HzPcs
<1>3. CASE \/ HzInspect(o) \/ HzBusy(o) \/ HzUnreachable(o) \/ HzReplan(o) \/ HzApply(o)
           \/ HzReplace(o) \/ HzFirewall(o) \/ HzServer(o)
  BY <1>3 DEF HzInspect, HzBusy, HzUnreachable, HzReplan, HzApply, HzReplace, HzFirewall, HzServer
<1>4. CASE \/ HzAttach(o) \/ HzReady(o) \/ HzFinal(o) \/ HzRuntime(o) \/ HzCleanup(o) \/ HzUndo(o)
           \/ HzDestroy(o) \/ HzDeleteServer(o)
  BY <1>4 DEF HzAttach, HzReady, HzFinal, HzRuntime, HzCleanup, HzUndo, HzDestroy, HzDeleteServer
<1>5. CASE \/ HzDeleteFirewall(o) \/ HzConfirm(o) \/ HzReadFails(o) \/ HzCancel(o)
  BY <1>5 DEF HzDeleteFirewall, HzConfirm, HzReadFails, HzReads, HzCancel, HzMutating
<1>6. CASE HzReserve(o)
  BY <1>6 DEF HzReserve
<1>7. CASE HzAcquire(o)
  BY <1>7 DEF HzAcquire, HzTake
<1>8. CASE HzUpgrade(o)
  BY <1>8, <1>2 DEF HzUpgraded, HzUpgrade, HzTake
<1>9. CASE HzRefused(o)
  BY <1>9 DEF HzRefused, HzInvalidate, HzDropEntry
<1>10. CASE HzLost(o)
  BY <1>10 DEF HzLost, HzDropEntry
<1>11. CASE HzRelease(o)
  BY <1>11 DEF HzRelease, HzDropEntry, HzForget
<1>12. CASE HzDrop(o)
  BY <1>12 DEF HzDrop
<1>13. CASE HzDie(o)
  BY <1>13 DEF HzDie, HzDropEntry, HzForget
<1> QED BY <1>3, <1>4, <1>5, <1>6, <1>7, <1>8, <1>9, <1>10, <1>11, <1>12, <1>13 DEF HzActs, HzStep

\* Whoever takes the flock takes that of the server that is there; the entry and
\* the ssh of its holder end with it.
LEMMA HzFlockedKept ==
    ASSUME HzTypes, HzFlocked, HzDenial, NEW o \in Op, HzActs(o)
    PROVE  HzFlocked'
<1> USE DEF HzAnswered, HzAt, HzFailed, HzFault, HzFinds, HzGo, hzCloud, hzLock, hzRest, hzView
<1> USE HzAssumption DEF HzTypes, HzControlTypes, HzPcs, HzBefore, HzApplying, HzCloudTypes,
                         HzEntryTypes, HzViewTypes, HzSight, HzThing, HzId, HzNone, HzNobody,
                         HzFlocked, HzDenial
<1>1. CASE \/ HzInspect(o) \/ HzBusy(o) \/ HzUnreachable(o) \/ HzReplan(o) \/ HzApply(o)
           \/ HzReady(o) \/ HzFinal(o) \/ HzRuntime(o)
  BY <1>1 DEF HzInspect, HzSeen, HzAbsent, HzBusy, HzUnreachable, HzReplan, HzApply, HzReady,
              HzFinal, HzRuntime
<1>2. CASE \/ HzCleanup(o) \/ HzUndo(o) \/ HzDestroy(o) \/ HzConfirm(o) \/ HzReadFails(o)
           \/ HzCancel(o)
  BY <1>2 DEF HzCleanup, HzSeen, HzUndo, HzAbsent, HzDestroy, HzConfirm, HzReadFails, HzReads,
              HzCancel, HzMutating
<1>3. CASE HzReserve(o)
  BY <1>3 DEF HzReserve
<1>4. CASE HzAcquire(o)
  BY <1>4 DEF HzAcquire, HzTake
<1>5. CASE HzReplace(o)
  BY <1>5 DEF HzReplace, HzRemove
<1>6. CASE HzFirewall(o)
  BY <1>6 DEF HzFirewall
<1>7. CASE HzServer(o)
  BY <1>7 DEF HzServer
<1>8. CASE HzAttach(o)
  BY <1>8 DEF HzAttach
<1>9. CASE HzUpgrade(o)
  BY <1>9 DEF HzUpgrade, HzTake
<1>10. CASE HzRefused(o)
  BY <1>10 DEF HzRefused, HzInvalidate, HzDropEntry
<1>11. CASE HzLost(o)
  BY <1>11 DEF HzLost, HzDropEntry
<1>12. CASE HzDeleteServer(o)
  BY <1>12 DEF HzDeleteServer, HzRemove
<1>13. CASE HzDeleteFirewall(o)
  BY <1>13 DEF HzDeleteFirewall
<1>14. CASE HzRelease(o)
  BY <1>14 DEF HzRelease, HzDropEntry, HzForget, HzAbsent
<1>15. CASE HzDrop(o)
  BY <1>15 DEF HzDrop
<1>16. CASE HzDie(o)
  BY <1>16 DEF HzDie, HzDropEntry, HzForget, HzAbsent
<1> QED BY <1>1, <1>2, <1>3, <1>4, <1>5, <1>6, <1>7, <1>8, <1>9, <1>10, <1>11, <1>12, <1>13,
           <1>14, <1>15, <1>16 DEF HzActs, HzStep

\* A server is removed only while it is there, and its maker makes no second.
LEMMA HzMadeKept ==
    ASSUME HzTypes, HzMade, NEW o \in Op, HzActs(o)
    PROVE  HzMade'
<1> USE DEF HzAnswered, HzAt, HzFailed, HzFault, HzFinds, HzGo, hzCloud, hzLock, hzRest, hzView
<1> USE HzAssumption DEF HzTypes, HzControlTypes, HzRoles, HzPcs, HzBefore, HzApplying,
                         HzCloudTypes, HzThing, HzId, HzNone, HzNobody, HzMade
<1>1. CASE \/ HzInspect(o) \/ HzReserve(o) \/ HzAcquire(o) \/ HzBusy(o) \/ HzUnreachable(o)
           \/ HzReplan(o) \/ HzApply(o) \/ HzFirewall(o)
  BY <1>1 DEF HzInspect, HzAbsent, HzReserve, HzAcquire, HzTake, HzBusy, HzUnreachable, HzReplan,
              HzApply, HzFirewall
<1>2. CASE \/ HzAttach(o) \/ HzReady(o) \/ HzUpgrade(o) \/ HzRefused(o) \/ HzFinal(o)
           \/ HzRuntime(o) \/ HzCleanup(o) \/ HzUndo(o)
  BY <1>2 DEF HzAttach, HzReady, HzUpgrade, HzTake, HzRefused, HzInvalidate, HzDropEntry, HzFinal,
              HzRuntime, HzCleanup, HzUndo, HzAbsent
<1>3. CASE \/ HzDestroy(o) \/ HzLost(o) \/ HzDeleteFirewall(o) \/ HzConfirm(o) \/ HzRelease(o)
           \/ HzReadFails(o) \/ HzDrop(o) \/ HzCancel(o)
  BY <1>3 DEF HzDestroy, HzLost, HzDropEntry, HzDeleteFirewall, HzConfirm, HzAbsent, HzRelease,
              HzForget, HzReadFails, HzReads, HzDrop, HzCancel, HzMutating
<1>4. CASE HzReplace(o)
  BY <1>4 DEF HzReplace, HzRemove
<1>5. CASE HzServer(o)
  BY <1>5 DEF HzServer
<1>6. CASE HzDeleteServer(o)
  BY <1>6 DEF HzDeleteServer, HzRemove
<1>7. CASE HzDie(o)
  BY <1>7 DEF HzDie, HzDropEntry, HzForget, HzAbsent
<1> QED BY <1>1, <1>2, <1>3, <1>4, <1>5, <1>6, <1>7 DEF HzActs, HzStep

\* The server that an operation waits for is one it has found after its last
\* removal; with the refusal its entry is gone, so nothing that it does removes.
LEMMA HzDenialKept ==
    ASSUME HzTypes, HzMade, HzDenial, NEW o \in Op, HzActs(o)
    PROVE  HzDenial'
<1>1. HzReplace(o) \/ HzDeleteServer(o) => HzTells(o, hzHand[o].machine)
  BY HzRemovalTells DEF HzTypes
<1> USE DEF HzAnswered, HzAt, HzFailed, HzFault, HzFinds, HzGo, hzCloud, hzLock, hzRest, hzView
<1> USE HzAssumption DEF HzTypes, HzControlTypes, HzRoles, HzPcs, HzBefore, HzApplying,
                         HzCloudTypes, HzEntryTypes, HzViewTypes, HzSight, HzThing, HzId, HzNone,
                         HzNobody, HzMade, HzDenial
<1>3. CASE \/ HzInspect(o) \/ HzBusy(o) \/ HzUnreachable(o) \/ HzReplan(o) \/ HzAttach(o)
           \/ HzReady(o) \/ HzFinal(o) \/ HzRuntime(o)
  BY <1>3 DEF HzInspect, HzAbsent, HzBusy, HzUnreachable, HzReplan, HzAttach, HzReady, HzFinal,
              HzRuntime
<1>4. CASE \/ HzUndo(o) \/ HzDeleteFirewall(o) \/ HzConfirm(o) \/ HzReadFails(o) \/ HzDrop(o)
           \/ HzCancel(o)
  BY <1>4 DEF HzUndo, HzAbsent, HzDeleteFirewall, HzConfirm, HzReadFails, HzReads, HzDrop,
              HzCancel, HzMutating
<1>5. CASE HzReserve(o)
  BY <1>5 DEF HzReserve
<1>6. CASE HzAcquire(o)
  BY <1>6 DEF HzAcquire, HzTake
<1>7. CASE HzApply(o)
  BY <1>7 DEF HzApply, HzHolds
<1>8. CASE HzReplace(o)
  BY <1>8, <1>1 DEF HzTells, HzReplace
<1>9. CASE HzFirewall(o)
  BY <1>9 DEF HzFirewall
<1>10. CASE HzServer(o)
  BY <1>10 DEF HzServer
<1>11. CASE HzUpgrade(o)
  BY <1>11 DEF HzUpgrade, HzTake
<1>12. CASE HzRefused(o)
  BY <1>12 DEF HzRefused, HzInvalidate, HzDropEntry
<1>13. CASE HzCleanup(o)
  BY <1>13 DEF HzCleanup
<1>14. CASE HzDestroy(o)
  BY <1>14 DEF HzDestroy, HzHolds
<1>15. CASE HzLost(o)
  BY <1>15 DEF HzLost, HzHolds, HzDropEntry
<1>16. CASE HzDeleteServer(o)
  BY <1>16, <1>1, SMTT(30) DEF HzTells, HzDeleteServer
<1>17. CASE HzRelease(o)
  BY <1>17 DEF HzRelease, HzDropEntry, HzForget, HzAbsent
<1>18. CASE HzDie(o)
  BY <1>18 DEF HzDie, HzDropEntry, HzForget, HzAbsent
<1> QED BY <1>3, <1>4, <1>5, <1>6, <1>7, <1>8, <1>9, <1>10, <1>11, <1>12, <1>13, <1>14, <1>15,
           <1>16, <1>17, <1>18 DEF HzActs, HzStep

\* What a `down --all` removes is what its snapshot showed when it locked.
LEMMA HzProjectKept ==
    ASSUME HzTypes, HzMade, HzDenial, HzProject, NEW o \in Op, HzActs(o)
    PROVE  HzProject'
<1>1. HzReplace(o) \/ HzDeleteServer(o) => HzTells(o, hzHand[o].machine)
  BY HzRemovalTells DEF HzTypes
<1>2. HzUpgrade(o) => HzUpgraded(o)
  BY HzUpgradeTells
<1> USE DEF HzAnswered, HzAt, HzFailed, HzFault, HzFinds, HzGo, hzCloud, hzLock, hzRest, hzView
<1> USE HzAssumption DEF HzTypes, HzControlTypes, HzRoles, HzPcs, HzBefore, HzApplying,
                         HzCloudTypes, HzEntryTypes, HzViewTypes, HzSight, HzThing, HzId, HzNone,
                         HzNobody, HzMade, HzProject, HzProjectRemovesWhatItLocked
<1>3. CASE \/ HzReserve(o) \/ HzBusy(o) \/ HzReplan(o) \/ HzAttach(o) \/ HzReady(o)
           \/ HzRefused(o) \/ HzFinal(o) \/ HzRuntime(o)
  BY <1>3 DEF HzReserve, HzBusy, HzReplan, HzSeen, HzAttach, HzReady, HzRefused, HzInvalidate,
              HzDropEntry, HzFinal, HzRuntime
<1>4. CASE \/ HzUndo(o) \/ HzLost(o) \/ HzDeleteFirewall(o) \/ HzConfirm(o) \/ HzReadFails(o)
           \/ HzDrop(o) \/ HzCancel(o)
  BY <1>4 DEF HzUndo, HzAbsent, HzLost, HzDropEntry, HzDeleteFirewall, HzConfirm, HzSeen,
              HzReadFails, HzReads, HzDrop, HzCancel, HzMutating
<1>5. CASE HzInspect(o)
  BY <1>5 DEF HzInspect, HzSeen, HzAbsent
<1>6. CASE HzAcquire(o)
  BY <1>6 DEF HzAcquire, HzTake
<1>7. CASE HzUnreachable(o)
  BY <1>7 DEF HzUnreachable
<1>8. CASE HzApply(o)
  BY <1>8 DEF HzApply, HzSeen
<1>9. CASE HzReplace(o)
  <2>1. /\ hzTask[o] = "up" /\ UNCHANGED <<hzTask, hzBypass, hzSnapshot, hzLocked>>
        /\ \A p \in Op : p # o => hzPc'[p] = hzPc[p] /\ hzHand'[p] = hzHand[p]
    BY <1>9 DEF HzReplace
  <2>2. ASSUME NEW m \in HzId
        PROVE  hzRemoved'[m] = hzRemoved[m] \/ hzRemoved'[m].by = o
    BY <1>9, <1>1 DEF HzTells
  <2>3. HzProjectRemovesWhatItLocked'
    BY <2>1, <2>2
  <2> QED BY <2>1, <2>3
<1>10. CASE HzFirewall(o)
  BY <1>10 DEF HzFirewall
<1>11. CASE HzServer(o)
  BY <1>11 DEF HzServer
<1>12. CASE HzUpgrade(o)
  <2>1. /\ hzTask[o] = "up" /\ UNCHANGED <<hzTask, hzBypass, hzSnapshot>>
        /\ \A p \in Op : p # o => /\ hzPc'[p] = hzPc[p] /\ hzHand'[p] = hzHand[p]
                                 /\ hzLocked'[p] = hzLocked[p]
    BY <1>12, <1>2 DEF HzUpgraded, HzUpgrade
  <2>2. HzProjectRemovesWhatItLocked'
    BY <1>12, <1>2, <2>1, SMTT(30) DEF HzUpgraded, HzUpgrade
  <2> QED BY <2>1, <2>2
<1>13. CASE HzCleanup(o)
  BY <1>13 DEF HzCleanup, HzSeen
<1>14. CASE HzDestroy(o)
  BY <1>14 DEF HzDestroy, HzVerified, HzSeen
<1>15. CASE HzDeleteServer(o)
  BY <1>15, <1>1 DEF HzTells, HzDeleteServer
<1>16. CASE HzRelease(o)
  BY <1>16 DEF HzRelease, HzDropEntry, HzForget, HzAbsent
<1>17. CASE HzDie(o)
  BY <1>17 DEF HzDie, HzDropEntry, HzForget, HzAbsent
<1> QED BY <1>3, <1>4, <1>5, <1>6, <1>7, <1>8, <1>9, <1>10, <1>11, <1>12, <1>13, <1>14, <1>15,
           <1>16, <1>17 DEF HzActs, HzStep

\* After the confirmation the operation only releases.
LEMMA HzUndoneKept ==
    ASSUME HzTypes, HzStaysUndone, NEW o \in Op, HzActs(o)
    PROVE  HzStaysUndone'
<1> USE DEF HzAnswered, HzAt, HzFailed, HzFault, HzFinds, HzGo, hzCloud, hzLock, hzRest, hzView
<1> USE HzAssumption DEF HzTypes, HzControlTypes, HzRoles, HzPcs, HzBefore, HzApplying,
                         HzCloudTypes, HzThing, HzId, HzNone, HzNobody, HzStaysUndone
<1>1. CASE \/ HzInspect(o) \/ HzReserve(o) \/ HzAcquire(o) \/ HzBusy(o) \/ HzUnreachable(o)
           \/ HzReplan(o) \/ HzApply(o) \/ HzAttach(o)
  BY <1>1 DEF HzInspect, HzSeen, HzAbsent, HzReserve, HzAcquire, HzTake, HzBusy, HzUnreachable,
              HzReplan, HzApply, HzAttach
<1>2. CASE \/ HzReady(o) \/ HzUpgrade(o) \/ HzRefused(o) \/ HzFinal(o) \/ HzRuntime(o)
           \/ HzCleanup(o) \/ HzUndo(o) \/ HzDestroy(o)
  BY <1>2 DEF HzReady, HzUpgrade, HzTake, HzRefused, HzInvalidate, HzDropEntry, HzFinal,
              HzRuntime, HzCleanup, HzSeen, HzUndo, HzAbsent, HzDestroy
<1>3. CASE \/ HzLost(o) \/ HzRelease(o) \/ HzReadFails(o) \/ HzDrop(o) \/ HzCancel(o) \/ HzDie(o)
  BY <1>3 DEF HzLost, HzDropEntry, HzRelease, HzForget, HzAbsent, HzReadFails, HzReads, HzDrop,
              HzCancel, HzMutating, HzDie
<1>4. CASE HzReplace(o)
  BY <1>4 DEF HzReplace, HzRemove
<1>5. CASE HzFirewall(o)
  BY <1>5 DEF HzFirewall
<1>6. CASE HzServer(o)
  BY <1>6 DEF HzServer
<1>7. CASE HzDeleteServer(o)
  BY <1>7 DEF HzDeleteServer, HzRemove
<1>8. CASE HzDeleteFirewall(o)
  BY <1>8 DEF HzDeleteFirewall
<1>9. CASE HzConfirm(o)
  BY <1>9 DEF HzConfirm, HzSeen, HzAbsent
<1> QED BY <1>1, <1>2, <1>3, <1>4, <1>5, <1>6, <1>7, <1>8, <1>9 DEF HzActs, HzStep

\* The invariant holds at first.
LEMMA HzInitially == HzInit => HzInv
<1> USE HzAssumption DEF HzInit, HzInv, HzId, HzNone, HzNobody, HzUnremoved, HzAbsent
<1> SUFFICES ASSUME HzInit PROVE HzInv
  OBVIOUS
<1>1. HzCloudTypes /\ HzEntryTypes /\ HzViewTypes /\ HzControlTypes /\ HzRoles
  BY DEF HzCloudTypes, HzEntryTypes, HzViewTypes, HzControlTypes, HzRoles, HzThing, HzSight, HzPcs,
         HzBefore, HzApplying
<1>2. HzFlocked /\ HzMade /\ HzDenial
  BY DEF HzFlocked, HzMade, HzDenial
<1>3. HzProject /\ HzStaysUndone
  BY DEF HzProject, HzProjectRemovesWhatItLocked, HzStaysUndone
<1> QED BY <1>1, <1>2, <1>3 DEF HzTypes

\* Each step keeps it.
LEMMA HzStepKeeps == HzInv /\ [HzNext]_hzVars => HzInv'
<1> SUFFICES ASSUME HzInv, [HzNext]_hzVars PROVE HzInv'
  OBVIOUS
<1>1. ASSUME NEW o \in Op, HzActs(o) PROVE HzInv'
  <2>1. HzTypes /\ HzFlocked /\ HzMade /\ HzDenial /\ HzProject /\ HzStaysUndone
    BY DEF HzInv
  <2>2. HzCloudTypes /\ HzEntryTypes /\ HzViewTypes /\ HzControlTypes /\ HzRoles
    BY <2>1 DEF HzTypes
  <2>3. HzControlTypes' /\ HzRoles' /\ HzCloudTypes'
    BY <1>1, <2>2, HzControlKept, HzCloudKept
  <2>4. HzViewTypes' /\ HzEntryTypes'
    BY <1>1, <2>1, <2>2, <2>3, HzViewKept, HzEntryKept
  <2>5. HzFlocked' /\ HzMade' /\ HzDenial'
    BY <1>1, <2>1, HzFlockedKept, HzMadeKept, HzDenialKept
  <2>6. HzProject' /\ HzStaysUndone'
    BY <1>1, <2>1, HzProjectKept, HzUndoneKept
  <2> QED BY <2>3, <2>4, <2>5, <2>6 DEF HzInv, HzTypes
<1>2. CASE UNCHANGED hzVars
  BY <1>2 DEF HzInv, HzTypes, HzCloudTypes, HzEntryTypes, HzViewTypes, HzControlTypes, HzRoles,
              HzFlocked, HzMade, HzDenial, HzProject, HzProjectRemovesWhatItLocked, HzStaysUndone,
              hzVars, hzCloud, hzLock, hzView, hzRest
<1> QED BY <1>1, <1>2 DEF HzNext, HzActs

\* Every variable has its type, and an flock is held by whom `locks` says holds it, on
\* a server that is there (acquire_remote_flock, lock_release).
THEOREM HzTypeCorrect == HzSpec => []HzTypeOK
<1>1. HzInv => HzTypeOK
  BY DEF HzInv, HzTypes, HzCloudTypes, HzEntryTypes, HzControlTypes, HzThing, HzFlocked, HzTypeOK
<1> QED BY <1>1, HzInitially, HzStepKeeps, PTL DEF HzSpec

\* No operation removes a server that it was refused the lock of, and `down --all`
\* none that it has not locked first, whoever else removes and creates meanwhile
\* (remote_lock_upgrade_failure, verify_project_snapshot).
THEOREM HzSparesWhatIsNotItsOwn == HzSpec => []HzTouchesItsOwn
<1>1. HzInv => HzTouchesItsOwn
  <2> SUFFICES ASSUME HzInv PROVE HzTouchesItsOwn
    OBVIOUS
  <2>1. HzRefusedPreserves
    BY DEF HzInv, HzDenial, HzRefusedPreserves
  <2>2. HzProjectRemovesWhatItLocked
    BY DEF HzInv, HzProject
  <2> QED BY <2>1, <2>2 DEF HzTouchesItsOwn
<1> QED BY <1>1, HzInitially, HzStepKeeps, PTL DEF HzSpec

\* An `up` whose compensation was confirmed has left neither server nor firewall
\* (apply, destroy).
THEOREM HzUndoesItself == HzSpec => []HzCompensationIsExact
<1>1. HzInv => HzCompensationIsExact
  BY DEF HzInv, HzStaysUndone, HzCompensationIsExact
<1> QED BY <1>1, HzInitially, HzStepKeeps, PTL DEF HzSpec

USE SshAssumption DEF SshAssumption

------------------------------------------------------------------------------
(* The invariant.                                                          *)

SshShells == {"none", "waiting", "made", "holding", "ended"}
SshPcs == {"idle", "retry", "asked", "owner", "working", "lost", "askedAgain", "mismatch", "over"}

SshTyped ==
    /\ sshDirectory \in BOOLEAN
    /\ sshShell \in [SshSession -> SshShells]
    /\ sshOpen \subseteq SshSession
    /\ sshTried \in [Op -> 0..SshAttempts]
    /\ sshEntry \in [Op -> 0..SshAttempts]
    /\ sshToken \in [Op -> 0..SshAttempts]
    /\ sshPc \in [Op -> SshPcs]

\* The shell of a session is between making the directory and removing it.
SshInside(s) == sshShell[s] \in {"made", "holding"}

\* The directory is there exactly while one shell is inside.
SshHeld ==
    /\ sshDirectory <=> \E s \in SshSession : SshInside(s)
    /\ \A s, t \in SshSession : SshInside(s) /\ SshInside(t) => s = t

\* A session is opened once, and the next one is not open yet.
SshUnspawned ==
    \A s \in SshSession : sshTried[s[1]] < s[2] => sshShell[s] = "none" /\ s \notin sshOpen

SshEntryOf(o) == <<o, sshEntry[o]>>

\* What an operation believes: an entry whose connection is up holds the
\* directory, a token is got once, and an owner has the entry of its token.
SshBelieves(o) ==
    /\ sshEntry[o] <= sshTried[o]
    /\ SshAlive(o) => sshShell[SshEntryOf(o)] = "holding"
    /\ sshPc[o] \in {"idle", "retry", "asked"} => sshToken[o] = 0
    /\ sshPc[o] \in {"owner", "working"} => sshToken[o] # 0 /\ sshEntry[o] = sshToken[o]

SshInv == SshTyped /\ SshHeld /\ SshUnspawned /\ \A o \in Op : SshBelieves(o)

------------------------------------------------------------------------------
(* Sessions.                                                               *)

\* A session is an operation and an attempt.
LEMMA SshSessions ==
    /\ \A s \in SshSession : s[1] \in Op /\ s[2] \in 1..SshAttempts /\ s = <<s[1], s[2]>>
    /\ \A o \in Op, n \in 1..SshAttempts :
        /\ <<o, n>> \in SshSession /\ <<o, n>>[1] = o /\ <<o, n>>[2] = n
BY DEF SshSession

\* The next session of an operation is new.
LEMMA SshNextSession ==
    ASSUME SshTyped, NEW o \in Op, sshTried[o] < SshAttempts
    PROVE  /\ sshTried[o] + 1 \in 1..SshAttempts
           /\ <<o, sshTried[o] + 1>> \in SshSession
BY DEF SshTyped, SshSession

------------------------------------------------------------------------------
(* The invariant is kept by what happens on the host.                      *)

\* mkdir succeeds for one shell at a time.
LEMMA SshMakeKeeps == ASSUME SshInv, NEW s \in SshSession, SshMake(s) PROVE SshInv'
<1> USE DEF SshInv
<1>1. /\ UNCHANGED <<sshOpen, sshTried, sshEntry, sshToken, sshPc>> /\ sshDirectory' = TRUE
      /\ ~sshDirectory /\ sshShell[s] = "waiting" /\ sshShell'[s] = "made"
      /\ \A t \in SshSession \ {s} : sshShell'[t] = sshShell[t]
  BY DEF SshMake, SshShellAt, SshTyped
<1>2. SshTyped'
  BY DEF SshMake, SshShellAt, SshTyped, SshShells
<1>3. SshHeld'
  BY <1>1 DEF SshHeld, SshInside
<1>4. SshUnspawned'
  BY <1>1 DEF SshUnspawned
<1>5. ASSUME NEW o \in Op PROVE SshBelieves(o)'
  <2>1. SshAlive(o) => SshEntryOf(o) \in SshSession /\ SshEntryOf(o) # s
    BY <1>1 DEF SshTyped, SshBelieves, SshAlive, SshEntryOf
  <2> QED BY <1>1, <2>1 DEF SshBelieves, SshAlive, SshEntryOf
<1> QED BY <1>2, <1>3, <1>4, <1>5

\* A shell that gave up waiting never held anything.
LEMMA SshBusyKeeps == ASSUME SshInv, NEW s \in SshSession, SshBusy(s) PROVE SshInv'
<1> USE DEF SshInv
<1>1. /\ UNCHANGED <<sshDirectory, sshTried, sshEntry, sshToken>> /\ sshOpen' = sshOpen \ {s}
      /\ sshShell[s] = "waiting" /\ sshShell'[s] = "ended"
      /\ \A t \in SshSession \ {s} : sshShell'[t] = sshShell[t]
      /\ \A o \in Op :
            \/ sshPc'[o] = sshPc[o]
            \/ sshPc[o] = "asked" /\ sshPc'[o] = "over"
            \/ sshPc[o] = "askedAgain" /\ sshPc'[o] = "lost"
  BY DEF SshBusy, SshShellAt, SshTyped
<1>2. SshTyped'
  <2>1. sshPc' \in [Op -> SshPcs]
    BY DEF SshBusy, SshTyped, SshPcs
  <2> QED BY <2>1 DEF SshBusy, SshShellAt, SshTyped, SshShells
<1>3. SshHeld'
  BY <1>1 DEF SshHeld, SshInside
<1>4. SshUnspawned'
  BY <1>1 DEF SshUnspawned
<1>5. ASSUME NEW o \in Op PROVE SshBelieves(o)'
  <2>1. SshAlive(o)' => SshAlive(o) /\ SshEntryOf(o) \in SshSession /\ SshEntryOf(o) # s
    BY <1>1 DEF SshTyped, SshAlive, SshEntryOf
  <2> QED BY <1>1, <2>1 DEF SshBelieves, SshAlive, SshEntryOf
<1> QED BY <1>2, <1>3, <1>4, <1>5

\* Who hears that the directory is made holds it.
LEMMA SshAnnounceKeeps == ASSUME SshInv, NEW s \in SshSession, SshAnnounce(s) PROVE SshInv'
<1> USE DEF SshInv
<1>a. s[1] \in Op /\ s[2] \in 1..SshAttempts /\ s = <<s[1], s[2]>>
  BY SshSessions
<1> DEFINE o == s[1]
<1>1. /\ UNCHANGED <<sshDirectory, sshOpen, sshTried>>
      /\ s \in sshOpen /\ sshShell[s] = "made" /\ sshShell'[s] = "holding"
      /\ \A t \in SshSession \ {s} : sshShell'[t] = sshShell[t]
      /\ sshEntry'[o] = s[2]
      /\ \/ sshPc[o] = "asked" /\ sshToken'[o] = s[2] /\ sshPc'[o] = "owner"
         \/ sshPc[o] = "asked" /\ sshToken'[o] = sshToken[o] /\ sshPc'[o] = "retry"
         \/ sshToken'[o] = sshToken[o] /\ sshPc'[o] = "mismatch"
      /\ \A p \in Op \ {o} :
            sshEntry'[p] = sshEntry[p] /\ sshToken'[p] = sshToken[p] /\ sshPc'[p] = sshPc[p]
  BY <1>a DEF SshAnnounce, SshShellAt, SshGo, SshTyped
<1>2. SshTyped'
  BY <1>a DEF SshAnnounce, SshShellAt, SshGo, SshTyped, SshShells, SshPcs
<1>3. SshHeld'
  BY <1>1 DEF SshHeld, SshInside
<1>4. SshUnspawned'
  BY <1>1 DEF SshUnspawned
<1>5. ASSUME NEW p \in Op PROVE SshBelieves(p)'
  <2>1. CASE p = o
    <3>1. s[2] <= sshTried[o]
      BY <1>a, <1>1 DEF SshUnspawned, SshTyped
    <3>2. SshEntryOf(o)' = s
      BY <1>a, <1>1 DEF SshEntryOf
    <3>3. sshPc'[o] \in {"idle", "retry", "asked"} => sshToken'[o] = 0
      BY <1>a, <1>1 DEF SshBelieves
    <3>4. sshPc'[o] \in {"owner", "working"} => sshToken'[o] # 0 /\ sshEntry'[o] = sshToken'[o]
      BY <1>a, <1>1
    <3> QED BY <1>a, <1>1, <2>1, <3>1, <3>2, <3>3, <3>4 DEF SshBelieves
  <2>2. CASE p # o
    <3>1. SshAlive(p) => SshEntryOf(p) \in SshSession /\ SshEntryOf(p) # s
      BY <1>1 DEF SshTyped, SshBelieves, SshAlive, SshEntryOf
    <3> QED BY <1>1, <2>2, <3>1 DEF SshBelieves, SshAlive, SshEntryOf
  <2> QED BY <2>1, <2>2
<1> QED BY <1>2, <1>3, <1>4, <1>5

\* Only a shell whose connection is gone removes the directory: its own.
LEMMA SshLeaveKeeps == ASSUME SshInv, NEW s \in SshSession, SshLeave(s) PROVE SshInv'
<1> USE DEF SshInv
<1>1. /\ UNCHANGED <<sshOpen, sshTried, sshEntry, sshToken, sshPc>> /\ sshDirectory' = FALSE
      /\ s \notin sshOpen /\ SshInside(s) /\ sshShell'[s] = "ended"
      /\ \A t \in SshSession \ {s} : sshShell'[t] = sshShell[t]
  BY DEF SshLeave, SshShellAt, SshTyped, SshInside
<1>2. SshTyped'
  BY DEF SshLeave, SshShellAt, SshTyped, SshShells
<1>3. SshHeld'
  BY <1>1 DEF SshHeld, SshInside
<1>4. SshUnspawned'
  BY <1>1 DEF SshUnspawned, SshInside
<1>5. ASSUME NEW o \in Op PROVE SshBelieves(o)'
  <2>1. SshAlive(o) => SshEntryOf(o) \in SshSession /\ SshEntryOf(o) # s
    BY <1>1 DEF SshTyped, SshAlive, SshEntryOf
  <2> QED BY <1>1, <2>1 DEF SshBelieves, SshAlive, SshEntryOf
<1> QED BY <1>2, <1>3, <1>4, <1>5

------------------------------------------------------------------------------
(* And by what the operations do.                                          *)

\* Connections that close and entries that are dropped leave the host as it is.
LEMMA SshClosing ==
    ASSUME SshInv, SshTyped', UNCHANGED <<sshDirectory, sshShell, sshTried>>, sshOpen' \subseteq sshOpen,
           \A o \in Op : sshEntry'[o] \in {sshEntry[o], 0},
           \A o \in Op : sshPc'[o] \in {"idle", "retry", "asked"} => sshToken'[o] = 0,
           \A o \in Op : sshPc'[o] \in {"owner", "working"} =>
                sshToken'[o] # 0 /\ sshEntry'[o] = sshToken'[o]
    PROVE  SshInv'
<1>1. SshHeld' /\ SshUnspawned'
  BY DEF SshInv, SshHeld, SshInside, SshUnspawned
<1>2. ASSUME NEW o \in Op PROVE SshBelieves(o)'
  <2>1. /\ sshEntry[o] \in Nat /\ sshTried[o] \in Nat /\ sshEntry[o] <= sshTried[o]
        /\ SshAlive(o) => sshShell[SshEntryOf(o)] = "holding"
    BY DEF SshInv, SshTyped, SshBelieves
  <2>2. sshEntry'[o] <= sshTried'[o]
    BY <2>1
  <2>3. SshAlive(o)' => SshAlive(o) /\ SshEntryOf(o)' = SshEntryOf(o)
    BY DEF SshAlive, SshEntryOf
  <2> QED BY <2>1, <2>2, <2>3 DEF SshBelieves
<1> QED BY <1>1, <1>2 DEF SshInv

\* A session that is started waits like any other.
LEMMA SshSpawning ==
    ASSUME SshInv, NEW o \in Op, SshSpawn(o), UNCHANGED <<sshDirectory, sshEntry, sshToken>>,
           NEW where \in {"asked", "askedAgain"}, SshGo(o, where),
           where = "asked" => sshToken[o] = 0
    PROVE  SshInv'
<1> USE DEF SshInv
<1> DEFINE s == <<o, sshTried[o] + 1>>
<1>a. s \in SshSession /\ s[1] = o /\ s[2] = sshTried[o] + 1 /\ sshTried[o] + 1 \in 1..SshAttempts
  BY SshNextSession DEF SshSpawn
<1>b. sshShell[s] = "none" /\ s \notin sshOpen
  BY <1>a DEF SshUnspawned, SshTyped
<1>1. /\ sshShell'[s] = "waiting" /\ sshOpen' = sshOpen \union {s}
      /\ \A t \in SshSession \ {s} : sshShell'[t] = sshShell[t]
      /\ sshTried'[o] = sshTried[o] + 1
      /\ \A p \in Op \ {o} : sshTried'[p] = sshTried[p] /\ sshPc'[p] = sshPc[p]
      /\ sshPc'[o] = where
  BY <1>a DEF SshSpawn, SshGo, SshTyped
<1>2. SshTyped'
  BY <1>a DEF SshSpawn, SshGo, SshTyped, SshShells, SshPcs
<1>3. SshHeld'
  BY <1>a, <1>b, <1>1 DEF SshHeld, SshInside
<1>4. SshUnspawned'
  <2>1. \A t \in SshSession : sshTried'[t[1]] < t[2] => sshTried[t[1]] < t[2] /\ t # s
    <3> SUFFICES ASSUME NEW t \in SshSession, sshTried'[t[1]] < t[2]
                 PROVE  sshTried[t[1]] < t[2] /\ t # s
      OBVIOUS
    <3>1. t[1] \in Op /\ t[2] \in 1..SshAttempts
      BY SshSessions
    <3>2. sshTried[t[1]] \in Nat /\ sshTried[o] \in Nat
      BY <3>1 DEF SshTyped
    <3>3. CASE t[1] = o
      BY <1>a, <1>1, <3>1, <3>2, <3>3
    <3>4. CASE t[1] # o
      BY <1>a, <1>1, <3>1, <3>2, <3>4
    <3> QED BY <3>3, <3>4
  <2> QED BY <1>1, <2>1 DEF SshUnspawned
<1>5. ASSUME NEW p \in Op PROVE SshBelieves(p)'
  <2>1. sshEntry[p] \in Nat /\ sshTried[p] \in Nat /\ sshEntry[p] <= sshTried[p]
    BY DEF SshTyped, SshBelieves
  <2>2. SshEntryOf(p) # s
    <3>1. CASE p = o
      BY <2>1, <3>1 DEF SshEntryOf
    <3>2. CASE p # o
      BY <3>2 DEF SshEntryOf
    <3> QED BY <3>1, <3>2
  <2>3. SshAlive(p)' => SshAlive(p) /\ SshEntryOf(p) \in SshSession /\ SshEntryOf(p)' = SshEntryOf(p)
    BY <1>1, <2>2 DEF SshTyped, SshAlive, SshEntryOf
  <2>4. SshAlive(p)' => sshShell'[SshEntryOf(p)'] = "holding"
    BY <1>1, <2>2, <2>3 DEF SshBelieves
  <2>5. sshEntry'[p] <= sshTried'[p]
    BY <1>1, <2>1
  <2>6. /\ sshPc'[p] \in {"idle", "retry", "asked"} => sshToken'[p] = 0
        /\ sshPc'[p] \in {"owner", "working"} => sshToken'[p] # 0 /\ sshEntry'[p] = sshToken'[p]
    BY <1>1 DEF SshBelieves
  <2> QED BY <2>4, <2>5, <2>6 DEF SshBelieves
<1> QED BY <1>2, <1>3, <1>4, <1>5

\* A check that finds its session, one that finds it gone, and one that asks.
LEMMA SshAcquireKeeps == ASSUME SshInv, NEW o \in Op, SshAcquire(o) PROVE SshInv'
<1>a. sshToken[o] = 0
  BY DEF SshAcquire, SshInv, SshBelieves
<1>b. \A p \in Op : /\ sshPc[p] \in {"idle", "retry", "asked"} => sshToken[p] = 0
                    /\ sshPc[p] \in {"owner", "working"} => sshToken[p] # 0 /\ sshEntry[p] = sshToken[p]
  BY DEF SshInv, SshBelieves
<1>1. CASE /\ SshAlive(o) /\ sshToken' = [sshToken EXCEPT ![o] = sshEntry[o]] /\ SshGo(o, "owner")
           /\ UNCHANGED <<sshDirectory, sshShell, sshOpen, sshTried, sshEntry>>
  <2>1. SshTyped'
    BY <1>1 DEF SshGo, SshInv, SshTyped, SshPcs
  <2>2. /\ sshToken'[o] = sshEntry[o] /\ sshEntry[o] # 0 /\ sshPc'[o] = "owner"
        /\ \A p \in Op \ {o} : sshToken'[p] = sshToken[p] /\ sshPc'[p] = sshPc[p]
    BY <1>1 DEF SshGo, SshAlive, SshInv, SshTyped
  <2> QED BY <1>1, <1>b, <2>1, <2>2, SshClosing
<1>2. CASE /\ sshPc[o] \in {"idle", "retry"} /\ sshEntry' = [sshEntry EXCEPT ![o] = 0]
           /\ UNCHANGED <<sshDirectory, sshShell, sshOpen, sshTried, sshToken, sshPc>>
  <2>1. SshTyped'
    BY <1>2 DEF SshInv, SshTyped
  <2>2. \A p \in Op : sshEntry'[p] = IF p = o THEN 0 ELSE sshEntry[p]
    BY <1>2 DEF SshInv, SshTyped
  <2> QED BY <1>2, <1>b, <2>1, <2>2, SshClosing
<1>3. CASE SshSpawn(o) /\ SshGo(o, "asked") /\ UNCHANGED <<sshDirectory, sshEntry, sshToken>>
  BY <1>3, <1>a, SshSpawning
<1>4. CASE SshGo(o, "over")
           /\ UNCHANGED <<sshDirectory, sshShell, sshOpen, sshTried, sshEntry, sshToken>>
  <2>1. SshTyped'
    BY <1>4 DEF SshGo, SshInv, SshTyped, SshPcs
  <2>2. sshPc'[o] = "over" /\ \A p \in Op \ {o} : sshPc'[p] = sshPc[p]
    BY <1>4 DEF SshGo, SshInv, SshTyped
  <2> QED BY <1>4, <1>b, <2>1, <2>2, SshClosing
<1> QED BY <1>1, <1>2, <1>3, <1>4 DEF SshAcquire

\* Timeouts, checks, releases, losses and deaths only close sessions.
LEMMA SshOperationKeeps ==
    ASSUME SshInv, NEW o \in Op,
           SshAskTimeout(o) \/ SshBegin(o) \/ SshEnd(o) \/ SshRelease(o) \/ SshDie(o)
    PROVE  SshInv'
<1>1. SshTyped' /\ UNCHANGED <<sshDirectory, sshShell, sshTried, sshToken>> /\ sshOpen' \subseteq sshOpen
  <2> USE DEF SshInv, SshTyped, SshGo, SshPcs
  <2>1. CASE SshAskTimeout(o)
    BY <2>1 DEF SshAskTimeout
  <2>2. CASE SshBegin(o) \/ SshEnd(o)
    BY <2>2 DEF SshBegin, SshEnd
  <2>3. CASE SshRelease(o)
    BY <2>3 DEF SshRelease
  <2>4. CASE SshDie(o)
    BY <2>4 DEF SshDie
  <2> QED BY <2>1, <2>2, <2>3, <2>4
<1>2. \A p \in Op \ {o} : sshEntry'[p] = sshEntry[p] /\ sshPc'[p] = sshPc[p]
  BY DEF SshAskTimeout, SshBegin, SshEnd, SshRelease, SshDie, SshGo, SshInv, SshTyped
<1>3. /\ sshEntry'[o] \in {sshEntry[o], 0}
      /\ sshPc'[o] \in {"idle", "retry", "asked"} => sshPc[o] = "asked"
      /\ sshPc'[o] \in {"owner", "working"} =>
            sshPc[o] \in {"owner", "working"} /\ sshEntry'[o] = sshEntry[o]
  <2> USE DEF SshInv, SshTyped, SshGo
  <2>1. CASE SshAskTimeout(o)
    BY <2>1 DEF SshAskTimeout
  <2>2. CASE SshBegin(o) \/ SshEnd(o)
    BY <2>2 DEF SshBegin, SshEnd
  <2>3. CASE SshRelease(o) \/ SshDie(o)
    BY <2>3 DEF SshRelease, SshDie
  <2> QED BY <2>1, <2>2, <2>3
<1>4. \A p \in Op : /\ sshPc[p] \in {"idle", "retry", "asked"} => sshToken[p] = 0
                    /\ sshPc[p] \in {"owner", "working"} => sshToken[p] # 0 /\ sshEntry[p] = sshToken[p]
  BY DEF SshInv, SshBelieves
<1> QED BY <1>1, <1>2, <1>3, <1>4, SshClosing

\* A connection that is lost is closed.
LEMMA SshDropKeeps == ASSUME SshInv, NEW s \in SshSession, SshDrop(s) PROVE SshInv'
<1>1. SshTyped'
  BY DEF SshDrop, SshInv, SshTyped, SshPcs
<1>2. \A p \in Op :
        \/ sshPc'[p] = sshPc[p]
        \/ sshPc[p] = "asked" /\ sshPc'[p] = "retry"
        \/ sshPc'[p] = "lost"
  BY DEF SshDrop
<1>3. \A p \in Op : /\ sshPc[p] \in {"idle", "retry", "asked"} => sshToken[p] = 0
                    /\ sshPc[p] \in {"owner", "working"} => sshToken[p] # 0 /\ sshEntry[p] = sshToken[p]
  BY DEF SshInv, SshBelieves
<1> QED BY <1>1, <1>2, <1>3, SshClosing DEF SshDrop

\* So does asking again after a loss.
LEMMA SshAskAgainKeeps == ASSUME SshInv, NEW o \in Op, SshAskAgain(o) PROVE SshInv'
BY SshSpawning DEF SshAskAgain

\* Nobody has asked for the directory yet.
LEMMA SshInitially == SshInit => SshInv
<1> SUFFICES ASSUME SshInit PROVE SshInv
  OBVIOUS
<1>a. 0 \in 0..SshAttempts /\ SshAttempts \in Nat
  OBVIOUS
<1>1. SshTyped
  BY <1>a DEF SshInit, SshTyped, SshShells, SshPcs
<1>2. SshHeld /\ SshUnspawned
  BY DEF SshInit, SshHeld, SshInside, SshUnspawned
<1>3. \A o \in Op : SshBelieves(o)
  <2> SUFFICES ASSUME NEW o \in Op PROVE SshBelieves(o)
    OBVIOUS
  <2>1. sshEntry[o] = 0 /\ sshTried[o] = 0 /\ sshToken[o] = 0 /\ sshPc[o] = "idle"
    BY DEF SshInit
  <2> QED BY <2>1 DEF SshBelieves, SshAlive
<1> QED BY <1>1, <1>2, <1>3 DEF SshInv

\* Every step keeps the invariant.
LEMMA SshInductive == SshInv /\ [SshNext]_sshVars => SshInv'
<1> SUFFICES ASSUME SshInv, [SshNext]_sshVars PROVE SshInv'
  OBVIOUS
<1>1. ASSUME NEW s \in SshSession, SshShellStep(s) \/ SshDrop(s) PROVE SshInv'
  BY <1>1, SshMakeKeeps, SshBusyKeeps, SshAnnounceKeeps, SshLeaveKeeps,
     SshDropKeeps DEF SshShellStep
<1>2. ASSUME NEW o \in Op,
             \/ SshAcquire(o) \/ SshAskTimeout(o) \/ SshBegin(o) \/ SshEnd(o)
             \/ SshAskAgain(o) \/ SshRelease(o) \/ SshDie(o)
      PROVE SshInv'
  BY <1>2, SshAcquireKeeps, SshOperationKeeps, SshAskAgainKeeps
<1>3. CASE UNCHANGED sshVars
  BY <1>3 DEF sshVars, SshInv, SshTyped, SshHeld, SshInside, SshUnspawned, SshBelieves, SshAlive,
     SshEntryOf
<1> QED BY <1>1, <1>2, <1>3 DEF SshNext

\* The invariant holds in every state.
LEMMA SshInvariant == SshSpec => []SshInv
BY SshInitially, SshInductive, PTL DEF SshSpec

------------------------------------------------------------------------------
(* The refinement: what a step means to the abstract lock.                 *)

SshWorking(o) == SshOwner(o) /\ sshPc[o] = "working"
SshFenced(o) == sshToken[o] # 0 /\ ~SshOwner(o)

\* Nothing changes for an operation.
SshSame(o) ==
    /\ SshOwner(o)' <=> SshOwner(o)
    /\ SshWorking(o)' <=> SshWorking(o)
    /\ SshFenced(o)' <=> SshFenced(o)

\* It is granted the lock, begins and ends a step, or forfeits the lock.
SshGranted(o) ==
    /\ ~SshFenced(o) /\ (\A p \in Op : ~SshOwner(p))
    /\ SshOwner(o)' /\ ~SshWorking(o)' /\ ~SshFenced(o)'
SshBegins(o) ==
    SshOwner(o) /\ ~SshWorking(o) /\ SshOwner(o)' /\ SshWorking(o)' /\ ~SshFenced(o) /\ ~SshFenced(o)'
SshEnds(o) ==
    SshOwner(o) /\ SshWorking(o) /\ SshOwner(o)' /\ ~SshWorking(o)' /\ ~SshFenced(o) /\ ~SshFenced(o)'
SshForfeits(o) == SshOwner(o) /\ ~SshOwner(o)' /\ ~SshWorking(o)' /\ SshFenced(o)'
SshMeans(o) == SshSame(o) \/ SshGranted(o) \/ SshBegins(o) \/ SshEnds(o) \/ SshForfeits(o)

\* A step that means something to one operation at most is a step of the
\* abstract lock.
LEMMA SshMeaning ==
    ASSUME NEW o \in Op, SshMeans(o), \A p \in Op \ {o} : SshSame(p)
    PROVE  [SshAuthority!Next]_SshAuthority!vars
<1> DEFINE owners == {p \in Op : SshOwner(p)}
           working == {p \in Op : SshOwner(p) /\ sshPc[p] = "working"}
           fenced == {p \in Op : sshToken[p] # 0 /\ ~SshOwner(p)}
<1>1. /\ \A p \in Op : (p \in owners <=> SshOwner(p)) /\ (p \in owners' <=> SshOwner(p)')
      /\ \A p \in Op : (p \in working <=> SshWorking(p)) /\ (p \in working' <=> SshWorking(p)')
      /\ \A p \in Op : (p \in fenced <=> SshFenced(p)) /\ (p \in fenced' <=> SshFenced(p)')
      /\ owners \subseteq Op /\ working \subseteq Op /\ fenced \subseteq Op
      /\ owners' \subseteq Op /\ working' \subseteq Op /\ fenced' \subseteq Op
  BY DEF SshWorking, SshFenced
<1> HIDE DEF owners, working, fenced
<1>2. CASE SshSame(o)
  <2>1. owners' = owners /\ working' = working /\ fenced' = fenced
    BY <1>1, <1>2 DEF SshSame
  <2> QED BY <2>1 DEF SshAuthority!vars, owners, working, fenced
<1>3. CASE SshGranted(o)
  <2>1. owners = {} /\ o \notin fenced /\ owners' = {o} /\ working' = working /\ fenced' = fenced
    BY <1>1, <1>3 DEF SshSame, SshGranted, SshWorking
  <2>2. SshAuthority!Grant(o)
    BY <2>1 DEF SshAuthority!Grant, owners, working, fenced
  <2> QED BY <2>2 DEF SshAuthority!Next
<1>4. CASE SshBegins(o)
  <2>1. o \in owners \ working /\ working' = working \union {o} /\ owners' = owners /\ fenced' = fenced
    BY <1>1, <1>4 DEF SshSame, SshBegins
  <2>2. SshAuthority!Begin(o)
    BY <2>1 DEF SshAuthority!Begin, owners, working, fenced
  <2> QED BY <2>2 DEF SshAuthority!Next
<1>5. CASE SshEnds(o)
  <2>1. o \in working /\ working' = working \ {o} /\ owners' = owners /\ fenced' = fenced
    BY <1>1, <1>5 DEF SshSame, SshEnds
  <2>2. SshAuthority!End(o)
    BY <2>1 DEF SshAuthority!End, owners, working, fenced
  <2> QED BY <2>2 DEF SshAuthority!Next
<1>6. CASE SshForfeits(o)
  <2>1. /\ o \in owners /\ owners' = owners \ {o} /\ working' = working \ {o}
        /\ fenced' = fenced \union {o}
    BY <1>1, <1>6 DEF SshSame, SshForfeits
  <2>2. SshAuthority!Forfeit(o)
    BY <2>1 DEF SshAuthority!Forfeit, owners, working, fenced
  <2> QED BY <2>2 DEF SshAuthority!Next
<1> QED BY <1>2, <1>3, <1>4, <1>5, <1>6 DEF SshMeans

\* An owner's session is open and holds the directory; two owners are one.
LEMMA SshOwnerHolds ==
    ASSUME SshInv, NEW o \in Op, SshAlive(o)
    PROVE  /\ SshEntryOf(o) \in SshSession /\ SshEntryOf(o) \in sshOpen /\ sshShell[SshEntryOf(o)] = "holding"
           /\ \A s \in SshSession : SshInside(s) => s = SshEntryOf(o)
           /\ \A p \in Op : SshOwner(p) => p = o
<1>1. /\ SshEntryOf(o) \in SshSession /\ SshEntryOf(o) \in sshOpen /\ sshShell[SshEntryOf(o)] = "holding"
  BY DEF SshInv, SshTyped, SshBelieves, SshAlive, SshEntryOf
<1>2. \A s \in SshSession : SshInside(s) => s = SshEntryOf(o)
  BY <1>1 DEF SshInv, SshHeld, SshInside
<1>3. ASSUME NEW p \in Op, SshOwner(p) PROVE p = o
  <2>1. SshAlive(p)
    BY <1>3 DEF SshOwner, SshAlive
  <2>2. SshEntryOf(p) \in SshSession /\ SshInside(SshEntryOf(p))
    BY <2>1 DEF SshInv, SshTyped, SshBelieves, SshAlive, SshEntryOf, SshInside
  <2>3. SshEntryOf(p) = SshEntryOf(o)
    BY <1>2, <2>2
  <2> QED BY <2>3 DEF SshEntryOf
<1> QED BY <1>1, <1>2, <1>3

\* What an operation believes and the connection of its entry stay.
LEMMA SshUnmoved ==
    ASSUME NEW p \in Op, sshToken'[p] = sshToken[p],
           SshOwner(p) \/ SshOwner(p)' =>
              /\ sshEntry'[p] = sshEntry[p]
              /\ sshPc'[p] = sshPc[p]
              /\ <<p, sshToken[p]>> \in sshOpen' <=> <<p, sshToken[p]>> \in sshOpen
    PROVE  SshSame(p)
BY DEF SshSame, SshWorking, SshFenced, SshOwner

\* A shell that makes the directory, waits in vain or leaves means nothing.
LEMMA SshShellMeans ==
    ASSUME SshInv, NEW s \in SshSession, SshMake(s) \/ SshBusy(s) \/ SshLeave(s)
    PROVE  \A p \in Op : SshSame(p)
<1> SUFFICES ASSUME NEW p \in Op PROVE SshSame(p)
  OBVIOUS
<1>1. CASE SshMake(s) \/ SshLeave(s)
  BY <1>1, SshUnmoved DEF SshMake, SshLeave
<1>2. CASE SshBusy(s)
  <2>1. /\ UNCHANGED <<sshEntry, sshToken>> /\ sshOpen' = sshOpen \ {s} /\ sshShell[s] = "waiting"
        /\ sshPc'[p] = sshPc[p] \/ (sshPc[p] \in {"asked", "askedAgain"} /\ sshPc'[p] \in {"over", "lost"})
    BY <1>2 DEF SshBusy, SshShellAt
  <2>2. SshOwner(p) => <<p, sshToken[p]>> # s
    <3>1. SshOwner(p) => SshAlive(p) /\ SshEntryOf(p) = <<p, sshToken[p]>>
      BY DEF SshOwner, SshAlive, SshEntryOf
    <3> QED BY <2>1, <3>1, SshOwnerHolds
  <2>3. SshOwner(p)' => SshOwner(p)
    BY <2>1 DEF SshOwner
  <2> QED BY <2>1, <2>2, <2>3, SshUnmoved DEF SshOwner
<1> QED BY <1>1, <1>2

\* Who is told that it holds the directory, first, is granted the lock.
LEMMA SshAnnounceMeans ==
    ASSUME SshInv, NEW s \in SshSession, SshAnnounce(s)
    PROVE  /\ s[1] \in Op /\ SshMeans(s[1])
           /\ \A p \in Op \ {s[1]} : SshSame(p)
<1>a. s[1] \in Op /\ s[2] \in 1..SshAttempts /\ s = <<s[1], s[2]>>
  BY SshSessions
<1> DEFINE o == s[1]
<1>1. /\ s \in sshOpen /\ sshShell[s] = "made" /\ sshOpen' = sshOpen
      /\ sshEntry'[o] = s[2]
      /\ \/ sshPc[o] = "asked" /\ sshToken'[o] = s[2] /\ sshPc'[o] = "owner"
         \/ sshPc[o] = "asked" /\ sshToken'[o] = sshToken[o] /\ sshPc'[o] = "retry"
         \/ sshPc[o] = "askedAgain" /\ sshToken'[o] = sshToken[o] /\ sshPc'[o] = "mismatch"
      /\ \A p \in Op \ {o} :
            sshEntry'[p] = sshEntry[p] /\ sshToken'[p] = sshToken[p] /\ sshPc'[p] = sshPc[p]
  BY <1>a DEF SshAnnounce, SshShellAt, SshGo, SshInv, SshTyped
<1>2. \A p \in Op \ {o} : SshSame(p)
  BY <1>1, SshUnmoved
<1>3. CASE sshPc[o] = "asked" /\ sshToken'[o] = s[2] /\ sshPc'[o] = "owner"
  <2>1. \A p \in Op : ~SshOwner(p)
    <3> SUFFICES ASSUME NEW p \in Op, SshOwner(p) PROVE FALSE
      OBVIOUS
    <3>1. SshAlive(p)
      BY DEF SshOwner, SshAlive
    <3>2. SshInside(s)
      BY <1>1 DEF SshInside
    <3> QED BY <1>1, <3>1, <3>2, SshOwnerHolds
  <2>2. sshToken[o] = 0
    BY <1>a, <1>3 DEF SshInv, SshBelieves
  <2>3. SshOwner(o)'
    BY <1>a, <1>1, <1>3 DEF SshOwner
  <2>4. ~SshWorking(o)' /\ ~SshFenced(o)' /\ ~SshFenced(o)
    BY <1>3, <2>2, <2>3 DEF SshWorking, SshFenced
  <2> QED BY <1>a, <1>2, <2>1, <2>3, <2>4 DEF SshGranted, SshMeans
<1>4. CASE sshToken'[o] = sshToken[o] /\ sshPc[o] \in {"asked", "askedAgain"}
           /\ sshPc'[o] \in {"retry", "mismatch"}
  <2>1. ~SshOwner(o) /\ ~SshOwner(o)'
    BY <1>4 DEF SshOwner
  <2> QED BY <1>a, <1>2, <1>4, <2>1, SshUnmoved DEF SshMeans
<1> QED BY <1>1, <1>3, <1>4

\* A connection that is lost takes the lock from the owner it belongs to.
LEMMA SshDropMeans ==
    ASSUME SshInv, NEW s \in SshSession, SshDrop(s)
    PROVE  /\ s[1] \in Op /\ SshMeans(s[1])
           /\ \A p \in Op \ {s[1]} : SshSame(p)
<1>a. s[1] \in Op /\ s = <<s[1], s[2]>>
  BY SshSessions
<1>1. /\ sshEntry' = sshEntry /\ sshToken' = sshToken /\ sshOpen' = sshOpen \ {s}
      /\ \A p \in Op :
            \/ sshPc'[p] = sshPc[p]
            \/ sshPc[p] \in {"asked", "askedAgain"} /\ sshPc'[p] \in {"retry", "lost"}
  BY DEF SshDrop
<1>2. \A p \in Op : SshOwner(p)' => SshOwner(p)
  BY <1>1 DEF SshOwner
<1>3. ASSUME NEW p \in Op, SshOwner(p) => <<p, sshToken[p]>> # s PROVE SshSame(p)
  BY <1>1, <1>2, <1>3, SshUnmoved DEF SshOwner
<1>4. \A p \in Op \ {s[1]} : SshSame(p)
  <2> SUFFICES ASSUME NEW p \in Op \ {s[1]} PROVE SshSame(p)
    OBVIOUS
  <2>1. <<p, sshToken[p]>> # s
    BY <1>a
  <2> QED BY <1>3, <2>1
<1>5. SshMeans(s[1])
  <2>1. CASE SshOwner(s[1]) /\ <<s[1], sshToken[s[1]]>> = s
    <3>1. ~SshOwner(s[1])' /\ sshToken'[s[1]] # 0
      BY <1>1, <2>1 DEF SshOwner
    <3> QED BY <2>1, <3>1 DEF SshForfeits, SshWorking, SshFenced, SshMeans
  <2>2. CASE ~(SshOwner(s[1]) /\ <<s[1], sshToken[s[1]]>> = s)
    BY <1>a, <1>3, <2>2 DEF SshMeans
  <2> QED BY <2>1, <2>2
<1> QED BY <1>a, <1>4, <1>5

\* A session that is started is nobody's yet.
LEMMA SshSpawnMeans ==
    ASSUME SshInv, NEW o \in Op, SshSpawn(o), UNCHANGED <<sshEntry, sshToken>>,
           sshPc[o] \notin {"owner", "working"}, sshPc'[o] \notin {"owner", "working"},
           \A p \in Op \ {o} : sshPc'[p] = sshPc[p]
    PROVE  \A p \in Op : SshSame(p)
<1> SUFFICES ASSUME NEW p \in Op PROVE SshSame(p)
  OBVIOUS
<1>1. CASE p = o
  BY <1>1, SshUnmoved DEF SshOwner
<1>2. CASE p # o
  <2>1. <<p, sshToken[p]>> \in sshOpen' <=> <<p, sshToken[p]>> \in sshOpen
    BY <1>2 DEF SshSpawn
  <2> QED BY <1>2, <2>1, SshUnmoved
<1> QED BY <1>1, <1>2

\* Only a check that finds the session of the operation grants it the lock.
LEMMA SshAcquireMeans ==
    ASSUME SshInv, NEW o \in Op, SshAcquire(o)
    PROVE  SshMeans(o) /\ \A p \in Op \ {o} : SshSame(p)
<1>a. sshToken[o] = 0 /\ ~SshOwner(o) /\ sshPc[o] \notin {"owner", "working"}
  BY DEF SshAcquire, SshOwner, SshInv, SshBelieves
<1>1. CASE /\ SshAlive(o) /\ sshToken' = [sshToken EXCEPT ![o] = sshEntry[o]] /\ SshGo(o, "owner")
           /\ UNCHANGED <<sshDirectory, sshShell, sshOpen, sshTried, sshEntry>>
  <2>1. /\ sshToken'[o] = sshEntry[o] /\ sshEntry[o] # 0 /\ sshPc'[o] = "owner"
        /\ \A p \in Op \ {o} : sshToken'[p] = sshToken[p] /\ sshPc'[p] = sshPc[p]
    BY <1>1 DEF SshGo, SshAlive, SshInv, SshTyped
  <2>2. \A p \in Op : ~SshOwner(p)
    BY <1>a, <1>1, SshOwnerHolds
  <2>3. SshOwner(o)' /\ ~SshWorking(o)'
    BY <1>1, <2>1 DEF SshOwner, SshAlive, SshWorking
  <2>4. \A p \in Op \ {o} : SshSame(p)
    BY <1>1, <2>1, SshUnmoved
  <2> QED BY <1>a, <2>2, <2>3, <2>4 DEF SshGranted, SshMeans, SshFenced
<1>2. CASE /\ sshEntry' = [sshEntry EXCEPT ![o] = 0]
           /\ UNCHANGED <<sshDirectory, sshShell, sshOpen, sshTried, sshToken, sshPc>>
  <2>1. \A p \in Op \ {o} : sshEntry'[p] = sshEntry[p]
    BY <1>2 DEF SshInv, SshTyped
  <2>2. ~SshOwner(o)'
    BY <1>a, <1>2 DEF SshOwner
  <2> QED BY <1>a, <1>2, <2>1, <2>2, SshUnmoved DEF SshMeans
<1>3. CASE SshSpawn(o) /\ SshGo(o, "asked") /\ UNCHANGED <<sshDirectory, sshEntry, sshToken>>
  <2>1. sshPc'[o] = "asked" /\ \A p \in Op \ {o} : sshPc'[p] = sshPc[p]
    BY <1>3 DEF SshGo, SshInv, SshTyped
  <2> QED BY <1>a, <1>3, <2>1, SshSpawnMeans DEF SshMeans
<1>4. CASE SshGo(o, "over")
           /\ UNCHANGED <<sshDirectory, sshShell, sshOpen, sshTried, sshEntry, sshToken>>
  <2>1. sshPc'[o] = "over" /\ \A p \in Op \ {o} : sshPc'[p] = sshPc[p]
    BY <1>4 DEF SshGo, SshInv, SshTyped
  <2>2. ~SshOwner(o)'
    BY <2>1 DEF SshOwner
  <2> QED BY <1>a, <1>4, <2>1, <2>2, SshUnmoved DEF SshMeans
<1> QED BY <1>1, <1>2, <1>3, <1>4 DEF SshAcquire

\* A check after the loss does not.
LEMMA SshAskAgainMeans ==
    ASSUME SshInv, NEW o \in Op, SshAskAgain(o)
    PROVE  \A p \in Op : SshSame(p)
<1>1. sshPc[o] = "lost" /\ sshPc'[o] = "askedAgain" /\ \A p \in Op \ {o} : sshPc'[p] = sshPc[p]
  BY DEF SshAskAgain, SshGo, SshInv, SshTyped
<1> QED BY <1>1, SshSpawnMeans DEF SshAskAgain

\* A step begins only under an unbroken session; a release and a death forfeit
\* the lock of an owner.
LEMMA SshOperationMeans ==
    ASSUME SshInv, NEW o \in Op,
           SshAskTimeout(o) \/ SshBegin(o) \/ SshEnd(o) \/ SshRelease(o) \/ SshDie(o)
    PROVE  SshMeans(o) /\ \A p \in Op \ {o} : SshSame(p)
<1>1. /\ sshToken' = sshToken
      /\ \A p \in Op \ {o} : sshEntry'[p] = sshEntry[p] /\ sshPc'[p] = sshPc[p]
  BY DEF SshAskTimeout, SshBegin, SshEnd, SshRelease, SshDie, SshGo, SshInv, SshTyped
<1>2. ASSUME NEW p \in Op \ {o} PROVE <<p, sshToken[p]>> \in sshOpen' <=> <<p, sshToken[p]>> \in sshOpen
  <2>1. CASE SshAskTimeout(o)
    BY <2>1 DEF SshAskTimeout, SshCurrent
  <2>2. CASE SshBegin(o) \/ SshEnd(o)
    BY <2>2 DEF SshBegin, SshEnd
  <2>3. CASE SshRelease(o)
    BY <2>3 DEF SshRelease
  <2>4. CASE SshDie(o)
    BY <2>4 DEF SshDie
  <2> QED BY <2>1, <2>2, <2>3, <2>4
<1>3. \A p \in Op \ {o} : SshSame(p)
  BY <1>1, <1>2, SshUnmoved
<1>4. sshPc[o] \in {"owner", "working"} => sshToken[o] # 0 /\ sshEntry[o] = sshToken[o]
  BY DEF SshInv, SshBelieves
<1>5. CASE SshAskTimeout(o)
  <2>1. sshPc[o] \notin {"owner", "working"} /\ sshPc'[o] \notin {"owner", "working"}
    BY <1>5 DEF SshAskTimeout, SshGo, SshInv, SshTyped
  <2> QED BY <1>1, <1>3, <2>1, SshUnmoved DEF SshMeans, SshOwner
<1>6. CASE SshBegin(o)
  <2>1. CASE SshAlive(o)
    <3>1. sshPc[o] = "owner" /\ sshPc'[o] = "working" /\ UNCHANGED <<sshEntry, sshOpen>>
      BY <1>6, <2>1 DEF SshBegin, SshGo, SshInv, SshTyped
    <3>2. SshOwner(o) /\ SshOwner(o)'
      BY <1>1, <1>4, <2>1, <3>1 DEF SshOwner, SshAlive
    <3> QED BY <1>3, <3>1, <3>2 DEF SshBegins, SshMeans, SshWorking, SshFenced
  <2>2. CASE ~SshAlive(o)
    <3>1. sshPc'[o] = "lost"
      BY <1>6, <2>2 DEF SshBegin, SshGo, SshInv, SshTyped
    <3>2. ~SshOwner(o) /\ ~SshOwner(o)'
      BY <2>2, <3>1 DEF SshOwner, SshAlive
    <3> QED BY <1>1, <1>3, <3>2, SshUnmoved DEF SshMeans
  <2> QED BY <2>1, <2>2
<1>7. CASE SshEnd(o)
  <2>1. sshPc[o] = "working" /\ sshPc'[o] = "owner" /\ UNCHANGED <<sshEntry, sshOpen>>
    BY <1>7 DEF SshEnd, SshGo, SshInv, SshTyped
  <2>2. SshOwner(o)' <=> SshOwner(o)
    BY <1>1, <2>1 DEF SshOwner
  <2>3. CASE SshOwner(o)
    BY <1>3, <2>1, <2>2, <2>3 DEF SshEnds, SshMeans, SshWorking, SshFenced
  <2>4. CASE ~SshOwner(o)
    BY <1>1, <1>3, <2>2, <2>4, SshUnmoved DEF SshMeans
  <2> QED BY <2>3, <2>4
<1>8. CASE SshRelease(o) \/ SshDie(o)
  <2>1. sshPc'[o] \in {"lost", "over"}
    BY <1>8 DEF SshRelease, SshDie, SshGo, SshInv, SshTyped
  <2>2. ~SshOwner(o)'
    BY <2>1 DEF SshOwner
  <2>3. CASE SshOwner(o)
    BY <1>1, <1>3, <2>2, <2>3 DEF SshOwner, SshForfeits, SshMeans, SshWorking, SshFenced
  <2>4. CASE ~SshOwner(o)
    BY <1>1, <1>3, <2>2, <2>4, SshUnmoved DEF SshMeans
  <2> QED BY <2>3, <2>4
<1> QED BY <1>5, <1>6, <1>7, <1>8

\* Every step is one of the abstract lock.
LEMMA SshStepMeans == SshInv /\ [SshNext]_sshVars => [SshAuthority!Next]_SshAuthority!vars
<1> SUFFICES ASSUME SshInv, [SshNext]_sshVars PROVE [SshAuthority!Next]_SshAuthority!vars
  OBVIOUS
<1>a. ASSUME NEW o \in Op, \A p \in Op : SshSame(p) PROVE [SshAuthority!Next]_SshAuthority!vars
  BY <1>a, SshMeaning DEF SshMeans
<1>1. ASSUME NEW s \in SshSession, SshShellStep(s) \/ SshDrop(s)
      PROVE  [SshAuthority!Next]_SshAuthority!vars
  <2>1. CASE SshMake(s) \/ SshBusy(s) \/ SshLeave(s)
    <3>1. s[1] \in Op
      BY SshSessions
    <3> QED BY <2>1, <3>1, <1>a, SshShellMeans
  <2>2. CASE SshAnnounce(s)
    BY <2>2, SshAnnounceMeans, SshMeaning
  <2>3. CASE SshDrop(s)
    BY <2>3, SshDropMeans, SshMeaning
  <2> QED BY <1>1, <2>1, <2>2, <2>3 DEF SshShellStep
<1>2. ASSUME NEW o \in Op,
             \/ SshAcquire(o) \/ SshAskTimeout(o) \/ SshBegin(o) \/ SshEnd(o)
             \/ SshAskAgain(o) \/ SshRelease(o) \/ SshDie(o)
      PROVE  [SshAuthority!Next]_SshAuthority!vars
  <2>1. CASE SshAcquire(o)
    BY <2>1, SshAcquireMeans, SshMeaning
  <2>2. CASE SshAskAgain(o)
    BY <2>2, <1>a, SshAskAgainMeans
  <2>3. CASE SshAskTimeout(o) \/ SshBegin(o) \/ SshEnd(o) \/ SshRelease(o) \/ SshDie(o)
    BY <2>3, SshOperationMeans, SshMeaning
  <2> QED BY <1>2, <2>1, <2>2, <2>3
<1>3. CASE UNCHANGED sshVars
  BY <1>3 DEF sshVars, SshAuthority!vars, SshOwner
<1> QED BY <1>1, <1>2, <1>3 DEF SshNext

\* Nobody owns the host at first.
LEMMA SshStartMeans == SshInit => SshAuthority!Init
BY DEF SshInit, SshAuthority!Init, SshOwner

------------------------------------------------------------------------------
(* The theorems.                                                           *)

\* Every variable has its type, and the directory is there exactly while one
\* shell of the host is between making and removing it (lock_script), whoever
\* abandons it.
THEOREM SshTypeCorrect == SshSpec => []SshTypeOK
<1>1. SshInv => SshTypeOK
  <2> SUFFICES ASSUME SshInv PROVE SshTypeOK
    OBVIOUS
  <2> DEFINE inside == {s \in SshSession : sshShell[s] \in {"made", "holding"}}
  <2>1. /\ sshDirectory <=> inside # {}
        /\ \A s, t \in inside : s = t
    BY DEF SshInv, SshHeld, SshInside
  <2> QED BY <2>1 DEF SshInv, SshTyped, SshTypeOK, SshShells, SshPcs
<1> QED BY <1>1, SshInvariant, PTL

\* The directory and its sessions implement the abstract operation lock, for any
\* number of operations and attempts and whatever is lost: nobody is granted what
\* a live session holds, a step begins only under an unbroken session, and an
\* operation whose session was lost never owns the host again
\* (existing_lock_result).
THEOREM SshLockIsLock == SshSpec => SshImplementsLock
BY SshInvariant, SshStepMeans, SshStartMeans, PTL DEF SshSpec, SshImplementsLock, SshAuthority!Spec

------------------------------------------------------------------------------
(* Together.                                                               *)

\* The lease of Fly and the directory of a host are locks: nobody is granted what
\* another holds, a step begins only under the lock, and what was lost is never
\* owned again (ensure_authority, existing_lock_result).
THEOREM LocksAreLocks == ASSUME FlyTiming PROVE FlyLockSpec /\ SshSpec => LocksImplementLock
<1>1. FlyLockSpec => FlyImplementsLock
  BY FlyLeaseIsALock
<1>2. SshSpec => SshImplementsLock
  BY SshLockIsLock
<1> QED BY <1>1, <1>2 DEF LocksImplementLock
=============================================================================
