--------------------------- MODULE RollbackClaims ---------------------------
(***************************************************************************)
(* What the core makes of a failed `apply`: from the plan under the lock   *)
(* and from the journal that the plugin returned, if it did, it decides    *)
(* which compensation to call and what to report as left behind.  One      *)
(* capability and one call of its plugin, which works on the actions of    *)
(* its plan, undoes some of them itself, and writes its journal as it      *)
(* goes; sequence numbers never decrease, but two entries may share one.   *)
(***************************************************************************)
EXTENDS Integers, Sequences, FiniteSets

CONSTANTS
    ClaimActions,       \* the actions of the plan, in its order
    ClaimCapabilities,  \* subset of {"Target", "Runtime", "Exposure"}
    ClaimEntries        \* bound: entries in the plugin's journal

ASSUME ClaimAssumption ==
    /\ ClaimActions \subseteq Nat /\ IsFiniteSet(ClaimActions) /\ ClaimEntries \in Nat
    /\ ClaimCapabilities \subseteq {"Target", "Runtime", "Exposure"}

VARIABLES
    claimPlan,    \* the inverse an action of the plan declares: "none", "supported", "unsupported"
    claimStatus,  \* the status of an action, by what the plugin has really done
    claimEffect,  \* actions whose effect is in place
    claimList,    \* the plugin's journal
    claimJournal, \* the core's copy, with what it adds to it
    claimPc

claimVars == <<claimPlan, claimStatus, claimEffect, claimList, claimJournal, claimPc>>

\* What the locked inspection may have found; "bare" has no revision.
ClaimPriors == {"absent", "bare", "revision"}

ClaimUndone == {"skipped", "rolled_back"}

------------------------------------------------------------------------------
(* The core's reading of a journal.                                        *)

ClaimOf(list, a) == {i \in DOMAIN list : list[i].action = a}

\* The entry of I with the highest sequence, the last one of equals.
ClaimLatest(list, I) ==
    CHOOSE i \in I : \A j \in I :
        list[j].sequence < list[i].sequence \/ (list[j].sequence = list[i].sequence /\ j <= i)

\* The inverse of every planned action that the journal has none for is added
\* behind it, with the status of the action's last entry.
ClaimAdditions(plan, list) ==
    {a \in ClaimActions : plan[a] # "none" /\ \A i \in ClaimOf(list, a) : list[i].inverse = "none"}
ClaimLastStatus(list, a) ==
    LET I == ClaimOf(list, a) IN
    IF I = {} THEN "started" ELSE list[CHOOSE i \in I : \A j \in I : j <= i].status
ClaimHighest(list) ==
    IF list = <<>> THEN 0
    ELSE CHOOSE n \in {list[i].sequence : i \in DOMAIN list} :
            \A i \in DOMAIN list : list[i].sequence <= n

\* Mutant of ClaimComplete: what is added was merely started.
ClaimCompleteStarted(plan, list) ==
    LET added == ClaimAdditions(plan, list)
        nth(k) == CHOOSE a \in added : Cardinality({b \in added : b <= a}) = k
    IN list \o [k \in 1..Cardinality(added) |->
                    [sequence |-> ClaimHighest(list) + k, action |-> nth(k),
                     status |-> "started", inverse |-> plan[nth(k)]]]

ClaimComplete(plan, list) ==
    LET added == ClaimAdditions(plan, list)
        nth(k) == CHOOSE a \in added : Cardinality({b \in added : b <= a}) = k
    IN list \o [k \in 1..Cardinality(added) |->
                    [sequence |-> ClaimHighest(list) + k, action |-> nth(k),
                     status |-> ClaimLastStatus(list, nth(k)), inverse |-> plan[nth(k)]]]

\* rollback_claims: the latest inverse of each action that was neither skipped
\* nor rolled back.
ClaimInverses(a) == {i \in ClaimOf(claimJournal, a) : claimJournal[i].inverse # "none"}
ClaimNow(a) == claimJournal[ClaimLatest(claimJournal, ClaimOf(claimJournal, a))].status
Claims == {a \in ClaimActions : ClaimInverses(a) # {} /\ ClaimNow(a) \notin ClaimUndone}
ClaimSupported ==
    {a \in Claims : claimJournal[ClaimLatest(claimJournal, ClaimInverses(a))].inverse = "supported"}
ClaimMayHaveRun(a) ==
    ClaimOf(claimJournal, a) = {} \/ ClaimNow(a) \notin ClaimUndone

\* Planned actions without an inverse that may have run.
ClaimMissing == {a \in ClaimActions \ Claims : ClaimMayHaveRun(a)}

\* classify_rollback: the compensation that is called (what a Builder made is
\* kept) ...
ClaimOperation(kind, prior) ==
    CASE kind \in {"Target", "Runtime"} /\ prior = "absent" -> "cleanup"
      [] kind = "Target" /\ prior # "absent" -> "none"
      [] kind = "Exposure" /\ ClaimSupported # {} ->
            IF prior = "absent" THEN "cleanup" ELSE "rollback"
      [] kind = "Runtime" /\ prior = "revision" /\ ClaimSupported # {} -> "rollback"
      [] OTHER -> "none"

\* ... and the actions that are reported as not rolled back.
ClaimReported(kind, prior) ==
    CASE kind = "Exposure" -> Claims \ ClaimSupported
      [] kind \in {"Target", "Runtime"} /\ prior = "absent" -> {}
      [] kind = "Target" /\ prior # "absent" -> Claims \union ClaimMissing
      [] kind = "Runtime" /\ prior = "bare" -> Claims \union ClaimMissing
      [] kind = "Runtime" /\ prior = "revision" -> (Claims \ ClaimSupported) \union ClaimMissing

------------------------------------------------------------------------------
(* The call.                                                               *)

ClaimInit ==
    /\ claimPlan \in [ClaimActions -> {"none", "supported", "unsupported"}]
    /\ claimStatus = [a \in ClaimActions |-> "untouched"] /\ claimEffect = {}
    /\ claimList = <<>> /\ claimJournal = ClaimComplete(claimPlan, <<>>)
    /\ claimPc = "applying"

\* What an action with a status may become.
ClaimAfter(status) ==
    CASE status = "untouched" -> {"started", "skipped"}
      [] status = "started" -> {"succeeded", "failed"}
      [] status \in {"succeeded", "failed"} -> {"rolling_back"}
      [] status = "rolling_back" -> {"rolled_back", "rollback_failed"}
      [] OTHER -> {}

\* Whether the effect of an action may be in place, or may be missing.
ClaimHas(status) == status \notin {"untouched", "skipped", "rolled_back"}
ClaimLacks(status) == status # "succeeded"

\* The plugin takes the next step of an action.  That it begins something need
\* not be in its journal; an entry may carry the inverse.
ClaimProceed ==
    /\ claimPc = "applying"
    /\ \E a \in ClaimActions : \E status \in ClaimAfter(claimStatus[a]) :
        /\ claimStatus' = [claimStatus EXCEPT ![a] = status]
        /\ \/ ClaimHas(status) /\ claimEffect' = claimEffect \union {a}
           \/ ClaimLacks(status) /\ claimEffect' = claimEffect \ {a}
        /\ \/ /\ Len(claimList) < ClaimEntries
              /\ \E step \in {0, 1}, inverse \in {"none", claimPlan[a]} :
                    claimList' = Append(claimList,
                        [sequence |-> ClaimHighest(claimList) + step, action |-> a,
                         status |-> status, inverse |-> inverse])
           \/ status \in {"started", "rolling_back"} /\ UNCHANGED claimList
    /\ UNCHANGED <<claimPlan, claimJournal, claimPc>>

\* record_apply_result, or an error in its place: the core's journal is then
\* still the one it began with.
ClaimAnswer ==
    /\ claimPc = "applying"
    /\ \/ claimPc' = "answered" /\ claimJournal' = ClaimComplete(claimPlan, claimList)
       \/ claimPc' = "failed" /\ UNCHANGED claimJournal
    /\ UNCHANGED <<claimPlan, claimStatus, claimEffect, claimList>>

ClaimNext == ClaimProceed \/ ClaimAnswer
ClaimSpec == ClaimInit /\ [][ClaimNext]_claimVars

------------------------------------------------------------------------------
ClaimStatuses == {"started", "succeeded", "failed", "rolling_back", "rolled_back",
                  "rollback_failed", "skipped"}
ClaimEntry == [sequence : Nat, action : ClaimActions, status : ClaimStatuses,
               inverse : {"none", "supported", "unsupported"}]
ClaimTypeOK ==
    /\ claimPlan \in [ClaimActions -> {"none", "supported", "unsupported"}]
    /\ claimStatus \in [ClaimActions -> ClaimStatuses \union {"untouched"}]
    /\ claimEffect \subseteq ClaimActions
    /\ claimList \in Seq(ClaimEntry) /\ claimJournal \in Seq(ClaimEntry)
    /\ claimPc \in {"applying", "answered", "failed"}

\* What is in place after a failed apply is compensated or reported, whatever
\* part of the journal the core got, and nothing is claimed that the journal
\* says was skipped or rolled back; an exposure changes nothing without declaring
\* an inverse, a builder's artifacts are kept (docs/architecture.md: "Potentially executed
\* existing Target or Runtime actions with no declared rollback contract are
\* also reported as incomplete").
ClaimsAreExact ==
    claimPc # "applying" =>
        /\ \A kind \in ClaimCapabilities, prior \in ClaimPriors :
            LET called == ClaimOperation(kind, prior)
                changed == IF kind = "Exposure" THEN {a \in claimEffect : claimPlan[a] # "none"}
                           ELSE claimEffect
            IN called # "cleanup" =>
                changed \subseteq ClaimReported(kind, prior)
                    \union (IF called = "rollback" THEN ClaimSupported ELSE {})
        /\ claimPc = "answered" =>
            \A a \in Claims \union ClaimMissing : claimStatus[a] \notin ClaimUndone
==============================================================================
