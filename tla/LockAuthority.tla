---------------------------- MODULE LockAuthority ----------------------------
(***************************************************************************)
(* What every operation lock promises its callers: at most one operation   *)
(* believes that it owns the scope, only an owner mutates, an owner that   *)
(* stops being one mutates no longer, and ownership that was given up or   *)
(* lost never comes back to the same operation.                            *)
(***************************************************************************)
CONSTANT Op

VARIABLES owners,   \* operations that believe they own the scope
          working,  \* operations with a mutation in flight
          fenced    \* operations that owned it once and do not any more

vars == <<owners, working, fenced>>

Init == owners = {} /\ working = {} /\ fenced = {}

Grant(o) ==
    /\ owners = {} /\ o \notin fenced
    /\ owners' = {o}
    /\ UNCHANGED <<working, fenced>>

Begin(o) ==
    /\ o \in owners \ working
    /\ working' = working \union {o}
    /\ UNCHANGED <<owners, fenced>>

End(o) ==
    /\ o \in working
    /\ working' = working \ {o}
    /\ UNCHANGED <<owners, fenced>>

\* Released, lost to a lapse, or the owner died.
Forfeit(o) ==
    /\ o \in owners
    /\ owners' = owners \ {o}
    /\ working' = working \ {o}
    /\ fenced' = fenced \union {o}

Next == \E o \in Op : Grant(o) \/ Begin(o) \/ End(o) \/ Forfeit(o)

Spec == Init /\ [][Next]_vars
=============================================================================
