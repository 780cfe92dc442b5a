----------------------------- MODULE PluginCall -----------------------------
(***************************************************************************)
(* What a session with a plugin promises the core for each of its calls:   *)
(* the plugin works on a call at most once, an answer is only given for    *)
(* work that is done, and when the session has been shut down nothing is   *)
(* being worked on any more.  A call may fail while the plugin goes on     *)
(* with it, or before it has even begun.                                   *)
(***************************************************************************)
CONSTANT Calls

VARIABLES caller,  \* idle, open, answered, failed
          work,    \* none, working, done, stopped
          closed   \* the session has been shut down

vars == <<caller, work, closed>>

Init ==
    /\ caller = [c \in Calls |-> "idle"]
    /\ work = [c \in Calls |-> "none"]
    /\ closed = FALSE

Open(c) ==
    /\ caller[c] = "idle" /\ ~closed
    /\ caller' = [caller EXCEPT ![c] = "open"]
    /\ UNCHANGED <<work, closed>>

Answer(c) ==
    /\ caller[c] = "open" /\ work[c] = "done"
    /\ caller' = [caller EXCEPT ![c] = "answered"]
    /\ UNCHANGED <<work, closed>>

Fail(c) ==
    /\ caller[c] \in {"idle", "open"}
    /\ caller' = [caller EXCEPT ![c] = "failed"]
    /\ UNCHANGED <<work, closed>>

Begin(c) ==
    /\ caller[c] \in {"open", "failed"} /\ work[c] = "none" /\ ~closed
    /\ work' = [work EXCEPT ![c] = "working"]
    /\ UNCHANGED <<caller, closed>>

Complete(c) ==
    /\ work[c] = "working"
    /\ work' = [work EXCEPT ![c] = "done"]
    /\ UNCHANGED <<caller, closed>>

\* Aborted one by one, or all at once by the end of the plugin's process.
Stop(S) ==
    /\ \A c \in S : work[c] = "working"
    /\ work' = [c \in Calls |-> IF c \in S THEN "stopped" ELSE work[c]]
    /\ UNCHANGED <<caller, closed>>

Close ==
    /\ \A c \in Calls : work[c] # "working"
    /\ closed' = TRUE
    /\ UNCHANGED <<caller, work>>

Next ==
    \/ \E c \in Calls : Open(c) \/ Answer(c) \/ Fail(c) \/ Begin(c) \/ Complete(c)
    \/ \E S \in SUBSET Calls : Stop(S)
    \/ Close

Spec == Init /\ [][Next]_vars
=============================================================================
