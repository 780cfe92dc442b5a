------------------------------ MODULE ChildProcess ------------------------------
(***************************************************************************)
(* How the core and its plugins run one external program (git, docker,     *)
(* kubectl, ssh): the program, what it may leave behind that holds its     *)
(* pipes, and the caller that waits, is told to cancel, or is dropped.     *)
(* There are six ways:                                                     *)
(*   git         run_git_command, which waits and writes to files;         *)
(*   core        TokioCommandRunner, with a supervisor of its own;         *)
(*   kubernetes  run of the Kubernetes plugin, with a cancellation guard;  *)
(*   fly         run of the Fly plugin, with a cancellation of its own;    *)
(*   compose     run_local, which has neither deadline nor cancellation;   *)
(*   readiness   wait_until_ready of the Hetzner plugin, which tries anew. *)
(*                                                                         *)
(* Arguments, output and its wording are left out.                         *)
(***************************************************************************)
EXTENDS Integers

CONSTANTS
    ChRunners,  \* subset of {"git", "core", "kubernetes", "fly", "compose", "readiness"}
    ChTries,    \* bound: attempts of "readiness" until its deadline
    ChFaults    \* subset of {"spawn", "heir"}

ASSUME ChAssumption ==
    /\ ChRunners \subseteq {"git", "core", "kubernetes", "fly", "compose", "readiness"}
    /\ ChTries \in Nat /\ ChFaults \subseteq {"spawn", "heir"}

VARIABLES
    chRun,    \* the caller: its way, what will end the wait if the program does
              \* not, whether it has input for the program, where it is, the
              \* verdict it has come to, and its attempts
    chEar,    \* what the Fly plugin's Cancellation::cancelled has done
    chChild,  \* "none", "running", "doomed" (killed, not dead), "well", "ill", "killed"
    chHeir,   \* a descendant of the program holds its pipes
    chStdin,  \* "none", "open", "fed", "broken"
    chAsked   \* plugin.cancel: "no", "missed" (not acknowledged), "acknowledged"

chVars == <<chRun, chEar, chChild, chHeir, chStdin, chAsked>>

\* What a caller can be rescued by: its own deadline, a cancellation of the
\* operation, the abort of the request that it serves.
ChRescues(runner) ==
    CASE runner = "git" -> {"deadline"}
      [] runner = "core" -> {"deadline", "abort"}
      [] runner = "compose" -> {"abort"}
      [] runner = "readiness" -> {"deadline", "cancel"}
      [] OTHER -> {"deadline", "cancel", "abort"}

ChInit ==
    /\ \E runner \in ChRunners, input \in BOOLEAN :
        /\ input => runner \in {"kubernetes", "fly", "compose"}
        /\ \E rescue \in ChRescues(runner) :
            chRun = [runner |-> runner, rescue |-> rescue, input |-> input,
                     at |-> "called", verdict |-> "none", tries |-> 0]
    /\ chEar = "unset" /\ chChild = "none" /\ chHeir = FALSE
    /\ chStdin = "none" /\ chAsked = "no"

ChIs(runner) == chRun.runner = runner
ChAt(where) == chRun.at = where
ChGo(where) == chRun' = [chRun EXCEPT !.at = where]
ChTurn(where, verdict) == chRun' = [chRun EXCEPT !.at = where, !.verdict = verdict]
ChEnd(verdict) == ChTurn("ended", verdict)

ChAlive == chChild \in {"running", "doomed"}
\* The readers of stdout and stderr have come to the end.
ChQuiet == ~ChAlive /\ ~chHeir
ChKill == chChild' = IF chChild = "running" THEN "doomed" ELSE chChild
\* What becomes of input that nobody has read when its last reader is gone.
ChUnread(heir) == IF chStdin = "open" /\ ~heir THEN "broken" ELSE chStdin

------------------------------------------------------------------------------
(* The program.                                                            *)

\* The pipe has taken the whole input, read or not: it has room for a token.
ChTakes == /\ ChAlive \/ chHeir
           /\ chStdin = "open" /\ chStdin' = "fed"
           /\ UNCHANGED <<chRun, chEar, chChild, chHeir, chAsked>>

ChExits == /\ chChild = "running" /\ chChild' \in {"well", "ill"}
           /\ chStdin' = ChUnread(chHeir)
           /\ UNCHANGED <<chRun, chEar, chHeir, chAsked>>

ChDies == /\ chChild = "doomed" /\ chChild' = "killed"
          /\ chStdin' = ChUnread(chHeir)
          /\ UNCHANGED <<chRun, chEar, chHeir, chAsked>>

\* It starts a program of its own, which inherits its pipes: `docker` runs its
\* buildx, kubectl a credential plugin.
ChForks == /\ "heir" \in ChFaults /\ chChild = "running" /\ ~chHeir /\ chHeir' = TRUE
           /\ UNCHANGED <<chRun, chEar, chChild, chStdin, chAsked>>

ChHeirExits == /\ chHeir /\ chHeir' = FALSE
               /\ chStdin' = IF ChAlive THEN chStdin ELSE ChUnread(FALSE)
               /\ UNCHANGED <<chRun, chEar, chChild, chAsked>>

------------------------------------------------------------------------------
(* plugin.cancel.  It reaches what has a guard by now; a waiter of Fly that *)
(* has looked at the flag and does not listen yet is not woken.             *)

ChHasGuard == chRun.runner \in {"kubernetes", "fly", "readiness"} /\ ~ChAt("called")
ChCancelled == chAsked = "acknowledged"

ChCancel ==
    /\ chAsked = "no" /\ ~ChAt("ended") /\ "cancel" \in ChRescues(chRun.runner)
    /\ chAsked' = IF ChHasGuard THEN "acknowledged" ELSE "missed"
    /\ chEar' = IF ChHasGuard /\ chEar = "listening" THEN "heard" ELSE chEar
    /\ UNCHANGED <<chRun, chChild, chHeir, chStdin>>

\* Cancellation::cancelled: the flag is loaded before notified() exists.
ChLook ==
    /\ ChIs("fly") /\ ChAt("waiting") /\ chEar = "unset"
    /\ chEar' = IF ChCancelled THEN "heard" ELSE "looked"
    /\ UNCHANGED <<chRun, chChild, chHeir, chStdin, chAsked>>

ChListen ==
    /\ ChAt("waiting") /\ chEar = "looked" /\ chEar' = "listening"
    /\ UNCHANGED <<chRun, chChild, chHeir, chStdin, chAsked>>

\* CancelState::cancelled registers first and looks then; the Hetzner plugin
\* polls.
ChHears == IF ChIs("fly") THEN chEar = "heard" ELSE ChCancelled

------------------------------------------------------------------------------
(* The caller.                                                             *)

\* The operation's guard is there (CancellationRegistry::begin, cancellation).
ChBegin ==
    /\ ChAt("called") /\ ChGo("ready")
    /\ UNCHANGED <<chEar, chChild, chHeir, chStdin, chAsked>>

ChSpawn ==
    /\ ChAt("ready")
    /\ \/ /\ ChCancelled /\ chRun.runner \in {"fly", "readiness"} /\ ChEnd("cancelled")
          /\ UNCHANGED <<chChild, chHeir, chStdin>>
       \/ /\ ChCancelled => chRun.runner \notin {"fly", "readiness"}
          /\ \/ /\ chChild' = "running" /\ chHeir' = FALSE
                /\ chStdin' = IF chRun.input THEN "open" ELSE "none"
                /\ ChGo(IF chRun.input /\ chRun.runner \in {"fly", "compose"}
                        THEN "feeding" ELSE "waiting")
             \/ /\ "spawn" \in ChFaults
                /\ IF ChIs("readiness") THEN ChGo("resting") ELSE ChEnd("failed")
                /\ UNCHANGED <<chChild, chHeir, chStdin>>
    /\ UNCHANGED <<chEar, chAsked>>

\* write_stdin of Fly, and run_local: the input is written before anything is
\* waited for.
ChFeed ==
    /\ ChAt("feeding")
    /\ \/ chStdin = "fed" /\ ChGo("waiting") /\ UNCHANGED chChild
       \/ chStdin = "broken" /\ ChEnd("failed") /\ ChKill
    /\ UNCHANGED <<chEar, chHeir, chStdin, chAsked>>

\* The verdict over a program that has ended and whose pipes are closed.
ChJudge == IF chChild = "well" THEN "ok" ELSE "failed"

\* Mutant of ChJudgeFed: a failed write is not looked at.
ChJudgeUnfed == ChJudge

\* The Kubernetes plugin joins the write of the input as well.
ChJudgeFed == IF chStdin = "broken" THEN "failed" ELSE ChJudge

\* The program has ended.
ChWait ==
    /\ ChAt("waiting") /\ ~ChAlive
    /\ \/ chRun.runner \in {"core", "kubernetes"} /\ ChTurn("collecting", "completed")
       \/ chRun.runner \in {"fly", "compose"} /\ ChQuiet /\ ChEnd(ChJudge)
       \/ ChIs("readiness") /\ IF chChild = "well" THEN ChEnd("ok") ELSE ChGo("resting")
    /\ UNCHANGED <<chEar, chChild, chHeir, chStdin, chAsked>>

\* run_git_command polls; its output is in files, which no descendant holds up.
ChPoll ==
    /\ ChIs("git") /\ ChAt("waiting") /\ ~ChAlive /\ ChEnd(ChJudge)
    /\ UNCHANGED <<chEar, chChild, chHeir, chStdin, chAsked>>

\* What a caller does that will not wait any longer: Fly returns and its drop
\* kills the program, the others kill it and wait for its death.
ChGiveUp(verdict) ==
    /\ IF ChIs("fly") THEN ChEnd(verdict) ELSE ChTurn("reaping", verdict)
    /\ ChKill

\* The arm of the deadline (of the attempt, for readiness).
ChTimer ==
    /\ ChAt("waiting") /\ ~ChIs("compose")
    /\ ChGiveUp("timed out")
    /\ UNCHANGED <<chEar, chHeir, chStdin, chAsked>>

ChHear ==
    /\ ChHears /\ chRun.runner \notin {"git", "core"}
    /\ \/ ChAt("waiting") /\ ChGiveUp("cancelled")
       \/ ChAt("resting") /\ ChEnd("cancelled") /\ UNCHANGED chChild
    /\ UNCHANGED <<chEar, chHeir, chStdin, chAsked>>

\* terminate_and_reap and kill: only the Kubernetes plugin waits without limit.
ChReap(early) ==
    /\ ChAt("reaping") /\ (ChAlive <=> early) /\ (early => ~ChIs("kubernetes"))
    /\ ~ChIs("git")
    /\ IF ~ChIs("readiness") THEN ChGo("collecting")
       ELSE IF chRun.verdict = "cancelled" THEN ChGo("ended") ELSE ChTurn("resting", "none")
    /\ UNCHANGED <<chEar, chChild, chHeir, chStdin, chAsked>>

\* terminate_git: killed, and polled for a limited time.
ChGitReaped ==
    /\ ChIs("git") /\ ChAt("reaping") /\ ChGo("ended")
    /\ UNCHANGED <<chEar, chChild, chHeir, chStdin, chAsked>>

\* The output is read to its end; only the core gives the readers a limit.
ChCollect(early) ==
    /\ ChAt("collecting")
    /\ \/ /\ ~early /\ ChQuiet
          /\ ChEnd(IF chRun.verdict # "completed" THEN chRun.verdict
                   ELSE IF ChIs("kubernetes") THEN ChJudgeFed ELSE ChJudge)
       \/ /\ early /\ ~ChQuiet /\ ChIs("core")
          /\ ChEnd(IF chRun.verdict = "completed" THEN "timed out" ELSE chRun.verdict)
    /\ UNCHANGED <<chEar, chChild, chHeir, chStdin, chAsked>>

\* wait_before_retry.
ChRest ==
    /\ ChAt("resting") /\ ~ChHears
    /\ \/ /\ chRun.tries < ChTries
          /\ chRun' = [chRun EXCEPT !.at = "ready", !.tries = @ + 1]
       \/ ChEnd("timed out")
    /\ UNCHANGED <<chEar, chChild, chHeir, chStdin, chAsked>>

\* Mutant of ChDrop: nothing is killed on drop.
ChDropOnly ==
    /\ ~ChAt("ended") /\ "abort" \in ChRescues(chRun.runner)
    /\ ChEnd("dropped")
    /\ UNCHANGED <<chEar, chChild, chHeir, chStdin, chAsked>>

\* The caller's future is dropped.  A plugin's program is killed on drop; the
\* supervisor of the core outlives its caller, kills and reaps.
ChDrop ==
    /\ ~ChAt("ended") /\ "abort" \in ChRescues(chRun.runner)
    /\ IF ~ChIs("core") \/ chRun.at \in {"called", "ready"}
       THEN ChEnd("dropped") /\ ChKill
       ELSE ChAt("waiting") /\ ChTurn("reaping", "dropped") /\ ChKill
    /\ UNCHANGED <<chEar, chHeir, chStdin, chAsked>>

ChProgram == ChTakes \/ ChExits \/ ChDies \/ ChForks \/ ChHeirExits
\* What its own code and its short limits make the caller do.
ChProceed ==
    \/ ChBegin \/ ChSpawn \/ ChFeed \/ ChWait \/ ChPoll \/ ChLook \/ ChListen
    \/ ChHear \/ ChGitReaped \/ ChRest
    \/ \E early \in BOOLEAN : ChReap(early) \/ ChCollect(early)
ChNext == ChProgram \/ ChProceed \/ ChTimer \/ ChCancel \/ ChDrop
ChSpec == ChInit /\ [][ChNext]_chVars

\* The rescue that this behaviour will see.
ChRescued ==
    \/ chRun.rescue = "deadline" /\ ChTimer
    \/ chRun.rescue = "cancel" /\ ChCancel
    \/ chRun.rescue = "abort" /\ ChDrop

------------------------------------------------------------------------------
ChTypeOK ==
    /\ chRun.runner \in ChRunners /\ chRun.rescue \in ChRescues(chRun.runner)
    /\ chRun.at \in {"called", "ready", "feeding", "waiting", "reaping", "collecting",
                     "resting", "ended"}
    /\ chRun.verdict \in {"none", "completed", "ok", "failed", "timed out", "cancelled",
                          "dropped"}
    /\ chRun.tries \in 0..ChTries
    /\ chEar \in {"unset", "looked", "listening", "heard"}
    /\ chChild \in {"none", "running", "doomed", "well", "ill", "killed"}
    /\ chHeir \in BOOLEAN /\ chStdin \in {"none", "open", "fed", "broken"}
    /\ chAsked \in {"no", "missed", "acknowledged"}

\* A command that succeeds has ended well, the pipe has taken all its input where
\* it was given one, and its output is complete; a
\* command that ends in whatever way leaves no program behind that has not been
\* killed; and one that the Kubernetes plugin answers as cancelled or timed out
\* is dead by then, so that its operation has come to a safe stopping point
\* (docs/plugin-protocol.md, 10).
ChAnswersAreTrue ==
    ChAt("ended") =>
        /\ chRun.verdict = "ok" =>
            /\ chChild = "well" /\ chStdin \in {"none", "fed"}
            /\ chRun.runner \notin {"git", "readiness"} => ~chHeir
        /\ chChild # "running"
        /\ ChIs("kubernetes") /\ chRun.verdict # "dropped" => ~ChAlive

\* What no rescue ends: an operation that plugin.cancel has not acknowledged, a
\* waiter of Fly that it has not woken, and a Kubernetes command whose pipes a
\* descendant holds.
ChUnheard == chRun.rescue = "cancel" /\ (~ChCancelled \/ (ChIs("fly") /\ ~ChHears))
ChHeld == ChIs("kubernetes") /\ chRun.rescue # "abort" /\ chHeir

\* Every command that its deadline, an acknowledged cancellation or the abort
\* of its request reaches comes to an end, and its program is dead
\* (docs/plugin-protocol.md, 10: kill-on-drop, a safe stopping point).
ChIsThrough == (ChAt("ended") /\ ~ChAlive) \/ ChUnheard \/ ChHeld
==============================================================================
