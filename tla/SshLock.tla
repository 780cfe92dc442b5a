------------------------------- MODULE SshLock -------------------------------
(***************************************************************************)
(* The host-wide lock of the SSH target: a directory that a shell on the   *)
(* host makes, and removes when the SSH session that started it ends.  The *)
(* plugin keeps the session's local `ssh` as its HeldLock; a continuity    *)
(* check asks whether that process is still there.                         *)
(*                                                                         *)
(* A session whose connection is gone is a shell that runs on with its     *)
(* stdin at its end: one that still waits for the directory may yet make   *)
(* it.  A connection that is lost takes the local `ssh` with it (one that  *)
(* is cut without a trace is noticed by keepalives, ServerAliveInterval,   *)
(* and is not modelled).                                                   *)
(***************************************************************************)
EXTENDS Operations, Naturals

CONSTANTS
    SshAttempts,  \* sessions an operation may start (the core's retries)
    SshFaults     \* subset of {"lost", "drop", "timeout", "die"}

ASSUME SshAssumption ==
    /\ SshAttempts \in Nat \ {0}
    /\ SshFaults \subseteq {"lost", "drop", "timeout", "die"}

SshSession == Op \X (1..SshAttempts)

VARIABLES
    sshDirectory, \* the lock directory is there
    sshShell,     \* where the shell of a session is
    sshOpen,      \* the sessions whose connection is up
    sshTried,     \* sessions an operation has started
    sshEntry,     \* the attempt that `locks` holds for an operation, 0: none
    sshToken,     \* the attempt whose token the core owns, 0: none
    sshPc         \* what the core is doing with the lock

sshVars == <<sshDirectory, sshShell, sshOpen, sshTried, sshEntry, sshToken, sshPc>>

SshInit ==
    /\ sshDirectory = FALSE
    /\ sshShell = [s \in SshSession |-> "none"]
    /\ sshOpen = {}
    /\ sshTried = [o \in Op |-> 0]
    /\ sshEntry = [o \in Op |-> 0] /\ sshToken = [o \in Op |-> 0]
    /\ sshPc = [o \in Op |-> "idle"]

SshCurrent(o) == <<o, sshTried[o]>>
SshGo(o, where) == sshPc' = [sshPc EXCEPT ![o] = where]

\* try_wait: the local ssh of the entry is still there.
SshAlive(o) == sshEntry[o] # 0 /\ <<o, sshEntry[o]>> \in sshOpen

------------------------------------------------------------------------------
(* lock_script, on the host.                                               *)

SshShellAt(s, from, to) == sshShell[s] = from /\ sshShell' = [sshShell EXCEPT ![s] = to]

\* Mutant of SshMake: `mkdir -p`.
SshMakeAnyway(s) ==
    /\ SshShellAt(s, "waiting", "made")
    /\ sshDirectory' = TRUE
    /\ UNCHANGED <<sshOpen, sshTried, sshEntry, sshToken, sshPc>>

SshMake(s) ==
    /\ SshShellAt(s, "waiting", "made")
    /\ ~sshDirectory /\ sshDirectory' = TRUE
    /\ UNCHANGED <<sshOpen, sshTried, sshEntry, sshToken, sshPc>>

\* It waited its attempts; who still listens is told that the host is busy.
SshBusy(s) ==
    /\ SshShellAt(s, "waiting", "ended") /\ sshDirectory
    /\ sshOpen' = sshOpen \ {s}
    /\ sshPc' = [o \in Op |-> IF s \in sshOpen /\ s = SshCurrent(o)
                              THEN CASE sshPc[o] = "asked" -> "over"
                                     [] sshPc[o] = "askedAgain" -> "lost"
                                     [] OTHER -> sshPc[o]
                              ELSE sshPc[o]]
    /\ UNCHANGED <<sshDirectory, sshTried, sshEntry, sshToken>>

\* LOCKED is printed to whoever still listens.  The core's own answer may be
\* lost on its way, a retry then finds the entry.
SshAnnounce(s) ==
    LET o == s[1] IN
    /\ s \in sshOpen /\ SshShellAt(s, "made", "holding")
    /\ sshEntry' = [sshEntry EXCEPT ![o] = s[2]]
    /\ \/ /\ sshPc[o] = "asked"
          /\ sshToken' = [sshToken EXCEPT ![o] = s[2]] /\ SshGo(o, "owner")
       \/ "lost" \in SshFaults /\ sshPc[o] = "asked" /\ SshGo(o, "retry") /\ UNCHANGED sshToken
       \/ sshPc[o] = "askedAgain" /\ SshGo(o, "mismatch") /\ UNCHANGED sshToken
    /\ UNCHANGED <<sshDirectory, sshOpen, sshTried>>

\* Its stdin has ended, or nobody reads what it prints: the trap on its exit
\* removes the directory.
SshLeave(s) ==
    /\ s \notin sshOpen
    /\ \/ SshShellAt(s, "made", "ended") \/ SshShellAt(s, "holding", "ended")
    /\ sshDirectory' = FALSE
    /\ UNCHANGED <<sshOpen, sshTried, sshEntry, sshToken, sshPc>>

------------------------------------------------------------------------------
(* lock_acquire, which is the continuity check too, and lock_release.      *)

SshSpawn(o) ==
    /\ sshTried[o] < SshAttempts
    /\ sshTried' = [sshTried EXCEPT ![o] = @ + 1]
    /\ sshShell' = [sshShell EXCEPT ![<<o, sshTried[o] + 1>>] = "waiting"]
    /\ sshOpen' = sshOpen \union {<<o, sshTried[o] + 1>>}

\* existing_lock_result first: an entry whose ssh is alive answers with its
\* token, one whose ssh has exited is dropped with an error that is retried.
SshAcquire(o) ==
    /\ sshPc[o] \in {"idle", "retry"}
    /\ \/ /\ SshAlive(o)
          /\ sshToken' = [sshToken EXCEPT ![o] = sshEntry[o]] /\ SshGo(o, "owner")
          /\ UNCHANGED <<sshShell, sshOpen, sshTried, sshEntry>>
       \/ /\ sshEntry[o] # 0 /\ ~SshAlive(o)
          /\ sshEntry' = [sshEntry EXCEPT ![o] = 0]
          /\ UNCHANGED <<sshShell, sshOpen, sshTried, sshToken, sshPc>>
       \/ /\ sshEntry[o] = 0
          /\ SshSpawn(o) /\ SshGo(o, "asked")
          /\ UNCHANGED <<sshEntry, sshToken>>
       \* No attempt is left.
       \/ /\ sshEntry[o] = 0 /\ sshTried[o] = SshAttempts
          /\ SshGo(o, "over")
          /\ UNCHANGED <<sshShell, sshOpen, sshTried, sshEntry, sshToken>>
    /\ UNCHANGED sshDirectory

\* The response is not there in time: the child is dropped and killed.
SshAskTimeout(o) ==
    /\ "timeout" \in SshFaults /\ sshPc[o] \in {"asked", "askedAgain"}
    /\ sshOpen' = sshOpen \ {SshCurrent(o)}
    /\ SshGo(o, IF sshPc[o] = "asked" THEN "retry" ELSE "lost")
    /\ UNCHANGED <<sshDirectory, sshShell, sshTried, sshEntry, sshToken>>

\* Mutant of SshBegin: a lost entry is silently acquired again.
SshBeginAgain(o) ==
    /\ sshPc[o] = "owner"
    /\ IF SshAlive(o)
       THEN SshGo(o, "working") /\ UNCHANGED <<sshEntry, sshShell, sshOpen, sshTried>>
       ELSE /\ sshEntry' = [sshEntry EXCEPT ![o] = 0]
            /\ SshSpawn(o) /\ SshGo(o, "asked")
    /\ UNCHANGED <<sshDirectory, sshToken>>

\* The check before a step: the same token, or the entry is dropped as lost and
\* the step is not taken.
SshBegin(o) ==
    /\ sshPc[o] = "owner"
    /\ IF SshAlive(o)
       THEN SshGo(o, "working") /\ UNCHANGED sshEntry
       ELSE SshGo(o, "lost") /\ sshEntry' = [sshEntry EXCEPT ![o] = 0]
    /\ UNCHANGED <<sshDirectory, sshShell, sshOpen, sshTried, sshToken>>

SshEnd(o) ==
    /\ sshPc[o] = "working" /\ SshGo(o, "owner")
    /\ UNCHANGED <<sshDirectory, sshShell, sshOpen, sshTried, sshEntry, sshToken>>

\* A check after the loss takes the lock anew; its token is another one, so the
\* core gives it back.
SshAskAgain(o) ==
    /\ sshPc[o] = "lost"
    /\ SshSpawn(o) /\ SshGo(o, "askedAgain")
    /\ UNCHANGED <<sshDirectory, sshEntry, sshToken>>

\* lock_release: the stdin of the session is closed, then its ssh is waited for
\* or killed; a token without an entry is released already.
SshRelease(o) ==
    /\ sshPc[o] \in {"owner", "lost", "mismatch"}
    /\ sshOpen' = IF sshEntry[o] = 0 THEN sshOpen ELSE sshOpen \ {<<o, sshEntry[o]>>}
    /\ sshEntry' = [sshEntry EXCEPT ![o] = 0]
    /\ SshGo(o, IF sshPc[o] = "mismatch" THEN "lost" ELSE "over")
    /\ UNCHANGED <<sshDirectory, sshShell, sshTried, sshToken>>

\* The connection is lost, and whoever reads from it learns so.
SshDrop(s) ==
    /\ "drop" \in SshFaults /\ s \in sshOpen
    /\ sshOpen' = sshOpen \ {s}
    /\ sshPc' = [o \in Op |-> IF s # SshCurrent(o) THEN sshPc[o]
                              ELSE CASE sshPc[o] = "asked" -> "retry"
                                     [] sshPc[o] = "askedAgain" -> "lost"
                                     [] OTHER -> sshPc[o]]
    /\ UNCHANGED <<sshDirectory, sshShell, sshTried, sshEntry, sshToken>>

\* The processes of the operation die, their ssh children with them.
SshDie(o) ==
    /\ "die" \in SshFaults /\ sshPc[o] # "over"
    /\ sshOpen' = {s \in sshOpen : s[1] # o}
    /\ sshEntry' = [sshEntry EXCEPT ![o] = 0]
    /\ SshGo(o, "over")
    /\ UNCHANGED <<sshDirectory, sshShell, sshTried, sshToken>>

SshShellStep(s) == SshMake(s) \/ SshBusy(s) \/ SshAnnounce(s) \/ SshLeave(s)

SshNext ==
    \/ \E s \in SshSession : SshShellStep(s) \/ SshDrop(s)
    \/ \E o \in Op : \/ SshAcquire(o) \/ SshAskTimeout(o) \/ SshBegin(o) \/ SshEnd(o)
                     \/ SshAskAgain(o) \/ SshRelease(o) \/ SshDie(o)

SshSpec == SshInit /\ [][SshNext]_sshVars

------------------------------------------------------------------------------
\* Every variable has its type, and the directory is there exactly while one
\* shell is between making and removing it.
SshTypeOK ==
    /\ sshShell \in [SshSession -> {"none", "waiting", "made", "holding", "ended"}]
    /\ sshOpen \subseteq SshSession
    /\ sshTried \in [Op -> 0..SshAttempts]
    /\ sshEntry \in [Op -> 0..SshAttempts] /\ sshToken \in [Op -> 0..SshAttempts]
    /\ sshPc \in [Op -> {"idle", "retry", "asked", "owner", "working", "lost", "askedAgain",
                         "mismatch", "over"}]
    /\ LET inside == {s \in SshSession : sshShell[s] \in {"made", "holding"}} IN
       /\ sshDirectory <=> inside # {}
       /\ \A s, t \in inside : s = t

\* The session of the token that the core owns has held the directory without
\* interruption.
SshOwner(o) ==
    /\ sshToken[o] # 0 /\ sshPc[o] \in {"owner", "working"}
    /\ sshEntry[o] = sshToken[o] /\ <<o, sshToken[o]>> \in sshOpen

SshAuthority == INSTANCE LockAuthority WITH
    owners  <- {o \in Op : SshOwner(o)},
    working <- {o \in Op : SshOwner(o) /\ sshPc[o] = "working"},
    fenced  <- {o \in Op : sshToken[o] # 0 /\ ~SshOwner(o)}

\* The directory and its sessions implement the abstract lock: nobody is
\* granted what a live session holds, a step begins only under an unbroken
\* session, and an operation whose session was lost never owns the host again,
\* whatever it acquires anew (existing_lock_result; docs/product-spec.md, 13:
\* "A stale, missing, or changed token aborts before that mutation").
SshImplementsLock == SshAuthority!Spec

\* When an operation is over, every shell that it started on the host ends, an
\* abandoned one that was still waiting included, and none leaves the
\* directory behind for the next operation (lock_script's trap;
\* docs/product-spec.md:1091: "Connection-scoped locks release with their
\* owning process/SSH session").
SshHostIsFree ==
    /\ \A s \in SshSession :
        sshPc[s[1]] = "over" => sshShell[s] \in {"none", "ended"}
    /\ (\A o \in Op : sshPc[o] = "over") => ~sshDirectory
=============================================================================
