------------------------------ MODULE PluginStore ------------------------------
(***************************************************************************)
(* Third-party plugins: lightrail.lock, which pins them, the store of      *)
(* installed executables, which every project of a user shares, and the    *)
(* commands `plugin install | update | remove | sync`, `init`, and any     *)
(* command that runs a plugin.  Nothing locks either of them.              *)
(*                                                                         *)
(* A build stands for an executable and its checksum; two builds may carry *)
(* the same version, and a version is a directory of the store.  A file    *)
(* that was opened and not yet written is PsEmpty.                         *)
(***************************************************************************)
EXTENDS Operations, Integers, FiniteSets

CONSTANTS
    PsIds,      \* identifiers of plugins
    PsBuilds,   \* positive numbers, which each source offers in this order
    PsVersion,  \* the version of a build, for every build
    PsTasks,    \* subset of {"init", "install", "update", "remove", "sync", "run"}
    PsCommands, \* bound: how many commands are run
    PsFaults,   \* subset of {"call", "die", "publish"}
    PsBudget    \* how many of them happen

ASSUME PsAssumption ==
    /\ PsIds # {} /\ PsBuilds \subseteq Nat \ {0} /\ DOMAIN PsVersion = PsBuilds
    /\ \E b \in PsBuilds : \A c \in PsBuilds : b <= c
    /\ PsTasks \subseteq {"init", "install", "update", "remove", "sync", "run"}
    /\ PsFaults \subseteq {"call", "die", "publish"}
    /\ PsCommands \in Nat /\ PsBudget \in Nat

VARIABLES
    psLock,    \* lightrail.lock: PsAbsent, PsEmpty, PsTorn, or the pinned build of each plugin
    psTemp,    \* lightrail.lock.tmp, likewise
    psStore,   \* for each plugin and version the installed build
    psSource,  \* for each plugin the build its source offers
    psSelf,    \* for each process: where it is, its command and plugin, its copy of
               \* the lock, the builds it has yet to install, the one it deals with,
               \* the file that it has open, and whether it was alone
    psMixed,   \* ghost: two commands that write have overlapped
    psClash,   \* ghost: two processes were writing lightrail.lock.tmp at once
    psRun, psLeft

psVars == <<psLock, psTemp, psStore, psSource, psSelf, psMixed, psClash, psRun, psLeft>>

PsNone == 0
PsPins == [PsIds -> PsBuilds \union {PsNone}]
PsNoPins == [i \in PsIds |-> PsNone]

\* What a file can be that is not a set of pins.
PsAbsent == [i \in PsIds |-> 0 - 1]
PsEmpty == [i \in PsIds |-> 0 - 2]
PsTorn == [i \in PsIds |-> 0 - 3]
PsFirst == CHOOSE b \in PsBuilds : \A c \in PsBuilds : b <= c
PsVersions == {PsVersion[b] : b \in PsBuilds}
PsIdle ==
    [at |-> "idle", task |-> "none", id |-> CHOOSE i \in PsIds : TRUE, copy |-> PsNoPins,
     todo |-> {}, build |-> PsNone, open |-> "nothing", alone |-> TRUE]

PsInit ==
    /\ psLock = PsAbsent /\ psTemp = PsAbsent
    /\ psStore = [i \in PsIds |-> [v \in PsVersions |-> PsNone]]
    /\ psSource = [i \in PsIds |-> PsFirst]
    /\ psSelf = [o \in Op |-> PsIdle] /\ psMixed = FALSE /\ psClash = FALSE
    /\ psRun = 0 /\ psLeft = PsBudget

------------------------------------------------------------------------------
PsBecomes(o, self) == psSelf' = [psSelf EXCEPT ![o] = self]
PsGo(o, where) == psSelf' = [psSelf EXCEPT ![o].at = where]
PsEnd(o) == PsBecomes(o, PsIdle)
PsFault(kind) == kind \in PsFaults /\ psLeft > 0 /\ psLeft' = psLeft - 1
PsFails(o) == PsFault("call") /\ PsEnd(o)
PsAt(o, where) == psSelf[o].at = where
PsCurrent(o) == psStore[psSelf[o].id][PsVersion[psSelf[o].build]]

\* Commands that leave each other no certain outcome: two that write the lock
\* or the store, and a removal beside a run.
PsWrites(task) == task \notin {"none", "run"}
PsDisturbs(one, other) ==
    \/ PsWrites(one) /\ PsWrites(other)
    \/ {one, other} = {"run", "remove"}

PsBegin(o) ==
    /\ psSelf[o] = PsIdle /\ psRun < PsCommands /\ psRun' = psRun + 1
    /\ \E task \in PsTasks, id \in PsIds :
        LET disturbed(p) == PsDisturbs(task, psSelf[p].task)
            self == [PsIdle EXCEPT !.task = task, !.id = id,
                        !.at = CASE task = "install" -> "probing" [] OTHER -> "loading",
                        !.alone = \A p \in Op : ~disturbed(p)]
        IN psSelf' = [p \in Op |->
                IF p = o THEN self ELSE [psSelf[p] EXCEPT !.alone = @ /\ ~disturbed(p)]]
            /\ psMixed' = (psMixed \/ \E p \in Op : PsWrites(task) /\ PsWrites(psSelf[p].task))
    /\ UNCHANGED <<psLock, psTemp, psStore, psSource, psClash, psLeft>>

------------------------------------------------------------------------------
(* The lock, read and written.                                             *)

\* What load_lock_or_default makes of it: absent is empty, and what cannot be
\* parsed is an error.
PsReadable == psLock \in PsPins \union {PsAbsent}
PsLoaded == IF psLock = PsAbsent THEN PsNoPins ELSE psLock

\* Where a command goes from the lock it has loaded; "idle" is a refusal or
\* nothing to do.
PsRoute(o, lock) ==
    LET pinned == lock[psSelf[o].id] # PsNone IN
    CASE psSelf[o].task = "init" -> IF psLock = PsAbsent THEN "opening" ELSE "idle"
      [] psSelf[o].task = "install" -> IF pinned THEN "idle" ELSE "fetching"
      [] psSelf[o].task = "update" -> IF pinned THEN "probing" ELSE "idle"
      [] psSelf[o].task = "remove" -> IF pinned THEN "removing" ELSE "idle"
      [] psSelf[o].task = "sync" -> "next"
      [] psSelf[o].task = "run" -> IF pinned THEN "checking" ELSE "idle"

PsLoad(o) ==
    /\ PsAt(o, "loading")
    /\ IF PsReadable /\ PsRoute(o, PsLoaded) # "idle"
       THEN PsBecomes(o, [psSelf[o] EXCEPT !.at = PsRoute(o, PsLoaded), !.copy = PsLoaded,
                !.todo = {i \in PsIds : PsLoaded[i] # PsNone},
                !.build = IF @ = PsNone THEN PsLoaded[psSelf[o].id] ELSE @])
       ELSE PsEnd(o)
    /\ UNCHANGED <<psLock, psTemp, psStore, psSource, psMixed, psClash, psRun, psLeft>>

\* save: the temporary file has one name for everybody; it is opened and
\* truncated ...
PsOpen(o) ==
    /\ PsAt(o, "opening") /\ psTemp' = PsEmpty
    /\ PsBecomes(o, [psSelf[o] EXCEPT !.at = "writing", !.open = "temp"])
    /\ psClash' = (psClash \/ \E p \in Op \ {o} : psSelf[p].open = "temp")
    /\ UNCHANGED <<psLock, psStore, psSource, psMixed, psRun, psLeft>>

\* ... written, where another's text may be already ...
PsOver(o, file) ==
    IF file \in {PsEmpty, psSelf[o].copy} THEN {psSelf[o].copy} ELSE {psSelf[o].copy, PsTorn}

PsWrite(o) ==
    /\ PsAt(o, "writing")
    /\ \/ /\ psSelf[o].open = "temp" /\ psTemp' \in PsOver(o, psTemp) /\ UNCHANGED psLock
          /\ PsGo(o, "renaming") /\ UNCHANGED psLeft
       \/ /\ psSelf[o].open = "lock" /\ psLock' \in PsOver(o, psLock) /\ UNCHANGED psTemp
          /\ PsGo(o, "renaming") /\ UNCHANGED psLeft
       \/ /\ psSelf[o].open = "replaced" /\ UNCHANGED <<psTemp, psLock>>
          /\ PsGo(o, "renaming") /\ UNCHANGED psLeft
       \/ PsFails(o) /\ UNCHANGED <<psTemp, psLock>>
    /\ UNCHANGED <<psStore, psSource, psMixed, psClash, psRun>>

\* Mutant of PsRename: the file is written in place.
PsRenameNot(o) ==
    /\ PsAt(o, "renaming")
    /\ psLock' \in PsOver(o, PsEmpty) \union {PsEmpty} /\ psTemp' = PsAbsent
    /\ PsGo(o, "done")
    /\ UNCHANGED <<psStore, psSource, psMixed, psClash, psRun, psLeft>>

\* ... and renamed: who has it open now writes into the lock itself.
PsRename(o) ==
    /\ PsAt(o, "renaming")
    /\ \/ /\ psTemp # PsAbsent /\ psLock' = psTemp /\ psTemp' = PsAbsent
          /\ psSelf' = [p \in Op |->
                IF p = o THEN [psSelf[o] EXCEPT !.at = "done", !.open = "nothing"]
                ELSE [psSelf[p] EXCEPT !.open =
                        CASE @ = "temp" -> "lock" [] @ = "lock" -> "replaced" [] OTHER -> @]]
          /\ UNCHANGED psLeft
       \/ psTemp = PsAbsent /\ PsEnd(o) /\ UNCHANGED <<psLock, psTemp, psLeft>>
       \/ PsFails(o) /\ UNCHANGED <<psLock, psTemp>>
    /\ UNCHANGED <<psStore, psSource, psMixed, psClash, psRun>>

------------------------------------------------------------------------------
(* A build, probed, fetched and placed in the store.                       *)

\* inspect_source: a copy is run for its manifest and its checksum is taken.
PsProbe(o) ==
    /\ PsAt(o, "probing")
    /\ \/ /\ PsBecomes(o, [psSelf[o] EXCEPT !.build = psSource[psSelf[o].id],
                !.at = IF psSelf[o].task = "install" THEN "loading" ELSE "fetching"])
          /\ UNCHANGED psLeft
       \/ PsFails(o)
    /\ UNCHANGED <<psLock, psTemp, psStore, psSource, psMixed, psClash, psRun>>

\* sync goes through the pins of its copy in their order.
PsFollowing(o) == CHOOSE i \in psSelf[o].todo : TRUE
PsTakeNext(o) ==
    /\ PsAt(o, "next")
    /\ IF psSelf[o].todo = {} THEN PsGo(o, "done")
       ELSE PsBecomes(o, [psSelf[o] EXCEPT !.at = "fetching", !.id = PsFollowing(o),
                !.build = psSelf[o].copy[PsFollowing(o)], !.todo = @ \ {PsFollowing(o)}])
    /\ UNCHANGED <<psLock, psTemp, psStore, psSource, psMixed, psClash, psRun, psLeft>>

\* After the store has the build: the next one, or the lock with its pin.
PsStored(o) ==
    PsBecomes(o, IF psSelf[o].task = "sync" THEN [psSelf[o] EXCEPT !.at = "next"]
                 ELSE [psSelf[o] EXCEPT !.at = "opening", !.copy[psSelf[o].id] = psSelf[o].build])

\* PluginStore::install: nothing to do if it is there with its checksum; what
\* the source offers now must have the checksum that was pinned.
PsFetch(o) ==
    /\ PsAt(o, "fetching")
    /\ \/ PsCurrent(o) = psSelf[o].build /\ PsStored(o) /\ UNCHANGED psLeft
       \/ /\ PsCurrent(o) # psSelf[o].build /\ UNCHANGED psLeft
          /\ IF psSource[psSelf[o].id] = psSelf[o].build THEN PsGo(o, "placing") ELSE PsEnd(o)
       \/ PsFails(o)
    /\ UNCHANGED <<psLock, psTemp, psStore, psSource, psMixed, psClash, psRun>>

\* Mutant of PsLookAt: another build of the same version is replaced.
PsLookAtNothing(o) ==
    /\ PsAt(o, "placing") /\ PsGo(o, "moving")
    /\ UNCHANGED <<psLock, psTemp, psStore, psSource, psMixed, psClash, psRun, psLeft>>

\* Another build that is there is never replaced ...
PsLookAt(o) ==
    /\ PsAt(o, "placing")
    /\ IF PsCurrent(o) = PsNone THEN PsGo(o, "moving") ELSE PsEnd(o)
    /\ UNCHANGED <<psLock, psTemp, psStore, psSource, psMixed, psClash, psRun, psLeft>>

\* ... unless it came since.
PsMove(o) ==
    /\ PsAt(o, "moving")
    /\ \/ /\ psStore' = [psStore EXCEPT ![psSelf[o].id][PsVersion[psSelf[o].build]] = psSelf[o].build]
          /\ PsStored(o) /\ UNCHANGED psLeft
       \/ PsFails(o) /\ UNCHANGED psStore
    /\ UNCHANGED <<psLock, psTemp, psSource, psMixed, psClash, psRun>>

\* PluginStore::remove takes the directory of the version, and with it the
\* download of whoever is installing there, whose rename fails.
PsRemove(o) ==
    LET here(p) == psSelf[p].id = psSelf[o].id /\ psSelf[p].at \in {"placing", "moving"}
                   /\ PsVersion[psSelf[p].build] = PsVersion[psSelf[o].build]
    IN  /\ PsAt(o, "removing")
        /\ \/ /\ psStore' = [psStore EXCEPT ![psSelf[o].id][PsVersion[psSelf[o].build]] = PsNone]
              /\ psSelf' = [p \in Op |->
                    IF p = o THEN [psSelf[o] EXCEPT !.at = "opening", !.copy[psSelf[o].id] = PsNone]
                    ELSE IF here(p) THEN PsIdle ELSE psSelf[p]]
              /\ UNCHANGED psLeft
           \/ PsFails(o) /\ UNCHANGED psStore
        /\ UNCHANGED <<psLock, psTemp, psSource, psMixed, psClash, psRun>>

------------------------------------------------------------------------------
(* A plugin is run, and the others.                                        *)

\* resolve: the executable must have the checksum that is pinned.
PsVerify(o) ==
    /\ PsAt(o, "checking")
    /\ IF PsCurrent(o) = psSelf[o].build THEN PsGo(o, "starting") ELSE PsEnd(o)
    /\ UNCHANGED <<psLock, psTemp, psStore, psSource, psMixed, psClash, psRun, psLeft>>

\* spawn: what is there now is run; the handshake shows only its version.
PsStart(o) ==
    /\ PsAt(o, "starting")
    /\ \/ PsCurrent(o) # PsNone /\ PsBecomes(o, [psSelf[o] EXCEPT !.at = "running", !.build = PsCurrent(o)])
          /\ UNCHANGED psLeft
       \/ PsCurrent(o) = PsNone /\ PsEnd(o) /\ UNCHANGED psLeft
       \/ PsFails(o)
    /\ UNCHANGED <<psLock, psTemp, psStore, psSource, psMixed, psClash, psRun>>

PsFinish(o) ==
    /\ psSelf[o].at \in {"running", "done"} /\ PsEnd(o)
    /\ UNCHANGED <<psLock, psTemp, psStore, psSource, psMixed, psClash, psRun, psLeft>>

PsDie(o) ==
    /\ psSelf[o].at \notin {"idle", "running", "done"} /\ PsFault("die") /\ PsEnd(o)
    /\ UNCHANGED <<psLock, psTemp, psStore, psSource, psMixed, psClash, psRun>>

\* The author of a plugin publishes the next build at its source.
PsPublish ==
    /\ PsFault("publish")
    /\ \E i \in PsIds : psSource[i] + 1 \in PsBuilds /\ psSource' = [psSource EXCEPT ![i] = @ + 1]
    /\ UNCHANGED <<psLock, psTemp, psStore, psSelf, psMixed, psClash, psRun>>

PsNext ==
    \/ \E o \in Op :
        \/ PsBegin(o) \/ PsLoad(o) \/ PsOpen(o) \/ PsWrite(o) \/ PsRename(o) \/ PsProbe(o)
        \/ PsTakeNext(o) \/ PsFetch(o) \/ PsLookAt(o) \/ PsMove(o) \/ PsRemove(o)
        \/ PsVerify(o) \/ PsStart(o) \/ PsFinish(o) \/ PsDie(o)
    \/ PsPublish
PsSpec == PsInit /\ [][PsNext]_psVars

------------------------------------------------------------------------------
PsTypeOK ==
    /\ psLock \in PsPins \union {PsAbsent, PsEmpty, PsTorn}
    /\ psTemp \in PsPins \union {PsAbsent, PsEmpty, PsTorn}
    /\ psStore \in [PsIds -> [PsVersions -> PsBuilds \union {PsNone}]]
    /\ psSource \in [PsIds -> PsBuilds]
    /\ psSelf \in [Op -> [at : {"idle", "loading", "opening", "writing", "renaming", "probing", "next",
                                "fetching", "placing", "moving", "removing", "checking", "starting",
                                "running", "done"},
                          task : PsTasks \union {"none"}, id : PsIds, copy : PsPins,
                          todo : SUBSET PsIds, build : PsBuilds \union {PsNone},
                          open : {"nothing", "temp", "lock", "replaced"}, alone : BOOLEAN]]
    /\ psMixed \in BOOLEAN /\ psClash \in BOOLEAN
    /\ psRun \in 0..PsCommands /\ psLeft \in 0..PsBudget

\* What runs under the name of a plugin is the build that was pinned for it,
\* however its source, the lock and the store change meanwhile, unless it is
\* just being removed or two commands write at once (docs/product-spec.md: "Core validates the manifest,
\* checksum, ... before execution").
PsRunsWhatIsPinned ==
    \A o \in Op : PsAt(o, "running") /\ psSelf[o].alone /\ ~psMixed =>
        psSelf[o].build = psSelf[o].copy[psSelf[o].id]

\* A command that succeeds has made the lock and the store what it says, if no
\* other changed them meanwhile; and whatever dies, the lock can always be
\* read, unless two processes were writing it at the same moment.
PsAnswersAreTrue ==
    /\ PsReadable \/ psClash
    /\ \A o \in Op : PsAt(o, "done") /\ psSelf[o].alone /\ ~psClash =>
        /\ psLock \in {PsAbsent, psSelf[o].copy} /\ PsLoaded = psSelf[o].copy
        /\ psSelf[o].task = "sync" =>
            \A i \in PsIds : PsLoaded[i] # PsNone => psStore[i][PsVersion[PsLoaded[i]]] = PsLoaded[i]
        /\ psSelf[o].task \in {"install", "update"} =>
            psStore[psSelf[o].id][PsVersion[psSelf[o].build]] = psSelf[o].build
==============================================================================
