------------------------- MODULE UnlockedFilesProofs -------------------------
(***************************************************************************)
(* The files that no lock covers, under any number of commands and faults: *)
(* lightrail.lock with the store of plugins, lightrail.toml with the       *)
(* environments that it leads to, and the keyring with the index of its    *)
(* secrets.                                                                *)
(***************************************************************************)
EXTENDS PluginStore, ProjectFile, SecretStore, FiniteSetTheorems, TLAPS

------------------------------------------------------------------------------
(* The plugin store: the invariant.                                        *)

PsPlaces == {"idle", "loading", "opening", "writing", "renaming", "probing", "next", "fetching",
             "placing", "moving", "removing", "checking", "starting", "running", "done"}
PsSelves == [at : PsPlaces, task : PsTasks \union {"none"}, id : PsIds, copy : PsPins,
             todo : SUBSET PsIds, build : PsBuilds \union {PsNone},
             open : {"nothing", "temp", "lock", "replaced"}, alone : BOOLEAN]

\* What a process is doing fits its command, and it knows the build it deals with.
PsFits(o) ==
    LET self == psSelf[o] IN
    /\ self.at \in {"checking", "starting", "running"} => self.task = "run"
    /\ self.at = "removing" => self.task = "remove"
    /\ self.at \in {"opening", "writing", "renaming", "probing", "next", "fetching", "placing",
                    "moving"} => PsWrites(self.task)
    /\ self.at = "next" => self.task = "sync"
    /\ self.at \in {"fetching", "placing", "moving", "removing", "checking", "starting", "running"}
        => self.build # PsNone
    /\ self.at = "loading" => self.task # "none" /\ (self.task = "install" <=> self.build # PsNone)
    /\ self.task = "sync" => \A i \in self.todo : self.copy[i] # PsNone

\* Unless two have overlapped, one command writes; a run that is alone runs
\* beside no removal.
PsApart ==
    /\ ~psMixed => \A p, q \in Op :
        PsWrites(psSelf[p].task) /\ PsWrites(psSelf[q].task) => p = q
    /\ \A o, p \in Op :
        psSelf[o].task = "run" /\ psSelf[o].alone => psSelf[p].task # "remove"

\* Who is about to move a build into the store found the place empty; a run has
\* the pinned build, which is in the store once it was verified.
PsPlaced(o) ==
    /\ PsAt(o, "moving") /\ ~psMixed => PsCurrent(o) = PsNone
    /\ psSelf[o].at \in {"checking", "starting"} => psSelf[o].build = psSelf[o].copy[psSelf[o].id]
    /\ PsAt(o, "starting") /\ psSelf[o].alone /\ ~psMixed => PsCurrent(o) = psSelf[o].build
    /\ PsAt(o, "running") /\ psSelf[o].alone /\ ~psMixed =>
        psSelf[o].build = psSelf[o].copy[psSelf[o].id]

PsIInv == PsTypeOK /\ PsApart /\ \A o \in Op : PsFits(o) /\ PsPlaced(o)

------------------------------------------------------------------------------
(* The plugin store: a process and its fields.                             *)

PsOf(at, task, id, copy, todo, build, open, alone) ==
    [at |-> at, task |-> task, id |-> id, copy |-> copy, todo |-> todo, build |-> build,
     open |-> open, alone |-> alone]

PsWithAt(x, v) == [x EXCEPT !.at = v]
PsWithTask(x, v) == [x EXCEPT !.task = v]
PsWithId(x, v) == [x EXCEPT !.id = v]
PsWithCopy(x, v) == [x EXCEPT !.copy = v]
PsWithTodo(x, v) == [x EXCEPT !.todo = v]
PsWithBuild(x, v) == [x EXCEPT !.build = v]
PsWithOpen(x, v) == [x EXCEPT !.open = v]
PsWithAlone(x, v) == [x EXCEPT !.alone = v]

\* A process is its fields.
LEMMA PsWhole ==
    ASSUME NEW x \in PsSelves
    PROVE  x = PsOf(x.at, x.task, x.id, x.copy, x.todo, x.build, x.open, x.alone)
BY DEF PsSelves, PsOf

\* Each update of one field leaves the others.
LEMMA PsUpdates ==
    ASSUME NEW a, NEW t, NEW i, NEW c, NEW d, NEW b, NEW p, NEW l, NEW v
    PROVE  /\ PsWithAt(PsOf(a, t, i, c, d, b, p, l), v) = PsOf(v, t, i, c, d, b, p, l)
           /\ PsWithTask(PsOf(a, t, i, c, d, b, p, l), v) = PsOf(a, v, i, c, d, b, p, l)
           /\ PsWithId(PsOf(a, t, i, c, d, b, p, l), v) = PsOf(a, t, v, c, d, b, p, l)
           /\ PsWithCopy(PsOf(a, t, i, c, d, b, p, l), v) = PsOf(a, t, i, v, d, b, p, l)
           /\ PsWithTodo(PsOf(a, t, i, c, d, b, p, l), v) = PsOf(a, t, i, c, v, b, p, l)
           /\ PsWithBuild(PsOf(a, t, i, c, d, b, p, l), v) = PsOf(a, t, i, c, d, v, p, l)
           /\ PsWithOpen(PsOf(a, t, i, c, d, b, p, l), v) = PsOf(a, t, i, c, d, b, v, l)
           /\ PsWithAlone(PsOf(a, t, i, c, d, b, p, l), v) = PsOf(a, t, i, c, d, b, p, v)
<1>1. PsWithAt(PsOf(a, t, i, c, d, b, p, l), v) = PsOf(v, t, i, c, d, b, p, l)
  BY DEF PsWithAt, PsOf
<1>2. PsWithTask(PsOf(a, t, i, c, d, b, p, l), v) = PsOf(a, v, i, c, d, b, p, l)
  BY DEF PsWithTask, PsOf
<1>3. PsWithId(PsOf(a, t, i, c, d, b, p, l), v) = PsOf(a, t, v, c, d, b, p, l)
  BY DEF PsWithId, PsOf
<1>4. PsWithCopy(PsOf(a, t, i, c, d, b, p, l), v) = PsOf(a, t, i, v, d, b, p, l)
  BY DEF PsWithCopy, PsOf
<1>5. PsWithTodo(PsOf(a, t, i, c, d, b, p, l), v) = PsOf(a, t, i, c, v, b, p, l)
  BY DEF PsWithTodo, PsOf
<1>6. PsWithBuild(PsOf(a, t, i, c, d, b, p, l), v) = PsOf(a, t, i, c, d, v, p, l)
  BY DEF PsWithBuild, PsOf
<1>7. PsWithOpen(PsOf(a, t, i, c, d, b, p, l), v) = PsOf(a, t, i, c, d, b, v, l)
  BY DEF PsWithOpen, PsOf
<1>8. PsWithAlone(PsOf(a, t, i, c, d, b, p, l), v) = PsOf(a, t, i, c, d, b, p, v)
  BY DEF PsWithAlone, PsOf
<1> QED BY <1>1, <1>2, <1>3, <1>4, <1>5, <1>6, <1>7, <1>8

\* One process becomes another, and nobody else changes.
LEMMA PsBecoming ==
    ASSUME psSelf \in [Op -> PsSelves], NEW o \in Op, NEW x, PsBecomes(o, x)
    PROVE  psSelf'[o] = x /\ \A p \in Op : p # o => psSelf'[p] = psSelf[p]
BY DEF PsBecomes

\* It goes on and no more.
LEMMA PsGoing ==
    ASSUME psSelf \in [Op -> PsSelves], NEW o \in Op, NEW where, PsGo(o, where)
    PROVE  /\ psSelf'[o] = PsWithAt(psSelf[o], where)
           /\ \A p \in Op : p # o => psSelf'[p] = psSelf[p]
BY DEF PsGo, PsWithAt

------------------------------------------------------------------------------
(* The plugin store: what a step does to its process.                      *)

PsElse(o) == \A p \in Op : p # o => psSelf'[p] = psSelf[p]

\* The process is at one place with these fields, and still runs its command.
PsTurns(o, at, id, copy, todo, build, open) ==
    psSelf'[o] = PsOf(at, psSelf[o].task, id, copy, todo, build, open, psSelf[o].alone)

\* It goes on, as it is.
PsMovesOn(o, at) ==
    PsTurns(o, at, psSelf[o].id, psSelf[o].copy, psSelf[o].todo, psSelf[o].build, psSelf[o].open)

\* A process that goes on keeps its other fields.
LEMMA PsGoes ==
    ASSUME psSelf \in [Op -> PsSelves], NEW o \in Op, NEW where, PsGo(o, where)
    PROVE  PsMovesOn(o, where) /\ PsElse(o)
<1>1. psSelf[o] \in PsSelves
  OBVIOUS
<1> DEFINE x == psSelf[o]
<1>2. PsWithAt(PsOf(x.at, x.task, x.id, x.copy, x.todo, x.build, x.open, x.alone), where)
        = PsOf(where, x.task, x.id, x.copy, x.todo, x.build, x.open, x.alone)
  BY PsUpdates
<1>3. PsWithAt(x, where) = PsOf(where, x.task, x.id, x.copy, x.todo, x.build, x.open, x.alone)
  BY <1>1, <1>2, PsWhole
<1> QED BY <1>3, PsGoing DEF PsMovesOn, PsTurns, PsElse

\* A process that ends is idle.
LEMMA PsEnds ==
    ASSUME psSelf \in [Op -> PsSelves], NEW o \in Op, PsEnd(o)
    PROVE  psSelf'[o] = PsIdle /\ PsElse(o)
BY PsBecoming DEF PsEnd, PsElse

\* What the lock says is read into the process.
LEMMA PsLoads ==
    ASSUME psSelf \in [Op -> PsSelves], NEW o \in Op, PsLoad(o)
    PROVE  /\ PsElse(o)
           /\ \/ psSelf'[o] = PsIdle
              \/ /\ PsReadable /\ PsRoute(o, PsLoaded) # "idle"
                 /\ PsTurns(o, PsRoute(o, PsLoaded), psSelf[o].id, PsLoaded,
                            {i \in PsIds : PsLoaded[i] # PsNone},
                            IF psSelf[o].build = PsNone THEN PsLoaded[psSelf[o].id]
                            ELSE psSelf[o].build, psSelf[o].open)
<1> DEFINE x == psSelf[o]
           w == PsRoute(o, PsLoaded)
           t == {i \in PsIds : PsLoaded[i] # PsNone}
           b == IF x.build = PsNone THEN PsLoaded[x.id] ELSE x.build
<1>1. CASE PsEnd(o)
  BY <1>1, PsEnds
<1>2. CASE ~PsEnd(o)
  <2> DEFINE y == PsWithTodo(PsWithCopy(PsWithAt(x, w), PsLoaded), t)
             z == PsWithBuild(y, IF y.build = PsNone THEN PsLoaded[x.id] ELSE y.build)
  <2>1. PsReadable /\ w # "idle" /\ PsBecomes(o, z)
    BY <1>2 DEF PsLoad, PsWithAt, PsWithCopy, PsWithTodo, PsWithBuild
  <2>2. x = PsOf(x.at, x.task, x.id, x.copy, x.todo, x.build, x.open, x.alone)
    BY PsWhole
  <2>3. PsWithAt(x, w) = PsOf(w, x.task, x.id, x.copy, x.todo, x.build, x.open, x.alone)
    BY <2>2, PsUpdates
  <2>4. PsWithCopy(PsWithAt(x, w), PsLoaded)
            = PsOf(w, x.task, x.id, PsLoaded, x.todo, x.build, x.open, x.alone)
    BY <2>3, PsUpdates
  <2>5. y = PsOf(w, x.task, x.id, PsLoaded, t, x.build, x.open, x.alone)
    BY <2>4, PsUpdates
  <2>6. y.build = x.build
    BY <2>5 DEF PsOf
  <2>7. z = PsOf(w, x.task, x.id, PsLoaded, t, b, x.open, x.alone)
    BY <2>5, <2>6, PsUpdates
  <2> QED BY <2>1, <2>7, PsBecoming DEF PsTurns, PsElse
<1> QED BY <1>1, <1>2

\* The temporary file is opened.
LEMMA PsOpens ==
    ASSUME psSelf \in [Op -> PsSelves], NEW o \in Op, PsOpen(o)
    PROVE  /\ PsElse(o)
           /\ PsTurns(o, "writing", psSelf[o].id, psSelf[o].copy, psSelf[o].todo, psSelf[o].build,
                      "temp")
<1> DEFINE x == psSelf[o]
<1>1. PsBecomes(o, PsWithOpen(PsWithAt(x, "writing"), "temp"))
  BY DEF PsOpen, PsWithAt, PsWithOpen
<1>2. x = PsOf(x.at, x.task, x.id, x.copy, x.todo, x.build, x.open, x.alone)
  BY PsWhole
<1>3. PsWithAt(x, "writing") = PsOf("writing", x.task, x.id, x.copy, x.todo, x.build, x.open, x.alone)
  BY <1>2, PsUpdates
<1>4. PsWithOpen(PsWithAt(x, "writing"), "temp")
        = PsOf("writing", x.task, x.id, x.copy, x.todo, x.build, "temp", x.alone)
  BY <1>3, PsUpdates
<1> QED BY <1>1, <1>4, PsBecoming DEF PsTurns, PsElse

\* A rename leaves to the others another file under their hands.
LEMMA PsRenames ==
    ASSUME psSelf \in [Op -> PsSelves], NEW o \in Op, PsRename(o)
    PROVE  \/ psSelf'[o] = PsIdle /\ PsElse(o)
           \/ /\ PsTurns(o, "done", psSelf[o].id, psSelf[o].copy, psSelf[o].todo, psSelf[o].build,
                         "nothing")
              /\ \A p \in Op : p # o => \E open \in {"nothing", "temp", "lock", "replaced"} :
                    PsTurns(p, psSelf[p].at, psSelf[p].id, psSelf[p].copy, psSelf[p].todo,
                            psSelf[p].build, open)
<1>1. CASE PsEnd(o)
  BY <1>1, PsEnds
<1>2. CASE ~PsEnd(o)
  <2> DEFINE Open(x) == CASE x.open = "temp" -> "lock" [] x.open = "lock" -> "replaced"
                          [] OTHER -> x.open
  <2>1. psSelf' = [p \in Op |->
            IF p = o THEN PsWithOpen(PsWithAt(psSelf[o], "done"), "nothing")
            ELSE PsWithOpen(psSelf[p], Open(psSelf[p]))]
    BY <1>2 DEF PsRename, PsFails, PsWithAt, PsWithOpen
  <2>2. ASSUME NEW p \in Op, NEW v
        PROVE  PsWithOpen(psSelf[p], v) = PsOf(psSelf[p].at, psSelf[p].task, psSelf[p].id,
                    psSelf[p].copy, psSelf[p].todo, psSelf[p].build, v, psSelf[p].alone)
    <3>1. psSelf[p] = PsOf(psSelf[p].at, psSelf[p].task, psSelf[p].id,
                    psSelf[p].copy, psSelf[p].todo, psSelf[p].build, psSelf[p].open, psSelf[p].alone)
      BY PsWhole
    <3> QED BY <3>1, PsUpdates
  <2>3. ASSUME NEW p \in Op, p # o
        PROVE  \E open \in {"nothing", "temp", "lock", "replaced"} :
                    PsTurns(p, psSelf[p].at, psSelf[p].id, psSelf[p].copy, psSelf[p].todo,
                            psSelf[p].build, open)
    <3>1. psSelf'[p] = PsWithOpen(psSelf[p], Open(psSelf[p]))
      BY <2>1, <2>3
    <3>2. Open(psSelf[p]) \in {"nothing", "temp", "lock", "replaced"}
      BY DEF PsSelves
    <3>3. PsTurns(p, psSelf[p].at, psSelf[p].id, psSelf[p].copy, psSelf[p].todo,
                  psSelf[p].build, Open(psSelf[p]))
      BY <2>2, <3>1 DEF PsTurns
    <3> QED BY <3>2, <3>3
  <2>4. PsTurns(o, "done", psSelf[o].id, psSelf[o].copy, psSelf[o].todo, psSelf[o].build, "nothing")
    <3> DEFINE x == psSelf[o]
    <3>1. x = PsOf(x.at, x.task, x.id, x.copy, x.todo, x.build, x.open, x.alone)
      BY PsWhole
    <3>2. PsWithAt(x, "done") = PsOf("done", x.task, x.id, x.copy, x.todo, x.build, x.open, x.alone)
      BY <3>1, PsUpdates
    <3>3. PsWithOpen(PsWithAt(x, "done"), "nothing")
            = PsOf("done", x.task, x.id, x.copy, x.todo, x.build, "nothing", x.alone)
      BY <3>2, PsUpdates
    <3> QED BY <2>1, <3>3 DEF PsTurns
  <2> QED BY <2>3, <2>4
<1> QED BY <1>1, <1>2

\* A source is probed.
LEMMA PsProbes ==
    ASSUME psSelf \in [Op -> PsSelves], NEW o \in Op, PsProbe(o)
    PROVE  /\ PsElse(o)
           /\ \/ psSelf'[o] = PsIdle
              \/ PsTurns(o, IF psSelf[o].task = "install" THEN "loading" ELSE "fetching",
                         psSelf[o].id, psSelf[o].copy, psSelf[o].todo, psSource[psSelf[o].id],
                         psSelf[o].open)
<1> DEFINE x == psSelf[o]
           w == IF x.task = "install" THEN "loading" ELSE "fetching"
           b == psSource[x.id]
<1>1. CASE PsEnd(o)
  BY <1>1, PsEnds
<1>2. CASE ~PsEnd(o)
  <2>1. PsBecomes(o, PsWithAt(PsWithBuild(x, b), w))
    BY <1>2 DEF PsProbe, PsFails, PsWithAt, PsWithBuild
  <2>2. x = PsOf(x.at, x.task, x.id, x.copy, x.todo, x.build, x.open, x.alone)
    BY PsWhole
  <2>3. PsWithBuild(x, b) = PsOf(x.at, x.task, x.id, x.copy, x.todo, b, x.open, x.alone)
    BY <2>2, PsUpdates
  <2>4. PsWithAt(PsWithBuild(x, b), w) = PsOf(w, x.task, x.id, x.copy, x.todo, b, x.open, x.alone)
    BY <2>3, PsUpdates
  <2> QED BY <2>1, <2>4, PsBecoming DEF PsTurns, PsElse
<1> QED BY <1>1, <1>2

\* The next pin of a sync.
LEMMA PsTakesNext ==
    ASSUME psSelf \in [Op -> PsSelves], NEW o \in Op, PsTakeNext(o)
    PROVE  /\ PsElse(o)
           /\ \/ psSelf[o].todo = {} /\ PsMovesOn(o, "done")
              \/ /\ PsFollowing(o) \in psSelf[o].todo
                 /\ PsTurns(o, "fetching", PsFollowing(o), psSelf[o].copy,
                            psSelf[o].todo \ {PsFollowing(o)},
                            psSelf[o].copy[PsFollowing(o)], psSelf[o].open)
<1> DEFINE x == psSelf[o]
           n == PsFollowing(o)
<1>1. CASE x.todo = {}
  BY <1>1, PsGoes DEF PsTakeNext
<1>2. CASE x.todo # {}
  <2> DEFINE y == PsWithBuild(PsWithId(PsWithAt(x, "fetching"), n), x.copy[n])
             z == PsWithTodo(y, y.todo \ {n})
  <2>1. PsBecomes(o, z)
    BY <1>2 DEF PsTakeNext, PsWithAt, PsWithId, PsWithBuild, PsWithTodo
  <2>2. x = PsOf(x.at, x.task, x.id, x.copy, x.todo, x.build, x.open, x.alone)
    BY PsWhole
  <2>3. PsWithAt(x, "fetching")
            = PsOf("fetching", x.task, x.id, x.copy, x.todo, x.build, x.open, x.alone)
    BY <2>2, PsUpdates
  <2>4. PsWithId(PsWithAt(x, "fetching"), n)
            = PsOf("fetching", x.task, n, x.copy, x.todo, x.build, x.open, x.alone)
    BY <2>3, PsUpdates
  <2>5. y = PsOf("fetching", x.task, n, x.copy, x.todo, x.copy[n], x.open, x.alone)
    BY <2>4, PsUpdates
  <2>6. y.todo = x.todo
    BY <2>5 DEF PsOf
  <2>7. z = PsOf("fetching", x.task, n, x.copy, x.todo \ {n}, x.copy[n], x.open, x.alone)
    BY <2>5, <2>6, PsUpdates
  <2>8. n \in x.todo
    BY <1>2 DEF PsFollowing
  <2> QED BY <2>1, <2>7, <2>8, PsBecoming DEF PsTurns, PsElse
<1> QED BY <1>1, <1>2

\* The pin of a process with another build for its plugin.
PsPinned(o, build) == [psSelf[o].copy EXCEPT ![psSelf[o].id] = build]

\* The store has the build.
LEMMA PsStores ==
    ASSUME psSelf \in [Op -> PsSelves], NEW o \in Op, PsStored(o)
    PROVE  /\ PsElse(o)
           /\ \/ psSelf[o].task = "sync" /\ PsMovesOn(o, "next")
              \/ /\ psSelf[o].task # "sync"
                 /\ PsTurns(o, "opening", psSelf[o].id, PsPinned(o, psSelf[o].build),
                            psSelf[o].todo, psSelf[o].build, psSelf[o].open)
<1> DEFINE x == psSelf[o]
           pinned == PsPinned(o, x.build)
<1>1. x = PsOf(x.at, x.task, x.id, x.copy, x.todo, x.build, x.open, x.alone)
  BY PsWhole
<1>2. CASE x.task = "sync"
  <2>1. PsBecomes(o, PsWithAt(x, "next"))
    BY <1>2 DEF PsStored, PsWithAt
  <2>2. PsWithAt(x, "next") = PsOf("next", x.task, x.id, x.copy, x.todo, x.build, x.open, x.alone)
    BY <1>1, PsUpdates
  <2> QED BY <1>2, <2>1, <2>2, PsBecoming DEF PsMovesOn, PsTurns, PsElse
<1>3. CASE x.task # "sync"
  <2> DEFINE y == PsWithAt(x, "opening")
             z == PsWithCopy(y, [y.copy EXCEPT ![x.id] = x.build])
  <2>1. PsBecomes(o, z)
    BY <1>3 DEF PsStored, PsWithAt, PsWithCopy
  <2>2. y = PsOf("opening", x.task, x.id, x.copy, x.todo, x.build, x.open, x.alone)
    BY <1>1, PsUpdates
  <2>3. y.copy = x.copy
    BY <2>2 DEF PsOf
  <2>4. [y.copy EXCEPT ![x.id] = x.build] = pinned
    BY <2>3 DEF PsPinned
  <2>5. z = PsOf("opening", x.task, x.id, pinned, x.todo, x.build, x.open, x.alone)
    BY <2>2, <2>4, PsUpdates
  <2> QED BY <1>3, <2>1, <2>5, PsBecoming DEF PsTurns, PsElse
<1> QED BY <1>2, <1>3

\* A plugin is removed, and with it what another was about to move there.
LEMMA PsRemoves ==
    ASSUME psSelf \in [Op -> PsSelves], NEW o \in Op, PsRemove(o)
    PROVE  \/ psSelf'[o] = PsIdle /\ PsElse(o) /\ psStore' = psStore
           \/ /\ PsTurns(o, "opening", psSelf[o].id, PsPinned(o, PsNone), psSelf[o].todo,
                         psSelf[o].build, psSelf[o].open)
              /\ \A p \in Op : p # o => psSelf'[p] \in {PsIdle, psSelf[p]}
              /\ psStore' = [psStore EXCEPT
                    ![psSelf[o].id][PsVersion[psSelf[o].build]] = PsNone]
<1> DEFINE x == psSelf[o]
           here(p) == psSelf[p].id = psSelf[o].id /\ psSelf[p].at \in {"placing", "moving"}
                      /\ PsVersion[psSelf[p].build] = PsVersion[psSelf[o].build]
           y == PsWithAt(x, "opening")
           z == PsWithCopy(y, [y.copy EXCEPT ![x.id] = PsNone])
<1>1. x = PsOf(x.at, x.task, x.id, x.copy, x.todo, x.build, x.open, x.alone)
  BY PsWhole
<1>2. CASE PsEnd(o) /\ psStore' = psStore
  BY <1>2, PsEnds
<1>3. CASE ~(PsEnd(o) /\ psStore' = psStore)
  <2>1. /\ psSelf' = [p \in Op |-> IF p = o THEN z ELSE IF here(p) THEN PsIdle ELSE psSelf[p]]
        /\ psStore' = [psStore EXCEPT ![psSelf[o].id][PsVersion[psSelf[o].build]] = PsNone]
    BY <1>3 DEF PsRemove, PsFails, PsWithAt, PsWithCopy
  <2>2. y = PsOf("opening", x.task, x.id, x.copy, x.todo, x.build, x.open, x.alone)
    BY <1>1, PsUpdates
  <2>3. y.copy = x.copy
    BY <2>2 DEF PsOf
  <2>4. [y.copy EXCEPT ![x.id] = PsNone] = PsPinned(o, PsNone)
    BY <2>3 DEF PsPinned
  <2>5. z = PsOf("opening", x.task, x.id, PsPinned(o, PsNone), x.todo, x.build, x.open, x.alone)
    BY <2>2, <2>4, PsUpdates
  <2>6. psSelf'[o] = z
    BY <2>1
  <2>7. \A p \in Op : p # o => psSelf'[p] \in {PsIdle, psSelf[p]}
    BY <2>1
  <2> QED BY <2>1, <2>5, <2>6, <2>7 DEF PsTurns
<1> QED BY <1>2, <1>3

\* A plugin is started.
LEMMA PsStarts ==
    ASSUME psSelf \in [Op -> PsSelves], NEW o \in Op, PsStart(o)
    PROVE  /\ PsElse(o)
           /\ \/ psSelf'[o] = PsIdle
              \/ /\ PsCurrent(o) # PsNone
                 /\ PsTurns(o, "running", psSelf[o].id, psSelf[o].copy, psSelf[o].todo,
                            PsCurrent(o), psSelf[o].open)
<1> DEFINE x == psSelf[o]
           b == PsCurrent(o)
<1>1. CASE PsEnd(o)
  BY <1>1, PsEnds
<1>2. CASE ~PsEnd(o)
  <2>1. b # PsNone /\ PsBecomes(o, PsWithBuild(PsWithAt(x, "running"), b))
    BY <1>2 DEF PsStart, PsFails, PsWithAt, PsWithBuild
  <2>2. x = PsOf(x.at, x.task, x.id, x.copy, x.todo, x.build, x.open, x.alone)
    BY PsWhole
  <2>3. PsWithAt(x, "running")
            = PsOf("running", x.task, x.id, x.copy, x.todo, x.build, x.open, x.alone)
    BY <2>2, PsUpdates
  <2>4. PsWithBuild(PsWithAt(x, "running"), b)
            = PsOf("running", x.task, x.id, x.copy, x.todo, b, x.open, x.alone)
    BY <2>3, PsUpdates
  <2> QED BY <2>1, <2>4, PsBecoming DEF PsTurns, PsElse
<1> QED BY <1>1, <1>2

\* A command is run, and those it disturbs are no longer alone.
LEMMA PsBegins ==
    ASSUME psSelf \in [Op -> PsSelves], NEW o \in Op, PsBegin(o)
    PROVE  \E task \in PsTasks, id \in PsIds :
            /\ \E alone \in BOOLEAN :
                /\ psSelf'[o] = PsOf(IF task = "install" THEN "probing" ELSE "loading", task, id,
                                     PsNoPins, {}, PsNone, "nothing", alone)
                /\ alone => \A p \in Op : ~PsDisturbs(task, psSelf[p].task)
            /\ \A p \in Op : p # o => \E alone \in BOOLEAN :
                /\ psSelf'[p] = PsOf(psSelf[p].at, psSelf[p].task, psSelf[p].id, psSelf[p].copy,
                                     psSelf[p].todo, psSelf[p].build, psSelf[p].open, alone)
                /\ alone => psSelf[p].alone /\ ~PsDisturbs(task, psSelf[p].task)
            /\ ~psMixed' => ~psMixed
                /\ \A p \in Op : ~(PsWrites(task) /\ PsWrites(psSelf[p].task))
<1> DEFINE x == PsIdle
           Where(task) == CASE task = "install" -> "probing" [] OTHER -> "loading"
           Alone(task) == \A p \in Op : ~PsDisturbs(task, psSelf[p].task)
           Begun(task, id) == PsWithAlone(PsWithAt(PsWithId(PsWithTask(x, task), id), Where(task)),
                                          Alone(task))
<1>1. PICK task \in PsTasks, id \in PsIds :
        /\ psSelf' = [p \in Op |-> IF p = o THEN Begun(task, id)
              ELSE PsWithAlone(psSelf[p], psSelf[p].alone /\ ~PsDisturbs(task, psSelf[p].task))]
        /\ psMixed' = (psMixed \/ \E p \in Op : PsWrites(task) /\ PsWrites(psSelf[p].task))
  BY DEF PsBegin, PsWithAt, PsWithId, PsWithTask, PsWithAlone
<1>2. \E alone \in BOOLEAN :
        /\ psSelf'[o] = PsOf(IF task = "install" THEN "probing" ELSE "loading", task, id,
                             PsNoPins, {}, PsNone, "nothing", alone)
        /\ alone => \A p \in Op : ~PsDisturbs(task, psSelf[p].task)
  <2> DEFINE l == x.alone
             alone == Alone(task)
             w == Where(task)
  <2>1. x = PsOf("idle", "none", x.id, PsNoPins, {}, PsNone, "nothing", l)
    BY DEF PsIdle, PsOf
  <2>2. psSelf'[o] = PsWithAlone(PsWithAt(PsWithId(PsWithTask(x, task), id), w), alone)
    BY <1>1
  <2>3. w = (IF task = "install" THEN "probing" ELSE "loading") /\ alone \in BOOLEAN
    OBVIOUS
  <2>4. alone => \A p \in Op : ~PsDisturbs(task, psSelf[p].task)
    OBVIOUS
  <2> HIDE DEF l, alone, w, x
  <2>5. PsWithTask(x, task) = PsOf("idle", task, x.id, PsNoPins, {}, PsNone, "nothing", l)
    BY <2>1, PsUpdates
  <2>6. PsWithId(PsWithTask(x, task), id)
            = PsOf("idle", task, id, PsNoPins, {}, PsNone, "nothing", l)
    BY <2>5, PsUpdates
  <2>7. PsWithAt(PsWithId(PsWithTask(x, task), id), w)
            = PsOf(w, task, id, PsNoPins, {}, PsNone, "nothing", l)
    BY <2>6, PsUpdates
  <2>8. psSelf'[o] = PsOf(w, task, id, PsNoPins, {}, PsNone, "nothing", alone)
    BY <2>2, <2>7, PsUpdates
  <2> QED BY <2>3, <2>4, <2>8
<1>3. ASSUME NEW p \in Op, p # o
      PROVE  \E alone \in BOOLEAN :
                /\ psSelf'[p] = PsOf(psSelf[p].at, psSelf[p].task, psSelf[p].id, psSelf[p].copy,
                                     psSelf[p].todo, psSelf[p].build, psSelf[p].open, alone)
                /\ alone => psSelf[p].alone /\ ~PsDisturbs(task, psSelf[p].task)
  <2> DEFINE alone == psSelf[p].alone /\ ~PsDisturbs(task, psSelf[p].task)
             y == psSelf[p]
  <2>1. y = PsOf(y.at, y.task, y.id, y.copy, y.todo, y.build, y.open, y.alone)
    BY PsWhole
  <2>2. PsWithAlone(y, alone) = PsOf(y.at, y.task, y.id, y.copy, y.todo, y.build, y.open, alone)
    BY <2>1, PsUpdates
  <2>3. psSelf'[p] = PsWithAlone(y, alone)
    BY <1>1, <1>3
  <2>4. alone \in BOOLEAN
    OBVIOUS
  <2> QED BY <2>2, <2>3, <2>4
<1>4. ~psMixed' => ~psMixed /\ \A p \in Op : ~(PsWrites(task) /\ PsWrites(psSelf[p].task))
  BY <1>1
<1> QED BY <1>2, <1>3, <1>4

------------------------------------------------------------------------------
(* The plugin store: types.                                                *)

PsStep(o) ==
    \/ PsBegin(o) \/ PsLoad(o) \/ PsOpen(o) \/ PsWrite(o) \/ PsRename(o) \/ PsProbe(o)
    \/ PsTakeNext(o) \/ PsFetch(o) \/ PsLookAt(o) \/ PsMove(o) \/ PsRemove(o)
    \/ PsVerify(o) \/ PsStart(o) \/ PsFinish(o) \/ PsDie(o)

\* What there is to start from.
LEMMA PsFirsts ==
    /\ PsNone \in PsBuilds \union {PsNone} /\ PsNone \notin PsBuilds /\ PsFirst \in PsBuilds
    /\ PsNoPins \in PsPins /\ PsIdle \in PsSelves
    /\ \A b \in PsBuilds : PsVersion[b] \in PsVersions
<1>1. PsNone \in PsBuilds \union {PsNone} /\ PsNone \notin PsBuilds
  BY PsAssumption DEF PsAssumption, PsNone
<1>2. PsFirst \in PsBuilds
  BY PsAssumption DEF PsAssumption, PsFirst
<1>3. PsNoPins \in PsPins
  BY <1>1 DEF PsNoPins, PsPins
<1>4. (CHOOSE i \in PsIds : TRUE) \in PsIds
  BY PsAssumption DEF PsAssumption
<1>5. PsIdle \in PsSelves
  BY <1>1, <1>3, <1>4 DEF PsIdle, PsSelves, PsPlaces
<1> QED BY <1>1, <1>2, <1>3, <1>5 DEF PsVersions

\* Where a command goes from the lock it has read.
LEMMA PsRoutes ==
    ASSUME NEW o \in Op, psSelf[o].task \in PsTasks \union {"none"}, psSelf[o].task # "none"
    PROVE  PsRoute(o, PsLoaded) \in {"idle", "opening", "fetching", "probing", "removing", "next",
                                     "checking"}
BY PsAssumption DEF PsRoute, PsAssumption

\* Every process but the one that takes a step is itself still, or ends with
\* the download that was removed under it.
PsLike(p) ==
    /\ psSelf'[p] \in PsSelves
    /\ psSelf'[p] = PsIdle \/
        /\ psSelf'[p].at = psSelf[p].at /\ psSelf'[p].task = psSelf[p].task
        /\ psSelf'[p].id = psSelf[p].id /\ psSelf'[p].copy = psSelf[p].copy
        /\ psSelf'[p].todo = psSelf[p].todo /\ psSelf'[p].build = psSelf[p].build
        /\ psSelf'[p].alone => psSelf[p].alone

\* Nobody changes more of another process than that.
LEMMA PsOthers ==
    ASSUME psSelf \in [Op -> PsSelves], NEW o \in Op, PsStep(o), NEW p \in Op, p # o
    PROVE  PsLike(p)
<1>1. psSelf[p] \in PsSelves
  OBVIOUS
<1>2. psSelf'[p] = psSelf[p] => PsLike(p)
  BY <1>1 DEF PsLike
<1>3. psSelf'[p] = PsIdle => PsLike(p)
  BY PsFirsts DEF PsLike
<1>4. CASE PsBegin(o)
  <2>1. PICK alone \in BOOLEAN :
            /\ psSelf'[p] = PsOf(psSelf[p].at, psSelf[p].task, psSelf[p].id, psSelf[p].copy,
                                 psSelf[p].todo, psSelf[p].build, psSelf[p].open, alone)
            /\ alone => psSelf[p].alone
    BY <1>4, PsBegins
  <2> QED BY <1>1, <2>1 DEF PsLike, PsOf, PsSelves
<1>5. CASE PsRename(o)
  <2>1. CASE psSelf'[p] = psSelf[p]
    BY <1>2, <2>1
  <2>2. CASE psSelf'[p] # psSelf[p]
    <3>1. PICK open \in {"nothing", "temp", "lock", "replaced"} :
                PsTurns(p, psSelf[p].at, psSelf[p].id, psSelf[p].copy, psSelf[p].todo,
                        psSelf[p].build, open)
      BY <1>5, <2>2, PsRenames DEF PsElse
    <3> QED BY <1>1, <3>1 DEF PsLike, PsTurns, PsOf, PsSelves
  <2> QED BY <2>1, <2>2
<1>6. CASE PsRemove(o)
  BY <1>2, <1>3, <1>6, PsRemoves DEF PsElse
<1>7. CASE PsElse(o)
  BY <1>2, <1>7 DEF PsElse
<1>8. CASE PsLoad(o) \/ PsOpen(o) \/ PsProbe(o) \/ PsTakeNext(o) \/ PsStart(o)
  BY <1>7, <1>8, PsLoads, PsOpens, PsProbes, PsTakesNext, PsStarts
<1>9. CASE PsEnd(o) \/ (\E where : PsGo(o, where)) \/ PsStored(o)
  BY <1>7, <1>9, PsEnds, PsGoes, PsStores
<1>10. CASE PsWrite(o) \/ PsFetch(o) \/ PsLookAt(o) \/ PsMove(o) \/ PsVerify(o) \/ PsFinish(o)
            \/ PsDie(o)
  <2>1. PsEnd(o) \/ (\E where : PsGo(o, where)) \/ PsStored(o)
    BY <1>10 DEF PsWrite, PsFetch, PsLookAt, PsMove, PsVerify, PsFinish, PsDie, PsFails
  <2> QED BY <1>9, <2>1
<1> QED BY <1>4, <1>5, <1>6, <1>8, <1>10 DEF PsStep

\* The process that takes a step is still a process.
LEMMA PsOwnTyped ==
    ASSUME PsTypeOK, NEW o \in Op, PsFits(o), PsStep(o)
    PROVE  psSelf'[o] \in PsSelves
<1> DEFINE x == psSelf[o]
<1>1. /\ psSelf \in [Op -> PsSelves] /\ x \in PsSelves
      /\ psSource \in [PsIds -> PsBuilds]
      /\ psStore \in [PsIds -> [PsVersions -> PsBuilds \union {PsNone}]]
  BY DEF PsTypeOK, PsSelves, PsPlaces
<1>2. /\ x.task \in PsTasks \union {"none"} /\ x.id \in PsIds /\ x.copy \in PsPins
      /\ x.todo \in SUBSET PsIds /\ x.build \in PsBuilds \union {PsNone}
      /\ x.open \in {"nothing", "temp", "lock", "replaced"} /\ x.alone \in BOOLEAN
  BY <1>1 DEF PsSelves
<1>3. PsIdle \in PsSelves
  BY PsFirsts
<1>18. ASSUME NEW a \in PsPlaces, NEW i \in PsIds, NEW c \in PsPins, NEW d \in SUBSET PsIds,
              NEW b \in PsBuilds \union {PsNone},
              NEW p \in {"nothing", "temp", "lock", "replaced"}, PsTurns(o, a, i, c, d, b, p)
       PROVE  psSelf'[o] \in PsSelves
  BY <1>2, <1>18 DEF PsTurns, PsOf, PsSelves
<1>4. ASSUME NEW a \in PsPlaces, PsMovesOn(o, a) PROVE psSelf'[o] \in PsSelves
  BY <1>2, <1>4, <1>18 DEF PsMovesOn
<1>5. \A b \in PsBuilds \union {PsNone} : PsPinned(o, b) \in PsPins
  BY <1>2 DEF PsPinned, PsPins
<1>6. CASE PsBegin(o)
  <2>1. PICK task \in PsTasks, id \in PsIds, alone \in BOOLEAN :
            psSelf'[o] = PsOf(IF task = "install" THEN "probing" ELSE "loading", task, id,
                              PsNoPins, {}, PsNone, "nothing", alone)
    BY <1>1, <1>6, PsBegins
  <2>2. (IF task = "install" THEN "probing" ELSE "loading") \in PsPlaces
    BY DEF PsPlaces
  <2> QED BY <2>1, <2>2, PsFirsts DEF PsOf, PsSelves
<1>7. CASE PsLoad(o)
  <2>1. CASE PsReadable /\ PsRoute(o, PsLoaded) # "idle"
                /\ PsTurns(o, PsRoute(o, PsLoaded), x.id, PsLoaded,
                           {i \in PsIds : PsLoaded[i] # PsNone},
                           IF x.build = PsNone THEN PsLoaded[x.id] ELSE x.build, x.open)
    <3>1. PsLoaded \in PsPins
      BY <2>1, PsFirsts DEF PsReadable, PsLoaded
    <3>2. PsRoute(o, PsLoaded) \in PsPlaces
      BY <1>2, <1>7, PsRoutes DEF PsLoad, PsAt, PsFits, PsPlaces
    <3>3. {i \in PsIds : PsLoaded[i] # PsNone} \in SUBSET PsIds
      OBVIOUS
    <3>4. (IF x.build = PsNone THEN PsLoaded[x.id] ELSE x.build) \in PsBuilds \union {PsNone}
      BY <1>2, <3>1 DEF PsPins
    <3> QED BY <1>2, <2>1, <3>1, <3>2, <3>3, <3>4, <1>18
  <2> QED BY <1>1, <1>3, <1>7, <2>1, PsLoads
<1>8. CASE PsOpen(o)
  BY <1>1, <1>2, <1>8, PsOpens, <1>18 DEF PsPlaces
<1>9. CASE PsRename(o)
  BY <1>1, <1>2, <1>3, <1>9, PsRenames, <1>18 DEF PsPlaces
<1>10. CASE PsProbe(o)
  <2>1. psSource[x.id] \in PsBuilds \union {PsNone}
    BY <1>1, <1>2
  <2>2. (IF x.task = "install" THEN "loading" ELSE "fetching") \in PsPlaces
    BY DEF PsPlaces
  <2> QED BY <1>1, <1>2, <1>3, <1>10, <2>1, <2>2, PsProbes, <1>18
<1>11. CASE PsTakeNext(o)
  <2>1. CASE PsMovesOn(o, "done")
    BY <1>4, <2>1 DEF PsPlaces
  <2>2. CASE PsFollowing(o) \in x.todo
                /\ PsTurns(o, "fetching", PsFollowing(o), x.copy, x.todo \ {PsFollowing(o)},
                           x.copy[PsFollowing(o)], x.open)
    <3>1. PsFollowing(o) \in PsIds /\ x.todo \ {PsFollowing(o)} \in SUBSET PsIds
      BY <1>2, <2>2
    <3>2. x.copy[PsFollowing(o)] \in PsBuilds \union {PsNone} /\ "fetching" \in PsPlaces
      BY <1>2, <3>1 DEF PsPins, PsPlaces
    <3> QED BY <1>2, <2>2, <3>1, <3>2, <1>18
  <2> QED BY <1>1, <1>11, <2>1, <2>2, PsTakesNext
<1>12. CASE PsStored(o)
  BY <1>1, <1>2, <1>4, <1>5, <1>12, PsStores, <1>18 DEF PsPlaces
<1>13. CASE PsRemove(o)
  <2>1. PsPinned(o, PsNone) \in PsPins /\ "opening" \in PsPlaces
    BY <1>5, PsFirsts DEF PsPlaces
  <2>2. psSelf'[o] = PsIdle \/ PsTurns(o, "opening", x.id, PsPinned(o, PsNone), x.todo, x.build, x.open)
    BY <1>1, <1>13, PsRemoves
  <2> QED BY <1>2, <1>3, <1>18, <2>1, <2>2
<1>14. CASE PsStart(o)
  <2>1. PsCurrent(o) \in PsBuilds \union {PsNone} /\ "running" \in PsPlaces
    BY <1>1, <1>2, <1>14, PsFirsts DEF PsStart, PsAt, PsFits, PsCurrent, PsPlaces
  <2> QED BY <1>1, <1>2, <1>3, <1>14, <2>1, PsStarts, <1>18
<1>15. CASE PsEnd(o)
  BY <1>1, <1>3, <1>15, PsEnds
<1>16. ASSUME NEW a \in PsPlaces, PsGo(o, a) PROVE psSelf'[o] \in PsSelves
  BY <1>1, <1>4, <1>16, PsGoes
<1>17. CASE PsWrite(o) \/ PsFetch(o) \/ PsLookAt(o) \/ PsMove(o) \/ PsVerify(o) \/ PsFinish(o)
            \/ PsDie(o)
  <2>1. PsEnd(o) \/ PsStored(o)
            \/ PsGo(o, "renaming") \/ PsGo(o, "placing") \/ PsGo(o, "moving") \/ PsGo(o, "starting")
    BY <1>17 DEF PsWrite, PsFetch, PsLookAt, PsMove, PsVerify, PsFinish, PsDie, PsFails
  <2> QED BY <1>12, <1>15, <1>16, <2>1 DEF PsPlaces
<1> QED
  BY <1>6, <1>7, <1>8, <1>9, <1>10, <1>11, <1>13, <1>14, <1>17 DEF PsStep

\* What the store becomes, in the hands of whom.
LEMMA PsStoreChanges ==
    ASSUME NEW o \in Op, PsStep(o)
    PROVE  \/ psStore' = psStore
           \/ /\ PsMove(o) /\ PsStored(o)
              /\ psStore' = [psStore EXCEPT
                    ![psSelf[o].id][PsVersion[psSelf[o].build]] = psSelf[o].build]
           \/ /\ PsRemove(o)
              /\ psStore' = [psStore EXCEPT ![psSelf[o].id][PsVersion[psSelf[o].build]] = PsNone]
<1>1. PsStep(o) /\ ~PsMove(o) /\ ~PsRemove(o) => psStore' = psStore
  BY DEF PsStep, PsBegin, PsLoad, PsOpen, PsWrite, PsRename, PsProbe, PsTakeNext, PsFetch, PsLookAt,
         PsVerify, PsStart, PsFinish, PsDie
<1> QED BY <1>1 DEF PsMove, PsRemove

\* The place that a process deals with is one of the store.
LEMMA PsPlace ==
    ASSUME PsTypeOK, NEW o \in Op, psSelf[o].build # PsNone
    PROVE  /\ psSelf[o].id \in PsIds /\ psSelf[o].build \in PsBuilds
           /\ PsVersion[psSelf[o].build] \in PsVersions
           /\ PsCurrent(o) \in PsBuilds \union {PsNone}
<1>1. psSelf[o].id \in PsIds /\ psSelf[o].build \in PsBuilds
  BY DEF PsTypeOK
<1>2. PsVersion[psSelf[o].build] \in PsVersions
  BY <1>1, PsFirsts
<1> QED BY <1>1, <1>2 DEF PsCurrent, PsTypeOK

\* Every variable has its type.
LEMMA PsTypedStep ==
    ASSUME PsTypeOK, NEW o \in Op, PsFits(o), PsStep(o)
    PROVE  PsTypeOK'
<1>1. psSelf \in [Op -> PsSelves] /\ psSelf[o] \in PsSelves
  BY DEF PsTypeOK, PsSelves, PsPlaces
<1>2. psSelf' \in [Op -> PsSelves]
  <2>1. \A p \in Op : psSelf'[p] \in PsSelves
    BY <1>1, PsOthers, PsOwnTyped DEF PsLike
  <2>2. psSelf' = [p \in Op |-> psSelf'[p]]
    <3>1. CASE PsBegin(o)
      BY <3>1 DEF PsBegin
    <3>2. CASE PsRename(o)
      BY <1>1, <3>2 DEF PsRename, PsFails, PsEnd, PsBecomes
    <3>3. CASE PsRemove(o)
      BY <1>1, <3>3 DEF PsRemove, PsFails, PsEnd, PsBecomes
    <3>4. CASE (\E x : PsBecomes(o, x)) \/ \E where : PsGo(o, where)
      BY <1>1, <3>4 DEF PsBecomes, PsGo
    <3>5. PsEnd(o) \/ PsStored(o) => \E x : PsBecomes(o, x)
      BY DEF PsEnd, PsStored
    <3>6. CASE PsLoad(o) \/ PsOpen(o) \/ PsProbe(o) \/ PsTakeNext(o) \/ PsStart(o)
      BY <3>4, <3>5, <3>6 DEF PsLoad, PsOpen, PsProbe, PsTakeNext, PsStart, PsFails
    <3>7. CASE PsWrite(o) \/ PsFetch(o) \/ PsLookAt(o) \/ PsMove(o) \/ PsVerify(o) \/ PsFinish(o)
                \/ PsDie(o)
      BY <3>4, <3>5, <3>7 DEF PsWrite, PsFetch, PsLookAt, PsMove, PsVerify, PsFinish, PsDie, PsFails
    <3> QED BY <3>1, <3>2, <3>3, <3>6, <3>7 DEF PsStep
  <2> QED BY <2>1, <2>2
<1>3. psStore' \in [PsIds -> [PsVersions -> PsBuilds \union {PsNone}]]
  <2>1. psStore \in [PsIds -> [PsVersions -> PsBuilds \union {PsNone}]]
    BY DEF PsTypeOK
  <2>2. ASSUME NEW b \in PsBuilds \union {PsNone}, psSelf[o].build # PsNone
        PROVE  [psStore EXCEPT ![psSelf[o].id][PsVersion[psSelf[o].build]] = b]
                    \in [PsIds -> [PsVersions -> PsBuilds \union {PsNone}]]
    BY <2>1, <2>2, PsPlace
  <2>3. PsMove(o) \/ PsRemove(o) => psSelf[o].build # PsNone
    BY DEF PsMove, PsRemove, PsAt, PsFits
  <2>4. CASE PsMove(o) /\ psStore' = [psStore EXCEPT
                ![psSelf[o].id][PsVersion[psSelf[o].build]] = psSelf[o].build]
    <3>1. psSelf[o].build \in PsBuilds \union {PsNone}
      BY <2>3, <2>4, PsPlace
    <3> QED BY <2>2, <2>3, <2>4, <3>1
  <2>5. CASE PsRemove(o) /\ psStore' = [psStore EXCEPT
                ![psSelf[o].id][PsVersion[psSelf[o].build]] = PsNone]
    BY <2>2, <2>3, <2>5, PsFirsts
  <2> QED BY <2>1, <2>4, <2>5, PsStoreChanges
<1>4. /\ psLock' \in PsPins \union {PsAbsent, PsEmpty, PsTorn}
      /\ psTemp' \in PsPins \union {PsAbsent, PsEmpty, PsTorn}
  <2>1. /\ psLock \in PsPins \union {PsAbsent, PsEmpty, PsTorn}
        /\ psTemp \in PsPins \union {PsAbsent, PsEmpty, PsTorn}
        /\ psSelf[o].copy \in PsPins
    BY <1>1 DEF PsTypeOK, PsSelves
  <2>2. \A file : PsOver(o, file) \subseteq PsPins \union {PsTorn}
    BY <2>1 DEF PsOver
  <2>3. /\ psLock' = psLock \/ psLock' = psTemp \/ psLock' \in PsOver(o, psLock)
        /\ psTemp' = psTemp \/ psTemp' \in {PsAbsent, PsEmpty} \/ psTemp' \in PsOver(o, psTemp)
    BY DEF PsStep, PsBegin, PsLoad, PsOpen, PsWrite, PsRename, PsProbe, PsTakeNext, PsFetch, PsLookAt,
           PsMove, PsRemove, PsVerify, PsStart, PsFinish, PsDie
  <2> QED BY <2>1, <2>2, <2>3
<1>5. psSource' = psSource /\ psSource \in [PsIds -> PsBuilds]
  BY DEF PsTypeOK, PsStep, PsBegin, PsLoad, PsOpen, PsWrite, PsRename, PsProbe, PsTakeNext, PsFetch,
         PsLookAt, PsMove, PsRemove, PsVerify, PsStart, PsFinish, PsDie
<1>6. psMixed' \in BOOLEAN
  <2>1. CASE PsBegin(o)
    BY <2>1 DEF PsBegin
  <2>2. CASE ~PsBegin(o)
    <3>1. psMixed' = psMixed
      BY <2>2 DEF PsStep, PsLoad, PsOpen, PsWrite, PsRename, PsProbe, PsTakeNext, PsFetch, PsLookAt,
                  PsMove, PsRemove, PsVerify, PsStart, PsFinish, PsDie
    <3> QED BY <3>1 DEF PsTypeOK
  <2> QED BY <2>1, <2>2
<1>7. psClash' \in BOOLEAN
  <2>1. CASE PsOpen(o)
    BY <2>1 DEF PsOpen
  <2>2. CASE ~PsOpen(o)
    <3>1. psClash' = psClash
      BY <2>2 DEF PsStep, PsBegin, PsLoad, PsWrite, PsRename, PsProbe, PsTakeNext, PsFetch, PsLookAt,
                  PsMove, PsRemove, PsVerify, PsStart, PsFinish, PsDie
    <3> QED BY <3>1 DEF PsTypeOK
  <2> QED BY <2>1, <2>2
<1>8. psRun' \in 0..PsCommands /\ psLeft' \in 0..PsBudget
  <2>1. psRun \in 0..PsCommands /\ psLeft \in 0..PsBudget /\ PsCommands \in Nat /\ PsBudget \in Nat
    BY PsAssumption DEF PsTypeOK, PsAssumption
  <2>2. psRun' = psRun \/ (psRun < PsCommands /\ psRun' = psRun + 1)
    BY DEF PsStep, PsBegin, PsLoad, PsOpen, PsWrite, PsRename, PsProbe, PsTakeNext, PsFetch, PsLookAt,
           PsMove, PsRemove, PsVerify, PsStart, PsFinish, PsDie
  <2>3. psLeft' = psLeft \/ (psLeft > 0 /\ psLeft' = psLeft - 1)
    BY DEF PsStep, PsBegin, PsLoad, PsOpen, PsWrite, PsRename, PsProbe, PsTakeNext, PsFetch, PsLookAt,
           PsMove, PsRemove, PsVerify, PsStart, PsFinish, PsDie, PsFails, PsFault
  <2> QED BY <2>1, <2>2, <2>3
<1> QED BY <1>2, <1>3, <1>4, <1>5, <1>6, <1>7, <1>8 DEF PsTypeOK, PsSelves, PsPlaces

------------------------------------------------------------------------------
(* The plugin store: commands that are apart.                              *)

\* The fields of a process that goes on.
LEMMA PsFields ==
    ASSUME NEW o \in Op, NEW at, NEW id, NEW copy, NEW todo, NEW build, NEW open,
           PsTurns(o, at, id, copy, todo, build, open)
    PROVE  /\ psSelf'[o].at = at /\ psSelf'[o].task = psSelf[o].task /\ psSelf'[o].id = id
           /\ psSelf'[o].copy = copy /\ psSelf'[o].todo = todo /\ psSelf'[o].build = build
           /\ psSelf'[o].open = open /\ psSelf'[o].alone = psSelf[o].alone
BY DEF PsTurns, PsOf

\* Once two that write have overlapped, they have.
LEMMA PsMixes ==
    ASSUME NEW o \in Op, PsStep(o)
    PROVE  ~psMixed' => ~psMixed
<1>1. CASE PsBegin(o)
  BY <1>1 DEF PsBegin
<1>2. CASE ~PsBegin(o)
  BY <1>2 DEF PsStep, PsLoad, PsOpen, PsWrite, PsRename, PsProbe, PsTakeNext, PsFetch, PsLookAt,
              PsMove, PsRemove, PsVerify, PsStart, PsFinish, PsDie
<1> QED BY <1>1, <1>2

\* A command keeps its task until it ends.
LEMMA PsKeepsTask ==
    ASSUME psSelf \in [Op -> PsSelves], NEW o \in Op, PsStep(o), ~PsBegin(o)
    PROVE  \/ psSelf'[o] = PsIdle
           \/ psSelf'[o].task = psSelf[o].task /\ psSelf'[o].alone = psSelf[o].alone
<1>1. CASE PsLoad(o)
  <2>1. \/ psSelf'[o] = PsIdle
        \/ \E at, copy, todo, build :
            PsTurns(o, at, psSelf[o].id, copy, todo, build, psSelf[o].open)
    BY <1>1, PsLoads
  <2> QED BY <2>1, PsFields
<1>2. CASE PsOpen(o)
  <2>1. PsTurns(o, "writing", psSelf[o].id, psSelf[o].copy, psSelf[o].todo, psSelf[o].build, "temp")
    BY <1>2, PsOpens
  <2> QED BY <2>1, PsFields
<1>11. CASE PsTakeNext(o)
  <2>1. \/ PsMovesOn(o, "done")
        \/ PsTurns(o, "fetching", PsFollowing(o), psSelf[o].copy, psSelf[o].todo \ {PsFollowing(o)},
                   psSelf[o].copy[PsFollowing(o)], psSelf[o].open)
    BY <1>11, PsTakesNext
  <2> QED BY <2>1, PsFields DEF PsMovesOn
<1>3. CASE PsRename(o)
  <2>1. \/ psSelf'[o] = PsIdle
        \/ PsTurns(o, "done", psSelf[o].id, psSelf[o].copy, psSelf[o].todo, psSelf[o].build, "nothing")
    BY <1>3, PsRenames
  <2> QED BY <2>1, PsFields
<1>4. CASE PsProbe(o)
  BY <1>4, PsProbes, PsFields
<1>5. CASE PsRemove(o)
  BY <1>5, PsRemoves, PsFields
<1>6. CASE PsStart(o)
  BY <1>6, PsStarts, PsFields
<1>7. CASE PsEnd(o)
  BY <1>7, PsEnds
<1>8. CASE PsStored(o)
  BY <1>8, PsStores, PsFields DEF PsMovesOn
<1>9. ASSUME NEW where, PsGo(o, where)
      PROVE  psSelf'[o].task = psSelf[o].task /\ psSelf'[o].alone = psSelf[o].alone
  BY <1>9, PsGoes, PsFields DEF PsMovesOn
<1>10. CASE PsWrite(o) \/ PsFetch(o) \/ PsLookAt(o) \/ PsMove(o) \/ PsVerify(o) \/ PsFinish(o)
            \/ PsDie(o)
  <2>1. PsEnd(o) \/ (\E where : PsGo(o, where)) \/ PsStored(o)
    BY <1>10 DEF PsWrite, PsFetch, PsLookAt, PsMove, PsVerify, PsFinish, PsDie, PsFails
  <2> QED BY <1>7, <1>8, <1>9, <2>1
<1> QED BY <1>1, <1>2, <1>3, <1>4, <1>5, <1>6, <1>10, <1>11 DEF PsStep

\* Commands stay apart, and a run stays apart from removals.
LEMMA PsApartStep ==
    ASSUME PsTypeOK, PsApart, NEW o \in Op, PsStep(o)
    PROVE  PsApart'
<1>1. psSelf \in [Op -> PsSelves]
  BY DEF PsTypeOK, PsSelves, PsPlaces
<1>2. /\ PsIdle.task = "none" /\ ~PsWrites("none")
  BY DEF PsIdle, PsWrites
<1>3. ASSUME NEW p \in Op, p # o
      PROVE  /\ psSelf'[p].task \in {"none", psSelf[p].task}
             /\ psSelf'[p].task = "run" /\ psSelf'[p].alone => psSelf[p].alone
  BY <1>1, <1>2, <1>3, PsOthers DEF PsLike
<1>4. CASE PsBegin(o)
  <2>1. PICK task \in PsTasks, id \in PsIds :
            /\ \E alone \in BOOLEAN :
                /\ psSelf'[o] = PsOf(IF task = "install" THEN "probing" ELSE "loading", task, id,
                                     PsNoPins, {}, PsNone, "nothing", alone)
                /\ alone => \A p \in Op : ~PsDisturbs(task, psSelf[p].task)
            /\ \A p \in Op : p # o => \E alone \in BOOLEAN :
                /\ psSelf'[p] = PsOf(psSelf[p].at, psSelf[p].task, psSelf[p].id, psSelf[p].copy,
                                     psSelf[p].todo, psSelf[p].build, psSelf[p].open, alone)
                /\ alone => psSelf[p].alone /\ ~PsDisturbs(task, psSelf[p].task)
            /\ ~psMixed' => ~psMixed
                /\ \A p \in Op : ~(PsWrites(task) /\ PsWrites(psSelf[p].task))
    BY <1>1, <1>4, PsBegins
  <2>2. /\ psSelf'[o].task = task
        /\ psSelf'[o].alone => \A p \in Op : ~PsDisturbs(task, psSelf[p].task)
    BY <2>1 DEF PsOf
  <2>3. ASSUME NEW p \in Op, p # o
        PROVE  /\ psSelf'[p].task = psSelf[p].task
               /\ psSelf'[p].alone => psSelf[p].alone /\ ~PsDisturbs(task, psSelf[p].task)
    <3>1. PICK alone \in BOOLEAN :
            /\ psSelf'[p] = PsOf(psSelf[p].at, psSelf[p].task, psSelf[p].id, psSelf[p].copy,
                                 psSelf[p].todo, psSelf[p].build, psSelf[p].open, alone)
            /\ alone => psSelf[p].alone /\ ~PsDisturbs(task, psSelf[p].task)
      BY <2>1, <2>3
    <3> QED BY <3>1 DEF PsOf
  <2>4. ASSUME ~psMixed', NEW p \in Op, NEW q \in Op, PsWrites(psSelf'[p].task),
               PsWrites(psSelf'[q].task)
        PROVE  p = q
    BY <2>1, <2>2, <2>3, <2>4 DEF PsApart
  <2>5. ASSUME NEW p \in Op, NEW q \in Op, psSelf'[p].task = "run", psSelf'[p].alone,
               psSelf'[q].task = "remove"
        PROVE  FALSE
    <3>1. p # q
      BY <2>5
    <3>2. PsDisturbs("run", "remove") /\ PsDisturbs("remove", "run")
      BY DEF PsDisturbs
    <3> QED BY <2>2, <2>3, <2>5, <3>1, <3>2 DEF PsApart
  <2> QED BY <2>4, <2>5 DEF PsApart
<1>5. CASE ~PsBegin(o)
  <2>1. ASSUME NEW p \in Op
        PROVE  /\ psSelf'[p].task \in {"none", psSelf[p].task}
               /\ psSelf'[p].task = "run" /\ psSelf'[p].alone => psSelf[p].alone
    BY <1>1, <1>2, <1>3, <1>5, PsKeepsTask
  <2> QED BY <1>2, <2>1, PsMixes DEF PsApart
<1> QED BY <1>4, <1>5

------------------------------------------------------------------------------
(* The plugin store: what a process relies on.                             *)

\* What the others rely on.
LEMMA PsOthersStep ==
    ASSUME PsIInv, NEW o \in Op, PsStep(o), NEW p \in Op, p # o
    PROVE  PsFits(p)' /\ PsPlaced(p)'
<1>1. PsTypeOK /\ PsApart /\ PsFits(o) /\ PsPlaced(o) /\ PsFits(p) /\ PsPlaced(p)
  BY DEF PsIInv
<1>2. psSelf \in [Op -> PsSelves]
  BY <1>1 DEF PsTypeOK, PsSelves, PsPlaces
<1>3. CASE psSelf'[p] = PsIdle
  BY <1>3 DEF PsIdle, PsFits, PsPlaced, PsAt
<1>4. CASE psSelf'[p] # PsIdle
  <2>1. /\ psSelf'[p].at = psSelf[p].at /\ psSelf'[p].task = psSelf[p].task
        /\ psSelf'[p].id = psSelf[p].id /\ psSelf'[p].copy = psSelf[p].copy
        /\ psSelf'[p].todo = psSelf[p].todo /\ psSelf'[p].build = psSelf[p].build
        /\ psSelf'[p].alone => psSelf[p].alone
    BY <1>2, <1>4, PsOthers DEF PsLike
  <2>2. PsFits(p)'
    BY <1>1, <2>1 DEF PsFits
  <2>3. ~psMixed' => ~psMixed
    BY PsMixes
  <2>4. ASSUME \/ psSelf[p].at = "moving" /\ ~psMixed
               \/ psSelf[p].at = "starting" /\ psSelf[p].alone /\ ~psMixed
        PROVE  PsCurrent(p)' = PsCurrent(p)
    <3> DEFINE there(q) == <<psSelf[q].id, PsVersion[psSelf[q].build]>>
    <3>1. CASE psStore' = psStore
      BY <2>1, <3>1 DEF PsCurrent
    <3>2. PsMove(o) => psSelf[o].at = "moving" /\ PsWrites(psSelf[o].task)
      BY <1>1 DEF PsMove, PsAt, PsFits
    <3>3. PsRemove(o) => psSelf[o].task = "remove" /\ PsWrites(psSelf[o].task)
      BY <1>1 DEF PsRemove, PsAt, PsFits, PsWrites
    <3>4. psSelf[p].at = "moving" => PsWrites(psSelf[p].task)
      BY <1>1 DEF PsFits
    <3>5. psSelf[p].at = "starting" => psSelf[p].task = "run" /\ psSelf[p].build # PsNone
      BY <1>1 DEF PsFits
    <3>6. CASE PsMove(o) /\ psStore' = [psStore EXCEPT
                ![psSelf[o].id][PsVersion[psSelf[o].build]] = psSelf[o].build]
      <4>1. psSelf[p].at = "starting" /\ ~psMixed /\ psSelf[p].alone
        BY <1>1, <2>4, <3>2, <3>4, <3>6 DEF PsApart
      <4>2. PsCurrent(o) = PsNone /\ PsCurrent(p) = psSelf[p].build
        BY <1>1, <3>2, <3>6, <4>1 DEF PsPlaced, PsAt
      <4>3. there(o) # there(p)
        BY <3>5, <4>1, <4>2 DEF PsCurrent
      <4>4. psSelf[o].build # PsNone
        BY <1>1, <3>2, <3>6 DEF PsFits
      <4>5. /\ psStore \in [PsIds -> [PsVersions -> PsBuilds \union {PsNone}]]
            /\ psSelf[p].id \in PsIds /\ PsVersion[psSelf[p].build] \in PsVersions
            /\ psSelf[o].id \in PsIds /\ PsVersion[psSelf[o].build] \in PsVersions
        BY <1>1, <3>5, <4>1, <4>4, PsPlace DEF PsTypeOK
      <4>6. psStore'[psSelf[p].id][PsVersion[psSelf[p].build]]
                = psStore[psSelf[p].id][PsVersion[psSelf[p].build]]
        BY <3>6, <4>3, <4>5
      <4> QED BY <2>1, <4>6 DEF PsCurrent
    <3>7. CASE PsRemove(o)
      BY <1>1, <2>4, <3>3, <3>4, <3>5, <3>7 DEF PsApart
    <3> QED BY <3>1, <3>6, <3>7, PsStoreChanges
  <2>5. PsPlaced(p)'
    BY <1>1, <2>1, <2>3, <2>4 DEF PsPlaced, PsAt
  <2> QED BY <2>2, <2>5
<1> QED BY <1>3, <1>4

\* What the process that takes the step relies on.
LEMMA PsOwnStep ==
    ASSUME PsIInv, NEW o \in Op, PsStep(o)
    PROVE  PsFits(o)' /\ PsPlaced(o)'
<1> DEFINE x == psSelf[o]
<1>1. PsTypeOK /\ PsApart /\ PsFits(o) /\ PsPlaced(o)
  BY DEF PsIInv
<1>2. psSelf \in [Op -> PsSelves] /\ x \in PsSelves /\ x.task \in PsTasks \union {"none"}
  BY <1>1 DEF PsTypeOK, PsSelves, PsPlaces
<1>3. CASE psSelf'[o] = PsIdle
  BY <1>3 DEF PsIdle, PsFits, PsPlaced, PsAt
<1>4. CASE PsBegin(o)
  <2>1. PICK task \in PsTasks, id \in PsIds, alone \in BOOLEAN :
            psSelf'[o] = PsOf(IF task = "install" THEN "probing" ELSE "loading", task, id,
                              PsNoPins, {}, PsNone, "nothing", alone)
    BY <1>2, <1>4, PsBegins
  <2>2. /\ psSelf'[o].at = (IF task = "install" THEN "probing" ELSE "loading")
        /\ psSelf'[o].task = task /\ psSelf'[o].build = PsNone /\ psSelf'[o].todo = {}
    BY <2>1 DEF PsOf
  <2>3. task # "none"
    BY PsAssumption DEF PsAssumption
  <2> QED BY <2>2, <2>3 DEF PsFits, PsPlaced, PsAt, PsWrites
<1>5. ASSUME PsWrites(x.task),
             PsMovesOn(o, "renaming") \/ (PsMovesOn(o, "placing") /\ x.build # PsNone)
      PROVE  PsFits(o)' /\ PsPlaced(o)'
  BY <1>1, <1>5, PsFields DEF PsMovesOn, PsFits, PsPlaced, PsAt
<1>6. CASE PsLoad(o)
  <2>1. CASE PsTurns(o, PsRoute(o, PsLoaded), x.id, PsLoaded, {i \in PsIds : PsLoaded[i] # PsNone},
                     IF x.build = PsNone THEN PsLoaded[x.id] ELSE x.build, x.open)
                /\ PsRoute(o, PsLoaded) # "idle"
    <3>1. /\ psSelf'[o].at = PsRoute(o, PsLoaded) /\ psSelf'[o].task = x.task
          /\ psSelf'[o].id = x.id /\ psSelf'[o].copy = PsLoaded
          /\ psSelf'[o].todo = {i \in PsIds : PsLoaded[i] # PsNone}
          /\ psSelf'[o].build = (IF x.build = PsNone THEN PsLoaded[x.id] ELSE x.build)
      BY <2>1 DEF PsTurns, PsOf
    <3>2. x.task \in PsTasks /\ (x.task = "install" <=> x.build # PsNone)
      BY <1>1, <1>2, <1>6 DEF PsLoad, PsAt, PsFits
    <3>3. \/ x.task = "init" /\ psSelf'[o].at = "opening"
          \/ x.task = "install" /\ psSelf'[o].at = "fetching"
          \/ x.task = "update" /\ psSelf'[o].at = "probing"
          \/ x.task = "remove" /\ psSelf'[o].at = "removing" /\ PsLoaded[x.id] # PsNone
          \/ x.task = "sync" /\ psSelf'[o].at = "next"
          \/ x.task = "run" /\ psSelf'[o].at = "checking" /\ PsLoaded[x.id] # PsNone
      BY <2>1, <3>1, <3>2, PsAssumption DEF PsRoute, PsAssumption
    <3>4. PsFits(o)'
      BY <3>1, <3>2, <3>3 DEF PsFits, PsWrites
    <3>5. PsPlaced(o)'
      BY <3>1, <3>2, <3>3 DEF PsPlaced, PsAt
    <3> QED BY <3>4, <3>5
  <2> QED BY <1>2, <1>3, <1>6, <2>1, PsLoads
<1>7. CASE PsOpen(o)
  <2>1. PsTurns(o, "writing", x.id, x.copy, x.todo, x.build, "temp")
    BY <1>2, <1>7, PsOpens
  <2> QED BY <1>1, <1>7, <2>1, PsFields DEF PsOpen, PsFits, PsPlaced, PsAt
<1>8. CASE PsRename(o)
  <2>1. psSelf'[o] = PsIdle \/ PsTurns(o, "done", x.id, x.copy, x.todo, x.build, "nothing")
    BY <1>2, <1>8, PsRenames
  <2> QED BY <1>1, <1>3, <2>1, PsFields DEF PsFits, PsPlaced, PsAt
<1>9. CASE PsProbe(o)
  <2>1. psSource[x.id] # PsNone
    BY <1>1, PsFirsts DEF PsTypeOK
  <2>2. CASE PsTurns(o, IF x.task = "install" THEN "loading" ELSE "fetching", x.id, x.copy, x.todo,
                     psSource[x.id], x.open)
    <3>1. /\ psSelf'[o].at = (IF x.task = "install" THEN "loading" ELSE "fetching")
          /\ psSelf'[o].task = x.task /\ psSelf'[o].build = psSource[x.id]
          /\ psSelf'[o].copy = x.copy /\ psSelf'[o].todo = x.todo
      BY <2>2 DEF PsTurns, PsOf
    <3>2. PsWrites(x.task)
      BY <1>1, <1>9 DEF PsProbe, PsAt, PsFits
    <3> QED BY <1>1, <2>1, <3>1, <3>2 DEF PsFits, PsPlaced, PsAt
  <2> QED BY <1>2, <1>3, <1>9, <2>2, PsProbes
<1>10. CASE PsTakeNext(o)
  <2>1. CASE PsMovesOn(o, "done")
    BY <1>1, <2>1, PsFields DEF PsMovesOn, PsFits, PsPlaced, PsAt
  <2>2. CASE PsFollowing(o) \in x.todo
                /\ PsTurns(o, "fetching", PsFollowing(o), x.copy, x.todo \ {PsFollowing(o)},
                           x.copy[PsFollowing(o)], x.open)
    <3>1. /\ psSelf'[o].at = "fetching" /\ psSelf'[o].task = x.task /\ psSelf'[o].copy = x.copy
          /\ psSelf'[o].build = x.copy[PsFollowing(o)]
          /\ psSelf'[o].todo = x.todo \ {PsFollowing(o)}
      BY <2>2, PsFields
    <3>2. x.task = "sync"
      BY <1>1, <1>10 DEF PsTakeNext, PsAt, PsFits
    <3> QED BY <1>1, <2>2, <3>1, <3>2 DEF PsFits, PsPlaced, PsAt, PsWrites
  <2> QED BY <1>2, <1>10, <2>1, <2>2, PsTakesNext
<1>11. ASSUME PsStored(o), PsWrites(x.task) PROVE PsFits(o)' /\ PsPlaced(o)'
  <2>1. CASE x.task = "sync" /\ PsMovesOn(o, "next")
    BY <1>1, <2>1, PsFields DEF PsMovesOn, PsFits, PsPlaced, PsAt, PsWrites
  <2>2. CASE x.task # "sync" /\ PsTurns(o, "opening", x.id, PsPinned(o, x.build), x.todo, x.build, x.open)
    BY <1>1, <1>11, <2>2, PsFields DEF PsFits, PsPlaced, PsAt
  <2> QED BY <1>2, <1>11, <2>1, <2>2, PsStores
<1>12. CASE PsWrite(o)
  <2>1. PsWrites(x.task)
    BY <1>1, <1>12 DEF PsWrite, PsAt, PsFits
  <2>2. PsGo(o, "renaming") \/ PsEnd(o)
    BY <1>12 DEF PsWrite, PsFails
  <2> QED BY <1>2, <1>3, <1>5, <2>1, <2>2, PsGoes, PsEnds
<1>13. CASE PsFetch(o)
  <2>1. PsWrites(x.task) /\ x.build # PsNone
    BY <1>1, <1>13 DEF PsFetch, PsAt, PsFits
  <2>2. PsStored(o) \/ PsGo(o, "placing") \/ PsEnd(o)
    BY <1>13 DEF PsFetch, PsFails
  <2> QED BY <1>2, <1>3, <1>5, <1>11, <2>1, <2>2, PsGoes, PsEnds
<1>14. CASE PsLookAt(o)
  <2>1. PsWrites(x.task) /\ x.build # PsNone /\ psStore' = psStore
    BY <1>1, <1>14 DEF PsLookAt, PsAt, PsFits
  <2>2. CASE PsCurrent(o) = PsNone /\ PsMovesOn(o, "moving")
    <3>1. /\ psSelf'[o].at = "moving" /\ psSelf'[o].task = x.task /\ psSelf'[o].id = x.id
          /\ psSelf'[o].build = x.build /\ psSelf'[o].copy = x.copy /\ psSelf'[o].todo = x.todo
      BY <2>2, PsFields DEF PsMovesOn
    <3>2. PsCurrent(o)' = PsNone
      BY <2>1, <2>2, <3>1 DEF PsCurrent
    <3> QED BY <1>1, <2>1, <3>1, <3>2 DEF PsFits, PsPlaced, PsAt
  <2>3. (PsCurrent(o) = PsNone /\ PsGo(o, "moving")) \/ PsEnd(o)
    BY <1>14 DEF PsLookAt
  <2> QED BY <1>2, <1>3, <2>2, <2>3, PsGoes, PsEnds
<1>15. CASE PsMove(o)
  <2>1. PsWrites(x.task)
    BY <1>1, <1>15 DEF PsMove, PsAt, PsFits
  <2>2. PsStored(o) \/ PsEnd(o)
    BY <1>15 DEF PsMove, PsFails
  <2> QED BY <1>2, <1>3, <1>11, <2>1, <2>2, PsEnds
<1>16. CASE PsRemove(o)
  <2>1. x.task = "remove"
    BY <1>1, <1>16 DEF PsRemove, PsAt, PsFits
  <2>2. psSelf'[o] = PsIdle \/ PsTurns(o, "opening", x.id, PsPinned(o, PsNone), x.todo, x.build, x.open)
    BY <1>2, <1>16, PsRemoves
  <2> QED BY <1>1, <1>3, <2>1, <2>2, PsFields DEF PsFits, PsPlaced, PsAt, PsWrites
<1>17. CASE PsVerify(o)
  <2>1. x.task = "run" /\ x.build # PsNone /\ x.build = x.copy[x.id] /\ psStore' = psStore
    BY <1>1, <1>17 DEF PsVerify, PsAt, PsFits, PsPlaced
  <2>2. CASE PsCurrent(o) = x.build /\ PsMovesOn(o, "starting")
    <3>1. /\ psSelf'[o].at = "starting" /\ psSelf'[o].task = x.task /\ psSelf'[o].id = x.id
          /\ psSelf'[o].build = x.build /\ psSelf'[o].copy = x.copy
      BY <2>2, PsFields DEF PsMovesOn
    <3>2. PsCurrent(o)' = x.build
      BY <2>1, <2>2, <3>1 DEF PsCurrent
    <3> QED BY <2>1, <3>1, <3>2 DEF PsFits, PsPlaced, PsAt
  <2>3. (PsCurrent(o) = x.build /\ PsGo(o, "starting")) \/ PsEnd(o)
    BY <1>17 DEF PsVerify
  <2> QED BY <1>2, <1>3, <2>2, <2>3, PsGoes, PsEnds
<1>18. CASE PsStart(o)
  <2>1. /\ x.task = "run" /\ x.build = x.copy[x.id]
        /\ x.alone /\ ~psMixed => PsCurrent(o) = x.build
    BY <1>1, <1>18 DEF PsStart, PsAt, PsFits, PsPlaced
  <2>2. CASE PsCurrent(o) # PsNone
                /\ PsTurns(o, "running", x.id, x.copy, x.todo, PsCurrent(o), x.open)
    <3>1. /\ psSelf'[o].at = "running" /\ psSelf'[o].task = x.task /\ psSelf'[o].id = x.id
          /\ psSelf'[o].build = PsCurrent(o) /\ psSelf'[o].copy = x.copy
          /\ psSelf'[o].alone = x.alone
      BY <2>2, PsFields
    <3> QED BY <2>1, <2>2, <3>1, PsMixes DEF PsFits, PsPlaced, PsAt
  <2> QED BY <1>2, <1>3, <1>18, <2>2, PsStarts
<1>19. CASE PsFinish(o) \/ PsDie(o)
  <2>1. PsEnd(o)
    BY <1>19 DEF PsFinish, PsDie
  <2> QED BY <1>2, <1>3, <2>1, PsEnds
<1> QED
  BY <1>4, <1>6, <1>7, <1>8, <1>9, <1>10, <1>12, <1>13, <1>14, <1>15, <1>16, <1>17, <1>18, <1>19
  DEF PsStep

------------------------------------------------------------------------------
(* The plugin store: what holds of every behaviour.                        *)

\* A build is published, and nobody notices.
LEMMA PsPublishStep ==
    ASSUME PsIInv, PsPublish
    PROVE  PsIInv'
<1>1. /\ psLock' = psLock /\ psTemp' = psTemp /\ psStore' = psStore /\ psSelf' = psSelf
      /\ psMixed' = psMixed /\ psClash' = psClash /\ psRun' = psRun
  BY DEF PsPublish
<1>2. psSource' \in [PsIds -> PsBuilds]
  BY DEF PsPublish, PsIInv, PsTypeOK
<1>3. psLeft' \in 0..PsBudget
  BY PsAssumption DEF PsPublish, PsFault, PsIInv, PsTypeOK, PsAssumption
<1>4. PsTypeOK'
  BY <1>1, <1>2, <1>3 DEF PsIInv, PsTypeOK
<1>5. PsApart'
  BY <1>1 DEF PsIInv, PsApart
<1>6. ASSUME NEW o \in Op PROVE PsFits(o)' /\ PsPlaced(o)'
  BY <1>1 DEF PsIInv, PsFits, PsPlaced, PsAt, PsCurrent
<1> QED BY <1>4, <1>5, <1>6 DEF PsIInv

\* It holds in every state.
LEMMA PsInductive == PsSpec => []PsIInv
<1>1. PsInit => PsIInv
  <2> SUFFICES ASSUME PsInit PROVE PsIInv
    OBVIOUS
  <2>1. psSelf \in [Op -> PsSelves]
    BY PsFirsts DEF PsInit
  <2>2. /\ psLock \in PsPins \union {PsAbsent, PsEmpty, PsTorn}
        /\ psTemp \in PsPins \union {PsAbsent, PsEmpty, PsTorn}
        /\ psStore \in [PsIds -> [PsVersions -> PsBuilds \union {PsNone}]]
        /\ psSource \in [PsIds -> PsBuilds]
    BY PsFirsts DEF PsInit
  <2>3. psMixed \in BOOLEAN /\ psClash \in BOOLEAN
    BY DEF PsInit
  <2>4. psRun \in 0..PsCommands /\ psLeft \in 0..PsBudget
    BY PsAssumption DEF PsInit, PsAssumption
  <2>5. PsTypeOK
    BY <2>1, <2>2, <2>3, <2>4 DEF PsTypeOK, PsSelves, PsPlaces
  <2>6. \A o \in Op : psSelf[o] = PsIdle
    BY DEF PsInit
  <2>7. PsIdle.at = "idle" /\ PsIdle.task = "none"
    BY DEF PsIdle
  <2>8. PsApart
    BY <2>6, <2>7 DEF PsApart, PsWrites
  <2>9. \A o \in Op : PsFits(o) /\ PsPlaced(o)
    BY <2>6, <2>7 DEF PsFits, PsPlaced, PsAt
  <2> QED BY <2>5, <2>8, <2>9 DEF PsIInv
<1>2. PsIInv /\ [PsNext]_psVars => PsIInv'
  <2> SUFFICES ASSUME PsIInv, [PsNext]_psVars PROVE PsIInv'
    OBVIOUS
  <2>1. ASSUME NEW o \in Op, PsStep(o) PROVE PsIInv'
    <3>1. PsTypeOK' /\ PsApart'
      BY <2>1, PsTypedStep, PsApartStep DEF PsIInv
    <3>2. ASSUME NEW p \in Op PROVE PsFits(p)' /\ PsPlaced(p)'
      BY <2>1, PsOwnStep, PsOthersStep
    <3> QED BY <3>1, <3>2 DEF PsIInv
  <2>2. CASE PsPublish
    BY <2>2, PsPublishStep
  <2>3. CASE UNCHANGED psVars
    BY <2>3 DEF psVars, PsIInv, PsTypeOK, PsApart, PsFits, PsPlaced, PsAt, PsCurrent
  <2> QED BY <2>1, <2>2, <2>3 DEF PsNext, PsStep
<1> QED BY <1>1, <1>2, PTL DEF PsSpec

\* Whatever is published, installed, updated, synchronized, fails or dies
\* meanwhile, what runs under the name of a plugin is the build that its lock
\* had pinned, unless that plugin is just being removed or two commands write
\* at once: PluginStore::resolve compares the checksum before the spawn, and no
\* install replaces a build that is there (plugin_store.rs).
THEOREM RunsWhatIsPinned == PsSpec => []PsRunsWhatIsPinned
<1>1. PsIInv => PsRunsWhatIsPinned
  BY DEF PsIInv, PsPlaced, PsRunsWhatIsPinned
<1> QED BY <1>1, PsInductive, PTL

\* The lock and its temporary file, the store, the sources and every process
\* have their types (PluginLock, PluginStore).
THEOREM StoreTypeCorrect == PsSpec => []PsTypeOK
BY PsInductive, PTL DEF PsIInv

------------------------------------------------------------------------------
(* The plugin store: what the answer of a command rests on.                *)

\* Who writes the lock is not a sync; who is done has written something.
PsWriting(o) == psSelf[o].at \in {"writing", "renaming"}
PsAims(o) ==
    LET self == psSelf[o] IN
    /\ self.at \in {"probing", "opening", "writing", "renaming"} => self.task # "sync"
    /\ self.at = "done" => PsWrites(self.task)

\* Unless two were writing it at once, the temporary file has what its one
\* writer has put there, and the lock can be read.
PsFile ==
    ~psClash =>
        /\ PsReadable
        /\ \A o \in Op : PsWriting(o) =>
            /\ psSelf[o].open = "temp"
            /\ psTemp = IF PsAt(o, "writing") THEN PsEmpty ELSE psSelf[o].copy
        /\ \A o, p \in Op : PsWriting(o) /\ PsWriting(p) => o = p

\* Nobody writes beside a writer that is alone.
PsSole ==
    \A o, p \in Op : psSelf[o].alone /\ PsWrites(psSelf[o].task) /\ PsWrites(psSelf[p].task) => o = p

\* What it has found or made is there: the build that an install or an update
\* pins, every build that a sync has dealt with, and the lock that was saved.
PsInstalled(o) ==
    LET self == psSelf[o] IN
    self.task \in {"install", "update"} /\ self.at \in {"opening", "writing", "renaming", "done"} =>
        self.build # PsNone /\ PsCurrent(o) = self.build
PsDealtWith(o) ==
    {i \in PsIds : /\ psSelf[o].copy[i] # PsNone /\ i \notin psSelf[o].todo
                   /\ psSelf[o].at \in {"next", "done"} \/ i # psSelf[o].id}
PsSynced(o) ==
    LET self == psSelf[o] IN
    self.task = "sync" /\ self.at \in {"next", "fetching", "placing", "moving", "done"} =>
        /\ psLock \in {PsAbsent, self.copy} /\ PsLoaded = self.copy
        /\ \A i \in PsDealtWith(o) : psStore[i][PsVersion[self.copy[i]]] = self.copy[i]
        /\ self.at \notin {"next", "done"} => self.build = self.copy[self.id]
        /\ self.at = "done" => self.todo = {}
PsSaved(o) ==
    psSelf[o].task # "sync" /\ PsAt(o, "done") /\ ~psClash => psLock = psSelf[o].copy
PsHeld(o) == psSelf[o].alone => PsInstalled(o) /\ PsSynced(o) /\ PsSaved(o)

PsKept == PsIInv /\ PsFile /\ PsSole /\ \A o \in Op : PsAims(o) /\ PsHeld(o)

\* A set of pins is not a file that is absent, empty or torn.
LEMMA PsPinsAreThere == ASSUME NEW pins \in PsPins PROVE pins \notin {PsAbsent, PsEmpty, PsTorn}
<1>1. PICK i \in PsIds : TRUE
  BY PsAssumption DEF PsAssumption
<1>2. pins[i] \in Nat
  <2>1. pins[i] \in PsBuilds \union {PsNone}
    BY <1>1 DEF PsPins
  <2>2. \A b \in PsBuilds : b \in Nat
    BY PsAssumption DEF PsAssumption
  <2>3. CASE pins[i] \in PsBuilds
    BY <2>2, <2>3
  <2>4. CASE pins[i] = PsNone
    BY <2>4 DEF PsNone
  <2> QED BY <2>1, <2>3, <2>4
<1>3. PsAbsent[i] = 0 - 1 /\ PsEmpty[i] = 0 - 2 /\ PsTorn[i] = 0 - 3
  BY <1>1 DEF PsAbsent, PsEmpty, PsTorn
<1>4. pins[i] \notin {0 - 1, 0 - 2, 0 - 3}
  BY <1>2
<1>5. pins[i] # PsAbsent[i] /\ pins[i] # PsEmpty[i] /\ pins[i] # PsTorn[i]
  BY <1>3, <1>4
<1> QED BY <1>5

\* Once two were writing the lock at once, they were.
LEMMA PsClashes == ASSUME NEW o \in Op, PsStep(o) PROVE ~psClash' => ~psClash
BY DEF PsStep, PsBegin, PsLoad, PsOpen, PsWrite, PsRename, PsProbe, PsTakeNext, PsFetch, PsLookAt,
       PsMove, PsRemove, PsVerify, PsStart, PsFinish, PsDie

\* Nobody but who renames takes the open file from another.
LEMMA PsOthersOpen ==
    ASSUME psSelf \in [Op -> PsSelves], NEW o \in Op, PsStep(o), ~PsRename(o), NEW p \in Op, p # o
    PROVE  psSelf'[p] = PsIdle \/ psSelf'[p].open = psSelf[p].open
<1>1. CASE PsBegin(o)
  <2>1. PICK alone \in BOOLEAN :
            psSelf'[p] = PsOf(psSelf[p].at, psSelf[p].task, psSelf[p].id, psSelf[p].copy,
                              psSelf[p].todo, psSelf[p].build, psSelf[p].open, alone)
    BY <1>1, PsBegins
  <2> QED BY <2>1 DEF PsOf
<1>2. CASE PsRemove(o)
  BY <1>2, PsRemoves DEF PsElse
<1>3. CASE PsElse(o)
  BY <1>3 DEF PsElse
<1>4. CASE PsLoad(o) \/ PsOpen(o) \/ PsProbe(o) \/ PsTakeNext(o) \/ PsStart(o)
  BY <1>3, <1>4, PsLoads, PsOpens, PsProbes, PsTakesNext, PsStarts
<1>5. CASE PsWrite(o) \/ PsFetch(o) \/ PsLookAt(o) \/ PsMove(o) \/ PsVerify(o) \/ PsFinish(o)
            \/ PsDie(o)
  <2>1. PsEnd(o) \/ (\E where : PsGo(o, where)) \/ PsStored(o)
    BY <1>5 DEF PsWrite, PsFetch, PsLookAt, PsMove, PsVerify, PsFinish, PsDie, PsFails
  <2> QED BY <1>3, <2>1, PsEnds, PsGoes, PsStores
<1> QED BY <1>1, <1>2, <1>4, <1>5 DEF PsStep

\* Only a command that writes changes the lock or the store.
LEMMA PsOnlyWriters ==
    ASSUME NEW o \in Op, PsStep(o), PsFits(o), ~PsWrites(psSelf[o].task)
    PROVE  psLock' = psLock /\ psStore' = psStore
<1>1. ~PsWrite(o) /\ ~PsRename(o) /\ ~PsMove(o) /\ ~PsRemove(o)
  BY DEF PsWrite, PsRename, PsMove, PsRemove, PsFits, PsAt, PsWrites
<1> QED
  BY <1>1 DEF PsStep, PsBegin, PsLoad, PsOpen, PsProbe, PsTakeNext, PsFetch, PsLookAt,
              PsVerify, PsStart, PsFinish, PsDie

\* Where the step of a process leads to that neither begins nor ends.
LEMMA PsGoal ==
    ASSUME PsIInv, NEW o \in Op, PsAims(o), PsStep(o), psSelf'[o] # PsIdle
    PROVE  \/ PsBegin(o) /\ psSelf'[o].at \in {"probing", "loading"}
              /\ (psSelf'[o].at = "probing" => psSelf'[o].task = "install")
           \/ /\ psSelf'[o].task = psSelf[o].task /\ psSelf'[o].alone = psSelf[o].alone
              /\ \/ PsLoad(o) /\ psSelf'[o].at = PsRoute(o, PsLoaded)
                 \/ PsOpen(o) /\ psSelf'[o].at = "writing"
                 \/ PsWrite(o) /\ psSelf'[o].at = "renaming"
                 \/ PsRename(o) /\ psSelf'[o].at = "done"
                 \/ PsProbe(o) /\ psSelf'[o].at \in {"loading", "fetching"}
                 \/ PsTakeNext(o) /\ psSelf'[o].at \in {"done", "fetching"}
                 \/ (PsFetch(o) \/ PsMove(o)) /\ PsStored(o)
                    /\ psSelf'[o].at = (IF psSelf[o].task = "sync" THEN "next" ELSE "opening")
                 \/ PsFetch(o) /\ psSelf'[o].at = "placing"
                 \/ PsLookAt(o) /\ psSelf'[o].at = "moving"
                 \/ PsRemove(o) /\ psSelf'[o].at = "opening"
                 \/ PsVerify(o) /\ psSelf'[o].at = "starting"
                 \/ PsStart(o) /\ psSelf'[o].at = "running"
<1>1. psSelf \in [Op -> PsSelves] /\ PsFits(o)
  BY DEF PsIInv, PsTypeOK, PsSelves, PsPlaces
<1>2. CASE PsBegin(o)
  <2>1. PICK task \in PsTasks, id \in PsIds, alone \in BOOLEAN :
            psSelf'[o] = PsOf(IF task = "install" THEN "probing" ELSE "loading", task, id,
                              PsNoPins, {}, PsNone, "nothing", alone)
    BY <1>1, <1>2, PsBegins
  <2> QED BY <1>2, <2>1 DEF PsOf
<1>3. CASE ~PsBegin(o)
  <2>1. psSelf'[o].task = psSelf[o].task /\ psSelf'[o].alone = psSelf[o].alone
    BY <1>1, <1>3, PsKeepsTask
  <2>2. ~PsEnd(o)
    BY <1>1, PsEnds
  <2>3. ASSUME NEW where, PsGo(o, where) PROVE psSelf'[o].at = where
    BY <1>1, <2>3, PsGoes, PsFields DEF PsMovesOn
  <2>4. ASSUME PsStored(o)
        PROVE  psSelf'[o].at = (IF psSelf[o].task = "sync" THEN "next" ELSE "opening")
    BY <1>1, <2>4, PsStores, PsFields DEF PsMovesOn
  <2>5. CASE PsLoad(o)
    <3>1. \E copy, todo, build :
            PsTurns(o, PsRoute(o, PsLoaded), psSelf[o].id, copy, todo, build, psSelf[o].open)
      BY <1>1, <2>5, PsLoads
    <3> QED BY <2>1, <2>5, <3>1, PsFields
  <2>6. CASE PsOpen(o)
    BY <1>1, <2>1, <2>6, PsOpens, PsFields
  <2>7. CASE PsWrite(o)
    BY <2>1, <2>2, <2>3, <2>7 DEF PsWrite, PsFails
  <2>8. CASE PsRename(o)
    BY <1>1, <2>1, <2>8, PsRenames, PsFields
  <2>9. CASE PsProbe(o)
    BY <1>1, <2>1, <2>9, PsProbes, PsFields
  <2>10. CASE PsTakeNext(o)
    <3>1. \/ PsMovesOn(o, "done")
          \/ PsTurns(o, "fetching", PsFollowing(o), psSelf[o].copy, psSelf[o].todo \ {PsFollowing(o)},
                     psSelf[o].copy[PsFollowing(o)], psSelf[o].open)
      BY <1>1, <2>10, PsTakesNext
    <3> QED BY <2>1, <2>10, <3>1, PsFields DEF PsMovesOn
  <2>11. CASE PsFetch(o)
    BY <2>1, <2>2, <2>3, <2>4, <2>11 DEF PsFetch, PsFails
  <2>12. CASE PsLookAt(o)
    BY <2>1, <2>2, <2>3, <2>12 DEF PsLookAt
  <2>13. CASE PsMove(o)
    BY <2>1, <2>2, <2>4, <2>13 DEF PsMove, PsFails
  <2>14. CASE PsRemove(o)
    BY <1>1, <2>1, <2>14, PsRemoves, PsFields
  <2>15. CASE PsVerify(o)
    BY <2>1, <2>2, <2>3, <2>15 DEF PsVerify
  <2>16. CASE PsStart(o)
    BY <1>1, <2>1, <2>16, PsStarts, PsFields
  <2>17. CASE PsFinish(o) \/ PsDie(o)
    BY <2>2, <2>17 DEF PsFinish, PsDie
  <2> QED
    BY <1>3, <2>5, <2>6, <2>7, <2>8, <2>9, <2>10, <2>11, <2>12, <2>13, <2>14, <2>15, <2>16, <2>17
    DEF PsStep
<1> QED BY <1>2, <1>3

\* Everyone still aims at what it may.
LEMMA PsAimsStep ==
    ASSUME PsKept, NEW o \in Op, PsStep(o), NEW p \in Op
    PROVE  PsAims(p)'
<1>1. /\ psSelf \in [Op -> PsSelves] /\ PsIInv /\ PsFits(o) /\ PsAims(o) /\ PsAims(p)
      /\ psSelf[o].task \in PsTasks \union {"none"}
  BY DEF PsKept, PsIInv, PsTypeOK, PsSelves, PsPlaces
<1>2. CASE psSelf'[p] = PsIdle
  BY <1>2 DEF PsAims, PsIdle
<1>3. CASE psSelf'[p] # PsIdle /\ p # o
  <2>1. psSelf'[p].at = psSelf[p].at /\ psSelf'[p].task = psSelf[p].task
    BY <1>1, <1>3, PsOthers DEF PsLike
  <2> QED BY <1>1, <2>1 DEF PsAims
<1>4. CASE psSelf'[p] # PsIdle /\ p = o
  <2>1. CASE PsBegin(o) /\ psSelf'[o].at \in {"probing", "loading"}
                /\ (psSelf'[o].at = "probing" => psSelf'[o].task = "install")
    BY <1>4, <2>1 DEF PsAims
  <2>2. CASE psSelf'[o].task = psSelf[o].task /\ PsLoad(o) /\ psSelf'[o].at = PsRoute(o, PsLoaded)
    <3>1. psSelf[o].task # "none"
      BY <1>1, <2>2 DEF PsLoad, PsAt, PsFits
    <3>2. PsRoute(o, PsLoaded) \notin {"writing", "renaming", "done"}
      BY <1>1, <3>1, PsRoutes
    <3>3. PsRoute(o, PsLoaded) \in {"probing", "opening"} => psSelf[o].task # "sync"
      BY DEF PsRoute
    <3> QED BY <1>4, <2>2, <3>2, <3>3 DEF PsAims
  <2>3. CASE psSelf'[o].task = psSelf[o].task /\ PsOpen(o) /\ psSelf'[o].at = "writing"
    BY <1>1, <1>4, <2>3 DEF PsAims, PsOpen, PsAt
  <2>4. CASE psSelf'[o].task = psSelf[o].task /\ PsWrite(o) /\ psSelf'[o].at = "renaming"
    BY <1>1, <1>4, <2>4 DEF PsAims, PsWrite, PsAt
  <2>5. CASE psSelf'[o].task = psSelf[o].task /\ PsRename(o) /\ psSelf'[o].at = "done"
    BY <1>1, <1>4, <2>5 DEF PsAims, PsRename, PsAt, PsFits
  <2>6. CASE psSelf'[o].task = psSelf[o].task /\ PsTakeNext(o) /\ psSelf'[o].at \in {"done", "fetching"}
    BY <1>1, <1>4, <2>6 DEF PsAims, PsTakeNext, PsAt, PsFits
  <2>7. CASE psSelf'[o].task = psSelf[o].task
                /\ psSelf'[o].at = (IF psSelf[o].task = "sync" THEN "next" ELSE "opening")
    BY <1>4, <2>7 DEF PsAims
  <2>8. CASE psSelf'[o].task = psSelf[o].task /\ PsRemove(o) /\ psSelf'[o].at = "opening"
    BY <1>1, <1>4, <2>8 DEF PsAims, PsRemove, PsAt, PsFits
  <2>9. CASE psSelf'[o].at \in {"loading", "fetching", "placing", "moving", "starting", "running"}
    BY <1>4, <2>9 DEF PsAims
  <2> QED BY <1>1, <1>4, <2>1, <2>2, <2>3, <2>4, <2>5, <2>6, <2>7, <2>8, <2>9, PsGoal
<1> QED BY <1>2, <1>3, <1>4

\* A writer that is alone stays the only one, or is alone no more.
LEMMA PsSoleStep ==
    ASSUME PsTypeOK, PsSole, NEW o \in Op, PsStep(o)
    PROVE  PsSole'
<1>1. psSelf \in [Op -> PsSelves]
  BY DEF PsTypeOK, PsSelves, PsPlaces
<1>2. PsIdle.task = "none" /\ ~PsWrites("none")
  BY DEF PsIdle, PsWrites
<1>3. CASE PsBegin(o)
  <2>1. PICK task \in PsTasks, id \in PsIds :
            /\ \E alone \in BOOLEAN :
                /\ psSelf'[o] = PsOf(IF task = "install" THEN "probing" ELSE "loading", task, id,
                                     PsNoPins, {}, PsNone, "nothing", alone)
                /\ alone => \A p \in Op : ~PsDisturbs(task, psSelf[p].task)
            /\ \A p \in Op : p # o => \E alone \in BOOLEAN :
                /\ psSelf'[p] = PsOf(psSelf[p].at, psSelf[p].task, psSelf[p].id, psSelf[p].copy,
                                     psSelf[p].todo, psSelf[p].build, psSelf[p].open, alone)
                /\ alone => psSelf[p].alone /\ ~PsDisturbs(task, psSelf[p].task)
    BY <1>1, <1>3, PsBegins
  <2>2. /\ psSelf'[o].task = task
        /\ psSelf'[o].alone => \A p \in Op : ~PsDisturbs(task, psSelf[p].task)
    BY <2>1 DEF PsOf
  <2>3. ASSUME NEW p \in Op, p # o
        PROVE  /\ psSelf'[p].task = psSelf[p].task
               /\ psSelf'[p].alone => psSelf[p].alone /\ ~PsDisturbs(task, psSelf[p].task)
    <3>1. PICK alone \in BOOLEAN :
            /\ psSelf'[p] = PsOf(psSelf[p].at, psSelf[p].task, psSelf[p].id, psSelf[p].copy,
                                 psSelf[p].todo, psSelf[p].build, psSelf[p].open, alone)
            /\ alone => psSelf[p].alone /\ ~PsDisturbs(task, psSelf[p].task)
      BY <2>1, <2>3
    <3> QED BY <3>1 DEF PsOf
  <2>4. \A t : PsWrites(task) /\ PsWrites(t) => PsDisturbs(task, t)
    BY DEF PsDisturbs
  <2> QED BY <2>2, <2>3, <2>4 DEF PsSole
<1>4. CASE ~PsBegin(o)
  <2>1. ASSUME NEW p \in Op, PsWrites(psSelf'[p].task)
        PROVE  psSelf'[p].task = psSelf[p].task /\ (psSelf'[p].alone => psSelf[p].alone)
    BY <1>1, <1>2, <1>4, <2>1, PsKeepsTask, PsOthers DEF PsLike
  <2> QED BY <2>1 DEF PsSole
<1> QED BY <1>3, <1>4

\* The temporary file still has what its one writer has put there.
LEMMA PsFileStep ==
    ASSUME PsKept, NEW o \in Op, PsStep(o)
    PROVE  PsFile'
<1> SUFFICES ASSUME ~psClash'
             PROVE  /\ PsReadable'
                    /\ \A p \in Op : PsWriting(p)' =>
                        /\ psSelf'[p].open = "temp"
                        /\ psTemp' = IF PsAt(p, "writing")' THEN PsEmpty ELSE psSelf'[p].copy
                    /\ \A p, q \in Op : PsWriting(p)' /\ PsWriting(q)' => p = q
  BY DEF PsFile
<1>1. /\ psSelf \in [Op -> PsSelves] /\ PsIInv /\ PsFits(o) /\ PsAims(o)
      /\ psSelf[o].task \in PsTasks \union {"none"} /\ psSelf[o].copy \in PsPins
  BY DEF PsKept, PsIInv, PsTypeOK, PsSelves, PsPlaces
<1>2. /\ ~psClash /\ PsReadable
      /\ \A p \in Op : PsWriting(p) =>
            /\ psSelf[p].open = "temp"
            /\ psTemp = IF PsAt(p, "writing") THEN PsEmpty ELSE psSelf[p].copy
      /\ \A p, q \in Op : PsWriting(p) /\ PsWriting(q) => p = q
  BY PsClashes DEF PsKept, PsFile
<1>4. ASSUME NEW p \in Op, p # o, PsWriting(p)'
      PROVE  /\ PsWriting(p) /\ psSelf'[p].at = psSelf[p].at /\ psSelf'[p].copy = psSelf[p].copy
             /\ ~PsRename(o) => psSelf'[p].open = psSelf[p].open
  <2>1. psSelf'[p] # PsIdle
    BY <1>4 DEF PsWriting, PsIdle
  <2>2. psSelf'[p].at = psSelf[p].at /\ psSelf'[p].copy = psSelf[p].copy
    BY <1>1, <1>4, <2>1, PsOthers DEF PsLike
  <2> QED BY <1>1, <1>4, <2>1, <2>2, PsOthersOpen DEF PsWriting
<1>5. CASE PsOpen(o)
  <2>1. PsTurns(o, "writing", psSelf[o].id, psSelf[o].copy, psSelf[o].todo, psSelf[o].build, "temp")
    BY <1>1, <1>5, PsOpens
  <2>2. psSelf'[o].at = "writing" /\ psSelf'[o].open = "temp"
    BY <2>1, PsFields
  <2>3. psTemp' = PsEmpty /\ psLock' = psLock /\ \A p \in Op \ {o} : psSelf[p].open # "temp"
    BY <1>5 DEF PsOpen
  <2>4. \A p \in Op : PsWriting(p)' => p = o
    BY <1>2, <1>4, <2>3
  <2>5. PsReadable'
    BY <1>2, <2>3 DEF PsReadable
  <2> QED BY <2>2, <2>3, <2>4, <2>5 DEF PsAt
<1>6. CASE PsWriting(o) /\ (PsWrite(o) \/ PsRename(o))
  <2>1. \A p \in Op : PsWriting(p)' => p = o
    BY <1>2, <1>4, <1>6
  <2>2. CASE psSelf'[o] = PsIdle
    <3>1. ~PsWriting(o)'
      BY <2>2 DEF PsWriting, PsIdle
    <3>2. psLock' = psLock
      <4>1. ASSUME NEW where \in {"renaming", "done"}, PsGo(o, where) PROVE FALSE
        BY <1>1, <2>2, <4>1, PsGoes, PsFields DEF PsMovesOn, PsIdle
      <4>2. CASE PsWrite(o)
        BY <4>1, <4>2 DEF PsWrite
      <4>3. CASE PsRename(o)
        <5>1. psSelf'[o].at # "done"
          BY <2>2 DEF PsIdle
        <5> QED BY <1>1, <4>3, <5>1 DEF PsRename, PsSelves
      <4> QED BY <1>6, <4>2, <4>3
    <3> QED BY <1>2, <2>1, <3>1, <3>2 DEF PsReadable
  <2>3. CASE psSelf'[o] # PsIdle /\ PsWrite(o)
    <3>1. ~PsEnd(o)
      BY <1>1, <2>3, PsEnds
    <3>2. psTemp = PsEmpty /\ psSelf[o].open = "temp"
      BY <1>2, <1>6, <2>3 DEF PsWrite, PsAt
    <3>3. psTemp' = psSelf[o].copy /\ psLock' = psLock /\ PsGo(o, "renaming")
      BY <2>3, <3>1, <3>2 DEF PsWrite, PsFails, PsOver
    <3>4. psSelf'[o].at = "renaming" /\ psSelf'[o].copy = psSelf[o].copy /\ psSelf'[o].open = "temp"
      BY <1>1, <3>2, <3>3, PsGoes, PsFields DEF PsMovesOn
    <3>5. PsReadable'
      BY <1>2, <3>3 DEF PsReadable
    <3> QED BY <2>1, <3>3, <3>4, <3>5 DEF PsAt
  <2>4. CASE psSelf'[o] # PsIdle /\ PsRename(o)
    <3>1. ~PsEnd(o)
      BY <1>1, <2>4, PsEnds
    <3>2. psTemp = psSelf[o].copy
      BY <1>2, <1>6, <2>4 DEF PsRename, PsAt
    <3>3. psLock' = psTemp
      BY <2>4, <3>1 DEF PsRename, PsFails
    <3>4. PsTurns(o, "done", psSelf[o].id, psSelf[o].copy, psSelf[o].todo, psSelf[o].build, "nothing")
      BY <1>1, <2>4, PsRenames
    <3>5. ~PsWriting(o)'
      BY <3>4, PsFields DEF PsWriting
    <3> QED BY <1>1, <2>1, <3>2, <3>3, <3>5 DEF PsReadable
  <2> QED BY <1>6, <2>2, <2>3, <2>4
<1>7. CASE ~PsOpen(o) /\ ~PsWrite(o) /\ ~PsRename(o)
  <2>1. psLock' = psLock /\ psTemp' = psTemp
    BY <1>7 DEF PsStep, PsBegin, PsLoad, PsProbe, PsTakeNext, PsFetch, PsLookAt, PsMove, PsRemove,
                PsVerify, PsStart, PsFinish, PsDie
  <2>2. ~PsWriting(o)'
    <3>1. CASE psSelf'[o] = PsIdle
      BY <3>1 DEF PsWriting, PsIdle
    <3>2. PsLoad(o) => PsRoute(o, PsLoaded) \notin {"writing", "renaming"}
      BY <1>1, PsRoutes DEF PsLoad, PsAt, PsFits
    <3>3. CASE psSelf'[o] # PsIdle
      <4>1. psSelf'[o].at \notin {"writing", "renaming"}
        BY <1>1, <1>7, <3>2, <3>3, PsGoal
      <4> QED BY <4>1 DEF PsWriting
    <3> QED BY <3>1, <3>3
  <2>3. \A p \in Op : PsWriting(p)' => p # o
    BY <2>2
  <2>4. ASSUME NEW p \in Op, PsWriting(p)'
        PROVE  /\ PsWriting(p) /\ psSelf'[p].at = psSelf[p].at /\ psSelf'[p].copy = psSelf[p].copy
               /\ psSelf'[p].open = psSelf[p].open
    BY <1>4, <1>7, <2>3, <2>4
  <2>5. PsReadable'
    BY <1>2, <2>1 DEF PsReadable
  <2>6. ASSUME NEW p \in Op, PsWriting(p)'
        PROVE  /\ psSelf'[p].open = "temp"
               /\ psTemp' = IF PsAt(p, "writing")' THEN PsEmpty ELSE psSelf'[p].copy
    BY <1>2, <2>1, <2>4, <2>6 DEF PsAt
  <2>7. ASSUME NEW p \in Op, NEW q \in Op, PsWriting(p)', PsWriting(q)' PROVE p = q
    BY <1>2, <2>4, <2>7
  <2> QED BY <2>5, <2>6, <2>7
<1>8. PsWrite(o) \/ PsRename(o) => PsWriting(o)
  BY DEF PsWrite, PsRename, PsAt, PsWriting
<1> QED BY <1>5, <1>6, <1>7, <1>8

\* What another relies on is still there: nobody writes beside it.
LEMMA PsHeldByOthers ==
    ASSUME PsKept, NEW o \in Op, PsStep(o), NEW p \in Op, p # o
    PROVE  PsHeld(p)'
<1> SUFFICES ASSUME psSelf'[p].alone PROVE PsInstalled(p)' /\ PsSynced(p)' /\ PsSaved(p)'
  BY DEF PsHeld
<1>1. /\ psSelf \in [Op -> PsSelves] /\ PsFits(o) /\ PsAims(p) /\ PsSole /\ PsHeld(p)
  BY DEF PsKept, PsIInv, PsTypeOK, PsSelves, PsPlaces
<1>2. CASE psSelf'[p] = PsIdle
  BY <1>2 DEF PsIdle, PsInstalled, PsSynced, PsSaved, PsAt
<1>3. CASE psSelf'[p] # PsIdle
  <2>1. /\ psSelf'[p].at = psSelf[p].at /\ psSelf'[p].task = psSelf[p].task
        /\ psSelf'[p].id = psSelf[p].id /\ psSelf'[p].copy = psSelf[p].copy
        /\ psSelf'[p].todo = psSelf[p].todo /\ psSelf'[p].build = psSelf[p].build
        /\ psSelf[p].alone
    BY <1>1, <1>3, PsOthers DEF PsLike
  <2>2. CASE PsWrites(psSelf[p].task)
    <3>1. psLock' = psLock /\ psStore' = psStore
      BY <1>1, <2>1, <2>2, PsOnlyWriters DEF PsSole
    <3>2. PsInstalled(p) /\ PsSynced(p) /\ PsSaved(p)
      BY <1>1, <2>1 DEF PsHeld
    <3>3. PsInstalled(p)'
      BY <2>1, <3>1, <3>2 DEF PsInstalled, PsCurrent
    <3>4. PsDealtWith(p)' = PsDealtWith(p) /\ PsLoaded' = PsLoaded
      BY <2>1, <3>1 DEF PsDealtWith, PsLoaded
    <3>5. PsSynced(p)'
      BY <2>1, <3>1, <3>2, <3>4 DEF PsSynced
    <3>6. PsSaved(p)'
      BY <2>1, <3>1, <3>2, PsClashes DEF PsSaved, PsAt
    <3> QED BY <3>3, <3>5, <3>6
  <2>3. CASE ~PsWrites(psSelf[p].task)
    <3>1. psSelf[p].task \in {"none", "run"} /\ psSelf[p].at # "done"
      BY <1>1, <2>3 DEF PsWrites, PsAims
    <3> QED BY <2>1, <3>1 DEF PsInstalled, PsSynced, PsSaved, PsAt
  <2> QED BY <2>2, <2>3
<1> QED BY <1>2, <1>3

\* What has been installed for a lock is there until the lock is written.
LEMMA PsInstalledStep ==
    ASSUME PsKept, NEW o \in Op, PsStep(o), psSelf'[o] # PsIdle, psSelf'[o].alone
    PROVE  PsInstalled(o)'
<1> DEFINE x == psSelf[o]
<1>1. /\ psSelf \in [Op -> PsSelves] /\ PsIInv /\ PsTypeOK /\ PsFits(o) /\ PsAims(o) /\ PsHeld(o)
  BY DEF PsKept, PsIInv, PsTypeOK, PsSelves, PsPlaces
<1>2. CASE PsBegin(o)
  <2>1. PICK task \in PsTasks, id \in PsIds, alone \in BOOLEAN :
            psSelf'[o] = PsOf(IF task = "install" THEN "probing" ELSE "loading", task, id,
                              PsNoPins, {}, PsNone, "nothing", alone)
    BY <1>1, <1>2, PsBegins
  <2> QED BY <2>1 DEF PsOf, PsInstalled
<1>4. CASE \/ psSelf'[o].at \notin {"opening", "writing", "renaming", "done"}
           \/ psSelf'[o].task \notin {"install", "update"}
  BY <1>4 DEF PsInstalled
<1>3. CASE /\ ~PsBegin(o) /\ psSelf'[o].at \in {"opening", "writing", "renaming", "done"}
           /\ psSelf'[o].task \in {"install", "update"}
  <2>1. x.task = psSelf'[o].task /\ x.alone /\ PsInstalled(o)
    BY <1>1, <1>3, PsGoal DEF PsHeld
  <2>2. CASE PsOpen(o)
    <3>1. PsTurns(o, "writing", x.id, x.copy, x.todo, x.build, "temp")
      BY <1>1, <2>2, PsOpens
    <3>2. psSelf'[o].id = x.id /\ psSelf'[o].build = x.build /\ psStore' = psStore
      BY <2>2, <3>1, PsFields DEF PsOpen
    <3> QED BY <2>1, <2>2, <3>2 DEF PsInstalled, PsCurrent, PsOpen, PsAt
  <2>3. CASE PsWrite(o)
    <3>1. ~PsEnd(o)
      BY <1>1, PsEnds
    <3>2. PsMovesOn(o, "renaming")
      BY <1>1, <2>3, <3>1, PsGoes DEF PsWrite, PsFails
    <3>3. psSelf'[o].id = x.id /\ psSelf'[o].build = x.build /\ psStore' = psStore
      BY <2>3, <3>2, PsFields DEF PsWrite, PsMovesOn
    <3> QED BY <2>1, <2>3, <3>3 DEF PsInstalled, PsCurrent, PsWrite, PsAt
  <2>4. CASE PsRename(o)
    <3>1. PsTurns(o, "done", x.id, x.copy, x.todo, x.build, "nothing")
      BY <1>1, <2>4, PsRenames
    <3>2. psSelf'[o].id = x.id /\ psSelf'[o].build = x.build /\ psStore' = psStore
      BY <2>4, <3>1, PsFields DEF PsRename
    <3> QED BY <2>1, <2>4, <3>2 DEF PsInstalled, PsCurrent, PsRename, PsAt
  <2>5. PsStored(o) => psSelf'[o].id = x.id /\ psSelf'[o].build = x.build
    BY <1>1, PsStores, PsFields DEF PsMovesOn
  <2>6. CASE PsFetch(o) /\ PsStored(o)
    <3>1. x.build # PsNone /\ psStore' = psStore
      BY <1>1, <2>6 DEF PsFetch, PsAt, PsFits
    <3>2. PsCurrent(o) = x.build
      <4>1. ~PsEnd(o)
        BY <1>1, PsEnds
      <4>2. ~PsGo(o, "placing")
        BY <1>1, <1>3, PsGoes, PsFields DEF PsMovesOn
      <4> QED BY <2>6, <4>1, <4>2 DEF PsFetch, PsFails
    <3> QED BY <2>5, <2>6, <3>1, <3>2 DEF PsInstalled, PsCurrent
  <2>7. CASE PsMove(o) /\ PsStored(o)
    <3>1. x.build # PsNone
      BY <1>1, <2>7 DEF PsMove, PsAt, PsFits
    <3>2. ~PsEnd(o)
      BY <1>1, PsEnds
    <3>3. psStore' = [psStore EXCEPT ![x.id][PsVersion[x.build]] = x.build]
      BY <2>7, <3>2 DEF PsMove, PsFails
    <3>4. x.id \in PsIds /\ PsVersion[x.build] \in PsVersions
      BY <1>1, <3>1, PsPlace
    <3>5. psStore'[x.id][PsVersion[x.build]] = x.build
      BY <1>1, <3>3, <3>4 DEF PsTypeOK
    <3> QED BY <2>5, <2>7, <3>1, <3>5 DEF PsInstalled, PsCurrent
  <2>8. CASE PsLoad(o) \/ PsTakeNext(o) \/ PsRemove(o)
    <3>1. x.task \in {"install", "update"}
      BY <1>3, <2>1
    <3>2. PsLoad(o) => PsRoute(o, PsLoaded) \notin {"opening", "writing", "renaming", "done"}
      BY <3>1 DEF PsRoute
    <3>3. ~PsTakeNext(o) /\ ~PsRemove(o)
      BY <1>1, <3>1 DEF PsTakeNext, PsRemove, PsAt, PsFits
    <3>4. PsLoad(o) /\ psSelf'[o].at = PsRoute(o, PsLoaded)
      <4>1. PsLoad(o)
        BY <2>8, <3>3
      <4>2. \E copy, todo, build :
                PsTurns(o, PsRoute(o, PsLoaded), psSelf[o].id, copy, todo, build, psSelf[o].open)
        BY <1>1, <4>1, PsLoads
      <4> QED BY <4>1, <4>2, PsFields
    <3> QED BY <1>3, <3>2, <3>4
  <2> QED BY <1>1, <1>3, <2>2, <2>3, <2>4, <2>6, <2>7, <2>8, PsGoal
<1> QED BY <1>2, <1>3, <1>4

\* What a sync has dealt with is there, and it deals with what it has loaded.
LEMMA PsSyncedStep ==
    ASSUME PsKept, NEW o \in Op, PsStep(o), psSelf'[o] # PsIdle, psSelf'[o].alone
    PROVE  PsSynced(o)'
<1> DEFINE x == psSelf[o]
           syncing == {"next", "fetching", "placing", "moving", "done"}
<1>1. /\ psSelf \in [Op -> PsSelves] /\ PsIInv /\ PsTypeOK /\ PsFits(o) /\ PsAims(o) /\ PsHeld(o)
      /\ x.copy \in PsPins /\ x.id \in PsIds
  BY DEF PsKept, PsIInv, PsTypeOK, PsSelves, PsPlaces
<1>2. CASE PsBegin(o)
  <2>1. PICK task \in PsTasks, id \in PsIds, alone \in BOOLEAN :
            psSelf'[o] = PsOf(IF task = "install" THEN "probing" ELSE "loading", task, id,
                              PsNoPins, {}, PsNone, "nothing", alone)
    BY <1>1, <1>2, PsBegins
  <2> QED BY <2>1 DEF PsOf, PsSynced
<1>3. CASE psSelf'[o].at \notin syncing \/ psSelf'[o].task # "sync"
  BY <1>3 DEF PsSynced
<1>4. CASE ~PsBegin(o) /\ psSelf'[o].at \in syncing /\ psSelf'[o].task = "sync"
  <2>1. x.task = "sync" /\ x.alone /\ PsSynced(o)
    BY <1>1, <1>4, PsGoal DEF PsHeld
  <2>2. CASE PsLoad(o)
    <3>1. /\ PsReadable
          /\ \E build : PsTurns(o, PsRoute(o, PsLoaded), x.id, PsLoaded,
                                {i \in PsIds : PsLoaded[i] # PsNone}, build, x.open)
      BY <1>1, <2>2, PsLoads
    <3>2. /\ psSelf'[o].copy = PsLoaded /\ psSelf'[o].todo = {i \in PsIds : PsLoaded[i] # PsNone}
          /\ psSelf'[o].at = PsRoute(o, PsLoaded)
      BY <3>1, PsFields
    <3>3. PsRoute(o, PsLoaded) = "next"
      BY <2>1 DEF PsRoute
    <3>4. psLock' = psLock /\ psStore' = psStore /\ PsLoaded' = PsLoaded
      BY <2>2 DEF PsLoad, PsLoaded
    <3>5. PsDealtWith(o)' = {}
      BY <3>2 DEF PsDealtWith
    <3>6. psLock \in {PsAbsent, PsLoaded}
      BY DEF PsLoaded
    <3> QED BY <3>2, <3>3, <3>4, <3>5, <3>6 DEF PsSynced
  <2>3. CASE PsTakeNext(o)
    <3>1. psLock' = psLock /\ psStore' = psStore /\ PsLoaded' = PsLoaded
      BY <2>3 DEF PsTakeNext, PsLoaded
    <3>2. /\ psLock \in {PsAbsent, x.copy} /\ PsLoaded = x.copy
          /\ \A i \in PsDealtWith(o) : psStore[i][PsVersion[x.copy[i]]] = x.copy[i]
      BY <2>1, <2>3 DEF PsSynced, PsTakeNext, PsAt
    <3>3. CASE x.todo = {} /\ PsMovesOn(o, "done")
      <4>1. /\ psSelf'[o].at = "done" /\ psSelf'[o].copy = x.copy /\ psSelf'[o].todo = x.todo
        BY <3>3, PsFields DEF PsMovesOn
      <4>2. PsDealtWith(o)' = PsDealtWith(o)
        BY <2>3, <4>1 DEF PsDealtWith, PsTakeNext, PsAt
      <4> QED BY <3>1, <3>2, <3>3, <4>1, <4>2 DEF PsSynced
    <3>4. CASE /\ PsFollowing(o) \in x.todo
               /\ PsTurns(o, "fetching", PsFollowing(o), x.copy, x.todo \ {PsFollowing(o)},
                          x.copy[PsFollowing(o)], x.open)
      <4>1. /\ psSelf'[o].at = "fetching" /\ psSelf'[o].copy = x.copy
            /\ psSelf'[o].id = PsFollowing(o) /\ psSelf'[o].todo = x.todo \ {PsFollowing(o)}
            /\ psSelf'[o].build = x.copy[PsFollowing(o)]
        BY <3>4, PsFields
      <4>2. PsDealtWith(o)' \subseteq PsDealtWith(o)
        BY <2>3, <4>1 DEF PsDealtWith, PsTakeNext, PsAt
      <4> QED BY <3>1, <3>2, <4>1, <4>2 DEF PsSynced
    <3> QED BY <1>1, <2>3, <3>3, <3>4, PsTakesNext
  <2>4. ASSUME PsMovesOn(o, "placing") \/ PsMovesOn(o, "moving"), x.at \in {"fetching", "placing"},
               psLock' = psLock, psStore' = psStore
        PROVE  PsSynced(o)'
    <3>1. /\ psSelf'[o].at \in {"placing", "moving"} /\ psSelf'[o].copy = x.copy
          /\ psSelf'[o].id = x.id /\ psSelf'[o].todo = x.todo /\ psSelf'[o].build = x.build
      BY <2>4, PsFields DEF PsMovesOn
    <3>2. PsDealtWith(o)' = PsDealtWith(o) /\ PsLoaded' = PsLoaded
      BY <2>4, <3>1 DEF PsDealtWith, PsLoaded
    <3> QED BY <2>1, <2>4, <3>1, <3>2 DEF PsSynced
  <2>5. ASSUME PsMovesOn(o, "next"), x.at \in {"fetching", "moving"}, psLock' = psLock,
               psStore'[x.id][PsVersion[x.build]] = x.build,
               \A i \in PsIds, v \in PsVersions : i # x.id => psStore'[i][v] = psStore[i][v]
        PROVE  PsSynced(o)'
    <3>1. /\ psSelf'[o].at = "next" /\ psSelf'[o].copy = x.copy /\ psSelf'[o].id = x.id
          /\ psSelf'[o].todo = x.todo
      BY <2>5, PsFields DEF PsMovesOn
    <3>2. /\ psLock \in {PsAbsent, x.copy} /\ PsLoaded = x.copy /\ x.build = x.copy[x.id]
          /\ \A i \in PsDealtWith(o) : psStore[i][PsVersion[x.copy[i]]] = x.copy[i]
      BY <2>1, <2>5 DEF PsSynced
    <3>3. ASSUME NEW i \in PsDealtWith(o)'
          PROVE  psStore'[i][PsVersion[x.copy[i]]] = x.copy[i]
      <4>1. i \in PsIds /\ x.copy[i] # PsNone /\ i \notin x.todo
        BY <3>1 DEF PsDealtWith
      <4>2. CASE i = x.id
        BY <2>5, <3>2, <4>2
      <4>3. CASE i # x.id
        <5>1. i \in PsDealtWith(o)
          BY <2>5, <4>1, <4>3 DEF PsDealtWith
        <5>2. PsVersion[x.copy[i]] \in PsVersions
          BY <1>1, <4>1, PsFirsts DEF PsPins
        <5> QED BY <2>5, <3>2, <4>1, <4>3, <5>1, <5>2
      <4> QED BY <4>2, <4>3
    <3>4. PsLoaded' = PsLoaded
      BY <2>5 DEF PsLoaded
    <3> QED BY <2>5, <3>1, <3>2, <3>3, <3>4 DEF PsSynced
  <2>6. ~PsEnd(o) /\ (PsStored(o) => PsMovesOn(o, "next"))
    BY <1>1, <2>1, PsEnds, PsStores
  <2>7. CASE PsFetch(o)
    <3>1. x.at = "fetching" /\ psLock' = psLock /\ psStore' = psStore
      BY <2>7 DEF PsFetch, PsAt
    <3>2. \/ PsCurrent(o) = x.build /\ PsMovesOn(o, "next")
          \/ PsMovesOn(o, "placing")
      BY <1>1, <2>6, <2>7, PsGoes DEF PsFetch, PsFails
    <3> QED BY <2>4, <2>5, <3>1, <3>2 DEF PsCurrent
  <2>8. CASE PsLookAt(o)
    <3>1. x.at = "placing" /\ psLock' = psLock /\ psStore' = psStore
      BY <2>8 DEF PsLookAt, PsAt
    <3>2. PsMovesOn(o, "moving")
      BY <1>1, <2>6, <2>8, PsGoes DEF PsLookAt
    <3> QED BY <2>4, <3>1, <3>2
  <2>9. CASE PsMove(o)
    <3>1. x.at = "moving" /\ psLock' = psLock /\ x.build # PsNone
      BY <1>1, <2>9 DEF PsMove, PsAt, PsFits
    <3>2. /\ psStore' = [psStore EXCEPT ![x.id][PsVersion[x.build]] = x.build]
          /\ PsMovesOn(o, "next")
      BY <2>6, <2>9 DEF PsMove, PsFails
    <3>3. x.id \in PsIds /\ PsVersion[x.build] \in PsVersions
      BY <1>1, <3>1, PsPlace
    <3>4. psStore \in [PsIds -> [PsVersions -> PsBuilds \union {PsNone}]]
      BY <1>1 DEF PsTypeOK
    <3>5. psStore'[x.id][PsVersion[x.build]] = x.build
      BY <3>2, <3>3, <3>4
    <3>6. \A i \in PsIds, v \in PsVersions : i # x.id => psStore'[i][v] = psStore[i][v]
      BY <3>2, <3>3, <3>4
    <3> QED BY <2>5, <3>1, <3>2, <3>5, <3>6
  <2>10. ~PsOpen(o) /\ ~PsWrite(o) /\ ~PsRename(o) /\ ~PsProbe(o) /\ ~PsRemove(o)
            /\ ~PsVerify(o) /\ ~PsStart(o)
    BY <1>1, <2>1 DEF PsAims, PsFits, PsOpen, PsWrite, PsRename, PsProbe, PsRemove, PsVerify,
                      PsStart, PsAt
  <2> QED BY <1>1, <1>4, <2>2, <2>3, <2>7, <2>8, <2>9, <2>10, PsGoal
<1> QED BY <1>2, <1>3, <1>4

\* Who saves a lock has saved its copy.
LEMMA PsSavedStep ==
    ASSUME PsKept, NEW o \in Op, PsStep(o), psSelf'[o] # PsIdle
    PROVE  PsSaved(o)'
<1> SUFFICES ASSUME psSelf'[o].task # "sync", psSelf'[o].at = "done", ~psClash'
             PROVE  psLock' = psSelf'[o].copy
  BY DEF PsSaved, PsAt
<1>1. psSelf \in [Op -> PsSelves] /\ PsIInv /\ PsFits(o) /\ PsAims(o) /\ PsFile
  BY DEF PsKept, PsIInv, PsTypeOK, PsSelves, PsPlaces
<1>2. PsRename(o)
  <2>1. PsLoad(o) => PsRoute(o, PsLoaded) # "done"
    <3>1. PsLoad(o) => psSelf[o].task # "none"
      BY <1>1 DEF PsLoad, PsAt, PsFits
    <3>2. psSelf[o].task \in PsTasks \union {"none"}
      BY <1>1 DEF PsSelves
    <3> QED BY <3>1, <3>2, PsRoutes
  <2>2. PsTakeNext(o) => psSelf[o].task = "sync"
    BY <1>1 DEF PsTakeNext, PsAt, PsFits
  <2> QED BY <1>1, <2>1, <2>2, PsGoal
<1>3. PsTurns(o, "done", psSelf[o].id, psSelf[o].copy, psSelf[o].todo, psSelf[o].build, "nothing")
  BY <1>1, <1>2, PsRenames
<1>4. psSelf'[o].copy = psSelf[o].copy
  BY <1>3, PsFields
<1>5. ~psClash
  BY PsClashes
<1>6. psTemp = psSelf[o].copy
  BY <1>1, <1>2, <1>5 DEF PsFile, PsWriting, PsRename, PsAt
<1>7. ~PsEnd(o)
  BY <1>1, PsEnds
<1> QED BY <1>2, <1>4, <1>6, <1>7 DEF PsRename, PsFails

------------------------------------------------------------------------------
(* The plugin store: what a command that succeeds has done.                *)

\* A step keeps all that the answers rest on.
LEMMA PsKeptStep ==
    ASSUME PsKept, NEW o \in Op, PsStep(o)
    PROVE  PsKept'
<1>1. PsTypeOK /\ PsSole /\ PsApart /\ PsFits(o) /\ PsIInv
  BY DEF PsKept, PsIInv
<1>2. PsIInv'
  <2>1. PsTypeOK' /\ PsApart'
    BY <1>1, PsTypedStep, PsApartStep
  <2>2. \A p \in Op : PsFits(p)' /\ PsPlaced(p)'
    BY <1>1, PsOthersStep, PsOwnStep
  <2> QED BY <2>1, <2>2 DEF PsIInv
<1>3. PsFile' /\ PsSole'
  BY <1>1, PsFileStep, PsSoleStep
<1>4. ASSUME NEW p \in Op PROVE PsAims(p)' /\ PsHeld(p)'
  <2>1. CASE p # o
    BY <2>1, PsAimsStep, PsHeldByOthers
  <2>2. CASE p = o /\ psSelf'[o] = PsIdle
    BY <2>2, PsAimsStep DEF PsIdle, PsHeld, PsInstalled, PsSynced, PsSaved, PsAt
  <2>3. CASE p = o /\ psSelf'[o] # PsIdle
    BY <2>3, PsAimsStep, PsInstalledStep, PsSyncedStep, PsSavedStep DEF PsHeld
  <2> QED BY <2>1, <2>2, <2>3
<1> QED BY <1>2, <1>3, <1>4 DEF PsKept

\* It holds in every state.
LEMMA PsKeptAlways == PsSpec => []PsKept
<1>1. PsInit /\ PsIInv => PsKept
  <2> SUFFICES ASSUME PsInit, PsIInv PROVE PsKept
    OBVIOUS
  <2>1. PsIdle.at = "idle" /\ PsIdle.task = "none"
    BY DEF PsIdle
  <2>2. ASSUME NEW o \in Op PROVE psSelf[o].at = "idle" /\ psSelf[o].task = "none"
    BY <2>1 DEF PsInit
  <2>3. PsFile
    BY <2>2 DEF PsInit, PsFile, PsReadable, PsWriting
  <2>4. PsSole
    BY <2>2 DEF PsSole, PsWrites
  <2>5. ASSUME NEW o \in Op PROVE PsAims(o) /\ PsHeld(o)
    BY <2>2 DEF PsAims, PsHeld, PsInstalled, PsSynced, PsSaved, PsAt
  <2> QED BY <2>3, <2>4, <2>5 DEF PsKept
<1>2. PsKept /\ [PsNext]_psVars => PsKept'
  <2> SUFFICES ASSUME PsKept, [PsNext]_psVars PROVE PsKept'
    OBVIOUS
  <2>1. ASSUME NEW o \in Op, PsStep(o) PROVE PsKept'
    BY <2>1, PsKeptStep
  <2>2. CASE PsPublish \/ UNCHANGED psVars
    <3>1. PsIInv'
      <4>1. CASE PsPublish
        BY <4>1, PsPublishStep DEF PsKept
      <4>2. CASE UNCHANGED psVars
        BY <4>2 DEF PsKept, PsIInv, psVars, PsTypeOK, PsApart, PsFits, PsPlaced, PsAt, PsCurrent
      <4> QED BY <2>2, <4>1, <4>2
    <3>2. psLock' = psLock /\ psTemp' = psTemp /\ psStore' = psStore /\ psSelf' = psSelf
          /\ psClash' = psClash
      BY <2>2 DEF PsPublish, psVars
    <3>3. PsFile'
      BY <3>2 DEF PsKept, PsFile, PsReadable, PsWriting, PsAt
    <3>4. PsSole'
      BY <3>2 DEF PsKept, PsSole
    <3>5. ASSUME NEW o \in Op PROVE PsAims(o)'
      BY <3>2 DEF PsKept, PsAims
    <3>6. ASSUME NEW o \in Op PROVE PsHeld(o)'
      BY <3>2 DEF PsKept, PsHeld, PsInstalled, PsCurrent, PsSynced, PsDealtWith, PsLoaded, PsSaved, PsAt
    <3> QED BY <3>1, <3>3, <3>4, <3>5, <3>6 DEF PsKept
  <2> QED BY <2>1, <2>2 DEF PsNext, PsStep
<1> QED BY <1>1, <1>2, PsInductive, PTL DEF PsSpec

\* Who has succeeded alone has made the lock and the store what it says.
LEMMA PsKeptTells == PsKept => PsAnswersAreTrue
<1> SUFFICES ASSUME PsKept PROVE PsAnswersAreTrue
  OBVIOUS
<1>1. PsReadable \/ psClash
  BY DEF PsKept, PsFile
<1>2. ASSUME NEW o \in Op, PsAt(o, "done"), psSelf[o].alone, ~psClash
      PROVE  /\ psLock \in {PsAbsent, psSelf[o].copy} /\ PsLoaded = psSelf[o].copy
             /\ psSelf[o].task = "sync" =>
                  \A i \in PsIds : PsLoaded[i] # PsNone =>
                    psStore[i][PsVersion[PsLoaded[i]]] = PsLoaded[i]
             /\ psSelf[o].task \in {"install", "update"} =>
                  psStore[psSelf[o].id][PsVersion[psSelf[o].build]] = psSelf[o].build
  <2>1. PsInstalled(o) /\ PsSynced(o) /\ PsSaved(o) /\ psSelf[o].copy \in PsPins
    BY <1>2 DEF PsKept, PsHeld, PsIInv, PsTypeOK
  <2>2. CASE psSelf[o].task = "sync"
    <3>1. /\ psLock \in {PsAbsent, psSelf[o].copy} /\ PsLoaded = psSelf[o].copy
          /\ psSelf[o].todo = {}
          /\ \A i \in PsDealtWith(o) : psStore[i][PsVersion[psSelf[o].copy[i]]] = psSelf[o].copy[i]
      BY <1>2, <2>1, <2>2 DEF PsSynced, PsAt
    <3>2. \A i \in PsIds : PsLoaded[i] # PsNone => i \in PsDealtWith(o)
      BY <1>2, <3>1 DEF PsDealtWith, PsAt
    <3> QED BY <2>2, <3>1, <3>2
  <2>3. CASE psSelf[o].task # "sync"
    <3>1. psLock = psSelf[o].copy
      BY <1>2, <2>1, <2>3 DEF PsSaved
    <3>2. PsLoaded = psSelf[o].copy
      BY <2>1, <3>1, PsPinsAreThere DEF PsLoaded
    <3>3. psSelf[o].task \in {"install", "update"} => PsCurrent(o) = psSelf[o].build
      BY <1>2, <2>1 DEF PsInstalled, PsAt
    <3> QED BY <2>3, <3>1, <3>2, <3>3 DEF PsCurrent
  <2> QED BY <2>2, <2>3
<1> QED BY <1>1, <1>2 DEF PsAnswersAreTrue

\* A plugin command that succeeds has made the lock and the store what it says,
\* and the lock can be read (PluginStore::install, save and sync), whatever else
\* runs, fails or dies, unless another changed them meanwhile.
THEOREM PsAnswersHold == PsSpec => []PsAnswersAreTrue
BY PsKeptAlways, PsKeptTells, PTL

------------------------------------------------------------------------------
(* The project file: the invariant.                                        *)

PfWrites(task) == task \notin {"none", "up", "down"}

PfPlaces == {"idle", "looking", "asking", "checking", "counting", "loading", "saving", "acting"}
PfSelves == [at : PfPlaces, task : PfTasks \union {"none"}, name : PfProfiles \union {"none"},
             copy : PfConfig]

\* Whoever does something was begun for a profile, and acts for a project.
PfTyped ==
    /\ PfTypeOK
    /\ \A o \in Op :
        /\ pfSelf[o].at = "idle" => pfSelf[o] = PfIdle
        /\ pfSelf[o].at # "idle" => pfSelf[o].name \in PfProfiles /\ pfRun # 0
        /\ pfSelf[o].at = "acting" => pfSelf[o].copy.id # 0

\* The file names the only identity that the project ever had.
PfOneId == pfIds = IF pfFile = PfNone THEN {} ELSE {pfFile.id}

\* Unless they raced, one initialization runs at a time, and no up beside a
\* command that writes.
PfApart ==
    \A p, q \in Op :
        /\ PfInits(pfSelf[p].task) /\ PfInits(pfSelf[q].task) => p = q
        /\ pfSelf[p].task = "up" => ~PfWrites(pfSelf[q].task)

\* A configuration leads to every live environment.
PfLeads(config) == \A e \in pfCloud : e[1] = config.id /\ e[2] \in config.profiles

\* What a command has read is still so, and what it holds to write loses no
\* environment.
PfHolds(o) ==
    LET self == pfSelf[o] IN
    /\ self.task = "force" => pfCloud = {}
    /\ self.at = "counting" => self.task = "remove"
    /\ self.at \in {"looking", "asking", "checking"} => PfInits(self.task)
    /\ self.at = "loading" => ~PfInits(self.task) /\ self.task # "none"
    /\ self.at = "loading" /\ self.task = "remove" => \A e \in pfCloud : e[2] # self.name
    /\ self.at = "acting" =>
        self.task \in {"up", "down"} /\ self.copy.id = pfFile.id /\ pfFile # PfNone
    /\ self.at = "acting" /\ self.task = "up" => self.name \in pfFile.profiles
    /\ self.at \in {"checking", "saving"} =>
        /\ PfWrites(self.task) /\ self.copy.id # 0
        /\ pfFile # PfNone => self.copy.id = pfFile.id /\ (self.task # "init" => PfLeads(self.copy))
        /\ pfFile = PfNone => PfInits(self.task)
    /\ self.at = "saving" /\ self.task = "init" => pfFile = PfNone

PfCalm == PfOneId /\ PfApart /\ PfLeads(pfFile) /\ \A o \in Op : PfHolds(o)
PfIInv == PfTyped /\ (pfRaced \/ PfCalm)

------------------------------------------------------------------------------
(* The project file: what a command stands for.                            *)

PfMoved(self, where) == [self EXCEPT !.at = where]
PfGiven(self, config) == [self EXCEPT !.copy = config]

\* The record of a process that is now elsewhere, with another configuration.
LEMMA PfRecords ==
    /\ \A x \in PfSelves : \A where :
        PfMoved(x, where) = [at |-> where, task |-> x.task, name |-> x.name, copy |-> x.copy]
    /\ \A where, task, name, copy, config :
        PfGiven([at |-> where, task |-> task, name |-> name, copy |-> copy], config)
            = [at |-> where, task |-> task, name |-> name, copy |-> config]
<1>1. ASSUME NEW x \in PfSelves, NEW where
      PROVE  PfMoved(x, where)
                = [at |-> where, task |-> x.task, name |-> x.name, copy |-> x.copy]
  <2>1. x = [at |-> x.at, task |-> x.task, name |-> x.name, copy |-> x.copy]
    BY DEF PfSelves
  <2> QED BY <2>1 DEF PfMoved
<1>2. ASSUME NEW where, NEW task, NEW name, NEW copy, NEW config
      PROVE  PfGiven([at |-> where, task |-> task, name |-> name, copy |-> copy], config)
                = [at |-> where, task |-> task, name |-> name, copy |-> config]
  BY DEF PfGiven
<1> QED BY <1>1, <1>2

\* The process is where it says, with the configuration it says, and all else
\* is as it was.
PfStands(o, where, config) ==
    /\ pfSelf'[o] = [at |-> where, task |-> pfSelf[o].task, name |-> pfSelf[o].name,
                     copy |-> config]
    /\ pfSelf' = [pfSelf EXCEPT ![o] = pfSelf'[o]]

\* Each way an action changes its process.
LEMMA PfMoves ==
    ASSUME PfTypeOK, NEW o \in Op
    PROVE  /\ pfSelf \in [Op -> PfSelves]
           /\ \A where : PfGo(o, where) => PfStands(o, where, pfSelf[o].copy)
           /\ \A where, config : PfTakes(o, config, where) => PfStands(o, where, config)
           /\ PfEnd(o) => pfSelf'[o] = PfIdle /\ pfSelf' = [pfSelf EXCEPT ![o] = pfSelf'[o]]
<1>1. pfSelf \in [Op -> PfSelves]
  BY DEF PfTypeOK, PfSelves, PfPlaces
<1>2. ASSUME NEW where, PfGo(o, where) PROVE PfStands(o, where, pfSelf[o].copy)
  <2>1. pfSelf' = [pfSelf EXCEPT ![o] = PfMoved(pfSelf[o], where)]
    BY <1>2 DEF PfGo, PfMoved
  <2> QED BY <1>1, <2>1, PfRecords DEF PfStands
<1>3. ASSUME NEW where, NEW config, PfTakes(o, config, where) PROVE PfStands(o, where, config)
  <2>1. pfSelf' = [pfSelf EXCEPT ![o] = PfGiven(PfMoved(pfSelf[o], where), config)]
    BY <1>3 DEF PfTakes, PfMoved, PfGiven
  <2>2. PfGiven(PfMoved(pfSelf[o], where), config)
            = [at |-> where, task |-> pfSelf[o].task, name |-> pfSelf[o].name, copy |-> config]
    <3>1. PfMoved(pfSelf[o], where) = [at |-> where, task |-> pfSelf[o].task,
                                       name |-> pfSelf[o].name, copy |-> pfSelf[o].copy]
      BY <1>1, PfRecords
    <3> QED BY <3>1, PfRecords
  <2> QED BY <1>1, <2>1, <2>2 DEF PfStands
<1>4. PfEnd(o) => pfSelf'[o] = PfIdle /\ pfSelf' = [pfSelf EXCEPT ![o] = pfSelf'[o]]
  BY <1>1 DEF PfEnd
<1> QED BY <1>1, <1>2, <1>3, <1>4

PfListed(config, profiles) == [config EXCEPT !.profiles = profiles]
PfDefaulted(config, name) == [config EXCEPT !.default = name]

\* What a command makes of the file it has read is a configuration of the
\* same project; only a removal leaves out a profile, its own.
LEMMA PfEdits ==
    ASSUME PfTypeOK, NEW o \in Op, pfSelf[o].name \in PfProfiles
    PROVE  /\ PfEdited(o) \in PfConfig /\ PfEdited(o).id = pfFile.id
           /\ pfSelf[o].task # "remove" => pfFile.profiles \subseteq PfEdited(o).profiles
           /\ pfSelf[o].task = "remove" =>
                PfEdited(o).profiles = pfFile.profiles \ {pfSelf[o].name}
           /\ pfSelf[o].task \in {"up", "down"} => PfEdited(o) = pfFile
<1>1. pfFile \in PfConfig
  BY DEF PfTypeOK
<1>2. pfFile = [id |-> pfFile.id, profiles |-> pfFile.profiles, default |-> pfFile.default]
  BY <1>1 DEF PfConfig
<1>3. ASSUME NEW x
      PROVE  PfListed(pfFile, x) = [id |-> pfFile.id, profiles |-> x, default |-> pfFile.default]
  BY <1>2 DEF PfListed
<1>4. ASSUME NEW x
      PROVE  PfDefaulted(pfFile, x)
                = [id |-> pfFile.id, profiles |-> pfFile.profiles, default |-> x]
  BY <1>2 DEF PfDefaulted
<1>5. /\ pfSelf[o].task = "add" =>
            PfEdited(o) = PfListed(pfFile, pfFile.profiles \union {pfSelf[o].name})
      /\ pfSelf[o].task = "default" => PfEdited(o) = PfDefaulted(pfFile, pfSelf[o].name)
      /\ pfSelf[o].task = "remove" =>
            PfEdited(o) = PfListed(pfFile, pfFile.profiles \ {pfSelf[o].name})
      /\ pfSelf[o].task \notin {"add", "default", "remove"} => PfEdited(o) = pfFile
  BY DEF PfEdited, PfListed, PfDefaulted
<1> QED BY <1>1, <1>3, <1>4, <1>5 DEF PfConfig

------------------------------------------------------------------------------
(* The project file: a step of one command.                                *)

PfStep(o) ==
    \/ PfBegin(o) \/ PfLook(o) \/ PfAsk(o) \/ PfCheck(o) \/ PfCount(o) \/ PfLoad(o)
    \/ PfSave(o) \/ PfAct(o) \/ PfDie(o)

\* Its process ends, or goes on from one stage to another.
PfGoesOn(o, from, to, config) == pfSelf[o].at = from /\ PfStands(o, to, config)
PfSame == pfFile' = pfFile /\ pfCloud' = pfCloud /\ pfIds' = pfIds

\* What a step does, to all that the invariant speaks of.
LEMMA PfEffects ==
    ASSUME PfTyped, NEW o \in Op, PfStep(o)
    PROVE  /\ pfSelf \in [Op -> PfSelves] /\ pfSelf' = [pfSelf EXCEPT ![o] = pfSelf'[o]]
           /\ ~PfBegin(o) => pfRaced' = pfRaced /\ pfRun' = pfRun /\ pfSelf[o].at # "idle"
           /\ PfBegin(o) \/ PfSave(o) \/ PfAct(o)
              \/ (PfSame /\ pfSelf'[o] = PfIdle)
              \/ (PfSame /\ PfMayInit(o) /\ PfGoesOn(o, "looking", "asking", pfSelf[o].copy))
              \/ (PfSame /\ PfMayInit(o) /\ PfGoesOn(o, "asking", "checking", PfAnswered(o)))
              \/ (PfSame /\ PfMayInit(o) /\ PfGoesOn(o, "checking", "saving", pfSelf[o].copy))
              \/ (PfSame /\ PfLive(o) = {} /\ PfGoesOn(o, "counting", "loading", pfSelf[o].copy))
              \/ (PfSame /\ PfAllowed(o) /\ pfSelf[o].task \in {"up", "down"}
                    /\ PfGoesOn(o, "loading", "acting", PfEdited(o)))
              \/ (PfSame /\ PfAllowed(o) /\ pfSelf[o].task \notin {"up", "down"}
                    /\ PfGoesOn(o, "loading", "saving", PfEdited(o)))
<1> USE DEF PfSame, PfGoesOn
<1>0. PfTypeOK
  BY DEF PfTyped
<1>1. pfSelf \in [Op -> PfSelves]
  BY <1>0, PfMoves
<1>2. CASE PfBegin(o)
  BY <1>1, <1>2 DEF PfBegin
<1>3. CASE PfLook(o)
  BY <1>0, <1>1, <1>3, PfMoves DEF PfLook, PfStands, PfBegin
<1>4. CASE PfAsk(o)
  BY <1>0, <1>1, <1>4, PfMoves DEF PfAsk, PfStands, PfBegin
<1>5. CASE PfCheck(o)
  BY <1>0, <1>1, <1>5, PfMoves DEF PfCheck, PfStands, PfBegin
<1>6. CASE PfCount(o)
  BY <1>0, <1>1, <1>6, PfMoves DEF PfCount, PfStands, PfBegin
<1>7. CASE PfLoad(o)
  BY <1>0, <1>1, <1>7, PfMoves DEF PfLoad, PfStands, PfBegin
<1>8. CASE PfSave(o)
  BY <1>0, <1>1, <1>8, PfMoves DEF PfSave
<1>9. CASE PfAct(o)
  BY <1>0, <1>1, <1>9, PfMoves DEF PfAct
<1>10. CASE PfDie(o)
  BY <1>0, <1>1, <1>10, PfMoves DEF PfDie, PfTyped
<1> QED
  BY <1>2, <1>3, <1>4, <1>5, <1>6, <1>7, <1>8, <1>9, <1>10 DEF PfStep

\* The types, and what every process is for.
LEMMA PfTypedStep ==
    ASSUME PfTyped, NEW o \in Op, PfStep(o)
    PROVE  PfTyped'
<1>0. PfTypeOK /\ PfAssumption
  BY PfAssumption DEF PfTyped, PfTypeOK
<1>1. pfLists' = pfLists /\ pfLists \in PfCounts
  BY DEF PfTyped, PfTypeOK, PfStep, PfBegin, PfLook, PfAsk, PfCheck, PfCount, PfLoad, PfSave,
         PfAct, PfDie
<1>2. pfLeft' \in 0..PfBudget
  <2>1. pfLeft \in 0..PfBudget /\ PfBudget \in Nat
    BY <1>0 DEF PfTypeOK, PfAssumption
  <2>2. pfLeft' = pfLeft \/ (pfLeft > 0 /\ pfLeft' = pfLeft - 1)
    BY DEF PfStep, PfBegin, PfLook, PfAsk, PfCheck, PfCount, PfLoad, PfSave, PfAct, PfDie, PfFault
  <2> QED BY <2>1, <2>2
<1>3. /\ pfRun \in 0..PfCommands /\ pfRun' \in 0..PfCommands /\ pfRun' >= pfRun
      /\ PfBegin(o) => pfRun' # 0
  BY <1>0, PfEffects DEF PfTypeOK, PfAssumption, PfBegin
<1>10. pfRaced' \in BOOLEAN
  <2>1. CASE PfBegin(o)
    BY <2>1 DEF PfBegin
  <2>2. CASE ~PfBegin(o)
    BY <1>0, <2>2, PfEffects DEF PfTypeOK
  <2> QED BY <2>1, <2>2
<1>4. ASSUME pfSelf'[o] \in PfSelves,
             pfSelf'[o].at = "idle" => pfSelf'[o] = PfIdle,
             pfSelf'[o].at # "idle" => pfSelf'[o].name \in PfProfiles /\ pfRun' # 0,
             pfSelf'[o].at = "acting" => pfSelf'[o].copy.id # 0,
             pfFile' \in PfConfig /\ (pfFile' = PfNone \/ PfValid(pfFile)'),
             pfCloud' \subseteq (1..PfCommands) \X PfProfiles, pfIds' \subseteq 1..PfCommands
      PROVE  PfTyped'
  <2>1. pfSelf' \in [Op -> PfSelves]
    BY <1>4, PfEffects
  <2>2. PfTypeOK'
    BY <1>1, <1>2, <1>3, <1>4, <1>10, <2>1 DEF PfTypeOK, PfSelves, PfPlaces
  <2>3. \A p \in Op : p # o => pfSelf'[p] = pfSelf[p]
    BY PfEffects
  <2>4. pfRun # 0 => pfRun' # 0
    BY <1>3
  <2> QED BY <1>4, <2>2, <2>3, <2>4 DEF PfTyped
<1>5. PfNone \in PfConfig
  BY <1>0 DEF PfNone, PfConfig, PfAssumption
<1>6. CASE PfBegin(o)
  <2>1. PICK task \in PfTasks, name \in PfProfiles :
            /\ pfSelf'[o].at \in {"looking", "counting", "loading"} /\ pfSelf'[o].task = task
            /\ pfSelf'[o].name = name /\ pfSelf'[o].copy = PfNone
            /\ pfSelf'[o] \in PfSelves
    BY <1>5, <1>6, PfEffects DEF PfBegin, PfSelves, PfPlaces
  <2>2. pfFile' = pfFile /\ pfCloud' = pfCloud /\ pfIds' = pfIds
    BY <1>6 DEF PfBegin
  <2>3. PfValid(pfFile)' = PfValid(pfFile)
    BY <2>2 DEF PfValid
  <2> QED BY <1>0, <1>3, <1>4, <1>6, <2>1, <2>2, <2>3 DEF PfTypeOK
<1>7. /\ PfIdle \in PfSelves /\ PfIdle.at = "idle"
      /\ pfSelf[o] \in PfSelves /\ (pfSelf[o].at # "idle" => pfSelf[o].name \in PfProfiles)
      /\ pfSelf[o].at # "idle" => pfRun # 0
  BY <1>0, <1>5, PfEffects DEF PfIdle, PfSelves, PfPlaces, PfTyped
<1>8. CASE PfSave(o)
  <2>1. pfSelf'[o] = PfIdle /\ pfCloud' = pfCloud
    BY <1>0, <1>8, PfMoves DEF PfSave
  <2>2. CASE pfFile' = pfFile /\ pfIds' = pfIds
    <3>1. PfValid(pfFile)' = PfValid(pfFile)
      BY <2>2 DEF PfValid
    <3> QED BY <1>0, <1>4, <1>7, <2>1, <2>2, <3>1 DEF PfTypeOK
  <2>3. CASE PfValid(pfSelf[o].copy) /\ pfFile' = pfSelf[o].copy
              /\ pfIds' = pfIds \union {pfSelf[o].copy.id}
    <3>1. pfSelf[o].copy \in PfConfig
      BY <1>7 DEF PfSelves
    <3>2. PfValid(pfFile)' /\ pfSelf[o].copy.id \in 1..PfCommands
      BY <1>0, <2>3, <3>1 DEF PfValid, PfConfig, PfAssumption
    <3> QED BY <1>0, <1>4, <1>7, <2>1, <2>3, <3>1, <3>2 DEF PfTypeOK
  <2> QED BY <1>8, <2>2, <2>3 DEF PfSave
<1>9. CASE PfAct(o)
  <2>1. pfSelf'[o] = PfIdle /\ pfFile' = pfFile /\ pfIds' = pfIds
    BY <1>0, <1>9, PfMoves DEF PfAct
  <2>2. PfValid(pfFile)' = PfValid(pfFile)
    BY <2>1 DEF PfValid
  <2>3. pfSelf[o].copy.id \in 1..PfCommands /\ pfSelf[o].name \in PfProfiles
    BY <1>0, <1>7, <1>9 DEF PfAct, PfTyped, PfSelves, PfConfig, PfAssumption
  <2>4. pfCloud' \subseteq (1..PfCommands) \X PfProfiles
    BY <1>0, <1>9, <2>3 DEF PfAct, PfEnvironment, PfTypeOK
  <2> QED BY <1>0, <1>4, <1>7, <2>1, <2>2, <2>4 DEF PfTypeOK
<1>11. CASE PfSame
  <2>1. PfValid(pfFile)' = PfValid(pfFile)
    BY <1>11 DEF PfSame, PfValid
  <2>2. /\ pfFile' \in PfConfig /\ (pfFile' = PfNone \/ PfValid(pfFile)')
        /\ pfCloud' \subseteq (1..PfCommands) \X PfProfiles /\ pfIds' \subseteq 1..PfCommands
    BY <1>0, <1>11, <2>1 DEF PfSame, PfTypeOK
  <2>3. ASSUME NEW from \in PfPlaces \ {"idle"}, NEW to \in PfPlaces \ {"idle"},
               NEW config \in PfConfig, PfGoesOn(o, from, to, config),
               to = "acting" => config.id # 0
        PROVE  PfTyped'
    <3>1. /\ pfSelf'[o] \in PfSelves /\ pfSelf'[o].at = to /\ pfSelf'[o].name = pfSelf[o].name
          /\ pfSelf'[o].copy = config /\ pfSelf[o].at # "idle"
      BY <1>7, <2>3 DEF PfGoesOn, PfStands, PfSelves
    <3> QED BY <1>3, <1>4, <1>7, <2>2, <2>3, <3>1
  <2>4. pfSelf[o].copy \in PfConfig
    BY <1>7 DEF PfSelves
  <2>5. ASSUME pfSelf[o].at # "idle" PROVE PfAnswered(o) \in PfConfig
    BY <1>0, <1>3, <1>7, <2>5 DEF PfAnswered, PfConfig, PfTypeOK
  <2>6. ASSUME pfSelf[o].at # "idle", PfAllowed(o)
        PROVE  PfEdited(o) \in PfConfig /\ PfEdited(o).id # 0
    BY <1>0, <1>7, <2>6, PfEdits DEF PfAllowed, PfValid
  <2>7. pfSelf'[o] = PfIdle => PfTyped'
    BY <1>4, <1>7, <2>2
  <2>8. CASE PfGoesOn(o, "looking", "asking", pfSelf[o].copy)
    BY <2>3, <2>4, <2>8 DEF PfPlaces
  <2>9. CASE PfGoesOn(o, "asking", "checking", PfAnswered(o))
    BY <2>3, <2>5, <2>9 DEF PfPlaces, PfGoesOn
  <2>10. CASE PfGoesOn(o, "checking", "saving", pfSelf[o].copy)
    BY <2>3, <2>4, <2>10 DEF PfPlaces
  <2>11. CASE PfGoesOn(o, "counting", "loading", pfSelf[o].copy)
    BY <2>3, <2>4, <2>11 DEF PfPlaces
  <2>12. CASE PfAllowed(o) /\ PfGoesOn(o, "loading", "acting", PfEdited(o))
    BY <2>3, <2>6, <2>12 DEF PfPlaces, PfGoesOn
  <2>13. CASE PfAllowed(o) /\ PfGoesOn(o, "loading", "saving", PfEdited(o))
    BY <2>3, <2>6, <2>13 DEF PfPlaces, PfGoesOn
  <2> QED
    BY <1>6, <1>8, <1>9, <2>7, <2>8, <2>9, <2>10, <2>11, <2>12, <2>13, PfEffects
<1> QED BY <1>6, <1>8, <1>9, <1>11, PfEffects

\* Where there is no file there is no environment; a file has an identity.
LEMMA PfNamed ==
    ASSUME PfTypeOK
    PROVE  /\ pfFile # PfNone => pfFile.id # 0
           /\ PfLeads(PfNone) => pfCloud = {}
           /\ \A e \in pfCloud : e = <<e[1], e[2]>>
<1>1. pfCloud \subseteq (1..PfCommands) \X PfProfiles /\ PfNone.id = 0 /\ PfCommands \in Nat
  BY PfAssumption DEF PfTypeOK, PfNone, PfAssumption
<1> QED BY <1>1 DEF PfTypeOK, PfValid, PfLeads

\* Commands stay apart.
LEMMA PfApartStep ==
    ASSUME PfTyped, PfApart, NEW o \in Op, PfStep(o), ~pfRaced'
    PROVE  PfApart'
<1>1. \A p \in Op : p # o => pfSelf'[p] = pfSelf[p]
  BY PfEffects
<1>2. CASE PfBegin(o)
  <2>1. PICK task \in PfTasks, name \in PfProfiles :
            /\ pfSelf' = [pfSelf EXCEPT ![o] =
                [at |-> CASE PfInits(task) -> "looking" [] task = "remove" -> "counting"
                          [] OTHER -> "loading",
                 task |-> task, name |-> name, copy |-> PfNone]]
            /\ pfRaced' = (pfRaced \/ \E p \in Op \ {o} : PfConflict(task, pfSelf[p].task))
    BY <1>2 DEF PfBegin
  <2>4. ~ \E p \in Op \ {o} : PfConflict(task, pfSelf[p].task)
    BY <2>1
  <2>5. pfSelf'[o].task = task
    BY <2>1, PfEffects
  <2>2. \A p \in Op \ {o} : ~PfConflict(pfSelf'[o].task, pfSelf'[p].task)
    BY <1>1, <2>4, <2>5
  <2>3. pfSelf'[o].task = "up" => ~PfWrites(pfSelf'[o].task)
    BY DEF PfWrites
  <2> QED BY <1>1, <2>2, <2>3 DEF PfApart, PfConflict, PfWrites
<1>3. CASE pfSelf'[o].task \in {"none", pfSelf[o].task}
  <2>1. ~PfInits("none") /\ ~PfWrites("none") /\ "none" # "up"
    BY DEF PfInits, PfWrites
  <2> QED BY <1>1, <1>3, <2>1 DEF PfApart
<1>4. CASE ~PfBegin(o)
  <2>1. pfSelf'[o] = PfIdle => pfSelf'[o].task = "none"
    BY DEF PfIdle
  <2>2. PfTypeOK
    BY DEF PfTyped
  <2>3. pfSelf'[o] = PfIdle \/ pfSelf'[o].task = pfSelf[o].task
    <3>1. PfSave(o) \/ PfAct(o) => PfEnd(o)
      BY DEF PfSave, PfAct
    <3>2. PfSave(o) \/ PfAct(o) => pfSelf'[o] = PfIdle
      BY <2>2, <3>1, PfMoves
    <3>3. ASSUME NEW from, NEW to, NEW config, PfGoesOn(o, from, to, config)
          PROVE  pfSelf'[o].task = pfSelf[o].task
      BY <3>3 DEF PfGoesOn, PfStands
    <3> QED BY <1>4, <3>2, <3>3, PfEffects
  <2> QED BY <1>3, <2>1, <2>3
<1> QED BY <1>2, <1>4

\* Who replaces the file puts there one that leads to all that is live, and
\* nobody else has read the file to no purpose.
LEMMA PfWriter ==
    ASSUME PfTyped, PfCalm, NEW o \in Op, PfSave(o)
    PROVE  /\ pfCloud' = pfCloud
           /\ \/ pfFile' = pfFile /\ pfIds' = pfIds
              \/ /\ pfFile' = pfSelf[o].copy /\ pfFile' # PfNone
                 /\ pfIds' = pfIds \union {pfFile'.id}
                 /\ pfFile # PfNone => pfFile'.id = pfFile.id
                 /\ PfLeads(pfFile')
                 /\ \A p \in Op : pfSelf[p].task # "up"
                 /\ \A p \in Op \ {o} : pfFile = PfNone => ~PfInits(pfSelf[p].task)
                 /\ \A p \in Op \ {o} : pfFile = PfNone =>
                        pfSelf[p].at \notin {"asking", "checking", "saving", "acting"}
                 /\ \A p \in Op \ {o} : pfSelf[p].at = "saving" => pfSelf[p].task # "init"
<1>1. PfTypeOK /\ pfSelf[o].at = "saving"
  BY DEF PfTyped, PfSave
<1>2. /\ PfWrites(pfSelf[o].task) /\ pfSelf[o].copy.id # 0
      /\ pfFile # PfNone => pfSelf[o].copy.id = pfFile.id
            /\ (pfSelf[o].task # "init" => PfLeads(pfSelf[o].copy))
      /\ pfFile = PfNone => PfInits(pfSelf[o].task)
      /\ pfSelf[o].task = "init" => pfFile = PfNone
  BY <1>1 DEF PfCalm, PfHolds
<1>3. PfNone.id = 0
  BY DEF PfNone
<1>4. PfLeads(pfSelf[o].copy)
  BY <1>1, <1>2, PfNamed DEF PfCalm, PfLeads
<1>5. \A p \in Op : pfSelf[p].task # "up"
  BY <1>2 DEF PfCalm, PfApart
<1>6. \A p \in Op \ {o} : pfFile = PfNone => ~PfInits(pfSelf[p].task)
  BY <1>2 DEF PfCalm, PfApart
<1>7. ASSUME NEW p \in Op \ {o}, pfFile = PfNone
      PROVE  pfSelf[p].at \notin {"asking", "checking", "saving", "acting"}
  BY <1>6, <1>7 DEF PfCalm, PfHolds
<1>8. ASSUME NEW p \in Op \ {o}, pfSelf[p].at = "saving" PROVE pfSelf[p].task # "init"
  BY <1>6, <1>8 DEF PfCalm, PfHolds, PfInits
<1> QED BY <1>2, <1>3, <1>4, <1>5, <1>6, <1>7, <1>8 DEF PfSave

\* What up makes, down removes.
LEMMA PfActor ==
    ASSUME PfTyped, PfCalm, NEW o \in Op, PfAct(o)
    PROVE  /\ pfFile' = pfFile /\ pfIds' = pfIds
           /\ \/ pfCloud' \subseteq pfCloud
              \/ /\ pfCloud' = pfCloud \union {<<pfFile.id, pfSelf[o].name>>}
                 /\ pfSelf[o].name \in pfFile.profiles
                 /\ \A p \in Op : ~PfWrites(pfSelf[p].task)
<1>1. pfSelf[o].at = "acting"
  BY DEF PfAct
<1>2. /\ pfSelf[o].copy.id = pfFile.id
      /\ pfSelf[o].task = "up" => pfSelf[o].name \in pfFile.profiles
  BY <1>1 DEF PfCalm, PfHolds
<1>3. pfSelf[o].task = "up" => \A p \in Op : ~PfWrites(pfSelf[p].task)
  BY DEF PfCalm, PfApart
<1> QED BY <1>2, <1>3 DEF PfAct, PfEnvironment

\* The file goes on to lead to every environment.
LEMMA PfLeadsStep ==
    ASSUME PfTyped, PfCalm, NEW o \in Op, PfStep(o)
    PROVE  PfOneId' /\ PfLeads(pfFile)'
<1>1. CASE PfSame \/ PfBegin(o)
  BY <1>1 DEF PfSame, PfBegin, PfCalm, PfOneId, PfLeads
<1>2. CASE PfSave(o)
  BY <1>2, PfWriter DEF PfCalm, PfOneId, PfLeads
<1>3. CASE PfAct(o)
  BY <1>3, PfActor DEF PfCalm, PfOneId, PfLeads
<1> QED BY <1>1, <1>2, <1>3, PfEffects

\* What another command relies on is not disturbed.
LEMMA PfOthersStep ==
    ASSUME PfTyped, PfCalm, NEW o \in Op, PfStep(o), NEW p \in Op, p # o
    PROVE  PfHolds(p)'
<1>1. pfSelf'[p] = pfSelf[p]
  BY PfEffects
<1>2. PfHolds(p)
  BY DEF PfCalm
<1>3. CASE PfSame \/ PfBegin(o)
  BY <1>1, <1>2, <1>3 DEF PfSame, PfBegin, PfHolds, PfLeads
<1>4. CASE PfSave(o)
  <2>1. CASE pfFile' = pfFile /\ pfCloud' = pfCloud
    BY <1>1, <1>2, <2>1 DEF PfHolds, PfLeads
  <2> QED BY <1>1, <1>2, <1>4, <2>1, PfWriter DEF PfHolds, PfLeads, PfInits
<1>5. CASE PfAct(o)
  <2>1. CASE pfCloud' \subseteq pfCloud
    BY <1>1, <1>2, <1>5, <2>1, PfActor DEF PfHolds, PfLeads
  <2>2. CASE ~PfWrites(pfSelf[p].task)
    BY <1>1, <1>2, <1>5, <2>2, PfActor DEF PfHolds, PfLeads, PfWrites
  <2> QED BY <1>5, <2>1, <2>2, PfActor
<1> QED BY <1>3, <1>4, <1>5, PfEffects

\* The command that takes the step relies on what it has just read.
LEMMA PfOwnStep ==
    ASSUME PfTyped, PfCalm, NEW o \in Op, PfStep(o)
    PROVE  PfHolds(o)'
<1>1. PfTypeOK /\ pfSelf[o] \in PfSelves
  BY PfEffects DEF PfTyped
<1>2. PfHolds(o) /\ PfLeads(pfFile)
  BY DEF PfCalm
<1>3. ASSUME pfSelf'[o] = PfIdle PROVE PfHolds(o)'
  BY <1>3 DEF PfHolds, PfIdle
<1>4. CASE PfBegin(o)
  <2>1. PICK task \in PfTasks, name \in PfProfiles :
            /\ task = "force" => pfCloud = {}
            /\ pfSelf' = [pfSelf EXCEPT ![o] =
                [at |-> CASE PfInits(task) -> "looking" [] task = "remove" -> "counting"
                          [] OTHER -> "loading",
                 task |-> task, name |-> name, copy |-> PfNone]]
    BY <1>4 DEF PfBegin
  <2>2. /\ pfSelf'[o].task = task /\ task # "none"
        /\ \/ pfSelf'[o].at = "looking" /\ PfInits(task)
           \/ pfSelf'[o].at = "counting" /\ task = "remove"
           \/ pfSelf'[o].at = "loading" /\ task # "remove" /\ ~PfInits(task)
    BY <2>1, PfEffects, PfAssumption DEF PfAssumption
  <2>3. pfCloud' = pfCloud
    BY <1>4 DEF PfBegin
  <2> QED BY <2>1, <2>2, <2>3 DEF PfHolds
<1>5. CASE PfSave(o) \/ PfAct(o)
  BY <1>1, <1>3, <1>5, PfMoves DEF PfSave, PfAct
<1>6. CASE PfSame
  <2>1. ASSUME NEW from, NEW to, NEW config, PfGoesOn(o, from, to, config)
        PROVE  /\ pfSelf[o].at = from /\ pfSelf'[o].at = to
               /\ pfSelf'[o].task = pfSelf[o].task /\ pfSelf'[o].name = pfSelf[o].name
               /\ pfSelf'[o].copy = config
    BY <2>1 DEF PfGoesOn, PfStands
  <2>2. pfFile' = pfFile /\ pfCloud' = pfCloud
    BY <1>6 DEF PfSame
  <2>9. pfSelf[o].name \in PfProfiles \/ pfSelf[o].at = "idle"
    BY DEF PfTyped
  <2>3. CASE PfMayInit(o) /\ PfGoesOn(o, "looking", "asking", pfSelf[o].copy)
    <3>1. pfSelf'[o].at = "asking" /\ pfSelf'[o].task = pfSelf[o].task /\ pfSelf[o].at = "looking"
      BY <2>1, <2>3
    <3> QED BY <1>2, <2>2, <3>1 DEF PfHolds
  <2>4. CASE PfMayInit(o) /\ PfGoesOn(o, "asking", "checking", PfAnswered(o))
    <3>1. /\ pfSelf'[o].at = "checking" /\ pfSelf'[o].task = pfSelf[o].task
          /\ pfSelf'[o].copy = PfAnswered(o) /\ pfSelf[o].at = "asking"
      BY <2>1, <2>4
    <3>2. PfInits(pfSelf[o].task) /\ PfWrites(pfSelf[o].task)
      BY <1>2, <3>1 DEF PfHolds, PfInits, PfWrites
    <3>3. /\ PfAnswered(o).id # 0
          /\ pfFile # PfNone => PfAnswered(o).id = pfFile.id
      BY <1>1, <3>1, PfNamed DEF PfAnswered, PfTyped
    <3>4. pfFile # PfNone => pfCloud = {}
      BY <1>2, <2>4 DEF PfMayInit, PfHolds
    <3> QED BY <1>2, <2>2, <3>1, <3>2, <3>3, <3>4 DEF PfHolds, PfLeads
  <2>5. CASE PfMayInit(o) /\ PfGoesOn(o, "checking", "saving", pfSelf[o].copy)
    <3>1. /\ pfSelf'[o].at = "saving" /\ pfSelf'[o].task = pfSelf[o].task
          /\ pfSelf'[o].copy = pfSelf[o].copy /\ pfSelf[o].at = "checking"
      BY <2>1, <2>5
    <3>2. pfSelf[o].task = "init" => pfFile = PfNone
      BY <2>5 DEF PfMayInit
    <3>3. PfLeads(pfSelf[o].copy)' <=> PfLeads(pfSelf[o].copy)
      BY <2>2, <3>1 DEF PfLeads
    <3> QED BY <1>2, <2>2, <3>1, <3>2, <3>3 DEF PfHolds
  <2>6. CASE PfLive(o) = {} /\ PfGoesOn(o, "counting", "loading", pfSelf[o].copy)
    <3>1. /\ pfSelf'[o].at = "loading" /\ pfSelf'[o].task = "remove"
          /\ pfSelf'[o].name = pfSelf[o].name
      BY <1>2, <2>1, <2>6 DEF PfHolds
    <3>2. \A e \in pfCloud : e[2] # pfSelf[o].name
      BY <1>2, <2>6 DEF PfLive, PfLeads
    <3> QED BY <2>2, <3>1, <3>2 DEF PfHolds, PfInits
  <2>7. CASE PfAllowed(o) /\ pfSelf[o].task \in {"up", "down"}
              /\ PfGoesOn(o, "loading", "acting", PfEdited(o))
    <3>1. /\ pfSelf'[o].at = "acting" /\ pfSelf'[o].task = pfSelf[o].task
          /\ pfSelf'[o].name = pfSelf[o].name /\ pfSelf'[o].copy = pfFile
      BY <1>1, <2>1, <2>7, <2>9, PfEdits DEF PfGoesOn
    <3>2. pfFile # PfNone /\ pfSelf[o].name \in pfFile.profiles
      BY <2>7 DEF PfAllowed, PfValid, PfNone
    <3> QED BY <2>2, <2>7, <3>1, <3>2 DEF PfHolds
  <2>8. CASE PfAllowed(o) /\ pfSelf[o].task \notin {"up", "down"}
              /\ PfGoesOn(o, "loading", "saving", PfEdited(o))
    <3>1. /\ pfSelf'[o].at = "saving" /\ pfSelf'[o].task = pfSelf[o].task
          /\ pfSelf'[o].copy = PfEdited(o) /\ pfSelf[o].at = "loading"
      BY <2>1, <2>8
    <3>2. pfFile # PfNone /\ pfFile.id # 0
      BY <2>8 DEF PfAllowed, PfValid, PfNone
    <3>3. PfEdited(o).id = pfFile.id
      BY <1>1, <2>9, <3>1, PfEdits
    <3>4. PfLeads(PfEdited(o))
      <4>1. CASE pfSelf[o].task = "remove"
        BY <1>1, <1>2, <2>9, <3>1, <4>1, PfEdits DEF PfHolds, PfLeads
      <4>2. CASE pfSelf[o].task # "remove"
        BY <1>1, <1>2, <2>9, <3>1, <4>2, PfEdits DEF PfLeads
      <4> QED BY <4>1, <4>2
    <3>5. ~PfInits(pfSelf[o].task) /\ PfWrites(pfSelf[o].task)
      BY <1>2, <2>8, <3>1 DEF PfHolds, PfWrites
    <3>6. PfLeads(pfSelf[o].copy)' <=> PfLeads(PfEdited(o))
      BY <2>2, <3>1 DEF PfLeads
    <3>7. pfSelf[o].task # "force" /\ pfSelf[o].task # "init"
      BY <3>5 DEF PfInits
    <3> QED BY <2>2, <3>1, <3>2, <3>3, <3>4, <3>5, <3>6, <3>7 DEF PfHolds
  <2> QED
    BY <1>3, <1>4, <1>5, <2>3, <2>4, <2>5, <2>6, <2>7, <2>8, PfEffects
<1> QED BY <1>4, <1>5, <1>6, PfEffects

------------------------------------------------------------------------------
(* The project file: what holds of every behaviour.                        *)

\* Unless two commands race, what they rely on holds.
LEMMA PfCalmStep ==
    ASSUME PfTyped, PfCalm, NEW o \in Op, PfStep(o), ~pfRaced'
    PROVE  PfCalm'
<1>1. ASSUME NEW p \in Op PROVE PfHolds(p)'
  BY PfOthersStep, PfOwnStep
<1>2. PfApart'
  BY PfApartStep DEF PfCalm
<1> QED BY <1>1, <1>2, PfLeadsStep DEF PfCalm

\* It holds in every state.
LEMMA PfInductive == PfSpec => []PfIInv
<1>1. PfInit => PfIInv
  <2> SUFFICES ASSUME PfInit PROVE PfIInv
    OBVIOUS
  <2>1. PfNone \in PfConfig
    BY PfAssumption DEF PfNone, PfConfig, PfAssumption
  <2>2. PfTypeOK
    <3>1. PfIdle \in PfSelves
      BY <2>1 DEF PfIdle, PfSelves, PfPlaces
    <3>2. pfSelf \in [Op -> PfSelves]
      BY <3>1 DEF PfInit
    <3>3. pfFile \in PfConfig /\ pfFile = PfNone /\ pfLists \in PfCounts /\ pfCloud = {} /\ pfIds = {}
      BY <2>1 DEF PfInit
    <3>4. pfRun \in 0..PfCommands /\ pfLeft \in 0..PfBudget
      BY PfAssumption DEF PfInit, PfAssumption
    <3>5. pfRaced \in BOOLEAN
      BY DEF PfInit
    <3> QED BY <3>2, <3>3, <3>4, <3>5 DEF PfTypeOK, PfSelves, PfPlaces
  <2>3. PfTyped
    BY <2>2 DEF PfInit, PfTyped, PfIdle
  <2>4. PfOneId /\ PfLeads(pfFile)
    BY DEF PfInit, PfOneId, PfLeads
  <2>5. PfApart /\ \A o \in Op : PfHolds(o)
    BY DEF PfInit, PfApart, PfHolds, PfIdle, PfInits, PfWrites
  <2> QED BY <2>3, <2>4, <2>5 DEF PfIInv, PfCalm
<1>2. PfIInv /\ [PfNext]_pfVars => PfIInv'
  <2> SUFFICES ASSUME PfIInv, [PfNext]_pfVars PROVE PfIInv'
    OBVIOUS
  <2>1. CASE PfNext
    <3>1. PICK o \in Op : PfStep(o)
      BY <2>1 DEF PfNext, PfStep
    <3>2. PfTyped'
      BY <3>1, PfTypedStep DEF PfIInv
    <3>3. pfRaced' \/ PfCalm'
      <4>1. CASE pfRaced
        BY <3>1, <4>1 DEF PfStep, PfBegin, PfLook, PfAsk, PfCheck, PfCount, PfLoad, PfSave, PfAct,
                          PfDie
      <4>2. CASE PfCalm
        BY <3>1, <4>2, PfCalmStep DEF PfIInv
      <4> QED BY <4>1, <4>2 DEF PfIInv
    <3> QED BY <3>2, <3>3 DEF PfIInv
  <2>2. CASE UNCHANGED pfVars
    BY <2>2 DEF pfVars, PfIInv, PfTyped, PfTypeOK, PfValid, PfCalm, PfOneId, PfApart, PfLeads, PfHolds
  <2> QED BY <2>1, <2>2
<1> QED BY <1>1, <1>2, PTL DEF PfSpec

\* Whatever commands are run, fail or die, each environment that is live is one
\* that lightrail.toml still leads to, and the project keeps its identity,
\* unless two commands raced that nothing keeps apart: init and the profile
\* commands look for live environments and for an identity before they write
\* the file (commands/init.rs, commands/profile.rs).
THEOREM NothingIsOrphaned == PfSpec => []PfNothingOrphaned
<1>1. PfIInv => PfNothingOrphaned
  <2> SUFFICES ASSUME PfCalm PROVE PfNothingOrphaned
    BY DEF PfIInv, PfNothingOrphaned
  <2>1. Cardinality(pfIds) <= 1
    <3>1. Cardinality({}) = 0 /\ Cardinality({pfFile.id}) = 1
      BY FS_EmptySet, FS_Singleton
    <3> QED BY <3>1 DEF PfCalm, PfOneId
  <2> QED BY <2>1 DEF PfCalm, PfLeads, PfNothingOrphaned
<1> QED BY <1>1, PfInductive, PTL

\* What is on disk as lightrail.toml is always a valid configuration, and
\* whatever is live was made under an identity that a file had
\* (LightrailConfig::validate, before each rename).
THEOREM FileTypeCorrect == PfSpec => []PfTypeOK
BY PfInductive, PTL DEF PfIInv, PfTyped

------------------------------------------------------------------------------
(* Secrets: the invariant, and each step.                                  *)

\* What a process knows of its command.
SecSelves ==
    [at : {"idle", "keyring", "loading", "opening", "writing", "resolving"},
     task : {"set", "delete", "up"}, name : SecNames, number : 0..SecCommands,
     names : SUBSET SecNames, alone : BOOLEAN, terminal : BOOLEAN,
     holder : SecContexts \union {0}, found : Int, cache : Int, asked : Int,
     given : [SecContexts -> Int]]

\* The types, with processes by their fields.
SecTyped ==
    /\ secKeyring \in [SecNames -> 0..SecCommands]
    /\ secFile \in [is : {"absent", "empty", "torn", "whole"}, names : SUBSET SecNames]
    /\ secSelf \in [Op -> SecSelves]
    /\ secSure \in [SecNames -> {"unknown", "stored", "deleted"}]
    /\ secRun \in 0..SecCommands /\ secLeft \in 0..SecBudget

\* What a command that changes a secret knows: nothing is sure of its name, and
\* its index has what is sure of the others.
SecWriter(s) ==
    /\ s.task \in {"set", "delete"} /\ s.number # 0 /\ secSure[s.name] = "unknown"
    /\ s.at \in {"opening", "writing"} =>
        /\ s.name \in s.names <=> s.task = "set"
        /\ \A n \in SecNames : /\ secSure[n] = "stored" => n \in s.names
                               /\ secSure[n] = "deleted" => n \notin s.names
    /\ s.alone /\ s.at # "keyring" => secKeyring[s.name] = IF s.task = "set" THEN s.number ELSE 0

\* What an operation has given its plugins: the value it has kept, or none.
SecGiven(s) ==
    /\ s.asked \in {0, 1}
    /\ s.asked = 1 => s.found # 0 \/ s.cache # 0
    /\ s.found # 0 => s.cache = 0
    /\ \A c \in SecContexts : s.given[c] \in {0, s.cache}

\* Who has ended has asked at most once, and given everybody the same.
SecPast(s) ==
    /\ s.asked \in {0, 1}
    /\ \A c, d \in SecContexts : s.given[c] = 0 \/ s.given[d] = 0 \/ s.given[c] = s.given[d]

\* What a sure secret rests on: writers that keep it, alone where they are alone.
SecInv ==
    /\ SecTyped
    /\ \A o \in Op :
        /\ SecWrites(o) => SecWriter(secSelf[o])
        /\ SecWrites(o) /\ secSelf[o].alone => \A p \in Op \ {o} : ~SecWrites(p)
        /\ SecAt(o, "resolving") => SecGiven(secSelf[o])
        /\ SecPast(secSelf[o])
    /\ secFile.is = "absent" => secFile.names = {} /\ \A n \in SecNames : secSure[n] # "stored"
    /\ SecAnswersAreTrue

\* An idle process.
LEMMA SecIdleIs ==
    /\ SecIdle \in SecSelves /\ SecIdle.at = "idle"
    /\ SecIdle.asked = 0 /\ SecIdle.given = [c \in SecContexts |-> 0]
    /\ SecIdle.found = 0 /\ SecIdle.cache = 0
<1>1. (CHOOSE n \in SecNames : TRUE) \in SecNames
  BY SecAssumption
<1> QED BY <1>1, SecAssumption DEF SecIdle, SecSelves

\* One process goes on, and what is sure stays so: what it has to keep.
LEMMA SecOneMoves ==
    ASSUME SecInv, NEW o \in Op, NEW s \in SecSelves,
           secSelf' = [secSelf EXCEPT ![o] = s], secSure' = secSure,
           secKeyring' \in [SecNames -> 0..SecCommands],
           secFile' \in [is : {"absent", "empty", "torn", "whole"}, names : SUBSET SecNames],
           secRun' \in 0..SecCommands, secLeft' \in 0..SecBudget,
           \A n \in SecNames : secKeyring'[n] = secKeyring[n] \/ (SecWrites(o) /\ n = secSelf[o].name),
           s.at \notin {"idle", "resolving"} =>
               SecWrites(o) /\ s.alone = secSelf[o].alone /\ SecWriter(s)',
           s.at = "resolving" => SecGiven(s),
           SecPast(s),
           secFile'.is = "absent" => secFile' = secFile,
           secFile'.is = "whole" /\ secFile' # secFile =>
               \A n \in SecNames : /\ secSure[n] = "stored" => n \in secFile'.names
                                   /\ secSure[n] = "deleted" => n \notin secFile'.names
    PROVE  SecInv'
<1>1. SecTyped'
  BY DEF SecInv, SecTyped
<1>2. secSelf'[o] = s /\ \A p \in Op \ {o} : secSelf'[p] = secSelf[p]
  BY DEF SecInv, SecTyped
<1>3. ASSUME NEW p \in Op
      PROVE  /\ (SecWrites(p) => SecWriter(secSelf[p]))'
             /\ (SecAt(p, "resolving") => SecGiven(secSelf[p]))'
             /\ SecPast(secSelf[p])'
  <2>1. CASE p = o
    BY <1>2, <2>1 DEF SecWrites, SecAt, SecPast, SecGiven, SecWriter
  <2>2. CASE p # o
    <3>1. secSelf'[p] = secSelf[p]
      BY <1>2, <2>2
    <3>2. ASSUME SecWrites(p) PROVE SecWriter(secSelf[p])'
      <4>1. secSelf[p].alone => ~SecWrites(o)
        BY <2>2, <3>2 DEF SecInv
      <4>2. secSelf[p].name \in SecNames
        BY DEF SecInv, SecTyped, SecSelves
      <4> QED BY <3>1, <3>2, <4>1, <4>2 DEF SecInv, SecWriter
    <3> QED BY <3>1, <3>2 DEF SecInv, SecWrites, SecAt, SecGiven, SecPast
  <2> QED BY <2>1, <2>2
<1>4. \A p \in Op : SecWrites(p)' => SecWrites(p) /\ secSelf'[p].alone = secSelf[p].alone
  BY <1>2 DEF SecWrites
<1>5. \A p \in Op : (SecWrites(p) /\ secSelf[p].alone => \A q \in Op \ {p} : ~SecWrites(q))'
  BY <1>4 DEF SecInv
<1>6. secFile'.is = "absent" => secFile'.names = {} /\ \A n \in SecNames : secSure'[n] # "stored"
  BY DEF SecInv
<1>7. SecAnswersAreTrue'
  <2>1. ASSUME NEW n \in SecNames, secSure[n] # "unknown" PROVE secKeyring'[n] = secKeyring[n]
    BY <2>1 DEF SecInv, SecWriter
  <2>2. ASSUME NEW n \in SecNames
        PROVE  /\ secSure'[n] = "stored" =>
                    secKeyring'[n] # 0 /\ (secFile'.is = "whole" => n \in secFile'.names)
               /\ secSure'[n] = "deleted" =>
                    secKeyring'[n] = 0 /\ (secFile'.is = "whole" => n \notin secFile'.names)
    BY <2>1 DEF SecInv, SecAnswersAreTrue
  <2>3. ASSUME NEW p \in Op
        PROVE  /\ secSelf'[p].asked <= 1
               /\ \A c, d \in SecContexts : secSelf'[p].given[c] \in {0, secSelf'[p].given[d]}
                                            \/ secSelf'[p].given[d] = 0
    BY <1>3 DEF SecPast
  <2> QED BY <2>2, <2>3 DEF SecAnswersAreTrue
<1> QED BY <1>1, <1>3, <1>5, <1>6, <1>7 DEF SecInv

\* The invariant holds at first.
LEMMA SecInitially == ASSUME SecInit PROVE SecInv
<1>1. ASSUME NEW o \in Op PROVE secSelf[o] = SecIdle
  BY <1>1 DEF SecInit
<1>2. SecTyped
  BY SecIdleIs, SecAssumption DEF SecInit, SecTyped, SecUnread
<1>3. ASSUME NEW o \in Op
      PROVE  /\ ~SecWrites(o) /\ ~SecAt(o, "resolving") /\ SecPast(secSelf[o])
             /\ secSelf[o].asked = 0 /\ secSelf[o].given = [c \in SecContexts |-> 0]
  BY <1>1, SecIdleIs DEF SecWrites, SecAt, SecPast
<1>4. secFile.is = "absent" /\ secFile.names = {} /\ \A n \in SecNames : secSure[n] = "unknown"
  BY DEF SecInit, SecUnread
<1>5. SecAnswersAreTrue
  BY <1>3, <1>4 DEF SecAnswersAreTrue
<1> QED BY <1>2, <1>3, <1>4, <1>5 DEF SecInv

\* A command ends without having made anything sure.
LEMMA SecEnds ==
    ASSUME SecInv, NEW o \in Op, SecEnd(o), secSure' = secSure, secKeyring' = secKeyring,
           secFile' \in [is : {"absent", "empty", "torn", "whole"}, names : SUBSET SecNames],
           secRun' \in 0..SecCommands, secLeft' \in 0..SecBudget,
           secFile'.is = "absent" => secFile' = secFile,
           secFile'.is = "whole" /\ secFile' # secFile =>
               \A n \in SecNames : /\ secSure[n] = "stored" => n \in secFile'.names
                                   /\ secSure[n] = "deleted" => n \notin secFile'.names
    PROVE  SecInv'
<1>0. PICK s : s = [SecIdle EXCEPT !.asked = secSelf[o].asked, !.given = secSelf[o].given]
  OBVIOUS
<1>1. secSelf[o].asked \in Int /\ secSelf[o].given \in [SecContexts -> Int]
  BY DEF SecInv, SecTyped, SecSelves
<1>2. /\ s \in SecSelves /\ s.at = "idle"
      /\ s.asked = secSelf[o].asked /\ s.given = secSelf[o].given
  BY <1>0, <1>1, SecIdleIs DEF SecSelves
<1>3. SecPast(s)
  BY <1>2 DEF SecInv, SecPast
<1>4. secSelf' = [secSelf EXCEPT ![o] = s]
  BY <1>0 DEF SecEnd
<1>5. secKeyring' \in [SecNames -> 0..SecCommands]
  BY DEF SecInv, SecTyped
<1> QED BY <1>2, <1>3, <1>4, <1>5, SecOneMoves

\* A fault is counted.
LEMMA SecFaultCounts == ASSUME SecTyped, NEW fault, SecFault(fault) PROVE secLeft' \in 0..SecBudget
BY SecAssumption DEF SecTyped, SecFault

\* The keyring is written.
LEMMA SecKeyringKeeps == ASSUME SecInv, NEW o \in Op, SecKeyring(o) PROVE SecInv'
<1>5. PICK old, s : old = secSelf[o] /\ s = [old EXCEPT !.at = "loading"]
  OBVIOUS
<1>1. secFile' = secFile /\ secSure' = secSure /\ secRun' = secRun /\ old.at = "keyring" /\ SecWrites(o)
  BY <1>5 DEF SecKeyring, SecAt, SecWrites
<1>2. old \in SecSelves /\ SecTyped /\ SecWriter(old) /\ SecPast(old)
  BY <1>1, <1>5 DEF SecInv, SecTyped
<1>3. CASE secKeyring' = [secKeyring EXCEPT ![old.name] = IF old.task = "set" THEN old.number ELSE 0]
           /\ SecGo(o, "loading") /\ UNCHANGED secLeft
  <2>1. secSelf' = [secSelf EXCEPT ![o] = s]
    BY <1>3, <1>5 DEF SecGo
  <2>2. /\ s \in SecSelves /\ s.at = "loading" /\ s.alone = old.alone /\ s.name = old.name
        /\ s.task = old.task /\ s.number = old.number /\ s.asked = old.asked /\ s.given = old.given
    BY <1>2, <1>5 DEF SecSelves
  <2>3. old.number \in 0..SecCommands /\ old.name \in SecNames /\ 0 \in 0..SecCommands
    BY <1>2, SecAssumption DEF SecSelves
  <2>4. /\ secKeyring' \in [SecNames -> 0..SecCommands]
        /\ secKeyring'[old.name] = IF old.task = "set" THEN old.number ELSE 0
        /\ \A n \in SecNames : secKeyring'[n] = secKeyring[n] \/ n = old.name
    BY <1>2, <1>3, <1>5, <2>3 DEF SecTyped
  <2>5. SecWriter(s)' /\ SecPast(s)
    BY <1>1, <1>2, <1>5, <2>2, <2>4 DEF SecWriter, SecPast
  <2> QED BY <1>1, <1>2, <1>5, <1>3, <2>1, <2>2, <2>4, <2>5, SecOneMoves, ZenonT(60) DEF SecTyped
<1>4. CASE SecFault("keyring") /\ SecEnd(o) /\ UNCHANGED secKeyring
  BY <1>1, <1>2, <1>5, <1>4, SecEnds, SecFaultCounts DEF SecTyped
<1> QED BY <1>3, <1>4, <1>5 DEF SecKeyring

\* The index is read.
LEMMA SecLoadKeeps == ASSUME SecInv, NEW o \in Op, SecLoad(o) PROVE SecInv'
<1>5. PICK old, names : old = secSelf[o] /\ names = IF old.task = "set" THEN secFile.names \union {old.name}
                    ELSE secFile.names \ {old.name}
  OBVIOUS
<1>6. PICK s : s = [old EXCEPT !.at = "opening", !.names = names]
  OBVIOUS
<1>1. /\ secFile' = secFile /\ secSure' = secSure /\ secRun' = secRun /\ secLeft' = secLeft
      /\ secKeyring' = secKeyring /\ old.at = "loading" /\ SecWrites(o)
  BY <1>5 DEF SecLoad, SecAt, SecWrites
<1>2. old \in SecSelves /\ SecTyped /\ SecWriter(old) /\ SecPast(old) /\ SecAnswersAreTrue
  BY <1>1, <1>5 DEF SecInv, SecTyped
<1>3. CASE secFile.is \in {"empty", "torn"}
  BY <1>1, <1>2, <1>5, <1>3, SecEnds DEF SecTyped, SecLoad
<1>4. CASE secFile.is \notin {"empty", "torn"}
  <2>1. secSelf' = [secSelf EXCEPT ![o] = s]
    BY <1>4, <1>5, <1>6 DEF SecLoad
  <2>2. names \in SUBSET SecNames
    BY <1>2, <1>5 DEF SecTyped, SecSelves
  <2>3. ASSUME NEW n \in SecNames
        PROVE  /\ secSure[n] = "stored" => n \in names
               /\ secSure[n] = "deleted" => n \notin names
    <3>1. secFile.is \in {"absent", "whole"}
      BY <1>2, <1>4 DEF SecTyped
    <3>2. /\ secSure[n] = "stored" => n \in secFile.names
          /\ secSure[n] = "deleted" => n \notin secFile.names
      BY <1>2, <3>1 DEF SecAnswersAreTrue, SecInv
    <3>3. secSure[n] # "unknown" => n # old.name
      BY <1>2 DEF SecWriter
    <3> QED BY <1>5, <3>2, <3>3
  <2>4. old.name \in names <=> old.task = "set"
    BY <1>5
  <2>5. /\ s \in SecSelves /\ s.at = "opening" /\ s.alone = old.alone /\ s.name = old.name /\ s.names = names
        /\ s.task = old.task /\ s.number = old.number /\ s.asked = old.asked /\ s.given = old.given
    BY <1>2, <1>6, <2>2 DEF SecSelves
  <2>6. SecWriter(s)' /\ SecPast(s)
    BY <1>1, <1>2, <1>5, <2>3, <2>4, <2>5 DEF SecWriter, SecPast
  <2> QED BY <1>1, <1>2, <1>5, <2>1, <2>5, <2>6, SecOneMoves DEF SecTyped
<1> QED BY <1>3, <1>4

\* The index is truncated ...
LEMMA SecOpenKeeps == ASSUME SecInv, NEW o \in Op, SecOpen(o) PROVE SecInv'
<1>5. PICK old, s : old = secSelf[o] /\ s = [old EXCEPT !.at = "writing"]
  OBVIOUS
<1>1. /\ secSure' = secSure /\ secRun' = secRun /\ secKeyring' = secKeyring
      /\ old.at = "opening" /\ SecWrites(o)
  BY <1>5 DEF SecOpen, SecAt, SecWrites
<1>2. old \in SecSelves /\ SecTyped /\ SecWriter(old) /\ SecPast(old)
  BY <1>1, <1>5 DEF SecInv, SecTyped
<1>3. CASE secFile' = SecUnread("empty") /\ SecGo(o, "writing") /\ UNCHANGED secLeft
  <2>1. secSelf' = [secSelf EXCEPT ![o] = s]
    BY <1>3, <1>5 DEF SecGo
  <2>2. /\ s \in SecSelves /\ s.at = "writing" /\ s.alone = old.alone /\ s.name = old.name /\ s.names = old.names
        /\ s.task = old.task /\ s.number = old.number /\ s.asked = old.asked /\ s.given = old.given
    BY <1>2, <1>5 DEF SecSelves
  <2>3. SecWriter(s)' /\ SecPast(s)
    BY <1>1, <1>2, <1>5, <2>2 DEF SecWriter, SecPast
  <2>4. /\ secFile' \in [is : {"absent", "empty", "torn", "whole"}, names : SUBSET SecNames]
        /\ secFile'.is = "empty"
    BY <1>3 DEF SecUnread
  <2> QED BY <1>1, <1>2, <1>5, <1>3, <2>1, <2>2, <2>3, <2>4, SecOneMoves DEF SecTyped
<1>4. CASE SecFault("file") /\ SecEnd(o) /\ UNCHANGED secFile
  BY <1>1, <1>2, <1>5, <1>4, SecEnds, SecFaultCounts DEF SecTyped
<1> QED BY <1>3, <1>4 DEF SecOpen

\* ... and written.
LEMMA SecWriteKeeps == ASSUME SecInv, NEW o \in Op, SecWrite(o) PROVE SecInv'
<1>1. PICK old, s : old = secSelf[o] /\ s = [SecIdle EXCEPT !.asked = old.asked, !.given = old.given]
  OBVIOUS
<1>2. /\ secRun' = secRun /\ secKeyring' = secKeyring /\ old.at = "writing" /\ SecWrites(o)
  BY <1>1 DEF SecWrite, SecAt, SecWrites
<1>3. old \in SecSelves /\ SecTyped /\ SecWriter(old) /\ SecPast(old)
  BY <1>1, <1>2 DEF SecInv, SecTyped
<1>4. ASSUME NEW n \in SecNames
      PROVE  /\ secSure[n] = "stored" => n \in old.names
             /\ secSure[n] = "deleted" => n \notin old.names
  BY <1>2, <1>3 DEF SecWriter
<1>5. SecWhole(old.names) \in [is : {"absent", "empty", "torn", "whole"}, names : SUBSET SecNames]
  BY <1>3 DEF SecWhole, SecSelves
<1>6. SecUnread("torn") \in [is : {"absent", "empty", "torn", "whole"}, names : SUBSET SecNames]
  BY DEF SecUnread
<1>7. CASE SecFault("file") /\ SecEnd(o) /\ secFile' \in {secFile, SecUnread("torn")} /\ UNCHANGED secSure
  <2>1. /\ secFile' \in [is : {"absent", "empty", "torn", "whole"}, names : SUBSET SecNames]
        /\ secFile' = secFile \/ secFile'.is = "torn"
    BY <1>3, <1>6, <1>7 DEF SecTyped, SecUnread
  <2> QED BY <1>2, <1>3, <1>7, <2>1, SecEnds, SecFaultCounts DEF SecTyped
<1>8. CASE /\ secFile' \in {SecWhole(old.names), SecUnread("torn")} /\ SecEnd(o) /\ UNCHANGED secLeft
           /\ secSure' = IF old.alone
                         THEN [secSure EXCEPT ![old.name] = IF old.task = "set" THEN "stored" ELSE "deleted"]
                         ELSE secSure
  <2>1. /\ secFile' \in [is : {"absent", "empty", "torn", "whole"}, names : SUBSET SecNames]
        /\ secFile'.is \in {"torn", "whole"}
        /\ secFile'.is = "whole" => secFile'.names = old.names
    BY <1>5, <1>6, <1>8 DEF SecWhole, SecUnread
  <2>2. CASE ~old.alone
    BY <1>2, <1>3, <1>4, <1>8, <2>1, <2>2, SecEnds DEF SecTyped
  <2>3. CASE old.alone
    <3>1. secSelf' = [secSelf EXCEPT ![o] = s]
      BY <1>1, <1>8 DEF SecEnd
    <3>2. s \in SecSelves /\ s.at = "idle" /\ s.asked = old.asked /\ s.given = old.given
      BY <1>1, <1>3, SecIdleIs DEF SecSelves
    <3>3. \A p \in Op \ {o} : ~SecWrites(p)
      BY <1>1, <1>2, <2>3 DEF SecInv
    <3>4. /\ secSelf'[o] = s /\ \A p \in Op \ {o} : secSelf'[p] = secSelf[p]
      BY <1>3, <3>1 DEF SecTyped
    <3>5. \A p \in Op : ~SecWrites(p)'
      BY <3>2, <3>3, <3>4 DEF SecWrites
    <3>6. old.name \in SecNames
      BY <1>3 DEF SecSelves
    <3>7. secSure' \in [SecNames -> {"unknown", "stored", "deleted"}]
          /\ secSure'[old.name] = (IF old.task = "set" THEN "stored" ELSE "deleted")
          /\ \A n \in SecNames \ {old.name} : secSure'[n] = secSure[n]
      BY <1>3, <1>8, <2>3, <3>6 DEF SecTyped
    <3>8. SecTyped'
      BY <1>2, <1>3, <1>8, <2>1, <3>1, <3>2, <3>7 DEF SecTyped
    <3>9. ASSUME NEW p \in Op
          PROVE  /\ (SecAt(p, "resolving") => SecGiven(secSelf[p]))'
                 /\ SecPast(secSelf[p])'
      BY <1>3, <3>2, <3>4 DEF SecInv, SecAt, SecGiven, SecPast
    <3>10. SecAnswersAreTrue'
      <4>1. /\ secKeyring[old.name] = IF old.task = "set" THEN old.number ELSE 0
            /\ old.number # 0 /\ (old.name \in old.names <=> old.task = "set")
        BY <1>2, <1>3, <2>3 DEF SecWriter
      <4>2. ASSUME NEW n \in SecNames
            PROVE  /\ secSure'[n] = "stored" =>
                        secKeyring'[n] # 0 /\ (secFile'.is = "whole" => n \in secFile'.names)
                   /\ secSure'[n] = "deleted" =>
                        secKeyring'[n] = 0 /\ (secFile'.is = "whole" => n \notin secFile'.names)
        BY <1>2, <1>4, <2>1, <3>7, <4>1 DEF SecInv, SecAnswersAreTrue
      <4>3. ASSUME NEW p \in Op
            PROVE  /\ secSelf'[p].asked <= 1
                   /\ \A c, d \in SecContexts : secSelf'[p].given[c] \in {0, secSelf'[p].given[d]}
                                                \/ secSelf'[p].given[d] = 0
        BY <3>9 DEF SecPast
      <4> QED BY <4>2, <4>3 DEF SecAnswersAreTrue
    <3> QED BY <2>1, <3>5, <3>8, <3>9, <3>10 DEF SecInv
  <2> QED BY <2>2, <2>3
<1> QED BY <1>1, <1>7, <1>8 DEF SecWrite

\* What is given is what is kept.
LEMMA SecGives ==
    ASSUME SecInv, NEW o \in Op, SecAt(o, "resolving"), NEW value \in Int \ {0},
           \A c \in SecContexts : secSelf[o].given[c] \in {0, value}, SecGive(o, value, value),
           secKeyring' = secKeyring, secFile' = secFile, secSure' = secSure, secRun' = secRun,
           secLeft' = secLeft
    PROVE  SecInv'
<1>1. PICK old, given, self, over :
        /\ old = secSelf[o] /\ given = [old.given EXCEPT ![old.holder] = value]
        /\ self = [old EXCEPT !.given = given, !.cache = value, !.holder = 0, !.found = 0]
        /\ over = [SecIdle EXCEPT !.asked = self.asked, !.given = given]
  OBVIOUS
<1>2. old \in SecSelves /\ SecTyped /\ old.asked \in {0, 1} /\ old.at = "resolving"
  BY <1>1 DEF SecInv, SecTyped, SecPast, SecAt
<1>3. given \in [SecContexts -> Int] /\ \A c \in SecContexts : given[c] \in {0, value}
  BY <1>1, <1>2 DEF SecSelves
<1>4. /\ self \in SecSelves /\ self.at = "resolving" /\ self.asked = old.asked
      /\ self.given = given /\ self.cache = value /\ self.found = 0
  <2>1. PICK some : some = [old EXCEPT !.given = given, !.cache = value]
    OBVIOUS
  <2>2. value \in Int /\ given \in [SecContexts -> Int] /\ old \in SecSelves /\ old.at = "resolving"
    BY <1>2, <1>3
  <2>3. some \in SecSelves
    BY <2>1, <2>2 DEF SecSelves
  <2>4. some.at = old.at /\ some.asked = old.asked /\ some.given = given /\ some.cache = value
    BY <2>1, <2>2 DEF SecSelves
  <2>5. self = [some EXCEPT !.holder = 0, !.found = 0]
    BY <1>1, <2>1
  <2>6. self \in SecSelves
    <3>1. [some EXCEPT !.holder = 0] \in SecSelves
      BY <2>3 DEF SecSelves
    <3>2. \A any \in SecSelves : [any EXCEPT !.found = 0] \in SecSelves
      BY DEF SecSelves
    <3> QED BY <2>5, <3>1, <3>2
  <2>7. self.at = some.at /\ self.asked = some.asked /\ self.given = some.given
        /\ self.cache = some.cache /\ self.found = 0
    BY <2>3, <2>5 DEF SecSelves
  <2> QED BY <2>2, <2>4, <2>6, <2>7
<1>5. over \in SecSelves /\ over.at = "idle" /\ over.asked = old.asked /\ over.given = given
  BY <1>1, <1>3, <1>4, SecIdleIs, ZenonT(60) DEF SecSelves
<1>6. SecGiven(self) /\ SecPast(self) /\ SecPast(over)
  BY <1>2, <1>3, <1>4, <1>5 DEF SecGiven, SecPast
<1>7. secSelf' = [secSelf EXCEPT ![o] = over] \/ secSelf' = [secSelf EXCEPT ![o] = self]
  BY <1>1 DEF SecGive
<1>8. CASE secSelf' = [secSelf EXCEPT ![o] = over]
  BY <1>2, <1>5, <1>6, <1>8, SecOneMoves DEF SecTyped
<1>9. CASE secSelf' = [secSelf EXCEPT ![o] = self]
  BY <1>2, <1>4, <1>6, <1>9, SecOneMoves DEF SecTyped
<1> QED BY <1>7, <1>8, <1>9

\* A plugin is given what is kept.
LEMMA SecCachedKeeps == ASSUME SecInv, NEW o \in Op, SecCached(o) PROVE SecInv'
<1>1. PICK value : value = secSelf[o].cache
  OBVIOUS
<1>2. value \in Int \ {0} /\ \A c \in SecContexts : secSelf[o].given[c] \in {0, value}
  BY <1>1 DEF SecInv, SecTyped, SecSelves, SecCached, SecGiven
<1> QED BY <1>1, <1>2, SecGives DEF SecCached

\* What was found is kept.
LEMMA SecKeepKeeps == ASSUME SecInv, NEW o \in Op, SecKeep(o) PROVE SecInv'
<1>1. PICK value : value = secSelf[o].found
  OBVIOUS
<1>2. value \in Int \ {0} /\ \A c \in SecContexts : secSelf[o].given[c] \in {0, value}
  BY <1>1 DEF SecInv, SecTyped, SecSelves, SecKeep, SecGiven
<1> QED BY <1>1, <1>2, SecGives DEF SecKeep

\* The cache is taken.
LEMMA SecTakeMutexKeeps == ASSUME SecInv, NEW o \in Op, SecTakeMutex(o) PROVE SecInv'
<1>1. PICK c \in SecContexts : secSelf' = [secSelf EXCEPT ![o].holder = c]
  BY DEF SecTakeMutex
<1>2. PICK old, s : old = secSelf[o] /\ s = [old EXCEPT !.holder = c]
  OBVIOUS
<1>3. old \in SecSelves /\ SecTyped /\ old.at = "resolving" /\ SecGiven(old) /\ SecPast(old)
  BY <1>2 DEF SecInv, SecTyped, SecTakeMutex, SecAt
<1>4. /\ s \in SecSelves /\ s.at = "resolving" /\ s.asked = old.asked /\ s.given = old.given
      /\ s.found = old.found /\ s.cache = old.cache
  BY <1>2, <1>3 DEF SecSelves
<1>5. SecGiven(s) /\ SecPast(s)
  BY <1>3, <1>4 DEF SecGiven, SecPast
<1>6. secSelf' = [secSelf EXCEPT ![o] = s]
  BY <1>1, <1>2
<1> QED BY <1>3, <1>4, <1>5, <1>6, SecOneMoves DEF SecTakeMutex, SecTyped

\* A value is resolved.
LEMMA SecResolveKeeps == ASSUME SecInv, NEW o \in Op, SecResolve(o) PROVE SecInv'
<1>1. PICK old : old = secSelf[o]
  OBVIOUS
<1>2. /\ old \in SecSelves /\ SecTyped /\ old.at = "resolving" /\ SecGiven(old) /\ SecPast(old)
      /\ old.cache = 0 /\ old.found = 0
  BY <1>1 DEF SecInv, SecTyped, SecResolve, SecAt
<1>3. old.asked = 0 /\ \A c \in SecContexts : old.given[c] = 0
  BY <1>2 DEF SecGiven
<1>4. secKeyring' = secKeyring /\ secFile' = secFile /\ secSure' = secSure /\ secRun' = secRun
  BY DEF SecResolve
<1>5. ASSUME NEW found \in Int \ {0}, NEW asked \in {0, 1}, secLeft' = secLeft,
             secSelf' = [secSelf EXCEPT ![o] = [old EXCEPT !.found = found, !.asked = asked]]
      PROVE  SecInv'
  <2>1. PICK s : s = [old EXCEPT !.found = found, !.asked = asked]
    OBVIOUS
  <2>2. /\ s \in SecSelves /\ s.at = "resolving" /\ s.asked = asked /\ s.given = old.given
        /\ s.found = found /\ s.cache = old.cache
    <3>1. found \in Int /\ asked \in Int /\ old \in SecSelves /\ old.at = "resolving"
      BY <1>2
    <3>2. s \in SecSelves
      BY <2>1, <3>1 DEF SecSelves
    <3>3. s.at = old.at /\ s.asked = asked /\ s.given = old.given /\ s.found = found /\ s.cache = old.cache
      BY <2>1, <3>1 DEF SecSelves
    <3> QED BY <3>1, <3>2, <3>3
  <2>3. SecGiven(s) /\ SecPast(s)
    BY <1>2, <1>3, <2>2 DEF SecGiven, SecPast
  <2> QED BY <1>2, <1>4, <1>5, <2>1, <2>2, <2>3, SecOneMoves DEF SecTyped
<1>7. CASE secLeft' = secLeft /\ secSelf' = [secSelf EXCEPT ![o].found = -1]
  <2>1. secSelf' = [secSelf EXCEPT ![o] = [old EXCEPT !.found = -1, !.asked = 0]]
    <3>1. [old EXCEPT !.found = -1] = [old EXCEPT !.found = -1, !.asked = 0]
      BY <1>2, <1>3 DEF SecSelves
    <3> QED BY <1>1, <1>7, <3>1
  <2>2. -1 \in Int \ {0} /\ 0 \in {0, 1}
    OBVIOUS
  <2> QED BY <1>5, <1>7, <2>1, <2>2
<1>8. CASE /\ secKeyring[old.name] # 0 /\ secLeft' = secLeft
           /\ secSelf' = [secSelf EXCEPT ![o].found = secKeyring[old.name]]
  <2>1. PICK found : found = secKeyring[old.name]
    OBVIOUS
  <2>2. found \in Int \ {0}
    BY <1>2, <1>8, <2>1 DEF SecTyped, SecSelves
  <2>3. secSelf' = [secSelf EXCEPT ![o] = [old EXCEPT !.found = found, !.asked = 0]]
    BY <1>1, <1>2, <1>3, <1>8, <2>1 DEF SecSelves
  <2> QED BY <1>5, <1>8, <2>2, <2>3
<1>9. CASE secLeft' = secLeft /\ secSelf' = [secSelf EXCEPT ![o].found = -2 - secSelf[o].asked, ![o].asked = @ + 1]
  <2>1. secSelf' = [secSelf EXCEPT ![o] = [old EXCEPT !.found = -2, !.asked = 1]]
    <3>1. -2 - old.asked = -2 /\ old.asked + 1 = 1
      BY <1>3
    <3>2. secSelf' = [secSelf EXCEPT ![o] = [old EXCEPT !.found = -2 - old.asked, !.asked = old.asked + 1]]
      BY <1>1, <1>2, <1>9 DEF SecSelves
    <3> QED BY <3>1, <3>2
  <2>2. -2 \in Int \ {0} /\ 1 \in {0, 1}
    OBVIOUS
  <2> QED BY <1>5, <1>9, <2>1, <2>2
<1>10. CASE SecEnd(o) /\ secLeft' = secLeft
  BY <1>2, <1>4, <1>10, SecEnds DEF SecTyped
<1>11. CASE SecEnd(o) /\ SecFault("keyring")
  BY <1>2, <1>4, <1>11, SecEnds, SecFaultCounts DEF SecTyped
<1> QED BY <1>1, <1>7, <1>8, <1>9, <1>10, <1>11 DEF SecResolve

\* A command dies.
LEMMA SecDieKeeps == ASSUME SecInv, NEW o \in Op, SecDie(o) PROVE SecInv'
<1>1. SecTyped
  BY DEF SecInv
<1> QED BY <1>1, SecEnds, SecFaultCounts DEF SecDie, SecTyped

\* A command begins, and those it disturbs are sure of nothing.
LEMMA SecBeginKeeps == ASSUME SecInv, NEW o \in Op, SecBegin(o) PROVE SecInv'
<1>1. PICK n \in SecNames, task \in {"set", "delete", "up"}, terminal \in BOOLEAN :
        /\ secSelf' = [p \in Op |->
              IF p = o
              THEN [SecIdle EXCEPT !.at = IF task = "up" THEN "resolving" ELSE "keyring",
                       !.task = task, !.name = n, !.number = secRun + 1, !.terminal = terminal,
                       !.alone = \A q \in Op : ~SecWrites(q)]
              ELSE [secSelf[p] EXCEPT !.alone = @ /\ task = "up"]]
        /\ secSure' = IF task = "up" THEN secSure ELSE [secSure EXCEPT ![n] = "unknown"]
  BY ZenonT(60) DEF SecBegin
<1>2. /\ secKeyring' = secKeyring /\ secFile' = secFile /\ secLeft' = secLeft
      /\ secRun' = secRun + 1 /\ secRun + 1 \in 0..SecCommands /\ secRun + 1 # 0
      /\ SecTyped /\ secSelf[o].at = "idle"
  <2>1. SecTyped
    BY DEF SecInv
  <2>2. secRun \in 0..SecCommands /\ secRun < SecCommands /\ SecCommands \in Nat
    BY <2>1, SecAssumption DEF SecBegin, SecTyped
  <2>3. secRun + 1 \in 0..SecCommands /\ secRun + 1 # 0
    BY <2>2
  <2> QED BY <2>1, <2>3 DEF SecBegin, SecAt
<1>3. PICK s : s = secSelf'[o]
  OBVIOUS
<1>4. /\ s \in SecSelves /\ s.at = (IF task = "up" THEN "resolving" ELSE "keyring")
      /\ s.task = task /\ s.name = n /\ s.number = secRun + 1 /\ s.found = 0 /\ s.cache = 0
      /\ s.alone <=> \A q \in Op : ~SecWrites(q)
      /\ s.asked = 0 /\ s.given = [c \in SecContexts |-> 0]
  <2>1. PICK at, number, alone :
          /\ at = IF task = "up" THEN "resolving" ELSE "keyring"
          /\ number = secRun + 1 /\ alone = (\A q \in Op : ~SecWrites(q))
    OBVIOUS
  <2>2. /\ at \in {"keyring", "resolving"} /\ number \in 0..SecCommands /\ alone \in BOOLEAN
    BY <1>2, <2>1
  <2>3. PICK some : some = [SecIdle EXCEPT !.at = at, !.task = task, !.name = n]
    OBVIOUS
  <2>4. some \in SecSelves
    BY <2>2, <2>3, SecIdleIs DEF SecSelves
  <2>5. /\ some.at = at /\ some.task = task /\ some.name = n /\ some.found = 0 /\ some.cache = 0
        /\ some.asked = 0 /\ some.given = [c \in SecContexts |-> 0]
    BY <2>3, SecIdleIs DEF SecSelves
  <2>6. s = [some EXCEPT !.number = number, !.terminal = terminal, !.alone = alone]
    BY <1>1, <1>3, <2>1, <2>3
  <2>7. s \in SecSelves
    BY <2>2, <2>4, <2>6 DEF SecSelves
  <2>8. /\ s.at = some.at /\ s.task = some.task /\ s.name = some.name /\ s.found = some.found
        /\ s.cache = some.cache /\ s.asked = some.asked /\ s.given = some.given
        /\ s.number = number /\ s.alone = alone
    BY <2>4, <2>6 DEF SecSelves
  <2> QED BY <2>1, <2>5, <2>7, <2>8
<1>5. ASSUME NEW p \in Op \ {o}
      PROVE  /\ secSelf'[p] \in SecSelves
             /\ secSelf'[p].alone <=> secSelf[p].alone /\ task = "up"
             /\ \A key \in {"at", "task", "name", "number", "names", "found", "cache", "asked", "given"} :
                    secSelf'[p][key] = secSelf[p][key]
  <2>1. secSelf[p] \in SecSelves
    BY <1>2 DEF SecTyped
  <2>2. secSelf'[p] = [secSelf[p] EXCEPT !.alone = @ /\ task = "up"]
    BY <1>1
  <2> QED BY <2>1, <2>2 DEF SecSelves
<1>6. \A m \in SecNames : secSure'[m] \in {secSure[m], "unknown"}
  BY <1>1, <1>2 DEF SecTyped
<1>7. SecTyped'
  <2>1. secSure' \in [SecNames -> {"unknown", "stored", "deleted"}]
    BY <1>1, <1>2 DEF SecTyped
  <2>2. \A p \in Op : secSelf'[p] \in SecSelves
    BY <1>3, <1>4, <1>5
  <2>3. secSelf' \in [Op -> SecSelves]
    BY <1>1, <2>2
  <2> QED BY <1>2, <2>1, <2>3 DEF SecTyped
<1>8. SecWrites(o)' <=> task # "up"
  BY <1>3, <1>4 DEF SecWrites
<1>9. \A p \in Op \ {o} : SecWrites(p)' <=> SecWrites(p)
  BY <1>5 DEF SecWrites
<1>10. ASSUME NEW p \in Op
       PROVE  /\ (SecWrites(p) => SecWriter(secSelf[p]))'
              /\ (SecAt(p, "resolving") => SecGiven(secSelf[p]))'
              /\ SecPast(secSelf[p])'
  <2>1. CASE p = o
    <3>1. SecPast(s) /\ SecGiven(s)
      BY <1>4 DEF SecPast, SecGiven
    <3>2. secSure'[n] = "unknown" \/ task = "up"
      BY <1>1, <1>2 DEF SecTyped
    <3>3. SecWrites(o)' => SecWriter(s)'
      BY <1>2, <1>4, <1>8, <3>2 DEF SecWriter
    <3> QED BY <1>3, <2>1, <3>1, <3>3 DEF SecWriter, SecGiven, SecPast
  <2>2. CASE p # o
    <3> DEFINE old == secSelf[p]
    <3>1. /\ secSelf'[p].at = old.at /\ secSelf'[p].task = old.task /\ secSelf'[p].name = old.name
          /\ secSelf'[p].number = old.number /\ secSelf'[p].names = old.names
          /\ secSelf'[p].found = old.found /\ secSelf'[p].cache = old.cache
          /\ secSelf'[p].asked = old.asked /\ secSelf'[p].given = old.given
          /\ secSelf'[p].alone => old.alone
      BY <1>5, <2>2
    <3>2. (SecAt(p, "resolving") => SecGiven(secSelf[p]))' /\ SecPast(secSelf[p])'
      BY <3>1 DEF SecInv, SecAt, SecGiven, SecPast
    <3>3. old.name \in SecNames
      BY <1>2 DEF SecTyped, SecSelves
    <3>4. (SecWrites(p) => SecWriter(secSelf[p]))'
      BY <1>2, <1>6, <1>9, <2>2, <3>1, <3>3 DEF SecInv, SecWriter
    <3> QED BY <3>2, <3>4
  <2> QED BY <2>1, <2>2
<1>11. \A p \in Op : (SecWrites(p) /\ secSelf[p].alone => \A q \in Op \ {p} : ~SecWrites(q))'
  <2>1. ASSUME NEW p \in Op, SecWrites(p)', secSelf'[p].alone, NEW q \in Op \ {p}
        PROVE  ~SecWrites(q)'
    <3>1. CASE p = o
      BY <1>3, <1>4, <1>9, <2>1, <3>1
    <3>2. CASE p # o
      <4>1. SecWrites(p) /\ secSelf[p].alone /\ task = "up"
        BY <1>5, <1>9, <2>1, <3>2
      <4>2. ~SecWrites(q)
        BY <4>1 DEF SecInv
      <4> QED BY <1>8, <1>9, <4>1, <4>2
    <3> QED BY <3>1, <3>2
  <2> QED BY <2>1
<1>12. SecAnswersAreTrue'
  <2>1. ASSUME NEW p \in Op
        PROVE  /\ secSelf'[p].asked <= 1
               /\ \A c, d \in SecContexts : secSelf'[p].given[c] \in {0, secSelf'[p].given[d]}
                                            \/ secSelf'[p].given[d] = 0
    BY <1>10 DEF SecPast
  <2> QED BY <1>2, <1>6, <2>1 DEF SecInv, SecAnswersAreTrue
<1>13. secFile'.is = "absent" => secFile'.names = {} /\ \A m \in SecNames : secSure'[m] # "stored"
  BY <1>2, <1>6 DEF SecInv
<1> QED BY <1>7, <1>10, <1>11, <1>12, <1>13 DEF SecInv

\* Each step keeps the invariant.
LEMMA SecStepKeeps == ASSUME SecInv, [SecNext]_secVars PROVE SecInv'
<1>1. ASSUME UNCHANGED secVars PROVE SecInv'
  BY <1>1 DEF SecInv, SecTyped, SecWrites, SecWriter, SecAt, SecGiven, SecPast, SecAnswersAreTrue, secVars
<1> QED
  BY <1>1, SecBeginKeeps, SecKeyringKeeps, SecLoadKeeps, SecOpenKeeps, SecWriteKeeps,
     SecTakeMutexKeeps, SecCachedKeeps, SecResolveKeeps, SecKeepKeeps, SecDieKeeps DEF SecNext

\* Every variable has its type.
LEMMA SecInvTyped == ASSUME SecInv PROVE SecTypeOK
BY DEF SecInv, SecTyped, SecTypeOK, SecSelves

\* The invariant holds in every state.
LEMMA SecInvariant == SecSpec => []SecInv
<1>1. SecInit => SecInv
  BY SecInitially
<1>2. SecInv /\ [SecNext]_secVars => SecInv'
  BY SecStepKeeps
<1> QED BY <1>1, <1>2, PTL DEF SecSpec

\* A `secret set` or `secret delete` that ran alone is true until a command names
\* its secret again, and an operation asks once and gives all its plugins one
\* value, whatever fails or dies (the commands on secrets, and OperationSecretCache).
THEOREM SecAnswersHold == SecSpec => []SecAnswersAreTrue
<1>1. SecInv => SecAnswersAreTrue
  BY DEF SecInv
<1> QED BY <1>1, SecInvariant, PTL

\* The keyring, its index and every command that uses them are always of their
\* types, whatever fails or dies (the commands on secrets, and SecretResolver).
THEOREM SecTypeCorrect == SecSpec => []SecTypeOK
<1>1. SecInv => SecTypeOK
  BY SecInvTyped
<1> QED BY <1>1, SecInvariant, PTL
==============================================================================
