--------------------------- MODULE PluginProtocol ---------------------------
(***************************************************************************)
(* One session with a plugin: the client in the core, with its tables of   *)
(* pending and retired requests, its reader task and its shutdown; the     *)
(* server loop of the plugin process, with its request tasks; and the two  *)
(* pipes between them.  Every await at which another task may run is a     *)
(* boundary of actions; every table is behind a mutex of its own.          *)
(***************************************************************************)
EXTENDS Naturals, Sequences

CONSTANTS
    Calls,      \* requests of the core, by id
    Brief,      \* those that it awaits only briefly: plugin.cancel
    Shutdown,   \* the plugin.shutdown request
    Reader,     \* the client's reader task
    None,       \* no id
    Room,       \* messages that the plugin's stdin holds unread
    Faults      \* what goes wrong: crash, junk, oversize, wedge

Requests == Calls \union {Shutdown}
Agents == Requests \union {Reader}

ASSUME ProtocolConstants ==
    /\ Brief \subseteq Calls /\ Shutdown \notin Calls
    /\ Reader \notin Requests
    /\ None \notin Agents
    /\ Room \in Nat \ {0}
    /\ Faults \subseteq {"crash", "junk", "oversize", "wedge"}

VARIABLES
    call,      \* where each request's future is
    slot,      \* its oneshot channel: empty, response, terminal
    pending, retired, terminal,   \* of the client's Inner
    writer,    \* the client still has the plugin's stdin
    cancels,   \* $/cancelRequest notifications not yet written
    reader,    \* what the reader task is doing, and with which id
    marks,     \* how far an agent has come in mark_terminal
    shut,      \* PluginClient::shutdown after its request: no, closing, done
    toPlugin, toCore,   \* stdin and stdout of the plugin
    server,    \* serving, wedged (reads no more), draining, gone
    active, task,       \* the server's table of requests and their tasks
    botched,   \* a task could not write its answer; drained serve fails of it
    doomed     \* the child has been sent its kill

callVars == <<call, slot>>
tableVars == <<pending, retired>>
clientVars == <<callVars, tableVars, terminal, writer, cancels, reader, marks, shut>>
serverVars == <<server, active, task, botched>>
vars == <<clientVars, toPlugin, toCore, serverVars, doomed>>

Settled == {"ok", "timeout", "error", "dropped"}
Working == {"running", "aborting"}
Kinds == {"request", "cancel"}
Message(kind, r) == [kind |-> kind, id |-> r]

Init ==
    /\ call = [r \in Requests |-> "new"]
    /\ slot = [r \in Requests |-> "empty"]
    /\ pending = {} /\ retired = {} /\ terminal = FALSE
    /\ writer = TRUE /\ cancels = {}
    /\ reader = [at |-> "reading", id |-> None]
    /\ marks = [a \in Agents |-> "no"]
    /\ shut = "no"
    /\ toPlugin = <<>> /\ toCore = <<>>
    /\ server = "serving" /\ active = {}
    /\ task = [r \in Requests |-> "none"]
    /\ botched = FALSE /\ doomed = FALSE

-----------------------------------------------------------------------------
(* request_with_timeout *)

Goto(r, place) == call' = [call EXCEPT ![r] = place]

\* The owner of a session shuts it down when its calls have returned.
Check(r) ==
    /\ call[r] = "new"
    /\ IF r = Shutdown THEN \A c \in Calls : call[c] \in Settled \union {"new"}
                       ELSE call[Shutdown] = "new"
    /\ Goto(r, IF terminal THEN "error" ELSE "checked")
    /\ UNCHANGED <<slot, tableVars, terminal, writer, cancels, reader, marks, shut,
                   toPlugin, toCore, serverVars, doomed>>

List(r) ==
    /\ call[r] = "checked"
    /\ pending' = pending \union {r}
    /\ Goto(r, "listed")
    /\ UNCHANGED <<slot, retired, terminal, writer, cancels, reader, marks, shut,
                   toPlugin, toCore, serverVars, doomed>>

\* Mutant of Write: the pipe is taken to be endless.
WriteAtOnce(r) ==
    /\ call[r] = "listed" /\ server # "gone"
    /\ toPlugin' = Append(toPlugin, Message("request", r))
    /\ Goto(r, "waiting")
    /\ UNCHANGED <<slot, tableVars, terminal, writer, cancels, reader, marks, shut,
                   toCore, serverVars, doomed>>

\* The write has no timeout of its own: it waits for room.
Write(r) ==
    /\ call[r] = "listed" /\ server # "gone" /\ Len(toPlugin) < Room
    /\ toPlugin' = Append(toPlugin, Message("request", r))
    /\ Goto(r, "waiting")
    /\ UNCHANGED <<slot, tableVars, terminal, writer, cancels, reader, marks, shut,
                   toCore, serverVars, doomed>>

Receive(r) ==
    /\ call[r] = "waiting" /\ slot[r] # "empty"
    /\ Goto(r, IF slot[r] = "response" THEN "ok" ELSE "error")
    /\ slot' = [slot EXCEPT ![r] = "empty"]
    /\ UNCHANGED <<tableVars, terminal, writer, cancels, reader, marks, shut,
                   toPlugin, toCore, serverVars, doomed>>

\* Mutant of TimeOut: a session that has ended is taken to wake every caller.
TimeOutLive(r) ==
    /\ call[r] = "waiting" /\ slot[r] = "empty" /\ ~terminal
    /\ pending' = pending \ {r}
    /\ Goto(r, "retiring")
    /\ UNCHANGED <<slot, retired, terminal, writer, cancels, reader, marks, shut,
                   toPlugin, toCore, serverVars, doomed>>

TimeOut(r) ==
    /\ call[r] = "waiting" /\ slot[r] = "empty"
    /\ pending' = pending \ {r}
    /\ Goto(r, "retiring")
    /\ UNCHANGED <<slot, retired, terminal, writer, cancels, reader, marks, shut,
                   toPlugin, toCore, serverVars, doomed>>

\* Mutants of Retire: the id is forgotten; the plugin is not told.
RetireUnlisted(r) ==
    /\ call[r] = "retiring"
    /\ cancels' = cancels \union {r}
    /\ Goto(r, "timeout")
    /\ UNCHANGED <<slot, tableVars, terminal, writer, reader, marks, shut,
                   toPlugin, toCore, serverVars, doomed>>

RetireSilently(r) ==
    /\ call[r] = "retiring"
    /\ retired' = retired \union {r}
    /\ Goto(r, "timeout")
    /\ UNCHANGED <<slot, pending, terminal, writer, cancels, reader, marks, shut,
                   toPlugin, toCore, serverVars, doomed>>

\* The second half of the timeout; the notification is left to a task.
Retire(r) ==
    /\ call[r] = "retiring"
    /\ retired' = retired \union {r}
    /\ cancels' = cancels \union {r}
    /\ Goto(r, "timeout")
    /\ UNCHANGED <<slot, pending, terminal, writer, reader, marks, shut,
                   toPlugin, toCore, serverVars, doomed>>

\* The core waits at most five seconds for its plugin.cancel, then drops it.
Drop(r) ==
    /\ r \in Brief /\ call[r] = "waiting"
    /\ Goto(r, "dropped")
    /\ UNCHANGED <<slot, tableVars, terminal, writer, cancels, reader, marks, shut,
                   toPlugin, toCore, serverVars, doomed>>

SendCancel(r) ==
    /\ r \in cancels /\ writer /\ server # "gone" /\ Len(toPlugin) < Room
    /\ cancels' = cancels \ {r}
    /\ toPlugin' = Append(toPlugin, Message("cancel", r))
    /\ UNCHANGED <<callVars, tableVars, terminal, writer, reader, marks, shut,
                   toCore, serverVars, doomed>>

LoseCancel(r) ==
    /\ r \in cancels /\ (~writer \/ server = "gone")
    /\ cancels' = cancels \ {r}
    /\ UNCHANGED <<callVars, tableVars, terminal, writer, reader, marks, shut,
                   toPlugin, toCore, serverVars, doomed>>

-----------------------------------------------------------------------------
(* mark_terminal, by the reader task or by a request whose write failed *)

Return(a) ==
    IF a = Reader
    THEN /\ reader' = [at |-> "gone", id |-> None]
         /\ toCore' = <<>>
         /\ UNCHANGED call
    ELSE Goto(a, "error") /\ UNCHANGED <<reader, toCore>>

\* Only the first of them goes on.
Mark(a) ==
    /\ marks' = [marks EXCEPT ![a] = IF terminal THEN "no" ELSE "wake"]
    /\ terminal' = TRUE

\* Leaving the table commutes with whatever happens until the mark.
WriteFails(r) ==
    /\ call[r] = "listed"
    /\ server = "gone" \/ "oversize" \in Faults
    /\ pending' = pending \ {r}
    /\ Mark(r)
    /\ Goto(r, IF terminal THEN "error" ELSE "failing")
    /\ UNCHANGED <<slot, retired, writer, cancels, reader, shut,
                   toPlugin, toCore, serverVars, doomed>>

Listening == {r \in Requests : call[r] \in {"listed", "waiting"}}

Wake(a) ==
    /\ marks[a] = "wake"
    /\ pending' = {}
    /\ slot' = [r \in Requests |-> IF r \in pending \intersect Listening
                                   THEN "terminal" ELSE slot[r]]
    /\ marks' = [marks EXCEPT ![a] = "kill"]
    /\ UNCHANGED <<call, retired, terminal, writer, cancels, reader, shut,
                   toPlugin, toCore, serverVars, doomed>>

\* shutdown keeps the child locked while it waits for it.
Kill(a) ==
    /\ marks[a] = "kill" /\ shut # "closing"
    /\ doomed' = (server # "gone")
    /\ marks' = [marks EXCEPT ![a] = "no"]
    /\ Return(a)
    /\ UNCHANGED <<slot, tableVars, terminal, writer, cancels, shut,
                   toPlugin, serverVars>>

-----------------------------------------------------------------------------
(* The reader task: spawn_protocol_reader and process_incoming *)

Read(place) ==
    /\ reader.at = "reading" /\ toCore # <<>>
    /\ reader' = [at |-> place, id |-> Head(toCore)]
    /\ toCore' = Tail(toCore)
    /\ pending' = pending \ {Head(toCore)}
    /\ UNCHANGED <<callVars, retired, terminal, writer, cancels, marks, shut,
                   toPlugin, serverVars, doomed>>

ReadPending == toCore # <<>> /\ Head(toCore) \in pending /\ Read("holding")
ReadUnlisted == toCore # <<>> /\ Head(toCore) \notin pending /\ Read("missed")

\* The caller may have given up since its sender was taken from the table.
Hand ==
    /\ reader.at = "holding"
    /\ slot' = IF reader.id \in Listening
               THEN [slot EXCEPT ![reader.id] = "response"] ELSE slot
    /\ reader' = [at |-> "reading", id |-> None]
    /\ UNCHANGED <<call, tableVars, terminal, writer, cancels, marks, shut,
                   toPlugin, toCore, serverVars, doomed>>

IgnoreRetired ==
    /\ reader.at = "missed" /\ reader.id \in retired
    /\ retired' = retired \ {reader.id}
    /\ reader' = [at |-> "reading", id |-> None]
    /\ UNCHANGED <<callVars, pending, terminal, writer, cancels, marks, shut,
                   toPlugin, toCore, serverVars, doomed>>

EndReading ==
    /\ Mark(Reader)
    /\ IF terminal THEN Return(Reader)
       ELSE reader' = [reader EXCEPT !.at = "failing"] /\ UNCHANGED <<call, toCore>>
    /\ UNCHANGED <<slot, tableVars, writer, cancels, shut, toPlugin, serverVars, doomed>>

Unknown == reader.at = "missed" /\ reader.id \notin retired /\ EndReading
Eof == reader.at = "reading" /\ toCore = <<>> /\ server = "gone" /\ EndReading

\* A banner, an empty line, a malformed object on the plugin's stdout.
Junk == "junk" \in Faults /\ reader.at = "reading" /\ server # "gone" /\ EndReading

-----------------------------------------------------------------------------
(* serve *)

Take(kind, S) ==
    /\ server = "serving" /\ toPlugin # <<>>
    /\ Head(toPlugin).kind = kind /\ Head(toPlugin).id \in S
    /\ toPlugin' = Tail(toPlugin)

\* Mutant of Serve: the task starts at once and may be over before it is listed.
ServeUngated(r) ==
    /\ active' = active \union {r}
    /\ \/ task' = [task EXCEPT ![r] = "running"] /\ UNCHANGED toCore
       \/ task' = [task EXCEPT ![r] = "done"] /\ toCore' = Append(toCore, r)

\* The task waits for its start until it is in the table.
Serve(r) ==
    /\ active' = active \union {r}
    /\ task' = [task EXCEPT ![r] = "running"]
    /\ UNCHANGED toCore

ReadRequest ==
    /\ Take("request", Calls)
    /\ Serve(Head(toPlugin).id)
    /\ UNCHANGED <<clientVars, server, botched, doomed>>

ReadCancel ==
    /\ Take("cancel", Requests)
    /\ LET r == Head(toPlugin).id IN
         /\ active' = active \ {r}
         /\ task' = IF r \in active /\ task[r] = "running"
                    THEN [task EXCEPT ![r] = "aborting"] ELSE task
    /\ UNCHANGED <<clientVars, toCore, server, botched, doomed>>

ReadShutdown ==
    /\ Take("request", {Shutdown}) /\ reader.at # "gone"
    /\ toCore' = Append(toCore, Shutdown)
    /\ server' = "draining"
    /\ UNCHANGED <<clientVars, active, task, botched, doomed>>

StdinEof ==
    /\ server = "serving" /\ toPlugin = <<>> /\ ~writer
    /\ server' = "draining"
    /\ UNCHANGED <<clientVars, toPlugin, toCore, active, task, botched, doomed>>

Wedge ==
    /\ "wedge" \in Faults /\ server = "serving"
    /\ server' = "wedged"
    /\ UNCHANGED <<clientVars, toPlugin, toCore, active, task, botched, doomed>>

\* An abort does not stop a task that is finishing its last poll.
Finish(r) ==
    /\ task[r] \in Working /\ reader.at # "gone"
    /\ toCore' = Append(toCore, r)
    /\ task' = [task EXCEPT ![r] = "answered"]
    /\ UNCHANGED <<clientVars, toPlugin, server, active, botched, doomed>>

\* The answer is too large, or nobody reads it.
FinishUnwritten(r) ==
    /\ task[r] = "running" /\ (reader.at = "gone" \/ "oversize" \in Faults)
    /\ task' = [task EXCEPT ![r] = "done"]
    /\ active' = active \ {r}
    /\ botched' = TRUE
    /\ UNCHANGED <<clientVars, toPlugin, toCore, server, doomed>>

Deregister(r) ==
    /\ task[r] = "answered"
    /\ task' = [task EXCEPT ![r] = "done"]
    /\ active' = active \ {r}
    /\ UNCHANGED <<clientVars, toPlugin, toCore, server, botched, doomed>>

Stopped(r) ==
    /\ task[r] = "aborting"
    /\ task' = [task EXCEPT ![r] = "stopped"]
    /\ UNCHANGED <<clientVars, toPlugin, toCore, server, active, botched, doomed>>

\* The end of the process, whatever its tasks are doing.
Vanish ==
    /\ server' = "gone" /\ toPlugin' = <<>> /\ active' = {}
    /\ botched' = FALSE /\ doomed' = FALSE
    /\ task' = [r \in Requests |->
                  IF task[r] \in Working THEN "stopped"
                  ELSE IF task[r] = "answered" THEN "done" ELSE task[r]]
    /\ UNCHANGED <<clientVars, toCore>>

Exit ==
    /\ server = "draining"
    /\ botched \/ \A r \in Requests : task[r] \notin Working \union {"answered"}
    /\ Vanish

\* serve fails when the answer to plugin.shutdown finds nobody reading.
ShutdownUnwritten ==
    /\ server = "serving" /\ reader.at = "gone" /\ toPlugin # <<>>
    /\ Head(toPlugin) = Message("request", Shutdown)
    /\ Vanish

Dies == server # "gone" /\ doomed /\ Vanish
Crash == "crash" \in Faults /\ server # "gone" /\ Vanish

-----------------------------------------------------------------------------
(* PluginClient::shutdown, after its request *)

CloseWriter ==
    /\ call[Shutdown] \in Settled /\ shut = "no"
    /\ writer' = FALSE
    /\ shut' = "closing"
    /\ UNCHANGED <<callVars, tableVars, terminal, cancels, reader, marks,
                   toPlugin, toCore, serverVars, doomed>>

GraceOver ==
    /\ shut = "closing" /\ server # "gone" /\ ~doomed
    /\ doomed' = TRUE
    /\ UNCHANGED <<clientVars, toPlugin, toCore, serverVars>>

\* Mutant of Reap: a child that has been sent its kill is taken to be dead.
ReapUnwaited ==
    /\ shut = "closing" /\ (server = "gone" \/ doomed)
    /\ shut' = "done"
    /\ UNCHANGED <<callVars, tableVars, terminal, writer, cancels, reader, marks,
                   toPlugin, toCore, serverVars, doomed>>

Reap ==
    /\ shut = "closing" /\ server = "gone"
    /\ shut' = "done"
    /\ UNCHANGED <<callVars, tableVars, terminal, writer, cancels, reader, marks,
                   toPlugin, toCore, serverVars, doomed>>

-----------------------------------------------------------------------------
EndMark(a) == Wake(a) \/ Kill(a)

Calling(r) ==
    \/ List(r) \/ Write(r) \/ (server = "gone" /\ WriteFails(r))
    \/ Receive(r) \/ TimeOut(r) \/ Retire(r) \/ EndMark(r)

Notifying(r) == SendCancel(r) \/ LoseCancel(r)

Reading ==
    ReadPending \/ ReadUnlisted \/ Hand \/ IgnoreRetired \/ Unknown \/ Eof \/ EndMark(Reader)

Serving == ReadRequest \/ ReadCancel \/ ReadShutdown \/ StdinEof \/ Exit \/ ShutdownUnwritten

Closing == CloseWriter \/ GraceOver \/ Reap

Proceed ==
    \/ \E r \in Requests : Calling(r) \/ Notifying(r)
    \/ \E c \in Calls : Deregister(c) \/ Stopped(c)
    \/ Reading \/ Serving \/ Closing \/ Dies

Next ==
    \/ Proceed
    \/ \E r \in Requests : Check(r) \/ WriteFails(r) \/ Drop(r)
    \/ \E c \in Calls : Finish(c) \/ FinishUnwritten(c)
    \/ Junk \/ Wedge \/ Crash

Spec == Init /\ [][Next]_vars

\* Timers fire, pipes are read, an aborted task stops, a killed process dies.
\* Nothing in a session repeats, so that fairness of all this together is enough.
\* The core need not start a call and no handler is forced to finish.
FairSpec == Spec /\ WF_vars(Proceed)

-----------------------------------------------------------------------------
TypeOK ==
    /\ call \in [Requests -> Settled \union
                   {"new", "checked", "listed", "waiting", "retiring", "failing"}]
    /\ slot \in [Requests -> {"empty", "response", "terminal"}]
    /\ pending \subseteq Requests /\ retired \subseteq Requests
    /\ terminal \in BOOLEAN /\ writer \in BOOLEAN
    /\ cancels \subseteq Requests
    /\ reader \in [at : {"reading", "holding", "missed", "failing", "gone"},
                   id : Requests \union {None}]
    /\ marks \in [Agents -> {"no", "wake", "kill"}]
    /\ shut \in {"no", "closing", "done"}
    /\ toPlugin \in Seq([kind : Kinds, id : Requests]) /\ Len(toPlugin) <= Room
    /\ toCore \in Seq(Requests)
    /\ server \in {"serving", "wedged", "draining", "gone"}
    /\ active \subseteq Requests
    /\ task \in [Requests -> Working \union {"none", "answered", "done", "stopped"}]
    /\ botched \in BOOLEAN /\ doomed \in BOOLEAN

\* An answer that matches no pending request of a live session belongs to a
\* request that has timed out: it is in the retired set, or about to enter it.
OnlyRetiringIsUnknown ==
    reader.at = "missed" /\ ~terminal =>
        reader.id \in retired \/ call[reader.id] = "retiring"

\* A running handler can be cancelled, and what can be cancelled is still there:
\* neither a fast task nor an abort leaves the server's table wrong.
ActiveIsServed ==
    /\ \A r \in active : task[r] \in {"running", "answered"}
    /\ \A r \in Requests : task[r] = "running" => r \in active

\* What the core sees of a call, and what the plugin does for it.
SeenAs(place) ==
    CASE place = "new" -> "idle"
      [] place = "ok" -> "answered"
      [] place \in Settled \ {"ok"} -> "failed"
      [] OTHER -> "open"

DoneAs(state) ==
    CASE state \in Working -> "working"
      [] state \in {"answered", "done"} -> "done"
      [] OTHER -> state

Contract == INSTANCE PluginCall WITH
    caller <- [c \in Calls |-> SeenAs(call[c])],
    work <- [c \in Calls |-> DoneAs(task[c])],
    closed <- shut = "done"

\* The session keeps the promises of PluginCall, however it breaks: a call is
\* worked on once at most, an answer is for work that is done, and after
\* shutdown nothing is being worked on.
ImplementsCall == Contract!Spec

\* Stuck is a plugin that has stopped reading, with its stdin full.
Stuck == server = "wedged" /\ Len(toPlugin) = Room

\* Every call returns to its caller, whichever side breaks first.  (A session
\* repeats nothing, so that what holds in the end is all that can be asked.)
EveryCallEnds == <>[](Stuck \/ \A r \in Requests : call[r] \in Settled \union {"new"})

\* The plugin does not go on with a call that has timed out, as long as it reads.
AbandonedStops ==
    <>[](server = "wedged" \/ \A c \in Calls : call[c] = "timeout" => task[c] \notin Working)

\* docs/plugin-protocol.md: core waits up to five seconds before killing an
\* unresponsive child.  A shutdown always comes to its end.
ShutdownEnds == call[Shutdown] = "checked" ~> shut = "done"
=============================================================================
