------------------------ MODULE PluginProtocolProofs ------------------------
(***************************************************************************)
(* Proofs about a session with a plugin, for any set of calls, any room in *)
(* the pipe and any of the faults: its types, the two tables of the ends   *)
(* of the session, and that it keeps the contract of PluginCall.           *)
(*                                                                         *)
(* The invariant follows an id through the session.  It is in at most one  *)
(* place on its way (stdin, a task, stdout, the reader, a oneshot slot),   *)
(* and each place says what the plugin has done for it.  As long as the    *)
(* session is alive, whatever may still be answered is an id the client    *)
(* knows: pending, retired, or about to be retired.                        *)
(***************************************************************************)
EXTENDS PluginProtocol, TLAPS

-----------------------------------------------------------------------------
(* Pipes *)

Has(s, x) == \E i \in 1 .. Len(s) : s[i] = x
Once(s, x) == \A i, j \in 1 .. Len(s) : s[i] = x /\ s[j] = x => i = j

\* An empty pipe has no message.
LEMMA EmptyFacts == ASSUME NEW x PROVE ~Has(<<>>, x) /\ Once(<<>>, x)
BY DEF Has, Once

\* What writing to a pipe adds to it.
LEMMA AppendFacts ==
    ASSUME NEW S, NEW s \in Seq(S), NEW e \in S, NEW x
    PROVE  /\ Has(Append(s, e), x) <=> Has(s, x) \/ x = e
           /\ Once(s, x) /\ (x = e => ~Has(s, x)) => Once(Append(s, e), x)
           /\ Append(s, e) \in Seq(S) /\ Len(Append(s, e)) = Len(s) + 1
<1>1. /\ Len(Append(s, e)) = Len(s) + 1 /\ Append(s, e)[Len(s) + 1] = e
      /\ Append(s, e) \in Seq(S) /\ Len(s) \in Nat
      /\ \A i \in 1 .. Len(s) : Append(s, e)[i] = s[i]
  OBVIOUS
<1>2. Has(Append(s, e), x) <=> Has(s, x) \/ x = e
  BY <1>1 DEF Has
<1>3. Once(s, x) /\ (x = e => ~Has(s, x)) => Once(Append(s, e), x)
  BY <1>1 DEF Has, Once
<1> QED BY <1>1, <1>2, <1>3

\* What reading from a pipe takes from it.
LEMMA TailFacts ==
    ASSUME NEW S, NEW s \in Seq(S), s # <<>>, NEW x
    PROVE  /\ Tail(s) \in Seq(S) /\ Len(Tail(s)) < Len(s) /\ Head(s) \in S
           /\ Has(s, Head(s))
           /\ Has(s, x) <=> x = Head(s) \/ Has(Tail(s), x)
           /\ Once(s, x) => Once(Tail(s), x)
           /\ Once(s, Head(s)) => ~Has(Tail(s), Head(s))
<1>1. /\ Len(s) \in Nat \ {0} /\ Head(s) = s[1] /\ Len(Tail(s)) = Len(s) - 1
      /\ Tail(s) \in Seq(S) /\ Head(s) \in S
      /\ \A i \in 1 .. Len(s) - 1 : Tail(s)[i] = s[i + 1]
  OBVIOUS
<1>2. Has(s, Head(s))
  BY <1>1 DEF Has
<1>3. Has(s, x) <=> x = Head(s) \/ Has(Tail(s), x)
  <2>1. ASSUME Has(s, x), x # Head(s) PROVE Has(Tail(s), x)
    <3>1. PICK i \in 1 .. Len(s) : s[i] = x BY <2>1 DEF Has
    <3>2. i # 1 /\ i - 1 \in 1 .. Len(s) - 1 /\ (i - 1) + 1 = i BY <1>1, <2>1, <3>1
    <3>3. Tail(s)[i - 1] = x BY <1>1, <3>1, <3>2
    <3> QED BY <1>1, <3>2, <3>3 DEF Has
  <2>2. ASSUME Has(Tail(s), x) PROVE Has(s, x)
    BY <1>1, <2>2 DEF Has
  <2> QED BY <1>2, <2>1, <2>2
<1>4. Once(s, x) => Once(Tail(s), x)
  BY <1>1 DEF Once
<1>5. Once(s, Head(s)) => ~Has(Tail(s), Head(s))
  BY <1>1 DEF Once, Has
<1> QED BY <1>1, <1>2, <1>3, <1>4, <1>5

-----------------------------------------------------------------------------
(* The actions, by the actor whose state they are about *)

CallerStep(r) ==
    \/ Check(r) \/ List(r) \/ Write(r) \/ WriteFails(r) \/ Receive(r) \/ TimeOut(r)
    \/ Retire(r) \/ Drop(r) \/ SendCancel(r) \/ LoseCancel(r)
ReaderStep ==
    ReadPending \/ ReadUnlisted \/ Hand \/ IgnoreRetired \/ Unknown \/ Eof \/ Junk
ServerStep == ReadRequest \/ ReadCancel \/ ReadShutdown \/ StdinEof \/ Wedge
TaskStep(c) == Finish(c) \/ FinishUnwritten(c) \/ Deregister(c) \/ Stopped(c)

\* Every step is a step of one of the actors.
LEMMA Steps ==
    ASSUME [Next]_vars
    PROVE  \/ \E r \in Requests : CallerStep(r)
           \/ \E a \in Agents : Wake(a) \/ Kill(a)
           \/ ReaderStep \/ ServerStep
           \/ \E c \in Calls : TaskStep(c)
           \/ server # "gone" /\ Vanish
           \/ Closing
           \/ UNCHANGED vars
BY DEF Next, Proceed, Calling, Notifying, Reading, Serving, EndMark, CallerStep, ReaderStep,
   ServerStep, TaskStep, Exit, ShutdownUnwritten, Dies, Crash, Agents

-----------------------------------------------------------------------------
(* Types *)

Readings == [at : {"reading", "holding", "missed", "failing", "gone"}, id : Requests \union {None}]

\* Both states in which the reader task stops reading are states of it.
LEMMA GoneReading ==
    /\ [at |-> "gone", id |-> None] \in Readings
    /\ \A x \in Readings : [x EXCEPT !.at = "failing"] \in Readings
<1>1. ASSUME NEW x \in Readings PROVE [x EXCEPT !.at = "failing"] \in Readings
  BY DEF Readings
<1> QED BY <1>1 DEF Readings

\* The callers keep the types: request_with_timeout.
LEMMA CallerType == ASSUME TypeOK, NEW r \in Requests, CallerStep(r) PROVE TypeOK'
<1> USE ProtocolConstants DEF TypeOK, Goto, Settled
<1>1. ASSUME Check(r) PROVE TypeOK'
  BY <1>1 DEF Check, callVars, tableVars, serverVars, Mark, Agents
<1>2. ASSUME List(r) PROVE TypeOK'
  BY <1>2 DEF List, callVars, tableVars, serverVars, Mark, Agents
<1>3. ASSUME WriteFails(r) PROVE TypeOK'
  BY <1>3 DEF WriteFails, callVars, tableVars, serverVars, Mark, Agents
<1>4. ASSUME Receive(r) PROVE TypeOK'
  BY <1>4 DEF Receive, callVars, tableVars, serverVars, Mark, Agents
<1>5. ASSUME TimeOut(r) PROVE TypeOK'
  BY <1>5 DEF TimeOut, callVars, tableVars, serverVars, Mark, Agents
<1>6. ASSUME Retire(r) PROVE TypeOK'
  BY <1>6 DEF Retire, callVars, tableVars, serverVars, Mark, Agents
<1>7. ASSUME Drop(r) PROVE TypeOK'
  BY <1>7 DEF Drop, callVars, tableVars, serverVars, Mark, Agents
<1>8. ASSUME LoseCancel(r) PROVE TypeOK'
  BY <1>8 DEF LoseCancel, callVars, tableVars, serverVars, Mark, Agents
<1>9. ASSUME Write(r) PROVE TypeOK'
  <2>1. toPlugin' \in Seq([kind : Kinds, id : Requests]) /\ Len(toPlugin') <= Room
    BY <1>9, AppendFacts DEF Write, Message, Kinds
  <2> QED BY <1>9, <2>1 DEF Write, callVars, tableVars, serverVars
<1>10. ASSUME SendCancel(r) PROVE TypeOK'
  <2>1. toPlugin' \in Seq([kind : Kinds, id : Requests]) /\ Len(toPlugin') <= Room
    BY <1>10, AppendFacts DEF SendCancel, Message, Kinds
  <2> QED BY <1>10, <2>1 DEF SendCancel, callVars, tableVars, serverVars
<1> QED BY <1>1, <1>2, <1>3, <1>4, <1>5, <1>6, <1>7, <1>8, <1>9, <1>10 DEF CallerStep

\* mark_terminal keeps the types.
LEMMA MarkType == ASSUME TypeOK, NEW a \in Agents, Wake(a) \/ Kill(a) PROVE TypeOK'
<1> USE ProtocolConstants DEF TypeOK, Settled
<1>1. CASE Wake(a)
  BY <1>1 DEF Wake, serverVars
<1>2. CASE Kill(a)
  <2>1. a # Reader => a \in Requests BY DEF Agents
  <2>2. reader' \in Readings /\ toCore' \in Seq(Requests)
    <3>1. reader \in Readings /\ toCore \in Seq(Requests) /\ <<>> \in Seq(Requests)
      BY DEF Readings
    <3> HIDE DEF TypeOK
    <3> QED BY <1>2, <3>1, GoneReading DEF Kill, Return
  <2>4. call' \in [Requests -> Settled \union
                     {"new", "checked", "listed", "waiting", "retiring", "failing"}]
    BY <1>2, <2>1 DEF Kill, Return, Goto
  <2> HIDE DEF Settled
  <2> QED BY <1>2, <2>2, <2>4 DEF Kill, Readings, callVars, tableVars, serverVars
<1> QED BY <1>1, <1>2

\* The reader task keeps the types.
LEMMA ReaderType == ASSUME TypeOK, ReaderStep PROVE TypeOK'
<1> USE ProtocolConstants DEF TypeOK, Settled
<1>1. CASE ReadPending \/ ReadUnlisted
  <2>1. Head(toCore) \in Requests /\ Tail(toCore) \in Seq(Requests)
    BY <1>1, TailFacts DEF ReadPending, ReadUnlisted
  <2>2. reader' \in Readings BY <1>1, <2>1 DEF ReadPending, ReadUnlisted, Read, Readings
  <2> QED BY <1>1, <2>1, <2>2, ZenonT(60) DEF Readings, ReadPending, ReadUnlisted, Read, callVars, serverVars
<1>2. CASE Hand
  BY <1>2 DEF Hand, tableVars, serverVars
<1>3. CASE IgnoreRetired
  BY <1>3 DEF IgnoreRetired, callVars, serverVars
<1>4. CASE Unknown \/ Eof \/ Junk
  <2>1. /\ EndReading
        /\ reader' \in {[reader EXCEPT !.at = "failing"], [at |-> "gone", id |-> None]}
    BY <1>4 DEF Unknown, Eof, Junk, EndReading, Return
  <2>2. reader' \in Readings
    <3>1. reader \in Readings BY DEF Readings
    <3> HIDE DEF TypeOK
    <3>2. [reader EXCEPT !.at = "failing"] \in Readings BY <3>1, GoneReading
    <3> QED BY <2>1, <3>2, GoneReading
  <2>3. EndReading BY <2>1
  <2>4. call' = call /\ toCore' \in {toCore, <<>>}
    <3> HIDE DEF TypeOK
    <3> QED BY <2>3, Zenon DEF EndReading, Return
  <2>5. /\ Mark(Reader)
        /\ UNCHANGED <<slot, tableVars, writer, cancels, shut, toPlugin, serverVars, doomed>>
    BY <2>3, Zenon DEF EndReading
  <2>6. toCore' \in Seq(Requests)
    <3>1. toCore \in Seq(Requests) /\ <<>> \in Seq(Requests) OBVIOUS
    <3> HIDE DEF TypeOK
    <3> QED BY <2>4, <3>1
  <2>7. marks' \in [Agents -> {"no", "wake", "kill"}] /\ terminal' \in BOOLEAN
    <3>1. marks \in [Agents -> {"no", "wake", "kill"}] OBVIOUS
    <3> HIDE DEF TypeOK
    <3> QED BY <2>5, <3>1 DEF Mark, Agents
  <2>8. UNCHANGED <<call, slot, pending, retired, writer, cancels, shut, toPlugin, server,
                    active, task, botched, doomed>>
    <3> HIDE DEF TypeOK
    <3> QED BY <2>4, <2>5 DEF tableVars, serverVars
  <2> QED BY <2>2, <2>6, <2>7, <2>8 DEF Readings
<1> QED BY <1>1, <1>2, <1>3, <1>4 DEF ReaderStep

\* The server loop keeps the types.
LEMMA ServerType == ASSUME TypeOK, ServerStep PROVE TypeOK'
<1> USE ProtocolConstants DEF TypeOK, clientVars, callVars, tableVars
<1>1. CASE StdinEof \/ Wedge
  BY <1>1 DEF StdinEof, Wedge
<1>2. CASE ReadRequest \/ ReadCancel \/ ReadShutdown
  <2>0. toPlugin # <<>> /\ toPlugin' = Tail(toPlugin)
    BY <1>2 DEF ReadRequest, ReadCancel, ReadShutdown, Take
  <2>a. toPlugin \in Seq([kind : Kinds, id : Requests]) OBVIOUS
  <2>b. /\ Head(toPlugin) \in [kind : Kinds, id : Requests]
        /\ Tail(toPlugin) \in Seq([kind : Kinds, id : Requests])
        /\ Len(Tail(toPlugin)) < Len(toPlugin)
    <3> HIDE DEF TypeOK
    <3> QED BY <2>0, <2>a, TailFacts
  <2>c. Head(toPlugin).id \in Requests
    <3> HIDE DEF TypeOK
    <3> QED BY <2>b
  <2>1. /\ Head(toPlugin).id \in Requests
        /\ toPlugin' \in Seq([kind : Kinds, id : Requests]) /\ Len(toPlugin') <= Room
    <3>1. Len(toPlugin) \in Nat /\ Len(Tail(toPlugin)) \in Nat /\ Len(toPlugin) <= Room
      BY <2>a, <2>b
    <3> HIDE DEF TypeOK
    <3> QED BY <2>0, <2>b, <2>c, <3>1
  <2>2. CASE ReadRequest
    BY <2>1, <2>2 DEF ReadRequest, Serve, Working
  <2>3. CASE ReadCancel
    BY <2>1, <2>3 DEF ReadCancel, Working
  <2>4. CASE ReadShutdown
    <3>1. Shutdown \in Requests BY DEF Requests
    <3>2. toCore' \in Seq(Requests) BY <2>4, <3>1, AppendFacts DEF ReadShutdown
    <3> QED BY <2>1, <2>4, <3>2 DEF ReadShutdown
  <2> QED BY <1>2, <2>2, <2>3, <2>4
<1> QED BY <1>1, <1>2 DEF ServerStep

\* The request tasks keep the types.
LEMMA TaskType == ASSUME TypeOK, NEW c \in Calls, TaskStep(c) PROVE TypeOK'
<1> USE ProtocolConstants DEF TypeOK, clientVars, callVars, tableVars
<1>0. c \in Requests BY DEF Requests
<1>1. CASE Finish(c)
  <2>1. toCore' \in Seq(Requests) BY <1>0, <1>1, AppendFacts DEF Finish
  <2> QED BY <1>0, <1>1, <2>1 DEF Finish
<1>2. CASE FinishUnwritten(c) \/ Deregister(c) \/ Stopped(c)
  BY <1>0, <1>2, ZenonT(60) DEF FinishUnwritten, Deregister, Stopped
<1> QED BY <1>1, <1>2 DEF TaskStep

\* The end of the process and PluginClient::shutdown keep the types.
LEMMA EndType == ASSUME TypeOK, Vanish \/ Closing \/ UNCHANGED vars PROVE TypeOK'
<1> USE ProtocolConstants DEF TypeOK, clientVars, callVars, tableVars, serverVars
<1>1. CASE Vanish
  <2>1. toPlugin' \in Seq([kind : Kinds, id : Requests]) /\ Len(toPlugin') <= Room
    BY <1>1 DEF Vanish
  <2>2. task' \in [Requests -> Working \union {"none", "answered", "done", "stopped"}]
    BY <1>1 DEF Vanish
  <2> QED BY <1>1, <2>1, <2>2 DEF Vanish
<1>2. CASE Closing
  BY <1>2 DEF Closing, CloseWriter, GraceOver, Reap
<1>3. CASE UNCHANGED vars
  BY <1>3 DEF vars
<1> QED BY <1>1, <1>2, <1>3

\* Every step keeps the types.
LEMMA TypeStep == TypeOK /\ [Next]_vars => TypeOK'
BY Steps, CallerType, MarkType, ReaderType, ServerType, TaskType, EndType
-----------------------------------------------------------------------------
(* The invariant *)

\* Where a request can be: on the plugin's stdin; on its way back; answered.
Asked(r) == Has(toPlugin, Message("request", r))
Answering(r) == reader.id = r \/ Has(toCore, r)
Worked(r) == IF r = Shutdown THEN server \in {"draining", "gone"}
                             ELSE task[r] \in {"answered", "done"}

\* A request in these places has not been written.
Unasked == {"new", "checked", "listed"}

\* A request is written once at most, and nothing is done for it before it is read.
AskedOnce ==
    \A r \in Requests :
        /\ Once(toPlugin, Message("request", r))
        /\ call[r] \in Unasked => ~Asked(r) /\ slot[r] # "response"
        /\ call[r] \in Unasked \/ Asked(r) => task[r] = "none" /\ ~Answering(r)

\* It is answered once at most, and an answer is for work that is done.
AnsweredOnce ==
    \A r \in Requests :
        /\ Once(toCore, r) /\ (reader.id = r => ~Has(toCore, r))
        /\ Answering(r) \/ slot[r] = "response" \/ call[r] = "ok" => Worked(r)

\* A live client still knows every id that may yet be answered.
Known ==
    ~terminal =>
        \A r \in Requests :
            /\ call[r] = "listed" => r \in pending
            /\ Asked(r) \/ task[r] \in Working \/ Has(toCore, r) =>
                  r \in pending \/ r \in retired \/ call[r] = "retiring"

\* What the ends of the session have in common: the marking of the client, its
\* shutdown, and the plugin's process.
Ends ==
    /\ task[Shutdown] = "none"
    /\ reader.at \in {"holding", "missed"} => reader.id \in Requests
    /\ \A a \in Agents : marks[a] # "no" => terminal
    /\ \A r \in Requests : marks[r] # "no" => call[r] = "failing"
    /\ shut # "no" => call[Shutdown] \in Settled
    /\ shut = "done" => server = "gone"
    /\ server = "gone" => \A r \in Requests : task[r] \notin Working \union {"answered"}

Safe == AskedOnce /\ AnsweredOnce /\ Known /\ Ends /\ OnlyRetiringIsUnknown /\ ActiveIsServed

Mails == [kind : Kinds, id : Requests]

\* A message is of one request, and a cancellation is no request.
LEMMA Messages ==
    \A r, q : /\ Message("request", r) = Message("request", q) <=> r = q
              /\ Message("cancel", r) # Message("request", q)
BY DEF Message

\* A step of a caller that leaves both pipes alone.
Quiet(r) ==
    Check(r) \/ List(r) \/ WriteFails(r) \/ Receive(r) \/ TimeOut(r) \/ Retire(r) \/ Drop(r)
      \/ LoseCancel(r)

\* These steps keep the invariant.
LEMMA QuietSafe == ASSUME TypeOK, Safe, NEW r \in Requests, Quiet(r) PROVE Safe'
<1> USE ProtocolConstants DEF Safe, Quiet, Goto, Settled, Unasked
<1>t. /\ call \in [Requests -> Settled \union
                     {"new", "checked", "listed", "waiting", "retiring", "failing"}]
      /\ slot \in [Requests -> {"empty", "response", "terminal"}]
      /\ marks \in [Agents -> {"no", "wake", "kill"}]
      /\ terminal \in BOOLEAN /\ Shutdown \in Requests /\ Requests \subseteq Agents
  BY DEF TypeOK, Requests, Agents
<1>u. UNCHANGED <<toPlugin, toCore, reader, server, active, task, shut>>
  BY DEF Check, List, WriteFails, Receive, TimeOut, Retire, Drop, LoseCancel, Mark, serverVars,
     callVars
<1>1. AskedOnce'
  BY <1>t, <1>u DEF AskedOnce, Asked, Answering, Check, List, WriteFails, Receive, TimeOut,
     Retire, Drop, LoseCancel, callVars
<1>2. AnsweredOnce'
  BY <1>t, <1>u DEF AnsweredOnce, Answering, Worked, Check, List, WriteFails, Receive, TimeOut,
     Retire, Drop, LoseCancel, callVars
<1>3. Known'
  BY <1>t, <1>u DEF Known, AskedOnce, Asked, Check, List, WriteFails, Receive, TimeOut,
     Retire, Drop, LoseCancel, callVars, tableVars, Mark
<1>4. Ends'
  BY <1>t, <1>u DEF Ends, Check, List, WriteFails, Receive, TimeOut, Retire, Drop, LoseCancel,
     callVars, Mark
<1>5. OnlyRetiringIsUnknown'
  BY <1>t, <1>u DEF OnlyRetiringIsUnknown, Ends, Check, List, WriteFails, Receive, TimeOut,
     Retire, Drop, LoseCancel, callVars, tableVars, Mark
<1>6. ActiveIsServed'
  BY <1>u DEF ActiveIsServed
<1> QED BY <1>1, <1>2, <1>3, <1>4, <1>5, <1>6

\* Writing a request or a cancellation keeps it: a request is written from
\* "listed", and once.
LEMMA WriteSafe ==
    ASSUME TypeOK, Safe, NEW r \in Requests, Write(r) \/ SendCancel(r) PROVE Safe'
<1> USE ProtocolConstants DEF Safe, Goto, Settled, Unasked
<1>t. /\ call \in [Requests -> Settled \union
                     {"new", "checked", "listed", "waiting", "retiring", "failing"}]
      /\ Shutdown \in Requests
  BY DEF TypeOK, Requests
<1>u. UNCHANGED <<slot, pending, retired, terminal, reader, marks, shut, toCore, server, active,
                  task>>
  BY DEF Write, SendCancel, callVars, tableVars, serverVars
<1>q. \A q \in Requests :
        /\ Has(toPlugin', Message("request", q)) <=>
              Has(toPlugin, Message("request", q)) \/ (Write(r) /\ q = r)
        /\ Once(toPlugin, Message("request", q)) /\ ~(Write(r) /\ q = r /\ Asked(r)) =>
              Once(toPlugin', Message("request", q))
  <2>1. toPlugin \in Seq(Mails) BY DEF TypeOK, Mails
  <2>2. \A kind \in Kinds : Message(kind, r) \in Mails BY DEF Message, Mails
  <2>3. "request" \in Kinds /\ "cancel" \in Kinds BY DEF Kinds
  <2>4. CASE Write(r)
    <3>1. toPlugin' = Append(toPlugin, Message("request", r)) BY <2>4 DEF Write
    <3>2. Message("request", r) \in Mails BY <2>2, <2>3
    <3>3. ASSUME NEW x
          PROVE  /\ Has(Append(toPlugin, Message("request", r)), x) <=>
                      Has(toPlugin, x) \/ x = Message("request", r)
                 /\ Once(toPlugin, x) /\ (x = Message("request", r) => ~Has(toPlugin, x)) =>
                      Once(Append(toPlugin, Message("request", r)), x)
      BY <2>1, <3>2, AppendFacts
    <3> QED BY <2>4, <3>1, <3>3, Messages DEF Asked
  <2>5. CASE SendCancel(r) /\ ~Write(r)
    <3>1. toPlugin' = Append(toPlugin, Message("cancel", r)) BY <2>5 DEF SendCancel
    <3>2. Message("cancel", r) \in Mails BY <2>2, <2>3
    <3>3. ASSUME NEW x
          PROVE  /\ Has(Append(toPlugin, Message("cancel", r)), x) <=>
                      Has(toPlugin, x) \/ x = Message("cancel", r)
                 /\ Once(toPlugin, x) /\ (x = Message("cancel", r) => ~Has(toPlugin, x)) =>
                      Once(Append(toPlugin, Message("cancel", r)), x)
      BY <2>1, <3>2, AppendFacts
    <3> QED BY <2>5, <3>1, <3>3, Messages
  <2> QED BY <2>4, <2>5
<1>c. \/ Write(r) /\ call[r] = "listed" /\ call' = [call EXCEPT ![r] = "waiting"]
      \/ ~Write(r) /\ call' = call
  BY DEF Write, SendCancel, callVars
<1> HIDE DEF Goto
<1>1. AskedOnce'
  BY <1>t, <1>u, <1>q, <1>c DEF AskedOnce, Asked, Answering
<1>2. AnsweredOnce'
  BY <1>t, <1>u, <1>c DEF AnsweredOnce, Answering, Worked
<1>3. Known'
  BY <1>t, <1>u, <1>q, <1>c DEF Known, Asked
<1>4. Ends'
  BY <1>t, <1>u, <1>c DEF Ends
<1>5. OnlyRetiringIsUnknown'
  BY <1>t, <1>u, <1>c DEF OnlyRetiringIsUnknown, Ends
<1>6. ActiveIsServed'
  BY <1>u DEF ActiveIsServed
<1> QED BY <1>1, <1>2, <1>3, <1>4, <1>5, <1>6

\* mark_terminal keeps it.
LEMMA MarkSafe == ASSUME TypeOK, Safe, NEW a \in Agents, Wake(a) \/ Kill(a) PROVE Safe'
<1> USE ProtocolConstants DEF Safe, Settled, Unasked
<1>t. /\ call \in [Requests -> Settled \union
                     {"new", "checked", "listed", "waiting", "retiring", "failing"}]
      /\ slot \in [Requests -> {"empty", "response", "terminal"}]
      /\ marks \in [Agents -> {"no", "wake", "kill"}]
      /\ terminal \in BOOLEAN /\ Shutdown \in Requests /\ Requests \subseteq Agents
      /\ Reader \notin Requests /\ None \notin Requests
      /\ a \in Requests \/ a = Reader
  BY DEF TypeOK, Requests, Agents
<1>u. terminal /\ UNCHANGED <<terminal, toPlugin, server, active, task, shut>>
  BY <1>t DEF Wake, Kill, Ends, serverVars
<1>1. CASE Wake(a)
  <2>1. UNCHANGED <<call, toCore, reader>> BY <1>1 DEF Wake
  <2>2. /\ slot' \in [Requests -> {"empty", "response", "terminal"}]
        /\ \A r \in Requests : slot'[r] \in {slot[r], "terminal"}
    BY <1>t, <1>1 DEF Wake
  <2>3. \A b \in Agents : marks'[b] # "no" => marks[b] # "no" BY <1>t, <1>1 DEF Wake
  <2>4. AskedOnce' /\ AnsweredOnce'
    BY <1>t, <1>u, <2>1, <2>2 DEF AskedOnce, AnsweredOnce, Asked, Answering, Worked
  <2> QED BY <1>t, <1>u, <2>1, <2>3, <2>4 DEF Known, Ends, OnlyRetiringIsUnknown, ActiveIsServed
<1>2. CASE Kill(a)
  <2>1. /\ UNCHANGED slot
        /\ \A b \in Agents : marks'[b] # "no" => marks[b] # "no" /\ b # a
    BY <1>t, <1>2 DEF Kill
  <2>2. CASE a = Reader
    <3>1. call' = call /\ reader' = [at |-> "gone", id |-> None] /\ toCore' = <<>>
      BY <1>2, <2>2 DEF Kill, Return
    <3>2. /\ reader'.at = "gone" /\ reader'.id = None
          /\ \A r : ~Has(toCore', r) /\ Once(toCore', r)
      BY <3>1, EmptyFacts
    <3>3. AskedOnce' /\ AnsweredOnce'
      BY <1>t, <1>u, <2>1, <3>1, <3>2 DEF AskedOnce, AnsweredOnce, Asked, Answering, Worked
    <3> QED BY <1>t, <1>u, <2>1, <3>1, <3>2, <3>3
            DEF Known, Ends, OnlyRetiringIsUnknown, ActiveIsServed
  <2>3. CASE a # Reader
    <3>1. /\ call' = [call EXCEPT ![a] = "error"] /\ call[a] = "failing"
          /\ reader' = reader /\ toCore' = toCore
      BY <1>t, <1>2, <2>3 DEF Kill, Return, Goto, Ends
    <3>2. AskedOnce' /\ AnsweredOnce'
      BY <1>t, <1>u, <2>1, <2>3, <3>1 DEF AskedOnce, AnsweredOnce, Asked, Answering, Worked
    <3> QED BY <1>t, <1>u, <2>1, <2>3, <3>1, <3>2
            DEF Known, Ends, OnlyRetiringIsUnknown, ActiveIsServed
  <2> QED BY <2>2, <2>3
<1> QED BY <1>1, <1>2

\* The end of the process keeps it, and so does the client's shutdown.
LEMMA EndSafe == ASSUME TypeOK, Safe, Vanish \/ Closing PROVE Safe'
<1> USE ProtocolConstants DEF Safe, Settled, Unasked
<1>t. Shutdown \in Requests BY DEF Requests
<1>u. UNCHANGED <<call, slot, pending, retired, terminal, reader, marks, toCore>>
  BY DEF Vanish, Closing, CloseWriter, GraceOver, Reap, clientVars, callVars, tableVars
<1>1. CASE Vanish
  <2>1. /\ server' = "gone" /\ shut' = shut /\ active' = {}
        /\ toPlugin' = <<>> /\ \A x : ~Has(toPlugin', x) /\ Once(toPlugin', x)
    BY <1>1, EmptyFacts DEF Vanish, clientVars
  <2>2. \A r \in Requests :
          /\ task'[r] \in {"none", "answered", "done", "stopped"}
          /\ task'[r] # "answered"
          /\ task[r] \in {"answered", "done"} <=> task'[r] = "done"
          /\ task[r] = "none" <=> task'[r] = "none"
    <3>1. task \in [Requests -> Working \union {"none", "answered", "done", "stopped"}]
      BY DEF TypeOK
    <3> QED BY <1>1, <3>1 DEF Vanish, Working
  <2>3. AskedOnce' /\ AnsweredOnce'
    BY <1>t, <1>u, <2>1, <2>2 DEF AskedOnce, AnsweredOnce, Asked, Answering, Worked
  <2>4. Known' /\ ActiveIsServed'
    BY <1>u, <2>1, <2>2 DEF Known, Asked, ActiveIsServed, Working
  <2> QED BY <1>t, <1>u, <2>1, <2>2, <2>3, <2>4 DEF Ends, OnlyRetiringIsUnknown, Working
<1>2. CASE Closing
  <2>1. /\ UNCHANGED <<toPlugin, server, active, task>>
        /\ shut' # "no" => call[Shutdown] \in Settled
        /\ shut' = "done" => server = "gone"
    BY <1>2 DEF Closing, CloseWriter, GraceOver, Reap, clientVars, serverVars, Ends
  <2>2. AskedOnce' /\ AnsweredOnce'
    BY <1>u, <2>1 DEF AskedOnce, AnsweredOnce, Asked, Answering, Worked
  <2>3. Known' /\ ActiveIsServed' /\ OnlyRetiringIsUnknown'
    BY <1>u, <2>1 DEF Known, Asked, ActiveIsServed, OnlyRetiringIsUnknown
  <2> QED BY <1>u, <2>1, <2>2, <2>3 DEF Ends
<1> QED BY <1>1, <1>2

\* The reader task keeps it: the id it takes was known, or is on its way to
\* the retired table.
LEMMA ReaderSafe == ASSUME TypeOK, Safe, ReaderStep PROVE Safe'
<1> USE ProtocolConstants DEF Safe, Settled, Unasked
<1>t. /\ slot \in [Requests -> {"empty", "response", "terminal"}]
      /\ marks \in [Agents -> {"no", "wake", "kill"}]
      /\ terminal \in BOOLEAN /\ Shutdown \in Requests /\ Requests \subseteq Agents
      /\ Reader \notin Requests /\ None \notin Requests /\ reader \in Readings
  BY DEF TypeOK, Requests, Agents, Readings
<1>u. UNCHANGED <<call, toPlugin, server, active, task, shut>>
  <2>1. EndReading => UNCHANGED call
    BY Zenon DEF EndReading, Return
  <2> QED BY <2>1 DEF ReaderStep, ReadPending, ReadUnlisted, Read, Hand, IgnoreRetired, Unknown,
             Eof, Junk, EndReading, callVars, serverVars
<1>1. CASE ReadPending \/ ReadUnlisted
  <2> DEFINE h == Head(toCore)
  <2>1. /\ reader' = [at |-> IF ReadPending THEN "holding" ELSE "missed", id |-> h]
        /\ h \in pending <=> ReadPending
        /\ toCore' = Tail(toCore) /\ toCore # <<>> /\ pending' = pending \ {h}
        /\ UNCHANGED <<slot, retired, terminal, marks>>
    BY <1>1, Zenon DEF ReadPending, ReadUnlisted, Read, callVars
  <2>2. toCore \in Seq(Requests) BY DEF TypeOK
  <2>3. /\ h \in Requests /\ Has(toCore, h)
        /\ \A x : /\ Has(toCore, x) <=> x = h \/ Has(toCore', x)
                  /\ Once(toCore, x) => Once(toCore', x)
        /\ Once(toCore, h) => ~Has(toCore', h)
    BY <2>1, <2>2, TailFacts
  <2>4. reader'.id = h /\ reader'.at = (IF ReadPending THEN "holding" ELSE "missed")
    BY <2>1
  <2> HIDE DEF h
  <2>5. AskedOnce' /\ AnsweredOnce'
    BY <1>t, <1>u, <2>1, <2>3, <2>4 DEF AskedOnce, AnsweredOnce, Asked, Answering, Worked
  <2>6. Known'
    BY <1>u, <2>1, <2>3, <2>5 DEF Known, AskedOnce, AnsweredOnce, Asked, Answering, Worked, Ends,
       Working
  <2>7. OnlyRetiringIsUnknown'
    BY <1>u, <2>1, <2>3, <2>4 DEF OnlyRetiringIsUnknown, Known
  <2> QED BY <1>t, <1>u, <2>1, <2>3, <2>4, <2>5, <2>6, <2>7 DEF Ends, ActiveIsServed
<1>2. CASE Hand \/ IgnoreRetired
  <2>1. /\ reader' = [at |-> "reading", id |-> None] /\ reader.id \in Requests
        /\ UNCHANGED <<pending, toCore, terminal, marks>>
    BY <1>2 DEF Hand, IgnoreRetired, Ends, tableVars
  <2>2. reader'.at = "reading" /\ reader'.id = None BY <2>1
  <2>3. \A r \in Requests : slot'[r] = slot[r] \/ (r = reader.id /\ call[r] \in {"listed", "waiting"})
    BY <1>t, <1>2, <2>1 DEF Hand, IgnoreRetired, Listening, callVars
  <2>4. retired' \in {retired, retired \ {reader.id}}
    BY <1>2 DEF Hand, IgnoreRetired, tableVars
  <2>5. AskedOnce' /\ AnsweredOnce'
    BY <1>t, <1>u, <2>1, <2>2, <2>3 DEF AskedOnce, AnsweredOnce, Asked, Answering, Worked
  <2>6. Known'
    BY <1>t, <1>u, <2>1, <2>4 DEF Known, AskedOnce, AnsweredOnce, Asked, Answering, Worked, Ends,
       Working
  <2> QED BY <1>t, <1>u, <2>1, <2>2, <2>5, <2>6 DEF Ends, ActiveIsServed, OnlyRetiringIsUnknown
<1>3. CASE Unknown \/ Eof \/ Junk
  <2>1. EndReading BY <1>3 DEF Unknown, Eof, Junk
  <2>2. /\ terminal' /\ UNCHANGED <<slot, pending, retired>>
        /\ \A r \in Requests : marks'[r] = marks[r]
    BY <1>t, <2>1 DEF EndReading, Mark, tableVars
  <2>3. /\ reader'.id \in {reader.id, None} /\ reader'.at \in {"failing", "gone"}
        /\ toCore' = toCore \/ toCore' = <<>>
    <3>1. \/ reader' = [reader EXCEPT !.at = "failing"] /\ toCore' = toCore
          \/ reader' = [at |-> "gone", id |-> None] /\ toCore' = <<>>
      BY <2>1, Zenon DEF EndReading, Return
    <3>2. /\ [reader EXCEPT !.at = "failing"].id = reader.id
          /\ [reader EXCEPT !.at = "failing"].at = "failing"
      BY <1>t DEF Readings
    <3>3. [at |-> "gone", id |-> None].id = None /\ [at |-> "gone", id |-> None].at = "gone"
      OBVIOUS
    <3>4. CASE reader' = [reader EXCEPT !.at = "failing"] /\ toCore' = toCore
      <4>1. reader'.id = reader.id /\ reader'.at = "failing" BY <3>2, <3>4, Zenon
      <4> QED BY <3>4, <4>1
    <3>5. CASE reader' = [at |-> "gone", id |-> None] /\ toCore' = <<>>
      BY <3>3, <3>5
    <3> QED BY <3>1, <3>4, <3>5
  <2>4. \A r : (Has(toCore', r) => Has(toCore, r)) /\ (Once(toCore, r) => Once(toCore', r))
    BY <2>3, EmptyFacts
  <2>5. AskedOnce' /\ AnsweredOnce'
    BY <1>t, <1>u, <2>2, <2>3, <2>4 DEF AskedOnce, AnsweredOnce, Asked, Answering, Worked
  <2> QED BY <1>t, <1>u, <2>2, <2>3, <2>5
          DEF Known, Ends, ActiveIsServed, OnlyRetiringIsUnknown, Agents
<1> QED BY <1>1, <1>2, <1>3 DEF ReaderStep

\* The server loop keeps it: a request it reads has no task yet.
LEMMA ServerSafe == ASSUME TypeOK, Safe, ServerStep PROVE Safe'
<1> USE ProtocolConstants DEF Safe, Settled, Unasked
<1>t. /\ task \in [Requests -> Working \union {"none", "answered", "done", "stopped"}]
      /\ Shutdown \in Requests /\ Shutdown \notin Calls /\ Calls \subseteq Requests
  BY DEF TypeOK, Requests
<1>u. /\ server = "serving"
      /\ UNCHANGED <<call, slot, pending, retired, terminal, reader, marks, shut>>
  BY DEF ServerStep, ReadRequest, ReadCancel, ReadShutdown, StdinEof, Wedge, Take, clientVars,
     callVars, tableVars
<1>1. CASE StdinEof \/ Wedge
  <2>1. /\ UNCHANGED <<toPlugin, toCore, active, task>>
        /\ server' = "draining" \/ server' = "wedged"
    BY <1>1 DEF StdinEof, Wedge
  <2>2. AskedOnce' /\ AnsweredOnce'
    BY <1>u, <2>1 DEF AskedOnce, AnsweredOnce, Asked, Answering, Worked
  <2> QED BY <1>u, <2>1, <2>2 DEF Known, Asked, Ends, ActiveIsServed, OnlyRetiringIsUnknown
<1>2. CASE ReadRequest \/ ReadCancel \/ ReadShutdown
  <2> DEFINE h == Head(toPlugin)
  <2>0. toPlugin # <<>> /\ toPlugin' = Tail(toPlugin) /\ server = "serving"
    BY <1>2 DEF ReadRequest, ReadCancel, ReadShutdown, Take
  <2>1. toPlugin \in Seq(Mails) BY DEF TypeOK, Mails
  <2>2. /\ h \in Mails /\ Has(toPlugin, h)
        /\ \A x : /\ Has(toPlugin, x) <=> x = h \/ Has(toPlugin', x)
                  /\ Once(toPlugin, x) => Once(toPlugin', x)
        /\ Once(toPlugin, h) => ~Has(toPlugin', h)
    BY <2>0, <2>1, TailFacts
  <2>3. h = Message(h.kind, h.id) /\ h.id \in Requests BY <2>2 DEF Mails, Message
  <2>4. \A q \in Requests :
          /\ Once(toPlugin, Message("request", q)) => Once(toPlugin', Message("request", q))
          /\ Has(toPlugin', Message("request", q)) => Asked(q)
          /\ h.kind = "request" /\ q = h.id =>
                Asked(q) /\ (Once(toPlugin, Message("request", q)) =>
                               ~Has(toPlugin', Message("request", q)))
    BY <2>2, <2>3 DEF Asked
  <2>5. CASE ReadRequest
    <3>1. /\ h.kind = "request" /\ h.id \in Calls
          /\ active' = active \union {h.id} /\ task' = [task EXCEPT ![h.id] = "running"]
          /\ UNCHANGED <<toCore, server>>
      BY <2>5 DEF ReadRequest, Take, Serve
    <3> HIDE DEF h
    <3>2. task[h.id] = "none" /\ ~Answering(h.id) /\ call[h.id] \notin Unasked
      BY <2>3, <2>4, <3>1 DEF AskedOnce
    <3>3. AskedOnce' /\ AnsweredOnce'
      BY <1>t, <1>u, <2>3, <2>4, <3>1, <3>2 DEF AskedOnce, AnsweredOnce, Asked, Answering, Worked
    <3>4. Known' /\ ActiveIsServed'
      BY <1>t, <1>u, <2>3, <2>4, <3>1, <3>2 DEF Known, Asked, ActiveIsServed
    <3> QED BY <1>t, <1>u, <2>3, <3>1, <3>3, <3>4 DEF Ends, OnlyRetiringIsUnknown
  <2>6. CASE ReadCancel
    <3>1. /\ active' = active \ {h.id} /\ UNCHANGED <<toCore, server>>
          /\ task' = IF h.id \in active /\ task[h.id] = "running"
                     THEN [task EXCEPT ![h.id] = "aborting"] ELSE task
      BY <2>6 DEF ReadCancel
    <3> HIDE DEF h
    <3>2. \A r \in Requests :
            /\ task'[r] = task[r] \/ (task[r] = "running" /\ task'[r] = "aborting" /\ r = h.id)
            /\ task'[r] = "running" => r \in active'
      BY <1>t, <2>3, <3>1 DEF ActiveIsServed
    <3>3. AskedOnce' /\ AnsweredOnce'
      BY <1>t, <1>u, <2>4, <3>1, <3>2 DEF AskedOnce, AnsweredOnce, Asked, Answering, Worked
    <3>4. Known'
      BY <1>t, <1>u, <2>4, <3>1, <3>2 DEF Known, Asked, Working
    <3>5. ActiveIsServed'
      <4>1. active \subseteq Requests BY DEF TypeOK
      <4> QED BY <1>t, <3>1, <3>2, <4>1 DEF ActiveIsServed
    <3> QED BY <1>t, <1>u, <3>1, <3>2, <3>3, <3>4, <3>5 DEF Ends, OnlyRetiringIsUnknown
  <2>7. CASE ReadShutdown
    <3>1. /\ h.kind = "request" /\ h.id = Shutdown
          /\ toCore' = Append(toCore, Shutdown) /\ server' = "draining"
          /\ UNCHANGED <<active, task>>
      BY <2>7 DEF ReadShutdown, Take
    <3> HIDE DEF h
    <3>2. ~Answering(Shutdown) /\ call[Shutdown] \notin Unasked
      BY <1>t, <2>4, <3>1 DEF AskedOnce
    <3>3. toCore \in Seq(Requests) BY DEF TypeOK
    <3>4. \A x : /\ Has(toCore', x) <=> Has(toCore, x) \/ x = Shutdown
                 /\ Once(toCore, x) /\ (x = Shutdown => ~Has(toCore, x)) => Once(toCore', x)
      BY <1>t, <3>1, <3>3, AppendFacts
    <3>5. AskedOnce' /\ AnsweredOnce'
      BY <1>t, <1>u, <2>4, <3>1, <3>2, <3>4
         DEF AskedOnce, AnsweredOnce, Asked, Answering, Worked
    <3>6. Known'
      BY <1>t, <1>u, <2>4, <3>1, <3>4 DEF Known, Asked
    <3> QED BY <1>t, <1>u, <3>1, <3>5, <3>6 DEF Ends, ActiveIsServed, OnlyRetiringIsUnknown
  <2> QED BY <1>2, <2>5, <2>6, <2>7
<1> QED BY <1>1, <1>2 DEF ServerStep

\* The request tasks keep it: a task answers once, and not after it was stopped.
LEMMA TaskSafe == ASSUME TypeOK, Safe, NEW c \in Calls, TaskStep(c) PROVE Safe'
<1> USE ProtocolConstants DEF Safe, Settled, Unasked
<1>t. /\ task \in [Requests -> Working \union {"none", "answered", "done", "stopped"}]
      /\ Shutdown \in Requests /\ Shutdown \notin Calls /\ c \in Requests /\ c # Shutdown
      /\ active \subseteq Requests
  BY DEF TypeOK, Requests
<1>u. UNCHANGED <<call, slot, pending, retired, terminal, reader, marks, shut, toPlugin, server>>
  BY DEF TaskStep, Finish, FinishUnwritten, Deregister, Stopped, clientVars, callVars, tableVars
<1>1. CASE Finish(c)
  <2>1. /\ task[c] \in Working /\ toCore' = Append(toCore, c) /\ active' = active
        /\ task' = [task EXCEPT ![c] = "answered"]
    BY <1>1 DEF Finish
  <2>2. ~Answering(c) /\ call[c] \notin Unasked /\ ~Asked(c) /\ server # "gone"
    BY <1>t, <2>1 DEF AskedOnce, AnsweredOnce, Worked, Working, Ends
  <2>3. toCore \in Seq(Requests) BY DEF TypeOK
  <2>4. \A x : /\ Has(toCore', x) <=> Has(toCore, x) \/ x = c
               /\ Once(toCore, x) /\ (x = c => ~Has(toCore, x)) => Once(toCore', x)
    BY <1>t, <2>1, <2>3, AppendFacts
  <2>5. AskedOnce' /\ AnsweredOnce'
    BY <1>t, <1>u, <2>1, <2>2, <2>4 DEF AskedOnce, AnsweredOnce, Asked, Answering, Worked
  <2>6. Known'
    BY <1>t, <1>u, <2>1, <2>4 DEF Known, Asked, Working
  <2>7. ActiveIsServed'
    BY <1>t, <2>1 DEF ActiveIsServed, Working
  <2> QED BY <1>t, <1>u, <2>1, <2>2, <2>5, <2>6, <2>7 DEF Ends, OnlyRetiringIsUnknown
<1>2. CASE FinishUnwritten(c) \/ Deregister(c) \/ Stopped(c)
  <2>1. /\ toCore' = toCore
        /\ \/ task[c] \in Working /\ task' = [task EXCEPT ![c] = "done"] /\ active' = active \ {c}
           \/ task[c] = "answered" /\ task' = [task EXCEPT ![c] = "done"] /\ active' = active \ {c}
           \/ task[c] = "aborting" /\ task' = [task EXCEPT ![c] = "stopped"] /\ active' = active
    BY <1>2 DEF FinishUnwritten, Deregister, Stopped, Working
  <2>2. AskedOnce'
    BY <1>t, <1>u, <2>1 DEF AskedOnce, Asked, Answering, Working
  <2>3. AnsweredOnce'
    BY <1>t, <1>u, <2>1 DEF AnsweredOnce, Answering, Worked, Working
  <2>4. Known'
    BY <1>t, <1>u, <2>1 DEF Known, Asked, Working
  <2>5. ActiveIsServed'
    BY <1>t, <2>1 DEF ActiveIsServed, Working
  <2> QED BY <1>t, <1>u, <2>1, <2>2, <2>3, <2>4, <2>5 DEF Ends, OnlyRetiringIsUnknown, Working
<1> QED BY <1>1, <1>2 DEF TaskStep

IInv == TypeOK /\ Safe

\* The invariant holds at the start.
LEMMA InitIInv == Init => IInv
<1> SUFFICES ASSUME Init PROVE IInv OBVIOUS
<1> USE ProtocolConstants DEF Init
<1>1. TypeOK
  <2>1. /\ toPlugin \in Seq([kind : Kinds, id : Requests]) /\ Len(toPlugin) <= Room
        /\ toCore \in Seq(Requests)
    OBVIOUS
  <2> QED BY <2>1 DEF TypeOK, Requests
<1>2. Shutdown \in Requests /\ Requests \subseteq Agents /\ None \notin Requests
  BY DEF Requests, Agents
<1>3. \A x : ~Has(toPlugin, x) /\ Once(toPlugin, x) /\ ~Has(toCore, x) /\ Once(toCore, x)
  BY EmptyFacts
<1>4. AskedOnce /\ AnsweredOnce /\ Known /\ Ends
  BY <1>2, <1>3 DEF AskedOnce, AnsweredOnce, Asked, Answering, Worked, Known, Ends, Working, Unasked
<1>5. OnlyRetiringIsUnknown /\ ActiveIsServed
  BY DEF OnlyRetiringIsUnknown, ActiveIsServed
<1> QED BY <1>1, <1>4, <1>5 DEF IInv, Safe

\* Every step keeps the invariant.
LEMMA NextIInv == IInv /\ [Next]_vars => IInv'
<1> SUFFICES ASSUME IInv, [Next]_vars PROVE IInv' OBVIOUS
<1>1. TypeOK /\ Safe /\ TypeOK' BY TypeStep DEF IInv
<1>2. ASSUME NEW r \in Requests, CallerStep(r) PROVE Safe'
  BY <1>1, <1>2, QuietSafe, WriteSafe DEF CallerStep, Quiet
<1>3. ASSUME UNCHANGED vars PROVE Safe'
  BY <1>1, <1>3 DEF vars, clientVars, callVars, tableVars, serverVars, Safe, AskedOnce, AnsweredOnce,
     Known, Ends, OnlyRetiringIsUnknown, ActiveIsServed, Asked, Answering, Worked
<1> QED BY <1>1, <1>2, <1>3, Steps, MarkSafe, ReaderSafe, ServerSafe, TaskSafe, EndSafe DEF IInv

\* The invariant holds throughout.
LEMMA Invariance == Spec => []IInv
BY InitIInv, NextIInv, PTL DEF Spec

\* The state of a session has its types: the tables hold ids of requests, the
\* pipe to the plugin never holds more than it has room for.
THEOREM TypeCorrect == Spec => []TypeOK
<1>1. IInv => TypeOK BY DEF IInv
<1> QED BY <1>1, Invariance, PTL

\* process_incoming ends the session over an answer that it finds in neither
\* table; in a live session that answer is one whose caller has just timed out,
\* between its two locks (or it is in the retired table and is ignored).  No
\* other order of writes, timeouts, cancellations and answers can do it.
THEOREM UnknownAnswersAreLate == Spec => []OnlyRetiringIsUnknown
<1>1. IInv => OnlyRetiringIsUnknown BY DEF IInv, Safe
<1> QED BY <1>1, Invariance, PTL

\* serve's table of active requests is true: a running handler is in it, so that
\* $/cancelRequest reaches it, and nothing else but one about to leave.
THEOREM TableIsTrue == Spec => []ActiveIsServed
<1>1. IInv => ActiveIsServed BY DEF IInv, Safe
<1> QED BY <1>1, Invariance, PTL

-----------------------------------------------------------------------------
(* The session keeps the contract of PluginCall *)

Seen == [c \in Calls |-> SeenAs(call[c])]
Done == [c \in Calls |-> DoneAs(task[c])]

Places == Settled \union {"new", "checked", "listed", "waiting", "retiring", "failing"}

\* The values of the two halves of the refinement mapping.
LEMMA SeenFacts ==
    /\ SeenAs("new") = "idle" /\ SeenAs("ok") = "answered"
    /\ \A p \in {"timeout", "error", "dropped"} : SeenAs(p) = "failed"
    /\ \A p \in {"checked", "listed", "waiting", "retiring", "failing"} : SeenAs(p) = "open"
BY DEF SeenAs, Settled

\* The same for the plugin's half.
LEMMA DoneFacts ==
    /\ DoneAs("none") = "none" /\ DoneAs("stopped") = "stopped"
    /\ DoneAs("running") = "working" /\ DoneAs("aborting") = "working"
    /\ DoneAs("answered") = "done" /\ DoneAs("done") = "done"
BY DEF DoneAs, Working

\* A caller that moves is seen to move alone, or not at all.
LEMMA SeenMoves ==
    ASSUME TypeOK, NEW r \in Requests, NEW p, call' = [call EXCEPT ![r] = p]
    PROVE  /\ r \in Calls => Seen' = [Seen EXCEPT ![r] = SeenAs(p)] /\ Seen[r] = SeenAs(call[r])
           /\ r \notin Calls \/ SeenAs(p) = SeenAs(call[r]) => Seen' = Seen
<1>1. call \in [Requests -> Places] /\ Calls \subseteq Requests BY DEF TypeOK, Places, Requests
<1>2. \A c \in Calls : call'[c] = IF c = r THEN p ELSE call[c] BY <1>1
<1>3. Seen' = [c \in Calls |-> SeenAs(call'[c])] BY DEF Seen
<1> QED BY <1>1, <1>2, <1>3 DEF Seen

\* The same for a task.
LEMMA DoneMoves ==
    ASSUME TypeOK, NEW r \in Requests, NEW p, task' = [task EXCEPT ![r] = p]
    PROVE  /\ r \in Calls => Done' = [Done EXCEPT ![r] = DoneAs(p)] /\ Done[r] = DoneAs(task[r])
           /\ DoneAs(p) = DoneAs(task[r]) => Done' = Done
<1>1. task \in [Requests -> Working \union {"none", "answered", "done", "stopped"}]
      /\ Calls \subseteq Requests
  BY DEF TypeOK, Requests
<1>2. \A c \in Calls : task'[c] = IF c = r THEN p ELSE task[c] BY <1>1
<1>3. Done' = [c \in Calls |-> DoneAs(task'[c])] BY DEF Done
<1> QED BY <1>1, <1>2, <1>3 DEF Done

\* A step that changes one call in one way.
LEMMA CallSteps ==
    ASSUME NEW c \in Calls, Done' = Done, shut' = shut
    PROVE  /\ Seen[c] = "idle" /\ shut # "done" /\ Seen' = [Seen EXCEPT ![c] = "open"] =>
                Contract!Next
           /\ Seen[c] = "open" /\ Done[c] = "done" /\ Seen' = [Seen EXCEPT ![c] = "answered"] =>
                Contract!Next
           /\ Seen[c] \in {"idle", "open"} /\ Seen' = [Seen EXCEPT ![c] = "failed"] =>
                Contract!Next
BY DEF Contract!Next, Contract!Open, Contract!Answer, Contract!Fail, Seen, Done

\* A step that changes the work on one call in one way.
LEMMA WorkSteps ==
    ASSUME NEW c \in Calls, Seen' = Seen, shut' = shut
    PROVE  /\ Seen[c] \in {"open", "failed"} /\ Done[c] = "none" /\ shut # "done"
                /\ Done' = [Done EXCEPT ![c] = "working"] => Contract!Next
           /\ Done[c] = "working" /\ Done' = [Done EXCEPT ![c] = "done"] => Contract!Next
BY DEF Contract!Next, Contract!Begin, Contract!Complete, Seen, Done

\* A step that stops the work on some calls at once.
LEMMA StopStep ==
    ASSUME NEW S \in SUBSET Calls, Seen' = Seen, shut' = shut, \A c \in S : Done[c] = "working",
           Done' = [c \in Calls |-> IF c \in S THEN "stopped" ELSE Done[c]]
    PROVE  Contract!Next
BY DEF Contract!Next, Contract!Stop, Seen, Done

\* A step that the contract does not see.
LEMMA Stutter ==
    ASSUME Seen' = Seen, Done' = Done, shut' = shut PROVE UNCHANGED Contract!vars
BY DEF Contract!vars, Seen, Done

Contracted == Contract!Next \/ UNCHANGED Contract!vars

\* A caller opens its call, gets its answer or fails; the rest is not seen.
LEMMA CallerContract == ASSUME IInv, NEW r \in Requests, CallerStep(r) PROVE Contracted
<1> USE ProtocolConstants
<1>t. /\ TypeOK /\ Safe /\ call[r] \in Places
      /\ slot[r] \in {"empty", "response", "terminal"} /\ terminal \in BOOLEAN
  BY DEF IInv, TypeOK, Places
<1>u. UNCHANGED <<task, shut>> /\ Done' = Done
  <2>1. UNCHANGED <<task, shut>>
    BY DEF CallerStep, Check, List, Write, WriteFails, Receive, TimeOut, Retire, Drop, SendCancel,
       LoseCancel, callVars, serverVars, Mark
  <2> QED BY <2>1 DEF Done
<1>1. ASSUME UNCHANGED call PROVE Contracted
  BY <1>1, <1>u, Stutter DEF Contracted, Seen
<1>2. PICK p \in Places : UNCHANGED call \/
        /\ call' = [call EXCEPT ![r] = p]
        /\ \/ call[r] = "new" /\ p = "error"
           \/ call[r] = "new" /\ p = "checked" /\ (r \in Calls => call[Shutdown] = "new")
           \/ call[r] = "waiting" /\ p = "ok" /\ slot[r] = "response"
           \/ call[r] \in {"listed", "waiting", "retiring"} /\ p \in {"error", "timeout", "dropped"}
           \/ call[r] \in {"checked", "listed", "waiting"}
              /\ p \in {"listed", "waiting", "retiring", "failing"}
  <2> USE DEF Places, Settled, Goto
  <2>1. ASSUME Check(r) PROVE UNCHANGED call \/ \E p \in {"error", "checked"} :
            call' = [call EXCEPT ![r] = p] /\ call[r] = "new"
            /\ (p = "checked" /\ r \in Calls => call[Shutdown] = "new")
    BY <2>1, <1>t DEF Check
  <2>2. ASSUME Receive(r) PROVE
            /\ call[r] = "waiting"
            /\ \/ call' = [call EXCEPT ![r] = "ok"] /\ slot[r] = "response"
               \/ call' = [call EXCEPT ![r] = "error"]
    BY <2>2, <1>t DEF Receive
  <2>3. ASSUME List(r) \/ Write(r) \/ TimeOut(r) \/ Retire(r) \/ Drop(r) PROVE
            \/ /\ call[r] \in {"waiting", "retiring"}
               /\ \E p \in {"timeout", "dropped"} : call' = [call EXCEPT ![r] = p]
            \/ /\ call[r] \in {"checked", "listed", "waiting"}
               /\ \E p \in {"listed", "waiting", "retiring"} : call' = [call EXCEPT ![r] = p]
    BY <2>3 DEF List, Write, TimeOut, Retire, Drop
  <2>4. ASSUME WriteFails(r) PROVE
            call[r] = "listed" /\ \E p \in {"error", "failing"} : call' = [call EXCEPT ![r] = p]
    BY <2>4, <1>t DEF WriteFails
  <2>5. ASSUME SendCancel(r) \/ LoseCancel(r) PROVE UNCHANGED call
    BY <2>5 DEF SendCancel, LoseCancel, callVars
  <2> QED BY <2>1, <2>2, <2>3, <2>4, <2>5 DEF CallerStep
<1>3. CASE UNCHANGED call BY <1>1, <1>3
<1>4. CASE call' = [call EXCEPT ![r] = p] /\ ~UNCHANGED call
  <2>1. /\ r \in Calls => Seen' = [Seen EXCEPT ![r] = SeenAs(p)] /\ Seen[r] = SeenAs(call[r])
        /\ r \notin Calls \/ SeenAs(p) = SeenAs(call[r]) => Seen' = Seen
    BY <1>t, <1>4, SeenMoves
  <2>2. CASE r \notin Calls \/ SeenAs(p) = SeenAs(call[r])
    BY <1>u, <2>1, <2>2, Stutter DEF Contracted
  <2>3. CASE r \in Calls /\ SeenAs(p) # SeenAs(call[r])
    <3>1. CASE call[r] = "new" /\ p = "checked"
      <4>1. shut # "done" BY <1>2, <1>4, <1>t, <2>3, <3>1 DEF Safe, Ends, Settled
      <4> QED BY <1>u, <2>1, <2>3, <3>1, <4>1, SeenFacts, CallSteps DEF Contracted
    <3>2. CASE call[r] = "waiting" /\ p = "ok"
      <4>1. Worked(r) /\ r # Shutdown /\ r \in Calls
        BY <1>2, <1>4, <1>t, <2>3, <3>2 DEF Safe, AnsweredOnce
      <4>2. Done[r] = "done" BY <4>1, DoneFacts DEF Done, Worked
      <4> QED BY <1>u, <2>1, <2>3, <3>2, <4>2, SeenFacts, CallSteps DEF Contracted
    <3>3. CASE /\ call[r] \in {"new", "listed", "waiting", "retiring"}
               /\ p \in {"error", "timeout", "dropped"}
      <4>1. SeenAs(call[r]) \in {"idle", "open"} /\ SeenAs(p) = "failed" BY <3>3, SeenFacts
      <4> QED BY <1>u, <2>1, <2>3, <4>1, CallSteps DEF Contracted
    <3>4. CASE /\ call[r] \in {"checked", "listed", "waiting"}
               /\ p \in {"listed", "waiting", "retiring", "failing"}
      BY <2>3, <3>4, SeenFacts
    <3> QED BY <1>2, <1>4, <3>1, <3>2, <3>3, <3>4
  <2> QED BY <2>2, <2>3
<1> QED BY <1>2, <1>3, <1>4

\* mark_terminal fails the call whose write failed.
LEMMA MarkContract == ASSUME IInv, NEW a \in Agents, Wake(a) \/ Kill(a) PROVE Contracted
<1> USE ProtocolConstants
<1>t. /\ TypeOK /\ Safe /\ (a # Reader => a \in Requests) BY DEF IInv, Agents
<1>u. UNCHANGED <<task, shut>> /\ Done' = Done
  BY DEF Wake, Kill, serverVars, Done
<1>1. CASE Wake(a) \/ a = Reader
  <2>1. UNCHANGED call BY <1>1 DEF Wake, Kill, Return
  <2> QED BY <1>u, <2>1, Stutter DEF Contracted, Seen
<1>2. CASE Kill(a) /\ a # Reader
  <2>1. call' = [call EXCEPT ![a] = "error"] /\ call[a] = "failing"
    BY <1>t, <1>2 DEF Kill, Return, Goto, Safe, Ends
  <2>2. /\ a \in Calls => Seen' = [Seen EXCEPT ![a] = "failed"] /\ Seen[a] = "open"
        /\ a \notin Calls => Seen' = Seen
    <3>1. /\ a \in Calls => Seen' = [Seen EXCEPT ![a] = SeenAs("error")]
                           /\ Seen[a] = SeenAs(call[a])
          /\ a \notin Calls => Seen' = Seen
      BY <1>t, <1>2, <2>1, SeenMoves
    <3> QED BY <2>1, <3>1, SeenFacts
  <2>3. CASE a \in Calls BY <1>u, <2>2, <2>3, CallSteps DEF Contracted
  <2>4. CASE a \notin Calls BY <1>u, <2>2, <2>4, Stutter DEF Contracted
  <2> QED BY <2>3, <2>4
<1> QED BY <1>1, <1>2

\* The reader task is not seen: the answer counts when its caller has it.
LEMMA ReaderContract == ASSUME ReaderStep PROVE Contracted
<1>1. UNCHANGED <<call, task, shut>>
  <2>1. EndReading => UNCHANGED call BY Zenon DEF EndReading, Return
  <2> QED BY <2>1 DEF ReaderStep, ReadPending, ReadUnlisted, Read, Hand, IgnoreRetired, Unknown,
             Eof, Junk, EndReading, callVars, serverVars
<1> QED BY <1>1, Stutter DEF Contracted, Seen, Done

\* serve begins the work on a call that is open, or was given up by its caller.
LEMMA ServerContract == ASSUME IInv, ServerStep PROVE Contracted
<1> USE ProtocolConstants
<1>t. /\ TypeOK /\ Safe /\ task \in [Requests -> Working \union {"none", "answered", "done", "stopped"}]
      /\ call \in [Requests -> Places] /\ Calls \subseteq Requests /\ active \subseteq Requests
  BY DEF IInv, TypeOK, Places, Requests
<1>u. UNCHANGED <<call, shut>> /\ Seen' = Seen /\ server = "serving"
  <2>1. UNCHANGED <<call, shut>> /\ server = "serving"
    BY DEF ServerStep, ReadRequest, ReadCancel, ReadShutdown, StdinEof, Wedge, clientVars, callVars,
       Take
  <2> QED BY <2>1 DEF Seen
<1> DEFINE h == Head(toPlugin)
<1>1. CASE UNCHANGED task
  BY <1>u, <1>1, Stutter DEF Contracted, Done
<1>2. CASE ReadRequest
  <2>1. toPlugin # <<>> /\ h.kind = "request" /\ h.id \in Calls
        /\ task' = [task EXCEPT ![h.id] = "running"]
    BY <1>2 DEF ReadRequest, Take, Serve
  <2>2. toPlugin \in Seq(Mails) BY <1>t DEF TypeOK, Mails
  <2>3. h \in Mails /\ Has(toPlugin, h) BY <2>1, <2>2, TailFacts
  <2>4. h = Message("request", h.id) BY <2>1, <2>3 DEF Mails, Message
  <2>5. Asked(h.id) BY <2>3, <2>4 DEF Asked
  <2> HIDE DEF h
  <2>6. task[h.id] = "none" /\ call[h.id] \notin {"new", "checked", "listed"}
    BY <1>t, <2>1, <2>5 DEF Safe, AskedOnce, Unasked
  <2>7. shut # "done" BY <1>t, <1>u DEF Safe, Ends
  <2>8. /\ Done' = [Done EXCEPT ![h.id] = "working"] /\ Done[h.id] = "none"
    <3>1. /\ Done' = [Done EXCEPT ![h.id] = DoneAs("running")]
          /\ Done[h.id] = DoneAs(task[h.id])
      BY <1>t, <2>1, DoneMoves
    <3> QED BY <2>6, <3>1, DoneFacts
  <2>9. call[h.id] # "ok" BY <1>t, <2>1, <2>6 DEF Safe, AnsweredOnce, Worked
  <2>10. Seen[h.id] \in {"open", "failed"}
    BY <1>t, <2>1, <2>6, <2>9, SeenFacts DEF Seen, Places, Settled
  <2> QED BY <1>u, <2>1, <2>7, <2>8, <2>10, WorkSteps DEF Contracted
<1>3. CASE ReadCancel /\ ~UNCHANGED task
  <2>1. h.id \in active /\ task[h.id] = "running" /\ task' = [task EXCEPT ![h.id] = "aborting"]
    BY <1>3 DEF ReadCancel
  <2>2. DoneAs("aborting") = DoneAs(task[h.id]) BY <2>1, DoneFacts
  <2> HIDE DEF h
  <2>3. h.id \in Requests BY <1>t, <2>1
  <2>4. Done' = Done BY <1>t, <2>1, <2>2, <2>3, DoneMoves
  <2> QED BY <1>u, <2>4, Stutter DEF Contracted
<1> QED BY <1>1, <1>2, <1>3 DEF ServerStep, ReadShutdown, StdinEof, Wedge

\* A task completes the work, or is stopped.
LEMMA TaskContract == ASSUME IInv, NEW c \in Calls, TaskStep(c) PROVE Contracted
<1>t. TypeOK /\ c \in Requests BY DEF IInv, Requests
<1>u. UNCHANGED <<call, shut>> /\ Seen' = Seen
  <2>1. UNCHANGED <<call, shut>>
    BY DEF TaskStep, Finish, FinishUnwritten, Deregister, Stopped, clientVars, callVars
  <2> QED BY <2>1 DEF Seen
<1>1. CASE Finish(c) \/ FinishUnwritten(c)
  <2>1. task[c] \in Working /\ \E p \in {"answered", "done"} : task' = [task EXCEPT ![c] = p]
    BY <1>1 DEF Finish, FinishUnwritten, Working
  <2>2. PICK p \in {"answered", "done"} : task' = [task EXCEPT ![c] = p]
    BY <2>1
  <2>3. Done[c] = DoneAs(task[c]) /\ Done' = [Done EXCEPT ![c] = DoneAs(p)]
    BY <1>t, <2>2, DoneMoves
  <2>4. DoneAs(p) = "done" /\ DoneAs(task[c]) = "working"
    BY <2>1, DoneFacts DEF Working
  <2>5. Done[c] = "working" /\ Done' = [Done EXCEPT ![c] = "done"]
    BY <2>3, <2>4
  <2> QED BY <1>u, <2>5, WorkSteps DEF Contracted
<1>2. CASE Deregister(c)
  <2>1. DoneAs("done") = DoneAs(task[c]) /\ task' = [task EXCEPT ![c] = "done"]
    BY <1>2, DoneFacts DEF Deregister
  <2>2. Done' = Done BY <1>t, <2>1, DoneMoves
  <2> QED BY <1>u, <2>2, Stutter DEF Contracted
<1>3. CASE Stopped(c)
  <2>1. Done[c] = "working" /\ Done' = [Done EXCEPT ![c] = "stopped"]
    <3>1. Done[c] = DoneAs(task[c]) /\ Done' = [Done EXCEPT ![c] = DoneAs("stopped")]
      BY <1>t, <1>3, DoneMoves DEF Stopped
    <3> QED BY <1>3, <3>1, DoneFacts DEF Stopped
  <2>2. Done' = [d \in Calls |-> IF d \in {c} THEN "stopped" ELSE Done[d]]
    BY <2>1 DEF Done
  <2> QED BY <1>u, <2>1, <2>2, StopStep DEF Contracted
<1> QED BY <1>1, <1>2, <1>3 DEF TaskStep

\* The end of the process stops all the work that is left.
LEMMA VanishContract == ASSUME IInv, Vanish PROVE Contracted
<1> DEFINE S == {c \in Calls : task[c] \in Working}
<1>t. task \in [Requests -> Working \union {"none", "answered", "done", "stopped"}]
      /\ Calls \subseteq Requests
  BY DEF IInv, TypeOK, Requests
<1>u. UNCHANGED <<call, shut>> /\ Seen' = Seen
  BY DEF Vanish, clientVars, callVars, Seen
<1>1. \A c \in S : Done[c] = "working" BY DoneFacts DEF Done, Working
<1>2. \A c \in Calls : DoneAs(task'[c]) = IF c \in S THEN "stopped" ELSE DoneAs(task[c])
  BY <1>t, DoneFacts DEF Vanish, Working
<1>3. Done' = [c \in Calls |-> DoneAs(task'[c])] BY DEF Done
<1>4. Done' = [c \in Calls |-> IF c \in S THEN "stopped" ELSE Done[c]]
  BY <1>2, <1>3 DEF Done
<1> HIDE DEF S
<1>5. S \in SUBSET Calls BY DEF S
<1> QED BY <1>u, <1>1, <1>4, <1>5, StopStep DEF Contracted

\* shutdown has returned only when the process is gone, and all work with it.
LEMMA ClosingContract == ASSUME IInv, Closing PROVE Contracted
<1>u. UNCHANGED <<call, task>> /\ Seen' = Seen /\ Done' = Done
  BY DEF Closing, CloseWriter, GraceOver, Reap, clientVars, callVars, serverVars, Seen, Done
<1>1. CASE CloseWriter \/ GraceOver
  <2>1. (shut' = "done") = (shut = "done")
    BY <1>1 DEF CloseWriter, GraceOver, clientVars
  <2> QED BY <1>u, <2>1 DEF Contracted, Contract!vars, Seen, Done
<1>2. CASE Reap
  <2>1. (shut' = "done") = TRUE /\ server = "gone" BY <1>2 DEF Reap
  <2>2. \A c \in Calls : Done[c] # "working"
    <3>1. \A c \in Calls : task[c] \in {"none", "done", "stopped"}
      BY <2>1 DEF IInv, TypeOK, Safe, Ends, Requests
    <3> QED BY <3>1, DoneFacts DEF Done
  <2> QED BY <1>u, <2>1, <2>2 DEF Contracted, Contract!Next, Contract!Close, Seen, Done
<1> QED BY <1>1, <1>2 DEF Closing

\* Every step of a session is a step of the contract, or is not seen by it.
LEMMA ContractStep == IInv /\ [Next]_vars => [Contract!Next]_(Contract!vars)
<1>1. ASSUME UNCHANGED vars PROVE Contracted
  BY <1>1, Stutter DEF vars, clientVars, callVars, serverVars, Contracted, Seen, Done
<1> QED BY <1>1, Steps, CallerContract, MarkContract, ReaderContract, ServerContract, TaskContract,
       VanishContract, ClosingContract DEF Contracted

\* A session starts as the contract does.
LEMMA ContractInit == Init => Contract!Init
BY SeenFacts, DoneFacts DEF Init, Contract!Init, Requests

\* Whatever breaks in a session, a call is worked on once at most, an answer is
\* given for work that is done only, and once PluginClient::shutdown has returned
\* nothing is being worked on.
THEOREM SessionKeepsContract == Spec => ImplementsCall
BY InitIInv, NextIInv, ContractInit, ContractStep, PTL DEF Spec, ImplementsCall, Contract!Spec
=============================================================================
