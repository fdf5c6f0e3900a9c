----------------------------- MODULE Connection -----------------------------
(***************************************************************************)
(* A connection while it is up: the reader and the writer task of          *)
(* component.rs (client.rs has the same two), the channels between them    *)
(* and AgentRuntime::run, its pings, and how a connection ends.  run() is  *)
(* left and, by the loop of main.rs, called again with a new connection    *)
(* while tasks of an old one may still be there.                           *)
(*                                                                         *)
(* An event or a command is its kind.  What a handler does to the memory   *)
(* is AgentRuntime's subject; here it is the list of what it still has to  *)
(* do before run() can take the next event.                                *)
(***************************************************************************)
EXTENDS Integers, Sequences

CONSTANTS
  Keepalive,   \* config.keepalive.enabled
  EventCap,    \* places in the event channel (100)
  CmdCap,      \* places in the command channel (100)
  Rooms,       \* the number of rooms to join
  Tasks,       \* slots for tasks that handle file messages (the code sets no bound)
  MaxConns,    \* bound: connections
  MaxStanzas   \* bound: stanzas received

ASSUME ConnectionAssumption ==
  /\ Keepalive \in BOOLEAN
  /\ EventCap \in Nat \ {0} /\ CmdCap \in Nat \ {0} /\ Rooms \in Nat
  /\ MaxConns \in Nat /\ MaxStanzas \in Nat

Conns == 1..MaxConns
NoConn == 0

\* "chat" is a message or reaction to answer, "file" one with attachments, "quiet"
\* what is handled without an answer.
Stanzas == {"chat", "file", "quiet", "conflict", "streamError"}
Last    == {"error", "conflict", "streamError"}   \* after these the reader ends
Events  == Stanzas \cup {"connected", "timeout", "error"}
Cmds    == {"say", "join", "ping"}
Chores  == Cmds \cup {"llm", "spawn"}

VARIABLES
  loop,    \* "away" (no run()), "on" (in run()), "exited"
  conn,    \* the last connection made
  todo,    \* what run() still does for the event it took
  link,    \* per connection: "up"; "silent", the peer is out of reach; "dying", the
           \* same and something was written; "broken", and the system knows it
  reader,  \* per connection: "none", "reading", "done", or the event it delivers
  writer,  \* per connection: "none", "receiving", "done", or the command it writes
  pump,    \* per connection: "none", "up", "done": run_event_loop
  events, cmds,  \* per connection, the channels
  task,    \* per task, the connection whose cmd_tx it holds
  seen,    \* stanzas received
  ruined   \* connections on which the server ended the stream or sent no XML

channels == <<events, cmds>>
ends     == <<link, reader, writer, pump>>
wire     == <<seen, ruined>>
vars     == <<loop, conn, todo, ends, channels, task, wire>>

On(c)      == loop = "on" /\ conn = c
Holding(c) == On(c) \/ \E t \in Tasks : task[t] = c

----------------------------------------------------------------------------
\* The reader task.  Names that end in _Bug are faulty variants of the definition
\* that follows.

Reading(c, ev) ==
  /\ reader[c] = "reading" /\ reader' = [reader EXCEPT ![c] = ev]
  /\ UNCHANGED <<loop, conn, todo, link, writer, pump, channels, task>>

\* A stanza, or something that is not XML, arrives; it may still be read from the
\* system's buffer when the link is gone.
ReadStanza(c) ==
  /\ seen < MaxStanzas /\ seen' = seen + 1
  /\ \E ev \in Stanzas \cup {"error"} :
       /\ Reading(c, ev)
       /\ ruined' = IF ev \in Last THEN ruined \cup {c} ELSE ruined

ReadEnd(c) == link[c] = "broken" /\ Reading(c, "error") /\ UNCHANGED wire

ReadTimeout_Bug(c) ==   \* taken for the end of the stream
  Keepalive /\ link[c] # "broken" /\ Reading(c, "error") /\ UNCHANGED wire

ReadTimeout(c) ==
  Keepalive /\ link[c] # "broken" /\ Reading(c, "timeout") /\ UNCHANGED wire

Delivered_Bug(ev) == IF ev \in {"conflict", "streamError"} THEN "reading" ELSE
                     IF ev = "error" THEN "done" ELSE "reading"   \* reads on

Delivered_EndlessBug(ev) == "reading"   \* an error is not the end

Delivered(ev) == IF ev \in Last THEN "done" ELSE "reading"

\* The event goes to the channel when there is room, or nowhere when run() is over.
Deliver(c) ==
  /\ reader[c] \in Events
  /\ IF On(c)
     THEN Len(events[c]) < EventCap /\ events' = [events EXCEPT ![c] = Append(@, reader[c])]
     ELSE UNCHANGED events
  /\ reader' = [reader EXCEPT ![c] = Delivered(@)]
  /\ UNCHANGED <<loop, conn, todo, link, writer, pump, cmds, task, wire>>

----------------------------------------------------------------------------
\* The writer task

TakeCmd(c) ==
  /\ writer[c] = "receiving" /\ cmds[c] # <<>>
  /\ writer' = [writer EXCEPT ![c] = Head(cmds[c])]
  /\ cmds'   = [cmds EXCEPT ![c] = Tail(@)]
  /\ UNCHANGED <<loop, conn, todo, link, reader, pump, events, task, wire>>

\* Every sender is gone.
AllSent(c) ==
  /\ writer[c] = "receiving" /\ cmds[c] = <<>> /\ ~Holding(c)
  /\ writer' = [writer EXCEPT ![c] = "done"]
  /\ UNCHANGED <<loop, conn, todo, link, reader, pump, channels, task, wire>>

WriteOk_Bug(c) ==   \* a ping has no stanza to write
  /\ writer[c] \in Cmds /\ link[c] # "broken"
  /\ link'   = [link EXCEPT ![c] = IF @ = "silent" /\ writer[c] # "ping" THEN "dying" ELSE @]
  /\ writer' = [writer EXCEPT ![c] = "receiving"]
  /\ UNCHANGED <<loop, conn, todo, reader, pump, channels, task, wire>>

WriteOk(c) ==
  /\ writer[c] \in Cmds /\ link[c] # "broken"
  /\ writer' = [writer EXCEPT ![c] = "receiving"]
  /\ link'   = [link EXCEPT ![c] = IF @ = "silent" THEN "dying" ELSE @]
  /\ UNCHANGED <<loop, conn, todo, reader, pump, channels, task, wire>>

WriteFails_ReportBug(c) ==   \* the failure is reported before the task ends
  /\ writer[c] \in Cmds /\ link[c] = "broken"
  /\ On(c) => Len(events[c]) < EventCap
  /\ writer' = [writer EXCEPT ![c] = "done"]
  /\ cmds'   = [cmds EXCEPT ![c] = <<>>]
  /\ events' = IF On(c) THEN [events EXCEPT ![c] = Append(@, "error")] ELSE events
  /\ UNCHANGED <<loop, conn, todo, link, reader, pump, task, wire>>

\* The task ends, and with it the receiver of the channel.
WriteFails(c) ==
  /\ writer[c] \in Cmds /\ link[c] = "broken"
  /\ writer' = [writer EXCEPT ![c] = "done"]
  /\ cmds'   = [cmds EXCEPT ![c] = <<>>]
  /\ UNCHANGED <<loop, conn, todo, link, reader, pump, events, task, wire>>

\* run_event_loop returns when one of the tasks ends; the other goes on without it.
PumpEnds(c) ==
  /\ pump[c] = "up" /\ (reader[c] = "done" \/ writer[c] = "done")
  /\ pump' = [pump EXCEPT ![c] = "done"]
  /\ UNCHANGED <<loop, conn, todo, link, reader, writer, channels, task, wire>>

----------------------------------------------------------------------------
\* run() and the tasks it spawns

\* connect() has succeeded.
Connect ==
  /\ loop = "away" /\ conn < MaxConns
  /\ loop' = "on" /\ conn' = conn + 1 /\ todo' = <<>>
  /\ link'   = [link EXCEPT ![conn'] = "up"]
  /\ reader' = [reader EXCEPT ![conn'] = "reading"]
  /\ writer' = [writer EXCEPT ![conn'] = "receiving"]
  /\ pump'   = [pump EXCEPT ![conn'] = "up"]
  /\ events' = [events EXCEPT ![conn'] = <<"connected">>]
  /\ UNCHANGED <<cmds, task, wire>>

\* run() returns: its ends of the channels are dropped.  main exits on a conflict.
Leave(where) ==
  /\ loop' = where /\ todo' = <<>>
  /\ events' = [events EXCEPT ![conn] = <<>>]
  /\ UNCHANGED <<conn, ends, cmds, task, wire>>

ChoresFor(ev) ==
  CASE ev = "connected" -> [i \in 1..Rooms |-> "join"]
    [] ev = "chat"      -> <<"say", "llm", "say">>
    [] ev = "file"      -> <<"say", "spawn">>
    [] ev = "timeout"   -> <<"ping">>
    [] OTHER            -> <<>>

Free == loop = "on" /\ todo = <<>>

TakeEvent ==
  /\ Free /\ events[conn] # <<>>
  /\ LET ev == Head(events[conn]) IN
     CASE ev = "conflict"    -> Leave("exited")
       [] ev = "streamError" -> Leave("away")
       [] OTHER ->
            /\ todo' = ChoresFor(ev) /\ events' = [events EXCEPT ![conn] = Tail(@)]
            /\ UNCHANGED <<loop, conn, ends, cmds, task, wire>>

\* The reader holds a clone of event_tx, run_event_loop the original.
NoSenders(c) == pump[c] = "done" /\ reader[c] = "done"

ChannelClosed ==
  /\ Free /\ events[conn] = <<>> /\ NoSenders(conn)
  /\ Leave("away")

PingTick ==
  /\ Keepalive /\ Free /\ todo' = <<"ping">>
  /\ UNCHANGED <<loop, conn, ends, channels, task, wire>>

Chore(kind) == loop = "on" /\ todo # <<>> /\ Head(todo) = kind

\* Waits for room in the channel.
SendCmd(kind) ==
  /\ Chore(kind) /\ writer[conn] # "done" /\ Len(cmds[conn]) < CmdCap
  /\ cmds' = [cmds EXCEPT ![conn] = Append(@, kind)]
  /\ todo' = Tail(todo)
  /\ UNCHANGED <<loop, conn, ends, events, task, wire>>

\* No receiver any more: only a ping's failure ends run().
SendFails(kind) ==
  /\ Chore(kind) /\ writer[conn] = "done"
  /\ IF kind = "ping" THEN Leave("away")
     ELSE todo' = Tail(todo) /\ UNCHANGED <<loop, conn, ends, channels, task, wire>>

AskLlm ==
  /\ Chore("llm") /\ todo' = Tail(todo)
  /\ UNCHANGED <<loop, conn, ends, channels, task, wire>>

Spawn ==
  /\ Chore("spawn") /\ todo' = Tail(todo)
  /\ \E t \in Tasks : task[t] = NoConn /\ task' = [task EXCEPT ![t] = conn]
  /\ UNCHANGED <<loop, conn, ends, channels, wire>>

\* A task has its answer; it sends it to the connection of its message.
TaskSends(t) ==
  /\ task[t] # NoConn
  /\ IF writer[task[t]] = "done" THEN UNCHANGED cmds
     ELSE /\ Len(cmds[task[t]]) < CmdCap
          /\ cmds' = [cmds EXCEPT ![task[t]] = Append(@, "say")]
  /\ task' = [task EXCEPT ![t] = NoConn]
  /\ UNCHANGED <<loop, conn, todo, ends, events, wire>>

Run ==
  \/ TakeEvent \/ ChannelClosed
  \/ \E kind \in Cmds : SendCmd(kind) \/ SendFails(kind)
  \/ AskLlm \/ Spawn

----------------------------------------------------------------------------
\* The network

Relink(c, from, to) ==
  /\ link[c] \in from /\ link' = [link EXCEPT ![c] = to]
  /\ UNCHANGED <<loop, conn, todo, reader, writer, pump, channels, task, wire>>

GoSilent(c) == Relink(c, {"up"}, "silent")
Recover(c)  == Relink(c, {"silent", "dying"}, "up")

\* The peer closes or resets the connection, or the system gives up on it, which it
\* only does when something it sent is not acknowledged.
Break(c) == Relink(c, {"up", "dying"}, "broken")

----------------------------------------------------------------------------

Init ==
  /\ loop = "away" /\ conn = NoConn /\ todo = <<>> /\ seen = 0 /\ ruined = {}
  /\ link = [c \in Conns |-> "none"] /\ reader = [c \in Conns |-> "none"]
  /\ writer = [c \in Conns |-> "none"] /\ pump = [c \in Conns |-> "none"]
  /\ events = [c \in Conns |-> <<>>] /\ cmds = [c \in Conns |-> <<>>]
  /\ task = [t \in Tasks |-> NoConn]

Step(c) ==
  \/ ReadStanza(c) \/ ReadEnd(c) \/ ReadTimeout(c) \/ Deliver(c)
  \/ TakeCmd(c) \/ AllSent(c) \/ WriteOk(c) \/ WriteFails(c) \/ PumpEnds(c)
  \/ GoSilent(c) \/ Recover(c) \/ Break(c)

\* The bound is reached, or the process is gone.
Rest == (loop = "exited" \/ (loop = "away" /\ conn = MaxConns)) /\ UNCHANGED vars

Next ==
  \/ loop # "exited" /\ \/ Connect \/ Run \/ PingTick
                        \/ \E c \in Conns : Step(c)
                        \/ \E t \in Tasks : TaskSends(t)
  \/ Rest

Spec == Init /\ [][Next]_vars

\* Every task that can go on does.  A write to a peer out of reach may block until
\* the system gives up; a live peer reads what it is sent (README).
Fairness ==
  /\ WF_vars(Run) /\ WF_vars(PingTick)
  /\ \A t \in Tasks : WF_vars(TaskSends(t))
  /\ \A c \in Conns :
       /\ WF_vars(ReadEnd(c)) /\ WF_vars(Deliver(c)) /\ WF_vars(TakeCmd(c))
       /\ WF_vars(AllSent(c)) /\ WF_vars(link[c] # "dying" /\ WriteOk(c))
       /\ WF_vars(WriteFails(c)) /\ WF_vars(PumpEnds(c))
       /\ WF_vars(link[c] = "dying" /\ Break(c))

FairSpec == Spec /\ Fairness

----------------------------------------------------------------------------
\* Properties

TypeOK ==
  /\ loop \in {"away", "on", "exited"} /\ conn \in 0..MaxConns /\ todo \in Seq(Chores)
  /\ link   \in [Conns -> {"none", "up", "silent", "dying", "broken"}]
  /\ reader \in [Conns -> Events \cup {"none", "reading", "done"}]
  /\ writer \in [Conns -> Cmds \cup {"none", "receiving", "done"}]
  /\ pump   \in [Conns -> {"none", "up", "done"}]
  /\ events \in [Conns -> Seq(Events)] /\ cmds \in [Conns -> Seq(Cmds)]
  /\ task \in [Tasks -> 0..MaxConns] /\ seen \in 0..MaxStanzas /\ ruined \in SUBSET Conns
  /\ loop = "on" => conn # NoConn
  /\ \A c \in Conns :
       /\ Len(events[c]) <= EventCap /\ Len(cmds[c]) <= CmdCap
       /\ c > conn <=> link[c] = "none"
       /\ ~On(c) => events[c] = <<>>

Leaves == loop = "on" /\ loop' # "on"

\* docs/XEPS.md:13 "a timeout alone does not disconnect — only a failed write does":
\* run() is left only when the link is broken, or when the server has ended the
\* stream by an error, a stream error or something that is not XML.
LeavesOnlyDead == [][Leaves => link[conn] = "broken" \/ conn \in ruined]_vars

\* Events that were read are thrown away only when a write has failed: what came
\* before the end of the stream or a stream error is handled first.
DropsOnlyAfterFailure ==
  [][(Leaves /\ Len(events[conn]) > 1) => writer[conn] = "done"]_vars

\* docs/XEPS.md:13 "to detect dead TCP connections": with keepalive, a peer that stays
\* out of reach costs the agent its connection, so that it can make a new one.
DeadLinkNoticed ==
  \A c \in Conns : <>[](link[c] \in {"silent", "dying", "broken"}) => <>[](~On(c))

\* Nothing keeps run() in a handler for ever: loop, reader and writer do not wait for
\* each other's channels in a circle.
LoopReturns == []<>(loop # "on" \/ todo = <<>>)

\* Reader and writer of a connection that was left come to an end.
TasksEnd ==
  \A c \in Conns :
    (c <= conn /\ ~On(c)) ~> (loop = "exited" \/ (reader[c] = "done" /\ writer[c] = "done"))
----------------------------------------------------------------------------
\* The invariant behind LeavesOnlyDead and DropsOnlyAfterFailure.

\* A connection that has not been made has no tasks and no traffic.
Unmade ==
  /\ \A c \in Conns : c > conn =>
       /\ link[c] = "none" /\ reader[c] = "none" /\ writer[c] = "none" /\ pump[c] = "none"
       /\ events[c] = <<>> /\ cmds[c] = <<>>
  /\ \A t \in Tasks : task[t] <= conn

\* The reader has ended, or is about to, only when the link is broken or the server has
\* ended the stream; the writer, while run() is there, only when a write has failed.
EndsWithCause ==
  \A c \in Conns :
    /\ reader[c] \in {"error", "done"} => link[c] = "broken" \/ c \in ruined
    /\ reader[c] \in {"conflict", "streamError"} => c \in ruined
    /\ (On(c) /\ writer[c] = "done") => link[c] = "broken"

\* What the reader reported at its end is the last event in its channel.
LastIsLast ==
  \A c \in Conns : \A i \in DOMAIN events[c] : events[c][i] \in Last =>
    /\ i = Len(events[c]) /\ reader[c] = "done"
    /\ events[c][i] # "error" => c \in ruined

EndsInv == TypeOK /\ Unmade /\ EndsWithCause /\ LastIsLast
=============================================================================
