-------------------------- MODULE ConnectionProofs --------------------------
(***************************************************************************)
(* Proofs about Connection, for any number of connections, tasks and rooms *)
(* and channels of any length: run() leaves only a connection that is      *)
(* dead, and throws away what was read only after a failed write.          *)
(***************************************************************************)
EXTENDS Connection, TLAPS

----------------------------------------------------------------------------
\* Type correctness

LEMMA ChoresTyped == \A ev \in Events : ChoresFor(ev) \in Seq(Chores)
<1>1. [i \in 1..Rooms |-> "join"] \in Seq(Chores)
  BY ConnectionAssumption DEF Chores, Cmds
<1>2. /\ <<"say", "llm", "say">> \in Seq(Chores) /\ <<"say", "spawn">> \in Seq(Chores)
      /\ <<"ping">> \in Seq(Chores) /\ <<>> \in Seq(Chores)
  BY DEF Chores, Cmds
<1>. QED BY <1>1, <1>2 DEF ChoresFor

LEMMA InitTyped == Init => TypeOK
BY ConnectionAssumption DEF Init, TypeOK, Conns, NoConn, On, Chores, Events, Cmds

\* The reader's steps keep the types ...
LEMMA ReaderTyped ==
  ASSUME TypeOK, NEW c \in Conns,
         ReadStanza(c) \/ ReadEnd(c) \/ ReadTimeout(c) \/ Deliver(c)
  PROVE  TypeOK'
<1> USE ConnectionAssumption DEF TypeOK, Events, Stanzas, On
<1>1. CASE ReadStanza(c)
  BY <1>1 DEF ReadStanza, Reading, channels, Last
<1>2. CASE ReadEnd(c)
  BY <1>2 DEF ReadEnd, Reading, channels, wire
<1>3. CASE ReadTimeout(c)
  BY <1>3 DEF ReadTimeout, Reading, channels, wire
<1>4. CASE Deliver(c)
  <2>1. /\ reader' \in [Conns -> Events \cup {"none", "reading", "done"}]
        /\ UNCHANGED <<loop, conn, todo, link, writer, pump, cmds, task, seen, ruined>>
    BY <1>4 DEF Deliver, Delivered, wire
  <2>2. CASE On(c)
    <3>1. /\ Append(events[c], reader[c]) \in Seq(Events)
          /\ Len(Append(events[c], reader[c])) <= EventCap
          /\ events' = [events EXCEPT ![c] = Append(@, reader[c])]
      BY <1>4, <2>2 DEF Deliver
    <3>2. \A d \in Conns : Len(events'[d]) <= EventCap /\ (~On(d) => events'[d] = <<>>)
      BY <2>2, <3>1
    <3>. QED BY <2>1, <3>1, <3>2
  <2>3. CASE ~On(c)
    BY <1>4, <2>1, <2>3 DEF Deliver
  <2>. QED BY <2>2, <2>3
<1>. QED BY <1>1, <1>2, <1>3, <1>4

\* ... and so do the writer's, ...
LEMMA WriterTyped ==
  ASSUME TypeOK, NEW c \in Conns,
         TakeCmd(c) \/ AllSent(c) \/ WriteOk(c) \/ WriteFails(c) \/ PumpEnds(c)
  PROVE  TypeOK'
<1> USE ConnectionAssumption DEF TypeOK, On
<1>1. CASE TakeCmd(c)
  BY <1>1 DEF TakeCmd, wire
<1>2. CASE AllSent(c)
  BY <1>2 DEF AllSent, channels, wire
<1>3. CASE WriteOk(c)
  BY <1>3 DEF WriteOk, channels, wire
<1>4. CASE WriteFails(c)
  BY <1>4 DEF WriteFails, wire
<1>5. CASE PumpEnds(c)
  BY <1>5 DEF PumpEnds, channels, wire
<1>. QED BY <1>1, <1>2, <1>3, <1>4, <1>5

\* ... the network's ...
LEMMA NetworkTyped ==
  ASSUME TypeOK, NEW c \in Conns, GoSilent(c) \/ Recover(c) \/ Break(c)
  PROVE  TypeOK'
<1>1. PICK to \in {"up", "silent", "broken"} :
        /\ link' = [link EXCEPT ![c] = to] /\ link[c] # "none"
        /\ UNCHANGED <<loop, conn, todo, reader, writer, pump, events, cmds, task, seen, ruined>>
  BY DEF GoSilent, Recover, Break, Relink, channels, wire
<1>. QED BY <1>1 DEF TypeOK, On

LEMMA LeaveTyped ==
  ASSUME TypeOK, loop = "on", NEW where \in {"away", "exited"}, Leave(where)
  PROVE  TypeOK'
<1> USE DEF TypeOK, On
<1>1. conn \in Conns /\ <<>> \in Seq(Events) /\ <<>> \in Seq(Chores)
  BY ConnectionAssumption DEF NoConn, Conns
<1>2. /\ events' \in [Conns -> Seq(Events)] /\ Len(<<>>) = 0
      /\ \A d \in Conns : events'[d] = <<>>
  BY <1>1 DEF Leave
<1>3. \A d \in Conns : Len(events'[d]) <= EventCap
  BY <1>2, ConnectionAssumption
<1>. QED BY <1>1, <1>2, <1>3 DEF Leave, ends, wire

\* ... and run()'s.
LEMMA RunTyped ==
  ASSUME TypeOK, Run \/ PingTick \/ Connect
  PROVE  TypeOK'
<1> USE ConnectionAssumption DEF TypeOK, On, Conns, NoConn
<1>1. CASE TakeEvent
  <2>1. events[conn] # <<>> /\ Head(events[conn]) \in Events /\ conn \in Conns
    BY <1>1 DEF TakeEvent, Free
  <2>2. CASE Head(events[conn]) \in {"conflict", "streamError"}
    BY <1>1, <2>2, LeaveTyped DEF TakeEvent, Free
  <2>3. CASE Head(events[conn]) \notin {"conflict", "streamError"}
    <3>1. /\ todo' = ChoresFor(Head(events[conn]))
          /\ events' = [events EXCEPT ![conn] = Tail(@)]
          /\ UNCHANGED <<loop, conn, link, reader, writer, pump, cmds, task, seen, ruined>>
      BY <1>1, <2>3 DEF TakeEvent, ends, wire
    <3>2. /\ Tail(events[conn]) \in Seq(Events)
          /\ Len(Tail(events[conn])) <= EventCap
      BY <2>1
    <3>3. \A d \in Conns : Len(events'[d]) <= EventCap /\ (~On(d) => events'[d] = <<>>)
      BY <1>1, <2>1, <3>1, <3>2 DEF TakeEvent, Free
    <3>. QED BY <2>1, <3>1, <3>2, <3>3, ChoresTyped
  <2>. QED BY <2>2, <2>3
<1>2. CASE ChannelClosed
  BY <1>2, LeaveTyped DEF ChannelClosed, Free
<1>3. ASSUME NEW kind \in Cmds, SendCmd(kind) PROVE TypeOK'
  <2>1. /\ todo' = Tail(todo) /\ todo # <<>> /\ Len(cmds[conn]) < CmdCap /\ conn \in Conns
        /\ cmds' = [cmds EXCEPT ![conn] = Append(cmds[conn], kind)]
        /\ UNCHANGED <<loop, conn, link, reader, writer, pump, events, task, seen, ruined>>
    BY <1>3 DEF SendCmd, Chore, ends, wire
  <2>2. /\ Append(cmds[conn], kind) \in Seq(Cmds)
        /\ Len(Append(cmds[conn], kind)) <= CmdCap
    BY <2>1
  <2>3. \A d \in Conns : Len(cmds'[d]) <= CmdCap
    BY <2>1, <2>2
  <2>4. cmds' \in [Conns -> Seq(Cmds)] /\ todo' \in Seq(Chores)
    BY <2>1, <2>2
  <2>. QED BY <2>1, <2>3, <2>4
<1>4. ASSUME NEW kind \in Cmds, SendFails(kind) PROVE TypeOK'
  <2>1. CASE kind = "ping"
    BY <1>4, <2>1, LeaveTyped DEF SendFails, Chore
  <2>2. CASE kind # "ping"
    <3>1. Tail(todo) \in Seq(Chores)
      BY <1>4 DEF SendFails, Chore
    <3>. QED BY <1>4, <2>2, <3>1 DEF SendFails, ends, channels, wire
  <2>. QED BY <2>1, <2>2
<1>5. CASE AskLlm
  BY <1>5 DEF AskLlm, Chore, ends, channels, wire
<1>6. CASE Spawn
  BY <1>6 DEF Spawn, Chore, ends, channels, wire
<1>7. CASE PingTick
  BY <1>7 DEF PingTick, Free, Chores, Cmds, ends, channels, wire
<1>8. CASE Connect
  <2>1. conn + 1 \in Conns /\ conn' = conn + 1
    BY <1>8 DEF Connect
  <2>2. <<"connected">> \in Seq(Events) /\ Len(<<"connected">>) <= EventCap
    BY DEF Events
  <2>3. /\ loop' = "on" /\ todo' = <<>> /\ <<>> \in Seq(Chores)
        /\ link' = [link EXCEPT ![conn + 1] = "up"]
        /\ reader' = [reader EXCEPT ![conn + 1] = "reading"]
        /\ writer' = [writer EXCEPT ![conn + 1] = "receiving"]
        /\ pump' = [pump EXCEPT ![conn + 1] = "up"]
        /\ events' = [events EXCEPT ![conn + 1] = <<"connected">>]
        /\ UNCHANGED <<cmds, task, seen, ruined>>
    BY <1>8, <2>1 DEF Connect, wire
  <2>4. ASSUME NEW d \in Conns
        PROVE  /\ Len(events'[d]) <= EventCap /\ Len(cmds'[d]) <= CmdCap
               /\ ~(loop' = "on" /\ conn' = d) => events'[d] = <<>>
    <3>1. loop # "on" /\ events[d] = <<>> /\ Len(cmds[d]) <= CmdCap
      BY <1>8 DEF Connect
    <3>2. CASE d = conn + 1
      BY <2>1, <2>2, <2>3, <3>1, <3>2
    <3>3. CASE d # conn + 1
      BY <2>3, <3>1, <3>3
    <3>. QED BY <3>2, <3>3
  <2>5. ASSUME NEW d \in Conns
        PROVE  d > conn' <=> link'[d] = "none"
    <3>1. CASE d = conn + 1
      BY <2>1, <2>3, <3>1
    <3>2. CASE d # conn + 1
      <4>1. link'[d] = link[d] /\ (d > conn <=> link[d] = "none") /\ d \in Int /\ conn \in Int
        BY <2>3, <3>2
      <4>. QED BY <2>1, <3>2, <4>1
    <3>. QED BY <3>1, <3>2
  <2>6. conn' \in 0..MaxConns /\ conn' # 0
    BY <2>1
  <2>. QED BY <2>2, <2>3, <2>4, <2>5, <2>6
<1>. QED BY <1>1, <1>2, <1>3, <1>4, <1>5, <1>6, <1>7, <1>8 DEF Run

LEMMA TaskTyped ==
  ASSUME TypeOK, NEW t \in Tasks, TaskSends(t)
  PROVE  TypeOK'
<1> USE DEF TypeOK, On
<1>1. task[t] \in Conns /\ NoConn \in 0..MaxConns
  BY ConnectionAssumption DEF TaskSends, NoConn, Conns
<1>2. cmds' \in [Conns -> Seq(Cmds)] /\ \A d \in Conns : Len(cmds'[d]) <= CmdCap
  <2>1. CASE writer[task[t]] = "done"
    BY <2>1 DEF TaskSends
  <2>2. CASE writer[task[t]] # "done"
    <3>1. /\ Append(cmds[task[t]], "say") \in Seq(Cmds)
          /\ Len(Append(cmds[task[t]], "say")) <= CmdCap
          /\ cmds' = [cmds EXCEPT ![task[t]] = Append(@, "say")]
      BY <1>1, <2>2, ConnectionAssumption DEF TaskSends, Cmds
    <3>. QED BY <1>1, <3>1
  <2>. QED BY <2>1, <2>2
<1>. QED BY <1>1, <1>2 DEF TaskSends, ends, wire

LEMMA NextTyped == TypeOK /\ [Next]_vars => TypeOK'
<1> SUFFICES ASSUME TypeOK, [Next]_vars PROVE TypeOK'
  OBVIOUS
<1>1. CASE UNCHANGED vars
  BY <1>1 DEF TypeOK, vars, ends, channels, wire, On
<1>2. CASE Next
  BY <1>1, <1>2, ReaderTyped, WriterTyped, NetworkTyped, RunTyped, TaskTyped DEF Next, Step, Rest
<1>. QED BY <1>1, <1>2

----------------------------------------------------------------------------
\* The causes of an end.  What an action leaves alone is named once.

LEMMA InitEnds == Init => EndsInv
<1> SUFFICES ASSUME Init PROVE Unmade /\ EndsWithCause /\ LastIsLast
  BY InitTyped DEF EndsInv
<1>1. \A c \in Conns : events[c] = <<>> /\ DOMAIN events[c] = {}
  BY DEF Init
<1>. QED BY <1>1 DEF Init, Unmade, EndsWithCause, LastIsLast, On, Conns, NoConn

\* A connection with a reader, a writer or a link has been made.
LEMMA Made ==
  ASSUME EndsInv, NEW c \in Conns,
         \/ link[c] # "none" \/ reader[c] # "none" \/ writer[c] # "none" \/ pump[c] # "none"
  PROVE  c <= conn
BY DEF EndsInv, Unmade, TypeOK, Conns

LEMMA ReaderEnds ==
  ASSUME EndsInv, NEW c \in Conns,
         ReadStanza(c) \/ ReadEnd(c) \/ ReadTimeout(c) \/ Deliver(c)
  PROVE  Unmade' /\ EndsWithCause' /\ LastIsLast'
<1> USE DEF EndsInv, TypeOK, On
<1>0. Unmade'
  BY Made DEF Unmade, ReadStanza, ReadEnd, ReadTimeout, Deliver, Reading, Events, Stanzas, channels
<1>1. CASE ReadStanza(c)
  BY <1>0, <1>1 DEF ReadStanza, Reading, EndsWithCause, LastIsLast, Last, Stanzas, channels
<1>2. CASE ReadEnd(c) \/ ReadTimeout(c)
  BY <1>0, <1>2 DEF ReadEnd, ReadTimeout, Reading, EndsWithCause, LastIsLast, channels, wire
<1>3. CASE Deliver(c)
  <2>1. /\ reader[c] \in Events /\ reader' = [reader EXCEPT ![c] = Delivered(@)]
        /\ UNCHANGED <<loop, conn, link, writer, ruined>>
    BY <1>3 DEF Deliver, wire
  <2>2. EndsWithCause'
    BY <2>1 DEF EndsWithCause, Delivered, Last, Events, Stanzas
  <2>3. CASE On(c)
    <3>1. events' = [events EXCEPT ![c] = Append(@, reader[c])]
      BY <1>3, <2>3 DEF Deliver
    <3>2. \A i \in DOMAIN events[c] : events[c][i] \notin Last
      BY <2>1 DEF LastIsLast, Events, Stanzas
    <3>3. reader[c] \in Last => /\ reader'[c] = "done"
                                /\ reader[c] # "error" => c \in ruined
      BY <2>1 DEF Delivered, EndsWithCause, Last
    <3>4. ASSUME NEW i \in DOMAIN events'[c], events'[c][i] \in Last
          PROVE  i = Len(events'[c]) /\ events'[c][i] = reader[c]
      BY <3>1, <3>2, <3>4
    <3>5. \A d \in Conns \ {c} : events'[d] = events[d] /\ reader'[d] = reader[d]
      BY <2>1, <3>1
    <3>. QED BY <1>0, <2>1, <2>2, <3>3, <3>4, <3>5 DEF LastIsLast
  <2>4. CASE ~On(c)
    <3>1. events' = events /\ events[c] = <<>>
      BY <1>3, <2>4 DEF Deliver
    <3>. QED BY <1>0, <2>1, <2>2, <3>1 DEF LastIsLast
  <2>. QED BY <2>3, <2>4
<1>. QED BY <1>1, <1>2, <1>3

LEMMA WriterEnds ==
  ASSUME EndsInv, NEW c \in Conns,
         TakeCmd(c) \/ AllSent(c) \/ WriteOk(c) \/ WriteFails(c) \/ PumpEnds(c)
  PROVE  Unmade' /\ EndsWithCause' /\ LastIsLast'
<1> USE DEF EndsInv, TypeOK, On, Unmade, EndsWithCause, LastIsLast
<1>1. CASE TakeCmd(c)
  <2>1. Head(cmds[c]) \in Cmds /\ c <= conn
    BY <1>1, Made DEF TakeCmd
  <2>. QED BY <1>1, <2>1 DEF TakeCmd, wire, Cmds
<1>2. CASE AllSent(c)
  BY <1>2, Made DEF AllSent, Holding, channels, wire
<1>3. CASE WriteOk(c)
  BY <1>3, Made DEF WriteOk, Cmds, channels, wire
<1>4. CASE WriteFails(c)
  BY <1>4, Made DEF WriteFails, Cmds, wire
<1>5. CASE PumpEnds(c)
  BY <1>5, Made DEF PumpEnds, channels, wire
<1>. QED BY <1>1, <1>2, <1>3, <1>4, <1>5

LEMMA NetworkEnds ==
  ASSUME EndsInv, NEW c \in Conns, GoSilent(c) \/ Recover(c) \/ Break(c)
  PROVE  Unmade' /\ EndsWithCause' /\ LastIsLast'
BY Made DEF EndsInv, TypeOK, On, Unmade, EndsWithCause, LastIsLast,
            GoSilent, Recover, Break, Relink, channels, wire

LEMMA LeaveEnds ==
  ASSUME EndsInv, NEW where \in {"away", "exited"}, Leave(where)
  PROVE  Unmade' /\ EndsWithCause' /\ LastIsLast'
BY DEF EndsInv, TypeOK, On, Unmade, EndsWithCause, LastIsLast, Leave, ends, wire

LEMMA RunEnds ==
  ASSUME EndsInv, Run \/ PingTick \/ Connect
  PROVE  Unmade' /\ EndsWithCause' /\ LastIsLast'
<1> USE DEF EndsInv
<1>1. CASE TakeEvent
  <2>1. CASE Head(events[conn]) \in {"conflict", "streamError"}
    BY <1>1, <2>1, LeaveEnds DEF TakeEvent
  <2>2. CASE Head(events[conn]) \notin {"conflict", "streamError"}
    <3>1. /\ events' = [events EXCEPT ![conn] = Tail(@)] /\ conn \in Conns
          /\ UNCHANGED <<loop, conn, link, reader, writer, pump, cmds, task, ruined>>
      BY <1>1, <2>2 DEF TakeEvent, Free, ends, wire, TypeOK, Conns, NoConn
    <3>2. /\ events[conn] # <<>> /\ events[conn] \in Seq(Events)
          /\ Len(events'[conn]) = Len(events[conn]) - 1
          /\ DOMAIN events'[conn] = 1..(Len(events[conn]) - 1)
          /\ \A i \in DOMAIN events'[conn] : /\ events'[conn][i] = events[conn][i + 1]
                                             /\ i + 1 \in DOMAIN events[conn]
      BY <1>1, <3>1 DEF TakeEvent, TypeOK
    <3>3. LastIsLast'
      <4>1. ASSUME NEW c \in Conns, NEW i \in DOMAIN events'[c], events'[c][i] \in Last
            PROVE  /\ i = Len(events'[c]) /\ reader'[c] = "done"
                   /\ events'[c][i] # "error" => c \in ruined'
        <5>1. CASE c = conn
          BY <3>1, <3>2, <4>1, <5>1 DEF LastIsLast
        <5>2. CASE c # conn
          BY <3>1, <4>1, <5>2 DEF LastIsLast, TypeOK
        <5>. QED BY <5>1, <5>2
      <4>. QED BY <4>1 DEF LastIsLast
    <3>. QED BY <3>1, <3>3 DEF Unmade, EndsWithCause, On, TypeOK, Conns
  <2>. QED BY <2>1, <2>2
<1>2. CASE ChannelClosed
  BY <1>2, LeaveEnds DEF ChannelClosed
<1>3. ASSUME NEW kind \in Cmds, SendCmd(kind)
      PROVE  Unmade' /\ EndsWithCause' /\ LastIsLast'
  BY <1>3 DEF SendCmd, Chore, ends, wire, TypeOK, Unmade, EndsWithCause, LastIsLast, On, Conns
<1>4. ASSUME NEW kind \in Cmds, SendFails(kind)
      PROVE  Unmade' /\ EndsWithCause' /\ LastIsLast'
  <2>1. CASE kind = "ping"
    BY <1>4, <2>1, LeaveEnds DEF SendFails
  <2>2. CASE kind # "ping"
    BY <1>4, <2>2 DEF SendFails, Chore, ends, channels, wire, Unmade, EndsWithCause, LastIsLast, On
  <2>. QED BY <2>1, <2>2
<1>5. CASE AskLlm \/ Spawn \/ PingTick
  <2>1. UNCHANGED <<loop, conn, link, reader, writer, pump, events, cmds, ruined>>
    BY <1>5 DEF AskLlm, Spawn, PingTick, ends, channels, wire
  <2>2. \A t \in Tasks : task'[t] \in {task[t], conn}
    BY <1>5 DEF AskLlm, Spawn, PingTick, TypeOK
  <2>3. \A t \in Tasks : task'[t] <= conn
    <3>1. conn <= conn
      BY ConnectionAssumption DEF TypeOK
    <3>2. \A t \in Tasks : task[t] <= conn
      BY DEF Unmade
    <3>. QED BY <2>2, <3>1, <3>2
  <2>. QED BY <2>1, <2>3 DEF Unmade, EndsWithCause, LastIsLast, On
<1>6. CASE Connect
  <2>1. conn + 1 \in Conns /\ conn' = conn + 1 /\ loop' = "on" /\ conn \in Int
    BY <1>6, ConnectionAssumption DEF Connect, TypeOK, Conns
  <2>2. /\ link' = [link EXCEPT ![conn + 1] = "up"]
        /\ reader' = [reader EXCEPT ![conn + 1] = "reading"]
        /\ writer' = [writer EXCEPT ![conn + 1] = "receiving"]
        /\ pump' = [pump EXCEPT ![conn + 1] = "up"]
        /\ events' = [events EXCEPT ![conn + 1] = <<"connected">>]
        /\ UNCHANGED <<cmds, task, ruined>>
    BY <1>6, <2>1 DEF Connect, wire
  <2>3. Unmade'
    BY <2>1, <2>2 DEF Unmade, TypeOK, Conns
  <2>4. EndsWithCause'
    BY <2>1, <2>2 DEF EndsWithCause, TypeOK, On
  <2>5. LastIsLast'
    BY <2>1, <2>2 DEF LastIsLast, TypeOK, Last
  <2>. QED BY <2>3, <2>4, <2>5
<1>. QED BY <1>1, <1>2, <1>3, <1>4, <1>5, <1>6 DEF Run

LEMMA TaskEnds ==
  ASSUME EndsInv, NEW t \in Tasks, TaskSends(t)
  PROVE  Unmade' /\ EndsWithCause' /\ LastIsLast'
<1> USE DEF EndsInv, TypeOK
<1>1. task[t] \in Conns /\ task[t] <= conn /\ NoConn <= conn
  BY ConnectionAssumption DEF TaskSends, NoConn, Conns, Unmade
<1>2. Unmade'
  <2>1. \A c \in Conns : c > conn => cmds'[c] = cmds[c]
    BY <1>1 DEF TaskSends
  <2>. QED BY <1>1, <2>1 DEF TaskSends, Unmade, ends, wire
<1>. QED BY <1>2 DEF TaskSends, EndsWithCause, LastIsLast, On, ends, wire

LEMMA NextEnds == EndsInv /\ [Next]_vars => EndsInv'
<1> SUFFICES ASSUME EndsInv, [Next]_vars PROVE EndsInv'
  OBVIOUS
<1>1. TypeOK'
  BY NextTyped DEF EndsInv
<1>2. CASE UNCHANGED vars
  BY <1>1, <1>2 DEF EndsInv, Unmade, EndsWithCause, LastIsLast, On, vars, ends, channels, wire
<1>3. CASE Next
  BY <1>1, <1>2, <1>3, ReaderEnds, WriterEnds, NetworkEnds, RunEnds, TaskEnds
     DEF EndsInv, Next, Step, Rest
<1>. QED BY <1>2, <1>3

LEMMA EndsAlways == Spec => []EndsInv
<1>1. Init => EndsInv
  BY InitEnds
<1>. QED BY <1>1, NextEnds, PTL DEF Spec

----------------------------------------------------------------------------
\* Theorems

\* Connections, channels and tasks keep their types; in particular no channel ever holds
\* more than it has places, and a connection that run() has left has no events.
THEOREM ConnectionTypes == Spec => []TypeOK
<1>1. EndsInv => TypeOK
  BY DEF EndsInv
<1>. QED BY <1>1, EndsAlways, PTL

\* The three ways in which run() returns.
LEMMA LeavesBy ==
  ASSUME EndsInv, Next, Leaves
  PROVE  \/ TakeEvent /\ Head(events[conn]) \in {"conflict", "streamError"}
         \/ ChannelClosed
         \/ SendFails("ping")
<1>1. loop = "on" /\ loop' # loop
  BY DEF Leaves
<1>2. ~Rest /\ ~Connect /\ ~PingTick
  BY <1>1 DEF Rest, vars, Connect, PingTick
<1>3. \A c \in Conns : ~Step(c)
  BY <1>1 DEF Step, ReadStanza, ReadEnd, ReadTimeout, Reading, Deliver, TakeCmd, AllSent,
              WriteOk, WriteFails, PumpEnds, GoSilent, Recover, Break, Relink
<1>4. \A t \in Tasks : ~TaskSends(t)
  BY <1>1 DEF TaskSends
<1>5. Run
  BY <1>2, <1>3, <1>4 DEF Next
<1>6. ~AskLlm /\ ~Spawn /\ \A kind \in Cmds : ~SendCmd(kind)
  BY <1>1 DEF AskLlm, Spawn, SendCmd
<1>7. TakeEvent => Head(events[conn]) \in {"conflict", "streamError"}
  BY <1>1 DEF TakeEvent
<1>8. \A kind \in Cmds : SendFails(kind) => kind = "ping"
  BY <1>1 DEF SendFails
<1>. QED BY <1>5, <1>6, <1>7, <1>8 DEF Run

\* docs/XEPS.md:13, "a timeout alone does not disconnect": run() is left only when the
\* link is broken or the server has ended the stream.
THEOREM LeavesOnlyDeadHolds == Spec => LeavesOnlyDead
<1>1. ASSUME EndsInv, Next, Leaves
      PROVE  link[conn] = "broken" \/ conn \in ruined
  <2>0. loop = "on" /\ conn \in Conns /\ On(conn)
    BY <1>1 DEF Leaves, EndsInv, TypeOK, Conns, NoConn, On
  <2>1. CASE TakeEvent /\ Head(events[conn]) \in {"conflict", "streamError"}
    <3>1. 1 \in DOMAIN events[conn] /\ events[conn][1] \in {"conflict", "streamError"}
      BY <1>1, <2>0, <2>1 DEF TakeEvent, EndsInv, TypeOK
    <3>. QED BY <1>1, <2>0, <3>1 DEF EndsInv, LastIsLast, Last
  <2>2. CASE ChannelClosed
    BY <1>1, <2>0, <2>2 DEF ChannelClosed, NoSenders, EndsInv, EndsWithCause
  <2>3. CASE SendFails("ping")
    BY <1>1, <2>0, <2>3 DEF SendFails, EndsInv, EndsWithCause
  <2>. QED BY <1>1, <2>1, <2>2, <2>3, LeavesBy
<1>2. EndsInv /\ [Next]_vars => [Leaves => link[conn] = "broken" \/ conn \in ruined]_vars
  BY <1>1
<1>. QED BY <1>2, EndsAlways, PTL DEF Spec, LeavesOnlyDead

\* Events that were read are thrown away only when a write has failed.
THEOREM DropsOnlyAfterFailureHolds == Spec => DropsOnlyAfterFailure
<1>1. ASSUME EndsInv, Next, Leaves, Len(events[conn]) > 1
      PROVE  writer[conn] = "done"
  <2>0. conn \in Conns /\ events[conn] \in Seq(Events)
    BY <1>1 DEF Leaves, EndsInv, TypeOK, Conns, NoConn
  <2>1. ~(TakeEvent /\ Head(events[conn]) \in {"conflict", "streamError"})
    <3> SUFFICES ASSUME Head(events[conn]) \in {"conflict", "streamError"} PROVE FALSE
      OBVIOUS
    <3>1. 1 \in DOMAIN events[conn] /\ events[conn][1] \in Last
      BY <1>1, <2>0 DEF Last
    <3>. QED BY <1>1, <2>0, <3>1 DEF EndsInv, LastIsLast
  <2>2. ~ChannelClosed
    BY <1>1, <2>0 DEF ChannelClosed
  <2>. QED BY <1>1, <2>1, <2>2, LeavesBy DEF SendFails
<1>2. EndsInv /\ [Next]_vars =>
        [(Leaves /\ Len(events[conn]) > 1) => writer[conn] = "done"]_vars
  BY <1>1
<1>. QED BY <1>2, EndsAlways, PTL DEF Spec, DropsOnlyAfterFailure
=============================================================================
