------------------------- MODULE AgentRuntimeProofs -------------------------
(***************************************************************************)
(* Proofs about AgentRuntime, for any number of JIDs, tasks and messages:  *)
(* type correctness; the freshness of the context of 1:1 messages; answers *)
(* are recorded before they are sent; the memory implements the session    *)
(* log; one answer for a message; room replies addressed by what the loop  *)
(* has learned; a message is in its own prompt once; a reset cuts the      *)
(* context; the prompt ends with the message, and answers follow it.       *)
(***************************************************************************)
EXTENDS AgentRuntime, FiniteSetTheorems, TLAPS

----------------------------------------------------------------------------
\* Facts about the helpers

\* The recent history is a piece of the history, of bounded length.
LEMMA RecentType ==
  ASSUME NEW h \in Seq(Entry)
  PROVE  Recent(h) \in Seq(Entry) /\ Len(Recent(h)) <= MaxHistory
BY ConstantsAssumption DEF Recent

\* An accepted event is appended to the log, and nothing received before moves.
LEMMA ArriveExtends ==
  ASSUME LogOK, NEW ev \in Inputs, Arrive(ev)
  PROVE  /\ received' \in Seq(Arrival)
         /\ Len(received') = Len(received) + 1
         /\ Len(received') <= MaxMessages
         /\ \A n \in 1..Len(received) : received'[n] = received[n]
         /\ received'[Number] = [ev |-> ev, at |-> now]
         /\ Number \in Messages
<1>1. [ev |-> ev, at |-> now] \in Arrival
  BY DEF LogOK, Arrival
<1>2. Number \in Messages /\ Number = Len(received) + 1
  BY ConstantsAssumption DEF LogOK, Arrive, Number, Messages
<1>. QED BY <1>1, <1>2, ConstantsAssumption DEF LogOK, Arrive, Messages

\* What the handlers write are entries.
LEMMA EntryTypes ==
  ASSUME now \in Seconds, NEW n \in Messages
  PROVE  /\ \A ev \in Inputs : ev.what # "subscribe" => UserEntry(n, ev) \in Entry
         /\ \A what \in {"answer", "blank", "notice"} : AssistantEntry(n, what) \in Entry
<1>1. \A k \in 0..2 : <<n, k>> \in Id
  BY DEF Id
<1>2. ASSUME NEW ev \in Inputs, ev.what # "subscribe"
      PROVE  UserEntry(n, ev) \in Entry
  <2>1. ev.what \in {"text", "file", "reaction"} \cup Commands
    BY <1>2, ConstantsAssumption DEF Events, ChatEvents, RoomEvents
  <2>. QED BY <1>1, <2>1 DEF UserEntry, Entry, Commands
<1>3. ASSUME NEW what \in {"answer", "blank", "notice"}
      PROVE  AssistantEntry(n, what) \in Entry
  BY <1>1 DEF AssistantEntry, Entry
<1>. QED BY <1>2, <1>3

\* Every operation of the memory keeps its types.
LEMMA StoreType ==
  ASSUME MemoryOK, now \in Seconds, NEW j \in Jids, NEW e \in Entry, Store(j, e)
  PROVE  MemoryOK'
BY DEF MemoryOK, Store

LEMMA NewSessionType ==
  ASSUME MemoryOK, now \in Seconds, NEW j \in Jids, NewSession(j)
  PROVE  MemoryOK'
<1>1. CASE history[j] = <<>>
  BY <1>1 DEF MemoryOK, NewSession, memory
<1>2. CASE history[j] # <<>>
  <2>1. history[j] \in Seq(Entry) /\ <<>> \in Seq(Entry)
    BY DEF MemoryOK
  <2>2. [archives[j] EXCEPT ![now] = history[j]] \in [Seconds -> Seq(Entry)]
    BY <2>1 DEF MemoryOK
  <2>3. archives' = [archives EXCEPT ![j] = [archives[j] EXCEPT ![now] = history[j]]]
    BY <1>2 DEF NewSession
  <2>. QED BY <1>2, <2>1, <2>2, <2>3 DEF MemoryOK, NewSession
<1>. QED BY <1>1, <1>2

LEMMA ForgetType ==
  ASSUME MemoryOK, NEW j \in Jids, Forget(j)
  PROVE  MemoryOK'
BY DEF MemoryOK, Forget

LEMMA MemoryUnchanged ==
  ASSUME MemoryOK, UNCHANGED memory
  PROVE  MemoryOK'
BY DEF MemoryOK, memory

\* What is sent are commands.
LEMMA SendType ==
  ASSUME out \in [Messages -> Seq(Command)], NEW n \in Messages,
         NEW cmds \in Seq(Command), Send(n, cmds)
  PROVE  out' \in [Messages -> Seq(Command)]
BY DEF Send

LEMMA CommandTypes ==
  /\ Composing \in Command /\ Paused \in Command
  /\ Sorry \in Command /\ Accepted \in Command
  /\ \A n \in Messages, ev \in Inputs, what \in {"answer", "blank", "notice"} :
       Text(what, ReplyId(n, ev)) \in Command
BY DEF Composing, Paused, Sorry, Accepted, Text, ReplyId, Command, Id, NoId

----------------------------------------------------------------------------
\* Type correctness

LEMMA InputTypes ==
  ASSUME NEW ev \in Inputs
  PROVE  /\ ev.from \in Jids /\ ev.muc \in BOOLEAN
         /\ ev.what \in {"text", "file", "reaction", "subscribe"} \cup Commands
         /\ ev.muc => ev.what # "subscribe"
BY ConstantsAssumption DEF Events, ChatEvents, RoomEvents, Commands

\* What a busy process knows of the message it handles.
LEMMA BusyFacts ==
  ASSUME TypeOK, NEW p \in Proc, pc[p] # "idle"
  PROVE  /\ job[p] \in 1..Len(received) /\ job[p] \in Messages
         /\ Event(p) \in Inputs /\ Key(p) \in Jids
         /\ Event(p).what # "subscribe"
         /\ now \in Seconds
<1>1. job[p] \in 0..Len(received) /\ job[p] # 0
  BY DEF TypeOK, ProcOK, StageOK
<1>2. Len(received) \in Nat /\ Len(received) <= MaxMessages
  BY DEF TypeOK, LogOK
<1>3. job[p] \in 1..Len(received) /\ job[p] \in Messages
  BY <1>1, <1>2, ConstantsAssumption DEF Messages
<1>4. Event(p) \in Inputs
  <2>1. received \in Seq(Arrival)
    BY DEF TypeOK, LogOK
  <2>2. received[job[p]] \in Arrival
    BY <1>3, <2>1
  <2>. QED BY <2>2 DEF Event, Ev, Arrival
<1>5. Key(p) \in Jids
  BY <1>4, InputTypes DEF Key, JidOf, Event
<1>. QED BY <1>1, <1>3, <1>4, <1>5 DEF TypeOK, StageOK, LogOK

\* Receiving a message leaves the processes that are busy as they were ...
LEMMA ArriveIdleType ==
  ASSUME TypeOK, NEW ev \in Inputs, Arrive(ev), UNCHANGED procs
  PROVE  ProcOK' /\ StageOK'
<1>1. /\ \A n \in 1..Len(received) : received'[n] = received[n]
      /\ Len(received') = Len(received) + 1
  BY ArriveExtends DEF TypeOK
<1>2. Len(received) \in Nat /\ Len(received') = Len(received) + 1
  BY <1>1 DEF TypeOK, LogOK
<1>3. ProcOK'
  BY <1>2 DEF TypeOK, ProcOK, procs
<1>4. \A p \in Proc : job[p] # 0 => Event(p)' = Event(p)
  BY <1>1, <1>2 DEF TypeOK, ProcOK, Event, Ev, procs
<1>. QED BY <1>3, <1>4 DEF TypeOK, StageOK, procs

\* ... and gives it to a process that is idle.
LEMMA StartType ==
  ASSUME TypeOK, NEW ev \in Inputs, Arrive(ev), ev.what # "subscribe",
         NEW p \in Proc, NEW stage \in {"fetch", "command", "freshen"},
         stage = "command" => p = Main, stage = "fetch" => p # Main,
         Start(p, stage)
  PROVE  ProcOK' /\ StageOK'
<1>0. LogOK
  BY DEF TypeOK
<1>1. /\ \A n \in 1..Len(received) : received'[n] = received[n]
      /\ Len(received') = Len(received) + 1
      /\ received'[Number] = [ev |-> ev, at |-> now]
  BY <1>0, ArriveExtends
<1>2. Len(received) \in Nat /\ Len(received') = Len(received) + 1 /\ Number = Len(received) + 1
  BY <1>1 DEF TypeOK, LogOK, Number
<1>3. ProcOK'
  BY <1>2 DEF TypeOK, ProcOK, Start, Stages
<1>4. ASSUME NEW q \in Proc
      PROVE  /\ pc'[q] = "idle" <=> job'[q] = 0
             /\ pc'[q] = "command" => q = Main
             /\ pc'[q] = "fetch" => q # Main
             /\ pc'[q] \in {"storeUser", "storeAnswer", "reply"} => answer'[q] # "none"
             /\ job'[q] # 0 => Event(q)'.what # "subscribe"
             /\ Len(prompt'[q]) <= MaxHistory + 1
  <2>1. CASE q = p
    <3>1. pc'[q] = stage /\ job'[q] = Number /\ prompt' = prompt
      BY <2>1 DEF TypeOK, ProcOK, Start
    <3>2. Event(q)'.what # "subscribe"
      BY <3>1, <1>1 DEF Event, Ev
    <3>. QED BY <3>1, <3>2, <1>2, <2>1 DEF TypeOK, StageOK
  <2>2. CASE q # p
    <3>1. /\ pc'[q] = pc[q] /\ job'[q] = job[q]
          /\ prompt' = prompt /\ answer' = answer
      BY <2>2 DEF TypeOK, ProcOK, Start
    <3>2. job[q] # 0 => Event(q)' = Event(q)
      BY <3>1, <1>1, <1>2 DEF TypeOK, ProcOK, Event, Ev
    <3>. QED BY <3>1, <3>2 DEF TypeOK, StageOK
  <2>. QED BY <2>1, <2>2
<1>. QED BY <1>3, <1>4 DEF StageOK

LEMMA StoreArrivalType ==
  ASSUME TypeOK, NEW ev \in Inputs, Arrive(ev), ev.what # "subscribe", StoreArrival(ev)
  PROVE  MemoryOK'
<1>1. ev.from \in Jids /\ UserEntry(Number, ev) \in Entry /\ now \in Seconds
  BY InputTypes, EntryTypes, ArriveExtends DEF TypeOK, LogOK
<1>2. Store(ev.from, UserEntry(Number, ev)) \/ UNCHANGED memory
  BY DEF StoreArrival
<1>. QED BY <1>1, <1>2, StoreType, MemoryUnchanged DEF TypeOK

\* The log after an arrival, if what is sent are commands.
LEMMA ArriveLogType ==
  ASSUME TypeOK, NEW ev \in Inputs, Arrive(ev), UNCHANGED <<now, crashes>>,
         \/ UNCHANGED out
         \/ \E c \in Command : Send(Number, <<c>>)
  PROVE  LogOK'
<1>1. LogOK /\ Number \in Messages
  BY ArriveExtends DEF TypeOK
<1>2. out \in [Messages -> Seq(Command)]
  BY <1>1 DEF LogOK
<1>3. ASSUME NEW c \in Command, Send(Number, <<c>>)
      PROVE  out' \in [Messages -> Seq(Command)]
  <2>1. <<c>> \in Seq(Command)
    OBVIOUS
  <2>. QED BY <1>1, <1>2, <1>3, <2>1, SendType
<1>4. out' \in [Messages -> Seq(Command)]
  BY <1>2, <1>3
<1>5. /\ received' \in Seq(Arrival)
      /\ Len(received') <= MaxMessages
  BY <1>1, ArriveExtends
<1>. QED BY <1>1, <1>4, <1>5 DEF LogOK

LEMMA ReceiveType ==
  ASSUME TypeOK, Receive
  PROVE  TypeOK'
<1>. PICK ev \in Inputs :
       \/ OverhearRoom(ev) \/ AskStored(ev) \/ RoomCommand(ev)
       \/ ChatCommand(ev) \/ ChatText(ev) \/ ChatFile(ev) \/ Subscribe(ev)
  BY DEF Receive
<1>0. Main \in Proc /\ \A t \in Tasks : t \in Proc /\ t # Main
  BY ConstantsAssumption DEF Proc
<1>1. CASE OverhearRoom(ev)
  BY <1>1, InputTypes, ArriveIdleType, StoreArrivalType, ArriveLogType DEF OverhearRoom, TypeOK
<1>2. CASE AskStored(ev)
  <2>1. ev.what # "subscribe"
    BY <1>2, InputTypes DEF AskStored
  <2>. QED BY <1>0, <1>2, <2>1, StartType, StoreArrivalType, ArriveLogType, CommandTypes
           DEF AskStored, TypeOK
<1>3. CASE RoomCommand(ev)
  BY <1>0, <1>3, InputTypes, StartType, StoreArrivalType, ArriveLogType DEF RoomCommand, TypeOK
<1>4. CASE ChatCommand(ev)
  <2>1. ev.what # "subscribe"
    BY <1>4 DEF ChatCommand, Commands
  <2>. QED BY <1>0, <1>4, <2>1, StartType, MemoryUnchanged, ArriveLogType DEF ChatCommand, TypeOK
<1>5. CASE ChatText(ev)
  BY <1>0, <1>5, StartType, MemoryUnchanged, ArriveLogType, CommandTypes DEF ChatText, TypeOK
<1>6. CASE ChatFile(ev)
  BY <1>0, <1>6, StartType, MemoryUnchanged, ArriveLogType, CommandTypes DEF ChatFile, TypeOK
<1>7. CASE Subscribe(ev)
  BY <1>7, ArriveIdleType, MemoryUnchanged, ArriveLogType, CommandTypes DEF Subscribe, TypeOK
<1>. QED BY <1>1, <1>2, <1>3, <1>4, <1>5, <1>6, <1>7

\* A step of a handler from one stage to the next.
LEMMA StepType ==
  ASSUME TypeOK, NEW p \in Proc, NEW from \in Stages \ {"idle"},
         NEW to \in Stages \ {"idle", "command", "fetch"}, Goto(p, from, to),
         UNCHANGED <<received, job>>,
         prompt' \in [Proc -> Seq(Entry)], answer' \in [Proc -> {"none", "notice"} \cup Answers],
         \A q \in Proc \ {p} : prompt'[q] = prompt[q] /\ answer'[q] = answer[q],
         Len(prompt'[p]) <= MaxHistory + 1,
         to \in {"storeUser", "storeAnswer", "reply"} => answer'[p] # "none"
  PROVE  ProcOK' /\ StageOK'
<1>1. ProcOK'
  BY DEF TypeOK, ProcOK, Goto
<1>2. ASSUME NEW q \in Proc
      PROVE  /\ pc'[q] = "idle" <=> job'[q] = 0
             /\ pc'[q] = "command" => q = Main
             /\ pc'[q] = "fetch" => q # Main
             /\ pc'[q] \in {"storeUser", "storeAnswer", "reply"} => answer'[q] # "none"
             /\ job'[q] # 0 => Event(q)'.what # "subscribe"
             /\ Len(prompt'[q]) <= MaxHistory + 1
  <2>1. Event(q)' = Event(q)
    BY DEF Event, Ev
  <2>2. CASE q = p
    BY <2>1, <2>2 DEF TypeOK, ProcOK, StageOK, Goto
  <2>3. CASE q # p
    BY <2>1, <2>3 DEF TypeOK, ProcOK, StageOK, Goto
  <2>. QED BY <2>2, <2>3
<1>. QED BY <1>1, <1>2 DEF StageOK

LEMMA FinishType ==
  ASSUME TypeOK, NEW p \in Proc, NEW from \in {"reply", "apologise"},
         NEW cmds \in Seq(Command), Finish(p, from, cmds)
  PROVE  TypeOK'
<1>1. job[p] \in Messages
  BY BusyFacts DEF Finish, Goto
<1>2. LogOK'
  <2>1. out' \in [Messages -> Seq(Command)]
    BY <1>1, SendType DEF TypeOK, LogOK, Finish
  <2>. QED BY <2>1 DEF TypeOK, LogOK, Finish
<1>3. MemoryOK'
  BY MemoryUnchanged DEF TypeOK, Finish
<1>4. ProcOK'
  BY DEF TypeOK, LogOK, ProcOK, Stages, Finish, Goto
<1>5. \A q \in Proc : Len(prompt'[q]) <= MaxHistory + 1
  BY DEF TypeOK, StageOK, Finish
<1>6. ASSUME NEW q \in Proc
      PROVE  /\ pc'[q] = "idle" <=> job'[q] = 0
             /\ pc'[q] = "command" => q = Main
             /\ pc'[q] = "fetch" => q # Main
             /\ pc'[q] \in {"storeUser", "storeAnswer", "reply"} => answer'[q] # "none"
             /\ job'[q] # 0 => Event(q)'.what # "subscribe"
  <2>1. CASE q = p
    BY <2>1 DEF TypeOK, ProcOK, StageOK, Finish, Goto
  <2>2. CASE q # p
    <3>1. Event(q)' = Event(q) /\ job'[q] = job[q] /\ pc'[q] = pc[q] /\ answer'[q] = answer[q]
      BY <2>2 DEF TypeOK, ProcOK, Finish, Goto, Event, Ev
    <3>. QED BY <2>2, <3>1 DEF TypeOK, StageOK
  <2>. QED BY <2>1, <2>2
<1>7. StageOK'
  BY <1>5, <1>6 DEF StageOK
<1>. QED BY <1>2, <1>3, <1>4, <1>7 DEF TypeOK

\* What the LLM is shown.
LEMMA LoadType ==
  ASSUME TypeOK, NEW p \in Proc, Load(p)
  PROVE  /\ prompt' \in [Proc -> Seq(Entry)]
         /\ Len(prompt'[p]) <= MaxHistory + 1
         /\ \A q \in Proc \ {p} : prompt'[q] = prompt[q]
<1>1. /\ Key(p) \in Jids /\ job[p] \in Messages /\ now \in Seconds
      /\ Event(p) \in Inputs /\ Event(p).what # "subscribe"
  BY BusyFacts DEF Load, Goto
<1>2. UserEntry(job[p], Event(p)) \in Entry
  BY <1>1, EntryTypes
<1>3. Recent(history[Key(p)]) \in Seq(Entry) /\ Len(Recent(history[Key(p)])) <= MaxHistory
  BY <1>1, RecentType DEF TypeOK, MemoryOK
<1>. DEFINE own == IF StoredFirst(Event(p)) THEN <<>> ELSE <<UserEntry(job[p], Event(p))>>
<1>4. own \in Seq(Entry) /\ Len(own) <= 1
  BY <1>2
<1>5. prompt' = [prompt EXCEPT ![p] = Recent(history[Key(p)]) \o own]
  BY DEF Load, Event
<1>. HIDE DEF own
<1>6. /\ Recent(history[Key(p)]) \o own \in Seq(Entry)
      /\ Len(Recent(history[Key(p)]) \o own) <= MaxHistory + 1
  BY <1>3, <1>4, ConstantsAssumption
<1>. QED BY <1>5, <1>6 DEF TypeOK, ProcOK

LEMMA LogUnchanged ==
  ASSUME LogOK, UNCHANGED <<received, out, now, crashes>>
  PROVE  LogOK'
BY DEF LogOK

LEMMA HandleType ==
  ASSUME TypeOK, NEW p \in Proc, Handle(p)
  PROVE  TypeOK'
<1>1. pc[p] # "idle"
  BY DEF Handle, Download, RunCommand, Freshen, Load, LlmAnswers, LlmFails, StoreUser,
         StoreAnswer, StoreAnswerFails, DiskFails, Reply, Apologise, Finish, Goto
<1>2. /\ Key(p) \in Jids /\ job[p] \in Messages /\ now \in Seconds
      /\ Event(p) \in Inputs /\ Event(p).what # "subscribe"
  BY <1>1, BusyFacts
<1>3. /\ prompt \in [Proc -> Seq(Entry)] /\ answer \in [Proc -> {"none", "notice"} \cup Answers]
      /\ Len(prompt[p]) <= MaxHistory + 1
      /\ pc[p] \in {"storeUser", "storeAnswer", "reply"} => answer[p] # "none"
  BY DEF TypeOK, ProcOK, StageOK
<1>4. CASE Download(p)
  BY <1>3, <1>4, StepType, MemoryUnchanged, LogUnchanged DEF Download, TypeOK, Stages
<1>5. CASE RunCommand(p)
  <2>1. MemoryOK'
    BY <1>2, <1>5, NewSessionType, ForgetType, MemoryUnchanged DEF RunCommand, TypeOK
  <2>2. answer' \in [Proc -> {"none", "notice"} \cup Answers] /\ answer'[p] # "none"
        /\ \A q \in Proc \ {p} : answer'[q] = answer[q]
    BY <1>3, <1>5 DEF RunCommand
  <2>. QED BY <1>3, <1>5, <2>1, <2>2, StepType, LogUnchanged DEF RunCommand, TypeOK, Stages
<1>6. CASE Freshen(p)
  <2>1. MemoryOK'
    BY <1>2, <1>6, NewSessionType, MemoryUnchanged DEF Freshen, CheckFreshness, TypeOK
  <2>. QED BY <1>3, <1>6, <2>1, StepType, LogUnchanged DEF Freshen, TypeOK, Stages
<1>7. CASE Load(p)
  BY <1>3, <1>7, LoadType, StepType, MemoryUnchanged, LogUnchanged DEF Load, TypeOK, Stages
<1>8. CASE LlmAnswers(p)
  <2>1. /\ answer' \in [Proc -> {"none", "notice"} \cup Answers] /\ answer'[p] # "none"
        /\ \A q \in Proc \ {p} : answer'[q] = answer[q]
    BY <1>3, <1>8, ConstantsAssumption DEF LlmAnswers
  <2>2. /\ prompt' \in [Proc -> Seq(Entry)] /\ Len(prompt'[p]) <= MaxHistory + 1
        /\ \A q \in Proc \ {p} : prompt'[q] = prompt[q]
    BY <1>3, <1>8, ConstantsAssumption DEF LlmAnswers
  <2>. QED BY <1>8, <2>1, <2>2, StepType, MemoryUnchanged, LogUnchanged DEF LlmAnswers, TypeOK,
      Stages
<1>9. CASE LlmFails(p)
  <2>1. /\ prompt' \in [Proc -> Seq(Entry)] /\ Len(prompt'[p]) <= MaxHistory + 1
        /\ \A q \in Proc \ {p} : prompt'[q] = prompt[q]
    BY <1>3, <1>9, ConstantsAssumption DEF LlmFails
  <2>. QED BY <1>3, <1>9, <2>1, StepType, MemoryUnchanged, LogUnchanged DEF LlmFails, TypeOK, Stages
<1>10. CASE StoreUser(p)
  <2>1. MemoryOK'
    BY <1>2, <1>10, EntryTypes, StoreType DEF StoreUser, TypeOK
  <2>. QED BY <1>3, <1>10, <2>1, StepType, LogUnchanged DEF StoreUser, TypeOK, Stages, Goto
<1>11. CASE StoreAnswer(p)
  <2>1. answer[p] \in {"answer", "blank", "notice"}
    BY <1>3, <1>11, ConstantsAssumption DEF StoreAnswer, Goto
  <2>2. MemoryOK'
    BY <1>2, <1>11, <2>1, EntryTypes, StoreType DEF StoreAnswer, TypeOK
  <2>. QED BY <1>3, <1>11, <2>2, StepType, LogUnchanged DEF StoreAnswer, TypeOK, Stages, Goto
<1>12. CASE StoreAnswerFails(p)
  BY <1>3, <1>12, StepType, MemoryUnchanged, LogUnchanged DEF StoreAnswerFails, TypeOK, Stages, Goto
<1>13. CASE DiskFails(p)
  <2>1. MemoryOK'
    BY <1>2, <1>13, ForgetType, MemoryUnchanged DEF DiskFails, TypeOK
  <2>. QED BY <1>3, <1>13, <2>1, StepType, LogUnchanged DEF DiskFails, TypeOK, Stages
<1>14. CASE Reply(p)
  <2>1. answer[p] \in {"answer", "blank", "notice"}
    BY <1>3, <1>14, ConstantsAssumption DEF Reply, Finish, Goto
  <2>2. <<Text(answer[p], ReplyId(job[p], Event(p)))>> \in Seq(Command)
    BY <1>2, <2>1, CommandTypes
  <2>. QED BY <1>14, <2>2, FinishType DEF Reply
<1>15. CASE Apologise(p)
  <2>1. <<Paused>> \in Seq(Command) /\ <<Sorry>> \in Seq(Command)
        /\ <<Paused, Sorry>> \in Seq(Command)
    BY CommandTypes
  <2>. QED BY <1>15, <2>1, FinishType DEF Apologise
<1>. QED BY <1>4, <1>5, <1>6, <1>7, <1>8, <1>9, <1>10, <1>11, <1>12, <1>13, <1>14, <1>15 DEF Handle

LEMMA CrashType ==
  ASSUME TypeOK, Crash
  PROVE  TypeOK'
<1>1. MemoryOK'
  BY MemoryUnchanged DEF TypeOK, Crash
<1>2. LogOK'
  BY ConstantsAssumption DEF TypeOK, LogOK, Crash
<1>3. ProcOK' /\ StageOK'
  BY ConstantsAssumption DEF TypeOK, LogOK, ProcOK, StageOK, Stages, Crash
<1>. QED BY <1>1, <1>2, <1>3 DEF TypeOK

LEMMA TypeInit == Init => TypeOK
<1>. SUFFICES ASSUME Init PROVE TypeOK
  OBVIOUS
<1>1. MemoryOK
  BY ConstantsAssumption DEF Init, MemoryOK, Seconds
<1>2. LogOK
  BY ConstantsAssumption DEF Init, LogOK, Seconds
<1>3. ProcOK /\ StageOK
  BY ConstantsAssumption DEF Init, ProcOK, StageOK, Stages
<1>. QED BY <1>1, <1>2, <1>3 DEF TypeOK

LEMMA TypeStep == TypeOK /\ [Next]_vars => TypeOK'
<1>. SUFFICES ASSUME TypeOK, [Next]_vars PROVE TypeOK'
  OBVIOUS
<1>1. CASE Tick
  <2>1. LogOK'
    BY <1>1, ConstantsAssumption DEF TypeOK, LogOK, Tick, Seconds
  <2>2. ProcOK' /\ StageOK'
    BY <1>1 DEF TypeOK, ProcOK, StageOK, Tick, procs, Event, Ev
  <2>. QED BY <1>1, <2>1, <2>2, MemoryUnchanged DEF TypeOK, Tick
<1>2. CASE UNCHANGED vars
  BY <1>2 DEF vars, memory, procs, TypeOK, MemoryOK, LogOK, ProcOK, StageOK, Event, Ev
<1>. QED BY <1>1, <1>2, ReceiveType, HandleType, CrashType DEF Next, Rest

\* Every variable has its type in every reachable state, whatever the number of
\* JIDs, tasks, messages and crashes (AgentRuntime::run and its handlers).
THEOREM TypeCorrect == Spec => []TypeOK
BY TypeInit, TypeStep, PTL DEF Spec

----------------------------------------------------------------------------
\* The context of a 1:1 message is fresh

\* What a step does to the log: it keeps it, or an event arrives.
LEMMA LogStep ==
  ASSUME TypeOK, [Next]_vars
  PROVE  \/ received' = received
         \/ /\ Len(received') = Len(received) + 1
            /\ \A n \in 1..Len(received) : received'[n] = received[n]
<1>1. CASE Receive
  <2>. PICK ev \in Inputs : Arrive(ev)
    BY <1>1 DEF Receive, OverhearRoom, AskStored, RoomCommand, ChatCommand, ChatText, ChatFile,
        Subscribe
  <2>. QED BY ArriveExtends DEF TypeOK
<1>2. ASSUME NEW p \in Proc, Handle(p)
      PROVE  received' = received
  BY <1>2 DEF Handle, Download, RunCommand, Freshen, Load, LlmAnswers, LlmFails, StoreUser,
              StoreAnswer, StoreAnswerFails, DiskFails, Reply, Apologise, Finish
<1>3. CASE Tick \/ Crash \/ Rest \/ UNCHANGED vars
  BY <1>3 DEF Tick, Crash, Rest, vars
<1>. QED BY <1>1, <1>2, <1>3 DEF Next

\* NewSession, Forget and the freshness check write no entry: they leave the
\* session of each JID alone or empty it.
Emptied == /\ mtime' = mtime /\ stored' = stored
           /\ \A k \in Jids : history'[k] = history[k] \/ history'[k] = <<>>

LEMMA MemoryEmptied ==
  ASSUME MemoryOK, NEW j \in Jids,
         NewSession(j) \/ Forget(j) \/ CheckFreshness(j) \/ UNCHANGED memory
  PROVE  Emptied
BY DEF MemoryOK, NewSession, Forget, CheckFreshness, memory, Emptied

\* A message is not idle-preceded once an entry of its JID that is not its own
\* has been written since it arrived; and more entries never make it so.
LEMMA IdleShrinks ==
  ASSUME NEW n \in 1..Len(received), received'[n] = received[n], stored \subseteq stored',
         \A e \in stored : received'[e.of] = received[e.of],
         IdleBefore(n)'
  PROVE  IdleBefore(n)
BY DEF IdleBefore, JidOf, Ev

\* The log only grows, and what is new in it arrived by now.
LogGrows ==
  /\ Len(received) \in Nat /\ Len(received') \in Nat /\ Len(received) <= Len(received')
  /\ \A n \in 1..Len(received) : received'[n] = received[n]
  /\ \A n \in 1..Len(received') :
       n > Len(received) => received'[n].at \in Int /\ received'[n].at <= now

LEMMA ArriveGrows ==
  ASSUME TypeOK, NEW ev \in Inputs, Arrive(ev)
  PROVE  LogGrows
<1>1. /\ Len(received') = Len(received) + 1
      /\ \A n \in 1..Len(received) : received'[n] = received[n]
      /\ received'[Number] = [ev |-> ev, at |-> now]
  BY ArriveExtends DEF TypeOK
<1>2. Len(received) \in Nat /\ now \in Int
  BY DEF TypeOK, LogOK, Seconds
<1>3. received'[Number].at \in Int /\ received'[Number].at <= now
  BY <1>1, <1>2
<1>. QED BY <1>1, <1>2, <1>3 DEF LogGrows, Number

LEMMA Times ==
  ASSUME TypeOK
  PROVE  /\ \A n \in 1..Len(received) : received[n].at \in Int
         /\ \A e \in stored : e.at \in Int /\ e.of \in Nat /\ e.of # 0
         /\ \A j \in Jids : mtime[j] \in Int
         /\ now \in Int
<1>1. ASSUME NEW n \in 1..Len(received)
      PROVE  received[n].at \in Int
  <2>1. received \in Seq(Arrival)
    BY DEF TypeOK, LogOK
  <2>2. received[n] \in Arrival
    BY <2>1
  <2>. QED BY <2>2 DEF Arrival, Seconds
<1>. QED BY <1>1 DEF TypeOK, MemoryOK, LogOK, Entry, Messages, Seconds

LEMMA TimelineEmptied ==
  ASSUME TypeOK, Timeline, Emptied, LogGrows, now' \in Int, now <= now'
  PROVE  Timeline'
<1>1. \A n \in 1..Len(received') : received'[n].at <= now'
  <2>. SUFFICES ASSUME NEW n \in 1..Len(received') PROVE received'[n].at <= now'
    OBVIOUS
  <2>1. CASE n <= Len(received)
    <3>1. n \in 1..Len(received)
      BY <2>1 DEF LogGrows
    <3>. QED BY <3>1, Times DEF LogGrows, Timeline
  <2>2. CASE n > Len(received)
    BY <2>2, Times DEF LogGrows
  <2>. QED BY <2>1, <2>2 DEF LogGrows
<1>2. \A e \in stored' : e.of <= Len(received') /\ e.at <= now'
  BY Times DEF Timeline, Emptied, LogGrows
<1>3. \A e \in stored : JidOf(e.of)' = JidOf(e.of)
  BY Times DEF Timeline, LogGrows, JidOf, Ev
<1>4. \A k \in Jids : history'[k] # <<>> => \E e \in stored' : JidOf(e.of)' = k /\ e.at = mtime'[k]
  BY <1>3 DEF Timeline, Emptied
<1>. QED BY <1>1, <1>2, <1>4 DEF Timeline

LEMMA TimelineStore ==
  ASSUME TypeOK, Timeline, NEW j \in Jids, NEW e \in Entry, Store(j, e), e.at = now, now' = now,
         LogGrows, e.of \in 1..Len(received'), JidOf(e.of)' = j
  PROVE  Timeline'
<1>1. Len(received) \in Nat /\ Len(received') \in Nat /\ now \in Int
  BY Times DEF LogGrows
<1>2. \A f \in stored : f.of \in 1..Len(received)
  BY <1>1, Times DEF Timeline
<1>3. \A n \in 1..Len(received') : received'[n].at <= now
  BY <1>1 DEF Timeline, LogGrows
<1>4. \A f \in stored' : f.of <= Len(received') /\ f.at <= now
  BY <1>1, <1>2 DEF Timeline, Store, LogGrows
<1>5. ASSUME NEW k \in Jids, history'[k] # <<>>
      PROVE  \E f \in stored' : JidOf(f.of)' = k /\ f.at = mtime'[k]
  <2>1. CASE k = j
    <3>1. mtime'[j] = now /\ e \in stored'
      BY DEF Store, TypeOK, MemoryOK
    <3>. QED BY <2>1, <3>1
  <2>2. CASE k # j
    <3>1. history'[k] = history[k] /\ mtime'[k] = mtime[k]
      BY <2>2 DEF Store, TypeOK, MemoryOK
    <3>2. PICK f \in stored : JidOf(f.of) = k /\ f.at = mtime[k]
      BY <1>5, <3>1 DEF Timeline
    <3>3. f \in stored' /\ JidOf(f.of)' = JidOf(f.of)
      BY <1>2 DEF Store, JidOf, Ev, LogGrows
    <3>. QED BY <3>1, <3>2, <3>3
  <2>. QED BY <2>1, <2>2
<1>. QED BY <1>3, <1>4, <1>5 DEF Timeline

\* Cleared and FreshContext of one process
ClearedAt(p) ==
  (pc[p] = "load" /\ ~StoredFirst(Event(p)) /\ IdleBefore(job[p])) => history[Key(p)] = <<>>

FreshAt(p) == (job[p] # 0 /\ ~StoredFirst(Event(p))) => FreshFor(p)

\* Some process stores an entry that is not about message n.
StoresOther(n) ==
  \E j \in Jids, e \in Entry : /\ Store(j, e) /\ e.at = now /\ JidOf(e.of)' = j
                              /\ e.of \in 1..Len(received') /\ e.of # n

\* A step of the others keeps a process's context fresh: what they empty stays
\* fresh, and what they store makes the JID no longer idle.
LEMMA OthersKeepFresh ==
  ASSUME FreshInv, LogGrows, NEW q \in Proc,
         pc'[q] = pc[q], job'[q] = job[q], prompt'[q] = prompt[q],
         Emptied \/ StoresOther(job[q])
  PROVE  ClearedAt(q)' /\ FreshAt(q)'
<1>. SUFFICES ASSUME job[q] # 0, pc[q] # "idle" PROVE ClearedAt(q)' /\ FreshAt(q)'
  BY DEF FreshInv, TypeOK, StageOK, ClearedAt, FreshAt
<1>1. job[q] \in 1..Len(received) /\ Key(q) \in Jids
  BY BusyFacts DEF FreshInv
<1>2. Event(q)' = Event(q) /\ Key(q)' = Key(q) /\ received'[job[q]] = received[job[q]]
  BY <1>1 DEF LogGrows, Event, Key, JidOf, Ev
<1>3. ClearedAt(q) /\ FreshAt(q)
  BY DEF FreshInv, Cleared, FreshContext, ClearedAt, FreshAt
<1>4. stored \subseteq stored'
  BY DEF Emptied, StoresOther, Store
<1>5. \A e \in stored : e.of \in 1..Len(received)
  BY Times DEF FreshInv, Timeline, LogGrows
<1>6. \A e \in stored : received'[e.of] = received[e.of]
  BY <1>5 DEF LogGrows
<1>7. IdleBefore(job[q])' => IdleBefore(job[q])
  BY <1>1, <1>2, <1>4, <1>6, IdleShrinks
<1>8. IdleBefore(job[q])' => history'[Key(q)] = history[Key(q)] \/ history'[Key(q)] = <<>>
  <2>1. CASE Emptied
    BY <2>1, <1>1 DEF Emptied
  <2>2. CASE StoresOther(job[q])
    <3>. SUFFICES ASSUME IdleBefore(job[q])' PROVE history'[Key(q)] = history[Key(q)]
      OBVIOUS
    <3>1. PICK j \in Jids, e \in Entry : /\ Store(j, e) /\ e.at = now /\ JidOf(e.of)' = j
                                         /\ e.of # job[q]
      BY <2>2 DEF StoresOther
    <3>2. received'[job[q]].at <= now /\ received'[job[q]].at \in Int /\ now \in Int
      BY <1>1, <1>2, Times DEF FreshInv, Timeline
    <3>3. e \in stored'
      BY <3>1 DEF Store
    <3>4. JidOf(e.of)' # JidOf(job[q])'
      BY <3>1, <3>2, <3>3, ConstantsAssumption DEF IdleBefore
    <3>5. j # Key(q)
      BY <3>1, <3>4, <1>2 DEF Key
    <3>. QED BY <3>1, <3>5, <1>1 DEF Store, FreshInv, TypeOK, MemoryOK
  <2>. QED BY <2>1, <2>2
<1>9. ClearedAt(q)'
  BY <1>2, <1>3, <1>7, <1>8 DEF ClearedAt
<1>10. FreshAt(q)'
  BY <1>2, <1>3, <1>7 DEF FreshAt, FreshFor
<1>. QED BY <1>9, <1>10

\* A process that is about to start, or is past the LLM, owes nothing.
LEMMA ElsewhereFresh ==
  ASSUME NEW p \in Proc, pc'[p] \notin {"load", "llm"}
  PROVE  ClearedAt(p)' /\ FreshAt(p)'
BY DEF ClearedAt, FreshAt, FreshFor

\* The owner of a message and what it has stored, for one process
OwnAt(p) ==
  /\ pc[p] \in {"fetch", "storeUser"} => ~StoredFirst(Event(p))
  /\ (pc[p] \in {"fetch", "freshen", "load", "llm", "storeUser"} /\ ~StoredFirst(Event(p)))
       => \A e \in stored : e.of # job[p]

LEMMA OthersKeepOwn ==
  ASSUME FreshInv, LogGrows, NEW q \in Proc, pc'[q] = pc[q], job'[q] = job[q],
         Emptied \/ StoresOther(job[q])
  PROVE  OwnAt(q)'
<1>. SUFFICES ASSUME job[q] # 0, pc[q] # "idle" PROVE OwnAt(q)'
  BY DEF FreshInv, TypeOK, StageOK, OwnAt
<1>1. job[q] \in 1..Len(received)
  BY BusyFacts DEF FreshInv
<1>2. Event(q)' = Event(q)
  BY <1>1 DEF LogGrows, Event, Ev
<1>3. OwnAt(q)
  BY DEF FreshInv, Ownership, OwnAt
<1>4. \A e \in stored' : e \in stored \/ e.of # job[q]
  BY DEF Emptied, StoresOther, Store
<1>. QED BY <1>2, <1>3, <1>4 DEF OwnAt

LEMMA OwnershipFrom ==
  ASSUME \A p, q \in Proc : (job'[p] # 0 /\ job'[p] = job'[q]) => p = q,
         \A p \in Proc : OwnAt(p)' /\ ClearedAt(p)' /\ FreshAt(p)'
  PROVE  Ownership' /\ Cleared' /\ FreshContext'
BY DEF Ownership, OwnAt, Cleared, ClearedAt, FreshContext, FreshAt

\* The memory after an arrival
LEMMA ArriveMemory ==
  ASSUME FreshInv, NEW ev \in Inputs, Arrive(ev), UNCHANGED now,
         \/ ev.what # "subscribe" /\ StoreArrival(ev)
         \/ UNCHANGED memory
  PROVE  Timeline' /\ \A q \in Proc : Emptied \/ StoresOther(job[q])
<1>1. LogGrows /\ now \in Int /\ Number = Len(received) + 1
  BY ArriveGrows, Times DEF FreshInv, Number
<1>2. CASE UNCHANGED memory
  BY <1>1, <1>2, TimelineEmptied DEF FreshInv, memory, Emptied
<1>3. CASE ev.what # "subscribe" /\ Store(ev.from, UserEntry(Number, ev))
  <2>1. /\ ev.from \in Jids /\ Number \in Messages /\ now \in Seconds
        /\ Len(received') = Number /\ received'[Number] = [ev |-> ev, at |-> now]
    BY <1>1, InputTypes, ArriveExtends DEF FreshInv, TypeOK, LogOK
  <2>2. UserEntry(Number, ev) \in Entry
    BY <1>3, <2>1, EntryTypes
  <2>3. PICK e \in Entry : e = UserEntry(Number, ev)
    BY <2>2
  <2>4. e.at = now /\ e.of = Number
    BY <2>3 DEF UserEntry
  <2>5. e.of \in 1..Len(received') /\ JidOf(e.of)' = ev.from
    BY <1>1, <2>1, <2>4 DEF JidOf, Ev, LogGrows
  <2>6. Store(ev.from, e)
    BY <1>3, <2>3
  <2>7. Timeline'
    BY <1>1, <2>1, <2>4, <2>5, <2>6, TimelineStore DEF FreshInv
  <2>8. \A q \in Proc : e.of # job[q]
    BY <1>1, <2>4 DEF FreshInv, TypeOK, ProcOK, LogGrows
  <2>. QED BY <2>1, <2>4, <2>5, <2>6, <2>7, <2>8 DEF StoresOther
<1>. QED BY <1>2, <1>3 DEF StoreArrival

LEMMA ArriveIdleFresh ==
  ASSUME FreshInv, NEW ev \in Inputs, Arrive(ev), UNCHANGED <<now, procs>>,
         \/ ev.what # "subscribe" /\ StoreArrival(ev)
         \/ UNCHANGED memory
  PROVE  Ownership' /\ Timeline' /\ Cleared' /\ FreshContext'
<1>1. LogGrows
  BY ArriveGrows DEF FreshInv
<1>2. \A p \in Proc : OwnAt(p)' /\ ClearedAt(p)' /\ FreshAt(p)'
  BY <1>1, ArriveMemory, OthersKeepFresh, OthersKeepOwn DEF procs
<1>. QED BY <1>2, ArriveMemory, OwnershipFrom DEF FreshInv, Ownership, procs

LEMMA StartFresh ==
  ASSUME FreshInv, NEW ev \in Inputs, Arrive(ev), UNCHANGED now,
         NEW p \in Proc, NEW stage \in {"fetch", "command", "freshen"},
         pc[p] = "idle", Start(p, stage), stage = "fetch" => ~StoredFirst(ev),
         \/ ev.what # "subscribe" /\ StoreArrival(ev) /\ StoredFirst(ev)
         \/ UNCHANGED memory
  PROVE  Ownership' /\ Timeline' /\ Cleared' /\ FreshContext'
<1>1. LogGrows /\ Number = Len(received) + 1 /\ received'[Number] = [ev |-> ev, at |-> now]
  BY ArriveGrows, ArriveExtends DEF FreshInv, TypeOK, Number
<1>2. /\ pc'[p] = stage /\ job'[p] = Number /\ prompt' = prompt
      /\ \A q \in Proc \ {p} : pc'[q] = pc[q] /\ job'[q] = job[q]
  BY DEF FreshInv, TypeOK, ProcOK, Start
<1>3. \A q \in Proc : job[q] \in 0..Len(received) /\ Len(received) \in Nat
  BY <1>1 DEF FreshInv, TypeOK, ProcOK, LogGrows
<1>4. \A q \in Proc \ {p} : OwnAt(q)' /\ ClearedAt(q)' /\ FreshAt(q)'
  BY <1>1, <1>2, ArriveMemory, OthersKeepFresh, OthersKeepOwn
<1>5. ClearedAt(p)' /\ FreshAt(p)'
  BY <1>2, ElsewhereFresh
<1>6. OwnAt(p)'
  <2>1. Event(p)' = ev
    BY <1>1, <1>2 DEF Event, Ev
  <2>2. ~StoredFirst(ev) => stored' = stored
    BY DEF memory
  <2>3. \A e \in stored : e.of # Number
    BY <1>1, <1>3, Times DEF FreshInv, Timeline
  <2>4. StoredFirst(Event(p))' = StoredFirst(ev)
    BY <2>1 DEF StoredFirst
  <2>. QED BY <1>2, <2>1, <2>2, <2>3, <2>4 DEF OwnAt
<1>7. \A q, r \in Proc : (job'[q] # 0 /\ job'[q] = job'[r]) => q = r
  BY <1>1, <1>2, <1>3 DEF FreshInv, Ownership
<1>. QED BY <1>4, <1>5, <1>6, <1>7, ArriveMemory, OwnershipFrom

LEMMA ReceiveFresh ==
  ASSUME FreshInv, Receive
  PROVE  Ownership' /\ Timeline' /\ Cleared' /\ FreshContext'
<1>. PICK ev \in Inputs :
       \/ OverhearRoom(ev) \/ AskStored(ev) \/ RoomCommand(ev)
       \/ ChatCommand(ev) \/ ChatText(ev) \/ ChatFile(ev) \/ Subscribe(ev)
  BY DEF Receive
<1>0. Main \in Proc /\ (Arrive(ev) => pc[Main] = "idle") /\ \A t \in Tasks : t \in Proc
  BY DEF Proc, Arrive
<1>1. CASE OverhearRoom(ev)
  BY <1>1, InputTypes, ArriveIdleFresh DEF OverhearRoom
<1>2. CASE AskStored(ev)
  <2>1. ev.what # "subscribe" /\ StoredFirst(ev)
    BY <1>2, InputTypes DEF AskStored, StoredFirst
  <2>. QED BY <1>0, <1>2, <2>1, StartFresh DEF AskStored
<1>3. CASE RoomCommand(ev)
  BY <1>0, <1>3, InputTypes, StartFresh DEF RoomCommand, StoredFirst
<1>4. CASE ChatCommand(ev)
  BY <1>0, <1>4, StartFresh DEF ChatCommand
<1>5. CASE ChatText(ev)
  BY <1>0, <1>5, StartFresh DEF ChatText
<1>6. CASE ChatFile(ev)
  BY <1>0, <1>6, StartFresh DEF ChatFile, StoredFirst
<1>7. CASE Subscribe(ev)
  BY <1>7, ArriveIdleFresh DEF Subscribe
<1>. QED BY <1>1, <1>2, <1>3, <1>4, <1>5, <1>6, <1>7

\* A handler stores its own message or answer.
LEMMA OwnStores ==
  ASSUME FreshInv, NEW p \in Proc, pc[p] # "idle", NEW e \in Entry, e.of = job[p], e.at = now,
         Store(Key(p), e), UNCHANGED <<received, now, job, prompt>>,
         NEW to \in {"storeAnswer", "reply"}, pc' = [pc EXCEPT ![p] = to]
  PROVE  Ownership' /\ Timeline' /\ Cleared' /\ FreshContext'
<1>1. job[p] \in 1..Len(received) /\ Key(p) \in Jids
  BY BusyFacts DEF FreshInv
<1>2. LogGrows
  BY DEF FreshInv, TypeOK, LogOK, LogGrows
<1>3. JidOf(e.of)' = Key(p) /\ e.of \in 1..Len(received')
  BY <1>1 DEF Key, JidOf, Ev
<1>4. Timeline'
  BY <1>1, <1>2, <1>3, TimelineStore DEF FreshInv
<1>5. \A q \in Proc \ {p} : e.of # job[q] /\ pc'[q] = pc[q]
  BY <1>1, <1>2 DEF FreshInv, TypeOK, ProcOK, Ownership
<1>6. \A q \in Proc \ {p} : OwnAt(q)' /\ ClearedAt(q)' /\ FreshAt(q)'
  BY <1>1, <1>2, <1>3, <1>5, OthersKeepFresh, OthersKeepOwn DEF StoresOther
<1>7. pc'[p] = to
  BY DEF FreshInv, TypeOK, ProcOK
<1>8. OwnAt(p)' /\ ClearedAt(p)' /\ FreshAt(p)'
  BY <1>7, ElsewhereFresh DEF OwnAt
<1>. QED BY <1>4, <1>6, <1>8, OwnershipFrom DEF FreshInv, Ownership

\* A handler goes on without storing anything.
LEMMA OwnGoesOn ==
  ASSUME FreshInv, NEW p \in Proc, Emptied, UNCHANGED <<received, now>>,
         job'[p] = job[p] \/ job'[p] = 0,
         \A q \in Proc \ {p} : pc'[q] = pc[q] /\ job'[q] = job[q] /\ prompt'[q] = prompt[q],
         pc'[p] \in {"fetch", "freshen", "load", "llm", "storeUser"} =>
           pc[p] \in {"fetch", "freshen", "load", "llm"} /\ job'[p] = job[p],
         pc'[p] \in {"fetch", "storeUser"} => ~StoredFirst(Event(p)),
         ClearedAt(p)', FreshAt(p)'
  PROVE  Ownership' /\ Timeline' /\ Cleared' /\ FreshContext'
<1>1. LogGrows /\ now \in Int /\ now <= now'
  BY Times DEF FreshInv, TypeOK, LogOK, LogGrows
<1>2. Timeline'
  BY <1>1, TimelineEmptied DEF FreshInv
<1>3. \A q \in Proc \ {p} : OwnAt(q)' /\ ClearedAt(q)' /\ FreshAt(q)'
  BY <1>1, OthersKeepFresh, OthersKeepOwn
<1>4. OwnAt(p)'
  <2>1. job'[p] = job[p] => Event(p)' = Event(p)
    BY DEF Event, Ev
  <2>. QED BY <2>1 DEF FreshInv, Ownership, OwnAt, Emptied
<1>5. \A q, r \in Proc : (job'[q] # 0 /\ job'[q] = job'[r]) => q = r
  BY DEF FreshInv, Ownership
<1>. QED BY <1>2, <1>3, <1>4, <1>5, OwnershipFrom

LEMMA UnchangedEmptied == UNCHANGED memory => Emptied
BY DEF memory, Emptied

\* After the freshness check, the session of an idle JID is empty.
LEMMA FreshenClears ==
  ASSUME FreshInv, NEW p \in Proc, Freshen(p)
  PROVE  ClearedAt(p)'
<1>. SUFFICES ASSUME ~StoredFirst(Event(p))', IdleBefore(job[p])'
              PROVE  (history[Key(p)] = <<>>)'
  BY DEF ClearedAt
<1>1. /\ pc[p] = "freshen" /\ received' = received /\ job' = job /\ stored' = stored
      /\ CheckFreshness(Key(p))
  BY DEF Freshen, CheckFreshness, NewSession, memory, Goto
<1>2. job[p] \in 1..Len(received) /\ Key(p) \in Jids
  BY <1>1, BusyFacts DEF FreshInv
<1>3. Key(p)' = Key(p) /\ Event(p)' = Event(p)
  BY <1>1 DEF Key, JidOf, Event, Ev
<1>4. ~StoredFirst(Event(p)) /\ IdleBefore(job[p])
  BY <1>1, <1>3 DEF IdleBefore, JidOf, Ev, StoredFirst, Event
<1>5. CASE history[Key(p)] = <<>>
  BY <1>1, <1>3, <1>5 DEF CheckFreshness, NewSession, memory
<1>6. CASE history[Key(p)] # <<>>
  <2>1. PICK e \in stored : JidOf(e.of) = Key(p) /\ e.at = mtime[Key(p)]
    BY <1>2, <1>6 DEF FreshInv, Timeline
  <2>2. e.of # job[p]
    BY <1>1, <1>4 DEF FreshInv, Ownership
  <2>3. IdleTimeout # 0 /\ received[job[p]].at - mtime[Key(p)] > IdleTimeout
    BY <1>4, <2>1, <2>2 DEF IdleBefore, Key
  <2>4. received[job[p]].at <= now
    BY <1>2 DEF FreshInv, Timeline
  <2>5. Stale(Key(p))
    BY <1>2, <2>3, <2>4, Times, ConstantsAssumption DEF Stale, FreshInv
  <2>6. history' = [history EXCEPT ![Key(p)] = <<>>]
    BY <1>1, <1>6, <2>5 DEF CheckFreshness, NewSession
  <2>. QED BY <1>2, <1>3, <2>6 DEF FreshInv, TypeOK, MemoryOK
<1>. QED BY <1>5, <1>6

\* What is loaded from it is the message alone.
LEMMA LoadFresh ==
  ASSUME FreshInv, NEW p \in Proc, Load(p)
  PROVE  FreshAt(p)'
<1>. SUFFICES ASSUME ~StoredFirst(Event(p))', IdleBefore(job[p])'
              PROVE  Len(prompt'[p]) = 1
  BY DEF FreshAt, FreshFor
<1>1. /\ pc[p] = "load" /\ received' = received /\ job' = job /\ stored' = stored
  BY DEF Load, memory, Goto
<1>2. ~StoredFirst(Event(p)) /\ IdleBefore(job[p])
  BY <1>1 DEF IdleBefore, JidOf, Ev, StoredFirst, Event
<1>3. history[Key(p)] = <<>>
  BY <1>1, <1>2 DEF FreshInv, Cleared
<1>4. Recent(<<>>) = <<>>
  BY ConstantsAssumption DEF Recent
<1>5. prompt'[p] = <<>> \o <<UserEntry(job[p], Event(p))>>
  BY <1>2, <1>3, <1>4 DEF Load, Event, FreshInv, TypeOK, ProcOK
<1>. QED BY <1>5

LEMMA HandleFresh ==
  ASSUME FreshInv, NEW p \in Proc, Handle(p)
  PROVE  Ownership' /\ Timeline' /\ Cleared' /\ FreshContext'
<1>1. /\ pc[p] # "idle" /\ UNCHANGED <<received, now>>
  BY DEF Handle, Download, RunCommand, Freshen, Load, LlmAnswers, LlmFails, StoreUser,
         StoreAnswer, StoreAnswerFails, DiskFails, Reply, Apologise, Finish, Goto
<1>2. /\ Key(p) \in Jids /\ job[p] \in Messages /\ now \in Seconds
      /\ Event(p) \in Inputs /\ Event(p).what # "subscribe"
  BY <1>1, BusyFacts DEF FreshInv
<1>3. MemoryOK /\ pc \in [Proc -> Stages] /\ job \in [Proc -> 0..Len(received)]
      /\ prompt \in [Proc -> Seq(Entry)] /\ answer \in [Proc -> {"none", "notice"} \cup Answers]
  BY DEF FreshInv, TypeOK, ProcOK
<1>4. CASE Download(p)
  BY <1>1, <1>3, <1>4, UnchangedEmptied, OwnGoesOn, ElsewhereFresh DEF Download, Goto
<1>5. CASE RunCommand(p)
  <2>1. Emptied
    BY <1>2, <1>3, <1>5, MemoryEmptied DEF RunCommand
  <2>. QED BY <1>1, <1>3, <1>5, <2>1, OwnGoesOn, ElsewhereFresh DEF RunCommand, Goto
<1>6. CASE Freshen(p)
  <2>1. Emptied
    BY <1>2, <1>3, <1>6, MemoryEmptied DEF Freshen
  <2>2. FreshAt(p)'
    BY <1>3, <1>6 DEF FreshAt, FreshFor, Freshen, Goto
  <2>. QED BY <1>1, <1>3, <1>6, <2>1, <2>2, FreshenClears, OwnGoesOn DEF Freshen, Goto
<1>7. CASE Load(p)
  <2>1. ClearedAt(p)'
    BY <1>3, <1>7 DEF ClearedAt, Load, Goto
  <2>2. FreshAt(p)'
    BY <1>7, LoadFresh
  <2>. QED BY <1>1, <1>3, <1>7, <2>1, <2>2, UnchangedEmptied, OwnGoesOn DEF Load, Goto
<1>8. CASE LlmAnswers(p)
  BY <1>1, <1>3, <1>8, UnchangedEmptied, OwnGoesOn, ElsewhereFresh DEF LlmAnswers, Goto
<1>9. CASE LlmFails(p)
  BY <1>1, <1>3, <1>9, UnchangedEmptied, OwnGoesOn, ElsewhereFresh DEF LlmFails, Goto
<1>10. CASE StoreUser(p)
  <2>1. UserEntry(job[p], Event(p)) \in Entry
    BY <1>2, EntryTypes
  <2>2. PICK e \in Entry : e = UserEntry(job[p], Event(p))
    BY <2>1
  <2>3. e.of = job[p] /\ e.at = now
    BY <2>2 DEF UserEntry
  <2>. QED BY <1>1, <1>10, <2>2, <2>3, OwnStores DEF StoreUser, Goto
<1>11. CASE StoreAnswer(p)
  <2>1. answer[p] \in {"answer", "blank", "notice"}
    BY <1>3, <1>11, ConstantsAssumption DEF StoreAnswer, Goto, FreshInv, TypeOK, StageOK
  <2>2. PICK e \in Entry : e = AssistantEntry(job[p], answer[p])
    BY <1>2, <2>1, EntryTypes
  <2>3. e.of = job[p] /\ e.at = now
    BY <2>2 DEF AssistantEntry
  <2>. QED BY <1>1, <1>11, <2>2, <2>3, OwnStores DEF StoreAnswer, Goto
<1>12. CASE StoreAnswerFails(p)
  BY <1>1, <1>3, <1>12, UnchangedEmptied, OwnGoesOn, ElsewhereFresh DEF StoreAnswerFails, Goto
<1>13. CASE DiskFails(p)
  <2>1. Emptied
    BY <1>2, <1>3, <1>13, MemoryEmptied DEF DiskFails
  <2>. QED BY <1>1, <1>3, <1>13, <2>1, OwnGoesOn, ElsewhereFresh DEF DiskFails, Goto
<1>14. CASE Reply(p)
  BY <1>1, <1>3, <1>14, UnchangedEmptied, OwnGoesOn, ElsewhereFresh DEF Reply, Finish, Goto
<1>15. CASE Apologise(p)
  <2>. DEFINE cmds == IF Event(p).what = "reaction" THEN <<Paused>>
                      ELSE IF ~Event(p).muc /\ Event(p).what \in Commands THEN <<Sorry>>
                      ELSE <<Paused, Sorry>>
  <2>1. Finish(p, "apologise", cmds)
    BY <1>15 DEF Apologise
  <2>. HIDE DEF cmds
  <2>. QED BY <1>1, <1>3, <2>1, UnchangedEmptied, OwnGoesOn, ElsewhereFresh DEF Finish, Goto
<1>. QED BY <1>4, <1>5, <1>6, <1>7, <1>8, <1>9, <1>10, <1>11, <1>12, <1>13, <1>14, <1>15 DEF Handle

\* A crash, and the passing of time
LEMMA OthersFresh ==
  ASSUME FreshInv, Tick \/ Crash \/ UNCHANGED vars
  PROVE  Ownership' /\ Timeline' /\ Cleared' /\ FreshContext'
<1>1. Emptied /\ received' = received /\ now \in Int /\ now' \in Int /\ now <= now' /\ LogGrows
  BY Times DEF FreshInv, TypeOK, LogOK, LogGrows, Tick, Crash, vars, memory, Emptied
<1>2. Timeline'
  BY <1>1, TimelineEmptied DEF FreshInv
<1>3. CASE Crash
  BY <1>2, <1>3, ElsewhereFresh, OwnershipFrom DEF Crash, OwnAt
<1>4. CASE Tick \/ UNCHANGED vars
  <2>1. UNCHANGED procs
    BY <1>4 DEF Tick, vars
  <2>. QED BY <1>1, <1>2, <2>1, OthersKeepFresh, OthersKeepOwn, OwnershipFrom
           DEF FreshInv, Ownership, procs
<1>. QED BY <1>3, <1>4

LEMMA FreshInit == Init => FreshInv
<1>. SUFFICES ASSUME Init PROVE FreshInv
  OBVIOUS
<1>1. Ownership /\ Timeline /\ Cleared /\ FreshContext
  BY DEF Init, Ownership, Timeline, Cleared, FreshContext, FreshFor
<1>. QED BY <1>1, TypeInit DEF FreshInv

LEMMA FreshStep == FreshInv /\ [Next]_vars => FreshInv'
<1>. SUFFICES ASSUME FreshInv, [Next]_vars PROVE FreshInv'
  OBVIOUS
<1>1. TypeOK'
  BY TypeStep DEF FreshInv
<1>2. Ownership' /\ Timeline' /\ Cleared' /\ FreshContext'
  BY ReceiveFresh, HandleFresh, OthersFresh DEF Next, Rest
<1>. QED BY <1>1, <1>2 DEF FreshInv

\* A 1:1 text or file that ends a silence longer than the idle timeout is put
\* to the LLM without the conversation before the silence, whatever tasks and
\* commands run beside it (memory.rs, check_session_freshness, called by
\* handle_message and handle_message_with_attachments before get_history).
THEOREM FreshContextHolds == Spec => []FreshContext
<1>1. Spec => []FreshInv
  BY FreshInit, FreshStep, PTL DEF Spec
<1>2. FreshInv => FreshContext
  BY DEF FreshInv
<1>. QED BY <1>1, <1>2, PTL

----------------------------------------------------------------------------
\* Answers are recorded before they are sent

RecordedAt(p) ==
  ~(pc[p] = "idle") /\ ~StoredFirst(Event(p)) =>
    /\ pc[p] = "storeAnswer" => WroteUser(job[p])
    /\ (pc[p] = "reply" /\ answer[p] # "notice") =>
         WroteUser(job[p]) /\ WroteAnswer(job[p], answer[p])

\* The answers sent for message n are recorded.
AnsweredAt(n) ==
  \A i \in DOMAIN out[n] :
    (~StoredFirst(Ev(n)) /\ out[n][i].body \in {"answer", "blank"})
      => WroteAnswer(n, out[n][i].body) /\ WroteUser(n)

LEMMA ByParts ==
  /\ Recorded <=> \A p \in Proc : RecordedAt(p)
  /\ AnswerRecordedFirst <=> \A n \in 1..Len(received) : AnsweredAt(n)
BY DEF Recorded, RecordedAt, AnswerRecordedFirst, AnsweredAt

LEMMA ByPartsAfter ==
  /\ (\A p \in Proc : RecordedAt(p)') => Recorded'
  /\ (\A n \in 1..Len(received') : AnsweredAt(n)') => AnswerRecordedFirst'
<1>1. (\A p \in Proc : RecordedAt(p)') => Recorded'
  BY DEF Recorded, RecordedAt
<1>2. (\A n \in 1..Len(received') : AnsweredAt(n)') => AnswerRecordedFirst'
  BY DEF AnswerRecordedFirst, AnsweredAt
<1>. QED BY <1>1, <1>2

\* Nothing written is taken back from the record, so other processes and the
\* messages that nothing is sent for keep what they have.
LEMMA OthersRecorded ==
  ASSUME RecordInv, NEW q \in Proc, pc'[q] = pc[q], job'[q] = job[q], answer'[q] = answer[q],
         stored \subseteq stored', \A n \in 1..Len(received) : received'[n] = received[n]
  PROVE  RecordedAt(q)'
<1>. SUFFICES ASSUME pc[q] # "idle" PROVE RecordedAt(q)'
  BY DEF RecordedAt
<1>1. job[q] \in 1..Len(received)
  BY BusyFacts DEF RecordInv
<1>2. Event(q)' = Event(q)
  BY <1>1 DEF Event, Ev
<1>3. RecordedAt(q)
  BY ByParts DEF RecordInv
<1>. QED BY <1>2, <1>3 DEF RecordedAt, WroteUser, WroteAnswer, StoredFirst

LEMMA OthersAnswered ==
  ASSUME RecordInv, NEW n \in 1..Len(received), received'[n] = received[n], out'[n] = out[n],
         stored \subseteq stored'
  PROVE  AnsweredAt(n)'
<1>1. AnsweredAt(n)
  BY ByParts DEF RecordInv
<1>2. Ev(n)' = Ev(n)
  BY DEF Ev
<1>. QED BY <1>1, <1>2 DEF AnsweredAt, WroteUser, WroteAnswer, StoredFirst

\* Commands appended to what has been sent are all the new there is to check.
LEMMA SendAnswered ==
  ASSUME RecordInv, NEW n \in 1..Len(received), n \in Messages, received'[n] = received[n],
         stored \subseteq stored', NEW cmds \in Seq(Command), Send(n, cmds),
         \A i \in DOMAIN cmds :
           (~StoredFirst(Ev(n)) /\ cmds[i].body \in {"answer", "blank"})
             => WroteAnswer(n, cmds[i].body) /\ WroteUser(n)
  PROVE  AnsweredAt(n)'
<1>1. AnsweredAt(n) /\ out[n] \in Seq(Command)
  BY ByParts DEF RecordInv, TypeOK, LogOK
<1>2. out'[n] = out[n] \o cmds
  BY DEF Send, RecordInv, TypeOK, LogOK
<1>3. Ev(n)' = Ev(n)
  BY DEF Ev
<1>4. ASSUME NEW i \in DOMAIN (out[n] \o cmds),
             ~StoredFirst(Ev(n)), (out[n] \o cmds)[i].body \in {"answer", "blank"}
      PROVE  WroteAnswer(n, (out[n] \o cmds)[i].body) /\ WroteUser(n)
  <2>1. CASE i <= Len(out[n])
    BY <1>1, <1>4, <2>1 DEF AnsweredAt
  <2>2. CASE i > Len(out[n])
    <3>1. i - Len(out[n]) \in DOMAIN cmds /\ (out[n] \o cmds)[i] = cmds[i - Len(out[n])]
      BY <1>1, <1>4, <2>2
    <3>. QED BY <1>4, <3>1
  <2>. QED BY <1>1, <2>1, <2>2
<1>. QED BY <1>2, <1>3, <1>4 DEF AnsweredAt, WroteUser, WroteAnswer, StoredFirst

\* What one or two commands are made of.
LEMMA OneCommand ==
  ASSUME NEW c \in Command
  PROVE  <<c>> \in Seq(Command) /\ DOMAIN <<c>> = {1} /\ <<c>>[1] = c
OBVIOUS

LEMMA TwoCommands ==
  ASSUME NEW c \in Command, NEW d \in Command
  PROVE  /\ <<c, d>> \in Seq(Command) /\ DOMAIN <<c, d>> = {1, 2}
         /\ <<c, d>>[1] = c /\ <<c, d>>[2] = d
OBVIOUS

LEMMA NoAnswers ==
  /\ Composing.body = "" /\ Accepted.body = "" /\ Paused.body = "" /\ Sorry.body = "sorry"
BY DEF Composing, Accepted, Paused, Sorry

LEMMA ReceiveRecorded ==
  ASSUME RecordInv, Receive
  PROVE  Recorded' /\ OutOfNothing' /\ AnswerRecordedFirst'
<1>. PICK ev \in Inputs :
       \/ OverhearRoom(ev) \/ AskStored(ev) \/ RoomCommand(ev)
       \/ ChatCommand(ev) \/ ChatText(ev) \/ ChatFile(ev) \/ Subscribe(ev)
  BY DEF Receive
<1>1. Arrive(ev) /\ stored \subseteq stored'
  BY DEF OverhearRoom, AskStored, RoomCommand, ChatCommand, ChatText, ChatFile, Subscribe,
         StoreArrival, Store, memory
<1>2. /\ Number = Len(received) + 1 /\ Len(received) \in Nat /\ Number \in Messages
      /\ \A n \in 1..Len(received) : received'[n] = received[n]
      /\ Len(received') = Number
  <2>1. LogOK
    BY DEF RecordInv, TypeOK
  <2>2. Len(received) \in Nat
    BY <2>1 DEF LogOK
  <2>. QED BY <1>1, <2>1, <2>2, ArriveExtends DEF Number
<1>3. \/ UNCHANGED procs
      \/ \E p \in Proc, stage \in {"fetch", "command", "freshen"} : Start(p, stage)
  BY DEF OverhearRoom, AskStored, RoomCommand, ChatCommand, ChatText, ChatFile, Subscribe, Proc
<1>4. UNCHANGED out \/ Send(Number, <<Composing>>) \/ Send(Number, <<Accepted>>)
  BY DEF OverhearRoom, AskStored, RoomCommand, ChatCommand, ChatText, ChatFile, Subscribe
<1>5. \A q \in Proc : RecordedAt(q)'
  <2>1. CASE UNCHANGED procs
    BY <1>1, <1>2, <2>1, OthersRecorded DEF procs
  <2>2. ASSUME NEW p \in Proc, NEW stage \in {"fetch", "command", "freshen"}, Start(p, stage)
        PROVE  \A q \in Proc : RecordedAt(q)'
    <3>1. pc'[p] = stage
          /\ \A q \in Proc \ {p} : pc'[q] = pc[q] /\ job'[q] = job[q] /\ answer'[q] = answer[q]
      BY <2>2 DEF RecordInv, TypeOK, ProcOK, Start
    <3>2. RecordedAt(p)'
      BY <3>1 DEF RecordedAt
    <3>3. \A q \in Proc \ {p} : RecordedAt(q)'
      BY <1>1, <1>2, <3>1, OthersRecorded
    <3>. QED BY <3>2, <3>3
  <2>. QED BY <1>3, <2>1, <2>2
<1>6. /\ out'[Number] \in {<<>>, <<Composing>>, <<Accepted>>}
      /\ \A n \in Messages \ {Number} : out'[n] = out[n]
  <2>1. out[Number] = <<>> /\ out \in [Messages -> Seq(Command)]
    BY <1>2 DEF RecordInv, OutOfNothing, TypeOK, LogOK
  <2>2. <<>> \o <<Composing>> = <<Composing>> /\ <<>> \o <<Accepted>> = <<Accepted>>
    OBVIOUS
  <2>. QED BY <1>2, <1>4, <2>1, <2>2 DEF Send
<1>7. OutOfNothing'
  BY <1>2, <1>6 DEF RecordInv, OutOfNothing, Messages
<1>8. \A n \in 1..Len(received) : AnsweredAt(n)'
  <2>1. \A n \in 1..Len(received) : n \in Messages \ {Number}
    BY <1>2, ConstantsAssumption DEF Messages
  <2>. QED BY <1>1, <1>2, <1>6, <2>1, OthersAnswered
<1>9. ASSUME NEW n \in {Number}
      PROVE  AnsweredAt(n)'
  <2>1. \A i \in DOMAIN out'[n] : out'[n][i].body = ""
    <3>1. PICK s \in {<<>>, <<Composing>>, <<Accepted>>} : out'[n] = s
      BY <1>6, <1>9
    <3>2. \A i \in DOMAIN s : s[i].body = ""
      <4>1. ASSUME s = <<>> PROVE DOMAIN s = {}
        BY <4>1
      <4>2. CASE s = <<Composing>>
        BY <4>2, CommandTypes, OneCommand, NoAnswers
      <4>3. CASE s = <<Accepted>>
        BY <4>3, CommandTypes, OneCommand, NoAnswers
      <4>. QED BY <4>1, <4>2, <4>3
    <3>. QED BY <3>1, <3>2
  <2>. QED BY <2>1 DEF AnsweredAt
<1>10. AnswerRecordedFirst'
  BY <1>2, <1>8, <1>9, ByPartsAfter
<1>. QED BY <1>5, <1>7, <1>10, ByPartsAfter

\* A step of a handler that sends nothing.
LEMMA QuietRecorded ==
  ASSUME RecordInv, NEW p \in Proc, UNCHANGED <<received, out>>, stored \subseteq stored',
         \A q \in Proc \ {p} : pc'[q] = pc[q] /\ job'[q] = job[q] /\ answer'[q] = answer[q],
         RecordedAt(p)'
  PROVE  Recorded' /\ OutOfNothing' /\ AnswerRecordedFirst'
<1>1. \A q \in Proc : RecordedAt(q)'
  BY OthersRecorded
<1>2. \A n \in 1..Len(received) : AnsweredAt(n)'
  BY OthersAnswered
<1>3. AnswerRecordedFirst'
  BY <1>2, ByPartsAfter
<1>. QED BY <1>1, <1>3, ByPartsAfter DEF RecordInv, OutOfNothing

\* The last step of a handler.
LEMMA FinishRecorded ==
  ASSUME RecordInv, NEW p \in Proc, NEW from \in {"reply", "apologise"},
         NEW cmds \in Seq(Command), Finish(p, from, cmds),
         \A i \in DOMAIN cmds :
           (~StoredFirst(Event(p)) /\ cmds[i].body \in {"answer", "blank"})
             => WroteAnswer(job[p], cmds[i].body) /\ WroteUser(job[p])
  PROVE  Recorded' /\ OutOfNothing' /\ AnswerRecordedFirst'
<1>1. pc[p] # "idle" /\ received' = received /\ stored' = stored
  BY DEF Finish, Goto, memory
<1>2. job[p] \in 1..Len(received) /\ job[p] \in Messages
  BY <1>1, BusyFacts DEF RecordInv
<1>3. /\ pc'[p] = "idle"
      /\ \A q \in Proc \ {p} : pc'[q] = pc[q] /\ job'[q] = job[q] /\ answer'[q] = answer[q]
  BY DEF RecordInv, TypeOK, ProcOK, Finish, Goto
<1>4. \A q \in Proc : RecordedAt(q)'
  BY <1>1, <1>3, OthersRecorded DEF RecordedAt
<1>5. \A n \in Messages \ {job[p]} : out'[n] = out[n]
  BY <1>2 DEF RecordInv, TypeOK, LogOK, Finish, Send
<1>6. OutOfNothing'
  BY <1>1, <1>2, <1>5 DEF RecordInv, OutOfNothing, Messages
<1>7. PICK m \in 1..Len(received) : m = job[p]
  BY <1>2
<1>8. AnsweredAt(m)'
  BY <1>1, <1>2, <1>7, SendAnswered DEF Finish, Event
<1>9. ASSUME NEW n \in 1..Len(received), n # m
      PROVE  AnsweredAt(n)'
  <2>1. n \in Messages
    BY ConstantsAssumption DEF Messages, RecordInv, TypeOK, LogOK
  <2>. QED BY <1>1, <1>5, <1>7, <1>9, <2>1, OthersAnswered
<1>10. AnswerRecordedFirst'
  BY <1>1, <1>7, <1>8, <1>9, ByPartsAfter
<1>. QED BY <1>4, <1>6, <1>10, ByPartsAfter

LEMMA HandleRecorded ==
  ASSUME RecordInv, NEW p \in Proc, Handle(p)
  PROVE  Recorded' /\ OutOfNothing' /\ AnswerRecordedFirst'
<1>1. pc[p] # "idle" /\ received' = received
  BY DEF Handle, Download, RunCommand, Freshen, Load, LlmAnswers, LlmFails, StoreUser,
         StoreAnswer, StoreAnswerFails, DiskFails, Reply, Apologise, Finish, Goto
<1>2. ProcOK /\ job[p] \in Messages /\ job[p] \in 1..Len(received) /\ RecordedAt(p)
  BY <1>1, BusyFacts, ByParts DEF RecordInv, TypeOK
<1>3. job'[p] = job[p] => Event(p)' = Event(p)
  BY <1>1, <1>2 DEF Event, Ev
\* every step but the last leaves the process at a stage with nothing to show
<1>4. ASSUME NEW to \in Stages, pc' = [pc EXCEPT ![p] = to], UNCHANGED <<job, out>>,
             UNCHANGED answer \/
                 (\E a \in Answers \cup {"notice"} : answer' = [answer EXCEPT ![p] = a]),
             stored \subseteq stored', RecordedAt(p)'
      PROVE  Recorded' /\ OutOfNothing' /\ AnswerRecordedFirst'
  <2>1. \A q \in Proc \ {p} : pc'[q] = pc[q] /\ job'[q] = job[q] /\ answer'[q] = answer[q]
    BY <1>2, <1>4 DEF ProcOK
  <2>. QED BY <1>1, <1>4, <2>1, QuietRecorded
<1>5. ASSUME NEW to \in Stages, pc' = [pc EXCEPT ![p] = to], UNCHANGED <<job, answer, out>>,
             stored \subseteq stored', to \notin {"storeAnswer", "reply"}
      PROVE  Recorded' /\ OutOfNothing' /\ AnswerRecordedFirst'
  <2>1. pc'[p] = to
    BY <1>2, <1>5 DEF ProcOK
  <2>2. RecordedAt(p)'
    BY <1>5, <2>1 DEF RecordedAt
  <2>. QED BY <1>4, <1>5, <2>2
<1>6. CASE Download(p)
  BY <1>5, <1>6 DEF Download, Goto, memory, Stages
<1>7. CASE RunCommand(p)
  <2>1. stored' = stored
    BY <1>7 DEF RunCommand, NewSession, Forget, memory
  <2>2. pc'[p] = (IF Event(p).muc THEN "storeAnswer" ELSE "reply") /\ answer'[p] = "notice"
    BY <1>2, <1>7 DEF RunCommand, Goto, ProcOK
  <2>3. RecordedAt(p)'
    BY <1>3, <1>7, <2>2 DEF RecordedAt, RunCommand, StoredFirst
  <2>. QED BY <1>4, <1>7, <2>1, <2>3 DEF RunCommand, Goto, Stages
<1>8. CASE Freshen(p)
  <2>1. stored' = stored
    BY <1>8 DEF Freshen, CheckFreshness, NewSession, memory
  <2>. QED BY <1>5, <1>8, <2>1 DEF Freshen, Goto, Stages
<1>9. CASE Load(p)
  BY <1>5, <1>9 DEF Load, Goto, memory, Stages
<1>10. CASE LlmAnswers(p)
  <2>1. pc'[p] = IF StoredFirst(Event(p)) THEN "storeAnswer" ELSE "storeUser"
    BY <1>2, <1>10 DEF LlmAnswers, Goto, ProcOK
  <2>2. job' = job
    BY <1>10 DEF LlmAnswers
  <2>3. RecordedAt(p)'
    BY <1>3, <2>1, <2>2 DEF RecordedAt, StoredFirst
  <2>. QED BY <1>4, <1>10, <2>2, <2>3 DEF LlmAnswers, Goto, memory, Stages
<1>11. CASE LlmFails(p)
  BY <1>5, <1>11 DEF LlmFails, Goto, memory, Stages
<1>12. CASE StoreUser(p)
  <2>1. stored' = stored \cup {UserEntry(job[p], Event(p))} /\ job' = job
    BY <1>12 DEF StoreUser, Store
  <2>2. WroteUser(job[p])'
    <3>1. /\ UserEntry(job[p], Event(p)).of = job[p]
          /\ UserEntry(job[p], Event(p)).role = "user"
      BY DEF UserEntry
    <3>. QED BY <2>1, <3>1 DEF WroteUser
  <2>3. pc'[p] = "storeAnswer"
    BY <1>2, <1>12 DEF StoreUser, Goto, ProcOK
  <2>4. RecordedAt(p)'
    BY <2>1, <2>2, <2>3 DEF RecordedAt, WroteUser
  <2>. QED BY <1>4, <1>12, <2>1, <2>4 DEF StoreUser, Goto, Stages
<1>13. CASE StoreAnswer(p)
  <2>1. /\ stored' = stored \cup {AssistantEntry(job[p], answer[p])}
        /\ UNCHANGED <<job, answer>>
    BY <1>13 DEF StoreAnswer, Store
  <2>2. WroteAnswer(job[p], answer[p])'
    <3>1. /\ AssistantEntry(job[p], answer[p]).of = job[p]
          /\ AssistantEntry(job[p], answer[p]).role = "assistant"
          /\ AssistantEntry(job[p], answer[p]).what = answer[p]
      BY DEF AssistantEntry
    <3>. QED BY <2>1, <3>1 DEF WroteAnswer
  <2>3. ~StoredFirst(Event(p)) => WroteUser(job[p])
    BY <1>1, <1>2, <1>13 DEF RecordedAt, StoreAnswer, Goto
  <2>4. pc'[p] = "reply"
    BY <1>2, <1>13 DEF StoreAnswer, Goto, ProcOK
  <2>5. RecordedAt(p)'
    BY <1>3, <2>1, <2>2, <2>3, <2>4 DEF RecordedAt, WroteUser, WroteAnswer, StoredFirst
  <2>. QED BY <1>4, <1>13, <2>1, <2>5 DEF StoreAnswer, Goto, Stages
<1>14. CASE StoreAnswerFails(p)
  <2>1. pc'[p] = IF StoredFirst(Event(p)) THEN "reply" ELSE "apologise"
    BY <1>2, <1>14 DEF StoreAnswerFails, Goto, ProcOK
  <2>2. RecordedAt(p)'
    BY <1>3, <1>14, <2>1 DEF RecordedAt, StoreAnswerFails, StoredFirst
  <2>. QED BY <1>4, <1>14, <2>2 DEF StoreAnswerFails, Goto, memory, Stages
<1>15. CASE DiskFails(p)
  <2>1. stored' = stored
    BY <1>15 DEF DiskFails, Forget, memory
  <2>. QED BY <1>5, <1>15, <2>1 DEF DiskFails, Goto, Stages
<1>16. CASE Reply(p)
  <2>. DEFINE c == Text(answer[p], ReplyId(job[p], Event(p)))
  <2>1. pc[p] = "reply" /\ Finish(p, "reply", <<c>>)
    BY <1>16 DEF Reply, Finish, Goto
  <2>2. c.body = answer[p]
    BY DEF Text
  <2>3. answer[p] \in {"answer", "blank", "notice"}
    BY <2>1, ConstantsAssumption DEF RecordInv, TypeOK, StageOK, ProcOK
  <2>4. c \in Command
    BY <1>2, <2>3, CommandTypes, BusyFacts, <1>1 DEF RecordInv
  <2>5. (~StoredFirst(Event(p)) /\ c.body \in {"answer", "blank"})
          => WroteAnswer(job[p], c.body) /\ WroteUser(job[p])
    BY <1>1, <1>2, <2>1, <2>2 DEF RecordedAt
  <2>. HIDE DEF c
  <2>6. \A i \in DOMAIN <<c>> :
          (~StoredFirst(Event(p)) /\ <<c>>[i].body \in {"answer", "blank"})
            => WroteAnswer(job[p], <<c>>[i].body) /\ WroteUser(job[p])
    BY <2>4, <2>5, OneCommand
  <2>7. <<c>> \in Seq(Command)
    BY <2>4, OneCommand
  <2>. QED BY <2>1, <2>6, <2>7, FinishRecorded
<1>17. CASE Apologise(p)
  <2>. DEFINE cmds == IF Event(p).what = "reaction" THEN <<Paused>>
                      ELSE IF ~Event(p).muc /\ Event(p).what \in Commands THEN <<Sorry>>
                      ELSE <<Paused, Sorry>>
  <2>1. Finish(p, "apologise", cmds)
    BY <1>17 DEF Apologise
  <2>2. cmds \in Seq(Command) /\ \A i \in DOMAIN cmds : cmds[i].body \notin {"answer", "blank"}
    <3>1. CASE cmds = <<Paused>>
      BY <3>1, CommandTypes, OneCommand, NoAnswers
    <3>2. CASE cmds = <<Sorry>>
      BY <3>2, CommandTypes, OneCommand, NoAnswers
    <3>3. CASE cmds = <<Paused, Sorry>>
      <4>1. /\ <<Paused, Sorry>> \in Seq(Command) /\ DOMAIN <<Paused, Sorry>> = {1, 2}
            /\ <<Paused, Sorry>>[1] = Paused /\ <<Paused, Sorry>>[2] = Sorry
        BY CommandTypes, TwoCommands
      <4>. HIDE DEF cmds
      <4>. QED BY <3>3, <4>1, NoAnswers
    <3>. QED BY <3>1, <3>2, <3>3 DEF cmds
  <2>. HIDE DEF cmds
  <2>. QED BY <2>1, <2>2, FinishRecorded
<1>. QED BY <1>6, <1>7, <1>8, <1>9, <1>10, <1>11, <1>12, <1>13, <1>14, <1>15, <1>16, <1>17
         DEF Handle

\* A crash, and the passing of time
LEMMA OthersRecord ==
  ASSUME RecordInv, Tick \/ Crash \/ UNCHANGED vars
  PROVE  Recorded' /\ OutOfNothing' /\ AnswerRecordedFirst'
<1>1. UNCHANGED <<received, stored, out>>
  BY DEF Tick, Crash, vars, memory
<1>2. \A n \in 1..Len(received) : AnsweredAt(n)'
  BY <1>1, OthersAnswered
<1>3. \A p \in Proc : RecordedAt(p)'
  <2>1. CASE Crash
    BY <2>1 DEF Crash, RecordedAt
  <2>2. CASE Tick \/ UNCHANGED vars
    BY <1>1, <2>2, OthersRecorded DEF Tick, vars, procs
  <2>. QED BY <2>1, <2>2
<1>4. OutOfNothing'
  BY <1>1 DEF RecordInv, OutOfNothing
<1>. QED BY <1>1, <1>2, <1>3, <1>4, ByPartsAfter

LEMMA RecordInit == Init => RecordInv
<1>. SUFFICES ASSUME Init PROVE RecordInv
  OBVIOUS
<1>1. Recorded /\ OutOfNothing /\ AnswerRecordedFirst
  BY DEF Init, Recorded, OutOfNothing, AnswerRecordedFirst
<1>. QED BY <1>1, TypeInit DEF RecordInv

LEMMA RecordStep == RecordInv /\ [Next]_vars => RecordInv'
<1>. SUFFICES ASSUME RecordInv, [Next]_vars PROVE RecordInv'
  OBVIOUS
<1>1. TypeOK'
  BY TypeStep DEF RecordInv
<1>2. Recorded' /\ OutOfNothing' /\ AnswerRecordedFirst'
  BY ReceiveRecorded, HandleRecorded, OthersRecord DEF Next, Rest
<1>. QED BY <1>1, <1>2 DEF RecordInv

\* An answer of the LLM that was sent in a 1:1 exchange is on disk together
\* with the message it answers, for any number of tasks, messages, failures of
\* the disk and crashes (runtime.rs, handle_message and
\* handle_message_with_attachments store both before they return the text).
THEOREM AnswersRecordedFirst == Spec => []AnswerRecordedFirst
<1>1. Spec => []RecordInv
  BY RecordInit, RecordStep, PTL DEF Spec
<1>2. RecordInv => AnswerRecordedFirst
  BY DEF RecordInv
<1>. QED BY <1>1, <1>2, PTL

----------------------------------------------------------------------------
\* The memory implements the session log: each step stores to, archives or erases the log
\* of a JID, or leaves it alone.

LogsStep == \A j \in Jids : [Log(j)!Next]_<<history[j], archives[j]>>

\* The memory calls, one by one.
LEMMA StoreLogs ==
  ASSUME MemoryOK, NEW k \in Jids, NEW e \in Entry, Store(k, e)
  PROVE  LogsStep
<1> SUFFICES ASSUME NEW j \in Jids, <<history[j], archives[j]>>' # <<history[j], archives[j]>>
             PROVE  Log(j)!Store
  BY DEF LogsStep, Log!Next
<1>1. archives' = archives /\ history[j] \in Seq(Entry)
  BY DEF Store, MemoryOK
<1>2. j = k /\ history'[j] = Append(history[j], e)
  BY <1>1 DEF Store, MemoryOK
<1>3. /\ Len(history'[j]) = Len(history[j]) + 1
      /\ SubSeq(history'[j], 1, Len(history[j])) = history[j]
      /\ history'[j][Len(history'[j])] = e
  BY <1>1, <1>2
<1> QED BY <1>1, <1>3 DEF Log!Store

LEMMA NewSessionLogs ==
  ASSUME MemoryOK, now \in Seconds, NEW k \in Jids, NewSession(k)
  PROVE  LogsStep
<1> SUFFICES ASSUME NEW j \in Jids, <<history[j], archives[j]>>' # <<history[j], archives[j]>>
             PROVE  Log(j)!Archive
  BY DEF LogsStep, Log!Next
<1>1. history[k] # <<>>
  BY DEF NewSession, memory
<1>2. /\ archives' = [archives EXCEPT ![k][now] = history[k]]
      /\ history'  = [history EXCEPT ![k] = <<>>]
  BY <1>1 DEF NewSession
<1>3. j = k /\ history'[j] = <<>> /\ archives'[j] = [archives[j] EXCEPT ![now] = history[j]]
  BY <1>2 DEF MemoryOK
<1> QED BY <1>1, <1>3 DEF Log!Archive

LEMMA ForgetLogs ==
  ASSUME MemoryOK, NEW k \in Jids, Forget(k)
  PROVE  LogsStep
BY DEF Forget, MemoryOK, LogsStep, Log!Next, Log!Erase

LEMMA UnchangedLogs ==
  ASSUME UNCHANGED memory
  PROVE  LogsStep
BY DEF memory, LogsStep

----------------------------------------------------------------------------

LEMMA ReceiveLogs ==
  ASSUME TypeOK, Receive
  PROVE  LogsStep
<1>. PICK ev \in Inputs :
       \/ OverhearRoom(ev) \/ AskStored(ev) \/ RoomCommand(ev)
       \/ ChatCommand(ev) \/ ChatText(ev) \/ ChatFile(ev) \/ Subscribe(ev)
  BY DEF Receive
<1>1. ASSUME Arrive(ev), ev.what # "subscribe", StoreArrival(ev) PROVE LogsStep
  <2>1. ev.from \in Jids /\ UserEntry(Number, ev) \in Entry
    BY <1>1, InputTypes, EntryTypes, ArriveExtends DEF TypeOK, LogOK
  <2>2. Store(ev.from, UserEntry(Number, ev)) \/ UNCHANGED memory
    BY <1>1 DEF StoreArrival
  <2>. QED BY <2>1, <2>2, StoreLogs, UnchangedLogs DEF TypeOK
<1>2. CASE OverhearRoom(ev)
  BY <1>1, <1>2, InputTypes DEF OverhearRoom
<1>3. CASE AskStored(ev)
  BY <1>1, <1>3, InputTypes DEF AskStored
<1>4. CASE RoomCommand(ev)
  BY <1>1, <1>4, InputTypes DEF RoomCommand
<1>5. CASE ChatCommand(ev) \/ ChatText(ev) \/ ChatFile(ev) \/ Subscribe(ev)
  BY <1>5, UnchangedLogs DEF ChatCommand, ChatText, ChatFile, Subscribe
<1>. QED BY <1>2, <1>3, <1>4, <1>5

LEMMA HandleLogs ==
  ASSUME TypeOK, NEW p \in Proc, Handle(p)
  PROVE  LogsStep
<1>1. pc[p] # "idle"
  BY DEF Handle, Goto, Download, RunCommand, Freshen, Load, LlmAnswers, LlmFails, StoreUser,
         StoreAnswer, StoreAnswerFails, DiskFails, Reply, Apologise, Finish
<1>2. /\ Key(p) \in Jids /\ Event(p) \in Inputs /\ job[p] \in Messages /\ now \in Seconds
      /\ Event(p).what # "subscribe" /\ MemoryOK
  BY <1>1, BusyFacts DEF TypeOK
<1>3. CASE RunCommand(p)
  <2>1. NewSession(Key(p)) \/ Forget(Key(p)) \/ UNCHANGED memory
    BY <1>3 DEF RunCommand
  <2>. QED BY <1>2, <2>1, NewSessionLogs, ForgetLogs, UnchangedLogs
<1>4. CASE Freshen(p)
  <2>1. NewSession(Key(p)) \/ UNCHANGED memory
    BY <1>4 DEF Freshen, CheckFreshness
  <2>. QED BY <1>2, <2>1, NewSessionLogs, UnchangedLogs
<1>5. CASE StoreUser(p)
  <2>1. UserEntry(job[p], Event(p)) \in Entry
    BY <1>2, EntryTypes
  <2>. QED BY <1>2, <1>5, <2>1, StoreLogs DEF StoreUser
<1>6. CASE StoreAnswer(p)
  <2>1. answer[p] \in {"answer", "blank", "notice"}
    BY <1>6, ConstantsAssumption DEF StoreAnswer, Goto, TypeOK, ProcOK, StageOK
  <2>2. AssistantEntry(job[p], answer[p]) \in Entry
    BY <1>2, <2>1, EntryTypes
  <2>. QED BY <1>2, <1>6, <2>2, StoreLogs DEF StoreAnswer
<1>7. CASE DiskFails(p)
  <2>1. Forget(Key(p)) \/ UNCHANGED memory
    BY <1>7 DEF DiskFails
  <2>. QED BY <1>2, <2>1, ForgetLogs, UnchangedLogs
<1>8. CASE Download(p) \/ Load(p) \/ LlmAnswers(p) \/ LlmFails(p) \/ StoreAnswerFails(p)
           \/ Reply(p) \/ Apologise(p)
  BY <1>8, UnchangedLogs
  DEF Download, Load, LlmAnswers, LlmFails, StoreAnswerFails, Reply, Apologise, Finish
<1>. QED BY <1>3, <1>4, <1>5, <1>6, <1>7, <1>8 DEF Handle

LEMMA LogsNext == TypeOK /\ [Next]_vars => LogsStep
<1> SUFFICES ASSUME TypeOK, [Next]_vars PROVE LogsStep
  OBVIOUS
<1>1. CASE Receive
  BY <1>1, ReceiveLogs
<1>2. ASSUME NEW p \in Proc, Handle(p) PROVE LogsStep
  BY <1>2, HandleLogs
<1>3. CASE Tick \/ Crash \/ Rest \/ UNCHANGED vars
  BY <1>3, UnchangedLogs DEF Tick, Crash, Rest, vars
<1>. QED BY <1>1, <1>2, <1>3 DEF Next

LEMMA LogsInit == Init => \A j \in Jids : Log(j)!Init
BY DEF Init, Log!Init

\* The runtime keeps the promise of the session log to every JID, with any number of
\* file tasks beside the loop, failing disks and crashes.
THEOREM KeepsLogsHolds == Spec => KeepsLogs
<1>1. TypeOK /\ [Next]_vars =>
        [\A j \in Jids : [Log(j)!Next]_<<history[j], archives[j]>>]_vars
  BY LogsNext DEF LogsStep
<1>. QED BY <1>1, LogsInit, TypeCorrect, PTL DEF Spec, KeepsLogs

----------------------------------------------------------------------------
\* What each step sends

\* The commands a handler may end with.
Closings(p) == {<<Paused>>, <<Sorry>>, <<Paused, Sorry>>,
                <<Text(answer[p], ReplyId(job[p], Event(p)))>>}

\* A new message is answered by nothing yet, at most announced.
LEMMA ReceiveSends ==
  ASSUME RecordInv, Receive
  PROVE  /\ Number = Len(received) + 1 /\ Number \in Messages
         /\ Len(received') = Number
         /\ \A n \in 1..Len(received) : received'[n] = received[n]
         /\ \A n \in Messages \ {Number} : out'[n] = out[n]
         /\ out'[Number] \in {<<>>, <<Composing>>, <<Accepted>>}
         /\ \A q \in Proc : job'[q] = job[q] \/ (job'[q] = Number /\ out'[Number] # <<Accepted>>)
         /\ \A q \in Proc : pc'[q] = "reply" => pc[q] = "reply" /\ job'[q] = job[q]
         /\ stored \subseteq stored'
<1>. PICK ev \in Inputs :
       \/ OverhearRoom(ev) \/ AskStored(ev) \/ RoomCommand(ev)
       \/ ChatCommand(ev) \/ ChatText(ev) \/ ChatFile(ev) \/ Subscribe(ev)
  BY DEF Receive
<1>1. Arrive(ev) /\ stored \subseteq stored'
  BY DEF OverhearRoom, AskStored, RoomCommand, ChatCommand, ChatText, ChatFile, Subscribe,
         StoreArrival, Store, memory
<1>2. LogOK /\ Len(received) \in Nat
  BY DEF RecordInv, TypeOK, LogOK
<1>3. /\ Number = Len(received) + 1 /\ Number \in Messages /\ Len(received') = Number
      /\ \A n \in 1..Len(received) : received'[n] = received[n]
  BY <1>1, <1>2, ArriveExtends DEF Number
<1>4. out[Number] = <<>> /\ out \in [Messages -> Seq(Command)]
  BY <1>2, <1>3 DEF RecordInv, OutOfNothing, LogOK
<1>5. \/ UNCHANGED out \/ Send(Number, <<Composing>>)
      \/ Send(Number, <<Accepted>>) /\ UNCHANGED procs
  BY DEF OverhearRoom, AskStored, RoomCommand, ChatCommand, ChatText, ChatFile, Subscribe
<1>6. <<>> \o <<Composing>> = <<Composing>> /\ <<>> \o <<Accepted>> = <<Accepted>>
  OBVIOUS
<1>7. /\ \A n \in Messages \ {Number} : out'[n] = out[n]
      /\ out'[Number] \in {<<>>, <<Composing>>, <<Accepted>>}
      /\ out'[Number] = <<Accepted>> => UNCHANGED procs
  <2>1. <<Composing>> # <<Accepted>> /\ <<>> # <<Accepted>>
    <3>1. Composing.kind # Accepted.kind
      BY DEF Composing, Accepted
    <3>. QED BY <3>1
  <2>. QED BY <1>3, <1>4, <1>5, <1>6, <2>1 DEF Send
<1>8. \/ UNCHANGED procs
      \/ \E p \in Proc, stage \in {"fetch", "command", "freshen"} : Start(p, stage)
  BY DEF OverhearRoom, AskStored, RoomCommand, ChatCommand, ChatText, ChatFile, Subscribe, Proc
<1>9. \A q \in Proc : job'[q] = job[q] \/ (job'[q] = Number /\ ~UNCHANGED procs)
  BY <1>8 DEF procs, Start, RecordInv, TypeOK, ProcOK
<1>10. \A q \in Proc : pc'[q] = "reply" => pc[q] = "reply" /\ job'[q] = job[q]
  BY <1>8 DEF procs, Start, RecordInv, TypeOK, ProcOK
<1>. QED BY <1>1, <1>3, <1>7, <1>9, <1>10

\* A handler sends something only when it ends.
LEMMA HandleSends ==
  ASSUME RecordInv, NEW p \in Proc, Handle(p)
  PROVE  /\ received' = received
         /\ \/ UNCHANGED <<job, out>> /\ stored \subseteq stored'
            \/ \E cmds \in Closings(p) :
                 \/ Finish(p, "apologise", cmds) /\
                     cmds \in {<<Paused>>, <<Sorry>>, <<Paused, Sorry>>}
                 \/ /\ Finish(p, "reply", cmds)
                    /\ cmds = <<Text(answer[p], ReplyId(job[p], Event(p)))>>
<1>1. CASE Reply(p)
  BY <1>1 DEF Reply, Closings, Finish
<1>2. CASE Apologise(p)
  <2>. DEFINE cmds == IF Event(p).what = "reaction" THEN <<Paused>>
                      ELSE IF ~Event(p).muc /\ Event(p).what \in Commands THEN <<Sorry>>
                      ELSE <<Paused, Sorry>>
  <2>1. Finish(p, "apologise", cmds)
    BY <1>2 DEF Apologise
  <2>2. cmds \in {<<Paused>>, <<Sorry>>, <<Paused, Sorry>>}
    OBVIOUS
  <2>. HIDE DEF cmds
  <2>. QED BY <2>1, <2>2 DEF Closings, Finish
<1>3. ASSUME ~Reply(p), ~Apologise(p)
      PROVE  UNCHANGED <<received, job, out>> /\ stored \subseteq stored'
  BY <1>3 DEF Handle, Download, RunCommand, Freshen, Load, LlmAnswers, LlmFails, StoreUser,
         StoreAnswer, StoreAnswerFails, DiskFails, Store, CheckFreshness, NewSession, Forget, memory
<1>. QED BY <1>1, <1>2, <1>3

\* ... and then it has left its message for good.
LEMMA FinishSends ==
  ASSUME RecordInv, NEW p \in Proc, NEW from \in {"reply", "apologise"},
         NEW cmds \in Seq(Command), Finish(p, from, cmds)
  PROVE  /\ job[p] \in Messages /\ job[p] \in 1..Len(received) /\ job'[p] = 0
         /\ out'[job[p]] = out[job[p]] \o cmds
         /\ \A n \in Messages \ {job[p]} : out'[n] = out[n]
         /\ \A q \in Proc \ {p} : job'[q] = job[q]
         /\ UNCHANGED <<received, stored>>
<1>1. pc[p] # "idle"
  BY DEF Finish, Goto
<1>2. job[p] \in Messages /\ job[p] \in 1..Len(received)
  BY <1>1, BusyFacts DEF RecordInv
<1>. QED BY <1>2 DEF Finish, Send, RecordInv, TypeOK, LogOK, ProcOK, memory

\* Of two commands, only the last can be a text.
AnswerLast(s) == \A i, k \in DOMAIN s : s[i].kind = "message" => k <= i

\* What precedes an answer does not matter, if no text is in it.
LEMMA LastOfBoth ==
  ASSUME NEW S, NEW s \in Seq(S), NEW t \in Seq(S),
         \A i \in DOMAIN s : s[i].kind # "message", AnswerLast(t)
  PROVE  AnswerLast(s \o t)
<1>. SUFFICES ASSUME NEW i \in DOMAIN (s \o t), NEW k \in DOMAIN (s \o t),
                     (s \o t)[i].kind = "message"
              PROVE  k <= i
  BY DEF AnswerLast
<1>1. i \in 1..(Len(s) + Len(t)) /\ k \in 1..(Len(s) + Len(t))
  OBVIOUS
<1>2. i > Len(s) /\ (s \o t)[i] = t[i - Len(s)] /\ i - Len(s) \in DOMAIN t
  BY <1>1
<1>3. CASE k <= Len(s)
  BY <1>1, <1>2, <1>3
<1>4. CASE k > Len(s)
  <2>1. k - Len(s) \in DOMAIN t
    BY <1>1, <1>4
  <2>2. k - Len(s) <= i - Len(s)
    BY <1>2, <2>1 DEF AnswerLast
  <2>. QED BY <1>1, <2>2
<1>. QED BY <1>1, <1>3, <1>4

LEMMA ClosingLast ==
  ASSUME NEW p \in Proc, NEW s \in {<<>>, <<Composing>>}, NEW cmds \in Closings(p)
  PROVE  AnswerLast(s \o cmds)
<1>1. /\ Composing.kind = "composing" /\ Paused.kind = "paused" /\ Sorry.kind = "message"
  BY DEF Composing, Paused, Sorry
<1>. DEFINE t == Text(answer[p], ReplyId(job[p], Event(p)))
            S == {Composing, Paused, Sorry, t}
<1>2. cmds \in {<<Paused>>, <<Sorry>>, <<Paused, Sorry>>, <<t>>}
  BY DEF Closings
<1>3. Composing \in S /\ Paused \in S /\ Sorry \in S /\ t \in S
  OBVIOUS
<1>. HIDE DEF t, S
<1>4. s \in Seq(S) /\ \A i \in DOMAIN s : s[i].kind # "message"
  <2>1. CASE s = <<>>
    BY <2>1
  <2>2. CASE s = <<Composing>>
    BY <1>1, <1>3, <2>2
  <2>. QED BY <2>1, <2>2
<1>5. cmds \in Seq(S) /\ AnswerLast(cmds)
  <2>1. CASE cmds = <<Paused, Sorry>>
    BY <1>1, <1>3, <2>1 DEF AnswerLast
  <2>2. ASSUME NEW c \in S, cmds = <<c>>
        PROVE  cmds \in Seq(S) /\ AnswerLast(cmds)
    BY <2>2 DEF AnswerLast
  <2>. QED BY <1>2, <1>3, <2>1, <2>2
<1>. QED BY <1>4, <1>5, LastOfBoth

----------------------------------------------------------------------------
\* A message that is being handled is announced at most.
Unanswered == \A p \in Proc : job[p] # 0 => out[job[p]] \in {<<>>, <<Composing>>}

\* The invariant behind OneAnswer
AnswerInv == /\ FreshInv /\ RecordInv
             /\ Unanswered
             /\ \A n \in Messages : AnswerLast(out[n])

LEMMA ReplyKnown ==
  ASSUME TypeOK, NEW p \in Proc, pc[p] = "reply"
  PROVE  answer[p] \in {"answer", "blank", "notice"}
BY ConstantsAssumption DEF TypeOK, ProcOK, StageOK

LEMMA ClosingType ==
  ASSUME RecordInv, NEW p \in Proc, pc[p] = "reply"
  PROVE  <<Text(answer[p], ReplyId(job[p], Event(p)))>> \in Seq(Command)
<1>1. job[p] \in Messages /\ Event(p) \in Inputs
  BY BusyFacts DEF RecordInv
<1>2. answer[p] \in {"answer", "blank", "notice"}
  BY ReplyKnown DEF RecordInv
<1>. QED BY <1>1, <1>2, CommandTypes, OneCommand

LEMMA ApologyTypes ==
  <<Paused>> \in Seq(Command) /\ <<Sorry>> \in Seq(Command) /\ <<Paused, Sorry>> \in Seq(Command)
BY CommandTypes

LEMMA AnswerStep == AnswerInv /\ [Next]_vars
      => Unanswered' /\ \A n \in Messages : AnswerLast(out'[n])
<1>. SUFFICES ASSUME AnswerInv, [Next]_vars
              PROVE  Unanswered' /\ \A n \in Messages : AnswerLast(out'[n])
  OBVIOUS
<1>0. /\ RecordInv /\ Unanswered /\ \A n \in Messages : AnswerLast(out[n])
      /\ \A p, q \in Proc : (job[p] # 0 /\ job[p] = job[q]) => p = q
      /\ \A p \in Proc : job[p] \in 0..Len(received)
      /\ Len(received) \in Nat /\ Len(received) <= MaxMessages
  BY DEF AnswerInv, FreshInv, Ownership, RecordInv, TypeOK, ProcOK, LogOK
<1>1. CASE Receive
  <2>1. \A q \in Proc : job[q] # Number /\ (job[q] # 0 => job[q] \in Messages)
    BY <1>0, <1>1, ReceiveSends, ConstantsAssumption DEF Messages
  <2>2. \A q \in Proc : job'[q] # 0 => out'[job'[q]] \in {<<>>, <<Composing>>}
    BY <1>0, <1>1, <2>1, ReceiveSends DEF Unanswered
  <2>3. AnswerLast(<<>>) /\ AnswerLast(<<Composing>>) /\ AnswerLast(<<Accepted>>)
    BY DEF AnswerLast
  <2>. QED BY <1>0, <1>1, <2>2, <2>3, ReceiveSends DEF Unanswered
<1>2. ASSUME NEW p \in Proc, Handle(p)
      PROVE  Unanswered' /\ \A n \in Messages : AnswerLast(out'[n])
  <2>1. CASE UNCHANGED <<job, out>>
    BY <1>0, <2>1 DEF Unanswered
  <2>2. ASSUME NEW cmds \in Closings(p), NEW from \in {"reply", "apologise"},
               cmds \in Seq(Command), Finish(p, from, cmds)
        PROVE  Unanswered' /\ \A n \in Messages : AnswerLast(out'[n])
    <3>1. /\ job[p] \in Messages /\ job'[p] = 0 /\ out'[job[p]] = out[job[p]] \o cmds
          /\ \A n \in Messages \ {job[p]} : out'[n] = out[n]
          /\ \A q \in Proc \ {p} : job'[q] = job[q]
      BY <1>0, <2>2, FinishSends
    <3>2. job[p] # 0 /\ pc[p] # "idle"
      BY <3>1, <2>2, ConstantsAssumption DEF Messages, Finish, Goto
    <3>3. out[job[p]] \in {<<>>, <<Composing>>}
      BY <1>0, <3>2 DEF Unanswered
    <3>4. AnswerLast(out[job[p]] \o cmds)
      BY <1>0, <2>2, <3>3, ClosingLast
    <3>5. \A q \in Proc \ {p} : job[q] # 0 => job[q] # job[p] /\ job[q] \in Messages
      BY <1>0, <3>2, ConstantsAssumption DEF Messages
    <3>6. Unanswered'
      BY <1>0, <3>1, <3>5 DEF Unanswered
    <3>. QED BY <1>0, <3>1, <3>4, <3>6
  <2>3. ASSUME NEW cmds \in Closings(p), Finish(p, "apologise", cmds),
               cmds \in {<<Paused>>, <<Sorry>>, <<Paused, Sorry>>}
        PROVE  Unanswered' /\ \A n \in Messages : AnswerLast(out'[n])
    <3>1. cmds \in Seq(Command)
      BY <2>3, ApologyTypes
    <3>. QED BY <2>2, <2>3, <3>1
  <2>4. ASSUME NEW cmds \in Closings(p), Finish(p, "reply", cmds),
               cmds = <<Text(answer[p], ReplyId(job[p], Event(p)))>>
        PROVE  Unanswered' /\ \A n \in Messages : AnswerLast(out'[n])
    <3>1. pc[p] = "reply"
      BY <2>4 DEF Finish, Goto
    <3>2. cmds \in Seq(Command)
      BY <1>0, <2>4, <3>1, ClosingType
    <3>. QED BY <2>2, <2>4, <3>2
  <2>5. \/ UNCHANGED <<job, out>>
        \/ \E cmds \in Closings(p) :
             \/ Finish(p, "apologise", cmds) /\
                 cmds \in {<<Paused>>, <<Sorry>>, <<Paused, Sorry>>}
             \/ /\ Finish(p, "reply", cmds)
                /\ cmds = <<Text(answer[p], ReplyId(job[p], Event(p)))>>
    BY <1>0, <1>2, HandleSends
  <2>. QED BY <2>1, <2>3, <2>4, <2>5
<1>3. CASE Tick \/ Crash \/ Rest \/ UNCHANGED vars
  BY <1>0, <1>3 DEF Tick, Crash, Rest, vars, procs, Unanswered
<1>. QED BY <1>1, <1>2, <1>3 DEF Next

\* A message is answered by at most one text, and nothing is sent for it after that text,
\* whatever fails and whoever handles it (the match arms of AgentRuntime::run, where Ok and Err
\* exclude each other).
THEOREM OneAnswerHolds == Spec => []OneAnswer
<1>1. Init => Unanswered /\ \A n \in Messages : AnswerLast(out[n])
  BY DEF Init, Unanswered, AnswerLast
<1>2. Init => AnswerInv
  BY <1>1, FreshInit, RecordInit DEF AnswerInv
<1>3. AnswerInv /\ [Next]_vars => AnswerInv'
  BY AnswerStep, FreshStep, RecordStep DEF AnswerInv
<1>4. AnswerInv => OneAnswer
  <2>. SUFFICES ASSUME AnswerInv, NEW n \in Messages
                PROVE  /\ \A i, k \in Texts(n) : i = k
                       /\ \A i \in Texts(n) : \A k \in DOMAIN out[n] : k <= i
    BY DEF OneAnswer
  <2>1. out[n] \in Seq(Command) /\ AnswerLast(out[n])
    BY DEF AnswerInv, RecordInv, TypeOK, LogOK
  <2>2. \A i \in DOMAIN out[n] : i \in Int
    BY <2>1
  <2>. QED BY <2>1, <2>2 DEF AnswerLast, Texts
<1>. QED BY <1>2, <1>3, <1>4, PTL DEF Spec

----------------------------------------------------------------------------
\* Replies addressed by what the loop has learned

\* Commands are run, anything else is put to the LLM, and what has been stored on arrival
\* is handled by the loop.
FitsAt(p) ==
  /\ pc[p] = "command" => Event(p).what \in Commands
  /\ pc[p] \in {"fetch", "freshen", "load", "llm", "storeUser"} => Event(p).what \notin Commands
  /\ (p # Main /\ job[p] # 0) => ~StoredFirst(Event(p))

Fits == \A p \in Proc : FitsAt(p)

LEMMA FitsStep == TypeOK /\ Fits /\ [Next]_vars => Fits'
<1>. SUFFICES ASSUME TypeOK, Fits, [Next]_vars, NEW q \in Proc
              PROVE  FitsAt(q)'
  BY DEF Fits
<1>1. job[q] # 0 => job[q] \in 1..Len(received)
  BY DEF TypeOK, ProcOK, LogOK
<1>2. (job'[q] = job[q] /\ job[q] # 0) => Event(q)' = Event(q)
  BY <1>1, LogStep DEF Event, Ev
<1>3. pc[q] # "idle" => job[q] # 0
  BY DEF TypeOK, StageOK
<1>4. CASE /\ job'[q] = job[q]
           /\ \/ pc'[q] = pc[q]
              \/ pc'[q] \notin {"fetch", "command", "freshen", "load", "llm", "storeUser"}
              \/ /\ pc[q] \in {"fetch", "freshen", "load", "llm", "storeUser"}
                 /\ pc'[q] # "command"
  BY <1>2, <1>3, <1>4 DEF FitsAt, Fits, StoredFirst
<1>5. CASE job'[q] = 0 /\ pc'[q] = "idle"
  BY <1>5 DEF FitsAt
<1>6. ASSUME NEW ev \in Inputs, Arrive(ev), NEW stage \in {"fetch", "command", "freshen"},
             NEW p \in Proc, Start(p, stage), (stage = "command") = (ev.what \in Commands),
             p # Main => ~StoredFirst(ev)
      PROVE  FitsAt(q)'
  <2>1. CASE q = p
    <3>1. /\ received'[Number] = [ev |-> ev, at |-> now]
          /\ pc'[q] = stage /\ job'[q] = Number
      BY <1>6, <2>1, ArriveExtends DEF TypeOK, ProcOK, Start
    <3>2. Event(q)' = ev
      BY <3>1 DEF Event, Ev
    <3>. QED BY <1>6, <2>1, <3>1, <3>2 DEF FitsAt, StoredFirst
  <2>2. CASE q # p
    BY <1>4, <1>6, <2>2 DEF Start, TypeOK, ProcOK
  <2>. QED BY <2>1, <2>2
<1>7. CASE Receive
  <2>. PICK ev \in Inputs :
         \/ OverhearRoom(ev) \/ AskStored(ev) \/ RoomCommand(ev)
         \/ ChatCommand(ev) \/ ChatText(ev) \/ ChatFile(ev) \/ Subscribe(ev)
    BY <1>7 DEF Receive
  <2>0. Main \in Proc /\ \A t \in Tasks : t \in Proc
    BY DEF Proc
  <2>1. CASE OverhearRoom(ev) \/ Subscribe(ev)
    BY <1>4, <2>1 DEF OverhearRoom, Subscribe, procs
  <2>2. CASE AskStored(ev) \/ ChatText(ev)
    BY <1>6, <2>0, <2>2 DEF AskStored, ChatText, Commands
  <2>3. CASE RoomCommand(ev) \/ ChatCommand(ev)
    BY <1>6, <2>0, <2>3 DEF RoomCommand, ChatCommand
  <2>4. CASE ChatFile(ev)
    BY <1>6, <2>0, <2>4 DEF ChatFile, StoredFirst, Commands
  <2>. QED BY <2>1, <2>2, <2>3, <2>4
<1>8. ASSUME NEW p \in Proc, Handle(p)
      PROVE  FitsAt(q)'
  <2>1. \/ /\ job'[q] = job[q]
           /\ \/ pc'[q] = pc[q]
              \/ pc'[q] \notin {"fetch", "command", "freshen", "load", "llm", "storeUser"}
              \/ /\ pc[q] \in {"fetch", "freshen", "load", "llm", "storeUser"}
                 /\ pc'[q] # "command"
        \/ job'[q] = 0 /\ pc'[q] = "idle"
    BY <1>8 DEF TypeOK, ProcOK, Handle, Download, RunCommand, Freshen, Load, LlmAnswers,
         LlmFails, StoreUser, StoreAnswer, StoreAnswerFails, DiskFails, Reply, Apologise, Finish,
         Goto
  <2>. QED BY <1>4, <1>5, <2>1
<1>9. CASE Tick \/ Crash \/ Rest \/ UNCHANGED vars
  BY <1>4, <1>5, <1>9 DEF Tick, Crash, Rest, vars, procs
<1>. QED BY <1>7, <1>8, <1>9 DEF Next

LEMMA FitsInit == Init => Fits
BY DEF Init, Fits, FitsAt

\* The answer to message n has been written under the id its stanza will carry.
WroteReply(n) == \E e \in stored : e.role = "assistant" /\ e.id = <<n, 1>>

IdReadyAt(p) == (pc[p] = "reply" /\ StoredFirst(Event(p))) => WroteReply(job[p])

IdKnown(n, cmds) ==
  StoredFirst(Ev(n)) =>
    \A i \in DOMAIN cmds : cmds[i].id # NoId => cmds[i].id = <<n, 1>> /\ WroteReply(n)

\* The invariant behind RoomIdsMatch, on a disk that does not fail
IdInv == /\ FreshInv /\ RecordInv /\ Fits
         /\ \A p \in Proc : IdReadyAt(p)
         /\ \A n \in 1..Len(received) : IdKnown(n, out[n])

\* What is known of an id stays known.
LEMMA IdKept ==
  ASSUME NEW n \in 1..Len(received), received'[n] = received[n], stored \subseteq stored',
         IdKnown(n, out[n]), out'[n] = out[n]
  PROVE  IdKnown(n, out[n])'
BY DEF IdKnown, WroteReply, Ev, StoredFirst

LEMMA NoIds ==
  /\ Composing.id = NoId /\ Paused.id = NoId /\ Sorry.id = NoId /\ Accepted.id = NoId
BY DEF Composing, Paused, Sorry, Accepted

LEMMA IdsOfBoth ==
  ASSUME NEW n, NEW s \in Seq(Command), NEW t \in Seq(Command), IdKnown(n, s), IdKnown(n, t)
  PROVE  IdKnown(n, s \o t)
<1>. SUFFICES ASSUME NEW i \in DOMAIN (s \o t), (s \o t)[i].id # NoId, StoredFirst(Ev(n))
              PROVE  (s \o t)[i].id = <<n, 1>> /\ WroteReply(n)
  BY DEF IdKnown
<1>1. i \in 1..(Len(s) + Len(t))
  OBVIOUS
<1>2. CASE i <= Len(s)
  <2>1. i \in DOMAIN s /\ (s \o t)[i] = s[i]
    BY <1>1, <1>2
  <2>. QED BY <2>1 DEF IdKnown
<1>3. CASE i > Len(s)
  <2>1. i - Len(s) \in DOMAIN t /\ (s \o t)[i] = t[i - Len(s)]
    BY <1>1, <1>3
  <2>. QED BY <2>1 DEF IdKnown
<1>. QED BY <1>1, <1>2, <1>3

\* A handler is ready to reply once it has stored the answer.
LEMMA ReplyReady ==
  ASSUME IdInv, ~DiskMayFail, NEW p \in Proc, Handle(p), NEW q \in Proc
  PROVE  IdReadyAt(q)'
<1>1. /\ received' = received /\ stored \subseteq stored'
      /\ job'[q] = job[q] \/ pc'[q] = "idle"
      /\ pc' = [pc EXCEPT ![p] = pc'[p]]
  BY DEF IdInv, FreshInv, TypeOK, ProcOK, Handle, Download, RunCommand, Freshen, Load, LlmAnswers,
         LlmFails, StoreUser, StoreAnswer, StoreAnswerFails, DiskFails, Reply, Apologise, Finish,
         Store, CheckFreshness, NewSession, Forget, memory, Goto
<1>2. job'[q] = job[q] => Event(q)' = Event(q)
  BY <1>1 DEF Event, Ev
<1>3. CASE pc'[q] = pc[q]
  BY <1>1, <1>2, <1>3 DEF IdInv, IdReadyAt, WroteReply, StoredFirst
<1>4. CASE q = p /\ RunCommand(p)
  <2>1. pc'[p] = (IF Event(p).muc THEN "storeAnswer" ELSE "reply") /\ pc[p] = "command"
    BY <1>4 DEF RunCommand, Goto, IdInv, FreshInv, TypeOK, ProcOK
  <2>2. Event(p).what \in Commands
    BY <2>1 DEF IdInv, Fits, FitsAt
  <2>. QED BY <1>2, <1>4, <2>1, <2>2 DEF IdReadyAt, StoredFirst, Commands, RunCommand
<1>5. CASE q = p /\ StoreAnswer(p)
  <2>1. AssistantEntry(job[p], answer[p]) \in stored' /\ job' = job
    BY <1>5 DEF StoreAnswer, Store
  <2>2. /\ AssistantEntry(job[p], answer[p]).role = "assistant"
        /\ AssistantEntry(job[p], answer[p]).id = <<job[p], 1>>
    BY DEF AssistantEntry
  <2>. QED BY <1>5, <2>1, <2>2 DEF IdReadyAt, WroteReply
<1>6. CASE q = p /\ ~RunCommand(p) /\ ~StoreAnswer(p)
  <2>1. pc'[p] # "reply"
    BY <1>6 DEF IdInv, FreshInv, TypeOK, ProcOK, Handle, Download, Freshen, Load, LlmAnswers,
         LlmFails, StoreUser, StoreAnswerFails, DiskFails, Reply, Apologise, Finish, Goto
  <2>. QED BY <1>6, <2>1 DEF IdReadyAt
<1>7. q = p \/ pc'[q] = pc[q]
  BY <1>1 DEF IdInv, FreshInv, TypeOK, ProcOK
<1>. QED BY <1>3, <1>4, <1>5, <1>6, <1>7

LEMMA IdStep ==
  ~DiskMayFail /\ IdInv /\ [Next]_vars =>
    /\ \A q \in Proc : IdReadyAt(q)'
    /\ \A n \in 1..Len(received') : IdKnown(n, out[n])'
<1>. SUFFICES ASSUME ~DiskMayFail, IdInv, [Next]_vars
              PROVE  /\ \A q \in Proc : IdReadyAt(q)'
                     /\ \A n \in 1..Len(received') : IdKnown(n, out[n])'
  OBVIOUS
<1>1. /\ RecordInv /\ TypeOK /\ Len(received) \in Nat /\ \A n \in 1..Len(received) : n \in Messages
      /\ \A n \in 1..Len(received) : IdKnown(n, out[n])
      /\ \A q \in Proc : job[q] # 0 => job[q] \in 1..Len(received)
      /\ \A q \in Proc : pc[q] = "reply" => job[q] # 0
  BY ConstantsAssumption DEF IdInv, RecordInv, TypeOK, LogOK, ProcOK, StageOK, Messages
<1>2. CASE Receive
  <2>1. /\ Number = Len(received) + 1 /\ Len(received') = Number /\ stored \subseteq stored'
        /\ \A n \in 1..Len(received) : received'[n] = received[n]
        /\ \A n \in 1..Len(received) : out'[n] = out[n]
        /\ out'[Number] \in {<<>>, <<Composing>>, <<Accepted>>}
    BY <1>1, <1>2, ReceiveSends
  <2>2. \A n \in 1..Len(received) : IdKnown(n, out[n])'
    BY <1>1, <2>1, IdKept
  <2>3. \A i \in DOMAIN out'[Number] : out'[Number][i].id = NoId
    BY <2>1, NoIds
  <2>4. ASSUME NEW n \in {Number} PROVE IdKnown(n, out[n])'
    BY <2>3, <2>4 DEF IdKnown
  <2>5. ASSUME NEW q \in Proc, pc'[q] = "reply" PROVE IdReadyAt(q)'
    <3>1. pc[q] = "reply" /\ job'[q] = job[q] /\ job[q] \in 1..Len(received)
      BY <1>1, <1>2, <2>5, ReceiveSends
    <3>2. Event(q)' = Event(q)
      BY <2>1, <3>1 DEF Event, Ev
    <3>. QED BY <2>1, <3>1, <3>2 DEF IdInv, IdReadyAt, WroteReply, StoredFirst
  <2>6. \A q \in Proc : IdReadyAt(q)'
    BY <2>5 DEF IdReadyAt
  <2>. QED BY <1>1, <2>1, <2>2, <2>4, <2>6
<1>3. ASSUME NEW p \in Proc, Handle(p)
      PROVE  \A n \in 1..Len(received') : IdKnown(n, out[n])'
  <2>1. received' = received
    BY <1>1, <1>3, HandleSends
  <2>2. CASE UNCHANGED <<job, out>> /\ stored \subseteq stored'
    BY <1>1, <2>1, <2>2, IdKept
  <2>3. ASSUME NEW cmds \in Seq(Command), NEW from \in {"reply", "apologise"},
               Finish(p, from, cmds), IdKnown(job[p], cmds)
        PROVE  \A n \in 1..Len(received') : IdKnown(n, out[n])'
    <3>1. /\ job[p] \in 1..Len(received) /\ out'[job[p]] = out[job[p]] \o cmds
          /\ \A n \in Messages \ {job[p]} : out'[n] = out[n]
          /\ stored' = stored
      BY <1>1, <2>3, FinishSends
    <3>2. \A n \in 1..Len(received) : n # job[p] => IdKnown(n, out[n])'
      BY <1>1, <2>1, <3>1, IdKept
    <3>3. out[job[p]] \in Seq(Command)
      BY <1>1, <3>1 DEF RecordInv, TypeOK, LogOK
    <3>4. PICK m \in 1..Len(received) : m = job[p]
      BY <3>1
    <3>5. IdKnown(m, out[m] \o cmds)
      BY <1>1, <2>3, <3>3, <3>4, IdsOfBoth
    <3>6. IdKnown(m, out[m])'
      BY <2>1, <3>1, <3>4, <3>5 DEF IdKnown, WroteReply, Ev, StoredFirst
    <3>. QED BY <2>1, <3>2, <3>4, <3>6
  <2>4. ASSUME NEW cmds \in {<<Paused>>, <<Sorry>>, <<Paused, Sorry>>}
        PROVE  IdKnown(job[p], cmds) /\ cmds \in Seq(Command)
    <3>1. CASE cmds = <<Paused, Sorry>>
      BY <3>1, NoIds, ApologyTypes DEF IdKnown
    <3>2. ASSUME NEW c \in {Paused, Sorry}, cmds = <<c>>
          PROVE  IdKnown(job[p], cmds) /\ cmds \in Seq(Command)
      BY <3>2, NoIds, CommandTypes, OneCommand DEF IdKnown
    <3>. QED BY <2>4, <3>1, <3>2
  <2>5. ASSUME pc[p] = "reply"
        PROVE  IdKnown(job[p], <<Text(answer[p], ReplyId(job[p], Event(p)))>>)
    <3>. DEFINE c == Text(answer[p], ReplyId(job[p], Event(p)))
    <3>1. StoredFirst(Event(p)) => c.id = <<job[p], 1>> /\ WroteReply(job[p])
      BY <1>1, <2>5 DEF Text, ReplyId, IdInv, IdReadyAt
    <3>. HIDE DEF c
    <3>2. \A i \in DOMAIN <<c>> : <<c>>[i] = c
      OBVIOUS
    <3>3. IdKnown(job[p], <<c>>)
      BY <3>1, <3>2 DEF IdKnown, Event
    <3>. QED BY <3>3 DEF c
  <2>6. \A cmds : Finish(p, "reply", cmds) => pc[p] = "reply"
    BY DEF Finish, Goto
  <2>. QED BY <1>1, <1>3, <2>2, <2>3, <2>4, <2>5, <2>6, HandleSends, ClosingType
<1>4. ASSUME NEW p \in Proc, Handle(p)
      PROVE  \A q \in Proc : IdReadyAt(q)'
  BY <1>4, ReplyReady
<1>5. CASE Tick \/ Crash \/ Rest \/ UNCHANGED vars
  <2>1. /\ UNCHANGED <<received, out, stored>>
        /\ \A q \in Proc : pc'[q] = "idle" \/ (pc'[q] = pc[q] /\ job'[q] = job[q])
    BY <1>5 DEF Tick, Crash, Rest, vars, procs, memory
  <2>2. \A q \in Proc : IdReadyAt(q)'
    BY <1>1, <2>1 DEF IdInv, IdReadyAt, WroteReply, StoredFirst, Event, Ev
  <2>3. \A n \in 1..Len(received) : IdKnown(n, out[n])'
    BY <1>1, <2>1, IdKept
  <2>. QED BY <2>1, <2>2, <2>3
<1>. QED BY <1>2, <1>3, <1>4, <1>5 DEF Next

\* Unless the disk fails, the stanza of an answer that the loop stores itself (rooms and
\* reactions) carries the id of the stored entry, whatever tasks store beside it.
THEOREM RoomIdsMatchHolds == ~DiskMayFail => (Spec => []RoomIdsMatch)
<1>1. Init => IdInv
  BY FreshInit, RecordInit, FitsInit DEF Init, IdInv, IdReadyAt
<1>2. ~DiskMayFail /\ IdInv /\ [Next]_vars => IdInv'
  <2>. SUFFICES ASSUME ~DiskMayFail, IdInv, [Next]_vars PROVE IdInv'
    OBVIOUS
  <2>1. FreshInv' /\ RecordInv' /\ Fits'
    BY FreshStep, RecordStep, FitsStep DEF IdInv, RecordInv
  <2>. QED BY <2>1, IdStep DEF IdInv
<1>3. IdInv => RoomIdsMatch
  BY DEF IdInv, IdKnown, RoomIdsMatch, WroteReply
<1>4. CASE ~DiskMayFail
  <2>1. IdInv /\ [Next]_vars => IdInv'
    BY <1>2, <1>4
  <2>. QED BY <1>1, <1>3, <2>1, PTL DEF Spec
<1>. QED BY <1>4

----------------------------------------------------------------------------
\* The message in its own prompt

\* The message n itself, as an entry.
IsTrigger(e, n) == e.of = n /\ e.role = "user"

OnceIn(s, n)  == \A i, k \in DOMAIN s : IsTrigger(s[i], n) /\ IsTrigger(s[k], n) => i = k
OnlyOne(s, n) == \E i \in DOMAIN s : \A k \in DOMAIN s : IsTrigger(s[k], n) <=> k = i

\* A session holds what was written, and no message twice.
FilesOK ==
  /\ \A j \in Jids : \A i \in DOMAIN history[j] : history[j][i] \in stored
  /\ \A j \in Jids, n \in Messages : OnceIn(history[j], n)

\* What a file task may still store.
Due(t) == CASE pc[t] = "storeAnswer"                     -> {2}
            [] pc[t] \in {"idle", "reply", "apologise"} -> {}
            [] OTHER                                    -> {1, 2}
Owed == {o \in Tasks \X {1, 2} : o[2] \in Due(o[1])}

\* The entry of message n is in a session, and the tasks, who may still store owed more,
\* cannot push it out of the last MaxHistory entries.
WithinReach(s, n, owed) ==
  \E k \in DOMAIN s : IsTrigger(s[k], n) /\ Len(s) - k + owed <= 2 * Cardinality(Tasks)

\* Between its arrival and the reading of the history, a stored message stays within reach.
InSight ==
  (pc[Main] \in {"freshen", "load"} /\ StoredFirst(Event(Main)) /\ WroteUser(job[Main])) =>
    /\ mtime[Key(Main)] = now
    /\ WithinReach(history[Key(Main)], job[Main], Cardinality(Owed))

PromptAt(p) ==
  (pc[p] = "llm" /\ (StoredFirst(Event(p)) => WroteUser(job[p]))) => OnlyOne(prompt[p], job[p])

\* The invariant behind TriggerInPromptOnce
TriggerInv == /\ FreshInv /\ RecordInv /\ Fits
              /\ FilesOK /\ InSight /\ \A p \in Proc : PromptAt(p)

FewTasks == IsFiniteSet(Tasks) /\ 2 * Cardinality(Tasks) < MaxHistory

----------------------------------------------------------------------------
\* Sessions

LEMMA FilesEmptied ==
  ASSUME FilesOK, Emptied
  PROVE  FilesOK'
<1>1. \A j \in Jids : \A i \in DOMAIN history'[j] : history'[j][i] \in stored'
  BY DEF FilesOK, Emptied
<1>2. \A j \in Jids, n \in Messages : OnceIn(history'[j], n)
  BY DEF FilesOK, Emptied, OnceIn
<1>. QED BY <1>1, <1>2 DEF FilesOK

LEMMA FilesStored ==
  ASSUME MemoryOK, FilesOK, NEW j \in Jids, NEW e \in Entry, Store(j, e),
         e.role = "user" => \A f \in stored : f.of # e.of
  PROVE  FilesOK'
<1>1. ASSUME NEW k \in Jids, history'[k] = history[k]
      PROVE  /\ \A i \in DOMAIN history'[k] : history'[k][i] \in stored'
             /\ \A n \in Messages : OnceIn(history'[k], n)
  BY <1>1 DEF FilesOK, Store
<1>2. CASE history' = [history EXCEPT ![j] = Append(@, e)]
  <2>. DEFINE h == history[j]
  <2>1. /\ h \in Seq(Entry) /\ history'[j] = Append(h, e)
        /\ \A k \in Jids \ {j} : history'[k] = history[k]
    BY <1>2 DEF MemoryOK
  <2>2. /\ DOMAIN Append(h, e) = 1..(Len(h) + 1) /\ DOMAIN h = 1..Len(h) /\ Len(h) \in Nat
        /\ \A i \in DOMAIN h : Append(h, e)[i] = h[i]
        /\ Append(h, e)[Len(h) + 1] = e
    BY <2>1
  <2>3. \A i \in DOMAIN h : h[i] \in stored
    BY DEF FilesOK
  <2>4. \A n \in Messages : OnceIn(h, n)
    BY DEF FilesOK
  <2>5. \A i \in DOMAIN Append(h, e) : Append(h, e)[i] \in stored'
    BY <2>2, <2>3 DEF Store
  <2>6. \A n \in Messages : OnceIn(Append(h, e), n)
    <3>. SUFFICES ASSUME NEW n \in Messages, NEW i \in 1..(Len(h) + 1), NEW k \in 1..(Len(h) + 1),
                         IsTrigger(Append(h, e)[i], n), IsTrigger(Append(h, e)[k], n)
                  PROVE  i = k
      BY <2>2 DEF OnceIn
    <3>. HIDE DEF h
    <3>1. CASE i \in DOMAIN h /\ k \in DOMAIN h
      BY <2>2, <2>4, <3>1 DEF OnceIn
    <3>2. CASE i = Len(h) + 1 /\ k \in DOMAIN h
      BY <2>2, <2>3, <3>2 DEF IsTrigger
    <3>3. CASE k = Len(h) + 1 /\ i \in DOMAIN h
      BY <2>2, <2>3, <3>3 DEF IsTrigger
    <3>. QED BY <2>2, <3>1, <3>2, <3>3
  <2>. QED BY <1>1, <2>1, <2>5, <2>6 DEF FilesOK
<1>. QED BY <1>1, <1>2 DEF FilesOK, Store

\* What a step of a handler does to the memory.
LEMMA HandleMemory ==
  ASSUME TypeOK, NEW p \in Proc, Handle(p)
  PROVE  /\ Key(p) \in Jids /\ job[p] \in 1..Len(received) /\ job[p] \in Messages
         /\ Event(p) \in Inputs /\ now \in Seconds
         /\ \/ Emptied /\ (pc[p] = "command" \/ CheckFreshness(Key(p)) \/ UNCHANGED memory)
            \/ \E e \in Entry : /\ pc[p] = "storeUser" /\ Store(Key(p), e) /\ e.of = job[p]
                                /\ e.role = "user" /\ e.at = now /\ pc'[p] = "storeAnswer"
                                /\ e.what \notin {"blank", "answer"}
            \/ \E e \in Entry : /\ pc[p] = "storeAnswer" /\ Store(Key(p), e) /\ e.of = job[p]
                                /\ e.role = "assistant" /\ e.at = now /\ pc'[p] = "reply"
                                /\ e.what = answer[p]
<1>1. pc[p] # "idle"
  BY DEF Handle, Download, RunCommand, Freshen, Load, LlmAnswers, LlmFails, StoreUser,
         StoreAnswer, StoreAnswerFails, DiskFails, Reply, Apologise, Finish, Goto
<1>2. /\ Key(p) \in Jids /\ job[p] \in 1..Len(received) /\ job[p] \in Messages
      /\ Event(p) \in Inputs /\ now \in Seconds /\ Event(p).what # "subscribe"
      /\ MemoryOK /\ pc \in [Proc -> Stages]
  BY <1>1, BusyFacts DEF TypeOK, ProcOK
<1>3. CASE StoreUser(p)
  <2>1. UserEntry(job[p], Event(p)) \in Entry
    BY <1>2, EntryTypes
  <2>2. PICK e \in Entry : e = UserEntry(job[p], Event(p))
    BY <2>1
  <2>3. /\ e.of = job[p] /\ e.role = "user" /\ e.at = now
        /\ e.what \notin {"blank", "answer"}
    BY <1>2, <2>2, InputTypes DEF UserEntry
  <2>. QED BY <1>2, <1>3, <2>2, <2>3 DEF StoreUser, Goto
<1>4. CASE StoreAnswer(p)
  <2>1. answer[p] \in {"answer", "blank", "notice"}
    BY <1>4, ConstantsAssumption DEF StoreAnswer, Goto, TypeOK, StageOK, ProcOK
  <2>2. PICK e \in Entry : e = AssistantEntry(job[p], answer[p])
    BY <1>2, <2>1, EntryTypes
  <2>3. e.of = job[p] /\ e.role = "assistant" /\ e.at = now /\ e.what = answer[p]
    BY <2>2 DEF AssistantEntry
  <2>. QED BY <1>2, <1>4, <2>2, <2>3 DEF StoreAnswer, Goto
<1>5. CASE RunCommand(p)
  <2>1. Emptied
    BY <1>2, <1>5, MemoryEmptied DEF RunCommand
  <2>2. pc[p] = "command"
    BY <1>5 DEF RunCommand, Goto
  <2>. QED BY <1>2, <2>1, <2>2
<1>6. CASE Freshen(p)
  <2>1. Emptied
    BY <1>2, <1>6, MemoryEmptied DEF Freshen
  <2>2. CheckFreshness(Key(p))
    BY <1>6 DEF Freshen
  <2>. QED BY <1>2, <2>1, <2>2
<1>7. CASE DiskFails(p)
  <2>1. Emptied
    BY <1>2, <1>7, MemoryEmptied DEF DiskFails
  <2>2. UNCHANGED memory \/ pc[p] = "command"
    BY <1>7 DEF DiskFails
  <2>. QED BY <1>2, <2>1, <2>2
<1>8. CASE \/ Download(p) \/ Load(p) \/ LlmAnswers(p) \/ LlmFails(p) \/ StoreAnswerFails(p)
           \/ Reply(p) \/ Apologise(p)
  <2>1. UNCHANGED memory
    BY <1>8 DEF Download, Load, LlmAnswers, LlmFails, StoreAnswerFails, Reply, Apologise, Finish
  <2>. QED BY <1>2, <2>1, UnchangedEmptied
<1>. QED BY <1>3, <1>4, <1>5, <1>6, <1>7, <1>8 DEF Handle

\* ... and an arrival.
LEMMA ReceiveMemory ==
  ASSUME TypeOK, Receive
  PROVE  \E ev \in Inputs :
           /\ Arrive(ev) /\ ev.from \in Jids /\ pc[Main] = "idle"
           /\ Number = Len(received) + 1 /\ Number \in Messages
           /\ Len(received') = Number /\ received'[Number].ev = ev
           /\ \A n \in 1..Len(received) : received'[n] = received[n]
           /\ now' = now
           /\ \/ UNCHANGED memory /\ (StoredFirst(ev) => DiskMayFail)
              \/ \E e \in Entry : /\ Store(ev.from, e) /\ e.of = Number /\ e.role = "user"
                                  /\ e.at = now /\ e.what \notin {"blank", "answer"}
           /\ \/ UNCHANGED procs
              \/ \E p \in Proc, stage \in {"fetch", "command", "freshen"} :
                   Start(p, stage) /\ pc[p] = "idle"
<1>. PICK ev \in Inputs :
       \/ OverhearRoom(ev) \/ AskStored(ev) \/ RoomCommand(ev)
       \/ ChatCommand(ev) \/ ChatText(ev) \/ ChatFile(ev) \/ Subscribe(ev)
  BY DEF Receive
<1>1. Arrive(ev) /\ now' = now
  BY DEF OverhearRoom, AskStored, RoomCommand, ChatCommand, ChatText, ChatFile, Subscribe
<1>2. /\ ev.from \in Jids /\ pc[Main] = "idle"
      /\ Number = Len(received) + 1 /\ Number \in Messages
      /\ Len(received') = Number /\ received'[Number].ev = ev
      /\ \A n \in 1..Len(received) : received'[n] = received[n]
      /\ now \in Seconds
  <2>1. LogOK /\ Number = Len(received) + 1
    BY DEF TypeOK, Number
  <2>. QED BY <1>1, <2>1, ArriveExtends, InputTypes DEF Arrive, LogOK
<1>3. \/ UNCHANGED memory /\ (StoredFirst(ev) => DiskMayFail)
      \/ (ev.what # "subscribe" /\ Store(ev.from, UserEntry(Number, ev)))
  BY InputTypes DEF OverhearRoom, AskStored, RoomCommand, ChatCommand, ChatText, ChatFile,
                    Subscribe, StoreArrival, DiskOutcomes, StoredFirst, Commands
<1>4. \/ UNCHANGED memory /\ (StoredFirst(ev) => DiskMayFail)
      \/ \E e \in Entry : /\ Store(ev.from, e) /\ e.of = Number /\ e.role = "user"
                          /\ e.at = now /\ e.what \notin {"blank", "answer"}
  <2>. SUFFICES ASSUME ev.what # "subscribe", Store(ev.from, UserEntry(Number, ev))
                PROVE  \E e \in Entry : /\ Store(ev.from, e) /\ e.of = Number /\ e.role = "user"
                                        /\ e.at = now /\ e.what \notin {"blank", "answer"}
    BY <1>3
  <2>1. PICK e \in Entry : e = UserEntry(Number, ev)
    BY <1>2, EntryTypes
  <2>2. e.of = Number /\ e.role = "user" /\ e.at = now /\ e.what \notin {"blank", "answer"}
    BY <2>1, InputTypes DEF UserEntry, Commands
  <2>. QED BY <2>1, <2>2
<1>5. \/ UNCHANGED procs
      \/ \E p \in Proc, stage \in {"fetch", "command", "freshen"} : Start(p, stage)
          /\ pc[p] = "idle"
  BY <1>2 DEF OverhearRoom, AskStored, RoomCommand, ChatCommand, ChatText, ChatFile, Subscribe, Proc
<1>. QED BY <1>1, <1>2, <1>4, <1>5

LEMMA FilesStep == FreshInv /\ FilesOK /\ [Next]_vars => FilesOK'
<1>. SUFFICES ASSUME FreshInv, FilesOK, [Next]_vars PROVE FilesOK'
  OBVIOUS
<1>0. TypeOK /\ MemoryOK
  BY DEF FreshInv, TypeOK
<1>1. CASE Receive
  <2>1. CASE UNCHANGED memory
    BY <2>1, FilesEmptied, UnchangedEmptied
  <2>2. ASSUME NEW j \in Jids, NEW e \in Entry, Store(j, e), e.of = Len(received) + 1 PROVE FilesOK'
    <3>1. \A f \in stored : f.of # e.of
      BY <1>0, <2>2, Times DEF FreshInv, Timeline, TypeOK, LogOK
    <3>. QED BY <1>0, <2>2, <3>1, FilesStored
  <2>. QED BY <1>0, <1>1, <2>1, <2>2, ReceiveMemory
<1>2. ASSUME NEW p \in Proc, Handle(p) PROVE FilesOK'
  <2>1. CASE Emptied
    BY <2>1, FilesEmptied
  <2>2. ASSUME NEW e \in Entry, Store(Key(p), e), e.of = job[p], Key(p) \in Jids,
               pc[p] = "storeUser" \/ e.role = "assistant"
        PROVE  FilesOK'
    <3>1. e.role = "user" => \A f \in stored : f.of # e.of
      BY <2>2 DEF FreshInv, Ownership
    <3>. QED BY <1>0, <2>2, <3>1, FilesStored
  <2>. QED BY <1>0, <1>2, <2>1, <2>2, HandleMemory
<1>3. CASE Tick \/ Crash \/ Rest \/ UNCHANGED vars
  BY <1>3, FilesEmptied, UnchangedEmptied DEF Tick, Crash, Rest, vars
<1>. QED BY <1>1, <1>2, <1>3 DEF Next

\* Whoever writes a message that was received before is at the stage that does it.
LEMMA WroteBy ==
  ASSUME FreshInv, [Next]_vars, NEW n \in 1..Len(received), WroteUser(n)', ~WroteUser(n)
  PROVE  \E p \in Proc : job[p] = n /\ pc[p] = "storeUser"
<1>. PICK e \in stored' : e.of = n /\ e.role = "user" /\ e \notin stored
  BY DEF WroteUser
<1>0. TypeOK /\ Len(received) \in Nat
  BY DEF FreshInv, TypeOK, LogOK
<1>1. CASE Receive
  BY <1>0, <1>1, ReceiveMemory DEF Store, memory
<1>2. ASSUME NEW p \in Proc, Handle(p)
      PROVE  job[p] = n /\ pc[p] = "storeUser"
  BY <1>0, <1>2, HandleMemory DEF Store, Emptied
<1>3. CASE Tick \/ Crash \/ Rest \/ UNCHANGED vars
  BY <1>3 DEF Tick, Crash, Rest, vars, memory
<1>. QED BY <1>1, <1>2, <1>3 DEF Next

----------------------------------------------------------------------------
\* How far the tasks can push a stored message out of sight

LEMMA OwedBound ==
  ASSUME IsFiniteSet(Tasks), NEW S \in SUBSET (Tasks \X {1, 2})
  PROVE  IsFiniteSet(S) /\ Cardinality(S) \in Nat /\ Cardinality(S) <= 2 * Cardinality(Tasks)
<1>1. IsFiniteSet({1, 2}) /\ Cardinality({1, 2}) = 2
  <2>1. IsFiniteSet(1..2) /\ Cardinality(1..2) = 2
    <3>1. 1 \in Int /\ 2 \in Int
      OBVIOUS
    <3>2. IsFiniteSet(1..2) /\ Cardinality(1..2) = IF 1 > 2 THEN 0 ELSE 2 - 1 + 1
      BY <3>1, FS_Interval, Zenon
    <3>. QED BY <3>2
  <2>2. 1..2 = {1, 2}
    OBVIOUS
  <2>. QED BY <2>1, <2>2
<1>2. /\ IsFiniteSet(Tasks \X {1, 2})
      /\ Cardinality(Tasks \X {1, 2}) = Cardinality(Tasks) * 2
      /\ Cardinality(Tasks) \in Nat
  BY <1>1, FS_Product, FS_CardinalityType
<1>3. IsFiniteSet(S) /\ Cardinality(S) <= Cardinality(Tasks \X {1, 2})
  BY <1>2, FS_Subset
<1>. QED BY <1>2, <1>3, FS_CardinalityType

LEMMA ReachNew ==
  ASSUME NEW s \in Seq(Entry), NEW e \in Entry, NEW n, IsTrigger(e, n), NEW c \in Nat,
         c <= 2 * Cardinality(Tasks)
  PROVE  WithinReach(Append(s, e), n, c)
<1>1. /\ Len(Append(s, e)) = Len(s) + 1 /\ Append(s, e)[Len(s) + 1] = e
      /\ Len(s) + 1 \in DOMAIN Append(s, e) /\ Len(s) \in Nat
  OBVIOUS
<1>2. Len(Append(s, e)) - (Len(s) + 1) + c <= 2 * Cardinality(Tasks)
  BY <1>1
<1>. QED BY <1>1, <1>2 DEF WithinReach

LEMMA ReachKept ==
  ASSUME NEW s \in Seq(Entry), NEW n, NEW c \in Nat, NEW d \in Nat, WithinReach(s, n, c),
         Cardinality(Tasks) \in Nat
  PROVE  /\ d <= c => WithinReach(s, n, d)
         /\ d + 1 <= c => \A e \in Entry : WithinReach(Append(s, e), n, d)
<1>. PICK k \in DOMAIN s : IsTrigger(s[k], n) /\ Len(s) - k + c <= 2 * Cardinality(Tasks)
  BY DEF WithinReach
<1>1. k \in Int /\ Len(s) \in Nat
  OBVIOUS
<1>2. ASSUME d <= c PROVE WithinReach(s, n, d)
  BY <1>1, <1>2 DEF WithinReach
<1>3. ASSUME d + 1 <= c, NEW e \in Entry PROVE WithinReach(Append(s, e), n, d)
  <2>1. /\ k \in DOMAIN Append(s, e) /\ Append(s, e)[k] = s[k]
        /\ Len(Append(s, e)) = Len(s) + 1
    OBVIOUS
  <2>2. Len(Append(s, e)) - k + d <= 2 * Cardinality(Tasks)
    BY <1>1, <1>3, <2>1
  <2>. QED BY <2>1, <2>2 DEF WithinReach
<1>. QED BY <1>2, <1>3

\* A handler's step takes away what it stores from what is owed, and adds nothing to it.
LEMMA OwedShrinks ==
  ASSUME TypeOK, IsFiniteSet(Tasks), NEW p \in Proc, Handle(p)
  PROVE  /\ Cardinality(Owed) \in Nat /\ Cardinality(Owed') \in Nat
         /\ Cardinality(Owed') <= Cardinality(Owed)
         /\ (p # Main /\ (\/ pc[p] = "storeUser" /\ pc'[p] = "storeAnswer"
                          \/ pc[p] = "storeAnswer" /\ pc'[p] = "reply"))
              => Cardinality(Owed') + 1 <= Cardinality(Owed)
<1>1. Owed \subseteq Tasks \X {1, 2} /\ Owed' \subseteq Tasks \X {1, 2}
  BY DEF Owed
<1>2. IsFiniteSet(Owed) /\ Cardinality(Owed) \in Nat /\ Cardinality(Owed') \in Nat
  BY <1>1, OwedBound
<1>3. /\ \A q \in Proc \ {p} : pc'[q] = pc[q]
      /\ pc[p] \in {"storeUser", "storeAnswer", "reply", "apologise"} =>
           \/ pc[p] = "storeUser" /\ pc'[p] \in {"storeAnswer", "apologise"}
           \/ pc[p] = "storeAnswer" /\ pc'[p] \in {"reply", "apologise"}
           \/ pc[p] \in {"reply", "apologise"} /\ pc'[p] = "idle"
      /\ pc[p] # "idle"
  BY DEF TypeOK, ProcOK, Handle, Download, RunCommand, Freshen, Load, LlmAnswers, LlmFails,
         StoreUser, StoreAnswer, StoreAnswerFails, DiskFails, Reply, Apologise, Finish, Goto
<1>4. \A t \in Tasks : t \in Proc
  BY DEF Proc
<1>5. \A t \in Tasks : Due(t)' \subseteq Due(t)
  <2>. SUFFICES ASSUME NEW t \in Tasks PROVE Due(t)' \subseteq Due(t)
    OBVIOUS
  <2>1. CASE t # p
    BY <1>3, <1>4, <2>1 DEF Due
  <2>2. CASE t = p
    BY <1>3, <1>4, <2>2 DEF Due
  <2>. QED BY <2>1, <2>2
<1>6. Owed' \subseteq Owed
  BY <1>5 DEF Owed
<1>7. ASSUME NEW o \in Owed, o \notin Owed'
      PROVE  Cardinality(Owed') + 1 <= Cardinality(Owed)
  <2>1. Owed' \subseteq Owed \ {o}
    BY <1>6, <1>7
  <2>2. IsFiniteSet(Owed \ {o}) /\ Cardinality(Owed \ {o}) = Cardinality(Owed) - 1
    BY <1>2, FS_RemoveElement
  <2>3. Cardinality(Owed') <= Cardinality(Owed \ {o})
    BY <2>1, <2>2, FS_Subset
  <2>. QED BY <1>2, <2>2, <2>3
<1>8. ASSUME p # Main, pc[p] = "storeUser", pc'[p] = "storeAnswer"
      PROVE  <<p, 1>> \in Owed /\ <<p, 1>> \notin Owed'
  BY <1>8 DEF Owed, Due, Proc
<1>9. ASSUME p # Main, pc[p] = "storeAnswer", pc'[p] = "reply"
      PROVE  <<p, 2>> \in Owed /\ <<p, 2>> \notin Owed'
  BY <1>9 DEF Owed, Due, Proc
<1>10. Cardinality(Owed') <= Cardinality(Owed)
  BY <1>2, <1>6, FS_Subset
<1>. QED BY <1>2, <1>7, <1>8, <1>9, <1>10

LEMMA InSightStep ==
  FewTasks /\ TriggerInv /\ [Next]_vars => InSight'
<1>. SUFFICES ASSUME IsFiniteSet(Tasks), TriggerInv, [Next]_vars,
                     pc'[Main] \in {"freshen", "load"}, StoredFirst(Event(Main))',
                     WroteUser(job[Main])'
              PROVE  /\ mtime'[Key(Main)'] = now'
                     /\ WithinReach(history'[Key(Main)'], job'[Main], Cardinality(Owed'))
  BY DEF InSight, FewTasks
<1>0. /\ TypeOK /\ MemoryOK /\ FreshInv /\ now \in Seconds /\ Main \in Proc
      /\ Cardinality(Tasks) \in Nat /\ Len(received) \in Nat
  BY FS_CardinalityType DEF TriggerInv, FreshInv, TypeOK, LogOK, Proc
<1>1. /\ pc[Main] # "idle" => job[Main] \in 1..Len(received) /\ Key(Main) \in Jids
      /\ \A p, q \in Proc : (job[p] # 0 /\ job[p] = job[q]) => p = q
  BY <1>0, BusyFacts DEF FreshInv, Ownership
\* the message arrives
<1>2. CASE Receive
  <2>1. PICK ev \in Inputs :
          /\ ev.from \in Jids /\ pc[Main] = "idle" /\ Number = Len(received) + 1
          /\ received'[Number].ev = ev /\ now' = now
          /\ \/ UNCHANGED memory
             \/ \E e \in Entry : /\ Store(ev.from, e) /\ e.of = Number /\ e.role = "user"
                                 /\ e.at = now /\ e.what \notin {"blank", "answer"}
          /\ \/ UNCHANGED procs
             \/ \E p \in Proc, stage \in {"fetch", "command", "freshen"} :
                  Start(p, stage) /\ pc[p] = "idle"
    BY <1>0, <1>2, ReceiveMemory
  <2>2. job'[Main] = Number
    BY <1>0, <2>1 DEF Start, procs, TypeOK, ProcOK
  <2>3. Key(Main)' = ev.from
    BY <2>1, <2>2 DEF Key, JidOf, Ev
  <2>4. \A f \in stored : f.of # Number
    BY <1>0, <2>1, Times DEF FreshInv, Timeline
  <2>5. PICK f \in stored' : f.of = Number /\ f.role = "user"
    BY <2>2 DEF WroteUser
  <2>6. PICK e \in Entry : Store(ev.from, e) /\ e.of = Number /\ e.role = "user"
        /\ e.what \notin {"blank", "answer"}
    BY <2>1, <2>4, <2>5 DEF memory
  <2>7. /\ mtime'[ev.from] = now /\ history'[ev.from] = Append(history[ev.from], e)
        /\ history[ev.from] \in Seq(Entry)
    BY <1>0, <2>1, <2>6 DEF Store, MemoryOK
  <2>8. Owed' \in SUBSET (Tasks \X {1, 2})
    BY DEF Owed
  <2>9. WithinReach(Append(history[ev.from], e), Number, Cardinality(Owed'))
    BY <2>6, <2>7, <2>8, OwedBound, ReachNew DEF IsTrigger
  <2>. QED BY <2>1, <2>2, <2>3, <2>7, <2>9
\* it waits
<1>3. ASSUME pc[Main] \in {"freshen", "load"}, job'[Main] = job[Main],
             \A n \in 1..Len(received) : received'[n] = received[n],
             \A p \in Proc : job[p] = job[Main] => pc[p] # "storeUser"
      PROVE  /\ mtime[Key(Main)] = now /\ Key(Main)' = Key(Main) /\ Key(Main) \in Jids
             /\ history[Key(Main)] \in Seq(Entry)
             /\ WithinReach(history[Key(Main)], job[Main], Cardinality(Owed))
  <2>1. job[Main] \in 1..Len(received) /\ Key(Main) \in Jids
    BY <1>1, <1>3
  <2>2. Event(Main)' = Event(Main) /\ Key(Main)' = Key(Main)
    BY <1>3, <2>1 DEF Event, Ev, Key, JidOf
  <2>3. StoredFirst(Event(Main)) /\ WroteUser(job[Main])
    BY <1>0, <1>3, <2>1, <2>2, WroteBy DEF StoredFirst
  <2>. QED BY <1>0, <1>3, <2>1, <2>2, <2>3 DEF TriggerInv, InSight, MemoryOK
<1>4. ASSUME NEW p \in Proc, Handle(p)
      PROVE  /\ mtime'[Key(Main)'] = now'
             /\ WithinReach(history'[Key(Main)'], job'[Main], Cardinality(Owed'))
  <2>1. /\ UNCHANGED <<received, now>>
        /\ pc[Main] \in {"freshen", "load"} /\ job'[Main] = job[Main]
        /\ p = Main => Freshen(p)
    BY <1>0, <1>4 DEF TypeOK, ProcOK, StageOK, Handle, Download, RunCommand, Freshen, Load,
        LlmAnswers,
      LlmFails, StoreUser, StoreAnswer, StoreAnswerFails, DiskFails, Reply, Apologise, Finish, Goto
  <2>2. \A q \in Proc : job[q] = job[Main] => pc[q] # "storeUser"
    BY <1>0, <1>1, <2>1 DEF TypeOK, StageOK
  <2>3. /\ mtime[Key(Main)] = now /\ Key(Main)' = Key(Main) /\ Key(Main) \in Jids
        /\ history[Key(Main)] \in Seq(Entry)
        /\ WithinReach(history[Key(Main)], job[Main], Cardinality(Owed))
    BY <1>3, <2>1, <2>2
  <2>4. /\ Cardinality(Owed) \in Nat /\ Cardinality(Owed') \in Nat
        /\ Cardinality(Owed') <= Cardinality(Owed)
    BY <1>0, <1>4, OwedShrinks
  <2>5. WithinReach(history[Key(Main)], job[Main], Cardinality(Owed'))
    BY <1>0, <2>3, <2>4, ReachKept
  <2>6. CASE history'[Key(Main)] = history[Key(Main)] /\ mtime'[Key(Main)] = now
    BY <2>1, <2>3, <2>5, <2>6
  <2>7. CASE pc[p] = "command"
    BY <1>0, <2>1, <2>7 DEF TypeOK, StageOK
  <2>8. CASE CheckFreshness(Key(p)) \/ UNCHANGED memory
    <3>1. ~Stale(Key(Main))
      BY <1>0, <2>3, ConstantsAssumption DEF Stale, Seconds
    <3>2. Key(p) \in Jids
      BY <1>0, <1>4, HandleMemory
    <3>3. history'[Key(Main)] = history[Key(Main)] /\ mtime'[Key(Main)] = now
      BY <1>0, <2>3, <2>8, <3>1, <3>2 DEF CheckFreshness, NewSession, memory, MemoryOK
    <3>. QED BY <2>6, <3>3
  <2>9. ASSUME NEW e \in Entry, Store(Key(p), e), Key(p) \in Jids,
               \/ pc[p] = "storeUser" /\ pc'[p] = "storeAnswer"
               \/ pc[p] = "storeAnswer" /\ pc'[p] = "reply"
        PROVE  /\ mtime'[Key(Main)'] = now'
               /\ WithinReach(history'[Key(Main)'], job'[Main], Cardinality(Owed'))
    <3>1. p # Main
      BY <2>1, <2>9
    <3>2. Cardinality(Owed') + 1 <= Cardinality(Owed)
      BY <1>0, <1>4, <2>9, <3>1, OwedShrinks
    <3>3. CASE Key(p) = Key(Main)
      <4>1. mtime'[Key(Main)] = now
        BY <1>0, <2>3, <2>9, <3>3 DEF Store, MemoryOK
      <4>2. \/ history'[Key(Main)] = history[Key(Main)]
            \/ history'[Key(Main)] = Append(history[Key(Main)], e)
        BY <1>0, <2>3, <2>9, <3>3 DEF Store, MemoryOK
      <4>3. WithinReach(Append(history[Key(Main)], e), job[Main], Cardinality(Owed'))
        BY <1>0, <2>3, <2>4, <2>9, <3>2, ReachKept
      <4>. QED BY <2>1, <2>3, <2>5, <4>1, <4>2, <4>3
    <3>4. CASE Key(p) # Key(Main)
      <4>1. history'[Key(Main)] = history[Key(Main)] /\ mtime'[Key(Main)] = mtime[Key(Main)]
        BY <1>0, <2>3, <2>9, <3>4 DEF Store, MemoryOK
      <4>. QED BY <2>3, <2>6, <4>1
    <3>. QED BY <3>3, <3>4
  <2>. QED BY <1>0, <1>4, <2>7, <2>8, <2>9, HandleMemory
<1>5. CASE Tick
  BY <1>0, <1>5 DEF Tick, procs
<1>6. CASE Crash
  BY <1>0, <1>6 DEF Crash
<1>7. CASE Rest \/ UNCHANGED vars
  <2>1. UNCHANGED <<received, memory, procs, now>>
    BY <1>7 DEF Rest, vars
  <2>2. UNCHANGED <<history, mtime, stored, pc, job>>
    BY <2>1 DEF memory, procs
  <2>3. StoredFirst(Event(Main)) /\ WroteUser(job[Main]) /\ Key(Main)' = Key(Main) /\ Owed' = Owed
    BY <2>1, <2>2 DEF StoredFirst, Event, Ev, WroteUser, Key, JidOf, Owed, Due
  <2>. QED BY <2>1, <2>2, <2>3 DEF TriggerInv, InSight
<1>. QED BY <1>2, <1>4, <1>5, <1>6, <1>7 DEF Next

----------------------------------------------------------------------------
\* The prompt

LEMMA RecentOnce ==
  ASSUME NEW h \in Seq(Entry), NEW n, OnceIn(h, n), NEW k \in DOMAIN h, IsTrigger(h[k], n),
         Len(h) - k < MaxHistory
  PROVE  OnlyOne(Recent(h), n)
<1>. DEFINE a == IF Len(h) > MaxHistory THEN Len(h) - MaxHistory + 1 ELSE 1
<1>1. Len(h) \in Nat /\ MaxHistory \in Nat /\ k \in 1..Len(h) /\ DOMAIN h = 1..Len(h)
  BY ConstantsAssumption
<1>2. a \in 1..k
  BY <1>1
<1>3. Recent(h) = SubSeq(h, a, Len(h))
  BY DEF Recent
<1>. HIDE DEF a
<1>4. /\ DOMAIN Recent(h) = 1..(Len(h) - a + 1)
      /\ \A i \in 1..(Len(h) - a + 1) : Recent(h)[i] = h[a + i - 1]
  BY <1>1, <1>2, <1>3
<1>5. k - a + 1 \in DOMAIN Recent(h) /\ Recent(h)[k - a + 1] = h[k]
  <2>1. k - a + 1 \in 1..(Len(h) - a + 1) /\ a + (k - a + 1) - 1 = k
    BY <1>1, <1>2
  <2>. QED BY <1>4, <2>1
<1>6. ASSUME NEW i \in DOMAIN Recent(h), IsTrigger(Recent(h)[i], n)
      PROVE  i = k - a + 1
  <2>1. a + i - 1 \in DOMAIN h /\ IsTrigger(h[a + i - 1], n)
    <3>1. i \in 1..(Len(h) - a + 1)
      BY <1>4, <1>6
    <3>2. Recent(h)[i] = h[a + i - 1]
      BY <1>4, <3>1
    <3>3. a + i - 1 \in 1..Len(h)
      BY <1>1, <1>2, <3>1
    <3>. QED BY <1>1, <1>6, <3>2, <3>3
  <2>2. a + i - 1 = k
    BY <2>1 DEF OnceIn
  <2>. QED BY <1>1, <1>2, <1>4, <2>2
<1>. QED BY <1>5, <1>6 DEF OnlyOne

LEMMA PushedOnce ==
  ASSUME NEW s \in Seq(Entry), NEW e \in Entry, NEW n, IsTrigger(e, n),
         \A i \in DOMAIN s : ~IsTrigger(s[i], n)
  PROVE  OnlyOne(s \o <<e>>, n)
<1>1. /\ DOMAIN (s \o <<e>>) = 1..(Len(s) + 1) /\ (s \o <<e>>)[Len(s) + 1] = e
      /\ \A i \in 1..Len(s) : (s \o <<e>>)[i] = s[i]
      /\ DOMAIN s = 1..Len(s) /\ Len(s) \in Nat
  OBVIOUS
<1>. QED BY <1>1 DEF OnlyOne

\* What is read from a session is in it.
LEMMA RecentParts ==
  ASSUME NEW h \in Seq(Entry)
  PROVE  \A i \in DOMAIN Recent(h) : \E k \in DOMAIN h : Recent(h)[i] = h[k]
<1>. DEFINE a == IF Len(h) > MaxHistory THEN Len(h) - MaxHistory + 1 ELSE 1
<1>1. Len(h) \in Nat /\ MaxHistory \in Nat /\ DOMAIN h = 1..Len(h)
  BY ConstantsAssumption
<1>2. a \in Nat /\ a >= 1
  BY <1>1
<1>3. Recent(h) = SubSeq(h, a, Len(h))
  BY DEF Recent
<1>. HIDE DEF a
<1>4. /\ DOMAIN Recent(h) = 1..(Len(h) - a + 1)
      /\ \A i \in 1..(Len(h) - a + 1) : Recent(h)[i] = h[a + i - 1]
  BY <1>1, <1>2, <1>3
<1>5. \A i \in DOMAIN Recent(h) : a + i - 1 \in DOMAIN h
  BY <1>1, <1>2, <1>4
<1>. QED BY <1>4, <1>5

LEMMA LoadsOnce ==
  ASSUME FewTasks, TriggerInv, NEW p \in Proc, Load(p)
  PROVE  PromptAt(p)'
<1>0. /\ TypeOK /\ FreshInv /\ pc[p] = "load" /\ UNCHANGED <<received, memory, job, now>>
      /\ Main \in Proc /\ IsFiniteSet(Tasks)
  BY DEF TriggerInv, FreshInv, Load, Goto, Proc, FewTasks
<1>1. /\ job[p] \in 1..Len(received) /\ job[p] \in Messages /\ Key(p) \in Jids
      /\ Event(p) \in Inputs /\ Event(p).what # "subscribe" /\ now \in Seconds
  BY <1>0, BusyFacts
<1>2. history[Key(p)] \in Seq(Entry) /\ OnceIn(history[Key(p)], job[p])
  BY <1>0, <1>1 DEF TypeOK, MemoryOK, TriggerInv, FilesOK
<1>3. /\ Event(p)' = Event(p)
      /\ prompt'[p] = Recent(history[Key(p)]) \o
           (IF StoredFirst(Event(p)) THEN <<>> ELSE <<UserEntry(job[p], Event(p))>>)
  BY <1>0 DEF Event, Ev, Load, TypeOK, ProcOK
<1>. SUFFICES ASSUME StoredFirst(Event(p))' => WroteUser(job[p])'
              PROVE  OnlyOne(prompt'[p], job[p])
  BY <1>0 DEF PromptAt
<1>4. CASE StoredFirst(Event(p))
  <2>1. p = Main /\ WroteUser(job[p])
    <3>1. WroteUser(job[p])
      BY <1>0, <1>3, <1>4 DEF WroteUser, memory, StoredFirst
    <3>. QED BY <3>1, <1>1, <1>4 DEF TriggerInv, Fits, FitsAt
  <2>2. WithinReach(history[Key(p)], job[p], Cardinality(Owed))
    BY <1>0, <1>4, <2>1 DEF TriggerInv, InSight
  <2>3. PICK k \in DOMAIN history[Key(p)] :
          /\ IsTrigger(history[Key(p)][k], job[p])
          /\ Len(history[Key(p)]) - k + Cardinality(Owed) <= 2 * Cardinality(Tasks)
    BY <2>2 DEF WithinReach
  <2>4. Owed \in SUBSET (Tasks \X {1, 2})
    BY DEF Owed
  <2>5. Cardinality(Owed) \in Nat /\ Cardinality(Tasks) \in Nat
    BY <1>0, <2>4, OwedBound, FS_CardinalityType
  <2>6. Len(history[Key(p)]) - k < MaxHistory
    <3>1. k \in Int /\ Len(history[Key(p)]) \in Nat
      BY <1>2
    <3>. QED BY <2>3, <2>5, <3>1, ConstantsAssumption DEF FewTasks
  <2>7. OnlyOne(Recent(history[Key(p)]), job[p])
    BY <1>2, <2>3, <2>6, RecentOnce
  <2>8. prompt'[p] = Recent(history[Key(p)])
    <3>1. Recent(history[Key(p)]) \in Seq(Entry)
      BY <1>2, RecentType
    <3>. QED BY <1>3, <1>4, <3>1
  <2>. QED BY <2>7, <2>8
<1>5. CASE ~StoredFirst(Event(p))
  <2>1. \A e \in stored : e.of # job[p]
    BY <1>0, <1>5 DEF FreshInv, Ownership
  <2>2. \A k \in DOMAIN history[Key(p)] : history[Key(p)][k].of # job[p]
    BY <1>1, <2>1 DEF TriggerInv, FilesOK
  <2>3. \A i \in DOMAIN Recent(history[Key(p)]) : ~IsTrigger(Recent(history[Key(p)])[i], job[p])
    BY <1>2, <2>2, RecentParts DEF IsTrigger
  <2>4. Recent(history[Key(p)]) \in Seq(Entry)
    BY <1>2, RecentType
  <2>5. UserEntry(job[p], Event(p)) \in Entry
    BY <1>1, EntryTypes
  <2>6. IsTrigger(UserEntry(job[p], Event(p)), job[p])
    BY DEF IsTrigger, UserEntry
  <2>. QED BY <1>3, <1>5, <2>3, <2>4, <2>5, <2>6, PushedOnce
<1>. QED BY <1>4, <1>5

LEMMA PromptStep ==
  FewTasks /\ TriggerInv /\ [Next]_vars => \A p \in Proc : PromptAt(p)'
<1>. SUFFICES ASSUME FewTasks, TriggerInv, [Next]_vars, NEW p \in Proc, pc'[p] = "llm"
              PROVE  PromptAt(p)'
  BY DEF PromptAt
<1>0. TypeOK /\ FreshInv /\ Len(received) \in Nat /\ Main \in Proc
  BY DEF TriggerInv, FreshInv, TypeOK, LogOK, Proc
<1>1. CASE Load(p)
  BY <1>1, LoadsOnce
<1>2. CASE ~Load(p)
  <2>1. pc[p] = "llm" /\ job'[p] = job[p] /\ prompt'[p] = prompt[p]
    <3>1. CASE Receive
      BY <1>0, <3>1, ReceiveMemory DEF Start, procs, TypeOK, ProcOK
    <3>2. ASSUME NEW q \in Proc, Handle(q)
          PROVE  pc[p] = "llm" /\ job'[p] = job[p] /\ prompt'[p] = prompt[p]
      BY <1>0, <1>2, <3>2 DEF TypeOK, ProcOK, Handle, Download, RunCommand, Freshen, Load,
        LlmAnswers, LlmFails, StoreUser, StoreAnswer, StoreAnswerFails, DiskFails, Reply, Apologise,
        Finish, Goto
    <3>3. CASE Tick \/ Crash \/ Rest \/ UNCHANGED vars
      BY <3>3 DEF Tick, Crash, Rest, vars, procs
    <3>. QED BY <3>1, <3>2, <3>3 DEF Next
  <2>2. job[p] \in 1..Len(received)
    BY <1>0, <2>1, BusyFacts
  <2>3. Event(p)' = Event(p)
    BY <1>0, <2>1, <2>2, LogStep DEF Event, Ev
  <2>4. WroteUser(job[p])' => WroteUser(job[p])
    <3>1. \A q \in Proc : job[q] = job[p] => q = p
      BY <1>0, <2>2 DEF FreshInv, Ownership
    <3>2. PICK n \in 1..Len(received) : n = job[p]
      BY <2>2
    <3>3. WroteUser(n)' => WroteUser(n)
      BY <1>0, <2>1, <3>1, <3>2, WroteBy
    <3>. QED BY <2>1, <3>2, <3>3 DEF WroteUser
  <2>5. PromptAt(p)
    BY DEF TriggerInv
  <2>6. (StoredFirst(Event(p))' => WroteUser(job[p])') => OnlyOne(prompt[p], job[p])
    BY <2>1, <2>3, <2>4, <2>5 DEF PromptAt, StoredFirst
  <2>. QED BY <2>1, <2>6 DEF PromptAt
<1>. QED BY <1>1, <1>2

\* The LLM is shown the message it is asked about once, with any number of file tasks
\* beside the loop that is less than half the window of the history (get_history loads the
\* last MAX_HISTORY = 20 entries, each task stores two).
THEOREM TriggerOnceHolds == FewTasks => (Spec => []TriggerInPromptOnce)
<1>1. Init => TriggerInv
  <2>. SUFFICES ASSUME Init PROVE TriggerInv
    OBVIOUS
  <2>1. FilesOK /\ InSight /\ \A p \in Proc : PromptAt(p)
    BY DEF Init, FilesOK, OnceIn, InSight, PromptAt, Proc
  <2>. QED BY <2>1, FreshInit, RecordInit, FitsInit DEF TriggerInv
<1>2. FewTasks /\ TriggerInv /\ [Next]_vars => TriggerInv'
  <2>. SUFFICES ASSUME FewTasks, TriggerInv, [Next]_vars PROVE TriggerInv'
    OBVIOUS
  <2>1. FreshInv' /\ RecordInv' /\ Fits' /\ FilesOK'
    BY FreshStep, RecordStep, FitsStep, FilesStep DEF TriggerInv, RecordInv
  <2>. QED BY <2>1, InSightStep, PromptStep DEF TriggerInv
<1>3. TriggerInv => TriggerInPromptOnce
  BY DEF TriggerInv, PromptAt, OnlyOne, IsTrigger, TriggerInPromptOnce
<1>4. CASE FewTasks
  <2>1. TriggerInv /\ [Next]_vars => TriggerInv'
    BY <1>2, <1>4
  <2>. QED BY <1>1, <1>3, <2>1, PTL DEF Spec
<1>. QED BY <1>4

----------------------------------------------------------------------------
\* The loop alone, without file tasks

Resets      == {"new", "forget"}
After(s, k) == \A i \in DOMAIN s : s[i].of >= k

\* Without tasks, the loop handles the message that came last.
LastJob == job[Main] \in {0, Len(received)}

\* A session holds nothing from before a reset that was answered ...
CutFile ==
  \A j \in Jids : \A k \in 1..Len(received) :
    (JidOf(k) = j /\ DidReset(k, Resets)) => After(history[j], k)

\* ... or is about to be.
Cutting ==
  (pc[Main] \in {"storeAnswer", "reply"} /\ answer[Main] = "notice" /\ Event(Main).what \in Resets)
    => After(history[Key(Main)], job[Main])

\* The invariant behind ResetCutsContext
CutInv == /\ FreshInv /\ RecordInv /\ Fits
          /\ LastJob /\ CutFile /\ Cutting /\ ResetCutsContext

LEMMA LastJobStep ==
  Tasks = {} /\ TypeOK /\ LastJob /\ [Next]_vars => LastJob'
<1>. SUFFICES ASSUME Tasks = {}, TypeOK, LastJob, [Next]_vars PROVE LastJob'
  OBVIOUS
<1>0. Proc = {Main} /\ Main \in Proc
  BY DEF Proc
<1>1. CASE Receive
  <2>1. pc[Main] = "idle" => job[Main] = 0
    BY <1>0 DEF TypeOK, StageOK
  <2>. QED BY <1>0, <1>1, <2>1, ReceiveMemory DEF Start, procs, TypeOK, ProcOK, LastJob
<1>2. ASSUME NEW p \in Proc, Handle(p) PROVE LastJob'
  BY <1>0, <1>2 DEF TypeOK, ProcOK, LastJob, Handle, Download, RunCommand, Freshen, Load,
      LlmAnswers,
    LlmFails, StoreUser, StoreAnswer, StoreAnswerFails, DiskFails, Reply, Apologise, Finish
<1>3. CASE Tick \/ Crash \/ Rest \/ UNCHANGED vars
  BY <1>0, <1>3 DEF Tick, Crash, Rest, vars, procs, LastJob
<1>. QED BY <1>1, <1>2, <1>3 DEF Next

LEMMA NoNotice ==
  \A cmds \in {<<>>, <<Composing>>, <<Accepted>>, <<Paused>>, <<Sorry>>, <<Paused, Sorry>>} :
    \A i \in DOMAIN cmds : cmds[i].body # "notice"
<1>. SUFFICES ASSUME NEW cmds \in {<<>>, <<Composing>>, <<Accepted>>, <<Paused>>, <<Sorry>>,
                                   <<Paused, Sorry>>},
                     NEW i \in DOMAIN cmds
              PROVE  cmds[i].body # "notice"
  OBVIOUS
<1>1. CASE cmds = <<Paused, Sorry>>
  <2>1. /\ DOMAIN <<Paused, Sorry>> = {1, 2}
        /\ <<Paused, Sorry>>[1] = Paused /\ <<Paused, Sorry>>[2] = Sorry
    BY CommandTypes, TwoCommands
  <2>2. cmds[i] \in {Paused, Sorry}
    BY <1>1, <2>1
  <2>. QED BY <2>2, NoAnswers
<1>2. ASSUME NEW c \in {Composing, Accepted, Paused, Sorry}, cmds = <<c>>
      PROVE  cmds[i].body # "notice"
  <2>1. cmds[i] = c
    BY <1>2
  <2>. QED BY <2>1, NoAnswers
<1>3. cmds # <<>>
  OBVIOUS
<1>. QED BY <1>1, <1>2, <1>3

\* A reset is answered by the handler that replies.
LEMMA ResetBy ==
  ASSUME RecordInv, [Next]_vars, NEW k \in 1..Len(received'), DidReset(k, Resets)'
  PROVE  /\ k \in 1..Len(received) /\ JidOf(k)' = JidOf(k)
         /\ \/ DidReset(k, Resets)
            \/ \E p \in Proc : /\ job[p] = k /\ pc[p] = "reply" /\ answer[p] = "notice"
                               /\ Event(p).what \in Resets /\ UNCHANGED memory
<1>0. TypeOK /\ Len(received) \in Nat /\ out \in [Messages -> Seq(Command)]
      /\ \A n \in 1..Len(received) : n \in Messages
  BY ConstantsAssumption DEF RecordInv, TypeOK, LogOK, Messages
<1>1. CASE Receive
  <2>1. /\ Number = Len(received) + 1 /\ Len(received') = Number
        /\ \A n \in 1..Len(received) : received'[n] = received[n]
        /\ \A n \in 1..Len(received) : out'[n] = out[n]
        /\ out'[Number] \in {<<>>, <<Composing>>, <<Accepted>>}
    BY <1>0, <1>1, ReceiveSends
  <2>2. \A i \in DOMAIN out'[Number] : out'[Number][i].body # "notice"
    BY <2>1, NoNotice
  <2>3. k # Number
    BY <2>2 DEF DidReset
  <2>4. k \in 1..Len(received)
    BY <1>0, <2>1, <2>3
  <2>. QED BY <2>1, <2>4 DEF DidReset, JidOf, Ev
<1>2. ASSUME received' = received, out'[k] = out[k]
      PROVE  k \in 1..Len(received) /\ JidOf(k)' = JidOf(k) /\ DidReset(k, Resets)
  BY <1>2 DEF DidReset, JidOf, Ev
<1>3. ASSUME NEW p \in Proc, Handle(p)
      PROVE  /\ k \in 1..Len(received) /\ JidOf(k)' = JidOf(k)
             /\ \/ DidReset(k, Resets)
                \/ /\ job[p] = k /\ pc[p] = "reply" /\ answer[p] = "notice"
                   /\ Event(p).what \in Resets /\ UNCHANGED memory
  <2>1. received' = received /\ k \in 1..Len(received) /\ k \in Messages
    BY <1>0, <1>3, HandleSends
  <2>2. CASE out'[k] = out[k]
    BY <1>2, <2>1, <2>2
  <2>3. ASSUME NEW cmds \in Seq(Command), NEW from \in {"reply", "apologise"},
               Finish(p, from, cmds),
               out'[k] # out[k], ~DidReset(k, Resets)
        PROVE  /\ job[p] = k /\ UNCHANGED memory /\ Ev(k).what \in Resets
               /\ \E i \in DOMAIN cmds : cmds[i].body = "notice"
    <3>0. /\ out'[job[p]] = out[job[p]] \o cmds
          /\ \A n \in Messages \ {job[p]} : out'[n] = out[n]
      BY <2>3, FinishSends
    <3>1. job[p] = k /\ out'[k] = out[k] \o cmds
      BY <2>1, <2>3, <3>0
    <3>2. out[k] \in Seq(Command)
      BY <1>0, <2>1
    <3>3. Ev(k).what \in Resets /\ \A i \in DOMAIN out[k] : out[k][i].body # "notice"
      BY <2>1, <2>3 DEF DidReset, Ev
    <3>4. PICK i \in DOMAIN (out[k] \o cmds) : (out[k] \o cmds)[i].body = "notice"
      BY <3>1 DEF DidReset
    <3>5. i > Len(out[k])
      BY <3>2, <3>3, <3>4
    <3>6. i - Len(out[k]) \in DOMAIN cmds /\ (out[k] \o cmds)[i] = cmds[i - Len(out[k])]
      BY <3>2, <3>5
    <3>. QED BY <2>3, <3>1, <3>3, <3>4, <3>6 DEF Finish
  <2>4. \A cmds \in {<<Paused>>, <<Sorry>>, <<Paused, Sorry>>} :
          \A i \in DOMAIN cmds : cmds[i].body # "notice"
    BY NoNotice
  <2>5. \A cmds : Finish(p, "reply", cmds) => pc[p] = "reply"
    BY DEF Finish, Goto
  <2>6. ASSUME NEW i \in DOMAIN <<Text(answer[p], ReplyId(job[p], Event(p)))>>,
               <<Text(answer[p], ReplyId(job[p], Event(p)))>>[i].body = "notice"
        PROVE  answer[p] = "notice"
    BY <2>6 DEF Text
  <2>7. CASE UNCHANGED out
    BY <2>2, <2>7
  <2>8. ASSUME NEW cmds \in Closings(p), Finish(p, "apologise", cmds),
               cmds \in {<<Paused>>, <<Sorry>>, <<Paused, Sorry>>}
        PROVE  DidReset(k, Resets)
    <3>1. cmds \in Seq(Command)
      BY <2>8, ApologyTypes
    <3>. QED BY <1>2, <2>1, <2>3, <2>4, <2>8, <3>1
  <2>9. ASSUME Finish(p, "reply", <<Text(answer[p], ReplyId(job[p], Event(p)))>>),
               ~DidReset(k, Resets)
        PROVE  /\ job[p] = k /\ pc[p] = "reply" /\ answer[p] = "notice"
               /\ Event(p).what \in Resets /\ UNCHANGED memory
    <3>1. pc[p] = "reply" /\ <<Text(answer[p], ReplyId(job[p], Event(p)))>> \in Seq(Command)
      BY <2>5, <2>9, ClosingType
    <3>2. out'[k] # out[k]
      BY <1>2, <2>1, <2>9
    <3>3. /\ job[p] = k /\ UNCHANGED memory /\ Ev(k).what \in Resets
          /\ \E i \in DOMAIN <<Text(answer[p], ReplyId(job[p], Event(p)))>> :
               <<Text(answer[p], ReplyId(job[p], Event(p)))>>[i].body = "notice"
      BY <2>3, <2>9, <3>1, <3>2
    <3>. QED BY <2>6, <3>1, <3>3 DEF Event
  <2>10. JidOf(k)' = JidOf(k)
    BY <2>1 DEF JidOf, Ev
  <2>. QED BY <1>3, <2>1, <2>7, <2>8, <2>9, <2>10, HandleSends
<1>4. CASE Tick \/ Crash \/ Rest \/ UNCHANGED vars
  BY <1>2, <1>4 DEF Tick, Crash, Rest, vars
<1>. QED BY <1>1, <1>3, <1>4 DEF Next

LEMMA AfterStored ==
  ASSUME MemoryOK, NEW j \in Jids, NEW i \in Jids, NEW e \in Entry, Store(i, e), NEW k \in Nat,
         After(history[j], k), e.of >= k
  PROVE  After(history'[j], k)
<1>1. \/ history'[j] = history[j]
      \/ history'[j] = Append(history[j], e) /\ history[j] \in Seq(Entry)
  BY DEF Store, MemoryOK
<1>2. CASE history'[j] = history[j]
  BY <1>2
<1>3. CASE history'[j] = Append(history[j], e) /\ history[j] \in Seq(Entry)
  <2>1. \A n \in DOMAIN history'[j] :
          \/ n \in DOMAIN history[j] /\ history'[j][n] = history[j][n]
          \/ history'[j][n] = e
    BY <1>3
  <2>. QED BY <2>1 DEF After
<1>. QED BY <1>1, <1>2, <1>3

LEMMA AfterEmptied ==
  ASSUME NEW j \in Jids, NEW k, After(history[j], k), Emptied
  PROVE  After(history'[j], k)
BY DEF After, Emptied

\* Every entry that is stored is as new as the last message.
LEMMA LoopStores ==
  ASSUME Tasks = {}, TypeOK, LastJob, [Next]_vars
  PROVE  \/ Emptied
         \/ \E j \in Jids, e \in Entry : Store(j, e) /\ e.of >= Len(received)
<1>0. Proc = {Main} /\ Main \in Proc /\ Len(received) \in Nat
  BY DEF Proc, TypeOK, LogOK
<1>1. CASE Receive
  BY <1>0, <1>1, ReceiveMemory, UnchangedEmptied
<1>2. ASSUME NEW p \in Proc, Handle(p)
      PROVE  Emptied \/ \E j \in Jids, e \in Entry : Store(j, e) /\ e.of >= Len(received)
  <2>1. job[p] \in 1..Len(received) /\ Key(p) \in Jids
    BY <1>2, HandleMemory
  <2>2. job[p] = Len(received)
    BY <1>0, <2>1 DEF LastJob
  <2>3. job[p] >= Len(received)
    BY <1>0, <2>2
  <2>. QED BY <1>2, <2>1, <2>3, HandleMemory
<1>3. CASE Tick \/ Crash \/ Rest \/ UNCHANGED vars
  BY <1>3, UnchangedEmptied DEF Tick, Crash, Rest, vars
<1>. QED BY <1>1, <1>2, <1>3 DEF Next

LEMMA CutFileStep ==
  Tasks = {} /\ CutInv /\ [Next]_vars => CutFile'
<1>. SUFFICES ASSUME Tasks = {}, CutInv, [Next]_vars, NEW j \in Jids, NEW k \in 1..Len(received'),
                     JidOf(k)' = j, DidReset(k, Resets)'
              PROVE  After(history'[j], k)
  BY DEF CutFile
<1>0. /\ RecordInv /\ TypeOK /\ MemoryOK /\ Len(received) \in Nat /\ Proc = {Main}
  BY DEF CutInv, RecordInv, TypeOK, LogOK, Proc
<1>1. /\ k \in 1..Len(received) /\ JidOf(k)' = JidOf(k)
      /\ \/ DidReset(k, Resets)
         \/ \E p \in Proc : /\ job[p] = k /\ pc[p] = "reply" /\ answer[p] = "notice"
                            /\ Event(p).what \in Resets /\ UNCHANGED memory
  BY <1>0, ResetBy
<1>2. CASE DidReset(k, Resets)
  <2>1. After(history[j], k)
    BY <1>1, <1>2 DEF CutInv, CutFile
  <2>2. \A e \in Entry : e.of >= Len(received) => e.of >= k
    BY <1>0, <1>1, ConstantsAssumption DEF Entry, Messages
  <2>3. k \in Nat
    BY <1>1
  <2>. QED BY <1>0, <2>1, <2>2, <2>3, LoopStores, AfterStored, AfterEmptied DEF CutInv
<1>3. CASE ~DidReset(k, Resets)
  <2>1. /\ job[Main] = k /\ pc[Main] = "reply" /\ answer[Main] = "notice"
        /\ Event(Main).what \in Resets /\ UNCHANGED memory
    BY <1>0, <1>1, <1>3
  <2>2. After(history[Key(Main)], k)
    BY <2>1 DEF CutInv, Cutting
  <2>. QED BY <1>1, <2>1, <2>2 DEF Key, memory
<1>. QED BY <1>2, <1>3

LEMMA CuttingStep ==
  Tasks = {} /\ CutInv /\ [Next]_vars => Cutting'
<1>. SUFFICES ASSUME Tasks = {}, CutInv, [Next]_vars,
                     pc'[Main] \in {"storeAnswer", "reply"}, answer'[Main] = "notice",
                     Event(Main)'.what \in Resets
              PROVE  After(history'[Key(Main)'], job'[Main])
  BY DEF Cutting
<1>0. /\ TypeOK /\ ProcOK /\ MemoryOK /\ Len(received) \in Nat /\ Proc = {Main} /\ Main \in Proc
  BY DEF CutInv, RecordInv, TypeOK, LogOK, Proc
<1>1. ASSUME UNCHANGED <<received, history, pc, job, answer>>
      PROVE  After(history'[Key(Main)'], job'[Main])
  BY <1>1 DEF CutInv, Cutting, Event, Ev, Key, JidOf
<1>2. CASE Receive
  <2>1. pc'[Main] \in {"idle", "fetch", "command", "freshen"}
    BY <1>0, <1>2, ReceiveMemory DEF Start, procs, ProcOK
  <2>. QED BY <2>1
<1>3. CASE Handle(Main)
  <2>0. /\ UNCHANGED <<received, job>> /\ Key(Main)' = Key(Main) /\ Event(Main)' = Event(Main)
        /\ Key(Main) \in Jids /\ job[Main] \in 1..Len(received)
    <3>1. UNCHANGED <<received, job>>
      BY <1>0, <1>3 DEF ProcOK, Handle, Download, RunCommand, Freshen, Load, LlmAnswers,
        LlmFails, StoreUser, StoreAnswer, StoreAnswerFails, DiskFails, Reply, Apologise, Finish,
        Goto
    <3>. QED BY <1>0, <1>3, <3>1, HandleMemory DEF Key, JidOf, Event, Ev
  <2>1. CASE RunCommand(Main)
    <3>1. history'[Key(Main)] = <<>>
      BY <1>0, <2>0, <2>1 DEF RunCommand, Resets, NewSession, Forget, memory, MemoryOK
    <3>. QED BY <2>0, <3>1 DEF After
  <2>2. CASE StoreAnswer(Main)
    <3>1. pc[Main] = "storeAnswer" /\ answer' = answer
      BY <2>2 DEF StoreAnswer, Goto
    <3>2. After(history[Key(Main)], job[Main])
      BY <2>0, <3>1 DEF CutInv, Cutting
    <3>3. PICK e \in Entry : Store(Key(Main), e) /\ e.of = job[Main]
      <4>1. job[Main] \in Messages /\ now \in Seconds /\ answer[Main] = "notice"
        BY <1>0, <1>3, <3>1, HandleMemory
      <4>2. PICK e \in Entry : e = AssistantEntry(job[Main], answer[Main])
        BY <4>1, EntryTypes
      <4>. QED BY <2>2, <4>2 DEF StoreAnswer, AssistantEntry
    <3>. QED BY <1>0, <2>0, <3>2, <3>3, AfterStored
  <2>3. CASE StoreAnswerFails(Main)
    <3>1. pc[Main] = "storeAnswer" /\ answer' = answer /\ history' = history
      BY <2>3 DEF StoreAnswerFails, Goto, memory
    <3>. QED BY <2>0, <3>1 DEF CutInv, Cutting
  <2>4. CASE ~RunCommand(Main) /\ ~StoreAnswer(Main) /\ ~StoreAnswerFails(Main)
    <3>1. pc[Main] \in {"llm", "storeUser"}
      BY <1>0, <1>3, <2>4 DEF ProcOK, Handle, Download, Freshen, Load, LlmAnswers,
        LlmFails, StoreUser, DiskFails, Reply, Apologise, Finish, Goto
    <3>2. Event(Main).what \notin Commands
      BY <1>0, <3>1 DEF CutInv, Fits, FitsAt
    <3>. QED BY <2>0, <3>2 DEF Resets, Commands
  <2>. QED BY <2>1, <2>2, <2>3, <2>4
<1>4. CASE Tick \/ Rest \/ UNCHANGED vars
  BY <1>1, <1>4 DEF Tick, Rest, vars, procs, memory
<1>5. CASE Crash
  BY <1>0, <1>5 DEF Crash
<1>. QED BY <1>0, <1>2, <1>3, <1>4, <1>5 DEF Next

\* Between two requests to the LLM, a prompt stays as it was loaded.
LEMMA PromptStays ==
  ASSUME TypeOK, [Next]_vars, NEW p \in Proc, pc'[p] = "llm"
  PROVE  \/ Load(p)
         \/ pc[p] = "llm" /\ job'[p] = job[p] /\ prompt'[p] = prompt[p]
<1>1. CASE Receive
  BY <1>1, ReceiveMemory DEF Start, procs, TypeOK, ProcOK
<1>2. ASSUME NEW q \in Proc, Handle(q), ~Load(p)
      PROVE  pc[p] = "llm" /\ job'[p] = job[p] /\ prompt'[p] = prompt[p]
  BY <1>2 DEF TypeOK, ProcOK, Handle, Download, RunCommand, Freshen, Load,
    LlmAnswers, LlmFails, StoreUser, StoreAnswer, StoreAnswerFails, DiskFails, Reply, Apologise,
    Finish, Goto
<1>3. CASE Tick \/ Crash \/ Rest \/ UNCHANGED vars
  BY <1>3 DEF Tick, Crash, Rest, vars, procs
<1>. QED BY <1>1, <1>2, <1>3 DEF Next

LEMMA LoadedPrompt ==
  ASSUME TypeOK, NEW p \in Proc, Load(p)
  PROVE  /\ Key(p)' = Key(p) /\ Event(p)' = Event(p) /\ UNCHANGED <<received, memory, job, out>>
         /\ Key(p) \in Jids /\ history[Key(p)] \in Seq(Entry) /\ pc[p] = "load"
         /\ job[p] \in 1..Len(received) /\ job[p] \in Messages
         /\ Recent(history[Key(p)]) \in Seq(Entry)
         /\ StoredFirst(Event(p)) => prompt'[p] = Recent(history[Key(p)])
         /\ ~StoredFirst(Event(p)) =>
              \E e \in Entry : /\ prompt'[p] = Recent(history[Key(p)]) \o <<e>>
                               /\ e.of = job[p] /\ e.role = "user"
<1>1. pc[p] = "load" /\ UNCHANGED <<received, memory, job, out>>
  BY DEF Load, Goto
<1>2. /\ job[p] \in 1..Len(received) /\ job[p] \in Messages /\ Key(p) \in Jids
      /\ Event(p) \in Inputs /\ Event(p).what # "subscribe" /\ now \in Seconds
  BY <1>1, BusyFacts
<1>3. history[Key(p)] \in Seq(Entry) /\ Recent(history[Key(p)]) \in Seq(Entry)
  BY <1>2, RecentType DEF TypeOK, MemoryOK
<1>4. prompt'[p] = Recent(history[Key(p)]) \o
           (IF StoredFirst(Event(p)) THEN <<>> ELSE <<UserEntry(job[p], Event(p))>>)
  BY DEF Event, Load, TypeOK, ProcOK
<1>5. PICK e \in Entry : e = UserEntry(job[p], Event(p))
  BY <1>2, EntryTypes
<1>6. e.of = job[p] /\ e.role = "user"
  BY <1>5 DEF UserEntry
<1>7. StoredFirst(Event(p)) => prompt'[p] = Recent(history[Key(p)])
  BY <1>3, <1>4
<1>8. ~StoredFirst(Event(p)) => prompt'[p] = Recent(history[Key(p)]) \o <<e>>
  BY <1>4, <1>5
<1>9. Key(p)' = Key(p) /\ Event(p)' = Event(p)
  BY <1>1 DEF Key, JidOf, Event, Ev
<1>. QED BY <1>1, <1>2, <1>3, <1>6, <1>7, <1>8, <1>9

LEMMA ResetCutsStep ==
  Tasks = {} /\ CutInv /\ [Next]_vars => ResetCutsContext'
<1>. SUFFICES ASSUME Tasks = {}, CutInv, [Next]_vars, NEW p \in Proc, pc'[p] = "llm",
                     NEW i \in DOMAIN prompt'[p], NEW k \in 1..job'[p],
                     JidOf(k)' = Key(p)', DidReset(k, Resets)'
              PROVE  prompt'[p][i].of >= k
  BY DEF ResetCutsContext, NothingBefore, Resets
<1>0. /\ RecordInv /\ TypeOK /\ TypeOK' /\ Len(received') \in Nat /\ p = Main /\ Proc = {Main}
  BY TypeStep DEF CutInv, RecordInv, TypeOK, LogOK, Proc
<1>1. k \in 1..Len(received')
  BY <1>0 DEF TypeOK, ProcOK
<1>2. pc[p] \in {"load", "llm"}
  BY <1>0, PromptStays DEF Load, Goto
<1>3. k \in 1..Len(received) /\ JidOf(k)' = JidOf(k) /\ DidReset(k, Resets)
  BY <1>0, <1>1, <1>2, ResetBy
<1>4. CASE Load(p)
  <2>1. /\ Key(p)' = Key(p) /\ job'[p] = job[p] /\ Key(p) \in Jids /\ history[Key(p)] \in Seq(Entry)
        /\ Recent(history[Key(p)]) \in Seq(Entry) /\ job[p] \in Nat
        /\ \/ prompt'[p] = Recent(history[Key(p)])
           \/ \E e \in Entry : prompt'[p] = Recent(history[Key(p)]) \o <<e>> /\ e.of = job[p]
    <3>1. job[p] \in Nat
      BY <1>0, <1>4, LoadedPrompt
    <3>2. \/ prompt'[p] = Recent(history[Key(p)])
          \/ \E e \in Entry : prompt'[p] = Recent(history[Key(p)]) \o <<e>> /\ e.of = job[p]
      BY <1>0, <1>4, LoadedPrompt
    <3>3. /\ Key(p)' = Key(p) /\ job'[p] = job[p] /\ Key(p) \in Jids
          /\ history[Key(p)] \in Seq(Entry) /\ Recent(history[Key(p)]) \in Seq(Entry)
      BY <1>0, <1>4, LoadedPrompt
    <3>. QED BY <3>1, <3>2, <3>3
  <2>2. After(history[Key(p)], k)
    BY <1>3, <2>1 DEF CutInv, CutFile
  <2>3. \A n \in DOMAIN Recent(history[Key(p)]) : Recent(history[Key(p)])[n].of >= k
    BY <2>1, <2>2, RecentParts DEF After
  <2>4. CASE prompt'[p] = Recent(history[Key(p)])
    BY <2>3, <2>4
  <2>5. ASSUME NEW e \in Entry, prompt'[p] = Recent(history[Key(p)]) \o <<e>>, e.of = job[p]
        PROVE  prompt'[p][i].of >= k
    <3>1. \/ /\ i \in DOMAIN Recent(history[Key(p)])
             /\ prompt'[p][i] = Recent(history[Key(p)])[i]
          \/ prompt'[p][i] = e
      BY <2>1, <2>5
    <3>2. job[p] >= k
      BY <2>1
    <3>. QED BY <2>3, <2>5, <3>1, <3>2
  <2>. QED BY <2>1, <2>4, <2>5
<1>5. CASE pc[p] = "llm" /\ job'[p] = job[p] /\ prompt'[p] = prompt[p]
  <2>1. job[p] \in 1..Len(received)
    BY <1>0, <1>5, BusyFacts
  <2>2. Key(p)' = Key(p)
    BY <1>0, <1>5, <2>1, LogStep DEF Key, JidOf, Ev
  <2>. QED BY <1>3, <1>5, <2>2 DEF CutInv, ResetCutsContext, NothingBefore, Resets
<1>. QED BY <1>0, <1>4, <1>5, PromptStays

\* With the loop alone, no prompt holds an entry older than a reset of the same JID that was
\* answered before, even if the disk fails or the process is restarted (runtime.rs,
\* handle_command; with file tasks beside it, a task that started before the reset stores
\* after it).
THEOREM ResetCutsContextHolds == Tasks = {} => (Spec => []ResetCutsContext)
<1>1. Init => CutInv
  <2>. SUFFICES ASSUME Init PROVE CutInv
    OBVIOUS
  <2>1. LastJob /\ CutFile /\ Cutting /\ ResetCutsContext
    BY DEF Init, LastJob, CutFile, Cutting, ResetCutsContext, NothingBefore, Proc
  <2>. QED BY <2>1, FreshInit, RecordInit, FitsInit DEF CutInv
<1>2. Tasks = {} /\ CutInv /\ [Next]_vars => CutInv'
  <2>. SUFFICES ASSUME Tasks = {}, CutInv, [Next]_vars PROVE CutInv'
    OBVIOUS
  <2>1. FreshInv' /\ RecordInv' /\ Fits' /\ LastJob'
    BY FreshStep, RecordStep, FitsStep, LastJobStep DEF CutInv, RecordInv
  <2>. QED BY <2>1, CutFileStep, CuttingStep, ResetCutsStep DEF CutInv
<1>3. CutInv => ResetCutsContext
  BY DEF CutInv
<1>4. CASE Tasks = {}
  <2>1. CutInv /\ [Next]_vars => CutInv'
    BY <1>2, <1>4
  <2>. QED BY <1>1, <1>3, <2>1, PTL DEF Spec
<1>. QED BY <1>4

----------------------------------------------------------------------------
\* The prompt ends with the message, and answers follow it

\* On a disk that does not fail, a message stored on arrival ends its session until the
\* history is read ...
AtEnd ==
  (pc[Main] \in {"freshen", "load"} /\ StoredFirst(Event(Main))) =>
    /\ mtime[Key(Main)] = now /\ history[Key(Main)] # <<>>
    /\ IsTrigger(history[Key(Main)][Len(history[Key(Main)])], job[Main])

\* ... and is in it until it is answered, as is the message a handler has stored itself.
Question ==
  (\/ pc[Main] = "llm" /\ StoredFirst(Event(Main))
   \/ pc[Main] = "storeAnswer" /\ answer[Main] = "answer")
    => \E k \in DOMAIN history[Key(Main)] : IsTrigger(history[Key(Main)][k], job[Main])

Answered(s) ==
  \A i \in DOMAIN s : s[i].what = "answer" =>
    \E k \in 1..(i - 1) : s[k].role = "user" /\ s[k].of = s[i].of

\* The invariant behind AnswersFollowQuestions and PromptEndsWithTrigger
AskInv == /\ FreshInv /\ RecordInv /\ Fits
          /\ AtEnd /\ Question /\ AnswersFollowQuestions /\ PromptEndsWithTrigger

LoopAlone == Tasks = {} /\ ~DiskMayFail

\* What the loop does to the session of the message it handles.
LEMMA LoopFacts ==
  ASSUME LoopAlone, AskInv
  PROVE  /\ TypeOK /\ ProcOK /\ MemoryOK /\ Len(received) \in Nat /\ now \in Seconds
         /\ Proc = {Main} /\ Main \in Proc
         /\ AtEnd /\ Question /\ AnswersFollowQuestions /\ PromptEndsWithTrigger
BY DEF LoopAlone, AskInv, RecordInv, TypeOK, LogOK, Proc

LEMMA MainFacts ==
  ASSUME LoopAlone, AskInv, Handle(Main)
  PROVE  /\ received' = received /\ now' = now
         /\ job[Main] \in 1..Len(received) /\ job[Main] \in Messages /\ Key(Main) \in Jids
         /\ history[Key(Main)] \in Seq(Entry) /\ now \in Seconds
         /\ Event(Main) \in Inputs /\ Event(Main).what # "subscribe"
         /\ job' = job => Key(Main)' = Key(Main) /\ Event(Main)' = Event(Main)
<1>1. UNCHANGED <<received, now>> /\ pc[Main] # "idle"
  BY DEF Handle, Download, RunCommand, Freshen, Load, LlmAnswers, LlmFails, StoreUser,
         StoreAnswer, StoreAnswerFails, DiskFails, Reply, Apologise, Finish, Goto
<1>2. /\ job[Main] \in 1..Len(received) /\ job[Main] \in Messages /\ Key(Main) \in Jids
      /\ Event(Main) \in Inputs /\ Event(Main).what # "subscribe" /\ now \in Seconds
  BY <1>1, LoopFacts, BusyFacts
<1>3. job' = job => Key(Main)' = Key(Main) /\ Event(Main)' = Event(Main)
  BY <1>1 DEF Key, JidOf, Event, Ev
<1>4. history[Key(Main)] \in Seq(Entry)
  BY <1>2, LoopFacts DEF MemoryOK
<1>. QED BY <1>1, <1>2, <1>3, <1>4

LEMMA AtEndStep ==
  LoopAlone /\ AskInv /\ [Next]_vars => AtEnd'
<1>. SUFFICES ASSUME LoopAlone, AskInv, [Next]_vars,
                     pc'[Main] \in {"freshen", "load"}, StoredFirst(Event(Main))'
              PROVE  /\ mtime'[Key(Main)'] = now' /\ history'[Key(Main)'] # <<>>
                     /\ IsTrigger(history'[Key(Main)'][Len(history'[Key(Main)'])], job'[Main])
  BY DEF AtEnd
<1>0. /\ TypeOK /\ ProcOK /\ MemoryOK /\ Len(received) \in Nat /\ now \in Seconds
      /\ Proc = {Main} /\ Main \in Proc /\ AtEnd
  BY LoopFacts
<1>1. CASE Receive
  <2>1. PICK ev \in Inputs :
          /\ ev.from \in Jids /\ pc[Main] = "idle"
          /\ received'[Number].ev = ev /\ now' = now
          /\ \/ UNCHANGED memory /\ (StoredFirst(ev) => DiskMayFail)
             \/ \E e \in Entry : /\ Store(ev.from, e) /\ e.of = Number /\ e.role = "user"
                                 /\ e.at = now /\ e.what \notin {"blank", "answer"}
          /\ \/ UNCHANGED procs
             \/ \E p \in Proc, stage \in {"fetch", "command", "freshen"} :
                  Start(p, stage) /\ pc[p] = "idle"
    BY <1>0, <1>1, ReceiveMemory
  <2>2. job'[Main] = Number
    BY <1>0, <2>1 DEF Start, procs, ProcOK
  <2>3. Key(Main)' = ev.from /\ Event(Main)' = ev
    BY <2>1, <2>2 DEF Key, JidOf, Event, Ev
  <2>4. PICK e \in Entry : /\ Store(ev.from, e) /\ e.of = Number /\ e.role = "user"
                           /\ e.what \notin {"blank", "answer"}
    BY <2>1, <2>3 DEF LoopAlone, StoredFirst
  <2>5. /\ mtime'[ev.from] = now /\ history'[ev.from] = Append(history[ev.from], e)
        /\ history[ev.from] \in Seq(Entry)
    BY <1>0, <2>1, <2>4 DEF Store, MemoryOK
  <2>6. /\ history'[ev.from] # <<>>
        /\ history'[ev.from][Len(history'[ev.from])] = e
    BY <2>5
  <2>. QED BY <2>1, <2>2, <2>3, <2>4, <2>5, <2>6 DEF IsTrigger
<1>2. CASE Handle(Main)
  <2>1. Freshen(Main)
    BY <1>0, <1>2 DEF TypeOK, StageOK, ProcOK, Handle, Download, RunCommand, Freshen, Load,
        LlmAnswers,
      LlmFails, StoreUser, StoreAnswer, StoreAnswerFails, DiskFails, Reply, Apologise, Finish, Goto
  <2>2. pc[Main] = "freshen" /\ job' = job /\ CheckFreshness(Key(Main))
    BY <2>1 DEF Freshen, Goto
  <2>3. Key(Main)' = Key(Main) /\ Event(Main)' = Event(Main) /\ now' = now /\ Key(Main) \in Jids
    BY <1>2, <2>2, MainFacts
  <2>4. mtime[Key(Main)] = now
    BY <1>0, <2>2, <2>3 DEF AtEnd, StoredFirst
  <2>5. ~Stale(Key(Main))
    BY <1>0, <2>4, ConstantsAssumption DEF Stale, Seconds
  <2>6. history' = history /\ mtime' = mtime
    BY <2>2, <2>5 DEF CheckFreshness, memory
  <2>. QED BY <1>0, <2>2, <2>3, <2>6 DEF AtEnd, StoredFirst
<1>3. CASE Rest \/ UNCHANGED vars
  BY <1>0, <1>3 DEF Rest, vars, procs, memory, AtEnd, Event, Ev, Key, JidOf, StoredFirst
<1>4. CASE Tick \/ Crash
  BY <1>0, <1>4 DEF Tick, Crash, procs
<1>. QED BY <1>0, <1>1, <1>2, <1>3, <1>4 DEF Next

LEMMA QuestionStep ==
  LoopAlone /\ AskInv /\ [Next]_vars => Question'
<1>. SUFFICES ASSUME LoopAlone, AskInv, [Next]_vars,
                     \/ pc'[Main] = "llm" /\ StoredFirst(Event(Main))'
                     \/ pc'[Main] = "storeAnswer" /\ answer'[Main] = "answer"
              PROVE  \E k \in DOMAIN history'[Key(Main)'] :
                       IsTrigger(history'[Key(Main)'][k], job'[Main])
  BY DEF Question
<1>0. /\ TypeOK /\ ProcOK /\ MemoryOK /\ Len(received) \in Nat /\ now \in Seconds
      /\ Proc = {Main} /\ Main \in Proc /\ AtEnd /\ Question
  BY LoopFacts
<1>1. CASE Receive
  BY <1>0, <1>1, ReceiveMemory DEF Start, procs, ProcOK
<1>2. CASE Handle(Main)
  <2>0. /\ job[Main] \in 1..Len(received) /\ Key(Main) \in Jids
        /\ history[Key(Main)] \in Seq(Entry) /\ job[Main] \in Messages /\ now \in Seconds
        /\ Event(Main) \in Inputs /\ Event(Main).what # "subscribe"
    BY <1>2, MainFacts
  <2>1. CASE Load(Main)
    <3>1. pc[Main] = "load" /\ job' = job /\ history' = history /\ pc'[Main] = "llm"
      BY <1>0, <2>1 DEF Load, Goto, memory, ProcOK
    <3>2. Key(Main)' = Key(Main) /\ Event(Main)' = Event(Main)
      BY <1>2, <3>1, MainFacts
    <3>3. /\ history[Key(Main)] # <<>>
          /\ IsTrigger(history[Key(Main)][Len(history[Key(Main)])], job[Main])
      BY <1>0, <3>1, <3>2 DEF AtEnd, StoredFirst
    <3>4. Len(history[Key(Main)]) \in DOMAIN history[Key(Main)]
      BY <2>0, <3>3
    <3>. QED BY <3>1, <3>2, <3>3, <3>4
  <2>2. CASE LlmAnswers(Main)
    <3>1. pc[Main] = "llm" /\ job' = job /\ history' = history
          /\ pc'[Main] = (IF StoredFirst(Event(Main)) THEN "storeAnswer" ELSE "storeUser")
      BY <1>0, <2>2 DEF LlmAnswers, Goto, memory, ProcOK
    <3>2. Key(Main)' = Key(Main) /\ StoredFirst(Event(Main))
      BY <1>2, <3>1, MainFacts
    <3>. QED BY <1>0, <3>1, <3>2 DEF Question
  <2>3. CASE StoreUser(Main)
    <3>1. PICK e \in Entry : e = UserEntry(job[Main], Event(Main))
      BY <2>0, EntryTypes
    <3>2. e.of = job[Main] /\ e.role = "user" /\ e.what # "blank" /\ Store(Key(Main), e)
          /\ job' = job
      BY <2>0, <2>3, <3>1, InputTypes DEF UserEntry, StoreUser
    <3>3. history'[Key(Main)] = Append(history[Key(Main)], e) /\ Key(Main)' = Key(Main)
      BY <1>0, <1>2, <2>0, <3>2, MainFacts DEF Store, MemoryOK
    <3>4. /\ Len(history[Key(Main)]) + 1 \in DOMAIN history'[Key(Main)]
          /\ history'[Key(Main)][Len(history[Key(Main)]) + 1] = e
      BY <2>0, <3>3
    <3>. QED BY <3>2, <3>3, <3>4 DEF IsTrigger
  <2>4. CASE RunCommand(Main)
    BY <1>0, <2>4 DEF RunCommand, Goto, ProcOK
  <2>5. CASE ~Load(Main) /\ ~LlmAnswers(Main) /\ ~StoreUser(Main) /\ ~RunCommand(Main)
    BY <1>0, <1>2, <2>5 DEF ProcOK, Handle, Download, Freshen, LlmFails, StoreAnswer,
       StoreAnswerFails, DiskFails, Reply, Apologise, Finish, Goto
  <2>. QED BY <2>1, <2>2, <2>3, <2>4, <2>5
<1>3. CASE Tick \/ Rest \/ UNCHANGED vars
  BY <1>0, <1>3 DEF Tick, Rest, vars, procs, memory, Question, Event, Ev, Key, JidOf, StoredFirst
<1>4. CASE Crash
  BY <1>0, <1>4 DEF Crash
<1>. QED BY <1>0, <1>1, <1>2, <1>3, <1>4 DEF Next

LEMMA AnsweredAppend ==
  ASSUME NEW s \in Seq(Entry), NEW e \in Entry, Answered(s),
         e.what = "answer" => \E k \in DOMAIN s : IsTrigger(s[k], e.of)
  PROVE  Answered(Append(s, e))
<1>1. /\ DOMAIN Append(s, e) = 1..(Len(s) + 1) /\ DOMAIN s = 1..Len(s) /\ Len(s) \in Nat
      /\ \A i \in 1..Len(s) : Append(s, e)[i] = s[i]
      /\ Append(s, e)[Len(s) + 1] = e
  OBVIOUS
<1>. SUFFICES ASSUME NEW i \in 1..(Len(s) + 1), Append(s, e)[i].what = "answer"
              PROVE  \E k \in 1..(i - 1) : /\ Append(s, e)[k].role = "user"
                                           /\ Append(s, e)[k].of = Append(s, e)[i].of
  BY <1>1 DEF Answered
<1>2. CASE i = Len(s) + 1
  <2>1. PICK k \in DOMAIN s : IsTrigger(s[k], e.of)
    BY <1>1, <1>2
  <2>2. k \in 1..(i - 1) /\ Append(s, e)[k] = s[k]
    BY <1>1, <1>2
  <2>. QED BY <1>1, <1>2, <2>1, <2>2 DEF IsTrigger
<1>3. CASE i \in 1..Len(s)
  <2>1. PICK k \in 1..(i - 1) : s[k].role = "user" /\ s[k].of = s[i].of
    BY <1>1, <1>3 DEF Answered
  <2>2. k \in 1..Len(s)
    BY <1>1, <1>3
  <2>. QED BY <1>1, <1>3, <2>1, <2>2
<1>. QED BY <1>1, <1>2, <1>3

LEMMA AnswersStep ==
  LoopAlone /\ AskInv /\ [Next]_vars => AnswersFollowQuestions'
<1>. SUFFICES ASSUME LoopAlone, AskInv, [Next]_vars
              PROVE  \A j \in Jids : Answered(history'[j])
  BY DEF AnswersFollowQuestions, Answered
<1>0. /\ TypeOK /\ MemoryOK /\ Proc = {Main} /\ Question
      /\ \A j \in Jids : Answered(history[j]) /\ history[j] \in Seq(Entry)
  BY LoopFacts DEF AnswersFollowQuestions, Answered, MemoryOK
<1>1. CASE Emptied
  BY <1>0, <1>1 DEF Emptied, Answered
<1>2. ASSUME NEW j \in Jids, NEW e \in Entry, Store(j, e),
             e.what = "answer" => \E k \in DOMAIN history[j] : IsTrigger(history[j][k], e.of)
      PROVE  \A i \in Jids : Answered(history'[i])
  <2>1. \A i \in Jids : \/ history'[i] = history[i]
                        \/ i = j /\ history'[i] = Append(history[i], e)
    BY <1>0, <1>2 DEF Store, MemoryOK
  <2>. QED BY <1>0, <1>2, <2>1, AnsweredAppend
<1>3. CASE Receive
  BY <1>0, <1>1, <1>2, <1>3, ReceiveMemory, UnchangedEmptied
<1>4. CASE Handle(Main)
  <2>1. ASSUME NEW e \in Entry, pc[Main] = "storeAnswer", e.of = job[Main], e.what = answer[Main],
               e.what = "answer"
        PROVE  \E k \in DOMAIN history[Key(Main)] : IsTrigger(history[Key(Main)][k], e.of)
    BY <1>0, <2>1 DEF Question
  <2>. QED BY <1>0, <1>1, <1>2, <1>4, <2>1, HandleMemory
<1>5. CASE Tick \/ Crash \/ Rest \/ UNCHANGED vars
  BY <1>1, <1>5, UnchangedEmptied DEF Tick, Crash, Rest, vars
<1>. QED BY <1>0, <1>3, <1>4, <1>5 DEF Next

LEMMA RecentEnds ==
  ASSUME NEW h \in Seq(Entry), h # <<>>
  PROVE  Recent(h) # <<>> /\ Recent(h)[Len(Recent(h))] = h[Len(h)]
<1>. DEFINE a == IF Len(h) > MaxHistory THEN Len(h) - MaxHistory + 1 ELSE 1
<1>1. Len(h) \in Nat \ {0} /\ a \in 1..Len(h)
  BY ConstantsAssumption
<1>2. Recent(h) = SubSeq(h, a, Len(h))
  BY DEF Recent
<1>. HIDE DEF a
<1>3. /\ Len(Recent(h)) = Len(h) - a + 1
      /\ \A i \in 1..(Len(h) - a + 1) : Recent(h)[i] = h[a + i - 1]
  BY <1>1, <1>2
<1>4. Len(h) - a + 1 \in 1..(Len(h) - a + 1) /\ a + (Len(h) - a + 1) - 1 = Len(h)
  BY <1>1
<1>5. Recent(h) # <<>>
  BY <1>1, <1>3
<1>. QED BY <1>3, <1>4, <1>5

EndsWith(s, n) == s # <<>> /\ IsTrigger(s[Len(s)], n)

LEMMA EndsStep ==
  LoopAlone /\ AskInv /\ [Next]_vars => PromptEndsWithTrigger'
<1>. SUFFICES ASSUME LoopAlone, AskInv, [Next]_vars, pc'[Main] = "llm"
              PROVE  EndsWith(prompt'[Main], job'[Main])
  BY LoopFacts DEF PromptEndsWithTrigger, EndsWith, IsTrigger
<1>0. TypeOK /\ Main \in Proc /\ AtEnd /\ PromptEndsWithTrigger
  BY LoopFacts
<1>1. CASE Load(Main)
  <2>. DEFINE h == history[Key(Main)]
  <2>1. /\ job'[Main] = job[Main] /\ h \in Seq(Entry) /\ Recent(h) \in Seq(Entry)
        /\ pc[Main] = "load"
        /\ StoredFirst(Event(Main)) => prompt'[Main] = Recent(h)
        /\ ~StoredFirst(Event(Main)) =>
             \E e \in Entry : /\ prompt'[Main] = Recent(h) \o <<e>>
                              /\ e.of = job[Main] /\ e.role = "user"
    BY <1>0, <1>1, LoadedPrompt
  <2>2. CASE StoredFirst(Event(Main))
    <3>1. h # <<>> /\ IsTrigger(h[Len(h)], job[Main])
      BY <1>0, <2>1, <2>2 DEF AtEnd
    <3>. HIDE DEF h
    <3>2. Recent(h) # <<>> /\ Recent(h)[Len(Recent(h))] = h[Len(h)]
      BY <2>1, <3>1, RecentEnds
    <3>. QED BY <2>1, <2>2, <3>1, <3>2 DEF EndsWith
  <2>3. CASE ~StoredFirst(Event(Main))
    <3>1. PICK e \in Entry : prompt'[Main] = Recent(h) \o <<e>> /\ e.of = job[Main]
          /\ e.role = "user"
      BY <2>1, <2>3
    <3>. HIDE DEF h
    <3>2. /\ Recent(h) \o <<e>> # <<>>
          /\ (Recent(h) \o <<e>>)[Len(Recent(h) \o <<e>>)] = e
      BY <2>1
    <3>. QED BY <2>1, <3>1, <3>2 DEF EndsWith, IsTrigger
  <2>. QED BY <2>2, <2>3
<1>2. CASE pc[Main] = "llm" /\ job'[Main] = job[Main] /\ prompt'[Main] = prompt[Main]
  BY <1>0, <1>2 DEF PromptEndsWithTrigger, EndsWith, IsTrigger
<1>. QED BY <1>0, <1>1, <1>2, PromptStays

LEMMA AskInvariant == LoopAlone => (Spec => []AskInv)
<1>1. Init => AskInv
  <2>. SUFFICES ASSUME Init PROVE AskInv
    OBVIOUS
  <2>1. AtEnd /\ Question /\ AnswersFollowQuestions /\ PromptEndsWithTrigger
    BY DEF Init, AtEnd, Question, AnswersFollowQuestions, PromptEndsWithTrigger, Proc
  <2>. QED BY <2>1, FreshInit, RecordInit, FitsInit DEF AskInv
<1>2. LoopAlone /\ AskInv /\ [Next]_vars => AskInv'
  <2>. SUFFICES ASSUME LoopAlone, AskInv, [Next]_vars PROVE AskInv'
    OBVIOUS
  <2>1. FreshInv' /\ RecordInv' /\ Fits'
    BY FreshStep, RecordStep, FitsStep DEF AskInv, RecordInv
  <2>. QED BY <2>1, AtEndStep, QuestionStep, AnswersStep, EndsStep DEF AskInv
<1>3. CASE LoopAlone
  <2>1. AskInv /\ [Next]_vars => AskInv'
    BY <1>2, <1>3
  <2>. QED BY <1>1, <2>1, PTL DEF Spec
<1>. QED BY <1>3

\* The loop alone, on a disk that does not fail, puts each message to the LLM as the last
\* entry of the prompt, whether the message was stored on arrival or pushed after the history
\* (runtime.rs:768 and :797, "already the last entry in history").
THEOREM PromptEndsHolds == LoopAlone => (Spec => []PromptEndsWithTrigger)
<1>1. AskInv => PromptEndsWithTrigger
  BY DEF AskInv
<1>. QED BY <1>1, AskInvariant, PTL

\* Under the same two conditions, an answer in a session file comes after the message it
\* answers, restarts of the process included.
THEOREM AnswersFollowHolds == LoopAlone => (Spec => []AnswersFollowQuestions)
<1>1. AskInv => AnswersFollowQuestions
  BY DEF AskInv
<1>. QED BY <1>1, AskInvariant, PTL

\* With tasks and a failing disk, this much is left of it: a message that is pushed after the
\* history (a 1:1 text or file) is the last entry of its prompt.
PushedLast ==
  \A p \in Proc : (pc[p] = "llm" /\ ~StoredFirst(Event(p))) => EndsWith(prompt[p], job[p])

LEMMA PushedStep == TypeOK /\ PushedLast /\ [Next]_vars => PushedLast'
<1>. SUFFICES ASSUME TypeOK, PushedLast, [Next]_vars, NEW p \in Proc, pc'[p] = "llm",
                     ~StoredFirst(Event(p))'
              PROVE  EndsWith(prompt'[p], job'[p])
  BY DEF PushedLast, EndsWith
<1>1. CASE Load(p)
  <2>. DEFINE r == Recent(history[Key(p)])
  <2>1. /\ r \in Seq(Entry) /\ job'[p] = job[p] /\ ~StoredFirst(Event(p))
        /\ \E e \in Entry : prompt'[p] = r \o <<e>> /\ e.of = job[p] /\ e.role = "user"
    BY <1>1, LoadedPrompt DEF StoredFirst
  <2>. HIDE DEF r
  <2>2. PICK e \in Entry : prompt'[p] = r \o <<e>> /\ e.of = job[p] /\ e.role = "user"
    BY <2>1
  <2>3. r \o <<e>> # <<>> /\ (r \o <<e>>)[Len(r \o <<e>>)] = e
    BY <2>1
  <2>. QED BY <2>1, <2>2, <2>3 DEF EndsWith, IsTrigger
<1>2. CASE pc[p] = "llm" /\ job'[p] = job[p] /\ prompt'[p] = prompt[p]
  <2>1. job[p] \in 1..Len(received)
    BY <1>2, BusyFacts
  <2>2. Event(p)' = Event(p)
    BY <1>2, <2>1, LogStep DEF Event, Ev
  <2>. QED BY <1>2, <2>2 DEF PushedLast, StoredFirst
<1>. QED BY <1>1, <1>2, PromptStays

\* Whatever tasks, failures and crashes there are, a 1:1 text or file is the last thing the
\* LLM is shown when it is asked about it (handle_message, handle_message_with_attachments).
THEOREM PushedLastHolds == Spec => []PushedLast
<1>1. Init => PushedLast
  BY DEF Init, PushedLast
<1>2. (TypeOK /\ PushedLast) /\ [Next]_vars => (TypeOK /\ PushedLast)'
  BY PushedStep, TypeStep
<1>. QED BY <1>1, <1>2, TypeInit, PTL DEF Spec

=============================================================================
