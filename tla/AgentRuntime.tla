---------------------------- MODULE AgentRuntime ----------------------------
(***************************************************************************)
(* The event loop of the agent (AgentRuntime::run), the handlers it calls  *)
(* and the tasks it spawns for messages that carry files, over the         *)
(* per-JID conversation memory they share.                                 *)
(*                                                                         *)
(* The loop (process Main) takes one event at a time and runs its handler  *)
(* to the end; a handler stops only where the code awaits the model or a   *)
(* download, but the tokio runtime has several threads, so a spawned task  *)
(* may run between any two accesses the loop makes to the memory.  One     *)
(* action is one call of Memory (HistoryFile opens these calls up into     *)
(* their file operations) or one exchange with the LLM.                    *)
(*                                                                         *)
(* Data.  A message is its number in the order of arrival.  A text is      *)
(* reduced to what the code tells apart: a command, a plain text, a file,  *)
(* a reaction; an answer is blank or not.  An id is <<n, k>>: k = 0 is the *)
(* id of the inbound stanza n, k = 1, 2 the first and second UUID drawn    *)
(* while it is handled.  Clock: now counts seconds.                        *)
(***************************************************************************)
EXTENDS Integers, Sequences

CONSTANTS
  Jids,            \* bare JIDs that may write to the agent, users and rooms
  Rooms,           \* those that are rooms (they send type="groupchat")
  ConfiguredRooms, \* config.rooms
  AllowedJids,     \* config.agent.allowed_jids, perhaps with "*"
  AllowedDomains,  \* config.agent.allowed_domains, perhaps empty or with "*"
  OwnDomain,       \* config.server.domain()
  DomainOf,        \* per JID, what is behind its @
  Main,            \* the task that runs AgentRuntime::run
  Tasks,           \* slots for the tasks it spawns (the code sets no bound)
  Inputs,          \* the events the server may deliver
  Answers,         \* what the LLM may answer: "answer", "blank"
  IdleTimeout,     \* session.idle_timeout_mins, in seconds; 0 disables it
  MaxHistory,      \* MAX_HISTORY
  DiskMayFail,     \* whether a file operation may return an error
  MaxMessages,     \* bound: messages received in a behaviour
  MaxTime,         \* bound: the last second
  MaxCrashes       \* bound: restarts of the process

Commands == {"new", "forget", "info"}   \* "info": /status, /help, /ping, unknown

\* What the parser delivers to the loop: addressed and self are the outcome of
\* is_mentioned and of the comparison with the room's configured nick.
ChatEvents == [muc : {FALSE}, from : Jids, addressed : {TRUE}, self : {FALSE},
               what : {"text", "file", "reaction", "subscribe"} \cup Commands]
RoomEvents == [muc : {TRUE}, from : Rooms, addressed : BOOLEAN, self : BOOLEAN,
               what : {"text", "reaction"} \cup Commands]
Events == ChatEvents \cup RoomEvents

ASSUME ConstantsAssumption ==
  /\ Rooms \subseteq Jids /\ ConfiguredRooms \subseteq Rooms
  /\ DOMAIN DomainOf = Jids
  /\ Inputs \subseteq Events
  /\ Answers \subseteq {"answer", "blank"}
  /\ Main \notin Tasks
  /\ IdleTimeout \in Nat /\ MaxHistory \in Nat \ {0}
  /\ DiskMayFail \in BOOLEAN
  /\ MaxMessages \in Nat /\ MaxTime \in Nat /\ MaxCrashes \in Nat

Proc     == {Main} \cup Tasks
Messages == 1..MaxMessages
Seconds  == 0..MaxTime

Arrival == [ev : Inputs, at : Seconds]

Id    == Messages \X (0..2)
NoId  == <<0, 0>>
Entry == [role : {"user", "assistant"}, of : Messages, id : Id \cup {NoId}, at : Seconds,
          what : {"text", "file", "reaction", "command", "answer", "blank", "notice"}]

Stages == {"idle", "fetch", "command", "freshen", "load", "llm",
           "storeUser", "storeAnswer", "reply", "apologise"}

VARIABLES
  received,  \* the events accepted so far, each with the second it arrived
  history,   \* per JID, the displayable entries of its history.jsonl
  mtime,     \* per JID, the second history.jsonl was last written
  archives,  \* per JID and second, the session archived under that name
  pc, job, prompt, answer,  \* per process: stage, message, LLM input, LLM output
  out,       \* per message, the commands sent on its behalf, in order
  now, crashes,
  stored     \* every entry ever written (only properties read it)

memory == <<history, mtime, archives, stored>>
procs  == <<pc, job, prompt, answer>>
vars   == <<received, memory, procs, out, now, crashes>>

----------------------------------------------------------------------------
\* The configuration's answers

Wildcard == "*"

\* Nobody is allowed unless the list says so.
IsAllowed(j) == j \in AllowedJids \/ Wildcard \in AllowedJids

\* Without a list the agent's own domain is.
IsDomainAllowed(j) ==
  IF AllowedDomains = {} THEN DomainOf[j] = OwnDomain
  ELSE Wildcard \in AllowedDomains \/ DomainOf[j] \in AllowedDomains

\* Both checks, the domain's first.
Trusted(j) == IsDomainAllowed(j) /\ IsAllowed(j)

\* Names that end in _Bug are faulty variants of the definition that follows,
\* to see that the properties notice the fault; no specification uses them.
\* Reactions in a groupchat pass no check at all.
Accepts(ev) ==
  \/ ~ev.muc /\ Trusted(ev.from)
  \/ ev.muc /\ ev.what = "reaction"
  \/ ev.muc /\ ev.what # "reaction" /\ ev.from \in ConfiguredRooms /\ ~ev.self

Ev(n)     == received[n].ev
JidOf(n)  == Ev(n).from
Number    == Len(received) + 1
Event(p)  == Ev(job[p])
Key(p)    == JidOf(job[p])

StoredFirst_Bug(ev) == ev.muc   \* a reaction is taken for a chat text

\* Room messages and reactions are in the history before the handler starts.
StoredFirst(ev) == ev.muc \/ ev.what = "reaction"

----------------------------------------------------------------------------
\* Memory

DiskOutcomes == IF DiskMayFail THEN BOOLEAN ELSE {TRUE}

UserEntry(n, ev) ==
  [role |-> "user", of |-> n, at |-> now,
   id   |-> IF ev.what = "reaction" THEN NoId ELSE <<n, 0>>,
   what |-> IF ev.what \in Commands THEN "command" ELSE ev.what]

AssistantEntry(n, what) ==
  [role |-> "assistant", of |-> n, at |-> now, id |-> <<n, 1>>, what |-> what]

\* store_message_full: appends one line.  A blank line is skipped by every
\* reader (parse_session), it only makes the file younger.
Store(j, e) ==
  /\ history'  = IF e.what = "blank" THEN history
                 ELSE [history EXCEPT ![j] = Append(@, e)]
  /\ mtime'    = [mtime EXCEPT ![j] = now]
  /\ stored'   = stored \cup {e}
  /\ UNCHANGED archives

NewSession_CopyBug(j) ==   \* copied instead of moved
  /\ archives' = IF history[j] = <<>> THEN archives ELSE [archives EXCEPT ![j][now] = history[j]]
  /\ UNCHANGED <<history, mtime, stored>>

\* new_session: an empty session is left alone, any other is renamed to the
\* archive of this second, over whatever has that name.
NewSession(j) ==
  IF history[j] = <<>> THEN UNCHANGED memory
  ELSE /\ archives' = [archives EXCEPT ![j][now] = history[j]]
       /\ history'  = [history EXCEPT ![j] = <<>>]
       /\ UNCHANGED <<mtime, stored>>

Stale_Bug(j) == IdleTimeout # 0 /\ now - mtime[j] > IdleTimeout + 1   \* rounded down

Stale(j) == IdleTimeout # 0 /\ now - mtime[j] > IdleTimeout

\* check_session_freshness
CheckFreshness(j) == IF Stale(j) THEN NewSession(j) ELSE UNCHANGED memory

\* forget (the archives stay)
Forget(j) ==
  /\ history' = [history EXCEPT ![j] = <<>>]
  /\ UNCHANGED <<mtime, archives, stored>>

Recent_OldestBug(h)  == SubSeq(h, 1, IF Len(h) > MaxHistory THEN MaxHistory ELSE Len(h))
Recent_OffByOneBug(h) ==
  SubSeq(h, IF Len(h) > MaxHistory THEN Len(h) - MaxHistory ELSE 1, Len(h))

\* get_history: the last MaxHistory displayable entries
Recent(h) ==
  SubSeq(h, IF Len(h) > MaxHistory THEN Len(h) - MaxHistory + 1 ELSE 1, Len(h))
----------------------------------------------------------------------------
\* What the handlers send.  The addressee is always the sender of the message
\* (for a room the room), so it is not repeated here.

Composing == [kind |-> "composing", body |-> "", id |-> NoId]
Paused    == [kind |-> "paused", body |-> "", id |-> NoId]
Sorry     == [kind |-> "message", body |-> "sorry", id |-> NoId]
Accepted  == [kind |-> "subscribed", body |-> "", id |-> NoId]
Text(what, id) == [kind |-> "message", body |-> what, id |-> id]

ReplyId_Bug(n, ev) ==   \* a second UUID for everyone
  IF ev.what \in Commands /\ ~ev.muc THEN NoId ELSE <<n, 2>>

\* A 1:1 answer is sent under a second UUID, drawn by the caller of
\* handle_message; a command's answer has none.
ReplyId(n, ev) ==
  IF StoredFirst(ev) THEN <<n, 1>>
  ELSE IF ev.what \in Commands THEN NoId ELSE <<n, 2>>

Send(n, cmds) == out' = [out EXCEPT ![n] = @ \o cmds]

----------------------------------------------------------------------------
\* The loop receives an event.  Each action is one arm of the match.

Arrive(ev) ==
  /\ pc[Main] = "idle"
  /\ Number <= MaxMessages
  /\ Accepts(ev)
  /\ received' = Append(received, [ev |-> ev, at |-> now])

Start(p, stage) ==
  /\ pc'  = [pc EXCEPT ![p] = stage]
  /\ job' = [job EXCEPT ![p] = Number]
  /\ UNCHANGED <<prompt, answer>>

StoreArrival_Bug(ev) ==   \* what the loop answers itself is not stored
  IF ev.addressed THEN UNCHANGED memory ELSE Store(ev.from, UserEntry(Number, ev))

\* Room messages and reactions are stored before anything else; a failure to
\* store is only logged.
StoreArrival(ev) ==
  \E ok \in DiskOutcomes :
    IF ok THEN Store(ev.from, UserEntry(Number, ev)) ELSE UNCHANGED memory

\* A room message that does not mention the agent.
OverhearRoom(ev) ==
  /\ ev.muc /\ ev.what # "reaction" /\ ~ev.addressed
  /\ Arrive(ev) /\ StoreArrival(ev)
  /\ UNCHANGED <<procs, out, now, crashes>>

\* A room message to the agent, or a reaction: the LLM is asked inline.
AskStored(ev) ==
  /\ ev.what = "reaction" \/ (ev.muc /\ ev.addressed /\ ev.what \notin Commands)
  /\ Arrive(ev) /\ StoreArrival(ev) /\ Start(Main, "freshen")
  /\ Send(Number, <<Composing>>)
  /\ UNCHANGED <<now, crashes>>

\* A slash command to the agent in a room: stored like any room message.
RoomCommand(ev) ==
  /\ ev.muc /\ ev.addressed /\ ev.what \in Commands
  /\ Arrive(ev) /\ StoreArrival(ev) /\ Start(Main, "command")
  /\ UNCHANGED <<out, now, crashes>>

ChatCommand(ev) ==
  /\ ~ev.muc /\ ev.what \in Commands
  /\ Arrive(ev) /\ Start(Main, "command")
  /\ UNCHANGED <<memory, out, now, crashes>>

ChatText(ev) ==
  /\ ~ev.muc /\ ev.what = "text"
  /\ Arrive(ev) /\ Start(Main, "freshen")
  /\ Send(Number, <<Composing>>)
  /\ UNCHANGED <<memory, now, crashes>>

\* A chat message with files is handed to a task of its own.
ChatFile(ev) ==
  /\ ~ev.muc /\ ev.what = "file"
  /\ \E t \in Tasks : pc[t] = "idle" /\ Start(t, "fetch")
  /\ Arrive(ev)
  /\ Send(Number, <<Composing>>)
  /\ UNCHANGED <<memory, now, crashes>>

Subscribe(ev) ==
  /\ ~ev.muc /\ ev.what = "subscribe"
  /\ Arrive(ev)
  /\ Send(Number, <<Accepted>>)
  /\ UNCHANGED <<memory, procs, now, crashes>>

Receive ==
  \E ev \in Inputs :
    \/ OverhearRoom(ev) \/ AskStored(ev) \/ RoomCommand(ev)
    \/ ChatCommand(ev) \/ ChatText(ev) \/ ChatFile(ev) \/ Subscribe(ev)

----------------------------------------------------------------------------
\* Steps of a handler

Goto(p, from, to) == pc[p] = from /\ pc' = [pc EXCEPT ![p] = to]

\* The downloads are over; a failed one only becomes a note in the prompt.
Download(p) ==
  /\ Goto(p, "fetch", "freshen")
  /\ UNCHANGED <<received, memory, job, prompt, answer, out, now, crashes>>

\* handle_command, then the answer is stored for a room only.
RunCommand(p) ==
  /\ Goto(p, "command", IF Event(p).muc THEN "storeAnswer" ELSE "reply")
  /\ CASE Event(p).what = "new"    -> NewSession(Key(p))
       [] Event(p).what = "forget" -> Forget(Key(p))
       [] OTHER                    -> UNCHANGED memory
  /\ answer' = [answer EXCEPT ![p] = "notice"]
  /\ UNCHANGED <<received, job, prompt, out, now, crashes>>

Freshen(p) ==
  /\ Goto(p, "freshen", "load")
  /\ CheckFreshness(Key(p))
  /\ UNCHANGED <<received, job, prompt, answer, out, now, crashes>>

\* The prompt: the recent history, which already holds the message if the
\* caller stored it; otherwise the message is pushed after it.
Load(p) ==
  /\ Goto(p, "load", "llm")
  /\ LET n == job[p] IN
     prompt' = [prompt EXCEPT ![p] =
       Recent(history[Key(p)]) \o
         (IF StoredFirst(Ev(n)) THEN <<>> ELSE <<UserEntry(n, Ev(n))>>)]
  /\ UNCHANGED <<received, memory, job, answer, out, now, crashes>>

\* The agentic loop ends with a text.
LlmAnswers(p) ==
  /\ Goto(p, "llm", IF StoredFirst(Event(p)) THEN "storeAnswer" ELSE "storeUser")
  /\ \E a \in Answers : answer' = [answer EXCEPT ![p] = a]
  /\ prompt' = [prompt EXCEPT ![p] = <<>>]
  /\ UNCHANGED <<received, memory, job, out, now, crashes>>

LlmFails(p) ==
  /\ Goto(p, "llm", "apologise")
  /\ prompt' = [prompt EXCEPT ![p] = <<>>]
  /\ UNCHANGED <<received, memory, job, answer, out, now, crashes>>

StoreUser(p) ==
  /\ Goto(p, "storeUser", "storeAnswer")
  /\ Store(Key(p), UserEntry(job[p], Event(p)))
  /\ UNCHANGED <<received, job, prompt, answer, out, now, crashes>>

StoreAnswer(p) ==
  /\ Goto(p, "storeAnswer", "reply")
  /\ Store(Key(p), AssistantEntry(job[p], answer[p]))
  /\ UNCHANGED <<received, job, prompt, answer, out, now, crashes>>

StoreAnswerFails_Bug(p) ==   \* only logged, for everyone
  /\ DiskMayFail
  /\ Goto(p, "storeAnswer", "reply")
  /\ UNCHANGED <<received, memory, job, prompt, answer, out, now, crashes>>

\* An answer that cannot be stored is sent all the same where the loop stores
\* it; where handle_message does, the error reaches the caller.
StoreAnswerFails(p) ==
  /\ DiskMayFail
  /\ Goto(p, "storeAnswer", IF StoredFirst(Event(p)) THEN "reply" ELSE "apologise")
  /\ UNCHANGED <<received, memory, job, prompt, answer, out, now, crashes>>

\* Any other memory call that fails ends the handler with Err.  A /forget removes
\* several files: the history may be gone when a later one cannot be removed.
DiskFails(p) ==
  /\ DiskMayFail
  /\ \E stage \in {"fetch", "command", "freshen", "load", "storeUser"} :
       Goto(p, stage, "apologise")
  /\ \/ UNCHANGED memory
     \/ pc[p] = "command" /\ Event(p).what = "forget" /\ Forget(Key(p))
  /\ UNCHANGED <<received, job, prompt, answer, out, now, crashes>>

Finish(p, from, cmds) ==
  /\ Goto(p, from, "idle")
  /\ Send(job[p], cmds)
  /\ job'    = [job EXCEPT ![p] = 0]
  /\ answer' = [answer EXCEPT ![p] = "none"]
  /\ UNCHANGED <<received, memory, prompt, now, crashes>>

Reply(p) ==
  Finish(p, "reply", <<Text(answer[p], ReplyId(job[p], Event(p)))>>)

Apologise_SilentBug(p) ==   \* a failed reaction is not closed at all
  Finish(p, "apologise", IF Event(p).what = "reaction" THEN <<>> ELSE <<Paused, Sorry>>)

Apologise_OrderBug(p) ==   \* <paused/> after the message
  Finish(p, "apologise", IF Event(p).what = "reaction" THEN <<Paused>> ELSE <<Sorry, Paused>>)

\* A failed reaction is closed in silence, a failed 1:1 command was not
\* announced by <composing/>.
Apologise(p) ==
  Finish(p, "apologise",
    IF Event(p).what = "reaction" THEN <<Paused>>
    ELSE IF ~Event(p).muc /\ Event(p).what \in Commands THEN <<Sorry>>
    ELSE <<Paused, Sorry>>)

Handle(p) ==
  \/ Download(p) \/ RunCommand(p) \/ Freshen(p) \/ Load(p)
  \/ LlmAnswers(p) \/ LlmFails(p)
  \/ StoreUser(p) \/ StoreAnswer(p) \/ StoreAnswerFails(p) \/ DiskFails(p)
  \/ Reply(p) \/ Apologise(p)

----------------------------------------------------------------------------
\* The environment

\* A second passes while every process waits: for an event, a download or the
\* LLM.  The calls between two such waits take no time on this clock (the idle
\* timeout is a number of minutes).
Tick ==
  /\ now < MaxTime
  /\ \A p \in Proc : pc[p] \in {"idle", "fetch", "llm"}
  /\ now' = now + 1
  /\ UNCHANGED <<received, memory, procs, out, crashes>>

\* The process dies and is started again: only the files are left.
Crash ==
  /\ crashes < MaxCrashes
  /\ crashes' = crashes + 1
  /\ pc'     = [p \in Proc |-> "idle"]
  /\ job'    = [p \in Proc |-> 0]
  /\ prompt' = [p \in Proc |-> <<>>]
  /\ answer' = [p \in Proc |-> "none"]
  /\ UNCHANGED <<received, memory, out, now>>

\* The bounds are reached and nothing is in progress.
Rest ==
  /\ Number > MaxMessages /\ \A p \in Proc : pc[p] = "idle"
  /\ UNCHANGED vars

Init ==
  /\ received = <<>>
  /\ history  = [j \in Jids |-> <<>>]
  /\ mtime    = [j \in Jids |-> 0]
  /\ archives = [j \in Jids |-> [s \in Seconds |-> <<>>]]
  /\ stored   = {}
  /\ pc       = [p \in Proc |-> "idle"]
  /\ job      = [p \in Proc |-> 0]
  /\ prompt   = [p \in Proc |-> <<>>]
  /\ answer   = [p \in Proc |-> "none"]
  /\ out      = [n \in Messages |-> <<>>]
  /\ now = 0 /\ crashes = 0

Next == Receive \/ (\E p \in Proc : Handle(p)) \/ Tick \/ Crash \/ Rest

Spec == Init /\ [][Next]_vars

\* A handler that can go on does, and the LLM and the downloads come to an
\* end (neither has a timeout of the agent's own around it, see README).
Fairness == \A p \in Proc : WF_vars(Handle(p))

FairSpec == Spec /\ Fairness

----------------------------------------------------------------------------
\* Properties

Command == [kind : {"composing", "paused", "message", "subscribed"},
            body : {"", "sorry", "answer", "blank", "notice"}, id : Id \cup {NoId}]

MemoryOK ==
  /\ history  \in [Jids -> Seq(Entry)]
  /\ mtime    \in [Jids -> Seconds]
  /\ archives \in [Jids -> [Seconds -> Seq(Entry)]]
  /\ stored   \in SUBSET Entry

LogOK ==
  /\ received \in Seq(Arrival) /\ Len(received) <= MaxMessages
  /\ out      \in [Messages -> Seq(Command)]
  /\ now \in Seconds /\ crashes \in 0..MaxCrashes

ProcOK ==
  /\ pc     \in [Proc -> Stages]
  /\ job    \in [Proc -> 0..Len(received)]
  /\ prompt \in [Proc -> Seq(Entry)]
  /\ answer \in [Proc -> {"none", "notice"} \cup Answers]

\* A process has a message exactly while it is busy; only the loop runs
\* commands, only a task downloads; there is an answer when one is stored or
\* sent; the LLM is given at most MaxHistory entries besides the message.
StageOK ==
  \A p \in Proc :
    /\ pc[p] = "idle" <=> job[p] = 0
    /\ pc[p] = "command" => p = Main
    /\ pc[p] = "fetch" => p # Main
    /\ pc[p] \in {"storeUser", "storeAnswer", "reply"} => answer[p] # "none"
    /\ job[p] # 0 => Event(p).what # "subscribe"
    /\ Len(prompt[p]) <= MaxHistory + 1

\* Type invariant: the variables' types, and the stage of every process fits
\* the message it handles.
TypeOK == MemoryOK /\ LogOK /\ ProcOK /\ StageOK

WroteUser(n) == \E e \in stored : e.of = n /\ e.role = "user"

WroteAnswer(n, what) ==
  \E e \in stored : e.of = n /\ e.role = "assistant" /\ e.what = what

\* The history is written ahead: an answer of the LLM that went out in a 1:1
\* text or file exchange is on disk, and so is the message it answers, whatever
\* failed, crashed or ran in between (runtime.rs, handle_message and
\* handle_message_with_attachments store before they return the text to send).
AnswerRecordedFirst ==
  \A n \in 1..Len(received) : \A i \in DOMAIN out[n] :
    (~StoredFirst(Ev(n)) /\ out[n][i].body \in {"answer", "blank"})
      => /\ WroteAnswer(n, out[n][i].body)
         /\ WroteUser(n)

\* While the LLM is asked, the last thing it is shown is the message it is
\* asked about (runtime.rs:768 and :797: "already the last entry in history").
PromptEndsWithTrigger ==
  \A p \in Proc : pc[p] = "llm" =>
    /\ prompt[p] # <<>>
    /\ LET last == prompt[p][Len(prompt[p])] IN last.of = job[p] /\ last.role = "user"

\* ... and it is shown that message once, however the two ways of getting it
\* into the prompt (stored by the caller, or pushed after the history) and the
\* tasks that store meanwhile are interleaved.  (A message that could not be
\* stored is missing from the prompt: the failure is only logged.)
TriggerInPromptOnce ==
  \A p \in Proc :
    (pc[p] = "llm" /\ (StoredFirst(Event(p)) => WroteUser(job[p]))) =>
    \E i \in DOMAIN prompt[p] : \A k \in DOMAIN prompt[p] :
      (prompt[p][k].of = job[p] /\ prompt[p][k].role = "user") <=> k = i

\* Nothing was written for the JID of message n in the IdleTimeout seconds
\* before n arrived.
IdleBefore(n) ==
  /\ IdleTimeout # 0
  /\ \A e \in stored : (JidOf(e.of) = JidOf(n) /\ e.of # n)
        => received[n].at - e.at > IdleTimeout

FreshFor(p) == (pc[p] = "llm" /\ IdleBefore(job[p])) => Len(prompt[p]) = 1

\* A 1:1 text or file that ends a long silence is put to the LLM without the
\* conversation before the silence (memory.rs, check_session_freshness).
FreshContext ==
  \A p \in Proc : (job[p] # 0 /\ ~StoredFirst(Event(p))) => FreshFor(p)

\* README.md:331 "idle sessions are automatically archived when the next message
\* arrives ... works per-user and per-room": the same for every message.
FreshContextEverywhere == \A p \in Proc : FreshFor(p)

\* Message k was a reset of its JID's session, and it was answered.
DidReset(k, whats) ==
  Ev(k).what \in whats /\ \E i \in DOMAIN out[k] : out[k][i].body = "notice"

NothingBefore(p, whats) ==
  pc[p] = "llm" =>
    \A i \in DOMAIN prompt[p] : \A k \in 1..job[p] :
      (JidOf(k) = Key(p) /\ DidReset(k, whats)) => prompt[p][i].of >= k

\* After a reset has been answered, no prompt for a later message holds anything
\* that arrived before it (ROADMAP.md:32 "The LLM sees an empty history").
ResetCutsContext == \A p \in Proc : NothingBefore(p, {"new", "forget"})

\* In a session file, an answer of the LLM comes after the message it answers.
AnswersFollowQuestions ==
  \A j \in Jids : \A i \in DOMAIN history[j] :
    history[j][i].what = "answer" =>
      \E k \in 1..(i - 1) : history[j][k].role = "user" /\ history[j][k].of = history[j][i].of

\* Each JID's memory is a log: whatever loop and tasks do, it is stored to,
\* archived or erased, one step at a time.  HistoryFile shows what the file
\* operations make of that promise.
Log(j) == INSTANCE SessionLog WITH Entries <- Entry, active <- history[j], archived <- archives[j]

KeepsLogs ==
  /\ \A j \in Jids : Log(j)!Init
  /\ [][\A j \in Jids : [Log(j)!Next]_<<history[j], archives[j]>>]_vars

\* Where the loop stores the answer itself (rooms and reactions), the stanza
\* carries the id of the stored entry, so that a later reaction to it is found.
RoomIdsMatch ==
  \A n \in 1..Len(received) : \A i \in DOMAIN out[n] :
    (StoredFirst(Ev(n)) /\ out[n][i].id # NoId)
      => \E e \in stored : e.role = "assistant" /\ e.id = out[n][i].id

Closing(c) == c.kind \in {"message", "paused"}
Texts(n)   == {i \in DOMAIN out[n] : out[n][i].kind = "message"}

\* Every announcement that the agent is typing is taken back, by the message or
\* by <paused/> (the two exits, Ok and Err, of every arm that sends <composing/>).
EveryTypingEnds ==
  \A n \in Messages :
    (out[n] # <<>> /\ out[n][1] = Composing)
      ~> (\E i \in DOMAIN out[n] : Closing(out[n][i]))

\* A message is answered by at most one text, and nothing follows it: no typing
\* state is left behind it and no failure is reported after an answer.
OneAnswer ==
  \A n \in Messages : /\ \A i, k \in Texts(n) : i = k
                     /\ \A i \in Texts(n) : \A k \in DOMAIN out[n] : k <= i

----------------------------------------------------------------------------
\* The invariant behind FreshContext and AnswerRecordedFirst.

\* No two processes handle the same message, and a 1:1 text or file has left
\* nothing in the history until its handler stores it.
Ownership ==
  /\ \A p, q \in Proc : (job[p] # 0 /\ job[p] = job[q]) => p = q
  /\ \A p \in Proc :
       /\ pc[p] \in {"fetch", "storeUser"} => ~StoredFirst(Event(p))
       /\ (pc[p] \in {"fetch", "freshen", "load", "llm", "storeUser"}
            /\ ~StoredFirst(Event(p))) => \A e \in stored : e.of # job[p]

\* What is written was received before, and an active session is as old as the
\* last entry written for its JID.
Timeline ==
  /\ \A n \in 1..Len(received) : received[n].at <= now
  /\ \A e \in stored : e.of <= Len(received) /\ e.at <= now
  /\ \A j \in Jids : history[j] # <<>> =>
       \E e \in stored : JidOf(e.of) = j /\ e.at = mtime[j]

\* Between the freshness check and the reading of the history, a session that
\* was idle is empty.
Cleared ==
  \A p \in Proc :
    (pc[p] = "load" /\ ~StoredFirst(Event(p)) /\ IdleBefore(job[p])) => history[Key(p)] = <<>>

FreshInv == TypeOK /\ Ownership /\ Timeline /\ Cleared /\ FreshContext

\* What is on disk before the handler of a 1:1 text or file stores its answer,
\* and before it sends it.
Recorded ==
  \A p \in Proc :
    ~(pc[p] = "idle") /\ ~StoredFirst(Event(p)) =>
      /\ pc[p] = "storeAnswer" => WroteUser(job[p])
      /\ (pc[p] = "reply" /\ answer[p] # "notice") =>
           WroteUser(job[p]) /\ WroteAnswer(job[p], answer[p])

\* Nothing has been sent yet for a message that is still to come.
OutOfNothing == \A n \in Messages : n > Len(received) => out[n] = <<>>

RecordInv == TypeOK /\ Recorded /\ OutOfNothing /\ AnswerRecordedFirst
=============================================================================
