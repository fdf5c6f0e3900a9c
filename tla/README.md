# Verification of fluux-agent

TLA+ models of fluux-agent, the TLC runs that check them and the theorems that
TLAPS proves about them. Paths below are those of the repository
(`src/agent/runtime.rs` and so on). `PROJECT.json` maps every definition to the
lines it stands for and lists the runs, the mutants, the findings, the hazards
and the theorems.

## 1. The system

fluux-agent is one tokio process that speaks XMPP to a server, keeps a
conversation per JID on disk, asks an LLM and lets it call skills.

| component | state | operations | modules |
|---|---|---|---|
| Agent runtime (`agent/runtime.rs`) | none of its own between events but the open channels; tasks for file messages | one arm per event, `handle_message`, `handle_muc_message`, `handle_reaction`, `handle_message_with_attachments`, slash commands | AgentRuntime; the attachment task opened up in Attachments |
| Session memory (`agent/memory.rs`) | `<jid>/history.jsonl`, `<jid>/sessions/*.jsonl`; profile and notes of a JID | `store_message_full`, `get_history`, `new_session`, `check_session_freshness`, `get_user_profile`, `set_user_profile`, `forget` | AgentRuntime (one step per call), HistoryFile (one step per file operation), Attachments (all of `forget`), SessionLog (the promise) |
| Knowledge store (`agent/memory.rs`, memory skills) | `<jid>/knowledge.jsonl` | `knowledge_store`, `knowledge_get`, `knowledge_search` | KnowledgeStore |
| Agentic tool loop (`agent/runtime.rs`, `llm/*`, `skills/registry.rs`) | conversation, round, backoff of a request | request, retry, tool call, next round, forced last call | AgenticLoop, Backoff; what goes over the wire: ToolWire |
| Reconnection loop (`main.rs`, `backoff.rs`) | backoff, age of the connection | connect, run, classify the end, wait, give up | Reconnect, Backoff, ConnectLoop |
| Connection (`xmpp/component.rs`, `xmpp/client.rs`) | two bounded channels, reader task, writer task | read, deliver, write, ping, read timeout, end | Connection |
| Connection setup (`xmpp/client.rs`, `xmpp/component.rs`, `xmpp/sasl.rs`) | phase of the handshake | open, STARTTLS, SASL, bind, roster, subscribe | Handshake, composed with the loop in ConnectLoop |
| Stanza parser (`xmpp/stanzas.rs`) | depth, element stack | `feed` per XML event | StanzaParser |
| File downloads (`agent/files.rs`) | semaphore, `<jid>/files/` | `download`, `file_to_content_block` | Attachments |
| Web skills (`skills/builtin/url_fetch.rs`, `web_search/*`) | none between calls | `execute`, by stages | SkillCalls |
| Configuration (`config.rs`) | constant after start | `find_room`, `is_allowed`, `is_domain_allowed` | operators of AgentRuntime |
| Start-up (`main.rs`), sandbox stub | none | sequential I/O; no code | not modelled |

How they interact: `main` connects (XMPP setup), spawns reader and writer tasks
behind two `mpsc` channels of 100 places, and runs the event loop until the
connection ends. The loop takes an event, runs its handler to the end (the LLM
call included) and sends commands. A chat message with files goes to a task of
its own, which calls the same memory as the loop, without any lock, and sends to
the command channel it was given. The memory is the file system.

What is hard here: the loop and the tasks interleave over unlocked files; state
is looked at before it is used (file exists, file age, last entry of the
history); each operation may fail half-way or be cut off by a crash; retries
inside rounds inside one message; a connection whose two tasks end separately;
and liveness that depends on closing every `<composing/>` and on noticing a dead
link.

What makes each part correct:

* runtime: an answer is recorded before it is sent; the LLM is shown the message
  it is asked about, once and last; a reset or a long silence cuts the context;
  every typing notification ends;
* memory: each call amounts to one step of an append-only log that is archived
  or erased as a whole; nothing stored disappears; the file stays one object per
  line after one header;
* tool loop: requests are well formed, calls run once and in order, cost is
  bounded, it ends;
* reconnection: never come back after a permanent end, wait the delay that is
  due, give up neither early nor never;
* setup: the class of an error says what was wrong; everyone on the list is asked
  for a subscription, and once, over attempts that fail half-way;
* connection: a dead link is noticed and a live one is not given up; no event
  that was read is lost while the loop stays; both tasks end;
* parser: each stanza is returned once, at its end, and as what it is, whatever
  came before it;
* knowledge: a key has one value, the last one stored, and a call that is cut off
  costs no key but those it had to write;
* files: each file has its block and its note, whatever becomes of it; every
  message is done with; what /forget erased stays erased, and a profile that was
  replaced is not shown again;
* skills: what the LLM is told is what happened, and a silent site does not hold
  the answer.

## 2. Modules

**AgentRuntime.** Processes: `Main`, the event loop, and one per slot of `Tasks`
for the tasks spawned at runtime.rs:281. `pc` is the place in a handler where
another process can run (between two memory calls, while the LLM or a download
is awaited); `job` the message it handles; `prompt` what `llm.complete` was
given; `answer` what is to be stored and sent. `Receive` has one action per arm
of `run()`; `Handle` one per memory call, LLM outcome or final send. `history`,
`mtime` and `archives` are the files as a reader sees them. A message is its
number, an id is `<<n, k>>` (0 inbound, 1 and 2 the UUIDs drawn for it), a text
is its kind. Failures: any memory call may return Err (`DiskMayFail`), the LLM
may fail, the process may crash at any point and restart with only the files.
Who is listened to is decided by `IsAllowed` and `IsDomainAllowed` from the lists of
the configuration, with their wildcards and, when no domain is listed, the own one.
`Tick` passes only while every process waits for an event, a download or the
LLM: calls between two waits take no time on a clock of seconds.

**SessionLog.** The abstract log of one JID: store at the end, archive as a whole
under a second, erase. Both models of the memory are shown to implement it.

**HistoryFile.** memory.rs for one JID, one file operation per step: exists,
open, the two writes of `writeln!` (text, newline: `File` has no buffer), read,
rename, remove. `serial` says that no two calls have overlapped and none was cut
short. A file is an inode, so a writer keeps its file when the name is
renamed away. One `write` with O_APPEND is atomic. Every operation may fail and
the process may die between any two.

**Lines.** The loop over the lines of a file: those that can be read, in their order
(`Select`, after `parse_session`). HistoryFile and KnowledgeStore read by it.

**Backoff.** backoff.rs as operators on a record. **Reconnect** is the loop of
`main`: its outcomes (`ConnectErrors`, `Reasons`) are chosen by the server.
**AgenticLoop** is `agentic_loop` with the requests of anthropic.rs (retries) or
ollama.rs (no retries, ids made up per response). `messages` is the conversation
as the loop keeps it: per turn, whether it has text and media, the ids of
`tool_use` blocks and the results with the call each one really came from.
**ToolWire** adds the requests: the turns as they are for Anthropic, translated
message by message for Ollama, which gets no ids; and, external, what the two
servers read from them. **SkillCalls** opens up the loop's step Execute: a call of
url_fetch or web_search goes through stages, with a site or a search server that
answers, fails, breaks off or stays silent. `was` is what really came, `output`
what the skill says of it.

**Attachments.** The directory of one JID while tasks handle file messages: the
semaphore with its queue, one step per await of a download (permit, answer,
directory, write, reading back), the prompt's files read one by one, /forget file
by file in the order of memory.rs, edits of the profile, one refused operation or
a restart anywhere. A file's text is reduced to the number of the last /forget
begun when it was written (`since`). `blocks` goes to the LLM, `meta` to the
history. AgentRuntime takes all of it as Download, Load and Forget.

**Connection.** One connection while it is up, and the one after it: the reader
and the writer task (component.rs and client.rs run the same two), the two
bounded channels, `run_event_loop` that returns when either task ends and leaves
the other running, `run()` with its pings and its list of things still to send
for the event in hand, and file tasks that hold the command channel of the
connection their message came by. A channel end is dropped when its owner ends:
the receiver of commands with the writer, the senders of events with the reader
and `run_event_loop`, run()'s ends when it returns. `link` is what the network
does: up, silent (out of reach, nothing written since), dying (something was
written and is not acknowledged), broken (the system reports it).

**Handshake.** One attempt to connect: a step per answer awaited or write made, in
client mode (STARTTLS, SASL, bind, roster, presence, subscriptions) and component
mode. `err` is the class of XmppError, `cause` what was really wrong. The roster
lives on the server from attempt to attempt; a request may be lost with the
connection, and a roster entry may not be read as such (`misread`): read_until takes
the first `</iq>` for the answer, and decodes every read on its own, so that a
character cut in two garbles the JID it stands in (`Wide`, the JIDs with such
characters). **ConnectLoop** is Reconnect with its attempts opened up: a
success or failure of Handshake is what Reconnect takes as one step.

**KnowledgeStore.** knowledge.jsonl of one JID, one file operation per step, one
call at a time. Each operation may fail and the process may die between any two
(`Cut`, which loses the same in both cases); a text without its newline joins the
next one and both are unreadable. `promise` is what a caller was told is stored,
`hurt` the keys a cut call had still to write.

**StanzaParser.** `feed` and `finalize_*` over the start, empty, text and end events
of an XML reader. `fed` is the document so far; `Completed` and `Meaning` read
from it, by counting levels and without the parser's state, which stanza has just
ended and what it is. The reader may begin in the middle of an element whose start
the handshake has taken (`cut`); the XML reader then reports the first end tag
without a start. Names are those the parser tells apart, one for each list
of names it treats alike.

The `MC*` modules give TLC the sets of events and the code's constants; the cfg
files do the rest. Definitions whose name ends in `Bug` are faulty variants used
as mutants only.

## 3. Runs

Passing runs:

| run | instance | what it shows |
|---|---|---|
| RuntimeSerial | loop only; a user, a room, and a user and a room that are turned away; 4 messages, window of 2 | types; the LLM sees the message asked about last and nothing from before an answered reset; answers follow questions on disk; ids in rooms match |
| RuntimeFresh | one task, a user and a room, 3 messages, a clock, timeout 1, fairness | a 1:1 message after a silence gets a fresh context; every typing notification ends |
| RuntimeTasks | two tasks, failing disk, a crash, 3 messages | recorded before sent; in the prompt once; one answer; refines SessionLog per JID |
| History | event loop and a task, 4 calls in all, refused operations, a crash | nothing written twice, nothing stored is lost; while calls do not overlap and none is cut short: one object per line with one header first, only idle sessions archived, refines SessionLog |
| FileMessages | two tasks, one permit, two files, a /forget, an edit, one fault, fairness | blocks and notes agree; what /forget erased stays erased; the old profile stays hidden; every message ends |
| ReconnectLoop | ConnectLoop with the constants of main.rs, two JIDs (one with a wide character) and the wildcard, fairness | the opened loop implements Reconnect; never returns after a final end, waits what is due, gives up late, stops trying; subscribes to everyone once |
| ToolLoop | both APIs, both search providers, four skills and an unknown one, 2 rounds, 2 calls, fairness | well paired, executed once, read by the server as meant, skills tell the truth, ends though a site is silent |
| ConnectionLife | two connections, channels of 2 and 1, a task, fairness | a live link is kept, a dead one noticed, nothing read is dropped but on a write error, run() is never stuck, old tasks end |
| KnowledgeCalls | 3 keys (symmetric), 6 calls, 2 cut off, a /forget | what was stored is found unless a cut call had to write it; one line per key |
| ParserEvents | 7 events, from the stream's header, between stanzas, or from inside an element | each stanza is returned at its end, as what it is, and nothing of a piece of one |

Bounds. The races of AgentRuntime need at most two writers and a third message
to see the effect, which is what the runs have; a context window of 2 is enough
to overflow it with two exchanges. RuntimeTasks has a window of 5: a task can push
two entries behind a message before it is read, so two tasks push four, and with a
window of 4 TLC finds the message pushed out (`TriggerInPromptOnce`); the code's 20
stands for at most nine file tasks in flight, which nothing in the code enforces. A timeout of one second and two seconds of clock give a silence
before, at and after the limit. HistoryFile has four calls: an archive between two
stores and a reader behind them; each of its races is between two. Reconnect runs with the code's own
constants and counts five beyond the limit. ToolLoop has fewer retries and rounds
than the code: rounds differ only in their number, and two make ids repeat and a
conversation grow; sizes and lengths are one below, at and one above their limit.
FileMessages has one permit for two tasks, so that one waits, and two files, which
are one message of two or two messages of one; a second task is what puts a file
into the directory while /forget removes it. KnowledgeStore needs three keys and two cuts
to have a rewrite cut off in its middle and an append behind the torn line. Seven
events hold a text at the deepest level the parser looks at (a reaction or a url),
or a whole stanza behind another one. Connection's
channels are so small that every sender meets a full one; one stanza from the
server is enough, because timeouts, errors and pings fill the channels without
bound, and two connections are what an old one's tasks can meet.

Violations. Each of these checks one sentence of the documentation that the
code does not keep; the trace is a legal execution.

* RuntimeRoomFresh: a room's message is stored before the age of the file is
  looked at, so an idle room is never archived (README.md:331).
* SetupAuthErrors: a network error during SASL, or a refusal for another reason
  than the password, is called an authentication error, which ends the program
  (xmpp/mod.rs:18).

Where a property fails in general and holds in part, the part is what a passing
run checks: FreshContext for 1:1 messages, PromptEndsWithTrigger without tasks,
ResetCutsContext without tasks; OneObjectPerLine, OnlyIdleArchived and the
refinement of SessionLog by HistoryFile while calls do not overlap.

Seen while modelling, and not given a run:

* A file task may store its exchange between the loop's storing of a reaction and
  its reading of the history: with tasks `PromptEndsWithTrigger` fails
  (runtime.rs:768 "The reaction is already the last entry in history").
* A file task in flight puts back what /forget erased, so with tasks
  `ResetCutsContext` fails (README.md:319 "Erase your history").
* HistoryFile, with a task: two writers' texts share a line, and a reader skips
  both; there are two headers, or none after an archive in between
  (`OneObjectPerLine`, docs/SESSION_FORMAT.md:3); `OnlyIdleArchived` fails (a
  message stored between the age check and the rename); a crash between a text and
  its newline breaks `OneObjectPerLine` with a single process.
* Two resets within one second: the second archive replaces the first
  (memory.rs:418), although data/memory/README.md:278 says they are preserved.
* Slash commands in rooms are stored and so reach the LLM with the next message,
  although runtime.rs:537 says they never do.
* Groupchat reactions from rooms that are not configured are stored and answered
  (runtime.rs:407 says the same checks apply).
* The id of a 1:1 answer on the wire is not the one stored
  (docs/SESSION_FORMAT.md:50).
* An empty answer to a reaction is sent (runtime.rs:450 says the LLM decides).
* Short-lived connections count against MAX_RECONNECT_ATTEMPTS, "consecutive
  transient failures" (main.rs:30), but are never compared with it themselves;
  "non-retriable stream errors" (main.rs:241) are retried.
* A response cut at max_tokens after a tool_use block drops the call
  (runtime.rs:894); anthropic.rs:204 says there are none unless the stop reason is
  ToolUse, and nothing enforces it.
* Two knowledge_store calls for one JID that overlap (the loop's and a file task's,
  memory.rs:645): one update is lost; one that loads while the other rewrites
  writes back only a part; a /forget between load and rewrite is undone.
* /forget removes user.md before context.md, so the profile that user.md replaced
  shows again while /forget runs, and stays when it fails behind user.md.
* The clients of the LLM and of the search servers set no timeout (tavily.rs:50).
* What the handshake read behind its marker is lost to the stanza parser, and
  the end of an element begun there is an XML error (client.rs:457).
* config/agent.example.toml:109 says of read_timeout_secs "declare connection dead
  after this much silence"; the code probes with a ping, as docs/XEPS.md:13 says.

Fairness. `AgentRuntime!Fairness` is weak fairness of each process's handler:
tokio runs every ready task, and the awaits end if the LLM's server and the
downloads end. The agent sets no timeout around the LLM, so that part is an
assumption on the outside. `ConnectLoop!LoopFairSpec`: a sleep ends, and an attempt
goes on from step to step, to a failure perhaps: in client mode by the 10 s
timeouts of `read_until`, which start anew with every read (client.rs:440), so that
a peer that sends a byte now and then is assumed not to do so for ever. The TLS
handshake and the two reads of component mode have no timeout, so there it is an
assumption on the peer: one that accepts the connection and then says nothing
stops the program for ever. A crash is not fair,
nor is any fault.
`Connection!Fairness`: the tasks are scheduled, the LLM returns, the interval of
the pings fires, a peer that is up reads what it is sent (otherwise both sides
could wait for each other's full buffers for ever, and no timeout of the agent's
would end that), and TCP gives up on data that is never acknowledged. Nothing is
assumed of a write while the link is dying: it may block on a full send buffer.
`Attachments!FairSpec`: tokio runs ready tasks, its semaphore is first come first
served, a download ends by its 30 s timeout, and the LLM answers or fails.
`SkillCalls!FairCalls`: the loop's own steps; the servers of the LLM and of the
searches answer or fail, though no timeout enforces it; a site that is fetched may
stay silent, for there the 30 s of url_fetch end the call.

## 4. Proofs

TLAPS proves the theorems below for all values of the constants allowed by the
named assumptions, so for any number of JIDs, tasks, calls, lines, rounds,
connections and stanzas. Each safety property is proved from an inductive invariant; what is
said of an invariant is what the property alone does not say.

**AgentRuntimeProofs** (any number of tasks, users, rooms, messages and crashes).

* `TypeCorrect`; `FreshContextHolds`, by FreshInv: no two processes share a message
  and a 1:1 message has written nothing before its handler stores it (`Ownership`),
  a session that is not empty is as young as its last entry and nothing is from
  the future (`Timeline`), a stale session has been cleared when the history is
  about to be read (`Cleared`).
* `AnswersRecordedFirst`, by RecordInv: what is on disk at the stages `storeAnswer`
  and `reply` (`Recorded`); nothing is sent for messages still to come.
* `KeepsLogsHolds`: the refinement of SessionLog for every JID. Each action leaves a
  JID's log alone, or is a store, an archive or an erase of it, and no step touches
  two logs.
* `OneAnswerHolds`, by AnswerInv: a message in hand has been announced at most, and
  what is out for any other ends with its answer.
* `RoomIdsMatchHolds`, if the disk does not fail, by IdInv: the id a handler holds is
  that of the entry it stored. (When the store fails, the answer is sent all the
  same, with an id of its own.)
* `TriggerOnceHolds`, if twice the number of tasks is below the window (`FewTasks`), by
  TriggerInv: behind a stored message there are only entries that tasks have pushed
  since, two each. The bound is the best there is, see section 3.
* `ResetCutsContextHolds`, without tasks, by CutInv; `PromptEndsHolds` and
  `AnswersFollowHolds`, without tasks and without a disk that fails (`LoopAlone`), by
  AskInv: at each stage the session ends with the message in hand. Each
  hypothesis is needed: section 3 lists what tasks do to these three, and
  a disk that refuses the message but not the answer leaves an answer alone.
  `PushedLastHolds` is what remains of PromptEndsWithTrigger with tasks and failures.

**HistoryFileProofs** (any number of processes, calls and crashes, files of any length).

* `SessionFileTypes`, by FileInv: a descriptor is open exactly in the stages of
  a write, and no name points at an inode that does not exist.
* `WrittenOnceHolds`, by OnceInv: an entry in a file is of a call its process has begun,
  and not of one that still has its text to write.
* `StoredIsKeptHolds`: an inode with a stored entry loses its name only by `forget` or
  by the rename of another to the same archive.
* `OneObjectPerLineHolds`, `OnlyIdleArchivedHolds` and `KeepsLogHolds` (the refinement of
  SessionLog), by SerialInv: while calls do not overlap and none was cut short
  (`serial`), the file is a header and then entry, newline, entry, newline, with one
  text unfinished exactly while its writer is between its two writes.

**KnowledgeStoreProofs**: `OneLinePerKeyHolds` and `PromiseKeptHolds`, by StoreInv:
while a file is rewritten, its lines and the entries still to be written have no key
in common and hold together what was promised; only a cut leaves a line without
its newline, and then it is unreadable or its key one the cut call had to write.

**Inductions**: the loops over the lines of a file are recursive functions, and the
theorems of the standard library about those take an operator as a parameter. Here
induction over Nat and definition by recursion are stated about sets and functions
instead (`Induction`, `Recursion`) and derived from the finite-set theorems; from
these come what a file's lines are when a text or a newline is appended.

**AgenticLoopProofs** (any number of rounds, retries, skills and calls).

* `RequestsWellPaired`, by PairInv: the results so far answer the first calls of the
  last assistant turn. `ExecutedOnceHolds`, by OnceInv: everything executed lies
  before the next call.
* `TruthfulOutputHolds`, by CallInv: what is known of a call at each of its stages, so
  that the text returned agrees with what came (`was`).
* `ReadAsMeantHolds`, by ReadInv: what a server reads from the conversation before the
  round, plus the calls of the round so far, is what was executed. A
  round adds its own calls to what is read and changes nothing before it:
  for Anthropic because the turns alternate and ids in a turn differ
  (`AnthropicRound`), for Ollama because behind each assistant's message stand as many
  tool messages as it has calls (`Closed`, `OllamaRound`). `FlattenUnfolds` unfolds
  FlattenSeq of the community modules.
* `CallsRunLoop`: SkillCalls implements AgenticLoop; `CallsKeepPromises` carries the
  theorems about the loop over to it.

**XmppProofs** (the reconnection loop, the set-up and the stanza parser)

* of Reconnect: `ReconnectTypes`, `NeverReturns`, `GivesUpLateHolds` (the attempts of
  the backoff never exceed the number of ends since the last stable connection)
  and `WaitIsDueHolds`. The last assumes `CountedFarEnough`: the counter `ends` is
  bounded in the model, and the delays must have reached their maximum there. TLC
  evaluates it for the code's constants (`DelaysCounted` of MCConnectLoop).
* `RunsLoopHolds`, ConnectLoop implements Reconnect: a step inside an attempt is a
  stutter, its end is `ConnectOk` or `ConnectFails`; `NeverReturnsAtAll` and
  `WaitsAreDue` follow for ConnectLoop.
* `LoopTypes`, `AsksOnceHolds` and `AllAskedHolds`: whoever was asked is in the server's
  roster (`Recorded`); behind the reading of the roster its members were read or
  asked in this attempt, unless it was misread (`Read`); the list is dealt with up
  to `next` and untouched from there (`Place`).
* of StanzaParser: `ReturnsWhatIsThereHolds`, for documents of any length and depth,
  by ParserInv. The elements that are open form a chain, one on each level, and
  nothing behind the start of one has left it (`Chain`). When the reader began
  between stanzas, the parser's depth is the chain's length, and its stack is the part
  of the chain inside the stanza: each entry has the name and the text of its element
  and, as its children, the completed elements directly in it, in their order
  (`Inside`, `Holding`); the stanza's own children are right with what they hold
  (`Deep`). The property says nothing of an element until its end, so it needs all of
  this. When the reader began inside an element, it
  meets only names no stanza has (`StanzaLess`). The lemmas before it say what one
  more event does to the levels, the ends and the contents of the elements
  (`LevelGrows`, `EndGrows`, `WithinGrows`, `ChainGrows`, `DoneGrows`), those behind it that
  the parser does the same to its stack (`StartFollows`, `TextFollows`, `EmptyFollows`,
  `EndFollows`), and `MeaningFound` that a stanza's `Meaning` is what `Finalize` makes of
  its children.

**ConnectionProofs**: `ConnectionTypes`, `LeavesOnlyDeadHolds` and
`DropsOnlyAfterFailureHolds`, by EndsInv: a connection not yet made has no traffic, a
writer that has ended on a connection still in use had a write error, a reader at
its end has seen the link break or the stream ruined, and what it reported is the last
event in its channel.

**AttachmentsProofs**: `EraseIsFinalHolds`, by EraseInv: what lies behind the place of
a running /forget is younger than it. `LegacyStaysHiddenHolds`, by LegacyInv: a
prompt read while the old profile is hidden has context.md in its plan only
directly behind user.md, and no /forget runs while the old profile is
superseded. `BlocksMatchHolds`, by BlockInv: the two lists are equally long
while a file is fetched, the notes one ahead while it is encoded, and each block
goes with its note.

Only model-checked: the liveness properties, which need fairness (TLAPS has neither
liveness nor ENABLED here): EveryTypingEnds, TasksEnd of Attachments and of Connection,
StopsAttempting, Ends, DeadLinkNoticed and LoopReturns. Every other property of
a passing run is stated by a theorem.

## 5. Plan

The modules planned are written, and each safety property of a passing run has its
theorem. What is left are the liveness properties, which this prover cannot state,
and a model of two knowledge_store calls that overlap, once the code orders them.

Not modelled:

* the command line, the start-up and the parsing of the TOML file: sequential,
  before anything runs; the checks of the configuration the runtime makes later are
  operators of AgentRuntime;
* the sandbox: a stub;
* the override files of the workspace (identity, personality, instructions): read
  only, by one call each;
* two overlapping calls of knowledge_store: what they do is listed in section 3;
  neither OneLinePerKey nor PromiseKept survives it;
* knowledge_search and the counts of /status: filters over what was read;
* token counters (only logged), the texts of prompts and of stanzas, and SASL's
  cryptography.
