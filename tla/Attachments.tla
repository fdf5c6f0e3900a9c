----------------------------- MODULE Attachments -----------------------------
(***************************************************************************)
(* The directory of one JID while its file messages are handled:           *)
(* handle_message_with_attachments of runtime.rs with the downloads of     *)
(* files.rs, the workspace files a prompt is made of, and /forget          *)
(* (memory.rs).  Each message has a task of its own; the tasks share the   *)
(* download permits, and the directory with the event loop, which runs     *)
(* /forget file by file.  AgentRuntime takes all of this as its steps      *)
(* Download, Load and Forget.  The age of the session is left to it: here  *)
(* no session is archived.                                                 *)
(*                                                                         *)
(* A file is absent, blank or has a text; what matters of the text is how  *)
(* many times /forget had been called when it was written.                 *)
(***************************************************************************)
EXTENDS Integers, Sequences, FiniteSets

CONSTANTS
  Tasks,          \* slots for the tasks that handle file messages
  MaxConcurrent,  \* permits of the download semaphore
  MaxFileSize,    \* MAX_FILE_SIZE
  MaxFiles,       \* bound: files sent, in as many messages as one likes
  MaxFaults,      \* bound: file operations that the disk refuses, and restarts
  MaxForgets,     \* bound: calls of /forget
  MaxEdits        \* bound: writes of the workspace files

ASSUME AttachmentsAssumption ==
  /\ MaxConcurrent \in Nat \ {0} /\ MaxFileSize \in Nat \ {0}
  /\ MaxFiles \in Nat /\ MaxFaults \in Nat /\ MaxForgets \in Nat
  /\ MaxEdits \in Nat

\* The files of a JID that /forget erases, in its order.  (history.md, which nothing
\* writes any more, is left out, and so is knowledge.jsonl, the last: see KnowledgeStore.)
ForgetOrder == <<"history.jsonl", "user.md", "context.md", "memory.md">>
Private     == {ForgetOrder[i] : i \in DOMAIN ForgetOrder}
States      == {"absent", "blank", "text"}
Epochs      == 0..MaxForgets

\* What a file is to the LLM, by its MIME type: an image or a document, or nothing.
Category == {"media", "other"}

\* An address: its scheme, "none" when it cannot be parsed, whether its host is this one,
\* and what the extension of its name says.
Url      == [scheme : {"https", "http", "none"}, local : BOOLEAN, ext : Category]
NoLength == -1
Sizes    == {1, MaxFileSize, MaxFileSize + 1}

\* What comes back for a GET: nothing within the timeout, or a status, a declared length
\* (hyper makes the body fit it) and a type; an unspecific type is none at all or
\* application/octet-stream.
Response == {res \in [got : BOOLEAN, ok : BOOLEAN, declared : Sizes \cup {NoLength},
                      size : Sizes, type : Category \cup {"unspecific"}] :
               res.declared \in {res.size, NoLength}}

Working == {"queue", "fetch", "mkdir", "write", "encode"}
Stages  == {"idle", "history", "look", "take", "llm"} \cup Working
Holding == {"fetch", "mkdir", "write"}   \* with a permit of the semaphore

Blocks == {"media", "unsupported", "encodingError", "failed"}
Metas  == Category \cup {"failed"}

VARIABLES
  file,     \* per private file, its state
  since,    \* per private file, the /forgets begun when it was written
  dir,      \* whether files/ exists
  saved,    \* the files in files/
  permits,  \* free permits of the semaphore
  waiting,  \* the tasks waiting for one, in order
  pc, job, attached,              \* per task: stage, its message, number of files
  kind, blocks, meta,             \* per task: the last download's category, content, notes
  plan, shown,                    \* per task: files still to be read, parts of the prompt
  forget,   \* what /forget does next, as a place in ForgetOrder or behind it; 0: none runs
  sent,     \* the files sent so far; a message is known by the number of its first
  epoch,    \* the /forgets begun
  edits, faults,
  erased,     \* the number of the last /forget that returned Ok
  superseded, \* whether user.md was written and no /forget began since
  hidden      \* the tasks whose prompt was begun while superseded, no /forget since

private  == <<file, since>>
disk     == <<private, dir, saved>>
sema     == <<permits, waiting>>
message  == <<job, attached>>
reading  == <<plan, shown>>
task     == <<pc, message, kind, blocks, meta, reading>>
erasing  == <<forget, epoch, erased>>
legacy   == <<superseded, hidden>>
counts   == <<sent, edits, faults>>
vars     == <<disk, sema, task, erasing, legacy, counts>>

----------------------------------------------------------------------------
\* FileDownloader.  Names that end in _Bug are faulty variants of the definition that
\* follows, to see that the properties notice the fault; no specification uses them.

Allowed(url) == url.scheme # "none" /\ (url.scheme = "https" \/ url.local)

\* The declared length is looked at before the body is read, the real one after it.
Usable(url, res) ==
  /\ Allowed(url) /\ res.got /\ res.ok
  /\ res.declared <= MaxFileSize /\ res.size <= MaxFileSize

\* The header, or, where it says nothing, the extension.
Categorize(url, res) == IF res.type = "unspecific" THEN url.ext ELSE res.type

\* All that can become of a download before the disk has a say.
Results == {IF Usable(x[1], x[2]) THEN Categorize(x[1], x[2]) ELSE "failed" :
              x \in Url \X Response}

\* A file has its block: the next one waits for a permit.  (The text of the message
\* follows behind the last block.)
Proceed(t, block) ==
  /\ blocks' = [blocks EXCEPT ![t] = Append(@, block)]
  /\ IF Len(blocks'[t]) < attached[t]
     THEN pc' = [pc EXCEPT ![t] = "queue"] /\ waiting' = Append(waiting, t)
     ELSE pc' = [pc EXCEPT ![t] = "history"] /\ UNCHANGED waiting

\* An operation is refused by the disk, or the process dies.
Fault   == faults < MaxFaults /\ faults' = faults + 1
NoFault == UNCHANGED faults

\* A message with files: its directory is made and its first download asked for.
Begin(t) ==
  /\ pc[t] = "idle" /\ dir' = TRUE
  /\ \E n \in 1..(MaxFiles - sent) : attached' = [attached EXCEPT ![t] = n] /\ sent' = sent + n
  /\ job' = [job EXCEPT ![t] = sent + 1]
  /\ pc' = [pc EXCEPT ![t] = "queue"] /\ waiting' = Append(waiting, t)
  /\ UNCHANGED <<private, saved, permits, kind, blocks, meta, reading, erasing,
                 legacy, edits, faults>>

\* Its directory cannot be made: an apology is all there is.
BeginFails(t) ==
  /\ pc[t] = "idle" /\ Fault
  /\ \E n \in 1..(MaxFiles - sent) : sent' = sent + n
  /\ UNCHANGED <<disk, sema, task, erasing, legacy, edits>>

\* The semaphore serves the tasks in the order in which they asked.
Acquire(t) ==
  /\ pc[t] = "queue" /\ permits > 0 /\ Head(waiting) = t
  /\ permits' = permits - 1 /\ waiting' = Tail(waiting)
  /\ pc' = [pc EXCEPT ![t] = "fetch"]
  /\ UNCHANGED <<disk, message, kind, blocks, meta, reading, erasing, legacy, counts>>

Failed_KeepsBug(t) ==   \* an early return that keeps the permit
  /\ UNCHANGED permits /\ meta' = [meta EXCEPT ![t] = Append(@, "failed")]
  /\ Proceed(t, "failed")

Failed_NoMetaBug(t) ==   \* only successful downloads get their note
  /\ permits' = permits + 1 /\ UNCHANGED meta
  /\ Proceed(t, "failed")

\* download returns Err: the permit is given back, a note takes the file's place.
Failed(t) ==
  /\ permits' = permits + 1 /\ meta' = [meta EXCEPT ![t] = Append(@, "failed")]
  /\ Proceed(t, "failed")

Fetched(t) ==
  /\ pc[t] = "fetch" /\ pc' = [pc EXCEPT ![t] = "mkdir"]
  /\ \E k \in Results \ {"failed"} : kind' = [kind EXCEPT ![t] = k]
  /\ UNCHANGED <<disk, sema, message, blocks, meta, reading, erasing, legacy, counts>>

\* The URL is refused, the server does not answer, or its answer is of no use.
FetchFails(t) ==
  /\ pc[t] = "fetch" /\ "failed" \in Results /\ Failed(t)
  /\ UNCHANGED <<disk, message, kind, reading, erasing, legacy, counts>>

MakeDir(t) ==
  /\ pc[t] = "mkdir" /\ pc' = [pc EXCEPT ![t] = "write"] /\ dir' = TRUE
  /\ UNCHANGED <<private, saved, sema, message, kind, blocks, meta, reading,
                 erasing, legacy, counts>>

\* The file of the download in progress, under a fresh UUID.
FileOf(t) == job[t] + Len(blocks[t])

Write(t) ==
  /\ pc[t] = "write" /\ dir
  /\ saved' = saved \cup {[id |-> FileOf(t), since |-> epoch]}
  /\ permits' = permits + 1 /\ meta' = [meta EXCEPT ![t] = Append(@, kind[t])]
  /\ pc' = [pc EXCEPT ![t] = "encode"]
  /\ UNCHANGED <<private, dir, waiting, message, kind, blocks, reading,
                 erasing, legacy, counts>>

\* files/ has been removed meanwhile, or the disk refuses: perhaps in the middle.
WriteFails(t) ==
  /\ \/ pc[t] = "mkdir" /\ Fault /\ UNCHANGED saved
     \/ pc[t] = "write" /\ (Fault \/ (~dir /\ NoFault)) /\ UNCHANGED saved
     \/ /\ pc[t] = "write" /\ dir /\ Fault
        /\ saved' = saved \cup {[id |-> FileOf(t), since |-> epoch]}
  /\ Failed(t) /\ kind' = [kind EXCEPT ![t] = "other"]
  /\ UNCHANGED <<private, dir, message, reading, erasing, legacy, sent, edits>>

\* file_to_content_block reads the file back, unless the LLM cannot use it.
Encode(t) ==
  /\ pc[t] = "encode"
  /\ IF kind[t] = "other" THEN Proceed(t, "unsupported") /\ NoFault
     ELSE \/ (\E s \in saved : s.id = FileOf(t)) /\ Proceed(t, "media") /\ NoFault
          \/ (\A s \in saved : s.id # FileOf(t)) /\ Proceed(t, "encodingError") /\ NoFault
          \/ Fault /\ Proceed(t, "encodingError")
  /\ kind' = [kind EXCEPT ![t] = "other"]
  /\ UNCHANGED <<disk, permits, message, meta, reading, erasing, legacy, sent, edits>>

----------------------------------------------------------------------------
\* The prompt: the history, then the workspace files one after the other.

Part(f) ==
  IF file[f] = "text" THEN {f} ELSE {}

\* get_history.  (Of the workspace files, those of the agent, which only an administrator
\* writes, are left out.  The blocks and the notes are passed on as they are; here they
\* are dropped.)
ReadHistory(t) ==
  /\ pc[t] = "history" /\ pc' = [pc EXCEPT ![t] = "look"]
  /\ blocks' = [blocks EXCEPT ![t] = <<>>] /\ meta' = [meta EXCEPT ![t] = <<>>]
  /\ shown' = [shown EXCEPT ![t] = Part("history.jsonl")]
  /\ plan' = [plan EXCEPT ![t] = <<"user.md", "context.md", "memory.md">>]
  /\ hidden' = IF superseded THEN hidden \cup {t} ELSE hidden \ {t}
  /\ UNCHANGED <<disk, sema, message, kind, erasing, superseded, counts>>

\* On to the rest of the plan; behind its end the LLM is asked.
ReadOn(t, rest) ==
  /\ plan' = [plan EXCEPT ![t] = rest]
  /\ pc'   = [pc EXCEPT ![t] = IF rest = <<>> THEN "llm" ELSE "look"]

\* Whether the next file exists.
Look(t) ==
  /\ pc[t] = "look"
  /\ IF file[Head(plan[t])] = "absent" THEN ReadOn(t, Tail(plan[t]))
     ELSE pc' = [pc EXCEPT ![t] = "take"] /\ UNCHANGED plan
  /\ UNCHANGED <<disk, sema, message, kind, blocks, meta, shown, erasing, legacy, counts>>

Take_FallsThroughBug(t) ==   \* an empty profile does not hide the old one
  /\ pc[t] = "take" /\ file[Head(plan[t])] # "absent"
  /\ shown' = [shown EXCEPT ![t] = @ \cup Part(Head(plan[t]))]
  /\ ReadOn(t, IF Head(plan[t]) = "user.md" /\ file["user.md"] = "text"
               THEN <<"memory.md">> ELSE Tail(plan[t]))
  /\ UNCHANGED <<disk, sema, message, kind, blocks, meta, erasing, legacy, counts>>

\* Its text: a user.md, empty or not, hides context.md, its predecessor.
Take(t) ==
  /\ pc[t] = "take" /\ file[Head(plan[t])] # "absent"
  /\ shown' = [shown EXCEPT ![t] = @ \cup Part(Head(plan[t]))]
  /\ ReadOn(t, IF Head(plan[t]) = "user.md" THEN <<"memory.md">> ELSE Tail(plan[t]))
  /\ UNCHANGED <<disk, sema, message, kind, blocks, meta, erasing, legacy, counts>>

\* The handler is over: the answer, or an apology, is sent.
End(t) ==
  /\ pc' = [pc EXCEPT ![t] = "idle"] /\ job' = [job EXCEPT ![t] = 0]
  /\ blocks' = [blocks EXCEPT ![t] = <<>>] /\ meta' = [meta EXCEPT ![t] = <<>>]
  /\ shown' = [shown EXCEPT ![t] = {}] /\ plan' = [plan EXCEPT ![t] = <<>>]
  /\ attached' = [attached EXCEPT ![t] = 1]
  /\ UNCHANGED kind

\* A file that was there is gone, or the disk refuses.
ReadFails(t) ==
  /\ \/ pc[t] \in {"history", "take"} /\ Fault
     \/ pc[t] = "take" /\ file[Head(plan[t])] = "absent" /\ NoFault
  /\ End(t)
  /\ UNCHANGED <<disk, sema, erasing, legacy, sent, edits>>

\* What is appended to the history stands behind what is there already.
Answer(t) ==
  /\ pc[t] = "llm" /\ End(t)
  /\ file' = [file EXCEPT !["history.jsonl"] = "text"]
  /\ since' = [since EXCEPT !["history.jsonl"] =
                 IF file["history.jsonl"] = "absent" THEN epoch ELSE @]
  /\ UNCHANGED <<dir, saved, sema, erasing, legacy, counts>>

\* The LLM fails, or the exchange cannot be stored.
AnswerFails(t) ==
  /\ pc[t] = "llm" /\ End(t)
  /\ UNCHANGED <<disk, sema, erasing, legacy, counts>>

Handle(t) ==
  \/ Acquire(t) \/ Fetched(t) \/ FetchFails(t) \/ MakeDir(t) \/ Write(t) \/ WriteFails(t)
  \/ Encode(t) \/ ReadHistory(t) \/ Look(t) \/ Take(t) \/ ReadFails(t)
  \/ Answer(t) \/ AnswerFails(t)

----------------------------------------------------------------------------
\* /forget, in the event loop

CountPlace == Len(ForgetOrder) + 1
RmdirPlace == CountPlace + 1

Forgotten == forget' = 0 /\ erased' = epoch

\* Without a directory of the JID there is nothing to do.
BeginForget ==
  /\ forget = 0 /\ epoch < MaxForgets /\ epoch' = epoch + 1
  /\ \/ forget' = 1 /\ UNCHANGED erased
     \/ /\ \A f \in Private : file[f] = "absent"
        /\ ~dir /\ saved = {} /\ forget' = 0 /\ erased' = epoch'
  /\ superseded' = FALSE /\ hidden' = {}
  /\ UNCHANGED <<disk, sema, task, counts>>

Erase_LegacyBug ==   \* the profile is erased under one of its names only
  /\ forget \in 1..Len(ForgetOrder) /\ forget' = forget + 1
  /\ LET f == ForgetOrder[forget] IN
     file' = [file EXCEPT ![f] = IF f = "context.md" THEN @ ELSE "absent"]
  /\ UNCHANGED <<since, dir, saved, sema, task, epoch, erased, legacy, counts>>

\* The next file is removed if it is there.
Erase ==
  /\ forget \in 1..Len(ForgetOrder) /\ forget' = forget + 1
  /\ file' = [file EXCEPT ![ForgetOrder[forget]] = "absent"]
  /\ since' = [since EXCEPT ![ForgetOrder[forget]] = 0]
  /\ UNCHANGED <<dir, saved, sema, task, epoch, erased, legacy, counts>>

\* A files/ that holds something is removed, its files first.
EraseFiles ==
  /\ forget = CountPlace
  /\ IF saved = {} THEN Forgotten /\ UNCHANGED saved
     ELSE forget' = RmdirPlace /\ saved' = {} /\ UNCHANGED erased
  /\ UNCHANGED <<private, dir, sema, task, epoch, legacy, counts>>

RemoveDir ==
  /\ forget = RmdirPlace /\ saved = {} /\ dir' = FALSE /\ Forgotten
  /\ UNCHANGED <<private, saved, sema, task, epoch, legacy, counts>>

\* The disk refuses, or a download has put a file into the directory meanwhile: what is
\* behind this place stays.
ForgetFails ==
  /\ forget # 0 /\ forget' = 0
  /\ Fault \/ (forget = RmdirPlace /\ saved # {} /\ NoFault)
  /\ saved' \in IF forget = CountPlace THEN SUBSET saved ELSE {saved}
  /\ UNCHANGED <<private, dir, sema, task, epoch, erased, legacy, sent, edits>>

ForgetStep == Erase \/ EraseFiles \/ RemoveDir \/ ForgetFails

----------------------------------------------------------------------------
\* Everyone else

\* set_user_profile, set_user_memory, or an administrator's editor.
WriteNotes ==
  /\ edits < MaxEdits /\ edits' = edits + 1
  /\ \E f \in {"user.md", "memory.md"}, s \in {"blank", "text"} :
       /\ file' = [file EXCEPT ![f] = s] /\ since' = [since EXCEPT ![f] = epoch]
       /\ superseded' = (superseded \/ (f = "user.md" /\ forget = 0))
  /\ UNCHANGED <<dir, saved, sema, task, erasing, hidden, sent, faults>>

\* The process dies and is started again.
Crash ==
  /\ Fault
  /\ permits' = MaxConcurrent /\ waiting' = <<>> /\ forget' = 0 /\ hidden' = {}
  /\ pc' = [t \in Tasks |-> "idle"] /\ job' = [t \in Tasks |-> 0]
  /\ blocks' = [t \in Tasks |-> <<>>] /\ meta' = [t \in Tasks |-> <<>>]
  /\ plan' = [t \in Tasks |-> <<>>] /\ shown' = [t \in Tasks |-> {}]
  /\ UNCHANGED <<disk, attached, kind, epoch, erased, superseded, sent, edits>>

\* A directory of the old layout, or a new one.
Init ==
  /\ file \in {[f \in Private |-> IF f = "context.md" THEN s ELSE "absent"] :
                 s \in {"absent", "text"}}
  /\ since = [f \in Private |-> 0]
  /\ dir = FALSE /\ saved = {}
  /\ permits = MaxConcurrent /\ waiting = <<>>
  /\ pc = [t \in Tasks |-> "idle"] /\ job = [t \in Tasks |-> 0]
  /\ attached = [t \in Tasks |-> 1]
  /\ kind = [t \in Tasks |-> "other"]
  /\ blocks = [t \in Tasks |-> <<>>] /\ meta = [t \in Tasks |-> <<>>]
  /\ plan = [t \in Tasks |-> <<>>] /\ shown = [t \in Tasks |-> {}]
  /\ forget = 0 /\ epoch = 0 /\ erased = 0
  /\ superseded = FALSE /\ hidden = {}
  /\ sent = 0 /\ edits = 0 /\ faults = 0

\* The bounds are reached and nothing is in progress.
Rest == sent = MaxFiles /\ (\A t \in Tasks : pc[t] = "idle") /\ forget = 0 /\ UNCHANGED vars

Next ==
  \/ \E t \in Tasks : Begin(t) \/ BeginFails(t) \/ Handle(t)
  \/ BeginForget \/ ForgetStep \/ WriteNotes \/ Crash \/ Rest

Spec == Init /\ [][Next]_vars

\* Every ready task is run and the semaphore is fair (both tokio's promise), a download
\* ends by its timeout of 30 seconds, and the LLM answers or fails.
FairSpec == Spec /\ \A t \in Tasks : WF_vars(Handle(t))

----------------------------------------------------------------------------
\* Properties

Holders == {t \in Tasks : pc[t] \in Holding}

\* Type invariant; whoever waits for a permit is in the queue once, and every permit is
\* free or with a task that downloads.
TypeOK ==
  /\ file \in [Private -> States] /\ since \in [Private -> Epochs]
  /\ dir \in BOOLEAN /\ (saved # {} => dir)
  /\ saved \in SUBSET [id : 1..MaxFiles, since : Epochs]
  /\ pc \in [Tasks -> Stages] /\ job \in [Tasks -> 0..MaxFiles]
  /\ attached \in [Tasks -> Nat \ {0}]
  /\ kind \in [Tasks -> Category]
  /\ blocks \in [Tasks -> Seq(Blocks)] /\ meta \in [Tasks -> Seq(Metas)]
  /\ waiting \in Seq(Tasks) /\ permits \in 0..MaxConcurrent
  /\ \A t \in Tasks : pc[t] = "queue" <=> \E i \in DOMAIN waiting : waiting[i] = t
  /\ \A i, j \in DOMAIN waiting : waiting[i] = waiting[j] => i = j
  /\ permits + Cardinality(Holders) = MaxConcurrent
  /\ forget \in 0..RmdirPlace /\ epoch \in Epochs /\ erased \in Epochs

\* What may stand in the prompt for a file with this note in the history.
Stands(m) ==
  CASE m = "failed" -> {"failed"}
    [] m = "other"  -> {"unsupported"}
    [] OTHER        -> {m, "encodingError"}

\* Whatever becomes of the files one by one, the LLM is shown one block for each of them,
\* in order and before the text, and the history gets one note for each that says the
\* same (the two lists are filled at different places of the loop at runtime.rs:978).
BlocksMatch ==
  \A t \in Tasks : pc[t] = "history" =>
    /\ Len(meta[t]) = attached[t]
    /\ Len(blocks[t]) = attached[t]
    /\ \A i \in 1..attached[t] : blocks[t][i] \in Stands(meta[t][i])

\* memory.rs:470 "Erases all active memory for a user": once a /forget has returned Ok,
\* whatever the directory holds was written after that /forget began, whichever files
\* were being downloaded meanwhile and whichever of the two names the profile had.
EraseIsFinal ==
  /\ \A f \in Private : file[f] # "absent" => since[f] >= erased
  /\ \A s \in saved : s.since >= erased

\* data/memory/README.md:217 user.md "replaces the legacy context.md file": a profile
\* that was written, and be it emptied, hides the old one from every later prompt.  (A
\* /forget removes user.md first, and while it runs, or when it fails behind that, the
\* old profile is shown again.)
LegacyStaysHidden ==
  \A t \in hidden : "context.md" \notin shown[t]

\* However many tasks want permits, and whatever fails, each message is done with.
TasksEnd == \A t \in Tasks : pc[t] # "idle" ~> pc[t] = "idle"
=============================================================================
