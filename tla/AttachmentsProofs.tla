-------------------------- MODULE AttachmentsProofs --------------------------
(***************************************************************************)
(* Theorems about the directory of a JID and its file messages, for every  *)
(* number of tasks, permits, files and calls of /forget.                   *)
(***************************************************************************)
EXTENDS Attachments, TLAPS

LEMMA Names ==
  /\ Private = {"history.jsonl", "user.md", "context.md", "memory.md"}
  /\ Len(ForgetOrder) = 4 /\ CountPlace = 5 /\ RmdirPlace = 6
  /\ \A i \in 1..4 : ForgetOrder[i] \in Private
  /\ \A f \in Private : \E i \in 1..4 : f = ForgetOrder[i]
<1>1. DOMAIN ForgetOrder = 1..4 /\ Len(ForgetOrder) = 4
  BY DEF ForgetOrder
<1>2. /\ ForgetOrder[1] = "history.jsonl" /\ ForgetOrder[2] = "user.md"
      /\ ForgetOrder[3] = "context.md" /\ ForgetOrder[4] = "memory.md"
  BY DEF ForgetOrder
<1>3. Private = {ForgetOrder[1], ForgetOrder[2], ForgetOrder[3], ForgetOrder[4]}
  BY <1>1 DEF Private
<1>. QED BY <1>1, <1>2, <1>3 DEF CountPlace, RmdirPlace

LEMMA Downloads == Results \ {"failed"} \subseteq Category
BY DEF Results, Categorize, Url, Response, Category

----------------------------------------------------------------------------
\* Types

DiskTypes ==
  /\ file \in [Private -> States] /\ since \in [Private -> Nat]
  /\ \A s \in saved : s.since \in Nat
  /\ epoch \in Nat /\ erased \in Nat /\ forget \in 0..6

TaskTypes ==
  /\ pc \in [Tasks -> Stages] /\ attached \in [Tasks -> Nat \ {0}]
  /\ kind \in [Tasks -> Category] /\ sent \in Nat
  /\ blocks \in [Tasks -> Seq(Blocks)] /\ meta \in [Tasks -> Seq(Metas)]
  /\ plan \in [Tasks -> Seq(Private)] /\ shown \in [Tasks -> SUBSET Private]

\* Whatever is behind the place of a running /forget was written since it began, and
\* whatever there is was written since the last one that returned Ok.
EraseInv ==
  /\ DiskTypes
  /\ erased <= epoch
  /\ EraseIsFinal
  /\ forget # 0 => \A i \in 1..4 : i < forget =>
       file[ForgetOrder[i]] = "absent" \/ since[ForgetOrder[i]] = epoch
  /\ forget = 6 => \A s \in saved : s.since = epoch

LEMMA InitErase == Init => EraseInv
BY Names DEF Init, EraseInv, DiskTypes, EraseIsFinal, States

LEMMA SameErase ==
  ASSUME EraseInv, UNCHANGED <<private, saved, erasing>> PROVE EraseInv'
BY DEF EraseInv, DiskTypes, EraseIsFinal, private, erasing

\* A file put into files/ is as young as can be.
LEMMA SaveErase ==
  ASSUME EraseInv, UNCHANGED <<private, erasing>>,
         NEW n, saved' = saved \cup {[id |-> n, since |-> epoch]}
  PROVE  EraseInv'
BY DEF EraseInv, DiskTypes, EraseIsFinal, private, erasing

LEMMA HandleErase ==
  ASSUME EraseInv, NEW t \in Tasks, Handle(t)
  PROVE  EraseInv'
<1>1. CASE Write(t)
  BY <1>1, SaveErase DEF Write
<1>2. CASE WriteFails(t)
  BY <1>2, SaveErase, SameErase DEF WriteFails
<1>3. CASE Answer(t)
  <2>1. /\ file' = [file EXCEPT !["history.jsonl"] = "text"]
        /\ since' = [since EXCEPT !["history.jsonl"] =
                       IF file["history.jsonl"] = "absent" THEN epoch ELSE @]
        /\ UNCHANGED <<saved, erasing>>
    BY <1>3 DEF Answer
  <2>. QED BY <2>1, Names DEF EraseInv, DiskTypes, EraseIsFinal, erasing, States
<1>4. CASE \/ Acquire(t) \/ Fetched(t) \/ FetchFails(t) \/ MakeDir(t) \/ Encode(t)
           \/ ReadHistory(t) \/ Look(t) \/ Take(t) \/ ReadFails(t) \/ AnswerFails(t)
  BY <1>4, SameErase
  DEF Acquire, Fetched, FetchFails, MakeDir, Encode, ReadHistory, Look, Take, ReadFails,
      AnswerFails, disk
<1>. QED BY <1>1, <1>2, <1>3, <1>4 DEF Handle

LEMMA ForgetErase ==
  ASSUME EraseInv, BeginForget \/ ForgetStep
  PROVE  EraseInv'
<1>1. CASE BeginForget
  BY <1>1 DEF BeginForget, EraseInv, DiskTypes, EraseIsFinal, disk, private
<1>2. CASE Erase
  BY <1>2, Names DEF Erase, EraseInv, DiskTypes, EraseIsFinal, States
<1>3. CASE EraseFiles
  <2>1. CASE saved = {}
    BY <1>3, <2>1, Names DEF EraseFiles, Forgotten, EraseInv, DiskTypes, EraseIsFinal, private
  <2>2. CASE saved # {}
    BY <1>3, <2>2, Names DEF EraseFiles, EraseInv, DiskTypes, EraseIsFinal, private
  <2>. QED BY <2>1, <2>2
<1>4. CASE RemoveDir
  BY <1>4, Names DEF RemoveDir, Forgotten, EraseInv, DiskTypes, EraseIsFinal, private
<1>5. CASE ForgetFails
  <2>1. saved' \subseteq saved
    BY <1>5 DEF ForgetFails
  <2>. QED BY <1>5, <2>1 DEF ForgetFails, EraseInv, DiskTypes, EraseIsFinal, private
<1>. QED BY <1>1, <1>2, <1>3, <1>4, <1>5 DEF ForgetStep

LEMMA NextErase == EraseInv /\ [Next]_vars => EraseInv'
<1> SUFFICES ASSUME EraseInv, [Next]_vars PROVE EraseInv'
  OBVIOUS
<1>1. CASE \E t \in Tasks : Begin(t) \/ BeginFails(t)
  BY <1>1, SameErase DEF Begin, BeginFails, disk
<1>2. CASE \E t \in Tasks : Handle(t)
  BY <1>2, HandleErase
<1>3. CASE BeginForget \/ ForgetStep
  BY <1>3, ForgetErase
<1>4. CASE WriteNotes
  <2>1. PICK f \in {"user.md", "memory.md"}, s \in {"blank", "text"} :
          file' = [file EXCEPT ![f] = s] /\ since' = [since EXCEPT ![f] = epoch]
    BY <1>4 DEF WriteNotes
  <2>. QED
    BY <1>4, <2>1, Names DEF WriteNotes, EraseInv, DiskTypes, EraseIsFinal, erasing, States
<1>5. CASE Crash
  BY <1>5 DEF Crash, EraseInv, DiskTypes, EraseIsFinal, disk, private
<1>6. CASE Rest \/ UNCHANGED vars
  BY <1>6, SameErase DEF Rest, vars, disk
<1>. QED BY <1>1, <1>2, <1>3, <1>4, <1>5, <1>6 DEF Next

\* Once a /forget has returned Ok, nothing in the directory is older than that /forget,
\* whatever was downloaded, answered or edited while it ran (memory.rs:470).
THEOREM EraseIsFinalHolds == Spec => []EraseIsFinal
<1>1. EraseInv => EraseIsFinal
  BY DEF EraseInv
<1>. QED BY InitErase, NextErase, <1>1, PTL DEF Spec

----------------------------------------------------------------------------
\* What a task reads: behind a profile it goes on past the old one, so a prompt begun
\* while the profile is there never comes to the old one, unless a /forget begins.

ReadingTypes ==
  /\ pc \in [Tasks -> Stages] /\ plan \in [Tasks -> Seq(Private)]
  /\ shown \in [Tasks -> SUBSET Private] /\ file \in [Private -> States]
  /\ hidden \subseteq Tasks
  /\ \A t \in Tasks : pc[t] \in {"look", "take"} => plan[t] # <<>>

LegacyInv ==
  /\ ReadingTypes
  /\ superseded => forget = 0 /\ file["user.md"] # "absent"
  /\ \A t \in hidden :
       /\ superseded /\ "context.md" \notin shown[t]
       /\ \/ plan[t] = <<"user.md", "context.md", "memory.md">>
          \/ plan[t] = <<"memory.md">>
          \/ plan[t] = <<>>

LEMMA Plans ==
  /\ Head(<<"user.md", "context.md", "memory.md">>) = "user.md"
  /\ Head(<<"memory.md">>) = "memory.md" /\ Tail(<<"memory.md">>) = <<>>
  /\ <<"memory.md">> \in Seq(Private) /\ <<"memory.md">> # <<>>
  /\ <<"user.md", "context.md", "memory.md">> \in Seq(Private)
<1>1. "user.md" \in Private /\ "context.md" \in Private /\ "memory.md" \in Private
  BY Names
<1>. QED BY <1>1

LEMMA InitLegacy == Init => LegacyInv
BY Names DEF Init, LegacyInv, ReadingTypes, States, Stages

LEMMA SameLegacy ==
  ASSUME LegacyInv, UNCHANGED <<file, reading, forget, legacy>>, pc' \in [Tasks -> Stages],
         \A t \in Tasks : pc'[t] \in {"look", "take"} => pc[t] \in {"look", "take"}
  PROVE  LegacyInv'
BY DEF LegacyInv, ReadingTypes, reading, legacy

\* The steps of a download.
LEMMA DownloadPlaces ==
  ASSUME ReadingTypes, NEW t \in Tasks,
         Acquire(t) \/ Fetched(t) \/ FetchFails(t) \/ MakeDir(t) \/ Write(t)
           \/ WriteFails(t) \/ Encode(t)
  PROVE  /\ pc' \in [Tasks -> Stages]
         /\ \A u \in Tasks : pc'[u] \in {"look", "take"} => pc[u] \in {"look", "take"}
<1>1. \A b : Proceed(t, b) =>
        pc' = [pc EXCEPT ![t] = "queue"] \/ pc' = [pc EXCEPT ![t] = "history"]
  BY DEF Proceed
<1>2. \E s \in {"queue", "history", "fetch", "mkdir", "write", "encode"} :
        pc' = [pc EXCEPT ![t] = s]
  BY <1>1 DEF Acquire, Fetched, FetchFails, MakeDir, Write, WriteFails, Encode, Failed
<1>. QED BY <1>2 DEF ReadingTypes, Stages, Working

LEMMA HandleLegacy ==
  ASSUME LegacyInv, NEW t \in Tasks, Handle(t)
  PROVE  LegacyInv'
<1>1. CASE \/ Acquire(t) \/ Fetched(t) \/ FetchFails(t) \/ MakeDir(t) \/ Write(t)
           \/ WriteFails(t) \/ Encode(t)
  <2>1. UNCHANGED <<file, reading, forget, legacy>>
    BY <1>1 DEF Acquire, Fetched, FetchFails, MakeDir, Write, WriteFails, Encode, disk,
                private, erasing
  <2>. QED BY <1>1, <2>1, DownloadPlaces, SameLegacy DEF LegacyInv
<1>2. CASE ReadHistory(t)
  <2>1. /\ plan' = [plan EXCEPT ![t] = <<"user.md", "context.md", "memory.md">>]
        /\ shown' = [shown EXCEPT ![t] = Part("history.jsonl")]
        /\ pc' = [pc EXCEPT ![t] = "look"]
        /\ hidden' = IF superseded THEN hidden \cup {t} ELSE hidden \ {t}
        /\ UNCHANGED <<file, forget, superseded>>
    BY <1>2 DEF ReadHistory, disk, private, erasing
  <2>2. Part("history.jsonl") \subseteq {"history.jsonl"} /\ "history.jsonl" \in Private
    BY Names DEF Part
  <2>3. ReadingTypes'
    BY <2>1, <2>2, Plans DEF LegacyInv, ReadingTypes, Stages
  <2>. QED BY <2>1, <2>2, <2>3 DEF LegacyInv, ReadingTypes
<1>3. CASE Look(t)
  <2>1. UNCHANGED <<file, shown, forget, legacy>> /\ pc[t] = "look"
    BY <1>3 DEF Look, disk, private, erasing
  <2>2. CASE file[Head(plan[t])] = "absent"
    <3>1. /\ plan' = [plan EXCEPT ![t] = Tail(plan[t])]
          /\ pc' = [pc EXCEPT ![t] = IF Tail(plan[t]) = <<>> THEN "llm" ELSE "look"]
      BY <1>3, <2>2 DEF Look, ReadOn
    <3>2. plan[t] # <<>> /\ Tail(plan[t]) \in Seq(Private)
      BY <2>1 DEF LegacyInv, ReadingTypes
    <3>3. t \in hidden => plan[t] = <<"memory.md">> /\ Tail(plan[t]) = <<>>
      BY <2>2, <3>2, Plans DEF LegacyInv
    <3>4. ReadingTypes'
      BY <2>1, <3>1, <3>2 DEF LegacyInv, ReadingTypes, Stages, legacy
    <3>. QED BY <2>1, <3>1, <3>3, <3>4 DEF LegacyInv, ReadingTypes, legacy
  <2>3. CASE file[Head(plan[t])] # "absent"
    <3>1. pc' = [pc EXCEPT ![t] = "take"] /\ UNCHANGED plan
      BY <1>3, <2>3 DEF Look
    <3>. QED BY <2>1, <3>1, SameLegacy DEF LegacyInv, ReadingTypes, Stages, reading
  <2>. QED BY <2>2, <2>3
<1>4. CASE Take(t)
  <2> DEFINE rest == IF Head(plan[t]) = "user.md" THEN <<"memory.md">> ELSE Tail(plan[t])
  <2>1. /\ UNCHANGED <<file, forget, legacy>> /\ pc[t] = "take"
        /\ shown' = [shown EXCEPT ![t] = @ \cup Part(Head(plan[t]))]
        /\ plan' = [plan EXCEPT ![t] = rest]
        /\ pc' = [pc EXCEPT ![t] = IF rest = <<>> THEN "llm" ELSE "look"]
    BY <1>4 DEF Take, ReadOn, disk, private, erasing
  <2>2. /\ plan[t] # <<>> /\ Head(plan[t]) \in Private
        /\ rest \in Seq(Private)
    <3>1. plan[t] # <<>> /\ plan[t] \in Seq(Private)
      BY <2>1 DEF LegacyInv, ReadingTypes
    <3>. QED BY <3>1, Plans
  <2>3. Part(Head(plan[t])) \subseteq {Head(plan[t])}
    BY DEF Part
  <2>4. t \in hidden => /\ Head(plan[t]) # "context.md"
                        /\ rest = <<>> \/ rest = <<"memory.md">>
    BY <2>2, Plans DEF LegacyInv
  <2>5. ReadingTypes'
    BY <2>1, <2>2, <2>3 DEF LegacyInv, ReadingTypes, Stages, legacy
  <2> HIDE DEF rest
  <2>. QED BY <2>1, <2>3, <2>4, <2>5 DEF LegacyInv, ReadingTypes, legacy
<1>5. CASE ReadFails(t) \/ Answer(t) \/ AnswerFails(t)
  <2>1. /\ UNCHANGED <<forget, legacy>>
        /\ file' = file \/ file' = [file EXCEPT !["history.jsonl"] = "text"]
    BY <1>5 DEF ReadFails, Answer, AnswerFails, disk, private, erasing
  <2>2. /\ pc' = [pc EXCEPT ![t] = "idle"] /\ plan' = [plan EXCEPT ![t] = <<>>]
        /\ shown' = [shown EXCEPT ![t] = {}]
    BY <1>5 DEF ReadFails, Answer, AnswerFails, End
  <2>. QED BY <2>1, <2>2, Names DEF LegacyInv, ReadingTypes, legacy, Stages, States
<1>. QED BY <1>1, <1>2, <1>3, <1>4, <1>5 DEF Handle

LEMMA NextLegacy == LegacyInv /\ [Next]_vars => LegacyInv'
<1> SUFFICES ASSUME LegacyInv, [Next]_vars PROVE LegacyInv'
  OBVIOUS
<1>1. CASE \E t \in Tasks : Begin(t) \/ BeginFails(t)
  BY <1>1, SameLegacy
  DEF Begin, BeginFails, LegacyInv, ReadingTypes, Stages, Working, disk, private, task, erasing
<1>2. CASE \E t \in Tasks : Handle(t)
  BY <1>2, HandleLegacy
<1>3. CASE BeginForget
  BY <1>3 DEF BeginForget, LegacyInv, ReadingTypes, disk, private, task, reading
<1>4. CASE ForgetStep
  <2>1. /\ forget # 0 /\ UNCHANGED <<pc, reading, legacy>> /\ file' \in [Private -> States]
    BY <1>4, Names
    DEF ForgetStep, Erase, EraseFiles, RemoveDir, ForgetFails, LegacyInv, ReadingTypes,
        private, task, States
  <2>2. ~superseded /\ hidden = {}
    BY <2>1 DEF LegacyInv, ReadingTypes
  <2>. QED BY <2>1, <2>2 DEF LegacyInv, ReadingTypes, reading, legacy
<1>5. CASE WriteNotes
  <2>1. PICK f \in {"user.md", "memory.md"}, s \in {"blank", "text"} :
          /\ file' = [file EXCEPT ![f] = s]
          /\ superseded' = (superseded \/ (f = "user.md" /\ forget = 0))
    BY <1>5 DEF WriteNotes
  <2>2. UNCHANGED <<pc, reading, forget, hidden>>
    BY <1>5 DEF WriteNotes, task, erasing
  <2>3. /\ file' \in [Private -> States]
        /\ file["user.md"] # "absent" => file'["user.md"] # "absent"
        /\ f = "user.md" => file'["user.md"] # "absent"
    BY <2>1, Names DEF LegacyInv, ReadingTypes, States
  <2>. QED BY <2>1, <2>2, <2>3 DEF LegacyInv, ReadingTypes, reading
<1>6. CASE Crash
  BY <1>6 DEF Crash, LegacyInv, ReadingTypes, disk, private, Stages
<1>7. CASE Rest \/ UNCHANGED vars
  BY <1>7, SameLegacy
  DEF Rest, vars, disk, private, task, erasing, LegacyInv, ReadingTypes
<1>. QED BY <1>1, <1>2, <1>3, <1>4, <1>5, <1>6, <1>7 DEF Next

\* A prompt begun while there is a user.md, empty or not, never holds the old profile,
\* whatever is edited while it is read, unless a /forget begins (memory.rs:204).
THEOREM LegacyStaysHiddenHolds == Spec => []LegacyStaysHidden
<1>1. LegacyInv => LegacyStaysHidden
  BY DEF LegacyInv, LegacyStaysHidden
<1>. QED BY InitLegacy, NextLegacy, <1>1, PTL DEF Spec

----------------------------------------------------------------------------
\* The two lists of a message grow in step: while a file is fetched they are equally
\* long, behind it the notes are one ahead, and each block goes with its note.

BlockTypes ==
  /\ pc \in [Tasks -> Stages] /\ attached \in [Tasks -> Nat \ {0}]
  /\ kind \in [Tasks -> Category] /\ sent \in Nat
  /\ blocks \in [Tasks -> Seq(Blocks)] /\ meta \in [Tasks -> Seq(Metas)]

InStep(t) ==
  /\ pc[t] \in {"queue", "fetch", "mkdir", "write"} =>
       Len(meta[t]) = Len(blocks[t]) /\ Len(blocks[t]) < attached[t]
  /\ pc[t] = "encode" =>
       /\ Len(meta[t]) = Len(blocks[t]) + 1 /\ Len(blocks[t]) < attached[t]
       /\ meta[t][Len(meta[t])] = kind[t]
  /\ pc[t] = "history" => Len(meta[t]) = attached[t] /\ Len(blocks[t]) = attached[t]
  /\ pc[t] \in {"idle", "look", "take", "llm"} => meta[t] = <<>> /\ blocks[t] = <<>>
  /\ \A i \in 1..Len(blocks[t]) : blocks[t][i] \in Stands(meta[t][i])

BlockInv == BlockTypes /\ \A t \in Tasks : InStep(t)

LEMMA InitBlocks == Init => BlockInv
BY DEF Init, BlockInv, BlockTypes, InStep, Stages, Category

\* One task's step leaves the lists of the others alone.
LEMMA StepBlocks ==
  ASSUME BlockInv, BlockTypes', NEW t \in Tasks, InStep(t)',
         \A u \in Tasks \ {t} :
           /\ pc'[u] = pc[u] /\ attached'[u] = attached[u] /\ kind'[u] = kind[u]
           /\ blocks'[u] = blocks[u] /\ meta'[u] = meta[u]
  PROVE  BlockInv'
<1> SUFFICES ASSUME NEW u \in Tasks \ {t} PROVE InStep(u)'
  BY DEF BlockInv
<1>1. /\ InStep(u) /\ pc'[u] = pc[u] /\ attached'[u] = attached[u] /\ kind'[u] = kind[u]
      /\ blocks'[u] = blocks[u] /\ meta'[u] = meta[u]
  BY DEF BlockInv
<1>. QED BY <1>1 DEF InStep

LEMMA SameBlocks ==
  ASSUME BlockInv, UNCHANGED <<pc, attached, kind, blocks, meta>>, sent' \in Nat
  PROVE  BlockInv'
BY DEF BlockInv, BlockTypes, InStep

\* A block goes behind the others, and there is a note for it.
LEMMA ProceedBlocks ==
  ASSUME BlockInv, NEW t \in Tasks, NEW b \in Blocks, Proceed(t, b),
         meta' \in [Tasks -> Seq(Metas)], kind' \in [Tasks -> Category],
         UNCHANGED <<attached, sent>>,
         \A u \in Tasks \ {t} : meta'[u] = meta[u] /\ kind'[u] = kind[u],
         Len(blocks[t]) < attached[t], Len(meta'[t]) = Len(blocks[t]) + 1,
         \A i \in 1..Len(blocks[t]) : meta'[t][i] = meta[t][i],
         b \in Stands(meta'[t][Len(blocks[t]) + 1])
  PROVE  BlockInv'
<1>1. /\ blocks' = [blocks EXCEPT ![t] = Append(@, b)]
      /\ \/ pc' = [pc EXCEPT ![t] = "queue"] /\ Len(blocks'[t]) < attached[t]
         \/ pc' = [pc EXCEPT ![t] = "history"] /\ ~(Len(blocks'[t]) < attached[t])
  BY DEF Proceed
<1>2. /\ blocks'[t] = Append(blocks[t], b) /\ blocks[t] \in Seq(Blocks)
      /\ Append(blocks[t], b) \in Seq(Blocks)
  BY <1>1 DEF BlockInv, BlockTypes
<1>3. BlockTypes'
  <2>1. blocks' \in [Tasks -> Seq(Blocks)]
    BY <1>1, <1>2 DEF BlockInv, BlockTypes
  <2>2. pc' \in [Tasks -> Stages]
    BY <1>1 DEF BlockInv, BlockTypes, Stages, Working
  <2>. QED BY <2>1, <2>2 DEF BlockInv, BlockTypes
<1>4. \A i \in 1..Len(blocks'[t]) : blocks'[t][i] \in Stands(meta'[t][i])
  <2>1. SUFFICES ASSUME NEW i \in 1..Len(blocks'[t])
                 PROVE  blocks'[t][i] \in Stands(meta'[t][i])
    OBVIOUS
  <2>2. CASE i = Len(blocks[t]) + 1
    BY <1>2, <2>2
  <2>3. CASE i # Len(blocks[t]) + 1
    <3>1. i \in 1..Len(blocks[t]) /\ blocks'[t][i] = blocks[t][i]
      BY <1>2, <2>1, <2>3
    <3>. QED BY <3>1 DEF BlockInv, InStep
  <2>. QED BY <2>2, <2>3
<1>5. Len(blocks'[t]) = Len(blocks[t]) + 1 /\ attached[t] \in Nat /\ Len(blocks[t]) \in Nat
  BY <1>2 DEF BlockInv, BlockTypes
<1>6. \/ pc'[t] = "queue" /\ Len(blocks'[t]) < attached[t]
      \/ pc'[t] = "history" /\ Len(blocks'[t]) = attached[t]
  BY <1>1, <1>5 DEF BlockInv, BlockTypes
<1>7. InStep(t)'
  BY <1>4, <1>5, <1>6 DEF InStep
<1>8. \A u \in Tasks \ {t} : pc'[u] = pc[u] /\ blocks'[u] = blocks[u]
  BY <1>1 DEF BlockInv, BlockTypes
<1>. QED BY <1>3, <1>7, <1>8, StepBlocks

\* A download that fails leaves a note and a block that say so.
LEMMA FailedBlocks ==
  ASSUME BlockInv, NEW t \in Tasks, Failed(t), kind' \in [Tasks -> Category],
         \A u \in Tasks \ {t} : kind'[u] = kind[u],
         pc[t] \in {"queue", "fetch", "mkdir", "write"}, UNCHANGED <<attached, sent>>
  PROVE  BlockInv'
<1>1. /\ meta' = [meta EXCEPT ![t] = Append(@, "failed")] /\ Proceed(t, "failed")
      /\ meta[t] \in Seq(Metas) /\ "failed" \in Metas /\ "failed" \in Blocks
  BY DEF Failed, BlockInv, BlockTypes, Metas, Blocks
<1>2. Len(meta[t]) = Len(blocks[t]) /\ Len(blocks[t]) < attached[t]
  BY DEF BlockInv, InStep
<1>3. meta'[t] = Append(meta[t], "failed") /\ meta' \in [Tasks -> Seq(Metas)]
  BY <1>1 DEF BlockInv, BlockTypes
<1>4. /\ Len(meta'[t]) = Len(blocks[t]) + 1
      /\ \A i \in 1..Len(blocks[t]) : meta'[t][i] = meta[t][i]
      /\ meta'[t][Len(blocks[t]) + 1] = "failed"
  BY <1>1, <1>2, <1>3
<1>5. "failed" \in Stands(meta'[t][Len(blocks[t]) + 1])
  BY <1>4 DEF Stands
<1>6. \A u \in Tasks \ {t} : meta'[u] = meta[u]
  BY <1>1 DEF BlockInv, BlockTypes
<1>. QED BY <1>1, <1>2, <1>3, <1>4, <1>5, <1>6, ProceedBlocks

LEMMA HandleBlocks ==
  ASSUME BlockInv, NEW t \in Tasks, Handle(t)
  PROVE  BlockInv'
<1>1. CASE Acquire(t)
  <2>1. pc' = [pc EXCEPT ![t] = "fetch"] /\ pc[t] = "queue"
    BY <1>1 DEF Acquire
  <2>2. UNCHANGED <<attached, kind, blocks, meta, sent>>
    BY <1>1 DEF Acquire, message, counts
  <2>. QED BY <2>1, <2>2, StepBlocks DEF BlockInv, BlockTypes, InStep, Stages, Working
<1>2. CASE Fetched(t)
  <2>1. PICK k \in Category : kind' = [kind EXCEPT ![t] = k]
    BY <1>2, Downloads DEF Fetched
  <2>2. /\ pc' = [pc EXCEPT ![t] = "mkdir"] /\ pc[t] = "fetch"
        /\ UNCHANGED <<attached, blocks, meta, sent>>
    BY <1>2 DEF Fetched, message, counts
  <2>. QED BY <2>1, <2>2, StepBlocks DEF BlockInv, BlockTypes, InStep, Stages, Working
<1>3. CASE FetchFails(t)
  BY <1>3, FailedBlocks DEF FetchFails, message, counts, BlockInv, BlockTypes
<1>4. CASE MakeDir(t)
  <2>1. pc' = [pc EXCEPT ![t] = "write"] /\ pc[t] = "mkdir"
    BY <1>4 DEF MakeDir
  <2>2. UNCHANGED <<attached, kind, blocks, meta, sent>>
    BY <1>4 DEF MakeDir, message, counts
  <2>. QED BY <2>1, <2>2, StepBlocks DEF BlockInv, BlockTypes, InStep, Stages, Working
<1>5. CASE Write(t)
  <2>1. /\ pc' = [pc EXCEPT ![t] = "encode"] /\ pc[t] = "write"
        /\ meta' = [meta EXCEPT ![t] = Append(@, kind[t])]
        /\ UNCHANGED <<attached, kind, blocks, sent>>
    BY <1>5 DEF Write, message, counts
  <2>2. /\ kind[t] \in Metas /\ meta[t] \in Seq(Metas)
        /\ Append(meta[t], kind[t]) \in Seq(Metas)
    BY DEF BlockInv, BlockTypes, Metas
  <2>3. /\ Len(meta[t]) = Len(blocks[t]) /\ Len(blocks[t]) < attached[t]
        /\ \A i \in 1..Len(blocks[t]) : blocks[t][i] \in Stands(meta[t][i])
    BY <2>1 DEF BlockInv, InStep
  <2>4. meta'[t] = Append(meta[t], kind[t]) /\ meta' \in [Tasks -> Seq(Metas)]
    BY <2>1, <2>2 DEF BlockInv, BlockTypes
  <2>5. BlockTypes'
    BY <2>1, <2>4 DEF BlockInv, BlockTypes, Stages, Working
  <2>6. /\ Len(meta'[t]) = Len(blocks[t]) + 1 /\ meta'[t][Len(meta'[t])] = kind[t]
        /\ \A i \in 1..Len(blocks[t]) : meta'[t][i] = meta[t][i]
    BY <2>2, <2>3, <2>4
  <2>7. pc'[t] = "encode" /\ \A u \in Tasks \ {t} : pc'[u] = pc[u] /\ meta'[u] = meta[u]
    BY <2>1 DEF BlockInv, BlockTypes
  <2>8. InStep(t)'
    BY <2>1, <2>3, <2>6, <2>7 DEF InStep
  <2>. QED BY <2>1, <2>5, <2>7, <2>8, StepBlocks
<1>6. CASE WriteFails(t)
  BY <1>6, FailedBlocks DEF WriteFails, message, counts, BlockInv, BlockTypes, Category
<1>7. CASE Encode(t)
  <2>1. /\ pc[t] = "encode" /\ UNCHANGED <<attached, meta, sent>>
        /\ kind' = [kind EXCEPT ![t] = "other"]
    BY <1>7 DEF Encode, message
  <2>2. PICK b \in Blocks : Proceed(t, b) /\ b \in Stands(kind[t])
    BY <1>7 DEF Encode, Stands, Blocks, BlockInv, BlockTypes, Category
  <2>3. /\ Len(meta[t]) = Len(blocks[t]) + 1 /\ Len(blocks[t]) < attached[t]
        /\ meta[t][Len(blocks[t]) + 1] = kind[t]
    BY <2>1 DEF BlockInv, InStep
  <2>4. meta' \in [Tasks -> Seq(Metas)] /\ kind' \in [Tasks -> Category]
    BY <2>1 DEF BlockInv, BlockTypes, Category
  <2>5. \A u \in Tasks \ {t} : meta'[u] = meta[u] /\ kind'[u] = kind[u]
    BY <2>1 DEF BlockInv, BlockTypes
  <2>. QED BY <2>1, <2>2, <2>3, <2>4, <2>5, ProceedBlocks
<1>8. CASE ReadHistory(t) \/ Look(t) \/ Take(t) \/ ReadFails(t) \/ Answer(t) \/ AnswerFails(t)
  <2>1. \/ /\ pc[t] \in {"look", "take"} /\ UNCHANGED <<blocks, meta, attached>>
           /\ \E s \in {"look", "take", "llm"} : pc' = [pc EXCEPT ![t] = s]
        \/ /\ \E s \in {"look", "idle"} : pc' = [pc EXCEPT ![t] = s]
           /\ blocks' = [blocks EXCEPT ![t] = <<>>] /\ meta' = [meta EXCEPT ![t] = <<>>]
           /\ attached' = attached \/ attached' = [attached EXCEPT ![t] = 1]
    BY <1>8
    DEF ReadHistory, Look, Take, ReadOn, ReadFails, Answer, AnswerFails, End, message
  <2>2. UNCHANGED <<kind, sent>>
    BY <1>8
    DEF ReadHistory, Look, Take, ReadFails, Answer, AnswerFails, End, counts
  <2>3. CASE UNCHANGED <<blocks, meta, attached>> /\ pc[t] \in {"look", "take"}
    <3>1. PICK s \in {"look", "take", "llm", "idle"} : pc' = [pc EXCEPT ![t] = s]
      BY <2>1, <2>3
    <3>2. BlockTypes'
      BY <2>2, <2>3, <3>1 DEF BlockInv, BlockTypes, Stages
    <3>3. InStep(t)'
      BY <2>2, <2>3, <3>1 DEF BlockInv, BlockTypes, InStep
    <3>. QED BY <2>2, <2>3, <3>1, <3>2, <3>3, StepBlocks DEF BlockInv, BlockTypes
  <2>4. CASE /\ blocks' = [blocks EXCEPT ![t] = <<>>] /\ meta' = [meta EXCEPT ![t] = <<>>]
             /\ attached' = attached \/ attached' = [attached EXCEPT ![t] = 1]
    <3>1. PICK s \in {"look", "take", "llm", "idle"} : pc' = [pc EXCEPT ![t] = s]
      BY <2>1
    <3>2. BlockTypes'
      BY <2>2, <2>4, <3>1 DEF BlockInv, BlockTypes, Stages
    <3>3. InStep(t)'
      BY <2>4, <3>1 DEF BlockInv, BlockTypes, InStep
    <3>. QED BY <2>2, <2>4, <3>1, <3>2, <3>3, StepBlocks DEF BlockInv, BlockTypes
  <2>. QED BY <2>1, <2>3, <2>4
<1>. QED BY <1>1, <1>2, <1>3, <1>4, <1>5, <1>6, <1>7, <1>8 DEF Handle

LEMMA NextBlocks == BlockInv /\ [Next]_vars => BlockInv'
<1> SUFFICES ASSUME BlockInv, [Next]_vars PROVE BlockInv'
  OBVIOUS
<1>1. ASSUME NEW t \in Tasks, Begin(t) PROVE BlockInv'
  <2>1. PICK n \in 1..(MaxFiles - sent) :
          attached' = [attached EXCEPT ![t] = n] /\ sent' = sent + n
    BY <1>1 DEF Begin
  <2>2. /\ pc' = [pc EXCEPT ![t] = "queue"] /\ pc[t] = "idle"
        /\ UNCHANGED <<kind, blocks, meta>>
    BY <1>1 DEF Begin
  <2>3. n \in Nat \ {0} /\ sent' \in Nat
    BY <2>1, AttachmentsAssumption DEF BlockInv, BlockTypes
  <2>4. BlockTypes'
    BY <2>1, <2>2, <2>3 DEF BlockInv, BlockTypes, Stages, Working
  <2>5. InStep(t)'
    BY <2>1, <2>2, <2>3 DEF BlockInv, BlockTypes, InStep
  <2>. QED BY <2>1, <2>2, <2>4, <2>5, StepBlocks DEF BlockInv, BlockTypes
<1>2. CASE \E t \in Tasks : BeginFails(t)
  BY <1>2, SameBlocks, AttachmentsAssumption DEF BeginFails, task, message, BlockInv, BlockTypes
<1>3. CASE \E t \in Tasks : Handle(t)
  BY <1>3, HandleBlocks
<1>4. CASE BeginForget \/ ForgetStep \/ WriteNotes
  BY <1>4, SameBlocks
  DEF BeginForget, ForgetStep, Erase, EraseFiles, RemoveDir, ForgetFails, WriteNotes, task,
      message, counts, BlockInv, BlockTypes
<1>5. CASE Crash
  BY <1>5 DEF Crash, BlockInv, BlockTypes, InStep, Stages
<1>6. CASE Rest \/ UNCHANGED vars
  BY <1>6, SameBlocks DEF Rest, vars, task, message, counts, BlockInv, BlockTypes
<1>. QED BY <1>1, <1>2, <1>3, <1>4, <1>5, <1>6 DEF Next

\* Whichever downloads fail, and wherever, the LLM gets one block per file in order and
\* the history a note per file that says the same (the two lists of runtime.rs:978).
THEOREM BlocksMatchHolds == Spec => []BlocksMatch
<1>1. BlockInv => BlocksMatch
  BY DEF BlockInv, BlockTypes, InStep, BlocksMatch
<1>. QED BY InitBlocks, NextBlocks, <1>1, PTL DEF Spec
=============================================================================
