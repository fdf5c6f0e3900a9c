----------------------------- MODULE HistoryFile -----------------------------
(***************************************************************************)
(* The session file of one JID (memory.rs), one file operation at a time.  *)
(* Memory has no lock: the event loop and the tasks for file messages call *)
(* it at the same time, and a call may stop at any operation when the disk *)
(* refuses it or the process dies.                                         *)
(*                                                                         *)
(* A file is an inode, so that a writer keeps the file it opened when its  *)
(* name is taken away.  Its contents are pieces: writeln! makes one write  *)
(* of the JSON text and one of the newline.  A write appends as a whole    *)
(* (O_APPEND), and a line is understood when it holds one JSON text only.  *)
(***************************************************************************)
EXTENDS Integers, Sequences, Lines

CONSTANTS
  Loop,        \* the event loop: runs every operation
  Tasks,       \* tasks for file messages: they ask and store
  MayFail,     \* whether an operation of the file system may fail
  MaxOps,      \* bound: calls made
  MaxFiles,    \* bound: files created
  MaxSeconds,  \* bound: the last second
  MaxCrashes   \* bound: restarts

ASSUME FileAssumption ==
  /\ Loop \notin Tasks /\ MayFail \in BOOLEAN
  /\ MaxOps \in Nat /\ MaxFiles \in Nat /\ MaxSeconds \in Nat /\ MaxCrashes \in Nat

Proc    == {Loop} \cup Tasks
Seconds == 0..MaxSeconds
Inodes  == 1..MaxFiles
NoFile  == 0

\* The n-th call of all, when p makes it to store, stores the entry <<p, n>>.
Entries == Proc \X (1..MaxOps)
Header  == <<Loop, 0>>
Newline == <<Loop, -1>>
Pieces  == Entries \cup {Header, Newline}

Stages == {"idle", "isNew", "open", "openNew", "header", "headerNl", "entry", "entryNl",
           "fresh", "age", "exists", "count", "rename", "history", "read",
           "forget", "forgetRead", "remove"}

VARIABLES
  name,      \* the inode called history.jsonl
  archives,  \* per second, the inode called sessions/<second>.jsonl
  data,      \* per inode, the pieces written
  old,       \* the inodes not written for longer than the idle timeout
  created,   \* the number of inodes used
  second, crashes,
  pc,        \* per process, the next file operation
  asking,    \* per process, whether it runs check_session_freshness
  fd,        \* per process, the file store_message_full has opened
  call,      \* per process, the number of its last call
  calls,     \* the calls begun
  stored,    \* the entries whose store returned Ok
  serial     \* whether no two calls ever overlapped and none was cut short

files == <<name, archives, data, old, created>>
local == <<pc, asking, fd, call, calls>>
vars  == <<files, second, crashes, local, stored, serial>>

----------------------------------------------------------------------------
\* What a reader makes of the pieces

Alone(d, k) ==
  /\ k = 1 \/ d[k - 1] = Newline
  /\ k = Len(d) \/ d[k + 1] = Newline

\* Names that end in _Bug are faulty variants of the definition that follows, to
\* see that the properties notice the fault; no specification uses them.

\* parse_session: the entries that have a line of their own, in order; other
\* lines are skipped in silence.
Parse(d) == Select(d, {k \in DOMAIN d : d[k] \in Entries /\ Alone(d, k)})

Content(i) == IF i = NoFile THEN <<>> ELSE Parse(data[i])

----------------------------------------------------------------------------
\* File operations.  Goto moves the local state on.

Goto(p, to) ==
  /\ pc'     = [pc EXCEPT ![p] = to]
  /\ asking' = [asking EXCEPT ![p] = @ /\ to \notin {"history", "idle"}]
  /\ fd'     = [fd EXCEPT ![p] = IF to = "idle" THEN NoFile ELSE @]
  /\ UNCHANGED <<call, calls>>

At(p, stage) == pc[p] = stage

\* What remains after new_session: the read of the history when it was called
\* by the freshness check, else nothing.
AfterNew(p) == IF asking[p] THEN "history" ELSE "idle"

Write(p, piece) ==
  /\ data' = [data EXCEPT ![fd[p]] = Append(@, piece)]
  /\ old'  = old \ {fd[p]}
  /\ UNCHANGED <<name, archives, created>>

Begin(p, stage) ==
  /\ At(p, "idle") /\ calls < MaxOps
  /\ pc'     = [pc EXCEPT ![p] = stage]
  /\ asking' = [asking EXCEPT ![p] = (stage = "fresh")]
  /\ calls'  = calls + 1 /\ call' = [call EXCEPT ![p] = calls']
  /\ UNCHANGED <<files, second, crashes, fd, stored>>

\* A handler stores an entry, or asks: check_session_freshness, get_history.
BeginStore(p) == Begin(p, "isNew")
BeginAsk(p)   == Begin(p, "fresh")
BeginNew      == Begin(Loop, "exists")
BeginForget   == Begin(Loop, "forget")

\* store_message_full
IsNew(p) ==
  /\ At(p, "isNew") /\ Goto(p, IF name = NoFile THEN "openNew" ELSE "open")
  /\ UNCHANGED <<files, second, crashes, stored>>

Create ==
  /\ created < MaxFiles
  /\ created' = created + 1 /\ name' = created' /\ old' = old \ {created'}

Opened(p) ==
  /\ pc' = [pc EXCEPT ![p] = IF @ = "openNew" THEN "header" ELSE "entry"]
  /\ fd' = [fd EXCEPT ![p] = name']
  /\ UNCHANGED <<archives, data, second, crashes, asking, call, calls, stored>>

Open_Bug(p) == pc[p] \in {"open", "openNew"} /\ Create /\ Opened(p)   \* truncates

Open(p) ==
  /\ pc[p] \in {"open", "openNew"}
  /\ IF name = NoFile THEN Create ELSE UNCHANGED <<created, name, old>>
  /\ Opened(p)

WriteHeader(p) ==
  \/ /\ At(p, "header") /\ Goto(p, "headerNl") /\ Write(p, Header)
     /\ UNCHANGED <<second, crashes, stored>>
  \/ /\ At(p, "headerNl") /\ Goto(p, "entry") /\ Write(p, Newline)
     /\ UNCHANGED <<second, crashes, stored>>

WriteEntry(p) ==
  /\ At(p, "entry") /\ Goto(p, "entryNl")
  /\ Write(p, <<p, call[p]>>)
  /\ UNCHANGED <<second, crashes, stored>>

EndEntry_Bug(p) ==   \* no newline
  /\ At(p, "entryNl") /\ Goto(p, "idle")
  /\ stored' = stored \cup {<<p, call[p]>>}
  /\ UNCHANGED <<files, second, crashes>>

EndEntry(p) ==
  /\ At(p, "entryNl") /\ Goto(p, "idle") /\ Write(p, Newline)
  /\ stored' = stored \cup {<<p, call[p]>>}
  /\ UNCHANGED <<second, crashes>>

Freshness_Bug(p) ==   \* the age is not looked at
  /\ \/ At(p, "fresh") /\ Goto(p, IF name = NoFile THEN "history" ELSE "age")
     \/ At(p, "age") /\ Goto(p, IF name = NoFile THEN "idle" ELSE "exists")
  /\ UNCHANGED <<files, second, crashes, stored>>

\* check_session_freshness: without a file, or with a young one, the history is
\* read next; the metadata of a file that is gone is an error.
Freshness(p) ==
  /\ \/ At(p, "fresh") /\ Goto(p, IF name = NoFile THEN "history" ELSE "age")
     \/ At(p, "age") /\ Goto(p, IF name = NoFile THEN "idle"
                                ELSE IF name \in old THEN "exists" ELSE "history")
  /\ UNCHANGED <<files, second, crashes, stored>>

\* new_session up to its rename
CountMessages(p) ==
  /\ \/ At(p, "exists") /\ Goto(p, IF name = NoFile THEN AfterNew(p) ELSE "count")
     \/ At(p, "count") /\ Goto(p, IF name = NoFile THEN "idle"
                                  ELSE IF Content(name) = <<>> THEN AfterNew(p) ELSE "rename")
  /\ UNCHANGED <<files, second, crashes, stored>>

Rename_Bug(p) ==   \* copied, not moved
  /\ At(p, "rename")
  /\ IF name = NoFile THEN Goto(p, "idle") /\ UNCHANGED <<name, archives>>
     ELSE /\ Goto(p, AfterNew(p))
          /\ archives' = [archives EXCEPT ![second] = name] /\ UNCHANGED name
  /\ UNCHANGED <<data, old, created, second, crashes, stored>>

\* Replaces an archive of the same second; an error when the file is gone.
Rename(p) ==
  /\ At(p, "rename")
  /\ IF name = NoFile THEN Goto(p, "idle") /\ UNCHANGED <<name, archives>>
     ELSE /\ Goto(p, AfterNew(p))
          /\ archives' = [archives EXCEPT ![second] = name] /\ name' = NoFile
  /\ UNCHANGED <<data, old, created, second, crashes, stored>>

\* get_history: ends the call, with what it read or with an error.
ReadHistory(p) ==
  /\ \/ At(p, "history") /\ Goto(p, IF name = NoFile THEN "idle" ELSE "read")
     \/ At(p, "read") /\ Goto(p, "idle")
  /\ UNCHANGED <<files, second, crashes, stored>>

\* forget: read for the count, then removed; either is an error when the file
\* is gone.
Forget(p) ==
  \/ /\ At(p, "forget") /\ Goto(p, IF name = NoFile THEN "idle" ELSE "forgetRead")
     /\ UNCHANGED <<files, second, crashes, stored>>
  \/ /\ At(p, "forgetRead") /\ Goto(p, IF name = NoFile THEN "idle" ELSE "remove")
     /\ UNCHANGED <<files, second, crashes, stored>>
  \/ /\ At(p, "remove") /\ Goto(p, "idle") /\ name' = NoFile
     /\ UNCHANGED <<archives, data, old, created, second, crashes, stored>>

Refused_RetryBug(p) ==   \* the line is written again when its newline fails
  /\ MayFail /\ At(p, "entryNl") /\ Goto(p, "entry")
  /\ UNCHANGED <<files, second, crashes, stored>>

\* The file system refuses the operation: the call returns Err as it stands.
Refused(p) ==
  /\ MayFail /\ pc[p] \notin {"idle", "fresh", "history", "forget"}
  /\ Goto(p, "idle")
  /\ UNCHANGED <<files, second, crashes, stored>>

Operate(p) ==
  \/ BeginStore(p) \/ BeginAsk(p)
  \/ IsNew(p) \/ Open(p) \/ WriteHeader(p) \/ WriteEntry(p) \/ EndEntry(p)
  \/ Freshness(p) \/ CountMessages(p) \/ Rename(p) \/ ReadHistory(p) \/ Forget(p)

Busy == {p \in Proc : ~At(p, "idle")}

\* The clock moves on.
Tick ==
  /\ second < MaxSeconds /\ second' = second + 1
  /\ UNCHANGED <<files, crashes, local, stored>>

\* Nothing happens for longer than the idle timeout.
LongSilence ==
  /\ second < MaxSeconds /\ second' = second + 1
  /\ \A p \in Proc : At(p, "idle")
  /\ old' = Inodes
  /\ UNCHANGED <<name, archives, data, created, crashes, local, stored>>

Crash ==
  /\ crashes < MaxCrashes /\ crashes' = crashes + 1
  /\ pc'     = [p \in Proc |-> "idle"]
  /\ asking' = [p \in Proc |-> FALSE]
  /\ fd'     = [p \in Proc |-> NoFile]
  /\ UNCHANGED <<files, second, call, calls, stored>>

Init ==
  /\ name = NoFile /\ archives = [s \in Seconds |-> NoFile]
  /\ data = [i \in Inodes |-> <<>>] /\ old = {} /\ created = 0
  /\ second = 0 /\ crashes = 0 /\ stored = {} /\ calls = 0 /\ serial = TRUE
  /\ pc     = [p \in Proc |-> "idle"]
  /\ asking = [p \in Proc |-> FALSE]
  /\ fd     = [p \in Proc |-> NoFile]
  /\ call   = [p \in Proc |-> 0]

\* The bounds are reached and nothing is in progress.
Rest ==
  /\ Busy = {} /\ calls = MaxOps
  /\ UNCHANGED vars

Next ==
  \/ /\ (\E p \in Proc : Operate(p)) \/ BeginNew \/ BeginForget \/ Tick \/ LongSilence
     /\ serial' = (serial /\ \A p, q \in Busy' : p = q)
  \/ /\ (\E p \in Proc : Refused(p)) \/ (Busy # {} /\ Crash)
     /\ serial' = FALSE
  \/ Rest

Spec == Init /\ [][Next]_vars

----------------------------------------------------------------------------
\* Properties

Named == ({name} \cup {archives[s] : s \in Seconds}) \ {NoFile}

\* Type invariant: the variables' types, a file has one name and was created, a
\* writer has a file, and the freshness check is known as such to its end.
TypeOK ==
  /\ name \in Inodes \cup {NoFile} /\ archives \in [Seconds -> Inodes \cup {NoFile}]
  /\ data \in [Inodes -> Seq(Pieces)] /\ old \in SUBSET Inodes /\ created \in 0..MaxFiles
  /\ second \in Seconds /\ crashes \in 0..MaxCrashes /\ stored \in SUBSET Entries
  /\ pc \in [Proc -> Stages] /\ asking \in [Proc -> BOOLEAN]
  /\ fd \in [Proc -> Inodes \cup {NoFile}] /\ call \in [Proc -> 0..MaxOps]
  /\ calls \in 0..MaxOps /\ serial \in BOOLEAN
  /\ \A i \in Named : i <= created
  /\ name # NoFile => \A s \in Seconds : archives[s] # name
  /\ \A p \in Proc :
       /\ pc[p] \in {"header", "headerNl", "entry", "entryNl"} <=> fd[p] # NoFile
       /\ pc[p] \in {"fresh", "age"} => asking[p]
       /\ asking[p] => pc[p] \in {"fresh", "age", "exists", "count", "rename"}

\* docs/SESSION_FORMAT.md:3 "one JSON object per line", :22 "The first line of every
\* session file is a header": as long as calls do not overlap and none is cut short,
\* texts and newlines alternate in every file, and its one header is at its start.
OneObjectPerLine ==
  serial => \A i \in Named : \A k \in DOMAIN data[i] :
              (data[i][k] = Newline <=> k % 2 = 0) /\ (data[i][k] = Header <=> k = 1)

\* ROADMAP.md:41 "If idle longer than idle_timeout_mins, the session is archived": while
\* calls do not overlap, the check of a session's age archives none that was written since.
OnlyIdleArchived ==
  [][\A p \in Proc : (At(p, "rename") /\ asking[p] /\ name' # name /\ serial) =>
                       name \in old]_vars

\* Whoever stores, fails and archives meanwhile, an entry is written once, and
\* the entries of a process stay in the order of its calls within a file.
WrittenOnce ==
  \A i, j \in Inodes : \A k \in DOMAIN data[i], l \in DOMAIN data[j] :
    (data[i][k] \in Entries /\ data[j][l] \in Entries /\ data[i][k][1] = data[j][l][1]) =>
      /\ data[i][k] = data[j][l] => i = j /\ k = l
      /\ (i = j /\ k < l) => data[i][k][2] < data[j][l][2]

\* An entry that was stored stays in a file with a name, until a /forget removes
\* the session or an archive of the same second is replaced.
Holds(e) == \E i \in Named : \E k \in DOMAIN data[i] : data[i][k] = e

StoredIsKept ==
  [][\A e \in stored : (Holds(e) /\ ~Holds(e)') =>
       \/ At(Loop, "remove") /\ pc' # pc
       \/ archives[second] # NoFile /\ archives'[second] # archives[second]]_vars

\* The promise of the memory: as long as calls do not overlap and none is cut short,
\* every step is one of the session log or leaves it as it is (runtime.rs relies on it:
\* "already the last entry in history").
Log == INSTANCE SessionLog WITH
         active <- Content(name), archived <- [s \in Seconds |-> Content(archives[s])]

KeepsLog == Log!Init /\ [][serial' => Log!Next]_Log!vars
=============================================================================
