-------------------------- MODULE HistoryFileProofs --------------------------
(***************************************************************************)
(* What HistoryFile says for every number of processes, calls, files,      *)
(* seconds and crashes.                                                    *)
(***************************************************************************)
EXTENDS HistoryFile, Inductions

----------------------------------------------------------------------------
\* Types

\* The types, in parts, and what they need to be inductive: a call has a number, and no
\* file is written that was not created.
FilesOK ==
  /\ name \in Inodes \cup {NoFile} /\ archives \in [Seconds -> Inodes \cup {NoFile}]
  /\ data \in [Inodes -> Seq(Pieces)] /\ old \in SUBSET Inodes /\ created \in 0..MaxFiles
  /\ name <= created /\ \A s \in Seconds : archives[s] <= created
  /\ name # NoFile => \A s \in Seconds : archives[s] # name
  /\ \A i \in Inodes : i > created => data[i] = <<>>

ProcOK(p) ==
  /\ pc[p] \in {"header", "headerNl", "entry", "entryNl"} <=> fd[p] # NoFile
  /\ pc[p] \in {"fresh", "age"} => asking[p]
  /\ asking[p] => pc[p] \in {"fresh", "age", "exists", "count", "rename"}
  /\ call[p] <= calls /\ (pc[p] # "idle" => call[p] \in 1..MaxOps)
  /\ fd[p] <= created

LocalOK ==
  /\ pc \in [Proc -> Stages] /\ asking \in [Proc -> BOOLEAN]
  /\ fd \in [Proc -> Inodes \cup {NoFile}] /\ call \in [Proc -> 0..MaxOps] /\ calls \in 0..MaxOps

RestOK ==
  second \in Seconds /\ crashes \in 0..MaxCrashes /\ stored \in SUBSET Entries /\ serial \in BOOLEAN

FileInv == FilesOK /\ LocalOK /\ RestOK /\ \A p \in Proc : ProcOK(p)

LEMMA PieceFacts ==
  /\ Loop \in Proc /\ Header \in Pieces /\ Newline \in Pieces
  /\ Header \notin Entries /\ Newline \notin Entries /\ Header # Newline
  /\ \A p \in Proc, n \in 1..MaxOps : <<p, n>> \in Entries /\ <<p, n>> \in Pieces
BY FileAssumption DEF Proc, Header, Newline, Pieces, Entries

LEMMA FileTypes == FileInv => TypeOK
<1>. USE FileAssumption DEF Inodes, NoFile, Seconds
<1>1. ASSUME FilesOK PROVE \A i \in Named : i <= created
  BY <1>1 DEF FilesOK, Named
<1>. QED BY <1>1 DEF FileInv, TypeOK, FilesOK, LocalOK, RestOK, ProcOK

LEMMA InitFile == Init => FileInv
<1>. SUFFICES ASSUME Init PROVE FileInv
  OBVIOUS
<1>1. <<>> \in Seq(Pieces)
  OBVIOUS
<1>. QED BY <1>1, FileAssumption, PieceFacts
       DEF Init, FileInv, FilesOK, LocalOK, RestOK, ProcOK, Proc, Seconds, Inodes, NoFile,
           Stages, Entries

\* What moving on does to the local state.
LEMMA Moves ==
  ASSUME TypeOK, NEW p \in Proc, NEW to \in Stages, Goto(p, to)
  PROVE  /\ pc' \in [Proc -> Stages] /\ asking' \in [Proc -> BOOLEAN]
         /\ fd' \in [Proc -> Inodes \cup {NoFile}] /\ call' = call /\ calls' = calls
         /\ pc'[p] = to /\ \A q \in Proc \ {p} : pc'[q] = pc[q]
         /\ asking'[p] = (asking[p] /\ to \notin {"history", "idle"})
         /\ \A q \in Proc \ {p} : asking'[q] = asking[q]
         /\ fd'[p] = IF to = "idle" THEN NoFile ELSE fd[p]
         /\ \A q \in Proc \ {p} : fd'[q] = fd[q]
BY DEF Goto, TypeOK

LEMMA Writes ==
  ASSUME TypeOK, NEW p \in Proc, fd[p] # NoFile, NEW piece \in Pieces, Write(p, piece)
  PROVE  /\ fd[p] \in Inodes
         /\ data' \in [Inodes -> Seq(Pieces)] /\ old' \in SUBSET Inodes
         /\ data'[fd[p]] = Append(data[fd[p]], piece)
         /\ \A i \in Inodes \ {fd[p]} : data'[i] = data[i]
BY DEF Write, TypeOK

\* The stages p may move on to, as far as the types are concerned.
Follows(p, to) ==
  /\ \/ to = "idle"
     \/ (pc[p] # "idle" /\ (fd[p] # NoFile <=> to \in {"header", "headerNl", "entry", "entryNl"}))
  /\ asking[p] => to \in {"age", "exists", "count", "rename", "history", "idle"}
  /\ to \in {"fresh", "age"} => asking[p]

\* A step of p that leaves the numbers alone keeps the local state in order when it does
\* so for p.
LEMMA LocalStep ==
  ASSUME FileInv, NEW p \in Proc, NEW to \in Stages, Goto(p, to), created' \in 0..MaxFiles,
        created <= created', Follows(p, to)
  PROVE  LocalOK' /\ \A q \in Proc : ProcOK(q)'
<1>. USE FileAssumption DEF Inodes, NoFile
<1>1. TypeOK /\ LocalOK /\ (\A q \in Proc : ProcOK(q)) /\ FilesOK
  BY FileTypes DEF FileInv
<1>2. /\ pc' \in [Proc -> Stages] /\ asking' \in [Proc -> BOOLEAN]
      /\ fd' \in [Proc -> Inodes \cup {NoFile}] /\ call' = call /\ calls' = calls
      /\ pc'[p] = to /\ \A q \in Proc \ {p} : pc'[q] = pc[q]
      /\ asking'[p] = (asking[p] /\ to \notin {"history", "idle"})
      /\ \A q \in Proc \ {p} : asking'[q] = asking[q]
      /\ fd'[p] = IF to = "idle" THEN NoFile ELSE fd[p]
      /\ \A q \in Proc \ {p} : fd'[q] = fd[q]
  BY <1>1, Moves
<1>3. LocalOK'
  BY <1>1, <1>2 DEF LocalOK
<1>4. ASSUME NEW q \in Proc, q # p PROVE ProcOK(q)'
  BY <1>1, <1>2, <1>4 DEF ProcOK, LocalOK, FilesOK
<1>5. ProcOK(p)'
  <2>1. ProcOK(p)
    BY <1>1
  <2>. QED BY <1>1, <1>2, <2>1 DEF ProcOK, LocalOK, FilesOK, Follows
<1>. QED BY <1>3, <1>4, <1>5

LEMMA LocalBegin ==
  ASSUME FileInv, NEW p \in Proc, NEW to \in {"isNew", "fresh", "exists", "forget"}, Begin(p, to)
  PROVE  FilesOK' /\ LocalOK' /\ \A q \in Proc : ProcOK(q)'
<1>. USE FileAssumption DEF Inodes, NoFile
<1>1. LocalOK /\ (\A q \in Proc : ProcOK(q)) /\ FilesOK
  BY DEF FileInv
<1>2. FilesOK'
  BY <1>1 DEF Begin, files, FilesOK
<1>3. /\ pc' = [pc EXCEPT ![p] = to] /\ asking' = [asking EXCEPT ![p] = (to = "fresh")]
      /\ calls' = calls + 1 /\ call' = [call EXCEPT ![p] = calls + 1] /\ calls < MaxOps
      /\ fd' = fd /\ created' = created /\ pc[p] = "idle"
  BY DEF Begin, files, At
<1>4. LocalOK'
  BY <1>1, <1>3 DEF LocalOK, Stages
<1>5. ASSUME NEW q \in Proc PROVE ProcOK(q)'
  <2>1. ProcOK(q)
    BY <1>1
  <2>2. CASE q # p
    BY <1>1, <1>3, <2>1, <2>2 DEF ProcOK, LocalOK
  <2>3. CASE q = p
    <3>1. /\ pc'[p] = to /\ asking'[p] = (to = "fresh") /\ fd'[p] = NoFile
          /\ call'[p] = calls' /\ call'[p] \in 1..MaxOps
      BY <1>1, <1>3, <2>1, <2>3 DEF ProcOK, LocalOK
    <3>2. fd'[p] <= created' /\ call'[p] <= calls'
      BY <1>1, <1>3, <3>1 DEF FilesOK, LocalOK
    <3>. QED BY <2>3, <3>1, <3>2 DEF ProcOK
  <2>. QED BY <2>2, <2>3
<1>. QED BY <1>2, <1>4, <1>5

\* Files stay in order when something is written to one that was created.
LEMMA FilesWrite ==
  ASSUME FileInv, NEW p \in Proc, fd[p] # NoFile, NEW piece \in Pieces, Write(p, piece)
  PROVE  FilesOK' /\ created' = created
<1>. USE FileAssumption DEF Inodes, NoFile
<1>1. TypeOK /\ FilesOK /\ ProcOK(p)
  BY FileTypes DEF FileInv
<1>2. /\ fd[p] \in Inodes
      /\ data' \in [Inodes -> Seq(Pieces)] /\ old' \in SUBSET Inodes
      /\ data'[fd[p]] = Append(data[fd[p]], piece)
      /\ \A i \in Inodes \ {fd[p]} : data'[i] = data[i]
      /\ UNCHANGED <<name, archives, created>>
  BY <1>1, Writes DEF Write
<1>3. \A i \in Inodes : i > created' => data'[i] = <<>>
  <2>. SUFFICES ASSUME NEW i \in Inodes, i > created PROVE data'[i] = <<>>
    BY <1>2
  <2>1. fd[p] <= created /\ created \in Nat
    BY <1>1 DEF ProcOK, FilesOK
  <2>2. data[i] = <<>>
    BY <1>1 DEF FilesOK
  <2>3. i # fd[p]
    BY <1>2, <2>1
  <2>. QED BY <1>2, <2>2, <2>3
<1>. QED BY <1>1, <1>2, <1>3 DEF FilesOK

\* The operations leave the types as they are, whatever the state.
LEMMA StepFile == FileInv /\ [Next]_vars => FileInv'
<1>. SUFFICES ASSUME FileInv, [Next]_vars PROVE FileInv'
  OBVIOUS
<1>. USE FileAssumption DEF Inodes, NoFile
<1>0. /\ TypeOK /\ LocalOK /\ (\A q \in Proc : ProcOK(q)) /\ FilesOK /\ RestOK
      /\ pc \in [Proc -> Stages]
  BY FileTypes DEF FileInv, LocalOK
<1>1. FilesOK' /\ LocalOK' /\ RestOK' /\ (\A q \in Proc : ProcOK(q)') => FileInv'
  BY DEF FileInv
<1>2. CASE Next
  <2>1. serial' \in BOOLEAN
    BY <1>0, <1>2 DEF Next, Rest, vars, RestOK
  <2>2. ASSUME NEW p \in Proc, Operate(p) PROVE FileInv'
    <3>. USE <2>1 DEF Stages, At
    <3>1. CASE BeginStore(p) \/ BeginAsk(p)
      <4>1. FilesOK' /\ LocalOK' /\ \A q \in Proc : ProcOK(q)'
        BY <3>1, LocalBegin DEF BeginStore, BeginAsk
      <4>. QED BY <1>0, <1>1, <3>1, <4>1 DEF BeginStore, BeginAsk, Begin, RestOK
    <3>2. CASE IsNew(p)
      <4>1. FilesOK' /\ RestOK'
        BY <1>0, <3>2 DEF IsNew, files, FilesOK, RestOK
      <4>2. LocalOK' /\ \A q \in Proc : ProcOK(q)'
        <5>1. /\ pc[p] = "isNew" /\ created' = created /\ created \in 0..MaxFiles
              /\ \E to \in {"openNew", "open"} : Goto(p, to)
          BY <1>0, <3>2 DEF IsNew, files, FilesOK
        <5>2. fd[p] = NoFile /\ ~asking[p]
          BY <1>0, <5>1 DEF ProcOK
        <5>3. \A to \in {"openNew", "open"} : Follows(p, to)
          BY <5>1, <5>2 DEF Follows
        <5>. QED BY <5>1, <5>3, LocalStep
      <4>. QED BY <1>1, <4>1, <4>2
    <3>3. CASE Open(p)
      <4>1. FilesOK' /\ RestOK'
        <5>1. UNCHANGED <<archives, data, second, crashes, stored>>
          BY <3>3 DEF Open, Opened
        <5>2. CASE name # NoFile
          BY <1>0, <3>3, <5>1, <5>2 DEF Open, FilesOK, RestOK
        <5>3. CASE name = NoFile
          <6>1. created < MaxFiles /\ created' = created + 1 /\ name' = created + 1
                /\ old' = old \ {created'}
            BY <3>3, <5>3 DEF Open, Create
          <6>2. created' \in 0..MaxFiles /\ name' \in Inodes
            BY <1>0, <6>1 DEF FilesOK
          <6>3. \A t \in Seconds : archives'[t] <= created' /\ archives'[t] # name'
            <7>1. /\ created \in Nat /\ archives \in [Seconds -> Inodes \cup {NoFile}]
                  /\ \A t \in Seconds : archives[t] <= created
              BY <1>0 DEF FilesOK
            <7>2. \A t \in Seconds : archives'[t] = archives[t] /\ archives[t] \in Nat
              BY <5>1, <7>1
            <7>. QED BY <6>1, <7>1, <7>2
          <6>. QED BY <1>0, <5>1, <6>1, <6>2, <6>3 DEF FilesOK, RestOK
        <5>. QED BY <5>2, <5>3
      <4>2. LocalOK' /\ \A q \in Proc : ProcOK(q)'
        <5>1. /\ created \in 0..MaxFiles /\ created' \in 0..MaxFiles /\ created <= created'
              /\ name' \in Inodes /\ name' <= created'
          BY <1>0, <3>3 DEF Open, Create, FilesOK
        <5>2. /\ pc' = [pc EXCEPT ![p] = IF @ = "openNew" THEN "header" ELSE "entry"]
              /\ fd' = [fd EXCEPT ![p] = name'] /\ UNCHANGED <<asking, call, calls>>
              /\ pc[p] \in {"open", "openNew"}
          BY <3>3 DEF Open, Opened
        <5>3. LocalOK'
          BY <1>0, <5>1, <5>2 DEF LocalOK
        <5>4. ASSUME NEW q \in Proc, q # p PROVE ProcOK(q)'
          BY <1>0, <5>1, <5>2, <5>4 DEF ProcOK, LocalOK
        <5>5. ProcOK(p)'
          <6>1. pc'[p] \in {"header", "entry"} /\ fd'[p] = name' /\ ProcOK(p)
            BY <1>0, <5>1, <5>2 DEF LocalOK
          <6>. QED BY <5>1, <5>2, <6>1 DEF ProcOK
        <5>. QED BY <5>3, <5>4, <5>5
      <4>. QED BY <1>1, <4>1, <4>2
    <3>4. CASE WriteHeader(p)
      <4>1. fd[p] # NoFile /\ Header \in Pieces /\ Newline \in Pieces
        BY <1>0, <3>4, PieceFacts DEF WriteHeader, ProcOK
      <4>2. FilesOK' /\ created' = created
        BY <3>4, <4>1, FilesWrite DEF WriteHeader
      <4>3. LocalOK' /\ \A q \in Proc : ProcOK(q)'
        <5>1. /\ pc[p] \in {"header", "headerNl"} /\ created \in 0..MaxFiles
              /\ \E to \in {"headerNl", "entry"} : Goto(p, to)
          BY <1>0, <3>4 DEF WriteHeader, FilesOK
        <5>2. ~asking[p]
          BY <1>0, <5>1 DEF ProcOK
        <5>3. \A to \in {"headerNl", "entry"} : Follows(p, to)
          BY <4>1, <5>1, <5>2 DEF Follows
        <5>. QED BY <4>2, <5>1, <5>3, LocalStep
      <4>. QED BY <1>0, <1>1, <3>4, <4>2, <4>3 DEF WriteHeader, RestOK
    <3>5. CASE WriteEntry(p)
      <4>1. fd[p] # NoFile /\ <<p, call[p]>> \in Pieces
        BY <1>0, <3>5, PieceFacts DEF WriteEntry, ProcOK
      <4>2. FilesOK' /\ created' = created
        BY <3>5, <4>1, FilesWrite DEF WriteEntry
      <4>3. LocalOK' /\ \A q \in Proc : ProcOK(q)'
        <5>1. Goto(p, "entryNl") /\ Follows(p, "entryNl") /\ created \in 0..MaxFiles
          BY <1>0, <3>5, <4>1 DEF WriteEntry, Follows, ProcOK, FilesOK
        <5>. QED BY <4>2, <5>1, LocalStep
      <4>. QED BY <1>0, <1>1, <3>5, <4>2, <4>3 DEF WriteEntry, RestOK
    <3>6. CASE EndEntry(p)
      <4>1. fd[p] # NoFile /\ Newline \in Pieces /\ <<p, call[p]>> \in Entries
        BY <1>0, <3>6, PieceFacts DEF EndEntry, ProcOK
      <4>2. FilesOK' /\ created' = created
        BY <3>6, <4>1, FilesWrite DEF EndEntry
      <4>3. LocalOK' /\ \A q \in Proc : ProcOK(q)'
        <5>1. /\ pc[p] = "entryNl" /\ created \in 0..MaxFiles /\ Goto(p, "idle")
          BY <1>0, <3>6 DEF EndEntry, FilesOK
        <5>2. Follows(p, "idle")
          BY <1>0, <5>1 DEF Follows, ProcOK
        <5>. QED BY <4>2, <5>1, <5>2, LocalStep
      <4>. QED BY <1>0, <1>1, <3>6, <4>1, <4>2, <4>3 DEF EndEntry, RestOK
    <3>7. CASE Freshness(p)
      <4>1. FilesOK' /\ RestOK'
        BY <1>0, <3>7 DEF Freshness, files, FilesOK, RestOK
      <4>2. LocalOK' /\ \A q \in Proc : ProcOK(q)'
        <5>0. pc[p] \in {"fresh", "age"} /\ created' = created
          BY <3>7 DEF Freshness, files
        <5>1. /\ created' \in 0..MaxFiles /\ created <= created'
              /\ pc[p] # "idle" /\ fd[p] = NoFile /\ asking[p]
          <6>1. created \in 0..MaxFiles /\ ProcOK(p)
            BY <1>0 DEF FilesOK
          <6>. QED BY <5>0, <6>1 DEF ProcOK
        <5>2. PICK to \in {"history", "age", "idle", "exists"} : Goto(p, to)
          BY <3>7 DEF Freshness
        <5>3. Follows(p, to)
          BY <5>1, <5>2 DEF Follows
        <5>. QED BY <5>1, <5>2, <5>3, LocalStep
      <4>. QED BY <1>1, <4>1, <4>2
    <3>8. CASE CountMessages(p)
      <4>1. FilesOK' /\ RestOK'
        BY <1>0, <3>8 DEF CountMessages, files, FilesOK, RestOK
      <4>2. LocalOK' /\ \A q \in Proc : ProcOK(q)'
        <5>1. PICK to \in {"idle", "history", "count", "rename"} : Goto(p, to)
              /\ (to = "history" => asking[p])
          BY <3>8 DEF CountMessages, AfterNew
        <5>2. created' = created /\ pc[p] \in {"exists", "count"}
          BY <3>8 DEF CountMessages, files
        <5>3. Follows(p, to) /\ created \in 0..MaxFiles
          BY <1>0, <5>1, <5>2 DEF Follows, ProcOK, FilesOK
        <5>. QED BY <5>1, <5>2, <5>3, LocalStep
      <4>. QED BY <1>1, <4>1, <4>2
    <3>9. CASE Rename(p)
      <4>1. FilesOK' /\ RestOK'
        <5>1. UNCHANGED <<data, old, created, second, crashes, stored>>
          BY <3>9 DEF Rename
        <5>2. CASE name = NoFile
          BY <1>0, <3>9, <5>1, <5>2 DEF Rename, FilesOK, RestOK
        <5>3. CASE name # NoFile
          <6>1. archives' = [archives EXCEPT ![second] = name] /\ name' = NoFile
            BY <3>9, <5>3 DEF Rename
          <6>. QED BY <1>0, <5>1, <6>1 DEF FilesOK, RestOK
        <5>. QED BY <5>2, <5>3
      <4>2. LocalOK' /\ \A q \in Proc : ProcOK(q)'
        <5>1. PICK to \in {"idle", "history"} : Goto(p, to)
          BY <3>9 DEF Rename, AfterNew
        <5>2. created' = created /\ pc[p] = "rename"
          BY <3>9 DEF Rename
        <5>3. Follows(p, to) /\ created \in 0..MaxFiles
          BY <1>0, <5>1, <5>2 DEF Follows, ProcOK, FilesOK
        <5>. QED BY <5>1, <5>2, <5>3, LocalStep
      <4>. QED BY <1>1, <4>1, <4>2
    <3>10. CASE ReadHistory(p)
      <4>1. FilesOK' /\ RestOK'
        BY <1>0, <3>10 DEF ReadHistory, files, FilesOK, RestOK
      <4>2. LocalOK' /\ \A q \in Proc : ProcOK(q)'
        <5>1. PICK to \in {"idle", "read"} : Goto(p, to)
          BY <3>10 DEF ReadHistory
        <5>2. created' = created /\ pc[p] \in {"history", "read"}
          BY <3>10 DEF ReadHistory, files
        <5>3. Follows(p, to) /\ created \in 0..MaxFiles
          BY <1>0, <5>1, <5>2 DEF Follows, ProcOK, FilesOK
        <5>. QED BY <5>1, <5>2, <5>3, LocalStep
      <4>. QED BY <1>1, <4>1, <4>2
    <3>11. CASE Forget(p)
      <4>1. FilesOK' /\ RestOK'
        <5>1. UNCHANGED <<archives, data, old, created, second, crashes, stored>>
              /\ name' \in {name, NoFile}
          BY <3>11 DEF Forget, files
        <5>. QED BY <1>0, <5>1 DEF FilesOK, RestOK
      <4>2. LocalOK' /\ \A q \in Proc : ProcOK(q)'
        <5>1. PICK to \in {"idle", "forgetRead", "remove"} : Goto(p, to)
          BY <3>11 DEF Forget
        <5>2. created' = created /\ pc[p] \in {"forget", "forgetRead", "remove"}
          BY <3>11 DEF Forget, files
        <5>3. Follows(p, to) /\ created \in 0..MaxFiles
          BY <1>0, <5>1, <5>2 DEF Follows, ProcOK, FilesOK
        <5>. QED BY <5>1, <5>2, <5>3, LocalStep
      <4>. QED BY <1>1, <4>1, <4>2
    <3>. QED BY <2>2, <3>1, <3>2, <3>3, <3>4, <3>5, <3>6, <3>7, <3>8, <3>9, <3>10, <3>11
             DEF Operate
  <2>3. CASE BeginNew \/ BeginForget
    <3>1. FilesOK' /\ LocalOK' /\ \A q \in Proc : ProcOK(q)'
      BY <2>3, LocalBegin DEF BeginNew, BeginForget, Proc
    <3>. QED BY <1>0, <1>1, <2>1, <2>3, <3>1 DEF BeginNew, BeginForget, Begin, RestOK
  <2>4. CASE Tick \/ LongSilence
    <3>1. LocalOK' /\ \A q \in Proc : ProcOK(q)'
      BY <1>0, <2>4 DEF Tick, LongSilence, files, local, LocalOK, ProcOK
    <3>2. FilesOK'
      BY <1>0, <2>4 DEF Tick, LongSilence, files, FilesOK
    <3>3. RestOK'
      BY <1>0, <2>1, <2>4 DEF Tick, LongSilence, RestOK, Seconds
    <3>. QED BY <1>1, <3>1, <3>2, <3>3
  <2>5. ASSUME NEW p \in Proc, Refused(p) PROVE FileInv'
    <3>1. FilesOK' /\ RestOK'
      BY <1>0, <2>1, <2>5 DEF Refused, files, FilesOK, RestOK
    <3>2. LocalOK' /\ \A q \in Proc : ProcOK(q)'
      BY <1>0, <2>5, LocalStep DEF Refused, Follows, files, FilesOK, ProcOK, Stages
    <3>. QED BY <1>1, <3>1, <3>2
  <2>6. CASE Crash
    <3>1. LocalOK' /\ \A q \in Proc : ProcOK(q)'
      BY <1>0, <2>6 DEF Crash, files, LocalOK, ProcOK, Stages, FilesOK
    <3>2. FilesOK' /\ RestOK'
      BY <1>0, <2>1, <2>6 DEF Crash, files, FilesOK, RestOK
    <3>. QED BY <1>1, <3>1, <3>2
  <2>7. CASE Rest
    <3>1. UNCHANGED <<FilesOK, LocalOK, RestOK>> /\ \A q \in Proc : ProcOK(q)' = ProcOK(q)
      BY <2>7 DEF Rest, vars, files, local, FilesOK, LocalOK, RestOK, ProcOK
    <3>. QED BY <1>0, <1>1, <3>1
  <2>. QED BY <1>1, <1>2, <2>2, <2>3, <2>4, <2>5, <2>6, <2>7 DEF Next
<1>3. CASE UNCHANGED vars
  <2>1. UNCHANGED <<FilesOK, LocalOK, RestOK>> /\ \A q \in Proc : ProcOK(q)' = ProcOK(q)
    BY <1>3 DEF vars, files, local, FilesOK, LocalOK, RestOK, ProcOK
  <2>. QED BY <1>0, <1>1, <2>1
<1>. QED BY <1>2, <1>3

\* The types hold in every state of the session file: a file has one name, a writer has
\* a file that exists, and the freshness check is known as such to its end.
THEOREM SessionFileTypes == Spec => []TypeOK
<1>1. FileInv /\ [Next]_vars => FileInv'
  BY StepFile
<1>. QED BY InitFile, FileTypes, <1>1, PTL DEF Spec

----------------------------------------------------------------------------
\* Every entry is written once

\* A process that stores has not written the entry of its call before it does.
Before == {"isNew", "open", "openNew", "header", "headerNl", "entry"}

\* Entries are not younger than the last call of their process.
Older ==
  \A i \in Inodes : \A k \in DOMAIN data[i] : data[i][k] \in Entries =>
    /\ data[i][k][2] <= call[data[i][k][1]]
    /\ pc[data[i][k][1]] \in Before => data[i][k][2] < call[data[i][k][1]]

OnceInv == FileInv /\ Older /\ WrittenOnce

\* Steps that write no entry, seen from an entry that is there.
StaysOlder ==
  \A q \in Proc : \/ call'[q] = call[q] /\ (pc'[q] \in Before => pc[q] \in Before)
                  \/ call'[q] > call[q]

LEMMA OlderKept ==
  ASSUME FileInv, FileInv', Older, StaysOlder,
         \A i \in Inodes : \A k \in DOMAIN data'[i] : data'[i][k] \in Entries =>
           k \in DOMAIN data[i] /\ data'[i][k] = data[i][k]
  PROVE  Older'
<1>. SUFFICES ASSUME NEW i \in Inodes, NEW k \in DOMAIN data'[i], data'[i][k] \in Entries
              PROVE  /\ data'[i][k][2] <= call'[data'[i][k][1]]
                     /\ pc'[data'[i][k][1]] \in Before => data'[i][k][2] < call'[data'[i][k][1]]
  BY DEF Older
<1>1. k \in DOMAIN data[i] /\ data'[i][k] = data[i][k]
  OBVIOUS
<1> DEFINE q == data[i][k][1]
           n == data[i][k][2]
<1>2. q \in Proc /\ n \in Nat
  BY <1>1, FileAssumption DEF Entries
<1>3. n <= call[q] /\ (pc[q] \in Before => n < call[q])
  BY <1>1 DEF Older
<1>4. call[q] \in Nat /\ call'[q] \in Nat
  BY <1>2, FileAssumption DEF FileInv, LocalOK
<1>5. n <= call'[q] /\ (pc'[q] \in Before => n < call'[q])
  <2>. HIDE DEF q, n
  <2>. QED BY <1>2, <1>3, <1>4 DEF StaysOlder
<1>. QED BY <1>1, <1>5

LEMMA OnceKept ==
  ASSUME WrittenOnce,
         \A i \in Inodes : \A k \in DOMAIN data'[i] : data'[i][k] \in Entries =>
           k \in DOMAIN data[i] /\ data'[i][k] = data[i][k]
  PROVE  WrittenOnce'
BY DEF WrittenOnce

\* What is in the files after a write: what was there, and the piece at its end.
LEMMA Appended ==
  ASSUME FileInv, NEW p \in Proc, fd[p] # NoFile, NEW piece \in Pieces, Write(p, piece),
         NEW i \in Inodes, NEW k \in DOMAIN data'[i]
  PROVE  \/ k \in DOMAIN data[i] /\ data'[i][k] = data[i][k]
         \/ /\ i = fd[p] /\ k = Len(data[i]) + 1 /\ data'[i][k] = piece
            /\ \A j \in DOMAIN data[i] : j < k
<1>1. /\ fd[p] \in Inodes /\ data \in [Inodes -> Seq(Pieces)]
      /\ data'[fd[p]] = Append(data[fd[p]], piece)
      /\ \A j \in Inodes \ {fd[p]} : data'[j] = data[j]
  BY Writes, FileTypes DEF TypeOK
<1>2. CASE i # fd[p]
  BY <1>1, <1>2
<1>3. CASE i = fd[p]
  <2> DEFINE d == data[i]
  <2>1. d \in Seq(Pieces) /\ data'[i] = Append(d, piece)
    BY <1>1, <1>3
  <2>2. /\ k \in 1..(Len(d) + 1) /\ (k <= Len(d) => data'[i][k] = d[k])
        /\ (k = Len(d) + 1 => data'[i][k] = piece) /\ DOMAIN d = 1..Len(d) /\ Len(d) \in Nat
    <3>. HIDE DEF d
    <3>. QED BY <2>1
  <2>. QED BY <1>3, <2>2
<1>. QED BY <1>2, <1>3

\* Writing a piece that is no entry keeps the entries.
LEMMA NoEntry ==
  ASSUME FileInv, NEW p \in Proc, fd[p] # NoFile, NEW piece \in Pieces \ Entries, Write(p, piece)
  PROVE  \A i \in Inodes : \A k \in DOMAIN data'[i] : data'[i][k] \in Entries =>
           k \in DOMAIN data[i] /\ data'[i][k] = data[i][k]
BY Appended

\* The entry that a process writes is newer than all of its entries.
LEMMA EntryOnce ==
  ASSUME OnceInv, FileInv', NEW p \in Proc, WriteEntry(p)
  PROVE  Older' /\ WrittenOnce'
<1> DEFINE e == <<p, call[p]>>
<1>1. /\ pc[p] = "entry" /\ call' = call /\ Write(p, e) /\ fd[p] # NoFile
      /\ e \in Entries /\ e \in Pieces /\ FileInv
      /\ call \in [Proc -> 0..MaxOps] /\ \A q \in Proc \ {p} : pc'[q] = pc[q]
      /\ pc'[p] = "entryNl"
  <2>1. FileInv /\ TypeOK /\ ProcOK(p) /\ LocalOK /\ pc[p] = "entry" /\ Goto(p, "entryNl")
        /\ Write(p, e)
    BY FileTypes DEF OnceInv, FileInv, WriteEntry, At
  <2>. QED BY <2>1, PieceFacts, Moves DEF ProcOK, LocalOK, Stages
<1>2. \A i \in Inodes : \A k \in DOMAIN data'[i] :
        \/ k \in DOMAIN data[i] /\ data'[i][k] = data[i][k]
        \/ i = fd[p] /\ data'[i][k] = e /\ k = Len(data[i]) + 1 /\ \A j \in DOMAIN data[i] : j < k
  <2>. HIDE DEF e
  <2>. QED BY <1>1, Appended
<1>3. e[1] = p /\ e[2] = call[p]
  OBVIOUS
<1>4. \A i \in Inodes : \A k \in DOMAIN data[i] :
        (data[i][k] \in Entries /\ data[i][k][1] = p) => data[i][k][2] < call[p]
  BY <1>1 DEF OnceInv, Older, Before
<1>5. Older'
  <2>. SUFFICES ASSUME NEW i \in Inodes, NEW k \in DOMAIN data'[i], data'[i][k] \in Entries
                PROVE  /\ data'[i][k][2] <= call'[data'[i][k][1]]
                       /\ pc'[data'[i][k][1]] \in Before => data'[i][k][2] < call'[data'[i][k][1]]
    BY DEF Older
  <2>1. CASE k \in DOMAIN data[i] /\ data'[i][k] = data[i][k]
    <3>1. data[i][k][1] \in Proc
      BY <2>1 DEF Entries
    <3>2. pc'[data[i][k][1]] \in Before => pc[data[i][k][1]] \in Before
      BY <1>1, <3>1 DEF Before
    <3>. QED BY <1>1, <2>1, <3>2 DEF OnceInv, Older
  <2>2. CASE data'[i][k] = e
    BY <1>1, <1>3, <2>2 DEF Before
  <2>. QED BY <1>2, <2>1, <2>2
<1>6. WrittenOnce'
  <2>. SUFFICES ASSUME NEW i \in Inodes, NEW j \in Inodes,
                       NEW k \in DOMAIN data'[i], NEW l \in DOMAIN data'[j],
                       data'[i][k] \in Entries, data'[j][l] \in Entries,
                       data'[i][k][1] = data'[j][l][1]
                PROVE  /\ data'[i][k] = data'[j][l] => i = j /\ k = l
                       /\ (i = j /\ k < l) => data'[i][k][2] < data'[j][l][2]
    BY DEF WrittenOnce
  <2>1. CASE /\ k \in DOMAIN data[i] /\ data'[i][k] = data[i][k]
             /\ l \in DOMAIN data[j] /\ data'[j][l] = data[j][l]
    BY <2>1 DEF OnceInv, WrittenOnce
  <2>2. CASE /\ k \in DOMAIN data[i] /\ data'[i][k] = data[i][k]
             /\ j = fd[p] /\ data'[j][l] = e
    <3>1. data[i][k][2] < call[p]
      BY <1>3, <1>4, <2>2
    <3>. QED BY <1>1, <1>3, <2>2, <3>1
  <2>3. CASE /\ l \in DOMAIN data[j] /\ data'[j][l] = data[j][l]
             /\ i = fd[p] /\ data'[i][k] = e /\ \A m \in DOMAIN data[i] : m < k
    <3>1. data[j][l][2] < call[p]
      BY <1>3, <1>4, <2>3
    <3>2. i = j => ~(k < l)
      <4>1. data \in [Inodes -> Seq(Pieces)] /\ data' \in [Inodes -> Seq(Pieces)]
        BY <1>1 DEF FileInv, FilesOK
      <4>2. k \in Nat /\ l \in Nat
        BY <4>1
      <4>. QED BY <2>3, <4>2
    <3>. QED BY <1>1, <1>3, <2>3, <3>1, <3>2
  <2>4. CASE i = fd[p] /\ j = fd[p] /\ k = Len(data[i]) + 1 /\ l = Len(data[j]) + 1
    BY <2>4
  <2>. QED BY <1>2, <2>1, <2>2, <2>3, <2>4
<1>. QED BY <1>5, <1>6

LEMMA StepOnce == OnceInv /\ [Next]_vars => OnceInv'
<1>. SUFFICES ASSUME OnceInv, [Next]_vars PROVE OnceInv'
  OBVIOUS
<1> DEFINE Kept == \A i \in Inodes : \A k \in DOMAIN data'[i] : data'[i][k] \in Entries =>
                     k \in DOMAIN data[i] /\ data'[i][k] = data[i][k]
<1>1. /\ FileInv /\ FileInv' /\ TypeOK /\ LocalOK /\ LocalOK' /\ Older /\ WrittenOnce
      /\ \A q \in Proc : ProcOK(q)
  BY StepFile, FileTypes DEF OnceInv, FileInv
<1>2. Kept /\ StaysOlder => OnceInv'
  BY <1>1, OlderKept, OnceKept DEF OnceInv
<1>3. data' = data => Kept
  OBVIOUS
<1>4. \A q \in Proc : call[q] \in Nat /\ call[q] <= calls /\ calls \in Nat
  BY <1>1, FileAssumption DEF LocalOK, ProcOK
<1>. HIDE DEF Kept
<1>5. ASSUME NEW p \in Proc, NEW to, Begin(p, to) PROVE OnceInv'
  <2>1. calls' = calls + 1 /\ call' = [call EXCEPT ![p] = calls + 1] /\ data' = data
        /\ pc' = [pc EXCEPT ![p] = to]
    BY <1>5 DEF Begin, files
  <2>2. StaysOlder
    BY <1>1, <1>4, <2>1 DEF StaysOlder, LocalOK
  <2>. QED BY <1>2, <1>3, <2>1, <2>2
<1>6. ASSUME NEW p \in Proc, NEW to \in Stages, Goto(p, to), to \in Before => pc[p] \in Before
      PROVE  StaysOlder
  BY <1>1, <1>6, Moves DEF StaysOlder
<1>7. ASSUME NEW p \in Proc, Operate(p) PROVE OnceInv'
  <2>. USE DEF At, Stages, Before
  <2>1. CASE BeginStore(p) \/ BeginAsk(p)
    BY <1>5, <2>1 DEF BeginStore, BeginAsk
  <2>2. CASE IsNew(p)
    <3>1. data' = data /\ StaysOlder
      BY <1>6, <2>2 DEF IsNew, files
    <3>. QED BY <1>2, <1>3, <3>1
  <2>3. CASE Open(p)
    <3>1. data' = data /\ call' = call /\ pc[p] \in Before /\ \A q \in Proc \ {p} : pc'[q] = pc[q]
      BY <1>1, <2>3 DEF Open, Opened, LocalOK
    <3>2. StaysOlder
      BY <3>1 DEF StaysOlder
    <3>. QED BY <1>2, <1>3, <3>1, <3>2
  <2>4. CASE WriteHeader(p)
    <3>1. PICK piece \in {Header, Newline} : Write(p, piece) /\ pc[p] \in {"header", "headerNl"}
      BY <2>4 DEF WriteHeader
    <3>2. fd[p] # NoFile /\ piece \in Pieces \ Entries
      BY <1>1, <3>1, PieceFacts DEF ProcOK
    <3>3. Kept
      BY <1>1, <3>1, <3>2, NoEntry DEF Kept
    <3>4. StaysOlder
      BY <1>6, <2>4 DEF WriteHeader
    <3>. QED BY <1>2, <3>3, <3>4
  <2>5. CASE WriteEntry(p)
    BY <1>1, <2>5, EntryOnce DEF OnceInv
  <2>6. CASE EndEntry(p)
    <3>1. Write(p, Newline) /\ pc[p] = "entryNl"
      BY <2>6 DEF EndEntry
    <3>2. fd[p] # NoFile /\ Newline \in Pieces \ Entries
      BY <1>1, <3>1, PieceFacts DEF ProcOK
    <3>3. Kept
      BY <1>1, <3>1, <3>2, NoEntry DEF Kept
    <3>4. StaysOlder
      BY <1>6, <2>6 DEF EndEntry
    <3>. QED BY <1>2, <3>3, <3>4
  <2>7. CASE Freshness(p)
    <3>1. data' = data /\ StaysOlder
      BY <1>6, <2>7 DEF Freshness, files
    <3>. QED BY <1>2, <1>3, <3>1
  <2>8. CASE CountMessages(p)
    <3>1. data' = data /\ StaysOlder
      BY <1>6, <2>8 DEF CountMessages, AfterNew, files
    <3>. QED BY <1>2, <1>3, <3>1
  <2>9. CASE Rename(p)
    <3>1. data' = data /\ StaysOlder
      BY <1>6, <2>9 DEF Rename, AfterNew
    <3>. QED BY <1>2, <1>3, <3>1
  <2>10. CASE ReadHistory(p)
    <3>1. data' = data /\ StaysOlder
      BY <1>6, <2>10 DEF ReadHistory, files
    <3>. QED BY <1>2, <1>3, <3>1
  <2>11. CASE Forget(p)
    <3>1. data' = data /\ StaysOlder
      BY <1>6, <2>11 DEF Forget, files
    <3>. QED BY <1>2, <1>3, <3>1
  <2>. QED BY <1>7, <2>1, <2>2, <2>3, <2>4, <2>5, <2>6, <2>7, <2>8, <2>9, <2>10, <2>11 DEF Operate
<1>8. CASE BeginNew \/ BeginForget
  BY <1>5, <1>8 DEF BeginNew, BeginForget, Proc
<1>9. CASE Tick \/ LongSilence \/ Rest \/ UNCHANGED vars
  <2>1. data' = data /\ pc' = pc /\ call' = call
    BY <1>9 DEF Tick, LongSilence, Rest, vars, files, local
  <2>. QED BY <1>2, <1>3, <2>1 DEF StaysOlder
<1>10. ASSUME NEW p \in Proc, Refused(p) PROVE OnceInv'
  <2>1. data' = data /\ StaysOlder
    BY <1>6, <1>10 DEF Refused, files, Stages, Before
  <2>. QED BY <1>2, <1>3, <2>1
<1>11. CASE Crash
  <2>1. data' = data /\ call' = call /\ \A q \in Proc : pc'[q] = "idle"
    BY <1>11 DEF Crash, files
  <2>. QED BY <1>2, <1>3, <2>1 DEF StaysOlder, Before
<1>. QED BY <1>7, <1>8, <1>9, <1>10, <1>11 DEF Next

\* Whoever stores, fails, crashes and archives meanwhile, an entry is written once, and the
\* entries of a process stay in the order of its calls within a file.
THEOREM WrittenOnceHolds == Spec => []WrittenOnce
<1>1. Init => OnceInv
  BY InitFile DEF Init, OnceInv, Older, WrittenOnce
<1>2. OnceInv /\ [Next]_vars => OnceInv'
  BY StepOnce
<1>3. OnceInv => WrittenOnce
  BY DEF OnceInv
<1>. QED BY <1>1, <1>2, <1>3, PTL DEF Spec

----------------------------------------------------------------------------
\* Calls that do not overlap

\* Texts and newlines take turns, and the header is the first.
Alternates(d) ==
  \A k \in DOMAIN d : (d[k] = Newline <=> k % 2 = 0) /\ (d[k] = Header <=> k = 1)

\* A file of whole lines, of which there is one.
Whole(d) == Len(d) # 0 /\ Len(d) % 2 = 0

\* What the call of p knows of the file when nobody else has touched it since it looked.
Knows(p) ==
  /\ pc[p] = "openNew" => name = NoFile
  /\ pc[p] = "open" => name # NoFile
  /\ pc[p] \in {"header", "headerNl", "entry", "entryNl"} => name = fd[p]
  /\ pc[p] = "header" => data[fd[p]] = <<>>
  /\ pc[p] = "headerNl" => Len(data[fd[p]]) = 1
  /\ pc[p] = "entry" => Whole(data[fd[p]])
  /\ pc[p] = "entryNl" => Len(data[fd[p]]) % 2 = 1 /\ Len(data[fd[p]]) # 1
  /\ pc[p] \in {"exists", "count", "rename"} /\ asking[p] => name = NoFile \/ name \in old
  /\ pc[p] = "rename" => Content(name) # <<>>

\* One call at a time.
OnlyBusy(p) == \A q \in Proc : pc[q] # "idle" => q = p

SerialInv ==
  serial =>
    /\ \A p \in Proc : pc[p] # "idle" => OnlyBusy(p) /\ Knows(p)
    /\ \A i \in Inodes : Alternates(data[i])
    /\ \A i \in Inodes : (i <= created /\ \A p \in Proc : fd[p] # i) => Whole(data[i])

LEMMA Parity ==
  ASSUME NEW n \in Nat
  PROVE  /\ n % 2 = 0 \/ n % 2 = 1
         /\ n % 2 = 1 => (n + 1) % 2 = 0 /\ n # 0
         /\ n % 2 = 0 => (n + 1) % 2 = 1
OBVIOUS

LEMMA AlternatesOn ==
  ASSUME NEW d \in Seq(Pieces), Alternates(d), NEW piece \in Pieces,
         piece = Newline <=> Len(d) % 2 = 1, piece = Header <=> Len(d) = 0
  PROVE  Alternates(Append(d, piece)) /\ Len(Append(d, piece)) = Len(d) + 1
<1> DEFINE t == Append(d, piece)
<1>1. /\ Len(d) \in Nat /\ DOMAIN d = 1..Len(d) /\ DOMAIN t = 1..(Len(d) + 1) /\ Len(t) = Len(d) + 1
      /\ t[Len(d) + 1] = piece /\ \A k \in 1..Len(d) : t[k] = d[k]
  OBVIOUS
<1>. HIDE DEF t
<1>2. ASSUME NEW k \in DOMAIN t PROVE (t[k] = Newline <=> k % 2 = 0) /\ (t[k] = Header <=> k = 1)
  <2>1. CASE k \in 1..Len(d)
    BY <1>1, <2>1 DEF Alternates
  <2>2. CASE k = Len(d) + 1
    <3>1. k % 2 = 0 <=> Len(d) % 2 = 1
      BY <1>1, <2>2
    <3>. QED BY <1>1, <2>2, <3>1
  <2>. QED BY <1>1, <2>1, <2>2
<1>. QED BY <1>1, <1>2 DEF Alternates, t

\* A step of p alone, none of whose effects is on another file than the one it writes.
LEMMA SerialStep ==
  ASSUME FileInv, SerialInv, serial, NEW p \in Proc, \A q \in Proc \ {p} : pc'[q] = "idle",
         pc'[p] # "idle" => Knows(p)',
         \A i \in Inodes : Alternates(data'[i]),
         \A i \in Inodes : (i <= created' /\ \A q \in Proc : fd'[q] # i) => Whole(data'[i])
  PROVE  SerialInv'
<1>1. ASSUME NEW q \in Proc, pc'[q] # "idle" PROVE OnlyBusy(q)' /\ Knows(q)'
  <2>1. q = p
    BY <1>1
  <2>. QED BY <1>1, <2>1 DEF OnlyBusy
<1>. QED BY <1>1 DEF SerialInv

\* Such a step that writes nothing.
LEMMA SerialRead ==
  ASSUME FileInv, SerialInv, serial, NEW p \in Proc, \A q \in Proc \ {p} : pc'[q] = "idle",
         pc'[p] # "idle" => Knows(p)', UNCHANGED <<data, created, fd>>
  PROVE  SerialInv'
<1>1. \A i \in Inodes : Alternates(data'[i])
  BY DEF SerialInv
<1>2. \A i \in Inodes : (i <= created' /\ \A q \in Proc : fd'[q] # i) => Whole(data'[i])
  BY DEF SerialInv
<1>. QED BY <1>1, <1>2, SerialStep

\* p appends the piece that is due.
LEMMA SerialWrite ==
  ASSUME FileInv, SerialInv, serial, NEW p \in Proc, OnlyBusy(p), NEW to \in Stages, Goto(p, to),
         fd[p] # NoFile, NEW piece \in Pieces, Write(p, piece),
         piece = Newline <=> Len(data[fd[p]]) % 2 = 1, piece = Header <=> Len(data[fd[p]]) = 0,
         to # "idle" => Knows(p)', to = "idle" => piece = Newline /\ Len(data[fd[p]]) # 0
  PROVE  SerialInv'
<1>1. /\ fd[p] \in Inodes /\ data \in [Inodes -> Seq(Pieces)] /\ UNCHANGED created
      /\ data'[fd[p]] = Append(data[fd[p]], piece)
      /\ \A i \in Inodes \ {fd[p]} : data'[i] = data[i]
  BY Writes, FileTypes DEF TypeOK, Write
<1>2. /\ pc'[p] = to /\ (\A q \in Proc \ {p} : pc'[q] = pc[q])
      /\ fd'[p] = IF to = "idle" THEN NoFile ELSE fd[p]
      /\ (\A q \in Proc \ {p} : fd'[q] = fd[q])
  BY Moves, FileTypes
<1>3. \A q \in Proc \ {p} : pc'[q] = "idle"
  BY <1>2 DEF OnlyBusy
<1>4. Len(data[fd[p]]) \in Nat /\ data[fd[p]] \in Seq(Pieces)
  BY <1>1
<1>5. Alternates(data'[fd[p]]) /\ Len(data'[fd[p]]) = Len(data[fd[p]]) + 1
  <2>1. Alternates(data[fd[p]])
    BY <1>1 DEF SerialInv
  <2>. QED BY <1>1, <1>4, <2>1, AlternatesOn
<1>6. \A i \in Inodes : Alternates(data'[i])
  BY <1>1, <1>5 DEF SerialInv
<1>7. ASSUME NEW i \in Inodes, i <= created', \A q \in Proc : fd'[q] # i PROVE Whole(data'[i])
  <2>1. CASE i # fd[p]
    <3>1. \A q \in Proc : fd[q] # i
      BY <1>2, <1>7, <2>1
    <3>. QED BY <1>1, <1>7, <2>1, <3>1 DEF SerialInv
  <2>2. CASE i = fd[p]
    <3>1. to = "idle"
      BY <1>2, <1>7, <2>2
    <3>2. Len(data[fd[p]]) % 2 = 1
      BY <3>1
    <3>3. (Len(data[fd[p]]) + 1) % 2 = 0 /\ Len(data[fd[p]]) + 1 # 0
      <4> DEFINE n == Len(data[fd[p]])
      <4>1. n \in Nat /\ n % 2 = 1
        BY <1>4, <3>2
      <4>2. (n + 1) % 2 = 0 /\ n + 1 # 0
        <5>. HIDE DEF n
        <5>. QED BY <4>1, Parity
      <4>. QED BY <4>2
    <3>. QED BY <1>5, <2>2, <3>3 DEF Whole
  <2>. QED BY <2>1, <2>2
<1>. QED BY <1>2, <1>3, <1>6, <1>7, SerialStep

\* While calls do not overlap, what a call has learned of the file stays true.
LEMMA SerialOperate ==
  ASSUME FileInv, FileInv', SerialInv, serial, NEW p \in Proc, Operate(p),
         \A q \in Proc \ {p} : pc'[q] = "idle"
  PROVE  SerialInv'
<1>0. /\ TypeOK /\ LocalOK /\ LocalOK' /\ (\A q \in Proc : ProcOK(q)) /\ FilesOK
      /\ pc \in [Proc -> Stages] /\ ProcOK(p) /\ ProcOK(p)'
  BY FileTypes DEF FileInv, LocalOK
<1>1. pc[p] # "idle" => Knows(p) /\ OnlyBusy(p)
  BY DEF SerialInv
<1>2. ASSUME NEW to \in Stages, Goto(p, to)
      PROVE  /\ pc'[p] = to /\ fd'[p] = (IF to = "idle" THEN NoFile ELSE fd[p])
             /\ asking'[p] => asking[p]
             /\ fd[p] = NoFile => fd' = fd
  <2>1. /\ fd' = [fd EXCEPT ![p] = IF to = "idle" THEN NoFile ELSE @]
        /\ fd \in [Proc -> Inodes \cup {NoFile}] /\ fd' \in [Proc -> Inodes \cup {NoFile}]
    BY <1>0, <1>2 DEF Goto, LocalOK
  <2>. QED BY <1>0, <1>2, <2>1, Moves
<1>. USE DEF At, Stages
<1>3. CASE BeginStore(p) \/ BeginAsk(p)
  <2>1. UNCHANGED <<files, fd>> /\ pc'[p] \in {"isNew", "fresh"}
    BY <1>0, <1>3 DEF BeginStore, BeginAsk, Begin
  <2>2. Knows(p)'
    BY <2>1 DEF Knows
  <2>. QED BY <2>1, <2>2, SerialRead DEF files
<1>4. CASE IsNew(p)
  <2>1. UNCHANGED files /\ Goto(p, IF name = NoFile THEN "openNew" ELSE "open") /\ fd[p] = NoFile
    BY <1>0, <1>4 DEF IsNew, ProcOK
  <2>2. pc'[p] = (IF name = NoFile THEN "openNew" ELSE "open") /\ fd' = fd
    BY <1>2, <2>1
  <2>3. Knows(p)'
    BY <2>1, <2>2 DEF Knows, files
  <2>. QED BY <2>1, <2>2, <2>3, SerialRead DEF files
<1>5. CASE Open(p)
  <2>1. /\ pc[p] \in {"open", "openNew"} /\ data' = data /\ fd' = [fd EXCEPT ![p] = name']
        /\ pc' = [pc EXCEPT ![p] = IF @ = "openNew" THEN "header" ELSE "entry"]
    BY <1>5 DEF Open, Opened
  <2>2. \A q \in Proc : fd[q] = NoFile
    BY <1>0, <1>1, <2>1 DEF OnlyBusy, ProcOK
  <2>3. /\ fd'[p] = name' /\ \A q \in Proc \ {p} : fd'[q] = NoFile
        /\ pc'[p] = IF pc[p] = "openNew" THEN "header" ELSE "entry"
    BY <1>0, <2>1, <2>2 DEF LocalOK
  <2>4. CASE name = NoFile
    <3>1. created' = created + 1 /\ name' = created + 1 /\ created \in Nat /\ created < MaxFiles
      BY <1>0, <1>5, <2>4, FileAssumption DEF Open, Create, FilesOK
    <3>2. pc[p] = "openNew"
      BY <1>1, <2>1, <2>4 DEF Knows
    <3>3. name' \in Inodes /\ name' > created
      BY <3>1, FileAssumption DEF Inodes
    <3>4. data'[name'] = <<>>
      BY <1>0, <2>1, <3>3 DEF FilesOK
    <3>5. Knows(p)'
      BY <2>3, <3>2, <3>4 DEF Knows
    <3>6. \A i \in Inodes : (i <= created' /\ \A q \in Proc : fd'[q] # i) => Whole(data'[i])
      <4>. SUFFICES ASSUME NEW i \in Inodes, i <= created', \A q \in Proc : fd'[q] # i
                    PROVE  Whole(data[i])
        BY <2>1
      <4>1. i # name' /\ i <= created
        BY <2>3, <3>1, FileAssumption DEF Inodes
      <4>2. \A q \in Proc : fd[q] # i
        BY <2>2, FileAssumption DEF Inodes, NoFile
      <4>. QED BY <4>1, <4>2 DEF SerialInv
    <3>7. \A i \in Inodes : Alternates(data'[i])
      BY <2>1 DEF SerialInv
    <3>. QED BY <3>5, <3>6, <3>7, SerialStep
  <2>5. CASE name # NoFile
    <3>1. UNCHANGED <<name, created>> /\ name \in Inodes /\ name <= created
      BY <1>0, <1>5, <2>5 DEF Open, FilesOK
    <3>2. pc[p] = "open"
      BY <1>1, <2>1, <2>5 DEF Knows
    <3>3. Whole(data[name])
      BY <2>2, <2>5, <3>1 DEF SerialInv
    <3>4. Knows(p)'
      <4>1. pc'[p] = "entry" /\ fd'[p] = name /\ name' = name /\ Whole(data'[fd'[p]])
        BY <2>1, <2>3, <3>1, <3>2, <3>3
      <4>. QED BY <4>1 DEF Knows
    <3>5. \A i \in Inodes : (i <= created' /\ \A q \in Proc : fd'[q] # i) => Whole(data'[i])
      <4>. SUFFICES ASSUME NEW i \in Inodes, i <= created
                    PROVE  Whole(data[i])
        BY <2>1, <3>1
      <4>1. \A q \in Proc : fd[q] # i
        BY <2>2, FileAssumption DEF Inodes, NoFile
      <4>. QED BY <4>1 DEF SerialInv
    <3>6. \A i \in Inodes : Alternates(data'[i])
      BY <2>1 DEF SerialInv
    <3>. QED BY <3>4, <3>5, <3>6, SerialStep
  <2>. QED BY <2>4, <2>5
<1>6. CASE WriteHeader(p)
  <2>1. CASE At(p, "header")
    <3>1. Goto(p, "headerNl") /\ Write(p, Header) /\ fd[p] # NoFile /\ Header \in Pieces
          /\ Header # Newline
      BY <1>0, <1>6, <2>1, PieceFacts DEF WriteHeader, ProcOK
    <3>2. OnlyBusy(p) /\ name = fd[p] /\ data[fd[p]] = <<>>
      BY <1>1, <2>1 DEF Knows
    <3>3. Len(data[fd[p]]) = 0
      BY <3>2
    <3>4. pc'[p] = "headerNl" /\ fd'[p] = fd[p] /\ name' = name /\ Len(data'[fd[p]]) = 1
      <4>1. data'[fd[p]] = Append(<<>>, Header)
        BY <1>0, <3>1, <3>2, Writes
      <4>2. Len(Append(<<>>, Header)) = 1
        OBVIOUS
      <4>. QED BY <1>2, <3>1, <4>1, <4>2 DEF Write
    <3>5. Knows(p)'
      BY <3>2, <3>4 DEF Knows
    <3>6. Header = Newline <=> Len(data[fd[p]]) % 2 = 1
      BY <3>1, <3>3, Parity
    <3>. QED BY <3>1, <3>2, <3>3, <3>5, <3>6, SerialWrite
  <2>2. CASE At(p, "headerNl")
    <3>1. Goto(p, "entry") /\ Write(p, Newline) /\ fd[p] # NoFile /\ Newline \in Pieces
          /\ Header # Newline
      BY <1>0, <1>6, <2>2, PieceFacts DEF WriteHeader, ProcOK
    <3>2. OnlyBusy(p) /\ name = fd[p] /\ Len(data[fd[p]]) = 1
      BY <1>1, <2>2 DEF Knows
    <3>3. pc'[p] = "entry" /\ fd'[p] = fd[p] /\ name' = name /\ Len(data'[fd[p]]) = 2
      <4>1. data'[fd[p]] = Append(data[fd[p]], Newline) /\ data[fd[p]] \in Seq(Pieces)
        BY <1>0, <3>1, Writes DEF TypeOK
      <4>. QED BY <1>2, <3>1, <3>2, <4>1 DEF Write
    <3>4. Knows(p)'
      <4>1. Whole(data'[fd[p]])
        BY <3>3 DEF Whole
      <4>. QED BY <3>2, <3>3, <4>1 DEF Knows
    <3>5. Newline = Newline <=> Len(data[fd[p]]) % 2 = 1
      BY <3>2
    <3>6. Newline = Header <=> Len(data[fd[p]]) = 0
      BY <3>1, <3>2
    <3>. QED BY <3>1, <3>2, <3>4, <3>5, <3>6, SerialWrite
  <2>. QED BY <1>6, <2>1, <2>2 DEF WriteHeader
<1>7. CASE WriteEntry(p)
  <2> DEFINE e == <<p, call[p]>>
             n == Len(data[fd[p]])
  <2>1. /\ Goto(p, "entryNl") /\ Write(p, e) /\ fd[p] # NoFile /\ e \in Pieces
        /\ e # Newline /\ e # Header /\ pc[p] = "entry"
    BY <1>0, <1>7, PieceFacts DEF WriteEntry, ProcOK
  <2>2. OnlyBusy(p) /\ name = fd[p] /\ n % 2 = 0 /\ n # 0
    BY <1>1, <2>1 DEF Knows, Whole
  <2>3. /\ data'[fd[p]] = Append(data[fd[p]], e) /\ data[fd[p]] \in Seq(Pieces) /\ n \in Nat
        /\ name' = name /\ pc'[p] = "entryNl" /\ fd'[p] = fd[p]
    <3>. HIDE DEF e
    <3>. QED BY <1>0, <1>2, <2>1, Writes DEF TypeOK, Write
  <2>4. Len(data'[fd[p]]) = n + 1
    BY <2>3
  <2>. HIDE DEF e, n
  <2>5. (n + 1) % 2 = 1 /\ n + 1 # 1 /\ n % 2 # 1
    BY <2>2, <2>3, Parity
  <2>6. Knows(p)'
    BY <2>2, <2>3, <2>4, <2>5 DEF Knows
  <2>7. (e = Newline <=> Len(data[fd[p]]) % 2 = 1) /\ (e = Header <=> Len(data[fd[p]]) = 0)
    BY <2>1, <2>2, <2>5 DEF n
  <2>. QED BY <2>1, <2>2, <2>6, <2>7, SerialWrite
<1>8. CASE EndEntry(p)
  <2>1. /\ Goto(p, "idle") /\ Write(p, Newline) /\ fd[p] # NoFile /\ Newline \in Pieces
        /\ Newline # Header /\ pc[p] = "entryNl"
    BY <1>0, <1>8, PieceFacts DEF EndEntry, ProcOK
  <2>2. OnlyBusy(p) /\ Len(data[fd[p]]) % 2 = 1 /\ Len(data[fd[p]]) # 0
    <3>1. Len(data[fd[p]]) \in Nat
      BY <1>0, <2>1, Writes DEF TypeOK
    <3>2. OnlyBusy(p) /\ Len(data[fd[p]]) % 2 = 1
      BY <1>1, <2>1 DEF Knows
    <3>. QED BY <3>1, <3>2, Parity
  <2>3. (Newline = Newline <=> Len(data[fd[p]]) % 2 = 1)
        /\ (Newline = Header <=> Len(data[fd[p]]) = 0)
    BY <2>1, <2>2
  <2>. QED BY <2>1, <2>2, <2>3, SerialWrite
<1>9. CASE Freshness(p)
  <2>1. PICK to \in {"idle", "exists", "history", "age"} :
          Goto(p, to) /\ (to = "exists" => name \in old)
    BY <1>9 DEF Freshness
  <2>2. UNCHANGED files /\ fd[p] = NoFile
    BY <1>0, <1>9 DEF Freshness, ProcOK
  <2>3. pc'[p] = to /\ fd' = fd
    BY <1>2, <2>1, <2>2
  <2>4. Knows(p)'
    BY <2>1, <2>2, <2>3 DEF Knows, files
  <2>. QED BY <2>2, <2>3, <2>4, SerialRead DEF files
<1>10. CASE CountMessages(p)
  <2>1. PICK to \in {"idle", "count", "history", "rename"} :
          Goto(p, to) /\ (to = "rename" => Content(name) # <<>>)
    BY <1>10 DEF CountMessages, AfterNew
  <2>2. UNCHANGED files /\ fd[p] = NoFile /\ pc[p] \in {"exists", "count"}
    BY <1>0, <1>10 DEF CountMessages, ProcOK
  <2>3. pc'[p] = to /\ fd' = fd /\ (asking'[p] => asking[p])
    BY <1>2, <2>1, <2>2
  <2>4. Content(name)' = Content(name)
    BY <2>2 DEF files, Content
  <2>5. Knows(p)'
    BY <1>1, <2>1, <2>2, <2>3, <2>4 DEF Knows, files
  <2>. QED BY <2>2, <2>3, <2>5, SerialRead DEF files
<1>11. CASE Rename(p)
  <2>1. PICK to \in {"idle", "history"} : Goto(p, to)
    BY <1>11 DEF Rename, AfterNew
  <2>2. UNCHANGED <<data, created>> /\ fd[p] = NoFile
    BY <1>0, <1>11 DEF Rename, ProcOK
  <2>3. pc'[p] = to /\ fd' = fd
    BY <1>2, <2>1, <2>2
  <2>4. Knows(p)'
    BY <2>3 DEF Knows
  <2>. QED BY <2>2, <2>3, <2>4, SerialRead
<1>12. CASE ReadHistory(p)
  <2>1. PICK to \in {"idle", "read"} : Goto(p, to)
    BY <1>12 DEF ReadHistory
  <2>2. UNCHANGED <<data, created>> /\ fd[p] = NoFile
    BY <1>0, <1>12 DEF ReadHistory, ProcOK, files
  <2>3. pc'[p] = to /\ fd' = fd
    BY <1>2, <2>1, <2>2
  <2>4. Knows(p)'
    BY <2>3 DEF Knows
  <2>. QED BY <2>2, <2>3, <2>4, SerialRead
<1>13. CASE Forget(p)
  <2>1. PICK to \in {"idle", "forgetRead", "remove"} : Goto(p, to)
    BY <1>13 DEF Forget
  <2>2. UNCHANGED <<data, created>> /\ fd[p] = NoFile
    BY <1>0, <1>13 DEF Forget, ProcOK, files
  <2>3. pc'[p] = to /\ fd' = fd
    BY <1>2, <2>1, <2>2
  <2>4. Knows(p)'
    BY <2>3 DEF Knows
  <2>. QED BY <2>2, <2>3, <2>4, SerialRead
<1>. QED BY <1>3, <1>4, <1>5, <1>6, <1>7, <1>8, <1>9, <1>10, <1>11, <1>12, <1>13 DEF Operate

\* An operation is of one process, which it leaves idle only if it was not.
LEMMA StepsAlone ==
  ASSUME FileInv, NEW p \in Proc, Operate(p)
  PROVE  /\ \A q \in Proc \ {p} : pc'[q] = pc[q]
         /\ pc[p] = "idle" => pc'[p] # "idle"
<1>1. TypeOK /\ LocalOK
  BY FileTypes DEF FileInv
<1>2. (\E to \in {"isNew", "fresh"} : Begin(p, to)) \/ Open(p)
      \/ (pc[p] # "idle" /\ \E to \in Stages : Goto(p, to))
  BY DEF Operate, BeginStore, BeginAsk, IsNew, WriteHeader, WriteEntry, EndEntry, Freshness,
         CountMessages, Rename, ReadHistory, Forget, AfterNew, At, Stages
<1>. QED BY <1>1, <1>2, Moves DEF Begin, Open, Opened, LocalOK, At

LEMMA StepSerial == FileInv /\ SerialInv /\ [Next]_vars => SerialInv'
<1>. SUFFICES ASSUME FileInv, SerialInv, [Next]_vars PROVE SerialInv'
  OBVIOUS
<1>0. FileInv' /\ \A q \in Proc : ProcOK(q)
  BY StepFile DEF FileInv
<1>1. CASE Next /\ ~serial'
  BY <1>1 DEF SerialInv
<1>2. CASE /\ serial' = (serial /\ \A p, q \in Busy' : p = q) /\ serial'
           /\ (\E p \in Proc : Operate(p)) \/ BeginNew \/ BeginForget \/ Tick \/ LongSilence
  <2>1. serial /\ \A p, q \in Proc : (pc'[p] # "idle" /\ pc'[q] # "idle") => p = q
    BY <1>2 DEF Busy, At
  <2>2. ASSUME NEW p \in Proc, Operate(p) PROVE SerialInv'
    <3>1. ASSUME NEW q \in Proc \ {p} PROVE pc'[q] = "idle"
      <4>1. CASE pc[p] # "idle"
        <5>1. pc[q] = "idle"
          BY <2>1, <4>1 DEF SerialInv, OnlyBusy
        <5>2. pc'[q] = pc[q]
          BY <2>2, StepsAlone
        <5>. QED BY <5>1, <5>2
      <4>2. CASE pc[p] = "idle"
        <5>1. pc'[p] # "idle"
          BY <2>2, <4>2, StepsAlone
        <5>. QED BY <2>1, <5>1
      <4>. QED BY <4>1, <4>2
    <3>. QED BY <1>0, <2>1, <2>2, <3>1, SerialOperate
  <2>3. CASE BeginNew \/ BeginForget
    <3>1. PICK to \in {"exists", "forget"} : Begin(Loop, to)
      BY <2>3 DEF BeginNew, BeginForget
    <3>2. /\ UNCHANGED <<files, fd>> /\ Loop \in Proc /\ pc'[Loop] = to /\ ~asking'[Loop]
      BY <3>1 DEF Begin, Proc, FileInv, LocalOK
    <3>3. Knows(Loop)'
      BY <3>2 DEF Knows
    <3>4. \A q \in Proc \ {Loop} : pc'[q] = "idle"
      BY <2>1, <3>2
    <3>. QED BY <2>1, <3>2, <3>3, <3>4, SerialRead DEF files
  <2>4. CASE Tick \/ LongSilence
    <3>1. /\ UNCHANGED <<name, data, created, local>>
          /\ old' = old \/ \A q \in Proc : pc[q] = "idle"
      BY <2>4 DEF Tick, LongSilence, files, At
    <3>2. \A p \in Proc : pc'[p] # "idle" => OnlyBusy(p)' /\ Knows(p)'
      BY <2>1, <3>1 DEF local, OnlyBusy, Knows, Content, SerialInv
    <3>. QED BY <2>1, <3>1, <3>2 DEF local, SerialInv
  <2>. QED BY <1>2, <2>2, <2>3, <2>4
<1>3. CASE UNCHANGED vars
  <2>1. \A p \in Proc : UNCHANGED <<OnlyBusy(p), Knows(p)>>
    BY <1>3 DEF vars, files, local, OnlyBusy, Knows, Content
  <2>. QED BY <1>3, <2>1 DEF vars, files, local, SerialInv
<1>. QED BY <1>1, <1>2, <1>3 DEF Next, Rest

LEMMA InitSerial == Init => SerialInv
BY FileAssumption DEF Init, SerialInv, Alternates, Inodes, OnlyBusy

\* docs/SESSION_FORMAT.md:3, :22: as long as calls do not overlap and none is cut short,
\* texts and newlines alternate in every file, and its one header is at its start.
THEOREM OneObjectPerLineHolds == Spec => []OneObjectPerLine
<1>1. FileInv /\ SerialInv => OneObjectPerLine
  <2>1. FilesOK => Named \subseteq Inodes
    BY DEF FilesOK, Named
  <2>. QED BY <2>1 DEF FileInv, SerialInv, OneObjectPerLine, Alternates
<1>2. FileInv /\ SerialInv /\ [Next]_vars => (FileInv /\ SerialInv)'
  BY StepFile, StepSerial
<1>. QED BY InitFile, InitSerial, <1>1, <1>2, PTL DEF Spec

\* ROADMAP.md:41: while calls do not overlap, the check of a session's age archives none
\* that was written since: what it archives is still old when it is renamed.
THEOREM OnlyIdleArchivedHolds == Spec => OnlyIdleArchived
<1> DEFINE Step == \A p \in Proc : (At(p, "rename") /\ asking[p] /\ name' # name /\ serial)
      => name \in old
<1>1. FileInv /\ SerialInv /\ [Next]_vars => [Step]_vars
  <2>. SUFFICES ASSUME FileInv, SerialInv, Next, NEW p \in Proc, At(p, "rename"), asking[p],
                       name' # name, serial
                PROVE  name \in old
    OBVIOUS
  <2>1. OnlyBusy(p) /\ (name = NoFile \/ name \in old)
    BY DEF SerialInv, Knows, At
  <2>2. ASSUME name = NoFile PROVE FALSE
    <3>1. ASSUME NEW q \in Proc, Operate(q), ~Open(q) PROVE name' = name
      BY <2>2, <3>1 DEF Operate, BeginStore, BeginAsk, Begin, IsNew, WriteHeader, WriteEntry,
          EndEntry,
                   Write, Freshness, CountMessages, Rename, ReadHistory, Forget, files
    <3>2. ASSUME NEW q \in Proc, Open(q) PROVE FALSE
      BY <2>1, <3>2 DEF Open, OnlyBusy, At
    <3>. QED BY <3>1, <3>2 DEF Next, BeginNew, BeginForget, Begin, Tick, LongSilence, Refused,
          Crash,
                              Rest, vars, files
  <2>. QED BY <2>1, <2>2
<1>2. FileInv /\ SerialInv /\ [Next]_vars => (FileInv /\ SerialInv)'
  BY StepFile, StepSerial
<1>. QED BY InitFile, InitSerial, <1>1, <1>2, PTL DEF Spec, OnlyIdleArchived

----------------------------------------------------------------------------
\* What is stored stays

\* Only the event loop forgets.
LoopForgets == \A p \in Proc : pc[p] \in {"forget", "forgetRead", "remove"} => p = Loop

LEMMA StepLoopForgets == FileInv /\ LoopForgets /\ [Next]_vars => LoopForgets'
<1>. SUFFICES ASSUME FileInv, LoopForgets, [Next]_vars, NEW p \in Proc,
                     pc'[p] \in {"forget", "forgetRead", "remove"}, p # Loop
              PROVE  FALSE
  BY DEF LoopForgets
<1>0. TypeOK /\ pc \in [Proc -> Stages] /\ Loop \in Proc
  BY FileTypes DEF FileInv, LocalOK, Proc
<1>1. pc[p] \notin {"forget", "forgetRead", "remove"}
  BY DEF LoopForgets
<1>2. ASSUME NEW q \in Proc, Operate(q) PROVE FALSE
  <2>1. q = p
    BY <1>1, <1>2, StepsAlone
  <2>2. ~Forget(p)
    BY <1>1 DEF Forget, At
  <2>. QED BY <1>0, <1>1, <1>2, <2>1, <2>2
       DEF Operate, BeginStore, BeginAsk, Begin, IsNew, Open, Opened, WriteHeader, WriteEntry,
           EndEntry,
           Freshness, CountMessages, Rename, ReadHistory, AfterNew, Goto
<1>. QED BY <1>0, <1>1, <1>2 DEF Next, BeginNew, BeginForget, Begin, Tick, LongSilence, Refused,
      Goto, Crash,
                            Rest, vars, local

\* Files only grow.
Grow == \A i \in Inodes : \A k \in DOMAIN data[i] : k \in DOMAIN data'[i]
    /\ data'[i][k] = data[i][k]

LEMMA WriteGrows ==
  ASSUME FileInv, NEW p \in Proc, fd[p] # NoFile, NEW piece \in Pieces, Write(p, piece)
  PROVE  Grow
<1>1. /\ fd[p] \in Inodes /\ data \in [Inodes -> Seq(Pieces)]
      /\ data'[fd[p]] = Append(data[fd[p]], piece)
      /\ \A j \in Inodes \ {fd[p]} : data'[j] = data[j]
  BY Writes, FileTypes DEF TypeOK
<1>2. ASSUME NEW d \in Seq(Pieces), NEW k \in DOMAIN d
      PROVE  k \in DOMAIN Append(d, piece) /\ Append(d, piece)[k] = d[k]
  OBVIOUS
<1>. QED BY <1>1, <1>2 DEF Grow

LEMMA Kept ==
  ASSUME FileInv, Grow, Named \subseteq Named', NEW e, Holds(e)
  PROVE  Holds(e)'
<1>1. Named \subseteq Inodes
  BY DEF FileInv, FilesOK, Named
<1>. QED BY <1>1 DEF Grow, Holds

\* An entry that was stored stays in a file with a name, until a /forget removes the
\* session or an archive of the same second is replaced.
THEOREM StoredIsKeptHolds == Spec => StoredIsKept
<1> DEFINE Gone == \/ At(Loop, "remove") /\ pc' # pc
                   \/ archives[second] # NoFile /\ archives'[second] # archives[second]
           Step == \A e \in stored : (Holds(e) /\ ~Holds(e)') => Gone
<1>1. FileInv /\ LoopForgets /\ [Next]_vars => [Step]_vars
  <2>. SUFFICES ASSUME FileInv, LoopForgets, Next, ~Gone PROVE Named \subseteq Named' /\ Grow
    BY Kept
  <2>0. /\ TypeOK /\ FilesOK /\ LocalOK /\ (\A q \in Proc : ProcOK(q)) /\ second \in Seconds
    BY FileTypes DEF FileInv, RestOK
  <2>1. data' = data => Grow
    BY DEF Grow
  <2>2. UNCHANGED <<name, archives>> => Named \subseteq Named'
    BY DEF Named
  <2>3. ASSUME NEW p \in Proc, Operate(p) PROVE Named \subseteq Named' /\ Grow
    <3>1. CASE Open(p)
      <4>1. UNCHANGED <<archives, data>> /\ name \in {name', NoFile}
        BY <3>1 DEF Open, Opened
      <4>. QED BY <2>1, <4>1 DEF Named
    <3>2. CASE WriteHeader(p) \/ WriteEntry(p) \/ EndEntry(p)
      <4>1. PICK piece \in Pieces : Write(p, piece) /\ fd[p] # NoFile
        BY <2>0, <3>2, PieceFacts DEF WriteHeader, WriteEntry, EndEntry, ProcOK, At
      <4>. QED BY <2>2, <4>1, WriteGrows DEF Write
    <3>3. CASE Rename(p)
      <4>1. CASE name = NoFile
        BY <2>1, <2>2, <3>3, <4>1 DEF Rename
      <4>2. CASE name # NoFile
        <5>1. archives' = [archives EXCEPT ![second] = name] /\ name' = NoFile /\ data' = data
          BY <3>3, <4>2 DEF Rename
        <5>2. archives'[second] = name /\ archives[second] # name
          BY <2>0, <4>2, <5>1 DEF FilesOK
        <5>3. archives[second] = NoFile
          BY <5>2
        <5>4. ASSUME NEW i \in Named PROVE i \in Named'
          <6>1. CASE i = name
            BY <2>0, <5>2, <6>1 DEF Named
          <6>2. CASE i # name
            <7>1. PICK s \in Seconds : i = archives[s] /\ i # NoFile
              BY <6>2 DEF Named
            <7>2. archives'[s] = i
              BY <2>0, <5>1, <5>3, <7>1 DEF FilesOK
            <7>. QED BY <7>1, <7>2 DEF Named
          <6>. QED BY <6>1, <6>2
        <5>. QED BY <2>1, <5>1, <5>4
      <4>. QED BY <4>1, <4>2
    <3>4. CASE Forget(p)
      <4>1. ~At(p, "remove")
        <5>1. ASSUME At(p, "remove") PROVE FALSE
          <6>1. p = Loop /\ pc' = [pc EXCEPT ![p] = "idle"]
            BY <3>4, <5>1 DEF Forget, At, Goto, LoopForgets
          <6>. QED BY <2>0, <5>1, <6>1 DEF At, LocalOK
        <5>. QED BY <5>1
      <4>. QED BY <2>1, <2>2, <3>4, <4>1 DEF Forget, files
    <3>5. CASE ~(\/ Open(p) \/ WriteHeader(p) \/ WriteEntry(p)
                 \/ EndEntry(p) \/ Rename(p) \/ Forget(p))
      BY <2>1, <2>2, <2>3, <3>5 DEF Operate, BeginStore, BeginAsk, Begin, IsNew, Freshness,
          CountMessages,
                                    ReadHistory, files
    <3>. QED BY <3>1, <3>2, <3>3, <3>4, <3>5
  <2>4. CASE ~\E p \in Proc : Operate(p)
    BY <2>1, <2>2, <2>4 DEF Next, BeginNew, BeginForget, Begin, Tick, LongSilence, Refused, Crash,
                           Rest, vars, files
  <2>. QED BY <2>3, <2>4
<1>2. Init => LoopForgets
  BY DEF Init, LoopForgets
<1>3. FileInv /\ LoopForgets /\ [Next]_vars => (FileInv /\ LoopForgets)'
  BY StepFile, StepLoopForgets
<1>. QED BY InitFile, <1>1, <1>2, <1>3, PTL DEF Spec, StoredIsKept

----------------------------------------------------------------------------
\* The session log

LEMMA ParseEmpty == Parse(<<>>) = <<>>
BY SelectEmpty DEF Parse

\* A newline or a header that is written changes nothing for a reader; an entry on a line
\* of its own comes last.
LEMMA ParseAppend ==
  ASSUME NEW d \in Seq(Pieces), NEW piece \in Pieces,
         piece \in Entries => d = <<>> \/ d[Len(d)] = Newline,
         piece \in Entries \/ piece = Newline \/ d = <<>>
  PROVE  /\ Parse(Append(d, piece)) =
              IF piece \in Entries THEN Append(Parse(d), piece) ELSE Parse(d)
         /\ Parse(d) \in Seq(Pieces)
<1> DEFINE t == Append(d, piece)
           K == {k \in DOMAIN d : d[k] \in Entries /\ Alone(d, k)}
           L == {k \in DOMAIN t : t[k] \in Entries /\ Alone(t, k)}
<1>1. /\ t \in Seq(Pieces) /\ Len(d) \in Nat /\ Len(t) = Len(d) + 1 /\ DOMAIN d = 1..Len(d)
      /\ DOMAIN t = 1..(Len(d) + 1) /\ t[Len(d) + 1] = piece /\ \A k \in 1..Len(d) : t[k] = d[k]
      /\ d = <<>> <=> Len(d) = 0
  OBVIOUS
<1>2. Parse(t) = Select(t, L) /\ Parse(d) = Select(d, K)
  BY DEF Parse
<1>3. \A k \in 1..Len(d) : k \in L <=> k \in K
  <2>. SUFFICES ASSUME NEW k \in 1..Len(d), d[k] \in Entries PROVE Alone(t, k) <=> Alone(d, k)
    <3>. HIDE DEF t
    <3>. QED BY <1>1
  <2>0. t[k] = d[k] /\ d[k] # Newline /\ (k # 1 => t[k - 1] = d[k - 1]) /\ k # Len(t)
    <3>. HIDE DEF t
    <3>. QED BY <1>1, PieceFacts
  <2>1. CASE k # Len(d)
    <3>1. t[k + 1] = d[k + 1]
      <4>. HIDE DEF t
      <4>1. Len(d) \in Nat /\ k \in Nat /\ k >= 1 /\ k <= Len(d)
        BY <1>1
      <4>2. k + 1 \in 1..Len(d)
        BY <2>1, <4>1
      <4>. QED BY <1>1, <4>2
    <3>. HIDE DEF t
    <3>. QED BY <2>0, <2>1, <3>1 DEF Alone
  <2>2. CASE k = Len(d)
    <3>1. piece = Newline
      <4>1. Len(d) # 0 /\ d # <<>>
        BY <1>1, <2>2
      <4>2. d[Len(d)] # Newline
        BY <2>0, <2>2
      <4>. QED BY <4>1, <4>2
    <3>2. t[k + 1] = Newline
      BY <1>1, <2>2, <3>1
    <3>. HIDE DEF t
    <3>. QED BY <2>0, <2>2, <3>2 DEF Alone
  <2>. QED BY <2>1, <2>2
<1>4. Len(d) + 1 \in L <=> piece \in Entries
  <2>1. piece \in Entries => Alone(t, Len(d) + 1)
    <3>. HIDE DEF t
    <3>. QED BY <1>1 DEF Alone
  <2>. HIDE DEF t
  <2>. QED BY <1>1, <2>1
<1>5. Select(t, L) = IF Len(d) + 1 \in L THEN Append(Select(d, L), piece) ELSE Select(d, L)
  <2>. HIDE DEF L
  <2>. QED BY SelectAppend
<1>6. Select(d, L) = Select(d, K)
  <2>. HIDE DEF K, L
  <2>. QED BY <1>3, SelectSame
<1>7. Select(d, K) \in Seq(Pieces)
  <2>. HIDE DEF K
  <2>. QED BY SelectType
<1>. QED BY <1>2, <1>4, <1>5, <1>6, <1>7

\* What the log is made of, and what does not touch it.
LEMMA SameLog ==
  ASSUME name' = name, archives' = archives, data' = data
  PROVE  UNCHANGED Log!vars
BY DEF Log!vars, Content

\* A write to the current file does not touch the archives.
LEMMA LogWrite ==
  ASSUME FileInv, NEW p \in Proc, name = fd[p], fd[p] # NoFile, NEW piece \in Pieces,
        Write(p, piece),
         LET d == data[fd[p]] IN
           /\ piece \in Entries => d = <<>> \/ d[Len(d)] = Newline
           /\ piece \in Entries \/ piece = Newline \/ d = <<>>
  PROVE  /\ Content(name)' =
              IF piece \in Entries THEN Append(Content(name), piece) ELSE Content(name)
         /\ Content(name) \in Seq(Pieces)
         /\ \A s \in Seconds : Content(archives[s])' = Content(archives[s])
<1>1. /\ fd[p] \in Inodes /\ data \in [Inodes -> Seq(Pieces)]
      /\ data'[fd[p]] = Append(data[fd[p]], piece)
      /\ \A i \in Inodes \ {fd[p]} : data'[i] = data[i]
      /\ name' = name /\ archives' = archives /\ FilesOK
  BY Writes, FileTypes DEF TypeOK, FileInv, Write
<1>2. ASSUME NEW s \in Seconds PROVE Content(archives[s])' = Content(archives[s])
  <2>1. archives[s] # name /\ archives[s] \in Inodes \cup {NoFile}
    BY <1>1 DEF FilesOK
  <2>. QED BY <1>1, <2>1 DEF Content
<1>3. /\ Parse(data'[name]) =
           IF piece \in Entries THEN Append(Parse(data[name]), piece) ELSE Parse(data[name])
      /\ Parse(data[name]) \in Seq(Pieces)
  BY <1>1, ParseAppend
<1>. QED BY <1>1, <1>2, <1>3 DEF Content

\* As long as calls do not overlap and none is cut short, every step on the files is one
\* of the session log or leaves the log as it is.
THEOREM KeepsLogHolds == Spec => KeepsLog
<1>1. Init => Log!Init
  BY DEF Init, Log!Init, Content
<1>2. FileInv /\ SerialInv /\ [Next]_vars => [serial' => Log!Next]_(Log!vars)
  <2>. SUFFICES ASSUME FileInv, SerialInv, [Next]_vars, serial', ~UNCHANGED Log!vars PROVE Log!Next
    OBVIOUS
  <2>0. /\ TypeOK /\ FilesOK /\ LocalOK /\ (\A q \in Proc : ProcOK(q)) /\ second \in Seconds
    BY FileTypes DEF FileInv, RestOK
  <2>1. ~(UNCHANGED <<name, archives, data>>)
    BY SameLog
  <2>2. Next /\ serial
    BY <2>1 DEF vars, files, Next, Rest
  <2>3. PICK p \in Proc : Operate(p)
    BY <2>1, <2>2 DEF Next, BeginNew, BeginForget, Begin, Tick, LongSilence, Refused, Crash,
        Rest, vars, files
  <2>4. pc[p] # "idle" => Knows(p)
    BY <2>2 DEF SerialInv
  <2>5. CASE Open(p)
    <3>1. name = NoFile /\ name' = created + 1 /\ created < MaxFiles /\ UNCHANGED <<archives, data>>
      BY <2>1, <2>5 DEF Open, Opened, Create
    <3>2. name' \in Inodes /\ name' > created /\ name' # NoFile
      BY <2>0, <3>1, FileAssumption DEF FilesOK, Inodes, NoFile
    <3>3. data[name'] = <<>>
      BY <2>0, <3>2 DEF FilesOK
    <3>4. Content(name)' = <<>> /\ Content(name) = <<>>
      BY <3>1, <3>2, <3>3, ParseEmpty DEF Content
    <3>5. UNCHANGED Log!vars
      BY <3>1, <3>4 DEF Log!vars, Content
    <3>. QED BY <3>5
  <2>6. CASE WriteHeader(p) \/ EndEntry(p)
    <3>1. PICK piece \in {Header, Newline} :
            Write(p, piece) /\ pc[p] \in {"header", "headerNl", "entryNl"}
                /\ (piece = Header => pc[p] = "header")
      <4>1. \/ Write(p, Header) /\ pc[p] = "header"
            \/ Write(p, Newline) /\ pc[p] \in {"headerNl", "entryNl"}
        BY <2>6 DEF WriteHeader, EndEntry, At
      <4>. QED BY <4>1, PieceFacts
    <3>2. /\ name = fd[p] /\ fd[p] # NoFile /\ piece \in Pieces /\ piece \notin Entries
          /\ piece = Newline \/ data[fd[p]] = <<>>
      BY <2>0, <2>4, <3>1, PieceFacts DEF Knows, ProcOK
    <3>3. /\ Content(name)' = Content(name)
          /\ \A s \in Seconds : Content(archives[s])' = Content(archives[s])
      BY <3>1, <3>2, LogWrite
    <3>4. UNCHANGED Log!vars
      BY <3>3 DEF Log!vars
    <3>. QED BY <3>4
  <2>7. CASE WriteEntry(p)
    <3> DEFINE e == <<p, call[p]>>
               d == data[fd[p]]
    <3>1. Write(p, e) /\ e \in Entries /\ e \in Pieces /\ fd[p] # NoFile /\ name = fd[p]
          /\ pc[p] = "entry"
      BY <2>0, <2>4, <2>7, PieceFacts DEF WriteEntry, At, Knows, ProcOK
    <3>2. d[Len(d)] = Newline
      <4>1. d \in Seq(Pieces) /\ fd[p] \in Inodes
        BY <2>0, <3>1 DEF LocalOK, FilesOK
      <4>2. Alternates(d) /\ Whole(d)
        BY <2>2, <2>4, <3>1, <4>1 DEF SerialInv, Knows
      <4>3. Len(d) \in DOMAIN d
        <5>. HIDE DEF d
        <5>. QED BY <4>1, <4>2 DEF Whole
      <4>. HIDE DEF d
      <4>. QED BY <4>2, <4>3 DEF Alternates, Whole
    <3>3. /\ Content(name)' = Append(Content(name), e) /\ Content(name) \in Seq(Pieces)
          /\ \A s \in Seconds : Content(archives[s])' = Content(archives[s])
      <4>. HIDE DEF e
      <4>. QED BY <3>1, <3>2, LogWrite
    <3>4. Log!Store
      <4>. DEFINE a == Content(name)
      <4>1. ASSUME NEW b \in Seq(Pieces)
            PROVE  /\ Len(Append(b, e)) = Len(b) + 1 /\ SubSeq(Append(b, e), 1, Len(b)) = b
                   /\ Append(b, e)[Len(Append(b, e))] = e
        OBVIOUS
      <4>. HIDE DEF e
      <4>. QED BY <3>1, <3>3, <4>1 DEF Log!Store
    <3>. QED BY <3>4 DEF Log!Next
  <2>8. CASE Rename(p)
    <3>1. Content(name) # <<>> /\ name # NoFile
      BY <2>4, <2>8 DEF Rename, At, Knows, Content
    <3>2. archives' = [archives EXCEPT ![second] = name] /\ name' = NoFile /\ data' = data
      BY <2>8, <3>1 DEF Rename
    <3>3. Content(name)' = <<>>
      BY <3>2 DEF Content
    <3>4. \A s \in Seconds : Content(archives[s])' =
            IF s = second THEN Content(name) ELSE Content(archives[s])
      BY <2>0, <3>2 DEF Content, FilesOK
    <3>5. Log!Archive
      <4>1. [s \in Seconds |-> Content(archives[s])'] =
              [[s \in Seconds |-> Content(archives[s])] EXCEPT ![second] = Content(name)]
        BY <2>0, <3>4
      <4>. QED BY <2>0, <3>1, <3>3, <4>1 DEF Log!Archive
    <3>. QED BY <3>5 DEF Log!Next
  <2>9. CASE Forget(p)
    <3>1. name' = NoFile /\ archives' = archives /\ data' = data
      BY <2>1, <2>9 DEF Forget, files
    <3>2. Log!Erase
      BY <3>1 DEF Log!Erase, Content
    <3>. QED BY <3>2 DEF Log!Next
  <2>10. CASE ~(Open(p) \/ WriteHeader(p) \/ WriteEntry(p) \/ EndEntry(p) \/ Rename(p) \/ Forget(p))
    BY <2>1, <2>3, <2>10 DEF Operate, BeginStore, BeginAsk, Begin, IsNew, Freshness, CountMessages,
                             ReadHistory, files
  <2>. QED BY <2>5, <2>6, <2>7, <2>8, <2>9, <2>10
<1>3. FileInv /\ SerialInv /\ [Next]_vars => (FileInv /\ SerialInv)'
  BY StepFile, StepSerial
<1>. QED BY InitFile, InitSerial, <1>1, <1>2, <1>3, PTL DEF Spec, KeepsLog

=============================================================================
