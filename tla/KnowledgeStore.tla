--------------------------- MODULE KnowledgeStore ---------------------------
(***************************************************************************)
(* knowledge.jsonl of one JID (memory.rs), which the skill memory_store    *)
(* writes: a key that is there already has the file rewritten, a new one   *)
(* is appended.  One call at a time; each operation of the file system may *)
(* fail, and the process may die between any two.                          *)
(*                                                                         *)
(* An entry is a key and the number of the call that stored it.  The file  *)
(* is its lines, of which the last may lack its newline; a line onto which *)
(* two entries were written is Torn, nobody can read it: no content.       *)
(***************************************************************************)
EXTENDS Integers, Sequences, Lines

CONSTANTS
  Keys,
  MaxCalls,    \* bound: calls of knowledge_store
  MaxForgets,  \* bound: calls of forget
  MaxCuts      \* bound: calls cut off

ASSUME KnowledgeAssumption == MaxCalls \in Nat /\ MaxForgets \in Nat /\ MaxCuts \in Nat

Nothing == 0
Values  == 1..MaxCalls
Entries == [key : Keys, content : Values \cup {Nothing}]
Torn(l) == l.content = Nothing

Stages == {"idle", "load", "create", "append", "text", "newline"}

VARIABLES
  lines,    \* the file's lines; none when there is no file
  ended,    \* whether the last line has its newline
  pc,       \* the next operation of the call in progress
  entry,    \* the entry to be stored
  out,      \* what remains to be written
  calls, forgets, cuts,
  promise,  \* per key, what was last stored with Ok
  hurt      \* keys whose promise a failure may have broken

file  == <<lines, ended>>
call  == <<pc, entry, out>>
ghost == <<promise, hurt>>
counts == <<forgets, cuts>>
vars  == <<file, call, calls, counts, ghost>>

----------------------------------------------------------------------------
\* Names that end in _Bug are faulty variants of the definition that follows.

\* load_knowledge: a last line without newline counts, lines that are no entry do not.
Load(ls) == Select(ls, {i \in DOMAIN ls : ~Torn(ls[i])})

\* knowledge_get: the first entry of the key.
Get(ls, k) ==
  LET es    == Load(ls)
      found == {i \in DOMAIN es : es[i].key = k}
  IN  IF found = {} THEN Nothing ELSE es[CHOOSE i \in found : \A j \in found : i <= j].content

KeysOf(es) == {es[i].key : i \in DOMAIN es}

\* The file with one more text at its end: behind a line that has not ended, neither of
\* the two can be read any more.
WithText(e) ==
  IF ended THEN Append(lines, e) ELSE [lines EXCEPT ![Len(lines)].content = Nothing]

----------------------------------------------------------------------------
\* knowledge_store

Begin(k) ==
  /\ pc = "idle" /\ calls < MaxCalls /\ calls' = calls + 1
  /\ pc' = "load" /\ entry' = [key |-> k, content |-> calls'] /\ out' = <<>>
  /\ UNCHANGED <<file, counts, ghost>>

Replaced_Bug(es) == <<entry>>   \* the other entries are not written back

Replaced(es) == [i \in DOMAIN es |-> IF es[i].key = entry.key THEN entry ELSE es[i]]

ReadAll_Bug ==   \* always appends
  /\ pc = "load" /\ pc' = "append" /\ out' = <<entry>>
  /\ UNCHANGED <<file, entry, calls, counts, ghost>>

ReadAll ==
  /\ pc = "load"
  /\ LET es == Load(lines) IN
     IF entry.key \in KeysOf(es) THEN pc' = "create" /\ out' = Replaced(es)
                                 ELSE pc' = "append" /\ out' = <<entry>>
  /\ UNCHANGED <<file, entry, calls, counts, ghost>>

\* File::create empties the file; the other way to open it changes nothing.
Open ==
  /\ pc \in {"create", "append"} /\ pc' = "text"
  /\ IF pc = "create" THEN lines' = <<>> /\ ended' = TRUE ELSE UNCHANGED file
  /\ UNCHANGED <<entry, out, calls, counts, ghost>>

\* writeln! makes two writes.
WriteText ==
  /\ pc = "text" /\ pc' = "newline"
  /\ lines' = WithText(Head(out)) /\ ended' = FALSE
  /\ UNCHANGED <<entry, out, calls, counts, ghost>>

\* With the last newline the call has succeeded, though its entry may have joined what
\* a call before it left behind.
WriteNewline ==
  /\ pc = "newline" /\ ended' = TRUE /\ out' = Tail(out)
  /\ IF Len(out) > 1 THEN pc' = "text" /\ UNCHANGED ghost
     ELSE /\ pc' = "idle"
          /\ promise' = [promise EXCEPT ![entry.key] = entry.content]
          /\ hurt' = IF Torn(lines[Len(lines)]) THEN hurt \cup {entry.key} ELSE hurt \ {entry.key}
  /\ UNCHANGED <<lines, entry, calls, counts>>

\* The call returns Err, or the process dies: a crash keeps nothing but the file, and
\* neither does a call.
Cut ==
  /\ pc # "idle" /\ pc' = "idle" /\ cuts < MaxCuts /\ cuts' = cuts + 1
  /\ hurt' = IF pc \in {"text", "newline"} THEN hurt \cup {entry.key} \cup KeysOf(out)
                                              ELSE hurt
  /\ UNCHANGED <<file, entry, out, calls, forgets, promise>>

\* forget removes the file.
Forget ==
  /\ pc = "idle" /\ forgets < MaxForgets /\ forgets' = forgets + 1
  /\ lines' = <<>> /\ ended' = TRUE
  /\ promise' = [k \in Keys |-> Nothing] /\ hurt' = {}
  /\ UNCHANGED <<call, calls, cuts>>

Init ==
  /\ lines = <<>> /\ ended = TRUE /\ pc = "idle" /\ out = <<>>
  /\ entry \in {[key |-> k, content |-> Nothing] : k \in Keys}
  /\ calls = 0 /\ forgets = 0 /\ cuts = 0
  /\ promise = [k \in Keys |-> Nothing] /\ hurt = {}

\* The bound is reached.
Rest == pc = "idle" /\ calls = MaxCalls /\ UNCHANGED vars

Next ==
  \/ \E k \in Keys : Begin(k)
  \/ ReadAll \/ Open \/ WriteText \/ WriteNewline \/ Cut \/ Forget \/ Rest

Spec == Init /\ [][Next]_vars

----------------------------------------------------------------------------
\* Properties

\* skills/builtin/memory.rs:25 "storing with the same key replaces the previous value":
\* a key is found with the value that was last stored.  A call that is cut off costs no
\* more than its own key and those it had still to write, and, when a newline is missing,
\* the key that is appended next.  Without such a call nothing is ever lost.
PromiseKept ==
  pc = "idle" => /\ \A k \in Keys \ hurt : Get(lines, k) = promise[k]
                 /\ cuts = 0 => hurt = {}

\* memory.rs:631 "If `key` already exists, the file is rewritten with the updated
\* value": whatever fails, no key has two lines.
OneLinePerKey ==
  \A i, j \in DOMAIN lines :
    (~Torn(lines[i]) /\ ~Torn(lines[j]) /\ lines[i].key = lines[j].key) => i = j
=============================================================================
