------------------------------ MODULE SessionLog ------------------------------
(***************************************************************************)
(* What the memory of one JID promises: a session that grows at its end,   *)
(* is archived as a whole under the name of a second, or is erased.        *)
(* AgentRuntime uses it this way; HistoryFile shows how far the file       *)
(* operations of memory.rs keep it.                                        *)
(***************************************************************************)
EXTENDS Integers, Sequences

CONSTANTS
  Entries,  \* what may be stored
  Seconds   \* the names of the archives

VARIABLES
  active,   \* the entries of the current session
  archived  \* per second, the session archived in it

vars == <<active, archived>>

Init ==
  /\ active = <<>>
  /\ archived = [s \in Seconds |-> <<>>]

Store ==
  /\ Len(active') = Len(active) + 1
  /\ SubSeq(active', 1, Len(active)) = active
  /\ active'[Len(active')] \in Entries
  /\ UNCHANGED archived

Archive ==
  /\ active # <<>>
  /\ active' = <<>>
  /\ \E s \in Seconds : archived' = [archived EXCEPT ![s] = active]

Erase == active' = <<>> /\ UNCHANGED archived

Next == Store \/ Archive \/ Erase

Spec == Init /\ [][Next]_vars
=============================================================================
