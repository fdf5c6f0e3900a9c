--------------------------- MODULE MCAgentRuntime ---------------------------
(***************************************************************************)
(* Instances of AgentRuntime for TLC: which events a run delivers.         *)
(***************************************************************************)
EXTENDS AgentRuntime, TLC

CONSTANTS alice, mallory, lounge, lobby

\* One user writes from another server.
Domains == [j \in Jids |-> IF j = mallory THEN "elsewhere" ELSE "home"]

Chat(j, whats) == [muc : {FALSE}, from : {j}, addressed : {TRUE}, self : {FALSE}, what : whats]
Room(j, whats) == [muc : {TRUE}, from : {j}, addressed : {TRUE}, self : {FALSE}, what : whats]

\* A user and a room with everything but files, a user and a room that must be
\* turned away, and the agent's own echo.
SerialInputs ==
  Chat(alice, {"text", "reaction", "new", "forget", "info"})
    \cup Room(lounge, {"text", "new", "forget"})
    \cup Chat(mallory, {"text", "reaction", "subscribe", "info"})
    \cup Room(lobby, {"text", "info"})
    \cup {ev \in RoomEvents : ev.from = lounge /\ ev.self /\ ev.what = "text"}

\* A user whose files are handled by tasks beside the loop.
TaskInputs == Chat(alice, {"text", "file", "reaction", "new", "forget"})

\* The same, and a room, with what the agent only takes note of.
FreshInputs ==
  TaskInputs \cup Chat(alice, {"subscribe", "info"}) \cup Room(lounge, {"text"})
    \cup {ev \in RoomEvents : ev.from = lounge /\ ~ev.addressed /\ ~ev.self /\ ev.what = "text"}

RoomInputs == Room(lounge, {"text"})

TaskSymmetry == Permutations(Tasks)
=============================================================================
