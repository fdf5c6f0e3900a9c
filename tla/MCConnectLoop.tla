---------------------------- MODULE MCConnectLoop ----------------------------
(***************************************************************************)
(* ConnectLoop with the durations (in seconds) and the limit of main.rs,   *)
(* two JIDs, one of them not all ASCII, with the wildcard between them,    *)
(* and a stranger in the roster.                                           *)
(***************************************************************************)
EXTENDS ConnectLoop

FirstDelay     == 2
LongestDelay   == 60
DelayFactor    == 2
AttemptLimit   == 20

AllowedJids == <<"alice", "*", "bob">>
AnyJid      == "*"
Others      == {"carol"}
NonAscii    == {"bob"}
\* The longest delay is reached before the count stops.
ASSUME DelaysCounted == CountedFarEnough
=============================================================================
