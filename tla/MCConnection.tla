---------------------------- MODULE MCConnection ----------------------------
(***************************************************************************)
(* An instance of Connection for TLC: channels so small that they fill.    *)
(***************************************************************************)
EXTENDS Connection

\* Two channels of 100 places behave as these do once they are full.
SmallEventChannel   == 2
SmallCommandChannel == 1
=============================================================================
