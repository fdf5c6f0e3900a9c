---------------------------- MODULE MCHistoryFile ----------------------------
(***************************************************************************)
(* Instances of HistoryFile for TLC; the cfg files say which processes     *)
(* call it and how often.                                                  *)
(***************************************************************************)
EXTENDS HistoryFile
=============================================================================
