---------------------------- MODULE MCAttachments ----------------------------
(***************************************************************************)
(* An instance of Attachments for TLC.                                     *)
(***************************************************************************)
EXTENDS Attachments
=============================================================================
