--------------------------- MODULE MCStanzaParser ---------------------------
(***************************************************************************)
(* An instance of StanzaParser for TLC: streams as the agent reads them,   *)
(* behind a header that the handshake has taken, or with it.               *)
(***************************************************************************)
EXTENDS StanzaParser
=============================================================================
