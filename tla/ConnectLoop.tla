----------------------------- MODULE ConnectLoop -----------------------------
(***************************************************************************)
(* The reconnection loop with its attempts opened up: what Reconnect takes *)
(* as one step, an attempt that succeeds or fails with an error, is here a *)
(* run of Handshake.                                                       *)
(***************************************************************************)
EXTENDS Reconnect, Handshake

all == <<vars, handshake>>

NextAttempt_Bug ==   \* the backoff is made anew for every attempt
  /\ phase = "waiting" /\ phase' = "connecting" /\ backoff' = B!Fresh
  /\ UNCHANGED <<stable, wait, caught, counts>> /\ Retry

\* Calls connect() again after the wait.
NextAttempt == SleepEnds /\ Retry

Attempting == phase = "connecting" /\ Attempt /\ UNCHANGED vars

Connected == step = "done" /\ ConnectOk /\ UNCHANGED handshake

Failed == step = "failed" /\ ConnectFails(err) /\ UNCHANGED handshake

AttemptGoesOn == Attempting \/ Connected \/ Failed

LoopInit == Init /\ HandshakeInit

LoopNext ==
  \/ AttemptGoesOn \/ NextAttempt
  \/ (Settles \/ (\E r \in Reasons : Disconnects(r)) \/ CtrlC \/ Exited) /\ UNCHANGED handshake

LoopSpec == LoopInit /\ [][LoopNext]_all

\* Sleeping ends.  An attempt goes on: most of its reads end after ten seconds; a peer
\* that leaves the TLS handshake or a component's read without an answer for ever is
\* not considered (README).
LoopFairSpec == LoopSpec /\ WF_all(NextAttempt) /\ WF_all(AttemptGoesOn)

----------------------------------------------------------------------------
\* Properties

LoopTypeOK == TypeOK /\ HandshakeTypeOK

\* The promise of the loop, kept when attempts are opened up: every step of an
\* attempt is one of Reconnect or none.
RunsLoop == Spec

\* A server that cannot be reached any more is not tried for ever (main.rs:276),
\* wherever its attempts fail.
StopsAttempting == <>[](phase # "running") => <>(phase = "exited")
=============================================================================
