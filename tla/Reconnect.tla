------------------------------ MODULE Reconnect ------------------------------
(***************************************************************************)
(* The reconnection loop of main.rs: connect, run the agent until the      *)
(* connection is lost, wait, connect again.  What a connection attempt     *)
(* yields and why a connection ends is up to the server; the loop decides  *)
(* whether to come back, after which delay, and when to give up.  The      *)
(* operator may press Ctrl-C at any moment.                                *)
(***************************************************************************)
EXTENDS Integers

CONSTANTS
  InitialDelay, MaxDelay, Multiplier,  \* of the backoff
  MaxReconnectAttempts,                \* MAX_RECONNECT_ATTEMPTS
  MaxCount                             \* bound: attempts and failures counted

B == INSTANCE Backoff

ASSUME ReconnectAssumption ==
  /\ MaxReconnectAttempts \in Nat /\ MaxCount \in Nat /\ MaxReconnectAttempts < MaxCount
  /\ B!BackoffAssumption

Phases == {"connecting", "running", "waiting", "exited"}

\* XmppError, and the DisconnectReason of a connection that was up.
ConnectErrors == {"auth", "config", "transient"}
Reasons       == {"lost", "conflict", "streamError"}

VARIABLES
  phase,
  backoff,
  stable,     \* whether the connection has been up for STABILITY_THRESHOLD
  wait,       \* the delay slept in "waiting"
  caught,     \* whether Ctrl-C has been taken over from the system
  ended,      \* how the last attempt or connection ended
  short,      \* ends since the last stable connection, up to MaxCount
  failures    \* failed attempts since the last connection, up to MaxCount

counts == <<ended, short, failures>>
vars   == <<phase, backoff, stable, wait, caught, counts>>

----------------------------------------------------------------------------

Count(n) == IF n < MaxCount THEN n + 1 ELSE n

\* An unbounded counter in the code; the loop never looks beyond MaxReconnectAttempts.
Bounded(b) == [b EXCEPT !.attempt = IF @ > MaxCount THEN MaxCount ELSE @]

\* The wait at the end of the loop's body, after the backoff was left at b.
WaitAfter(b) ==
  /\ phase' = "waiting" /\ wait' = b.delay /\ backoff' = Bounded(B!Advance(b))

ConnectOk ==
  /\ phase = "connecting" /\ phase' = "running"
  /\ stable' = FALSE /\ caught' = TRUE /\ failures' = 0
  /\ UNCHANGED <<backoff, wait, ended, short>>

Exit(why) == phase' = "exited" /\ ended' = why /\ UNCHANGED <<backoff, stable, wait, caught>>

ConnectFails_Bug(e) ==   \* every error is worth a retry
  /\ phase = "connecting"
  /\ ended' = e /\ failures' = Count(failures) /\ short' = Count(short)
  /\ ~B!Exceeded(backoff, MaxReconnectAttempts)
  /\ WaitAfter(backoff) /\ caught' = TRUE /\ UNCHANGED stable

ConnectFails_EndlessBug(e) ==   \* never gives up
  /\ phase = "connecting"
  /\ failures' = Count(failures) /\ short' = Count(short)
  /\ IF e # "transient" THEN Exit(e)
     ELSE ended' = e /\ WaitAfter(backoff) /\ caught' = TRUE /\ UNCHANGED stable

ConnectFails(e) ==
  /\ phase = "connecting"
  /\ failures' = Count(failures) /\ short' = Count(short)
  /\ IF e # "transient" THEN Exit(e)
     ELSE IF B!Exceeded(backoff, MaxReconnectAttempts) THEN Exit("gaveUp")
     ELSE ended' = e /\ WaitAfter(backoff) /\ caught' = TRUE /\ UNCHANGED stable

\* The connection has lasted long enough.
Settles ==
  /\ phase = "running" /\ ~stable /\ stable' = TRUE
  /\ UNCHANGED <<phase, backoff, wait, caught, counts>>

Disconnects_Bug(r) ==   \* the delay is reset, the attempts are not
  /\ phase = "running" /\ failures' = 0
  /\ short' = IF stable THEN 1 ELSE Count(short)
  /\ IF r = "conflict" THEN Exit(r)
     ELSE /\ ended' = r /\ UNCHANGED <<stable, caught>>
          /\ WaitAfter(IF stable THEN [backoff EXCEPT !.delay = InitialDelay] ELSE backoff)

Disconnects_ForgetsBug(r) ==   \* a stable connection does not reset the backoff
  /\ phase = "running" /\ failures' = 0
  /\ short' = IF stable THEN 1 ELSE Count(short)
  /\ IF r = "conflict" THEN Exit(r)
     ELSE ended' = r /\ UNCHANGED <<stable, caught>> /\ WaitAfter(backoff)

Disconnects(r) ==
  /\ phase = "running" /\ failures' = 0
  /\ short' = IF stable THEN 1 ELSE Count(short)
  /\ IF r = "conflict" THEN Exit(r)
     ELSE /\ ended' = r /\ UNCHANGED <<stable, caught>>
          /\ WaitAfter(IF stable THEN B!Fresh ELSE backoff)

SleepEnds ==
  /\ phase = "waiting" /\ phase' = "connecting"
  /\ UNCHANGED <<backoff, stable, wait, caught, counts>>

\* While it runs or waits, the loop listens.  During connect nothing does: the
\* first time the system still ends the process, later the signal is lost.
CtrlC ==
  /\ phase # "exited"
  /\ \/ phase \in {"running", "waiting"} \/ ~caught
  /\ Exit("signal") /\ UNCHANGED <<short, failures>>

Loop ==
  \/ ConnectOk \/ Settles \/ SleepEnds
  \/ \E e \in ConnectErrors : ConnectFails(e)
  \/ \E r \in Reasons : Disconnects(r)

Exited == phase = "exited" /\ UNCHANGED vars

Init ==
  /\ phase = "connecting" /\ backoff = B!Fresh /\ stable = FALSE /\ wait = 0
  /\ caught = FALSE /\ ended = "none" /\ short = 0 /\ failures = 0

Next == Loop \/ CtrlC \/ Exited

Spec == Init /\ [][Next]_vars

----------------------------------------------------------------------------
\* Properties

TypeOK ==
  /\ phase \in Phases /\ backoff \in B!State /\ backoff.attempt <= MaxCount
  /\ stable \in BOOLEAN /\ caught \in BOOLEAN /\ wait \in 0..MaxDelay
  /\ ended \in ConnectErrors \cup Reasons \cup {"none", "gaveUp", "signal"}
  /\ short \in 0..MaxCount /\ failures \in 0..MaxCount

\* A permanent error, a conflict (the other client would be thrown out in turn), a
\* signal: none of them is followed by another attempt (main.rs:234, :271, :290).
Final == {"auth", "config", "conflict", "signal", "gaveUp"}

NoReturn == ended \in Final => phase = "exited"

\* The bound on the count is out of the way: where the model stops counting, the delays
\* have stopped growing.
CountedFarEnough == B!DelayAfter[MaxCount] = B!DelayAfter[MaxCount - 1]

\* backoff.rs:3 "doubles after each failure, capped at max_delay ... reset() (used
\* after a stable connection)": the wait before an attempt is the one due for the
\* attempts and connections that ended since the last stable connection.
WaitIsDue == phase = "waiting" => wait = B!DelayAfter[short - 1]

\* The process gives up only after more than MaxReconnectAttempts ends without a
\* stable connection in between, of which the last one is a failed attempt.
GivesUpLate == ended = "gaveUp" => short > MaxReconnectAttempts /\ failures > 0
=============================================================================
