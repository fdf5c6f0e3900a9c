------------------------------- MODULE Backoff -------------------------------
(***************************************************************************)
(* The exponential backoff of backoff.rs: the delay of the next attempt    *)
(* and the number of attempts since the last reset.  Reconnect and         *)
(* AgenticLoop instantiate it with their own durations, in seconds.        *)
(***************************************************************************)
EXTENDS Integers

CONSTANTS
  InitialDelay,  \* initial_delay
  MaxDelay,      \* max_delay
  Multiplier     \* multiplier

\* What a user of the module assumes of its constants.
BackoffAssumption ==
  /\ InitialDelay \in Nat \ {0} /\ Multiplier \in Nat \ {0}
  /\ MaxDelay \in Nat /\ InitialDelay <= MaxDelay

State == [delay : InitialDelay..MaxDelay, attempt : Nat]

Fresh == [delay |-> InitialDelay, attempt |-> 0]

Capped(d) == IF d < MaxDelay THEN d ELSE MaxDelay

\* next_delay: the caller sleeps for b.delay and goes on with Advance(b).
Advance(b) == [delay |-> Capped(b.delay * Multiplier), attempt |-> b.attempt + 1]

Exceeded(b, max) == b.attempt >= max

\* The reference: the delay after n attempts, InitialDelay times Multiplier^n, capped.
DelayAfter[n \in Nat] ==
  IF n = 0 THEN InitialDelay ELSE Capped(DelayAfter[n - 1] * Multiplier)
=============================================================================
