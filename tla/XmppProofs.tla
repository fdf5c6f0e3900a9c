----------------------------- MODULE XmppProofs -----------------------------
(***************************************************************************)
(* Theorems about the XMPP side.  Of the reconnection loop, for every      *)
(* backoff and every number of attempts; of the loop with its attempts     *)
(* opened up, for every list of JIDs and every roster; and of the stanza   *)
(* parser, for every stream of events.                                     *)
(***************************************************************************)
EXTENDS ConnectLoop, StanzaParser, Inductions

LEMMA Constants ==
  /\ MaxReconnectAttempts \in Nat /\ MaxCount \in Nat /\ MaxReconnectAttempts < MaxCount
  /\ InitialDelay \in Nat \ {0} /\ Multiplier \in Nat \ {0}
  /\ MaxDelay \in Nat /\ InitialDelay <= MaxDelay
BY ReconnectAssumption DEF B!BackoffAssumption

\* What the loop adds to the backoff stays within the delays of the backoff.
LEMMA AdvanceInState ==
  ASSUME NEW b \in B!State
  PROVE  B!Advance(b) \in B!State /\ B!Advance(b).attempt = b.attempt + 1
<1> USE Constants DEF B!State
<1>1. b.delay \in InitialDelay..MaxDelay /\ b.attempt \in Nat
  OBVIOUS
<1>2. b.delay * Multiplier \in Nat /\ b.delay * Multiplier >= b.delay
  <2>1. ASSUME NEW d \in Nat, NEW m \in Nat \ {0} PROVE d * m \in Nat /\ d * m >= d
    BY SMT
  <2> QED BY <1>1, <2>1
<1>3. B!Capped(b.delay * Multiplier) \in InitialDelay..MaxDelay
  BY <1>1, <1>2 DEF B!Capped
<1> QED BY <1>1, <1>3 DEF B!Advance

LEMMA FreshInState == B!Fresh \in B!State /\ B!Fresh.attempt = 0
BY Constants DEF B!State, B!Fresh

LEMMA ResetInState ==
  ASSUME NEW b \in B!State
  PROVE  b.delay \in 0..MaxDelay /\ b.attempt \in Nat
BY Constants DEF B!State

LEMMA BoundedInState ==
  ASSUME NEW b \in B!State
  PROVE  /\ Bounded(b) \in B!State /\ Bounded(b).attempt <= MaxCount
         /\ Bounded(b).attempt = (IF b.attempt > MaxCount THEN MaxCount ELSE b.attempt)
BY Constants DEF B!State, Bounded

LEMMA CountInRange ==
  ASSUME NEW n \in 0..MaxCount
  PROVE  Count(n) \in 1..MaxCount /\ Count(n) = (IF n < MaxCount THEN n + 1 ELSE n)
BY Constants DEF Count

----------------------------------------------------------------------------
\* The attempts of the backoff count the ends since the last stable connection.
InStep == phase # "exited" => backoff.attempt = short

ReconnectInv == TypeOK /\ InStep /\ NoReturn /\ GivesUpLate

\* Leaving the backoff at b, which has seen n ends, and waiting keeps them in step.
LEMMA WaitKeepsStep ==
  ASSUME NEW b \in B!State, NEW n \in 0..MaxCount, b.attempt = n, WaitAfter(b)
  PROVE  /\ backoff' \in B!State /\ backoff'.attempt <= MaxCount /\ wait' \in 0..MaxDelay
         /\ backoff'.attempt = Count(n) /\ phase' = "waiting"
<1>1. B!Advance(b) \in B!State /\ B!Advance(b).attempt = n + 1
  BY AdvanceInState
<1>2. backoff' = Bounded(B!Advance(b)) /\ wait' = b.delay /\ phase' = "waiting"
  BY DEF WaitAfter
<1>3. wait' \in 0..MaxDelay
  BY <1>2, ResetInState
<1>4. /\ backoff' \in B!State /\ backoff'.attempt <= MaxCount
      /\ backoff'.attempt = (IF n + 1 > MaxCount THEN MaxCount ELSE n + 1)
  BY <1>1, <1>2, BoundedInState
<1> QED BY <1>2, <1>3, <1>4, CountInRange, Constants

LEMMA InitKeeps == Init => ReconnectInv
<1> SUFFICES ASSUME Init PROVE ReconnectInv
  OBVIOUS
<1>1. backoff \in B!State /\ backoff.attempt = 0
  BY FreshInState DEF Init
<1>2. 0 \in 0..MaxCount /\ 0 \in 0..MaxDelay /\ 0 <= MaxCount
  BY Constants
<1> QED
  BY <1>1, <1>2
  DEF Init, ReconnectInv, TypeOK, InStep, NoReturn, GivesUpLate, Phases, ConnectErrors,
      Reasons, Final

LEMMA StepKeeps == ReconnectInv /\ [Next]_vars => ReconnectInv'
<1> SUFFICES ASSUME ReconnectInv, [Next]_vars PROVE ReconnectInv'
  OBVIOUS
<1> USE Constants
    DEF ReconnectInv, TypeOK, InStep, NoReturn, GivesUpLate, Phases, ConnectErrors,
        Reasons, Final
<1>c. Count(short) \in 1..MaxCount /\ Count(failures) \in 1..MaxCount
  BY CountInRange
<1>1. CASE ConnectOk
  <2>1. /\ phase' = "running" /\ stable' = FALSE /\ caught' = TRUE /\ failures' = 0
        /\ UNCHANGED <<backoff, wait, ended, short>>
    BY <1>1 DEF ConnectOk
  <2>0. 0 \in 0..MaxCount
    OBVIOUS
  <2>2. TypeOK'
    BY <2>0, <2>1
  <2>3. InStep' /\ NoReturn' /\ GivesUpLate'
    BY <1>1, <2>1 DEF ConnectOk
  <2> QED BY <2>2, <2>3
<1>2. ASSUME NEW e \in ConnectErrors, ConnectFails(e) PROVE ReconnectInv'
  <2>1. phase = "connecting" /\ short' = Count(short) /\ failures' = Count(failures)
    BY <1>2 DEF ConnectFails
  <2>2. CASE e # "transient"
    <3>1. Exit(e)
      BY <1>2, <2>2 DEF ConnectFails
    <3> QED BY <1>c, <2>1, <2>2, <3>1 DEF Exit
  <2>3. CASE e = "transient" /\ B!Exceeded(backoff, MaxReconnectAttempts)
    <3>1. Exit("gaveUp")
      BY <1>2, <2>3 DEF ConnectFails
    <3>2. short >= MaxReconnectAttempts
      BY <2>1, <2>3 DEF B!Exceeded
    <3>3. Count(short) > MaxReconnectAttempts
      BY <3>2, CountInRange
    <3> QED BY <1>c, <2>1, <3>1, <3>3 DEF Exit
  <2>4. CASE e = "transient" /\ ~B!Exceeded(backoff, MaxReconnectAttempts)
    <3>1. ended' = e /\ WaitAfter(backoff) /\ caught' = TRUE /\ UNCHANGED stable
      BY <1>2, <2>4 DEF ConnectFails
    <3>2. backoff \in B!State /\ short \in 0..MaxCount /\ backoff.attempt = short
      BY <2>1
    <3>3. /\ backoff' \in B!State /\ backoff'.attempt <= MaxCount /\ wait' \in 0..MaxDelay
          /\ backoff'.attempt = Count(short) /\ phase' = "waiting"
      BY <3>1, <3>2, WaitKeepsStep
    <3> QED BY <1>c, <2>1, <2>4, <3>1, <3>3
  <2> QED BY <2>2, <2>3, <2>4
<1>3. CASE Settles
  BY <1>3 DEF Settles, counts
<1>4. ASSUME NEW r \in Reasons, Disconnects(r) PROVE ReconnectInv'
  <2>1. phase = "running" /\ failures' = 0 /\ short' = IF stable THEN 1 ELSE Count(short)
    BY <1>4 DEF Disconnects
  <2>2. CASE r = "conflict"
    <3>1. Exit(r)
      BY <1>4, <2>2 DEF Disconnects
    <3> QED BY <1>c, <2>1, <2>2, <3>1 DEF Exit
  <2>3. CASE r # "conflict"
    <3> DEFINE b == IF stable THEN B!Fresh ELSE backoff
               n == IF stable THEN 0 ELSE short
    <3>1. ended' = r /\ UNCHANGED <<stable, caught>> /\ WaitAfter(b)
      BY <1>4, <2>3 DEF Disconnects
    <3>2. b \in B!State /\ n \in 0..MaxCount /\ b.attempt = n
      BY <2>1, FreshInState
    <3>3. short' = Count(n)
      BY <2>1 DEF Count
    <3> HIDE DEF b, n
    <3>4. /\ backoff' \in B!State /\ backoff'.attempt <= MaxCount /\ wait' \in 0..MaxDelay
          /\ backoff'.attempt = Count(n) /\ phase' = "waiting"
      BY <3>1, <3>2, WaitKeepsStep
    <3>5. Count(n) \in 1..MaxCount
      BY <3>2, CountInRange
    <3> QED BY <2>1, <2>3, <3>1, <3>3, <3>4, <3>5
  <2> QED BY <2>2, <2>3
<1>5. CASE SleepEnds
  BY <1>5 DEF SleepEnds, counts
<1>6. CASE CtrlC
  BY <1>6 DEF CtrlC, Exit
<1>7. CASE UNCHANGED vars
  BY <1>7 DEF vars, counts
<1> QED BY <1>1, <1>2, <1>3, <1>4, <1>5, <1>6, <1>7 DEF Next, Loop, Exited

LEMMA Invariance == Spec => []ReconnectInv
BY InitKeeps, StepKeeps, PTL DEF Spec

\* After a permanent error, a conflict or a signal the program makes no further
\* attempt to connect, whatever the server and the operator do.
THEOREM NeverReturns == Spec => []NoReturn
<1>1. ReconnectInv => NoReturn
  BY DEF ReconnectInv
<1> QED BY <1>1, Invariance, PTL

\* The program gives up only on a failed attempt, and after more attempts and
\* connections than MaxReconnectAttempts that came to nothing.
THEOREM GivesUpLateHolds == Spec => []GivesUpLate
<1>1. ReconnectInv => GivesUpLate
  BY DEF ReconnectInv
<1> QED BY <1>1, Invariance, PTL

\* Delays stay within the bounds of the backoff, with the other types.
THEOREM ReconnectTypes == Spec => []TypeOK
<1>1. ReconnectInv => TypeOK
  BY DEF ReconnectInv
<1> QED BY <1>1, Invariance, PTL

----------------------------------------------------------------------------
\* The delays

\* What next_delay makes of the delay before.
NextDelay == [z \in Nat \X Nat |-> B!Capped(z[2] * Multiplier)]

LEMMA DelayUnfolds ==
  /\ B!DelayAfter[0] = InitialDelay
  /\ \A n \in Nat : B!DelayAfter[n + 1] = B!Capped(B!DelayAfter[n] * Multiplier)
<1>1. InitialDelay \in Nat /\ NextDelay \in [Nat \X Nat -> Nat]
  <2>1. ASSUME NEW n \in Nat PROVE B!Capped(n * Multiplier) \in Nat
    <3>1. ASSUME NEW m \in Nat PROVE n * m \in Nat
      BY SMT
    <3>. QED BY <3>1, Constants DEF B!Capped
  <2>. QED BY <2>1, Constants DEF NextDelay
<1>2. \E g : Iterates(g, Nat, InitialDelay, NextDelay)
  BY <1>1, Recursion
<1>3. PICK g \in [Nat -> Nat] :
        g[0] = InitialDelay /\ \A n \in Nat : g[n + 1] = NextDelay[<<n, g[n]>>]
  BY <1>2 DEF Iterates
<1>4. \A n \in Nat : g[n + 1] = B!Capped(g[n] * Multiplier)
  BY <1>3 DEF NextDelay
<1> DEFINE Fun(f) ==
             f = [n \in Nat |->
                   IF n = 0 THEN InitialDelay ELSE B!Capped(f[n - 1] * Multiplier)]
<1>5. Fun(g)
  <2>1. ASSUME NEW n \in Nat
        PROVE  g[n] = IF n = 0 THEN InitialDelay ELSE B!Capped(g[n - 1] * Multiplier)
    <3>1. CASE n # 0
      <4>1. n - 1 \in Nat /\ (n - 1) + 1 = n
        BY <3>1
      <4>2. g[(n - 1) + 1] = B!Capped(g[n - 1] * Multiplier)
        BY <1>4, <4>1
      <4>. QED BY <3>1, <4>1, <4>2
    <3>. QED BY <1>3, <3>1
  <2>. QED BY <2>1
<1>6. B!DelayAfter = CHOOSE f : Fun(f)
  BY DEF B!DelayAfter
<1>7. Fun(B!DelayAfter)
  <2>. HIDE DEF Fun
  <2>. QED BY <1>5, <1>6
<1>8. B!DelayAfter[0] = InitialDelay
  BY <1>7
<1>9. ASSUME NEW n \in Nat PROVE B!DelayAfter[n + 1] = B!Capped(B!DelayAfter[n] * Multiplier)
  <2>1. n + 1 \in Nat /\ n + 1 # 0 /\ (n + 1) - 1 = n
    OBVIOUS
  <2>. QED BY <1>7, <2>1
<1>. QED BY <1>8, <1>9

\* The backoff is at the delay that is due after the ends counted.
Due == phase # "exited" => backoff.delay = B!DelayAfter[short]

DelayInv == ReconnectInv /\ Due /\ WaitIsDue

LEMMA WaitKeepsDue ==
  ASSUME CountedFarEnough, NEW b \in B!State, NEW n \in 0..MaxCount, b.delay = B!DelayAfter[n],
        WaitAfter(b)
  PROVE  backoff'.delay = B!DelayAfter[Count(n)] /\ wait' = B!DelayAfter[Count(n) - 1]
<1>1. n \in Nat /\ MaxCount \in Nat /\ MaxCount > 0
  BY Constants
<1>2. backoff'.delay = B!Capped(b.delay * Multiplier) /\ wait' = b.delay
  BY DEF WaitAfter, Bounded, B!Advance
<1>3. backoff'.delay = B!DelayAfter[n + 1]
  BY <1>1, <1>2, DelayUnfolds
<1>4. CASE n < MaxCount
  BY <1>1, <1>2, <1>3, <1>4 DEF Count
<1>5. CASE n = MaxCount
  <2>1. Count(n) = MaxCount /\ MaxCount - 1 \in Nat /\ (MaxCount - 1) + 1 = MaxCount
    BY <1>1, <1>5 DEF Count
  <2>2. B!DelayAfter[(MaxCount - 1) + 1] = B!Capped(B!DelayAfter[MaxCount - 1] * Multiplier)
    BY <2>1, DelayUnfolds
  <2>3. B!DelayAfter[MaxCount + 1] = B!Capped(B!DelayAfter[MaxCount] * Multiplier)
    BY <1>1, DelayUnfolds
  <2>4. B!DelayAfter[MaxCount + 1] = B!DelayAfter[MaxCount]
    BY <2>1, <2>2, <2>3 DEF CountedFarEnough
  <2>. QED BY <1>2, <1>3, <1>5, <2>1, <2>4 DEF CountedFarEnough
<1>. QED BY <1>1, <1>4, <1>5

LEMMA StepDelays == CountedFarEnough /\ DelayInv /\ [Next]_vars => DelayInv'
<1>. SUFFICES ASSUME CountedFarEnough, DelayInv, [Next]_vars PROVE DelayInv'
  OBVIOUS
<1>1. ReconnectInv' /\ ReconnectInv /\ TypeOK /\ Due /\ WaitIsDue
  BY StepKeeps DEF DelayInv, ReconnectInv
<1>. SUFFICES Due' /\ WaitIsDue'
  BY <1>1 DEF DelayInv
<1>2. CASE ConnectOk \/ Settles \/ SleepEnds \/ CtrlC \/ UNCHANGED vars
  BY <1>1, <1>2 DEF ConnectOk, Settles, SleepEnds, CtrlC, Exit, vars, counts, Due, WaitIsDue
<1>3. ASSUME phase' = "exited" PROVE Due' /\ WaitIsDue'
  BY <1>3 DEF Due, WaitIsDue
<1>4. ASSUME NEW b \in B!State, NEW n \in 0..MaxCount, b.delay = B!DelayAfter[n], WaitAfter(b),
             short' = Count(n)
      PROVE  Due' /\ WaitIsDue'
  BY <1>4, WaitKeepsDue DEF Due, WaitIsDue
<1>5. ASSUME NEW e \in ConnectErrors, ConnectFails(e) PROVE Due' /\ WaitIsDue'
  <2>1. phase' = "exited" \/ (WaitAfter(backoff) /\ short' = Count(short) /\ phase = "connecting")
    BY <1>5 DEF ConnectFails, Exit
  <2>. QED BY <1>1, <1>3, <1>4, <2>1 DEF TypeOK, Due
<1>6. ASSUME NEW r \in Reasons, Disconnects(r) PROVE Due' /\ WaitIsDue'
  <2>1. CASE r = "conflict"
    BY <1>3, <1>6, <2>1 DEF Disconnects, Exit
  <2>2. CASE r # "conflict"
    <3> DEFINE b == IF stable THEN B!Fresh ELSE backoff
               n == IF stable THEN 0 ELSE short
    <3>1. WaitAfter(b) /\ short' = Count(n)
      BY <1>6, <2>2, Constants DEF Disconnects, Count
    <3>2. b \in B!State /\ n \in 0..MaxCount
      BY <1>1, FreshInState, Constants DEF TypeOK
    <3>3. b.delay = B!DelayAfter[n]
      BY <1>1, <1>6, DelayUnfolds DEF Disconnects, Due, B!Fresh
    <3>. HIDE DEF b, n
    <3>. QED BY <1>4, <3>1, <3>2, <3>3
  <2>. QED BY <2>1, <2>2
<1>. QED BY <1>2, <1>5, <1>6 DEF Next, Loop, Exited

\* backoff.rs:3: every wait is the one due after the attempts and connections that came to
\* nothing since the last stable connection, when the bound on the count lies behind the
\* last delay that differs.
THEOREM WaitIsDueHolds == CountedFarEnough => (Spec => []WaitIsDue)
<1>. SUFFICES ASSUME CountedFarEnough PROVE Spec => []WaitIsDue
  OBVIOUS
<1>1. Init => DelayInv
  BY InitKeeps, DelayUnfolds DEF Init, DelayInv, Due, WaitIsDue, B!Fresh
<1>2. DelayInv /\ [Next]_vars => DelayInv'
  BY StepDelays
<1>3. DelayInv => WaitIsDue
  BY DEF DelayInv
<1>. QED BY <1>1, <1>2, <1>3, PTL DEF Spec

----------------------------------------------------------------------------
\* The attempts

\* The places of the list, and the JIDs in it.
LEMMA ListFacts ==
  /\ Len(Allowed) \in Nat /\ DOMAIN Allowed = 1..Len(Allowed)
  /\ \A i \in 1..Len(Allowed) : Allowed[i] # Wildcard => Allowed[i] \in Jids
  /\ \A j \in Jids : \E i \in 1..Len(Allowed) : Allowed[i] = j
  /\ \A i, k \in 1..Len(Allowed) : Allowed[i] = Allowed[k] => i = k
  /\ MaxAsked \in Nat /\ MaxAsked >= 2
BY HandshakeAssumption DEF Jids

----------------------------------------------------------------------------
\* The steps of an attempt by what they change.

Moves ==
  \E to \in Steps \ {"tcp", "presence"} :
    /\ GoTo(to) /\ step \notin {"done", "failed"}
    /\ to = "subscribe" => step = "presence"
    /\ to # "done" => step # "subscribe"
    /\ to = "done" => mode = "component" \/ (step = "subscribe" /\ next > Len(Allowed))
    /\ to \in {"streamId", "handshake"} => mode = "component"

Breaks == \E e \in Errors, why \in Causes : Fail(e, why)

\* The step of component.rs is never reached in client mode.
ModeInv == step \in {"streamId", "handshake"} => mode = "component"

LEMMA AttemptCases ==
  ASSUME mode \in Modes, ModeInv, Attempt
  PROVE  Moves \/ Breaks \/ ReadRoster \/ SkipJid \/ Subscribe
<1> USE DEF Modes, Steps, Errors, Causes, Mechanisms
<1>1. CASE Tcp
  BY <1>1 DEF Tcp, Moves
<1>2. CASE Features
  BY <1>2 DEF Features, Moves, Breaks
<1>3. CASE Proceed
  BY <1>3 DEF Proceed, Moves, Breaks
<1>4. CASE Tls
  BY <1>4 DEF Tls, Moves, Breaks
<1>5. CASE ChooseMechanism
  BY <1>5 DEF ChooseMechanism, Moves, Breaks
<1>6. CASE Challenge
  BY <1>6 DEF Challenge, Moves, Breaks
<1>7. CASE Verdict
  BY <1>7 DEF Verdict, Moves, Breaks
<1>8. CASE Reopen
  BY <1>8 DEF Reopen, Moves
<1>9. CASE Bind
  BY <1>9 DEF Bind, Moves, Breaks
<1>10. CASE Presence
  BY <1>10 DEF Presence, Moves
<1>11. CASE Subscribed
  BY <1>11 DEF Subscribed, Moves
<1>12. CASE StreamId
  BY <1>12 DEF StreamId, Moves, Breaks, ModeInv
<1>13. CASE ComponentHandshake
  BY <1>13 DEF ComponentHandshake, Moves, Breaks, ModeInv
<1>14. CASE NetworkError
  BY <1>14 DEF NetworkError, Breaks
<1> QED
  BY <1>1, <1>2, <1>3, <1>4, <1>5, <1>6, <1>7, <1>8, <1>9, <1>10, <1>11, <1>12, <1>13, <1>14
  DEF Attempt

----------------------------------------------------------------------------
\* The roster and the requests

\* Whoever was asked is in the server's roster.
Recorded == \A j \in Jids : asked[j] > 0 => j \in roster

\* Behind the reading of the roster, what is in it was read, has been asked since, or is
\* one of those that were not read as they are.
Read ==
  step \in {"presence", "subscribe"} => roster \subseteq known \cup sent \cup misread

\* The JIDs before the present place are dealt with, and nobody behind it was asked.
Place ==
  /\ \A j \in sent : \E i \in 1..(next - 1) : Allowed[i] = j
  /\ step \notin {"subscribe", "done", "failed"} => next = 1
  /\ \A i \in 1..(next - 1) : Allowed[i] = Wildcard \/ Allowed[i] \in known \cup sent

Complete == (mode = "client" /\ step = "done") => next > Len(Allowed)

HandshakeInv ==
  HandshakeTypeOK /\ ModeInv /\ Recorded /\ Read /\ Place /\ Complete /\ AsksOnce

LEMMA HandshakeInitKeeps == HandshakeInit => HandshakeInv
<1> SUFFICES ASSUME HandshakeInit PROVE HandshakeInv
  OBVIOUS
<1>0. 1 \in 1..(Len(Allowed) + 1) /\ 0 \in 0..MaxAsked
  BY ListFacts
<1>1. HandshakeTypeOK
  BY <1>0 DEF HandshakeInit, HandshakeTypeOK, Steps, Errors, Causes
<1>2. ModeInv /\ Recorded /\ Read /\ Complete /\ AsksOnce
  BY DEF HandshakeInit, ModeInv, Recorded, Read, Complete, AsksOnce
<1>3. Place
  BY DEF HandshakeInit, Place
<1> QED BY <1>1, <1>2, <1>3 DEF HandshakeInv

LEMMA RetryKeeps == HandshakeInv /\ Retry => HandshakeInv'
<1> SUFFICES ASSUME HandshakeInv, Retry PROVE HandshakeInv'
  OBVIOUS
<1> USE DEF HandshakeInv, Retry, server
<1>1. HandshakeTypeOK'
  BY ListFacts DEF HandshakeTypeOK, Steps, Errors, Causes
<1>2. ModeInv' /\ Recorded' /\ Read' /\ Complete' /\ AsksOnce'
  BY DEF ModeInv, Recorded, Read, Complete, AsksOnce
<1>3. Place'
  BY DEF Place
<1> QED BY <1>1, <1>2, <1>3

LEMMA AttemptKeeps == HandshakeInv /\ Attempt => HandshakeInv'
<1> SUFFICES ASSUME HandshakeInv, Attempt PROVE HandshakeInv'
  OBVIOUS
<1>1. CASE Moves
  <2>1. PICK to \in Steps \ {"tcp", "presence"} :
          /\ GoTo(to) /\ step \notin {"done", "failed"}
          /\ to = "subscribe" => step = "presence"
          /\ to # "done" => step # "subscribe"
          /\ to = "done" => mode = "component" \/ (step = "subscribe" /\ next > Len(Allowed))
          /\ to \in {"streamId", "handshake"} => mode = "component"
    BY <1>1 DEF Moves
  <2> USE <2>1 DEF HandshakeInv, GoTo, server
  <2>2. HandshakeTypeOK' /\ ModeInv'
    BY DEF HandshakeTypeOK, ModeInv
  <2>3. Recorded' /\ AsksOnce'
    BY DEF Recorded, AsksOnce
  <2>4. Read' /\ Complete'
    BY DEF Read, Complete
  <2>5. Place'
    BY DEF Place
  <2> QED BY <2>2, <2>3, <2>4, <2>5
<1>2. CASE Breaks
  <2>1. PICK e \in Errors, why \in Causes : Fail(e, why)
    BY <1>2 DEF Breaks
  <2> USE <2>1 DEF HandshakeInv, Fail, server
  <2>2. HandshakeTypeOK' /\ ModeInv'
    BY DEF HandshakeTypeOK, ModeInv, Steps
  <2>3. Recorded' /\ AsksOnce' /\ Read' /\ Complete'
    BY DEF Recorded, AsksOnce, Read, Complete
  <2>4. Place'
    BY DEF Place
  <2> QED BY <2>2, <2>3, <2>4
<1>3. CASE ReadRoster
  <2> USE <1>3 DEF HandshakeInv, ReadRoster, server
  <2>1. HandshakeTypeOK' /\ ModeInv'
    BY DEF HandshakeTypeOK, ModeInv, Steps
  <2>2. Recorded' /\ AsksOnce' /\ Read' /\ Complete'
    BY DEF Recorded, AsksOnce, Read, Complete
  <2>3. next = 1
    BY DEF Place
  <2>4. Place'
    BY <2>3 DEF Place
  <2> QED BY <2>1, <2>2, <2>4
<1>4. CASE SkipJid
  <2> USE <1>4 DEF HandshakeInv, SkipJid, server
  <2>1. next \in 1..Len(Allowed) /\ next' = next + 1
    BY ListFacts DEF HandshakeTypeOK
  <2>2. HandshakeTypeOK' /\ ModeInv'
    BY <2>1, ListFacts DEF HandshakeTypeOK, ModeInv
  <2>3. Recorded' /\ AsksOnce' /\ Read' /\ Complete'
    BY DEF Recorded, AsksOnce, Read, Complete
  <2>4. Place'
    BY <2>1 DEF Place, Skips
  <2> QED BY <2>2, <2>3, <2>4
<1>5. CASE Subscribe
  <2> DEFINE j == Allowed[next]
  <2>0. next \in 1..Len(Allowed) /\ next' = next + 1 /\ step = "subscribe" /\ step' = step
    BY <1>5, ListFacts DEF HandshakeInv, HandshakeTypeOK, Subscribe
  <2>1. j \in Jids /\ j # Wildcard /\ j \notin known
    BY <1>5, <2>0, ListFacts DEF Subscribe, Skips
  <2>2. j \notin sent
    BY <2>0, ListFacts DEF HandshakeInv, Place
  <2>3. asked[j] = 0 \/ j \in misread
    BY <2>0, <2>1, <2>2 DEF HandshakeInv, Recorded, Read, HandshakeTypeOK
  <2>4. /\ sent' = sent \cup {j}
        /\ UNCHANGED <<mode, step, err, cause, known, misread>>
        /\ \/ /\ roster' = roster \cup {j}
              /\ asked' = [asked EXCEPT ![j] = IF @ < MaxAsked THEN @ + 1 ELSE @]
           \/ UNCHANGED <<roster, asked>>
    BY <1>5 DEF Subscribe, server
  <2> HIDE DEF j
  <2>5. asked' \in [Jids -> 0..MaxAsked]
    BY <2>1, <2>4, ListFacts DEF HandshakeInv, HandshakeTypeOK
  <2>6. HandshakeTypeOK' /\ ModeInv'
    BY <2>0, <2>1, <2>4, <2>5, ListFacts DEF HandshakeInv, HandshakeTypeOK, ModeInv
  <2>7. Recorded'
    BY <2>1, <2>4 DEF HandshakeInv, HandshakeTypeOK, Recorded
  <2>8. AsksOnce'
    BY <2>1, <2>3, <2>4, ListFacts DEF HandshakeInv, HandshakeTypeOK, AsksOnce
  <2>9. Read' /\ Complete'
    BY <2>0, <2>4 DEF HandshakeInv, Read, Complete
  <2>10. Place'
    <3>1. \A k \in sent' : \E i \in 1..(next' - 1) : Allowed[i] = k
      BY <2>0, <2>4 DEF HandshakeInv, Place, j
    <3>2. \A i \in 1..(next' - 1) : Allowed[i] = Wildcard \/ Allowed[i] \in known' \cup sent'
      BY <2>0, <2>4 DEF HandshakeInv, Place, j
    <3> QED BY <2>0, <3>1, <3>2 DEF Place
  <2> QED BY <2>6, <2>7, <2>8, <2>9, <2>10 DEF HandshakeInv
<1> QED BY <1>1, <1>2, <1>3, <1>4, <1>5, AttemptCases DEF HandshakeInv, HandshakeTypeOK

LEMMA StutterKeeps == HandshakeInv /\ UNCHANGED handshake => HandshakeInv'
<1> SUFFICES ASSUME HandshakeInv, UNCHANGED handshake PROVE HandshakeInv'
  OBVIOUS
<1> USE DEF HandshakeInv, handshake, server
<1>1. HandshakeTypeOK' /\ ModeInv' /\ Recorded' /\ Read' /\ Complete' /\ AsksOnce'
  BY DEF HandshakeTypeOK, ModeInv, Recorded, Read, Complete, AsksOnce
<1>2. Place'
  BY DEF Place
<1> QED BY <1>1, <1>2

LEMMA HandshakeInvariance == LoopSpec => []HandshakeInv
<1>1. LoopInit => HandshakeInv
  BY HandshakeInitKeeps DEF LoopInit
<1>2. HandshakeInv /\ [LoopNext]_all => HandshakeInv'
  BY RetryKeeps, AttemptKeeps, StutterKeeps
  DEF LoopNext, AttemptGoesOn, NextAttempt, Attempting, Connected, Failed, all
<1> QED BY <1>1, <1>2, PTL DEF LoopSpec

----------------------------------------------------------------------------

\* Opened up into the steps of an attempt, the program still behaves as Reconnect says:
\* an attempt is one success or one failure with a class of error, and nothing in it
\* touches the backoff or the decision to go on.
THEOREM RunsLoopHolds == LoopSpec => RunsLoop
<1>1. LoopInit => Init
  BY DEF LoopInit
<1>2. HandshakeInv /\ [LoopNext]_all => [Next]_vars
  <2> SUFFICES ASSUME HandshakeInv, [LoopNext]_all PROVE [Next]_vars
    OBVIOUS
  <2>1. err \in ConnectErrors
    BY DEF HandshakeInv, HandshakeTypeOK, Errors, ConnectErrors
  <2> QED
    BY <2>1
    DEF LoopNext, AttemptGoesOn, NextAttempt, Attempting, Connected, Failed, all, Next, Loop
<1> QED BY <1>1, <1>2, HandshakeInvariance, PTL DEF LoopSpec, RunsLoop, Spec

\* The types of the loop and of its attempts.
THEOREM LoopTypes == LoopSpec => []LoopTypeOK
<1>1. HandshakeInv /\ TypeOK => LoopTypeOK
  BY DEF HandshakeInv, LoopTypeOK
<1> QED BY <1>1, HandshakeInvariance, RunsLoopHolds, ReconnectTypes, PTL DEF RunsLoop

\* Nobody is asked for a subscription twice, however many attempts break off in the
\* middle of asking, but for those whose entry in the roster was not read.
THEOREM AsksOnceHolds == LoopSpec => []AsksOnce
<1>1. HandshakeInv => AsksOnce
  BY DEF HandshakeInv
<1> QED BY <1>1, HandshakeInvariance, PTL

\* An attempt of a client that succeeds has asked everybody who was missing.
THEOREM AllAskedHolds == LoopSpec => []AllAsked
<1>1. HandshakeInv => AllAsked
  <2> SUFFICES ASSUME HandshakeInv, mode = "client", step = "done", NEW j \in Jids
               PROVE  j \in known \cup sent
    BY DEF AllAsked
  <2>1. next > Len(Allowed) /\ next \in 1..(Len(Allowed) + 1)
    BY DEF HandshakeInv, Complete, HandshakeTypeOK
  <2>2. PICK i \in 1..Len(Allowed) : Allowed[i] = j
    BY ListFacts
  <2>3. i \in 1..(next - 1) /\ j # Wildcard
    BY <2>1, <2>2, ListFacts DEF Jids
  <2> QED BY <2>2, <2>3 DEF HandshakeInv, Place
<1> QED BY <1>1, HandshakeInvariance, PTL

\* The final ends of the program stay final when attempts are opened up.
THEOREM NeverReturnsAtAll == LoopSpec => []NoReturn
BY RunsLoopHolds, NeverReturns, PTL DEF RunsLoop

\* Every wait of the whole loop is the one that is due.
THEOREM WaitsAreDue == CountedFarEnough => (LoopSpec => []WaitIsDue)
BY RunsLoopHolds, WaitIsDueHolds, PTL DEF RunsLoop

----------------------------------------------------------------------------
\* The stanza parser.  First the document as it grows, by the places of its events.

\* The names inside stanzas, and of texts.
Inner == {"body", "composing", "reactions", "x", "stream", "reaction", "url", "conflict", ""}

Event == [kind : {"start", "empty", "text", "end"},
          name : Stanza \cup Inner \cup {"stream:stream"}]

\* The document has grown by the event e, at the place m.
Grows(m, e) ==
  fed \in Seq(Event) /\ e \in Event /\ m \in Nat /\ m = Len(fed) + 1 /\ fed' = Append(fed, e)

LEMMA GrownDocument ==
  ASSUME NEW m, NEW e, Grows(m, e)
  PROVE  /\ m \in Nat \ {0} /\ Len(fed) = m - 1 /\ DOMAIN fed = 1..(m - 1)
         /\ fed' \in Seq(Event) /\ Len(fed') = m /\ DOMAIN fed' = 1..m
         /\ fed'[m] = e /\ \A i \in 1..(m - 1) : fed'[i] = fed[i]
BY DEF Grows

\* The starts, or the ends, before a place.  The level of a place is that of the place
\* before it, and one more behind a start, one less behind an end.
Tags(d, i, kind) == {k \in 1..(i - 1) : d[k].kind = kind}

LevelIn(d, i) == Cardinality(Tags(d, i, "start")) - Cardinality(Tags(d, i, "end"))

Step(e) == IF e.kind = "start" THEN 1 ELSE IF e.kind = "end" THEN -1 ELSE 0

LEMMA TagsCounted ==
  ASSUME NEW d, NEW i \in Nat \ {0}, NEW kind
  PROVE  /\ Cardinality(Tags(d, 1, kind)) = 0 /\ Cardinality(Tags(d, i, kind)) \in Nat
         /\ Cardinality(Tags(d, i + 1, kind)) =
              Cardinality(Tags(d, i, kind)) + (IF d[i].kind = kind THEN 1 ELSE 0)
<1> DEFINE T == Tags(d, i, kind)
<1>1. Tags(d, 1, kind) = {}
  BY DEF Tags
<1>2. IsFiniteSet(T)
  <2>1. IsFiniteSet(1..(i - 1))
    BY FS_Interval
  <2>. QED BY <2>1, FS_Subset DEF Tags
<1>3. /\ i \notin T
      /\ d[i].kind = kind => Tags(d, i + 1, kind) = T \cup {i}
      /\ d[i].kind # kind => Tags(d, i + 1, kind) = T
  BY DEF Tags
<1> HIDE DEF T
<1>4. Cardinality(T) \in Nat /\ Cardinality(T \cup {i}) = Cardinality(T) + 1
  BY <1>2, <1>3, FS_CardinalityType, FS_AddElement
<1>5. Cardinality(Tags(d, 1, kind)) = 0
  BY <1>1, FS_EmptySet
<1>6. Cardinality(Tags(d, i + 1, kind)) = Cardinality(T) + (IF d[i].kind = kind THEN 1 ELSE 0)
  BY <1>3, <1>4
<1>. QED BY <1>4, <1>5, <1>6 DEF T

LEMMA LevelType ==
  ASSUME NEW d, NEW i \in Nat \ {0}
  PROVE  LevelIn(d, i) \in Int
<1>1. \A k \in {"start", "end"} : Cardinality(Tags(d, i, k)) \in Nat
  BY TagsCounted
<1>. QED BY <1>1 DEF LevelIn

LEMMA LevelSteps ==
  ASSUME NEW d, NEW i \in Nat \ {0}
  PROVE  LevelIn(d, 1) = 0 /\ LevelIn(d, i + 1) = LevelIn(d, i) + Step(d[i])
<1>1. \A k \in {"start", "end"} :
        /\ Cardinality(Tags(d, 1, k)) = 0 /\ Cardinality(Tags(d, i, k)) \in Nat
        /\ Cardinality(Tags(d, i + 1, k)) =
              Cardinality(Tags(d, i, k)) + (IF d[i].kind = k THEN 1 ELSE 0)
  BY TagsCounted
<1>. QED BY <1>1 DEF LevelIn, Step

\* The level of a place does not change.
LEMMA LevelGrows ==
  ASSUME NEW m, NEW e, Grows(m, e)
  PROVE  /\ \A i \in 1..m : Level(i)' = Level(i) /\ Level(i) \in Int
         /\ Here = Level(m) /\ Here' = Here + Step(e) /\ Level(1) = 0
<1>0. \A i : Level(i) = LevelIn(fed, i) /\ Level(i)' = LevelIn(fed', i)
  BY DEF Level, LevelIn, Tags
<1>1. ASSUME NEW i \in 1..m PROVE Level(i)' = Level(i) /\ Level(i) \in Int
  <2>1. \A k \in 1..(i - 1) : fed'[k] = fed[k]
    BY GrownDocument
  <2>2. LevelIn(fed', i) = LevelIn(fed, i)
    BY <2>1 DEF LevelIn, Tags
  <2>3. i \in Nat \ {0}
    BY GrownDocument
  <2>. QED BY <1>0, <2>2, <2>3, LevelType
<1>2. Here = Level(m) /\ Here' = LevelIn(fed', m + 1)
  <2>1. Len(fed) + 1 = m /\ Len(fed') + 1 = m + 1
    BY GrownDocument
  <2>2. Here = LevelIn(fed, Len(fed) + 1) /\ Here' = LevelIn(fed', Len(fed') + 1)
    BY DEF Here, Level, LevelIn, Tags
  <2>. QED BY <1>0, <2>1, <2>2
<1>3. LevelIn(fed', m + 1) = LevelIn(fed', m) + Step(fed'[m])
  <2>1. m \in Nat \ {0}
    BY GrownDocument
  <2>. QED BY <2>1, LevelSteps
<1>4. LevelIn(fed', m) = Here /\ fed'[m] = e
  <2>1. m \in 1..m
    BY GrownDocument
  <2>. QED BY <1>0, <1>1, <1>2, <2>1, GrownDocument
<1>5. Level(1) = 0
  BY <1>0, LevelSteps
<1>. QED BY <1>1, <1>2, <1>3, <1>4, <1>5

LEMMA MinOf ==
  ASSUME NEW T, T \subseteq Nat, NEW x \in T, \A y \in T : x <= y
  PROVE  Min(T) = x
<1>1. \A z \in T : (\A y \in T : z <= y) => z = x
  OBVIOUS
<1>2. Min(T) \in T /\ \A y \in T : Min(T) <= y
  BY DEF Min
<1>. QED BY <1>1, <1>2

\* Where an element ends, when its start has been read: at the first end on its level, or
\* behind the document.
Closers(i) == {j \in DOMAIN fed : j > i /\ fed[j].kind = "end" /\ Level(j) = Level(i) + 1}

LEMMA EndIs ==
  ASSUME fed \in Seq(Event), NEW i \in 1..Len(fed), fed[i].kind = "start"
  PROVE  /\ EndOf(i) \in Closers(i) \cup {Len(fed) + 1}
         /\ \A j \in Closers(i) : EndOf(i) <= j
         /\ EndOf(i) \in (i + 1)..(Len(fed) + 1)
         /\ EndOf(i) <= Len(fed) => EndOf(i) \in Closers(i)
<1> DEFINE T == Closers(i) \cup {Len(fed) + 1}
<1>1. /\ T \subseteq Nat /\ T # {} /\ Len(fed) + 1 \in T
      /\ \A j \in T : j \in (i + 1)..(Len(fed) + 1)
  BY DEF Closers
<1>2. PICK x \in T : \A y \in T : x <= y
  <2>. HIDE DEF T
  <2>. QED BY <1>1, LeastNumber
<1>3. Min(T) = x
  <2>. HIDE DEF T
  <2>. QED BY <1>1, <1>2, MinOf
<1>4. EndOf(i) = Min(T)
  BY DEF EndOf, Closers
<1>5. /\ EndOf(i) \in T /\ \A j \in T : EndOf(i) <= j
      /\ EndOf(i) \in (i + 1)..(Len(fed) + 1)
  <2>. HIDE DEF T
  <2>. QED BY <1>1, <1>2, <1>3, <1>4
<1>. QED BY <1>5

\* The event at m ends an element that is open and no other.
LEMMA EndGrows ==
  ASSUME NEW m, NEW e, Grows(m, e), NEW i \in 1..(m - 1), fed[i].kind = "start"
  PROVE  /\ EndOf(i) \in (i + 1)..m
         /\ EndOf(i) < m => EndOf(i)' = EndOf(i)
         /\ EndOf(i) = m => EndOf(i)' = IF e.kind = "end" /\ Here = Level(i) + 1 THEN m ELSE m + 1
<1> DEFINE T  == Closers(i) \cup {m}
           T1 == Closers(i)'
<1>1. /\ EndOf(i) \in T /\ \A j \in Closers(i) : EndOf(i) <= j
      /\ EndOf(i) \in (i + 1)..m
  <2>1. fed \in Seq(Event) /\ i \in 1..Len(fed) /\ Len(fed) + 1 = m
    BY GrownDocument DEF Grows
  <2>. HIDE DEF Grows
  <2>. QED BY <2>1, EndIs
<1>2. T1 = Closers(i) \cup (IF e.kind = "end" /\ Here = Level(i) + 1 THEN {m} ELSE {})
  <2>1. /\ DOMAIN fed = 1..(m - 1) /\ DOMAIN fed' = 1..m /\ fed'[m] = e /\ m \in Nat
        /\ \A j \in 1..(m - 1) : fed'[j] = fed[j] /\ Level(j)' = Level(j)
        /\ Level(m)' = Here /\ Level(i)' = Level(i)
    BY GrownDocument, LevelGrows
  <2>2. T1 = {j \in DOMAIN fed' : j > i /\ fed'[j].kind = "end" /\ Level(j)' = Level(i)' + 1}
    BY DEF Closers
  <2>3. Closers(i) = {j \in DOMAIN fed : j > i /\ fed[j].kind = "end" /\ Level(j) = Level(i) + 1}
    BY DEF Closers
  <2>4. ASSUME NEW j PROVE j \in T1 <=> j \in Closers(i) \cup (IF e.kind = "end" /\ Here = Level(i) + 1 THEN {m} ELSE {})
    <3>1. CASE j \in 1..(m - 1)
      BY <2>1, <2>2, <2>3, <3>1
    <3>2. CASE j = m
      BY <2>1, <2>2, <2>3, <3>2
    <3>3. CASE j \notin 1..(m - 1) /\ j # m
      <4>1. j \notin 1..m
        BY <2>1, <3>3
      <4>. QED BY <2>1, <2>2, <2>3, <3>3, <4>1
    <3>. QED BY <3>1, <3>2, <3>3
  <2>. QED BY <2>4
<1>3. EndOf(i)' = Min(T1 \cup {m + 1})
  <2>1. Len(fed') + 1 = m + 1
    BY GrownDocument
  <2>2. fed'[i].kind = "start"
    BY GrownDocument
  <2>. QED BY <2>1, <2>2 DEF EndOf, Closers
<1>4. T \subseteq 1..m /\ \A j \in Closers(i) : j \in 1..(m - 1)
  BY GrownDocument DEF Closers
<1>5. T1 \cup {m + 1} \subseteq Nat /\ m \in Nat
  BY GrownDocument, <1>2, <1>4
<1>6. ASSUME EndOf(i) < m PROVE EndOf(i)' = EndOf(i)
  <2>1. EndOf(i) \in Closers(i) /\ \A j \in T1 \cup {m + 1} : EndOf(i) <= j
    BY <1>1, <1>2, <1>4, <1>5, <1>6
  <2>. QED BY <1>2, <1>3, <1>5, <2>1, MinOf
<1>7. ASSUME EndOf(i) = m
      PROVE  EndOf(i)' = IF e.kind = "end" /\ Here = Level(i) + 1 THEN m ELSE m + 1
  <2>1. Closers(i) = {}
    BY <1>1, <1>4, <1>5, <1>7
  <2>2. CASE e.kind = "end" /\ Here = Level(i) + 1
    <3>1. T1 \cup {m + 1} = {m, m + 1}
      BY <1>2, <2>1, <2>2
    <3>. QED BY <1>3, <1>5, <2>2, <3>1, MinOf
  <2>3. CASE ~(e.kind = "end" /\ Here = Level(i) + 1)
    <3>1. T1 \cup {m + 1} = {m + 1}
      BY <1>2, <2>1, <2>3
    <3>. QED BY <1>3, <1>5, <2>3, <3>1, MinOf
  <2>. QED BY <2>2, <2>3
<1>. QED BY <1>1, <1>6, <1>7

\* An empty element ends where it begins, and a start at the end of the document is open.
LEMMA EndOfEmpty ==
  ASSUME NEW i, fed[i].kind = "empty" PROVE EndOf(i) = i
BY DEF EndOf

LEMMA EndGrowsEmpty ==
  ASSUME NEW m, NEW e, Grows(m, e), NEW i \in 1..(m - 1), fed[i].kind = "empty"
  PROVE  EndOf(i) = i /\ EndOf(i)' = i
<1>1. fed'[i].kind = "empty"
  BY GrownDocument
<1>. QED BY <1>1 DEF EndOf

LEMMA NewEnd ==
  ASSUME NEW m, NEW e, Grows(m, e)
  PROVE  /\ e.kind = "empty" => EndOf(m)' = m
         /\ e.kind = "start" => EndOf(m)' = m + 1
<1>0. m \in Nat /\ fed'[m] = e /\ DOMAIN fed' = 1..m /\ Len(fed') = m
  BY GrownDocument
<1>1. ASSUME e.kind = "empty" PROVE EndOf(m)' = m
  BY <1>0, <1>1 DEF EndOf
<1>2. ASSUME e.kind = "start" PROVE EndOf(m)' = m + 1
  <2>1. Closers(m)' = {}
    BY <1>0 DEF Closers
  <2>2. EndOf(m)' = Min(Closers(m)' \cup {m + 1})
    BY <1>0, <1>2 DEF EndOf, Closers
  <2>3. Closers(m)' \cup {m + 1} = {m + 1} /\ m + 1 \in Nat
    BY <1>0, <2>1
  <2>. QED BY <1>0, <2>2, <2>3, MinOf
<1>. QED BY <1>1, <1>2

\* An element that was there stays as it was, but that the event may end it.
Ended(m, e, i) == EndOf(i) = m /\ e.kind = "end" /\ Here = Level(i) + 1

LEMMA OpensGrow ==
  ASSUME NEW m, NEW e, Grows(m, e), NEW i \in Opens
  PROVE  /\ i \in 1..(m - 1) /\ i \in Opens' /\ fed'[i] = fed[i] /\ Level(i)' = Level(i)
         /\ EndOf(i) \in i..m /\ EndOf(i)' \in i..(m + 1)
         /\ EndOf(i) < m => EndOf(i)' = EndOf(i)
         /\ EndOf(i) = m => /\ EndOf(i)' = IF Ended(m, e, i) THEN m ELSE m + 1
                            /\ fed[i].kind = "start"
<1>1. /\ i \in 1..(m - 1) /\ i \in Opens' /\ fed'[i] = fed[i]
      /\ fed[i].kind \in {"start", "empty"} /\ m \in Nat
  BY GrownDocument DEF Opens
<1>2. Level(i)' = Level(i)
  BY <1>1, LevelGrows
<1>3. CASE fed[i].kind = "empty"
  <2>1. EndOf(i) = i /\ EndOf(i)' = i
    BY <1>1, <1>3, EndGrowsEmpty
  <2>. QED BY <1>1, <1>2, <2>1
<1>4. CASE fed[i].kind = "start"
  <2>1. /\ EndOf(i) \in (i + 1)..m
        /\ EndOf(i) < m => EndOf(i)' = EndOf(i)
        /\ EndOf(i) = m => EndOf(i)' = IF e.kind = "end" /\ Here = Level(i) + 1 THEN m ELSE m + 1
    BY <1>1, <1>4, EndGrows
  <2>2. EndOf(i) = m => EndOf(i)' = IF Ended(m, e, i) THEN m ELSE m + 1
    BY <2>1 DEF Ended
  <2>3. EndOf(i)' \in i..(m + 1) /\ EndOf(i) \in i..m
    BY <1>1, <2>1
  <2>. QED BY <1>1, <1>2, <1>4, <2>1, <2>2, <2>3
<1>. QED BY <1>1, <1>3, <1>4

LEMMA NewOpens ==
  ASSUME NEW m, NEW e, Grows(m, e)
  PROVE  /\ Opens' = Opens \cup (IF e.kind \in {"start", "empty"} THEN {m} ELSE {})
         /\ m \notin Opens
<1>0. /\ DOMAIN fed = 1..(m - 1) /\ DOMAIN fed' = 1..m /\ m \in Nat \ {0} /\ fed'[m] = e
      /\ \A i \in 1..(m - 1) : fed'[i] = fed[i]
  BY GrownDocument
<1>1. ASSUME NEW i
      PROVE  i \in Opens' <=> i \in Opens \cup (IF e.kind \in {"start", "empty"} THEN {m} ELSE {})
  <2>1. CASE i \in 1..(m - 1)
    BY <1>0, <2>1 DEF Opens
  <2>2. CASE i = m
    BY <1>0, <2>2 DEF Opens
  <2>3. CASE i \notin 1..(m - 1) /\ i # m
    <3>1. i \notin 1..m
      BY <1>0, <2>3
    <3>. QED BY <1>0, <2>3, <3>1 DEF Opens
  <2>. QED BY <2>1, <2>2, <2>3
<1>. QED BY <1>0, <1>1 DEF Opens

\* What lies directly in an element grows by the event if the element is the innermost.
LEMMA WithinGrows ==
  ASSUME NEW m, NEW e, Grows(m, e), NEW i \in Opens
  PROVE  Within(i)' = IF EndOf(i) = m /\ Here = Level(i) + 1 /\ e.kind # "end"
                      THEN Within(i) \cup {m} ELSE Within(i)
<1>0. /\ DOMAIN fed = 1..(m - 1) /\ DOMAIN fed' = 1..m /\ m \in Nat \ {0} /\ i \in 1..(m - 1)
      /\ \A j \in 1..(m - 1) : Level(j)' = Level(j)
      /\ Level(m)' = Here /\ Level(i)' = Level(i)
      /\ EndOf(i) \in i..m /\ EndOf(i)' \in i..(m + 1)
      /\ EndOf(i) < m => EndOf(i)' = EndOf(i)
      /\ EndOf(i) = m => EndOf(i)' = IF Ended(m, e, i) THEN m ELSE m + 1
  <2>1. DOMAIN fed = 1..(m - 1) /\ DOMAIN fed' = 1..m /\ m \in Nat \ {0}
    BY GrownDocument
  <2>2. \A j \in 1..m : Level(j)' = Level(j)
    BY LevelGrows
  <2>3. Here = Level(m)
    BY LevelGrows
  <2>4. /\ i \in 1..(m - 1) /\ Level(i)' = Level(i)
        /\ EndOf(i) \in i..m /\ EndOf(i)' \in i..(m + 1)
        /\ EndOf(i) < m => EndOf(i)' = EndOf(i)
        /\ EndOf(i) = m => EndOf(i)' = IF Ended(m, e, i) THEN m ELSE m + 1
    BY OpensGrow
  <2>5. /\ m \in 1..m /\ \A j \in 1..(m - 1) : j \in 1..m
    BY <2>1
  <2>6. Level(m)' = Here /\ \A j \in 1..(m - 1) : Level(j)' = Level(j)
    BY <2>2, <2>3, <2>5
  <2>. QED BY <2>1, <2>4, <2>6
<1>1. /\ Within(i) = {k \in 1..(m - 1) : i < k /\ k < EndOf(i) /\ Level(k) = Level(i) + 1}
      /\ Within(i)' = {k \in 1..m : i < k /\ k < EndOf(i)' /\ Level(k)' = Level(i) + 1}
  BY <1>0 DEF Within
<1>2. ASSUME NEW k \in 1..(m - 1) PROVE k \in Within(i)' <=> k \in Within(i)
  BY <1>0, <1>1
<1>3. m \in Within(i)' <=> EndOf(i) = m /\ Here = Level(i) + 1 /\ e.kind # "end"
  BY <1>0, <1>1 DEF Ended
<1>4. \A k : k \in Within(i)' => k \in 1..(m - 1) \/ k = m
  BY <1>0, <1>1
<1>5. \A k : k \in Within(i) => k \in 1..(m - 1)
  BY <1>1
<1>. QED BY <1>2, <1>3, <1>4, <1>5

LEMMA NewWithin ==
  ASSUME NEW m, NEW e, Grows(m, e), e.kind \in {"start", "empty"}
  PROVE  Within(m)' = {}
<1>1. DOMAIN fed' = 1..m /\ m \in Nat
  BY GrownDocument
<1>2. \A k \in 1..m : ~(m < k)
  BY <1>1
<1>3. Within(m)' = {k \in 1..m : m < k /\ k < EndOf(m)' /\ Level(k)' = Level(m)' + 1}
  BY <1>1 DEF Within
<1>. QED BY <1>2, <1>3

----------------------------------------------------------------------------
\* The open elements are a chain o, one on each level; nothing behind the start of one has
\* left it.
Chain(o) ==
  /\ o \in [1..Here -> Opens]
  /\ \A l \in 1..Here : /\ fed[o[l]].kind = "start" /\ EndOf(o[l]) = Len(fed) + 1
                        /\ Level(o[l]) = l - 1
                        /\ \A k \in (o[l] + 1)..Len(fed) : Level(k) >= l
  /\ \A i \in Opens : EndOf(i) = Len(fed) + 1 => \E l \in 1..Here : i = o[l]

\* A document whose next event is the m-th, and h elements deep.
Doc(m, h, o) ==
  /\ fed \in Seq(Event) /\ m \in Nat \ {0} /\ m = Len(fed) + 1
  /\ h \in Nat /\ h = Here /\ Chain(o)

LEMMA ChainIs ==
  ASSUME NEW m, NEW h, NEW o, Doc(m, h, o)
  PROVE  /\ o \in [1..h -> Opens] /\ DOMAIN fed = 1..(m - 1) /\ Len(fed) = m - 1
         /\ m \in Nat \ {0} /\ h \in Nat /\ h = Here
         /\ \A i \in Opens : i \in 1..(m - 1)
         /\ \A l \in 1..h : /\ o[l] \in 1..(m - 1) /\ fed[o[l]].kind = "start"
                            /\ EndOf(o[l]) = m /\ Level(o[l]) = l - 1
                            /\ \A k \in (o[l] + 1)..(m - 1) : Level(k) >= l
         /\ \A i \in Opens : EndOf(i) = m => \E l \in 1..h : i = o[l]
<1>1. Len(fed) = m - 1 /\ DOMAIN fed = 1..(m - 1) /\ Len(fed) + 1 = m /\ h = Here
  BY DEF Doc
<1>2. \A i \in Opens : i \in 1..(m - 1)
  BY <1>1 DEF Opens
<1>. QED BY <1>1, <1>2 DEF Doc, Chain

LEMMA ChainRises ==
  ASSUME NEW m, NEW h, NEW o, Doc(m, h, o), NEW l \in 1..h, NEW n \in 1..h, l < n
  PROVE  o[l] < o[n]
<1>1. /\ o[l] \in 1..(m - 1) /\ o[n] \in 1..(m - 1) /\ m \in Nat
      /\ Level(o[l]) = l - 1 /\ Level(o[n]) = n - 1
      /\ \A k \in (o[n] + 1)..(m - 1) : Level(k) >= n
  BY ChainIs
<1>2. o[l] # o[n]
  BY <1>1
<1>3. ~(o[n] < o[l])
  <2>. SUFFICES ASSUME o[n] < o[l] PROVE FALSE
    OBVIOUS
  <2>1. o[l] \in (o[n] + 1)..(m - 1)
    BY <1>1
  <2>. QED BY <1>1, <2>1
<1>. QED BY <1>1, <1>2, <1>3

LEMMA InnermostIs ==
  ASSUME NEW m, NEW h, NEW o, Doc(m, h, o), h > 0
  PROVE  Innermost = o[h]
<1> DEFINE T == {i \in Opens : EndOf(i) > Len(fed)}
<1>0. /\ h \in 1..h /\ h \in Nat /\ Len(fed) = m - 1 /\ m \in Nat \ {0}
      /\ o[h] \in Opens /\ \A i \in Opens : i \in 1..(m - 1)
      /\ EndOf(o[h]) = m
  BY ChainIs
<1>1. \A i \in Opens : EndOf(i) > m - 1 => EndOf(i) = m
  <2>. SUFFICES ASSUME NEW i \in Opens, EndOf(i) > m - 1 PROVE EndOf(i) = m
    OBVIOUS
  <2>1. i \in 1..Len(fed) /\ fed[i].kind \in {"start", "empty"} /\ fed \in Seq(Event)
    BY <1>0 DEF Opens, Doc
  <2>2. CASE fed[i].kind = "start"
    <3>1. EndOf(i) \in (i + 1)..(Len(fed) + 1)
      BY <2>1, <2>2, EndIs
    <3>. QED BY <1>0, <3>1, <2>1
  <2>3. CASE fed[i].kind = "empty"
    <3>1. EndOf(i) = i
      BY <2>3, EndOfEmpty
    <3>. QED BY <1>0, <3>1, <2>1
  <2>. QED BY <2>1, <2>2, <2>3
<1>2. o[h] \in T /\ \A i \in T : o[h] >= i
  <2>1. o[h] \in T
    BY <1>0
  <2>2. ASSUME NEW i \in T PROVE o[h] >= i
    <3>1. PICK l \in 1..h : i = o[l]
      <4>1. i \in Opens /\ EndOf(i) = m
        BY <1>0, <1>1
      <4>. QED BY <4>1, ChainIs
    <3>2. CASE l = h
      BY <1>0, <3>1, <3>2
    <3>3. CASE l < h
      <4>1. o[l] < o[h]
        BY <1>0, <3>3, ChainRises
      <4>. QED BY <1>0, <3>1, <4>1
    <3>. QED BY <1>0, <3>1, <3>2, <3>3
  <2>. QED BY <2>1, <2>2
<1>3. \A z \in T : (\A y \in T : z >= y) => z = o[h]
  <2>1. \A z \in T : z \in Nat
    BY <1>0
  <2>. HIDE DEF T
  <2>. QED BY <1>2, <2>1
<1>4. Max(T) \in T /\ \A y \in T : Max(T) >= y
  <2>. HIDE DEF T
  <2>. QED BY <1>2 DEF Max
<1>5. Innermost = Max(T)
  BY DEF Innermost
<1>. QED
  <2>. HIDE DEF T
  <2>. QED BY <1>3, <1>4, <1>5

LEMMA IsInnermost ==
  ASSUME NEW m, NEW h, NEW o, Doc(m, h, o)
  PROVE  /\ h > 0 => \A k \in Opens : k = o[h] <=> EndOf(k) = m /\ Level(k) = h - 1
         /\ \A k \in Opens : EndOf(k) = m => h > 0
<1>0. h \in Nat
  BY ChainIs
<1>1. ASSUME h > 0, NEW k \in Opens PROVE k = o[h] <=> EndOf(k) = m /\ Level(k) = h - 1
  <2>1. h \in 1..h
    BY <1>0, <1>1
  <2>2. EndOf(o[h]) = m /\ Level(o[h]) = h - 1
    BY <2>1, ChainIs
  <2>3. ASSUME EndOf(k) = m, Level(k) = h - 1 PROVE k = o[h]
    <3>1. PICK l \in 1..h : k = o[l]
      BY <2>3, ChainIs
    <3>2. Level(k) = l - 1
      BY <3>1, ChainIs
    <3>. QED BY <1>0, <2>3, <3>1, <3>2
  <2>. QED BY <2>2, <2>3
<1>2. ASSUME NEW k \in Opens, EndOf(k) = m PROVE h > 0
  <2>1. PICK l \in 1..h : k = o[l]
    BY <1>2, ChainIs
  <2>. QED BY <1>0, <2>1
<1>. QED BY <1>1, <1>2

\* What the event makes of the chain: one element more, one less, or the same.
NewChain(m, h, o, kind) ==
  IF kind = "start" THEN [l \in 1..(h + 1) |-> IF l <= h THEN o[l] ELSE m]
  ELSE IF kind = "end" THEN [l \in 1..(h - 1) |-> o[l]] ELSE o

LEMMA NewChainIs ==
  ASSUME NEW m, NEW h, NEW o, Doc(m, h, o), NEW e, Grows(m, e), e.kind = "end" => h > 0,
         NEW n, n = h + Step(e), NEW q, q = NewChain(m, h, o, e.kind)
  PROVE  /\ n \in Nat /\ Here' = n /\ q = [l \in 1..n |-> q[l]]
         /\ \A l \in 1..n : q[l] = IF l = h + 1 THEN m ELSE o[l]
         /\ h + 1 \in 1..n <=> e.kind = "start"
         /\ \A l \in 1..n : l \in 1..h \/ (l = h + 1 /\ e.kind = "start")
         /\ e.kind = "end" => n = h - 1
         /\ e.kind = "start" => n = h + 1
         /\ e.kind \in {"empty", "text"} => n = h
<1>1. /\ h \in Nat /\ h = Here /\ o \in [1..h -> Opens] /\ e.kind \in {"start", "empty", "text", "end"}
  BY ChainIs DEF Doc, Grows, Event
<1>2. Here' = h + Step(e)
  BY <1>1, LevelGrows
<1>3. CASE e.kind = "start"
  BY <1>1, <1>2, <1>3 DEF NewChain, Step
<1>4. CASE e.kind = "end"
  BY <1>1, <1>2, <1>4 DEF NewChain, Step
<1>5. CASE e.kind \in {"empty", "text"}
  <2>1. q = o /\ n = h
    BY <1>1, <1>5 DEF NewChain, Step
  <2>. QED BY <1>1, <1>2, <1>5, <2>1
<1>. QED BY <1>1, <1>3, <1>4, <1>5

\* Of the elements that were open only the innermost is ended.
LEMMA OpenStays ==
  ASSUME NEW m, NEW h, NEW o, Doc(m, h, o), NEW e, Grows(m, e), NEW l \in 1..h
  PROVE  EndOf(o[l])' = IF l = h /\ e.kind = "end" THEN m ELSE m + 1
<1>0. /\ h = Here /\ h \in Nat /\ o \in [1..h -> Opens]
      /\ \A j \in 1..h : EndOf(o[j]) = m /\ Level(o[j]) = j - 1
  BY ChainIs
<1>1. o[l] \in Opens /\ EndOf(o[l]) = m /\ Level(o[l]) = l - 1 /\ l \in Nat
  BY <1>0
<1>2. EndOf(o[l])' = IF Ended(m, e, o[l]) THEN m ELSE m + 1
  BY <1>1, OpensGrow
<1>. QED BY <1>0, <1>1, <1>2 DEF Ended

LEMMA ChainGrows ==
  ASSUME NEW m, NEW h, NEW o, Doc(m, h, o), NEW e, Grows(m, e), e.kind = "end" => h > 0
  PROVE  Doc(m + 1, h + Step(e), NewChain(m, h, o, e.kind))'
<1> DEFINE n == h + Step(e)
           q == NewChain(m, h, o, e.kind)
<1>1. /\ n \in Nat /\ Here' = n /\ q = [l \in 1..n |-> q[l]]
      /\ \A l \in 1..n : q[l] = IF l = h + 1 THEN m ELSE o[l]
      /\ h + 1 \in 1..n <=> e.kind = "start"
      /\ \A l \in 1..n : l \in 1..h \/ (l = h + 1 /\ e.kind = "start")
      /\ e.kind = "end" => n = h - 1
      /\ e.kind = "start" => n = h + 1
      /\ e.kind \in {"empty", "text"} => n = h
  BY NewChainIs
<1>2. /\ m \in Nat \ {0} /\ h \in Nat /\ h = Here /\ e.kind \in {"start", "empty", "text", "end"}
      /\ Len(fed') = m /\ fed' \in Seq(Event)
  BY ChainIs, GrownDocument DEF Doc, Grows, Event
<1> HIDE DEF n, q
<1>4. ASSUME NEW l \in 1..n
      PROVE  /\ q[l] \in Opens' /\ fed'[q[l]].kind = "start" /\ EndOf(q[l])' = m + 1
             /\ Level(q[l])' = l - 1
             /\ \A k \in (q[l] + 1)..m : Level(k)' >= l
  <2>1. CASE l \in 1..h
    <3>0. /\ o[l] \in Opens /\ o[l] \in 1..(m - 1) /\ fed[o[l]].kind = "start"
          /\ EndOf(o[l]) = m /\ Level(o[l]) = l - 1
          /\ \A k \in (o[l] + 1)..(m - 1) : Level(k) >= l
      BY <2>1, ChainIs
    <3>1. q[l] = o[l]
      BY <1>1, <1>2, <2>1
    <3>2. /\ o[l] \in Opens' /\ fed'[o[l]] = fed[o[l]] /\ Level(o[l])' = Level(o[l])
      BY <3>0, OpensGrow
    <3>3. EndOf(o[l])' = m + 1
      <4>1. ~(l = h /\ e.kind = "end")
        BY <1>1, <1>2
      <4>. QED BY <2>1, <4>1, OpenStays
    <3>4. ASSUME NEW k \in (o[l] + 1)..m PROVE Level(k)' >= l
      <4>1. k \in 1..m /\ (k \in (o[l] + 1)..(m - 1) \/ k = m)
        BY <1>2, <3>0
      <4>2. Level(k)' = Level(k) /\ Level(m) = h
        BY <1>2, <4>1, LevelGrows
      <4>. QED BY <1>2, <2>1, <3>0, <4>1, <4>2
    <3>. QED BY <3>0, <3>1, <3>2, <3>3, <3>4
  <2>2. CASE l = h + 1 /\ e.kind = "start"
    <3>1. q[l] = m /\ m \in Opens' /\ fed'[m].kind = "start" /\ EndOf(m)' = m + 1
      BY <1>1, <2>2, NewOpens, GrownDocument, NewEnd
    <3>2. Level(m)' = h
      <4>1. m \in 1..m
        BY <1>2
      <4>. QED BY <1>2, <4>1, LevelGrows
    <3>3. \A k \in (m + 1)..m : FALSE
      BY <1>2
    <3>. QED BY <1>2, <2>2, <3>1, <3>2, <3>3
  <2>. QED BY <1>1, <2>1, <2>2
<1>5. ASSUME NEW i \in Opens', EndOf(i)' = m + 1 PROVE \E l \in 1..n : i = q[l]
  <2>1. CASE i \in Opens
    <3>1. EndOf(i) = m
      BY <1>2, <1>5, <2>1, OpensGrow
    <3>2. PICK l \in 1..h : i = o[l]
      BY <2>1, <3>1, ChainIs
    <3>3. ~(l = h /\ e.kind = "end")
      BY <1>2, <1>5, <3>2, OpenStays
    <3>4. l \in 1..n /\ q[l] = o[l]
      BY <1>1, <1>2, <3>3
    <3>. QED BY <3>2, <3>4
  <2>2. CASE i \notin Opens
    <3>1. i = m /\ e.kind \in {"start", "empty"}
      BY <1>5, <2>2, NewOpens
    <3>2. e.kind = "start"
      BY <1>2, <1>5, <3>1, NewEnd
    <3>. QED BY <1>1, <1>2, <3>1, <3>2
  <2>. QED BY <2>1, <2>2
<1>6. Chain(q)'
  <2>1. q \in [1..n -> Opens']
    BY <1>1, <1>4
  <2>. QED BY <1>1, <1>2, <1>4, <1>5, <2>1 DEF Chain
<1>7. Doc(m + 1, n, q)'
  BY <1>1, <1>2, <1>6 DEF Doc
<1>. QED BY <1>7 DEF n, q

----------------------------------------------------------------------------
\* The completed elements directly in an element.
Done(i) == {k \in Within(i) \cap Opens : EndOf(k) <= Len(fed)}

\* A completed element holds completed ones only, and so does the innermost open one.
LEMMA AllDone ==
  ASSUME NEW m, NEW h, NEW o, Doc(m, h, o), NEW i \in Opens,
         EndOf(i) < m \/ (h > 0 /\ i = o[h])
  PROVE  Done(i) = Within(i) \cap Opens
<1>0. /\ m \in Nat \ {0} /\ h \in Nat /\ Len(fed) = m - 1 /\ \A k \in Opens : k \in 1..(m - 1)
      /\ fed \in Seq(Event) /\ Len(fed) + 1 = m
  BY ChainIs DEF Doc
<1>1. ASSUME NEW k \in Within(i) \cap Opens PROVE EndOf(k) <= m - 1
  <2>1. SUFFICES ASSUME EndOf(k) = m PROVE FALSE
    <3>1. k \in 1..(m - 1) /\ (fed[k].kind = "start" \/ fed[k].kind = "empty")
      BY <1>0 DEF Opens
    <3>2. CASE fed[k].kind = "empty"
      BY <1>0, <3>1, <3>2, EndOfEmpty
    <3>3. CASE fed[k].kind = "start"
      <4>1. EndOf(k) \in (k + 1)..(Len(fed) + 1)
        BY <1>0, <3>1, <3>3, EndIs
      <4>. QED BY <1>0, <3>1, <4>1
    <3>. QED BY <3>1, <3>2, <3>3
  <2>2. PICK l \in 1..h : k = o[l]
    BY <2>1, ChainIs
  <2>3. /\ Level(k) = l - 1 /\ \A j \in (k + 1)..(m - 1) : Level(j) >= l
    BY <2>2, ChainIs
  <2>4. i < k /\ k < EndOf(i) /\ Level(k) = Level(i) + 1
    BY DEF Within
  <2>5. CASE EndOf(i) < m
    <3>1. i \in 1..Len(fed) /\ (fed[i].kind = "start" \/ fed[i].kind = "empty")
      BY <1>0 DEF Opens
    <3>2. CASE fed[i].kind = "empty"
      <4>1. EndOf(i) = i
        BY <3>2, EndOfEmpty
      <4>2. i \in Nat /\ k \in Nat
        BY <1>0
      <4>. QED BY <2>4, <4>1, <4>2
    <3>3. CASE fed[i].kind = "start"
      <4>1. EndOf(i) \in Closers(i)
        <5>1. /\ EndOf(i) \in (i + 1)..(Len(fed) + 1)
              /\ EndOf(i) <= Len(fed) => EndOf(i) \in Closers(i)
          BY <1>0, <3>1, <3>3, EndIs
        <5>. QED BY <1>0, <2>5, <3>1, <5>1
      <4>2. EndOf(i) \in 1..(m - 1) /\ Level(EndOf(i)) = Level(i) + 1
        BY <1>0, <4>1 DEF Closers
      <4>3. EndOf(i) \in (k + 1)..(m - 1)
        BY <1>0, <2>4, <4>2
      <4>4. l \in Nat /\ Level(EndOf(i)) >= l
        BY <1>0, <2>3, <4>3
      <4>. QED BY <2>3, <2>4, <4>2, <4>4
    <3>. QED BY <3>1, <3>2, <3>3
  <2>6. CASE h > 0 /\ i = o[h]
    <3>1. Level(i) = h - 1 /\ h \in 1..h
      BY <1>0, <2>6, ChainIs
    <3>. QED BY <1>0, <2>2, <2>3, <2>4, <3>1
  <2>. QED BY <2>5, <2>6
<1>. QED BY <1>0, <1>1 DEF Done

\* An element that the event completes is an element of the innermost that stays open.
LEMMA DoneGrows ==
  ASSUME NEW m, NEW h, NEW o, Doc(m, h, o), NEW e, Grows(m, e), e.kind = "end" => h > 0,
         NEW i \in Opens
  PROVE  Done(i)' =
           IF e.kind = "empty" /\ h > 0 /\ i = o[h] THEN Done(i) \cup {m}
           ELSE IF e.kind = "end" /\ h > 1 /\ i = o[h - 1] THEN Done(i) \cup {o[h]}
           ELSE Done(i)
<1>0. /\ m \in Nat \ {0} /\ h \in Nat /\ Len(fed) = m - 1 /\ \A k \in Opens : k \in 1..(m - 1)
      /\ Len(fed') = m /\ e.kind \in {"start", "empty", "text", "end"} /\ h = Here
      /\ i \in 1..(m - 1) /\ o \in [1..h -> Opens]
  BY ChainIs, GrownDocument DEF Grows, Event
<1>a. Done(i)' = {k \in Within(i)' \cap Opens' : EndOf(k)' <= m}
  BY <1>0 DEF Done
<1>b. Done(i) = {k \in Within(i) \cap Opens : EndOf(k) <= m - 1}
  BY <1>0 DEF Done
<1>c. h > 0 => \A k \in Opens : k = o[h] <=> EndOf(k) = m /\ Level(k) = h - 1
  BY IsInnermost
\* Which of the elements that were there are completed.
<1>1. ASSUME NEW k \in Opens
      PROVE  k \in Done(i)' <=> k \in Done(i) \/ (k \in Within(i) /\ e.kind = "end" /\ k = o[h])
  <2>1. k \in Opens' /\ (k \in Within(i)' <=> k \in Within(i))
    <3>1. k # m
      BY <1>0
    <3>. QED BY <3>1, OpensGrow, WithinGrows
  <2>2. CASE EndOf(k) < m
    <3>1. EndOf(k)' = EndOf(k) /\ EndOf(k) \in Nat
      BY <1>0, <2>2, OpensGrow
    <3>2. ~(e.kind = "end" /\ k = o[h])
      BY <1>0, <1>c, <2>2
    <3>. QED BY <1>0, <1>a, <1>b, <2>1, <2>2, <3>1, <3>2
  <2>3. CASE EndOf(k) = m
    <3>1. EndOf(k)' = IF Ended(m, e, k) THEN m ELSE m + 1
      BY <2>3, OpensGrow
    <3>2. Ended(m, e, k) <=> e.kind = "end" /\ k = o[h]
      <4>1. Level(k) \in Int
        <5>1. k \in 1..m
          BY <1>0
        <5>. QED BY <5>1, LevelGrows
      <4>. QED BY <1>0, <1>c, <2>3, <4>1 DEF Ended
    <3>. QED BY <1>0, <1>a, <1>b, <2>1, <2>3, <3>1, <3>2
  <2>4. EndOf(k) \in k..m /\ k \in 1..(m - 1)
    BY <1>0, OpensGrow
  <2>. QED BY <1>0, <2>2, <2>3, <2>4
\* Whether the event is a completed element.
<1>2. m \in Done(i)' <=> e.kind = "empty" /\ h > 0 /\ i = o[h]
  <2>1. m \in Opens' <=> e.kind \in {"start", "empty"}
    BY NewOpens
  <2>2. m \in Within(i)' <=> EndOf(i) = m /\ h = Level(i) + 1 /\ e.kind # "end"
    <3>1. m \notin Within(i)
      <4>1. m \notin DOMAIN fed
        BY <1>0, ChainIs
      <4>. QED BY <4>1 DEF Within
    <3>. QED BY <1>0, <3>1, WithinGrows
  <2>3. /\ e.kind = "empty" => EndOf(m)' <= m
        /\ e.kind = "start" => ~(EndOf(m)' <= m)
    BY <1>0, NewEnd
  <2>4. Level(i) \in Int
    <3>1. i \in 1..m
      BY <1>0
    <3>. QED BY <3>1, LevelGrows
  <2>5. EndOf(i) = m /\ h = Level(i) + 1 => h > 0
    <3>. SUFFICES ASSUME EndOf(i) = m PROVE h > 0
      OBVIOUS
    <3>1. PICK l \in 1..h : i = o[l]
      BY ChainIs
    <3>. QED BY <1>0, <3>1
  <2>6. EndOf(i) = m /\ h = Level(i) + 1 <=> h > 0 /\ i = o[h]
    BY <1>0, <1>c, <2>4, <2>5
  <2>. QED BY <1>0, <1>a, <2>1, <2>2, <2>3, <2>6
<1>3. \A k : k \in Done(i)' => k \in Opens \/ k = m
  BY <1>a, NewOpens
<1>4. \A k : k \in Done(i) => k \in Opens /\ k # m
  BY <1>0, <1>b
\* Where the innermost lies.
<1>5. ASSUME h > 0
      PROVE  o[h] \in Opens /\ o[h] # m /\ (o[h] \in Within(i) <=> h > 1 /\ i = o[h - 1])
  <2>1. /\ h \in 1..h /\ o[h] \in Opens /\ o[h] \in 1..(m - 1) /\ EndOf(o[h]) = m
        /\ Level(o[h]) = h - 1
    <3>1. h \in 1..h
      BY <1>0, <1>5
    <3>. QED BY <3>1, ChainIs
  <2>2. ASSUME h > 1, i = o[h - 1] PROVE o[h] \in Within(i)
    <3>1. h - 1 \in 1..h /\ h - 1 < h
      BY <1>0, <2>2
    <3>2. EndOf(i) = m /\ Level(i) = (h - 1) - 1
      BY <2>2, <3>1, ChainIs
    <3>3. i < o[h]
      BY <2>1, <2>2, <3>1, ChainRises
    <3>4. DOMAIN fed = 1..(m - 1)
      BY ChainIs
    <3>. QED BY <1>0, <2>1, <3>2, <3>3, <3>4 DEF Within
  <2>3. ASSUME o[h] \in Within(i) PROVE h > 1 /\ i = o[h - 1]
    <3>1. EndOf(i) = m
      <4>1. ~(EndOf(i) < m)
        <5>. SUFFICES ASSUME EndOf(i) < m PROVE FALSE
          OBVIOUS
        <5>1. o[h] \in Done(i)
          BY <2>1, <2>3, AllDone
        <5>. QED BY <1>0, <1>b, <2>1, <5>1
      <4>2. EndOf(i) \in i..m
        BY OpensGrow
      <4>. QED BY <1>0, <4>1, <4>2
    <3>2. PICK l \in 1..h : i = o[l]
      BY <3>1, ChainIs
    <3>3. Level(i) = l - 1 /\ Level(o[h]) = Level(i) + 1
      <4>1. Level(i) = l - 1
        BY <3>2, ChainIs
      <4>. QED BY <2>3, <4>1 DEF Within
    <3>4. l = h - 1
      BY <1>0, <2>1, <3>2, <3>3
    <3>. QED BY <1>0, <3>2, <3>4
  <2>4. o[h] # m
    BY <1>0, <2>1
  <2>. QED BY <2>1, <2>2, <2>3, <2>4
<1>6. CASE e.kind = "empty"
  <2>1. \A k : k \in Done(i)' <=> k \in Done(i) \/ (h > 0 /\ i = o[h] /\ k = m)
    BY <1>1, <1>2, <1>3, <1>4, <1>6
  <2>. QED BY <1>6, <2>1
<1>7. CASE e.kind = "end"
  <2>1. \A k : k \in Done(i)' <=> k \in Done(i) \/ (h > 1 /\ i = o[h - 1] /\ k = o[h])
    BY <1>0, <1>1, <1>2, <1>3, <1>4, <1>5, <1>7
  <2>. QED BY <1>7, <2>1
<1>8. CASE e.kind \in {"start", "text"}
  <2>1. \A k : k \in Done(i)' <=> k \in Done(i)
    BY <1>1, <1>2, <1>3, <1>4, <1>8
  <2>. QED BY <1>8, <2>1
<1>. QED BY <1>0, <1>6, <1>7, <1>8

LEMMA TextedGrows ==
  ASSUME NEW m, NEW h, NEW o, Doc(m, h, o), NEW e, Grows(m, e), NEW i \in Opens
  PROVE  Texted(i)' <=> Texted(i) \/ (e.kind = "text" /\ h > 0 /\ i = o[h])
<1>0. /\ m \in Nat \ {0} /\ h \in Nat /\ i \in 1..(m - 1) /\ h = Here /\ DOMAIN fed = 1..(m - 1)
      /\ \A k \in 1..(m - 1) : fed'[k] = fed[k]
      /\ fed'[m] = e
  BY ChainIs, GrownDocument
<1>1. Level(i) \in Int
  <2>1. i \in 1..m
    BY <1>0
  <2>. QED BY <2>1, LevelGrows
<1>2. EndOf(i) = m /\ h = Level(i) + 1 <=> h > 0 /\ i = o[h]
  BY <1>0, <1>1, IsInnermost
<1>3. Within(i)' = IF h > 0 /\ i = o[h] /\ e.kind # "end" THEN Within(i) \cup {m} ELSE Within(i)
  BY <1>0, <1>2, WithinGrows
<1>4. Within(i) \subseteq 1..(m - 1)
  BY <1>0 DEF Within
<1>5. Texted(i)' <=> \E k \in Within(i)' : fed'[k].kind = "text"
  BY DEF Texted
<1>. QED BY <1>0, <1>3, <1>4, <1>5 DEF Texted

LEMMA NewTexted ==
  ASSUME NEW m, NEW e, Grows(m, e), e.kind \in {"start", "empty"}
  PROVE  ~Texted(m)' /\ Done(m)' = {}
BY NewWithin DEF Texted, Done

----------------------------------------------------------------------------
\* Elements as the parser builds them, against those of the document.

IsSeq(s) == s \in Seq({s[i] : i \in DOMAIN s})

LEMMA SeqIs ==
  ASSUME NEW S, NEW s \in Seq(S)
  PROVE  IsSeq(s)
BY DEF IsSeq

LEMMA SeqGrows ==
  ASSUME NEW s, NEW x, IsSeq(s)
  PROVE  /\ Len(s) \in Nat /\ DOMAIN s = 1..Len(s)
         /\ IsSeq(Append(s, x)) /\ Len(Append(s, x)) = Len(s) + 1
         /\ DOMAIN Append(s, x) = 1..(Len(s) + 1)
         /\ Append(s, x)[Len(s) + 1] = x
         /\ \A i \in 1..Len(s) : Append(s, x)[i] = s[i]
<1> DEFINE S == {s[i] : i \in DOMAIN s} \cup {x}
<1>1. s \in Seq(S) /\ x \in S
  BY DEF IsSeq
<1> HIDE DEF S
<1>2. Append(s, x) \in Seq(S)
  BY <1>1
<1>3. IsSeq(Append(s, x))
  BY <1>2, SeqIs
<1>. QED BY <1>1, <1>3

\* c is the element of the document that begins at i.
Shows(c, i) == c.name = fed[i].name /\ (c.text <=> Texted(i))

\* es are the completed elements in i, in their order, at the places that p gives.
Lists(es, i, p) ==
  /\ p \in [1..Len(es) -> Done(i)]
  /\ \A x, y \in 1..Len(es) : x < y => p[x] < p[y]
  /\ \A k \in Done(i) : \E x \in 1..Len(es) : p[x] = k
  /\ \A x \in 1..Len(es) : Shows(es[x], p[x])

\* The same with what they hold themselves.
Flat(es, i) == IsSeq(es) /\ \E p : Lists(es, i, p)

Deep(es, i) ==
  IsSeq(es) /\ \E p : Lists(es, i, p) /\ \A x \in 1..Len(es) : Flat(es[x].kids, p[x])

LEMMA DoneKept ==
  ASSUME NEW m, NEW h, NEW o, Doc(m, h, o), NEW e, Grows(m, e), e.kind = "end" => h > 0,
         NEW k \in Opens, EndOf(k) < m
  PROVE  Done(k)' = Done(k) /\ (Texted(k)' <=> Texted(k)) /\ fed'[k] = fed[k] /\ k \in 1..(m - 1)
<1>1. m \in Nat /\ h \in Nat /\ \A l \in 1..h : k # o[l]
  BY ChainIs
<1>2. ~(h > 0 /\ k = o[h]) /\ ~(h > 1 /\ k = o[h - 1])
  BY <1>1
<1>3. Done(k)' = Done(k)
  BY <1>2, DoneGrows
<1>4. Texted(k)' <=> Texted(k)
  BY <1>2, TextedGrows
<1>. QED BY <1>3, <1>4, OpensGrow

LEMMA DoneIn ==
  ASSUME NEW m, NEW h, NEW o, Doc(m, h, o), NEW i
  PROVE  \A k \in Done(i) : k \in Opens /\ EndOf(k) < m /\ k \in 1..(m - 1)
<1>1. /\ Len(fed) = m - 1 /\ m \in Nat \ {0} /\ \A k \in Opens : k \in 1..(m - 1)
      /\ fed \in Seq(Event) /\ Len(fed) + 1 = m
  BY ChainIs DEF Doc
<1>2. ASSUME NEW k \in Opens PROVE EndOf(k) \in Nat
  <2>1. k \in 1..(m - 1) /\ (fed[k].kind = "start" \/ fed[k].kind = "empty")
    BY <1>1 DEF Opens
  <2>2. CASE fed[k].kind = "empty"
    BY <1>1, <2>1, <2>2, EndOfEmpty
  <2>3. CASE fed[k].kind = "start"
    <3>1. EndOf(k) \in (k + 1)..(Len(fed) + 1)
      BY <1>1, <2>1, <2>3, EndIs
    <3>. QED BY <1>1, <2>1, <3>1
  <2>. QED BY <2>1, <2>2, <2>3
<1>. QED BY <1>1, <1>2 DEF Done

LEMMA ListsKept ==
  ASSUME NEW m, NEW h, NEW o, Doc(m, h, o), NEW e, Grows(m, e), e.kind = "end" => h > 0,
         NEW i, Done(i)' = Done(i), NEW es, NEW p, Lists(es, i, p)
  PROVE  Lists(es, i, p)'
<1>1. ASSUME NEW x \in 1..Len(es) PROVE Shows(es[x], p[x])'
  <2>1. p[x] \in Done(i) /\ Shows(es[x], p[x])
    BY DEF Lists
  <2>2. p[x] \in Opens /\ EndOf(p[x]) < m
    BY <2>1, DoneIn
  <2>3. (Texted(p[x])' <=> Texted(p[x])) /\ fed'[p[x]] = fed[p[x]]
    BY <2>2, DoneKept
  <2>. QED BY <2>1, <2>3 DEF Shows
<1>. QED BY <1>1 DEF Lists

LEMMA FlatKept ==
  ASSUME NEW m, NEW h, NEW o, Doc(m, h, o), NEW e, Grows(m, e), e.kind = "end" => h > 0,
         NEW i, Done(i)' = Done(i), NEW es, Flat(es, i)
  PROVE  Flat(es, i)'
<1>1. PICK p : Lists(es, i, p)
  BY DEF Flat
<1>2. Lists(es, i, p)'
  BY <1>1, ListsKept
<1>. QED BY <1>2 DEF Flat

LEMMA DeepKept ==
  ASSUME NEW m, NEW h, NEW o, Doc(m, h, o), NEW e, Grows(m, e), e.kind = "end" => h > 0,
         NEW i, Done(i)' = Done(i), NEW es, Deep(es, i)
  PROVE  Deep(es, i)'
<1>1. PICK p : Lists(es, i, p) /\ \A x \in 1..Len(es) : Flat(es[x].kids, p[x])
  BY DEF Deep
<1>2. Lists(es, i, p)'
  BY <1>1, ListsKept
<1>3. ASSUME NEW x \in 1..Len(es) PROVE Flat(es[x].kids, p[x])'
  <2>1. p[x] \in Opens /\ EndOf(p[x]) < m
    <3>1. p[x] \in Done(i)
      BY <1>1 DEF Lists
    <3>. QED BY <3>1, DoneIn
  <2>2. Done(p[x])' = Done(p[x])
    BY <2>1, DoneKept
  <2> DEFINE y  == p[x]
             ks == es[x].kids
  <2>3. Flat(ks, y) /\ Done(y)' = Done(y)
    BY <1>1, <2>2
  <2>. HIDE DEF y, ks
  <2>4. Flat(ks, y)'
    BY <2>3, FlatKept
  <2>. QED BY <2>4 DEF y, ks
<1>. QED BY <1>2, <1>3 DEF Deep

\* One element more, behind the others.
LEMMA ListsAttached ==
  ASSUME NEW m, NEW h, NEW o, Doc(m, h, o), NEW e, Grows(m, e), e.kind = "end" => h > 0,
         NEW i, NEW k \in Nat, Done(i)' = Done(i) \cup {k}, \A j \in Done(i) : j < k,
         NEW es, IsSeq(es), NEW p, Lists(es, i, p),
         NEW c, Shows(c, k)',
         NEW q, q = [x \in 1..(Len(es) + 1) |-> IF x <= Len(es) THEN p[x] ELSE k]
  PROVE  Lists(Append(es, c), i, q)'
<1> DEFINE n == Len(es)
           t == Append(es, c)
<1>0. n \in Nat /\ Len(t) = n + 1 /\ t[n + 1] = c /\ \A x \in 1..n : t[x] = es[x]
  BY SeqGrows
<1>1. /\ p \in [1..n -> Done(i)] /\ \A x, y \in 1..n : x < y => p[x] < p[y]
      /\ \A j \in Done(i) : \E x \in 1..n : p[x] = j
      /\ \A x \in 1..n : Shows(es[x], p[x])
  BY DEF Lists
<1>2. /\ \A x \in 1..n : q[x] = p[x]
      /\ q[n + 1] = k /\ DOMAIN q = 1..(n + 1)
      /\ q = [x \in 1..(n + 1) |-> q[x]]
  BY <1>0
<1> HIDE DEF n, t
<1>3. \A x \in 1..(n + 1) : x \in 1..n \/ x = n + 1
  BY <1>0
<1>4. q \in [1..(n + 1) -> Done(i)']
  BY <1>1, <1>2, <1>3
<1>5. ASSUME NEW x \in 1..(n + 1), NEW y \in 1..(n + 1), x < y PROVE q[x] < q[y]
  <2>1. x \in 1..n
    BY <1>0, <1>5
  <2>2. CASE y \in 1..n
    BY <1>1, <1>2, <1>5, <2>1, <2>2
  <2>3. CASE y = n + 1
    <3>1. q[x] = p[x] /\ q[y] = k
      BY <1>2, <2>1, <2>3
    <3>2. p[x] \in Done(i)
      BY <1>1, <2>1
    <3>. QED BY <3>1, <3>2
  <2>. QED BY <1>3, <2>2, <2>3
<1>6. ASSUME NEW j \in Done(i)' PROVE \E x \in 1..(n + 1) : q[x] = j
  <2>1. CASE j \in Done(i)
    BY <1>0, <1>1, <1>2, <2>1
  <2>2. CASE j = k
    BY <1>0, <1>2, <2>2
  <2>. QED BY <2>1, <2>2
<1>7. ASSUME NEW x \in 1..(n + 1) PROVE Shows(t[x], q[x])'
  <2>1. CASE x \in 1..n
    <3>1. p[x] \in Done(i) /\ Shows(es[x], p[x]) /\ q[x] = p[x] /\ t[x] = es[x]
      BY <1>0, <1>1, <1>2, <2>1
    <3>2. p[x] \in Opens /\ EndOf(p[x]) < m
      BY <3>1, DoneIn
    <3>3. (Texted(p[x])' <=> Texted(p[x])) /\ fed'[p[x]] = fed[p[x]]
      BY <3>2, DoneKept
    <3>. QED BY <3>1, <3>3 DEF Shows
  <2>2. CASE x = n + 1
    BY <1>0, <1>2, <2>2
  <2>. QED BY <1>3, <2>1, <2>2
<1>8. Lists(t, i, q)'
  BY <1>0, <1>4, <1>5, <1>6, <1>7 DEF Lists
<1>. QED BY <1>8 DEF t

LEMMA FlatAttached ==
  ASSUME NEW m, NEW h, NEW o, Doc(m, h, o), NEW e, Grows(m, e), e.kind = "end" => h > 0,
         NEW i, NEW k \in Nat, Done(i)' = Done(i) \cup {k}, \A j \in Done(i) : j < k,
         NEW es, Flat(es, i), NEW c, Shows(c, k)'
  PROVE  Flat(Append(es, c), i)'
<1>1. IsSeq(es) /\ IsSeq(Append(es, c))
  BY SeqGrows DEF Flat
<1>2. PICK p : Lists(es, i, p)
  BY DEF Flat
<1>3. \E q : q = [x \in 1..(Len(es) + 1) |-> IF x <= Len(es) THEN p[x] ELSE k]
  OBVIOUS
<1>4. PICK q : q = [x \in 1..(Len(es) + 1) |-> IF x <= Len(es) THEN p[x] ELSE k]
  BY <1>3
<1>5. Lists(Append(es, c), i, q)'
  BY <1>1, <1>2, <1>4, ListsAttached
<1>. QED BY <1>1, <1>5 DEF Flat

LEMMA DeepAttached ==
  ASSUME NEW m, NEW h, NEW o, Doc(m, h, o), NEW e, Grows(m, e), e.kind = "end" => h > 0,
         NEW i, NEW k \in Nat, Done(i)' = Done(i) \cup {k}, \A j \in Done(i) : j < k,
         NEW es, Deep(es, i), NEW c, Shows(c, k)', Flat(c.kids, k)'
  PROVE  Deep(Append(es, c), i)'
<1> DEFINE t == Append(es, c)
<1>1. /\ IsSeq(es) /\ IsSeq(t) /\ Len(es) \in Nat /\ Len(t) = Len(es) + 1
      /\ t[Len(es) + 1] = c /\ \A x \in 1..Len(es) : t[x] = es[x]
  <2>1. IsSeq(es)
    BY DEF Deep
  <2>. QED BY <2>1, SeqGrows
<1>2. PICK p : Lists(es, i, p) /\ \A x \in 1..Len(es) : Flat(es[x].kids, p[x])
  BY DEF Deep
<1>3. \E q : q = [x \in 1..(Len(es) + 1) |-> IF x <= Len(es) THEN p[x] ELSE k]
  OBVIOUS
<1>4. PICK q : q = [x \in 1..(Len(es) + 1) |-> IF x <= Len(es) THEN p[x] ELSE k]
  BY <1>3
<1>5. Lists(t, i, q)'
  BY <1>1, <1>2, <1>4, ListsAttached
<1>6. ASSUME NEW x \in 1..Len(t) PROVE Flat(t[x].kids, q[x])'
  <2>1. CASE x = Len(es) + 1
    <3>1. q[x] = k /\ t[x] = c
      BY <1>1, <1>4, <2>1
    <3>. HIDE DEF t
    <3>. QED BY <3>1
  <2>2. CASE x \in 1..Len(es)
    <3> DEFINE y  == p[x]
               ks == es[x].kids
    <3>1. q[x] = y /\ t[x].kids = ks
      BY <1>1, <1>4, <2>2
    <3>2. p[x] \in Opens /\ EndOf(p[x]) < m
      <4>1. p[x] \in Done(i)
        BY <1>2, <2>2 DEF Lists
      <4>. QED BY <4>1, DoneIn
    <3>3. Flat(ks, y) /\ Done(y)' = Done(y)
      BY <1>2, <2>2, <3>2, DoneKept
    <3>. HIDE DEF y, ks, t
    <3>4. Flat(ks, y)'
      BY <3>3, FlatKept
    <3>. QED BY <3>1, <3>4
  <2>. QED BY <1>1, <2>1, <2>2
<1>7. Deep(t, i)'
  <2>. HIDE DEF t
  <2>. QED BY <1>1, <1>5, <1>6 DEF Deep
<1>. QED BY <1>7 DEF t

----------------------------------------------------------------------------
\* The invariant.  The document knows the elements that are open, a chain; the parser its
\* depth and a stack.

\* The open child c of the stanza is the element that begins at i, with what it holds so
\* far.
Holding(c, i) ==
  /\ c = [name |-> c.name, text |-> c.text, kids |-> c.kids]
  /\ Shows(c, i) /\ Flat(c.kids, i)

\* Inside a stanza the stack is the part of the chain behind the stanza's own start.
Inside(h, o) ==
  /\ root = fed[o[Top + 1]].name /\ root \in Stanza
  /\ Deep(kids, o[Top + 1])
  /\ IsSeq(stack) /\ Len(stack) = h - Top - 1
  /\ \A j \in 1..Len(stack) : Holding(stack[j], o[Top + 1 + j])

\* The parser's depth is the document's.
Follows(h, o) ==
  /\ depth = h
  /\ h >= Top => streamDepth = Top
  /\ state = IF h > Top THEN "inStanza" ELSE "idle"
  /\ Top = 1 /\ h > 0 => o[1] = 1
  /\ h > Top => Inside(h, o)

\* A reader that begins inside a stanza sees no stanza.
StanzaLess == root \in Inner /\ \A i \in DOMAIN fed : fed[i].name \in Inner

\* A reader that began between stanzas is where the document is, one that began inside an
\* element sees no stanza; and what was returned is right.
ParserInv ==
  /\ fed \in Seq(Event) /\ Here \in Nat /\ cut \in {"none"} \cup Elements
  /\ \E o : Chain(o) /\ (cut = "none" => Follows(Here, o))
  /\ cut # "none" => StanzaLess
  /\ ReturnsWhatIsThere

----------------------------------------------------------------------------
\* What a completed stanza means is what the parser makes of its children.

LEMMA Found ==
  ASSUME NEW i, Done(i) = Within(i) \cap Opens, NEW es, IsSeq(es), NEW p, Lists(es, i, p),
         NEW n, Done(i) \subseteq Nat
  PROVE  /\ \A x \in DOMAIN es : p[x] \in Named(i, n) <=> es[x].name = n
         /\ \A k \in Named(i, n) : \E x \in DOMAIN es : p[x] = k
         /\ \A x \in DOMAIN es : p[x] \in First(Named(i, n)) <=> x \in FirstNamed(es, n)
         /\ HasText(es, n) <=> \E k \in Named(i, n) : Texted(k)
<1>0. /\ Len(es) \in Nat /\ DOMAIN es = 1..Len(es)
      /\ p \in [1..Len(es) -> Done(i)] /\ \A x, y \in 1..Len(es) : x < y => p[x] < p[y]
      /\ \A k \in Done(i) : \E x \in 1..Len(es) : p[x] = k
      /\ \A x \in 1..Len(es) : es[x].name = fed[p[x]].name /\ (es[x].text <=> Texted(p[x]))
  BY DEF IsSeq, Lists, Shows
<1>1. Named(i, n) = {k \in Done(i) : fed[k].name = n}
  BY DEF Named
<1>2. \A x \in DOMAIN es : p[x] \in Named(i, n) <=> es[x].name = n
  BY <1>0, <1>1
<1>3. \A k \in Named(i, n) : \E x \in DOMAIN es : p[x] = k
  BY <1>0, <1>1
<1>4. ASSUME NEW x \in DOMAIN es
      PROVE  p[x] \in First(Named(i, n)) <=> x \in FirstNamed(es, n)
  <2>1. \A y \in DOMAIN es : p[y] \in Nat /\ y \in Nat
    BY <1>0
  <2>2. ASSUME p[x] \in First(Named(i, n)) PROVE x \in FirstNamed(es, n)
    <3>1. p[x] \in Named(i, n) /\ \A l \in Named(i, n) : p[x] <= l
      BY <2>2 DEF First
    <3>2. ASSUME NEW j \in 1..(x - 1), es[j].name = n PROVE FALSE
      <4>1. j \in DOMAIN es /\ j < x
        BY <1>0
      <4>2. p[j] < p[x] /\ p[j] \in Named(i, n)
        BY <1>0, <1>2, <3>2, <4>1
      <4>. QED BY <2>1, <3>1, <4>1, <4>2
    <3>. QED BY <1>2, <3>1, <3>2 DEF FirstNamed
  <2>3. ASSUME x \in FirstNamed(es, n) PROVE p[x] \in First(Named(i, n))
    <3>1. es[x].name = n /\ \A j \in 1..(x - 1) : es[j].name # n
      BY <2>3 DEF FirstNamed
    <3>2. ASSUME NEW l \in Named(i, n) PROVE p[x] <= l
      <4>1. PICK y \in DOMAIN es : p[y] = l
        BY <1>3
      <4>2. es[y].name = n
        BY <1>2, <4>1
      <4>3. ~(y < x)
        <5>. SUFFICES ASSUME y < x PROVE FALSE
          OBVIOUS
        <5>1. y \in 1..(x - 1)
          BY <1>0
        <5>. QED BY <3>1, <4>2, <5>1
      <4>4. x = y \/ x < y
        BY <2>1, <4>3
      <4>. QED BY <1>0, <2>1, <4>1, <4>4
    <3>. QED BY <1>2, <3>1, <3>2 DEF First
  <2>. QED BY <2>2, <2>3
<1>5. HasText(es, n) <=> \E k \in Named(i, n) : Texted(k)
  <2>1. ASSUME HasText(es, n) PROVE \E k \in Named(i, n) : Texted(k)
    <3>1. PICK x \in DOMAIN es : es[x].name = n /\ es[x].text
      BY <2>1 DEF HasText
    <3>2. p[x] \in Named(i, n) /\ Texted(p[x])
      BY <1>0, <1>2, <3>1
    <3>. QED BY <3>2
  <2>2. ASSUME NEW k \in Named(i, n), Texted(k) PROVE HasText(es, n)
    <3>1. PICK x \in DOMAIN es : p[x] = k
      BY <1>3
    <3>2. es[x].name = n /\ es[x].text
      BY <1>0, <1>2, <2>2, <3>1
    <3>. QED BY <3>2 DEF HasText
  <2>. QED BY <2>1, <2>2
<1>. QED BY <1>2, <1>3, <1>4, <1>5

LEMMA MeaningFound ==
  ASSUME NEW m, NEW h, NEW o, Doc(m, h, o), h > 0, NEW es, Deep(es, o[h])
  PROVE  Finalize(fed[o[h]].name, es) = Meaning(o[h])
<1> DEFINE i == o[h]
<1>0. h \in 1..h /\ i \in Opens
  BY ChainIs
<1>1. Done(i) = Within(i) \cap Opens /\ Done(i) \subseteq Nat
  <2>1. Done(i) = Within(i) \cap Opens
    BY <1>0, AllDone
  <2>2. \A k \in Done(i) : k \in 1..(m - 1)
    BY DoneIn
  <2>. QED BY <2>1, <2>2
<1>2. PICK p : Lists(es, i, p) /\ \A x \in 1..Len(es) : Flat(es[x].kids, p[x])
  BY DEF Deep
<1>3. IsSeq(es) /\ DOMAIN es = 1..Len(es)
  <2>1. IsSeq(es)
    BY DEF Deep
  <2>. QED BY <2>1, SeqGrows
<1> HIDE DEF i
<1>4. \A n : /\ \A x \in DOMAIN es : p[x] \in Named(i, n) <=> es[x].name = n
             /\ \A k \in Named(i, n) : \E x \in DOMAIN es : p[x] = k
             /\ \A x \in DOMAIN es : p[x] \in First(Named(i, n)) <=> x \in FirstNamed(es, n)
             /\ HasText(es, n) <=> \E k \in Named(i, n) : Texted(k)
  BY <1>1, <1>2, <1>3, Found
\* The same one level down.
<1>5. ASSUME NEW x \in DOMAIN es, NEW n
      PROVE  /\ HasText(es[x].kids, n) <=> \E k \in Named(p[x], n) : Texted(k)
             /\ (\E u \in FirstNamed(es[x].kids, n) : es[x].kids[u].text)
                  <=> \E u \in First(Named(p[x], n)) : Texted(u)
  <2> DEFINE y  == p[x]
             ks == es[x].kids
  <2>1. y \in Opens /\ EndOf(y) < m
    <3>1. p[x] \in Done(i)
      BY <1>2, <1>3 DEF Lists
    <3>. QED BY <3>1, DoneIn
  <2>2. Done(y) = Within(y) \cap Opens /\ Done(y) \subseteq Nat
    <3>1. Done(y) = Within(y) \cap Opens
      BY <2>1, AllDone
    <3>2. \A k \in Done(y) : k \in 1..(m - 1)
      BY DoneIn
    <3>. QED BY <3>1, <3>2
  <2>3. Flat(ks, y)
    BY <1>2, <1>3
  <2>. HIDE DEF y, ks
  <2>4. IsSeq(ks) /\ \E g : Lists(ks, y, g)
    BY <2>3 DEF Flat
  <2>5. PICK g : Lists(ks, y, g)
    BY <2>4
  <2>6. /\ \A z \in DOMAIN ks : g[z] \in First(Named(y, n)) <=> z \in FirstNamed(ks, n)
        /\ \A k \in Named(y, n) : \E z \in DOMAIN ks : g[z] = k
        /\ HasText(ks, n) <=> \E k \in Named(y, n) : Texted(k)
    BY <2>2, <2>4, <2>5, Found
  <2>7. \A z \in DOMAIN ks : ks[z].text <=> Texted(g[z])
    <3>1. DOMAIN ks = 1..Len(ks)
      BY <2>4, SeqGrows
    <3>. QED BY <2>5, <3>1 DEF Lists, Shows
  <2>8. (\E u \in FirstNamed(ks, n) : ks[u].text) <=> \E u \in First(Named(y, n)) : Texted(u)
    <3>1. ASSUME NEW u \in FirstNamed(ks, n), ks[u].text
          PROVE  \E w \in First(Named(y, n)) : Texted(w)
      <4>1. u \in DOMAIN ks
        BY DEF FirstNamed
      <4>2. g[u] \in First(Named(y, n)) /\ Texted(g[u])
        BY <2>6, <2>7, <3>1, <4>1
      <4>. QED BY <4>2
    <3>2. ASSUME NEW w \in First(Named(y, n)), Texted(w)
          PROVE  \E u \in FirstNamed(ks, n) : ks[u].text
      <4>1. w \in Named(y, n)
        BY DEF First
      <4>2. PICK u \in DOMAIN ks : g[u] = w
        BY <2>6, <4>1
      <4>3. u \in FirstNamed(ks, n) /\ ks[u].text
        BY <2>6, <2>7, <3>2, <4>2
      <4>. QED BY <4>3
    <3>. QED BY <3>1, <3>2
  <2>. QED BY <2>6, <2>8 DEF y, ks
<1>6. IsReaction(es) <=>
        \E r \in First(Named(i, "reactions")) : \E e \in Named(r, "reaction") : Texted(e)
  <2>1. ASSUME NEW x \in FirstNamed(es, "reactions"), HasText(es[x].kids, "reaction")
        PROVE  \E r \in First(Named(i, "reactions")) : \E e \in Named(r, "reaction") : Texted(e)
    <3>1. x \in DOMAIN es
      BY DEF FirstNamed
    <3>2. p[x] \in First(Named(i, "reactions")) /\ \E e \in Named(p[x], "reaction") : Texted(e)
      BY <1>4, <1>5, <2>1, <3>1
    <3>. QED BY <3>2
  <2>2. ASSUME NEW r \in First(Named(i, "reactions")), \E e \in Named(r, "reaction") : Texted(e)
        PROVE  \E x \in FirstNamed(es, "reactions") : HasText(es[x].kids, "reaction")
    <3>1. r \in Named(i, "reactions")
      BY DEF First
    <3>2. PICK x \in DOMAIN es : p[x] = r
      BY <1>4, <3>1
    <3>3. x \in FirstNamed(es, "reactions") /\ HasText(es[x].kids, "reaction")
      BY <1>4, <1>5, <2>2, <3>2
    <3>. QED BY <3>3
  <2>. QED BY <2>1, <2>2 DEF IsReaction
<1>7. HasBody(es) <=> \E b \in First(Named(i, "body")) : Texted(b)
  <2>0. \A x \in DOMAIN es : es[x].text <=> Texted(p[x])
    BY <1>2, <1>3 DEF Lists, Shows
  <2>1. ASSUME NEW x \in FirstNamed(es, "body"), es[x].text
        PROVE  \E b \in First(Named(i, "body")) : Texted(b)
    <3>1. x \in DOMAIN es
      BY DEF FirstNamed
    <3>2. p[x] \in First(Named(i, "body")) /\ Texted(p[x])
      BY <1>4, <2>0, <2>1, <3>1
    <3>. QED BY <3>2
  <2>2. ASSUME NEW b \in First(Named(i, "body")), Texted(b)
        PROVE  \E x \in FirstNamed(es, "body") : es[x].text
    <3>1. b \in Named(i, "body")
      BY DEF First
    <3>2. PICK x \in DOMAIN es : p[x] = b
      BY <1>4, <3>1
    <3>3. x \in FirstNamed(es, "body") /\ es[x].text
      BY <1>4, <2>0, <2>2, <3>2
    <3>. QED BY <3>3
  <2>. QED BY <2>1, <2>2 DEF HasBody
<1>8. HasFile(es) <=> \E a \in Named(i, "x") : \E u \in First(Named(a, "url")) : Texted(u)
  <2>1. ASSUME NEW x \in DOMAIN es, es[x].name = "x",
               \E u \in FirstNamed(es[x].kids, "url") : es[x].kids[u].text
        PROVE  \E a \in Named(i, "x") : \E u \in First(Named(a, "url")) : Texted(u)
    <3>1. p[x] \in Named(i, "x") /\ \E u \in First(Named(p[x], "url")) : Texted(u)
      BY <1>4, <1>5, <2>1
    <3>. QED BY <3>1
  <2>2. ASSUME NEW a \in Named(i, "x"), \E u \in First(Named(a, "url")) : Texted(u)
        PROVE  \E x \in DOMAIN es :
                 es[x].name = "x" /\ \E u \in FirstNamed(es[x].kids, "url") : es[x].kids[u].text
    <3>1. PICK x \in DOMAIN es : p[x] = a
      BY <1>4
    <3>2. es[x].name = "x" /\ \E u \in FirstNamed(es[x].kids, "url") : es[x].kids[u].text
      BY <1>4, <1>5, <2>2, <3>1
    <3>. QED BY <3>2
  <2>. QED BY <2>1, <2>2 DEF HasFile
<1>9. \A n : (\E x \in DOMAIN es : es[x].name = n) <=> Named(i, n) # {}
  <2>. SUFFICES ASSUME NEW n PROVE (\E x \in DOMAIN es : es[x].name = n) <=> Named(i, n) # {}
    OBVIOUS
  <2>. QED BY <1>4
<1>10. /\ IsTyping(es) <=> Named(i, "composing") # {}
       /\ (\E x \in DOMAIN es : es[x].name = "conflict") <=> Named(i, "conflict") # {}
  BY <1>9 DEF IsTyping
<1>11. Message(es) =
         IF \E r \in First(Named(i, "reactions")) : \E e \in Named(r, "reaction") : Texted(e)
         THEN "reaction"
         ELSE IF \E b \in First(Named(i, "body")) : Texted(b) THEN "message"
         ELSE IF /\ \E a \in Named(i, "x") : \E u \in First(Named(a, "url")) : Texted(u)
                 /\ Named(i, "composing") = {}
              THEN "message" ELSE "ignored"
  BY <1>6, <1>7, <1>8, <1>10 DEF Message
<1>12. Finalize(fed[i].name, es) = Meaning(i)
  BY <1>10, <1>11 DEF Finalize, Meaning
<1>. QED BY <1>12 DEF i

\* An end changes nothing in what the elements that were there mean.
LEMMA MeaningKept ==
  ASSUME NEW m, NEW e, Grows(m, e), e.kind = "end", NEW i \in Opens
  PROVE  Meaning(i)' = Meaning(i)
<1>1. /\ Opens' = Opens
      /\ \A k \in Opens : fed'[k] = fed[k] /\ Within(k)' = Within(k)
  <2>1. Opens' = Opens
    BY NewOpens
  <2>. QED BY <2>1, OpensGrow, WithinGrows
<1>2. ASSUME NEW k \in Opens PROVE Texted(k)' <=> Texted(k)
  <2>1. \A j \in Within(k) : fed'[j] = fed[j]
    <3>1. \A j \in DOMAIN fed : fed'[j] = fed[j]
      BY GrownDocument
    <3>. QED BY <3>1 DEF Within
  <2>. QED BY <1>1, <2>1 DEF Texted
<1>3. ASSUME NEW k \in Opens, NEW n PROVE Named(k, n)' = Named(k, n) /\ Named(k, n) \subseteq Opens
  <2>1. Named(k, n)' = {j \in Within(k)' \cap Opens' : fed'[j].name = n}
    BY DEF Named
  <2>. QED BY <1>1, <2>1 DEF Named
<1>4. \A n : /\ Named(i, n)' = Named(i, n)
             /\ First(Named(i, n))' = First(Named(i, n))
             /\ First(Named(i, n)) \subseteq Opens
  BY <1>3 DEF First
<1>5. (\E r \in First(Named(i, "reactions"))' : \E x \in Named(r, "reaction")' : Texted(x)')
        <=> \E r \in First(Named(i, "reactions")) : \E x \in Named(r, "reaction") : Texted(x)
  BY <1>2, <1>3, <1>4
<1>6. (\E b \in First(Named(i, "body"))' : Texted(b)') <=> \E b \in First(Named(i, "body")) : Texted(b)
  BY <1>2, <1>4
<1>7. (\E a \in Named(i, "x")' : \E u \in First(Named(a, "url"))' : Texted(u)')
        <=> \E a \in Named(i, "x") : \E u \in First(Named(a, "url")) : Texted(u)
  <2>1. ASSUME NEW a \in Named(i, "x")
        PROVE  (\E u \in First(Named(a, "url"))' : Texted(u)') <=> \E u \in First(Named(a, "url")) : Texted(u)
    <3>1. /\ First(Named(a, "url"))' = First(Named(a, "url"))
          /\ First(Named(a, "url")) \subseteq Opens
      BY <1>3 DEF First
    <3>. QED BY <1>2, <3>1
  <2>. QED BY <1>4, <2>1
<1>8. fed'[i].name = fed[i].name
  BY <1>1
<1>. QED BY <1>4, <1>5, <1>6, <1>7, <1>8 DEF Meaning

\* An empty stanza means what the parser makes of no children.
LEMMA MeaningEmpty ==
  ASSUME NEW m, NEW e, Grows(m, e), e.kind = "empty"
  PROVE  Meaning(m)' = Finalize(e.name, <<>>)
<1>1. Within(m)' = {} /\ fed'[m] = e
  BY NewWithin, GrownDocument
<1>2. \A n : Named(m, n)' = {} /\ First(Named(m, n))' = {}
  BY <1>1 DEF Named, First
<1>3. DOMAIN <<>> = {}
  OBVIOUS
<1>4. Message(<<>>) = "ignored"
  BY <1>3 DEF Message, IsReaction, HasBody, HasFile, FirstNamed
<1>5. Finalize(e.name, <<>>) =
        CASE e.name = "message"      -> "ignored"
          [] e.name = "presence"     -> "presence"
          [] e.name = "stream:error" -> "unknown"
          [] OTHER                   -> "ignored"
  BY <1>3, <1>4 DEF Finalize
<1>. QED BY <1>1, <1>2, <1>5 DEF Meaning

----------------------------------------------------------------------------
\* Each event keeps the parser beside the document. In the lemmas of this section the reader
\* began between stanzas, q is the new chain and t the level of the stanzas.

LEMMA TopKept ==
  ASSUME NEW m, NEW e, Grows(m, e), cut' = cut, m > 1
  PROVE  Top' = Top
<1>1. fed # <<>> /\ fed' # <<>> /\ fed'[1] = fed[1]
  <2>1. 1 \in 1..(m - 1) /\ Len(fed) = m - 1 /\ Len(fed') = m /\ m \in Nat
    BY GrownDocument
  <2>2. Len(<<>>) = 0
    OBVIOUS
  <2>3. fed'[1] = fed[1]
    BY <2>1, GrownDocument
  <2>. QED BY <2>1, <2>2, <2>3
<1>. QED BY <1>1 DEF Top

LEMMA TopBegins ==
  ASSUME NEW m, NEW e, Grows(m, e), cut' = cut, cut = "none", m = 1
  PROVE  Top = 0 /\ Top' = IF e.name \in Stream THEN 1 ELSE 0
<1>1. fed' # <<>> /\ fed'[1] = e /\ Len(fed) = 0
  <2>1. Len(fed') = 1 /\ Len(<<>>) = 0
    BY GrownDocument
  <2>. QED BY <2>1, GrownDocument
<1>2. fed = <<>>
  BY <1>1 DEF Grows
<1>. QED BY <1>1, <1>2 DEF Top

LEMMA TopType == Top \in {0, 1}
BY DEF Top

LEMMA EmptySeqIs == IsSeq(<<>>) /\ Len(<<>>) = 0
BY DEF IsSeq

LEMMA NothingHeld ==
  ASSUME NEW m, NEW e, Grows(m, e), e.kind \in {"start", "empty"}
  PROVE  Flat(<<>>, m)' /\ Deep(<<>>, m)'
<1> DEFINE p == [x \in {} |-> 0]
<1>1. Done(m)' = {}
  BY NewTexted
<1>2. Lists(<<>>, m, p)'
  BY <1>1, EmptySeqIs DEF Lists
<1>. QED
  <2>. HIDE DEF p
  <2>. QED BY <1>2, EmptySeqIs DEF Flat, Deep

\* A new child without text and children is the element that has begun.
LEMMA NewHolding ==
  ASSUME NEW m, NEW e, Grows(m, e), e.kind \in {"start", "empty"}, NEW n, n = e.name
  PROVE  Holding(Element(n), m)'
<1> DEFINE c == Element(n)
<1>1. c.name = n /\ c.text = FALSE /\ c.kids = <<>> /\ c = [name |-> n, text |-> FALSE, kids |-> <<>>]
  BY DEF Element
<1>2. Shows(c, m)'
  <2>1. fed'[m] = e /\ ~Texted(m)'
    BY GrownDocument, NewTexted
  <2>. HIDE DEF c
  <2>. QED BY <1>1, <2>1 DEF Shows
<1>3. Flat(c.kids, m)'
  <2>. HIDE DEF c
  <2>. QED BY <1>1, NothingHeld
<1>4. c = [name |-> c.name, text |-> c.text, kids |-> c.kids]
  BY DEF Element
<1>. QED
  <2>. HIDE DEF c
  <2>1. Holding(c, m)'
    BY <1>2, <1>3, <1>4 DEF Holding
  <2>. QED BY <2>1 DEF c

LEMMA HoldingKept ==
  ASSUME NEW m, NEW h, NEW o, Doc(m, h, o), NEW e, Grows(m, e), e.kind = "end" => h > 0,
         NEW i \in Opens, Done(i)' = Done(i), Texted(i)' <=> Texted(i), NEW c, Holding(c, i)
  PROVE  Holding(c, i)'
<1> DEFINE ks == c.kids
<1>1. Flat(ks, i)
  BY DEF Holding
<1>2. Flat(ks, i)'
  <2>. HIDE DEF ks
  <2>. QED BY <1>1, FlatKept
<1>3. fed'[i] = fed[i]
  BY OpensGrow
<1>. QED BY <1>2, <1>3 DEF Holding, Shows

LEMMA ChildPlace ==
  ASSUME NEW h \in Nat, NEW t \in Nat, NEW z \in Nat, NEW n \in 1..h, n = t + 1 + z,
         NEW j \in 1..z, j # z
  PROVE  t + 1 + j \in 1..h /\ t + 1 + j \in 1..n /\ t + 1 + j # n
OBVIOUS

\* A child that has been completed, into the one that holds it or into the stanza.
Attaches(h, o, t, es, st, n, k, c) ==
  /\ t \in Nat /\ IsSeq(st) /\ n = t + 1 + Len(st) /\ n \in 1..h
  /\ Deep(es, o[t + 1]) /\ \A j \in 1..Len(st) : Holding(st[j], o[t + 1 + j])
  /\ k \in Nat /\ Done(o[n])' = Done(o[n]) \cup {k} /\ \A j \in Done(o[n]) : j < k
  /\ \A l \in 1..n : l # n => Done(o[l])' = Done(o[l])
  /\ \A l \in 1..n : Texted(o[l])' <=> Texted(o[l])
  /\ Holding(c, k)'

LEMMA Attached ==
  ASSUME NEW m, NEW h, NEW o, Doc(m, h, o), NEW e, Grows(m, e), e.kind = "end" => h > 0,
         NEW t, NEW es, NEW st, NEW n, NEW k, NEW c, Attaches(h, o, t, es, st, n, k, c),
         NEW es1, es1 = Into(es, st, c)[1], NEW st1, st1 = Into(es, st, c)[2]
  PROVE  /\ Deep(es1, o[t + 1])' /\ IsSeq(st1) /\ Len(st1) = Len(st)
         /\ \A j \in 1..Len(st) : Holding(st1[j], o[t + 1 + j])'
<1> USE DEF Attaches
<1>0. /\ o \in [1..h -> Opens] /\ Len(st) \in Nat /\ DOMAIN st = 1..Len(st) /\ n \in Nat /\ h \in Nat
  <2>1. o \in [1..h -> Opens] /\ h \in Nat
    BY ChainIs
  <2>2. Len(st) \in Nat /\ DOMAIN st = 1..Len(st)
    BY SeqGrows
  <2>. QED BY <2>1, <2>2
<1>1. Shows(c, k)' /\ Flat(c.kids, k)'
  BY DEF Holding
<1>2. CASE st = <<>>
  <2>1. es1 = Append(es, c) /\ st1 = <<>> /\ n = t + 1 /\ Len(st) = 0
    BY <1>2, EmptySeqIs DEF Into
  <2> DEFINE i == o[n]
  <2>2. Deep(es, i) /\ Done(i)' = Done(i) \cup {k} /\ \A j \in Done(i) : j < k
    BY <2>1
  <2>. HIDE DEF i
  <2>3. Deep(Append(es, c), i)'
    BY <1>1, <2>2, DeepAttached
  <2>4. i = o[t + 1]
    BY <2>1 DEF i
  <2>. QED BY <2>1, <2>3, <2>4, EmptySeqIs
<1>3. CASE st # <<>>
  <2> DEFINE z == Len(st)
  <2>1. es1 = es /\ st1 = [st EXCEPT ![z].kids = Append(@, c)]
    BY <1>3 DEF Into
  <2>2. z \in 1..z /\ t + 1 \in 1..n /\ t + 1 # n
    <3>1. Len(st) # 0
      BY <1>3 DEF IsSeq
    <3>. QED BY <1>0, <3>1
  <2>3. Deep(es1, o[t + 1])'
    <3> DEFINE i == o[t + 1]
    <3>1. Deep(es, i) /\ Done(i)' = Done(i)
      BY <2>2
    <3>. HIDE DEF i
    <3>2. Deep(es, i)'
      BY <3>1, DeepKept
    <3>. QED BY <2>1, <3>2 DEF i
  <2>4. /\ IsSeq(st1) /\ Len(st1) = z
        /\ \A j \in 1..z : st1[j] = IF j = z THEN [st[z] EXCEPT !.kids = Append(@, c)] ELSE st[j]
    <3> DEFINE r == [st[z] EXCEPT !.kids = Append(@, c)]
               T == {st[j] : j \in DOMAIN st} \cup {r}
    <3>1. st \in Seq(T) /\ r \in T /\ st1 = [st EXCEPT ![z] = r]
      BY <2>1 DEF IsSeq
    <3>. HIDE DEF r, T
    <3>2. st1 \in Seq(T) /\ Len(st1) = z /\ \A j \in 1..z : st1[j] = IF j = z THEN r ELSE st[j]
      BY <1>0, <2>2, <3>1
    <3>3. IsSeq(st1)
      BY <3>2, SeqIs
    <3>. QED BY <3>2, <3>3 DEF r
  <2>5. ASSUME NEW j \in 1..z, j # z PROVE Holding(st1[j], o[t + 1 + j])'
    <3> DEFINE i == o[t + 1 + j]
               d == st[j]
    <3>1. t + 1 + j \in 1..h /\ t + 1 + j \in 1..n /\ t + 1 + j # n
      <4>1. z \in Nat /\ n = t + 1 + z /\ j \in 1..z /\ j # z
        BY <1>0, <2>5
      <4>. HIDE DEF z
      <4>. QED BY <1>0, <4>1, ChildPlace
    <3>2. i \in Opens /\ Done(i)' = Done(i) /\ (Texted(i)' <=> Texted(i)) /\ Holding(d, i)
      BY <1>0, <3>1
    <3>3. st1[j] = d
      BY <2>4, <2>5
    <3>. HIDE DEF i, d
    <3>4. Holding(d, i)'
      BY <3>2, HoldingKept
    <3>. QED BY <3>3, <3>4 DEF i
  <2>6. Holding(st1[z], o[t + 1 + z])'
    <3> DEFINE i  == o[n]
               d  == st[z]
               ks == d.kids
    <3>1. n = t + 1 + z /\ n \in 1..n
      BY <1>0
    <3>2. /\ i \in Opens /\ Holding(d, i) /\ (Texted(i)' <=> Texted(i))
          /\ Done(i)' = Done(i) \cup {k} /\ \A j \in Done(i) : j < k
      <4>1. Holding(st[z], o[t + 1 + z])
        BY <2>2
      <4>. QED BY <1>0, <3>1, <4>1
    <3>3. st1[z] = [d EXCEPT !.kids = Append(@, c)]
      BY <2>2, <2>4
    <3>. HIDE DEF i, d
    <3>4. Flat(ks, i)
      BY <3>2 DEF Holding
    <3>5. Flat(Append(ks, c), i)'
      <4>. HIDE DEF ks
      <4>. QED BY <1>1, <3>2, <3>4, FlatAttached
    <3>6. d = [name |-> d.name, text |-> d.text, kids |-> ks] /\ Shows(d, i)
      BY <3>2 DEF Holding
    <3> DEFINE r == st1[z]
    <3>7. r = [name |-> d.name, text |-> d.text, kids |-> Append(ks, c)]
      BY <3>3, <3>6
    <3>. HIDE DEF r, ks
    <3>8. /\ r.name = d.name /\ r.text = d.text /\ r.kids = Append(ks, c)
          /\ r = [name |-> r.name, text |-> r.text, kids |-> r.kids]
      BY <3>7
    <3>9. fed'[i] = fed[i]
      BY <3>2, OpensGrow
    <3>10. Shows(r, i)'
      BY <3>2, <3>6, <3>8, <3>9 DEF Shows
    <3>11. Holding(r, i)'
      BY <3>5, <3>8, <3>10 DEF Holding
    <3>. QED BY <3>1, <3>11 DEF r, i
  <2>7. \A j \in 1..Len(st) : Holding(st1[j], o[t + 1 + j])'
    BY <2>5, <2>6
  <2>. QED BY <2>3, <2>4, <2>7
<1>. QED BY <1>2, <1>3

\* Which element of the stanza level the event completes.
LEMMA CompletedBy ==
  ASSUME NEW m, NEW h, NEW o, Doc(m, h, o), NEW e, Grows(m, e), e.kind = "end" => h > 0, NEW i
  PROVE  i \in Completed' <=>
           \/ e.kind = "empty" /\ i = m /\ h = Top' /\ e.name \notin Stream
           \/ e.kind = "end" /\ i = o[h] /\ h - 1 = Top' /\ fed[i].name \notin Stream
<1>0. /\ m \in Nat \ {0} /\ h \in Nat /\ h = Here /\ Len(fed') = m /\ fed'[m] = e
      /\ e.kind \in {"start", "empty", "text", "end"}
  BY ChainIs, GrownDocument DEF Grows, Event
<1>1. i \in Completed' <=>
        i \in Opens' /\ EndOf(i)' = m /\ Level(i)' = Top' /\ fed'[i].name \notin Stream
  BY <1>0 DEF Completed
<1>2. CASE i \in Opens
  <2>1. /\ i \in 1..(m - 1) /\ i \in Opens' /\ fed'[i] = fed[i] /\ Level(i)' = Level(i)
        /\ EndOf(i) \in i..m
        /\ EndOf(i) < m => EndOf(i)' = EndOf(i)
        /\ EndOf(i) = m => EndOf(i)' = IF Ended(m, e, i) THEN m ELSE m + 1
    BY <1>2, OpensGrow
  <2>2. EndOf(i)' = m <=> EndOf(i) = m /\ e.kind = "end" /\ h = Level(i) + 1
    BY <1>0, <2>1 DEF Ended
  <2>3. Level(i) \in Int
    <3>1. i \in 1..m
      BY <1>0, <2>1
    <3>. QED BY <3>1, LevelGrows
  <2>4. e.kind = "end" => (i = o[h] <=> EndOf(i) = m /\ Level(i) = h - 1)
    BY <1>2, IsInnermost
  <2>5. i # m
    BY <1>0, <2>1
  <2>. QED BY <1>0, <1>1, <2>1, <2>2, <2>3, <2>4, <2>5
<1>3. CASE i \notin Opens
  <2>1. i \in Opens' <=> i = m /\ e.kind \in {"start", "empty"}
    BY <1>3, NewOpens
  <2>2. e.kind = "end" => o[h] \in Opens
    <3>. SUFFICES ASSUME e.kind = "end" PROVE o[h] \in Opens
      OBVIOUS
    <3>1. h \in 1..h
      BY <1>0
    <3>. QED BY <3>1, ChainIs
  <2>3. Level(m)' = h
    <3>1. m \in 1..m
      BY <1>0
    <3>. QED BY <1>0, <3>1, LevelGrows
  <2>4. /\ e.kind = "empty" => EndOf(m)' = m
        /\ e.kind = "start" => EndOf(m)' # m
    BY <1>0, NewEnd
  <2>. QED BY <1>0, <1>1, <1>3, <2>1, <2>2, <2>3, <2>4
<1>. QED BY <1>2, <1>3

LEMMA FirstEvent ==
  ASSUME NEW m, NEW h, NEW o, Doc(m, h, o), NEW e, Grows(m, e)
  PROVE  m \in Nat \ {0} /\ h \in Nat /\ (m = 1 => h = 0)
<1>1. m \in Nat \ {0} /\ h \in Nat /\ h = Here
  BY ChainIs
<1>2. Here = Level(m) /\ Level(1) = 0
  BY LevelGrows
<1>. QED BY <1>1, <1>2

LEMMA StartFollows ==
  ASSUME NEW m, NEW h, NEW o, Doc(m, h, o), NEW e, Grows(m, e), e.kind = "start",
         cut = "none", cut' = cut, Follows(h, o), h >= Top,
         m = 1 => e.name \in Stanza \cup {"stream:stream"},
         m > 1 /\ h = Top => e.name \in Stanza,
         OnHeader(e.name) \/ OnStart(e.name)
  PROVE  Follows(h + 1, NewChain(m, h, o, "start"))' /\ result' \in {"none", "level"}
<1> DEFINE q == NewChain(m, h, o, "start")
           n == e.name
<1>0. /\ m \in Nat \ {0} /\ h \in Nat /\ (m = 1 => h = 0) /\ Top \in {0, 1}
      /\ o \in [1..h -> Opens] /\ fed'[m] = e
  BY FirstEvent, ChainIs, TopType, GrownDocument
<1>1. (\A l \in 1..h : q[l] = o[l]) /\ q[h + 1] = m
  BY <1>0 DEF NewChain
<1>2. /\ depth = h /\ streamDepth = Top /\ state = IF h > Top THEN "inStanza" ELSE "idle"
      /\ Top = 1 /\ h > 0 => o[1] = 1
      /\ h > Top => Inside(h, o)
  BY DEF Follows
<1>3. Stanza \cap Stream = {} /\ "stream:stream" \in Stream
  BY DEF Stanza, Stream
<1> HIDE DEF q, n
<1>4. CASE OnHeader(n)
  <2>1. /\ state = "idle" /\ n \in Stream /\ depth' = depth + 1 /\ streamDepth' = depth'
        /\ result' = "level" /\ state' = state
    BY <1>4 DEF OnHeader, Returns
  <2>2. m = 1 /\ h = 0 /\ Top = 0
    BY <1>0, <1>2, <1>3, <2>1 DEF n
  <2>3. Top' = 1
    BY <2>1, <2>2, TopBegins DEF n
  <2>4. depth' = 1 /\ streamDepth' = 1 /\ state' = "idle" /\ q[1] = 1 /\ h + 1 = 1
    BY <1>1, <1>2, <2>1, <2>2
  <2>5. Follows(h + 1, q)'
    BY <2>3, <2>4 DEF Follows
  <2>. QED BY <2>1, <2>5 DEF q
<1>5. CASE OnStart(n)
  <2>1. /\ ~(state = "idle" /\ n \in Stream)
        /\ depth' = h + 1 /\ result' = "none" /\ streamDepth' = streamDepth
        /\ state = "idle" /\ depth' = streamDepth + 1 =>
             state' = "inStanza" /\ root' = n /\ stack' = <<>> /\ kids' = <<>>
        /\ ~(state = "idle" /\ depth' = streamDepth + 1) =>
             /\ state = "inStanza" => stack' = Append(stack, Element(n))
             /\ state' = state /\ root' = root /\ kids' = kids
    BY <1>2, <1>5 DEF OnStart, Returns
  <2>2. Top' = Top
    <3>1. CASE m > 1
      BY <3>1, TopKept
    <3>2. CASE m = 1
      <4>1. Top = 0 /\ h = 0 /\ Top' = IF n \in Stream THEN 1 ELSE 0
        BY <1>0, <3>2, TopBegins DEF n
      <4>. QED BY <1>2, <2>1, <4>1
    <3>. QED BY <1>0, <3>1, <3>2
  <2>3. Top = 1 /\ h + 1 > 0 => q[1] = 1
    BY <1>0, <1>1, <1>2
  <2>4. CASE h = Top
    <3>1. state = "idle" /\ depth' = streamDepth + 1
      BY <1>0, <1>2, <2>1, <2>4
    <3>2. n \in Stanza
      BY <1>0, <1>3, <2>1, <2>4, <3>1 DEF n
    <3>3. /\ root' = fed'[q[Top + 1]].name /\ root' \in Stanza
          /\ IsSeq(<<>>) /\ Len(<<>>) = (h + 1) - Top - 1
      BY <1>0, <1>1, <2>1, <2>4, <3>1, <3>2, EmptySeqIs DEF n
    <3>4. Deep(kids, q[Top + 1])'
      <4>1. Deep(<<>>, m)'
        BY NothingHeld
      <4>2. kids' = <<>> /\ m = q[Top + 1]'
        BY <1>1, <2>1, <2>2, <2>4, <3>1
      <4>. QED BY <4>1, <4>2
    <3>5. Inside(h + 1, q)'
      <4>1. stack' = <<>> /\ 1..Len(<<>>) = {}
        BY <2>1, <3>1, EmptySeqIs
      <4>. QED BY <2>2, <3>3, <3>4, <4>1 DEF Inside
    <3>6. state' = "inStanza" /\ h + 1 > Top
      BY <1>0, <2>1, <2>4, <3>1
    <3>7. Follows(h + 1, q)'
      BY <1>0, <1>2, <2>1, <2>2, <2>3, <3>5, <3>6 DEF Follows
    <3>. QED BY <2>1, <3>7 DEF q
  <2>5. CASE h > Top
    <3>1. /\ state = "inStanza" /\ state' = state /\ root' = root /\ kids' = kids
          /\ stack' = Append(stack, Element(n))
      BY <1>2, <2>1, <2>5
    <3>2. /\ root = fed[o[Top + 1]].name /\ root \in Stanza /\ Deep(kids, o[Top + 1])
          /\ IsSeq(stack) /\ Len(stack) = h - Top - 1
          /\ \A j \in 1..Len(stack) : Holding(stack[j], o[Top + 1 + j])
      BY <1>2, <2>5 DEF Inside
    <3>3. \A l \in 1..h : /\ o[l] \in Opens /\ Done(o[l])' = Done(o[l])
                          /\ (Texted(o[l])' <=> Texted(o[l])) /\ fed'[o[l]] = fed[o[l]]
      <4>. SUFFICES ASSUME NEW i \in Opens
                    PROVE  /\ Done(i)' = Done(i) /\ (Texted(i)' <=> Texted(i))
                           /\ fed'[i] = fed[i]
        BY <1>0
      <4>1. Done(i)' = Done(i)
        BY DoneGrows
      <4>2. Texted(i)' <=> Texted(i)
        BY TextedGrows
      <4>. QED BY <4>1, <4>2, OpensGrow
    <3>4. Top + 1 \in 1..h /\ q[Top + 1] = o[Top + 1]
      BY <1>0, <1>1, <2>5
    <3>5. Deep(kids, q[Top + 1])'
      <4>1. PICK b : b = o[Top + 1]
        OBVIOUS
      <4>2. PICK ks : ks = kids
        OBVIOUS
      <4>3. Deep(ks, b) /\ Done(b)' = Done(b)
        BY <3>2, <3>3, <3>4, <4>1, <4>2
      <4>4. Deep(ks, b)'
        BY <4>3, DeepKept
      <4>5. ks = kids' /\ b = q[Top + 1]'
        BY <2>2, <3>1, <3>4, <4>1, <4>2
      <4>. QED BY <4>4, <4>5
    <3>6. PICK st : st = stack
      OBVIOUS
    <3>7. /\ IsSeq(stack') /\ Len(stack') = Len(st) + 1
          /\ stack'[Len(st) + 1] = Element(n) /\ \A j \in 1..Len(st) : stack'[j] = st[j]
          /\ Len(st) \in Nat /\ Len(st) + 1 = (h + 1) - Top - 1
      BY <1>0, <3>1, <3>2, <3>6, SeqGrows
    <3>8. ASSUME NEW j \in 1..(Len(st) + 1) PROVE Holding(stack[j], q[Top + 1 + j])'
      <4>1. PICK y : y = Top + 1 + j
        OBVIOUS
      <4>2. CASE j = Len(st) + 1
        <5>1. y = h + 1 /\ q[y] = m
          BY <1>0, <1>1, <3>7, <4>1, <4>2
        <5>2. Holding(Element(n), m)'
          BY NewHolding DEF n
        <5>3. stack'[j] = Element(n) /\ q[Top + 1 + j]' = m
          BY <2>2, <3>7, <4>1, <4>2, <5>1
        <5>. QED BY <5>2, <5>3
      <4>3. CASE j \in 1..Len(st)
        <5>1. y \in 1..h
          BY <1>0, <3>7, <4>1, <4>3
        <5>2. PICK i : i = o[y]
          OBVIOUS
        <5>3. PICK d : d = st[j]
          OBVIOUS
        <5>4. /\ i \in Opens /\ Done(i)' = Done(i) /\ (Texted(i)' <=> Texted(i))
              /\ Holding(d, i)
          BY <3>2, <3>3, <3>6, <4>1, <4>3, <5>1, <5>2, <5>3
        <5>5. Holding(d, i)'
          BY <5>4, HoldingKept
        <5>6. stack'[j] = d /\ q[Top + 1 + j]' = i
          BY <1>1, <2>2, <3>7, <4>1, <4>3, <5>1, <5>2, <5>3
        <5>. QED BY <5>5, <5>6
      <4>. QED BY <3>7, <4>2, <4>3
    <3>9. Inside(h + 1, q)'
      <4>1. root' = fed'[q[Top + 1]].name
        BY <3>1, <3>2, <3>3, <3>4
      <4>. QED BY <2>2, <3>1, <3>2, <3>5, <3>7, <3>8, <4>1 DEF Inside
    <3>10. Follows(h + 1, q)'
      BY <1>0, <1>2, <2>1, <2>2, <2>3, <2>5, <3>1, <3>9 DEF Follows
    <3>. QED BY <2>1, <3>10 DEF q
  <2>. QED BY <1>0, <2>4, <2>5
<1>. QED BY <1>4, <1>5 DEF n

\* The text of a child, and no other, goes to the last on the stack.
LEMMA TextFollows ==
  ASSUME NEW m, NEW h, NEW o, Doc(m, h, o), NEW e, Grows(m, e), e.kind = "text",
         cut = "none", cut' = cut, Follows(h, o), h > Top, OnText
  PROVE  Follows(h, o)' /\ result' \in {"none", "level"}
<1>0. /\ m \in Nat \ {0} /\ h \in Nat /\ (m = 1 => h = 0) /\ Top \in {0, 1} /\ o \in [1..h -> Opens]
  BY FirstEvent, ChainIs, TopType
<1>1. /\ depth = h /\ streamDepth = Top /\ state = "inStanza" /\ (Top = 1 => o[1] = 1)
      /\ Inside(h, o)
  BY <1>0 DEF Follows
<1>2. /\ root = fed[o[Top + 1]].name /\ root \in Stanza /\ Deep(kids, o[Top + 1])
      /\ IsSeq(stack) /\ Len(stack) = h - Top - 1
      /\ \A j \in 1..Len(stack) : Holding(stack[j], o[Top + 1 + j])
  BY <1>1 DEF Inside
<1>3. /\ UNCHANGED <<depth, streamDepth, state, root, kids>> /\ result' = "none"
      /\ stack' = IF stack # <<>> THEN [stack EXCEPT ![Len(stack)].text = TRUE] ELSE stack
  BY <1>1 DEF OnText, Returns
<1>4. Top' = Top
  BY <1>0, TopKept
<1>5. \A l \in 1..h : /\ o[l] \in Opens /\ Done(o[l])' = Done(o[l]) /\ fed'[o[l]] = fed[o[l]]
                      /\ l # h => (Texted(o[l])' <=> Texted(o[l]))
                      /\ l = h => Texted(o[l])'
  <2>. SUFFICES ASSUME NEW l \in 1..h
                PROVE  /\ Done(o[l])' = Done(o[l]) /\ fed'[o[l]] = fed[o[l]]
                       /\ l # h => (Texted(o[l])' <=> Texted(o[l]))
                       /\ l = h => Texted(o[l])'
    BY <1>0
  <2>1. PICK i \in Opens : i = o[l]
    BY <1>0
  <2>2. Done(i)' = Done(i) /\ fed'[i] = fed[i]
    BY DoneGrows, OpensGrow
  <2>3. Texted(i)' <=> Texted(i) \/ (h > 0 /\ i = o[h])
    BY TextedGrows
  <2>4. l # h => o[l] # o[h]
    <3>. SUFFICES ASSUME l # h PROVE o[l] # o[h]
      OBVIOUS
    <3>1. h \in 1..h /\ l < h /\ o[l] \in Nat
      <4>1. \A k \in Opens : k \in 1..(m - 1)
        BY ChainIs
      <4>. QED BY <1>0, <4>1
    <3>2. o[l] < o[h]
      BY <3>1, ChainRises
    <3>. QED BY <3>1, <3>2
  <2>. QED BY <1>0, <2>1, <2>2, <2>3, <2>4
<1>6. Top + 1 \in 1..h
  BY <1>0
<1>7. Deep(kids, o[Top + 1])'
  <2>1. PICK b : b = o[Top + 1]
    OBVIOUS
  <2>2. PICK ks : ks = kids
    OBVIOUS
  <2>3. Deep(ks, b) /\ Done(b)' = Done(b)
    BY <1>2, <1>5, <1>6, <2>1, <2>2
  <2>4. Deep(ks, b)'
    BY <2>3, DeepKept
  <2>5. ks = kids' /\ b = o[Top + 1]'
    BY <1>3, <1>4, <2>1, <2>2
  <2>. QED BY <2>4, <2>5
<1>8. PICK st : st = stack
  OBVIOUS
<1>9. /\ IsSeq(stack') /\ Len(stack') = Len(st) /\ Len(st) \in Nat
      /\ \A j \in 1..Len(st) : stack'[j] = IF j = Len(st) THEN [st[j] EXCEPT !.text = TRUE] ELSE st[j]
  <2>0. Len(st) \in Nat /\ IsSeq(st) /\ DOMAIN st = 1..Len(st)
    BY <1>2, <1>8, SeqGrows
  <2>1. CASE st = <<>>
    <3>1. 1..Len(st) = {} /\ stack' = st
      BY <1>3, <1>8, <2>1, EmptySeqIs
    <3>. QED BY <2>0, <3>1
  <2>2. CASE st # <<>>
    <3> DEFINE z == Len(st)
               r == [st[z] EXCEPT !.text = TRUE]
               T == {st[j] : j \in DOMAIN st} \cup {r}
    <3>1. st \in Seq(T) /\ r \in T /\ stack' = [st EXCEPT ![z] = r]
      BY <1>3, <1>8, <2>0, <2>2 DEF IsSeq
    <3>2. z \in 1..z
      BY <2>0, <2>2 DEF IsSeq
    <3>. HIDE DEF r, T
    <3>3. stack' \in Seq(T) /\ Len(stack') = z /\ \A j \in 1..z : stack'[j] = IF j = z THEN r ELSE st[j]
      BY <2>0, <3>1, <3>2
    <3>4. IsSeq(stack')
      BY <3>3, SeqIs
    <3>. QED BY <2>0, <3>3, <3>4 DEF r
  <2>. QED BY <2>1, <2>2
<1>10. ASSUME NEW j \in 1..Len(st) PROVE Holding(stack[j], o[Top + 1 + j])'
  <2>1. PICK y : y = Top + 1 + j
    OBVIOUS
  <2>2. y \in 1..h /\ (y = h <=> j = Len(st))
    BY <1>0, <1>2, <1>8, <1>9, <2>1
  <2>3. PICK i : i = o[y]
    OBVIOUS
  <2>4. PICK d : d = st[j]
    OBVIOUS
  <2>5. PICK r : r = stack'[j]
    OBVIOUS
  <2>6. /\ i \in Opens /\ Holding(d, i) /\ Done(i)' = Done(i) /\ fed'[i] = fed[i]
        /\ y # h => (Texted(i)' <=> Texted(i))
        /\ y = h => Texted(i)'
        /\ r = IF y = h THEN [d EXCEPT !.text = TRUE] ELSE d
    BY <1>2, <1>5, <1>8, <1>9, <2>1, <2>2, <2>3, <2>4, <2>5
  <2>7. Holding(r, i)'
    <3>1. CASE y # h
      <4>1. Holding(d, i)'
        BY <2>6, <3>1, HoldingKept
      <4>. QED BY <2>6, <3>1, <4>1
    <3>2. CASE y = h
      <4> DEFINE ks == d.kids
      <4>1. d = [name |-> d.name, text |-> d.text, kids |-> ks] /\ Shows(d, i) /\ Flat(ks, i)
        BY <2>6 DEF Holding
      <4>2. r = [name |-> d.name, text |-> TRUE, kids |-> ks]
        BY <2>6, <3>2, <4>1
      <4>. HIDE DEF ks
      <4>3. /\ r.name = d.name /\ r.text = TRUE /\ r.kids = ks
            /\ r = [name |-> r.name, text |-> r.text, kids |-> r.kids]
        BY <4>2
      <4>4. Flat(ks, i)'
        BY <2>6, <4>1, FlatKept
      <4>5. Shows(r, i)'
        BY <2>6, <3>2, <4>1, <4>3 DEF Shows
      <4>. QED BY <4>3, <4>4, <4>5 DEF Holding
    <3>. QED BY <3>1, <3>2
  <2>8. o[Top + 1 + j]' = i
    BY <1>4, <2>1, <2>3
  <2>. QED BY <2>5, <2>7, <2>8
<1>11. Inside(h, o)'
  <2>1. root' = fed'[o[Top + 1]].name
    BY <1>2, <1>3, <1>5, <1>6
  <2>. QED BY <1>2, <1>3, <1>4, <1>7, <1>8, <1>9, <1>10, <2>1 DEF Inside
<1>12. Follows(h, o)'
  BY <1>0, <1>1, <1>3, <1>4, <1>11 DEF Follows
<1>. QED BY <1>3, <1>12

\* An empty element is a stanza, or a child of the innermost.
LEMMA EmptyFollows ==
  ASSUME NEW m, NEW h, NEW o, Doc(m, h, o), NEW e, Grows(m, e), e.kind = "empty",
         cut = "none", cut' = cut, Follows(h, o), h >= Top, h = Top => e.name \in Stanza,
         OnEmpty(e.name)
  PROVE  /\ Follows(h, o)'
         /\ result' = IF h = Top THEN Finalize(e.name, <<>>) ELSE "none"
         /\ Top' = Top
<1>0. /\ m \in Nat \ {0} /\ h \in Nat /\ (m = 1 => h = 0) /\ Top \in {0, 1} /\ o \in [1..h -> Opens]
      /\ h = Top \/ h > Top
  BY FirstEvent, ChainIs, TopType
<1>1. /\ depth = h /\ streamDepth = Top /\ state = IF h > Top THEN "inStanza" ELSE "idle"
      /\ Top = 1 /\ h > 0 => o[1] = 1
      /\ h > Top => Inside(h, o)
  BY DEF Follows
<1>2. UNCHANGED <<depth, streamDepth, state>>
  BY DEF OnEmpty
<1>3. Top' = Top
  <2>1. CASE m > 1
    BY <2>1, TopKept
  <2>2. CASE m = 1
    <3>1. Top = 0 /\ h = 0 /\ Top' = IF e.name \in Stream THEN 1 ELSE 0
      BY <1>0, <2>2, TopBegins
    <3>2. e.name \notin Stream
      BY <3>1 DEF Stanza, Stream
    <3>. QED BY <3>1, <3>2
  <2>. QED BY <1>0, <2>1, <2>2
<1>4. CASE h = Top
  <2>1. result' = Finalize(e.name, <<>>)
    BY <1>0, <1>1, <1>4 DEF OnEmpty, Returns
  <2>2. Follows(h, o)'
    BY <1>0, <1>1, <1>2, <1>3, <1>4 DEF Follows
  <2>. QED BY <1>3, <1>4, <2>1, <2>2
<1>5. CASE h > Top
  <2>1. /\ state = "inStanza" /\ result' = "none" /\ root' = root
        /\ kids' = Into(kids, stack, Element(e.name))[1]
        /\ stack' = Into(kids, stack, Element(e.name))[2]
    BY <1>1, <1>5 DEF OnEmpty, Returns, Attach
  <2>2. /\ root = fed[o[Top + 1]].name /\ root \in Stanza /\ Deep(kids, o[Top + 1])
        /\ IsSeq(stack) /\ Len(stack) = h - Top - 1
        /\ \A j \in 1..Len(stack) : Holding(stack[j], o[Top + 1 + j])
    BY <1>1, <1>5 DEF Inside
  <2>3. h \in 1..h /\ Top + 1 \in 1..h
    BY <1>0, <1>5
  <2>4. ASSUME NEW l \in 1..h
        PROVE  /\ l # h => Done(o[l])' = Done(o[l])
               /\ l = h => Done(o[l])' = Done(o[l]) \cup {m}
               /\ (Texted(o[l])' <=> Texted(o[l])) /\ fed'[o[l]] = fed[o[l]]
    <3>1. PICK i \in Opens : i = o[l]
      BY <1>0
    <3>2. (Texted(i)' <=> Texted(i)) /\ fed'[i] = fed[i]
      BY TextedGrows, OpensGrow
    <3>3. Done(i)' = IF h > 0 /\ i = o[h] THEN Done(i) \cup {m} ELSE Done(i)
      BY DoneGrows
    <3>4. l # h => o[l] # o[h]
      <4>. SUFFICES ASSUME l # h PROVE o[l] # o[h]
        OBVIOUS
      <4>1. l < h /\ o[l] \in Nat
        <5>1. \A k \in Opens : k \in 1..(m - 1)
          BY ChainIs
        <5>. QED BY <1>0, <5>1
      <4>2. o[l] < o[h]
        BY <2>3, <4>1, ChainRises
      <4>. QED BY <4>1, <4>2
    <3>. QED BY <1>0, <1>5, <3>1, <3>2, <3>3, <3>4
  <2>5. \E t, es, st, c, es1, st1, n :
          /\ t = Top /\ es = kids /\ st = stack /\ c = Element(e.name)
          /\ es1 = Into(es, st, c)[1] /\ st1 = Into(es, st, c)[2] /\ n = t + 1 + Len(st)
    OBVIOUS
  <2>6. PICK t, es, st, c, es1, st1, n :
          /\ t = Top /\ es = kids /\ st = stack /\ c = Element(e.name)
          /\ es1 = Into(es, st, c)[1] /\ st1 = Into(es, st, c)[2] /\ n = t + 1 + Len(st)
    BY <2>5
  <2>7. /\ t \in Nat /\ n = h /\ n \in 1..h /\ m \in Nat
        /\ IsSeq(st) /\ Deep(es, o[t + 1])
        /\ \A j \in 1..Len(st) : Holding(st[j], o[t + 1 + j])
    BY <1>0, <2>2, <2>3, <2>6
  <2>8. /\ Done(o[n])' = Done(o[n]) \cup {m}
        /\ \A l \in 1..n : l # n => Done(o[l])' = Done(o[l])
        /\ \A l \in 1..n : Texted(o[l])' <=> Texted(o[l])
    BY <2>3, <2>4, <2>7
  <2>9. \A j \in Done(o[n]) : j < m
    <3>1. \A j \in Done(o[n]) : j \in 1..(m - 1)
      BY DoneIn
    <3>. QED BY <1>0, <3>1
  <2>10. Holding(c, m)'
    <3>1. Holding(Element(e.name), m)'
      BY NewHolding
    <3>. QED BY <2>6, <3>1
  <2>11. /\ Deep(es1, o[t + 1])' /\ IsSeq(st1) /\ Len(st1) = Len(st)
         /\ \A j \in 1..Len(st) : Holding(st1[j], o[t + 1 + j])'
    <3>1. Attaches(h, o, t, es, st, n, m, c)
      BY <2>6, <2>7, <2>8, <2>9, <2>10 DEF Attaches
    <3>2. es1 = Into(es, st, c)[1] /\ st1 = Into(es, st, c)[2]
      BY <2>6
    <3>. QED BY <3>1, <3>2, Attached
  <2>12. /\ kids' = es1 /\ stack' = st1 /\ t = Top' /\ Len(st) = h - t - 1
    BY <1>3, <2>1, <2>2, <2>6
  <2>13. Inside(h, o)'
    <3>1. root' = fed'[o[Top + 1]].name
      BY <2>1, <2>2, <2>3, <2>4
    <3>. QED BY <1>3, <2>1, <2>2, <2>11, <2>12, <3>1 DEF Inside
  <2>14. Follows(h, o)'
    BY <1>0, <1>1, <1>2, <1>3, <1>5, <2>13 DEF Follows
  <2>. QED BY <1>0, <1>3, <1>5, <2>1, <2>14
<1>. QED BY <1>0, <1>4, <1>5

LEMMA FrontIs ==
  ASSUME NEW s, IsSeq(s), Len(s) > 0
  PROVE  /\ IsSeq(Front(s)) /\ Len(Front(s)) = Len(s) - 1 /\ Len(s) \in Nat /\ Last(s) = s[Len(s)]
         /\ \A j \in 1..(Len(s) - 1) : Front(s)[j] = s[j]
<1> DEFINE S == {s[i] : i \in DOMAIN s}
<1>1. s \in Seq(S)
  BY DEF IsSeq
<1> HIDE DEF S
<1>2. /\ Front(s) \in Seq(S) /\ Len(Front(s)) = Len(s) - 1 /\ Len(s) \in Nat
      /\ \A j \in 1..(Len(s) - 1) : Front(s)[j] = s[j]
  <2> DEFINE n == Len(s) - 1
             f == SubSeq(s, 1, n)
  <2>1. n \in Nat /\ Len(s) \in Nat /\ \A i \in 1..n : s[i] \in S
    BY <1>1
  <2>2. f \in Seq(S)
    BY <1>1, <2>1
  <2>3. Len(f) = n
    <3>1. n <= Len(s) /\ 1 <= n + 1
      BY <2>1
    <3>. HIDE DEF n
    <3>2. CASE n = 0
      BY <1>1, <2>1, <3>2
    <3>3. CASE n > 0
      BY <1>1, <2>1, <3>1, <3>3
    <3>. QED BY <2>1, <3>2, <3>3
  <2>4. \A j \in 1..n : f[j] = s[j]
    BY <1>1, <2>1
  <2>. QED BY <2>1, <2>2, <2>3, <2>4 DEF Front
<1>3. IsSeq(Front(s))
  BY <1>2, SeqIs
<1>. QED BY <1>2, <1>3 DEF Last

\* What the innermost element is to the one it lies in.
LEMMA LastDone ==
  ASSUME NEW m, NEW h, NEW o, Doc(m, h, o), h > 1
  PROVE  \A j \in Done(o[h - 1]) : j < o[h]
<1>. SUFFICES ASSUME NEW j \in Done(o[h - 1]) PROVE j < o[h]
  OBVIOUS
<1>0. h \in 1..h /\ h - 1 \in 1..h /\ h \in Nat
  BY ChainIs
<1>1. /\ o[h] \in 1..(m - 1) /\ EndOf(o[h]) = m /\ Level(o[h - 1]) = (h - 1) - 1
      /\ \A k \in (o[h] + 1)..(m - 1) : Level(k) >= h
  BY <1>0, ChainIs
<1>2. j \in 1..(m - 1) /\ EndOf(j) < m
  BY DoneIn
<1>3. Level(j) = Level(o[h - 1]) + 1
  BY DEF Done, Within
<1>4. m \in Nat
  BY ChainIs
<1>5. j # o[h]
  BY <1>1, <1>2, <1>4
<1>6. ~(o[h] < j)
  <2>. SUFFICES ASSUME o[h] < j PROVE FALSE
    OBVIOUS
  <2>1. j \in (o[h] + 1)..(m - 1)
    BY <1>1, <1>2, <1>4
  <2>. QED BY <1>0, <1>1, <1>3, <2>1
<1>. QED BY <1>1, <1>2, <1>4, <1>5, <1>6

\* The end of a child, of the stanza, or of the stream.
LEMMA EndFollows ==
  ASSUME NEW m, NEW h, NEW o, Doc(m, h, o), NEW e, Grows(m, e), e.kind = "end", h > 0,
         cut = "none", cut' = cut, Follows(h, o), h >= Top, e.name = fed[o[h]].name,
         OnFooter(e.name) \/ OnEnd(e.name)
  PROVE  /\ Follows(h - 1, NewChain(m, h, o, "end"))' /\ Top' = Top
         /\ h - 1 # Top => result' \in {"none", "level"}
         /\ h - 1 = Top => /\ result' = Finalize(e.name, kids) /\ Deep(kids, o[h])
                           /\ e.name \in Stanza
<1> DEFINE q == NewChain(m, h, o, "end")
           n == e.name
<1>0. /\ m \in Nat \ {0} /\ h \in Nat /\ m > 1 /\ Top \in {0, 1} /\ o \in [1..h -> Opens]
      /\ h = Top \/ h > Top
  BY FirstEvent, ChainIs, TopType
<1>1. \A l \in 1..(h - 1) : q[l] = o[l]
  BY <1>0 DEF NewChain
<1>2. /\ depth = h /\ streamDepth = Top /\ state = IF h > Top THEN "inStanza" ELSE "idle"
      /\ Top = 1 => o[1] = 1
      /\ h > Top => Inside(h, o)
  BY DEF Follows
<1>3. Top' = Top
  BY <1>0, TopKept
<1>4. Less(depth) = h - 1
  BY <1>0, <1>2 DEF Less
<1> HIDE DEF q
<1>5. CASE h = Top
  <2>1. h = 1 /\ Top = 1 /\ n \in Stream
    <3>1. h = 1 /\ Top = 1 /\ o[h] = 1
      BY <1>0, <1>2, <1>5
    <3>2. fed[1].name \in Stream
      BY <3>1 DEF Top
    <3>. QED BY <3>1, <3>2
  <2>2. OnFooter(n)
    BY <1>2, <1>5, <2>1 DEF OnEnd
  <2>3. depth' = 0 /\ streamDepth' = 0 /\ state' = "idle" /\ result' = "level"
    BY <1>4, <2>1, <2>2 DEF OnFooter, Returns
  <2>4. Follows(h - 1, q)'
    BY <1>3, <2>1, <2>3 DEF Follows
  <2>. QED BY <1>0, <1>3, <1>5, <2>1, <2>3, <2>4 DEF q
<1>6. CASE h > Top
  <2>1. OnEnd(n)
    BY <1>0, <1>2, <1>6 DEF OnFooter
  <2>2. /\ depth' = h - 1 /\ streamDepth' = streamDepth /\ root' = root /\ state = "inStanza"
        /\ h - 1 = Top => /\ state' = "idle" /\ result' = Finalize(root, kids)
                          /\ UNCHANGED <<stack, kids>>
        /\ h - 1 # Top => /\ result' = "none" /\ state' = state
                          /\ stack # <<>> => Attach(Front(stack), Last(stack))
    BY <1>2, <1>4, <1>6, <2>1 DEF OnEnd, Returns
  <2>3. /\ root = fed[o[Top + 1]].name /\ root \in Stanza /\ Deep(kids, o[Top + 1])
        /\ IsSeq(stack) /\ Len(stack) = h - Top - 1
        /\ \A j \in 1..Len(stack) : Holding(stack[j], o[Top + 1 + j])
    BY <1>2, <1>6 DEF Inside
  <2>4. Top = 1 /\ h - 1 > 0 => q[1] = 1
    BY <1>0, <1>1, <1>2
  <2>5. CASE h - 1 = Top
    <3>1. Follows(h - 1, q)'
      BY <1>0, <1>2, <1>3, <2>2, <2>4, <2>5 DEF Follows
    <3>2. h = Top + 1
      BY <1>0, <2>5
    <3>. QED BY <1>3, <2>2, <2>3, <2>5, <3>1, <3>2 DEF q
  <2>6. CASE h - 1 # Top
    <3>1. h > 1 /\ h - 1 > Top /\ Len(stack) > 0 /\ stack # <<>>
      <4>1. h > 1 /\ h - 1 > Top /\ Len(stack) > 0
        BY <1>0, <1>6, <2>3, <2>6
      <4>. QED BY <4>1, EmptySeqIs
    <3>2. \E t, es, st, c, es1, st1 :
            /\ t = Top /\ es = kids /\ st = Front(stack) /\ c = Last(stack)
            /\ es1 = Into(es, st, c)[1] /\ st1 = Into(es, st, c)[2]
      OBVIOUS
    <3>3. PICK t, es, st, c, es1, st1 :
            /\ t = Top /\ es = kids /\ st = Front(stack) /\ c = Last(stack)
            /\ es1 = Into(es, st, c)[1] /\ st1 = Into(es, st, c)[2]
      BY <3>2
    <3>4. /\ IsSeq(st) /\ Len(st) = h - t - 2 /\ c = stack[h - t - 1]
          /\ \A j \in 1..Len(st) : st[j] = stack[j] /\ j \in 1..Len(stack)
      <4>1. /\ IsSeq(Front(stack)) /\ Len(Front(stack)) = Len(stack) - 1 /\ Len(stack) \in Nat
            /\ Last(stack) = stack[Len(stack)]
            /\ \A j \in 1..(Len(stack) - 1) : Front(stack)[j] = stack[j]
        BY <2>3, <3>1, FrontIs
      <4>. QED BY <1>0, <2>3, <3>3, <4>1
    <3>5. kids' = es1 /\ stack' = st1 /\ t = Top'
      BY <1>3, <2>2, <2>6, <3>1, <3>3 DEF Attach
    <3>6. /\ h \in 1..h /\ h - 1 \in 1..h /\ t \in Nat /\ t + 1 \in 1..(h - 1)
          /\ h - 1 = t + 1 + Len(st)
      BY <1>0, <3>1, <3>3, <3>4
    <3>7. ASSUME NEW l \in 1..h
          PROVE  /\ l # h - 1 => Done(o[l])' = Done(o[l])
                 /\ l = h - 1 => Done(o[l])' = Done(o[l]) \cup {o[h]}
                 /\ (Texted(o[l])' <=> Texted(o[l])) /\ fed'[o[l]] = fed[o[l]]
      <4>1. PICK i \in Opens : i = o[l]
        BY <1>0
      <4>2. (Texted(i)' <=> Texted(i)) /\ fed'[i] = fed[i]
        BY TextedGrows, OpensGrow
      <4>3. Done(i)' = IF h > 1 /\ i = o[h - 1] THEN Done(i) \cup {o[h]} ELSE Done(i)
        BY DoneGrows
      <4>4. l # h - 1 => o[l] # o[h - 1]
        <5>. SUFFICES ASSUME l # h - 1 PROVE o[l] # o[h - 1]
          OBVIOUS
        <5>1. /\ l < h - 1 \/ h - 1 < l
              /\ o[l] \in Nat /\ o[h - 1] \in Nat
          <6>1. \A k \in Opens : k \in 1..(m - 1)
            BY ChainIs
          <6>. QED BY <1>0, <3>6, <6>1
        <5>2. l < h - 1 => o[l] < o[h - 1]
          BY <3>6, ChainRises
        <5>3. h - 1 < l => o[h - 1] < o[l]
          BY <3>6, ChainRises
        <5>. QED BY <5>1, <5>2, <5>3
      <4>. QED BY <3>1, <4>1, <4>2, <4>3, <4>4
    <3>8. Holding(c, o[h])'
      <4>1. PICK i : i = o[h]
        OBVIOUS
      <4>2. Holding(c, i)
        <5>1. h - t - 1 \in 1..Len(stack) /\ Top + 1 + (h - t - 1) = h
          BY <1>0, <2>3, <3>1, <3>3
        <5>2. Holding(stack[h - t - 1], o[Top + 1 + (h - t - 1)])
          BY <2>3, <5>1
        <5>. QED BY <3>4, <4>1, <5>1, <5>2
      <4>3. i \in Opens /\ Done(i)' = Done(i) /\ (Texted(i)' <=> Texted(i))
        <5>1. h # h - 1
          BY <1>0
        <5>. QED BY <1>0, <3>6, <3>7, <4>1, <5>1
      <4>4. Holding(c, i)'
        BY <4>2, <4>3, HoldingKept
      <4>. QED BY <4>1, <4>4
    <3>9. Attaches(h, o, t, es, st, h - 1, o[h], c)
      <4>1. Deep(es, o[t + 1]) /\ \A j \in 1..Len(st) : Holding(st[j], o[t + 1 + j])
        BY <2>3, <3>3, <3>4
      <4>2. \A j \in Done(o[h - 1]) : j < o[h]
        BY <3>1, LastDone
      <4>3. o[h] \in Nat
        <5>1. \A k \in Opens : k \in 1..(m - 1)
          BY ChainIs
        <5>. QED BY <1>0, <3>6, <5>1
      <4>4. /\ Done(o[h - 1])' = Done(o[h - 1]) \cup {o[h]}
            /\ \A l \in 1..(h - 1) : l # h - 1 => Done(o[l])' = Done(o[l])
            /\ \A l \in 1..(h - 1) : Texted(o[l])' <=> Texted(o[l])
        <5>1. \A l \in 1..(h - 1) : l \in 1..h
          BY <1>0
        <5>. QED BY <3>6, <3>7, <5>1
      <4>. QED BY <3>4, <3>6, <3>8, <4>1, <4>2, <4>3, <4>4 DEF Attaches
    <3>10. /\ Deep(es1, o[t + 1])' /\ IsSeq(st1) /\ Len(st1) = Len(st)
           /\ \A j \in 1..Len(st) : Holding(st1[j], o[t + 1 + j])'
      <4>1. es1 = Into(es, st, c)[1] /\ st1 = Into(es, st, c)[2]
        BY <3>3
      <4>. QED BY <3>9, <4>1, Attached
    <3>11. \A j \in 1..Len(st) : q[t + 1 + j] = o[t + 1 + j]
      <4>. SUFFICES ASSUME NEW j \in 1..Len(st) PROVE t + 1 + j \in 1..(h - 1)
        BY <1>1
      <4>1. Len(st) \in Nat
        BY <3>4, SeqGrows
      <4>. QED BY <1>0, <3>6, <4>1
    <3>12. Inside(h - 1, q)'
      <4>1. q[t + 1] = o[t + 1]
        BY <1>1, <3>6
      <4>2. root' = fed'[q[t + 1]].name
        <5>1. t + 1 \in 1..h
          BY <1>0, <3>6
        <5>2. fed'[o[t + 1]] = fed[o[t + 1]]
          BY <3>7, <5>1
        <5>. QED BY <2>2, <2>3, <3>3, <4>1, <5>2
      <4>3. Len(st1) = (h - 1) - t - 1
        BY <1>0, <3>3, <3>4, <3>10
      <4>. QED BY <2>2, <2>3, <3>5, <3>10, <3>11, <4>1, <4>2, <4>3 DEF Inside
    <3>13. Follows(h - 1, q)'
      BY <1>0, <1>2, <1>3, <2>2, <2>4, <2>6, <3>1, <3>12 DEF Follows
    <3>. QED BY <1>3, <2>2, <2>6, <3>13 DEF q
  <2>. QED BY <2>5, <2>6
<1>. QED BY <1>0, <1>5, <1>6

----------------------------------------------------------------------------
\* Steps that leave the document as it is.

LEMMA SameDocument ==
  ASSUME fed' = fed
  PROVE  /\ Here' = Here /\ Opens' = Opens
         /\ \A o : Chain(o)' <=> Chain(o)
         /\ \A i : /\ Within(i)' = Within(i) /\ Done(i)' = Done(i) /\ (Texted(i)' <=> Texted(i))
                   /\ Meaning(i)' = Meaning(i)
<1>1. \A i : Level(i)' = Level(i)
  BY DEF Level
<1>2. Here' = Here /\ Opens' = Opens
  BY <1>1 DEF Here, Opens, Level
<1>3. \A i : EndOf(i)' = EndOf(i)
  BY DEF EndOf, Level
<1>4. ASSUME NEW o PROVE Chain(o)' <=> Chain(o)
  BY <1>1, <1>2, <1>3 DEF Chain
<1>5. \A i : Within(i)' = Within(i)
  BY <1>1, <1>3 DEF Within
<1>6. \A i : Done(i)' = Done(i) /\ (Texted(i)' <=> Texted(i))
  BY <1>2, <1>3, <1>5 DEF Done, Texted
<1>7. \A i, n : Named(i, n)' = Named(i, n) /\ First(Named(i, n))' = First(Named(i, n))
  <2>1. \A i, n : Named(i, n)' = Named(i, n)
    BY <1>2, <1>5 DEF Named
  <2>. QED BY <2>1 DEF First
<1>8. ASSUME NEW i PROVE Meaning(i)' = Meaning(i)
  BY <1>6, <1>7 DEF Meaning
<1>. QED BY <1>2, <1>4, <1>5, <1>6, <1>8

LEMMA SameElements ==
  ASSUME fed' = fed
  PROVE  /\ \A es, i : Deep(es, i)' <=> Deep(es, i)
         /\ \A c, i : Holding(c, i)' <=> Holding(c, i)
<1>1. \A c, i : Shows(c, i)' <=> Shows(c, i)
  BY SameDocument DEF Shows
<1>2. \A es, i, p : Lists(es, i, p)' <=> Lists(es, i, p)
  <2>. SUFFICES ASSUME NEW es, NEW i, NEW p PROVE Lists(es, i, p)' <=> Lists(es, i, p)
    OBVIOUS
  <2>1. Done(i)' = Done(i)
    BY SameDocument
  <2>. QED BY <1>1, <2>1 DEF Lists
<1>3. \A es, i : Flat(es, i)' <=> Flat(es, i)
  BY <1>2 DEF Flat
<1>4. \A es, i : Deep(es, i)' <=> Deep(es, i)
  BY <1>2, <1>3 DEF Deep
<1>5. \A c, i : Holding(c, i)' <=> Holding(c, i)
  BY <1>1, <1>3 DEF Holding
<1>. QED BY <1>4, <1>5

LEMMA ParserStutters ==
  ASSUME ParserInv, UNCHANGED parserVars
  PROVE  ParserInv'
<1>1. /\ fed' = fed /\ cut' = cut /\ result' = result /\ depth' = depth /\ state' = state
      /\ streamDepth' = streamDepth /\ root' = root /\ stack' = stack /\ kids' = kids
  BY DEF parserVars, parser, builder
<1>2. Here' = Here /\ Top' = Top
  BY <1>1, SameDocument DEF Top
<1>3. PICK o : Chain(o) /\ (cut = "none" => Follows(Here, o))
  BY DEF ParserInv
<1>4. Chain(o)'
  BY <1>1, <1>3, SameDocument
<1>5. ASSUME cut = "none" PROVE Follows(Here, o)'
  <2>1. Follows(Here, o)
    BY <1>3, <1>5
  <2>2. Inside(Here, o) => Inside(Here, o)'
    <3>. SUFFICES ASSUME Inside(Here, o) PROVE Inside(Here, o)'
      OBVIOUS
    <3>1. PICK b, ks, st : b = o[Top + 1] /\ ks = kids /\ st = stack
      OBVIOUS
    <3>2. Deep(ks, b)' /\ b = o[Top + 1]' /\ ks = kids'
      <4>1. Deep(ks, b)
        BY <3>1 DEF Inside
      <4>. QED BY <1>1, <1>2, <3>1, <4>1, SameElements
    <3>3. ASSUME NEW j \in 1..Len(st) PROVE Holding(stack[j], o[Top + 1 + j])'
      <4>1. PICK c, i : c = st[j] /\ i = o[Top + 1 + j]
        OBVIOUS
      <4>2. Holding(c, i)'
        <5>1. Holding(c, i)
          BY <3>1, <4>1 DEF Inside
        <5>. QED BY <1>1, <5>1, SameElements
      <4>3. c = stack'[j] /\ i = o[Top + 1 + j]'
        BY <1>1, <1>2, <3>1, <4>1
      <4>. QED BY <4>2, <4>3
    <3>4. Deep(kids, o[Top + 1])'
      BY <3>2
    <3>. QED BY <1>1, <1>2, <3>1, <3>3, <3>4 DEF Inside
  <2>. QED BY <1>1, <1>2, <2>1, <2>2 DEF Follows
<1>6. StanzaLess' <=> StanzaLess
  BY <1>1 DEF StanzaLess
<1>7. ReturnsWhatIsThere'
  <2>1. Completed' = Completed
    <3>1. \A i : EndOf(i)' = EndOf(i) /\ Level(i)' = Level(i)
      BY <1>1 DEF EndOf, Level
    <3>. QED BY <1>1, <1>2, <3>1 DEF Completed, Opens
  <2>2. \A i : Meaning(i)' = Meaning(i)
    BY <1>1, SameDocument
  <2>3. ReturnsWhatIsThere
    BY DEF ParserInv
  <2>. QED BY <1>1, <2>1, <2>2, <2>3 DEF ReturnsWhatIsThere
<1>. QED BY <1>1, <1>2, <1>4, <1>5, <1>6, <1>7 DEF ParserInv

----------------------------------------------------------------------------
\* The invariant, action by action.

LEMMA ParserBegins ==
  ASSUME ParserInit
  PROVE  ParserInv
<1> DEFINE o == [l \in {} |-> 0]
<1>1. /\ fed = <<>> /\ Len(fed) = 0 /\ DOMAIN fed = {} /\ fed \in Seq(Event)
      /\ cut \in {"none"} \cup Elements
  <2>1. fed = <<>> /\ cut \in {"none"} \cup Elements
    BY DEF ParserInit
  <2>2. <<>> \in Seq(Event) /\ Len(<<>>) = 0 /\ DOMAIN <<>> = {}
    OBVIOUS
  <2>. QED BY <2>1, <2>2
<1>2. Here = 0
  <2>1. LevelIn(fed, 1) = 0
    BY LevelSteps
  <2>. QED BY <1>1, <2>1 DEF Here, Level, LevelIn, Tags
<1>3. Opens = {} /\ Top = 0 /\ Completed = {}
  <2>1. Opens = {}
    BY <1>1 DEF Opens
  <2>. QED BY <1>1, <2>1 DEF Top, Completed
<1>4. Chain(o)
  BY <1>2, <1>3 DEF Chain
<1>5. Follows(Here, o)
  <2>1. depth = 0 /\ streamDepth = 0 /\ state = "idle"
    BY DEF ParserInit
  <2>2. ~(Here > Top) /\ Top # 1
    BY <1>2, <1>3
  <2>. HIDE DEF o
  <2>. QED BY <1>2, <1>3, <2>1, <2>2 DEF Follows
<1>6. StanzaLess
  BY <1>1 DEF StanzaLess, ParserInit, Inner
<1>7. ReturnsWhatIsThere
  BY <1>3 DEF ReturnsWhatIsThere, ParserInit
<1>. QED
  <2>. HIDE DEF o
  <2>. QED BY <1>1, <1>2, <1>4, <1>5, <1>6, <1>7 DEF ParserInv

\* What the invariant says of the document, with names for its sizes.
Reading(m, h, o) ==
  /\ Doc(m, h, o) /\ cut \in {"none"} \cup Elements
  /\ cut = "none" => Follows(h, o)
  /\ cut # "none" => StanzaLess

LEMMA ReadingIs ==
  ASSUME ParserInv
  PROVE  \E m, h, o : Reading(m, h, o)
<1>1. PICK o : Chain(o) /\ (cut = "none" => Follows(Here, o))
  BY DEF ParserInv
<1>2. PICK m, h : m = Len(fed) + 1 /\ h = Here
  OBVIOUS
<1>3. Doc(m, h, o)
  <2>1. fed \in Seq(Event) /\ Here \in Nat
    BY DEF ParserInv
  <2>2. Len(fed) \in Nat
    BY <2>1
  <2>. QED BY <1>1, <1>2, <2>1, <2>2 DEF Doc
<1>. QED BY <1>1, <1>2, <1>3 DEF Reading, ParserInv

LEMMA ParserAdvances ==
  ASSUME NEW m, NEW h, NEW o, Reading(m, h, o), NEW e, Grows(m, e), e.kind = "end" => h > 0,
         cut' = cut,
         cut = "none" => Follows(h + Step(e), NewChain(m, h, o, e.kind))',
         cut # "none" => StanzaLess',
         ReturnsWhatIsThere'
  PROVE  ParserInv'
<1>1. Doc(m + 1, h + Step(e), NewChain(m, h, o, e.kind))'
  BY ChainGrows DEF Reading
<1>2. PICK q : q = NewChain(m, h, o, e.kind)
  OBVIOUS
<1>3. /\ fed' \in Seq(Event) /\ Here' \in Nat /\ Here' = h + Step(e) /\ Chain(q)'
  BY <1>1, <1>2 DEF Doc
<1>4. cut' = "none" => Follows(Here, q)'
  BY <1>2, <1>3
<1>5. \E r : Chain(r)' /\ (cut' = "none" => Follows(Here, r)')
  BY <1>3, <1>4
<1>. QED BY <1>3, <1>5 DEF ParserInv, Reading

\* The reader's own conditions.
LEMMA ReaderIs ==
  ASSUME NEW m, NEW h, NEW o, Reading(m, h, o), Reads
  PROVE  /\ Doc(m, h, o) /\ h = Here /\ h \in Nat /\ m \in Nat \ {0} /\ Top \in {0, 1} /\ h >= Top
         /\ m = Len(fed) + 1 /\ fed \in Seq(Event)
         /\ cut = "none" => Follows(h, o)
         /\ m = 1 <=> fed = <<>>
         /\ h > 0 => Innermost = o[h] /\ o[h] \in DOMAIN fed
         /\ cut # "none" => StanzaLess /\ Top = 0
<1>1. /\ Doc(m, h, o) /\ h = Here /\ h \in Nat /\ m \in Nat \ {0} /\ Top \in {0, 1}
      /\ m = Len(fed) + 1 /\ fed \in Seq(Event)
  BY TopType DEF Reading, Doc
<1>2. m = 1 <=> fed = <<>>
  BY <1>1
<1>3. h >= Top
  BY <1>1 DEF Reads, Top
<1>4. h > 0 => Innermost = o[h] /\ o[h] \in DOMAIN fed
  <2>. SUFFICES ASSUME h > 0 PROVE Innermost = o[h] /\ o[h] \in DOMAIN fed
    OBVIOUS
  <2>1. Innermost = o[h]
    BY <1>1, InnermostIs
  <2>2. o \in [1..h -> Opens]
    BY <1>1, ChainIs
  <2>3. h \in 1..h
    BY <1>1
  <2>. QED BY <2>1, <2>2, <2>3 DEF Opens
<1>. QED BY <1>1, <1>2, <1>3, <1>4 DEF Reading, Top

LEMMA NamesAre ==
  ASSUME NEW m, NEW h, NEW o, Reading(m, h, o), Reads
  PROVE  /\ Names \subseteq Stanza \cup Inner
         /\ cut # "none" => Names \subseteq Inner
         /\ cut = "none" /\ h = Top => Names = Stanza /\ Open = "none"
<1>1. \A x : Holds(x) \subseteq Inner
  BY DEF Holds, Inner
<1>2. Names \subseteq Stanza \cup Inner
  BY <1>1 DEF Names
<1>3. ASSUME cut # "none" PROVE Open # "none"
  <2>1. h = Here /\ StanzaLess /\ Top = 0 /\ (h > 0 => Innermost \in DOMAIN fed)
    BY <1>3, ReaderIs
  <2>2. CASE Here > Top
    BY <2>1, <2>2 DEF Open, StanzaLess, Inner
  <2>3. CASE ~(Here > Top)
    BY <1>3, <2>3 DEF Open
  <2>. QED BY <2>2, <2>3
<1>4. ASSUME cut = "none", h = Top PROVE Open = "none"
  <2>1. h = Here /\ h \in Nat
    BY ReaderIs
  <2>. QED BY <1>4, <2>1 DEF Open
<1>. QED BY <1>1, <1>2, <1>3, <1>4 DEF Names

LEMMA GrowsBy ==
  ASSUME NEW m, NEW h, NEW o, Reading(m, h, o), Reads,
         NEW kind \in {"start", "empty", "text", "end"},
         NEW n \in Stanza \cup Inner \cup {"stream:stream"}, Fed(kind, n)
  PROVE  \E e : Grows(m, e) /\ e.kind = kind /\ e.name = n /\ cut' = cut
<1> DEFINE e == [kind |-> kind, name |-> n]
<1>1. e \in Event /\ e.kind = kind /\ e.name = n
  BY DEF Event
<1>2. m = Len(fed) + 1 /\ fed \in Seq(Event) /\ m \in Nat
  BY ReaderIs
<1>3. Grows(m, e) /\ cut' = cut
  BY <1>1, <1>2 DEF Grows, Fed
<1>. QED
  <2>. HIDE DEF e
  <2>. QED BY <1>1, <1>3

\* A reader that begins inside a stanza has no stanza to return.
LEMMA IgnoredInside ==
  ASSUME NEW n \in Inner, NEW es
  PROVE  Finalize(n, es) = "ignored"
BY DEF Finalize, Inner

LEMMA StanzaLessGrows ==
  ASSUME NEW m, NEW e, Grows(m, e), cut # "none", cut' = cut, StanzaLess,
         e.name \in Inner, root' \in {root, e.name},
         result' \in {"none", "level", "ignored"}
  PROVE  StanzaLess' /\ ReturnsWhatIsThere'
<1>1. \A i \in DOMAIN fed' : (i \in DOMAIN fed /\ fed'[i] = fed[i]) \/ fed'[i] = e
  <2>1. /\ DOMAIN fed' = 1..m /\ DOMAIN fed = 1..(m - 1) /\ fed'[m] = e /\ m \in Nat
        /\ \A i \in 1..(m - 1) : fed'[i] = fed[i]
    BY GrownDocument
  <2>. QED BY <2>1
<1>2. StanzaLess'
  BY <1>1 DEF StanzaLess
<1>. QED BY <1>2 DEF ReturnsWhatIsThere

LEMMA StartKeeps ==
  ASSUME ParserInv, Start
  PROVE  ParserInv'
<1>1. PICK m, h, o : Reading(m, h, o)
  BY ReadingIs
<1>2. PICK n \in Names \cup (IF fed = <<>> /\ cut = "none" THEN {"stream:stream"} ELSE {}) :
        Reads /\ Fed("start", n) /\ (OnHeader(n) \/ OnStart(n))
  BY DEF Start
<1>3. n \in Stanza \cup Inner \cup {"stream:stream"}
  BY <1>1, <1>2, NamesAre
<1>4. PICK e : Grows(m, e) /\ e.kind = "start" /\ e.name = n /\ cut' = cut
  BY <1>1, <1>2, <1>3, GrowsBy
<1>5. /\ Doc(m, h, o) /\ h \in Nat /\ h >= Top /\ (m = 1 <=> fed = <<>>)
      /\ (m = 1 => h = 0 /\ Top = 0) /\ m \in Nat \ {0}
  <2>1. /\ Doc(m, h, o) /\ h \in Nat /\ h >= Top /\ (m = 1 <=> fed = <<>>) /\ m \in Nat \ {0}
        /\ Top \in {0, 1}
    BY <1>1, <1>2, ReaderIs
  <2>2. m = 1 => h = 0
    BY <1>4, <2>1, FirstEvent
  <2>. QED BY <2>1, <2>2
<1>6. CASE cut = "none"
  <2>1. Follows(h, o)
    BY <1>6, <1>1 DEF Reading
  <2>2. /\ m = 1 => n \in Stanza \cup {"stream:stream"}
        /\ m > 1 /\ h = Top => n \in Stanza
    <3>1. h = Top => Names = Stanza
      BY <1>1, <1>2, <1>6, NamesAre
    <3>. QED BY <1>2, <1>5, <3>1
  <2>3. Follows(h + 1, NewChain(m, h, o, "start"))' /\ result' \in {"none", "level"}
    BY <1>2, <1>4, <1>5, <1>6, <2>1, <2>2, StartFollows
  <2>4. Completed' = {}
    <3>1. \A i : i \notin Completed'
      BY <1>4, <1>5, CompletedBy
    <3>. QED BY <3>1
  <2>5. ReturnsWhatIsThere'
    BY <1>4, <1>6, <2>3, <2>4 DEF ReturnsWhatIsThere
  <2>6. Follows(h + Step(e), NewChain(m, h, o, e.kind))'
    <3>1. Step(e) = 1 /\ e.kind = "start"
      BY <1>4 DEF Step
    <3>. QED BY <2>3, <3>1
  <2>. QED BY <1>1, <1>4, <1>6, <2>5, <2>6, ParserAdvances
<1>7. CASE cut # "none"
  <2>1. StanzaLess /\ n \in Inner
    BY <1>1, <1>2, <1>7, NamesAre DEF Reading
  <2>2. root' \in {root, n} /\ result' \in {"none", "level"}
    BY <1>2 DEF OnHeader, OnStart, Returns, builder
  <2>3. StanzaLess' /\ ReturnsWhatIsThere'
    BY <1>4, <1>7, <2>1, <2>2, StanzaLessGrows
  <2>. QED BY <1>1, <1>4, <1>7, <2>3, ParserAdvances
<1>. QED BY <1>6, <1>7

LEMMA EmptyKeeps ==
  ASSUME ParserInv, Empty
  PROVE  ParserInv'
<1>1. PICK m, h, o : Reading(m, h, o)
  BY ReadingIs
<1>2. PICK n \in Names : Reads /\ Fed("empty", n) /\ OnEmpty(n)
  BY DEF Empty
<1>3. n \in Stanza \cup Inner \cup {"stream:stream"}
  BY <1>1, <1>2, NamesAre
<1>4. PICK e : Grows(m, e) /\ e.kind = "empty" /\ e.name = n /\ cut' = cut
  BY <1>1, <1>2, <1>3, GrowsBy
<1>5. Doc(m, h, o) /\ h \in Nat /\ h >= Top
  BY <1>1, <1>2, ReaderIs
<1>6. CASE cut = "none"
  <2>1. Follows(h, o)
    BY <1>6, <1>1 DEF Reading
  <2>2. h = Top => n \in Stanza
    BY <1>1, <1>2, <1>6, NamesAre
  <2>3. /\ Follows(h, o)' /\ Top' = Top
        /\ result' = IF h = Top THEN Finalize(n, <<>>) ELSE "none"
    BY <1>2, <1>4, <1>5, <1>6, <2>1, <2>2, EmptyFollows
  <2>4. ReturnsWhatIsThere'
    <3>1. ASSUME NEW i \in Completed' PROVE i = m /\ h = Top
      BY <1>4, <1>5, <2>3, <3>1, CompletedBy
    <3>2. h = Top => m \in Completed'
      <4>1. h = Top => n \notin Stream
        BY <2>2 DEF Stanza, Stream
      <4>. QED BY <1>4, <1>5, <2>3, <4>1, CompletedBy
    <3>3. Meaning(m)' = Finalize(n, <<>>)
      BY <1>4, MeaningEmpty
    <3>4. ASSUME NEW i \in Completed' PROVE result' = Meaning(i)'
      BY <2>3, <3>1, <3>3
    <3>5. Completed' = {} => result' = "none"
      BY <2>3, <3>2
    <3>. QED BY <1>4, <1>6, <3>4, <3>5 DEF ReturnsWhatIsThere
  <2>5. Follows(h + Step(e), NewChain(m, h, o, e.kind))'
    <3>1. Step(e) = 0 /\ NewChain(m, h, o, e.kind) = o
      BY <1>4 DEF Step, NewChain
    <3>2. h + Step(e) = h
      BY <1>5, <3>1
    <3>. QED BY <2>3, <3>1, <3>2
  <2>. QED BY <1>1, <1>4, <1>6, <2>4, <2>5, ParserAdvances
<1>7. CASE cut # "none"
  <2>1. StanzaLess /\ n \in Inner
    BY <1>1, <1>2, <1>7, NamesAre DEF Reading
  <2>2. root' = root /\ result' \in {"none", "ignored"}
    <3>1. Finalize(n, <<>>) = "ignored"
      BY <2>1, IgnoredInside
    <3>. QED BY <1>2, <3>1 DEF OnEmpty, Returns, builder
  <2>3. StanzaLess' /\ ReturnsWhatIsThere'
    BY <1>4, <1>7, <2>1, <2>2, StanzaLessGrows
  <2>. QED BY <1>1, <1>4, <1>7, <2>3, ParserAdvances
<1>. QED BY <1>6, <1>7

LEMMA TextKeeps ==
  ASSUME ParserInv, Text
  PROVE  ParserInv'
<1>1. PICK m, h, o : Reading(m, h, o)
  BY ReadingIs
<1>2. Reads /\ Open \in Texts /\ Fed("text", "") /\ OnText
  BY DEF Text
<1>3. "" \in Inner
  BY DEF Inner
<1>4. PICK e : Grows(m, e) /\ e.kind = "text" /\ e.name = "" /\ cut' = cut
  <2>1. PICK n : n = ""
    OBVIOUS
  <2>2. n \in Stanza \cup Inner \cup {"stream:stream"} /\ Fed("text", n)
    BY <1>2, <1>3, <2>1
  <2>3. \E e : Grows(m, e) /\ e.kind = "text" /\ e.name = n /\ cut' = cut
    BY <1>1, <1>2, <2>2, GrowsBy
  <2>. QED BY <2>1, <2>3
<1>5. Doc(m, h, o) /\ h \in Nat /\ h >= Top /\ Top \in {0, 1}
  BY <1>1, <1>2, ReaderIs
<1>6. CASE cut = "none"
  <2>1. Follows(h, o)
    BY <1>6, <1>1 DEF Reading
  <2>2. h > Top
    <3>1. "none" \notin Texts
      BY DEF Texts
    <3>2. h # Top
      BY <1>1, <1>2, <1>6, <3>1, NamesAre
    <3>. QED BY <1>5, <3>2
  <2>3. Follows(h, o)' /\ result' \in {"none", "level"}
    BY <1>2, <1>4, <1>5, <1>6, <2>1, <2>2, TextFollows
  <2>4. Completed' = {}
    <3>1. \A i : i \notin Completed'
      BY <1>4, <1>5, CompletedBy
    <3>. QED BY <3>1
  <2>5. ReturnsWhatIsThere'
    BY <1>4, <1>6, <2>3, <2>4 DEF ReturnsWhatIsThere
  <2>6. Follows(h + Step(e), NewChain(m, h, o, e.kind))'
    <3>1. Step(e) = 0 /\ NewChain(m, h, o, e.kind) = o
      BY <1>4 DEF Step, NewChain
    <3>2. h + Step(e) = h
      BY <1>5, <3>1
    <3>. QED BY <2>3, <3>1, <3>2
  <2>. QED BY <1>1, <1>4, <1>6, <2>5, <2>6, ParserAdvances
<1>7. CASE cut # "none"
  <2>1. StanzaLess
    BY <1>1, <1>7 DEF Reading
  <2>2. root' = root /\ result' = "none"
    BY <1>2 DEF OnText, Returns
  <2>3. StanzaLess' /\ ReturnsWhatIsThere'
    BY <1>3, <1>4, <1>7, <2>1, <2>2, StanzaLessGrows
  <2>. QED BY <1>1, <1>4, <1>7, <2>3, ParserAdvances
<1>. QED BY <1>6, <1>7

LEMMA EndKeeps ==
  ASSUME ParserInv, End
  PROVE  ParserInv'
<1>1. PICK m, h, o : Reading(m, h, o)
  BY ReadingIs
<1>2. Reads /\ Here > 0
  BY DEF End
<1>3. /\ Doc(m, h, o) /\ h \in Nat /\ h > 0 /\ h >= Top /\ Top \in {0, 1}
      /\ Innermost = o[h] /\ o[h] \in DOMAIN fed /\ fed \in Seq(Event)
  BY <1>1, <1>2, ReaderIs
<1>4. PICK n : n = fed[o[h]].name
  OBVIOUS
<1>5. Fed("end", n) /\ (OnFooter(n) \/ OnEnd(n))
  BY <1>3, <1>4 DEF End
<1>6. n \in Stanza \cup Inner \cup {"stream:stream"}
  <2>1. fed[o[h]] \in Event
    BY <1>3
  <2>. QED BY <1>4, <2>1 DEF Event
<1>7. PICK e : Grows(m, e) /\ e.kind = "end" /\ e.name = n /\ cut' = cut
  BY <1>1, <1>2, <1>5, <1>6, GrowsBy
<1>8. CASE cut = "none"
  <2>1. Follows(h, o)
    BY <1>8, <1>1 DEF Reading
  <2>2. /\ Follows(h - 1, NewChain(m, h, o, "end"))' /\ Top' = Top
        /\ h - 1 # Top => result' \in {"none", "level"}
        /\ h - 1 = Top => /\ result' = Finalize(n, kids) /\ Deep(kids, o[h]) /\ n \in Stanza
    BY <1>3, <1>4, <1>5, <1>7, <1>8, <2>1, EndFollows
  <2>3. ReturnsWhatIsThere'
    <3>1. \A i : i \in Completed' <=> i = o[h] /\ h - 1 = Top /\ fed[i].name \notin Stream
      BY <1>3, <1>7, <2>2, CompletedBy
    <3>2. CASE h - 1 # Top
      <4>1. Completed' = {}
        BY <3>1, <3>2
      <4>. QED BY <1>7, <1>8, <2>2, <3>2, <4>1 DEF ReturnsWhatIsThere
    <3>3. CASE h - 1 = Top
      <4>1. o[h] \in Completed'
        <5>1. n \notin Stream
          BY <2>2, <3>3 DEF Stanza, Stream
        <5>. QED BY <1>4, <3>1, <3>3, <5>1
      <4>2. o[h] \in Opens
        <5>1. h \in 1..h
          BY <1>3
        <5>. QED BY <1>3, <5>1, ChainIs
      <4>3. PICK ks : ks = kids
        OBVIOUS
      <4>4. Finalize(fed[o[h]].name, ks) = Meaning(o[h])
        BY <1>3, <2>2, <3>3, <4>3, MeaningFound
      <4>5. Meaning(o[h])' = Meaning(o[h])
        BY <1>7, <4>2, MeaningKept
      <4>6. \A i \in Completed' : result' = Meaning(i)'
        BY <1>4, <2>2, <3>1, <3>3, <4>3, <4>4, <4>5
      <4>7. Completed' # {}
        BY <4>1
      <4>. QED BY <1>7, <1>8, <4>6, <4>7 DEF ReturnsWhatIsThere
    <3>. QED BY <3>2, <3>3
  <2>4. Follows(h + Step(e), NewChain(m, h, o, e.kind))'
    <3>1. h + Step(e) = h - 1 /\ e.kind = "end"
      BY <1>3, <1>7 DEF Step
    <3>. QED BY <2>2, <3>1
  <2>. QED BY <1>1, <1>3, <1>7, <1>8, <2>3, <2>4, ParserAdvances
<1>9. CASE cut # "none"
  <2>1. StanzaLess /\ n \in Inner /\ root \in Inner
    BY <1>1, <1>3, <1>4, <1>9 DEF Reading, StanzaLess
  <2>2. root' = root /\ result' \in {"none", "level", "ignored"}
    <3>1. Finalize(root, kids) = "ignored"
      BY <2>1, IgnoredInside
    <3>. QED BY <1>5, <3>1 DEF OnFooter, OnEnd, Returns, builder
  <2>3. StanzaLess' /\ ReturnsWhatIsThere'
    BY <1>7, <1>9, <2>1, <2>2, StanzaLessGrows
  <2>. QED BY <1>1, <1>3, <1>7, <1>9, <2>3, ParserAdvances
<1>. QED BY <1>8, <1>9

LEMMA UnmatchedEndKeeps ==
  ASSUME ParserInv, UnmatchedEnd
  PROVE  ParserInv'
<1>1. /\ cut # "none" /\ cut' = cut /\ fed' = fed /\ root' = root /\ result' = "error"
  BY DEF UnmatchedEnd, parser, builder
<1>2. Here' = Here /\ \A o : Chain(o)' <=> Chain(o)
  BY <1>1, SameDocument
<1>3. PICK o : Chain(o)
  BY DEF ParserInv
<1>4. Chain(o)'
  BY <1>2, <1>3
<1>5. StanzaLess' /\ ReturnsWhatIsThere'
  BY <1>1 DEF ParserInv, StanzaLess, ReturnsWhatIsThere
<1>. QED BY <1>1, <1>2, <1>4, <1>5 DEF ParserInv

\* The invariant holds in every state, for documents of any length.
LEMMA ParserInvHolds == ParserSpec => []ParserInv
<1>1. ParserInit => ParserInv
  BY ParserBegins
<1>2. ParserInv /\ [ParserNext]_parserVars => ParserInv'
  <2>. SUFFICES ASSUME ParserInv, [ParserNext]_parserVars PROVE ParserInv'
    OBVIOUS
  <2>1. CASE Start
    BY <2>1, StartKeeps
  <2>2. CASE Empty
    BY <2>2, EmptyKeeps
  <2>3. CASE Text
    BY <2>3, TextKeeps
  <2>4. CASE End
    BY <2>4, EndKeeps
  <2>5. CASE UnmatchedEnd
    BY <2>5, UnmatchedEndKeeps
  <2>6. CASE ParserRests
    BY <2>6, ParserStutters DEF ParserRests
  <2>7. CASE UNCHANGED parserVars
    BY <2>7, ParserStutters
  <2>. QED BY <2>1, <2>2, <2>3, <2>4, <2>5, <2>6, <2>7 DEF ParserNext
<1>. QED BY <1>1, <1>2, PTL DEF ParserSpec

\* StanzaParser::feed returns a stanza at the event that completes it and at no other,
\* however deep its children are nested and whatever they hold, and as what the first of
\* its children of each name make it (finalize_message and the others of stanzas.rs); of a
\* stanza the handshake has taken in part it returns nothing.
THEOREM ReturnsWhatIsThereHolds == ParserSpec => []ReturnsWhatIsThere
<1>1. ParserInv => ReturnsWhatIsThere
  BY DEF ParserInv
<1>. QED BY <1>1, ParserInvHolds, PTL

=============================================================================
