-------------------------- MODULE AgenticLoopProofs --------------------------
(***************************************************************************)
(* Theorems about the agentic loop, for every number of rounds, retries,   *)
(* skills and calls in a response: that each call is answered by its own   *)
(* result and executed once, that what a skill says is what happened, and  *)
(* that the servers of both APIs read from a request what was executed.    *)
(***************************************************************************)
EXTENDS SkillCalls, Inductions, FiniteSetTheorems, TLAPS

LEMMA Constants ==
  MaxToolRounds \in Nat /\ MaxRetryAttempts \in Nat /\ MaxCalls \in Nat
BY LoopAssumption

----------------------------------------------------------------------------
\* The conversation, the results so far and the calls executed, in step with the
\* rounds.  The results of a round are the fresh ones only.

ConversationOK ==
  /\ round \in Nat /\ messages \in Seq(Turn) /\ calls \in Seq(Names)
  /\ results \in Seq(Block)

\* The rounds before the current one are answered.
Settled ==
  \A r \in Nat : r < round =>
    /\ messages[2 * r + 2].role = "assistant" /\ messages[2 * r + 3].role = "user"
    /\ Answers(messages[2 * r + 2].uses, messages[2 * r + 3].results, r)

Waiting == pc \in {"request", "sleep"} => Len(messages) = 2 * round + 1

\* While calls are executed the conversation ends with the assistant's turn.
InRound ==
  pc = "execute" =>
    /\ Len(messages) = 2 * round + 2
    /\ messages[2 * round + 2].role = "assistant"
    /\ messages[2 * round + 2].uses = Uses(Len(calls))
    /\ Len(results) <= Len(calls)
    /\ \A k \in 1..Len(results) : results[k] = <<IdOf(CallAt(k)), CallAt(k)>>

PairInv ==
  /\ pc \in {"request", "sleep", "execute", "done", "failed"}
  /\ ConversationOK /\ Settled /\ Waiting /\ InRound

----------------------------------------------------------------------------

LEMMA CallAtTypes ==
  ASSUME round \in Nat, NEW k \in Nat
  PROVE  CallAt(k) \in Call /\ <<IdOf(CallAt(k)), CallAt(k)>> \in Block
<1>1. CallAt(k) \in Call
  BY DEF CallAt, Call
<1>2. IdOf(CallAt(k)) \in Id
  BY DEF CallAt, IdOf, Id
<1> QED BY <1>1, <1>2 DEF Block

LEMMA UsesTypes ==
  ASSUME round \in Nat, NEW n \in Nat
  PROVE  /\ Uses(n) \in Seq(Block) /\ Len(Uses(n)) = n /\ DOMAIN Uses(n) = 1..n
         /\ \A k \in 1..n : Uses(n)[k] = <<IdOf(CallAt(k)), CallAt(k)>>
<1>1. \A k \in 1..n : <<IdOf(CallAt(k)), CallAt(k)>> \in Block
  BY CallAtTypes
<1>2. Uses(n) \in [1..n -> Block]
  BY <1>1 DEF Uses
<1>3. Uses(n) \in Seq(Block)
  BY <1>2
<1>4. \A k \in 1..n : Uses(n)[k] = <<IdOf(CallAt(k)), CallAt(k)>>
  BY DEF Uses
<1> QED BY <1>2, <1>3, <1>4

\* A response's calls are a sequence of names.
LEMMA ResponseCalls ==
  ASSUME NEW res \in Answered
  PROVE  res.calls \in Seq(Names) /\ Len(res.calls) \in Nat
<1>1. res.calls \in CallLists
  BY DEF Answered
<1>2. PICK n \in 0..MaxCalls : res.calls \in [1..n -> Names]
  BY <1>1 DEF CallLists
<1>3. n \in Nat
  BY Constants
<1>4. res.calls \in Seq(Names)
  BY <1>2, <1>3
<1> QED BY <1>4

\* Adding a turn leaves those before it.
LEMMA AppendTurn ==
  ASSUME NEW s \in Seq(Turn), NEW t \in Turn
  PROVE  /\ Append(s, t) \in Seq(Turn) /\ Len(Append(s, t)) = Len(s) + 1
         /\ \A i \in 1..Len(s) : Append(s, t)[i] = s[i]
         /\ Append(s, t)[Len(s) + 1] = t
OBVIOUS

LEMMA SettledAfterAppend ==
  ASSUME PairInv, NEW t \in Turn, messages' = Append(messages, t), round' = round,
         2 * round + 1 <= Len(messages)
  PROVE  Settled'
<1> SUFFICES ASSUME NEW r \in Nat, r < round
             PROVE  /\ messages'[2 * r + 2].role = "assistant"
                    /\ messages'[2 * r + 3].role = "user"
                    /\ Answers(messages'[2 * r + 2].uses, messages'[2 * r + 3].results, r)
  BY DEF Settled, Answers
<1>1. messages \in Seq(Turn) /\ round \in Nat
  BY DEF PairInv, ConversationOK
<1>2. 2 * r + 2 \in 1..Len(messages) /\ 2 * r + 3 \in 1..Len(messages)
  BY <1>1
<1>3. messages'[2 * r + 2] = messages[2 * r + 2] /\ messages'[2 * r + 3] = messages[2 * r + 3]
  BY <1>1, <1>2, AppendTurn
<1> QED BY <1>3 DEF PairInv, Settled

----------------------------------------------------------------------------

LEMMA PairInit == Init => PairInv
<1> SUFFICES ASSUME Init PROVE PairInv
  OBVIOUS
<1>1. PICK media \in BOOLEAN : messages = <<Question(media)>>
  BY DEF Init
<1> DEFINE q == Question(media)
<1>2. q \in Turn
  BY DEF Question, Turn
<1> HIDE DEF q
<1>3. messages \in Seq(Turn) /\ Len(messages) = 1
  BY <1>1, <1>2 DEF q
<1> QED BY <1>3 DEF Init, PairInv, ConversationOK, Settled, Waiting, InRound

LEMMA PairResponds ==
  ASSUME PairInv, NEW res \in Answered, Responds(res)
  PROVE  PairInv'
<1>1. /\ pc = "request" /\ calls' = res.calls /\ results' = <<>> /\ round' = round
      /\ provider' = provider
      /\ round \in Nat /\ messages \in Seq(Turn) /\ Len(messages) = 2 * round + 1
  BY DEF Responds, PairInv, ConversationOK, Waiting
<1>2. calls' \in Seq(Names) /\ Len(calls') \in Nat
  BY <1>1, ResponseCalls
<1>3. CASE Continues(res)
  <2> DEFINE t == AssistantTurn(res)
  <2>1. pc' = "execute" /\ messages' = Append(messages, t)
    BY <1>3 DEF Responds
  <2>2. t \in Turn /\ t.role = "assistant" /\ t.uses = Uses(Len(res.calls))
    <3>1. Uses(Len(res.calls)) \in Seq(Block)
      BY <1>1, <1>2, UsesTypes
    <3>2. res.text \in BOOLEAN
      BY DEF Answered
    <3>3. <<>> \in Seq(Block)
      OBVIOUS
    <3> QED BY <3>1, <3>2, <3>3 DEF AssistantTurn, Turn
  <2>3. t.uses = Uses(Len(calls'))
    BY <1>1, <2>2
  <2>4. messages' = Append(messages, t)
    BY <2>1
  <2> HIDE DEF t
  <2>5. /\ messages' \in Seq(Turn) /\ Len(messages') = 2 * round + 2
        /\ messages'[2 * round + 2] = t
    <3>1. /\ Append(messages, t) \in Seq(Turn) /\ Len(Append(messages, t)) = Len(messages) + 1
          /\ Append(messages, t)[Len(messages) + 1] = t
      BY <1>1, <2>2, AppendTurn
    <3> QED BY <1>1, <2>4, <3>1
  <2>6. Settled'
    BY <1>1, <2>2, <2>4, SettledAfterAppend
  <2>7. ConversationOK'
    BY <1>1, <1>2, <2>5 DEF ConversationOK
  <2>8. InRound'
    <3>1. Uses(Len(calls))' = Uses(Len(calls'))
      BY <1>1 DEF Uses, IdOf, CallAt
    <3> QED BY <1>1, <1>2, <2>2, <2>3, <2>5, <3>1 DEF InRound
  <2> QED BY <2>1, <2>6, <2>7, <2>8 DEF PairInv, Waiting
<1>4. CASE ~Continues(res)
  <2>1. pc' = "done" /\ messages' = messages
    BY <1>4 DEF Responds
  <2> QED BY <1>1, <1>2, <2>1
       DEF PairInv, ConversationOK, Settled, Answers, Waiting, InRound
<1> QED BY <1>3, <1>4

LEMMA PairExecute ==
  ASSUME PairInv, NEW ok \in BOOLEAN, Execute(ok)
  PROVE  PairInv'
<1> DEFINE e == <<IdOf(Current), Current>>
<1>1. /\ pc = "execute" /\ Len(results) < Len(calls) /\ results' = Append(results, e)
      /\ UNCHANGED <<provider, pc, round, messages, calls>>
  BY DEF Execute
<1>2. round \in Nat /\ results \in Seq(Block) /\ calls \in Seq(Names)
  BY DEF PairInv, ConversationOK
<1>3. e \in Block /\ e = <<IdOf(CallAt(Len(results) + 1)), CallAt(Len(results) + 1)>>
  BY <1>2, CallAtTypes DEF Current
<1> HIDE DEF e
<1>4. /\ results' \in Seq(Block) /\ Len(results') = Len(results) + 1
      /\ \A k \in 1..Len(results) : results'[k] = results[k]
      /\ results'[Len(results) + 1] = e
  BY <1>1, <1>2, <1>3
<1>5. \A k \in Nat : CallAt(k)' = CallAt(k) /\ IdOf(CallAt(k))' = IdOf(CallAt(k))
  BY <1>1 DEF CallAt, IdOf
<1>6. \A k \in 1..Len(results') : results'[k] = <<IdOf(CallAt(k)), CallAt(k)>>
  <2> SUFFICES ASSUME NEW k \in 1..Len(results')
               PROVE  results'[k] = <<IdOf(CallAt(k)), CallAt(k)>>
    OBVIOUS
  <2>1. CASE k \in 1..Len(results)
    BY <1>1, <1>4, <2>1 DEF PairInv, InRound
  <2>2. CASE k = Len(results) + 1
    BY <1>3, <1>4, <2>2
  <2> QED BY <1>2, <1>4, <2>1, <2>2
<1>7. InRound'
  <2>1. Uses(Len(calls))' = Uses(Len(calls))
    BY <1>1 DEF Uses, IdOf, CallAt
  <2>2. Len(results') <= Len(calls')
    BY <1>1, <1>2, <1>4
  <2>3. \A k \in 1..Len(results') : results'[k] = <<IdOf(CallAt(k))', CallAt(k)'>>
    BY <1>2, <1>4, <1>5, <1>6
  <2> QED BY <1>1, <2>1, <2>2, <2>3 DEF PairInv, InRound
<1> QED BY <1>1, <1>2, <1>4, <1>7
     DEF PairInv, ConversationOK, Settled, Answers, Waiting

LEMMA PairNextRound ==
  ASSUME PairInv, NextRound
  PROVE  PairInv'
<1> DEFINE t == ResultsTurn
<1>1. /\ pc = "execute" /\ Len(results) = Len(calls) /\ messages' = Append(messages, t)
      /\ pc' = "request" /\ round' = round + 1 /\ UNCHANGED <<provider, calls, results>>
  BY DEF NextRound
<1>2. /\ round \in Nat /\ results \in Seq(Block) /\ calls \in Seq(Names)
      /\ messages \in Seq(Turn) /\ Len(messages) = 2 * round + 2
      /\ messages[2 * round + 2].role = "assistant"
      /\ messages[2 * round + 2].uses = Uses(Len(calls))
      /\ \A k \in 1..Len(results) : results[k] = <<IdOf(CallAt(k)), CallAt(k)>>
  BY <1>1 DEF PairInv, ConversationOK, InRound
<1>3. t \in Turn /\ t.role = "user" /\ t.results = results
  <2>1. <<>> \in Seq(Block)
    OBVIOUS
  <2> QED BY <1>2, <2>1 DEF ResultsTurn, Turn
<1> HIDE DEF t
<1>4. /\ messages' \in Seq(Turn) /\ Len(messages') = 2 * round + 3
      /\ \A i \in 1..Len(messages) : messages'[i] = messages[i]
      /\ messages'[2 * round + 3] = t
  <2>1. /\ Append(messages, t) \in Seq(Turn) /\ Len(Append(messages, t)) = Len(messages) + 1
        /\ \A i \in 1..Len(messages) : Append(messages, t)[i] = messages[i]
        /\ Append(messages, t)[Len(messages) + 1] = t
    BY <1>2, <1>3, AppendTurn
  <2>2. Len(messages) + 1 = 2 * round + 3
    BY <1>2
  <2> QED BY <1>1, <2>1, <2>2
<1>5. Answers(Uses(Len(calls)), results, round)
  <2>1. /\ Len(Uses(Len(calls))) = Len(calls) /\ DOMAIN Uses(Len(calls)) = 1..Len(calls)
        /\ \A k \in 1..Len(calls) : Uses(Len(calls))[k] = <<IdOf(CallAt(k)), CallAt(k)>>
    <3>1. Len(calls) \in Nat
      BY <1>2
    <3> QED BY <1>2, <3>1, UsesTypes
  <2>2. \A k \in 1..Len(calls) : results[k] = Uses(Len(calls))[k]
    BY <1>1, <1>2, <2>1
  <2>3. \A k \in 1..Len(calls) : Uses(Len(calls))[k][2] = [round |-> round, place |-> k]
    BY <2>1 DEF CallAt
  <2> QED BY <1>1, <2>1, <2>2, <2>3 DEF Answers
<1>6. Settled'
  <2> SUFFICES ASSUME NEW r \in Nat, r < round + 1
               PROVE  /\ messages'[2 * r + 2].role = "assistant"
                      /\ messages'[2 * r + 3].role = "user"
                      /\ Answers(messages'[2 * r + 2].uses, messages'[2 * r + 3].results, r)
    BY <1>1 DEF Settled, Answers
  <2>1. CASE r = round
    <3>1. 2 * r + 2 \in 1..Len(messages) /\ 2 * r + 2 = 2 * round + 2
      BY <1>2, <2>1
    <3>2. messages'[2 * r + 2] = messages[2 * round + 2] /\ messages'[2 * r + 3] = t
      BY <1>4, <2>1, <3>1
    <3> QED BY <1>2, <1>3, <1>5, <2>1, <3>2
  <2>2. CASE r < round
    <3>1. 2 * r + 2 \in 1..Len(messages) /\ 2 * r + 3 \in 1..Len(messages)
      BY <1>2, <2>2
    <3>2. messages'[2 * r + 2] = messages[2 * r + 2] /\ messages'[2 * r + 3] = messages[2 * r + 3]
      BY <1>4, <3>1
    <3> QED BY <2>2, <3>2 DEF PairInv, Settled
  <2> QED BY <1>2, <2>1, <2>2
<1> QED BY <1>1, <1>2, <1>4, <1>6 DEF PairInv, ConversationOK, Waiting, InRound

LEMMA PairStep == PairInv /\ [Next]_vars => PairInv'
<1> SUFFICES ASSUME PairInv, [Next]_vars PROVE PairInv'
  OBVIOUS
<1>1. ASSUME NEW why \in Failures, RequestFails(why) PROVE PairInv'
  <2>1. pc = "request" /\ pc' \in {"sleep", "failed"}
        /\ UNCHANGED <<round, messages, calls, results>>
    BY <1>1 DEF RequestFails
  <2> QED BY <2>1 DEF PairInv, ConversationOK, Settled, Answers, Waiting, InRound
<1>2. CASE RetryAfterDelay
  BY <1>2 DEF RetryAfterDelay, PairInv, ConversationOK, Settled, Answers, Waiting, InRound
<1>3. ASSUME NEW res \in Answered, Responds(res) PROVE PairInv'
  BY <1>3, PairResponds
<1>4. ASSUME NEW ok \in BOOLEAN, Execute(ok) PROVE PairInv'
  BY <1>4, PairExecute
<1>5. CASE NextRound
  BY <1>5, PairNextRound
<1>6. CASE UNCHANGED vars
  BY <1>6 DEF vars, PairInv, ConversationOK, Settled, Answers, Waiting, InRound, Uses, IdOf, CallAt
<1> QED BY <1>1, <1>2, <1>3, <1>4, <1>5, <1>6 DEF Next, Step, Ended

\* Every request of the loop is a conversation in which each tool_use is answered by
\* the result of its own call, for any skills, any failures and any number of rounds.
THEOREM RequestsWellPaired == Spec => []WellPaired
<1>1. PairInv => WellPaired
  <2> SUFFICES ASSUME PairInv, pc \in {"request", "sleep"},
                      NEW r \in 0..(round - 1)
               PROVE  /\ messages[2 * r + 2].role = "assistant"
                      /\ messages[2 * r + 3].role = "user"
                      /\ Answers(messages[2 * r + 2].uses, messages[2 * r + 3].results, r)
    BY DEF WellPaired, PairInv, Waiting
  <2>1. r \in Nat /\ r < round
    BY DEF PairInv, ConversationOK
  <2> QED BY <2>1 DEF PairInv, Settled
<1> QED BY <1>1, PairInit, PairStep, PTL DEF Spec

----------------------------------------------------------------------------
\* What was executed lies before the call that is next.
Past ==
  \A i \in DOMAIN executed :
    \/ executed[i].round < round
    \/ pc = "execute" /\ executed[i].round = round /\ executed[i].place <= Len(results)

OnceInv == PairInv /\ executed \in Seq(Call) /\ Past /\ ExecutedOnce

LEMMA OnceInit == Init => OnceInv
BY PairInit DEF Init, OnceInv, Past, ExecutedOnce

LEMMA OnceExecute ==
  ASSUME OnceInv, NEW ok \in BOOLEAN, Execute(ok)
  PROVE  executed' \in Seq(Call) /\ Past' /\ ExecutedOnce'
<1> DEFINE c == Current
<1>1. /\ pc = "execute" /\ executed' = Append(executed, c)
      /\ results' = Append(results, <<IdOf(Current), Current>>) /\ UNCHANGED <<pc, round>>
  BY DEF Execute
<1>2. round \in Nat /\ results \in Seq(Block) /\ executed \in Seq(Call)
  BY DEF OnceInv, PairInv, ConversationOK
<1>3. c \in Call /\ c.round = round /\ c.place = Len(results) + 1
  BY <1>2 DEF Current, CallAt, Call
<1>4. Len(results') = Len(results) + 1
  BY <1>1, <1>2
<1> HIDE DEF c
<1>5. /\ executed' \in Seq(Call) /\ DOMAIN executed' = 1..(Len(executed) + 1)
      /\ \A i \in DOMAIN executed : executed'[i] = executed[i]
      /\ executed'[Len(executed) + 1] = c
  BY <1>1, <1>2, <1>3
<1>6. DOMAIN executed = 1..Len(executed) /\ Len(executed) \in Nat
  BY <1>2
<1>7. \A i \in DOMAIN executed : executed[i] \in Call /\ Before(executed[i], c)
  <2> SUFFICES ASSUME NEW i \in DOMAIN executed
               PROVE  executed[i] \in Call /\ Before(executed[i], c)
    OBVIOUS
  <2>0. executed[i] \in Call
    BY <1>2
  <2>1. executed[i] \in Call /\ executed[i].round \in Nat /\ executed[i].place \in Nat
    BY <2>0 DEF Call
  <2>2. \/ executed[i].round < round
        \/ executed[i].round = round /\ executed[i].place <= Len(results)
    BY DEF OnceInv, Past
  <2>3. Len(results) \in Nat
    BY <1>2
  <2> QED BY <1>3, <2>1, <2>2, <2>3 DEF Before
<1>8. Past'
  <2> SUFFICES ASSUME NEW i \in DOMAIN executed'
               PROVE  \/ executed'[i].round < round
                      \/ /\ executed'[i].round = round
                         /\ executed'[i].place <= Len(results) + 1
    BY <1>1, <1>4 DEF Past
  <2>1. CASE i \in DOMAIN executed
    <3>1. executed'[i] = executed[i] /\ executed[i].place \in Nat
      BY <1>5, <1>7, <2>1 DEF Call
    <3>2. \/ executed[i].round < round
          \/ executed[i].round = round /\ executed[i].place <= Len(results)
      BY <2>1 DEF OnceInv, Past
    <3>3. Len(results) \in Nat
      BY <1>2
    <3> QED BY <3>1, <3>2, <3>3
  <2>2. CASE i = Len(executed) + 1
    <3>1. executed'[i] = c
      BY <1>5, <2>2
    <3>2. Len(results) \in Nat
      BY <1>2
    <3> QED BY <1>3, <3>1, <3>2
  <2> QED BY <1>5, <1>6, <2>1, <2>2
<1>9. ExecutedOnce'
  <2> SUFFICES ASSUME NEW i \in DOMAIN executed', NEW j \in DOMAIN executed', i < j
               PROVE  Before(executed'[i], executed'[j])
    BY DEF ExecutedOnce, Before
  <2>1. i \in DOMAIN executed
    BY <1>5, <1>6
  <2>2. CASE j \in DOMAIN executed
    BY <1>5, <2>1, <2>2 DEF OnceInv, ExecutedOnce
  <2>3. CASE j = Len(executed) + 1
    BY <1>5, <1>7, <2>1, <2>3
  <2> QED BY <1>5, <1>6, <2>2, <2>3
<1> QED BY <1>5, <1>8, <1>9

LEMMA OnceStep == OnceInv /\ [Next]_vars => OnceInv'
<1> SUFFICES ASSUME OnceInv, [Next]_vars PROVE executed' \in Seq(Call) /\ Past' /\ ExecutedOnce'
  BY PairStep DEF OnceInv
<1> USE DEF OnceInv, Past, ExecutedOnce, Before
<1>1. ASSUME NEW why \in Failures, RequestFails(why)
      PROVE  executed' \in Seq(Call) /\ Past' /\ ExecutedOnce'
  BY <1>1 DEF RequestFails
<1>2. CASE RetryAfterDelay
  BY <1>2 DEF RetryAfterDelay
<1>3. ASSUME NEW res \in Answered, Responds(res)
      PROVE  executed' \in Seq(Call) /\ Past' /\ ExecutedOnce'
  BY <1>3 DEF Responds
<1>4. ASSUME NEW ok \in BOOLEAN, Execute(ok)
      PROVE  executed' \in Seq(Call) /\ Past' /\ ExecutedOnce'
  BY <1>4, OnceExecute
<1>5. CASE NextRound
  <2>1. pc = "execute" /\ round' = round + 1 /\ UNCHANGED executed /\ round \in Nat
    BY <1>5 DEF NextRound, PairInv, ConversationOK
  <2>2. \A i \in DOMAIN executed : executed[i].round \in Nat
    <3>1. \A i \in DOMAIN executed : executed[i] \in Call
      OBVIOUS
    <3> QED BY <3>1 DEF Call
  <2>3. Past'
    BY <2>1, <2>2
  <2> QED BY <2>1, <2>3
<1>6. CASE UNCHANGED vars
  BY <1>6 DEF vars
<1> QED BY <1>1, <1>2, <1>3, <1>4, <1>5, <1>6 DEF Next, Step, Ended

\* No tool call is executed twice or out of turn, however often requests are retried.
THEOREM ExecutedOnceHolds == Spec => []ExecutedOnce
<1>1. OnceInv => ExecutedOnce
  BY DEF OnceInv
<1> QED BY <1>1, OnceInit, OnceStep, PTL DEF Spec

----------------------------------------------------------------------------
\* What is known of a call while it runs

\* Nothing is known between two calls; while one runs it is the next one of the round.
Waits ==
  /\ skill \in [stage : Stages, size : Sizes, type : Types]
  /\ skill.stage = "idle" => skill = Idle /\ output = Nothing /\ was = Silence
  /\ skill.stage # "idle" => pc = "execute" /\ Len(results) < Len(calls)

\* While the other side is waited for, what it has sent so far.
SoFar ==
  /\ skill.stage \in {"fetch", "search"} => output = Nothing /\ was = Silence
  /\ skill.stage \in {"fetch", "body"} => Name = "url_fetch"
  /\ skill.stage = "search" => Name = "web_search"
  /\ skill.stage = "body" =>
       /\ skill.size \in Sizes /\ output = Nothing
       /\ was = [Silence EXCEPT !.status = TRUE, !.size = skill.size]

CallInv == Waits /\ SoFar /\ TruthfulOutput

\* A text within the limit is passed on as it is, a longer one is cut at the limit.
LEMMA FormatFacts ==
  ASSUME NEW type, NEW size \in Sizes, NEW text \in ExtractText(type, size),
         NEW out, out = FormatResult(text)
  PROVE  /\ out.says \in {"text", "cut", "empty", "note"} /\ out.sources = 0
         /\ out.says = "cut" <=> text.chars > MaxTextOutput
         /\ out.says \in {"text", "empty"} => out.chars = text.chars
         /\ out.chars <= MaxTextOutput
<1>1. MaxTextOutput \in Nat
  BY SkillAssumption
<1>2. text.chars \in Nat /\ text.says \in {"text", "note"}
      /\ (text.says = "note" => text.chars = 1)
  <2>1. CASE text = [says |-> "note", chars |-> 1]
    BY <2>1
  <2>2. CASE text # [says |-> "note", chars |-> 1]
    <3>1. PICK n \in Lengths : text = [says |-> "text", chars |-> n]
      BY <2>2 DEF ExtractText
    <3>. QED BY <1>1, <3>1 DEF Lengths
  <2>. QED BY <2>1, <2>2
<1>3. /\ out.says = IF text.chars = 0 THEN "empty"
                    ELSE IF text.chars > MaxTextOutput THEN "cut" ELSE text.says
      /\ out.chars = IF text.chars > MaxTextOutput THEN MaxTextOutput ELSE text.chars
      /\ out.sources = 0
  BY <1>1, <1>2 DEF FormatResult, Nothing
<1>. QED BY <1>1, <1>2, <1>3

\* A step within a call leaves the loop where it is.
LEMMA KeepsCall ==
  ASSUME Keeps
  PROVE  /\ pc' = pc /\ calls' = calls /\ results' = results /\ Name' = Name
         /\ search' = search
BY DEF Keeps, vars, Name

\* What is returned may be told of what has come.
Truthful(out, came, name) ==
  /\ out.says \in {"text", "cut", "empty", "note"} =>
       came.status /\ came.size <= MaxResponseSize /\ name = "url_fetch"
  /\ out.says \in {"text", "empty"} => out.chars = came.chars
  /\ out.says = "cut" <=> came.chars > MaxTextOutput
  /\ out.chars <= MaxTextOutput
  /\ out.says = "results" <=> came.status /\ name = "web_search"
  /\ out.sources = came.sources

LEMMA ReturnsTruth ==
  ASSUME CallInv, Keeps, pc = "execute", Len(results) < Len(calls),
         NEW out, Returns(out), Truthful(out, was', Name)
  PROVE  CallInv'
<1>1. /\ skill' \in [stage : Stages, size : Sizes, type : Types]
      /\ skill'.stage = "done" /\ output' = out
  BY DEF CallInv, Waits, Returns, Stages
<1>. QED BY <1>1, KeepsCall DEF CallInv, Waits, SoFar, TruthfulOutput, Truthful

\* A call that ends with an error, a failure or a stored entry tells of no answer.
LEMMA PlainTruth ==
  ASSUME NEW what \in {"error", "failed", "entry"}, NEW came, NEW name,
         came.chars = 0, came.sources = 0, ~(came.status /\ name = "web_search")
  PROVE  Truthful(Says(what), came, name)
<1>1. MaxTextOutput \in Nat
  BY SkillAssumption
<1>2. Says(what).says = what /\ Says(what).chars = 0 /\ Says(what).sources = 0
  BY DEF Says, Nothing
<1>. QED BY <1>1, <1>2 DEF Truthful

LEMMA SilenceFacts ==
  /\ Silence.status = FALSE /\ Silence.size = 0 /\ Silence.chars = 0 /\ Silence.sources = 0
  /\ \A ok, size : LET came == [Silence EXCEPT !.status = ok, !.size = size]
                   IN  /\ came.status = ok /\ came.size = size
                       /\ came.chars = 0 /\ came.sources = 0
BY DEF Silence

LEMMA StartTruth ==
  ASSUME CallInv, \/ Refused \/ Remember \/ Recall \/ StartSearch
                  \/ \E valid \in BOOLEAN : StartFetch(valid)
  PROVE  CallInv'
<1>1. /\ Keeps /\ was' = Silence /\ pc = "execute" /\ Len(results) < Len(calls)
      /\ skill.stage = "idle"
  BY DEF Refused, Remember, Recall, StartSearch, StartFetch
<1>2. ASSUME NEW what \in {"error", "failed", "entry"}, Returns(Says(what)) PROVE CallInv'
  <2>1. Truthful(Says(what), was', Name)
    BY <1>1, PlainTruth, SilenceFacts
  <2>. QED BY <1>1, <1>2, <2>1, ReturnsTruth
<1>3. ASSUME NEW stage \in {"fetch", "search"}, skill' = [skill EXCEPT !.stage = stage],
             UNCHANGED output, stage = "fetch" => Name = "url_fetch",
             stage = "search" => Name = "web_search"
      PROVE  CallInv'
  <2>1. /\ skill' \in [stage : Stages, size : Sizes, type : Types] /\ skill'.stage = stage
        /\ output' = Nothing
    BY <1>1, <1>3 DEF CallInv, Waits, Stages
  <2>. QED BY <1>1, <1>3, <2>1, KeepsCall DEF CallInv, Waits, SoFar, TruthfulOutput
<1>4. \/ \E what \in {"error", "failed", "entry"} : Returns(Says(what))
      \/ skill' = [skill EXCEPT !.stage = "fetch"] /\ Name = "url_fetch" /\ UNCHANGED output
      \/ skill' = [skill EXCEPT !.stage = "search"] /\ Name = "web_search" /\ UNCHANGED output
  BY DEF Refused, Remember, Recall, StartSearch, StartFetch
<1>. QED BY <1>2, <1>3, <1>4

LEMMA FetchTruth ==
  ASSUME CallInv,
         \/ \E ok, declared \in BOOLEAN, size \in Sizes, type \in Types :
              SiteAnswers(ok, size, declared, type)
         \/ Body \/ FetchFails \/ FetchTimesOut
  PROVE  CallInv'
<1>1. MaxResponseSize \in Nat /\ MaxTextOutput \in Nat
  BY SkillAssumption
<1>2. ASSUME Keeps, skill.stage \in {"fetch", "body"}, Returns(Says("failed")),
             was'.chars = 0, was'.sources = 0
      PROVE  CallInv'
  <2>1. Name = "url_fetch" /\ pc = "execute" /\ Len(results) < Len(calls)
    BY <1>2 DEF CallInv, Waits, SoFar
  <2>2. Truthful(Says("failed"), was', Name)
    BY <1>2, <2>1, PlainTruth
  <2>. QED BY <1>2, <2>1, <2>2, ReturnsTruth
<1>3. ASSUME NEW ok \in BOOLEAN, NEW declared \in BOOLEAN, NEW size \in Sizes,
             NEW type \in Types, SiteAnswers(ok, size, declared, type)
      PROVE  CallInv'
  <2>1. /\ Keeps /\ skill.stage = "fetch" /\ was' = [Silence EXCEPT !.status = ok, !.size = size]
        /\ output = Nothing
    BY <1>3 DEF SiteAnswers, CallInv, SoFar
  <2>2. CASE Returns(Says("failed"))
    BY <1>2, <2>1, <2>2, SilenceFacts
  <2>3. CASE ~Returns(Says("failed"))
    <3>1. /\ ok = TRUE /\ skill' = [stage |-> "body", size |-> size, type |-> type]
          /\ output' = output
      BY <1>3, <2>3 DEF SiteAnswers
    <3>2. skill' \in [stage : Stages, size : Sizes, type : Types]
      BY <3>1 DEF Stages
    <3>3. Name = "url_fetch" /\ pc = "execute" /\ Len(results) < Len(calls)
      BY <2>1 DEF CallInv, Waits, SoFar
    <3>. QED BY <2>1, <3>1, <3>2, <3>3, KeepsCall DEF CallInv, Waits, SoFar, TruthfulOutput
  <2>. QED BY <2>2, <2>3
<1>4. CASE Body
  <2>1. /\ Keeps /\ skill.stage = "body" /\ skill.size \in Sizes /\ Name = "url_fetch"
        /\ was = [Silence EXCEPT !.status = TRUE, !.size = skill.size]
        /\ pc = "execute" /\ Len(results) < Len(calls)
    BY <1>4 DEF Body, CallInv, Waits, SoFar
  <2>2. CASE skill.size > MaxResponseSize
    <3>1. Returns(Says("failed")) /\ was' = was
      BY <1>4, <2>2 DEF Body
    <3>. QED BY <1>2, <2>1, <3>1, SilenceFacts
  <2>3. CASE ~(skill.size > MaxResponseSize)
    <3>1. PICK text \in ExtractText(skill.type, skill.size) :
            was' = [was EXCEPT !.chars = text.chars] /\ Returns(FormatResult(text))
      BY <1>4, <2>3 DEF Body
    <3>2. /\ was'.status = TRUE /\ was'.size = skill.size /\ was'.chars = text.chars
          /\ was'.sources = 0
      BY <2>1, <3>1 DEF Silence
    <3> DEFINE out == FormatResult(text)
    <3>3. /\ out.says \in {"text", "cut", "empty", "note"} /\ out.sources = 0
          /\ out.says = "cut" <=> text.chars > MaxTextOutput
          /\ out.says \in {"text", "empty"} => out.chars = text.chars
          /\ out.chars <= MaxTextOutput
      BY <2>1, FormatFacts
    <3>4. Returns(out)
      BY <3>1
    <3>. HIDE DEF out
    <3>5. skill.size <= MaxResponseSize
      BY <1>1, <2>1, <2>3 DEF Sizes
    <3>6. Truthful(out, was', Name)
      BY <2>1, <3>2, <3>3, <3>5 DEF Truthful
    <3>. QED BY <2>1, <3>4, <3>6, ReturnsTruth
  <2>. QED BY <2>2, <2>3
<1>5. CASE FetchFails \/ FetchTimesOut
  <2>1. /\ Keeps /\ skill.stage \in {"fetch", "body"} /\ Returns(Says("failed"))
        /\ was' = [was EXCEPT !.status = FALSE]
    BY <1>5 DEF FetchFails, FetchTimesOut
  <2>2. was'.chars = 0 /\ was'.sources = 0
    <3>1. CASE was = Silence
      BY <2>1, <3>1 DEF Silence
    <3>2. CASE was = [Silence EXCEPT !.status = TRUE, !.size = skill.size]
      BY <2>1, <3>2 DEF Silence
    <3>. QED BY <2>1, <3>1, <3>2 DEF CallInv, SoFar
  <2>. QED BY <1>2, <2>1, <2>2
<1>. QED BY <1>3, <1>4, <1>5

LEMMA SearchTruth ==
  ASSUME CallInv, SearchFails \/ \E answer \in SearchAnswers : SearchAnswered(answer)
  PROVE  CallInv'
<1>1. /\ Keeps /\ was = Silence /\ Name = "web_search" /\ pc = "execute"
      /\ Len(results) < Len(calls)
  BY DEF SearchFails, SearchAnswered, CallInv, Waits, SoFar
<1>2. CASE SearchFails
  <2>1. Returns(Says("failed")) /\ was' = Silence
    BY <1>1, <1>2 DEF SearchFails
  <2>2. Truthful(Says("failed"), was', Name)
    BY <2>1, PlainTruth, SilenceFacts
  <2>. QED BY <1>1, <2>1, <2>2, ReturnsTruth
<1>3. ASSUME NEW answer \in SearchAnswers, SearchAnswered(answer) PROVE CallInv'
  <2> DEFINE n == Sources(answer)
             out == [Says("results") EXCEPT !.sources = n]
  <2>1. Returns(out) /\ was' = [was EXCEPT !.status = TRUE, !.sources = n]
    BY <1>3 DEF SearchAnswered
  <2>. HIDE DEF n
  <2>2. out.says = "results" /\ out.chars = 0 /\ out.sources = n
    BY DEF Says, Nothing
  <2>3. /\ was'.status = TRUE /\ was'.size = 0 /\ was'.chars = 0 /\ was'.sources = n
    BY <1>1, <2>1 DEF Silence
  <2>4. MaxTextOutput \in Nat
    BY SkillAssumption
  <2>. HIDE DEF out
  <2>5. Truthful(out, was', Name)
    BY <1>1, <2>2, <2>3, <2>4 DEF Truthful
  <2>. QED BY <1>1, <2>1, <2>5, ReturnsTruth
<1>. QED BY <1>2, <1>3

LEMMA CallsStart == CallsInit => CallInv
<1>1. 0 \in Sizes
  BY SkillAssumption DEF Sizes
<1>. QED BY <1>1 DEF CallsInit, CallInv, Waits, SoFar, TruthfulOutput, Idle, Stages, Types

LEMMA CallsStep == CallInv /\ [CallsNext]_<<vars, callVars>> => CallInv'
<1>. SUFFICES ASSUME CallInv, [CallsNext]_<<vars, callVars>> PROVE CallInv'
  OBVIOUS
<1>1. CASE Loop
  <2>1. pc \in {"request", "sleep"} \/ ~(Len(results) < Len(calls))
    BY <1>1 DEF Loop, RequestFails, RetryAfterDelay, Responds, NextRound
  <2>2. skill.stage = "idle" /\ UNCHANGED callVars
    BY <1>1, <2>1 DEF Loop, CallInv, Waits
  <2>. QED BY <2>2 DEF CallInv, Waits, SoFar, TruthfulOutput, callVars, Idle
<1>2. CASE Return
  <2>1. skill' = Idle /\ output' = Nothing /\ was' = Silence
    BY <1>2 DEF Return
  <2>2. 0 \in Sizes
    BY SkillAssumption DEF Sizes
  <2>. QED BY <2>1, <2>2 DEF CallInv, Waits, SoFar, TruthfulOutput, Idle, Stages, Types
<1>3. CASE (Ended /\ UNCHANGED callVars) \/ UNCHANGED <<vars, callVars>>
  BY <1>3 DEF Ended, vars, callVars, CallInv, Waits, SoFar, TruthfulOutput, Name
<1>. QED BY <1>1, <1>2, <1>3, StartTruth, FetchTruth, SearchTruth DEF CallsNext, Own, Site

\* Whatever the sites and the search servers do, a skill's text says no more and no less than
\* what has come: url_fetch and web_search with their limits, and the memory skills
\* (skills/builtin).
THEOREM TruthfulOutputHolds == CallsSpec => []TruthfulOutput
<1>1. CallInv => TruthfulOutput
  BY DEF CallInv
<1>. QED BY <1>1, CallsStart, CallsStep, PTL DEF CallsSpec

\* The loop with its calls opened up is the agentic loop: a stage of a call is a stutter, its
\* end is Execute.
THEOREM CallsRunLoop == CallsSpec => Spec
<1>1. CallsInit => Init
  BY DEF CallsInit
<1>2. [CallsNext]_<<vars, callVars>> => [Next]_vars
  <2>. SUFFICES ASSUME CallsNext, vars' # vars PROVE Next
    BY DEF vars
  <2>1. ~Keeps
    BY DEF Keeps
  <2>2. CASE Loop
    BY <2>2 DEF Loop, Next, Step
  <2>3. CASE Return
    <3>1. \E ok \in BOOLEAN : Execute(ok)
      BY <2>3 DEF Return
    <3>. QED BY <3>1 DEF Next, Step
  <2>4. CASE ~Loop /\ ~Return
    BY <2>1, <2>4 DEF CallsNext, Own, Site, Refused, Remember, Recall, StartSearch, StartFetch,
       SiteAnswers, Body, FetchFails, FetchTimesOut, SearchAnswered, SearchFails, Ended
  <2>. QED BY <2>2, <2>3, <2>4
<1>. QED BY <1>1, <1>2, PTL DEF CallsSpec, Spec

----------------------------------------------------------------------------
\* A sequence of sequences in one

\* What the first n sequences make, for each n.
Flattens(g, S, s) ==
  /\ g \in [Nat -> Seq(S)] /\ g[0] = <<>> /\ FlattenSeq(s) = g[Len(s)]
  /\ \A n \in Nat : n < Len(s) => g[n + 1] = g[n] \o s[n + 1]

LEMMA FlattenUnfolds ==
  ASSUME NEW S, NEW s \in Seq(Seq(S))
  PROVE  \E g : Flattens(g, S, s)
<1> DEFINE Cat(d, n) == d \o s[n]
<1>0. /\ Len(s) \in Nat /\ <<>> \in Seq(S)
      /\ \A n \in 1..Len(s) : s[n] \in Seq(S)
  OBVIOUS
<1>1. /\ \A n \in 1..Len(s) : \A d \in Seq(S) : Cat(d, n) \in Seq(S)
      /\ \A n \in 1..Len(s) : Cat(<<>>, n) = s[n]
  <2>1. ASSUME NEW e \in Seq(S) PROVE (\A d \in Seq(S) : d \o e \in Seq(S)) /\ <<>> \o e = e
    OBVIOUS
  <2>. QED BY <1>0, <2>1
<1>2. FlattenSeq(s) = IF Len(s) = 0 THEN s
                   ELSE LET flatten[i \in 1..Len(s)] ==
                                    IF i = 1 THEN s[i] ELSE Cat(flatten[i - 1], i)
                              IN  flatten[Len(s)]
  BY DEF FlattenSeq
<1> HIDE DEF Cat
<1> DEFINE step == [z \in Nat \X Seq(S) |->
                      IF z[1] < Len(s) THEN Cat(z[2], z[1] + 1) ELSE z[2]]
<1>3. step \in [Nat \X Seq(S) -> Seq(S)]
  <2>1. ASSUME NEW n \in Nat, NEW d \in Seq(S), n < Len(s) PROVE Cat(d, n + 1) \in Seq(S)
    <3>1. n + 1 \in 1..Len(s)
      BY <1>0, <2>1
    <3>. QED BY <1>1, <3>1
  <2>. QED BY <2>1
<1>4. \A n \in Nat, d \in Seq(S) : step[<<n, d>>] = IF n < Len(s) THEN Cat(d, n + 1) ELSE d
  OBVIOUS
<1> HIDE DEF step
<1>5. \E g : Iterates(g, Seq(S), <<>>, step)
  BY <1>0, <1>3, Recursion
<1>6. PICK g \in [Nat -> Seq(S)] : g[0] = <<>> /\ \A n \in Nat : g[n + 1] = step[<<n, g[n]>>]
  BY <1>5 DEF Iterates
<1>7. ASSUME NEW n \in Nat, n < Len(s) PROVE g[n + 1] = Cat(g[n], n + 1)
  BY <1>4, <1>6, <1>7
<1>8. FlattenSeq(s) = g[Len(s)]
  <2>1. CASE Len(s) = 0
    <3>1. s = <<>>
      BY <2>1
    <3>. QED BY <1>2, <1>6, <2>1, <3>1
  <2>2. CASE Len(s) # 0
    <3> DEFINE Fun(F) == F = [i \in 1..Len(s) |-> IF i = 1 THEN s[i] ELSE Cat(F[i - 1], i)]
               h == [i \in 1..Len(s) |-> g[i]]
               F == CHOOSE F : Fun(F)
    <3>1. ASSUME NEW n \in 1..Len(s)
          PROVE  h[n] = IF n = 1 THEN s[n] ELSE Cat(h[n - 1], n)
      <4>1. n - 1 \in Nat /\ n - 1 < Len(s) /\ (n - 1) + 1 = n
        BY <1>0
      <4>2. g[n] = Cat(g[n - 1], n)
        BY <1>7, <4>1
      <4>3. CASE n = 1
        <5>1. g[n] = Cat(<<>>, n)
          BY <1>6, <4>2, <4>3
        <5>2. g[n] = s[n]
          BY <1>1, <5>1
        <5>. QED BY <4>3, <5>2
      <4>4. CASE n # 1
        <5>1. h[n] = g[n] /\ h[n - 1] = g[n - 1]
          BY <1>0, <4>4
        <5>2. h[n] = Cat(h[n - 1], n)
          <6>. HIDE DEF h
          <6>. QED BY <4>2, <5>1
        <5>. QED BY <4>4, <5>2
      <4>. QED BY <4>3, <4>4
    <3>2. Fun(h)
      BY <3>1
    <3>3. Fun(F)
      <4>. HIDE DEF Fun
      <4>. QED BY <3>2
    <3>4. FlattenSeq(s) = F[Len(s)]
      BY <1>2, <2>2
    <3>. HIDE DEF F
    <3> DEFINE E == {n \in Nat : n \in 1..Len(s) => F[n] = g[n]}
    <3>5. 0 \in E
      OBVIOUS
    <3>6. ASSUME NEW n \in Nat, n \in E PROVE n + 1 \in E
      <4>. SUFFICES ASSUME n + 1 \in 1..Len(s) PROVE F[n + 1] = g[n + 1]
        OBVIOUS
      <4>1. F[n + 1] = IF n + 1 = 1 THEN s[n + 1] ELSE Cat(F[n], n + 1)
        <5>1. (n + 1) - 1 = n
          OBVIOUS
        <5>. QED BY <3>3, <5>1
      <4>2. g[n + 1] = Cat(g[n], n + 1)
        BY <1>0, <1>7
      <4>3. CASE n = 0
        <5>1. g[n + 1] = Cat(<<>>, n + 1)
          BY <1>6, <4>2, <4>3
        <5>2. g[n + 1] = s[n + 1]
          BY <1>1, <5>1
        <5>. QED BY <4>1, <4>3, <5>2
      <4>4. CASE n # 0
        <5>1. F[n] = g[n]
          BY <1>0, <3>6, <4>4
        <5>. QED BY <4>1, <4>2, <4>4, <5>1
      <4>. QED BY <4>3, <4>4
    <3>7. Nat \subseteq E
      <4>. HIDE DEF E
      <4>. QED BY <3>5, <3>6, Induction
    <3>8. Len(s) \in 1..Len(s)
      BY <1>0, <2>2
    <3>. QED BY <1>0, <3>4, <3>7, <3>8
  <2>. QED BY <2>1, <2>2
<1>9. \A n \in Nat : n < Len(s) => g[n + 1] = g[n] \o s[n + 1]
  BY <1>7 DEF Cat
<1>. QED BY <1>6, <1>8, <1>9 DEF Flattens

LEMMA FlattenEmpty == FlattenSeq(<<>>) = <<>>
BY DEF FlattenSeq

\* Of what is added to s, only the sequence at place q is not empty.
LEMMA FlattenOne ==
  ASSUME NEW S, NEW s \in Seq(Seq(S)), NEW t \in Seq(Seq(S)), NEW x \in Seq(S),
         NEW q \in Nat, Len(s) < q, q <= Len(t), t[q] = x,
         \A n \in 1..Len(s) : t[n] = s[n],
         \A n \in 1..Len(t) : (n > Len(s) /\ n # q) => t[n] = <<>>
  PROVE  FlattenSeq(t) = FlattenSeq(s) \o x
<1>0. Len(s) \in Nat /\ Len(t) \in Nat
  OBVIOUS
<1>1. PICK f : Flattens(f, S, s)
  BY FlattenUnfolds
<1>2. PICK g : Flattens(g, S, t)
  BY FlattenUnfolds
<1> DEFINE y == f[Len(s)]
           z == y \o x
<1>3. /\ f[0] = <<>> /\ g[0] = <<>> /\ f \in [Nat -> Seq(S)] /\ g \in [Nat -> Seq(S)]
      /\ FlattenSeq(s) = y /\ FlattenSeq(t) = g[Len(t)]
  BY <1>0, <1>1, <1>2 DEF Flattens
<1>4. ASSUME NEW n \in Nat, n < Len(s), g[n] = f[n] PROVE g[n + 1] = f[n + 1]
  <2>1. n + 1 \in 1..Len(s) /\ n < Len(t)
    BY <1>0, <1>4
  <2>2. t[n + 1] = s[n + 1]
    BY <2>1
  <2>3. f[n + 1] = f[n] \o s[n + 1] /\ g[n + 1] = g[n] \o t[n + 1]
    BY <1>1, <1>2, <1>4, <2>1, Zenon DEF Flattens
  <2>. QED BY <1>4, <2>2, <2>3, Zenon
<1>5. ASSUME NEW n \in Nat, Len(s) <= n, n < Len(t), n + 1 # q PROVE g[n + 1] = g[n]
  <2>1. n + 1 \in 1..Len(t) /\ n + 1 > Len(s)
    BY <1>0, <1>5
  <2>2. t[n + 1] = <<>>
    BY <1>5, <2>1
  <2>3. g[n + 1] = g[n] \o t[n + 1]
    BY <1>2, <1>5, Zenon DEF Flattens
  <2>4. g[n] \in Seq(S)
    BY <1>3
  <2>. QED BY <2>2, <2>3, <2>4
<1>6. ASSUME NEW n \in Nat, n < Len(t), n + 1 = q, g[n] = y PROVE g[n + 1] = z
  <2>1. g[n + 1] = g[n] \o t[n + 1]
    BY <1>2, <1>6, Zenon DEF Flattens
  <2>. QED BY <1>6, <2>1, Zenon
<1> DEFINE E == {n \in Nat : /\ n <= Len(s) => g[n] = f[n]
                             /\ (n >= Len(s) /\ n < q) => g[n] = y
                             /\ (n >= q /\ n <= Len(t)) => g[n] = z}
<1> HIDE DEF z
<1>7. 0 \in E
  BY <1>0, <1>3
<1>8. ASSUME NEW n \in Nat, n \in E PROVE n + 1 \in E
  <2>1. n <= Len(s) => g[n] = f[n]
    BY <1>8
  <2>2. (n >= Len(s) /\ n < q) => g[n] = y
    BY <1>8
  <2>3. (n >= q /\ n <= Len(t)) => g[n] = z
    BY <1>8
  <2>4. CASE n < Len(s)
    <3>1. g[n + 1] = f[n + 1] /\ n + 1 <= Len(s) /\ n + 1 < q
      <4>1. g[n + 1] = f[n + 1]
        BY <1>4, <1>0, <2>1, <2>4
      <4>. QED BY <1>0, <2>4, <4>1
    <3>2. n + 1 >= Len(s) => n + 1 = Len(s)
      BY <1>0, <2>4
    <3>. QED BY <3>1, <3>2
  <2>5. CASE n >= Len(s) /\ n + 1 < q
    <3>1. n < Len(t) /\ n + 1 # q /\ n < q
      BY <1>0, <2>5
    <3>2. g[n + 1] = y
      BY <1>5, <2>2, <2>5, <3>1
    <3>. QED BY <1>0, <2>5, <3>2
  <2>6. CASE n >= Len(s) /\ n + 1 = q
    <3>1. n < Len(t) /\ n < q
      BY <1>0, <2>6
    <3>2. g[n + 1] = z
      BY <1>6, <2>2, <2>6, <3>1
    <3>. QED BY <1>0, <2>6, <3>2
  <2>7. CASE n >= q
    <3>1. n + 1 <= Len(t) => g[n + 1] = z
      <4>1. ASSUME n + 1 <= Len(t) PROVE n < Len(t) /\ n >= Len(s) /\ n + 1 # q /\ n <= Len(t)
        BY <1>0, <2>7, <4>1
      <4>. QED BY <1>5, <2>3, <2>7, <4>1
    <3>. QED BY <1>0, <2>7, <3>1
  <2>. QED BY <1>0, <2>4, <2>5, <2>6, <2>7
<1>9. Nat \subseteq E
  <2>. HIDE DEF E
  <2>. QED BY <1>7, <1>8, Induction
<1>10. g[Len(t)] = z
  BY <1>0, <1>9
<1>. QED BY <1>3, <1>10 DEF z

----------------------------------------------------------------------------
\* What is read of the calls p when each is found with what came of it.
Read  == Call \X SUBSET Call
Ex(p) == [k \in DOMAIN p |-> <<p[k], {p[k]}>>]

LEMMA ExFacts ==
  ASSUME NEW p \in Seq(Call)
  PROVE  /\ Ex(p) \in Seq(Read) /\ Len(Ex(p)) = Len(p) /\ DOMAIN Ex(p) = 1..Len(p)
         /\ \A k \in 1..Len(p) : Ex(p)[k] = <<p[k], {p[k]}>>
<1>1. \A k \in 1..Len(p) : <<p[k], {p[k]}>> \in Read
  BY DEF Read
<1>2. Ex(p) \in [1..Len(p) -> Read]
  BY <1>1 DEF Ex
<1>3. Len(p) \in Nat
  OBVIOUS
<1>4. Ex(p) \in Seq(Read) /\ Len(Ex(p)) = Len(p)
  BY <1>2, <1>3
<1>. QED BY <1>4 DEF Ex

\* When two sequences are the same.
LEMMA SameSequence ==
  ASSUME NEW S, NEW s \in Seq(S), NEW t \in Seq(S), Len(s) = Len(t),
         \A k \in 1..Len(s) : s[k] = t[k]
  PROVE  s = t
OBVIOUS

LEMMA ExBoth ==
  ASSUME NEW p \in Seq(Call), NEW c \in Seq(Call)
  PROVE  p \o c \in Seq(Call) /\ Ex(p \o c) = Ex(p) \o Ex(c)
<1> DEFINE s == p \o c
           e == Ex(p)
           f == Ex(c)
           g == Ex(s)
<1>1. /\ s \in Seq(Call) /\ Len(s) = Len(p) + Len(c) /\ Len(p) \in Nat /\ Len(c) \in Nat
      /\ \A k \in 1..Len(p) : s[k] = p[k]
      /\ \A k \in 1..Len(c) : s[Len(p) + k] = c[k]
  OBVIOUS
<1>. HIDE DEF s
<1>2. /\ e \in Seq(Read) /\ Len(e) = Len(p) /\ \A k \in 1..Len(p) : e[k] = <<p[k], {p[k]}>>
      /\ f \in Seq(Read) /\ Len(f) = Len(c) /\ \A k \in 1..Len(c) : f[k] = <<c[k], {c[k]}>>
      /\ g \in Seq(Read) /\ Len(g) = Len(s) /\ \A k \in 1..Len(s) : g[k] = <<s[k], {s[k]}>>
  BY <1>1, ExFacts
<1>. HIDE DEF e, f, g
<1> DEFINE h == e \o f
<1>3. /\ h \in Seq(Read) /\ Len(h) = Len(s)
      /\ \A k \in 1..Len(p) : h[k] = e[k]
      /\ \A k \in 1..Len(c) : h[Len(p) + k] = f[k]
  <2>1. /\ h \in Seq(Read) /\ Len(h) = Len(e) + Len(f)
        /\ \A k \in 1..Len(e) : h[k] = e[k]
        /\ \A k \in 1..Len(f) : h[Len(e) + k] = f[k]
    <3>1. e \in Seq(Read) /\ f \in Seq(Read)
      BY <1>2
    <3>. QED BY <3>1
  <2>. HIDE DEF h
  <2>. QED BY <1>1, <1>2, <2>1
<1>. HIDE DEF h
<1>4. ASSUME NEW k \in 1..Len(s) PROVE g[k] = h[k]
  <2>1. CASE k <= Len(p)
    <3>1. k \in 1..Len(p)
      BY <1>1, <2>1
    <3>2. h[k] = <<p[k], {p[k]}>>
      BY <1>2, <1>3, <3>1, Zenon
    <3>3. s[k] = p[k]
      BY <1>1, <3>1, Zenon
    <3>4. g[k] = <<s[k], {s[k]}>>
      BY <1>2, Zenon
    <3>. QED BY <3>2, <3>3, <3>4, Zenon
  <2>2. CASE k > Len(p)
    <3>1. k - Len(p) \in 1..Len(c) /\ k = Len(p) + (k - Len(p))
      BY <1>1, <2>2
    <3>2. s[k] = c[k - Len(p)] /\ h[k] = f[k - Len(p)]
      BY <1>1, <1>3, <3>1
    <3>. QED BY <1>2, <3>1, <3>2
  <2>. QED BY <1>1, <2>1, <2>2
<1>5. g = e \o f
  <2>1. g = h
    BY <1>2, <1>3, <1>4, SameSequence
  <2>. QED BY <2>1 DEF h
<1>. QED BY <1>1, <1>5 DEF s, e, f, g

\* A round added to a conversation: a turn with calls and the turn with their results.
Extends(n, m, a, b) ==
  /\ n \in Seq(Turn) /\ Len(n) = Len(m) + 2
  /\ \A i \in 1..Len(m) : n[i] = m[i]
  /\ n[Len(m) + 1] = a /\ n[Len(m) + 2] = b

LEMMA RoundExtends ==
  ASSUME NEW m \in Seq(Turn), NEW a \in Turn, NEW b \in Turn
  PROVE  Extends(Append(Append(m, a), b), m, a, b)
BY DEF Extends

----------------------------------------------------------------------------
\* Anthropic

LEMMA ByIdsType ==
  ASSUME NEW u \in Seq(Block), NEW v \in Seq(Block)
  PROVE  ByIds(u, v) \in Seq(Read)
<1>1. \A k \in 1..Len(u) : u[k] \in Block
  OBVIOUS
<1>2. \A k \in 1..Len(v) : v[k][2] \in Call
  BY DEF Block
<1>3. ASSUME NEW k \in 1..Len(u)
      PROVE  <<u[k][2], {v[j][2] : j \in {j \in DOMAIN v : v[j][1] = u[k][1]}}>> \in Read
  <2>1. u[k][2] \in Call
    BY <1>1 DEF Block
  <2>2. {v[j][2] : j \in {j \in DOMAIN v : v[j][1] = u[k][1]}} \in SUBSET Call
    BY <1>2
  <2>. QED BY <2>1, <2>2 DEF Read
<1>4. ByIds(u, v) \in [1..Len(u) -> Read]
  BY <1>3 DEF ByIds
<1>5. Len(u) \in Nat
  OBVIOUS
<1>. QED BY <1>4, <1>5

\* Blocks with different ids, answered by themselves, are read as the calls they stand for.
LEMMA ByIdsOwn ==
  ASSUME NEW u \in Seq(Block), \A j, k \in DOMAIN u : u[j][1] = u[k][1] => j = k
  PROVE  Calls(u) \in Seq(Call) /\ Len(Calls(u)) = Len(u) /\ ByIds(u, u) = Ex(Calls(u))
<1> DEFINE c == Calls(u)
<1>1. \A k \in 1..Len(u) : u[k][2] \in Call
  BY DEF Block
<1>2. c \in [1..Len(u) -> Call] /\ (\A k \in 1..Len(u) : c[k] = u[k][2]) /\ Len(u) \in Nat
  BY <1>1 DEF Calls
<1>3. c \in Seq(Call) /\ Len(c) = Len(u)
  BY <1>2
<1>4. ASSUME NEW k \in DOMAIN u
      PROVE  {u[j][2] : j \in {j \in DOMAIN u : u[j][1] = u[k][1]}} = {u[k][2]}
  <2>1. {j \in DOMAIN u : u[j][1] = u[k][1]} = {k}
    OBVIOUS
  <2>. QED BY <2>1
<1>5. DOMAIN c = DOMAIN u
  BY <1>2
<1>6. ByIds(u, u) = [k \in DOMAIN u |-> <<c[k], {c[k]}>>]
  BY <1>2, <1>4 DEF ByIds
<1>. QED BY <1>3, <1>5, <1>6 DEF Ex

Pairs(m) == [i \in 1..(Len(m) - 1) |-> ByIds(m[i].uses, m[i + 1].results)]

LEMMA PairsFacts ==
  ASSUME NEW m \in Seq(Turn), m # <<>>
  PROVE  /\ Pairs(m) \in Seq(Seq(Read)) /\ Len(Pairs(m)) = Len(m) - 1 /\ Len(m) \in Nat \ {0}
         /\ \A i \in 1..(Len(m) - 1) : Pairs(m)[i] = ByIds(m[i].uses, m[i + 1].results)
<1>0. \A i \in 1..Len(m) : m[i] \in Turn
  OBVIOUS
<1>1. \A i \in 1..Len(m) : m[i].uses \in Seq(Block) /\ m[i].results \in Seq(Block)
  BY <1>0 DEF Turn
<1>2. Len(m) \in Nat \ {0} /\ \A i \in 1..(Len(m) - 1) : i \in 1..Len(m) /\ i + 1 \in 1..Len(m)
  OBVIOUS
<1>3. \A i \in 1..(Len(m) - 1) : ByIds(m[i].uses, m[i + 1].results) \in Seq(Read)
  BY <1>1, <1>2, ByIdsType
<1> DEFINE l == Len(m) - 1
<1>4. l \in Nat /\ Pairs(m) = [i \in 1..l |-> ByIds(m[i].uses, m[i + 1].results)]
  BY <1>2 DEF Pairs
<1>. HIDE DEF l
<1>5. Pairs(m) \in [1..l -> Seq(Read)]
  BY <1>3, <1>4 DEF l
<1>6. Pairs(m) \in Seq(Seq(Read)) /\ Len(Pairs(m)) = l
  BY <1>4, <1>5
<1>. QED BY <1>2, <1>4, <1>6 DEF l

LEMMA FlattenReads ==
  ASSUME NEW s \in Seq(Seq(Read)), NEW t \in Seq(Seq(Read)), NEW x \in Seq(Read),
         NEW q \in Nat, Len(s) < q, q <= Len(t), t[q] = x,
         \A k \in 1..Len(s) : t[k] = s[k],
         \A k \in 1..Len(t) : (k > Len(s) /\ k # q) => t[k] = <<>>
  PROVE  FlattenSeq(t) = FlattenSeq(s) \o x
BY FlattenOne, Zenon

LEMMA AnthropicRound ==
  ASSUME NEW m \in Seq(Turn), m # <<>>, m[Len(m)].uses = <<>>,
         NEW a \in Turn, NEW b \in Turn, b.results = a.uses,
         \A j, k \in DOMAIN a.uses : a.uses[j][1] = a.uses[k][1] => j = k,
         NEW n, Extends(n, m, a, b)
  PROVE  AnthropicReads(n) = AnthropicReads(m) \o Ex(Calls(a.uses))
<1>1. n \in Seq(Turn) /\ n # <<>> /\ Len(n) = Len(m) + 2 /\ Len(m) \in Nat \ {0}
  BY DEF Extends
<1> DEFINE s == Pairs(m)
           t == Pairs(n)
           q == Len(m) + 1
           x == ByIds(a.uses, b.results)
<1>2. /\ s \in Seq(Seq(Read)) /\ Len(s) = Len(m) - 1
      /\ \A i \in 1..(Len(m) - 1) : s[i] = ByIds(m[i].uses, m[i + 1].results)
  BY PairsFacts
<1>3. /\ t \in Seq(Seq(Read)) /\ Len(t) = Len(n) - 1
      /\ \A i \in 1..(Len(n) - 1) : t[i] = ByIds(n[i].uses, n[i + 1].results)
  BY <1>1, PairsFacts
<1>4. a.uses \in Seq(Block) /\ b.results \in Seq(Block)
  BY DEF Turn
<1>5. x \in Seq(Read) /\ x = Ex(Calls(a.uses))
  BY <1>4, ByIdsType, ByIdsOwn
<1>. HIDE DEF s, t, x
<1>6. ASSUME NEW i \in 1..Len(s) PROVE t[i] = s[i]
  <2>1. i \in 1..(Len(m) - 1) /\ i \in 1..(Len(n) - 1) /\ i \in 1..Len(m) /\ i + 1 \in 1..Len(m)
    BY <1>1, <1>2
  <2>2. n[i] = m[i] /\ n[i + 1] = m[i + 1]
    BY <2>1 DEF Extends
  <2>. QED BY <1>2, <1>3, <2>1, <2>2
<1>7. t[q] = x
  <2>1. q \in 1..(Len(n) - 1) /\ q + 1 = Len(m) + 2
    BY <1>1
  <2>2. n[q] = a /\ n[q + 1] = b
    BY <2>1 DEF Extends
  <2>. QED BY <1>3, <2>1, <2>2 DEF x
<1>8. ASSUME NEW i \in 1..Len(t), i > Len(s), i # q PROVE t[i] = <<>>
  <2>1. i = Len(m) /\ i \in 1..(Len(n) - 1) /\ i \in 1..Len(m)
    BY <1>1, <1>2, <1>3, <1>8
  <2>2. n[i].uses = <<>>
    BY <2>1 DEF Extends
  <2>3. t[i] = ByIds(<<>>, n[i + 1].results)
    BY <1>3, <2>1, <2>2
  <2>. QED BY <2>3 DEF ByIds
<1>9. q \in Nat /\ Len(s) < q /\ q <= Len(t)
  BY <1>1, <1>2, <1>3
<1>10. FlattenSeq(t) = FlattenSeq(s) \o x
  <2>. HIDE DEF q
  <2>1. \A i \in 1..Len(s) : t[i] = s[i]
    BY <1>6
  <2>2. \A i \in 1..Len(t) : (i > Len(s) /\ i # q) => t[i] = <<>>
    BY <1>8
  <2>3. s \in Seq(Seq(Read)) /\ t \in Seq(Seq(Read))
    BY <1>2, <1>3
  <2>4. x \in Seq(Read) /\ q \in Nat /\ Len(s) < q /\ q <= Len(t) /\ t[q] = x
    BY <1>5, <1>7, <1>9, Zenon
  <2>. QED BY <2>1, <2>2, <2>3, <2>4, FlattenReads
<1>11. AnthropicReads(n) = FlattenSeq(t) /\ AnthropicReads(m) = FlattenSeq(s)
  BY DEF AnthropicReads, Pairs, s, t
<1>. QED BY <1>5, <1>10, <1>11

----------------------------------------------------------------------------
\* Ollama

\* The message of the content that came of the call x.
ToolOf(x) == [role |-> "tool", text |-> {"content"}, calls |-> <<>>, of |-> <<x>>]

\* There is a message behind each assistant's message for each of its calls.
Closed(w) == \A i \in DOMAIN w : \A k \in DOMAIN w[i].calls : i + k \in DOMAIN w

\* v is w, with the calls c in the message z and the messages of what came of them.
Follow(v, w, z, c) ==
  /\ v \in Seq(OllamaMessage) /\ Len(v) = Len(w) + 1 + Len(c)
  /\ \A i \in 1..Len(w) : v[i] = w[i]
  /\ v[Len(w) + 1] = z /\ z.calls = c
  /\ \A k \in 1..Len(c) : v[Len(w) + 1 + k] = ToolOf(c[k])

LEMMA OllamaTypes ==
  ASSUME NEW w \in Seq(OllamaMessage), NEW i \in 1..Len(w)
  PROVE  /\ w[i] \in OllamaMessage /\ w[i].calls \in Seq(Call) /\ w[i].of \in Seq(Call)
         /\ DOMAIN w[i].calls = 1..Len(w[i].calls)
<1>1. w[i] \in OllamaMessage
  OBVIOUS
<1>2. w[i].calls \in Seq(Call) /\ w[i].of \in Seq(Call)
  BY <1>1 DEF OllamaMessage
<1>. QED BY <1>1, <1>2

LEMMA ByPlaceType ==
  ASSUME NEW w \in Seq(OllamaMessage), NEW i \in 1..Len(w)
  PROVE  ByPlace(w, i) \in Seq(Read)
<1> DEFINE c == w[i].calls
           r(k) == IF i + k \in DOMAIN w /\ w[i + k].role = "tool"
                   THEN {w[i + k].of[j] : j \in DOMAIN w[i + k].of} ELSE {}
<1>1. c \in Seq(Call) /\ DOMAIN c = 1..Len(c) /\ Len(c) \in Nat
  BY OllamaTypes
<1>2. ASSUME NEW k \in 1..Len(c) PROVE <<c[k], r(k)>> \in Read
  <2>1. c[k] \in Call
    BY <1>1
  <2>2. r(k) \in SUBSET Call
    <3>1. CASE i + k \in DOMAIN w
      <4>1. i + k \in 1..Len(w)
        BY <3>1
      <4>2. w[i + k].of \in Seq(Call)
        BY <4>1, OllamaTypes
      <4>3. \A j \in DOMAIN w[i + k].of : w[i + k].of[j] \in Call
        BY <4>2
      <4>. QED BY <4>3
    <3>2. CASE i + k \notin DOMAIN w
      BY <3>2
    <3>. QED BY <3>1, <3>2
  <2>. HIDE DEF c, r
  <2>. QED BY <2>1, <2>2 DEF Read
<1>3. ByPlace(w, i) = [k \in 1..Len(c) |-> <<c[k], r(k)>>]
  BY <1>1 DEF ByPlace
<1>. HIDE DEF c, r
<1>4. ByPlace(w, i) \in [1..Len(c) -> Read]
  BY <1>2, <1>3
<1>. QED BY <1>1, <1>4

Places(w) == [i \in DOMAIN w |-> ByPlace(w, i)]

LEMMA PlacesFacts ==
  ASSUME NEW w \in Seq(OllamaMessage)
  PROVE  /\ Places(w) \in Seq(Seq(Read)) /\ Len(Places(w)) = Len(w) /\ Len(w) \in Nat
         /\ \A i \in 1..Len(w) : Places(w)[i] = ByPlace(w, i)
         /\ OllamaReads(w) = FlattenSeq(Places(w))
<1>1. \A i \in 1..Len(w) : ByPlace(w, i) \in Seq(Read)
  BY ByPlaceType
<1>2. DOMAIN w = 1..Len(w) /\ Len(w) \in Nat
  OBVIOUS
<1>3. Places(w) \in [1..Len(w) -> Seq(Read)]
  BY <1>1, <1>2 DEF Places
<1>4. Places(w) \in Seq(Seq(Read)) /\ Len(Places(w)) = Len(w)
  BY <1>2, <1>3
<1>. QED BY <1>2, <1>4 DEF Places, OllamaReads

LEMMA OllamaRound ==
  ASSUME NEW w \in Seq(OllamaMessage), Closed(w), NEW c \in Seq(Call), NEW z, NEW v,
         Follow(v, w, z, c)
  PROVE  Closed(v) /\ OllamaReads(v) = OllamaReads(w) \o Ex(c)
<1> DEFINE q == Len(w) + 1
           s == Places(w)
           t == Places(v)
           x == ByPlace(v, q)
<1>1. /\ v \in Seq(OllamaMessage) /\ Len(v) = Len(w) + 1 + Len(c) /\ Len(w) \in Nat
      /\ Len(c) \in Nat /\ DOMAIN v = 1..Len(v) /\ DOMAIN w = 1..Len(w) /\ DOMAIN c = 1..Len(c)
      /\ q \in 1..Len(v) /\ v[q].calls = c
  BY DEF Follow
<1>2. ASSUME NEW i \in 1..Len(w)
      PROVE  ByPlace(v, i) = ByPlace(w, i) /\ \A k \in DOMAIN v[i].calls : i + k \in DOMAIN v
  <2>1. v[i] = w[i]
    BY DEF Follow
  <2>2. ASSUME NEW k \in DOMAIN w[i].calls
        PROVE  i + k \in 1..Len(w) /\ i + k \in DOMAIN w /\ i + k \in DOMAIN v
    <3>1. i + k \in DOMAIN w
      BY <1>1 DEF Closed
    <3>2. i + k \in 1..Len(w)
      BY <1>1, <3>1
    <3>3. \A j \in 1..Len(w) : j \in 1..Len(v)
      BY <1>1
    <3>. QED BY <1>1, <3>2, <3>3
  <2>3. \A k \in DOMAIN w[i].calls : v[i + k] = w[i + k]
    BY <2>2 DEF Follow
  <2>. QED BY <2>1, <2>2, <2>3 DEF ByPlace
<1>3. ASSUME NEW i \in 1..Len(v), i > q PROVE v[i].calls = <<>>
  <2>1. i - q \in 1..Len(c) /\ i = Len(w) + 1 + (i - q)
    BY <1>1, <1>3
  <2>2. v[i] = ToolOf(c[i - q])
    BY <2>1 DEF Follow
  <2>. QED BY <2>2 DEF ToolOf
<1>4. Closed(v)
  <2>1. ASSUME NEW i \in 1..Len(v), NEW k \in DOMAIN v[i].calls PROVE i + k \in DOMAIN v
    <3>1. CASE i \in 1..Len(w)
      BY <1>2, <3>1
    <3>2. CASE i = q
      <4>1. k \in 1..Len(c)
        BY <1>1, <3>2
      <4>. QED BY <1>1, <3>2, <4>1
    <3>3. CASE i > q
      BY <1>3, <3>3
    <3>4. i \in 1..Len(w) \/ i = q \/ i > q
      <4>1. Len(w) \in Nat
        OBVIOUS
      <4>. QED BY <4>1
    <3>. QED BY <3>1, <3>2, <3>3, <3>4
  <2>. QED BY <1>1, <2>1 DEF Closed
<1>5. x = Ex(c)
  <2>1. ASSUME NEW k \in 1..Len(c)
        PROVE  /\ q + k \in DOMAIN v /\ v[q + k].role = "tool"
               /\ {v[q + k].of[j] : j \in DOMAIN v[q + k].of} = {c[k]}
    <3>1. q + k \in DOMAIN v /\ q + k = Len(w) + 1 + k
      BY <1>1
    <3>2. v[q + k] = ToolOf(c[k])
      BY <3>1 DEF Follow
    <3>3. v[q + k].role = "tool" /\ v[q + k].of = <<c[k]>>
      BY <3>2 DEF ToolOf
    <3>. QED BY <3>1, <3>3
  <2>. HIDE DEF q
  <2>. QED BY <1>1, <2>1 DEF x, ByPlace, Ex
<1>6. x \in Seq(Read)
  BY <1>5, ExFacts
<1>7. /\ s \in Seq(Seq(Read)) /\ Len(s) = Len(w) /\ OllamaReads(w) = FlattenSeq(s)
      /\ \A i \in 1..Len(w) : s[i] = ByPlace(w, i)
  BY PlacesFacts
<1>8. /\ t \in Seq(Seq(Read)) /\ Len(t) = Len(v) /\ OllamaReads(v) = FlattenSeq(t)
      /\ \A i \in 1..Len(v) : t[i] = ByPlace(v, i)
  BY <1>1, PlacesFacts
<1>. HIDE DEF s, t
<1>9. q \in Nat /\ Len(s) < q /\ q <= Len(t) /\ t[q] = x
  BY <1>1, <1>7, <1>8
<1>10. \A k \in 1..Len(s) : t[k] = s[k]
  BY <1>1, <1>2, <1>7, <1>8
<1>11. \A k \in 1..Len(t) : (k > Len(s) /\ k # q) => t[k] = <<>>
  <2>1. ASSUME NEW k \in 1..Len(v), k > q PROVE ByPlace(v, k) = <<>>
    BY <1>3, <2>1 DEF ByPlace
  <2>2. ASSUME NEW k \in 1..Len(t), k > Len(s), k # q PROVE t[k] = <<>>
    <3>1. k \in 1..Len(v) /\ k > q
      BY <1>1, <1>7, <1>8, <2>2
    <3>. QED BY <1>8, <2>1, <3>1
  <2>. QED BY <2>2
<1>. HIDE DEF q, x
<1>12. FlattenSeq(t) = FlattenSeq(s) \o x
  BY <1>6, <1>7, <1>8, <1>9, <1>10, <1>11, FlattenReads, Zenon
<1>. QED BY <1>4, <1>5, <1>7, <1>8, <1>12

Tools(w) == {i \in DOMAIN w : w[i].role = "tool"}

LEMMA OllamaCounts ==
  ASSUME NEW w \in Seq(OllamaMessage), NEW c \in Seq(Call), NEW z, NEW v,
         Follow(v, w, z, c), z.role # "tool"
  PROVE  /\ Cardinality(Tools(v)) = Cardinality(Tools(w)) + Len(c)
         /\ Cardinality(Texted(v, "said")) =
              Cardinality(Texted(w, "said")) + (IF "said" \in z.text THEN 1 ELSE 0)
<1> DEFINE q == Len(w) + 1
<1>1. /\ v \in Seq(OllamaMessage) /\ Len(v) = q + Len(c) /\ Len(w) \in Nat
      /\ Len(c) \in Nat /\ DOMAIN v = 1..Len(v) /\ DOMAIN w = 1..Len(w)
      /\ q \in 1..Len(v) /\ v[q] = z
      /\ \A i \in 1..Len(w) : v[i] = w[i]
      /\ \A k \in 1..Len(c) : v[q + k] = ToolOf(c[k])
  BY DEF Follow
<1>2. ASSUME NEW i \in (q + 1)..(q + Len(c))
      PROVE  v[i].role = "tool" /\ "said" \notin v[i].text
  <2>1. i - q \in 1..Len(c) /\ i = q + (i - q)
    BY <1>1
  <2>2. v[i] = ToolOf(c[i - q])
    BY <1>1, <2>1
  <2>. QED BY <2>2 DEF ToolOf
<1>3. IsFiniteSet(1..Len(w)) /\ IsFiniteSet((q + 1)..(q + Len(c)))
      /\ Cardinality((q + 1)..(q + Len(c))) = Len(c)
  <2>1. q + 1 \in Int /\ q + Len(c) \in Int /\ 1 \in Int /\ Len(w) \in Int
    BY <1>1
  <2>2. /\ Cardinality((q + 1)..(q + Len(c))) =
             (IF q + 1 > q + Len(c) THEN 0 ELSE (q + Len(c)) - (q + 1) + 1)
        /\ IsFiniteSet((q + 1)..(q + Len(c))) /\ IsFiniteSet(1..Len(w))
    BY <2>1, FS_Interval
  <2>. QED BY <1>1, <2>2
<1>4. IsFiniteSet(Tools(w)) /\ IsFiniteSet(Texted(w, "said"))
  <2>1. Tools(w) \subseteq 1..Len(w) /\ Texted(w, "said") \subseteq 1..Len(w)
    BY <1>1 DEF Tools, Texted
  <2>. QED BY <1>3, <2>1, FS_Subset
<1>5. ASSUME NEW i \in 1..Len(v)
      PROVE  i \in 1..Len(w) \/ i = q \/ i \in (q + 1)..(q + Len(c))
  BY <1>1
<1>6. \A i \in 1..Len(w) : i \in 1..Len(v) /\ i \notin (q + 1)..(q + Len(c)) /\ i # q
  BY <1>1
<1>7. \A i \in (q + 1)..(q + Len(c)) : i \in 1..Len(v) /\ i # q
  BY <1>1
<1> DEFINE new == (q + 1)..(q + Len(c))
<1>. HIDE DEF q, new
<1>8. Tools(v) = Tools(w) \cup new /\ Tools(w) \cap new = {}
  BY <1>1, <1>2, <1>5, <1>6, <1>7 DEF Tools, new
<1>9. Cardinality(Tools(v)) = Cardinality(Tools(w)) + Len(c)
  <2>1. Cardinality(Tools(w) \cup new)
          = Cardinality(Tools(w)) + Cardinality(new) - Cardinality(Tools(w) \cap new)
    BY <1>3, <1>4, FS_Union DEF new
  <2>2. Cardinality(Tools(w) \cap new) = 0
    BY <1>8, FS_EmptySet
  <2>3. Cardinality(Tools(w)) \in Nat /\ Cardinality(new) = Len(c)
    BY <1>3, <1>4, FS_CardinalityType DEF new
  <2>. QED BY <1>1, <1>8, <2>1, <2>2, <2>3
<1>10. Texted(v, "said") = Texted(w, "said") \cup (IF "said" \in z.text THEN {q} ELSE {})
       /\ q \notin Texted(w, "said")
  BY <1>1, <1>2, <1>5, <1>6 DEF Texted
<1>11. Cardinality(Texted(v, "said")) =
         Cardinality(Texted(w, "said")) + (IF "said" \in z.text THEN 1 ELSE 0)
  <2>1. Cardinality(Texted(w, "said")) \in Nat
    BY <1>4, FS_CardinalityType
  <2>2. Cardinality(Texted(w, "said") \cup {q}) = Cardinality(Texted(w, "said")) + 1
    BY <1>4, <1>10, FS_AddElement
  <2>3. CASE "said" \in z.text
    BY <1>10, <2>2, <2>3
  <2>4. CASE "said" \notin z.text
    <3>1. Texted(v, "said") = Texted(w, "said")
      BY <1>10, <2>4
    <3>. QED BY <2>1, <2>4, <3>1
  <2>. QED BY <2>3, <2>4
<1>. QED BY <1>9, <1>11

----------------------------------------------------------------------------
\* The turns as Ollama's messages, one after the other

Translated(m) == [i \in DOMAIN m |-> TranslateMessage(m[i])]

Prompt(prompt) == IF prompt THEN <<SystemMessage>> ELSE <<>>

Wire(prompt, m) == Prompt(prompt) \o FlattenSeq(Translated(m))

LEMMA JoinAssoc ==
  ASSUME NEW S, NEW p \in Seq(S), NEW f \in Seq(S), NEW g \in Seq(S)
  PROVE  (p \o f) \o g = p \o (f \o g)
<1> DEFINE l == (p \o f) \o g
           r == p \o (f \o g)
<1>1. /\ l \in Seq(S) /\ r \in Seq(S) /\ Len(l) = Len(r) /\ Len(l) = Len(p) + Len(f) + Len(g)
      /\ Len(p) \in Nat /\ Len(f) \in Nat /\ Len(g) \in Nat
  OBVIOUS
<1>2. ASSUME NEW k \in 1..Len(l) PROVE l[k] = r[k]
  <2>1. CASE k <= Len(p)
    BY <2>1
  <2>2. CASE Len(p) < k /\ k <= Len(p) + Len(f)
    BY <1>1, <2>2
  <2>3. CASE Len(p) + Len(f) < k
    BY <1>1, <2>3
  <2>. QED BY <1>1, <2>1, <2>2, <2>3
<1>. HIDE DEF l, r
<1>3. l = r
  BY <1>1, <1>2, SameSequence
<1>. QED BY <1>3 DEF l, r

LEMMA FlattenAppend ==
  ASSUME NEW S, NEW s \in Seq(Seq(S)), NEW x \in Seq(S)
  PROVE  /\ FlattenSeq(s) \in Seq(S) /\ FlattenSeq(Append(s, x)) = FlattenSeq(s) \o x
<1>1. FlattenSeq(s) \in Seq(S)
  <2>1. PICK g : Flattens(g, S, s)
    BY FlattenUnfolds
  <2>2. g \in [Nat -> Seq(S)] /\ FlattenSeq(s) = g[Len(s)]
    BY <2>1 DEF Flattens
  <2>3. Len(s) \in Nat
    OBVIOUS
  <2>. QED BY <2>2, <2>3
<1> DEFINE t == Append(s, x)
           q == Len(s) + 1
<1>2. /\ t \in Seq(Seq(S)) /\ Len(t) = Len(s) + 1 /\ Len(s) \in Nat
      /\ \A k \in 1..Len(s) : t[k] = s[k]
      /\ t[q] = x
  OBVIOUS
<1>. HIDE DEF t
<1>3. q \in Nat /\ Len(s) < q /\ q <= Len(t)
  BY <1>2
<1>4. \A k \in 1..Len(t) : (k > Len(s) /\ k # q) => t[k] = <<>>
  BY <1>2
<1>. HIDE DEF q
<1>5. FlattenSeq(t) = FlattenSeq(s) \o x
  BY <1>2, <1>3, <1>4, FlattenOne, Zenon
<1>. QED BY <1>1, <1>5 DEF t

CallsTurn(turn) == [role |-> "assistant", text |-> TextParts(turn),
                    calls |-> Calls(turn.uses), of |-> <<>>]

LEMMA CallsType ==
  ASSUME NEW u \in Seq(Block)
  PROVE  /\ Calls(u) \in Seq(Call) /\ Len(Calls(u)) = Len(u)
         /\ \A k \in 1..Len(u) : Calls(u)[k] = u[k][2] /\ u[k][2] \in Call
<1>1. \A k \in 1..Len(u) : u[k][2] \in Call
  BY DEF Block
<1>2. Calls(u) \in [1..Len(u) -> Call] /\ (\A k \in 1..Len(u) : Calls(u)[k] = u[k][2])
      /\ Len(u) \in Nat
  BY <1>1 DEF Calls
<1>. QED BY <1>1, <1>2

LEMMA MessageTypes ==
  /\ <<>> \in Seq(Call)
  /\ \A turn \in Turn : TextParts(turn) \in SUBSET Texts /\ CallsTurn(turn) \in OllamaMessage
  /\ \A x \in Call : ToolOf(x) \in OllamaMessage
  /\ SystemMessage \in OllamaMessage
  /\ \A turn \in Turn :
       [role |-> turn.role, text |-> TextParts(turn), calls |-> <<>>, of |-> <<>>]
         \in OllamaMessage
<1>1. <<>> \in Seq(Call)
  OBVIOUS
<1>2. \A turn \in Turn : TextParts(turn) \in SUBSET Texts
  BY DEF TextParts, Texts
<1>3. \A turn \in Turn : turn.uses \in Seq(Block) /\ turn.role \in {"user", "assistant"}
  BY DEF Turn
<1>4. \A turn \in Turn : Calls(turn.uses) \in Seq(Call)
  BY <1>3, CallsType
<1>5. \A turn \in Turn : CallsTurn(turn) \in OllamaMessage
  BY <1>1, <1>2, <1>4 DEF CallsTurn, OllamaMessage
<1>6. ASSUME NEW x \in Call PROVE ToolOf(x) \in OllamaMessage
  <2>1. <<x>> \in Seq(Call)
    OBVIOUS
  <2>. QED BY <1>1, <2>1 DEF ToolOf, OllamaMessage, Texts
<1>7. SystemMessage \in OllamaMessage
  BY <1>1 DEF SystemMessage, OllamaMessage, Texts
<1>8. \A turn \in Turn :
        [role |-> turn.role, text |-> TextParts(turn), calls |-> <<>>, of |-> <<>>]
          \in OllamaMessage
  BY <1>1, <1>2, <1>3 DEF OllamaMessage
<1>. QED BY <1>1, <1>2, <1>5, <1>6, <1>7, <1>8

\* A turn with calls, a turn with results and one with neither.
LEMMA Translations ==
  ASSUME NEW turn \in Turn
  PROVE  /\ turn.uses # <<>> /\ turn.results = <<>> =>
              TranslateMessage(turn) = <<CallsTurn(turn)>>
         /\ turn.uses = <<>> /\ turn.results # <<>> =>
              /\ TranslateMessage(turn) \in Seq(OllamaMessage)
              /\ Len(TranslateMessage(turn)) = Len(turn.results)
              /\ \A k \in 1..Len(turn.results) :
                   TranslateMessage(turn)[k] = ToolOf(turn.results[k][2])
         /\ turn.uses = <<>> /\ turn.results = <<>> =>
              TranslateMessage(turn) =
                <<[role |-> turn.role, text |-> TextParts(turn), calls |-> <<>>, of |-> <<>>]>>
<1>1. turn.uses \in Seq(Block) /\ turn.results \in Seq(Block)
  BY DEF Turn
<1>2. CASE turn.uses # <<>> /\ turn.results = <<>>
  BY <1>2 DEF TranslateMessage, CallsTurn
<1>3. CASE turn.uses = <<>> /\ turn.results # <<>>
  <2> DEFINE r == turn.results
             f == [k \in DOMAIN r |-> ToolMessage(r[k])]
  <2>1. TranslateMessage(turn) = f
    BY <1>3 DEF TranslateMessage
  <2>2. \A k \in 1..Len(r) : r[k][2] \in Call /\ ToolMessage(r[k]) = ToolOf(r[k][2])
    BY <1>1, CallsType DEF ToolMessage, ToolOf
  <2>3. DOMAIN r = 1..Len(r) /\ Len(r) \in Nat
    BY <1>1
  <2>. HIDE DEF r
  <2>4. f \in [1..Len(r) -> OllamaMessage]
    BY <2>2, <2>3, MessageTypes
  <2>5. f \in Seq(OllamaMessage) /\ Len(f) = Len(r)
    BY <2>3, <2>4
  <2>6. \A k \in 1..Len(r) : f[k] = ToolOf(r[k][2])
    BY <2>2, <2>3
  <2>. QED BY <1>3, <2>1, <2>5, <2>6 DEF r
<1>4. CASE turn.uses = <<>> /\ turn.results = <<>>
  <2>1. Calls(<<>>) = <<>>
    BY DEF Calls
  <2>. QED BY <1>4, <2>1 DEF TranslateMessage
<1>. QED BY <1>2, <1>3, <1>4

SaidTurns(m) == {i \in DOMAIN m : m[i].text}

OllamaOK(w, m, p) ==
  /\ w \in Seq(OllamaMessage) /\ Closed(w)
  /\ OllamaReads(w) = Ex(p)
  /\ Cardinality(Tools(w)) = Len(p)
  /\ Cardinality(Texted(w, "said")) = Cardinality(SaidTurns(m))

\* From the conversation m the servers read the calls p.
Meant(m, p) ==
  /\ p \in Seq(Call) /\ m \in Seq(Turn) /\ m # <<>> /\ m[Len(m)].uses = <<>>
  /\ AnthropicReads(m) = Ex(p)
  /\ Translated(m) \in Seq(Seq(OllamaMessage))
  /\ \A prompt \in BOOLEAN : OllamaOK(Wire(prompt, m), m, p)

LEMMA SaidRound ==
  ASSUME NEW m \in Seq(Turn), NEW a \in Turn, NEW b \in Turn, ~b.text,
         NEW n, Extends(n, m, a, b)
  PROVE  Cardinality(SaidTurns(n)) = Cardinality(SaidTurns(m)) + (IF a.text THEN 1 ELSE 0)
<1>1. /\ Len(m) \in Nat /\ DOMAIN m = 1..Len(m) /\ DOMAIN n = 1..(Len(m) + 2)
      /\ \A i \in 1..Len(m) : n[i] = m[i]
      /\ n[Len(m) + 1] = a /\ n[Len(m) + 2] = b
  BY DEF Extends
<1>2. IsFiniteSet(SaidTurns(m)) /\ Cardinality(SaidTurns(m)) \in Nat
  <2>1. IsFiniteSet(1..Len(m))
    BY <1>1, FS_Interval
  <2>2. SaidTurns(m) \subseteq 1..Len(m)
    BY <1>1 DEF SaidTurns
  <2>. QED BY <2>1, <2>2, FS_Subset, FS_CardinalityType
<1> DEFINE q == Len(m) + 1
<1>3. q \notin SaidTurns(m)
  BY <1>1 DEF SaidTurns
<1>4. DOMAIN n = (1..Len(m)) \cup {q, Len(m) + 2} /\ \A i \in 1..Len(m) : i # q
  BY <1>1
<1>5. \A i \in DOMAIN n : i \in SaidTurns(n) <=> i \in SaidTurns(m) \/ (i = q /\ a.text)
  BY <1>1, <1>4 DEF SaidTurns
<1>6. SaidTurns(n) \subseteq DOMAIN n /\ SaidTurns(m) \subseteq DOMAIN n /\ q \in DOMAIN n
  BY <1>1, <1>4 DEF SaidTurns
<1>. HIDE DEF q
<1>7. CASE a.text
  <2>1. SaidTurns(n) = SaidTurns(m) \cup {q}
    BY <1>5, <1>6, <1>7
  <2>. QED BY <1>2, <1>3, <1>7, <2>1, FS_AddElement
<1>8. CASE ~a.text
  <2>1. SaidTurns(n) = SaidTurns(m)
    BY <1>5, <1>6, <1>8
  <2>. QED BY <1>2, <1>8, <2>1
<1>. QED BY <1>7, <1>8

\* The turns of a round, translated.
LEMMA WireRound ==
  ASSUME NEW m \in Seq(Turn), Translated(m) \in Seq(Seq(OllamaMessage)),
         NEW a \in Turn, a.uses # <<>>, a.results = <<>>,
         NEW b \in Turn, b.uses = <<>>, b.results = a.uses,
         NEW n, Extends(n, m, a, b), NEW prompt \in BOOLEAN
  PROVE  /\ Translated(n) \in Seq(Seq(OllamaMessage)) /\ Wire(prompt, m) \in Seq(OllamaMessage)
         /\ Follow(Wire(prompt, n), Wire(prompt, m), CallsTurn(a), Calls(a.uses))
<1> DEFINE z  == CallsTurn(a)
           ts == TranslateMessage(b)
           c  == Calls(a.uses)
           k0 == Translated(m)
           P  == Prompt(prompt)
           F  == FlattenSeq(k0)
           w  == P \o F
           v  == Wire(prompt, n)
<1>1. a.uses \in Seq(Block) /\ b.results # <<>>
  BY DEF Turn
<1>2. TranslateMessage(a) = <<z>> /\ z \in OllamaMessage /\ z.calls = c
  <2>1. TranslateMessage(a) = <<z>>
    BY Translations
  <2>2. z \in OllamaMessage
    BY MessageTypes
  <2>. QED BY <2>1, <2>2 DEF CallsTurn
<1>3. /\ c \in Seq(Call) /\ Len(c) = Len(a.uses)
      /\ \A k \in 1..Len(c) : c[k] = a.uses[k][2]
  BY <1>1, CallsType
<1>4. /\ ts \in Seq(OllamaMessage) /\ Len(ts) = Len(c)
      /\ \A k \in 1..Len(c) : ts[k] = ToolOf(c[k])
  <2>1. /\ ts \in Seq(OllamaMessage) /\ Len(ts) = Len(b.results)
        /\ \A k \in 1..Len(b.results) : ts[k] = ToolOf(b.results[k][2])
    BY <1>1, Translations
  <2>. HIDE DEF ts, c
  <2>. QED BY <1>3, <2>1
<1>5. P \in Seq(OllamaMessage)
  <2>1. SystemMessage \in OllamaMessage
    BY MessageTypes
  <2>. QED BY <2>1 DEF Prompt
<1>6. /\ n \in Seq(Turn) /\ Len(n) = Len(m) + 2 /\ Len(m) \in Nat
      /\ \A i \in 1..Len(m) : n[i] = m[i]
      /\ n[Len(m) + 1] = a /\ n[Len(m) + 2] = b
  BY DEF Extends
<1> DEFINE t == Append(Append(k0, <<z>>), ts)
<1>7. k0 \in Seq(Seq(OllamaMessage)) /\ Len(k0) = Len(m)
      /\ \A i \in 1..Len(m) : k0[i] = TranslateMessage(m[i])
  BY <1>6 DEF Translated
<1>8. <<z>> \in Seq(OllamaMessage)
  BY <1>2
<1>. HIDE DEF z, ts, c, k0, P
<1>9. /\ t \in Seq(Seq(OllamaMessage)) /\ Len(t) = Len(m) + 2
      /\ \A i \in 1..Len(m) : t[i] = k0[i]
      /\ t[Len(m) + 1] = <<z>> /\ t[Len(m) + 2] = ts
  BY <1>4, <1>6, <1>7, <1>8
<1>10. Translated(n) = t
  <2>. HIDE DEF t
  <2>1. t = [i \in 1..(Len(m) + 2) |-> t[i]]
    BY <1>9
  <2>2. DOMAIN n = 1..(Len(m) + 2)
    BY <1>6
  <2>3. \A i \in 1..(Len(m) + 2) : i \in 1..Len(m) \/ i = Len(m) + 1 \/ i = Len(m) + 2
    BY <1>6
  <2>4. TranslateMessage(b) = ts
    BY DEF ts
  <2>5. \A i \in 1..(Len(m) + 2) : TranslateMessage(n[i]) = t[i]
    BY <1>2, <1>6, <1>7, <1>9, <2>3, <2>4
  <2>. QED BY <2>1, <2>2, <2>5 DEF Translated
<1>11. F \in Seq(OllamaMessage) /\ FlattenSeq(t) = (F \o <<z>>) \o ts
  <2>1. F \in Seq(OllamaMessage) /\ FlattenSeq(Append(k0, <<z>>)) = F \o <<z>>
    BY <1>7, <1>8, FlattenAppend
  <2>2. Append(k0, <<z>>) \in Seq(Seq(OllamaMessage))
    BY <1>7, <1>8
  <2>3. FlattenSeq(t) = FlattenSeq(Append(k0, <<z>>)) \o ts
    BY <1>4, <2>2, FlattenAppend
  <2>. QED BY <2>1, <2>3
<1>. HIDE DEF F, t
<1> DEFINE u == <<z>> \o ts
<1>12. w \in Seq(OllamaMessage) /\ u \in Seq(OllamaMessage)
  BY <1>4, <1>5, <1>8, <1>11
<1>13. v = w \o u
  <2>1. (F \o <<z>>) \o ts = F \o u
    BY <1>4, <1>8, <1>11, JoinAssoc
  <2>2. P \o (F \o u) = w \o u
    <3>. HIDE DEF u
    <3>1. (P \o F) \o u = P \o (F \o u)
      <4>1. u \in Seq(OllamaMessage)
        BY <1>12
      <4>2. P \in Seq(OllamaMessage) /\ F \in Seq(OllamaMessage)
        BY <1>5, <1>11
      <4>. QED BY <4>1, <4>2, JoinAssoc
    <3>. QED BY <3>1, Zenon
  <2>3. v = P \o FlattenSeq(t)
    BY <1>10 DEF Wire, P
  <2>. QED BY <1>11, <2>1, <2>2, <2>3
<1>14. w = Wire(prompt, m)
  BY DEF Wire, P, F, k0
<1>15. /\ u[1] = z /\ Len(u) = Len(c) + 1 /\ Len(c) \in Nat
       /\ \A k \in 1..Len(c) : u[1 + k] = ToolOf(c[k])
  BY <1>3, <1>4, <1>8
<1>. HIDE DEF w, u, v
<1>16. /\ v \in Seq(OllamaMessage) /\ Len(v) = Len(w) + Len(u) /\ Len(w) \in Nat
       /\ \A k \in 1..Len(w) : v[k] = w[k]
       /\ \A k \in 1..Len(u) : v[Len(w) + k] = u[k]
  BY <1>12, <1>13
<1>17. Follow(v, w, z, c)
  <2>1. v[Len(w) + 1] = z /\ Len(v) = Len(w) + 1 + Len(c)
    BY <1>15, <1>16
  <2>2. ASSUME NEW k \in 1..Len(c) PROVE v[Len(w) + 1 + k] = ToolOf(c[k])
    <3>1. 1 + k \in 1..Len(u) /\ Len(w) + 1 + k = Len(w) + (1 + k)
      BY <1>15, <1>16
    <3>. QED BY <1>15, <1>16, <3>1
  <2>. QED BY <1>2, <1>16, <2>1, <2>2 DEF Follow
<1>. QED BY <1>9, <1>10, <1>12, <1>14, <1>17 DEF v, z, c

LEMMA MeantRound ==
  ASSUME NEW m, NEW p, Meant(m, p),
         NEW a \in Turn, a.uses # <<>>, a.results = <<>>,
         \A j, k \in DOMAIN a.uses : a.uses[j][1] = a.uses[k][1] => j = k,
         NEW b \in Turn, b.uses = <<>>, b.results = a.uses, ~b.text
  PROVE  Meant(Append(Append(m, a), b), p \o Calls(a.uses))
<1> DEFINE n == Append(Append(m, a), b)
           c == Calls(a.uses)
<1>1. /\ p \in Seq(Call) /\ m \in Seq(Turn) /\ m # <<>> /\ m[Len(m)].uses = <<>>
      /\ AnthropicReads(m) = Ex(p) /\ Translated(m) \in Seq(Seq(OllamaMessage))
  BY DEF Meant
<1>2. Extends(n, m, a, b)
  BY <1>1, RoundExtends
<1>3. a.uses \in Seq(Block)
  BY DEF Turn
<1>4. c \in Seq(Call)
  BY <1>3, CallsType
<1>5. p \o c \in Seq(Call) /\ Ex(p \o c) = Ex(p) \o Ex(c) /\ Len(p \o c) = Len(p) + Len(c)
  <2>. HIDE DEF c
  <2>1. p \o c \in Seq(Call) /\ Ex(p \o c) = Ex(p) \o Ex(c)
    BY <1>1, <1>4, ExBoth
  <2>2. Len(p \o c) = Len(p) + Len(c)
    BY <1>1, <1>4
  <2>. QED BY <2>1, <2>2
<1>. HIDE DEF n
<1>6. AnthropicReads(n) = Ex(p \o c)
  BY <1>1, <1>2, <1>5, AnthropicRound
<1>7. n # <<>> /\ n[Len(n)].uses = <<>> /\ n \in Seq(Turn)
  BY <1>1, <1>2 DEF Extends
<1>8. ASSUME NEW prompt \in BOOLEAN
      PROVE  OllamaOK(Wire(prompt, n), n, p \o c) /\ Translated(n) \in Seq(Seq(OllamaMessage))
  <2> DEFINE w == Wire(prompt, m)
             v == Wire(prompt, n)
             z == CallsTurn(a)
  <2>1. /\ w \in Seq(OllamaMessage) /\ Follow(v, w, z, c)
        /\ Translated(n) \in Seq(Seq(OllamaMessage))
    BY <1>1, <1>2, WireRound
  <2>2. /\ Closed(w) /\ OllamaReads(w) = Ex(p)
        /\ Cardinality(Tools(w)) = Len(p)
        /\ Cardinality(Texted(w, "said")) = Cardinality(SaidTurns(m))
    BY DEF Meant, OllamaOK
  <2>3. z.role # "tool" /\ ("said" \in z.text <=> a.text)
    BY DEF CallsTurn, TextParts
  <2>. HIDE DEF w, v, z, c
  <2>4. Closed(v) /\ OllamaReads(v) = Ex(p) \o Ex(c)
    BY <1>4, <2>1, <2>2, OllamaRound
  <2>5. /\ Cardinality(Tools(v)) = Len(p) + Len(c)
        /\ Cardinality(Texted(v, "said")) = Cardinality(SaidTurns(n))
    <3>1. /\ Cardinality(Tools(v)) = Cardinality(Tools(w)) + Len(c)
          /\ Cardinality(Texted(v, "said")) =
               Cardinality(Texted(w, "said")) + (IF "said" \in z.text THEN 1 ELSE 0)
      BY <1>4, <2>1, <2>3, OllamaCounts
    <3>2. Cardinality(SaidTurns(n)) = Cardinality(SaidTurns(m)) + (IF a.text THEN 1 ELSE 0)
      BY <1>1, <1>2, SaidRound
    <3>. QED BY <2>2, <2>3, <3>1, <3>2
  <2>6. v \in Seq(OllamaMessage)
    BY <2>1 DEF Follow
  <2>7. OllamaOK(v, n, p \o c)
    BY <1>5, <2>4, <2>5, <2>6 DEF OllamaOK
  <2>. QED BY <2>1, <2>7 DEF v
<1>9. Meant(n, p \o c)
  BY <1>5, <1>6, <1>7, <1>8 DEF Meant
<1>. QED BY <1>9 DEF n

----------------------------------------------------------------------------
\* The calls of the current round that are executed.
Executed(k) == [i \in 1..k |-> CallAt(i)]

\* The conversation without the turn of the round, and the calls before it.
InTurn ==
  pc = "execute" =>
    \E m, p : \E a \in Turn :
      /\ Meant(m, p) /\ messages = Append(m, a)
      /\ a.uses = Uses(Len(calls)) /\ calls # <<>> /\ a.results = <<>>
      /\ executed = p \o Executed(Len(results))

ReadInv ==
  /\ PairInv
  /\ pc \in {"request", "sleep"} => Meant(messages, executed)
  /\ InTurn

LEMMA ExecutedFacts ==
  ASSUME round \in Nat, NEW k \in Nat
  PROVE  /\ Executed(k) \in Seq(Call) /\ Len(Executed(k)) = k
         /\ Executed(k + 1) = Append(Executed(k), CallAt(k + 1))
         /\ Calls(Uses(k)) = Executed(k)
<1>1. \A i \in 1..(k + 1) : CallAt(i) \in Call
  BY DEF CallAt, Call
<1>2. Executed(k) \in Seq(Call) /\ Len(Executed(k)) = k
  <2>1. Executed(k) \in [1..k -> Call]
    BY <1>1 DEF Executed
  <2>. QED BY <2>1
<1>3. Executed(k + 1) = Append(Executed(k), CallAt(k + 1))
  <2> DEFINE e == Executed(k + 1)
             f == Append(Executed(k), CallAt(k + 1))
  <2>1. e \in [1..(k + 1) -> Call]
    BY <1>1 DEF Executed
  <2>2. e \in Seq(Call) /\ Len(e) = k + 1
    <3>. HIDE DEF e
    <3>. QED BY <2>1
  <2>3. CallAt(k + 1) \in Call
    BY <1>1
  <2>4. /\ f \in Seq(Call) /\ Len(f) = k + 1
        /\ \A i \in 1..k : f[i] = Executed(k)[i]
        /\ f[k + 1] = CallAt(k + 1)
    BY <1>2, <2>3
  <2>5. \A i \in 1..(k + 1) : e[i] = CallAt(i)
    BY DEF Executed
  <2>6. \A i \in 1..k : Executed(k)[i] = CallAt(i)
    BY DEF Executed
  <2>. HIDE DEF e, f
  <2>7. \A i \in 1..(k + 1) : e[i] = f[i]
    <3>1. \A i \in 1..(k + 1) : i \in 1..k \/ i = k + 1
      OBVIOUS
    <3>2. ASSUME NEW i \in 1..k PROVE i \in 1..(k + 1)
      OBVIOUS
    <3>3. ASSUME NEW i \in 1..k PROVE e[i] = f[i]
      <4>1. e[i] = CallAt(i)
        BY <2>5, <3>2
      <4>2. f[i] = CallAt(i)
        BY <2>4, <2>6
      <4>. QED BY <4>1, <4>2
    <3>4. e[k + 1] = f[k + 1]
      <4>1. k + 1 \in 1..(k + 1)
        OBVIOUS
      <4>2. e[k + 1] = CallAt(k + 1)
        BY <2>5, <4>1
      <4>. QED BY <2>4, <4>2
    <3>. QED BY <3>1, <3>3, <3>4
  <2>8. e = f
    BY <2>2, <2>4, <2>7, SameSequence
  <2>. QED BY <2>8 DEF e, f
<1>4. Calls(Uses(k)) = Executed(k)
  BY DEF Calls, Uses, Executed
<1>. QED BY <1>2, <1>3, <1>4

\* The ids in a round are different, in both APIs.
LEMMA UsesDiffer ==
  ASSUME round \in Nat, NEW k \in Nat
  PROVE  \A i, j \in DOMAIN Uses(k) : Uses(k)[i][1] = Uses(k)[j][1] => i = j
<1>1. DOMAIN Uses(k) = 1..k /\ \A i \in 1..k : Uses(k)[i] = <<IdOf(CallAt(i)), CallAt(i)>>
  BY UsesTypes
<1>2. \A i \in 1..k : IdOf(CallAt(i)).place = i
  BY DEF IdOf, CallAt
<1>3. \A i \in 1..k : Uses(k)[i][1] = IdOf(CallAt(i))
  BY <1>1
<1>. QED BY <1>1, <1>2, <1>3

LEMMA MeantOutset ==
  ASSUME NEW media \in BOOLEAN
  PROVE  Meant(<<Question(media)>>, <<>>)
<1> DEFINE d == Question(media)
           m == <<d>>
           g == [role |-> d.role, text |-> TextParts(d), calls |-> <<>>, of |-> <<>>]
<1>1. d \in Turn /\ d.uses = <<>> /\ d.results = <<>> /\ d.text = TRUE /\ d.role = "user"
  BY DEF Question, Turn
<1>2. TranslateMessage(d) = <<g>> /\ g \in OllamaMessage /\ "said" \in g.text
  <2>1. "said" \in TextParts(d)
    BY <1>1 DEF TextParts
  <2>. QED BY <1>1, <2>1, Translations, MessageTypes
<1>3. g.role = "user" /\ g.calls = <<>> /\ g.of = <<>>
  BY <1>1
<1>. HIDE DEF d, g
<1>4. m \in Seq(Turn) /\ Len(m) = 1 /\ m[1] = d /\ m # <<>> /\ DOMAIN m = {1}
  BY <1>1
<1>5. Ex(<<>>) = <<>> /\ <<>> \in Seq(Call)
  BY DEF Ex
<1>6. AnthropicReads(m) = <<>>
  <2>1. [i \in 1..(Len(m) - 1) |-> ByIds(m[i].uses, m[i + 1].results)] = <<>>
    BY <1>4
  <2>. QED BY <2>1, FlattenEmpty DEF AnthropicReads
<1>7. Translated(m) = <<<<g>>>> /\ <<g>> \in Seq(OllamaMessage)
      /\ Translated(m) \in Seq(Seq(OllamaMessage))
  <2>1. <<g>> \in Seq(OllamaMessage)
    BY <1>2
  <2> DEFINE h == <<g>>
  <2>2. Translated(m) = [i \in 1..1 |-> h]
    BY <1>2, <1>4 DEF Translated
  <2>. HIDE DEF m, h
  <2>3. /\ Translated(m) \in Seq(Seq(OllamaMessage)) /\ Len(Translated(m)) = 1
        /\ \A k \in 1..1 : Translated(m)[k] = h
    <3>1. Translated(m) \in [1..1 -> Seq(OllamaMessage)]
      BY <2>1, <2>2 DEF h
    <3>. QED BY <2>2, <3>1
  <2>4. <<h>> \in Seq(Seq(OllamaMessage)) /\ Len(<<h>>) = 1 /\ \A k \in 1..1 : <<h>>[k] = h
    BY <2>1 DEF h
  <2>5. Translated(m) = <<h>>
    BY <2>3, <2>4, SameSequence
  <2>. QED BY <2>1, <2>3, <2>5 DEF h
<1>8. FlattenSeq(Translated(m)) = <<g>>
  <2>1. <<>> \in Seq(Seq(OllamaMessage)) /\ <<<<g>>>> = Append(<<>>, <<g>>)
    OBVIOUS
  <2>2. FlattenSeq(<<<<g>>>>) = <<>> \o <<g>>
    BY <1>7, <2>1, FlattenAppend, FlattenEmpty
  <2>. QED BY <1>7, <2>2
<1>9. Cardinality(SaidTurns(m)) = 1
  <2>1. SaidTurns(m) = {1}
    BY <1>1, <1>4 DEF SaidTurns
  <2>. QED BY <2>1, FS_Singleton
<1>10. ASSUME NEW prompt \in BOOLEAN PROVE OllamaOK(Wire(prompt, m), m, <<>>)
  <2> DEFINE w == Wire(prompt, m)
             e == IF prompt THEN 2 ELSE 1
  <2>1. SystemMessage \in OllamaMessage /\ SystemMessage.role = "system"
        /\ SystemMessage.calls = <<>> /\ "said" \notin SystemMessage.text
    BY MessageTypes DEF SystemMessage
  <2>2. w = Prompt(prompt) \o <<g>>
    BY <1>8 DEF Wire
  <2>. HIDE DEF w
  <2>3. /\ w \in Seq(OllamaMessage) /\ DOMAIN w = 1..e /\ Len(w) = e
        /\ \A i \in 1..e : w[i] = IF i = e THEN g ELSE SystemMessage
    <3>1. CASE prompt
      <4>1. w = <<SystemMessage>> \o <<g>>
        BY <2>2, <3>1 DEF Prompt
      <4>2. w \in Seq(OllamaMessage) /\ Len(w) = 2 /\ w[1] = SystemMessage /\ w[2] = g
        BY <1>2, <2>1, <4>1
      <4>. QED BY <3>1, <4>2
    <3>2. CASE ~prompt
      <4>1. w = <<>> \o <<g>>
        BY <2>2, <3>2 DEF Prompt
      <4>2. w \in Seq(OllamaMessage) /\ Len(w) = 1 /\ w[1] = g
        BY <1>2, <4>1
      <4>. QED BY <3>2, <4>2
    <3>. QED BY <3>1, <3>2
  <2>4. \A i \in DOMAIN w : w[i].calls = <<>> /\ w[i].role # "tool"
    BY <1>3, <2>1, <2>3
  <2>5. Closed(w)
    BY <2>4 DEF Closed
  <2>6. OllamaReads(w) = <<>>
    <3> DEFINE t == Places(w)
    <3>1. t \in Seq(Seq(Read)) /\ Len(t) = e /\ OllamaReads(w) = FlattenSeq(t)
          /\ \A i \in 1..e : t[i] = ByPlace(w, i)
      BY <2>3, PlacesFacts
    <3>2. \A k \in 1..e : t[k] = <<>>
      <4>1. \A k \in DOMAIN w : ByPlace(w, k) = <<>>
        BY <2>4 DEF ByPlace
      <4>. QED BY <2>3, <3>1, <4>1
    <3>. HIDE DEF t
    <3>3. <<>> \in Seq(Seq(Read)) /\ <<>> \in Seq(Read) /\ Len(<<>>) < 1
      OBVIOUS
    <3>4. 1 \in Nat /\ 1 <= Len(t) /\ t[1] = <<>>
      BY <3>1, <3>2
    <3>5. /\ \A k \in 1..Len(<<>>) : t[k] = <<>>[k]
          /\ \A k \in 1..Len(t) : (k > Len(<<>>) /\ k # 1) => t[k] = <<>>
      BY <3>1, <3>2
    <3>6. FlattenSeq(t) = FlattenSeq(<<>>) \o <<>>
      BY <3>1, <3>3, <3>4, <3>5, FlattenReads, Zenon
    <3>. QED BY <3>1, <3>6, FlattenEmpty
  <2>7. Cardinality(Tools(w)) = 0
    <3>1. Tools(w) = {}
      BY <2>4 DEF Tools
    <3>. QED BY <3>1, FS_EmptySet
  <2>8. Cardinality(Texted(w, "said")) = 1
    <3>1. Texted(w, "said") = {e}
      BY <1>2, <2>1, <2>3 DEF Texted
    <3>. QED BY <3>1, FS_Singleton
  <2>. QED BY <1>5, <1>9, <2>3, <2>5, <2>6, <2>7, <2>8 DEF OllamaOK, w
<1>11. m[Len(m)].uses = <<>>
  BY <1>1, <1>4
<1>. HIDE DEF m
<1>12. Meant(m, <<>>)
  BY <1>4, <1>5, <1>6, <1>7, <1>10, <1>11 DEF Meant
<1>. QED BY <1>12 DEF m, d

LEMMA ReadInit == Init => ReadInv
<1>. SUFFICES ASSUME Init PROVE ReadInv
  OBVIOUS
<1>1. PICK media \in BOOLEAN : messages = <<Question(media)>>
  BY DEF Init
<1>2. Meant(messages, executed) /\ pc = "request"
  BY <1>1, MeantOutset DEF Init
<1>. QED BY <1>2, PairInit DEF ReadInv, InTurn

LEMMA ReadResponds ==
  ASSUME ReadInv, NEW res \in Answered, Responds(res)
  PROVE  InTurn' /\ pc' \notin {"request", "sleep"}
<1>1. /\ pc = "request" /\ calls' = res.calls /\ results' = <<>> /\ round' = round
      /\ provider' = provider /\ executed' = executed /\ Meant(messages, executed)
      /\ round \in Nat
  BY DEF Responds, ReadInv, PairInv, ConversationOK
<1>2. CASE ~Continues(res)
  BY <1>2 DEF Responds, InTurn
<1>3. CASE Continues(res)
  <2> DEFINE a == AssistantTurn(res)
  <2>1. pc' = "execute" /\ messages' = Append(messages, a) /\ res.calls # <<>>
    BY <1>3 DEF Responds, Continues
  <2>2. res.calls \in Seq(Names) /\ Len(res.calls) \in Nat /\ res.text \in BOOLEAN
    BY ResponseCalls DEF Answered
  <2>3. a \in Turn /\ a.uses = Uses(Len(res.calls)) /\ a.results = <<>>
    <3>1. Uses(Len(res.calls)) \in Seq(Block) /\ <<>> \in Seq(Block)
      BY <1>1, <2>2, UsesTypes
    <3>. QED BY <2>2, <3>1 DEF AssistantTurn, Turn
  <2>4. Uses(Len(calls))' = Uses(Len(res.calls))
    BY <1>1 DEF Uses, IdOf, CallAt
  <2>5. executed = executed \o Executed(Len(results))'
    <3>1. Executed(Len(results))' = <<>>
      BY <1>1 DEF Executed
    <3>2. executed \in Seq(Call)
      BY <1>1 DEF Meant
    <3>. QED BY <3>1, <3>2
  <2>. HIDE DEF a
  <2>6. \E m, p : \E b \in Turn :
          /\ Meant(m, p) /\ messages' = Append(m, b)
          /\ b.uses = Uses(Len(calls))' /\ calls' # <<>> /\ b.results = <<>>
          /\ executed' = p \o Executed(Len(results))'
    BY <1>1, <2>1, <2>3, <2>4, <2>5
  <2>. QED BY <2>1, <2>6 DEF InTurn
<1>. QED BY <1>2, <1>3

LEMMA ReadExecute ==
  ASSUME ReadInv, NEW ok \in BOOLEAN, Execute(ok)
  PROVE  InTurn' /\ pc' = "execute"
<1>1. /\ pc = "execute" /\ executed' = Append(executed, Current)
      /\ results' = Append(results, <<IdOf(Current), Current>>)
      /\ UNCHANGED <<pc, provider, round, messages, calls>>
  BY DEF Execute
<1>2. round \in Nat /\ results \in Seq(Block) /\ Len(results) \in Nat
  BY DEF ReadInv, PairInv, ConversationOK
<1>3. PICK m, p : \E a \in Turn :
        /\ Meant(m, p) /\ messages = Append(m, a)
        /\ a.uses = Uses(Len(calls)) /\ calls # <<>> /\ a.results = <<>>
        /\ executed = p \o Executed(Len(results))
  BY <1>1 DEF ReadInv, InTurn
<1>4. Len(results') = Len(results) + 1
  BY <1>1, <1>2
<1> DEFINE e == Executed(Len(results))
           x == CallAt(Len(results) + 1)
<1>5. Executed(Len(results))' = Append(e, x) /\ e \in Seq(Call)
  <2>1. Executed(Len(results))' = Executed(Len(results) + 1)
    BY <1>1, <1>4 DEF Executed, CallAt
  <2>. QED BY <1>2, <2>1, ExecutedFacts
<1>6. p \in Seq(Call) /\ x \in Call
  <2>1. p \in Seq(Call)
    BY <1>3 DEF Meant
  <2>2. Len(results) + 1 \in Nat
    BY <1>2
  <2>. QED BY <1>2, <2>1, <2>2, CallAtTypes
<1>7. executed' = Append(p \o e, x)
  BY <1>1, <1>3 DEF Current
<1>. HIDE DEF e, x
<1>8. Append(p \o e, x) = p \o Append(e, x)
  <2>1. /\ Append(p \o e, x) = (p \o e) \o <<x>> /\ Append(e, x) = e \o <<x>>
        /\ <<x>> \in Seq(Call)
    BY <1>5, <1>6
  <2>. QED BY <1>5, <1>6, <2>1, JoinAssoc
<1>9. Uses(Len(calls))' = Uses(Len(calls))
  BY <1>1 DEF Uses, IdOf, CallAt
<1>10. executed' = p \o Executed(Len(results))'
  BY <1>5, <1>7, <1>8
<1>. QED BY <1>1, <1>3, <1>9, <1>10 DEF InTurn

LEMMA ReadNextRound ==
  ASSUME ReadInv, NextRound
  PROVE  Meant(messages, executed)' /\ pc' = "request"
<1>1. /\ pc = "execute" /\ Len(results) = Len(calls) /\ messages' = Append(messages, ResultsTurn)
      /\ pc' = "request" /\ executed' = executed
  BY DEF NextRound
<1>2. /\ round \in Nat /\ results \in Seq(Block) /\ calls \in Seq(Names)
      /\ \A k \in 1..Len(results) : results[k] = <<IdOf(CallAt(k)), CallAt(k)>>
  BY <1>1 DEF ReadInv, PairInv, ConversationOK, InRound
<1>3. PICK m, p : \E a \in Turn :
        /\ Meant(m, p) /\ messages = Append(m, a)
        /\ a.uses = Uses(Len(calls)) /\ calls # <<>> /\ a.results = <<>>
        /\ executed = p \o Executed(Len(results))
  BY <1>1 DEF ReadInv, InTurn
<1>4. PICK a \in Turn :
        /\ messages = Append(m, a)
        /\ a.uses = Uses(Len(calls)) /\ calls # <<>> /\ a.results = <<>>
  BY <1>3
<1> DEFINE b == ResultsTurn
           l == Len(calls)
<1>5. l \in Nat /\ l # 0
  BY <1>2, <1>4
<1>6. /\ Uses(l) \in Seq(Block) /\ Len(Uses(l)) = l
      /\ \A k \in 1..l : Uses(l)[k] = <<IdOf(CallAt(k)), CallAt(k)>>
  BY <1>2, <1>5, UsesTypes
<1>7. results = a.uses
  <2>1. \A k \in 1..Len(results) : results[k] = Uses(l)[k]
    BY <1>1, <1>2, <1>6
  <2>2. results = Uses(l)
    BY <1>1, <1>2, <1>6, <2>1, SameSequence
  <2>. QED BY <1>4, <2>2
<1>8. b \in Turn /\ b.uses = <<>> /\ b.results = a.uses /\ ~b.text
  <2>1. <<>> \in Seq(Block)
    OBVIOUS
  <2>. QED BY <1>2, <1>7, <2>1 DEF ResultsTurn, Turn
<1>9. a.uses # <<>>
  BY <1>4, <1>5, <1>6
<1>10. \A j, k \in DOMAIN a.uses : a.uses[j][1] = a.uses[k][1] => j = k
  BY <1>2, <1>4, <1>5, UsesDiffer
<1>11. Meant(m, p) /\ executed = p \o Calls(a.uses)
  <2>1. Calls(a.uses) = Executed(l)
    BY <1>2, <1>4, <1>5, ExecutedFacts
  <2>. QED BY <1>1, <1>3, <2>1
<1>. HIDE DEF b
<1>12. Meant(Append(Append(m, a), b), p \o Calls(a.uses))
  BY <1>4, <1>8, <1>9, <1>10, <1>11, MeantRound
<1>13. messages' = Append(Append(m, a), b)
  BY <1>1, <1>4 DEF b
<1>. QED BY <1>1, <1>11, <1>12, <1>13

LEMMA ReadStep == ReadInv /\ [Next]_vars => ReadInv'
<1>. SUFFICES ASSUME ReadInv, [Next]_vars
              PROVE  /\ pc' \in {"request", "sleep"} => Meant(messages, executed)'
                     /\ InTurn'
  BY PairStep DEF ReadInv
<1>1. ASSUME NEW why \in Failures, RequestFails(why)
      PROVE  Meant(messages, executed)' /\ InTurn'
  <2>1. pc = "request" /\ pc' # "execute" /\ UNCHANGED <<messages, executed>>
    BY <1>1 DEF RequestFails
  <2>. QED BY <2>1 DEF ReadInv, InTurn
<1>2. CASE RetryAfterDelay
  BY <1>2 DEF RetryAfterDelay, ReadInv, InTurn
<1>3. ASSUME NEW res \in Answered, Responds(res)
      PROVE  InTurn' /\ pc' \notin {"request", "sleep"}
  BY <1>3, ReadResponds
<1>4. ASSUME NEW ok \in BOOLEAN, Execute(ok)
      PROVE  InTurn' /\ pc' \notin {"request", "sleep"}
  BY <1>4, ReadExecute
<1>5. CASE NextRound
  BY <1>5, ReadNextRound DEF InTurn
<1>6. CASE UNCHANGED vars
  BY <1>6 DEF vars, ReadInv, InTurn, Executed, Uses, IdOf, CallAt
<1>. QED BY <1>1, <1>2, <1>3, <1>4, <1>5, <1>6 DEF Next, Step, Ended

\* The server of either API reads from every request the calls executed so far, each
\* with what came of it, although Ollama's messages have no ids.
THEOREM ReadAsMeantHolds == Spec => []ReadAsMeant
<1>1. ReadInv => ReadAsMeant
  <2>. SUFFICES ASSUME Meant(messages, executed) PROVE ReadAsMeant
    BY DEF ReadInv, ReadAsMeant
  <2>1. AsExecuted = Ex(executed) /\ AnthropicReads(AnthropicRequest) = AsExecuted
    BY DEF AsExecuted, Ex, Meant, AnthropicRequest
  <2>2. \A prompt \in BOOLEAN : OllamaRequest(prompt) = Wire(prompt, messages)
    BY DEF OllamaRequest, Wire, Prompt, Translated
  <2>3. \A prompt \in BOOLEAN : OllamaOK(OllamaRequest(prompt), messages, executed)
    BY <2>2 DEF Meant
  <2>. QED BY <2>1, <2>3 DEF ReadAsMeant, OllamaOK, Tools, SaidTurns
<1>. QED BY <1>1, ReadInit, ReadStep, PTL DEF Spec

\* The same with the stages of each call: whatever a site or a search server does, the
\* requests are well paired, read as meant, and no call is executed twice.
THEOREM CallsKeepPromises == CallsSpec => [](WellPaired /\ ExecutedOnce /\ ReadAsMeant)
BY CallsRunLoop, RequestsWellPaired, ExecutedOnceHolds, ReadAsMeantHolds, PTL

=============================================================================
