----------------------------- MODULE AgenticLoop -----------------------------
(***************************************************************************)
(* One answer of the LLM: agentic_loop of runtime.rs, with the requests of *)
(* llm/anthropic.rs or llm/ollama.rs that it makes.  AgentRuntime takes it *)
(* as one step; here are its rounds, the retries of a request and the      *)
(* calls of tools.                                                         *)
(***************************************************************************)
EXTENDS Integers, Sequences

CONSTANTS
  Providers,           \* of "anthropic" and "ollama", those that may be configured
  Skills,              \* the names in the SkillRegistry
  Unknown,             \* names of tools that are not registered
  MaxToolRounds,       \* MAX_TOOL_ROUNDS
  MaxRetryAttempts,    \* MAX_RETRY_ATTEMPTS
  InitialDelay, MaxDelay, Multiplier,  \* the backoff of a request
  MaxCalls             \* bound: tool calls in one response

B == INSTANCE Backoff

ASSUME LoopAssumption ==
  /\ Providers \subseteq {"anthropic", "ollama"}
  /\ MaxToolRounds \in Nat /\ MaxRetryAttempts \in Nat /\ MaxCalls \in Nat
  /\ B!BackoffAssumption

Names  == Skills \cup Unknown

CallLists == UNION {[1..n -> Names] : n \in 0..MaxCalls}

\* What the server answers: the text if there is one, the calls in their order, and why
\* it stopped ("none" if it does not say).  The calls and the reason need not agree:
\* max_tokens may cut a response behind a tool_use block, Ollama has no reason for calls.
Answered == [calls : CallLists, text : BOOLEAN,
             stop : {"tool_use", "end_turn", "max_tokens", "stop", "length", "other", "none"}]

Allowed(p) ==
  IF p = "ollama" THEN {"stop", "length", "other", "none"}
  ELSE {"tool_use", "end_turn", "max_tokens", "other", "none"}

\* A turn of the conversation: has it a text, an image or document, which tool_use and
\* tool_result blocks.  A call is known by its round and its place; a block of either
\* kind has the id, and the name and input of the call or the content that came of it.
Call  == [round : Nat, place : Nat]
Id    == [round : Nat, place : Nat]
Block == Id \X Call
Turn  == [role : {"user", "assistant"}, text : BOOLEAN, media : BOOLEAN,
          uses : Seq(Block), results : Seq(Block)]

\* Answers of the API that are worth a retry (status 429, 500, 502, 503, 504, 529),
\* answers that are not, and failures to get one at all.
Failures == {"transient", "refused", "noResponse"}

VARIABLES
  provider,  \* the LlmClient in use
  pc,        \* "request", "sleep", "execute", "done", "failed"
  round,     \* the rounds completed
  backoff,   \* of the request in progress
  messages,  \* the conversation sent with a request
  calls,     \* the tool_calls of the last response
  results,   \* result_blocks
  executed   \* the calls given to a skill or refused as unknown, in order

vars == <<provider, pc, round, backoff, messages, calls, results, executed>>

----------------------------------------------------------------------------

Question(media) ==
  [role |-> "user", text |-> TRUE, media |-> media, uses |-> <<>>, results |-> <<>>]

\* Names that end in _Bug or Bug are faulty variants of the definition that follows.

\* The stop reason the client gives the loop.
StopReason(res) ==
  CASE provider = "ollama" /\ res.calls # <<>> -> "ToolUse"
    [] res.stop = "tool_use" -> "ToolUse"
    [] res.stop \in {"max_tokens", "length"} -> "MaxTokens"
    [] res.stop = "other" -> "Other"
    [] OTHER -> "EndTurn"

\* Ollama gives no ids: "ollama_tool_{i}" is made up, the same in every round.
IdOf(c) == IF provider = "ollama" THEN [round |-> 0, place |-> c.place] ELSE c

CallAt(k) == [round |-> round, place |-> k]

Uses(n) == [k \in 1..n |-> <<IdOf(CallAt(k)), CallAt(k)>>]

\* The request fails; only the Anthropic client tries again.
RequestFails(why) ==
  /\ pc = "request"
  /\ IF /\ why = "transient" /\ provider = "anthropic"
        /\ ~B!Exceeded(backoff, MaxRetryAttempts)
     THEN pc' = "sleep" /\ backoff' = B!Advance(backoff)
     ELSE pc' = "failed" /\ UNCHANGED backoff
  /\ UNCHANGED <<provider, round, messages, calls, results, executed>>

RetryAfterDelay ==
  /\ pc = "sleep" /\ pc' = "request"
  /\ UNCHANGED <<provider, round, backoff, messages, calls, results, executed>>

\* The content_blocks of the response, as they came.
AssistantTurn(res) ==
  [role |-> "assistant", text |-> res.text, media |-> FALSE,
   uses |-> Uses(Len(res.calls)), results |-> <<>>]

\* Only ToolUse with calls goes on, and not in the final call without tools.
Continues(res) ==
  round < MaxToolRounds /\ StopReason(res) = "ToolUse" /\ res.calls # <<>>

Responds_Bug(res) ==   \* result_blocks are not fresh
  /\ pc = "request"
  /\ calls' = res.calls /\ results' = results
  /\ IF Continues(res)
     THEN pc' = "execute" /\ messages' = Append(messages, AssistantTurn(res))
     ELSE pc' = "done" /\ UNCHANGED messages
  /\ UNCHANGED <<provider, round, backoff, executed>>

Responds(res) ==
  /\ pc = "request"
  /\ calls' = res.calls /\ results' = <<>>
  /\ IF Continues(res)
     THEN pc' = "execute" /\ messages' = Append(messages, AssistantTurn(res))
     ELSE pc' = "done" /\ UNCHANGED messages
  /\ UNCHANGED <<provider, round, backoff, executed>>

Current == CallAt(Len(results) + 1)

Execute_AgainBug(ok) ==   \* a skill that failed is tried again
  /\ pc = "execute" /\ Len(results) < Len(calls)
  /\ results' = IF ok \/ Len(executed) > 5 THEN Append(results, <<IdOf(Current), Current>>)
                ELSE results
  /\ executed' = Append(executed, Current)
  /\ UNCHANGED <<provider, pc, round, backoff, messages, calls>>

\* The next call: a skill's output, its error, or that the tool is unknown; each is
\* the content of a tool_result for the id of the call.
Execute(ok) ==
  /\ pc = "execute" /\ Len(results) < Len(calls)
  /\ calls[Len(results) + 1] \in Unknown => ~ok
  /\ results' = Append(results, <<IdOf(Current), Current>>)
  /\ executed' = Append(executed, Current)
  /\ UNCHANGED <<provider, pc, round, backoff, messages, calls>>

ResultsTurn ==
  [role |-> "user", text |-> FALSE, media |-> FALSE, uses |-> <<>>, results |-> results]

\* The results go back, in a turn of their own, with the next request.
NextRound ==
  /\ pc = "execute" /\ Len(results) = Len(calls)
  /\ messages' = Append(messages, ResultsTurn)
  /\ pc' = "request" /\ round' = round + 1 /\ backoff' = B!Fresh
  /\ UNCHANGED <<provider, calls, results, executed>>

Ended == pc \in {"done", "failed"} /\ UNCHANGED vars

Init ==
  /\ provider \in Providers
  /\ \E media \in BOOLEAN : messages = <<Question(media)>>
  /\ pc = "request" /\ round = 0 /\ backoff = B!Fresh
  /\ calls = <<>> /\ results = <<>> /\ executed = <<>>

Step ==
  \/ \E why \in Failures : RequestFails(why)
  \/ RetryAfterDelay
  \/ \E res \in Answered : res.stop \in Allowed(provider) /\ Responds(res)
  \/ \E ok \in BOOLEAN : Execute(ok)
  \/ NextRound

Next == Step \/ Ended

Spec == Init /\ [][Next]_vars

----------------------------------------------------------------------------
\* Properties

\* Every request is a conversation the API accepts: turns alternate, it ends with the
\* user's, and each tool_use is answered in the next turn by the result of that very
\* call, under its id and in its place, whatever the skills did.
Answers(uses, res, r) ==
  /\ Len(res) = Len(uses)
  /\ \A k \in DOMAIN uses : res[k] = uses[k] /\ uses[k][2] = [round |-> r, place |-> k]

WellPaired ==
  pc \in {"request", "sleep"} =>
    /\ Len(messages) = 2 * round + 1
    /\ \A r \in 0..(round - 1) :
         /\ messages[2 * r + 2].role = "assistant" /\ messages[2 * r + 3].role = "user"
         /\ Answers(messages[2 * r + 2].uses, messages[2 * r + 3].results, r)

\* Whatever is retried, no call is executed twice or out of turn.
Before(c, d) == c.round < d.round \/ (c.round = d.round /\ c.place < d.place)

ExecutedOnce ==
  \A i, j \in DOMAIN executed : i < j => Before(executed[i], executed[j])

\* Every answer ends, in a text or an error.
Ends == <>(pc \in {"done", "failed"})

=============================================================================
