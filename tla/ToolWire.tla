------------------------------ MODULE ToolWire ------------------------------
(***************************************************************************)
(* The requests of the agentic loop as they go over the wire of either API *)
(* and what the server makes of them.  Anthropic gets the turns as they    *)
(* are and pairs a result with its call by the id; Ollama gets other       *)
(* messages, without the ids, and pairs them by their order.               *)
(***************************************************************************)
EXTENDS AgenticLoop, SequencesExt

\* What the text of an Ollama message holds: the prompt, the text of the turn, the
\* placeholder for its images and documents, the content that came of a call.
Texts == {"prompt", "said", "omitted", "content"}

\* calls: of tool_calls, their names and arguments; of: the call the content came of.
OllamaMessage ==
  [role : {"system", "user", "assistant", "tool"}, text : SUBSET Texts,
   calls : Seq(Call), of : Seq(Call)]

SystemMessage == [role |-> "system", text |-> {"prompt"}, calls |-> <<>>, of |-> <<>>]

Calls(blocks) == [k \in DOMAIN blocks |-> blocks[k][2]]

\* The text blocks of a turn, joined.
TextParts(turn) ==
  (IF turn.text THEN {"said"} ELSE {}) \cup (IF turn.media THEN {"omitted"} ELSE {})

ToolMessage(block) ==
  [role |-> "tool", text |-> {"content"}, calls |-> <<>>, of |-> <<block[2]>>]

TranslateMessage_JoinsBug(turn) ==   \* one message for all results
  LET text(role) == [role |-> role, text |-> TextParts(turn),
                     calls |-> Calls(turn.uses), of |-> <<>>] IN
  CASE turn.uses # <<>>    -> <<text("assistant")>>
    [] turn.results # <<>> -> <<[text("tool") EXCEPT !.of = Calls(turn.results)]>>
    [] OTHER               -> <<text(turn.role)>>

\* Calls make an assistant's message with tool_calls, results a message each (what
\* text is beside them is left out), a turn with neither keeps its role.
TranslateMessage(turn) ==
  LET text(role) == [role |-> role, text |-> TextParts(turn),
                     calls |-> Calls(turn.uses), of |-> <<>>] IN
  CASE turn.uses # <<>>    -> <<text("assistant")>>
    [] turn.results # <<>> -> [k \in DOMAIN turn.results |-> ToolMessage(turn.results[k])]
    [] OTHER               -> <<text(turn.role)>>

\* The messages of a request to Ollama; the prompt goes first, if there is one.
OllamaRequest(prompt) ==
  (IF prompt THEN <<SystemMessage>> ELSE <<>>)
  \o FlattenSeq([i \in DOMAIN messages |-> TranslateMessage(messages[i])])

\* Anthropic gets the turns as they are.
AnthropicRequest == messages

----------------------------------------------------------------------------
\* What the servers read: the calls in their order, each with what came of it.

\* Anthropic: the results of a turn answer the calls of the turn before, by their ids.
ByIds(uses, answers) ==
  [k \in DOMAIN uses |->
     <<uses[k][2], {answers[j][2] : j \in {j \in DOMAIN answers : answers[j][1] = uses[k][1]}}>>]

AnthropicReads(wire) ==
  FlattenSeq([i \in 1..(Len(wire) - 1) |-> ByIds(wire[i].uses, wire[i + 1].results)])

\* Ollama: the messages of role "tool" behind an assistant's message answer its calls,
\* one each, in the order of the calls.
ByPlace(wire, i) ==
  [k \in DOMAIN wire[i].calls |->
     <<wire[i].calls[k],
       IF i + k \in DOMAIN wire /\ wire[i + k].role = "tool"
       THEN {wire[i + k].of[j] : j \in DOMAIN wire[i + k].of} ELSE {}>>]

OllamaReads(wire) == FlattenSeq([i \in DOMAIN wire |-> ByPlace(wire, i)])

----------------------------------------------------------------------------
\* Properties

\* Whichever API is used, the server reads from a request exactly the calls executed so
\* far, in their order, each with what came of it and nothing else, although Ollama's
\* ids repeat in every round and are not sent; and no text of a turn is lost.
AsExecuted == [k \in DOMAIN executed |-> <<executed[k], {executed[k]}>>]

Texted(seq, what) == {i \in DOMAIN seq : what \in seq[i].text}

ReadAsMeant ==
  pc = "request" =>
    /\ provider = "anthropic" => AnthropicReads(AnthropicRequest) = AsExecuted
    /\ provider = "ollama" =>
         \A prompt \in BOOLEAN :
           LET wire == OllamaRequest(prompt) IN
           /\ wire \in Seq(OllamaMessage)
           /\ OllamaReads(wire) = AsExecuted
           /\ Cardinality({i \in DOMAIN wire : wire[i].role = "tool"}) = Len(executed)
           /\ Cardinality(Texted(wire, "said")) =
                Cardinality({i \in DOMAIN messages : messages[i].text})

=============================================================================
