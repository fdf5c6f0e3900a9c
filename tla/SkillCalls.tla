----------------------------- MODULE SkillCalls -----------------------------
(***************************************************************************)
(* The agentic loop with the skills it runs: what skills/ does for one     *)
(* call, against a site or a search server that may fail, stop or never    *)
(* answer.  AgenticLoop takes a call as one step, Execute; here that is    *)
(* the last of several.                                                    *)
(***************************************************************************)
EXTENDS ToolWire

CONSTANTS
  MaxResponseSize,   \* MAX_RESPONSE_SIZE, in units of size
  MaxTextOutput,     \* MAX_TEXT_OUTPUT, in units of text
  MaxResults,        \* bound: results in a search server's answer
  SearchProviders    \* of "tavily" and "perplexity", those that may be configured

ASSUME SkillAssumption ==
  /\ MaxResponseSize \in Nat /\ MaxTextOutput \in Nat /\ MaxResults \in Nat
  /\ SearchProviders \subseteq {"tavily", "perplexity"}

\* How far the call is: not started, waiting for a site's answer or its body, or for the
\* search server, done.
Stages == {"idle", "fetch", "body", "search", "done"}

\* What the text returned says: an error, that it failed, a page's text (cut or not) or
\* that it has none, a note instead of binary content, search results, an entry.
Sayings == {"error", "failed", "text", "cut", "empty", "note", "results", "entry"}

Sizes    == 0..(MaxResponseSize + 1)
Lengths  == 0..(MaxTextOutput + 1)
Types    == {"html", "text", "other"}

VARIABLES
  search,    \* the provider of the web_search skill
  skill,     \* the stage of the call, and what is known of the answer
  output,    \* what is returned
  was        \* history: what came from the other side in this call

callVars == <<search, skill, output, was>>

Idle    == [stage |-> "idle", size |-> 0, type |-> "html"]
Nothing == [says |-> "error", chars |-> 0, sources |-> 0]
Silence == [status |-> FALSE, size |-> 0, chars |-> 0, sources |-> 0]

Says(what)          == [Nothing EXCEPT !.says = what]
Returns(out)        == skill' = [skill EXCEPT !.stage = "done"] /\ output' = out
Keeps               == UNCHANGED vars /\ UNCHANGED search

----------------------------------------------------------------------------
\* The start of a call

Name == calls[Len(results) + 1]

\* An unknown name, or a parameter that is missing or no string: an error.
Refused ==
  /\ pc = "execute" /\ Len(results) < Len(calls) /\ skill.stage = "idle"
  /\ Returns(Says("error")) /\ was' = Silence /\ Keeps

\* The memory skills answer at once; a file system's error is theirs.
Remember ==
  /\ pc = "execute" /\ Len(results) < Len(calls) /\ skill.stage = "idle"
  /\ Name = "memory_store" /\ was' = Silence /\ Keeps
  /\ \E what \in {"entry", "error"} : Returns(Says(what))

\* Without an entry that matches, the text says so.
Recall ==
  /\ pc = "execute" /\ Len(results) < Len(calls) /\ skill.stage = "idle"
  /\ Name = "memory_recall" /\ was' = Silence /\ Keeps
  /\ \E what \in {"entry", "failed", "error"} : Returns(Says(what))

\* A URL that does not parse or is neither http nor https fails, any other is requested.
StartFetch(valid) ==
  /\ pc = "execute" /\ Len(results) < Len(calls) /\ skill.stage = "idle"
  /\ Name = "url_fetch" /\ was' = Silence /\ Keeps
  /\ IF valid THEN skill' = [skill EXCEPT !.stage = "fetch"] /\ UNCHANGED output
     ELSE Returns(Says("failed"))

StartSearch ==
  /\ pc = "execute" /\ Len(results) < Len(calls) /\ skill.stage = "idle"
  /\ Name = "web_search" /\ was' = Silence /\ Keeps
  /\ skill' = [skill EXCEPT !.stage = "search"] /\ UNCHANGED output

----------------------------------------------------------------------------
\* url_fetch

\* What extract_text can make of a body: of HTML a text of any length, of a textual type
\* its characters, of anything else a note if it looks binary.  It is trimmed.
ExtractText(type, size) ==
  LET texts == {[says |-> "text", chars |-> n] : n \in Lengths} IN
  CASE type = "html" -> texts
    [] type = "text" -> {t \in texts : t.chars <= size}
    [] OTHER -> {t \in texts : t.chars <= size} \cup {[says |-> "note", chars |-> 1]}

\* The text is cut behind its first MaxTextOutput characters, and says so.
FormatResult(text) ==
  [Nothing EXCEPT
     !.says  = CASE text.chars = 0 -> "empty"
                 [] text.chars > MaxTextOutput -> "cut"
                 [] OTHER -> text.says,
     !.chars = IF text.chars > MaxTextOutput THEN MaxTextOutput ELSE text.chars]

\* The head of an answer: its status, its declared length if it has one, its type (HTML
\* if it names none).
SiteAnswers(ok, size, declared, type) ==
  /\ skill.stage = "fetch" /\ Keeps
  /\ was' = [was EXCEPT !.status = ok, !.size = size]
  /\ IF ~ok \/ (declared /\ size > MaxResponseSize) THEN Returns(Says("failed"))
     ELSE skill' = [stage |-> "body", size |-> size, type |-> type] /\ UNCHANGED output

Body_DeclaredBug ==   \* the size is only checked where it is declared
  /\ skill.stage = "body" /\ Keeps
  /\ \E text \in ExtractText(skill.type, skill.size) :
       was' = [was EXCEPT !.chars = text.chars] /\ Returns(FormatResult(text))

\* The whole body has come; one that is too large is not looked at.
Body ==
  /\ skill.stage = "body" /\ Keeps
  /\ IF skill.size > MaxResponseSize THEN Returns(Says("failed")) /\ UNCHANGED was
     ELSE \E text \in ExtractText(skill.type, skill.size) :
            was' = [was EXCEPT !.chars = text.chars] /\ Returns(FormatResult(text))

\* No connection, too many redirects, or a body that breaks off.
FetchFails ==
  /\ skill.stage \in {"fetch", "body"} /\ Keeps
  /\ Returns(Says("failed")) /\ was' = [was EXCEPT !.status = FALSE]

FetchTimesOut_ConnectBug ==   \* only the request has a timeout, not its body
  /\ skill.stage = "fetch" /\ Keeps
  /\ Returns(Says("failed")) /\ was' = [was EXCEPT !.status = FALSE]

\* The client's 30 s cover the request and the body.
FetchTimesOut ==
  /\ skill.stage \in {"fetch", "body"} /\ Keeps
  /\ Returns(Says("failed")) /\ was' = [was EXCEPT !.status = FALSE]

----------------------------------------------------------------------------
\* web_search

\* The numbers of results and citations in an answer, -1 if the field is missing: Tavily
\* always has results, Perplexity may have search_results, or citations, or both.
Absent            == -1
TavilyAnswers     == [results : 0..MaxResults, citations : {Absent}]
PerplexityAnswers == [results : Absent..MaxResults, citations : Absent..MaxResults]

SearchAnswers == IF search = "tavily" THEN TavilyAnswers ELSE PerplexityAnswers

TavilySources(answer) == answer.results

PerplexitySources(answer) ==
  CASE answer.results # Absent -> answer.results
    [] answer.citations # Absent -> answer.citations
    [] OTHER -> 0

\* The SearchResults a provider makes of an answer.
Sources(answer) ==
  IF search = "tavily" THEN TavilySources(answer) ELSE PerplexitySources(answer)

\* Each result is listed; a summary goes first, with or without any.
SearchAnswered(answer) ==
  /\ skill.stage = "search" /\ Keeps
  /\ was' = [was EXCEPT !.status = TRUE, !.sources = Sources(answer)]
  /\ Returns([Says("results") EXCEPT !.sources = Sources(answer)])

\* No connection, a status that is no success, an answer that is not as expected.  The
\* search clients have no timeout.
SearchFails ==
  /\ skill.stage = "search" /\ Keeps
  /\ Returns(Says("failed")) /\ UNCHANGED was

----------------------------------------------------------------------------

\* The text, or the error as "Error: ...", becomes the result of the call.
Return ==
  /\ skill.stage = "done" /\ Execute(output.says # "error")
  /\ skill' = Idle /\ output' = Nothing /\ was' = Silence /\ UNCHANGED search

Loop ==
  /\ \/ \E why \in Failures : RequestFails(why)
     \/ RetryAfterDelay
     \/ \E res \in Answered : res.stop \in Allowed(provider) /\ Responds(res)
     \/ NextRound
  /\ UNCHANGED callVars

\* What goes on without the other side of a fetch.
Own ==
  \/ Loop \/ Refused \/ Remember \/ Recall \/ StartSearch \/ FetchTimesOut \/ Return
  \/ \E valid \in BOOLEAN : StartFetch(valid)
  \/ \E answer \in SearchAnswers : SearchAnswered(answer)
  \/ SearchFails

Site ==
  \/ \E ok, declared \in BOOLEAN, size \in Sizes, type \in Types :
       SiteAnswers(ok, size, declared, type)
  \/ Body \/ FetchFails

CallsInit ==
  /\ Init /\ search \in SearchProviders
  /\ skill = Idle /\ output = Nothing /\ was = Silence

CallsNext == Own \/ Site \/ (Ended /\ UNCHANGED callVars)

CallsSpec == CallsInit /\ [][CallsNext]_<<vars, callVars>>

\* The agent's own steps go on, and the servers of the LLM and of the search answer or
\* fail, which no timeout enforces.  A site that is fetched may be silent for ever.
FairCalls == CallsSpec /\ WF_<<vars, callVars>>(Own)

----------------------------------------------------------------------------
\* Properties

\* What a skill tells the LLM is what happened: a page's text only if the site answered
\* with success and a body within the limit, marked as cut if it is and never longer than
\* the limit; results only if the server answered, and then all of them.
TruthfulOutput ==
  skill.stage = "done" =>
    /\ output.says \in {"text", "cut", "empty", "note"} =>
         was.status /\ was.size <= MaxResponseSize /\ Name = "url_fetch"
    /\ output.says \in {"text", "empty"} => output.chars = was.chars
    /\ output.says = "cut" <=> was.chars > MaxTextOutput
    /\ output.chars <= MaxTextOutput
    /\ output.says = "results" <=> was.status /\ Name = "web_search"
    /\ output.sources = was.sources

=============================================================================
