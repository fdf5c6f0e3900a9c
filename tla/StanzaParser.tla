---------------------------- MODULE StanzaParser ----------------------------
(***************************************************************************)
(* StanzaParser of xmpp/stanzas.rs, fed with the events of an XML reader.  *)
(* It knows the document by its depth and a stack of open children; what   *)
(* it returns is compared with the elements of the document itself.        *)
(*                                                                         *)
(* The reads of the handshake wait for a marker and take along whatever    *)
(* came with it: what the server had sent behind the marker never reaches  *)
(* the reader, which may then begin in the middle of an element.           *)
(*                                                                         *)
(* An event is its kind and a name; attributes other than the one that     *)
(* decides (`from`, see Anonymous), and the wording of a text, are left    *)
(* out.  CDATA is text, and what is neither text nor element is not fed.   *)
(***************************************************************************)
EXTENDS Integers, Sequences, SequencesExt, FiniteSetsExt

CONSTANT MaxEvents  \* bound: events fed

\* "anonymous" is a message without `from`.
Stanza   == {"message", "anonymous", "presence", "stream:error"}
Texts    == {"message", "body", "reaction", "url"}
Stream   == {"stream:stream", "stream"}

VARIABLES
  depth, streamDepth,
  state,   \* "idle" or "inStanza"
  root,    \* root_name of the builder
  stack,   \* child_stack
  kids,    \* the builder's completed children
  result,  \* what feed returned for the last event; "error" when the reader gave up
  cut,     \* the element in which the reader begins, "none" when it is between stanzas
  fed      \* the events fed so far

builder    == <<root, stack, kids>>
parser     == <<depth, streamDepth, state, builder>>
parserVars == <<parser, result, cut, fed>>

\* ChildElement: its name, whether it has text, its children.
Element(n)  == [name |-> n, text |-> FALSE, kids |-> <<>>]

----------------------------------------------------------------------------
\* finalize_stanza: what a completed element amounts to.  Names that end in _Bug are
\* faulty variants of the definition that follows.

\* The place of the first child of the name, if there is one.
FirstNamed(es, n) == {i \in DOMAIN es : es[i].name = n /\ \A j \in 1..(i - 1) : es[j].name # n}

HasText(es, n) == \E i \in DOMAIN es : es[i].name = n /\ es[i].text

\* Only the first <reactions/> and the first <body/> count.
IsReaction(es) == \E i \in FirstNamed(es, "reactions") : HasText(es[i].kids, "reaction")

HasBody(es) == \E i \in FirstNamed(es, "body") : es[i].text

\* An x without a url is no attachment.
HasFile(es) ==
  \E i \in DOMAIN es : /\ es[i].name = "x"
                       /\ \E u \in FirstNamed(es[i].kids, "url") : es[i].kids[u].text

IsTyping(es) == \E i \in DOMAIN es : es[i].name = "composing"

\* A chat state without body is no message, even with a file.
Message(es) ==
  IF IsReaction(es) THEN "reaction"
  ELSE IF HasBody(es) \/ (HasFile(es) /\ ~IsTyping(es)) THEN "message" ELSE "ignored"

Finalize(n, es) ==
  CASE n = "message"      -> Message(es)
    [] n = "presence"     -> "presence"
    [] n = "stream:error" -> IF \E i \in DOMAIN es : es[i].name = "conflict"
                             THEN "conflict" ELSE "unknown"
    [] OTHER              -> "ignored"

----------------------------------------------------------------------------
\* feed

Returns(r) == result' = r

\* Into the children of the innermost open child, or of the stanza.
Into(es, st, e) ==
  IF st = <<>> THEN <<Append(es, e), st>>
  ELSE <<es, [st EXCEPT ![Len(st)].kids = Append(@, e)]>>

Attach(st, e) == kids' = Into(kids, st, e)[1] /\ stack' = Into(kids, st, e)[2]

OnHeader(n) ==
  /\ state = "idle" /\ n \in Stream
  /\ depth' = depth + 1 /\ streamDepth' = depth'
  /\ Returns("level") /\ UNCHANGED <<state, builder>>

OnStart(n) ==
  /\ ~(state = "idle" /\ n \in Stream)
  /\ depth' = depth + 1 /\ Returns("none") /\ UNCHANGED streamDepth
  /\ IF state = "idle" /\ depth' = streamDepth + 1
     THEN state' = "inStanza" /\ root' = n /\ stack' = <<>> /\ kids' = <<>>
     ELSE /\ IF state = "inStanza" THEN stack' = Append(stack, Element(n)) ELSE UNCHANGED stack
          /\ UNCHANGED <<state, root, kids>>

OnEmpty(n) ==
  /\ IF state = "idle" /\ depth = streamDepth
     THEN Returns(Finalize(n, <<>>)) /\ UNCHANGED builder
     ELSE /\ Returns("none") /\ UNCHANGED root
          /\ IF state = "inStanza" THEN Attach(stack, Element(n)) ELSE UNCHANGED <<stack, kids>>
  /\ UNCHANGED <<depth, streamDepth, state>>

OnText_Bug ==   \* the text goes to the outermost child
  /\ stack' = IF state = "inStanza" /\ stack # <<>> THEN [stack EXCEPT ![1].text = TRUE] ELSE stack
  /\ Returns("none") /\ UNCHANGED <<depth, streamDepth, state, root, kids>>

\* The text of the stanza itself is kept, but nothing asks for it.
OnText ==
  /\ stack' = IF state = "inStanza" /\ stack # <<>>
              THEN [stack EXCEPT ![Len(stack)].text = TRUE] ELSE stack
  /\ Returns("none") /\ UNCHANGED <<depth, streamDepth, state, root, kids>>

Less(d) == IF d = 0 THEN 0 ELSE d - 1

OnFooter(n) ==
  /\ n \in Stream /\ depth = streamDepth
  /\ depth' = Less(depth) /\ streamDepth' = 0 /\ state' = "idle"
  /\ Returns("level") /\ UNCHANGED builder

OnEnd(n) ==
  /\ ~(n \in Stream /\ depth = streamDepth)
  /\ depth' = Less(depth) /\ UNCHANGED <<streamDepth, root>>
  /\ IF state = "inStanza" /\ depth' = streamDepth
     THEN state' = "idle" /\ Returns(Finalize(root, kids)) /\ UNCHANGED <<stack, kids>>
     ELSE /\ Returns("none") /\ UNCHANGED state
          /\ IF state = "inStanza" /\ stack # <<>> THEN Attach(Front(stack), Last(stack))
             ELSE UNCHANGED <<stack, kids>>

----------------------------------------------------------------------------
\* The document that has been fed, by the places of its events

Level(i) == Cardinality({k \in 1..(i - 1) : fed[k].kind = "start"})
              - Cardinality({k \in 1..(i - 1) : fed[k].kind = "end"})

Opens  == {i \in DOMAIN fed : fed[i].kind \in {"start", "empty"}}

\* The stanzas lie inside the header when the parser sees it, and at the outermost
\* level when a handshake has read it.
Top == IF cut = "none" /\ fed # <<>> /\ fed[1].name \in Stream THEN 1 ELSE 0

\* Where the element that begins at i ends; behind the document while it is open.
EndOf(i) ==
  IF fed[i].kind = "empty" THEN i
  ELSE Min({j \in DOMAIN fed : j > i /\ fed[j].kind = "end" /\ Level(j) = Level(i) + 1}
           \cup {Len(fed) + 1})

Within(i)    == {k \in DOMAIN fed : i < k /\ k < EndOf(i) /\ Level(k) = Level(i) + 1}
Named(i, n)  == {k \in Within(i) \cap Opens : fed[k].name = n}
Texted(i)    == \E k \in Within(i) : fed[k].kind = "text"
First(K)     == {k \in K : \A l \in K : k <= l}

\* The innermost element that is open.
Innermost == Max({i \in Opens : EndOf(i) > Len(fed)})

\* The elements of the stanza level that the last event has completed.
Completed ==
  {i \in Opens : EndOf(i) = Len(fed) /\ Level(i) = Top /\ fed[i].name \notin Stream}

\* XEP-0444, XEP-0085, XEP-0066 as the parser is to read them.
Meaning(i) ==
  LET reacts == \E r \in First(Named(i, "reactions")) :
                  \E e \in Named(r, "reaction") : Texted(e)
      says   == \E b \in First(Named(i, "body")) : Texted(b)
      shares == \E x \in Named(i, "x") : \E u \in First(Named(x, "url")) : Texted(u)
  IN CASE fed[i].name = "message" ->
            IF reacts THEN "reaction"
            ELSE IF says THEN "message"
            ELSE IF shares /\ Named(i, "composing") = {} THEN "message" ELSE "ignored"
       [] fed[i].name = "presence" -> "presence"
       [] fed[i].name = "stream:error" ->
            IF Named(i, "conflict") # {} THEN "conflict" ELSE "unknown"
       [] OTHER -> "ignored"

----------------------------------------------------------------------------
\* The reader: it checks that ends match, and the reader task stops at an end that has no
\* start, at a stream error or at the end of the stream.

Here == Level(Len(fed) + 1)

Reads ==
  /\ Len(fed) < MaxEvents /\ result \notin {"conflict", "unknown", "error"}
  /\ fed # <<>> => Here >= Top

Fed(kind, n) == fed' = Append(fed, [kind |-> kind, name |-> n]) /\ UNCHANGED cut

Holds(n) ==
  CASE n \in {"message", "anonymous"} -> {"body", "composing", "reactions", "x", "stream"}
    [] n = "stream:error"            -> {"conflict", "stream"}
    [] n \in {"reactions", "stream"}  -> {"reaction", "body"}
    [] n = "x"                       -> {"url"}
    [] OTHER                         -> {}

Elements == {"message", "stream:error", "reactions", "stream", "x", "body"}

\* The element that is open, whether the reader has seen its start or not.
Open == IF Here > Top THEN fed[Innermost].name ELSE cut

Names == IF Open = "none" THEN Stanza ELSE Holds(Open)

Start ==
  /\ Reads
  /\ \E n \in Names \cup IF fed = <<>> /\ cut = "none" THEN {"stream:stream"} ELSE {} :
       Fed("start", n) /\ (OnHeader(n) \/ OnStart(n))

Empty == Reads /\ \E n \in Names : Fed("empty", n) /\ OnEmpty(n)

\* Text where text means something, and in the stanza itself.
Text ==
  /\ Reads /\ Open \in Texts
  /\ Fed("text", "") /\ OnText

End ==
  /\ Reads /\ Here > 0
  /\ LET n == fed[Innermost].name IN Fed("end", n) /\ (OnFooter(n) \/ OnEnd(n))

\* The end of an element whose start the handshake has taken.
UnmatchedEnd ==
  /\ Reads /\ Here = 0 /\ cut # "none"
  /\ result' = "error" /\ UNCHANGED <<parser, cut, fed>>

\* Stanzas that the handshake took whole leave nothing behind.  (A cut inside a tag
\* leaves a text.)
ParserInit ==
  /\ cut \in {"none"} \cup Elements
  /\ depth = 0 /\ streamDepth = 0 /\ state = "idle"
  /\ root = "" /\ stack = <<>> /\ kids = <<>>
  /\ result = "none" /\ fed = <<>>

\* The bound is reached, or the task has stopped.
ParserRests == ~Reads /\ UNCHANGED parserVars

ParserNext == Start \/ Empty \/ Text \/ End \/ UnmatchedEnd \/ ParserRests

ParserSpec == ParserInit /\ [][ParserNext]_parserVars

----------------------------------------------------------------------------
\* Properties

\* A stanza is returned at the event that completes it and at no other, whatever it
\* holds, and it is what its own elements say.  Of one that the handshake has taken in
\* part nothing is returned: the rest of it is no stanza, and its end stops the reader.
ReturnsWhatIsThere ==
  IF cut # "none" THEN result \in {"none", "level", "ignored", "error"}
  ELSE IF Completed # {} THEN \A i \in Completed : result = Meaning(i)
  ELSE result \in {"none", "level"}
=============================================================================
