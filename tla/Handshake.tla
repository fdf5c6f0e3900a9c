------------------------------ MODULE Handshake ------------------------------
(***************************************************************************)
(* One attempt to connect: establish() of client.rs, with sasl.rs, and of  *)
(* component.rs.  Each step sends something and reads the answer; it goes  *)
(* on, or ends the attempt with the class of error by which main decides   *)
(* whether to try again.  The roster is kept by the server from attempt to *)
(* attempt, and decides whom the agent asks for a subscription.            *)
(***************************************************************************)
EXTENDS Integers, Sequences

CONSTANTS
  Allowed,   \* allowed_jids, a sequence
  Wildcard,  \* "*"
  Strangers, \* other JIDs in the roster
  Wide,      \* the JIDs that are not all ASCII
  MaxAsked   \* bound: requests counted per JID

\* Nobody is listed twice; the code would ask them twice.
ASSUME HandshakeAssumption ==
  /\ Allowed \in Seq(STRING) /\ MaxAsked \in Nat \ {0, 1}
  /\ \A i, k \in DOMAIN Allowed : Allowed[i] = Allowed[k] => i = k

Modes      == {"client", "component"}
Mechanisms == {"SCRAM-SHA-1", "PLAIN"}

\* Where an attempt is: the answer it waits for or the write it is about to make.
Steps == {"tcp", "features", "proceed", "tls", "mechanisms", "challenge", "verdict",
          "reopen", "bind", "roster", "presence", "subscribe",
          "streamId", "handshake", "done", "failed"}

\* XmppError, and what was really wrong.
Errors == {"auth", "config", "transient"}
Causes == {"none", "credentials", "capability", "refused", "network"}

Jids == {Allowed[i] : i \in DOMAIN Allowed} \ {Wildcard}

VARIABLES
  mode,    \* the mode of the configuration
  step,
  err,     \* once failed, the class of the error
  cause,   \* once failed, what was wrong
  next,    \* the place in Allowed of the JID to look at
  known,   \* roster_jids, as read in this attempt
  sent,    \* JIDs asked in this attempt
  roster,  \* the server's roster of the account, without items to be removed
  asked,   \* per JID, the requests the server has seen, up to MaxAsked
  misread  \* history: the JIDs that were in the roster but were not read from it

server    == <<roster, asked>>
handshake == <<mode, step, err, cause, next, known, sent, server, misread>>

----------------------------------------------------------------------------
\* Names that end in _Bug are faulty variants of the definition that follows.

GoTo(to) == step' = to /\ UNCHANGED <<mode, err, cause, next, known, sent, server, misread>>

Fail(e, why) ==
  /\ step' = "failed" /\ err' = e /\ cause' = why
  /\ UNCHANGED <<mode, next, known, sent, server, misread>>

\* The connection breaks, or the peer closes it or does not answer within the ten
\* seconds of a read: every step maps it to its own class.
NetworkError ==
  /\ step \notin {"done", "failed"}
  /\ Fail(IF step \in {"challenge", "verdict"} THEN "auth" ELSE "transient", "network")

Tcp == step = "tcp" /\ GoTo(IF mode = "client" THEN "features" ELSE "streamId")

Features ==
  /\ step = "features"
  /\ GoTo("proceed") \/ Fail("config", "capability")

Proceed == step = "proceed" /\ (GoTo("tls") \/ Fail("transient", "refused"))

\* The certificate may not do.
Tls == step = "tls" /\ (GoTo("mechanisms") \/ Fail("transient", "refused"))

\* SCRAM-SHA-1 before PLAIN, whatever the server's order.
ChooseMechanism ==
  /\ step = "mechanisms"
  /\ \E offered \in SUBSET Mechanisms :
       IF "SCRAM-SHA-1" \in offered THEN GoTo("challenge")
       ELSE IF "PLAIN" \in offered THEN GoTo("verdict")
       ELSE Fail("config", "capability")

\* The server's challenge must be one, and hold our nonce.
Challenge ==
  /\ step = "challenge"
  /\ \/ GoTo("verdict")
     \/ \E why \in {"credentials", "refused"} : Fail("auth", why)

\* A failure is a failure, whether the password is wrong or the server is not ready.
Verdict ==
  /\ step = "verdict"
  /\ \/ GoTo("reopen")
     \/ \E why \in {"credentials", "refused"} : Fail("auth", why)

Reopen == step = "reopen" /\ GoTo("bind")

\* The first iq that comes is taken for the answer; without a JID it is a failure.
Bind == step = "bind" /\ (GoTo("roster") \/ Fail("transient", "refused"))

\* The same here, but without items the roster is just empty.  Every read is decoded on
\* its own: of a character that is cut in two the JID is not what it was.
ReadRoster ==
  /\ step = "roster" /\ step' = "presence"
  /\ \E lost \in SUBSET roster :
       /\ lost \subseteq Wide \/ lost = roster
       /\ known' = roster \ lost /\ misread' = misread \cup lost
  /\ UNCHANGED <<mode, err, cause, next, sent, server>>

Presence == step = "presence" /\ GoTo("subscribe")

Skips_Bug(j) == j = Wildcard   \* asks everybody again

Skips(j) == j = Wildcard \/ j \in known

SkipJid_StopsBug ==   \* break instead of continue at the wildcard
  /\ step = "subscribe" /\ next <= Len(Allowed) /\ Skips(Allowed[next])
  /\ next' = IF Allowed[next] = Wildcard THEN Len(Allowed) + 1 ELSE next + 1
  /\ UNCHANGED <<mode, step, err, cause, known, sent, server, misread>>

SkipJid ==
  /\ step = "subscribe" /\ next <= Len(Allowed) /\ Skips(Allowed[next])
  /\ next' = next + 1
  /\ UNCHANGED <<mode, step, err, cause, known, sent, server, misread>>

\* What is written may reach the server or be lost with the connection.
Subscribe ==
  /\ step = "subscribe" /\ next <= Len(Allowed) /\ ~Skips(Allowed[next])
  /\ next' = next + 1 /\ sent' = sent \cup {Allowed[next]}
  /\ \/ /\ roster' = roster \cup {Allowed[next]}
        /\ asked' = [asked EXCEPT ![Allowed[next]] = IF @ < MaxAsked THEN @ + 1 ELSE @]
     \/ UNCHANGED server
  /\ UNCHANGED <<mode, step, err, cause, known, misread>>

Subscribed == step = "subscribe" /\ next > Len(Allowed) /\ GoTo("done")

\* component.rs: a single read has to bring the id of the stream, and a single read
\* the whole answer to the handshake.  Anything else than success is "auth".
StreamId == step = "streamId" /\ (GoTo("handshake") \/ Fail("transient", "refused"))

ComponentHandshake ==
  /\ step = "handshake"
  /\ \/ GoTo("done")
     \/ \E why \in {"credentials", "refused"} : Fail("auth", why)

\* The program calls connect() again: nothing of the old attempt is left.
Retry ==
  /\ step' = "tcp" /\ err' = "transient" /\ cause' = "none"
  /\ next' = 1 /\ known' = {} /\ sent' = {}
  /\ UNCHANGED <<mode, server, misread>>

Attempt ==
  \/ Tcp \/ Features \/ Proceed \/ Tls \/ ChooseMechanism \/ Challenge \/ Verdict
  \/ Reopen \/ Bind \/ ReadRoster \/ Presence \/ SkipJid \/ Subscribe \/ Subscribed
  \/ StreamId \/ ComponentHandshake
  \/ NetworkError

HandshakeInit ==
  /\ mode \in Modes /\ step = "tcp" /\ err = "transient" /\ cause = "none"
  /\ next = 1 /\ known = {} /\ sent = {} /\ misread = {}
  /\ roster \in SUBSET (Jids \cup Strangers)
  /\ asked = [j \in Jids |-> 0]

----------------------------------------------------------------------------
\* Properties

HandshakeTypeOK ==
  /\ mode \in Modes /\ step \in Steps /\ err \in Errors /\ cause \in Causes
  /\ next \in 1..(Len(Allowed) + 1) /\ sent \in SUBSET Jids
  /\ known \in SUBSET (Jids \cup Strangers) /\ roster \in SUBSET (Jids \cup Strangers)
  /\ asked \in [Jids -> 0..MaxAsked] /\ misread \in SUBSET (Jids \cup Strangers)

\* The comment of Phase 9, "Subscribe to allowed JIDs not already in roster", over
\* any number of attempts that fail half-way: nobody gets a second request, except those
\* whose entry was not read as such.
AsksOnce == \A j \in Jids : asked[j] <= 1 \/ j \in misread

\* A connection of a client that is up has everyone it listens to in its roster, or
\* has asked them.
AllAsked == (mode = "client" /\ step = "done") => Jids \subseteq known \cup sent

\* xmpp/mod.rs:18 "Authentication failure (bad credentials) - permanent": what ends the
\* program as such is that.
AuthMeansCredentials == (step = "failed" /\ err = "auth") => cause = "credentials"
=============================================================================
