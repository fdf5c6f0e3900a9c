------------------------- MODULE KnowledgeStoreProofs -------------------------
(***************************************************************************)
(* What KnowledgeStore says for every number of keys, calls and cuts.      *)
(***************************************************************************)
EXTENDS KnowledgeStore, Inductions

----------------------------------------------------------------------------
\* The inductive invariant

\* The entries somebody can read in a file, and those of a sequence.
Live(ls)    == {ls[i] : i \in {j \in DOMAIN ls : ~Torn(ls[j])}}
Members(es) == {es[i] : i \in DOMAIN es}
Whole(es)   == \A i \in DOMAIN es : ~Torn(es[i])

\* No key twice among the lines that can be read.
OneEach(ls) ==
  \A i, j \in DOMAIN ls : (~Torn(ls[i]) /\ ~Torn(ls[j]) /\ ls[i].key = ls[j].key) => i = j

\* Among the entries E, k has the value v, or none.
Has(E, k, v) == IF v = Nothing THEN \A e \in E : e.key # k ELSE [key |-> k, content |-> v] \in E

LastLine == lines[Len(lines)]

StoreTypes ==
  /\ lines \in Seq(Entries) /\ ended \in BOOLEAN /\ pc \in Stages
  /\ entry \in Entries /\ out \in Seq(Entries)
  /\ calls \in 0..MaxCalls /\ cuts \in Nat /\ forgets \in Nat
  /\ promise \in [Keys -> Values \cup {Nothing}] /\ hurt \in SUBSET Keys
  /\ ended \/ lines # <<>>
  /\ OneEach(lines)

\* Only a cut leaves a line without its newline between the calls, and then the promise of
\* its key is not kept.
Cuts ==
  /\ pc = "newline" => ~ended
  /\ cuts = 0 => hurt = {} /\ Whole(lines) /\ (ended \/ pc = "newline")
  /\ (~ended /\ pc # "newline") => Torn(LastLine) \/ LastLine.key \in hurt

\* What remains to be written is fit to be: one entry for each of its keys.
Outgoing ==
  /\ pc # "idle" => ~Torn(entry)
  /\ pc \in {"create", "append", "text", "newline"} => out # <<>> /\ Whole(out) /\ OneEach(out)
  /\ pc = "append" => out = <<entry>>

\* Where the entries are at each stage.
Reading ==
  pc \in {"idle", "load", "create", "append"} =>
    \A k \in Keys \ hurt : Has(Live(lines), k, promise[k])

Creating ==
  pc = "create" =>
    /\ entry \in Members(out)
    /\ \A e \in Entries : e.key # entry.key => (e \in Members(out) <=> e \in Live(lines))

\* The file and the entries rest, which still have to be written, hold together what they
\* should.
Together(rest) ==
  /\ \A e \in Live(lines), f \in Members(rest) : e.key # f.key
  /\ \A k \in Keys \ (hurt \cup {entry.key}) : Has(Live(lines) \cup Members(rest), k, promise[k])

Writing ==
  /\ pc = "append" => \A e \in Live(lines) : e.key # entry.key
  /\ pc = "text" =>
       /\ Together(out) /\ entry \in Live(lines) \cup Members(out)
       /\ ~ended => out = <<entry>>
  /\ pc = "newline" =>
       /\ Together(Tail(out))
       /\ IF Torn(LastLine) THEN Len(out) = 1
                            ELSE LastLine = Head(out)
                                /\ entry \in Live(lines) \cup Members(Tail(out))

StoreInv == StoreTypes /\ Cuts /\ Outgoing /\ Reading /\ Creating /\ Writing

----------------------------------------------------------------------------
\* The operators

\* What load_knowledge returns: the entries that can be read, none twice.
LEMMA LoadFacts ==
  ASSUME NEW ls \in Seq(Entries)
  PROVE  /\ Load(ls) \in Seq(Entries) /\ Whole(Load(ls)) /\ Members(Load(ls)) = Live(ls)
         /\ OneEach(ls) => OneEach(Load(ls))
<1> DEFINE K == {i \in DOMAIN ls : ~Torn(ls[i])}
           r == Load(ls)
<1>1. r = Select(ls, K) /\ DOMAIN ls = 1..Len(ls)
  BY DEF Load
<1>2. r \in Seq(Entries)
  <2>1. Select(ls, K) \in Seq(Entries)
    BY SelectType
  <2>. QED BY <1>1, <2>1
<1>3. PICK h : Picks(h, r, ls, K, Len(ls))
  <2>1. \E h : Picks(h, Select(ls, K), ls, K, Len(ls))
    BY SelectPicks
  <2>. QED BY <1>1, <2>1
<1>. HIDE DEF r
<1>4. DOMAIN r = 1..Len(r)
  BY <1>2
<1>5. /\ \A i \in DOMAIN r : h[i] \in DOMAIN ls /\ ~Torn(ls[h[i]]) /\ r[i] = ls[h[i]]
      /\ \A k \in DOMAIN ls : ~Torn(ls[k]) => \E i \in DOMAIN r : h[i] = k
      /\ \A i, j \in DOMAIN r : h[i] = h[j] => i = j
  <2>1. /\ \A i \in DOMAIN r : h[i] \in DOMAIN ls /\ h[i] \in K /\ r[i] = ls[h[i]]
        /\ \A k \in DOMAIN ls : k \in K => \E i \in DOMAIN r : h[i] = k
    BY <1>1, <1>3, <1>4 DEF Picks
  <2>2. ASSUME NEW i \in DOMAIN r, NEW j \in DOMAIN r, h[i] = h[j] PROVE i = j
    <3>1. i \in Nat /\ j \in Nat /\ h[i] \in Nat /\ (i < j => h[i] < h[j]) /\ (j < i => h[j] < h[i])
      BY <1>3, <1>4 DEF Picks
    <3>. QED BY <2>2, <3>1
  <2>. QED BY <2>1, <2>2
<1>6. Whole(r) /\ Members(r) = Live(ls)
  BY <1>5 DEF Whole, Members, Live
<1>7. OneEach(ls) => OneEach(r)
  BY <1>5 DEF OneEach
<1>. QED BY <1>2, <1>6, <1>7 DEF r

\* The value found for a key is the one of its only entry.
LEMMA GetFacts ==
  ASSUME NEW ls \in Seq(Entries), OneEach(ls), NEW k \in Keys, NEW v \in Values \cup {Nothing},
         Has(Live(ls), k, v)
  PROVE  Get(ls, k) = v
<1> DEFINE es    == Load(ls)
           found == {i \in DOMAIN es : es[i].key = k}
<1>1. /\ es \in Seq(Entries) /\ Whole(es) /\ Members(es) = Live(ls) /\ OneEach(es)
      /\ Get(ls, k) =
           IF found = {} THEN Nothing
           ELSE es[CHOOSE i \in found : \A j \in found : i <= j].content
  BY LoadFacts DEF Get
<1>. HIDE DEF es
<1>2. CASE v = Nothing
  <2>1. found = {}
    BY <1>1, <1>2 DEF Has, Members
  <2>. QED BY <1>1, <1>2, <2>1
<1>3. CASE v # Nothing
  <2>1. PICK i \in DOMAIN es : es[i] = [key |-> k, content |-> v]
    BY <1>1, <1>3 DEF Has, Members
  <2>2. i \in found /\ \A j \in found : j = i
    BY <1>1, <2>1 DEF OneEach, Whole
  <2>3. i \in Nat
    BY <1>1
  <2>4. (CHOOSE j \in found : \A m \in found : j <= m) = i
    <3>. HIDE DEF found
    <3>. QED BY <2>2, <2>3
  <2>. QED BY <1>1, <2>1, <2>2, <2>4
<1>. QED BY <1>2, <1>3

LEMMA AppendFacts ==
  ASSUME NEW ls \in Seq(Entries), NEW e \in Entries, ~Torn(e)
  PROVE  /\ Append(ls, e) \in Seq(Entries) /\ Live(Append(ls, e)) = Live(ls) \cup {e}
         /\ Append(ls, e) # <<>> /\ Append(ls, e)[Len(Append(ls, e))] = e
         /\ Whole(ls) => Whole(Append(ls, e))
         /\ (OneEach(ls) /\ \A f \in Live(ls) : f.key # e.key) => OneEach(Append(ls, e))
<1> DEFINE t == Append(ls, e)
<1>1. /\ t \in Seq(Entries) /\ DOMAIN ls = 1..Len(ls) /\ DOMAIN t = 1..(Len(ls) + 1)
      /\ Len(ls) \in Nat
      /\ Len(t) = Len(ls) + 1 /\ t[Len(ls) + 1] = e /\ (\A i \in DOMAIN ls : t[i] = ls[i])
      /\ t # <<>>
      /\ DOMAIN t = DOMAIN ls \cup {Len(ls) + 1} /\ Len(ls) + 1 \notin DOMAIN ls
  OBVIOUS
<1>. HIDE DEF t
<1>2. Live(t) = Live(ls) \cup {e}
  BY <1>1 DEF Live
<1>3. Whole(ls) => Whole(t)
  BY <1>1 DEF Whole
<1>4. (OneEach(ls) /\ \A f \in Live(ls) : f.key # e.key) => OneEach(t)
  <2>1. \A i \in DOMAIN ls : ~Torn(ls[i]) => ls[i] \in Live(ls)
    BY DEF Live
  <2>. QED BY <1>1, <2>1 DEF OneEach
<1>. QED BY <1>1, <1>2, <1>3, <1>4 DEF t

\* A text behind a line that has not ended: nobody can read that line any more.
LEMMA TornFacts ==
  ASSUME NEW ls \in Seq(Entries), ls # <<>>
  PROVE  LET t == [ls EXCEPT ![Len(ls)].content = Nothing] IN
         /\ t \in Seq(Entries) /\ t # <<>> /\ Torn(t[Len(t)])
         /\ Live(t) \subseteq Live(ls) /\ Live(ls) \subseteq Live(t) \cup {ls[Len(ls)]}
         /\ Torn(ls[Len(ls)]) => Live(t) = Live(ls)
         /\ OneEach(ls) => OneEach(t)
<1> DEFINE t == [ls EXCEPT ![Len(ls)].content = Nothing]
           n == Len(ls)
<1>1. /\ n \in DOMAIN ls /\ DOMAIN ls = 1..n /\ n \in Nat /\ \A i \in DOMAIN ls : ls[i] \in Entries
  OBVIOUS
<1>2. t = [ls EXCEPT ![n] = [ls[n] EXCEPT !.content = Nothing]]
      /\ [ls[n] EXCEPT !.content = Nothing] \in Entries
      /\ [ls[n] EXCEPT !.content = Nothing].content = Nothing
  BY <1>1 DEF Entries
<1>3. /\ DOMAIN t = DOMAIN ls /\ t[n].content = Nothing /\ t[n] \in Entries
      /\ \A i \in DOMAIN ls : i # n => t[i] = ls[i]
  BY <1>1, <1>2
<1>4. t \in Seq(Entries) /\ Len(t) = n /\ t # <<>>
  BY <1>1, <1>2, <1>3
<1>. HIDE DEF t, n
<1>5. /\ Torn(t[n])
      /\ Live(t) \subseteq Live(ls) /\ Live(ls) \subseteq Live(t) \cup {ls[n]}
      /\ Torn(ls[n]) => Live(t) = Live(ls)
      /\ OneEach(ls) => OneEach(t)
  <2>1. Torn(t[n])
    BY <1>3 DEF Torn
  <2>. QED BY <1>1, <1>3, <2>1 DEF Live, OneEach
<1>. QED BY <1>4, <1>5 DEF t, n

LEMMA TailFacts ==
  ASSUME NEW es \in Seq(Entries), es # <<>>, Whole(es), OneEach(es)
  PROVE  /\ Head(es) \in Entries /\ ~Torn(Head(es)) /\ Head(es) \in Members(es)
         /\ Tail(es) \in Seq(Entries) /\ Whole(Tail(es)) /\ OneEach(Tail(es))
         /\ Members(es) = {Head(es)} \cup Members(Tail(es))
         /\ \A f \in Members(Tail(es)) : f.key # Head(es).key
         /\ Tail(es) = <<>> <=> Len(es) = 1
         /\ Tail(es) = <<>> <=> ~(Len(es) > 1)
<1> DEFINE t == Tail(es)
<1>1. /\ t \in Seq(Entries) /\ Len(t) = Len(es) - 1 /\ Len(es) \in Nat \ {0}
      /\ DOMAIN es = 1..Len(es)
      /\ DOMAIN t = 1..(Len(es) - 1) /\ (\A i \in 1..(Len(es) - 1) : t[i] = es[i + 1])
      /\ Head(es) = es[1] /\ es[1] \in Entries /\ (t = <<>> <=> Len(es) = 1)
  <2>1. Len(es) \in Nat \ {0} /\ DOMAIN es = 1..Len(es) /\ Head(es) = es[1] /\ es[1] \in Entries
    OBVIOUS
  <2>2. t \in Seq(Entries) /\ Len(t) = Len(es) - 1
    OBVIOUS
  <2>3. \A i \in 1..(Len(es) - 1) : t[i] = es[i + 1]
    OBVIOUS
  <2>4. DOMAIN t = 1..Len(t) /\ (t = <<>> <=> Len(t) = 0)
    <3>. HIDE DEF t
    <3>1. t \in Seq(Entries)
      BY <2>2
    <3>2. DOMAIN t = 1..Len(t)
      BY <3>1
    <3>3. t = <<>> <=> Len(t) = 0
      BY <3>1
    <3>. QED BY <3>2, <3>3
  <2>. QED BY <2>1, <2>2, <2>3, <2>4
<1>. HIDE DEF t
<1>2. /\ \A i \in DOMAIN t : i + 1 \in DOMAIN es /\ t[i] = es[i + 1] /\ i + 1 # 1
      /\ \A i \in DOMAIN es : i # 1 => i - 1 \in DOMAIN t /\ t[i - 1] = es[i]
      /\ 1 \in DOMAIN es
      /\ \A i, j \in DOMAIN t : i + 1 = j + 1 => i = j
  <2>1. \A i \in DOMAIN es : i # 1 => i - 1 \in DOMAIN t /\ (i - 1) + 1 = i
    BY <1>1
  <2>2. \A i \in DOMAIN t : i + 1 \in DOMAIN es /\ t[i] = es[i + 1] /\ i + 1 # 1
    BY <1>1
  <2>. QED BY <1>1, <2>1, <2>2
<1>3. Whole(t) /\ OneEach(t) /\ ~Torn(es[1])
  BY <1>2 DEF Whole, OneEach
<1>4. es[1] \in Members(es) /\ Members(es) = {es[1]} \cup Members(t)
  BY <1>2 DEF Members
<1>5. \A f \in Members(t) : f.key # es[1].key
  BY <1>2 DEF Members, OneEach, Whole
<1>6. t = <<>> <=> ~(Len(es) > 1)
  BY <1>1
<1>. QED BY <1>1, <1>3, <1>4, <1>5, <1>6 DEF t

LEMMA ReplacedFacts ==
  ASSUME NEW es \in Seq(Entries), Whole(es), OneEach(es), entry \in Entries, ~Torn(entry),
         entry.key \in KeysOf(es)
  PROVE  /\ Replaced(es) \in Seq(Entries) /\ Replaced(es) # <<>>
         /\ Whole(Replaced(es)) /\ OneEach(Replaced(es)) /\ entry \in Members(Replaced(es))
         /\ \A e \in Entries : e.key # entry.key
             => (e \in Members(Replaced(es)) <=> e \in Members(es))
<1> DEFINE r == Replaced(es)
<1>1. /\ DOMAIN r = DOMAIN es
      /\ \A i \in DOMAIN es : r[i] = IF es[i].key = entry.key THEN entry ELSE es[i]
  BY DEF Replaced
<1>2. r \in Seq(Entries)
  BY DEF Replaced
<1>3. PICK m \in DOMAIN es : es[m].key = entry.key
  BY DEF KeysOf
<1>. HIDE DEF r
<1>4. r[m] = entry /\ m \in DOMAIN r
  BY <1>1, <1>3
<1>5. r # <<>>
  BY <1>4
<1>6. \A i \in DOMAIN es : r[i].key = es[i].key /\ ~Torn(r[i])
  BY <1>1 DEF Whole
<1>7. Whole(r) /\ OneEach(r)
  BY <1>1, <1>6 DEF Whole, OneEach
<1>8. entry \in Members(r) /\ \A e \in Entries : e.key # entry.key
      => (e \in Members(r) <=> e \in Members(es))
  BY <1>1, <1>4 DEF Members
<1>. QED BY <1>2, <1>5, <1>7, <1>8 DEF r

----------------------------------------------------------------------------
\* The invariant is inductive

LEMMA EntryFacts ==
  /\ \A e \in Entries : e.key \in Keys /\ e.content \in Values \cup {Nothing}
  /\ \A e \in Entries : e = [key |-> e.key, content |-> e.content]
  /\ \A e, f \in Entries : (e.key = f.key /\ e.content = f.content) => e = f
  /\ \A k \in Keys, v \in Values \cup {Nothing} : [key |-> k, content |-> v] \in Entries
  /\ \A k \in Keys, v \in Values : ~Torn([key |-> k, content |-> v])
  /\ Nothing \notin Values
  /\ \A ls : Live(ls) = {} \/ \A e \in Live(ls) : ~Torn(e)
BY KnowledgeAssumption DEF Entries, Values, Nothing, Torn, Live

LEMMA EmptyFacts ==
  /\ <<>> \in Seq(Entries) /\ Live(<<>>) = {} /\ Members(<<>>) = {} /\ Whole(<<>>) /\ OneEach(<<>>)
BY DEF Live, Members, Whole, OneEach

LEMMA InitStore == Init => StoreInv
<1>. SUFFICES ASSUME Init PROVE StoreInv
  OBVIOUS
<1>1. StoreTypes
  BY EntryFacts, EmptyFacts, KnowledgeAssumption DEF Init, StoreTypes, Stages
<1>2. Cuts /\ Outgoing /\ Creating /\ Writing
  BY EmptyFacts DEF Init, Cuts, Outgoing, Creating, Writing
<1>3. Reading
  BY EmptyFacts DEF Init, Reading, Has
<1>. QED BY <1>1, <1>2, <1>3 DEF StoreInv

LEMMA BeginStep ==
  ASSUME StoreInv, NEW k \in Keys, Begin(k)
  PROVE  StoreInv'
<1>1. /\ pc = "idle" /\ pc' = "load" /\ calls' = calls + 1 /\ calls < MaxCalls /\ out' = <<>>
      /\ entry' = [key |-> k, content |-> calls + 1]
      /\ UNCHANGED <<lines, ended, forgets, cuts, promise, hurt>> /\ StoreTypes
  BY DEF Begin, file, counts, ghost, StoreInv
<1>2. calls + 1 \in Values /\ calls + 1 \in 0..MaxCalls
  BY <1>1, KnowledgeAssumption DEF StoreTypes, Values
<1>3. entry' \in Entries /\ ~Torn(entry')
  BY <1>1, <1>2, EntryFacts
<1>4. StoreTypes'
  BY <1>1, <1>2, <1>3, EmptyFacts DEF StoreTypes, Stages
<1>5. Cuts' /\ Outgoing' /\ Creating' /\ Writing'
  BY <1>1, <1>3 DEF StoreInv, Cuts, Outgoing, Creating, Writing, LastLine
<1>6. Reading'
  BY <1>1 DEF StoreInv, Reading
<1>. QED BY <1>4, <1>5, <1>6 DEF StoreInv

LEMMA ReadStep ==
  ASSUME StoreInv, ReadAll
  PROVE  StoreInv'
<1> DEFINE es == Load(lines)
<1>1. /\ pc = "load" /\ UNCHANGED <<lines, ended, entry, calls, forgets, cuts, promise, hurt>>
      /\ StoreTypes /\ lines \in Seq(Entries) /\ OneEach(lines) /\ entry \in Entries /\ ~Torn(entry)
  BY DEF ReadAll, file, counts, ghost, StoreInv, StoreTypes, Outgoing
<1>2. es \in Seq(Entries) /\ Whole(es) /\ OneEach(es) /\ Members(es) = Live(lines)
  BY <1>1, LoadFacts
<1>3. IF entry.key \in KeysOf(es) THEN pc' = "create" /\ out' = Replaced(es)
                                  ELSE pc' = "append" /\ out' = <<entry>>
  BY DEF ReadAll
<1>. HIDE DEF es
<1>4. Reading'
  BY <1>1 DEF StoreInv, Reading
<1>5. pc' \in {"create", "append"}
  BY <1>3
<1>6. Cuts'
  BY <1>1, <1>5 DEF StoreInv, Cuts, LastLine
<1>7. CASE entry.key \in KeysOf(es)
  <2>1. pc' = "create" /\ out' = Replaced(es)
    BY <1>3, <1>7
  <2>2. /\ out' \in Seq(Entries) /\ out' # <<>> /\ Whole(out') /\ OneEach(out')
        /\ entry \in Members(out')
        /\ \A e \in Entries : e.key # entry.key => (e \in Members(out') <=> e \in Live(lines))
    BY <1>1, <1>2, <1>7, <2>1, ReplacedFacts
  <2>3. StoreTypes' /\ Outgoing' /\ Creating' /\ Writing'
    BY <1>1, <2>1, <2>2 DEF StoreTypes, Outgoing, Creating, Writing, Stages
  <2>. QED BY <1>4, <1>6, <2>3 DEF StoreInv
<1>8. CASE entry.key \notin KeysOf(es)
  <2>1. pc' = "append" /\ out' = <<entry>>
    BY <1>3, <1>8
  <2>2. <<entry>> \in Seq(Entries) /\ <<entry>> # <<>> /\ Whole(<<entry>>) /\ OneEach(<<entry>>)
    BY <1>1 DEF Whole, OneEach
  <2>3. \A e \in Live(lines) : e.key # entry.key
    BY <1>2, <1>8 DEF KeysOf, Members
  <2>4. StoreTypes' /\ Outgoing' /\ Creating' /\ Writing'
    BY <1>1, <2>1, <2>2, <2>3 DEF StoreTypes, Outgoing, Creating, Writing, Stages
  <2>. QED BY <1>4, <1>6, <2>4 DEF StoreInv
<1>. QED BY <1>7, <1>8

\* Has depends on the entries of one key only.
LEMMA HasSame ==
  ASSUME NEW E \in SUBSET Entries, NEW F \in SUBSET Entries, NEW k \in Keys,
         NEW v \in Values \cup {Nothing}, Has(E, k, v),
         \A e \in Entries : e.key = k => (e \in E <=> e \in F)
  PROVE  Has(F, k, v)
BY EntryFacts DEF Has

LEMMA SetFacts ==
  ASSUME NEW ls \in Seq(Entries)
  PROVE  Live(ls) \subseteq Entries /\ Members(ls) \subseteq Entries
      /\ Live(ls) \subseteq Members(ls)
BY DEF Live, Members

LEMMA OpenStep ==
  ASSUME StoreInv, Open
  PROVE  StoreInv'
<1>1. /\ pc \in {"create", "append"} /\ pc' = "text"
      /\ UNCHANGED <<entry, out, calls, forgets, cuts, promise, hurt>>
      /\ StoreTypes /\ Outgoing /\ Cuts /\ Reading /\ Creating /\ Writing
  BY DEF Open, counts, ghost, StoreInv
<1>2. CASE pc = "create"
  <2>1. lines' = <<>> /\ ended' = TRUE
    BY <1>2 DEF Open
  <2>2. StoreTypes'
    BY <1>1, <2>1, EmptyFacts DEF StoreTypes, Stages
  <2>3. Cuts' /\ Outgoing' /\ Reading' /\ Creating'
    BY <1>1, <2>1, EmptyFacts DEF Cuts, Outgoing, Reading, Creating
  <2>4. ASSUME NEW k \in Keys \ (hurt \cup {entry.key})
        PROVE  Has({} \cup Members(out), k, promise[k])
    <3>1. Has(Live(lines), k, promise[k])
      BY <1>1, <1>2 DEF Reading
    <3>2. \A e \in Entries : e.key = k => (e \in Live(lines) <=> e \in Members(out))
      BY <1>1, <1>2 DEF Creating
    <3>3. Live(lines) \in SUBSET Entries /\ Members(out) \in SUBSET Entries
      BY <1>1, SetFacts DEF StoreTypes
    <3>4. promise[k] \in Values \cup {Nothing}
      BY <1>1 DEF StoreTypes
    <3>5. Has(Members(out), k, promise[k])
      BY <3>1, <3>2, <3>3, <3>4, HasSame
    <3>. QED BY <3>5
  <2>5. Together(out)'
    BY <1>1, <2>1, <2>4, EmptyFacts DEF Together
  <2>6. Writing'
    BY <1>1, <1>2, <2>1, <2>5 DEF Writing, Creating
  <2>. QED BY <2>2, <2>3, <2>6 DEF StoreInv
<1>3. CASE pc = "append"
  <2>1. UNCHANGED <<lines, ended>> /\ out = <<entry>>
    BY <1>1, <1>3 DEF Open, file, Outgoing
  <2>2. StoreTypes'
    BY <1>1, <2>1 DEF StoreTypes, Stages
  <2>3. Cuts' /\ Outgoing' /\ Reading' /\ Creating'
    BY <1>1, <1>3, <2>1 DEF Cuts, Outgoing, Reading, Creating, LastLine
  <2>4. Members(out) = {entry}
    BY <2>1 DEF Members
  <2>5. ASSUME NEW k \in Keys \ (hurt \cup {entry.key})
        PROVE  Has(Live(lines) \cup {entry}, k, promise[k])
    <3>1. Has(Live(lines), k, promise[k])
      BY <1>1, <1>3 DEF Reading
    <3>2. Live(lines) \in SUBSET Entries /\ Live(lines) \cup {entry} \in SUBSET Entries
      BY <1>1, SetFacts DEF StoreTypes
    <3>3. promise[k] \in Values \cup {Nothing}
      BY <1>1 DEF StoreTypes
    <3>. QED BY <3>1, <3>2, <3>3, HasSame
  <2>6. Together(out)'
    BY <1>1, <1>3, <2>1, <2>4, <2>5 DEF Together, Writing
  <2>7. Writing'
    BY <1>1, <2>1, <2>4, <2>6 DEF Writing
  <2>. QED BY <2>2, <2>3, <2>7 DEF StoreInv
<1>. QED BY <1>1, <1>2, <1>3

LEMMA WriteTextStep ==
  ASSUME StoreInv, WriteText
  PROVE  StoreInv'
<1> DEFINE h == Head(out)
           rest == Tail(out)
<1>1. /\ pc = "text" /\ pc' = "newline" /\ ended' = FALSE /\ lines' = WithText(h)
      /\ UNCHANGED <<entry, out, calls, forgets, cuts, promise, hurt>>
      /\ StoreTypes /\ Outgoing /\ Cuts /\ Writing
  BY DEF WriteText, counts, ghost, StoreInv
<1>2. /\ out \in Seq(Entries) /\ out # <<>> /\ Whole(out) /\ OneEach(out)
      /\ Together(out) /\ entry \in Live(lines) \cup Members(out) /\ (~ended => out = <<entry>>)
      /\ lines \in Seq(Entries) /\ OneEach(lines) /\ entry \in Entries
  BY <1>1 DEF StoreTypes, Outgoing, Writing
<1>3. /\ h \in Entries /\ ~Torn(h) /\ h \in Members(out)
      /\ rest \in Seq(Entries) /\ Members(out) = {h} \cup Members(rest)
      /\ \A f \in Members(rest) : f.key # h.key
  BY <1>2, TailFacts
<1>. HIDE DEF h, rest
<1>4. Outgoing' /\ Reading' /\ Creating'
  BY <1>1 DEF Outgoing, Reading, Creating
<1>5. Tail(out)' = rest /\ Head(out)' = h
  BY <1>1 DEF rest, h
<1>6. CASE ended
  <2>1. lines' = Append(lines, h)
    BY <1>1, <1>6 DEF WithText
  <2>2. \A f \in Live(lines) : f.key # h.key
    BY <1>2, <1>3 DEF Together
  <2>3. /\ lines' \in Seq(Entries) /\ Live(lines') = Live(lines) \cup {h} /\ lines' # <<>>
        /\ lines'[Len(lines')] = h /\ (Whole(lines) => Whole(lines')) /\ OneEach(lines')
    BY <1>2, <1>3, <2>1, <2>2, AppendFacts
  <2>4. StoreTypes'
    BY <1>1, <2>3 DEF StoreTypes, Stages
  <2>5. Cuts'
    BY <1>1, <2>3 DEF Cuts
  <2>6. \A e \in Live(lines'), f \in Members(rest) : e.key # f.key
    BY <1>2, <1>3, <2>3 DEF Together
  <2>7. Live(lines') \cup Members(rest) = Live(lines) \cup Members(out)
    BY <1>3, <2>3
  <2>8. Together(Tail(out))'
    BY <1>1, <1>2, <1>5, <2>6, <2>7 DEF Together
  <2>9. Writing'
    BY <1>1, <1>2, <1>3, <1>5, <2>3, <2>7, <2>8 DEF Writing, LastLine
  <2>. QED BY <1>4, <2>4, <2>5, <2>9 DEF StoreInv
<1>7. CASE ~ended
  <2>1. lines' = [lines EXCEPT ![Len(lines)].content = Nothing] /\ lines # <<>> /\ out = <<entry>>
    BY <1>1, <1>2, <1>7 DEF WithText, StoreTypes
  <2>2. /\ lines' \in Seq(Entries) /\ lines' # <<>> /\ Torn(lines'[Len(lines')])
        /\ Live(lines') \subseteq Live(lines)
        /\ Live(lines) \subseteq Live(lines') \cup {lines[Len(lines)]}
        /\ Torn(lines[Len(lines)]) => Live(lines') = Live(lines)
        /\ OneEach(lines')
    BY <1>2, <2>1, TornFacts
  <2>3. cuts # 0 /\ (Torn(LastLine) \/ LastLine.key \in hurt)
    BY <1>1, <1>7 DEF Cuts
  <2>4. StoreTypes' /\ Cuts'
    BY <1>1, <2>2, <2>3 DEF StoreTypes, Stages, Cuts
  <2>5. Members(rest) = {} /\ Members(out) = {entry} /\ Len(out) = 1
    BY <2>1 DEF rest, Members
  <2>6. ASSUME NEW k \in Keys \ (hurt \cup {entry.key})
        PROVE  Has(Live(lines') \cup Members(rest), k, promise[k])
    <3>1. Has(Live(lines) \cup Members(out), k, promise[k])
      BY <1>2 DEF Together
    <3>2. Live(lines) \cup {entry} \in SUBSET Entries /\ Live(lines') \in SUBSET Entries
      BY <1>2, <2>2, SetFacts
    <3>3. \A e \in Entries : e.key = k => (e \in Live(lines) \cup {entry} <=> e \in Live(lines'))
      BY <2>2, <2>3, <2>6 DEF LastLine
    <3>4. promise[k] \in Values \cup {Nothing}
      BY <1>1 DEF StoreTypes
    <3>5. Has(Live(lines'), k, promise[k])
      BY <2>5, <3>1, <3>2, <3>3, <3>4, HasSame
    <3>. QED BY <2>5, <3>5
  <2>7. Together(Tail(out))'
    BY <1>1, <1>5, <2>5, <2>6 DEF Together
  <2>8. Writing'
    BY <1>1, <2>2, <2>5, <2>7 DEF Writing, LastLine
  <2>. QED BY <1>4, <2>4, <2>8 DEF StoreInv
<1>. QED BY <1>6, <1>7

LEMMA NewlineStep ==
  ASSUME StoreInv, WriteNewline
  PROVE  StoreInv'
<1> DEFINE rest == Tail(out)
<1>1. /\ pc = "newline" /\ ended' = TRUE /\ out' = rest
      /\ UNCHANGED <<lines, entry, calls, forgets, cuts>>
      /\ StoreTypes /\ Outgoing /\ Cuts /\ Writing
  BY DEF WriteNewline, counts, StoreInv
<1>2. /\ out \in Seq(Entries) /\ out # <<>> /\ Whole(out) /\ OneEach(out) /\ Together(rest)
      /\ IF Torn(LastLine) THEN Len(out) = 1 ELSE entry \in Live(lines) \cup Members(rest)
      /\ lines \in Seq(Entries) /\ OneEach(lines) /\ entry \in Entries /\ ~Torn(entry)
  BY <1>1 DEF StoreTypes, Outgoing, Writing
<1>3. /\ rest \in Seq(Entries) /\ Whole(rest) /\ OneEach(rest) /\ (rest = <<>> <=> Len(out) = 1)
      /\ rest = <<>> <=> ~(Len(out) > 1)
  BY <1>2, TailFacts
<1>. HIDE DEF rest
<1>4. CASE Len(out) > 1
  <2>1. pc' = "text" /\ UNCHANGED <<promise, hurt>>
    BY <1>4 DEF WriteNewline, ghost
  <2>2. StoreTypes'
    BY <1>1, <1>3, <2>1 DEF StoreTypes, Stages
  <2>3. Cuts' /\ Reading' /\ Creating'
    BY <1>1, <2>1 DEF Cuts, Reading, Creating
  <2>4. Outgoing'
    <3>1. rest # <<>>
      BY <1>3, <1>4
    <3>. QED BY <1>1, <1>2, <1>3, <2>1, <3>1 DEF Outgoing
  <2>5. Together(out)'
    BY <1>1, <1>2, <2>1 DEF Together
  <2>6. Writing'
    <3>1. ~Torn(LastLine)
      BY <1>2, <1>3, <1>4
    <3>. QED BY <1>1, <1>2, <2>1, <2>5, <3>1 DEF Writing
  <2>. QED BY <2>2, <2>3, <2>4, <2>6 DEF StoreInv
<1>5. CASE ~(Len(out) > 1)
  <2>1. /\ pc' = "idle" /\ promise' = [promise EXCEPT ![entry.key] = entry.content]
        /\ hurt' = IF Torn(LastLine) THEN hurt \cup {entry.key} ELSE hurt \ {entry.key}
    BY <1>5 DEF WriteNewline, LastLine
  <2>2. rest = <<>> /\ Members(rest) = {}
    <3>1. rest = <<>>
      BY <1>3, <1>5
    <3>. QED BY <3>1, EmptyFacts
  <2>3. entry.key \in Keys /\ entry.content \in Values \cup {Nothing} /\ entry.content # Nothing
    BY <1>2, EntryFacts DEF Torn
  <2>4. StoreTypes'
    BY <1>1, <1>3, <2>1, <2>3 DEF StoreTypes, Stages
  <2>5. Cuts'
    <3>1. Whole(lines) => ~Torn(LastLine)
      <4>1. lines # <<>>
        BY <1>1 DEF Cuts, StoreTypes
      <4>2. Len(lines) \in DOMAIN lines
        BY <1>2, <4>1
      <4>. QED BY <4>2 DEF Whole, LastLine
    <3>. QED BY <1>1, <2>1, <3>1 DEF Cuts
  <2>6. Outgoing' /\ Creating' /\ Writing'
    BY <2>1 DEF Outgoing, Creating, Writing
  <2>7. ASSUME NEW k \in Keys \ hurt' PROVE Has(Live(lines), k, promise'[k])
    <3>1. CASE k = entry.key
      <4>1. entry \in Live(lines)
        BY <1>2, <2>1, <2>2, <2>7, <3>1
      <4>2. promise'[k] = entry.content
        BY <1>1, <2>1, <3>1 DEF StoreTypes
      <4>. QED BY <1>2, <2>3, <3>1, <4>1, <4>2, EntryFacts DEF Has
    <3>2. CASE k # entry.key
      <4>1. promise'[k] = promise[k] /\ k \notin hurt
        BY <1>1, <2>1, <2>7, <3>2 DEF StoreTypes
      <4>2. Has(Live(lines) \cup Members(rest), k, promise[k])
        BY <1>2, <3>2, <4>1 DEF Together
      <4>. QED BY <2>2, <4>1, <4>2
    <3>. QED BY <3>1, <3>2
  <2>8. Reading'
    BY <1>1, <2>7 DEF Reading
  <2>. QED BY <2>4, <2>5, <2>6, <2>8 DEF StoreInv
<1>. QED BY <1>4, <1>5

LEMMA CutStep ==
  ASSUME StoreInv, Cut
  PROVE  StoreInv'
<1>1. /\ pc # "idle" /\ pc' = "idle" /\ cuts' = cuts + 1
      /\ UNCHANGED <<lines, ended, entry, out, calls, forgets, promise>>
      /\ StoreTypes /\ Outgoing /\ Cuts /\ Reading /\ Writing
      /\ hurt' = IF pc \in {"text", "newline"} THEN hurt \cup {entry.key} \cup KeysOf(out) ELSE hurt
  BY DEF Cut, file, StoreInv
<1>2. entry.key \in Keys /\ KeysOf(out) \subseteq Keys
  BY <1>1, EntryFacts DEF StoreTypes, KeysOf
<1>3. StoreTypes'
  BY <1>1, <1>2 DEF StoreTypes, Stages
<1>4. Outgoing' /\ Creating' /\ Writing'
  BY <1>1 DEF Outgoing, Creating, Writing
<1>5. Cuts'
  <2>1. cuts' # 0
    BY <1>1 DEF StoreTypes
  <2>2. ASSUME ~ended PROVE Torn(LastLine) \/ LastLine.key \in hurt'
    <3>1. CASE pc # "newline"
      BY <1>1, <2>2, <3>1 DEF Cuts
    <3>2. CASE pc = "newline" /\ ~Torn(LastLine)
      <4>1. LastLine = Head(out) /\ out \in Seq(Entries) /\ out # <<>>
        BY <1>1, <3>2 DEF Writing, Outgoing, StoreTypes
      <4>2. Head(out) = out[1] /\ 1 \in DOMAIN out
        BY <4>1
      <4>. QED BY <1>1, <3>2, <4>1, <4>2 DEF KeysOf
    <3>. QED BY <3>1, <3>2
  <2>. QED BY <1>1, <2>1, <2>2 DEF Cuts, LastLine
<1>6. ASSUME NEW k \in Keys \ hurt' PROVE Has(Live(lines), k, promise[k])
  <2>1. CASE pc \notin {"text", "newline"}
    BY <1>1, <1>6, <2>1 DEF Reading, StoreTypes, Stages
  <2>2. CASE pc \in {"text", "newline"}
    <3>1. k \notin hurt /\ k # entry.key /\ k \notin KeysOf(out)
      BY <1>1, <1>6, <2>2
    <3> DEFINE rest == IF pc = "text" THEN out ELSE Tail(out)
    <3>2. Together(rest)
      BY <1>1, <2>2 DEF Writing
    <3>3. rest \in Seq(Entries) /\ Members(rest) \subseteq Members(out)
      <4>1. /\ out \in Seq(Entries) /\ out # <<>> /\ Whole(out) /\ OneEach(out)
        BY <1>1, <2>2 DEF Outgoing, StoreTypes
      <4>. QED BY <4>1, TailFacts
    <3>. HIDE DEF rest
    <3>4. \A e \in Members(rest) : e.key # k
      BY <3>1, <3>3 DEF KeysOf, Members
    <3>5. Has(Live(lines) \cup Members(rest), k, promise[k])
      BY <3>1, <3>2 DEF Together
    <3>6. Live(lines) \in SUBSET Entries /\ Members(rest) \in SUBSET Entries
          /\ promise[k] \in Values \cup {Nothing}
      BY <1>1, <3>3, SetFacts DEF StoreTypes
    <3>. QED BY <3>4, <3>5, <3>6, HasSame
  <2>. QED BY <2>1, <2>2
<1>7. Reading'
  BY <1>1, <1>6 DEF Reading
<1>. QED BY <1>3, <1>4, <1>5, <1>7 DEF StoreInv

LEMMA ForgetStep ==
  ASSUME StoreInv, Forget
  PROVE  StoreInv'
<1>1. /\ pc = "idle" /\ pc' = "idle" /\ forgets' = forgets + 1 /\ lines' = <<>> /\ ended' = TRUE
      /\ promise' = [k \in Keys |-> Nothing] /\ hurt' = {} /\ UNCHANGED <<entry, out, calls, cuts>>
      /\ StoreTypes
  BY DEF Forget, call, StoreInv
<1>2. StoreTypes'
  BY <1>1, EmptyFacts DEF StoreTypes
<1>3. Cuts' /\ Outgoing' /\ Creating' /\ Writing'
  BY <1>1, EmptyFacts DEF Cuts, Outgoing, Creating, Writing
<1>4. Reading'
  BY <1>1, EmptyFacts DEF Reading, Has
<1>. QED BY <1>2, <1>3, <1>4 DEF StoreInv

LEMMA StepStore == StoreInv /\ [Next]_vars => StoreInv'
<1>. SUFFICES ASSUME StoreInv, [Next]_vars PROVE StoreInv'
  OBVIOUS
<1>1. CASE UNCHANGED vars
  <2>1. UNCHANGED <<lines, ended, pc, entry, out, calls, forgets, cuts, promise, hurt>>
    BY <1>1 DEF vars, file, call, counts, ghost
  <2>. QED BY <2>1 DEF StoreInv, StoreTypes, Cuts, Outgoing, Reading, Creating, Writing,
        Together, LastLine
<1>2. CASE Next
  BY <1>1, <1>2, BeginStep, ReadStep, OpenStep, WriteTextStep, NewlineStep, CutStep,
      ForgetStep DEF Next, Rest
<1>. QED BY <1>1, <1>2

----------------------------------------------------------------------------
\* The properties

\* memory.rs:631: whatever fails, no key has two lines.
THEOREM OneLinePerKeyHolds == Spec => []OneLinePerKey
<1>1. StoreInv => OneLinePerKey
  BY DEF StoreInv, StoreTypes, OneEach, OneLinePerKey
<1>. QED BY InitStore, StepStore, <1>1, PTL DEF Spec

\* skills/builtin/memory.rs:25: a key is found with the value that was last stored, unless a
\* call was cut off that had it still to write, or had left a line without its newline;
\* without such a call nothing is ever lost.
THEOREM PromiseKeptHolds == Spec => []PromiseKept
<1>1. StoreInv => PromiseKept
  <2>. SUFFICES ASSUME StoreInv, pc = "idle"
                PROVE  (\A k \in Keys \ hurt : Get(lines, k) = promise[k])
                    /\ (cuts = 0 => hurt = {})
    BY DEF PromiseKept
  <2>1. StoreTypes /\ Cuts /\ \A k \in Keys \ hurt : Has(Live(lines), k, promise[k])
    BY DEF StoreInv, Reading
  <2>2. ASSUME NEW k \in Keys \ hurt PROVE Get(lines, k) = promise[k]
    BY <2>1, GetFacts DEF StoreTypes
  <2>. QED BY <2>1, <2>2 DEF Cuts
<1>. QED BY InitStore, StepStore, <1>1, PTL DEF Spec

=============================================================================
