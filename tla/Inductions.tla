----------------------------- MODULE Inductions -----------------------------
(***************************************************************************)
(* Induction over the natural numbers in a first-order form: a set of      *)
(* numbers that holds 0 and every successor holds them all, and a function *)
(* defined by its predecessor's value exists. From these two, what the     *)
(* loops over the lines of a file (Lines!Select) return, for files of any  *)
(* length.                                                                 *)
(***************************************************************************)
EXTENDS Lines, FiniteSetTheorems, TLAPS

\* A set of natural numbers that is not empty has a least element.
LEMMA LeastNumber ==
  ASSUME NEW T, T \subseteq Nat, T # {}
  PROVE  \E m \in T : \A k \in T : m <= k
<1> DEFINE Below(k) == 0..k
<1>1. PICK n \in T : TRUE
  OBVIOUS
<1> DEFINE S == 0..n
           U == {0..k : k \in {i \in T : i <= n}}
<1>2. IsWellFoundedOn(StrictSubsetOrdering(S), FiniteSubsetsOf(S))
  BY FS_StrictSubsetOrderingWellFounded
<1>3. U # {}
  BY <1>1
<1>4. U \subseteq FiniteSubsetsOf(S)
  <2>1. \A k \in Nat : IsFiniteSet(0..k)
    BY FS_Interval
  <2>. QED BY <2>1 DEF FiniteSubsetsOf
<1>5. PICK x \in U : \A y \in U : <<y, x>> \notin StrictSubsetOrdering(S)
  <2>. HIDE DEF U, S
  <2>. QED BY <1>2, <1>3, <1>4, WFMin
<1>6. PICK m \in T : m <= n /\ x = 0..m
  BY <1>5
<1>7. ASSUME NEW k \in T, k < m PROVE FALSE
  <2>1. 0..k \in U
    BY <1>6, <1>7
  <2>2. 0..k \subseteq 0..m /\ m \in 0..m /\ m \notin 0..k
    BY <1>6, <1>7
  <2>3. (0..k) \subseteq S /\ (0..m) \subseteq S
    BY <1>6, <1>7
  <2>4. <<0..k, 0..m>> \in StrictSubsetOrdering(S)
    BY <2>2, <2>3 DEF StrictSubsetOrdering
  <2>. QED BY <2>1, <2>4, <1>5, <1>6
<1>. QED BY <1>6, <1>7

LEMMA Induction ==
  ASSUME NEW T, 0 \in T, \A n \in Nat : n \in T => n + 1 \in T
  PROVE  Nat \subseteq T
<1>. SUFFICES ASSUME Nat \ T # {} PROVE FALSE
  OBVIOUS
<1>1. PICK m \in Nat \ T : \A k \in Nat \ T : m <= k
  BY LeastNumber
<1>2. m # 0 /\ m - 1 \in Nat /\ m - 1 \in T
  BY <1>1
<1>. QED BY <1>1, <1>2

\* The sequence of values that step makes from a.
Iterates(g, S, a, step) ==
  g \in [Nat -> S] /\ g[0] = a /\ \A n \in Nat : g[n + 1] = step[<<n, g[n]>>]

\* A function may be defined by its value at 0 and the step from n to n + 1.
LEMMA Recursion ==
  ASSUME NEW S, NEW a \in S, NEW step \in [Nat \X S -> S]
  PROVE  \E g : Iterates(g, S, a, step)
<1> DEFINE Up(n, g) == g[0] = a /\ \A i \in 0..(n - 1) : g[i + 1] = step[<<i, g[i]>>]
           T == {n \in Nat : \E g \in [Nat -> S] : Up(n, g)}
<1>1. 0 \in T
  <2>1. [n \in Nat |-> a] \in [Nat -> S] /\ Up(0, [n \in Nat |-> a])
    OBVIOUS
  <2>. QED BY <2>1
<1>2. ASSUME NEW n \in Nat, n \in T PROVE n + 1 \in T
  <2>1. PICK g \in [Nat -> S] : Up(n, g)
    BY <1>2
  <2> DEFINE h == [g EXCEPT ![n + 1] = step[<<n, g[n]>>]]
  <2>2. h \in [Nat -> S]
    OBVIOUS
  <2>3. Up(n + 1, h)
    BY <2>1
  <2>4. \E f \in [Nat -> S] : Up(n + 1, f)
    <3>. HIDE DEF h, Up
    <3>. QED BY <2>2, <2>3
  <2>. QED BY <2>4
<1>3. Nat \subseteq T
  <2>. HIDE DEF T
  <2>. QED BY <1>1, <1>2, Induction
<1>4. \A n \in Nat : \E g \in [Nat -> S] : Up(n, g)
  BY <1>3
<1> DEFINE G(n) == CHOOSE g \in [Nat -> S] : Up(n, g)
<1>5. \A n \in Nat : G(n) \in [Nat -> S] /\ Up(n, G(n))
  <2>. HIDE DEF Up
  <2>. QED BY <1>4
<1>6. ASSUME NEW g \in [Nat -> S], NEW h \in [Nat -> S], NEW n \in Nat, NEW k \in Nat,
             Up(n, g), Up(k, h)
      PROVE  \A i \in Nat : (i <= n /\ i <= k) => g[i] = h[i]
  <2> DEFINE E == {i \in Nat : (i <= n /\ i <= k) => g[i] = h[i]}
  <2>1. 0 \in E
    BY <1>6
  <2>2. ASSUME NEW i \in Nat, i \in E PROVE i + 1 \in E
    <3>. SUFFICES ASSUME i + 1 <= n, i + 1 <= k PROVE g[i + 1] = h[i + 1]
      OBVIOUS
    <3>1. g[i] = h[i]
      BY <2>2
    <3>2. i \in 0..(n - 1) /\ i \in 0..(k - 1)
      OBVIOUS
    <3>. QED BY <1>6, <3>1, <3>2
  <2>3. Nat \subseteq E
    <3>. HIDE DEF E
    <3>. QED BY <2>1, <2>2, Induction
  <2>. QED BY <2>3
<1> DEFINE f == [n \in Nat |-> G(n)[n]]
<1> HIDE DEF G
<1>7. f \in [Nat -> S] /\ f[0] = a
  BY <1>5
<1>8. ASSUME NEW n \in Nat PROVE f[n + 1] = step[<<n, f[n]>>]
  <2>1. G(n + 1)[n + 1] = step[<<n, G(n + 1)[n]>>]
    BY <1>5
  <2>2. G(n + 1)[n] = G(n)[n]
    <3>1. /\ G(n + 1) \in [Nat -> S] /\ Up(n + 1, G(n + 1))
          /\ G(n) \in [Nat -> S] /\ Up(n, G(n))
      BY <1>5
    <3>. HIDE DEF Up
    <3>. QED BY <3>1, <1>6
  <2>. QED BY <2>1, <2>2
<1>. QED BY <1>7, <1>8 DEF Iterates

\* What is selected from the first n elements, for each n.
Selects(g, S, s, K) ==
  /\ g \in [Nat -> Seq(S)] /\ g[0] = <<>> /\ Select(s, K) = g[Len(s)]
  /\ \A n \in Nat : n < Len(s) =>
       g[n + 1] = IF n + 1 \in K THEN Append(g[n], s[n + 1]) ELSE g[n]

LEMMA SelectUnfolds ==
  ASSUME NEW S, NEW s \in Seq(S), NEW K
  PROVE  \E g : Selects(g, S, s, K)
<1> DEFINE step == [z \in Nat \X Seq(S) |->
                      IF z[1] < Len(s) /\ z[1] + 1 \in K THEN Append(z[2], s[z[1] + 1]) ELSE z[2]]
<1>1. step \in [Nat \X Seq(S) -> Seq(S)]
  OBVIOUS
<1>1a. \A n \in Nat, d \in Seq(S) : step[<<n, d>>] =
         IF n < Len(s) /\ n + 1 \in K THEN Append(d, s[n + 1]) ELSE d
  OBVIOUS
<1>1b. <<>> \in Seq(S)
  OBVIOUS
<1> HIDE DEF step
<1>1c. \E g : Iterates(g, Seq(S), <<>>, step)
  BY <1>1, <1>1b, Recursion
<1>2. PICK g \in [Nat -> Seq(S)] : g[0] = <<>> /\ \A n \in Nat : g[n + 1] = step[<<n, g[n]>>]
  BY <1>1c DEF Iterates
<1>3. ASSUME NEW n \in 1..Len(s)
      PROVE  g[n] = IF n \in K THEN Append(g[n - 1], s[n]) ELSE g[n - 1]
  <2>1. n - 1 \in Nat /\ (n - 1) + 1 = n /\ g[n - 1] \in Seq(S) /\ n - 1 < Len(s)
    OBVIOUS
  <2>2. g[n] = step[<<n - 1, g[n - 1]>>]
    BY <1>2, <2>1
  <2>3. step[<<n - 1, g[n - 1]>>] =
          IF n - 1 < Len(s) /\ (n - 1) + 1 \in K THEN Append(g[n - 1], s[(n - 1) + 1]) ELSE g[n - 1]
    BY <1>1a, <2>1
  <2>. QED BY <2>1, <2>2, <2>3
<1> DEFINE Fun(F) == F = [n \in 0..Len(s) |->
              IF n = 0 THEN <<>> ELSE IF n \in K THEN Append(F[n - 1], s[n]) ELSE F[n - 1]]
           h == [n \in 0..Len(s) |-> g[n]]
           F == CHOOSE F : Fun(F)
<1>4. Fun(h)
  <2>1. ASSUME NEW n \in 0..Len(s)
        PROVE  h[n] = IF n = 0 THEN <<>> ELSE IF n \in K THEN Append(h[n - 1], s[n]) ELSE h[n - 1]
    <3>1. CASE n = 0
      BY <1>2, <3>1
    <3>2. CASE n # 0
      <4>1. n \in 1..Len(s) /\ n - 1 \in 0..Len(s)
        BY <3>2
      <4>. QED BY <1>3, <3>2, <4>1
    <3>. QED BY <3>1, <3>2
  <2>. QED BY <2>1
<1>5. Fun(F)
  <2>. HIDE DEF Fun
  <2>. QED BY <1>4
<1>6. Select(s, K) = F[Len(s)]
  BY DEF Select
<1> HIDE DEF F
<1>7. \A n \in Nat : n <= Len(s) => F[n] = g[n]
  <2> DEFINE E == {n \in Nat : n <= Len(s) => F[n] = g[n]}
  <2>1. 0 \in E
    BY <1>2, <1>5
  <2>2. ASSUME NEW n \in Nat, n \in E PROVE n + 1 \in E
    <3>. SUFFICES ASSUME n + 1 <= Len(s) PROVE F[n + 1] = g[n + 1]
      OBVIOUS
    <3>1. /\ F[n] = g[n] /\ n + 1 \in 1..Len(s) /\ n + 1 \in 0..Len(s)
          /\ n + 1 # 0 /\ (n + 1) - 1 = n
      BY <2>2
    <3>2. F[n + 1] = IF n + 1 \in K THEN Append(F[n], s[n + 1]) ELSE F[n]
      BY <1>5, <3>1
    <3>. QED BY <1>3, <3>1, <3>2
  <2>3. Nat \subseteq E
    <3>. HIDE DEF E
    <3>. QED BY <2>1, <2>2, Induction
  <2>. QED BY <2>3
<1>8. Select(s, K) = g[Len(s)]
  BY <1>6, <1>7
<1>9. ASSUME NEW n \in Nat, n < Len(s)
      PROVE  g[n + 1] = IF n + 1 \in K THEN Append(g[n], s[n + 1]) ELSE g[n]
  <2>1. n + 1 \in 1..Len(s) /\ (n + 1) - 1 = n
    BY <1>9
  <2>. QED BY <1>3, <2>1
<1>10. Selects(g, S, s, K)
  BY <1>2, <1>8, <1>9 DEF Selects
<1>. QED BY <1>10

\* The elements selected are elements of the sequence.
LEMMA SelectType ==
  ASSUME NEW S, NEW s \in Seq(S), NEW K
  PROVE  Select(s, K) \in Seq(S)
<1>1. Len(s) \in Nat
  OBVIOUS
<1>2. PICK g : Selects(g, S, s, K)
  BY SelectUnfolds
<1>. QED BY <1>1, <1>2 DEF Selects

LEMMA SelectEmpty ==
  ASSUME NEW K
  PROVE  Select(<<>>, K) = <<>>
<1>1. <<>> \in Seq({}) /\ Len(<<>>) = 0
  OBVIOUS
<1>2. PICK g : Selects(g, {}, <<>>, K)
  BY <1>1, SelectUnfolds
<1>. QED BY <1>1, <1>2 DEF Selects

\* Two sequences, and two sets of numbers, that are the same up to m.
Agree(s, K, t, L, m) == \A n \in 1..m : s[n] = t[n] /\ (n \in K <=> n \in L)

LEMMA SelectAgrees ==
  ASSUME NEW S, NEW s \in Seq(S), NEW t \in Seq(S), NEW K, NEW L,
         NEW f, Selects(f, S, s, K), NEW g, Selects(g, S, t, L),
         NEW m \in Nat, m <= Len(s), m <= Len(t), Agree(s, K, t, L, m)
  PROVE  f[m] = g[m]
<1> DEFINE E == {n \in Nat : n <= m => f[n] = g[n]}
<1>0. Len(s) \in Nat /\ Len(t) \in Nat
  OBVIOUS
<1>1. 0 \in E
  BY DEF Selects
<1>2. ASSUME NEW n \in Nat, n \in E PROVE n + 1 \in E
  <2>. SUFFICES ASSUME n + 1 <= m PROVE f[n + 1] = g[n + 1]
    OBVIOUS
  <2>1. f[n] = g[n] /\ n + 1 \in 1..m /\ n < Len(s) /\ n < Len(t)
    BY <1>0, <1>2
  <2>2. f[n + 1] = IF n + 1 \in K THEN Append(f[n], s[n + 1]) ELSE f[n]
    BY <2>1 DEF Selects
  <2>3. g[n + 1] = IF n + 1 \in L THEN Append(g[n], t[n + 1]) ELSE g[n]
    BY <2>1 DEF Selects
  <2>4. s[n + 1] = t[n + 1] /\ (n + 1 \in K <=> n + 1 \in L)
    BY <2>1 DEF Agree
  <2>. QED BY <2>1, <2>2, <2>3, <2>4
<1>3. Nat \subseteq E
  <2>. HIDE DEF E
  <2>. QED BY <1>1, <1>2, Induction
<1>. QED BY <1>3

LEMMA SelectSame ==
  ASSUME NEW S, NEW s \in Seq(S), NEW K, NEW L,
         \A n \in 1..Len(s) : n \in K <=> n \in L
  PROVE  Select(s, K) = Select(s, L)
<1> DEFINE t == s
<1>0. t \in Seq(S) /\ Len(s) <= Len(t) /\ \A n \in 1..Len(s) : s[n] = t[n]
  OBVIOUS
<1>1. PICK f : Selects(f, S, s, K)
  BY SelectUnfolds
<1>2. PICK g : Selects(g, S, t, L)
  BY SelectUnfolds
<1>3. Len(s) \in Nat /\ Len(s) <= Len(s)
  OBVIOUS
<1>4. f[Len(s)] = g[Len(s)]
  <2>1. Agree(s, K, t, L, Len(s))
    BY DEF Agree
  <2>. HIDE DEF t
  <2>. QED BY <1>0, <1>1, <1>2, <1>3, <2>1, SelectAgrees
<1>. QED BY <1>1, <1>2, <1>4 DEF Selects

LEMMA SelectAppend ==
  ASSUME NEW S, NEW s \in Seq(S), NEW e \in S, NEW K
  PROVE  Select(Append(s, e), K) =
           IF Len(s) + 1 \in K THEN Append(Select(s, K), e) ELSE Select(s, K)
<1> DEFINE t == Append(s, e)
<1>0. /\ t \in Seq(S) /\ Len(t) = Len(s) + 1 /\ t[Len(s) + 1] = e
      /\ Len(s) \in Nat /\ \A n \in 1..Len(s) : t[n] = s[n]
      /\ Len(s) <= Len(s) /\ Len(s) <= Len(t) /\ Len(s) < Len(t)
  OBVIOUS
<1> HIDE DEF t
<1>1. PICK f : Selects(f, S, s, K)
  BY SelectUnfolds
<1>2. PICK g : Selects(g, S, t, K)
  BY <1>0, SelectUnfolds
<1>3. f[Len(s)] = g[Len(s)]
  <2> DEFINE m == Len(s)
  <2>1. m \in Nat /\ m <= Len(s) /\ m <= Len(t) /\ Agree(s, K, t, K, m)
    BY <1>0 DEF Agree
  <2>2. t \in Seq(S)
    BY <1>0
  <2>3. f[m] = g[m]
    <3>. HIDE DEF m
    <3>. QED BY <1>1, <1>2, <2>1, <2>2, SelectAgrees
  <2>. QED BY <2>3
<1>4. g[Len(t)] = IF Len(s) + 1 \in K THEN Append(g[Len(s)], e) ELSE g[Len(s)]
  BY <1>0, <1>2 DEF Selects
<1>5. Select(t, K) = g[Len(t)] /\ Select(s, K) = f[Len(s)]
  BY <1>1, <1>2 DEF Selects
<1>6. Select(t, K) = IF Len(s) + 1 \in K THEN Append(Select(s, K), e) ELSE Select(s, K)
  BY <1>3, <1>4, <1>5
<1>. QED BY <1>6 DEF t

\* r holds, in their order, exactly the elements of s whose numbers h gives: those up to
\* n that are in K.
Picks(h, r, s, K, n) ==
  /\ h \in [1..Len(r) -> Nat]
  /\ \A i \in 1..Len(r) : h[i] \in 1..n /\ h[i] \in K /\ r[i] = s[h[i]]
  /\ \A i, j \in 1..Len(r) : i < j => h[i] < h[j]
  /\ \A k \in 1..n : k \in K => \E i \in 1..Len(r) : h[i] = k

LEMMA SelectPicks ==
  ASSUME NEW S, NEW s \in Seq(S), NEW K
  PROVE  \E h : Picks(h, Select(s, K), s, K, Len(s))
<1>1. PICK g : Selects(g, S, s, K)
  BY SelectUnfolds
<1> DEFINE E == {n \in Nat : n <= Len(s) => \E h : Picks(h, g[n], s, K, n)}
<1>2. 0 \in E
  <2>1. g[0] = <<>> /\ Len(<<>>) = 0
    BY <1>1 DEF Selects
  <2>2. Picks([i \in 1..Len(g[0]) |-> 0], g[0], s, K, 0)
    BY <2>1 DEF Picks
  <2>. QED BY <2>2
<1>3. ASSUME NEW n \in Nat, n \in E PROVE n + 1 \in E
  <2>. SUFFICES ASSUME n + 1 <= Len(s) PROVE \E h : Picks(h, g[n + 1], s, K, n + 1)
    OBVIOUS
  <2>1. PICK h : Picks(h, g[n], s, K, n)
    BY <1>3
  <2> DEFINE r == g[n]
             m == Len(g[n])
  <2>2. /\ r \in Seq(S) /\ m \in Nat /\ s[n + 1] \in S
        /\ g[n + 1] = IF n + 1 \in K THEN Append(r, s[n + 1]) ELSE r
    <3>1. n + 1 \in 1..Len(s) /\ n < Len(s)
      OBVIOUS
    <3>2. s[n + 1] \in S
      BY <3>1
    <3>3. r \in Seq(S)
      BY <1>1 DEF Selects
    <3>4. g[n + 1] = IF n + 1 \in K THEN Append(r, s[n + 1]) ELSE r
      BY <1>1, <3>1 DEF Selects
    <3>. HIDE DEF r
    <3>. QED BY <3>2, <3>3, <3>4 DEF r
  <2>3. CASE n + 1 \notin K
    <3>1. Picks(h, g[n + 1], s, K, n + 1)
      BY <2>1, <2>2, <2>3 DEF Picks
    <3>. QED BY <3>1
  <2>4. CASE n + 1 \in K
    <3> DEFINE t == Append(r, s[n + 1])
               f == [i \in 1..(m + 1) |-> IF i <= m THEN h[i] ELSE n + 1]
    <3>1. /\ Len(t) = m + 1 /\ t[m + 1] = s[n + 1] /\ \A i \in 1..m : t[i] = r[i]
      BY <2>2
    <3>2. /\ h \in [1..m -> Nat]
          /\ \A i \in 1..m : h[i] \in 1..n /\ h[i] \in K /\ r[i] = s[h[i]]
          /\ \A i, j \in 1..m : i < j => h[i] < h[j]
          /\ \A k \in 1..n : k \in K => \E i \in 1..m : h[i] = k
      BY <2>1 DEF Picks
    <3>3. g[n + 1] = t /\ m \in Nat
      BY <2>2, <2>4
    <3>4. /\ f \in [1..(m + 1) -> Nat] /\ f[m + 1] = n + 1 /\ \A i \in 1..m : f[i] = h[i]
      BY <3>2, <3>3
    <3>. HIDE DEF f, t, m, r
    <3>5. \A i \in 1..(m + 1) : f[i] \in 1..(n + 1) /\ f[i] \in K /\ t[i] = s[f[i]]
      BY <2>4, <3>1, <3>2, <3>3, <3>4
    <3>6. ASSUME NEW i \in 1..(m + 1), NEW j \in 1..(m + 1), i < j PROVE f[i] < f[j]
      <4>1. i \in 1..m /\ (j \in 1..m \/ j = m + 1)
        BY <3>3, <3>6
      <4>. QED BY <3>2, <3>4, <3>6, <4>1
    <3>7. \A k \in 1..(n + 1) : k \in K => \E i \in 1..(m + 1) : f[i] = k
      BY <3>2, <3>3, <3>4
    <3>8. Picks(f, t, s, K, n + 1)
      BY <3>1, <3>4, <3>5, <3>6, <3>7 DEF Picks
    <3>. QED BY <3>3, <3>8
  <2>. QED BY <2>3, <2>4
<1>4. Nat \subseteq E
  <2>. HIDE DEF E
  <2>. QED BY <1>2, <1>3, Induction
<1>5. Len(s) \in Nat /\ Select(s, K) = g[Len(s)]
  BY <1>1 DEF Selects
<1>. QED BY <1>4, <1>5

=============================================================================
