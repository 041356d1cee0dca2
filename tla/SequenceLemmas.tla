---------------------------- MODULE SequenceLemmas ----------------------------
(***************************************************************************)
(* Induction over the natural numbers, and what follows from it for the    *)
(* operators of SequenceFilters and for FlattenSeq.                        *)
(***************************************************************************)
EXTENDS SequenceFilters, SequencesExt, SequenceTheorems, FiniteSetTheorems, TLAPS

(***************************************************************************)
(* A set of numbers with 0 and all successors has all numbers.  Otherwise  *)
(* x + 1 would be an injection of its members up to the missing number     *)
(* into these members without 0, of which there are fewer.                 *)
(***************************************************************************)
LEMMA SetInduction ==
    ASSUME NEW S, 0 \in S, \A n \in Nat : n \in S => n + 1 \in S
    PROVE  Nat \subseteq S
<1> SUFFICES ASSUME NEW n \in Nat, n \notin S PROVE FALSE
  OBVIOUS
<1> DEFINE T == S \cap (0 .. n)
           U == T \ {0}
           f == [x \in T |-> x + 1]
<1>1. IsFiniteSet(T) /\ Cardinality(T) \in Nat
  <2>1. IsFiniteSet(0 .. n)
    BY FS_Interval
  <2>2. T \in SUBSET (0 .. n)
    OBVIOUS
  <2>3. QED
    BY <2>1, <2>2, FS_Subset, FS_CardinalityType
<1>2. IsFiniteSet(U) /\ Cardinality(U) = Cardinality(T) - 1
  <2>1. 0 \in T
    OBVIOUS
  <2>2. QED
    BY <1>1, <2>1, FS_RemoveElement
<1>3. f \in Injection(T, U)
  <2>1. \A x \in T : x + 1 \in U
    OBVIOUS
  <2>2. QED
    BY <2>1 DEF Injection, IsInjective
<1>4. Cardinality(T) <= Cardinality(U)
  <2> HIDE DEF f, T, U
  <2> QED BY <1>2, <1>3, FS_Injection
<1>5. QED
  BY <1>1, <1>2, <1>4

\* A set of natural numbers has a least one.
LEMMA LeastNumber ==
    ASSUME NEW S \in SUBSET Nat, S # {}
    PROVE  \E n \in S : \A m \in S : n <= m
<1> SUFFICES ASSUME \A n \in S : \E m \in S : m < n PROVE FALSE
  OBVIOUS
<1> DEFINE G == {n \in Nat : \A m \in 0 .. n : m \notin S}
<1>1. 0 \in G
  <2>1. \A m \in 0 .. 0 : m = 0
    OBVIOUS
  <2>2. 0 \notin S
    OBVIOUS
  <2>3. QED
    BY <2>1, <2>2
<1>2. ASSUME NEW n \in Nat, n \in G PROVE n + 1 \in G
  <2>1. n + 1 \notin S
    <3>1. SUFFICES ASSUME n + 1 \in S PROVE FALSE
      OBVIOUS
    <3>2. PICK m \in S : m < n + 1
      BY <3>1
    <3>3. m \in 0 .. n
      BY <3>2
    <3>4. QED
      BY <1>2, <3>3
  <2>2. \A m \in 0 .. n + 1 : m \in 0 .. n \/ m = n + 1
    OBVIOUS
  <2>3. QED
    BY <1>2, <2>1, <2>2
<1> HIDE DEF G
<1>3. Nat \subseteq G
  BY <1>1, <1>2, SetInduction
<1>4. PICK n \in S : TRUE
  OBVIOUS
<1>5. n \in G /\ n \in 0 .. n
  BY <1>3
<1>6. QED
  BY <1>4, <1>5 DEF G

\* The same for sequences: all of them are built by appending.
LEMMA SequenceInduction ==
    ASSUME NEW T, NEW G, <<>> \in G,
           \A s \in Seq(T) : \A x \in T : s \in G => Append(s, x) \in G
    PROVE  Seq(T) \subseteq G
<1> DEFINE N == {n \in Nat : \A s \in Seq(T) : Len(s) = n => s \in G}
<1>1. 0 \in N
  BY EmptySeq
<1>2. ASSUME NEW n \in Nat, n \in N PROVE n + 1 \in N
  <2> SUFFICES ASSUME NEW s \in Seq(T), Len(s) = n + 1 PROVE s \in G
    OBVIOUS
  <2>1. PICK u \in Seq(T), x \in T : s = Append(u, x)
    BY EmptySeq, SequenceEmptyOrAppend
  <2>2. Len(u) = n
    BY <2>1, AppendProperties, LenProperties
  <2>3. QED
    BY <1>2, <2>1, <2>2
<1>3. Nat \subseteq N
  BY <1>1, <1>2, SetInduction
<1>4. QED
  BY <1>3, LenProperties

LEMMA ConcatAppend ==
    ASSUME NEW T, NEW s \in Seq(T), NEW t \in Seq(T), NEW x \in T
    PROVE  /\ s \o Append(t, x) = Append(s \o t, x)
           /\ s \o t \in Seq(T)
<1>1. Append(t, x) = t \o <<x>> /\ <<x>> \in Seq(T) /\ s \o t \in Seq(T)
  BY AppendIsConcat, ConcatProperties
<1>2. (s \o t) \o <<x>> = s \o (t \o <<x>>)
  BY <1>1, ConcatAssociative
<1>3. Append(s \o t, x) = (s \o t) \o <<x>>
  BY <1>1, AppendIsConcat
<1>4. QED
  BY <1>1, <1>2, <1>3

-------------------------------------------------------------------------------
(***************************************************************************)
(* Recursion: there is one function that starts with a and goes on by one  *)
(* of the steps at each place.                                             *)
(***************************************************************************)
Follows(f, a, k, step) ==
    /\ f[0] = a
    /\ \A n \in 1 .. k : f[n] = step[n][f[n - 1]]

LEMMA RecursionExists ==
    ASSUME NEW A, NEW a \in A, NEW k \in Nat, NEW step \in [1 .. k -> [A -> A]]
    PROVE  \E f \in [0 .. k -> A] : Follows(f, a, k, step)
<1> DEFINE G == {j \in Nat : j <= k => \E f \in [0 .. j -> A] : Follows(f, a, j, step)}
<1>1. 0 \in G
  <2> DEFINE f == [n \in 0 .. 0 |-> a]
  <2>1. f \in [0 .. 0 -> A] /\ Follows(f, a, 0, step)
    BY DEF Follows
  <2>2. QED
    BY <2>1
<1>2. ASSUME NEW j \in Nat, j \in G PROVE j + 1 \in G
  <2> SUFFICES ASSUME j + 1 <= k
               PROVE  \E f \in [0 .. j + 1 -> A] : Follows(f, a, j + 1, step)
    OBVIOUS
  <2>1. PICK f \in [0 .. j -> A] : Follows(f, a, j, step)
    BY <1>2
  <2> DEFINE g == [n \in 0 .. j + 1 |-> IF n <= j THEN f[n] ELSE step[j + 1][f[j]]]
  <2>2. step[j + 1][f[j]] \in A
    <3>1. j + 1 \in 1 .. k /\ j \in 0 .. j
      OBVIOUS
    <3>2. QED
      BY <3>1
  <2>3. g \in [0 .. j + 1 -> A]
    BY <2>2
  <2>4. Follows(g, a, j + 1, step)
    <3>1. g[0] = a
      BY <2>1 DEF Follows
    <3>2. ASSUME NEW n \in 1 .. j + 1 PROVE g[n] = step[n][g[n - 1]]
      <4>1. CASE n <= j
        BY <2>1, <4>1 DEF Follows
      <4>2. CASE n = j + 1
        BY <4>2
      <4>3. QED
        BY <4>1, <4>2
    <3>3. QED
      BY <3>1, <3>2 DEF Follows
  <2>5. QED
    BY <2>3, <2>4
<1>3. Nat \subseteq G
  BY <1>1, <1>2, SetInduction
<1>4. QED
  BY <1>3

LEMMA RecursionAgrees ==
    ASSUME NEW k \in Nat, NEW f, NEW g, f[0] = g[0],
           \A n \in 1 .. k : f[n - 1] = g[n - 1] => f[n] = g[n]
    PROVE  f[k] = g[k]
<1> DEFINE G == {n \in Nat : n <= k => f[n] = g[n]}
<1>1. 0 \in G
  OBVIOUS
<1>2. ASSUME NEW n \in Nat, n \in G PROVE n + 1 \in G
  <2>1. n + 1 <= k => n + 1 \in 1 .. k /\ (n + 1) - 1 = n /\ f[n] = g[n]
    BY <1>2
  <2>2. QED
    BY <2>1
<1>3. Nat \subseteq G
  BY <1>1, <1>2, SetInduction
<1>4. QED
  BY <1>3

-------------------------------------------------------------------------------
(***************************************************************************)
(* Only: its recursion defines one function, which depends on the members  *)
(* of the sequence only.                                                   *)
(***************************************************************************)
UpTo(s, S, k, f) ==
    /\ f[0] = <<>>
    /\ \A n \in 1 .. k : f[n] = IF s[n] \in S THEN Append(f[n - 1], s[n]) ELSE f[n - 1]

LEMMA UpToWhole ==
    ASSUME NEW T, NEW s \in Seq(T), NEW S
    PROVE  \E f \in [0 .. Len(s) -> Seq(T)] : UpTo(s, S, Len(s), f)
<1> DEFINE step == [n \in 1 .. Len(s) |-> [q \in Seq(T) |-> IF s[n] \in S THEN Append(q, s[n]) ELSE q]]
<1>1. Len(s) \in Nat /\ \A n \in 1 .. Len(s) : s[n] \in T
  BY ElementOfSeq, LenProperties
<1>2. step \in [1 .. Len(s) -> [Seq(T) -> Seq(T)]]
  BY <1>1, AppendProperties
<1>3. \A n \in 1 .. Len(s), q \in Seq(T) : step[n][q] = IF s[n] \in S THEN Append(q, s[n]) ELSE q
  OBVIOUS
<1> HIDE DEF step
<1>4. PICK f \in [0 .. Len(s) -> Seq(T)] : Follows(f, <<>>, Len(s), step)
  BY <1>1, <1>2, EmptySeq, RecursionExists
<1>5. \A n \in 1 .. Len(s) : f[n - 1] \in Seq(T)
  BY <1>1
<1>6. UpTo(s, S, Len(s), f)
  BY <1>3, <1>4, <1>5 DEF Follows, UpTo
<1>7. QED
  BY <1>6

LEMMA UpToAgree ==
    ASSUME NEW s, NEW t, NEW S, NEW R, NEW k \in Nat, NEW f, NEW g,
           \A n \in 1 .. k : s[n] = t[n] /\ (s[n] \in S <=> t[n] \in R),
           UpTo(s, S, k, f), UpTo(t, R, k, g)
    PROVE  f[k] = g[k]
<1>1. f[0] = g[0] /\ \A n \in 1 .. k : f[n - 1] = g[n - 1] => f[n] = g[n]
  BY DEF UpTo
<1>2. QED
  BY <1>1, RecursionAgrees

LEMMA OnlyIs ==
    ASSUME NEW T, NEW s \in Seq(T), NEW S, NEW f, UpTo(s, S, Len(s), f)
    PROVE  Only(s, S) = f[Len(s)]
<1> DEFINE Body(g) == [n \in 0 .. Len(s) |-> IF n = 0 THEN <<>>
                          ELSE IF s[n] \in S THEN Append(g[n - 1], s[n])
                          ELSE g[n - 1]]
           chosen == CHOOSE g : g = Body(g)
<1>1. Len(s) \in Nat
  BY LenProperties
<1>2. \E g : g = Body(g)
  <2>1. PICK g \in [0 .. Len(s) -> Seq(T)] : UpTo(s, S, Len(s), g)
    BY UpToWhole
  <2>2. ASSUME NEW n \in 0 .. Len(s) PROVE g[n] = Body(g)[n]
    <3>1. CASE n = 0
      BY <1>1, <2>1, <3>1 DEF UpTo
    <3>2. CASE n \in 1 .. Len(s)
      BY <1>1, <2>1, <3>2 DEF UpTo
    <3>3. QED
      BY <1>1, <3>1, <3>2
  <2>3. g = Body(g)
    <3> DEFINE h == Body(g)
    <3>1. h = [n \in 0 .. Len(s) |-> h[n]] /\ \A n \in 0 .. Len(s) : g[n] = h[n]
      BY <2>2
    <3> HIDE DEF h
    <3>2. g = h
      BY <3>1
    <3>3. QED
      BY <3>2 DEF h
  <2>4. QED
    BY <2>3
<1>3. chosen = Body(chosen)
  BY <1>2
<1>4. UpTo(s, S, Len(s), chosen)
  <2>1. \A n \in 0 .. Len(s) : chosen[n] = Body(chosen)[n]
    BY <1>3
  <2>2. chosen[0] = <<>>
    BY <1>1, <2>1
  <2>3. ASSUME NEW n \in 1 .. Len(s)
        PROVE  chosen[n] = IF s[n] \in S THEN Append(chosen[n - 1], s[n]) ELSE chosen[n - 1]
    <3>1. n \in 0 .. Len(s) /\ n # 0
      BY <1>1
    <3>2. chosen[n] = Body(chosen)[n]
      BY <2>1, <3>1
    <3> HIDE DEF chosen
    <3>3. QED
      BY <3>1, <3>2
  <2>4. QED
    BY <2>2, <2>3 DEF UpTo
<1>5. chosen[Len(s)] = f[Len(s)]
  <2> HIDE DEF chosen
  <2> QED BY <1>1, <1>4, UpToAgree
<1>6. QED
  BY <1>5 DEF Only

-------------------------------------------------------------------------------
LEMMA OnlyEmpty ==
    ASSUME NEW S
    PROVE  Only(<<>>, S) = <<>>
<1> DEFINE f == [n \in 0 .. 0 |-> <<>>]
<1>1. <<>> \in Seq({}) /\ Len(<<>>) = 0
  BY EmptySeq
<1>2. UpTo(<<>>, S, Len(<<>>), f)
  BY <1>1 DEF UpTo
<1>3. QED
  BY <1>1, <1>2, OnlyIs

LEMMA OnlyAppend ==
    ASSUME NEW T, NEW s \in Seq(T), NEW x \in T, NEW S
    PROVE  /\ Only(s, S) \in Seq(T)
           /\ x \in S => Only(Append(s, x), S) = Append(Only(s, S), x)
           /\ x \notin S => Only(Append(s, x), S) = Only(s, S)
<1> DEFINE t == Append(s, x)
<1>1. /\ t \in Seq(T) /\ Len(s) \in Nat /\ Len(t) = Len(s) + 1
      /\ \A n \in 1 .. Len(s) : t[n] = s[n]
      /\ t[Len(s) + 1] = x
  BY AppendProperties, LenProperties
<1>2. PICK f \in [0 .. Len(t) -> Seq(T)] : UpTo(t, S, Len(t), f)
  <2> HIDE DEF t
  <2> QED BY <1>1, UpToWhole
<1>3. UpTo(s, S, Len(s), f)
  <2> HIDE DEF t
  <2>1. \A n \in 1 .. Len(s) : n \in 1 .. Len(t) /\ s[n] = t[n]
    BY <1>1
  <2> QED BY <1>2, <2>1 DEF UpTo
<1>4. Only(t, S) = f[Len(s) + 1] /\ Only(s, S) = f[Len(s)]
  <2> HIDE DEF t
  <2> QED BY <1>1, <1>2, <1>3, OnlyIs
<1>5. f[Len(s) + 1] = IF x \in S THEN Append(f[Len(s)], x) ELSE f[Len(s)]
  <2>1. Len(s) + 1 \in 1 .. Len(t) /\ (Len(s) + 1) - 1 = Len(s)
    BY <1>1
  <2> HIDE DEF t
  <2>2. QED
    BY <1>1, <1>2, <2>1 DEF UpTo
<1>6. f[Len(s)] \in Seq(T)
  BY <1>1
<1>7. QED
  BY <1>4, <1>5, <1>6

LEMMA OnlyOneMore ==
    \A T, S : \A s \in Seq(T) : \A x \in T :
        Only(Append(s, x), S) = IF x \in S THEN Append(Only(s, S), x) ELSE Only(s, S)
<1> SUFFICES ASSUME NEW T, NEW S, NEW s \in Seq(T), NEW x \in T
             PROVE  Only(Append(s, x), S) = IF x \in S THEN Append(Only(s, S), x) ELSE Only(s, S)
  OBVIOUS
<1> DEFINE t == Append(s, x)
<1>1. /\ t \in Seq(T) /\ Len(s) \in Nat /\ Len(t) = Len(s) + 1
      /\ \A n \in 1 .. Len(s) : t[n] = s[n]
      /\ t[Len(s) + 1] = x
  BY AppendProperties, LenProperties
<1>2. PICK f \in [0 .. Len(t) -> Seq(T)] : UpTo(t, S, Len(t), f)
  <2> HIDE DEF t
  <2> QED BY <1>1, UpToWhole
<1>3. UpTo(s, S, Len(s), f)
  <2> HIDE DEF t
  <2>1. \A n \in 1 .. Len(s) : n \in 1 .. Len(t) /\ s[n] = t[n]
    BY <1>1
  <2> QED BY <1>2, <2>1 DEF UpTo
<1>4. Only(t, S) = f[Len(s) + 1] /\ Only(s, S) = f[Len(s)]
  <2> HIDE DEF t
  <2> QED BY <1>1, <1>2, <1>3, OnlyIs
<1>5. f[Len(s) + 1] = IF x \in S THEN Append(f[Len(s)], x) ELSE f[Len(s)]
  <2>1. Len(s) + 1 \in 1 .. Len(t) /\ (Len(s) + 1) - 1 = Len(s)
    BY <1>1
  <2> HIDE DEF t
  <2>2. QED
    BY <1>1, <1>2, <2>1 DEF UpTo
<1>6. Only(t, S) = IF x \in S THEN Append(Only(s, S), x) ELSE Only(s, S)
  <2> HIDE DEF t
  <2> QED BY Zenon, <1>4, <1>5
<1>7. QED
  BY <1>6, Zenon

LEMMA OnlyType ==
    ASSUME NEW T, NEW s \in Seq(T), NEW S
    PROVE  Only(s, S) \in Seq(T)
<1>1. CASE s = <<>>
  BY <1>1, OnlyEmpty, EmptySeq
<1>2. CASE s # <<>>
  <2>1. PICK u \in Seq(T), x \in T : s = Append(u, x)
    BY <1>2, SequenceEmptyOrAppend
  <2>2. Only(u, S) \in Seq(T) /\ Append(Only(u, S), x) \in Seq(T)
    BY OnlyAppend, AppendProperties
  <2>3. QED
    BY <2>1, <2>2, OnlyAppend
<1>3. QED
  BY <1>1, <1>2

\* A sequence that is picked from a concatenation is the concatenation of the parts.
LEMMA OnlyConcatStep ==
    ASSUME NEW T, NEW S, NEW s \in Seq(T), NEW t \in Seq(T), NEW x \in T,
           Only(s \o t, S) = Only(s, S) \o Only(t, S)
    PROVE  Only(s \o Append(t, x), S) = Only(s, S) \o Only(Append(t, x), S)
<1>1. s \o Append(t, x) = Append(s \o t, x) /\ s \o t \in Seq(T)
  BY ConcatAppend
<1>2. Only(s, S) \in Seq(T) /\ Only(t, S) \in Seq(T)
  BY OnlyType
<1>3. CASE x \in S
  <2>1. Only(Append(t, x), S) = Append(Only(t, S), x)
    BY <1>3, OnlyAppend
  <2>2. \A v \in Seq(T) : Only(Append(v, x), S) = Append(Only(v, S), x)
    BY <1>3, OnlyAppend
  <2>3. Only(s, S) \o Append(Only(t, S), x) = Append(Only(s, S) \o Only(t, S), x)
    BY <1>2, ConcatAppend
  <2>4. QED
    BY <1>1, <2>1, <2>2, <2>3
<1>4. CASE x \notin S
  <2>1. Only(Append(t, x), S) = Only(t, S)
    BY <1>4, OnlyAppend
  <2>2. \A v \in Seq(T) : Only(Append(v, x), S) = Only(v, S)
    BY <1>4, OnlyAppend
  <2>3. QED
    BY <1>1, <2>1, <2>2
<1>5. QED
  BY <1>3, <1>4

LEMMA OnlyConcat ==
    ASSUME NEW T, NEW S, NEW s \in Seq(T)
    PROVE  \A t \in Seq(T) : Only(s \o t, S) = Only(s, S) \o Only(t, S)
<1> DEFINE G == {t \in Seq(T) : Only(s \o t, S) = Only(s, S) \o Only(t, S)}
<1>1. <<>> \in G
  <2>1. s \o <<>> = s /\ Only(s, S) \o <<>> = Only(s, S)
    BY ConcatEmptySeq, OnlyType
  <2>2. QED
    BY <2>1, OnlyEmpty, EmptySeq
<1>2. ASSUME NEW t \in Seq(T), NEW x \in T, t \in G PROVE Append(t, x) \in G
  <2>1. Append(t, x) \in Seq(T)
    BY AppendProperties
  <2>2. Only(s \o Append(t, x), S) = Only(s, S) \o Only(Append(t, x), S)
    BY <1>2, OnlyConcatStep
  <2>3. QED
    BY <2>1, <2>2
<1> HIDE DEF G
<1>3. Seq(T) \subseteq G
  BY <1>1, <1>2, SequenceInduction
<1>4. QED
  BY <1>3 DEF G

LEMMA OnlyOne ==
    ASSUME NEW x, NEW S
    PROVE  Only(<<x>>, S) = IF x \in S THEN <<x>> ELSE <<>>
<1>1. <<>> \in Seq({x}) /\ x \in {x} /\ Append(<<>>, x) = <<x>>
  BY EmptySeq
<1>2. \A u \in Seq({x}) : /\ x \in S => Only(Append(u, x), S) = Append(Only(u, S), x)
                          /\ x \notin S => Only(Append(u, x), S) = Only(u, S)
  BY <1>1, OnlyAppend
<1>3. QED
  BY <1>1, <1>2, OnlyEmpty

\* What is picked from a sequence of members is the sequence.
LEMMA OnlyAll ==
    ASSUME NEW T, NEW S, \A x \in T : x \in S
    PROVE  \A s \in Seq(T) : Only(s, S) = s
<1> DEFINE G == {s \in Seq(T) : Only(s, S) = s}
<1>1. <<>> \in G
  BY EmptySeq, OnlyEmpty
<1>2. \A s \in Seq(T) : \A x \in T : s \in G => Append(s, x) \in G
  BY OnlyAppend, AppendProperties
<1> HIDE DEF G
<1>3. Seq(T) \subseteq G
  BY <1>1, <1>2, SequenceInduction
<1>4. QED
  BY <1>3 DEF G

\* Nothing but members is picked.
LEMMA OnlyMembers ==
    ASSUME NEW T, NEW S
    PROVE  \A s \in Seq(T) : Only(s, S) \in Seq(T \cap S)
<1> DEFINE G == {s \in Seq(T) : Only(s, S) \in Seq(T \cap S)}
<1>1. <<>> \in G
  BY EmptySeq, OnlyEmpty
<1>2. ASSUME NEW s \in Seq(T), NEW x \in T, s \in G PROVE Append(s, x) \in G
  <2>1. Append(s, x) \in Seq(T) /\ Only(s, S) \in Seq(T \cap S)
    BY <1>2, AppendProperties
  <2>2. CASE x \in S
    <3>1. Only(Append(s, x), S) = Append(Only(s, S), x)
      BY <2>2, OnlyAppend
    <3>2. Append(Only(s, S), x) \in Seq(T \cap S)
      BY <2>1, <2>2, AppendProperties
    <3>3. QED
      BY <2>1, <3>1, <3>2
  <2>3. CASE x \notin S
    BY <2>1, <2>3, OnlyAppend
  <2>4. QED
    BY <2>2, <2>3
<1> HIDE DEF G
<1>3. Seq(T) \subseteq G
  BY <1>1, <1>2, SequenceInduction
<1>4. QED
  BY <1>3 DEF G

\* What is picked depends on the members of the sequence only.
LEMMA OnlyAgree ==
    ASSUME NEW T, NEW s \in Seq(T), NEW S, NEW R, T \cap S = T \cap R
    PROVE  Only(s, S) = Only(s, R)
<1>1. PICK f \in [0 .. Len(s) -> Seq(T)] : UpTo(s, S, Len(s), f)
  BY UpToWhole
<1>2. PICK g \in [0 .. Len(s) -> Seq(T)] : UpTo(s, R, Len(s), g)
  BY UpToWhole
<1>3. Len(s) \in Nat /\ \A n \in 1 .. Len(s) : s[n] \in S <=> s[n] \in R
  BY ElementOfSeq, LenProperties
<1>4. f[Len(s)] = g[Len(s)]
  BY <1>1, <1>2, <1>3, UpToAgree
<1>5. QED
  BY <1>1, <1>2, <1>4, OnlyIs

LEMMA WithoutIsOnly ==
    ASSUME NEW T, NEW s \in Seq(T), NEW S
    PROVE  Without(s, S) = Only(s, T \ S)
<1>1. s \in Seq(ToSet(s))
  BY LenProperties DEF ToSet
<1>2. ToSet(s) \subseteq T
  BY ElementOfSeq, LenProperties DEF ToSet
<1>3. QED
  BY <1>1, <1>2, OnlyAgree DEF Without

-------------------------------------------------------------------------------
(***************************************************************************)
(* FlattenSeq: the same for the concatenation of a sequence of sequences.  *)
(***************************************************************************)
LEMMA FlattenEmpty == FlattenSeq(<<>>) = <<>>
BY DEF FlattenSeq

LEMMA FlattenOne ==
    ASSUME NEW a
    PROVE  FlattenSeq(<<a>>) = a
<1> DEFINE g == [i \in 1 .. 1 |-> a]
<1>1. g = [i \in 1 .. 1 |-> IF i = 1 THEN <<a>>[i] ELSE g[i - 1] \o <<a>>[i]]
  OBVIOUS
<1>2. QED
  BY <1>1 DEF FlattenSeq

\* What is picked from no sequence, or from one.
LEMMA OnlyFlatten ==
    ASSUME NEW S
    PROVE  /\ Only(FlattenSeq(<<>>), S) = <<>>
           /\ \A a : Only(FlattenSeq(<<a>>), S) = Only(a, S)
BY FlattenEmpty, FlattenOne, OnlyEmpty

-------------------------------------------------------------------------------
\* A sequence is made of the parts before and after any place.
LEMMA SplitAt ==
    ASSUME NEW T, NEW s \in Seq(T), NEW n \in 0 .. Len(s)
    PROVE  /\ SubSeq(s, 1, n) \in Seq(T)
           /\ SubSeq(s, n + 1, Len(s)) \in Seq(T)
           /\ SubSeq(s, 1, n) \o SubSeq(s, n + 1, Len(s)) = s
<1>1. Len(s) \in Nat /\ \A i \in 1 .. Len(s) : s[i] \in T
  BY ElementOfSeq, LenProperties
<1>2. SubSeq(s, 1, n) \in Seq(T) /\ SubSeq(s, n + 1, Len(s)) \in Seq(T)
  <2>1. 1 \in Int /\ n \in Int /\ n + 1 \in Int /\ Len(s) \in Int
    BY <1>1
  <2>2. (\A i \in 1 .. n : s[i] \in T) /\ (\A i \in n + 1 .. Len(s) : s[i] \in T)
    BY <1>1
  <2>3. QED
    BY <2>1, <2>2, SubSeqProperties
<1>3. SubSeq(s, 1, n) \o SubSeq(s, n + 1, Len(s)) = SubSeq(s, 1, Len(s))
  <2>1. 1 \in 1 .. Len(s) + 1 /\ n \in 1 - 1 .. Len(s) /\ Len(s) \in n .. Len(s)
    BY <1>1
  <2>2. QED
    BY <2>1, ConcatAdjacentSubSeq
<1>4. QED
  BY <1>2, <1>3, SubSeqFull

\* The beginning of a sequence grows by a member.
LEMMA Beginnings ==
    ASSUME NEW T, NEW s \in Seq(T)
    PROVE  /\ SubSeq(s, 1, 0) = <<>>
           /\ SubSeq(s, 1, Len(s)) = s
           /\ \A n \in 0 .. Len(s) : SubSeq(s, 1, n) \in Seq(T)
           /\ \A n \in 1 .. Len(s) : s[n] \in T /\ SubSeq(s, 1, n) = Append(SubSeq(s, 1, n - 1), s[n])
<1>1. \A n \in 0 .. Len(s) : SubSeq(s, 1, n) \in Seq(T)
  BY SplitAt
<1>2. ASSUME NEW n \in 1 .. Len(s)
      PROVE  s[n] \in T /\ SubSeq(s, 1, n) = Append(SubSeq(s, 1, n - 1), s[n])
  <2>1. Len(s) \in Nat /\ s[n] \in T
    BY ElementOfSeq, LenProperties
  <2>2. 1 \in 1 .. Len(s) /\ n \in 1 .. Len(s) /\ n - 1 \in 0 .. Len(s)
    BY <2>1
  <2>3. SubSeq(s, 1, n) = SubSeq(s, 1, n - 1) \o <<s[n]>>
    BY <2>2, SubSeqRecursiveSecond
  <2>4. SubSeq(s, 1, n - 1) \in Seq(T)
    BY <1>1, <2>2
  <2>5. QED
    BY <2>1, <2>3, <2>4, AppendIsConcat
<1>3. QED
  BY <1>1, <1>2, SubSeqEmpty, SubSeqFull

LEMMA FirstOnes ==
    ASSUME NEW T, NEW s \in Seq(T), NEW n \in 0 .. Len(s)
    PROVE  /\ Len(SubSeq(s, 1, n)) = n
           /\ \A k \in 1 .. n : SubSeq(s, 1, n)[k] = s[k]
<1>1. Len(s) \in Nat /\ \A i \in 1 .. Len(s) : s[i] \in T
  BY ElementOfSeq, LenProperties
<1>2. n \in Int /\ 1 \in Int /\ \A i \in 1 .. n : s[i] \in T
  BY <1>1
<1> DEFINE q == SubSeq(s, 1, n)
<1>3. /\ Len(q) = IF 1 <= n THEN n - 1 + 1 ELSE 0
      /\ \A i \in 1 .. n - 1 + 1 : q[i] = s[1 + i - 1]
  BY <1>2, SubSeqProperties
<1> HIDE DEF q
<1>4. Len(q) = n /\ \A k \in 1 .. n : k \in 1 .. n - 1 + 1 /\ 1 + k - 1 = k
  BY <1>1, <1>3
<1>5. QED
  BY <1>3, <1>4 DEF q

(***************************************************************************)
(* Concatenation under a name that the provers do not expand: they would   *)
(* make functions on intervals of it.                                      *)
(***************************************************************************)
Cat(s, t) == s \o t

LEMMA CatLaws ==
    ASSUME NEW T
    PROVE  /\ <<>> \in Seq(T)
           /\ \A s \in Seq(T) : Cat(s, <<>>) = s /\ Cat(<<>>, s) = s
           /\ \A s, t \in Seq(T) : Cat(s, t) \in Seq(T)
           /\ \A s, t, u \in Seq(T) : Cat(Cat(s, t), u) = Cat(s, Cat(t, u))
<1>1. \A s \in Seq(T) : Cat(s, <<>>) = s /\ Cat(<<>>, s) = s
  BY ConcatEmptySeq DEF Cat
<1>2. \A s, t \in Seq(T) : Cat(s, t) \in Seq(T)
  BY ConcatProperties DEF Cat
<1>3. \A s, t, u \in Seq(T) : Cat(Cat(s, t), u) = Cat(s, Cat(t, u))
  BY ConcatAssociative DEF Cat
<1>4. QED
  BY <1>1, <1>2, <1>3, EmptySeq

LEMMA OnlyCat ==
    ASSUME NEW T, NEW S
    PROVE  \A s, t \in Seq(T) : Only(Cat(s, t), S) = Cat(Only(s, S), Only(t, S))
BY OnlyConcat DEF Cat

LEMMA CatSplit ==
    ASSUME NEW T, NEW s \in Seq(T), NEW n \in 0 .. Len(s)
    PROVE  Cat(SubSeq(s, 1, n), SubSeq(s, n + 1, Len(s))) = s
BY SplitAt DEF Cat

LEMMA CatAppend ==
    ASSUME NEW T, NEW s \in Seq(T), NEW x \in T
    PROVE  /\ Append(s, x) = Cat(s, <<x>>)
           /\ <<x>> \in Seq(T)
<1>1. Append(s, x) = s \o <<x>>
  BY AppendIsConcat
<1>2. QED
  BY <1>1 DEF Cat

LEMMA CatOfAppend ==
    ASSUME NEW T, NEW s \in Seq(T), NEW t \in Seq(T), NEW x \in T
    PROVE  /\ Cat(s, t) \in Seq(T)
           /\ Cat(s, Append(t, x)) = Append(Cat(s, t), x)
<1>1. Cat(s, t) \in Seq(T)
  BY CatLaws
<1>2. /\ <<x>> \in Seq(T) /\ Append(t, x) = Cat(t, <<x>>)
      /\ Append(Cat(s, t), x) = Cat(Cat(s, t), <<x>>)
  BY <1>1, CatAppend
<1>3. \A a, b, c \in Seq(T) : Cat(Cat(a, b), c) = Cat(a, Cat(b, c))
  BY CatLaws
<1>4. Cat(Cat(s, t), <<x>>) = Cat(s, Cat(t, <<x>>))
  BY <1>2, <1>3
<1>5. QED
  BY <1>1, <1>2, <1>4

LEMMA CatHeadTail ==
    ASSUME NEW T, NEW s \in Seq(T), s # <<>>
    PROVE  /\ Head(s) \in T /\ Tail(s) \in Seq(T) /\ <<Head(s)>> \in Seq(T)
           /\ s = Cat(<<Head(s)>>, Tail(s))
<1>1. Head(s) \in T /\ Tail(s) \in Seq(T) /\ <<Head(s)>> \in Seq(T)
  BY HeadTailProperties
<1>2. Len(s) \in Nat \ {0} /\ Head(s) = s[1] /\ Tail(s) = SubSeq(s, 2, Len(s))
  BY EmptySeq, TailIsSubSeq, HeadTailProperties
<1>3. 1 \in 1 .. Len(s) /\ Len(s) \in 1 .. Len(s)
  BY <1>2
<1>4. SubSeq(s, 1, Len(s)) = <<s[1]>> \o SubSeq(s, 1 + 1, Len(s))
  BY <1>3, SubSeqRecursiveFirst
<1>5. QED
  BY <1>1, <1>2, <1>4, SubSeqFull DEF Cat

\* The first of what is to come is the last of what has come.
LEMMA MoveOne ==
    ASSUME NEW T, NEW s \in Seq(T), NEW t \in Seq(T), t # <<>>
    PROVE  Cat(Append(s, Head(t)), Tail(t)) = Cat(s, t)
<1> DEFINE x == Head(t)
           u == Tail(t)
<1>1. x \in T /\ u \in Seq(T) /\ <<x>> \in Seq(T) /\ t = Cat(<<x>>, u)
  BY CatHeadTail
<1> HIDE DEF x, u
<1>2. Append(s, x) = Cat(s, <<x>>)
  BY <1>1, CatAppend
<1>3. \A a, b, c \in Seq(T) : Cat(Cat(a, b), c) = Cat(a, Cat(b, c))
  BY CatLaws
<1>4. Cat(Cat(s, <<x>>), u) = Cat(s, t)
  BY <1>1, <1>3
<1>5. Cat(Append(s, x), u) = Cat(s, t)
  BY <1>2, <1>4
<1>6. QED
  BY <1>5 DEF x, u

LEMMA MoveOneOn ==
    ASSUME NEW T, NEW s \in Seq(T), NEW t \in Seq(T), t # <<>>, NEW u \in Seq(T)
    PROVE  /\ Append(s, Head(t)) \in Seq(T) /\ Cat(Tail(t), u) \in Seq(T)
           /\ Cat(Append(s, Head(t)), Cat(Tail(t), u)) = Cat(s, Cat(t, u))
<1> DEFINE a == Append(s, Head(t))
           b == Tail(t)
<1>1. a \in Seq(T) /\ b \in Seq(T)
  BY CatHeadTail, AppendProperties
<1>2. Cat(a, b) = Cat(s, t)
  BY MoveOne
<1> HIDE DEF a, b
<1>3. \A x, y, z \in Seq(T) : Cat(Cat(x, y), z) = Cat(x, Cat(y, z)) /\ Cat(x, y) \in Seq(T)
  BY CatLaws
<1>4. Cat(a, Cat(b, u)) = Cat(s, Cat(t, u)) /\ Cat(b, u) \in Seq(T)
  BY <1>1, <1>2, <1>3
<1>5. QED
  BY <1>1, <1>4 DEF a, b

\* A prefix is what something can be added to.
LEMMA CatIsPrefix ==
    ASSUME NEW T, NEW s \in Seq(T), NEW u \in Seq(T)
    PROVE  IsPrefix(s, Cat(s, u))
<1>1. /\ s \o u \in Seq(T) /\ Len(s) \in Nat /\ Len(u) \in Nat
      /\ Len(s \o u) = Len(s) + Len(u)
  BY ConcatProperties, LenProperties
<1>2. SubSeq(s, 1, Len(s)) = SubSeq(s \o u, 1, Len(s))
  <2>1. CASE Len(s) = 0
    <3>1. SubSeq(s, 1, 0) = <<>> /\ SubSeq(s \o u, 1, 0) = <<>>
      BY SubSeqEmpty
    <3>2. QED
      BY <2>1, <3>1
  <2>2. CASE Len(s) # 0
    <3>1. 1 \in 1 .. Len(s) /\ Len(s) \in 1 .. Len(s)
      BY <1>1, <2>2
    <3>2. QED
      BY <3>1, SubSeqOfConcat1
  <2>3. QED
    BY <2>1, <2>2
<1>3. QED
  BY <1>1, <1>2 DEF IsPrefix, Cat

-------------------------------------------------------------------------------
(***************************************************************************)
(* FlattenSeq of the community modules, through the sequences that it      *)
(* passes.                                                                 *)
(***************************************************************************)
Joins(ss, k, f) == \A n \in 1 .. k : f[n] = IF n = 1 THEN ss[n] ELSE Cat(f[n - 1], ss[n])

LEMMA JoinsWhole ==
    ASSUME NEW T, NEW ss \in Seq(Seq(T))
    PROVE  \E f \in [1 .. Len(ss) -> Seq(T)] : Joins(ss, Len(ss), f)
<1> DEFINE step == [n \in 1 .. Len(ss) |-> [q \in Seq(T) |-> Cat(q, ss[n])]]
<1>1. Len(ss) \in Nat /\ \A n \in 1 .. Len(ss) : ss[n] \in Seq(T)
  BY ElementOfSeq, LenProperties
<1>2. \A n \in 1 .. Len(ss), q \in Seq(T) : Cat(q, ss[n]) \in Seq(T)
  BY <1>1, CatLaws
<1>3. step \in [1 .. Len(ss) -> [Seq(T) -> Seq(T)]]
  BY <1>2
<1>4. \A n \in 1 .. Len(ss), q \in Seq(T) : step[n][q] = Cat(q, ss[n])
  OBVIOUS
<1> HIDE DEF step
<1>5. PICK g \in [0 .. Len(ss) -> Seq(T)] : Follows(g, <<>>, Len(ss), step)
  BY <1>1, <1>3, EmptySeq, RecursionExists
<1> DEFINE f == [n \in 1 .. Len(ss) |-> g[n]]
<1>6. f \in [1 .. Len(ss) -> Seq(T)]
  BY <1>1
<1>7. ASSUME NEW n \in 1 .. Len(ss) PROVE f[n] = IF n = 1 THEN ss[n] ELSE Cat(f[n - 1], ss[n])
  <2>1. n - 1 \in 0 .. Len(ss) /\ g[n - 1] \in Seq(T)
    <3>1. n - 1 \in 0 .. Len(ss)
      BY <1>1
    <3> HIDE DEF f
    <3>2. QED
      BY <3>1
  <2>2. f[n] = Cat(g[n - 1], ss[n])
    <3>1. f[n] = g[n]
      OBVIOUS
    <3>2. g[n] = step[n][g[n - 1]]
      BY <1>5 DEF Follows
    <3>3. QED
      BY <1>4, <2>1, <3>1, <3>2
  <2>3. CASE n = 1
    <3>1. g[n - 1] = <<>>
      BY <1>5, <2>3 DEF Follows
    <3>2. Cat(<<>>, ss[n]) = ss[n]
      BY <1>1, CatLaws
    <3>3. QED
      BY <2>2, <2>3, <3>1, <3>2
  <2>4. CASE n # 1
    <3>1. f[n - 1] = g[n - 1]
      BY <1>1, <2>4
    <3>2. QED
      BY <2>2, <2>4, <3>1
  <2>5. QED
    BY <2>3, <2>4
<1>8. QED
  BY <1>6, <1>7 DEF Joins

LEMMA JoinsAgree ==
    ASSUME NEW ss, NEW tt, NEW k \in Nat \ {0}, NEW f, NEW g,
           \A n \in 1 .. k : ss[n] = tt[n], Joins(ss, k, f), Joins(tt, k, g)
    PROVE  f[k] = g[k]
<1> DEFINE a == [n \in 0 .. k |-> IF n = 0 THEN 0 ELSE f[n]]
           b == [n \in 0 .. k |-> IF n = 0 THEN 0 ELSE g[n]]
<1>1. a[0] = b[0]
  OBVIOUS
<1>2. ASSUME NEW n \in 1 .. k, a[n - 1] = b[n - 1] PROVE a[n] = b[n]
  <2>1. n # 1 => n - 1 \in 1 .. k /\ f[n - 1] = g[n - 1]
    BY <1>2
  <2>2. f[n] = g[n]
    BY <2>1 DEF Joins
  <2>3. QED
    BY <2>2
<1>3. k \in Nat /\ k \in 0 .. k /\ k # 0
  OBVIOUS
<1>4. a[k] = b[k]
  <2> HIDE DEF a, b
  <2> QED BY <1>1, <1>2, <1>3, RecursionAgrees
<1>5. QED
  BY <1>3, <1>4

LEMMA FlattenIs ==
    ASSUME NEW T, NEW ss \in Seq(Seq(T)), ss # <<>>, NEW f, Joins(ss, Len(ss), f)
    PROVE  FlattenSeq(ss) = f[Len(ss)]
<1> DEFINE Body(g) == [i \in 1 .. Len(ss) |-> IF i = 1 THEN ss[i] ELSE g[i - 1] \o ss[i]]
           chosen == CHOOSE g : g = Body(g)
<1>1. Len(ss) \in Nat \ {0}
  BY EmptySeq, LenProperties
<1>2. \E g : g = Body(g)
  <2>1. PICK g \in [1 .. Len(ss) -> Seq(T)] : Joins(ss, Len(ss), g)
    BY JoinsWhole
  <2>2. \A n \in 1 .. Len(ss) : g[n] = Body(g)[n]
    BY <2>1 DEF Joins, Cat
  <2>3. g = Body(g)
    <3> DEFINE h == Body(g)
    <3>1. h = [n \in 1 .. Len(ss) |-> h[n]] /\ \A n \in 1 .. Len(ss) : g[n] = h[n]
      BY <2>2
    <3> HIDE DEF h
    <3>2. g = h
      BY <3>1
    <3>3. QED
      BY <3>2 DEF h
  <2>4. QED
    BY <2>3
<1>3. chosen = Body(chosen)
  BY <1>2
<1>4. Joins(ss, Len(ss), chosen)
  <2>1. \A n \in 1 .. Len(ss) : chosen[n] = Body(chosen)[n]
    BY <1>3
  <2> HIDE DEF chosen
  <2>2. QED
    BY <2>1 DEF Joins, Cat
<1>5. chosen[Len(ss)] = f[Len(ss)]
  <2> HIDE DEF chosen
  <2> QED BY <1>1, <1>4, JoinsAgree
<1>6. FlattenSeq(ss) = chosen[Len(ss)]
  BY <1>1 DEF FlattenSeq
<1>7. QED
  BY <1>5, <1>6

LEMMA FlattenAppend ==
    ASSUME NEW T
    PROVE  /\ FlattenSeq(<<>>) = <<>>
           /\ \A ss \in Seq(Seq(T)) : FlattenSeq(ss) \in Seq(T)
           /\ \A ss \in Seq(Seq(T)), x \in Seq(T) :
                 FlattenSeq(Append(ss, x)) = Cat(FlattenSeq(ss), x)
<1>1. FlattenSeq(<<>>) = <<>>
  BY EmptySeq DEF FlattenSeq
<1>2. ASSUME NEW ss \in Seq(Seq(T)) PROVE FlattenSeq(ss) \in Seq(T)
  <2>1. CASE ss = <<>>
    BY <1>1, <2>1, EmptySeq
  <2>2. CASE ss # <<>>
    <3>1. PICK f \in [1 .. Len(ss) -> Seq(T)] : Joins(ss, Len(ss), f)
      BY JoinsWhole
    <3>2. Len(ss) \in 1 .. Len(ss)
      BY <2>2, EmptySeq, LenProperties
    <3>3. FlattenSeq(ss) = f[Len(ss)]
      BY <2>2, <3>1, FlattenIs, Zenon
    <3>4. QED
      BY <3>1, <3>2, <3>3
  <2>3. QED
    BY <2>1, <2>2
<1>3. ASSUME NEW ss \in Seq(Seq(T)), NEW x \in Seq(T)
      PROVE  FlattenSeq(Append(ss, x)) = Cat(FlattenSeq(ss), x)
  <2> DEFINE tt == Append(ss, x)
  <2>1. /\ tt \in Seq(Seq(T)) /\ Len(ss) \in Nat /\ Len(tt) = Len(ss) + 1 /\ tt # <<>>
        /\ \A n \in 1 .. Len(ss) : tt[n] = ss[n]
        /\ tt[Len(ss) + 1] = x
    BY AppendProperties, LenProperties
  <2> HIDE DEF tt
  <2>2. PICK f \in [1 .. Len(tt) -> Seq(T)] : Joins(tt, Len(tt), f)
    BY <2>1, JoinsWhole
  <2>3. FlattenSeq(tt) = f[Len(ss) + 1]
    BY <2>1, <2>2, FlattenIs
  <2>4. CASE ss = <<>>
    <3>1. Len(ss) = 0
      BY <2>4, EmptySeq
    <3>2. f[Len(ss) + 1] = x
      <4>1. Len(ss) + 1 = 1 /\ 1 \in 1 .. Len(tt) /\ tt[1] = x
        BY <2>1, <3>1
      <4>2. f[1] = tt[1]
        BY <2>2, <4>1 DEF Joins
      <4>3. QED
        BY <4>1, <4>2
    <3>3. Cat(<<>>, x) = x
      BY CatLaws
    <3>4. QED
      BY <1>1, <2>3, <2>4, <3>2, <3>3 DEF tt
  <2>5. CASE ss # <<>>
    <3>1. Len(ss) \in Nat \ {0}
      BY <2>1, <2>5, EmptySeq
    <3>2. f[Len(ss) + 1] = Cat(f[Len(ss)], x)
      <4> DEFINE m == Len(ss) + 1
      <4>1. m \in 1 .. Len(tt) /\ m # 1 /\ m - 1 = Len(ss) /\ tt[m] = x
        BY <2>1, <3>1
      <4> HIDE DEF m
      <4>2. f[m] = Cat(f[m - 1], tt[m])
        BY <2>2, <4>1 DEF Joins
      <4>3. QED
        BY <4>1, <4>2 DEF m
    <3>3. Joins(ss, Len(ss), f)
      BY <2>1, <2>2 DEF Joins
    <3>4. FlattenSeq(ss) = f[Len(ss)]
      BY <2>5, <3>3, FlattenIs
    <3>5. QED
      BY <2>3, <3>2, <3>4 DEF tt
  <2>6. QED
    BY <2>4, <2>5
<1>4. QED
  BY <1>1, <1>2, <1>3

-------------------------------------------------------------------------------
(***************************************************************************)
(* Sequences in which nothing occurs twice.                                *)
(***************************************************************************)
Distinct(s) == \A i, j \in 1 .. Len(s) : s[i] = s[j] => i = j

LEMMA DistinctAppend ==
    ASSUME NEW T, NEW s \in Seq(T), NEW x \in T
    PROVE  Distinct(Append(s, x)) <=> Distinct(s) /\ \A i \in 1 .. Len(s) : s[i] # x
<1> DEFINE t == Append(s, x)
<1>1. /\ Len(s) \in Nat /\ Len(t) = Len(s) + 1 /\ t[Len(s) + 1] = x
      /\ \A i \in 1 .. Len(s) : t[i] = s[i]
  BY AppendProperties, LenProperties
<1> HIDE DEF t
<1>2. \A i \in 1 .. Len(t) : i \in 1 .. Len(s) \/ i = Len(s) + 1
  BY <1>1
<1>3. \A i \in 1 .. Len(s) : i \in 1 .. Len(t) /\ i # Len(s) + 1
  BY <1>1
<1>4. Len(s) + 1 \in 1 .. Len(t)
  BY <1>1
<1>5. Distinct(t) <=> Distinct(s) /\ \A i \in 1 .. Len(s) : s[i] # x
  BY <1>1, <1>2, <1>3, <1>4 DEF Distinct
<1>6. QED
  BY <1>5 DEF t

LEMMA OnlyDistinct ==
    ASSUME NEW T, NEW S
    PROVE  \A s \in Seq(T) : Distinct(s) => Distinct(Only(s, S))
<1> DEFINE G == {s \in Seq(T) : Distinct(s) => Distinct(Only(s, S))}
<1>1. <<>> \in G
  <2>1. Len(<<>>) = 0 /\ 1 .. 0 = {}
    BY EmptySeq
  <2>2. Distinct(<<>>)
    BY <2>1 DEF Distinct
  <2>3. QED
    BY <2>2, EmptySeq, OnlyEmpty
<1>2. ASSUME NEW s \in Seq(T), NEW x \in T, s \in G PROVE Append(s, x) \in G
  <2> DEFINE t == Append(s, x)
             q == Only(s, S)
             R == {s[i] : i \in 1 .. Len(s)}
  <2>1. t \in Seq(T)
    BY AppendProperties
  <2>2. ASSUME Distinct(t) PROVE Distinct(Only(t, S))
    <3>1. Distinct(s) /\ \A i \in 1 .. Len(s) : s[i] # x
      BY <2>2, DistinctAppend
    <3>2. Distinct(q) /\ q \in Seq(T)
      BY <1>2, <3>1, OnlyType
    <3>3. \A i \in 1 .. Len(q) : q[i] # x
      <4>1. s \in Seq(R)
        BY LenProperties
      <4>2. q \in Seq(R \cap S)
        BY <4>1, OnlyMembers
      <4>3. \A i \in 1 .. Len(q) : q[i] \in R
        <5> HIDE DEF q, R
        <5> QED BY <4>2, ElementOfSeq
      <4>4. QED
        BY <3>1, <4>3
    <3>4. Only(t, S) = q \/ Only(t, S) = Append(q, x)
      BY OnlyAppend
    <3> HIDE DEF q, t
    <3>5. Distinct(Append(q, x))
      BY <3>2, <3>3, DistinctAppend
    <3>6. QED
      BY Zenon, <3>2, <3>4, <3>5
  <2>3. QED
    BY <2>1, <2>2
<1> HIDE DEF G
<1>3. Seq(T) \subseteq G
  BY <1>1, <1>2, SequenceInduction
<1>4. QED
  BY <1>3 DEF G

LEMMA OnlyNone ==
    ASSUME NEW T, NEW S, T \cap S = {}
    PROVE  \A s \in Seq(T) : Only(s, S) = <<>>
<1> SUFFICES ASSUME NEW s \in Seq(T) PROVE Only(s, S) = <<>>
  OBVIOUS
<1>1. Only(s, S) \in Seq({})
  BY OnlyMembers
<1> DEFINE q == Only(s, S)
<1> HIDE DEF q
<1>2. q \in Seq({})
  BY <1>1 DEF q
<1>3. q = <<>>
  <2>1. Len(q) \in Nat /\ \A i \in 1 .. Len(q) : q[i] \in {}
    BY <1>2, ElementOfSeq, LenProperties
  <2>2. Len(q) = 0
    BY <2>1
  <2>3. QED
    BY <1>2, <2>2, EmptySeq
<1>4. QED
  BY <1>3 DEF q

\* One more member is chosen, after those that were.
LEMMA OnlyNext ==
    ASSUME NEW T, NEW q \in Seq(T), Distinct(q), NEW n \in 1 .. Len(q), NEW S,
           \A i \in n .. Len(q) : q[i] \notin S
    PROVE  Only(q, S \cup {q[n]}) = Append(Only(q, S), q[n])
<1> DEFINE x == q[n]
           a == SubSeq(q, 1, n - 1)
           b == SubSeq(q, n + 1, Len(q))
           R == S \cup {x}
           Early == {q[i] : i \in 1 .. n - 1}
           Late == {q[i] : i \in n + 1 .. Len(q)}
<1>1. Len(q) \in Nat /\ \A i \in 1 .. Len(q) : q[i] \in T
  BY ElementOfSeq, LenProperties
<1>2. x \in T /\ n \in 0 .. Len(q) /\ n - 1 \in 0 .. Len(q)
  BY <1>1
<1>3. a \in Seq(Early)
  <2>1. 1 \in Int /\ n - 1 \in Int /\ \A i \in 1 .. n - 1 : q[i] \in Early
    BY <1>1
  <2>2. QED
    BY <2>1, SubSeqProperties
<1>4. b \in Seq(Late)
  <2>1. n + 1 \in Int /\ Len(q) \in Int /\ \A i \in n + 1 .. Len(q) : q[i] \in Late
    BY <1>1
  <2>2. QED
    BY <2>1, SubSeqProperties
<1>5. q = Cat(Append(a, x), b)
  <2>1. SubSeq(q, 1, n) = Append(a, x)
    BY Beginnings
  <2>2. QED
    BY <1>2, <2>1, CatSplit
<1>6. x \notin Early /\ x \notin Late /\ Late \cap S = {} /\ x \notin S
  <2>1. \A i \in 1 .. n - 1 : i \in 1 .. Len(q) /\ i # n
    BY <1>1
  <2>2. \A i \in n + 1 .. Len(q) : i \in 1 .. Len(q) /\ i # n /\ i \in n .. Len(q)
    BY <1>1
  <2>3. n \in n .. Len(q)
    BY <1>1
  <2>4. QED
    BY <2>1, <2>2, <2>3 DEF Distinct
<1>7. Early \subseteq T /\ Late \subseteq T
  <2>1. \A i \in 1 .. n - 1 : i \in 1 .. Len(q)
    BY <1>1
  <2>2. \A i \in n + 1 .. Len(q) : i \in 1 .. Len(q)
    BY <1>1
  <2>3. QED
    BY <1>1, <2>1, <2>2
<1>8. a \in Seq(T) /\ b \in Seq(T)
  BY <1>3, <1>4, <1>7, SeqMonotonic
<1>9. Only(a, R) = Only(a, S)
  <2>1. Early \cap R = Early \cap S
    BY <1>6
  <2> HIDE DEF Early, R, a
  <2>2. QED
    BY <1>3, <2>1, OnlyAgree
<1>10. Only(b, R) = <<>> /\ Only(b, S) = <<>>
  <2>1. Late \cap R = {} /\ Late \cap S = {}
    BY <1>6
  <2>2. QED
    BY <1>4, <2>1, OnlyNone
<1>11. Append(a, x) \in Seq(T) /\ Only(a, S) \in Seq(T) /\ Append(Only(a, S), x) \in Seq(T)
  <2>1. Only(a, S) \in Seq(T)
    BY <1>8, OnlyType
  <2>2. \A u \in Seq(T) : Append(u, x) \in Seq(T)
    BY <1>2, AppendProperties
  <2>3. QED
    BY <1>8, <2>1, <2>2
<1>12. Only(Append(a, x), R) = Append(Only(a, S), x) /\ Only(Append(a, x), S) = Only(a, S)
  <2>1. x \in R
    OBVIOUS
  <2> HIDE DEF a, x, R
  <2>2. Only(Append(a, x), R) = Append(Only(a, R), x)
    BY <1>2, <1>6, <1>8, <2>1, OnlyAppend
  <2>3. Only(Append(a, x), S) = Only(a, S)
    BY <1>2, <1>6, <1>8, OnlyAppend
  <2>4. QED
    BY <1>9, <2>2, <2>3
<1> HIDE DEF a, b, x, R
<1>13. \A Z : \A u, v \in Seq(T) : Only(Cat(u, v), Z) = Cat(Only(u, Z), Only(v, Z))
  BY OnlyCat
<1>14. Only(q, R) = Cat(Append(Only(a, S), x), <<>>) /\ Only(q, S) = Cat(Only(a, S), <<>>)
  <2> DEFINE u == Append(a, x)
  <2>1. u \in Seq(T) /\ b \in Seq(T) /\ q = Cat(u, b)
    BY <1>5, <1>8, <1>11
  <2>2. Only(u, R) = Append(Only(a, S), x) /\ Only(u, S) = Only(a, S)
    BY <1>12
  <2> HIDE DEF u
  <2>3. Only(q, R) = Cat(Only(u, R), Only(b, R))
    BY <1>13, <2>1
  <2>4. Only(q, S) = Cat(Only(u, S), Only(b, S))
    BY <1>13, <2>1
  <2>5. QED
    BY <1>10, <2>2, <2>3, <2>4
<1>15. Cat(Append(Only(a, S), x), <<>>) = Append(Only(a, S), x) /\ Cat(Only(a, S), <<>>) = Only(a, S)
  BY <1>11, CatLaws
<1>16. Only(q, R) = Append(Only(q, S), x)
  BY <1>14, <1>15
<1>17. QED
  BY <1>16 DEF R, x

-------------------------------------------------------------------------------
(***************************************************************************)
(* The members of a sequence, of two joined, and of sequences flattened.   *)
(***************************************************************************)
LEMMA RangeIs ==
    ASSUME NEW T, NEW s \in Seq(T)
    PROVE  \A x : x \in Range(s) <=> \E i \in 1 .. Len(s) : s[i] = x
<1>1. DOMAIN s = 1 .. Len(s)
  BY LenProperties
<1>2. QED
  BY <1>1 DEF Range

LEMMA RangeCat ==
    ASSUME NEW T, NEW s \in Seq(T), NEW t \in Seq(T)
    PROVE  Range(Cat(s, t)) = Range(s) \cup Range(t)
<1> DEFINE c == Cat(s, t)
<1>1. /\ c \in Seq(T) /\ Len(c) = Len(s) + Len(t)
      /\ \A i \in 1 .. Len(s) + Len(t) : c[i] = IF i <= Len(s) THEN s[i] ELSE t[i - Len(s)]
  BY ConcatProperties DEF Cat
<1>2. Len(s) \in Nat /\ Len(t) \in Nat
  BY LenProperties
<1> HIDE DEF c
<1>3. /\ \A x : x \in Range(c) <=> \E i \in 1 .. Len(s) + Len(t) : c[i] = x
      /\ \A x : x \in Range(s) <=> \E i \in 1 .. Len(s) : s[i] = x
      /\ \A x : x \in Range(t) <=> \E i \in 1 .. Len(t) : t[i] = x
  BY <1>1, RangeIs
<1>4. ASSUME NEW x \in Range(c) PROVE x \in Range(s) \cup Range(t)
  <2>1. PICK i \in 1 .. Len(s) + Len(t) : c[i] = x
    BY <1>3
  <2>2. CASE i <= Len(s)
    <3>1. i \in 1 .. Len(s) /\ s[i] = x
      BY <1>1, <1>2, <2>1, <2>2
    <3>2. QED
      BY <3>1, <1>3
  <2>3. CASE ~(i <= Len(s))
    <3>1. i - Len(s) \in 1 .. Len(t) /\ t[i - Len(s)] = x
      BY <1>1, <1>2, <2>1, <2>3
    <3>2. QED
      BY <3>1, <1>3
  <2>4. QED
    BY <2>2, <2>3
<1>5. ASSUME NEW x \in Range(s) PROVE x \in Range(c)
  <2>1. PICK i \in 1 .. Len(s) : s[i] = x
    BY <1>3
  <2>2. i \in 1 .. Len(s) + Len(t) /\ c[i] = x
    BY <1>1, <1>2, <2>1
  <2>3. QED
    BY <2>2, <1>3
<1>6. ASSUME NEW x \in Range(t) PROVE x \in Range(c)
  <2>1. PICK i \in 1 .. Len(t) : t[i] = x
    BY <1>3
  <2> DEFINE j == Len(s) + i
  <2>2. j \in 1 .. Len(s) + Len(t) /\ ~(j <= Len(s)) /\ j - Len(s) = i
    BY <1>2
  <2> HIDE DEF j
  <2>3. c[j] = x
    BY <1>1, <2>1, <2>2
  <2>4. QED
    BY <2>2, <2>3, <1>3
<1>7. QED
  BY <1>4, <1>5, <1>6 DEF c

LEMMA RangeOne ==
    ASSUME NEW T, NEW s \in Seq(T), NEW x \in T
    PROVE  Append(s, x) \in Seq(T) /\ Range(Append(s, x)) = Range(s) \cup {x}
<1>1. Append(s, x) = Cat(s, <<x>>) /\ <<x>> \in Seq(T) /\ Append(s, x) \in Seq(T)
  BY CatAppend, AppendProperties
<1>2. Range(Append(s, x)) = Range(s) \cup Range(<<x>>)
  BY <1>1, RangeCat
<1>3. Range(<<x>>) = {x}
  BY DEF Range
<1>4. QED
  BY <1>1, <1>2, <1>3

\* A sequence of sequences of one length.
LEMMA FlattenLength ==
    ASSUME NEW T, NEW q \in Nat
    PROVE  \A ss \in Seq(Seq(T)) : (\A x \in Range(ss) : Len(x) = q) => Len(FlattenSeq(ss)) = Len(ss) * q
<1> DEFINE G == {ss \in Seq(Seq(T)) : (\A x \in Range(ss) : Len(x) = q) => Len(FlattenSeq(ss)) = Len(ss) * q}
<1>1. <<>> \in G
  BY EmptySeq, FlattenAppend
<1>2. ASSUME NEW ss \in Seq(Seq(T)), NEW x \in Seq(T), ss \in G PROVE Append(ss, x) \in G
  <2> DEFINE long == Append(ss, x)
  <2>1. long \in Seq(Seq(T)) /\ Range(long) = Range(ss) \cup {x} /\ Len(long) = Len(ss) + 1
    BY RangeOne, AppendProperties
  <2>2. FlattenSeq(long) = Cat(FlattenSeq(ss), x) /\ FlattenSeq(ss) \in Seq(T)
    BY FlattenAppend
  <2>3. Len(Cat(FlattenSeq(ss), x)) = Len(FlattenSeq(ss)) + Len(x)
    BY <2>2, ConcatProperties DEF Cat
  <2>4. Len(ss) \in Nat
    BY LenProperties
  <2>5. ASSUME \A y \in Range(long) : Len(y) = q PROVE Len(FlattenSeq(long)) = Len(long) * q
    <3>1. Len(x) = q /\ Len(FlattenSeq(ss)) = Len(ss) * q
      BY <1>2, <2>1, <2>5
    <3>2. Len(ss) * q + q = (Len(ss) + 1) * q
      BY <2>4
    <3>3. QED
      BY <2>1, <2>2, <2>3, <3>1, <3>2
  <2>6. QED
    BY <2>1, <2>5
<1>3. Seq(Seq(T)) \subseteq G
  BY <1>1, <1>2, SequenceInduction
<1>4. QED
  BY <1>3

LEMMA FlattenMembers ==
    ASSUME NEW T
    PROVE  \A ss \in Seq(Seq(T)) :
               \A x : x \in Range(FlattenSeq(ss)) <=> \E s \in Range(ss) : x \in Range(s)
<1> DEFINE G == {ss \in Seq(Seq(T)) :
                    \A x : x \in Range(FlattenSeq(ss)) <=> \E s \in Range(ss) : x \in Range(s)}
<1>1. <<>> \in G
  <2>1. Range(<<>>) = {}
    BY DEF Range
  <2>2. QED
    BY <2>1, EmptySeq, FlattenAppend
<1>2. ASSUME NEW ss \in Seq(Seq(T)), NEW y \in Seq(T), ss \in G PROVE Append(ss, y) \in G
  <2> DEFINE long == Append(ss, y)
  <2>1. long \in Seq(Seq(T)) /\ Range(long) = Range(ss) \cup {y}
    BY RangeOne
  <2>2. FlattenSeq(long) = Cat(FlattenSeq(ss), y) /\ FlattenSeq(ss) \in Seq(T)
    BY FlattenAppend
  <2>3. Range(FlattenSeq(long)) = Range(FlattenSeq(ss)) \cup Range(y)
    BY <2>2, RangeCat
  <2>4. QED
    BY <1>2, <2>1, <2>3
<1>3. Seq(Seq(T)) \subseteq G
  BY <1>1, <1>2, SequenceInduction
<1>4. QED
  BY <1>3

(***************************************************************************)
(* Sequences that have each member of a set once.                          *)
(***************************************************************************)
Lists(s, S) == s \in Seq(S) /\ Range(s) = S /\ Distinct(s)

\* The members of a sequence, in the words of the standard and the community modules.
LEMMA ElementsAre ==
    ASSUME NEW T, NEW s \in Seq(T)
    PROVE  /\ ToSet(s) = Range(s)
           /\ \A e : Contains(s, e) <=> e \in Range(s)
           /\ Range(s) \subseteq T
           /\ s \in Seq(Range(s))
<1>1. DOMAIN s = 1 .. Len(s) /\ Len(s) \in Nat /\ \A i \in 1 .. Len(s) : s[i] \in T
  BY LenProperties, ElementOfSeq
<1>2. \A i \in 1 .. Len(s) : s[i] \in Range(s)
  BY <1>1 DEF Range
<1>3. s \in Seq(Range(s))
  BY <1>1, <1>2, LenProperties
<1>4. QED
  BY <1>1, <1>3 DEF ToSet, Range, Contains

\* The empty sequence.
LEMMA NoMembers == Range(<<>>) = {} /\ Distinct(<<>>) /\ \A S : <<>> \in Seq(S)
<1>1. Len(<<>>) = 0 /\ 1 .. 0 = {}
  BY EmptySeq
<1>2. QED
  BY <1>1, EmptySeq DEF Distinct, Range

\* A sequence with one member.
LEMMA OneMember ==
    ASSUME NEW e
    PROVE  Lists(<<e>>, {e})
  BY DEF Lists, Range, Distinct

\* The members that Only keeps.
LEMMA OnlyRange ==
    ASSUME NEW T, NEW S
    PROVE  \A s \in Seq(T) : Range(Only(s, S)) = Range(s) \cap S
<1> DEFINE G == {s \in Seq(T) : Range(Only(s, S)) = Range(s) \cap S}
<1>1. <<>> \in G
  BY NoMembers, OnlyEmpty
<1>2. ASSUME NEW s \in Seq(T), NEW x \in T, s \in G PROVE Append(s, x) \in G
  <2>1. Append(s, x) \in Seq(T) /\ Range(Append(s, x)) = Range(s) \cup {x}
    BY RangeOne
  <2>2. Only(s, S) \in Seq(T)
    BY OnlyType
  <2>3. Range(Append(Only(s, S), x)) = Range(Only(s, S)) \cup {x}
    BY <2>2, RangeOne
  <2>4. Only(Append(s, x), S) = IF x \in S THEN Append(Only(s, S), x) ELSE Only(s, S)
    <3>1. s \in Seq(T) /\ x \in T
      OBVIOUS
    <3> HIDE DEF G
    <3>2. \A y \in T : Only(Append(s, y), S) = IF y \in S THEN Append(Only(s, S), y) ELSE Only(s, S)
      BY <3>1, OnlyOneMore
    <3>3. QED
      BY <3>1, <3>2
  <2>5. Range(Only(Append(s, x), S)) = Range(Append(s, x)) \cap S
    BY <1>2, <2>1, <2>3, <2>4
  <2>6. QED
    BY <2>1, <2>5
<1>3. Seq(T) \subseteq G
  BY <1>1, <1>2, SequenceInduction
<1>4. QED
  BY <1>3

\* Only keeps a member of the set where it is, and each once.
LEMMA OnlyLists ==
    ASSUME NEW T, NEW s, Lists(s, T), NEW S
    PROVE  Lists(Only(s, S), T \cap S)
<1>1. s \in Seq(T) /\ Range(s) = T /\ Distinct(s)
  BY DEF Lists
<1>2. Only(s, S) \in Seq(T \cap S) /\ Range(Only(s, S)) = T \cap S /\ Distinct(Only(s, S))
  BY <1>1, OnlyMembers, OnlyRange, OnlyDistinct
<1>3. QED
  BY <1>2 DEF Lists

\* Two sequences one after the other.
LEMMA CatDistinct ==
    ASSUME NEW T, NEW s \in Seq(T), NEW t \in Seq(T)
    PROVE  Distinct(Cat(s, t)) <=> Distinct(s) /\ Distinct(t) /\ Range(s) \cap Range(t) = {}
<1> DEFINE c == Cat(s, t)
           a == Len(s)
           b == Len(t)
<1>1. /\ c \in Seq(T) /\ Len(c) = a + b /\ a \in Nat /\ b \in Nat
      /\ \A i \in 1 .. a + b : c[i] = IF i <= a THEN s[i] ELSE t[i - a]
  BY ConcatProperties, LenProperties DEF Cat
<1>2. /\ \A x : x \in Range(s) <=> \E i \in 1 .. a : s[i] = x
      /\ \A x : x \in Range(t) <=> \E i \in 1 .. b : t[i] = x
  BY RangeIs
<1>3. /\ Distinct(s) <=> \A i, j \in 1 .. a : s[i] = s[j] => i = j
      /\ Distinct(t) <=> \A i, j \in 1 .. b : t[i] = t[j] => i = j
      /\ Distinct(c) <=> \A i, j \in 1 .. a + b : c[i] = c[j] => i = j
  BY <1>1 DEF Distinct
<1> HIDE DEF c, a, b
<1>4. /\ \A i \in 1 .. a : i \in 1 .. a + b /\ c[i] = s[i]
      /\ \A i \in 1 .. b : a + i \in 1 .. a + b /\ c[a + i] = t[i]
      /\ \A i \in 1 .. a + b : i \in 1 .. a \/ (i - a \in 1 .. b /\ i = a + (i - a))
  BY <1>1
<1>5. ASSUME Distinct(c) PROVE Distinct(s) /\ Distinct(t) /\ Range(s) \cap Range(t) = {}
  <2>1. Distinct(s)
    BY <1>3, <1>4, <1>5
  <2>2. Distinct(t)
    <3>1. \A i, j \in 1 .. b : t[i] = t[j] => a + i = a + j
      BY <1>3, <1>4, <1>5
    <3>2. QED
      BY <1>1, <1>3, <3>1
  <2>3. \A i \in 1 .. a, j \in 1 .. b : s[i] # t[j]
    <3>1. \A i \in 1 .. a, j \in 1 .. b : s[i] = t[j] => i = a + j
      BY <1>3, <1>4, <1>5
    <3>2. \A i \in 1 .. a, j \in 1 .. b : i # a + j
      BY <1>1
    <3>3. QED
      BY <3>1, <3>2
  <2>4. QED
    BY <1>2, <2>1, <2>2, <2>3
<1>6. ASSUME Distinct(s), Distinct(t), Range(s) \cap Range(t) = {} PROVE Distinct(c)
  <2>1. \A i \in 1 .. a, j \in 1 .. b : s[i] # t[j]
    BY <1>2, <1>6
  <2>2. SUFFICES ASSUME NEW i \in 1 .. a + b, NEW j \in 1 .. a + b, c[i] = c[j] PROVE i = j
    BY <1>3
  <2>3. CASE i \in 1 .. a /\ j \in 1 .. a
    BY <1>3, <1>4, <1>6, <2>2, <2>3
  <2>4. CASE i - a \in 1 .. b /\ j - a \in 1 .. b
    <3>1. c[i] = t[i - a] /\ c[j] = t[j - a]
      BY <1>1, <2>4
    <3>2. i - a = j - a
      BY <1>3, <1>6, <2>2, <2>4, <3>1
    <3>3. QED
      BY <1>1, <3>2
  <2>5. CASE i \in 1 .. a /\ j - a \in 1 .. b
    <3>1. c[i] = s[i] /\ c[j] = t[j - a]
      BY <1>1, <2>5
    <3>2. QED
      BY <2>1, <2>2, <2>5, <3>1
  <2>6. CASE i - a \in 1 .. b /\ j \in 1 .. a
    <3>1. c[i] = t[i - a] /\ c[j] = s[j]
      BY <1>1, <2>6
    <3>2. QED
      BY <2>1, <2>2, <2>6, <3>1
  <2>7. QED
    BY <1>4, <2>3, <2>4, <2>5, <2>6
<1>7. QED
  BY <1>5, <1>6 DEF c

\* Sequences without repetitions and without a common member, one after the other.
LEMMA FlattenDistinct ==
    ASSUME NEW T
    PROVE  \A ss \in Seq(Seq(T)) :
               /\ \A i \in 1 .. Len(ss) : Distinct(ss[i])
               /\ \A i, j \in 1 .. Len(ss) : i # j => Range(ss[i]) \cap Range(ss[j]) = {}
               => Distinct(FlattenSeq(ss))
<1> DEFINE Apart(ss) ==
               /\ \A i \in 1 .. Len(ss) : Distinct(ss[i])
               /\ \A i, j \in 1 .. Len(ss) : i # j => Range(ss[i]) \cap Range(ss[j]) = {}
           G == {ss \in Seq(Seq(T)) : Apart(ss) => Distinct(FlattenSeq(ss))}
<1>1. <<>> \in G
  BY NoMembers, FlattenAppend
<1>2. ASSUME NEW ss \in Seq(Seq(T)), NEW y \in Seq(T), ss \in G PROVE Append(ss, y) \in G
  <2> DEFINE long == Append(ss, y)
             n == Len(ss)
  <2>1. /\ long \in Seq(Seq(T)) /\ Len(long) = n + 1 /\ n \in Nat /\ long[n + 1] = y
        /\ \A i \in 1 .. n : long[i] = ss[i]
    BY AppendProperties, LenProperties
  <2>2. FlattenSeq(long) = Cat(FlattenSeq(ss), y) /\ FlattenSeq(ss) \in Seq(T)
    BY FlattenAppend
  <2>3. ASSUME Apart(long) PROVE Distinct(FlattenSeq(long))
    <3> HIDE DEF long
    <3>1. /\ \A i \in 1 .. n : Distinct(ss[i]) /\ Range(ss[i]) \cap Range(y) = {}
          /\ \A i, j \in 1 .. n : i # j => Range(ss[i]) \cap Range(ss[j]) = {}
          /\ Distinct(y)
      <4>1. n + 1 \in 1 .. n + 1 /\ \A i \in 1 .. n : i \in 1 .. n + 1 /\ i # n + 1
        BY <2>1
      <4> HIDE DEF n
      <4>2. \A i, j \in 1 .. n + 1 : i # j => Range(long[i]) \cap Range(long[j]) = {}
        BY <2>1, <2>3
      <4>3. \A i \in 1 .. n + 1 : Distinct(long[i])
        BY <2>1, <2>3
      <4>4. ASSUME NEW i \in 1 .. n PROVE Distinct(ss[i]) /\ Range(ss[i]) \cap Range(y) = {}
        BY <2>1, <4>1, <4>2, <4>3
      <4>5. ASSUME NEW i \in 1 .. n, NEW j \in 1 .. n, i # j PROVE Range(ss[i]) \cap Range(ss[j]) = {}
        BY <2>1, <4>1, <4>2, <4>5
      <4>6. Distinct(y)
        BY <2>1, <4>1, <4>3
      <4>7. QED
        BY <4>4, <4>5, <4>6
    <3>2. Distinct(FlattenSeq(ss))
      BY <1>2, <3>1
    <3>3. Range(FlattenSeq(ss)) \cap Range(y) = {}
      <4>1. \A x : x \in Range(FlattenSeq(ss)) <=> \E s \in Range(ss) : x \in Range(s)
        BY FlattenMembers
      <4>2. \A s \in Range(ss) : \E i \in 1 .. n : s = ss[i]
        BY RangeIs
      <4>3. QED
        BY <3>1, <4>1, <4>2
    <3>4. Distinct(Cat(FlattenSeq(ss), y))
      BY <2>2, <3>1, <3>2, <3>3, CatDistinct
    <3>5. QED
      BY <2>2, <3>4
  <2>4. QED
    BY <2>1, <2>3
<1>3. Seq(Seq(T)) \subseteq G
  BY <1>1, <1>2, SequenceInduction
<1>4. QED
  BY <1>3

\* As long as it has members.
LEMMA ListsLength ==
    ASSUME NEW s, NEW S, Lists(s, S)
    PROVE  IsFiniteSet(S) /\ Cardinality(S) = Len(s)
<1>1. s \in [1 .. Len(s) -> S] /\ Len(s) \in Nat
  BY LenProperties, ElementOfSeq DEF Lists
<1>2. \A x \in S : \E i \in 1 .. Len(s) : s[i] = x
  BY RangeIs DEF Lists
<1>3. \A i, j \in 1 .. Len(s) : s[i] = s[j] => i = j
  BY DEF Lists, Distinct
<1>4. s \in Bijection(1 .. Len(s), S)
  BY <1>1, <1>2, <1>3 DEF Bijection, Injection, Surjection, IsInjective
<1>5. ExistsBijection(1 .. Len(s), S)
  BY <1>4 DEF ExistsBijection
<1>6. QED
  BY <1>1, <1>5, FS_NatBijection, FS_CountingElements

\* The places of its members.
LEMMA Positions ==
    ASSUME NEW s, NEW S, Lists(s, S), NEW p, p = [e \in S |-> CHOOSE i \in DOMAIN s : s[i] = e]
    PROVE  /\ \A e \in S : p[e] \in 1 .. Len(s) /\ s[p[e]] = e
           /\ \A d, e \in S : p[d] = p[e] => d = e
<1>1. DOMAIN s = 1 .. Len(s) /\ \A e \in S : \E i \in 1 .. Len(s) : s[i] = e
  BY RangeIs, LenProperties DEF Lists
<1>2. ASSUME NEW e \in S PROVE p[e] \in 1 .. Len(s) /\ s[p[e]] = e
  BY <1>1
<1>3. QED
  BY <1>2
===============================================================================
