---------------------------- MODULE TransferProofs ----------------------------
(***************************************************************************)
(* Theorems about LexicalTransfer: which documents it accepts, that what   *)
(* it prints follows the source, and that no translation is lost; and      *)
(* about ChunkTree: that no word is lost when its sentence is printed.     *)
(***************************************************************************)
EXTENDS LexicalTransfer, ChunkTree, SequenceLemmas

(***************************************************************************)
(* The tags of the source, and what is printed.                            *)
(***************************************************************************)
TagTypes   == {"start", "end", "empty"}
PlainTags  == [name : Names, type : TagTypes]
SourceTags == [name : Names \ {"CHUNK", "NODE"}, type : {"start", "empty"}]
                  \cup [name : Names, type : {"end"}]
                  \cup [name : {"CHUNK"}, type : {"start", "empty"}, chunk : Chunks]
                  \cup [name : {"NODE"}, type : {"start", "empty"}, word : Words]
Printed    == {Node(w) : w \in Words}
                  \cup [name : {"CHUNK"}, type : {"start"}, chunkType : {ChunkType(c) : c \in Chunks}]
                  \cup PlainTags

LEMMA TagsAre ==
    /\ \A t \in SourceTags : t.name \in Names /\ t.type \in TagTypes
    /\ \A t \in Printed : t.name \in Names /\ t.type \in TagTypes
    /\ \A n \in Names, y \in TagTypes : Tag(n, y) \in Printed \cap PlainTags
    /\ \A n \in Names : Tag(n, "end") \in SourceTags
<1>1. \A t \in SourceTags : t.name \in Names /\ t.type \in TagTypes
  BY DEF SourceTags, TagTypes, Names
<1>2. \A w : Node(w).name = "NODE" /\ Node(w).type = "start"
  BY DEF Node
<1>3. \A t \in Printed : t.name \in Names /\ t.type \in TagTypes
  <2> TAKE t \in Printed
  <2>1. CASE t \in {Node(w) : w \in Words}
    BY <2>1, <1>2 DEF Names, TagTypes
  <2>2. CASE t \in [name : {"CHUNK"}, type : {"start"}, chunkType : {ChunkType(c) : c \in Chunks}]
    BY <2>2 DEF Names, TagTypes
  <2>3. CASE t \in PlainTags
    BY <2>3 DEF PlainTags
  <2>4. QED
    BY <2>1, <2>2, <2>3 DEF Printed
<1>4. \A n \in Names, y \in TagTypes : Tag(n, y) \in PlainTags
  BY DEF Tag, PlainTags
<1>5. \A n \in Names : Tag(n, "end") \in SourceTags
  BY DEF Tag, SourceTags
<1>6. QED
  BY <1>1, <1>3, <1>4, <1>5 DEF Printed

(***************************************************************************)
(* Skeleton and Unfolded take the tags one by one.                         *)
(***************************************************************************)
LEMMA EachAppend ==
    ASSUME NEW T, NEW U, NEW f \in [T -> U], NEW s \in Seq(T), NEW x \in T
    PROVE  /\ [i \in DOMAIN s |-> f[s[i]]] \in Seq(U)
           /\ [i \in DOMAIN Append(s, x) |-> f[Append(s, x)[i]]]
                  = Append([i \in DOMAIN s |-> f[s[i]]], f[x])
<1> DEFINE M(z) == [i \in DOMAIN z |-> f[z[i]]]
<1>1. ASSUME NEW z \in Seq(T)
      PROVE  /\ Len(z) \in Nat /\ M(z) \in Seq(U) /\ Len(M(z)) = Len(z)
             /\ \A i \in 1 .. Len(z) : M(z)[i] = f[z[i]]
  <2>1. Len(z) \in Nat /\ DOMAIN z = 1 .. Len(z) /\ \A i \in 1 .. Len(z) : z[i] \in T
    BY LenProperties, ElementOfSeq
  <2>2. M(z) \in [1 .. Len(z) -> U]
    BY <2>1
  <2>3. \A i \in 1 .. Len(z) : M(z)[i] = f[z[i]]
    BY <2>1
  <2> HIDE DEF M
  <2>4. QED
    BY <2>1, <2>2, <2>3
<1> HIDE DEF M
<1> DEFINE t == Append(s, x)
           b == Append(M(s), f[x])
<1>2. /\ t \in Seq(T) /\ Len(s) \in Nat /\ Len(t) = Len(s) + 1
      /\ \A n \in 1 .. Len(s) : t[n] = s[n]
      /\ t[Len(s) + 1] = x
  BY AppendProperties, LenProperties
<1>3. f[x] \in U
  OBVIOUS
<1>4. /\ b \in Seq(U) /\ Len(b) = Len(s) + 1
      /\ \A n \in 1 .. Len(s) : b[n] = M(s)[n]
      /\ b[Len(s) + 1] = f[x]
  BY <1>1, <1>3, AppendProperties
<1> HIDE DEF t, b
<1>5. M(t) \in Seq(U) /\ Len(M(t)) = Len(s) + 1 /\ \A n \in 1 .. Len(s) + 1 : M(t)[n] = f[t[n]]
  BY <1>1, <1>2
<1>6. \A n \in 1 .. Len(s) + 1 : M(t)[n] = b[n]
  <2>1. \A n \in 1 .. Len(s) + 1 : n \in 1 .. Len(s) \/ n = Len(s) + 1
    BY <1>2
  <2>2. QED
    BY <2>1, <1>1, <1>2, <1>4, <1>5
<1>7. M(t) = b
  BY <1>4, <1>5, <1>6, SeqEqual
<1>8. QED
  BY <1>1, <1>7 DEF M, t, b

Plain(t)  == Tag(t.name, t.type)
Unfold(t) == IF t.type = "empty" THEN <<Tag(t.name, "start"), Tag(t.name, "end")>> ELSE <<Plain(t)>>

LEMMA SkeletonLaws ==
    /\ Skeleton(<<>>) = <<>>
    /\ \A s \in Seq(Printed) : Skeleton(s) \in Seq(PlainTags)
    /\ \A s \in Seq(Printed), t \in Printed : Skeleton(Append(s, t)) = Append(Skeleton(s), Plain(t))
<1> DEFINE f == [t \in Printed |-> Plain(t)]
<1>1. f \in [Printed -> PlainTags]
  BY TagsAre DEF Plain
<1>2. Skeleton(<<>>) = <<>>
  BY EmptySeq DEF Skeleton
<1>3. ASSUME NEW s \in Seq(Printed) PROVE Skeleton(s) = [i \in DOMAIN s |-> f[s[i]]]
  <2>1. \A i \in DOMAIN s : s[i] \in Printed
    BY LenProperties, ElementOfSeq
  <2>2. QED
    BY <2>1 DEF Skeleton, Plain
<1>4. \A t \in Printed : f[t] = Plain(t)
  OBVIOUS
<1> HIDE DEF f
<1>5. \A s \in Seq(Printed), t \in Printed :
          /\ Append(s, t) \in Seq(Printed)
          /\ [i \in DOMAIN s |-> f[s[i]]] \in Seq(PlainTags)
          /\ [i \in DOMAIN Append(s, t) |-> f[Append(s, t)[i]]] = Append([i \in DOMAIN s |-> f[s[i]]], f[t])
  BY <1>1, EachAppend, AppendProperties
<1>6. \E t : t \in Printed
  BY TagsAre DEF Names, TagTypes
<1>7. QED
  BY <1>2, <1>3, <1>4, <1>5, <1>6

LEMMA UnfoldedLaws ==
    /\ Unfolded(<<>>) = <<>>
    /\ \A t \in SourceTags : Unfold(t) \in Seq(PlainTags)
    /\ \A s \in Seq(SourceTags) : Unfolded(s) \in Seq(PlainTags)
    /\ \A s \in Seq(SourceTags), t \in SourceTags : Unfolded(Append(s, t)) = Cat(Unfolded(s), Unfold(t))
<1> DEFINE f == [t \in SourceTags |-> Unfold(t)]
<1>1. \A t \in SourceTags : Unfold(t) \in Seq(PlainTags)
  <2> TAKE t \in SourceTags
  <2>1. /\ Tag(t.name, "start") \in PlainTags /\ Tag(t.name, "end") \in PlainTags
        /\ Plain(t) \in PlainTags
    BY TagsAre DEF TagTypes, Plain
  <2>2. QED
    BY <2>1 DEF Unfold
<1>2. f \in [SourceTags -> Seq(PlainTags)]
  BY <1>1
<1>3. ASSUME NEW s \in Seq(SourceTags)
      PROVE  Unfolded(s) = FlattenSeq([i \in DOMAIN s |-> f[s[i]]])
  <2>1. \A i \in DOMAIN s : s[i] \in SourceTags
    BY LenProperties, ElementOfSeq
  <2>2. QED
    BY <2>1 DEF Unfolded, Unfold, Plain
<1>4. \A t \in SourceTags : f[t] = Unfold(t)
  OBVIOUS
<1> DEFINE R == Seq(PlainTags)
<1>r. f \in [SourceTags -> R]
  BY <1>2
<1> HIDE DEF f, R
<1>5. \A s \in Seq(SourceTags), t \in SourceTags :
          /\ Append(s, t) \in Seq(SourceTags)
          /\ [i \in DOMAIN s |-> f[s[i]]] \in Seq(R)
          /\ [i \in DOMAIN Append(s, t) |-> f[Append(s, t)[i]]] = Append([i \in DOMAIN s |-> f[s[i]]], f[t])
  BY <1>r, EachAppend, AppendProperties
<1>6. \E t : t \in SourceTags
  BY TagsAre DEF Names, TagTypes
<1>7. /\ FlattenSeq(<<>>) = <<>>
      /\ \A ss \in Seq(R) : FlattenSeq(ss) \in R
      /\ \A ss \in Seq(R), x \in R : FlattenSeq(Append(ss, x)) = Cat(FlattenSeq(ss), x)
  BY FlattenAppend DEF R
<1>8. Unfolded(<<>>) = <<>>
  <2>1. [i \in DOMAIN <<>> |-> f[<<>>[i]]] = <<>>
    BY EmptySeq
  <2>2. <<>> \in Seq(SourceTags)
    BY EmptySeq
  <2>3. QED
    BY <2>1, <2>2, <1>3, <1>7
<1>9. ASSUME NEW s \in Seq(SourceTags), NEW t \in SourceTags
      PROVE  Unfolded(s) \in R /\ Unfolded(Append(s, t)) = Cat(Unfolded(s), Unfold(t))
  <2> DEFINE g == [i \in DOMAIN s |-> f[s[i]]]
             h == [i \in DOMAIN Append(s, t) |-> f[Append(s, t)[i]]]
  <2>1. Append(s, t) \in Seq(SourceTags) /\ g \in Seq(R) /\ h = Append(g, f[t])
    BY <1>5
  <2>2. Unfolded(s) = FlattenSeq(g) /\ Unfolded(Append(s, t)) = FlattenSeq(h)
    BY <2>1, <1>3
  <2>3. f[t] = Unfold(t) /\ f[t] \in R
    BY <1>4, <1>r
  <2> HIDE DEF g, h
  <2>4. QED
    BY <2>1, <2>2, <2>3, <1>7
<1>10. QED
  BY <1>1, <1>6, <1>8, <1>9 DEF R

LEMMA SkeletonCat ==
    ASSUME NEW s \in Seq(Printed)
    PROVE  \A t \in Seq(Printed) : Skeleton(Cat(s, t)) = Cat(Skeleton(s), Skeleton(t))
<1> DEFINE G == {t \in Seq(Printed) : Skeleton(Cat(s, t)) = Cat(Skeleton(s), Skeleton(t))}
<1>1. \A z \in Seq(Printed) : Skeleton(z) \in Seq(PlainTags)
  BY SkeletonLaws
<1>2. <<>> \in G
  <2>1. <<>> \in Seq(Printed) /\ Cat(s, <<>>) = s
    BY CatLaws
  <2>2. Cat(Skeleton(s), <<>>) = Skeleton(s)
    BY <1>1, CatLaws
  <2>3. QED
    BY <2>1, <2>2, SkeletonLaws
<1>3. \A t \in Seq(Printed) : \A x \in Printed : t \in G => Append(t, x) \in G
  <2> SUFFICES ASSUME NEW t \in Seq(Printed), NEW x \in Printed, t \in G PROVE Append(t, x) \in G
    OBVIOUS
  <2> DEFINE u == Cat(s, t)
  <2>1. u \in Seq(Printed) /\ Cat(s, Append(t, x)) = Append(u, x)
    BY CatOfAppend
  <2>2. Append(t, x) \in Seq(Printed)
    BY AppendProperties
  <2>3. Skeleton(u) = Cat(Skeleton(s), Skeleton(t))
    OBVIOUS
  <2> HIDE DEF u
  <2>4. /\ Skeleton(Append(u, x)) = Append(Skeleton(u), Plain(x))
        /\ Skeleton(Append(t, x)) = Append(Skeleton(t), Plain(x))
    BY <2>1, SkeletonLaws
  <2>5. Plain(x) \in PlainTags
    BY TagsAre DEF Plain
  <2>6. Cat(Skeleton(s), Append(Skeleton(t), Plain(x))) = Append(Cat(Skeleton(s), Skeleton(t)), Plain(x))
    BY <1>1, <2>5, CatOfAppend
  <2>7. QED
    BY <2>1, <2>2, <2>3, <2>4, <2>6
<1>4. QED
  <2> HIDE DEF G
  <2>1. Seq(Printed) \subseteq G
    BY <1>2, <1>3, SequenceInduction
  <2>2. QED
    BY <2>1 DEF G

-------------------------------------------------------------------------------
(***************************************************************************)
(* ValidSoFar from one tag to the next.                                    *)
(***************************************************************************)
NameAt(s, i) == IF i = 0 THEN "none" ELSE s[i].name

\* What Allowed asks of a tag at place i inside of the element called n that
\* begins at p, as far as it can be told without the tag that follows.
Fits(t, n, p, i) ==
    CASE t.name = "corpus"   -> t.type = "start" /\ i = 1
      [] t.name = "SENTENCE" -> t.type = "start" /\ n = "corpus"
      [] t.name = "CHUNK"    -> t.type = "start" /\ (n = "SENTENCE" \/ (n = "CHUNK" /\ p < i - 1))
      [] t.name = "NODE"     -> n = "NODE" \/ (n = "CHUNK" /\ p = i - 1)
      [] OTHER               -> FALSE

AllowedIn(s, w, i) ==
    /\ Fits(s[i], NameAt(s, w[i]), w[i], i)
    /\ s[i].name = "CHUNK" /\ i < Len(s) => Starts(s[i + 1], "NODE")

ValidIn(s, w) ==
    /\ s # <<>>
    /\ s[1].name = "corpus"
    /\ \A i \in 1 .. Len(s) : IsStart(s[i]) => AllowedIn(s, w, i)

LEMMA ValidIs == src \in Seq(SourceTags) => (ValidSoFar <=> ValidIn(src, within))
<1> SUFFICES ASSUME src \in Seq(SourceTags) PROVE ValidSoFar <=> ValidIn(src, within)
  OBVIOUS
<1>1. DOMAIN src = 1 .. Len(src)
  BY LenProperties
<1>2. \A i : Allowed(i) <=> AllowedIn(src, within, i)
  BY DEF Allowed, AllowedIn, Fits, NameAt
<1>3. QED
  BY <1>1, <1>2 DEF ValidSoFar, ValidIn

Placed(s, w) ==
    /\ s \in Seq(SourceTags)
    /\ w \in Seq(Nat)
    /\ Len(w) = Len(s)
    /\ \A i \in 1 .. Len(s) : w[i] < i

LEMMA ValidAppend ==
    ASSUME NEW s, NEW w, Placed(s, w), s # <<>>, NEW t \in SourceTags, NEW p \in 0 .. Len(s)
    PROVE  ValidIn(Append(s, t), Append(w, p)) <=>
               /\ ValidIn(s, w)
               /\ Starts(s[Len(s)], "CHUNK") => Starts(t, "NODE")
               /\ IsStart(t) => Fits(t, NameAt(s, p), p, Len(s) + 1)
<1> DEFINE n == Len(s)
           s1 == Append(s, t)
           w1 == Append(w, p)
<1>1. /\ n \in Nat /\ n # 0 /\ s1 \in Seq(SourceTags) /\ Len(s1) = n + 1
      /\ \A i \in 1 .. n : s1[i] = s[i]
      /\ s1[n + 1] = t
  BY AppendProperties, LenProperties, EmptySeq DEF Placed
<1>2. /\ \A i \in 1 .. n : w1[i] = w[i] /\ w[i] \in 0 .. n
      /\ w1[n + 1] = p
  <2>1. p \in Nat /\ w \in Seq(Nat) /\ Len(w) = n
    BY DEF Placed
  <2>2. /\ \A i \in 1 .. n : w1[i] = w[i]
        /\ w1[n + 1] = p
    BY <2>1, AppendProperties
  <2>3. \A i \in 1 .. n : w[i] \in Nat /\ w[i] < i
    BY <2>1, ElementOfSeq DEF Placed
  <2> HIDE DEF n, w1
  <2>4. \A i \in 1 .. n : w[i] \in 0 .. n
    BY <2>3, <1>1
  <2>5. QED
    BY <2>2, <2>4
<1> HIDE DEF n, s1, w1
<1>3. \A j \in 0 .. n : NameAt(s1, j) = NameAt(s, j)
  BY <1>1 DEF NameAt
<1>4. \A i \in 1 .. n : i < n => (AllowedIn(s1, w1, i) <=> AllowedIn(s, w, i))
  <2> SUFFICES ASSUME NEW i \in 1 .. n, i < n PROVE AllowedIn(s1, w1, i) <=> AllowedIn(s, w, i)
    OBVIOUS
  <2>1. i + 1 \in 1 .. n /\ i < Len(s1)
    BY <1>1
  <2>2. s1[i] = s[i] /\ s1[i + 1] = s[i + 1] /\ w1[i] = w[i] /\ NameAt(s1, w[i]) = NameAt(s, w[i])
    BY <1>1, <1>2, <1>3, <2>1
  <2>3. QED
    BY <2>1, <2>2 DEF AllowedIn, n
<1>5. AllowedIn(s1, w1, n) <=> AllowedIn(s, w, n) /\ (s[n].name = "CHUNK" => Starts(t, "NODE"))
  <2>1. n \in 1 .. n /\ n < Len(s1) /\ ~(n < n)
    BY <1>1
  <2>2. s1[n] = s[n] /\ s1[n + 1] = t /\ w1[n] = w[n] /\ NameAt(s1, w[n]) = NameAt(s, w[n])
    BY <1>1, <1>2, <1>3, <2>1
  <2>3. QED
    BY <2>1, <2>2 DEF AllowedIn, n
<1>6. AllowedIn(s1, w1, n + 1) <=> Fits(t, NameAt(s, p), p, n + 1)
  <2>1. ~(n + 1 < Len(s1)) /\ NameAt(s1, p) = NameAt(s, p)
    BY <1>1, <1>3 DEF n
  <2>2. QED
    BY <1>1, <1>2, <2>1 DEF AllowedIn
<1>7. IsStart(s[n]) /\ s[n].name = "CHUNK" <=> Starts(s[n], "CHUNK")
  BY DEF IsStart, Starts
<1>8. s1 # <<>> /\ s1[1] = s[1]
  <2>1. 1 \in 1 .. n
    BY <1>1
  <2>2. QED
    BY <1>1, <2>1, EmptySeq
<1>9. (\A i \in 1 .. Len(s1) : IsStart(s1[i]) => AllowedIn(s1, w1, i)) <=>
          /\ \A i \in 1 .. n : IsStart(s[i]) => AllowedIn(s, w, i)
          /\ Starts(s[n], "CHUNK") => Starts(t, "NODE")
          /\ IsStart(t) => AllowedIn(s1, w1, n + 1)
  <2>1. \A i : i \in 1 .. Len(s1) <=> (i \in 1 .. n /\ i < n) \/ i = n \/ i = n + 1
    BY <1>1
  <2>2. \A i : i \in 1 .. n <=> (i \in 1 .. n /\ i < n) \/ i = n
    BY <1>1
  <2>3. \A i \in 1 .. n : s1[i] = s[i]
    BY <1>1
  <2>4. (\A i \in 1 .. Len(s1) : IsStart(s1[i]) => AllowedIn(s1, w1, i)) <=>
            /\ \A i \in 1 .. n : i < n => (IsStart(s1[i]) => AllowedIn(s1, w1, i))
            /\ IsStart(s1[n]) => AllowedIn(s1, w1, n)
            /\ IsStart(s1[n + 1]) => AllowedIn(s1, w1, n + 1)
    BY <2>1, Zenon
  <2>5. (\A i \in 1 .. n : IsStart(s[i]) => AllowedIn(s, w, i)) <=>
            /\ \A i \in 1 .. n : i < n => (IsStart(s[i]) => AllowedIn(s, w, i))
            /\ IsStart(s[n]) => AllowedIn(s, w, n)
    BY <2>2, Zenon
  <2>6. (\A i \in 1 .. n : i < n => (IsStart(s1[i]) => AllowedIn(s1, w1, i))) <=>
        (\A i \in 1 .. n : i < n => (IsStart(s[i]) => AllowedIn(s, w, i)))
    BY <2>3, <1>4, Zenon
  <2>7. s1[n] = s[n] /\ s1[n + 1] = t
    BY <1>1
  <2>8. QED
    BY <2>4, <2>5, <2>6, <2>7, <1>5, <1>7, Zenon
<1>10. QED
  BY <1>6, <1>8, <1>9 DEF ValidIn, n, s1, w1

-------------------------------------------------------------------------------
(***************************************************************************)
(* The calls and the elements that are open.                               *)
(***************************************************************************)
Procs == {"corpus", "SENTENCE", "head", "CHUNK", "NODE"}
Element(q) == IF q = "head" THEN "CHUNK" ELSE q

Nested(c) ==
    \A k \in 1 .. Len(c) :
        /\ c[k] = "corpus" <=> k = 1
        /\ c[k] = "SENTENCE" <=> k = 2
        /\ c[k] = "head" => k = Len(c)

NoHead(c) == \A k \in 1 .. Len(c) : c[k] # "head"

Paired(s, o, c) ==
    /\ Len(o) = Len(c)
    /\ \A k \in 1 .. Len(c) :
        /\ s[o[k]].name = Element(c[k])
        /\ c[k] = "head" => o[k] = Len(s)
        /\ c[k] = "CHUNK" => o[k] < Len(s)

\* The calls once a NODE has been read: a chunk has its node.
Returned(c) == IF c[Len(c)] = "head" THEN Append(Front(c), "CHUNK") ELSE c

OpenIn(s, o) == o \in Seq(Nat) /\ \A k \in 1 .. Len(o) : o[k] \in 1 .. Len(s)

LEMMA FrontIs ==
    ASSUME NEW T, NEW s \in Seq(T), s # <<>>
    PROVE  /\ Len(s) \in Nat \ {0} /\ s[Len(s)] \in T /\ Last(s) = s[Len(s)]
           /\ Front(s) \in Seq(T) /\ Len(Front(s)) = Len(s) - 1
           /\ \A k \in 1 .. Len(s) - 1 : Front(s)[k] = s[k]
<1>1. Len(s) \in Nat \ {0}
  BY EmptySeq, LenProperties
<1>2. s[Len(s)] \in T
  BY <1>1, ElementOfSeq
<1>3. Front(s) \in Seq(T) /\ Len(Front(s)) = Len(s) - 1 /\ \A k \in 1 .. Len(s) - 1 : Front(s)[k] = s[k]
  <2> DEFINE m == Len(s) - 1
  <2>1. m \in Nat /\ m \in Int /\ 1 \in Int /\ \A k \in 1 .. m : k \in 1 .. Len(s)
    BY <1>1
  <2>2. \A k \in 1 .. m : s[k] \in T
    BY <2>1, ElementOfSeq
  <2> HIDE DEF m
  <2>3. m - 1 + 1 = m /\ (IF 1 <= m THEN m - 1 + 1 ELSE 0) = m /\ \A k \in 1 .. m : 1 + k - 1 = k
    BY <2>1
  <2>4. /\ SubSeq(s, 1, m) \in Seq(T)
        /\ Len(SubSeq(s, 1, m)) = IF 1 <= m THEN m - 1 + 1 ELSE 0
        /\ \A k \in 1 .. m - 1 + 1 : SubSeq(s, 1, m)[k] = s[1 + k - 1]
    BY <2>1, <2>2, SubSeqProperties
  <2>5. Len(SubSeq(s, 1, m)) = m /\ \A k \in 1 .. m : SubSeq(s, 1, m)[k] = s[k]
    BY <2>3, <2>4
  <2>6. QED
    BY <2>4, <2>5 DEF Front, m
<1>4. QED
  BY <1>1, <1>2, <1>3 DEF Last

LEMMA NestedOn ==
    ASSUME NEW c \in Seq(Procs), c # <<>>, Nested(c)
    PROVE  /\ Returned(c) \in Seq(Procs) /\ Len(Returned(c)) = Len(c) /\ Returned(c) # <<>>
           /\ Nested(Returned(c)) /\ NoHead(Returned(c))
           /\ \A k \in 1 .. Len(c) : Returned(c)[k] = IF c[k] = "head" THEN "CHUNK" ELSE c[k]
<1> DEFINE n == Len(c)
           f == Front(c)
           r == Returned(c)
<1>1. n \in Nat \ {0} /\ c[n] \in Procs /\ f \in Seq(Procs) /\ Len(f) = n - 1 /\ \A k \in 1 .. n - 1 : f[k] = c[k]
  BY FrontIs
<1>2. "CHUNK" \in Procs
  BY DEF Procs
<1>3. /\ Append(f, "CHUNK") \in Seq(Procs) /\ Len(Append(f, "CHUNK")) = n - 1 + 1
      /\ \A k \in 1 .. n - 1 : Append(f, "CHUNK")[k] = f[k]
      /\ Append(f, "CHUNK")[n - 1 + 1] = "CHUNK"
  <2> HIDE DEF f, n
  <2> QED BY <1>1, <1>2, AppendProperties
<1> HIDE DEF f
<1>4. n - 1 + 1 = n /\ \A k : k \in 1 .. n <=> k \in 1 .. n - 1 \/ k = n
  <2> HIDE DEF n
  <2> QED BY <1>1
<1>5. \A k \in 1 .. n - 1 : c[k] # "head"
  <2> HIDE DEF n
  <2>1. \A k \in 1 .. n - 1 : k \in 1 .. n /\ k # n
    BY <1>1
  <2>2. QED
    BY <2>1 DEF Nested, n
<1>6. r \in Seq(Procs) /\ Len(r) = n /\ \A k \in 1 .. n : r[k] = IF c[k] = "head" THEN "CHUNK" ELSE c[k]
  <2> HIDE DEF n
  <2>1. CASE c[n] = "head"
    <3>1. r = Append(f, "CHUNK")
      BY <2>1 DEF Returned, n, f
    <3>2. QED
      BY <2>1, <3>1, <1>1, <1>3, <1>4, <1>5
  <2>2. CASE c[n] # "head"
    <3>1. r = c
      BY <2>2 DEF Returned, n
    <3>2. \A k \in 1 .. n : c[k] # "head"
      BY <2>2, <1>4, <1>5
    <3>3. QED
      BY <3>1, <3>2 DEF n
  <2>3. QED
    BY <2>1, <2>2
<1> HIDE DEF r
<1>7. NoHead(r)
  BY <1>6 DEF NoHead
<1>8. Nested(r)
  BY <1>6, <1>7 DEF Nested, NoHead
<1>9. r # <<>>
  BY <1>1, <1>6, EmptySeq
<1>10. QED
  BY <1>6, <1>7, <1>8, <1>9 DEF n, r

LEMMA PairedOn ==
    ASSUME NEW s \in Seq(SourceTags), NEW t \in SourceTags, NEW o, OpenIn(s, o),
           NEW c \in Seq(Procs), c # <<>>, Nested(c), Paired(s, o, c)
    PROVE  Paired(Append(s, t), o, Returned(c))
<1> DEFINE r == Returned(c)
           z == Append(s, t)
<1>1. /\ Len(r) = Len(c) /\ NoHead(r)
      /\ \A k \in 1 .. Len(c) : r[k] = IF c[k] = "head" THEN "CHUNK" ELSE c[k]
  BY NestedOn
<1>2. Len(s) \in Nat /\ Len(z) = Len(s) + 1 /\ \A i \in 1 .. Len(s) : z[i] = s[i]
  BY AppendProperties, LenProperties
<1> HIDE DEF r, z
<1>3. ASSUME NEW k \in 1 .. Len(c)
      PROVE  z[o[k]].name = Element(r[k]) /\ o[k] < Len(z) /\ r[k] # "head"
  <2>1. o[k] \in 1 .. Len(s) /\ s[o[k]].name = Element(c[k])
    BY DEF Paired, OpenIn
  <2>2. z[o[k]] = s[o[k]]
    BY <2>1, <1>2
  <2>3. Element(r[k]) = Element(c[k])
    BY <1>1 DEF Element
  <2>4. o[k] < Len(z)
    BY <2>1, <1>2
  <2>5. QED
    BY <2>1, <2>2, <2>3, <2>4, <1>1 DEF NoHead
<1>4. QED
  BY <1>1, <1>3 DEF Paired, r, z

\* A procedure that is entered when its element begins.
LEMMA Push ==
    ASSUME NEW r \in Seq(Procs), Nested(r), NoHead(r), NEW q \in Procs,
           q = "corpus" <=> Len(r) = 0, q = "SENTENCE" <=> Len(r) = 1
    PROVE  /\ Append(r, q) \in Seq(Procs) /\ Len(Append(r, q)) = Len(r) + 1 /\ Append(r, q) # <<>>
           /\ Append(r, q)[Len(r) + 1] = q
           /\ \A k \in 1 .. Len(r) : Append(r, q)[k] = r[k]
           /\ Nested(Append(r, q))
<1> DEFINE n == Len(r)
           z == Append(r, q)
<1>1. /\ n \in Nat /\ z \in Seq(Procs) /\ Len(z) = n + 1
      /\ \A k \in 1 .. n : z[k] = r[k]
      /\ z[n + 1] = q
  BY AppendProperties, LenProperties
<1> HIDE DEF z
<1>2. z # <<>>
  BY <1>1, EmptySeq
<1>3. ASSUME NEW k \in 1 .. n + 1
      PROVE  (z[k] = "corpus" <=> k = 1) /\ (z[k] = "SENTENCE" <=> k = 2) /\ (z[k] = "head" => k = n + 1)
  <2>1. CASE k \in 1 .. n
    BY <2>1, <1>1 DEF Nested, NoHead
  <2>2. CASE k = n + 1
    <3>1. (k = 1 <=> n = 0) /\ (k = 2 <=> n = 1)
      <4> HIDE DEF n
      <4> QED BY <2>2, <1>1
    <3>2. QED
      BY <2>2, <3>1, <1>1
  <2>3. QED
    BY <2>1, <2>2, <1>1
<1>4. QED
  BY <1>1, <1>2, <1>3 DEF Nested, z

LEMMA PairedPush ==
    ASSUME NEW z \in Seq(SourceTags), z # <<>>, NEW o, OpenIn(z, o), NEW r \in Seq(Procs), NoHead(r),
           Paired(z, o, r), NEW q \in Procs, q # "CHUNK", z[Len(z)].name = Element(q)
    PROVE  Paired(z, Append(o, Len(z)), Append(r, q))
<1> DEFINE n == Len(r)
           b == Append(o, Len(z))
           y == Append(r, q)
<1>1. /\ n \in Nat /\ Len(y) = n + 1
      /\ \A k \in 1 .. n : y[k] = r[k]
      /\ y[n + 1] = q
  BY AppendProperties, LenProperties
<1>2. Len(o) = n /\ o \in Seq(Nat) /\ Len(z) \in Nat
  BY LenProperties DEF Paired, OpenIn
<1>3. /\ Len(b) = n + 1
      /\ \A k \in 1 .. n : b[k] = o[k]
      /\ b[n + 1] = Len(z)
  BY <1>2, AppendProperties
<1> HIDE DEF n, b, y
<1>4. ASSUME NEW k \in 1 .. n + 1
      PROVE  /\ z[b[k]].name = Element(y[k])
             /\ y[k] = "head" => b[k] = Len(z)
             /\ y[k] = "CHUNK" => b[k] < Len(z)
  <2>1. CASE k \in 1 .. n
    BY <2>1, <1>1, <1>3 DEF Paired, n
  <2>2. CASE k = n + 1
    BY <2>2, <1>1, <1>3
  <2>3. QED
    BY <2>1, <2>2, <1>1
<1>5. QED
  BY <1>1, <1>3, <1>4 DEF Paired, b, y

\* A procedure that returns when its element ends.
LEMMA Pop ==
    ASSUME NEW c \in Seq(Procs), c # <<>>, Nested(c)
    PROVE  /\ Front(c) \in Seq(Procs) /\ Len(Front(c)) = Len(c) - 1
           /\ Nested(Front(c)) /\ NoHead(Front(c))
<1> DEFINE n == Len(c)
           f == Front(c)
<1>1. n \in Nat \ {0} /\ f \in Seq(Procs) /\ Len(f) = n - 1 /\ \A k \in 1 .. n - 1 : f[k] = c[k]
  BY FrontIs
<1> HIDE DEF n, f
<1>2. \A k \in 1 .. n - 1 : k \in 1 .. n /\ k # n
  BY <1>1
<1>3. QED
  BY <1>1, <1>2 DEF Nested, NoHead, n, f

LEMMA PairedPop ==
    ASSUME NEW s \in Seq(SourceTags), NEW t \in SourceTags, NEW o, OpenIn(s, o),
           NEW c \in Seq(Procs), c # <<>>, Nested(c), Paired(s, o, c)
    PROVE  Paired(Append(s, t), Front(o), Front(c))
<1> DEFINE n == Len(c)
           f == Front(c)
           g == Front(o)
           z == Append(s, t)
<1>1. n \in Nat \ {0} /\ f \in Seq(Procs) /\ Len(f) = n - 1 /\ \A k \in 1 .. n - 1 : f[k] = c[k]
  BY FrontIs
<1>2. o \in Seq(Nat) /\ Len(o) = n
  BY DEF OpenIn, Paired
<1>3. o # <<>>
  BY <1>1, <1>2, EmptySeq
<1>4. Len(g) = n - 1 /\ \A k \in 1 .. n - 1 : g[k] = o[k]
  BY <1>2, <1>3, FrontIs
<1>5. Len(s) \in Nat /\ Len(z) = Len(s) + 1 /\ \A i \in 1 .. Len(s) : z[i] = s[i]
  BY AppendProperties, LenProperties
<1> HIDE DEF n, f, g, z
<1>6. ASSUME NEW k \in 1 .. n - 1
      PROVE  z[g[k]].name = Element(f[k]) /\ g[k] < Len(z) /\ f[k] # "head"
  <2>1. k \in 1 .. n /\ k # n
    BY <1>1
  <2>2. o[k] \in 1 .. Len(s) /\ s[o[k]].name = Element(c[k]) /\ c[k] # "head"
    BY <2>1, <1>2 DEF Paired, OpenIn, Nested, n
  <2>3. z[o[k]] = s[o[k]] /\ o[k] < Len(z)
    BY <2>2, <1>5
  <2>4. QED
    BY <2>2, <2>3, <1>1, <1>4
<1>7. QED
  BY <1>1, <1>4, <1>6 DEF Paired, f, g, z

-------------------------------------------------------------------------------
(***************************************************************************)
(* While the document is read.  As long as each procedure has its element  *)
(* the document is valid so far; once there are more procedures than open  *)
(* elements, since an empty element was entered, it never is again.        *)
(***************************************************************************)
Inner(o) == IF o = <<>> THEN 0 ELSE Last(o)
Opened(o, s, t) ==
    CASE t.type = "start" -> Append(o, Len(s) + 1)
      [] t.type = "end"   -> Front(o)
      [] OTHER            -> o

Begun(s, w, o) ==
    /\ Placed(s, w) /\ OpenIn(s, o)
    /\ s # <<>> /\ s[1].name = "corpus"
    /\ o # <<>> => s[o[1]].name = "corpus"

InStep(s, w, o, c) ==
    /\ Paired(s, o, c)
    /\ ValidIn(s, w)
    /\ Starts(s[Len(s)], "CHUNK") <=> c[Len(c)] = "head"

Reading(s, w, o, c) ==
    /\ Begun(s, w, o)
    /\ c \in Seq(Procs) /\ c # <<>> /\ Nested(c)
    /\ Len(o) <= Len(c)
    /\ Len(o) = Len(c) => InStep(s, w, o, c)
    /\ Len(o) < Len(c) => ~ValidIn(s, w)

LEMMA OneRead ==
    ASSUME NEW s, NEW w, NEW o, Begun(s, w, o), o # <<>>, NEW t \in SourceTags
    PROVE  /\ Begun(Append(s, t), Append(w, Inner(o)), Opened(o, s, t))
           /\ Inner(o) \in 1 .. Len(s) /\ Inner(o) = o[Len(o)]
           /\ Append(s, t)[Len(Append(s, t))] = t
           /\ Len(o) \in Nat \ {0}
           /\ Len(Opened(o, s, t)) = CASE t.type = "start" -> Len(o) + 1
                                       [] t.type = "end"   -> Len(o) - 1
                                       [] OTHER            -> Len(o)
<1> DEFINE n == Len(s)
           z == Append(s, t)
           i == Inner(o)
           y == Append(w, i)
           b == Opened(o, s, t)
<1>1. /\ s \in Seq(SourceTags) /\ w \in Seq(Nat) /\ Len(w) = n /\ \A k \in 1 .. n : w[k] < k
      /\ o \in Seq(Nat) /\ \A k \in 1 .. Len(o) : o[k] \in 1 .. n
      /\ s # <<>> /\ s[1].name = "corpus" /\ s[o[1]].name = "corpus"
  BY DEF Begun, Placed, OpenIn
<1>2. /\ n \in Nat \ {0} /\ z \in Seq(SourceTags) /\ Len(z) = n + 1
      /\ \A k \in 1 .. n : z[k] = s[k]
      /\ z[n + 1] = t
  BY <1>1, AppendProperties, LenProperties, EmptySeq
<1>3. /\ Len(o) \in Nat \ {0} /\ Last(o) = o[Len(o)]
      /\ Front(o) \in Seq(Nat) /\ Len(Front(o)) = Len(o) - 1
      /\ \A k \in 1 .. Len(o) - 1 : Front(o)[k] = o[k]
  BY <1>1, FrontIs
<1>4. i = o[Len(o)] /\ i \in 1 .. n
  <2>1. Len(o) \in 1 .. Len(o)
    BY <1>3
  <2>2. i = o[Len(o)]
    BY <1>3 DEF Inner
  <2>3. QED
    BY <1>1, <2>1, <2>2
<1>5. /\ y \in Seq(Nat) /\ Len(y) = n + 1 /\ \A k \in 1 .. n : y[k] = w[k]
      /\ y[n + 1] = i
  <2>1. i \in Nat
    BY <1>2, <1>4
  <2>2. QED
    BY <2>1, <1>1, AppendProperties
<1>6. /\ b \in Seq(Nat)
      /\ Len(b) = CASE t.type = "start" -> Len(o) + 1
                    [] t.type = "end"   -> Len(o) - 1
                    [] OTHER            -> Len(o)
      /\ \A k \in 1 .. Len(b) : b[k] \in 1 .. n + 1 /\ (k = 1 => b[k] = o[1])
  <2>1. CASE t.type = "start"
    <3>1. n + 1 \in Nat
      BY <1>2
    <3> HIDE DEF n
    <3>2. b = Append(o, n + 1)
      BY <2>1 DEF Opened, n
    <3>3. /\ b \in Seq(Nat) /\ Len(b) = Len(o) + 1
          /\ \A k \in 1 .. Len(o) : b[k] = o[k]
          /\ b[Len(o) + 1] = n + 1
      BY <3>1, <3>2, <1>1, AppendProperties
    <3> HIDE DEF b
    <3>4. \A k \in 1 .. Len(b) : k \in 1 .. Len(o) \/ (k = Len(o) + 1 /\ k # 1)
      BY <3>3, <1>3
    <3>5. \A j \in 1 .. n : j \in 1 .. n + 1
      BY <1>2
    <3>6. n + 1 \in 1 .. n + 1
      BY <1>2
    <3>7. QED
      BY <3>3, <3>4, <3>5, <3>6, <1>1, <2>1
  <2>2. CASE t.type = "end"
    <3>1. b = Front(o)
      BY <2>2 DEF Opened
    <3> HIDE DEF b, n
    <3>2. \A k \in 1 .. Len(o) - 1 : k \in 1 .. Len(o)
      BY <1>3
    <3>3. \A j \in 1 .. n : j \in 1 .. n + 1
      BY <1>2
    <3>4. QED
      BY <3>1, <3>2, <3>3, <1>1, <1>3, <2>2
  <2>3. CASE t.type # "start" /\ t.type # "end"
    <3>1. b = o
      BY <2>3 DEF Opened
    <3> HIDE DEF b, n
    <3>2. \A j \in 1 .. n : j \in 1 .. n + 1
      BY <1>2
    <3>3. QED
      BY <3>1, <3>2, <1>1, <2>3
  <2>4. QED
    BY <2>1, <2>2, <2>3
<1> HIDE DEF n, z, i, y, b
<1>7. Placed(z, y)
  <2>1. \A k \in 1 .. n + 1 : k \in 1 .. n \/ k = n + 1
    BY <1>2
  <2>2. i < n + 1
    BY <1>2, <1>4
  <2>3. \A k \in 1 .. n + 1 : y[k] < k
    BY <2>1, <2>2, <1>1, <1>5
  <2>4. QED
    BY <2>3, <1>2, <1>5 DEF Placed
<1>8. OpenIn(z, b)
  BY <1>2, <1>6 DEF OpenIn
<1>9. z # <<>> /\ z[1] = s[1]
  <2>1. 1 \in 1 .. n
    BY <1>2
  <2>2. QED
    BY <1>2, <2>1, EmptySeq
<1>10. b # <<>> => z[b[1]] = s[o[1]]
  <2> HAVE b # <<>>
  <2>1. Len(b) \in Nat /\ Len(b) # 0
    BY <1>6, EmptySeq, LenProperties
  <2>2. 1 \in 1 .. Len(b) /\ 1 \in 1 .. Len(o)
    BY <2>1, <1>3
  <2>3. QED
    BY <2>2, <1>1, <1>2, <1>6
<1>11. Begun(z, y, b)
  BY <1>1, <1>7, <1>8, <1>9, <1>10 DEF Begun
<1>12. QED
  BY <1>2, <1>3, <1>4, <1>6, <1>11 DEF n, z, i, y, b

\* What is known of the element that the tag is in.
LEMMA Within ==
    ASSUME NEW s, NEW w, NEW o, NEW c, Reading(s, w, o, c), Len(o) = Len(c), o # <<>>
    PROVE  /\ NameAt(s, Inner(o)) = Element(c[Len(c)])
           /\ c[Len(c)] = "head" => Inner(o) = Len(s)
           /\ c[Len(c)] = "CHUNK" => Inner(o) < Len(s)
<1>1. Begun(s, w, o) /\ Paired(s, o, c)
  BY DEF Reading, InStep
<1>2. PICK t \in SourceTags : TRUE
  BY TagsAre DEF Names, TagTypes
<1>3. Inner(o) \in 1 .. Len(s) /\ Inner(o) = o[Len(o)] /\ Len(o) \in Nat \ {0}
  BY <1>1, <1>2, OneRead
<1>4. Len(c) \in 1 .. Len(c)
  BY <1>3
<1>5. Inner(o) # 0
  <2>1. \A a : \A b \in 1 .. a : b # 0
    OBVIOUS
  <2>2. QED
    BY <2>1, <1>3
<1>6. QED
  BY <1>1, <1>3, <1>4, <1>5 DEF Paired, NameAt

\* The innermost procedure tells how deep it is.
LEMMA Depth ==
    ASSUME NEW c \in Seq(Procs), c # <<>>, Nested(c)
    PROVE  /\ Len(c) \in Nat \ {0} /\ c[Len(c)] \in Procs
           /\ c[Len(c)] = "corpus" <=> Len(c) = 1
           /\ c[Len(c)] = "SENTENCE" <=> Len(c) = 2
<1>1. Len(c) \in Nat \ {0} /\ c[Len(c)] \in Procs
  BY FrontIs
<1>2. Len(c) \in 1 .. Len(c)
  BY <1>1
<1>3. QED
  BY <1>1, <1>2 DEF Nested

LEMMA StaysOpen ==
    ASSUME NEW s \in Seq(SourceTags), NEW t \in SourceTags, NEW o, OpenIn(s, o)
    PROVE  OpenIn(Append(s, t), o)
<1>1. Len(s) \in Nat /\ Len(Append(s, t)) = Len(s) + 1
  BY AppendProperties, LenProperties
<1>2. \A j \in 1 .. Len(s) : j \in 1 .. Len(s) + 1
  BY <1>1
<1>3. QED
  BY <1>1, <1>2, Zenon DEF OpenIn

LEMMA ValidOneMore ==
    ASSUME NEW s, NEW w, NEW o, Begun(s, w, o), o # <<>>, NEW t \in SourceTags
    PROVE  ValidIn(Append(s, t), Append(w, Inner(o))) <=>
               /\ ValidIn(s, w)
               /\ Starts(s[Len(s)], "CHUNK") => Starts(t, "NODE")
               /\ IsStart(t) => Fits(t, NameAt(s, Inner(o)), Inner(o), Len(s) + 1)
<1>1. Placed(s, w) /\ s # <<>> /\ s \in Seq(SourceTags)
  BY DEF Begun, Placed
<1>2. Inner(o) \in 1 .. Len(s)
  BY OneRead
<1>3. Inner(o) \in 0 .. Len(s)
  <2>1. \A a : \A b \in 1 .. a : b \in 0 .. a
    OBVIOUS
  <2>2. QED
    BY <1>2, <2>1
<1>4. QED
  BY <1>1, <1>3, ValidAppend

LEMMA Enters ==
    ASSUME NEW s, NEW w, NEW o, NEW c, Reading(s, w, o, c), o # <<>>, NEW t \in SourceTags,
           NEW q \in {"SENTENCE", "head", "NODE"}, Starts(t, Element(q)),
           q = "SENTENCE" => c[Len(c)] = "corpus",
           q = "head" => c[Len(c)] \in {"SENTENCE", "CHUNK"},
           q = "NODE" => c[Len(c)] \in {"head", "NODE"} /\ t.type = "start"
    PROVE  Reading(Append(s, t), Append(w, Inner(o)), Opened(o, s, t), Append(Returned(c), q))
<1> DEFINE n == Len(s)
           i == Inner(o)
           z == Append(s, t)
           y == Append(w, i)
           b == Opened(o, s, t)
           r == Returned(c)
           d == Append(r, q)
<1>1. /\ Begun(s, w, o) /\ OpenIn(s, o) /\ s \in Seq(SourceTags)
      /\ c \in Seq(Procs) /\ c # <<>> /\ Nested(c) /\ Len(o) <= Len(c)
  BY DEF Reading, Begun, Placed
<1>2. /\ Begun(z, y, b) /\ z[Len(z)] = t /\ Len(o) \in Nat \ {0}
      /\ Len(b) = CASE t.type = "start" -> Len(o) + 1
                    [] t.type = "end"   -> Len(o) - 1
                    [] OTHER            -> Len(o)
  BY <1>1, OneRead
<1>3. r \in Seq(Procs) /\ Len(r) = Len(c) /\ Nested(r) /\ NoHead(r)
  BY <1>1, NestedOn
<1>4. /\ Len(c) \in Nat \ {0}
      /\ c[Len(c)] = "corpus" <=> Len(c) = 1
      /\ c[Len(c)] = "SENTENCE" <=> Len(c) = 2
  BY <1>1, Depth
<1>5. (q = "corpus" <=> Len(r) = 0) /\ (q = "SENTENCE" <=> Len(r) = 1) /\ q \in Procs
  <2> HIDE DEF r
  <2>1. c[Len(c)] = "corpus" => q = "SENTENCE"
    OBVIOUS
  <2>2. QED
    BY <1>3, <1>4, <2>1 DEF Procs
<1>6. d \in Seq(Procs) /\ Len(d) = Len(c) + 1 /\ d # <<>> /\ d[Len(c) + 1] = q /\ Nested(d)
  <2> HIDE DEF r
  <2> QED BY <1>3, <1>5, Push
<1>7. ValidIn(z, y) <=>
          /\ ValidIn(s, w)
          /\ Starts(s[n], "CHUNK") => Starts(t, "NODE")
          /\ IsStart(t) => Fits(t, NameAt(s, i), i, n + 1)
  BY <1>1, ValidOneMore
<1>8. t.type \in {"start", "empty"} /\ t.name = Element(q) /\ IsStart(t)
  BY DEF Starts, IsStart
<1>9. n \in Nat /\ i \in Nat /\ i \in 1 .. n
  <2>1. i \in 1 .. n /\ n \in Nat
    BY <1>1, OneRead, LenProperties
  <2>2. QED
    BY <2>1
<1>10. CASE Len(o) < Len(c)
  <2>1. ~ValidIn(z, y)
    BY <1>7, <1>10 DEF Reading
  <2> HIDE DEF z, y, b, d
  <2>2. Len(b) < Len(d)
    BY <1>2, <1>4, <1>6, <1>8, <1>10
  <2>3. Len(b) <= Len(d) /\ Len(b) # Len(d)
    BY <1>2, <1>4, <1>6, <1>8, <1>10
  <2>4. QED
    BY <2>1, <2>2, <2>3, <1>2, <1>6 DEF Reading, z, y, b, d
<1>11. CASE Len(o) = Len(c) /\ t.type = "empty"
  <2>1. ~Fits(t, NameAt(s, i), i, n + 1)
    <3>1. t.name \in {"SENTENCE", "CHUNK"} /\ t.type # "start"
      BY <1>8, <1>11 DEF Element
    <3> HIDE DEF n, i
    <3>2. QED
      BY <3>1 DEF Fits
  <2>2. ~ValidIn(z, y)
    BY <2>1, <1>7, <1>8
  <2> HIDE DEF z, y, b, d
  <2>3. Len(b) < Len(d) /\ Len(b) <= Len(d) /\ Len(b) # Len(d)
    BY <1>2, <1>4, <1>6, <1>11
  <2>4. QED
    BY <2>2, <2>3, <1>2, <1>6 DEF Reading, z, y, b, d
<1>12. CASE Len(o) = Len(c) /\ t.type = "start"
  <2>1. InStep(s, w, o, c)
    BY <1>12 DEF Reading
  <2>2. Paired(z, o, r) /\ OpenIn(z, o)
    BY <1>1, <2>1, PairedOn, StaysOpen DEF InStep
  <2>3. Len(z) = n + 1 /\ z \in Seq(SourceTags) /\ z # <<>>
    BY <1>1, <1>2, AppendProperties DEF Begun
  <2>4. b = Append(o, Len(z))
    BY <1>12, <2>3 DEF Opened
  <2>5. Paired(z, b, d)
    <3>1. q # "CHUNK" /\ z[Len(z)].name = Element(q)
      BY <1>2, <1>8
    <3> HIDE DEF z, r, d, b
    <3>2. Paired(z, Append(o, Len(z)), Append(r, q))
      BY <2>2, <2>3, <3>1, <1>3, <1>5, PairedPush
    <3>3. QED
      BY <2>4, <3>2 DEF d
  <2>6. Fits(t, NameAt(s, i), i, n + 1)
    <3>1. /\ NameAt(s, i) = Element(c[Len(c)])
          /\ c[Len(c)] = "head" => i = n
          /\ c[Len(c)] = "CHUNK" => i < n
      BY <1>12, Within
    <3>2. n + 1 - 1 = n
      BY <1>9
    <3> DEFINE e == NameAt(s, i)
    <3>3. q = "SENTENCE" => e = "corpus"
      BY <3>1 DEF Element
    <3>4. q = "head" => e = "SENTENCE" \/ (e = "CHUNK" /\ i < n)
      BY <3>1 DEF Element
    <3>5. q = "NODE" => e = "NODE" \/ (e = "CHUNK" /\ i = n)
      BY <3>1 DEF Element
    <3>6. t.name = (IF q = "head" THEN "CHUNK" ELSE q) /\ t.type = "start"
      BY <1>8, <1>12 DEF Element
    <3> HIDE DEF n, i, e
    <3>0. n \in Nat /\ i \in Nat
      BY <1>9
    <3>7. q = "SENTENCE" => Fits(t, e, i, n + 1)
      BY <3>3, <3>6 DEF Fits
    <3>8. q = "head" => Fits(t, e, i, n + 1)
      BY <3>2, <3>4, <3>6, <3>0 DEF Fits
    <3>9. q = "NODE" => Fits(t, e, i, n + 1)
      BY <3>2, <3>5, <3>6, <3>0 DEF Fits
    <3>10. Fits(t, e, i, n + 1)
      BY <3>7, <3>8, <3>9
    <3>11. QED
      BY <3>10 DEF e
  <2>7. Starts(s[n], "CHUNK") => Starts(t, "NODE")
    <3> HAVE Starts(s[n], "CHUNK")
    <3>1. q = "NODE"
      BY <2>1 DEF InStep
    <3>2. QED
      BY <3>1, <1>8 DEF Starts, Element
  <2>8. ValidIn(z, y)
    BY <2>1, <2>6, <2>7, <1>7 DEF InStep
  <2>9. Len(b) = Len(d)
    <3> HIDE DEF b, d
    <3> QED BY <1>2, <1>4, <1>6, <1>12
  <2>10. Starts(z[Len(z)], "CHUNK") <=> d[Len(d)] = "head"
    <3>1. d[Len(d)] = q /\ z[Len(z)] = t
      BY <1>2, <1>6
    <3> HIDE DEF z, d
    <3>2. QED
      BY <3>1, <1>8 DEF Starts, Element
  <2> HIDE DEF z, y, b, d
  <2>11. Len(b) <= Len(d) /\ ~(Len(b) < Len(d))
    BY <2>9, <1>2, <1>4, <1>6
  <2>12. QED
    BY <2>5, <2>8, <2>10, <2>11, <1>2, <1>6 DEF Reading, InStep, z, y, b, d
<1>13. QED
  BY <1>1, <1>2, <1>4, <1>8, <1>10, <1>11, <1>12

LEMMA TakesEmptyNode ==
    ASSUME NEW s, NEW w, NEW o, NEW c, Reading(s, w, o, c), o # <<>>, NEW t \in SourceTags,
           Starts(t, "NODE"), t.type = "empty", c[Len(c)] \in {"head", "NODE"}
    PROVE  Reading(Append(s, t), Append(w, Inner(o)), o, Returned(c))
<1> DEFINE n == Len(s)
           i == Inner(o)
           z == Append(s, t)
           y == Append(w, i)
           r == Returned(c)
<1>1. /\ Begun(s, w, o) /\ OpenIn(s, o) /\ s \in Seq(SourceTags)
      /\ c \in Seq(Procs) /\ c # <<>> /\ Nested(c) /\ Len(o) <= Len(c)
  BY DEF Reading, Begun, Placed
<1>2. Begun(z, y, o) /\ z[Len(z)] = t
  <2>1. Opened(o, s, t) = o
    BY DEF Opened
  <2>2. Begun(z, y, Opened(o, s, t)) /\ z[Len(z)] = t
    BY <1>1, OneRead
  <2> HIDE DEF z, y
  <2>3. QED
    BY <2>1, <2>2
<1>3. r \in Seq(Procs) /\ Len(r) = Len(c) /\ Nested(r) /\ r # <<>>
  BY <1>1, NestedOn
<1>31. r[Len(r)] # "head"
  <2>1. NoHead(r) /\ Len(r) \in Nat \ {0}
    BY <1>1, <1>3, NestedOn, EmptySeq, LenProperties
  <2> HIDE DEF r
  <2>2. Len(r) \in 1 .. Len(r)
    BY <2>1
  <2>3. QED
    BY <2>1, <2>2 DEF NoHead
<1>4. ValidIn(z, y) <=>
          /\ ValidIn(s, w)
          /\ Starts(s[n], "CHUNK") => Starts(t, "NODE")
          /\ IsStart(t) => Fits(t, NameAt(s, i), i, n + 1)
  BY <1>1, ValidOneMore
<1>5. n \in Nat /\ i \in Nat
  <2>1. i \in 1 .. n /\ n \in Nat
    BY <1>1, OneRead, LenProperties
  <2>2. QED
    BY <2>1
<1>6. CASE Len(o) < Len(c)
  <2>1. ~ValidIn(z, y) /\ Len(o) # Len(c)
    BY <1>4, <1>6 DEF Reading
  <2> HIDE DEF z, y, r
  <2>2. QED
    BY <2>1, <1>1, <1>2, <1>3 DEF Reading, z, y, r
<1>7. CASE Len(o) = Len(c)
  <2>1. InStep(s, w, o, c)
    BY <1>7 DEF Reading
  <2>2. Paired(z, o, r)
    BY <1>1, <2>1, PairedOn DEF InStep
  <2>3. Fits(t, NameAt(s, i), i, n + 1)
    <3> DEFINE e == NameAt(s, i)
    <3>1. /\ e = Element(c[Len(c)])
          /\ c[Len(c)] = "head" => i = n
      BY <1>7, Within
    <3>2. e = "NODE" \/ (e = "CHUNK" /\ i = n)
      BY <3>1 DEF Element
    <3>3. t.name = "NODE" /\ n + 1 - 1 = n
      BY <1>5 DEF Starts
    <3> HIDE DEF n, i, e
    <3>4. Fits(t, e, i, n + 1)
      BY <3>2, <3>3, <1>5 DEF Fits
    <3>5. QED
      BY <3>4 DEF e
  <2>4. ValidIn(z, y)
    BY <2>1, <2>3, <1>4 DEF InStep
  <2>5. ~Starts(z[Len(z)], "CHUNK")
    BY <1>2 DEF Starts
  <2>6. Len(o) <= Len(r) /\ ~(Len(o) < Len(r))
    BY <1>1, <1>3, <1>7, LenProperties DEF OpenIn
  <2> HIDE DEF z, y, r
  <2>7. QED
    BY <2>2, <2>4, <2>5, <2>6, <1>2, <1>3, <1>31 DEF Reading, InStep, z, y, r
<1>8. QED
  <2>1. Len(o) \in Nat /\ Len(c) \in Nat
    BY <1>1, LenProperties DEF OpenIn
  <2>2. QED
    BY <2>1, <1>1, <1>6, <1>7

LEMMA Leaves ==
    ASSUME NEW s, NEW w, NEW o, NEW c, Reading(s, w, o, c), o # <<>>, NEW t \in SourceTags,
           t.type = "end", c[Len(c)] \in {"NODE", "CHUNK", "SENTENCE"}
    PROVE  Reading(Append(s, t), Append(w, Inner(o)), Front(o), Front(c))
<1> DEFINE n == Len(s)
           i == Inner(o)
           z == Append(s, t)
           y == Append(w, i)
           b == Front(o)
           d == Front(c)
<1>1. /\ Begun(s, w, o) /\ OpenIn(s, o) /\ s \in Seq(SourceTags)
      /\ c \in Seq(Procs) /\ c # <<>> /\ Nested(c) /\ Len(o) <= Len(c)
  BY DEF Reading, Begun, Placed
<1>2. Begun(z, y, b) /\ z[Len(z)] = t /\ Len(o) \in Nat \ {0} /\ Len(b) = Len(o) - 1
  <2>1. Opened(o, s, t) = b
    BY DEF Opened
  <2>2. /\ Begun(z, y, Opened(o, s, t)) /\ z[Len(z)] = t /\ Len(o) \in Nat \ {0}
        /\ Len(Opened(o, s, t)) = CASE t.type = "start" -> Len(o) + 1
                                    [] t.type = "end"   -> Len(o) - 1
                                    [] OTHER            -> Len(o)
    BY <1>1, OneRead
  <2> HIDE DEF z, y, b
  <2>3. QED
    BY <2>1, <2>2
<1>3. Len(c) \in Nat \ {0} /\ Len(c) # 1
  BY <1>1, Depth
<1>4. d \in Seq(Procs) /\ Len(d) = Len(c) - 1 /\ Nested(d)
  BY <1>1, Pop
<1>5. d # <<>> /\ d[Len(d)] # "head"
  <2>1. NoHead(d)
    BY <1>1, Pop
  <2> HIDE DEF d
  <2>2. Len(d) \in 1 .. Len(d) /\ d # <<>>
    BY <1>3, <1>4, EmptySeq
  <2>3. QED
    BY <2>1, <2>2 DEF NoHead
<1>6. ValidIn(z, y) <=>
          /\ ValidIn(s, w)
          /\ Starts(s[n], "CHUNK") => Starts(t, "NODE")
          /\ IsStart(t) => Fits(t, NameAt(s, i), i, n + 1)
  BY <1>1, ValidOneMore
<1>7. CASE Len(o) < Len(c)
  <2>1. ~ValidIn(z, y)
    BY <1>6, <1>7 DEF Reading
  <2> HIDE DEF z, y, b, d
  <2>2. Len(b) <= Len(d) /\ Len(b) # Len(d)
    BY <1>2, <1>3, <1>4, <1>7
  <2>3. QED
    BY <2>1, <2>2, <1>2, <1>4, <1>5 DEF Reading, z, y, b, d
<1>8. CASE Len(o) = Len(c)
  <2>1. InStep(s, w, o, c)
    BY <1>8 DEF Reading
  <2>2. Paired(z, b, d)
    BY <1>1, <2>1, PairedPop DEF InStep
  <2>3. ~IsStart(t) /\ ~Starts(z[Len(z)], "CHUNK")
    BY <1>2 DEF IsStart, Starts
  <2>4. ValidIn(z, y)
    BY <2>1, <2>3, <1>6 DEF InStep
  <2> HIDE DEF z, y, b, d
  <2>5. Len(b) <= Len(d) /\ ~(Len(b) < Len(d))
    BY <1>2, <1>3, <1>4, <1>8
  <2>6. QED
    BY <2>2, <2>3, <2>4, <2>5, <1>2, <1>4, <1>5 DEF Reading, InStep, z, y, b, d
<1>9. QED
  BY <1>1, <1>2, <1>3, <1>7, <1>8

\* The corpus can only be left when nothing but the corpus is open.
LEMMA Finishes ==
    ASSUME NEW s, NEW w, NEW o, NEW c, Reading(s, w, o, c), o # <<>>, NEW t \in SourceTags,
           t.type = "end", c[Len(c)] = "corpus"
    PROVE  /\ Len(c) = 1 /\ Len(o) = 1
           /\ ValidIn(Append(s, t), Append(w, Inner(o)))
           /\ Front(o) = <<>>
<1>1. /\ Begun(s, w, o) /\ OpenIn(s, o)
      /\ c \in Seq(Procs) /\ c # <<>> /\ Nested(c) /\ Len(o) <= Len(c)
  BY DEF Reading, Begun
<1>2. Len(c) = 1
  BY <1>1, Depth
<1>3. o \in Seq(Nat) /\ Len(o) \in Nat \ {0} /\ Front(o) \in Seq(Nat) /\ Len(Front(o)) = Len(o) - 1
  BY <1>1, FrontIs DEF OpenIn
<1>4. Len(o) = 1
  BY <1>1, <1>2, <1>3
<1>5. Front(o) = <<>>
  <2> DEFINE b == Front(o)
  <2> HIDE DEF b
  <2>1. b \in Seq(Nat) /\ Len(b) = 0
    BY <1>3, <1>4 DEF b
  <2>2. b = <<>>
    BY <2>1, EmptySeq
  <2>3. QED
    BY <2>2 DEF b
<1>6. InStep(s, w, o, c)
  BY <1>2, <1>4 DEF Reading
<1>7. ~IsStart(t)
  BY DEF IsStart
<1>8. QED
  BY <1>1, <1>2, <1>4, <1>5, <1>6, <1>7, ValidOneMore DEF InStep

\* Nor is a sentence left for the end of another element.
LEMMA LeavesSentence ==
    ASSUME NEW s, NEW w, NEW o, NEW c, Reading(s, w, o, c), o # <<>>,
           c[Len(c)] = "SENTENCE", NameAt(s, Inner(o)) = "SENTENCE"
    PROVE  Len(c) = 2 /\ Len(o) = 2
<1>1. /\ Begun(s, w, o) /\ c \in Seq(Procs) /\ c # <<>> /\ Nested(c) /\ Len(o) <= Len(c)
      /\ s[o[1]].name = "corpus"
  BY DEF Reading, Begun
<1>2. Len(c) = 2
  BY <1>1, Depth
<1>3. PICK t \in SourceTags : TRUE
  BY TagsAre DEF Names, TagTypes
<1>4. Inner(o) \in 1 .. Len(s) /\ Inner(o) = o[Len(o)] /\ Len(o) \in Nat \ {0}
  BY <1>1, <1>3, OneRead
<1>5. NameAt(s, Inner(o)) = s[Inner(o)].name
  <2>1. \A a : \A b \in 1 .. a : b # 0
    OBVIOUS
  <2>2. QED
    BY <2>1, <1>4 DEF NameAt
<1>6. Len(o) # 1 /\ Len(o) <= 2
  BY <1>1, <1>2, <1>4, <1>5
<1>7. \A a \in Nat \ {0} : a # 1 /\ a <= 2 => a = 2
  OBVIOUS
<1>8. QED
  BY <1>2, <1>4, <1>6, <1>7, Zenon

\* What Expected asks, of the innermost procedure.
ExpectedBy(q, t) ==
    CASE q = "corpus"   -> Starts(t, "SENTENCE") \/ Ends(t, "corpus")
      [] q = "SENTENCE" -> Starts(t, "CHUNK") \/ Ends(t, "SENTENCE")
      [] q = "head"     -> Starts(t, "NODE")
      [] q = "CHUNK"    -> Starts(t, "CHUNK") \/ Ends(t, "CHUNK")
      [] q = "NODE"     -> Starts(t, "NODE") \/ Ends(t, "NODE")

LEMMA Rejects ==
    ASSUME NEW s, NEW w, NEW o, NEW c, Reading(s, w, o, c), o # <<>>, NEW t \in SourceTags,
           t.type = "end" => t.name = NameAt(s, Inner(o)), ~ExpectedBy(c[Len(c)], t)
    PROVE  ~ValidIn(Append(s, t), Append(w, Inner(o)))
<1> DEFINE n == Len(s)
           i == Inner(o)
           q == c[Len(c)]
           e == NameAt(s, i)
<1>1. /\ Begun(s, w, o) /\ OpenIn(s, o) /\ s \in Seq(SourceTags) /\ s # <<>>
      /\ c \in Seq(Procs) /\ c # <<>> /\ Nested(c) /\ Len(o) <= Len(c)
  BY DEF Reading, Begun, Placed
<1>2. ValidIn(Append(s, t), Append(w, i)) <=>
          /\ ValidIn(s, w)
          /\ Starts(s[n], "CHUNK") => Starts(t, "NODE")
          /\ IsStart(t) => Fits(t, e, i, n + 1)
  BY <1>1, ValidOneMore
<1>3. CASE Len(o) # Len(c)
  <2>1. Len(o) \in Nat /\ Len(c) \in Nat
    BY <1>1, LenProperties DEF OpenIn
  <2>2. ~ValidIn(s, w)
    BY <2>1, <1>1, <1>3 DEF Reading
  <2>3. QED
    BY <2>2, <1>2
<1>4. CASE Len(o) = Len(c)
  <2>1. InStep(s, w, o, c)
    BY <1>4 DEF Reading
  <2>2. /\ e = Element(q)
        /\ q = "head" => i = n
        /\ q = "CHUNK" => i < n
    BY <1>4, Within
  <2>3. q \in Procs /\ n \in Nat \ {0} /\ i \in Nat
    <3>1. i \in 1 .. n /\ n \in Nat \ {0}
      BY <1>1, OneRead, LenProperties, EmptySeq
    <3>2. QED
      BY <3>1, <1>1, Depth
  <2>4. t.name \in Names /\ t.type \in TagTypes
    BY TagsAre
  <2>5. ~ExpectedBy(q, t) /\ (t.type = "end" => t.name = e)
    OBVIOUS
  <2>6. q = "head" => Starts(s[n], "CHUNK")
    BY <2>1 DEF InStep
  <2>7. q = "head" \/ e = q
    BY <2>2 DEF Element
  <2> HIDE DEF n, i, q, e
  <2>8. q = "head" => ~ValidIn(Append(s, t), Append(w, i))
    BY <2>5, <2>6, <1>2 DEF ExpectedBy
  <2>9. q # "head" => IsStart(t)
    <3> SUFFICES ASSUME q # "head", ~IsStart(t) PROVE FALSE
      OBVIOUS
    <3>1. t.type = "end" /\ t.name = q
      BY <2>4, <2>5, <2>7 DEF IsStart, TagTypes
    <3>2. Ends(t, q)
      BY <3>1 DEF Ends
    <3>3. q \in {"corpus", "SENTENCE", "CHUNK", "NODE"}
      BY <2>3 DEF Procs
    <3>4. QED
      BY <3>2, <3>3, <2>5 DEF ExpectedBy
  <2>10. q # "head" => ~Fits(t, e, i, n + 1)
    <3>1. q # "head" => ~Starts(t, CASE q = "corpus" -> "SENTENCE" [] q = "NODE" -> "NODE" [] OTHER -> "CHUNK")
      BY <2>3, <2>5 DEF ExpectedBy, Procs
    <3>2. q = "corpus" => ~Fits(t, e, i, n + 1)
      BY <3>1, <2>3, <2>4, <2>7 DEF Fits, Starts
    <3>3. q = "SENTENCE" => ~Fits(t, e, i, n + 1)
      BY <3>1, <2>3, <2>4, <2>7 DEF Fits, Starts
    <3>4. q = "CHUNK" => ~Fits(t, e, i, n + 1)
      BY <3>1, <2>2, <2>3, <2>4, <2>7 DEF Fits, Starts
    <3>5. q = "NODE" => ~Fits(t, e, i, n + 1)
      BY <3>1, <2>3, <2>4, <2>7, <2>9 DEF Fits, Starts, IsStart
    <3>6. QED
      BY <3>2, <3>3, <3>4, <3>5, <2>3 DEF Procs
  <2>11. ~ValidIn(Append(s, t), Append(w, i))
    BY <2>8, <2>9, <2>10, <1>2
  <2>12. QED
    BY <2>11 DEF i
<1>5. QED
  BY <1>3, <1>4

-------------------------------------------------------------------------------
(***************************************************************************)
(* What is printed and what is to be printed, against the source.          *)
(***************************************************************************)
Mirrored(s, p, r) == Cat(Skeleton(p), Skeleton(r)) = Unfolded(s)
Begins(s, p) == \E u \in Seq(PlainTags) : Unfolded(s) = Cat(Skeleton(p), u)

LEMMA MirrorsOneMore ==
    ASSUME NEW s \in Seq(SourceTags), NEW t \in SourceTags, NEW p \in Seq(Printed), NEW r \in Seq(Printed),
           NEW x \in Printed, Plain(x) = Plain(t), t.type # "empty", Mirrored(s, p, r)
    PROVE  Mirrored(Append(s, t), p, Append(r, x))
<1> DEFINE a == Skeleton(p)
           b == Skeleton(r)
           y == Plain(x)
<1>1. a \in Seq(PlainTags) /\ b \in Seq(PlainTags) /\ y \in PlainTags
  BY SkeletonLaws, TagsAre DEF Plain
<1>2. Skeleton(Append(r, x)) = Append(b, y)
  BY SkeletonLaws
<1>3. Unfolded(Append(s, t)) = Cat(Unfolded(s), <<y>>)
  BY UnfoldedLaws DEF Unfold
<1>4. Cat(a, b) = Unfolded(s)
  BY DEF Mirrored
<1> HIDE DEF a, b, y
<1>5. Cat(a, Append(b, y)) = Append(Cat(a, b), y) /\ Cat(a, b) \in Seq(PlainTags)
  BY <1>1, CatOfAppend
<1>6. Append(Cat(a, b), y) = Cat(Cat(a, b), <<y>>)
  BY <1>1, <1>5, CatAppend
<1>7. Cat(a, Append(b, y)) = Unfolded(Append(s, t))
  BY <1>3, <1>4, <1>5, <1>6
<1>8. QED
  BY <1>2, <1>7 DEF Mirrored, a

LEMMA MirrorsEmptyNode ==
    ASSUME NEW s \in Seq(SourceTags), NEW t \in SourceTags, NEW p \in Seq(Printed), NEW r \in Seq(Printed),
           NEW x \in Printed, NEW z \in Printed, t.type = "empty",
           Plain(x) = Tag(t.name, "start"), Plain(z) = Tag(t.name, "end"), Mirrored(s, p, r)
    PROVE  Mirrored(Append(s, t), p, Append(Append(r, x), z))
<1> DEFINE a == Skeleton(p)
           b == Skeleton(r)
           y == Plain(x)
           v == Plain(z)
<1>1. a \in Seq(PlainTags) /\ b \in Seq(PlainTags) /\ y \in PlainTags /\ v \in PlainTags
  BY SkeletonLaws, TagsAre DEF Plain
<1>2. Append(r, x) \in Seq(Printed)
  BY AppendProperties
<1>3. Skeleton(Append(Append(r, x), z)) = Append(Append(b, y), v)
  BY <1>2, SkeletonLaws
<1>4. Unfolded(Append(s, t)) = Cat(Unfolded(s), <<y, v>>)
  BY UnfoldedLaws DEF Unfold
<1>5. Cat(a, b) = Unfolded(s)
  BY DEF Mirrored
<1> HIDE DEF a, b, y, v
<1>6. <<y, v>> = Append(<<y>>, v) /\ <<y>> \in Seq(PlainTags)
  BY <1>1
<1>7. Cat(a, b) \in Seq(PlainTags) /\ Append(b, y) \in Seq(PlainTags)
  BY <1>1, CatLaws, AppendProperties
<1> DEFINE One == <<y>>
<1>0. \A k, l \in Seq(PlainTags) : \A m \in PlainTags : Cat(k, Append(l, m)) = Append(Cat(k, l), m)
  <2> TAKE k, l \in Seq(PlainTags)
  <2> TAKE m \in PlainTags
  <2> QED BY CatOfAppend
<1>00. \A k \in Seq(PlainTags) : \A m \in PlainTags : Append(k, m) = Cat(k, <<m>>)
  BY CatAppend, Zenon
<1>8. Cat(a, Append(Append(b, y), v)) = Append(Append(Cat(a, b), y), v)
  <2> DEFINE c == Append(b, y)
  <2>1. c \in Seq(PlainTags) /\ Cat(a, c) = Append(Cat(a, b), y)
    BY <1>0, <1>1, <1>7, Zenon
  <2> HIDE DEF c
  <2>2. Cat(a, Append(c, v)) = Append(Cat(a, c), v)
    BY <1>0, <1>1, <2>1, Zenon
  <2>3. Cat(a, Append(c, v)) = Append(Append(Cat(a, b), y), v)
    BY <2>1, <2>2, Zenon
  <2>4. QED
    BY <2>3 DEF c
<1>9. Cat(Cat(a, b), Append(<<y>>, v)) = Append(Append(Cat(a, b), y), v)
  <2>1. One \in Seq(PlainTags) /\ Append(Cat(a, b), y) = Cat(Cat(a, b), One)
    BY <1>00, <1>1, <1>6, <1>7, Zenon
  <2> HIDE DEF One
  <2>2. Cat(Cat(a, b), Append(One, v)) = Append(Cat(Cat(a, b), One), v)
    BY <1>0, <1>1, <1>7, <2>1, Zenon
  <2>3. Cat(Cat(a, b), Append(One, v)) = Append(Append(Cat(a, b), y), v)
    BY <2>1, <2>2, Zenon
  <2>4. QED
    BY <2>3 DEF One
<1>10. Cat(a, Append(Append(b, y), v)) = Unfolded(Append(s, t))
  BY <1>4, <1>5, <1>6, <1>8, <1>9, Zenon
<1>11. QED
  BY <1>3, <1>10 DEF Mirrored, a

LEMMA StillBegins ==
    ASSUME NEW s \in Seq(SourceTags), NEW t \in SourceTags, NEW p \in Seq(Printed), Begins(s, p)
    PROVE  Begins(Append(s, t), p)
<1>1. PICK u \in Seq(PlainTags) : Unfolded(s) = Cat(Skeleton(p), u)
  BY DEF Begins
<1> DEFINE a == Skeleton(p)
           v == Unfold(t)
<1>2. a \in Seq(PlainTags) /\ v \in Seq(PlainTags) /\ Unfolded(Append(s, t)) = Cat(Unfolded(s), v)
  BY SkeletonLaws, UnfoldedLaws
<1>3. Unfolded(s) = Cat(a, u)
  BY <1>1
<1> HIDE DEF a, v
<1>4. Cat(Cat(a, u), v) = Cat(a, Cat(u, v)) /\ Cat(u, v) \in Seq(PlainTags)
  BY <1>2, CatLaws
<1>5. \E e \in Seq(PlainTags) : Unfolded(Append(s, t)) = Cat(a, e)
  BY <1>2, <1>3, <1>4
<1>6. QED
  BY <1>5 DEF Begins, a

LEMMA MirroredBegins ==
    ASSUME NEW s \in Seq(SourceTags), NEW p \in Seq(Printed), Mirrored(s, p, <<>>)
    PROVE  Skeleton(p) = Unfolded(s) /\ Begins(s, p)
<1>1. Skeleton(p) \in Seq(PlainTags) /\ Skeleton(<<>>) = <<>>
  BY SkeletonLaws
<1>2. Cat(Skeleton(p), <<>>) = Skeleton(p) /\ <<>> \in Seq(PlainTags)
  BY <1>1, CatLaws
<1>3. QED
  BY <1>1, <1>2 DEF Mirrored, Begins

\* A sentence that is printed.
LEMMA MirroredPrinted ==
    ASSUME NEW s \in Seq(SourceTags), NEW p \in Seq(Printed), NEW r \in Seq(Printed), Mirrored(s, p, r)
    PROVE  Cat(p, r) \in Seq(Printed) /\ Mirrored(s, Cat(p, r), <<>>)
<1>1. Cat(p, r) \in Seq(Printed)
  BY CatLaws
<1>2. Skeleton(Cat(p, r)) = Unfolded(s)
  BY SkeletonCat DEF Mirrored
<1>3. Skeleton(Cat(p, r)) \in Seq(PlainTags) /\ Skeleton(<<>>) = <<>>
  BY <1>1, SkeletonLaws
<1>4. Cat(Skeleton(Cat(p, r)), <<>>) = Skeleton(Cat(p, r))
  BY <1>3, CatLaws
<1>5. QED
  BY <1>1, <1>2, <1>3, <1>4 DEF Mirrored

-------------------------------------------------------------------------------
(***************************************************************************)
(* The inductive invariant.                                                *)
(***************************************************************************)
Stops(s) == s # <<>> => Last(s) \in {Tag("corpus", "start"), Tag("SENTENCE", "end")}

Following(s, w, o, c, p, r) ==
    /\ Reading(s, w, o, c)
    /\ Len(c) = 1 => r = <<>>
    /\ Len(o) = Len(c) => Mirrored(s, p, r)

Untouched ==
    /\ src = <<>> /\ within = <<>> /\ open = <<>>
    /\ calls = <<>> /\ tree = <<>> /\ out = <<>>

TransferInv ==
    /\ src \in Seq(SourceTags) /\ tree \in Seq(Printed) /\ out \in Seq(Printed)
    /\ ended \in BOOLEAN /\ exit \in {"running", "ok", "error"}
    /\ Begins(src, out)
    /\ exit # "ok" => Stops(out)
    /\ exit = "running" /\ ~ended => Untouched \/ Following(src, within, open, calls, out, tree)
    /\ exit = "running" /\ ended => ~ValidIn(src, within) \/ open # <<>>
    /\ exit = "ok" => ValidIn(src, within) /\ open = <<>> /\ Skeleton(out) = Unfolded(src)
    /\ exit = "error" => ~ValidIn(src, within) \/ (ended /\ open # <<>>)

LEMMA NothingYet == Begins(<<>>, <<>>) /\ Mirrored(<<>>, <<>>, <<>>) /\ ~ValidIn(<<>>, <<>>)
<1>1. <<>> \in Seq(PlainTags) /\ Cat(<<>>, <<>>) = <<>>
  BY CatLaws
<1>2. Skeleton(<<>>) = <<>> /\ Unfolded(<<>>) = <<>>
  BY SkeletonLaws, UnfoldedLaws
<1>3. QED
  BY <1>1, <1>2 DEF Begins, Mirrored, ValidIn

LEMMA TransferInit == Init => TransferInv
<1> SUFFICES ASSUME Init PROVE TransferInv
  OBVIOUS
<1>1. /\ <<>> \in Seq(SourceTags) /\ <<>> \in Seq(Printed)
      /\ Begins(<<>>, <<>>)
  BY NothingYet, EmptySeq
<1>2. QED
  BY <1>1 DEF Init, TransferInv, Untouched, Stops

LEMMA TransferImplies == TransferInv => ValidatesInput /\ MirrorsSource
<1> SUFFICES ASSUME TransferInv PROVE ValidatesInput /\ MirrorsSource
  OBVIOUS
<1>1. src \in Seq(SourceTags) /\ out \in Seq(Printed)
  BY DEF TransferInv
<1>2. ValidSoFar <=> ValidIn(src, within)
  BY <1>1, ValidIs
<1>3. ValidatesInput
  BY <1>2 DEF TransferInv, ValidatesInput
<1>4. PICK u \in Seq(PlainTags) : Unfolded(src) = Cat(Skeleton(out), u)
  BY DEF TransferInv, Begins
<1>5. Skeleton(out) \in Seq(PlainTags)
  BY <1>1, SkeletonLaws
<1>6. IsPrefix(Skeleton(out), Cat(Skeleton(out), u))
  BY <1>5, CatIsPrefix
<1>7. MirrorsSource
  BY <1>4, <1>6 DEF TransferInv, MirrorsSource, Stops
<1>8. QED
  BY <1>3, <1>7

-------------------------------------------------------------------------------
(***************************************************************************)
(* A tag that is read.                                                     *)
(***************************************************************************)
Given(t) ==
    /\ TransferInv /\ exit = "running" /\ ended = FALSE /\ ended' = FALSE
    /\ t \in SourceTags
    /\ src' = Append(src, t) /\ src' \in Seq(SourceTags) /\ src' # <<>>
    /\ within' = Append(within, Inner(open))
    /\ open' = Opened(open, src, t)
    /\ t.type = "end" => t = Tag(NameAt(src, Inner(open)), "end")
    /\ \/ Untouched /\ t.type # "end"
       \/ open # <<>> /\ Following(src, within, open, calls, out, tree)

LEMMA TagRead ==
    ASSUME NEW t \in Opening \cup {Tag(n, "end") : n \in Names}, TransferInv, exit = "running", NextTag(t)
    PROVE  Given(t)
<1>1. ended = FALSE /\ ended' = FALSE
  BY DEF NextTag, TransferInv
<1>2. t \in SourceTags /\ (t.type = "end" <=> t \notin Opening)
  <2>1. CASE t \in Opening
    <3>1. LaterWords \subseteq Words /\ LaterChunks \subseteq Chunks
      BY LexicalAssumption DEF LexicalAssumption
    <3>2. t \in [name : Names \ {"CHUNK", "NODE"}, type : {"start", "empty"}]
             \/ t \in [name : {"CHUNK"}, type : {"start", "empty"}, chunk : Chunks]
             \/ t \in [name : {"NODE"}, type : {"start", "empty"}, word : Words]
      BY <2>1, <3>1 DEF Opening
    <3>3. QED
      BY <2>1, <3>2 DEF SourceTags
  <2>2. CASE \E n \in Names : t = Tag(n, "end")
    <3>1. t \in SourceTags /\ t.type = "end"
      BY <2>2, TagsAre DEF Tag
    <3>2. \A z \in Opening : z.type # "end"
      BY DEF Opening
    <3>3. QED
      BY <3>1, <3>2
  <2>3. QED
    BY <2>1, <2>2
<1>3. src \in Seq(SourceTags) /\ (Untouched \/ Following(src, within, open, calls, out, tree))
  BY <1>1 DEF TransferInv
<1>4. src' = Append(src, t) /\ src' \in Seq(SourceTags) /\ src' # <<>>
  <2>1. src' = Append(src, t)
    BY DEF NextTag
  <2>2. Append(src, t) \in Seq(SourceTags) /\ Len(Append(src, t)) = Len(src) + 1 /\ Len(src) \in Nat
    BY <1>2, <1>3, AppendProperties, LenProperties
  <2>3. Append(src, t) # <<>>
    BY <2>2, EmptySeq
  <2>4. QED
    BY <2>1, <2>2, <2>3
<1>5. within' = Append(within, Inner(open)) /\ open' = Opened(open, src, t)
  BY DEF NextTag, Innermost, Inner, Opened
<1>6. Untouched => t.type # "end"
  BY <1>2 DEF NextTag, Untouched
<1>7. CASE Untouched
  BY <1>1, <1>2, <1>4, <1>5, <1>6, <1>7 DEF Given
<1>8. CASE Following(src, within, open, calls, out, tree)
  <2>1. src # <<>> /\ OpenIn(src, open)
    BY <1>8 DEF Following, Reading, Begun
  <2>2. open # <<>>
    BY <2>1, <1>2 DEF NextTag
  <2>3. t.type = "end" => t = Tag(NameAt(src, Inner(open)), "end")
    <3> HAVE t.type = "end"
    <3>1. t = Tag(src[Last(open)].name, "end")
      BY <1>2 DEF NextTag
    <3>2. Inner(open) \in 1 .. Len(src) /\ Inner(open) = Last(open)
      BY <1>2, <1>8, <2>2, OneRead DEF Following, Reading, Inner
    <3>3. \A a : \A b \in 1 .. a : b # 0
      OBVIOUS
    <3>4. QED
      BY <3>1, <3>2, <3>3 DEF NameAt
  <2>4. QED
    BY <1>1, <1>2, <1>4, <1>5, <1>8, <2>2, <2>3 DEF Given
<1>9. QED
  BY <1>3, <1>7, <1>8

LEMMA CallerIs ==
    ASSUME NEW t, Given(t)
    PROVE  /\ Caller = "main" => Untouched /\ t.type # "end"
           /\ Caller # "main" =>
                  /\ Following(src, within, open, calls, out, tree) /\ open # <<>>
                  /\ Reading(src, within, open, calls) /\ Begun(src, within, open) /\ Nested(calls)
                  /\ calls \in Seq(Procs) /\ calls # <<>> /\ Len(calls) \in Nat \ {0}
                  /\ Caller = calls[Len(calls)] /\ Caller \in Procs
<1>1. CASE Untouched /\ t.type # "end"
  <2>1. Caller = "main"
    BY <1>1 DEF Untouched, Caller
  <2>2. QED
    BY <1>1, <2>1
<1>2. CASE open # <<>> /\ Following(src, within, open, calls, out, tree)
  <2>1. /\ Reading(src, within, open, calls) /\ Begun(src, within, open) /\ Nested(calls)
        /\ calls \in Seq(Procs) /\ calls # <<>>
    BY <1>2 DEF Following, Reading
  <2>2. Len(calls) \in Nat \ {0} /\ calls[Len(calls)] \in Procs /\ Last(calls) = calls[Len(calls)]
    BY <2>1, FrontIs
  <2>3. Caller = calls[Len(calls)]
    BY <2>1, <2>2 DEF Caller
  <2>4. Caller # "main"
    BY <2>2, <2>3 DEF Procs
  <2>5. QED
    BY <1>2, <2>1, <2>2, <2>3, <2>4
<1>3. QED
  BY <1>1, <1>2 DEF Given

LEMMA GoesOn ==
    ASSUME NEW t, Given(t), exit' = "running", tree' \in Seq(Printed), out' \in Seq(Printed),
           Begins(src', out'), Stops(out'), Following(src', within', open', calls', out', tree')
    PROVE  TransferInv'
BY DEF Given, TransferInv

\* What a step that prints nothing leaves.
LEMMA PrintsNothing ==
    ASSUME NEW t, Given(t), UNCHANGED <<out, exit>>
    PROVE  /\ src \in Seq(SourceTags) /\ t \in SourceTags /\ tree \in Seq(Printed)
           /\ out \in Seq(Printed) /\ out' = out /\ exit' = "running"
           /\ Begins(src', out') /\ Stops(out')
<1>1. /\ src \in Seq(SourceTags) /\ t \in SourceTags /\ tree \in Seq(Printed) /\ out \in Seq(Printed)
      /\ Begins(src, out) /\ Stops(out) /\ src' = Append(src, t) /\ exit = "running"
  BY DEF Given, TransferInv
<1>2. Begins(Append(src, t), out)
  BY <1>1, StillBegins
<1>3. QED
  BY <1>1, <1>2

LEMMA RejectStep ==
    ASSUME NEW t, Given(t), ~Expected(t), Reject
    PROVE  TransferInv'
<1>1. ~ValidIn(src', within')
  <2>1. CASE Caller = "main"
    <3>1. Untouched /\ t.type # "end" /\ ~Starts(t, "corpus")
      BY <2>1, CallerIs DEF Expected
    <3>2. t.name # "corpus"
      <4>1. t.type \in {"start", "empty"}
        BY <3>1, TagsAre DEF Given, TagTypes
      <4>2. QED
        BY <3>1, <4>1 DEF Starts
    <3>3. src' = <<t>>
      BY <3>1 DEF Given, Untouched
    <3>4. QED
      BY <3>2, <3>3 DEF ValidIn
  <2>2. CASE Caller # "main"
    <3>1. /\ Reading(src, within, open, calls) /\ open # <<>>
          /\ Caller = calls[Len(calls)] /\ Caller \in Procs
      BY <2>2, CallerIs
    <3>2. ~ExpectedBy(Caller, t)
      BY <3>1 DEF Expected, ExpectedBy, Procs
    <3>3. t \in SourceTags /\ (t.type = "end" => t.name = NameAt(src, Inner(open)))
      BY DEF Given, Tag
    <3>4. ~ValidIn(Append(src, t), Append(within, Inner(open)))
      BY <3>1, <3>2, <3>3, Rejects
    <3>5. QED
      BY <3>4 DEF Given
  <2>3. QED
    BY <2>1, <2>2
<1>2. UNCHANGED <<calls, tree, out>> /\ exit' = "error"
  BY DEF Reject
<1>3. tree \in Seq(Printed) /\ out \in Seq(Printed) /\ Begins(src', out) /\ Stops(out)
  <2>1. /\ src \in Seq(SourceTags) /\ t \in SourceTags /\ tree \in Seq(Printed) /\ out \in Seq(Printed)
        /\ Begins(src, out) /\ Stops(out) /\ src' = Append(src, t)
    BY DEF Given, TransferInv
  <2>2. Begins(Append(src, t), out)
    BY <2>1, StillBegins
  <2>3. QED
    BY <2>1, <2>2
<1>4. QED
  BY <1>1, <1>2, <1>3 DEF Given, TransferInv

LEMMA StartCorpusStep ==
    ASSUME NEW t, Given(t), StartCorpus(t)
    PROVE  TransferInv'
<1> DEFINE x == Tag("corpus", "start")
<1>1. Untouched /\ t \in SourceTags /\ Starts(t, "corpus") /\ t.type \in {"start", "empty"} /\ t.name = "corpus"
  BY CallerIs DEF StartCorpus, Starts, Given
<1>2. src' = <<t>> /\ within' = <<0>> /\ calls' = <<"corpus">> /\ tree' = <<>> /\ out' = <<x>> /\ exit' = "running"
  BY <1>1 DEF Given, Untouched, Inner, StartCorpus, Enter
<1>3. x \in Printed /\ Plain(x) = x
  BY TagsAre DEF Names, TagTypes, Plain, Tag
<1>4. <<>> \in Seq(Printed) /\ <<x>> \in Seq(Printed) /\ <<x>> = Append(<<>>, x) /\ <<t>> = Append(<<>>, t)
  BY <1>3, EmptySeq
<1>5. <<>> \in Seq(SourceTags) /\ <<t>> \in Seq(SourceTags)
  BY <1>1, EmptySeq
<1>6. Placed(<<t>>, <<0>>)
  BY <1>5 DEF Placed
<1>7. Nested(<<"corpus">>) /\ <<"corpus">> \in Seq(Procs)
  BY DEF Nested, Procs
<1>8. Stops(<<x>>)
  BY DEF Stops, Last
<1>9. CASE t.type = "start"
  <2>1. open' = <<1>>
    BY <1>1, <1>9 DEF Given, Untouched, Opened
  <2>2. Begun(<<t>>, <<0>>, <<1>>)
    BY <1>1, <1>6 DEF Begun, OpenIn
  <2>3. Paired(<<t>>, <<1>>, <<"corpus">>)
    BY <1>1 DEF Paired, Element
  <2>4. ValidIn(<<t>>, <<0>>)
    BY <1>1, <1>9 DEF ValidIn, AllowedIn, Fits
  <2>5. ~Starts(t, "CHUNK")
    BY <1>1 DEF Starts
  <2>6. InStep(<<t>>, <<0>>, <<1>>, <<"corpus">>)
    BY <2>3, <2>4, <2>5 DEF InStep
  <2>7. Reading(<<t>>, <<0>>, <<1>>, <<"corpus">>)
    BY <1>7, <2>2, <2>6 DEF Reading
  <2>8. Mirrored(<<t>>, <<x>>, <<>>) /\ Begins(<<t>>, <<x>>)
    <3>1. Mirrored(Append(<<>>, t), <<>>, Append(<<>>, x))
      <4>1. Plain(x) = Plain(t) /\ t.type # "empty"
        BY <1>1, <1>9 DEF Plain, Tag
      <4> HIDE DEF x
      <4>2. QED
        BY <1>1, <1>3, <1>4, <1>5, <4>1, NothingYet, MirrorsOneMore
    <3>2. Cat(<<>>, <<x>>) = <<x>>
      BY <1>4, CatLaws
    <3> HIDE DEF x
    <3>3. Mirrored(<<t>>, <<>>, <<x>>)
      BY <1>4, <3>1
    <3>4. Mirrored(<<t>>, Cat(<<>>, <<x>>), <<>>)
      BY <1>4, <1>5, <3>3, MirroredPrinted
    <3>5. Mirrored(<<t>>, <<x>>, <<>>)
      BY <3>2, <3>4
    <3>6. QED
      BY <1>4, <1>5, <3>5, MirroredBegins
  <2>9. Following(<<t>>, <<0>>, <<1>>, <<"corpus">>, <<x>>, <<>>)
    BY <2>7, <2>8 DEF Following
  <2> HIDE DEF x
  <2>10. QED
    BY <1>2, <1>4, <1>8, <2>1, <2>8, <2>9, GoesOn
<1>10. CASE t.type = "empty"
  <2>1. open' = <<>>
    BY <1>1, <1>10 DEF Given, Untouched, Opened
  <2>2. Begun(<<t>>, <<0>>, <<>>)
    BY <1>1, <1>6, EmptySeq DEF Begun, OpenIn
  <2>3. ~ValidIn(<<t>>, <<0>>)
    <3>1. IsStart(t) /\ ~Fits(t, NameAt(<<t>>, 0), 0, 1)
      BY <1>1, <1>10 DEF IsStart, Fits
    <3>2. 1 \in 1 .. Len(<<t>>) /\ <<t>>[1] = t /\ <<0>>[1] = 0
      OBVIOUS
    <3>3. QED
      BY <3>1, <3>2 DEF ValidIn, AllowedIn
  <2>4. Len(<<>>) = 0 /\ Len(<<"corpus">>) = 1
    OBVIOUS
  <2>5. Reading(<<t>>, <<0>>, <<>>, <<"corpus">>)
    BY <1>7, <2>2, <2>3, <2>4 DEF Reading
  <2>6. Begins(<<t>>, <<x>>)
    <3> DEFINE y == Tag("corpus", "end")
    <3>1. Unfold(t) = <<x, y>> /\ y \in PlainTags /\ x \in PlainTags
      BY <1>1, <1>10, TagsAre DEF Unfold, Names, TagTypes
    <3>2. Unfolded(<<t>>) = Cat(<<>>, <<x, y>>)
      BY <1>1, <1>4, <1>5, <3>1, UnfoldedLaws
    <3>3. Skeleton(<<x>>) = <<x>>
      <4>1. Skeleton(Append(<<>>, x)) = Append(<<>>, x)
        <5> HIDE DEF x
        <5> QED BY <1>3, <1>4, SkeletonLaws
      <4>2. QED
        BY <4>1, <1>4
    <3> HIDE DEF x, y
    <3>4. <<x, y>> \in Seq(PlainTags) /\ <<x>> \in Seq(PlainTags) /\ <<y>> \in Seq(PlainTags)
      BY <3>1
    <3>5. Cat(<<>>, <<x, y>>) = <<x, y>>
      BY <3>4, CatLaws
    <3>6. <<x, y>> = Cat(<<x>>, <<y>>)
      <4>1. Append(<<x>>, y) = Cat(<<x>>, <<y>>)
        BY <3>1, <3>4, CatAppend
      <4>2. <<x, y>> = Append(<<x>>, y)
        OBVIOUS
      <4>3. QED
        BY <4>1, <4>2, Zenon
    <3>7. QED
      BY <3>2, <3>3, <3>4, <3>5, <3>6, Zenon DEF Begins
  <2>7. Following(<<t>>, <<0>>, <<>>, <<"corpus">>, <<x>>, <<>>)
    BY <2>4, <2>5 DEF Following
  <2> HIDE DEF x
  <2>8. QED
    BY <1>2, <1>4, <1>8, <2>1, <2>6, <2>7, GoesOn
<1>11. QED
  BY <1>1, <1>9, <1>10

\* The start tag of a sentence, a chunk or a node.
LEMMA EnterStep ==
    ASSUME NEW t, Given(t), UNCHANGED <<out, exit>>, Caller # "main",
           NEW q \in {"SENTENCE", "head", "NODE"}, Starts(t, Element(q)),
           q = "SENTENCE" => Caller = "corpus",
           q = "head" => Caller \in {"SENTENCE", "CHUNK"},
           q = "NODE" => Caller \in {"head", "NODE"} /\ t.type = "start",
           calls' = Append(Returned(calls), q),
           NEW x \in Printed, Plain(x) = Tag(t.name, "start"), tree' = Append(tree, x)
    PROVE  TransferInv'
<1>1. /\ Following(src, within, open, calls, out, tree) /\ open # <<>>
      /\ Reading(src, within, open, calls) /\ Caller = calls[Len(calls)]
      /\ calls \in Seq(Procs) /\ calls # <<>> /\ Nested(calls) /\ Len(calls) \in Nat \ {0}
  BY CallerIs
<1>2. /\ src \in Seq(SourceTags) /\ t \in SourceTags /\ tree \in Seq(Printed)
      /\ out \in Seq(Printed) /\ out' = out /\ exit' = "running"
      /\ Begins(src', out') /\ Stops(out')
  BY PrintsNothing
<1>3. src' = Append(src, t) /\ within' = Append(within, Inner(open)) /\ open' = Opened(open, src, t)
  BY DEF Given
<1>4. Reading(src', within', open', calls')
  <2>1. Reading(Append(src, t), Append(within, Inner(open)), Opened(open, src, t), Append(Returned(calls), q))
    BY <1>1, <1>2, Enters
  <2>2. QED
    BY <2>1, <1>3
<1>5. tree' \in Seq(Printed)
  BY <1>2, AppendProperties
<1>6. Len(calls') = Len(calls) + 1 /\ Len(calls') # 1
  <2>1. Returned(calls) \in Seq(Procs) /\ Len(Returned(calls)) = Len(calls) /\ q \in Procs
    BY <1>1, NestedOn DEF Procs
  <2>2. Len(calls') = Len(calls) + 1
    BY <2>1, AppendProperties
  <2>3. QED
    BY <2>2, <1>1
<1>7. Len(open') = Len(calls') => Mirrored(src', out', tree')
  <2> SUFFICES ASSUME Len(open') = Len(calls') PROVE Mirrored(src', out', tree')
    OBVIOUS
  <2>1. Begun(src, within, open) /\ Len(open) <= Len(calls)
    BY <1>1 DEF Reading
  <2>2. /\ Len(open) \in Nat \ {0}
        /\ Len(open') = CASE t.type = "start" -> Len(open) + 1
                          [] t.type = "end"   -> Len(open) - 1
                          [] OTHER            -> Len(open)
    <3> DEFINE b == Opened(open, src, t)
    <3> HIDE DEF b
    <3>1. /\ Len(open) \in Nat \ {0}
          /\ Len(b) = CASE t.type = "start" -> Len(open) + 1
                        [] t.type = "end"   -> Len(open) - 1
                        [] OTHER            -> Len(open)
      BY <2>1, <1>1, <1>2, OneRead DEF b
    <3>2. open' = b
      BY <1>3 DEF b
    <3>3. QED
      BY <3>1, <3>2, Zenon
  <2>3. t.type = "start" /\ Len(open) = Len(calls)
    <3>1. t.type \in {"start", "empty"}
      BY DEF Starts
    <3>2. t.type = "empty" => Len(open') = Len(open)
      BY <2>2
    <3>3. t.type = "start" => Len(open') = Len(open) + 1
      BY <2>2
    <3>4. \A a, b \in Nat : a <= b => a # b + 1 /\ (a + 1 = b + 1 => a = b)
      OBVIOUS
    <3>5. Len(open) \in Nat /\ Len(calls) \in Nat /\ Len(open') = Len(calls) + 1
      BY <2>2, <1>1, <1>6
    <3>6. QED
      BY <3>1, <3>2, <3>3, <3>4, <3>5, <2>1, Zenon
  <2>4. Plain(x) = Plain(t) /\ t.type # "empty"
    BY <2>3 DEF Plain
  <2>5. Mirrored(src, out, tree)
    BY <1>1, <2>3 DEF Following
  <2>6. Mirrored(Append(src, t), out, Append(tree, x))
    BY <1>2, <2>4, <2>5, MirrorsOneMore
  <2>7. QED
    BY <2>6, <1>2, <1>3
<1>8. Following(src', within', open', calls', out', tree')
  BY <1>4, <1>6, <1>7 DEF Following
<1>9. QED
  BY <1>2, <1>5, <1>8, GoesOn

LEMMA StartSentenceStep ==
    ASSUME NEW t, Given(t), StartSentence(t)
    PROVE  TransferInv'
<1> DEFINE x == Tag("SENTENCE", "start")
<1>1. /\ Caller = "corpus" /\ Starts(t, "SENTENCE") /\ calls' = Append(calls, "SENTENCE")
      /\ tree' = <<x>> /\ UNCHANGED <<out, exit>>
  BY DEF StartSentence, Enter
<1>2. /\ Following(src, within, open, calls, out, tree) /\ Caller = calls[Len(calls)]
      /\ calls \in Seq(Procs) /\ calls # <<>> /\ Nested(calls)
  BY <1>1, CallerIs
<1>3. Returned(calls) = calls
  BY <1>1, <1>2 DEF Returned
<1>4. tree' = Append(tree, x)
  <2>1. Len(calls) = 1
    BY <1>1, <1>2, Depth
  <2>2. tree = <<>>
    BY <2>1, <1>2 DEF Following
  <2>3. <<x>> = Append(<<>>, x)
    OBVIOUS
  <2>4. QED
    BY <2>2, <2>3, <1>1
<1>5. x \in Printed /\ Plain(x) = Tag(t.name, "start")
  BY <1>1, TagsAre DEF Names, TagTypes, Plain, Tag, Starts
<1>6. Starts(t, Element("SENTENCE"))
  BY <1>1 DEF Element
<1> HIDE DEF x
<1>7. QED
  BY <1>1, <1>3, <1>4, <1>5, <1>6, EnterStep

LEMMA StartChunkStep ==
    ASSUME NEW t, Given(t), StartChunk(t)
    PROVE  TransferInv'
<1> DEFINE x == [name |-> "CHUNK", type |-> "start", chunkType |-> ChunkType(t.chunk)]
<1>1. /\ Caller \in {"SENTENCE", "CHUNK"} /\ Starts(t, "CHUNK") /\ calls' = Append(calls, "head")
      /\ tree' = Append(tree, x) /\ UNCHANGED <<out, exit>>
  BY DEF StartChunk, Enter, Emit
<1>2. Caller = calls[Len(calls)]
  BY <1>1, CallerIs
<1>3. Returned(calls) = calls
  BY <1>1, <1>2 DEF Returned
<1>4. x \in Printed /\ Plain(x) = Tag(t.name, "start")
  <2>1. t \in SourceTags /\ t.name = "CHUNK" /\ t.type # "end"
    BY <1>1 DEF Given, Starts
  <2>2. t.chunk \in Chunks
    BY <2>1 DEF SourceTags
  <2>3. Plain(x) = Tag(t.name, "start")
    BY <2>1 DEF Plain, Tag
  <2>4. x \in [name : {"CHUNK"}, type : {"start"}, chunkType : {ChunkType(c) : c \in Chunks}]
    BY <2>2
  <2>5. QED
    BY <2>3, <2>4 DEF Printed
<1>5. Starts(t, Element("head"))
  BY <1>1 DEF Element
<1> HIDE DEF x
<1>6. QED
  BY <1>1, <1>3, <1>4, <1>5, EnterStep

LEMMA ReadNodeStep ==
    ASSUME NEW t, Given(t), ReadNode(t)
    PROVE  TransferInv'
<1> DEFINE x == Node(t.word)
           z == Tag("NODE", "end")
<1>1. Caller \in {"head", "NODE"} /\ Starts(t, "NODE") /\ UNCHANGED <<out, exit>>
  BY DEF ReadNode
<1>2. /\ Following(src, within, open, calls, out, tree) /\ open # <<>>
      /\ Reading(src, within, open, calls) /\ Caller = calls[Len(calls)]
      /\ calls \in Seq(Procs) /\ calls # <<>> /\ Nested(calls) /\ Len(calls) \in Nat \ {0}
  BY <1>1, CallerIs
<1>3. (IF Caller = "head" THEN Append(Front(calls), "CHUNK") ELSE calls) = Returned(calls)
  BY <1>2 DEF Returned
<1>4. t \in SourceTags /\ t.name = "NODE" /\ t.type \in {"start", "empty"}
  BY <1>1 DEF Given, Starts
<1>5. x \in Printed /\ Plain(x) = Tag(t.name, "start")
  <2>1. t.word \in Words
    BY <1>4 DEF SourceTags
  <2>2. x.name = "NODE" /\ x.type = "start"
    BY DEF Node
  <2> HIDE DEF x
  <2>3. Plain(x) = Tag(t.name, "start")
    BY <1>4, <2>2 DEF Plain
  <2>4. QED
    BY <2>1, <2>3 DEF Printed, x
<1>6. z \in Printed /\ Plain(z) = Tag(t.name, "end")
  BY <1>4, TagsAre DEF Names, TagTypes, Plain, Tag
<1>7. CASE t.type = "start"
  <2>1. calls' = Append(Returned(calls), "NODE") /\ tree' = Append(tree, x)
    BY <1>3, <1>7 DEF ReadNode, Emit
  <2>2. Starts(t, Element("NODE")) /\ Caller # "main"
    BY <1>1 DEF Element
  <2> HIDE DEF x
  <2>3. QED
    BY <1>1, <1>5, <1>7, <2>1, <2>2, EnterStep
<1>8. CASE t.type = "empty"
  <2>1. calls' = Returned(calls) /\ tree' = tree \o <<x, z>>
    BY <1>3, <1>8 DEF ReadNode
  <2>2. /\ src \in Seq(SourceTags) /\ tree \in Seq(Printed)
        /\ out \in Seq(Printed) /\ out' = out /\ exit' = "running"
        /\ Begins(src', out') /\ Stops(out')
    BY <1>1, PrintsNothing
  <2>3. src' = Append(src, t) /\ within' = Append(within, Inner(open)) /\ open' = open
    BY <1>8 DEF Given, Opened
  <2> HIDE DEF x, z
  <2>4. tree' = Append(Append(tree, x), z) /\ tree' \in Seq(Printed)
    <3>1. <<x>> \in Seq(Printed) /\ <<x, z>> = Append(<<x>>, z)
      BY <1>5
    <3>2. tree \o Append(<<x>>, z) = Append(tree \o <<x>>, z) /\ tree \o Append(<<x>>, z) \in Seq(Printed)
      <4>1. tree \o Append(<<x>>, z) = Append(tree \o <<x>>, z) /\ tree \o <<x>> \in Seq(Printed)
        BY <1>6, <2>2, <3>1, ConcatAppend
      <4>2. Append(tree \o <<x>>, z) \in Seq(Printed)
        BY <4>1, <1>6, AppendProperties
      <4>3. QED
        BY <4>1, <4>2
    <3>3. tree \o <<x>> = Append(tree, x)
      BY <1>5, <2>2, AppendIsConcat
    <3>4. QED
      BY <2>1, <3>1, <3>2, <3>3, Zenon
  <2>5. Reading(src', within', open', calls')
    <3>1. Reading(Append(src, t), Append(within, Inner(open)), open, Returned(calls))
      BY <1>1, <1>2, <1>4, <1>8, TakesEmptyNode
    <3>2. QED
      BY <3>1, <2>1, <2>3
  <2>6. Len(calls') = Len(calls) /\ Len(calls') # 1
    BY <1>1, <1>2, <2>1, NestedOn, Depth
  <2>7. Len(open') = Len(calls') => Mirrored(src', out', tree')
    <3> HAVE Len(open') = Len(calls')
    <3>1. Mirrored(src, out, tree)
      BY <1>2, <2>3, <2>6 DEF Following
    <3>2. Mirrored(Append(src, t), out, Append(Append(tree, x), z))
      BY <1>4, <1>5, <1>6, <1>8, <2>2, <3>1, MirrorsEmptyNode
    <3>3. QED
      BY <3>2, <2>2, <2>3, <2>4
  <2>8. Following(src', within', open', calls', out', tree')
    BY <2>5, <2>6, <2>7 DEF Following
  <2>9. QED
    BY <2>2, <2>4, <2>8, GoesOn
<1>9. QED
  BY <1>4, <1>7, <1>8

\* The end tag of a node or of a chunk.
LEMMA LeaveStep ==
    ASSUME NEW t, Given(t), UNCHANGED <<out, exit>>, Caller \in {"NODE", "CHUNK"}, t.type = "end",
           calls' = Front(calls), tree' = Append(tree, t)
    PROVE  TransferInv'
<1>1. /\ Following(src, within, open, calls, out, tree) /\ open # <<>>
      /\ Reading(src, within, open, calls) /\ Caller = calls[Len(calls)]
      /\ calls \in Seq(Procs) /\ calls # <<>> /\ Nested(calls) /\ Len(calls) \in Nat \ {0}
  BY CallerIs
<1>2. /\ src \in Seq(SourceTags) /\ t \in SourceTags /\ tree \in Seq(Printed)
      /\ out \in Seq(Printed) /\ out' = out /\ exit' = "running"
      /\ Begins(src', out') /\ Stops(out')
  BY PrintsNothing
<1>3. src' = Append(src, t) /\ within' = Append(within, Inner(open)) /\ open' = Front(open)
  BY DEF Given, Opened
<1>4. Reading(src', within', open', calls')
  <2>1. Reading(Append(src, t), Append(within, Inner(open)), Front(open), Front(calls))
    BY <1>1, <1>2, Leaves
  <2>2. QED
    BY <2>1, <1>3
<1>5. t \in Printed /\ tree' \in Seq(Printed)
  <2>1. t.name \in Names /\ t = Tag(t.name, "end")
    BY <1>2, TagsAre DEF Given, Tag
  <2>2. Tag(t.name, "end") \in Printed
    BY <2>1, TagsAre DEF TagTypes
  <2>3. t \in Printed
    BY <2>1, <2>2
  <2>4. QED
    BY <2>3, <1>2, AppendProperties
<1>6. Len(calls') = Len(calls) - 1 /\ Len(open') = Len(open) - 1 /\ Len(open) \in Nat /\ Len(calls) # 2
  <2>1. open \in Seq(Nat)
    BY <1>1 DEF Reading, Begun, OpenIn
  <2>2. Len(calls') = Len(calls) - 1 /\ Len(open') = Len(open) - 1
    BY <1>1, <1>3, <2>1, FrontIs
  <2>3. Len(calls) # 2
    BY <1>1, Depth
  <2>4. QED
    BY <2>1, <2>2, <2>3, LenProperties
<1>7. Len(calls') # 1 /\ (Len(open') = Len(calls') => Len(open) = Len(calls))
  <2>1. \A a, b \in Nat : a # 2 => a - 1 # 1 /\ (b - 1 = a - 1 => b = a)
    OBVIOUS
  <2>2. QED
    BY <1>1, <1>6, <2>1, Zenon
<1>8. Len(open') = Len(calls') => Mirrored(src', out', tree')
  <2> HAVE Len(open') = Len(calls')
  <2>1. Mirrored(src, out, tree)
    BY <1>1, <1>7 DEF Following
  <2>2. Mirrored(Append(src, t), out, Append(tree, t))
    BY <1>2, <1>5, <2>1, MirrorsOneMore
  <2>3. QED
    BY <2>2, <1>2, <1>3
<1>9. Following(src', within', open', calls', out', tree')
  BY <1>4, <1>7, <1>8 DEF Following
<1>10. QED
  BY <1>2, <1>5, <1>9, GoesOn

LEMMA EndNodeStep ==
    ASSUME NEW t, Given(t), EndNode(t)
    PROVE  TransferInv'
BY LeaveStep DEF EndNode, Ends, Emit

LEMMA EndChunkStep ==
    ASSUME NEW t, Given(t), EndChunk(t)
    PROVE  TransferInv'
BY LeaveStep DEF EndChunk, Ends, Emit

\* The whole sentence is printed, and nothing of the next has been read.
LEMMA EndSentenceStep ==
    ASSUME NEW t, Given(t), EndSentence(t)
    PROVE  TransferInv'
<1>1. /\ Caller = "SENTENCE" /\ t.name = "SENTENCE" /\ t.type = "end"
      /\ calls' = Front(calls) /\ out' = Cat(out, Append(tree, t)) /\ tree' = <<>> /\ exit' = exit
  BY DEF EndSentence, Ends, Cat
<1>2. /\ Following(src, within, open, calls, out, tree) /\ open # <<>>
      /\ Reading(src, within, open, calls) /\ Caller = calls[Len(calls)]
      /\ calls \in Seq(Procs) /\ calls # <<>>
  BY <1>1, CallerIs
<1>3. /\ src \in Seq(SourceTags) /\ t \in SourceTags /\ tree \in Seq(Printed)
      /\ out \in Seq(Printed) /\ exit' = "running"
  BY <1>1 DEF Given, TransferInv
<1>4. /\ src' = Append(src, t) /\ within' = Append(within, Inner(open)) /\ open' = Front(open)
      /\ t = Tag(NameAt(src, Inner(open)), "end")
  BY <1>1 DEF Given, Opened
<1>5. Reading(src', within', open', calls')
  <2>1. Reading(Append(src, t), Append(within, Inner(open)), Front(open), Front(calls))
    BY <1>1, <1>2, <1>3, Leaves
  <2>2. QED
    BY <2>1, <1>1, <1>4
<1>6. NameAt(src, Inner(open)) = "SENTENCE"
  BY <1>1, <1>4 DEF Tag
<1>7. Len(calls) = 2 /\ Len(open) = 2
  BY <1>1, <1>2, <1>6, LeavesSentence
<1>8. t = Tag("SENTENCE", "end") /\ t \in Printed
  BY <1>4, <1>6, TagsAre DEF Names, TagTypes
<1>9. Mirrored(Append(src, t), out, Append(tree, t)) /\ Append(tree, t) \in Seq(Printed)
  <2>1. Mirrored(src, out, tree)
    BY <1>2, <1>7 DEF Following
  <2>2. QED
    BY <2>1, <1>1, <1>3, <1>8, MirrorsOneMore, AppendProperties
<1>10. out' \in Seq(Printed) /\ Mirrored(src', out', <<>>) /\ Begins(src', out')
  <2>1. Append(src, t) \in Seq(SourceTags)
    BY <1>3, AppendProperties
  <2>2. /\ Cat(out, Append(tree, t)) \in Seq(Printed)
        /\ Mirrored(Append(src, t), Cat(out, Append(tree, t)), <<>>)
    BY <1>3, <1>9, <2>1, MirroredPrinted
  <2>3. Begins(Append(src, t), Cat(out, Append(tree, t)))
    BY <2>1, <2>2, MirroredBegins
  <2>4. QED
    BY <2>2, <2>3, <1>1, <1>4
<1>11. Stops(out')
  <2>1. out' = Append(Cat(out, tree), t) /\ Cat(out, tree) \in Seq(Printed)
    BY <1>1, <1>3, <1>8, CatOfAppend
  <2> DEFINE p == Cat(out, tree)
  <2> HIDE DEF p
  <2>2. p \in Seq(Printed)
    BY <2>1 DEF p
  <2>3. Last(Append(p, t)) = t
    BY <1>8, <2>2, AppendProperties, LenProperties DEF Last
  <2>4. QED
    BY <2>1, <2>3, <1>8 DEF Stops, p
<1>12. <<>> \in Seq(Printed)
  BY EmptySeq
<1>13. Following(src', within', open', calls', out', tree')
  BY <1>1, <1>5, <1>10 DEF Following
<1>14. QED
  BY <1>1, <1>3, <1>10, <1>11, <1>12, <1>13, GoesOn

LEMMA EndCorpusStep ==
    ASSUME NEW t, Given(t), EndCorpus(t)
    PROVE  TransferInv'
<1>1. /\ Caller = "corpus" /\ t.name = "corpus" /\ t.type = "end"
      /\ calls' = <<>> /\ out' = Append(out, t) /\ tree' = tree /\ exit' = "ok"
  BY DEF EndCorpus, Ends
<1>2. /\ Following(src, within, open, calls, out, tree) /\ open # <<>>
      /\ Reading(src, within, open, calls) /\ Caller = calls[Len(calls)]
  BY <1>1, CallerIs
<1>3. /\ src \in Seq(SourceTags) /\ t \in SourceTags /\ tree \in Seq(Printed) /\ out \in Seq(Printed)
  BY DEF Given, TransferInv
<1>4. src' = Append(src, t) /\ within' = Append(within, Inner(open)) /\ open' = Front(open) /\ t = Tag("corpus", "end")
  BY <1>1 DEF Given, Opened, Tag
<1>5. Len(calls) = 1 /\ Len(open) = 1 /\ ValidIn(src', within') /\ open' = <<>>
  BY <1>1, <1>2, <1>3, <1>4, Finishes
<1>6. tree = <<>> /\ Mirrored(src, out, tree)
  BY <1>2, <1>5 DEF Following
<1>7. t \in Printed /\ Append(out, t) \in Seq(Printed) /\ Append(tree, t) = <<t>> /\ <<t>> \in Seq(Printed)
  BY <1>3, <1>4, <1>6, TagsAre, AppendProperties DEF Names, TagTypes
<1>8. Mirrored(Append(src, t), out, <<t>>)
  <2>1. Mirrored(Append(src, t), out, Append(tree, t))
    BY <1>1, <1>3, <1>6, <1>7, MirrorsOneMore
  <2>2. QED
    BY <2>1, <1>7
<1>9. Append(out, t) = Cat(out, <<t>>)
  BY <1>3, <1>7, CatAppend
<1>10. Skeleton(out') = Unfolded(src') /\ Begins(src', out')
  <2>1. Append(src, t) \in Seq(SourceTags)
    BY <1>3, AppendProperties
  <2>2. Mirrored(Append(src, t), Append(out, t), <<>>)
    BY <1>3, <1>7, <1>8, <1>9, <2>1, MirroredPrinted
  <2>3. QED
    BY <1>1, <1>4, <1>7, <2>1, <2>2, MirroredBegins
<1>11. QED
  BY <1>1, <1>3, <1>5, <1>7, <1>10 DEF Given, TransferInv

\* The document has ended: what is wrong is that elements are still open.
LEMMA ReadEndStep ==
    ASSUME TransferInv, ReadEnd
    PROVE  TransferInv'
<1>1. PICK t \in {NoTag} \cup Range(src) :
        NoNextTag(t) /\ (EndNode(t) \/ EndChunk(t) \/ (~ExpectedAtEnd(t) /\ Reject))
  BY DEF ReadEnd
<1>2. /\ exit = "running" /\ ended' = TRUE /\ src' = src /\ within' = within /\ open' = open
  BY <1>1 DEF ReadEnd, NoNextTag
<1>3. ~ValidIn(src, within) \/ open # <<>>
  <2>1. CASE ended
    BY <1>2, <2>1 DEF TransferInv
  <2>2. CASE ~ended
    <3>1. Untouched \/ Following(src, within, open, calls, out, tree)
      BY <1>2, <2>2 DEF TransferInv
    <3>2. CASE Untouched
      BY <3>2 DEF Untouched, ValidIn
    <3>3. CASE Following(src, within, open, calls, out, tree)
      <4>1. Reading(src, within, open, calls) /\ calls \in Seq(Procs) /\ calls # <<>>
        BY <3>3 DEF Following, Reading
      <4>2. Len(calls) \in Nat \ {0}
        BY <4>1, FrontIs
      <4> SUFFICES ASSUME open = <<>> PROVE ~ValidIn(src, within)
        OBVIOUS
      <4>3. Len(open) < Len(calls)
        BY <4>2
      <4>4. QED
        BY <4>1, <4>3 DEF Reading
    <3>4. QED
      BY <3>1, <3>2, <3>3
  <2>3. QED
    BY <2>1, <2>2
<1>4. tree' \in Seq(Printed)
  <2>1. tree \in Seq(Printed)
    BY DEF TransferInv
  <2>2. CASE EndNode(t) \/ EndChunk(t)
    <3>1. t # NoTag /\ tree' = Append(tree, t) /\ t.type = "end"
      BY <2>2 DEF EndNode, EndChunk, Ends, Emit, NoTag, Tag
    <3>2. t \in Range(src) /\ src \in Seq(SourceTags)
      BY <3>1, <1>1 DEF TransferInv
    <3>3. t \in SourceTags
      BY <3>2, ElementOfSeq, LenProperties DEF Range
    <3>4. t = Tag(t.name, "end") /\ t.name \in Names
      BY <3>1, <3>3, TagsAre DEF SourceTags, Tag
    <3>5. Tag(t.name, "end") \in Printed
      BY <3>4, TagsAre DEF TagTypes
    <3>6. t \in Printed
      BY <3>4, <3>5
    <3>7. QED
      BY <2>1, <3>1, <3>6, AppendProperties
  <2>3. CASE Reject
    BY <2>1, <2>3 DEF Reject
  <2>4. QED
    BY <1>1, <2>2, <2>3
<1>5. out' = out /\ exit' \in {"running", "error"}
  BY <1>1, <1>2 DEF EndNode, EndChunk, Reject
<1>6. QED
  BY <1>2, <1>3, <1>4, <1>5 DEF TransferInv

LEMMA TransferStep == TransferInv /\ [Next]_vars => TransferInv'
<1> SUFFICES ASSUME TransferInv, [Next]_vars PROVE TransferInv'
  OBVIOUS
<1>1. CASE ReadTag
  <2>1. PICK t \in Opening \cup {Tag(n, "end") : n \in Names} : NextTag(t) /\ HandleTag(t)
    BY <1>1 DEF ReadTag
  <2>2. Given(t)
    BY <1>1, <2>1, TagRead DEF ReadTag
  <2>3. QED
    BY <2>1, <2>2, StartCorpusStep, StartSentenceStep, StartChunkStep, ReadNodeStep, EndNodeStep,
       EndChunkStep, EndSentenceStep, EndCorpusStep, RejectStep DEF HandleTag
<1>2. CASE ReadEnd
  BY <1>2, ReadEndStep
<1>3. CASE UNCHANGED vars
  BY <1>3 DEF vars, TransferInv, Untouched
<1>4. QED
  BY <1>1, <1>2, <1>3 DEF Next

LEMMA TransferInductive == Spec => []TransferInv
<1>1. QED
  BY TransferInit, TransferStep, PTL DEF Spec

\* squoia_xfer_lex accepts exactly the documents of nested sentences, chunks
\* with a node first, and nodes, whatever sequence of tags it is given.
THEOREM OnlyValidAccepted == Spec => []ValidatesInput
<1>1. QED
  BY TransferInductive, TransferImplies, PTL

\* What it prints has the elements of the source in their nesting, and stops
\* after a whole sentence.
THEOREM SourceMirrored == Spec => []MirrorsSource
<1>1. QED
  BY TransferInductive, TransferImplies, PTL

-------------------------------------------------------------------------------
(***************************************************************************)
(* The alternatives of a word, in the order of order_ordainak.             *)
(***************************************************************************)
Slots  == Alternatives \cup {Hole}
Orders == [zero : BOOLEAN, list : Seq(Slots)]
Rank(st, alt) == IF st.zero THEN alt.sense + 1 ELSE alt.sense

LEMMA SenseIs == \A alt \in Alternatives : alt.sense \in Nat /\ alt # Hole /\ alt \in Slots
BY DEF Alternatives, Slots

LEMMA PlacedFront ==
    ASSUME NEW st \in Orders, NEW alt \in Alternatives, alt.sense = 0
    PROVE  LET new == PlaceAlternative(st, alt)
           IN  /\ new \in Orders
               /\ new.zero
               /\ Len(new.list) = Len(st.list) + 1
               /\ new.list[1] = alt
               /\ \A p \in 1 .. Len(st.list) : new.list[p + 1] = st.list[p]
<1> DEFINE l == st.list
           m == <<alt>> \o l
<1>1. l \in Seq(Slots) /\ alt \in Slots /\ Len(l) \in Nat
  BY SenseIs, LenProperties DEF Orders
<1>2. <<alt>> \in Seq(Slots) /\ Len(<<alt>>) = 1 /\ <<alt>>[1] = alt
  BY <1>1
<1>3. /\ m \in Seq(Slots) /\ Len(m) = 1 + Len(l)
      /\ m[1] = alt
      /\ \A p \in 1 .. Len(l) : m[p + 1] = l[p]
  <2> HIDE DEF l
  <2> DEFINE a == <<alt>>
  <2>1. a \in Seq(Slots) /\ Len(a) = 1 /\ a[1] = alt
    BY <1>2
  <2> HIDE DEF a
  <2>2. /\ a \o l \in Seq(Slots) /\ Len(a \o l) = 1 + Len(l)
        /\ \A p \in 1 .. 1 + Len(l) : (a \o l)[p] = IF p <= 1 THEN a[p] ELSE l[p - 1]
    <3> DEFINE c == Cat(a, l)
    <3>1. /\ c \in Seq(Slots) /\ Len(c) = Len(a) + Len(l)
          /\ \A p \in 1 .. Len(a) + Len(l) : c[p] = IF p <= Len(a) THEN a[p] ELSE l[p - Len(a)]
      BY <1>1, <2>1, ConcatProperties DEF Cat
    <3> HIDE DEF c
    <3>2. /\ c \in Seq(Slots) /\ Len(c) = 1 + Len(l)
          /\ \A p \in 1 .. 1 + Len(l) : c[p] = IF p <= 1 THEN a[p] ELSE l[p - 1]
      BY <2>1, <3>1
    <3>3. QED
      BY <3>2 DEF c, Cat
  <2>3. \A p \in 1 .. Len(l) : p + 1 \in 1 .. 1 + Len(l) /\ ~(p + 1 <= 1) /\ p + 1 - 1 = p
    BY <1>1
  <2>4. 1 \in 1 .. 1 + Len(l)
    BY <1>1
  <2>5. QED
    BY <2>1, <2>2, <2>3, <2>4 DEF a
<1>4. PlaceAlternative(st, alt) = [zero |-> TRUE, list |-> m]
  BY DEF PlaceAlternative
<1> HIDE DEF m
<1>5. QED
  BY <1>1, <1>3, <1>4 DEF Orders

LEMMA MaxOfTwo == \A i, j \in Nat : LET m == Max({i, j}) IN m \in Nat /\ m >= i /\ m >= j /\ (m = i \/ m = j)
<1> SUFFICES ASSUME NEW i \in Nat, NEW j \in Nat
             PROVE  Max({i, j}) \in {i, j} /\ Max({i, j}) >= i /\ Max({i, j}) >= j
  OBVIOUS
<1>1. \E x \in {i, j} : \A y \in {i, j} : x >= y
  <2>1. CASE i >= j
    BY <2>1
  <2>2. CASE j >= i
    BY <2>2
  <2>3. QED
    BY <2>1, <2>2
<1>2. Max({i, j}) \in {i, j} /\ \A y \in {i, j} : Max({i, j}) >= y
  BY <1>1 DEF Max
<1>3. QED
  BY <1>2

LEMMA PlacedAtRank ==
    ASSUME NEW st \in Orders, NEW alt \in Alternatives, alt.sense # 0
    PROVE  LET new == PlaceAlternative(st, alt)
               i   == Rank(st, alt)
           IN  /\ new \in Orders
               /\ new.zero = st.zero
               /\ Len(new.list) >= Len(st.list)
               /\ Len(new.list) = i \/ Len(new.list) = Len(st.list)
               /\ i \in 1 .. Len(new.list) /\ new.list[i] = alt
               /\ \A p \in 1 .. Len(new.list) :
                      p # i => new.list[p] = IF p <= Len(st.list) THEN st.list[p] ELSE Hole
<1> DEFINE l    == st.list
           i    == Rank(st, alt)
           size == Max({i, Len(l)})
           long == [k \in 1 .. size |-> IF k <= Len(l) THEN l[k] ELSE Hole]
           m    == [long EXCEPT ![i] = alt]
<1>1. l \in Seq(Slots) /\ st.zero \in BOOLEAN /\ Len(l) \in Nat /\ \A k \in 1 .. Len(l) : l[k] \in Slots
  BY LenProperties, ElementOfSeq DEF Orders
<1>2. i \in Nat /\ i >= 1
  BY <1>1, SenseIs DEF Rank
<1>3. PlaceAlternative(st, alt) = [zero |-> st.zero, list |-> m]
  BY DEF PlaceAlternative, Rank
<1> HIDE DEF l, i
<1>4. size \in Nat /\ size >= i /\ size >= Len(l) /\ (size = i \/ size = Len(l))
  BY <1>1, <1>2, MaxOfTwo
<1> HIDE DEF size
<1>5. \A k \in 1 .. size : k <= Len(l) => k \in 1 .. Len(l)
  BY <1>1, <1>4
<1>6. Hole \in Slots /\ alt \in Slots
  BY SenseIs DEF Slots
<1>7. long \in [1 .. size -> Slots]
  BY <1>1, <1>5, <1>6
<1>8. i \in 1 .. size
  BY <1>2, <1>4
<1>9. /\ m \in [1 .. size -> Slots]
      /\ m[i] = alt
      /\ \A p \in 1 .. size : p # i => m[p] = IF p <= Len(l) THEN l[p] ELSE Hole
  BY <1>6, <1>7, <1>8
<1> HIDE DEF long, m
<1>10. m \in Seq(Slots) /\ Len(m) = size
  BY <1>4, <1>9
<1>11. QED
  BY <1>1, <1>3, <1>4, <1>8, <1>9, <1>10 DEF Orders, l, i

(***************************************************************************)
(* What has been placed after n alternatives.                              *)
(***************************************************************************)
RegularIn(alts) ==
    \A i, j \in 1 .. Len(alts) :
        i # j /\ alts[i].sense = alts[j].sense => \A k \in 1 .. Len(alts) : alts[k].sense = 0

Unnumbered(alts) == \A k \in 1 .. Len(alts) : alts[k].sense = 0

\* An alternative with a sense is where its sense says, one without one is the
\* first, or all are without.
At(alts, st, i, p) ==
    /\ alts[i].sense # 0 => p = Rank(st, alts[i])
    /\ alts[i].sense = 0 => st.zero /\ (Unnumbered(alts) \/ p = 1)

PlacedUpTo(alts, n, st) ==
    /\ st \in Orders
    /\ st.zero => \E i \in 1 .. n : alts[i].sense = 0
    /\ \A i \in 1 .. n : \E p \in 1 .. Len(st.list) : st.list[p] = alts[i]
    /\ \A p \in 1 .. Len(st.list) :
           st.list[p] = Hole \/ \E i \in 1 .. n : st.list[p] = alts[i] /\ At(alts, st, i, p)
    /\ \A p \in 1 .. Len(st.list) : p = Len(st.list) \/ Unnumbered(alts) => st.list[p] # Hole

LEMMA FrontStep ==
    ASSUME NEW alts \in Seq(Alternatives), RegularIn(alts), NEW n \in 1 .. Len(alts),
           NEW st, PlacedUpTo(alts, n - 1, st), alts[n].sense = 0
    PROVE  PlacedUpTo(alts, n, PlaceAlternative(st, alts[n]))
<1> DEFINE new == PlaceAlternative(st, alts[n])
<1>1. Len(alts) \in Nat /\ n \in Nat \ {0} /\ alts[n] \in Alternatives /\ st \in Orders
  BY LenProperties, ElementOfSeq DEF PlacedUpTo
<1>2. /\ new \in Orders
      /\ new.zero
      /\ Len(new.list) = Len(st.list) + 1
      /\ new.list[1] = alts[n]
      /\ \A p \in 1 .. Len(st.list) : new.list[p + 1] = st.list[p]
  BY <1>1, PlacedFront
<1>3. Len(st.list) \in Nat
  BY <1>1, LenProperties DEF Orders
<1> HIDE DEF new
<1>4. \A i : i \in 1 .. n <=> i \in 1 .. n - 1 \/ i = n
  BY <1>1
<1>5. \A i \in 1 .. n - 1 : i \in 1 .. Len(alts) /\ i # n
  BY <1>1
<1>6. ASSUME NEW i \in 1 .. n PROVE \E p \in 1 .. Len(new.list) : new.list[p] = alts[i]
  <2>1. CASE i = n
    <3>1. 1 \in 1 .. Len(new.list)
      BY <1>2, <1>3
    <3>2. QED
      BY <2>1, <3>1, <1>2
  <2>2. CASE i \in 1 .. n - 1
    <3>1. PICK p \in 1 .. Len(st.list) : st.list[p] = alts[i]
      BY <2>2 DEF PlacedUpTo
    <3>2. p + 1 \in 1 .. Len(new.list)
      BY <1>2, <1>3
    <3>3. QED
      BY <3>1, <3>2, <1>2
  <2>3. QED
    BY <1>4, <2>1, <2>2
<1>7. ASSUME NEW i \in 1 .. n - 1, alts[i].sense = 0 PROVE Unnumbered(alts)
  BY <1>5, <1>7 DEF RegularIn, Unnumbered
<1>8. ASSUME NEW p \in 1 .. Len(new.list)
      PROVE  new.list[p] = Hole \/ \E i \in 1 .. n : new.list[p] = alts[i] /\ At(alts, new, i, p)
  <2>1. CASE p = 1
    <3>1. At(alts, new, n, p) /\ n \in 1 .. n
      BY <2>1, <1>1, <1>2 DEF At
    <3>2. QED
      BY <2>1, <3>1, <1>2
  <2>2. CASE p # 1
    <3> DEFINE q == p - 1
    <3>1. q \in 1 .. Len(st.list) /\ p = q + 1
      BY <2>2, <1>2, <1>3
    <3> HIDE DEF q
    <3>2. new.list[p] = st.list[q]
      BY <3>1, <1>2
    <3>3. CASE st.list[q] = Hole
      BY <3>2, <3>3
    <3>4. CASE \E i \in 1 .. n - 1 : st.list[q] = alts[i] /\ At(alts, st, i, q)
      <4>1. PICK i \in 1 .. n - 1 : st.list[q] = alts[i] /\ At(alts, st, i, q)
        BY <3>4
      <4>2. i \in 1 .. Len(alts) /\ i \in 1 .. n /\ alts[i] \in Alternatives
        BY <1>4, <1>5, ElementOfSeq
      <4>3. ASSUME alts[i].sense # 0 PROVE p = Rank(new, alts[i])
        <5>1. ~st.zero
          <6>1. ~Unnumbered(alts)
            BY <4>2, <4>3 DEF Unnumbered
          <6>2. \A j \in 1 .. n - 1 : alts[j].sense # 0
            BY <6>1, <1>7
          <6>3. QED
            BY <6>2 DEF PlacedUpTo
        <5>2. q = alts[i].sense
          BY <4>1, <4>3, <5>1 DEF At, Rank
        <5>3. QED
          BY <5>2, <3>1, <1>2 DEF Rank
      <4>4. At(alts, new, i, p)
        BY <4>3, <1>2, <1>7 DEF At
      <4>5. QED
        BY <4>1, <4>2, <4>4, <3>2
    <3>5. QED
      BY <3>1, <3>3, <3>4 DEF PlacedUpTo
  <2>3. QED
    BY <2>1, <2>2
<1>9. n \in 1 .. n
  BY <1>1
<1>10. ASSUME NEW p \in 1 .. Len(new.list), p = Len(new.list) \/ Unnumbered(alts)
       PROVE  new.list[p] # Hole
  <2>1. CASE p = 1
    BY <2>1, <1>1, <1>2, SenseIs
  <2>2. CASE p # 1
    <3> DEFINE q == p - 1
    <3>1. q \in 1 .. Len(st.list) /\ p = q + 1 /\ (p = Len(new.list) => q = Len(st.list))
      BY <2>2, <1>2, <1>3
    <3> HIDE DEF q
    <3>2. new.list[p] = st.list[q]
      BY <3>1, <1>2
    <3>3. QED
      BY <3>1, <3>2, <1>10 DEF PlacedUpTo
  <2>3. QED
    BY <2>1, <2>2
<1>11. PlacedUpTo(alts, n, new)
  BY <1>2, <1>6, <1>8, <1>9, <1>10 DEF PlacedUpTo
<1>12. QED
  BY <1>11 DEF new

LEMMA RankStep ==
    ASSUME NEW alts \in Seq(Alternatives), RegularIn(alts), NEW n \in 1 .. Len(alts),
           NEW st, PlacedUpTo(alts, n - 1, st), alts[n].sense # 0
    PROVE  PlacedUpTo(alts, n, PlaceAlternative(st, alts[n]))
<1> DEFINE new == PlaceAlternative(st, alts[n])
           r   == Rank(st, alts[n])
<1>1. Len(alts) \in Nat /\ n \in Nat \ {0} /\ alts[n] \in Alternatives /\ st \in Orders
  BY LenProperties, ElementOfSeq DEF PlacedUpTo
<1>2. /\ new \in Orders
      /\ new.zero = st.zero
      /\ Len(new.list) >= Len(st.list)
      /\ Len(new.list) = r \/ Len(new.list) = Len(st.list)
      /\ r \in 1 .. Len(new.list) /\ new.list[r] = alts[n]
      /\ \A p \in 1 .. Len(new.list) :
             p # r => new.list[p] = IF p <= Len(st.list) THEN st.list[p] ELSE Hole
  BY <1>1, PlacedAtRank
<1>3. Len(st.list) \in Nat /\ Len(new.list) \in Nat /\ st.zero \in BOOLEAN
  BY <1>1, <1>2, LenProperties DEF Orders
<1> HIDE DEF new
<1>4. \A i : i \in 1 .. n <=> i \in 1 .. n - 1 \/ i = n
  BY <1>1
<1>5. \A i \in 1 .. n - 1 : i \in 1 .. Len(alts) /\ i # n
  BY <1>1
<1>6. ~Unnumbered(alts)
  BY DEF Unnumbered
<1>7. ASSUME NEW i \in 1 .. n - 1 PROVE alts[i].sense # alts[n].sense
  <2>1. i \in 1 .. Len(alts) /\ i # n
    BY <1>5
  <2>2. QED
    BY <2>1, <1>6 DEF RegularIn, Unnumbered
<1>8. ASSUME NEW i \in 1 .. n - 1, NEW p, At(alts, st, i, p) PROVE p # r
  <2>1. i \in 1 .. Len(alts) /\ alts[i] \in Alternatives
    BY <1>5, ElementOfSeq
  <2>2. alts[i].sense \in Nat /\ alts[n].sense \in Nat
    BY <1>1, <2>1, SenseIs
  <2>3. CASE alts[i].sense = 0
    <3>1. p = 1 /\ st.zero
      BY <1>6, <1>8, <2>3 DEF At
    <3>2. r = alts[n].sense + 1
      BY <3>1 DEF Rank
    <3>3. QED
      BY <2>2, <3>1, <3>2
  <2>4. CASE alts[i].sense # 0
    <3>1. p = Rank(st, alts[i])
      BY <1>8, <2>4 DEF At
    <3>2. QED
      BY <1>7, <2>2, <3>1 DEF Rank
  <2>5. QED
    BY <2>3, <2>4
<1>9. \A x : Rank(new, x) = Rank(st, x)
  BY <1>2 DEF Rank
<1>10. r = Rank(st, alts[n])
  OBVIOUS
<1> HIDE DEF r
<1>11. \A p \in 1 .. Len(st.list) : p \in 1 .. Len(new.list) /\ p <= Len(st.list)
  BY <1>2, <1>3
<1>12. ASSUME NEW i \in 1 .. n PROVE \E p \in 1 .. Len(new.list) : new.list[p] = alts[i]
  <2>1. CASE i = n
    BY <2>1, <1>2
  <2>2. CASE i \in 1 .. n - 1
    <3>1. PICK p \in 1 .. Len(st.list) : st.list[p] = alts[i]
      BY <2>2 DEF PlacedUpTo
    <3>2. st.list[p] # Hole
      <4>1. alts[i] \in Alternatives
        BY <2>2, <1>5, ElementOfSeq
      <4>2. QED
        BY <3>1, <4>1, SenseIs
    <3>3. PICK j \in 1 .. n - 1 : st.list[p] = alts[j] /\ At(alts, st, j, p)
      BY <3>1, <3>2 DEF PlacedUpTo
    <3>4. p # r
      BY <3>3, <1>8
    <3>5. new.list[p] = st.list[p]
      BY <3>4, <1>2, <1>11
    <3>6. QED
      BY <3>1, <3>5, <1>11
  <2>3. QED
    BY <1>4, <2>1, <2>2
<1>13. ASSUME NEW p \in 1 .. Len(new.list)
       PROVE  new.list[p] = Hole \/ \E i \in 1 .. n : new.list[p] = alts[i] /\ At(alts, new, i, p)
  <2>1. CASE p = r
    <3>1. At(alts, new, n, p)
      BY <2>1, <1>9, <1>10 DEF At
    <3>2. QED
      BY <2>1, <3>1, <1>2, <1>4
  <2>2. CASE p # r /\ p <= Len(st.list)
    <3>1. p \in 1 .. Len(st.list) /\ new.list[p] = st.list[p]
      BY <2>2, <1>2, <1>3
    <3>2. CASE st.list[p] = Hole
      BY <3>1, <3>2
    <3>3. CASE \E i \in 1 .. n - 1 : st.list[p] = alts[i] /\ At(alts, st, i, p)
      <4>1. PICK i \in 1 .. n - 1 : st.list[p] = alts[i] /\ At(alts, st, i, p)
        BY <3>3
      <4>2. At(alts, new, i, p)
        BY <4>1, <1>2, <1>9 DEF At
      <4>3. QED
        BY <3>1, <4>1, <4>2, <1>4
    <3>4. QED
      BY <3>1, <3>2, <3>3 DEF PlacedUpTo
  <2>3. CASE p # r /\ ~(p <= Len(st.list))
    BY <2>3, <1>2
  <2>4. QED
    BY <2>1, <2>2, <2>3
<1>14. new.zero => \E i \in 1 .. n : alts[i].sense = 0
  BY <1>2, <1>4 DEF PlacedUpTo
<1>15. ASSUME NEW p \in 1 .. Len(new.list), p = Len(new.list) PROVE new.list[p] # Hole
  <2>1. CASE p = r
    BY <2>1, <1>1, <1>2, SenseIs
  <2>2. CASE p # r
    <3>1. p = Len(st.list) /\ p \in 1 .. Len(st.list)
      BY <2>2, <1>2, <1>3, <1>15
    <3>2. new.list[p] = st.list[p]
      BY <2>2, <3>1, <1>2, <1>3
    <3>3. QED
      BY <3>1, <3>2 DEF PlacedUpTo
  <2>3. QED
    BY <2>1, <2>2
<1>16. PlacedUpTo(alts, n, new)
  BY <1>2, <1>6, <1>12, <1>13, <1>14, <1>15 DEF PlacedUpTo
<1>17. QED
  BY <1>16 DEF new

LEMMA PlaceType == \A st \in Orders, alt \in Alternatives : PlaceAlternative(st, alt) \in Orders
BY PlacedFront, PlacedAtRank

Nothing == [zero |-> FALSE, list |-> <<>>]

Rounds(alts, f) ==
    /\ f[0] = Nothing
    /\ \A n \in 1 .. Len(alts) : f[n] = PlaceAlternative(f[n - 1], alts[n])

LEMMA NothingPlaced == Nothing \in Orders /\ \A alts : PlacedUpTo(alts, 0, Nothing)
<1>1. <<>> \in Seq(Slots) /\ Len(<<>>) = 0
  BY CatLaws, EmptySeq
<1>2. Nothing \in Orders /\ ~Nothing.zero /\ Len(Nothing.list) = 0
  BY <1>1 DEF Nothing, Orders
<1>3. QED
  <2> HIDE DEF Nothing
  <2> QED BY <1>2 DEF PlacedUpTo

LEMMA RoundsPlaced ==
    ASSUME NEW alts \in Seq(Alternatives), RegularIn(alts), NEW f, Rounds(alts, f)
    PROVE  PlacedUpTo(alts, Len(alts), f[Len(alts)])
<1> DEFINE G == {n \in Nat : n <= Len(alts) => PlacedUpTo(alts, n, f[n])}
<1>1. Len(alts) \in Nat
  BY LenProperties
<1>2. 0 \in G
  BY NothingPlaced DEF Rounds
<1>3. ASSUME NEW n \in Nat, n \in G PROVE n + 1 \in G
  <2> SUFFICES ASSUME n + 1 <= Len(alts) PROVE PlacedUpTo(alts, n + 1, f[n + 1])
    OBVIOUS
  <2> DEFINE m == n + 1
  <2>1. m \in 1 .. Len(alts) /\ m - 1 = n /\ PlacedUpTo(alts, n, f[n])
    BY <1>1, <1>3
  <2> HIDE DEF m
  <2>2. f[m] = PlaceAlternative(f[m - 1], alts[m]) /\ PlacedUpTo(alts, m - 1, f[m - 1])
    BY <2>1 DEF Rounds
  <2>3. PlacedUpTo(alts, m, f[m])
    BY <2>1, <2>2, FrontStep, RankStep
  <2>4. QED
    BY <2>3 DEF m
<1>4. Nat \subseteq G
  <2> HIDE DEF G
  <2> QED BY <1>2, <1>3, SetInduction
<1>5. QED
  BY <1>1, <1>4

LEMMA RoundsExist ==
    ASSUME NEW alts \in Seq(Alternatives)
    PROVE  \E f \in [0 .. Len(alts) -> Orders] : Rounds(alts, f)
<1> DEFINE step == [n \in 1 .. Len(alts) |-> [st \in Orders |-> PlaceAlternative(st, alts[n])]]
<1>1. Len(alts) \in Nat /\ \A n \in 1 .. Len(alts) : alts[n] \in Alternatives
  BY ElementOfSeq, LenProperties
<1>2. step \in [1 .. Len(alts) -> [Orders -> Orders]]
  BY <1>1, PlaceType
<1>3. \A n \in 1 .. Len(alts) : \A st \in Orders : step[n][st] = PlaceAlternative(st, alts[n])
  OBVIOUS
<1> HIDE DEF step
<1>4. PICK f \in [0 .. Len(alts) -> Orders] : Follows(f, Nothing, Len(alts), step)
  BY <1>1, <1>2, NothingPlaced, RecursionExists
<1>5. \A n \in 1 .. Len(alts) : n - 1 \in 0 .. Len(alts)
  BY <1>1
<1>6. \A n \in 1 .. Len(alts) : f[n - 1] \in Orders
  BY <1>5
<1>7. Rounds(alts, f)
  BY <1>3, <1>4, <1>6 DEF Rounds, Follows
<1>8. QED
  BY <1>7

LEMMA OrderIs ==
    ASSUME NEW alts \in Seq(Alternatives)
    PROVE  \E f : Rounds(alts, f) /\ OrderAlternatives(alts) = f[Len(alts)].list
<1> DEFINE Body(g) == [n \in 0 .. Len(alts) |->
                          IF n = 0 THEN [zero |-> FALSE, list |-> <<>>] ELSE PlaceAlternative(g[n - 1], alts[n])]
           chosen == CHOOSE g : g = Body(g)
<1>1. Len(alts) \in Nat
  BY LenProperties
<1>2. \E g : g = Body(g)
  <2>1. PICK g \in [0 .. Len(alts) -> Orders] : Rounds(alts, g)
    BY RoundsExist
  <2>2. ASSUME NEW n \in 0 .. Len(alts) PROVE g[n] = Body(g)[n]
    <3>1. CASE n = 0
      BY <1>1, <2>1, <3>1 DEF Rounds, Nothing
    <3>2. CASE n \in 1 .. Len(alts)
      BY <1>1, <2>1, <3>2 DEF Rounds
    <3>3. QED
      BY <1>1, <3>1, <3>2
  <2>3. g = Body(g)
    <3> DEFINE h == Body(g)
    <3>1. h = [n \in 0 .. Len(alts) |-> h[n]] /\ \A n \in 0 .. Len(alts) : g[n] = h[n]
      BY <2>2
    <3> HIDE DEF h
    <3>2. g = h
      BY <3>1
    <3>3. QED
      BY <3>2 DEF h
  <2>4. QED
    BY <2>3
<1>3. chosen = Body(chosen)
  BY <1>2
<1>4. \A n \in 0 .. Len(alts) : chosen[n] = Body(chosen)[n]
  BY <1>3
<1>5. chosen[0] = Nothing
  BY <1>1, <1>4 DEF Nothing
<1>6. ASSUME NEW n \in 1 .. Len(alts) PROVE chosen[n] = PlaceAlternative(chosen[n - 1], alts[n])
  <2>1. n \in 0 .. Len(alts) /\ n # 0
    BY <1>1
  <2>2. chosen[n] = Body(chosen)[n]
    BY <1>4, <2>1
  <2> HIDE DEF chosen
  <2>3. QED
    BY <2>1, <2>2
<1>7. Rounds(alts, chosen)
  BY <1>5, <1>6 DEF Rounds
<1>8. OrderAlternatives(alts) = chosen[Len(alts)].list
  BY DEF OrderAlternatives
<1>9. QED
  BY <1>7, <1>8

\* What is in the places when all is placed.
LEMMA AllPlaced ==
    ASSUME NEW alts \in Seq(Alternatives), NEW st, PlacedUpTo(alts, Len(alts), st)
    PROVE  /\ st.list \in Seq(Slots) /\ Len(st.list) \in Nat /\ st.zero \in BOOLEAN
           /\ \A i \in 1 .. Len(alts) : alts[i].sense \in Nat /\ alts[i] # Hole
           /\ \A i \in 1 .. Len(alts) :
                  \E p \in 1 .. Len(st.list) : st.list[p] = alts[i] /\ At(alts, st, i, p)
<1>1. st.list \in Seq(Slots) /\ Len(st.list) \in Nat /\ st.zero \in BOOLEAN
  BY LenProperties DEF PlacedUpTo, Orders
<1>2. \A i \in 1 .. Len(alts) : alts[i].sense \in Nat /\ alts[i] # Hole
  BY ElementOfSeq, SenseIs
<1>3. ASSUME NEW i \in 1 .. Len(alts)
      PROVE  \E p \in 1 .. Len(st.list) : st.list[p] = alts[i] /\ At(alts, st, i, p)
  <2>1. PICK p \in 1 .. Len(st.list) : st.list[p] = alts[i]
    BY DEF PlacedUpTo
  <2>2. PICK j \in 1 .. Len(alts) : st.list[p] = alts[j] /\ At(alts, st, j, p)
    BY <1>2, <2>1 DEF PlacedUpTo
  <2>3. At(alts, st, i, p)
    BY <2>1, <2>2 DEF At, Rank
  <2>4. QED
    BY <2>1, <2>3
<1>4. QED
  BY <1>1, <1>2, <1>3

\* A place stays empty exactly if a sense below another one is missing.
LEMMA HoleIsGap ==
    ASSUME NEW alts \in Seq(Alternatives), NEW st, PlacedUpTo(alts, Len(alts), st)
    PROVE  (\E p \in 1 .. Len(st.list) : st.list[p] = Hole) <=> Gapped(alts)
<1> DEFINE l     == st.list
           shift == IF st.zero THEN 1 ELSE 0
<1>1. /\ Len(l) \in Nat /\ st.zero \in BOOLEAN /\ shift \in {0, 1}
      /\ \A i \in 1 .. Len(alts) : alts[i].sense \in Nat /\ alts[i] # Hole
      /\ \A i \in 1 .. Len(alts) : \E p \in 1 .. Len(l) : l[p] = alts[i] /\ At(alts, st, i, p)
  BY AllPlaced
<1>2. /\ \A p \in 1 .. Len(l) : l[p] = Hole \/ \E i \in 1 .. Len(alts) : l[p] = alts[i] /\ At(alts, st, i, p)
      /\ \A p \in 1 .. Len(l) : p = Len(l) \/ Unnumbered(alts) => l[p] # Hole
      /\ st.zero => \E i \in 1 .. Len(alts) : alts[i].sense = 0
  BY DEF PlacedUpTo
<1>3. DOMAIN alts = 1 .. Len(alts)
  BY LenProperties
<1>4. /\ \A i \in 1 .. Len(alts) : Rank(st, alts[i]) = alts[i].sense + shift
      /\ st.zero <=> shift = 1
  BY <1>1 DEF Rank
<1>5. \A i \in 1 .. Len(alts), p \in 1 .. Len(l) : At(alts, st, i, p) =>
          /\ alts[i].sense # 0 => p = alts[i].sense + shift
          /\ alts[i].sense = 0 => shift = 1 /\ (Unnumbered(alts) \/ p = 1)
  BY <1>4 DEF At
<1> HIDE DEF l, shift
<1>6. ASSUME NEW p \in 1 .. Len(l), l[p] = Hole PROVE Gapped(alts)
  <2> DEFINE q == Len(l)
             s == p - shift
  <2>1. ~Unnumbered(alts) /\ q \in 1 .. Len(l) /\ l[q] # Hole /\ p < q
    BY <1>1, <1>2, <1>6
  <2>2. PICK j \in 1 .. Len(alts) : l[q] = alts[j] /\ At(alts, st, j, q)
    BY <1>2, <2>1
  <2>3. q = alts[j].sense + shift
    BY <1>5, <2>1, <2>2
  <2>4. \A i \in 1 .. Len(alts) : alts[i].sense = 0 => p # 1
    BY <1>1, <1>5, <1>6, <2>1
  <2>5. shift = 1 => p # 1
    BY <1>2, <1>4, <2>4
  <2>6. s \in 1 .. alts[j].sense
    BY <1>1, <2>1, <2>3, <2>5
  <2>7. ASSUME NEW i \in 1 .. Len(alts) PROVE alts[i].sense # s
    <3>1. PICK k \in 1 .. Len(l) : l[k] = alts[i] /\ At(alts, st, i, k)
      BY <1>1
    <3>2. k # p
      BY <1>1, <1>6, <3>1
    <3>3. QED
      BY <1>1, <1>5, <2>6, <3>1, <3>2
  <2>8. QED
    BY <1>3, <2>6, <2>7 DEF Gapped
<1>7. ASSUME Gapped(alts) PROVE \E p \in 1 .. Len(l) : l[p] = Hole
  <2>0. PICK j \in 1 .. Len(alts) : \E s \in 1 .. alts[j].sense :
            \A i \in 1 .. Len(alts) : alts[i].sense # s
    BY <1>3, <1>7 DEF Gapped
  <2>1. PICK s \in 1 .. alts[j].sense : \A i \in 1 .. Len(alts) : alts[i].sense # s
    BY <2>0
  <2>2. PICK q \in 1 .. Len(l) : l[q] = alts[j] /\ At(alts, st, j, q)
    BY <1>1
  <2>3. alts[j].sense \in Nat /\ alts[j].sense # 0 /\ s \in Nat /\ s # 0 /\ s <= alts[j].sense
    BY <1>1, <2>1
  <2>4. ~Unnumbered(alts) /\ q = alts[j].sense + shift
    BY <1>5, <2>2, <2>3 DEF Unnumbered
  <2> DEFINE p == s + shift
  <2>5. p \in 1 .. Len(l)
    BY <1>1, <2>3, <2>4
  <2>6. ASSUME NEW i \in 1 .. Len(alts), At(alts, st, i, p) PROVE FALSE
    BY <1>1, <1>5, <2>1, <2>3, <2>4, <2>5, <2>6
  <2>7. l[p] = Hole
    BY <1>2, <2>5, <2>6
  <2>8. QED
    BY <2>5, <2>7
<1>8. QED
  BY <1>6, <1>7 DEF l

\* The first place is empty only if the senses begin after 1.
LEMMA FirstIsHole ==
    ASSUME NEW alts \in Seq(Alternatives), NEW st, PlacedUpTo(alts, Len(alts), st),
           1 <= Len(st.list), st.list[1] = Hole, NEW i \in 1 .. Len(alts)
    PROVE  alts[i].sense > 1
<1>1. /\ Len(st.list) \in Nat /\ alts[i].sense \in Nat
      /\ \A j \in 1 .. Len(alts) : alts[j] # Hole
      /\ \A j \in 1 .. Len(alts) :
            \E p \in 1 .. Len(st.list) : st.list[p] = alts[j] /\ At(alts, st, j, p)
  BY AllPlaced
<1>2. /\ ~Unnumbered(alts)
      /\ st.zero => \E j \in 1 .. Len(alts) : alts[j].sense = 0
  BY <1>1 DEF PlacedUpTo
<1>3. ASSUME NEW j \in 1 .. Len(alts) PROVE ~At(alts, st, j, 1)
  <2>1. PICK p \in 1 .. Len(st.list) : st.list[p] = alts[j] /\ At(alts, st, j, p)
    BY <1>1
  <2>2. p # 1
    BY <1>1, <2>1
  <2>3. QED
    BY <1>2, <2>1, <2>2 DEF At
<1>4. ASSUME NEW j \in 1 .. Len(alts) PROVE alts[j].sense # 0
  <2>1. PICK p \in 1 .. Len(st.list) : At(alts, st, j, p)
    BY <1>1
  <2>2. QED
    BY <1>2, <1>3, <2>1 DEF At
<1>5. ~st.zero
  BY <1>2, <1>4
<1>6. alts[i].sense # 1
  BY <1>3, <1>5 DEF At, Rank
<1>7. QED
  BY <1>1, <1>4, <1>6

\* Nothing is lost and nothing made up by ordering, and the holes are the gaps.
LEMMA OrderKeeps ==
    ASSUME NEW alts \in Seq(Alternatives), RegularIn(alts)
    PROVE  /\ OrderAlternatives(alts) \in Seq(Slots)
           /\ \A x : x \in Range(alts) <=> x \in Range(OrderAlternatives(alts)) /\ x # Hole
           /\ Hole \in Range(OrderAlternatives(alts)) <=> Gapped(alts)
           /\ OrderAlternatives(alts) # <<>> /\ Head(OrderAlternatives(alts)) = Hole
                => \A a \in Range(alts) : a.sense > 1
<1>1. PICK f : Rounds(alts, f) /\ OrderAlternatives(alts) = f[Len(alts)].list
  BY OrderIs
<1> DEFINE st == f[Len(alts)]
           l  == st.list
<1>2. PlacedUpTo(alts, Len(alts), st)
  BY <1>1, RoundsPlaced
<1>3. OrderAlternatives(alts) = l
  BY <1>1
<1> HIDE DEF st
<1>4. l \in Seq(Slots)
  BY <1>2 DEF PlacedUpTo, Orders
<1>5. DOMAIN l = 1 .. Len(l) /\ DOMAIN alts = 1 .. Len(alts) /\ \A i \in 1 .. Len(alts) : alts[i] # Hole
  BY <1>4, LenProperties, ElementOfSeq, SenseIs
<1>6. /\ \A i \in 1 .. Len(alts) : \E p \in 1 .. Len(l) : l[p] = alts[i]
      /\ \A p \in 1 .. Len(l) : l[p] = Hole \/ \E i \in 1 .. Len(alts) : l[p] = alts[i]
  BY <1>2 DEF PlacedUpTo
<1>7. (\E p \in 1 .. Len(l) : l[p] = Hole) <=> Gapped(alts)
  BY <1>2, HoleIsGap
<1>8. 1 <= Len(l) /\ l[1] = Hole => \A i \in 1 .. Len(alts) : alts[i].sense > 1
  BY <1>2, FirstIsHole
<1> HIDE DEF l
<1>9. /\ \A x : x \in Range(l) <=> \E p \in 1 .. Len(l) : l[p] = x
      /\ \A x : x \in Range(alts) <=> \E i \in 1 .. Len(alts) : alts[i] = x
  BY <1>4, RangeIs
<1>10. \A x : x \in Range(alts) <=> x \in Range(l) /\ x # Hole
  BY <1>5, <1>6, <1>9, Zenon
<1>11. Hole \in Range(l) <=> Gapped(alts)
  BY <1>9, <1>7
<1>12. l # <<>> /\ Head(l) = Hole => \A a \in Range(alts) : a.sense > 1
  <2> SUFFICES ASSUME l # <<>>, Head(l) = Hole, NEW a \in Range(alts) PROVE a.sense > 1
    OBVIOUS
  <2>1. 1 <= Len(l) /\ l[1] = Hole
    BY <1>4, EmptySeq, LenProperties
  <2>2. QED
    BY <1>9, <1>8, <2>1
<1>13. QED
  BY <1>3, <1>4, <1>10, <1>11, <1>12

-------------------------------------------------------------------------------
(***************************************************************************)
(* What is printed of a word.                                              *)
(***************************************************************************)
Syn(ts, k) == [i \in DOMAIN ts |-> [alt |-> ts[i], slem |-> k]]
Syns(K)    == [alt : Slots, slem : K]
Offer(x, k) == [alt |-> x, slem |-> k]

LEMMA SynIs ==
    ASSUME NEW K, NEW k \in K, NEW ts \in Seq(Slots)
    PROVE  /\ Syn(ts, k) \in Seq(Syns(K))
           /\ Len(Syn(ts, k)) = Len(ts)
           /\ \A s : s \in Range(Syn(ts, k)) <=> \E x \in Range(ts) : s = Offer(x, k)
<1> DEFINE y == Syn(ts, k)
<1>1. DOMAIN ts = 1 .. Len(ts) /\ Len(ts) \in Nat /\ \A i \in 1 .. Len(ts) : ts[i] \in Slots
  BY LenProperties, ElementOfSeq
<1>2. y \in [1 .. Len(ts) -> Syns(K)] /\ \A i \in 1 .. Len(ts) : y[i] = Offer(ts[i], k)
  BY <1>1 DEF Syns, Syn, Offer
<1> HIDE DEF y
<1>3. y \in Seq(Syns(K)) /\ Len(y) = Len(ts)
  BY <1>1, <1>2
<1>4. /\ \A s : s \in Range(y) <=> \E i \in 1 .. Len(ts) : y[i] = s
      /\ \A x : x \in Range(ts) <=> \E i \in 1 .. Len(ts) : ts[i] = x
  BY <1>3, RangeIs
<1>5. \A s : s \in Range(y) <=> \E x \in Range(ts) : s = Offer(x, k)
  <2> TAKE s
  <2>1. s \in Range(y) <=> \E i \in 1 .. Len(ts) : Offer(ts[i], k) = s
    BY <1>2, <1>4
  <2>2. QED
    BY <2>1, <1>4
<1>6. QED
  BY <1>3, <1>5 DEF y

\* A key with each of its translations.
Beside(ts, k) == {<<k, x>> : x \in Range(ts)}

LEMMA NoneBeside == \A k : Beside(<<>>, k) = {}
<1>1. DOMAIN <<>> = {}
  BY EmptySeq
<1>2. Range(<<>>) = {}
  BY <1>1 DEF Range
<1>3. QED
  BY <1>2 DEF Beside

LEMMA SynRange ==
    ASSUME NEW k, NEW ts \in Seq(Slots)
    PROVE  /\ \A s : s \in Range(Syn(ts, k)) <=> \E x \in Range(ts) : s = Offer(x, k)
           /\ {<<s.slem, s.alt>> : s \in Range(Syn(ts, k))} = Beside(ts, k)
<1> DEFINE K == {k}
           y == Syn(ts, k)
           a == {<<s.slem, s.alt>> : s \in Range(y)}
           b == Beside(ts, k)
<1>1. k \in K
  OBVIOUS
<1> HIDE DEF K
<1>2. \A s : s \in Range(y) <=> \E x \in Range(ts) : s = Offer(x, k)
  BY <1>1, SynIs
<1>3. \A x : Offer(x, k).slem = k /\ Offer(x, k).alt = x
  BY DEF Offer
<1> HIDE DEF y
<1>4. \A o : o \in a <=> \E s \in Range(y) : o = <<s.slem, s.alt>>
  OBVIOUS
<1>5. \A o : o \in b <=> \E x \in Range(ts) : o = <<k, x>>
  BY DEF Beside
<1> HIDE DEF a, b
<1>6. ASSUME NEW o \in a PROVE o \in b
  <2>1. PICK s \in Range(y) : o = <<s.slem, s.alt>>
    BY <1>4
  <2>2. PICK x \in Range(ts) : s = Offer(x, k)
    BY <1>2
  <2>3. QED
    BY <2>1, <2>2, <1>3, <1>5
<1>7. ASSUME NEW o \in b PROVE o \in a
  <2>1. PICK x \in Range(ts) : o = <<k, x>>
    BY <1>5
  <2>2. Offer(x, k) \in Range(y)
    BY <1>2
  <2>3. QED
    BY <2>1, <2>2, <1>3, <1>4
<1>8. a = b
  BY <1>6, <1>7
<1>9. QED
  BY <1>2, <1>8 DEF a, b, y

LEMMA KeysAre ==
    ASSUME NEW w \in Words
    PROVE  /\ LookupKeys(w) \in Seq(DOMAIN Dictionary)
           /\ Len(LookupKeys(w)) \in 1 .. 2
<1> DEFINE one == <<w.formKey>>
<1>1. /\ w.keys \in Seq(DOMAIN Dictionary) /\ Len(w.keys) \in 1 .. 2
      /\ w.formKey \in DOMAIN Dictionary
  BY LexicalAssumption
<1>2. one \in Seq(DOMAIN Dictionary) /\ Len(one) = 1 /\ 1 \in 1 .. 2
  BY <1>1
<1>3. LookupKeys(w) = one \/ LookupKeys(w) = w.keys
  BY DEF LookupKeys
<1> HIDE DEF one
<1>4. CASE LookupKeys(w) = one
  BY <1>2, <1>4
<1>5. CASE LookupKeys(w) = w.keys
  BY <1>1, <1>5
<1>6. QED
  BY <1>3, <1>4, <1>5

LEMMA HeadIs ==
    ASSUME NEW T, NEW s \in Seq(T), s # <<>>
    PROVE  /\ Len(s) \in Nat \ {0} /\ Head(s) \in Range(s)
           /\ ~(Len(s) > 1) => Range(s) = {Head(s)}
<1>1. Len(s) \in Nat \ {0} /\ Head(s) = s[1]
  BY EmptySeq, LenProperties
<1>2. \A x : x \in Range(s) <=> \E i \in 1 .. Len(s) : s[i] = x
  BY RangeIs
<1>3. 1 \in 1 .. Len(s)
  BY <1>1
<1>4. ~(Len(s) > 1) => \A i \in 1 .. Len(s) : i = 1
  BY <1>1
<1>5. QED
  BY <1>1, <1>2, <1>3, <1>4

LEMMA OfferedSyn ==
    ASSUME NEW node, NEW ts \in Seq(Slots), NEW k, node.syn = Syn(ts, k), Len(ts) > 1
    PROVE  Offered(node) = Beside(ts, k)
<1> DEFINE K == {k}
           y == Syn(ts, k)
<1>1. k \in K
  OBVIOUS
<1> HIDE DEF K
<1>2. y \in Seq(Syns(K)) /\ Len(y) = Len(ts)
  BY <1>1, SynIs
<1>3. {<<s.slem, s.alt>> : s \in Range(y)} = Beside(ts, k)
  BY SynRange
<1> HIDE DEF y
<1>4. y # <<>>
  BY <1>2, EmptySeq
<1>5. Offered(node) = {<<s.slem, s.alt>> : s \in Range(y)}
  BY <1>4 DEF Offered, y
<1>6. QED
  BY <1>3, <1>5

LEMMA OfferedBoth ==
    ASSUME NEW node, NEW t1 \in Seq(Slots), NEW t2 \in Seq(Slots), NEW k1, NEW k2,
           node.syn = Cat(Syn(t1, k1), Syn(t2, k2)), t1 # <<>>
    PROVE  Offered(node) = Beside(t1, k1) \cup Beside(t2, k2)
<1> DEFINE K  == {k1, k2}
           s1 == Syn(t1, k1)
           s2 == Syn(t2, k2)
           c  == Cat(s1, s2)
<1>1. k1 \in K /\ k2 \in K
  OBVIOUS
<1> HIDE DEF K
<1>2. s1 \in Seq(Syns(K)) /\ Len(s1) = Len(t1) /\ s2 \in Seq(Syns(K)) /\ Len(s2) = Len(t2)
  BY <1>1, SynIs
<1>3. /\ {<<s.slem, s.alt>> : s \in Range(s1)} = Beside(t1, k1)
      /\ {<<s.slem, s.alt>> : s \in Range(s2)} = Beside(t2, k2)
  BY SynRange
<1>4. Len(t1) \in Nat \ {0} /\ Len(t2) \in Nat
  BY EmptySeq, LenProperties
<1> HIDE DEF s1, s2
<1>5. /\ c \in Seq(Syns(K)) /\ Len(c) = Len(s1) + Len(s2)
      /\ Range(c) = Range(s1) \cup Range(s2)
  <2>1. Len(c) = Len(s1) + Len(s2)
    BY <1>2, ConcatProperties DEF Cat
  <2>2. c \in Seq(Syns(K))
    BY <1>2, CatLaws
  <2>3. QED
    BY <1>2, <2>1, <2>2, RangeCat
<1> HIDE DEF c
<1>6. c # <<>>
  BY <1>2, <1>4, <1>5, EmptySeq
<1>7. Offered(node) = {<<s.slem, s.alt>> : s \in Range(c)}
  BY <1>6 DEF Offered, s1, s2, c
<1>8. QED
  BY <1>3, <1>5, <1>7

LEMMA OnlyOneOffered ==
    ASSUME NEW node, NEW ts \in Seq(Slots), NEW k, ts # <<>>,
           node.syn = IF Len(ts) > 1 THEN Syn(ts, k) ELSE <<>>,
           TradLem(node.word) = k, node.trans = Head(ts)
    PROVE  Offered(node) = Beside(ts, k)
<1>1. CASE Len(ts) > 1
  <2>1. node.syn = Syn(ts, k)
    BY <1>1
  <2>2. QED
    BY <1>1, <2>1, OfferedSyn
<1>2. CASE ~(Len(ts) > 1)
  <2>1. Offered(node) = {<<k, Head(ts)>>}
    BY <1>2 DEF Offered
  <2>2. Range(ts) = {Head(ts)}
    BY <1>2, HeadIs
  <2>3. QED
    BY <2>1, <2>2 DEF Beside
<1>3. QED
  BY <1>1, <1>2

LEMMA OfferedIs ==
    ASSUME NEW node, NEW t1 \in Seq(Slots), NEW t2 \in Seq(Slots), NEW k1, NEW k2,
           t1 # <<>> \/ t2 # <<>>,
           node.syn = Cat(IF Len(t1) > 1 \/ (t1 # <<>> /\ t2 # <<>>) THEN Syn(t1, k1) ELSE <<>>,
                          IF Len(t2) > 1 \/ (t1 # <<>> /\ t2 # <<>>) THEN Syn(t2, k2) ELSE <<>>),
           TradLem(node.word) = IF t1 # <<>> THEN k1 ELSE k2,
           node.trans = Head(IF t1 # <<>> THEN t1 ELSE t2)
    PROVE  /\ Offered(node) = Beside(t1, k1) \cup Beside(t2, k2)
           /\ <<TradLem(node.word), node.trans>> \in Offered(node)
<1> DEFINE K  == {k1, k2}
           s1 == Syn(t1, k1)
           s2 == Syn(t2, k2)
<1>1. k1 \in K /\ k2 \in K
  OBVIOUS
<1> HIDE DEF K
<1>2. s1 \in Seq(Syns(K)) /\ s2 \in Seq(Syns(K)) /\ <<>> \in Seq(Syns(K))
  BY <1>1, SynIs, CatLaws
<1>3. Cat(s1, <<>>) = s1 /\ Cat(<<>>, s2) = s2 /\ Cat(<<>>, <<>>) = <<>>
  BY <1>2, CatLaws
<1>4. /\ node.syn = Cat(IF Len(t1) > 1 \/ (t1 # <<>> /\ t2 # <<>>) THEN s1 ELSE <<>>,
                        IF Len(t2) > 1 \/ (t1 # <<>> /\ t2 # <<>>) THEN s2 ELSE <<>>)
      /\ Len(<<>>) = 0 /\ ~(Len(<<>>) > 1)
  BY EmptySeq
<1>5. t1 # <<>> /\ t2 # <<>> => Offered(node) = Beside(t1, k1) \cup Beside(t2, k2)
  <2> SUFFICES ASSUME t1 # <<>>, t2 # <<>> PROVE Offered(node) = Beside(t1, k1) \cup Beside(t2, k2)
    OBVIOUS
  <2>1. node.syn = Cat(Syn(t1, k1), Syn(t2, k2))
    BY <1>4
  <2> HIDE DEF s1, s2
  <2>2. QED
    BY <2>1, OfferedBoth
<1>6. t1 # <<>> /\ t2 = <<>> => Offered(node) = Beside(t1, k1) \cup Beside(t2, k2)
  <2> SUFFICES ASSUME t1 # <<>>, t2 = <<>> PROVE Offered(node) = Beside(t1, k1) \cup Beside(t2, k2)
    OBVIOUS
  <2> HIDE DEF s1, s2
  <2>1. node.syn = Cat(IF Len(t1) > 1 THEN s1 ELSE <<>>, <<>>)
    BY <1>4
  <2>2. node.syn = IF Len(t1) > 1 THEN s1 ELSE <<>>
    BY <1>3, <2>1
  <2>3. TradLem(node.word) = k1 /\ node.trans = Head(t1)
    OBVIOUS
  <2>4. Offered(node) = Beside(t1, k1)
    BY <2>2, <2>3, OnlyOneOffered DEF s1
  <2>5. QED
    BY <2>4, NoneBeside
<1>7. t1 = <<>> => Offered(node) = Beside(t1, k1) \cup Beside(t2, k2)
  <2> SUFFICES ASSUME t1 = <<>>, t2 # <<>> PROVE Offered(node) = Beside(t1, k1) \cup Beside(t2, k2)
    OBVIOUS
  <2> HIDE DEF s1, s2
  <2>1. node.syn = Cat(<<>>, IF Len(t2) > 1 THEN s2 ELSE <<>>)
    BY <1>4
  <2>2. node.syn = IF Len(t2) > 1 THEN s2 ELSE <<>>
    BY <1>3, <2>1
  <2>3. TradLem(node.word) = k2 /\ node.trans = Head(t2)
    OBVIOUS
  <2>4. Offered(node) = Beside(t2, k2)
    BY <2>2, <2>3, OnlyOneOffered DEF s2
  <2>5. Beside(t1, k1) = {}
    BY NoneBeside
  <2>6. QED
    BY <2>4, <2>5
<1>8. Offered(node) = Beside(t1, k1) \cup Beside(t2, k2)
  BY <1>5, <1>6, <1>7
<1>9. t1 # <<>> => <<k1, node.trans>> \in Beside(t1, k1)
  <2> SUFFICES ASSUME t1 # <<>> PROVE <<k1, node.trans>> \in Beside(t1, k1)
    OBVIOUS
  <2>1. node.trans = Head(t1) /\ Head(t1) \in Range(t1)
    BY HeadIs
  <2>2. QED
    BY <2>1 DEF Beside
<1>10. t1 = <<>> => <<k2, node.trans>> \in Beside(t2, k2)
  <2> SUFFICES ASSUME t1 = <<>>, t2 # <<>> PROVE <<k2, node.trans>> \in Beside(t2, k2)
    OBVIOUS
  <2>1. node.trans = Head(t2) /\ Head(t2) \in Range(t2)
    BY HeadIs
  <2>2. QED
    BY <2>1 DEF Beside
<1>11. QED
  BY <1>8, <1>9, <1>10

Kept(node) ==
    LET keys == Range(LookupKeys(node.word))
        all  == UNION {{<<k, a>> : a \in Range(Dictionary[k])} : k \in keys}
    IN  node.unknown = "no" /\ (\A k \in keys : Regular(Dictionary[k])) =>
            /\ {o \in Offered(node) : o[2] # Hole} = all
            /\ \A k \in keys : <<k, Hole>> \in Offered(node) <=> Gapped(Dictionary[k])
            /\ \E k \in keys :
                /\ <<k, node.trans>> \in Offered(node)
                /\ node.trans = Hole => \A a \in Range(Dictionary[k]) : a.sense > 1

LEMMA NodeOffers ==
    ASSUME NEW w \in Words, Unknown(w) = "no",
           \A i \in 1 .. Len(LookupKeys(w)) : GetTranslation(LookupKeys(w)[i]) \in Seq(Slots)
    PROVE  LET keys == LookupKeys(w)
               t1   == GetTranslation(keys[1])
               t2   == IF Len(keys) = 2 THEN GetTranslation(keys[2]) ELSE <<>>
           IN  /\ Offered(Node(w)) = Beside(t1, keys[1]) \cup Beside(t2, keys[2])
               /\ <<TradLem(w), Node(w).trans>> \in Offered(Node(w))
               /\ TradLem(w) = IF t1 # <<>> THEN keys[1] ELSE keys[2]
               /\ t1 # <<>> \/ t2 # <<>>
               /\ Node(w).trans = Head(IF t1 # <<>> THEN t1 ELSE t2)
<1> DEFINE keys == LookupKeys(w)
           k1   == keys[1]
           k2   == keys[2]
           t1   == GetTranslation(k1)
           t2   == IF Len(keys) = 2 THEN GetTranslation(k2) ELSE <<>>
           node == Node(w)
<1>1. keys \in Seq(DOMAIN Dictionary) /\ DOMAIN keys = 1 .. Len(keys) /\ Len(keys) \in {1, 2}
  BY KeysAre, LenProperties
<1>2. t1 \in Seq(Slots) /\ t2 \in Seq(Slots)
  <2>1. 1 \in 1 .. Len(keys) /\ (Len(keys) = 2 => 2 \in 1 .. Len(keys)) /\ <<>> \in Seq(Slots)
    BY <1>1, CatLaws
  <2>2. QED
    BY <2>1
<1>3. t1 # <<>> \/ t2 # <<>>
  <2>1. ~ \A i \in 1 .. Len(keys) : GetTranslation(keys[i]) = <<>>
    BY <1>1 DEF Unknown
  <2>2. CASE Len(keys) = 1
    <3>1. \A i \in 1 .. Len(keys) : i = 1
      BY <2>2
    <3>2. QED
      BY <2>1, <3>1
  <2>3. CASE Len(keys) = 2
    <3>1. \A i \in 1 .. Len(keys) : i = 1 \/ i = 2
      BY <2>3
    <3>2. QED
      BY <2>1, <2>3, <3>1
  <2>4. QED
    BY <1>1, <2>2, <2>3
<1>4. TradLem(w) = IF t1 # <<>> THEN k1 ELSE k2
  BY <1>1, <1>3 DEF TradLem
<1>5. node.word = w /\ node.trans = Selection(w) /\ node.syn = Synonyms(w)
  BY DEF Node
<1>6. Selection(w) = Head(IF t1 # <<>> THEN t1 ELSE t2)
  <2>1. Selection(w) = Head(GetTranslation(TradLem(w)))
    BY DEF Selection
  <2>2. GetTranslation(TradLem(w)) = IF t1 # <<>> THEN t1 ELSE t2
    BY <1>1, <1>3, <1>4
  <2>3. QED
    BY <2>1, <2>2
<1>7. Synonyms(w) = Cat(IF Len(t1) > 1 \/ (t1 # <<>> /\ t2 # <<>>) THEN Syn(t1, k1) ELSE <<>>,
                        IF Len(t2) > 1 \/ (t1 # <<>> /\ t2 # <<>>) THEN Syn(t2, k2) ELSE <<>>)
  BY DEF Synonyms, Syn, Cat
<1> HIDE DEF t1, t2, k1, k2, node
<1>8. TradLem(node.word) = (IF t1 # <<>> THEN k1 ELSE k2) /\ node.trans = Head(IF t1 # <<>> THEN t1 ELSE t2)
  BY <1>4, <1>5, <1>6
<1>9. node.syn = Cat(IF Len(t1) > 1 \/ (t1 # <<>> /\ t2 # <<>>) THEN Syn(t1, k1) ELSE <<>>,
                     IF Len(t2) > 1 \/ (t1 # <<>> /\ t2 # <<>>) THEN Syn(t2, k2) ELSE <<>>)
  BY <1>5, <1>7
<1>10. /\ Offered(node) = Beside(t1, k1) \cup Beside(t2, k2)
       /\ <<TradLem(node.word), node.trans>> \in Offered(node)
  BY <1>2, <1>3, <1>8, <1>9, OfferedIs
<1>11. QED
  BY <1>3, <1>4, <1>5, <1>8, <1>10 DEF t1, t2, k1, k2, node, keys

LEMMA TranslationIs ==
    ASSUME NEW k \in DOMAIN Dictionary, Regular(Dictionary[k])
    PROVE  /\ GetTranslation(k) \in Seq(Slots)
           /\ \A x : x \in Range(Dictionary[k]) <=> x \in Range(GetTranslation(k)) /\ x # Hole
           /\ Hole \in Range(GetTranslation(k)) <=> Gapped(Dictionary[k])
           /\ GetTranslation(k) # <<>> /\ Head(GetTranslation(k)) = Hole
                => \A a \in Range(Dictionary[k]) : a.sense > 1
<1> DEFINE alts == Dictionary[k]
<1>1. alts \in Seq(Alternatives)
  BY LexicalAssumption
<1>2. DOMAIN alts = 1 .. Len(alts)
  BY <1>1, LenProperties
<1>3. RegularIn(alts)
  BY <1>2 DEF Regular, RegularIn
<1>4. GetTranslation(k) = OrderAlternatives(alts)
  BY DEF GetTranslation
<1> HIDE DEF alts
<1>5. QED
  BY <1>1, <1>3, <1>4, OrderKeeps DEF alts

LEMMA EachWordKept == \A w \in Words : Kept(Node(w))
<1> SUFFICES ASSUME NEW w \in Words PROVE Kept(Node(w))
  OBVIOUS
<1> DEFINE keys == LookupKeys(w)
           node == Node(w)
           k1   == keys[1]
           k2   == keys[2]
           t1   == GetTranslation(k1)
           t2   == IF Len(keys) = 2 THEN GetTranslation(k2) ELSE <<>>
           left == {o \in Offered(node) : o[2] # Hole}
           all  == UNION {{<<k, a>> : a \in Range(Dictionary[k])} : k \in Range(keys)}
<1>1. node.word = w /\ node.unknown = Unknown(w)
  BY DEF Node
<1> SUFFICES ASSUME Unknown(w) = "no", \A k \in Range(keys) : Regular(Dictionary[k])
             PROVE  /\ left = all
                    /\ \A k \in Range(keys) : <<k, Hole>> \in Offered(node) <=> Gapped(Dictionary[k])
                    /\ \E k \in Range(keys) :
                        /\ <<k, node.trans>> \in Offered(node)
                        /\ node.trans = Hole => \A a \in Range(Dictionary[k]) : a.sense > 1
  BY <1>1 DEF Kept
<1>2. keys \in Seq(DOMAIN Dictionary) /\ Len(keys) \in {1, 2}
  BY KeysAre
<1>3. \A k : k \in Range(keys) <=> \E i \in 1 .. Len(keys) : keys[i] = k
  BY <1>2, RangeIs
<1>4. k1 \in Range(keys) /\ (Len(keys) = 2 => k2 \in Range(keys))
      /\ \A k \in Range(keys) : k = k1 \/ (Len(keys) = 2 /\ k = k2)
  <2>1. 1 \in 1 .. Len(keys) /\ (Len(keys) = 2 => 2 \in 1 .. Len(keys))
    <3> HIDE DEF keys
    <3> QED BY <1>2
  <2>2. \A n \in {1, 2} : \A i \in 1 .. n : i = 1 \/ (n = 2 /\ i = 2)
    OBVIOUS
  <2>3. \A i \in 1 .. Len(keys) : i = 1 \/ (Len(keys) = 2 /\ i = 2)
    <3> HIDE DEF keys
    <3> QED BY <1>2, <2>2
  <2>4. QED
    BY <1>3, <2>1, <2>3
<1>5. ASSUME NEW k \in Range(keys)
      PROVE  /\ GetTranslation(k) \in Seq(Slots)
             /\ \A x : x \in Range(Dictionary[k]) <=> x \in Range(GetTranslation(k)) /\ x # Hole
             /\ Hole \in Range(GetTranslation(k)) <=> Gapped(Dictionary[k])
             /\ GetTranslation(k) # <<>> /\ Head(GetTranslation(k)) = Hole
                  => \A a \in Range(Dictionary[k]) : a.sense > 1
  <2>1. k \in DOMAIN Dictionary
    BY <1>2, <1>3, ElementOfSeq
  <2>2. QED
    BY <2>1, TranslationIs
<1>6. \A i \in 1 .. Len(keys) : GetTranslation(keys[i]) \in Seq(Slots)
  BY <1>3, <1>5
<1>7. /\ Offered(node) = Beside(t1, k1) \cup Beside(t2, k2)
      /\ <<TradLem(w), node.trans>> \in Offered(node)
      /\ TradLem(w) = IF t1 # <<>> THEN k1 ELSE k2
      /\ t1 # <<>> \/ t2 # <<>>
      /\ node.trans = Head(IF t1 # <<>> THEN t1 ELSE t2)
  BY <1>6, NodeOffers
<1>8. \A o : o \in all <=> \E k \in Range(keys) : \E a \in Range(Dictionary[k]) : o = <<k, a>>
  OBVIOUS
<1>9. \A ts, k : \A o : o \in Beside(ts, k) <=> \E x \in Range(ts) : o = <<k, x>>
  BY DEF Beside
<1>10. \A o : o \in left <=> o \in Offered(node) /\ o[2] # Hole
  OBVIOUS
<1>11. t2 = IF Len(keys) = 2 THEN GetTranslation(k2) ELSE <<>>
  OBVIOUS
<1> HIDE DEF left, all, keys, node, k1, k2, t2
<1>12. ASSUME NEW o \in left PROVE o \in all
  <2>0. PICK k \in Range(keys) : \E x \in Range(GetTranslation(k)) : o = <<k, x>>
    <3>1. o \in Beside(t1, k1) \/ o \in Beside(t2, k2)
      BY <1>7, <1>10
    <3>2. CASE o \in Beside(t1, k1)
      BY <3>2, <1>4, <1>9
    <3>3. CASE o \in Beside(t2, k2)
      <4>1. Len(keys) = 2
        BY <3>3, <1>11, NoneBeside
      <4>2. QED
        BY <3>3, <4>1, <1>4, <1>9, <1>11
    <3>4. QED
      BY <3>1, <3>2, <3>3
  <2>1. PICK x \in Range(GetTranslation(k)) : o = <<k, x>>
    BY <2>0
  <2>2. x # Hole
    BY <2>1, <1>10
  <2>3. x \in Range(Dictionary[k])
    BY <2>1, <2>2, <1>5
  <2>4. QED
    BY <2>1, <2>3, <1>8
<1>13. ASSUME NEW o \in all PROVE o \in left
  <2>0. PICK k \in Range(keys) : \E x \in Range(Dictionary[k]) : o = <<k, x>>
    BY <1>8
  <2>1. PICK x \in Range(Dictionary[k]) : o = <<k, x>>
    BY <2>0
  <2>2. x \in Range(GetTranslation(k)) /\ x # Hole
    BY <2>1, <1>5
  <2>3. o \in Offered(node)
    <3>1. CASE k = k1
      BY <2>1, <2>2, <3>1, <1>7, <1>9
    <3>2. CASE Len(keys) = 2 /\ k = k2
      BY <2>1, <2>2, <3>2, <1>7, <1>9, <1>11
    <3>3. QED
      BY <3>1, <3>2, <1>4
  <2>4. QED
    BY <2>1, <2>2, <2>3, <1>10
<1>14. ASSUME NEW k \in Range(keys) PROVE <<k, Hole>> \in Offered(node) <=> Gapped(Dictionary[k])
  <2>1. ASSUME <<k, Hole>> \in Offered(node) PROVE Hole \in Range(GetTranslation(k))
    <3>1. <<k, Hole>> \in Beside(t1, k1) \/ <<k, Hole>> \in Beside(t2, k2)
      BY <1>7, <2>1
    <3>2. CASE <<k, Hole>> \in Beside(t1, k1)
      <4>1. PICK x \in Range(t1) : <<k, Hole>> = <<k1, x>>
        BY <3>2, <1>9
      <4>2. QED
        BY <4>1
    <3>3. CASE <<k, Hole>> \in Beside(t2, k2)
      <4>1. PICK x \in Range(t2) : <<k, Hole>> = <<k2, x>>
        BY <3>3, <1>9
      <4>2. Len(keys) = 2
        BY <3>3, <1>11, NoneBeside
      <4>3. QED
        BY <4>1, <4>2, <1>11
    <3>4. QED
      BY <3>1, <3>2, <3>3
  <2>2. ASSUME Hole \in Range(GetTranslation(k)) PROVE <<k, Hole>> \in Offered(node)
    <3>1. CASE k = k1
      BY <2>2, <3>1, <1>7, <1>9
    <3>2. CASE Len(keys) = 2 /\ k = k2
      BY <2>2, <3>2, <1>7, <1>9, <1>11
    <3>3. QED
      BY <3>1, <3>2, <1>4
  <2>3. QED
    BY <2>1, <2>2, <1>5
<1>15. TradLem(w) \in Range(keys) /\ GetTranslation(TradLem(w)) # <<>>
       /\ node.trans = Head(GetTranslation(TradLem(w)))
  <2>1. CASE t1 # <<>>
    BY <2>1, <1>4, <1>7
  <2>2. CASE t1 = <<>>
    <3>1. t2 # <<>> /\ TradLem(w) = k2 /\ node.trans = Head(t2)
      BY <2>2, <1>7
    <3>2. Len(keys) = 2
      BY <3>1, <1>11
    <3>3. QED
      BY <3>1, <3>2, <1>4, <1>11
  <2>3. QED
    BY <2>1, <2>2
<1>16. node.trans = Hole => \A a \in Range(Dictionary[TradLem(w)]) : a.sense > 1
  BY <1>5, <1>15
<1>17. QED
  BY <1>7, <1>12, <1>13, <1>14, <1>15, <1>16

-------------------------------------------------------------------------------
(***************************************************************************)
(* The nodes of the sentence being read.                                   *)
(***************************************************************************)
OfWords == {x \in Printed : x.name = "NODE" /\ x.type = "start" => \E w \in Words : x = Node(w)}

NodesInv == TransferInv /\ tree \in Seq(OfWords)

LEMMA NodesImply == NodesInv => TranslationsKept
<1> SUFFICES ASSUME NodesInv, NEW x \in Range(tree), x.name = "NODE" /\ x.type = "start"
             PROVE  Kept(x)
  BY DEF TranslationsKept, Kept
<1>1. tree \in Seq(OfWords)
  BY DEF NodesInv
<1>2. x \in OfWords
  BY <1>1, RangeIs, ElementOfSeq
<1>3. \E w \in Words : x = Node(w)
  BY <1>2 DEF OfWords
<1>4. QED
  BY <1>3, EachWordKept

LEMMA OfWordsAre ==
    /\ \A w \in Words : Node(w) \in OfWords
    /\ \A n \in Names, y \in TagTypes : n # "NODE" \/ y # "start" => Tag(n, y) \in OfWords
    /\ \A c \in Chunks : [name |-> "CHUNK", type |-> "start", chunkType |-> ChunkType(c)] \in OfWords
<1>1. \A w \in Words : Node(w) \in OfWords
  BY DEF OfWords, Printed
<1>2. ASSUME NEW n \in Names, NEW y \in TagTypes, n # "NODE" \/ y # "start" PROVE Tag(n, y) \in OfWords
  <2>1. Tag(n, y) \in Printed /\ Tag(n, y).name = n /\ Tag(n, y).type = y
    BY TagsAre DEF Tag
  <2>2. QED
    BY <1>2, <2>1 DEF OfWords
<1>3. ASSUME NEW c \in Chunks
      PROVE  [name |-> "CHUNK", type |-> "start", chunkType |-> ChunkType(c)] \in OfWords
  <2> DEFINE x == [name |-> "CHUNK", type |-> "start", chunkType |-> ChunkType(c)]
  <2>1. x \in Printed /\ x.name # "NODE"
    BY DEF Printed
  <2>2. QED
    BY <2>1 DEF OfWords
<1>4. QED
  BY <1>1, <1>2, <1>3

LEMMA NodesOneMore ==
    ASSUME NEW t \in SourceTags, tree \in Seq(OfWords), HandleTag(t)
    PROVE  tree' \in Seq(OfWords)
<1>1. t.name \in Names /\ "end" \in TagTypes /\ "start" \in TagTypes /\ "SENTENCE" \in Names /\ "NODE" \in Names
  BY TagsAre DEF TagTypes, Names
<1>2. CASE StartCorpus(t) \/ EndCorpus(t) \/ (~Expected(t) /\ Reject)
  BY <1>2 DEF StartCorpus, EndCorpus, Reject
<1>3. CASE StartSentence(t)
  <2> DEFINE x == Tag("SENTENCE", "start")
  <2>1. x \in OfWords /\ tree' = <<x>>
    BY <1>1, <1>3, OfWordsAre DEF StartSentence
  <2> HIDE DEF x
  <2>2. QED
    BY <2>1
<1>4. CASE StartChunk(t)
  <2> DEFINE x == [name |-> "CHUNK", type |-> "start", chunkType |-> ChunkType(t.chunk)]
  <2>1. t.chunk \in Chunks
    BY <1>4 DEF StartChunk, Starts, SourceTags
  <2>2. x \in OfWords /\ tree' = Append(tree, x)
    BY <1>4, <2>1, OfWordsAre DEF StartChunk, Emit
  <2> HIDE DEF x
  <2>3. QED
    BY <2>2, AppendProperties
<1>5. CASE ReadNode(t)
  <2> DEFINE x == Node(t.word)
             y == Tag("NODE", "end")
             b == <<x, y>>
  <2>1. t.word \in Words
    BY <1>5 DEF ReadNode, Starts, SourceTags
  <2>2. x \in OfWords /\ y \in OfWords
    BY <1>1, <2>1, OfWordsAre
  <2>3. tree' = Append(tree, x) \/ tree' = Cat(tree, b)
    BY <1>5 DEF ReadNode, Emit, Cat
  <2> HIDE DEF x, y
  <2>4. b \in Seq(OfWords)
    BY <2>2
  <2> HIDE DEF b
  <2>5. Append(tree, x) \in Seq(OfWords) /\ Cat(tree, b) \in Seq(OfWords)
    BY <2>2, <2>4, AppendProperties, CatLaws
  <2>6. QED
    BY <2>3, <2>5
<1>6. CASE EndNode(t) \/ EndChunk(t)
  <2>1. t.type = "end" /\ tree' = Append(tree, t)
    BY <1>6 DEF EndNode, EndChunk, Ends, Emit
  <2>2. t \in Printed
    <3>1. t = Tag(t.name, "end")
      BY <2>1 DEF SourceTags, Tag
    <3>2. Tag(t.name, "end") \in Printed
      BY <1>1, TagsAre
    <3>3. QED
      BY <3>1, <3>2
  <2>3. t \in OfWords
    BY <2>1, <2>2 DEF OfWords
  <2>4. QED
    BY <2>1, <2>3, AppendProperties
<1>7. CASE EndSentence(t)
  <2>1. tree' = <<>>
    BY <1>7 DEF EndSentence
  <2>2. QED
    BY <2>1, CatLaws
<1>8. QED
  BY <1>2, <1>3, <1>4, <1>5, <1>6, <1>7 DEF HandleTag

LEMMA NodesStep == NodesInv /\ [Next]_vars => NodesInv'
<1> SUFFICES ASSUME NodesInv, [Next]_vars PROVE NodesInv'
  OBVIOUS
<1>1. TransferInv /\ TransferInv' /\ tree \in Seq(OfWords)
  BY TransferStep DEF NodesInv
<1>2. CASE ReadTag
  <2>1. PICK t \in Opening \cup {Tag(n, "end") : n \in Names} : NextTag(t) /\ HandleTag(t)
    BY <1>2 DEF ReadTag
  <2>2. t \in SourceTags
    BY <1>1, <1>2, <2>1, TagRead DEF ReadTag, Given
  <2>3. QED
    BY <1>1, <2>1, <2>2, NodesOneMore DEF NodesInv
<1>3. CASE ReadEnd
  <2>1. PICK t \in {NoTag} \cup Range(src) : EndNode(t) \/ EndChunk(t) \/ (~ExpectedAtEnd(t) /\ Reject)
    BY <1>3 DEF ReadEnd
  <2>2. CASE Reject
    BY <1>1, <2>2 DEF Reject, NodesInv
  <2>3. CASE EndNode(t) \/ EndChunk(t)
    <3>1. t # NoTag
      BY <2>3 DEF EndNode, EndChunk, Ends, NoTag, Tag
    <3>2. src \in Seq(SourceTags) /\ t \in Range(src)
      BY <1>1, <2>1, <3>1 DEF TransferInv
    <3>3. t \in SourceTags
      BY <3>2, RangeIs, ElementOfSeq
    <3>4. QED
      BY <1>1, <2>3, <3>3, NodesOneMore DEF HandleTag, NodesInv
  <2>4. QED
    BY <2>1, <2>2, <2>3
<1>4. CASE UNCHANGED vars
  BY <1>1, <1>4 DEF vars, NodesInv
<1>5. QED
  BY <1>2, <1>3, <1>4 DEF Next

\* However the alternatives of a word are numbered, a word whose entries are
\* regular is printed with each of its translations, and no others.
THEOREM TranslationsAlwaysKept == Spec => []TranslationsKept
<1>1. Init => NodesInv
  <2>1. <<>> \in Seq(OfWords)
    BY CatLaws
  <2>2. QED
    BY <2>1, TransferInit DEF Init, NodesInv
<1>2. QED
  BY <1>1, NodesStep, NodesImply, PTL DEF Spec

-------------------------------------------------------------------------------
(***************************************************************************)
(* The trees of a sentence (ChunkTree): all trees, rules and bounds.       *)
(* Whatever conditions cover which words and chunks, the kids of all       *)
(* elements stay one tree, the chunks are numbered without a gap or a      *)
(* repetition, and no hash that is keyed by numbers loses a chunk, or a    *)
(* word of a chunk whose words are placed alike.                           *)
(***************************************************************************)
(***************************************************************************)
(* Sorting by numbers, and the other operators of the rules for order.     *)
(***************************************************************************)
\* Numbers in ascending order: each of them once.
LEMMA AscendingIs ==
    ASSUME NEW S, IsFiniteSet(S), S \subseteq Int
    PROVE  Lists(Ascending(S), S)
<1> DEFINE below(n) == {m \in S : m < n}
           c == Cardinality(S)
           rank == [n \in S |-> Cardinality(below(n)) + 1]
           a == Ascending(S)
<1>1. c \in Nat /\ IsFiniteSet(1 .. c) /\ Cardinality(1 .. c) = c
  <2>1. c \in Nat
    BY FS_CardinalityType
  <2> HIDE DEF c
  <2>2. QED
    BY <2>1, FS_Interval
<1>2. ASSUME NEW n \in S
      PROVE  /\ IsFiniteSet(below(n)) /\ Cardinality(below(n)) \in Nat
             /\ Cardinality(below(n) \cup {n}) = Cardinality(below(n)) + 1
             /\ Cardinality(below(n)) + 1 <= c
  <2>1. IsFiniteSet(below(n))
    BY FS_Subset
  <2>2. n \notin below(n)
    OBVIOUS
  <2>3. Cardinality(below(n) \cup {n}) = Cardinality(below(n)) + 1
    BY <2>1, <2>2, FS_AddElement
  <2>4. Cardinality(below(n) \cup {n}) <= c
    <3>1. below(n) \cup {n} \in SUBSET S
      OBVIOUS
    <3>2. QED
      BY <3>1, FS_Subset
  <2>5. QED
    BY <2>1, <2>3, <2>4, FS_CardinalityType
<1>3. ASSUME NEW n \in S, NEW k \in S, n < k PROVE rank[n] < rank[k]
  <2>1. \A m \in S : m < n => m < k
    BY <1>3
  <2>2. below(n) \cup {n} \in SUBSET below(k)
    BY <1>3, <2>1
  <2>3. Cardinality(below(n) \cup {n}) <= Cardinality(below(k))
    BY <2>2, <1>2, FS_Subset
  <2> DEFINE x == Cardinality(below(n))
             y == Cardinality(below(k))
  <2>4. x + 1 <= y /\ x \in Nat /\ y \in Nat
    BY <1>2, <2>3
  <2>5. rank[n] = x + 1 /\ rank[k] = y + 1
    OBVIOUS
  <2> HIDE DEF x, y, rank
  <2>6. QED
    BY <2>4, <2>5
<1>4. rank \in [S -> 1 .. c]
  <2> HIDE DEF c, below
  <2>1. ASSUME NEW n \in S PROVE Cardinality(below(n)) + 1 \in 1 .. c
    <3> DEFINE x == Cardinality(below(n))
    <3>1. x \in Nat /\ x + 1 <= c
      BY <1>2
    <3> HIDE DEF x
    <3>2. x + 1 \in 1 .. c
      BY <1>1, <3>1
    <3>3. QED
      BY <3>2 DEF x
  <2>2. QED
    BY <2>1
<1>5. \A n, k \in S : rank[n] = rank[k] => n = k
  <2> SUFFICES ASSUME NEW n \in S, NEW k \in S, n # k PROVE rank[n] # rank[k]
    OBVIOUS
  <2>1. n < k \/ k < n
    OBVIOUS
  <2>2. rank[n] \in Int /\ rank[k] \in Int
    BY <1>4, <1>1
  <2> HIDE DEF rank
  <2>3. QED
    BY <1>3, <2>1, <2>2
<1>6. \A i \in 1 .. c : \E n \in S : rank[n] = i
  <2>1. rank \in Injection(S, 1 .. c)
    BY <1>4, <1>5 DEF Injection, IsInjective
  <2> HIDE DEF rank
  <2>2. Cardinality(S) = Cardinality(1 .. c)
    BY <1>1
  <2>3. rank \in Surjection(S, 1 .. c)
    BY <1>1, <2>1, <2>2, FS_Injection
  <2>4. QED
    BY <2>3 DEF Surjection
<1>7. \A i \in 1 .. c : a[i] \in S /\ rank[a[i]] = i
  <2> TAKE i \in 1 .. c
  <2>1. a[i] = CHOOSE n \in S : Cardinality(below(n)) = i - 1
    BY DEF Ascending
  <2>2. \E n \in S : Cardinality(below(n)) = i - 1
    <3>1. PICK n \in S : rank[n] = i
      BY <1>6
    <3>2. Cardinality(below(n)) \in Nat /\ Cardinality(below(n)) + 1 = i
      BY <1>2, <3>1
    <3> HIDE DEF below
    <3>3. QED
      BY <3>2
  <2> HIDE DEF a
  <2>3. a[i] \in S /\ Cardinality(below(a[i])) = i - 1
    <3> HIDE DEF below
    <3> QED BY <2>1, <2>2
  <2>4. rank[a[i]] = (i - 1) + 1
    BY <2>3
  <2>5. i \in Int
    BY <1>1
  <2>6. QED
    BY <2>3, <2>4, <2>5
<1>8. DOMAIN a = 1 .. c
  BY DEF Ascending
<1>9. a \in [1 .. c -> S]
  <2> DEFINE v(i) == CHOOSE n \in S : Cardinality({m \in S : m < n}) = i - 1
  <2>1. a = [i \in 1 .. c |-> v(i)]
    BY DEF Ascending
  <2> HIDE DEF a, v, rank, below
  <2>2. \A i \in 1 .. c : a[i] = v(i)
    BY <2>1
  <2>3. \A i \in 1 .. c : v(i) \in S
    BY <1>7, <2>2
  <2>4. QED
    BY <2>1, <2>3
<1> HIDE DEF a, rank, below
<1>10. a \in Seq(S) /\ Len(a) = c
  <2> HIDE DEF c
  <2>1. a \in Seq(S)
    BY <1>1, <1>9, SeqDef
  <2>2. QED
    BY <1>1, <1>9, <2>1, LenProperties
<1>11. Range(a) = S
  <2>1. ASSUME NEW n \in S PROVE n \in Range(a)
    <3>1. rank[n] \in 1 .. c
      BY <1>4
    <3>2. a[rank[n]] \in S /\ rank[a[rank[n]]] = rank[n]
      BY <1>7, <3>1
    <3>3. a[rank[n]] = n
      BY <1>5, <3>2
    <3>4. QED
      BY <1>8, <3>1, <3>3 DEF Range
  <2>2. QED
    BY <2>1, <1>7, <1>8 DEF Range
<1>12. Distinct(a)
  BY <1>7, <1>10 DEF Distinct
<1>13. QED
  BY <1>10, <1>11, <1>12 DEF Lists, a

\* The last member of a sequence with one member.
LEMMA OnlyMember ==
    ASSUME NEW s, NEW e, Lists(s, {e})
    PROVE  Last(s) = e
<1>1. Len(s) = 1
  BY ListsLength, FS_Singleton
<1>2. s[1] = e
  BY <1>1, ElementOfSeq DEF Lists
<1>3. QED
  BY <1>1, <1>2 DEF Last

\* Where numbers differ, sorting by them loses nothing.
LEMMA InOrderLists ==
    ASSUME NEW S, NEW s, Lists(s, S), NEW number,
           \A e \in S : number[e] \in Int, \A d, e \in S : number[d] = number[e] => d = e
    PROVE  Lists(InOrder(s, number), S)
<1> DEFINE N == {number[e] : e \in S}
           numbers == Ascending(N)
           f == [e \in S |-> number[e]]
           q == InOrder(s, number)
<1>1. s \in Seq(S) /\ ToSet(s) = S /\ IsFiniteSet(S)
  BY ListsLength, ElementsAre DEF Lists
<1>2. IsFiniteSet(N) /\ N \subseteq Int
  <2>1. f \in Surjection(S, N)
    BY DEF Surjection
  <2> HIDE DEF f
  <2>2. IsFiniteSet(N)
    <3> HIDE DEF N
    <3> QED BY <1>1, <2>1, FS_Surjection
  <2>3. QED
    BY <2>2
<1>3. Lists(numbers, N)
  <2> HIDE DEF N
  <2> QED BY <1>2, AscendingIs
<1>4. q = [i \in DOMAIN numbers |-> LET n == numbers[i] IN Last(Only(s, {e \in S : number[e] = n}))]
  <2>1. N = {number[e] : e \in ToSet(s)}
    BY <1>1
  <2>2. QED
    BY <1>1, <2>1 DEF InOrder
<1> HIDE DEF numbers
<1>5. DOMAIN numbers = 1 .. Len(numbers) /\ Len(numbers) \in Nat /\ \A i \in 1 .. Len(numbers) : numbers[i] \in N
  BY <1>3, LenProperties, ElementOfSeq DEF Lists
<1>6. ASSUME NEW i \in 1 .. Len(numbers) PROVE q[i] \in S /\ number[q[i]] = numbers[i]
  <2>1. PICK e \in S : number[e] = numbers[i]
    BY <1>5
  <2>2. {d \in S : number[d] = numbers[i]} = {e}
    BY <2>1
  <2>3. Lists(Only(s, {e}), S \cap {e}) /\ S \cap {e} = {e}
    BY OnlyLists
  <2>4. Lists(Only(s, {e}), {e})
    BY <2>3
  <2> DEFINE o == Only(s, {e})
  <2> HIDE DEF o
  <2>4a. Last(o) = e
    BY <2>4, OnlyMember DEF o
  <2>5. q[i] = e
    BY <1>4, <1>5, <2>2, <2>4a DEF o
  <2>6. QED
    BY <2>1, <2>5
<1>7. q \in Seq(S) /\ Len(q) = Len(numbers)
  <2>1. q \in [1 .. Len(numbers) -> S]
    BY <1>4, <1>5, <1>6
  <2> HIDE DEF q
  <2>2. QED
    BY <1>5, <2>1, SeqDef, LenProperties
<1> HIDE DEF q
<1>8. Distinct(q)
  <2> SUFFICES ASSUME NEW i \in 1 .. Len(numbers), NEW j \in 1 .. Len(numbers), q[i] = q[j] PROVE i = j
    BY <1>7 DEF Distinct
  <2>1. numbers[i] = numbers[j]
    BY <1>6
  <2>2. QED
    BY <2>1, <1>3 DEF Lists, Distinct
<1>9. Range(q) = S
  <2>1. Range(q) \subseteq S
    BY <1>7, ElementsAre
  <2>2. ASSUME NEW e \in S PROVE e \in Range(q)
    <3>1. number[e] \in Range(numbers)
      BY <1>3 DEF Lists
    <3>2. PICK i \in 1 .. Len(numbers) : numbers[i] = number[e]
      <4> HIDE DEF N
      <4>1. numbers \in Seq(N)
        BY <1>3 DEF Lists
      <4>2. QED
        BY <4>1, <3>1, RangeIs
    <3>3. q[i] = e
      BY <1>6, <3>2
    <3>4. QED
      BY <1>7, <3>3, RangeIs
  <2>3. QED
    BY <2>1, <2>2
<1>10. QED
  BY <1>7, <1>8, <1>9 DEF Lists, q

\* Uniq keeps each member once.
LEMMA UniqLists ==
    ASSUME NEW T, NEW s \in Seq(T)
    PROVE  Lists(Uniq(s), Range(s))
<1> DEFINE places == [i \in DOMAIN s |-> i]
           F == {i \in DOMAIN s : \A j \in 1 .. i - 1 : s[j] # s[i]}
           firsts == Only(places, F)
           u == Uniq(s)
<1>1. DOMAIN s = 1 .. Len(s) /\ Len(s) \in Nat
  BY LenProperties
<1>2. Lists(places, 1 .. Len(s))
  <2>1. places \in [1 .. Len(s) -> 1 .. Len(s)] /\ \A i \in 1 .. Len(s) : places[i] = i
    BY <1>1
  <2> HIDE DEF places
  <2>2. places \in Seq(1 .. Len(s)) /\ Len(places) = Len(s) /\ DOMAIN places = 1 .. Len(s)
    BY <1>1, <2>1, SeqDef, LenProperties
  <2>3. Range(places) = 1 .. Len(s)
    BY <2>1, <2>2 DEF Range
  <2>4. Distinct(places)
    BY <2>1, <2>2 DEF Distinct
  <2>5. QED
    BY <2>2, <2>3, <2>4 DEF Lists
<1>3. F \subseteq 1 .. Len(s) /\ (1 .. Len(s)) \cap F = F
  BY <1>1
<1>4. Lists(firsts, F)
  <2>1. Lists(firsts, (1 .. Len(s)) \cap F)
    <3> HIDE DEF places, F
    <3> QED BY <1>2, OnlyLists
  <2>2. QED
    BY <1>3, <2>1
<1>5. u = [k \in DOMAIN firsts |-> s[firsts[k]]]
  BY DEF Uniq
<1> HIDE DEF firsts
<1>6. /\ DOMAIN firsts = 1 .. Len(firsts) /\ Len(firsts) \in Nat
      /\ \A k \in 1 .. Len(firsts) : firsts[k] \in F
      /\ \A i \in F : \E k \in 1 .. Len(firsts) : firsts[k] = i
      /\ \A k, l \in 1 .. Len(firsts) : firsts[k] = firsts[l] => k = l
  <2> HIDE DEF F
  <2>1. firsts \in Seq(F) /\ Range(firsts) = F /\ Distinct(firsts)
    BY <1>4 DEF Lists
  <2>2. QED
    BY <2>1, LenProperties, ElementOfSeq, RangeIs DEF Distinct
<1>7. \A i, j \in F : s[i] = s[j] => i = j
  <2> SUFFICES ASSUME NEW i \in F, NEW j \in F, s[i] = s[j], i # j PROVE FALSE
    OBVIOUS
  <2>1. i \in Int /\ j \in Int /\ 1 <= i /\ 1 <= j
    BY <1>1
  <2>2. i \in 1 .. j - 1 \/ j \in 1 .. i - 1
    BY <2>1
  <2>3. QED
    BY <2>2
<1>8. \A x \in Range(s) : \E i \in F : s[i] = x
  <2> TAKE x \in Range(s)
  <2> DEFINE S == {i \in 1 .. Len(s) : s[i] = x}
  <2>1. S \in SUBSET Nat /\ S # {}
    BY <1>1, RangeIs
  <2>2. PICK n \in S : \A m \in S : n <= m
    BY <2>1, LeastNumber
  <2>3. n \in 1 .. Len(s) /\ s[n] = x
    BY <2>2
  <2>4. ASSUME NEW j \in 1 .. n - 1 PROVE s[j] # s[n]
    <3>1. j \in 1 .. Len(s) /\ ~(n <= j)
      BY <1>1, <2>3
    <3>2. j \notin S
      BY <2>2, <3>1
    <3>3. QED
      BY <2>3, <3>1, <3>2
  <2>5. n \in F
    BY <1>1, <2>3, <2>4
  <2>6. QED
    BY <2>3, <2>5
<1>9. \A k \in 1 .. Len(firsts) : u[k] = s[firsts[k]] /\ u[k] \in Range(s)
  <2>1. \A i \in F : s[i] \in Range(s)
    BY <1>1 DEF Range
  <2> HIDE DEF F, u
  <2>2. QED
    BY <1>5, <1>6, <2>1
<1>10. u \in Seq(Range(s)) /\ Len(u) = Len(firsts)
  <2>1. u \in [1 .. Len(firsts) -> Range(s)]
    <3> HIDE DEF F
    <3> QED BY <1>5, <1>6, <1>9
  <2> HIDE DEF u
  <2>2. QED
    BY <1>6, <2>1, SeqDef, LenProperties
<1> HIDE DEF u, F
<1>11. Distinct(u)
  BY <1>6, <1>7, <1>9, <1>10 DEF Distinct
<1>12. Range(u) = Range(s)
  <2>1. Range(u) \subseteq Range(s)
    BY <1>10, ElementsAre
  <2>2. ASSUME NEW x \in Range(s) PROVE x \in Range(u)
    <3>1. PICK i \in F : s[i] = x
      BY <1>8
    <3>2. PICK k \in 1 .. Len(firsts) : firsts[k] = i
      BY <1>6
    <3>3. u[k] = x
      BY <1>9, <3>1, <3>2
    <3>4. QED
      BY <1>10, <3>3, RangeIs
  <2>3. QED
    BY <2>1, <2>2
<1>13. QED
  BY <1>10, <1>11, <1>12 DEF Lists, u

\* A new member put in anywhere.
LEMMA InsertLists ==
    ASSUME NEW W, NEW s, Lists(s, W), NEW v, v \notin W, NEW i \in 1 .. Len(s) + 1
    PROVE  Lists(InsertAt(s, i, v), W \cup {v})
<1> DEFINE U == W \cup {v}
           a == SubSeq(s, 1, i - 1)
           b == SubSeq(s, i, Len(s))
<1>1. s \in Seq(W) /\ Range(s) = W /\ Distinct(s) /\ Len(s) \in Nat
  BY LenProperties DEF Lists
<1>2. i - 1 \in 0 .. Len(s) /\ (i - 1) + 1 = i
  BY <1>1
<1>3. a \in Seq(W) /\ b \in Seq(W) /\ Cat(a, b) = s
  <2>1. SubSeq(s, (i - 1) + 1, Len(s)) = b
    BY <1>2
  <2>2. QED
    BY <1>1, <1>2, <2>1, SplitAt DEF Cat
<1>4. InsertAt(s, i, v) = Cat(Cat(a, <<v>>), b)
  BY DEF InsertAt, Cat
<1> HIDE DEF a, b
<1>5. Range(a) \cup Range(b) = W
  BY <1>1, <1>3, RangeCat
<1>6. Distinct(a) /\ Distinct(b) /\ Range(a) \cap Range(b) = {}
  BY <1>1, <1>3, CatDistinct
<1>7. a \in Seq(U) /\ b \in Seq(U) /\ <<v>> \in Seq(U) /\ Range(<<v>>) = {v} /\ Distinct(<<v>>)
  <2>1. Seq(W) \subseteq Seq(U)
    BY SeqMonotonic
  <2>2. QED
    BY <1>3, <2>1, OneMember DEF Lists
<1> HIDE DEF U
<1>8. Cat(a, <<v>>) \in Seq(U) /\ Range(Cat(a, <<v>>)) = Range(a) \cup {v} /\ Distinct(Cat(a, <<v>>))
  <2>1. Range(a) \cap {v} = {}
    BY <1>5
  <2> DEFINE w == <<v>>
  <2>2. a \in Seq(U) /\ w \in Seq(U) /\ Range(w) = {v} /\ Distinct(w) /\ Distinct(a)
    BY <1>6, <1>7
  <2> HIDE DEF w
  <2>3. Cat(a, w) \in Seq(U)
    BY <2>2, CatLaws
  <2>4. Range(Cat(a, w)) = Range(a) \cup Range(w)
    BY <2>2, RangeCat
  <2>5. Distinct(Cat(a, w))
    BY <2>1, <2>2, CatDistinct
  <2>6. QED
    BY <2>2, <2>3, <2>4, <2>5 DEF w
<1>9. Cat(Cat(a, <<v>>), b) \in Seq(U) /\ Range(Cat(Cat(a, <<v>>), b)) = U /\ Distinct(Cat(Cat(a, <<v>>), b))
  <2>1. (Range(a) \cup {v}) \cap Range(b) = {}
    BY <1>5, <1>6
  <2>2. (Range(a) \cup {v}) \cup Range(b) = U
    BY <1>5 DEF U
  <2> DEFINE w == Cat(a, <<v>>)
  <2>3. w \in Seq(U) /\ b \in Seq(U) /\ Range(w) = Range(a) \cup {v} /\ Distinct(w) /\ Distinct(b)
    BY <1>6, <1>7, <1>8
  <2> HIDE DEF w
  <2>4. Cat(w, b) \in Seq(U)
    BY <2>3, CatLaws
  <2>5. Range(Cat(w, b)) = Range(w) \cup Range(b)
    BY <2>3, RangeCat
  <2>6. Distinct(Cat(w, b))
    BY <2>1, <2>3, CatDistinct
  <2>7. QED
    BY <2>2, <2>3, <2>4, <2>5, <2>6 DEF w
<1>10. QED
  BY <1>4, <1>9 DEF Lists, U

\* A member taken out.
LEMMA TakenOut ==
    ASSUME NEW V, NEW s, Lists(s, V), NEW v
    PROVE  Lists(Without(s, {v}), V \ {v})
<1>1. s \in Seq(V)
  BY DEF Lists
<1>2. Without(s, {v}) = Only(s, V \ {v})
  BY <1>1, WithoutIsOnly
<1>3. V \cap (V \ {v}) = V \ {v}
  OBVIOUS
<1>4. Lists(Only(s, V \ {v}), V \cap (V \ {v}))
  BY OnlyLists
<1>5. QED
  BY <1>2, <1>3, <1>4

\* The place of a member.
LEMMA PosIs ==
    ASSUME NEW S, NEW s, Lists(s, S), NEW e \in S
    PROVE  Pos(s, e) \in 1 .. Len(s) /\ s[Pos(s, e)] = e
<1>1. DOMAIN s = 1 .. Len(s) /\ \E i \in 1 .. Len(s) : s[i] = e
  BY RangeIs, LenProperties DEF Lists
<1>2. QED
  BY <1>1 DEF Pos

\* Greatest and least of some numbers up to a bound.
LEMMA MaxIs ==
    ASSUME NEW n \in Nat, NEW S \in SUBSET (1 .. n), S # {}
    PROVE  Max(S) \in S /\ \A m \in S : m <= Max(S)
<1> DEFINE R == {n - k : k \in S}
<1>1. R \in SUBSET Nat /\ R # {}
  <2>1. \A k \in S : k \in Nat /\ k <= n
    OBVIOUS
  <2>2. \A k \in S : n - k \in Nat
    BY <2>1
  <2>3. QED
    BY <2>2
<1>2. PICK r \in R : \A m \in R : r <= m
  BY <1>1, LeastNumber
<1>3. PICK k \in S : r = n - k
  BY <1>2
<1>4. \A m \in S : m <= k
  <2> TAKE m \in S
  <2>1. r <= n - m
    BY <1>2
  <2>2. QED
    BY <1>3, <2>1
<1>5. \E x \in S : \A y \in S : x >= y
  BY <1>4
<1>6. Max(S) \in S /\ \A y \in S : Max(S) >= y
  BY <1>5 DEF Max
<1>7. QED
  BY <1>6

\* The least of some numbers.
LEMMA MinIs ==
    ASSUME NEW S \in SUBSET Nat, S # {}
    PROVE  Min(S) \in S
<1>1. \E x \in S : \A y \in S : x <= y
  BY LeastNumber
<1>2. QED
  BY <1>1 DEF Min

\* Left of a variable there is a place.
LEMMA LeftIs ==
    ASSUME NEW S, NEW s, Lists(s, S), NEW e \in S, NEW o
    PROVE  Left(s, e, o) \in 1 .. Len(s) + 1
<1> DEFINE p == Pos(s, e)
           K == {k \in 1 .. p - 1 : k = 1 \/ s[k] # Dummy}
<1>1. p \in 1 .. Len(s) /\ Len(s) \in Nat
  BY PosIs, LenProperties DEF Lists
<1>2. Left(s, e, o) = IF o = "+" \/ p = 1 THEN p ELSE Max(K)
  BY DEF Left
<1> HIDE DEF p
<1>3. CASE ~(o = "+" \/ p = 1)
  <2>1. p - 1 \in Nat /\ K \in SUBSET (1 .. p - 1) /\ 1 \in K
    BY <1>1, <1>3
  <2> HIDE DEF K
  <2>2. Max(K) \in 1 .. p - 1
    BY <2>1, MaxIs
  <2>3. QED
    BY <1>1, <1>2, <1>3, <2>2
<1>4. QED
  BY <1>1, <1>2, <1>3

\* Right of a variable there is a place.
LEMMA RightIs ==
    ASSUME NEW S, NEW s, Lists(s, S), NEW e \in S, NEW o
    PROVE  Right(s, e, o) \in 1 .. Len(s) + 1
<1> DEFINE p == Pos(s, e)
           K == {k \in p + 1 .. Len(s) + 1 : k = Len(s) + 1 \/ s[k] # Dummy}
<1>1. p \in 1 .. Len(s) /\ Len(s) \in Nat
  BY PosIs, LenProperties DEF Lists
<1>2. Right(s, e, o) = IF o = "+" THEN p + 1 ELSE Min(K)
  BY DEF Right
<1> HIDE DEF p
<1> DEFINE n == Len(s)
<1> HIDE DEF n
<1>3. K \in SUBSET Nat /\ n + 1 \in K /\ K \subseteq 1 .. n + 1
  <2>1. K = {k \in p + 1 .. n + 1 : k = n + 1 \/ s[k] # Dummy}
    BY DEF n
  <2>2. p \in 1 .. n /\ n \in Nat
    BY <1>1 DEF n
  <2> HIDE DEF K
  <2>3. n + 1 \in p + 1 .. n + 1 /\ p + 1 .. n + 1 \subseteq 1 .. n + 1 /\ 1 .. n + 1 \subseteq Nat
    BY <2>2
  <2>4. QED
    BY <2>1, <2>3
<1> HIDE DEF K
<1>4. Min(K) \in K
  BY <1>3, MinIs
<1>5. p + 1 \in 1 .. n + 1
  <2>1. p \in 1 .. n /\ n \in Nat
    BY <1>1 DEF n
  <2>2. QED
    BY <2>1
<1>6. Right(s, e, o) \in 1 .. n + 1
  BY <1>2, <1>3, <1>4, <1>5
<1>7. QED
  BY <1>6 DEF n

\* A recursion whose steps stay in given sets.
Leads(I, k, step) == \A n \in 1 .. k : \A m \in I[n - 1] : step[n][m] \in I[n]
Stays(f, a, k, step, I) == Follows(f, a, k, step) /\ \A n \in 0 .. k : f[n] \in I[n]

\* A recursive function has its values in those sets.
LEMMA RecursionStays ==
    ASSUME NEW k \in Nat, NEW A, NEW I \in [0 .. k -> SUBSET A], NEW a \in I[0],
           NEW step \in [1 .. k -> [A -> A]],
           Leads(I, k, step)
    PROVE  \E f \in [0 .. k -> A] : Stays(f, a, k, step, I)
<1>1. 0 \in 0 .. k /\ a \in A
  OBVIOUS
<1>2. PICK f \in [0 .. k -> A] : Follows(f, a, k, step)
  BY <1>1, RecursionExists
<1>3. f[0] = a /\ \A n \in 1 .. k : f[n] = step[n][f[n - 1]]
  BY <1>2 DEF Follows
<1> DEFINE G == {n \in Nat : n <= k => f[n] \in I[n]}
<1>4. 0 \in G
  BY <1>3
<1>5. ASSUME NEW n \in Nat, n \in G PROVE n + 1 \in G
  <2>1. CASE n + 1 <= k
    <3>1. n + 1 \in 1 .. k /\ (n + 1) - 1 = n /\ n <= k
      BY <2>1
    <3>2. f[n] \in I[n]
      BY <1>5, <3>1
    <3>3. f[n + 1] = step[n + 1][f[n]]
      BY <1>3, <3>1
    <3>4. \A m \in I[n] : step[n + 1][m] \in I[n + 1]
      BY <3>1 DEF Leads
    <3>5. QED
      BY <3>2, <3>3, <3>4
  <2>2. QED
    BY <2>1
<1>6. Nat \subseteq G
  <2> HIDE DEF G
  <2> QED BY <1>4, <1>5, SetInduction
<1>7. \A n \in 0 .. k : f[n] \in I[n]
  BY <1>6
<1>8. QED
  BY <1>2, <1>7 DEF Stays

\* Where a merge stands: all variables, each once, and the one that was placed last.
Merges(V) == {m \in [seq : Seq(V), previous : V, op : STRING] : Lists(m.seq, V)}
Tokens == [op : STRING, var : STRING]

\* A member that is put elsewhere.
LEMMA PlacedLists ==
    ASSUME NEW V, NEW s, Lists(s, V), NEW v \in V, NEW i \in 1 .. Len(Without(s, {v})) + 1
    PROVE  Lists(InsertAt(Without(s, {v}), i, v), V)
<1> DEFINE r == Without(s, {v})
<1>1. Lists(r, V \ {v})
  BY TakenOut
<1>2. v \notin V \ {v} /\ (V \ {v}) \cup {v} = V
  OBVIOUS
<1>3. i \in 1 .. Len(r) + 1
  OBVIOUS
<1> HIDE DEF r
<1>4. Lists(InsertAt(r, i, v), (V \ {v}) \cup {v})
  BY <1>1, <1>2, <1>3, InsertLists
<1>5. QED
  BY <1>2, <1>4 DEF r

\* Placing leftwards loses no variable: the one placed before it is always there.
LEMMA PlaceLeftLists ==
    ASSUME NEW V, NEW m \in Merges(V), NEW token \in Tokens, m.op # "" \/ token.var \notin V,
           m.previous # token.var
    PROVE  /\ PlaceLeft(m, token) \in Merges(V)
           /\ PlaceLeft(m, token).previous \in {m.previous, token.var}
           /\ PlaceLeft(m, token).op \in {m.op, token.op}
<1> DEFINE v == token.var
           rest == Without(m.seq, {v})
           i == Left(rest, m.previous, m.op)
           new == InsertAt(rest, i, v)
<1>1. Lists(m.seq, V) /\ m.previous \in V /\ token.op \in STRING
  BY DEF Merges, Tokens
<1>2. Contains(m.seq, v) <=> v \in V
  BY <1>1, ElementsAre DEF Lists
<1>3. CASE v \notin V
  BY <1>2, <1>3 DEF PlaceLeft
<1>4. CASE v \in V
  <2>1. PlaceLeft(m, token) = [seq |-> new, previous |-> v, op |-> token.op]
    BY <1>2, <1>4 DEF PlaceLeft
  <2>2. i \in 1 .. Len(rest) + 1
    <3>1. Lists(rest, V \ {v}) /\ m.previous \in V \ {v} /\ m.op # ""
      BY <1>1, <1>4, TakenOut
    <3> HIDE DEF rest, v
    <3>2. QED
      BY <3>1, LeftIs
  <2>3. Lists(new, V)
    <3> HIDE DEF i, v
    <3>1. v \in V /\ Lists(m.seq, V) /\ i \in 1 .. Len(Without(m.seq, {v})) + 1
      BY <1>1, <1>4, <2>2
    <3>2. QED
      BY <3>1, PlacedLists
  <2>4. new \in Seq(V)
    BY <2>3 DEF Lists
  <2> HIDE DEF new, v
  <2> DEFINE p == [seq |-> new, previous |-> v, op |-> token.op]
  <2>5. p \in [seq : Seq(V), previous : V, op : STRING] /\ p.seq = new /\ p.previous = v /\ p.op = token.op
    BY <1>1, <1>4, <2>4
  <2> HIDE DEF p
  <2>6. p \in Merges(V)
    BY <2>3, <2>5 DEF Merges
  <2>7. PlaceLeft(m, token) = p
    BY <2>1 DEF p
  <2>8. QED
    BY <2>5, <2>6, <2>7 DEF v
<1>5. QED
  BY <1>3, <1>4

\* Placing rightwards loses no variable.
LEMMA PlaceRightLists ==
    ASSUME NEW V, NEW m \in Merges(V), NEW token \in Tokens, token.op # "", m.previous # token.var
    PROVE  /\ PlaceRight(m, token) \in Merges(V)
           /\ PlaceRight(m, token).previous \in {m.previous, token.var}
<1> DEFINE v == token.var
           rest == Without(m.seq, {v})
           i == Right(rest, m.previous, token.op)
           new == InsertAt(rest, i, v)
<1>1. Lists(m.seq, V) /\ m.previous \in V /\ token.op \in STRING
  BY DEF Merges, Tokens
<1>2. Contains(m.seq, v) <=> v \in V
  BY <1>1, ElementsAre DEF Lists
<1>3. CASE v \notin V
  BY <1>2, <1>3 DEF PlaceRight
<1>4. CASE v \in V
  <2>1. PlaceRight(m, token) = [seq |-> new, previous |-> v, op |-> token.op]
    BY <1>2, <1>4 DEF PlaceRight
  <2>2. i \in 1 .. Len(rest) + 1
    <3>1. Lists(rest, V \ {v}) /\ m.previous \in V \ {v}
      BY <1>1, TakenOut
    <3> HIDE DEF rest, v
    <3>2. QED
      BY <3>1, RightIs
  <2>3. Lists(new, V)
    <3> HIDE DEF i, v
    <3>1. v \in V /\ Lists(m.seq, V) /\ i \in 1 .. Len(Without(m.seq, {v})) + 1
      BY <1>1, <1>4, <2>2
    <3>2. QED
      BY <3>1, PlacedLists
  <2>4. new \in Seq(V)
    BY <2>3 DEF Lists
  <2> HIDE DEF new, v
  <2> DEFINE p == [seq |-> new, previous |-> v, op |-> token.op]
  <2>5. p \in [seq : Seq(V), previous : V, op : STRING] /\ p.seq = new /\ p.previous = v /\ p.op = token.op
    BY <1>1, <1>4, <2>4
  <2> HIDE DEF p
  <2>6. p \in Merges(V)
    BY <2>3, <2>5 DEF Merges
  <2>7. PlaceRight(m, token) = p
    BY <2>1 DEF p
  <2>8. QED
    BY <2>5, <2>6, <2>7 DEF v
<1>5. QED
  BY <1>3, <1>4

\* The rules lose no variable and make no second one.
LEMMA MergeLists ==
    ASSUME NEW V, V \subseteq Variables \cup {"head", Dummy}, NEW old, Lists(old, V), "head" \in V,
           NEW rule, IsOrder(rule)
    PROVE  Lists(MergeArrays(old, rule), V)
<1> DEFINE h == CHOOSE i \in DOMAIN rule : rule[i].var = "head"
           len == Len(rule)
           A == Merges(V)
           Fine(m, token) == /\ m \in A /\ m.previous # token.var
                             /\ m.op # "" \/ token.var \notin V
           FineToo(m, token) == m \in A /\ token.op # "" /\ m.previous # token.var
           start == [seq |-> old, previous |-> "head", op |-> rule[h].op]
           LeftOf(f) == [k \in 0 .. h - 1 |-> IF k = 0 THEN start ELSE PlaceLeft(f[k - 1], rule[h - k])]
           left == CHOOSE f : f = LeftOf(f)
           middle == [left[h - 1] EXCEPT !.previous = "head"]
           RightOf(f) == [k \in 0 .. len - h |-> IF k = 0 THEN middle ELSE PlaceRight(f[k - 1], rule[h + k])]
           right == CHOOSE f : f = RightOf(f)
<1>1. MergeArrays(old, rule) = right[len - h].seq
  BY DEF MergeArrays
<1>2. /\ len \in Nat /\ DOMAIN rule = 1 .. len /\ h \in 1 .. len /\ rule[h].var = "head"
      /\ \A i \in 1 .. len : rule[i] \in Tokens
      /\ \A i, j \in 1 .. len : rule[i].var = rule[j].var => i = j
      /\ \A i \in 1 .. len : i # 1 => rule[i].op # "" \/ (i = 2 /\ rule[1].var \notin V)
  <2>1. rule \in Seq(Tokens)
    BY DEF IsOrder, Tokens
  <2>2. len \in Nat /\ DOMAIN rule = 1 .. len /\ \A i \in 1 .. len : rule[i] \in Tokens
    BY <2>1, LenProperties, ElementOfSeq
  <2>3. h \in DOMAIN rule /\ rule[h].var = "head"
    BY DEF IsOrder
  <2>4. \A i \in DOMAIN rule : i # 1 => rule[i].op # "" \/ (i = 2 /\ rule[1].var \notin V)
    <3>1. \A i \in DOMAIN rule \ {1} : rule[i].op # "" \/ (i = 2 /\ IsLabel(rule[1]))
      BY DEF IsOrder
    <3>2. IsLabel(rule[1]) => rule[1].var \notin V
      BY DEF IsLabel
    <3>3. QED
      BY <3>1, <3>2
  <2> HIDE DEF h, len
  <2>5. QED
    BY <2>2, <2>3, <2>4 DEF IsOrder
<1> HIDE DEF h, len
<1>2a. len \in Nat /\ h \in Nat /\ 1 <= h /\ h <= len
  <2>1. len \in Nat /\ h \in 1 .. len
    BY <1>2
  <2>2. QED
    BY <2>1
<1>3. start \in A /\ start.op = rule[h].op /\ start.previous = "head"
  <2>1. old \in Seq(V) /\ rule[h].op \in STRING
    BY <1>2 DEF Lists, Tokens
  <2>2. QED
    BY <2>1 DEF Merges
<1> HIDE DEF start
<1>4. /\ left[h - 1] \in A
      /\ h # 1 => left[h - 1].op \in STRING
  <2> DEFINE Seen(n) == {rule[i] : i \in h - n .. h}
             I == [n \in 0 .. h - 1 |->
                     {m \in A : \E i, j \in h - n .. h : m.previous = rule[i].var /\ m.op = rule[j].op}]
             step == [n \in 1 .. h - 1 |->
                        [m \in A |-> IF Fine(m, rule[h - n]) THEN PlaceLeft(m, rule[h - n]) ELSE m]]
  <2>1. h - 1 \in Nat
    BY <1>2a
  <2>2. I \in [0 .. h - 1 -> SUBSET A]
    OBVIOUS
  <2>3. start \in I[0]
    <3>1. 0 \in 0 .. h - 1 /\ h \in h - 0 .. h
      BY <1>2a
    <3>2. QED
      BY <1>2, <1>3, <3>1
  <2>4. \A n \in 1 .. h - 1 : h - n \in 1 .. len /\ rule[h - n] \in Tokens
    <3>1. \A n \in 1 .. h - 1 : h - n \in 1 .. len
      BY <1>2a
    <3>2. QED
      BY <1>2, <3>1
  <2>5. \A n \in 1 .. h - 1 : \A m \in A :
          Fine(m, rule[h - n]) => /\ PlaceLeft(m, rule[h - n]) \in A
                                  /\ PlaceLeft(m, rule[h - n]).previous \in {m.previous, rule[h - n].var}
                                  /\ PlaceLeft(m, rule[h - n]).op \in {m.op, rule[h - n].op}
    BY <2>4, PlaceLeftLists
  <2>6. step \in [1 .. h - 1 -> [A -> A]]
    <3> HIDE DEF A
    <3>1. \A n \in 1 .. h - 1 : step[n] \in [A -> A]
      BY <2>5
    <3>2. QED
      BY <3>1
  <2>7. ASSUME NEW n \in 1 .. h - 1, NEW m \in I[n - 1]
        PROVE  Fine(m, rule[h - n]) /\ step[n][m] \in I[n]
    <3>1. /\ n - 1 \in 0 .. h - 1 /\ n \in 0 .. h - 1
          /\ \A i \in h - (n - 1) .. h : i \in 1 .. len /\ i # 1 /\ i \in h - n .. h /\ i # h - n
          /\ h - n \in h - n .. h
      BY <1>2a
    <3>2. PICK i \in h - (n - 1) .. h, j \in h - (n - 1) .. h :
            m \in A /\ m.previous = rule[i].var /\ m.op = rule[j].op
      BY <3>1
    <3>3. Fine(m, rule[h - n])
      <4>1. m.previous # rule[h - n].var
        BY <1>2, <2>4, <3>1, <3>2
      <4>2. ASSUME m.op = "" PROVE rule[h - n].var \notin V
        <5>1. j \in 1 .. len /\ j # 1 /\ rule[j].op = ""
          BY <3>1, <3>2, <4>2
        <5>2. j = 2 /\ rule[1].var \notin V
          BY <1>2, <5>1
        <5>3. h - n = 1
          BY <1>2a, <5>2
        <5>4. QED
          BY <5>2, <5>3
      <4>3. QED
        BY <3>2, <4>1, <4>2
    <3>4. step[n][m] = PlaceLeft(m, rule[h - n])
      BY <3>3
    <3> DEFINE p == PlaceLeft(m, rule[h - n])
    <3>5. p \in A /\ p.previous \in {m.previous, rule[h - n].var} /\ p.op \in {m.op, rule[h - n].op}
      BY <2>5, <3>3
    <3> HIDE DEF p, A
    <3>6. \E x, y \in h - n .. h : p.previous = rule[x].var /\ p.op = rule[y].op
      BY <3>1, <3>2, <3>5
    <3>7. p \in I[n]
      BY <3>1, <3>5, <3>6
    <3>8. QED
      BY <3>3, <3>4, <3>7 DEF p
  <2> HIDE DEF I, step, A
  <2>8. PICK f \in [0 .. h - 1 -> A] : /\ f[0] = start
                                       /\ \A n \in 1 .. h - 1 : f[n] = step[n][f[n - 1]]
                                       /\ \A n \in 0 .. h - 1 : f[n] \in I[n]
    <3>1. Leads(I, h - 1, step)
      BY <2>7 DEF Leads
    <3> DEFINE k == h - 1
    <3>2. /\ k \in Nat /\ I \in [0 .. k -> SUBSET A] /\ start \in I[0] /\ step \in [1 .. k -> [A -> A]]
          /\ Leads(I, k, step)
      BY <2>1, <2>2, <2>3, <2>6, <3>1
    <3> HIDE DEF k
    <3>3. \E f \in [0 .. k -> A] : Stays(f, start, k, step, I)
      BY <3>2, RecursionStays
    <3>4. QED
      BY <3>3 DEF k, Stays, Follows
  <2>9. \A n \in 1 .. h - 1 : n - 1 \in 0 .. h - 1 /\ f[n] = PlaceLeft(f[n - 1], rule[h - n])
    <3> TAKE n \in 1 .. h - 1
    <3>1. n - 1 \in 0 .. h - 1
      BY <2>1
    <3>2. f[n - 1] \in I[n - 1] /\ f[n - 1] \in A
      BY <2>8, <3>1
    <3>3. Fine(f[n - 1], rule[h - n])
      BY <2>7, <3>2
    <3>4. step[n][f[n - 1]] = PlaceLeft(f[n - 1], rule[h - n])
      BY <3>2, <3>3 DEF step
    <3>5. QED
      BY <2>8, <3>1, <3>4
  <2>10. f = LeftOf(f)
    <3>1. \A k \in 0 .. h - 1 : f[k] = IF k = 0 THEN start ELSE PlaceLeft(f[k - 1], rule[h - k])
      <4>1. \A k \in 0 .. h - 1 : k = 0 \/ k \in 1 .. h - 1
        BY <2>1
      <4>2. QED
        BY <2>8, <2>9, <4>1
    <3>2. f \in [0 .. h - 1 -> A]
      OBVIOUS
    <3>3. QED
      BY <3>1, <3>2
  <2>11. left = LeftOf(left)
    BY <2>10
  <2> HIDE DEF left
  <2>12. left[0] = start /\ \A n \in 1 .. h - 1 : left[n] = PlaceLeft(left[n - 1], rule[h - n])
    <3>1. 0 \in 0 .. h - 1 /\ \A n \in 1 .. h - 1 : n \in 0 .. h - 1 /\ n # 0
      BY <2>1
    <3>2. QED
      BY <2>11, <3>1
  <2>13. f[h - 1] = left[h - 1]
    <3>1. \A n \in 1 .. h - 1 : f[n - 1] = left[n - 1] => f[n] = left[n]
      BY <2>9, <2>12
    <3>2. f[0] = left[0]
      BY <2>8, <2>12
    <3>3. QED
      BY <2>1, <3>1, <3>2, RecursionAgrees
  <2>14. left[h - 1] \in A
    <3>1. h - 1 \in 0 .. h - 1
      BY <2>1
    <3>2. QED
      BY <2>13, <3>1
  <2>15. QED
    BY <2>14 DEF A, Merges
<1> HIDE DEF left
<1>5. middle \in A /\ middle.previous = "head"
  BY <1>4 DEF Merges
<1> HIDE DEF middle
<1>6. right[len - h] \in A
  <2> DEFINE k == len - h
             I == [n \in 0 .. k |-> {m \in A : \E i \in h .. h + n : m.previous = rule[i].var}]
             step == [n \in 1 .. k |->
                        [m \in A |-> IF FineToo(m, rule[h + n]) THEN PlaceRight(m, rule[h + n]) ELSE m]]
  <2>1. k \in Nat
    BY <1>2a
  <2>2. I \in [0 .. k -> SUBSET A]
    OBVIOUS
  <2>3. middle \in I[0]
    <3>1. 0 \in 0 .. k /\ h \in h .. h + 0
      BY <1>2a
    <3>2. QED
      BY <1>2, <1>5, <3>1
  <2>4. \A n \in 1 .. k : h + n \in 1 .. len /\ rule[h + n] \in Tokens /\ rule[h + n].op # ""
    <3>1. \A n \in 1 .. k : h + n \in 1 .. len /\ h + n # 1 /\ (h + n = 2 => h = 1)
      BY <1>2a
    <3>2. h = 1 => rule[1].var \in V
      <4>1. rule[h].var = "head" /\ "head" \in V
        BY <1>2
      <4>2. QED
        BY <4>1
    <3>3. QED
      BY <1>2, <3>1, <3>2
  <2>5. \A n \in 1 .. k : \A m \in A :
          FineToo(m, rule[h + n]) => /\ PlaceRight(m, rule[h + n]) \in A
                                     /\ PlaceRight(m, rule[h + n]).previous \in {m.previous, rule[h + n].var}
    BY <2>4, PlaceRightLists
  <2>6. step \in [1 .. k -> [A -> A]]
    <3> HIDE DEF A
    <3>1. \A n \in 1 .. k : step[n] \in [A -> A]
      BY <2>5
    <3>2. QED
      BY <3>1
  <2>7. ASSUME NEW n \in 1 .. k, NEW m \in I[n - 1]
        PROVE  FineToo(m, rule[h + n]) /\ step[n][m] \in I[n]
    <3>1. /\ n - 1 \in 0 .. k /\ n \in 0 .. k
          /\ \A i \in h .. h + (n - 1) : i \in 1 .. len /\ i \in h .. h + n /\ i # h + n
          /\ h + n \in h .. h + n
      BY <1>2a
    <3>2. PICK i \in h .. h + (n - 1) : m \in A /\ m.previous = rule[i].var
      BY <3>1
    <3>3. FineToo(m, rule[h + n])
      BY <1>2, <2>4, <3>1, <3>2
    <3>4. step[n][m] = PlaceRight(m, rule[h + n])
      BY <3>3
    <3> DEFINE p == PlaceRight(m, rule[h + n])
    <3>5. p \in A /\ p.previous \in {m.previous, rule[h + n].var}
      BY <2>5, <3>3
    <3> HIDE DEF p, A
    <3>6. \E x \in h .. h + n : p.previous = rule[x].var
      BY <3>1, <3>2, <3>5
    <3>7. p \in I[n]
      BY <3>1, <3>5, <3>6
    <3>8. QED
      BY <3>3, <3>4, <3>7 DEF p
  <2> HIDE DEF I, step, A
  <2>8. PICK f \in [0 .. k -> A] : /\ f[0] = middle
                                   /\ \A n \in 1 .. k : f[n] = step[n][f[n - 1]]
                                   /\ \A n \in 0 .. k : f[n] \in I[n]
    <3>1. Leads(I, k, step)
      BY <2>7 DEF Leads
    <3> HIDE DEF k
    <3>2. Leads(I, k, step)
      BY <3>1
    <3>3. k \in Nat /\ I \in [0 .. k -> SUBSET A] /\ middle \in I[0] /\ step \in [1 .. k -> [A -> A]]
      BY <2>1, <2>2, <2>3, <2>6
    <3>4. \E f \in [0 .. k -> A] : Stays(f, middle, k, step, I)
      BY <3>2, <3>3, RecursionStays
    <3>5. QED
      BY <3>4 DEF Stays, Follows
  <2>9. \A n \in 1 .. k : n - 1 \in 0 .. k /\ f[n] = PlaceRight(f[n - 1], rule[h + n])
    <3> TAKE n \in 1 .. k
    <3>1. n - 1 \in 0 .. k
      BY <2>1
    <3>2. f[n - 1] \in I[n - 1] /\ f[n - 1] \in A
      BY <2>8, <3>1
    <3>3. FineToo(f[n - 1], rule[h + n])
      BY <2>7, <3>2
    <3>4. step[n][f[n - 1]] = PlaceRight(f[n - 1], rule[h + n])
      BY <3>2, <3>3 DEF step
    <3>5. QED
      BY <2>8, <3>1, <3>4
  <2>10. f = RightOf(f)
    <3>1. \A n \in 0 .. k : f[n] = IF n = 0 THEN middle ELSE PlaceRight(f[n - 1], rule[h + n])
      <4>1. \A n \in 0 .. k : n = 0 \/ n \in 1 .. k
        BY <2>1
      <4>2. QED
        BY <2>8, <2>9, <4>1
    <3>2. f \in [0 .. k -> A]
      OBVIOUS
    <3>3. QED
      BY <3>1, <3>2
  <2>11. right = RightOf(right)
    BY <2>10
  <2> HIDE DEF right
  <2>12. right[0] = middle /\ \A n \in 1 .. k : right[n] = PlaceRight(right[n - 1], rule[h + n])
    <3>1. 0 \in 0 .. k /\ \A n \in 1 .. k : n \in 0 .. k /\ n # 0
      BY <2>1
    <3>2. QED
      BY <2>11, <3>1
  <2>13. f[k] = right[k]
    <3>1. \A n \in 1 .. k : f[n - 1] = right[n - 1] => f[n] = right[n]
      BY <2>9, <2>12
    <3>2. f[0] = right[0]
      BY <2>8, <2>12
    <3> HIDE DEF k
    <3>3. QED
      BY <2>1, <3>1, <3>2, RecursionAgrees
  <2>14. k \in 0 .. k
    BY <2>1
  <2>15. QED
    BY <2>13, <2>14
<1>7. QED
  BY <1>1, <1>6 DEF Merges

\* A hash has its elements in some order.
LEMMA HashLists ==
    ASSUME NEW S, IsFiniteSet(S), NEW hash \in SetToSeqs(S)
    PROVE  Lists(hash, S)
<1> DEFINE c == Cardinality(S)
<1>1. c \in Nat /\ IsFiniteSet(1 .. c) /\ Cardinality(1 .. c) = c
  <2>1. c \in Nat
    BY FS_CardinalityType
  <2> HIDE DEF c
  <2>2. QED
    BY <2>1, FS_Interval
<1>2. hash \in [1 .. c -> S] /\ \A i, j \in 1 .. c : hash[i] = hash[j] => i = j
  BY DEF SetToSeqs
<1>3. hash \in Injection(1 .. c, S)
  BY <1>2 DEF Injection, IsInjective
<1>4. hash \in Surjection(1 .. c, S)
  <2>1. Cardinality(1 .. c) = Cardinality(S)
    BY <1>1
  <2> HIDE DEF c
  <2>2. QED
    BY <1>1, <1>3, <2>1, FS_Injection
<1> HIDE DEF c
<1>5. hash \in Seq(S) /\ Len(hash) = c
  BY <1>1, <1>2, SeqDef, LenProperties
<1>6. Distinct(hash)
  BY <1>2, <1>5 DEF Distinct
<1>7. Range(hash) = S
  BY <1>2, <1>4 DEF Surjection, Range
<1>8. QED
  BY <1>5, <1>6, <1>7 DEF Lists

\* Rows one after the other, one for each member of a list.
Rows(o, r) == [i \in DOMAIN o |-> r[o[i]]]

\* The rows of some names, one after the other.
LEMMA RowsType ==
    ASSUME NEW V, NEW o \in Seq(V), NEW M, NEW r \in [V -> Seq(M)]
    PROVE  /\ Rows(o, r) \in Seq(Seq(M)) /\ Len(Rows(o, r)) = Len(o)
           /\ \A i \in 1 .. Len(o) : o[i] \in V /\ Rows(o, r)[i] = r[o[i]]
           /\ FlattenSeq(Rows(o, r)) \in Seq(M)
<1> DEFINE n == Len(o)
           rows == Rows(o, r)
<1>1. DOMAIN o = 1 .. n /\ n \in Nat /\ \A i \in 1 .. n : o[i] \in V
  BY LenProperties, ElementOfSeq
<1> HIDE DEF n
<1>2. rows \in [1 .. n -> Seq(M)] /\ \A i \in 1 .. n : rows[i] = r[o[i]]
  BY <1>1 DEF Rows
<1> HIDE DEF rows
<1>3. rows \in Seq(Seq(M)) /\ Len(rows) = n
  BY <1>1, <1>2, SeqDef, LenProperties
<1>4. FlattenSeq(rows) \in Seq(M)
  BY <1>3, FlattenAppend
<1>5. QED
  BY <1>1, <1>2, <1>3, <1>4 DEF n, rows

\* Their members.
LEMMA RowsMembers ==
    ASSUME NEW V, NEW o \in Seq(V), NEW M, NEW r \in [V -> Seq(M)]
    PROVE  \A x : x \in Range(FlattenSeq(Rows(o, r))) <=> \E v \in Range(o) : x \in Range(r[v])
<1> DEFINE rows == Rows(o, r)
<1>1. /\ rows \in Seq(Seq(M)) /\ Len(rows) = Len(o)
      /\ \A i \in 1 .. Len(o) : o[i] \in V /\ rows[i] = r[o[i]]
  BY RowsType
<1> HIDE DEF rows
<1>2. \A x : x \in Range(FlattenSeq(rows)) <=> \E s \in Range(rows) : x \in Range(s)
  BY <1>1, FlattenMembers
<1>3. \A s : s \in Range(rows) <=> \E i \in 1 .. Len(o) : rows[i] = s
  BY <1>1, RangeIs
<1>4. \A v : v \in Range(o) <=> \E i \in 1 .. Len(o) : o[i] = v
  BY RangeIs
<1>5. \A s : s \in Range(rows) <=> \E v \in Range(o) : s = r[v]
  <2>1. ASSUME NEW s \in Range(rows) PROVE \E v \in Range(o) : s = r[v]
    <3>1. PICK i \in 1 .. Len(o) : rows[i] = s
      BY <1>3
    <3>2. o[i] \in Range(o) /\ s = r[o[i]]
      BY <1>1, <1>4, <3>1
    <3>3. QED
      BY <3>2
  <2>2. ASSUME NEW v \in Range(o) PROVE r[v] \in Range(rows)
    <3>1. PICK i \in 1 .. Len(o) : o[i] = v
      BY <1>4
    <3>2. rows[i] = r[v]
      BY <1>1, <3>1
    <3>3. QED
      BY <1>3, <3>2
  <2>3. QED
    BY <2>1, <2>2
<1>6. QED
  BY <1>2, <1>5 DEF rows

\* Rows without a common member have each member once.
LEMMA RowsDistinct ==
    ASSUME NEW V, NEW o \in Seq(V), Distinct(o), NEW M, NEW r \in [V -> Seq(M)],
           \A v \in Range(o) : Distinct(r[v]),
           \A v, w \in Range(o) : v # w => Range(r[v]) \cap Range(r[w]) = {}
    PROVE  Distinct(FlattenSeq(Rows(o, r)))
<1> DEFINE rows == Rows(o, r)
<1>1. /\ rows \in Seq(Seq(M)) /\ Len(rows) = Len(o)
      /\ \A i \in 1 .. Len(o) : o[i] \in V /\ rows[i] = r[o[i]]
  BY RowsType
<1> HIDE DEF rows
<1>2. \A i \in 1 .. Len(o) : o[i] \in Range(o)
  BY RangeIs
<1>3. \A i, j \in 1 .. Len(o) : i # j => o[i] # o[j]
  BY DEF Distinct
<1>4. \A i \in 1 .. Len(rows) : Distinct(rows[i])
  BY <1>1, <1>2
<1>5. \A i, j \in 1 .. Len(rows) : i # j => Range(rows[i]) \cap Range(rows[j]) = {}
  <2> TAKE i, j \in 1 .. Len(rows)
  <2> HAVE i # j
  <2>1. o[i] \in Range(o) /\ o[j] \in Range(o) /\ o[i] # o[j] /\ rows[i] = r[o[i]] /\ rows[j] = r[o[j]]
    BY <1>1, <1>2, <1>3
  <2>2. QED
    BY <2>1
<1>6. Distinct(FlattenSeq(rows))
  BY <1>1, <1>4, <1>5, FlattenDistinct
<1>7. QED
  BY <1>6 DEF rows

\* The variables in the order of a rule are those of the elements: of all, if no two have one place.
LEMMA OutputsList ==
    ASSUME NEW variable, IsFiniteSet(DOMAIN variable), NEW place, NEW head \in DOMAIN variable,
           variable[head] = "head",
           \A e \in DOMAIN variable : variable[e] \in Variables \cup {"head", Dummy},
           \A e \in DOMAIN variable : place[e] \in Int /\ (place[e] = place[head] => e = head),
           NEW rule, IsOrder(rule), NEW o \in Outputs(variable, place, rule)
    PROVE  \E S \in SUBSET DOMAIN variable :
             /\ Lists(o, {variable[e] : e \in S})
             /\ (\A d, e \in DOMAIN variable : place[d] = place[e] => d = e) => S = DOMAIN variable
<1> DEFINE D == DOMAIN variable
           taken == {place[e] : e \in D}
           places == Ascending(taken)
           keeps == {S \in SUBSET D :
                       {place[e] : e \in S} = taken /\ \A d, e \in S : place[d] = place[e] => d = e}
           Source(S) == [i \in DOMAIN places |-> variable[CHOOSE e \in S : place[e] = places[i]]]
<1>1. PICK S \in keeps : o = MergeArrays(Uniq(Source(S)), rule)
  BY DEF Outputs
<1>2. /\ S \subseteq D
      /\ {place[e] : e \in S} = taken
      /\ \A d, e \in S : place[d] = place[e] => d = e
  OBVIOUS
<1>3. \A e \in D : \E d \in S : place[d] = place[e]
  <2> TAKE e \in D
  <2>1. place[e] \in taken
    OBVIOUS
  <2>2. place[e] \in {place[d] : d \in S}
    BY <1>2, <2>1
  <2>3. QED
    BY <2>2
<1>4. head \in S
  BY <1>2, <1>3
<1>5. taken \subseteq Int /\ IsFiniteSet(taken)
  <2> DEFINE f == [e \in D |-> place[e]]
  <2>1. f \in Surjection(D, taken)
    BY DEF Surjection
  <2>2. taken \subseteq Int
    OBVIOUS
  <2> HIDE DEF f, taken
  <2>3. IsFiniteSet(taken)
    BY <2>1, FS_Surjection
  <2>4. QED
    BY <2>2, <2>3
<1>6. Lists(places, taken)
  <2> HIDE DEF taken
  <2> QED BY <1>5, AscendingIs
<1> DEFINE V == {variable[e] : e \in S}
           source == Source(S)
<1>10. source \in Seq(V) /\ Range(source) = V
  <2> DEFINE n == Len(places)
  <2>1. DOMAIN places = 1 .. n /\ n \in Nat /\ \A x : x \in taken <=> \E i \in 1 .. n : places[i] = x
    <3> HIDE DEF taken, places
    <3> QED BY <1>6, LenProperties, RangeIs DEF Lists
  <2> HIDE DEF n, places
  <2> DEFINE at(i) == CHOOSE e \in S : place[e] = places[i]
  <2>2. \A i \in 1 .. n : at(i) \in S /\ place[at(i)] = places[i]
    <3> TAKE i \in 1 .. n
    <3>1. places[i] \in taken
      BY <2>1
    <3>2. \E e \in S : place[e] = places[i]
      BY <1>2, <3>1
    <3>3. QED
      BY <3>2
  <2>3. \A i \in 1 .. n : source[i] = variable[at(i)] /\ source[i] \in V
    BY <2>1, <2>2
  <2>4. DOMAIN source = 1 .. n
    BY <2>1
  <2>5. source \in [1 .. n -> V]
    <3>1. source = [i \in 1 .. n |-> variable[at(i)]]
      BY <2>1
    <3> HIDE DEF source, V
    <3>2. QED
      BY <2>3, <3>1
  <2>6. \A e \in S : \E i \in 1 .. n : at(i) = e
    <3> TAKE e \in S
    <3>1. place[e] \in taken
      BY <1>2
    <3>2. PICK i \in 1 .. n : places[i] = place[e]
      BY <2>1, <3>1
    <3>3. at(i) = e
      BY <1>2, <2>2, <3>2
    <3>4. QED
      BY <3>3
  <2> HIDE DEF source, at
  <2>7. V \subseteq Range(source)
    BY <2>3, <2>4, <2>6 DEF Range
  <2> HIDE DEF V
  <2>8. source \in Seq(V) /\ Range(source) \subseteq V
    <3>1. source \in Seq(V)
      BY <2>1, <2>5, SeqDef
    <3>2. QED
      BY <3>1, ElementsAre
  <2>9. QED
    BY <2>7, <2>8
<1> HIDE DEF source
<1>11. Lists(o, V)
  <2>1. Lists(Uniq(source), V)
    <3> HIDE DEF V
    <3> QED BY <1>10, UniqLists
  <2>2. "head" \in V /\ V \subseteq Variables \cup {"head", Dummy}
    BY <1>2, <1>4
  <2> HIDE DEF V
  <2>3. Lists(MergeArrays(Uniq(source), rule), V)
    BY <2>1, <2>2, MergeLists
  <2>4. QED
    BY <1>1, <2>3 DEF source
<1>12. ASSUME \A d, e \in D : place[d] = place[e] => d = e PROVE S = D
  <2>1. ASSUME NEW e \in D PROVE e \in S
    <3>1. PICK d \in S : place[d] = place[e]
      BY <1>3
    <3>2. d = e
      BY <1>2, <1>12, <3>1
    <3>3. QED
      BY <3>2
  <2>2. QED
    BY <1>2, <2>1
<1>13. QED
  BY <1>2, <1>11, <1>12

Arrangeable(C, children, head, var, place) ==
    /\ Lists(children, C) /\ head \notin C
    /\ \A e \in C : var[e] \in Variables \cup {Dummy}
    /\ \A e \in C \cup {head} : place[e] \in Int
    /\ \A e \in C : place[e] # place[head]
Apart(S, place) == \A d, e \in S : place[d] = place[e] => d = e

\* What a rule arranges are the head and its children: all of them, if no two have one place.
LEMMA ArrangementsList ==
    ASSUME NEW C, NEW children, NEW head, NEW var, NEW place, Arrangeable(C, children, head, var, place),
           NEW rule, IsOrder(rule),
           NEW s \in Arrangements(head, children, var, place, rule)
    PROVE  /\ s \in Seq(C \cup {head})
           /\ Apart(C, place) => Lists(s, C \cup {head})
<1>a. /\ Lists(children, C) /\ head \notin C
      /\ \A e \in C : var[e] \in Variables \cup {Dummy} /\ var[e] # "head"
      /\ \A e \in C \cup {head} : place[e] \in Int
      /\ \A e \in C : place[e] # place[head]
  <2>1. "head" \notin Variables /\ "head" # Dummy
    BY TreeAssumption DEF Dummy
  <2>2. QED
    BY <2>1 DEF Arrangeable
<1> DEFINE M == C \cup {head}
           all == <<head>> \o children
           variable == [e \in M |-> IF e = head THEN "head" ELSE var[e]]
           loose == Loose(children, var, place)
           placed == {e \in M : variable[e] = Dummy => e \in loose}
           known == [e \in placed |-> variable[e]]
           Row(v, hash) == IF v = Dummy THEN hash ELSE Only(all, {e \in DOMAIN variable : variable[e] = v})
<1>1. Lists(all, M) /\ ToSet(all) = M /\ IsFiniteSet(M)
  <2> USE <1>a
  <2> DEFINE one == <<head>>
  <2>1. Lists(one, {head})
    BY OneMember
  <2>2. children \in Seq(C) /\ Range(children) = C /\ Distinct(children)
    BY DEF Lists
  <2>3. one \in Seq(M) /\ children \in Seq(M) /\ Range(one) = {head} /\ Distinct(one)
    <3>1. Seq({head}) \subseteq Seq(M) /\ Seq(C) \subseteq Seq(M)
      BY SeqMonotonic
    <3>2. QED
      BY <2>1, <2>2, <3>1 DEF Lists
  <2> HIDE DEF one, M
  <2>4. Cat(one, children) \in Seq(M)
    BY <2>3, CatLaws
  <2>5. Range(Cat(one, children)) = {head} \cup C
    BY <2>2, <2>3, RangeCat
  <2>6. Distinct(Cat(one, children))
    <3>1. Range(one) \cap Range(children) = {}
      BY <2>2, <2>3
    <3>2. QED
      BY <2>2, <2>3, <3>1, CatDistinct
  <2>7. Lists(all, M)
    BY <2>4, <2>5, <2>6 DEF Lists, Cat, one, M
  <2> HIDE DEF all
  <2>8. QED
    BY <2>7, ListsLength, ElementsAre DEF Lists
<1>2. \E o \in Outputs(known, place, rule), hash \in SetToSeqs(loose) :
        s = FlattenSeq([i \in DOMAIN o |-> Row(o[i], hash)])
  <2> HIDE DEF M
  <2> DEFINE variable2 == [e \in ToSet(all) |-> IF e = head THEN "head" ELSE var[e]]
             placed2 == {e \in ToSet(all) : variable2[e] = Dummy => e \in loose}
             known2 == [e \in placed2 |-> variable2[e]]
  <2>1. variable2 = variable
    BY <1>1
  <2>2. placed2 = placed
    BY <1>1, <2>1
  <2>3. known2 = known
    BY <2>1, <2>2
  <2>4. \E o \in Outputs(known2, place, rule), hash \in SetToSeqs(loose) : s = Arranged(o, hash, all, variable2)
    BY DEF Arrangements
  <2> HIDE DEF known2, variable2, known, variable
  <2>5. PICK o \in Outputs(known, place, rule), hash \in SetToSeqs(loose) : s = Arranged(o, hash, all, variable)
    BY <2>1, <2>3, <2>4
  <2>6. s = FlattenSeq([i \in DOMAIN o |-> Row(o[i], hash)])
    BY <2>5 DEF Arranged
  <2> HIDE DEF Row
  <2>7. QED
    BY <2>5, <2>6
<1> HIDE DEF Row
<1> USE <1>a
<1>3. loose \subseteq {e \in C : var[e] = Dummy} /\ IsFiniteSet(loose)
  <2>1. DOMAIN children = 1 .. Len(children) /\ \A j \in 1 .. Len(children) : children[j] \in C
    BY LenProperties, ElementOfSeq DEF Lists
  <2>2. loose \subseteq {e \in C : var[e] = Dummy}
    BY <2>1 DEF Loose
  <2>3. loose \in SUBSET M
    BY <2>2
  <2> HIDE DEF loose, M
  <2>4. IsFiniteSet(loose)
    BY <1>1, <2>3, FS_Subset
  <2>5. QED
    BY <2>2, <2>4
<1> HIDE DEF loose, all
<1>4. PICK o \in Outputs(known, place, rule), hash \in SetToSeqs(loose) :
        s = FlattenSeq([i \in DOMAIN o |-> Row(o[i], hash)])
  BY <1>2
<1>5. Lists(hash, loose)
  BY <1>3, HashLists
<1>6. /\ variable[head] = "head"
      /\ \A e \in C : variable[e] = var[e] /\ variable[e] # "head"
      /\ head \in placed /\ placed \in SUBSET M
  BY DEF Dummy
<1>7. PICK S \in SUBSET placed :
        /\ Lists(o, {known[e] : e \in S})
        /\ (\A d, e \in placed : place[d] = place[e] => d = e) => S = placed
  <2>1. /\ known[head] = "head" /\ DOMAIN known = placed
        /\ \A e \in placed : known[e] \in Variables \cup {"head", Dummy}
    <3>1. \A e \in M : variable[e] \in Variables \cup {"head", Dummy}
      OBVIOUS
    <3> HIDE DEF variable
    <3>2. QED
      BY <1>6, <3>1
  <2>2. /\ \A e \in placed : place[e] \in Int
        /\ \A e \in placed : place[e] = place[head] => e = head
    OBVIOUS
  <2>3. IsFiniteSet(placed)
    <3> HIDE DEF placed, M
    <3> QED BY <1>1, <1>6, FS_Subset
  <2> HIDE DEF known, placed
  <2>4. \E S \in SUBSET DOMAIN known :
          /\ Lists(o, {known[e] : e \in S})
          /\ (\A d, e \in DOMAIN known : place[d] = place[e] => d = e) => S = DOMAIN known
    BY <1>6, <2>1, <2>2, <2>3, OutputsList
  <2>5. QED
    BY <2>1, <2>4
<1> DEFINE V == {known[e] : e \in S}
           r == [v \in V |-> Row(v, hash)]
           rows == Rows(o, r)
           Of(v) == {e \in M : variable[e] = v}
<1>11. Lists(o, V)
  BY <1>7
<1>12. \A v : v # Dummy => Lists(Row(v, hash), Of(v))
  <2> TAKE v
  <2> HAVE v # Dummy
  <2>1. Row(v, hash) = Only(all, Of(v))
    <3>1. {e \in DOMAIN variable : variable[e] = v} = Of(v)
      OBVIOUS
    <3> HIDE DEF Of, variable
    <3>2. QED
      BY <3>1 DEF Row
  <2>2. M \cap Of(v) = Of(v)
    OBVIOUS
  <2> HIDE DEF M, Of
  <2>3. Lists(Only(all, Of(v)), M \cap Of(v))
    BY <1>1, OnlyLists
  <2>4. QED
    BY <2>1, <2>2, <2>3
<1>13. Row(Dummy, hash) = hash
  BY DEF Row
<1>14. r \in [V -> Seq(M)] /\ \A v \in V : r[v] = Row(v, hash)
  <2>1. \A S1 : \A q : Lists(q, S1) /\ S1 \subseteq M => q \in Seq(M)
    <3> TAKE S1, q
    <3> HAVE Lists(q, S1) /\ S1 \subseteq M
    <3>1. q \in Seq(S1) /\ Seq(S1) \subseteq Seq(M)
      BY SeqMonotonic DEF Lists
    <3>2. QED
      BY <3>1
  <2>2. \A v : Of(v) \subseteq M
    OBVIOUS
  <2>3. loose \subseteq M
    BY <1>3
  <2> HIDE DEF M, Of, V
  <2>4. \A v \in V : Row(v, hash) \in Seq(M)
    <3> TAKE v \in V
    <3>1. CASE v = Dummy
      BY <1>5, <1>13, <2>1, <2>3, <3>1
    <3>2. CASE v # Dummy
      BY <1>12, <2>1, <2>2, <3>2
    <3>3. QED
      BY <3>1, <3>2
  <2>5. QED
    BY <2>4
<1>15. s = FlattenSeq(rows) /\ o \in Seq(V) /\ Range(o) = V /\ Distinct(o)
  <2>1. o \in Seq(V) /\ Range(o) = V /\ Distinct(o)
    BY <1>11 DEF Lists
  <2> HIDE DEF V
  <2>2. \A i \in DOMAIN o : o[i] \in V
    BY <2>1 DEF Range
  <2> HIDE DEF r
  <2>3. \A i \in DOMAIN o : r[o[i]] = Row(o[i], hash)
    BY <1>14, <2>2
  <2>4. rows = [i \in DOMAIN o |-> Row(o[i], hash)]
    BY <2>3 DEF Rows
  <2>5. QED
    BY <1>4, <2>1, <2>4
<1>16. s \in Seq(M)
  <2> HIDE DEF V, M, r
  <2>1. FlattenSeq(Rows(o, r)) \in Seq(M)
    BY <1>14, <1>15, RowsType
  <2>2. QED
    BY <1>15, <2>1
<1>17. ASSUME \A d, e \in C : place[d] = place[e] => d = e
       PROVE  Lists(s, M)
  <2>1. \A d, e \in M : place[d] = place[e] => d = e
    BY <1>17
  <2>2. loose = {e \in C : var[e] = Dummy}
    <3>1. ASSUME NEW e \in C, var[e] = Dummy PROVE e \in loose
      <4>1. DOMAIN children = 1 .. Len(children) /\ Len(children) \in Nat /\ \E j \in 1 .. Len(children) : children[j] = e
        BY LenProperties, RangeIs DEF Lists
      <4>2. PICK j \in 1 .. Len(children) : children[j] = e
        BY <4>1
      <4>3. \A k \in DOMAIN children : k > j => place[children[k]] # place[children[j]]
        <5> SUFFICES ASSUME NEW k \in 1 .. Len(children), k > j, place[children[k]] = place[children[j]] PROVE FALSE
          BY <4>1
        <5>1. children[k] \in C /\ children[j] \in C
          BY ElementOfSeq DEF Lists
        <5>2. children[k] = children[j]
          BY <1>17, <5>1
        <5>3. k = j
          BY <4>2, <5>2 DEF Lists, Distinct
        <5>4. QED
          BY <5>3
      <4>4. QED
        BY <3>1, <4>1, <4>2, <4>3 DEF loose, Loose
    <3>2. QED
      BY <1>3, <3>1
  <2>3. placed = M
    BY <1>6, <2>2
  <2>4. S = M
    <3> HIDE DEF placed
    <3> QED BY <1>7, <2>1, <2>3
  <2>5. \A v : Lists(Row(v, hash), Of(v))
    <3>1. Of(Dummy) = loose
      BY <1>6, <2>2 DEF Dummy
    <3> HIDE DEF Of
    <3>2. QED
      BY <1>5, <1>12, <1>13, <3>1
  <2>6. \A v \in V : Distinct(r[v]) /\ Range(r[v]) = Of(v)
    BY <1>14, <2>5 DEF Lists
  <2>7. Distinct(FlattenSeq(Rows(o, r)))
    <3>1. \A v, w : v # w => Of(v) \cap Of(w) = {}
      OBVIOUS
    <3> HIDE DEF Of, V, r, M
    <3>2. \A v, w \in Range(o) : v # w => Range(r[v]) \cap Range(r[w]) = {}
      BY <1>15, <2>6, <3>1
    <3>3. \A v \in Range(o) : Distinct(r[v])
      BY <1>15, <2>6
    <3>4. QED
      BY <1>14, <1>15, <3>2, <3>3, RowsDistinct
  <2>8. Range(FlattenSeq(Rows(o, r))) = M
    <3>1. \A e \in M : variable[e] \in V /\ e \in Of(variable[e])
      <4> TAKE e \in M
      <4>1. e \in S /\ known[e] = variable[e]
        BY <2>3, <2>4
      <4> HIDE DEF known, variable, M
      <4>2. QED
        BY <4>1
    <3>2. \A v : Of(v) \subseteq M
      OBVIOUS
    <3> HIDE DEF V, r, Of, variable, M
    <3>3. \A x : x \in Range(FlattenSeq(Rows(o, r))) <=> \E v \in Range(o) : x \in Range(r[v])
      BY <1>14, <1>15, RowsMembers
    <3> DEFINE flat == FlattenSeq(Rows(o, r))
    <3>4. \A x : x \in Range(flat) <=> \E v \in V : x \in Of(v)
      BY <1>15, <2>6, <3>3
    <3> HIDE DEF flat
    <3>5. \A x : x \in Range(flat) => x \in M
      BY <3>2, <3>4
    <3>6. \A x : x \in M => x \in Range(flat)
      BY <3>1, <3>4
    <3>7. Range(flat) = M
      BY <3>5, <3>6
    <3>8. QED
      BY <3>7 DEF flat
  <2>9. QED
    BY <1>15, <1>16, <2>7, <2>8 DEF Lists
<1>18. QED
  BY <1>16, <1>17 DEF Apart

(***************************************************************************)
(* Walks.                                                                  *)
(***************************************************************************)
Ranks(S, family, h, N) ==
    /\ N \in Nat /\ h \in [S -> 0 .. N] /\ family \in [S -> Seq(S)]
    /\ \A d \in S : \A x \in Range(family[d]) : x = d \/ h[x] < h[d]

\* What passes up from all elements of lower rank is true of all.
LEMMA RankInduction ==
    ASSUME NEW S, NEW h \in [S -> Nat], NEW G,
           \A d \in S : (\A x \in S : h[x] < h[d] => x \in G) => d \in G
    PROVE  S \subseteq G
<1> DEFINE K == {n \in Nat : \A d \in S : h[d] < n => d \in G}
<1>1. 0 \in K
  OBVIOUS
<1>2. ASSUME NEW n \in Nat, n \in K PROVE n + 1 \in K
  <2>1. ASSUME NEW d \in S, h[d] < n + 1 PROVE d \in G
    <3>1. \A x \in S : h[x] < h[d] => h[x] < n
      BY <2>1
    <3>2. \A x \in S : h[x] < h[d] => x \in G
      BY <1>2, <3>1
    <3>3. QED
      BY <3>2
  <2>2. QED
    BY <2>1
<1>3. Nat \subseteq K
  <2> HIDE DEF K
  <2> QED BY <1>1, <1>2, SetInduction
<1>4. ASSUME NEW d \in S PROVE d \in G
  <2>1. h[d] + 1 \in K /\ h[d] < h[d] + 1
    BY <1>3
  <2>2. QED
    BY <2>1
<1>5. QED
  BY <1>4

\* What passes down from all elements of higher rank is true of all.
LEMMA RankInductionUp ==
    ASSUME NEW S, NEW N \in Nat, NEW h \in [S -> 0 .. N], NEW G,
           \A d \in S : (\A x \in S : h[d] < h[x] => x \in G) => d \in G
    PROVE  S \subseteq G
<1> DEFINE k == [d \in S |-> N - h[d]]
<1>1. k \in [S -> Nat] /\ \A d, x \in S : k[x] < k[d] <=> h[d] < h[x]
  <2>1. \A d \in S : N - h[d] \in Nat
    OBVIOUS
  <2>2. \A d, x \in S : N - h[x] < N - h[d] <=> h[d] < h[x]
    OBVIOUS
  <2>3. QED
    BY <2>1, <2>2
<1> HIDE DEF k
<1>2. \A d \in S : (\A x \in S : k[x] < k[d] => x \in G) => d \in G
  BY <1>1
<1>3. QED
  BY <1>1, <1>2, RankInduction

\* What a walk has of an element, from what it has of others.
Piece(S, r, d) == [x \in S |-> IF x = d THEN <<d>> ELSE r[x]]
Pieced(S, family, r, d) == FlattenSeq(Rows(family[d], Piece(S, r, d)))

WalkRow(own, d, r) ==
    LET upTo[n \in 0 .. Len(own)] ==
            IF n = 0 THEN <<>>
            ELSE upTo[n - 1] \o (IF own[n] = d THEN <<d>> ELSE r[own[n]])
    IN  upTo[Len(own)]

RowFits(own, d, r, g) == \A x \in Range(own) : g[x] = IF x = d THEN <<d>> ELSE r[x]

\* The inner recursion of a walk puts the rows of a family one after the other.
LEMMA UpToIs ==
    ASSUME NEW S, NEW own \in Seq(S), NEW d, NEW r, NEW g \in [S -> Seq(S)],
           RowFits(own, d, r, g)
    PROVE  WalkRow(own, d, r) = FlattenSeq(Rows(own, g))
<1> DEFINE k == Len(own)
           A == Seq(S)
           Body(u) == [n \in 0 .. Len(own) |->
                         IF n = 0 THEN <<>>
                         ELSE u[n - 1] \o (IF own[n] = d THEN <<d>> ELSE r[own[n]])]
           upTo == CHOOSE u : u = Body(u)
           ss == Rows(own, g)
           step == [n \in 1 .. k |-> [q \in A |-> Cat(q, ss[n])]]
<1>1. k \in Nat /\ ss \in Seq(Seq(S)) /\ Len(ss) = k /\ \A n \in 1 .. k : own[n] \in S /\ ss[n] = g[own[n]]
  BY LenProperties, RowsType
<1>2. \A n \in 1 .. k : ss[n] \in A /\ ss[n] = IF own[n] = d THEN <<d>> ELSE r[own[n]]
  BY <1>1, RangeIs DEF RowFits
<1> HIDE DEF ss
<1>2a. \A q : \A n \in 1 .. k : q \o (IF own[n] = d THEN <<d>> ELSE r[own[n]]) = Cat(q, ss[n])
  BY <1>2, Zenon DEF Cat
<1>3. step \in [1 .. k -> [A -> A]]
  <2>1. \A n \in 1 .. k : \A q \in A : Cat(q, ss[n]) \in A
    BY <1>2, CatLaws
  <2> HIDE DEF A, k
  <2>2. QED
    BY <2>1
<1>4. <<>> \in A
  BY CatLaws
<1>5. PICK u \in [0 .. k -> A] : Follows(u, <<>>, k, step)
  <2> HIDE DEF step, A, k
  <2> QED BY <1>1, <1>3, <1>4, RecursionExists
<1>6. u[0] = <<>> /\ \A n \in 1 .. k : n - 1 \in 0 .. k /\ u[n] = Cat(u[n - 1], ss[n])
  <2>1. \A n \in 1 .. k : n - 1 \in 0 .. k
    BY <1>1
  <2> HIDE DEF k
  <2>2. QED
    BY <1>5, <2>1 DEF Follows
<1>7. u = Body(u)
  <2>1. \A n \in 0 .. k : u[n] = IF n = 0 THEN <<>>
                                 ELSE u[n - 1] \o (IF own[n] = d THEN <<d>> ELSE r[own[n]])
    <3>1. \A n \in 0 .. k : n = 0 \/ n \in 1 .. k
      BY <1>1
    <3> HIDE DEF k
    <3>2. QED
      BY <1>2a, <1>6, <3>1
  <2>2. QED
    BY <2>1
<1>8. upTo = Body(upTo)
  BY <1>7
<1> HIDE DEF upTo
<1>9. upTo[0] = <<>> /\ \A n \in 1 .. k : upTo[n] = Cat(upTo[n - 1], ss[n])
  <2>1. 0 \in 0 .. k /\ \A n \in 1 .. k : n \in 0 .. k /\ n # 0
    BY <1>1
  <2> HIDE DEF k
  <2>2. \A n \in 0 .. k : upTo[n] = IF n = 0 THEN <<>>
                                    ELSE upTo[n - 1] \o (IF own[n] = d THEN <<d>> ELSE r[own[n]])
    BY <1>8 DEF k
  <2>3. QED
    BY <1>2a, <2>1, <2>2
<1>10. upTo[k] = FlattenSeq(ss)
  <2>1. CASE k = 0
    <3>1. ss = <<>>
      BY <1>1, <2>1, EmptySeq
    <3>2. QED
      BY <1>9, <2>1, <3>1, FlattenEmpty
  <2>2. CASE k # 0
    <3>1. 1 \in 1 .. k /\ \A n \in 2 .. k : n \in 1 .. k
      BY <1>1, <2>2
    <3>2. upTo[1] = ss[1]
      <4>1. upTo[1] = Cat(<<>>, ss[1])
        BY <1>9, <3>1
      <4>2. QED
        BY <1>2, <3>1, <4>1, CatLaws
    <3>3. \A n \in 2 .. k : upTo[n] = Cat(upTo[n - 1], ss[n])
      BY <1>9, <3>1
    <3>4. Joins(ss, Len(ss), upTo)
      <4>1. \A n \in 1 .. k : n = 1 \/ n \in 2 .. k
        BY <1>1
      <4> HIDE DEF k
      <4>2. QED
        BY <1>1, <3>2, <3>3, <4>1 DEF Joins
    <3>5. ss # <<>>
      BY <1>1, <2>2, EmptySeq
    <3> HIDE DEF k
    <3>6. FlattenSeq(ss) = upTo[Len(ss)]
      BY <1>1, <3>4, <3>5, FlattenIs
    <3>7. QED
      BY <1>1, <3>6
  <2>3. QED
    BY <2>1, <2>2
<1>11. QED
  BY <1>10 DEF upTo, ss, WalkRow

\* The recursion of a walk ends: there is one function that it defines.
LEMMA WalkIs ==
    ASSUME NEW S, NEW family, NEW h, NEW N, Ranks(S, family, h, N)
    PROVE  \E r \in [S -> Seq(S)] : \A d \in S : r[d] = Pieced(S, family, r, d) /\ Walk(family, d) = r[d]
<1>1. /\ N \in Nat /\ h \in [S -> 0 .. N] /\ h \in [S -> Nat]
      /\ family \in [S -> Seq(S)] /\ DOMAIN family = S
      /\ \A d \in S : \A x \in Range(family[d]) : x \in S /\ (x = d \/ h[x] < h[d])
  <2>1. \A d \in S : Range(family[d]) \subseteq S
    BY ElementsAre DEF Ranks
  <2>2. 0 .. N \subseteq Nat
    BY DEF Ranks
  <2>3. QED
    BY <2>1, <2>2 DEF Ranks
<1>2. ASSUME NEW r \in [S -> Seq(S)], NEW d \in S
      PROVE  /\ Piece(S, r, d) \in [S -> Seq(S)]
             /\ Pieced(S, family, r, d) \in Seq(S)
  <2>1. <<d>> \in Seq(S)
    OBVIOUS
  <2>2. Piece(S, r, d) \in [S -> Seq(S)]
    BY <2>1, Zenon DEF Piece
  <2>3. FlattenSeq(Rows(family[d], Piece(S, r, d))) \in Seq(S)
    BY <1>1, <2>2, RowsType
  <2>4. QED
    BY <2>2, <2>3 DEF Pieced
\* The rows of what is below are all that counts.
<1>3. ASSUME NEW r \in [S -> Seq(S)], NEW q \in [S -> Seq(S)], NEW d \in S,
             \A x \in S : h[x] < h[d] => r[x] = q[x]
      PROVE  Pieced(S, family, r, d) = Pieced(S, family, q, d)
  <2> DEFINE own == family[d]
             a == Piece(S, r, d)
             b == Piece(S, q, d)
  <2>1. \A x \in Range(own) : a[x] = b[x]
    BY <1>1, <1>3 DEF Piece
  <2>2. \A i \in DOMAIN own : own[i] \in Range(own)
    BY DEF Range
  <2> HIDE DEF own, a, b
  <2>3. Rows(own, a) = Rows(own, b)
    BY <2>1, <2>2 DEF Rows
  <2>4. QED
    BY <2>3 DEF Pieced, own, a, b
<1> DEFINE Right2(n) == \E r \in [S -> Seq(S)] : \A d \in S : h[d] < n => r[d] = Pieced(S, family, r, d)
           G == {n \in Nat : Right2(n)}
<1>4. 0 \in G
  <2> DEFINE r == [d \in S |-> <<>>]
  <2>1. r \in [S -> Seq(S)]
    BY CatLaws
  <2>2. \A d \in S : ~(h[d] < 0)
    BY <1>1
  <2> HIDE DEF r
  <2>3. QED
    BY <2>1, <2>2
<1>5. ASSUME NEW n \in Nat, n \in G PROVE n + 1 \in G
  <2>1. PICK r \in [S -> Seq(S)] : \A d \in S : h[d] < n => r[d] = Pieced(S, family, r, d)
    BY <1>5
  <2> DEFINE q == [d \in S |-> IF h[d] = n THEN Pieced(S, family, r, d) ELSE r[d]]
  <2>2. q \in [S -> Seq(S)] /\ \A d \in S : q[d] = IF h[d] = n THEN Pieced(S, family, r, d) ELSE r[d]
    BY <1>2
  <2> HIDE DEF q
  <2>3. ASSUME NEW d \in S, h[d] < n + 1 PROVE q[d] = Pieced(S, family, q, d)
    <3>1. \A x \in S : h[x] < h[d] => h[x] < n /\ h[x] # n
      BY <1>1, <2>3
    <3>2. \A x \in S : h[x] < h[d] => r[x] = q[x]
      BY <2>2, <3>1
    <3>3. Pieced(S, family, r, d) = Pieced(S, family, q, d)
      BY <1>3, <2>2, <3>2
    <3>4. h[d] < n \/ h[d] = n
      BY <1>1, <2>3
    <3>5. QED
      BY <2>1, <2>2, <3>3, <3>4
  <2>4. QED
    BY <2>2, <2>3
<1>6. N + 1 \in G
  <2>1. Nat \subseteq G
    <3> HIDE DEF G
    <3> QED BY <1>4, <1>5, SetInduction
  <2>2. N + 1 \in Nat
    BY <1>1
  <2> HIDE DEF G
  <2>3. QED
    BY <2>1, <2>2
<1>7. PICK r \in [S -> Seq(S)] : \A d \in S : r[d] = Pieced(S, family, r, d)
  <2>1. \A d \in S : h[d] < N + 1
    BY <1>1
  <2>2. QED
    BY <1>6, <2>1
<1> DEFINE Body(f) == [d \in DOMAIN family |-> WalkRow(family[d], d, f)]
           row == CHOOSE f : f = Body(f)
<1>8. \A e \in S : Walk(family, e) = row[e]
  BY DEF Walk, WalkRow
<1>9. ASSUME NEW f, NEW d \in S, \A x \in S : h[x] < h[d] => f[x] = r[x]
      PROVE  WalkRow(family[d], d, f) = r[d]
  <2> DEFINE own == family[d]
             g == Piece(S, r, d)
  <2>1. own \in Seq(S) /\ g \in [S -> Seq(S)]
    BY <1>1, <1>2
  <2>2. RowFits(own, d, f, g)
    BY <1>1, <1>9, Zenon DEF Piece, RowFits
  <2>3. r[d] = FlattenSeq(Rows(own, g))
    BY <1>7 DEF Pieced
  <2> HIDE DEF own, g
  <2>4. WalkRow(own, d, f) = FlattenSeq(Rows(own, g))
    <3>1. own \in Seq(S)
      BY <2>1
    <3>2. g \in [S -> Seq(S)]
      BY <2>1
    <3>3. QED
      BY <2>2, <3>1, <3>2, UpToIs
  <2>5. QED
    BY <2>3, <2>4 DEF own
<1>10. r = Body(r)
  <2>1. \A d \in S : WalkRow(family[d], d, r) = r[d]
    BY <1>9
  <2>2. QED
    BY <1>1, <2>1
<1>11. row = Body(row)
  BY <1>10
<1> HIDE DEF row
<1>12. \A d \in S : row[d] = WalkRow(family[d], d, row)
  BY <1>1, <1>11
<1> DEFINE H == {d \in S : row[d] = r[d]}
<1>13. S \subseteq H
  <2>1. ASSUME NEW d \in S, \A x \in S : h[x] < h[d] => x \in H PROVE d \in H
    <3>1. \A x \in S : h[x] < h[d] => row[x] = r[x]
      BY <2>1
    <3>2. WalkRow(family[d], d, row) = r[d]
      BY <1>9, <3>1
    <3>3. QED
      BY <1>12, <3>2
  <2>2. \A d \in S : (\A x \in S : h[x] < h[d] => x \in H) => d \in H
    BY <2>1
  <2>3. h \in [S -> Nat]
    BY <1>1
  <2> HIDE DEF H
  <2>4. QED
    BY <2>2, <2>3, RankInduction
<1>14. QED
  BY <1>7, <1>8, <1>13

\* What is below an element is below one of its family.
LEMMA WalkMembers ==
    ASSUME NEW S, NEW family, NEW h, NEW N, Ranks(S, family, h, N)
    PROVE  \A d \in S :
             /\ Walk(family, d) \in Seq(S)
             /\ \A x : x \in Range(Walk(family, d)) <=>
                         \E v \in Range(family[d]) : IF v = d THEN x = d ELSE x \in Range(Walk(family, v))
<1>1. PICK r \in [S -> Seq(S)] : \A d \in S : r[d] = Pieced(S, family, r, d) /\ Walk(family, d) = r[d]
  BY WalkIs
<1>2. TAKE d \in S
<1> DEFINE own == family[d]
           g == Piece(S, r, d)
<1>3. own \in Seq(S) /\ Range(own) \subseteq S
  BY ElementsAre DEF Ranks
<1>4. g \in [S -> Seq(S)]
  <2>1. <<d>> \in Seq(S)
    OBVIOUS
  <2>2. QED
    BY <2>1, Zenon DEF Piece
<1>5. \A v \in S : Range(g[v]) = IF v = d THEN {d} ELSE Range(r[v])
  <2>1. Range(<<d>>) = {d}
    BY OneMember DEF Lists
  <2>2. QED
    BY <2>1, Zenon DEF Piece
<1>6. r[d] = FlattenSeq(Rows(own, g))
  BY <1>1 DEF Pieced
<1> HIDE DEF own, g
<1>7. \A x : x \in Range(FlattenSeq(Rows(own, g))) <=> \E v \in Range(own) : x \in Range(g[v])
  BY <1>3, <1>4, RowsMembers
<1>8. \A x : x \in Range(r[d]) <=> \E v \in Range(own) : IF v = d THEN x = d ELSE x \in Range(r[v])
  BY <1>3, <1>5, <1>6, <1>7
<1>9. \A v \in S : Walk(family, v) = r[v]
  BY <1>1
<1>10. \A x : x \in Range(Walk(family, d)) <=>
                \E v \in Range(own) : IF v = d THEN x = d ELSE x \in Range(Walk(family, v))
  BY <1>3, <1>8, <1>9
<1>11. QED
  BY <1>9, <1>10 DEF own

(***************************************************************************)
(* Families that have their head: a family tree, in which who is below an  *)
(* element is the element itself or below it in rank.                      *)
(***************************************************************************)
Heads(S, family) == \A d \in S : d \in Range(family[d])
Below(family, d) == Range(Walk(family, d))
OneParent(S, family) ==
    \A p, q \in S : \A x : x \in Range(family[p]) /\ x \in Range(family[q]) /\ x # p /\ x # q => p = q

\* Below an element are itself and what is below its family.
LEMMA BelowIs ==
    ASSUME NEW S, NEW family, NEW h, NEW N, Ranks(S, family, h, N), Heads(S, family)
    PROVE  \A d \in S :
             /\ Walk(family, d) \in Seq(S)
             /\ Below(family, d) \subseteq S
             /\ d \in Below(family, d)
             /\ \A x : x \in Below(family, d) <=>
                         x = d \/ \E v \in Range(family[d]) : v # d /\ x \in Below(family, v)
             /\ \A v \in Range(family[d]) : v \in S /\ v \in Below(family, v) /\ v \in Below(family, d)
             /\ \A v \in Range(family[d]) : v # d => h[v] < h[d]
<1>1. ASSUME NEW d \in S
      PROVE  /\ Walk(family, d) \in Seq(S)
             /\ Below(family, d) \subseteq S
             /\ \A x : x \in Below(family, d) <=>
                         x = d \/ \E v \in Range(family[d]) : v # d /\ x \in Below(family, v)
  <2>1. Walk(family, d) \in Seq(S)
    BY WalkMembers
  <2>2. \A x : x \in Range(Walk(family, d)) <=>
                 \E v \in Range(family[d]) : IF v = d THEN x = d ELSE x \in Range(Walk(family, v))
    BY WalkMembers
  <2>3. d \in Range(family[d])
    BY DEF Heads
  <2>4. QED
    BY <2>1, <2>2, <2>3, ElementsAre DEF Below
<1>2. \A d \in S : d \in Below(family, d)
  BY <1>1
<1>3. \A d \in S : \A v \in Range(family[d]) : v \in S /\ (v # d => h[v] < h[d])
  BY ElementsAre DEF Ranks
<1>4. \A d \in S : \A v \in Range(family[d]) : v \in Below(family, d)
  BY <1>1, <1>2, <1>3
<1>5. QED
  BY <1>1, <1>2, <1>3, <1>4

\* What is below an element has a lower rank.
LEMMA BelowRank ==
    ASSUME NEW S, NEW family, NEW h, NEW N, Ranks(S, family, h, N), Heads(S, family)
    PROVE  \A d \in S : \A x \in Below(family, d) : x = d \/ h[x] < h[d]
<1> DEFINE G == {d \in S : \A x \in Below(family, d) : x = d \/ h[x] < h[d]}
<1>1. h \in [S -> Nat]
  <2>1. h \in [S -> 0 .. N] /\ 0 .. N \subseteq Nat
    BY DEF Ranks
  <2>2. QED
    BY <2>1
<1>2. ASSUME NEW d \in S, \A x \in S : h[x] < h[d] => x \in G PROVE d \in G
  <2>1. SUFFICES ASSUME NEW x \in Below(family, d), x # d PROVE h[x] < h[d]
    OBVIOUS
  <2>2. PICK v \in Range(family[d]) : v # d /\ x \in Below(family, v)
    BY <2>1, BelowIs
  <2>3. v \in S /\ h[v] < h[d] /\ x \in S
    BY <2>1, <2>2, BelowIs
  <2>4. x = v \/ h[x] < h[v]
    BY <1>2, <2>2, <2>3
  <2>5. QED
    BY <1>1, <2>3, <2>4
<1>3. \A d \in S : (\A x \in S : h[x] < h[d] => x \in G) => d \in G
  BY <1>2
<1>4. S \subseteq G
  <2> HIDE DEF G
  <2> QED BY <1>1, <1>3, RankInduction
<1>5. QED
  BY <1>4

\* Down from an element.
LEMMA BelowDown ==
    ASSUME NEW S, NEW family, NEW h, NEW N, Ranks(S, family, h, N), Heads(S, family)
    PROVE  \A d \in S : \A p \in Below(family, d) : \A x \in Range(family[p]) : x \in Below(family, d)
<1> DEFINE G == {d \in S : \A p \in Below(family, d) : \A x \in Range(family[p]) : x \in Below(family, d)}
<1>1. h \in [S -> Nat]
  <2>1. h \in [S -> 0 .. N] /\ 0 .. N \subseteq Nat
    BY DEF Ranks
  <2>2. QED
    BY <2>1
<1>2. ASSUME NEW d \in S, \A x \in S : h[x] < h[d] => x \in G PROVE d \in G
  <2>1. SUFFICES ASSUME NEW p \in Below(family, d), NEW x \in Range(family[p]) PROVE x \in Below(family, d)
    OBVIOUS
  <2>2. CASE p = d
    BY <2>1, <2>2, BelowIs
  <2>3. CASE p # d
    <3>1. PICK v \in Range(family[d]) : v # d /\ p \in Below(family, v)
      BY <2>1, <2>3, BelowIs
    <3>2. v \in S /\ h[v] < h[d]
      BY <3>1, BelowIs
    <3>3. x \in Below(family, v)
      BY <1>2, <2>1, <3>1, <3>2
    <3>4. QED
      BY <3>1, <3>3, BelowIs
  <2>4. QED
    BY <2>2, <2>3
<1>3. \A d \in S : (\A x \in S : h[x] < h[d] => x \in G) => d \in G
  BY <1>2
<1>4. S \subseteq G
  <2> HIDE DEF G
  <2> QED BY <1>1, <1>3, RankInduction
<1>5. QED
  BY <1>4

\* Up to an element.
LEMMA BelowUp ==
    ASSUME NEW S, NEW family, NEW h, NEW N, Ranks(S, family, h, N), Heads(S, family)
    PROVE  \A d \in S : \A x \in Below(family, d) :
             x # d => \E p \in Below(family, d) : p # x /\ x \in Range(family[p])
<1> DEFINE Is(d) == \A x \in Below(family, d) :
             x # d => \E p \in Below(family, d) : p # x /\ x \in Range(family[p])
           G == {d \in S : Is(d)}
<1>1. h \in [S -> Nat]
  <2>1. h \in [S -> 0 .. N] /\ 0 .. N \subseteq Nat
    BY DEF Ranks
  <2>2. QED
    BY <2>1
<1>2. ASSUME NEW d \in S, \A x \in S : h[x] < h[d] => x \in G PROVE d \in G
  <2>1. SUFFICES ASSUME NEW x \in Below(family, d), x # d
                 PROVE  \E p \in Below(family, d) : p # x /\ x \in Range(family[p])
    OBVIOUS
  <2>2. PICK v \in Range(family[d]) : v # d /\ x \in Below(family, v)
    BY <2>1, BelowIs
  <2>3. v \in S /\ h[v] < h[d] /\ d \in Below(family, d)
    BY <2>2, BelowIs
  <2>4. CASE x = v
    BY <2>1, <2>2, <2>3, <2>4
  <2>5. CASE x # v
    <3>1. PICK p \in Below(family, v) : p # x /\ x \in Range(family[p])
      BY <1>2, <2>2, <2>3, <2>5
    <3>2. p \in Below(family, d)
      BY <2>2, <3>1, BelowIs
    <3>3. QED
      BY <3>1, <3>2
  <2>6. QED
    BY <2>4, <2>5
<1>3. \A d \in S : (\A x \in S : h[x] < h[d] => x \in G) => d \in G
  BY <1>2
<1>4. S \subseteq G
  <2> HIDE DEF G
  <2> QED BY <1>1, <1>3, RankInduction
<1>5. QED
  BY <1>4

\* Everything is below an element if everything else has a parent.
LEMMA BelowWhole ==
    ASSUME NEW S, NEW family, NEW h, NEW N, Ranks(S, family, h, N), Heads(S, family),
           NEW root \in S, \A x \in S : x # root => \E p \in S : p # x /\ x \in Range(family[p])
    PROVE  Below(family, root) = S
<1> DEFINE G == Below(family, root)
<1>1. N \in Nat /\ h \in [S -> 0 .. N]
  BY DEF Ranks
<1>2. ASSUME NEW d \in S, \A x \in S : h[d] < h[x] => x \in G PROVE d \in G
  <2>1. CASE d = root
    BY <2>1, BelowIs
  <2>2. CASE d # root
    <3>1. PICK p \in S : p # d /\ d \in Range(family[p])
      BY <2>2
    <3>2. h[d] < h[p]
      BY <3>1, BelowIs
    <3>3. p \in G
      BY <1>2, <3>2
    <3>4. QED
      BY <3>1, <3>3, BelowDown
  <2>3. QED
    BY <2>1, <2>2
<1>3. \A d \in S : (\A x \in S : h[d] < h[x] => x \in G) => d \in G
  BY <1>2
<1>4. S \subseteq G
  <2> HIDE DEF G
  <2> QED BY <1>1, <1>3, RankInductionUp
<1>5. QED
  BY <1>4, BelowIs

\* What is below two elements: one is below the other.
LEMMA BelowApart ==
    ASSUME NEW S, NEW family, NEW h, NEW N, Ranks(S, family, h, N), Heads(S, family), OneParent(S, family),
           NEW d \in S, NEW v \in Range(family[d]), NEW w \in Range(family[d]), v # d, w # d, v # w
    PROVE  Below(family, v) \cap Below(family, w) = {}
<1>1. N \in Nat /\ h \in [S -> 0 .. N]
  BY DEF Ranks
<1>2. v \in S /\ w \in S /\ h[v] < h[d] /\ h[w] < h[d]
  BY BelowIs
<1> DEFINE Z == Below(family, v) \cap Below(family, w)
           G == {x \in S : x \notin Z}
<1>3. Z \subseteq S
  BY <1>2, BelowIs
<1>4. \A a, b : a \in Range(family[d]) /\ b \in Range(family[d]) /\ a # d /\ b # d /\ a # b => a \notin Below(family, b)
  <2> TAKE a, b
  <2> HAVE a \in Range(family[d]) /\ b \in Range(family[d]) /\ a # d /\ b # d /\ a # b
  <2>1. SUFFICES ASSUME a \in Below(family, b) PROVE FALSE
    OBVIOUS
  <2>2. a \in S /\ b \in S /\ h[b] < h[d]
    BY BelowIs
  <2>3. PICK p \in Below(family, b) : p # a /\ a \in Range(family[p])
    BY <2>1, <2>2, BelowUp
  <2>4. p \in S
    BY <2>2, <2>3, BelowIs
  <2>5. p = d
    BY <2>3, <2>4 DEF OneParent
  <2>6. d = b \/ h[d] < h[b]
    BY <2>2, <2>3, <2>5, BelowRank
  <2>7. h[d] \in Int /\ h[b] \in Int
    BY <1>1, <2>2
  <2>8. QED
    BY <2>2, <2>6, <2>7
<1>5. ASSUME NEW x \in S, \A y \in S : h[x] < h[y] => y \in G PROVE x \in G
  <2>1. SUFFICES ASSUME x \in Z PROVE FALSE
    OBVIOUS
  <2>2. x # v /\ x # w
    BY <1>4, <2>1
  <2>3. PICK p \in Below(family, v) : p # x /\ x \in Range(family[p])
    BY <1>2, <2>1, <2>2, BelowUp
  <2>4. PICK q \in Below(family, w) : q # x /\ x \in Range(family[q])
    BY <1>2, <2>1, <2>2, BelowUp
  <2>5. p \in S /\ q \in S
    BY <1>2, <2>3, <2>4, BelowIs
  <2>6. p = q
    BY <2>3, <2>4, <2>5 DEF OneParent
  <2>7. h[x] < h[p]
    BY <2>3, <2>5, BelowIs
  <2>8. QED
    BY <1>5, <2>3, <2>4, <2>5, <2>6, <2>7
<1>6. \A x \in S : (\A y \in S : h[x] < h[y] => y \in G) => x \in G
  BY <1>5
<1>7. S \subseteq G
  <2> HIDE DEF G
  <2> QED BY <1>1, <1>6, RankInductionUp
<1>8. QED
  BY <1>3, <1>7

\* A walk gets nowhere twice.
LEMMA WalkDistinct ==
    ASSUME NEW S, NEW family, NEW h, NEW N, Ranks(S, family, h, N), Heads(S, family), OneParent(S, family),
           \A d \in S : Distinct(family[d])
    PROVE  \A d \in S : Distinct(Walk(family, d))
<1>1. PICK r \in [S -> Seq(S)] : \A d \in S : r[d] = Pieced(S, family, r, d) /\ Walk(family, d) = r[d]
  BY WalkIs
<1> DEFINE G == {d \in S : Distinct(Walk(family, d))}
<1>2. h \in [S -> Nat] /\ family \in [S -> Seq(S)]
  <2>1. h \in [S -> 0 .. N] /\ 0 .. N \subseteq Nat
    BY DEF Ranks
  <2>2. QED
    BY <2>1 DEF Ranks
<1>3. ASSUME NEW d \in S, \A x \in S : h[x] < h[d] => x \in G PROVE d \in G
  <2> DEFINE own == family[d]
             g == Piece(S, r, d)
  <2>1. own \in Seq(S) /\ Distinct(own) /\ \A v \in Range(own) : v \in S /\ (v # d => h[v] < h[d])
    BY <1>2, BelowIs
  <2>2. g \in [S -> Seq(S)]
    <3>1. <<d>> \in Seq(S)
      OBVIOUS
    <3>2. QED
      BY <3>1, Zenon DEF Piece
  <2>3. \A v \in S : g[v] = IF v = d THEN <<d>> ELSE Walk(family, v)
    BY <1>1, Zenon DEF Piece
  <2>4. Range(<<d>>) = {d} /\ Distinct(<<d>>)
    BY OneMember DEF Lists
  <2>5. \A v \in Range(own) : Distinct(g[v])
    BY <1>3, <2>1, <2>3, <2>4
  <2>6. \A v \in Range(own) : v # d => d \notin Below(family, v)
    <3> TAKE v \in Range(own)
    <3> HAVE v # d
    <3>1. v \in S /\ h[v] < h[d]
      BY <2>1
    <3>2. d \in Below(family, v) => d = v \/ h[d] < h[v]
      BY <3>1, BelowRank
    <3>3. h[d] \in Int /\ h[v] \in Int
      BY <1>2, <3>1
    <3>4. QED
      BY <3>1, <3>2, <3>3
  <2>7. \A v \in Range(own) : Range(g[v]) = IF v = d THEN {d} ELSE Below(family, v)
    BY <2>1, <2>3, <2>4 DEF Below
  <2>8. \A v, w \in Range(own) : v # w => Range(g[v]) \cap Range(g[w]) = {}
    <3> TAKE v, w \in Range(own)
    <3> HAVE v # w
    <3>1. CASE v # d /\ w # d
      <4>1. Below(family, v) \cap Below(family, w) = {}
        BY <3>1, BelowApart
      <4>2. QED
        BY <2>7, <3>1, <4>1
    <3>2. CASE v = d \/ w = d
      BY <2>6, <2>7, <3>2
    <3>3. QED
      BY <3>1, <3>2
  <2>9. Walk(family, d) = FlattenSeq(Rows(own, g))
    BY <1>1 DEF Pieced
  <2> HIDE DEF own, g
  <2>10. Distinct(FlattenSeq(Rows(own, g)))
    BY <2>1, <2>2, <2>5, <2>8, RowsDistinct
  <2>11. QED
    BY <2>9, <2>10
<1>4. \A d \in S : (\A x \in S : h[x] < h[d] => x \in G) => d \in G
  BY <1>3
<1>5. S \subseteq G
  <2> HIDE DEF G
  <2> QED BY <1>2, <1>4, RankInduction
<1>6. QED
  BY <1>5

(***************************************************************************)
(* Trees.                                                                  *)
(***************************************************************************)
(***************************************************************************)
(* Trees of chunks and words.                                              *)
(***************************************************************************)
IsElement(e) == e[2] \in Nat /\ (e = Chunk(e[2]) \/ (e[3] \in Nat /\ e = Word(e[2], e[3])))

\* Chunks, words and the sentence are three kinds of elements.
LEMMA Kinds ==
    /\ ~IsChunk(Sentence) /\ ~IsWord(Sentence)
    /\ \A r : IsChunk(Chunk(r)) /\ ~IsWord(Chunk(r)) /\ Chunk(r) # Sentence /\ Chunk(r)[2] = r
    /\ \A r, i : IsWord(Word(r, i)) /\ ~IsChunk(Word(r, i)) /\ Word(r, i) # Sentence
                 /\ Word(r, i)[2] = r /\ Word(r, i)[3] = i
  BY DEF IsChunk, IsWord, Sentence, Chunk, Word

\* An element is a chunk or a word, and is known by its numbers.
LEMMA ElementKinds ==
    ASSUME NEW e, IsElement(e)
    PROVE  /\ IsChunk(e) \/ IsWord(e)
           /\ IsChunk(e) => ~IsWord(e) /\ e = Chunk(e[2])
           /\ IsWord(e) => ~IsChunk(e) /\ e = Word(e[2], e[3]) /\ e[3] \in Nat
           /\ e # Sentence /\ e[2] \in Nat
  BY Kinds DEF IsElement

RankedBy(t, h, N) ==
    /\ N \in Nat /\ h \in [DOMAIN t -> 0 .. N]
    /\ \A p \in DOMAIN t : \A x \in Range(t[p]) : h[x] < h[p]

TreeShape(t) ==
    /\ Sentence \in DOMAIN t /\ IsFiniteSet(DOMAIN t)
    /\ t \in [DOMAIN t -> Seq(DOMAIN t \ {Sentence})]
    /\ \A e \in DOMAIN t \ {Sentence} : IsElement(e)
    /\ \A k \in Range(t[Sentence]) : IsChunk(k)
    /\ \A e \in DOMAIN t : IsWord(e) => \A k \in Range(t[e]) : IsWord(k)
    /\ \A e \in DOMAIN t : Distinct(t[e])
    /\ \A p, q \in DOMAIN t : \A x : x \in Range(t[p]) /\ x \in Range(t[q]) => p = q
    /\ \A e \in DOMAIN t \ {Sentence} : \E p \in DOMAIN t : e \in Range(t[p])

Tree(t) == TreeShape(t) /\ \E h, N : RankedBy(t, h, N)

\* A rank for each member of a finite set, if each of its subsets has a member with none below.
LEMMA RanksExist ==
    ASSUME NEW D, IsFiniteSet(D), NEW below, \A S \in SUBSET D \ {{}} : \E e \in S : below[e] \cap S = {}
    PROVE  \E N \in Nat : \E h \in [D -> 0 .. N] : \A e \in D : \A x \in below[e] \cap D : h[x] < h[e]
<1> DEFINE Ranked(S, n) == \E h \in [S -> 0 .. n] : \A e \in S : \A x \in below[e] \cap S : h[x] < h[e]
           G == {n \in Nat : \A S \in SUBSET D : Cardinality(S) = n => Ranked(S, n)}
<1>1. 0 \in G
  <2>1. ASSUME NEW S \in SUBSET D, Cardinality(S) = 0 PROVE Ranked(S, 0)
    <3>1. S = {}
      BY <2>1, FS_Subset, FS_EmptySet
    <3> DEFINE h == [e \in S |-> 0]
    <3>2. h \in [S -> 0 .. 0] /\ \A e \in S : FALSE
      BY <3>1
    <3> HIDE DEF h
    <3>3. QED
      BY <3>2
  <2>2. QED
    BY <2>1
<1>2. ASSUME NEW n \in Nat, n \in G PROVE n + 1 \in G
  <2>1. ASSUME NEW S \in SUBSET D, Cardinality(S) = n + 1 PROVE Ranked(S, n + 1)
    <3>1. IsFiniteSet(S) /\ S # {}
      BY <2>1, FS_Subset, FS_EmptySet
    <3>2. PICK e \in S : below[e] \cap S = {}
      BY <3>1
    <3> DEFINE R == S \ {e}
    <3>3. R \in SUBSET D /\ Cardinality(R) = n
      <4>1. Cardinality(R) = Cardinality(S) - 1
        BY <3>1, FS_RemoveElement
      <4>2. QED
        BY <2>1, <4>1
    <3>4. PICK k \in [R -> 0 .. n] : \A d \in R : \A x \in below[d] \cap R : k[x] < k[d]
      BY <1>2, <3>3
    <3> DEFINE h == [d \in S |-> IF d = e THEN 0 ELSE k[d] + 1]
    <3>5. h \in [S -> 0 .. n + 1]
      <4>1. \A d \in R : k[d] + 1 \in 0 .. n + 1
        BY <3>4
      <4>2. 0 \in 0 .. n + 1
        OBVIOUS
      <4>3. \A d \in S : d = e \/ d \in R
        OBVIOUS
      <4> HIDE DEF R
      <4>4. QED
        BY <4>1, <4>2, <4>3
    <3>6. ASSUME NEW d \in S, NEW x \in below[d] \cap S PROVE h[x] < h[d]
      <4>1. d # e /\ d \in R
        BY <3>2, <3>6
      <4>2. k[d] \in Nat /\ h[d] = k[d] + 1
        BY <3>4, <4>1
      <4>3. CASE x = e
        BY <3>6, <4>2, <4>3
      <4>4. CASE x # e
        <5>1. x \in R /\ k[x] \in Nat /\ k[x] < k[d] /\ h[x] = k[x] + 1
          BY <3>4, <3>6, <4>1, <4>4
        <5> HIDE DEF h, R
        <5>2. QED
          BY <4>2, <5>1
      <4>5. QED
        BY <4>3, <4>4
    <3> HIDE DEF h
    <3>7. QED
      BY <3>5, <3>6
  <2>2. QED
    BY <2>1
<1>3. Cardinality(D) \in G
  <2>1. Nat \subseteq G
    <3> HIDE DEF G
    <3> QED BY <1>1, <1>2, SetInduction
  <2>2. QED
    BY <2>1, FS_CardinalityType
<1>4. Ranked(D, Cardinality(D)) /\ Cardinality(D) \in Nat
  BY <1>3
<1>5. QED
  BY <1>4

\* The documents that the program begins with are trees.
LEMMA DocumentIsTree ==
    ASSUME NEW t, IsDocument(t)
    PROVE  /\ Tree(t) /\ t[Sentence] # <<>>
           /\ \A e \in DOMAIN t : IsWord(e) => e[3] = 0
<1> DEFINE D == DOMAIN t
<1>1. Sentence \in D /\ IsFiniteSet(D) /\ t[Sentence] # <<>> /\ \A e \in ToSet(t[Sentence]) : IsChunk(e)
  BY DEF IsDocument
<1>2. \A e \in D \ {Sentence} : IsElement(e) /\ (IsWord(e) => e[3] = 0)
  <2> TAKE e \in D \ {Sentence}
  <2>1. e[2] \in Nat /\ e \in {Chunk(e[2]), Word(e[2], 0)}
    BY DEF IsDocument
  <2>2. CASE e = Chunk(e[2])
    <3>1. ~IsWord(Chunk(e[2]))
      BY Kinds
    <3>2. IsElement(e)
      BY <2>1, <2>2 DEF IsElement
    <3>3. ~IsWord(e)
      BY <2>2, <3>1, Zenon
    <3>4. QED
      BY <3>2, <3>3
  <2>3. CASE e = Word(e[2], 0)
    <3>1. e[3] = 0
      BY <2>3, Kinds
    <3>2. QED
      BY <2>1, <2>3, <3>1 DEF IsElement
  <2>4. QED
    BY <2>1, <2>2, <2>3
<1>3. \A e \in D : t[e] \in Seq(D \ {Sentence})
  BY DEF IsDocument
<1>4. \A e \in D : ToSet(t[e]) = Range(t[e]) /\ Range(t[e]) \subseteq D \ {Sentence} /\ DOMAIN t[e] = 1 .. Len(t[e])
                   /\ \A x : Contains(t[e], x) <=> x \in Range(t[e])
  BY <1>3, ElementsAre, LenProperties
<1>5. \A e \in D : IsWord(e) => \A k \in Range(t[e]) : IsWord(k)
  BY <1>4 DEF IsDocument
<1>6. \A e \in D \ {Sentence} : \E p \in D : e \in Range(t[p])
  BY <1>4 DEF IsDocument
<1>7. \A p, q \in D : \A i \in DOMAIN t[p], j \in DOMAIN t[q] : t[p][i] = t[q][j] => p = q /\ i = j
  BY DEF IsDocument
<1>8. \A p \in D : Distinct(t[p])
  BY <1>4, <1>7 DEF Distinct
<1>9. \A p, q \in D : \A x : x \in Range(t[p]) /\ x \in Range(t[q]) => p = q
  BY <1>7 DEF Range
<1>10. t \in [D -> Seq(D \ {Sentence})]
  BY <1>3 DEF IsDocument
<1>11. TreeShape(t)
  BY <1>1, <1>2, <1>4, <1>5, <1>6, <1>8, <1>9, <1>10 DEF TreeShape
<1>12. \E h, N : RankedBy(t, h, N)
  <2> DEFINE below == [e \in D |-> Range(t[e])]
  <2>1. \A S \in SUBSET D \ {{}} : \E e \in S : below[e] \cap S = {}
    <3> TAKE S \in SUBSET D \ {{}}
    <3>1. PICK e \in S : ToSet(t[e]) \cap S = {}
      BY DEF IsDocument
    <3>2. below[e] = ToSet(t[e])
      BY <1>4
    <3>3. QED
      BY <3>1, <3>2
  <2>2. \A e \in D : below[e] = Range(t[e]) /\ below[e] \cap D = Range(t[e])
    BY <1>4
  <2> HIDE DEF below, D
  <2>3. \E N \in Nat : \E h \in [D -> 0 .. N] : \A e \in D : \A x \in below[e] \cap D : h[x] < h[e]
    BY <1>1, <2>1, RanksExist
  <2>4. PICK N \in Nat : \E h \in [D -> 0 .. N] : \A e \in D : \A x \in below[e] \cap D : h[x] < h[e]
    BY <2>3
  <2>5. PICK h \in [D -> 0 .. N] : \A e \in D : \A x \in below[e] \cap D : h[x] < h[e]
    BY <2>4
  <2>6. RankedBy(t, h, N)
    BY <2>2, <2>5 DEF RankedBy, D
  <2>7. QED
    BY <2>6
<1>13. QED
  BY <1>1, <1>2, <1>11, <1>12, Kinds DEF Tree

(***************************************************************************)
(* Families of a tree: of some of its elements, each with some of its      *)
(* children.                                                               *)
(***************************************************************************)
Families(t, S, family) ==
    /\ S \subseteq DOMAIN t
    /\ family \in [S -> Seq(S)]
    /\ \A d \in S : /\ d \in Range(family[d])
                    /\ Range(family[d]) \subseteq {d} \cup Range(t[d])
                    /\ Distinct(family[d])

\* Families of a tree have what the laws of walks ask for.
LEMMA FamiliesRanked ==
    ASSUME NEW t, TreeShape(t), NEW h, NEW N, RankedBy(t, h, N), NEW S, NEW family, Families(t, S, family)
    PROVE  /\ Ranks(S, family, [d \in S |-> h[d]], N)
           /\ Heads(S, family)
           /\ OneParent(S, family)
<1> DEFINE g == [d \in S |-> h[d]]
<1>1. N \in Nat /\ h \in [DOMAIN t -> 0 .. N] /\ \A p \in DOMAIN t : \A x \in Range(t[p]) : h[x] < h[p]
  BY DEF RankedBy
<1>2. S \subseteq DOMAIN t /\ family \in [S -> Seq(S)]
  BY DEF Families
<1>3. \A d \in S : d \in Range(family[d]) /\ Range(family[d]) \subseteq {d} \cup Range(t[d])
  BY DEF Families
<1>4. g \in [S -> 0 .. N] /\ \A d \in S : g[d] = h[d]
  BY <1>1, <1>2
<1>5. \A d \in S : Range(family[d]) \subseteq S
  BY <1>2, ElementsAre
<1> HIDE DEF g
<1>6. \A d \in S : \A x \in Range(family[d]) : x = d \/ g[x] < g[d]
  <2> TAKE d \in S
  <2> TAKE x \in Range(family[d])
  <2>1. CASE x = d
    BY <2>1
  <2>2. CASE x # d
    <3>1. x \in S /\ x \in Range(t[d]) /\ d \in DOMAIN t
      BY <1>2, <1>3, <1>5, <2>2
    <3>2. QED
      BY <1>1, <1>4, <3>1
  <2>3. QED
    BY <2>1, <2>2
<1>7. Ranks(S, family, g, N)
  BY <1>1, <1>2, <1>4, <1>6 DEF Ranks
<1>8. Heads(S, family)
  BY <1>3 DEF Heads
<1>9. OneParent(S, family)
  <2>1. \A p, q \in DOMAIN t : \A x : x \in Range(t[p]) /\ x \in Range(t[q]) => p = q
    BY DEF TreeShape
  <2>2. QED
    BY <1>2, <1>3, <2>1 DEF OneParent
<1>10. QED
  BY <1>7, <1>8, <1>9 DEF g

\* A family of an element: itself and some of its children.
LEMMA OwnFamily ==
    ASSUME NEW t, Tree(t), NEW d \in DOMAIN t, NEW S
    PROVE  /\ <<d>> \o Only(t[d], S) \in Seq(DOMAIN t)
           /\ Range(<<d>> \o Only(t[d], S)) = {d} \cup (Range(t[d]) \cap S)
           /\ Distinct(<<d>> \o Only(t[d], S))
           /\ d \notin Range(t[d])
<1> DEFINE D == DOMAIN t
           own == Only(t[d], S)
<1>1. PICK h, N : RankedBy(t, h, N)
  BY DEF Tree
<1>2. t[d] \in Seq(D) /\ Distinct(t[d]) /\ t[d] \in Seq(Range(t[d]))
  <2>1. t[d] \in Seq(D \ {Sentence}) /\ Distinct(t[d])
    BY DEF Tree, TreeShape
  <2>2. t[d] \in Seq(D)
    BY <2>1, SeqMonotonic
  <2>3. QED
    BY <2>1, <2>2, ElementsAre
<1>3. Lists(t[d], Range(t[d]))
  BY <1>2 DEF Lists
<1>4. Lists(own, Range(t[d]) \cap S)
  BY <1>3, OnlyLists
<1>5. d \notin Range(t[d])
  <2>1. h[d] \in Nat /\ \A x \in Range(t[d]) : h[x] < h[d]
    BY <1>1 DEF RankedBy
  <2>2. QED
    BY <2>1
<1>6. Range(t[d]) \subseteq D
  BY <1>2, ElementsAre
<1> HIDE DEF own
<1>7. Lists(<<d>>, {d})
  BY OneMember
<1>8. own \in Seq(D) /\ <<d>> \in Seq(D)
  BY <1>4, <1>6, SeqMonotonic DEF Lists
<1>9. Distinct(<<d>> \o own)
  <2>1. Distinct(<<d>>) /\ Distinct(own) /\ Range(<<d>>) \cap Range(own) = {}
    BY <1>4, <1>5, <1>7 DEF Lists
  <2>2. QED
    BY <1>8, <2>1, CatDistinct DEF Cat
<1>10. Range(<<d>> \o own) = {d} \cup (Range(t[d]) \cap S)
  <2>1. Range(<<d>> \o own) = Range(<<d>>) \cup Range(own)
    BY <1>8, RangeCat DEF Cat
  <2>2. QED
    BY <1>4, <1>7, <2>1 DEF Lists
<1>11. <<d>> \o own \in Seq(D)
  BY <1>8, ConcatProperties
<1>12. QED
  BY <1>5, <1>9, <1>10, <1>11 DEF own

WordsIn(t) == {e \in DOMAIN t : IsWord(e)}
WordFamily(t) == [d \in DOMAIN t |-> <<d>> \o Only(t[d], WordsIn(t))]

\* Each element with all its children is a family.
LEMMA WholeFamilies ==
    ASSUME NEW t, Tree(t)
    PROVE  /\ Families(t, DOMAIN t, Whole(t))
           /\ \A d \in DOMAIN t : Range(Whole(t)[d]) = {d} \cup Range(t[d])
<1> DEFINE D == DOMAIN t
<1>1. ASSUME NEW d \in D
      PROVE  Whole(t)[d] \in Seq(D) /\ Range(Whole(t)[d]) = {d} \cup Range(t[d]) /\ Distinct(Whole(t)[d])
  <2>1. t[d] \in Seq(D \ {Sentence})
    BY DEF Tree, TreeShape
  <2>2. Range(t[d]) \subseteq D /\ t[d] \in Seq(D)
    BY <2>1, ElementsAre, SeqMonotonic
  <2>3. Only(t[d], D) = t[d]
    BY <2>2, OnlyAll
  <2>4. Whole(t)[d] = <<d>> \o Only(t[d], D)
    BY <2>3 DEF Whole
  <2>5. QED
    BY <2>2, <2>4, OwnFamily
<1>2. Whole(t) = [d \in D |-> Whole(t)[d]]
  BY DEF Whole
<1>3. Whole(t) \in [D -> Seq(D)]
  BY <1>1, <1>2
<1>4. QED
  BY <1>1, <1>3 DEF Families

\* Each element with its words is a family.
LEMMA WordFamilies ==
    ASSUME NEW t, Tree(t)
    PROVE  /\ Families(t, DOMAIN t, WordFamily(t))
           /\ \A d \in DOMAIN t : Range(WordFamily(t)[d]) = {d} \cup (Range(t[d]) \cap WordsIn(t))
<1> DEFINE D == DOMAIN t
<1>1. ASSUME NEW d \in D
      PROVE  /\ WordFamily(t)[d] \in Seq(D) /\ Distinct(WordFamily(t)[d])
             /\ Range(WordFamily(t)[d]) = {d} \cup (Range(t[d]) \cap WordsIn(t))
  <2>1. WordFamily(t)[d] = <<d>> \o Only(t[d], WordsIn(t))
    BY DEF WordFamily
  <2>2. QED
    BY <2>1, OwnFamily
<1>2. WordFamily(t) = [d \in D |-> WordFamily(t)[d]]
  BY DEF WordFamily
<1>3. WordFamily(t) \in [D -> Seq(D)]
  BY <1>1, <1>2
<1>4. QED
  BY <1>1, <1>3 DEF Families

\* Walks through a family of a tree.
LEMMA FamilyWalks ==
    ASSUME NEW t, Tree(t), NEW S, NEW family, Families(t, S, family)
    PROVE  \A d \in S :
             /\ Lists(Walk(family, d), Below(family, d))
             /\ Below(family, d) \subseteq S
             /\ d \in Below(family, d)
             /\ \A x \in Below(family, d) : x # d => \E p \in Below(family, d) : p # x /\ x \in Range(t[p])
             /\ \A p \in Below(family, d) : Range(family[p]) \subseteq Below(family, d)
<1>1. PICK h, N : RankedBy(t, h, N)
  BY DEF Tree
<1> DEFINE g == [d \in S |-> h[d]]
<1>2. Ranks(S, family, g, N) /\ Heads(S, family) /\ OneParent(S, family)
  BY <1>1, FamiliesRanked DEF Tree
<1>3. \A d \in S : Distinct(family[d]) /\ Range(family[d]) \subseteq {d} \cup Range(t[d])
  BY DEF Families
<1> HIDE DEF g
<1>4. \A d \in S : Distinct(Walk(family, d))
  BY <1>2, <1>3, WalkDistinct
<1>5. \A d \in S : Walk(family, d) \in Seq(S) /\ Below(family, d) \subseteq S /\ d \in Below(family, d)
  BY <1>2, BelowIs
<1>6. \A d \in S : Lists(Walk(family, d), Below(family, d))
  <2> TAKE d \in S
  <2>1. Walk(family, d) \in Seq(Range(Walk(family, d)))
    BY <1>5, ElementsAre
  <2>2. QED
    BY <1>4, <2>1 DEF Lists, Below
<1>7. \A d \in S : \A x \in Below(family, d) : x # d => \E p \in Below(family, d) : p # x /\ x \in Range(t[p])
  <2> TAKE d \in S
  <2> TAKE x \in Below(family, d)
  <2> HAVE x # d
  <2>1. PICK p \in Below(family, d) : p # x /\ x \in Range(family[p])
    BY <1>2, BelowUp
  <2>2. p \in S
    BY <1>5
  <2>3. QED
    BY <1>3, <2>1, <2>2
<1>8. \A d \in S : \A p \in Below(family, d) : Range(family[p]) \subseteq Below(family, d)
  BY <1>2, BelowDown
<1>9. QED
  BY <1>5, <1>6, <1>7, <1>8

\* The walk through the document gets to every element once.
LEMMA DocumentOrderLists ==
    ASSUME NEW t, Tree(t)
    PROVE  /\ Lists(DocumentOrder(t), DOMAIN t)
           /\ \A S : Lists(Only(DocumentOrder(t), S), DOMAIN t \cap S)
<1> DEFINE D == DOMAIN t
<1>1. PICK h, N : RankedBy(t, h, N)
  BY DEF Tree
<1> DEFINE g == [d \in D |-> h[d]]
<1>2. Families(t, D, Whole(t)) /\ \A d \in D : Range(Whole(t)[d]) = {d} \cup Range(t[d])
  BY WholeFamilies
<1>3. Ranks(D, Whole(t), g, N) /\ Heads(D, Whole(t))
  BY <1>1, <1>2, FamiliesRanked DEF Tree
<1>4. Sentence \in D /\ \A x \in D : x # Sentence => \E p \in D : x \in Range(t[p])
  BY DEF Tree, TreeShape
<1>5. \A x \in D : x # Sentence => \E p \in D : p # x /\ x \in Range(Whole(t)[p])
  <2>1. \A p \in D : p \notin Range(t[p])
    BY OwnFamily
  <2>2. QED
    BY <1>2, <1>4, <2>1
<1> HIDE DEF g
<1>6. Below(Whole(t), Sentence) = D
  BY <1>3, <1>4, <1>5, BelowWhole
<1>7. Lists(Walk(Whole(t), Sentence), Below(Whole(t), Sentence))
  BY <1>2, <1>4, FamilyWalks
<1>8. Lists(DocumentOrder(t), D)
  BY <1>6, <1>7 DEF DocumentOrder
<1>9. QED
  BY <1>8, OnlyLists

\* Below a word there are words.
LEMMA WordsBelow ==
    ASSUME NEW t, Tree(t), NEW u \in WordsIn(t)
    PROVE  Below(Whole(t), u) \subseteq WordsIn(t)
<1> DEFINE D == DOMAIN t
<1>1. PICK h, N : RankedBy(t, h, N)
  BY DEF Tree
<1>2. N \in Nat /\ h \in [D -> 0 .. N] /\ \A p \in D : \A x \in Range(t[p]) : h[x] < h[p]
  BY <1>1 DEF RankedBy
<1>3. \A e \in D : IsWord(e) => \A k \in Range(t[e]) : IsWord(k)
  BY DEF Tree, TreeShape
<1> DEFINE B == Below(Whole(t), u)
           G == {x \in D : x \in B => IsWord(x)}
<1>4. u \in D /\ IsWord(u)
  BY DEF WordsIn
<1>5. B \subseteq D /\ \A x \in B : x # u => \E p \in B : p # x /\ x \in Range(t[p])
  BY <1>4, WholeFamilies, FamilyWalks
<1> HIDE DEF B
<1>6. \A d \in D : (\A x \in D : h[d] < h[x] => x \in G) => d \in G
  <2> TAKE d \in D
  <2> HAVE \A x \in D : h[d] < h[x] => x \in G
  <2>1. CASE d \notin B \/ d = u
    BY <1>4, <2>1
  <2>2. CASE d \in B /\ d # u
    <3>1. PICK p \in B : d \in Range(t[p])
      BY <1>5, <2>2
    <3>2. p \in D /\ h[d] < h[p]
      BY <1>2, <1>5, <3>1
    <3>3. IsWord(p)
      BY <3>2
    <3>4. QED
      BY <1>3, <3>1, <3>2, <3>3
  <2>3. QED
    BY <2>1, <2>2
<1> HIDE DEF G
<1>7. D \subseteq G
  BY <1>2, <1>6, RankInductionUp
<1>8. QED
  BY <1>5, <1>7 DEF G, B, WordsIn

OwnWords(t, c) == Only(Walk(WordFamily(t), c), WordsIn(t))
ChunksIn(t) == {e \in DOMAIN t : IsChunk(e)}
Over(t, e) == CHOOSE p \in DOMAIN t : Contains(t[p], e)

\* The children of an element: each once, and not the element itself.
LEMMA TreeRows ==
    ASSUME NEW t, Tree(t), NEW d \in DOMAIN t
    PROVE  /\ Lists(t[d], Range(t[d]))
           /\ ToSet(t[d]) = Range(t[d])
           /\ Range(t[d]) \subseteq DOMAIN t \ {Sentence}
           /\ \A x : Contains(t[d], x) <=> x \in Range(t[d])
           /\ d \notin Range(t[d])
           /\ t[d] = <<>> <=> Range(t[d]) = {}
<1>1. t[d] \in Seq(DOMAIN t \ {Sentence}) /\ Distinct(t[d])
  BY DEF Tree, TreeShape
<1>2. /\ ToSet(t[d]) = Range(t[d])
      /\ \A x : Contains(t[d], x) <=> x \in Range(t[d])
      /\ Range(t[d]) \subseteq DOMAIN t \ {Sentence}
      /\ t[d] \in Seq(Range(t[d]))
  BY <1>1, ElementsAre
<1>3. Lists(t[d], Range(t[d]))
  BY <1>1, <1>2 DEF Lists
<1>4. d \notin Range(t[d])
  BY OwnFamily
<1>5. t[d] = <<>> <=> Range(t[d]) = {}
  <2>1. t[d] = <<>> => Range(t[d]) = {}
    BY NoMembers
  <2>2. ASSUME t[d] # <<>> PROVE Range(t[d]) # {}
    <3>1. Len(t[d]) # 0 /\ Len(t[d]) \in Nat /\ DOMAIN t[d] = 1 .. Len(t[d])
      BY <1>1, <2>2, EmptySeq, LenProperties
    <3>2. 1 \in DOMAIN t[d]
      BY <3>1
    <3>3. QED
      BY <3>2 DEF Range
  <2>3. QED
    BY <2>1, <2>2
<1>6. QED
  BY <1>2, <1>3, <1>4, <1>5

\* Every element but the sentence has one parent.
LEMMA OverIs ==
    ASSUME NEW t, Tree(t), NEW e \in DOMAIN t \ {Sentence}
    PROVE  /\ Over(t, e) \in DOMAIN t
           /\ e \in Range(t[Over(t, e)])
           /\ \A p \in DOMAIN t : e \in Range(t[p]) => p = Over(t, e)
<1>1. \E p \in DOMAIN t : e \in Range(t[p])
  BY DEF Tree, TreeShape
<1>2. \A p \in DOMAIN t : Contains(t[p], e) <=> e \in Range(t[p])
  BY TreeRows
<1>3. Over(t, e) \in DOMAIN t /\ Contains(t[Over(t, e)], e)
  BY <1>1, <1>2 DEF Over
<1>4. \A p, q \in DOMAIN t : \A x : x \in Range(t[p]) /\ x \in Range(t[q]) => p = q
  BY DEF Tree, TreeShape
<1>5. QED
  BY <1>2, <1>3, <1>4

\* The words of a chunk: those below it, each once.
LEMMA ChunkWords ==
    ASSUME NEW t, Tree(t), NEW c \in DOMAIN t
    PROVE  /\ Lists(OwnWords(t, c), Below(WordFamily(t), c) \cap WordsIn(t))
           /\ ToSet(OwnWords(t, c)) = Below(WordFamily(t), c) \cap WordsIn(t)
           /\ \A w : Contains(OwnWords(t, c), w) <=> w \in Below(WordFamily(t), c) \cap WordsIn(t)
<1>1. Lists(Walk(WordFamily(t), c), Below(WordFamily(t), c))
  BY WordFamilies, FamilyWalks
<1>2. Lists(OwnWords(t, c), Below(WordFamily(t), c) \cap WordsIn(t))
  BY <1>1, OnlyLists DEF OwnWords
<1>3. QED
  BY <1>2, ElementsAre DEF Lists

\* Every word is of some chunk.
LEMMA EachWord ==
    ASSUME NEW t, Tree(t), NEW w \in WordsIn(t)
    PROVE  \E c \in ChunksIn(t) : Contains(OwnWords(t, c), w)
<1> DEFINE D == DOMAIN t
           W == WordFamily(t)
           G == {x \in D : IsWord(x) => \E c \in ChunksIn(t) : x \in Below(W, c)}
<1>1. PICK h, N : RankedBy(t, h, N)
  BY DEF Tree
<1>2. N \in Nat /\ h \in [D -> 0 .. N] /\ \A p \in D : \A x \in Range(t[p]) : h[x] < h[p]
  BY <1>1 DEF RankedBy
<1>3. /\ \A p \in D : Range(W[p]) = {p} \cup (Range(t[p]) \cap WordsIn(t))
      /\ \A c \in D : c \in Below(W, c) /\ \A p \in Below(W, c) : Range(W[p]) \subseteq Below(W, c)
      /\ \A c \in D : Below(W, c) \subseteq D
  BY WordFamilies, FamilyWalks
<1>4. \A e \in D \ {Sentence} : IsElement(e)
  BY DEF Tree, TreeShape
<1>5. \A k \in Range(t[Sentence]) : IsChunk(k)
  BY DEF Tree, TreeShape
<1> HIDE DEF W
<1>6. \A d \in D : (\A x \in D : h[d] < h[x] => x \in G) => d \in G
  <2> TAKE d \in D
  <2> HAVE \A x \in D : h[d] < h[x] => x \in G
  <2>1. CASE ~IsWord(d)
    BY <2>1
  <2>2. CASE IsWord(d)
    <3>1. d # Sentence /\ IsElement(d) /\ ~IsChunk(d)
      BY <1>4, <2>2, Kinds, ElementKinds
    <3>2. PICK p \in D : d \in Range(t[p])
      BY <3>1, OverIs
    <3>3. h[d] < h[p] /\ p \in G
      BY <1>2, <3>2
    <3>4. p # Sentence /\ IsElement(p)
      BY <1>4, <1>5, <3>1, <3>2
    <3>5. d \in Range(W[p])
      BY <1>3, <2>2, <3>2 DEF WordsIn
    <3>6. CASE IsChunk(p)
      <4>1. p \in ChunksIn(t) /\ d \in Below(W, p)
        BY <1>3, <3>5, <3>6 DEF ChunksIn
      <4>2. QED
        BY <4>1
    <3>7. CASE IsWord(p)
      <4>1. PICK c \in ChunksIn(t) : p \in Below(W, c)
        BY <3>3, <3>7
      <4>2. c \in D
        BY DEF ChunksIn
      <4>3. d \in Below(W, c)
        BY <1>3, <3>5, <4>1, <4>2
      <4>4. QED
        BY <4>3
    <3>8. QED
      BY <3>4, <3>6, <3>7, ElementKinds
  <2>3. QED
    BY <2>1, <2>2
<1> HIDE DEF G
<1>7. D \subseteq G
  BY <1>2, <1>6, RankInductionUp
<1>8. w \in D /\ IsWord(w)
  BY DEF WordsIn
<1>9. PICK c \in ChunksIn(t) : w \in Below(W, c)
  BY <1>7, <1>8 DEF G
<1>10. c \in D
  BY DEF ChunksIn
<1>11. Contains(OwnWords(t, c), w)
  BY <1>9, <1>10, ChunkWords DEF W
<1>12. QED
  BY <1>11

\* A word and all below it are of one chunk.
LEMMA WordsTogether ==
    ASSUME NEW t, Tree(t), NEW u \in WordsIn(t), NEW c \in ChunksIn(t),
           NEW w \in Below(Whole(t), u), w \in Below(WordFamily(t), c)
    PROVE  Below(Whole(t), u) \subseteq Below(WordFamily(t), c)
<1> DEFINE D == DOMAIN t
           W == WordFamily(t)
           B == Below(Whole(t), u)
           C == Below(W, c)
           G == {x \in D : x \in B /\ x \in C => u \in C}
           H == {x \in D : x \in B => x \in C}
<1>1. PICK h, N : RankedBy(t, h, N)
  BY DEF Tree
<1>2. N \in Nat /\ h \in [D -> 0 .. N] /\ \A p \in D : \A x \in Range(t[p]) : h[x] < h[p]
  BY <1>1 DEF RankedBy
<1>3. u \in D /\ c \in D /\ IsChunk(c) /\ \A x \in WordsIn(t) : IsWord(x) /\ ~IsChunk(x)
  <2>1. \A e \in D \ {Sentence} : IsElement(e)
    BY DEF Tree, TreeShape
  <2>2. \A x \in D : IsWord(x) => ~IsChunk(x)
    BY <2>1, Kinds, ElementKinds
  <2>3. QED
    BY <2>2 DEF WordsIn, ChunksIn
<1>4. /\ \A p \in D : Range(W[p]) = {p} \cup (Range(t[p]) \cap WordsIn(t))
      /\ \A p \in C : Range(W[p]) \subseteq C
      /\ \A x \in C : x # c => \E p \in C : p # x /\ x \in Range(t[p])
      /\ C \subseteq D
  BY <1>3, WordFamilies, FamilyWalks
<1>5. B \subseteq D /\ \A x \in B : x # u => \E p \in B : p # x /\ x \in Range(t[p])
  BY <1>3, WholeFamilies, FamilyWalks
<1>6. B \subseteq WordsIn(t)
  BY WordsBelow
<1>7. \A p, q \in D : \A x : x \in Range(t[p]) /\ x \in Range(t[q]) => p = q
  BY DEF Tree, TreeShape
<1> HIDE DEF W, B, C
<1>8. u \in C
  <2>1. \A d \in D : (\A x \in D : h[d] < h[x] => x \in G) => d \in G
    <3> TAKE d \in D
    <3> HAVE \A x \in D : h[d] < h[x] => x \in G
    <3>1. SUFFICES ASSUME d \in B, d \in C, d # u PROVE u \in C
      OBVIOUS
    <3>2. d # c
      BY <1>3, <1>6, <3>1
    <3>3. PICK p \in B : d \in Range(t[p])
      BY <1>5, <3>1
    <3>4. PICK q \in C : d \in Range(t[q])
      BY <1>4, <3>1, <3>2
    <3>5. p = q /\ p \in D
      BY <1>4, <1>5, <1>7, <3>3, <3>4
    <3>6. h[d] < h[p] /\ p \in G
      BY <1>2, <3>3, <3>5
    <3>7. QED
      BY <3>4, <3>5, <3>6
  <2> HIDE DEF G
  <2>2. D \subseteq G
    BY <1>2, <2>1, RankInductionUp
  <2>3. w \in D /\ w \in B /\ w \in C
    BY <1>5 DEF B, C, W
  <2>4. QED
    BY <2>2, <2>3 DEF G
<1>9. \A d \in D : (\A x \in D : h[d] < h[x] => x \in H) => d \in H
  <2> TAKE d \in D
  <2> HAVE \A x \in D : h[d] < h[x] => x \in H
  <2>1. SUFFICES ASSUME d \in B, d # u PROVE d \in C
    BY <1>8
  <2>2. PICK p \in B : d \in Range(t[p])
    BY <1>5, <2>1
  <2>3. p \in D /\ h[d] < h[p] /\ p \in C
    BY <1>2, <1>5, <2>2
  <2>4. d \in Range(W[p])
    BY <1>4, <1>6, <2>1, <2>2, <2>3
  <2>5. QED
    BY <1>4, <2>3, <2>4
<1> HIDE DEF H
<1>10. D \subseteq H
  BY <1>2, <1>9, RankInductionUp
<1>11. B \subseteq C
  BY <1>5, <1>10 DEF H
<1>12. QED
  BY <1>11 DEF B, C, W

(***************************************************************************)
(* Changes of a tree, as changes of the sets of children.                  *)
(***************************************************************************)
(***************************************************************************)
(* Changes of a tree, which keep it one: below says which elements each    *)
(* one has as its children.                                                *)
(***************************************************************************)
RankedSets(D, below, h, N) ==
    /\ N \in Nat /\ h \in [D -> 0 .. N]
    /\ \A p \in D : \A x \in below[p] : h[x] < h[p]

SetShape(D, below) ==
    /\ Sentence \in D /\ IsFiniteSet(D)
    /\ below \in [D -> SUBSET (D \ {Sentence})]
    /\ \A e \in D \ {Sentence} : IsElement(e)
    /\ \A k \in below[Sentence] : IsChunk(k)
    /\ \A e \in D : IsWord(e) => \A k \in below[e] : IsWord(k)
    /\ \A p, q \in D : \A x : x \in below[p] /\ x \in below[q] => p = q
    /\ \A e \in D \ {Sentence} : \E p \in D : e \in below[p]

Sets(t) == [d \in DOMAIN t |-> Range(t[d])]
HasRows(t, below) ==
    /\ t = [d \in DOMAIN t |-> t[d]]
    /\ \A d \in DOMAIN t : Lists(t[d], below[d])

\* A tree, by the sets of children of its elements.
LEMMA TreeIsSets ==
    ASSUME NEW t, NEW h, NEW N
    PROVE  TreeShape(t) /\ RankedBy(t, h, N) =>
               SetShape(DOMAIN t, Sets(t)) /\ RankedSets(DOMAIN t, Sets(t), h, N) /\ HasRows(t, Sets(t))
<1> SUFFICES ASSUME TreeShape(t), RankedBy(t, h, N)
             PROVE  SetShape(DOMAIN t, Sets(t)) /\ RankedSets(DOMAIN t, Sets(t), h, N) /\ HasRows(t, Sets(t))
  OBVIOUS
<1>1. Tree(t)
  BY DEF Tree
<1>2. \A d \in DOMAIN t : Sets(t)[d] = Range(t[d]) /\ Lists(t[d], Sets(t)[d]) /\ Sets(t)[d] \subseteq DOMAIN t \ {Sentence}
  BY <1>1, TreeRows DEF Sets
<1>3. t = [d \in DOMAIN t |-> t[d]]
  BY DEF TreeShape
<1>4. Sets(t) \in [DOMAIN t -> SUBSET (DOMAIN t \ {Sentence})]
  BY <1>2 DEF Sets
<1>5. SetShape(DOMAIN t, Sets(t))
  BY <1>2, <1>4 DEF SetShape, TreeShape
<1>6. RankedSets(DOMAIN t, Sets(t), h, N)
  BY <1>2 DEF RankedSets, RankedBy
<1>7. QED
  BY <1>2, <1>3, <1>5, <1>6 DEF HasRows

\* What has the sets of a tree, and rows for them, is a tree.
LEMMA TreeFromSets ==
    ASSUME NEW t, NEW below, SetShape(DOMAIN t, below), HasRows(t, below), NEW h, NEW N, RankedSets(DOMAIN t, below, h, N)
    PROVE  Tree(t) /\ Sets(t) = below
<1> DEFINE D == DOMAIN t
<1>1. \A d \in D : Lists(t[d], below[d])
  BY DEF HasRows
<1>2. \A d \in D : t[d] \in Seq(below[d]) /\ Range(t[d]) = below[d] /\ Distinct(t[d])
  BY <1>1 DEF Lists
<1>3. below \in [D -> SUBSET (D \ {Sentence})]
  BY DEF SetShape
<1>4. \A d \in D : t[d] \in Seq(D \ {Sentence})
  BY <1>2, <1>3, SeqMonotonic
<1>5. t \in [D -> Seq(D \ {Sentence})]
  BY <1>4 DEF HasRows
<1>6. TreeShape(t)
  BY <1>2, <1>5 DEF TreeShape, SetShape
<1>7. RankedBy(t, h, N)
  BY <1>2 DEF RankedBy, RankedSets
<1>8. Sets(t) = below
  BY <1>2, <1>3 DEF Sets
<1>9. QED
  BY <1>6, <1>7, <1>8 DEF Tree

\* The other top chunks go into the first one.
Attached(D, below, a) ==
    [d \in D |-> IF d = Sentence THEN {a} ELSE IF d = a THEN below[a] \cup (below[Sentence] \ {a}) ELSE below[d]]

\* It is a tree again: the first chunk gets a rank above the others.
LEMMA AttachedShape ==
    ASSUME NEW D, NEW below, SetShape(D, below), NEW a \in below[Sentence],
           NEW h, NEW N, RankedSets(D, below, h, N)
    PROVE  /\ SetShape(D, Attached(D, below, a))
           /\ \E g, M : RankedSets(D, Attached(D, below, a), g, M)
<1> DEFINE b == Attached(D, below, a)
<1>1. /\ Sentence \in D /\ IsFiniteSet(D)
      /\ \A d \in D : below[d] \subseteq D \ {Sentence}
  BY DEF SetShape
<1>2. a \in D /\ a # Sentence /\ IsChunk(a) /\ ~IsWord(a)
  BY <1>1, ElementKinds DEF SetShape
<1>3. b[Sentence] = {a} /\ b[a] = below[a] \cup (below[Sentence] \ {a})
      /\ \A d \in D : d # a /\ d # Sentence => b[d] = below[d]
  BY <1>1, <1>2 DEF Attached
<1>4. b \in [D -> SUBSET (D \ {Sentence})]
  BY <1>1, <1>2 DEF Attached
<1>5. a \notin below[a]
  <2>1. h[a] \in Nat /\ (a \in below[a] => h[a] < h[a])
    BY <1>2 DEF RankedSets
  <2>2. QED
    BY <2>1
<1>6. \A p, q \in D : \A x : x \in below[p] /\ x \in below[q] => p = q
  BY DEF SetShape
<1>7. SetShape(D, b)
  <2>1. \A k \in b[Sentence] : IsChunk(k)
    BY <1>2, <1>3
  <2>2. \A e \in D : IsWord(e) => \A k \in b[e] : IsWord(k)
    <3>1. \A e \in D : IsWord(e) => e # a /\ e # Sentence
      BY <1>2, Kinds
    <3>2. \A e \in D : IsWord(e) => \A k \in below[e] : IsWord(k)
      BY DEF SetShape
    <3>3. QED
      BY <1>3, <3>1, <3>2
  <2>3. \A p, q \in D : \A x : x \in b[p] /\ x \in b[q] => p = q
    <3>1. \A p \in D : \A x \in b[p] : \/ p = Sentence /\ x = a
                                       \/ p = a /\ x # a /\ (x \in below[a] \/ x \in below[Sentence])
                                       \/ p # Sentence /\ p # a /\ x \in below[p]
      BY <1>3, <1>5
    <3>2. QED
      BY <1>1, <1>2, <1>6, <3>1
  <2>4. \A e \in D \ {Sentence} : \E p \in D : e \in b[p]
    <3> TAKE e \in D \ {Sentence}
    <3>1. PICK p \in D : e \in below[p]
      BY DEF SetShape
    <3>2. CASE p = Sentence
      BY <1>1, <1>2, <1>3, <3>1, <3>2
    <3>3. CASE p # Sentence
      BY <1>3, <3>1, <3>3
    <3>4. QED
      BY <3>2, <3>3
  <2> HIDE DEF b
  <2>5. QED
    BY <1>1, <1>4, <2>1, <2>2, <2>3, <2>4 DEF SetShape
<1> DEFINE g == [d \in D |-> IF d = a THEN h[Sentence] ELSE IF d = Sentence THEN h[Sentence] + 1 ELSE h[d]]
<1>8. N \in Nat /\ h \in [D -> 0 .. N] /\ \A p \in D : \A x \in below[p] : h[x] < h[p]
  BY DEF RankedSets
<1>9. g[a] = h[Sentence] /\ g[Sentence] = h[Sentence] + 1 /\ h[Sentence] \in 0 .. N
      /\ \A d \in D : d # a /\ d # Sentence => g[d] = h[d]
  BY <1>1, <1>2, <1>8
<1>10. \A d \in D : g[d] \in 0 .. N + 1
  BY <1>8, <1>9
<1>11. g \in [D -> 0 .. N + 1]
  BY <1>10
<1> HIDE DEF g
<1>12. \A p \in D : \A x \in b[p] : g[x] < g[p]
  <2> TAKE p \in D
  <2> TAKE x \in b[p]
  <2>1. CASE p = Sentence
    BY <1>3, <1>9, <2>1
  <2>2. CASE p = a
    <3>1. x # a /\ x # Sentence /\ x \in D /\ (x \in below[a] \/ x \in below[Sentence])
      BY <1>1, <1>2, <1>3, <1>5, <2>2
    <3>2. g[x] = h[x] /\ h[x] \in Nat /\ h[a] \in Nat /\ h[Sentence] \in Nat
      BY <1>1, <1>2, <1>8, <1>9, <3>1
    <3>3. h[a] < h[Sentence]
      BY <1>1, <1>8
    <3>4. h[x] < h[a] \/ h[x] < h[Sentence]
      BY <1>1, <1>2, <1>8, <3>1
    <3>5. QED
      BY <1>9, <2>2, <3>2, <3>3, <3>4
  <2>3. CASE p # Sentence /\ p # a
    <3>1. x \in below[p] /\ x \in D /\ x # Sentence /\ g[p] = h[p] /\ h[x] < h[p]
      BY <1>1, <1>3, <1>8, <1>9, <2>3
    <3>2. x # a
      BY <1>1, <1>6, <2>3, <3>1
    <3>3. QED
      BY <1>9, <3>1, <3>2
  <2>4. QED
    BY <2>1, <2>2, <2>3
<1>13. N + 1 \in Nat
  BY <1>8
<1> HIDE DEF b
<1>14. RankedSets(D, b, g, N + 1)
  BY <1>11, <1>12, <1>13 DEF RankedSets
<1>15. QED
  BY <1>7, <1>14 DEF b

\* The clones of a word come under its parent.
Cloned(D, below, p, C) ==
    [d \in D \cup C |-> IF d \in C THEN {} ELSE IF d = p THEN below[p] \cup C ELSE below[d]]

\* It is a tree again: what has no children may have any rank.
LEMMA ClonedShape ==
    ASSUME NEW D, NEW below, SetShape(D, below), NEW p \in D, p # Sentence,
           NEW C, IsFiniteSet(C), C \cap D = {}, \A e \in C : IsElement(e) /\ IsWord(e),
           NEW h, NEW N, RankedSets(D, below, h, N)
    PROVE  /\ SetShape(D \cup C, Cloned(D, below, p, C))
           /\ \E g, M : RankedSets(D \cup C, Cloned(D, below, p, C), g, M)
<1> DEFINE b == Cloned(D, below, p, C)
           E == D \cup C
<1>1. /\ Sentence \in D /\ IsFiniteSet(D)
      /\ \A d \in D : below[d] \subseteq D \ {Sentence}
  BY DEF SetShape
<1>2. Sentence \notin C
  BY Kinds
<1>3. /\ \A e \in C : b[e] = {}
      /\ b[p] = below[p] \cup C
      /\ \A d \in D : d # p => b[d] = below[d]
      /\ \A d \in D : d \notin C
  BY DEF Cloned
<1>4. \A d \in E : b[d] \subseteq E \ {Sentence}
  BY <1>1, <1>2, <1>3
<1>5. b \in [E -> SUBSET (E \ {Sentence})]
  BY <1>4 DEF Cloned
<1>6. IsFiniteSet(E)
  BY <1>1, FS_Union
<1>7. SetShape(E, b)
  <2>1. \A e \in E \ {Sentence} : IsElement(e)
    BY DEF SetShape
  <2>2. \A k \in b[Sentence] : IsChunk(k)
    BY <1>1, <1>3 DEF SetShape
  <2>3. \A e \in E : IsWord(e) => \A k \in b[e] : IsWord(k)
    BY <1>3 DEF SetShape
  <2>4. \A q, r \in E : \A x : x \in b[q] /\ x \in b[r] => q = r
    <3>1. \A q \in E : \A x \in b[q] : \/ q = p /\ x \in C
                                       \/ q \in D /\ x \in below[q]
      BY <1>3
    <3>2. \A q \in D : \A x \in below[q] : x \notin C
      BY <1>1
    <3>3. \A q, r \in D : \A x : x \in below[q] /\ x \in below[r] => q = r
      BY DEF SetShape
    <3>4. QED
      BY <3>1, <3>2, <3>3
  <2>5. \A e \in E \ {Sentence} : \E q \in E : e \in b[q]
    <3>1. \A e \in D \ {Sentence} : \E q \in D : e \in below[q]
      BY DEF SetShape
    <3>2. \A q \in D : below[q] \subseteq b[q]
      BY <1>3
    <3>3. QED
      BY <1>3, <3>1, <3>2
  <2> HIDE DEF b, E
  <2>6. QED
    BY <1>1, <1>5, <1>6, <2>1, <2>2, <2>3, <2>4, <2>5 DEF SetShape, E
<1>8. N \in Nat /\ h \in [D -> 0 .. N] /\ \A q \in D : \A x \in below[q] : h[x] < h[q]
  BY DEF RankedSets
<1> DEFINE g == [d \in E |-> IF d \in C THEN 0 ELSE h[d] + 1]
<1>9. (\A d \in C : g[d] = 0) /\ (\A d \in D : g[d] = h[d] + 1 /\ h[d] \in 0 .. N)
  BY <1>3, <1>8
<1>10. \A d \in E : g[d] \in 0 .. N + 1
  BY <1>8, <1>9
<1>11. g \in [E -> 0 .. N + 1]
  BY <1>10
<1> HIDE DEF g
<1>12. \A q \in E : \A x \in b[q] : g[x] < g[q]
  <2> TAKE q \in E
  <2> TAKE x \in b[q]
  <2>1. q \in D /\ (x \in C \/ x \in below[q])
    BY <1>3
  <2>2. CASE x \in C
    BY <1>9, <2>1, <2>2
  <2>3. CASE x \in below[q]
    BY <1>1, <1>8, <1>9, <2>1, <2>3
  <2>4. QED
    BY <2>1, <2>2, <2>3
<1>13. N + 1 \in Nat
  BY <1>8
<1> HIDE DEF b
<1>14. RankedSets(E, b, g, N + 1)
  BY <1>11, <1>12, <1>13 DEF RankedSets
<1>15. QED
  BY <1>7, <1>14 DEF b

\* A word goes into the last of the new chunks, which come into the chunk it was in.
Chunked(D, below, c, w, New, last) ==
    [d \in D \cup New |-> IF d = last THEN {w}
                          ELSE IF d \in New THEN {}
                          ELSE IF d = c THEN (below[c] \ {w}) \cup New ELSE below[d] \ {w}]

\* It is a tree again: the word keeps its rank, with the new chunks between it and the old one.
LEMMA ChunkedShape ==
    ASSUME NEW D, NEW below, SetShape(D, below), NEW c \in D, IsChunk(c), NEW w \in D, IsWord(w),
           NEW New, IsFiniteSet(New), New \cap D = {}, \A e \in New : IsElement(e) /\ IsChunk(e),
           NEW last \in New,
           NEW h, NEW N, RankedSets(D, below, h, N), h[w] < h[c]
    PROVE  /\ SetShape(D \cup New, Chunked(D, below, c, w, New, last))
           /\ \E g, M : RankedSets(D \cup New, Chunked(D, below, c, w, New, last), g, M)
<1> DEFINE b == Chunked(D, below, c, w, New, last)
           E == D \cup New
<1>1. /\ Sentence \in D /\ IsFiniteSet(D)
      /\ \A d \in D : below[d] \subseteq D \ {Sentence}
      /\ \A q, r \in D : \A x : x \in below[q] /\ x \in below[r] => q = r
  BY DEF SetShape
<1>2. Sentence \notin New /\ w # Sentence /\ c # Sentence
  BY Kinds
<1>3. /\ b[last] = {w}
      /\ \A e \in New : e # last => b[e] = {}
      /\ b[c] = (below[c] \ {w}) \cup New
      /\ \A d \in D : d # c => b[d] = below[d] \ {w}
      /\ \A d \in D : d \notin New
  BY DEF Chunked
<1>4. \A d \in E : b[d] \subseteq E \ {Sentence}
  BY <1>1, <1>2, <1>3
<1>5. b \in [E -> SUBSET (E \ {Sentence})]
  BY <1>4 DEF Chunked
<1>6. IsFiniteSet(E)
  BY <1>1, FS_Union
<1>7. \A q \in E : \A x \in b[q] : \/ q = last /\ x = w
                                   \/ q = c /\ x \in New
                                   \/ q \in D /\ x \in below[q] /\ x # w /\ x \in D
  BY <1>1, <1>3
<1>8. SetShape(E, b)
  <2>1. \A e \in E \ {Sentence} : IsElement(e)
    BY DEF SetShape
  <2>2. \A k \in b[Sentence] : IsChunk(k)
    BY <1>1, <1>2, <1>3 DEF SetShape
  <2>3. \A e \in E : IsWord(e) => \A k \in b[e] : IsWord(k)
    <3>1. \A e \in D : IsWord(e) => \A k \in below[e] : IsWord(k)
      BY DEF SetShape
    <3>2. ~IsWord(last) /\ ~IsWord(c)
      BY <2>1, <1>2, ElementKinds
    <3>3. QED
      BY <1>7, <3>1, <3>2
  <2>4. \A q, r \in E : \A x : x \in b[q] /\ x \in b[r] => q = r
    BY <1>1, <1>3, <1>7
  <2>5. \A e \in E \ {Sentence} : \E q \in E : e \in b[q]
    <3> TAKE e \in E \ {Sentence}
    <3>1. CASE e = w
      BY <1>3, <3>1
    <3>2. CASE e \in New
      BY <1>3, <3>2
    <3>3. CASE e \in D /\ e # w
      <4>1. PICK q \in D : e \in below[q]
        BY <3>3 DEF SetShape
      <4>2. QED
        BY <1>3, <3>3, <4>1
    <3>4. QED
      BY <3>1, <3>2, <3>3
  <2> HIDE DEF b, E
  <2>6. QED
    BY <1>1, <1>5, <1>6, <2>1, <2>2, <2>3, <2>4, <2>5 DEF SetShape, E
<1>9. N \in Nat /\ h \in [D -> 0 .. N] /\ \A q \in D : \A x \in below[q] : h[x] < h[q]
  BY DEF RankedSets
<1> DEFINE g == [d \in E |-> IF d = last THEN 2 * h[c] ELSE IF d \in New THEN 0 ELSE 2 * h[d] + 1]
<1>10. /\ g[last] = 2 * h[c]
       /\ \A d \in New : d # last => g[d] = 0
       /\ \A d \in D : g[d] = 2 * h[d] + 1 /\ h[d] \in 0 .. N
  BY <1>3, <1>9
<1>11. h[c] \in 0 .. N /\ h[w] \in 0 .. N
  BY <1>9
<1>12. \A d \in E : g[d] \in 0 .. 2 * N + 1
  <2>1. \A k \in 0 .. N : 2 * k \in 0 .. 2 * N + 1 /\ 2 * k + 1 \in 0 .. 2 * N + 1
    BY <1>9
  <2>2. 0 \in 0 .. 2 * N + 1
    BY <1>9
  <2> HIDE DEF g
  <2>3. QED
    BY <1>10, <1>11, <2>1, <2>2
<1>13. g \in [E -> 0 .. 2 * N + 1]
  BY <1>12
<1> HIDE DEF g
<1>14. \A q \in E : \A x \in b[q] : g[x] < g[q]
  <2> TAKE q \in E
  <2> TAKE x \in b[q]
  <2>1. CASE q = last /\ x = w
    BY <1>10, <1>11, <2>1
  <2>2. CASE q = c /\ x \in New
    BY <1>10, <1>11, <2>2
  <2>3. CASE q \in D /\ x \in below[q] /\ x \in D
    BY <1>9, <1>10, <2>3
  <2>4. QED
    BY <1>7, <2>1, <2>2, <2>3
<1>15. 2 * N + 1 \in Nat
  BY <1>9
<1> HIDE DEF b
<1>16. RankedSets(E, b, g, 2 * N + 1)
  BY <1>13, <1>14, <1>15 DEF RankedSets
<1>17. QED
  BY <1>8, <1>16 DEF b

\* A chunk moves up.
Moved(D, below, c, p) == [d \in D |-> IF d = p THEN (below[p] \ {c}) \cup {c} ELSE below[d] \ {c}]

\* It is a tree again, with the ranks it had.
LEMMA MovedShape ==
    ASSUME NEW D, NEW below, SetShape(D, below), NEW c \in D, IsChunk(c), NEW p \in D, IsChunk(p),
           NEW h, NEW N, RankedSets(D, below, h, N), h[c] < h[p]
    PROVE  SetShape(D, Moved(D, below, c, p)) /\ RankedSets(D, Moved(D, below, c, p), h, N)
<1> DEFINE b == Moved(D, below, c, p)
<1>1. /\ Sentence \in D /\ IsFiniteSet(D)
      /\ \A d \in D : below[d] \subseteq D \ {Sentence}
      /\ \A q, r \in D : \A x : x \in below[q] /\ x \in below[r] => q = r
      /\ \A e \in D \ {Sentence} : IsElement(e)
  BY DEF SetShape
<1>2. p # Sentence /\ c # Sentence /\ ~IsWord(p)
  BY <1>1, Kinds, ElementKinds
<1>3. /\ b[p] = below[p] \cup {c}
      /\ \A d \in D : d # p => b[d] = below[d] \ {c}
  BY DEF Moved
<1>4. b \in [D -> SUBSET (D \ {Sentence})]
  BY <1>1, <1>2, <1>3 DEF Moved
<1>5. \A q \in D : \A x \in b[q] : (q = p /\ x = c) \/ (x \in below[q] /\ x # c)
  BY <1>3
<1>6. SetShape(D, b)
  <2>1. \A k \in b[Sentence] : IsChunk(k)
    BY <1>1, <1>2, <1>3 DEF SetShape
  <2>2. \A e \in D : IsWord(e) => \A k \in b[e] : IsWord(k)
    BY <1>2, <1>5 DEF SetShape
  <2>3. \A q, r \in D : \A x : x \in b[q] /\ x \in b[r] => q = r
    BY <1>1, <1>5
  <2>4. \A e \in D \ {Sentence} : \E q \in D : e \in b[q]
    <3> TAKE e \in D \ {Sentence}
    <3>1. CASE e = c
      BY <1>3, <3>1
    <3>2. CASE e # c
      <4>1. PICK q \in D : e \in below[q]
        BY DEF SetShape
      <4>2. QED
        BY <1>3, <3>2, <4>1
    <3>3. QED
      BY <3>1, <3>2
  <2> HIDE DEF b
  <2>5. QED
    BY <1>1, <1>4, <2>1, <2>2, <2>3, <2>4 DEF SetShape
<1>7. N \in Nat /\ h \in [D -> 0 .. N] /\ \A q \in D : \A x \in below[q] : h[x] < h[q]
  BY DEF RankedSets
<1>8. \A q \in D : \A x \in b[q] : h[x] < h[q]
  BY <1>5, <1>7
<1>9. RankedSets(D, b, h, N)
  BY <1>7, <1>8 DEF RankedSets
<1>10. QED
  BY <1>6, <1>9

\* Two sequences without a common member, one after the other.
LEMMA CatLists ==
    ASSUME NEW S, NEW s, Lists(s, S), NEW T, NEW t, Lists(t, T), S \cap T = {}
    PROVE  Lists(Cat(s, t), S \cup T)
<1> DEFINE U == S \cup T
<1>1. Seq(S) \subseteq Seq(U) /\ Seq(T) \subseteq Seq(U)
  BY SeqMonotonic
<1>2. s \in Seq(U) /\ t \in Seq(U) /\ Range(s) = S /\ Range(t) = T /\ Distinct(s) /\ Distinct(t)
  BY <1>1 DEF Lists
<1> HIDE DEF U
<1>3. Cat(s, t) \in Seq(U)
  BY <1>2, CatLaws
<1>4. Range(Cat(s, t)) = S \cup T
  BY <1>2, RangeCat
<1>5. Distinct(Cat(s, t))
  BY <1>2, CatDistinct
<1>6. QED
  BY <1>3, <1>4, <1>5 DEF Lists, U

\* The first member, and the others.
LEMMA FirstAndRest ==
    ASSUME NEW S, NEW s, Lists(s, S), S # {}
    PROVE  s[1] \in S /\ Lists(Tail(s), S \ {s[1]})
<1>1. s \in Seq(S) /\ Range(s) = S /\ Distinct(s)
  BY DEF Lists
<1>2. s # <<>>
  BY <1>1, NoMembers
<1> DEFINE e == Head(s)
           r == Tail(s)
<1>3. e \in S /\ r \in Seq(S) /\ s = Cat(<<e>>, r)
  BY <1>1, <1>2, CatHeadTail
<1>4. e = s[1]
  BY DEF e
<1> HIDE DEF e, r
<1>5. <<e>> \in Seq(S) /\ Range(<<e>>) = {e}
  <2>1. <<e>> \in Seq({e}) /\ Range(<<e>>) = {e}
    BY OneMember DEF Lists
  <2>2. {e} \subseteq S
    BY <1>3
  <2>3. QED
    BY <2>1, <2>2, SeqMonotonic
<1>6. Range(s) = Range(<<e>>) \cup Range(r)
  <2>1. <<e>> \in Seq(S) /\ r \in Seq(S)
    BY <1>3, <1>5
  <2>2. Range(Cat(<<e>>, r)) = Range(<<e>>) \cup Range(r)
    BY <2>1, RangeCat
  <2>3. QED
    BY <1>3, <2>2
<1>7. Distinct(r) /\ Range(<<e>>) \cap Range(r) = {}
  BY <1>1, <1>3, <1>5, CatDistinct
<1>8. Range(r) = S \ {e}
  BY <1>1, <1>5, <1>6, <1>7
<1>9. r \in Seq(Range(r))
  BY <1>3, ElementsAre
<1>10. Lists(r, S \ {e})
  BY <1>7, <1>8, <1>9 DEF Lists
<1>11. QED
  BY <1>3, <1>4, <1>10 DEF r

\* Members that are put in after another one.
LEMMA PutIn ==
    ASSUME NEW S, NEW s, Lists(s, S), NEW T, NEW t, Lists(t, T), S \cap T = {}, NEW i \in 1 .. Len(s)
    PROVE  Lists(SubSeq(s, 1, i) \o t \o SubSeq(s, i + 1, Len(s)), S \cup T)
<1> DEFINE a == SubSeq(s, 1, i)
           b == SubSeq(s, i + 1, Len(s))
<1>1. s \in Seq(S) /\ Range(s) = S /\ Distinct(s) /\ Len(s) \in Nat
  BY LenProperties DEF Lists
<1>2. i \in 0 .. Len(s)
  BY <1>1
<1>3. a \in Seq(S) /\ b \in Seq(S) /\ Cat(a, b) = s
  BY <1>1, <1>2, SplitAt DEF Cat
<1>4. SubSeq(s, 1, i) \o t \o SubSeq(s, i + 1, Len(s)) = Cat(Cat(a, t), b)
  BY DEF Cat
<1> HIDE DEF a, b
<1>5. Range(a) \cup Range(b) = S
  BY <1>1, <1>3, RangeCat
<1>6. Distinct(a) /\ Distinct(b) /\ Range(a) \cap Range(b) = {}
  BY <1>1, <1>3, CatDistinct
<1>7. Lists(a, Range(a)) /\ Lists(b, Range(b))
  BY <1>3, <1>6, ElementsAre DEF Lists
<1>8. Lists(Cat(a, t), Range(a) \cup T)
  <2>1. Range(a) \cap T = {}
    BY <1>5
  <2>2. QED
    BY <1>7, <2>1, CatLists
<1>9. Lists(Cat(Cat(a, t), b), (Range(a) \cup T) \cup Range(b))
  <2>1. (Range(a) \cup T) \cap Range(b) = {}
    BY <1>5, <1>6
  <2>2. QED
    BY <1>7, <1>8, <2>1, CatLists
<1>10. (Range(a) \cup T) \cup Range(b) = S \cup T
  BY <1>5
<1>11. QED
  BY <1>4, <1>9, <1>10

\* Joining the top chunks makes a tree.
LEMMA AttachTree ==
    ASSUME NEW t, Tree(t), t[Sentence] # <<>>, NEW tops, tops = Only(t[Sentence], ChunksIn(t)),
           NEW u, u = [t EXCEPT ![Sentence] = <<tops[1]>>, ![tops[1]] = @ \o Tail(tops)]
    PROVE  /\ Tree(u) /\ DOMAIN u = DOMAIN t
           /\ tops[1] \in Sets(t)[Sentence] /\ Sets(u) = Attached(DOMAIN t, Sets(t), tops[1])
<1> DEFINE D == DOMAIN t
           a == tops[1]
<1>1. PICK h, N : RankedBy(t, h, N)
  BY DEF Tree
<1>2. SetShape(D, Sets(t)) /\ RankedSets(D, Sets(t), h, N) /\ HasRows(t, Sets(t))
  BY <1>1, TreeIsSets DEF Tree
<1>3. Sentence \in D /\ \A d \in D : Lists(t[d], Sets(t)[d]) /\ Sets(t)[d] = Range(t[d])
  BY <1>2 DEF SetShape, HasRows, Sets
<1>4. tops = t[Sentence]
  <2>1. t[Sentence] \in Seq(Sets(t)[Sentence])
    BY <1>3 DEF Lists
  <2>2. Sets(t)[Sentence] \subseteq ChunksIn(t)
    BY <1>2, <1>3 DEF SetShape, ChunksIn
  <2>3. t[Sentence] \in Seq(ChunksIn(t))
    BY <2>1, <2>2, SeqMonotonic
  <2>4. QED
    BY <2>3, OnlyAll
<1>5. Sets(t)[Sentence] # {}
  BY <1>3, TreeRows
<1>6. a \in Sets(t)[Sentence] /\ Lists(Tail(tops), Sets(t)[Sentence] \ {a})
  BY <1>3, <1>4, <1>5, FirstAndRest
<1>7. a \in D /\ a # Sentence
  BY <1>2, <1>3, <1>6 DEF SetShape
<1> HIDE DEF a
<1>8. DOMAIN u = D /\ u = [d \in D |-> u[d]]
  OBVIOUS
<1>9. u[Sentence] = <<a>> /\ u[a] = Cat(t[a], Tail(tops)) /\ \A d \in D : d # a /\ d # Sentence => u[d] = t[d]
  BY <1>3, <1>7 DEF Cat, a
<1> DEFINE b == Attached(D, Sets(t), a)
<1>10. \A d \in D : Lists(u[d], b[d])
  <2> TAKE d \in D
  <2>1. CASE d = Sentence
    <3>1. b[d] = {a}
      BY <2>1 DEF Attached
    <3>2. QED
      BY <1>9, <2>1, <3>1, OneMember
  <2>2. CASE d = a
    <3>1. b[d] = Sets(t)[a] \cup (Sets(t)[Sentence] \ {a})
      BY <1>7, <2>2 DEF Attached
    <3>2. Sets(t)[a] \cap (Sets(t)[Sentence] \ {a}) = {}
      BY <1>2, <1>3, <1>7 DEF SetShape
    <3>3. Lists(Cat(t[a], Tail(tops)), Sets(t)[a] \cup (Sets(t)[Sentence] \ {a}))
      BY <1>3, <1>6, <1>7, <3>2, CatLists
    <3>4. QED
      BY <1>9, <2>2, <3>1, <3>3
  <2>3. CASE d # Sentence /\ d # a
    BY <1>3, <1>9, <2>3 DEF Attached
  <2>4. QED
    BY <2>1, <2>2, <2>3
<1> HIDE DEF b
<1>11. HasRows(u, b)
  BY <1>8, <1>10 DEF HasRows
<1>12. SetShape(DOMAIN u, b) /\ \E g, M : RankedSets(DOMAIN u, b, g, M)
  BY <1>2, <1>6, <1>8, AttachedShape DEF b
<1>13. Tree(u) /\ Sets(u) = b
  BY <1>11, <1>12, TreeFromSets
<1>14. QED
  BY <1>6, <1>8, <1>13 DEF b, a

WithClones(t, w, p, clones) ==
    [e \in DOMAIN t \cup ToSet(clones) |->
       CASE e \in ToSet(clones) -> <<>>
         [] e = p -> LET at == Pos(t[p], w)
                     IN SubSeq(t[p], 1, at) \o clones \o SubSeq(t[p], at + 1, Len(t[p]))
         [] OTHER -> t[e]]

AllWords(C) == \A e \in C : IsElement(e) /\ IsWord(e)
AllChunks(C) == \A e \in C : IsElement(e) /\ IsChunk(e)

\* Splitting a word makes a tree.
LEMMA CloneTree ==
    ASSUME NEW t, Tree(t), NEW w \in WordsIn(t), NEW p, p = Over(t, w),
           NEW clones, NEW C, Lists(clones, C), C \cap DOMAIN t = {}, AllWords(C),
           NEW u, u = WithClones(t, w, p, clones)
    PROVE  /\ Tree(u) /\ DOMAIN u = DOMAIN t \cup C
           /\ p \in DOMAIN t /\ w \in Sets(t)[p]
           /\ Sets(u) = Cloned(DOMAIN t, Sets(t), p, C)
<1> DEFINE D == DOMAIN t
           at == Pos(t[p], w)
<1>1. PICK h, N : RankedBy(t, h, N)
  BY DEF Tree
<1>2. SetShape(D, Sets(t)) /\ RankedSets(D, Sets(t), h, N) /\ HasRows(t, Sets(t))
  BY <1>1, TreeIsSets DEF Tree
<1>3. Sentence \in D /\ \A d \in D : Lists(t[d], Sets(t)[d]) /\ Sets(t)[d] = Range(t[d])
  BY <1>2 DEF SetShape, HasRows, Sets
<1>4. w \in D /\ IsWord(w) /\ w # Sentence
  BY Kinds DEF WordsIn
<1>5. p \in D /\ w \in Sets(t)[p]
  BY <1>3, <1>4, OverIs
<1>6. p # Sentence
  <2>1. ~IsChunk(w)
    BY <1>2, <1>4, ElementKinds DEF SetShape
  <2>2. QED
    BY <1>2, <1>5, <2>1 DEF SetShape
<1>7. ToSet(clones) = C /\ IsFiniteSet(C)
  BY ElementsAre, ListsLength DEF Lists
<1>8. at \in 1 .. Len(t[p])
  BY <1>3, <1>5, PosIs
<1>9. DOMAIN u = D \cup C /\ u = [d \in D \cup C |-> u[d]]
  BY <1>7 DEF WithClones
<1>10. \A d \in C : u[d] = <<>>
  BY <1>5, <1>7 DEF WithClones
<1>11. u[p] = SubSeq(t[p], 1, at) \o clones \o SubSeq(t[p], at + 1, Len(t[p]))
  <2>1. p \notin C
    BY <1>5
  <2>2. QED
    BY <1>5, <1>7, <2>1 DEF WithClones
<1>12. \A d \in D : d # p => u[d] = t[d]
  BY <1>7 DEF WithClones
<1> DEFINE b == Cloned(D, Sets(t), p, C)
<1>13. \A d \in D \cup C : Lists(u[d], b[d])
  <2> TAKE d \in D \cup C
  <2>1. CASE d \in C
    <3>1. b[d] = {}
      BY <2>1 DEF Cloned
    <3>2. QED
      BY <1>10, <2>1, <3>1, NoMembers DEF Lists
  <2>2. CASE d = p
    <3>1. b[d] = Sets(t)[p] \cup C /\ Sets(t)[p] \cap C = {}
      BY <1>2, <1>5, <2>2 DEF Cloned, SetShape
    <3>2. Lists(u[p], Sets(t)[p] \cup C)
      <4> DEFINE S == Sets(t)[p]
                 s == t[p]
      <4>1. Lists(s, S) /\ S \cap C = {} /\ at \in 1 .. Len(s)
        BY <1>3, <1>5, <1>8, <3>1
      <4>2. u[p] = SubSeq(s, 1, at) \o clones \o SubSeq(s, at + 1, Len(s))
        BY <1>11
      <4> HIDE DEF S, s, at
      <4>3. Lists(SubSeq(s, 1, at) \o clones \o SubSeq(s, at + 1, Len(s)), S \cup C)
        BY <4>1, PutIn
      <4>4. QED
        BY <4>2, <4>3 DEF S
    <3>3. QED
      BY <2>2, <3>1, <3>2
  <2>3. CASE d \in D /\ d # p
    <3>1. b[d] = Sets(t)[d]
      BY <2>3 DEF Cloned
    <3>2. QED
      BY <1>3, <1>12, <2>3, <3>1
  <2>4. QED
    BY <2>1, <2>2, <2>3
<1> HIDE DEF b
<1>14. HasRows(u, b)
  BY <1>9, <1>13 DEF HasRows
<1>15. SetShape(D \cup C, b) /\ \E g, M : RankedSets(D \cup C, b, g, M)
  BY <1>2, <1>5, <1>6, <1>7, ClonedShape DEF b, AllWords
<1>16. Tree(u) /\ Sets(u) = b
  BY <1>9, <1>14, <1>15, TreeFromSets
<1>17. QED
  BY <1>5, <1>9, <1>16 DEF b

WithChunks(t, w, c, new) ==
    [e \in DOMAIN t \cup ToSet(new) |->
       CASE e \in ToSet(new) -> IF e = Last(new) THEN <<w>> ELSE <<>>
         [] e = c -> Without(t[c], {w}) \o new
         [] OTHER -> Without(t[e], {w})]

\* A word of a chunk, and chunks that are new.
Raises(t, w, c, new, New) ==
    /\ w \in WordsIn(t) /\ c \in ChunksIn(t) /\ Contains(OwnWords(t, c), w)
    /\ Lists(new, New) /\ New # {} /\ New \cap DOMAIN t = {} /\ AllChunks(New)

\* Raising a word to chunks makes a tree.
LEMMA ChunkedTree ==
    ASSUME NEW t, Tree(t), NEW w, NEW c, NEW new, NEW New, Raises(t, w, c, new, New),
           NEW u, u = WithChunks(t, w, c, new)
    PROVE  /\ Tree(u) /\ DOMAIN u = DOMAIN t \cup New
           /\ Sets(u) = Chunked(DOMAIN t, Sets(t), c, w, New, Last(new))
<1> DEFINE D == DOMAIN t
           last == Last(new)
<1> USE DEF Raises
<1>1. PICK h, N : RankedBy(t, h, N)
  BY DEF Tree
<1>2. SetShape(D, Sets(t)) /\ RankedSets(D, Sets(t), h, N) /\ HasRows(t, Sets(t))
  BY <1>1, TreeIsSets DEF Tree
<1>3. Sentence \in D /\ \A d \in D : Lists(t[d], Sets(t)[d]) /\ Sets(t)[d] = Range(t[d])
  BY <1>2 DEF SetShape, HasRows, Sets
<1>4. w \in D /\ IsWord(w) /\ c \in D /\ IsChunk(c)
  BY DEF WordsIn, ChunksIn
<1>5. w # c
  BY <1>2, <1>4, Kinds, ElementKinds DEF SetShape
<1>6. h[w] < h[c]
  <2> DEFINE g == [d \in D |-> h[d]]
  <2>1. Families(t, D, WordFamily(t))
    BY WordFamilies
  <2>2. Ranks(D, WordFamily(t), g, N) /\ Heads(D, WordFamily(t))
    BY <1>1, <2>1, FamiliesRanked DEF Tree
  <2>3. g[w] = h[w] /\ g[c] = h[c]
    BY <1>4
  <2>4. w \in Below(WordFamily(t), c)
    BY <1>4, ChunkWords
  <2> HIDE DEF g
  <2>5. g[w] < g[c]
    BY <1>4, <1>5, <2>2, <2>4, BelowRank
  <2>6. QED
    BY <2>3, <2>5
<1>7. ToSet(new) = New /\ IsFiniteSet(New) /\ last \in New
  <2>1. ToSet(new) = New /\ IsFiniteSet(New)
    BY ElementsAre, ListsLength DEF Lists
  <2>2. new \in Seq(New) /\ new # <<>>
    BY NoMembers DEF Lists
  <2>3. last \in New
    <3>1. Len(new) \in Nat /\ Len(new) # 0 /\ DOMAIN new = 1 .. Len(new)
      BY <2>2, EmptySeq, LenProperties
    <3>2. Len(new) \in DOMAIN new
      BY <3>1
    <3>3. Last(new) = new[Len(new)]
      BY DEF Last
    <3>4. QED
      BY <2>2, <3>2, <3>3, ElementOfSeq, <3>1
  <2>4. QED
    BY <2>1, <2>3
<1> HIDE DEF last
<1>8. DOMAIN u = D \cup New /\ u = [d \in D \cup New |-> u[d]]
  BY <1>7 DEF WithChunks
<1>9. \A d \in New : u[d] = IF d = last THEN <<w>> ELSE <<>>
  <2>1. c \notin New
    BY <1>4
  <2>2. QED
    BY <1>7, <2>1 DEF last, WithChunks
<1>10. u[c] = Cat(Without(t[c], {w}), new)
  <2>1. c \notin New
    BY <1>4
  <2>2. QED
    BY <1>4, <1>7, <2>1 DEF Cat, WithChunks
<1>11. \A d \in D : d # c => u[d] = Without(t[d], {w})
  BY <1>7 DEF WithChunks
<1>12. \A d \in D : Lists(Without(t[d], {w}), Sets(t)[d] \ {w})
  BY <1>3, TakenOut
<1> DEFINE b == Chunked(D, Sets(t), c, w, New, last)
<1>13. \A d \in D \cup New : Lists(u[d], b[d])
  <2> TAKE d \in D \cup New
  <2>1. CASE d \in New /\ d # last
    <3>1. b[d] = {} /\ u[d] = <<>>
      BY <1>9, <2>1 DEF Chunked
    <3>2. QED
      BY <3>1, NoMembers DEF Lists
  <2>2. CASE d = last
    <3>1. b[d] = {w} /\ u[d] = <<w>>
      BY <1>7, <1>9, <2>2 DEF Chunked
    <3>2. QED
      BY <3>1, OneMember
  <2>3. CASE d = c
    <3>1. c \notin New
      BY <1>4
    <3>2. b[d] = (Sets(t)[c] \ {w}) \cup New /\ (Sets(t)[c] \ {w}) \cap New = {}
      BY <1>2, <1>4, <1>7, <2>3, <3>1 DEF Chunked, SetShape
    <3>3. Lists(Cat(Without(t[c], {w}), new), (Sets(t)[c] \ {w}) \cup New)
      BY <1>4, <1>12, <3>2, CatLists
    <3>4. QED
      BY <1>10, <2>3, <3>2, <3>3
  <2>4. CASE d \in D /\ d # c
    <3>1. b[d] = Sets(t)[d] \ {w}
      BY <1>7, <2>4 DEF Chunked
    <3>2. QED
      BY <1>11, <1>12, <2>4, <3>1
  <2>5. QED
    BY <2>1, <2>2, <2>3, <2>4
<1> HIDE DEF b
<1>14. HasRows(u, b)
  BY <1>8, <1>13 DEF HasRows
<1>15. SetShape(D \cup New, b) /\ \E g, M : RankedSets(D \cup New, b, g, M)
  BY <1>2, <1>4, <1>6, <1>7, ChunkedShape DEF b, AllChunks
<1>16. Tree(u) /\ Sets(u) = b
  BY <1>8, <1>14, <1>15, TreeFromSets
<1>17. QED
  BY <1>8, <1>16 DEF b, last

\* Moving a chunk to its grandparent makes a tree.
LEMMA MovedTree ==
    ASSUME NEW t, Tree(t), NEW c \in ChunksIn(t), NEW p, p = Over(t, Over(t, c)),
           IsChunk(Over(t, c)), IsChunk(p),
           NEW u, u = AppendChild(Unbind(t, c), p, c)
    PROVE  /\ Tree(u) /\ DOMAIN u = DOMAIN t
           /\ p \in DOMAIN t
           /\ Sets(u) = Moved(DOMAIN t, Sets(t), c, p)
<1> DEFINE D == DOMAIN t
           q == Over(t, c)
<1>1. PICK h, N : RankedBy(t, h, N)
  BY DEF Tree
<1>2. SetShape(D, Sets(t)) /\ RankedSets(D, Sets(t), h, N) /\ HasRows(t, Sets(t))
  BY <1>1, TreeIsSets DEF Tree
<1>3. Sentence \in D /\ \A d \in D : Lists(t[d], Sets(t)[d]) /\ Sets(t)[d] = Range(t[d])
  BY <1>2 DEF SetShape, HasRows, Sets
<1>4. c \in D /\ IsChunk(c) /\ c # Sentence /\ q # Sentence
  BY Kinds DEF ChunksIn
<1>5. q \in D /\ c \in Sets(t)[q]
  BY <1>3, <1>4, OverIs
<1>6. p \in D /\ q \in Sets(t)[p]
  BY <1>3, <1>4, <1>5, OverIs
<1>7. h[c] < h[p]
  <2>1. h[c] < h[q] /\ h[q] < h[p] /\ h[c] \in Nat /\ h[q] \in Nat /\ h[p] \in Nat
    BY <1>2, <1>4, <1>5, <1>6 DEF RankedSets
  <2>2. QED
    BY <2>1
<1>8. DOMAIN u = D /\ u = [d \in D |-> u[d]]
  BY DEF AppendChild, Unbind
<1>9. \A d \in D : u[d] = IF d = p THEN Append(Without(t[d], {c}), c) ELSE Without(t[d], {c})
  BY DEF AppendChild, Unbind
<1>10. \A d \in D : Lists(Without(t[d], {c}), Sets(t)[d] \ {c})
  BY <1>3, TakenOut
<1> DEFINE b == Moved(D, Sets(t), c, p)
<1>11. \A d \in D : Lists(u[d], b[d])
  <2> TAKE d \in D
  <2>1. CASE d = p
    <3>1. b[d] = (Sets(t)[d] \ {c}) \cup {c}
      BY <1>6, <2>1 DEF Moved
    <3>2. Lists(Cat(Without(t[d], {c}), <<c>>), (Sets(t)[d] \ {c}) \cup {c})
      <4>1. (Sets(t)[d] \ {c}) \cap {c} = {}
        OBVIOUS
      <4>2. QED
        BY <1>10, <4>1, CatLists, OneMember
    <3>3. Append(Without(t[d], {c}), c) = Cat(Without(t[d], {c}), <<c>>)
      <4>1. Without(t[d], {c}) \in Seq(Sets(t)[d] \ {c})
        BY <1>10 DEF Lists
      <4> DEFINE s == Without(t[d], {c})
                 T == (Sets(t)[d] \ {c}) \cup {c}
      <4>2. s \in Seq(T) /\ c \in T
        BY <4>1, SeqMonotonic
      <4> HIDE DEF s, T
      <4>3. Append(s, c) = Cat(s, <<c>>)
        BY <4>2, CatAppend
      <4>4. QED
        BY <4>3 DEF s
    <3>4. QED
      BY <1>9, <2>1, <3>1, <3>2, <3>3
  <2>2. CASE d # p
    <3>1. b[d] = Sets(t)[d] \ {c}
      BY <2>2 DEF Moved
    <3>2. QED
      BY <1>9, <1>10, <2>2, <3>1
  <2>3. QED
    BY <2>1, <2>2
<1> HIDE DEF b
<1>12. HasRows(u, b)
  BY <1>8, <1>11 DEF HasRows
<1>13. SetShape(D, b) /\ RankedSets(D, b, h, N)
  BY <1>2, <1>4, <1>6, <1>7, MovedShape DEF b
<1>14. Tree(u) /\ Sets(u) = b
  BY <1>8, <1>12, <1>13, TreeFromSets
<1>15. QED
  BY <1>6, <1>8, <1>14 DEF b

(***************************************************************************)
(* The invariant.                                                          *)
(***************************************************************************)
Stages == {"conll2xml", "splitNodes", "nodesToChunks", "childToSibling",
           "interchunkOrder", "intrachunkOrder", "done"}

\* Until the top chunks are joined there may be several, and no word is split.
TopInv ==
    IF stage = "conll2xml"
    THEN kids[Sentence] # <<>> /\ todo = <<>> /\ \A w \in WordSet : w[3] = 0
    ELSE \E top : Sets(kids)[Sentence] = {top}

CloneInv == \A w \in WordSet : w[3] > 0 => Sets(kids)[w] = {}

\* What is still to be visited.
Unsplit(w) == w \in WordSet /\ w[3] = 0 /\ Word(w[2], 1) \notin Elements /\ Word(w[2], 2) \notin Elements
TodoInv ==
    /\ todo \in Seq(Elements)
    /\ stage = "splitNodes" => Distinct(todo) /\ \A w \in Range(todo) : Unsplit(w)
    /\ stage \in {"nodesToChunks", "intrachunkOrder"} => Range(todo) \subseteq WordSet
    /\ stage = "childToSibling" => Distinct(todo) /\ Range(todo) \subseteq Grandchildren
    /\ stage = "interchunkOrder" => Range(todo) \subseteq ChunkSet

\* Places of a chunk and its child chunks among each other.
ChunkFamily(t, c) == {c} \cup (Sets(t)[c] \cap ChunksIn(t))
PlaceOf(p, q, c, e) == IF e = c THEN p[c] ELSE q[e]
PlacesInv ==
    stage = "interchunkOrder" =>
        /\ p_ord \in [ChunkSet -> Int]
        /\ c_ord \in [ChunkSet \ Sets(kids)[Sentence] -> Int]
        /\ \A c \in ChunkSet : \A d, e \in ChunkFamily(kids, c) :
               PlaceOf(p_ord, c_ord, c, d) = PlaceOf(p_ord, c_ord, c, e) => d = e

\* Places of chunks in the sentence and of words in their chunks.
OrdInv ==
    /\ stage \in {"conll2xml", "splitNodes", "nodesToChunks", "childToSibling"} => DOMAIN ord = {}
    /\ stage = "interchunkOrder" => DOMAIN ord \subseteq ChunkSet
    /\ stage \in {"intrachunkOrder", "done"} =>
           /\ ChunkSet \subseteq DOMAIN ord /\ DOMAIN ord \subseteq Elements
           /\ \A e \in DOMAIN ord : ord[e] \in Int
           /\ \A c, d \in ChunkSet : ord[c] = ord[d] => c = d

\* Whom the rules of words have placed.
RefsDiffer(S) == \A v, w \in S : Ref(v) = Ref(w) => v = w
OrderedInv ==
    /\ DOMAIN orderedBy = WordSet
    /\ stage \notin {"intrachunkOrder", "done"} => \A w \in WordSet : orderedBy[w] = {}
    /\ \A w \in WordSet : \A u \in orderedBy[w] : u \in WordSet /\ w \in Below(Whole(kids), u)
    /\ \A w \in WordSet : w \in DOMAIN ord => orderedBy[w] # {}
    /\ \A u \in WordSet : RefsDiffer(Below(Whole(kids), u)) =>
           \A v, w \in WordSet : orderedBy[v] = {u} /\ orderedBy[w] = {u} =>
               v \in DOMAIN ord /\ w \in DOMAIN ord /\ (ord[v] = ord[w] => v = w)

TreeInv ==
    /\ Tree(kids) /\ stage \in Stages
    /\ TopInv /\ CloneInv /\ TodoInv /\ PlacesInv /\ OrdInv /\ OrderedInv
    /\ WordsPrinted

\* What is left of a sequence after one of its members.
Rest(s, i) == SubSeq(s, i + 1, Len(s))
\* It has the later members.
LEMMA RestIs ==
    ASSUME NEW T, NEW s \in Seq(T), NEW i \in DOMAIN s
    PROVE  /\ s[i] \in Range(s) /\ s[i] \in T /\ Rest(s, i) \in Seq(T) /\ Range(Rest(s, i)) \subseteq Range(s)
           /\ Distinct(s) => Distinct(Rest(s, i)) /\ s[i] \notin Range(Rest(s, i))
<1> DEFINE r == Rest(s, i)
<1>1. Len(s) \in Nat /\ DOMAIN s = 1 .. Len(s)
  BY LenProperties
<1>2. i \in 1 .. Len(s) /\ i \in 0 .. Len(s)
  BY <1>1
<1> DEFINE a == SubSeq(s, 1, i)
<1>3. a \in Seq(T) /\ r \in Seq(T) /\ Cat(a, r) = s
  BY <1>2, SplitAt DEF Cat, Rest
<1>4. s[i] \in Range(a)
  <2>1. Len(a) = i /\ a[i] = s[i]
    BY <1>1, <1>2, SubSeqProperties
  <2>2. DOMAIN a = 1 .. Len(a) /\ i \in 1 .. i
    BY <1>2, <1>3, LenProperties
  <2>3. QED
    BY <2>1, <2>2 DEF Range
<1> HIDE DEF a, r
<1>5. Range(s) = Range(a) \cup Range(r)
  <2>1. \A x, y \in Seq(T) : Range(Cat(x, y)) = Range(x) \cup Range(y)
    BY RangeCat
  <2>2. QED
    BY <1>3, <2>1
<1>6. Distinct(s) <=> Distinct(a) /\ Distinct(r) /\ Range(a) \cap Range(r) = {}
  <2>1. Distinct(Cat(a, r)) <=> Distinct(a) /\ Distinct(r) /\ Range(a) \cap Range(r) = {}
    BY <1>3, CatDistinct
  <2>2. QED
    BY <1>3, <2>1
<1>7. Range(s) \subseteq T
  BY ElementsAre
<1>8. QED
  BY <1>3, <1>4, <1>5, <1>6, <1>7 DEF r

\* A list from one of its places on.
From(s, i) == SubSeq(s, i, Len(s))

\* It has members of the list.
LEMMA FromIs ==
    ASSUME NEW T, NEW s \in Seq(T), NEW i \in DOMAIN s
    PROVE  s[i] \in Range(s) /\ From(s, i) \in Seq(T) /\ Range(From(s, i)) \subseteq Range(s)
<1> DEFINE r == From(s, i)
           a == SubSeq(s, 1, i - 1)
<1>1. Len(s) \in Nat /\ DOMAIN s = 1 .. Len(s)
  BY LenProperties
<1>2. i - 1 \in 0 .. Len(s) /\ (i - 1) + 1 = i
  BY <1>1
<1>3. a \in Seq(T) /\ r \in Seq(T) /\ Cat(a, r) = s
  BY <1>2, SplitAt DEF Cat, From
<1> HIDE DEF a, r
<1>4. \A x, y \in Seq(T) : Range(Cat(x, y)) = Range(x) \cup Range(y)
  BY RangeCat
<1>5. Range(s) = Range(a) \cup Range(r)
  BY <1>3, <1>4
<1>6. s[i] \in Range(s)
  BY DEF Range
<1>7. QED
  BY <1>3, <1>5, <1>6 DEF r

\* The greatest of finitely many numbers.
LEMMA GreatestOf ==
    ASSUME NEW S, IsFiniteSet(S), S # {}, S \subseteq Nat
    PROVE  Max(S) \in S /\ \A k \in S : k <= Max(S)
<1> DEFINE HasMax(R) == \E m \in R : \A k \in R : k <= m
           G == {n \in Nat : \A R \in SUBSET S : Cardinality(R) = n /\ R # {} => HasMax(R)}
<1>1. 0 \in G
  <2>1. \A R \in SUBSET S : Cardinality(R) = 0 => R = {}
    BY FS_Subset, FS_EmptySet
  <2>2. QED
    BY <2>1
<1>2. ASSUME NEW n \in Nat, n \in G PROVE n + 1 \in G
  <2>1. ASSUME NEW R \in SUBSET S, Cardinality(R) = n + 1, R # {} PROVE HasMax(R)
    <3>1. IsFiniteSet(R)
      BY FS_Subset
    <3>2. PICK e \in R : TRUE
      BY <2>1
    <3> DEFINE Q == R \ {e}
    <3>3. Q \in SUBSET S /\ Cardinality(Q) = n
      <4>1. Cardinality(Q) = Cardinality(R) - 1
        BY <3>1, FS_RemoveElement
      <4>2. QED
        BY <2>1, <4>1
    <3>4. CASE Q = {}
      <4>1. \A k \in R : k = e /\ e \in Nat
        BY <3>4
      <4>2. QED
        BY <4>1
    <3>5. CASE Q # {}
      <4>1. PICK m \in Q : \A k \in Q : k <= m
        BY <1>2, <3>3, <3>5
      <4>2. e \in Nat /\ m \in Nat /\ \A k \in R : k \in Nat /\ (k = e \/ k <= m)
        BY <4>1
      <4>3. CASE e <= m
        BY <4>1, <4>2, <4>3
      <4>4. CASE ~(e <= m)
        <5>1. \A k \in R : k <= e
          BY <4>2, <4>4
        <5>2. QED
          BY <5>1
      <4>5. QED
        BY <4>3, <4>4
    <3>6. QED
      BY <3>4, <3>5
  <2>2. QED
    BY <2>1
<1>3. Cardinality(S) \in G
  <2>1. Nat \subseteq G
    <3> HIDE DEF G
    <3> QED BY <1>1, <1>2, SetInduction
  <2>2. QED
    BY <2>1, FS_CardinalityType
<1>4. \E m \in S : \A k \in S : m >= k
  <2>1. PICK m \in S : \A k \in S : k <= m
    BY <1>3
  <2>2. \A k \in S : m >= k
    BY <2>1
  <2>3. QED
    BY <2>2
<1>5. Max(S) \in S /\ \A k \in S : Max(S) >= k
  BY <1>4 DEF Max
<1>6. QED
  BY <1>5

\* The greatest ref is at least each.
LEMMA GreatestRef ==
    ASSUME NEW S, IsFiniteSet(S), \A e \in S : e[2] \in Nat
    PROVE  S # {} => MaxRef(S) \in Nat /\ \A e \in S : e[2] <= MaxRef(S)
<1> SUFFICES ASSUME S # {} PROVE MaxRef(S) \in Nat /\ \A e \in S : e[2] <= MaxRef(S)
  OBVIOUS
<1> DEFINE R == {e[2] : e \in S}
<1>1. IsFiniteSet(R)
  <2> DEFINE f == [e \in S |-> e[2]]
  <2>1. f \in Surjection(S, R)
    BY DEF Surjection
  <2>2. QED
    BY <2>1, FS_Surjection
<1>2. R # {} /\ R \subseteq Nat
  OBVIOUS
<1> HIDE DEF R
<1>3. Max(R) \in R /\ \A k \in R : k <= Max(R)
  BY <1>1, <1>2, GreatestOf
<1>4. \A e \in S : e[2] \in R
  BY DEF R
<1>5. QED
  BY <1>2, <1>3, <1>4 DEF MaxRef, R

\* The child chunks of an element, each once.
LEMMA ChildChunksAre ==
    ASSUME Tree(kids), NEW c \in Elements
    PROVE  /\ Lists(ChildChunks(c), Sets(kids)[c] \cap ChunkSet)
           /\ ToSet(ChildChunks(c)) = Sets(kids)[c] \cap ChunkSet
           /\ Sets(kids)[c] = Range(kids[c])
           /\ kids[c] = <<>> <=> Sets(kids)[c] = {}
<1>1. c \in DOMAIN kids
  BY DEF Elements
<1>2. Sets(kids)[c] = Range(kids[c])
  BY <1>1 DEF Sets
<1>3. Lists(kids[c], Sets(kids)[c]) /\ (kids[c] = <<>> <=> Sets(kids)[c] = {})
  BY <1>1, <1>2, TreeRows
<1>4. Lists(ChildChunks(c), Sets(kids)[c] \cap ChunkSet)
  BY <1>3, OnlyLists DEF ChildChunks
<1>5. ToSet(ChildChunks(c)) = Sets(kids)[c] \cap ChunkSet
  BY <1>4, ElementsAre DEF Lists
<1>6. QED
  BY <1>2, <1>3, <1>4, <1>5

\* The operators of the model, of its tree.
LEMMA OfTheTree ==
    ASSUME Tree(kids)
    PROVE  /\ WordSet = WordsIn(kids) /\ ChunkSet = ChunksIn(kids) /\ Elements = DOMAIN kids
           /\ IsFiniteSet(WordSet) /\ IsFiniteSet(ChunkSet) /\ IsFiniteSet(Elements)
           /\ \A e \in Elements : e = Sentence \/ e \in ChunkSet \/ e \in WordSet
           /\ \A e \in WordSet : IsWord(e) /\ IsElement(e) /\ e \in Elements /\ e # Sentence /\ e \notin ChunkSet
           /\ \A e \in ChunkSet : IsChunk(e) /\ IsElement(e) /\ e \in Elements /\ e # Sentence /\ e \notin WordSet
           /\ \A e : Parent(e) = Over(kids, e)
           /\ \A c : WordsOf(c) = OwnWords(kids, c)
           /\ \A c : ChildChunks(c) = Only(kids[c], ChunksIn(kids))
           /\ \A S : Lists(Listed(S), Elements \cap S)
<1>1. WordSet = WordsIn(kids) /\ ChunkSet = ChunksIn(kids) /\ Elements = DOMAIN kids
  BY DEF WordSet, ChunkSet, Elements, WordsIn, ChunksIn
<1>2. IsFiniteSet(Elements) /\ \A e \in Elements \ {Sentence} : IsElement(e)
  BY <1>1 DEF Tree, TreeShape
<1>3. IsFiniteSet(WordSet) /\ IsFiniteSet(ChunkSet)
  BY <1>2, FS_Subset DEF WordSet, ChunkSet
<1>4. \A e \in Elements : e = Sentence \/ e \in ChunkSet \/ e \in WordSet
  BY <1>2, ElementKinds DEF WordSet, ChunkSet
<1>5. \A e \in WordSet : IsWord(e) /\ IsElement(e) /\ e \in Elements /\ e # Sentence /\ e \notin ChunkSet
  BY <1>2, Kinds, ElementKinds DEF WordSet, ChunkSet
<1>6. \A e \in ChunkSet : IsChunk(e) /\ IsElement(e) /\ e \in Elements /\ e # Sentence /\ e \notin WordSet
  BY <1>2, Kinds, ElementKinds DEF WordSet, ChunkSet
<1>7. /\ \A e : Parent(e) = Over(kids, e)
      /\ \A c : WordsOf(c) = OwnWords(kids, c)
      /\ \A c : ChildChunks(c) = Only(kids[c], ChunksIn(kids))
  BY <1>1 DEF Parent, Over, WordsOf, OwnWords, WordFamily, ChildChunks
<1>8. \A S : Lists(Listed(S), Elements \cap S)
  BY <1>1, DocumentOrderLists DEF Listed
<1>9. QED
  BY <1>1, <1>2, <1>3, <1>4, <1>5, <1>6, <1>7, <1>8

\* Refs are numbers; those of chunks, and of a word that is not a clone and any other word, differ.
LEMMA RefsIs ==
    ASSUME Tree(kids)
    PROVE  /\ \A c \in ChunkSet : Ref(c) = c[2] /\ c[2] \in Nat
           /\ \A c, d \in ChunkSet : Ref(c) = Ref(d) => c = d
           /\ \A w \in WordSet : Ref(w) \in Nat
           /\ \A v, w \in WordSet : w[3] = 0 /\ Ref(v) = Ref(w) => v = w
<1>1. \A c \in ChunkSet : ~IsWord(c) /\ c = Chunk(c[2]) /\ c[2] \in Nat
  BY OfTheTree, ElementKinds
<1>2. \A w \in WordSet : IsWord(w) /\ w = Word(w[2], w[3]) /\ w[2] \in Nat /\ w[3] \in Nat
  BY OfTheTree, ElementKinds
<1>3. \A c \in ChunkSet : Ref(c) = c[2]
  BY <1>1 DEF Ref
<1>4. \A c, d \in ChunkSet : Ref(c) = Ref(d) => c = d
  <2> TAKE c, d \in ChunkSet
  <2> HAVE Ref(c) = Ref(d)
  <2>1. c[2] = d[2]
    BY <1>3
  <2>2. Chunk(c[2]) = Chunk(d[2])
    BY <2>1
  <2>3. c = Chunk(c[2]) /\ d = Chunk(d[2])
    BY <1>1
  <2>4. QED
    BY <2>2, <2>3, Zenon
<1>5. \A w \in WordSet : MaxRef(WordSet) \in Nat /\ w[2] <= MaxRef(WordSet)
  <2>1. WordSet # {} => MaxRef(WordSet) \in Nat /\ \A e \in WordSet : e[2] <= MaxRef(WordSet)
    BY <1>2, OfTheTree, GreatestRef
  <2>2. QED
    BY <2>1
<1>6. \A w \in WordSet : Ref(w) = (IF w[3] > 0 THEN MaxRef(WordSet) + w[3] ELSE w[2])
  BY <1>2 DEF Ref
<1>7. \A w \in WordSet : Ref(w) \in Nat
  BY <1>2, <1>5, <1>6
<1>8. \A v, w \in WordSet : w[3] = 0 /\ Ref(v) = Ref(w) => v = w
  <2> TAKE v, w \in WordSet
  <2> HAVE w[3] = 0 /\ Ref(v) = Ref(w)
  <2>1. Ref(w) = w[2]
    BY <1>6
  <2>2. ~(v[3] > 0)
    <3>1. ASSUME v[3] > 0 PROVE FALSE
      <4>1. Ref(v) = MaxRef(WordSet) + v[3] /\ w[2] <= MaxRef(WordSet) /\ MaxRef(WordSet) \in Nat /\ v[3] \in Nat /\ w[2] \in Nat
        BY <1>2, <1>5, <1>6, <3>1
      <4>2. QED
        BY <2>1, <3>1, <4>1
    <3>2. QED
      BY <3>1
  <2>3. v[3] = 0 /\ v[2] = w[2]
    BY <1>2, <1>6, <2>1, <2>2
  <2>4. Word(v[2], v[3]) = Word(w[2], w[3])
    BY <2>3
  <2>5. v = Word(v[2], v[3]) /\ w = Word(w[2], w[3])
    BY <1>2
  <2>6. QED
    BY <2>4, <2>5, Zenon
<1>9. QED
  BY <1>1, <1>3, <1>4, <1>7, <1>8

\* The invariant holds of every document.
LEMMA InitInv ==
    TreeInit => TreeInv
<1> SUFFICES ASSUME TreeInit PROVE TreeInv
  OBVIOUS
<1>1. IsDocument(kids)
  BY TreeAssumption DEF TreeInit
<1>2. Tree(kids) /\ kids[Sentence] # <<>> /\ \A e \in DOMAIN kids : IsWord(e) => e[3] = 0
  BY <1>1, DocumentIsTree
<1>3. stage = "conll2xml" /\ todo = <<>> /\ DOMAIN ord = {} /\ orderedBy = [w \in WordSet |-> {}]
  BY DEF TreeInit
<1>4. \A w \in WordSet : w[3] = 0
  BY <1>2 DEF WordSet, Elements
<1>5. TopInv
  BY <1>2, <1>3, <1>4 DEF TopInv
<1>6. CloneInv
  BY <1>4 DEF CloneInv
<1>7. TodoInv
  BY <1>3, NoMembers DEF TodoInv
<1>8. PlacesInv /\ OrdInv
  BY <1>3 DEF PlacesInv, OrdInv
<1>9. OrderedInv
  BY <1>3 DEF OrderedInv
<1>10. WordsPrinted
  BY <1>3 DEF WordsPrinted
<1>11. stage \in Stages
  BY <1>3 DEF Stages
<1>12. QED
  BY <1>2, <1>5, <1>6, <1>7, <1>8, <1>9, <1>10, <1>11 DEF TreeInv

\* Joining the top chunks keeps the invariant.
LEMMA AttachTopChunksInv ==
    TreeInv /\ AttachTopChunks => TreeInv'
<1> SUFFICES ASSUME TreeInv, AttachTopChunks PROVE TreeInv'
  OBVIOUS
<1> DEFINE tops == ChildChunks(Sentence)
           a == tops[1]
<1>1. /\ stage = "conll2xml" /\ stage' = "splitNodes"
      /\ kids' = [kids EXCEPT ![Sentence] = <<a>>, ![a] = @ \o Tail(tops)]
      /\ todo' = Only(DocumentOrder(kids'), WordSet)
      /\ ord' = ord /\ orderedBy' = orderedBy
  BY DEF AttachTopChunks, attributes, history
<1>2. Tree(kids) /\ kids[Sentence] # <<>> /\ \A w \in WordSet : w[3] = 0
  BY <1>1 DEF TreeInv, TopInv
<1>3. tops = Only(kids[Sentence], ChunksIn(kids)) /\ Sentence \in Elements
  BY <1>2, OfTheTree DEF Tree, TreeShape
<1> HIDE DEF tops
<1>4. /\ Tree(kids') /\ DOMAIN kids' = Elements
      /\ Sets(kids') = Attached(Elements, Sets(kids), a)
  BY <1>1, <1>2, <1>3, AttachTree DEF Elements
<1>5. Elements' = Elements /\ WordSet' = WordSet
  BY <1>4 DEF Elements, WordSet
<1>6. TopInv'
  <2>1. Sets(kids')[Sentence] = {a}
    BY <1>3, <1>4 DEF Attached
  <2>2. QED
    BY <1>1, <2>1 DEF TopInv
<1>7. CloneInv'
  BY <1>2, <1>5 DEF CloneInv
<1>8. TodoInv'
  <2>1. Elements \cap WordSet = WordSet
    BY <1>2, OfTheTree
  <2>2. Lists(todo', WordSet)
    <3>1. Lists(Only(DocumentOrder(kids'), WordSet), Elements \cap WordSet)
      BY <1>4, DocumentOrderLists
    <3>2. QED
      BY <1>1, <2>1, <3>1
  <2>3. \A w \in WordSet : Unsplit(w)'
    <3> TAKE w \in WordSet
    <3>1. \A r : Word(r, 1) \notin WordSet /\ Word(r, 2) \notin WordSet
      <4>1. \A r : Word(r, 1)[3] = 1 /\ Word(r, 2)[3] = 2
        BY Kinds
      <4>2. QED
        BY <1>2, <4>1
    <3>2. \A r : Word(r, 1) \notin Elements /\ Word(r, 2) \notin Elements
      BY <3>1, Kinds DEF WordSet
    <3>3. QED
      BY <1>2, <1>5, <3>2 DEF Unsplit
  <2>4. todo' \in Seq(Elements')
    <3>1. todo' \in Seq(WordSet) /\ WordSet \subseteq Elements
      BY <2>2 DEF Lists, WordSet
    <3>2. QED
      BY <1>5, <3>1, SeqMonotonic
  <2>5. QED
    BY <1>1, <2>2, <2>3, <2>4 DEF TodoInv, Lists
<1>9. PlacesInv' /\ OrdInv'
  <2>1. DOMAIN ord = {}
    BY <1>1 DEF TreeInv, OrdInv
  <2>2. QED
    BY <1>1, <2>1 DEF PlacesInv, OrdInv
<1>10. OrderedInv'
  <2>1. DOMAIN orderedBy = WordSet /\ (\A w \in WordSet : orderedBy[w] = {}) /\ DOMAIN ord = {}
    BY <1>1 DEF TreeInv, OrderedInv, OrdInv
  <2>2. QED
    BY <1>1, <1>5, <2>1 DEF OrderedInv
<1>11. WordsPrinted' /\ stage' \in Stages
  BY <1>1 DEF WordsPrinted, Stages
<1>12. QED
  BY <1>4, <1>6, <1>7, <1>8, <1>9, <1>10, <1>11 DEF TreeInv

\* The clones of a word.
LEMMA ClonesList ==
    ASSUME NEW r \in Nat, NEW clones \in {<<Word(r, 1)>>, <<Word(r, 2), Word(r, 1)>>}
    PROVE  \E C \in SUBSET {Word(r, 1), Word(r, 2)} :
               Lists(clones, C) /\ \A e \in C : IsElement(e) /\ IsWord(e) /\ e[3] > 0
<1> DEFINE a == Word(r, 1)
           b == Word(r, 2)
<1>1. /\ IsWord(a) /\ a[2] = r /\ a[3] = 1
      /\ IsWord(b) /\ b[2] = r /\ b[3] = 2
  BY Kinds
<1>2. IsElement(a) /\ IsElement(b)
  BY <1>1 DEF IsElement
<1>3. a # b
  BY <1>1
<1> HIDE DEF a, b
<1>4. Lists(<<a>>, {a})
  BY OneMember
<1>5. Lists(<<b, a>>, {b} \cup {a})
  <2>1. Lists(Cat(<<b>>, <<a>>), {b} \cup {a})
    BY <1>3, OneMember, CatLists
  <2>2. Cat(<<b>>, <<a>>) = <<b, a>>
    <3>1. <<b>> \in Seq({a, b}) /\ <<a>> \in Seq({a, b}) /\ Len(<<b>>) = 1 /\ Len(<<a>>) = 1
      OBVIOUS
    <3>2. <<b>> \o <<a>> \in Seq({a, b}) /\ Len(<<b>> \o <<a>>) = 2
          /\ (<<b>> \o <<a>>)[1] = b /\ (<<b>> \o <<a>>)[2] = a
      BY <3>1, ConcatProperties
    <3>3. <<b, a>> \in Seq({a, b}) /\ Len(<<b, a>>) = 2 /\ <<b, a>>[1] = b /\ <<b, a>>[2] = a
      OBVIOUS
    <3> DEFINE x == <<b>> \o <<a>>
               y == <<b, a>>
    <3>4. x \in Seq({a, b}) /\ y \in Seq({a, b}) /\ Len(x) = Len(y) /\ \A n \in 1 .. Len(x) : x[n] = y[n]
      <4>1. \A n \in 1 .. 2 : n = 1 \/ n = 2
        OBVIOUS
      <4>2. QED
        BY <3>2, <3>3, <4>1
    <3> HIDE DEF x, y
    <3>5. x = y
      BY <3>4, SeqEqual
    <3>6. QED
      BY <3>5 DEF Cat, x, y
  <2>3. QED
    BY <2>1, <2>2
<1>6. CASE clones = <<a>>
  BY <1>1, <1>2, <1>4, <1>6 DEF a, b
<1>7. CASE clones = <<b, a>>
  BY <1>1, <1>2, <1>5, <1>7 DEF a, b
<1>8. QED
  BY <1>6, <1>7 DEF a, b

\* Splitting a word keeps the invariant: its clones are new since it is visited once.
LEMMA SplitNodeInv ==
    ASSUME TreeInv, NEW i \in DOMAIN todo, SplitNode(i)
    PROVE  TreeInv'
<1> DEFINE w == todo[i]
           p == Parent(w)
<1>1. /\ stage = "splitNodes" /\ stage' = "splitNodes"
      /\ todo' = SubSeq(todo, i + 1, Len(todo)) /\ ord' = ord
  BY DEF SplitNode, Visit, attributes
<1>2. PICK clones \in {<<Word(w[2], 1)>>, <<Word(w[2], 2), Word(w[2], 1)>>} :
         /\ kids' = WithClones(kids, w, p, clones)
         /\ orderedBy' = [e \in DOMAIN orderedBy \cup ToSet(clones) |-> {}]
  BY DEF SplitNode, WithClones, Elements
<1>3. Tree(kids)
  BY DEF TreeInv
<1>4. todo \in Seq(Elements) /\ Distinct(todo) /\ \A v \in Range(todo) : Unsplit(v)
  BY <1>1 DEF TreeInv, TodoInv
<1>5. /\ w \in Range(todo) /\ todo' \in Seq(Elements) /\ Range(todo') \subseteq Range(todo)
      /\ Distinct(todo') /\ w \notin Range(todo')
  <2>1. /\ w \in Range(todo) /\ Rest(todo, i) \in Seq(Elements) /\ Range(Rest(todo, i)) \subseteq Range(todo)
        /\ Distinct(Rest(todo, i)) /\ w \notin Range(Rest(todo, i))
    BY <1>4, RestIs
  <2>2. todo' = Rest(todo, i)
    BY <1>1 DEF Rest
  <2>3. QED
    BY <2>1, <2>2
<1>6. w \in WordSet /\ w[3] = 0 /\ Word(w[2], 1) \notin Elements /\ Word(w[2], 2) \notin Elements
  BY <1>4, <1>5 DEF Unsplit
<1>7. \A v \in WordSet : v = Word(v[2], v[3]) /\ v[2] \in Nat /\ v[3] \in Nat /\ v \in Elements
  BY <1>3, OfTheTree, ElementKinds
<1>8. w[2] \in Nat /\ w \in WordsIn(kids) /\ p = Over(kids, w)
  BY <1>3, <1>6, <1>7, OfTheTree
<1> HIDE DEF w, p
<1>9. PICK C \in SUBSET {Word(w[2], 1), Word(w[2], 2)} :
         Lists(clones, C) /\ \A e \in C : IsElement(e) /\ IsWord(e) /\ e[3] > 0
  BY <1>8, ClonesList
<1>10. C \cap DOMAIN kids = {} /\ ToSet(clones) = C
  BY <1>6, <1>9, ElementsAre DEF Elements, Lists
<1>11. /\ Tree(kids') /\ DOMAIN kids' = DOMAIN kids \cup C
       /\ p \in DOMAIN kids /\ w \in Sets(kids)[p]
       /\ Sets(kids') = Cloned(DOMAIN kids, Sets(kids), p, C)
  <2>1. AllWords(C)
    BY <1>9 DEF AllWords
  <2>2. Lists(clones, C)
    BY <1>9
  <2>3. kids' = WithClones(kids, w, p, clones)
    BY <1>2
  <2>4. QED
    BY <1>3, <1>8, <1>10, <2>1, <2>2, <2>3, CloneTree
<1>12. Elements' = Elements \cup C /\ WordSet' = WordSet \cup C
  BY <1>9, <1>11 DEF Elements, WordSet
<1>13. \A d \in Elements : d # p => Sets(kids')[d] = Sets(kids)[d]
  BY <1>10, <1>11 DEF Cloned, Elements
<1>14. TopInv'
  <2>1. Sentence \in Elements /\ \A k \in Sets(kids)[Sentence] : IsChunk(k)
    BY <1>3 DEF Tree, TreeShape, Elements, Sets
  <2>2. ~IsChunk(w)
    BY <1>3, <1>6, OfTheTree, ElementKinds
  <2>3. p # Sentence
    BY <1>11, <2>1, <2>2
  <2>4. PICK top : Sets(kids)[Sentence] = {top}
    BY <1>1 DEF TreeInv, TopInv
  <2>5. Sets(kids')[Sentence] = {top}
    BY <1>13, <2>1, <2>3, <2>4
  <2>6. QED
    BY <1>1, <2>5 DEF TopInv
<1>15. CloneInv'
  <2>1. ASSUME NEW v \in WordSet \cup C, v[3] > 0 PROVE Sets(kids')[v] = {}
    <3>1. CASE v \in C
      BY <1>11, <3>1 DEF Cloned
    <3>2. CASE v \in WordSet
      <4>1. Sets(kids)[v] = {}
        BY <2>1, <3>2 DEF TreeInv, CloneInv
      <4>2. v # p
        BY <1>11, <4>1
      <4>3. QED
        BY <1>7, <1>13, <3>2, <4>1, <4>2
    <3>3. QED
      BY <3>1, <3>2
  <2>2. QED
    BY <1>12, <2>1 DEF CloneInv
<1>16. TodoInv'
  <2>1. ASSUME NEW v \in Range(todo') PROVE Unsplit(v)'
    <3>1. v \in WordSet /\ v[3] = 0 /\ Word(v[2], 1) \notin Elements /\ Word(v[2], 2) \notin Elements /\ v # w
      BY <1>4, <1>5 DEF Unsplit
    <3>2. v[2] # w[2]
      <4>1. ASSUME v[2] = w[2] PROVE FALSE
        <5>1. Word(v[2], v[3]) = Word(w[2], w[3])
          BY <1>6, <3>1, <4>1
        <5>2. v = Word(v[2], v[3]) /\ w = Word(w[2], w[3])
          BY <1>6, <1>7, <3>1
        <5>3. v = w
          BY <5>1, <5>2, Zenon
        <5>4. QED
          BY <3>1, <5>3
      <4>2. QED
        BY <4>1
    <3>3. Word(v[2], 1) \notin C /\ Word(v[2], 2) \notin C
      <4>1. Word(v[2], 1)[2] = v[2] /\ Word(v[2], 2)[2] = v[2] /\ Word(w[2], 1)[2] = w[2] /\ Word(w[2], 2)[2] = w[2]
        BY Kinds
      <4>2. QED
        BY <3>2, <4>1
    <3>4. QED
      BY <1>12, <3>1, <3>3 DEF Unsplit
  <2>2. todo' \in Seq(Elements')
    BY <1>5, <1>12, SeqMonotonic
  <2>3. QED
    BY <1>1, <1>5, <2>1, <2>2 DEF TodoInv
<1>17. PlacesInv' /\ OrdInv'
  <2>1. DOMAIN ord = {}
    BY <1>1 DEF TreeInv, OrdInv
  <2>2. QED
    BY <1>1, <2>1 DEF PlacesInv, OrdInv
<1>18. OrderedInv'
  <2>1. DOMAIN orderedBy = WordSet /\ DOMAIN ord = {}
    BY <1>1 DEF TreeInv, OrderedInv, OrdInv
  <2>2. DOMAIN orderedBy' = WordSet \cup C /\ \A v \in WordSet \cup C : orderedBy'[v] = {}
    BY <1>2, <1>10, <2>1
  <2>3. QED
    BY <1>1, <1>12, <2>1, <2>2 DEF OrderedInv
<1>19. WordsPrinted' /\ stage' \in Stages
  BY <1>1 DEF WordsPrinted, Stages
<1>20. QED
  BY <1>11, <1>14, <1>15, <1>16, <1>17, <1>18, <1>19 DEF TreeInv

\* Chunks with refs above the greatest one are new.
LEMMA NewChunks ==
    ASSUME Tree(kids), ChunkSet # {}, NEW k \in 1 .. 2, NEW new, new = [n \in 1 .. k |-> Chunk(MaxRef(ChunkSet) + n)]
    PROVE  \E New : Lists(new, New) /\ New # {} /\ New \cap DOMAIN kids = {} /\ AllChunks(New)
<1> DEFINE max == MaxRef(ChunkSet)
           New == Range(new)
<1>1. max \in Nat /\ \A c \in ChunkSet : c[2] <= max
  <2>1. IsFiniteSet(ChunkSet) /\ \A c \in ChunkSet : c[2] \in Nat
    BY OfTheTree, RefsIs
  <2>2. QED
    BY <2>1, GreatestRef
<1> HIDE DEF max
<1>2. DOMAIN new = 1 .. k /\ \A n \in 1 .. k : new[n] = Chunk(max + n) /\ max + n \in Nat /\ max + n > max
  BY <1>1 DEF max
<1>3. \A n \in 1 .. k : new[n][2] = max + n /\ IsChunk(new[n]) /\ IsElement(new[n])
  BY <1>2, Kinds DEF IsElement
<1>4. \A n \in 1 .. k : new[n] \in New
  BY <1>2 DEF Range
<1>5. new \in Seq(New)
  <2>1. new = [n \in 1 .. k |-> new[n]]
    BY <1>2
  <2>2. new \in [1 .. k -> New]
    BY <1>4, <2>1
  <2>3. k \in Nat
    OBVIOUS
  <2> HIDE DEF New
  <2>4. QED
    BY <2>2, <2>3, SeqDef
<1>6. Distinct(new)
  <2>1. \A m, n \in 1 .. k : new[m] = new[n] => m = n
    <3> TAKE m, n \in 1 .. k
    <3> HAVE new[m] = new[n]
    <3>1. max + m = max + n
      BY <1>3
    <3>2. QED
      BY <1>1, <3>1
  <2>2. QED
    BY <1>2, <2>1 DEF Distinct
<1>7. \A e \in New : \E n \in 1 .. k : e = new[n]
  BY <1>2 DEF Range
<1>8. New \cap DOMAIN kids = {}
  <2>1. ASSUME NEW e \in New, e \in DOMAIN kids PROVE FALSE
    <3>1. PICK n \in 1 .. k : e = new[n]
      BY <1>7
    <3>2. e \in ChunkSet /\ e[2] = max + n
      BY <1>3, <2>1, <3>1 DEF ChunkSet, Elements
    <3>3. max + n <= max
      BY <1>1, <3>2
    <3>4. QED
      BY <1>1, <3>3
  <2>2. QED
    BY <2>1
<1>9. New # {}
  BY <1>4
<1>10. AllChunks(New)
  BY <1>3, <1>7 DEF AllChunks
<1>11. QED
  BY <1>5, <1>6, <1>8, <1>9, <1>10 DEF Lists

\* The chunk of a word.
LEMMA ChunkOfIs ==
    ASSUME Tree(kids), NEW w \in WordSet
    PROVE  ChunkOf(w) \in ChunkSet /\ Contains(OwnWords(kids, ChunkOf(w)), w)
<1>1. \E c \in ChunkSet : Contains(WordsOf(c), w)
  BY OfTheTree, EachWord
<1>2. ChunkOf(w) \in ChunkSet /\ Contains(WordsOf(ChunkOf(w)), w)
  BY <1>1 DEF ChunkOf
<1>3. QED
  BY <1>2, OfTheTree

\* Raising a word to chunks keeps the invariant.
LEMMA NodeToChunkInv ==
    ASSUME TreeInv, NEW i \in DOMAIN todo, NodeToChunk(i)
    PROVE  TreeInv'
<1> DEFINE w == todo[i]
           c == ChunkOf(w)
<1>1. /\ stage = "nodesToChunks" /\ stage' = "nodesToChunks"
      /\ todo' = Rest(todo, i) /\ ord' = ord /\ orderedBy' = orderedBy
  BY DEF NodeToChunk, Visit, attributes, Rest
<1>2. PICK k \in 1 .. 2 :
         kids' = WithChunks(kids, w, c, [n \in 1 .. k |-> Chunk(MaxRef(ChunkSet) + n)])
  BY DEF NodeToChunk, WithChunks, Elements
<1>3. Tree(kids)
  BY DEF TreeInv
<1>4. todo \in Seq(Elements) /\ Range(todo) \subseteq WordSet
  BY <1>1 DEF TreeInv, TodoInv
<1>5. w \in Range(todo) /\ todo' \in Seq(Elements) /\ Range(todo') \subseteq Range(todo)
  <2>1. w \in Range(todo) /\ Rest(todo, i) \in Seq(Elements) /\ Range(Rest(todo, i)) \subseteq Range(todo)
    BY <1>4, RestIs
  <2>2. QED
    BY <1>1, <2>1
<1>6. w \in WordSet
  BY <1>4, <1>5
<1> HIDE DEF w
<1>7. c \in ChunkSet /\ Contains(OwnWords(kids, c), w)
  BY <1>3, <1>6, ChunkOfIs
<1> HIDE DEF c
<1> DEFINE new == [n \in 1 .. k |-> Chunk(MaxRef(ChunkSet) + n)]
           last == Last(new)
<1>8. PICK New : Lists(new, New) /\ New # {} /\ New \cap DOMAIN kids = {} /\ AllChunks(New)
  BY <1>3, <1>7, NewChunks
<1>9. kids' = WithChunks(kids, w, c, new)
  BY <1>2
<1> HIDE DEF new
<1>10. w \in WordsIn(kids) /\ c \in ChunksIn(kids)
  BY <1>3, <1>6, <1>7, OfTheTree
<1>11. /\ Tree(kids') /\ DOMAIN kids' = DOMAIN kids \cup New
       /\ Sets(kids') = Chunked(DOMAIN kids, Sets(kids), c, w, New, last)
  <2>1. Lists(new, New) /\ New # {} /\ New \cap DOMAIN kids = {}
    BY <1>8
  <2>2. AllChunks(New)
    BY <1>8
  <2>3. Contains(OwnWords(kids, c), w)
    BY <1>7
  <2>4. Raises(kids, w, c, new, New)
    BY <1>10, <2>1, <2>2, <2>3 DEF Raises
  <2>5. /\ Tree(kids') /\ DOMAIN kids' = DOMAIN kids \cup New
        /\ Sets(kids') = Chunked(DOMAIN kids, Sets(kids), c, w, New, Last(new))
    <3> HIDE DEF last
    <3> QED BY <1>3, <1>9, <2>4, ChunkedTree
  <2>6. QED
    BY <2>5
<1> HIDE DEF last
<1>12. last \in New
  <2>1. new \in Seq(New) /\ new # <<>>
    BY <1>8, NoMembers DEF Lists
  <2>2. Len(new) \in Nat /\ Len(new) # 0
    BY <2>1, EmptySeq, LenProperties
  <2>3. Len(new) \in 1 .. Len(new)
    BY <2>2
  <2>4. QED
    BY <2>1, <2>3, ElementOfSeq DEF last, Last
<1>13. Elements' = Elements \cup New /\ WordSet' = WordSet
  <2>1. \A e \in New : ~IsWord(e)
    BY <1>8, ElementKinds DEF AllChunks
  <2>2. QED
    BY <1>11, <2>1 DEF Elements, WordSet
<1>14. \A d \in Elements : d # c => Sets(kids')[d] = Sets(kids)[d] \ {w}
  <2>1. last \notin DOMAIN kids
    BY <1>8, <1>12
  <2>2. QED
    BY <1>8, <1>11, <2>1 DEF Chunked, Elements
<1>15. TopInv'
  <2>1. Sentence \in Elements /\ \A e \in Sets(kids)[Sentence] : IsChunk(e)
    BY <1>3 DEF Tree, TreeShape, Elements, Sets
  <2>2. ~IsChunk(w) /\ c # Sentence
    BY <1>3, <1>6, <1>7, OfTheTree, ElementKinds
  <2>3. PICK top : Sets(kids)[Sentence] = {top}
    BY <1>1 DEF TreeInv, TopInv
  <2>4. Sets(kids')[Sentence] = {top}
    BY <1>14, <2>1, <2>2, <2>3
  <2>5. QED
    BY <1>1, <2>4 DEF TopInv
<1>16. CloneInv'
  <2>1. ASSUME NEW v \in WordSet, v[3] > 0 PROVE Sets(kids')[v] = {}
    <3>1. Sets(kids)[v] = {}
      BY <2>1 DEF TreeInv, CloneInv
    <3>2. v \in Elements /\ v # c
      BY <1>3, <1>7, OfTheTree
    <3>3. QED
      BY <1>14, <3>1, <3>2
  <2>2. QED
    BY <1>13, <2>1 DEF CloneInv
<1>17. TodoInv'
  <2>1. todo' \in Seq(Elements')
    BY <1>5, <1>13, SeqMonotonic
  <2>2. QED
    BY <1>1, <1>4, <1>5, <1>13, <2>1 DEF TodoInv
<1>18. PlacesInv' /\ OrdInv'
  <2>1. DOMAIN ord = {}
    BY <1>1 DEF TreeInv, OrdInv
  <2>2. QED
    BY <1>1, <2>1 DEF PlacesInv, OrdInv
<1>19. OrderedInv'
  <2>1. DOMAIN orderedBy = WordSet /\ DOMAIN ord = {} /\ \A v \in WordSet : orderedBy[v] = {}
    BY <1>1 DEF TreeInv, OrderedInv, OrdInv
  <2>2. QED
    BY <1>1, <1>13, <2>1 DEF OrderedInv
<1>20. WordsPrinted' /\ stage' \in Stages
  BY <1>1 DEF WordsPrinted, Stages
<1>21. QED
  BY <1>11, <1>15, <1>16, <1>17, <1>18, <1>19, <1>20 DEF TreeInv

\* Moving a chunk keeps the invariant: those still to be visited keep their grandparents.
LEMMA ChildToSiblingInv ==
    ASSUME TreeInv, NEW i \in DOMAIN todo, ChildToSibling(i)
    PROVE  TreeInv'
<1> DEFINE c == todo[i]
           q == Over(kids, c)
           p == Over(kids, q)
<1>1. /\ stage = "childToSibling" /\ stage' = "childToSibling"
      /\ todo' = Rest(todo, i) /\ ord' = ord /\ orderedBy' = orderedBy
      /\ kids' = AppendChild(Unbind(kids, c), Parent(Parent(c)), c)
  BY DEF ChildToSibling, Visit, attributes, Rest
<1>2. Tree(kids)
  BY DEF TreeInv
<1>3. Grandchildren = {e \in ChunkSet : IsChunk(Over(kids, e)) /\ IsChunk(Over(kids, Over(kids, e)))}
  BY <1>2, OfTheTree DEF Grandchildren
<1>4. todo \in Seq(Elements) /\ Distinct(todo) /\ Range(todo) \subseteq Grandchildren
  BY <1>1 DEF TreeInv, TodoInv
<1>5. c \in Range(todo) /\ todo' \in Seq(Elements) /\ Range(todo') \subseteq Range(todo)
      /\ Distinct(todo') /\ c \notin Range(todo')
  <2>1. c \in Range(todo) /\ Rest(todo, i) \in Seq(Elements) /\ Range(Rest(todo, i)) \subseteq Range(todo)
        /\ Distinct(Rest(todo, i)) /\ c \notin Range(Rest(todo, i))
    BY <1>4, RestIs
  <2>2. QED
    BY <1>1, <2>1
<1>6. c \in ChunkSet /\ IsChunk(q) /\ IsChunk(p)
  BY <1>3, <1>4, <1>5
<1>7. kids' = AppendChild(Unbind(kids, c), p, c) /\ c \in ChunksIn(kids)
  BY <1>1, <1>2, <1>6, OfTheTree
<1> HIDE DEF c, q, p
<1>8. /\ Tree(kids') /\ DOMAIN kids' = DOMAIN kids
      /\ p \in DOMAIN kids
      /\ Sets(kids') = Moved(DOMAIN kids, Sets(kids), c, p)
  BY <1>2, <1>6, <1>7, MovedTree DEF q, p
<1>9. Elements' = Elements /\ WordSet' = WordSet /\ ChunkSet' = ChunkSet
  BY <1>8 DEF Elements, WordSet, ChunkSet
<1>10. Sets(kids')[p] = Sets(kids)[p] \cup {c} /\ \A d \in Elements : d # p => Sets(kids')[d] = Sets(kids)[d] \ {c}
  BY <1>8 DEF Moved, Elements
<1>11. q \in Elements /\ c \in Sets(kids)[q] /\ q # Sentence /\ p # Sentence /\ ~IsWord(p) /\ c # Sentence
  <2>1. c # Sentence /\ q # Sentence /\ p # Sentence /\ c \in Elements
    <3>1. c \in Elements /\ IsChunk(c)
      BY <1>6 DEF ChunkSet
    <3>2. QED
      BY <1>6, <3>1, Kinds
  <2>2. q \in Elements /\ c \in Range(kids[q])
    BY <1>2, <2>1, OverIs DEF q, Elements
  <2>3. ~IsWord(p)
    BY <1>2, <1>6, <1>8, <2>1, OfTheTree DEF Elements, ChunkSet, WordSet
  <2>4. Sets(kids)[q] = Range(kids[q])
    BY <2>2 DEF Sets, Elements
  <2>5. QED
    BY <2>1, <2>2, <2>3, <2>4
<1>12. TopInv'
  <2>1. PICK top : Sets(kids)[Sentence] = {top}
    BY <1>1 DEF TreeInv, TopInv
  <2>2. c \notin Sets(kids)[Sentence]
    <3>1. \A d, e \in Elements : \A x : x \in Range(kids[d]) /\ x \in Range(kids[e]) => d = e
      BY <1>2 DEF Tree, TreeShape, Elements
    <3>2. Sentence \in Elements
      BY <1>2 DEF Tree, TreeShape, Elements
    <3>3. Sets(kids)[Sentence] = Range(kids[Sentence]) /\ Sets(kids)[q] = Range(kids[q])
      BY <1>11, <3>2 DEF Sets, Elements
    <3>4. QED
      BY <1>11, <3>1, <3>2, <3>3
  <2>3. Sets(kids')[Sentence] = {top}
    <3>1. Sentence \in Elements
      BY <1>2 DEF Tree, TreeShape, Elements
    <3>2. QED
      BY <1>10, <1>11, <2>1, <2>2, <3>1
  <2>4. QED
    BY <1>1, <2>3 DEF TopInv
<1>13. CloneInv'
  <2>1. ASSUME NEW v \in WordSet, v[3] > 0 PROVE Sets(kids')[v] = {}
    <3>1. Sets(kids)[v] = {}
      BY <2>1 DEF TreeInv, CloneInv
    <3>2. v \in Elements /\ v # p
      BY <1>2, <1>11, OfTheTree
    <3>3. QED
      BY <1>10, <3>1, <3>2
  <2>2. QED
    BY <1>9, <2>1 DEF CloneInv
<1>14. TodoInv'
  <2>1. \A d \in Elements : Sets(kids')[d] = Range(kids'[d]) /\ Sets(kids)[d] = Range(kids[d])
    BY <1>8 DEF Sets, Elements
  <2>2. \A e \in Elements \ {Sentence} : \A d \in Elements : e \in Sets(kids')[d] => Over(kids', e) = d
    BY <1>8, <2>1, OverIs DEF Elements
  <2>3. \A e \in Elements \ {Sentence} : Over(kids, e) \in Elements /\ e \in Sets(kids)[Over(kids, e)]
    BY <1>2, <2>1, OverIs DEF Elements
  <2>4. Over(kids', c) = p
    BY <1>2, <1>6, <1>8, <1>10, <1>11, <2>2, OfTheTree DEF Elements
  <2>5. \A e \in Elements \ {Sentence} : e # c => Over(kids', e) = Over(kids, e)
    <3> TAKE e \in Elements \ {Sentence}
    <3> HAVE e # c
    <3>1. e \in Sets(kids')[Over(kids, e)]
      BY <1>10, <2>3
    <3>2. QED
      BY <2>2, <2>3, <3>1
  <2>6. ASSUME NEW d \in Range(todo') PROVE d \in Grandchildren'
    <3> DEFINE o == Over(kids, d)
    <3>1. d \in ChunkSet /\ IsChunk(o) /\ IsChunk(Over(kids, o)) /\ d # c
      BY <1>3, <1>4, <1>5
    <3>2. d \in Elements \ {Sentence} /\ o \in Elements \ {Sentence}
      BY <1>2, <2>3, <3>1, Kinds, OfTheTree
    <3>3. Over(kids', d) = o
      BY <2>5, <3>1, <3>2
    <3>4. IsChunk(Over(kids', o))
      BY <1>6, <2>4, <2>5, <3>1, <3>2
    <3> HIDE DEF o
    <3>5. Parent(d)' = Over(kids', d)
      BY DEF Parent, Over, Elements
    <3>6. Parent(Parent(d))' = Over(kids', Over(kids', d))
      BY DEF Parent, Over, Elements
    <3>7. QED
      BY <1>9, <3>1, <3>3, <3>4, <3>5, <3>6 DEF Grandchildren
  <2>7. QED
    BY <1>1, <1>5, <1>9, <2>6 DEF TodoInv
<1>15. PlacesInv' /\ OrdInv'
  <2>1. DOMAIN ord = {}
    BY <1>1 DEF TreeInv, OrdInv
  <2>2. QED
    BY <1>1, <2>1 DEF PlacesInv, OrdInv
<1>16. OrderedInv'
  <2>1. DOMAIN orderedBy = WordSet /\ DOMAIN ord = {} /\ \A v \in WordSet : orderedBy[v] = {}
    BY <1>1 DEF TreeInv, OrderedInv, OrdInv
  <2>2. QED
    BY <1>1, <1>9, <2>1 DEF OrderedInv
<1>17. WordsPrinted' /\ stage' \in Stages
  BY <1>1 DEF WordsPrinted, Stages
<1>18. QED
  BY <1>8, <1>12, <1>13, <1>14, <1>15, <1>16, <1>17 DEF TreeInv

InRow(s, S) == [e \in S |-> Pos(s, e)]
\* Members have different places.
LEMMA PlacesInRow ==
    ASSUME NEW s, NEW S, Lists(s, S)
    PROVE  /\ \A e \in S : InRow(s, S)[e] \in 1 .. Len(s) /\ InRow(s, S)[e] = Pos(s, e)
           /\ \A d, e \in S : InRow(s, S)[d] = InRow(s, S)[e] => d = e
<1> DEFINE p == InRow(s, S)
<1>1. p = [e \in S |-> CHOOSE i \in DOMAIN s : s[i] = e]
  BY DEF InRow, Pos
<1>2. \A e \in S : p[e] = Pos(s, e)
  BY DEF InRow
<1> HIDE DEF p
<1>3. /\ \A e \in S : p[e] \in 1 .. Len(s) /\ s[p[e]] = e
      /\ \A d, e \in S : p[d] = p[e] => d = e
  BY <1>1, Positions
<1>4. QED
  BY <1>2, <1>3 DEF p

\* The elements of a set in document order, each once.
LEMMA ListedIs ==
    ASSUME Tree(kids), NEW S, S \subseteq Elements
    PROVE  Listed(S) \in Seq(Elements) /\ Range(Listed(S)) = S /\ Distinct(Listed(S)) /\ Lists(Listed(S), S)
<1>1. Lists(Listed(S), S)
  <2>1. Lists(Listed(S), Elements \cap S)
    BY OfTheTree
  <2>2. Elements \cap S = S
    OBVIOUS
  <2>3. QED
    BY <2>1, <2>2
<1>2. QED
  BY <1>1, SeqMonotonic DEF Lists

\* Turning to the words that become chunks keeps the invariant.
LEMMA NodesToChunksInv ==
    TreeInv /\ NextStage("splitNodes", "nodesToChunks", WordSet) => TreeInv'
<1> SUFFICES ASSUME TreeInv, NextStage("splitNodes", "nodesToChunks", WordSet) PROVE TreeInv'
  OBVIOUS
<1>1. /\ stage = "splitNodes" /\ stage' = "nodesToChunks" /\ todo' = Listed(WordSet)
      /\ kids' = kids /\ ord' = ord /\ orderedBy' = orderedBy
  BY DEF NextStage, attributes, history
<1>2. Tree(kids)
  BY DEF TreeInv
<1>3. Elements' = Elements /\ WordSet' = WordSet /\ Tree(kids')
  BY <1>1, <1>2 DEF Elements, WordSet
<1>4. TopInv' /\ CloneInv'
  BY <1>1, <1>3 DEF TreeInv, TopInv, CloneInv
<1>5. TodoInv'
  <2>1. WordSet \subseteq Elements
    BY DEF WordSet
  <2>2. QED
    BY <1>1, <1>2, <1>3, <2>1, ListedIs DEF TodoInv
<1>6. DOMAIN ord = {}
  BY <1>1 DEF TreeInv, OrdInv
<1>7. PlacesInv' /\ OrdInv'
  BY <1>1, <1>6 DEF PlacesInv, OrdInv
<1>8. OrderedInv'
  <2>1. DOMAIN orderedBy = WordSet /\ \A v \in WordSet : orderedBy[v] = {}
    BY <1>1 DEF TreeInv, OrderedInv
  <2>2. QED
    BY <1>1, <1>3, <1>6, <2>1 DEF OrderedInv
<1>9. WordsPrinted' /\ stage' \in Stages
  BY <1>1 DEF WordsPrinted, Stages
<1>10. QED
  BY <1>3, <1>4, <1>5, <1>7, <1>8, <1>9 DEF TreeInv

\* Turning to the chunks in chunks in chunks keeps the invariant.
LEMMA GrandchildrenInv ==
    TreeInv /\ NextStage("nodesToChunks", "childToSibling", Grandchildren) => TreeInv'
<1> SUFFICES ASSUME TreeInv, NextStage("nodesToChunks", "childToSibling", Grandchildren) PROVE TreeInv'
  OBVIOUS
<1>1. /\ stage = "nodesToChunks" /\ stage' = "childToSibling" /\ todo' = Listed(Grandchildren)
      /\ kids' = kids /\ ord' = ord /\ orderedBy' = orderedBy
  BY DEF NextStage, attributes, history
<1>2. Tree(kids)
  BY DEF TreeInv
<1>3. Elements' = Elements /\ WordSet' = WordSet /\ Tree(kids') /\ Grandchildren' = Grandchildren
  BY <1>1, <1>2 DEF Elements, WordSet, Grandchildren, ChunkSet, Parent
<1>4. TopInv' /\ CloneInv'
  BY <1>1, <1>3 DEF TreeInv, TopInv, CloneInv
<1>5. TodoInv'
  <2>1. Grandchildren \subseteq Elements
    BY DEF Grandchildren, ChunkSet
  <2>2. QED
    BY <1>1, <1>2, <1>3, <2>1, ListedIs DEF TodoInv
<1>6. DOMAIN ord = {}
  BY <1>1 DEF TreeInv, OrdInv
<1>7. PlacesInv' /\ OrdInv'
  BY <1>1, <1>6 DEF PlacesInv, OrdInv
<1>8. OrderedInv'
  <2>1. DOMAIN orderedBy = WordSet /\ \A v \in WordSet : orderedBy[v] = {}
    BY <1>1 DEF TreeInv, OrderedInv
  <2>2. QED
    BY <1>1, <1>3, <1>6, <2>1 DEF OrderedInv
<1>9. WordsPrinted' /\ stage' \in Stages
  BY <1>1 DEF WordsPrinted, Stages
<1>10. QED
  BY <1>3, <1>4, <1>5, <1>7, <1>8, <1>9 DEF TreeInv

\* How many have a smaller number than another one.
Smaller(S, number, e) == {x \in S : number[x] < number[e]}

\* Different numbers have different numbers of smaller ones.
LEMMA SmallerCount ==
    ASSUME NEW S, IsFiniteSet(S), NEW number \in [S -> Int]
    PROVE  /\ \A e \in S : Cardinality(Smaller(S, number, e)) \in Nat
           /\ \A d, e \in S : Cardinality(Smaller(S, number, d)) = Cardinality(Smaller(S, number, e)) => number[d] = number[e]
<1>1. \A e \in S : IsFiniteSet(Smaller(S, number, e)) /\ Smaller(S, number, e) \subseteq S
  BY FS_Subset DEF Smaller
<1>2. \A e \in S : Cardinality(Smaller(S, number, e)) \in Nat
  BY <1>1, FS_CardinalityType
<1>3. ASSUME NEW d \in S, NEW e \in S, number[d] < number[e]
      PROVE  Cardinality(Smaller(S, number, d)) # Cardinality(Smaller(S, number, e))
  <2>1. Smaller(S, number, d) \subseteq Smaller(S, number, e)
    BY <1>3 DEF Smaller
  <2>2. d \in Smaller(S, number, e) /\ d \notin Smaller(S, number, d)
    BY <1>3 DEF Smaller
  <2>3. Smaller(S, number, d) # Smaller(S, number, e)
    BY <2>2
  <2>4. QED
    BY <1>1, <2>1, <2>3, FS_Subset
<1>4. \A d, e \in S : Cardinality(Smaller(S, number, d)) = Cardinality(Smaller(S, number, e)) => number[d] = number[e]
  <2> TAKE d, e \in S
  <2>1. number[d] \in Int /\ number[e] \in Int
    OBVIOUS
  <2>2. number[d] < number[e] \/ number[e] < number[d] \/ number[d] = number[e]
    BY <2>1
  <2>3. QED
    BY <1>3, <2>2
<1>5. QED
  BY <1>2, <1>4

\* Numbering the chunks keeps the invariant: in each family no two get one number.
LEMMA RecursiveNumberChunksInv ==
    TreeInv /\ RecursiveNumberChunks => TreeInv'
<1> SUFFICES ASSUME TreeInv, RecursiveNumberChunks PROVE TreeInv'
  OBVIOUS
<1> DEFINE F(c) == ChunkFamily(kids, c)
           RankIn(c, e) == Cardinality({d \in F(c) : Ref(d) < Ref(e)})
           tops == Sets(kids)[Sentence]
<1>1. Tree(kids)
  BY DEF TreeInv
<1>2. Sentence \in Elements
  BY <1>1 DEF Tree, TreeShape, Elements
<1>3. ToSet(kids[Sentence]) = tops
  BY <1>1, <1>2, TreeRows DEF Sets, Elements
<1>4. \A c \in Elements : F(c) = {c} \cup ToSet(ChildChunks(c))
  <2> HIDE DEF F, RankIn, tops
  <2>1. ChunkSet = ChunksIn(kids)
    BY <1>1, OfTheTree
  <2>2. \A c \in Elements : ToSet(ChildChunks(c)) = Sets(kids)[c] \cap ChunkSet
    BY <1>1, ChildChunksAre
  <2>3. QED
    BY <2>1, <2>2 DEF ChunkFamily, F
<1>5. \A c \in ChunkSet \ tops : Parent(c) \in Elements /\ Parent(c) = Over(kids, c)
  BY <1>1, OfTheTree, OverIs DEF Elements
<1>6. /\ stage = "childToSibling" /\ stage' = "interchunkOrder" /\ todo' = Listed(ChunkSet)
      /\ kids' = kids /\ ord' = ord /\ orderedBy' = orderedBy
  BY DEF RecursiveNumberChunks, history
<1>7. p_ord' = [c \in ChunkSet |-> Cardinality({d \in {c} \cup ToSet(ChildChunks(c)) : Ref(d) < Ref(c)})]
  BY DEF RecursiveNumberChunks
<1>8. c_ord' = [c \in ChunkSet \ ToSet(kids[Sentence]) |->
                  Cardinality({d \in {Parent(c)} \cup ToSet(ChildChunks(Parent(c))) : Ref(d) < Ref(c)})]
  BY DEF RecursiveNumberChunks
<1>9. DOMAIN p_ord' = ChunkSet /\ \A c \in ChunkSet : p_ord'[c] = RankIn(c, c)
  BY <1>1, <1>4, <1>7, OfTheTree
<1>10. DOMAIN c_ord' = ChunkSet \ tops /\ \A c \in ChunkSet \ tops : c_ord'[c] = RankIn(Over(kids, c), c)
  BY <1>3, <1>4, <1>5, <1>8
<1>11. Elements' = Elements /\ WordSet' = WordSet /\ ChunkSet' = ChunkSet /\ Tree(kids')
  BY <1>1, <1>6 DEF Elements, WordSet, ChunkSet
<1>12. TopInv' /\ CloneInv'
  BY <1>6, <1>11 DEF TreeInv, TopInv, CloneInv
<1>13. TodoInv'
  <2>1. ChunkSet \subseteq Elements
    BY DEF ChunkSet
  <2>2. QED
    BY <1>1, <1>6, <1>11, <2>1, ListedIs DEF TodoInv
<1>14. DOMAIN ord = {}
  BY <1>6 DEF TreeInv, OrdInv
<1>15. OrdInv'
  BY <1>6, <1>14 DEF OrdInv
<1>16. \A c \in ChunkSet : F(c) \subseteq ChunkSet /\ IsFiniteSet(F(c)) /\ c \in F(c)
  <2>1. IsFiniteSet(ChunkSet) /\ ChunkSet = ChunksIn(kids)
    BY <1>1, OfTheTree
  <2>2. \A c \in ChunkSet : F(c) \subseteq ChunkSet /\ c \in F(c)
    BY <2>1 DEF ChunkFamily
  <2> HIDE DEF F
  <2>3. QED
    BY <2>1, <2>2, FS_Subset
<1>17. \A c \in ChunkSet : (\A e \in F(c) : RankIn(c, e) \in Nat) /\ \A d, e \in F(c) : RankIn(c, d) = RankIn(c, e) => d = e
  <2> TAKE c \in ChunkSet
  <2> DEFINE number == [e \in F(c) |-> Ref(e)]
  <2>1. \A e \in ChunkSet : Ref(e) \in Nat
    BY <1>1, RefsIs
  <2>2. number \in [F(c) -> Int]
    BY <1>16, <2>1
  <2>3. \A e \in F(c) : RankIn(c, e) = Cardinality(Smaller(F(c), number, e))
    <3> TAKE e \in F(c)
    <3>1. {d \in F(c) : Ref(d) < Ref(e)} = Smaller(F(c), number, e)
      BY DEF Smaller
    <3>2. QED
      BY <3>1
  <2>4. \A e \in F(c) : number[e] = Ref(e)
    OBVIOUS
  <2> HIDE DEF number, F
  <2>5. (\A e \in F(c) : RankIn(c, e) \in Nat) /\ \A d, e \in F(c) : RankIn(c, d) = RankIn(c, e) => number[d] = number[e]
    <3> HIDE DEF RankIn
    <3>1. /\ \A e \in F(c) : Cardinality(Smaller(F(c), number, e)) \in Nat
          /\ \A d, e \in F(c) : Cardinality(Smaller(F(c), number, d)) = Cardinality(Smaller(F(c), number, e)) => number[d] = number[e]
      BY <1>16, <2>2, SmallerCount
    <3>2. QED
      BY <2>3, <3>1
  <2> HIDE DEF RankIn
  <2>6. \A d, e \in F(c) : Ref(d) = Ref(e) => d = e
    <3>1. \A d, e \in ChunkSet : Ref(d) = Ref(e) => d = e
      BY <1>1, RefsIs
    <3>2. F(c) \subseteq ChunkSet
      BY <1>16
    <3>3. QED
      BY <3>1, <3>2
  <2>7. QED
    BY <2>4, <2>5, <2>6
<1>18. \A c \in ChunkSet : \A e \in F(c) : e # c => e \in ChunkSet \ tops /\ Over(kids, e) = c
  <2> TAKE c \in ChunkSet
  <2> TAKE e \in F(c)
  <2> HAVE e # c
  <2>1. e \in ChunkSet /\ e \in Sets(kids)[c] /\ c \in Elements /\ c # Sentence /\ e # Sentence /\ e \in Elements
    BY <1>1, OfTheTree DEF ChunkFamily
  <2>2. e \in Range(kids[c]) /\ Sets(kids)[Sentence] = Range(kids[Sentence])
    BY <1>2, <2>1 DEF Sets, Elements
  <2>3. \A d \in Elements : e \in Range(kids[d]) => d = Over(kids, e)
    BY <1>1, <2>1, OverIs DEF Elements
  <2>4. QED
    BY <1>2, <2>1, <2>2, <2>3
<1> HIDE DEF F, RankIn
<1>19. \A c \in ChunkSet : \A e \in F(c) : PlaceOf(p_ord', c_ord', c, e) = RankIn(c, e)
  BY <1>9, <1>10, <1>18 DEF PlaceOf
<1>20. PlacesInv'
  <2>1. p_ord' \in [ChunkSet -> Int]
    <3>1. p_ord' = [c \in ChunkSet |-> p_ord'[c]]
      BY <1>7
    <3>2. \A c \in ChunkSet : p_ord'[c] \in Int
      BY <1>9, <1>16, <1>17
    <3>3. QED
      BY <3>1, <3>2
  <2>2. c_ord' \in [ChunkSet \ tops -> Int]
    <3>1. c_ord' = [c \in ChunkSet \ tops |-> c_ord'[c]]
      BY <1>3, <1>8
    <3>2. \A c \in ChunkSet \ tops : c_ord'[c] \in Int
      <4> TAKE c \in ChunkSet \ tops
      <4> DEFINE o == Over(kids, c)
      <4>1. c # Sentence /\ c \in Elements
        BY <1>1, OfTheTree
      <4>2. o \in Elements /\ c \in Range(kids[o])
        BY <1>1, <4>1, OverIs DEF Elements
      <4>3. o # Sentence
        BY <4>2 DEF Sets, Elements
      <4>4. o \in ChunkSet
        <5>1. ~IsWord(c)
          BY <1>1, OfTheTree, ElementKinds
        <5>2. o \notin WordSet
          BY <1>1, <4>2, <5>1 DEF Tree, TreeShape, WordSet, Elements
        <5>3. QED
          BY <1>1, <4>2, <4>3, <5>2, OfTheTree
      <4>5. c \in F(o)
        BY <1>1, <4>2, OfTheTree DEF F, ChunkFamily, Sets, Elements
      <4> HIDE DEF o
      <4>6. RankIn(o, c) \in Int
        BY <1>17, <4>4, <4>5
      <4>7. QED
        BY <1>10, <4>6 DEF o
    <3>3. QED
      BY <3>1, <3>2
  <2>3. \A c \in ChunkSet : \A d, e \in F(c) : PlaceOf(p_ord', c_ord', c, d) = PlaceOf(p_ord', c_ord', c, e) => d = e
    BY <1>17, <1>19
  <2>4. QED
    BY <1>6, <1>11, <2>1, <2>2, <2>3 DEF PlacesInv, F
<1>21. OrderedInv'
  <2>1. DOMAIN orderedBy = WordSet /\ \A v \in WordSet : orderedBy[v] = {}
    BY <1>6 DEF TreeInv, OrderedInv
  <2>2. QED
    BY <1>6, <1>11, <1>14, <2>1 DEF OrderedInv
<1>22. WordsPrinted' /\ stage' \in Stages
  BY <1>6 DEF WordsPrinted, Stages
<1>23. QED
  BY <1>11, <1>12, <1>13, <1>15, <1>20, <1>21, <1>22 DEF TreeInv

\* A chunk is a child in one family only.
LEMMA FamilyMembers ==
    ASSUME Tree(kids), NEW c \in ChunkSet
    PROVE  /\ ChunkFamily(kids, c) = {c} \cup (Sets(kids)[c] \cap ChunkSet)
           /\ ChunkFamily(kids, c) \subseteq ChunkSet
           /\ c \notin Sets(kids)[c]
           /\ \A e \in ChunkFamily(kids, c) : e # c => /\ e \in ChunkSet \ Sets(kids)[Sentence]
                                                     /\ e \in Sets(kids)[c]
                                                     /\ \A d \in Elements : e \in Sets(kids)[d] => d = c
<1>1. ChunkSet = ChunksIn(kids)
  BY OfTheTree
<1>2. ChunkFamily(kids, c) = {c} \cup (Sets(kids)[c] \cap ChunkSet)
  BY <1>1 DEF ChunkFamily
<1>3. c \in Elements /\ c # Sentence /\ Sentence \in Elements
  BY OfTheTree DEF Tree, TreeShape, Elements
<1>4. \A d \in Elements : Sets(kids)[d] = Range(kids[d])
  BY DEF Sets, Elements
<1>5. c \notin Sets(kids)[c]
  BY <1>3, <1>4, TreeRows DEF Elements
<1>6. ASSUME NEW e \in Sets(kids)[c], NEW d \in Elements, e \in Sets(kids)[d] PROVE d = c
  <2>1. \A p, q \in Elements : \A x : x \in Range(kids[p]) /\ x \in Range(kids[q]) => p = q
    BY DEF Tree, TreeShape, Elements
  <2>2. QED
    BY <1>3, <1>4, <1>6, <2>1
<1>7. QED
  BY <1>2, <1>3, <1>5, <1>6

\* A rule for a chunk keeps the invariant: all of the family gets a new place, and no two the same.
LEMMA InterchunkOrderInv ==
    ASSUME TreeInv, NEW i \in DOMAIN todo, InterchunkOrder(i)
    PROVE  TreeInv'
<1> DEFINE c == todo[i]
           children == ChildChunks(c)
           C == Sets(kids)[c] \cap ChunkSet
           place == [e \in {c} \cup ToSet(children) |-> IF e = c THEN p_ord[c] ELSE c_ord[e]]
           F(d) == ChunkFamily(kids, d)
           tops == Sets(kids)[Sentence]
<1>1. /\ stage = "interchunkOrder" /\ stage' = "interchunkOrder"
      /\ todo' = From(todo, i) /\ kids' = kids /\ orderedBy' = orderedBy
  BY DEF InterchunkOrder, Visit, From
<1>2. PICK rule \in ChunkRules, var \in [ToSet(children) -> Variables \cup {Dummy}] :
        \E s \in Arrangements(c, children, var, place, rule) :
          /\ p_ord' = [p_ord EXCEPT ![c] = IF Contains(s, c) THEN Pos(s, c) - 1 ELSE @]
          /\ c_ord' = [e \in DOMAIN c_ord |-> IF e # c /\ Contains(s, e) THEN Pos(s, e) - 1 ELSE c_ord[e]]
          /\ ord' = Numbered(ord, {s})
  BY DEF InterchunkOrder
<1>3. PICK s \in Arrangements(c, children, var, place, rule) :
          /\ p_ord' = [p_ord EXCEPT ![c] = IF Contains(s, c) THEN Pos(s, c) - 1 ELSE @]
          /\ c_ord' = [e \in DOMAIN c_ord |-> IF e # c /\ Contains(s, e) THEN Pos(s, e) - 1 ELSE c_ord[e]]
          /\ ord' = Numbered(ord, {s})
  BY <1>2
<1>4. Tree(kids)
  BY DEF TreeInv
<1>5. todo \in Seq(Elements) /\ Range(todo) \subseteq ChunkSet
  BY <1>1 DEF TreeInv, TodoInv
<1>6. c \in Range(todo) /\ todo' \in Seq(Elements) /\ Range(todo') \subseteq Range(todo)
  <2>1. c \in Range(todo) /\ From(todo, i) \in Seq(Elements) /\ Range(From(todo, i)) \subseteq Range(todo)
    BY <1>5, FromIs
  <2>2. QED
    BY <1>1, <2>1
<1>7. c \in ChunkSet
  BY <1>5, <1>6
<1> HIDE DEF c
<1>8. Lists(children, C) /\ ToSet(children) = C
  <2>1. c \in Elements
    BY <1>7 DEF ChunkSet
  <2>2. QED
    BY <1>4, <2>1, ChildChunksAre
<1>9. F(c) = {c} \cup C /\ c \notin C /\ F(c) \subseteq ChunkSet
  BY <1>4, <1>7, FamilyMembers
<1>10. /\ p_ord \in [ChunkSet -> Int]
       /\ c_ord \in [ChunkSet \ tops -> Int]
       /\ \A d \in ChunkSet : \A x, y \in F(d) : PlaceOf(p_ord, c_ord, d, x) = PlaceOf(p_ord, c_ord, d, y) => x = y
  BY <1>1 DEF TreeInv, PlacesInv
<1>11. \A d \in ChunkSet : \A x \in F(d) : x # d =>
          x \in ChunkSet \ tops /\ x \in Sets(kids)[d] /\ \A p \in Elements : x \in Sets(kids)[p] => p = d
  BY <1>4, FamilyMembers
<1> HIDE DEF children, F, tops
<1>12. \A e \in {c} \cup C : place[e] = PlaceOf(p_ord, c_ord, c, e)
  BY <1>8 DEF PlaceOf
<1> HIDE DEF place, C
<1>13. \A e \in C \cup {c} : place[e] \in Int
  <2>1. PlaceOf(p_ord, c_ord, c, c) \in Int
    BY <1>7, <1>10 DEF PlaceOf
  <2>2. \A e \in C : PlaceOf(p_ord, c_ord, c, e) \in Int
    <3> TAKE e \in C
    <3>1. e # c /\ e \in F(c)
      BY <1>9
    <3>2. e \in ChunkSet \ tops
      BY <1>7, <1>11, <3>1
    <3>3. PlaceOf(p_ord, c_ord, c, e) = c_ord[e]
      BY <3>1 DEF PlaceOf
    <3>4. QED
      BY <1>10, <3>2, <3>3
  <2>3. QED
    BY <1>12, <2>1, <2>2
<1>14. \A d, e \in C \cup {c} : place[d] = place[e] => d = e
  BY <1>7, <1>9, <1>10, <1>12
<1>15. Lists(s, C \cup {c})
  <2>1. \A e \in C : var[e] \in Variables \cup {Dummy}
    BY <1>8
  <2>2. \A e \in C : place[e] # place[c]
    BY <1>9, <1>14
  <2>3. IsOrder(rule)
    BY TreeAssumption
  <2>4. Arrangeable(C, children, c, var, place)
    BY <1>8, <1>9, <1>13, <2>1, <2>2 DEF Arrangeable
  <2>5. Apart(C, place)
    BY <1>14 DEF Apart
  <2>6. QED
    BY <2>3, <2>4, <2>5, ArrangementsList
<1>16. (\A e : Contains(s, e) <=> e \in C \cup {c}) /\ ToSet(s) = C \cup {c}
  BY <1>15, ElementsAre DEF Lists
<1> DEFINE at == InRow(s, C \cup {c})
<1>17. /\ \A e \in C \cup {c} : at[e] = Pos(s, e) /\ at[e] \in Int
       /\ \A d, e \in C \cup {c} : at[d] = at[e] => d = e
  <2>1. /\ \A e \in C \cup {c} : at[e] \in 1 .. Len(s) /\ at[e] = Pos(s, e)
        /\ \A d, e \in C \cup {c} : at[d] = at[e] => d = e
    BY <1>15, PlacesInRow
  <2> HIDE DEF at
  <2>2. QED
    BY <2>1
<1> HIDE DEF at
<1>18. p_ord' = [d \in ChunkSet |-> IF d = c THEN at[c] - 1 ELSE p_ord[d]]
  <2>1. p_ord' = [p_ord EXCEPT ![c] = at[c] - 1]
    BY <1>3, <1>16, <1>17
  <2>2. QED
    BY <1>7, <1>10, <2>1
<1>19. /\ DOMAIN c_ord' = ChunkSet \ tops
       /\ c_ord' = [e \in DOMAIN c_ord |-> c_ord'[e]]
       /\ \A e \in ChunkSet \ tops : c_ord'[e] = IF e \in C THEN at[e] - 1 ELSE c_ord[e]
  <2>1. DOMAIN c_ord = ChunkSet \ tops
    BY <1>10
  <2>2. DOMAIN c_ord' = DOMAIN c_ord /\ c_ord' = [e \in DOMAIN c_ord |-> c_ord'[e]]
    BY <1>3
  <2>3. \A e \in DOMAIN c_ord : c_ord'[e] = IF e # c /\ Contains(s, e) THEN Pos(s, e) - 1 ELSE c_ord[e]
    BY <1>3
  <2>4. \A e : e # c /\ Contains(s, e) <=> e \in C
    BY <1>9, <1>16
  <2>5. QED
    BY <1>17, <2>1, <2>2, <2>3, <2>4
<1>20. Elements' = Elements /\ WordSet' = WordSet /\ ChunkSet' = ChunkSet /\ Tree(kids')
  BY <1>1, <1>4 DEF Elements, WordSet, ChunkSet
<1>21. PlacesInv'
  <2>1. p_ord' \in [ChunkSet -> Int]
    <3>1. at[c] - 1 \in Int
      BY <1>17
    <3>2. QED
      BY <1>10, <1>18, <3>1
  <2>2. c_ord' \in [ChunkSet \ tops -> Int]
    <3>1. \A e \in C : at[e] - 1 \in Int
      BY <1>17
    <3>2. \A e \in ChunkSet \ tops : c_ord'[e] \in Int
      BY <1>10, <1>19, <3>1
    <3>3. QED
      BY <1>10, <1>19, <3>2
  <2>3. ASSUME NEW d \in ChunkSet, NEW x \in F(d), NEW y \in F(d),
               PlaceOf(p_ord', c_ord', d, x) = PlaceOf(p_ord', c_ord', d, y)
        PROVE  x = y
    <3>1. CASE d = c
      <4>1. \A e \in F(c) : PlaceOf(p_ord', c_ord', c, e) = at[e] - 1 /\ e \in C \cup {c}
        <5> TAKE e \in F(c)
        <5>1. CASE e = c
          BY <1>7, <1>18, <5>1 DEF PlaceOf
        <5>2. CASE e # c
          <6>1. e \in C /\ e \in ChunkSet \ tops
            BY <1>7, <1>9, <1>11, <5>2
          <6>2. QED
            BY <1>19, <5>2, <6>1 DEF PlaceOf
        <5>3. QED
          BY <5>1, <5>2
      <4>2. at[x] - 1 = at[y] - 1 /\ x \in C \cup {c} /\ y \in C \cup {c}
        BY <2>3, <3>1, <4>1
      <4>3. at[x] \in Int /\ at[y] \in Int
        BY <1>17, <4>2
      <4>4. at[x] = at[y]
        BY <4>2, <4>3
      <4>5. QED
        BY <1>17, <4>2, <4>4
    <3>2. CASE d # c
      <4>1. \A e \in F(d) : PlaceOf(p_ord', c_ord', d, e) = PlaceOf(p_ord, c_ord, d, e)
        <5> TAKE e \in F(d)
        <5>1. CASE e = d
          BY <1>18, <3>2, <5>1 DEF PlaceOf
        <5>2. CASE e # d
          <6>1. e \in ChunkSet \ tops /\ \A p \in Elements : e \in Sets(kids)[p] => p = d
            BY <1>11, <5>2
          <6>2. c \in Elements
            BY <1>7 DEF ChunkSet
          <6>3. e \notin C
            BY <3>2, <6>1, <6>2 DEF C
          <6>4. QED
            BY <1>19, <5>2, <6>1, <6>3 DEF PlaceOf
        <5>3. QED
          BY <5>1, <5>2
      <4>2. QED
        BY <1>10, <2>3, <4>1
    <3>3. QED
      BY <3>1, <3>2
  <2>4. QED
    BY <1>1, <1>20, <2>1, <2>2, <2>3 DEF PlacesInv, F, tops
<1>22. DOMAIN ord' \subseteq ChunkSet
  <2>1. DOMAIN ord' = DOMAIN ord \cup ToSet(s)
    BY <1>3 DEF Numbered
  <2>2. DOMAIN ord \subseteq ChunkSet
    BY <1>1 DEF TreeInv, OrdInv
  <2>3. QED
    BY <1>7, <1>9, <1>16, <2>1, <2>2
<1>23. OrdInv'
  BY <1>1, <1>20, <1>22 DEF OrdInv
<1>24. TopInv' /\ CloneInv'
  BY <1>1, <1>20 DEF TreeInv, TopInv, CloneInv
<1>25. TodoInv'
  BY <1>1, <1>5, <1>6, <1>20 DEF TodoInv
<1>26. OrderedInv'
  <2>1. DOMAIN orderedBy = WordSet /\ \A v \in WordSet : orderedBy[v] = {}
    BY <1>1 DEF TreeInv, OrderedInv
  <2>2. \A v \in WordSet : v \notin DOMAIN ord'
    BY <1>4, <1>22, OfTheTree
  <2>3. QED
    BY <1>1, <1>20, <2>1, <2>2 DEF OrderedInv
<1>27. WordsPrinted' /\ stage' \in Stages
  BY <1>1 DEF WordsPrinted, Stages
<1>28. QED
  BY <1>20, <1>21, <1>23, <1>24, <1>25, <1>26, <1>27 DEF TreeInv

\* Elements of one row numbered by their places.
LEMMA NumberedOne ==
    ASSUME NEW T, NEW s \in Seq(T), NEW f
    PROVE  /\ DOMAIN Numbered(f, {s}) = DOMAIN f \cup Range(s)
           /\ \A e \in Range(s) : Numbered(f, {s})[e] = Pos(s, e) - 1 /\ Pos(s, e) - 1 \in Int
           /\ \A e \in DOMAIN f \ Range(s) : Numbered(f, {s})[e] = f[e]
<1>1. ToSet(s) = Range(s) /\ \A e : Contains(s, e) <=> e \in Range(s)
  BY ElementsAre
<1>2. UNION {ToSet(r) : r \in {s}} = Range(s)
  BY <1>1
<1>3. \A e \in Range(s) : (CHOOSE r \in {s} : Contains(r, e)) = s
  BY <1>1
<1> DEFINE Row(e) == CHOOSE r \in {s} : Contains(r, e)
<1>4. Numbered(f, {s}) = [e \in DOMAIN f \cup Range(s) |->
                            IF \E r \in {s} : Contains(r, e) THEN Pos(Row(e), e) - 1 ELSE f[e]]
  BY <1>2 DEF Numbered
<1>5. \A e \in Range(s) : Row(e) = s
  BY <1>3
<1> HIDE DEF Row
<1>6. \A e \in Range(s) : Numbered(f, {s})[e] = Pos(s, e) - 1
  BY <1>1, <1>4, <1>5
<1>7. \A e \in DOMAIN f \ Range(s) : Numbered(f, {s})[e] = f[e]
  BY <1>1, <1>4
<1>8. \A e \in Range(s) : Pos(s, e) - 1 \in Int
  <2> TAKE e \in Range(s)
  <2>1. DOMAIN s = 1 .. Len(s) /\ \E n \in DOMAIN s : s[n] = e
    BY LenProperties DEF Range
  <2>2. Pos(s, e) \in DOMAIN s
    BY <2>1 DEF Pos
  <2>3. Pos(s, e) \in Int
    BY <2>1, <2>2
  <2>4. QED
    BY <2>3
<1>9. QED
  BY <1>4, <1>6, <1>7, <1>8

ChunkRow(c) ==
    InOrder(<<c>> \o ChildChunks(c),
            [e \in ToSet(<<c>> \o ChildChunks(c)) |-> IF e = c THEN p_ord[c] ELSE c_ord[e]])

\* It has all of the family.
LEMMA ChunkRowLists ==
    ASSUME TreeInv, stage = "interchunkOrder", NEW c \in ChunkSet
    PROVE  Lists(ChunkRow(c), ChunkFamily(kids, c))
<1> DEFINE F == ChunkFamily(kids, c)
           C == Sets(kids)[c] \cap ChunkSet
           own == <<c>> \o ChildChunks(c)
           number == [e \in ToSet(own) |-> IF e = c THEN p_ord[c] ELSE c_ord[e]]
<1>1. Tree(kids)
  BY DEF TreeInv
<1>2. Lists(ChildChunks(c), C)
  <2>1. c \in Elements
    BY DEF ChunkSet
  <2>2. QED
    BY <1>1, <2>1, ChildChunksAre
<1>3. F = {c} \cup C /\ c \notin C /\ F \subseteq ChunkSet
  BY <1>1, FamilyMembers
<1>4. \A e \in F : e # c => e \in ChunkSet \ Sets(kids)[Sentence]
  BY <1>1, FamilyMembers
<1>5. /\ p_ord \in [ChunkSet -> Int] /\ c_ord \in [ChunkSet \ Sets(kids)[Sentence] -> Int]
      /\ \A d, e \in F : PlaceOf(p_ord, c_ord, c, d) = PlaceOf(p_ord, c_ord, c, e) => d = e
  BY DEF TreeInv, PlacesInv
<1> HIDE DEF F, C
<1>6. Lists(own, F)
  <2>1. Lists(Cat(<<c>>, ChildChunks(c)), {c} \cup C)
    <3>1. {c} \cap C = {}
      BY <1>3
    <3>2. QED
      BY <1>2, <3>1, OneMember, CatLists
  <2>2. QED
    BY <1>3, <2>1 DEF Cat
<1> HIDE DEF own
<1>7. ToSet(own) = F
  BY <1>6, ElementsAre DEF Lists
<1>8. \A e \in F : number[e] = PlaceOf(p_ord, c_ord, c, e)
  BY <1>7 DEF PlaceOf
<1>9. \A e \in F : PlaceOf(p_ord, c_ord, c, e) \in Int
  BY <1>4, <1>5 DEF PlaceOf
<1> HIDE DEF number
<1>10. (\A e \in F : number[e] \in Int) /\ \A d, e \in F : number[d] = number[e] => d = e
  BY <1>5, <1>8, <1>9
<1>11. Lists(InOrder(own, number), F)
  BY <1>6, <1>10, InOrderLists
<1>12. QED
  BY <1>11 DEF ChunkRow, own, number, F

\* The walk that puts each chunk in its place gets to every chunk once.
LEMMA ChunksInARow ==
    ASSUME TreeInv, stage = "interchunkOrder", NEW top, Sets(kids)[Sentence] = {top}
    PROVE  top \in ChunkSet /\ Lists(Walk([c \in ChunkSet |-> ChunkRow(c)], top), ChunkSet)
<1> DEFINE families == [c \in ChunkSet |-> ChunkRow(c)]
<1>1. Tree(kids)
  BY DEF TreeInv
<1>2. top \in ChunkSet /\ Sentence \in Elements
  <2>1. Sentence \in DOMAIN kids /\ Sets(kids)[Sentence] = Range(kids[Sentence])
    BY <1>1 DEF Tree, TreeShape, Sets
  <2>2. top \in Range(kids[Sentence])
    BY <2>1
  <2>3. top \in Elements /\ IsChunk(top)
    BY <1>1, <2>1, <2>2, TreeRows DEF Tree, TreeShape, Elements
  <2>4. QED
    BY <2>1, <2>3 DEF ChunkSet, Elements
<1>3. ASSUME NEW c \in ChunkSet
      PROVE  /\ families[c] \in Seq(ChunkSet) /\ Distinct(families[c])
             /\ Range(families[c]) = {c} \cup (Sets(kids)[c] \cap ChunkSet)
  <2>1. Lists(ChunkRow(c), ChunkFamily(kids, c))
    BY ChunkRowLists
  <2>2. ChunkFamily(kids, c) = {c} \cup (Sets(kids)[c] \cap ChunkSet) /\ ChunkFamily(kids, c) \subseteq ChunkSet
    BY <1>1, FamilyMembers
  <2>3. QED
    BY <2>1, <2>2, SeqMonotonic DEF Lists
<1>4. \A c \in ChunkSet : c \in DOMAIN kids /\ Sets(kids)[c] = Range(kids[c])
  BY DEF Sets, ChunkSet, Elements
<1>5. families = [c \in ChunkSet |-> families[c]]
  OBVIOUS
<1> HIDE DEF families
<1>6. Families(kids, ChunkSet, families)
  <2>1. families \in [ChunkSet -> Seq(ChunkSet)]
    BY <1>3, <1>5
  <2>2. QED
    BY <1>3, <1>4, <2>1 DEF Families
<1>7. PICK h, N : RankedBy(kids, h, N)
  BY <1>1 DEF Tree
<1> DEFINE g == [d \in ChunkSet |-> h[d]]
<1>8. Ranks(ChunkSet, families, g, N) /\ Heads(ChunkSet, families)
  BY <1>1, <1>6, <1>7, FamiliesRanked DEF Tree
<1> HIDE DEF g
<1>9. \A x \in ChunkSet : x # top => \E p \in ChunkSet : p # x /\ x \in Range(families[p])
  <2> TAKE x \in ChunkSet
  <2> HAVE x # top
  <2> DEFINE p == Over(kids, x)
  <2>1. x \in Elements /\ x # Sentence /\ ~IsWord(x)
    BY <1>1, OfTheTree, ElementKinds
  <2>2. p \in Elements /\ x \in Range(kids[p])
    BY <1>1, <2>1, OverIs DEF Elements
  <2>3. p # Sentence
    <3>1. Sets(kids)[Sentence] = Range(kids[Sentence])
      BY <1>2 DEF Sets, Elements
    <3>2. QED
      BY <2>2, <3>1
  <2>4. p \notin WordSet
    BY <1>1, <2>1, <2>2 DEF Tree, TreeShape, WordSet, Elements
  <2> HIDE DEF p
  <2>5. p \in ChunkSet
    BY <1>1, <2>2, <2>3, <2>4, OfTheTree
  <2>6. x \in Range(families[p])
    BY <1>3, <1>4, <2>2, <2>5
  <2>7. p # x
    BY <1>1, <2>2, TreeRows DEF Elements
  <2>8. QED
    BY <2>5, <2>6, <2>7
<1>10. Below(families, top) = ChunkSet
  BY <1>2, <1>8, <1>9, BelowWhole
<1>11. Lists(Walk(families, top), Below(families, top))
  BY <1>1, <1>2, <1>6, FamilyWalks
<1>12. QED
  BY <1>2, <1>10, <1>11 DEF families

\* Putting the chunks in a row keeps the invariant: no two get one number.
LEMMA LinearOrderChunkInv ==
    TreeInv /\ LinearOrderChunk => TreeInv'
<1> SUFFICES ASSUME TreeInv, LinearOrderChunk PROVE TreeInv'
  OBVIOUS
<1> DEFINE families == [c \in ChunkSet |-> ChunkRow(c)]
<1>1. /\ stage = "interchunkOrder" /\ stage' = "intrachunkOrder" /\ todo' = Listed(WordSet)
      /\ kids' = kids /\ orderedBy' = orderedBy
  BY DEF LinearOrderChunk, history
<1>2. ord' = Numbered(ord, {Walk(families, c) : c \in ToSet(ChildChunks(Sentence))})
  BY DEF LinearOrderChunk, ChunkRow
<1>3. Tree(kids)
  BY DEF TreeInv
<1>4. PICK top : Sets(kids)[Sentence] = {top}
  BY <1>1 DEF TreeInv, TopInv
<1> DEFINE row == Walk(families, top)
<1>5. top \in ChunkSet /\ Lists(row, ChunkSet)
  BY <1>1, <1>4, ChunksInARow
<1>6. ToSet(ChildChunks(Sentence)) = {top}
  <2>1. Sentence \in Elements
    BY <1>3 DEF Tree, TreeShape, Elements
  <2>2. QED
    BY <1>3, <1>4, <1>5, <2>1, ChildChunksAre
<1> HIDE DEF families
<1>7. ord' = Numbered(ord, {row})
  <2>1. {Walk(families, c) : c \in {top}} = {row}
    OBVIOUS
  <2>2. QED
    BY <1>2, <1>6, <2>1
<1> HIDE DEF row
<1>8. row \in Seq(ChunkSet) /\ Range(row) = ChunkSet
  BY <1>5 DEF Lists
<1>9. DOMAIN ord' = ChunkSet /\ \A e \in ChunkSet : ord'[e] = Pos(row, e) - 1 /\ ord'[e] \in Int
  <2>1. DOMAIN ord \subseteq ChunkSet
    BY <1>1 DEF TreeInv, OrdInv
  <2>2. /\ DOMAIN Numbered(ord, {row}) = DOMAIN ord \cup Range(row)
        /\ \A e \in Range(row) : Numbered(ord, {row})[e] = Pos(row, e) - 1 /\ Pos(row, e) - 1 \in Int
    BY <1>8, NumberedOne
  <2>3. QED
    BY <1>7, <1>8, <2>1, <2>2
<1>10. \A c, d \in ChunkSet : ord'[c] = ord'[d] => c = d
  <2> TAKE c, d \in ChunkSet
  <2> HAVE ord'[c] = ord'[d]
  <2> DEFINE at == InRow(row, ChunkSet)
  <2>1. /\ \A e \in ChunkSet : at[e] \in 1 .. Len(row) /\ at[e] = Pos(row, e)
        /\ \A x, y \in ChunkSet : at[x] = at[y] => x = y
    BY <1>5, PlacesInRow
  <2> HIDE DEF at
  <2>2. at[c] - 1 = at[d] - 1 /\ at[c] \in Int /\ at[d] \in Int
    BY <1>9, <2>1
  <2>3. at[c] = at[d]
    BY <2>2
  <2>4. QED
    BY <2>1, <2>3
<1>11. Elements' = Elements /\ WordSet' = WordSet /\ ChunkSet' = ChunkSet /\ Tree(kids')
  BY <1>1, <1>3 DEF Elements, WordSet, ChunkSet
<1>12. OrdInv'
  <2>1. ChunkSet \subseteq Elements
    BY DEF ChunkSet
  <2>2. QED
    BY <1>1, <1>9, <1>10, <1>11, <2>1 DEF OrdInv
<1>13. TopInv' /\ CloneInv' /\ PlacesInv'
  BY <1>1, <1>11 DEF TreeInv, TopInv, CloneInv, PlacesInv
<1>14. TodoInv'
  <2>1. WordSet \subseteq Elements
    BY DEF WordSet
  <2>2. QED
    BY <1>1, <1>3, <1>11, <2>1, ListedIs DEF TodoInv
<1>15. OrderedInv'
  <2>1. DOMAIN orderedBy = WordSet /\ \A v \in WordSet : orderedBy[v] = {}
    BY <1>1 DEF TreeInv, OrderedInv
  <2>2. \A v \in WordSet : v \notin DOMAIN ord'
    BY <1>3, <1>9, OfTheTree
  <2>3. QED
    BY <1>1, <1>11, <2>1, <2>2 DEF OrderedInv
<1>16. WordsPrinted' /\ stage' \in Stages
  BY <1>1 DEF WordsPrinted, Stages
<1>17. QED
  BY <1>11, <1>12, <1>13, <1>14, <1>15, <1>16 DEF TreeInv

\* The words that a rule for a word places.
LEMMA UnderIs ==
    ASSUME Tree(kids), NEW u \in WordSet
    PROVE  /\ Under(u) = Below(Whole(kids), u)
           /\ Under(u) \subseteq WordSet /\ u \in Under(u)
<1>1. u \in DOMAIN kids /\ WordSet = WordsIn(kids)
  BY OfTheTree DEF Elements
<1>2. Lists(Walk(Whole(kids), u), Below(Whole(kids), u)) /\ u \in Below(Whole(kids), u)
  BY <1>1, WholeFamilies, FamilyWalks
<1>3. ToSet(Walk(Whole(kids), u)) = Range(Walk(Whole(kids), u))
  BY <1>2, ElementsAre DEF Lists
<1>4. Under(u) = Below(Whole(kids), u)
  BY <1>3 DEF Under, Below
<1>5. Below(Whole(kids), u) \subseteq WordSet
  BY <1>1, WordsBelow
<1>6. QED
  BY <1>2, <1>4, <1>5

\* A rule for a word keeps the invariant: it places all words below it, each elsewhere, if their refs differ.
LEMMA IntrachunkOrderInv ==
    ASSUME TreeInv, NEW i \in DOMAIN todo, IntrachunkOrder(i)
    PROVE  TreeInv'
<1> DEFINE w == todo[i]
           U == Under(w)
           C == U \ {w}
           below == Listed(C)
           place == [e \in U |-> Ref(e)]
<1>1. /\ stage = "intrachunkOrder" /\ stage' = "intrachunkOrder"
      /\ todo' = From(todo, i) /\ kids' = kids /\ kids[w] # <<>>
  BY DEF IntrachunkOrder, Visit, From
<1>2. PICK rule \in WordRules, var \in [ToSet(below) -> Variables \cup {Dummy}] :
        \E s \in Arrangements(w, below, var, place, rule) :
          /\ ord' = Numbered(ord, {s})
          /\ orderedBy' = [e \in WordSet |-> orderedBy[e] \cup (IF e \in U THEN {w} ELSE {})]
  BY DEF IntrachunkOrder
<1>3. PICK s \in Arrangements(w, below, var, place, rule) :
          /\ ord' = Numbered(ord, {s})
          /\ orderedBy' = [e \in WordSet |-> orderedBy[e] \cup (IF e \in U THEN {w} ELSE {})]
  BY <1>2
<1>4. Tree(kids)
  BY DEF TreeInv
<1>5. todo \in Seq(Elements) /\ Range(todo) \subseteq WordSet
  BY <1>1 DEF TreeInv, TodoInv
<1>6. w \in Range(todo) /\ todo' \in Seq(Elements) /\ Range(todo') \subseteq Range(todo)
  <2>1. w \in Range(todo) /\ From(todo, i) \in Seq(Elements) /\ Range(From(todo, i)) \subseteq Range(todo)
    BY <1>5, FromIs
  <2>2. QED
    BY <1>1, <2>1
<1>7. w \in WordSet
  BY <1>5, <1>6
<1> HIDE DEF w
<1>8. U \subseteq WordSet /\ w \in U /\ U = Below(Whole(kids), w)
  BY <1>4, <1>7, UnderIs
<1> HIDE DEF U
<1>9. w[3] = 0
  <2>1. w \in Elements /\ w[3] \in Nat
    BY <1>4, <1>7, OfTheTree, ElementKinds
  <2>2. Sets(kids)[w] # {}
    BY <1>1, <1>4, <2>1, ChildChunksAre
  <2>3. ~(w[3] > 0)
    BY <1>7, <2>2 DEF TreeInv, CloneInv
  <2>4. QED
    BY <2>1, <2>3
<1>10. Lists(below, C) /\ ToSet(below) = C
  <2>1. C \subseteq Elements
    BY <1>8 DEF WordSet
  <2> HIDE DEF C
  <2>2. Lists(below, C)
    BY <1>4, <2>1, ListedIs
  <2>3. QED
    BY <2>2, ElementsAre DEF Lists
<1>11. C \cup {w} = U /\ w \notin C
  BY <1>8
<1> HIDE DEF below
<1>12. Arrangeable(C, below, w, var, place)
  <2>1. \A e \in C : var[e] \in Variables \cup {Dummy}
    BY <1>10
  <2>2. \A e \in WordSet : Ref(e) \in Int
    BY <1>4, RefsIs
  <2>3. \A e \in WordSet : Ref(e) = Ref(w) => e = w
    BY <1>4, <1>7, <1>9, RefsIs
  <2>4. \A e \in U : place[e] = Ref(e)
    OBVIOUS
  <2> HIDE DEF place, C
  <2>5. \A e \in C \cup {w} : place[e] \in Int
    BY <1>8, <1>11, <2>2, <2>4
  <2>6. \A e \in C : place[e] # place[w]
    BY <1>8, <1>11, <2>3, <2>4
  <2>7. QED
    BY <1>10, <1>11, <2>1, <2>5, <2>6 DEF Arrangeable
<1>13. IsOrder(rule)
  BY TreeAssumption
<1>14. RefsDiffer(U) => Apart(C, place)
  BY DEF RefsDiffer, Apart
<1> HIDE DEF place, C
<1>15. s \in Seq(U) /\ (RefsDiffer(U) => Lists(s, U))
  BY <1>11, <1>12, <1>13, <1>14, ArrangementsList
<1>16. Range(s) \subseteq U
  BY <1>15, ElementsAre
<1>17. /\ DOMAIN ord' = DOMAIN ord \cup Range(s)
       /\ \A e \in Range(s) : ord'[e] = Pos(s, e) - 1 /\ ord'[e] \in Int
       /\ \A e \in DOMAIN ord \ Range(s) : ord'[e] = ord[e]
  <2>1. s \in Seq(U)
    BY <1>15
  <2>2. /\ DOMAIN Numbered(ord, {s}) = DOMAIN ord \cup Range(s)
        /\ \A e \in Range(s) : Numbered(ord, {s})[e] = Pos(s, e) - 1 /\ Pos(s, e) - 1 \in Int
        /\ \A e \in DOMAIN ord \ Range(s) : Numbered(ord, {s})[e] = ord[e]
    BY <2>1, NumberedOne
  <2>3. ord' = Numbered(ord, {s})
    BY <1>3
  <2>4. QED
    BY <2>2, <2>3
<1>18. /\ DOMAIN orderedBy' = WordSet
       /\ \A e \in WordSet : orderedBy'[e] = orderedBy[e] \cup (IF e \in U THEN {w} ELSE {})
  BY <1>3
<1>19. Elements' = Elements /\ WordSet' = WordSet /\ ChunkSet' = ChunkSet /\ Tree(kids')
  BY <1>1, <1>4 DEF Elements, WordSet, ChunkSet
<1>20. TopInv' /\ CloneInv' /\ PlacesInv'
  BY <1>1, <1>19 DEF TreeInv, TopInv, CloneInv, PlacesInv
<1>21. TodoInv'
  BY <1>1, <1>5, <1>6, <1>19 DEF TodoInv
<1>22. OrdInv'
  <2>1. /\ ChunkSet \subseteq DOMAIN ord /\ DOMAIN ord \subseteq Elements
        /\ \A e \in DOMAIN ord : ord[e] \in Int
        /\ \A c, d \in ChunkSet : ord[c] = ord[d] => c = d
    BY <1>1 DEF TreeInv, OrdInv
  <2>2. ChunkSet \cap Range(s) = {}
    BY <1>4, <1>8, <1>16, OfTheTree
  <2>3. Range(s) \subseteq Elements
    BY <1>8, <1>16 DEF WordSet
  <2>4. ChunkSet \subseteq DOMAIN ord' /\ DOMAIN ord' \subseteq Elements
    BY <1>17, <2>1, <2>3
  <2>5. \A e \in DOMAIN ord' : ord'[e] \in Int
    BY <1>17, <2>1
  <2>6. \A c, d \in ChunkSet : ord'[c] = ord'[d] => c = d
    <3>1. \A c \in ChunkSet : ord'[c] = ord[c]
      BY <1>17, <2>1, <2>2
    <3>2. QED
      BY <2>1, <3>1
  <2>7. QED
    BY <1>1, <1>19, <2>4, <2>5, <2>6 DEF OrdInv
<1>23. OrderedInv'
  <2>1. /\ \A v \in WordSet : \A u \in orderedBy[v] : u \in WordSet /\ v \in Below(Whole(kids), u)
        /\ \A v \in WordSet : v \in DOMAIN ord => orderedBy[v] # {}
    BY DEF TreeInv, OrderedInv
  <2>2. \A u \in WordSet : RefsDiffer(Below(Whole(kids), u)) =>
           \A v, x \in WordSet : orderedBy[v] = {u} /\ orderedBy[x] = {u} =>
               v \in DOMAIN ord /\ x \in DOMAIN ord /\ (ord[v] = ord[x] => v = x)
    BY DEF TreeInv, OrderedInv
  <2>3. \A v \in WordSet : \A u \in orderedBy'[v] : u \in WordSet /\ v \in Below(Whole(kids), u)
    BY <1>7, <1>8, <1>18, <2>1
  <2>4. \A v \in WordSet : v \in DOMAIN ord' => orderedBy'[v] # {}
    BY <1>16, <1>17, <1>18, <2>1
  <2>5. ASSUME NEW u \in WordSet, RefsDiffer(Below(Whole(kids), u)),
               NEW v \in WordSet, NEW x \in WordSet, orderedBy'[v] = {u}, orderedBy'[x] = {u}
        PROVE  v \in DOMAIN ord' /\ x \in DOMAIN ord' /\ (ord'[v] = ord'[x] => v = x)
    <3>1. CASE u = w
      <4>1. v \in U /\ x \in U
        BY <1>8, <2>3, <2>5, <3>1
      <4>2. Lists(s, U) /\ Range(s) = U
        BY <1>8, <1>15, <2>5, <3>1 DEF Lists
      <4> DEFINE at == InRow(s, U)
      <4>3. /\ \A e \in U : at[e] \in 1 .. Len(s) /\ at[e] = Pos(s, e)
            /\ \A d, e \in U : at[d] = at[e] => d = e
        BY <4>2, PlacesInRow
      <4> HIDE DEF at
      <4>4. at[v] \in Int /\ at[x] \in Int /\ ord'[v] = at[v] - 1 /\ ord'[x] = at[x] - 1
        BY <1>17, <4>1, <4>2, <4>3
      <4>5. ord'[v] = ord'[x] => at[v] = at[x]
        BY <4>4
      <4>6. QED
        BY <1>17, <4>1, <4>2, <4>3, <4>5
    <3>2. CASE u # w
      <4>1. \A e \in WordSet : orderedBy'[e] = {u} => e \notin U /\ orderedBy[e] = {u}
        BY <1>18, <3>2
      <4>2. v \notin U /\ x \notin U /\ orderedBy[v] = {u} /\ orderedBy[x] = {u}
        BY <2>5, <4>1
      <4>3. v \in DOMAIN ord /\ x \in DOMAIN ord /\ (ord[v] = ord[x] => v = x)
        BY <2>2, <2>5, <4>2
      <4>4. ord'[v] = ord[v] /\ ord'[x] = ord[x]
        BY <1>16, <1>17, <4>2, <4>3
      <4>5. QED
        BY <1>17, <4>3, <4>4
    <3>3. QED
      BY <3>1, <3>2
  <2>6. \A S : RefsDiffer(S)' = RefsDiffer(S)
    BY <1>19 DEF RefsDiffer, Ref
  <2>7. QED
    BY <1>1, <1>18, <1>19, <2>3, <2>4, <2>5, <2>6 DEF OrderedInv
<1>24. WordsPrinted' /\ stage' \in Stages
  BY <1>1 DEF WordsPrinted, Stages
<1>25. QED
  BY <1>19, <1>20, <1>21, <1>22, <1>23, <1>24 DEF TreeInv

Key == [w \in WordSet |-> IF w \in DOMAIN ord THEN ord[w] ELSE Ref(w)]

\* Words of one chunk that are placed alike have different keys.
LEMMA KeysDiffer ==
    ASSUME TreeInv, stage = "intrachunkOrder", NEW c \in ChunkSet, PlacedAlike(c)
    PROVE  LET B == Below(WordFamily(kids), c) \cap WordsIn(kids)
           IN /\ Lists(WordsOf(c), B) /\ ToSet(WordsOf(c)) = B
              /\ \A w \in B : Key[w] \in Int
              /\ \A v, w \in B : Key[v] = Key[w] => v = w
<1> DEFINE B == Below(WordFamily(kids), c) \cap WordsIn(kids)
<1>1. Tree(kids)
  BY DEF TreeInv
<1>2. /\ WordsOf(c) = OwnWords(kids, c) /\ WordSet = WordsIn(kids) /\ ChunkSet = ChunksIn(kids)
      /\ c \in DOMAIN kids /\ IsFiniteSet(WordSet)
  BY <1>1, OfTheTree
<1>3. Lists(WordsOf(c), B) /\ ToSet(WordsOf(c)) = B
  <2>1. Lists(OwnWords(kids, c), B) /\ ToSet(OwnWords(kids, c)) = B
    BY <1>1, <1>2, ChunkWords
  <2>2. QED
    BY <1>2, <2>1
<1>4. B \subseteq WordSet
  BY <1>2
<1>5. \A v, w \in B : v # w => Ref(v) # Ref(w)
  BY <1>3 DEF PlacedAlike
<1>6. \A v, w \in B : orderedBy[v] = orderedBy[w]
  BY <1>3 DEF PlacedAlike
<1>7. \A v \in B : Cardinality(orderedBy[v]) <= 1
  BY <1>3 DEF PlacedAlike
<1>8. \A w \in WordSet : Ref(w) \in Int
  BY <1>1, RefsIs
<1>9. \A e \in DOMAIN ord : ord[e] \in Int
  BY DEF TreeInv, OrdInv
<1>10. \A w \in WordSet : Key[w] = IF w \in DOMAIN ord THEN ord[w] ELSE Ref(w)
  BY DEF Key
<1>11. \A w \in B : Key[w] \in Int
  BY <1>4, <1>8, <1>9, <1>10
<1>12. \A v \in WordSet : \A u \in orderedBy[v] : u \in WordSet /\ v \in Below(Whole(kids), u)
  BY DEF TreeInv, OrderedInv
<1>13. \A v \in WordSet : v \in DOMAIN ord => orderedBy[v] # {}
  BY DEF TreeInv, OrderedInv
<1>14. \A u \in WordSet : RefsDiffer(Below(Whole(kids), u)) =>
           \A v, w \in WordSet : orderedBy[v] = {u} /\ orderedBy[w] = {u} =>
               v \in DOMAIN ord /\ w \in DOMAIN ord /\ (ord[v] = ord[w] => v = w)
  BY DEF TreeInv, OrderedInv
<1>15. \A v \in B : v \in Below(WordFamily(kids), c)
  OBVIOUS
<1>16. \A S \in SUBSET WordSet : S \subseteq Below(WordFamily(kids), c) => S \subseteq B
  BY <1>2
<1> HIDE DEF B
<1>17. ASSUME NEW v \in B, NEW w \in B, Key[v] = Key[w] PROVE v = w
  <2>1. v \in WordSet /\ w \in WordSet /\ orderedBy[v] = orderedBy[w]
    BY <1>4, <1>6, <1>17
  <2>2. CASE orderedBy[v] = {}
    <3>1. v \notin DOMAIN ord /\ w \notin DOMAIN ord
      BY <1>13, <2>1, <2>2
    <3>2. Ref(v) = Ref(w)
      BY <1>10, <1>17, <2>1, <3>1
    <3>3. QED
      BY <1>5, <1>17, <3>2
  <2>3. CASE orderedBy[v] # {}
    <3>1. PICK u \in orderedBy[v] : TRUE
      BY <2>3
    <3>2. u \in WordSet /\ v \in Below(Whole(kids), u)
      BY <1>12, <2>1, <3>1
    <3>3. orderedBy[v] = {u}
      <4>1. orderedBy[v] \subseteq WordSet
        BY <1>12, <2>1
      <4>2. IsFiniteSet(orderedBy[v])
        BY <1>2, <4>1, FS_Subset
      <4>3. Cardinality(orderedBy[v]) <= 1
        BY <1>7, <1>17
      <4>4. orderedBy[v] \ {u} = {}
        <5>1. Cardinality(orderedBy[v]) \in Nat /\ Cardinality(orderedBy[v] \ {u}) = Cardinality(orderedBy[v]) - 1
          BY <3>1, <4>2, FS_RemoveElement, FS_CardinalityType
        <5>2. IsFiniteSet(orderedBy[v] \ {u}) /\ Cardinality(orderedBy[v] \ {u}) \in Nat
          BY <4>2, FS_RemoveElement, FS_CardinalityType
        <5>3. Cardinality(orderedBy[v] \ {u}) = 0
          BY <4>3, <5>1, <5>2
        <5>4. QED
          BY <5>2, <5>3, FS_EmptySet
      <4>5. QED
        BY <3>1, <4>4
    <3>4. Below(Whole(kids), u) \subseteq WordSet
      BY <1>1, <1>2, <3>2, WordsBelow
    <3>5. Below(Whole(kids), u) \subseteq B
      <4>1. v \in Below(WordFamily(kids), c)
        BY <1>15, <1>17
      <4>2. Below(Whole(kids), u) \subseteq Below(WordFamily(kids), c)
        BY <1>1, <1>2, <3>2, <4>1, WordsTogether
      <4>3. QED
        BY <1>16, <3>4, <4>2
    <3>6. RefsDiffer(Below(Whole(kids), u))
      BY <1>5, <3>5 DEF RefsDiffer
    <3>7. v \in DOMAIN ord /\ w \in DOMAIN ord /\ (ord[v] = ord[w] => v = w)
      BY <1>14, <2>1, <3>2, <3>3, <3>6
    <3>8. QED
      BY <1>10, <1>17, <2>1, <3>7
  <2>4. QED
    BY <2>2, <2>3
<1>18. QED
  BY <1>3, <1>11, <1>17 DEF B

\* Printing keeps the invariant, and loses no chunk, and no word of chunks whose words are placed alike.
LEMMA OutputGermanMorphInv ==
    TreeInv /\ OutputGermanMorph => TreeInv'
<1> SUFFICES ASSUME TreeInv, OutputGermanMorph PROVE TreeInv'
  OBVIOUS
<1> DEFINE chunks == InOrder(Listed(ChunkSet), ord)
<1>1. /\ stage = "intrachunkOrder" /\ stage' = "done"
      /\ printed' = [i \in DOMAIN chunks |-> <<chunks[i], InOrder(WordsOf(chunks[i]), Key)>>]
      /\ todo' = todo /\ kids' = kids /\ ord' = ord /\ orderedBy' = orderedBy
  BY DEF OutputGermanMorph, Key, attributes, history
<1>2. Tree(kids) /\ todo \in Seq(Elements)
  BY DEF TreeInv, TodoInv
<1>3. Elements' = Elements /\ WordSet' = WordSet /\ ChunkSet' = ChunkSet /\ Tree(kids')
  BY <1>1, <1>2 DEF Elements, WordSet, ChunkSet
<1>4. TopInv' /\ CloneInv' /\ PlacesInv'
  BY <1>1, <1>3 DEF TreeInv, TopInv, CloneInv, PlacesInv
<1>5. TodoInv'
  BY <1>1, <1>2, <1>3 DEF TodoInv
<1>6. OrdInv'
  BY <1>1, <1>3 DEF TreeInv, OrdInv
<1>7. \A S : RefsDiffer(S)' = RefsDiffer(S)
  BY <1>1, <1>3 DEF RefsDiffer, Ref
<1>8. OrderedInv'
  BY <1>1, <1>3, <1>7 DEF TreeInv, OrderedInv
<1>9. Lists(chunks, ChunkSet)
  <2>1. Lists(Listed(ChunkSet), ChunkSet)
    BY <1>2, ListedIs DEF ChunkSet
  <2>2. /\ \A e \in ChunkSet : ord[e] \in Int
        /\ \A c, d \in ChunkSet : ord[c] = ord[d] => c = d
    BY <1>1 DEF TreeInv, OrdInv
  <2>3. QED
    BY <2>1, <2>2, InOrderLists
<1> HIDE DEF chunks
<1>10. /\ chunks \in Seq(ChunkSet) /\ Range(chunks) = ChunkSet
       /\ DOMAIN chunks = 1 .. Len(chunks) /\ Len(chunks) \in Nat
       /\ Len(chunks) = Cardinality(ChunkSet)
  BY <1>9, ListsLength, LenProperties DEF Lists
<1>11. /\ DOMAIN printed' = DOMAIN chunks
       /\ \A i \in DOMAIN chunks :
            printed'[i][1] = chunks[i] /\ printed'[i][2] = InOrder(WordsOf(chunks[i]), Key)
  BY <1>1
<1>12. Len(printed') = Cardinality(ChunkSet)
  <2>1. Len(printed') = Len(chunks)
    BY <1>1, <1>10
  <2>2. QED
    BY <1>10, <2>1
<1>13. {printed'[i][1] : i \in DOMAIN printed'} = ChunkSet
  <2>1. {chunks[i] : i \in DOMAIN chunks} = ChunkSet
    BY <1>10 DEF Range
  <2>2. QED
    BY <1>11, <2>1
<1>14. \A c : /\ WordsOf(c)' = WordsOf(c)
              /\ PlacedAlike(c)' = PlacedAlike(c)
  <2>1. \A c : WordsOf(c)' = WordsOf(c)
    BY <1>1, <1>3 DEF WordsOf
  <2>2. \A w : Ref(w)' = Ref(w)
    BY <1>3 DEF Ref
  <2>3. QED
    BY <1>1, <2>1, <2>2 DEF PlacedAlike
<1>15. ASSUME NEW i \in DOMAIN chunks, PlacedAlike(chunks[i])
       PROVE  /\ Len(InOrder(WordsOf(chunks[i]), Key)) = Len(WordsOf(chunks[i]))
              /\ ToSet(InOrder(WordsOf(chunks[i]), Key)) = ToSet(WordsOf(chunks[i]))
  <2> DEFINE c == chunks[i]
             B == Below(WordFamily(kids), c) \cap WordsIn(kids)
  <2>1. c \in ChunkSet
    BY <1>10
  <2>2. /\ Lists(WordsOf(c), B) /\ ToSet(WordsOf(c)) = B
        /\ \A w \in B : Key[w] \in Int
        /\ \A v, w \in B : Key[v] = Key[w] => v = w
    BY <1>1, <1>15, <2>1, KeysDiffer
  <2> HIDE DEF c, B
  <2>3. Lists(InOrder(WordsOf(c), Key), B)
    BY <2>2, InOrderLists
  <2>4. Len(InOrder(WordsOf(c), Key)) = Cardinality(B) /\ Len(WordsOf(c)) = Cardinality(B)
    BY <2>2, <2>3, ListsLength
  <2>5. ToSet(InOrder(WordsOf(c), Key)) = B
    BY <2>3, ElementsAre DEF Lists
  <2>6. QED
    BY <2>2, <2>4, <2>5 DEF c
<1>16. \A i \in DOMAIN printed' : \A c : c = printed'[i][1] =>
         (PlacedAlike(c)' => /\ Len(printed'[i][2]) = Len(WordsOf(c)')
                            /\ ToSet(printed'[i][2]) = ToSet(WordsOf(c)'))
  <2> TAKE i \in DOMAIN printed'
  <2> TAKE c
  <2> HAVE c = printed'[i][1]
  <2>1. /\ i \in DOMAIN chunks /\ c = chunks[i]
        /\ printed'[i][2] = InOrder(WordsOf(chunks[i]), Key)
    BY <1>11
  <2>2. WordsOf(c)' = WordsOf(c) /\ PlacedAlike(c)' = PlacedAlike(c)
    BY <1>14
  <2>3. QED
    BY <1>15, <2>1, <2>2
<1>17. WordsPrinted'
  BY <1>3, <1>12, <1>13, <1>16 DEF WordsPrinted
<1>18. stage' \in Stages
  BY <1>1 DEF Stages
<1>19. QED
  BY <1>3, <1>4, <1>5, <1>6, <1>8, <1>17, <1>18 DEF TreeInv

\* A step that changes nothing keeps the invariant.
LEMMA TreeStutters ==
    TreeInv /\ UNCHANGED treeVars => TreeInv'
<1> SUFFICES ASSUME TreeInv, UNCHANGED treeVars PROVE TreeInv'
  OBVIOUS
<1>1. /\ stage' = stage /\ todo' = todo /\ kids' = kids /\ p_ord' = p_ord /\ c_ord' = c_ord
      /\ ord' = ord /\ printed' = printed /\ orderedBy' = orderedBy
  BY DEF treeVars, attributes, history
<1>2. Tree(kids') /\ stage' \in Stages
  BY <1>1 DEF TreeInv
<1>3. Elements' = Elements /\ WordSet' = WordSet /\ ChunkSet' = ChunkSet
  BY <1>1 DEF Elements, WordSet, ChunkSet
<1>4. TopInv' /\ CloneInv' /\ PlacesInv'
  BY <1>1, <1>3 DEF TreeInv, TopInv, CloneInv, PlacesInv
<1>5. TodoInv'
  <2>1. Grandchildren' = Grandchildren
    BY <1>1, <1>3 DEF Grandchildren, Parent
  <2>2. \A w : Unsplit(w)' = Unsplit(w)
    BY <1>3 DEF Unsplit
  <2>3. TodoInv
    BY DEF TreeInv
  <2>4. QED
    BY <1>1, <1>3, <2>1, <2>2, <2>3 DEF TodoInv
<1>6. OrdInv'
  BY <1>1, <1>3 DEF TreeInv, OrdInv
<1>7. \A w : Ref(w)' = Ref(w)
  BY <1>3 DEF Ref
<1>8. \A S : RefsDiffer(S)' = RefsDiffer(S)
  BY <1>7 DEF RefsDiffer
<1>9. OrderedInv'
  BY <1>1, <1>3, <1>8 DEF TreeInv, OrderedInv
<1>10. \A c : WordsOf(c)' = WordsOf(c)
  BY <1>1, <1>3 DEF WordsOf
<1>11. \A c : PlacedAlike(c)' = PlacedAlike(c)
  BY <1>1, <1>7, <1>10 DEF PlacedAlike
<1>12. WordsPrinted'
  BY <1>1, <1>3, <1>10, <1>11 DEF TreeInv, WordsPrinted
<1>13. QED
  BY <1>2, <1>3, <1>4, <1>5, <1>6, <1>9, <1>12 DEF TreeInv

THEOREM WordsAlwaysPrinted == TreeSpec => []WordsPrinted
<1>1. TreeInit => TreeInv
  BY InitInv
<1>2. TreeInv /\ [TreeNext]_treeVars => TreeInv'
  <2> SUFFICES ASSUME TreeInv, [TreeNext]_treeVars PROVE TreeInv'
    OBVIOUS
  <2>1. CASE AttachTopChunks
    BY <2>1, AttachTopChunksInv
  <2>2. ASSUME NEW i \in DOMAIN todo, SplitNode(i) PROVE TreeInv'
    BY <2>2, SplitNodeInv
  <2>3. ASSUME NEW i \in DOMAIN todo, NodeToChunk(i) PROVE TreeInv'
    BY <2>3, NodeToChunkInv
  <2>4. ASSUME NEW i \in DOMAIN todo, ChildToSibling(i) PROVE TreeInv'
    BY <2>4, ChildToSiblingInv
  <2>5. ASSUME NEW i \in DOMAIN todo, InterchunkOrder(i) PROVE TreeInv'
    BY <2>5, InterchunkOrderInv
  <2>6. ASSUME NEW i \in DOMAIN todo, IntrachunkOrder(i) PROVE TreeInv'
    BY <2>6, IntrachunkOrderInv
  <2>7. CASE NextStage("splitNodes", "nodesToChunks", WordSet)
    BY <2>7, NodesToChunksInv
  <2>8. CASE NextStage("nodesToChunks", "childToSibling", Grandchildren)
    BY <2>8, GrandchildrenInv
  <2>9. CASE RecursiveNumberChunks
    BY <2>9, RecursiveNumberChunksInv
  <2>10. CASE LinearOrderChunk
    BY <2>10, LinearOrderChunkInv
  <2>11. CASE OutputGermanMorph
    BY <2>11, OutputGermanMorphInv
  <2>12. CASE UNCHANGED treeVars
    BY <2>12, TreeStutters
  <2>13. QED
    BY <2>1, <2>2, <2>3, <2>4, <2>5, <2>6, <2>7, <2>8, <2>9, <2>10, <2>11, <2>12 DEF TreeNext
<1>3. TreeInv => WordsPrinted
  BY DEF TreeInv
<1>4. QED
  BY <1>1, <1>2, <1>3, PTL DEF TreeSpec
===============================================================================
