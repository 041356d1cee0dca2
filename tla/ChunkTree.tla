------------------------------- MODULE ChunkTree -------------------------------
(***************************************************************************)
(* One sentence on its way through the transformations of its tree, from   *)
(* conll2xml to the German output: chunks, which may hold chunks, and      *)
(* words, which hold words.  Words are split in two or more, some become   *)
(* chunks of their own, chunks move up, and chunks and words are numbered, *)
(* ordered by rules and printed.  Which words, chunks and rules these are  *)
(* is decided by linguistic conditions, and is a free choice here.         *)
(***************************************************************************)
EXTENDS OrderRules

CONSTANTS Documents,   \* trees: for each element the sequence of its children
          ChunkRules,  \* rules for chunks
          WordRules,   \* rules for words
          Variables,   \* the variables of the conditions of any rule
          MaxChunks,   \* bound: chunks of the sentence
          MaxChanges   \* bound: words and chunks that any condition covers

(***************************************************************************)
(* Elements.  A chunk is known by its ref.  A word is known by the ref of  *)
(* the word that it was split from and its number among those, 0 for the   *)
(* word itself.                                                            *)
(***************************************************************************)
Sentence == <<"SENTENCE">>
Chunk(r) == <<"CHUNK", r>>
Word(r, i) == <<"NODE", r, i>>
IsChunk(e) == e[1] = "CHUNK"
IsWord(e) == e[1] = "NODE"

\* What conll2xml has before it joins the top chunks: a tree, without clones, in which
\* chunks are in chunks and words are in chunks or words.
IsDocument(t) ==
    /\ Sentence \in DOMAIN t /\ IsFiniteSet(DOMAIN t)
    /\ \A e \in DOMAIN t \ {Sentence} : e[2] \in Nat /\ e \in {Chunk(e[2]), Word(e[2], 0)}
    /\ t[Sentence] # <<>> /\ \A e \in ToSet(t[Sentence]) : IsChunk(e)
    /\ \A e \in DOMAIN t :
         /\ t[e] \in Seq(DOMAIN t \ {Sentence})
         /\ IsWord(e) => \A k \in ToSet(t[e]) : IsWord(k)
         /\ e # Sentence => \E p \in DOMAIN t : Contains(t[p], e)
    /\ \A p, q \in DOMAIN t : \A i \in DOMAIN t[p], j \in DOMAIN t[q] : t[p][i] = t[q][j] => p = q /\ i = j
    /\ \A S \in SUBSET DOMAIN t \ {{}} : \E e \in S : ToSet(t[e]) \cap S = {}

\* The order of a rule: each variable once, the head among them, each but the first one
\* with its operator.  It may begin with a label, which no condition of a rule binds, as
\* in esde/grammar/de_interChunkOrder.rules:49, 52 and 95; the second then has none.
IsLabel(token) == token.var \notin Variables \cup {"head", Dummy}

IsOrder(rule) ==
    /\ rule \in Seq([op : STRING, var : STRING])
    /\ \E i \in DOMAIN rule : rule[i].var = "head"
    /\ \A i, j \in DOMAIN rule : rule[i].var = rule[j].var => i = j
    /\ \A i \in DOMAIN rule \ {1} : rule[i].op # "" \/ (i = 2 /\ IsLabel(rule[1]))

ASSUME TreeAssumption ==
    /\ \A t \in Documents : IsDocument(t)
    /\ \A rule \in ChunkRules \cup WordRules : IsOrder(rule)
    /\ "head" \notin Variables
    /\ MaxChunks \in Nat /\ MaxChanges \in Nat

VARIABLES
    stage,    \* the transformation under way
    todo,     \* elements that it has not visited, in document order
    kids,     \* the children of each element
    p_ord,    \* the place of a chunk among its child chunks
    c_ord,    \* the place of a chunk among its parent and siblings
    ord,      \* the place of a chunk in the sentence, of a word in its chunk; only of some
    printed,  \* chunks as they are printed, each with its words
    changes,  \* history: how often a condition was met
    ruled,    \* history: for each chunk that rules were applied to, the last one and who was what
    orderedBy \* history: for each word the words whose rules have placed it

attributes == <<p_ord, c_ord, ord>>
history == <<changes, ruled, orderedBy>>
treeVars == <<stage, todo, kids, attributes, printed, history>>

Elements == DOMAIN kids
ChunkSet == {e \in Elements : IsChunk(e)}
WordSet == {e \in Elements : IsWord(e)}

-------------------------------------------------------------------------------
(***************************************************************************)
(* The tree.                                                               *)
(***************************************************************************)
\* A walk down from an element: of each element a sequence says in what order it and
\* the elements below it come.
Walk(family, e) ==
    LET row[d \in DOMAIN family] ==
            LET own == family[d]
                upTo[n \in 0 .. Len(own)] ==
                    IF n = 0 THEN <<>>
                    ELSE upTo[n - 1] \o (IF own[n] = d THEN <<d>> ELSE row[own[n]])
            IN  upTo[Len(own)]
    IN  row[e]

Whole(t) == [d \in DOMAIN t |-> <<d>> \o t[d]]
DocumentOrder(t) == Walk(Whole(t), Sentence)
Under(e) == ToSet(Walk(Whole(kids), e))
Listed(S) == Only(DocumentOrder(kids), S)

Parent(e) == CHOOSE p \in Elements : Contains(kids[p], e)
ChildChunks(c) == Only(kids[c], ChunkSet)

\* The words below a chunk that are not below a chunk in it.
WordsOf(c) == Only(Walk([d \in Elements |-> <<d>> \o Only(kids[d], WordSet)], c), WordSet)
ChunkOf(w) == CHOOSE c \in ChunkSet : Contains(WordsOf(c), w)
HeadWord(c) == Only(kids[c], WordSet)[1]

MaxRef(S) == Max({e[2] : e \in S})

\* The clones of all words have their numbers from the same greatest ref.
Ref(e) == IF IsWord(e) /\ e[3] > 0 THEN MaxRef(WordSet) + e[3] ELSE e[2]

Unbind(t, e) == [p \in DOMAIN t |-> Without(t[p], {e})]
AppendChild(t, p, e) == [t EXCEPT ![p] = Append(@, e)]

\* Elements by their numbers, of two with the same one the later one.
InOrder(s, number) ==
    LET numbers == Ascending({number[e] : e \in ToSet(s)})
    IN [i \in DOMAIN numbers |->
          LET n == numbers[i] IN Last(Only(s, {e \in ToSet(s) : number[e] = n}))]

-------------------------------------------------------------------------------
TreeInit ==
    /\ stage = "conll2xml"
    /\ todo = <<>>
    /\ kids \in Documents
    /\ p_ord = [c \in {} |-> 0]
    /\ c_ord = [c \in {} |-> 0]
    /\ ord = [e \in {} |-> 0]
    /\ printed = <<>>
    /\ changes = 0
    /\ ruled = [c \in {} |-> <<>>]
    /\ orderedBy = [w \in WordSet |-> {}]

\* A bug that AttachTopChunks does not have: a sentence with two top chunks keeps them.
AttachNothing ==
    /\ stage = "conll2xml"
    /\ stage' = "splitNodes"
    /\ todo' = Listed(WordSet)
    /\ UNCHANGED <<kids, attributes, printed, history>>

\* Further chunks at the top of the sentence become children of the first one.
AttachTopChunks ==
    LET tops == ChildChunks(Sentence)
    IN /\ stage = "conll2xml"
       /\ stage' = "splitNodes"
       /\ kids' = [kids EXCEPT ![Sentence] = <<tops[1]>>, ![tops[1]] = @ \o Tail(tops)]
       /\ todo' = Only(DocumentOrder(kids'), WordSet)
       /\ UNCHANGED <<attributes, printed, history>>

\* A transformation gets to an element that one of its conditions covers, past others
\* that none does, and goes on with the element that is next in the list.
Visit(s, next) ==
    /\ stage = s /\ UNCHANGED stage
    /\ todo' = SubSeq(todo, next, Len(todo))
    /\ changes < MaxChanges
    /\ changes' = changes + 1

\* A word that is translated by several is followed by its clones, the last one first.
SplitNode(i) ==
    /\ Visit("splitNodes", i + 1)
    /\ LET w == todo[i]
           p == Parent(w)
       IN \E clones \in {<<Word(w[2], 1)>>, <<Word(w[2], 2), Word(w[2], 1)>>} :
            /\ kids' = [e \in Elements \cup ToSet(clones) |->
                          CASE e \in ToSet(clones) -> <<>>
                            [] e = p -> LET at == Pos(kids[p], w)
                                        IN SubSeq(kids[p], 1, at) \o clones \o SubSeq(kids[p], at + 1, Len(kids[p]))
                            [] OTHER -> kids[e]]
            /\ orderedBy' = [e \in DOMAIN orderedBy \cup ToSet(clones) |-> {}]
    /\ UNCHANGED <<attributes, printed, ruled>>

\* A word becomes a chunk for each condition that it meets: every such chunk but the last
\* one is left empty.  The head of a chunk stays.
NodeToChunk(i) ==
    /\ Visit("nodesToChunks", i + 1)
    /\ LET w == todo[i]
           c == ChunkOf(w)
           max == MaxRef(ChunkSet)
       IN /\ w # HeadWord(c)
          /\ \E conditions \in 1 .. 2 :
               LET new == [n \in 1 .. conditions |-> Chunk(max + n)]
               IN /\ Cardinality(ChunkSet) + conditions <= MaxChunks
                  /\ kids' = [e \in Elements \cup ToSet(new) |->
                                CASE e \in ToSet(new) -> IF e = Last(new) THEN <<w>> ELSE <<>>
                                  [] e = c -> Without(kids[c], {w}) \o new
                                  [] OTHER -> Without(kids[e], {w})]
    /\ UNCHANGED <<attributes, printed, ruled, orderedBy>>

\* A chunk is moved out of its parent, to the end of its grandparent.
ChildToSibling(i) ==
    /\ Visit("childToSibling", i + 1)
    /\ LET c == todo[i]
       IN kids' = AppendChild(Unbind(kids, c), Parent(Parent(c)), c)
    /\ UNCHANGED <<attributes, printed, ruled, orderedBy>>

\* Parent and child chunks get numbers by their refs.
RecursiveNumberChunks ==
    LET Family(c) == {c} \cup ToSet(ChildChunks(c))
        Rank(c, e) == Cardinality({d \in Family(c) : Ref(d) < Ref(e)})
    IN /\ stage = "childToSibling"
       /\ stage' = "interchunkOrder"
       /\ todo' = Listed(ChunkSet)
       /\ p_ord' = [c \in ChunkSet |-> Rank(c, c)]
       /\ c_ord' = [c \in ChunkSet \ ToSet(kids[Sentence]) |-> Rank(Parent(c), c)]
       /\ UNCHANGED <<kids, ord, printed, history>>

\* The values that are set in f to the place, from 0, of each element of any of some rows.
Numbered(f, rows) ==
    LET Row(e) == CHOOSE s \in rows : Contains(s, e)
    IN  [e \in DOMAIN f \cup UNION {ToSet(s) : s \in rows} |->
            IF \E s \in rows : Contains(s, e) THEN Pos(Row(e), e) - 1 ELSE f[e]]

\* A rule that fits a chunk orders it and its child chunks.  All rules are tried on it, in
\* the order of a hash, each from the places that the one before has left (two of them
\* may have one and the same order).
InterchunkOrder(i) ==
    /\ Visit("interchunkOrder", i)
    /\ LET c == todo[i]
           children == ChildChunks(c)
       IN /\ kids[c] # <<>>
          /\ \E rule \in ChunkRules, var \in [ToSet(children) -> Variables \cup {Dummy}] :
               \E s \in Arrangements(c, children, var,
                                     [e \in {c} \cup ToSet(children) |-> IF e = c THEN p_ord[c] ELSE c_ord[e]],
                                     rule) :
                 /\ p_ord' = [p_ord EXCEPT ![c] = IF Contains(s, c) THEN Pos(s, c) - 1 ELSE @]
                 /\ c_ord' = [e \in DOMAIN c_ord |->
                                IF e # c /\ Contains(s, e) THEN Pos(s, e) - 1 ELSE c_ord[e]]
                 /\ ord' = Numbered(ord, {s})
                 /\ ruled' = [e \in DOMAIN ruled \cup {c} |->
                                IF e = c THEN [rule |-> rule, var |-> var] ELSE ruled[e]]
    /\ UNCHANGED <<kids, printed, orderedBy>>

\* The chunks in a row: each child chunk in its place with all of its own.  Of two in one
\* place the later one remains.
LinearOrderChunk ==
    LET Family(c) == <<c>> \o ChildChunks(c)
        Place(c) == [e \in ToSet(Family(c)) |-> IF e = c THEN p_ord[c] ELSE c_ord[e]]
        families == [c \in ChunkSet |-> InOrder(Family(c), Place(c))]
    IN /\ stage = "interchunkOrder"
       /\ stage' = "intrachunkOrder"
       /\ todo' = Listed(WordSet)
       /\ ord' = Numbered(ord, {Walk(families, c) : c \in ToSet(ChildChunks(Sentence))})
       /\ UNCHANGED <<kids, p_ord, c_ord, printed, history>>

\* A rule that fits a word orders it and all words below it, which are in their places by
\* their refs.  All rules are tried on it, in the order of a hash; the last one counts.
IntrachunkOrder(i) ==
    /\ Visit("intrachunkOrder", i)
    /\ LET w == todo[i]
           below == Listed(Under(w) \ {w})
       IN /\ kids[w] # <<>>
          /\ \E rule \in WordRules, var \in [ToSet(below) -> Variables \cup {Dummy}] :
               \E s \in Arrangements(w, below, var, [e \in Under(w) |-> Ref(e)], rule) :
                 /\ ord' = Numbered(ord, {s})
                 /\ orderedBy' = [e \in WordSet |-> orderedBy[e] \cup (IF e \in Under(w) THEN {w} ELSE {})]
    /\ UNCHANGED <<kids, p_ord, c_ord, printed, ruled>>

NextStage(s, t, S) ==
    /\ stage = s
    /\ stage' = t
    /\ todo' = Listed(S)
    /\ UNCHANGED <<kids, attributes, printed, history>>

\* //CHUNK/CHUNK/CHUNK
Grandchildren == {e \in ChunkSet : IsChunk(Parent(e)) /\ IsChunk(Parent(Parent(e)))}

\* Chunks by their numbers and, in each, words by their numbers or refs.
OutputGermanMorph ==
    LET Key == [w \in WordSet |-> IF w \in DOMAIN ord THEN ord[w] ELSE Ref(w)]
        chunks == InOrder(Listed(ChunkSet), ord)
    IN /\ stage = "intrachunkOrder"
       /\ stage' = "done"
       /\ printed' = [i \in DOMAIN chunks |-> <<chunks[i], InOrder(WordsOf(chunks[i]), Key)>>]
       /\ UNCHANGED <<todo, kids, attributes, history>>

TreeNext ==
    \/ AttachTopChunks
    \/ \E i \in DOMAIN todo :
         SplitNode(i) \/ NodeToChunk(i) \/ ChildToSibling(i) \/ InterchunkOrder(i) \/ IntrachunkOrder(i)
    \/ NextStage("splitNodes", "nodesToChunks", WordSet)
    \/ NextStage("nodesToChunks", "childToSibling", Grandchildren)
    \/ RecursiveNumberChunks
    \/ LinearOrderChunk
    \/ OutputGermanMorph

TreeSpec == TreeInit /\ [][TreeNext]_treeVars

-------------------------------------------------------------------------------
\* Words whose places are known in one and the same way: all by their refs, or all by one
\* rule; no two of them are clones with one ref.
PlacedAlike(c) ==
    \A v, w \in ToSet(WordsOf(c)) :
        /\ v # w => Ref(v) # Ref(w)
        /\ orderedBy[v] = orderedBy[w]
        /\ Cardinality(orderedBy[v]) <= 1

(***************************************************************************)
(* The hashes of linearOrderChunk and of the output, which are keyed by    *)
(* numbers, lose nothing: every chunk is printed once, and so is every     *)
(* word in the chunk that it belongs to.                                   *)
(***************************************************************************)
WordsPrinted ==
    stage = "done" =>
        /\ Len(printed) = Cardinality(ChunkSet)
        /\ {printed[i][1] : i \in DOMAIN printed} = ChunkSet
        /\ \A i \in DOMAIN printed :
             LET c == printed[i][1]
                 words == printed[i][2]
             IN PlacedAlike(c) => Len(words) = Len(WordsOf(c)) /\ ToSet(words) = ToSet(WordsOf(c))

(***************************************************************************)
(* The printed sentence has the order that the rules ask for ("+":         *)
(* immediate; ".": at some distance): a chunk and all that it holds is in  *)
(* one piece; what a rule names comes in the order of the rule, and next   *)
(* to the one before it after a "+"; the children that share a variable    *)
(* stay together, in the order they had; and where there is no rule, the   *)
(* order is that of the source, by refs.  Of several rules that fit one    *)
(* chunk it is the last one that is obeyed, which is any of them: it       *)
(* orders all that it names wherever the others have put it, but it does   *)
(* not keep what they asked for.                                           *)
(***************************************************************************)
PrintedAt(e) == CHOOSE i \in DOMAIN printed : printed[i][1] = e
Places(S) == {PrintedAt(e) : e \in S}
InOnePiece(S) == Max(Places(S)) - Min(Places(S)) = Cardinality(S) - 1
Before(S, T) == Max(Places(S)) < Min(Places(T))
Holds(c) == {e \in Under(c) : IsChunk(e)}
Order(c) ==
    LET children == ChildChunks(c)
        rule == ruled[c].rule
        Named(v) == IF v = "head" THEN {c}
                    ELSE UNION {Holds(e) : e \in {d \in ToSet(children) : ruled[c].var[d] = v}}
        present == SelectSeq(rule, LAMBDA token : Named(token.var) # {})
    IN /\ \A i \in 1 .. Len(present) - 1 :
            LET S == Named(present[i].var)
                T == Named(present[i + 1].var)
            IN Before(S, T) /\ (present[i + 1].op = "+" => Max(Places(S)) + 1 = Min(Places(T)))
       /\ \A v \in Variables : Named(v) # {} => InOnePiece(Named(v))
       /\ \A i, j \in DOMAIN children :
            i < j /\ ruled[c].var[children[i]] = ruled[c].var[children[j]] /\ ruled[c].var[children[i]] # Dummy
                => PrintedAt(children[i]) < PrintedAt(children[j])
OrderAsRuled ==
    stage = "done" =>
        \A c \in ChunkSet :
            /\ InOnePiece(Holds(c))
            /\ c \in DOMAIN ruled => Order(c)
            /\ c \notin DOMAIN ruled =>
                 \A d, e \in {c} \cup ToSet(ChildChunks(c)) :
                     Ref(d) < Ref(e) => Before(IF d = c THEN {c} ELSE Holds(d), IF e = c THEN {c} ELSE Holds(e))
===============================================================================
