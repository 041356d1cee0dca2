---------------------------- MODULE LexicalTransfer ----------------------------
(***************************************************************************)
(* squoia_xfer_lex: reads an XML document of parsed sentences tag by tag,  *)
(* looks every word up in the bilingual dictionary and prints the document *)
(* sentence by sentence, with the translations of each word in its node.   *)
(*                                                                         *)
(* The program is a set of mutually recursive procedures over one reader;  *)
(* calls is their stack.  The document is chosen as it is read: any        *)
(* sequence of tags that an XML parser accepts, also one that stops short. *)
(***************************************************************************)
EXTENDS Integers, Sequences, SequencesExt, FiniteSets, FiniteSetsExt

CONSTANTS Words,       \* what a NODE of the source may say of its word
          Chunks,      \* what a CHUNK of the source may say of itself
          LaterWords,  \* bound: what every NODE but the first may say
          LaterChunks, \* bound: what every CHUNK but the first may say
          Dictionary,  \* the alternatives of each key in the order of the transducer, <<>> if none
          TypeLines,   \* the lines of the chunk type file
          MaxTags      \* bound: tags of a document

(***************************************************************************)
(* A word: form, a sequence of "U" (upper case), "l" and "_"; its tag mi;  *)
(* whether its ord is 1; the keys its lemma spells, two if the tagger left *)
(* it ambiguous; the key that its form spells; whether unknown is set.     *)
(* An alternative: the parts of its lemma and of its tag (more than one if *)
(* it stands for several nodes), and its sense, 0 if it has none.          *)
(***************************************************************************)
Names == {"corpus", "SENTENCE", "CHUNK", "NODE", "other"}
Hole == [lem |-> <<>>, mi |-> <<>>, sense |-> 0]    \* an empty string of a vector
Alternatives == [lem : Seq(STRING), mi : Seq(STRING), sense : Nat] \ {Hole}

ASSUME LexicalAssumption ==
    /\ MaxTags \in Nat
    /\ LaterWords \subseteq Words
    /\ LaterChunks \subseteq Chunks
    /\ \A k \in DOMAIN Dictionary : Dictionary[k] \in Seq(Alternatives)
    /\ \A w \in Words : w.keys \in Seq(DOMAIN Dictionary) /\ Len(w.keys) \in 1 .. 2
    /\ \A w \in Words : w.formKey \in DOMAIN Dictionary

VARIABLES
    src,    \* the tags that have been read
    within, \* history: for each of them, where the element begins that it is in, or 0
    open,   \* where the elements begin that are open in the source
    ended,  \* the reader has given all it has
    calls,  \* the procedures that have been entered, innermost last
    tree,   \* output of the sentence being read
    out,    \* what has been printed
    exit    \* "running", "ok" or "error"

vars == <<src, within, open, ended, calls, tree, out, exit>>

Init ==
    /\ src = <<>>
    /\ within = <<>>
    /\ open = <<>>
    /\ ended = FALSE
    /\ calls = <<>>
    /\ tree = <<>>
    /\ out = <<>>
    /\ exit = "running"

-------------------------------------------------------------------------------
(***************************************************************************)
(* The reader.                                                             *)
(***************************************************************************)
Tag(n, t) == [name |-> n, type |-> t]
NoTag == Tag("none", "none")

Opening ==
    LET types == {"start", "empty"}
        read(n) == \E t \in Range(src) : t.name = n
        words  == IF read("NODE") THEN LaterWords ELSE Words
        chunks == IF read("CHUNK") THEN LaterChunks ELSE Chunks
    IN  [name : Names \ {"CHUNK", "NODE"}, type : types]
            \cup [name : {"CHUNK"}, type : types, chunk : chunks]
            \cup [name : {"NODE"}, type : types, word : words]

Innermost == IF open = <<>> THEN 0 ELSE Last(open)

\* nextTag returns 1: the parser lets elements be opened and closed in order.
NextTag(t) ==
    /\ ~ended
    /\ Len(src) < MaxTags
    /\ \/ /\ src = <<>> \/ open # <<>>
          /\ t \in Opening
       \/ open # <<>> /\ t = Tag(src[Last(open)].name, "end")
    /\ src' = Append(src, t)
    /\ within' = Append(within, Innermost)
    /\ open' = CASE t.type = "start" -> Append(open, Len(src) + 1)
                 [] t.type = "end"   -> Front(open)
                 [] OTHER            -> open
    /\ UNCHANGED ended

\* nextTag returns something else: the document has ended or is cut off.  The
\* reader may still name the tag that it gave last.
NoNextTag(t) ==
    /\ t \in {NoTag} \cup (IF src = <<>> THEN {} ELSE {Last(src)})
    /\ ended' = TRUE
    /\ UNCHANGED <<src, within, open>>

-------------------------------------------------------------------------------
(***************************************************************************)
(* The dictionary.                                                         *)
(***************************************************************************)
\* Mutant of PlaceAlternative: an alternative without sense is appended, so
\* that one with a sense may take its place.
AppendAlternative(state, alt) ==
    LET i    == IF alt.sense = 0 THEN Len(state.list) + 1
                ELSE IF state.zero THEN alt.sense + 1 ELSE alt.sense
        long == [k \in 1 .. Max({i, Len(state.list)}) |->
                     IF k <= Len(state.list) THEN state.list[k] ELSE Hole]
    IN  [zero |-> state.zero \/ alt.sense = 0, list |-> [long EXCEPT ![i] = alt]]

\* One round of order_ordainak: without sense to the front; with one to the
\* place it says, whatever is there, one further back once the front is taken.
PlaceAlternative(state, alt) ==
    LET i    == IF state.zero THEN alt.sense + 1 ELSE alt.sense
        long == [k \in 1 .. Max({i, Len(state.list)}) |->
                     IF k <= Len(state.list) THEN state.list[k] ELSE Hole]
    IN  IF alt.sense = 0
        THEN [zero |-> TRUE, list |-> <<alt>> \o state.list]
        ELSE [zero |-> state.zero, list |-> [long EXCEPT ![i] = alt]]

\* disambiguate, get_translation: every alternative, in the order of order_ordainak.
OrderAlternatives(alts) ==
    LET after[n \in 0 .. Len(alts)] ==
            IF n = 0 THEN [zero |-> FALSE, list |-> <<>>] ELSE PlaceAlternative(after[n - 1], alts[n])
    IN  after[Len(alts)].list

GetTranslation(key) == OrderAlternatives(Dictionary[key])

LookupKeys(w) == IF w.mi \in {"Z", "DN"} THEN <<w.formKey>> ELSE w.keys

\* getsyn and getsyn2lems: one SYN for each translation of each lemma, none if
\* there is only one in all.
Synonyms(w) ==
    LET keys  == LookupKeys(w)
        trad  == GetTranslation(keys[1])
        trad2 == IF Len(keys) = 2 THEN GetTranslation(keys[2]) ELSE <<>>
        both  == trad # <<>> /\ trad2 # <<>>
        syn(ts, k) == [i \in DOMAIN ts |-> [alt |-> ts[i], slem |-> k]]
    IN  (IF Len(trad) > 1 \/ both THEN syn(trad, keys[1]) ELSE <<>>)
            \o (IF Len(trad2) > 1 \/ both THEN syn(trad2, keys[2]) ELSE <<>>)

\* The lemma that the node's own translation belongs to: the first that has one.
\* lexical_selection returns the first of its translations.
TradLem(w) ==
    LET keys == LookupKeys(w)
    IN  IF Len(keys) = 1 \/ GetTranslation(keys[1]) # <<>> THEN keys[1] ELSE keys[2]

Unknown(w) ==
    IF w.unknown THEN "source"
    ELSE IF \A i \in DOMAIN LookupKeys(w) : GetTranslation(LookupKeys(w)[i]) = <<>>
         THEN "transfer" ELSE "no"

Selection(w) == IF Unknown(w) = "no" THEN Head(GetTranslation(TradLem(w))) ELSE Hole

\* split_multiattrib: the attributes of each of the nodes of one alternative.
SplitMultiattrib(alt) ==
    [j \in 1 .. Max({Len(alt.lem), Len(alt.mi)}) |->
        {<<"lem", alt.lem[k]>> : k \in {j} \cap DOMAIN alt.lem}
            \cup {<<"mi", alt.mi[k]>> : k \in {j} \cap DOMAIN alt.mi}]

\* multiNodes: all nodes of the alternative but the first, which is the NODE itself.
MultiNodes(alt) ==
    LET split == SplitMultiattrib(alt) IN SubSeq(split, 2, Len(split))

\* upper_type: a word of the form begins at its start and after a "_" that does
\* not begin a word itself.
UpperType(w) ==
    LET size     == Len(w.form)
        begins[i \in 1 .. size] == i = 1 \/ (w.form[i - 1] = "_" /\ ~begins[i - 1])
        capital(i) == w.form[i] = "U"
        letters  == {i \in 1 .. size : w.form[i] # "_" \/ begins[i]}
        initials == {i \in 1 .. size : begins[i] /\ capital(i)}
        counts   == ~w.first \/ w.mi = "NP"
        shouted  == 2 * Cardinality({i \in letters : capital(i)}) > Cardinality(letters)
    IN  CASE shouted                                    -> "all"
          [] ~shouted /\ counts /\ initials = {1}       -> "first"
          [] ~shouted /\ counts /\ initials \ {1} # {}  -> "title"
          [] OTHER                                      -> "none"

\* procNODE up to the end of the start tag: what is printed of a word.
Node(w) ==
    [name |-> "NODE", type |-> "start", word |-> w, upCase |-> UpperType(w),
     unknown |-> Unknown(w), trans |-> Selection(w),
     tradlem |-> IF Unknown(w) = "no" /\ Len(LookupKeys(w)) = 2 THEN TradLem(w) ELSE "",
     syn |-> IF Unknown(w) = "no" THEN Synonyms(w) ELSE <<>>,
     sub |-> IF Unknown(w) = "no" THEN MultiNodes(Selection(w)) ELSE <<>>]

-------------------------------------------------------------------------------
(***************************************************************************)
(* The chunk types.                                                        *)
(***************************************************************************)
\* init_lexInfo: key and value of the lines that have a tab before any "#"; of
\* two lines with one key the later counts.
LexInfo ==
    [k \in {l.key : l \in {x \in Range(TypeLines) : x.value # ""}} |->
        TypeLines[Max({i \in DOMAIN TypeLines : TypeLines[i].key = k /\ TypeLines[i].value # ""})].value]

\* get_lexInfo: the empty string for a key without line.
GetLexInfo(k) == IF k \in DOMAIN LexInfo THEN LexInfo[k] ELSE ""

\* procCHUNK: the type, or else the syntactic function (pos is always empty), as
\* the file renames it.
ChunkType(c) ==
    LET source == IF c.type = "" THEN c.si ELSE c.type
    IN  IF GetLexInfo(source) = "" THEN source ELSE GetLexInfo(source)

-------------------------------------------------------------------------------
(***************************************************************************)
(* The procedures.  A procedure that has been entered is in calls under    *)
(* the name of its element, procCHUNK as "head" until it has had its node. *)
(***************************************************************************)
Caller == IF calls = <<>> THEN "main" ELSE Last(calls)
Enter(p) == calls' = Append(calls, p)
Emit(t) == tree' = Append(tree, t)
Starts(t, n) == t.name = n /\ t.type \in {"start", "empty"}
Ends(t, n) == t.name = n /\ t.type = "end"

\* main: the corpus is opened in the output at once.
StartCorpus(t) ==
    /\ Caller = "main"
    /\ Starts(t, "corpus")
    /\ Enter("corpus")
    /\ out' = <<Tag("corpus", "start")>>
    /\ UNCHANGED <<tree, exit>>

\* procSENTENCE: also for an empty element, whose end is expected all the same.
StartSentence(t) ==
    /\ Caller = "corpus"
    /\ Starts(t, "SENTENCE")
    /\ Enter("SENTENCE")
    /\ tree' = <<Tag("SENTENCE", "start")>>
    /\ UNCHANGED <<out, exit>>

\* procCHUNK up to its first node.
StartChunk(t) ==
    /\ Caller \in {"SENTENCE", "CHUNK"}
    /\ Starts(t, "CHUNK")
    /\ Enter("head")
    /\ Emit([name |-> "CHUNK", type |-> "start", chunkType |-> ChunkType(t.chunk)])
    /\ UNCHANGED <<out, exit>>

\* Mutant of ReadNode: an empty element is entered like any other.
ReadNodeAlwaysOpen(t) ==
    /\ Caller \in {"head", "NODE"}
    /\ Starts(t, "NODE")
    /\ LET returned == IF Caller = "head" THEN Append(Front(calls), "CHUNK") ELSE calls
       IN  /\ calls' = Append(returned, "NODE")
           /\ tree' = Append(tree, Node(t.word))
    /\ UNCHANGED <<out, exit>>

\* procNODE: an empty element is closed at once, the nodes inside of another one
\* are read by further calls.
ReadNode(t) ==
    /\ Caller \in {"head", "NODE"}
    /\ Starts(t, "NODE")
    /\ LET returned == IF Caller = "head" THEN Append(Front(calls), "CHUNK") ELSE calls
       IN  IF t.type = "empty"
           THEN calls' = returned /\ tree' = tree \o <<Node(t.word), Tag("NODE", "end")>>
           ELSE calls' = Append(returned, "NODE") /\ Emit(Node(t.word))
    /\ UNCHANGED <<out, exit>>

\* The end of procNODE.  The tag alone is looked at, not whether one was read.
EndNode(t) ==
    /\ Caller = "NODE"
    /\ Ends(t, "NODE")
    /\ calls' = Front(calls)
    /\ Emit(t)
    /\ UNCHANGED <<out, exit>>

\* Mutant of EndChunk: the chunk is printed as soon as it is complete.
EndChunkPrinted(t) ==
    /\ Caller = "CHUNK"
    /\ Ends(t, "CHUNK")
    /\ calls' = Front(calls)
    /\ out' = out \o Append(tree, t)
    /\ tree' = <<>>
    /\ UNCHANGED exit

\* The end of procCHUNK, in the same way.
EndChunk(t) ==
    /\ Caller = "CHUNK"
    /\ Ends(t, "CHUNK")
    /\ calls' = Front(calls)
    /\ Emit(t)
    /\ UNCHANGED <<out, exit>>

\* The end of procSENTENCE; main prints the sentence and flushes.
EndSentence(t) ==
    /\ Caller = "SENTENCE"
    /\ Ends(t, "SENTENCE")
    /\ calls' = Front(calls)
    /\ out' = out \o Append(tree, t)
    /\ tree' = <<>>
    /\ UNCHANGED exit

\* The end of main.
EndCorpus(t) ==
    /\ Caller = "corpus"
    /\ Ends(t, "corpus")
    /\ calls' = <<>>
    /\ out' = Append(out, t)
    /\ exit' = "ok"
    /\ UNCHANGED tree

Expected(t) ==
    CASE Caller = "main"     -> Starts(t, "corpus")
      [] Caller = "corpus"   -> Starts(t, "SENTENCE") \/ Ends(t, "corpus")
      [] Caller = "SENTENCE" -> Starts(t, "CHUNK") \/ Ends(t, "SENTENCE")
      [] Caller = "head"     -> Starts(t, "NODE")
      [] Caller = "CHUNK"    -> Starts(t, "CHUNK") \/ Ends(t, "CHUNK")
      [] Caller = "NODE"     -> Starts(t, "NODE") \/ Ends(t, "NODE")

\* The same tag without a new one having been read ends nodes and chunks only.
ExpectedAtEnd(t) == (Caller = "NODE" /\ Ends(t, "NODE")) \/ (Caller = "CHUNK" /\ Ends(t, "CHUNK"))

\* exit(-1), with what has been printed so far.
Reject ==
    /\ exit' = "error"
    /\ UNCHANGED <<calls, tree, out>>

HandleTag(t) ==
    \/ StartCorpus(t)
    \/ StartSentence(t)
    \/ StartChunk(t)
    \/ ReadNode(t)
    \/ EndNode(t)
    \/ EndChunk(t)
    \/ EndSentence(t)
    \/ EndCorpus(t)
    \/ ~Expected(t) /\ Reject

ReadTag ==
    /\ exit = "running"
    /\ \E t \in Opening \cup {Tag(n, "end") : n \in Names} :
        NextTag(t) /\ HandleTag(t)

ReadEnd ==
    /\ exit = "running"
    /\ \E t \in {NoTag} \cup Range(src) :
        /\ NoNextTag(t)
        /\ \/ EndNode(t)
           \/ EndChunk(t)
           \/ ~ExpectedAtEnd(t) /\ Reject

Next == ReadTag \/ ReadEnd

Spec == Init /\ [][Next]_vars

-------------------------------------------------------------------------------
(***************************************************************************)
(* Properties.                                                             *)
(***************************************************************************)
IsStart(t) == t.type \in {"start", "empty"}

(***************************************************************************)
(* The documents that the program is for, told from the source alone.      *)
(***************************************************************************)
Allowed(i) ==
    LET t == src[i]
        p == IF within[i] = 0 THEN "none" ELSE src[within[i]].name
    IN  CASE t.name = "corpus"   -> t.type = "start" /\ i = 1
          [] t.name = "SENTENCE" -> t.type = "start" /\ p = "corpus"
          [] t.name = "CHUNK"    -> /\ t.type = "start"
                                    /\ p = "SENTENCE" \/ (p = "CHUNK" /\ within[i] < i - 1)
                                    /\ i < Len(src) => Starts(src[i + 1], "NODE")
          [] t.name = "NODE"     -> p = "NODE" \/ (p = "CHUNK" /\ within[i] = i - 1)
          [] OTHER               -> FALSE

ValidSoFar ==
    /\ src # <<>>
    /\ src[1].name = "corpus"
    /\ \A i \in DOMAIN src : IsStart(src[i]) => Allowed(i)

\* The recursive procedures accept exactly the documents of nested sentences,
\* chunks with one node first, and nodes: also when an empty element makes a
\* procedure take the tags of its parent, or a document stops short while the
\* reader still shows its last tag.
ValidatesInput ==
    /\ exit = "ok" => ValidSoFar /\ open = <<>>
    /\ exit = "error" => ~ValidSoFar \/ (ended /\ open # <<>>)

\* What is printed has the elements of the source in the same nesting, each once,
\* and stops after a whole sentence: the next program never gets a part of one.
Skeleton(tags) == [i \in DOMAIN tags |-> Tag(tags[i].name, tags[i].type)]
Unfolded(tags) ==
    FlattenSeq([i \in DOMAIN tags |->
        IF tags[i].type = "empty" THEN <<Tag(tags[i].name, "start"), Tag(tags[i].name, "end")>>
        ELSE <<Tag(tags[i].name, tags[i].type)>>])

MirrorsSource ==
    /\ exit = "ok" => Skeleton(out) = Unfolded(src)
    /\ IsPrefix(Skeleton(out), Unfolded(src))
    /\ exit # "ok" /\ out # <<>> => Last(out) \in {Tag("corpus", "start"), Tag("SENTENCE", "end")}

\* No translation is lost and none is made up: a node with one translation has it
\* itself, one with several has each of them in a SYN with the lemma it belongs
\* to.  A lemma is offered with a hole, an empty SYN, exactly if its senses leave
\* out a number.  The node itself is one of the offered, and a hole, without any
\* translation, only if the senses of its lemma begin after 1.  It holds of entries
\* whose numbered senses are distinct and that have at most one alternative without
\* a sense if any is numbered; in others order_ordainak writes one over another.
Regular(alts) ==
    \A i, j \in DOMAIN alts :
        i # j /\ alts[i].sense = alts[j].sense => \A k \in DOMAIN alts : alts[k].sense = 0

Gapped(alts) ==
    \E i \in DOMAIN alts : \E s \in 1 .. alts[i].sense : \A j \in DOMAIN alts : alts[j].sense # s

Offered(node) ==
    IF node.syn = <<>> THEN {<<TradLem(node.word), node.trans>>}
    ELSE {<<s.slem, s.alt>> : s \in Range(node.syn)}

TranslationsKept ==
    \A node \in {t \in Range(tree) : t.name = "NODE" /\ t.type = "start"} :
        LET keys == Range(LookupKeys(node.word))
            all  == UNION {{<<k, a>> : a \in Range(Dictionary[k])} : k \in keys}
        IN  node.unknown = "no" /\ (\A k \in keys : Regular(Dictionary[k])) =>
                /\ {o \in Offered(node) : o[2] # Hole} = all
                /\ \A k \in keys : <<k, Hole>> \in Offered(node) <=> Gapped(Dictionary[k])
                /\ \E k \in keys :
                    /\ <<k, node.trans>> \in Offered(node)
                    /\ node.trans = Hole => \A a \in Range(Dictionary[k]) : a.sense > 1
================================================================================
