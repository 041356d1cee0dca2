-------------------------------- MODULE CrfRows --------------------------------
(***************************************************************************)
(* From the morphological analysis to one tag per word: output_crf prints  *)
(* a row for each word, wapiti appends a label, and nec reads the rows,    *)
(* classifies named entities and prints them again.  All three know the    *)
(* columns by their number only: form, case, MaxTag pairs of lemma and     *)
(* tag, a flag, and a class where there is only one.                       *)
(*                                                                         *)
(* A word is its readings, and whether its form looks like a gerund.  A    *)
(* reading is of a kind: "np" (a name), "gerund", "punct", "number" (whose *)
(* tag is Z) or "other".                                                   *)
(***************************************************************************)
EXTENDS SequenceFilters, FiniteSets

CONSTANTS Analyses, \* sequences of sentences, which are sequences of words
          MaxTag    \* pairs of lemma and tag in a row, 8 in the code

Readings == [kind : {"np", "gerund", "punct", "number", "other"}, id : Nat]

ASSUME RowsAssumption ==
    /\ MaxTag \in Nat \ {0}
    /\ Analyses \subseteq Seq(Seq([ando : BOOLEAN, readings : Seq(Readings) \ {<<>>}]))

VARIABLES
    text,      \* the sentences
    sentences, \* those that are still to be printed
    rows,      \* rows on their way from output_crf to nec; an empty one ends a sentence
    feat, tag, \* strings of nec that keep their value if a row is too short
    av,        \* rows of the sentence that nec is reading
    output     \* sentences that nec has printed, with a last one at the end of the input

rowVars == <<text, sentences, rows, feat, tag, av, output>>

NoReading == [kind |-> "none", id |-> 0]
Unread == <<"empty", NoReading>>

RowsInitWith(ls) ==
    /\ text = ls
    /\ sentences = ls
    /\ rows = <<>>
    /\ feat = Unread /\ tag = Unread
    /\ av = <<>>
    /\ output = <<>>

RowsInit == \E ls \in Analyses : RowsInitWith(ls)

-------------------------------------------------------------------------------
(***************************************************************************)
(* output_crf.                                                             *)
(***************************************************************************)
\* first_nonpunct_word is what remains of a loop over all words: it is true for all
\* words if the last one is the only one that is not punctuation.
FirstNonpunctWord(s) ==
    LET Punct(w) == w.readings[1].kind = "punct"
    IN  ~Punct(Last(s)) /\ \A i \in 1 .. Len(s) - 1 : Punct(s[i])

Gerunds(w) == {r \in Readings : w.ando /\ r.kind = "gerund"}

\* The loop over the readings ends at the first of a gerund.
Considered(w) ==
    LET gerunds == {i \in DOMAIN w.readings : w.readings[i] \in Gerunds(w)}
    IN  IF gerunds = {} THEN w.readings
        ELSE SubSeq(w.readings, 1, CHOOSE i \in gerunds : \A j \in gerunds : i <= j)

\* Names are discarded unless there is nothing else.
Discarded(first)  == {r \in Readings : first /\ r.kind = "np"}
Names(w, first)  == Only(Considered(w), Discarded(first))
Others(w, first) == Only(Considered(w), Readings \ Discarded(first))
Printed(w, first) == IF Others(w, first) = <<>> THEN Names(w, first) ELSE Others(w, first)

\* The class, if there is a single reading, or a single one that is not a name; the
\* tag of a gerund is not remembered for that, and Z is never forced.
Class(w, first) ==
    LET ordinary == Only(Others(w, first), Readings \ Gerunds(w))
    IN  IF w.readings[1].kind = "number" THEN <<>>
        ELSE IF Len(w.readings) = 1 THEN <<<<"tag", w.readings[1]>>>>
        ELSE IF Len(w.readings) - Len(Names(w, first)) = 1 /\ ordinary # <<>> THEN <<<<"tag", Last(ordinary)>>>>
        ELSE <<>>

Pairs(readings) ==
    [i \in 1 .. 2 * Len(readings) |-> <<IF i % 2 = 1 THEN "lemma" ELSE "tag", readings[(i + 1) \div 2]>>]
Dummies(n) == [i \in 1 .. 2 * n |-> <<"ZZZ", NoReading>>]
Flag(w) == <<IF Len(w.readings) > 1 THEN "1" ELSE "0", NoReading>>

Row(w, first) ==
    <<<<"form", NoReading>>, <<"case", NoReading>>>>
    \o Pairs(Printed(w, first)) \o Dummies(MaxTag - Len(Printed(w, first)))
    \o <<Flag(w)>> \o Class(w, first)

Freeling2Crf(s) == [i \in DOMAIN s |-> Row(s[i], FirstNonpunctWord(s))]

\* One sentence: its rows and a blank line, or nothing for a sentence without words.
PrintSentence ==
    /\ sentences # <<>>
    /\ sentences' = Tail(sentences)
    /\ rows' = IF Head(sentences) = <<>> THEN rows ELSE rows \o Freeling2Crf(Head(sentences)) \o <<<<>>>>
    /\ UNCHANGED <<text, feat, tag, av, output>>

-------------------------------------------------------------------------------
(***************************************************************************)
(* wapiti label --force: the class if there is one, else a label of its    *)
(* own.                                                                    *)
(***************************************************************************)
Guess == <<"guess", NoReading>>
Label(row) == Append(row, IF Last(row)[1] = "tag" THEN Last(row) ELSE Guess)

-------------------------------------------------------------------------------
(***************************************************************************)
(* nec.                                                                    *)
(***************************************************************************)
\* What the strings hold after columns have been read up to the n-th.
Column(row, n, old) == IF n <= Len(row) THEN row[n] ELSE IF Len(row) > 3 THEN Last(row) ELSE old

\* Mutant of ReadRow: the flag is not counted.
ReadRowNoFlag ==
    /\ rows # <<>> /\ Head(rows) # <<>>
    /\ LET row      == Label(Head(rows))
           features == [n \in 1 .. 2 * MaxTag - 1 |-> Column(row, n + 3, feat)]
       IN  /\ feat' = features[2 * MaxTag - 1]
           /\ tag' = IF 2 * MaxTag + 3 <= Len(row) THEN row[2 * MaxTag + 3] ELSE tag
           /\ av' = Append(av, SubSeq(row, 1, 3) \o features \o <<tag'>>)
    /\ rows' = Tail(rows)
    /\ UNCHANGED <<text, sentences, output>>

\* form, lc, lemma, twice MaxTag features and the tag.
ReadRow ==
    /\ rows # <<>> /\ Head(rows) # <<>>
    /\ LET row      == Label(Head(rows))
           features == [n \in 1 .. 2 * MaxTag |-> Column(row, n + 3, feat)]
       IN  /\ feat' = features[2 * MaxTag]
           /\ tag' = IF 2 * MaxTag + 4 <= Len(row) THEN row[2 * MaxTag + 4] ELSE tag
           /\ av' = Append(av, SubSeq(row, 1, 3) \o features \o <<tag'>>)
    /\ rows' = Tail(rows)
    /\ UNCHANGED <<text, sentences, output>>

\* The classifier changes the tags of names.
Analyze(s) ==
    [i \in DOMAIN s |->
        LET row == s[i]
        IN  IF Last(row)[2].kind = "np" THEN Append(Front(row), <<"entity", Last(row)[2]>>) ELSE row]

ReadBlank ==
    /\ rows # <<>> /\ Head(rows) = <<>>
    /\ rows' = Tail(rows)
    /\ output' = Append(output, Analyze(av))
    /\ av' = <<>>
    /\ UNCHANGED <<text, sentences, feat, tag>>

\* At the end of the input there is a last sentence, with or without words.
EndOfInput ==
    /\ sentences = <<>> /\ rows = <<>>
    /\ \A i \in DOMAIN output : output[i] # <<>>
    /\ output' = Append(output, Analyze(av))
    /\ av' = <<>>
    /\ UNCHANGED <<text, sentences, rows, feat, tag>>

RowsNext == PrintSentence \/ ReadRow \/ ReadBlank \/ EndOfInput

RowsSpec == RowsInit /\ [][RowsNext]_rowVars

-------------------------------------------------------------------------------
(***************************************************************************)
(* Properties.                                                             *)
(***************************************************************************)
\* A word ends up with a tag of its own.  If it has at most MaxTag readings that are
\* shown, that is the one that is left, or what wapiti says if there are several;
\* with more, it is that of the next one, which was never chosen by anybody.
TagOf(w, first) ==
    LET shown == Printed(w, first)
    IN  IF Len(shown) > MaxTag THEN <<"tag", shown[MaxTag + 1]>>
        ELSE IF Len(w.readings) = 1 /\ w.readings[1].kind # "number" THEN <<"tag", w.readings[1]>>
        ELSE IF first /\ (\E r \in ToSet(w.readings) : r.kind = "np") /\ w.readings[1].kind # "number"
                /\ Cardinality({i \in DOMAIN w.readings : w.readings[i].kind # "np"}) = 1
                /\ ~(w.ando /\ \E r \in ToSet(w.readings) : r.kind = "gerund")
             THEN <<"tag", CHOOSE r \in ToSet(w.readings) : r.kind # "np">>
        ELSE Guess

\* Sentences and words are kept in their order, and each word has its own tag in the
\* last column, whatever the words before it were; names are marked as entities.
WordsTagged ==
    LET full == Without(text, {<<>>})
    IN  /\ \A i \in DOMAIN output :
              i <= Len(full) =>
                /\ Len(output[i]) = Len(full[i])
                /\ \A k \in DOMAIN full[i] :
                      LET t == TagOf(full[i][k], FirstNonpunctWord(full[i]))
                      IN  Last(output[i][k]) = IF t[2].kind = "np" THEN <<"entity", t[2]>> ELSE t
        /\ Len(output) > Len(full) => Len(output) = Len(full) + 1 /\ Last(output) = <<>>
===============================================================================
