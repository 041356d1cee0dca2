---------------------------- MODULE SentenceLattice ----------------------------
(***************************************************************************)
(* outputSentences: reads the words of a sentence with their alternatives, *)
(* one per line, spells out every sentence they make, ranks them with a    *)
(* language model and prints the best ones with their punctuation.         *)
(***************************************************************************)
EXTENDS SequenceFilters, FiniteSets, FiniteSetsExt

CONSTANTS Words,      \* the lines that hold a word, an alternative or a mark
          Generated,  \* texts for which the transducer generates a word form
          Cutoffs,    \* values of -n
          MaxLines    \* bound: lines of a sentence

(***************************************************************************)
(* A line: its text, whether a slash precedes it, and the tag of a         *)
(* punctuation mark ("" for words).  The tags of the marks, by what the    *)
(* regular expressions of the program make of them: those that may open a  *)
(* sentence, those that end in "A" or in "T", and those that are taken for *)
(* closing marks, among which are the opening parenthesis and bracket.     *)
(***************************************************************************)
Opens   == {"FAA", "FEA", "FIA", "FCA", "FG", "FLA", "FPA", "FRA"}
EndsInA == Opens \ {"FG"}
EndsInT == {"FAT", "FET", "FIT", "FCT", "FLT", "FPT", "FT"}
Closes  == {"FH", "FP", "FPA", "FPT", "FC", "FCA", "FCT", "FD", "FX", "FT", "FS"}

NoWord == [text |-> "", slash |-> FALSE, pmi |-> ""]
Comma(w) == w.text = "," /\ ~w.slash

ASSUME LatticeAssumption ==
    /\ MaxLines \in Nat
    /\ Cutoffs \subseteq Nat
    /\ Words \subseteq [text : STRING, slash : BOOLEAN, pmi : STRING]

VARIABLES
    pc,             \* "options", "reading", "refused" or "done"
    mode,           \* the printer: "words", "morphs" (-l) or "test" (-t)
    CUTOFF,         \* -n
    newSentence,    \* the next line starts a sentence
    sentLattice,    \* the words read, each with its alternatives
    nbrOfAltSents,  \* product of the alternatives of all words but the last
    sentOpts,       \* rows filled by insertTransOpts
    lines,          \* the lines of the sentence
    block           \* matrix and output of the sentence that has just ended

latticeVars == <<pc, mode, CUTOFF, newSentence, sentLattice, nbrOfAltSents, sentOpts, lines, block>>

NoBlock == [matrix |-> <<>>, order |-> <<>>, printed |-> <<>>]

LatticeInit ==
    /\ pc = "options"
    /\ mode \in {"words", "morphs", "test"}
    /\ CUTOFF \in Cutoffs
    /\ newSentence = TRUE
    /\ sentLattice = <<>>
    /\ nbrOfAltSents = 1
    /\ sentOpts = 0
    /\ lines = <<>>
    /\ block = NoBlock

\* The options; without a language model, or with one it cannot read, it stops.
LanguageModel(model) ==
    /\ pc = "options"
    /\ pc' = IF model = "binary" THEN "reading" ELSE "refused"
    /\ UNCHANGED <<mode, CUTOFF, newSentence, sentLattice, nbrOfAltSents, sentOpts, lines, block>>

-------------------------------------------------------------------------------
(***************************************************************************)
(* Reading.  Empty lines are skipped.                                      *)
(***************************************************************************)
Read(w) ==
    /\ pc = "reading"
    /\ newSentence \/ Len(lines) < MaxLines
    /\ newSentence' = FALSE
    /\ lines' = IF newSentence THEN <<w>> ELSE Append(lines, w)
    /\ block' = NoBlock
    /\ UNCHANGED <<pc, mode, CUTOFF, sentOpts>>

\* Of a word that is not the first of its sentence.
IsAlternative(w) == w.slash

\* The first line of a sentence, with or without a slash.
FirstWord(w) ==
    /\ newSentence
    /\ Read(w)
    /\ sentLattice' = <<<<w>>>>
    /\ UNCHANGED nbrOfAltSents

\* A line that starts with a slash and has more than that: also the mark "/".
Alternative(w) ==
    /\ ~newSentence
    /\ IsAlternative(w)
    /\ Read(w)
    /\ sentLattice' = [sentLattice EXCEPT ![Len(sentLattice)] = Append(@, w)]
    /\ UNCHANGED nbrOfAltSents

\* Any other line is the next word; the word before it is complete.
NextWord(w) ==
    /\ ~newSentence
    /\ ~IsAlternative(w)
    /\ Read(w)
    /\ nbrOfAltSents' = nbrOfAltSents * Len(Last(sentLattice))
    /\ sentLattice' = Append(sentLattice, <<w>>)

-------------------------------------------------------------------------------
(***************************************************************************)
(* The matrix: a function of pairs of row and column, filled in any order. *)
(***************************************************************************)
Rows(m) == {rc[1] : rc \in DOMAIN m}
Row(m, r) ==
    [c \in 1 .. Cardinality({rc \in DOMAIN m : rc[1] = r}) |->
        IF <<r, c>> \in DOMAIN m THEN m[<<r, c>>] ELSE NoWord]

Ambiguous == {c \in 1 .. Len(sentLattice) : Len(sentLattice[c]) > 1}

\* insertTransOpts: for each alternative of the first ambiguous word, the rows
\* for all that follow, with the word itself in each of them.  Here from the
\* last word back: rows[k] are the rows for the last k words, without a word
\* in the columns before; those for all words are written into the matrix.
InsertTransOpts(m) ==
    LET n == Len(sentLattice)
        rows[k \in 0 .. n] ==
            IF k = 0 THEN <<[d \in Ambiguous |-> NoWord]>>
            ELSE LET c    == n + 1 - k
                     rest == rows[k - 1]
                 IN  IF c \notin Ambiguous THEN rest
                     ELSE FlattenSeq([i \in DOMAIN sentLattice[c] |->
                             [r \in DOMAIN rest |-> [rest[r] EXCEPT ![c] = sentLattice[c][i]]]])
        all  == rows[n]
        end  == sentOpts + Len(all)
        fill == (sentOpts .. end - 1) \X Ambiguous
    IN  [matrix |-> [rc \in DOMAIN m \cup fill |->
                        IF rc \in fill THEN all[rc[1] - sentOpts + 1][rc[2]] ELSE m[rc]],
         opts   |-> end]

\* printLattice up to the ranking: the unambiguous words in every row, then the
\* others; if there are no others, a column of dummies that is written over.
Matrix(n) ==
    LET certain == (1 .. Len(sentLattice)) \ Ambiguous
        fixed   == [rc \in (0 .. n - 1) \X certain |-> sentLattice[rc[2]][1]]
        dummy   == [NoWord EXCEPT !.text = "dummy"]
        start   == IF certain = {} /\ sentLattice # <<>>
                   THEN [rc \in (0 .. n - 1) \X {1} |-> dummy] ELSE fixed
    IN  IF Ambiguous = {} THEN [matrix |-> start, opts |-> sentOpts]
        ELSE InsertTransOpts(start)

-------------------------------------------------------------------------------
(***************************************************************************)
(* Printing.  The state of the printers: the sentence started with a mark, *)
(* the last word and the last mark, the pieces printed so far.  All but    *)
(* the pieces is kept from one sentence to the next best one.              *)
(***************************************************************************)
StartPrinter == [started |-> FALSE, prev |-> NoWord, prevPunc |-> "", pieces |-> <<>>]

Piece(w, generated, upper, space) ==
    [word |-> w, generated |-> generated, upper |-> upper, space |-> space]
Put(ps, piece) == [ps EXCEPT !.pieces = Append(@, piece)]

\* A leading slash marks an alternative, unless the line is a punctuation mark.
Unmarked(w) == IF w.pmi = "" THEN [w EXCEPT !.slash = FALSE] ELSE w

\* printSents, the first word: a mark that cannot stand first is left out.
PrintFirst(ps, line) ==
    LET w == Unmarked(line)
    IN  IF Comma(w) \/ w.pmi \in EndsInT THEN [ps EXCEPT !.started = TRUE]
        ELSE IF w.pmi \in Opens
        THEN [Put(ps, Piece(w, FALSE, FALSE, FALSE)) EXCEPT !.started = TRUE]
        ELSE [Put(ps, Piece(w, FALSE, TRUE, FALSE)) EXCEPT
                  !.prev = w, !.prevPunc = w.pmi, !.started = FALSE]

\* Mutant of PrintNext: the last mark is kept after the word that is attached to it.
PrintNextKeepsPunc(ps, line) ==
    LET w     == Unmarked(line)
        piece == Piece(w, FALSE, ps.started, TRUE)
        seen  == [ps EXCEPT !.started = FALSE]
        close == Put(seen, [piece EXCEPT !.space = FALSE])
    IN  IF Comma(w) /\ Comma(ps.prev) THEN ps
        ELSE IF w.pmi \in EndsInT \cup Closes
        THEN [close EXCEPT !.prev = w, !.prevPunc = w.pmi]
        ELSE IF w.pmi \in EndsInA THEN [Put(seen, piece) EXCEPT !.prevPunc = w.pmi]
        ELSE IF ps.prevPunc \in EndsInA \cup {"FH"}
        THEN [close EXCEPT !.prev = w]
        ELSE [Put(seen, piece) EXCEPT !.prev = w]

\* printSents, any other word: a second comma is left out; closing marks and
\* what follows an opening mark or a slash are attached.
PrintNext(ps, line) ==
    LET w     == Unmarked(line)
        piece == Piece(w, FALSE, ps.started, TRUE)
        seen  == [ps EXCEPT !.started = FALSE]
        close == Put(seen, [piece EXCEPT !.space = FALSE])
    IN  IF Comma(w) /\ Comma(ps.prev) THEN ps
        ELSE IF w.pmi \in EndsInT \cup Closes
        THEN [close EXCEPT !.prev = w, !.prevPunc = w.pmi]
        ELSE IF w.pmi \in EndsInA THEN [Put(seen, piece) EXCEPT !.prevPunc = w.pmi]
        ELSE IF ps.prevPunc \in EndsInA \cup {"FH"}
        THEN [close EXCEPT !.prev = w, !.prevPunc = ""]
        ELSE [Put(seen, piece) EXCEPT !.prev = w]

\* printSentsMorphGen, the first word: what the transducer cannot generate is
\* printed as it was read, with its slash and in its own case.
PrintFirstMorph(ps, line) ==
    LET w == Unmarked(line)
    IN  IF Comma(line) \/ line.pmi \in EndsInT THEN [ps EXCEPT !.started = TRUE]
        ELSE IF line.pmi \in Opens
        THEN [Put(ps, Piece(line, FALSE, FALSE, FALSE)) EXCEPT !.started = TRUE, !.prevPunc = line.pmi]
        ELSE LET generated == w.text \in Generated
                 put == IF line = NoWord THEN ps
                        ELSE Put(ps, IF generated THEN Piece(w, TRUE, TRUE, FALSE)
                                     ELSE Piece(line, FALSE, FALSE, FALSE))
             IN  [put EXCEPT !.prev = line, !.prevPunc = line.pmi, !.started = FALSE]

\* printSentsMorphGen, any other word.  For a line without text the result of
\* the last word is used again, which is no longer there.
PrintNextMorph(ps, line) ==
    LET w     == Unmarked(line)
        gone  == [NoWord EXCEPT !.text = "undefined"]
        mark  == Piece(w, FALSE, ps.started, FALSE)
        word  == IF line = NoWord THEN Piece(gone, FALSE, FALSE, TRUE)
                 ELSE Piece(w, w.text \in Generated, ps.started, TRUE)
        seen  == [ps EXCEPT !.started = FALSE]
    IN  IF Comma(line) /\ Comma(ps.prev) THEN ps
        ELSE IF line.pmi \in EndsInT \cup Closes
        THEN [Put(seen, mark) EXCEPT !.prev = line, !.prevPunc = line.pmi]
        ELSE IF line.pmi \in EndsInA THEN [Put(seen, word) EXCEPT !.prevPunc = line.pmi]
        ELSE IF ps.prevPunc \in EndsInA \cup {"FH"}
        THEN [Put(seen, [word EXCEPT !.space = FALSE]) EXCEPT !.prev = line, !.prevPunc = ""]
        ELSE [Put(seen, word) EXCEPT !.prev = line]

\* printTestMorphs: lemma and morphemes, with blanks between them.
PrintTest(ps, line) ==
    Put(ps, Piece(Unmarked(line), FALSE, ps.pieces = <<>>, TRUE))

PrintWord(ps, line, i) ==
    CASE mode = "test"               -> PrintTest(ps, line)
      [] mode = "words"  /\ i = 1    -> PrintFirst(ps, line)
      [] mode = "words"  /\ i > 1    -> PrintNext(ps, line)
      [] mode = "morphs" /\ i = 1    -> PrintFirstMorph(ps, line)
      [] mode = "morphs" /\ i > 1    -> PrintNextMorph(ps, line)

PrintRow(ps, row) ==
    LET after[i \in 0 .. Len(row)] ==
            IF i = 0 THEN ps ELSE PrintWord(after[i - 1], row[i], i)
    IN  after[Len(row)]

\* The best rows, one after the other, with one state of the printer.
PrintRows(m, order) ==
    LET after[k \in 0 .. Len(order)] ==
            IF k = 0 THEN StartPrinter
            ELSE PrintRow([after[k - 1] EXCEPT !.pieces = <<>>], Row(m, order[k]))
    IN  [k \in 1 .. Len(order) |-> after[k].pieces]

\* getProbs, getProbsMorphs: the language model may put the rows in any order.
Rankings(m) ==
    LET n == Min({CUTOFF, Cardinality(Rows(m))})
    IN  {order \in [1 .. n -> Rows(m)] : IsInjective(order)}

\* Mutant of PrintLattice: the rows of the next sentence are counted on.
PrintLatticeNoReset ==
    LET last   == IF sentLattice = <<>> THEN 0 ELSE Len(Last(sentLattice))
        filled == Matrix(nbrOfAltSents * last)
    IN  \E order \in Rankings(filled.matrix) :
            /\ block' = [matrix |-> filled.matrix, order |-> order,
                         printed |-> PrintRows(filled.matrix, order)]
            /\ sentOpts' = filled.opts

\* printLattice: as many rows as the product of the alternatives of all words.
PrintLattice ==
    LET last   == IF sentLattice = <<>> THEN 0 ELSE Len(Last(sentLattice))
        filled == Matrix(nbrOfAltSents * last)
    IN  \E order \in Rankings(filled.matrix) :
            /\ block' = [matrix |-> filled.matrix, order |-> order,
                         printed |-> PrintRows(filled.matrix, order)]
            /\ sentOpts' = 0

\* A line with "#EOS": the sentence is printed and forgotten.
EndOfSentence ==
    /\ pc = "reading"
    /\ PrintLattice
    /\ lines' = IF newSentence THEN <<>> ELSE lines
    /\ newSentence' = TRUE
    /\ sentLattice' = <<>>
    /\ nbrOfAltSents' = 1
    /\ UNCHANGED <<pc, mode, CUTOFF>>

\* The end of the input: a sentence that has not been ended is not printed.
EndOfInput ==
    /\ pc = "reading"
    /\ pc' = "done"
    /\ UNCHANGED <<mode, CUTOFF, newSentence, sentLattice, nbrOfAltSents, sentOpts, lines, block>>

LatticeNext ==
    \/ \E model \in {"binary", "other", "none"} : LanguageModel(model)
    \/ \E w \in Words : FirstWord(w) \/ Alternative(w) \/ NextWord(w)
    \/ EndOfSentence
    \/ EndOfInput

LatticeSpec == LatticeInit /\ [][LatticeNext]_latticeVars

-------------------------------------------------------------------------------
(***************************************************************************)
(* Properties.                                                             *)
(***************************************************************************)
\* The words of a sentence as its lines tell them: where each begins, and its alternatives.
Slots ==
    LET starts == Only([i \in DOMAIN lines |-> i], {i \in DOMAIN lines : i = 1 \/ ~IsAlternative(lines[i])})
        end(k) == IF k = Len(starts) THEN Len(lines) ELSE starts[k + 1] - 1
    IN  [k \in DOMAIN starts |-> SubSeq(lines, starts[k], end(k))]

Product(slots) ==
    LET upTo[n \in 0 .. Len(slots)] == IF n = 0 THEN 1 ELSE upTo[n - 1] * Len(slots[n])
    IN  upTo[Len(slots)]

\* The matrix has every combination of alternatives exactly once: as many rows
\* as the product, each with one alternative of each word, and no dummy left.
\* Of these the best CUTOFF are printed.
LatticeComplete ==
    block # NoBlock /\ lines # <<>> =>
        LET slots == Slots
            n     == Product(slots)
            rows  == [r \in Rows(block.matrix) |-> Row(block.matrix, r)]
            picks == {row \in [DOMAIN slots -> ToSet(lines)] :
                          \A c \in DOMAIN slots : row[c] \in ToSet(slots[c])}
        IN  /\ DOMAIN rows = 0 .. n - 1
            /\ Range(rows) = picks
            /\ Len(block.printed) = Min({CUTOFF, n})

(***************************************************************************)
(* How a sentence ought to be printed, word by word from its neighbours.   *)
(***************************************************************************)
\* A comma, as the printers see it: printSents takes off the slash before it looks.
IsComma(w) == Comma(IF mode = "words" THEN Unmarked(w) ELSE w)

LeftOut(row, i) ==
    \/ i = 1 /\ (IsComma(row[i]) \/ row[i].pmi \in EndsInT)
    \/ i > 2 /\ IsComma(row[i]) /\ IsComma(row[i - 1])

Spaced(row, i) ==
    /\ i > 1
    /\ row[i].pmi \notin EndsInT \cup Closes
    /\ row[i - 1].pmi \in EndsInA \cup {"FH"} =>
           row[i].pmi \in EndsInA \/ (mode = "words" /\ i = 2 /\ row[1].pmi \in Opens)

Capital(row, i) ==
    \/ i = 1 /\ row[1].pmi \notin Opens
    \/ i = 2 /\ (row[1].pmi \in Opens \/ LeftOut(row, 1))

Expected(row) ==
    LET kept == Only([i \in DOMAIN row |-> i], {i \in DOMAIN row : ~LeftOut(row, i)})
        piece(i) == [word |-> Unmarked(row[i]), upper |-> Capital(row, i), space |-> Spaced(row, i)]
    IN  [k \in DOMAIN kept |-> piece(kept[k])]

\* Rows whose last word leaves nothing to the next sentence, without empty
\* words, commas after an opening mark and commas that are tagged as another
\* mark, and whose first word is generated.
Regular(row) ==
    /\ \A i \in DOMAIN row : row[i] # NoWord
    /\ ~IsComma(Last(row)) /\ Last(row).pmi \notin Opens \cup {"FH"}
    /\ \A i \in DOMAIN row : IsComma(row[i]) =>
           /\ row[i].pmi \notin EndsInA \cup {"FH"}
           /\ i > 1 => row[i - 1].pmi \notin Opens
    /\ mode = "morphs" /\ row[1].pmi \notin Opens /\ ~LeftOut(row, 1) => row[1].text \in Generated

\* Every printed sentence, the first as well as the next best ones, has each word
\* and mark of its row once and in order, except for marks that cannot stand
\* first and repeated commas, without the slashes of alternatives; spaces depend
\* on the neighbours only, and the first word is in upper case.
PrintedAsExpected ==
    mode # "test" /\ (\A k \in DOMAIN block.order : Regular(Row(block.matrix, block.order[k]))) =>
        \A k \in DOMAIN block.order :
            [i \in DOMAIN block.printed[k] |->
                LET p == block.printed[k][i] IN [word |-> p.word, upper |-> p.upper, space |-> p.space]]
                = Expected(Row(block.matrix, block.order[k]))
===============================================================================
