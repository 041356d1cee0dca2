------------------------------ MODULE SpellWords ------------------------------
(***************************************************************************)
(* What the finite-state tools of src/morphology find for a word: whether  *)
(* the analyzer knows it, the results of the chain of transducers that     *)
(* correct typical misspellings, and similar words (med search).  The      *)
(* transducers belong to the foma library; only how many results they give *)
(* matters, and results are numbered.                                      *)
(***************************************************************************)
EXTENDS Integers, Sequences, SequencesExt

CONSTANTS Words,      \* what may be looked up
          Nets,       \* the chain: for each transducer, the number of results of a word
          Recognized, \* words that the analyzer knows
          Med         \* number of similar words

ASSUME WordsAssumption ==
    /\ Nets \in Seq([Words -> Nat])
    /\ Recognized \subseteq Words
    /\ Med \in [Words -> Nat]

\* The results of a word; the answers "--" for one that is correct and "???" for
\* one that nothing is found for.
Results(w, n) == [i \in 1 .. n |-> <<w, i>>]
Correct(w) == <<<<w, 0>>>>
Hopeless(w) == <<<<w, -1>>>>

\* All results of the first transducer that has any: apply_alternates is 1 and no
\* option sets it to anything else.
ChainResults(w) ==
    LET first == SelectInSeq(Nets, LAMBDA net : net[w] > 0)
    IN  IF first = 0 THEN <<>> ELSE Results(w, Nets[first][w])

\* The chain is asked first, then the search for similar words, which ends at its limit.
Suggestions(w, limit) ==
    IF ChainResults(w) # <<>> THEN ChainResults(w)
    ELSE IF Med[w] = 0 THEN Hopeless(w)
    ELSE Results(w, IF Med[w] < limit THEN Med[w] ELSE limit)

SpellAnswer(w, limit) == IF w \in Recognized THEN Correct(w) ELSE Suggestions(w, limit)
===============================================================================
