-------------------------- MODULE MCSentenceLattice --------------------------
(***************************************************************************)
(* SentenceLattice for TLC: words that the transducer generates and one    *)
(* that it does not, alternatives, an empty word, and marks of each kind.  *)
(***************************************************************************)
EXTENDS SentenceLattice

Line(t, s, p) == [text |-> t, slash |-> s, pmi |-> p]

MCWords ==
    {Line("a", FALSE, ""), Line("b", FALSE, ""), Line("a", TRUE, ""), Line("c", TRUE, ""),
     NoWord, Line(",", FALSE, "FC"), Line(".", FALSE, "FP"), Line("?", FALSE, "FIT"),
     Line("open?", FALSE, "FIA"), Line("(", FALSE, "FPA"), Line("", TRUE, "FH")}
===============================================================================
