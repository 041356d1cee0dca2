---------------------------- MODULE SequenceFilters ----------------------------
(***************************************************************************)
(* The members of a sequence that belong to a set, in their order, and the *)
(* others.  They take the set instead of a test, and are recursive         *)
(* functions, so that their laws can be proved (SequenceLemmas).           *)
(***************************************************************************)
EXTENDS Integers, Sequences, SequencesExt

Only(s, S) ==
    LET upTo[n \in 0 .. Len(s)] ==
            IF n = 0 THEN <<>>
            ELSE IF s[n] \in S THEN Append(upTo[n - 1], s[n])
            ELSE upTo[n - 1]
    IN  upTo[Len(s)]

Without(s, S) == Only(s, ToSet(s) \ S)
===============================================================================
