-------------------------- MODULE MCLexicalTransfer --------------------------
(***************************************************************************)
(* LexicalTransfer for TLC: a dictionary with every kind of entry, words   *)
(* for every way of looking up.                                            *)
(***************************************************************************)
EXTENDS LexicalTransfer

Alt(l, s) == [lem |-> <<l>>, mi |-> <<"m">>, sense |-> s]
Alt2(l, r, s) == [lem |-> <<l, r>>, mi |-> <<"m", "n">>, sense |-> s]

\* Unknown, one alternative, two without senses, numbered in any order with and
\* without one that has none, a gap, a double sense, several nodes.
MCDictionary ==
    [k \in {"none", "one", "two", "back", "mixed", "gap", "double", "multi"} |->
        CASE k = "none"   -> <<>>
          [] k = "one"    -> <<Alt("a", 0)>>
          [] k = "two"    -> <<Alt("a", 0), Alt("b", 0)>>
          [] k = "back"   -> <<Alt("c", 3), Alt("a", 1), Alt("b", 2)>>
          [] k = "mixed"  -> <<Alt("b", 2), Alt("z", 0), Alt("a", 1)>>
          [] k = "gap"    -> <<Alt("c", 3), Alt("b", 2)>>
          [] k = "double" -> <<Alt("a", 1), Alt("b", 1)>>
          [] k = "multi"  -> <<Alt2("a", "b", 0), Alt("c", 0)>>]

Word(keys) == [form |-> <<"l">>, mi |-> "VM", first |-> FALSE, keys |-> keys,
               formKey |-> "none", unknown |-> FALSE]

MCWords ==
    {Word(<<k>>) : k \in DOMAIN MCDictionary}
        \cup {Word(k) : k \in {<<"one", "two">>, <<"none", "two">>, <<"one", "none">>,
                               <<"none", "none">>, <<"one", "one">>, <<"none", "gap">>}}
        \cup {[Word(<<"none">>) EXCEPT !.mi = "Z", !.formKey = "one", !.form = <<"U", "U", "_", "l">>],
              [Word(<<"one">>) EXCEPT !.unknown = TRUE, !.form = <<"U", "l">>, !.first = TRUE],
              [Word(<<"one">>) EXCEPT !.mi = "NP", !.form = <<"U", "l", "l", "_", "U", "l">>]}

MCLaterWords == {Word(<<"one">>)}

MCChunks == {[type |-> "grup-sp", si |-> ""], [type |-> "", si |-> "subj"]}
MCLaterChunks == {[type |-> "", si |-> "subj"]}

MCTypeLines == <<[key |-> "grup-sp", value |-> "x"], [key |-> "subj", value |-> ""],
                 [key |-> "grup-sp", value |-> "pp"]>>
================================================================================
