----------------------------- MODULE SpellPrograms -----------------------------
(***************************************************************************)
(* The programs that look words up one after the other: spellcheck (a word *)
(* per line), spellcheck_json and the spellcheck of the plugin (the words  *)
(* of one line, with commas between them), spellcheck_server (a word per   *)
(* datagram), fmed, and the fmed of the plugin.                            *)
(*                                                                         *)
(* What a program prints is a sequence of entries: whether a comma is put  *)
(* before it, and its results.  Standard output is buffered up to the end. *)
(***************************************************************************)
EXTENDS SpellWords, SequenceFilters

CONSTANTS Texts,  \* what may be read: sequences of words
          Limits, \* what may be given as option -l
          Empty   \* the empty word

ASSUME ProgramsAssumption ==
    /\ Texts \subseteq Seq(Words)
    /\ Limits \subseteq Nat
    /\ Empty \in Words

VARIABLES
    tool,    \* which program: "spellcheck", "json", "list", "server", "fmed" or "suggest"
    phase,   \* "start", "running", "ended", "failed" or "aborted"
    limit,   \* g_med_limit
    text,    \* the words that it is given
    waiting, \* those that are still to be read
    report,  \* entries that have been printed
    corr,    \* words that will be printed as correct, with the comma before them
    str      \* what is left on the stack of fmed

toolVars == <<tool, phase, limit, text, waiting, report, corr, str>>

Tools == {"spellcheck", "json", "list", "server", "fmed", "suggest"}
Default == 5

ProgramInitWith(which, words, stack) ==
    /\ tool = which
    /\ phase = "start"
    /\ limit = Default
    /\ text = words
    /\ waiting = text
    /\ report = <<>>
    /\ corr = <<>>
    /\ str = stack

ProgramInit ==
    \E which \in Tools, words \in Texts, stack \in {<<>>, Hopeless(Empty)} :
        ProgramInitWith(which, words, stack)

-------------------------------------------------------------------------------
(***************************************************************************)
(* The beginning of main: the limit, which cannot be 0 because the search  *)
(* would not end, and then the files.                                      *)
(***************************************************************************)
Start(option, fault) ==
    /\ phase = "start"
    /\ phase' = IF fault THEN "failed" ELSE "running"
    /\ limit' = IF option = 0 THEN limit ELSE option
    /\ UNCHANGED <<tool, text, report, corr, str>>

StartSpellcheck(option, fault) == tool = "spellcheck" /\ Start(option, fault) /\ UNCHANGED waiting
StartServer(option, fault) == tool = "server" /\ Start(option, fault) /\ UNCHANGED waiting
StartFmed(option, fault) == tool = "fmed" /\ Start(option, fault) /\ UNCHANGED waiting
StartSuggest(option, fault) == tool = "suggest" /\ Start(option, fault) /\ UNCHANGED waiting

\* strtok of the only line that is read: two commas in a row are one.
Tokens(line) == Without(line, {Empty})

StartJson(option, fault) == tool = "json" /\ Start(option, fault) /\ waiting' = Tokens(text)
StartList(option, fault) == tool = "list" /\ Start(option, fault) /\ waiting' = Tokens(text)

-------------------------------------------------------------------------------
(***************************************************************************)
(* One word.                                                               *)
(***************************************************************************)
Entry(comma, results) == [comma |-> comma, results |-> results]

\* The word that is read next, and what the loop does with it.
NextWord(printed) ==
    /\ phase = "running"
    /\ waiting # <<>>
    /\ waiting' = Tail(waiting)
    /\ report' = report \o printed
    /\ UNCHANGED <<tool, phase, limit, text>>

\* handle_line of spellcheck.
HandleLine ==
    /\ tool = "spellcheck"
    /\ NextWord(IF Head(waiting) = Empty THEN <<>> ELSE <<Entry(FALSE, SpellAnswer(Head(waiting), limit))>>)
    /\ UNCHANGED <<corr, str>>

\* handle_line of spellcheck_server prints the answer; what is to be sent remains
\* empty, so that nothing is.
HandleDatagram ==
    /\ tool = "server"
    /\ NextWord(IF Head(waiting) = Empty THEN <<>> ELSE <<Entry(FALSE, SpellAnswer(Head(waiting), limit))>>)
    /\ UNCHANGED <<corr, str>>

\* A word that the analyzer knows is held back.
HoldBack ==
    /\ waiting # <<>> /\ Head(waiting) \in Recognized
    /\ NextWord(<<>>)
    /\ corr' = Append(corr, Entry(corr # <<>>, Correct(Head(waiting))))

\* Any other is printed with its suggestions.
Suggest ==
    /\ waiting # <<>> /\ Head(waiting) \notin Recognized
    /\ NextWord(<<Entry(report # <<>>, Suggestions(Head(waiting), limit))>>)
    /\ UNCHANGED corr

\* Mutant of HandleJson: a word with suggestions is incorrect, whatever the analyzer says.
HandleJsonAll ==
    /\ tool = "json"
    /\ NextWord(<<Entry(report # <<>>, Suggestions(Head(waiting), limit))>>)
    /\ UNCHANGED <<corr, str>>

\* handle_line of spellcheck_json.
HandleJson == tool = "json" /\ (HoldBack \/ Suggest) /\ UNCHANGED str

\* handle_line of the plugin's spellcheck: the suggestions without their word.
HandleList == tool = "list" /\ (HoldBack \/ Suggest) /\ UNCHANGED str

\* The search alone.
Similar(w) == IF Med[w] < limit THEN Results(w, Med[w]) ELSE Results(w, limit)

\* main of fmed: a word and its similar words.
HandleFmed ==
    /\ tool = "fmed"
    /\ LET w == Head(waiting)
       IN  NextWord(IF w = Empty THEN <<>> ELSE <<Entry(FALSE, IF Med[w] = 0 THEN Hopeless(w) ELSE Similar(w))>>)
    /\ UNCHANGED <<corr, str>>

\* main of the plugin's fmed: the results are added to whatever str holds, which is
\* not initialized and may be what the last word left there; nothing is printed for
\* a word without result, but it is added as well, to that str or to another one.
HandleSuggest ==
    /\ tool = "suggest"
    /\ waiting # <<>>
    /\ LET w == Head(waiting)
       IN  \E old \in {<<>>, str} :
             IF Med[w] = 0
             THEN NextWord(<<>>) /\ str' \in {str, old \o Correct(w)}
             ELSE NextWord(<<Entry(FALSE, old \o Similar(w))>>) /\ str' = old \o Similar(w)
    /\ UNCHANGED corr

-------------------------------------------------------------------------------
(***************************************************************************)
(* The end of the input.                                                   *)
(***************************************************************************)
End(outcomes) ==
    /\ phase = "running"
    /\ waiting = <<>>
    /\ phase' \in outcomes
    /\ UNCHANGED <<tool, limit, text, waiting, str>>

EndSpellcheck == tool = "spellcheck" /\ End({"ended"}) /\ UNCHANGED <<report, corr>>
EndFmed == tool = "fmed" /\ End({"ended"}) /\ UNCHANGED <<report, corr>>
EndSuggest == tool = "suggest" /\ End({"ended"}) /\ UNCHANGED <<report, corr>>

\* recvfrom fails.
EndServer == tool = "server" /\ End({"ended"}) /\ UNCHANGED <<report, corr>>

\* The incorrect words, the correct ones, and what the editor is to do.
EndList == tool = "list" /\ End({"ended"}) /\ report' = report \o corr /\ UNCHANGED corr

\* As before, but corr is freed: without any correct word it is still a constant, the
\* program may be aborted, and what is in the buffer is lost.
EndJson ==
    /\ tool = "json"
    /\ End(IF corr = <<>> THEN {"ended", "aborted"} ELSE {"ended"})
    /\ report' = IF phase' = "aborted" THEN <<>> ELSE report \o corr
    /\ UNCHANGED corr

ProgramNext ==
    \/ \E option \in Limits, fault \in BOOLEAN :
          \/ StartSpellcheck(option, fault) \/ StartJson(option, fault) \/ StartList(option, fault)
          \/ StartServer(option, fault) \/ StartFmed(option, fault) \/ StartSuggest(option, fault)
    \/ HandleLine \/ HandleJson \/ HandleList \/ HandleDatagram \/ HandleFmed \/ HandleSuggest
    \/ EndSpellcheck \/ EndJson \/ EndList \/ EndServer \/ EndFmed \/ EndSuggest

ProgramSpec == ProgramInit /\ [][ProgramNext]_toolVars

-------------------------------------------------------------------------------
(***************************************************************************)
(* Properties.                                                             *)
(***************************************************************************)
\* Types; a word of json or list is still to be read, printed or held back.
ProgramTypes ==
    /\ tool \in Tools
    /\ phase \in {"start", "running", "ended", "failed", "aborted"}
    /\ limit \in Nat \ {0}
    /\ waiting \in Seq(Words)
    /\ tool \in {"json", "list"} /\ phase = "running" =>
         Len(waiting) + Len(report) + Len(corr) = Len(Tokens(text))

\* A program that comes to its end has answered every word once: a word that is
\* correct as such and any other with its own suggestions, with a comma before all
\* but the first of the correct and the first of the incorrect words.  What the
\* plugin's fmed prints for a word at least ends in its suggestions.  Only
\* spellcheck_json may be aborted, if it knows none of its words.
WithSimilar == {w \in Words : Med[w] > 0}
Listed(results) == [i \in DOMAIN results |-> Entry(i > 1, results[i])]

ReportComplete ==
    LET words     == Tokens(text)
        incorrect == Without(words, Recognized)
        correct   == Only(words, Recognized)
        similar   == Only(text, WithSimilar)
        answers   == [i \in DOMAIN report |-> report[i].results]
    IN  /\ phase = "ended" =>
              CASE tool \in {"spellcheck", "server"} -> answers = [i \in DOMAIN words |-> SpellAnswer(words[i], limit)]
                [] tool \in {"json", "list"} ->
                     report = Listed([i \in DOMAIN incorrect |-> Suggestions(incorrect[i], limit)])
                              \o Listed([i \in DOMAIN correct |-> Correct(correct[i])])
                [] tool = "fmed" ->
                     answers = [i \in DOMAIN words |-> IF Med[words[i]] = 0 THEN Hopeless(words[i]) ELSE Similar(words[i])]
                [] tool = "suggest" ->
                     /\ Len(report) = Len(similar)
                     /\ \A i \in DOMAIN similar : IsSuffix(Similar(similar[i]), answers[i])
        /\ phase = "aborted" => tool = "json" /\ correct = <<>>
===============================================================================
