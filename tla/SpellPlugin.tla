------------------------------ MODULE SpellPlugin ------------------------------
(***************************************************************************)
(* The spell checker of the office suite: Main, its Client, the process    *)
(* flookup that Client keeps and asks through pipes whether it knows a     *)
(* word, and a process fmed for each word that alternatives are wanted of. *)
(*                                                                         *)
(* A form is a stem with or without a capital and with or without marks    *)
(* before and after it.  flookup writes an answer at once ("+?" and two    *)
(* line ends if it does not know the form) unless it is longer than its    *)
(* buffer: then the rest comes with a second write.                        *)
(***************************************************************************)
EXTENDS Integers, Sequences, SequencesExt, FiniteSets

CONSTANTS Stems,
          Documents, \* what may be checked: sequences of forms, see Form below
          Known,     \* forms that flookup knows
          Long,      \* those of them whose answer takes two writes
          Suggested, \* for each form, the number of alternatives that fmed finds
          MaxChecks  \* bound: how often the document is checked

Form == [stem : Stems, capital : BOOLEAN, before : BOOLEAN, after : BOOLEAN]

ASSUME PluginAssumption == Documents \subseteq Seq(Form)

VARIABLES
    flookup,   \* "none", "running" or "dead"
    listening, \* the office wants to know when a document must be checked again
    document,  \* the words of the document
    checks,    \* how often it has been checked
    asking,     \* words that the office will ask about
    current,   \* the word that it is asking about, as a sequence of at most one
    tries,     \* the forms of it that are still to be looked up
    state,     \* of isValidWord: "idle", "reading" or "taken"
    first,     \* what the first four bytes say
    toLookup,  \* forms on their way to flookup
    unsent,    \* flookup has only written the beginning of an answer
    toPlugin,  \* parts of answers on their way back
    verdicts,  \* history: words with what the plugin said of them
    offered,   \* history: words with the alternatives that were shown
    splits     \* history: number of answers that took two writes

pipes == <<toLookup, unsent, toPlugin, splits>>
office == <<listening, document, checks, asking, verdicts, offered>>
pluginVars == <<flookup, office, current, tries, state, first, pipes>>

PluginInitWith(started, words) ==
    /\ flookup = IF started THEN "running" ELSE "none"
    /\ listening = FALSE
    /\ document = words
    /\ checks = 0
    /\ asking = <<>> /\ current = <<>> /\ tries = <<>>
    /\ state = "idle"
    /\ first = FALSE
    /\ toLookup = <<>> /\ unsent = FALSE /\ toPlugin = <<>>
    /\ verdicts = <<>> /\ offered = <<>>
    /\ splits = 0

PluginInit == \E started \in BOOLEAN, words \in Documents : PluginInitWith(started, words)

-------------------------------------------------------------------------------
(***************************************************************************)
(* The office and Main.                                                    *)
(***************************************************************************)
AddListener ==
    /\ ~listening
    /\ listening' = TRUE
    /\ UNCHANGED <<flookup, document, checks, asking, verdicts, offered, current, tries, state, first, pipes>>

RemoveListener ==
    /\ listening
    /\ listening' = FALSE
    /\ UNCHANGED <<flookup, document, checks, asking, verdicts, offered, current, tries, state, first, pipes>>

\* The office asks for every word of a document when it is opened, ...
Check ==
    /\ checks < MaxChecks
    /\ checks' = checks + 1
    /\ asking' = asking \o document
    /\ UNCHANGED <<flookup, listening, document, verdicts, offered, current, tries, state, first, pipes>>

\* ... and again when Main tells its listeners that the rules have changed.
RecheckDocument == listening /\ checks > 0 /\ Check
Open == checks = 0 /\ Check

\* The forms that isValid looks up one after the other: the word, the word without a
\* capital if that is different, then without the marks after it, before it, and on
\* both sides, each with and without the capital.
Forms(word) ==
    LET Lower(f) == [f EXCEPT !.capital = FALSE]
        Both(f)  == <<f, Lower(f)>>
        bare     == [word EXCEPT !.before = FALSE, !.after = FALSE]
    IN  <<word>>
        \o (IF word.capital THEN <<Lower(word)>> ELSE <<>>)
        \o (IF word.after THEN Both([word EXCEPT !.after = FALSE]) ELSE <<>>)
        \o (IF word.before THEN Both([word EXCEPT !.before = FALSE]) ELSE <<>>)
        \o (IF word.before /\ word.after THEN Both(bare) ELSE <<>>)

\* isValid: without flookup nothing is valid.
IsValid ==
    /\ current = <<>>
    /\ asking # <<>>
    /\ asking' = Tail(asking)
    /\ IF flookup = "none"
       THEN verdicts' = Append(verdicts, <<Head(asking), FALSE>>) /\ UNCHANGED <<current, tries>>
       ELSE current' = <<Head(asking)>> /\ tries' = Forms(Head(asking)) /\ UNCHANGED verdicts
    /\ UNCHANGED <<flookup, listening, document, checks, offered, state, first, pipes>>

\* The end of isValidWord: the first form that is valid decides, or the last one.
Judge(valid) ==
    /\ state' = "idle"
    /\ IF valid \/ Len(tries) = 1
       THEN /\ verdicts' = Append(verdicts, <<current[1], valid>>)
            /\ current' = <<>> /\ tries' = <<>>
       ELSE tries' = Tail(tries) /\ UNCHANGED <<verdicts, current>>
    /\ UNCHANGED <<flookup, listening, document, checks, asking, offered>>

-------------------------------------------------------------------------------
(***************************************************************************)
(* isValidWord.                                                            *)
(***************************************************************************)
Write ==
    /\ state = "idle"
    /\ tries # <<>>
    /\ flookup = "running"
    /\ state' = "reading"
    /\ toLookup' = Append(toLookup, Head(tries))
    /\ UNCHANGED <<flookup, office, current, tries, first, unsent, toPlugin, splits>>

\* The process is gone: an exception, and the form is not valid.
WriteToDead ==
    /\ state = "idle"
    /\ tries # <<>>
    /\ flookup = "dead"
    /\ Judge(FALSE)
    /\ UNCHANGED <<first, pipes>>

\* Four bytes: "+?" is a form that flookup does not know, anything else is a result;
\* also the rest of an earlier answer.
ReadFour ==
    /\ state = "reading"
    /\ toPlugin # <<>>
    /\ state' = "taken"
    /\ first' = (Head(toPlugin) # "unknown")
    /\ toPlugin' = Tail(toPlugin)
    /\ UNCHANGED <<flookup, office, current, tries, toLookup, unsent, splits>>

\* The rest has less than four bytes and nothing follows yet: an exception.
ReadShort ==
    /\ state = "reading"
    /\ toPlugin = <<"rest">>
    /\ toPlugin' = <<>>
    /\ Judge(FALSE)
    /\ UNCHANGED <<first, toLookup, unsent, splits>>

\* Mutant of ReadEnd: it is not an error.
ReadEndAgain ==
    /\ state = "reading"
    /\ toPlugin = <<>>
    /\ flookup = "dead"
    /\ UNCHANGED pluginVars

\* The end of the pipe.
ReadEnd ==
    /\ state = "reading"
    /\ toPlugin = <<>>
    /\ flookup = "dead"
    /\ Judge(FALSE)
    /\ UNCHANGED <<first, pipes>>

\* Mutant of ReadRest: what is available is left for the next word.
ReadRestLeft ==
    /\ state = "taken"
    /\ toPlugin' = IF first THEN <<"rest">> \o toPlugin ELSE toPlugin
    /\ Judge(first)
    /\ UNCHANGED <<first, toLookup, unsent, splits>>

\* Whatever else has arrived is read and ignored.
ReadRest ==
    /\ state = "taken"
    /\ toPlugin' = <<>>
    /\ Judge(first)
    /\ UNCHANGED <<first, toLookup, unsent, splits>>

-------------------------------------------------------------------------------
(***************************************************************************)
(* The processes.                                                          *)
(***************************************************************************)
\* flookup reads a form and writes its answer, or the beginning of it.
AnswerForm ==
    /\ flookup = "running"
    /\ ~unsent
    /\ toLookup # <<>>
    /\ LET form == Head(toLookup)
       IN  /\ toPlugin' = Append(toPlugin, IF form \in Known THEN "known" ELSE "unknown")
           /\ unsent' = (form \in Long)
           /\ splits' = splits + (IF form \in Long THEN 1 ELSE 0)
    /\ toLookup' = Tail(toLookup)
    /\ UNCHANGED <<flookup, office, current, tries, state, first>>

AnswerRest ==
    /\ flookup = "running"
    /\ unsent
    /\ unsent' = FALSE
    /\ toPlugin' = Append(toPlugin, "rest")
    /\ UNCHANGED <<flookup, office, current, tries, state, first, toLookup, splits>>

\* It ends, and nobody starts it again.
Die ==
    /\ flookup = "running"
    /\ flookup' = "dead"
    /\ toLookup' = <<>> /\ unsent' = FALSE
    /\ UNCHANGED <<office, current, tries, state, first, toPlugin, splits>>

\* fmed is given the word without capitals but with its marks, and prints nothing,
\* which is taken for an alternative, or one line, whose beginning may be anything.
Fmed(form) ==
    LET found == [i \in 1 .. Suggested[form] |-> <<form, i>>]
    IN  IF found = <<>> THEN {<<<<form, -1>>>>}
        ELSE {found, [found EXCEPT ![1] = <<form, 0>>]}

Wrong == {i \in DOMAIN verdicts : ~verdicts[i][2]}

\* getAlternatives waits for isValid: both are synchronized.
Alternatives ==
    /\ current = <<>>
    /\ Len(offered) < Cardinality(Wrong)
    /\ LET word == verdicts[SetToSortSeq(Wrong, <)[Len(offered) + 1]][1]
       IN  \E list \in Fmed([word EXCEPT !.capital = FALSE]) \cup (IF flookup = "none" THEN {<<>>} ELSE {}) :
              offered' = Append(offered, <<word, list>>)
    /\ UNCHANGED <<flookup, listening, document, checks, asking, verdicts, current, tries, state, first, pipes>>

PluginStep == IsValid \/ Write \/ WriteToDead \/ ReadFour \/ ReadShort \/ ReadEnd \/ ReadRest

PluginNext ==
    \/ AddListener \/ RemoveListener \/ Open \/ RecheckDocument
    \/ PluginStep \/ Alternatives
    \/ AnswerForm \/ AnswerRest \/ Die

PluginSpec == PluginInit /\ [][PluginNext]_pluginVars

\* The plugin and flookup run; the office does what its user does.
PluginFairness == WF_pluginVars(PluginStep) /\ WF_pluginVars(AnswerForm \/ AnswerRest)

PluginFairSpec == PluginSpec /\ PluginFairness

-------------------------------------------------------------------------------
(***************************************************************************)
(* Properties.                                                             *)
(***************************************************************************)
\* Types; one form at a time is looked up, and between two look-ups at most as many
\* parts of answers are left as there were answers in two parts.
PluginTypes ==
    /\ flookup \in {"none", "running", "dead"}
    /\ state \in {"idle", "reading", "taken"}
    /\ asking \in Seq(Form) /\ tries \in Seq(Form)
    /\ (current = <<>>) = (tries = <<>>)
    /\ state = "idle" => Len(toLookup) + Len(toPlugin) + (IF unsent THEN 1 ELSE 0) <= splits

\* A word is judged by its own answers: as long as flookup has given no answer in
\* two parts, a word is accepted only if one of its forms is known, and until
\* flookup ends also whenever one is.
VerdictsOwn ==
    splits = 0 =>
        \A i \in DOMAIN verdicts :
            LET known == \E form \in ToSet(Forms(verdicts[i][1])) : form \in Known
            IN  /\ verdicts[i][2] => known
                /\ flookup = "running" => verdicts[i][2] = known

\* Every word that the office asks about is judged, whatever happens to flookup.
WordsJudged == asking # <<>> ~> asking = <<>> /\ current = <<>>
===============================================================================
