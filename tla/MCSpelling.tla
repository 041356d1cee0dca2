------------------------------ MODULE MCSpelling ------------------------------
(***************************************************************************)
(* The programs of src/morphology for TLC: the look-up servers with their  *)
(* clients, a program that looks up a text, or the plugin of the office    *)
(* suite.  They share nothing but the transducers, so that each behaviour  *)
(* runs one of the three while the others are idle.                        *)
(***************************************************************************)
EXTENDS LookupSession, SpellPlugin, SpellPrograms

CONSTANTS c1, c2

VARIABLE active  \* "servers", "program" or "plugin"

(***************************************************************************)
(* Words: one that the first transducer knows, one with more results than  *)
(* a read holds, one that only the second knows and one that it knows and  *)
(* the analyzer too, one that fills the buffer, one without result, and    *)
(* the empty word.                                                         *)
(***************************************************************************)
MCWords == {"one", "many", "late", "full", "none", "empty"}
MCNets == <<[w \in MCWords |-> CASE w = "one" -> 1 [] w = "many" -> 3 [] OTHER -> 0],
            [w \in MCWords |-> CASE w \in {"late", "full"} -> 2 [] w = "one" -> 2 [] OTHER -> 0]>>
MCMed == [w \in MCWords |-> IF w \in {"empty", "late"} THEN 0 ELSE 6]

(***************************************************************************)
(* One client has two lines of these, an empty one or one in two pieces,   *)
(* and a third if it is ahead by then; the other has a single line.        *)
(***************************************************************************)
MCClients == {c1, c2}
MCLines == {<<>>, <<"one">>, <<"many">>, <<"late">>, <<"none">>}
MCLong == <<"full", "one">>
MCInputs ==
    {[c \in MCClients |-> CASE c = c1 -> lines [] c = c2 -> <<<<"one">>>>] :
        lines \in {<<>>} \cup {<<k, l>> : k \in MCLines \cup {MCLong}, l \in MCLines}
                        \cup {<<k, l, <<"one">>>> : k \in {<<"many">>, MCLong}, l \in MCLines}}

MCTexts == UNION {[1 .. n -> MCWords \ {"full"}] : n \in 0 .. 3}

(***************************************************************************)
(* Documents: up to two words of which one has a long answer, one is       *)
(* wrong, and two are known without a capital or without their marks.      *)
(***************************************************************************)
Plain(s) == [stem |-> s, capital |-> FALSE, before |-> FALSE, after |-> FALSE]
Capital(s) == [Plain(s) EXCEPT !.capital = TRUE]
MCForms == {Plain("long"), Plain("wrong"), [Capital("known") EXCEPT !.after = TRUE],
            [Capital("name") EXCEPT !.before = TRUE, !.after = TRUE]}
MCStems == {"known", "long", "wrong", "name"}

MCDocuments == UNION {[1 .. n -> MCForms] : n \in 0 .. 2}
MCLongAnswers == {Plain("long")}
MCKnown == {Plain("known"), Plain("long"), Capital("name")}
MCSimilar == [f \in [stem : MCStems, capital : BOOLEAN, before : BOOLEAN, after : BOOLEAN] |->
                 IF f.after THEN 0 ELSE 2]

ServersIdle == InitWith("flookup", 0, [c \in MCClients |-> <<>>])
ProgramIdle == ProgramInitWith("spellcheck", <<>>, <<>>)
PluginIdle  == PluginInitWith(FALSE, <<>>)

MCInit ==
    \/ active = "servers" /\ Init /\ ProgramIdle /\ PluginIdle
    \/ active = "program" /\ ProgramInit /\ ServersIdle /\ PluginIdle
    \/ active = "plugin" /\ PluginInit /\ ServersIdle /\ ProgramIdle

MCNext ==
    \/ active = "servers" /\ Next /\ UNCHANGED <<active, toolVars, pluginVars>>
    \/ active = "program" /\ ProgramNext /\ UNCHANGED <<active, vars, pluginVars>>
    \/ active = "plugin" /\ PluginNext /\ UNCHANGED <<active, vars, toolVars>>

MCSpec ==
    /\ MCInit /\ [][MCNext]_<<active, vars, toolVars, pluginVars>>
    /\ Fairness /\ PluginFairness
==============================================================================
