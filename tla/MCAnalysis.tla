------------------------------- MODULE MCAnalysis -------------------------------
(***************************************************************************)
(* What surrounds the analysis, for TLC: the server of the dependency      *)
(* parser with its clients, the configuration of server_squoia, or the     *)
(* rows between output_crf, wapiti and nec.  Each behaviour runs one of    *)
(* the three, while the others are idle.                                   *)
(***************************************************************************)
EXTENDS DesrSession, ServerConfig, CrfRows, TLC

CONSTANTS c1, c2, c3

VARIABLE active  \* "parser", "config" or "rows"

(***************************************************************************)
(* Three clients for two slots: one with a text of its own and commands in *)
(* it, or with a line that the parser cannot take, one with a line, and    *)
(* one without any.                                                        *)
(***************************************************************************)
MCClients == {c1, c2, c3}
MCTexts ==
    {[c \in MCClients |-> CASE c = c1 -> own [] c = c2 -> <<"other">> [] c = c3 -> <<>>] :
        own \in {<<"token", Statistics>>, <<Reset, "blank", "token">>, <<"bad", "token">>}}

(***************************************************************************)
(* Configurations: levels of input and output, with all files or none, and *)
(* one more setting; then some command lines.                              *)
(***************************************************************************)
NoOptions == [o \in {} |-> ""]
AllFiles ==
    [f \in {"LangIdentFile", "TokenizerFile", "SplitterFile", "TaggerHMMFile", "TaggerRelaxFile", "GrammarFile",
            "DepTxalaFile", "DepTreelerFile", "CorefFile", "SemGraphExtractorFile", "PhoneticsFile", "NECFile",
            "SenseConfigFile", "UKBConfigFile"} |-> "given"]
MCSettings ==
    {[ServerMode |-> TRUE], [InputMode |-> "doc"], [OutputFormat |-> "naf"], [InputFormat |-> "freeling"],
     [InputFormat |-> "conll"], [InputFormat |-> "crf"], [Tagger |-> "relax"], [Tagger |-> "odd"],
     [DependencyParser |-> "treeler"], [SenseAnnotation |-> "ukb"], [InputFormat |-> "odd"]}
MCConfigFiles ==
    {[InputLevel |-> i, OutputLevel |-> o] @@ setting @@ files :
        i \in {"text", "splitted", "tagged", "dep", "odd"},
        o \in {"ident", "token", "crf", "tagged", "dep", "coref", "semgraph"},
        setting \in MCSettings, files \in {NoOptions, AllFiles}}
MCLines == {NoOptions, [ServerPort |-> 1], [OutputLevel |-> "semgraph", TaggerHMMFile |-> "given"],
            [InputLevel |-> "tagged", InputFormat |-> "conll"]}
MCFlags ==
    {[ServerMode |-> s, NEClassification |-> n, Phonetics |-> p] :
        <<s, n, p>> \in {<<{}, {}, {}>>, <<{"pos"}, {"neg"}, {"pos"}>>, <<{"pos"}, {}, {"pos", "neg"}>>}}

(***************************************************************************)
(* Sentences of up to two words: punctuation, a name that may be another   *)
(* word, gerunds, numbers, and words with more readings than columns.      *)
(***************************************************************************)
R(kind, id) == [kind |-> kind, id |-> id]
MCWords ==
    {[ando |-> a, readings |-> r] : a \in BOOLEAN,
        r \in {<<R("punct", 1)>>, <<R("other", 1)>>, <<R("np", 1)>>, <<R("np", 1), R("other", 2)>>,
               <<R("gerund", 1), R("other", 2)>>, <<R("np", 1), R("gerund", 2), R("other", 3)>>,
               <<R("number", 1)>>, <<R("other", 1), R("other", 2)>>,
               <<R("other", 1), R("other", 2), R("np", 3)>>}}
MCSentences == UNION {[1 .. n -> MCWords] : n \in 0 .. 2}
Fixed == <<[ando |-> FALSE, readings |-> <<R("other", 1)>>]>>
MCAnalyses == {<<s>> : s \in MCSentences} \cup {<<s, <<>>, Fixed>> : s \in {<<w>> : w \in MCWords}} \cup {<<>>}

ParserIdle == InitWith("exited", [c \in MCClients |-> <<>>])
ConfigIdle == ConfigInitWith(NoOptions, [o \in {} |-> {}], NoOptions)
RowsIdle == RowsInitWith(<<>>)

MCInit ==
    \/ active = "parser" /\ Init /\ ConfigIdle /\ RowsIdle
    \/ active = "config" /\ ConfigInit /\ ParserIdle /\ RowsIdle
    \/ active = "rows" /\ RowsInit /\ ParserIdle /\ ConfigIdle

MCNext ==
    \/ active = "parser" /\ Next /\ UNCHANGED <<active, configVars, rowVars>>
    \/ active = "config" /\ ConfigNext /\ UNCHANGED <<active, vars, rowVars>>
    \/ active = "rows" /\ RowsNext /\ UNCHANGED <<active, vars, configVars>>

MCSpec == MCInit /\ [][MCNext]_<<active, vars, configVars, rowVars>> /\ Fairness
===============================================================================
