------------------------------ MODULE ServerConfig ------------------------------
(***************************************************************************)
(* How server_squoia gets its configuration: the constructor of config in  *)
(* config_squoia.h merges the command line, the configuration file and two *)
(* tables of defaults, and load_config makes the result consistent or      *)
(* rejects it.  Then main creates its handlers and enters one of its       *)
(* loops.                                                                  *)
(*                                                                         *)
(* Options have the names that they have in the configuration file.  The   *)
(* name of a file is "given" or "".                                        *)
(***************************************************************************)
EXTENDS Integers

CONSTANTS Lines,      \* command lines: functions from options to values
          Flags,      \* their --option and --nooption: for each Boolean option a subset of {"pos", "neg"}
          ConfigFiles \* configuration files: functions from options to values

VARIABLES
    stage,  \* "line", "file", "strings", "load", "handlers", "running", "exited", "failed" or "crashed"
    line,   \* options of the command line, and their defaults
    flags,
    file,   \* options of the configuration file
    cfg,    \* the value of each option
    inp     \* the input handler: none, or the format that it reads

configVars == <<stage, line, flags, file, cfg, inp>>

-------------------------------------------------------------------------------
\* The values of f, and those of g for what f does not say.
Over(f, g) == [x \in DOMAIN f \cup DOMAIN g |-> IF x \in DOMAIN f THEN f[x] ELSE g[x]]

(***************************************************************************)
(* The options.                                                            *)
(***************************************************************************)
Levels == <<"text", "ident", "token", "splitted", "morfo", "crf", "tagged",
            "sense", "shallow", "parsed", "dep", "coref", "semgraph">>
Rank(level) == CHOOSE i \in DOMAIN Levels : Levels[i] = level
InputLevels == {"text", "token", "splitted", "morfo", "tagged", "sense", "shallow", "parsed", "dep", "coref"}
OutputLevels == {"ident", "token", "splitted", "morfo", "crf", "tagged", "shallow", "parsed", "dep", "coref", "semgraph"}

\* The names of files, in which variables of the environment are replaced.
FileOptions == {"LangIdentFile", "TokenizerFile", "SplitterFile", "TaggerHMMFile", "TaggerRelaxFile",
                "GrammarFile", "DepTxalaFile", "DepTreelerFile", "CorefFile", "SemGraphExtractorFile",
                "PhoneticsFile", "NECFile", "SenseConfigFile", "UKBConfigFile"}

\* Of the options with --option and --nooption, those that another one depends on.
BooleanOptions == {"ServerMode", "NEClassification", "Phonetics"}

\* Options of the command line that have a value even if they are not given.
LineDefaults == [ServerMaxWorkers |-> 5]

FileDefaults ==
    [ServerMode |-> FALSE, ServerMaxWorkers |-> 5, InputLevel |-> "text", OutputLevel |-> "tagged",
     InputMode |-> "corpus", OutputFormat |-> "freeling", InputFormat |-> "text", Phonetics |-> FALSE,
     NEClassification |-> FALSE, SenseAnnotation |-> "none", Tagger |-> "hmm", DependencyParser |-> "txala"]

Unset == [o \in {"ServerPort"} \cup FileOptions |-> IF o = "ServerPort" THEN 0 ELSE ""]

ConfigInitWith(arguments, signs, settings) ==
    /\ stage = "line"
    /\ line = arguments
    /\ flags = signs
    /\ file = settings
    /\ cfg = Unset
    /\ inp = "none"

ConfigInit == \E arguments \in Lines, signs \in Flags, settings \in ConfigFiles : ConfigInitWith(arguments, signs, settings)

-------------------------------------------------------------------------------
(***************************************************************************)
(* The constructor of config.                                              *)
(***************************************************************************)
\* store and notify: what the command line gives is set now, and set again later.
\* --help and --version end the program; without -f, or with a line that cannot be
\* parsed, it fails.
ParseCommandLine(outcome) ==
    /\ stage = "line"
    /\ stage' = outcome
    /\ line' = Over(line, LineDefaults)
    /\ cfg' = Over(line', cfg)
    /\ UNCHANGED <<flags, file, inp>>

\* Mutant of Notify: the options of the file come last.
NotifyFileLast == Over(file, Over(FileDefaults, Over(line, cfg)))

\* notify goes through all options that have a value, capital letters first: those of
\* the file, then those of the command line, which has defaults of its own.
Notify == Over(line, Over(file, Over(FileDefaults, cfg)))

ParseConfigFile(ok) ==
    /\ stage = "file"
    /\ IF ok
       THEN stage' = "strings" /\ cfg' = Notify
       ELSE stage' = "failed" /\ UNCHANGED cfg
    /\ UNCHANGED <<line, flags, file, inp>>

\* Both signs are ambiguous and have no effect.
SetBooleanOptionCL(signs, value) == IF signs = {"pos"} THEN TRUE ELSE IF signs = {"neg"} THEN FALSE ELSE value

\* ServerMode is set from the command line alone: no --server is a --noserver.
Signs(option) == IF option # "ServerMode" THEN flags[option] ELSE IF "pos" \in flags[option] THEN {"pos"} ELSE {"neg"}

\* Strings to enumerations: unknown levels, modes and formats are fatal, unknown
\* algorithms are replaced.
Translate ==
    /\ stage = "strings"
    /\ IF /\ cfg.InputLevel \in InputLevels
          /\ cfg.OutputLevel \in OutputLevels
          /\ cfg.InputMode \in {"corpus", "doc"}
          /\ cfg.OutputFormat \in {"freeling", "crf", "conll", "train", "xml", "json", "naf"}
          /\ cfg.InputFormat \in {"text", "freeling", "conll", "crf"}
       THEN /\ stage' = "load"
            /\ LET known == Over([b \in BooleanOptions |-> SetBooleanOptionCL(Signs(b), cfg[b])], cfg)
               IN  cfg' = [known EXCEPT
                    !.Tagger = IF @ \in {"hmm", "relax"} THEN @ ELSE "hmm",
                    !.SenseAnnotation = IF @ \in {"all", "mfs", "ukb"} THEN @ ELSE "none",
                    !.DependencyParser = IF @ \in {"txala", "treeler"} THEN @ ELSE "txala"]
       ELSE stage' = "failed" /\ UNCHANGED cfg
    /\ UNCHANGED <<line, flags, file, inp>>

-------------------------------------------------------------------------------
(***************************************************************************)
(* load_config.                                                            *)
(***************************************************************************)
Beyond(c, level) == Rank(c.InputLevel) > Rank(level)
Below(c, level)  == Rank(c.OutputLevel) < Rank(level)
Outside(c, level) == Beyond(c, level) \/ Below(c, level)

\* Modules that the requested output makes necessary, and a port that is not.
Activated(c) ==
    [c EXCEPT !.ServerPort = IF c.ServerMode THEN @ ELSE 0,
              !.NEClassification = @ \/ ~Below(c, "coref") \/ c.OutputLevel = "crf",
              !.SenseAnnotation = IF Below(c, "coref") THEN @ ELSE "ukb"]

\* Files of modules that are known not to be used.
Unneeded(c) ==
    {f \in FileOptions :
        \/ f = "TokenizerFile" /\ Outside(c, "token")
        \/ f = "SplitterFile" /\ Outside(c, "splitted")
        \/ f = "TaggerHMMFile" /\ (c.Tagger # "hmm" \/ Outside(c, "tagged"))
        \/ f = "TaggerRelaxFile" /\ (c.Tagger # "relax" \/ Outside(c, "tagged"))
        \/ f = "GrammarFile" /\ Outside(c, "shallow") /\ Outside(c, "dep")
        \/ f = "DepTxalaFile" /\ ((c.DependencyParser # "txala" /\ Below(c, "coref")) \/ Beyond(c, "dep") \/ Below(c, "parsed"))
        \/ f = "DepTreelerFile" /\ ((c.DependencyParser # "treeler" /\ Below(c, "coref")) \/ Outside(c, "dep"))
        \/ f = "CorefFile" /\ (Beyond(c, "dep") \/ Below(c, "coref"))
        \/ f = "SemGraphExtractorFile" /\ (Beyond(c, "coref") \/ Below(c, "semgraph"))
        \/ f = "PhoneticsFile" /\ ~c.Phonetics
        \/ f = "NECFile" /\ ~c.NEClassification
        \/ f = "SenseConfigFile" /\ c.SenseAnnotation = "none"
        \/ f = "UKBConfigFile" /\ c.SenseAnnotation # "ukb"}

DropUnneeded(c) == Over([f \in Unneeded(c) |-> ""], c)

\* Formats and levels that need the whole document.
Documentwise(c) == [c EXCEPT !.InputMode = IF c.OutputFormat = "naf" \/ ~Below(c, "coref") THEN "doc" ELSE @]

\* What load_config reports as an error.
Rejected(c) ==
    \/ c.ServerMode /\ c.ServerPort = 0
    \/ c.OutputLevel = "ident" /\ c.LangIdentFile = ""
    \/ Rank(c.InputLevel) > Rank(c.OutputLevel)
    \/ c.InputFormat = "freeling" /\ (Rank(c.InputLevel) < Rank("splitted") \/ Beyond(c, "sense"))
    \/ c.InputFormat = "conll" /\ Rank(c.InputLevel) < Rank("tagged")
    \/ c.InputFormat = "text" /\ c.InputLevel # "text"

\* Mutant of LoadConfig: files are dropped before modules are activated.
LoadConfigDropFirst ==
    /\ stage = "load"
    /\ cfg' = Documentwise(Activated(DropUnneeded(cfg)))
    /\ stage' = IF Rejected(cfg) THEN "failed" ELSE "handlers"
    /\ UNCHANGED <<line, flags, file, inp>>

LoadConfig ==
    /\ stage = "load"
    /\ cfg' = Documentwise(DropUnneeded(Activated(cfg)))
    /\ stage' = IF Rejected(cfg) THEN "failed" ELSE "handlers"
    /\ UNCHANGED <<line, flags, file, inp>>

-------------------------------------------------------------------------------
(***************************************************************************)
(* main.                                                                   *)
(***************************************************************************)
\* Mutant of CreateInputHandler: one handler for columns.
CreateInputHandlerColumns(c) == IF c.InputFormat = "freeling" THEN "freeling" ELSE "none"

\* create_input_handler: text needs none, and there is none for crf.
CreateInputHandler(c) == IF c.InputFormat \in {"conll", "freeling"} THEN c.InputFormat ELSE "none"

\* The objects, and the loop that will use them: language identification, or analysis
\* of text or of columns.
Enter ==
    /\ stage = "handlers"
    /\ inp' = CreateInputHandler(cfg)
    /\ stage' = IF cfg.OutputLevel # "ident" /\ cfg.InputFormat # "text" /\ inp' = "none" THEN "crashed" ELSE "running"
    /\ UNCHANGED <<line, flags, file, cfg>>

ConfigNext ==
    \/ \E outcome \in {"file", "exited", "failed"} : ParseCommandLine(outcome)
    \/ \E ok \in BOOLEAN : ParseConfigFile(ok)
    \/ Translate
    \/ LoadConfig
    \/ Enter

ConfigSpec == ConfigInit /\ [][ConfigNext]_configVars

-------------------------------------------------------------------------------
(***************************************************************************)
(* Properties.                                                             *)
(***************************************************************************)
\* A configuration that is accepted can be run: whatever loop main enters, it has the
\* handler, the port and the file that it will use, and the levels are in order.  The
\* input format crf, which no help text names, is accepted and has no handler.
Runnable ==
    /\ stage = "crashed" => cfg.InputFormat = "crf"
    /\ stage = "running" =>
        /\ cfg.ServerMode <=> cfg.ServerPort # 0
        /\ Rank(cfg.InputLevel) <= Rank(cfg.OutputLevel)
        /\ cfg.OutputLevel = "ident" => cfg.LangIdentFile # "" /\ cfg.InputLevel = "text"
        /\ cfg.OutputLevel # "ident" /\ inp = "none" => cfg.InputLevel = "text"
        /\ ~Below(cfg, "coref") => cfg.InputMode = "doc"

\* What a user gives is obeyed: an option of the command line, else of the file, else
\* its default, except where load_config has to change it and for the three of the
\* server, that the file sets in vain.
OptionsObeyed ==
    stage = "load" =>
        /\ \A option \in {"InputLevel", "OutputLevel", "InputMode", "OutputFormat", "InputFormat", "ServerPort"} \cup FileOptions :
              cfg[option] = IF option \in DOMAIN line THEN line[option]
                            ELSE IF option \in DOMAIN file THEN file[option]
                            ELSE Over(FileDefaults, Unset)[option]
        /\ \A option \in BooleanOptions \ {"ServerMode"} :
              cfg[option] = CASE flags[option] = {"pos"} -> TRUE
                              [] flags[option] = {"neg"} -> FALSE
                              [] OTHER -> Over(file, FileDefaults)[option]
        /\ (cfg.ServerMode <=> "pos" \in flags["ServerMode"])

\* A file is needed by a module between the levels of input and output, if that module
\* is chosen or required by another one.
Needed(c) ==
    LET Done(level) == Rank(c.InputLevel) < Rank(level) /\ ~Below(c, level)
    IN  {f \in FileOptions :
            \/ f = "TokenizerFile" /\ Done("token")
            \/ f = "SplitterFile" /\ Done("splitted")
            \/ f = "TaggerHMMFile" /\ Done("tagged") /\ c.Tagger = "hmm"
            \/ f = "TaggerRelaxFile" /\ Done("tagged") /\ c.Tagger = "relax"
            \/ f = "GrammarFile" /\ Done("shallow")
            \/ f = "DepTxalaFile" /\ Done("dep") /\ (c.DependencyParser = "txala" \/ Done("coref"))
            \/ f = "DepTreelerFile" /\ Done("dep") /\ (c.DependencyParser = "treeler" \/ Done("coref"))
            \/ f = "CorefFile" /\ Done("coref")
            \/ f = "SemGraphExtractorFile" /\ Done("semgraph")
            \/ f = "NECFile" /\ (Done("coref") \/ c.OutputLevel = "crf" \/ c.NEClassification)
            \/ f = "UKBConfigFile" /\ (Done("coref") \/ c.SenseAnnotation = "ukb")
            \/ f = "SenseConfigFile" /\ Done("coref")}

\* The files as the user gives them.
Given == Over(line, Over(file, Unset))

\* No file that was given and is needed gets lost when load_config drops files: what
\* it switches on is switched on before.
NeededFilesKept ==
    stage = "running" => \A f \in Needed(cfg) : Given[f] = "given" => cfg[f] = "given"
===============================================================================
