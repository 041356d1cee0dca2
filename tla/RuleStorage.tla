------------------------------- MODULE RuleStorage -------------------------------
(***************************************************************************)
(* The configuration, rules and lexica of translate.pm, run after run.     *)
(* Each block of the script reads its rules from a file, which an option   *)
(* or the configuration names, and keeps them in the directory storage;    *)
(* without both it uses those that are kept there, under one name for both *)
(* directions.                                                             *)
(*                                                                         *)
(* Rules are abstracted to the name of the file they were read from.       *)
(***************************************************************************)
EXTENDS TranslationFormats, SequenceFilters

CONSTANTS RunOptions, \* the command lines
          Configs,    \* the configuration files, by their names
          MaxRuns     \* bound: runs of the script

NoConfig == ""        \* no --config, or none that can be read
Torn == "torn"        \* what a run left that was killed while it wrote

OptionNames == {"config", "direction", "informat", "outformat", "rules", "noreord", "noalt", "predictTopic"}

(* A configuration that can be read names its direction; files have other  *)
(* names than the words that the script has for where its rules are.       *)
ASSUME StorageAssumption ==
    /\ \A c \in DOMAIN Configs :
          /\ c \notin {NoConfig, "storable", Torn}
          /\ Configs[c].direction \in {"esqu", "esde"}
          /\ \A f \in DOMAIN Configs[c].rules : Configs[c].rules[f] # Torn
    /\ \A o \in RunOptions :
          /\ DOMAIN o = OptionNames
          /\ o.config \in {NoConfig} \cup DOMAIN Configs
          /\ o.informat \in Formats
          /\ \A f \in DOMAIN o.rules : o.rules[f] # Torn

Lexica == {"NounLex", "VerbLex", "verbLemClasses"}

\* A block that uses rules: the file of storage, and the format it leads to.
Block(file, at) == [file |-> file, at |-> at]
Blocks == <<
    Block("NounLex", "rdisamb"), Block("VerbLex", "rdisamb"), Block("verbLemClasses", "svm"),
    Block("SemLex", "semtags"), Block("LexSelRules", "lexdisamb"), Block("MorphSelRules", "morphdisamb"),
    Block("BilexProbabilities", "statlexdisamb"), Block("PrepSelRules", "prepdisamb"),
    Block("VerbPrepSelRules", "vprepdisamb"), Block("IntraTransferRules", "intraTrans"),
    Block("InterTransferRules", "interTrans"), Block("nodes2chunksRules", "node2chunk"),
    Block("child2siblingRules", "child2sibling"), Block("interchunkOrderRules", "interOrder"),
    Block("intrachunkOrderRules", "intraOrder"), Block("NounLex", "intraOrder") >>

Files == {Blocks[i].file : i \in DOMAIN Blocks}
Configuration == Block("config.bin", "plain")
Topic == Block("NounLex", "intraOrder")

(* The blocks that a run with options o gets to: the lexica are read for   *)
(* any of the blocks up to svm.                                            *)
Entered(o) ==
    LET Until(b) == IF b.at = "rdisamb" THEN "svm" ELSE b.at
    IN {b \in ToSet(Blocks) :
         /\ Number[o.informat] < Number[Until(b)]
         /\ o.outformat \in Stages(o) => Number[b.at] <= Number[o.outformat]
         /\ b.at \in EsquOnly => o.direction = "esqu"
         /\ b.at \in EsdeOnly => o.direction = "esde"
         /\ b.at = "statlexdisamb" => ~o.noalt
         /\ b.at \in {"interOrder", "intraOrder"} /\ b # Topic => ~o.noreord
         /\ b = Topic => o.direction = "esqu" /\ o.predictTopic}

Reads(o) == Only(Blocks, Entered(o))

VARIABLES
    running, \* whether a run is going on
    died,    \* whether the last one ended in a die
    runs,    \* how many there were
    options, \* the command line of the last run
    config,  \* %config
    reads,   \* the blocks it still has to get to
    storage, \* the files of the directory storage
    used,    \* history: for each block so far, the rules that it used
    told     \* history: the same of the last run that was given a configuration or rules

storageVars == <<running, died, runs, options, config, reads, storage, used, told>>

Kept(f) == f \in DOMAIN storage /\ storage[f] # Torn
Keep(f, content) == storage' = [g \in DOMAIN storage \cup {f} |-> IF g = f THEN content ELSE storage[g]]
With(f, x, y) == [z \in DOMAIN f \cup {x} |-> IF z = x THEN y ELSE f[z]]

Told(o) == o.config # NoConfig \/ o.rules # <<>>

StorageInit ==
    /\ running = FALSE /\ died = FALSE /\ runs = 0
    /\ options \in RunOptions
    /\ config = NoConfig
    /\ reads = <<>>
    /\ storage = <<>> /\ used = <<>> /\ told = <<>>

(***************************************************************************)
(* A configuration that is given is kept first of all; without one, the    *)
(* kept one is used.  The direction is that of the option, or else that of *)
(* the configuration.                                                      *)
(***************************************************************************)
StartRun(o) ==
    LET read == IF o.config # NoConfig THEN o.config
                ELSE IF Kept("config.bin") THEN storage["config.bin"] ELSE NoConfig
        direction == IF o.direction # "" THEN o.direction
                     ELSE IF read = NoConfig THEN "" ELSE Configs[read].direction
    IN /\ ~running /\ runs < MaxRuns
       /\ runs' = runs + 1
       /\ options' = [o EXCEPT !.direction = direction]
       /\ config' = read
       /\ running' = (direction # "")
       /\ died' = (direction = "")
       /\ reads' = IF direction = "" THEN <<>>
                   ELSE IF o.config = NoConfig THEN Reads(options')
                   ELSE <<Configuration>> \o Reads(options')
       /\ used' = IF o.config = NoConfig THEN With(<<>>, Configuration, read) ELSE <<>>
       /\ told' = IF Told(o) THEN used' ELSE told
       /\ UNCHANGED storage

(***************************************************************************)
(* Where a block has its rules from: a file, the storage ("storable"), or  *)
(* nowhere ("").  An option comes before the configuration, but not for    *)
(* the lexica, and the topics use the option only, in a run that starts    *)
(* after svm.                                                              *)
(***************************************************************************)
Option(f) == IF f \in DOMAIN options.rules THEN options.rules[f] ELSE "storable"
Configured(f) == LET rules == Configs[config].rules IN IF f \in DOMAIN rules THEN rules[f] ELSE ""
Source(b) ==
    CASE b = Configuration -> options.config
      [] b = Topic -> IF Number[options.informat] > Number["svm"] THEN Option(b.file) ELSE "storable"
      [] b.file \in Lexica /\ b # Topic -> IF options.config # NoConfig THEN Configured(b.file) ELSE Option(b.file)
      [] OTHER -> IF b.file \in DOMAIN options.rules \/ options.config = NoConfig
                  THEN Option(b.file) ELSE Configured(b.file)

FromFile(b) == Source(b) \notin {"", "storable"}

Using(b, rules) ==
    /\ reads' = Tail(reads)
    /\ used' = With(used, b, rules)
    /\ told' = IF Told(options) THEN used' ELSE told
    /\ UNCHANGED <<running, died, runs, options, config>>

\* A bug that ReadRules does not have: rules of an option are for this run only.
ReadRulesForThisRun ==
    /\ running /\ reads # <<>>
    /\ LET b == Head(reads)
       IN /\ FromFile(b)
          /\ Using(b, Source(b))
          /\ IF b.file \in DOMAIN options.rules THEN UNCHANGED storage ELSE Keep(b.file, Source(b))

ReadRules ==
    /\ running /\ reads # <<>>
    /\ LET b == Head(reads)
       IN /\ FromFile(b)
          /\ Using(b, Source(b))
          /\ Keep(b.file, Source(b))

RetrieveRules ==
    /\ running /\ reads # <<>>
    /\ LET b == Head(reads)
       IN /\ Source(b) = "storable" /\ Kept(b.file)
          /\ Using(b, storage[b.file])
    /\ UNCHANGED storage

MissRules ==
    /\ running /\ reads # <<>>
    /\ LET b == Head(reads)
       IN Source(b) = "" \/ (Source(b) = "storable" /\ ~Kept(b.file))
    /\ running' = FALSE
    /\ died' = TRUE
    /\ UNCHANGED <<runs, options, config, reads, storage, used, told>>

EndRun ==
    /\ running /\ reads = <<>>
    /\ running' = FALSE
    /\ UNCHANGED <<died, runs, options, config, reads, storage, used, told>>

\* The run is killed, maybe while it writes a file of storage.
KillRun ==
    /\ running
    /\ running' = FALSE
    /\ \/ UNCHANGED storage
       \/ /\ reads # <<>> /\ FromFile(Head(reads))
          /\ Keep(Head(reads).file, Torn)
    /\ UNCHANGED <<died, runs, options, config, reads, used, told>>

StorageNext ==
    \/ \E o \in RunOptions : StartRun(o)
    \/ ReadRules \/ RetrieveRules \/ MissRules \/ EndRun \/ KillRun

StorageSpec == StorageInit /\ [][StorageNext]_storageVars

(***************************************************************************)
(* The help text: "--config|-c: indicate config (necessary for first run,  *)
(* later optional)".  Runs without --config and without options for rules  *)
(* use what the last run with some has used, and find all of it, whatever  *)
(* runs in the other direction, broken off or in part there were before.   *)
(***************************************************************************)
ConfigLaterOptional ==
    ~Told(options) =>
        /\ \A b \in DOMAIN used \cap DOMAIN told : used[b] = told[b]
        /\ died => IF reads # <<>> THEN Head(reads) \notin DOMAIN told
                   ELSE Configuration \in DOMAIN told => told[Configuration] = NoConfig
===============================================================================
