------------------------- MODULE MCTranslatePipeline -------------------------
(* Instances of TranslatePipeline: one run with every set of options beside *)
(* one that stops at once, and pairs of runs that work at the same time;    *)
(* and RuleStorage with runs of both directions one after the other.  Each  *)
(* behaviour is one of TranslatePipeline or one of RuleStorage.             *)
EXTENDS TranslatePipeline, RuleStorage, TLC

CONSTANTS r1, r2,
          Parts   \* of {"pipeline", "storage"}: the way of the texts, or that of the rules

VARIABLE part

Opt(d, i, o, f, m) ==
    [direction |-> d, informat |-> i, outformat |-> o, file |-> f, useMorphModel |-> m]

WrongDirection == Opt("esqu", "words", "words", FALSE, 0)

OneRun == {r1 :> o @@ r2 :> WrongDirection : o \in Options}

(* Options that between them use every temporary file and every source.    *)
Pairwise ==
    { Opt("esqu", "senttok", "nbest", FALSE, 0), Opt("esqu", "plain", "conll", TRUE, 0),
      Opt("esqu", "conll", "coref", TRUE, 0),    Opt("esqu", "svm", "morph", FALSE, 1),
      Opt("esqu", "svm", "nbest", TRUE, 1),      Opt("esde", "conll2xml", "mwsplit", FALSE, 0),
      Opt("esde", "lextrans", "words", TRUE, 0), Opt("esde", "words", "nbest", FALSE, 0),
      Opt("esqu", "morph", "nbest", TRUE, 1),    Opt("esde", "vprefix", "morph", FALSE, 0) }

TwoRuns == {r1 :> o @@ r2 :> p : o \in Pairwise, p \in Pairwise}

AllRuns == OneRun \cup TwoRuns

(* Two translations with the default formats, started together.            *)
SameTime == {[r \in Runs |-> Opt("esqu", "senttok", "nbest", TRUE, 0)]}

(* Configurations as es-qu.cfg, es-de.cfg and translate_vm.cfg, and runs of *)
(* all or some of the blocks with and without options for rules.            *)
RulesOf(names, source) == [f \in names |-> source]
MCConfigs ==
    [esqu |-> [direction |-> "esqu", rules |-> RulesOf(Files \ {"BilexProbabilities", "VerbPrepSelRules"}, "qu")],
     esde |-> [direction |-> "esde", rules |-> RulesOf(Files \ Lexica, "de")],
     vm   |-> [direction |-> "esqu",
               rules |-> [f \in Files |-> IF f \in Lexica THEN "storable" ELSE "vm"]]]

RunWith(c, d, i, o, rules) ==
    [config |-> c, direction |-> d, informat |-> i, outformat |-> o, rules |-> rules,
     noreord |-> FALSE, noalt |-> FALSE, predictTopic |-> FALSE]
PredictingTopics(o) == [o EXCEPT !.predictTopic = TRUE]

MCRunOptions ==
    { RunWith("esqu", "", "senttok", "nbest", <<>>),
      PredictingTopics(RunWith("esqu", "", "senttok", "nbest", RulesOf({"NounLex"}, "own"))),
      RunWith("esqu", "", "senttok", "lexdisamb", RulesOf({"LexSelRules"}, "own")),
      RunWith("esde", "", "senttok", "nbest", <<>>),
      RunWith("vm", "", "conll", "nbest", <<>>),
      PredictingTopics(RunWith("", "", "senttok", "nbest", <<>>)),
      PredictingTopics(RunWith("", "", "lextrans", "nbest", RulesOf({"NounLex"}, "own"))),
      RunWith("", "esde", "senttok", "nbest", <<>>),
      [RunWith("", "esde", "semtags", "nbest", RulesOf({"LexSelRules"}, "own"))
          EXCEPT !.noalt = TRUE, !.noreord = TRUE],
      RunWith("", "esqu", "senttok", "svm", <<>>),
      RunWith("", "esqu", "senttok", "tagged", RulesOf({"NounLex"}, "own")) }

PipelineOver ==
    /\ opts = [r \in Runs |-> WrongDirection]
    /\ stage = [r \in Runs |-> "words"] /\ step = [r \in Runs |-> "work"]
    /\ status = [r \in Runs |-> "died"] /\ data = [r \in Runs |-> Nothing]
    /\ stdin = data /\ output = data /\ tmp = [f \in TmpFiles |-> Nothing]

StorageOver ==
    /\ StorageInit
    /\ options = CHOOSE o \in RunOptions : TRUE

MCInit ==
    /\ part \in Parts
    /\ \/ part = "pipeline" /\ Init /\ StorageOver
       \/ part = "storage" /\ StorageInit /\ PipelineOver

MCNext ==
    /\ UNCHANGED part
    /\ \/ part = "pipeline" /\ Next /\ UNCHANGED storageVars
       \/ part = "storage" /\ StorageNext /\ UNCHANGED vars

MCSpec == MCInit /\ [][MCNext]_<<part, vars, storageVars>>
=============================================================================
