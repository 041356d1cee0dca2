--------------------------- MODULE TranslatePipeline ---------------------------
(***************************************************************************)
(* The main program of src/MT_systems/translate.pm: a text passes through  *)
(* a fixed order of formats, entering at --informat and leaving at         *)
(* --outformat.  Every stage is one block of the script: it takes the text *)
(* from the stage before it, from --file or from standard input, partly by *)
(* way of files with fixed names in the directory tmp, which all runs of   *)
(* the script share and which keep what an older run left there.           *)
(*                                                                         *)
(* A text is abstracted to whose it is and which stages it went through.   *)
(* A store of a temporary file is one step, and so is a read of it.        *)
(***************************************************************************)
EXTENDS TranslationFormats, SequenceFilters

CONSTANTS Runs,        \* the runs of the script
          Older,       \* a run that ended before these were started
          Nobody,      \* the owner of an empty file or an undefined variable
          OptionSets   \* the options the runs may be given: functions on Runs

(* useMorphModel is the number the script compares with 0 and 1: left out  *)
(* of the command line and of the configuration, it compares as 0.         *)
Options == [ direction : {"esqu", "esde"}, informat : Formats \ {"nbest"},
             outformat : Formats \ {"plain"}, file : BOOLEAN,
             useMorphModel : {0, 1} ]

ASSUME OptionsAssumption == OptionSets \subseteq [Runs -> Options]
ASSUME NamesAssumption   == Older \notin Runs \cup {Nobody} /\ Nobody \notin Runs

(* The informat for which a block reads --file or standard input.          *)
From(o) ==
    LET esqu == o.direction = "esqu" IN
    [ conll |-> "tagged",      parsed |-> "conll",     conll2xml |-> "parsed",
      rdisamb |-> "conll2xml", coref |-> "rdisamb",    vdisamb |-> "coref",
      svm |-> "vdisamb",       lextrans |-> IF esqu THEN "svm" ELSE "conll2xml",
      semtags |-> "lextrans",  lexdisamb |-> "semtags",
      morphdisamb |-> "lexdisamb",  statlexdisamb |-> "morphdisamb",
      prepdisamb |-> IF esqu THEN "morphdisamb" ELSE "statlexdisamb",
      vprepdisamb |-> "prepdisamb", mwsplit |-> "vprepdisamb",
      pronoun |-> "mwsplit",   future |-> "pronoun",   vprefix |-> "future",
      intraTrans |-> IF esqu THEN "prepdisamb" ELSE "vprefix",
      interTrans |-> "intraTrans",  node2chunk |-> "interTrans",
      child2sibling |-> "node2chunk", interOrder |-> "child2sibling",
      intraOrder |-> "interOrder",  morph |-> "intraOrder",  words |-> "morph",
      nbest |-> IF esqu /\ o.useMorphModel = 1 THEN "morph" ELSE "words" ]

(* Whether the block of stage s starts by filling a temporary file.        *)
Stores(o, s) ==
    \/ s = "tagged" /\ ~o.file
    \/ s = "parsed" /\ ~(o.informat = "conll" /\ o.file)
    \/ s = "lextrans" /\ ~(o.informat = "svm" /\ o.file)
    \/ s \in {"words", "nbest"} /\ o.informat = From(o)[s] /\ ~o.file

TmpFiles == {"txt", "conll", "xml", "morph", "morphword", "words"}

Nothing == [of |-> Nobody, via |-> <<>>]

(* What stage s makes of a text; of an empty one it makes an empty one.    *)
Translated(text, s) ==
    IF text = Nothing THEN Nothing ELSE [text EXCEPT !.via = Append(@, s)]

VARIABLES opts,     \* the options of each run
          stage,    \* the block it is in
          step,     \* where in the block: "store", "work", "clean" or "print"
          status,   \* "checking", "running", "done", "refused" or "died"
          data,     \* CONLL, conllLines, CONLL2 or dom: the text it holds
          stdin,    \* what is left on its standard input
          output,   \* what it printed on its standard output
          tmp       \* the files of the directory tmp

vars == <<opts, stage, step, status, data, stdin, output, tmp>>

Given(r) == [of |-> r, via |-> <<opts[r].informat>>]

Init ==
    /\ opts \in OptionSets
    /\ stage = [r \in Runs |-> opts[r].informat]
    /\ step = [r \in Runs |-> "work"]
    /\ status = [r \in Runs |-> "checking"]
    /\ data = [r \in Runs |-> Nothing]
    /\ stdin = [r \in Runs |-> IF opts[r].file THEN Nothing ELSE Given(r)]
    /\ output = [r \in Runs |-> Nothing]
    /\ tmp = [f \in TmpFiles |-> [of |-> Older, via |-> <<>>]]

(***************************************************************************)
(* Going from block to block.                                              *)
(***************************************************************************)
At(r, s, p) == status[r] = "running" /\ stage[r] = s /\ step[r] = p

NextStage(o, s) ==
    LET later == {t \in Stages(o) : Number[s] < Number[t]}
    IN CHOOSE t \in later : \A u \in later : Number[t] <= Number[u]

EnterNextStage(r) ==
    LET next == NextStage(opts[r], stage[r])
    IN /\ stage' = [stage EXCEPT ![r] = next]
       /\ step' = [step EXCEPT ![r] = IF Stores(opts[r], next) THEN "store" ELSE "work"]

Stop(r, how) == status' = [status EXCEPT ![r] = how] /\ UNCHANGED <<stage, step>>

Emit(r, text) == output' = [output EXCEPT ![r] = text]

(* The end of a block that produced a text: print it and exit if it has    *)
(* the format asked for, or go on with it.                                 *)
Finish(r, text) ==
    /\ data' = [data EXCEPT ![r] = text]
    /\ IF opts[r].outformat = stage[r]
       THEN Emit(r, text) /\ Stop(r, "done")
       ELSE EnterNextStage(r) /\ UNCHANGED <<status, output>>
    /\ UNCHANGED opts

Die(r) == Stop(r, "died") /\ UNCHANGED <<opts, data, output>>

CheckFormats(r) ==
    /\ status[r] = "checking"
    /\ IF Number[opts[r].informat] >= Number[opts[r].outformat]
       THEN Stop(r, "died")
       ELSE EnterNextStage(r) /\ status' = [status EXCEPT ![r] = "running"]
    /\ UNCHANGED <<opts, data, stdin, output, tmp>>

(* "read file or stdin" at the start of a block.                           *)
Input(r) == IF opts[r].file THEN Given(r) ELSE stdin[r]

ConsumesInput(r) ==
    stdin' = [stdin EXCEPT ![r] = IF opts[r].file THEN @ ELSE Nothing]

Store(r, f, text) ==
    /\ tmp' = [tmp EXCEPT ![f] = text]
    /\ step' = [step EXCEPT ![r] = "work"]
    /\ UNCHANGED <<opts, stage, status, data, output>>

StoreInput(r, f) == Store(r, f, stdin[r]) /\ stdin' = [stdin EXCEPT ![r] = Nothing]

(***************************************************************************)
(* Analysis: the blocks tagged, conll, parsed and conll2xml.               *)
(***************************************************************************)
StoreText(r) == At(r, "tagged", "store") /\ StoreInput(r, "txt")

Tag(r) ==
    /\ At(r, "tagged", "work")
    /\ Finish(r, Translated(IF opts[r].file THEN Given(r) ELSE tmp["txt"], "tagged"))
    /\ UNCHANGED <<stdin, tmp>>

(* conll and conll2xml convert what the pipe before them yields, or input. *)
Convert(r, s) ==
    /\ s \in {"conll", "conll2xml"}
    /\ At(r, s, "work")
    /\ IF opts[r].informat = From(opts[r])[s]
       THEN Finish(r, Translated(Input(r), s)) /\ ConsumesInput(r)
       ELSE Finish(r, Translated(data[r], s)) /\ UNCHANGED stdin
    /\ UNCHANGED tmp

StoreConll(r) ==
    /\ At(r, "parsed", "store")
    /\ IF opts[r].informat = "conll"
       THEN StoreInput(r, "conll")
       ELSE Store(r, "conll", data[r]) /\ UNCHANGED stdin

Parse(r) ==
    /\ At(r, "parsed", "work")
    /\ Finish(r, Translated(IF Stores(opts[r], "parsed") THEN tmp["conll"] ELSE Given(r),
                            "parsed"))
    /\ UNCHANGED <<stdin, tmp>>

(***************************************************************************)
(* The blocks that change the XML document in memory.  A document that     *)
(* was never made, or is made of nothing, is the end of the script.        *)
(***************************************************************************)
Selection == {"semtags", "lexdisamb", "morphdisamb", "prepdisamb"}
SyntacticTransfer == {"intraTrans", "interTrans", "node2chunk", "child2sibling"}
Ordering == {"interOrder", "intraOrder"}

TransformedIn == EsquOnly \cup Selection \cup EsdeOnly \cup SyntacticTransfer \cup Ordering

TransformReadingAgain(r, s) ==
    LET dom == IF opts[r].informat = From(opts[r])[s] THEN Input(r) ELSE stdin[r]
    IN /\ At(r, s, "work")
       /\ IF dom = Nothing THEN Die(r) ELSE Finish(r, Translated(dom, s))
       /\ ConsumesInput(r)
       /\ UNCHANGED tmp

TransformUnchecked(r, s) ==
    /\ At(r, s, "work")
    /\ IF opts[r].informat = From(opts[r])[s]
       THEN Finish(r, Translated(Input(r), s)) /\ ConsumesInput(r)
       ELSE Finish(r, data[r]) /\ UNCHANGED stdin
    /\ UNCHANGED tmp

Transform(r, s) ==
    LET reads == opts[r].informat = From(opts[r])[s]
        dom == IF reads THEN Input(r) ELSE data[r]
    IN /\ At(r, s, "work")
       /\ IF dom = Nothing THEN Die(r) ELSE Finish(r, Translated(dom, s))
       /\ IF reads THEN ConsumesInput(r) ELSE UNCHANGED stdin
       /\ UNCHANGED tmp

(* tmp.xml is opened, and so emptied, before an undefined document fails.  *)
StoreXml(r) ==
    /\ At(r, "lextrans", "store")
    /\ IF opts[r].informat = From(opts[r])["lextrans"]
       THEN StoreInput(r, "xml")
       ELSE /\ IF data[r] = Nothing
               THEN Die(r) /\ tmp' = [tmp EXCEPT !["xml"] = Nothing]
               ELSE Store(r, "xml", data[r])
            /\ UNCHANGED stdin

TransferLexically(r) ==
    LET xml == IF Stores(opts[r], "lextrans") THEN tmp["xml"] ELSE Given(r)
    IN /\ At(r, "lextrans", "work")
       /\ IF xml = Nothing THEN Die(r) ELSE Finish(r, Translated(xml, "lextrans"))
       /\ UNCHANGED <<stdin, tmp>>

(***************************************************************************)
(* Morphological generation and ranking.                                   *)
(***************************************************************************)
MorphFile(r) == IF opts[r].informat = "morph" /\ opts[r].file THEN Given(r) ELSE tmp["morph"]

(* xml2morph and outputGermanMorph write tmp.morph for the later blocks.   *)
GenerateMorph(r) ==
    LET reads == opts[r].informat = From(opts[r])["morph"]
        dom == IF reads THEN Input(r) ELSE data[r]
    IN /\ At(r, "morph", "work")
       /\ IF reads THEN ConsumesInput(r) ELSE UNCHANGED stdin
       /\ IF dom = Nothing
          THEN /\ Die(r)
               /\ IF reads THEN UNCHANGED tmp ELSE tmp' = [tmp EXCEPT !["morph"] = Nothing]
          ELSE /\ tmp' = [tmp EXCEPT !["morph"] = Translated(dom, "morph")]
               /\ data' = [data EXCEPT ![r] = dom]
               /\ IF opts[r].outformat = "morph"
                  THEN step' = [step EXCEPT ![r] = "print"] /\ UNCHANGED stage
                  ELSE EnterNextStage(r)
               /\ UNCHANGED <<opts, status, output>>

StoreMorph(r) == At(r, "words", "store") /\ StoreInput(r, "morph")

WroteWords(r) ==
    /\ IF opts[r].outformat = "words"
       THEN step' = [step EXCEPT ![r] = "print"] /\ UNCHANGED stage
       ELSE EnterNextStage(r)
    /\ UNCHANGED <<opts, status, data, stdin, output>>

GenerateWords(r) ==
    /\ At(r, "words", "work")
    /\ opts[r].direction = "esqu" /\ opts[r].useMorphModel = 0
    /\ tmp' = [tmp EXCEPT !["words"] = Translated(MorphFile(r), "words")]
    /\ WroteWords(r)

(* With the model on morphemes there are no words to generate or to print. *)
SkipWords(r) ==
    /\ At(r, "words", "work")
    /\ opts[r].direction = "esqu" /\ opts[r].useMorphModel = 1
    /\ IF opts[r].outformat = "words"
       THEN Stop(r, "refused")
       ELSE EnterNextStage(r) /\ UNCHANGED status
    /\ UNCHANGED <<opts, data, stdin, output, tmp>>

GenerateMorphWord(r) ==
    /\ At(r, "words", "work") /\ opts[r].direction = "esde"
    /\ tmp' = [tmp EXCEPT !["morphword"] = MorphFile(r)]
    /\ step' = [step EXCEPT ![r] = "clean"]
    /\ UNCHANGED <<opts, stage, status, data, stdin, output>>

CleanFstOutput(r) ==
    /\ At(r, "words", "clean")
    /\ tmp' = [tmp EXCEPT !["words"] = Translated(tmp["morphword"], "words")]
    /\ WroteWords(r)

(* "cat $morphfile" or "cat $sentFile", and exit.                          *)
PrintFile(r) ==
    /\ \/ At(r, "morph", "print") /\ Emit(r, tmp["morph"])
       \/ At(r, "words", "print") /\ Emit(r, tmp["words"])
    /\ Stop(r, "done")
    /\ UNCHANGED <<opts, data, stdin, tmp>>

RankedFile(o) == IF o.direction = "esqu" /\ o.useMorphModel = 1 THEN "morph" ELSE "words"

StoreSentences(r) == At(r, "nbest", "store") /\ StoreInput(r, RankedFile(opts[r]))

RankWords(r) ==
    /\ At(r, "nbest", "work")
    /\ Emit(r, Translated(tmp["words"], "nbest"))
    /\ Stop(r, "done")
    /\ UNCHANGED <<opts, data, stdin, tmp>>

(* The last block prints in every case, whatever format was asked for.     *)
Rank(r) ==
    LET given == opts[r].informat = From(opts[r])["nbest"] /\ opts[r].file
        text == IF given THEN Given(r) ELSE tmp[RankedFile(opts[r])]
    IN /\ At(r, "nbest", "work")
       /\ Emit(r, Translated(text, "nbest"))
       /\ Stop(r, "done")
       /\ UNCHANGED <<opts, data, stdin, tmp>>

Analysis(r) ==
    \/ StoreText(r) \/ Tag(r)
    \/ \E s \in {"conll", "conll2xml"} : Convert(r, s)
    \/ StoreConll(r) \/ Parse(r)

Transfer(r) ==
    \/ \E s \in TransformedIn : Transform(r, s)
    \/ StoreXml(r) \/ TransferLexically(r)

Generation(r) ==
    \/ GenerateMorph(r) \/ StoreMorph(r)
    \/ GenerateWords(r) \/ SkipWords(r) \/ GenerateMorphWord(r) \/ CleanFstOutput(r)
    \/ PrintFile(r) \/ StoreSentences(r) \/ Rank(r)

Next == \E r \in Runs : CheckFormats(r) \/ Analysis(r) \/ Transfer(r) \/ Generation(r)

Spec == Init /\ [][Next]_vars

(***************************************************************************)
(* Properties.                                                             *)
(***************************************************************************)
(* The stages that lead to format f, whatever the script does on its way.  *)
Path(o, f) ==
    <<o.informat>> \o
    Only(Order, {s \in Stages(o) : /\ Number[s] <= Number[f]
                                   /\ RankedFile(o) = "morph" => s # "words"})

(* The options for which the script does what its help says: the formats   *)
(* are those of the direction, some block reads the input format, and none *)
(* of the exceptions of the README applies.                                *)
Supported(o) ==
    LET names == {From(o)[s] : s \in DOMAIN From(o) \cap Stages(o)}
    IN /\ Number[o.informat] < Number[o.outformat]
       /\ o.outformat \in Stages(o)
       /\ o.informat \in {"plain", "senttok"} \/ o.informat \in names
       /\ ~(o.direction = "esde" /\ o.informat = "conll2xml" /\ o.file)
       /\ RankedFile(o) = "morph" =>
             /\ "words" \notin {o.informat, o.outformat}
             /\ ~(o.informat = "morph" /\ ~o.file)

(* The temporary files a run with options o writes.                        *)
Writes(o) ==
    LET within == {s \in Stages(o) : Number[s] <= Number[o.outformat]} IN
    {f \in TmpFiles :
        \/ f = "txt" /\ "tagged" \in within /\ Stores(o, "tagged")
        \/ f = "conll" /\ "parsed" \in within /\ Stores(o, "parsed")
        \/ f = "xml" /\ "lextrans" \in within /\ Stores(o, "lextrans")
        \/ f = "morph" /\ ("morph" \in within \/ (o.informat = "morph" /\ ~o.file))
        \/ f = "morphword" /\ "words" \in within /\ o.direction = "esde"
        \/ f = "words" /\ \/ "words" \in within
                          \/ o.informat = "words" /\ ~o.file}

(* Another run stops at once, or has supported options and writes other    *)
(* files.  (One with options that are not supported may write more than it *)
(* should, and then die: to input conll2xml, output rdisamb and direction  *)
(* esde belongs no file at all, yet tmp.xml is emptied.)                   *)
Undisturbed(r) ==
    \A q \in Runs \ {r} :
        \/ Number[opts[q].informat] >= Number[opts[q].outformat]
        \/ Supported(opts[q]) /\ Writes(opts[q]) \cap Writes(opts[r]) = {}

(* A run with supported options, beside runs that write other temporary    *)
(* files, prints its own text after every stage up to the output format,   *)
(* each once and in order: no block is skipped, repeated or fed with       *)
(* another one's input on any of the ways through the script.              *)
OutputIsTranslation ==
    \A r \in Runs :
        Supported(opts[r]) /\ status[r] = "done" /\ Undisturbed(r)
            => output[r] = [of |-> r, via |-> Path(opts[r], opts[r].outformat)]

(* Such a run ends neither in a die nor with a refusal: the document is    *)
(* defined in every block that uses it.                                    *)
NeverDies ==
    \A r \in Runs :
        Supported(opts[r]) /\ Undisturbed(r) => status[r] \notin {"died", "refused"}

(* What an older run left in the directory tmp is printed for one kind of  *)
(* input only: word forms, to be ranked with the model on morphemes.       *)
OlderTextOnlyForWords ==
    \A r \in Runs : output[r].of = Older =>
        RankedFile(opts[r]) = "morph" /\ opts[r].informat = "words"

(* The help text: --file is the file with the text to translate, or else   *)
(* standard input has it.  What a run prints is made of that text.         *)
TranslatesOwnText == \A r \in Runs : status[r] = "done" => output[r].of = r

=============================================================================
