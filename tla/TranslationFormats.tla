--------------------------- MODULE TranslationFormats ---------------------------
(***************************************************************************)
(* The formats of src/MT_systems/translate.pm, and the blocks of the       *)
(* script, each of which leads to one of them.                             *)
(***************************************************************************)
EXTENDS Integers, Sequences, FiniteSets

(* %mapInputFormats, in the order of its numbers.                          *)
Order == << "plain", "senttok", "tagged", "conll", "parsed", "conll2xml",
            "rdisamb", "coref", "vdisamb", "svm", "lextrans", "semtags",
            "lexdisamb", "morphdisamb", "statlexdisamb", "prepdisamb",
            "vprepdisamb", "mwsplit", "pronoun", "future", "vprefix",
            "intraTrans", "interTrans", "node2chunk", "child2sibling",
            "interOrder", "intraOrder", "morph", "words", "nbest" >>

Formats == {Order[i] : i \in DOMAIN Order}

Number == [f \in Formats |-> CHOOSE i \in DOMAIN Order : Order[i] = f]

EsquOnly == {"rdisamb", "coref", "vdisamb", "svm"}
EsdeOnly == {"statlexdisamb", "vprepdisamb", "mwsplit", "pronoun", "future", "vprefix"}

(* The blocks of the script that are entered with options o.  The last one *)
(* has no condition.                                                       *)
Stages(o) ==
    {f \in Formats \ {"plain", "senttok"} :
        /\ Number[o.informat] < Number[f]
        /\ f \in EsquOnly => o.direction = "esqu"
        /\ f \in EsdeOnly => o.direction = "esde"}
===============================================================================
