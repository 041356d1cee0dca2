--------------------------- MODULE TranslationProofs ---------------------------
(***************************************************************************)
(* Proofs about the script translate.pm and outputSentences, the program   *)
(* at its end.                                                             *)
(*                                                                         *)
(* TranslatePipeline, for any number of runs with any options: a run with  *)
(* supported options, beside runs that write other files, prints its own   *)
(* text after every stage of its way, each once and in order, and does not *)
(* die.  That the output is right is not inductive: the invariant says in  *)
(* which variable or file the text is at every step of every block, what   *)
(* is still to be read of the input, and where the runs may be.  It rests  *)
(* on two facts about the order of the formats, proved first: the stage    *)
(* that is entered next reads the format that the last one made, and each  *)
(* stage adds itself, and nothing else, to the way of the text.            *)
(*                                                                         *)
(* RuleStorage, for all configurations and any number of runs one after    *)
(* the other: a run that is not told its configuration or its rules has    *)
(* those of the last run that was.  That is not inductive by itself: what  *)
(* a run has used must still be what is kept when it ends, so the          *)
(* invariant says that no file is read by two of its blocks.               *)
(*                                                                         *)
(* SentenceLattice, for all words, cutoffs and lengths of sentences: the   *)
(* matrix of a sentence has every combination of its alternatives, and a   *)
(* sentence is printed as its words tell.  The invariant: while a sentence *)
(* is read, the lattice is what its lines tell, and the alternatives of    *)
(* all words but the last have been multiplied.  The rest is about the     *)
(* operators: that insertTransOpts makes as many rows as the product, one  *)
(* for each way to choose, by induction from the last word back; and that  *)
(* the printers, whose flags carry over from word to word and from one     *)
(* sentence to the next best one, print each word as its neighbours tell.  *)
(***************************************************************************)
EXTENDS TranslatePipeline, RuleStorage, SentenceLattice, SequenceLemmas

-------------------------------------------------------------------------------
(***************************************************************************)
(* The rules that are kept from run to run.                                *)
(***************************************************************************)
BlockSet == ToSet(Blocks)
Nouns == Block("NounLex", "rdisamb")

KeptConfig == IF Kept("config.bin") THEN storage["config.bin"] ELSE NoConfig

\* The last command line, with the direction it got.
OptionsSound ==
    /\ DOMAIN options = OptionNames
    /\ options.config \in {NoConfig} \cup DOMAIN Configs
    /\ options.informat \in Formats
    /\ \A f \in DOMAIN options.rules : options.rules[f] # Torn

\* The lexicon of nouns is read for one of its two blocks at most, and the topics come last;
\* and no block is entered twice.
NounsOnce ==
    /\ Number[options.informat] > Number["svm"] => Nouns \notin DOMAIN used
    /\ Topic \in DOMAIN used => reads = <<>>
    /\ \A i \in 1 .. Len(reads) - 1 : reads[i] # Topic
    /\ Distinct(reads)
    /\ \A i \in 1 .. Len(reads) : reads[i] \notin DOMAIN used

RunTypes ==
    /\ running \in BOOLEAN /\ died \in BOOLEAN /\ (running => ~died)
    /\ reads \in Seq(BlockSet \cup {Configuration})
    /\ options.config = NoConfig => \A i \in 1 .. Len(reads) : reads[i] # Configuration
    /\ Number[options.informat] > Number["svm"] => \A i \in 1 .. Len(reads) : reads[i] # Nouns
    /\ running /\ options.config # NoConfig => config = options.config
    /\ DOMAIN used \subseteq BlockSet \cup {Configuration}
    /\ DOMAIN told \subseteq BlockSet \cup {Configuration}
    /\ Kept("config.bin") => storage["config.bin"] \in DOMAIN Configs

\* What the last run with a configuration or rules has used is what is kept.
KeptAsTold ==
    /\ \A b \in DOMAIN told \ {Configuration} : Kept(b.file) /\ storage[b.file] = told[b]
    /\ Configuration \in DOMAIN told => told[Configuration] = KeptConfig
    /\ Told(options) => told = used

StorageInv == OptionsSound /\ NounsOnce /\ RunTypes /\ KeptAsTold /\ ConfigLaterOptional

-------------------------------------------------------------------------------
\* The blocks before the one of the topics.
Early == SubSeq(Blocks, 1, 15)

LEMMA BlockMembers ==
    /\ \A b \in BlockSet : b = Block(b.file, b.at)
    /\ \A b \in BlockSet : b.file # "config.bin"
    /\ Topic # Nouns /\ Topic # Configuration /\ Nouns # Configuration
    /\ Topic.file = Nouns.file /\ Configuration.file = "config.bin"
    /\ Topic \in BlockSet
BY DEF BlockSet, ToSet, Blocks, Block, Topic, Nouns, Configuration

\* Each file is read by one block, but for the lexicon of nouns.
LEMMA FilesApart ==
    ASSUME NEW b \in BlockSet, NEW d \in BlockSet, b.file = d.file, b # d
    PROVE  (b = Nouns /\ d = Topic) \/ (b = Topic /\ d = Nouns)
BY DEF BlockSet, ToSet, Blocks, Block, Topic, Nouns

LEMMA TopicLast ==
    /\ Early \in Seq(BlockSet \ {Topic})
    /\ Blocks = Append(Early, Topic)
    /\ Blocks \in Seq(BlockSet)
BY DEF Early, BlockSet, ToSet, Blocks, Block, Topic

LEMMA BlocksDistinct == Distinct(Blocks)
BY DEF Distinct, Blocks, Block, Topic

\* What a run gets to, in the order of the script.
LEMMA ReadsAre ==
    ASSUME NEW o
    PROVE  /\ Reads(o) \in Seq(BlockSet)
           /\ \A i \in 1 .. Len(Reads(o)) : Reads(o)[i] \in Entered(o)
           /\ \A i \in 1 .. Len(Reads(o)) - 1 : Reads(o)[i] # Topic
           /\ Distinct(Reads(o))
<1> DEFINE S == Entered(o)
           u == Only(Early, S)
<1>1. Reads(o) \in Seq(BlockSet \cap S)
  BY TopicLast, OnlyMembers DEF Reads
<1>2. u \in Seq((BlockSet \ {Topic}) \cap S)
  BY TopicLast, OnlyMembers
<1>3. Reads(o) = u \/ Reads(o) = Append(u, Topic)
  <2>1. Early \in Seq(BlockSet) /\ Topic \in BlockSet
    <3>1. Topic \in BlockSet
      BY BlockMembers
    <3>2. Early \in Seq(BlockSet)
      BY TopicLast
    <3>3. QED
      BY <3>1, <3>2
  <2> DEFINE e == Early
             B == BlockSet
             x == Topic
  <2> HIDE DEF S, e, B, x
  <2>5. e \in Seq(B) /\ x \in B
    BY <2>1 DEF e, B, x
  <2>6. /\ x \in S => Only(Append(e, x), S) = Append(Only(e, S), x)
        /\ x \notin S => Only(Append(e, x), S) = Only(e, S)
    <3>1. \A s \in Seq(B) : \A y \in B :
            Only(Append(s, y), S) = IF y \in S THEN Append(Only(s, S), y) ELSE Only(s, S)
      BY OnlyOneMore, Zenon
    <3>2. Only(Append(e, x), S) = IF x \in S THEN Append(Only(e, S), x) ELSE Only(e, S)
      BY <2>5, <3>1, Zenon
    <3>3. QED
      BY <3>2, Zenon
  <2>7. /\ Topic \in S => Only(Append(Early, Topic), S) = Append(Only(Early, S), Topic)
        /\ Topic \notin S => Only(Append(Early, Topic), S) = Only(Early, S)
    BY <2>6 DEF e, x
  <2>3. Reads(o) = Only(Append(Early, Topic), S)
    BY TopicLast DEF Reads, S
  <2>4. QED
    BY Zenon, <2>7, <2>3
<1>11. Distinct(Reads(o))
  BY TopicLast, BlocksDistinct, OnlyDistinct DEF Reads
<1> DEFINE r == Reads(o)
           B == BlockSet
<1> HIDE DEF S, u, r, B
<1>4. r \in Seq(B \cap S) /\ u \in Seq((B \ {Topic}) \cap S) /\ (r = u \/ r = Append(u, Topic))
  BY <1>1, <1>2, <1>3 DEF r, B
<1>5. \A i \in 1 .. Len(r) : r[i] \in S
  BY <1>4, ElementOfSeq
<1>6. r \in Seq(B)
  <2>1. Len(r) \in Nat /\ \A i \in 1 .. Len(r) : r[i] \in B
    BY <1>4, ElementOfSeq, LenProperties
  <2>2. QED
    BY <1>4, <2>1, ElementOfSeq
<1>7. \A i \in 1 .. Len(u) : u[i] # Topic
  BY <1>4, ElementOfSeq
<1>8. Len(u) \in Nat
  BY <1>4, LenProperties
<1>9. \A i \in 1 .. Len(r) - 1 : r[i] # Topic
  <2>1. CASE r = u
    <3>1. \A i \in 1 .. Len(r) - 1 : i \in 1 .. Len(u)
      BY <1>8, <2>1
    <3>2. QED
      BY <1>7, <2>1, <3>1
  <2>2. CASE r = Append(u, Topic)
    <3>1. Len(r) = Len(u) + 1 /\ \A i \in 1 .. Len(u) : r[i] = u[i]
      BY <1>4, <2>2, AppendProperties
    <3>2. Len(r) - 1 = Len(u)
      BY <1>8, <3>1
    <3>3. QED
      BY <1>7, <3>1, <3>2
  <2>3. QED
    BY <1>4, <2>1, <2>2
<1>10. QED
  BY <1>5, <1>6, <1>9, <1>11 DEF r, B, S

\* The formats have numbers.
LEMMA Numbered == \A f \in Formats : Number[f] \in Int
<1> SUFFICES ASSUME NEW f \in Formats PROVE Number[f] \in Int
  OBVIOUS
<1>1. \E i \in DOMAIN Order : Order[i] = f
  BY DEF Formats
<1>2. Number[f] = CHOOSE i \in DOMAIN Order : Order[i] = f
  BY DEF Number
<1>3. Number[f] \in DOMAIN Order
  BY <1>1, <1>2
<1>4. DOMAIN Order = 1 .. 30
  BY DEF Order
<1>5. QED
  BY <1>3, <1>4

\* The lexicon of nouns is not read as one if the script starts after svm.
LEMMA NounsBefore ==
    ASSUME NEW o, o.informat \in Formats, Number[o.informat] > Number["svm"]
    PROVE  Nouns \notin Entered(o)
<1>1. "svm" \in Formats
  BY DEF Formats, Order
<1>2. Number["svm"] \in Int /\ Number[o.informat] \in Int
  BY <1>1, Numbered
<1>3. Nouns \in Entered(o) => Number[o.informat] < Number["svm"]
  BY DEF Entered, Nouns, Block
<1>4. QED
  BY <1>2, <1>3

\* The first of the reads, and those after it.
LEMMA NextRead ==
    ASSUME NEW T, NEW r \in Seq(T), r # <<>>
    PROVE  /\ Head(r) \in T /\ Tail(r) \in Seq(T) /\ Len(r) \in Nat \ {0}
           /\ Head(r) = r[1] /\ Len(Tail(r)) = Len(r) - 1
           /\ \A i \in 1 .. Len(Tail(r)) : i + 1 \in 1 .. Len(r) /\ Tail(r)[i] = r[i + 1]
           /\ \A i \in 1 .. Len(Tail(r)) - 1 : i + 1 \in 1 .. Len(r) - 1
           /\ Distinct(r) => Distinct(Tail(r)) /\ \A i \in 1 .. Len(Tail(r)) : Tail(r)[i] # Head(r)
<1>1. /\ Head(r) \in T /\ Tail(r) \in Seq(T) /\ Head(r) = r[1] /\ Len(Tail(r)) = Len(r) - 1
      /\ \A i \in 1 .. Len(Tail(r)) : Tail(r)[i] = r[i + 1]
  BY HeadTailProperties
<1>2. Len(r) \in Nat \ {0}
  BY EmptySeq, LenProperties
<1> DEFINE t == Tail(r)
           h == Head(r)
<1> HIDE DEF t, h
<1>3. Len(t) = Len(r) - 1
  BY <1>1 DEF t
<1>4. \A i \in 1 .. Len(t) : i + 1 \in 1 .. Len(r)
  BY <1>2, <1>3
<1>5. \A i \in 1 .. Len(t) - 1 : i + 1 \in 1 .. Len(r) - 1
  BY <1>2, <1>3
<1>6. h = r[1] /\ \A i \in 1 .. Len(t) : t[i] = r[i + 1]
  BY <1>1 DEF t, h
<1>7. 1 \in 1 .. Len(r) /\ \A i \in 1 .. Len(t) : i + 1 # 1
  BY <1>2, <1>3
<1>8. \A i, j \in 1 .. Len(t) : i + 1 = j + 1 => i = j
  BY <1>2, <1>3
<1>9. ASSUME Distinct(r) PROVE Distinct(t) /\ \A i \in 1 .. Len(t) : t[i] # h
  BY <1>4, <1>6, <1>7, <1>8, <1>9 DEF Distinct
<1>10. QED
  BY <1>1, <1>2, <1>4, <1>5, <1>9 DEF t, h

\* One more before the others.
LEMMA OneBefore ==
    ASSUME NEW T, NEW r \in Seq(T), NEW x \in T, \A i \in 1 .. Len(r) : r[i] # x, Distinct(r),
           NEW y \in T, \A i \in 1 .. Len(r) - 1 : r[i] # y, x # y
    PROVE  /\ <<x>> \o r \in Seq(T) /\ Distinct(<<x>> \o r)
           /\ \A i \in 1 .. Len(<<x>> \o r) : (<<x>> \o r)[i] = x \/ \E j \in 1 .. Len(r) : (<<x>> \o r)[i] = r[j]
           /\ \A i \in 1 .. Len(<<x>> \o r) - 1 : (<<x>> \o r)[i] # y
<1> DEFINE q == <<x>> \o r
<1>1. <<x>> \in Seq(T) /\ Len(<<x>>) = 1 /\ <<x>>[1] = x
  OBVIOUS
<1>2. /\ q \in Seq(T) /\ Len(q) = 1 + Len(r)
      /\ \A i \in 1 .. 1 + Len(r) : q[i] = IF i <= 1 THEN <<x>>[i] ELSE r[i - 1]
  BY <1>1, ConcatProperties
<1>3. Len(r) \in Nat
  BY LenProperties
<1> HIDE DEF q
<1>4. q[1] = x /\ \A i \in 1 .. Len(q) : i = 1 \/ (i - 1 \in 1 .. Len(r) /\ q[i] = r[i - 1])
  BY <1>1, <1>2, <1>3
<1>5. \A i \in 1 .. Len(q) - 1 : i \in 1 .. Len(q) /\ (i = 1 \/ i - 1 \in 1 .. Len(r) - 1)
  BY <1>2, <1>3
<1>6. \A i \in 1 .. Len(q) - 1 : q[i] # y
  BY <1>4, <1>5
<1>7. Distinct(q)
  <2> SUFFICES ASSUME NEW i \in 1 .. Len(q), NEW j \in 1 .. Len(q), q[i] = q[j] PROVE i = j
    BY DEF Distinct
  <2>1. CASE i = 1 \/ j = 1
    BY <1>4, <2>1
  <2>2. CASE i # 1 /\ j # 1
    <3>1. i - 1 \in 1 .. Len(r) /\ j - 1 \in 1 .. Len(r) /\ r[i - 1] = r[j - 1]
      BY <1>4, <2>2
    <3>2. i - 1 = j - 1
      BY <3>1 DEF Distinct
    <3>3. i \in Int /\ j \in Int
      BY <1>3
    <3>4. QED
      BY <3>2, <3>3
  <2>3. QED
    BY <2>1, <2>2
<1>8. QED
  BY <1>2, <1>4, <1>6, <1>7 DEF q

-------------------------------------------------------------------------------
LEMMA StorageStart == StorageInit => StorageInv
<1> SUFFICES ASSUME StorageInit PROVE StorageInv
  OBVIOUS
<1> USE DEF StorageInit
<1>1. OptionsSound
  BY StorageAssumption DEF OptionsSound, StorageAssumption
<1>2. reads = <<>> /\ Len(<<>>) = 0 /\ 1 .. 0 = {} /\ 1 .. 0 - 1 = {} /\ DOMAIN <<>> = {}
  BY EmptySeq
<1>3. NounsOnce
  BY <1>2 DEF NounsOnce, Distinct
<1>4. ~Kept("config.bin")
  BY <1>2 DEF Kept
<1>5. RunTypes
  BY <1>2, <1>4, EmptySeq DEF RunTypes
<1>6. KeptAsTold
  BY <1>2 DEF KeptAsTold
<1>7. ConfigLaterOptional
  BY <1>2 DEF ConfigLaterOptional
<1>8. QED
  BY <1>1, <1>3, <1>5, <1>6, <1>7 DEF StorageInv

\* Where the rules of the next block come from.
LEMMA NextBlock ==
    ASSUME StorageInv, running, reads # <<>>, NEW b, b = Head(reads)
    PROVE  /\ b \in BlockSet \cup {Configuration} /\ b \notin DOMAIN used
           /\ options.config = NoConfig => b \in BlockSet
           /\ Source(b) # Torn
           /\ b = Configuration => Source(b) \in DOMAIN Configs
           /\ ~Told(options) => Source(b) = "storable"
           /\ FromFile(b) => /\ Told(options)
                             /\ \A d \in DOMAIN used : d.file # b.file
           /\ ~died
<1>1. /\ b \in BlockSet \cup {Configuration} /\ b = reads[1] /\ 1 \in 1 .. Len(reads)
  BY NextRead DEF StorageInv, RunTypes
<1>2. b \notin DOMAIN used /\ (options.config = NoConfig => b \in BlockSet)
  BY <1>1 DEF StorageInv, RunTypes, NounsOnce
<1>3. /\ options.config \in {NoConfig} \cup DOMAIN Configs
      /\ \A f \in DOMAIN options.rules : options.rules[f] # Torn
      /\ options.config # NoConfig => config = options.config
      /\ ~died
  BY DEF StorageInv, RunTypes, OptionsSound
<1>4. \A c \in DOMAIN Configs : /\ c \notin {NoConfig, "storable", Torn}
                                /\ \A f \in DOMAIN Configs[c].rules : Configs[c].rules[f] # Torn
  BY StorageAssumption DEF StorageAssumption
<1>5. b = Configuration => Source(b) = options.config /\ options.config # NoConfig
  <2>1. Configuration # Topic /\ Configuration.file \notin Lexica
    BY BlockMembers DEF Lexica
  <2>2. Source(Configuration) = options.config
    BY <2>1 DEF Source
  <2>3. Configuration \notin BlockSet
    BY BlockMembers
  <2>4. QED
    BY <1>2, <2>2, <2>3
<1>6. \A f : Option(f) # Torn
  BY <1>3 DEF Option, Torn
<1>7. options.config # NoConfig => \A f : Configured(f) # Torn
  BY <1>3, <1>4 DEF Configured, Torn
<1>8. b # Configuration => /\ Source(b) \in {Option(b.file), "storable"} \/ options.config # NoConfig
                           /\ Source(b) \in {Option(b.file), "storable", Configured(b.file)}
                           /\ Source(b) = Configured(b.file) => options.config # NoConfig \/ Source(b) \in {Option(b.file), "storable"}
  BY DEF Source
<1>9. Source(b) # Torn
  BY <1>3, <1>4, <1>5, <1>6, <1>7, <1>8 DEF Torn
<1>10. ~Told(options) => Source(b) = "storable"
  <2> SUFFICES ASSUME ~Told(options) PROVE Source(b) = "storable"
    OBVIOUS
  <2>1. options.config = NoConfig /\ options.rules = <<>> /\ DOMAIN options.rules = {}
    BY DEF Told
  <2>2. b # Configuration
    BY <1>5, <2>1
  <2>3. \A f : Option(f) = "storable"
    BY <2>1 DEF Option
  <2>4. QED
    BY <2>1, <2>2, <2>3 DEF Source
<1>11. ASSUME FromFile(b), NEW d \in DOMAIN used, d.file = b.file PROVE FALSE
  <2>1. d \in BlockSet \cup {Configuration} /\ d # b
    BY <1>2, <1>11 DEF StorageInv, RunTypes
  <2>2. b \in BlockSet /\ d \in BlockSet
    BY <1>1, <1>11, <2>1, BlockMembers
  <2>3. (b = Nouns /\ d = Topic) \/ (b = Topic /\ d = Nouns)
    BY <1>11, <2>1, <2>2, FilesApart
  <2>4. Topic \notin DOMAIN used
    BY DEF StorageInv, NounsOnce
  <2>5. b = Topic => Number[options.informat] > Number["svm"]
    <3>1. Topic # Configuration
      BY BlockMembers
    <3>2. Source(Topic) = IF Number[options.informat] > Number["svm"] THEN Option(Topic.file) ELSE "storable"
      BY <3>1 DEF Source
    <3>3. QED
      BY <1>11, <3>2 DEF FromFile
  <2>6. b = Topic => Nouns \notin DOMAIN used
    BY <2>5 DEF StorageInv, NounsOnce
  <2>7. QED
    BY <1>11, <2>3, <2>4, <2>6
<1>12. FromFile(b) => Told(options)
  BY <1>10 DEF FromFile
<1>13. QED
  BY <1>1, <1>2, <1>3, <1>5, <1>9, <1>10, <1>11, <1>12

LEMMA WithIs ==
    \A f, x, y :
           /\ DOMAIN With(f, x, y) = DOMAIN f \cup {x}
           /\ With(f, x, y)[x] = y
           /\ \A z \in DOMAIN f : z # x => With(f, x, y)[z] = f[z]
BY DEF With

LEMMA StartKeeps ==
    ASSUME StorageInv, NEW o \in RunOptions, StartRun(o)
    PROVE  StorageInv'
<1>1. PICK read : read = IF o.config # NoConfig THEN o.config
                         ELSE IF Kept("config.bin") THEN storage["config.bin"] ELSE NoConfig
  OBVIOUS
<1>2. PICK direction : direction = IF o.direction # "" THEN o.direction
                                   ELSE IF read = NoConfig THEN "" ELSE Configs[read].direction
  OBVIOUS
<1>3. PICK t : t = [o EXCEPT !.direction = direction]
  OBVIOUS
<1>4. /\ options' = t /\ config' = read /\ running' = (direction # "") /\ died' = (direction = "")
      /\ reads' = IF direction = "" THEN <<>>
                  ELSE IF o.config = NoConfig THEN Reads(t)
                  ELSE <<Configuration>> \o Reads(t)
      /\ used' = IF o.config = NoConfig THEN With(<<>>, Configuration, read) ELSE <<>>
      /\ told' = IF Told(o) THEN used' ELSE told
      /\ storage' = storage
  BY <1>1, <1>2, <1>3 DEF StartRun
<1>5. /\ \A c \in DOMAIN Configs : /\ c \notin {NoConfig, "storable", Torn}
                                   /\ Configs[c].direction \in {"esqu", "esde"}
      /\ DOMAIN o = OptionNames /\ o.config \in {NoConfig} \cup DOMAIN Configs /\ o.informat \in Formats
      /\ \A f \in DOMAIN o.rules : o.rules[f] # Torn
  BY StorageAssumption DEF StorageAssumption
<1>6. /\ DOMAIN t = OptionNames /\ t.config = o.config /\ t.informat = o.informat /\ t.rules = o.rules
  BY <1>3, <1>5 DEF OptionNames
<1>7. OptionsSound'
  BY <1>4, <1>5, <1>6 DEF OptionsSound
<1>8. /\ (Kept("config.bin"))' <=> Kept("config.bin")
      /\ KeptConfig' = KeptConfig
      /\ Kept("config.bin") => storage["config.bin"] \in DOMAIN Configs
      /\ \A f : Kept(f)' <=> Kept(f)
      /\ Told(options)' <=> Told(o)
  BY <1>4, <1>6 DEF Kept, KeptConfig, Told, StorageInv, RunTypes
<1>9. /\ o.config = NoConfig => read = KeptConfig
      /\ o.config # NoConfig => read = o.config
      /\ read \in {NoConfig} \cup DOMAIN Configs
  BY <1>1, <1>5, <1>8 DEF KeptConfig
<1>10. direction = "" => read = NoConfig /\ o.config = NoConfig
  BY <1>2, <1>5, <1>9
<1>11. /\ o.config = NoConfig => DOMAIN used' = {Configuration} /\ used'[Configuration] = read
       /\ o.config # NoConfig => used' = <<>> /\ DOMAIN used' = {}
  <2>1. DOMAIN <<>> = {}
    OBVIOUS
  <2>2. /\ DOMAIN With(<<>>, Configuration, read) = {Configuration}
        /\ With(<<>>, Configuration, read)[Configuration] = read
    <3>1. DOMAIN With(<<>>, Configuration, read) = DOMAIN <<>> \cup {Configuration}
      BY WithIs
    <3>2. With(<<>>, Configuration, read)[Configuration] = read
      BY WithIs
    <3>3. DOMAIN <<>> \cup {Configuration} = {Configuration}
      BY <2>1
    <3>4. QED
      BY <3>1, <3>2, <3>3
  <2>3. QED
    BY <1>4, <2>1, <2>2
\* What there is to read.
<1>12. /\ Reads(t) \in Seq(BlockSet) /\ Distinct(Reads(t))
       /\ \A i \in 1 .. Len(Reads(t)) : Reads(t)[i] \in Entered(t) /\ Reads(t)[i] \in BlockSet
       /\ \A i \in 1 .. Len(Reads(t)) - 1 : Reads(t)[i] # Topic
  BY ReadsAre, ElementOfSeq
<1>13. Number[t.informat] > Number["svm"] => Nouns \notin Entered(t)
  BY <1>5, <1>6, NounsBefore
<1>14. Configuration \notin BlockSet /\ Nouns # Configuration /\ Topic # Configuration /\ Topic \in BlockSet
  BY BlockMembers
<1> DEFINE r == reads'
           B == BlockSet \cup {Configuration}
<1>15. /\ r \in Seq(B) /\ Distinct(r)
       /\ \A i \in 1 .. Len(r) - 1 : r[i] # Topic
       /\ o.config = NoConfig => \A i \in 1 .. Len(r) : r[i] # Configuration
       /\ Number[t.informat] > Number["svm"] => \A i \in 1 .. Len(r) : r[i] # Nouns
  <2>1. CASE r = <<>>
    <3>1. Len(<<>>) = 0 /\ 1 .. 0 = {} /\ 1 .. 0 - 1 = {} /\ <<>> \in Seq(B)
      BY EmptySeq
    <3> HIDE DEF r, B
    <3>2. QED
      BY <2>1, <3>1 DEF Distinct
  <2>2. CASE r = Reads(t)
    <3>1. /\ \A i \in 1 .. Len(Reads(t)) : Reads(t)[i] \in BlockSet
          /\ \A i \in 1 .. Len(Reads(t)) : Reads(t)[i] \in Entered(t)
      BY <1>12
    <3>2. Reads(t) \in Seq(B)
      <4>1. Reads(t) \in Seq(BlockSet) /\ BlockSet \subseteq B
        BY <1>12
      <4>2. QED
        BY <4>1, ElementOfSeq, LenProperties
    <3> HIDE DEF r, B
    <3>3. QED
      BY <1>12, <1>13, <1>14, <2>2, <3>1, <3>2
  <2>3. CASE r = <<Configuration>> \o Reads(t) /\ o.config # NoConfig
    <3> DEFINE q == Reads(t)
               x == Configuration
               y == Topic
    <3>1. q \in Seq(B)
      <4>1. q \in Seq(BlockSet) /\ BlockSet \subseteq B
        BY <1>12
      <4> HIDE DEF q, B
      <4>2. QED
        BY <4>1, ElementOfSeq, LenProperties
    <3>2. /\ x \in B /\ y \in B /\ x # y /\ Distinct(q)
          /\ \A i \in 1 .. Len(q) : q[i] # x
          /\ \A i \in 1 .. Len(q) - 1 : q[i] # y
      BY <1>12, <1>14
    <3> HIDE DEF q, x, y, B
    <3>3. /\ <<x>> \o q \in Seq(B) /\ Distinct(<<x>> \o q)
          /\ \A i \in 1 .. Len(<<x>> \o q) : (<<x>> \o q)[i] = x \/ \E j \in 1 .. Len(q) : (<<x>> \o q)[i] = q[j]
          /\ \A i \in 1 .. Len(<<x>> \o q) - 1 : (<<x>> \o q)[i] # y
      BY <3>1, <3>2, OneBefore
    <3> HIDE DEF r
    <3>4. r = <<x>> \o q
      BY <2>3 DEF r, q, x
    <3>5. /\ r \in Seq(B) /\ Distinct(r)
          /\ \A i \in 1 .. Len(r) : r[i] = x \/ \E j \in 1 .. Len(q) : r[i] = q[j]
          /\ \A i \in 1 .. Len(r) - 1 : r[i] # y
      BY Zenon, <3>3, <3>4
    <3>6. /\ \A j \in 1 .. Len(q) : q[j] \in Entered(t)
          /\ x # Nouns
      BY <1>12, <1>14 DEF q, x
    <3>7. QED
      BY <1>13, <2>3, <3>5, <3>6 DEF y
  <2>4. QED
    BY <1>4, <2>1, <2>2, <2>3
<1>16. \A i \in 1 .. Len(r) : r[i] \notin DOMAIN used'
  BY <1>11, <1>15
<1> HIDE DEF r, B
<1>17. NounsOnce'
  <2>1. Nouns \notin DOMAIN used' /\ Topic \notin DOMAIN used'
    BY <1>11, <1>14
  <2>2. options'.informat = t.informat
    BY <1>4
  <2>3. Distinct(reads)' <=> Distinct(r)
    BY DEF Distinct, r
  <2>4. QED
    BY <1>15, <1>16, <2>1, <2>2, <2>3 DEF NounsOnce, r
<1>18. RunTypes'
  <2>1. DOMAIN used' \subseteq B /\ DOMAIN told' \subseteq B
    BY <1>4, <1>11 DEF B, StorageInv, RunTypes
  <2>2. running' \in BOOLEAN /\ died' \in BOOLEAN /\ (running' => ~died')
    BY <1>4
  <2>3. options'.config # NoConfig => config' = options'.config
    BY <1>4, <1>6, <1>9
  <2>4. QED
    BY <1>4, <1>6, <1>8, <1>15, <2>1, <2>2, <2>3 DEF RunTypes, r, B
<1>19. KeptAsTold'
  <2>1. CASE Told(o)
    <3>1. told' = used' /\ (Configuration \in DOMAIN told' => told'[Configuration] = KeptConfig)
      BY <1>4, <1>9, <1>11, <2>1
    <3>2. DOMAIN told' \ {Configuration} = {}
      BY <1>11, <3>1
    <3>3. QED
      BY <1>8, <3>1, <3>2 DEF KeptAsTold
  <2>2. CASE ~Told(o)
    BY <1>4, <1>8, <2>2 DEF KeptAsTold, StorageInv
  <2>3. QED
    BY <2>1, <2>2
<1>20. ConfigLaterOptional'
  <2> SUFFICES ASSUME ~Told(o) PROVE ConfigLaterOptional'
    BY <1>8 DEF ConfigLaterOptional
  <2>1. o.config = NoConfig /\ told' = told
    BY <1>4 DEF Told
  <2>2. \A b \in DOMAIN used' \cap DOMAIN told' : used'[b] = told'[b]
    BY <1>9, <1>11, <2>1 DEF StorageInv, KeptAsTold
  <2>3. died' => reads' = <<>> /\ (Configuration \in DOMAIN told' => told'[Configuration] = NoConfig)
    BY <1>4, <1>9, <1>10, <2>1 DEF StorageInv, KeptAsTold
  <2>4. QED
    BY <2>2, <2>3 DEF ConfigLaterOptional
<1>21. QED
  BY <1>7, <1>17, <1>18, <1>19, <1>20 DEF StorageInv

LEMMA UsingIs ==
    ASSUME NEW b, NEW rules, Using(b, rules)
    PROVE  /\ DOMAIN used' = DOMAIN used \cup {b} /\ used'[b] = rules
           /\ \A d \in DOMAIN used : d # b => used'[d] = used[d]
<1>1. used' = With(used, b, rules)
  BY DEF Using
<1>2. DOMAIN With(used, b, rules) = DOMAIN used \cup {b}
  BY WithIs
<1>3. With(used, b, rules)[b] = rules
  BY WithIs
<1>4. \A d \in DOMAIN used : d # b => With(used, b, rules)[d] = used[d]
  BY WithIs
<1>5. QED
  BY Zenon, <1>1, <1>2, <1>3, <1>4

\* A block has got its rules, from a file or from storage.
LEMMA UsedKeeps ==
    ASSUME StorageInv, running, reads # <<>>, NEW b, b = Head(reads),
           NEW rules, Using(b, rules), rules # Torn,
           b = Configuration => rules \in DOMAIN Configs,
           Kept(b.file)', storage'[b.file] = rules,
           \A f \in DOMAIN storage \ {b.file} : f \in DOMAIN storage' /\ storage'[f] = storage[f],
           DOMAIN storage' \subseteq DOMAIN storage \cup {b.file},
           (\A d \in DOMAIN used : d.file # b.file) \/ storage' = storage,
           Told(options) \/ storage' = storage
    PROVE  StorageInv'
<1>1. /\ reads' = Tail(reads) /\ used' = With(used, b, rules)
      /\ told' = IF Told(options) THEN used' ELSE told
      /\ running' = running /\ died' = died /\ options' = options /\ config' = config
  BY DEF Using
<1>2. /\ b \in BlockSet \cup {Configuration} /\ b \notin DOMAIN used
      /\ options.config = NoConfig => b \in BlockSet
      /\ ~died
  BY NextBlock
<1>3. /\ Topic # Configuration /\ Configuration.file = "config.bin"
      /\ \A d \in BlockSet : d.file # "config.bin" /\ d # Configuration
  BY BlockMembers
<1>4. /\ DOMAIN used' = DOMAIN used \cup {b} /\ used'[b] = rules
      /\ \A d \in DOMAIN used : d # b => used'[d] = used[d]
  BY UsingIs, ZenonT(30)
<1>5. \A f : f # b.file => (Kept(f)' <=> Kept(f)) /\ (Kept(f) => storage'[f] = storage[f])
  <2> SUFFICES ASSUME NEW f, f # b.file
               PROVE  (Kept(f)' <=> Kept(f)) /\ (Kept(f) => storage'[f] = storage[f])
    OBVIOUS
  <2>1. f \in DOMAIN storage => f \in DOMAIN storage' /\ storage'[f] = storage[f]
    OBVIOUS
  <2>2. f \in DOMAIN storage' => f \in DOMAIN storage
    OBVIOUS
  <2>3. QED
    BY <2>1, <2>2, Zenon DEF Kept
<1> DEFINE B == BlockSet \cup {Configuration}
           r == Tail(reads)
<1>6. /\ reads[1] = b /\ r \in Seq(B) /\ Len(reads) \in Nat \ {0} /\ Len(r) = Len(reads) - 1
      /\ \A i \in 1 .. Len(r) : i + 1 \in 1 .. Len(reads) /\ r[i] = reads[i + 1]
      /\ \A i \in 1 .. Len(r) - 1 : i + 1 \in 1 .. Len(reads) - 1
      /\ Distinct(r) /\ \A i \in 1 .. Len(r) : r[i] # b
  BY NextRead DEF StorageInv, RunTypes, NounsOnce
<1> HIDE DEF B, r
<1>7. OptionsSound'
  BY <1>1 DEF StorageInv, OptionsSound
<1>8. NounsOnce'
  <2>1. Number[options.informat] > Number["svm"] => Nouns \notin DOMAIN used'
    <3>1. Number[options.informat] > Number["svm"] => b # Nouns
      <4>1. 1 \in 1 .. Len(reads)
        BY <1>6
      <4>2. QED
        BY <1>6, <4>1 DEF StorageInv, RunTypes
    <3>2. QED
      BY <1>4, <3>1 DEF StorageInv, NounsOnce
  <2>2. Topic \in DOMAIN used' => r = <<>>
    <3>1. Topic \notin DOMAIN used
      BY DEF StorageInv, NounsOnce
    <3>2. b = Topic => Len(reads) = 1
      <4>1. 1 \in 1 .. Len(reads) - 1 \/ Len(reads) = 1
        BY <1>6
      <4>2. QED
        BY <1>6, <4>1 DEF StorageInv, NounsOnce
    <3>3. b = Topic => Len(r) = 0
      BY <1>6, <3>2
    <3>4. QED
      BY <1>4, <1>6, <3>1, <3>3, EmptySeq
  <2>3. \A i \in 1 .. Len(r) - 1 : r[i] # Topic
    <3>1. \A i \in 1 .. Len(r) - 1 : i \in 1 .. Len(r)
      BY <1>6
    <3>2. QED
      BY <1>6, <3>1 DEF StorageInv, NounsOnce
  <2>4. \A i \in 1 .. Len(r) : r[i] \notin DOMAIN used'
    BY <1>4, <1>6 DEF StorageInv, NounsOnce
  <2>5. reads' = r /\ options' = options
    BY <1>1 DEF r
  <2>6. QED
    BY <1>6, <2>1, <2>2, <2>3, <2>4, <2>5 DEF NounsOnce, Distinct
<1>9. RunTypes'
  <2>1. /\ options.config = NoConfig => \A i \in 1 .. Len(r) : r[i] # Configuration
        /\ Number[options.informat] > Number["svm"] => \A i \in 1 .. Len(r) : r[i] # Nouns
    <3> SUFFICES ASSUME NEW i \in 1 .. Len(r)
                 PROVE  /\ options.config = NoConfig => r[i] # Configuration
                        /\ Number[options.informat] > Number["svm"] => r[i] # Nouns
      OBVIOUS
    <3>1. i + 1 \in 1 .. Len(reads) /\ r[i] = reads[i + 1]
      BY <1>6
    <3>2. \A j \in 1 .. Len(reads) : /\ options.config = NoConfig => reads[j] # Configuration
                                     /\ Number[options.informat] > Number["svm"] => reads[j] # Nouns
      BY DEF StorageInv, RunTypes
    <3>3. QED
      BY <3>1, <3>2
  <2>2. DOMAIN used' \subseteq B /\ DOMAIN told' \subseteq B
    BY <1>1, <1>2, <1>4 DEF B, StorageInv, RunTypes
  <2>3. Kept("config.bin")' => storage'["config.bin"] \in DOMAIN Configs
    <3>1. CASE b = Configuration
      BY <1>3, <3>1
    <3>2. CASE b # Configuration
      BY <1>2, <1>3, <1>5, <3>2 DEF StorageInv, RunTypes
    <3>3. QED
      BY <3>1, <3>2
  <2>4. reads' = r /\ r \in Seq(B)
    BY <1>1, <1>6 DEF r
  <2>5. /\ running \in BOOLEAN /\ died \in BOOLEAN /\ (running => ~died)
        /\ running /\ options.config # NoConfig => config = options.config
    BY DEF StorageInv, RunTypes
  <2>6. QED
    BY <1>1, <2>1, <2>2, <2>3, <2>4, <2>5 DEF RunTypes, B
<1>10. KeptAsTold'
  <2>1. CASE Told(options)
    <3>1. told = used /\ told' = used' /\ (Told(options))'
      BY <1>1, <2>1 DEF StorageInv, KeptAsTold, Told
    <3>2. ASSUME NEW d \in DOMAIN used' \ {Configuration}
          PROVE  Kept(d.file)' /\ storage'[d.file] = used'[d]
      <4>1. CASE d = b
        BY <1>4, <4>1
      <4>2. CASE d # b
        <5>1. d \in DOMAIN used /\ Kept(d.file) /\ storage[d.file] = used[d] /\ used'[d] = used[d]
          BY <1>4, <3>1, <3>2, <4>2 DEF StorageInv, KeptAsTold
        <5>2. Kept(d.file)' /\ storage'[d.file] = storage[d.file]
          BY <1>5, <5>1 DEF Kept
        <5>3. QED
          BY <5>1, <5>2
      <4>3. QED
        BY <4>1, <4>2
    <3>3. ASSUME Configuration \in DOMAIN used' PROVE used'[Configuration] = KeptConfig'
      <4>1. CASE b = Configuration
        BY <1>3, <1>4, <4>1 DEF KeptConfig
      <4>2. CASE b # Configuration
        <5>1. Configuration \in DOMAIN used /\ used[Configuration] = KeptConfig /\ used'[Configuration] = used[Configuration]
          BY <1>4, <3>1, <3>3, <4>2 DEF StorageInv, KeptAsTold
        <5>2. KeptConfig' = KeptConfig
          BY <1>2, <1>3, <1>5, <4>2 DEF KeptConfig
        <5>3. QED
          BY <5>1, <5>2
      <4>3. QED
        BY <4>1, <4>2
    <3>4. QED
      BY <3>1, <3>2, <3>3 DEF KeptAsTold
  <2>2. CASE ~Told(options)
    BY <1>1, <2>2 DEF StorageInv, KeptAsTold, KeptConfig, Kept, Told
  <2>3. QED
    BY <2>1, <2>2
<1>11. ConfigLaterOptional'
  <2> SUFFICES ASSUME ~Told(options) PROVE ConfigLaterOptional'
    BY <1>1 DEF ConfigLaterOptional, Told
  <2>1. told' = told /\ storage' = storage /\ b \in BlockSet /\ ~died'
    BY <1>1, <1>2 DEF Told
  <2>2. b \in DOMAIN told => told[b] = rules
    BY <1>3, <2>1 DEF StorageInv, KeptAsTold
  <2>3. \A d \in DOMAIN used \cap DOMAIN told : used[d] = told[d]
    BY DEF StorageInv, ConfigLaterOptional
  <2>4. \A d \in DOMAIN used' \cap DOMAIN told' : used'[d] = told'[d]
    BY <1>4, <2>1, <2>2, <2>3
  <2>5. QED
    BY <2>1, <2>4 DEF ConfigLaterOptional
<1>12. QED
  BY <1>7, <1>8, <1>9, <1>10, <1>11 DEF StorageInv

LEMMA KeepIs ==
    ASSUME NEW f, NEW content, Keep(f, content)
    PROVE  /\ f \in DOMAIN storage' /\ storage'[f] = content
           /\ \A g \in DOMAIN storage \ {f} : g \in DOMAIN storage' /\ storage'[g] = storage[g]
           /\ DOMAIN storage' \subseteq DOMAIN storage \cup {f}
BY DEF Keep

LEMMA ReadKeepsStorage ==
    ASSUME StorageInv, ReadRules
    PROVE  StorageInv'
<1>1. PICK b : b = Head(reads)
  OBVIOUS
<1>2. running /\ reads # <<>> /\ FromFile(b) /\ Using(b, Source(b)) /\ Keep(b.file, Source(b))
  BY <1>1 DEF ReadRules
<1>3. /\ Source(b) # Torn /\ Told(options)
      /\ b = Configuration => Source(b) \in DOMAIN Configs
      /\ \A d \in DOMAIN used : d.file # b.file
  BY <1>1, <1>2, NextBlock
<1>4. /\ b.file \in DOMAIN storage' /\ storage'[b.file] = Source(b)
      /\ \A f \in DOMAIN storage \ {b.file} : f \in DOMAIN storage' /\ storage'[f] = storage[f]
      /\ DOMAIN storage' \subseteq DOMAIN storage \cup {b.file}
  BY <1>2, KeepIs
<1>5. Kept(b.file)'
  <2>1. storage'[b.file] # Torn
    BY <1>3, <1>4
  <2>2. QED
    BY <1>4, <2>1 DEF Kept
<1>6. QED
  BY <1>1, <1>2, <1>3, <1>4, <1>5, UsedKeeps

LEMMA RetrieveKeeps ==
    ASSUME StorageInv, RetrieveRules
    PROVE  StorageInv'
<1>1. PICK b : b = Head(reads)
  OBVIOUS
<1>2. PICK rules : rules = storage[b.file]
  OBVIOUS
<1>3. /\ running /\ reads # <<>> /\ Source(b) = "storable" /\ Kept(b.file) /\ Using(b, rules)
      /\ storage' = storage
  BY <1>1, <1>2 DEF RetrieveRules
<1>4. b # Configuration
  <2>1. b = Configuration => Source(b) \in DOMAIN Configs
    BY <1>1, <1>3, NextBlock
  <2>2. QED
    BY <1>3, <2>1, StorageAssumption DEF StorageAssumption
<1>5. Kept(b.file)' /\ rules # Torn /\ b.file \in DOMAIN storage
  BY <1>2, <1>3 DEF Kept
<1>6. QED
  BY <1>1, <1>2, <1>3, <1>4, <1>5, UsedKeeps

\* Nothing was found, and the run dies of it.
LEMMA MissKeeps ==
    ASSUME StorageInv, MissRules
    PROVE  StorageInv'
<1>1. PICK b : b = Head(reads)
  OBVIOUS
<1>2. /\ running /\ reads # <<>> /\ (Source(b) = "" \/ (Source(b) = "storable" /\ ~Kept(b.file)))
      /\ running' = FALSE /\ died' = TRUE
      /\ UNCHANGED <<runs, options, config, reads, storage, used, told>>
  BY <1>1 DEF MissRules
<1>3. OptionsSound' /\ NounsOnce' /\ KeptAsTold'
  BY <1>2 DEF StorageInv, OptionsSound, NounsOnce, KeptAsTold, Distinct, Kept, KeptConfig, Told
<1>4. RunTypes'
  BY <1>2 DEF StorageInv, RunTypes, Kept
<1>5. ASSUME ~Told(options) PROVE b \notin DOMAIN told
  <2>1. Source(b) = "storable" /\ b \in BlockSet
    BY <1>1, <1>2, <1>5, NextBlock DEF Told
  <2>2. b # Configuration /\ ~Kept(b.file)
    BY <1>2, <2>1, BlockMembers
  <2>3. QED
    BY <2>2 DEF StorageInv, KeptAsTold
<1>6. ConfigLaterOptional'
  BY <1>1, <1>2, <1>5 DEF StorageInv, ConfigLaterOptional, Told
<1>7. QED
  BY <1>3, <1>4, <1>6 DEF StorageInv

\* Of what a killed run was about to keep the last run has used nothing yet.
LEMMA EndKeeps ==
    ASSUME StorageInv, EndRun \/ KillRun
    PROVE  StorageInv'
<1>1. /\ running /\ running' = FALSE
      /\ UNCHANGED <<died, runs, options, config, reads, used, told>>
  BY DEF EndRun, KillRun
<1>2. OptionsSound' /\ NounsOnce' /\ ConfigLaterOptional'
  BY <1>1 DEF StorageInv, OptionsSound, NounsOnce, Distinct, ConfigLaterOptional, Told
<1>3. CASE storage' = storage
  <2>1. RunTypes' /\ KeptAsTold'
    BY <1>1, <1>3 DEF StorageInv, RunTypes, KeptAsTold, Kept, KeptConfig, Told
  <2>2. QED
    BY <1>2, <2>1 DEF StorageInv
<1>4. CASE reads # <<>> /\ FromFile(Head(reads)) /\ Keep(Head(reads).file, Torn)
  <2>1. PICK b : b = Head(reads)
    OBVIOUS
  <2>2. /\ b \in BlockSet \cup {Configuration} /\ b \notin DOMAIN used /\ Told(options)
        /\ \A d \in DOMAIN used : d.file # b.file
    BY <1>1, <1>4, <2>1, NextBlock
  <2>3. /\ b.file \in DOMAIN storage' /\ storage'[b.file] = Torn
        /\ \A f \in DOMAIN storage \ {b.file} : f \in DOMAIN storage' /\ storage'[f] = storage[f]
        /\ DOMAIN storage' \subseteq DOMAIN storage \cup {b.file}
    BY <1>4, <2>1, KeepIs
  <2>4. ~Kept(b.file)' /\ \A f : f # b.file => (Kept(f)' <=> Kept(f)) /\ (Kept(f) => storage'[f] = storage[f])
    BY <2>3 DEF Kept
  <2>5. /\ Configuration.file = "config.bin"
        /\ \A d \in BlockSet : d.file # "config.bin"
    BY BlockMembers
  <2>6. told = used
    BY <2>2 DEF StorageInv, KeptAsTold
  <2>7. KeptAsTold'
    <3>1. ASSUME NEW d \in DOMAIN told \ {Configuration} PROVE Kept(d.file)' /\ storage'[d.file] = told[d]
      <4>1. d.file # b.file
        BY <2>2, <2>6, <3>1
      <4>2. Kept(d.file) /\ storage[d.file] = told[d]
        BY <3>1 DEF StorageInv, KeptAsTold
      <4>3. QED
        BY <2>4, <4>1, <4>2
    <3>2. Configuration \in DOMAIN told => KeptConfig' = KeptConfig
      BY <2>2, <2>4, <2>5, <2>6 DEF KeptConfig
    <3>3. QED
      BY <1>1, <3>1, <3>2 DEF StorageInv, KeptAsTold, Told
  <2>8. RunTypes'
    <3>1. Kept("config.bin")' => storage'["config.bin"] \in DOMAIN Configs
      BY <2>4 DEF StorageInv, RunTypes
    <3>2. QED
      BY <1>1, <3>1 DEF StorageInv, RunTypes
  <2>9. QED
    BY <1>2, <2>7, <2>8 DEF StorageInv
<1>5. QED
  BY <1>3, <1>4 DEF EndRun, KillRun

LEMMA StorageStep == StorageInv /\ [StorageNext]_storageVars => StorageInv'
<1> SUFFICES ASSUME StorageInv, [StorageNext]_storageVars PROVE StorageInv'
  OBVIOUS
<1>1. CASE UNCHANGED storageVars
  <2>1. OptionsSound' /\ NounsOnce' /\ KeptAsTold' /\ ConfigLaterOptional'
    BY <1>1 DEF storageVars, StorageInv, OptionsSound, NounsOnce, KeptAsTold, Distinct, Kept, KeptConfig, Told,
                ConfigLaterOptional
  <2>2. RunTypes'
    BY <1>1 DEF storageVars, StorageInv, RunTypes, Kept
  <2>3. QED
    BY <2>1, <2>2 DEF StorageInv
<1>2. QED
  BY <1>1, StartKeeps, ReadKeepsStorage, RetrieveKeeps, MissKeeps, EndKeeps DEF StorageNext

\* A run without configuration and rules uses what the last run with some has used, and
\* finds all of it, whatever runs there were, in whatever direction and however they ended.
THEOREM StorageServes == StorageSpec => []ConfigLaterOptional
<1>1. StorageInv => ConfigLaterOptional
  BY DEF StorageInv
<1>2. QED
  BY <1>1, StorageStart, StorageStep, PTL DEF StorageSpec

-------------------------------------------------------------------------------
(***************************************************************************)
(* The way of a text through the formats.                                  *)
(***************************************************************************)
LEMMA OrderDistinct == \A i, j \in DOMAIN Order : Order[i] = Order[j] => i = j
BY DEF Order

LEMMA NumberOf == \A i \in DOMAIN Order : Number[Order[i]] = i
<1> SUFFICES ASSUME NEW i \in DOMAIN Order PROVE Number[Order[i]] = i
  OBVIOUS
<1>1. Order[i] \in Formats
  BY DEF Formats
<1>2. Number[Order[i]] = CHOOSE j \in DOMAIN Order : Order[j] = Order[i]
  BY <1>1 DEF Number
<1>3. QED
  BY <1>2, OrderDistinct

LEMMA Numbers ==
    /\ Number["plain"] = 1 /\ Number["senttok"] = 2 /\ Number["tagged"] = 3
    /\ Number["conll"] = 4 /\ Number["parsed"] = 5 /\ Number["conll2xml"] = 6
    /\ Number["rdisamb"] = 7 /\ Number["coref"] = 8 /\ Number["vdisamb"] = 9
    /\ Number["svm"] = 10 /\ Number["lextrans"] = 11 /\ Number["semtags"] = 12
    /\ Number["lexdisamb"] = 13 /\ Number["morphdisamb"] = 14 /\ Number["statlexdisamb"] = 15
    /\ Number["prepdisamb"] = 16 /\ Number["vprepdisamb"] = 17 /\ Number["mwsplit"] = 18
    /\ Number["pronoun"] = 19 /\ Number["future"] = 20 /\ Number["vprefix"] = 21
    /\ Number["intraTrans"] = 22 /\ Number["interTrans"] = 23 /\ Number["node2chunk"] = 24
    /\ Number["child2sibling"] = 25 /\ Number["interOrder"] = 26 /\ Number["intraOrder"] = 27
    /\ Number["morph"] = 28 /\ Number["words"] = 29 /\ Number["nbest"] = 30
<1>1. DOMAIN Order = 1 .. 30
  BY DEF Order
<1>2. \A i \in 1 .. 30 : Number[Order[i]] = i
  BY <1>1, NumberOf
<1> DEFINE N == Number
<1> HIDE DEF N
<1>3. \A i \in 1 .. 30 : N[Order[i]] = i
  BY <1>2 DEF N
<1>4. /\ N["plain"] = 1 /\ N["senttok"] = 2 /\ N["tagged"] = 3 /\ N["conll"] = 4 /\ N["parsed"] = 5
      /\ N["conll2xml"] = 6 /\ N["rdisamb"] = 7 /\ N["coref"] = 8 /\ N["vdisamb"] = 9 /\ N["svm"] = 10
  BY <1>3 DEF Order
<1>5. /\ N["lextrans"] = 11 /\ N["semtags"] = 12 /\ N["lexdisamb"] = 13 /\ N["morphdisamb"] = 14
      /\ N["statlexdisamb"] = 15 /\ N["prepdisamb"] = 16 /\ N["vprepdisamb"] = 17 /\ N["mwsplit"] = 18
      /\ N["pronoun"] = 19 /\ N["future"] = 20
  BY <1>3 DEF Order
<1>6. /\ N["vprefix"] = 21 /\ N["intraTrans"] = 22 /\ N["interTrans"] = 23 /\ N["node2chunk"] = 24
      /\ N["child2sibling"] = 25 /\ N["interOrder"] = 26 /\ N["intraOrder"] = 27
      /\ N["morph"] = 28 /\ N["words"] = 29 /\ N["nbest"] = 30
  BY <1>3 DEF Order
<1>7. QED
  BY <1>4, <1>5, <1>6 DEF N

LEMMA FormatsAre ==
    Formats = {"plain", "senttok", "tagged", "conll", "parsed", "conll2xml",
               "rdisamb", "coref", "vdisamb", "svm", "lextrans", "semtags",
               "lexdisamb", "morphdisamb", "statlexdisamb", "prepdisamb",
               "vprepdisamb", "mwsplit", "pronoun", "future", "vprefix",
               "intraTrans", "interTrans", "node2chunk", "child2sibling",
               "interOrder", "intraOrder", "morph", "words", "nbest"}
<1>1. DOMAIN Order = 1 .. 30
  BY DEF Order
<1>2. QED
  BY <1>1 DEF Formats, Order

LEMMA NumbersDiffer == \A s, t \in Formats : Number[s] \in 1 .. 30 /\ (Number[s] = Number[t] => s = t)
BY FormatsAre, Numbers

\* The stage before s, or the format of the input; and the file that s may start with.
Prev(o, s) == IF s = "tagged" THEN o.informat ELSE From(o)[s]

\* What some block reads.
Readable(o) ==
    \/ o.informat \in {"plain", "senttok"}
    \/ \E s \in DOMAIN From(o) \cap Stages(o) : From(o)[s] = o.informat

OnMorphemes(o) == RankedFile(o) = "morph"

Above(o, s) == {t \in Stages(o) : Number[s] < Number[t]}

LEMMA OptionFields ==
    ASSUME NEW o \in Options
    PROVE  /\ o.direction \in {"esqu", "esde"} /\ o.informat \in Formats \ {"nbest"}
           /\ o.outformat \in Formats \ {"plain"} /\ o.file \in BOOLEAN /\ o.useMorphModel \in {0, 1}
BY DEF Options

LEMMA SupportedMeans ==
    ASSUME NEW o \in Options, Supported(o)
    PROVE  /\ Number[o.informat] < Number[o.outformat]
           /\ o.outformat \in Stages(o)
           /\ Readable(o)
           /\ ~(o.direction = "esde" /\ o.informat = "conll2xml" /\ o.file)
           /\ OnMorphemes(o) => /\ o.informat # "words" /\ o.outformat # "words"
                                /\ ~(o.informat = "morph" /\ ~o.file)
BY DEF Supported, Readable, OnMorphemes

LEMMA StagesAre ==
    ASSUME NEW o \in Options, NEW s
    PROVE  s \in Stages(o) <=> /\ s \in Formats \ {"plain", "senttok"}
                               /\ Number[o.informat] < Number[s]
                               /\ s \in {"rdisamb", "coref", "vdisamb", "svm"} => o.direction = "esqu"
                               /\ s \in {"statlexdisamb", "vprepdisamb", "mwsplit", "pronoun", "future",
                                         "vprefix"} => o.direction = "esde"
BY DEF Stages, EsquOnly, EsdeOnly

\* From, but for the one place where it depends on the model of ranking.
LEMMA FromIs ==
    ASSUME NEW o \in Options
    PROVE  LET esqu == o.direction = "esqu" IN
           /\ Prev(o, "tagged") = o.informat
           /\ Prev(o, "conll") = "tagged" /\ Prev(o, "parsed") = "conll" /\ Prev(o, "conll2xml") = "parsed"
           /\ Prev(o, "rdisamb") = "conll2xml" /\ Prev(o, "coref") = "rdisamb" /\ Prev(o, "vdisamb") = "coref"
           /\ Prev(o, "svm") = "vdisamb" /\ Prev(o, "lextrans") = IF esqu THEN "svm" ELSE "conll2xml"
           /\ Prev(o, "semtags") = "lextrans" /\ Prev(o, "lexdisamb") = "semtags"
           /\ Prev(o, "morphdisamb") = "lexdisamb" /\ Prev(o, "statlexdisamb") = "morphdisamb"
           /\ Prev(o, "prepdisamb") = IF esqu THEN "morphdisamb" ELSE "statlexdisamb"
           /\ Prev(o, "vprepdisamb") = "prepdisamb" /\ Prev(o, "mwsplit") = "vprepdisamb"
           /\ Prev(o, "pronoun") = "mwsplit" /\ Prev(o, "future") = "pronoun" /\ Prev(o, "vprefix") = "future"
           /\ Prev(o, "intraTrans") = IF esqu THEN "prepdisamb" ELSE "vprefix"
           /\ Prev(o, "interTrans") = "intraTrans" /\ Prev(o, "node2chunk") = "interTrans"
           /\ Prev(o, "child2sibling") = "node2chunk" /\ Prev(o, "interOrder") = "child2sibling"
           /\ Prev(o, "intraOrder") = "interOrder" /\ Prev(o, "morph") = "intraOrder"
           /\ Prev(o, "words") = "morph"
           /\ Prev(o, "nbest") = IF OnMorphemes(o) THEN "morph" ELSE "words"
BY DEF Prev, From, OnMorphemes, RankedFile

LEMMA FromDomain ==
    ASSUME NEW o \in Options
    PROVE  DOMAIN From(o) = Formats \ {"plain", "senttok", "tagged"}
BY FormatsAre DEF From

\* What a stage reads has the format of the input or is what the stage before it made;
\* and there is no stage between the two, but for the generation of words that is skipped.
LEMMA ChainDown ==
    ASSUME NEW o \in Options, NEW s \in Stages(o)
    PROVE  LET p == Prev(o, s) IN
           /\ p \in Formats /\ Number[p] < Number[s]
           /\ Number[p] > Number[o.informat] => p \in Stages(o)
           /\ \A t \in Stages(o) : ~(Number[p] < Number[t] /\ Number[t] < Number[s])
                                   \/ (s = "nbest" /\ t = "words" /\ OnMorphemes(o))
<1> DEFINE p == Prev(o, s)
           b == Number[o.informat]
<1>1. s \in Formats \ {"plain", "senttok"} /\ b \in 1 .. 30 /\ b < Number[s]
  BY StagesAre, OptionFields, NumbersDiffer
<1>2. o.direction \in {"esqu", "esde"} /\ o.informat \in Formats
  BY OptionFields
<1>3. CASE s = "tagged"
  <2>1. p = o.informat
    BY <1>3, FromIs
  <2>2. \A t \in Stages(o) : b < Number[t] /\ Number[t] < 3 => FALSE
    BY StagesAre, FormatsAre, Numbers
  <2>3. QED
    BY <1>1, <1>2, <1>3, <2>1, <2>2, Numbers
<1>4. CASE s # "tagged"
  <2>1. p \in Formats \ {"plain", "senttok"} /\ Number[p] < Number[s]
    BY <1>1, <1>2, <1>4, FromIs, Numbers, FormatsAre
  <2>2. s \in {"rdisamb", "coref", "vdisamb", "svm"} => o.direction = "esqu"
    BY StagesAre
  <2>3. s \in {"statlexdisamb", "vprepdisamb", "mwsplit", "pronoun", "future", "vprefix"} => o.direction = "esde"
    BY StagesAre
  <2>4. /\ p \in {"rdisamb", "coref", "vdisamb", "svm"} => o.direction = "esqu"
        /\ p \in {"statlexdisamb", "vprepdisamb", "mwsplit", "pronoun", "future", "vprefix"} => o.direction = "esde"
    BY <1>1, <1>2, <1>4, <2>2, <2>3, FromIs, FormatsAre
  <2>5. Number[p] > b => p \in Stages(o)
    BY <2>1, <2>4, StagesAre
  <2>6. ASSUME NEW t \in Stages(o), Number[p] < Number[t], Number[t] < Number[s]
        PROVE  s = "nbest" /\ t = "words" /\ OnMorphemes(o)
    <3>1. /\ t \in Formats \ {"plain", "senttok"}
          /\ t \in {"rdisamb", "coref", "vdisamb", "svm"} => o.direction = "esqu"
          /\ t \in {"statlexdisamb", "vprepdisamb", "mwsplit", "pronoun", "future", "vprefix"} => o.direction = "esde"
      BY StagesAre
    <3>2. QED
      BY <1>1, <1>2, <1>4, <2>6, <3>1, <2>2, <2>3, FromIs, FormatsAre, Numbers, SMTT(60)
  <2>7. QED
    BY <2>1, <2>5, <2>6
<1>5. QED
  BY <1>3, <1>4

LEMMA ChainStart ==
    ASSUME NEW o \in Options, Readable(o), OnMorphemes(o) => o.informat # "words", NEW s \in Stages(o)
    PROVE  Prev(o, s) = o.informat \/ Prev(o, s) \in Stages(o)
<1> DEFINE p == Prev(o, s)
           b == Number[o.informat]
<1>1. /\ p \in Formats /\ Number[p] < Number[s] /\ b < Number[s]
      /\ Number[p] > b => p \in Stages(o)
  BY ChainDown, StagesAre
<1>2. o.direction \in {"esqu", "esde"} /\ o.informat \in Formats \ {"nbest"} /\ s \in Formats \ {"plain", "senttok"}
  BY OptionFields, StagesAre
<1>3. Number[p] \in 1 .. 30 /\ b \in 1 .. 30
  BY <1>1, <1>2, NumbersDiffer
<1>4. Number[p] = b => p = o.informat
  BY <1>1, <1>2, NumbersDiffer
<1>5. CASE Number[p] < b
  <2>1. /\ s \in {"rdisamb", "coref", "vdisamb", "svm"} => o.direction = "esqu"
        /\ s \in {"statlexdisamb", "vprepdisamb", "mwsplit", "pronoun", "future", "vprefix"} => o.direction = "esde"
    BY StagesAre
  <2>2. CASE o.informat \in {"plain", "senttok"}
    <3>1. s # "tagged"
      BY <1>3, <1>5, FromIs
    <3>2. Number[p] >= 3
      BY <1>2, <3>1, FromIs, Numbers, FormatsAre
    <3>3. QED
      BY <1>3, <1>5, <2>2, <3>2, Numbers
  <2>3. CASE \E u \in DOMAIN From(o) \cap Stages(o) : From(o)[u] = o.informat
    <3>1. PICK u \in Stages(o) : u \in DOMAIN From(o) /\ From(o)[u] = o.informat
      BY <2>3
    <3>2. Prev(o, u) = o.informat /\ u \in Formats \ {"plain", "senttok", "tagged"}
      BY <3>1, FromDomain DEF Prev
    <3>3. /\ u \in {"rdisamb", "coref", "vdisamb", "svm"} => o.direction = "esqu"
          /\ u \in {"statlexdisamb", "vprepdisamb", "mwsplit", "pronoun", "future", "vprefix"} => o.direction = "esde"
      BY StagesAre
    <3>4. QED
      BY <1>1, <1>2, <1>5, <2>1, <3>2, <3>3, FromIs, FormatsAre, Numbers, SMTT(60)
  <2>4. QED
    BY <2>2, <2>3 DEF Readable
<1>6. QED
  BY <1>1, <1>3, <1>4, <1>5

LEMMA NextIs ==
    ASSUME NEW o \in Options, NEW s \in Formats, s # "nbest"
    PROVE  LET n == NextStage(o, s) IN
           /\ n \in Stages(o) /\ n \in Formats /\ Number[s] < Number[n]
           /\ \A t \in Stages(o) : Number[s] < Number[t] => Number[n] <= Number[t]
<1> DEFINE later == {t \in Stages(o) : Number[s] < Number[t]}
           numbers == {Number[t] : t \in later}
<1>1. later \subseteq Formats
  BY StagesAre
<1>2. "nbest" \in later
  <2>1. o.informat \in Formats \ {"nbest"} /\ "nbest" \in Formats
    BY OptionFields, FormatsAre
  <2>2. Number[o.informat] < 30 /\ Number[s] < 30
    BY <2>1, Numbers, NumbersDiffer
  <2>3. QED
    BY <2>1, <2>2, StagesAre, Numbers
<1>3. numbers \subseteq Nat /\ numbers # {}
  BY <1>1, <1>2, NumbersDiffer
<1>4. PICK k \in numbers : \A m \in numbers : k <= m
  BY <1>3, LeastNumber
<1>5. \E t \in later : \A u \in later : Number[t] <= Number[u]
  BY <1>4
<1>6. NextStage(o, s) = CHOOSE t \in later : \A u \in later : Number[t] <= Number[u]
  BY DEF NextStage
<1> HIDE DEF later
<1>7. NextStage(o, s) \in later /\ \A u \in later : Number[NextStage(o, s)] <= Number[u]
  BY <1>5, <1>6
<1>8. QED
  BY <1>1, <1>7 DEF later

\* What the next stage works on is what this one has made.
LEMMA NextFollows ==
    ASSUME NEW o \in Options, Readable(o), OnMorphemes(o) => o.informat # "words",
           NEW s \in Stages(o) \cup {o.informat}, s # "nbest",
           ~(OnMorphemes(o) /\ s = "words")
    PROVE  Prev(o, NextStage(o, s)) = s
<1> DEFINE n == NextStage(o, s)
           p == Prev(o, n)
           b == Number[o.informat]
<1>1. s \in Formats /\ o.informat \in Formats /\ (s # o.informat => s \in Stages(o)) /\ Number[s] >= b
  BY StagesAre, OptionFields, NumbersDiffer
<1>2. /\ n \in Stages(o) /\ n \in Formats /\ Number[s] < Number[n]
      /\ \A t \in Stages(o) : Number[s] < Number[t] => Number[n] <= Number[t]
  BY <1>1, NextIs
<1> HIDE DEF n
<1>3. /\ p \in Formats /\ Number[p] < Number[n]
      /\ p = o.informat \/ p \in Stages(o)
      /\ s \in Stages(o) => \/ ~(Number[p] < Number[s] /\ Number[s] < Number[n])
                            \/ (n = "nbest" /\ s = "words" /\ OnMorphemes(o))
  BY <1>2, ChainDown, ChainStart
<1>4. /\ Number[p] \in 1 .. 30 /\ Number[s] \in 1 .. 30 /\ Number[n] \in 1 .. 30 /\ b \in 1 .. 30
      /\ Number[p] = Number[s] => p = s
  BY <1>1, <1>2, <1>3, NumbersDiffer
<1>5. p \in Stages(o) => Number[p] > b
  BY StagesAre
<1>6. Number[p] >= b
  BY <1>3, <1>4, <1>5
<1>7. Number[p] = Number[s]
  <2>1. CASE Number[p] < Number[s]
    BY <1>1, <1>2, <1>3, <1>4, <1>6, <2>1
  <2>2. CASE Number[p] > Number[s]
    BY <1>1, <1>2, <1>3, <1>4, <2>2
  <2>3. QED
    BY <1>4, <2>1, <2>2
<1>8. QED
  BY <1>4, <1>7 DEF n

LEMMA NextByName ==
    ASSUME NEW o \in Options
    PROVE  /\ "morph" \in Stages(o) \cup {o.informat} => NextStage(o, "morph") = "words"
           /\ "words" \in Stages(o) \cup {o.informat} => NextStage(o, "words") = "nbest"
<1>1. /\ "morph" \in Formats /\ "words" \in Formats /\ "nbest" \in Formats /\ o.informat \in Formats
  BY FormatsAre, OptionFields
<1>2. ASSUME "morph" \in Stages(o) \cup {o.informat} PROVE NextStage(o, "morph") = "words"
  <2>1. "words" \in Stages(o)
    <3>1. Number[o.informat] <= 28
      BY <1>1, <1>2, StagesAre, Numbers, NumbersDiffer
    <3>2. QED
      BY <1>1, <3>1, StagesAre, Numbers, NumbersDiffer
  <2>2. LET n == NextStage(o, "morph") IN n \in Formats /\ 28 < Number[n] /\ Number[n] <= 29
    BY <1>1, <2>1, NextIs, Numbers
  <2>3. QED
    BY <1>1, <2>2, NumbersDiffer, Numbers
<1>3. ASSUME "words" \in Stages(o) \cup {o.informat} PROVE NextStage(o, "words") = "nbest"
  <2>2. LET n == NextStage(o, "words") IN n \in Formats /\ 29 < Number[n]
    BY <1>1, NextIs, Numbers
  <2>3. QED
    BY <1>1, <2>2, NumbersDiffer, Numbers
<1>4. QED
  BY <1>2, <1>3

LEMMA OrderIs == Order \in Seq(Formats) /\ Distinct(Order) /\ Len(Order) = 30 /\ DOMAIN Order = 1 .. 30
<1>1. Len(Order) = 30 /\ DOMAIN Order = 1 .. 30
  BY DEF Order
<1>2. Order \in Seq(Formats)
  BY FormatsAre DEF Order
<1>3. QED
  BY <1>1, <1>2, OrderDistinct DEF Distinct

\* The stages that lead to format f.
Leading(o, f) == {s \in Stages(o) : Number[s] <= Number[f] /\ (RankedFile(o) = "morph" => s # "words")}

LEMMA PathIs ==
    ASSUME NEW o \in Options, NEW f \in Formats
    PROVE  /\ Path(o, f) = <<o.informat>> \o Only(Order, Leading(o, f))
           /\ <<o.informat>> \in Seq(Formats) /\ Only(Order, Leading(o, f)) \in Seq(Formats)
           /\ Path(o, f) \in Seq(Formats)
<1>1. Path(o, f) = <<o.informat>> \o Only(Order, Leading(o, f))
  BY DEF Path, Leading
<1>2. <<o.informat>> \in Seq(Formats)
  BY OptionFields
<1>3. Only(Order, Leading(o, f)) \in Seq(Formats)
  BY OrderIs, OnlyType
<1>4. QED
  BY <1>1, <1>2, <1>3, ConcatProperties

LEMMA PathStart ==
    ASSUME NEW o \in Options
    PROVE  Path(o, o.informat) = <<o.informat>>
<1>1. o.informat \in Formats
  BY OptionFields
<1>2. Leading(o, o.informat) = {}
  <2>1. \A s \in Stages(o) : ~(Number[s] <= Number[o.informat])
    BY <1>1, StagesAre, NumbersDiffer
  <2>2. QED
    BY <2>1 DEF Leading
<1>3. Only(Order, {}) = <<>>
  BY OrderIs, OnlyNone
<1>4. /\ Path(o, o.informat) = <<o.informat>> \o <<>>
      /\ <<o.informat>> \in Seq(Formats)
  BY <1>1, <1>2, <1>3, PathIs
<1>5. QED
  BY <1>4, ConcatEmptySeq

\* A stage adds itself to the way of the text.
LEMMA PathOn ==
    ASSUME NEW o \in Options, Readable(o), OnMorphemes(o) => o.informat # "words",
           NEW s \in Stages(o), ~(OnMorphemes(o) /\ s = "words")
    PROVE  Path(o, s) = Append(Path(o, Prev(o, s)), s)
<1> DEFINE p == Prev(o, s)
           n == Number[s]
           S == Leading(o, p)
<1>1. /\ s \in Formats /\ p \in Formats /\ Number[p] < Number[s]
      /\ p = o.informat \/ p \in Stages(o)
      /\ \A t \in Stages(o) : ~(Number[p] < Number[t] /\ Number[t] < Number[s])
                                   \/ (s = "nbest" /\ t = "words" /\ OnMorphemes(o))
  BY StagesAre, ChainDown, ChainStart
<1>2. n \in 1 .. 30 /\ Number[p] \in 1 .. 30 /\ Order[n] = s
  <2>1. PICK i \in DOMAIN Order : Order[i] = s
    BY <1>1 DEF Formats
  <2>2. n = i
    BY <2>1, NumberOf
  <2>3. QED
    BY <1>1, <2>1, <2>2, NumbersDiffer
<1>3. Leading(o, s) = S \cup {s}
  <2>1. ASSUME NEW t \in Leading(o, s), t # s PROVE t \in S
    <3>1. /\ t \in Stages(o) /\ t \in Formats /\ Number[t] <= Number[s]
          /\ OnMorphemes(o) => t # "words"
      BY <2>1, StagesAre DEF Leading, OnMorphemes
    <3>2. Number[t] < Number[s]
      BY <1>1, <2>1, <3>1, NumbersDiffer
    <3>3. Number[t] <= Number[p]
      BY <1>1, <1>2, <3>1, <3>2, NumbersDiffer
    <3>4. QED
      BY <3>1, <3>3 DEF Leading, OnMorphemes
  <2>2. ASSUME NEW t \in S PROVE t \in Leading(o, s)
    <3>1. /\ t \in Stages(o) /\ t \in Formats /\ Number[t] <= Number[p]
          /\ RankedFile(o) = "morph" => t # "words"
      BY StagesAre DEF Leading
    <3>2. Number[t] <= Number[s]
      BY <1>1, <1>2, <3>1, NumbersDiffer
    <3>3. QED
      BY <3>1, <3>2 DEF Leading
  <2>3. s \in Leading(o, s)
    BY <1>2 DEF Leading, OnMorphemes
  <2>4. QED
    BY <2>1, <2>2, <2>3
<1>4. \A i \in n .. 30 : Order[i] \notin S
  <2>1. SUFFICES ASSUME NEW i \in n .. 30, Number[Order[i]] <= Number[p] PROVE FALSE
    BY DEF Leading
  <2>2. i \in DOMAIN Order
    <3>1. i \in 1 .. 30
      BY <1>2
    <3>2. DOMAIN Order = 1 .. 30
      BY OrderIs
    <3>3. QED
      BY <3>1, <3>2
  <2>3. QED
    BY <1>1, <1>2, <2>1, <2>2, NumberOf
<1>5. Only(Order, S \cup {s}) = Append(Only(Order, S), s)
  <2>1. /\ Order \in Seq(Formats) /\ Distinct(Order) /\ n \in 1 .. Len(Order)
        /\ \A i \in n .. Len(Order) : Order[i] \notin S
    BY <1>2, <1>4, OrderIs
  <2> HIDE DEF n, S
  <2>2. Only(Order, S \cup {Order[n]}) = Append(Only(Order, S), Order[n])
    BY <2>1, OnlyNext
  <2>3. QED
    BY <1>2, <2>2
<1>6. /\ Path(o, s) = Cat(<<o.informat>>, Only(Order, Leading(o, s)))
      /\ Path(o, p) = Cat(<<o.informat>>, Only(Order, S))
      /\ <<o.informat>> \in Seq(Formats) /\ Only(Order, S) \in Seq(Formats)
  BY <1>1, PathIs DEF Cat
<1>7. Cat(<<o.informat>>, Append(Only(Order, S), s)) = Append(Cat(<<o.informat>>, Only(Order, S)), s)
  <2> DEFINE q == Only(Order, S)
             h == <<o.informat>>
  <2>1. h \in Seq(Formats) /\ q \in Seq(Formats) /\ s \in Formats
    BY <1>1, <1>6
  <2> HIDE DEF q, h
  <2>2. Cat(h, Append(q, s)) = Append(Cat(h, q), s)
    BY <2>1, CatOfAppend
  <2>3. QED
    BY <2>2 DEF q, h
<1>8. QED
  BY <1>3, <1>5, <1>6, <1>7

-------------------------------------------------------------------------------
(***************************************************************************)
(* What the actions leave alone.                                           *)
(***************************************************************************)
Texts == [of : Runs \cup {Older, Nobody}, via : Seq(Formats)]

PipelineTypes ==
    /\ opts \in [Runs -> Options]
    /\ stage \in [Runs -> Formats]
    /\ step \in [Runs -> {"store", "work", "clean", "print"}]
    /\ status \in [Runs -> {"checking", "running", "done", "refused", "died"}]
    /\ data \in [Runs -> Texts] /\ stdin \in [Runs -> Texts] /\ output \in [Runs -> Texts]
    /\ tmp \in [TmpFiles -> Texts]

Ordered(o) == Number[o.informat] < Number[o.outformat]

Entry(o, s) == IF Stores(o, s) THEN "store" ELSE "work"

\* Where a run may be.
Control(r) ==
    LET o == opts[r] IN
    /\ Ordered(o) \/ status[r] \in {"checking", "died"}
    /\ status[r] = "checking" => stage[r] = o.informat
    /\ status[r] = "running" =>
          /\ stage[r] \in Stages(o)
          /\ step[r] = "store" => Stores(o, stage[r])
          /\ step[r] = "clean" => stage[r] = "words" /\ o.direction = "esde"
          /\ step[r] = "print" => o.outformat = stage[r]
          /\ Supported(o) => Number[stage[r]] <= Number[o.outformat]

Own(r) == <<stage[r], step[r], status[r], data[r], stdin[r], output[r]>>

\* A step of r is none of the other runs, and ends where r may be.
StepOf(r) ==
    /\ PipelineTypes' /\ opts' = opts /\ Control(r)'
    /\ \A q \in Runs \ {r} : Own(q)' = Own(q)

LEMMA Nowhere == Nothing \in Texts /\ Nothing.of = Nobody
<1>1. <<>> \in Seq(Formats)
  BY EmptySeq
<1>2. QED
  BY <1>1 DEF Nothing, Texts

LEMMA GivenText ==
    ASSUME NEW r \in Runs, opts \in [Runs -> Options]
    PROVE  Given(r) \in Texts /\ Given(r).of = r /\ Given(r) # Nothing
<1>1. <<opts[r].informat>> \in Seq(Formats)
  BY OptionFields
<1>2. QED
  BY <1>1, NamesAssumption DEF Given, Texts, Nothing

LEMMA TranslatedText ==
    ASSUME NEW text \in Texts, NEW s \in Formats
    PROVE  Translated(text, s) \in Texts /\ Translated(text, s).of = text.of
<1>1. text.via \in Seq(Formats) /\ text = [of |-> text.of, via |-> text.via]
  BY DEF Texts
<1>2. Append(text.via, s) \in Seq(Formats)
  BY <1>1, AppendProperties
<1> DEFINE v == Append(text.via, s)
<1>3. [text EXCEPT !.via = Append(@, s)] = [of |-> text.of, via |-> v]
  BY <1>1
<1> HIDE DEF v
<1>4. [of |-> text.of, via |-> v] \in Texts
  BY <1>2 DEF Texts, v
<1>5. QED
  BY <1>3, <1>4 DEF Translated

Enters(r) ==
    /\ stage'[r] = NextStage(opts[r], stage[r])
    /\ step'[r] = Entry(opts[r], stage'[r])
    /\ status'[r] = "running"

\* What a run still has to do, if it is not at its end.
OnItsWay(r) ==
    /\ status[r] \in {"checking", "running"} /\ Ordered(opts[r])
    /\ stage[r] # "nbest" /\ stage[r] # opts[r].outformat

LEMMA EnterEffect ==
    ASSUME PipelineTypes, NEW r \in Runs, stage[r] # "nbest", EnterNextStage(r)
    PROVE  /\ stage' \in [Runs -> Formats]
           /\ step' \in [Runs -> {"store", "work", "clean", "print"}]
           /\ stage'[r] = NextStage(opts[r], stage[r])
           /\ step'[r] = Entry(opts[r], stage'[r])
           /\ \A q \in Runs \ {r} : stage'[q] = stage[q] /\ step'[q] = step[q]
<1> DEFINE n == NextStage(opts[r], stage[r])
<1>1. n \in Formats
  BY NextIs DEF PipelineTypes
<1>2. /\ stage' = [stage EXCEPT ![r] = n]
      /\ step' = [step EXCEPT ![r] = Entry(opts[r], n)]
  BY DEF EnterNextStage, Entry
<1>3. Entry(opts[r], n) \in {"store", "work"}
  BY DEF Entry
<1> HIDE DEF n
<1>4. stage \in [Runs -> Formats] /\ step \in [Runs -> {"store", "work", "clean", "print"}]
  BY DEF PipelineTypes
<1>5. stage'[r] = n /\ step'[r] = Entry(opts[r], n)
  BY <1>2, <1>4
<1>6. \A q \in Runs \ {r} : stage'[q] = stage[q] /\ step'[q] = step[q]
  BY <1>2, <1>4
<1>7. stage' \in [Runs -> Formats] /\ step' \in [Runs -> {"store", "work", "clean", "print"}]
  BY <1>1, <1>2, <1>3, <1>4
<1>8. QED
  BY <1>5, <1>6, <1>7 DEF n

LEMMA EnterControl ==
    ASSUME PipelineTypes, NEW r \in Runs, Control(r), OnItsWay(r), opts' = opts, Enters(r)
    PROVE  Control(r)'
<1> DEFINE o == opts[r]
           s == stage[r]
           n == stage'[r]
<1>1. o \in Options /\ s \in Formats /\ s # "nbest" /\ s # o.outformat /\ Ordered(o)
  BY DEF PipelineTypes, OnItsWay
<1>2. /\ n \in Stages(o) /\ n \in Formats /\ Number[s] < Number[n]
      /\ \A t \in Stages(o) : Number[s] < Number[t] => Number[n] <= Number[t]
  BY <1>1, NextIs DEF Enters
<1>3. status[r] \in {"checking", "running"} /\ status'[r] = "running" /\ step'[r] = Entry(o, n)
  BY DEF OnItsWay, Enters
<1>4. ASSUME Supported(o) PROVE Number[n] <= Number[o.outformat]
  <2>1. o.outformat \in Stages(o) /\ o.outformat \in Formats
    BY <1>1, <1>4, SupportedMeans, StagesAre
  <2>2. Number[s] <= Number[o.outformat]
    <3>1. CASE status[r] = "checking"
      <4>1. s = o.informat
        BY <3>1 DEF Control
      <4>2. QED
        BY <1>1, <2>1, <4>1, NumbersDiffer DEF Ordered
    <3>2. CASE status[r] = "running"
      BY <1>4, <3>2 DEF Control
    <3>3. QED
      BY <1>3, <3>1, <3>2
  <2>3. Number[s] < Number[o.outformat]
    BY <1>1, <2>1, <2>2, NumbersDiffer
  <2>4. QED
    BY <1>2, <2>1, <2>3
<1>5. /\ step'[r] = "store" => Stores(o, n)
      /\ step'[r] # "clean" /\ step'[r] # "print"
  BY <1>3 DEF Entry
<1>6. opts'[r] = o
  OBVIOUS
<1> HIDE DEF o, n
<1>7. QED
  BY <1>1, <1>2, <1>3, <1>4, <1>5, <1>6 DEF Control, n

LEMMA FinishEffect ==
    ASSUME PipelineTypes, NEW r \in Runs, status[r] = "running", stage[r] # "nbest", NEW text \in Texts,
           Finish(r, text)
    PROVE  /\ opts' = opts
           /\ stage' \in [Runs -> Formats]
           /\ step' \in [Runs -> {"store", "work", "clean", "print"}]
           /\ status' \in [Runs -> {"checking", "running", "done", "refused", "died"}]
           /\ data' \in [Runs -> Texts] /\ output' \in [Runs -> Texts]
           /\ \A q \in Runs \ {r} : /\ stage'[q] = stage[q] /\ step'[q] = step[q] /\ status'[q] = status[q]
                                    /\ data'[q] = data[q] /\ output'[q] = output[q]
           /\ data'[r] = text
           /\ \/ /\ opts[r].outformat = stage[r]
                 /\ stage'[r] = stage[r] /\ step'[r] = step[r] /\ status'[r] = "done"
                 /\ output'[r] = text
              \/ /\ opts[r].outformat # stage[r]
                 /\ Enters(r) /\ output'[r] = output[r]
<1>1. data' = [data EXCEPT ![r] = text] /\ opts' = opts
  BY DEF Finish
<1>2. CASE opts[r].outformat = stage[r]
  <2>1. /\ output' = [output EXCEPT ![r] = text] /\ status' = [status EXCEPT ![r] = "done"]
        /\ stage' = stage /\ step' = step
    BY <1>2 DEF Finish, Emit, Stop
  <2>2. QED
    BY <1>1, <1>2, <2>1 DEF PipelineTypes
<1>3. CASE opts[r].outformat # stage[r]
  <2>1. EnterNextStage(r) /\ status' = status /\ output' = output
    BY <1>3 DEF Finish
  <2>2. /\ stage' \in [Runs -> Formats]
        /\ step' \in [Runs -> {"store", "work", "clean", "print"}]
        /\ stage'[r] = NextStage(opts[r], stage[r])
        /\ step'[r] = Entry(opts[r], stage'[r])
        /\ \A q \in Runs \ {r} : stage'[q] = stage[q] /\ step'[q] = step[q]
    BY <2>1, EnterEffect
  <2>3. Enters(r)
    BY <2>1, <2>2 DEF Enters
  <2>4. QED
    BY <1>1, <1>3, <2>1, <2>2, <2>3 DEF PipelineTypes
<1>4. QED
  BY <1>2, <1>3

LEMMA StopEffect ==
    ASSUME PipelineTypes, NEW r \in Runs, NEW how \in {"done", "refused", "died"}, Stop(r, how)
    PROVE  /\ stage' = stage /\ step' = step
           /\ status' \in [Runs -> {"checking", "running", "done", "refused", "died"}]
           /\ status'[r] = how
           /\ \A q \in Runs \ {r} : status'[q] = status[q]
BY DEF PipelineTypes, Stop

\* A run that stops is where it may be.
LEMMA StopControl ==
    ASSUME PipelineTypes, NEW r \in Runs, Control(r), status[r] = "running" \/ ~Ordered(opts[r]), opts' = opts,
           stage'[r] = stage[r],
           status'[r] \in {"done", "refused", "died"}, status[r] # "running" => status'[r] = "died"
    PROVE  Control(r)'
<1>1. Ordered(opts[r]) \/ status'[r] \in {"checking", "died"}
  BY DEF Control
<1>2. opts'[r] = opts[r]
  OBVIOUS
<1>3. QED
  BY <1>1, <1>2 DEF Control

-------------------------------------------------------------------------------
(***************************************************************************)
(* What a run finds in the directory tmp.                                  *)
(***************************************************************************)
New(f) == tmp[f].of # Older

\* The block reads --file.
ReadsGiven(o, s) == o.file /\ o.informat = Prev(o, s)

\* No file that run r has still to read is one that an older run left.
Passed(r) ==
    LET o == opts[r]
        At2(s, p) == stage[r] = s /\ step[r] = p
    IN /\ At2("tagged", "work") /\ ~o.file => New("txt")
       /\ At2("parsed", "work") /\ Stores(o, "parsed") => New("conll")
       /\ At2("lextrans", "work") /\ Stores(o, "lextrans") => New("xml")
       /\ At2("morph", "print") => New("morph")
       /\ At2("words", "work") => ReadsGiven(o, "words") \/ New("morph")
       /\ At2("words", "clean") => New("morphword")
       /\ At2("words", "print") => New("words")
       /\ At2("nbest", "work") /\ ~(OnMorphemes(o) /\ o.informat = "words")
            => ReadsGiven(o, "nbest") \/ New(RankedFile(o))

NothingOlder(r) ==
    /\ stdin[r].of # Older /\ data[r].of # Older
    /\ output[r].of = Older => OnMorphemes(opts[r]) /\ opts[r].informat = "words"
    /\ status[r] = "running" => Passed(r)

\* What a supported and undisturbed run has.
Text(r, f) == [of |-> r, via |-> Path(opts[r], f)]

Fresh(r) == ~opts[r].file => stdin[r] = Given(r)

Stored(r) ==
    LET o == opts[r]
        At2(s, p) == stage[r] = s /\ step[r] = p
    IN /\ At2("tagged", "work") /\ ~o.file => tmp["txt"] = Given(r)
       /\ At2("parsed", "work") /\ Stores(o, "parsed") => tmp["conll"] = Text(r, "conll")
       /\ At2("lextrans", "work") /\ Stores(o, "lextrans") => tmp["xml"] = Text(r, Prev(o, "lextrans"))
       /\ At2("morph", "print") => tmp["morph"] = Text(r, "morph")
       /\ At2("words", "work") /\ ~ReadsGiven(o, "words") => tmp["morph"] = Text(r, "morph")
       /\ At2("words", "clean") => tmp["morphword"] = Text(r, "morph")
       /\ At2("words", "print") => tmp["words"] = Text(r, "words")
       /\ At2("nbest", "work") /\ ~ReadsGiven(o, "nbest") => tmp[RankedFile(o)] = Text(r, RankedFile(o))

HasText(r) ==
    LET o == opts[r]
        s == stage[r]
    IN /\ status[r] \notin {"died", "refused"}
       /\ status[r] = "checking" => Fresh(r)
       /\ status[r] = "running" =>
             /\ Prev(o, s) = o.informat /\ step[r] = Entry(o, s) => Fresh(r)
             /\ Prev(o, s) # o.informat /\ s \notin {"words", "nbest"} /\ step[r] # "print"
                  => data[r] = Text(r, Prev(o, s))
             /\ Stored(r)
       /\ status[r] = "done" => output[r] = Text(r, o.outformat)

\* In what a step of r writes there is nothing old, and a supported run keeps to its files
\* and to its text.
Works(r) ==
    /\ NothingOlder(r) => NothingOlder(r)' /\ \A f \in TmpFiles : New(f)' \/ tmp'[f] = tmp[f]
    /\ Supported(opts[r]) =>
          /\ \A f \in TmpFiles \ Writes(opts[r]) : tmp'[f] = tmp[f]
          /\ HasText(r) => HasText(r)'

LEMMA TextFacts ==
    ASSUME NEW r \in Runs, opts \in [Runs -> Options], Supported(opts[r])
    PROVE  /\ Given(r) = Text(r, opts[r].informat)
           /\ \A f \in Formats : Text(r, f) \in Texts /\ Text(r, f) # Nothing
           /\ \A s \in Stages(opts[r]) : ~(OnMorphemes(opts[r]) /\ s = "words") =>
                 Translated(Text(r, Prev(opts[r], s)), s) = Text(r, s)
<1> DEFINE o == opts[r]
<1>1. o \in Options
  OBVIOUS
<1>2. Given(r) = Text(r, o.informat)
  BY <1>1, PathStart DEF Given, Text
<1>3. ASSUME NEW f \in Formats PROVE Text(r, f) \in Texts /\ Text(r, f) # Nothing
  <2>1. Path(o, f) \in Seq(Formats)
    BY <1>1, PathIs
  <2>2. r # Nobody
    BY NamesAssumption
  <2>3. QED
    BY <2>1, <2>2 DEF Text, Texts, Nothing
<1>4. ASSUME NEW s \in Stages(o), ~(OnMorphemes(o) /\ s = "words")
      PROVE  Translated(Text(r, Prev(o, s)), s) = Text(r, s)
  <2>1. Readable(o) /\ (OnMorphemes(o) => o.informat # "words")
    BY <1>1, SupportedMeans
  <2>2. Path(o, s) = Append(Path(o, Prev(o, s)), s)
    BY <1>1, <1>4, <2>1, PathOn
  <2>3. Prev(o, s) \in Formats
    BY <1>1, ChainDown
  <2> DEFINE t == Text(r, Prev(o, s))
  <2>4. t # Nothing /\ t = [of |-> r, via |-> Path(o, Prev(o, s))]
    BY <1>3, <2>3 DEF Text
  <2> HIDE DEF t, o
  <2>5. Translated(t, s) = [t EXCEPT !.via = Append(@, s)]
    BY <2>4 DEF Translated
  <2>6. [t EXCEPT !.via = Append(@, s)] = [of |-> r, via |-> Append(Path(o, Prev(o, s)), s)]
    BY <2>4
  <2>7. QED
    BY <2>2, <2>5, <2>6 DEF t, Text, o
<1>5. QED
  BY <1>2, <1>3, <1>4

LEMMA InputLeft ==
    ASSUME PipelineTypes, NEW r \in Runs, stdin' = stdin \/ stdin' = [stdin EXCEPT ![r] = Nothing]
    PROVE  /\ stdin' \in [Runs -> Texts]
           /\ \A q \in Runs \ {r} : stdin'[q] = stdin[q]
           /\ stdin[r].of # Older => stdin'[r].of # Older
<1>1. stdin \in [Runs -> Texts]
  BY DEF PipelineTypes
<1>2. Nothing.of # Older
  BY Nowhere, NamesAssumption
<1>3. CASE stdin' = stdin
  BY <1>1, <1>3
<1>4. CASE stdin' = [stdin EXCEPT ![r] = Nothing]
  BY <1>1, <1>2, <1>4, Nowhere
<1>5. QED
  BY <1>3, <1>4

\* A text that is kept or used up by the next block.
LEMMA FinishWorks ==
    ASSUME PipelineTypes, NEW r \in Runs, Control(r),
           NEW s \in Formats \ {"morph", "words", "nbest"}, At(r, s, "work"),
           NEW text \in Texts, Finish(r, text),
           tmp' = tmp, stdin' = stdin \/ stdin' = [stdin EXCEPT ![r] = Nothing],
           NothingOlder(r) => text.of # Older,
           Supported(opts[r]) /\ HasText(r) => text = Text(r, s)
    PROVE  StepOf(r) /\ Works(r)
<1> DEFINE o == opts[r]
           n == stage'[r]
<1>1. o \in Options /\ status[r] = "running" /\ stage[r] = s /\ step[r] = "work" /\ s \in Stages(o) /\ Ordered(o)
  BY DEF PipelineTypes, At, Control
<1>2. /\ opts' = opts
      /\ stage' \in [Runs -> Formats]
      /\ step' \in [Runs -> {"store", "work", "clean", "print"}]
      /\ status' \in [Runs -> {"checking", "running", "done", "refused", "died"}]
      /\ data' \in [Runs -> Texts] /\ output' \in [Runs -> Texts]
      /\ \A q \in Runs \ {r} : /\ stage'[q] = stage[q] /\ step'[q] = step[q] /\ status'[q] = status[q]
                               /\ data'[q] = data[q] /\ output'[q] = output[q]
      /\ data'[r] = text
      /\ \/ /\ o.outformat = s
            /\ stage'[r] = stage[r] /\ step'[r] = step[r] /\ status'[r] = "done"
            /\ output'[r] = text
         \/ /\ o.outformat # s
            /\ Enters(r) /\ output'[r] = output[r]
  BY <1>1, FinishEffect
<1>3. /\ stdin' \in [Runs -> Texts] /\ \A q \in Runs \ {r} : stdin'[q] = stdin[q]
      /\ stdin[r].of # Older => stdin'[r].of # Older
  BY InputLeft
<1>4. PipelineTypes'
  BY <1>2, <1>3 DEF PipelineTypes
<1>5. Control(r)'
  <2>1. CASE o.outformat = s
    BY <1>1, <1>2, <2>1, StopControl
  <2>2. CASE o.outformat # s
    BY <1>1, <1>2, <2>2, EnterControl DEF OnItsWay
  <2>3. QED
    BY <2>1, <2>2
<1>6. StepOf(r)
  BY <1>2, <1>3, <1>4, <1>5 DEF StepOf, Own
<1>7. CASE o.outformat = s
  <2>1. status'[r] = "done" /\ output'[r] = text /\ opts'[r] = opts[r]
    BY <1>2, <1>7
  <2>2. ASSUME NothingOlder(r) PROVE NothingOlder(r)'
    BY <1>2, <1>3, <2>1, <2>2 DEF NothingOlder
  <2>3. ASSUME Supported(o), HasText(r) PROVE HasText(r)'
    <3>1. text = Text(r, s)
      BY <2>3
    <3>2. Text(r, s)' = Text(r, s)
      BY <1>2 DEF Text
    <3>3. QED
      BY <1>7, <2>1, <3>1, <3>2 DEF HasText
  <2>4. QED
    BY <1>6, <2>2, <2>3 DEF Works
<1>8. CASE o.outformat # s
  <2>1. /\ status'[r] = "running" /\ output'[r] = output[r] /\ opts'[r] = o /\ data'[r] = text
        /\ n = NextStage(o, s) /\ step'[r] = Entry(o, n)
    BY <1>1, <1>2, <1>8 DEF Enters
  <2>2. n \in Stages(o) /\ n \in Formats /\ Number[n] > Number[s]
    BY <1>1, <2>1, NextIs
  <2>3. n # "tagged" /\ n # "words" /\ n # "nbest"
    <3>1. n # "tagged"
      BY <1>1, <2>2, StagesAre, FormatsAre, Numbers
    <3>2. Number[s] < 28
      BY FormatsAre, Numbers
    <3>3. "morph" \in Stages(o)
      <4>1. Number[o.informat] < Number[s] /\ o.informat \in Formats
        BY <1>1, StagesAre, OptionFields
      <4>2. Number[o.informat] < 28
        BY <3>2, <4>1, NumbersDiffer
      <4>3. "morph" \in Formats \ {"plain", "senttok"} /\ Number["morph"] = 28
        BY FormatsAre, Numbers
      <4>4. QED
        BY <1>1, <4>2, <4>3, StagesAre
    <3>4. Number[n] <= 28
      BY <1>1, <2>1, <3>2, <3>3, NextIs, Numbers
    <3>5. QED
      BY <3>1, <3>4, Numbers
  <2>4. /\ step'[r] # "print" /\ step'[r] # "clean"
        /\ step'[r] = "work" => ~Stores(o, n)
    BY <2>1 DEF Entry
  <2>5. ASSUME NothingOlder(r) PROVE NothingOlder(r)'
    <3>1. Passed(r)'
      BY <2>1, <2>3, <2>4 DEF Passed
    <3>2. stdin[r].of # Older /\ (output[r].of = Older => OnMorphemes(o) /\ o.informat = "words")
      BY <2>5 DEF NothingOlder
    <3>3. text.of # Older
      BY <2>5
    <3>4. QED
      BY <1>3, <2>1, <3>1, <3>2, <3>3 DEF NothingOlder
  <2>6. ASSUME Supported(o), HasText(r) PROVE HasText(r)'
    <3>1. text = Text(r, s) /\ \A f : Text(r, f)' = Text(r, f)
      BY <1>2, <2>6 DEF Text
    <3>2. Prev(o, n) = s /\ s # o.informat
      <4>1. s # "nbest" /\ s # "words" /\ Number[o.informat] < Number[s]
        BY <1>1, StagesAre
      <4>2. Number[s] \in 1 .. 30
        BY NumbersDiffer
      <4>3. QED
        BY <1>1, <2>1, <2>6, <4>1, <4>2, NextFollows, SupportedMeans
    <3>3. Stored(r)'
      BY <2>1, <2>3, <2>4 DEF Stored
    <3>4. QED
      BY <2>1, <3>1, <3>2, <3>3 DEF HasText
  <2>7. QED
    BY <1>6, <2>5, <2>6 DEF Works
<1>9. QED
  BY <1>7, <1>8

LEMMA DieWorks ==
    ASSUME PipelineTypes, NEW r \in Runs, Control(r), status[r] = "running", Die(r),
           stdin' = stdin \/ stdin' = [stdin EXCEPT ![r] = Nothing],
           tmp' \in [TmpFiles -> Texts], \A f \in TmpFiles : New(f)' \/ tmp'[f] = tmp[f],
           ~(Supported(opts[r]) /\ HasText(r)),
           Supported(opts[r]) => \A f \in TmpFiles \ Writes(opts[r]) : tmp'[f] = tmp[f]
    PROVE  StepOf(r) /\ Works(r)
<1>1. /\ stage' = stage /\ step' = step
      /\ status' \in [Runs -> {"checking", "running", "done", "refused", "died"}]
      /\ status'[r] = "died"
      /\ \A q \in Runs \ {r} : status'[q] = status[q]
      /\ opts' = opts /\ data' = data /\ output' = output
  BY StopEffect DEF Die
<1>2. /\ stdin' \in [Runs -> Texts] /\ \A q \in Runs \ {r} : stdin'[q] = stdin[q]
      /\ stdin[r].of # Older => stdin'[r].of # Older
  BY InputLeft
<1>3. PipelineTypes'
  BY <1>1, <1>2 DEF PipelineTypes
<1>4. Control(r)'
  BY <1>1, StopControl
<1>5. StepOf(r)
  BY <1>1, <1>2, <1>3, <1>4 DEF StepOf, Own
<1>6. NothingOlder(r) => NothingOlder(r)'
  BY <1>1, <1>2 DEF NothingOlder
<1>7. QED
  BY <1>5, <1>6 DEF Works

LEMMA InputText ==
    ASSUME PipelineTypes, NEW r \in Runs, status[r] = "running"
    PROVE  /\ Input(r) \in Texts
           /\ NothingOlder(r) => Input(r).of # Older
           /\ \A s : ConsumesInput(r) => stdin' = stdin \/ stdin' = [stdin EXCEPT ![r] = Nothing]
           /\ Supported(opts[r]) /\ HasText(r) /\ Prev(opts[r], stage[r]) = opts[r].informat
                 /\ step[r] = Entry(opts[r], stage[r])
                => Input(r) = Text(r, Prev(opts[r], stage[r]))
<1>1. /\ opts \in [Runs -> Options] /\ stdin \in [Runs -> Texts]
  BY DEF PipelineTypes
<1>2. Given(r) \in Texts /\ Given(r).of # Older
  BY <1>1, GivenText, NamesAssumption
<1>3. Input(r) \in Texts /\ (NothingOlder(r) => Input(r).of # Older)
  BY <1>1, <1>2 DEF Input, NothingOlder
<1>4. ConsumesInput(r) => stdin' = stdin \/ stdin' = [stdin EXCEPT ![r] = Nothing]
  <2>1. [stdin EXCEPT ![r] = stdin[r]] = stdin
    BY <1>1
  <2>2. QED
    BY <2>1 DEF ConsumesInput
<1>5. ASSUME Supported(opts[r]), HasText(r), Prev(opts[r], stage[r]) = opts[r].informat,
             step[r] = Entry(opts[r], stage[r])
      PROVE  Input(r) = Text(r, Prev(opts[r], stage[r]))
  <2>1. Fresh(r)
    BY <1>5 DEF HasText
  <2>2. Input(r) = Given(r)
    BY <2>1 DEF Input, Fresh
  <2>3. QED
    BY <1>1, <1>5, <2>2, TextFacts
<1>6. QED
  BY <1>3, <1>4, <1>5

\* What most of the blocks work on.
Taken(r, s) == IF opts[r].informat = From(opts[r])[s] THEN Input(r) ELSE data[r]

LEMMA TakenText ==
    ASSUME PipelineTypes, NEW r \in Runs, Control(r), NEW s, At(r, s, "work"), ~Stores(opts[r], s),
           s \notin {"tagged", "words", "nbest"}
    PROVE  /\ s \in Formats /\ Taken(r, s) \in Texts
           /\ NothingOlder(r) => Taken(r, s).of # Older
           /\ Supported(opts[r]) /\ HasText(r) =>
                /\ Taken(r, s) # Nothing
                /\ Taken(r, s) = Text(r, Prev(opts[r], s))
                /\ Translated(Taken(r, s), s) = Text(r, s)
<1> DEFINE o == opts[r]
           p == Prev(o, s)
<1>1. /\ status[r] = "running" /\ stage[r] = s /\ step[r] = Entry(o, s) /\ s \in Stages(o) /\ s \in Formats
      /\ o \in Options /\ opts \in [Runs -> Options] /\ data \in [Runs -> Texts]
  BY StagesAre DEF At, PipelineTypes, Control, Entry
<1>2. p = From(o)[s]
  BY DEF Prev
<1>3. /\ Input(r) \in Texts
      /\ NothingOlder(r) => Input(r).of # Older
      /\ Supported(o) /\ HasText(r) /\ p = o.informat => Input(r) = Text(r, p)
  BY <1>1, InputText
<1>4. Taken(r, s) \in Texts /\ (NothingOlder(r) => Taken(r, s).of # Older)
  BY <1>1, <1>3 DEF Taken, NothingOlder
<1>5. ASSUME Supported(o), HasText(r)
      PROVE  Taken(r, s) # Nothing /\ Taken(r, s) = Text(r, p) /\ Translated(Taken(r, s), s) = Text(r, s)
  <2>1. p # o.informat => data[r] = Text(r, p)
    <3>1. step[r] # "print"
      BY <1>1 DEF Entry
    <3>2. QED
      BY <1>1, <1>5, <3>1 DEF HasText
  <2>2. Taken(r, s) = Text(r, p)
    BY <1>2, <1>3, <1>5, <2>1 DEF Taken
  <2>3. p \in Formats
    BY <1>1, ChainDown
  <2>4. QED
    BY <1>1, <1>5, <2>2, <2>3, TextFacts
<1>6. QED
  BY <1>1, <1>4, <1>5

LEMMA TagWorks ==
    ASSUME PipelineTypes, NEW r \in Runs, Control(r), Tag(r)
    PROVE  StepOf(r) /\ Works(r)
<1> DEFINE o == opts[r]
           source == IF o.file THEN Given(r) ELSE tmp["txt"]
<1>1. /\ At(r, "tagged", "work") /\ Finish(r, Translated(source, "tagged")) /\ tmp' = tmp /\ stdin' = stdin
      /\ opts \in [Runs -> Options] /\ o \in Options
      /\ "tagged" \in Formats \ {"morph", "words", "nbest"} /\ "txt" \in TmpFiles /\ "tagged" \in Stages(o)
  BY FormatsAre DEF Tag, PipelineTypes, TmpFiles, Control, At
<1>2. source \in Texts
  BY <1>1, GivenText DEF PipelineTypes
<1>3. NothingOlder(r) => source.of # Older
  BY <1>1, GivenText, NamesAssumption DEF NothingOlder, Passed, At, New
<1>4. Supported(o) /\ HasText(r) => source = Text(r, Prev(o, "tagged"))
  BY <1>1, TextFacts, FromIs DEF HasText, Stored, At
<1>5. Supported(o) /\ HasText(r) => Translated(source, "tagged") = Text(r, "tagged")
  BY <1>1, <1>4, TextFacts
<1>6. Translated(source, "tagged") \in Texts /\ Translated(source, "tagged").of = source.of
  BY <1>1, <1>2, TranslatedText
<1> HIDE DEF source
<1>7. QED
  BY <1>1, <1>3, <1>5, <1>6, FinishWorks

LEMMA ConvertWorks ==
    ASSUME PipelineTypes, NEW r \in Runs, Control(r), NEW s, Convert(r, s)
    PROVE  StepOf(r) /\ Works(r)
<1> DEFINE o == opts[r]
           t == Translated(Taken(r, s), s)
<1>1. s \in {"conll", "conll2xml"} /\ At(r, s, "work") /\ status[r] = "running"
  BY DEF Convert, At
<1>2. s \in Formats \ {"morph", "words", "nbest"} /\ s # "tagged" /\ ~Stores(o, s)
  BY <1>1, FormatsAre DEF Stores
<1>3. Finish(r, t) /\ tmp' = tmp /\ (stdin' = stdin \/ stdin' = [stdin EXCEPT ![r] = Nothing])
  BY <1>1, InputText DEF Convert, Taken
<1>4. /\ Taken(r, s) \in Texts
      /\ NothingOlder(r) => Taken(r, s).of # Older
      /\ Supported(o) /\ HasText(r) => t = Text(r, s)
  BY <1>1, <1>2, TakenText
<1>5. t \in Texts /\ t.of = Taken(r, s).of
  BY <1>2, <1>4, TranslatedText
<1> HIDE DEF t
<1>6. QED
  BY <1>1, <1>2, <1>3, <1>4, <1>5, FinishWorks

LEMMA TransformWorks ==
    ASSUME PipelineTypes, NEW r \in Runs, Control(r), NEW s \in TransformedIn, Transform(r, s)
    PROVE  StepOf(r) /\ Works(r)
<1> DEFINE o == opts[r]
           t == Translated(Taken(r, s), s)
<1>1. At(r, s, "work") /\ status[r] = "running"
  BY DEF Transform, At
<1>2. s \in Formats \ {"morph", "words", "nbest"} /\ s # "tagged" /\ ~Stores(o, s)
  BY FormatsAre DEF Stores, TransformedIn, EsquOnly, EsdeOnly, Selection, SyntacticTransfer, Ordering
<1>3. /\ IF Taken(r, s) = Nothing THEN Die(r) ELSE Finish(r, t)
      /\ tmp' = tmp /\ (stdin' = stdin \/ stdin' = [stdin EXCEPT ![r] = Nothing])
  BY <1>1, InputText DEF Transform, Taken
<1>4. /\ Taken(r, s) \in Texts
      /\ NothingOlder(r) => Taken(r, s).of # Older
      /\ Supported(o) /\ HasText(r) => Taken(r, s) # Nothing /\ t = Text(r, s)
  BY <1>1, <1>2, TakenText
<1>5. t \in Texts /\ t.of = Taken(r, s).of
  BY <1>2, <1>4, TranslatedText
<1>6. tmp' \in [TmpFiles -> Texts]
  BY <1>3 DEF PipelineTypes
<1> HIDE DEF t
<1>7. CASE Taken(r, s) = Nothing
  BY <1>1, <1>3, <1>4, <1>6, <1>7, DieWorks
<1>8. CASE Taken(r, s) # Nothing
  BY <1>1, <1>2, <1>3, <1>4, <1>5, <1>8, FinishWorks
<1>9. QED
  BY <1>7, <1>8

\* The file that the block of stage s may start by filling.
Filled(o, s) ==
    IF s = "tagged" THEN "txt" ELSE IF s = "parsed" THEN "conll" ELSE IF s = "lextrans" THEN "xml"
    ELSE IF s = "words" THEN "morph" ELSE RankedFile(o)

LEMMA StoreWorks ==
    ASSUME PipelineTypes, NEW r \in Runs, Control(r), NEW s, At(r, s, "store"), NEW text \in Texts,
           Store(r, Filled(opts[r], s), text),
           stdin' = stdin \/ stdin' = [stdin EXCEPT ![r] = Nothing],
           NothingOlder(r) => text.of # Older,
           Supported(opts[r]) /\ HasText(r) => text = Text(r, Prev(opts[r], s))
    PROVE  StepOf(r) /\ Works(r)
<1> DEFINE o == opts[r]
           f == Filled(o, s)
<1>1. /\ o \in Options /\ opts \in [Runs -> Options] /\ s \in Stages(o) /\ Stores(o, s) /\ stage[r] = s
      /\ step[r] = "store" /\ status[r] = "running" /\ tmp \in [TmpFiles -> Texts]
      /\ step \in [Runs -> {"store", "work", "clean", "print"}]
      /\ Supported(o) => Number[s] <= Number[o.outformat]
  BY DEF At, Control, PipelineTypes
<1>2. s \in {"tagged", "parsed", "lextrans", "words", "nbest"}
  BY <1>1 DEF Stores
<1>3. f \in TmpFiles
  BY <1>2 DEF Filled, TmpFiles, RankedFile
<1>4. /\ tmp' = [tmp EXCEPT ![f] = text] /\ step' = [step EXCEPT ![r] = "work"]
      /\ opts' = opts /\ stage' = stage /\ status' = status /\ data' = data /\ output' = output
  BY DEF Store
<1>5. /\ stdin' \in [Runs -> Texts] /\ \A q \in Runs \ {r} : stdin'[q] = stdin[q]
      /\ stdin[r].of # Older => stdin'[r].of # Older
  BY InputLeft
<1>6. tmp'[f] = text /\ \A g \in TmpFiles \ {f} : tmp'[g] = tmp[g]
  BY <1>1, <1>3, <1>4
<1>7. step'[r] = "work" /\ \A q \in Runs \ {r} : step'[q] = step[q]
  BY <1>1, <1>4
<1>8. tmp' \in [TmpFiles -> Texts] /\ step' \in [Runs -> {"store", "work", "clean", "print"}]
  BY <1>1, <1>3, <1>4
<1>9. PipelineTypes'
  BY <1>4, <1>5, <1>8 DEF PipelineTypes
<1>10. Control(r)'
  BY <1>4, <1>7 DEF Control
<1>11. StepOf(r)
  BY <1>4, <1>5, <1>7, <1>9, <1>10 DEF StepOf, Own
<1>12. ASSUME NothingOlder(r)
       PROVE  NothingOlder(r)' /\ \A g \in TmpFiles : New(g)' \/ tmp'[g] = tmp[g]
  <2>1. tmp'[f].of # Older /\ \A g \in TmpFiles \ {f} : tmp'[g] = tmp[g]
    BY <1>6, <1>12
  <2>2. Passed(r)'
    BY <1>1, <1>2, <1>4, <1>7, <2>1 DEF Passed, Filled, New
  <2>3. \A g \in TmpFiles : New(g)' \/ tmp'[g] = tmp[g]
    BY <2>1 DEF New
  <2>4. QED
    BY <1>1, <1>4, <1>5, <1>12, <2>2, <2>3 DEF NothingOlder
<1>13. ASSUME Supported(o) PROVE \A g \in TmpFiles \ Writes(o) : tmp'[g] = tmp[g]
  <2>1. f \in Writes(o)
    <3>1. s \in {t \in Stages(o) : Number[t] <= Number[o.outformat]}
      BY <1>1, <1>13
    <3>2. s \in {"words", "nbest"} => o.informat = From(o)[s] /\ ~o.file
      BY <1>1 DEF Stores
    <3>3. From(o)["words"] = "morph" /\ From(o)["nbest"] = RankedFile(o)
      BY DEF From, RankedFile
    <3>4. QED
      BY <1>1, <1>2, <1>3, <3>1, <3>2, <3>3 DEF Writes, Filled, RankedFile
  <2>2. QED
    BY <1>6, <2>1
<1>14. ASSUME Supported(o), HasText(r) PROVE HasText(r)'
  <2>1. tmp'[f] = Text(r, Prev(o, s)) /\ \A g : Text(r, g)' = Text(r, g)
    BY <1>4, <1>6, <1>14 DEF Text
  <2>2. Given(r)' = Given(r) /\ Given(r) = Text(r, o.informat)
    BY <1>1, <1>4, <1>14, TextFacts DEF Given
  <2>3. /\ Prev(o, "tagged") = o.informat /\ Prev(o, "parsed") = "conll" /\ Prev(o, "words") = "morph"
        /\ Prev(o, "nbest") = RankedFile(o)
    BY <1>1, FromIs DEF OnMorphemes, RankedFile
  <2>4. opts'[r] = o
    BY <1>4
  <2>5. Stored(r)'
    BY <1>1, <1>2, <1>4, <1>7, <2>1, <2>2, <2>3, <2>4 DEF Stored, Filled
  <2>6. Prev(o, s) # o.informat /\ s \notin {"words", "nbest"} => data'[r] = Text(r, Prev(o, s))
    BY <1>1, <1>4, <1>14 DEF HasText
  <2>7. step'[r] # Entry(o, s)
    BY <1>1, <1>7 DEF Entry
  <2>8. QED
    BY <1>1, <1>4, <1>7, <2>1, <2>4, <2>5, <2>6, <2>7 DEF HasText
<1>15. QED
  BY <1>11, <1>12, <1>13, <1>14 DEF Works

\* What was given on standard input is what is stored.
LEMMA StoreInputWorks ==
    ASSUME PipelineTypes, NEW r \in Runs, Control(r), NEW s, At(r, s, "store"),
           StoreInput(r, Filled(opts[r], s)),
           Supported(opts[r]) => Prev(opts[r], s) = opts[r].informat /\ ~opts[r].file
    PROVE  StepOf(r) /\ Works(r)
<1>1. /\ opts \in [Runs -> Options] /\ stdin[r] \in Texts /\ stage[r] = s /\ step[r] = "store"
      /\ status[r] = "running" /\ Stores(opts[r], s)
  BY DEF PipelineTypes, At, Control
<1>2. Store(r, Filled(opts[r], s), stdin[r]) /\ stdin' = [stdin EXCEPT ![r] = Nothing]
  BY DEF StoreInput
<1>3. NothingOlder(r) => stdin[r].of # Older
  BY DEF NothingOlder
<1>4. ASSUME Supported(opts[r]), HasText(r) PROVE stdin[r] = Text(r, Prev(opts[r], s))
  <2>1. Prev(opts[r], s) = opts[r].informat /\ ~opts[r].file /\ step[r] = Entry(opts[r], s)
    BY <1>1, <1>4 DEF Entry
  <2>2. stdin[r] = Given(r)
    BY <1>1, <1>4, <2>1 DEF HasText, Fresh
  <2>3. QED
    BY <1>1, <1>4, <2>1, <2>2, TextFacts
<1>5. QED
  BY <1>1, <1>2, <1>3, <1>4, StoreWorks

LEMMA StoresWork ==
    ASSUME PipelineTypes, NEW r \in Runs, Control(r),
           StoreText(r) \/ StoreMorph(r) \/ StoreSentences(r)
    PROVE  StepOf(r) /\ Works(r)
<1> DEFINE o == opts[r]
<1>1. o \in Options
  BY DEF PipelineTypes
<1>2. CASE StoreText(r)
  <2>1. At(r, "tagged", "store") /\ StoreInput(r, Filled(o, "tagged")) /\ Stores(o, "tagged")
    BY <1>2 DEF StoreText, Filled, At, Control
  <2>2. Prev(o, "tagged") = o.informat /\ ~o.file
    BY <1>1, <2>1, FromIs DEF Stores
  <2>3. QED
    BY <2>1, <2>2, StoreInputWorks
<1>3. CASE StoreMorph(r)
  <2>1. At(r, "words", "store") /\ StoreInput(r, Filled(o, "words")) /\ Stores(o, "words")
    BY <1>3 DEF StoreMorph, Filled, At, Control
  <2>2. Prev(o, "words") = o.informat /\ ~o.file
    BY <2>1 DEF Stores, Prev
  <2>3. QED
    BY <2>1, <2>2, StoreInputWorks
<1>4. CASE StoreSentences(r)
  <2>1. At(r, "nbest", "store") /\ StoreInput(r, Filled(o, "nbest")) /\ Stores(o, "nbest")
    BY <1>4 DEF StoreSentences, Filled, At, Control
  <2>2. Prev(o, "nbest") = o.informat /\ ~o.file
    BY <2>1 DEF Stores, Prev
  <2>3. QED
    BY <2>1, <2>2, StoreInputWorks
<1>5. QED
  BY <1>2, <1>3, <1>4

LEMMA StoreConllWorks ==
    ASSUME PipelineTypes, NEW r \in Runs, Control(r), StoreConll(r)
    PROVE  StepOf(r) /\ Works(r)
<1> DEFINE o == opts[r]
<1>1. /\ o \in Options /\ At(r, "parsed", "store") /\ Stores(o, "parsed") /\ Filled(o, "parsed") = "conll"
      /\ status[r] = "running" /\ stage[r] = "parsed" /\ step[r] = "store"
      /\ Prev(o, "parsed") = "conll" /\ data[r] \in Texts
  BY FromIs DEF PipelineTypes, StoreConll, At, Control, Filled
<1>2. CASE o.informat = "conll"
  <2>1. StoreInput(r, "conll") /\ ~o.file
    BY <1>1, <1>2 DEF StoreConll, Stores
  <2>2. QED
    BY <1>1, <1>2, <2>1, StoreInputWorks
<1>3. CASE o.informat # "conll"
  <2>1. Store(r, "conll", data[r]) /\ stdin' = stdin
    BY <1>1, <1>3 DEF StoreConll
  <2>2. NothingOlder(r) => data[r].of # Older
    BY DEF NothingOlder
  <2>3. HasText(r) => data[r] = Text(r, Prev(o, "parsed"))
    BY <1>1, <1>3 DEF HasText
  <2>4. QED
    BY <1>1, <2>1, <2>2, <2>3, StoreWorks
<1>4. QED
  BY <1>2, <1>3

LEMMA StoreXmlWorks ==
    ASSUME PipelineTypes, NEW r \in Runs, Control(r), StoreXml(r)
    PROVE  StepOf(r) /\ Works(r)
<1> DEFINE o == opts[r]
           p == Prev(o, "lextrans")
<1>1. /\ o \in Options /\ At(r, "lextrans", "store") /\ Stores(o, "lextrans") /\ Filled(o, "lextrans") = "xml"
      /\ status[r] = "running" /\ stage[r] = "lextrans" /\ step[r] = "store"
      /\ p = From(o)["lextrans"] /\ data[r] \in Texts
  BY DEF PipelineTypes, StoreXml, At, Control, Filled, Prev
<1>2. CASE o.informat = p
  <2>1. StoreInput(r, "xml")
    BY <1>1, <1>2 DEF StoreXml
  <2>2. Supported(o) => ~o.file
    BY <1>1, <1>2, FromIs, SupportedMeans, OptionFields DEF Stores
  <2>3. QED
    BY <1>1, <1>2, <2>1, <2>2, StoreInputWorks
<1>3. CASE o.informat # p /\ data[r] # Nothing
  <2>1. Store(r, "xml", data[r]) /\ stdin' = stdin
    BY <1>1, <1>3 DEF StoreXml
  <2>2. NothingOlder(r) => data[r].of # Older
    BY DEF NothingOlder
  <2>3. HasText(r) => data[r] = Text(r, p)
    BY <1>1, <1>3 DEF HasText
  <2>4. QED
    BY <1>1, <2>1, <2>2, <2>3, StoreWorks
<1>4. CASE o.informat # p /\ data[r] = Nothing
  <2>1. Die(r) /\ tmp' = [tmp EXCEPT !["xml"] = Nothing] /\ stdin' = stdin
    BY <1>1, <1>4 DEF StoreXml
  <2>2. "xml" \in TmpFiles /\ tmp \in [TmpFiles -> Texts] /\ Nothing \in Texts /\ Nothing.of # Older
    BY Nowhere, NamesAssumption DEF TmpFiles, PipelineTypes
  <2>3. tmp' \in [TmpFiles -> Texts] /\ \A f \in TmpFiles : New(f)' \/ tmp'[f] = tmp[f]
    BY <2>1, <2>2 DEF New
  <2>4. ~(Supported(o) /\ HasText(r))
    <3>1. SUFFICES ASSUME Supported(o), HasText(r) PROVE FALSE
      OBVIOUS
    <3>2. data[r] = Text(r, p)
      BY <1>1, <1>4, <3>1 DEF HasText
    <3>3. p \in Formats /\ opts \in [Runs -> Options]
      BY <1>1, ChainDown DEF Control, PipelineTypes
    <3>4. QED
      BY <1>4, <3>1, <3>2, <3>3, TextFacts
  <2>5. Supported(o) => \A f \in TmpFiles \ Writes(o) : tmp'[f] = tmp[f]
    <3>1. Supported(o) => "xml" \in Writes(o)
      BY <1>1, <2>2 DEF Control, Writes
    <3>2. QED
      BY <2>1, <2>2, <3>1
  <2>6. QED
    BY <1>1, <2>1, <2>3, <2>4, <2>5, DieWorks
<1>5. QED
  BY <1>2, <1>3, <1>4

LEMMA ParseWorks ==
    ASSUME PipelineTypes, NEW r \in Runs, Control(r), Parse(r)
    PROVE  StepOf(r) /\ Works(r)
<1> DEFINE o == opts[r]
           source == IF Stores(o, "parsed") THEN tmp["conll"] ELSE Given(r)
<1>1. /\ At(r, "parsed", "work") /\ Finish(r, Translated(source, "parsed")) /\ tmp' = tmp /\ stdin' = stdin
      /\ opts \in [Runs -> Options] /\ o \in Options
      /\ "parsed" \in Formats \ {"morph", "words", "nbest"} /\ "conll" \in TmpFiles /\ "parsed" \in Stages(o)
  BY FormatsAre DEF Parse, PipelineTypes, TmpFiles, Control, At
<1>2. source \in Texts
  BY <1>1, GivenText DEF PipelineTypes
<1>3. NothingOlder(r) => source.of # Older
  BY <1>1, GivenText, NamesAssumption DEF NothingOlder, Passed, At, New
<1>4. Prev(o, "parsed") = "conll" /\ (~Stores(o, "parsed") => o.informat = "conll")
  BY <1>1, FromIs DEF Stores
<1>5. Supported(o) /\ HasText(r) => source = Text(r, Prev(o, "parsed"))
  BY <1>1, <1>4, TextFacts DEF HasText, Stored, At
<1>6. Supported(o) /\ HasText(r) => Translated(source, "parsed") = Text(r, "parsed")
  BY <1>1, <1>5, TextFacts
<1>7. Translated(source, "parsed") \in Texts /\ Translated(source, "parsed").of = source.of
  BY <1>1, <1>2, TranslatedText
<1> HIDE DEF source
<1>8. QED
  BY <1>1, <1>3, <1>6, <1>7, FinishWorks

LEMMA TransferLexicallyWorks ==
    ASSUME PipelineTypes, NEW r \in Runs, Control(r), TransferLexically(r)
    PROVE  StepOf(r) /\ Works(r)
<1> DEFINE o == opts[r]
           xml == IF Stores(o, "lextrans") THEN tmp["xml"] ELSE Given(r)
           p == Prev(o, "lextrans")
<1>1. /\ At(r, "lextrans", "work") /\ status[r] = "running" /\ tmp' = tmp /\ stdin' = stdin
      /\ IF xml = Nothing THEN Die(r) ELSE Finish(r, Translated(xml, "lextrans"))
      /\ opts \in [Runs -> Options] /\ o \in Options /\ tmp' \in [TmpFiles -> Texts]
      /\ "lextrans" \in Formats \ {"morph", "words", "nbest"} /\ "xml" \in TmpFiles /\ "lextrans" \in Stages(o)
  BY FormatsAre DEF TransferLexically, PipelineTypes, TmpFiles, Control, At
<1>2. xml \in Texts
  BY <1>1, GivenText DEF PipelineTypes
<1>3. NothingOlder(r) => xml.of # Older
  BY <1>1, GivenText, NamesAssumption DEF NothingOlder, Passed, At, New
<1>4. Supported(o) /\ ~Stores(o, "lextrans") => o.informat = p
  <2>1. SUFFICES ASSUME Supported(o), ~Stores(o, "lextrans"), o.informat # p PROVE FALSE
    OBVIOUS
  <2>2. o.informat = "svm" /\ (p = "svm" \/ p = "conll2xml")
    BY <1>1, <2>1, FromIs DEF Stores
  <2>3. p \in Stages(o)
    BY <1>1, <2>1, SupportedMeans, ChainStart
  <2>4. Number["svm"] < Number["conll2xml"]
    BY <1>1, <2>1, <2>2, <2>3, StagesAre
  <2>5. QED
    BY <2>4, Numbers
<1>5. Supported(o) /\ HasText(r) => xml = Text(r, p)
  BY <1>1, <1>4, TextFacts DEF HasText, Stored, At
<1>6. p \in Formats
  BY <1>1, ChainDown
<1>7. Supported(o) /\ HasText(r) => xml # Nothing /\ Translated(xml, "lextrans") = Text(r, "lextrans")
  BY <1>1, <1>5, <1>6, TextFacts
<1>8. Translated(xml, "lextrans") \in Texts /\ Translated(xml, "lextrans").of = xml.of
  BY <1>1, <1>2, TranslatedText
<1> HIDE DEF xml
<1>9. CASE xml = Nothing
  BY <1>1, <1>7, <1>9, DieWorks
<1>10. CASE xml # Nothing
  BY <1>1, <1>3, <1>7, <1>8, <1>10, FinishWorks
<1>11. QED
  BY <1>9, <1>10

LEMMA GenerateMorphWorks ==
    ASSUME PipelineTypes, NEW r \in Runs, Control(r), GenerateMorph(r)
    PROVE  StepOf(r) /\ Works(r)
<1> DEFINE o == opts[r]
           dom == Taken(r, "morph")
           t == Translated(dom, "morph")
<1>1. /\ o \in Options /\ opts \in [Runs -> Options] /\ tmp \in [TmpFiles -> Texts] /\ data \in [Runs -> Texts]
      /\ step \in [Runs -> {"store", "work", "clean", "print"}]
      /\ At(r, "morph", "work") /\ status[r] = "running" /\ stage[r] = "morph" /\ step[r] = "work"
      /\ "morph" \in Stages(o) /\ "morph" \in TmpFiles /\ Ordered(o)
      /\ Supported(o) => Number["morph"] <= Number[o.outformat]
      /\ ~Stores(o, "morph")
  BY DEF PipelineTypes, GenerateMorph, At, Control, TmpFiles, Stores
<1>2. /\ stdin' = stdin \/ stdin' = [stdin EXCEPT ![r] = Nothing]
      /\ IF dom = Nothing
         THEN Die(r) /\ (tmp' = tmp \/ tmp' = [tmp EXCEPT !["morph"] = Nothing])
         ELSE /\ tmp' = [tmp EXCEPT !["morph"] = t]
              /\ data' = [data EXCEPT ![r] = dom]
              /\ IF o.outformat = "morph"
                 THEN step' = [step EXCEPT ![r] = "print"] /\ UNCHANGED stage
                 ELSE EnterNextStage(r)
              /\ opts' = opts /\ status' = status /\ output' = output
  BY <1>1, InputText DEF GenerateMorph, Taken
<1>3. /\ dom \in Texts
      /\ NothingOlder(r) => dom.of # Older
      /\ Supported(o) /\ HasText(r) => dom # Nothing /\ t = Text(r, "morph")
  BY <1>1, TakenText
<1>4. t \in Texts /\ t.of = dom.of
  BY <1>3, FormatsAre, TranslatedText
<1>5. Nothing \in Texts /\ Nothing.of # Older
  BY Nowhere, NamesAssumption
<1>6. Supported(o) => "morph" \in Writes(o)
  BY <1>1 DEF Writes
<1> HIDE DEF dom, t
<1>7. CASE dom = Nothing
  <2>1. tmp' \in [TmpFiles -> Texts] /\ (\A f \in TmpFiles : New(f)' \/ tmp'[f] = tmp[f])
    BY <1>1, <1>2, <1>5, <1>7 DEF New
  <2>2. Supported(o) => \A f \in TmpFiles \ Writes(o) : tmp'[f] = tmp[f]
    BY <1>1, <1>2, <1>6, <1>7
  <2>3. QED
    BY <1>1, <1>2, <1>3, <1>7, <2>1, <2>2, DieWorks
<1>8. CASE dom # Nothing
  <2>1. /\ tmp' \in [TmpFiles -> Texts] /\ tmp'["morph"] = t
        /\ \A f \in TmpFiles \ {"morph"} : tmp'[f] = tmp[f]
    BY <1>1, <1>2, <1>4, <1>8
  <2>2. data' \in [Runs -> Texts] /\ data'[r] = dom /\ \A q \in Runs \ {r} : data'[q] = data[q]
    BY <1>1, <1>2, <1>3, <1>8
  <2>3. /\ stdin' \in [Runs -> Texts] /\ \A q \in Runs \ {r} : stdin'[q] = stdin[q]
        /\ stdin[r].of # Older => stdin'[r].of # Older
    BY <1>2, InputLeft
  <2>4. opts' = opts /\ status' = status /\ output' = output
    BY <1>2, <1>8
  <2>5. /\ stage' \in [Runs -> Formats] /\ step' \in [Runs -> {"store", "work", "clean", "print"}]
        /\ \A q \in Runs \ {r} : stage'[q] = stage[q] /\ step'[q] = step[q]
        /\ \/ o.outformat = "morph" /\ stage'[r] = "morph" /\ step'[r] = "print"
           \/ o.outformat # "morph" /\ stage'[r] = "words" /\ step'[r] = "work" /\ Enters(r)
    <3>1. CASE o.outformat = "morph"
      BY <1>1, <1>2, <1>8, <3>1 DEF PipelineTypes
    <3>2. CASE o.outformat # "morph"
      <4>1. EnterNextStage(r)
        BY <1>2, <1>8, <3>2
      <4>2. /\ stage' \in [Runs -> Formats] /\ step' \in [Runs -> {"store", "work", "clean", "print"}]
            /\ \A q \in Runs \ {r} : stage'[q] = stage[q] /\ step'[q] = step[q]
            /\ stage'[r] = NextStage(o, "morph") /\ step'[r] = Entry(o, stage'[r])
        BY <1>1, <4>1, EnterEffect
      <4>3. NextStage(o, "morph") = "words"
        BY <1>1, NextByName
      <4>4. o.informat # "morph"
        BY <1>1, StagesAre, OptionFields, NumbersDiffer
      <4>5. From(o)["words"] = "morph"
        BY DEF From
      <4>6. Entry(o, "words") = "work"
        BY <4>4, <4>5 DEF Entry, Stores
      <4>7. Enters(r)
        BY <1>1, <2>4, <4>2 DEF Enters
      <4>8. QED
        BY <3>2, <4>2, <4>3, <4>6, <4>7
    <3>3. QED
      BY <3>1, <3>2
  <2>6. PipelineTypes'
    BY <2>1, <2>2, <2>3, <2>4, <2>5 DEF PipelineTypes
  <2>7. Control(r)'
    <3>1. CASE o.outformat = "morph"
      BY <1>1, <2>4, <2>5, <3>1 DEF Control
    <3>2. CASE o.outformat # "morph"
      BY <1>1, <2>4, <2>5, <3>2, EnterControl DEF OnItsWay
    <3>3. QED
      BY <3>1, <3>2
  <2>8. StepOf(r)
    BY <2>2, <2>3, <2>4, <2>5, <2>6, <2>7 DEF StepOf, Own
  <2>9. ASSUME NothingOlder(r)
        PROVE  NothingOlder(r)' /\ \A f \in TmpFiles : New(f)' \/ tmp'[f] = tmp[f]
    <3>1. tmp'["morph"].of # Older
      BY <1>3, <1>4, <2>1, <2>9
    <3>2. \A f \in TmpFiles : New(f)' \/ tmp'[f] = tmp[f]
      BY <2>1, <3>1 DEF New
    <3>3. Passed(r)'
      BY <2>5, <3>1 DEF Passed, New
    <3>4. data'[r].of # Older
      BY <1>3, <2>2, <2>9
    <3>5. QED
      BY <2>3, <2>4, <2>9, <3>2, <3>3, <3>4 DEF NothingOlder
  <2>10. Supported(o) => \A f \in TmpFiles \ Writes(o) : tmp'[f] = tmp[f]
    BY <1>6, <2>1
  <2>11. ASSUME Supported(o), HasText(r) PROVE HasText(r)'
    <3>1. tmp'["morph"] = Text(r, "morph") /\ \A g : Text(r, g)' = Text(r, g)
      BY <1>3, <2>1, <2>4, <2>11 DEF Text
    <3>2. Stored(r)'
      BY <2>5, <3>1 DEF Stored
    <3>3. opts'[r] = o /\ status'[r] = "running"
      BY <1>1, <2>4
    <3>4. Prev(o, "words") # o.informat
      BY <1>1, FromIs, StagesAre, OptionFields, NumbersDiffer
    <3>5. step'[r] = "print" => step'[r] # Entry(o, "morph")
      BY DEF Entry
    <3>6. QED
      BY <2>5, <3>1, <3>2, <3>3, <3>4, <3>5 DEF HasText
  <2>12. QED
    BY <2>8, <2>9, <2>10, <2>11 DEF Works
<1>9. QED
  BY <1>7, <1>8

LEMMA MorphText ==
    ASSUME PipelineTypes, NEW r \in Runs, Control(r), At(r, "words", "work")
    PROVE  /\ MorphFile(r) \in Texts
           /\ NothingOlder(r) => MorphFile(r).of # Older
           /\ Supported(opts[r]) /\ HasText(r) => MorphFile(r) = Text(r, "morph")
<1> DEFINE o == opts[r]
<1>1. /\ opts \in [Runs -> Options] /\ o \in Options /\ status[r] = "running" /\ "morph" \in TmpFiles
      /\ stage[r] = "words" /\ step[r] = "work" /\ tmp \in [TmpFiles -> Texts]
  BY DEF PipelineTypes, At, TmpFiles
<1>2. ReadsGiven(o, "words") <=> o.informat = "morph" /\ o.file
  BY <1>1, FromIs DEF ReadsGiven
<1>3. Given(r) \in Texts /\ Given(r).of # Older
  BY <1>1, GivenText, NamesAssumption
<1>4. MorphFile(r) \in Texts
  BY <1>1, <1>3 DEF MorphFile
<1>5. NothingOlder(r) => MorphFile(r).of # Older
  BY <1>1, <1>2, <1>3 DEF NothingOlder, Passed, New, MorphFile
<1>6. Supported(o) /\ HasText(r) => MorphFile(r) = Text(r, "morph")
  BY <1>1, <1>2, TextFacts DEF HasText, Stored, MorphFile
<1>7. QED
  BY <1>4, <1>5, <1>6

LEMMA WroteWordsWorks ==
    ASSUME PipelineTypes, NEW r \in Runs, Control(r), status[r] = "running", stage[r] = "words",
           ~OnMorphemes(opts[r]), NEW text \in Texts, tmp' = [tmp EXCEPT !["words"] = text], WroteWords(r),
           NothingOlder(r) => text.of # Older,
           Supported(opts[r]) /\ HasText(r) => text = Text(r, "words")
    PROVE  StepOf(r) /\ Works(r)
<1> DEFINE o == opts[r]
<1>1. /\ o \in Options /\ tmp \in [TmpFiles -> Texts] /\ "words" \in TmpFiles /\ "words" \in Stages(o) /\ Ordered(o)
      /\ opts' = opts /\ status' = status /\ data' = data /\ stdin' = stdin /\ output' = output
      /\ step \in [Runs -> {"store", "work", "clean", "print"}]
      /\ Supported(o) => Number["words"] <= Number[o.outformat]
      /\ RankedFile(o) = "words"
  BY DEF PipelineTypes, TmpFiles, Control, WroteWords, OnMorphemes, RankedFile
<1>2. /\ tmp' \in [TmpFiles -> Texts] /\ tmp'["words"] = text
      /\ \A f \in TmpFiles \ {"words"} : tmp'[f] = tmp[f]
  BY <1>1
<1>3. /\ stage' \in [Runs -> Formats] /\ step' \in [Runs -> {"store", "work", "clean", "print"}]
      /\ \A q \in Runs \ {r} : stage'[q] = stage[q] /\ step'[q] = step[q]
      /\ \/ o.outformat = "words" /\ stage'[r] = "words" /\ step'[r] = "print"
         \/ o.outformat # "words" /\ stage'[r] = "nbest" /\ step'[r] = "work" /\ Enters(r)
  <2>1. CASE o.outformat = "words"
    BY <1>1, <2>1 DEF PipelineTypes, WroteWords
  <2>2. CASE o.outformat # "words"
    <3>1. EnterNextStage(r)
      BY <2>2 DEF WroteWords
    <3>2. /\ stage' \in [Runs -> Formats] /\ step' \in [Runs -> {"store", "work", "clean", "print"}]
          /\ \A q \in Runs \ {r} : stage'[q] = stage[q] /\ step'[q] = step[q]
          /\ stage'[r] = NextStage(o, "words") /\ step'[r] = Entry(o, stage'[r])
      BY <1>1, <3>1, EnterEffect
    <3>3. NextStage(o, "words") = "nbest"
      BY <1>1, NextByName
    <3>4. o.informat # "words"
      BY <1>1, StagesAre, OptionFields, NumbersDiffer
    <3>5. From(o)["nbest"] = "words"
      BY <1>1 DEF From, RankedFile
    <3>6. Entry(o, "nbest") = "work"
      BY <3>4, <3>5 DEF Entry, Stores
    <3>7. Enters(r)
      BY <1>1, <3>2 DEF Enters
    <3>8. QED
      BY <2>2, <3>2, <3>3, <3>6, <3>7
  <2>3. QED
    BY <2>1, <2>2
<1>4. PipelineTypes'
  BY <1>1, <1>2, <1>3 DEF PipelineTypes
<1>5. Control(r)'
  <2>1. CASE o.outformat = "words"
    BY <1>1, <1>3, <2>1 DEF Control
  <2>2. CASE o.outformat # "words"
    BY <1>1, <1>3, <2>2, EnterControl DEF OnItsWay
  <2>3. QED
    BY <2>1, <2>2
<1>6. StepOf(r)
  BY <1>1, <1>3, <1>4, <1>5 DEF StepOf, Own
<1>7. ASSUME NothingOlder(r)
      PROVE  NothingOlder(r)' /\ \A f \in TmpFiles : New(f)' \/ tmp'[f] = tmp[f]
  <2>1. tmp'["words"].of # Older
    BY <1>2, <1>7
  <2>2. \A f \in TmpFiles : New(f)' \/ tmp'[f] = tmp[f]
    BY <1>2, <2>1 DEF New
  <2>3. Passed(r)'
    BY <1>1, <1>3, <2>1 DEF Passed, New
  <2>4. QED
    BY <1>1, <1>7, <2>2, <2>3 DEF NothingOlder
<1>8. Supported(o) => \A f \in TmpFiles \ Writes(o) : tmp'[f] = tmp[f]
  <2>1. Supported(o) => "words" \in Writes(o)
    BY <1>1 DEF Writes
  <2>2. QED
    BY <1>2, <2>1
<1>9. ASSUME Supported(o), HasText(r) PROVE HasText(r)'
  <2>1. tmp'["words"] = Text(r, "words") /\ \A g : Text(r, g)' = Text(r, g)
    BY <1>1, <1>2, <1>9 DEF Text
  <2>2. Stored(r)'
    BY <1>1, <1>3, <2>1 DEF Stored
  <2>3. opts'[r] = o /\ status'[r] = "running"
    BY <1>1
  <2>4. Prev(o, "nbest") # o.informat
    <3>1. Prev(o, "nbest") = "words"
      BY <1>1, FromIs
    <3>2. QED
      BY <1>1, <3>1, StagesAre, OptionFields, NumbersDiffer
  <2>5. step'[r] = "print" => step'[r] # Entry(o, "words")
    BY DEF Entry
  <2>6. QED
    BY <1>3, <2>2, <2>3, <2>4, <2>5 DEF HasText
<1>10. QED
  BY <1>6, <1>7, <1>8, <1>9 DEF Works

LEMMA GenerateWordsWorks ==
    ASSUME PipelineTypes, NEW r \in Runs, Control(r), GenerateWords(r)
    PROVE  StepOf(r) /\ Works(r)
<1> DEFINE o == opts[r]
           t == Translated(MorphFile(r), "words")
<1>1. /\ At(r, "words", "work") /\ ~OnMorphemes(o) /\ tmp' = [tmp EXCEPT !["words"] = t] /\ WroteWords(r)
      /\ opts \in [Runs -> Options] /\ o \in Options /\ "words" \in Stages(o) /\ status[r] = "running"
      /\ stage[r] = "words"
  BY DEF GenerateWords, OnMorphemes, RankedFile, PipelineTypes, Control, At
<1>2. /\ MorphFile(r) \in Texts
      /\ NothingOlder(r) => MorphFile(r).of # Older
      /\ Supported(o) /\ HasText(r) => MorphFile(r) = Text(r, "morph")
  BY <1>1, MorphText
<1>3. Supported(o) /\ HasText(r) => t = Text(r, "words")
  BY <1>1, <1>2, TextFacts, FromIs
<1>4. t \in Texts /\ t.of = MorphFile(r).of
  BY <1>2, FormatsAre, TranslatedText
<1> HIDE DEF t
<1>5. QED
  BY <1>1, <1>2, <1>3, <1>4, WroteWordsWorks

LEMMA CleanFstOutputWorks ==
    ASSUME PipelineTypes, NEW r \in Runs, Control(r), CleanFstOutput(r)
    PROVE  StepOf(r) /\ Works(r)
<1> DEFINE o == opts[r]
           t == Translated(tmp["morphword"], "words")
<1>1. /\ At(r, "words", "clean") /\ tmp' = [tmp EXCEPT !["words"] = t] /\ WroteWords(r)
      /\ opts \in [Runs -> Options] /\ o \in Options /\ "words" \in Stages(o) /\ status[r] = "running"
      /\ stage[r] = "words" /\ step[r] = "clean" /\ o.direction = "esde"
  BY DEF CleanFstOutput, PipelineTypes, Control, At
<1>2. ~OnMorphemes(o)
  BY <1>1 DEF OnMorphemes, RankedFile
<1>3. tmp["morphword"] \in Texts
  BY DEF PipelineTypes, TmpFiles
<1>4. NothingOlder(r) => tmp["morphword"].of # Older
  BY <1>1 DEF NothingOlder, Passed, New
<1>5. Supported(o) /\ HasText(r) => tmp["morphword"] = Text(r, "morph")
  BY <1>1 DEF HasText, Stored
<1>6. Supported(o) /\ HasText(r) => t = Text(r, "words")
  BY <1>1, <1>2, <1>5, TextFacts, FromIs
<1>7. t \in Texts /\ t.of = tmp["morphword"].of
  BY <1>3, FormatsAre, TranslatedText
<1> HIDE DEF t
<1>8. QED
  BY <1>1, <1>2, <1>4, <1>6, <1>7, WroteWordsWorks

LEMMA GenerateMorphWordWorks ==
    ASSUME PipelineTypes, NEW r \in Runs, Control(r), GenerateMorphWord(r)
    PROVE  StepOf(r) /\ Works(r)
<1> DEFINE o == opts[r]
           t == MorphFile(r)
<1>1. /\ At(r, "words", "work") /\ o.direction = "esde" /\ tmp' = [tmp EXCEPT !["morphword"] = t]
      /\ step' = [step EXCEPT ![r] = "clean"] /\ opts' = opts /\ stage' = stage /\ status' = status
      /\ data' = data /\ stdin' = stdin /\ output' = output
      /\ tmp \in [TmpFiles -> Texts] /\ "morphword" \in TmpFiles /\ "words" \in Stages(o)
      /\ status[r] = "running" /\ stage[r] = "words"
      /\ step \in [Runs -> {"store", "work", "clean", "print"}]
      /\ Supported(o) => Number["words"] <= Number[o.outformat]
  BY DEF GenerateMorphWord, PipelineTypes, Control, At, TmpFiles
<1>2. /\ t \in Texts
      /\ NothingOlder(r) => t.of # Older
      /\ Supported(o) /\ HasText(r) => t = Text(r, "morph")
  BY <1>1, MorphText
<1> HIDE DEF t
<1>3. /\ tmp' \in [TmpFiles -> Texts] /\ tmp'["morphword"] = t
      /\ \A f \in TmpFiles \ {"morphword"} : tmp'[f] = tmp[f]
  BY <1>1, <1>2
<1>4. /\ step' \in [Runs -> {"store", "work", "clean", "print"}] /\ step'[r] = "clean"
      /\ \A q \in Runs \ {r} : step'[q] = step[q]
  BY <1>1
<1>5. PipelineTypes'
  BY <1>1, <1>3, <1>4 DEF PipelineTypes
<1>6. Control(r)'
  BY <1>1, <1>4 DEF Control
<1>7. StepOf(r)
  BY <1>1, <1>4, <1>5, <1>6 DEF StepOf, Own
<1>8. ASSUME NothingOlder(r)
      PROVE  NothingOlder(r)' /\ \A f \in TmpFiles : New(f)' \/ tmp'[f] = tmp[f]
  <2>1. tmp'["morphword"].of # Older
    BY <1>2, <1>3, <1>8
  <2>2. \A f \in TmpFiles : New(f)' \/ tmp'[f] = tmp[f]
    BY <1>3, <2>1 DEF New
  <2>3. Passed(r)'
    BY <1>1, <1>4, <2>1 DEF Passed, New
  <2>4. QED
    BY <1>1, <1>8, <2>2, <2>3 DEF NothingOlder
<1>9. Supported(o) => \A f \in TmpFiles \ Writes(o) : tmp'[f] = tmp[f]
  <2>1. Supported(o) => "morphword" \in Writes(o)
    BY <1>1 DEF Writes
  <2>2. QED
    BY <1>3, <2>1
<1>10. ASSUME Supported(o), HasText(r) PROVE HasText(r)'
  <2>1. tmp'["morphword"] = Text(r, "morph") /\ \A g : Text(r, g)' = Text(r, g)
    BY <1>1, <1>2, <1>3, <1>10 DEF Text
  <2>2. Stored(r)'
    BY <1>1, <1>4, <2>1 DEF Stored
  <2>3. step'[r] # Entry(o, "words")
    BY <1>4 DEF Entry
  <2>4. opts'[r] = o /\ status'[r] = "running" /\ stage'[r] = "words"
    BY <1>1
  <2>5. QED
    BY <1>4, <2>2, <2>3, <2>4 DEF HasText
<1>11. QED
  BY <1>7, <1>8, <1>9, <1>10 DEF Works

LEMMA SkipWordsWorks ==
    ASSUME PipelineTypes, NEW r \in Runs, Control(r), SkipWords(r)
    PROVE  StepOf(r) /\ Works(r)
<1> DEFINE o == opts[r]
<1>1. /\ o \in Options /\ status[r] = "running" /\ stage[r] = "words" /\ step[r] = "work" /\ "words" \in Stages(o)
      /\ Ordered(o) /\ OnMorphemes(o) /\ RankedFile(o) = "morph"
      /\ opts' = opts /\ data' = data /\ stdin' = stdin /\ output' = output /\ tmp' = tmp
      /\ IF o.outformat = "words" THEN Stop(r, "refused") ELSE EnterNextStage(r) /\ status' = status
  BY DEF PipelineTypes, SkipWords, At, Control, OnMorphemes, RankedFile
<1>2. CASE o.outformat = "words"
  <2>1. /\ stage' = stage /\ step' = step
        /\ status' \in [Runs -> {"checking", "running", "done", "refused", "died"}]
        /\ status'[r] = "refused"
        /\ \A q \in Runs \ {r} : status'[q] = status[q]
    BY <1>1, <1>2, StopEffect
  <2>2. PipelineTypes'
    BY <1>1, <2>1 DEF PipelineTypes
  <2>3. Control(r)'
    BY <1>1, <2>1, StopControl
  <2>4. StepOf(r)
    BY <1>1, <2>1, <2>2, <2>3 DEF StepOf, Own
  <2>5. ~Supported(o)
    BY <1>1, <1>2, SupportedMeans
  <2>6. NothingOlder(r) => NothingOlder(r)'
    BY <1>1, <2>1 DEF NothingOlder
  <2>7. QED
    BY <1>1, <2>4, <2>5, <2>6 DEF Works
<1>3. CASE o.outformat # "words"
  <2>1. EnterNextStage(r) /\ status' = status
    BY <1>1, <1>3
  <2>2. /\ stage' \in [Runs -> Formats] /\ step' \in [Runs -> {"store", "work", "clean", "print"}]
        /\ \A q \in Runs \ {r} : stage'[q] = stage[q] /\ step'[q] = step[q]
        /\ stage'[r] = NextStage(o, "words") /\ step'[r] = Entry(o, stage'[r])
    BY <1>1, <2>1, EnterEffect
  <2>3. stage'[r] = "nbest" /\ status'[r] = "running" /\ Enters(r)
    BY <1>1, <2>1, <2>2, NextByName DEF Enters
  <2>4. PipelineTypes'
    BY <1>1, <2>1, <2>2 DEF PipelineTypes
  <2>5. Control(r)'
    BY <1>1, <1>3, <2>3, EnterControl DEF OnItsWay
  <2>6. StepOf(r)
    BY <1>1, <2>1, <2>2, <2>4, <2>5 DEF StepOf, Own
  <2>7. Prev(o, "words") = "morph" /\ Prev(o, "nbest") = "morph"
    BY <1>1, FromIs
  <2>8. ReadsGiven(o, "words") <=> ReadsGiven(o, "nbest")
    BY <2>7 DEF ReadsGiven
  <2>9. ASSUME NothingOlder(r) PROVE NothingOlder(r)'
    <3>1. ReadsGiven(o, "nbest") \/ New("morph")
      BY <1>1, <2>8, <2>9 DEF NothingOlder, Passed
    <3>2. Passed(r)'
      BY <1>1, <2>3, <3>1 DEF Passed, New
    <3>3. QED
      BY <1>1, <2>3, <2>9, <3>2 DEF NothingOlder
  <2>10. ASSUME Supported(o), HasText(r) PROVE HasText(r)'
    <3>1. ~ReadsGiven(o, "nbest") => tmp["morph"] = Text(r, "morph")
      BY <1>1, <2>8, <2>10 DEF HasText, Stored
    <3>2. \A g : Text(r, g)' = Text(r, g)
      BY <1>1 DEF Text
    <3>3. opts'[r] = o
      BY <1>1
    <3>4. Stored(r)'
      BY <1>1, <2>3, <3>1, <3>2, <3>3 DEF Stored
    <3>5. Prev(o, "nbest") = o.informat => Fresh(r)'
      <4>1. o.informat = "morph" => o.file
        BY <1>1, <2>10, SupportedMeans, OptionFields
      <4>2. QED
        BY <2>7, <3>3, <4>1 DEF Fresh
    <3>6. QED
      BY <2>3, <3>3, <3>4, <3>5 DEF HasText
  <2>11. QED
    BY <1>1, <2>6, <2>9, <2>10 DEF Works
<1>4. QED
  BY <1>2, <1>3

LEMMA EndWorks ==
    ASSUME PipelineTypes, NEW r \in Runs, Control(r), status[r] = "running", NEW text \in Texts,
           Emit(r, text), Stop(r, "done"), opts' = opts, data' = data, stdin' = stdin, tmp' = tmp,
           NothingOlder(r) /\ text.of = Older => OnMorphemes(opts[r]) /\ opts[r].informat = "words",
           Supported(opts[r]) /\ HasText(r) => text = Text(r, opts[r].outformat)
    PROVE  StepOf(r) /\ Works(r)
<1>1. /\ stage' = stage /\ step' = step
      /\ status' \in [Runs -> {"checking", "running", "done", "refused", "died"}]
      /\ status'[r] = "done"
      /\ \A q \in Runs \ {r} : status'[q] = status[q]
  BY StopEffect
<1>2. /\ output' \in [Runs -> Texts] /\ output'[r] = text
      /\ \A q \in Runs \ {r} : output'[q] = output[q]
  BY DEF Emit, PipelineTypes
<1>3. PipelineTypes'
  BY <1>1, <1>2 DEF PipelineTypes
<1>4. Control(r)'
  BY <1>1, StopControl
<1>5. StepOf(r)
  BY <1>1, <1>2, <1>3, <1>4 DEF StepOf, Own
<1>6. NothingOlder(r) => NothingOlder(r)'
  BY <1>1, <1>2 DEF NothingOlder
<1>7. ASSUME Supported(opts[r]), HasText(r) PROVE HasText(r)'
  <2>1. \A g : Text(r, g)' = Text(r, g)
    BY DEF Text
  <2>2. text = Text(r, opts[r].outformat)
    BY <1>7
  <2>3. QED
    BY <1>1, <1>2, <2>1, <2>2 DEF HasText
<1>8. QED
  BY <1>5, <1>6, <1>7 DEF Works

LEMMA PrintFileWorks ==
    ASSUME PipelineTypes, NEW r \in Runs, Control(r), PrintFile(r)
    PROVE  StepOf(r) /\ Works(r)
<1>1. /\ Stop(r, "done") /\ opts' = opts /\ data' = data /\ stdin' = stdin /\ tmp' = tmp
      /\ status[r] = "running" /\ opts[r].outformat = stage[r]
      /\ tmp["morph"] \in Texts /\ tmp["words"] \in Texts
  BY DEF PrintFile, At, Control, PipelineTypes, TmpFiles
<1>2. CASE At(r, "morph", "print") /\ Emit(r, tmp["morph"])
  <2>1. NothingOlder(r) => tmp["morph"].of # Older
    BY <1>2 DEF NothingOlder, Passed, New, At
  <2>2. HasText(r) => tmp["morph"] = Text(r, "morph")
    BY <1>2 DEF HasText, Stored, At
  <2>3. opts[r].outformat = "morph"
    BY <1>1, <1>2 DEF At
  <2>4. QED
    BY <1>1, <1>2, <2>1, <2>2, <2>3, EndWorks
<1>3. CASE At(r, "words", "print") /\ Emit(r, tmp["words"])
  <2>1. NothingOlder(r) => tmp["words"].of # Older
    BY <1>3 DEF NothingOlder, Passed, New, At
  <2>2. HasText(r) => tmp["words"] = Text(r, "words")
    BY <1>3 DEF HasText, Stored, At
  <2>3. opts[r].outformat = "words"
    BY <1>1, <1>3 DEF At
  <2>4. QED
    BY <1>1, <1>3, <2>1, <2>2, <2>3, EndWorks
<1>4. QED
  BY <1>2, <1>3 DEF PrintFile

LEMMA RankWorks ==
    ASSUME PipelineTypes, NEW r \in Runs, Control(r), Rank(r)
    PROVE  StepOf(r) /\ Works(r)
<1> DEFINE o == opts[r]
           given == o.informat = From(o)["nbest"] /\ o.file
           text == IF given THEN Given(r) ELSE tmp[RankedFile(o)]
           t == Translated(text, "nbest")
<1>1. /\ At(r, "nbest", "work") /\ Emit(r, t) /\ Stop(r, "done")
      /\ opts' = opts /\ data' = data /\ stdin' = stdin /\ tmp' = tmp
      /\ o \in Options /\ opts \in [Runs -> Options] /\ status[r] = "running" /\ stage[r] = "nbest"
      /\ step[r] = "work" /\ "nbest" \in Stages(o) /\ RankedFile(o) \in TmpFiles
      /\ tmp \in [TmpFiles -> Texts]
      /\ Supported(o) => Number["nbest"] <= Number[o.outformat]
  BY DEF Rank, At, PipelineTypes, Control, TmpFiles, RankedFile
<1>2. given <=> ReadsGiven(o, "nbest")
  BY <1>1 DEF ReadsGiven, Prev
<1>3. Given(r) \in Texts /\ Given(r).of # Older
  BY <1>1, GivenText, NamesAssumption
<1>4. text \in Texts
  BY <1>1, <1>3
<1>5. NothingOlder(r) /\ text.of = Older => OnMorphemes(o) /\ o.informat = "words"
  BY <1>1, <1>2, <1>3 DEF NothingOlder, Passed, New
<1>6. Prev(o, "nbest") = RankedFile(o)
  BY <1>1, FromIs DEF OnMorphemes, RankedFile
<1>7. Supported(o) /\ HasText(r) => text = Text(r, RankedFile(o))
  <2>1. given => o.informat = RankedFile(o)
    BY <1>2, <1>6 DEF ReadsGiven
  <2>2. Supported(o) => Given(r) = Text(r, o.informat)
    BY <1>1, TextFacts
  <2>3. HasText(r) /\ ~given => tmp[RankedFile(o)] = Text(r, RankedFile(o))
    BY <1>1, <1>2 DEF HasText, Stored
  <2>4. QED
    BY <2>1, <2>2, <2>3
<1>8. Supported(o) => o.outformat = "nbest"
  <2>1. o.outformat \in Formats /\ "nbest" \in Formats
    BY <1>1, OptionFields, FormatsAre
  <2>2. QED
    BY <1>1, <2>1, Numbers, NumbersDiffer
<1>9. t \in Texts /\ t.of = text.of
  BY <1>4, FormatsAre, TranslatedText
<1>10. Supported(o) /\ HasText(r) => t = Text(r, o.outformat)
  BY <1>1, <1>6, <1>7, <1>8, TextFacts
<1> HIDE DEF t, text
<1>11. QED
  BY <1>1, <1>5, <1>9, <1>10, EndWorks

LEMMA CheckFormatsWorks ==
    ASSUME PipelineTypes, NEW r \in Runs, Control(r), CheckFormats(r)
    PROVE  StepOf(r) /\ Works(r)
<1> DEFINE o == opts[r]
           n == stage'[r]
<1>1. /\ o \in Options /\ opts \in [Runs -> Options] /\ status[r] = "checking" /\ stage[r] = o.informat
      /\ opts' = opts /\ data' = data /\ stdin' = stdin /\ output' = output /\ tmp' = tmp
      /\ o.informat \in Formats \ {"nbest"} /\ o.outformat \in Formats
  BY OptionFields DEF PipelineTypes, CheckFormats, Control
<1>2. CASE Number[o.informat] >= Number[o.outformat]
  <2>1. Stop(r, "died") /\ ~Ordered(o)
    BY <1>1, <1>2, NumbersDiffer DEF CheckFormats, Ordered
  <2>2. /\ stage' = stage /\ step' = step
        /\ status' \in [Runs -> {"checking", "running", "done", "refused", "died"}]
        /\ status'[r] = "died"
        /\ \A q \in Runs \ {r} : status'[q] = status[q]
    BY <2>1, StopEffect
  <2>3. PipelineTypes'
    BY <1>1, <2>2 DEF PipelineTypes
  <2>4. Control(r)'
    BY <1>1, <2>1, <2>2, StopControl
  <2>5. StepOf(r)
    BY <1>1, <2>2, <2>3, <2>4 DEF StepOf, Own
  <2>6. ~Supported(o)
    BY <1>1, <2>1, SupportedMeans DEF Ordered
  <2>7. NothingOlder(r) => NothingOlder(r)'
    BY <1>1, <2>2 DEF NothingOlder
  <2>8. QED
    BY <1>1, <2>5, <2>6, <2>7 DEF Works
<1>3. CASE ~(Number[o.informat] >= Number[o.outformat])
  <2>1. EnterNextStage(r) /\ status' = [status EXCEPT ![r] = "running"] /\ Ordered(o)
    BY <1>1, <1>3, NumbersDiffer DEF CheckFormats, Ordered
  <2>2. /\ stage' \in [Runs -> Formats] /\ step' \in [Runs -> {"store", "work", "clean", "print"}]
        /\ \A q \in Runs \ {r} : stage'[q] = stage[q] /\ step'[q] = step[q]
        /\ stage'[r] = NextStage(o, o.informat) /\ step'[r] = Entry(o, stage'[r])
    BY <1>1, <2>1, EnterEffect
  <2>3. /\ status'[r] = "running" /\ status' \in [Runs -> {"checking", "running", "done", "refused", "died"}]
        /\ \A q \in Runs \ {r} : status'[q] = status[q]
    BY <2>1 DEF PipelineTypes
  <2>4. Enters(r)
    BY <1>1, <2>2, <2>3 DEF Enters
  <2>5. PipelineTypes'
    BY <1>1, <2>2, <2>3 DEF PipelineTypes
  <2>6. o.informat # o.outformat
    BY <1>1, <1>3, NumbersDiffer
  <2>7. Control(r)'
    BY <1>1, <2>1, <2>4, <2>6, EnterControl DEF OnItsWay
  <2>8. StepOf(r)
    BY <1>1, <2>2, <2>3, <2>5, <2>7 DEF StepOf, Own
  <2>9. /\ n \in Stages(o) /\ n \in Formats /\ Number[o.informat] < Number[n]
        /\ \A t \in Stages(o) : Number[o.informat] < Number[t] => Number[n] <= Number[t]
    BY <1>1, <2>2, NextIs
  <2>10. step'[r] \in {"store", "work"} /\ (step'[r] = "work" => ~Stores(o, n))
    BY <2>2 DEF Entry
  <2>11. n = "words" => o.informat = "morph"
    <3>1. SUFFICES ASSUME n = "words", o.informat # "morph" PROVE FALSE
      OBVIOUS
    <3>2. Number[o.informat] < 28
      <4>1. "morph" \in Formats /\ Number["morph"] = 28 /\ Number[n] = 29
        BY <3>1, FormatsAre, Numbers
      <4>2. Number[o.informat] \in 1 .. 30 /\ Number[o.informat] # 28
        BY <1>1, <3>1, <4>1, NumbersDiffer
      <4>3. QED
        BY <2>9, <4>1, <4>2
    <3>3. "morph" \in Stages(o)
      BY <1>1, <3>2, StagesAre, FormatsAre, Numbers
    <3>4. QED
      BY <2>9, <3>1, <3>2, <3>3, Numbers
  <2>12. n = "nbest" => o.informat = "words"
    <3>1. SUFFICES ASSUME n = "nbest", o.informat # "words" PROVE FALSE
      OBVIOUS
    <3>2. Number[o.informat] < 29
      <4>1. "words" \in Formats /\ Number["words"] = 29 /\ Number[n] = 30
        BY <3>1, FormatsAre, Numbers
      <4>2. Number[o.informat] \in 1 .. 30 /\ Number[o.informat] # 29
        BY <1>1, <3>1, <4>1, NumbersDiffer
      <4>3. QED
        BY <2>9, <4>1, <4>2
    <3>3. "words" \in Stages(o)
      BY <1>1, <3>2, StagesAre, FormatsAre, Numbers
    <3>4. QED
      BY <2>9, <3>1, <3>2, <3>3, Numbers
  <2>13. n = "words" /\ step'[r] = "work" => ReadsGiven(o, "words")
    BY <1>1, <2>10, <2>11, FromIs DEF ReadsGiven, Stores, Prev
  <2>14. n = "nbest" /\ step'[r] = "work" /\ ~OnMorphemes(o) => ReadsGiven(o, "nbest")
    BY <1>1, <2>10, <2>12, FromIs DEF ReadsGiven, Stores, Prev
  <2>15. n = "tagged" /\ step'[r] = "work" => o.file
    BY <2>10 DEF Stores
  <2>16. opts'[r] = o
    BY <1>1
  <2>17. ASSUME NothingOlder(r) PROVE NothingOlder(r)'
    <3>1. Passed(r)'
      BY <2>10, <2>12, <2>13, <2>14, <2>15, <2>16 DEF Passed
    <3>2. QED
      BY <1>1, <2>17, <3>1 DEF NothingOlder
  <2>18. ASSUME Supported(o), HasText(r) PROVE HasText(r)'
    <3>1. ~(OnMorphemes(o) /\ o.informat = "words")
      BY <1>1, <2>18, SupportedMeans
    <3>2. Stored(r)'
      BY <2>10, <2>12, <2>13, <2>14, <2>15, <2>16, <3>1 DEF Stored
    <3>3. Prev(o, n) = o.informat
      BY <1>1, <2>2, <2>18, <3>1, NextFollows, SupportedMeans
    <3>4. Fresh(r)'
      BY <1>1, <2>18 DEF HasText, Fresh, Given
    <3>5. QED
      BY <2>3, <2>16, <3>2, <3>3, <3>4 DEF HasText
  <2>19. QED
    BY <1>1, <2>8, <2>17, <2>18 DEF Works
<1>4. QED
  BY <1>2, <1>3

-------------------------------------------------------------------------------
(***************************************************************************)
(* All the runs together.                                                  *)
(***************************************************************************)
\* A run whose formats are not in order does nothing but find that out.
LEMMA RunWorks ==
    ASSUME PipelineTypes, NEW r \in Runs, Control(r),
           CheckFormats(r) \/ Analysis(r) \/ Transfer(r) \/ Generation(r)
    PROVE  StepOf(r) /\ Works(r) /\ (Ordered(opts[r]) \/ tmp' = tmp)
<1>1. CASE CheckFormats(r)
  BY <1>1, CheckFormatsWorks DEF CheckFormats
<1>2. CASE Analysis(r)
  <2>1. StepOf(r) /\ Works(r)
    BY <1>2, StoresWork, TagWorks, ConvertWorks, StoreConllWorks, ParseWorks DEF Analysis
  <2>2. status[r] = "running"
    BY <1>2 DEF Analysis, StoreText, Tag, Convert, StoreConll, Parse, At
  <2>3. QED
    BY <2>1, <2>2 DEF Control
<1>3. CASE Transfer(r)
  <2>1. StepOf(r) /\ Works(r)
    BY <1>3, TransformWorks, StoreXmlWorks, TransferLexicallyWorks DEF Transfer
  <2>2. status[r] = "running"
    BY <1>3 DEF Transfer, Transform, StoreXml, TransferLexically, At
  <2>3. QED
    BY <2>1, <2>2 DEF Control
<1>4. CASE Generation(r)
  <2>1. StepOf(r) /\ Works(r)
    BY <1>4, GenerateMorphWorks, StoresWork, GenerateWordsWorks, SkipWordsWorks, GenerateMorphWordWorks,
       CleanFstOutputWorks, PrintFileWorks, RankWorks DEF Generation
  <2>2. status[r] = "running"
    BY <1>4 DEF Generation, GenerateMorph, StoreMorph, GenerateWords, SkipWords, GenerateMorphWord,
                CleanFstOutput, PrintFile, StoreSentences, Rank, At
  <2>3. QED
    BY <2>1, <2>2 DEF Control
<1>5. QED
  BY <1>1, <1>2, <1>3, <1>4

\* The files that a supported run has still to read are among those it writes.
LEMMA ReadsWritten ==
    ASSUME NEW o \in Options, Supported(o), NEW s \in Stages(o), Number[s] <= Number[o.outformat]
    PROVE  /\ s = "tagged" /\ ~o.file => "txt" \in Writes(o)
           /\ s = "parsed" /\ Stores(o, "parsed") => "conll" \in Writes(o)
           /\ s = "lextrans" /\ Stores(o, "lextrans") => "xml" \in Writes(o)
           /\ s = "morph" => "morph" \in Writes(o)
           /\ s = "words" /\ ~ReadsGiven(o, "words") => "morph" \in Writes(o)
           /\ s = "words" /\ o.direction = "esde" => "morphword" \in Writes(o)
           /\ s = "words" => "words" \in Writes(o)
           /\ s = "nbest" /\ ~ReadsGiven(o, "nbest") => RankedFile(o) \in Writes(o)
<1> DEFINE within == {t \in Stages(o) : Number[t] <= Number[o.outformat]}
           b == Number[o.informat]
<1>1. s \in within /\ o.informat \in Formats /\ b < Number[s] /\ b \in 1 .. 30 /\ o.file \in BOOLEAN
  BY StagesAre, OptionFields, NumbersDiffer
<1>2. /\ "txt" \in TmpFiles /\ "conll" \in TmpFiles /\ "xml" \in TmpFiles /\ "morph" \in TmpFiles
      /\ "morphword" \in TmpFiles /\ "words" \in TmpFiles
  BY DEF TmpFiles
<1>3. /\ "morph" \in Formats /\ "words" \in Formats /\ Number["morph"] = 28 /\ Number["words"] = 29
      /\ Number["nbest"] = 30
  BY FormatsAre, Numbers
<1>4. /\ o.informat # "morph" => b # 28
      /\ o.informat # "words" => b # 29
  BY <1>1, <1>3, NumbersDiffer
<1>5. ASSUME s \in {"words", "nbest"}, o.informat \notin {"morph", "words"} PROVE "morph" \in within
  <2>1. Number[s] \in {29, 30} /\ Number[o.outformat] \in 1 .. 30
    BY <1>3, <1>5, OptionFields, NumbersDiffer
  <2>2. b < 28 /\ 28 <= Number[o.outformat]
    BY <1>1, <1>4, <1>5, <2>1
  <2>3. QED
    BY <1>3, <2>2, StagesAre
<1>6. ASSUME s = "nbest", o.informat # "words" PROVE "words" \in within
  <2>1. Number[s] = 30 /\ Number[o.outformat] \in 1 .. 30
    BY <1>3, <1>6, OptionFields, NumbersDiffer
  <2>2. b < 29 /\ 29 <= Number[o.outformat]
    BY <1>1, <1>4, <1>6, <2>1
  <2>3. QED
    BY <1>3, <2>2, StagesAre
<1>7. s = "words" /\ ~ReadsGiven(o, "words") => "morph" \in Writes(o)
  <2>1. SUFFICES ASSUME s = "words", ~ReadsGiven(o, "words") PROVE "morph" \in Writes(o)
    OBVIOUS
  <2>2. o.informat # "words"
    BY <1>1, <1>3, <2>1
  <2>3. o.informat = "morph" => ~o.file
    BY <2>1, FromIs DEF ReadsGiven
  <2>4. QED
    BY <1>2, <1>5, <2>1, <2>2, <2>3 DEF Writes
<1>8. s = "nbest" /\ ~ReadsGiven(o, "nbest") => RankedFile(o) \in Writes(o)
  <2>1. SUFFICES ASSUME s = "nbest", ~ReadsGiven(o, "nbest") PROVE RankedFile(o) \in Writes(o)
    OBVIOUS
  <2>2. CASE OnMorphemes(o)
    <3>1. RankedFile(o) = "morph" /\ o.informat # "words" /\ o.informat # "morph"
      BY <2>1, <2>2, SupportedMeans, FromIs, OptionFields DEF OnMorphemes, ReadsGiven
    <3>2. QED
      BY <1>2, <1>5, <2>1, <3>1 DEF Writes
  <2>3. CASE ~OnMorphemes(o)
    <3>1. RankedFile(o) = "words"
      BY <2>3 DEF OnMorphemes, RankedFile
    <3>2. o.informat = "words" => ~o.file
      BY <2>1, <2>3, FromIs DEF ReadsGiven
    <3>3. QED
      BY <1>2, <1>6, <2>1, <3>1, <3>2 DEF Writes
  <2>4. QED
    BY <2>2, <2>3
<1>9. s = "tagged" /\ ~o.file => "txt" \in Writes(o)
  BY <1>1, <1>2 DEF Writes, Stores
<1>10. /\ s = "parsed" /\ Stores(o, "parsed") => "conll" \in Writes(o)
       /\ s = "lextrans" /\ Stores(o, "lextrans") => "xml" \in Writes(o)
       /\ s = "morph" => "morph" \in Writes(o)
       /\ s = "words" /\ o.direction = "esde" => "morphword" \in Writes(o)
       /\ s = "words" => "words" \in Writes(o)
  BY <1>1, <1>2 DEF Writes
<1>11. QED
  BY <1>7, <1>8, <1>9, <1>10

\* A step of another run.
LEMMA Unmoved ==
    ASSUME PipelineTypes, NEW r \in Runs, StepOf(r), NEW q \in Runs \ {r}, Control(q)
    PROVE  /\ Control(q)'
           /\ NothingOlder(q) /\ (\A f \in TmpFiles : tmp'[f].of # Older \/ tmp'[f] = tmp[f]) => NothingOlder(q)'
           /\ Supported(opts[q]) /\ HasText(q) /\ (\A f \in Writes(opts[q]) : tmp'[f] = tmp[f]) => HasText(q)'
<1> DEFINE o == opts[q]
<1>1. /\ stage'[q] = stage[q] /\ step'[q] = step[q] /\ status'[q] = status[q] /\ data'[q] = data[q]
      /\ stdin'[q] = stdin[q] /\ output'[q] = output[q] /\ opts' = opts /\ opts'[q] = o /\ o \in Options
  BY DEF StepOf, Own, PipelineTypes
<1>2. Control(q)'
  BY <1>1 DEF Control
<1>3. ASSUME NothingOlder(q), \A f \in TmpFiles : tmp'[f].of # Older \/ tmp'[f] = tmp[f]
      PROVE  NothingOlder(q)'
  <2>1. \A f \in TmpFiles : tmp[f].of # Older => tmp'[f].of # Older
    BY <1>3
  <2>2. /\ "txt" \in TmpFiles /\ "conll" \in TmpFiles /\ "xml" \in TmpFiles /\ "morph" \in TmpFiles
        /\ "morphword" \in TmpFiles /\ "words" \in TmpFiles /\ RankedFile(o) \in TmpFiles
    BY DEF TmpFiles, RankedFile
  <2>3. Passed(q) => Passed(q)'
    BY <1>1, <2>1, <2>2 DEF Passed, New
  <2>4. QED
    BY <1>1, <1>3, <2>3 DEF NothingOlder
<1>4. ASSUME Supported(o), HasText(q), \A f \in Writes(o) : tmp'[f] = tmp[f]
      PROVE  HasText(q)'
  <2>1. \A g : Text(q, g)' = Text(q, g)
    BY <1>1 DEF Text
  <2>2. Given(q)' = Given(q)
    BY <1>1 DEF Given
  <2>3. Fresh(q) => Fresh(q)'
    BY <1>1, <2>2 DEF Fresh
  <2>4. status[q] = "running" => Stored(q)'
    <3>1. SUFFICES ASSUME status[q] = "running" PROVE Stored(q)'
      OBVIOUS
    <3>2. /\ stage[q] \in Stages(o) /\ Number[stage[q]] <= Number[o.outformat]
          /\ step[q] = "clean" => stage[q] = "words" /\ o.direction = "esde"
          /\ Stored(q)
      BY <1>4, <3>1 DEF Control, HasText
    <3>3. /\ stage[q] = "tagged" /\ ~o.file => tmp'["txt"] = tmp["txt"]
          /\ stage[q] = "parsed" /\ Stores(o, "parsed") => tmp'["conll"] = tmp["conll"]
          /\ stage[q] = "lextrans" /\ Stores(o, "lextrans") => tmp'["xml"] = tmp["xml"]
          /\ stage[q] = "morph" => tmp'["morph"] = tmp["morph"]
          /\ stage[q] = "words" /\ ~ReadsGiven(o, "words") => tmp'["morph"] = tmp["morph"]
          /\ stage[q] = "words" /\ o.direction = "esde" => tmp'["morphword"] = tmp["morphword"]
          /\ stage[q] = "words" => tmp'["words"] = tmp["words"]
          /\ stage[q] = "nbest" /\ ~ReadsGiven(o, "nbest") => tmp'[RankedFile(o)] = tmp[RankedFile(o)]
      BY <1>1, <1>4, <3>2, ReadsWritten
    <3>4. QED
      BY <1>1, <2>1, <2>2, <3>2, <3>3 DEF Stored
  <2>5. QED
    BY <1>1, <1>4, <2>1, <2>3, <2>4 DEF HasText
<1>5. QED
  BY <1>2, <1>3, <1>4

\* The inductive invariant: where each run may be, what it may find in the files, and,
\* if its options are supported and it is undisturbed, that it finds its own text there.
PipelineInv ==
    /\ PipelineTypes
    /\ \A r \in Runs : /\ Control(r)
                       /\ NothingOlder(r)
                       /\ Supported(opts[r]) /\ Undisturbed(r) => HasText(r)

LEMMA InitPipeline == Init => PipelineInv
<1> SUFFICES ASSUME Init PROVE PipelineInv
  OBVIOUS
<1>1. opts \in [Runs -> Options]
  BY OptionsAssumption DEF Init
<1>2. \A r \in Runs : /\ opts[r] \in Options /\ opts[r].informat \in Formats /\ Given(r) \in Texts
                      /\ Given(r).of # Older
  BY <1>1, GivenText, OptionFields, NamesAssumption
<1>3. Nothing \in Texts /\ Nothing.of # Older
  BY Nowhere, NamesAssumption
<1>4. [of |-> Older, via |-> <<>>] \in Texts
  BY EmptySeq DEF Texts
<1>5. /\ stage = [r \in Runs |-> opts[r].informat] /\ step = [r \in Runs |-> "work"]
      /\ status = [r \in Runs |-> "checking"] /\ data = [r \in Runs |-> Nothing]
      /\ stdin = [r \in Runs |-> IF opts[r].file THEN Nothing ELSE Given(r)]
      /\ output = [r \in Runs |-> Nothing]
      /\ tmp = [f \in TmpFiles |-> [of |-> Older, via |-> <<>>]]
  BY DEF Init
<1>6. PipelineTypes
  <2>1. stage \in [Runs -> Formats]
    BY <1>2, <1>5
  <2>2. stdin \in [Runs -> Texts] /\ data \in [Runs -> Texts] /\ output \in [Runs -> Texts]
    BY <1>2, <1>3, <1>5
  <2>3. tmp \in [TmpFiles -> Texts]
    BY <1>4, <1>5
  <2>4. step \in [Runs -> {"store", "work", "clean", "print"}]
        /\ status \in [Runs -> {"checking", "running", "done", "refused", "died"}]
    BY <1>5
  <2>5. QED
    BY <1>1, <2>1, <2>2, <2>3, <2>4 DEF PipelineTypes
<1>7. ASSUME NEW r \in Runs PROVE Control(r) /\ NothingOlder(r) /\ HasText(r)
  <2>1. /\ status[r] = "checking" /\ stage[r] = opts[r].informat /\ data[r] = Nothing /\ output[r] = Nothing
        /\ stdin[r] = IF opts[r].file THEN Nothing ELSE Given(r)
    BY <1>5
  <2>2. Control(r)
    BY <2>1 DEF Control
  <2>3. NothingOlder(r)
    BY <1>2, <1>3, <2>1 DEF NothingOlder
  <2>4. HasText(r)
    BY <2>1 DEF HasText, Fresh
  <2>5. QED
    BY <2>2, <2>3, <2>4
<1>8. QED
  BY <1>6, <1>7 DEF PipelineInv

LEMMA NextPipeline == PipelineInv /\ Next => PipelineInv'
<1> SUFFICES ASSUME PipelineInv, Next PROVE PipelineInv'
  OBVIOUS
<1>1. PICK r \in Runs : CheckFormats(r) \/ Analysis(r) \/ Transfer(r) \/ Generation(r)
  BY DEF Next
<1>2. PipelineTypes /\ \A q \in Runs : Control(q)
  BY DEF PipelineInv
<1>3. StepOf(r) /\ Works(r) /\ (Ordered(opts[r]) \/ tmp' = tmp)
  BY <1>1, <1>2, RunWorks
<1>4. PipelineTypes' /\ opts' = opts /\ Control(r)'
  BY <1>3 DEF StepOf
<1>5. /\ NothingOlder(r)'
      /\ \A f \in TmpFiles : tmp'[f].of # Older \/ tmp'[f] = tmp[f]
  BY <1>3 DEF Works, PipelineInv, New
<1>6. ASSUME NEW q \in Runs PROVE (Undisturbed(q) <=> Undisturbed(q)') /\ opts'[q] = opts[q]
  BY <1>4 DEF Undisturbed
<1>7. Supported(opts[r]) /\ Undisturbed(r) => HasText(r)'
  BY <1>3 DEF Works, PipelineInv
<1>8. ASSUME NEW q \in Runs \ {r}
      PROVE  /\ Control(q)' /\ NothingOlder(q)'
             /\ Supported(opts[q]) /\ Undisturbed(q) => HasText(q)'
  <2>1. /\ Control(q)' /\ NothingOlder(q)'
        /\ Supported(opts[q]) /\ HasText(q) /\ (\A f \in Writes(opts[q]) : tmp'[f] = tmp[f]) => HasText(q)'
    BY <1>2, <1>3, <1>5, Unmoved DEF PipelineInv
  <2>2. ASSUME Supported(opts[q]), Undisturbed(q) PROVE \A f \in Writes(opts[q]) : tmp'[f] = tmp[f]
    <3>1. opts[r] \in Options
      BY <1>2 DEF PipelineTypes
    <3>2. CASE ~Ordered(opts[r])
      BY <1>3, <3>2
    <3>3. CASE Ordered(opts[r])
      <4>1. ~(Number[opts[r].informat] >= Number[opts[r].outformat])
        BY <3>1, <3>3, OptionFields, NumbersDiffer DEF Ordered
      <4>2. Supported(opts[r]) /\ Writes(opts[r]) \cap Writes(opts[q]) = {}
        BY <2>2, <4>1 DEF Undisturbed
      <4>3. \A f \in TmpFiles \ Writes(opts[r]) : tmp'[f] = tmp[f]
        BY <1>3, <4>2 DEF Works
      <4>4. Writes(opts[q]) \subseteq TmpFiles
        BY DEF Writes
      <4>5. QED
        BY <4>2, <4>3, <4>4
    <3>4. QED
      BY <3>2, <3>3
  <2>3. QED
    BY <2>1, <2>2 DEF PipelineInv
<1>9. ASSUME NEW q \in Runs
      PROVE  /\ Control(q)' /\ NothingOlder(q)'
             /\ Supported(opts[q]) /\ Undisturbed(q) => HasText(q)'
  BY <1>4, <1>5, <1>7, <1>8
<1>10. \A q \in Runs : (Supported(opts'[q]) /\ Undisturbed(q)') => HasText(q)'
  BY <1>6, <1>9
<1>11. QED
  BY <1>4, <1>9, <1>10 DEF PipelineInv

LEMMA StutterPipeline == PipelineInv /\ UNCHANGED vars => PipelineInv'
<1> SUFFICES ASSUME PipelineInv, UNCHANGED vars PROVE PipelineInv'
  OBVIOUS
<1>1. /\ opts' = opts /\ stage' = stage /\ step' = step /\ status' = status
      /\ data' = data /\ stdin' = stdin /\ output' = output /\ tmp' = tmp
  BY DEF vars
<1>2. PipelineTypes'
  BY <1>1 DEF PipelineInv, PipelineTypes
<1>3. ASSUME NEW r \in Runs
      PROVE  /\ Control(r) => Control(r)'
             /\ NothingOlder(r) => NothingOlder(r)'
             /\ Undisturbed(r)' => Undisturbed(r)
             /\ HasText(r) => HasText(r)'
  <2>1. Control(r) => Control(r)'
    BY <1>1 DEF Control
  <2>2. NothingOlder(r) => NothingOlder(r)'
    BY <1>1 DEF NothingOlder, Passed, New
  <2>3. Undisturbed(r)' => Undisturbed(r)
    BY <1>1 DEF Undisturbed
  <2>4. HasText(r) => HasText(r)'
    <3>1. Given(r)' = Given(r) /\ \A f : Text(r, f)' = Text(r, f)
      BY <1>1 DEF Given, Text
    <3>2. Stored(r) => Stored(r)'
      BY <1>1, <3>1 DEF Stored
    <3>3. QED
      BY <1>1, <3>1, <3>2 DEF HasText, Fresh
  <2>5. QED
    BY <2>1, <2>2, <2>3, <2>4
<1>4. QED
  BY <1>1, <1>2, <1>3 DEF PipelineInv

\* The invariant of all the runs, whatever number of them there is and whatever they are asked.
THEOREM PipelineAlways == Spec => []PipelineInv
<1>1. PipelineInv /\ [Next]_vars => PipelineInv'
  BY NextPipeline, StutterPipeline
<1>2. QED
  BY <1>1, InitPipeline, PTL DEF Spec

\* OutputIsTranslation: a run with supported options, beside runs that write other files, prints
\* its own text after every stage of its way, each once and in order.
THEOREM OutputAlwaysTranslation == Spec => []OutputIsTranslation
<1>1. PipelineInv => OutputIsTranslation
  BY DEF PipelineInv, OutputIsTranslation, HasText, Text
<1>2. QED
  BY <1>1, PipelineAlways, PTL

\* NeverDies: the document is defined in every block of such a run that uses it.
THEOREM SupportedNeverDie == Spec => []NeverDies
<1>1. PipelineInv => NeverDies
  BY DEF PipelineInv, NeverDies, HasText
<1>2. QED
  BY <1>1, PipelineAlways, PTL

\* OlderTextOnlyForWords: whatever the options, and however the runs disturb each other, no
\* file that an older run left is read before one of these runs has written it, but for one.
THEOREM OlderOnlyForWords == Spec => []OlderTextOnlyForWords
<1>1. PipelineInv => OlderTextOnlyForWords
  BY DEF PipelineInv, OlderTextOnlyForWords, NothingOlder, OnMorphemes
<1>2. QED
  BY <1>1, PipelineAlways, PTL

-------------------------------------------------------------------------------
(***************************************************************************)
(* outputSentences.  The state of a printer, and what of a piece the       *)
(* property of printed sentences is about.                                 *)
(***************************************************************************)
LatticeText == STRING \cup {"", "dummy", "undefined"}  \* the provers do not know that a literal is in STRING
LatticeLine == [text : LatticeText, slash : BOOLEAN, pmi : LatticeText]
PrintedPiece == [word : LatticeLine, generated : BOOLEAN, upper : BOOLEAN, space : BOOLEAN]
Printer == [started : BOOLEAN, prev : LatticeLine, prevPunc : LatticeText, pieces : Seq(PrintedPiece)]
PrinterModes == {"words", "morphs", "test"}

Shown(p) == [word |-> p.word, upper |-> p.upper, space |-> p.space]
Shows(p, w, upper, space) == p.word = w /\ (p.upper <=> upper) /\ (p.space <=> space)
Wanted(row, i) == [word |-> Unmarked(row[i]), upper |-> Capital(row, i), space |-> Spaced(row, i)]

LEMMA LineTypes ==
    /\ NoWord \in LatticeLine
    /\ \A w \in LatticeLine : Unmarked(w) \in LatticeLine
    /\ StartPrinter \in Printer
<1>1. NoWord \in LatticeLine
  BY DEF NoWord, LatticeLine, LatticeText
<1>2. ASSUME NEW w \in LatticeLine PROVE Unmarked(w) \in LatticeLine
  BY DEF Unmarked, LatticeLine
<1>3. StartPrinter \in Printer
  BY <1>1, EmptySeq DEF StartPrinter, Printer, LatticeText
<1>4. QED
  BY <1>1, <1>2, <1>3

\* A printer puts out one piece.
LEMMA PutType ==
    ASSUME NEW ps \in Printer, NEW x \in PrintedPiece
    PROVE  /\ Put(ps, x) \in Printer
           /\ Put(ps, x).pieces = Append(ps.pieces, x)
           /\ Put(ps, x).started = ps.started
           /\ Put(ps, x).prev = ps.prev
           /\ Put(ps, x).prevPunc = ps.prevPunc
<1> DEFINE longer == Append(ps.pieces, x)
<1>1. ps.pieces \in Seq(PrintedPiece)
  BY DEF Printer
<1>2. longer \in Seq(PrintedPiece)
  BY <1>1, AppendProperties
<1>3. Put(ps, x) = [ps EXCEPT !.pieces = longer]
  BY DEF Put
<1> HIDE DEF longer
<1>4. Put(ps, x) \in Printer
  BY <1>2, <1>3 DEF Printer
<1>5. Put(ps, x).pieces = longer
  BY <1>3 DEF Printer
<1>6. Put(ps, x).started = ps.started /\ Put(ps, x).prev = ps.prev /\ Put(ps, x).prevPunc = ps.prevPunc
  BY <1>3 DEF Printer
<1>7. QED
  BY <1>4, <1>5, <1>6 DEF longer

\* What the printers do to the flags changes nothing of the pieces.
LEMMA FlagTypes ==
    ASSUME NEW ps \in Printer, NEW w \in LatticeLine, NEW m \in LatticeText
    PROVE  /\ [ps EXCEPT !.started = TRUE] \in Printer
           /\ [ps EXCEPT !.started = FALSE] \in Printer
           /\ [ps EXCEPT !.prevPunc = m] \in Printer
           /\ [ps EXCEPT !.prev = w, !.prevPunc = m] \in Printer
           /\ [ps EXCEPT !.prev = w] \in Printer
           /\ [ps EXCEPT !.started = TRUE, !.prevPunc = m] \in Printer
           /\ [ps EXCEPT !.prev = w, !.prevPunc = m, !.started = FALSE] \in Printer
<1>1. [ps EXCEPT !.started = TRUE] \in Printer /\ [ps EXCEPT !.started = FALSE] \in Printer
  BY DEF Printer
<1>2. [ps EXCEPT !.prevPunc = m] \in Printer
  BY DEF Printer
<1>3. [ps EXCEPT !.prev = w, !.prevPunc = m] \in Printer
  BY DEF Printer
<1>4. [ps EXCEPT !.prev = w] \in Printer
  BY DEF Printer
<1>5. [ps EXCEPT !.started = TRUE, !.prevPunc = m] \in Printer
  BY DEF Printer
<1>6. [ps EXCEPT !.prev = w, !.prevPunc = m, !.started = FALSE] \in Printer
  BY DEF Printer
<1>7. QED
  BY <1>1, <1>2, <1>3, <1>4, <1>5, <1>6

-------------------------------------------------------------------------------
(***************************************************************************)
(* The first word of a sentence, printed as it is read and generated.      *)
(***************************************************************************)
\* q is p without a piece, or with the piece that shows the word so.
Silent(p, q) == q \in Printer /\ q.pieces = p.pieces
Prints(p, q, w, upper, space) ==
    /\ q \in Printer
    /\ \E x \in PrintedPiece : /\ q.pieces = Append(p.pieces, x)
                               /\ Shows(x, w, upper, space)
Leaves(q, started, prev, prevPunc) == q.started = started /\ q.prev = prev /\ q.prevPunc = prevPunc

LEMMA UnmarkedTag ==
    ASSUME NEW line \in LatticeLine
    PROVE  /\ Unmarked(line) \in LatticeLine
           /\ Unmarked(line).pmi = line.pmi /\ Unmarked(line).text = line.text
           /\ line.pmi # "" => Unmarked(line) = line
BY DEF Unmarked, LatticeLine

\* An operation puts out a piece and then sets the flags.
LEMMA FirstPrinted ==
    ASSUME NEW ps \in Printer, NEW line \in LatticeLine
    PROVE  LET q == PrintFirst(ps, line)
               w == Unmarked(line)
               out == Comma(w) \/ w.pmi \in EndsInT
           IN  /\ out => Silent(ps, q) /\ Leaves(q, TRUE, ps.prev, ps.prevPunc)
               /\ ~out => Prints(ps, q, w, w.pmi \notin Opens, FALSE)
               /\ ~out /\ w.pmi \in Opens => Leaves(q, TRUE, ps.prev, ps.prevPunc)
               /\ ~out /\ w.pmi \notin Opens => Leaves(q, FALSE, w, w.pmi)
<1> DEFINE q == PrintFirst(ps, line)
           w == Unmarked(line)
           out == Comma(w) \/ w.pmi \in EndsInT
           x == Piece(w, FALSE, FALSE, FALSE)
           y == Piece(w, FALSE, TRUE, FALSE)
           a == Put(ps, x)
           b == Put(ps, y)
<1>1. w \in LatticeLine /\ w.pmi \in LatticeText
  BY UnmarkedTag DEF LatticeLine
<1> HIDE DEF w
<1>0. /\ x \in PrintedPiece /\ Shows(x, w, FALSE, FALSE)
      /\ y \in PrintedPiece /\ Shows(y, w, TRUE, FALSE)
  BY <1>1 DEF Piece, PrintedPiece, Shows
<1> HIDE DEF x, y
<1>2. /\ a \in Printer /\ a.prev = ps.prev /\ a.prevPunc = ps.prevPunc /\ a.pieces = Append(ps.pieces, x)
      /\ b \in Printer /\ b.pieces = Append(ps.pieces, y)
  BY <1>0, PutType
<1>3. q = IF out THEN [ps EXCEPT !.started = TRUE]
          ELSE IF w.pmi \in Opens THEN [a EXCEPT !.started = TRUE]
          ELSE [b EXCEPT !.prev = w, !.prevPunc = w.pmi, !.started = FALSE]
  BY DEF PrintFirst, w, x, y
<1> HIDE DEF q, a, b, out
<1>4. out => Silent(ps, q) /\ Leaves(q, TRUE, ps.prev, ps.prevPunc)
  <2>1. out => q = [ps EXCEPT !.started = TRUE] /\ q \in Printer
    <3>1. [ps EXCEPT !.started = TRUE] \in Printer
      BY <1>1, FlagTypes
    <3>2. QED
      BY <1>3, <3>1
  <2>2. QED
    BY <2>1 DEF Silent, Leaves, Printer
<1>5. ~out /\ w.pmi \in Opens => Prints(ps, q, w, w.pmi \notin Opens, FALSE) /\ Leaves(q, TRUE, ps.prev, ps.prevPunc)
  <2> SUFFICES ASSUME ~out, w.pmi \in Opens
               PROVE  Prints(ps, q, w, FALSE, FALSE) /\ Leaves(q, TRUE, ps.prev, ps.prevPunc)
    OBVIOUS
  <2>1. q = [a EXCEPT !.started = TRUE] /\ q \in Printer
    <3>1. [a EXCEPT !.started = TRUE] \in Printer
      BY <1>1, <1>2, FlagTypes
    <3>2. QED
      BY <1>3, <3>1
  <2>2. q.pieces = a.pieces /\ q.started = TRUE /\ q.prev = a.prev /\ q.prevPunc = a.prevPunc
    BY <1>2, <2>1 DEF Printer
  <2>3. Prints(ps, q, w, FALSE, FALSE)
    <3>1. q.pieces = Append(ps.pieces, x)
      BY <1>2, <2>2
    <3>2. QED
      BY <1>0, <2>1, <3>1 DEF Prints
  <2>4. QED
    BY <1>2, <2>2, <2>3 DEF Leaves
<1>6. ~out /\ w.pmi \notin Opens => Prints(ps, q, w, w.pmi \notin Opens, FALSE) /\ Leaves(q, FALSE, w, w.pmi)
  <2> SUFFICES ASSUME ~out, w.pmi \notin Opens
               PROVE  Prints(ps, q, w, TRUE, FALSE) /\ Leaves(q, FALSE, w, w.pmi)
    OBVIOUS
  <2>1. q = [b EXCEPT !.prev = w, !.prevPunc = w.pmi, !.started = FALSE] /\ q \in Printer
    BY <1>1, <1>2, <1>3, FlagTypes
  <2>2. q.pieces = b.pieces /\ q.started = FALSE /\ q.prev = w /\ q.prevPunc = w.pmi
    BY <1>2, <2>1 DEF Printer
  <2>3. Prints(ps, q, w, TRUE, FALSE)
    <3>1. q.pieces = Append(ps.pieces, y)
      BY <1>2, <2>2
    <3>2. QED
      BY <1>0, <2>1, <3>1 DEF Prints
  <2>4. QED
    BY <2>2, <2>3 DEF Leaves
<1>7. QED
  BY <1>4, <1>5, <1>6 DEF q, w, out

LEMMA FirstMorphPrinted ==
    ASSUME NEW ps \in Printer, NEW line \in LatticeLine
    PROVE  LET q == PrintFirstMorph(ps, line)
               out == Comma(line) \/ line.pmi \in EndsInT
           IN  /\ q \in Printer
               /\ out => Silent(ps, q) /\ Leaves(q, TRUE, ps.prev, ps.prevPunc)
               /\ ~out /\ line.pmi \in Opens =>
                      Prints(ps, q, Unmarked(line), FALSE, FALSE) /\ Leaves(q, TRUE, ps.prev, line.pmi)
               /\ ~out /\ line.pmi \notin Opens =>
                      /\ Leaves(q, FALSE, line, line.pmi)
                      /\ line # NoWord /\ line.text \in Generated => Prints(ps, q, Unmarked(line), TRUE, FALSE)
<1> DEFINE q == PrintFirstMorph(ps, line)
           w == Unmarked(line)
           out == Comma(line) \/ line.pmi \in EndsInT
           x == Piece(line, FALSE, FALSE, FALSE)
           y == Piece(w, TRUE, TRUE, FALSE)
           a == Put(ps, x)
           z == IF w.text \in Generated THEN y ELSE x
           b == IF line = NoWord THEN ps ELSE Put(ps, z)
<1>1. w \in LatticeLine /\ w.text = line.text /\ line.pmi \in LatticeText /\ (line.pmi # "" => w = line)
  BY UnmarkedTag DEF LatticeLine
<1> HIDE DEF w
<1>2. /\ x \in PrintedPiece /\ Shows(x, line, FALSE, FALSE)
      /\ y \in PrintedPiece /\ Shows(y, w, TRUE, FALSE)
  BY <1>1 DEF Piece, PrintedPiece, Shows
<1>3. q = IF out THEN [ps EXCEPT !.started = TRUE]
          ELSE IF line.pmi \in Opens THEN [a EXCEPT !.started = TRUE, !.prevPunc = line.pmi]
          ELSE [b EXCEPT !.prev = line, !.prevPunc = line.pmi, !.started = FALSE]
  BY DEF PrintFirstMorph, w
<1> HIDE DEF x, y
<1>4. z \in PrintedPiece
  BY <1>2
<1>5. a \in Printer /\ a.prev = ps.prev /\ a.pieces = Append(ps.pieces, x) /\ b \in Printer
  BY <1>2, <1>4, PutType
<1> HIDE DEF q, a, b, out
<1>6. out => q \in Printer /\ Silent(ps, q) /\ Leaves(q, TRUE, ps.prev, ps.prevPunc)
  <2>1. out => q = [ps EXCEPT !.started = TRUE] /\ q \in Printer
    <3>1. [ps EXCEPT !.started = TRUE] \in Printer
      BY <1>1, FlagTypes
    <3>2. QED
      BY <1>3, <3>1
  <2>2. QED
    BY <2>1 DEF Silent, Leaves, Printer
<1>7. ~out /\ line.pmi \in Opens =>
          q \in Printer /\ Prints(ps, q, w, FALSE, FALSE) /\ Leaves(q, TRUE, ps.prev, line.pmi)
  <2> SUFFICES ASSUME ~out, line.pmi \in Opens
               PROVE  q \in Printer /\ Prints(ps, q, w, FALSE, FALSE) /\ Leaves(q, TRUE, ps.prev, line.pmi)
    OBVIOUS
  <2>1. q = [a EXCEPT !.started = TRUE, !.prevPunc = line.pmi] /\ q \in Printer
    <3>1. [a EXCEPT !.started = TRUE, !.prevPunc = line.pmi] \in Printer
      BY <1>1, <1>5, FlagTypes
    <3>2. QED
      BY <1>3, <3>1
  <2>2. q.pieces = a.pieces /\ q.started = TRUE /\ q.prev = a.prev /\ q.prevPunc = line.pmi
    BY <1>5, <2>1 DEF Printer
  <2>3. Prints(ps, q, w, FALSE, FALSE)
    <3>1. q.pieces = Append(ps.pieces, x)
      BY <1>5, <2>2
    <3>2. w = line
      BY <1>1 DEF Opens
    <3>3. QED
      BY <1>2, <2>1, <3>1, <3>2 DEF Prints
  <2>4. QED
    BY <1>5, <2>1, <2>2, <2>3 DEF Leaves
<1>8. ~out /\ line.pmi \notin Opens =>
          /\ q \in Printer /\ Leaves(q, FALSE, line, line.pmi)
          /\ line # NoWord /\ line.text \in Generated => Prints(ps, q, w, TRUE, FALSE)
  <2> SUFFICES ASSUME ~out, line.pmi \notin Opens
               PROVE  /\ q \in Printer /\ Leaves(q, FALSE, line, line.pmi)
                      /\ line # NoWord /\ line.text \in Generated => Prints(ps, q, w, TRUE, FALSE)
    OBVIOUS
  <2>1. q = [b EXCEPT !.prev = line, !.prevPunc = line.pmi, !.started = FALSE] /\ q \in Printer
    BY <1>1, <1>3, <1>5, FlagTypes
  <2>2. q.pieces = b.pieces /\ q.started = FALSE /\ q.prev = line /\ q.prevPunc = line.pmi
    BY <1>5, <2>1 DEF Printer
  <2>3. ASSUME line # NoWord, line.text \in Generated PROVE Prints(ps, q, w, TRUE, FALSE)
    <3>1. z = y /\ b = Put(ps, y)
      BY <1>1, <2>3 DEF b
    <3>2. q.pieces = Put(ps, y).pieces
      BY <2>2, <3>1, Zenon
    <3>3. q.pieces = Append(ps.pieces, y)
      <4>1. Put(ps, y).pieces = Append(ps.pieces, y)
        BY <1>2, PutType
      <4>2. QED
        BY <3>2, <4>1, Zenon
    <3>4. QED
      BY <1>2, <2>1, <3>3 DEF Prints
  <2>4. QED
    BY <2>1, <2>2, <2>3 DEF Leaves
<1>9. QED
  BY <1>6, <1>7, <1>8 DEF q, w, out

-------------------------------------------------------------------------------
(***************************************************************************)
(* Any other word.                                                         *)
(***************************************************************************)
AfterBoth(p, x, v, m) == [Put([p EXCEPT !.started = FALSE], x) EXCEPT !.prev = v, !.prevPunc = m]
AfterMark(p, x, m) == [Put([p EXCEPT !.started = FALSE], x) EXCEPT !.prevPunc = m]
AfterWord(p, x, v) == [Put([p EXCEPT !.started = FALSE], x) EXCEPT !.prev = v]

LEMMA PutAfter ==
    ASSUME NEW p \in Printer, NEW x \in PrintedPiece, NEW v \in LatticeLine, NEW m \in LatticeText
    PROVE  /\ /\ AfterBoth(p, x, v, m) \in Printer
              /\ AfterBoth(p, x, v, m).pieces = Append(p.pieces, x)
              /\ Leaves(AfterBoth(p, x, v, m), FALSE, v, m)
           /\ /\ AfterMark(p, x, m) \in Printer
              /\ AfterMark(p, x, m).pieces = Append(p.pieces, x)
              /\ Leaves(AfterMark(p, x, m), FALSE, p.prev, m)
           /\ /\ AfterWord(p, x, v) \in Printer
              /\ AfterWord(p, x, v).pieces = Append(p.pieces, x)
              /\ Leaves(AfterWord(p, x, v), FALSE, v, p.prevPunc)
<1> DEFINE s == [p EXCEPT !.started = FALSE]
           c == Put(s, x)
           longer == Append(p.pieces, x)
<1>1. s \in Printer /\ s.pieces = p.pieces /\ s.started = FALSE /\ s.prev = p.prev /\ s.prevPunc = p.prevPunc
  BY DEF Printer
<1> HIDE DEF s
<1>2. c \in Printer /\ c.pieces = Append(s.pieces, x) /\ c.started = FALSE /\ c.prev = p.prev /\ c.prevPunc = p.prevPunc
  <2>2. /\ Put(s, x) \in Printer /\ Put(s, x).pieces = Append(s.pieces, x)
        /\ Put(s, x).started = s.started /\ Put(s, x).prev = s.prev /\ Put(s, x).prevPunc = s.prevPunc
    BY <1>1, PutType, Zenon
  <2>3. QED
    BY <1>1, <2>2, Zenon
<1>3. c.pieces = longer
  BY <1>1, <1>2
<1> HIDE DEF longer, c
<1>4. /\ [c EXCEPT !.prev = v, !.prevPunc = m] \in Printer
      /\ [c EXCEPT !.prev = v, !.prevPunc = m].pieces = longer
      /\ Leaves([c EXCEPT !.prev = v, !.prevPunc = m], FALSE, v, m)
  BY <1>2, <1>3 DEF Printer, Leaves
<1>5. /\ [c EXCEPT !.prevPunc = m] \in Printer
      /\ [c EXCEPT !.prevPunc = m].pieces = longer
      /\ Leaves([c EXCEPT !.prevPunc = m], FALSE, p.prev, m)
  BY <1>2, <1>3 DEF Printer, Leaves
<1>6. /\ [c EXCEPT !.prev = v] \in Printer
      /\ [c EXCEPT !.prev = v].pieces = longer
      /\ Leaves([c EXCEPT !.prev = v], FALSE, v, p.prevPunc)
  BY <1>2, <1>3 DEF Printer, Leaves
<1>7. QED
  BY <1>4, <1>5, <1>6, Zenon DEF longer, c, s, AfterBoth, AfterMark, AfterWord

\* What is printed of a word, seen by the printer as v, and what is left behind.
Attached(ps, q, w, v, pmi) ==
    /\ pmi \in EndsInT \cup Closes => Prints(ps, q, w, ps.started, FALSE) /\ Leaves(q, FALSE, v, pmi)
    /\ pmi \notin EndsInT \cup Closes /\ pmi \in EndsInA =>
           Prints(ps, q, w, ps.started, TRUE) /\ Leaves(q, FALSE, ps.prev, pmi)
    /\ pmi \notin EndsInT \cup Closes \cup EndsInA /\ ps.prevPunc \in EndsInA \cup {"FH"} =>
           Prints(ps, q, w, ps.started, FALSE) /\ Leaves(q, FALSE, v, "")
    /\ pmi \notin EndsInT \cup Closes \cup EndsInA /\ ps.prevPunc \notin EndsInA \cup {"FH"} =>
           Prints(ps, q, w, ps.started, TRUE) /\ Leaves(q, FALSE, v, ps.prevPunc)

LEMMA PrintsByPiece ==
    ASSUME NEW p, NEW q \in Printer, NEW x \in PrintedPiece, NEW w, NEW u, NEW s,
           q.pieces = Append(p.pieces, x), Shows(x, w, u, s)
    PROVE  Prints(p, q, w, u, s)
BY Zenon DEF Prints

LEMMA WordAttached ==
    ASSUME NEW ps \in Printer, NEW w, NEW v \in LatticeLine, NEW pmi \in LatticeText,
           NEW x \in PrintedPiece, NEW y \in PrintedPiece, NEW z \in PrintedPiece,
           Shows(x, w, ps.started, FALSE),
           Shows(y, w, ps.started, TRUE),
           Shows(z, w, ps.started, FALSE),
           NEW q,
           q = IF pmi \in EndsInT \cup Closes THEN AfterBoth(ps, x, v, pmi)
               ELSE IF pmi \in EndsInA THEN AfterMark(ps, y, pmi)
               ELSE IF ps.prevPunc \in EndsInA \cup {"FH"} THEN AfterBoth(ps, z, v, "")
               ELSE AfterWord(ps, y, v)
    PROVE  q \in Printer /\ Attached(ps, q, w, v, pmi)
<1> DEFINE ra == AfterBoth(ps, x, v, pmi)
           rb == AfterMark(ps, y, pmi)
           rc == AfterBoth(ps, z, v, "")
           rd == AfterWord(ps, y, v)
<1>1. "" \in LatticeText
  BY DEF LatticeText
<1>2. ra \in Printer /\ ra.pieces = Append(ps.pieces, x) /\ Leaves(ra, FALSE, v, pmi)
  BY PutAfter
<1>3. /\ rb \in Printer /\ rb.pieces = Append(ps.pieces, y) /\ Leaves(rb, FALSE, ps.prev, pmi)
      /\ rd \in Printer /\ rd.pieces = Append(ps.pieces, y) /\ Leaves(rd, FALSE, v, ps.prevPunc)
  BY PutAfter
<1>4. rc \in Printer /\ rc.pieces = Append(ps.pieces, z) /\ Leaves(rc, FALSE, v, "")
  BY <1>1, PutAfter
<1>5. q = IF pmi \in EndsInT \cup Closes THEN ra
          ELSE IF pmi \in EndsInA THEN rb
          ELSE IF ps.prevPunc \in EndsInA \cup {"FH"} THEN rc
          ELSE rd
  OBVIOUS
<1> HIDE DEF ra, rb, rc, rd
<1>6. /\ Prints(ps, ra, w, ps.started, FALSE)
      /\ Prints(ps, rb, w, ps.started, TRUE)
      /\ Prints(ps, rc, w, ps.started, FALSE)
      /\ Prints(ps, rd, w, ps.started, TRUE)
  BY <1>2, <1>3, <1>4, PrintsByPiece, Zenon
<1>7. QED
  <2>1. CASE pmi \in EndsInT \cup Closes
    <3>1. q = ra
      BY <1>5, <2>1
    <3>2. QED
      BY <1>2, <1>6, <2>1, <3>1 DEF Attached
  <2>2. CASE pmi \notin EndsInT \cup Closes /\ pmi \in EndsInA
    <3>1. q = rb
      BY <1>5, <2>2
    <3>2. QED
      BY <1>3, <1>6, <2>2, <3>1 DEF Attached
  <2>3. CASE pmi \notin EndsInT \cup Closes \cup EndsInA /\ ps.prevPunc \in EndsInA \cup {"FH"}
    <3>1. q = rc
      BY <1>5, <2>3
    <3>2. QED
      BY <1>4, <1>6, <2>3, <3>1 DEF Attached
  <2>4. CASE pmi \notin EndsInT \cup Closes \cup EndsInA /\ ps.prevPunc \notin EndsInA \cup {"FH"}
    <3>1. q = rd
      BY <1>5, <2>4
    <3>2. QED
      BY <1>3, <1>6, <2>4, <3>1 DEF Attached
  <2>5. QED
    BY <2>1, <2>2, <2>3, <2>4

LEMMA NextPrinted ==
    ASSUME NEW ps \in Printer, NEW line \in LatticeLine
    PROVE  LET q == PrintNext(ps, line)
               w == Unmarked(line)
           IN  IF Comma(w) /\ Comma(ps.prev) THEN q = ps
               ELSE q \in Printer /\ Attached(ps, q, w, w, w.pmi)
<1> DEFINE q == PrintNext(ps, line)
           w == Unmarked(line)
           pmi == w.pmi
           y == Piece(w, FALSE, ps.started, TRUE)
           x == [y EXCEPT !.space = FALSE]
           skip == Comma(w) /\ Comma(ps.prev)
<1>1. w \in LatticeLine /\ pmi \in LatticeText
  BY UnmarkedTag DEF LatticeLine
<1>2. q = IF skip THEN ps
          ELSE IF pmi \in EndsInT \cup Closes THEN AfterBoth(ps, x, w, pmi)
          ELSE IF pmi \in EndsInA THEN AfterMark(ps, y, pmi)
          ELSE IF ps.prevPunc \in EndsInA \cup {"FH"} THEN AfterBoth(ps, x, w, "")
          ELSE AfterWord(ps, y, w)
  BY DEF PrintNext, AfterBoth, AfterMark, AfterWord
<1> HIDE DEF w
<1>3. /\ x \in PrintedPiece /\ Shows(x, w, ps.started, FALSE)
      /\ y \in PrintedPiece /\ Shows(y, w, ps.started, TRUE)
  BY <1>1 DEF Piece, PrintedPiece, Shows, Printer
<1> HIDE DEF q, x, y, pmi, skip
<1>4. skip => q = ps
  BY <1>2
<1>5. ~skip => q \in Printer /\ Attached(ps, q, w, w, pmi)
  <2> SUFFICES ASSUME ~skip PROVE q \in Printer /\ Attached(ps, q, w, w, pmi)
    OBVIOUS
  <2>1. q = IF pmi \in EndsInT \cup Closes THEN AfterBoth(ps, x, w, pmi)
            ELSE IF pmi \in EndsInA THEN AfterMark(ps, y, pmi)
            ELSE IF ps.prevPunc \in EndsInA \cup {"FH"} THEN AfterBoth(ps, x, w, "")
            ELSE AfterWord(ps, y, w)
    BY <1>2
  <2>2. QED
    BY <1>1, <1>3, <2>1, WordAttached
<1>6. QED
  BY <1>4, <1>5 DEF q, w, pmi, skip

LEMMA NextMorphPrinted ==
    ASSUME NEW ps \in Printer, NEW line \in LatticeLine
    PROVE  LET q == PrintNextMorph(ps, line)
               w == Unmarked(line)
           IN  IF Comma(line) /\ Comma(ps.prev) THEN q = ps
               ELSE q \in Printer /\ (line # NoWord => Attached(ps, q, w, line, line.pmi))
<1> DEFINE q == PrintNextMorph(ps, line)
           w == Unmarked(line)
           pmi == line.pmi
           gone == [NoWord EXCEPT !.text = "undefined"]
           g == w.text \in Generated
           x == Piece(w, FALSE, ps.started, FALSE)
           u == IF line = NoWord THEN gone ELSE w
           y == IF line = NoWord THEN Piece(gone, FALSE, FALSE, TRUE) ELSE Piece(w, g, ps.started, TRUE)
           z == [y EXCEPT !.space = FALSE]
           skip == Comma(line) /\ Comma(ps.prev)
<1>1. w \in LatticeLine /\ pmi \in LatticeText
  BY UnmarkedTag DEF LatticeLine
<1>2. gone \in LatticeLine
  BY DEF NoWord, LatticeLine, LatticeText
<1>3. q = IF skip THEN ps
          ELSE IF pmi \in EndsInT \cup Closes THEN AfterBoth(ps, x, line, pmi)
          ELSE IF pmi \in EndsInA THEN AfterMark(ps, y, pmi)
          ELSE IF ps.prevPunc \in EndsInA \cup {"FH"} THEN AfterBoth(ps, z, line, "")
          ELSE AfterWord(ps, y, line)
  BY DEF PrintNextMorph, AfterBoth, AfterMark, AfterWord
<1> HIDE DEF w, gone
<1>4. /\ x \in PrintedPiece /\ Shows(x, w, ps.started, FALSE)
      /\ y \in PrintedPiece /\ z \in PrintedPiece
      /\ line # NoWord => /\ Shows(y, w, ps.started, TRUE)
                          /\ Shows(z, w, ps.started, FALSE)
  <2>1. ps.started \in BOOLEAN /\ g \in BOOLEAN
    BY DEF Printer
  <2>2. x \in PrintedPiece /\ Shows(x, w, ps.started, FALSE)
    BY <1>1, <2>1 DEF Piece, PrintedPiece, Shows
  <2>3. CASE line = NoWord
    BY <1>2, <2>2, <2>3 DEF Piece, PrintedPiece
  <2>4. CASE line # NoWord
    <3>1. y = Piece(w, g, ps.started, TRUE)
      BY <2>4
    <3> HIDE DEF y, g
    <3>2. z = Piece(w, g, ps.started, FALSE)
      <4>1. z = [y EXCEPT !.space = FALSE]
        OBVIOUS
      <4> HIDE DEF z
      <4>2. QED
        BY <2>1, <3>1, <4>1 DEF Piece
    <3> HIDE DEF z
    <3>3. y \in PrintedPiece /\ Shows(y, w, ps.started, TRUE)
      BY <1>1, <2>1, <3>1 DEF Piece, PrintedPiece, Shows
    <3>4. z \in PrintedPiece /\ Shows(z, w, ps.started, FALSE)
      BY <1>1, <2>1, <3>2 DEF Piece, PrintedPiece, Shows
    <3>5. QED
      BY <2>2, <3>3, <3>4
  <2>5. QED
    BY <2>3, <2>4
<1> HIDE DEF q, x, y, z, pmi, skip
<1>5. skip => q = ps
  BY <1>3
<1>6. ~skip => q \in Printer /\ (line # NoWord => Attached(ps, q, w, line, pmi))
  <2> SUFFICES ASSUME ~skip PROVE q \in Printer /\ (line # NoWord => Attached(ps, q, w, line, pmi))
    OBVIOUS
  <2>1. q = IF pmi \in EndsInT \cup Closes THEN AfterBoth(ps, x, line, pmi)
            ELSE IF pmi \in EndsInA THEN AfterMark(ps, y, pmi)
            ELSE IF ps.prevPunc \in EndsInA \cup {"FH"} THEN AfterBoth(ps, z, line, "")
            ELSE AfterWord(ps, y, line)
    BY <1>3
  <2>2. q \in Printer
    <3>1. /\ AfterBoth(ps, x, line, pmi) \in Printer /\ AfterMark(ps, y, pmi) \in Printer
          /\ AfterWord(ps, y, line) \in Printer
      BY <1>1, <1>4, PutAfter
    <3>2. AfterBoth(ps, z, line, "") \in Printer
      <4>1. "" \in LatticeText
        BY DEF LatticeText
      <4>2. QED
        BY <1>4, <4>1, PutAfter
    <3>3. QED
      BY <2>1, <3>1, <3>2
  <2>3. line # NoWord => Attached(ps, q, w, line, pmi)
    BY <1>1, <1>4, <2>1, WordAttached
  <2>4. QED
    BY <2>2, <2>3
<1>7. QED
  BY <1>5, <1>6 DEF q, w, pmi, skip

-------------------------------------------------------------------------------
(***************************************************************************)
(* What the printer knows after the word i of a row says no more than its  *)
(* neighbours do: whether the sentence has begun, whether the last word    *)
(* was a comma, whether the next word is attached.                         *)
(***************************************************************************)
Attaching == EndsInA \cup {"FH"}

Carried(ps, row, i) ==
    /\ ps.started <=> i = 1 /\ (LeftOut(row, 1) \/ row[1].pmi \in Opens)
    /\ i = 1 => ~Comma(ps.prev)
    /\ i > 1 /\ row[i].pmi \notin Opens => (Comma(ps.prev) <=> IsComma(row[i]))
    /\ ps.prevPunc \in Attaching <=>
           row[i].pmi \in Attaching /\ ~(mode = "words" /\ i = 1 /\ row[1].pmi \in Opens)

\* The state in which a sentence is begun.
Harmless(ps) == ps \in Printer /\ ~Comma(ps.prev) /\ ps.prevPunc \notin Attaching

\* The word i is printed as it ought to be, or left out as it ought to be.
Right(p, q, row, i) ==
    /\ q \in Printer
    /\ LeftOut(row, i) => q.pieces = p.pieces
    /\ ~LeftOut(row, i) => Prints(p, q, Unmarked(row[i]), Capital(row, i), Spaced(row, i))

LEMMA ShownRight ==
    ASSUME NEW x \in PrintedPiece, NEW row, NEW i, Shows(x, Unmarked(row[i]), Capital(row, i), Spaced(row, i))
    PROVE  Shown(x) = Wanted(row, i)
<1>1. x.word = Unmarked(row[i]) /\ x.upper \in BOOLEAN /\ x.space \in BOOLEAN
  BY DEF Shows, PrintedPiece
<1>2. x.upper = Capital(row, i)
  BY <1>1 DEF Shows, Capital
<1>3. x.space = Spaced(row, i)
  BY <1>1 DEF Shows, Spaced
<1>4. QED
  BY <1>1, <1>2, <1>3, Zenon DEF Shown, Wanted

LEMMA RegularIs ==
    ASSUME NEW row \in Seq(LatticeLine), row # <<>>, Regular(row)
    PROVE  /\ Len(row) \in Nat \ {0}
           /\ \A i \in 1 .. Len(row) :
                  /\ row[i] \in LatticeLine /\ row[i] # NoWord
                  /\ IsComma(row[i]) =>
                         row[i].pmi \notin Attaching /\ (i > 1 => row[i - 1].pmi \notin Opens)
           /\ ~IsComma(row[Len(row)]) /\ row[Len(row)].pmi \notin Opens \cup {"FH"}
           /\ mode = "morphs" /\ row[1].pmi \notin Opens /\ ~LeftOut(row, 1) => row[1].text \in Generated
<1>1. Len(row) \in Nat \ {0} /\ DOMAIN row = 1 .. Len(row)
  BY LenProperties, EmptySeq
<1>2. \A i \in 1 .. Len(row) : row[i] \in LatticeLine
  BY ElementOfSeq
<1>3. Last(row) = row[Len(row)]
  BY DEF Last
<1>4. QED
  BY <1>1, <1>2, <1>3 DEF Regular, Attaching

\* In a sentence that is printed as it is read.
LEMMA FirstRight ==
    ASSUME NEW row \in Seq(LatticeLine), row # <<>>, Regular(row), NEW ps, Harmless(ps),
           mode = "words", NEW q, q = PrintFirst(ps, row[1])
    PROVE  Right(ps, q, row, 1) /\ Carried(q, row, 1)
<1> DEFINE line == row[1]
           w == Unmarked(line)
           out == Comma(w) \/ w.pmi \in EndsInT
<1>1. line \in LatticeLine /\ (IsComma(line) => line.pmi \notin Attaching)
  BY RegularIs
<1>2. w.pmi = line.pmi /\ (IsComma(line) <=> Comma(w))
  BY <1>1, UnmarkedTag DEF IsComma
<1>3. (LeftOut(row, 1) <=> out) /\ (Capital(row, 1) <=> w.pmi \notin Opens) /\ ~Spaced(row, 1)
  BY <1>2 DEF LeftOut, Capital, Spaced
<1>4. ps \in Printer /\ ~Comma(ps.prev) /\ ps.prevPunc \notin Attaching
  BY DEF Harmless
<1>5. /\ out => Silent(ps, q) /\ Leaves(q, TRUE, ps.prev, ps.prevPunc)
      /\ ~out => Prints(ps, q, w, w.pmi \notin Opens, FALSE)
      /\ ~out /\ w.pmi \in Opens => Leaves(q, TRUE, ps.prev, ps.prevPunc)
      /\ ~out /\ w.pmi \notin Opens => Leaves(q, FALSE, w, w.pmi)
  BY <1>1, <1>4, FirstPrinted
<1> HIDE DEF w
<1>7. Right(ps, q, row, 1)
  <2>1. CASE out
    BY <1>3, <1>5, <2>1 DEF Right, Silent
  <2>2. CASE ~out
    BY <1>3, <1>5, <2>2 DEF Right, Prints, Shows, w
  <2>3. QED
    BY <2>1, <2>2
<1>8. Carried(q, row, 1)
  <2>1. CASE out
    <3>1. w.pmi \notin Attaching
      BY <1>1, <1>2, <2>1 DEF EndsInT, EndsInA, Opens, Attaching
    <3>2. QED
      BY <1>2, <1>3, <1>4, <1>5, <2>1, <3>1 DEF Carried, Leaves
  <2>2. CASE ~out /\ w.pmi \in Opens
    BY <1>2, <1>3, <1>4, <1>5, <2>2 DEF Carried, Leaves
  <2>3. CASE ~out /\ w.pmi \notin Opens
    BY <1>2, <1>3, <1>4, <1>5, <2>3 DEF Carried, Leaves
  <2>4. QED
    BY <2>1, <2>2, <2>3
<1>9. QED
  BY <1>7, <1>8

\* In a sentence whose words are generated.
LEMMA FirstMorphRight ==
    ASSUME NEW row \in Seq(LatticeLine), row # <<>>, Regular(row), NEW ps, Harmless(ps),
           mode = "morphs", NEW q, q = PrintFirstMorph(ps, row[1])
    PROVE  Right(ps, q, row, 1) /\ Carried(q, row, 1)
<1> DEFINE line == row[1]
           w == Unmarked(line)
           out == Comma(line) \/ line.pmi \in EndsInT
<1>1. /\ line \in LatticeLine /\ line # NoWord /\ (IsComma(line) => line.pmi \notin Attaching)
      /\ line.pmi \notin Opens /\ ~LeftOut(row, 1) => line.text \in Generated
  BY RegularIs
<1>2. IsComma(line) <=> Comma(line)
  BY DEF IsComma
<1>3. (LeftOut(row, 1) <=> out) /\ (Capital(row, 1) <=> line.pmi \notin Opens) /\ ~Spaced(row, 1)
  BY <1>2 DEF LeftOut, Capital, Spaced
<1>4. ps \in Printer /\ ~Comma(ps.prev) /\ ps.prevPunc \notin Attaching
  BY DEF Harmless
<1>5. /\ q \in Printer
      /\ out => Silent(ps, q) /\ Leaves(q, TRUE, ps.prev, ps.prevPunc)
      /\ ~out /\ line.pmi \in Opens =>
             Prints(ps, q, w, FALSE, FALSE) /\ Leaves(q, TRUE, ps.prev, line.pmi)
      /\ ~out /\ line.pmi \notin Opens =>
             /\ Leaves(q, FALSE, line, line.pmi)
             /\ line # NoWord /\ line.text \in Generated => Prints(ps, q, w, TRUE, FALSE)
  BY <1>1, <1>4, FirstMorphPrinted
<1> HIDE DEF w
<1>7. Right(ps, q, row, 1)
  <2>1. CASE out
    BY <1>3, <1>5, <2>1 DEF Right, Silent
  <2>2. CASE ~out /\ line.pmi \in Opens
    BY <1>3, <1>5, <2>2 DEF Right, Prints, Shows, w
  <2>3. CASE ~out /\ line.pmi \notin Opens
    BY <1>1, <1>3, <1>5, <2>3 DEF Right, Prints, Shows, w
  <2>4. QED
    BY <2>1, <2>2, <2>3
<1>8. Carried(q, row, 1)
  <2>1. CASE out
    <3>1. line.pmi \notin Attaching
      BY <1>1, <1>2, <2>1 DEF EndsInT, EndsInA, Opens, Attaching
    <3>2. QED
      BY <1>2, <1>3, <1>4, <1>5, <2>1, <3>1 DEF Carried, Leaves
  <2>2. CASE ~out /\ line.pmi \in Opens
    BY <1>2, <1>3, <1>4, <1>5, <2>2 DEF Carried, Leaves
  <2>3. CASE ~out /\ line.pmi \notin Opens
    BY <1>2, <1>3, <1>4, <1>5, <2>3 DEF Carried, Leaves
  <2>4. QED
    BY <2>1, <2>2, <2>3
<1>9. QED
  BY <1>7, <1>8

\* The same for any other word, which the printer sees as v: what the printer
\* knows of the word before is what the row says.
LEMMA AttachedRight ==
    ASSUME NEW row \in Seq(LatticeLine), row # <<>>, Regular(row), mode \in {"words", "morphs"},
           NEW i \in Nat, i \in 1 .. Len(row) - 1, NEW ps \in Printer, Carried(ps, row, i), NEW v, NEW q,
           Comma(v) <=> IsComma(row[i + 1]),
           IF Comma(v) /\ Comma(ps.prev) THEN q = ps
           ELSE q \in Printer /\ Attached(ps, q, Unmarked(row[i + 1]), v, row[i + 1].pmi)
    PROVE  Right(ps, q, row, i + 1) /\ Carried(q, row, i + 1)
<1> DEFINE line == row[i + 1]
           before == row[i]
           w == Unmarked(line)
           skip == Comma(v) /\ Comma(ps.prev)
           begun == i = 1 /\ (LeftOut(row, 1) \/ row[1].pmi \in Opens)
           free == before.pmi \in Attaching /\ ~(mode = "words" /\ i = 1 /\ row[1].pmi \in Opens)
<1>1. /\ i >= 1 /\ i + 1 # 1 /\ i + 1 > 1 /\ (i + 1) - 1 = i /\ i \in 1 .. Len(row) /\ i + 1 \in 1 .. Len(row)
      /\ (i + 1 > 2 <=> i > 1) /\ (i + 1 = 2 <=> i = 1) /\ (i = 1 \/ i > 1)
  BY LenProperties
<1>2. /\ line \in LatticeLine /\ before \in LatticeLine
      /\ IsComma(line) => line.pmi \notin Attaching /\ before.pmi \notin Opens
      /\ IsComma(before) => before.pmi \notin Attaching
  BY <1>1, RegularIs
<1>3. /\ ps.started <=> begun
      /\ i = 1 => ~Comma(ps.prev)
      /\ i > 1 /\ before.pmi \notin Opens => (Comma(ps.prev) <=> IsComma(before))
      /\ ps.prevPunc \in Attaching <=> free
  BY DEF Carried
<1>4. LeftOut(row, i + 1) <=> i > 1 /\ IsComma(line) /\ IsComma(before)
  BY <1>1 DEF LeftOut
<1>5. skip <=> LeftOut(row, i + 1)
  BY <1>1, <1>2, <1>3, <1>4
<1>6. Capital(row, i + 1) <=> begun
  BY <1>1 DEF Capital
<1>7. Spaced(row, i + 1) <=> /\ line.pmi \notin EndsInT \cup Closes
                             /\ free => line.pmi \in EndsInA
  BY <1>1 DEF Spaced, Attaching
<1>8. Carried(q, row, i + 1) <=>
          /\ ~q.started
          /\ line.pmi \notin Opens => (Comma(q.prev) <=> IsComma(line))
          /\ q.prevPunc \in Attaching <=> line.pmi \in Attaching
  BY <1>1 DEF Carried
<1>9. /\ skip => q = ps
      /\ ~skip => q \in Printer /\ Attached(ps, q, w, v, line.pmi)
  OBVIOUS
<1> HIDE DEF line, before, w, skip, begun, free
<1>10. CASE skip
  <2>1. q = ps /\ LeftOut(row, i + 1) /\ i > 1 /\ IsComma(line) /\ IsComma(before)
    BY <1>4, <1>5, <1>9, <1>10
  <2>2. Right(ps, q, row, i + 1)
    BY <2>1 DEF Right
  <2>3. ~begun /\ ~free /\ before.pmi \notin Opens
    BY <1>2, <2>1 DEF begun, free
  <2>4. Carried(q, row, i + 1)
    BY <1>2, <1>3, <1>8, <2>1, <2>3
  <2>5. QED
    BY <2>2, <2>4
<1>11. CASE ~skip
  <2>1. q \in Printer /\ Attached(ps, q, w, v, line.pmi) /\ ~LeftOut(row, i + 1)
    BY <1>5, <1>9, <1>11
  <2>2. Prints(ps, q, w, Capital(row, i + 1), Spaced(row, i + 1)) => Right(ps, q, row, i + 1)
    BY <2>1 DEF Right, w, line
  <2>3. CASE line.pmi \in EndsInT \cup Closes
    <3>1. Prints(ps, q, w, ps.started, FALSE) /\ Leaves(q, FALSE, v, line.pmi)
      BY <2>1, <2>3 DEF Attached
    <3>2. Prints(ps, q, w, Capital(row, i + 1), Spaced(row, i + 1))
      BY <1>3, <1>6, <1>7, <2>3, <3>1 DEF Prints, Shows
    <3>3. Carried(q, row, i + 1)
      BY <1>8, <3>1 DEF Leaves, line
    <3>4. QED
      BY <2>2, <3>2, <3>3
  <2>4. CASE line.pmi \notin EndsInT \cup Closes /\ line.pmi \in EndsInA
    <3>1. Prints(ps, q, w, ps.started, TRUE) /\ Leaves(q, FALSE, ps.prev, line.pmi)
      BY <2>1, <2>4 DEF Attached
    <3>2. Prints(ps, q, w, Capital(row, i + 1), Spaced(row, i + 1))
      BY <1>3, <1>6, <1>7, <2>4, <3>1 DEF Prints, Shows
    <3>3. Carried(q, row, i + 1)
      BY <1>8, <2>4, <3>1 DEF Leaves, EndsInA
    <3>4. QED
      BY <2>2, <3>2, <3>3
  <2>5. CASE line.pmi \notin EndsInT \cup Closes \cup EndsInA /\ ps.prevPunc \in Attaching
    <3>1. Prints(ps, q, w, ps.started, FALSE) /\ Leaves(q, FALSE, v, "")
      BY <2>1, <2>5 DEF Attached, Attaching
    <3>2. Prints(ps, q, w, Capital(row, i + 1), Spaced(row, i + 1))
      BY <1>3, <1>6, <1>7, <2>5, <3>1 DEF Prints, Shows
    <3>3. line.pmi \notin Attaching /\ "" \notin Attaching
      BY <2>5 DEF Attaching, Closes, EndsInA, Opens
    <3>4. Carried(q, row, i + 1)
      BY <1>8, <3>1, <3>3 DEF Leaves, line
    <3>5. QED
      BY <2>2, <3>2, <3>4
  <2>6. CASE line.pmi \notin EndsInT \cup Closes \cup EndsInA /\ ps.prevPunc \notin Attaching
    <3>1. Prints(ps, q, w, ps.started, TRUE) /\ Leaves(q, FALSE, v, ps.prevPunc)
      BY <2>1, <2>6 DEF Attached, Attaching
    <3>2. Prints(ps, q, w, Capital(row, i + 1), Spaced(row, i + 1))
      BY <1>3, <1>6, <1>7, <2>6, <3>1 DEF Prints, Shows
    <3>3. line.pmi \notin Attaching
      BY <2>6 DEF Attaching, Closes, EndsInA, Opens
    <3>4. Carried(q, row, i + 1)
      BY <1>8, <2>6, <3>1, <3>3 DEF Leaves, line
    <3>5. QED
      BY <2>2, <3>2, <3>4
  <2>7. QED
    BY <2>3, <2>4, <2>5, <2>6
<1>12. QED
  BY <1>10, <1>11

\* Every word of a row, in either mode.
LEMMA WordRight ==
    ASSUME NEW row \in Seq(LatticeLine), row # <<>>, Regular(row), mode \in {"words", "morphs"},
           NEW i \in 1 .. Len(row), NEW ps \in Printer,
           IF i = 1 THEN Harmless(ps) ELSE Carried(ps, row, i - 1)
    PROVE  LET q == PrintWord(ps, row[i], i) IN Right(ps, q, row, i) /\ Carried(q, row, i)
<1> DEFINE q == PrintWord(ps, row[i], i)
<1>1. q = IF mode = "words" THEN IF i = 1 THEN PrintFirst(ps, row[i]) ELSE PrintNext(ps, row[i])
          ELSE IF i = 1 THEN PrintFirstMorph(ps, row[i]) ELSE PrintNextMorph(ps, row[i])
  <2>1. i = 1 \/ i > 1
    OBVIOUS
  <2>2. QED
    BY <2>1 DEF PrintWord
<1> HIDE DEF q
<1>2. CASE i = 1
  <2>1. CASE mode = "words"
    BY <1>1, <1>2, <2>1, FirstRight DEF q
  <2>2. CASE mode = "morphs"
    BY <1>1, <1>2, <2>2, FirstMorphRight DEF q
  <2>3. QED
    BY <2>1, <2>2
<1>3. CASE i # 1
  <2> DEFINE j == i - 1
  <2>1. j \in Nat /\ j \in 1 .. Len(row) - 1 /\ j + 1 = i /\ Carried(ps, row, j)
    BY <1>3, LenProperties
  <2>2. row[i] \in LatticeLine /\ row[i] # NoWord
    BY RegularIs
  <2> HIDE DEF j
  <2>3. CASE mode = "words"
    <3> DEFINE w == Unmarked(row[i])
    <3>1. w.pmi = row[i].pmi /\ (Comma(w) <=> IsComma(row[i]))
      BY <2>2, <2>3, UnmarkedTag DEF IsComma
    <3>2. IF Comma(w) /\ Comma(ps.prev) THEN q = ps ELSE q \in Printer /\ Attached(ps, q, w, w, row[i].pmi)
      BY <1>1, <1>3, <2>2, <2>3, <3>1, NextPrinted
    <3> HIDE DEF w
    <3>3. Right(ps, q, row, j + 1) /\ Carried(q, row, j + 1)
      BY <2>1, <3>1, <3>2, AttachedRight DEF w
    <3>4. QED
      BY <2>1, <3>3 DEF q
  <2>4. CASE mode = "morphs"
    <3>1. Comma(row[i]) <=> IsComma(row[i])
      BY <2>4 DEF IsComma
    <3>2. IF Comma(row[i]) /\ Comma(ps.prev) THEN q = ps
          ELSE q \in Printer /\ Attached(ps, q, Unmarked(row[i]), row[i], row[i].pmi)
      BY <1>1, <1>3, <2>2, <2>4, <3>1, NextMorphPrinted
    <3>3. Right(ps, q, row, j + 1) /\ Carried(q, row, j + 1)
      BY <2>1, <3>1, <3>2, AttachedRight
    <3>4. QED
      BY <2>1, <3>3 DEF q
  <2>5. QED
    BY <2>3, <2>4
<1>4. QED
  BY <1>2, <1>3

-------------------------------------------------------------------------------
(***************************************************************************)
(* A row, word after word.                                                 *)
(***************************************************************************)
LEMMA WordType ==
    ASSUME mode \in {"words", "morphs"}, NEW ps \in Printer, NEW line \in LatticeLine, NEW i \in Nat \ {0}
    PROVE  PrintWord(ps, line, i) \in Printer
<1> DEFINE q == PrintWord(ps, line, i)
<1>1. q = IF mode = "words" THEN IF i = 1 THEN PrintFirst(ps, line) ELSE PrintNext(ps, line)
          ELSE IF i = 1 THEN PrintFirstMorph(ps, line) ELSE PrintNextMorph(ps, line)
  <2>1. i = 1 \/ i > 1
    OBVIOUS
  <2>2. QED
    BY <2>1 DEF PrintWord
<1>2. PrintFirst(ps, line) \in Printer
  BY FirstPrinted DEF Silent, Prints
<1>3. PrintNext(ps, line) \in Printer
  BY NextPrinted
<1>4. PrintFirstMorph(ps, line) \in Printer
  BY FirstMorphPrinted
<1>5. PrintNextMorph(ps, line) \in Printer
  BY NextMorphPrinted
<1>6. QED
  BY <1>1, <1>2, <1>3, <1>4, <1>5

RowSteps(ps, row, f) ==
    /\ f[0] = ps
    /\ \A i \in 1 .. Len(row) : f[i] = PrintWord(f[i - 1], row[i], i)

LEMMA RowStepsExist ==
    ASSUME mode \in {"words", "morphs"}, NEW ps \in Printer, NEW row \in Seq(LatticeLine)
    PROVE  \E f \in [0 .. Len(row) -> Printer] : RowSteps(ps, row, f)
<1> DEFINE turn == [i \in 1 .. Len(row) |-> [p \in Printer |-> PrintWord(p, row[i], i)]]
<1>1. Len(row) \in Nat /\ \A i \in 1 .. Len(row) : row[i] \in LatticeLine
  BY ElementOfSeq, LenProperties
<1>2. turn \in [1 .. Len(row) -> [Printer -> Printer]]
  BY <1>1, WordType
<1>3. \A i \in 1 .. Len(row), p \in Printer : turn[i][p] = PrintWord(p, row[i], i)
  OBVIOUS
<1> HIDE DEF turn
<1>4. PICK f \in [0 .. Len(row) -> Printer] : Follows(f, ps, Len(row), turn)
  BY <1>1, <1>2, RecursionExists
<1>5. \A i \in 1 .. Len(row) : f[i - 1] \in Printer
  BY <1>1
<1>6. RowSteps(ps, row, f)
  BY <1>3, <1>4, <1>5 DEF Follows, RowSteps
<1>7. QED
  BY <1>6

LEMMA PrintRowIs ==
    ASSUME mode \in {"words", "morphs"}, NEW ps \in Printer, NEW row \in Seq(LatticeLine)
    PROVE  \E f \in [0 .. Len(row) -> Printer] : RowSteps(ps, row, f) /\ PrintRow(ps, row) = f[Len(row)]
<1> DEFINE Body(g) == [i \in 0 .. Len(row) |-> IF i = 0 THEN ps ELSE PrintWord(g[i - 1], row[i], i)]
           chosen == CHOOSE g : g = Body(g)
<1>1. Len(row) \in Nat
  BY LenProperties
<1>2. PICK f \in [0 .. Len(row) -> Printer] : RowSteps(ps, row, f)
  BY RowStepsExist
<1>3. f = Body(f)
  <2>1. ASSUME NEW n \in 0 .. Len(row) PROVE f[n] = Body(f)[n]
    <3>1. CASE n = 0
      BY <1>1, <1>2, <3>1 DEF RowSteps
    <3>2. CASE n \in 1 .. Len(row)
      BY <1>1, <1>2, <3>2 DEF RowSteps
    <3>3. QED
      BY <1>1, <3>1, <3>2
  <2> DEFINE h == Body(f)
  <2>2. h = [n \in 0 .. Len(row) |-> h[n]] /\ \A n \in 0 .. Len(row) : f[n] = h[n]
    BY <2>1
  <2> HIDE DEF h
  <2>3. f = h
    BY <2>2
  <2>4. QED
    BY <2>3 DEF h
<1>4. chosen = Body(chosen)
  BY <1>3
<1>5. \A n \in 0 .. Len(row) : chosen[n] = Body(chosen)[n]
  BY <1>4
<1>6. chosen[0] = ps
  BY <1>1, <1>5
<1>7. ASSUME NEW n \in 1 .. Len(row) PROVE chosen[n] = PrintWord(chosen[n - 1], row[n], n)
  <2>1. n \in 0 .. Len(row) /\ n # 0
    BY <1>1
  <2>2. chosen[n] = Body(chosen)[n]
    BY <1>5, <2>1
  <2> HIDE DEF chosen
  <2>3. QED
    BY <2>1, <2>2
<1>8. PrintRow(ps, row) = chosen[Len(row)]
  BY DEF PrintRow
<1> HIDE DEF chosen
<1>9. f[0] = chosen[0] /\ \A n \in 1 .. Len(row) : f[n - 1] = chosen[n - 1] => f[n] = chosen[n]
  BY <1>2, <1>6, <1>7 DEF RowSteps
<1>10. f[Len(row)] = chosen[Len(row)]
  BY <1>1, <1>9, RecursionAgrees
<1>11. QED
  BY <1>2, <1>8, <1>10

\* The pieces printed so far show the places that are kept, in their order.
ShowsPlaces(pieces, places, row) ==
    /\ Len(pieces) = Len(places)
    /\ \A k \in 1 .. Len(places) : Shown(pieces[k]) = Wanted(row, places[k])

LEMMA PlacesAppend ==
    ASSUME NEW pieces \in Seq(PrintedPiece), NEW places \in Seq(Nat), NEW row,
           ShowsPlaces(pieces, places, row),
           NEW x \in PrintedPiece, NEW i \in Nat, Shown(x) = Wanted(row, i)
    PROVE  ShowsPlaces(Append(pieces, x), Append(places, i), row)
<1> DEFINE a == Append(pieces, x)
           b == Append(places, i)
<1>1. /\ Len(a) = Len(pieces) + 1 /\ a[Len(pieces) + 1] = x
      /\ \A k \in 1 .. Len(pieces) : a[k] = pieces[k]
  BY AppendProperties, LenProperties
<1>2. /\ Len(b) = Len(places) + 1 /\ b[Len(places) + 1] = i
      /\ \A k \in 1 .. Len(places) : b[k] = places[k]
  BY AppendProperties, LenProperties
<1>3. Len(places) \in Nat /\ Len(pieces) = Len(places)
  BY LenProperties DEF ShowsPlaces
<1> HIDE DEF a, b
<1>4. ASSUME NEW k \in 1 .. Len(b) PROVE Shown(a[k]) = Wanted(row, b[k])
  <2>1. CASE k = Len(places) + 1
    BY <1>1, <1>2, <1>3, <2>1
  <2>2. CASE k \in 1 .. Len(places)
    BY <1>1, <1>2, <1>3, <2>2 DEF ShowsPlaces
  <2>3. QED
    BY <1>2, <1>3, <2>1, <2>2
<1>5. QED
  BY <1>1, <1>2, <1>3, <1>4 DEF ShowsPlaces, a, b

\* The places that are kept.
Places(row) == [i \in DOMAIN row |-> i]
Remaining(row) == {i \in DOMAIN row : ~LeftOut(row, i)}

LEMMA RowRight ==
    ASSUME NEW row \in Seq(LatticeLine), row # <<>>, Regular(row), mode \in {"words", "morphs"},
           NEW ps, Harmless(ps), ps.pieces = <<>>
    PROVE  /\ Harmless(PrintRow(ps, row))
           /\ ShowsPlaces(PrintRow(ps, row).pieces, Only(Places(row), Remaining(row)), row)
           /\ Only(Places(row), Remaining(row)) \in Seq(Nat)
<1> DEFINE n == Len(row)
           s == Places(row)
           S == Remaining(row)
<1>1. n \in Nat \ {0} /\ DOMAIN row = 1 .. n
  BY LenProperties, RegularIs
<1>2. ps \in Printer
  BY DEF Harmless
<1>3. PICK f \in [0 .. n -> Printer] : RowSteps(ps, row, f) /\ PrintRow(ps, row) = f[n]
  BY <1>2, PrintRowIs
<1>4. s \in Seq(Nat) /\ Len(s) = n /\ (\A i \in 1 .. n : s[i] = i /\ (i \in S <=> ~LeftOut(row, i)))
  <2>1. s = [i \in 1 .. n |-> i]
    BY <1>1 DEF Places
  <2>2. s \in Seq(Nat) /\ Len(s) = n
    BY <1>1, <2>1
  <2>3. \A i \in 1 .. n : s[i] = i
    BY <2>1
  <2>4. QED
    BY <1>1, <2>2, <2>3 DEF Remaining
<1> HIDE DEF s, S
<1>5. PICK g \in [0 .. Len(s) -> Seq(Nat)] : UpTo(s, S, Len(s), g)
  BY <1>4, UpToWhole
<1>6. Only(s, S) = g[n]
  BY <1>4, <1>5, OnlyIs
<1>7. /\ g[0] = <<>>
      /\ \A i \in 1 .. n : g[i] = IF ~LeftOut(row, i) THEN Append(g[i - 1], i) ELSE g[i - 1]
      /\ \A i \in 0 .. n : g[i] \in Seq(Nat)
  <2>1. g[0] = <<>>
    BY <1>5 DEF UpTo
  <2>2. \A i \in 0 .. n : g[i] \in Seq(Nat)
    BY <1>4, <1>5
  <2>3. ASSUME NEW i \in 1 .. n
        PROVE  g[i] = IF ~LeftOut(row, i) THEN Append(g[i - 1], i) ELSE g[i - 1]
    <3>1. s[i] = i /\ (i \in S <=> ~LeftOut(row, i)) /\ i \in 1 .. Len(s)
      BY <1>4
    <3>2. g[i] = IF s[i] \in S THEN Append(g[i - 1], s[i]) ELSE g[i - 1]
      BY <1>5, <3>1 DEF UpTo
    <3>3. QED
      BY <3>1, <3>2
  <2>4. QED
    BY <2>1, <2>2, <2>3
<1> DEFINE P(i) == /\ i = 0 => Harmless(f[i])
                   /\ i # 0 => Carried(f[i], row, i)
                   /\ ShowsPlaces(f[i].pieces, g[i], row)
           G == {i \in Nat : i <= n => P(i)}
<1>8. 0 \in G
  <2>1. f[0] = ps
    BY <1>3 DEF RowSteps
  <2>2. ShowsPlaces(<<>>, <<>>, row)
    BY EmptySeq DEF ShowsPlaces
  <2>3. QED
    BY <1>7, <2>1, <2>2
<1>9. ASSUME NEW j \in Nat, j \in G PROVE j + 1 \in G
  <2> SUFFICES ASSUME j + 1 <= n PROVE P(j + 1)
    OBVIOUS
  <2> DEFINE i == j + 1
  <2>1. i \in 1 .. n /\ i - 1 = j /\ j \in 0 .. n /\ i \in Nat /\ i # 0 /\ (i = 1 <=> j = 0)
    BY <1>1
  <2>2. P(j)
    BY <1>9, <2>1
  <2>3. f[j] \in Printer /\ f[i] = PrintWord(f[j], row[i], i)
    BY <1>3, <2>1 DEF RowSteps
  <2> HIDE DEF i
  <2>4. IF i = 1 THEN Harmless(f[j]) ELSE Carried(f[j], row, i - 1)
    BY <2>1, <2>2
  <2>5. Right(f[j], f[i], row, i) /\ Carried(f[i], row, i)
    BY <2>1, <2>3, <2>4, WordRight
  <2>6. ShowsPlaces(f[i].pieces, g[i], row)
    <3>1. CASE LeftOut(row, i)
      <4>1. f[i].pieces = f[j].pieces /\ g[i] = g[j]
        BY <1>7, <2>1, <2>5, <3>1 DEF Right
      <4>2. QED
        BY <2>2, <4>1
    <3>2. CASE ~LeftOut(row, i)
      <4>1. g[i] = Append(g[j], i) /\ g[j] \in Seq(Nat)
        BY <1>7, <2>1, <3>2
      <4>2. PICK x \in PrintedPiece : /\ f[i].pieces = Append(f[j].pieces, x)
                                      /\ Shows(x, Unmarked(row[i]), Capital(row, i), Spaced(row, i))
        BY <2>5, <3>2 DEF Right, Prints, Shows
      <4>3. Shown(x) = Wanted(row, i)
        BY <4>2, ShownRight
      <4>4. f[j].pieces \in Seq(PrintedPiece)
        BY <2>3 DEF Printer
      <4>5. ShowsPlaces(Append(f[j].pieces, x), Append(g[j], i), row)
        BY <2>1, <2>2, <4>1, <4>3, <4>4, PlacesAppend
      <4>6. QED
        BY <4>1, <4>2, <4>5
    <3>3. QED
      BY <3>1, <3>2
  <2>7. QED
    BY <2>1, <2>5, <2>6 DEF i
<1>10. Nat \subseteq G
  BY <1>8, <1>9, SetInduction
<1>11. P(n)
  BY <1>1, <1>10
<1>12. Harmless(f[n])
  <2>1. Carried(f[n], row, n) /\ f[n] \in Printer
    BY <1>1, <1>11
  <2>2. ~IsComma(row[n]) /\ row[n].pmi \notin Opens /\ row[n].pmi \notin Attaching
    BY RegularIs DEF Attaching, EndsInA
  <2>3. n = 1 \/ n > 1
    BY <1>1
  <2>4. QED
    BY <2>1, <2>2, <2>3 DEF Carried, Harmless
<1>13. QED
  BY <1>1, <1>3, <1>6, <1>7, <1>11, <1>12 DEF s, S

\* A sentence that is begun in a harmless state is printed as expected.
LEMMA RowExpected ==
    ASSUME NEW row \in Seq(LatticeLine), row # <<>>, Regular(row), mode \in {"words", "morphs"},
           NEW ps, Harmless(ps), ps.pieces = <<>>
    PROVE  LET pieces == PrintRow(ps, row).pieces
           IN  [i \in DOMAIN pieces |->
                   LET p == pieces[i] IN [word |-> p.word, upper |-> p.upper, space |-> p.space]] = Expected(row)
<1> DEFINE pieces == PrintRow(ps, row).pieces
           kept == Only(Places(row), Remaining(row))
<1>1. /\ PrintRow(ps, row) \in Printer
      /\ ShowsPlaces(pieces, kept, row)
      /\ kept \in Seq(Nat)
  BY RowRight DEF Harmless
<1>2. pieces \in Seq(PrintedPiece)
  BY <1>1 DEF Printer
<1>3. Expected(row) = [k \in DOMAIN kept |-> Wanted(row, kept[k])]
  BY DEF Expected, Places, Remaining, Wanted
<1> HIDE DEF pieces, kept
<1>4. DOMAIN pieces = 1 .. Len(pieces) /\ DOMAIN kept = 1 .. Len(kept) /\ Len(pieces) = Len(kept)
  BY <1>1, <1>2, LenProperties DEF ShowsPlaces
<1>5. \A k \in DOMAIN kept : Shown(pieces[k]) = Wanted(row, kept[k])
  BY <1>1, <1>4 DEF ShowsPlaces
<1>6. [i \in DOMAIN pieces |-> Shown(pieces[i])] = [k \in DOMAIN kept |-> Wanted(row, kept[k])]
  BY <1>4, <1>5
<1>7. QED
  BY <1>3, <1>6 DEF Shown, pieces

-------------------------------------------------------------------------------
(***************************************************************************)
(* The best rows, one after the other: each leaves the printer in a state  *)
(* in which the next can be begun.                                         *)
(***************************************************************************)
Afresh(p) == [p EXCEPT !.pieces = <<>>]

LEMMA AfreshType ==
    ASSUME NEW p \in Printer
    PROVE  Afresh(p) \in Printer /\ Afresh(p).pieces = <<>> /\ (Harmless(p) => Harmless(Afresh(p)))
<1>1. <<>> \in Seq(PrintedPiece)
  BY EmptySeq
<1>2. Afresh(p) \in Printer /\ Afresh(p).pieces = <<>> /\ Afresh(p).prev = p.prev /\ Afresh(p).prevPunc = p.prevPunc
  BY <1>1 DEF Afresh, Printer
<1>3. QED
  BY <1>2 DEF Harmless

\* A matrix whose rows are rows of words, and an order of some of its rows.
Printable(m, order) ==
    \A k \in 1 .. Len(order) : Row(m, order[k]) \in Seq(LatticeLine) /\ Row(m, order[k]) # <<>>

SentenceSteps(m, order, f) ==
    /\ f[0] = StartPrinter
    /\ \A k \in 1 .. Len(order) : f[k] = PrintRow(Afresh(f[k - 1]), Row(m, order[k]))

LEMMA PrintRowType ==
    ASSUME mode \in {"words", "morphs"}, NEW ps \in Printer, NEW row \in Seq(LatticeLine)
    PROVE  PrintRow(ps, row) \in Printer
<1>1. PICK f \in [0 .. Len(row) -> Printer] : PrintRow(ps, row) = f[Len(row)]
  BY PrintRowIs
<1>2. QED
  BY <1>1, LenProperties

LEMMA SentenceStepsExist ==
    ASSUME mode \in {"words", "morphs"}, NEW m, NEW order, Len(order) \in Nat, Printable(m, order)
    PROVE  \E f \in [0 .. Len(order) -> Printer] : SentenceSteps(m, order, f)
<1> DEFINE turn == [k \in 1 .. Len(order) |-> [p \in Printer |-> PrintRow(Afresh(p), Row(m, order[k]))]]
<1>1. ASSUME NEW k \in 1 .. Len(order), NEW p \in Printer PROVE PrintRow(Afresh(p), Row(m, order[k])) \in Printer
  BY AfreshType, PrintRowType DEF Printable
<1>2. turn \in [1 .. Len(order) -> [Printer -> Printer]]
  BY <1>1
<1>3. \A k \in 1 .. Len(order), p \in Printer : turn[k][p] = PrintRow(Afresh(p), Row(m, order[k]))
  OBVIOUS
<1> HIDE DEF turn
<1>4. PICK f \in [0 .. Len(order) -> Printer] : Follows(f, StartPrinter, Len(order), turn)
  BY <1>2, LineTypes, RecursionExists
<1>5. \A k \in 1 .. Len(order) : f[k - 1] \in Printer
  OBVIOUS
<1>6. SentenceSteps(m, order, f)
  BY <1>3, <1>4, <1>5 DEF Follows, SentenceSteps
<1>7. QED
  BY <1>6

LEMMA PrintRowsIs ==
    ASSUME mode \in {"words", "morphs"}, NEW m, NEW order, Len(order) \in Nat, Printable(m, order)
    PROVE  \E f \in [0 .. Len(order) -> Printer] :
               /\ SentenceSteps(m, order, f)
               /\ \A k \in 1 .. Len(order) : PrintRows(m, order)[k] = f[k].pieces
<1> DEFINE Body(g) == [k \in 0 .. Len(order) |-> IF k = 0 THEN StartPrinter
                          ELSE PrintRow([g[k - 1] EXCEPT !.pieces = <<>>], Row(m, order[k]))]
           chosen == CHOOSE g : g = Body(g)
<1>2. PICK f \in [0 .. Len(order) -> Printer] : SentenceSteps(m, order, f)
  BY SentenceStepsExist
<1>3. f = Body(f)
  <2>1. ASSUME NEW n \in 0 .. Len(order) PROVE f[n] = Body(f)[n]
    <3>1. CASE n = 0
      BY <1>2, <3>1 DEF SentenceSteps
    <3>2. CASE n \in 1 .. Len(order)
      BY <1>2, <3>2 DEF SentenceSteps, Afresh
    <3>3. QED
      BY <3>1, <3>2
  <2> DEFINE h == Body(f)
  <2>2. h = [n \in 0 .. Len(order) |-> h[n]] /\ \A n \in 0 .. Len(order) : f[n] = h[n]
    BY <2>1
  <2> HIDE DEF h
  <2>3. f = h
    BY <2>2
  <2>4. QED
    BY <2>3 DEF h
<1>4. chosen = Body(chosen)
  BY <1>3
<1>5. \A n \in 0 .. Len(order) : chosen[n] = Body(chosen)[n]
  BY <1>4
<1>6. chosen[0] = StartPrinter
  <2>1. 0 \in 0 .. Len(order)
    OBVIOUS
  <2>2. chosen[0] = Body(chosen)[0]
    BY <1>5, <2>1
  <2> HIDE DEF chosen
  <2>3. QED
    BY <2>1, <2>2
<1>7. ASSUME NEW n \in 1 .. Len(order) PROVE chosen[n] = PrintRow(Afresh(chosen[n - 1]), Row(m, order[n]))
  <2>1. n \in 0 .. Len(order) /\ n # 0
    OBVIOUS
  <2>2. chosen[n] = Body(chosen)[n]
    BY <1>5, <2>1
  <2> HIDE DEF chosen
  <2>3. QED
    BY <2>1, <2>2 DEF Afresh
<1>8. PrintRows(m, order) = [k \in 1 .. Len(order) |-> chosen[k].pieces]
  BY DEF PrintRows
<1> HIDE DEF chosen
<1>9. ASSUME NEW k \in 1 .. Len(order) PROVE f[k] = chosen[k]
  <2>1. f[0] = chosen[0] /\ \A n \in 1 .. k : f[n - 1] = chosen[n - 1] => f[n] = chosen[n]
    BY <1>2, <1>6, <1>7 DEF SentenceSteps
  <2>2. k \in Nat
    OBVIOUS
  <2>3. QED
    BY <2>1, <2>2, RecursionAgrees
<1>10. QED
  BY <1>2, <1>8, <1>9

\* Every sentence of a block whose rows are regular.
LEMMA SentencesRight ==
    ASSUME mode \in {"words", "morphs"}, NEW m, NEW order, Len(order) \in Nat, Printable(m, order),
           \A k \in 1 .. Len(order) : Regular(Row(m, order[k]))
    PROVE  \A k \in 1 .. Len(order) :
               LET printed == PrintRows(m, order)
               IN  [i \in DOMAIN printed[k] |->
                       LET p == printed[k][i] IN [word |-> p.word, upper |-> p.upper, space |-> p.space]]
                       = Expected(Row(m, order[k]))
<1>1. PICK f \in [0 .. Len(order) -> Printer] :
          /\ SentenceSteps(m, order, f)
          /\ \A k \in 1 .. Len(order) : PrintRows(m, order)[k] = f[k].pieces
  BY PrintRowsIs
<1>2. ASSUME NEW k \in 1 .. Len(order), Harmless(f[k - 1])
      PROVE  /\ Harmless(f[k])
             /\ [i \in DOMAIN f[k].pieces |->
                    LET p == f[k].pieces[i] IN [word |-> p.word, upper |-> p.upper, space |-> p.space]]
                    = Expected(Row(m, order[k]))
  <2> DEFINE row == Row(m, order[k])
             ps == Afresh(f[k - 1])
  <2>1. row \in Seq(LatticeLine) /\ row # <<>> /\ Regular(row)
    BY DEF Printable
  <2>2. f[k - 1] \in Printer
    OBVIOUS
  <2>3. Harmless(ps) /\ ps.pieces = <<>>
    BY <1>2, <2>2, AfreshType
  <2>4. f[k] = PrintRow(ps, row)
    BY <1>1 DEF SentenceSteps
  <2> HIDE DEF row, ps
  <2>5. Harmless(PrintRow(ps, row))
    BY <2>1, <2>3, RowRight
  <2>6. [i \in DOMAIN PrintRow(ps, row).pieces |->
            LET p == PrintRow(ps, row).pieces[i] IN [word |-> p.word, upper |-> p.upper, space |-> p.space]]
            = Expected(row)
    BY <2>1, <2>3, RowExpected
  <2>7. QED
    BY <2>4, <2>5, <2>6 DEF row
<1> DEFINE G == {k \in Nat : k <= Len(order) => Harmless(f[k])}
<1>3. 0 \in G
  <2>1. ~Comma(StartPrinter.prev) /\ StartPrinter.prevPunc \notin Attaching
    BY DEF StartPrinter, Comma, NoWord, Attaching, EndsInA, Opens
  <2>2. QED
    BY <1>1, <2>1, LineTypes DEF SentenceSteps, Harmless
<1>4. ASSUME NEW k \in Nat, k \in G PROVE k + 1 \in G
  <2> SUFFICES ASSUME k + 1 <= Len(order) PROVE Harmless(f[k + 1])
    OBVIOUS
  <2> DEFINE j == k + 1
  <2>1. j \in 1 .. Len(order) /\ j - 1 = k /\ Harmless(f[k])
    BY <1>4
  <2> HIDE DEF j
  <2>2. Harmless(f[j])
    BY <1>2, <2>1
  <2>3. QED
    BY <2>2 DEF j
<1>5. Nat \subseteq G
  BY <1>3, <1>4, SetInduction
<1>6. \A k \in 1 .. Len(order) : k - 1 \in Nat /\ k - 1 \in G /\ k - 1 <= Len(order)
  BY <1>5
<1>7. QED
  BY <1>1, <1>2, <1>6

-------------------------------------------------------------------------------
(***************************************************************************)
(* How many sentences there are: the product of the alternatives, counted  *)
(* from the first word on.                                                 *)
(***************************************************************************)
Products(slots, P) ==
    /\ P[0] = 1
    /\ \A k \in 1 .. Len(slots) : P[k] = P[k - 1] * Len(slots[k])

LEMMA ProductsExist ==
    ASSUME NEW T, NEW slots \in Seq(Seq(T))
    PROVE  \E P \in [0 .. Len(slots) -> Nat] : Products(slots, P)
<1> DEFINE turn == [k \in 1 .. Len(slots) |-> [n \in Nat |-> n * Len(slots[k])]]
<1>1. Len(slots) \in Nat /\ \A k \in 1 .. Len(slots) : Len(slots[k]) \in Nat
  <2>1. Len(slots) \in Nat /\ \A k \in 1 .. Len(slots) : slots[k] \in Seq(T)
    BY ElementOfSeq, LenProperties
  <2>2. QED
    BY <2>1, LenProperties
<1>2. turn \in [1 .. Len(slots) -> [Nat -> Nat]]
  BY <1>1
<1>3. \A k \in 1 .. Len(slots), n \in Nat : turn[k][n] = n * Len(slots[k])
  OBVIOUS
<1> HIDE DEF turn
<1>4. PICK P \in [0 .. Len(slots) -> Nat] : Follows(P, 1, Len(slots), turn)
  BY <1>1, <1>2, RecursionExists
<1>5. ASSUME NEW k \in 1 .. Len(slots) PROVE P[k - 1] \in Nat
  <2>1. k - 1 \in 0 .. Len(slots)
    BY <1>1
  <2>2. QED
    BY <2>1, <1>4
<1>6. Products(slots, P)
  BY <1>3, <1>4, <1>5 DEF Follows, Products
<1>7. QED
  BY <1>6

LEMMA ProductIs ==
    ASSUME NEW T, NEW slots \in Seq(Seq(T)), NEW P, Products(slots, P)
    PROVE  Product(slots) = P[Len(slots)]
<1> DEFINE Body(g) == [n \in 0 .. Len(slots) |-> IF n = 0 THEN 1 ELSE g[n - 1] * Len(slots[n])]
           chosen == CHOOSE g : g = Body(g)
<1>1. Len(slots) \in Nat
  BY LenProperties
<1>2. \E g : g = Body(g)
  <2>1. PICK g \in [0 .. Len(slots) -> Nat] : Products(slots, g)
    BY ProductsExist
  <2>2. ASSUME NEW n \in 0 .. Len(slots) PROVE g[n] = Body(g)[n]
    <3>1. CASE n = 0
      BY <1>1, <2>1, <3>1 DEF Products
    <3>2. CASE n \in 1 .. Len(slots)
      BY <1>1, <2>1, <3>2 DEF Products
    <3>3. QED
      BY <1>1, <3>1, <3>2
  <2> DEFINE h == Body(g)
  <2>3. h = [n \in 0 .. Len(slots) |-> h[n]] /\ \A n \in 0 .. Len(slots) : g[n] = h[n]
    BY <2>2
  <2> HIDE DEF h
  <2>4. g = h
    BY <2>3
  <2>5. QED
    BY <2>4 DEF h
<1>3. chosen = Body(chosen)
  BY <1>2
<1>4. \A n \in 0 .. Len(slots) : chosen[n] = Body(chosen)[n]
  BY <1>3
<1>5. chosen[0] = 1
  <2>1. 0 \in 0 .. Len(slots) /\ chosen[0] = Body(chosen)[0]
    BY <1>1, <1>4
  <2> HIDE DEF chosen
  <2>2. QED
    BY <2>1
<1>6. ASSUME NEW n \in 1 .. Len(slots) PROVE chosen[n] = chosen[n - 1] * Len(slots[n])
  <2>1. n \in 0 .. Len(slots) /\ n # 0
    BY <1>1
  <2>2. chosen[n] = Body(chosen)[n]
    BY <1>4, <2>1
  <2> HIDE DEF chosen
  <2>3. QED
    BY <2>1, <2>2
<1>7. Product(slots) = chosen[Len(slots)]
  BY DEF Product
<1> HIDE DEF chosen
<1>8. P[0] = chosen[0] /\ \A n \in 1 .. Len(slots) : P[n - 1] = chosen[n - 1] => P[n] = chosen[n]
  BY <1>5, <1>6 DEF Products
<1>9. QED
  BY <1>1, <1>7, <1>8, RecursionAgrees

\* No word without a line: there is a sentence.
LEMMA ProductsPositive ==
    ASSUME NEW T, NEW slots \in Seq(Seq(T)), \A k \in 1 .. Len(slots) : slots[k] # <<>>,
           NEW P \in [0 .. Len(slots) -> Nat], Products(slots, P)
    PROVE  \A k \in 0 .. Len(slots) : P[k] \in Nat \ {0}
<1> DEFINE G == {k \in Nat : k <= Len(slots) => P[k] \in Nat \ {0}}
<1>1. Len(slots) \in Nat
  BY LenProperties
<1>2. 0 \in G
  BY DEF Products
<1>3. ASSUME NEW k \in Nat, k \in G PROVE k + 1 \in G
  <2> SUFFICES ASSUME k + 1 <= Len(slots) PROVE P[k + 1] \in Nat \ {0}
    OBVIOUS
  <2>1. k + 1 \in 1 .. Len(slots) /\ (k + 1) - 1 = k /\ P[k] \in Nat \ {0}
    BY <1>1, <1>3
  <2>2. slots[k + 1] \in Seq(T) /\ slots[k + 1] # <<>>
    BY <2>1, ElementOfSeq
  <2>3. Len(slots[k + 1]) \in Nat \ {0}
    BY <2>2, EmptySeq, LenProperties
  <2>4. P[k + 1] = P[k] * Len(slots[k + 1])
    BY <2>1 DEF Products
  <2>5. \A a, b \in Nat \ {0} : a * b \in Nat \ {0}
    OBVIOUS
  <2>6. QED
    BY <2>1, <2>3, <2>4, <2>5
<1>4. Nat \subseteq G
  BY <1>2, <1>3, SetInduction
<1>5. QED
  BY <1>1, <1>4

-------------------------------------------------------------------------------
(***************************************************************************)
(* insertTransOpts: the rows for the last words, from one word to the one  *)
(* before it.                                                              *)
(***************************************************************************)
Lattice == sentLattice \in Seq(Seq(LatticeLine)) /\ \A c \in 1 .. Len(sentLattice) : sentLattice[c] # <<>>
Filling == [Ambiguous -> LatticeLine]
EmptyFilling == [d \in Ambiguous |-> NoWord]
Inserted(rest, c) ==
    FlattenSeq([i \in DOMAIN sentLattice[c] |->
        [r \in DOMAIN rest |-> [rest[r] EXCEPT ![c] = sentLattice[c][i]]]])
Fills(f) ==
    /\ f[0] = <<EmptyFilling>>
    /\ \A k \in 1 .. Len(sentLattice) :
           f[k] = IF Len(sentLattice) + 1 - k \notin Ambiguous THEN f[k - 1]
                  ELSE Inserted(f[k - 1], Len(sentLattice) + 1 - k)

\* The words of a lattice.
LEMMA LatticeWords ==
    ASSUME Lattice
    PROVE  /\ Len(sentLattice) \in Nat
           /\ Ambiguous \subseteq 1 .. Len(sentLattice)
           /\ \A c \in 1 .. Len(sentLattice) :
                 /\ sentLattice[c] \in Seq(LatticeLine)
                 /\ DOMAIN sentLattice[c] = 1 .. Len(sentLattice[c])
                 /\ Len(sentLattice[c]) \in Nat \ {0}
                 /\ \A i \in 1 .. Len(sentLattice[c]) : sentLattice[c][i] \in LatticeLine
                 /\ Range(sentLattice[c]) \subseteq LatticeLine
                 /\ c \notin Ambiguous => Range(sentLattice[c]) = {sentLattice[c][1]}
<1>1. Len(sentLattice) \in Nat
  BY LenProperties DEF Lattice
<1>2. ASSUME NEW c \in 1 .. Len(sentLattice)
      PROVE  /\ sentLattice[c] \in Seq(LatticeLine)
             /\ DOMAIN sentLattice[c] = 1 .. Len(sentLattice[c])
             /\ Len(sentLattice[c]) \in Nat \ {0}
             /\ \A i \in 1 .. Len(sentLattice[c]) : sentLattice[c][i] \in LatticeLine
             /\ Range(sentLattice[c]) \subseteq LatticeLine
             /\ c \notin Ambiguous => Range(sentLattice[c]) = {sentLattice[c][1]}
  <2> DEFINE s == sentLattice[c]
  <2>1. s \in Seq(LatticeLine) /\ s # <<>>
    BY <1>1, ElementOfSeq DEF Lattice
  <2>2. c \notin Ambiguous => ~(Len(s) > 1)
    BY DEF Ambiguous
  <2> HIDE DEF s
  <2>3. /\ DOMAIN s = 1 .. Len(s)
        /\ Len(s) \in Nat \ {0}
        /\ \A i \in 1 .. Len(s) : s[i] \in LatticeLine
    BY <2>1, EmptySeq, LenProperties, ElementOfSeq
  <2>4. \A x : x \in Range(s) <=> \E i \in 1 .. Len(s) : s[i] = x
    BY <2>1, RangeIs
  <2>5. Range(s) \subseteq LatticeLine
    BY <2>3, <2>4
  <2>6. ASSUME ~(Len(s) > 1) PROVE Range(s) = {s[1]}
    <3>1. Len(s) = 1
      BY <2>3, <2>6
    <3>2. \A x : x \in Range(s) <=> s[1] = x
      BY <2>4, <3>1
    <3>3. QED
      BY <3>2
  <2>7. QED
    BY <2>1, <2>2, <2>3, <2>5, <2>6 DEF s
<1>3. QED
  BY <1>1, <1>2 DEF Ambiguous

LEMMA InsertedIs ==
    ASSUME Lattice, NEW c \in Ambiguous, NEW rest \in Seq(Filling)
    PROVE  /\ Inserted(rest, c) \in Seq(Filling)
           /\ Len(Inserted(rest, c)) = Len(sentLattice[c]) * Len(rest)
           /\ \A x : x \in Range(Inserted(rest, c)) <=>
                 \E y \in Range(rest), w \in Range(sentLattice[c]) : x = [y EXCEPT ![c] = w]
<1> DEFINE s == sentLattice[c]
           with(i) == [r \in DOMAIN rest |-> [rest[r] EXCEPT ![c] = s[i]]]
           parts == [i \in DOMAIN s |-> with(i)]
<1>1. /\ s \in Seq(LatticeLine) /\ DOMAIN s = 1 .. Len(s) /\ Len(s) \in Nat
      /\ \A i \in 1 .. Len(s) : s[i] \in LatticeLine
      /\ c \in Ambiguous
  BY LatticeWords
<1>2. Inserted(rest, c) = FlattenSeq(parts)
  BY DEF Inserted
<1> HIDE DEF s
<1>3. /\ DOMAIN rest = 1 .. Len(rest) /\ Len(rest) \in Nat
      /\ \A r \in 1 .. Len(rest) : rest[r] \in Filling
  BY LenProperties, ElementOfSeq
<1>4. ASSUME NEW i \in 1 .. Len(s), NEW r \in 1 .. Len(rest)
      PROVE  [rest[r] EXCEPT ![c] = s[i]] \in Filling
  <2>1. rest[r] \in Filling /\ s[i] \in LatticeLine
    BY <1>1, <1>3
  <2>2. QED
    BY <2>1 DEF Filling
<1>5. ASSUME NEW i \in 1 .. Len(s)
      PROVE  /\ with(i) \in Seq(Filling) /\ Len(with(i)) = Len(rest)
             /\ \A x : x \in Range(with(i)) <=> \E y \in Range(rest) : x = [y EXCEPT ![c] = s[i]]
  <2>1. with(i) \in [1 .. Len(rest) -> Filling]
    BY <1>3, <1>4
  <2>2. \A r \in 1 .. Len(rest) : with(i)[r] = [rest[r] EXCEPT ![c] = s[i]]
    BY <1>3
  <2> DEFINE p == with(i)
  <2>3. p \in [1 .. Len(rest) -> Filling] /\ \A r \in 1 .. Len(rest) : p[r] = [rest[r] EXCEPT ![c] = s[i]]
    BY <2>1, <2>2
  <2> HIDE DEF p
  <2>4. p \in Seq(Filling) /\ Len(p) = Len(rest)
    BY <1>3, <2>3, SeqDef, IsASeq
  <2>5. /\ \A x : x \in Range(p) <=> \E r \in 1 .. Len(p) : p[r] = x
        /\ \A x : x \in Range(rest) <=> \E r \in 1 .. Len(rest) : rest[r] = x
    BY <2>4, RangeIs
  <2>6. \A x : x \in Range(p) <=> \E y \in Range(rest) : x = [y EXCEPT ![c] = s[i]]
    BY <2>3, <2>4, <2>5
  <2>7. QED
    BY <2>4, <2>6 DEF p
<1>6. parts \in Seq(Seq(Filling)) /\ Len(parts) = Len(s) /\ \A i \in 1 .. Len(s) : parts[i] = with(i)
  <2>1. parts \in [1 .. Len(s) -> Seq(Filling)] /\ \A i \in 1 .. Len(s) : parts[i] = with(i)
    BY <1>1, <1>5
  <2> HIDE DEF parts
  <2>2. QED
    BY <1>1, <2>1, SeqDef, IsASeq
<1> HIDE DEF parts
<1>7. /\ \A p : p \in Range(parts) <=> \E i \in 1 .. Len(s) : with(i) = p
      /\ \A w : w \in Range(s) <=> \E i \in 1 .. Len(s) : s[i] = w
  <2> HIDE DEF with
  <2>1. \A p : p \in Range(parts) <=> \E i \in 1 .. Len(parts) : parts[i] = p
    BY <1>6, RangeIs
  <2>2. \A w : w \in Range(s) <=> \E i \in 1 .. Len(s) : s[i] = w
    BY <1>1, RangeIs
  <2>3. QED
    BY <1>6, <2>1, <2>2
<1>8. FlattenSeq(parts) \in Seq(Filling)
  BY <1>6, FlattenAppend
<1>9. Len(FlattenSeq(parts)) = Len(s) * Len(rest)
  <2>1. \A p \in Range(parts) : Len(p) = Len(rest)
    BY <1>5, <1>7
  <2>2. QED
    BY <1>3, <1>6, <2>1, FlattenLength
<1>10. \A x : x \in Range(FlattenSeq(parts)) <=> \E p \in Range(parts) : x \in Range(p)
  BY <1>6, FlattenMembers
<1>11. \A x : x \in Range(FlattenSeq(parts)) <=>
           \E y \in Range(rest), w \in Range(s) : x = [y EXCEPT ![c] = w]
  <2> HIDE DEF with
  <2>1. \A i \in 1 .. Len(s) : \A x : x \in Range(with(i)) <=> \E y \in Range(rest) : x = [y EXCEPT ![c] = s[i]]
    BY <1>5
  <2>2. \A x : x \in Range(FlattenSeq(parts)) <=> \E i \in 1 .. Len(s) : x \in Range(with(i))
    BY <1>7, <1>10, Zenon
  <2>3. \A w : w \in Range(s) <=> \E i \in 1 .. Len(s) : s[i] = w
    BY <1>7
  <2>4. ASSUME NEW x, NEW i \in 1 .. Len(s), x \in Range(with(i))
        PROVE  \E y \in Range(rest), w \in Range(s) : x = [y EXCEPT ![c] = w]
    <3>1. PICK y \in Range(rest) : x = [y EXCEPT ![c] = s[i]]
      BY <2>1, <2>4, Zenon
    <3>2. s[i] \in Range(s)
      BY <2>3
    <3>3. QED
      BY <3>1, <3>2, Zenon
  <2>5. ASSUME NEW x, NEW y \in Range(rest), NEW w \in Range(s), x = [y EXCEPT ![c] = w]
        PROVE  \E i \in 1 .. Len(s) : x \in Range(with(i))
    <3>1. PICK i \in 1 .. Len(s) : s[i] = w
      BY <2>3
    <3>2. x = [y EXCEPT ![c] = s[i]]
      BY <2>5, <3>1, Zenon
    <3>3. QED
      BY <2>1, <3>2, Zenon
  <2>6. QED
    BY <2>2, <2>4, <2>5, Zenon
<1>12. QED
  BY <1>2, <1>8, <1>9, <1>11 DEF s

LEMMA FillsExist ==
    ASSUME Lattice
    PROVE  \E f \in [0 .. Len(sentLattice) -> Seq(Filling)] : Fills(f)
<1> DEFINE n == Len(sentLattice)
           turn == [k \in 1 .. n |-> [q \in Seq(Filling) |->
                       IF n + 1 - k \notin Ambiguous THEN q ELSE Inserted(q, n + 1 - k)]]
<1>1. n \in Nat
  BY LatticeWords
<1>2. \A c \in Ambiguous, q \in Seq(Filling) : Inserted(q, c) \in Seq(Filling)
  BY InsertedIs
<1>3. turn \in [1 .. n -> [Seq(Filling) -> Seq(Filling)]]
  BY <1>2
<1>4. \A k \in 1 .. n, q \in Seq(Filling) :
          turn[k][q] = IF n + 1 - k \notin Ambiguous THEN q ELSE Inserted(q, n + 1 - k)
  OBVIOUS
<1>5. <<EmptyFilling>> \in Seq(Filling)
  <2>1. EmptyFilling \in Filling
    BY LineTypes DEF EmptyFilling, Filling
  <2>2. QED
    BY <2>1
<1> HIDE DEF turn
<1>6. PICK f \in [0 .. n -> Seq(Filling)] : Follows(f, <<EmptyFilling>>, n, turn)
  BY <1>1, <1>3, <1>5, RecursionExists
<1>7. ASSUME NEW k \in 1 .. n PROVE f[k - 1] \in Seq(Filling)
  <2>1. k - 1 \in 0 .. n
    BY <1>1
  <2>2. QED
    BY <1>6, <2>1
<1>8. Fills(f)
  BY <1>4, <1>6, <1>7 DEF Follows, Fills
<1>9. QED
  BY <1>6, <1>8

\* What it writes into the matrix.
Written(m, all) ==
    LET end  == sentOpts + Len(all)
        fill == (sentOpts .. end - 1) \X Ambiguous
    IN  [matrix |-> [rc \in DOMAIN m \cup fill |->
                        IF rc \in fill THEN all[rc[1] - sentOpts + 1][rc[2]] ELSE m[rc]],
         opts   |-> end]

LEMMA InsertTransOptsIs ==
    ASSUME Lattice, NEW f \in [0 .. Len(sentLattice) -> Seq(Filling)], Fills(f), NEW m
    PROVE  InsertTransOpts(m) = Written(m, f[Len(sentLattice)])
<1> DEFINE N == Len(sentLattice)
           Body(g) == [k \in 0 .. N |->
               IF k = 0 THEN <<EmptyFilling>>
               ELSE IF N + 1 - k \notin Ambiguous THEN g[k - 1]
                    ELSE Inserted(g[k - 1], N + 1 - k)]
           chosen == CHOOSE g : g = Body(g)
<1>1. N \in Nat
  BY LatticeWords
<1>2. f = Body(f)
  <2>1. ASSUME NEW k \in 0 .. N PROVE f[k] = Body(f)[k]
    <3>1. CASE k = 0
      BY <1>1, <3>1 DEF Fills
    <3>2. CASE k \in 1 .. N
      BY <1>1, <3>2 DEF Fills
    <3>3. QED
      BY <1>1, <3>1, <3>2
  <2> DEFINE h == Body(f)
  <2>2. h = [k \in 0 .. N |-> h[k]] /\ \A k \in 0 .. N : f[k] = h[k]
    BY <2>1
  <2> HIDE DEF h
  <2>3. f = h
    BY <2>2
  <2>4. QED
    BY <2>3 DEF h
<1>3. chosen = Body(chosen)
  BY <1>2
<1>4. \A k \in 0 .. N : chosen[k] = Body(chosen)[k]
  BY <1>3
<1>5. chosen[0] = <<EmptyFilling>>
  <2>1. 0 \in 0 .. N /\ chosen[0] = Body(chosen)[0]
    BY <1>1, <1>4
  <2> HIDE DEF chosen
  <2>2. QED
    BY <2>1
<1>6. ASSUME NEW k \in 1 .. N
      PROVE  chosen[k] = IF N + 1 - k \notin Ambiguous THEN chosen[k - 1] ELSE Inserted(chosen[k - 1], N + 1 - k)
  <2>1. k \in 0 .. N /\ k # 0
    BY <1>1
  <2>2. chosen[k] = Body(chosen)[k]
    BY <1>4, <2>1
  <2> HIDE DEF chosen
  <2>3. QED
    BY <2>1, <2>2
<1>7. InsertTransOpts(m) = Written(m, chosen[N])
  BY DEF InsertTransOpts, Inserted, EmptyFilling, Written
<1> HIDE DEF chosen
<1>8. f[0] = chosen[0] /\ \A k \in 1 .. N : f[k - 1] = chosen[k - 1] => f[k] = chosen[k]
  BY <1>5, <1>6 DEF Fills
<1>9. f[N] = chosen[N]
  BY <1>1, <1>8, RecursionAgrees
<1>10. QED
  BY <1>7, <1>9

\* The rows for the words after the c-th: how many there are, what is in them, and that
\* there is one for each way to choose.
FilledTo(q, c, P) ==
    /\ Len(q) * P[c] = P[Len(sentLattice)]
    /\ \A x \in Range(q) : \A d \in Ambiguous : d > c => x[d] \in Range(sentLattice[d])
    /\ \A h : (\A d \in Ambiguous : h[d] \in Range(sentLattice[d])) =>
           \E x \in Range(q) : \A d \in Ambiguous : d > c => x[d] = h[d]

LEMMA FilledStep ==
    ASSUME Lattice, NEW P \in [0 .. Len(sentLattice) -> Nat], Products(sentLattice, P),
           NEW c \in 1 .. Len(sentLattice), NEW q \in Seq(Filling), FilledTo(q, c, P)
    PROVE  FilledTo(IF c \notin Ambiguous THEN q ELSE Inserted(q, c), c - 1, P)
<1> DEFINE N == Len(sentLattice)
           s == sentLattice[c]
<1>1. N \in Nat /\ c \in 1 .. N /\ c - 1 \in 0 .. N /\ c \in 0 .. N
  BY LatticeWords
<1>2. P[c] = P[c - 1] * Len(s) /\ P[c - 1] \in Nat /\ P[c] \in Nat /\ Len(s) \in Nat \ {0} /\ Len(q) \in Nat
  BY <1>1, LatticeWords, LenProperties DEF Products
<1>3. \A d \in Ambiguous : d \in Nat
  BY <1>1, LatticeWords
<1>4. /\ Len(q) * P[c] = P[N]
      /\ \A x \in Range(q) : \A d \in Ambiguous : d > c => x[d] \in Range(sentLattice[d])
      /\ \A h : (\A d \in Ambiguous : h[d] \in Range(sentLattice[d])) =>
             \E x \in Range(q) : \A d \in Ambiguous : d > c => x[d] = h[d]
  BY DEF FilledTo
<1>5. CASE c \notin Ambiguous
  <2>1. Len(s) = 1
    <3> DEFINE a == Len(s)
    <3>1. ~(a > 1)
      BY <1>1, <1>5 DEF Ambiguous
    <3>2. a \in Nat \ {0}
      BY <1>2
    <3> HIDE DEF a
    <3>3. a = 1
      BY <3>1, <3>2
    <3>4. QED
      BY <3>3 DEF a
  <2>2. Len(q) * P[c - 1] = P[N]
    BY <1>2, <1>4, <2>1
  <2>3. \A d \in Ambiguous : d > c - 1 => d > c
    BY <1>1, <1>3, <1>5
  <2>4. \A x \in Range(q) : \A d \in Ambiguous : d > c - 1 => x[d] \in Range(sentLattice[d])
    BY <1>4, <2>3
  <2>5. ASSUME NEW h, \A d \in Ambiguous : h[d] \in Range(sentLattice[d])
        PROVE  \E x \in Range(q) : \A d \in Ambiguous : d > c - 1 => x[d] = h[d]
    <3>1. PICK x \in Range(q) : \A d \in Ambiguous : d > c => x[d] = h[d]
      BY <1>4, <2>5
    <3>2. QED
      BY <2>3, <3>1
  <2>6. FilledTo(q, c - 1, P)
    BY <2>2, <2>4, <2>5 DEF FilledTo
  <2>7. QED
    BY <1>5, <2>6
<1>6. CASE c \in Ambiguous
  <2> DEFINE z == Inserted(q, c)
  <2>1. /\ Len(z) = Len(s) * Len(q)
        /\ \A x : x \in Range(z) <=> \E y \in Range(q), w \in Range(s) : x = [y EXCEPT ![c] = w]
    BY <1>6, InsertedIs
  <2> HIDE DEF z
  <2>3. \A y \in Range(q) : y \in Filling
    <3>1. \A y \in Range(q) : \E i \in 1 .. Len(q) : q[i] = y
      BY RangeIs
    <3>2. QED
      BY <3>1, ElementOfSeq
  <2>4. Len(z) * P[c - 1] = P[N]
    <3> DEFINE a == Len(s)
               b == Len(q)
               e == P[c - 1]
    <3>1. a \in Nat /\ b \in Nat /\ e \in Nat /\ Len(z) = a * b /\ P[c] = e * a
      BY <1>2, <2>1
    <3> HIDE DEF a, b, e
    <3>2. (a * b) * e = b * (e * a)
      BY <3>1
    <3>3. Len(z) * e = b * P[c]
      BY <3>1, <3>2
    <3>4. b * P[c] = P[N]
      BY <1>4 DEF b
    <3>5. QED
      BY <3>3, <3>4 DEF e
  <2>5. \A d \in Ambiguous : d > c - 1 => d = c \/ d > c
    BY <1>1, <1>3
  <2>6. \A y \in Range(q) : \A w : /\ [y EXCEPT ![c] = w][c] = w
                                   /\ \A d \in Ambiguous : d # c => [y EXCEPT ![c] = w][d] = y[d]
    BY <1>6, <2>3 DEF Filling
  <2>7. \A d \in Ambiguous : d > c => d # c
    BY <1>1
  <2>8. ASSUME NEW x \in Range(z), NEW d \in Ambiguous, d > c - 1 PROVE x[d] \in Range(sentLattice[d])
    <3>1. PICK y \in Range(q), w \in Range(s) : x = [y EXCEPT ![c] = w]
      BY <2>1, Zenon
    <3> DEFINE v == [y EXCEPT ![c] = w]
    <3>2. v[c] = w /\ \A e \in Ambiguous : e # c => v[e] = y[e]
      BY <1>6, <2>3 DEF Filling
    <3>3. x[c] = w /\ \A e \in Ambiguous : e # c => x[e] = y[e]
      <4>1. x = v
        BY <3>1
      <4> HIDE DEF v
      <4>2. QED
        BY <3>2, <4>1
    <3>4. CASE d = c
      BY <3>3, <3>4
    <3>5. CASE d > c
      BY <1>4, <2>7, <3>3, <3>5
    <3>6. QED
      BY <2>5, <2>8, <3>4, <3>5
  <2>9. ASSUME NEW h, \A d \in Ambiguous : h[d] \in Range(sentLattice[d])
        PROVE  \E x \in Range(z) : \A d \in Ambiguous : d > c - 1 => x[d] = h[d]
    <3>1. PICK y \in Range(q) : \A d \in Ambiguous : d > c => y[d] = h[d]
      BY <1>4, <2>9
    <3>2. h[c] \in Range(s)
      BY <1>6, <2>9
    <3> DEFINE x == [y EXCEPT ![c] = h[c]]
    <3>3. x \in Range(z)
      BY <2>1, <3>2, Zenon
    <3>4. x[c] = h[c] /\ \A d \in Ambiguous : d # c => x[d] = y[d]
      BY <2>6, Zenon
    <3> HIDE DEF x
    <3>5. \A d \in Ambiguous : d > c - 1 => x[d] = h[d]
      BY <2>5, <2>7, <3>1, <3>4
    <3>6. QED
      BY <3>3, <3>5
  <2>10. FilledTo(z, c - 1, P)
    BY <2>4, <2>8, <2>9 DEF FilledTo
  <2>11. QED
    BY <1>6, <2>10 DEF z
<1>7. QED
  BY <1>5, <1>6

LEMMA FillsRight ==
    ASSUME Lattice, NEW P \in [0 .. Len(sentLattice) -> Nat], Products(sentLattice, P),
           NEW f \in [0 .. Len(sentLattice) -> Seq(Filling)], Fills(f)
    PROVE  FilledTo(f[Len(sentLattice)], 0, P)
<1> DEFINE N == Len(sentLattice)
           G == {k \in Nat : k <= N => FilledTo(f[k], N - k, P)}
<1>1. N \in Nat /\ \A d \in Ambiguous : d \in Nat /\ d <= N
  BY LatticeWords
<1>2. 0 \in G
  <2>1. f[0] = <<EmptyFilling>> /\ Len(<<EmptyFilling>>) = 1 /\ EmptyFilling \in Range(<<EmptyFilling>>)
    BY DEF Fills, Range
  <2>2. P[N] \in Nat
    BY <1>1
  <2>3. FilledTo(f[0], N, P)
    BY <1>1, <2>1, <2>2 DEF FilledTo
  <2>4. QED
    BY <1>1, <2>3
<1>3. ASSUME NEW k \in Nat, k \in G PROVE k + 1 \in G
  <2> SUFFICES ASSUME k + 1 <= N PROVE FilledTo(f[k + 1], N - (k + 1), P)
    OBVIOUS
  <2> DEFINE j == k + 1
             c == N + 1 - j
  <2>1. /\ j \in 1 .. N /\ j - 1 = k /\ c \in 1 .. N /\ N - k = c /\ N - j = c - 1
        /\ k \in 0 .. N /\ FilledTo(f[k], c, P)
    BY <1>1, <1>3
  <2>2. f[j] = IF c \notin Ambiguous THEN f[k] ELSE Inserted(f[k], c)
    BY <2>1 DEF Fills
  <2>3. f[k] \in Seq(Filling)
    BY <2>1
  <2> HIDE DEF c, j
  <2>4. FilledTo(IF c \notin Ambiguous THEN f[k] ELSE Inserted(f[k], c), c - 1, P)
    BY <2>1, <2>3, FilledStep
  <2>5. FilledTo(f[j], N - j, P)
    BY <2>1, <2>2, <2>4
  <2>6. QED
    BY <2>5 DEF j
<1>4. Nat \subseteq G
  BY <1>2, <1>3, SetInduction
<1>5. N - N = 0
  BY <1>1
<1>6. QED
  BY <1>1, <1>4, <1>5

\* The matrix of a sentence: one row for each way to choose.
AllPicks(M, n) ==
    /\ M \in [(0 .. n - 1) \X (1 .. Len(sentLattice)) -> LatticeLine]
    /\ \A r \in 0 .. n - 1, c \in 1 .. Len(sentLattice) : M[<<r, c>>] \in Range(sentLattice[c])
    /\ \A h : (\A c \in 1 .. Len(sentLattice) : h[c] \in Range(sentLattice[c])) =>
           \E r \in 0 .. n - 1 : \A c \in 1 .. Len(sentLattice) : M[<<r, c>>] = h[c]

LEMMA MatrixCertain ==
    ASSUME Lattice, sentLattice # <<>>, NEW n \in Nat \ {0}, Ambiguous = {}
    PROVE  AllPicks(Matrix(n).matrix, n)
<1> DEFINE N == Len(sentLattice)
           M == [rc \in (0 .. n - 1) \X (1 .. N) |-> sentLattice[rc[2]][1]]
<1>1. /\ N \in Nat \ {0}
      /\ \A c \in 1 .. N : Range(sentLattice[c]) = {sentLattice[c][1]} /\ Range(sentLattice[c]) \subseteq LatticeLine
  <2>1. N # 0
    BY EmptySeq DEF Lattice
  <2>2. QED
    BY <2>1, LatticeWords
<1>2. Matrix(n).matrix = M
  <2>1. (1 .. N) \ Ambiguous = 1 .. N /\ 1 .. N # {}
    BY <1>1
  <2>2. QED
    BY <2>1 DEF Matrix
<1>3. \A r \in 0 .. n - 1, c \in 1 .. N : M[<<r, c>>] = sentLattice[c][1]
  OBVIOUS
<1>4. M \in [(0 .. n - 1) \X (1 .. N) -> LatticeLine]
  BY <1>1
<1> HIDE DEF M
<1>5. 0 \in 0 .. n - 1
  OBVIOUS
<1>6. QED
  BY <1>1, <1>2, <1>3, <1>4, <1>5 DEF AllPicks

LEMMA MatrixAmbiguous ==
    ASSUME Lattice, sentOpts = 0, Ambiguous # {},
           NEW P \in [0 .. Len(sentLattice) -> Nat], Products(sentLattice, P)
    PROVE  AllPicks(Matrix(P[Len(sentLattice)]).matrix, P[Len(sentLattice)])
<1> DEFINE N == Len(sentLattice)
           n == P[N]
           certain == (1 .. N) \ Ambiguous
           fixed == [rc \in (0 .. n - 1) \X certain |-> sentLattice[rc[2]][1]]
           dummies == [rc \in (0 .. n - 1) \X {1} |-> [NoWord EXCEPT !.text = "dummy"]]
           start == IF certain = {} /\ sentLattice # <<>> THEN dummies ELSE fixed
<1>1. /\ N \in Nat /\ n \in Nat /\ Ambiguous \subseteq 1 .. N
      /\ \A c \in 1 .. N : c \notin Ambiguous => Range(sentLattice[c]) = {sentLattice[c][1]}
      /\ \A c \in 1 .. N : Range(sentLattice[c]) \subseteq LatticeLine
  <2>1. N \in Nat /\ N \in 0 .. N
    BY LatticeWords
  <2>2. n \in Nat
    BY <2>1
  <2>3. QED
    BY <2>1, <2>2, LatticeWords
<1>2. PICK f \in [0 .. N -> Seq(Filling)] : Fills(f)
  BY FillsExist
<1> DEFINE all == f[N]
           fill == (0 .. n - 1) \X Ambiguous
<1>3. Matrix(n).matrix = Written(start, all).matrix
  <2>1. InsertTransOpts(start) = Written(start, all)
    <3> HIDE DEF start
    <3>1. QED
      BY <1>2, InsertTransOptsIs
  <2>2. Matrix(n).matrix = InsertTransOpts(start).matrix
    BY DEF Matrix
  <2> HIDE DEF start
  <2>3. QED
    BY <2>1, <2>2
<1>4. all \in Seq(Filling) /\ FilledTo(all, 0, P)
  BY <1>1, <1>2, FillsRight
<1>5. P[0] = 1
  BY DEF Products
<1> HIDE DEF n, all
<1>6. /\ Len(all) = n
      /\ \A x \in Range(all) : \A d \in Ambiguous : x[d] \in Range(sentLattice[d])
      /\ \A h : (\A d \in Ambiguous : h[d] \in Range(sentLattice[d])) =>
             \E x \in Range(all) : \A d \in Ambiguous : x[d] = h[d]
  <2>1. \A d \in Ambiguous : d > 0
    BY <1>1
  <2>2. Len(all) \in Nat
    BY <1>4, LenProperties
  <2>3. Len(all) * 1 = n
    BY <1>4, <1>5 DEF FilledTo, n
  <2>4. QED
    BY <1>4, <2>1, <2>2, <2>3 DEF FilledTo
<1>7. DOMAIN start = (0 .. n - 1) \X (IF certain = {} /\ sentLattice # <<>> THEN {1} ELSE certain)
  OBVIOUS
<1>8. \A r \in 0 .. n - 1, c \in certain : start[<<r, c>>] = sentLattice[c][1]
  OBVIOUS
<1> HIDE DEF start
<1> DEFINE M == [rc \in DOMAIN start \cup fill |-> IF rc \in fill THEN all[rc[1] + 1][rc[2]] ELSE start[rc]]
<1>9. Matrix(n).matrix = M
  <2>1. sentOpts + Len(all) = n
    BY <1>1, <1>6 DEF n
  <2>2. \A r \in 0 .. n - 1 : r - sentOpts + 1 = r + 1
    OBVIOUS
  <2>3. QED
    BY <1>3, <2>1, <2>2 DEF Written
<1>10. DOMAIN start \cup fill = (0 .. n - 1) \X (1 .. N)
  <2>1. sentLattice # <<>>
    <3>1. N # 0
      BY <1>1
    <3>2. QED
      BY <3>1, EmptySeq
  <2>2. CASE certain = {}
    <3>1. Ambiguous = 1 .. N /\ 1 \in Ambiguous
      BY <1>1, <2>2
    <3>2. DOMAIN start = (0 .. n - 1) \X {1}
      BY <1>7, <2>1, <2>2
    <3>3. QED
      BY <3>1, <3>2
  <2>3. CASE certain # {}
    <3>1. DOMAIN start = (0 .. n - 1) \X certain
      BY <1>7, <2>3
    <3>2. certain \cup Ambiguous = 1 .. N
      BY <1>1
    <3>3. QED
      BY <3>1, <3>2
  <2>4. QED
    BY <2>2, <2>3
<1>11. M = [rc \in (0 .. n - 1) \X (1 .. N) |-> M[rc]]
  BY <1>10
<1>12. ASSUME NEW r \in 0 .. n - 1, NEW c \in 1 .. N
       PROVE  M[<<r, c>>] = IF c \in Ambiguous THEN all[r + 1][c] ELSE sentLattice[c][1]
  <2>1. <<r, c>> \in (0 .. n - 1) \X (1 .. N) /\ (<<r, c>> \in fill <=> c \in Ambiguous)
    OBVIOUS
  <2>2. M[<<r, c>>] = IF <<r, c>> \in fill THEN all[r + 1][c] ELSE start[<<r, c>>]
    BY <1>10, <2>1
  <2>3. QED
    BY <1>8, <2>1, <2>2
<1> HIDE DEF M
<1>13. \A x : x \in Range(all) <=> \E r \in 0 .. n - 1 : all[r + 1] = x
  <2>1. \A x : x \in Range(all) <=> \E i \in 1 .. n : all[i] = x
    BY <1>4, <1>6, RangeIs
  <2>2. \A i \in 1 .. n : i - 1 \in 0 .. n - 1 /\ (i - 1) + 1 = i
    BY <1>1 DEF n
  <2>3. \A r \in 0 .. n - 1 : r + 1 \in 1 .. n
    BY <1>1 DEF n
  <2>4. QED
    BY <2>1, <2>2, <2>3
<1>14. ASSUME NEW r \in 0 .. n - 1, NEW c \in 1 .. N PROVE M[<<r, c>>] \in Range(sentLattice[c])
  <2>1. CASE c \in Ambiguous
    <3>1. all[r + 1] \in Range(all)
      BY <1>13
    <3>2. all[r + 1][c] \in Range(sentLattice[c])
      BY <1>6, <2>1, <3>1
    <3>3. QED
      BY <1>12, <2>1, <3>2
  <2>2. CASE c \notin Ambiguous
    BY <1>1, <1>12, <2>2
  <2>3. QED
    BY <2>1, <2>2
<1>15. ASSUME NEW h, \A c \in 1 .. N : h[c] \in Range(sentLattice[c])
       PROVE  \E r \in 0 .. n - 1 : \A c \in 1 .. N : M[<<r, c>>] = h[c]
  <2>1. PICK x \in Range(all) : \A d \in Ambiguous : x[d] = h[d]
    BY <1>1, <1>6, <1>15
  <2>2. PICK r \in 0 .. n - 1 : all[r + 1] = x
    BY <1>13
  <2>3. \A c \in 1 .. N : c \notin Ambiguous => h[c] = sentLattice[c][1]
    BY <1>1, <1>15
  <2>4. \A c \in 1 .. N : M[<<r, c>>] = h[c]
    BY <1>12, <2>1, <2>2, <2>3
  <2>5. QED
    BY <2>4
<1>16. M \in [(0 .. n - 1) \X (1 .. N) -> LatticeLine]
  <2>1. \A rc \in (0 .. n - 1) \X (1 .. N) : M[rc] \in LatticeLine
    BY <1>1, <1>14
  <2>2. QED
    BY <1>11, <2>1
<1>17. AllPicks(M, n)
  BY <1>14, <1>15, <1>16 DEF AllPicks
<1>18. QED
  BY <1>9, <1>17 DEF n

LEMMA MatrixIs ==
    ASSUME Lattice, sentLattice # <<>>, sentOpts = 0,
           NEW P \in [0 .. Len(sentLattice) -> Nat], Products(sentLattice, P)
    PROVE  /\ P[Len(sentLattice)] \in Nat \ {0}
           /\ AllPicks(Matrix(P[Len(sentLattice)]).matrix, P[Len(sentLattice)])
<1>1. Len(sentLattice) \in 0 .. Len(sentLattice)
  BY LatticeWords
<1>2. \A k \in 0 .. Len(sentLattice) : P[k] \in Nat \ {0}
  BY ProductsPositive DEF Lattice
<1>3. P[Len(sentLattice)] \in Nat \ {0}
  BY <1>1, <1>2
<1>4. QED
  BY <1>3, MatrixCertain, MatrixAmbiguous

\* Its rows.
LEMMA RowsOf ==
    ASSUME NEW N \in Nat \ {0}, NEW n \in Nat, NEW M, DOMAIN M = (0 .. n - 1) \X (1 .. N)
    PROVE  /\ Rows(M) = 0 .. n - 1
           /\ \A r \in 0 .. n - 1 : Row(M, r) = [c \in 1 .. N |-> M[<<r, c>>]]
<1>1. Rows(M) = 0 .. n - 1
  <2>1. 1 \in 1 .. N
    OBVIOUS
  <2>2. \A rc \in (0 .. n - 1) \X (1 .. N) : rc[1] \in 0 .. n - 1
    OBVIOUS
  <2>3. \A r \in 0 .. n - 1 : <<r, 1>> \in (0 .. n - 1) \X (1 .. N) /\ <<r, 1>>[1] = r
    BY <2>1
  <2>4. QED
    BY <2>2, <2>3 DEF Rows
<1>2. ASSUME NEW r \in 0 .. n - 1 PROVE Row(M, r) = [c \in 1 .. N |-> M[<<r, c>>]]
  <2> DEFINE cells == {rc \in DOMAIN M : rc[1] = r}
             pair == [c \in 1 .. N |-> <<r, c>>]
  <2>1. pair \in Bijection(1 .. N, cells)
    <3>1. pair \in [1 .. N -> cells]
      OBVIOUS
    <3>2. \A a, b \in 1 .. N : pair[a] = pair[b] => a = b
      OBVIOUS
    <3>3. \A rc \in cells : rc[2] \in 1 .. N /\ pair[rc[2]] = rc
      OBVIOUS
    <3>4. \A rc \in cells : \E c \in 1 .. N : pair[c] = rc
      BY <3>3
    <3> HIDE DEF cells, pair
    <3>5. QED
      BY <3>1, <3>2, <3>4 DEF Bijection, Injection, Surjection, IsInjective
  <2>2. IsFiniteSet(1 .. N) /\ Cardinality(1 .. N) = N
    BY FS_Interval
  <2>3. Cardinality(cells) = N
    <3> HIDE DEF cells, pair
    <3>1. ExistsBijection(1 .. N, cells)
      BY <2>1 DEF ExistsBijection
    <3>2. QED
      BY <2>2, <3>1, FS_Bijection
  <2>4. \A c \in 1 .. N : <<r, c>> \in DOMAIN M
    OBVIOUS
  <2>5. Row(M, r) = [c \in 1 .. Cardinality(cells) |-> IF <<r, c>> \in DOMAIN M THEN M[<<r, c>>] ELSE NoWord]
    BY DEF Row
  <2> HIDE DEF cells
  <2>6. QED
    BY <2>3, <2>4, <2>5
<1>3. QED
  BY <1>1, <1>2

\* The sentences that are printed.
LEMMA RankingsAre ==
    ASSUME NEW n \in Nat, NEW M, Rows(M) = 0 .. n - 1, CUTOFF \in Nat, NEW order \in Rankings(M)
    PROVE  /\ Len(order) \in Nat
           /\ Len(order) = Min({CUTOFF, n})
           /\ DOMAIN order = 1 .. Len(order)
           /\ \A k \in 1 .. Len(order) : order[k] \in 0 .. n - 1
<1> DEFINE l == Min({CUTOFF, n})
<1>1. l \in Nat
  <2>1. \E x \in {CUTOFF, n} : \A y \in {CUTOFF, n} : x <= y
    OBVIOUS
  <2>2. l \in {CUTOFF, n}
    BY <2>1 DEF Min
  <2>3. QED
    BY <2>2
<1>2. Cardinality(Rows(M)) = n
  <2>1. 0 \in Int /\ n - 1 \in Int
    OBVIOUS
  <2>2. Cardinality(0 .. n - 1) = IF 0 > n - 1 THEN 0 ELSE (n - 1) - 0 + 1
    BY <2>1, FS_Interval
  <2>3. QED
    BY <2>2
<1>3. order \in [1 .. l -> 0 .. n - 1]
  BY <1>2 DEF Rankings
<1> HIDE DEF l
<1>4. order \in Seq(0 .. n - 1) /\ Len(order) = l
  BY <1>1, <1>3, SeqDef, IsASeq
<1>5. QED
  BY <1>1, <1>3, <1>4 DEF l

\* Without a sentence there is nothing to print.
LEMMA EmptyMatrix ==
    ASSUME sentLattice = <<>>
    PROVE  Rows(Matrix(0).matrix) = 0 .. 0 - 1
<1>1. Ambiguous = {} /\ 1 .. Len(sentLattice) = {}
  BY EmptySeq DEF Ambiguous
<1>2. DOMAIN Matrix(0).matrix = {}
  BY <1>1 DEF Matrix
<1>3. QED
  BY <1>2 DEF Rows

-------------------------------------------------------------------------------
(***************************************************************************)
(* Reading: the lattice follows the lines.                                 *)
(***************************************************************************)
Begins(ls) == {i \in DOMAIN ls : i = 1 \/ ~IsAlternative(ls[i])}
Starts(ls) == Only(Places(ls), Begins(ls))
SlotEnd(ls, k) == IF k = Len(Starts(ls)) THEN Len(ls) ELSE Starts(ls)[k + 1] - 1
SlotsOf(ls) == [k \in DOMAIN Starts(ls) |-> SubSeq(ls, Starts(ls)[k], SlotEnd(ls, k))]

LEMMA StartsType ==
    ASSUME NEW T, NEW ls \in Seq(T)
    PROVE  /\ Starts(ls) \in Seq(1 .. Len(ls))
           /\ Len(Starts(ls)) \in Nat
           /\ DOMAIN Starts(ls) = 1 .. Len(Starts(ls))
           /\ \A k \in 1 .. Len(Starts(ls)) :
                 Starts(ls)[k] \in 1 .. Len(ls) /\ SlotEnd(ls, k) \in 0 .. Len(ls)
<1>1. Len(ls) \in Nat /\ DOMAIN ls = 1 .. Len(ls)
  BY LenProperties
<1>2. Places(ls) \in Seq(1 .. Len(ls))
  BY <1>1, SeqDef DEF Places
<1>3. Starts(ls) \in Seq(1 .. Len(ls))
  BY <1>2, OnlyType DEF Starts
<1> DEFINE s == Starts(ls)
<1>4. Len(s) \in Nat /\ DOMAIN s = 1 .. Len(s) /\ \A k \in 1 .. Len(s) : s[k] \in 1 .. Len(ls)
  <2> HIDE DEF s
  <2> QED BY <1>3, LenProperties, ElementOfSeq DEF s
<1> HIDE DEF s
<1>5. ASSUME NEW k \in 1 .. Len(s)
      PROVE  (IF k = Len(s) THEN Len(ls) ELSE s[k + 1] - 1) \in 0 .. Len(ls)
  <2>1. CASE k = Len(s)
    BY <1>1, <2>1
  <2>2. CASE k # Len(s)
    <3>1. k + 1 \in 1 .. Len(s)
      <4> DEFINE m == Len(s)
      <4>1. m \in Nat /\ k \in 1 .. m /\ k # m
        BY <1>4, <2>2
      <4> HIDE DEF m
      <4>2. k + 1 \in 1 .. m
        BY <4>1
      <4>3. QED
        BY <4>2 DEF m
    <3>2. s[k + 1] \in 1 .. Len(ls)
      BY <1>4, <3>1
    <3>3. QED
      BY <1>1, <2>2, <3>2
  <2>3. QED
    BY <2>1, <2>2
<1>6. QED
  BY <1>3, <1>4, <1>5 DEF s, SlotEnd

LEMMA SlotsType ==
    ASSUME NEW T, NEW ls \in Seq(T)
    PROVE  /\ SlotsOf(ls) \in Seq(Seq(T))
           /\ Len(SlotsOf(ls)) = Len(Starts(ls))
           /\ \A k \in 1 .. Len(Starts(ls)) : SlotsOf(ls)[k] = SubSeq(ls, Starts(ls)[k], SlotEnd(ls, k))
<1> DEFINE n == Len(Starts(ls))
           L == SlotsOf(ls)
<1>1. /\ n \in Nat /\ DOMAIN Starts(ls) = 1 .. n
      /\ \A k \in 1 .. n : Starts(ls)[k] \in 1 .. Len(ls) /\ SlotEnd(ls, k) \in 0 .. Len(ls)
  BY StartsType
<1>2. Len(ls) \in Nat /\ \A i \in 1 .. Len(ls) : ls[i] \in T
  BY LenProperties, ElementOfSeq
<1>3. ASSUME NEW k \in 1 .. n PROVE SubSeq(ls, Starts(ls)[k], SlotEnd(ls, k)) \in Seq(T)
  <2> DEFINE a == Starts(ls)[k]
             e == SlotEnd(ls, k)
  <2>1. a \in Int /\ e \in Int /\ \A i \in a .. e : i \in 1 .. Len(ls)
    BY <1>1, <1>2
  <2> HIDE DEF a, e
  <2>2. SubSeq(ls, a, e) \in Seq(T)
    BY <1>2, <2>1, SubSeqProperties
  <2>3. QED
    BY <2>2 DEF a, e
<1>4. L \in [1 .. n -> Seq(T)] /\ \A k \in 1 .. n : L[k] = SubSeq(ls, Starts(ls)[k], SlotEnd(ls, k))
  BY <1>1, <1>3 DEF SlotsOf
<1> HIDE DEF L, n
<1>5. L \in Seq(Seq(T)) /\ Len(L) = n
  BY <1>1, <1>4, SeqDef
<1>6. QED
  BY <1>4, <1>5 DEF L, n

LEMMA PlacesOfAppend ==
    ASSUME NEW T, NEW ls \in Seq(T), NEW w \in T
    PROVE  /\ Places(ls) \in Seq(1 .. Len(ls))
           /\ Places(Append(ls, w)) = Append(Places(ls), Len(ls) + 1)
<1> DEFINE t == Append(ls, w)
           n == Len(ls)
           p == Places(ls)
           q == Append(p, n + 1)
<1>1. n \in Nat /\ DOMAIN ls = 1 .. n /\ DOMAIN t = 1 .. n + 1
  <2>1. t \in Seq(T) /\ Len(t) = n + 1
    BY AppendProperties
  <2> HIDE DEF t
  <2>2. QED
    BY <2>1, LenProperties
<1>2. p \in Seq(1 .. n) /\ Len(p) = n /\ \A i \in 1 .. n : p[i] = i
  BY <1>1, SeqDef DEF Places
<1>3. p \in Seq(Nat)
  BY <1>1, <1>2, SeqDef DEF Places
<1> HIDE DEF p
<1>4. /\ q \in Seq(Nat) /\ Len(q) = n + 1 /\ q[n + 1] = n + 1
      /\ \A i \in 1 .. n : q[i] = i
  BY <1>1, <1>2, <1>3, AppendProperties, SMTT(30)
<1> HIDE DEF q
<1>5. Places(t) \in Seq(Nat) /\ Len(Places(t)) = n + 1 /\ \A i \in 1 .. n + 1 : Places(t)[i] = i
  BY <1>1, SeqDef DEF Places
<1>6. \A i \in 1 .. n + 1 : q[i] = i
  BY <1>1, <1>4
<1>7. Places(t) = q
  BY <1>4, <1>5, <1>6, SeqEqual
<1>8. QED
  BY <1>2, <1>7 DEF p, q

LEMMA StartsAppend ==
    ASSUME NEW T, NEW ls \in Seq(T), ls # <<>>, NEW w \in T
    PROVE  /\ IsAlternative(w) => Starts(Append(ls, w)) = Starts(ls)
           /\ ~IsAlternative(w) => Starts(Append(ls, w)) = Append(Starts(ls), Len(ls) + 1)
<1> DEFINE t == Append(ls, w)
           n == Len(ls)
           p == Places(ls)
           B == Begins(t)
<1>1. /\ n \in Nat \ {0} /\ DOMAIN ls = 1 .. n
      /\ DOMAIN t = 1 .. n + 1 /\ t[n + 1] = w /\ \A i \in 1 .. n : t[i] = ls[i]
  <2>1. t \in Seq(T) /\ Len(t) = n + 1 /\ t[n + 1] = w /\ \A i \in 1 .. n : t[i] = ls[i]
    BY AppendProperties
  <2> HIDE DEF t
  <2>2. QED
    BY <2>1, LenProperties, EmptySeq
<1>2. p \in Seq(1 .. n) /\ Places(t) = Append(p, n + 1)
  BY PlacesOfAppend
<1> HIDE DEF t, p
<1>3. (1 .. n) \cap B = (1 .. n) \cap Begins(ls)
  BY <1>1 DEF Begins
<1>4. n + 1 \in B <=> ~IsAlternative(w)
  BY <1>1 DEF Begins
<1> HIDE DEF B
<1>5. Only(p, B) = Only(p, Begins(ls))
  BY <1>2, <1>3, OnlyAgree, SMTT(30)
<1>6. p \in Seq(1 .. n + 1) /\ n + 1 \in 1 .. n + 1
  <2>1. (1 .. n) \subseteq 1 .. n + 1
    BY <1>1
  <2>2. \A i \in 1 .. Len(p) : p[i] \in 1 .. n
    BY <1>2, ElementOfSeq
  <2>3. Len(p) \in Nat /\ p \in [1 .. Len(p) -> 1 .. n + 1]
    BY <1>2, <2>1, LenProperties
  <2>4. QED
    BY <1>1, <2>3, SeqDef
<1>7. /\ n + 1 \in B => Only(Append(p, n + 1), B) = Append(Only(p, B), n + 1)
      /\ n + 1 \notin B => Only(Append(p, n + 1), B) = Only(p, B)
  <2> DEFINE j == n + 1
             T1 == 1 .. j
  <2>1. p \in Seq(T1) /\ j \in T1
    BY <1>6
  <2> HIDE DEF j, T1
  <2>2. Only(Append(p, j), B) = IF j \in B THEN Append(Only(p, B), j) ELSE Only(p, B)
    <3>1. \A s \in Seq(T1) : \A x \in T1 :
              Only(Append(s, x), B) = IF x \in B THEN Append(Only(s, B), x) ELSE Only(s, B)
      BY OnlyOneMore, Zenon
    <3>2. QED
      BY <2>1, <3>1, Zenon
  <2>3. /\ j \in B => Only(Append(p, j), B) = Append(Only(p, B), j)
        /\ j \notin B => Only(Append(p, j), B) = Only(p, B)
    BY <2>2, Zenon
  <2>4. QED
    BY <2>3 DEF j
<1>8. Starts(ls) = Only(p, B) /\ Starts(t) = Only(Append(p, n + 1), B)
  BY <1>2, <1>5 DEF Starts, p, B
<1>9. QED
  BY <1>4, <1>7, <1>8 DEF t

LEMMA SubSeqBefore ==
    ASSUME NEW T, NEW ls \in Seq(T), NEW w \in T, NEW a \in 1 .. Len(ls)
    PROVE  /\ \A e \in 0 .. Len(ls) : SubSeq(Append(ls, w), a, e) = SubSeq(ls, a, e)
           /\ SubSeq(Append(ls, w), a, Len(ls) + 1) = Append(SubSeq(ls, a, Len(ls)), w)
           /\ SubSeq(Append(ls, w), Len(ls) + 1, Len(ls) + 1) = <<w>>
<1> DEFINE t == Append(ls, w)
           n == Len(ls)
<1>1. /\ t \in Seq(T) /\ Len(t) = n + 1 /\ t[n + 1] = w /\ n \in Nat
      /\ \A i \in 1 .. n : t[i] = ls[i] /\ ls[i] \in T
      /\ \A i \in 1 .. n + 1 : t[i] \in T
  <2>1. t \in Seq(T) /\ Len(t) = n + 1 /\ t[n + 1] = w /\ n \in Nat /\ \A i \in 1 .. n : t[i] = ls[i]
    BY AppendProperties, LenProperties
  <2> HIDE DEF t
  <2>2. QED
    BY <2>1, ElementOfSeq
<1> HIDE DEF t
<1>2. ASSUME NEW e \in 0 .. n PROVE SubSeq(t, a, e) = SubSeq(ls, a, e)
  <2> DEFINE u == SubSeq(t, a, e)
             v == SubSeq(ls, a, e)
  <2>1. a \in Int /\ e \in Int /\ \A i \in a .. e : i \in 1 .. n
    BY <1>1
  <2>2. /\ u \in Seq(T) /\ Len(u) = (IF a <= e THEN e - a + 1 ELSE 0)
        /\ \A i \in 1 .. e - a + 1 : u[i] = t[a + i - 1]
    <3>1. \A i \in a .. e : t[i] \in T
      BY <1>1, <2>1
    <3>2. QED
      BY <2>1, <3>1, SubSeqProperties
  <2>3. /\ v \in Seq(T) /\ Len(v) = (IF a <= e THEN e - a + 1 ELSE 0)
        /\ \A i \in 1 .. e - a + 1 : v[i] = ls[a + i - 1]
    <3>1. \A i \in a .. e : ls[i] \in T
      BY <1>1, <2>1
    <3>2. QED
      BY <2>1, <3>1, SubSeqProperties
  <2> HIDE DEF u, v
  <2>4. ASSUME NEW i \in 1 .. Len(u) PROVE u[i] = v[i]
    <3>1. i \in 1 .. e - a + 1 /\ a + i - 1 \in a .. e
      BY <2>1, <2>2
    <3>2. t[a + i - 1] = ls[a + i - 1]
      BY <1>1, <2>1, <3>1
    <3>3. QED
      BY <2>2, <2>3, <3>1, <3>2
  <2>5. u = v
    BY <2>2, <2>3, <2>4, SeqEqual
  <2>6. QED
    BY <2>5 DEF u, v
<1>3. SubSeq(t, a, n + 1) = Append(SubSeq(ls, a, n), w)
  <2>1. a \in 1 .. Len(t) /\ n + 1 \in a .. Len(t) /\ (n + 1) - 1 = n /\ n \in 0 .. n
    BY <1>1
  <2>2. SubSeq(t, a, n + 1) = Cat(SubSeq(t, a, n), <<w>>)
    <3>1. SubSeq(t, a, n + 1) = SubSeq(t, a, (n + 1) - 1) \o <<t[n + 1]>>
      BY <1>1, <2>1, SubSeqRecursiveSecond
    <3>2. QED
      BY <1>1, <2>1, <3>1 DEF Cat
  <2>3. SubSeq(ls, a, n) \in Seq(T)
    <3>1. \A i \in a .. n : ls[i] \in T
      BY <1>1
    <3>2. QED
      BY <1>1, <3>1, SubSeqProperties
  <2>4. SubSeq(t, a, n) = SubSeq(ls, a, n)
    BY <1>2, <2>1
  <2>5. Append(SubSeq(ls, a, n), w) = Cat(SubSeq(ls, a, n), <<w>>)
    BY <2>3, CatAppend
  <2>6. QED
    BY <2>2, <2>4, <2>5
<1>4. SubSeq(t, n + 1, n + 1) = <<w>>
  <2> DEFINE u == SubSeq(t, n + 1, n + 1)
  <2>1. /\ u \in Seq(T) /\ Len(u) = 1 /\ u[1] = w
    <3>1. n + 1 \in Int /\ \A i \in n + 1 .. n + 1 : t[i] \in T
      BY <1>1
    <3>2. /\ u \in Seq(T)
          /\ Len(u) = IF n + 1 <= n + 1 THEN (n + 1) - (n + 1) + 1 ELSE 0
          /\ \A i \in 1 .. (n + 1) - (n + 1) + 1 : u[i] = t[(n + 1) + i - 1]
      BY <3>1, SubSeqProperties
    <3> HIDE DEF u
    <3>3. Len(u) = 1 /\ 1 \in 1 .. (n + 1) - (n + 1) + 1 /\ (n + 1) + 1 - 1 = n + 1
      BY <1>1, <3>2
    <3>4. QED
      BY <1>1, <3>2, <3>3
  <2> HIDE DEF u
  <2>2. <<w>> \in Seq(T) /\ Len(<<w>>) = 1 /\ <<w>>[1] = w
    OBVIOUS
  <2>3. u = <<w>>
    BY <2>1, <2>2, SeqEqual
  <2>4. QED
    BY <2>3 DEF u
<1>5. QED
  BY <1>2, <1>3, <1>4 DEF t

\* An alternative goes to the last word, another line is the next word.
LEMMA SlotsAlternative ==
    ASSUME NEW T, NEW ls \in Seq(T), ls # <<>>, NEW w \in T, SlotsOf(ls) # <<>>, IsAlternative(w)
    PROVE  SlotsOf(Append(ls, w)) = [SlotsOf(ls) EXCEPT ![Len(SlotsOf(ls))] = Append(@, w)]
<1> DEFINE t == Append(ls, w)
           L == SlotsOf(ls)
           K == SlotsOf(t)
           n == Len(Starts(ls))
           N == Len(ls)
<1>1. t \in Seq(T) /\ Len(t) = N + 1 /\ N \in Nat
  BY AppendProperties, LenProperties
<1>2. Starts(t) = Starts(ls)
  BY StartsAppend
<1>3. /\ n \in Nat /\ \A k \in 1 .. n : Starts(ls)[k] \in 1 .. N /\ SlotEnd(ls, k) \in 0 .. N
  BY StartsType
<1>4. /\ L \in Seq(Seq(T)) /\ Len(L) = n
      /\ \A k \in 1 .. n : L[k] = SubSeq(ls, Starts(ls)[k], SlotEnd(ls, k))
  BY SlotsType
<1> HIDE DEF t, L
<1>5. /\ K \in Seq(Seq(T)) /\ Len(K) = n
      /\ \A k \in 1 .. n : K[k] = SubSeq(t, Starts(ls)[k], SlotEnd(t, k))
  BY <1>1, <1>2, SlotsType
<1>6. \A k \in 1 .. n : SlotEnd(t, k) = IF k = n THEN N + 1 ELSE SlotEnd(ls, k)
  BY <1>1, <1>2 DEF SlotEnd
<1>7. SlotEnd(ls, n) = N
  BY DEF SlotEnd
<1> HIDE DEF K
<1>8. n \in Nat /\ n # 0
  BY <1>3, <1>4, EmptySeq DEF L
<1> HIDE DEF n, N
<1>9. n \in 1 .. n
  BY <1>8
<1>10. \A k \in 1 .. n : Starts(ls)[k] \in 1 .. Len(ls) /\ SlotEnd(ls, k) \in 0 .. Len(ls)
  BY <1>3 DEF N
<1>11. ASSUME NEW k \in 1 .. n, k # n PROVE K[k] = L[k]
  <2>1. SubSeq(t, Starts(ls)[k], SlotEnd(ls, k)) = SubSeq(ls, Starts(ls)[k], SlotEnd(ls, k))
    BY <1>10, SubSeqBefore DEF t
  <2>2. QED
    BY <1>4, <1>5, <1>6, <1>11, <2>1
<1>12. K[n] = Append(L[n], w)
  <2>1. SubSeq(t, Starts(ls)[n], N + 1) = Append(SubSeq(ls, Starts(ls)[n], N), w)
    BY <1>9, <1>10, SubSeqBefore DEF t, N
  <2>2. QED
    BY <1>4, <1>5, <1>6, <1>7, <1>9, <2>1
<1> DEFINE M == [L EXCEPT ![n] = Append(L[n], w)]
<1>13. M \in Seq(Seq(T)) /\ Len(M) = n /\ \A k \in 1 .. n : M[k] = IF k = n THEN Append(L[n], w) ELSE L[k]
  <2>1. L[n] \in Seq(T)
    BY <1>4, <1>9, ElementOfSeq
  <2>2. Append(L[n], w) \in Seq(T)
    BY <2>1, AppendProperties
  <2>3. QED
    BY <1>4, <1>9, <2>2, ExceptSeq
<1> HIDE DEF M
<1>14. \A k \in 1 .. n : K[k] = M[k]
  BY <1>11, <1>12, <1>13
<1>15. K = M
  BY <1>5, <1>13, <1>14, SeqEqual
<1>16. M = [L EXCEPT ![Len(L)] = Append(@, w)]
  BY <1>4 DEF M
<1>17. QED
  BY <1>15, <1>16 DEF t, L, K

LEMMA SlotsNext ==
    ASSUME NEW T, NEW ls \in Seq(T), ls # <<>>, NEW w \in T, SlotsOf(ls) # <<>>, ~IsAlternative(w)
    PROVE  SlotsOf(Append(ls, w)) = Append(SlotsOf(ls), <<w>>)
<1> DEFINE t == Append(ls, w)
           L == SlotsOf(ls)
           K == SlotsOf(t)
           n == Len(Starts(ls))
           N == Len(ls)
           M == Append(L, <<w>>)
<1>1. t \in Seq(T) /\ Len(t) = N + 1 /\ N \in Nat
  BY AppendProperties, LenProperties
<1>2. /\ n \in Nat /\ Starts(ls) \in Seq(1 .. N)
      /\ \A k \in 1 .. n : Starts(ls)[k] \in 1 .. N /\ SlotEnd(ls, k) \in 0 .. N
  BY StartsType
<1>3. /\ Len(Starts(t)) = n + 1 /\ Starts(t)[n + 1] = N + 1
      /\ \A k \in 1 .. n : Starts(t)[k] = Starts(ls)[k]
  <2>1. Starts(t) = Append(Starts(ls), N + 1)
    BY StartsAppend
  <2>2. Starts(ls) \in Seq(Nat)
    <3>1. Starts(ls) \in [1 .. n -> Nat]
      BY <1>2, LenProperties
    <3>2. QED
      BY <1>2, <3>1, SeqDef
  <2>3. N + 1 \in Nat
    BY <1>1
  <2> DEFINE x == N + 1
  <2> HIDE DEF x, t
  <2>4. /\ Len(Append(Starts(ls), x)) = n + 1 /\ Append(Starts(ls), x)[n + 1] = x
        /\ \A k \in 1 .. n : Append(Starts(ls), x)[k] = Starts(ls)[k]
    BY <2>2, <2>3, AppendProperties DEF x
  <2>5. QED
    BY <2>1, <2>4 DEF x
<1>4. /\ L \in Seq(Seq(T)) /\ Len(L) = n
      /\ \A k \in 1 .. n : L[k] = SubSeq(ls, Starts(ls)[k], SlotEnd(ls, k))
  BY SlotsType
<1> HIDE DEF t, L
<1>5. /\ K \in Seq(Seq(T)) /\ Len(K) = n + 1
      /\ \A k \in 1 .. n + 1 : K[k] = SubSeq(t, Starts(t)[k], SlotEnd(t, k))
  BY <1>1, <1>3, SlotsType
<1> HIDE DEF K
<1>6. n # 0 /\ n \in 1 .. n /\ (\A k \in 1 .. n : k \in 1 .. n + 1 /\ k # n + 1) /\ n + 1 \in 1 .. n + 1
  <2>1. n # 0
    BY <1>4, EmptySeq DEF L
  <2>2. QED
    BY <1>2, <2>1
<1>7. ASSUME NEW k \in 1 .. n PROVE SlotEnd(t, k) = SlotEnd(ls, k)
  <2>1. CASE k = n
    <3>1. SlotEnd(t, k) = Starts(t)[k + 1] - 1
      BY <1>3, <1>6 DEF SlotEnd
    <3>2. SlotEnd(t, k) = N
      BY <1>1, <1>3, <2>1, <3>1
    <3>3. SlotEnd(ls, k) = N
      BY <2>1 DEF SlotEnd
    <3>4. QED
      BY <3>2, <3>3
  <2>2. CASE k # n
    <3>1. k + 1 \in 1 .. n
      BY <1>2, <2>2
    <3>2. Starts(t)[k + 1] = Starts(ls)[k + 1]
      BY <1>3, <3>1
    <3>3. SlotEnd(t, k) = Starts(t)[k + 1] - 1
      BY <1>3, <1>6 DEF SlotEnd
    <3>4. SlotEnd(ls, k) = Starts(ls)[k + 1] - 1
      BY <2>2 DEF SlotEnd
    <3>5. QED
      BY <3>2, <3>3, <3>4
  <2>3. QED
    BY <2>1, <2>2
<1>8. SlotEnd(t, n + 1) = N + 1
  BY <1>1, <1>3 DEF SlotEnd
<1>9. ASSUME NEW k \in 1 .. n PROVE K[k] = L[k]
  <2>1. SubSeq(t, Starts(ls)[k], SlotEnd(ls, k)) = SubSeq(ls, Starts(ls)[k], SlotEnd(ls, k))
    BY <1>2, SubSeqBefore DEF t
  <2>2. K[k] = SubSeq(t, Starts(ls)[k], SlotEnd(ls, k))
    BY <1>3, <1>5, <1>6, <1>7
  <2>3. QED
    BY <1>4, <2>1, <2>2
<1>10. K[n + 1] = <<w>>
  <2>1. 1 \in 1 .. Len(ls)
    BY <1>2, <1>6
  <2>2. SubSeq(t, N + 1, N + 1) = <<w>>
    BY <2>1, SubSeqBefore DEF t
  <2>3. QED
    BY <1>3, <1>5, <1>6, <1>8, <2>2
<1>11. /\ M \in Seq(Seq(T)) /\ Len(M) = n + 1 /\ M[n + 1] = <<w>>
       /\ \A k \in 1 .. n : M[k] = L[k]
  <2>1. <<w>> \in Seq(T)
    OBVIOUS
  <2>2. QED
    BY <1>4, <2>1, AppendProperties
<1> HIDE DEF M
<1>12. \A k \in 1 .. n + 1 : k \in 1 .. n \/ k = n + 1
  BY <1>2
<1>13. \A k \in 1 .. n + 1 : K[k] = M[k]
  BY <1>9, <1>10, <1>11, <1>12
<1>14. K = M
  BY <1>5, <1>11, <1>13, SeqEqual
<1>15. QED
  BY <1>14 DEF t, L, K, M

LEMMA SlotsOfOne ==
    ASSUME NEW w
    PROVE  SlotsOf(<<w>>) = <<<<w>>>>
<1> DEFINE ls == <<w>>
           L == SlotsOf(ls)
<1>1. ls \in Seq({w}) /\ Len(ls) = 1 /\ ls[1] = w /\ DOMAIN ls = {1}
  OBVIOUS
<1>2. Starts(ls) = <<1>>
  <2>1. Places(ls) = <<1>>
    BY DEF Places
  <2>2. 1 \in Begins(ls)
    BY <1>1 DEF Begins
  <2>3. QED
    BY <2>1, <2>2, OnlyOne DEF Starts
<1>3. Len(Starts(ls)) = 1 /\ Starts(ls)[1] = 1 /\ SlotEnd(ls, 1) = 1
  BY <1>1, <1>2 DEF SlotEnd
<1>4. SubSeq(ls, 1, 1) = ls
  BY <1>1, SubSeqFull
<1>5. L \in Seq(Seq({w})) /\ Len(L) = 1 /\ L[1] = ls
  <2> HIDE DEF ls
  <2>1. QED
    BY <1>1, <1>3, <1>4, SlotsType
<1> HIDE DEF L
<1>6. QED
  BY <1>5 DEF L

-------------------------------------------------------------------------------
(***************************************************************************)
(* The printed block.  The mode of the printer does not change, so what is *)
(* expected of a row now is expected of it after a step.                   *)
(***************************************************************************)
PrintedBlock(b) ==
    mode # "test" /\ (\A k \in DOMAIN b.order : Regular(Row(b.matrix, b.order[k]))) =>
        \A k \in DOMAIN b.order :
            [i \in DOMAIN b.printed[k] |->
                LET p == b.printed[k][i] IN [word |-> p.word, upper |-> p.upper, space |-> p.space]]
                = Expected(Row(b.matrix, b.order[k]))

LEMMA ModeKept ==
    ASSUME mode' = mode, PrintedBlock(block')
    PROVE  PrintedAsExpected'
<1>1. ASSUME NEW row PROVE Regular(row)' <=> Regular(row)
  BY DEF Regular, LeftOut, IsComma
<1>2. ASSUME NEW row PROVE Expected(row)' = Expected(row)
  BY DEF Expected, LeftOut, Capital, Spaced, IsComma
<1>3. QED
  BY <1>1, <1>2 DEF PrintedAsExpected, PrintedBlock

\* The lines do not change at the end of a sentence, nor does the number to print.
CompleteBlock(ls, b) ==
    b # NoBlock /\ ls # <<>> =>
        LET slots == SlotsOf(ls)
            n     == Product(slots)
            rows  == [r \in Rows(b.matrix) |-> Row(b.matrix, r)]
            picks == {row \in [DOMAIN slots -> ToSet(ls)] :
                          \A c \in DOMAIN slots : row[c] \in ToSet(slots[c])}
        IN  /\ DOMAIN rows = 0 .. n - 1
            /\ Range(rows) = picks
            /\ Len(b.printed) = Min({CUTOFF, n})

LEMMA SlotsAre == Slots = SlotsOf(lines)
BY DEF Slots, SlotsOf, SlotEnd, Starts, Begins, Places

LEMMA CompleteIs == LatticeComplete <=> CompleteBlock(lines, block)
BY SlotsAre DEF LatticeComplete, CompleteBlock

LEMMA LinesKept ==
    ASSUME CUTOFF' = CUTOFF, CompleteBlock(lines', block')
    PROVE  LatticeComplete'
<1>1. Slots' = SlotsOf(lines')
  BY DEF Slots, SlotsOf, SlotEnd, Starts, Begins, Places
<1>2. QED
  BY <1>1 DEF LatticeComplete, CompleteBlock

-------------------------------------------------------------------------------
(***************************************************************************)
(* While a sentence is read, the lattice is what its lines tell, and the   *)
(* alternatives of all words but the last have been multiplied.            *)
(***************************************************************************)
LatticeTypes ==
    /\ mode \in PrinterModes
    /\ CUTOFF \in Nat
    /\ newSentence \in BOOLEAN
    /\ sentOpts = 0
    /\ lines \in Seq(LatticeLine)

Multiplied(slots, n) ==
    \E P \in [0 .. Len(slots) -> Nat] : Products(slots, P) /\ n = P[Len(slots) - 1]

Between == newSentence => sentLattice = <<>> /\ nbrOfAltSents = 1

Reading ==
    ~newSentence =>
        /\ lines # <<>> /\ sentLattice # <<>>
        /\ sentLattice = SlotsOf(lines)
        /\ \A c \in 1 .. Len(sentLattice) : sentLattice[c] # <<>>
        /\ Multiplied(sentLattice, nbrOfAltSents)

\* The number of sentences, and what is done with them.
Total == nbrOfAltSents * (IF sentLattice = <<>> THEN 0 ELSE Len(Last(sentLattice)))
BlockOf(order) ==
    [matrix |-> Matrix(Total).matrix, order |-> order, printed |-> PrintRows(Matrix(Total).matrix, order)]

LEMMA SentenceRead ==
    ASSUME LatticeTypes, Reading, ~newSentence
    PROVE  /\ Lattice
           /\ Len(sentLattice) \in Nat \ {0}
           /\ sentLattice \in Seq(Seq(ToSet(lines)))
           /\ Total \in Nat
           /\ Total = Product(sentLattice)
           /\ AllPicks(Matrix(Total).matrix, Total)
<1> DEFINE N == Len(sentLattice)
<1>1. sentLattice \in Seq(Seq(LatticeLine))
  BY SlotsType DEF LatticeTypes, Reading
<1>2. Lattice
  BY <1>1 DEF Lattice, Reading
<1>3. sentLattice \in Seq(Seq(ToSet(lines)))
  <2>1. lines \in Seq(ToSet(lines))
    BY LenProperties DEF LatticeTypes, ToSet
  <2>2. SlotsOf(lines) \in Seq(Seq(ToSet(lines)))
    BY <2>1, SlotsType
  <2>3. QED
    BY <2>2 DEF Reading
<1>4. N \in Nat /\ N # 0
  <2>1. sentLattice # <<>>
    BY DEF Reading
  <2>2. QED
    BY <1>1, <2>1, EmptySeq, LenProperties
<1>5. PICK P \in [0 .. N -> Nat] : Products(sentLattice, P) /\ nbrOfAltSents = P[N - 1]
  BY DEF Reading, Multiplied
<1>6. Total = P[N]
  <2>1. Last(sentLattice) = sentLattice[N]
    BY DEF Last
  <2>2. N \in 1 .. N /\ sentLattice # <<>>
    BY <1>4 DEF Reading
  <2>3. Total = nbrOfAltSents * Len(sentLattice[N])
    BY <2>1, <2>2 DEF Total
  <2>4. P[N] = P[N - 1] * Len(sentLattice[N])
    BY <1>5, <2>2 DEF Products
  <2>5. QED
    BY <1>5, <2>3, <2>4
<1>7. P[N] \in Nat \ {0} /\ AllPicks(Matrix(P[N]).matrix, P[N])
  BY <1>2, <1>5, MatrixIs DEF LatticeTypes, Reading
<1>8. Product(sentLattice) = P[N]
  BY <1>1, <1>5, ProductIs
<1>9. QED
  BY <1>2, <1>3, <1>4, <1>6, <1>7, <1>8

LEMMA BlockRows ==
    ASSUME LatticeTypes, Reading, Between, NEW order \in Rankings(Matrix(Total).matrix)
    PROVE  /\ Len(order) \in Nat
           /\ Len(order) = Min({CUTOFF, Total})
           /\ DOMAIN order = 1 .. Len(order)
           /\ Printable(Matrix(Total).matrix, order)
<1> DEFINE M == Matrix(Total).matrix
<1>1. CUTOFF \in Nat
  BY DEF LatticeTypes
<1>2. CASE newSentence
  <2>1. sentLattice = <<>> /\ Total = 0
    BY <1>2 DEF Between, Total
  <2>2. Rows(M) = 0 .. 0 - 1
    BY <2>1, EmptyMatrix
  <2> HIDE DEF M
  <2>3. order \in Rankings(M)
    BY DEF M
  <2>4. /\ Len(order) \in Nat /\ Len(order) = Min({CUTOFF, 0}) /\ DOMAIN order = 1 .. Len(order)
        /\ \A k \in 1 .. Len(order) : order[k] \in 0 .. 0 - 1
    BY <1>1, <2>2, <2>3, RankingsAre
  <2>5. Printable(M, order)
    <3>1. \A r : r \notin 0 .. 0 - 1
      OBVIOUS
    <3>2. QED
      BY <2>4, <3>1, Zenon DEF Printable
  <2>6. QED
    BY <2>1, <2>4, <2>5 DEF M
<1>3. CASE ~newSentence
  <2> DEFINE N == Len(sentLattice)
             n == Total
  <2>1. N \in Nat \ {0} /\ n \in Nat /\ AllPicks(M, n)
    BY <1>3, SentenceRead
  <2>2. order \in Rankings(M)
    OBVIOUS
  <2> HIDE DEF M, N, n
  <2>3. M \in [(0 .. n - 1) \X (1 .. N) -> LatticeLine]
    BY <2>1 DEF AllPicks, N
  <2>4. Rows(M) = 0 .. n - 1 /\ \A r \in 0 .. n - 1 : Row(M, r) = [c \in 1 .. N |-> M[<<r, c>>]]
    BY <2>1, <2>3, RowsOf
  <2>5. /\ Len(order) \in Nat /\ Len(order) = Min({CUTOFF, n}) /\ DOMAIN order = 1 .. Len(order)
        /\ \A k \in 1 .. Len(order) : order[k] \in 0 .. n - 1
    BY <1>1, <2>1, <2>2, <2>4, RankingsAre
  <2>6. ASSUME NEW r \in 0 .. n - 1 PROVE Row(M, r) \in Seq(LatticeLine) /\ Row(M, r) # <<>>
    <3>1. \A c \in 1 .. N : M[<<r, c>>] \in LatticeLine
      BY <2>3
    <3> DEFINE row == [c \in 1 .. N |-> M[<<r, c>>]]
    <3>2. row \in [1 .. N -> LatticeLine]
      BY <3>1
    <3> HIDE DEF row
    <3>3. row \in Seq(LatticeLine) /\ Len(row) = N
      BY <2>1, <3>2, SeqDef
    <3>4. row # <<>>
      BY <2>1, <3>3, EmptySeq
    <3>5. QED
      BY <2>4, <3>3, <3>4 DEF row
  <2>7. Printable(M, order)
    BY <2>5, <2>6 DEF Printable
  <2>8. QED
    BY <2>5, <2>7 DEF M, n
<1>4. QED
  BY <1>2, <1>3 DEF LatticeTypes

\* Every sentence is printed as expected.
LEMMA BlockPrinted ==
    ASSUME LatticeTypes, Reading, Between, NEW order \in Rankings(Matrix(Total).matrix)
    PROVE  PrintedBlock(BlockOf(order))
<1> DEFINE M == Matrix(Total).matrix
           b == BlockOf(order)
<1>1. b.matrix = M /\ b.order = order /\ b.printed = PrintRows(M, order)
  BY DEF BlockOf
<1>2. Len(order) \in Nat /\ DOMAIN order = 1 .. Len(order) /\ Printable(M, order)
  BY BlockRows
<1> HIDE DEF M, b
<1>3. ASSUME mode # "test", \A k \in DOMAIN b.order : Regular(Row(b.matrix, b.order[k])),
             NEW k \in DOMAIN b.order
      PROVE  [i \in DOMAIN b.printed[k] |->
                 LET p == b.printed[k][i] IN [word |-> p.word, upper |-> p.upper, space |-> p.space]]
                 = Expected(Row(b.matrix, b.order[k]))
  <2>1. mode \in {"words", "morphs"}
    BY <1>3 DEF LatticeTypes, PrinterModes
  <2>2. k \in 1 .. Len(order) /\ \A j \in 1 .. Len(order) : Regular(Row(M, order[j]))
    BY <1>1, <1>2, <1>3
  <2> DEFINE printed == PrintRows(M, order)
  <2>3. [i \in DOMAIN printed[k] |->
            LET p == printed[k][i] IN [word |-> p.word, upper |-> p.upper, space |-> p.space]]
            = Expected(Row(M, order[k]))
    BY <1>2, <2>1, <2>2, SentencesRight
  <2> HIDE DEF printed
  <2>4. b.printed = printed
    BY <1>1 DEF printed
  <2>5. QED
    BY <1>1, <2>3, <2>4
<1>4. QED
  BY <1>3 DEF PrintedBlock, b

\* Every combination of alternatives is a row, and the best of them are printed.
LEMMA BlockComplete ==
    ASSUME LatticeTypes, Reading, ~newSentence, NEW order \in Rankings(Matrix(Total).matrix)
    PROVE  CompleteBlock(lines, BlockOf(order))
<1> DEFINE M == Matrix(Total).matrix
           b == BlockOf(order)
           L == sentLattice
           N == Len(L)
           n == Total
           R == ToSet(lines)
           picks == {row \in [1 .. N -> R] : \A c \in 1 .. N : row[c] \in ToSet(L[c])}
           rows == [r \in 0 .. n - 1 |-> Row(M, r)]
<1>1. b.matrix = M /\ b.order = order /\ b.printed = PrintRows(M, order)
  BY DEF BlockOf
<1>2. /\ N \in Nat \ {0} /\ n \in Nat /\ n = Product(L) /\ AllPicks(M, n)
      /\ L \in Seq(Seq(R)) /\ DOMAIN L = 1 .. N
  <2>1. L \in Seq(Seq(R))
    BY SentenceRead
  <2>2. DOMAIN L = 1 .. N
    BY <2>1, LenProperties
  <2>3. QED
    BY <2>1, <2>2, SentenceRead
<1>3. Len(order) \in Nat /\ Len(order) = Min({CUTOFF, n})
  <2>1. Between
    BY DEF Between
  <2>2. QED
    BY <2>1, BlockRows
<1>4. L = SlotsOf(lines)
  BY DEF Reading
<1> HIDE DEF M, b, n, L, N
<1>5. M \in [(0 .. n - 1) \X (1 .. N) -> LatticeLine]
  BY <1>2 DEF AllPicks, L, N
<1>6. Rows(M) = 0 .. n - 1 /\ \A r \in 0 .. n - 1 : Row(M, r) = [c \in 1 .. N |-> M[<<r, c>>]]
  <2>1. DOMAIN M = (0 .. n - 1) \X (1 .. N)
    BY <1>5
  <2>2. N \in Nat \ {0} /\ n \in Nat
    BY <1>2
  <2>3. QED
    BY <2>1, <2>2, RowsOf
<1>7. /\ \A r \in 0 .. n - 1, c \in 1 .. N : M[<<r, c>>] \in Range(L[c])
      /\ \A h : (\A c \in 1 .. N : h[c] \in Range(L[c])) =>
             \E r \in 0 .. n - 1 : \A c \in 1 .. N : M[<<r, c>>] = h[c]
  BY <1>2 DEF AllPicks, L, N
<1>8. \A c \in 1 .. N : Range(L[c]) = ToSet(L[c]) /\ Range(L[c]) \subseteq R
  <2>1. ASSUME NEW c \in 1 .. N PROVE Range(L[c]) = ToSet(L[c]) /\ Range(L[c]) \subseteq R
    <3> DEFINE s == L[c]
    <3>1. s \in Seq(R)
      BY <1>2, <2>1, ElementOfSeq
    <3> HIDE DEF s, R
    <3>2. Range(s) = ToSet(s)
      BY DEF Range, ToSet
    <3>3. \A x : x \in Range(s) <=> \E i \in 1 .. Len(s) : s[i] = x
      BY <3>1, RangeIs
    <3>4. Range(s) \subseteq R
      BY <3>1, <3>3, ElementOfSeq
    <3>5. QED
      BY <3>2, <3>4 DEF s
  <2>2. QED
    BY <2>1
<1> HIDE DEF R
<1>9. Range(rows) = picks
  <2>1. \A row : row \in Range(rows) <=> \E r \in 0 .. n - 1 : row = Row(M, r)
    BY DEF Range
  <2>2. ASSUME NEW r \in 0 .. n - 1 PROVE Row(M, r) \in picks
    <3> DEFINE row == [c \in 1 .. N |-> M[<<r, c>>]]
    <3>1. row \in [1 .. N -> R] /\ \A c \in 1 .. N : row[c] \in ToSet(L[c])
      BY <1>7, <1>8
    <3> HIDE DEF row
    <3>2. row \in picks
      BY <3>1
    <3>3. QED
      BY <1>6, <3>2 DEF row
  <2>3. ASSUME NEW h \in picks PROVE \E r \in 0 .. n - 1 : h = Row(M, r)
    <3>1. h \in [1 .. N -> R] /\ \A c \in 1 .. N : h[c] \in Range(L[c])
      BY <1>8
    <3>2. PICK r \in 0 .. n - 1 : \A c \in 1 .. N : M[<<r, c>>] = h[c]
      BY <1>7, <3>1
    <3>3. h = [c \in 1 .. N |-> h[c]]
      BY <3>1
    <3>4. h = [c \in 1 .. N |-> M[<<r, c>>]]
      BY <3>2, <3>3
    <3>5. QED
      BY <1>6, <3>4
  <2> HIDE DEF rows
  <2>4. QED
    BY <2>1, <2>2, <2>3
<1>10. Len(PrintRows(M, order)) = Len(order)
  <2> DEFINE after == CHOOSE g : g = [k \in 0 .. Len(order) |->
                 IF k = 0 THEN StartPrinter
                 ELSE PrintRow([g[k - 1] EXCEPT !.pieces = <<>>], Row(M, order[k]))]
  <2>1. PrintRows(M, order) = [k \in 1 .. Len(order) |-> after[k].pieces]
    BY DEF PrintRows
  <2> HIDE DEF after
  <2>2. QED
    BY <1>3, <2>1
<1>11. rows = [r \in Rows(M) |-> Row(M, r)] /\ DOMAIN rows = 0 .. n - 1
  BY <1>6
<1> HIDE DEF rows
<1>12. Len(b.printed) = Min({CUTOFF, n})
  BY <1>1, <1>3, <1>10
<1>13. QED
  BY <1>1, <1>2, <1>4, <1>9, <1>11, <1>12 DEF CompleteBlock, b, L, R

-------------------------------------------------------------------------------
(***************************************************************************)
(* One more line: the product of the alternatives.                         *)
(***************************************************************************)
LEMMA ProductsAppend ==
    ASSUME NEW T, NEW slots \in Seq(Seq(T)), NEW x \in Seq(T),
           NEW P \in [0 .. Len(slots) -> Nat], Products(slots, P)
    PROVE  Multiplied(Append(slots, x), P[Len(slots)])
<1> DEFINE N == Len(slots)
           long == Append(slots, x)
           Q == [k \in 0 .. N + 1 |-> IF k <= N THEN P[k] ELSE P[N] * Len(x)]
<1>1. /\ N \in Nat /\ Len(long) = N + 1 /\ long[N + 1] = x /\ \A k \in 1 .. N : long[k] = slots[k]
  BY AppendProperties, LenProperties
<1>2. Len(x) \in Nat
  BY LenProperties
<1> HIDE DEF N, long
<1>3. \A k \in 0 .. N : P[k] \in Nat
  BY DEF N
<1>4. P[0] = 1 /\ \A k \in 1 .. N : P[k] = P[k - 1] * Len(slots[k])
  BY DEF Products, N
<1>5. \A k \in 0 .. N + 1 : k <= N => k \in 0 .. N
  BY <1>1
<1>6. Q \in [0 .. N + 1 -> Nat]
  <2>1. N \in 0 .. N
    BY <1>1
  <2>2. P[N] * Len(x) \in Nat
    BY <1>2, <1>3, <2>1
  <2>3. QED
    BY <1>3, <1>5, <2>2
<1>7. Q[0] = 1 /\ Q[N] = P[N] /\ Q[N + 1] = P[N] * Len(x) /\ \A k \in 0 .. N : Q[k] = P[k]
  BY <1>1, <1>4
<1> HIDE DEF Q
<1>8. ASSUME NEW k \in 1 .. N + 1 PROVE Q[k] = Q[k - 1] * Len(long[k])
  <2>1. CASE k = N + 1
    BY <1>1, <1>7, <2>1
  <2>2. CASE k \in 1 .. N
    <3>1. k \in 0 .. N /\ k - 1 \in 0 .. N
      BY <1>1, <2>2
    <3>2. QED
      BY <1>1, <1>4, <1>7, <2>2, <3>1
  <2>3. QED
    BY <1>1, <2>1, <2>2
<1>9. Products(long, Q)
  BY <1>1, <1>7, <1>8 DEF Products
<1>10. (N + 1) - 1 = N
  BY <1>1
<1>11. Multiplied(long, P[N])
  BY <1>1, <1>6, <1>7, <1>9, <1>10 DEF Multiplied
<1>12. QED
  BY <1>11 DEF long, N

LEMMA ProductsLast ==
    ASSUME NEW T, NEW slots \in Seq(Seq(T)), slots # <<>>, NEW x \in Seq(T), NEW n, Multiplied(slots, n)
    PROVE  Multiplied([slots EXCEPT ![Len(slots)] = x], n)
<1> DEFINE N == Len(slots)
           long == [slots EXCEPT ![N] = x]
<1>1. N \in Nat \ {0}
  BY EmptySeq, LenProperties
<1>2. PICK P \in [0 .. N -> Nat] : Products(slots, P) /\ n = P[N - 1]
  BY DEF Multiplied
<1>3. Len(long) = N /\ \A k \in 1 .. N : long[k] = IF k = N THEN x ELSE slots[k]
  <2>1. N \in 1 .. N
    BY <1>1
  <2>2. QED
    BY <2>1, ExceptSeq
<1> DEFINE Q == [k \in 0 .. N |-> IF k = N THEN P[N - 1] * Len(x) ELSE P[k]]
<1>4. P[N - 1] \in Nat /\ Len(x) \in Nat
  <2>1. N - 1 \in 0 .. N
    BY <1>1
  <2>2. QED
    BY <1>2, <2>1, LenProperties
<1> HIDE DEF N, long
<1>5. Q \in [0 .. N -> Nat]
  BY <1>2, <1>4
<1>6. P[0] = 1 /\ \A k \in 1 .. N : P[k] = P[k - 1] * Len(slots[k])
  BY <1>2 DEF Products, N
<1>7. /\ Q[0] = 1 /\ Q[N] = P[N - 1] * Len(x) /\ Q[N - 1] = P[N - 1]
      /\ \A k \in 0 .. N : k # N => Q[k] = P[k]
  BY <1>1, <1>6
<1> HIDE DEF Q
<1>8. ASSUME NEW k \in 1 .. N PROVE Q[k] = Q[k - 1] * Len(long[k])
  <2>1. CASE k = N
    BY <1>1, <1>3, <1>7, <2>1
  <2>2. CASE k # N
    <3>1. k \in 0 .. N /\ k - 1 \in 0 .. N /\ k - 1 # N
      BY <1>1, <2>2
    <3>2. QED
      BY <1>3, <1>6, <1>7, <2>2, <3>1
  <2>3. QED
    BY <2>1, <2>2
<1>9. Products(long, Q)
  BY <1>3, <1>7, <1>8 DEF Products
<1>10. Multiplied(long, n)
  BY <1>2, <1>3, <1>5, <1>7, <1>9 DEF Multiplied
<1>11. QED
  BY <1>10 DEF long, N

-------------------------------------------------------------------------------
(***************************************************************************)
(* The invariant, and what keeps it.                                       *)
(***************************************************************************)
LatticeInv == LatticeTypes /\ Between /\ Reading /\ LatticeComplete /\ PrintedAsExpected

LEMMA NothingPrinted == PrintedBlock(NoBlock) /\ \A ls : CompleteBlock(ls, NoBlock)
BY DEF PrintedBlock, CompleteBlock, NoBlock

LEMMA LatticeStarts == LatticeInit => LatticeInv
<1> SUFFICES ASSUME LatticeInit PROVE LatticeInv
  OBVIOUS
<1>1. LatticeTypes
  BY LatticeAssumption, EmptySeq DEF LatticeInit, LatticeTypes, PrinterModes
<1>2. Between /\ Reading
  BY DEF LatticeInit, Between, Reading
<1>3. LatticeComplete
  BY NothingPrinted, CompleteIs DEF LatticeInit
<1>4. PrintedAsExpected
  BY NothingPrinted DEF LatticeInit, PrintedAsExpected, PrintedBlock
<1>5. QED
  BY <1>1, <1>2, <1>3, <1>4 DEF LatticeInv

\* What a line leaves of the last sentence, and what it adds to this one.
LEMMA LineRead ==
    ASSUME LatticeTypes, NEW w \in Words, Read(w)
    PROVE  /\ LatticeTypes' /\ Between' /\ LatticeComplete' /\ PrintedAsExpected'
           /\ w \in LatticeLine
           /\ ~newSentence'
           /\ lines' = IF newSentence THEN <<w>> ELSE Append(lines, w)
           /\ lines' # <<>>
<1>1. w \in LatticeLine
  BY LatticeAssumption DEF LatticeLine, LatticeText
<1>2. lines' \in Seq(LatticeLine) /\ lines' # <<>>
  <2>1. <<w>> \in Seq(LatticeLine) /\ <<w>> # <<>>
    BY <1>1
  <2>2. Append(lines, w) \in Seq(LatticeLine) /\ Append(lines, w) # <<>>
    <3> DEFINE t == Append(lines, w)
    <3>1. t \in Seq(LatticeLine) /\ Len(t) = Len(lines) + 1 /\ Len(lines) \in Nat
      BY <1>1, AppendProperties, LenProperties DEF LatticeTypes
    <3> HIDE DEF t
    <3>2. Len(t) # 0
      BY <3>1
    <3>3. t # <<>>
      BY <3>2, EmptySeq
    <3>4. QED
      BY <3>1, <3>3 DEF t
  <2>3. QED
    BY <2>1, <2>2 DEF Read
<1>3. LatticeTypes'
  BY <1>2 DEF LatticeTypes, Read
<1>4. LatticeComplete'
  BY NothingPrinted, LinesKept DEF Read
<1>5. PrintedAsExpected'
  BY NothingPrinted, ModeKept DEF Read
<1>6. QED
  BY <1>1, <1>2, <1>3, <1>4, <1>5 DEF Read, Between

LEMMA FirstWordRead ==
    ASSUME LatticeInv, NEW w \in Words, FirstWord(w)
    PROVE  LatticeInv'
<1>1. /\ LatticeTypes' /\ Between' /\ LatticeComplete' /\ PrintedAsExpected'
      /\ w \in LatticeLine /\ ~newSentence' /\ lines' = <<w>>
  BY LineRead DEF LatticeInv, FirstWord
<1>2. sentLattice' = <<<<w>>>> /\ nbrOfAltSents' = 1
  BY DEF LatticeInv, Between, FirstWord
<1>3. Multiplied(<<<<w>>>>, 1)
  <2> DEFINE slots == <<<<w>>>>
             P == [k \in 0 .. 1 |-> 1]
  <2>1. Len(slots) = 1 /\ Len(slots[1]) = 1
    OBVIOUS
  <2>2. P \in [0 .. 1 -> Nat] /\ P[0] = 1 /\ P[1] = 1
    OBVIOUS
  <2> HIDE DEF slots, P
  <2>3. Products(slots, P)
    BY <2>1, <2>2 DEF Products
  <2>4. Multiplied(slots, 1)
    BY <2>1, <2>2, <2>3 DEF Multiplied
  <2>5. QED
    BY <2>4 DEF slots
<1>4. SlotsOf(<<w>>) = <<<<w>>>>
  BY SlotsOfOne
<1>5. <<w>> # <<>> /\ <<<<w>>>> # <<>> /\ \A c \in 1 .. Len(<<<<w>>>>) : <<<<w>>>>[c] # <<>>
  OBVIOUS
<1>6. Reading'
  BY <1>1, <1>2, <1>3, <1>4, <1>5 DEF Reading
<1>7. QED
  BY <1>1, <1>6 DEF LatticeInv

LEMMA AlternativeRead ==
    ASSUME LatticeInv, NEW w \in Words, Alternative(w)
    PROVE  LatticeInv'
<1>1. /\ LatticeTypes' /\ Between' /\ LatticeComplete' /\ PrintedAsExpected'
      /\ w \in LatticeLine /\ ~newSentence' /\ lines' = Append(lines, w) /\ lines' # <<>>
  BY LineRead DEF LatticeInv, Alternative
<1> DEFINE L == sentLattice
           N == Len(L)
           x == Append(L[N], w)
           K == [L EXCEPT ![N] = x]
<1>2. K = sentLattice' /\ nbrOfAltSents' = nbrOfAltSents
  BY DEF Alternative
<1>3. /\ L # <<>> /\ L = SlotsOf(lines) /\ lines \in Seq(LatticeLine) /\ lines # <<>>
      /\ Multiplied(L, nbrOfAltSents) /\ \A c \in 1 .. N : L[c] # <<>>
  BY DEF LatticeInv, LatticeTypes, Reading, Alternative
<1>4. L \in Seq(Seq(LatticeLine))
  BY <1>3, SlotsType
<1>5. K = SlotsOf(Append(lines, w))
  BY <1>1, <1>3, SlotsAlternative DEF Alternative
<1>6. N \in 1 .. N /\ N \in Nat
  <2>1. N \in Nat /\ N # 0
    BY <1>3, <1>4, EmptySeq, LenProperties
  <2>2. QED
    BY <2>1
<1>7. x \in Seq(LatticeLine) /\ x # <<>>
  <2>1. L[N] \in Seq(LatticeLine)
    BY <1>4, <1>6, ElementOfSeq
  <2> DEFINE v == L[N]
  <2> HIDE DEF v
  <2>2. Append(v, w) \in Seq(LatticeLine) /\ Len(Append(v, w)) = Len(v) + 1 /\ Len(v) \in Nat
    BY <1>1, <2>1, AppendProperties, LenProperties DEF v
  <2>3. Append(v, w) # <<>>
    BY <2>2, EmptySeq
  <2>4. QED
    BY <2>2, <2>3 DEF v
<1> HIDE DEF x, L, N
<1>8. Multiplied(K, nbrOfAltSents)
  BY <1>3, <1>4, <1>7, ProductsLast DEF N
<1>9. Len(K) = N /\ \A c \in 1 .. N : K[c] # <<>>
  <2>1. Len(K) = N /\ \A c \in 1 .. N : K[c] = IF c = N THEN x ELSE L[c]
    BY <1>4, <1>6, <1>7, ExceptSeq DEF N
  <2>2. QED
    BY <1>3, <1>7, <2>1
<1> HIDE DEF K
<1>10. K # <<>> /\ Append(lines, w) # <<>>
  BY <1>1, <1>6, <1>9, EmptySeq
<1>11. Reading'
  <2>1. K # <<>> /\ K = SlotsOf(Append(lines, w)) /\ Append(lines, w) # <<>>
        /\ (\A c \in 1 .. Len(K) : K[c] # <<>>) /\ Multiplied(K, nbrOfAltSents)
    BY <1>5, <1>8, <1>9, <1>10
  <2>2. QED
    BY <1>1, <1>2, <2>1 DEF Reading
<1>12. QED
  BY <1>1, <1>11 DEF LatticeInv

LEMMA NextWordRead ==
    ASSUME LatticeInv, NEW w \in Words, NextWord(w)
    PROVE  LatticeInv'
<1>1. /\ LatticeTypes' /\ Between' /\ LatticeComplete' /\ PrintedAsExpected'
      /\ w \in LatticeLine /\ ~newSentence' /\ lines' = Append(lines, w) /\ lines' # <<>>
  BY LineRead DEF LatticeInv, NextWord
<1> DEFINE L == sentLattice
           N == Len(L)
           x == <<w>>
           K == Append(L, x)
<1>2. K = sentLattice' /\ nbrOfAltSents' = nbrOfAltSents * Len(L[N])
  BY DEF NextWord, Last
<1>3. /\ L # <<>> /\ L = SlotsOf(lines) /\ lines \in Seq(LatticeLine) /\ lines # <<>>
      /\ Multiplied(L, nbrOfAltSents) /\ \A c \in 1 .. N : L[c] # <<>>
  BY DEF LatticeInv, LatticeTypes, Reading, NextWord
<1>4. L \in Seq(Seq(LatticeLine))
  BY <1>3, SlotsType
<1>5. K = SlotsOf(Append(lines, w))
  BY <1>1, <1>3, SlotsNext DEF NextWord
<1>6. N \in 1 .. N /\ N \in Nat
  <2>1. N \in Nat /\ N # 0
    BY <1>3, <1>4, EmptySeq, LenProperties
  <2>2. QED
    BY <2>1
<1>7. x \in Seq(LatticeLine) /\ x # <<>>
  BY <1>1
<1> HIDE DEF x, L
<1>8. Multiplied(K, nbrOfAltSents * Len(L[N]))
  <2>1. PICK P \in [0 .. N -> Nat] : Products(L, P) /\ nbrOfAltSents = P[N - 1]
    BY <1>3 DEF Multiplied
  <2>2. P[N] = P[N - 1] * Len(L[N])
    BY <1>6, <2>1 DEF Products
  <2>3. Multiplied(K, P[N])
    BY <1>4, <1>7, <2>1, ProductsAppend
  <2>4. QED
    BY <2>1, <2>2, <2>3
<1>9. /\ Len(K) = N + 1 /\ K[N + 1] = x /\ \A c \in 1 .. N : K[c] = L[c]
  BY <1>4, <1>7, AppendProperties
<1> HIDE DEF K, N
<1>10. K # <<>> /\ \A c \in 1 .. N + 1 : K[c] # <<>>
  <2>1. K # <<>>
    BY <1>6, <1>9, EmptySeq
  <2>2. \A c \in 1 .. N + 1 : c \in 1 .. N \/ c = N + 1
    BY <1>6
  <2>3. QED
    BY <1>3, <1>7, <1>9, <2>1, <2>2
<1>11. Append(lines, w) # <<>>
  BY <1>1
<1>12. Reading'
  <2>1. K # <<>> /\ K = SlotsOf(Append(lines, w)) /\ Append(lines, w) # <<>>
        /\ (\A c \in 1 .. Len(K) : K[c] # <<>>) /\ Multiplied(K, nbrOfAltSents * Len(L[N]))
    BY <1>5, <1>8, <1>9, <1>10, <1>11
  <2>2. QED
    BY <1>1, <1>2, <2>1 DEF Reading
<1>13. QED
  BY <1>1, <1>12 DEF LatticeInv

LEMMA SentenceEnded ==
    ASSUME LatticeInv, EndOfSentence
    PROVE  LatticeInv'
<1>1. LatticeTypes /\ Between /\ Reading
  BY DEF LatticeInv
<1>2. PICK order \in Rankings(Matrix(Total).matrix) : block' = BlockOf(order)
  BY DEF EndOfSentence, PrintLattice, Total, BlockOf
<1>3. /\ mode' = mode /\ CUTOFF' = CUTOFF /\ newSentence' = TRUE /\ sentLattice' = <<>>
      /\ nbrOfAltSents' = 1 /\ sentOpts' = 0
      /\ lines' = IF newSentence THEN <<>> ELSE lines
  BY DEF EndOfSentence, PrintLattice
<1>4. LatticeTypes'
  BY <1>1, <1>3, EmptySeq DEF LatticeTypes
<1>5. Between' /\ Reading'
  BY <1>3 DEF Between, Reading
<1>6. PrintedAsExpected'
  <2>1. PrintedBlock(BlockOf(order))
    BY <1>1, <1>2, BlockPrinted
  <2>2. PrintedBlock(block')
    BY <1>2, <2>1
  <2>3. QED
    BY <1>3, <2>2, ModeKept
<1>7. LatticeComplete'
  <2>1. CASE newSentence
    <3>1. CompleteBlock(lines', block')
      BY <1>3, <2>1 DEF CompleteBlock
    <3>2. QED
      BY <1>3, <3>1, LinesKept
  <2>2. CASE ~newSentence
    <3>1. CompleteBlock(lines, BlockOf(order))
      BY <1>1, <1>2, <2>2, BlockComplete
    <3>2. CompleteBlock(lines', block')
      BY <1>2, <1>3, <2>2, <3>1
    <3>3. QED
      BY <1>3, <3>2, LinesKept
  <2>3. QED
    BY <2>1, <2>2
<1>8. QED
  BY <1>4, <1>5, <1>6, <1>7 DEF LatticeInv

LEMMA LatticeUnchanged ==
    ASSUME LatticeInv,
           UNCHANGED <<mode, CUTOFF, newSentence, sentLattice, nbrOfAltSents, sentOpts, lines, block>>
    PROVE  LatticeInv'
<1>1. LatticeTypes' /\ Between' /\ Reading'
  BY DEF LatticeInv, LatticeTypes, Between, Reading
<1>2. PrintedAsExpected'
  <2>1. PrintedBlock(block)
    BY DEF LatticeInv, PrintedAsExpected, PrintedBlock
  <2>2. QED
    BY <2>1, ModeKept
<1>3. LatticeComplete'
  BY CompleteIs, LinesKept DEF LatticeInv
<1>4. QED
  BY <1>1, <1>2, <1>3 DEF LatticeInv

LEMMA LatticeKept == LatticeInv /\ [LatticeNext]_latticeVars => LatticeInv'
<1> SUFFICES ASSUME LatticeInv, [LatticeNext]_latticeVars PROVE LatticeInv'
  OBVIOUS
<1>1. ASSUME NEW model \in {"binary", "other", "none"}, LanguageModel(model) PROVE LatticeInv'
  BY <1>1, LatticeUnchanged DEF LanguageModel
<1>2. ASSUME NEW w \in Words, FirstWord(w) PROVE LatticeInv'
  BY <1>2, FirstWordRead
<1>3. ASSUME NEW w \in Words, Alternative(w) PROVE LatticeInv'
  BY <1>3, AlternativeRead
<1>4. ASSUME NEW w \in Words, NextWord(w) PROVE LatticeInv'
  BY <1>4, NextWordRead
<1>5. CASE EndOfSentence
  BY <1>5, SentenceEnded
<1>6. CASE EndOfInput
  BY <1>6, LatticeUnchanged DEF EndOfInput
<1>7. CASE UNCHANGED latticeVars
  BY <1>7, LatticeUnchanged DEF latticeVars
<1>8. QED
  BY <1>1, <1>2, <1>3, <1>4, <1>5, <1>6, <1>7 DEF LatticeNext

\* For all words, cutoffs and lengths of sentences: when a sentence has ended,
\* insertTransOpts and printLattice have made as many rows as the product of its
\* alternatives, with every combination among them, each row filled, and of these
\* the best CUTOFF, or all if there are fewer, are printed.
THEOREM LatticeIsComplete == LatticeSpec => []LatticeComplete
<1>1. LatticeInv => LatticeComplete
  BY DEF LatticeInv
<1>2. QED
  BY <1>1, LatticeStarts, LatticeKept, PTL DEF LatticeSpec

\* For all words, cutoffs, rankings and transducers: printSents and
\* printSentsMorphGen print of regular rows each word that its neighbours do not
\* leave out, once and in order, with the space and the capital that they call
\* for, also in the next best sentences, for which the flags are not reset.
THEOREM SentencesAreAsExpected == LatticeSpec => []PrintedAsExpected
<1>1. LatticeInv => PrintedAsExpected
  BY DEF LatticeInv
<1>2. QED
  BY <1>1, LatticeStarts, LatticeKept, PTL DEF LatticeSpec
===============================================================================
