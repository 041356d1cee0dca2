# A verification project for SQUOIA

SQUOIA translates Spanish into Cuzco Quechua (`esqu`) and German (`esde`), and
analyses and spell-checks Quechua.  Its programs talk to each other over
sockets, pipes and files with fixed names.  This directory models those
programs in TLA+, checks the models with TLC and proves theorems about them
with TLAPS.  Paths below are relative to the repository's `src`.

## 1. The system

| Part | State | Operations | Interacts with |
|---|---|---|---|
| Analyzer dispatcher, `FreeLingModules/server_squoia.cc` | semaphore of worker slots, accepted connection, zombies, pending SIGCHLD, backlog | wait for a client, fork, reap in the signal handler, terminate | its workers (fork, SIGCHLD), clients (backlog) |
| Analyzer worker and `analyzer_client.cc` | the worker's buffer of unfinished sentences; the client's place in its files | one message, one answer, in four modes; commands in the text; flush at the end of a file | each other, over `socket.h` |
| Analyzer configuration, `config_squoia.h` and `load_config` | options of the command line, the file and the defaults; which module files are kept | merge, translate names, drop and switch on modules, reject, create handlers | the loop that main enters |
| Message framing, `config_squoia/socket.h` | bytes in the stream, the message read so far | write a string with its NUL, read up to the NUL | the TCP connection |
| Analysis output, `output_crf.cc`, `nec.cc` | rows on their way, strings of `nec` that outlive a row | print a row per word, label it, read it back by column number, classify names | wapiti between the two |
| Parser server, `MT_systems/maltparser_tools/src` | the static `EOFreached`, tokens of the sentence; socket buffers | accept, read lines, parse, write, close | `MPClient`, started by `translate.pm` |
| DeSR server, `desrModules` | as the analyzer dispatcher; the lines a worker has gathered | as the analyzer, over a connection that the client half-closes | `desr_client` |
| Pipeline, `MT_systems/translate.pm` | options, the document in memory, `$path/tmp/*` | thirty blocks between `--informat` and `--outformat` | both servers, the lexical transfer, the generators, all other runs (through the files) |
| Rules and lexica of the pipeline | the configuration, `$path/storage/*` | read from a file and keep, or find what an earlier run kept | earlier runs, of either direction |
| Server start of the pipeline | processes, ports | look for a server, start one, ask until it answers | other runs that do the same |
| Lexical transfer, `MT_systems/matxin-lex` | the place in the XML document, the tree of the sentence | recursive copy, dictionary look-up, order of the alternatives | the pipeline |
| Tree transformations, `MT_systems/squoia/*.pm` | the chunk tree of a sentence, its numbers | attach top chunks, split, promote nodes, flatten, number, reorder, print | called one after the other by the pipeline |
| Sentence output, `esqu/outputSentences.cpp` | lattice of alternatives, what is known of the previous word | read, expand, rank, print | the pipeline (tmp.words) |
| Look-up servers, `morphology/foma_server`, `spellChecker/foma_files` | children, the chain of transducers | fork per connection, look up a word, answer | their clients, over unframed TCP |
| Spell checking programs, `spellChecker/foma_files`, plugin `fmed` | words that are still to be read, report, strings that are never cleared | read a word, look it up, print | their callers, over pipes or UDP |
| Spell checker plugin, `morphology/spellcheck_plugin` | two child processes, their pipes | ask, read the answer, offer alternatives | LibreOffice, `flookup`, `fmed` |

The hard behaviours are of four kinds.

* *Processes and signals.*  Workers die while others are being started; signals
  do not queue, so two deaths may leave one signal.  Two runs start the same
  server at once.  Children that nobody waits for use up the processes.
* *Conversations.*  The analyzer's protocol rests on both sides taking turns,
  with a framing that drops whatever arrives together with a message; the
  parser's client writes everything before it reads, over buffers that are full
  at some point; the look-up client takes one read for one answer.
* *State that outlives its owner.*  `EOFreached` is static in a server that
  serves one client after another; the files in `$path/tmp` and `$path/storage`
  have fixed names and outlive every run; strings of `nec`, `fmed`,
  `outputSentences` and `flookup` keep what an earlier word or row left in them.
* *Combinations.*  Each block of the pipeline decides by itself where its input
  comes from: two directions, 29 input and 29 output formats, a file or standard
  input, and two language models make 6728 sets of options.  The analyzer's
  configuration has three sources that override each other.  Rules reorder trees
  step by step, and hashes of numbers put the result in a row.

What makes each part correct:

* dispatcher: no more workers than slots, no slot made up, no signal handler
  that blocks, every client accepted while a slot is left;
* session: turns are taken, a worker loses, repeats or mixes up no line, only what
  is sent to a worker that is done with its document goes without analysis, every
  session ends, the worker follows its client;
* framing: a channel of whole messages, in order, with a proper end;
* configuration: what is accepted can be run, what the user gives is obeyed, no
  file that a module needs is dropped;
* rows: each word ends up with a tag of its own;
* parser servers: a client gets the parse of its own text, whole and in order,
  and every session ends;
* pipeline: a run prints its own text, after every stage between its formats,
  does not die on the way, finds the rules it was told last, and gets an answer
  from its servers;
* lexical transfer: exactly the valid documents are copied, whole or not at all,
  and no translation is lost;
* tree transformations: no word or chunk lost or duplicated, and the printed
  order is the one that the last rule for each chunk asks for;
* sentence output: every combination of alternatives once, printed by the
  neighbours of each word only;
* look-up and spelling: an answer belongs to its question, every word is
  reported once, every client and every word comes to an end.

`PROJECT.json` lists every component with its status, and every hazard at its
line with the properties that would catch it.

## 2. The modules

### AnalyzerServer, WorkerPool: the dispatcher

`WorkerPool` is the promise: clients arrive, are admitted while there is
capacity, finish or are refused, and capacity may be lost but never gained.
`AnalyzerServer` is the program: `TakeSlot` is the `sem_wait` of `WaitClient`,
`AcceptClient` the `accept`, `ForkWorker` and `ForkFails` the two ways of
`fork`, `WorkerExits` is `CloseWorker` or the death of a worker.
`DeliverSigchld`, `ReapOne` and `PostSlot` are `child_ended`; while the handler
runs the dispatcher stands still, as it is single threaded.  `sigchld` is 0 or
1 because a pending standard signal does not count.  The refinement maps the
waiting clients to the backlog and the accepted connection, and the capacity to
free slots, zombies' slots and active workers.

A connection that finds the backlog full is not modelled (the client retries
inside its TCP stack), and a name of `Clients` is used again once its worker
has ended.

### SocketFraming, MessageChannel: the messages

`SocketFraming` is one direction of a connection: `WriteMessage` hands a string
and its NUL to the kernel, `Transmit` delivers any part of it, `ReadSome` takes up
to `BUFF_SZ` bytes and ends a message at a piece that ends in NUL, `ReadEnd` is
a read of 0 bytes.  `MessageChannel` is what it must be: one message at a time,
whole, in order; only the last message of a sender that dies may be cut.
Writing waits for the turn (`InTurn`), which is not in `socket.h`: it is what
`AnalyzerSession` shows of the two programs, and without it `read_message`
loses messages (the mutant `WriteMessageEarly`).

### AnalyzerSession: client and worker

The two loops message by message: `process_stream` of the client (`SendLine`,
`ReceiveAnswer`, `SendFlush`, `ReceiveFlushed`), and of the worker one action
per branch in the four modes: language identification (`Identify`), text
(`AnalyzeText`, `FlushText`), documents (`LoadLine`, `FlushDocument`), columns
(`AddColumns`, `EndSentence`), with `CheckStatsCommands` before each line in
the last three.  A line is known by its file and its place; the analysis is
abstracted to which lines an answer covers, and how many complete sentences a
line makes is a free choice.  Lines may also be empty or spell a command,
because the protocol does not quote them.  The client may be killed at any
time; a worker that has left is noticed by the client as sockets notice it:
reads of 0 bytes, one write that is thrown away, and others as long as the reset
that answers it has not come back, then SIGPIPE.  On one host the second write
raises it; between two (`analyzer_client host:port`) any number may succeed.

### ServerConfig: what the analyzer runs with

One action per stage of the start: the command line, the configuration file,
the two tables of defaults, the translation of names into values, `load_config`
with its order of dropping files and switching modules on, the handlers, and
the loop that main enters.  Options have the names of the configuration file; a
file name is only "given" or not.  A null handler that a loop would use is the
stage "crashed".

### CrfRows: from readings to one tag per word

`output_crf` prints a row for each word, wapiti (external) appends a label, and
`nec` reads the rows back; all three know the columns by number only.  A word is
its readings, of which the kinds that the code tells apart are kept.  The two
strings of `nec` that keep their value when a row is short are variables.  The
number of pairs in a row is the constant `MaxTag`, the texts are `Analyses`.

### DesrSession: the other parser server

The dispatcher of `desr_server` with its own `child_ended`, and the conversation
over a connection that the client closes in one direction when it has sent its
text.  A line of the text that spells a command is one.  Parsing may throw,
which ends the worker without an answer; forks may fail; clients may be killed.

### MaltServer: the parser server and its clients

`MaltParserServer` accepts one client after another.  `ReadLine` is one round
of `readSentence`, `DecideEmpty` and `DecideParse` what `parseSentences` makes
of a sentence, `WriteSentence` the answer, `CloseSession` the end, with a reset
when unread lines are left.  `MPClient` first writes (`SendLine`), then waits
and reads (`Receive`).  Both directions have buffers of bounded size,
`EOFreached` is global, and the parser may throw on a sentence.  `stale` and
`rejected` are history variables, read by properties only.

### TranslationFormats, TranslatePipeline: the script

One or more runs of `translate.pm` beside each other.  `Order` is
`%mapInputFormats`, `Stages` the blocks that a set of options enters, `From` the
input format for which each block reads the input itself.  A block that only
changes the document in memory is `Transform`; the others have actions of their
own, with a step for the store of a temporary file and one for the program that
reads it.  A text is its owner and the stages it went through, so that a lost,
repeated or foreign input is visible.  An undefined variable and an empty file
are the same `Nothing`: text passes it on, a block that needs a document dies.
A temporary file is written in one step (a reader never sees half of it); this
only leaves out more ways of being disturbed by another run.

`Supported(o)` names the options for which the script does what its help says.
The others, all found by running the model over every set of options, are listed
in section 4.

### RuleStorage: what later runs know of earlier ones

Runs of the script one after the other.  `Blocks` are the blocks that read
rules, in their order; each reads them from the file that an option or the
configuration names and keeps them (`ReadRules`), finds them in
`$path/storage` (`RetrieveRules`), or dies (`MissRules`).  `Source` is the order
of precedence, which differs for the lexica and for the topics.  A run may be
killed at any point, also while it writes a file, which is then torn.

### ServerStart: two runs look for one server

`CheckRunning` is the `ps` of the script, `StartServer` its `system`, `Poll` the
loop around `analyzer_client`, `Bind` the server whose models are loaded (only
one server can have the port), `Fail` a server that dies.  What the server is
configured for decides whether the probe is answered.

### LexicalTransfer: the copy of the document

The mutually recursive procedures of `squoia_xfer_lex.cc` over one XML reader;
`calls` is their stack, with one action per procedure and tag.  The document is
chosen as it is read: any sequence of tags that an XML parser accepts, also one
that stops short.  `within` is a history variable that only the properties read:
in which element each tag was found.  A word says how its look-up goes (its keys, its form, its
tag); the dictionary maps keys to alternatives, with senses.  `order_ordainak`
is modelled with its holes and overwriting.

### SentenceLattice: the printed sentence

`outputSentences.cpp` line by line: words, alternatives and punctuation marks
enter the lattice; `insertTransOpts` multiplies it out into the matrix, in the
model from the last word back instead of by recursion from the first, then the best rows are printed word by word, with the flags `prev`, `prevPunc`
and `startedWithPunc` as they are: also kept from one printed sentence to the
next.  The language model is external: any order of the rows.

### OrderRules, ChunkTree: the trees

`OrderRules` has `mergeArrays` and its callees as pure operators.  `ChunkTree`
takes one sentence through all transformations, one action per element that a
condition is asked about: `AttachTopChunks`, `SplitNode`, `NodeToChunk`,
`ChildToSibling`, `RecursiveNumberChunks`, `LinearOrderChunk`,
`InterchunkOrder`, `IntrachunkOrder`, `OutputGermanMorph`.  Which words, chunks
and rules a condition covers is linguistic and a free choice; at most `MaxChanges` are.
Children that no condition of a rule covers come in the order of a Perl hash,
hence in any.  So do the rules that fit one chunk or one word: all are applied
(interchunkOrder.pm:31 has no `last`), those for a chunk to the places that the one
before has left, those for a word to the refs again.  An element therefore stays in
`todo` after a rule, and any rule may be its last one.  The recursions over the tree
(document order, what is below a word, the words of a chunk, the chunks in a row)
are one operator, `Walk`, over families: of each element a sequence says in what
order it and those below it
come.  `TreeAssumption` says what the program begins with: trees of chunks and
words, without clones, and rules that name the head and each variable once.  A rule
may begin with a label that is no variable, as three of the shipped ones do
(esde/grammar/de_interChunkOrder.rules:49, 52, 95), and the next name then has no
operator; one of the rules of the run is such a rule.

### SpellWords, LookupSession, SpellPrograms, SpellPlugin: words

`SpellWords` is what the transducers say of a word: how many results each of a
chain gives.  `LookupSession` has the two forking servers and their client; a
line is the pieces that fill the server's buffer, an answer its results, of
which `ReadSize` fit one read.  `SpellPrograms` has the loops of the six
programs that read words, with the report, the words held back, the buffer that
an abort loses and the string that is never cleared.  `SpellPlugin` has the
plugin between the office and its two children: forms on their way, answers that
arrive in two parts, a child that dies.

### SequenceFilters, SequenceLemmas

`SequenceFilters` has the members of a sequence that are in a set, as a recursive
function; the models use it where a theorem needs its laws.  `SequenceLemmas`
proves these laws, those of `FlattenSeq` and of sequences that have each member of a
set once, and the induction they rest on.  The
theorems of each part are in a module of their own: `AnalyzerServerProofs` (with
the configuration), `AnalyzerSessionProofs` (with the framing),
`MaltServerProofs`, `AnalysisProofs` (the DeSR server and the rows),
`TranslationProofs` (texts and rules of the script, the printed sentence), `TransferProofs` (lexical
transfer and the trees) and `SpellingProofs` (look-up servers, programs and plugin).

### MC modules

Components that do not talk to each other are checked in one run where that
saves a start of TLC: `MCAnalyzerSession` (session, framing, server start),
`MCAnalysis` (DeSR, configuration, rows), `MCSpelling` (servers, programs,
plugin) and `MCTranslatePipeline` (texts, rules).  A variable chosen in the
initial state says which of them a behaviour runs; the variables of the others
keep a value in which nothing is enabled.

## 3. The runs

| Run | Instance | Shows |
|---|---|---|
| `server` | 4 clients, 3 workers, backlog 2, fork may fail | slots, no blocking handler, refinement of `WorkerPool`, clients accepted |
| `server_count` | 3 clients, 2 workers | *violation*: slots do not count active workers (coalesced SIGCHLD) |
| `session` | session: four modes; no file, two files of up to two lines, a file of up to four lines or with a command word before a short one, three files of one line. Framing: messages of 0 to 4 bytes, buffer of 2, 3 messages. Start: 3 runs of the script, one server may die | turns, conserved lines, sections, both endings; refinement of `MessageChannel`, arrival; runs get answers |
| `malt` | 2 clients, six texts of up to 4 lines, buffers of 3 lines and 2 sentences, parser may throw | replies in order, the flag's reach, completeness, endings |
| `malt_whole` | 2 clients | *violation*: the flag of one client cuts the next one's reply |
| `pipeline` | texts: all options for one run, 100 pairs of runs. Rules: 3 runs in any order, of 11 command lines and 3 configurations | output, no death, reach of old files; `--config` is optional later |
| `pipeline_two` | the same options twice | *violation*: a run prints the other one's text |
| `lexical` | documents of up to 10 tags, 8 kinds of dictionary entries | accepted documents are the valid ones, output mirrors the source, translations kept |
| `lattice` | sentences of up to 4 lines out of 11, two cutoffs, two modes and the test mode | every combination once; printed as its neighbours say |
| `spelling` | servers: 2 clients of up to 3 lines, 1 or 2 processes. Programs: six, texts of up to 3 words. Plugin: documents of up to 2 words, checked twice | answers in step, reports complete, own verdicts, both endings |
| `analysis` | DeSR: 3 clients, 2 slots, backlog 2. Configuration: 5 by 7 levels, 11 settings, with and without files, 12 command lines. Rows: sentences of up to two words of 18 kinds, two tag columns | slots, own parse, endings; runnable, obeyed, files kept; words tagged |
| `tree` | 5 trees of 3 or 4 words, up to 4 chunks, 3 changes, 5 rules | every word and chunk printed once, in the order of the last rule for each chunk |

Why the bounds are enough.  The dispatcher's defects need two deaths and one
signal; with three workers a third can die in the handler, and with four clients
and a backlog of two one is always in a queue.  A read buffer of two bytes makes
messages that are shorter, exactly as long, longer, and whose NUL comes alone.
Two files show what one leaves for the next, a third one that nothing is left
behind twice, and up to four lines let sentences span lines in every way.  Two
clients of the parser are one that leaves the flag and one that finds it;
buffers of three lines fill while a client still sends, and hold all that is
left after a first sentence.  The pipeline is exhaustive for one run; the ten
runs of the pairs use every temporary file from both sides.  Three runs are
needed for rules: one that keeps them, one that disturbs, one that relies on
them.  Ten tags hold two sentences with a word, or one with a chunk in a chunk.
With two tag columns three readings are one too many, as nine are for eight.
Three starters are one that finds a server loading, one that races it, and one
whose server dies.  Trees three levels deep with refs in and out of document
order let a chunk be raised twice, and three changes combine a split, a raised
chunk and a rule, or two rules for one chunk.  A read that holds two results meets answers that fit, fill
and exceed it.

Fairness.  The dispatcher and its handler are weakly fair (the system runs
them), as is every worker's exit, which `WorkerFollows` of the session module
justifies.  Client and worker of a session, the parser servers and their
clients, the children and clients of the look-up servers, the plugin and its
child are weakly fair as processes: each acts as long as it can.  Runs of the
script and servers that load their models go on (`StartFairness`).  Nobody has
to kill or start a client, to write one more message, or to ask for one more
word, and no server or child has to die.  `SessionsEnd` of the parser holds under
`RepliesFit`: with replies larger than the socket's buffer and a text that is
larger, too, `MPClient.java` and the server wait for each other.

`CHECK_DEADLOCK FALSE` is set where the programs really end: every client has
left, the script or the program has exited, the dispatcher has been terminated.
It is also set where they really wait for ever, as the two sides of a look-up
with an empty line do; the liveness properties say when they do not.

## 4. Disagreements found

With a run that shows them:

* A slot is lost whenever two workers end under one signal
  (server_squoia.cc:62-66, against the comment at line 103).  When all are lost,
  the server accepts nobody.  In `desr_server`, which accepts in one process,
  too, the last slot is never lost (`SlotLeft`, proved).
* The client puts an empty line before its "#EOF".  After a text that does not
  end in an empty line itself, that one ends the last sentence and "#EOF" is
  read as an empty sentence, which leaves `EOFreached` set: the next client
  gets one sentence (MaltParserServer.java:54, against MPClient.java:61).  The
  readiness probe of translate.pm:612, one line and no more, is such a client.
* Two overlapping runs of `translate.pm` exchange their texts (translate.pm:630).

Without one; each is a precondition or an exception that a property names:

* Session: a worker of a document leaves after the first file, or at a line of it
  that reads `FLUSH_BUFFER` (server_squoia.cc:586, against analyzer_client.cc:101).
  The client is told by SIGPIPE, or between two hosts perhaps not at all: it then
  prints the other files without an analysis and exits 0.  Column input has no
  answer before an empty line, and both sides wait (server_squoia.cc:502, against
  analyzer_client.cc:47).
* Configuration: ServerMode, ServerMaxWorkers and ServerQueueSize of the file
  have no effect (config_squoia.h:382, against the help texts 188-191); input
  format `crf` is accepted and has no handler (server_squoia.cc:300).
* Rows: more than eight readings shift the columns of `nec` (nec.cc:123); a
  word's tag is then one that nobody chose.  `nec` prints an empty sentence at
  the end (nec.cc:161).
* DeSR: lines that spell RESET_STATS or PRINT_STATS are not parsed
  (desr_server.cc:197); an exception of the parser ends the worker without an
  answer, and the client normally (394).
* Options of the pipeline: `-i plain -o senttok` is accepted and passes by its
  output format (translate.pm:260, there is no block senttok), as does every
  output format of the other direction: the run goes on to `nbest`.  An input
  format of the other direction leaves the document undefined, and the run
  dies.  `-d esde -i conll2xml` with `--file` reads standard input
  (translate.pm:944).  With `useMorphModel=1`, `-o words` is refused, `-i words`
  ranks what an older run left in tmp.morph, and `-i morph` from standard input
  ranks an empty file (translate.pm:1972).  The script compares an unset
  `useMorphModel` with 0, so a run without the option uses the word model, while
  the warning at translate.pm:1834 announces 1.
* Rules: with `--config` the lexica of the configuration win over the options,
  and one that is missing kills the run, although the message offers the option
  (translate.pm:691); the topics use the option only in a run that starts after
  svm (1790).  A run killed while it stores leaves a torn file.  A run without
  `--config` that gets further than the last one with it uses older rules, maybe
  of the other direction.
* Server start: a run that finds another's server still loading uses it at once
  and gets nothing (translate.pm:479); one whose servers are all dead, or
  identify languages, polls for ever (484).
* Lexical transfer: two alternatives with the same sense overwrite each other,
  a gap in the senses leaves a hole (squoia_xfer_lex.cc:542), which is offered as
  a `SYN` without a translation; if the senses of an entry begin after 1, the hole is its
  first alternative, and a node may be left with no translation of its own.
* Sentence output: a line that starts with "/" is read as an alternative, a
  punctuation mark "/" too (outputSentences.cpp:160, against 276); an opening
  parenthesis is spaced as a closing one (280, against 273); flags of one
  sentence reach into the next best one (218); the first word is left without
  capital and keeps its slash if no form was generated for it (397); an empty
  word prints the word before it (429); without `#EOS` the last sentence is lost.
* Look-up: an answer longer than one read leaves the client ahead by one
  (flookup_tcpClient.c:99); an empty line makes both sides wait (88); a word
  without result sends an uninitialised buffer (flookup_tcpServer.c:209);
  children are never reaped, so that fork fails in the end and the server exits
  (173).
* Spelling: `spellcheck_json` frees a literal when no word is correct (212), and
  its report is lost if that aborts it; `spellcheck_server` never replies; the
  plugin's `fmed` keeps the suggestions of earlier words (fmed.c:107).  An answer
  of `flookup` that comes in two writes puts the plugin out of step
  (Client.java:292), and a `flookup` that has died is not started again (289).
* Trees: "no more than one rule per head!", says the first line of
  de_interChunkOrder.rules, but lines 49 and 95 both fit an infinitive `VP` with
  `zu=yes`, and interchunkOrder.pm:31 applies every rule whose condition holds, in the
  order of a Perl hash: which of the two orders is printed depends on the hash.
  `OrderAsRuled` promises the order of the last one only.
  `dummyIndex` is never incremented: all children that no condition
  covers share the variable y0, in the order of a Perl hash (util.pm:228,
  against the comments on y1 to yn).  Clones of split words share a ref, and the
  output keys words by ord or ref (outputGermanMorph.pm:738): a rule may give a
  word the number of another, which is then not printed; hence the precondition
  `PlacedAlike` of `WordsPrinted`.

## 5. The proofs

TLAPS 1.4.5 checks all of them from nothing; no proof is left open.  The
assumptions are those that the modules name on their constants
(`ServerAssumption`, `MaltAssumption`, `PluginAssumption`, ...), which TLC
evaluates in the runs.

`AnalyzerServerProofs`, for every finite set of clients, every number of workers
and every backlog: the types, `SlotsFit`, `BoundedWorkers`,
`HandlerNeverBlocks`, `CapacityNeverGrows` and the refinement
`Spec => Pool!Spec`.  None of the invariants is inductive alone: that the slots
fit after a fork needs that the number of active workers grows by exactly one,
hence that a client is never in two places (`OnePlace`); that the handler finds a
zombie needs that every pending signal has one (`SignalsHaveZombies`).  `IInv`
is their conjunction; there is one lemma per part and one step per action.  For
the refinement, accepting moves a client from the head of the backlog to
`accepted`, which leaves the set of waiting clients unchanged.

*Induction.*  The induction theorems of the library take an operator, which none
of the provers can instantiate.  `SetInduction` of `SequenceLemmas` is stated
about a set instead: a set that has 0 and all successors has every natural
number, proved from the sizes of finite sets.  A recursive function is the
CHOOSE of a function that satisfies its equation; one builds such a function by
induction and shows that there is no other.  That gives the laws of `Only` and of
`FlattenSeq` (concatenation, one more element, types), and with them statements
about all that was ever sent or printed.

`AnalyzerSessionProofs`, for every sequence of files and every mode.
`OneInFlight`: the inductive `Turns` adds that the client writes only when both
directions are empty or its worker is gone.  `LinesConserved` and
`SectionsMatch`: what is printed of a file, what is in the answer on its way, in
the worker's buffer and in the message on its way are, in this order, the lines
of that file that the client has read.  `Place` says for each state of the client
what may be on its way.  A worker that exits before its client has analyzed a
document: `Document` says that it has not read a command to flush before, and
`Left` that its last answer completes what has to be printed of the document,
whatever the client sends later.

The same module, `FramingSpec => ImplementsChannel` for every set of messages
and every size of the read buffer.  While a message is on its way, what the
reader has of it, what is on the wire and what the kernel still holds are three
adjacent parts of the message and its NUL (`Parts`); a step moves one of the two
borders.  The reader's test, whether the last byte it got is NUL, is then the
test whether the second border is the end.  That no other message is among these
bytes rests on `InTurn`, which `TakingTurns` shows of the programs.

`AnalyzerServerProofs`, about `ServerConfig`: `NeededFilesKept`, `OptionsObeyed`
and `Runnable` for every command line and configuration file.  `FilesTraced`,
`OptionsTraced` and `Accepted` say, stage by stage, where the value of an option
comes from and which options have one; the rest is the order in which
`load_config` drops and switches on.

`MaltServerProofs`, for all clients, texts, buffer sizes and behaviours of the
parser.  `StaleTruncates`: `FlagCarried` follows the flag of an earlier client
from `EOFreached` into `last`; `OnePlace` excludes that sentences of an earlier
connection of the same client are counted.  `RepliesInOrder` and `CompleteReply`:
the sentences of a text are a recursive function of its lines (`Scan`), and the
invariant says how far the server has come in it: what the client has, what is
on its way to it and the sentence being read are what `Scan` makes of the lines
read so far (`Reading`), what the client gets is a prefix of its sentences
(`Prompt`), and all of them once the connection is closed, unless the flag or a
rejected sentence closed it (`Whole`, from `Ending`).

`AnalysisProofs`, about `DesrSession`: the types, `SlotsCounted` and `SlotLeft` for every set of
clients, texts and slots.  `SlotsCounted` counts workers, zombies, free slots and
the slot that the dispatcher holds together; `SlotLeft` is kept because a worker
that ends leaves a signal and a signal gives a slot back.  Both need that a
client without a connection has no worker (`NewUnlinked`).  `TextParsed`: for
each stage of a conversation, what is on both ways (`Stage`), and that the
worker holds the lines of the text that are no commands, up to the last that it
was sent (`Heard`).

`TranslationProofs`, about `RuleStorage`, for all configurations and command
lines: `ConfigLaterOptional`.  At the end of a run what it has used must still be
what is kept, so the invariant has that no file is read by two of its blocks
(`NounsOnce`, `Distinct`), that what a run with a configuration or rules has used
so far is kept (`KeptAsTold`), and what a run may still read (`RunTypes`).
`StorageAssumption` is what Getopt and `read_config` guarantee: options have
their names, formats are those of the table, a configuration has a direction, and
no file that the user writes is one that was torn by a killed run.

The same module, about `TranslatePipeline`, for any number of runs with any
options: `OutputIsTranslation`, `NeverDies`, `OlderTextOnlyForWords`.  The
exhaustive run covers one run of the script and a hundred pairs; the theorems
cover any number beside each other.  The invariant says for every step of every
block where the text is (`HasText`: in the document, in the file that the block
has stored, or still to be read), that it has gone through exactly the stages
behind it (`OnItsWay`, `Text`), and which runs may own a file.  It rests on two
lemmas about the tables: the stage that is entered next reads the format that
the last one made, and each adds itself to the way of the text.  `Path` is
therefore the filter of a recursive function.  `NamesAssumption` says that older
runs and nobody are not among the runs.  The first attempt at this proof failed
for a reason: two runs with supported options and different files were called
undisturbed also if a third, with options that are not supported, empties a
temporary file that it does not own and then dies (input conll2xml, direction
esde, output rdisamb, with `--file`).  `Undisturbed` now asks that the other runs
have supported options.

The same module, about `SentenceLattice`, for all words, cutoffs, transducers and
lengths of sentences: `LatticeComplete` and `PrintedAsExpected`.  The invariant
itself is short: while a sentence is read, the lattice is what its lines tell
(`Reading`), with the product of the alternatives of all words but the last.  The
rest is about operators.  `FilledTo` says of the rows for the last words that
there are as many as the product of their alternatives and that every choice of
alternatives is among them; `FilledStep` adds the word before, and `MatrixIs`
puts the certain words in, so that no row has a hole and no dummy is left.  Of the printers, the
state after a word is compared with what the neighbours of the word tell
(`FirstRight`, `AttachedRight`, `WordRight`): the flags `prev`, `prevPunc` and
`startedWithPunc` tell the same as the word before, as long as the row is
`Regular`.  Such a row leaves flags that do no harm to the next best sentence
(`SentencesRight`), which starts with them.  `LatticeAssumption` says
that words are records of strings and that cutoffs are natural numbers.

`SpellingProofs`, about `LookupSession`, for all clients, lines, transducers and
sizes of a read: the types with one answer for each line, and `AnswersInStep`.
The client writes the next line while the rest of an answer may still be on its
way, so `Dialog` says for each connection what is on both ways at each stage
(`Alternates`), that nothing is left over when a line is written as long as all
lines were ordinary (`Synced`), and that what has been read, what can be read and what the
server still owes are together the answers to what was asked (`Flowing`).

The same module, about `SpellPlugin`: the types and `VerdictsOwn` for all
documents and all words that flookup knows.  `Ahead` says that the forms still to
be looked up are a tail of the word's forms of which none before is known, `Own`
that all that is in the pipes is of the present form, `Leftovers` that what an
answer in two parts leaves is bounded by their number.

The same module, about `SpellPrograms`: `ReportComplete` for all texts,
transducers and limits.  `Behind` says which words have been read; what is
printed and what is held back are then filters of those, entry by entry, with
the comma where it belongs.  For the plugin's `fmed` an entry only has to end in
its suggestions, because what stands before them is not initialized.

`AnalysisProofs`, about `CrfRows`: `WordsTagged` for all texts, readings and
numbers of columns.  Most
of it is about one word: whatever its readings and however many, the field that
`nec` reads last is the tag that `TagOf` says, counted column by column
(`RowIs`).  The invariant is then about their order: the rows on their way and
those of the sentences still to be printed are together what is missing of the
text (`UnderWay`), and the rows read so far of the next sentence are tagged.
`RowsAssumption` says that a word has a reading and a row at least one pair.

`TransferProofs`, for all documents, words, chunks, dictionaries and numbers of
tags: `ValidatesInput` and `MirrorsSource`.  The invariant pairs the stack of
calls with the elements that are open in the source.  As long as each procedure
has its own element (`Paired`, `InStep`) the document is valid so far, and the
next tag is expected by the innermost procedure exactly if the document stays
valid (`Enters`, `Leaves`, `Rejects`).  `procSENTENCE` and the others do not ask
whether their element is empty: once one was entered there are more procedures
than open elements, and the document never is valid again (`Reading`).  When the
last element closes, a procedure is then left over, so that the program only
ends by itself in step (`Finishes`).  While in step, what is printed and the tree are
together the source unfolded (`Mirrored`), and what is printed is in any case a
beginning of it (`Begins`), because a sentence can only be left in step
(`LeavesSentence`).

The same module: `TranslationsKept`, for all words and dictionaries.  The
alternatives are ordered by a recursive function, round by round.  `PlacedUpTo`
says of each round that every alternative placed so far is somewhere, that each
is where its sense says, one further back once the front is taken (`Rank`), and
that an alternative without a sense is the first one, unless all are without; a
round of a regular entry therefore only overwrites holes.  The rest is what
`getsyn`, `getsyn2lems` and `lexical_selection` offer for one lemma and for two
(`OfferedIs`).  Holes are part of the theorem: after the last round every
alternative is in its place (`AllPlaced`), so a hole is left exactly if the senses
of the entry leave out a number (`HoleIsGap`), and the first alternative, which the node
itself shows, is one only if all senses are above 1 (`FirstIsHole`).  `LexicalAssumption` says that senses are natural numbers and that
no alternative is an empty string, as that of a hole is.

The same module, about `ChunkTree`: `WordsPrinted`, for all trees, rules,
variables and bounds.  The invariant is `TreeInv`.  Its first part is that the
children of all elements are one tree (`Tree`): each element but the sentence has
one parent, and there are ranks, numbers that grow from children to parents, so
that no chunk hangs below itself.  A transformation is described by what it does
to the sets of children (`Attached`, `Cloned`, `Chunked`, `Moved`), and for each
there are ranks again: joining the top chunks puts the first one above the
others, a word that is raised keeps its rank with its new chunks between it and the
old one, and a chunk that moves to its grandparent needs no new ones.  A `Walk`
gets to everything below an element, and nowhere twice, because its recursion
ends with the ranks (`WalkIs`, `WalkDistinct`).  The other parts follow the
stages: no clone has children and no word to be split has clones yet (`CloneInv`,
`TodoInv`); the chunks still to be moved keep their grandparents (`TodoInv`); in
each family of chunks no two have one place, which a rule keeps since
`mergeArrays` puts back every variable that it takes out, also under a rule with a
label (`MergeLists`, `PlacesInv`), and so does every further rule for the same chunk; once the chunks are in a row no two have one number (`OrdInv`); and
words that only one rule has placed have different numbers if their refs differ
(`OrderedInv`).  What is keyed by these numbers then loses nothing (`InOrderLists`,
`KeysDiffer`).

Only model-checked:

* all liveness (`ClientsAccepted`, `SessionEnds`, `WorkerFollows`,
  `MessagesArrive`, `RunsGetAnswers`, `SessionsEnd`, `ClientsEnd`,
  `WordsJudged`), which is out of this prover's reach;
* `OrderAsRuled`: that what is printed last is in one piece and in the order of
  the last rules is a statement about nested intervals of places, after rules that
  themselves move one variable past others; TLC checks it within the bounds of the
  run `tree`.

## 6. Not modelled, and the plan

Left out:

* *Rule application* (`semanticDisamb.pm`, `morphDisamb.pm`,
  `prepositionDisamb.pm`, the two transfer modules, conditions in `util.pm`):
  conditions become XPath expressions and patterns.  What they do is what the
  strings say; in `ChunkTree` and `RuleStorage` which of them applies is free.
* *Format conversion* (`crf2conll.pm`, most of `conll2xml.pm`) and the
  *linguistic modules* for Quechua and German (coreference, relative clauses,
  verb forms, verb-preposition and lexical disambiguation, `xml2morph.pm`): tag
  tables and decisions node by node, on one sentence at a time and without
  state of their own.  `conll2xml.pm` is modelled where it joins top chunks.
* Of the spell checker plugin, the registration with LibreOffice and the
  dialogs of `Main.java`.
* *Offline tools and data*: training and evaluation, treebanks, grammars,
  dictionaries, the web interface, and code that is no longer built
  (`FreeLingModules/deprecated`: an earlier analyzer server, `tagFLdesr.cc`,
  `output_squoia.cc`, an earlier `config.h`).
* FreeLing, wapiti, foma, kenlm, MaltParser and DeSR are libraries; they appear
  as free choices or as external definitions.

Next, in this order:

1. A composition of the parser server with the probe of `translate.pm` and two
   pipelines, so that the flag that the probe leaves is seen in a translation.
2. The alternatives of `alternativeSentences.pm`.
3. Proofs: the order of the chunks that are printed (`OrderAsRuled`).
