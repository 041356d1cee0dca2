---------------------------- MODULE SpellingProofs -----------------------------
(***************************************************************************)
(* Proofs about spell checking.                                            *)
(*                                                                         *)
(* The look-up servers, for all clients, lines, transducers and sizes of a *)
(* read: a client gets what was answered, in order and without a gap, and  *)
(* each line its own answer as long as every answer has fitted one read.   *)
(* Neither is inductive: the client writes while the rest of an answer may *)
(* still be on its way, so the invariant says, for each connection, what   *)
(* is on both ways at each of its stages, and adds up what has been read,  *)
(* what can be read and what the server still owes to what was asked.      *)
(*                                                                         *)
(* The plugin of the office suite, for all documents, whatever flookup     *)
(* knows and however often a document is checked: between two look-ups no  *)
(* more is left in the pipes than there were answers in two parts, and as  *)
(* long as there were none a word is judged by its own answers.  Neither   *)
(* is inductive: what the plugin says of a word depends on which of its    *)
(* forms are behind it and on where the answer to the present one is.      *)
(*                                                                         *)
(* The programs that look up a text, for all texts, transducers and limits *)
(* of the search: one that comes to its end has answered every word once.  *)
(* The invariant says which words are behind it, and that what is printed  *)
(* or held back is about those.                                            *)
(***************************************************************************)
EXTENDS LookupSession, SpellPlugin, SpellPrograms, SequenceLemmas

-------------------------------------------------------------------------------
(***************************************************************************)
(* The look-up servers and their clients.                                  *)
(***************************************************************************)
Found == Words \X Int

Ordered(questions) == \A k \in 1 .. Len(questions) : Ordinary(questions[k])
Calm(questions)    == \A k \in 1 .. Len(questions) - 1 : Ordinary(questions[k])
Answers(questions) == FlattenSeq([k \in 1 .. Len(questions) |-> Answer(questions[k][1])])
Owed(pieces)   == IF pieces = <<>> THEN <<>> ELSE Answer(pieces[1])

\* What the client has read or can read, and that it is the beginning of something.
Told(c) == Cat(FlattenSeq(printed[c]), toClient[c])
Begins(s, t) == \E u \in Seq(Found) : t = Cat(s, u)

LookupTypes ==
    /\ program \in {"flookup", "spell"}
    /\ server \in {"down", "listening", "exited"}
    /\ procs \in Nat
    /\ child \in [Clients -> {"none", "running", "zombie"}]
    /\ client \in [Clients -> {"new", "refused", "writing", "reading", "done", "failed"}]
    /\ input \in [Clients -> Seq(Seq(Words))]
    /\ toServer \in [Clients -> Seq(Words)]
    /\ toClient \in [Clients -> Seq(Found)]
    /\ previous \in [Clients -> Seq(Found)]
    /\ asked \in [Clients -> Seq(Seq(Words))]
    /\ printed \in [Clients -> Seq(Seq(Found))]

\* Processes are counted, and never waited for.
Counted == served = Cardinality(Processes) /\ served <= procs

\* One answer is read for each line.
Alternates(c) ==
    /\ client[c] \in {"new", "refused"} =>
        child[c] = "none" /\ asked[c] = <<>> /\ printed[c] = <<>> /\ toServer[c] = <<>>
    /\ child[c] = "none" => toClient[c] = <<>>
    /\ client[c] = "reading" => Len(asked[c]) = Len(printed[c]) + 1
    /\ client[c] \in {"writing", "done"} => Len(asked[c]) = Len(printed[c])
    /\ Len(printed[c]) <= Len(asked[c])

\* While all lines have been ordinary nothing is left over when the next one is written.
Synced(c) ==
    Ordered(asked[c]) =>
        /\ client[c] \in {"new", "writing"} => toClient[c] = <<>> /\ (toServer[c] = <<>> \/ Gone(c))
        /\ client[c] = "reading" =>
            \/ Gone(c) /\ toClient[c] = <<>>
            \/ ~Gone(c) /\ toServer[c] = asked[c][Len(asked[c])] /\ toClient[c] = <<>>
            \/ toServer[c] = <<>> /\ toClient[c] = Answer(asked[c][Len(asked[c])][1])

\* While no line has run into the one before it, what is read, what can be read and what
\* is owed are the answers; and if only the last line is not ordinary, none is written
\* before it has been heard.
Flowing(c) ==
    Separate(asked[c]) =>
        \/ Gone(c) /\ Begins(Told(c), Answers(asked[c]))
        \/ /\ ~Gone(c)
           /\ Cat(Told(c), Owed(toServer[c])) = Answers(asked[c])
           /\ Len(toServer[c]) <= 1
           /\ toServer[c] # <<>> => Answer(toServer[c][1]) # <<>>
           /\ Calm(asked[c]) => /\ client[c] = "writing" => toServer[c] = <<>>
                                /\ client[c] = "reading" => toServer[c] = <<>> \/ toClient[c] = <<>>

\* What has been printed is right, whatever has been written since.
Settled(c) ==
    \A k \in 1 .. Len(printed[c]) :
        (\A j \in 1 .. k : Ordinary(asked[c][j])) /\ printed[c][k] # <<>>
            => printed[c][k] = Answer(asked[c][k][1])

Kept(c) ==
    LET questions == SubSeq(asked[c], 1, Len(printed[c]))
    IN  Separate(questions) => Begins(FlattenSeq(printed[c]), Answers(questions))

Dialog(c) == Alternates(c) /\ Synced(c) /\ Flowing(c) /\ Settled(c) /\ Kept(c)

LookupInv == LookupTypes /\ Counted /\ \A c \in Clients : Dialog(c)

\* An answer is a sequence of results, whatever the transducers are.
LEMMA WordAnswers ==
    ASSUME NEW w \in Words
    PROVE  /\ ChainResults(w) \in Seq(Found)
           /\ Correct(w) \in Seq(Found) /\ Hopeless(w) \in Seq(Found)
           /\ Med[w] \in Nat
           /\ \A n \in Nat : /\ Results(w, n) \in Seq(Found)
                             /\ Suggestions(w, n) \in Seq(Found)
                             /\ SpellAnswer(w, n) \in Seq(Found)
<1>1. ASSUME NEW n \in Nat PROVE Results(w, n) \in Seq(Found)
  BY DEF Results, Found
<1>2. ChainResults(w) \in Seq(Found)
  <2> DEFINE I == {i \in 1 .. Len(Nets) : Nets[i][w] > 0}
             chosen == SelectInSeq(Nets, LAMBDA net : net[w] > 0)
  <2>1. chosen = IF I # {} THEN CHOOSE m \in I : \A k \in I : m <= k ELSE 0
    BY DEF SelectInSeq, Min
  <2>2. chosen = 0 \/ chosen \in I
    <3>1. Len(Nets) \in Nat
      BY WordsAssumption, LenProperties DEF WordsAssumption
    <3>2. I \in SUBSET Nat
      BY <3>1
    <3> HIDE DEF I, chosen
    <3>3. I # {} => \E m \in I : \A k \in I : m <= k
      BY <3>2, LeastNumber
    <3>4. QED
      BY <2>1, <3>3
  <2>3. chosen \in I => Nets[chosen][w] \in Nat
    BY WordsAssumption, ElementOfSeq DEF WordsAssumption
  <2>4. ChainResults(w) = IF chosen = 0 THEN <<>> ELSE Results(w, Nets[chosen][w])
    BY DEF ChainResults
  <2> HIDE DEF chosen
  <2>5. QED
    BY <1>1, <2>2, <2>3, <2>4, EmptySeq
<1>3. Correct(w) \in Seq(Found) /\ Hopeless(w) \in Seq(Found)
  BY DEF Correct, Hopeless, Found
<1>4. Med[w] \in Nat
  BY WordsAssumption DEF WordsAssumption
<1>5. \A n \in Nat : Suggestions(w, n) \in Seq(Found)
  BY <1>1, <1>2, <1>3, <1>4 DEF Suggestions
<1>6. \A n \in Nat : SpellAnswer(w, n) \in Seq(Found)
  BY <1>3, <1>5 DEF SpellAnswer
<1>7. QED
  BY <1>1, <1>2, <1>3, <1>4, <1>5, <1>6

\* An answer of a server is one, too.
LEMMA AnswerType ==
    ASSUME LookupTypes, NEW w \in Words
    PROVE  Answer(w) \in Seq(Found)
<1>1. MedLimit \in Nat
  BY LookupAssumption DEF LookupAssumption
<1>2. QED
  BY <1>1, WordAnswers DEF Answer, CheckAnswer, LookupAnswer

-------------------------------------------------------------------------------
LEMMA LookupInit == Init => LookupInv
<1> SUFFICES ASSUME Init PROVE LookupInv
  OBVIOUS
<1>1. PICK which \in {"flookup", "spell"}, n \in 1 .. MaxProcs, questions \in Inputs : InitWith(which, n, questions)
  BY DEF Init
<1> USE LookupAssumption DEF LookupAssumption, InitWith
<1>2. Garbage \in Seq(Found)
  BY DEF Garbage, Found
<1>3. LookupTypes
  BY <1>1, <1>2, EmptySeq DEF LookupTypes
<1>4. Counted
  <2>1. Processes = {} /\ served = 0
    BY <1>1 DEF Processes
  <2>2. QED
    BY <2>1, <1>3, FS_EmptySet DEF Counted, LookupTypes
<1>5. ASSUME NEW c \in Clients PROVE Dialog(c)
  <2>1. /\ client[c] = "new" /\ child[c] = "none" /\ asked[c] = <<>> /\ printed[c] = <<>>
        /\ toServer[c] = <<>> /\ toClient[c] = <<>>
    BY <1>1
  <2>2. Len(<<>>) = 0 /\ 1 .. 0 = {}
    BY EmptySeq
  <2>3. ~Gone(c)
    BY <1>1 DEF Gone
  <2>4. FlattenSeq(<<>>) = <<>> /\ Cat(<<>>, <<>>) = <<>>
    BY FlattenAppend, CatLaws
  <2>5. Answers(<<>>) = <<>>
    <3>1. [k \in 1 .. 0 |-> Answer(<<>>[k][1])] = <<>>
      OBVIOUS
    <3>2. QED
      BY <2>2, <2>4, <3>1 DEF Answers
  <2>6. Alternates(c) /\ Synced(c) /\ Settled(c)
    BY <2>1, <2>2 DEF Alternates, Synced, Settled
  <2>7. Flowing(c)
    BY <2>1, <2>2, <2>3, <2>4, <2>5 DEF Flowing, Told, Owed
  <2>8. Kept(c)
    <3>1. SubSeq(<<>>, 1, 0) = <<>>
      BY SubSeqEmpty, EmptySeq
    <3>2. Begins(<<>>, <<>>)
      BY <2>4, EmptySeq DEF Begins
    <3>3. QED
      BY <2>1, <2>2, <2>4, <2>5, <3>1, <3>2 DEF Kept
  <2>9. QED
    BY <2>6, <2>7, <2>8 DEF Dialog
<1>6. QED
  BY <1>3, <1>4, <1>5 DEF LookupInv

-------------------------------------------------------------------------------
\* What a client reads is the beginning of what is there, and not nothing.
ReadSome(n, c) ==
    /\ n \in 1 .. Len(toClient[c])
    /\ n = Len(toClient[c]) \/ n = ReadSize
    /\ Len(toClient[c]) <= ReadSize => n = Len(toClient[c])
    /\ printed' = [printed EXCEPT ![c] = Append(printed[c], SubSeq(toClient[c], 1, n))]
    /\ toClient' = [toClient EXCEPT ![c] = SubSeq(toClient[c], n + 1, Len(toClient[c]))]

LEMMA ReadAnswerIs ==
    ASSUME LookupTypes, NEW c \in Clients, ReadAnswer(c)
    PROVE  /\ client[c] = "reading" /\ toClient[c] # <<>> /\ client' = [client EXCEPT ![c] = "writing"]
           /\ \E n \in Nat : ReadSome(n, c)
<1> DEFINE n == IF Len(toClient[c]) < ReadSize THEN Len(toClient[c]) ELSE ReadSize
<1>1. Len(toClient[c]) \in Nat \ {0} /\ ReadSize \in Nat \ {0}
  BY EmptySeq, LenProperties, LookupAssumption DEF ReadAnswer, LookupTypes, LookupAssumption
<1>2. n \in Nat /\ ReadSome(n, c)
  BY <1>1 DEF ReadAnswer, ReadSome
<1>3. QED
  BY <1>2 DEF ReadAnswer

\* One received piece, or several that the server takes for one.
Answered(w, n, o, c) ==
    /\ n \in 1 .. Len(toServer[c]) /\ w \in Words /\ o \in Seq(Found)
    /\ n = 1 => w = toServer[c][1]
    /\ Answer(w) # <<>> => o = Answer(w)
    /\ previous' = [previous EXCEPT ![c] = o]
    /\ toClient' = [toClient EXCEPT ![c] = Cat(toClient[c], o)]
    /\ toServer' = [toServer EXCEPT ![c] = SubSeq(toServer[c], n + 1, Len(toServer[c]))]

LEMMA ChildAnswersIs ==
    ASSUME LookupTypes, NEW c \in Clients, ChildAnswers(c)
    PROVE  \E w \in Words, n \in Nat, o \in Seq(Found) : Answered(w, n, o, c)
<1>1. Len(toServer[c]) \in Nat
  BY LenProperties DEF LookupTypes
<1>2. PICK r \in Received(c) :
        /\ \E outstr \in IF Answer(r[1]) # <<>> THEN {Answer(r[1])} ELSE Unset(c) :
              /\ previous' = [previous EXCEPT ![c] = outstr]
              /\ toClient' = [toClient EXCEPT ![c] = Cat(toClient[c], outstr)]
        /\ toServer' = [toServer EXCEPT ![c] = SubSeq(toServer[c], r[2] + 1, Len(toServer[c]))]
  BY DEF ChildAnswers, Cat
<1>3. PICK outstr \in IF Answer(r[1]) # <<>> THEN {Answer(r[1])} ELSE Unset(c) :
        /\ previous' = [previous EXCEPT ![c] = outstr]
        /\ toClient' = [toClient EXCEPT ![c] = Cat(toClient[c], outstr)]
  BY <1>2
<1>4. r[1] \in Words /\ r[2] \in 1 .. Len(toServer[c]) /\ (r[2] = 1 => r[1] = toServer[c][1])
  BY <1>1 DEF Received
<1>5. Garbage \in Seq(Found) /\ <<>> \in Seq(Found)
  BY EmptySeq, LookupAssumption DEF Garbage, Found, LookupAssumption
<1>6. outstr \in Seq(Found) /\ (Answer(r[1]) # <<>> => outstr = Answer(r[1]))
  <2>1. Answer(r[1]) \in Seq(Found)
    BY <1>4, AnswerType
  <2>2. previous[c] \in Seq(Found)
    BY DEF LookupTypes
  <2>3. QED
    BY <1>3, <1>5, <2>1, <2>2 DEF Unset
<1>7. r[2] \in Nat
  BY <1>1, <1>4
<1>8. Answered(r[1], r[2], outstr, c)
  BY Zenon, <1>2, <1>3, <1>4, <1>6 DEF Answered
<1>9. QED
  BY <1>4, <1>6, <1>7, <1>8

LEMMA LookupTypesStep == LookupTypes /\ [Next]_vars => LookupTypes'
<1> SUFFICES ASSUME LookupTypes, [Next]_vars PROVE LookupTypes'
  OBVIOUS
<1> USE DEF LookupTypes, conn
<1>1. ASSUME NEW fault, StartFlookup(fault) \/ StartSpell(fault) PROVE LookupTypes'
  BY <1>1 DEF StartFlookup, StartSpell
<1>2. ASSUME NEW c \in Clients, Connect(c) \/ WriteFails(c) \/ Finish(c) \/ AcceptClient(c) \/ ChildEnds(c)
      PROVE  LookupTypes'
  BY <1>2 DEF Connect, WriteFails, Finish, AcceptClient, ChildEnds
<1>3. ASSUME NEW c \in Clients, ChildCrashes(c) PROVE LookupTypes'
  BY <1>3, EmptySeq DEF ChildCrashes
<1>4. ASSUME NEW c \in Clients, WriteLine(c) PROVE LookupTypes'
  <2> DEFINE question == Head(input[c])
             rest == Tail(input[c])
  <2>1. input[c] \in Seq(Seq(Words)) /\ input[c] # <<>>
    BY <1>4 DEF WriteLine
  <2>2. question \in Seq(Words) /\ rest \in Seq(Seq(Words))
    BY <2>1, HeadTailProperties
  <2>3. /\ asked' = [asked EXCEPT ![c] = Append(asked[c], question)]
        /\ input' = [input EXCEPT ![c] = rest]
        /\ toServer' = [toServer EXCEPT ![c] = IF Gone(c) THEN toServer[c] ELSE Cat(toServer[c], question)]
        /\ client' = [client EXCEPT ![c] = "reading"]
        /\ UNCHANGED <<program, server, procs, child, toClient, previous, printed>>
    BY <1>4 DEF WriteLine, Cat
  <2> HIDE DEF question, rest
  <2>4. Append(asked[c], question) \in Seq(Seq(Words)) /\ Cat(toServer[c], question) \in Seq(Words)
    BY <2>2, AppendProperties, CatLaws
  <2>5. QED
    BY <2>2, <2>3, <2>4
<1>5. ASSUME NEW c \in Clients, ReadAnswer(c) PROVE LookupTypes'
  <2>1. PICK n \in Nat : ReadSome(n, c)
    BY <1>5, ReadAnswerIs
  <2> DEFINE p == SubSeq(toClient[c], 1, n)
             q == SubSeq(toClient[c], n + 1, Len(toClient[c]))
  <2>2. p \in Seq(Found) /\ q \in Seq(Found)
    <3>1. n \in 0 .. Len(toClient[c]) /\ toClient[c] \in Seq(Found)
      BY <2>1, LenProperties DEF ReadSome
    <3>2. QED
      BY <3>1, SplitAt
  <2>3. /\ printed' = [printed EXCEPT ![c] = Append(printed[c], p)] /\ toClient' = [toClient EXCEPT ![c] = q]
        /\ client' = [client EXCEPT ![c] = "writing"]
        /\ UNCHANGED <<program, server, procs, child, input, toServer, previous, asked>>
    BY <1>5, <2>1 DEF ReadSome, ReadAnswer
  <2> HIDE DEF p, q
  <2>4. Append(printed[c], p) \in Seq(Seq(Found))
    BY <2>2, AppendProperties
  <2>5. QED
    BY <2>2, <2>3, <2>4
<1>6. ASSUME NEW c \in Clients, ReadNothing(c) PROVE LookupTypes'
  <2>1. Append(printed[c], <<>>) \in Seq(Seq(Found))
    BY EmptySeq, AppendProperties
  <2>2. QED
    BY <1>6, <2>1 DEF ReadNothing
<1>7. ASSUME NEW c \in Clients, ChildAnswers(c) PROVE LookupTypes'
  <2>1. PICK w \in Words, n \in Nat, o \in Seq(Found) : Answered(w, n, o, c)
    BY <1>7, ChildAnswersIs
  <2> DEFINE q == SubSeq(toServer[c], n + 1, Len(toServer[c]))
  <2>2. q \in Seq(Words)
    <3>1. n \in 0 .. Len(toServer[c]) /\ toServer[c] \in Seq(Words)
      BY <2>1, LenProperties DEF Answered
    <3>2. QED
      BY <3>1, SplitAt
  <2>3. /\ previous' = [previous EXCEPT ![c] = o] /\ toClient' = [toClient EXCEPT ![c] = Cat(toClient[c], o)]
        /\ toServer' = [toServer EXCEPT ![c] = q]
        /\ UNCHANGED <<program, server, procs, client, child, input, asked, printed>>
    BY <1>7, <2>1 DEF Answered, ChildAnswers
  <2> HIDE DEF q
  <2>4. Cat(toClient[c], o) \in Seq(Found)
    BY CatLaws
  <2>5. QED
    BY <2>2, <2>3, <2>4
<1>8. CASE UNCHANGED vars
  BY <1>8 DEF vars
<1>9. QED
  BY <1>1, <1>2, <1>3, <1>4, <1>5, <1>6, <1>7, <1>8 DEF Next, ClientStep, ServerStep

LEMMA CountedStep == LookupTypes /\ Counted /\ [Next]_vars => Counted'
<1> SUFFICES ASSUME LookupTypes, Counted, [Next]_vars PROVE Counted'
  OBVIOUS
<1>1. IsFiniteSet(Processes) /\ Cardinality(Processes) \in Nat
  BY LookupAssumption, FS_Subset, FS_CardinalityType DEF Processes, LookupAssumption
<1>2. ASSUME NEW c \in Clients, AcceptClient(c) PROVE Counted'
  <2>1. CASE Cardinality(Processes) < procs
    <3>1. c \notin Processes /\ Processes' = Processes \cup {c}
      BY <1>2, <2>1 DEF AcceptClient, Processes, LookupTypes
    <3>2. Cardinality(Processes') = Cardinality(Processes) + 1
      BY <1>1, <3>1, FS_AddElement
    <3>3. served' = served + 1 /\ procs' = procs
      BY <1>2, <2>1 DEF AcceptClient
    <3>4. QED
      BY <1>1, <2>1, <3>2, <3>3 DEF Counted, LookupTypes
  <2>2. CASE ~(Cardinality(Processes) < procs)
    <3>1. Processes' = Processes /\ served' = served /\ procs' = procs
      BY <1>2, <2>2 DEF AcceptClient, Processes
    <3>2. QED
      BY <3>1 DEF Counted
  <2>3. QED
    BY <2>1, <2>2
<1>3. ASSUME NEW c \in Clients, ChildCrashes(c) \/ ChildEnds(c) PROVE Counted'
  <2>1. Processes' = Processes /\ served' = served /\ procs' = procs
    BY <1>3 DEF ChildCrashes, ChildEnds, Processes, LookupTypes
  <2>2. QED
    BY <2>1 DEF Counted
<1>4. ASSUME UNCHANGED <<child, served, procs>> PROVE Counted'
  BY <1>4 DEF Counted, Processes
<1>5. ASSUME NEW fault, StartFlookup(fault) \/ StartSpell(fault) PROVE Counted'
  BY <1>4, <1>5 DEF StartFlookup, StartSpell
<1>6. ASSUME NEW c \in Clients, ClientStep(c) \/ ChildAnswers(c) PROVE Counted'
  BY <1>4, <1>6 DEF ClientStep, Connect, WriteLine, WriteFails, ReadAnswer, ReadNothing, Finish, ChildAnswers
<1>7. CASE UNCHANGED vars
  BY <1>4, <1>7 DEF vars
<1>8. QED
  BY <1>2, <1>3, <1>5, <1>6, <1>7 DEF Next, ServerStep

-------------------------------------------------------------------------------
\* The answers do not depend on the state, but for the program that gives them.
LEMMA SameAnswers ==
    ASSUME program' = program
    PROVE  /\ \A w : Answer(w)' = Answer(w)
           /\ \A l : Ordinary(l)' <=> Ordinary(l)
           /\ \A s : Separate(s)' <=> Separate(s)
           /\ \A s : Ordered(s)' <=> Ordered(s)
           /\ \A s : Calm(s)' <=> Calm(s)
           /\ \A s : Answers(s)' = Answers(s)
           /\ \A s : Owed(s)' = Owed(s)
<1>1. \A w : Answer(w)' = Answer(w)
  BY DEF Answer
<1>2. \A l : Ordinary(l)' <=> Ordinary(l)
  BY <1>1 DEF Ordinary
<1>3. \A s : Separate(s)' <=> Separate(s)
  BY <1>1, <1>2 DEF Separate
<1>4. \A s : (Ordered(s)' <=> Ordered(s)) /\ (Calm(s)' <=> Calm(s))
  BY <1>2 DEF Ordered, Calm
<1>5. \A s : Answers(s)' = Answers(s)
  BY <1>1 DEF Answers
<1>6. \A s : Owed(s)' = Owed(s)
  BY <1>1 DEF Owed
<1>7. QED
  BY <1>1, <1>2, <1>3, <1>4, <1>5, <1>6

\* One more line.
LEMMA OneMoreLine ==
    ASSUME LookupTypes, NEW s \in Seq(Seq(Words)), NEW l \in Seq(Words)
    PROVE  /\ Len(Append(s, l)) = Len(s) + 1 /\ Append(s, l)[Len(s) + 1] = l
           /\ \A k \in 1 .. Len(s) : Append(s, l)[k] = s[k]
           /\ Ordered(Append(s, l)) <=> Ordered(s) /\ Ordinary(l)
           /\ Calm(Append(s, l)) <=> Ordered(s)
           /\ Separate(Append(s, l)) => /\ Separate(s) /\ Calm(s)
                                        /\ Len(l) = 1 /\ Answer(l[1]) # <<>> /\ l[1] \in Words
<1> DEFINE t == Append(s, l)
<1>1. /\ Len(s) \in Nat /\ Len(t) = Len(s) + 1 /\ t[Len(s) + 1] = l
      /\ \A k \in 1 .. Len(s) : t[k] = s[k]
      /\ DOMAIN s = 1 .. Len(s) /\ DOMAIN t = 1 .. Len(t)
  BY AppendProperties, LenProperties
<1> HIDE DEF t
<1>2. \A k \in 1 .. Len(t) : k \in 1 .. Len(s) \/ k = Len(s) + 1
  BY <1>1
<1>3. \A k \in 1 .. Len(s) : k \in 1 .. Len(t)
  BY <1>1
<1>4. Len(s) + 1 \in 1 .. Len(t)
  BY <1>1
<1>5. Ordered(t) <=> Ordered(s) /\ Ordinary(l)
  BY <1>1, <1>2, <1>3, <1>4 DEF Ordered
<1>6. Calm(t) <=> Ordered(s)
  <2>1. Len(t) - 1 = Len(s)
    BY <1>1
  <2>2. QED
    BY <1>1, <2>1 DEF Calm, Ordered
<1>7. ASSUME Separate(t)
      PROVE  Separate(s) /\ Calm(s) /\ Len(l) = 1 /\ Answer(l[1]) # <<>> /\ l[1] \in Words
  <2>1. \A k \in 1 .. Len(s) - 1 : k \in 1 .. Len(t) - 2 /\ k \in 1 .. Len(s)
    BY <1>1
  <2>2. \A k \in 1 .. Len(s) - 1 : Ordinary(s[k])
    BY <1>1, <1>7, <2>1 DEF Separate
  <2>3. \A k \in 1 .. Len(s) - 2 : k \in 1 .. Len(s) - 1
    BY <1>1
  <2>4. \A k \in 1 .. Len(s) : Len(s[k]) = 1 /\ Answer(s[k][1]) # <<>>
    BY <1>1, <1>3, <1>7 DEF Separate
  <2>5. Len(l) = 1 /\ Answer(l[1]) # <<>>
    BY <1>1, <1>4, <1>7 DEF Separate
  <2>6. l[1] \in Words
    <3>1. 1 \in 1 .. Len(l)
      BY <2>5
    <3>2. QED
      BY <3>1, ElementOfSeq
  <2>7. QED
    BY <1>1, <2>2, <2>3, <2>4, <2>5, <2>6 DEF Separate, Calm
<1>8. QED
  BY <1>1, <1>5, <1>6, <1>7 DEF t

\* Answers to lines of one piece each.
LEMMA AnswersAppend ==
    ASSUME LookupTypes, NEW s \in Seq(Seq(Words)), \A k \in 1 .. Len(s) : Len(s[k]) = 1,
           NEW l \in Seq(Words), Len(l) = 1
    PROVE  /\ Answers(s) \in Seq(Found)
           /\ Answers(Append(s, l)) = Cat(Answers(s), Answer(l[1]))
<1> DEFINE t == Append(s, l)
           a == [k \in 1 .. Len(s) |-> Answer(s[k][1])]
           b == [k \in 1 .. Len(t) |-> Answer(t[k][1])]
           x == Answer(l[1])
<1>1. /\ Len(s) \in Nat /\ Len(t) = Len(s) + 1 /\ t[Len(s) + 1] = l
      /\ \A k \in 1 .. Len(s) : t[k] = s[k]
  BY AppendProperties, LenProperties
<1>2. \A k \in 1 .. Len(s) : s[k][1] \in Words
  <2> SUFFICES ASSUME NEW k \in 1 .. Len(s) PROVE s[k][1] \in Words
    OBVIOUS
  <2>1. s[k] \in Seq(Words) /\ Len(s[k]) = 1
    BY ElementOfSeq
  <2>2. QED
    BY <2>1, ElementOfSeq
<1>3. x \in Seq(Found)
  <2>1. 1 \in 1 .. Len(l)
    OBVIOUS
  <2>2. l[1] \in Words
    BY <2>1, ElementOfSeq
  <2>3. QED
    BY <2>2, AnswerType
<1>4. \A k \in 1 .. Len(s) : Answer(s[k][1]) \in Seq(Found)
  BY <1>2, AnswerType
<1>5. a \in Seq(Seq(Found)) /\ Len(a) = Len(s)
  BY <1>1, <1>4
<1>6. /\ Append(a, x) \in Seq(Seq(Found)) /\ Len(Append(a, x)) = Len(s) + 1
      /\ Append(a, x)[Len(s) + 1] = x
      /\ \A k \in 1 .. Len(s) : Append(a, x)[k] = a[k]
  <2> HIDE DEF a, x
  <2> QED BY <1>3, <1>5, AppendProperties
<1>7. b = Append(a, x)
  <2>1. b \in Seq(Seq(Found)) /\ Len(b) = Len(s) + 1
    <3>1. \A k \in 1 .. Len(t) : k \in 1 .. Len(s) \/ k = Len(s) + 1
      BY <1>1
    <3>2. \A k \in 1 .. Len(t) : Answer(t[k][1]) \in Seq(Found)
      BY <1>1, <1>3, <1>4, <3>1
    <3> HIDE DEF t
    <3>3. QED
      BY <1>1, <3>2
  <2>2. ASSUME NEW k \in 1 .. Len(s) + 1 PROVE b[k] = Append(a, x)[k]
    <3>1. CASE k \in 1 .. Len(s)
      <4>1. b[k] = Answer(s[k][1]) /\ a[k] = Answer(s[k][1])
        BY <1>1, <3>1
      <4>2. QED
        BY <1>6, <3>1, <4>1
    <3>2. CASE k = Len(s) + 1
      <4>1. b[k] = x
        BY <1>1, <3>2
      <4>2. QED
        BY <1>6, <3>2, <4>1
    <3>3. QED
      BY <1>1, <3>1, <3>2
  <2> DEFINE d == Append(a, x)
  <2>3. d \in Seq(Seq(Found)) /\ Len(d) = Len(b) /\ \A k \in 1 .. Len(b) : b[k] = d[k]
    BY <1>6, <2>1, <2>2
  <2> HIDE DEF b, d
  <2>4. b = d
    BY <2>1, <2>3, SeqEqual
  <2>5. QED
    BY <2>4 DEF d
<1>8. FlattenSeq(Append(a, x)) = Cat(FlattenSeq(a), x) /\ FlattenSeq(a) \in Seq(Found)
  BY <1>3, <1>5, FlattenAppend
<1>9. Answers(s) = FlattenSeq(a) /\ Answers(t) = FlattenSeq(b)
  BY DEF Answers
<1>10. QED
  BY <1>7, <1>8, <1>9

\* Lines before the last.
LEMMA SameBeginning ==
    ASSUME NEW T, NEW s \in Seq(T), NEW x \in T, NEW n \in 0 .. Len(s)
    PROVE  SubSeq(Append(s, x), 1, n) = SubSeq(s, 1, n)
<1>1. Append(s, x) = s \o <<x>> /\ Len(s) \in Nat /\ <<x>> \in Seq(T)
  BY AppendIsConcat, LenProperties
<1>2. CASE n = 0
  BY <1>1, <1>2, SubSeqEmpty
<1>3. CASE n # 0
  <2>1. 1 \in 1 .. Len(s) /\ n \in 1 .. Len(s)
    BY <1>1, <1>3
  <2>2. QED
    BY <1>1, <2>1, SubSeqOfConcat1
<1>4. QED
  BY <1>2, <1>3

-------------------------------------------------------------------------------
\* A step that neither says nor hears anything at a connection.
Silent(c) ==
    /\ program' = program
    /\ asked'[c] = asked[c] /\ printed'[c] = printed[c]
    /\ toServer'[c] = toServer[c] /\ toClient'[c] = toClient[c]

\* What has been printed stays right if neither lines nor answers are added.
LEMMA RecordKeeps ==
    ASSUME NEW c \in Clients, program' = program, asked'[c] = asked[c], printed'[c] = printed[c],
           Settled(c), Kept(c)
    PROVE  Settled(c)' /\ Kept(c)'
<1>1. /\ \A w : Answer(w)' = Answer(w)
      /\ \A l : Ordinary(l)' <=> Ordinary(l)
  BY SameAnswers
<1>2. Settled(c)'
  BY <1>1 DEF Settled
<1>3. Kept(c)'
  <2> DEFINE questions == SubSeq(asked[c], 1, Len(printed[c]))
  <2>1. questions' = questions
    OBVIOUS
  <2>2. (Separate(questions)' <=> Separate(questions)) /\ Answers(questions)' = Answers(questions)
    BY <1>1, <2>1 DEF Separate, Answers
  <2>3. QED
    BY <2>2 DEF Kept, Begins
<1>4. QED
  BY <1>2, <1>3

LEMMA SilentKeeps ==
    ASSUME NEW c \in Clients, Silent(c), Settled(c), Kept(c)
    PROVE  /\ Settled(c)' /\ Kept(c)' /\ Told(c)' = Told(c)
           /\ Answers(asked[c])' = Answers(asked[c]) /\ Owed(toServer[c])' = Owed(toServer[c])
           /\ Separate(asked[c])' <=> Separate(asked[c])
           /\ Ordered(asked[c])' <=> Ordered(asked[c])
           /\ Calm(asked[c])' <=> Calm(asked[c])
<1>1. /\ \A w : Answer(w)' = Answer(w)
      /\ \A l : Ordinary(l)' <=> Ordinary(l)
  BY SameAnswers DEF Silent
<1> USE DEF Silent
<1>2. Separate(asked[c])' <=> Separate(asked[c])
  BY <1>1 DEF Separate
<1>3. (Ordered(asked[c])' <=> Ordered(asked[c])) /\ (Calm(asked[c])' <=> Calm(asked[c]))
  BY <1>1 DEF Ordered, Calm
<1>4. Answers(asked[c])' = Answers(asked[c]) /\ Owed(toServer[c])' = Owed(toServer[c])
  BY <1>1 DEF Answers, Owed
<1>5. Told(c)' = Told(c)
  BY DEF Told
<1>6. Settled(c)' /\ Kept(c)'
  BY RecordKeeps
<1>7. QED
  BY <1>2, <1>3, <1>4, <1>5, <1>6

LEMMA ToldType ==
    ASSUME LookupTypes, NEW c \in Clients
    PROVE  /\ Told(c) \in Seq(Found) /\ FlattenSeq(printed[c]) \in Seq(Found)
           /\ \A s \in Seq(Words) : Owed(s) \in Seq(Found)
<1>1. FlattenSeq(printed[c]) \in Seq(Found) /\ toClient[c] \in Seq(Found)
  BY FlattenAppend DEF LookupTypes
<1>2. Told(c) \in Seq(Found)
  BY <1>1, CatLaws DEF Told
<1>3. ASSUME NEW s \in Seq(Words) PROVE Owed(s) \in Seq(Found)
  <2>1. s # <<>> => s[1] \in Words
    <3>1. s # <<>> => 1 \in 1 .. Len(s)
      BY EmptySeq, LenProperties
    <3>2. QED
      BY <3>1, ElementOfSeq
  <2>2. QED
    BY <2>1, AnswerType, EmptySeq DEF Owed
<1>4. QED
  BY <1>1, <1>2, <1>3

\* A step that says nothing and at most ends the process, or the hope for one.
Apart(c) ==
    /\ Silent(c)
    /\ child'[c] = child[c] /\ client'[c] = client[c]
    /\ server = "exited" => server' = "exited"

LEMMA ApartKeeps ==
    ASSUME LookupTypes, NEW c \in Clients, Dialog(c), Apart(c)
    PROVE  Dialog(c)'
<1>1. Gone(c) => Gone(c)'
  BY DEF Gone, Apart
<1>2. Gone(c)' /\ ~Gone(c) => child[c] = "none"
  BY DEF Gone, Apart
<1>3. /\ Settled(c)' /\ Kept(c)' /\ Told(c)' = Told(c)
      /\ Answers(asked[c])' = Answers(asked[c]) /\ Owed(toServer[c])' = Owed(toServer[c])
      /\ Separate(asked[c])' <=> Separate(asked[c])
      /\ Ordered(asked[c])' <=> Ordered(asked[c])
      /\ Calm(asked[c])' <=> Calm(asked[c])
  BY SilentKeeps DEF Dialog, Apart
<1>4. /\ program' = program
      /\ asked'[c] = asked[c] /\ printed'[c] = printed[c]
      /\ toServer'[c] = toServer[c] /\ toClient'[c] = toClient[c]
      /\ child'[c] = child[c] /\ client'[c] = client[c]
      /\ \A w : Answer(w)' = Answer(w)
  BY SameAnswers DEF Apart, Silent
<1>5. Alternates(c) /\ Alternates(c)'
  BY <1>4 DEF Dialog, Alternates
<1>6. Synced(c)'
  BY <1>1, <1>2, <1>3, <1>4, <1>5 DEF Dialog, Synced, Alternates
<1>7. Flowing(c)'
  <2>1. CASE Gone(c) <=> Gone(c)'
    BY <1>3, <1>4, <2>1 DEF Dialog, Flowing, Begins
  <2>2. CASE ~Gone(c) /\ Gone(c)'
    <3>1. Separate(asked[c]) => Cat(Told(c), Owed(toServer[c])) = Answers(asked[c])
      BY <2>2 DEF Dialog, Flowing
    <3>2. Owed(toServer[c]) \in Seq(Found)
      BY ToldType DEF LookupTypes
    <3>3. QED
      BY <1>3, <2>2, <3>1, <3>2 DEF Flowing, Begins
  <2>3. QED
    BY <1>1, <2>1, <2>2
<1>8. QED
  BY <1>3, <1>5, <1>6, <1>7 DEF Dialog

\* The steps of a client and of its process at which nothing is said.
LEMMA StagesKeep ==
    ASSUME LookupTypes, NEW c \in Clients, Dialog(c),
           Connect(c) \/ WriteFails(c) \/ Finish(c) \/ AcceptClient(c) \/ ChildEnds(c)
    PROVE  Dialog(c)'
<1>1. Silent(c)
  BY DEF Connect, WriteFails, Finish, AcceptClient, ChildEnds, Silent, conn
<1>2. /\ Settled(c)' /\ Kept(c)' /\ Told(c)' = Told(c)
      /\ Answers(asked[c])' = Answers(asked[c]) /\ Owed(toServer[c])' = Owed(toServer[c])
      /\ Separate(asked[c])' <=> Separate(asked[c])
      /\ Ordered(asked[c])' <=> Ordered(asked[c])
      /\ Calm(asked[c])' <=> Calm(asked[c])
  BY <1>1, SilentKeeps DEF Dialog
<1>3. /\ program' = program
      /\ asked'[c] = asked[c] /\ printed'[c] = printed[c]
      /\ toServer'[c] = toServer[c] /\ toClient'[c] = toClient[c]
      /\ \A w : Answer(w)' = Answer(w)
  BY <1>1, SameAnswers DEF Silent
<1>4. CASE Connect(c)
  <2>1. /\ client[c] = "new" /\ client'[c] \in {"writing", "refused"} /\ child' = child /\ server' = server
        /\ (Gone(c)' <=> Gone(c))
    BY <1>4 DEF Connect, LookupTypes, Gone
  <2>2. child[c] = "none" /\ asked[c] = <<>> /\ printed[c] = <<>> /\ toServer[c] = <<>> /\ toClient[c] = <<>>
    BY <2>1 DEF Dialog, Alternates
  <2>3. Alternates(c)'
    BY <1>3, <2>1, <2>2 DEF Alternates
  <2>4. Synced(c)'
    BY <1>3, <2>1, <2>2 DEF Synced
  <2>5. Flowing(c)'
    BY <1>2, <1>3, <2>1, <2>2 DEF Dialog, Flowing, Begins
  <2>6. QED
    BY <1>2, <2>3, <2>4, <2>5 DEF Dialog
<1>5. CASE WriteFails(c) \/ Finish(c)
  <2>1. /\ client[c] = "writing" /\ client'[c] \in {"failed", "done"} /\ child' = child /\ server' = server
        /\ (Gone(c)' <=> Gone(c))
    BY <1>5 DEF WriteFails, Finish, LookupTypes, Gone
  <2>2. Alternates(c)'
    BY <1>3, <2>1 DEF Dialog, Alternates
  <2>3. Synced(c)'
    BY <2>1 DEF Synced
  <2>4. Flowing(c)'
    BY <1>2, <1>3, <2>1 DEF Dialog, Flowing, Begins
  <2>5. QED
    BY <1>2, <2>2, <2>3, <2>4 DEF Dialog
<1>6. CASE AcceptClient(c)
  <2>1. CASE child' = child
    <3>1. Apart(c)
      BY <1>1, <1>6, <2>1 DEF AcceptClient, Apart
    <3>2. QED
      BY <3>1, ApartKeeps
  <2>2. CASE child' # child
    <3>1. /\ child[c] = "none" /\ child'[c] = "running" /\ client' = client /\ client[c] \notin {"new", "refused"}
          /\ ~Gone(c) /\ ~Gone(c)'
      BY <1>6, <2>2 DEF AcceptClient, LookupTypes, Gone
    <3>2. Alternates(c)'
      BY <1>3, <3>1 DEF Dialog, Alternates
    <3>3. Synced(c)'
      BY <1>2, <1>3, <3>1 DEF Dialog, Synced
    <3>4. Flowing(c)'
      BY <1>2, <1>3, <3>1 DEF Dialog, Flowing
    <3>5. QED
      BY <1>2, <3>2, <3>3, <3>4 DEF Dialog
  <2>3. QED
    BY <2>1, <2>2
<1>7. CASE ChildEnds(c)
  <2>1. /\ child[c] = "running" /\ child'[c] = "zombie" /\ client' = client /\ client[c] \in {"done", "failed"}
        /\ toServer[c] = <<>> /\ ~Gone(c) /\ Gone(c)'
    BY <1>7 DEF ChildEnds, LookupTypes, Gone
  <2>2. Alternates(c)'
    BY <1>3, <2>1 DEF Dialog, Alternates
  <2>3. Synced(c)'
    BY <2>1 DEF Synced
  <2>4. Flowing(c)'
    <3>1. Separate(asked[c]) => Cat(Told(c), Owed(toServer[c])) = Answers(asked[c])
      BY <2>1 DEF Dialog, Flowing
    <3>2. Owed(toServer[c]) \in Seq(Found)
      BY ToldType DEF LookupTypes
    <3>3. QED
      BY <1>2, <2>1, <3>1, <3>2 DEF Flowing, Begins
  <2>5. QED
    BY <1>2, <2>2, <2>3, <2>4 DEF Dialog
<1>8. QED
  BY <1>4, <1>5, <1>6, <1>7

-------------------------------------------------------------------------------
\* The lines of a client after a step, under a name of their own.
LEMMA AskedAfter ==
    ASSUME NEW c \in Clients, program' = program, NEW t, asked'[c] = t
    PROVE  /\ Separate(asked[c])' <=> Separate(t)
           /\ Ordered(asked[c])' <=> Ordered(t)
           /\ Calm(asked[c])' <=> Calm(t)
           /\ Answers(asked[c])' = Answers(t)
<1>1. /\ \A w : Answer(w)' = Answer(w)
      /\ \A l : Ordinary(l)' <=> Ordinary(l)
  BY SameAnswers
<1>2. Separate(asked[c])' <=> Separate(t)
  BY <1>1 DEF Separate
<1>3. (Ordered(asked[c])' <=> Ordered(t)) /\ (Calm(asked[c])' <=> Calm(t))
  BY <1>1 DEF Ordered, Calm
<1>4. Answers(asked[c])' = Answers(t)
  BY <1>1 DEF Answers
<1>5. QED
  BY <1>2, <1>3, <1>4

LEMMA OwedAfter ==
    ASSUME NEW c \in Clients, program' = program, NEW p, toServer'[c] = p
    PROVE  Owed(toServer[c])' = Owed(p) /\ \A w : Answer(w)' = Answer(w)
<1>1. \A w : Answer(w)' = Answer(w)
  BY SameAnswers
<1>2. QED
  BY <1>1 DEF Owed

LEMMA OnePiece ==
    ASSUME NEW T
    PROVE  \A q \in Seq(T) : Len(q) = 1 => q # <<>> /\ q[1] \in T /\ Len(q) <= 1
<1> SUFFICES ASSUME NEW q \in Seq(T), Len(q) = 1 PROVE q # <<>> /\ q[1] \in T /\ Len(q) <= 1
  OBVIOUS
<1>1. 1 \in 1 .. Len(q)
  OBVIOUS
<1>2. QED
  BY <1>1, EmptySeq, ElementOfSeq

LEMMA WriteKeeps ==
    ASSUME LookupTypes, NEW c \in Clients, Dialog(c), WriteLine(c)
    PROVE  Dialog(c)'
<1>1. PICK l \in Seq(Words) : l = Head(input[c])
  <2>1. input[c] \in Seq(Seq(Words)) /\ input[c] # <<>>
    BY DEF WriteLine, LookupTypes
  <2>2. QED
    BY <2>1, HeadTailProperties
<1>2. PICK s \in Seq(Seq(Words)) : s = asked[c]
  BY DEF LookupTypes
<1>3. PICK t : t = Append(s, l)
  OBVIOUS
<1>4. /\ program' = program /\ child' = child /\ server' = server /\ printed' = printed /\ toClient' = toClient
      /\ client[c] = "writing" /\ client'[c] = "reading" /\ asked'[c] = t
      /\ toServer'[c] = IF Gone(c) THEN toServer[c] ELSE Cat(toServer[c], l)
      /\ (Gone(c)' <=> Gone(c))
  BY <1>1, <1>2, <1>3 DEF WriteLine, LookupTypes, Gone, Cat
<1>5. /\ Separate(asked[c])' <=> Separate(t)
      /\ Ordered(asked[c])' <=> Ordered(t)
      /\ Calm(asked[c])' <=> Calm(t)
      /\ Answers(asked[c])' = Answers(t)
      /\ \A w : Answer(w)' = Answer(w)
      /\ \A k : Ordinary(k)' <=> Ordinary(k)
  BY <1>4, AskedAfter, SameAnswers
<1>6. /\ Len(t) = Len(s) + 1 /\ t[Len(s) + 1] = l /\ Len(s) \in Nat
      /\ \A k \in 1 .. Len(s) : t[k] = s[k]
      /\ Ordered(t) <=> Ordered(s) /\ Ordinary(l)
      /\ Calm(t) <=> Ordered(s)
      /\ Separate(t) => /\ Separate(s) /\ Calm(s)
                        /\ Len(l) = 1 /\ Answer(l[1]) # <<>> /\ l[1] \in Words
  BY <1>3, OneMoreLine, LenProperties
<1>7. Len(s) = Len(printed[c]) /\ Len(printed[c]) \in Nat
  BY <1>2, <1>4, <1>6 DEF Dialog, Alternates
<1>8. Alternates(c)'
  <2>1. child[c] = "none" => toClient[c] = <<>>
    BY DEF Dialog, Alternates
  <2>2. QED
    BY <1>4, <1>6, <1>7, <2>1 DEF Alternates
<1>9. Cat(<<>>, l) = l
  BY CatLaws
<1>10. Synced(c)'
  <2> SUFFICES ASSUME Ordered(t)
               PROVE  \/ Gone(c)' /\ toClient'[c] = <<>>
                      \/ ~Gone(c)' /\ toServer'[c] = t[Len(t)] /\ toClient'[c] = <<>>
    BY <1>4, <1>5 DEF Synced
  <2>1. toClient[c] = <<>> /\ (toServer[c] = <<>> \/ Gone(c))
    BY <1>2, <1>4, <1>6 DEF Dialog, Synced
  <2>2. QED
    BY <1>4, <1>6, <1>9, <2>1
<1>11. Flowing(c)'
  <2> SUFFICES ASSUME Separate(t) PROVE Flowing(c)'
    BY <1>5 DEF Flowing
  <2>1. Separate(s) /\ Calm(s) /\ Len(l) = 1 /\ Answer(l[1]) # <<>> /\ l[1] \in Words
    BY <1>6
  <2>2. Answers(s) \in Seq(Found) /\ Answers(t) = Cat(Answers(s), Answer(l[1])) /\ Answer(l[1]) \in Seq(Found)
    <3>1. \A k \in 1 .. Len(s) : Len(s[k]) = 1
      BY <2>1, <1>6 DEF Separate
    <3>2. QED
      BY <1>3, <2>1, <3>1, AnswersAppend, AnswerType
  <2>3. Told(c)' = Told(c) /\ Told(c) \in Seq(Found)
    BY <1>4, ToldType DEF Told
  <2>4. CASE Gone(c)
    <3>1. PICK u \in Seq(Found) : Answers(s) = Cat(Told(c), u)
      BY <1>2, <2>1, <2>4 DEF Dialog, Flowing, Begins
    <3>2. \A x, y, z \in Seq(Found) : Cat(Cat(x, y), z) = Cat(x, Cat(y, z)) /\ Cat(x, y) \in Seq(Found)
      BY CatLaws
    <3>3. Answers(t) = Cat(Told(c), Cat(u, Answer(l[1]))) /\ Cat(u, Answer(l[1])) \in Seq(Found)
      BY <2>2, <2>3, <3>1, <3>2
    <3>4. Begins(Told(c)', Answers(t))
      BY <2>3, <3>3 DEF Begins
    <3>5. Begins(Told(c), Answers(asked[c]))'
      BY <1>5, <3>4 DEF Begins
    <3>6. QED
      BY <1>4, <2>4, <3>5 DEF Flowing
  <2>5. CASE ~Gone(c)
    <3>1. toServer[c] = <<>> /\ Cat(Told(c), Owed(toServer[c])) = Answers(s)
      BY <1>2, <1>4, <2>1, <2>5 DEF Dialog, Flowing
    <3>2. Told(c) = Answers(s)
      <4>1. \A x \in Seq(Found) : Cat(x, <<>>) = x
        BY CatLaws
      <4>2. QED
        BY <2>3, <3>1, <4>1 DEF Owed
    <3>3. toServer'[c] = l /\ l # <<>>
      <4>1. l # <<>>
        <5>1. \A q \in Seq(Words) : Len(q) = 1 => q # <<>>
          BY OnePiece
        <5>2. QED
          BY Zenon, <1>1, <2>1, <5>1
      <4>2. toServer'[c] = Cat(toServer[c], l)
        BY <1>4, <2>5
      <4>3. QED
        BY <1>9, <3>1, <4>1, <4>2
    <3>4. Owed(toServer[c])' = Answer(l[1])
      <4>1. Owed(toServer[c])' = Owed(l)
        BY <1>4, <3>3, OwedAfter
      <4>2. QED
        BY <3>3, <4>1 DEF Owed
    <3>5. Cat(Told(c)', Owed(toServer[c])') = Answers(t)
      BY <2>2, <2>3, <3>2, <3>4
    <3>6. Calm(t) => toClient'[c] = <<>>
      BY <1>2, <1>4, <1>6 DEF Dialog, Synced
    <3>7. Cat(Told(c), Owed(toServer[c]))' = Answers(asked[c])'
      BY <1>5, <3>5 DEF Cat
    <3>8. Len(toServer'[c]) <= 1 /\ Answer(toServer[c][1])' # <<>>
      <4>1. Len(l) = 1 /\ toServer'[c] = l
        BY <2>1, <3>3
      <4>2. Answer(toServer[c][1])' = Answer(l[1])
        BY <1>4, <4>1 DEF Answer
      <4>3. Len(toServer'[c]) <= 1
        <5>1. \A q \in Seq(Words) : Len(q) = 1 => Len(q) <= 1
          BY OnePiece
        <5>2. QED
          BY Zenon, <1>1, <4>1, <5>1
      <4>4. Answer(l[1]) # <<>>
        BY <2>1
      <4>5. QED
        BY Zenon, <4>2, <4>3, <4>4
    <3>9. ~Gone(c)' /\ client'[c] = "reading"
      BY <1>4, <2>5
    <3>10. QED
      BY <1>5, <3>6, <3>7, <3>8, <3>9 DEF Flowing
  <2>6. QED
    BY <2>4, <2>5
<1>12. Settled(c)'
  <2> SUFFICES ASSUME NEW k \in 1 .. Len(printed[c]), \A j \in 1 .. k : Ordinary(t[j]), printed[c][k] # <<>>
               PROVE  printed[c][k] = Answer(t[k][1])
    BY <1>4, <1>5 DEF Settled
  <2>1. k \in 1 .. Len(s) /\ \A j \in 1 .. k : j \in 1 .. Len(s)
    BY <1>7
  <2>2. t[k] = s[k] /\ \A j \in 1 .. k : Ordinary(s[j])
    BY <1>6, <2>1
  <2>3. QED
    BY <1>2, <2>2 DEF Dialog, Settled
<1>13. Kept(c)'
  <2>1. SubSeq(t, 1, Len(printed[c])) = SubSeq(s, 1, Len(printed[c]))
    <3>1. Len(printed[c]) \in 0 .. Len(s)
      BY <1>7
    <3>2. QED
      BY <1>3, <3>1, SameBeginning
  <2> DEFINE questions == SubSeq(asked[c], 1, Len(printed[c]))
  <2>2. questions' = questions
    BY <1>2, <1>4, <2>1
  <2>3. (Separate(questions)' <=> Separate(questions)) /\ Answers(questions)' = Answers(questions)
    BY <1>5, <2>2 DEF Separate, Answers
  <2>4. QED
    BY <1>4, <2>3 DEF Dialog, Kept, Begins
<1>14. QED
  BY <1>8, <1>10, <1>11, <1>12, <1>13 DEF Dialog

-------------------------------------------------------------------------------
\* A read takes a beginning p of what has arrived and leaves r.
LEMMA ReadKeeps ==
    ASSUME LookupTypes, NEW c \in Clients, Dialog(c),
           client[c] = "reading", client'[c] = "writing",
           program' = program, child' = child, server' = server, asked' = asked, toServer' = toServer,
           NEW p \in Seq(Found), NEW r \in Seq(Found),
           printed'[c] = Append(printed[c], p), toClient'[c] = r, Cat(p, r) = toClient[c],
           toClient[c] = <<>> => Gone(c),
           Len(toClient[c]) <= ReadSize => r = <<>> /\ p = toClient[c]
    PROVE  Dialog(c)'
<1>1. PICK s \in Seq(Seq(Words)) : s = asked[c]
  BY DEF LookupTypes
<1>2. PICK f \in Seq(Seq(Found)) : f = printed[c]
  BY DEF LookupTypes
<1>3. PICK g : g = Append(f, p)
  OBVIOUS
<1>4. /\ g \in Seq(Seq(Found)) /\ Len(f) \in Nat /\ Len(g) = Len(f) + 1 /\ g[Len(f) + 1] = p
      /\ \A k \in 1 .. Len(f) : g[k] = f[k]
  BY <1>3, AppendProperties, LenProperties
<1>5. Len(s) = Len(f) + 1 /\ Len(s) = Len(g)
  BY <1>1, <1>2, <1>4 DEF Dialog, Alternates
<1>6. asked'[c] = s /\ printed'[c] = g
  BY <1>1, <1>2, <1>3
<1>7. /\ Separate(asked[c])' <=> Separate(s)
      /\ Ordered(asked[c])' <=> Ordered(s)
      /\ Calm(asked[c])' <=> Calm(s)
      /\ Answers(asked[c])' = Answers(s)
      /\ \A w : Answer(w)' = Answer(w)
      /\ \A k : Ordinary(k)' <=> Ordinary(k)
  BY <1>6, AskedAfter, SameAnswers
<1>8. Gone(c)' <=> Gone(c)
  BY DEF Gone
<1>9. toClient[c] = <<>> => r = <<>> /\ p = <<>>
  <2>1. toClient[c] = <<>> => Len(toClient[c]) = 0
    BY EmptySeq
  <2>2. QED
    BY <2>1, LookupAssumption DEF LookupAssumption
<1>10. Alternates(c)'
  <2>1. child[c] = "none" => r = <<>>
    BY <1>9 DEF Dialog, Alternates
  <2>2. child'[c] = child[c]
    OBVIOUS
  <2>3. QED
    BY <1>4, <1>5, <1>6, <2>1, <2>2 DEF Alternates
\* The answer that is read is all of it.
<1>11. ASSUME Ordered(s)
       PROVE  /\ r = <<>> /\ (toServer[c] = <<>> \/ Gone(c))
              /\ p # <<>> => p = Answer(s[Len(s)][1])
  <2>1. \/ Gone(c) /\ toClient[c] = <<>>
        \/ ~Gone(c) /\ toClient[c] = <<>>
        \/ toServer[c] = <<>> /\ toClient[c] = Answer(s[Len(s)][1])
    BY <1>1, <1>11 DEF Dialog, Synced
  <2>2. CASE toClient[c] = <<>>
    BY <1>9, <2>2
  <2>3. CASE toServer[c] = <<>> /\ toClient[c] = Answer(s[Len(s)][1])
    <3>1. Len(s) \in 1 .. Len(s)
      BY <1>4, <1>5
    <3>2. Ordinary(s[Len(s)])
      BY <1>11, <3>1 DEF Ordered
    <3>3. Len(Answer(s[Len(s)][1])) <= ReadSize
      BY <3>2, LookupAssumption DEF Ordinary, LookupAssumption
    <3>4. QED
      BY <2>3, <3>3
  <2>4. QED
    BY <2>1, <2>2, <2>3
<1>12. Synced(c)'
  <2>1. Ordered(s) => toClient'[c] = <<>> /\ (toServer'[c] = <<>> \/ Gone(c)')
    BY <1>8, <1>11
  <2>2. QED
    BY <1>7, <2>1 DEF Synced
\* Nothing gets lost by reading.
<1>13. FlattenSeq(g) = Cat(FlattenSeq(f), p) /\ FlattenSeq(f) \in Seq(Found) /\ FlattenSeq(g) \in Seq(Found)
  BY <1>3, <1>4, FlattenAppend
<1>14. \A x, y, z \in Seq(Found) : Cat(Cat(x, y), z) = Cat(x, Cat(y, z)) /\ Cat(x, y) \in Seq(Found)
  BY CatLaws
<1>15. Told(c) = Cat(FlattenSeq(g), r)
  <2>1. Told(c) = Cat(FlattenSeq(f), toClient[c])
    BY <1>2 DEF Told
  <2>2. Cat(FlattenSeq(g), r) = Cat(FlattenSeq(f), Cat(p, r))
    <3>1. PICK h \in Seq(Found) : h = FlattenSeq(f)
      BY <1>13
    <3>2. Cat(Cat(h, p), r) = Cat(h, Cat(p, r))
      BY Zenon, <1>14
    <3>3. QED
      BY Zenon, <1>13, <3>1, <3>2
  <2>3. QED
    BY <2>1, <2>2
<1>16. Told(c)' = Told(c) /\ Told(c) \in Seq(Found)
  BY <1>6, <1>15, ToldType DEF Told
<1>17. Owed(toServer[c])' = Owed(toServer[c]) /\ Owed(toServer[c]) \in Seq(Found)
  BY OwedAfter, ToldType DEF LookupTypes
<1>18. Flowing(c)'
  <2> SUFFICES ASSUME Separate(s) PROVE Flowing(c)'
    BY <1>7 DEF Flowing
  <2>1. CASE Gone(c)
    <3>1. Begins(Told(c), Answers(s))
      BY <1>1, <2>1 DEF Dialog, Flowing
    <3>2. Begins(Told(c), Answers(asked[c]))'
      BY <1>7, <1>16, <3>1 DEF Begins
    <3>3. QED
      BY <1>8, <2>1, <3>2 DEF Flowing
  <2>2. CASE ~Gone(c)
    <3>1. /\ Cat(Told(c), Owed(toServer[c])) = Answers(s)
          /\ Len(toServer[c]) <= 1
          /\ toServer[c] # <<>> => Answer(toServer[c][1]) # <<>>
          /\ Calm(s) => toServer[c] = <<>> \/ toClient[c] = <<>>
      BY <1>1, <2>2 DEF Dialog, Flowing
    <3>2. toServer'[c] = toServer[c] /\ (Calm(s) => toServer[c] = <<>>)
      BY <2>2, <3>1
    <3>3. Cat(Told(c), Owed(toServer[c]))' = Answers(asked[c])'
      BY <1>7, <1>16, <1>17, <3>1 DEF Cat
    <3>4. Answer(toServer[c][1])' = Answer(toServer[c][1])
      BY <3>2 DEF Answer
    <3>5. QED
      BY <1>7, <1>8, <2>2, <3>1, <3>2, <3>3, <3>4 DEF Flowing
  <2>3. QED
    BY <2>1, <2>2
<1>19. Settled(c)'
  <2> SUFFICES ASSUME NEW k \in 1 .. Len(g), \A j \in 1 .. k : Ordinary(s[j]), g[k] # <<>>
               PROVE  g[k] = Answer(s[k][1])
    BY <1>6, <1>7 DEF Settled
  <2>1. CASE k \in 1 .. Len(f)
    <3>1. g[k] = f[k]
      BY <1>4, <2>1
    <3>2. QED
      BY <1>1, <1>2, <2>1, <3>1 DEF Dialog, Settled
  <2>2. CASE k = Len(s)
    <3>1. Ordered(s) /\ g[k] = p
      BY <1>4, <1>5, <2>2 DEF Ordered
    <3>2. QED
      BY <1>11, <2>2, <3>1
  <2>3. QED
    BY <1>4, <1>5, <2>1, <2>2
<1>20. Kept(c)'
  <2> DEFINE questions == SubSeq(asked[c], 1, Len(printed[c]))
  <2>1. questions' = s
    <3>1. SubSeq(s, 1, Len(s)) = s
      BY Beginnings
    <3>2. QED
      BY <1>5, <1>6, <3>1
  <2>2. (Separate(questions)' <=> Separate(s)) /\ Answers(questions)' = Answers(s)
    BY <1>7, <2>1 DEF Separate, Answers
  <2>3. ASSUME Separate(s) PROVE Begins(FlattenSeq(g), Answers(s))
    <3>1. \E u \in Seq(Found) : Answers(s) = Cat(Told(c), u)
      BY <1>1, <1>17, <2>3 DEF Dialog, Flowing, Begins
    <3>2. PICK u \in Seq(Found) : Answers(s) = Cat(Told(c), u)
      BY <3>1
    <3>3. Answers(s) = Cat(FlattenSeq(g), Cat(r, u)) /\ Cat(r, u) \in Seq(Found)
      BY <1>13, <1>14, <1>15, <3>2
    <3>4. QED
      BY <3>3 DEF Begins
  <2>4. Begins(FlattenSeq(printed[c]), Answers(questions))' <=> Begins(FlattenSeq(g), Answers(s))
    BY <1>6, <2>2 DEF Begins
  <2>5. QED
    BY <2>2, <2>3, <2>4 DEF Kept
<1>21. QED
  BY <1>10, <1>12, <1>18, <1>19, <1>20 DEF Dialog

LEMMA ReadsKeep ==
    ASSUME LookupTypes, NEW c \in Clients, Dialog(c), ReadAnswer(c) \/ ReadNothing(c)
    PROVE  Dialog(c)'
<1>1. PICK f \in Seq(Seq(Found)) : f = printed[c]
  BY DEF LookupTypes
<1>2. PICK t \in Seq(Found) : t = toClient[c]
  BY DEF LookupTypes
<1>3. CASE ReadAnswer(c)
  <2>1. /\ client[c] = "reading" /\ t # <<>> /\ client' = [client EXCEPT ![c] = "writing"]
        /\ \E n \in Nat : ReadSome(n, c)
    BY <1>2, <1>3, ReadAnswerIs
  <2>2. PICK n \in Nat : ReadSome(n, c)
    BY <2>1
  <2>3. n \in 0 .. Len(t) /\ Len(t) \in Nat
    BY <1>2, <2>2, LenProperties DEF ReadSome
  <2>4. PICK p \in Seq(Found), r \in Seq(Found) : p = SubSeq(t, 1, n) /\ r = SubSeq(t, n + 1, Len(t))
    BY <2>3, SplitAt
  <2>5. Cat(p, r) = t
    BY <2>3, <2>4, CatSplit
  <2>6. printed'[c] = Append(f, p) /\ toClient'[c] = r
    BY <1>1, <1>2, <2>2, <2>4 DEF ReadSome, LookupTypes
  <2>7. Len(t) <= ReadSize => r = <<>> /\ p = t
    <3>1. Len(t) <= ReadSize => n = Len(t)
      BY <1>2, <2>2 DEF ReadSome
    <3>2. SubSeq(t, 1, Len(t)) = t
      BY Beginnings
    <3>3. SubSeq(t, Len(t) + 1, Len(t)) = <<>>
      BY <2>3, SubSeqEmpty
    <3>4. QED
      BY <2>4, <3>1, <3>2, <3>3
  <2>8. /\ program' = program /\ child' = child /\ server' = server /\ asked' = asked /\ toServer' = toServer
        /\ client'[c] = "writing"
    BY <1>3, <2>1 DEF ReadAnswer, LookupTypes
  <2>9. /\ printed'[c] = Append(printed[c], p) /\ toClient'[c] = r /\ Cat(p, r) = toClient[c]
        /\ toClient[c] = <<>> => Gone(c)
        /\ Len(toClient[c]) <= ReadSize => r = <<>> /\ p = toClient[c]
    BY Zenon, <1>1, <1>2, <2>1, <2>5, <2>6, <2>7
  <2>10. QED
    BY Zenon, <2>1, <2>8, <2>9, ReadKeeps
<1>4. CASE ReadNothing(c)
  <2>1. /\ client[c] = "reading" /\ toClient[c] = <<>> /\ Gone(c)
        /\ program' = program /\ child' = child /\ server' = server /\ asked' = asked
        /\ toServer' = toServer /\ toClient' = toClient
    BY <1>4 DEF ReadNothing
  <2>2. CASE client' = [client EXCEPT ![c] = "writing"] /\ printed' = [printed EXCEPT ![c] = Append(@, <<>>)]
    <3>1. client'[c] = "writing" /\ printed'[c] = Append(printed[c], <<>>)
      BY <2>2 DEF LookupTypes
    <3>2. <<>> \in Seq(Found) /\ Cat(<<>>, <<>>) = <<>>
      BY CatLaws
    <3>3. toClient'[c] = <<>> /\ Cat(<<>>, <<>>) = toClient[c]
      BY <2>1, <3>2
    <3>4. QED
      BY Zenon, <2>1, <3>1, <3>2, <3>3, ReadKeeps
  <2>3. CASE client' = [client EXCEPT ![c] = "failed"] /\ UNCHANGED printed
    <3>1. Silent(c) /\ client'[c] = "failed" /\ (Gone(c)' <=> Gone(c))
      BY <2>1, <2>3 DEF Silent, LookupTypes, Gone
    <3>2. /\ Settled(c)' /\ Kept(c)' /\ Told(c)' = Told(c)
          /\ Answers(asked[c])' = Answers(asked[c])
          /\ Separate(asked[c])' <=> Separate(asked[c])
      BY <3>1, SilentKeeps DEF Dialog
    <3>3. Alternates(c)'
      BY <2>1, <2>3, <3>1 DEF Dialog, Alternates
    <3>4. Synced(c)'
      BY <3>1 DEF Synced
    <3>5. Flowing(c)'
      BY <2>1, <3>1, <3>2 DEF Dialog, Flowing, Begins
    <3>6. QED
      BY <3>2, <3>3, <3>4, <3>5 DEF Dialog
  <2>4. QED
    BY <1>4, <2>2, <2>3 DEF ReadNothing
<1>5. QED
  BY <1>3, <1>4

-------------------------------------------------------------------------------
\* The only piece that is there is taken.
LEMMA TakeOnly ==
    ASSUME NEW T, NEW q \in Seq(T), Len(q) <= 1, NEW n \in 1 .. Len(q)
    PROVE  n = 1 /\ SubSeq(q, n + 1, Len(q)) = <<>> /\ q # <<>> /\ q[1] \in T
<1>1. Len(q) = 1 /\ n = 1
  <2>1. Len(q) \in Nat
    BY LenProperties
  <2>2. \A k \in Nat : \A i \in 1 .. k : k <= 1 => k = 1 /\ i = 1
    OBVIOUS
  <2>3. QED
    BY <2>1, <2>2
<1>2. \A i, j \in Int : i > j => SubSeq(q, i, j) = <<>>
  BY SubSeqEmpty
<1>3. SubSeq(q, n + 1, Len(q)) = <<>>
  BY <1>1, <1>2
<1>4. QED
  BY <1>1, <1>3, OnePiece

LEMMA AnswerKeeps ==
    ASSUME LookupTypes, NEW c \in Clients, Dialog(c), ChildAnswers(c)
    PROVE  Dialog(c)'
<1>1. PICK w \in Words, n \in Nat, o \in Seq(Found) : Answered(w, n, o, c)
  BY ChildAnswersIs
<1>2. PICK s \in Seq(Seq(Words)) : s = asked[c]
  BY DEF LookupTypes
<1>3. PICK q \in Seq(Words) : q = toServer[c]
  BY DEF LookupTypes
<1>4. PICK t \in Seq(Found) : t = toClient[c]
  BY DEF LookupTypes
<1>5. /\ child[c] = "running" /\ q # <<>> /\ program' = program /\ child' = child /\ server' = server
      /\ client' = client /\ asked' = asked /\ printed' = printed
      /\ ~Gone(c) /\ (Gone(c)' <=> Gone(c))
  BY <1>3 DEF ChildAnswers, Gone
<1>6. /\ n \in 1 .. Len(q) /\ (n = 1 => w = q[1]) /\ (Answer(w) # <<>> => o = Answer(w))
      /\ toClient'[c] = Cat(t, o) /\ toServer'[c] = SubSeq(q, n + 1, Len(q))
  BY <1>1, <1>3, <1>4 DEF Answered, LookupTypes
<1>7. /\ Separate(asked[c])' <=> Separate(s)
      /\ Ordered(asked[c])' <=> Ordered(s)
      /\ Calm(asked[c])' <=> Calm(s)
      /\ Answers(asked[c])' = Answers(s)
      /\ \A k : Answer(k)' = Answer(k)
  BY <1>2, <1>5, AskedAfter, SameAnswers
<1>8. Settled(c)' /\ Kept(c)'
  BY <1>5, RecordKeeps DEF Dialog
<1>9. Alternates(c)'
  <2>1. client[c] \notin {"new", "refused"}
    BY <1>5 DEF Dialog, Alternates
  <2>2. QED
    BY <1>5, <2>1 DEF Dialog, Alternates
<1>10. \A x \in Seq(Found) : Cat(<<>>, x) = x /\ Cat(x, <<>>) = x
  BY CatLaws
<1>11. Synced(c)'
  <2> SUFFICES ASSUME Ordered(s) PROVE Synced(c)'
    BY <1>7 DEF Synced
  <2>1. client[c] = "reading" => q = s[Len(s)] /\ t = <<>>
    BY <1>2, <1>3, <1>4, <1>5 DEF Dialog, Synced
  <2>2. client[c] # "writing" /\ client[c] # "new"
    BY <1>2, <1>3, <1>5 DEF Dialog, Synced
  <2>3. ASSUME client[c] = "reading"
        PROVE  toServer'[c] = <<>> /\ toClient'[c] = Answer(s[Len(s)][1])
    <3>1. Ordinary(q)
      <4>1. Len(s) \in Nat /\ Len(s) = Len(printed[c]) + 1 /\ Len(printed[c]) \in Nat
        BY <1>2, <2>3, LenProperties DEF Dialog, Alternates, LookupTypes
      <4>2. Len(s) \in 1 .. Len(s)
        BY <4>1
      <4>3. QED
        BY <2>1, <2>3, <4>2 DEF Ordered
    <3>2. Len(q) = 1 /\ Len(Answer(q[1])) \in 1 .. ReadSize
      BY <3>1 DEF Ordinary
    <3>3. n = 1 /\ SubSeq(q, n + 1, Len(q)) = <<>>
      BY <1>6, <3>2, TakeOnly
    <3>4. Answer(w) # <<>>
      BY <1>6, <3>2, <3>3, EmptySeq
    <3>5. o = Answer(q[1])
      BY <1>6, <3>3, <3>4
    <3>6. QED
      BY <1>6, <1>10, <2>1, <2>3, <3>3, <3>5
  <2>4. client'[c] = client[c]
    BY <1>5
  <2>5. Answer(asked[c][Len(asked[c])][1])' = Answer(s[Len(s)][1])
    BY <1>2, <1>5 DEF Answer
  <2>6. QED
    BY <2>2, <2>3, <2>4, <2>5 DEF Synced
<1>12. Flowing(c)'
  <2> SUFFICES ASSUME Separate(s) PROVE Flowing(c)'
    BY <1>7 DEF Flowing
  <2>1. /\ Cat(Told(c), Owed(q)) = Answers(s) /\ Len(q) <= 1 /\ Answer(q[1]) # <<>>
        /\ Calm(s) => client[c] # "writing"
    BY <1>2, <1>3, <1>5 DEF Dialog, Flowing
  <2>2. n = 1 /\ SubSeq(q, n + 1, Len(q)) = <<>>
    BY <1>6, <2>1, TakeOnly
  <2>3. o = Answer(q[1]) /\ Owed(q) = o
    BY <1>5, <1>6, <2>1, <2>2 DEF Owed
  <2>4. toServer'[c] = <<>>
    BY <1>6, <2>2
  <2>5. Told(c)' = Cat(Told(c), o) /\ Told(c)' \in Seq(Found)
    <3>1. Told(c) = Cat(FlattenSeq(printed[c]), t) /\ FlattenSeq(printed[c]) \in Seq(Found) /\ Told(c) \in Seq(Found)
      BY <1>4, ToldType DEF Told
    <3>2. Told(c)' = Cat(FlattenSeq(printed[c]), Cat(t, o))
      BY <1>5, <1>6 DEF Told
    <3>3. PICK h \in Seq(Found) : h = FlattenSeq(printed[c])
      BY <3>1
    <3>4. \A x, y, z \in Seq(Found) : Cat(Cat(x, y), z) = Cat(x, Cat(y, z)) /\ Cat(x, y) \in Seq(Found)
      BY CatLaws
    <3>5. Cat(Cat(h, t), o) = Cat(h, Cat(t, o)) /\ Cat(h, Cat(t, o)) \in Seq(Found)
      BY Zenon, <3>4
    <3>6. QED
      BY Zenon, <3>1, <3>2, <3>3, <3>5
  <2>6. Owed(toServer[c])' = <<>>
    <3>1. Owed(toServer[c])' = Owed(<<>>)
      BY <1>5, <2>4, OwedAfter
    <3>2. QED
      BY <3>1 DEF Owed
  <2>7. Cat(Told(c), Owed(toServer[c]))' = Answers(asked[c])'
    <3>1. Cat(Told(c)', <<>>) = Told(c)'
      BY <1>10, <2>5
    <3>2. Told(c)' = Answers(s)
      BY <2>1, <2>3, <2>5
    <3>3. Cat(Told(c)', Owed(toServer[c])') = Answers(s)
      BY <2>6, <3>1, <3>2
    <3>4. QED
      BY <1>7, <3>3 DEF Cat
  <2>8. Len(toServer'[c]) <= 1
    BY <2>4, EmptySeq
  <2>9. QED
    BY <1>5, <2>4, <2>7, <2>8 DEF Flowing
<1>13. QED
  BY <1>8, <1>9, <1>11, <1>12 DEF Dialog

\* A process that dies of a piece has none to die of while the lines are ordinary.
LEMMA CrashKeeps ==
    ASSUME LookupTypes, NEW c \in Clients, Dialog(c), ChildCrashes(c)
    PROVE  Dialog(c)'
<1>1. PICK s \in Seq(Seq(Words)) : s = asked[c]
  BY DEF LookupTypes
<1>2. PICK q \in Seq(Words) : q = toServer[c]
  BY DEF LookupTypes
<1>3. /\ child[c] = "running" /\ q # <<>> /\ program' = program /\ child'[c] = "zombie" /\ server' = server
      /\ client' = client /\ asked' = asked /\ printed' = printed /\ toClient' = toClient
      /\ toServer'[c] = <<>>
      /\ ~Gone(c) /\ Gone(c)'
  BY <1>2 DEF ChildCrashes, Gone, LookupTypes
<1>4. PICK r \in Received(c) : Answer(r[1]) = <<>>
  BY DEF ChildCrashes
<1>5. r[2] \in 1 .. Len(q) /\ (r[2] = 1 => r[1] = q[1]) /\ Len(q) \in Nat
  <2>1. Len(q) \in Nat
    BY LenProperties
  <2>2. QED
    BY <1>2, <2>1 DEF Received
<1>6. /\ Separate(asked[c])' <=> Separate(s)
      /\ Ordered(asked[c])' <=> Ordered(s)
  BY <1>1, <1>3, AskedAfter
<1>7. Settled(c)' /\ Kept(c)'
  BY <1>3, RecordKeeps DEF Dialog
<1>8. Alternates(c)'
  <2>1. client[c] \notin {"new", "refused"}
    BY <1>3 DEF Dialog, Alternates
  <2>2. QED
    BY <1>3, <2>1 DEF Dialog, Alternates
<1>9. Len(q) <= 1 => Answer(q[1]) = <<>>
  <2>1. Len(q) <= 1 => r[2] = 1
    BY <1>5, TakeOnly
  <2>2. QED
    BY <1>4, <1>5, <2>1
<1>10. Synced(c)'
  <2> SUFFICES ASSUME Ordered(s) PROVE Synced(c)'
    BY <1>6 DEF Synced
  <2>1. client[c] # "writing" /\ client[c] # "new"
    BY <1>1, <1>2, <1>3 DEF Dialog, Synced
  <2>2. client[c] # "reading"
    <3> SUFFICES ASSUME client[c] = "reading" PROVE FALSE
      OBVIOUS
    <3>1. q = s[Len(s)]
      BY <1>1, <1>2, <1>3 DEF Dialog, Synced
    <3>2. Len(s) \in Nat /\ Len(s) = Len(printed[c]) + 1 /\ Len(printed[c]) \in Nat
      BY <1>1, LenProperties DEF Dialog, Alternates, LookupTypes
    <3>3. Len(s) \in 1 .. Len(s)
      BY <3>2
    <3>4. Len(q) = 1 /\ Len(Answer(q[1])) \in 1 .. ReadSize
      BY <3>1, <3>3 DEF Ordered, Ordinary
    <3>5. Len(Answer(q[1])) = 0
      BY <1>9, <3>4, EmptySeq
    <3>6. QED
      BY <3>4, <3>5
  <2>3. QED
    BY <1>3, <2>1, <2>2 DEF Synced
<1>11. Flowing(c)'
  <2>1. ~Separate(s)
    BY <1>1, <1>2, <1>3, <1>9 DEF Dialog, Flowing
  <2>2. QED
    BY <1>6, <2>1 DEF Flowing
<1>12. QED
  BY <1>7, <1>8, <1>10, <1>11 DEF Dialog

-------------------------------------------------------------------------------
LEMMA LookupStep == LookupInv /\ [Next]_vars => LookupInv'
<1> SUFFICES ASSUME LookupInv, [Next]_vars PROVE LookupInv'
  OBVIOUS
<1>1. LookupTypes /\ Counted /\ \A c \in Clients : Dialog(c)
  BY DEF LookupInv
<1>2. LookupTypes' /\ Counted'
  BY <1>1, LookupTypesStep, CountedStep
<1>3. ASSUME NEW c \in Clients, Apart(c) PROVE Dialog(c)'
  BY <1>1, <1>3, ApartKeeps
<1>4. ASSUME NEW fault, StartFlookup(fault) \/ StartSpell(fault), NEW c \in Clients PROVE Apart(c)
  BY <1>4 DEF StartFlookup, StartSpell, conn, Apart, Silent
<1>5. ASSUME NEW d \in Clients, ClientStep(d) \/ ServerStep(d), NEW c \in Clients, c # d PROVE Apart(c)
  <2> USE <1>1, <1>5 DEF LookupTypes, Apart, Silent, conn
  <2>1. CASE Connect(d) \/ WriteFails(d) \/ Finish(d) \/ AcceptClient(d) \/ ChildEnds(d)
    BY <2>1 DEF Connect, WriteFails, Finish, AcceptClient, ChildEnds
  <2>2. CASE WriteLine(d)
    BY <2>2 DEF WriteLine
  <2>3. CASE ReadAnswer(d)
    BY <2>3 DEF ReadAnswer
  <2>4. CASE ReadNothing(d)
    BY <2>4 DEF ReadNothing
  <2>5. CASE ChildAnswers(d)
    BY <2>5 DEF ChildAnswers
  <2>6. CASE ChildCrashes(d)
    BY <2>6 DEF ChildCrashes
  <2>7. QED
    BY <2>1, <2>2, <2>3, <2>4, <2>5, <2>6 DEF ClientStep, ServerStep
<1>6. ASSUME NEW c \in Clients, ClientStep(c) \/ ServerStep(c) PROVE Dialog(c)'
  BY <1>1, <1>6, StagesKeep, WriteKeeps, ReadsKeep, AnswerKeeps, CrashKeeps DEF ClientStep, ServerStep
<1>7. ASSUME UNCHANGED vars, NEW c \in Clients PROVE Apart(c)
  BY <1>7 DEF vars, Apart, Silent
<1>8. ASSUME NEW c \in Clients PROVE Dialog(c)'
  BY <1>3, <1>4, <1>5, <1>6, <1>7 DEF Next
<1>9. QED
  BY <1>2, <1>8 DEF LookupInv

\* The types, and one answer for each line; and no more connections ever get a process
\* than the system allows at a time, since those that have ended are not waited for.
THEOREM LookupTypesCorrect == Spec => []TypeOK
<1>1. LookupInv => TypeOK
  <2> SUFFICES ASSUME LookupInv PROVE TypeOK
    OBVIOUS
  <2>1. LookupTypes /\ Counted /\ \A c \in Clients : Alternates(c)
    BY DEF LookupInv, Dialog
  <2>2. served \in 0 .. procs
    <3>1. IsFiniteSet(Processes)
      BY LookupAssumption, FS_Subset DEF Processes, LookupAssumption
    <3>2. Cardinality(Processes) \in Nat
      BY <3>1, FS_CardinalityType
    <3>3. QED
      BY <2>1, <3>2 DEF Counted, LookupTypes
  <2>3. QED
    BY <2>1, <2>2 DEF LookupTypes, Alternates, TypeOK
<1>2. QED
  BY <1>1, LookupInit, LookupStep, PTL DEF Spec

\* An answer belongs to its question: what is printed for a line is its answer as long
\* as all lines have been ordinary; and at the first answer that does not fit one read
\* what is printed is still what was answered, in order and without a gap.
THEOREM AnswersAlwaysInStep == Spec => []AnswersInStep
<1>1. LookupInv => AnswersInStep
  <2> SUFFICES ASSUME LookupInv, NEW c \in Clients, NEW lines, lines = SubSeq(asked[c], 1, Len(printed[c]))
               PROVE  /\ \A k \in DOMAIN lines :
                           (\A j \in 1 .. k : Ordinary(lines[j])) /\ printed[c][k] # <<>>
                               => printed[c][k] = Answer(lines[k][1])
                      /\ Separate(lines) =>
                           IsPrefix(FlattenSeq(printed[c]), FlattenSeq([k \in DOMAIN lines |-> Answer(lines[k][1])]))
    BY DEF AnswersInStep
  <2>1. LookupTypes /\ Dialog(c)
    BY DEF LookupInv
  <2>2. PICK s \in Seq(Seq(Words)) : s = asked[c]
    BY <2>1 DEF LookupTypes
  <2>3. PICK f \in Seq(Seq(Found)) : f = printed[c]
    BY <2>1 DEF LookupTypes
  <2>4. Len(s) \in Nat /\ Len(f) \in Nat /\ Len(f) <= Len(s)
    BY <2>1, <2>2, <2>3, LenProperties DEF Dialog, Alternates
  <2>5. /\ lines \in Seq(Seq(Words)) /\ DOMAIN lines = 1 .. Len(f) /\ Len(lines) = Len(f)
        /\ \A k \in 1 .. Len(f) : lines[k] = s[k]
    <3>1. lines = SubSeq(s, 1, Len(f))
      BY <2>2, <2>3
    <3>2. Len(f) \in 0 .. Len(s)
      BY <2>4
    <3>3. lines \in Seq(Seq(Words))
      <4>1. \A n \in 0 .. Len(s) : SubSeq(s, 1, n) \in Seq(Seq(Words))
        BY Beginnings
      <4>2. QED
        BY Zenon, <3>1, <3>2, <4>1
    <3>4. Len(lines) = Len(f) /\ \A k \in 1 .. Len(f) : lines[k] = s[k]
      BY <2>4, <3>1, FirstOnes
    <3>5. QED
      BY <3>3, <3>4, LenProperties
  <2>6. ASSUME NEW k \in DOMAIN lines, \A j \in 1 .. k : Ordinary(lines[j]), printed[c][k] # <<>>
        PROVE  printed[c][k] = Answer(lines[k][1])
    <3>1. k \in 1 .. Len(f) /\ lines[k] = s[k] /\ \A j \in 1 .. k : j \in 1 .. Len(f)
      BY <2>4, <2>5, <2>6
    <3>2. \A j \in 1 .. k : Ordinary(s[j])
      BY <2>5, <2>6, <3>1
    <3>3. QED
      BY <2>1, <2>2, <2>3, <2>6, <3>1, <3>2 DEF Dialog, Settled
  <2>7. ASSUME Separate(lines)
        PROVE  IsPrefix(FlattenSeq(printed[c]), FlattenSeq([k \in DOMAIN lines |-> Answer(lines[k][1])]))
    <3>1. Begins(FlattenSeq(f), Answers(lines))
      BY <2>1, <2>3, <2>7 DEF Dialog, Kept
    <3>2. PICK u \in Seq(Found) : Answers(lines) = Cat(FlattenSeq(f), u)
      BY <3>1 DEF Begins
    <3>3. FlattenSeq(f) \in Seq(Found)
      BY FlattenAppend
    <3>4. IsPrefix(FlattenSeq(f), Cat(FlattenSeq(f), u))
      BY <3>3, CatIsPrefix
    <3>5. Answers(lines) = FlattenSeq([k \in DOMAIN lines |-> Answer(lines[k][1])])
      BY <2>5 DEF Answers
    <3>6. QED
      BY Zenon, <2>3, <3>2, <3>4, <3>5
  <2>8. QED
    BY <2>6, <2>7
<1>2. QED
  BY <1>1, LookupInit, LookupStep, PTL DEF Spec

-------------------------------------------------------------------------------
(***************************************************************************)
(* The plugin of the office suite.                                         *)
(***************************************************************************)
Bit(b) == IF b THEN 1 ELSE 0
OnTheWay == Len(toLookup) + Len(toPlugin) + Bit(unsent)

Types ==
    /\ flookup \in {"none", "running", "dead"}
    /\ state \in {"idle", "reading", "taken"}
    /\ first \in BOOLEAN /\ unsent \in BOOLEAN
    /\ document \in Seq(Form)
    /\ asking \in Seq(Form) /\ tries \in Seq(Form) /\ toLookup \in Seq(Form)
    /\ toPlugin \in Seq({"known", "unknown", "rest"})
    /\ current = <<>> \/ \E word \in Form : current = <<word>>
    /\ verdicts \in Seq(Form \X BOOLEAN)
    /\ splits \in Nat

\* A form is looked up for a word, and the forms of the word end with it.
Asking ==
    /\ (current = <<>>) = (tries = <<>>)
    /\ state # "idle" => current # <<>> /\ flookup # "none"
    /\ flookup # "running" => toLookup = <<>> /\ ~unsent

\* One question is on its way at most, besides what answers in two parts left.
Leftovers == OnTheWay <= splits + Bit(state = "reading")

\* The forms of the word that are still to be looked up are the last ones, and
\* while flookup runs, and has given no answer in two parts, it knows none of those before.
Ahead ==
    current # <<>> =>
        \E k \in 1 .. Len(Forms(current[1])) :
            /\ tries = SubSeq(Forms(current[1]), k, Len(Forms(current[1])))
            /\ flookup = "running" /\ splits = 0 => \A j \in 1 .. k - 1 : Forms(current[1])[j] \notin Known

\* The answer to the present form, as long as there was none in two parts.
Own ==
    splits = 0 =>
        /\ ~unsent
        /\ \A i \in 1 .. Len(toLookup) : toLookup[i] = Head(tries)
        /\ \A i \in 1 .. Len(toPlugin) :
            toPlugin[i] = IF Head(tries) \in Known THEN "known" ELSE "unknown"
        /\ state = "taken" => first = (Head(tries) \in Known)

IInv == Types /\ Asking /\ Leftovers /\ Ahead /\ Own /\ VerdictsOwn

-------------------------------------------------------------------------------
LEMMA FormsOfWord ==
    ASSUME NEW word \in Form
    PROVE  Forms(word) \in Seq(Form) /\ Len(Forms(word)) \in Nat \ {0}
<1> DEFINE Lower(f) == [f EXCEPT !.capital = FALSE]
           Both(f)  == <<f, Lower(f)>>
           bare     == [word EXCEPT !.before = FALSE, !.after = FALSE]
           a == <<word>>
           b == IF word.capital THEN <<Lower(word)>> ELSE <<>>
           c == IF word.after THEN Both([word EXCEPT !.after = FALSE]) ELSE <<>>
           d == IF word.before THEN Both([word EXCEPT !.before = FALSE]) ELSE <<>>
           e == IF word.before /\ word.after THEN Both(bare) ELSE <<>>
<1>1. \A f \in Form : Lower(f) \in Form
  BY DEF Form
<1>2. bare \in Form /\ [word EXCEPT !.after = FALSE] \in Form /\ [word EXCEPT !.before = FALSE] \in Form
  BY DEF Form
<1>3. ASSUME NEW f \in Form PROVE Both(f) \in Seq(Form)
  <2>1. Lower(f) \in Form
    BY <1>1
  <2> HIDE DEF Lower
  <2>2. QED
    BY <2>1
<1>4. a \in Seq(Form) /\ Len(a) = 1
  OBVIOUS
<1>5. b \in Seq(Form) /\ c \in Seq(Form) /\ d \in Seq(Form) /\ e \in Seq(Form)
  <2> HIDE DEF Both, bare
  <2>1. <<>> \in Seq(Form)
    BY EmptySeq
  <2>2. QED
    BY <1>1, <1>2, <1>3, <2>1
<1>6. Forms(word) = a \o b \o c \o d \o e
  BY DEF Forms
<1> HIDE DEF a, b, c, d, e
<1>7. a \o b \in Seq(Form) /\ Len(a \o b) = 1 + Len(b)
  BY <1>4, <1>5, ConcatProperties, ZenonT(60)
<1>8. a \o b \o c \in Seq(Form) /\ Len(a \o b \o c) = 1 + Len(b) + Len(c)
  BY <1>5, <1>7, ConcatProperties, ZenonT(60)
<1>9. a \o b \o c \o d \in Seq(Form) /\ Len(a \o b \o c \o d) = 1 + Len(b) + Len(c) + Len(d)
  BY <1>5, <1>8, ConcatProperties, ZenonT(60)
<1>10. /\ a \o b \o c \o d \o e \in Seq(Form)
       /\ Len(a \o b \o c \o d \o e) = 1 + Len(b) + Len(c) + Len(d) + Len(e)
  BY <1>5, <1>9, ConcatProperties, ZenonT(60)
<1>11. Len(b) \in Nat /\ Len(c) \in Nat /\ Len(d) \in Nat /\ Len(e) \in Nat
  BY <1>5, LenProperties
<1>12. QED
  BY <1>6, <1>10, <1>11

-------------------------------------------------------------------------------
LEMMA InitEstablishesIInv ==
    ASSUME PluginInit
    PROVE  IInv
<1>1. PICK started \in BOOLEAN, words \in Documents : PluginInitWith(started, words)
  BY DEF PluginInit
<1>2. Types
  <2>1. \A S : <<>> \in Seq(S)
    BY EmptySeq
  <2>2. QED
    BY <1>1, <2>1, PluginAssumption DEF PluginInitWith, Types
<1>3. Asking /\ Leftovers /\ Ahead /\ Own /\ VerdictsOwn
  BY <1>1 DEF PluginInitWith, Asking, Leftovers, OnTheWay, Bit, Ahead, Own, VerdictsOwn
<1>4. QED
  BY <1>2, <1>3 DEF IInv

\* A form that is judged: it is the next of its word.
LEMMA Present ==
    ASSUME Types, Asking, Ahead, tries # <<>>
    PROVE  \E word \in Form, k \in Nat \ {0} :
             /\ current = <<word>> /\ current[1] = word
             /\ k \in 1 .. Len(Forms(word)) /\ Len(Forms(word)) \in Nat
             /\ Head(tries) = Forms(word)[k] /\ Tail(tries) = SubSeq(Forms(word), k + 1, Len(Forms(word)))
             /\ Len(tries) = Len(Forms(word)) - k + 1
             /\ flookup = "running" /\ splits = 0 => \A j \in 1 .. k - 1 : Forms(word)[j] \notin Known
<1>1. current # <<>>
  BY DEF Asking
<1>2. PICK word \in Form : current = <<word>>
  BY <1>1 DEF Types
<1>3. current[1] = word
  BY <1>2
<1>4. Forms(word) \in Seq(Form) /\ Len(Forms(word)) \in Nat \ {0}
  BY FormsOfWord
<1>5. PICK k \in 1 .. Len(Forms(word)) :
        /\ tries = SubSeq(Forms(word), k, Len(Forms(word)))
        /\ flookup = "running" /\ splits = 0 => \A j \in 1 .. k - 1 : Forms(word)[j] \notin Known
  BY <1>1, <1>3 DEF Ahead
<1>6. Len(Forms(word)) \in k .. Len(Forms(word)) /\ k \in Nat \ {0}
  BY <1>4
<1>7. Head(tries) = Forms(word)[k] /\ Tail(tries) = SubSeq(Forms(word), k + 1, Len(Forms(word)))
  BY <1>4, <1>5, <1>6, HeadTailOfSubSeq
<1>8. Len(tries) = Len(Forms(word)) - k + 1
  <2>1. \A i \in k .. Len(Forms(word)) : Forms(word)[i] \in Form
    BY <1>4, ElementOfSeq
  <2>2. k \in Int /\ Len(Forms(word)) \in Int /\ k <= Len(Forms(word))
    BY <1>4
  <2>3. QED
    BY <1>5, <2>1, <2>2, SubSeqProperties
<1>9. QED
  BY <1>2, <1>3, <1>4, <1>5, <1>6, <1>7, <1>8

\* The judgement of a form leaves a word with its other forms or a verdict of its own.
LEMMA JudgeStep ==
    ASSUME Types, Asking, Ahead, VerdictsOwn, tries # <<>>,
           NEW valid \in BOOLEAN, Judge(valid), splits' = splits,
           splits = 0 => /\ valid => Head(tries) \in Known
                         /\ flookup = "running" => (Head(tries) \in Known => valid)
    PROVE  /\ Ahead' /\ VerdictsOwn'
           /\ (current' = <<>>) = (tries' = <<>>)
           /\ tries' \in Seq(Form) /\ verdicts' \in Seq(Form \X BOOLEAN)
           /\ current' = <<>> \/ current' = current
<1>1. PICK word \in Form, k \in Nat \ {0} :
        /\ current = <<word>> /\ current[1] = word
        /\ k \in 1 .. Len(Forms(word)) /\ Len(Forms(word)) \in Nat
        /\ Head(tries) = Forms(word)[k] /\ Tail(tries) = SubSeq(Forms(word), k + 1, Len(Forms(word)))
        /\ Len(tries) = Len(Forms(word)) - k + 1
        /\ flookup = "running" /\ splits = 0 => \A j \in 1 .. k - 1 : Forms(word)[j] \notin Known
  BY Present
<1>2. flookup' = flookup
  BY DEF Judge
<1>3. verdicts \in Seq(Form \X BOOLEAN) /\ tries \in Seq(Form)
  BY DEF Types
<1>4. CASE valid \/ Len(tries) = 1
  <2>1. verdicts' = Append(verdicts, <<word, valid>>) /\ current' = <<>> /\ tries' = <<>>
    BY <1>1, <1>4 DEF Judge
  <2>2. <<word, valid>> \in Form \X BOOLEAN
    OBVIOUS
  <2>3. /\ verdicts' \in Seq(Form \X BOOLEAN) /\ Len(verdicts') = Len(verdicts) + 1
        /\ \A i \in 1 .. Len(verdicts) : verdicts'[i] = verdicts[i]
        /\ verdicts'[Len(verdicts) + 1] = <<word, valid>>
        /\ Len(verdicts) \in Nat
    BY <1>3, <2>1, <2>2, AppendProperties, LenProperties
  <2>4. DOMAIN verdicts = 1 .. Len(verdicts) /\ DOMAIN verdicts' = 1 .. Len(verdicts) + 1
    BY <1>3, <2>3, LenProperties
  <2> DEFINE known(w) == \E form \in ToSet(Forms(w)) : form \in Known
  <2>5. splits = 0 => (valid => known(word))
    <3>1. Forms(word)[k] \in ToSet(Forms(word))
      BY <1>1, FormsOfWord, LenProperties DEF ToSet
    <3>2. QED
      BY <1>1, <3>1
  <2>6. splits = 0 /\ flookup = "running" => valid = known(word)
    <3> SUFFICES ASSUME splits = 0, flookup = "running", ~valid PROVE ~known(word)
      BY <2>5
    <3>1. k = Len(Forms(word))
      BY <1>1, <1>4
    <3>2. \A j \in 1 .. k : Forms(word)[j] \notin Known
      BY <1>1
    <3>3. DOMAIN Forms(word) = 1 .. Len(Forms(word))
      BY FormsOfWord, LenProperties
    <3>4. QED
      BY <3>1, <3>2, <3>3 DEF ToSet
  <2>7. VerdictsOwn'
    <3> SUFFICES ASSUME splits = 0, NEW i \in DOMAIN verdicts'
                 PROVE  /\ verdicts'[i][2] => known(verdicts'[i][1])
                        /\ flookup = "running" => verdicts'[i][2] = known(verdicts'[i][1])
      BY <1>2 DEF VerdictsOwn
    <3> HIDE DEF known
    <3>1. CASE i \in 1 .. Len(verdicts)
      <4>1. \A l \in DOMAIN verdicts :
              /\ verdicts[l][2] => known(verdicts[l][1])
              /\ flookup = "running" => verdicts[l][2] = known(verdicts[l][1])
        BY DEF VerdictsOwn, known
      <4>2. verdicts'[i] = verdicts[i] /\ i \in DOMAIN verdicts
        BY <2>3, <2>4, <3>1
      <4>3. QED
        BY <4>1, <4>2
    <3>2. CASE i = Len(verdicts) + 1
      <4>1. verdicts'[i][1] = word /\ verdicts'[i][2] = valid
        BY <2>3, <3>2
      <4>2. QED
        BY <2>5, <2>6, <4>1
    <3>3. QED
      BY <2>3, <2>4, <3>1, <3>2
  <2>8. QED
    BY <2>1, <2>3, <2>7, EmptySeq DEF Ahead
<1>5. CASE ~(valid \/ Len(tries) = 1)
  <2>1. tries' = Tail(tries) /\ verdicts' = verdicts /\ current' = current
    BY <1>5 DEF Judge
  <2>2. k + 1 \in 1 .. Len(Forms(word))
    BY <1>1, <1>5
  <2>3. tries' \in Seq(Form) /\ tries' # <<>>
    <3>1. tries' \in Seq(Form) /\ Len(tries') = Len(tries) - 1
      BY <1>3, <2>1, HeadTailProperties
    <3>2. Len(tries') # 0
      BY <1>1, <2>2, <3>1
    <3>3. QED
      BY <3>1, <3>2, EmptySeq
  <2>4. flookup = "running" /\ splits = 0 => \A j \in 1 .. (k + 1) - 1 : Forms(word)[j] \notin Known
    <3>1. flookup = "running" /\ splits = 0 => Forms(word)[k] \notin Known
      BY <1>1, <1>5
    <3>2. \A j \in 1 .. (k + 1) - 1 : j \in 1 .. k - 1 \/ j = k
      BY <1>1
    <3>3. QED
      BY <1>1, <3>1, <3>2
  <2>5. Ahead'
    <3>1. tries' = SubSeq(Forms(word), k + 1, Len(Forms(word))) /\ current'[1] = word
      BY <1>1, <2>1
    <3>2. QED
      BY <1>2, <2>2, <2>4, <3>1 DEF Ahead
  <2>6. VerdictsOwn'
    BY <1>2, <2>1 DEF VerdictsOwn
  <2>7. QED
    BY <1>1, <1>3, <2>1, <2>3, <2>5, <2>6
<1>6. QED
  BY <1>4, <1>5

-------------------------------------------------------------------------------
\* The office talks to its documents and listeners.
LEMMA OfficeStep ==
    ASSUME IInv, asking' \in Seq(Form),
           UNCHANGED <<flookup, document, verdicts, current, tries, state, first, pipes>>
    PROVE  IInv'
<1>1. Types' /\ Asking' /\ Leftovers'
  BY DEF IInv, Types, Asking, Leftovers, OnTheWay, pipes
<1>2. Ahead'
  BY DEF IInv, Ahead, pipes
<1>3. Own' /\ VerdictsOwn'
  BY DEF IInv, Own, VerdictsOwn, pipes
<1>4. QED
  BY <1>1, <1>2, <1>3 DEF IInv

\* A word is taken up, or judged at once when there is no flookup.
LEMMA IsValidStep ==
    ASSUME IInv, IsValid
    PROVE  IInv'
<1>1. /\ asking \in Seq(Form) /\ asking # <<>> /\ asking' = Tail(asking) /\ current = <<>>
      /\ UNCHANGED <<flookup, document, state, first, pipes>>
  BY DEF IsValid, IInv, Types
<1>2. PICK word \in Form : word = Head(asking)
  BY <1>1, HeadTailProperties
<1>3. asking' \in Seq(Form)
  BY <1>1, HeadTailProperties
<1>4. tries = <<>> /\ state = "idle"
  BY <1>1 DEF IInv, Asking
<1>5. CASE flookup = "none"
  <2>1. verdicts' = Append(verdicts, <<word, FALSE>>) /\ UNCHANGED <<current, tries>>
    BY <1>2, <1>5 DEF IsValid
  <2>2. <<word, FALSE>> \in Form \X BOOLEAN /\ verdicts \in Seq(Form \X BOOLEAN)
    BY DEF IInv, Types
  <2>3. /\ verdicts' \in Seq(Form \X BOOLEAN)
        /\ \A i \in 1 .. Len(verdicts) : verdicts'[i] = verdicts[i]
        /\ verdicts'[Len(verdicts) + 1] = <<word, FALSE>>
        /\ DOMAIN verdicts = 1 .. Len(verdicts) /\ DOMAIN verdicts' = 1 .. Len(verdicts) + 1
        /\ Len(verdicts) \in Nat
    <3>1. /\ verdicts' \in Seq(Form \X BOOLEAN) /\ Len(verdicts') = Len(verdicts) + 1
          /\ \A i \in 1 .. Len(verdicts) : verdicts'[i] = verdicts[i]
          /\ verdicts'[Len(verdicts) + 1] = <<word, FALSE>>
      <4>1. PICK verdict \in Form \X BOOLEAN : verdict = <<word, FALSE>>
        BY <2>2
      <4>2. verdicts' = Append(verdicts, verdict)
        BY <2>1, <4>1
      <4>3. /\ verdicts' \in Seq(Form \X BOOLEAN) /\ Len(verdicts') = Len(verdicts) + 1
            /\ \A i \in 1 .. Len(verdicts) : verdicts'[i] = verdicts[i]
            /\ verdicts'[Len(verdicts) + 1] = verdict
        BY <2>2, <4>2, AppendProperties
      <4>4. QED
        BY <4>1, <4>3
    <3>2. DOMAIN verdicts = 1 .. Len(verdicts) /\ Len(verdicts) \in Nat
      BY <2>2, LenProperties
    <3>3. DOMAIN verdicts' = 1 .. Len(verdicts')
      BY <3>1, LenProperties
    <3>4. QED
      BY <3>1, <3>2, <3>3
  <2>4. Types' /\ Asking' /\ Leftovers'
    BY <1>1, <1>3, <2>1, <2>3 DEF IInv, Types, Asking, Leftovers, OnTheWay, pipes
  <2>5. Ahead'
    BY <1>1, <2>1 DEF Ahead
  <2>6. Own'
    BY <1>1, <2>1 DEF IInv, Own, pipes
  <2>7. VerdictsOwn'
    <3> DEFINE known(w) == \E form \in ToSet(Forms(w)) : form \in Known
    <3> SUFFICES ASSUME splits = 0, NEW i \in DOMAIN verdicts'
                 PROVE  verdicts'[i][2] => known(verdicts'[i][1])
      BY <1>1, <1>5 DEF VerdictsOwn, pipes
    <3>1. \A l \in DOMAIN verdicts : verdicts[l][2] => known(verdicts[l][1])
      BY DEF IInv, VerdictsOwn
    <3> HIDE DEF known
    <3>2. CASE i \in 1 .. Len(verdicts)
      BY <2>3, <3>1, <3>2
    <3>3. CASE i = Len(verdicts) + 1
      <4>1. verdicts'[i] = <<word, FALSE>>
        BY <2>3, <3>3
      <4>2. ~verdicts'[i][2]
        BY <4>1
      <4>3. QED
        BY <4>2
    <3>4. QED
      BY <2>3, <3>2, <3>3
  <2>8. QED
    BY <2>4, <2>5, <2>6, <2>7 DEF IInv
<1>6. CASE flookup # "none"
  <2>1. current' = <<word>> /\ tries' = Forms(word) /\ verdicts' = verdicts
    BY <1>2, <1>6 DEF IsValid
  <2>2. /\ Forms(word) \in Seq(Form) /\ Len(Forms(word)) \in Nat \ {0} /\ Forms(word) # <<>>
    BY FormsOfWord, EmptySeq
  <2>3. Types' /\ Asking' /\ Leftovers'
    BY <1>1, <1>3, <1>4, <2>1, <2>2 DEF IInv, Types, Asking, Leftovers, OnTheWay, pipes
  <2>4. Ahead'
    <3>1. Forms(word) = SubSeq(Forms(word), 1, Len(Forms(word))) /\ 1 \in 1 .. Len(Forms(word))
      BY <2>2, SubSeqFull
    <3>2. current'[1] = word
      BY <2>1
    <3>3. QED
      BY <2>1, <3>1, <3>2 DEF Ahead
  <2>5. Own'
    <3> SUFFICES ASSUME splits = 0
                 PROVE  ~unsent /\ Len(toLookup) = 0 /\ Len(toPlugin) = 0
      BY <1>1, <1>4 DEF Own, pipes
    <3>1. Len(toLookup) \in Nat /\ Len(toPlugin) \in Nat /\ unsent \in BOOLEAN
      BY LenProperties DEF IInv, Types
    <3>2. QED
      BY <1>4, <3>1 DEF IInv, Leftovers, OnTheWay, Bit
  <2>6. VerdictsOwn'
    BY <1>1, <2>1 DEF IInv, VerdictsOwn, pipes
  <2>7. QED
    BY <2>3, <2>4, <2>5, <2>6 DEF IInv
<1>7. QED
  BY <1>5, <1>6

\* A question goes out.
LEMMA WriteStep ==
    ASSUME IInv, Write
    PROVE  IInv'
<1>1. /\ state = "idle" /\ tries # <<>> /\ flookup = "running" /\ state' = "reading"
      /\ toLookup' = Append(toLookup, Head(tries))
      /\ UNCHANGED <<flookup, office, current, tries, first, unsent, toPlugin, splits>>
  BY DEF Write
<1>2. toLookup \in Seq(Form) /\ Head(tries) \in Form
  BY <1>1, HeadTailProperties DEF IInv, Types
<1>3. /\ toLookup' \in Seq(Form) /\ Len(toLookup') = Len(toLookup) + 1 /\ Len(toLookup) \in Nat
      /\ \A i \in 1 .. Len(toLookup) : toLookup'[i] = toLookup[i]
      /\ toLookup'[Len(toLookup) + 1] = Head(tries)
  BY <1>1, <1>2, AppendProperties, LenProperties
<1>4. Len(toPlugin) \in Nat /\ unsent \in BOOLEAN
  BY LenProperties DEF IInv, Types
<1>5. Types'
  BY <1>1, <1>3 DEF IInv, Types, office
<1>6. Asking'
  BY <1>1 DEF IInv, Asking, office
<1>7. Leftovers'
  BY <1>1, <1>3, <1>4 DEF IInv, Types, Leftovers, OnTheWay, Bit
<1>8. Ahead'
  BY <1>1 DEF IInv, Ahead
<1>9. Own'
  BY <1>1, <1>3 DEF IInv, Own
<1>10. VerdictsOwn'
  BY <1>1 DEF IInv, VerdictsOwn, office
<1>11. QED
  BY <1>5, <1>6, <1>7, <1>8, <1>9, <1>10 DEF IInv

\* The four bytes that decide are taken.
LEMMA ReadFourStep ==
    ASSUME IInv, ReadFour
    PROVE  IInv'
<1>1. /\ state = "reading" /\ toPlugin # <<>> /\ state' = "taken"
      /\ first' = (Head(toPlugin) # "unknown") /\ toPlugin' = Tail(toPlugin)
      /\ UNCHANGED <<flookup, office, current, tries, toLookup, unsent, splits>>
  BY DEF ReadFour
<1>2. toPlugin \in Seq({"known", "unknown", "rest"})
  BY DEF IInv, Types
<1>3. /\ toPlugin' \in Seq({"known", "unknown", "rest"}) /\ Len(toPlugin') = Len(toPlugin) - 1
      /\ \A i \in 1 .. Len(Tail(toPlugin)) : toPlugin'[i] = toPlugin[i + 1]
      /\ Head(toPlugin) = toPlugin[1] /\ Len(toPlugin) \in Nat \ {0}
  BY <1>1, <1>2, HeadTailProperties, EmptySeq
<1>4. Len(toLookup) \in Nat /\ unsent \in BOOLEAN
  BY LenProperties DEF IInv, Types
<1>5. Types'
  <2>1. first' \in BOOLEAN
    BY <1>1
  <2>2. QED
    BY <1>1, <1>3, <2>1 DEF IInv, Types, office
<1>6. Asking'
  BY <1>1 DEF IInv, Asking, office
<1>7. Leftovers'
  BY <1>1, <1>3, <1>4 DEF IInv, Types, Leftovers, OnTheWay, Bit
<1>8. Ahead'
  BY <1>1 DEF IInv, Ahead
<1>9. Own'
  <2> SUFFICES ASSUME splits = 0
               PROVE  /\ ~unsent
                      /\ \A i \in 1 .. Len(toLookup) : toLookup[i] = Head(tries)
                      /\ \A i \in 1 .. Len(toPlugin') :
                          toPlugin'[i] = IF Head(tries) \in Known THEN "known" ELSE "unknown"
                      /\ first' = (Head(tries) \in Known)
    BY <1>1 DEF Own
  <2>1. /\ ~unsent
        /\ \A i \in 1 .. Len(toLookup) : toLookup[i] = Head(tries)
        /\ \A i \in 1 .. Len(toPlugin) :
            toPlugin[i] = IF Head(tries) \in Known THEN "known" ELSE "unknown"
    BY DEF IInv, Own
  <2>2. \A i \in 1 .. Len(toPlugin') :
          toPlugin'[i] = IF Head(tries) \in Known THEN "known" ELSE "unknown"
    BY <1>1, <1>3, <2>1
  <2>3. Head(toPlugin) = IF Head(tries) \in Known THEN "known" ELSE "unknown"
    BY <1>3, <2>1
  <2>4. first' = (Head(tries) \in Known)
    BY <1>1, <2>3
  <2>5. QED
    BY <2>1, <2>2, <2>4
<1>10. VerdictsOwn'
  BY <1>1 DEF IInv, VerdictsOwn, office
<1>11. QED
  BY <1>5, <1>6, <1>7, <1>8, <1>9, <1>10 DEF IInv

\* The four ways in which a form is judged.
LEMMA JudgingStep ==
    ASSUME IInv, WriteToDead \/ ReadShort \/ ReadEnd \/ ReadRest
    PROVE  IInv'
<1>1. /\ Types /\ Asking /\ Ahead /\ VerdictsOwn
      /\ Len(toLookup) \in Nat /\ Len(toPlugin) \in Nat /\ unsent \in BOOLEAN /\ splits \in Nat
  BY LenProperties DEF IInv, Types
<1>2. tries # <<>>
  BY DEF IInv, Asking, WriteToDead, ReadShort, ReadEnd, ReadRest
<1>3. PICK valid \in BOOLEAN :
        /\ Judge(valid)
        /\ splits = 0 => /\ valid => Head(tries) \in Known
                         /\ flookup = "running" => (Head(tries) \in Known => valid)
  <2>1. CASE WriteToDead \/ ReadEnd
    BY <2>1 DEF WriteToDead, ReadEnd
  <2>2. CASE ReadShort
    <3>1. splits # 0
      <4>1. toPlugin = <<"rest">>
        BY <2>2 DEF ReadShort
      <4>2. Len(toPlugin) = 1 /\ toPlugin[1] = "rest"
        BY <4>1
      <4>3. QED
        BY <4>2 DEF IInv, Own
    <3>2. QED
      BY <2>2, <3>1 DEF ReadShort
  <2>3. CASE ReadRest
    <3>1. splits = 0 => first = (Head(tries) \in Known)
      BY <2>3 DEF IInv, Own, ReadRest
    <3>2. QED
      BY <1>1, <2>3, <3>1 DEF ReadRest, Types
  <2>4. QED
    BY <2>1, <2>2, <2>3
<1>4. /\ UNCHANGED <<flookup, document, asking>> /\ state' = "idle"
      /\ UNCHANGED <<first, toLookup, unsent, splits>>
  BY <1>3 DEF Judge, WriteToDead, ReadShort, ReadEnd, ReadRest, pipes
<1>5. /\ Ahead' /\ VerdictsOwn'
      /\ (current' = <<>>) = (tries' = <<>>)
      /\ tries' \in Seq(Form) /\ verdicts' \in Seq(Form \X BOOLEAN)
      /\ current' = <<>> \/ current' = current
  BY <1>1, <1>2, <1>3, <1>4, JudgeStep
<1>6. toPlugin' \in Seq({"known", "unknown", "rest"}) /\ Len(toPlugin') \in Nat /\ Len(toPlugin') <= Len(toPlugin)
  <2>1. toPlugin' = toPlugin \/ toPlugin' = <<>>
    BY DEF WriteToDead, ReadShort, ReadEnd, ReadRest, pipes
  <2>2. <<>> \in Seq({"known", "unknown", "rest"}) /\ Len(<<>>) = 0
    BY EmptySeq
  <2>3. toPlugin \in Seq({"known", "unknown", "rest"})
    BY <1>1 DEF Types
  <2>4. CASE toPlugin' = toPlugin
    BY <1>1, <2>3, <2>4
  <2>5. CASE toPlugin' = <<>>
    BY <1>1, <2>2, <2>5
  <2>6. QED
    BY <2>1, <2>4, <2>5
<1>7. Types'
  BY <1>1, <1>4, <1>5, <1>6 DEF Types
<1>8. Asking'
  BY <1>1, <1>4, <1>5 DEF Asking
<1>9. Leftovers'
  <2>1. CASE WriteToDead \/ ReadRest
    <3>1. state # "reading"
      BY <2>1 DEF WriteToDead, ReadRest
    <3>2. QED
      BY <1>1, <1>4, <1>6, <3>1 DEF IInv, Leftovers, OnTheWay, Bit
  <2>2. CASE ReadShort
    <3>1. toPlugin = <<"rest">> /\ toPlugin' = <<>>
      BY <2>2 DEF ReadShort
    <3>2. Len(toPlugin) = 1 /\ Len(toPlugin') = 0
      BY <3>1
    <3>3. QED
      BY <1>1, <1>4, <3>2 DEF IInv, Leftovers, OnTheWay, Bit
  <2>3. CASE ReadEnd
    <3>1. toPlugin = <<>> /\ toPlugin' = toPlugin /\ flookup = "dead"
      BY <2>3 DEF ReadEnd, pipes
    <3>2. toLookup = <<>> /\ ~unsent
      BY <1>1, <3>1 DEF Asking
    <3>3. Len(toPlugin) = 0 /\ Len(toLookup) = 0
      BY <3>1, <3>2
    <3>4. QED
      BY <1>1, <1>4, <3>1, <3>2, <3>3 DEF Leftovers, OnTheWay, Bit
  <2>4. QED
    BY <2>1, <2>2, <2>3
<1>10. Own'
  <2> SUFFICES ASSUME splits = 0
               PROVE  ~unsent /\ Len(toLookup') = 0 /\ Len(toPlugin') = 0
    BY <1>4 DEF Own
  <2>1. toLookup' = toLookup /\ unsent' = unsent /\ splits' = 0 /\ state' # "reading"
    BY <1>4
  <2>2. Len(toLookup) + Len(toPlugin') + Bit(unsent) <= 0
    BY <1>9, <2>1 DEF Leftovers, OnTheWay, Bit
  <2>3. QED
    BY <1>1, <1>6, <2>1, <2>2 DEF Bit
<1>11. QED
  BY <1>5, <1>7, <1>8, <1>9, <1>10 DEF IInv

\* flookup answers, or the rest of an answer follows.
LEMMA AnswerStep ==
    ASSUME IInv, AnswerForm
    PROVE  IInv'
<1> DEFINE form   == Head(toLookup)
           answer == IF form \in Known THEN "known" ELSE "unknown"
<1>1. /\ flookup = "running" /\ ~unsent /\ toLookup # <<>>
      /\ toPlugin' = Append(toPlugin, answer)
      /\ unsent' = (form \in Long) /\ splits' = splits + Bit(form \in Long)
      /\ toLookup' = Tail(toLookup)
      /\ UNCHANGED <<flookup, office, current, tries, state, first>>
  BY DEF AnswerForm, Bit
<1>2. toLookup \in Seq(Form) /\ toPlugin \in Seq({"known", "unknown", "rest"}) /\ splits \in Nat
  BY DEF IInv, Types
<1>3. /\ toLookup' \in Seq(Form) /\ Len(toLookup') = Len(toLookup) - 1
      /\ \A i \in 1 .. Len(Tail(toLookup)) : toLookup'[i] = toLookup[i + 1]
      /\ form = toLookup[1] /\ Len(toLookup) \in Nat \ {0}
  BY <1>1, <1>2, HeadTailProperties, EmptySeq
<1>4. answer \in {"known", "unknown", "rest"}
  OBVIOUS
<1> HIDE DEF answer
<1>5. /\ toPlugin' \in Seq({"known", "unknown", "rest"}) /\ Len(toPlugin') = Len(toPlugin) + 1
      /\ \A i \in 1 .. Len(toPlugin) : toPlugin'[i] = toPlugin[i]
      /\ toPlugin'[Len(toPlugin) + 1] = answer /\ Len(toPlugin) \in Nat
  BY <1>1, <1>2, <1>4, AppendProperties, LenProperties
<1>6. unsent' \in BOOLEAN /\ Bit(form \in Long) \in {0, 1} /\ Bit(unsent') = Bit(form \in Long)
  <2>1. unsent' = (form \in Long)
    BY <1>1
  <2>2. (form \in Long) \in BOOLEAN
    OBVIOUS
  <2>3. Bit(form \in Long) \in {0, 1}
    BY DEF Bit
  <2>4. unsent' = (form \in Long) => Bit(unsent') = Bit(form \in Long)
    BY DEF Bit
  <2>5. QED
    BY <2>1, <2>2, <2>3, <2>4
<1>7. Types'
  BY <1>1, <1>2, <1>3, <1>5, <1>6 DEF IInv, Types, office
<1>8. Asking'
  BY <1>1 DEF IInv, Asking, office
<1>9. Leftovers'
  <2>1. Len(toLookup) + Len(toPlugin) <= splits + Bit(state = "reading")
    BY <1>1, <1>3, <1>5 DEF IInv, Leftovers, OnTheWay, Bit
  <2>2. Bit(state = "reading") \in {0, 1} /\ state' = state
    BY <1>1 DEF Bit
  <2>3. Len(toLookup') + Len(toPlugin') + Bit(unsent')
          <= (splits + Bit(form \in Long)) + Bit(state = "reading")
    BY <1>2, <1>3, <1>5, <1>6, <2>1, <2>2
  <2>4. QED
    BY <1>1, <2>2, <2>3 DEF Leftovers, OnTheWay
<1>10. splits' = 0 => splits = 0 /\ form \notin Long
  BY <1>1, <1>2 DEF Bit
<1>11. Ahead'
  BY <1>1, <1>10 DEF IInv, Ahead
<1>12. Own'
  <2> SUFFICES ASSUME splits' = 0
               PROVE  /\ ~unsent'
                      /\ \A i \in 1 .. Len(toLookup') : toLookup'[i] = Head(tries)
                      /\ \A i \in 1 .. Len(toPlugin') :
                          toPlugin'[i] = IF Head(tries) \in Known THEN "known" ELSE "unknown"
                      /\ state = "taken" => first = (Head(tries) \in Known)
    BY <1>1 DEF Own
  <2>1. /\ \A i \in 1 .. Len(toLookup) : toLookup[i] = Head(tries)
        /\ \A i \in 1 .. Len(toPlugin) :
            toPlugin[i] = IF Head(tries) \in Known THEN "known" ELSE "unknown"
        /\ state = "taken" => first = (Head(tries) \in Known)
    BY <1>10 DEF IInv, Own
  <2>2. ~unsent'
    BY <1>1, <1>10
  <2>3. \A i \in 1 .. Len(toLookup') : toLookup'[i] = Head(tries)
    BY <1>1, <1>3, <2>1
  <2>4. answer = IF Head(tries) \in Known THEN "known" ELSE "unknown"
    BY <1>3, <2>1 DEF answer
  <2>5. \A i \in 1 .. Len(toPlugin') :
          toPlugin'[i] = IF Head(tries) \in Known THEN "known" ELSE "unknown"
    BY <1>5, <2>1, <2>4
  <2>6. QED
    BY <2>1, <2>2, <2>3, <2>5
<1>13. VerdictsOwn'
  BY <1>1, <1>10 DEF IInv, VerdictsOwn, office
<1>14. QED
  BY <1>7, <1>8, <1>9, <1>11, <1>12, <1>13 DEF IInv

LEMMA AnswerRestStep ==
    ASSUME IInv, AnswerRest
    PROVE  IInv'
<1>1. /\ flookup = "running" /\ unsent /\ unsent' = FALSE
      /\ toPlugin' = Append(toPlugin, "rest")
      /\ UNCHANGED <<flookup, office, current, tries, state, first, toLookup, splits>>
  BY DEF AnswerRest
<1>2. /\ toPlugin' \in Seq({"known", "unknown", "rest"}) /\ Len(toPlugin') = Len(toPlugin) + 1
      /\ Len(toPlugin) \in Nat /\ Len(toLookup) \in Nat
  BY <1>1, AppendProperties, LenProperties DEF IInv, Types
<1>3. splits # 0
  BY <1>1 DEF IInv, Own
<1>4. Types'
  BY <1>1, <1>2 DEF IInv, Types, office
<1>5. Asking'
  BY <1>1 DEF IInv, Asking, office
<1>6. Leftovers'
  BY <1>1, <1>2 DEF IInv, Types, Leftovers, OnTheWay, Bit
<1>7. Ahead'
  BY <1>1 DEF IInv, Ahead
<1>8. Own' /\ VerdictsOwn'
  BY <1>1, <1>3 DEF Own, VerdictsOwn
<1>9. QED
  BY <1>4, <1>5, <1>6, <1>7, <1>8 DEF IInv

\* The process ends: what it has written is still there.
LEMMA DieStep ==
    ASSUME IInv, Die
    PROVE  IInv'
<1>1. /\ flookup = "running" /\ flookup' = "dead" /\ toLookup' = <<>> /\ unsent' = FALSE
      /\ UNCHANGED <<office, current, tries, state, first, toPlugin, splits>>
  BY DEF Die
<1>2. /\ toLookup' \in Seq(Form) /\ Len(toLookup') = 0
      /\ Len(toLookup) \in Nat /\ Len(toPlugin) \in Nat
  BY <1>1, EmptySeq, LenProperties DEF IInv, Types
<1>3. Types'
  BY <1>1, <1>2 DEF IInv, Types, office
<1>4. Asking'
  BY <1>1 DEF IInv, Asking, office
<1>5. Leftovers'
  BY <1>1, <1>2 DEF IInv, Types, Leftovers, OnTheWay, Bit
<1>6. Ahead'
  BY <1>1 DEF IInv, Ahead
<1>7. Own'
  BY <1>1, <1>2 DEF IInv, Own
<1>8. VerdictsOwn'
  BY <1>1 DEF IInv, VerdictsOwn, office
<1>9. QED
  BY <1>3, <1>4, <1>5, <1>6, <1>7, <1>8 DEF IInv

-------------------------------------------------------------------------------
LEMMA Step == IInv /\ [PluginNext]_pluginVars => IInv'
<1> SUFFICES ASSUME IInv, [PluginNext]_pluginVars
             PROVE  IInv'
  OBVIOUS
<1>1. asking \in Seq(Form) /\ document \in Seq(Form)
  BY DEF IInv, Types
<1>2. CASE AddListener \/ RemoveListener
  BY <1>1, <1>2, OfficeStep DEF AddListener, RemoveListener
<1>3. CASE Open \/ RecheckDocument
  <2>1. asking \o document \in Seq(Form)
    BY <1>1, ConcatProperties
  <2>2. QED
    BY <1>3, <2>1, OfficeStep DEF Open, RecheckDocument, Check
<1>4. CASE IsValid
  BY <1>4, IsValidStep
<1>5. CASE Write
  BY <1>5, WriteStep
<1>6. CASE WriteToDead \/ ReadShort \/ ReadEnd \/ ReadRest
  BY <1>6, JudgingStep
<1>7. CASE ReadFour
  BY <1>7, ReadFourStep
<1>8. CASE Alternatives
  BY <1>1, <1>8, OfficeStep DEF Alternatives
<1>9. CASE AnswerForm
  BY <1>9, AnswerStep
<1>10. CASE AnswerRest
  BY <1>10, AnswerRestStep
<1>11. CASE Die
  BY <1>11, DieStep
<1>12. CASE UNCHANGED pluginVars
  BY <1>1, <1>12, OfficeStep DEF pluginVars, office
<1>13. QED
  BY <1>2, <1>3, <1>4, <1>5, <1>6, <1>7, <1>8, <1>9, <1>10, <1>11, <1>12 DEF PluginNext, PluginStep

\* The plugin asks one form at a time, whatever the processes do.
THEOREM Inductive == PluginSpec => []IInv
BY InitEstablishesIInv, Step, PTL DEF PluginSpec

\* The types, and the bound on what is left in the pipes between two look-ups: as
\* many parts of answers as there were answers in two parts.
THEOREM TypeCorrect == PluginSpec => []PluginTypes
<1>1. IInv => PluginTypes
  BY DEF IInv, Types, Asking, Leftovers, OnTheWay, Bit, PluginTypes
<1>2. QED
  BY <1>1, Inductive, PTL

\* As long as no answer came in two parts a word is judged by its own answers, for
\* all documents and all words that flookup knows.
THEOREM JudgedByOwn == PluginSpec => []VerdictsOwn
<1>1. IInv => VerdictsOwn
  BY DEF IInv
<1>2. QED
  BY <1>1, Inductive, PTL

-------------------------------------------------------------------------------
(***************************************************************************)
(* The programs that look words up one after the other.                    *)
(***************************************************************************)
Entries == [comma : BOOLEAN, results : Seq(Found)]

ProgramTypesAll ==
    /\ tool \in Tools
    /\ phase \in {"start", "running", "ended", "failed", "aborted"}
    /\ limit \in Nat
    /\ text \in Seq(Words) /\ waiting \in Seq(Words)
    /\ report \in Seq(Entries) /\ corr \in Seq(Entries)
    /\ str \in Seq(Found)

\* Two of the programs hold correct words back.
Sorts == tool \in {"json", "list"}

\* What a program is given, the words that it prints something for at once, and what.
Given  == IF Sorts THEN Tokens(text) ELSE text
Wanted == IF Sorts THEN Words \ Recognized
          ELSE IF tool = "suggest" THEN WithSimilar
          ELSE Words \ {Empty}
Reply(w) == IF Sorts THEN Suggestions(w, limit)
            ELSE IF tool \in {"spellcheck", "server"} THEN SpellAnswer(w, limit)
            ELSE IF Med[w] = 0 THEN Hopeless(w)
            ELSE Similar(w)
Fits(e, i, w) == IF tool = "suggest" THEN IsSuffix(Similar(w), e.results)
                 ELSE e = Entry(Sorts /\ i > 1, Reply(w))

\* The words d are behind the program.
Behind(d) ==
    /\ Cat(d, waiting) = Given
    /\ Len(report) = Len(Only(d, Wanted))
    /\ \A i \in 1 .. Len(report) : Fits(report[i], i, Only(d, Wanted)[i])
    /\ Sorts => /\ Len(corr) = Len(Only(d, Recognized))
                /\ \A i \in 1 .. Len(corr) : corr[i] = Entry(i > 1, Correct(Only(d, Recognized)[i]))

ProgramInv ==
    /\ ProgramTypesAll
    /\ phase = "start" => waiting = text /\ report = <<>> /\ corr = <<>>
    /\ phase = "running" => \E d \in Seq(Words) : Behind(d)
    /\ ReportComplete

LEMMA SimilarType ==
    ASSUME NEW w \in Words, limit \in Nat
    PROVE  Similar(w) \in Seq(Found)
BY WordAnswers DEF Similar

LEMMA FilterTypes ==
    ASSUME NEW d \in Seq(Words), NEW S
    PROVE  /\ Only(d, S) \in Seq(Words) /\ Len(Only(d, S)) \in Nat
           /\ \A i \in 1 .. Len(Only(d, S)) : Only(d, S)[i] \in Words /\ Only(d, S)[i] \in S
           /\ Tokens(d) = Only(d, Words \ {Empty}) /\ Tokens(d) \in Seq(Words)
           /\ Without(d, S) = Only(d, Words \ S)
<1>1. Only(d, S) \in Seq(Words)
  BY OnlyType
<1>2. Only(d, S) \in Seq(Words \cap S)
  <2>1. \A z \in Seq(Words) : Only(z, S) \in Seq(Words \cap S)
    BY OnlyMembers, Zenon
  <2>2. QED
    BY <2>1
<1>3. \A i \in 1 .. Len(Only(d, S)) : Only(d, S)[i] \in Words \cap S
  BY <1>2, ElementOfSeq, Zenon
<1>4. Tokens(d) = Only(d, Words \ {Empty}) /\ Without(d, S) = Only(d, Words \ S)
  BY WithoutIsOnly DEF Tokens
<1>5. Tokens(d) \in Seq(Words)
  BY <1>4, OnlyType
<1>6. QED
  BY <1>1, <1>3, <1>4, <1>5, LenProperties

\* A sequence ends in what was added to it.
LEMMA EndsIn ==
    ASSUME NEW T, NEW s \in Seq(T), NEW t \in Seq(T)
    PROVE  IsSuffix(t, s \o t)
<1> DEFINE u == s \o t
           a == Reverse(t)
           b == Reverse(u)
<1>1. /\ Len(s) \in Nat /\ Len(t) \in Nat /\ u \in Seq(T) /\ Len(u) = Len(s) + Len(t)
      /\ \A i \in 1 .. Len(t) : u[Len(s) + i] = t[i]
  BY LenProperties
<1> HIDE DEF u
<1>2. /\ a = [i \in 1 .. Len(t) |-> t[(Len(t) - i) + 1]]
      /\ b = [i \in 1 .. Len(u) |-> u[(Len(u) - i) + 1]]
  BY DEF Reverse
<1>3. /\ a \in Seq(T) /\ Len(a) = Len(t) /\ b \in Seq(T) /\ Len(b) = Len(u)
  <2>1. \A z \in Seq(T) : \A n \in Nat : Len(z) = n =>
          /\ [i \in 1 .. n |-> z[(n - i) + 1]] \in Seq(T)
          /\ Len([i \in 1 .. n |-> z[(n - i) + 1]]) = n
    OBVIOUS
  <2> HIDE DEF a, b
  <2>2. QED
    BY <1>1, <1>2, <2>1
<1>4. \A i \in 1 .. Len(t) : a[i] = b[i]
  <2> TAKE i \in 1 .. Len(t)
  <2>1. i \in 1 .. Len(u) /\ (Len(u) - i) + 1 = Len(s) + ((Len(t) - i) + 1) /\ (Len(t) - i) + 1 \in 1 .. Len(t)
    BY <1>1
  <2>2. a[i] = t[(Len(t) - i) + 1] /\ b[i] = u[(Len(u) - i) + 1]
    BY <1>2, <2>1
  <2>3. QED
    BY <1>1, <2>1, <2>2
<1> HIDE DEF a, b
<1>5. Len(t) \in 0 .. Len(b) /\ Len(a) \in 0 .. Len(a) /\ Len(a) <= Len(b)
  BY <1>1, <1>3
<1>6. SubSeq(a, 1, Len(a)) = a
  BY <1>3, Beginnings
<1>7. /\ SubSeq(b, 1, Len(t)) \in Seq(T) /\ Len(SubSeq(b, 1, Len(t))) = Len(t)
      /\ \A k \in 1 .. Len(t) : SubSeq(b, 1, Len(t))[k] = b[k]
  BY <1>3, <1>5, FirstOnes, Beginnings
<1>8. SubSeq(b, 1, Len(t)) = a
  <2> DEFINE c == SubSeq(b, 1, Len(t))
  <2>1. c \in Seq(T) /\ Len(c) = Len(a) /\ \A k \in 1 .. Len(c) : c[k] = a[k]
    BY <1>3, <1>4, <1>7
  <2> HIDE DEF c
  <2>2. c = a
    BY <2>1, <1>3, SeqEqual
  <2>3. QED
    BY <2>2 DEF c
<1>9. QED
  BY <1>3, <1>5, <1>6, <1>8 DEF IsSuffix, IsPrefix, a, b, u

LEMMA ProgramStart == ProgramInit => ProgramInv
<1> SUFFICES ASSUME ProgramInit PROVE ProgramInv
  OBVIOUS
<1>1. PICK which \in Tools, words \in Texts, stack \in {<<>>, Hopeless(Empty)} :
          ProgramInitWith(which, words, stack)
  BY DEF ProgramInit
<1>2. /\ tool \in Tools /\ phase = "start" /\ limit = 5 /\ text = words /\ waiting = words
      /\ report = <<>> /\ corr = <<>> /\ str = stack
  BY <1>1 DEF ProgramInitWith, Default
<1>3. words \in Seq(Words) /\ stack \in Seq(Found)
  BY ProgramsAssumption, WordAnswers, EmptySeq DEF ProgramsAssumption
<1>4. ProgramTypesAll
  BY <1>2, <1>3, EmptySeq DEF ProgramTypesAll
<1>5. ReportComplete
  BY <1>2 DEF ReportComplete
<1>6. QED
  BY <1>2, <1>4, <1>5 DEF ProgramInv

\* Before the first word.
LEMMA Starts ==
    ASSUME ProgramInv, NEW option \in Limits, NEW fault \in BOOLEAN, Start(option, fault), waiting' = Given
    PROVE  ProgramInv'
<1>1. ProgramTypesAll
  BY DEF ProgramInv
<1>2. /\ phase = "start" /\ phase' \in {"failed", "running"} /\ limit' = IF option = 0 THEN limit ELSE option
      /\ tool' = tool /\ text' = text /\ report' = report /\ corr' = corr /\ str' = str
  BY DEF Start
<1>3. report = <<>> /\ corr = <<>>
  BY <1>2 DEF ProgramInv
<1>4. Given \in Seq(Words)
  <2>1. text \in Seq(Words)
    BY <1>1 DEF ProgramTypesAll
  <2>2. Tokens(text) \in Seq(Words)
    BY <2>1, FilterTypes
  <2>3. QED
    BY <2>1, <2>2 DEF Given
<1>5. ProgramTypesAll'
  BY <1>1, <1>2, <1>4, ProgramsAssumption DEF ProgramTypesAll, ProgramsAssumption
<1>6. <<>> \in Seq(Words) /\ Cat(<<>>, Given) = Given
  BY <1>4, CatLaws
<1>7. Behind(<<>>)'
  <2>1. Given' = Given
    BY <1>2 DEF Given, Sorts
  <2>2. \A S : Len(Only(<<>>, S)) = 0
    BY OnlyEmpty, EmptySeq
  <2>3. Len(report') = 0 /\ Len(corr') = 0
    BY <1>2, <1>3, EmptySeq
  <2>4. \A i \in 1 .. 0 : FALSE
    OBVIOUS
  <2>5. QED
    BY <1>6, <2>1, <2>2, <2>3, <2>4 DEF Behind
<1>8. ReportComplete'
  BY <1>2 DEF ReportComplete
<1>9. QED
  BY <1>2, <1>5, <1>6, <1>7, <1>8 DEF ProgramInv

\* One word more is behind the program.
LEMMA GoesOn ==
    ASSUME ProgramTypesAll, NEW d \in Seq(Words), Behind(d), waiting # <<>>, waiting' = Tail(waiting),
           UNCHANGED <<tool, phase, limit, text>>, phase = "running",
           Head(waiting) \in Wanted =>
               \E e \in Entries : /\ report' = Append(report, e)
                                  /\ Fits(e, Len(report) + 1, Head(waiting)),
           Head(waiting) \notin Wanted => report' = report,
           Sorts => corr' = IF Head(waiting) \in Recognized
                            THEN Append(corr, Entry(corr # <<>>, Correct(Head(waiting))))
                            ELSE corr,
           ~Sorts => corr' = corr,
           str' \in Seq(Found)
    PROVE  ProgramInv'
<1>0. PICK n : n = Append(d, Head(waiting))
  OBVIOUS
<1> DEFINE x == Head(waiting)
           q == Only(d, Wanted)
           h == Only(d, Recognized)
<1>1. /\ tool \in Tools /\ limit \in Nat /\ text \in Seq(Words) /\ waiting \in Seq(Words)
      /\ report \in Seq(Entries) /\ corr \in Seq(Entries)
  BY DEF ProgramTypesAll
<1>2. x \in Words /\ waiting' \in Seq(Words) /\ n \in Seq(Words) /\ Cat(n, waiting') = Cat(d, waiting)
  <2>1. x \in Words /\ Tail(waiting) \in Seq(Words)
    BY <1>1, CatHeadTail
  <2>2. Cat(Append(d, x), Tail(waiting)) = Cat(d, waiting)
    BY <1>1, MoveOne
  <2>3. QED
    BY <1>0, <2>1, <2>2, AppendProperties
<1> HIDE DEF x
<1>3. \A S : /\ Only(d, S) \in Seq(Words)
             /\ Only(n, S) = IF x \in S THEN Append(Only(d, S), x) ELSE Only(d, S)
  <2>1. \A S : \A z \in Seq(Words) : \A y \in Words :
            Only(Append(z, y), S) = IF y \in S THEN Append(Only(z, S), y) ELSE Only(z, S)
    BY OnlyOneMore, Zenon
  <2>2. n = Append(d, x)
    BY <1>0 DEF x
  <2>3. QED
    BY <2>1, <2>2, <1>2, OnlyType, Zenon
<1>4. /\ Len(report) = Len(q) /\ \A i \in 1 .. Len(report) : Fits(report[i], i, q[i])
      /\ Cat(d, waiting) = Given
      /\ Sorts => /\ Len(corr) = Len(h)
                  /\ \A i \in 1 .. Len(corr) : corr[i] = Entry(i > 1, Correct(h[i]))
  BY DEF Behind
<1>5. q \in Seq(Words) /\ h \in Seq(Words) /\ Len(q) \in Nat /\ Len(h) \in Nat
  BY <1>3, LenProperties
<1>6. Only(n, Wanted) = IF x \in Wanted THEN Append(q, x) ELSE q
  BY <1>3, Zenon
<1>7. Only(n, Recognized) = IF x \in Recognized THEN Append(h, x) ELSE h
  BY <1>3, Zenon
<1> HIDE DEF q, h
<1>8. /\ tool' = tool /\ limit' = limit /\ text' = text /\ phase' = phase
      /\ Sorts' = Sorts /\ Given' = Given /\ Wanted' = Wanted
      /\ \A e, i, w : Fits(e, i, w)' = Fits(e, i, w)
  <2>1. tool' = tool /\ limit' = limit /\ text' = text /\ phase' = phase
    OBVIOUS
  <2>2. Sorts' = Sorts
    BY <2>1 DEF Sorts
  <2>3. Given' = Given /\ Wanted' = Wanted
    BY <2>1, <2>2 DEF Given, Wanted
  <2>4. \A w : Similar(w)' = Similar(w) /\ Reply(w)' = Reply(w)
    BY <2>1, <2>2 DEF Similar, Reply
  <2>5. \A e, i, w : Fits(e, i, w)' = Fits(e, i, w)
    BY <2>1, <2>2, <2>4 DEF Fits
  <2>6. QED
    BY <2>1, <2>2, <2>3, <2>5
<1>9. report' \in Seq(Entries) /\ Len(report') = Len(Only(n, Wanted))
      /\ \A i \in 1 .. Len(report') : Fits(report'[i], i, Only(n, Wanted)[i])
  <2>1. CASE x \in Wanted
    <3>1. PICK e \in Entries : report' = Append(report, e) /\ Fits(e, Len(report) + 1, x)
      BY <2>1 DEF x
    <3>2. /\ report' \in Seq(Entries) /\ Len(report') = Len(report) + 1 /\ report'[Len(report) + 1] = e
          /\ \A i \in 1 .. Len(report) : report'[i] = report[i]
      BY <1>1, <3>1, AppendProperties
    <3>3. /\ Len(Append(q, x)) = Len(q) + 1 /\ Append(q, x)[Len(q) + 1] = x
          /\ \A i \in 1 .. Len(q) : Append(q, x)[i] = q[i]
      BY <1>2, <1>5, AppendProperties
    <3>4. \A i \in 1 .. Len(q) + 1 : i \in 1 .. Len(q) \/ i = Len(q) + 1
      BY <1>5
    <3>5. Only(n, Wanted) = Append(q, x)
      BY <1>6, <2>1
    <3> DEFINE o == Append(q, x)
    <3> HIDE DEF o
    <3>6. \A i \in 1 .. Len(q) + 1 : Fits(report'[i], i, o[i])
      BY <3>1, <3>2, <3>3, <3>4, <1>4 DEF o
    <3>7. QED
      BY <3>2, <3>3, <3>5, <3>6, <1>4 DEF o
  <2>2. CASE x \notin Wanted
    BY <2>2, <1>1, <1>4, <1>6 DEF x
  <2>3. QED
    BY <2>1, <2>2
<1>10. /\ corr' \in Seq(Entries)
       /\ Sorts => /\ Len(corr') = Len(Only(n, Recognized))
                   /\ \A i \in 1 .. Len(corr') : corr'[i] = Entry(i > 1, Correct(Only(n, Recognized)[i]))
  <2>1. CASE Sorts /\ x \in Recognized
    <3> DEFINE e == Entry(corr # <<>>, Correct(x))
               o == Append(h, x)
    <3>1. e \in Entries
      BY <1>2, WordAnswers DEF Entry, Entries
    <3>2. corr' = Append(corr, e)
      BY <2>1 DEF x
    <3> HIDE DEF e
    <3>3. /\ corr' \in Seq(Entries) /\ Len(corr') = Len(corr) + 1 /\ corr'[Len(corr) + 1] = e
          /\ \A i \in 1 .. Len(corr) : corr'[i] = corr[i]
      BY <1>1, <3>1, <3>2, AppendProperties
    <3>4. /\ Len(o) = Len(h) + 1 /\ o[Len(h) + 1] = x
          /\ \A i \in 1 .. Len(h) : o[i] = h[i]
      BY <1>2, <1>5, AppendProperties
    <3>5. Only(n, Recognized) = o
      BY <1>7, <2>1
    <3> HIDE DEF o
    <3>6. Len(corr) = Len(h) /\ \A i \in 1 .. Len(h) : corr[i] = Entry(i > 1, Correct(h[i]))
      BY <1>4, <2>1
    <3>7. corr # <<>> <=> Len(h) + 1 > 1
      BY <1>1, <1>5, <3>6, EmptySeq
    <3>8. e = Entry(Len(h) + 1 > 1, Correct(o[Len(h) + 1]))
      BY <3>4, <3>7 DEF e, Entry
    <3>9. \A i \in 1 .. Len(h) : corr'[i] = Entry(i > 1, Correct(o[i]))
      BY <3>3, <3>4, <3>6
    <3>10. \A i \in 1 .. Len(h) + 1 : i \in 1 .. Len(h) \/ i = Len(h) + 1
      <4>1. \A k \in Nat : \A i \in 1 .. k + 1 : i \in 1 .. k \/ i = k + 1
        OBVIOUS
      <4>2. QED
        BY <1>5, <4>1, Zenon
    <3>11. \A i \in 1 .. Len(h) + 1 : corr'[i] = Entry(i > 1, Correct(o[i]))
      BY <3>3, <3>6, <3>8, <3>9, <3>10, Zenon
    <3>12. QED
      BY <3>3, <3>4, <3>5, <3>6, <3>11
  <2>2. CASE Sorts /\ x \notin Recognized
    BY <2>2, <1>1, <1>4, <1>7 DEF x
  <2>3. CASE ~Sorts
    BY <2>3, <1>1
  <2>4. QED
    BY <2>1, <2>2, <2>3
<1>11. Behind(n)'
  BY <1>2, <1>4, <1>8, <1>9, <1>10 DEF Behind
<1>12. ProgramTypesAll'
  BY <1>1, <1>2, <1>8, <1>9, <1>10 DEF ProgramTypesAll
<1>13. ReportComplete'
  BY <1>8 DEF ReportComplete
<1>14. QED
  BY <1>2, <1>8, <1>11, <1>12, <1>13 DEF ProgramInv

\* What is printed for one word is one entry or nothing.
LEMMA OneEntry ==
    ASSUME ProgramTypesAll, NEW e
    PROVE  /\ report \o <<e>> = Append(report, e)
           /\ report \o <<>> = report
<1>1. report \in Seq(Entries)
  BY DEF ProgramTypesAll
<1>2. \A T : \A z \in Seq(T) : z \o <<e>> = Append(z, e) /\ z \o <<>> = z
  OBVIOUS
<1>3. QED
  BY <1>1, <1>2, Zenon

LEMMA Handles ==
    ASSUME ProgramInv,
           HandleLine \/ HandleDatagram \/ HandleFmed \/ HandleSuggest \/ HandleJson \/ HandleList
    PROVE  ProgramInv'
<1> DEFINE x == Head(waiting)
<1>1. ProgramTypesAll
  BY DEF ProgramInv
<1>2. /\ tool \in Tools /\ limit \in Nat /\ text \in Seq(Words) /\ waiting \in Seq(Words)
      /\ report \in Seq(Entries) /\ corr \in Seq(Entries) /\ str \in Seq(Found)
  BY <1>1 DEF ProgramTypesAll
<1>3. /\ phase = "running" /\ waiting # <<>> /\ waiting' = Tail(waiting)
      /\ UNCHANGED <<tool, phase, limit, text>>
  BY DEF HandleLine, HandleDatagram, HandleFmed, HandleSuggest, HandleJson, HandleList,
         HoldBack, Suggest, NextWord
<1>4. PICK d \in Seq(Words) : Behind(d)
  BY <1>3 DEF ProgramInv
<1>5. x \in Words
  BY <1>2, <1>3, CatHeadTail
<1> HIDE DEF x
<1>6. /\ SpellAnswer(x, limit) \in Seq(Found) /\ Suggestions(x, limit) \in Seq(Found)
      /\ Correct(x) \in Seq(Found) /\ Hopeless(x) \in Seq(Found) /\ Similar(x) \in Seq(Found)
      /\ Med[x] \in Nat
  BY <1>2, <1>5, WordAnswers, SimilarType
<1>7. \A b \in BOOLEAN : \A a \in Seq(Found) : Entry(b, a) \in Entries /\ Entry(b, a).results = a
  BY DEF Entry, Entries
<1>8. ASSUME NEW e \in Entries PROVE report \o <<e>> = Append(report, e) /\ report \o <<>> = report
  BY <1>1, OneEntry
<1>9. CASE HandleLine \/ HandleDatagram
  <2>1. /\ tool \in {"spellcheck", "server"} /\ corr' = corr /\ str' = str
        /\ report' = report \o (IF x = Empty THEN <<>> ELSE <<Entry(FALSE, SpellAnswer(x, limit))>>)
    BY <1>9 DEF HandleLine, HandleDatagram, NextWord, x
  <2>2. ~Sorts /\ Wanted = Words \ {Empty}
    BY <2>1 DEF Sorts, Wanted
  <2>3. ASSUME x # Empty
        PROVE  \E e \in Entries : report' = Append(report, e) /\ Fits(e, Len(report) + 1, x)
    <3> DEFINE e == Entry(FALSE, SpellAnswer(x, limit))
    <3>1. e \in Entries
      BY <1>6, <1>7
    <3>2. Fits(e, Len(report) + 1, x)
      BY <2>1, <2>2 DEF Fits, Reply, Entry
    <3>3. report' = report \o <<e>>
      BY <2>1, <2>3
    <3> HIDE DEF e
    <3>4. QED
      BY <1>8, <3>1, <3>2, <3>3
  <2>4. x = Empty => report' = report
    BY <2>1, <1>2
  <2>5. QED
    BY <1>1, <1>2, <1>3, <1>4, <1>5, <2>1, <2>2, <2>3, <2>4, GoesOn DEF x
<1>10. CASE HandleFmed
  <2> DEFINE a == IF Med[x] = 0 THEN Hopeless(x) ELSE Similar(x)
  <2>1. /\ tool = "fmed" /\ corr' = corr /\ str' = str
        /\ report' = report \o (IF x = Empty THEN <<>> ELSE <<Entry(FALSE, a)>>)
    BY <1>10 DEF HandleFmed, NextWord, x
  <2>2. ~Sorts /\ Wanted = Words \ {Empty}
    BY <2>1 DEF Sorts, Wanted
  <2>3. ASSUME x # Empty
        PROVE  \E e \in Entries : report' = Append(report, e) /\ Fits(e, Len(report) + 1, x)
    <3> DEFINE e == Entry(FALSE, a)
    <3>1. e \in Entries
      BY <1>6, <1>7
    <3>2. Fits(e, Len(report) + 1, x)
      BY <2>1, <2>2 DEF Fits, Reply, Entry
    <3>3. report' = report \o <<e>>
      BY <2>1, <2>3
    <3> HIDE DEF e
    <3>4. QED
      BY <1>8, <3>1, <3>2, <3>3
  <2>4. x = Empty => report' = report
    BY <2>1, <1>2
  <2>5. QED
    BY <1>1, <1>2, <1>3, <1>4, <1>5, <2>1, <2>2, <2>3, <2>4, GoesOn DEF x
<1>11. CASE HandleSuggest
  <2>1. PICK old \in {<<>>, str} :
            IF Med[x] = 0
            THEN report' = report \o <<>> /\ str' \in {str, old \o Correct(x)}
            ELSE report' = report \o <<Entry(FALSE, old \o Similar(x))>> /\ str' = old \o Similar(x)
    BY <1>11 DEF HandleSuggest, NextWord, x
  <2>2. tool = "suggest" /\ corr' = corr
    BY <1>11 DEF HandleSuggest
  <2>3. ~Sorts /\ Wanted = WithSimilar
    BY <2>2 DEF Sorts, Wanted
  <2>4. old \in Seq(Found)
    BY <1>2, EmptySeq
  <2>5. old \o Correct(x) \in Seq(Found) /\ old \o Similar(x) \in Seq(Found)
    BY <1>6, <2>4, ConcatProperties
  <2>6. str' \in Seq(Found)
    BY <1>2, <2>1, <2>5
  <2>7. x \in WithSimilar <=> Med[x] # 0
    BY <1>5, <1>6 DEF WithSimilar
  <2>8. ASSUME Med[x] # 0
        PROVE  \E e \in Entries : report' = Append(report, e) /\ Fits(e, Len(report) + 1, x)
    <3> DEFINE e == Entry(FALSE, old \o Similar(x))
    <3>1. e \in Entries /\ e.results = old \o Similar(x)
      BY <1>7, <2>5
    <3>2. IsSuffix(Similar(x), old \o Similar(x))
      BY <1>6, <2>4, EndsIn
    <3>3. report' = report \o <<e>>
      BY <2>1, <2>8
    <3> HIDE DEF e
    <3>4. Fits(e, Len(report) + 1, x)
      BY <3>1, <3>2, <2>2, Zenon DEF Fits
    <3>5. QED
      BY <1>8, <3>1, <3>3, <3>4
  <2>9. Med[x] = 0 => report' = report
    BY <2>1, <1>2
  <2>10. QED
    BY <1>1, <1>2, <1>3, <1>4, <1>5, <2>2, <2>3, <2>6, <2>7, <2>8, <2>9, GoesOn DEF x
<1>12. CASE HandleJson \/ HandleList
  <2>1. tool \in {"json", "list"} /\ str' = str /\ (HoldBack \/ Suggest)
    BY <1>12 DEF HandleJson, HandleList
  <2>2. Sorts /\ Wanted = Words \ Recognized
    BY <2>1 DEF Sorts, Wanted
  <2>3. CASE x \in Recognized
    <3>1. HoldBack
      BY <2>1, <2>3 DEF Suggest, x
    <3>2. report' = report \o <<>> /\ corr' = Append(corr, Entry(corr # <<>>, Correct(x)))
      BY <3>1 DEF HoldBack, NextWord, x
    <3>3. report' = report
      BY <3>2, <1>2
    <3>4. QED
      BY <1>1, <1>2, <1>3, <1>4, <1>5, <2>1, <2>2, <2>3, <3>2, <3>3, GoesOn DEF x
  <2>4. CASE x \notin Recognized
    <3>1. Suggest
      BY <2>1, <2>4 DEF HoldBack, x
    <3> DEFINE e == Entry(report # <<>>, Suggestions(x, limit))
    <3>2. report' = report \o <<e>> /\ corr' = corr
      BY <3>1 DEF Suggest, NextWord, x
    <3>3. e \in Entries
      BY <1>6, <1>7
    <3>4. report # <<>> <=> Len(report) + 1 > 1
      BY <1>2, EmptySeq, LenProperties
    <3>5. Fits(e, Len(report) + 1, x)
      BY <3>4, <2>1, <2>2 DEF Fits, Reply, Entry
    <3> HIDE DEF e
    <3>6. report' = Append(report, e)
      BY <1>8, <3>2, <3>3
    <3>7. QED
      BY <1>1, <1>2, <1>3, <1>4, <1>5, <2>1, <2>2, <2>4, <3>2, <3>3, <3>5, <3>6, GoesOn DEF x
  <2>5. QED
    BY <2>3, <2>4
<1>13. QED
  BY <1>9, <1>10, <1>11, <1>12

\* What is printed at the end by a program that holds words back.
LEMMA ListedIs ==
    ASSUME NEW q \in Seq(Words), NEW r \in Seq(Entries), Len(r) = Len(q), NEW a,
           DOMAIN a = DOMAIN q, \A i \in 1 .. Len(r) : r[i] = Entry(i > 1, a[i])
    PROVE  r = Listed(a)
<1>1. r = [i \in 1 .. Len(r) |-> r[i]]
  BY LenProperties
<1>2. DOMAIN a = 1 .. Len(r)
  BY LenProperties
<1>3. Listed(a) = [i \in 1 .. Len(r) |-> Entry(i > 1, a[i])]
  BY <1>2 DEF Listed
<1>4. QED
  BY <1>1, <1>3

\* When nothing is left to be read, what has been printed is the whole report.
LEMMA AllBehind ==
    ASSUME ProgramTypesAll, NEW d \in Seq(Words), Behind(d), waiting = <<>>
    PROVE  LET words     == Tokens(text)
               incorrect == Without(words, Recognized)
               correct   == Only(words, Recognized)
               similar   == Only(text, WithSimilar)
               answers   == [i \in DOMAIN report |-> report[i].results]
           IN  /\ tool \in {"spellcheck", "server"} =>
                    answers = [i \in DOMAIN words |-> SpellAnswer(words[i], limit)]
               /\ tool \in {"json", "list"} =>
                    /\ report \o corr = Listed([i \in DOMAIN incorrect |-> Suggestions(incorrect[i], limit)])
                                        \o Listed([i \in DOMAIN correct |-> Correct(correct[i])])
                    /\ corr = <<>> => correct = <<>>
               /\ tool = "fmed" =>
                    answers = [i \in DOMAIN words |-> IF Med[words[i]] = 0 THEN Hopeless(words[i]) ELSE Similar(words[i])]
               /\ tool = "suggest" =>
                    /\ Len(report) = Len(similar)
                    /\ \A i \in DOMAIN similar : IsSuffix(Similar(similar[i]), answers[i])
<1> DEFINE words == Tokens(text)
           incorrect == Without(words, Recognized)
           correct == Only(words, Recognized)
           similar == Only(text, WithSimilar)
           answers == [i \in DOMAIN report |-> report[i].results]
           q == Only(d, Wanted)
<1>1. text \in Seq(Words) /\ report \in Seq(Entries) /\ corr \in Seq(Entries) /\ tool \in Tools
  BY DEF ProgramTypesAll
<1>2. d = Given
  <2>1. Cat(d, <<>>) = d
    BY CatLaws, Zenon
  <2>2. QED
    BY <2>1 DEF Behind
<1>3. /\ words \in Seq(Words) /\ words = Only(text, Words \ {Empty})
      /\ incorrect \in Seq(Words) /\ incorrect = Only(words, Words \ Recognized)
      /\ correct \in Seq(Words) /\ similar \in Seq(Words)
  <2>1. words \in Seq(Words) /\ words = Only(text, Words \ {Empty}) /\ similar \in Seq(Words)
    BY <1>1, FilterTypes
  <2> HIDE DEF words
  <2>2. incorrect = Only(words, Words \ Recognized) /\ correct \in Seq(Words)
    BY <2>1, FilterTypes
  <2>3. Only(words, Words \ Recognized) \in Seq(Words)
    BY <2>1, OnlyType
  <2>4. QED
    BY <2>1, <2>2, <2>3
<1>4. q \in Seq(Words) /\ DOMAIN q = 1 .. Len(q) /\ Len(q) \in Nat
  BY OnlyType, LenProperties
<1>5. Len(report) = Len(q) /\ DOMAIN report = 1 .. Len(q) /\ \A i \in 1 .. Len(q) : Fits(report[i], i, q[i])
  BY <1>1, LenProperties DEF Behind
<1>6. \A b, a : Entry(b, a).results = a
  BY DEF Entry
<1> HIDE DEF words, incorrect, correct, similar
<1>7. ASSUME tool \in {"spellcheck", "server"}
      PROVE  answers = [i \in DOMAIN words |-> SpellAnswer(words[i], limit)]
  <2>1. q = words
    BY <1>2, <1>3, <1>7 DEF Given, Wanted, Sorts
  <2>2. \A i \in 1 .. Len(q) : report[i].results = SpellAnswer(q[i], limit)
    BY <1>5, <1>6, <1>7 DEF Fits, Reply, Sorts
  <2> HIDE DEF q
  <2>3. QED
    BY <2>1, <2>2, <1>4, <1>5
<1>8. ASSUME tool = "fmed"
      PROVE  answers = [i \in DOMAIN words |-> IF Med[words[i]] = 0 THEN Hopeless(words[i]) ELSE Similar(words[i])]
  <2>1. q = words
    BY <1>2, <1>3, <1>8 DEF Given, Wanted, Sorts
  <2>2. \A i \in 1 .. Len(q) : report[i].results = IF Med[q[i]] = 0 THEN Hopeless(q[i]) ELSE Similar(q[i])
    BY <1>5, <1>6, <1>8 DEF Fits, Reply, Sorts
  <2> HIDE DEF q
  <2>3. QED
    BY <2>1, <2>2, <1>4, <1>5
<1>9. ASSUME tool = "suggest"
      PROVE  Len(report) = Len(similar) /\ \A i \in DOMAIN similar : IsSuffix(Similar(similar[i]), answers[i])
  <2>1. q = similar
    BY <1>2, <1>9 DEF Given, Wanted, Sorts, similar
  <2>2. \A i \in 1 .. Len(q) : IsSuffix(Similar(q[i]), report[i].results)
    BY <1>5, <1>9, Zenon DEF Fits
  <2> HIDE DEF q
  <2>3. QED
    BY <2>1, <2>2, <1>4, <1>5
<1>10. ASSUME tool \in {"json", "list"}
       PROVE  /\ report = Listed([i \in DOMAIN incorrect |-> Suggestions(incorrect[i], limit)])
              /\ corr = Listed([i \in DOMAIN correct |-> Correct(correct[i])])
              /\ corr = <<>> => correct = <<>>
  <2>1. Sorts
    BY <1>10 DEF Sorts
  <2>2. q = incorrect /\ Only(d, Recognized) = correct
    BY <2>1, <1>2, <1>3 DEF Given, Wanted, words, correct
  <2>3. \A i \in 1 .. Len(q) : report[i] = Entry(i > 1, Suggestions(q[i], limit))
    <3>1. \A i \in 1 .. Len(q) : report[i] = Entry(Sorts /\ i > 1, Reply(q[i]))
      BY <1>5, <1>10 DEF Fits
    <3>2. \A i : (Sorts /\ i > 1) = (i > 1)
      BY <2>1
    <3>3. QED
      BY <2>1, <3>1, <3>2 DEF Reply, Entry
  <2>4. Len(corr) = Len(correct) /\ \A i \in 1 .. Len(corr) : corr[i] = Entry(i > 1, Correct(correct[i]))
    BY <2>1, <2>2 DEF Behind
  <2> HIDE DEF q
  <2> DEFINE a == [i \in DOMAIN incorrect |-> Suggestions(incorrect[i], limit)]
             b == [i \in DOMAIN correct |-> Correct(correct[i])]
  <2>5. DOMAIN a = DOMAIN incorrect /\ \A i \in 1 .. Len(report) : report[i] = Entry(i > 1, a[i])
    BY <2>2, <2>3, <1>4, <1>5
  <2>6. DOMAIN b = DOMAIN correct /\ \A i \in 1 .. Len(corr) : corr[i] = Entry(i > 1, b[i])
    BY <2>4, <1>3, LenProperties
  <2>7. corr = <<>> => correct = <<>>
    BY <2>4, <1>1, <1>3, EmptySeq
  <2> HIDE DEF a, b
  <2>8. report = Listed(a)
    BY <2>5, <1>1, <1>3, <1>5, <2>2, ListedIs
  <2>9. corr = Listed(b)
    BY <2>6, <1>1, <1>3, <2>4, ListedIs
  <2>10. QED
    BY <2>7, <2>8, <2>9 DEF a, b
<1> HIDE DEF answers
<1>11. QED
  BY <1>7, <1>8, <1>9, <1>10, Zenon DEF words, incorrect, correct, similar, answers

LEMMA Ends ==
    ASSUME ProgramInv, EndSpellcheck \/ EndFmed \/ EndSuggest \/ EndServer \/ EndList \/ EndJson
    PROVE  ProgramInv'
<1>1. ProgramTypesAll
  BY DEF ProgramInv
<1>2. /\ tool \in Tools /\ limit \in Nat /\ text \in Seq(Words) /\ waiting \in Seq(Words)
      /\ report \in Seq(Entries) /\ corr \in Seq(Entries) /\ str \in Seq(Found)
  BY <1>1 DEF ProgramTypesAll
<1>3. /\ phase = "running" /\ waiting = <<>>
      /\ UNCHANGED <<tool, limit, text, waiting, str, corr>>
  BY DEF EndSpellcheck, EndFmed, EndSuggest, EndServer, EndList, EndJson, End
<1>4. PICK d \in Seq(Words) : Behind(d)
  BY <1>3 DEF ProgramInv
<1>5. /\ phase' \in {"ended", "aborted"}
      /\ phase' = "aborted" => tool = "json" /\ corr = <<>> /\ report' = <<>>
      /\ phase' = "ended" => report' = IF tool \in {"json", "list"} THEN report \o corr ELSE report
  BY DEF EndSpellcheck, EndFmed, EndSuggest, EndServer, EndList, EndJson, End
<1>6. ProgramTypesAll'
  <2>1. report \o corr \in Seq(Entries)
    BY <1>2, ConcatProperties
  <2>2. report' \in Seq(Entries)
    BY <2>1, <1>2, <1>5, EmptySeq
  <2>3. QED
    BY <2>2, <1>2, <1>3, <1>5 DEF ProgramTypesAll
<1>7. ReportComplete'
  <2> DEFINE words     == Tokens(text)
             incorrect == Without(words, Recognized)
             correct   == Only(words, Recognized)
             similar   == Only(text, WithSimilar)
             answers   == [i \in DOMAIN report |-> report[i].results]
  <2>1. /\ tool \in {"spellcheck", "server"} =>
             answers = [i \in DOMAIN words |-> SpellAnswer(words[i], limit)]
        /\ tool \in {"json", "list"} =>
             /\ report \o corr = Listed([i \in DOMAIN incorrect |-> Suggestions(incorrect[i], limit)])
                                 \o Listed([i \in DOMAIN correct |-> Correct(correct[i])])
             /\ corr = <<>> => correct = <<>>
        /\ tool = "fmed" =>
             answers = [i \in DOMAIN words |-> IF Med[words[i]] = 0 THEN Hopeless(words[i]) ELSE Similar(words[i])]
        /\ tool = "suggest" =>
             /\ Len(report) = Len(similar)
             /\ \A i \in DOMAIN similar : IsSuffix(Similar(similar[i]), answers[i])
    BY <1>1, <1>3, <1>4, AllBehind
  <2>2. tool' = tool /\ text' = text /\ limit' = limit
    BY <1>3
  <2>3. CASE phase' = "aborted"
    BY <2>3, <2>1, <2>2, <1>5 DEF ReportComplete
  <2>4. CASE phase' = "ended" /\ tool \in {"spellcheck", "server"}
    BY <2>4, <2>1, <2>2, <1>5 DEF ReportComplete
  <2>5. CASE phase' = "ended" /\ tool \in {"json", "list"}
    BY <2>5, <2>1, <2>2, <1>5 DEF ReportComplete
  <2>6. CASE phase' = "ended" /\ tool = "fmed"
    BY <2>6, <2>1, <2>2, <1>5 DEF ReportComplete, Similar
  <2>7. CASE phase' = "ended" /\ tool = "suggest"
    BY <2>7, <2>1, <2>2, <1>5 DEF ReportComplete, Similar
  <2>8. QED
    BY <2>3, <2>4, <2>5, <2>6, <2>7, <1>2, <1>5 DEF Tools
<1>8. QED
  BY <1>5, <1>6, <1>7 DEF ProgramInv

LEMMA ProgramStep == ProgramInv /\ [ProgramNext]_toolVars => ProgramInv'
<1> SUFFICES ASSUME ProgramInv, [ProgramNext]_toolVars PROVE ProgramInv'
  OBVIOUS
<1>1. ASSUME NEW option \in Limits, NEW fault \in BOOLEAN,
             \/ StartSpellcheck(option, fault) \/ StartJson(option, fault) \/ StartList(option, fault)
             \/ StartServer(option, fault) \/ StartFmed(option, fault) \/ StartSuggest(option, fault)
      PROVE  ProgramInv'
  <2>1. Start(option, fault) /\ waiting' = IF Sorts THEN Tokens(text) ELSE waiting
    BY <1>1 DEF StartSpellcheck, StartJson, StartList, StartServer, StartFmed, StartSuggest, Sorts
  <2>2. waiting = text
    BY <2>1 DEF ProgramInv, Start
  <2>3. waiting' = Given
    BY <2>1, <2>2 DEF Given
  <2>4. QED
    BY <2>1, <2>3, Starts
<1>2. CASE HandleLine \/ HandleDatagram \/ HandleFmed \/ HandleSuggest \/ HandleJson \/ HandleList
  BY <1>2, Handles
<1>3. CASE EndSpellcheck \/ EndFmed \/ EndSuggest \/ EndServer \/ EndList \/ EndJson
  BY <1>3, Ends
<1>4. CASE UNCHANGED toolVars
  <2>1. /\ tool' = tool /\ phase' = phase /\ limit' = limit /\ text' = text /\ waiting' = waiting
        /\ report' = report /\ corr' = corr /\ str' = str
    BY <1>4 DEF toolVars
  <2>2. ProgramTypesAll'
    BY <2>1 DEF ProgramInv, ProgramTypesAll
  <2>3. ReportComplete'
    BY <2>1 DEF ProgramInv, ReportComplete, Similar
  <2>4. ASSUME NEW d \in Seq(Words), Behind(d) PROVE Behind(d)'
    BY <2>1, <2>4 DEF Behind, Given, Wanted, Sorts, Fits, Reply, Similar
  <2>5. QED
    BY <2>1, <2>2, <2>3, <2>4 DEF ProgramInv
<1>5. QED
  BY <1>1, <1>2, <1>3, <1>4 DEF ProgramNext

\* A program that comes to its end has answered every word once, with its own
\* suggestions or as correct, whatever its words, the transducers and the limit are.
THEOREM ReportsComplete == ProgramSpec => []ReportComplete
<1>1. ProgramInit => ProgramInv
  BY ProgramStart
<1>2. ProgramInv /\ [ProgramNext]_toolVars => ProgramInv'
  BY ProgramStep
<1>3. ProgramInv => ReportComplete
  BY DEF ProgramInv
<1>4. QED
  BY <1>1, <1>2, <1>3, PTL DEF ProgramSpec
===============================================================================
