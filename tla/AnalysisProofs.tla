---------------------------- MODULE AnalysisProofs ----------------------------
(***************************************************************************)
(* Proofs about the two parts that MCAnalysis runs beside each other.      *)
(*                                                                         *)
(* DesrSession, for every set of clients, whatever they send, and every    *)
(* number of slots: the handler of SIGCHLD, which does not know who ended, *)
(* makes up no slot; signals that coalesce never cost the server its last  *)
(* one; and every client that ends normally has printed the parse of its   *)
(* own text.                                                               *)
(*                                                                         *)
(* CrfRows, for all texts, all readings and every number of columns: every *)
(* word keeps its own tag.  First come laws about the readings of a word,  *)
(* then its row, column by column, as output_crf prints it and as nec      *)
(* reads it, then the blocks of rows of a text, and at last the invariant. *)
(***************************************************************************)
EXTENDS DesrSession, CrfRows, SequenceLemmas

\* A client that has not connected has no connection; without this a worker would be
\* forgotten when its client connects, and its slot with it.
NewUnlinked ==
    /\ \A c \in Clients : client[c] = "new" => link[c] = "none"
    /\ \A i \in DOMAIN queue : client[queue[i]] # "new"

IInv == TypeOK /\ NewUnlinked /\ SlotsCounted /\ SlotLeft

-------------------------------------------------------------------------------
\* What the proofs use of the size of a set of clients.
LEMMA Sizes ==
    ASSUME NEW S \in SUBSET Clients
    PROVE  /\ Cardinality(S) \in Nat
           /\ \A c \in Clients \ S : Cardinality(S \cup {c}) = Cardinality(S) + 1
           /\ \A c \in S : Cardinality(S \ {c}) = Cardinality(S) - 1
           /\ \A T \in SUBSET S : Cardinality(T) \in Nat /\ Cardinality(T) <= Cardinality(S)
<1>1. IsFiniteSet(S)
  BY DesrAssumption, FS_Subset DEF DesrAssumption
<1>2. Cardinality(S) \in Nat
  BY <1>1, FS_CardinalityType
<1>3. ASSUME NEW c \in Clients \ S
      PROVE  Cardinality(S \cup {c}) = Cardinality(S) + 1
  BY <1>1, <1>3, FS_AddElement
<1>4. ASSUME NEW c \in S
      PROVE  Cardinality(S \ {c}) = Cardinality(S) - 1
  BY <1>1, <1>4, FS_RemoveElement
<1>5. ASSUME NEW T \in SUBSET S
      PROVE  Cardinality(T) \in Nat /\ Cardinality(T) <= Cardinality(S)
  <2>1. IsFiniteSet(T) /\ Cardinality(T) <= Cardinality(S)
    BY <1>1, FS_Subset
  <2>2. QED
    BY <2>1, FS_CardinalityType
<1>6. QED
  BY <1>2, <1>3, <1>4, <1>5

LEMMA InitEstablishesIInv == Init => IInv
<1> SUFFICES ASSUME Init PROVE IInv
  OBVIOUS
<1> USE DesrAssumption DEF DesrAssumption, Init, InitWith
<1>1. TypeOK
  BY DEF TypeOK
<1>2. NewUnlinked
  BY DEF NewUnlinked
<1>3. Busy = {}
  BY DEF Busy, Working
<1>4. SlotsCounted
  BY <1>3, FS_EmptySet DEF SlotsCounted, Holding
<1>5. SlotLeft
  BY DEF SlotLeft
<1>6. QED
  BY <1>1, <1>2, <1>4, <1>5 DEF IInv

-------------------------------------------------------------------------------
\* Every step keeps the types, the number of zombies among them.
LEMMA TypeStep == TypeOK /\ SlotsCounted /\ [Next]_vars => TypeOK'
<1> SUFFICES ASSUME TypeOK, SlotsCounted, [Next]_vars PROVE TypeOK'
  OBVIOUS
<1> USE DesrAssumption DEF DesrAssumption, TypeOK, talk
<1>1. ASSUME NEW ok \in BOOLEAN, ReadOptions(ok) PROVE TypeOK'
  BY <1>1 DEF ReadOptions
<1>2. Dropped \in [Clients -> {"none", "queued", "accepted", "reading", "parsing", "closed"}]
  BY DEF Dropped
<1>3. ASSUME NEW ok \in BOOLEAN, LoadModel(ok) PROVE TypeOK'
  <2>1. CASE ok
    BY <1>3, <2>1 DEF LoadModel
  <2>2. CASE ~ok
    BY <1>2, <1>3, <2>2 DEF LoadModel
  <2>3. QED
    BY <2>1, <2>2
<1>4. CASE TakeSlot
  BY <1>4 DEF TakeSlot
<1>5. CASE AcceptClient
  BY <1>5 DEF AcceptClient
<1>6. ASSUME NEW c \in Clients, ForkWorker(c) PROVE TypeOK'
  BY <1>6 DEF ForkWorker
<1>7. ASSUME NEW c \in Clients, ForkFails(c) PROVE TypeOK'
  BY <1>7 DEF ForkFails
<1>8. CASE ChildEnded
  <2>1. zombies > 0
    BY <1>8 DEF ChildEnded, SlotsCounted
  <2>2. zombies - 1 \in Nat
    BY <2>1
  <2>3. QED
    BY <1>8, <2>2 DEF ChildEnded
<1>9. CASE Terminate
  BY <1>2, <1>9 DEF Terminate
<1>10. ASSUME NEW c \in Clients, Work(c) PROVE TypeOK'
  <2>1. CASE Hear(c)
    BY <2>1 DEF Hear, dispatcher
  <2>2. CASE EndOfText(c)
    BY <2>2 DEF EndOfText, dispatcher
  <2>3. CASE Answer(c) \/ ParserThrows(c)
    <3>1. End(c) /\ client' = client
      BY <2>3 DEF Answer, ParserThrows
    <3>2. QED
      BY <3>1 DEF End
  <2>4. QED
    BY <1>10, <2>1, <2>2, <2>3 DEF Work
<1>11. ASSUME NEW c \in Clients, Run(c) \/ Refused(c) \/ Kill(c) PROVE TypeOK'
  <2>1. /\ UNCHANGED <<dispatcher, link>>
        /\ client' \in [Clients -> {"new", "sync", "send", "wait", "last", "done", "failed", "killed"}]
    BY <1>11 DEF Run, Refused, Kill, Synchronize, SendLine, ReadReply, Shutdown, ReadResult
  <2>2. QED
    BY <2>1 DEF dispatcher
<1>12. ASSUME NEW c \in Clients, Connect(c) PROVE TypeOK'
  BY <1>12 DEF Connect
<1>13. CASE UNCHANGED vars
  BY <1>13 DEF vars, dispatcher
<1>14. QED
  BY <1>1, <1>3, <1>4, <1>5, <1>6, <1>7, <1>8, <1>9, <1>10, <1>11, <1>12, <1>13 DEF Next, Dispatch

\* No step gives a connection to a client that has not asked for one.
LEMMA UnlinkedStep == TypeOK /\ NewUnlinked /\ [Next]_vars => NewUnlinked'
<1> SUFFICES ASSUME TypeOK, NewUnlinked, [Next]_vars PROVE NewUnlinked'
  OBVIOUS
<1> USE DEF NewUnlinked, TypeOK, talk
<1>1. ASSUME NEW ok \in BOOLEAN, ReadOptions(ok) PROVE NewUnlinked'
  BY <1>1 DEF ReadOptions
<1>2. ASSUME NEW ok \in BOOLEAN, LoadModel(ok) PROVE NewUnlinked'
  BY <1>2 DEF LoadModel, Dropped
<1>3. CASE TakeSlot \/ ChildEnded
  BY <1>3 DEF TakeSlot, ChildEnded
<1>4. CASE AcceptClient
  <2>1. /\ DOMAIN queue = 1 .. Len(queue) /\ Len(queue) \in Nat \ {0}
        /\ Head(queue) = queue[1] /\ Head(queue) \in Clients
        /\ DOMAIN Tail(queue) = 1 .. Len(queue) - 1
        /\ \A i \in 1 .. Len(queue) - 1 : Tail(queue)[i] = queue[i + 1]
    BY <1>4 DEF AcceptClient
  <2>2. client[Head(queue)] # "new"
    BY <2>1
  <2>3. \A i \in DOMAIN Tail(queue) : i + 1 \in DOMAIN queue /\ Tail(queue)[i] = queue[i + 1]
    BY <2>1
  <2>4. QED
    BY <1>4, <2>2, <2>3 DEF AcceptClient
<1>5. ASSUME NEW c \in Clients, ForkWorker(c) \/ ForkFails(c) PROVE NewUnlinked'
  BY <1>5 DEF ForkWorker, ForkFails
<1>6. CASE Terminate
  BY <1>6 DEF Terminate, Dropped
<1>7. ASSUME NEW c \in Clients, Work(c) PROVE NewUnlinked'
  BY <1>7 DEF Work, Hear, EndOfText, Answer, ParserThrows, End, dispatcher
<1>8. ASSUME NEW c \in Clients, Run(c) \/ Refused(c) \/ Kill(c) PROVE NewUnlinked'
  <2>1. UNCHANGED <<queue, link>>
    BY <1>8 DEF Run, Refused, Kill, Synchronize, SendLine, ReadReply, Shutdown, ReadResult, dispatcher
  <2>2. \A d \in Clients : client'[d] = "new" => client[d] = "new"
    BY <1>8 DEF Run, Refused, Kill, Synchronize, SendLine, ReadReply, Shutdown, ReadResult
  <2>3. \A i \in DOMAIN queue : queue[i] \in Clients
    OBVIOUS
  <2>4. QED
    BY <2>1, <2>2, <2>3
<1>9. ASSUME NEW c \in Clients, Connect(c) PROVE NewUnlinked'
  <2>1. /\ DOMAIN queue = 1 .. Len(queue)
        /\ DOMAIN queue' = 1 .. Len(queue) + 1
        /\ \A i \in 1 .. Len(queue) : queue'[i] = queue[i] /\ queue[i] \in Clients
        /\ queue'[Len(queue) + 1] = c
        /\ Len(queue) \in Nat
    BY <1>9 DEF Connect
  <2>2. client' = [client EXCEPT ![c] = "sync"] /\ link' = [link EXCEPT ![c] = "queued"]
    BY <1>9 DEF Connect
  <2>3. QED
    BY <2>1, <2>2
<1>10. CASE UNCHANGED vars
  BY <1>10 DEF vars, dispatcher
<1>11. QED
  BY <1>1, <1>2, <1>3, <1>4, <1>5, <1>6, <1>7, <1>8, <1>9, <1>10 DEF Next, Dispatch

-------------------------------------------------------------------------------
\* Only a fork and the end of a worker change the set of workers.
LEMMA BusyStep ==
    ASSUME TypeOK, NewUnlinked
    PROVE  /\ AcceptClient => Busy' \subseteq Busy
           /\ \A c \in Clients : ForkWorker(c) => c \notin Busy /\ Busy' = Busy \cup {c}
           /\ \A c \in Clients : Working(c) /\ End(c) => c \in Busy /\ Busy' = Busy \ {c}
           /\ \A ok \in BOOLEAN : ReadOptions(ok) \/ LoadModel(ok) => Busy' = Busy
           /\ TakeSlot \/ ChildEnded \/ Terminate \/ UNCHANGED vars => Busy' = Busy
           /\ \A c \in Clients : ForkFails(c) \/ Hear(c) \/ EndOfText(c) => Busy' = Busy
           /\ \A c \in Clients : Run(c) \/ Refused(c) \/ Kill(c) \/ Connect(c) => Busy' = Busy
<1> USE DEF TypeOK, Busy, Working
<1>1. ASSUME AcceptClient PROVE Busy' \subseteq Busy
  BY <1>1 DEF AcceptClient
<1>2. ASSUME NEW c \in Clients, ForkWorker(c)
      PROVE  c \notin Busy /\ Busy' = Busy \cup {c}
  BY <1>2 DEF ForkWorker
<1>3. ASSUME NEW c \in Clients, Working(c), End(c)
      PROVE  c \in Busy /\ Busy' = Busy \ {c}
  BY <1>3 DEF End
<1>4. ASSUME NEW ok \in BOOLEAN, ReadOptions(ok) \/ LoadModel(ok) PROVE Busy' = Busy
  BY <1>4 DEF ReadOptions, LoadModel, Dropped
<1>5. ASSUME TakeSlot \/ ChildEnded \/ Terminate \/ UNCHANGED vars PROVE Busy' = Busy
  BY <1>5 DEF TakeSlot, ChildEnded, Terminate, Dropped, vars
<1>6. ASSUME NEW c \in Clients, ForkFails(c) \/ Hear(c) \/ EndOfText(c) PROVE Busy' = Busy
  BY <1>6 DEF ForkFails, Hear, EndOfText
<1>7. ASSUME NEW c \in Clients, Run(c) \/ Refused(c) \/ Kill(c) PROVE Busy' = Busy
  BY <1>7 DEF Run, Refused, Kill, Synchronize, SendLine, ReadReply, Shutdown, ReadResult
<1>8. ASSUME NEW c \in Clients, Connect(c) PROVE Busy' = Busy
  BY <1>8 DEF Connect, NewUnlinked
<1>9. QED
  BY <1>1, <1>2, <1>3, <1>4, <1>5, <1>6, <1>7, <1>8

\* Every step keeps the slots and the zombies counted, and one of the slots.
LEMMA SlotsStep == IInv /\ [Next]_vars => SlotsCounted' /\ SlotLeft'
<1> SUFFICES ASSUME IInv, [Next]_vars PROVE SlotsCounted' /\ SlotLeft'
  OBVIOUS
<1> USE DEF SlotsCounted, SlotLeft, Holding
<1>1. /\ semaf \in Nat /\ zombies \in Nat /\ Slots \in Nat
      /\ Busy \in SUBSET Clients /\ Cardinality(Busy) \in Nat
  BY Sizes, DesrAssumption DEF IInv, TypeOK, Busy, DesrAssumption
<1>2. SlotsCounted /\ SlotLeft
  BY DEF IInv
<1>3. TypeOK /\ NewUnlinked
  BY DEF IInv
<1>4. ASSUME NEW ok \in BOOLEAN, ReadOptions(ok) \/ LoadModel(ok) PROVE SlotsCounted' /\ SlotLeft'
  <2>1. Busy' = Busy
    BY <1>3, <1>4, BusyStep
  <2>2. QED
    BY <1>1, <1>2, <1>4, <2>1 DEF ReadOptions, LoadModel
<1>5. CASE TakeSlot \/ ChildEnded \/ Terminate \/ UNCHANGED vars
  <2>1. Busy' = Busy
    BY <1>3, <1>5, BusyStep
  <2>2. QED
    BY <1>1, <1>2, <1>5, <2>1 DEF TakeSlot, ChildEnded, Terminate, vars, dispatcher
<1>6. CASE AcceptClient
  <2>1. Cardinality(Busy') \in Nat /\ Cardinality(Busy') <= Cardinality(Busy)
    BY <1>1, <1>3, <1>6, BusyStep, Sizes
  <2>2. QED
    BY <1>1, <1>2, <1>6, <2>1 DEF AcceptClient
<1>7. ASSUME NEW c \in Clients, ForkWorker(c) PROVE SlotsCounted' /\ SlotLeft'
  <2>1. c \notin Busy /\ Busy' = Busy \cup {c}
    BY <1>3, <1>7, BusyStep
  <2>2. Cardinality(Busy') = Cardinality(Busy) + 1
    BY <1>1, <2>1, Sizes
  <2>3. Busy' # {}
    BY <2>1
  <2>4. QED
    BY <1>1, <1>2, <1>7, <2>2, <2>3 DEF ForkWorker
<1>8. ASSUME NEW c \in Clients, ForkFails(c) PROVE SlotsCounted' /\ SlotLeft'
  <2>1. Busy' = Busy
    BY <1>3, <1>8, BusyStep
  <2>2. QED
    BY <1>1, <1>2, <1>8, <2>1 DEF ForkFails
<1>9. ASSUME NEW c \in Clients, Answer(c) \/ ParserThrows(c) PROVE SlotsCounted' /\ SlotLeft'
  <2>1. Working(c) /\ End(c)
    BY <1>9 DEF Answer, ParserThrows, Working
  <2>2. c \in Busy /\ Busy' = Busy \ {c}
    BY <1>3, <2>1, BusyStep
  <2>3. Cardinality(Busy') = Cardinality(Busy) - 1
    BY <1>1, <2>2, Sizes
  <2>4. QED
    BY <1>1, <1>2, <2>1, <2>3 DEF End
<1>10. ASSUME NEW c \in Clients, Hear(c) \/ EndOfText(c) \/ Run(c) \/ Refused(c) \/ Kill(c) \/ Connect(c)
       PROVE  SlotsCounted' /\ SlotLeft'
  <2>1. Busy' = Busy
    BY <1>3, <1>10, BusyStep
  <2>2. UNCHANGED <<pc, semaf, zombies, sigchld, unforked>>
    BY <1>10 DEF Hear, EndOfText, Run, Refused, Kill, Connect, Synchronize, SendLine, ReadReply,
                 Shutdown, ReadResult, dispatcher
  <2>3. QED
    BY <1>2, <2>1, <2>2
<1>11. QED
  BY <1>4, <1>5, <1>6, <1>7, <1>8, <1>9, <1>10 DEF Next, Dispatch, Work

-------------------------------------------------------------------------------
\* The inductive invariant holds in every reachable state.
THEOREM Inductive == Spec => []IInv
<1>1. IInv /\ [Next]_vars => IInv'
  BY TypeStep, UnlinkedStep, SlotsStep DEF IInv
<1>2. QED
  BY InitEstablishesIInv, <1>1, PTL DEF Spec

\* The variables of the server and the stages of its clients have their types.
THEOREM TypeCorrect == Spec => []TypeOK
<1>1. IInv => TypeOK
  BY DEF IInv
<1>2. QED
  BY Inductive, <1>1, PTL

\* desr_server.cc, child_ended: there is a child to wait for whenever the handler runs,
\* and workers and free slots are never more than DEFAULT_MAX_WORKERS.
THEOREM SlotsAlwaysCounted == Spec => []SlotsCounted
<1>1. IInv => SlotsCounted
  BY DEF IInv
<1>2. QED
  BY Inductive, <1>1, PTL

\* desr_server.cc, WaitClient and child_ended: as long as no fork fails, signals that
\* coalesce never cost the last slot, however many workers end together.
THEOREM SlotAlwaysLeft == Spec => []SlotLeft
<1>1. IInv => SlotLeft
  BY DEF IInv
<1>2. QED
  BY Inductive, <1>1, PTL

-------------------------------------------------------------------------------
(***************************************************************************)
(* The conversation.  A client says one line and waits for the answer: the *)
(* lines it has said, but for the one on its way, are those that its       *)
(* worker has heard, and the answers but for the one on its way are those  *)
(* it has shown.                                                           *)
(***************************************************************************)
Words == STRING \cup Commands  \* the provers do not know that a literal is in STRING
Messages == {Ready, Stats} \cup {Parsed(s) : s \in Seq(Words)}

\* The connections that wait are there once, and no one else's has been queued.
Queued ==
    /\ \A i \in 1 .. Len(queue) : link[queue[i]] = "queued"
    /\ \A i, j \in 1 .. Len(queue) : queue[i] = queue[j] => i = j

TalkTypes ==
    /\ lines \in [Clients -> Seq(Words)]
    /\ next \in [Clients -> Nat]
    /\ up \in [Clients -> Seq(Words)]
    /\ down \in [Clients -> Seq(Messages)]
    /\ held \in [Clients -> Seq(Words)]
    /\ printed \in [Clients -> Seq(Messages)]

Said(c, n)  == SubSeq(lines[c], 1, n)
Heard(c, n) == held[c] = TextOf(Said(c, n))
Shows(c, n) == printed[c] = StatsOf(Said(c, n))
Reply(l)    == IF l = Statistics THEN Stats ELSE Ready
Result(s)   == IF HasBad(s) THEN <<>> ELSE <<Parsed(s)>>

\* At each stage of the client, after n lines.
Stage(c, n) ==
    /\ client[c] \in {"new", "sync"} => n = 0 /\ held[c] = <<>> /\ printed[c] = <<>>
    /\ client[c] = "new" => up[c] = <<>> /\ down[c] = <<>>
    /\ client[c] = "sync" =>
        /\ link[c] \in {"queued", "accepted", "reading", "closed"}
        /\ \/ up[c] = <<Reset>> /\ down[c] = <<>>
           \/ up[c] = <<>> /\ down[c] = <<Ready>> /\ link[c] = "reading"
    /\ client[c] = "send" =>
        /\ link[c] = "reading" /\ up[c] = <<>> /\ down[c] = <<>>
        /\ Heard(c, n) /\ Shows(c, n)
    /\ client[c] = "wait" =>
        /\ n > 0 /\ link[c] = "reading" /\ Shows(c, n - 1)
        /\ \/ up[c] = <<lines[c][n]>> /\ down[c] = <<>> /\ Heard(c, n - 1)
           \/ up[c] = <<>> /\ down[c] = <<Reply(lines[c][n])>> /\ Heard(c, n)
    /\ client[c] = "last" =>
        /\ n = Len(lines[c]) /\ up[c] = <<>> /\ Heard(c, n) /\ Shows(c, n)
        /\ \/ link[c] \in {"reading", "parsing"} /\ down[c] = <<>>
           \/ link[c] = "closed" /\ down[c] = Result(held[c])
    /\ client[c] = "done" => printed[c] = StatsOf(lines[c]) \o Result(TextOf(lines[c]))

Conversation(c) == next[c] \in 1 .. Len(lines[c]) + 1 /\ Stage(c, next[c] - 1)

TalkInv == TalkTypes /\ Queued /\ \A c \in Clients : Conversation(c)

-------------------------------------------------------------------------------
LEMMA TextOfAppend ==
    ASSUME NEW s \in Seq(Words), NEW x \in Words
    PROVE  /\ x \in Commands => TextOf(Append(s, x)) = TextOf(s)
           /\ x \notin Commands => TextOf(Append(s, x)) = Append(TextOf(s), x)
           /\ TextOf(s) \in Seq(Words)
<1>1. Append(s, x) \in Seq(Words)
  BY AppendProperties
<1>2. /\ TextOf(Append(s, x)) = Only(Append(s, x), Words \ Commands)
      /\ TextOf(s) = Only(s, Words \ Commands)
  BY <1>1, WithoutIsOnly DEF TextOf
<1> DEFINE S == Words \ Commands
<1>3. x \in S <=> x \notin Commands
  OBVIOUS
<1> HIDE DEF S
<1>4. /\ x \in S => Only(Append(s, x), S) = Append(Only(s, S), x)
      /\ x \notin S => Only(Append(s, x), S) = Only(s, S)
      /\ Only(s, S) \in Seq(Words)
  BY OnlyAppend
<1>5. QED
  BY <1>2, <1>3, <1>4 DEF S

LEMMA StatsOfAppend ==
    ASSUME NEW s \in Seq(Words), NEW x \in Words
    PROVE  /\ StatsOf(s) \in Seq(Messages)
           /\ StatsOf(Append(s, x)) = StatsOf(s) \o Shown(<<Reply(x)>>)
<1> DEFINE k == Len(Only(s, {Statistics}))
<1>1. Only(s, {Statistics}) \in Seq(Words) /\ k \in Nat
  BY OnlyType, LenProperties
<1>2. Stats \in Messages /\ Stats # Ready
  <2>2. Stats \in Messages
    BY DEF Messages
  <2>3. Stats.kind # Ready.kind
    BY DEF Stats, Ready
  <2>4. QED
    BY <2>2, <2>3
<1>3. StatsOf(s) = [i \in 1 .. k |-> Stats]
  BY DEF StatsOf
<1>4. StatsOf(s) \in Seq(Messages)
  BY <1>1, <1>2, <1>3
<1>5. CASE x = Statistics
  <2>1. Len(Only(Append(s, x), {Statistics})) = k + 1
    BY <1>1, <1>5, OnlyAppend, AppendProperties
  <2>2. StatsOf(Append(s, x)) = [i \in 1 .. k + 1 |-> Stats]
    BY <2>1 DEF StatsOf
  <2> HIDE DEF k
  <2>3. [i \in 1 .. k + 1 |-> Stats] = Append([i \in 1 .. k |-> Stats], Stats)
    BY <1>1
  <2>4. Append(StatsOf(s), Stats) = StatsOf(s) \o <<Stats>>
    BY <1>2, <1>4, AppendIsConcat
  <2>5. Shown(<<Reply(x)>>) = <<Stats>>
    BY <1>2, <1>5 DEF Shown, Reply
  <2>6. QED
    BY <1>3, <1>4, <2>2, <2>3, <2>4, <2>5
<1>6. CASE x # Statistics
  <2>1. Only(Append(s, x), {Statistics}) = Only(s, {Statistics})
    <3> DEFINE S == {Statistics}
    <3>1. x \notin S
      BY <1>6
    <3> HIDE DEF S
    <3>2. Only(Append(s, x), S) = Only(s, S)
      BY <3>1, OnlyAppend
    <3>3. QED
      BY <3>2 DEF S
  <2>a. StatsOf(Append(s, x)) = StatsOf(s)
    BY <2>1 DEF StatsOf
  <2>2. Shown(<<Reply(x)>>) = <<>>
    BY <1>6 DEF Shown, Reply
  <2>3. StatsOf(s) \o <<>> = StatsOf(s)
    BY <1>4, ConcatEmptySeq
  <2>4. QED
    BY <1>4, <2>a, <2>2, <2>3
<1>7. QED
  BY <1>5, <1>6

\* What the worker gathers and the client shows of one more line.
LEMMA OneMore ==
    ASSUME TalkTypes, NEW c \in Clients
    PROVE  /\ TextOf(Said(c, 0)) = <<>> /\ StatsOf(Said(c, 0)) = <<>>
           /\ Said(c, Len(lines[c])) = lines[c]
           /\ \A n \in 1 .. Len(lines[c]) :
                 /\ lines[c][n] \in Words
                 /\ TextOf(Said(c, n)) = IF lines[c][n] \in Commands THEN TextOf(Said(c, n - 1))
                                         ELSE Append(TextOf(Said(c, n - 1)), lines[c][n])
                 /\ StatsOf(Said(c, n)) = StatsOf(Said(c, n - 1)) \o Shown(<<Reply(lines[c][n])>>)
<1>1. lines[c] \in Seq(Words) /\ Len(lines[c]) \in Nat
  BY LenProperties DEF TalkTypes
<1>2. TextOf(<<>>) = <<>> /\ StatsOf(<<>>) = <<>>
  <2>1. <<>> \in Seq(Words) /\ Len(<<>>) = 0
    BY EmptySeq
  <2>2. Without(<<>>, Commands) = <<>>
    BY OnlyEmpty DEF Without
  <2>3. [i \in 1 .. 0 |-> Stats] = <<>>
    OBVIOUS
  <2>4. QED
    BY <2>1, <2>2, <2>3, OnlyEmpty DEF TextOf, StatsOf
<1>3. ASSUME NEW n \in 1 .. Len(lines[c])
      PROVE  /\ lines[c][n] \in Words /\ Said(c, n - 1) \in Seq(Words)
             /\ Said(c, n) = Append(Said(c, n - 1), lines[c][n])
  <2> DEFINE s == lines[c]
  <2>1. s \in Seq(Words) /\ n \in 1 .. Len(s) /\ n - 1 \in 0 .. Len(s)
    BY <1>1
  <2> HIDE DEF s
  <2>2. s[n] \in Words /\ SubSeq(s, 1, n) = Append(SubSeq(s, 1, n - 1), s[n])
    BY <2>1, Beginnings, Zenon
  <2>3. SubSeq(s, 1, n - 1) \in Seq(Words)
    BY <2>1, Beginnings, Zenon
  <2>4. QED
    BY <2>2, <2>3, Zenon DEF Said, s
<1>4. Said(c, 0) = <<>> /\ Said(c, Len(lines[c])) = lines[c]
  BY <1>1, Beginnings DEF Said
<1>5. ASSUME NEW n \in 1 .. Len(lines[c])
      PROVE  /\ lines[c][n] \in Words
             /\ TextOf(Said(c, n)) = IF lines[c][n] \in Commands THEN TextOf(Said(c, n - 1))
                                     ELSE Append(TextOf(Said(c, n - 1)), lines[c][n])
             /\ StatsOf(Said(c, n)) = StatsOf(Said(c, n - 1)) \o Shown(<<Reply(lines[c][n])>>)
  <2> DEFINE s == Said(c, n - 1)
             x == lines[c][n]
  <2>1. x \in Words /\ s \in Seq(Words) /\ Said(c, n) = Append(s, x)
    BY <1>3
  <2> HIDE DEF s, x
  <2>2. TextOf(Append(s, x)) = IF x \in Commands THEN TextOf(s) ELSE Append(TextOf(s), x)
    BY <2>1, TextOfAppend
  <2>3. StatsOf(Append(s, x)) = StatsOf(s) \o Shown(<<Reply(x)>>)
    BY <2>1, StatsOfAppend
  <2>4. QED
    BY <2>1, <2>2, <2>3 DEF s, x
<1>6. QED
  BY <1>2, <1>4, <1>5

-------------------------------------------------------------------------------
\* A step that leaves a client and its worker alone, but perhaps brings its connection
\* from the queue to a worker, or ends it there.
LeftAlone(c) ==
    /\ lines'[c] = lines[c] /\ next'[c] = next[c] /\ client'[c] = client[c]
    /\ up'[c] = up[c] /\ down'[c] = down[c] /\ held'[c] = held[c] /\ printed'[c] = printed[c]
    /\ \/ link'[c] = link[c]
       \/ link[c] \in {"queued", "accepted"} /\ link'[c] \in {"accepted", "reading", "closed"}

LEMMA ConversationKept ==
    ASSUME NEW c \in Clients, Conversation(c), LeftAlone(c)
    PROVE  Conversation(c)'
BY DEF Conversation, Stage, LeftAlone, Heard, Shows, Said

LEMMA DispatcherApart ==
    ASSUME TypeOK, Queued, NEW c \in Clients, NEW d \in Clients,
           \/ \E ok \in BOOLEAN : ReadOptions(ok) \/ LoadModel(ok)
           \/ TakeSlot \/ AcceptClient \/ ForkWorker(c) \/ ForkFails(c) \/ ChildEnded \/ Terminate
           \/ UNCHANGED vars
    PROVE  LeftAlone(d)
<1>1. UNCHANGED talk
  BY DEF ReadOptions, LoadModel, TakeSlot, AcceptClient, ForkWorker, ForkFails, ChildEnded, Terminate, vars
<1>2. CASE AcceptClient
  <2>1. Head(queue) = queue[1] /\ 1 \in 1 .. Len(queue)
    <3>1. queue \in Seq(Clients) /\ queue # <<>>
      BY <1>2 DEF AcceptClient, TypeOK
    <3>2. QED
      BY <3>1, HeadTailProperties, EmptySeq, LenProperties
  <2>2. link[Head(queue)] = "queued" /\ link' = [link EXCEPT ![Head(queue)] = "accepted"]
    BY <1>2, <2>1 DEF AcceptClient, Queued
  <2>3. QED
    BY <1>1, <2>2 DEF LeftAlone, talk, TypeOK
<1>3. CASE ~AcceptClient
  <2>1. \/ link'[d] = link[d]
        \/ link[d] \in {"queued", "accepted"} /\ link'[d] \in {"accepted", "reading", "closed"}
    BY <1>3 DEF ReadOptions, LoadModel, Dropped, TakeSlot, ForkWorker, ForkFails, ChildEnded, Terminate, vars, TypeOK
  <2>2. QED
    BY <1>1, <2>1 DEF LeftAlone, talk
<1>4. QED
  BY <1>2, <1>3

LEMMA OthersApart ==
    ASSUME TypeOK, TalkTypes, NEW c \in Clients, NEW d \in Clients, d # c,
           Work(c) \/ Run(c) \/ Connect(c) \/ Refused(c) \/ Kill(c)
    PROVE  LeftAlone(d)
<1> USE DEF LeftAlone, TypeOK, TalkTypes, talk
<1>1. CASE Hear(c) \/ EndOfText(c)
  BY <1>1 DEF Hear, EndOfText
<1>2. CASE Answer(c) \/ ParserThrows(c)
  BY <1>2 DEF Answer, ParserThrows, End
<1>3. CASE Synchronize(c) \/ SendLine(c) \/ Shutdown(c)
  BY <1>3 DEF Synchronize, SendLine, Shutdown
<1>4. CASE ReadReply(c) \/ ReadResult(c)
  BY <1>4 DEF ReadReply, ReadResult
<1>5. CASE Connect(c) \/ Refused(c) \/ Kill(c)
  BY <1>5 DEF Connect, Refused, Kill
<1>6. QED
  BY <1>1, <1>2, <1>3, <1>4, <1>5 DEF Work, Run

LEMMA HearTalks ==
    ASSUME TalkTypes, TypeOK, NEW c \in Clients, Conversation(c), Hear(c)
    PROVE  Conversation(c)'
<1> DEFINE n == next[c] - 1
<1>1. /\ up[c] # <<>> /\ link' = link /\ client' = client /\ lines' = lines /\ next' = next /\ printed' = printed
      /\ up'[c] = Tail(up[c])
      /\ held'[c] = IF Head(up[c]) \in Commands THEN held[c] ELSE Append(held[c], Head(up[c]))
      /\ down'[c] = Append(down[c], Reply(Head(up[c])))
  BY DEF Hear, TalkTypes, Reply
<1>2. next[c] \in 1 .. Len(lines[c]) + 1 /\ Stage(c, n)
  BY DEF Conversation
<1>3. CASE client[c] = "sync"
  <2>1. up[c] = <<Reset>> /\ down[c] = <<>> /\ link[c] = "reading"
    BY <1>1, <1>2, <1>3 DEF Stage, Hear
  <2>2. up'[c] = <<>> /\ held'[c] = held[c] /\ down'[c] = <<Ready>>
    <3>1. Head(<<Reset>>) = Reset /\ Tail(<<Reset>>) = <<>> /\ Reset \in Commands /\ Reset # Statistics
      BY DEF Reset, Statistics, Commands
    <3>2. Append(<<>>, Ready) = <<Ready>>
      OBVIOUS
    <3>3. QED
      BY <1>1, <2>1, <3>1, <3>2 DEF Reply
  <2>3. Stage(c, n)'
    BY <1>1, <1>2, <1>3, <2>1, <2>2 DEF Stage
  <2>4. QED
    BY <1>1, <1>2, <2>3 DEF Conversation
<1>4. CASE client[c] = "wait"
  <2> DEFINE x == lines[c][n]
  <2>1. /\ up[c] = <<x>> /\ down[c] = <<>> /\ link[c] = "reading" /\ n > 0 /\ Shows(c, n - 1) /\ Heard(c, n - 1)
    BY <1>1, <1>2, <1>4 DEF Stage
  <2>2. Len(lines[c]) \in Nat /\ n \in 1 .. Len(lines[c])
    BY <1>2, <2>1, LenProperties DEF TalkTypes
  <2>3. TextOf(Said(c, n)) = IF x \in Commands THEN TextOf(Said(c, n - 1)) ELSE Append(TextOf(Said(c, n - 1)), x)
    BY <2>2, OneMore
  <2> HIDE DEF x, n
  <2>4. Head(<<x>>) = x /\ Tail(<<x>>) = <<>> /\ Append(<<>>, Reply(x)) = <<Reply(x)>>
    OBVIOUS
  <2>5. up'[c] = <<>> /\ held'[c] = TextOf(Said(c, n)) /\ down'[c] = <<Reply(x)>>
    BY <1>1, <2>1, <2>3, <2>4 DEF Heard
  <2>6. Stage(c, n)'
    BY <1>1, <1>4, <2>1, <2>5 DEF Stage, Heard, Shows, Said, x, n
  <2>7. QED
    BY <1>1, <1>2, <2>6 DEF Conversation, n
<1>5. CASE client[c] \notin {"sync", "wait"}
  <2>1. client[c] \notin {"new", "send", "last"}
    BY <1>1, <1>2, <1>5 DEF Stage
  <2>2. Stage(c, n)'
    BY <1>1, <1>2, <1>5, <2>1 DEF Stage
  <2>3. QED
    BY <1>1, <1>2, <2>2 DEF Conversation
<1>6. QED
  BY <1>3, <1>4, <1>5

LEMMA WorkTalks ==
    ASSUME TalkTypes, TypeOK, NewUnlinked, NEW c \in Clients, Conversation(c), EndOfText(c) \/ Answer(c) \/ ParserThrows(c)
    PROVE  Conversation(c)'
<1> DEFINE n == next[c] - 1
<1>1. /\ client' = client /\ lines' = lines /\ next' = next /\ printed' = printed /\ up' = up /\ held' = held
  BY DEF EndOfText, Answer, ParserThrows, talk
<1>2. next[c] \in 1 .. Len(lines[c]) + 1 /\ Stage(c, n)
  BY DEF Conversation
<1>3. CASE EndOfText(c)
  <2>1. client[c] \in {"last", "killed"} /\ link'[c] = "parsing" /\ link[c] = "reading" /\ down' = down
    BY <1>3 DEF EndOfText, talk, TypeOK
  <2>2. Stage(c, n)'
    <3>1. \A k : Heard(c, k)' = Heard(c, k) /\ Shows(c, k)' = Shows(c, k)
      BY <1>1 DEF Heard, Shows, Said
    <3>2. QED
      BY <1>1, <1>2, <2>1, <3>1 DEF Stage
  <2>3. QED
    BY <1>1, <1>2, <2>2 DEF Conversation
<1>4. CASE Answer(c) \/ ParserThrows(c)
  <2>1. link[c] = "parsing" /\ link'[c] = "closed" /\ down'[c] = down[c] \o Result(held[c])
    <3>1. CASE Answer(c)
      <4>1. link[c] = "parsing" /\ link'[c] = "closed" /\ ~HasBad(held[c])
        BY <3>1 DEF Answer, End, TypeOK
      <4>2. down'[c] = Append(down[c], Parsed(held[c]))
        BY <3>1 DEF Answer, TalkTypes
      <4>3. Append(down[c], Parsed(held[c])) = down[c] \o <<Parsed(held[c])>>
        <5>1. Parsed(held[c]) \in Messages /\ down[c] \in Seq(Messages)
          BY DEF TalkTypes, Messages
        <5>2. QED
          BY <5>1, AppendIsConcat
      <4>4. QED
        BY <4>1, <4>2, <4>3 DEF Result
    <3>2. CASE ParserThrows(c)
      <4>1. link[c] = "parsing" /\ link'[c] = "closed" /\ HasBad(held[c]) /\ down' = down
        BY <3>2 DEF ParserThrows, End, TypeOK, talk
      <4>2. down[c] \o <<>> = down[c]
        BY ConcatEmptySeq DEF TalkTypes
      <4>3. QED
        BY <4>1, <4>2 DEF Result
    <3>3. QED
      BY <1>4, <3>1, <3>2
  <2>2. client[c] \notin {"new", "sync", "send", "wait"}
    BY <1>2, <2>1 DEF Stage, NewUnlinked
  <2>3. client[c] = "last" => down'[c] = Result(held[c])
    <3>1. client[c] = "last" => down[c] = <<>>
      BY <1>2, <2>1 DEF Stage
    <3>2. <<>> \o Result(held[c]) = Result(held[c])
      <4>1. held[c] \in Seq(Words)
        BY DEF TalkTypes
      <4>2. Result(held[c]) \in Seq(Messages)
        <5>1. Parsed(held[c]) \in Messages
          BY <4>1 DEF Messages
        <5> DEFINE m == Parsed(held[c])
        <5> HIDE DEF m
        <5>2. m \in Messages => <<m>> \in Seq(Messages)
          OBVIOUS
        <5>3. QED
          BY <5>1, <5>2, EmptySeq DEF Result, m
      <4>3. QED
        BY <4>2, ConcatEmptySeq
    <3>3. QED
      BY <2>1, <3>1, <3>2
  <2>4. \A k : Heard(c, k)' = Heard(c, k) /\ Shows(c, k)' = Shows(c, k)
    BY <1>1 DEF Heard, Shows, Said
  <2>5. Stage(c, n)'
    BY <1>1, <1>2, <2>1, <2>2, <2>3, <2>4 DEF Stage
  <2>6. QED
    BY <1>1, <1>2, <2>5 DEF Conversation
<1>5. QED
  BY <1>3, <1>4

LEMMA ShownResult ==
    ASSUME NEW s
    PROVE  Shown(Result(s)) = Result(s) /\ Shown(<<>>) = <<>>
<1>1. Parsed(s) # Ready
  <2>1. Parsed(s).kind # Ready.kind
    BY DEF Parsed, Ready
  <2>2. QED
    BY <2>1
<1>2. <<Parsed(s)>> # <<Ready>>
  <2>1. <<Parsed(s)>>[1] # <<Ready>>[1]
    BY <1>1
  <2>2. QED
    BY <2>1
<1>3. QED
  BY <1>2 DEF Shown, Result

LEMMA RunTalks ==
    ASSUME TalkTypes, TypeOK, NEW c \in Clients, Conversation(c), Run(c)
    PROVE  Conversation(c)'
<1> DEFINE n == next[c] - 1
<1>1. next[c] \in 1 .. Len(lines[c]) + 1 /\ Stage(c, n) /\ Len(lines[c]) \in Nat
  BY LenProperties DEF Conversation, TalkTypes
<1>2. lines' = lines /\ held' = held /\ link' = link
  BY DEF Run, Synchronize, SendLine, ReadReply, Shutdown, ReadResult
<1>3. \A k : Heard(c, k)' = Heard(c, k) /\ Said(c, k)' = Said(c, k)
  BY <1>2 DEF Heard, Said
<1>4. CASE Synchronize(c)
  <2>1. /\ client[c] = "sync" /\ n = 0 /\ next' = next /\ up' = up /\ printed' = printed /\ down'[c] = <<>>
        /\ client'[c] = IF ~HungUp(c) /\ Head(down[c]) = Ready THEN "send" ELSE "failed"
    BY <1>1, <1>4 DEF Synchronize, Stage, TalkTypes, TypeOK
  <2>2. CASE client'[c] = "send"
    <3>1. down[c] # <<>> \/ HungUp(c)
      BY <1>4 DEF Synchronize
    <3>2. ~HungUp(c) /\ down[c] # <<>>
      BY <2>1, <2>2, <3>1
    <3>3. up[c] = <<>> /\ link[c] = "reading" /\ held[c] = <<>> /\ printed[c] = <<>>
      BY <1>1, <2>1, <3>2 DEF Stage
    <3>4. Heard(c, n) /\ Shows(c, n)
      BY <2>1, <3>3, OneMore DEF Heard, Shows
    <3>5. Stage(c, n)'
      BY <1>2, <1>3, <2>1, <2>2, <3>3, <3>4 DEF Stage, Shows
    <3>6. QED
      BY <1>1, <1>2, <2>1, <3>5 DEF Conversation
  <2>3. CASE client'[c] = "failed"
    BY <1>1, <1>2, <2>1, <2>3 DEF Conversation, Stage
  <2>4. QED
    BY <2>1, <2>2, <2>3
<1>5. CASE SendLine(c)
  <2>a. PICK k \in Nat : k = next[c]
    BY DEF TalkTypes
  <2>1. /\ client[c] = "send" /\ client'[c] = "wait" /\ k <= Len(lines[c]) /\ next'[c] = k + 1
        /\ up'[c] = Append(up[c], lines[c][k]) /\ down' = down /\ printed' = printed
    BY <1>5, <2>a DEF SendLine, TalkTypes, TypeOK
  <2>2. /\ link[c] = "reading" /\ up[c] = <<>> /\ down[c] = <<>> /\ Heard(c, k - 1) /\ Shows(c, k - 1)
    BY <1>1, <2>a, <2>1 DEF Stage
  <2>3. up'[c] = <<lines[c][k]>>
    <3>1. \A x : Append(<<>>, x) = <<x>>
      OBVIOUS
    <3>2. QED
      BY <2>1, <2>2, <3>1
  <2>4. next'[c] - 1 = k /\ k > 0 /\ next'[c] \in 1 .. Len(lines[c]) + 1
    BY <1>1, <2>a, <2>1
  <2>5. Heard(c, k - 1)' /\ Shows(c, k - 1)'
    BY <1>2, <2>1, <2>2 DEF Heard, Shows, Said
  <2>6. Stage(c, k)'
    BY <1>2, <2>1, <2>2, <2>3, <2>4, <2>5 DEF Stage
  <2>7. QED
    BY <1>2, <2>4, <2>6 DEF Conversation
<1>6. CASE ReadReply(c)
  <2>1. /\ client[c] = "wait" /\ client'[c] = "send" /\ down[c] # <<>> /\ down'[c] = <<>>
        /\ printed'[c] = printed[c] \o Shown(down[c]) /\ up' = up /\ next' = next
    BY <1>6 DEF ReadReply, TalkTypes, TypeOK
  <2>2. /\ n > 0 /\ link[c] = "reading" /\ Shows(c, n - 1)
        /\ up[c] = <<>> /\ down[c] = <<Reply(lines[c][n])>> /\ Heard(c, n)
    BY <1>1, <2>1 DEF Stage
  <2>3. n \in 1 .. Len(lines[c])
    BY <1>1, <2>2
  <2>4. printed'[c] = StatsOf(Said(c, n))
    BY <2>1, <2>2, <2>3, OneMore DEF Shows
  <2>5. Stage(c, n)'
    BY <1>2, <1>3, <2>1, <2>2, <2>4 DEF Stage, Shows
  <2>6. QED
    BY <1>1, <1>2, <2>1, <2>5 DEF Conversation
<1>7. CASE Shutdown(c)
  <2>1. /\ client[c] = "send" /\ client'[c] = "last" /\ next[c] > Len(lines[c])
        /\ up' = up /\ down' = down /\ printed' = printed /\ next' = next
    BY <1>7 DEF Shutdown, TypeOK
  <2>2. n = Len(lines[c])
    BY <1>1, <2>1
  <2>3. Stage(c, n)'
    BY <1>1, <1>2, <1>3, <2>1, <2>2 DEF Stage, Shows
  <2>4. QED
    BY <1>1, <1>2, <2>1, <2>3 DEF Conversation
<1>8. CASE ReadResult(c)
  <2>1. /\ client[c] = "last" /\ client'[c] = "done" /\ (HungUp(c) \/ down[c] # <<>>)
        /\ printed'[c] = printed[c] \o Shown(down[c]) /\ next' = next
    BY <1>8 DEF ReadResult, TalkTypes, TypeOK
  <2>2. n = Len(lines[c]) /\ Heard(c, n) /\ Shows(c, n) /\ down[c] = Result(held[c])
    BY <1>1, <2>1 DEF Stage, HungUp
  <2>3. held[c] = TextOf(lines[c]) /\ printed[c] = StatsOf(lines[c])
    BY <2>2, OneMore DEF Heard, Shows
  <2>4. printed'[c] = StatsOf(lines[c]) \o Result(TextOf(lines[c]))
    BY <2>1, <2>2, <2>3, ShownResult
  <2>5. Stage(c, n)'
    BY <1>2, <2>1, <2>4 DEF Stage
  <2>6. QED
    BY <1>1, <1>2, <2>1, <2>5 DEF Conversation
<1>9. QED
  BY <1>4, <1>5, <1>6, <1>7, <1>8 DEF Run

LEMMA ComingAndGoing ==
    ASSUME TalkTypes, TypeOK, NEW c \in Clients, Conversation(c), Connect(c) \/ Refused(c) \/ Kill(c)
    PROVE  Conversation(c)'
<1> DEFINE n == next[c] - 1
<1>1. next[c] \in 1 .. Len(lines[c]) + 1 /\ Stage(c, n)
  BY DEF Conversation
<1>2. lines' = lines /\ next' = next /\ held' = held /\ printed' = printed /\ down' = down
  BY DEF Connect, Refused, Kill
<1>3. CASE Connect(c)
  <2>1. client[c] = "new" /\ client'[c] = "sync" /\ link'[c] = "queued" /\ up'[c] = <<Reset>>
    BY <1>3 DEF Connect, TalkTypes, TypeOK
  <2>2. Stage(c, n)'
    BY <1>1, <1>2, <2>1 DEF Stage
  <2>3. QED
    BY <1>1, <1>2, <2>2 DEF Conversation
<1>4. CASE Refused(c) \/ Kill(c)
  <2>1. client'[c] \in {"failed", "killed"}
    BY <1>4 DEF Refused, Kill, TypeOK
  <2>2. Stage(c, n)'
    BY <2>1 DEF Stage
  <2>3. QED
    BY <1>1, <1>2, <2>2 DEF Conversation
<1>5. QED
  BY <1>3, <1>4

LEMMA QueuedStep == TypeOK /\ NewUnlinked /\ Queued /\ [Next]_vars => Queued'
<1> SUFFICES ASSUME TypeOK, NewUnlinked, Queued, [Next]_vars PROVE Queued'
  OBVIOUS
<1>a. Len(queue) \in Nat /\ \A i \in 1 .. Len(queue) : queue[i] \in Clients
  BY LenProperties, ElementOfSeq DEF TypeOK
<1>b. ASSUME queue' = queue, \A c \in Clients : link[c] = "queued" => link'[c] = "queued"
      PROVE  Queued'
  BY <1>a, <1>b DEF Queued
<1>c. ASSUME queue' = <<>> PROVE Queued'
  BY <1>c, EmptySeq DEF Queued
<1>1. ASSUME NEW ok \in BOOLEAN, ReadOptions(ok) \/ LoadModel(ok) PROVE Queued'
  <2>1. queue' = <<>> \/ (queue' = queue /\ link' = link)
    BY <1>1 DEF ReadOptions, LoadModel
  <2>2. QED
    BY <2>1, <1>b, <1>c
<1>2. CASE TakeSlot \/ ChildEnded \/ Terminate \/ UNCHANGED vars
  <2>1. queue' = <<>> \/ (queue' = queue /\ link' = link)
    BY <1>2 DEF TakeSlot, ChildEnded, Terminate, vars, dispatcher
  <2>2. QED
    BY <2>1, <1>b, <1>c
<1>3. CASE AcceptClient
  <2>1. /\ queue # <<>> /\ queue' = Tail(queue) /\ link' = [link EXCEPT ![Head(queue)] = "accepted"]
    BY <1>3 DEF AcceptClient
  <2>2. /\ Head(queue) = queue[1] /\ 1 \in 1 .. Len(queue) /\ Len(queue') = Len(queue) - 1
        /\ \A i \in 1 .. Len(queue') : queue'[i] = queue[i + 1]
    BY <2>1, <1>a, HeadTailProperties, EmptySeq DEF TypeOK
  <2>3. \A i \in 1 .. Len(queue') : i + 1 \in 1 .. Len(queue) /\ i + 1 # 1
    BY <2>2, <1>a
  <2>4. ASSUME NEW i \in 1 .. Len(queue') PROVE link'[queue'[i]] = "queued"
    <3>1. queue[i + 1] # queue[1] /\ link[queue[i + 1]] = "queued"
      BY <2>2, <2>3 DEF Queued
    <3>2. queue[i + 1] \in Clients
      BY <2>3, <1>a
    <3>3. QED
      BY <2>1, <2>2, <3>1, <3>2 DEF TypeOK
  <2>5. ASSUME NEW i \in 1 .. Len(queue'), NEW j \in 1 .. Len(queue'), queue'[i] = queue'[j] PROVE i = j
    <3>1. queue[i + 1] = queue[j + 1] /\ i + 1 \in 1 .. Len(queue) /\ j + 1 \in 1 .. Len(queue)
      BY <2>2, <2>3, <2>5
    <3>2. i + 1 = j + 1
      BY <3>1 DEF Queued
    <3>3. QED
      BY <3>2, <2>2, <1>a
  <2>6. QED
    BY <2>4, <2>5 DEF Queued
<1>4. ASSUME NEW c \in Clients, ForkWorker(c) \/ ForkFails(c) \/ Work(c) PROVE Queued'
  <2>1. /\ queue' = queue /\ link[c] # "queued"
        /\ \A d \in Clients : d # c => link'[d] = link[d]
    BY <1>4 DEF ForkWorker, ForkFails, Work, Hear, EndOfText, Answer, ParserThrows, End, dispatcher, TypeOK
  <2>2. QED
    BY <2>1, <1>b
<1>5. ASSUME NEW c \in Clients, Run(c) \/ Refused(c) \/ Kill(c) PROVE Queued'
  <2>1. queue' = queue /\ link' = link
    BY <1>5 DEF Run, Refused, Kill, Synchronize, SendLine, ReadReply, Shutdown, ReadResult, dispatcher
  <2>2. QED
    BY <2>1, <1>b
<1>6. ASSUME NEW c \in Clients, Connect(c) PROVE Queued'
  <2>1. /\ Len(queue') = Len(queue) + 1
        /\ \A i \in 1 .. Len(queue) : queue'[i] = queue[i]
        /\ queue'[Len(queue) + 1] = c
        /\ client[c] = "new" /\ link' = [link EXCEPT ![c] = "queued"]
    BY <1>6, AppendProperties DEF Connect, TypeOK
  <2>2. \A i \in 1 .. Len(queue) : queue[i] # c
    BY <1>a, <2>1 DEF NewUnlinked, TypeOK
  <2>3. \A i \in 1 .. Len(queue') : i \in 1 .. Len(queue) \/ i = Len(queue) + 1
    <3>1. ASSUME NEW n \in Nat, NEW i \in 1 .. n + 1 PROVE i \in 1 .. n \/ i = n + 1
      OBVIOUS
    <3>2. QED
      BY <2>1, <1>a, <3>1
  <2>4. ASSUME NEW i \in 1 .. Len(queue') PROVE link'[queue'[i]] = "queued"
    BY <1>a, <2>1, <2>2, <2>3 DEF Queued, TypeOK
  <2>5. ASSUME NEW i \in 1 .. Len(queue'), NEW j \in 1 .. Len(queue'), queue'[i] = queue'[j] PROVE i = j
    BY <1>a, <2>1, <2>2, <2>3, <2>5 DEF Queued
  <2>6. QED
    BY <2>4, <2>5 DEF Queued
<1>7. QED
  BY <1>1, <1>2, <1>3, <1>4, <1>5, <1>6 DEF Next, Dispatch

LEMMA TalkTypesStep == TypeOK /\ TalkInv /\ [Next]_vars => TalkTypes'
<1> SUFFICES ASSUME TypeOK, TalkTypes, \A c \in Clients : Conversation(c), [Next]_vars PROVE TalkTypes'
  BY DEF TalkInv
<1> USE DEF TalkTypes, talk
<1>1. CASE UNCHANGED talk
  BY <1>1
<1>2. ASSUME NEW c \in Clients, Hear(c) PROVE TalkTypes'
  <2> DEFINE x == Head(up[c])
  <2>1. up[c] \in Seq(Words) /\ up[c] # <<>>
    BY <1>2 DEF Hear
  <2>2. x \in Words /\ Tail(up[c]) \in Seq(Words)
    BY <2>1, HeadTailProperties
  <2>3. Append(held[c], x) \in Seq(Words)
    BY <2>2, AppendProperties
  <2>4. Reply(x) \in Messages
    BY DEF Reply, Messages
  <2> DEFINE m == Reply(x)
  <2>5. Append(down[c], m) \in Seq(Messages)
    <3> HIDE DEF m
    <3>1. m \in Messages
      BY <2>4 DEF m
    <3>2. QED
      BY <3>1, AppendProperties
  <2>6. /\ up' = [up EXCEPT ![c] = Tail(up[c])]
        /\ held' = held \/ held' = [held EXCEPT ![c] = Append(held[c], x)]
        /\ down' = [down EXCEPT ![c] = Append(down[c], m)]
        /\ lines' = lines /\ next' = next /\ printed' = printed
    BY <1>2 DEF Hear, Reply
  <2> HIDE DEF x, m
  <2>7. QED
    BY <2>2, <2>3, <2>5, <2>6
<1>3. ASSUME NEW c \in Clients, Answer(c) PROVE TalkTypes'
  <2>1. held[c] \in Seq(Words)
    OBVIOUS
  <2>2. Parsed(held[c]) \in Messages
    BY <2>1 DEF Messages
  <2>3. Append(down[c], Parsed(held[c])) \in Seq(Messages)
    BY <2>2, AppendProperties
  <2>4. /\ down' = [down EXCEPT ![c] = Append(down[c], Parsed(held[c]))]
        /\ UNCHANGED <<lines, next, up, held, printed>>
    BY <1>3 DEF Answer
  <2>5. QED
    BY <2>3, <2>4
<1>4. ASSUME NEW c \in Clients, Synchronize(c) PROVE TalkTypes'
  <2>1. <<>> \in Seq(Messages)
    BY EmptySeq
  <2>2. QED
    BY <1>4, <2>1 DEF Synchronize
<1>5. ASSUME NEW c \in Clients, ReadReply(c) \/ ReadResult(c) PROVE TalkTypes'
  <2>1. <<>> \in Seq(Messages) /\ Shown(down[c]) \in Seq(Messages)
    BY EmptySeq DEF Shown
  <2>2. printed[c] \o Shown(down[c]) \in Seq(Messages)
    BY <2>1, ConcatProperties
  <2>3. /\ down' = [down EXCEPT ![c] = <<>>] /\ printed' = [printed EXCEPT ![c] = printed[c] \o Shown(down[c])]
        /\ UNCHANGED <<lines, next, up, held>>
    BY <1>5 DEF ReadReply, ReadResult
  <2>4. QED
    BY <2>1, <2>2, <2>3
<1>6. ASSUME NEW c \in Clients, SendLine(c) PROVE TalkTypes'
  <2> DEFINE x == lines[c][next[c]]
  <2>1. next[c] \in 1 .. Len(lines[c])
    <3>1. next[c] \in 1 .. Len(lines[c]) + 1 /\ next[c] <= Len(lines[c]) /\ Len(lines[c]) \in Nat
      BY <1>6, LenProperties DEF SendLine, Conversation
    <3>2. QED
      BY <3>1
  <2>2. x \in Words /\ next[c] + 1 \in Nat
    <3>1. lines[c] \in Seq(Words)
      OBVIOUS
    <3>2. QED
      BY <2>1, <3>1, ElementOfSeq
  <2>3. /\ up' = [up EXCEPT ![c] = Append(up[c], x)] /\ next' = [next EXCEPT ![c] = next[c] + 1]
        /\ UNCHANGED <<lines, down, held, printed>>
    BY <1>6 DEF SendLine
  <2> HIDE DEF x
  <2>4. Append(up[c], x) \in Seq(Words)
    BY <2>2, AppendProperties
  <2>5. QED
    BY <2>2, <2>3, <2>4
<1>7. ASSUME NEW c \in Clients, Connect(c) PROVE TalkTypes'
  <2>1. <<Reset>> \in Seq(Words)
    <3>1. Reset \in Words
      BY DEF Words, Commands
    <3>2. ASSUME NEW x \in Words PROVE <<x>> \in Seq(Words)
      OBVIOUS
    <3>3. QED
      BY <3>1, <3>2
  <2>2. up' = [up EXCEPT ![c] = <<Reset>>] /\ UNCHANGED <<lines, next, down, held, printed>>
    BY <1>7 DEF Connect
  <2>3. QED
    BY <2>1, <2>2
<1>8. ASSUME NEW c \in Clients, Shutdown(c) \/ Refused(c) \/ Kill(c) PROVE TalkTypes'
  <2>1. UNCHANGED <<lines, next, up, down, held, printed>>
    BY <1>8 DEF Shutdown, Refused, Kill
  <2>2. QED
    BY <2>1
<1>9. ASSUME NEW c \in Clients, EndOfText(c) \/ ParserThrows(c) \/ ForkWorker(c) \/ ForkFails(c) PROVE TalkTypes'
  BY <1>1, <1>9 DEF EndOfText, ParserThrows, ForkWorker, ForkFails
<1>10. ASSUME NEW ok \in BOOLEAN, ReadOptions(ok) \/ LoadModel(ok) PROVE TalkTypes'
  BY <1>1, <1>10 DEF ReadOptions, LoadModel
<1>11. CASE TakeSlot \/ AcceptClient \/ ChildEnded \/ Terminate \/ UNCHANGED vars
  BY <1>1, <1>11 DEF TakeSlot, AcceptClient, ChildEnded, Terminate, vars
<1>12. QED
  BY <1>2, <1>3, <1>4, <1>5, <1>6, <1>7, <1>8, <1>9, <1>10, <1>11 DEF Next, Dispatch, Work, Run

-------------------------------------------------------------------------------
LEMMA TalkInit == Init => TalkInv
<1> SUFFICES ASSUME Init PROVE TalkInv
  OBVIOUS
<1>1. PICK texts \in Texts : InitWith("options", texts)
  BY DEF Init
<1>2. texts \in [Clients -> Seq(Words)]
  <2>1. \A S, T : S \subseteq T => Seq(S) \subseteq Seq(T)
    OBVIOUS
  <2>2. Seq(STRING) \subseteq Seq(Words)
    BY <2>1 DEF Words
  <2>3. QED
    BY <2>2, DesrAssumption DEF DesrAssumption
<1>3. /\ lines = texts /\ queue = <<>> /\ client = [c \in Clients |-> "new"]
      /\ next = [c \in Clients |-> 1] /\ up = [c \in Clients |-> <<>>] /\ down = [c \in Clients |-> <<>>]
      /\ held = [c \in Clients |-> <<>>] /\ printed = [c \in Clients |-> <<>>]
  BY <1>1 DEF InitWith
<1>4. TalkTypes
  BY <1>2, <1>3, EmptySeq DEF TalkTypes
<1>5. Queued
  BY <1>3, EmptySeq DEF Queued
<1>6. ASSUME NEW c \in Clients PROVE Conversation(c)
  <2>1. Len(lines[c]) \in Nat
    BY <1>4, LenProperties DEF TalkTypes
  <2>2. QED
    BY <1>3, <2>1 DEF Conversation, Stage
<1>7. QED
  BY <1>4, <1>5, <1>6 DEF TalkInv

\* Every step leaves the other conversations alone and takes its own one on.
LEMMA TalkStep == IInv /\ TalkInv /\ [Next]_vars => TalkInv'
<1> SUFFICES ASSUME IInv, TalkInv, [Next]_vars PROVE TalkInv'
  OBVIOUS
<1>1. TypeOK /\ NewUnlinked /\ TalkTypes /\ Queued
  BY DEF IInv, TalkInv
<1>2. ASSUME NEW d \in Clients PROVE Conversation(d)'
  <2>1. Conversation(d)
    BY DEF TalkInv
  <2>2. ASSUME NEW ok \in BOOLEAN, ReadOptions(ok) \/ LoadModel(ok) PROVE Conversation(d)'
    BY <1>1, <2>1, <2>2, DispatcherApart, ConversationKept
  <2>3. CASE TakeSlot \/ AcceptClient \/ ChildEnded \/ Terminate \/ UNCHANGED vars
    BY <1>1, <2>1, <2>3, DispatcherApart, ConversationKept
  <2>4. ASSUME NEW c \in Clients, ForkWorker(c) \/ ForkFails(c) PROVE Conversation(d)'
    BY <1>1, <2>1, <2>4, DispatcherApart, ConversationKept
  <2>5. ASSUME NEW c \in Clients, Work(c) \/ Run(c) \/ Connect(c) \/ Refused(c) \/ Kill(c) PROVE Conversation(d)'
    <3>1. CASE c # d
      BY <1>1, <2>1, <2>5, <3>1, OthersApart, ConversationKept
    <3>2. CASE c = d
      <4>1. CASE Work(d)
        BY <1>1, <2>1, <4>1, HearTalks, WorkTalks DEF Work
      <4>2. CASE Run(d)
        BY <1>1, <2>1, <4>2, RunTalks
      <4>3. CASE Connect(d) \/ Refused(d) \/ Kill(d)
        BY <1>1, <2>1, <4>3, ComingAndGoing
      <4>4. QED
        BY <2>5, <3>2, <4>1, <4>2, <4>3
    <3>3. QED
      BY <3>1, <3>2
  <2>6. QED
    BY <2>2, <2>3, <2>4, <2>5 DEF Next, Dispatch
<1>3. TalkTypes' /\ Queued'
  BY <1>1, QueuedStep, TalkTypesStep
<1>4. QED
  BY <1>2, <1>3 DEF TalkInv

\* desr_server.cc, the loop of a worker, and desr_client.cc: what a client that ends
\* normally has printed is its statistics and then the parse of all its other lines,
\* whatever the dispatcher, the other workers and the other clients do in between.
THEOREM TextAlwaysParsed == Spec => []TextParsed
<1>1. TalkInv => TextParsed
  BY DEF TalkInv, Conversation, Stage, Result, TextParsed
<1>2. IInv /\ TalkInv /\ [Next]_vars => IInv' /\ TalkInv'
  BY TypeStep, UnlinkedStep, SlotsStep, TalkStep DEF IInv
<1>3. QED
  BY InitEstablishesIInv, TalkInit, <1>1, <1>2, PTL DEF Spec

-------------------------------------------------------------------------------

LEMMA OnlyCount ==
    ASSUME NEW T, NEW S
    PROVE  \A s \in Seq(T) : Len(Only(s, S)) = Cardinality({i \in 1 .. Len(s) : s[i] \in S})
<1> DEFINE At(s) == {i \in 1 .. Len(s) : s[i] \in S}
           G == {s \in Seq(T) : Len(Only(s, S)) = Cardinality(At(s))}
<1>1. <<>> \in G
  <2>1. <<>> \in Seq(T) /\ At(<<>>) = {}
    BY EmptySeq
  <2>2. Len(Only(<<>>, S)) = 0
    BY OnlyEmpty, EmptySeq
  <2>3. QED
    BY <2>1, <2>2, FS_EmptySet
<1>2. \A s \in Seq(T) : \A x \in T : s \in G => Append(s, x) \in G
  <2> SUFFICES ASSUME NEW s \in Seq(T), NEW x \in T, s \in G PROVE Append(s, x) \in G
    OBVIOUS
  <2> DEFINE t == Append(s, x)
  <2>1. /\ t \in Seq(T) /\ Len(s) \in Nat /\ Len(t) = Len(s) + 1
        /\ \A n \in 1 .. Len(s) : t[n] = s[n]
        /\ t[Len(s) + 1] = x
    BY AppendProperties, LenProperties
  <2>2. /\ Only(s, S) \in Seq(T)
        /\ x \in S => Only(t, S) = Append(Only(s, S), x)
        /\ x \notin S => Only(t, S) = Only(s, S)
    <3>1. \A z \in Seq(T) : \A y \in T :
            Only(Append(z, y), S) = IF y \in S THEN Append(Only(z, S), y) ELSE Only(z, S)
      BY OnlyOneMore, Zenon
    <3>2. Only(t, S) = IF x \in S THEN Append(Only(s, S), x) ELSE Only(s, S)
      BY <3>1, Zenon
    <3>3. QED
      BY <3>2, OnlyType, Zenon
  <2>3. IsFiniteSet(At(s)) /\ Cardinality(At(s)) \in Nat
    <3>1. IsFiniteSet(1 .. Len(s))
      BY <2>1, FS_Interval
    <3>2. At(s) \in SUBSET (1 .. Len(s))
      OBVIOUS
    <3>3. QED
      BY <3>1, <3>2, FS_Subset, FS_CardinalityType
  <2> HIDE DEF t
  <2>4. At(t) = IF x \in S THEN At(s) \cup {Len(s) + 1} ELSE At(s)
    BY <2>1
  <2>5. Len(s) + 1 \notin At(s)
    BY <2>1
  <2>6. Cardinality(At(t)) = IF x \in S THEN Cardinality(At(s)) + 1 ELSE Cardinality(At(s))
    <3> HIDE DEF At
    <3> QED BY <2>3, <2>4, <2>5, FS_AddElement
  <2>7. Len(Only(t, S)) = IF x \in S THEN Len(Only(s, S)) + 1 ELSE Len(Only(s, S))
    BY <2>2, AppendProperties
  <2>8. Len(Only(t, S)) = Cardinality(At(t))
    <3> HIDE DEF At
    <3>1. Len(Only(s, S)) = Cardinality(At(s))
      OBVIOUS
    <3>2. QED
      BY <2>6, <2>7, <3>1
  <2>9. QED
    BY <2>1, <2>8 DEF t
<1>3. QED
  <2> HIDE DEF G
  <2>1. Seq(T) \subseteq G
    BY <1>1, <1>2, SequenceInduction
  <2>2. QED
    BY <2>1 DEF G

\* What is picked and what is left make up the whole.
LEMMA OnlyParts ==
    ASSUME NEW T, NEW S
    PROVE  \A s \in Seq(T) : /\ Only(s, S) \in Seq(T) /\ Only(s, T \ S) \in Seq(T)
                             /\ Len(Only(s, S)) + Len(Only(s, T \ S)) = Len(s)
<1> DEFINE G == {s \in Seq(T) : Len(Only(s, S)) + Len(Only(s, T \ S)) = Len(s)}
<1>1. <<>> \in G
  BY OnlyEmpty, EmptySeq
<1>2. \A s \in Seq(T) : \A x \in T : s \in G => Append(s, x) \in G
  <2> SUFFICES ASSUME NEW s \in Seq(T), NEW x \in T, s \in G PROVE Append(s, x) \in G
    OBVIOUS
  <2>1. Append(s, x) \in Seq(T) /\ Len(Append(s, x)) = Len(s) + 1 /\ Len(s) \in Nat
    BY AppendProperties, LenProperties
  <2>2. Only(s, S) \in Seq(T) /\ Only(s, T \ S) \in Seq(T)
    BY OnlyType
  <2> DEFINE t == Append(s, x)
  <2>7. \A R : \A z \in Seq(T) : \A y \in T :
            Only(Append(z, y), R) = IF y \in R THEN Append(Only(z, R), y) ELSE Only(z, R)
    BY OnlyOneMore, Zenon
  <2>8. \A R : Only(t, R) = IF x \in R THEN Append(Only(s, R), x) ELSE Only(s, R)
    BY <2>7, Zenon
  <2> HIDE DEF t
  <2>3. Len(Only(t, S)) = IF x \in S THEN Len(Only(s, S)) + 1 ELSE Len(Only(s, S))
    BY <2>2, <2>8, AppendProperties
  <2>4. Len(Only(t, T \ S)) = IF x \in S THEN Len(Only(s, T \ S)) ELSE Len(Only(s, T \ S)) + 1
    <3> DEFINE N == T \ S
    <3>1. x \in N <=> x \notin S
      OBVIOUS
    <3> HIDE DEF N
    <3>2. Only(s, N) \in Seq(T)
      BY OnlyType
    <3>3. Len(Only(t, N)) = IF x \in N THEN Len(Only(s, N)) + 1 ELSE Len(Only(s, N))
      BY <3>2, <2>8, AppendProperties
    <3>4. QED
      BY <3>1, <3>3 DEF N
  <2>5. Len(Only(s, S)) \in Nat /\ Len(Only(s, T \ S)) \in Nat
    BY <2>2, LenProperties
  <2>6. QED
    BY <2>1, <2>3, <2>4, <2>5 DEF t
<1>3. QED
  <2> HIDE DEF G
  <2>1. Seq(T) \subseteq G
    BY <1>1, <1>2, SequenceInduction
  <2>2. QED
    BY <2>1, OnlyType DEF G

-------------------------------------------------------------------------------
AnalyzedWords == [ando : BOOLEAN, readings : Seq(Readings) \ {<<>>}]
CellNames == {"form", "case", "lemma", "tag", "ZZZ", "0", "1", "guess", "entity", "empty"}
Cells == CellNames \X (Readings \cup {NoReading})

\* What is considered of a word is its readings, or those up to one of a gerund.
LEMMA ConsideredIs ==
    ASSUME NEW w \in AnalyzedWords
    PROVE  /\ w.readings \in Seq(Readings) /\ Len(w.readings) \in Nat \ {0}
           /\ \A i \in 1 .. Len(w.readings) : w.readings[i] \in Readings
           /\ \/ /\ Considered(w) = w.readings
                 /\ \A i \in 1 .. Len(w.readings) : w.readings[i] \notin Gerunds(w)
              \/ \E m \in 1 .. Len(w.readings) :
                    w.readings[m] \in Gerunds(w) /\ Considered(w) = SubSeq(w.readings, 1, m)
<1> DEFINE r == w.readings
           I == {i \in DOMAIN r : r[i] \in Gerunds(w)}
<1>1. r \in Seq(Readings) /\ r # <<>>
  BY DEF AnalyzedWords
<1>2. /\ Len(r) \in Nat \ {0} /\ DOMAIN r = 1 .. Len(r)
      /\ \A i \in 1 .. Len(r) : r[i] \in Readings
  <2> HIDE DEF r
  <2> QED BY <1>1, LenProperties, EmptySeq, ElementOfSeq
<1>3. CASE I = {}
  BY <1>1, <1>2, <1>3 DEF Considered
<1>4. CASE I # {}
  <2> DEFINE m == CHOOSE i \in I : \A j \in I : i <= j
  <2>1. I \in SUBSET Nat
    BY <1>2
  <2>2. m \in I
    <3> HIDE DEF I
    <3> QED BY <1>4, <2>1, LeastNumber
  <2>3. Considered(w) = SubSeq(r, 1, m)
    BY <1>4 DEF Considered
  <2> HIDE DEF m
  <2>4. QED
    BY <1>1, <1>2, <2>2, <2>3
<1>5. QED
  BY <1>3, <1>4

LEMMA ReadingsAre ==
    ASSUME NEW w \in AnalyzedWords, NEW first
    PROVE  /\ Considered(w) \in Seq(Readings)
           /\ Names(w, first) \in Seq(Readings)
           /\ Others(w, first) \in Seq(Readings)
           /\ Printed(w, first) \in Seq(Readings)
<1>1. Considered(w) \in Seq(Readings)
  <2>1. \A m \in 1 .. Len(w.readings) : SubSeq(w.readings, 1, m) \in Seq(Readings)
    <3>1. \A m \in 0 .. Len(w.readings) : SubSeq(w.readings, 1, m) \in Seq(Readings)
      BY ConsideredIs, Beginnings
    <3>2. QED
      BY <3>1, ConsideredIs
  <2>2. QED
    BY <2>1, ConsideredIs
<1>2. QED
  BY <1>1, OnlyType DEF Names, Others, Printed

\* Names and others make up what is considered.
LEMMA NamesAndOthers ==
    ASSUME NEW w \in AnalyzedWords, NEW first
    PROVE  /\ Len(Names(w, first)) \in Nat /\ Len(Others(w, first)) \in Nat
           /\ Len(Names(w, first)) + Len(Others(w, first)) = Len(Considered(w))
<1> DEFINE c == Considered(w)
           D == Discarded(first)
<1>1. c \in Seq(Readings)
  BY ReadingsAre
<1> HIDE DEF c, D
<1>2. /\ Only(c, D) \in Seq(Readings) /\ Only(c, Readings \ D) \in Seq(Readings)
      /\ Len(Only(c, D)) + Len(Only(c, Readings \ D)) = Len(c)
  <2>1. \A z \in Seq(Readings) : /\ Only(z, D) \in Seq(Readings) /\ Only(z, Readings \ D) \in Seq(Readings)
                                 /\ Len(Only(z, D)) + Len(Only(z, Readings \ D)) = Len(z)
    BY OnlyParts, Zenon
  <2>2. QED
    BY <1>1, <2>1, Zenon
<1>3. Len(Only(c, D)) \in Nat /\ Len(Only(c, Readings \ D)) \in Nat
  BY <1>2, LenProperties
<1>4. QED
  BY <1>2, <1>3 DEF Names, Others, c, D

\* All others but one are names, and that one is not a gerund: it is the only reading
\* that is not a name.
LEMMA OneOther ==
    ASSUME NEW w \in AnalyzedWords, Considered(w) = w.readings,
           \A i \in 1 .. Len(w.readings) : w.readings[i] \notin Gerunds(w),
           Len(w.readings) > 1
    PROVE  LET others == {i \in 1 .. Len(w.readings) : w.readings[i].kind # "np"}
           IN  /\ Cardinality(others) = Len(w.readings) - Len(Names(w, TRUE))
               /\ Cardinality(others) = 1 =>
                     /\ Only(Others(w, TRUE), Readings \ Gerunds(w)) = Others(w, TRUE)
                     /\ Others(w, TRUE) # <<>>
                     /\ Last(Others(w, TRUE)) = CHOOSE x \in ToSet(w.readings) : x.kind # "np"
                     /\ \E x \in ToSet(w.readings) : x.kind = "np"
<1> DEFINE r == w.readings
           K == {i \in 1 .. Len(r) : r[i].kind # "np"}
           O == Others(w, TRUE)
           N == Readings \ Discarded(TRUE)
           R == ToSet(r)
<1>1. /\ r \in Seq(Readings) /\ Len(r) \in Nat /\ \A i \in 1 .. Len(r) : r[i] \in Readings
      /\ DOMAIN r = 1 .. Len(r)
  BY ConsideredIs, LenProperties
<1>2. R = {r[i] : i \in 1 .. Len(r)}
  BY <1>1 DEF ToSet
<1>3. O = Only(r, N) /\ \A x \in Readings : x \in N <=> x.kind # "np"
  BY DEF Others, Discarded
<1>4. K = {i \in 1 .. Len(r) : r[i] \in N}
  BY <1>1, <1>3
<1>5. Len(O) = Cardinality(K) /\ O \in Seq(Readings)
  <2> HIDE DEF r, K, O, N
  <2> QED BY <1>1, <1>3, <1>4, OnlyCount, OnlyType
<1>6. Cardinality(K) = Len(r) - Len(Names(w, TRUE))
  <2>1. Len(Names(w, TRUE)) \in Nat /\ Len(O) \in Nat /\ Len(Names(w, TRUE)) + Len(O) = Len(r)
    BY NamesAndOthers
  <2>2. \A a, b \in Nat : \A c : a + b = c => b = c - a
    OBVIOUS
  <2>3. Len(O) = Len(r) - Len(Names(w, TRUE))
    <3> HIDE DEF r, O
    <3> QED BY <2>1, <2>2, Zenon
  <2>4. QED
    BY <1>5, <2>3, Zenon
<1>7. ASSUME Cardinality(K) = 1
      PROVE  /\ Only(O, Readings \ Gerunds(w)) = O
             /\ O # <<>>
             /\ Last(O) = CHOOSE x \in R : x.kind # "np"
             /\ \E x \in R : x.kind = "np"
  <2>1. O \in Seq(R \cap N)
    <3>1. r \in Seq(R)
      <4> HIDE DEF r
      <4> QED BY <1>1, <1>2
    <3>2. \A q \in Seq(R) : Only(q, N) \in Seq(R \cap N)
      BY OnlyMembers, Zenon
    <3> HIDE DEF R, r, N, O
    <3>3. QED
      BY <1>3, <3>1, <3>2
  <2>2. Only(O, Readings \ Gerunds(w)) = O
    <3>1. \A x \in R \cap N : x \in Readings \ Gerunds(w)
      BY <1>1, <1>2
    <3> HIDE DEF O, R, N
    <3>2. QED
      BY <2>1, <3>1, OnlyAll
  <2>3. Len(O) = 1 /\ O # <<>> /\ O[1] \in R \cap N /\ Last(O) = O[1]
    <3> HIDE DEF O, R, N, K
    <3>1. Len(O) = 1
      BY <1>5, <1>7
    <3>2. 1 \in 1 .. Len(O)
      BY <3>1
    <3>3. O # <<>> /\ O[1] \in R \cap N
      <4>1. O # <<>>
        BY <3>1
      <4> DEFINE T == R \cap N
      <4>2. O \in Seq(T)
        BY <2>1
      <4> HIDE DEF T
      <4>3. O[1] \in T
        BY <3>2, <4>2, ElementOfSeq
      <4>4. QED
        BY <4>1, <4>3 DEF T
    <3>4. Last(O) = O[1]
      BY <3>1 DEF Last
    <3>5. QED
      BY <3>1, <3>3, <3>4
  <2>4. PICK k \in K : K = {k}
    <3>1. IsFiniteSet(1 .. Len(r)) /\ K \in SUBSET (1 .. Len(r))
      BY <1>1, FS_Interval
    <3> HIDE DEF K
    <3>2. IsFiniteSet(K)
      BY <3>1, FS_Subset
    <3>3. \E k : K = {k}
      BY <1>7, <3>2, FS_Singleton
    <3>4. QED
      BY <3>3
  <2>5. \A x \in R : x.kind # "np" => x = r[k]
    BY <1>2, <2>4
  <2>6. O[1].kind # "np"
    BY <2>3, <1>2, <1>1, <1>3
  <2>7. Last(O) = CHOOSE x \in R : x.kind # "np"
    <3> HIDE DEF O, R
    <3> QED BY <2>3, <2>5, <2>6
  <2>8. \E x \in R : x.kind = "np"
    <3>1. PICK i \in 1 .. Len(r) : i # k
      <4>1. 1 \in 1 .. Len(r) /\ 2 \in 1 .. Len(r)
        BY <1>1
      <4>2. QED
        BY <4>1
    <3>2. r[i].kind = "np"
      BY <3>1, <2>4
    <3>3. QED
      BY <3>1, <3>2, <1>2
  <2>9. QED
    BY <2>2, <2>3, <2>7, <2>8
<1>8. QED
  BY <1>6, <1>7

\* A gerund is the last reading that is considered; so it is the only one besides the
\* names if there is just one, and its tag is not remembered.
LEMMA GerundAlone ==
    ASSUME NEW w \in AnalyzedWords, NEW m \in 1 .. Len(w.readings),
           w.readings[m] \in Gerunds(w), Considered(w) = SubSeq(w.readings, 1, m),
           Len(w.readings) - Len(Names(w, TRUE)) = 1
    PROVE  Only(Others(w, TRUE), Readings \ Gerunds(w)) = <<>>
<1> DEFINE r == w.readings
           D == Discarded(TRUE)
           N == Readings \ D
           q == SubSeq(r, 1, m - 1)
           x == r[m]
<1>1. r \in Seq(Readings) /\ Len(r) \in Nat \ {0} /\ x \in Readings
  BY ConsideredIs
<1>2. x \notin D /\ x \in N
  BY <1>1 DEF Gerunds, Discarded
<1>3. /\ q \in Seq(Readings) /\ Len(q) = m - 1
      /\ Considered(w) = Append(q, x)
  <2> HIDE DEF r
  <2>1. m \in 1 .. Len(r) /\ m - 1 \in 0 .. Len(r) /\ Considered(w) = SubSeq(r, 1, m)
    BY <1>1 DEF r
  <2>2. SubSeq(r, 1, m) = Append(SubSeq(r, 1, m - 1), r[m]) /\ q \in Seq(Readings)
    BY <1>1, <2>1, Beginnings
  <2>3. Len(q) = m - 1
    BY <1>1, <2>1, FirstOnes
  <2>4. QED
    BY <2>1, <2>2, <2>3
<1> HIDE DEF q, x, D, N
<1>4. /\ Only(Append(q, x), D) = Only(q, D)
      /\ Only(Append(q, x), N) = Append(Only(q, N), x)
  <2>1. \A R : \A z \in Seq(Readings) : \A y \in Readings :
            Only(Append(z, y), R) = IF y \in R THEN Append(Only(z, R), y) ELSE Only(z, R)
    BY OnlyOneMore, Zenon
  <2>2. \A R : Only(Append(q, x), R) = IF x \in R THEN Append(Only(q, R), x) ELSE Only(q, R)
    BY <2>1, <1>1, <1>3, Zenon
  <2>3. QED
    BY <2>2, <1>2, Zenon
<1>5. /\ Only(q, D) \in Seq(Readings) /\ Only(q, N) \in Seq(Readings)
      /\ Len(Only(q, D)) + Len(Only(q, N)) = Len(q)
  <2>1. \A z \in Seq(Readings) : /\ Only(z, D) \in Seq(Readings) /\ Only(z, Readings \ D) \in Seq(Readings)
                                 /\ Len(Only(z, D)) + Len(Only(z, Readings \ D)) = Len(z)
    BY OnlyParts, Zenon
  <2>2. QED
    BY <1>3, <2>1, Zenon DEF N
<1>6. Len(Only(q, D)) \in Nat /\ Len(Only(q, N)) \in Nat
  BY <1>5, LenProperties
<1>7. Names(w, TRUE) = Only(q, D) /\ Others(w, TRUE) = Append(Only(q, N), x)
  BY <1>3, <1>4, Zenon DEF Names, Others, D, N
<1>8. Len(Only(q, N)) = 0
  <2>1. Len(r) - Len(Only(q, D)) = 1
    BY <1>7
  <2>2. \A a, b, c, d \in Nat : a - b = 1 /\ b + c = d - 1 /\ d <= a => c = 0
    OBVIOUS
  <2>3. Len(Only(q, D)) + Len(Only(q, N)) = m - 1 /\ m \in Nat /\ m <= Len(r) /\ Len(r) \in Nat
    BY <1>3, <1>5, <1>1
  <2>4. QED
    BY <2>1, <2>2, <2>3, <1>6
<1>9. Others(w, TRUE) = <<x>>
  <2>1. Only(q, N) = <<>>
    BY <1>5, <1>8, EmptySeq
  <2>2. Append(<<>>, x) = <<x>>
    OBVIOUS
  <2>3. QED
    BY <1>7, <2>1, <2>2
<1>10. x \notin Readings \ Gerunds(w)
  BY DEF x
<1>11. QED
  BY <1>9, <1>10, OnlyOne

\* The class of a word is its tag; a word without is tagged by wapiti.
LEMMA ClassIs ==
    ASSUME NEW w \in AnalyzedWords, NEW first \in BOOLEAN, ~(Len(Printed(w, first)) > MaxTag)
    PROVE  \/ Class(w, first) = <<>> /\ TagOf(w, first) = Guess
           \/ Class(w, first) = <<TagOf(w, first)>> /\ \E x \in Readings : TagOf(w, first) = <<"tag", x>>
<1> DEFINE r == w.readings
           others == {i \in DOMAIN r : r[i].kind # "np"}
           ordinary == Only(Others(w, first), Readings \ Gerunds(w))
           Alone == /\ first
                    /\ \E x \in ToSet(r) : x.kind = "np"
                    /\ Cardinality(others) = 1
                    /\ ~(w.ando /\ \E x \in ToSet(r) : x.kind = "gerund")
           other == CHOOSE x \in ToSet(r) : x.kind # "np"
<1>1. /\ r \in Seq(Readings) /\ Len(r) \in Nat \ {0} /\ DOMAIN r = 1 .. Len(r) /\ r[1] \in Readings
      /\ ToSet(r) = {r[i] : i \in 1 .. Len(r)} /\ ToSet(r) \subseteq Readings
  <2>1. /\ r \in Seq(Readings) /\ Len(r) \in Nat \ {0}
        /\ \A i \in 1 .. Len(r) : r[i] \in Readings
    BY ConsideredIs
  <2>2. DOMAIN r = 1 .. Len(r) /\ 1 \in 1 .. Len(r)
    BY <2>1, LenProperties
  <2>3. QED
    BY <2>1, <2>2 DEF ToSet
<1>2. TagOf(w, first) = IF Len(r) = 1 /\ r[1].kind # "number" THEN <<"tag", r[1]>>
                        ELSE IF Alone /\ r[1].kind # "number" THEN <<"tag", other>>
                        ELSE Guess
  BY DEF TagOf
<1>3. Class(w, first) = IF r[1].kind = "number" THEN <<>>
                        ELSE IF Len(r) = 1 THEN <<<<"tag", r[1]>>>>
                        ELSE IF Len(r) - Len(Names(w, first)) = 1 /\ ordinary # <<>> THEN <<<<"tag", Last(ordinary)>>>>
                        ELSE <<>>
  BY DEF Class
<1>4. CASE r[1].kind = "number"
  BY <1>2, <1>3, <1>4
<1>5. CASE r[1].kind # "number" /\ Len(r) = 1
  BY <1>1, <1>2, <1>3, <1>5
<1>6. CASE r[1].kind # "number" /\ Len(r) # 1
  <2>1. CASE ~first
    <3>1. Names(w, first) = <<>>
      <4>1. Considered(w) \in Seq(Readings) /\ Readings \cap Discarded(first) = {}
        BY ReadingsAre, <2>1 DEF Discarded
      <4>2. QED
        BY <4>1, OnlyNone DEF Names
    <3>2. Len(Names(w, first)) = 0
      BY <3>1, EmptySeq
    <3>3. Len(r) - Len(Names(w, first)) # 1
      BY <3>2, <1>1, <1>6
    <3>4. ~Alone
      BY <2>1
    <3> HIDE DEF r, Alone, ordinary, other
    <3>5. Class(w, first) = <<>> /\ TagOf(w, first) = Guess
      BY Zenon, <1>2, <1>3, <1>6, <3>3, <3>4
    <3>6. QED
      BY <3>5
  <2>2. CASE first /\ Considered(w) = r /\ \A i \in 1 .. Len(r) : r[i] \notin Gerunds(w)
    <3>1. first = TRUE
      BY <2>2
    <3>2. Len(r) > 1
      <4>1. \A n \in Nat \ {0} : n # 1 => n > 1
        OBVIOUS
      <4>2. QED
        BY <1>1, <1>6, <4>1, Zenon
    <3>3. others = {i \in 1 .. Len(r) : r[i].kind # "np"}
      BY <1>1
    <3>4. /\ Cardinality(others) = Len(r) - Len(Names(w, first))
          /\ Cardinality(others) = 1 =>
                /\ ordinary = Others(w, first)
                /\ Others(w, first) # <<>>
                /\ Last(Others(w, first)) = other
                /\ \E x \in ToSet(r) : x.kind = "np"
      BY <2>2, <3>1, <3>2, <3>3, OneOther
    <3>5. ~(w.ando /\ \E x \in ToSet(r) : x.kind = "gerund")
      BY <1>1, <2>2 DEF Gerunds
    <3>6. Alone <=> Cardinality(others) = 1
      BY <2>2, <3>4, <3>5
    <3>7. Alone => ordinary # <<>> /\ Last(ordinary) = other
      BY <3>4, <3>6
    <3>8. Alone <=> Len(r) - Len(Names(w, first)) = 1
      BY <3>4, <3>6
    <3>9. Alone => other \in Readings
      <4>1. ASSUME Alone PROVE \E x \in ToSet(r) : x.kind # "np"
        <5>1. Cardinality(others) # 0
          BY <4>1, <3>6
        <5>2. others # {}
          BY <5>1, FS_EmptySet
        <5>3. QED
          BY <5>2, <1>1
      <4>2. QED
        BY <4>1, <1>1
    <3> HIDE DEF r, Alone, ordinary, other
    <3>10. CASE Alone
      <4>1. Class(w, first) = <<<<"tag", other>>>> /\ TagOf(w, first) = <<"tag", other>>
        BY Zenon, <1>2, <1>3, <1>6, <3>7, <3>8, <3>10
      <4>2. QED
        BY <4>1, <3>9, <3>10
    <3>11. CASE ~Alone
      <4>1. Class(w, first) = <<>> /\ TagOf(w, first) = Guess
        BY Zenon, <1>2, <1>3, <1>6, <3>8, <3>11
      <4>2. QED
        BY <4>1
    <3>12. QED
      BY <3>10, <3>11
  <2>3. CASE first /\ \E m \in 1 .. Len(r) : r[m] \in Gerunds(w) /\ Considered(w) = SubSeq(r, 1, m)
    <3>1. first = TRUE
      BY <2>3
    <3>2. PICK m \in 1 .. Len(r) : r[m] \in Gerunds(w) /\ Considered(w) = SubSeq(r, 1, m)
      BY <2>3
    <3>3. Len(r) - Len(Names(w, first)) = 1 => ordinary = <<>>
      BY <3>1, <3>2, GerundAlone
    <3>4. ~Alone
      BY <3>2, <1>1 DEF Gerunds
    <3> HIDE DEF r, Alone, ordinary, other
    <3>5. Class(w, first) = <<>> /\ TagOf(w, first) = Guess
      BY Zenon, <1>2, <1>3, <1>6, <3>3, <3>4
    <3>6. QED
      BY <3>5
  <2>4. QED
    BY <2>1, <2>2, <2>3, ConsideredIs
<1>7. QED
  BY <1>4, <1>5, <1>6

-------------------------------------------------------------------------------
\* The fields of a row.
Labelled(w, first) == Label(Row(w, first))

LEMMA RowParts ==
    ASSUME NEW w \in AnalyzedWords, NEW first \in BOOLEAN
    PROVE  LET p == Printed(w, first) IN
           /\ p \in Seq(Readings) /\ Len(p) \in Nat
           /\ Pairs(p) \in Seq(Cells) /\ Len(Pairs(p)) = 2 * Len(p)
           /\ \A i \in 1 .. Len(p) : Pairs(p)[2 * i] = <<"tag", p[i]>>
           /\ Dummies(MaxTag - Len(p)) \in Seq(Cells)
           /\ Len(Dummies(MaxTag - Len(p))) = IF Len(p) <= MaxTag THEN 2 * (MaxTag - Len(p)) ELSE 0
           /\ Flag(w) \in Cells /\ Flag(w)[1] \in {"0", "1"}
           /\ Class(w, first) \in Seq(Cells) /\ Len(Class(w, first)) \in {0, 1}
<1> DEFINE p == Printed(w, first)
<1>1. p \in Seq(Readings) /\ Len(p) \in Nat
  BY ReadingsAre, LenProperties
<1>2. \A i \in 1 .. Len(p) : p[i] \in Readings
  BY <1>1, ElementOfSeq
<1> HIDE DEF p
<1>3. /\ Pairs(p) \in Seq(Cells) /\ Len(Pairs(p)) = 2 * Len(p)
      /\ \A i \in 1 .. Len(p) : Pairs(p)[2 * i] = <<"tag", p[i]>>
  <2>1. \A i \in 1 .. 2 * Len(p) : (i + 1) \div 2 \in 1 .. Len(p)
    BY <1>1
  <2>2. \A i \in 1 .. 2 * Len(p) :
          <<IF i % 2 = 1 THEN "lemma" ELSE "tag", p[(i + 1) \div 2]>> \in Cells
    BY <1>2, <2>1 DEF Cells, CellNames
  <2>3. 2 * Len(p) \in Nat
    BY <1>1
  <2>4. Pairs(p) \in [1 .. 2 * Len(p) -> Cells]
    BY <2>2 DEF Pairs
  <2>5. Pairs(p) \in Seq(Cells) /\ Len(Pairs(p)) = 2 * Len(p)
    BY <2>3, <2>4
  <2>6. ASSUME NEW i \in 1 .. Len(p) PROVE Pairs(p)[2 * i] = <<"tag", p[i]>>
    <3>1. 2 * i \in 1 .. 2 * Len(p) /\ (2 * i) % 2 = 0 /\ (2 * i + 1) \div 2 = i
      BY <1>1
    <3>2. QED
      BY <3>1 DEF Pairs
  <2>7. QED
    BY <2>5, <2>6
<1>4. /\ Dummies(MaxTag - Len(p)) \in Seq(Cells)
      /\ Len(Dummies(MaxTag - Len(p))) = IF Len(p) <= MaxTag THEN 2 * (MaxTag - Len(p)) ELSE 0
  <2>1. MaxTag \in Nat \ {0}
    BY RowsAssumption
  <2>2. CASE Len(p) <= MaxTag
    <3>1. 2 * (MaxTag - Len(p)) \in Nat
      BY <1>1, <2>1, <2>2
    <3>2. Dummies(MaxTag - Len(p)) \in [1 .. 2 * (MaxTag - Len(p)) -> Cells]
      BY DEF Dummies, Cells, CellNames
    <3>3. QED
      BY <3>1, <3>2, <2>2
  <2>3. CASE ~(Len(p) <= MaxTag)
    <3>1. 1 .. 2 * (MaxTag - Len(p)) = 1 .. 0
      BY <1>1, <2>1, <2>3
    <3>2. Dummies(MaxTag - Len(p)) \in [1 .. 0 -> Cells]
      BY <3>1 DEF Dummies, Cells, CellNames
    <3>3. QED
      BY <3>2, <2>3
  <2>4. QED
    BY <2>2, <2>3
<1>5. Flag(w) \in Cells /\ Flag(w)[1] \in {"0", "1"}
  BY DEF Flag, Cells, CellNames
<1>6. Class(w, first) \in Seq(Cells) /\ Len(Class(w, first)) \in {0, 1}
  <2>1. w.readings \in Seq(Readings) /\ w.readings[1] \in Readings
    BY ConsideredIs
  <2> DEFINE o == Only(Others(w, first), Readings \ Gerunds(w))
  <2>2. o # <<>> => Last(o) \in Readings
    <3>1. o \in Seq(Readings)
      BY ReadingsAre, OnlyType
    <3> HIDE DEF o
    <3>2. o # <<>> => Len(o) \in 1 .. Len(o)
      BY <3>1, LenProperties, EmptySeq
    <3>3. QED
      BY <3>1, <3>2, ElementOfSeq DEF Last
  <2>3. \A x \in Readings : <<"tag", x>> \in Cells
    BY DEF Cells, CellNames
  <2>4. \/ Class(w, first) = <<>>
        \/ \E x \in Readings : Class(w, first) = <<<<"tag", x>>>>
    BY <2>1, <2>2 DEF Class
  <2>5. \A c \in Cells : <<c>> \in Seq(Cells) /\ Len(<<c>>) = 1
    OBVIOUS
  <2>6. <<>> \in Seq(Cells) /\ Len(<<>>) = 0
    OBVIOUS
  <2>7. QED
    BY <2>3, <2>4, <2>5, <2>6
<1>7. QED
  BY <1>1, <1>3, <1>4, <1>5, <1>6 DEF p

\* The last field that nec reads of a row is the tag of its word.
LEMMA RowIs ==
    ASSUME NEW w \in AnalyzedWords, NEW first \in BOOLEAN
    PROVE  /\ Row(w, first) \in Seq(Cells) \ {<<>>}
           /\ Labelled(w, first) \in Seq(Cells)
           /\ 2 * MaxTag + 4 <= Len(Labelled(w, first))
           /\ Labelled(w, first)[2 * MaxTag + 4] = TagOf(w, first)
<1> DEFINE p == Printed(w, first)
           a == <<<<"form", NoReading>>, <<"case", NoReading>>>>
           b == Pairs(p)
           d == Dummies(MaxTag - Len(p))
           e == <<Flag(w)>>
           k == Class(w, first)
           n == Len(p)
           row == Row(w, first)
<1>1. MaxTag \in Nat \ {0}
  BY RowsAssumption
<1>2. a \in Seq(Cells) /\ Len(a) = 2
  <2>1. \A x, y \in Cells : <<x, y>> \in Seq(Cells) /\ Len(<<x, y>>) = 2
    OBVIOUS
  <2>2. <<"form", NoReading>> \in Cells /\ <<"case", NoReading>> \in Cells
    BY DEF Cells, CellNames
  <2>3. QED
    BY <2>1, <2>2
<1>3. /\ n \in Nat /\ b \in Seq(Cells) /\ Len(b) = 2 * n
      /\ \A i \in 1 .. n : b[2 * i] = <<"tag", p[i]>>
      /\ d \in Seq(Cells)
      /\ n <= MaxTag => Len(d) = 2 * (MaxTag - n)
      /\ n > MaxTag => Len(d) = 0
      /\ k \in Seq(Cells) /\ Len(k) \in {0, 1}
      /\ Flag(w) \in Cells /\ Flag(w)[1] \in {"0", "1"}
  <2>1. /\ p \in Seq(Readings) /\ n \in Nat /\ b \in Seq(Cells) /\ Len(b) = 2 * n
        /\ \A i \in 1 .. n : b[2 * i] = <<"tag", p[i]>>
        /\ d \in Seq(Cells)
        /\ Len(d) = IF n <= MaxTag THEN 2 * (MaxTag - n) ELSE 0
        /\ Flag(w) \in Cells /\ Flag(w)[1] \in {"0", "1"}
        /\ k \in Seq(Cells) /\ Len(k) \in {0, 1}
    BY RowParts, Zenon
  <2> HIDE DEF b, d, k, p
  <2>2. n > MaxTag => ~(n <= MaxTag)
    BY <2>1, <1>1
  <2>3. QED
    BY <2>1, <2>2
<1>4. e \in Seq(Cells) /\ Len(e) = 1 /\ e[1] = Flag(w)
  BY <1>3
<1>5. row = (((a \o b) \o d) \o e) \o k
  BY DEF Row
<1> HIDE DEF a, b, d, e, k, n, p, row
<1>0. \A s, t \in Seq(Cells) :
        /\ Cat(s, t) \in Seq(Cells)
        /\ Len(s) \in Nat /\ Len(t) \in Nat /\ Len(Cat(s, t)) = Len(s) + Len(t)
        /\ \A i \in 1 .. Len(s) : Cat(s, t)[i] = s[i]
        /\ \A i \in 1 .. Len(t) : Cat(s, t)[Len(s) + i] = t[i]
  <2> HIDE DEF Cells
  <2> QED BY DEF Cat
<1> DEFINE u == Cat(a, b)
           v == Cat(u, d)
           x == Cat(v, e)
<1>6. /\ u \in Seq(Cells) /\ Len(u) = 2 + 2 * n
      /\ \A i \in 1 .. 2 * n : u[2 + i] = b[i]
  <2>1. /\ u \in Seq(Cells) /\ Len(u) = Len(a) + Len(b)
        /\ \A i \in 1 .. Len(b) : u[Len(a) + i] = b[i]
    BY <1>0, <1>2, <1>3, Zenon
  <2> HIDE DEF u
  <2>2. QED
    BY <2>1, <1>2, <1>3
<1> HIDE DEF u
<1>7. /\ v \in Seq(Cells) /\ Len(v) = 2 + 2 * n + Len(d) /\ Len(d) \in Nat
      /\ \A i \in 1 .. 2 + 2 * n : v[i] = u[i]
  <2>1. /\ v \in Seq(Cells) /\ Len(v) = Len(u) + Len(d) /\ Len(d) \in Nat
        /\ \A i \in 1 .. Len(u) : v[i] = u[i]
    BY <1>0, <1>3, <1>6, Zenon
  <2> HIDE DEF v
  <2>2. QED
    BY <2>1, <1>6
<1> HIDE DEF v
<1>8. /\ x \in Seq(Cells) /\ Len(x) = 3 + 2 * n + Len(d)
      /\ \A i \in 1 .. 2 + 2 * n : x[i] = u[i]
      /\ x[Len(x)] = Flag(w)
  <2>1. /\ x \in Seq(Cells) /\ Len(x) = Len(v) + Len(e)
        /\ \A i \in 1 .. Len(v) : x[i] = v[i]
        /\ \A i \in 1 .. Len(e) : x[Len(v) + i] = e[i]
    BY <1>0, <1>4, <1>7, Zenon
  <2> HIDE DEF x
  <2>2. 1 \in 1 .. Len(e) /\ \A i \in 1 .. 2 + 2 * n : i \in 1 .. Len(v)
    BY <1>3, <1>4, <1>7
  <2>3. Len(x) = Len(v) + 1
    BY <2>1, <1>4
  <2>4. x[Len(v) + 1] = Flag(w)
    BY <2>1, <2>2, <1>4
  <2>5. Len(x) = 3 + 2 * n + Len(d)
    BY <2>3, <1>3, <1>7
  <2>6. \A i \in 1 .. 2 + 2 * n : x[i] = u[i]
    BY <2>1, <2>2, <1>7
  <2>7. QED
    BY <2>1, <2>3, <2>4, <2>5, <2>6
<1> HIDE DEF x
<1>9. /\ row \in Seq(Cells) /\ Len(row) = Len(x) + Len(k) /\ Len(row) \in Nat \ {0}
      /\ \A i \in 1 .. Len(x) : row[i] = x[i]
      /\ Len(k) = 1 => row[Len(x) + 1] = k[1]
  <2>1. row = Cat(x, k)
    BY <1>5 DEF x, v, u, Cat
  <2>2. /\ row \in Seq(Cells) /\ Len(row) = Len(x) + Len(k) /\ Len(row) \in Nat
        /\ \A i \in 1 .. Len(x) : row[i] = x[i]
        /\ \A i \in 1 .. Len(k) : row[Len(x) + i] = k[i]
    <3> DEFINE y == Cat(x, k)
    <3>1. /\ y \in Seq(Cells) /\ Len(y) = Len(x) + Len(k)
          /\ \A i \in 1 .. Len(x) : y[i] = x[i]
          /\ \A i \in 1 .. Len(k) : y[Len(x) + i] = k[i]
      BY <1>0, <1>3, <1>8, Zenon
    <3>2. row = y
      BY <2>1
    <3> HIDE DEF y
    <3>3. QED
      BY <3>1, <3>2, LenProperties
  <2>3. Len(k) = 1 => 1 \in 1 .. Len(k)
    OBVIOUS
  <2>4. Len(row) # 0
    BY <2>2, <1>3, <1>7, <1>8
  <2>5. QED
    BY <2>2, <2>3, <2>4
<1> DEFINE last == row[Len(row)]
           added == IF last[1] = "tag" THEN last ELSE Guess
           l == Labelled(w, first)
<1>10. last \in Cells /\ Guess \in Cells
  BY <1>9, ElementOfSeq DEF Guess, Cells, CellNames
<1>11. l = Append(row, added)
  BY DEF Labelled, Label, Last, row
<1> HIDE DEF last
<1>12. /\ l \in Seq(Cells) /\ Len(l) = Len(row) + 1
       /\ \A i \in 1 .. Len(row) : l[i] = row[i]
       /\ l[Len(row) + 1] = added
  BY <1>9, <1>10, <1>11, AppendProperties
<1> HIDE DEF l, added
<1>13. row # <<>>
  BY <1>9, EmptySeq
<1>14. CASE n > MaxTag
  <2>1. 2 * MaxTag + 4 \in 1 .. 2 + 2 * n /\ MaxTag + 1 \in 1 .. n /\ 2 * (MaxTag + 1) \in 1 .. 2 * n
    <3>1. \A i, j \in Nat : j > i =>
            /\ 2 * i + 4 \in 1 .. 2 + 2 * j /\ i + 1 \in 1 .. j /\ 2 * (i + 1) \in 1 .. 2 * j
      OBVIOUS
    <3>2. QED
      BY <1>1, <1>3, <1>14, <3>1, Zenon
  <2>2. Len(x) = 3 + 2 * n /\ Len(row) \in {3 + 2 * n, 4 + 2 * n}
    <3>1. Len(d) = 0 /\ Len(k) \in {0, 1}
      BY <1>3, <1>14
    <3>2. Len(x) = 3 + 2 * n
      BY <3>1, <1>3, <1>8
    <3>3. Len(row) = (3 + 2 * n) + Len(k)
      BY <3>2, <1>9
    <3>4. \A m \in Nat : m + 0 = m /\ (3 + m) + 1 = 4 + m
      OBVIOUS
    <3>5. Len(row) \in {3 + 2 * n, 4 + 2 * n}
      <4>1. 2 * n \in Nat /\ 3 + 2 * n \in Nat
        BY <1>3
      <4>2. (3 + 2 * n) + 0 = 3 + 2 * n /\ (3 + 2 * n) + 1 = 4 + 2 * n
        BY <3>4, <4>1
      <4>3. QED
        BY <3>1, <3>3, <4>2
    <3>6. QED
      BY <3>2, <3>5
  <2>3. l[2 * MaxTag + 4] = u[2 * MaxTag + 4]
    <3> DEFINE i == 2 * MaxTag + 4
    <3>1. i \in 1 .. 2 + 2 * n /\ i \in 1 .. Len(x) /\ i \in 1 .. Len(row)
      <4>1. \A j, m \in Nat : j \in 1 .. 2 + m => j \in 1 .. 3 + m /\ j \in 1 .. 4 + m
        OBVIOUS
      <4>2. i \in Nat /\ 2 * n \in Nat /\ i \in 1 .. 2 + 2 * n
        BY <2>1, <1>1, <1>3
      <4>3. i \in 1 .. 3 + 2 * n /\ i \in 1 .. 4 + 2 * n
        BY <4>1, <4>2
      <4> HIDE DEF i
      <4>4. QED
        BY <4>2, <4>3, <2>2
    <3> HIDE DEF i
    <3>2. l[i] = u[i]
      BY <3>1, <1>8, <1>9, <1>12
    <3>3. QED
      BY <3>2 DEF i
  <2>4. u[2 * MaxTag + 4] = b[2 * (MaxTag + 1)]
    <3>1. 2 + 2 * (MaxTag + 1) = 2 * MaxTag + 4
      BY <1>1
    <3>2. u[2 + 2 * (MaxTag + 1)] = b[2 * (MaxTag + 1)]
      BY <2>1, <1>6, Zenon
    <3>3. QED
      BY <3>1, <3>2
  <2>5. b[2 * (MaxTag + 1)] = <<"tag", p[MaxTag + 1]>>
    BY <2>1, <1>3
  <2>6. TagOf(w, first) = <<"tag", p[MaxTag + 1]>>
    BY <1>14 DEF TagOf, n, p
  <2>7. 2 * MaxTag + 4 <= Len(l)
    <3>1. \A i, j \in Nat : j > i => 2 * i + 4 <= (3 + 2 * j) + 1 /\ 2 * i + 4 <= (4 + 2 * j) + 1
      OBVIOUS
    <3>2. 2 * MaxTag + 4 <= (3 + 2 * n) + 1 /\ 2 * MaxTag + 4 <= (4 + 2 * n) + 1
      BY <3>1, <1>1, <1>3, <1>14
    <3>3. Len(l) = Len(row) + 1
      BY <1>12
    <3>4. QED
      BY <2>2, <3>2, <3>3
  <2>8. QED
    BY <1>9, <1>13, <1>12, <2>3, <2>4, <2>5, <2>6, <2>7 DEF l, row
<1>15. CASE ~(n > MaxTag)
  <2>1. Len(x) = 2 * MaxTag + 3
    <3>1. n <= MaxTag
      BY <1>1, <1>3, <1>15
    <3>2. Len(d) = 2 * (MaxTag - n)
      BY <1>3, <3>1
    <3>3. 3 + 2 * n + 2 * (MaxTag - n) = 2 * MaxTag + 3
      BY <1>1, <1>3
    <3>4. QED
      BY <1>8, <3>2, <3>3
  <2>2. \/ k = <<>> /\ TagOf(w, first) = Guess
        \/ k = <<TagOf(w, first)>> /\ \E y \in Readings : TagOf(w, first) = <<"tag", y>>
    BY <1>15, ClassIs DEF k, n, p
  <2>3. CASE k = <<>> /\ TagOf(w, first) = Guess
    <3>1. Len(k) = 0
      BY <2>3, EmptySeq
    <3>2. Len(row) = Len(x) /\ last = Flag(w)
      BY <3>1, <1>8, <1>9 DEF last
    <3>3. added = Guess
      BY <3>2, <1>3 DEF added
    <3>4. l[2 * MaxTag + 4] = Guess /\ Len(l) = 2 * MaxTag + 4
      BY <3>2, <3>3, <2>1, <1>12, <1>1
    <3>5. QED
      BY <1>9, <1>13, <1>12, <3>4, <2>3, <1>1 DEF l, row
  <2>4. CASE k = <<TagOf(w, first)>> /\ \E y \in Readings : TagOf(w, first) = <<"tag", y>>
    <3>1. Len(k) = 1 /\ k[1] = TagOf(w, first)
      BY <2>4
    <3>2. 2 * MaxTag + 4 = Len(row) /\ row[2 * MaxTag + 4] = TagOf(w, first)
      BY <3>1, <2>1, <1>1, <1>9
    <3>3. l[2 * MaxTag + 4] = TagOf(w, first) /\ Len(l) = 2 * MaxTag + 5
      BY <3>2, <1>12, <1>9, <1>1
    <3>4. QED
      BY <1>9, <1>13, <1>12, <3>3, <1>1 DEF l, row
  <2>5. QED
    BY <2>2, <2>3, <2>4
<1>16. QED
  BY <1>14, <1>15

\* What nec keeps of a row.
LEMMA RowRead ==
    ASSUME NEW w \in AnalyzedWords, NEW first \in BOOLEAN, feat \in Cells
    PROVE  LET l == Label(Row(w, first))
               features == [n \in 1 .. 2 * MaxTag |-> Column(l, n + 3, feat)]
               read == SubSeq(l, 1, 3) \o features \o <<TagOf(w, first)>>
           IN  /\ 2 * MaxTag + 4 <= Len(l) /\ l[2 * MaxTag + 4] = TagOf(w, first)
               /\ TagOf(w, first) \in Cells
               /\ features[2 * MaxTag] \in Cells
               /\ read \in Seq(Cells) \ {<<>>} /\ Last(read) = TagOf(w, first)
<1> DEFINE l == Label(Row(w, first))
           t == TagOf(w, first)
           features == [n \in 1 .. 2 * MaxTag |-> Column(l, n + 3, feat)]
           b == SubSeq(l, 1, 3) \o features
           read == b \o <<t>>
<1>1. MaxTag \in Nat \ {0} /\ 2 * MaxTag \in Nat /\ 2 * MaxTag \in 1 .. 2 * MaxTag
  BY RowsAssumption
<1>2. l \in Seq(Cells) /\ 2 * MaxTag + 4 <= Len(l) /\ l[2 * MaxTag + 4] = t
  BY RowIs DEF Labelled
<1> HIDE DEF l, t
<1>3. Len(l) \in Nat /\ \A n \in 1 .. Len(l) : l[n] \in Cells
  BY <1>2, LenProperties, ElementOfSeq
<1>4. 2 * MaxTag + 4 \in 1 .. Len(l) /\ 3 \in 0 .. Len(l) /\ Len(l) > 3 /\ Len(l) \in 1 .. Len(l)
  BY <1>1, <1>2, <1>3
<1>5. t \in Cells
  BY <1>2, <1>3, <1>4
<1>6. features \in Seq(Cells) /\ features[2 * MaxTag] \in Cells
  <2>1. Last(l) \in Cells
    BY <1>3, <1>4 DEF Last
  <2>2. ASSUME NEW n \in 1 .. 2 * MaxTag PROVE Column(l, n + 3, feat) \in Cells
    <3>1. CASE n + 3 <= Len(l)
      <4>1. n + 3 \in 1 .. Len(l)
        BY <3>1, <1>1, <1>3
      <4>2. QED
        BY <3>1, <4>1, <1>3 DEF Column
    <3>2. CASE ~(n + 3 <= Len(l))
      BY <3>2, <2>1, <1>4 DEF Column
    <3>3. QED
      BY <3>1, <3>2
  <2>3. features \in [1 .. 2 * MaxTag -> Cells]
    BY <2>2
  <2> HIDE DEF features
  <2>4. QED
    BY <2>3, <1>1
<1>7. SubSeq(l, 1, 3) \in Seq(Cells)
  BY <1>2, <1>4, Beginnings
<1> HIDE DEF features
<1>8. b \in Seq(Cells) /\ Len(b) \in Nat
  <2>1. \A x, y \in Seq(Cells) : x \o y \in Seq(Cells)
    <3> HIDE DEF Cells
    <3> QED OBVIOUS
  <2>2. b \in Seq(Cells)
    BY <1>6, <1>7, <2>1, Zenon
  <2>3. QED
    BY <2>2, LenProperties
<1> HIDE DEF b
<1>9. read = Append(b, t)
  BY <1>5, <1>8
<1>10. /\ Append(b, t) \in Seq(Cells) /\ Len(Append(b, t)) = Len(b) + 1
       /\ Append(b, t)[Len(b) + 1] = t
  BY <1>5, <1>8, AppendProperties
<1>11. read \in Seq(Cells) \ {<<>>} /\ Last(read) = t
  <2> HIDE DEF read
  <2>1. read # <<>>
    BY <1>8, <1>9, <1>10, EmptySeq
  <2>2. QED
    BY <1>9, <1>10, <2>1 DEF Last
<1>12. QED
  BY <1>2, <1>5, <1>6, <1>11 DEF read, b, features, l, t

Marked(t) == IF t[2].kind = "np" THEN <<"entity", t[2]>> ELSE t
ReadRows == Seq(Cells) \ {<<>>}

LEMMA AnalyzeIs ==
    ASSUME NEW s \in Seq(ReadRows)
    PROVE  /\ Analyze(s) \in Seq(ReadRows) /\ Len(Analyze(s)) = Len(s)
           /\ \A k \in 1 .. Len(s) : Last(Analyze(s)[k]) = Marked(Last(s[k]))
<1> DEFINE marked(row) == IF Last(row)[2].kind = "np" THEN Append(Front(row), <<"entity", Last(row)[2]>>) ELSE row
<1>1. ASSUME NEW row \in ReadRows
      PROVE  marked(row) \in ReadRows /\ Last(marked(row)) = Marked(Last(row))
  <2>1. row \in Seq(Cells) /\ row # <<>> /\ Len(row) \in Nat \ {0} /\ Len(row) \in 1 .. Len(row)
    BY LenProperties, EmptySeq DEF ReadRows
  <2>2. Last(row) \in Cells
    BY <2>1, ElementOfSeq DEF Last
  <2>3. CASE Last(row)[2].kind = "np"
    <3> DEFINE e == <<"entity", Last(row)[2]>>
               f == Front(row)
    <3>1. e \in Cells
      BY <2>2 DEF Cells, CellNames
    <3>2. f \in Seq(Cells)
      <4>1. Len(row) - 1 \in 0 .. Len(row)
        BY <2>1
      <4>2. QED
        BY <2>1, <4>1, Beginnings DEF Front
    <3>3. marked(row) = Append(f, e)
      BY <2>3
    <3>4. Marked(Last(row)) = e
      BY <2>3 DEF Marked
    <3> HIDE DEF e, f, marked
    <3>5. /\ Append(f, e) \in Seq(Cells) /\ Len(Append(f, e)) = Len(f) + 1 /\ Len(f) \in Nat
          /\ Append(f, e)[Len(f) + 1] = e
      BY <3>1, <3>2, AppendProperties, LenProperties
    <3>6. marked(row) # <<>>
      BY <3>3, <3>5, EmptySeq
    <3>7. Last(marked(row)) = e
      BY <3>3, <3>5 DEF Last
    <3>8. QED
      BY <3>3, <3>4, <3>5, <3>6, <3>7 DEF ReadRows
  <2>4. CASE ~(Last(row)[2].kind = "np")
    BY <2>4 DEF Marked
  <2>5. QED
    BY <2>3, <2>4
<1>2. /\ Len(s) \in Nat /\ DOMAIN s = 1 .. Len(s)
      /\ \A k \in 1 .. Len(s) : s[k] \in ReadRows
  BY LenProperties, ElementOfSeq
<1>3. Analyze(s) = [k \in 1 .. Len(s) |-> marked(s[k])]
  BY <1>2 DEF Analyze
<1> HIDE DEF marked
<1>4. Analyze(s) \in [1 .. Len(s) -> ReadRows]
  BY <1>1, <1>2, <1>3
<1>5. Analyze(s) \in Seq(ReadRows) /\ Len(Analyze(s)) = Len(s)
  BY <1>2, <1>4
<1>6. QED
  BY <1>1, <1>2, <1>3, <1>5

-------------------------------------------------------------------------------
\* The rows of sentences, one after the other.
Sentences == Seq(AnalyzedWords)
RowLists  == Seq(Seq(Cells))
Block(s)   == Append(Freeling2Crf(s), <<>>)
Blocks(ss) == FlattenSeq([k \in 1 .. Len(ss) |-> Block(ss[k])])
Worded(ss)   == Without(ss, {<<>>})

LEMMA BlockIs ==
    ASSUME NEW s \in Sentences
    PROVE  /\ Freeling2Crf(s) \in RowLists /\ Block(s) \in RowLists
           /\ Len(s) \in Nat /\ Len(Block(s)) = Len(s) + 1
           /\ FirstNonpunctWord(s) \in BOOLEAN
           /\ \A k \in 1 .. Len(s) :
                 /\ s[k] \in AnalyzedWords
                 /\ Block(s)[k] = Row(s[k], FirstNonpunctWord(s)) /\ Block(s)[k] # <<>>
           /\ Block(s)[Len(s) + 1] = <<>>
<1> DEFINE first == FirstNonpunctWord(s)
           f == Freeling2Crf(s)
<1>1. Len(s) \in Nat /\ DOMAIN s = 1 .. Len(s) /\ \A k \in 1 .. Len(s) : s[k] \in AnalyzedWords
  BY LenProperties, ElementOfSeq DEF Sentences
<1>2. first \in BOOLEAN
  BY DEF FirstNonpunctWord
<1>3. f = [k \in 1 .. Len(s) |-> Row(s[k], first)]
  BY <1>1 DEF Freeling2Crf
<1>4. \A k \in 1 .. Len(s) : Row(s[k], first) \in Seq(Cells) \ {<<>>}
  BY <1>1, <1>2, RowIs
<1> HIDE DEF first, f
<1>5. /\ f \in RowLists /\ Len(f) = Len(s)
      /\ \A k \in 1 .. Len(s) : f[k] = Row(s[k], first) /\ f[k] # <<>>
  <2>1. f \in [1 .. Len(s) -> Seq(Cells)]
    BY <1>3, <1>4
  <2>2. QED
    BY <1>1, <1>3, <1>4, <2>1 DEF RowLists
<1>6. <<>> \in Seq(Cells)
  BY EmptySeq
<1>7. /\ Append(f, <<>>) \in RowLists /\ Len(Append(f, <<>>)) = Len(s) + 1
      /\ \A k \in 1 .. Len(s) : Append(f, <<>>)[k] = f[k]
      /\ Append(f, <<>>)[Len(s) + 1] = <<>>
  BY <1>5, <1>6, AppendProperties DEF RowLists
<1>8. QED
  BY <1>1, <1>2, <1>5, <1>7 DEF Block, first, f

LEMMA BlocksLaws ==
    /\ Blocks(<<>>) = <<>>
    /\ \A ss \in Seq(Sentences) : Blocks(ss) \in RowLists
    /\ \A ss \in Seq(Sentences) : \A s \in Sentences : Blocks(Append(ss, s)) = Cat(Blocks(ss), Block(s))
<1> DEFINE B(ss) == [k \in 1 .. Len(ss) |-> Block(ss[k])]
<1>1. ASSUME NEW ss \in Seq(Sentences) PROVE B(ss) \in Seq(RowLists) /\ Len(B(ss)) = Len(ss)
  <2>1. Len(ss) \in Nat /\ \A k \in 1 .. Len(ss) : ss[k] \in Sentences
    BY LenProperties, ElementOfSeq
  <2>2. B(ss) \in [1 .. Len(ss) -> RowLists]
    BY <2>1, BlockIs
  <2> HIDE DEF B
  <2>3. QED
    BY <2>1, <2>2
<1>2. B(<<>>) = <<>>
  BY EmptySeq
<1>3. ASSUME NEW ss \in Seq(Sentences), NEW s \in Sentences
      PROVE  B(Append(ss, s)) = Append(B(ss), Block(s))
  <2> DEFINE t == Append(ss, s)
             b == Append(B(ss), Block(s))
  <2>1. /\ t \in Seq(Sentences) /\ Len(ss) \in Nat /\ Len(t) = Len(ss) + 1
        /\ \A n \in 1 .. Len(ss) : t[n] = ss[n]
        /\ t[Len(ss) + 1] = s
    BY AppendProperties, LenProperties
  <2>2. Block(s) \in RowLists
    BY BlockIs
  <2>3. /\ b \in Seq(RowLists) /\ Len(b) = Len(ss) + 1
        /\ \A n \in 1 .. Len(ss) : b[n] = B(ss)[n]
        /\ b[Len(ss) + 1] = Block(s)
    <3>1. B(ss) \in Seq(RowLists) /\ Len(B(ss)) = Len(ss)
      BY <1>1
    <3> HIDE DEF B
    <3> QED BY <3>1, <2>2, AppendProperties
  <2>4. B(t) \in Seq(RowLists) /\ Len(B(t)) = Len(ss) + 1
    <3> HIDE DEF t, B
    <3> QED BY <1>1, <2>1
  <2>5. \A n \in 1 .. Len(ss) + 1 : B(t)[n] = b[n]
    <3> HIDE DEF t, b
    <3>1. \A n \in 1 .. Len(ss) + 1 : B(t)[n] = Block(t[n])
      BY <2>1
    <3>2. \A n \in 1 .. Len(ss) : B(ss)[n] = Block(ss[n])
      OBVIOUS
    <3>3. \A n \in 1 .. Len(ss) + 1 : n \in 1 .. Len(ss) \/ n = Len(ss) + 1
      BY <2>1
    <3>4. QED
      BY <3>1, <3>2, <3>3, <2>1, <2>3
  <2>6. QED
    <3> HIDE DEF t, b, B
    <3>1. B(t) = b
      BY <2>3, <2>4, <2>5, SeqEqual
    <3>2. QED
      BY <3>1 DEF t, b
<1> HIDE DEF B
<1>4. \A ss : Blocks(ss) = FlattenSeq(B(ss))
  BY DEF Blocks, B
<1>5. /\ \A bb \in Seq(RowLists) : FlattenSeq(bb) \in RowLists
      /\ \A bb \in Seq(RowLists), b \in RowLists : FlattenSeq(Append(bb, b)) = Cat(FlattenSeq(bb), b)
      /\ FlattenSeq(<<>>) = <<>>
  BY FlattenAppend DEF RowLists
<1>6. QED
  BY <1>1, <1>2, <1>3, <1>4, <1>5, BlockIs

LEMMA BlocksCat ==
    ASSUME NEW ss \in Seq(Sentences)
    PROVE  \A tt \in Seq(Sentences) : Blocks(Cat(ss, tt)) = Cat(Blocks(ss), Blocks(tt))
<1> DEFINE G == {tt \in Seq(Sentences) : Blocks(Cat(ss, tt)) = Cat(Blocks(ss), Blocks(tt))}
<1>0. Blocks(ss) \in RowLists
  BY BlocksLaws
<1>1. <<>> \in G
  <2>1. <<>> \in Seq(Sentences) /\ Cat(ss, <<>>) = ss
    BY CatLaws
  <2>2. Cat(Blocks(ss), <<>>) = Blocks(ss)
    BY <1>0, CatLaws DEF RowLists
  <2>3. QED
    BY <2>1, <2>2, BlocksLaws
<1>2. \A tt \in Seq(Sentences) : \A s \in Sentences : tt \in G => Append(tt, s) \in G
  <2> SUFFICES ASSUME NEW tt \in Seq(Sentences), NEW s \in Sentences, tt \in G PROVE Append(tt, s) \in G
    OBVIOUS
  <2> DEFINE u == Cat(ss, tt)
  <2>1. u \in Seq(Sentences) /\ Cat(ss, Append(tt, s)) = Append(u, s)
    BY CatOfAppend
  <2>2. Append(tt, s) \in Seq(Sentences)
    BY AppendProperties
  <2>3. Blocks(u) = Cat(Blocks(ss), Blocks(tt))
    OBVIOUS
  <2> HIDE DEF u
  <2>4. Blocks(Append(u, s)) = Cat(Blocks(u), Block(s)) /\ Blocks(Append(tt, s)) = Cat(Blocks(tt), Block(s))
    BY <2>1, BlocksLaws
  <2>5. Blocks(tt) \in RowLists /\ Block(s) \in RowLists
    BY BlocksLaws, BlockIs
  <2>6. Cat(Cat(Blocks(ss), Blocks(tt)), Block(s)) = Cat(Blocks(ss), Cat(Blocks(tt), Block(s)))
    BY <1>0, <2>5, CatLaws DEF RowLists
  <2>7. Blocks(Cat(ss, Append(tt, s))) = Cat(Blocks(ss), Blocks(Append(tt, s)))
    BY <2>1, <2>3, <2>4, <2>6
  <2>8. QED
    BY <2>2, <2>7
<1>3. QED
  <2> HIDE DEF G
  <2>1. Seq(Sentences) \subseteq G
    BY <1>1, <1>2, SequenceInduction
  <2>2. QED
    BY <2>1 DEF G

LEMMA WordedIs ==
    /\ Worded(<<>>) = <<>>
    /\ \A ss \in Seq(Sentences) :
          /\ Worded(ss) \in Seq(Sentences)
          /\ \A i \in 1 .. Len(Worded(ss)) : Worded(ss)[i] \in Sentences \ {<<>>}
          /\ ss # <<>> => /\ Head(ss) \in Sentences /\ Tail(ss) \in Seq(Sentences)
                          /\ Worded(ss) = IF Head(ss) = <<>> THEN Worded(Tail(ss)) ELSE Cat(<<Head(ss)>>, Worded(Tail(ss)))
<1> DEFINE N == Sentences \ {<<>>}
<1>1. \A ss \in Seq(Sentences) : Worded(ss) = Only(ss, N)
  BY WithoutIsOnly DEF Worded
<1> HIDE DEF N
<1>2. Worded(<<>>) = <<>>
  BY <1>1, OnlyEmpty, EmptySeq
<1>3. ASSUME NEW ss \in Seq(Sentences)
      PROVE  Worded(ss) \in Seq(Sentences) /\ \A i \in 1 .. Len(Worded(ss)) : Worded(ss)[i] \in N
  <2>1. Worded(ss) \in Seq(Sentences)
    BY <1>1, OnlyType
  <2>2. \A q \in Seq(Sentences) : Only(q, N) \in Seq(Sentences \cap N)
    BY OnlyMembers, Zenon
  <2> DEFINE T == Sentences \cap N
  <2>3. Worded(ss) \in Seq(T)
    BY <1>1, <2>2
  <2> HIDE DEF T
  <2>4. \A i \in 1 .. Len(Worded(ss)) : Worded(ss)[i] \in T
    BY <2>3, ElementOfSeq
  <2>5. QED
    BY <2>1, <2>4 DEF T
<1>4. ASSUME NEW ss \in Seq(Sentences), ss # <<>>
      PROVE  /\ Head(ss) \in Sentences /\ Tail(ss) \in Seq(Sentences)
             /\ Worded(ss) = IF Head(ss) = <<>> THEN Worded(Tail(ss)) ELSE Cat(<<Head(ss)>>, Worded(Tail(ss)))
  <2> DEFINE h == Head(ss)
             t == Tail(ss)
  <2>1. h \in Sentences /\ t \in Seq(Sentences) /\ <<h>> \in Seq(Sentences) /\ ss = Cat(<<h>>, t)
    BY <1>4, CatHeadTail
  <2> HIDE DEF h, t
  <2>2. Only(ss, N) = Cat(Only(<<h>>, N), Only(t, N))
    <3>1. \A x, y \in Seq(Sentences) : Only(Cat(x, y), N) = Cat(Only(x, N), Only(y, N))
      BY OnlyCat, Zenon
    <3>2. Only(Cat(<<h>>, t), N) = Cat(Only(<<h>>, N), Only(t, N))
      BY <2>1, <3>1, Zenon
    <3>3. QED
      BY <2>1, <3>2
  <2>3. Only(<<h>>, N) = IF h \in N THEN <<h>> ELSE <<>>
    BY OnlyOne
  <2>4. h \in N <=> h # <<>>
    BY <2>1 DEF N
  <2>5. Worded(t) \in Seq(Sentences) /\ Cat(<<>>, Worded(t)) = Worded(t)
    BY <1>3, <2>1, CatLaws
  <2>6. Worded(ss) = IF h = <<>> THEN Worded(t) ELSE Cat(<<h>>, Worded(t))
    BY <1>1, <2>1, <2>2, <2>3, <2>4, <2>5
  <2>7. QED
    BY <2>1, <2>6 DEF h, t
<1>5. QED
  BY <1>2, <1>3, <1>4 DEF N

\* What is still to come of the sentences f, n of which are done, and a rows of the next.
Rest(f, n, a) ==
    IF n < Len(f)
    THEN Cat(SubSeq(Block(f[n + 1]), a + 1, Len(f[n + 1]) + 1), Blocks(SubSeq(f, n + 2, Len(f))))
    ELSE <<>>

LEMMA HeadsEqual ==
    ASSUME NEW T, NEW u \in Seq(T), NEW v \in Seq(T), u # <<>>, v # <<>>,
           NEW y \in Seq(T), NEW z \in Seq(T), Cat(u, y) = Cat(v, z)
    PROVE  Head(u) = Head(v) /\ Cat(Tail(u), y) = Cat(Tail(v), z)
<1>1. ASSUME NEW q \in Seq(T), q # <<>>, NEW x \in Seq(T)
      PROVE  Head(Cat(q, x)) = Head(q) /\ Tail(Cat(q, x)) = Cat(Tail(q), x)
  <2> DEFINE s == q \o x
  <2>1. /\ s \in Seq(T) /\ Len(q) \in Nat \ {0} /\ Len(x) \in Nat /\ Len(s) = Len(q) + Len(x)
        /\ \A i \in 1 .. Len(q) : s[i] = q[i]
        /\ \A i \in 1 .. Len(x) : s[Len(q) + i] = x[i]
    BY <1>1
  <2> DEFINE t == Tail(q)
             r == t \o x
  <2>2. /\ t \in Seq(T) /\ Len(t) = Len(q) - 1 /\ \A i \in 1 .. Len(q) - 1 : t[i] = q[i + 1]
    BY <1>1
  <2>3. /\ r \in Seq(T) /\ Len(r) = (Len(q) - 1) + Len(x)
        /\ \A i \in 1 .. Len(q) - 1 : r[i] = t[i]
        /\ \A i \in 1 .. Len(x) : r[(Len(q) - 1) + i] = x[i]
    <3>1. \A b, c \in Seq(T) :
            /\ b \o c \in Seq(T) /\ Len(b \o c) = Len(b) + Len(c)
            /\ \A i \in 1 .. Len(b) : (b \o c)[i] = b[i]
            /\ \A i \in 1 .. Len(c) : (b \o c)[Len(b) + i] = c[i]
      OBVIOUS
    <3>2. /\ r \in Seq(T) /\ Len(r) = Len(t) + Len(x)
          /\ \A i \in 1 .. Len(t) : r[i] = t[i]
          /\ \A i \in 1 .. Len(x) : r[Len(t) + i] = x[i]
      BY <2>2, <3>1, Zenon
    <3> HIDE DEF t, r
    <3>3. QED
      BY <2>2, <3>2
  <2>4. Head(s) = Head(q)
    <3>1. Head(s) = s[1] /\ Head(q) = q[1] /\ 1 \in 1 .. Len(q)
      <4> HIDE DEF s
      <4> QED BY <2>1, EmptySeq
    <3> HIDE DEF s
    <3>2. QED
      BY <3>1, <2>1
  <2> DEFINE w == Tail(s)
  <2>5. w \in Seq(T) /\ Len(w) = Len(s) - 1 /\ \A i \in 1 .. Len(s) - 1 : w[i] = s[i + 1]
    <3>1. s # <<>>
      BY <2>1, EmptySeq
    <3> HIDE DEF s
    <3> QED BY <2>1, <3>1
  <2> HIDE DEF s, t, r, w
  <2>6. Len(w) = Len(r)
    BY <2>1, <2>3, <2>5
  <2>7. ASSUME NEW i \in 1 .. Len(r) PROVE w[i] = r[i]
    <3>1. i \in 1 .. Len(s) - 1
      BY <2>5, <2>6
    <3>2. CASE i <= Len(q) - 1
      <4>1. i \in 1 .. Len(q) - 1 /\ i + 1 \in 1 .. Len(q)
        BY <3>2, <2>1, <2>3
      <4>2. QED
        BY <3>1, <4>1, <2>1, <2>2, <2>3, <2>5
    <3>3. CASE ~(i <= Len(q) - 1)
      <4> DEFINE k == i - (Len(q) - 1)
      <4>1. k \in 1 .. Len(x) /\ i = (Len(q) - 1) + k /\ i + 1 = Len(q) + k
        BY <3>3, <2>1, <2>3
      <4> HIDE DEF k
      <4>2. r[i] = x[k] /\ s[i + 1] = x[k]
        BY <4>1, <2>1, <2>3
      <4>3. QED
        BY <3>1, <4>2, <2>5
    <3>4. QED
      BY <3>2, <3>3
  <2>8. w = r
    BY <2>3, <2>5, <2>6, <2>7, SeqEqual
  <2>9. QED
    BY <2>4, <2>8 DEF w, s, r, t, Cat
<1>2. Head(Cat(u, y)) = Head(u) /\ Head(Cat(v, z)) = Head(v)
  BY <1>1, Zenon
<1>3. Tail(Cat(u, y)) = Cat(Tail(u), y) /\ Tail(Cat(v, z)) = Cat(Tail(v), z)
  BY <1>1, Zenon
<1>4. QED
  BY <1>2, <1>3, Zenon

LEMMA RestIs ==
    ASSUME NEW f \in Seq(Sentences), NEW n \in 0 .. Len(f) - 1, NEW a \in 0 .. Len(f[n + 1])
    PROVE  LET u == SubSeq(Block(f[n + 1]), a + 1, Len(f[n + 1]) + 1)
               z == Blocks(SubSeq(f, n + 2, Len(f)))
           IN  /\ f[n + 1] \in Sentences
               /\ Rest(f, n, a) = Cat(u, z)
               /\ u \in RowLists /\ u # <<>> /\ z \in RowLists
               /\ Head(u) = Block(f[n + 1])[a + 1]
               /\ a < Len(f[n + 1]) => Cat(Tail(u), z) = Rest(f, n, a + 1)
               /\ a = Len(f[n + 1]) => Cat(Tail(u), z) = Blocks(SubSeq(f, n + 2, Len(f)))
<1> DEFINE s == f[n + 1]
           b == Block(s)
           u == SubSeq(b, a + 1, Len(s) + 1)
           z == Blocks(SubSeq(f, n + 2, Len(f)))
<1>1. Len(f) \in Nat /\ n + 1 \in 1 .. Len(f) /\ n + 1 \in 0 .. Len(f) /\ n < Len(f)
  BY LenProperties
<1>2. s \in Sentences
  BY <1>1, ElementOfSeq
<1>3. b \in RowLists /\ Len(s) \in Nat /\ Len(b) = Len(s) + 1
  BY <1>2, BlockIs
<1>4. z \in RowLists
  <2>1. SubSeq(f, (n + 1) + 1, Len(f)) \in Seq(Sentences)
    BY <1>1, SplitAt
  <2>2. (n + 1) + 1 = n + 2
    BY <1>1
  <2>3. QED
    BY <2>1, <2>2, BlocksLaws
<1>5. Rest(f, n, a) = Cat(u, z)
  BY <1>1 DEF Rest
<1>6. a \in Nat /\ a <= Len(s)
  BY <1>3
<1> HIDE DEF s, b, z
<1>7. /\ u \in RowLists /\ Len(u) = Len(s) + 1 - a /\ \A i \in 1 .. Len(s) + 1 - a : u[i] = b[a + i]
  <2>1. \A T : \A q \in Seq(T) : \A k \in Nat : k < Len(q) =>
          /\ SubSeq(q, k + 1, Len(q)) \in Seq(T)
          /\ Len(SubSeq(q, k + 1, Len(q))) = Len(q) - k
          /\ \A i \in 1 .. Len(q) - k : SubSeq(q, k + 1, Len(q))[i] = q[k + i]
    OBVIOUS
  <2>2. a < Len(b) /\ u = SubSeq(b, a + 1, Len(b))
    BY <1>3, <1>6
  <2> HIDE DEF u
  <2>3. u \in Seq(Seq(Cells)) /\ Len(u) = Len(b) - a /\ \A i \in 1 .. Len(b) - a : u[i] = b[a + i]
    <3>1. b \in Seq(Seq(Cells))
      BY <1>3 DEF RowLists
    <3> DEFINE v == SubSeq(b, a + 1, Len(b))
    <3>2. v \in Seq(Seq(Cells)) /\ Len(v) = Len(b) - a /\ \A i \in 1 .. Len(b) - a : v[i] = b[a + i]
      BY <2>1, <2>2, <1>6, <3>1, Zenon
    <3>3. QED
      BY <2>2, <3>2, Zenon
  <2>4. QED
    BY <2>3, <1>3 DEF RowLists
<1> HIDE DEF u
<1>8. 1 \in 1 .. Len(s) + 1 - a /\ Len(u) # 0
  BY <1>3, <1>6, <1>7
<1>9. u # <<>> /\ Head(u) = b[a + 1]
  <2>1. u # <<>>
    BY <1>8, EmptySeq
  <2>2. Head(u) = u[1]
    BY <1>7, <2>1 DEF RowLists
  <2>3. QED
    BY <2>1, <2>2, <1>7, <1>8
<1>10. /\ Tail(u) \in RowLists /\ Len(Tail(u)) = Len(s) - a
       /\ \A i \in 1 .. Len(s) - a : Tail(u)[i] = b[(a + 1) + i]
  <2>1. \A T : \A q \in Seq(T) : q # <<>> =>
          Tail(q) \in Seq(T) /\ Len(Tail(q)) = Len(q) - 1 /\ \A i \in 1 .. Len(q) - 1 : Tail(q)[i] = q[i + 1]
    OBVIOUS
  <2> DEFINE t == Tail(u)
  <2>2. t \in RowLists /\ Len(t) = Len(u) - 1 /\ \A i \in 1 .. Len(u) - 1 : t[i] = u[i + 1]
    BY <1>7, <1>9, <2>1, Zenon DEF RowLists
  <2> HIDE DEF t
  <2>3. Len(u) - 1 = Len(s) - a
    BY <1>7, <1>6, <1>3
  <2>4. \A i \in 1 .. Len(s) - a : i + 1 \in 1 .. Len(s) + 1 - a /\ a + (i + 1) = (a + 1) + i
    BY <1>6, <1>3
  <2>5. QED
    BY <2>2, <2>3, <2>4, <1>7 DEF t
<1>11. ASSUME a < Len(s) PROVE Cat(Tail(u), z) = Rest(f, n, a + 1)
  <2> DEFINE v == SubSeq(b, (a + 1) + 1, Len(s) + 1)
  <2>1. v \in RowLists /\ Len(v) = Len(s) - a /\ \A i \in 1 .. Len(s) - a : v[i] = b[(a + 1) + i]
    <3>1. \A T : \A q \in Seq(T) : \A k \in Nat : k < Len(q) =>
            /\ SubSeq(q, k + 1, Len(q)) \in Seq(T)
            /\ Len(SubSeq(q, k + 1, Len(q))) = Len(q) - k
            /\ \A i \in 1 .. Len(q) - k : SubSeq(q, k + 1, Len(q))[i] = q[k + i]
      OBVIOUS
    <3>2. a + 1 \in Nat /\ a + 1 < Len(b) /\ v = SubSeq(b, (a + 1) + 1, Len(b)) /\ Len(b) - (a + 1) = Len(s) - a
      BY <1>3, <1>6, <1>11
    <3>3. b \in Seq(Seq(Cells))
      BY <1>3 DEF RowLists
    <3> DEFINE x == SubSeq(b, (a + 1) + 1, Len(b))
    <3>4. /\ x \in Seq(Seq(Cells)) /\ Len(x) = Len(b) - (a + 1)
          /\ \A i \in 1 .. Len(b) - (a + 1) : x[i] = b[(a + 1) + i]
      BY <3>1, <3>2, <3>3, Zenon
    <3>5. v = x
      BY <3>2
    <3> HIDE DEF v, x
    <3>6. QED
      BY <3>2, <3>4, <3>5 DEF RowLists
  <2> HIDE DEF v
  <2>2. Tail(u) = v
    <3> DEFINE t == Tail(u)
    <3>1. t \in RowLists /\ Len(t) = Len(s) - a /\ \A i \in 1 .. Len(s) - a : t[i] = b[(a + 1) + i]
      BY <1>10
    <3> HIDE DEF t
    <3>2. t = v
      BY <2>1, <3>1, SeqEqual DEF RowLists
    <3>3. QED
      BY <3>2 DEF t
  <2>3. QED
    BY <2>2, <1>1 DEF Rest, v, z, b, s
<1>12. ASSUME a = Len(s) PROVE Cat(Tail(u), z) = z
  <2>1. Len(Tail(u)) = 0
    BY <1>10, <1>12, <1>3
  <2>2. Tail(u) = <<>>
    BY <1>10, <2>1, EmptySeq DEF RowLists
  <2>3. QED
    BY <2>2, <1>4, CatLaws DEF RowLists
<1>13. QED
  BY <1>2, <1>4, <1>5, <1>7, <1>9, <1>11, <1>12 DEF u, z, b, s

\* All that is to come after a number of sentences.
LEMMA RestStart ==
    ASSUME NEW f \in Seq(Sentences), NEW n \in 0 .. Len(f)
    PROVE  Blocks(SubSeq(f, n + 1, Len(f))) = Rest(f, n, 0)
<1>1. Len(f) \in Nat
  BY LenProperties
<1>2. CASE n = Len(f)
  <2>1. SubSeq(f, n + 1, Len(f)) = <<>>
    <3>1. \A q \in Seq(Sentences) : SubSeq(q, Len(q) + 1, Len(q)) = <<>>
      OBVIOUS
    <3>2. QED
      BY <3>1, <1>2
  <2>2. Rest(f, n, 0) = <<>>
    BY <1>1, <1>2 DEF Rest
  <2>3. QED
    BY <2>1, <2>2, BlocksLaws, Zenon
<1>3. CASE n # Len(f)
  <2> DEFINE s == f[n + 1]
             t == SubSeq(f, n + 2, Len(f))
  <2>1. n \in Nat /\ n < Len(f) /\ n + 1 \in 1 .. Len(f) /\ n + 1 \in 0 .. Len(f) /\ (n + 1) + 1 = n + 2
    BY <1>1, <1>3
  <2>2. s \in Sentences /\ <<s>> \in Seq(Sentences)
    <3>1. s \in Sentences
      BY <2>1, ElementOfSeq
    <3> HIDE DEF s
    <3>2. QED
      BY <3>1
  <2>3. t \in Seq(Sentences)
    BY <2>1, SplitAt
  <2>4. SubSeq(f, n + 1, Len(f)) = Cat(<<s>>, t)
    <3>1. \A T : \A q \in Seq(T) : \A k \in Nat : k < Len(q) =>
            SubSeq(q, k + 1, Len(q)) = <<q[k + 1]>> \o SubSeq(q, k + 2, Len(q))
      OBVIOUS
    <3>2. QED
      BY <2>1, <3>1, Zenon DEF Cat
  <2> HIDE DEF t
  <2>5. Blocks(Cat(<<s>>, t)) = Cat(Blocks(<<s>>), Blocks(t))
    BY <2>2, <2>3, BlocksCat
  <2>6. Blocks(<<s>>) = Block(s)
    <3>1. <<>> \in Seq(Sentences) /\ Append(<<>>, s) = <<s>>
      OBVIOUS
    <3>2. Blocks(Append(<<>>, s)) = Cat(Blocks(<<>>), Block(s))
      BY <2>2, <3>1, BlocksLaws
    <3>3. Block(s) \in RowLists
      BY <2>2, BlockIs
    <3>4. Cat(<<>>, Block(s)) = Block(s)
      BY <3>3, CatLaws DEF RowLists
    <3>5. QED
      BY <3>1, <3>2, <3>4, BlocksLaws
  <2>7. SubSeq(Block(s), 0 + 1, Len(s) + 1) = Block(s)
    <3>1. Block(s) \in RowLists /\ Len(Block(s)) = Len(s) + 1
      BY <2>2, BlockIs
    <3>2. SubSeq(Block(s), 1, Len(Block(s))) = Block(s)
      BY <3>1, Beginnings DEF RowLists
    <3>3. 0 + 1 = 1
      OBVIOUS
    <3>4. QED
      BY <3>1, <3>2, <3>3
  <2>8. Rest(f, n, 0) = Cat(SubSeq(Block(s), 0 + 1, Len(s) + 1), Blocks(t))
    BY <2>1 DEF Rest, t, s
  <2>9. QED
    <3> HIDE DEF s
    <3>1. Blocks(SubSeq(f, n + 1, Len(f))) = Cat(Block(s), Blocks(t))
      BY <2>4, <2>5, <2>6, Zenon
    <3>2. Rest(f, n, 0) = Cat(Block(s), Blocks(t))
      BY <2>7, <2>8, Zenon
    <3>3. QED
      BY <3>1, <3>2, Zenon
<1>4. QED
  BY <1>2, <1>3

-------------------------------------------------------------------------------
RowsTypes ==
    /\ text \in Seq(Sentences) /\ sentences \in Seq(Sentences) /\ rows \in RowLists
    /\ feat \in Cells /\ tag \in Cells
    /\ av \in Seq(ReadRows) /\ output \in Seq(Seq(ReadRows))

\* A row has the tag of its word.
TaggedAs(s, k, row) == Last(row) = TagOf(s[k], FirstNonpunctWord(s))

\* Before the end of the input: what is on its way and what is still to be printed is
\* what is missing, and what has been read of the next sentence is tagged.
UnderWay(f, n) ==
    /\ Cat(rows, Blocks(Worded(sentences))) = Rest(f, n, Len(av))
    /\ n = Len(f) => av = <<>>
    /\ n < Len(f) => /\ Len(av) <= Len(f[n + 1])
                     /\ \A k \in 1 .. Len(av) : TaggedAs(f[n + 1], k, av[k])

AtEnd == sentences = <<>> /\ rows = <<>> /\ \E i \in 1 .. Len(output) : output[i] = <<>>

Done(f, i) ==
    /\ Len(output[i]) = Len(f[i])
    /\ \A k \in 1 .. Len(f[i]) : Last(output[i][k]) = Marked(TagOf(f[i][k], FirstNonpunctWord(f[i])))

RowsInvOf(f) ==
    /\ \A i \in 1 .. Len(output) : i <= Len(f) => Done(f, i)
    /\ Len(output) <= Len(f) => UnderWay(f, Len(output))
    /\ Len(output) > Len(f) => AtEnd /\ Len(output) = Len(f) + 1 /\ output[Len(output)] = <<>>

RowsInv == RowsTypes /\ RowsInvOf(Worded(text))

LEMMA RowsStart == RowsInit => RowsInv
<1> SUFFICES ASSUME RowsInit PROVE RowsInv
  OBVIOUS
<1>1. PICK ls \in Analyses : RowsInitWith(ls)
  BY DEF RowsInit
<1>2. ls \in Seq(Sentences)
  BY RowsAssumption DEF Sentences, AnalyzedWords
<1>3. /\ text = ls /\ sentences = ls /\ rows = <<>> /\ feat = Unread /\ tag = Unread
      /\ av = <<>> /\ output = <<>>
  BY <1>1 DEF RowsInitWith
<1>4. Unread \in Cells
  BY DEF Unread, Cells, CellNames
<1>5. RowsTypes
  BY <1>2, <1>3, <1>4, EmptySeq DEF RowsTypes, RowLists
<1> DEFINE f == Worded(text)
<1>6. f \in Seq(Sentences) /\ Len(f) \in Nat /\ \A i \in 1 .. Len(f) : f[i] \in Sentences
  BY <1>2, <1>3, WordedIs, LenProperties, ElementOfSeq
<1>7. Len(output) = 0 /\ Len(av) = 0
  BY <1>3, EmptySeq
<1>8. Worded(sentences) = f
  BY <1>3
<1> HIDE DEF f
<1>9. SubSeq(f, 0 + 1, Len(f)) = f
  <2>1. SubSeq(f, 1, Len(f)) = f /\ 0 + 1 = 1
    BY <1>6, Beginnings
  <2>2. QED
    BY <2>1
<1>10. Blocks(f) = Rest(f, 0, 0) /\ Blocks(f) \in RowLists
  <2>1. 0 \in 0 .. Len(f)
    BY <1>6
  <2>2. Blocks(SubSeq(f, 0 + 1, Len(f))) = Rest(f, 0, 0)
    BY <1>6, <2>1, RestStart, Zenon
  <2>3. QED
    BY <1>6, <1>9, <2>2, BlocksLaws, Zenon
<1>11. Cat(rows, Blocks(Worded(sentences))) = Rest(f, 0, Len(av))
  BY <1>3, <1>7, <1>8, <1>10, CatLaws DEF RowLists
<1>12. 0 < Len(f) => Len(av) <= Len(f[0 + 1])
  <2>1. ASSUME 0 < Len(f) PROVE Len(f[1]) \in Nat
    <3>1. f[1] \in Sentences
      BY <2>1, <1>6
    <3>2. QED
      BY <3>1, LenProperties DEF Sentences
  <2>2. QED
    BY <2>1, <1>7
<1>13. UnderWay(f, 0)
  BY <1>3, <1>7, <1>11, <1>12 DEF UnderWay
<1>14. RowsInvOf(f)
  BY <1>6, <1>7, <1>13 DEF RowsInvOf
<1>15. QED
  BY <1>5, <1>14 DEF RowsInv, f

\* What is left to come is not exhausted before the last sentence has been read.
LEMMA NothingLeft ==
    ASSUME NEW T, NEW u \in Seq(T), NEW y \in Seq(T), Cat(u, y) = <<>>
    PROVE  u = <<>>
<1>1. \A q, r \in Seq(T) : Len(Cat(q, r)) = Len(q) + Len(r)
  BY DEF Cat
<1>2. Len(Cat(u, y)) = 0
  BY EmptySeq
<1>3. Len(u) \in Nat /\ Len(y) \in Nat
  BY LenProperties
<1>4. Len(u) + Len(y) = 0
  BY <1>1, <1>2
<1>5. Len(u) = 0
  BY <1>3, <1>4
<1>6. QED
  BY <1>5, EmptySeq

LEMMA Missing ==
    ASSUME RowsTypes
    PROVE  /\ rows \in Seq(Seq(Cells))
           /\ Worded(sentences) \in Seq(Sentences)
           /\ Blocks(Worded(sentences)) \in Seq(Seq(Cells))
           /\ Len(output) \in Nat /\ Len(av) \in Nat
<1>1. /\ sentences \in Seq(Sentences) /\ rows \in RowLists
      /\ av \in Seq(ReadRows) /\ output \in Seq(Seq(ReadRows))
  BY DEF RowsTypes
<1>2. Worded(sentences) \in Seq(Sentences)
  BY <1>1, WordedIs
<1>3. Blocks(Worded(sentences)) \in RowLists
  BY <1>2, BlocksLaws
<1>4. Len(output) \in Nat /\ Len(av) \in Nat
  BY <1>1, LenProperties
<1>5. QED
  BY <1>1, <1>2, <1>3, <1>4 DEF RowLists

\* Until the end of the input, the sentences that are missing are under way.
LEMMA NotYet ==
    ASSUME NEW f \in Seq(Sentences), RowsTypes, RowsInvOf(f), ~AtEnd
    PROVE  Len(output) \in 0 .. Len(f) /\ UnderWay(f, Len(output))
<1>1. Len(output) \in Nat /\ Len(f) \in Nat
  BY Missing, LenProperties
<1>2. Len(output) <= Len(f)
  BY <1>1 DEF RowsInvOf
<1>3. QED
  BY <1>1, <1>2 DEF RowsInvOf

\* The row that comes next is that of the next word, or the blank one after the last word.
LEMMA NextRow ==
    ASSUME NEW f \in Seq(Sentences), RowsTypes, RowsInvOf(f), rows # <<>>
    PROVE  LET n == Len(output)
               a == Len(av)
               s == f[n + 1]
               left == Cat(Tail(rows), Blocks(Worded(sentences)))
           IN  /\ n \in 0 .. Len(f) - 1 /\ s \in Sentences /\ a \in 0 .. Len(s)
               /\ Head(rows) = Block(s)[a + 1]
               /\ a < Len(s) => left = Rest(f, n, a + 1)
               /\ a = Len(s) => left = Rest(f, n + 1, 0)
               /\ \A k \in 1 .. a : TaggedAs(s, k, av[k])
<1> DEFINE n == Len(output)
           a == Len(av)
           s == f[n + 1]
           y == Blocks(Worded(sentences))
<1>1. ~AtEnd
  BY DEF AtEnd
<1>2. n \in 0 .. Len(f) /\ UnderWay(f, n)
  BY <1>1, NotYet
<1>3. rows \in Seq(Seq(Cells)) /\ y \in Seq(Seq(Cells)) /\ a \in Nat /\ Len(f) \in Nat
  BY Missing, LenProperties
<1>4. Cat(rows, y) = Rest(f, n, a)
  BY <1>2 DEF UnderWay
<1>5. n # Len(f)
  <2>1. ASSUME n = Len(f) PROVE FALSE
    <3>1. Rest(f, n, a) = <<>>
      BY <2>1, <1>3 DEF Rest
    <3> HIDE DEF y, a, n
    <3>2. rows = <<>>
      BY <3>1, <1>3, <1>4, NothingLeft
    <3>3. QED
      BY <3>2
  <2>2. QED
    BY <2>1
<1>6. n \in 0 .. Len(f) - 1 /\ n < Len(f)
  BY <1>2, <1>3, <1>5
<1>7. a <= Len(s) /\ \A k \in 1 .. a : TaggedAs(s, k, av[k])
  BY <1>2, <1>6 DEF UnderWay
<1>8. s \in Sentences /\ Len(s) \in Nat
  <2>1. n + 1 \in 1 .. Len(f)
    BY <1>6, <1>3
  <2>2. s \in Sentences
    BY <2>1, ElementOfSeq
  <2>3. QED
    BY <2>2, BlockIs
<1>9. a \in 0 .. Len(s)
  BY <1>3, <1>7, <1>8
<1> DEFINE u == SubSeq(Block(s), a + 1, Len(s) + 1)
           z == Blocks(SubSeq(f, n + 2, Len(f)))
<1>10. /\ Rest(f, n, a) = Cat(u, z)
       /\ u \in RowLists /\ u # <<>> /\ z \in RowLists
       /\ Head(u) = Block(s)[a + 1]
       /\ a < Len(s) => Cat(Tail(u), z) = Rest(f, n, a + 1)
       /\ a = Len(s) => Cat(Tail(u), z) = z
  BY <1>6, <1>9, RestIs
<1>11. z = Rest(f, n + 1, 0)
  <2>1. n + 1 \in 0 .. Len(f) /\ (n + 1) + 1 = n + 2
    BY <1>6, <1>3
  <2>2. Blocks(SubSeq(f, (n + 1) + 1, Len(f))) = Rest(f, n + 1, 0)
    BY <2>1, RestStart, Zenon
  <2>3. QED
    BY <2>1, <2>2
<1>12. Head(rows) = Head(u) /\ Cat(Tail(rows), y) = Cat(Tail(u), z)
  <2> HIDE DEF u, z, y, n, a, s
  <2>1. u \in Seq(Seq(Cells)) /\ z \in Seq(Seq(Cells))
    BY <1>10 DEF RowLists
  <2>2. Cat(rows, y) = Cat(u, z)
    BY <1>4, <1>10
  <2>3. QED
    BY <2>1, <2>2, <1>3, <1>10, HeadsEqual
<1> HIDE DEF u, z
<1>13. QED
  BY <1>6, <1>7, <1>8, <1>9, <1>10, <1>11, <1>12, Zenon

\* Sentences that have been printed are no longer touched.
LEMMA StillDone ==
    ASSUME NEW f \in Seq(Sentences), RowsTypes, RowsInvOf(f), NEW x,
           output' = Append(output, x), x \in Seq(ReadRows)
    PROVE  /\ Len(output') = Len(output) + 1 /\ output'[Len(output) + 1] = x
           /\ \A i \in 1 .. Len(output) : output'[i] = output[i]
           /\ \A i \in 1 .. Len(output) : i <= Len(f) => Done(f, i)'
<1>1. output \in Seq(Seq(ReadRows))
  BY DEF RowsTypes
<1>2. /\ Len(output') = Len(output) + 1 /\ output'[Len(output) + 1] = x
      /\ \A i \in 1 .. Len(output) : output'[i] = output[i]
  BY <1>1, AppendProperties
<1>3. ASSUME NEW i \in 1 .. Len(output), i <= Len(f) PROVE Done(f, i)'
  <2>1. Done(f, i)
    BY <1>3 DEF RowsInvOf
  <2>2. output'[i] = output[i]
    BY <1>2
  <2>3. QED
    BY <2>1, <2>2 DEF Done
<1>4. QED
  BY <1>2, <1>3

LEMMA Prints ==
    ASSUME NEW f \in Seq(Sentences), RowsTypes, RowsInvOf(f), PrintSentence
    PROVE  RowsTypes' /\ RowsInvOf(f)'
<1> DEFINE h == Head(sentences)
           t == Tail(sentences)
           F == Freeling2Crf(h)
           n == Len(output)
<1>1. /\ sentences # <<>> /\ sentences' = t
      /\ rows' = IF h = <<>> THEN rows ELSE (rows \o F) \o <<<<>>>>
      /\ UNCHANGED <<text, feat, tag, av, output>>
  BY DEF PrintSentence
<1>2. sentences \in Seq(Sentences) /\ rows \in Seq(Seq(Cells))
  BY Missing DEF RowsTypes
<1>3. /\ h \in Sentences /\ t \in Seq(Sentences) /\ Worded(t) \in Seq(Sentences)
      /\ Worded(sentences) = IF h = <<>> THEN Worded(t) ELSE Cat(<<h>>, Worded(t))
  BY <1>1, <1>2, WordedIs
<1>4. /\ F \in Seq(Seq(Cells)) /\ Block(h) \in Seq(Seq(Cells)) /\ Blocks(Worded(t)) \in Seq(Seq(Cells))
      /\ Block(h) = Append(F, <<>>)
  BY <1>3, BlockIs, BlocksLaws DEF Block, RowLists
<1> HIDE DEF h, t, F
<1>5. h # <<>> => Blocks(Worded(sentences)) = Cat(Block(h), Blocks(Worded(t)))
  <2>1. \A x \in Sentences : <<x>> \in Seq(Sentences) /\ <<>> \in Seq(Sentences) /\ Append(<<>>, x) = <<x>>
    OBVIOUS
  <2>2. <<h>> \in Seq(Sentences) /\ <<>> \in Seq(Sentences) /\ Append(<<>>, h) = <<h>>
    BY <1>3, <2>1, Zenon
  <2>3. Blocks(Append(<<>>, h)) = Cat(Blocks(<<>>), Block(h))
    BY <1>3, <2>2, BlocksLaws, Zenon
  <2>4. Cat(<<>>, Block(h)) = Block(h)
    BY <1>4, CatLaws, Zenon
  <2>5. Blocks(<<h>>) = Block(h)
    BY <2>2, <2>3, <2>4, BlocksLaws, Zenon
  <2>6. Blocks(Cat(<<h>>, Worded(t))) = Cat(Blocks(<<h>>), Blocks(Worded(t)))
    BY <1>3, <2>2, BlocksCat, Zenon
  <2>7. QED
    BY <1>3, <2>5, <2>6, Zenon
<1>6. \A x, y, z \in Seq(Seq(Cells)) : Cat(Cat(x, y), z) = Cat(x, Cat(y, z))
  BY CatLaws
<1>7. h # <<>> => rows' = Cat(rows, Block(h))
  <2>1. <<>> \in Seq(Cells)
    BY EmptySeq
  <2>2. Append(F, <<>>) = Cat(F, <<<<>>>>) /\ <<<<>>>> \in Seq(Seq(Cells))
    BY <1>4, <2>1, CatAppend
  <2>3. Cat(Cat(rows, F), <<<<>>>>) = Cat(rows, Cat(F, <<<<>>>>))
    BY <1>2, <1>4, <2>2, <1>6, Zenon
  <2>4. h # <<>> => rows' = Cat(Cat(rows, F), <<<<>>>>)
    BY <1>1, Zenon DEF Cat
  <2>5. QED
    BY <1>4, <2>2, <2>3, <2>4, Zenon
<1>8. rows' \in RowLists /\ Cat(rows', Blocks(Worded(t))) = Cat(rows, Blocks(Worded(sentences)))
  <2>1. CASE h = <<>>
    BY <2>1, <1>1, <1>2, <1>3, Zenon DEF RowLists
  <2>2. CASE h # <<>>
    <3>1. Cat(rows, Block(h)) \in Seq(Seq(Cells))
      BY <1>2, <1>4, CatLaws, Zenon
    <3>2. Cat(Cat(rows, Block(h)), Blocks(Worded(t))) = Cat(rows, Cat(Block(h), Blocks(Worded(t))))
      BY <1>2, <1>4, <1>6, Zenon
    <3>3. QED
      BY <2>2, <1>5, <1>7, <3>1, <3>2, Zenon DEF RowLists
  <2>3. QED
    BY <2>1, <2>2
<1>9. RowsTypes'
  BY <1>1, <1>3, <1>8 DEF RowsTypes
<1>10. ~AtEnd
  BY <1>1 DEF AtEnd
<1>11. n \in 0 .. Len(f) /\ UnderWay(f, n)
  BY <1>10, NotYet
<1>12. output' = output /\ av' = av /\ sentences' = t
  BY <1>1
<1>13. \A i \in 1 .. n : i <= Len(f) => Done(f, i)'
  BY <1>12 DEF RowsInvOf, Done
<1>14. UnderWay(f, Len(output))'
  <2>1. Cat(rows', Blocks(Worded(sentences'))) = Rest(f, n, Len(av))
    BY <1>8, <1>11, <1>12 DEF UnderWay
  <2>2. /\ n = Len(f) => av = <<>>
        /\ n < Len(f) => /\ Len(av) <= Len(f[n + 1])
                         /\ \A k \in 1 .. Len(av) : TaggedAs(f[n + 1], k, av[k])
    BY <1>11 DEF UnderWay
  <2>3. QED
    BY <2>1, <2>2, <1>12 DEF UnderWay, TaggedAs
<1>15. ~(Len(output') > Len(f))
  BY <1>11, <1>12, LenProperties
<1>16. QED
  BY <1>9, <1>12, <1>13, <1>14, <1>15 DEF RowsInvOf

LEMMA Reads ==
    ASSUME NEW f \in Seq(Sentences), RowsTypes, RowsInvOf(f), ReadRow
    PROVE  RowsTypes' /\ RowsInvOf(f)'
<1> DEFINE n == Len(output)
           a == Len(av)
           s == f[n + 1]
           first == FirstNonpunctWord(s)
           w == s[a + 1]
           l == Label(Row(w, first))
           features == [i \in 1 .. 2 * MaxTag |-> Column(l, i + 3, feat)]
           read == SubSeq(l, 1, 3) \o features \o <<TagOf(w, first)>>
           y == Blocks(Worded(sentences))
<1>1. /\ rows # <<>> /\ Head(rows) # <<>> /\ rows' = Tail(rows)
      /\ UNCHANGED <<text, sentences, output>>
  BY DEF ReadRow
<1>2. /\ n \in 0 .. Len(f) - 1 /\ s \in Sentences /\ a \in 0 .. Len(s)
      /\ Head(rows) = Block(s)[a + 1]
      /\ a < Len(s) => Cat(Tail(rows), y) = Rest(f, n, a + 1)
      /\ \A k \in 1 .. a : TaggedAs(s, k, av[k])
  BY <1>1, NextRow
<1>3. /\ Len(s) \in Nat /\ first \in BOOLEAN
      /\ \A k \in 1 .. Len(s) : s[k] \in AnalyzedWords /\ Block(s)[k] = Row(s[k], first)
      /\ Block(s)[Len(s) + 1] = <<>>
  BY <1>2, BlockIs
<1> HIDE DEF s, first, y
<1>4. a < Len(s) /\ a + 1 \in 1 .. Len(s) /\ a \in Nat
  <2>1. a # Len(s)
    BY <1>1, <1>2, <1>3
  <2>2. QED
    BY <2>1, <1>2, <1>3
<1>5. w \in AnalyzedWords /\ Head(rows) = Row(w, first)
  BY <1>2, <1>3, <1>4
<1> HIDE DEF w
<1>6. feat \in Cells /\ tag \in Cells /\ av \in Seq(ReadRows) /\ rows \in RowLists
  BY DEF RowsTypes
<1>7. /\ 2 * MaxTag + 4 <= Len(l) /\ l[2 * MaxTag + 4] = TagOf(w, first)
      /\ TagOf(w, first) \in Cells
      /\ features[2 * MaxTag] \in Cells
      /\ read \in Seq(Cells) \ {<<>>} /\ Last(read) = TagOf(w, first)
  BY <1>3, <1>5, <1>6, RowRead
<1>8. feat' = features[2 * MaxTag] /\ tag' = TagOf(w, first)
  BY <1>5, <1>7 DEF ReadRow
<1>9. av' = Append(av, read)
  BY <1>5, <1>8 DEF ReadRow
<1> HIDE DEF l, features, read
<1>10. read \in ReadRows /\ Last(read) = TagOf(s[a + 1], FirstNonpunctWord(s))
  BY <1>7 DEF ReadRows, w, first
<1>11. /\ av' \in Seq(ReadRows) /\ Len(av') = a + 1 /\ av' # <<>>
       /\ av'[a + 1] = read
       /\ \A k \in 1 .. a : av'[k] = av[k]
  <2>1. /\ av' \in Seq(ReadRows) /\ Len(av') = a + 1 /\ av'[a + 1] = read
        /\ \A k \in 1 .. a : av'[k] = av[k]
    BY <1>6, <1>9, <1>10, AppendProperties
  <2>2. Len(av') # 0
    BY <2>1, <1>4
  <2>3. QED
    BY <2>1, <2>2, EmptySeq
<1>12. rows' \in RowLists
  BY <1>1, <1>6 DEF RowLists
<1>13. RowsTypes'
  BY <1>1, <1>7, <1>8, <1>11, <1>12 DEF RowsTypes
<1>14. output' = output /\ sentences' = sentences
  BY <1>1
<1>15. n \in Nat /\ Len(f) \in Nat /\ n < Len(f)
  BY <1>2, LenProperties
<1>16. \A i \in 1 .. Len(output) : i <= Len(f) => Done(f, i)'
  BY <1>14 DEF RowsInvOf, Done
<1>17. \A k \in 1 .. a + 1 : TaggedAs(s, k, av'[k])
  <2>1. TaggedAs(s, a + 1, av'[a + 1])
    BY <1>10, <1>11 DEF TaggedAs
  <2>2. \A k \in 1 .. a : TaggedAs(s, k, av'[k])
    BY <1>2, <1>11
  <2>3. \A k \in 1 .. a + 1 : k = a + 1 \/ k \in 1 .. a
    BY <1>4
  <2>4. QED
    BY <2>1, <2>2, <2>3
<1>18. Cat(rows', y) = Rest(f, n, Len(av'))
  BY <1>1, <1>2, <1>4, <1>11
<1>19. Len(av') <= Len(f[n + 1]) /\ \A k \in 1 .. Len(av') : TaggedAs(f[n + 1], k, av'[k])
  <2>1. a + 1 <= Len(s)
    BY <1>4
  <2>2. QED
    BY <2>1, <1>11, <1>17 DEF s
<1>20. UnderWay(f, Len(output))'
  <2>1. Cat(rows', Blocks(Worded(sentences'))) = Rest(f, n, Len(av'))
    BY <1>14, <1>18 DEF y
  <2>2. n # Len(f)
    BY <1>15
  <2>3. Len(output') = n
    BY <1>14
  <2>4. QED
    BY <2>1, <2>2, <2>3, <1>19 DEF UnderWay, TaggedAs
<1>21. QED
  BY <1>13, <1>14, <1>15, <1>16, <1>20 DEF RowsInvOf

LEMMA EndsSentence ==
    ASSUME NEW f \in Seq(Sentences), RowsTypes, RowsInvOf(f), ReadBlank
    PROVE  RowsTypes' /\ RowsInvOf(f)'
<1> DEFINE n == Len(output)
           a == Len(av)
           s == f[n + 1]
           y == Blocks(Worded(sentences))
           x == Analyze(av)
<1>1. /\ rows # <<>> /\ Head(rows) = <<>> /\ rows' = Tail(rows)
      /\ output' = Append(output, x) /\ av' = <<>>
      /\ UNCHANGED <<text, sentences, feat, tag>>
  BY DEF ReadBlank
<1>2. /\ n \in 0 .. Len(f) - 1 /\ s \in Sentences /\ a \in 0 .. Len(s)
      /\ Head(rows) = Block(s)[a + 1]
      /\ a = Len(s) => Cat(Tail(rows), y) = Rest(f, n + 1, 0)
      /\ \A k \in 1 .. a : TaggedAs(s, k, av[k])
  BY <1>1, NextRow
<1>3. Len(s) \in Nat /\ \A k \in 1 .. Len(s) : Block(s)[k] # <<>>
  BY <1>2, BlockIs
<1> HIDE DEF s, y
<1>4. a = Len(s)
  <2>1. ASSUME a # Len(s) PROVE FALSE
    <3>1. a + 1 \in 1 .. Len(s)
      BY <2>1, <1>2, <1>3
    <3>2. QED
      BY <3>1, <1>1, <1>2, <1>3
  <2>2. QED
    BY <2>1
<1>5. /\ text \in Seq(Sentences) /\ sentences \in Seq(Sentences) /\ feat \in Cells /\ tag \in Cells
      /\ av \in Seq(ReadRows) /\ rows \in RowLists /\ output \in Seq(Seq(ReadRows))
  BY DEF RowsTypes
<1>6. /\ x \in Seq(ReadRows) /\ Len(x) = a
      /\ \A k \in 1 .. a : Last(x[k]) = Marked(Last(av[k]))
  BY <1>5, AnalyzeIs
<1> HIDE DEF x
<1>7. /\ Len(output') = n + 1 /\ output'[n + 1] = x
      /\ \A i \in 1 .. n : i <= Len(f) => Done(f, i)'
  BY <1>1, <1>6, StillDone
<1>8. output' \in Seq(Seq(ReadRows)) /\ rows' \in RowLists /\ av' \in Seq(ReadRows)
  <2>1. output' \in Seq(Seq(ReadRows))
    BY <1>1, <1>5, <1>6, AppendProperties
  <2>2. rows' \in RowLists
    BY <1>1, <1>5 DEF RowLists
  <2>3. av' \in Seq(ReadRows)
    BY <1>1, EmptySeq
  <2>4. QED
    BY <2>1, <2>2, <2>3
<1>9. RowsTypes'
  BY <1>1, <1>5, <1>8 DEF RowsTypes
<1>10. n \in Nat /\ Len(f) \in Nat /\ n < Len(f) /\ n + 1 <= Len(f)
  BY <1>2, LenProperties
<1>11. \A i \in {n + 1} : Done(f, i)'
  <2> SUFFICES ASSUME NEW i, i = n + 1 PROVE Done(f, i)'
    OBVIOUS
  <2>1. \A k \in 1 .. Len(s) : Last(x[k]) = Marked(TagOf(s[k], FirstNonpunctWord(s)))
    BY <1>2, <1>4, <1>6 DEF TaggedAs
  <2>2. Len(x) = Len(s)
    BY <1>4, <1>6
  <2>3. QED
    BY <2>1, <2>2, <1>7 DEF Done, s
<1>12. \A i \in 1 .. Len(output') : i <= Len(f) => Done(f, i)'
  <2>1. \A i \in 1 .. n + 1 : i = n + 1 \/ i \in 1 .. n
    BY <1>10
  <2>2. QED
    BY <2>1, <1>7, <1>11
<1>13. Len(av') = 0
  BY <1>1, EmptySeq
<1>14. UnderWay(f, Len(output))'
  <2>1. Cat(rows', Blocks(Worded(sentences'))) = Rest(f, n + 1, Len(av'))
    BY <1>1, <1>2, <1>4, <1>13 DEF y
  <2>2. n + 1 < Len(f) => 0 <= Len(f[(n + 1) + 1])
    <3>1. ASSUME n + 1 < Len(f) PROVE Len(f[(n + 1) + 1]) \in Nat
      <4>1. (n + 1) + 1 \in 1 .. Len(f)
        BY <3>1, <1>10
      <4>2. f[(n + 1) + 1] \in Sentences
        BY <4>1, ElementOfSeq
      <4>3. QED
        BY <4>2, BlockIs
    <3>2. QED
      BY <3>1
  <2>3. \A k \in 1 .. Len(av') : FALSE
    BY <1>13
  <2>4. QED
    BY <2>1, <2>2, <2>3, <1>1, <1>7, <1>13 DEF UnderWay
<1>15. ~(Len(output') > Len(f))
  BY <1>7, <1>10
<1>16. QED
  BY <1>9, <1>12, <1>14, <1>15 DEF RowsInvOf

LEMMA EndsInput ==
    ASSUME NEW f \in Seq(Sentences), RowsTypes, RowsInvOf(f), EndOfInput
    PROVE  RowsTypes' /\ RowsInvOf(f)'
<1> DEFINE n == Len(output)
           a == Len(av)
           x == Analyze(av)
<1>1. /\ sentences = <<>> /\ rows = <<>> /\ \A i \in DOMAIN output : output[i] # <<>>
      /\ output' = Append(output, x) /\ av' = <<>>
      /\ UNCHANGED <<text, sentences, rows, feat, tag>>
  BY DEF EndOfInput
<1>2. /\ text \in Seq(Sentences) /\ sentences \in Seq(Sentences) /\ feat \in Cells /\ tag \in Cells
      /\ av \in Seq(ReadRows) /\ rows \in RowLists /\ output \in Seq(Seq(ReadRows))
  BY DEF RowsTypes
<1>3. DOMAIN output = 1 .. Len(output)
  BY <1>2, LenProperties
<1>4. ~AtEnd
  BY <1>1, <1>3 DEF AtEnd
<1>5. n \in 0 .. Len(f) /\ UnderWay(f, n) /\ Len(f) \in Nat
  BY <1>4, NotYet, LenProperties
<1>6. Rest(f, n, a) = <<>>
  <2>1. Worded(sentences) = <<>>
    BY <1>1, WordedIs
  <2>2. Cat(rows, Blocks(Worded(sentences))) = <<>>
    <3>1. <<>> \in Seq(Seq(Cells)) /\ Cat(<<>>, <<>>) = <<>>
      BY CatLaws
    <3>2. QED
      BY <2>1, <1>1, <3>1, BlocksLaws
  <2>3. QED
    BY <2>2, <1>5 DEF UnderWay
<1>7. n = Len(f)
  <2> SUFFICES ASSUME n # Len(f) PROVE FALSE
    OBVIOUS
  <2> DEFINE s == f[n + 1]
             u == SubSeq(Block(s), a + 1, Len(s) + 1)
             z == Blocks(SubSeq(f, n + 2, Len(f)))
  <2>1. n \in 0 .. Len(f) - 1 /\ n < Len(f) /\ n + 1 \in 1 .. Len(f)
    BY <1>5
  <2>2. a \in Nat /\ a <= Len(s)
    BY <2>1, <1>5, Missing DEF UnderWay
  <2>3. s \in Sentences
    BY <2>1, ElementOfSeq
  <2>4. Len(s) \in Nat
    BY <2>3, BlockIs
  <2>5. a \in 0 .. Len(s)
    BY <2>2, <2>4
  <2>6. Rest(f, n, a) = Cat(u, z) /\ u \in RowLists /\ u # <<>> /\ z \in RowLists
    BY <2>1, <2>5, RestIs
  <2> HIDE DEF u, z, s, n, a
  <2>7. u \in Seq(Seq(Cells)) /\ z \in Seq(Seq(Cells)) /\ Cat(u, z) = <<>>
    BY <2>6, <1>6 DEF RowLists
  <2>8. u = <<>>
    BY <2>7, NothingLeft
  <2>9. QED
    BY <2>6, <2>8
<1>8. av = <<>>
  BY <1>5, <1>7 DEF UnderWay
<1>9. x \in Seq(ReadRows) /\ x = <<>>
  <2>1. x \in Seq(ReadRows) /\ Len(x) = Len(av)
    BY <1>2, AnalyzeIs
  <2> HIDE DEF x
  <2>2. Len(x) = 0
    BY <2>1, <1>8, EmptySeq
  <2>3. QED
    BY <2>1, <2>2, EmptySeq
<1> HIDE DEF x
<1>10. /\ Len(output') = n + 1 /\ output'[n + 1] = <<>>
       /\ \A i \in 1 .. n : i <= Len(f) => Done(f, i)'
  BY <1>1, <1>9, StillDone
<1>11. output' \in Seq(Seq(ReadRows)) /\ av' \in Seq(ReadRows)
  <2>1. output' \in Seq(Seq(ReadRows))
    BY <1>1, <1>2, <1>9, AppendProperties
  <2>2. QED
    BY <2>1, <1>1, EmptySeq
<1>12. RowsTypes'
  BY <1>1, <1>2, <1>11 DEF RowsTypes
<1>13. \A i \in 1 .. Len(output') : i <= Len(f) => Done(f, i)'
  <2>1. \A i \in 1 .. n + 1 : i <= n => i \in 1 .. n
    BY <1>5
  <2>2. QED
    BY <2>1, <1>7, <1>10
<1>14. AtEnd'
  <2>1. n + 1 \in 1 .. n + 1
    BY <1>5
  <2>2. QED
    BY <2>1, <1>1, <1>10 DEF AtEnd
<1>15. ~(Len(output') <= Len(f)) /\ Len(output') = Len(f) + 1 /\ output'[Len(output')] = <<>>
  BY <1>5, <1>7, <1>10
<1>16. QED
  BY <1>12, <1>13, <1>14, <1>15 DEF RowsInvOf

\* The invariant is kept by every step.
LEMMA RowsStep == RowsInv /\ [RowsNext]_rowVars => RowsInv'
<1> SUFFICES ASSUME RowsInv, [RowsNext]_rowVars PROVE RowsInv'
  OBVIOUS
<1>1. RowsTypes /\ RowsInvOf(Worded(text)) /\ Worded(text) \in Seq(Sentences)
  BY WordedIs DEF RowsInv, RowsTypes
<1>2. PICK f : f = Worded(text)
  OBVIOUS
<1>3. f \in Seq(Sentences) /\ RowsInvOf(f)
  BY <1>1, <1>2
<1>4. text' = text
  BY DEF RowsNext, PrintSentence, ReadRow, ReadBlank, EndOfInput, rowVars
<1>5. RowsTypes' /\ RowsInvOf(f)'
  <2>1. CASE PrintSentence
    BY <2>1, <1>1, <1>3, Prints
  <2>2. CASE ReadRow
    BY <2>2, <1>1, <1>3, Reads
  <2>3. CASE ReadBlank
    BY <2>3, <1>1, <1>3, EndsSentence
  <2>4. CASE EndOfInput
    BY <2>4, <1>1, <1>3, EndsInput
  <2>5. CASE UNCHANGED rowVars
    <3>1. /\ text' = text /\ sentences' = sentences /\ rows' = rows /\ feat' = feat
          /\ tag' = tag /\ av' = av /\ output' = output
      BY <2>5 DEF rowVars
    <3>2. RowsTypes'
      BY <3>1, <1>1 DEF RowsTypes
    <3>3. RowsInvOf(f)'
      BY <3>1, <1>3 DEF RowsInvOf, UnderWay, AtEnd, Done, TaggedAs
    <3>4. QED
      BY <3>2, <3>3
  <2>6. QED
    BY <2>1, <2>2, <2>3, <2>4, <2>5 DEF RowsNext
<1>6. f = Worded(text)'
  BY <1>2, <1>4 DEF Worded
<1>7. RowsInvOf(Worded(text))'
  BY <1>5, <1>6 DEF RowsInvOf, UnderWay, AtEnd, Done, TaggedAs
<1>8. QED
  BY <1>5, <1>7 DEF RowsInv

LEMMA RowsInvImplies == RowsInv => WordsTagged
<1> SUFFICES ASSUME RowsInv PROVE WordsTagged
  OBVIOUS
<1> DEFINE full == Worded(text)
<1>1. /\ output \in Seq(Seq(ReadRows)) /\ full \in Seq(Sentences) /\ RowsInvOf(full)
  BY WordedIs DEF RowsInv, RowsTypes
<1>2. DOMAIN output = 1 .. Len(output) /\ Len(output) \in Nat /\ Len(full) \in Nat
  BY <1>1, LenProperties
<1> HIDE DEF full
<1>3. ASSUME NEW i \in DOMAIN output, i <= Len(full)
      PROVE  /\ Len(output[i]) = Len(full[i])
             /\ \A k \in DOMAIN full[i] :
                   Last(output[i][k]) = Marked(TagOf(full[i][k], FirstNonpunctWord(full[i])))
  <2>1. Done(full, i)
    BY <1>1, <1>2, <1>3 DEF RowsInvOf
  <2>2. i \in 1 .. Len(full)
    BY <1>2, <1>3
  <2>3. full[i] \in Seq(AnalyzedWords)
    BY <1>1, <2>2, ElementOfSeq DEF Sentences
  <2>4. DOMAIN full[i] = 1 .. Len(full[i])
    BY <2>3, LenProperties
  <2>5. QED
    BY <2>1, <2>4 DEF Done
<1>4. Len(output) > Len(full) => Len(output) = Len(full) + 1 /\ Last(output) = <<>>
  BY <1>1 DEF RowsInvOf, Last
<1>5. QED
  BY <1>3, <1>4 DEF WordsTagged, Marked, full, Worded

\* Through three programs that know the columns of a row by their number only, each
\* word keeps its place, and the tag that was chosen for it is in the last column.
THEOREM EachWordItsTag == RowsSpec => []WordsTagged
<1>1. RowsInit => RowsInv
  BY RowsStart
<1>2. RowsInv /\ [RowsNext]_rowVars => RowsInv'
  BY RowsStep
<1>3. RowsInv => WordsTagged
  BY RowsInvImplies
<1>4. QED
  BY <1>1, <1>2, <1>3, PTL DEF RowsSpec
===============================================================================
