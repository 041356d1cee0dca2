----------------------- MODULE AnalyzerSessionProofs -----------------------
(*****************************************************************************)
(* Proofs about an analyzer session and the messages it sends.               *)
(*                                                                           *)
(* AnalyzerSession, for every sequence of files and in every mode: client    *)
(* and worker take turns; no line is lost, repeated or reordered; every      *)
(* file gets its own analysis.  That one message at most is on its way is    *)
(* not inductive by itself: one has to know that the client writes only      *)
(* when both directions are empty or its worker is gone, which is Turns.     *)
(* A worker that exits while its client goes on has analyzed a document:     *)
(* Document follows the document to its end, and Left keeps what this worker *)
(* has left to be printed.                                                   *)
(*                                                                           *)
(* SocketFraming, for all messages and every size of the buffer of           *)
(* read_message: however TCP cuts the bytes, messages are delivered whole    *)
(* and in order, as MessageChannel says.  While a message is on its way,     *)
(* what the reader has of it, what is on the wire and what the kernel has    *)
(* not taken are three adjacent parts of the message and its NUL; only a     *)
(* writer that dies takes the third with it.  That no other message is       *)
(* among these bytes rests on InTurn.                                        *)
(*****************************************************************************)
EXTENDS AnalyzerSession, SocketFraming, SequenceLemmas

OneOf(q) == q = <<>> \/ q = <<Head(q)>>

Turns ==
    /\ OneOf(up) /\ OneOf(down)
    /\ up = <<>> \/ down = <<>>
    /\ cpc = "send" => down = <<>> /\ (up = <<>> \/ wpc = "exited")

\* The messages to the worker, and the lines that answers are made of.
Requests  == TextLines \cup {Empty, Reset, PrintStats, Flush}
Printable == TextLines \cup {<<"language">>, <<"stats">>}

Types ==
    /\ files \in Seq(Seq(LineKinds))
    /\ cpc \in {"sync", "send", "wait", "flush", "done", "failed", "killed"}
    /\ wpc \in {"read", "exited"}
    /\ file \in 1 .. Len(files) + 1
    /\ line \in Nat \ {0}
    /\ out \in [DOMAIN files -> Seq(Printable)]
    /\ buffer \in Seq(TextLines)
    /\ up # <<>> => Head(up) \in Requests
    /\ down # <<>> => Head(down) \in Seq(Printable)

\* How far the client is, and what it and the worker know by then.
Place ==
    /\ mode = "ident" => /\ file = 1
                         /\ cpc \in {"sync", "failed", "killed"}
                         /\ down # <<>> => Head(down) # Ready
    /\ cpc \in {"wait", "flush"} => file <= Len(files)
    /\ file <= Len(files) => line <= Len(files[file]) + 1
    /\ cpc = "flush" => /\ line = Len(files[file]) + 1
                        /\ up # <<>> => Head(up) = Flush
                        /\ up = <<>> => buffer = <<>>

\* A worker that reads a document has not come to the end of it.
Document ==
    mode = "doc" /\ wpc = "read" /\ ~ClientGone =>
        /\ file = 1
        /\ cpc = "sync" => line = 1 /\ (up # <<>> => Head(up) = Reset)
        /\ cpc = "flush" => up # <<>>
        /\ cpc = "wait" /\ up # <<>> => line > 1 /\ Head(up) = Message(1, line - 1)
        /\ \A i \in 1 .. line - 1 : 1 <= Len(files) /\ files[1][i] = "FLUSH_BUFFER"
                                        => i = line - 1 /\ up # <<>>

\* What is left of the analysis when the worker has exited.
Left ==
    wpc = "exited" /\ ~ClientGone =>
        /\ mode = "doc"
        /\ file <= Len(files) => OwnSection(file, Cat(TextOf(out[file]), TextOf(FlattenSeq(down))))

SessionInv ==
    Turns /\ Types /\ Place /\ LinesConserved /\ Document /\ Left /\ SectionsMatch

-------------------------------------------------------------------------------
\* What the proofs use of a queue that holds one message or none.
LEMMA AppendToEmpty ==
    ASSUME NEW m
    PROVE  /\ OneOf(Append(<<>>, m))
           /\ Append(<<>>, m) # <<>>
           /\ Len(Append(<<>>, m)) = 1
BY DEF OneOf

LEMMA TailOfOne ==
    ASSUME NEW q, OneOf(q), q # <<>>
    PROVE  Tail(q) = <<>> /\ OneOf(Tail(q))
<1>1. q = <<Head(q)>>
  BY DEF OneOf
<1>2. Tail(<<Head(q)>>) = <<>>
  OBVIOUS
<1>3. QED
  BY <1>1, <1>2 DEF OneOf

LEMMA TurnsInit == Init => Turns
BY DEF Init, Turns, OneOf, Reset

-------------------------------------------------------------------------------
\* The client writes when nothing is on its way, and reads what there is.
LEMMA ClientTurns == Turns /\ (ClientStep \/ Kill) => Turns'
<1> SUFFICES ASSUME Turns, ClientStep \/ Kill PROVE Turns'
  OBVIOUS
<1> USE DEF Turns, worker
<1>1. ASSUME Synchronize \/ ReceiveAnswer \/ ReceiveFlushed PROVE Turns'
  <2>1. /\ down # <<>> /\ down' = Tail(down)
        /\ up' = up /\ wpc' = wpc
    BY <1>1 DEF Synchronize, ReceiveAnswer, ReceiveFlushed, Answered
  <2>2. down' = <<>> /\ OneOf(down') /\ up' = <<>>
    BY <2>1, TailOfOne
  <2>3. QED
    BY <2>1, <2>2 DEF OneOf
<1>2. ASSUME SendLine \/ SendFlush PROVE Turns'
  <2>1. PICK m : /\ cpc = "send" /\ cpc' \in {"wait", "flush"}
                 /\ down' = down /\ wpc' = wpc
                 /\ Send(m)
    BY <1>2 DEF SendLine, SendFlush
  <2>2. down = <<>> /\ (wpc # "exited" => up = <<>>)
    BY <2>1
  <2>3. OneOf(up')
    <3>1. CASE wpc = "exited"
      BY <2>1, <3>1 DEF Send, OneOf
    <3>2. CASE wpc # "exited"
      BY <2>1, <2>2, <3>2, AppendToEmpty DEF Send
    <3>3. QED
      BY <3>1, <3>2
  <2>4. QED
    BY <2>1, <2>2, <2>3 DEF OneOf
<1>3. ASSUME ReceiveNothing PROVE Turns'
  BY <1>3 DEF ReceiveNothing, HungUp
<1>4. ASSUME ClientFails \/ CloseClient \/ Kill PROVE Turns'
  BY <1>4 DEF ClientFails, CloseClient, Kill
<1>5. QED
  BY <1>1, <1>2, <1>3, <1>4 DEF ClientStep

\* The worker answers what it reads, once; only columns go without an answer.
LEMMA WorkerTurns == Turns /\ WorkerStep => Turns'
<1> SUFFICES ASSUME Turns, WorkerStep PROVE Turns'
  OBVIOUS
<1> USE DEF Turns, client
<1>1. ASSUME wpc = "read", up # <<>>, up' = Tail(up), cpc' = cpc,
             down' = down \/ \E a : down' = Append(down, a)
      PROVE  Turns'
  <2>1. up' = <<>> /\ OneOf(up') /\ down = <<>> /\ cpc # "send"
    BY <1>1, TailOfOne
  <2>2. OneOf(down')
    BY <1>1, <2>1, AppendToEmpty DEF OneOf
  <2>3. QED
    BY <1>1, <2>1, <2>2
<1>2. ASSUME Identify \/ CheckStatsCommands PROVE Turns'
  BY <1>1, <1>2 DEF Identify, CheckStatsCommands, Read, Answer
<1>3. ASSUME AnalyzeText PROVE Turns'
  <2>1. \E a : down' = Append(down, a)
    BY <1>3 DEF AnalyzeText, Answer
  <2>2. QED
    BY <1>1, <1>3, <2>1 DEF AnalyzeText, ReadText, Read
<1>4. ASSUME FlushText \/ LoadLine \/ FlushDocument PROVE Turns'
  <2>1. \E a : down' = Append(down, a)
    BY <1>4 DEF FlushText, LoadLine, FlushDocument, Answer
  <2>2. QED
    BY <1>1, <1>4, <2>1 DEF FlushText, LoadLine, FlushDocument, ReadText, Read
<1>5. ASSUME AddColumns \/ EndSentence PROVE Turns'
  BY <1>1, <1>5 DEF AddColumns, EndSentence, ReadText, Read, Answer
<1>6. ASSUME EndOfInput \/ WriteFails PROVE Turns'
  BY <1>6 DEF EndOfInput, WriteFails, ClientGone
<1>7. QED
  BY <1>2, <1>3, <1>4, <1>5, <1>6 DEF WorkerStep

LEMMA TurnsStep == Turns /\ [Next]_vars => Turns'
<1>1. Turns /\ UNCHANGED vars => Turns'
  BY DEF Turns, OneOf, vars, client, worker
<1>2. QED
  BY <1>1, ClientTurns, WorkerTurns DEF Next

\* Client and worker take turns in every session: no message is written while
\* another one is on its way, in either direction.
THEOREM TakingTurns == Spec => []OneInFlight
<1>1. Turns => OneInFlight
  <2> SUFFICES ASSUME Turns PROVE OneInFlight
    OBVIOUS
  <2>1. Len(<<>>) = 0 /\ \A m : Len(<<m>>) = 1
    OBVIOUS
  <2>2. CASE up = <<>> /\ down = <<>>
    BY <2>1, <2>2 DEF OneInFlight
  <2>3. CASE up = <<Head(up)>> /\ down = <<>>
    <3>1. Len(up) = 1 /\ Len(down) = 0
      BY <2>1, <2>3
    <3>2. QED
      BY <3>1 DEF OneInFlight
  <2>4. CASE up = <<>> /\ down = <<Head(down)>>
    <3>1. Len(up) = 0 /\ Len(down) = 1
      BY <2>1, <2>4
    <3>2. QED
      BY <3>1 DEF OneInFlight
  <2>5. QED
    BY <2>2, <2>3, <2>4 DEF Turns, OneOf
<1>2. QED
  BY <1>1, TurnsInit, TurnsStep, PTL DEF Spec

-------------------------------------------------------------------------------
(***************************************************************************)
(* The lines.                                                              *)
(***************************************************************************)
LEMMA OthersAreNoText ==
    ASSUME NEW k
    PROVE  <<k>> \notin TextLines
BY DEF TextLines, Text

LEMMA TextOfPrintable ==
    /\ TextOf(<<>>) = <<>>
    /\ \A u \in Seq(TextLines) : TextOf(u) = u /\ u \in Seq(Printable)
    /\ \A u, v \in Seq(Printable) : TextOf(u \o v) = TextOf(u) \o TextOf(v)
    /\ \A u \in Seq(Printable) : TextOf(u) \in Seq(TextLines)
<1>1. TextOf(<<>>) = <<>>
  BY OnlyEmpty DEF TextOf
<1>2. \A u \in Seq(TextLines) : TextOf(u) = u
  BY OnlyAll DEF TextOf
<1>3. \A u \in Seq(TextLines) : u \in Seq(Printable)
  BY SeqMonotonic DEF Printable
<1>4. \A u, v \in Seq(Printable) : TextOf(u \o v) = TextOf(u) \o TextOf(v)
  BY OnlyConcat DEF TextOf
<1>5. \A u \in Seq(Printable) : TextOf(u) \in Seq(TextLines)
  <2>1. Printable \cap TextLines = TextLines
    BY DEF Printable
  <2>2. QED
    BY <2>1, OnlyMembers DEF TextOf
<1>6. QED
  BY <1>1, <1>2, <1>3, <1>4, <1>5

LEMMA TextOfRequest ==
    ASSUME NEW m \in Requests
    PROVE  /\ TextOf(<<m>>) = IF m \in TextLines THEN <<m>> ELSE <<>>
           /\ TextOf(<<m>>) \in Seq(TextLines)
<1>1. TextOf(<<m>>) = IF m \in TextLines THEN <<m>> ELSE <<>>
  BY OnlyOne DEF TextOf
<1>2. TextOf(<<m>>) \in Seq(TextLines)
  <2>1. m \in TextLines => <<m>> \in Seq(TextLines)
    OBVIOUS
  <2>2. <<>> \in Seq(TextLines)
    BY EmptySeq
  <2>3. QED
    BY <1>1, <2>1, <2>2
<1>3. QED
  BY <1>1, <1>2

LEMMA MessageIsRequest ==
    ASSUME files \in Seq(Seq(LineKinds)), NEW f \in 1 .. Len(files), NEW i \in 1 .. Len(files[f])
    PROVE  Message(f, i) \in Requests
<1>1. files[f] \in Seq(LineKinds) /\ f \in DOMAIN files
  BY ElementOfSeq, LenProperties
<1>2. files[f][i] \in LineKinds /\ i \in DOMAIN files[f]
  BY <1>1, ElementOfSeq, LenProperties
<1>3. CASE files[f][i] = "text"
  BY <1>1, <1>2, <1>3 DEF Message, Requests, TextLines
<1>4. CASE files[f][i] # "text"
  BY <1>2, <1>4 DEF Message, Requests, LineKinds, Commands, Empty, Reset, PrintStats, Flush
<1>5. QED
  BY <1>3, <1>4

LEMMA FirstLinesNone ==
    ASSUME NEW f
    PROVE  FirstLines(f, 0) = <<>>
<1>1. [i \in 1 .. 0 |-> Message(f, i)] = <<>>
  OBVIOUS
<1>2. QED
  BY <1>1, TextOfPrintable DEF FirstLines

LEMMA FirstLinesNext ==
    ASSUME files \in Seq(Seq(LineKinds)), NEW f \in 1 .. Len(files),
           NEW n \in Nat, n + 1 <= Len(files[f])
    PROVE  FirstLines(f, n + 1) = Cat(FirstLines(f, n), TextOf(<<Message(f, n + 1)>>))
<1> DEFINE ms == [i \in 1 .. n |-> Message(f, i)]
           m == Message(f, n + 1)
<1>1. files[f] \in Seq(LineKinds)
  BY ElementOfSeq
<1>2. Len(files[f]) \in Nat
  BY <1>1, LenProperties
<1>3. ms \in Seq(Requests) /\ m \in Requests
  <2>1. \A i \in 1 .. n + 1 : Message(f, i) \in Requests
    BY <1>2, MessageIsRequest
  <2>2. \A i \in 1 .. n : i \in 1 .. n + 1
    OBVIOUS
  <2>3. QED
    BY <2>1, <2>2, <1>2
<1>4. [i \in 1 .. n + 1 |-> Message(f, i)] = Append(ms, m)
  OBVIOUS
<1> HIDE DEF ms, m
<1>5. Append(ms, m) = Cat(ms, <<m>>) /\ <<m>> \in Seq(Requests)
  BY <1>3, CatAppend
<1>6. TextOf(Cat(ms, <<m>>)) = Cat(TextOf(ms), TextOf(<<m>>))
  BY <1>3, <1>5, OnlyCat DEF TextOf
<1>7. QED
  BY <1>4, <1>5, <1>6 DEF FirstLines, ms, m

LEMMA FilesKept == [Next]_vars => files' = files /\ mode' = mode
BY DEF Next, ClientStep, WorkerStep, vars, client, worker, Kill, Synchronize,
       SendLine, SendFlush, ReceiveAnswer, ReceiveFlushed, ReceiveNothing,
       ClientFails, CloseClient, Identify, CheckStatsCommands, AnalyzeText,
       FlushText, LoadLine, FlushDocument, AddColumns, EndSentence, EndOfInput,
       WriteFails

LEMMA SessionInit == Init => SessionInv
<1> SUFFICES ASSUME Init PROVE SessionInv
  OBVIOUS
<1>1. Turns
  BY TurnsInit
<1>2. files \in Seq(Seq(LineKinds)) /\ Len(files) \in Nat
  BY SessionAssumption, LenProperties DEF Init
<1>3. Types
  <2>1. \A f \in DOMAIN files : <<>> \in Seq(Printable)
    BY EmptySeq
  <2>2. <<>> \in Seq(TextLines)
    BY EmptySeq
  <2>3. QED
    BY <1>2, <2>1, <2>2 DEF Init, Types, Requests, Reset
<1>4. Place
  <2>1. 1 <= Len(files) => Len(files[1]) \in Nat
    BY <1>2, ElementOfSeq, LenProperties
  <2>2. QED
    BY <1>2, <2>1 DEF Init, Place, ClientGone
<1>5. LinesConserved
  <2> SUFFICES ASSUME file <= Len(files)
               PROVE  TextOf(out[file]) \o TextOf(FlattenSeq(down)) \o buffer \o TextOf(up)
                        = FirstLines(file, line - 1)
    BY DEF LinesConserved
  <2>1. TextOf(out[file]) = <<>>
    <3>1. file \in DOMAIN files
      BY <1>2, LenProperties DEF Init
    <3>2. QED
      BY <3>1, TextOfPrintable DEF Init
  <2>2. TextOf(FlattenSeq(down)) = <<>> /\ buffer = <<>>
    BY TextOfPrintable, FlattenEmpty DEF Init
  <2>3. TextOf(up) = <<>>
    BY TextOfRequest, OthersAreNoText DEF Init, Requests, Reset
  <2>4. FirstLines(file, line - 1) = <<>>
    <3>1. line - 1 = 0
      BY DEF Init
    <3>2. QED
      BY <3>1, FirstLinesNone
  <2>5. <<>> \o <<>> = <<>>
    BY EmptySeq, ConcatEmptySeq
  <2>6. QED
    BY <2>1, <2>2, <2>3, <2>4, <2>5
<1>6. SectionsMatch
  BY <1>2, LenProperties DEF Init, SectionsMatch
<1>7. Document /\ Left
  BY DEF Init, Document, Left, Reset
<1>8. QED
  BY <1>1, <1>3, <1>4, <1>5, <1>6, <1>7 DEF SessionInv

-------------------------------------------------------------------------------
(***************************************************************************)
(* The steps.                                                              *)
(***************************************************************************)
LEMMA SameFiles ==
    ASSUME files' = files, mode' = mode
    PROVE  /\ TextLines' = TextLines
           /\ Requests' = Requests /\ Printable' = Printable
           /\ \A f, n : FirstLines(f, n)' = FirstLines(f, n)
           /\ \A f, text : OwnSection(f, text)' = OwnSection(f, text)
<1>1. TextLines' = TextLines
  BY DEF TextLines
<1>2. \A f, n : FirstLines(f, n)' = FirstLines(f, n)
  BY <1>1 DEF FirstLines, TextOf, Message, Text
<1>3. \A n : DocumentEnds(n)' = DocumentEnds(n)
  BY DEF DocumentEnds
<1>4. \A f, text : OwnSection(f, text)' = OwnSection(f, text)
  BY <1>2, <1>3 DEF OwnSection, FileLines
<1>5. QED
  BY <1>1, <1>2, <1>4 DEF Requests, Printable, Empty, Reset, PrintStats, Flush

\* An answer on its way is the only message.
LEMMA AnswerAlone ==
    ASSUME SessionInv, down # <<>>
    PROVE  /\ up = <<>> /\ Tail(down) = <<>> /\ Head(down) \in Seq(Printable)
           /\ TextOf(FlattenSeq(down)) = TextOf(Head(down))
<1>1. down = <<Head(down)>>
  BY DEF SessionInv, Turns, OneOf
<1>2. TextOf(FlattenSeq(<<Head(down)>>)) = TextOf(Head(down))
  BY OnlyFlatten DEF TextOf
<1>3. QED
  BY <1>1, <1>2, TailOfOne DEF SessionInv, Turns, Types

\* What has been counted in a session that goes on.
LEMMA Counted ==
    ASSUME SessionInv, mode # "ident", file <= Len(files), ~ClientGone
    PROVE  /\ file \in DOMAIN files /\ file \in 1 .. Len(files) /\ Len(files[file]) \in Nat
           /\ wpc = "read" =>
                /\ Cat(Cat(Cat(TextOf(out[file]), TextOf(FlattenSeq(down))), buffer), TextOf(up))
                     = FirstLines(file, line - 1)
                /\ FirstLines(file, line - 1) \in Seq(TextLines)
           /\ TextOf(out[file]) \in Seq(TextLines)
           /\ TextOf(FlattenSeq(down)) \in Seq(TextLines)
           /\ TextOf(up) \in Seq(TextLines)
           /\ Cat(Cat(TextOf(out[file]), TextOf(FlattenSeq(down))), buffer) \in Seq(TextLines)
           /\ down = <<>> => TextOf(FlattenSeq(down)) = <<>>
           /\ up = <<>> => TextOf(up) = <<>>
<1>1. file \in DOMAIN files /\ file \in 1 .. Len(files) /\ Len(files[file]) \in Nat
  BY ElementOfSeq, LenProperties DEF SessionInv, Types
<1>2. wpc = "read" =>
        Cat(Cat(Cat(TextOf(out[file]), TextOf(FlattenSeq(down))), buffer), TextOf(up))
          = FirstLines(file, line - 1)
  BY DEF SessionInv, LinesConserved, Cat
<1>3. TextOf(out[file]) \in Seq(TextLines)
  BY <1>1, TextOfPrintable DEF SessionInv, Types
<1>4. down = <<>> => TextOf(FlattenSeq(down)) = <<>>
  BY OnlyFlatten DEF TextOf
<1>5. TextOf(FlattenSeq(down)) \in Seq(TextLines)
  <2>1. CASE down = <<>>
    BY <1>4, <2>1, EmptySeq
  <2>2. CASE down # <<>>
    BY <2>2, AnswerAlone, TextOfPrintable
  <2>3. QED
    BY <2>1, <2>2
<1>6. up = <<>> => TextOf(up) = <<>>
  BY TextOfPrintable
<1>7. TextOf(up) \in Seq(TextLines)
  <2>1. CASE up = <<>>
    BY <1>6, <2>1, EmptySeq
  <2>2. CASE up # <<>>
    <3>1. up = <<Head(up)>> /\ Head(up) \in Requests
      BY <2>2 DEF SessionInv, Turns, Types, OneOf
    <3>2. TextOf(<<Head(up)>>) \in Seq(TextLines)
      BY <3>1, TextOfRequest
    <3>3. QED
      BY <3>1, <3>2
  <2>3. QED
    BY <2>1, <2>2
<1>8. Cat(Cat(TextOf(out[file]), TextOf(FlattenSeq(down))), buffer) \in Seq(TextLines)
  <2>1. buffer \in Seq(TextLines)
    BY DEF SessionInv, Types
  <2>2. QED
    BY <1>3, <1>5, <2>1, CatLaws
<1>9. wpc = "read" => FirstLines(file, line - 1) \in Seq(TextLines)
  BY <1>2, <1>7, <1>8, CatLaws
<1>10. QED
  BY <1>1, <1>2, <1>3, <1>4, <1>5, <1>6, <1>7, <1>8, <1>9

\* The worker of a document reads no command to flush but the one at its end.
LEMMA DocumentStep == SessionInv /\ [Next]_vars => Document'
<1> SUFFICES ASSUME SessionInv, [Next]_vars,
                    mode' = "doc", wpc' = "read", ~ClientGone'
             PROVE  Document'
  BY DEF Document
<1>1. /\ mode' = mode /\ files' = files /\ mode = "doc"
      /\ \A f, i : Message(f, i)' = Message(f, i)
  BY FilesKept DEF Message, Text
<1>2. wpc = "read" /\ ~ClientGone
  BY DEF Next, ClientStep, WorkerStep, vars, client, worker, Kill, Synchronize,
         SendLine, SendFlush, ReceiveAnswer, ReceiveFlushed, ReceiveNothing,
         ClientFails, CloseClient, Identify, CheckStatsCommands, AnalyzeText,
         FlushText, LoadLine, FlushDocument, AddColumns, EndSentence, EndOfInput,
         WriteFails, ClientGone
<1>3. /\ file = 1 /\ line \in Nat \ {0}
      /\ cpc = "sync" => line = 1 /\ (up # <<>> => Head(up) = Reset)
      /\ cpc = "flush" => up # <<>> /\ Head(up) = Flush
      /\ cpc = "wait" /\ up # <<>> => line > 1 /\ Head(up) = Message(1, line - 1)
      /\ \A i \in 1 .. line - 1 : 1 <= Len(files) /\ files[1][i] = "FLUSH_BUFFER"
                                      => i = line - 1 /\ up # <<>>
      /\ cpc = "send" => up = <<>>
      /\ up # <<>> => Tail(up) = <<>>
      /\ cpc \in {"wait", "flush"} => file <= Len(files)
      /\ down # <<>> => up = <<>>
  BY <1>1, <1>2, TailOfOne DEF SessionInv, Document, Place, Types, Turns
<1>4. CASE UNCHANGED vars
  BY <1>1, <1>2, <1>3, <1>4 DEF Document, vars, client, worker
<1>5. CASE Synchronize \/ ReceiveAnswer
  <2>1. /\ UNCHANGED <<file, line, up>> /\ up = <<>> /\ cpc' = "send"
    BY <1>3, <1>5 DEF Synchronize, ReceiveAnswer, Answered, ClientGone
  <2>2. QED
    BY <1>1, <1>3, <2>1 DEF Document
<1>6. CASE SendLine
  <2>1. /\ UNCHANGED <<file>> /\ line' = line + 1 /\ cpc' = "wait"
        /\ up = <<>> /\ up' = Append(up, Message(1, line))
    BY <1>2, <1>3, <1>6 DEF SendLine, Send
  <2>2. up' # <<>> /\ Head(up') = Message(1, line)
    BY <2>1
  <2>3. line' > 1 /\ line' - 1 = line /\ \A i \in 1 .. line : i = line \/ i \in 1 .. line - 1
    BY <1>3, <2>1
  <2>4. QED
    BY <1>1, <1>3, <2>1, <2>2, <2>3 DEF Document
<1>7. CASE SendFlush
  <2>1. /\ UNCHANGED <<file, line>> /\ cpc' = "flush"
        /\ up = <<>> /\ up' = Append(up, Flush)
    BY <1>2, <1>3, <1>7 DEF SendFlush, Send
  <2>2. up' # <<>>
    BY <2>1
  <2>3. QED
    BY <1>1, <1>3, <2>1, <2>2 DEF Document
<1>8. CASE ReceiveFlushed
  BY <1>3, <1>8 DEF ReceiveFlushed, Answered
<1>9. CASE CheckStatsCommands \/ LoadLine
  <2>1. /\ UNCHANGED <<file, line, cpc>> /\ up # <<>> /\ up' = <<>>
        /\ Head(up) \in TextLines \cup {Reset, PrintStats, Empty}
    BY <1>3, <1>9 DEF CheckStatsCommands, LoadLine, Read, ReadText, client
  <2>2. Head(up) # Flush
    <3>1. Flush \notin TextLines
      BY OthersAreNoText DEF Flush
    <3>2. Flush \notin {Reset, PrintStats, Empty}
      BY DEF Reset, PrintStats, Empty, Flush
    <3>3. QED
      BY <2>1, <3>1, <3>2
  <2>3. cpc = "wait" => \A i \in 1 .. line - 1 :
            ~(1 <= Len(files) /\ files[1][i] = "FLUSH_BUFFER")
    BY <1>3, <2>1, <2>2 DEF Message, Flush
  <2>4. cpc \in {"sync", "wait"}
    <3>1. cpc \in {"sync", "send", "wait", "flush"}
      BY <1>2 DEF SessionInv, Types, ClientGone
    <3>2. QED
      BY <1>3, <2>1, <2>2, <3>1
  <2>5. QED
    BY <1>1, <1>3, <2>1, <2>3, <2>4 DEF Document
<1>10. QED
  BY <1>1, <1>2, <1>4, <1>5, <1>6, <1>7, <1>8, <1>9
  DEF Next, ClientStep, WorkerStep, Kill, ReceiveNothing, HungUp, ClientFails, CloseClient,
      ClientGone, Identify, AnalyzeText, FlushText, FlushDocument, AddColumns, EndSentence,
      EndOfInput, WriteFails

\* A command to flush is the end of the document.
LEMMA DocumentEnded ==
    ASSUME SessionInv, mode = "doc", wpc = "read", ~ClientGone, up # <<>>, Head(up) = Flush
    PROVE  file = 1 /\ DocumentEnds(line - 1)
<1>1. /\ file = 1 /\ line \in Nat \ {0}
      /\ cpc \in {"wait", "flush"} => file <= Len(files)
      /\ file <= Len(files) => line <= Len(files[file]) + 1
      /\ cpc = "flush" => line = Len(files[1]) + 1
      /\ cpc = "wait" => line > 1 /\ Head(up) = Message(1, line - 1)
      /\ \A i \in 1 .. line - 1 : 1 <= Len(files) /\ files[1][i] = "FLUSH_BUFFER"
                                      => i = line - 1
  BY DEF SessionInv, Document, Place, Types
<1>2. cpc \in {"wait", "flush"}
  <2>1. cpc \in {"sync", "send", "wait", "flush"}
    BY DEF SessionInv, Types, ClientGone
  <2>2. cpc # "sync"
    BY DEF SessionInv, Document, Reset, Flush
  <2>3. cpc # "send"
    BY DEF SessionInv, Turns
  <2>4. QED
    BY <2>1, <2>2, <2>3
<1>3. Len(files[1]) \in Nat /\ 1 <= Len(files)
  BY <1>1, <1>2, ElementOfSeq, LenProperties DEF SessionInv, Types
<1>4. cpc = "wait" => files[1][line - 1] = "FLUSH_BUFFER"
  <2>1. Text(1, line - 1) # Flush
    BY DEF Text, Flush
  <2>2. \A x : <<x>> = Flush => x = "FLUSH_BUFFER"
    BY DEF Flush
  <2>3. QED
    BY <1>1, <1>3, <2>1, <2>2 DEF Message
<1>5. \A i \in 1 .. (line - 1) - 1 : files[1][i] # "FLUSH_BUFFER"
  BY <1>1, <1>3
<1>6. QED
  BY <1>1, <1>2, <1>3, <1>4, <1>5 DEF DocumentEnds

\* The worker answers with lines it was sent, keeps the others, and keeps none
\* at a flush or when it exits.
LEMMA WorkerKeepsLines ==
    ASSUME SessionInv, [Next]_vars, UNCHANGED <<client, mode>>,
           up # <<>>, up' = Tail(up),
           NEW a \in Seq(Printable), down' = <<a>> \/ (down' = <<>> /\ a = <<>>),
           mode = "ident" => a # Ready,
           buffer' \in Seq(TextLines),
           mode # "ident" => Cat(TextOf(a), buffer') = Cat(buffer, TextOf(up)),
           cpc = "flush" \/ wpc' = "exited" => buffer' = <<>>,
           wpc = "read", wpc' \in {"read", "exited"},
           wpc' = "exited" => mode = "doc" /\ (~ClientGone => file = 1 /\ DocumentEnds(line - 1))
    PROVE  SessionInv'
<1>1. /\ mode' = mode
      /\ files' = files /\ cpc' = cpc /\ file' = file /\ line' = line /\ out' = out
      /\ TextLines' = TextLines /\ Requests' = Requests /\ Printable' = Printable
      /\ \A f, n : FirstLines(f, n)' = FirstLines(f, n)
      /\ \A f, text : OwnSection(f, text)' = OwnSection(f, text)
  BY SameFiles DEF client
<1>2. Turns' /\ up' = <<>> /\ down = <<>>
  BY TurnsStep, TailOfOne DEF SessionInv, Turns
<1>3. Types'
  BY <1>1, <1>2 DEF SessionInv, Types
<1>4. Place'
  BY <1>1, <1>2 DEF SessionInv, Place, ClientGone
<1>5. SectionsMatch' /\ Document'
  BY <1>1, DocumentStep DEF SessionInv, SectionsMatch, TextOf
<1>6. ASSUME mode # "ident", file <= Len(files), ~ClientGone
      PROVE  /\ TextOf(out[file]) \in Seq(TextLines) /\ TextOf(a) \in Seq(TextLines)
             /\ TextOf(FlattenSeq(down')) = TextOf(a) /\ TextOf(up') = <<>>
             /\ Cat(Cat(TextOf(out[file]), TextOf(a)), buffer') = FirstLines(file, line - 1)
  <2> DEFINE o == TextOf(out[file])
             u == TextOf(up)
             b == TextOf(a)
  <2>1. Cat(Cat(Cat(o, TextOf(FlattenSeq(down))), buffer), u) = FirstLines(file, line - 1)
    BY <1>6, Counted
  <2>2. /\ TextOf(FlattenSeq(down)) = <<>> /\ TextOf(FlattenSeq(down')) = b
        /\ TextOf(up') = <<>>
    BY <1>2, OnlyFlatten, TextOfPrintable, FlattenEmpty DEF TextOf
  <2>3. o \in Seq(TextLines) /\ buffer \in Seq(TextLines) /\ b \in Seq(TextLines) /\ u \in Seq(TextLines)
    BY <1>6, Counted, TextOfPrintable DEF SessionInv, Types
  <2>4. Cat(b, buffer') = Cat(buffer, u)
    BY <1>6
  <2> HIDE DEF o, u, b
  <2>5. Cat(Cat(o, b), buffer') = Cat(Cat(o, buffer), u)
    BY <2>3, <2>4, CatLaws
  <2>6. Cat(o, <<>>) = o /\ Cat(Cat(Cat(o, b), buffer'), <<>>) = Cat(Cat(o, b), buffer')
    BY <2>3, CatLaws
  <2>7. QED
    BY <1>6, <2>1, <2>2, <2>3, <2>5, <2>6 DEF o, u, b
<1>7. LinesConserved'
  <2> SUFFICES ASSUME mode # "ident", file <= Len(files), ~ClientGone
               PROVE  Cat(Cat(Cat(TextOf(out[file]), TextOf(FlattenSeq(down'))), buffer'), TextOf(up'))
                        = FirstLines(file, line - 1)
    BY <1>1 DEF LinesConserved, ClientGone, TextOf, Cat
  <2>1. Cat(Cat(Cat(TextOf(out[file]), TextOf(a)), buffer'), <<>>)
          = Cat(Cat(TextOf(out[file]), TextOf(a)), buffer')
    BY <1>6, CatLaws
  <2>2. QED
    BY <1>6, <2>1
<1>8. Left'
  <2> SUFFICES ASSUME wpc' = "exited", ~ClientGone
               PROVE  mode = "doc" /\ (file <= Len(files) =>
                        OwnSection(file, Cat(TextOf(out[file]), TextOf(FlattenSeq(down')))))
    BY <1>1 DEF Left, ClientGone, TextOf
  <2>1. mode = "doc" /\ file = 1 /\ DocumentEnds(line - 1) /\ buffer' = <<>>
    OBVIOUS
  <2>2. ASSUME file <= Len(files)
        PROVE  Cat(TextOf(out[file]), TextOf(FlattenSeq(down'))) = FirstLines(1, line - 1)
    <3>1. Cat(Cat(TextOf(out[file]), TextOf(a)), <<>>) = Cat(TextOf(out[file]), TextOf(a))
      BY <1>6, <2>1, <2>2, CatLaws
    <3>2. QED
      BY <1>6, <2>1, <2>2, <3>1
  <2>3. line - 1 \in 0 .. Len(files[1])
    BY <2>1 DEF DocumentEnds
  <2>4. QED
    BY <2>1, <2>2, <2>3 DEF OwnSection
<1>9. QED
  BY <1>2, <1>3, <1>4, <1>5, <1>7, <1>8 DEF SessionInv

LEMMA WorkerSession == SessionInv /\ WorkerStep => SessionInv'
<1> SUFFICES ASSUME SessionInv, WorkerStep PROVE SessionInv'
  OBVIOUS
<1>1. /\ [Next]_vars
      /\ buffer \in Seq(TextLines) /\ buffer \in Seq(Printable) /\ TextOf(buffer) = buffer
      /\ <<>> \in Seq(Printable) /\ <<>> \in Seq(TextLines) /\ TextOf(<<>>) = <<>>
      /\ mode = "ident" => cpc # "flush"
  BY TextOfPrintable, EmptySeq DEF Next, SessionInv, Types, Place
<1>2. ASSUME up # <<>>
      PROVE  /\ down = <<>> /\ \A a : Append(down, a) = <<a>>
             /\ up = <<Head(up)>> /\ Head(up) \in Requests
             /\ Head(up) \in TextLines => TextOf(up) = <<Head(up)>>
             /\ Head(up) \notin TextLines => TextOf(up) = <<>>
             /\ TextOf(up) \in Seq(TextLines)
             /\ cpc = "flush" => Head(up) = Flush
  <2>1. up = <<Head(up)>> /\ Head(up) \in Requests
    BY <1>2 DEF SessionInv, Turns, OneOf, Types
  <2>2. /\ TextOf(<<Head(up)>>) = IF Head(up) \in TextLines THEN <<Head(up)>> ELSE <<>>
        /\ TextOf(<<Head(up)>>) \in Seq(TextLines)
    BY <2>1, TextOfRequest
  <2>3. down = <<>>
    BY <1>2 DEF SessionInv, Turns
  <2>4. QED
    BY <1>2, <2>1, <2>2, <2>3 DEF SessionInv, Place
<1>3. /\ Empty \notin TextLines /\ Reset \notin TextLines
      /\ PrintStats \notin TextLines /\ Flush \notin TextLines
      /\ Empty # Flush /\ Reset # Flush /\ PrintStats # Flush
  BY OthersAreNoText DEF Empty, Reset, PrintStats, Flush
<1>4. CASE Identify
  <2> DEFINE a == Language
  <2>1. a \in Seq(Printable) /\ a # Ready
    BY DEF Language, Ready, Printable
  <2>2. QED
    BY <1>1, <1>2, <1>4, <2>1, WorkerKeepsLines DEF Identify, Answer
<1>5. CASE CheckStatsCommands
  <2>1. PICK a \in {Ready, Stats} : down' = Append(down, a)
    BY <1>5 DEF CheckStatsCommands, Answer
  <2>2. a \in Seq(Printable) /\ TextOf(a) = <<>>
    <3>1. <<"stats">> \in Printable /\ <<"stats">> \notin TextLines
      BY OthersAreNoText DEF Printable
    <3>2. Stats \in Seq(Printable) /\ TextOf(Stats) = <<>>
      BY <3>1, OnlyOne DEF Stats, TextOf
    <3>3. QED
      BY <1>1, <3>2 DEF Ready
  <2>3. /\ up # <<>> /\ up' = Tail(up) /\ Head(up) \in {Reset, PrintStats}
        /\ mode # "ident" /\ wpc = "read" /\ UNCHANGED <<client, mode, wpc, buffer>>
    BY <1>5 DEF CheckStatsCommands, Read
  <2>4. Cat(TextOf(a), buffer') = Cat(buffer, TextOf(up))
    <3>1. TextOf(up) = <<>> /\ buffer' = buffer
      BY <1>2, <1>3, <2>3
    <3>2. Cat(<<>>, buffer) = buffer /\ Cat(buffer, <<>>) = buffer
      BY <1>1, CatLaws
    <3>3. QED
      BY <2>2, <3>1, <3>2
  <2>5. QED
    BY <1>1, <1>2, <1>3, <2>1, <2>2, <2>3, <2>4, WorkerKeepsLines
<1>6. CASE AnalyzeText \/ LoadLine
  <2> DEFINE held == IF Head(up) = Empty THEN buffer ELSE Append(buffer, Head(up))
  <2>1. /\ up # <<>> /\ up' = Tail(up) /\ Head(up) \in TextLines \cup {Empty}
        /\ mode # "ident" /\ wpc = "read" /\ UNCHANGED <<client, mode, wpc>>
    BY <1>6 DEF AnalyzeText, LoadLine, Read, ReadText
  <2>2. held = Cat(buffer, TextOf(up)) /\ held \in Seq(TextLines)
    <3>1. CASE Head(up) = Empty
      BY <1>1, <1>2, <1>3, <2>1, <3>1, CatLaws
    <3>2. CASE Head(up) \in TextLines
      <4>1. Append(buffer, Head(up)) = Cat(buffer, <<Head(up)>>)
        BY <1>1, <3>2, CatAppend
      <4>2. Append(buffer, Head(up)) \in Seq(TextLines)
        BY <1>1, <3>2, AppendProperties
      <4>3. QED
        BY <1>2, <1>3, <2>1, <3>2, <4>1, <4>2
    <3>3. QED
      BY <2>1, <3>1, <3>2
  <2>3. \E n \in 0 .. Len(held) :
            /\ down' = Append(down, SubSeq(held, 1, n))
            /\ buffer' = SubSeq(held, n + 1, Len(held))
    <3>1. CASE AnalyzeText
      BY <3>1 DEF AnalyzeText, Answer
    <3>2. CASE LoadLine
      <4>1. held \in Seq(TextLines) /\ Len(held) \in Nat
        BY <2>2, LenProperties
      <4>2. buffer' = held /\ down' = Append(down, <<>>)
        BY <3>2 DEF LoadLine, Answer, Ready
      <4> HIDE DEF held
      <4>3. SubSeq(held, 1, 0) = <<>> /\ SubSeq(held, 0 + 1, Len(held)) = held
        BY <4>1, SubSeqEmpty, SubSeqFull
      <4>4. 0 \in 0 .. Len(held)
        BY <4>1
      <4>5. QED
        BY <4>2, <4>3, <4>4
    <3>3. QED
      BY <1>6, <3>1, <3>2
  <2> HIDE DEF held
  <2>4. PICK n \in 0 .. Len(held) :
            /\ down' = Append(down, SubSeq(held, 1, n))
            /\ buffer' = SubSeq(held, n + 1, Len(held))
    BY <2>3
  <2> DEFINE a == SubSeq(held, 1, n)
  <2>5. a \in Seq(TextLines) /\ buffer' \in Seq(TextLines) /\ Cat(a, buffer') = held
    BY <2>2, <2>4, SplitAt, CatSplit
  <2> HIDE DEF a
  <2>6. down' = <<a>>
    BY <1>2, <2>1, <2>4 DEF a
  <2>7. a \in Seq(Printable) /\ TextOf(a) = a
    BY <2>5, TextOfPrintable
  <2>8. QED
    BY <1>1, <1>2, <1>3, <2>1, <2>2, <2>5, <2>6, <2>7, WorkerKeepsLines
<1>7. CASE FlushText \/ FlushDocument \/ EndSentence
  <2>1. /\ up # <<>> /\ up' = Tail(up) /\ Head(up) \in {Flush, Empty}
        /\ mode # "ident" /\ wpc = "read" /\ UNCHANGED <<client, mode>>
        /\ down' = Append(down, buffer) /\ buffer' = <<>>
    BY <1>7 DEF FlushText, FlushDocument, EndSentence, Read, Answer
  <2>2. Cat(TextOf(buffer), buffer') = Cat(buffer, TextOf(up))
    BY <1>1, <1>2, <1>3, <2>1
  <2>3. wpc' = "exited" => mode = "doc" /\ (~ClientGone => file = 1 /\ DocumentEnds(line - 1))
    <3>1. CASE FlushDocument
      <4>1. mode = "doc" /\ wpc = "read" /\ up # <<>> /\ Head(up) = Flush
        BY <3>1 DEF FlushDocument, Read
      <4>2. QED
        BY <4>1, DocumentEnded
    <3>2. CASE FlushText \/ EndSentence
      <4>1. wpc' = "read"
        BY <2>1, <3>2 DEF FlushText, EndSentence
      <4>2. QED
        BY <4>1
    <3>3. QED
      BY <1>7, <3>1, <3>2
  <2>4. wpc' \in {"read", "exited"}
    BY <1>7, <2>1 DEF FlushText, FlushDocument, EndSentence
  <2>5. QED
    BY <1>1, <1>2, <2>1, <2>2, <2>3, <2>4, WorkerKeepsLines
<1>8. CASE AddColumns
  <2>1. /\ up # <<>> /\ up' = Tail(up) /\ Head(up) \in TextLines
        /\ mode # "ident" /\ wpc = "read" /\ UNCHANGED <<client, mode, wpc, down>>
        /\ buffer' = Append(buffer, Head(up))
    BY <1>8 DEF AddColumns, ReadText
  <2>2. buffer' = Cat(buffer, <<Head(up)>>) /\ buffer' \in Seq(TextLines)
    BY <1>1, <2>1, CatAppend, AppendProperties
  <2>3. Cat(TextOf(<<>>), buffer') = Cat(buffer, TextOf(up))
    BY <1>1, <1>2, <2>1, <2>2, CatLaws
  <2>4. QED
    BY <1>1, <1>2, <1>3, <2>1, <2>2, <2>3, WorkerKeepsLines
<1>9. CASE EndOfInput \/ WriteFails
  <2>1. /\ UNCHANGED <<client, mode, up, down>> /\ ClientGone
        /\ buffer' \in {<<>>, buffer} /\ wpc' = "exited"
    BY <1>9 DEF EndOfInput, WriteFails
  <2>2. /\ files' = files /\ cpc' = cpc /\ file' = file /\ line' = line /\ out' = out
        /\ up' = up /\ down' = down
        /\ TextLines' = TextLines /\ Requests' = Requests /\ Printable' = Printable
        /\ \A f, n : FirstLines(f, n)' = FirstLines(f, n)
        /\ \A f, text : OwnSection(f, text)' = OwnSection(f, text)
    BY <2>1, SameFiles DEF client
  <2>3. Turns'
    BY <1>1, TurnsStep DEF SessionInv
  <2>4. Types'
    BY <1>1, <2>1, <2>2 DEF SessionInv, Types
  <2>5. Place' /\ LinesConserved' /\ Document' /\ Left'
    BY <2>1, <2>2 DEF SessionInv, Place, LinesConserved, Document, Left, ClientGone
  <2>6. SectionsMatch'
    BY <2>2 DEF SessionInv, SectionsMatch, TextOf
  <2>7. QED
    BY <2>3, <2>4, <2>5, <2>6 DEF SessionInv
<1>10. QED
  BY <1>4, <1>5, <1>6, <1>7, <1>8, <1>9 DEF WorkerStep

\* The client, when it is gone.
LEMMA ClientGoes ==
    ASSUME SessionInv, Turns', UNCHANGED <<files, file, line, out, worker, up>>, ClientGone',
           down' = down \/ down' = <<>>, mode = "ident" => cpc' # "done"
    PROVE  SessionInv'
<1>1. /\ files' = files /\ file' = file /\ line' = line /\ out' = out
      /\ mode' = mode /\ buffer' = buffer /\ up' = up /\ wpc' = wpc
      /\ TextLines' = TextLines /\ Requests' = Requests /\ Printable' = Printable
      /\ \A f, n : FirstLines(f, n)' = FirstLines(f, n)
      /\ \A f, text : OwnSection(f, text)' = OwnSection(f, text)
  BY SameFiles DEF worker
<1>2. Types' /\ Place'
  BY <1>1 DEF SessionInv, Types, Place, ClientGone
<1>3. LinesConserved' /\ Document' /\ Left'
  BY DEF LinesConserved, Document, Left
<1>4. SectionsMatch'
  BY <1>1 DEF SessionInv, SectionsMatch, TextOf
<1>5. QED
  BY <1>2, <1>3, <1>4 DEF SessionInv

\* An answer is added to what was printed for its file.
LEMMA Printing ==
    ASSUME SessionInv, down # <<>>, file <= Len(files), PrintAnswer(Head(down))
    PROVE  /\ out' \in [DOMAIN files -> Seq(Printable)]
           /\ \A f \in DOMAIN files : f # file => out'[f] = out[f]
           /\ TextOf(out'[file]) = Cat(TextOf(out[file]), TextOf(FlattenSeq(down)))
<1>1. file \in DOMAIN files /\ out \in [DOMAIN files -> Seq(Printable)]
  BY LenProperties DEF SessionInv, Types
<1> DEFINE a == Head(down)
<1>2. out[file] \in Seq(Printable) /\ a \in Seq(Printable) /\ TextOf(FlattenSeq(down)) = TextOf(a)
  BY <1>1, AnswerAlone
<1>3. out' = [out EXCEPT ![file] = Cat(out[file], a)]
  <2>1. CASE a = Ready
    <3>1. Cat(out[file], a) = out[file]
      BY <1>2, <2>1, CatLaws DEF Ready
    <3>2. out' = out
      BY <2>1 DEF PrintAnswer
    <3>3. QED
      BY <1>1, <3>1, <3>2
  <2>2. CASE a # Ready
    BY <2>2 DEF PrintAnswer, Cat
  <2>3. QED
    BY <2>1, <2>2
<1> HIDE DEF a
<1>4. Cat(out[file], a) \in Seq(Printable)
  BY <1>2, CatLaws
<1>5. TextOf(Cat(out[file], a)) = Cat(TextOf(out[file]), TextOf(a))
  BY <1>2, OnlyCat DEF TextOf
<1>6. QED
  BY <1>1, <1>2, <1>3, <1>4, <1>5

\* The client goes on with the next file when all of this one is printed.
LEMMA NextFile ==
    ASSUME SessionInv, Turns', cpc = "flush", cpc' = "send",
           file' = file + 1, line' = 1, UNCHANGED <<files, worker, up>>,
           down' = <<>>, wpc = "read" => mode # "doc" /\ buffer = <<>> /\ TextOf(up) = <<>>,
           out' \in [DOMAIN files -> Seq(Printable)],
           \A f \in DOMAIN files : f # file => out'[f] = out[f],
           OwnSection(file, TextOf(out'[file]))
    PROVE  SessionInv'
<1>1. /\ files' = files /\ mode' = mode /\ buffer' = buffer /\ up' = up /\ wpc' = wpc
      /\ TextLines' = TextLines /\ Requests' = Requests /\ Printable' = Printable
      /\ \A f, n : FirstLines(f, n)' = FirstLines(f, n)
      /\ \A f, text : OwnSection(f, text)' = OwnSection(f, text)
  BY SameFiles DEF worker
<1>2. /\ file \in 1 .. Len(files) /\ Len(files) \in Nat /\ DOMAIN files = 1 .. Len(files)
      /\ mode # "ident" /\ ~ClientGone
  BY LenProperties DEF SessionInv, Types, Place, ClientGone
<1>3. Types'
  <2>1. file + 1 \in 1 .. Len(files) + 1
    BY <1>2
  <2>2. up # <<>> => Head(up) \in Requests
    BY DEF SessionInv, Types
  <2>3. QED
    BY <1>1, <2>1, <2>2 DEF SessionInv, Types
<1>4. Place'
  <2>1. \A f \in 1 .. Len(files) : Len(files[f]) \in Nat
    BY ElementOfSeq, LenProperties DEF SessionInv, Types
  <2>2. file + 1 <= Len(files) => 1 <= Len(files[file + 1]) + 1
    BY <1>2, <2>1
  <2>3. QED
    BY <1>1, <1>2, <2>2 DEF Place, ClientGone
<1>5. SectionsMatch'
  <2>1. \A f \in DOMAIN files : f < file => OwnSection(f, TextOf(out'[f]))
    BY <1>2 DEF SessionInv, SectionsMatch
  <2>2. \A f \in DOMAIN files : f < file + 1 => OwnSection(f, TextOf(out'[f]))
    BY <1>2, <2>1
  <2>3. \A f \in DOMAIN files : f > file + 1 => out'[f] = <<>>
    BY <1>2 DEF SessionInv, SectionsMatch
  <2>4. QED
    BY <1>1, <2>2, <2>3 DEF SectionsMatch, TextOf
<1>6. ASSUME file + 1 <= Len(files)
      PROVE  out'[file + 1] = <<>> /\ TextOf(out'[file + 1]) = <<>> /\ TextOf(FlattenSeq(<<>>)) = <<>>
  <2>1. out'[file + 1] = <<>>
    BY <1>2, <1>6 DEF SessionInv, SectionsMatch
  <2>2. QED
    BY <2>1, TextOfPrintable, OnlyFlatten DEF TextOf
<1>7. LinesConserved'
  <2> SUFFICES ASSUME file + 1 <= Len(files), wpc = "read"
               PROVE  Cat(Cat(Cat(TextOf(out'[file + 1]), TextOf(FlattenSeq(<<>>))), <<>>), TextOf(up))
                        = FirstLines(file + 1, 0)
    BY <1>1 DEF LinesConserved, TextOf, Cat
  <2>1. out'[file + 1] = <<>>
    BY <1>6
  <2>2. TextOf(<<>>) = <<>> /\ TextOf(FlattenSeq(<<>>)) = <<>> /\ FirstLines(file + 1, 0) = <<>>
    BY TextOfPrintable, OnlyFlatten, FirstLinesNone DEF TextOf
  <2>3. Cat(<<>>, <<>>) = <<>>
    BY CatLaws
  <2>4. QED
    BY <2>1, <2>2, <2>3
<1>8. Left'
  <2> SUFFICES ASSUME wpc = "exited", file + 1 <= Len(files)
               PROVE  OwnSection(file + 1, Cat(TextOf(out'[file + 1]), TextOf(FlattenSeq(<<>>))))
    BY <1>1, <1>2 DEF SessionInv, Left, TextOf
  <2>1. mode = "doc" /\ file + 1 # 1
    BY <1>2 DEF SessionInv, Left
  <2>2. Cat(<<>>, <<>>) = <<>>
    BY CatLaws
  <2>3. QED
    BY <1>6, <2>1, <2>2 DEF OwnSection
<1>9. Document'
  BY <1>1 DEF Document
<1>10. QED
  BY <1>3, <1>4, <1>5, <1>7, <1>8, <1>9 DEF SessionInv

LEMMA ClientSession == SessionInv /\ (ClientStep \/ Kill) => SessionInv'
<1> SUFFICES ASSUME SessionInv, ClientStep \/ Kill PROVE SessionInv'
  OBVIOUS
<1>1. Turns' /\ Document' /\ [Next]_vars
  BY TurnsStep, DocumentStep DEF SessionInv, Next
<1>2. CASE ClientFails \/ CloseClient \/ Kill
  <2>1. UNCHANGED <<files, file, line, out, worker, up, down>> /\ ClientGone'
    BY <1>2 DEF ClientFails, CloseClient, Kill, ClientGone
  <2>2. mode = "ident" => cpc' # "done"
    BY <1>2 DEF ClientFails, CloseClient, Kill, SessionInv, Place
  <2>3. QED
    BY <1>1, <2>1, <2>2, ClientGoes
<1>3. CASE Synchronize
  <2>1. /\ UNCHANGED <<files, file, line, out, worker, up>> /\ down # <<>> /\ down' = <<>>
        /\ cpc = "sync" /\ cpc' = IF Head(down) = Ready THEN "send" ELSE "failed"
    BY <1>3, AnswerAlone DEF Synchronize, Answered
  <2>2. CASE Head(down) # Ready
    BY <1>1, <2>1, <2>2, ClientGoes DEF ClientGone
  <2>3. CASE Head(down) = Ready
    <3>1. /\ files' = files /\ file' = file /\ line' = line /\ out' = out
          /\ mode' = mode /\ buffer' = buffer /\ up' = up /\ wpc' = wpc
          /\ TextLines' = TextLines /\ Requests' = Requests /\ Printable' = Printable
          /\ \A f, n : FirstLines(f, n)' = FirstLines(f, n)
          /\ \A f, text : OwnSection(f, text)' = OwnSection(f, text)
      BY <2>1, SameFiles DEF worker
    <3>2. mode # "ident" /\ ~ClientGone
      BY <2>1, <2>3 DEF SessionInv, Place, ClientGone
    <3>3. Types' /\ Place'
      BY <2>1, <2>3, <3>1, <3>2 DEF SessionInv, Types, Place, ClientGone
    <3>4. SectionsMatch'
      BY <3>1 DEF SessionInv, SectionsMatch, TextOf
    <3>5. TextOf(FlattenSeq(down)) = <<>> /\ TextOf(FlattenSeq(<<>>)) = <<>>
      BY <2>1, <2>3, AnswerAlone, TextOfPrintable, OnlyFlatten DEF Ready, TextOf
    <3>6. LinesConserved' /\ Left'
      BY <2>1, <3>1, <3>2, <3>5 DEF SessionInv, LinesConserved, Left, TextOf
    <3>7. QED
      BY <1>1, <3>3, <3>4, <3>6 DEF SessionInv
  <2>4. QED
    BY <2>2, <2>3
<1>4. CASE SendLine \/ SendFlush
  <2>1. PICK m : /\ Send(m) /\ file <= Len(files) /\ cpc = "send"
                 /\ UNCHANGED <<files, file, out, worker, down>>
                 /\ \/ /\ m = Message(file, line) /\ line <= Len(files[file])
                       /\ line' = line + 1 /\ cpc' = "wait"
                    \/ /\ m = Flush /\ line > Len(files[file])
                       /\ line' = line /\ cpc' = "flush"
    BY <1>4 DEF SendLine, SendFlush
  <2>2. /\ files' = files /\ file' = file /\ out' = out
        /\ mode' = mode /\ buffer' = buffer /\ down' = down /\ wpc' = wpc
        /\ TextLines' = TextLines /\ Requests' = Requests /\ Printable' = Printable
        /\ \A f, n : FirstLines(f, n)' = FirstLines(f, n)
        /\ \A f, text : OwnSection(f, text)' = OwnSection(f, text)
    BY <2>1, SameFiles DEF worker
  <2>3. /\ mode # "ident" /\ ~ClientGone /\ down = <<>> /\ (wpc = "read" => up = <<>>)
        /\ line \in Nat \ {0} /\ line <= Len(files[file]) + 1
    BY <2>1 DEF SessionInv, Turns, Types, Place, ClientGone
  <2>4. file \in 1 .. Len(files) /\ Len(files[file]) \in Nat
    BY <2>1, <2>3, Counted
  <2>5. up' = <<m>> /\ m \in Requests
    <3>1. m = Flush => m \in Requests
      BY DEF Requests
    <3>2. line \in 1 .. Len(files[file]) => Message(file, line) \in Requests
      BY <2>4, MessageIsRequest DEF SessionInv, Types
    <3>3. up' = <<m>>
      <4>1. CASE wpc = "exited"
        BY <2>1, <4>1 DEF Send
      <4>2. CASE wpc = "read"
        BY <2>1, <2>3, <4>2 DEF Send
      <4>3. QED
        BY <4>1, <4>2 DEF SessionInv, Types
    <3>4. QED
      BY <2>1, <2>3, <2>4, <3>1, <3>2, <3>3
  <2>6. Types'
    BY <2>1, <2>2, <2>3, <2>5 DEF SessionInv, Types
  <2>7. Place'
    BY <2>1, <2>2, <2>3, <2>4, <2>5 DEF SessionInv, Place, ClientGone
  <2>8. SectionsMatch'
    BY <2>2 DEF SessionInv, SectionsMatch, TextOf
  <2>9. wpc = "read" =>
          FirstLines(file, line' - 1) = Cat(FirstLines(file, line - 1), TextOf(<<m>>))
    <3> SUFFICES ASSUME wpc = "read"
                 PROVE  FirstLines(file, line' - 1) = Cat(FirstLines(file, line - 1), TextOf(<<m>>))
      OBVIOUS
    <3>1. CASE m = Message(file, line) /\ line <= Len(files[file]) /\ line' = line + 1
      <4>1. line - 1 \in Nat /\ (line - 1) + 1 = line /\ line' - 1 = line
        BY <2>3, <3>1
      <4>2. FirstLines(file, (line - 1) + 1)
              = Cat(FirstLines(file, line - 1), TextOf(<<Message(file, (line - 1) + 1)>>))
        BY <2>4, <3>1, <4>1, FirstLinesNext DEF SessionInv, Types
      <4>3. QED
        BY <3>1, <4>1, <4>2
    <3>2. CASE m = Flush /\ line' = line
      <4>1. TextOf(<<Flush>>) = <<>>
        BY OthersAreNoText, TextOfRequest DEF Requests, Flush
      <4>2. FirstLines(file, line - 1) \in Seq(TextLines)
        BY <2>1, <2>3, Counted
      <4>3. QED
        BY <3>2, <4>1, <4>2, CatLaws
    <3>3. QED
      BY <2>1, <3>1, <3>2
  <2>10. LinesConserved'
    <3> SUFFICES ASSUME wpc = "read"
                 PROVE  Cat(Cat(Cat(TextOf(out[file]), TextOf(FlattenSeq(down))), buffer), TextOf(up'))
                          = FirstLines(file, line' - 1)
      BY <2>2 DEF LinesConserved, TextOf, Cat
    <3>1. Cat(Cat(Cat(TextOf(out[file]), TextOf(FlattenSeq(down))), buffer), <<>>)
            = FirstLines(file, line - 1)
      BY <2>1, <2>3, Counted
    <3>2. Cat(Cat(TextOf(out[file]), TextOf(FlattenSeq(down))), buffer) = FirstLines(file, line - 1)
      BY <2>1, <2>3, <3>1, Counted, CatLaws
    <3>3. QED
      BY <2>5, <2>9, <3>2
  <2>11. Left'
    BY <2>2, <2>3 DEF SessionInv, Left, TextOf
  <2>12. QED
    BY <1>1, <2>6, <2>7, <2>8, <2>10, <2>11 DEF SessionInv
<1>5. CASE ReceiveAnswer
  <2>1. /\ UNCHANGED <<files, file, line, worker, up>> /\ down # <<>> /\ down' = <<>>
        /\ cpc = "wait" /\ cpc' = "send" /\ PrintAnswer(Head(down)) /\ file <= Len(files)
    BY <1>5, AnswerAlone DEF ReceiveAnswer, Answered, SessionInv, Place
  <2>2. /\ files' = files /\ file' = file /\ line' = line
        /\ mode' = mode /\ buffer' = buffer /\ up' = up /\ wpc' = wpc
        /\ TextLines' = TextLines /\ Requests' = Requests /\ Printable' = Printable
        /\ \A f, n : FirstLines(f, n)' = FirstLines(f, n)
        /\ \A f, text : OwnSection(f, text)' = OwnSection(f, text)
    BY <2>1, SameFiles DEF worker
  <2>3. /\ out' \in [DOMAIN files -> Seq(Printable)]
        /\ \A f \in DOMAIN files : f # file => out'[f] = out[f]
        /\ TextOf(out'[file]) = Cat(TextOf(out[file]), TextOf(FlattenSeq(down)))
    BY <2>1, Printing
  <2>4. mode # "ident" /\ ~ClientGone
    BY <2>1 DEF SessionInv, Place, ClientGone
  <2>5. Types' /\ Place'
    BY <2>1, <2>2, <2>3, <2>4 DEF SessionInv, Types, Place, ClientGone
  <2>6. SectionsMatch'
    <3>1. file \in Nat /\ DOMAIN files \subseteq Nat
      BY LenProperties DEF SessionInv, Types
    <3>2. \A f \in DOMAIN files : f < file \/ f > file => f # file
      BY <3>1
    <3>3. QED
      BY <2>2, <2>3, <3>2 DEF SessionInv, SectionsMatch, TextOf
  <2>7. LinesConserved' /\ Left'
    <3>1. wpc = "read" =>
            Cat(Cat(TextOf(out'[file]), buffer), TextOf(up)) = FirstLines(file, line - 1)
      BY <2>1, <2>3, <2>4, Counted
    <3>2. TextOf(out'[file]) \in Seq(TextLines)
      BY <2>1, <2>3, <2>4, Counted, CatLaws
    <3>3. TextOf(FlattenSeq(<<>>)) = <<>> /\ Cat(TextOf(out'[file]), <<>>) = TextOf(out'[file])
      BY <3>2, OnlyFlatten, CatLaws DEF TextOf
    <3>4. wpc = "read" =>
            Cat(Cat(Cat(TextOf(out'[file]), TextOf(FlattenSeq(<<>>))), buffer), TextOf(up))
              = FirstLines(file, line - 1)
      BY <3>1, <3>3
    <3>5. LinesConserved'
      BY <2>1, <2>2, <3>4 DEF LinesConserved, TextOf, Cat
    <3>6. Left'
      BY <2>1, <2>2, <2>3, <2>4, <3>3 DEF SessionInv, Left, TextOf
    <3>7. QED
      BY <3>5, <3>6
  <2>8. QED
    BY <1>1, <2>5, <2>6, <2>7 DEF SessionInv
<1>6. ASSUME cpc = "flush"
      PROVE  /\ file <= Len(files) /\ mode # "ident" /\ ~ClientGone
             /\ line - 1 = Len(files[file])
             /\ up = <<>> => buffer = <<>>
             /\ TextOf(up) = <<>>
  <2>1. /\ file <= Len(files) /\ mode # "ident" /\ ~ClientGone
        /\ line = Len(files[file]) + 1
        /\ up # <<>> => Head(up) = Flush
        /\ up = <<>> => buffer = <<>>
    BY <1>6 DEF SessionInv, Place, ClientGone
  <2>2. line - 1 = Len(files[file])
    BY <2>1, Counted
  <2>3. TextOf(up) = <<>>
    <3>1. up = <<>> \/ up = <<Flush>>
      BY <2>1 DEF SessionInv, Turns, OneOf
    <3>2. TextOf(<<Flush>>) = <<>>
      BY OthersAreNoText, TextOfRequest DEF Requests, Flush
    <3>3. QED
      BY <3>1, <3>2, TextOfPrintable
  <2>4. QED
    BY <2>1, <2>2, <2>3
<1>7. CASE ReceiveFlushed
  <2>1. /\ UNCHANGED <<files, worker, up>> /\ down # <<>> /\ down' = <<>> /\ up = <<>>
        /\ cpc = "flush" /\ cpc' = "send" /\ PrintAnswer(Head(down))
        /\ file' = file + 1 /\ line' = 1
    BY <1>7, AnswerAlone DEF ReceiveFlushed, Answered
  <2>2. /\ out' \in [DOMAIN files -> Seq(Printable)]
        /\ \A f \in DOMAIN files : f # file => out'[f] = out[f]
        /\ TextOf(out'[file]) = Cat(TextOf(out[file]), TextOf(FlattenSeq(down)))
    BY <1>6, <2>1, Printing
  <2>3. wpc = "read" => mode # "doc" /\ buffer = <<>> /\ TextOf(up) = <<>>
    BY <1>6, <2>1 DEF SessionInv, Document
  <2>4. OwnSection(file, TextOf(out'[file]))
    <3>1. CASE wpc = "read"
      <4>1. Cat(Cat(TextOf(out'[file]), <<>>), <<>>) = FirstLines(file, line - 1)
        BY <1>6, <2>1, <2>2, <2>3, <3>1, Counted
      <4>2. TextOf(out'[file]) \in Seq(TextLines)
        BY <1>6, <2>1, <2>2, Counted, CatLaws
      <4>3. TextOf(out'[file]) = FileLines(file)
        BY <1>6, <2>1, <4>1, <4>2, CatLaws DEF FileLines
      <4>4. QED
        BY <2>3, <3>1, <4>3 DEF OwnSection
    <3>2. CASE wpc = "exited"
      BY <1>6, <2>1, <2>2, <3>2 DEF SessionInv, Left
    <3>3. QED
      BY <3>1, <3>2 DEF SessionInv, Types
  <2>5. QED
    BY <1>1, <1>6, <2>1, <2>2, <2>3, <2>4, NextFile
<1>8. CASE ReceiveNothing
  <2>1. /\ UNCHANGED <<files, out, worker, up, down>>
        /\ down = <<>> /\ wpc = "exited" /\ cpc' = "send"
    BY <1>8 DEF ReceiveNothing, HungUp
  <2>2. CASE cpc = "flush"
    <3>1. file' = file + 1 /\ line' = 1
      BY <1>8, <2>2 DEF ReceiveNothing
    <3>2. OwnSection(file, TextOf(out[file]))
      <4>1. OwnSection(file, Cat(TextOf(out[file]), TextOf(FlattenSeq(down))))
        BY <1>6, <2>1, <2>2 DEF SessionInv, Left
      <4>2. TextOf(FlattenSeq(down)) = <<>> /\ TextOf(out[file]) \in Seq(TextLines)
        BY <1>6, <2>1, <2>2, Counted
      <4>3. Cat(TextOf(out[file]), <<>>) = TextOf(out[file])
        BY <4>2, CatLaws
      <4>4. QED
        BY <4>1, <4>2, <4>3
    <3>3. out \in [DOMAIN files -> Seq(Printable)]
      BY DEF SessionInv, Types
    <3>4. QED
      BY <1>1, <1>6, <2>1, <2>2, <3>1, <3>2, <3>3, NextFile
  <2>3. CASE cpc = "wait"
    <3>1. file' = file /\ line' = line
      BY <1>8, <2>3 DEF ReceiveNothing
    <3>2. /\ files' = files /\ out' = out /\ down' = down
          /\ mode' = mode /\ buffer' = buffer /\ up' = up /\ wpc' = wpc
          /\ TextLines' = TextLines /\ Requests' = Requests /\ Printable' = Printable
          /\ \A f, n : FirstLines(f, n)' = FirstLines(f, n)
          /\ \A f, text : OwnSection(f, text)' = OwnSection(f, text)
      BY <2>1, SameFiles DEF worker
    <3>3. mode # "ident" /\ ~ClientGone
      BY <2>3 DEF SessionInv, Place, ClientGone
    <3>4. Types' /\ Place'
      BY <2>1, <2>3, <3>1, <3>2, <3>3 DEF SessionInv, Types, Place, ClientGone
    <3>5. SectionsMatch' /\ LinesConserved' /\ Left'
      BY <2>1, <3>1, <3>2, <3>3 DEF SessionInv, SectionsMatch, LinesConserved, Left, TextOf
    <3>6. QED
      BY <1>1, <3>4, <3>5 DEF SessionInv
  <2>4. QED
    BY <1>8, <2>2, <2>3 DEF ReceiveNothing
<1>9. QED
  BY <1>2, <1>3, <1>4, <1>5, <1>7, <1>8 DEF ClientStep

LEMMA SessionStep == SessionInv /\ [Next]_vars => SessionInv'
<1>1. SessionInv /\ UNCHANGED vars => SessionInv'
  <2> SUFFICES ASSUME SessionInv, UNCHANGED vars PROVE SessionInv'
    OBVIOUS
  <2>1. /\ files' = files /\ file' = file /\ line' = line /\ out' = out /\ down' = down
        /\ mode' = mode /\ buffer' = buffer /\ up' = up /\ wpc' = wpc /\ cpc' = cpc
        /\ TextLines' = TextLines /\ Requests' = Requests /\ Printable' = Printable
        /\ \A f, n : FirstLines(f, n)' = FirstLines(f, n)
        /\ \A f, text : OwnSection(f, text)' = OwnSection(f, text)
    BY SameFiles DEF vars, client, worker
  <2>2. Turns' /\ Types' /\ Place' /\ Document'
    BY <2>1, TurnsStep, DocumentStep DEF SessionInv, Types, Place, ClientGone
  <2>3. SectionsMatch' /\ LinesConserved' /\ Left'
    BY <2>1 DEF SessionInv, SectionsMatch, LinesConserved, Left, TextOf, ClientGone
  <2>4. QED
    BY <2>2, <2>3 DEF SessionInv
<1>2. QED
  BY <1>1, ClientSession, WorkerSession DEF Next

-------------------------------------------------------------------------------
\* No line is lost, repeated or reordered on its way through the worker and back.
THEOREM NothingLost == Spec => []LinesConserved
<1>1. SessionInv => LinesConserved
  BY DEF SessionInv
<1>2. QED
  BY <1>1, SessionInit, SessionStep, PTL DEF Spec

\* The analysis of each file is printed between its own tags, and of none twice;
\* only a worker that took a document for complete leaves lines without one.
THEOREM OwnSections == Spec => []SectionsMatch
<1>1. SessionInv => SectionsMatch
  BY DEF SessionInv
<1>2. QED
  BY <1>1, SessionInit, SessionStep, PTL DEF Spec

-------------------------------------------------------------------------------
(*****************************************************************************)
(* The bytes of a message.                                                   *)
(*****************************************************************************)
\* The message on its way, and its bytes.
Current == sent[Len(got) + 1]
Stream  == Append(Current, NUL)

FramingTypes ==
    /\ writer \in {"open", "closed", "crashed"}
    /\ reader \in {"first", "more", "ended"}
    /\ sent \in Seq(Messages)
    /\ got \in Seq(Seq(Nat))

Idle ==
    /\ Len(sent) = Len(got)
    /\ s = <<>> /\ wire = <<>> /\ unsent = <<>>
    /\ reader # "more"

\* The bytes of p after the first a, up to the b-th.
Slice(p, a, b) == SubSeq(p, a + 1, b)

\* Of the bytes of the message, the reader has the first a and the wire those up to b.
Parts(a, b) ==
    /\ a <= b
    /\ s = Slice(Stream, 0, a)
    /\ wire = Slice(Stream, a, b)
    /\ unsent = IF writer = "crashed" THEN <<>> ELSE Slice(Stream, b, Len(Stream))
    /\ reader = "more" <=> a > 0

UnderWay ==
    /\ Len(sent) = Len(got) + 1
    /\ \E a \in 0 .. Len(Current), b \in 0 .. Len(Current) + 1 : Parts(a, b)

\* An end of the writer that leaves nothing behind.
NothingUnsent == writer # "open" => unsent = <<>>

FramingInv == FramingTypes /\ NothingUnsent /\ (Idle \/ UnderWay)

InFlight == SubSeq(sent, Len(got) + 1, Len(sent))

-------------------------------------------------------------------------------
\* A slice has the elements it is named for.
LEMMA SliceElements ==
    ASSUME NEW p \in Seq(Nat), NEW a \in Nat, NEW b \in Nat, a <= b, b <= Len(p)
    PROVE  /\ Slice(p, a, b) \in Seq(Nat)
           /\ Len(Slice(p, a, b)) = b - a
           /\ \A i \in 1 .. b - a : Slice(p, a, b)[i] = p[a + i]
<1>1. \A i \in a + 1 .. b : p[i] \in Nat
  <2>1. \A i \in a + 1 .. b : i \in 1 .. Len(p)
    OBVIOUS
  <2>2. QED
    BY <2>1, ElementOfSeq
<1>2. a + 1 \in Int /\ b \in Int
  OBVIOUS
<1>3. /\ SubSeq(p, a + 1, b) \in Seq(Nat)
      /\ Len(SubSeq(p, a + 1, b)) = IF a + 1 <= b THEN b - (a + 1) + 1 ELSE 0
      /\ \A i \in 1 .. b - (a + 1) + 1 : SubSeq(p, a + 1, b)[i] = p[(a + 1) + i - 1]
  BY <1>1, <1>2, SubSeqProperties
<1>4. /\ b - (a + 1) + 1 = b - a
      /\ (IF a + 1 <= b THEN b - (a + 1) + 1 ELSE 0) = b - a
      /\ \A i \in 1 .. b - a : (a + 1) + i - 1 = a + i
  OBVIOUS
<1>5. QED
  BY <1>3, <1>4 DEF Slice

\* What the slice from a to b has from e to f.
Within(p, a, b, e, f) == Slice(Slice(p, a, b), e - a, f - a) = Slice(p, e, f)

\* A slice of a slice is a slice.
LEMMA SliceOfSlice ==
    ASSUME NEW p \in Seq(Nat), NEW a \in Nat, NEW b \in Nat, NEW e \in Nat, NEW f \in Nat,
           a <= e, e <= f, f <= b, b <= Len(p)
    PROVE  Within(p, a, b, e, f)
<1> DEFINE q == Slice(p, a, b)
           x == Slice(q, e - a, f - a)
           y == Slice(p, e, f)
<1>1. q \in Seq(Nat) /\ Len(q) = b - a /\ \A i \in 1 .. b - a : q[i] = p[a + i]
  <2>1. a <= b
    OBVIOUS
  <2>2. QED
    BY <2>1, SliceElements
<1>2. /\ x \in Seq(Nat) /\ Len(x) = (f - a) - (e - a)
      /\ \A i \in 1 .. (f - a) - (e - a) : x[i] = q[(e - a) + i]
  <2> HIDE DEF q
  <2>1. e - a \in Nat /\ f - a \in Nat /\ e - a <= f - a /\ f - a <= Len(q)
    BY <1>1
  <2>2. QED
    BY <1>1, <2>1, SliceElements
<1>3. y \in Seq(Nat) /\ Len(y) = f - e /\ \A i \in 1 .. f - e : y[i] = p[e + i]
  <2>1. f <= Len(p)
    OBVIOUS
  <2>2. QED
    BY <2>1, SliceElements
<1>4. /\ (f - a) - (e - a) = f - e
      /\ \A i \in 1 .. f - e : (e - a) + i \in 1 .. b - a /\ a + ((e - a) + i) = e + i
  <2>1. (f - a) - (e - a) = f - e
    OBVIOUS
  <2>2. ASSUME NEW i \in 1 .. f - e PROVE (e - a) + i \in 1 .. b - a
    OBVIOUS
  <2>3. ASSUME NEW i \in 1 .. f - e PROVE a + ((e - a) + i) = e + i
    OBVIOUS
  <2>4. QED
    BY <2>1, <2>2, <2>3
<1>5. Len(x) = Len(y) /\ Len(x) = f - e
  BY <1>2, <1>3, <1>4
<1>6. ASSUME NEW i \in 1 .. f - e PROVE x[i] = y[i]
  <2> HIDE DEF q, x, y
  <2>1. x[i] = q[(e - a) + i]
    BY <1>2, <1>4
  <2>2. q[(e - a) + i] = p[a + ((e - a) + i)]
    BY <1>1, <1>4
  <2>3. y[i] = p[e + i]
    BY <1>3
  <2>4. QED
    BY <1>4, <2>1, <2>2, <2>3
<1>7. x = y
  <2> HIDE DEF x, y
  <2>1. QED
    BY <1>2, <1>3, <1>5, <1>6, SeqEqual
<1>8. QED
  BY <1>7 DEF Within

Joined(p, a, b, c) == Slice(p, a, b) \o Slice(p, b, c) = Slice(p, a, c)

\* Adjacent slices make a slice.
LEMMA SliceConcat ==
    ASSUME NEW p \in Seq(Nat), NEW a \in Nat, NEW b \in Nat, NEW c \in Nat,
           a <= b, b <= c, c <= Len(p)
    PROVE  Joined(p, a, b, c)
<1>1. /\ a + 1 \in 1 .. Len(p) + 1 /\ b \in (a + 1) - 1 .. Len(p) /\ c \in b .. Len(p)
  OBVIOUS
<1>2. SubSeq(p, a + 1, b) \o SubSeq(p, b + 1, c) = SubSeq(p, a + 1, c)
  BY <1>1, ConcatAdjacentSubSeq
<1>3. QED
  BY <1>2 DEF Slice, Joined

LEMMA SliceEmpty ==
    ASSUME NEW p, NEW a \in Nat
    PROVE  Slice(p, a, a) = <<>>
BY SubSeqEmpty DEF Slice

LEMMA SliceFull ==
    ASSUME NEW p \in Seq(Nat)
    PROVE  Slice(p, 0, Len(p)) = p
BY SubSeqFull DEF Slice

\* A piece without NUL is kept whole, and one that ends in its only NUL without that.
LEMMA CStringWhole ==
    ASSUME NEW p \in Seq(Nat), \A i \in 1 .. Len(p) : p[i] # NUL
    PROVE  CString(p) = p
BY DEF CString, SelectInSeq

LEMMA CStringLast ==
    ASSUME NEW p \in Seq(Nat), NEW n \in Nat \ {0}, Len(p) = n, p[n] = NUL,
           \A i \in 1 .. n - 1 : p[i] # NUL
    PROVE  CString(p) = Slice(p, 0, n - 1)
<1> DEFINE I == {i \in 1 .. Len(p) : p[i] = NUL}
<1>1. I = {n}
  OBVIOUS
<1>2. Min(I) = n
  BY <1>1 DEF Min
<1>3. SelectInSeq(p, LAMBDA b : b = NUL) = n
  BY <1>1, <1>2 DEF SelectInSeq
<1>4. CString(p) = SubSeq(p, 1, n - 1)
  BY <1>3 DEF CString
<1>5. QED
  BY <1>4 DEF Slice

\* A message is a sequence of characters, none of which is NUL; with its NUL it is the
\* stream of its bytes.
LEMMA Bytes ==
    ASSUME FramingTypes, Len(sent) = Len(got) + 1
    PROVE  /\ Len(got) \in Nat
           /\ Current \in Messages
           /\ Current \in Seq(Nat)
           /\ Len(Current) \in Nat
           /\ Stream \in Seq(Nat)
           /\ Len(Stream) = Len(Current) + 1
           /\ \A i \in 1 .. Len(Current) : Stream[i] = Current[i] /\ Stream[i] # NUL
           /\ Stream[Len(Current) + 1] = NUL
           /\ InFlight = <<Current>>
<1>1. Len(got) \in Nat /\ Len(got) + 1 \in 1 .. Len(sent)
  BY LenProperties DEF FramingTypes
<1>2. Current \in Messages
  BY <1>1, ElementOfSeq DEF Current, FramingTypes
<1>3. Current \in Seq(Nat \ {NUL})
  BY <1>2, FramingAssumption DEF FramingAssumption
<1>4. Current \in Seq(Nat) /\ Len(Current) \in Nat
  BY <1>3, LenProperties
<1>5. NUL \in Nat
  BY DEF NUL
<1>6. /\ Stream \in Seq(Nat)
      /\ Len(Stream) = Len(Current) + 1
      /\ \A i \in 1 .. Len(Current) : Stream[i] = Current[i]
      /\ Stream[Len(Current) + 1] = NUL
  BY <1>4, <1>5, AppendProperties DEF Stream
<1>7. \A i \in 1 .. Len(Current) : Current[i] # NUL
  BY <1>3, ElementOfSeq
<1>8. InFlight = <<Current>>
  <2>1. sent \in Seq(Messages)
    BY DEF FramingTypes
  <2>2. InFlight = SubSeq(sent, Len(got) + 1, Len(got) + 1)
    BY DEF InFlight
  <2>3. SubSeq(sent, Len(got) + 1, Len(got) + 1)
            = SubSeq(sent, Len(got) + 1, Len(got)) \o <<sent[Len(got) + 1]>>
    BY <1>1, <2>1, SubSeqRecursiveSecond
  <2>4. SubSeq(sent, Len(got) + 1, Len(got)) = <<>>
    BY <1>1, SubSeqEmpty
  <2>5. <<Current>> \in Seq(Messages)
    BY <1>2
  <2>6. <<>> \o <<Current>> = <<Current>>
    BY <2>5, ConcatEmptySeq
  <2>7. QED
    BY <2>2, <2>3, <2>4, <2>6 DEF Current
<1>9. QED
  BY <1>1, <1>2, <1>4, <1>6, <1>7, <1>8

LEMMA NothingInFlight == FramingTypes /\ Len(sent) = Len(got) => InFlight = <<>>
BY LenProperties, SubSeqEmpty DEF InFlight, FramingTypes

-------------------------------------------------------------------------------
LEMMA InitEstablishesIInv == FramingInit => FramingInv
BY EmptySeq DEF FramingInit, FramingInv, FramingTypes, Idle, NothingUnsent

\* Most steps are none of the channel.
Stutter == UNCHANGED <<InFlight, got, writer = "crashed">>

\* A message is given to the kernel: the channel takes it.
LEMMA WriteStep ==
    ASSUME FramingInv, NEW m \in Messages, WriteMessage(m)
    PROVE  FramingInv' /\ Channel!Send(m)
<1>1. FramingTypes /\ Idle
  BY DEF FramingInv, UnderWay, WriteMessage, InTurn, FramingTypes
<1>2. /\ sent' = Append(sent, m) /\ got' = got /\ writer' = writer /\ reader' = reader
      /\ unsent' = Append(m, NUL) /\ s' = s /\ wire' = wire
      /\ writer = "open"
  BY DEF WriteMessage
<1>3. FramingTypes'
  BY <1>1, <1>2, AppendProperties DEF FramingTypes
<1>4. /\ Len(got) \in Nat /\ Len(sent) = Len(got)
      /\ Len(sent') = Len(got') + 1 /\ sent'[Len(got') + 1] = m
  BY <1>1, <1>2, AppendProperties, LenProperties DEF FramingTypes, Idle
<1>5. /\ Len(m) \in Nat /\ Stream' = Append(m, NUL) /\ Current' = m
      /\ Stream' \in Seq(Nat) /\ Len(Stream') = Len(m) + 1
      /\ InFlight' = <<m>>
  <2>1. (FramingTypes /\ Len(sent) = Len(got) + 1 =>
           Stream \in Seq(Nat) /\ Len(Stream) = Len(Current) + 1 /\ Len(Current) \in Nat
             /\ InFlight = <<Current>>)'
    BY Bytes, PTL
  <2>2. Current' = m
    BY <1>4 DEF Current
  <2>3. QED
    BY <1>3, <1>4, <2>1, <2>2 DEF Stream
<1>6. Parts(0, 0)'
  <2>1. Slice(Stream', 0, 0) = <<>>
    BY SliceEmpty
  <2>2. Slice(Stream', 0, Len(m) + 1) = Stream'
    BY <1>5, SliceFull
  <2>3. QED
    BY <1>1, <1>2, <1>5, <2>1, <2>2 DEF Parts, Idle
<1>7. UnderWay'
  <2>1. 0 \in 0 .. Len(Current') /\ 0 \in 0 .. Len(Current') + 1
    BY <1>5
  <2>2. QED
    BY <1>4, <1>6, <2>1 DEF UnderWay
<1>8. InFlight = <<>>
  BY <1>1, NothingInFlight DEF Idle
<1>9. QED
  BY <1>2, <1>3, <1>5, <1>7, <1>8 DEF FramingInv, NothingUnsent, Channel!Send, InFlight

\* Without its last byte the stream is the message.
LEMMA StreamIsMessage ==
    ASSUME FramingTypes, Len(sent) = Len(got) + 1
    PROVE  /\ Slice(Stream, 0, Len(Current)) = Current
           /\ \A n \in 0 .. Len(Current) : Slice(Stream, 0, n) = SubSeq(Current, 1, n)
<1>1. /\ Stream \in Seq(Nat) /\ Len(Stream) = Len(Current) + 1 /\ Len(Current) \in Nat
      /\ Current \in Seq(Nat)
      /\ \A i \in 1 .. Len(Current) : Stream[i] = Current[i]
  BY Bytes
<1>2. ASSUME NEW n \in 0 .. Len(Current) PROVE Slice(Stream, 0, n) = Slice(Current, 0, n)
  <2> DEFINE x == Slice(Stream, 0, n)
             y == Slice(Current, 0, n)
  <2>1. 0 <= n /\ n <= Len(Stream) /\ n <= Len(Current) /\ n \in Nat /\ 0 \in Nat /\ n - 0 = n
    BY <1>1
  <2>2. x \in Seq(Nat) /\ Len(x) = n /\ \A i \in 1 .. n : x[i] = Stream[0 + i]
    <3>1. x \in Seq(Nat) /\ Len(x) = n - 0 /\ \A i \in 1 .. n - 0 : x[i] = Stream[0 + i]
      BY <1>1, <2>1, SliceElements
    <3>2. QED
      BY <2>1, <3>1
  <2>3. y \in Seq(Nat) /\ Len(y) = n /\ \A i \in 1 .. n : y[i] = Current[0 + i]
    <3>1. y \in Seq(Nat) /\ Len(y) = n - 0 /\ \A i \in 1 .. n - 0 : y[i] = Current[0 + i]
      BY <1>1, <2>1, SliceElements
    <3>2. QED
      BY <2>1, <3>1
  <2>4. \A i \in 1 .. n : 0 + i \in 1 .. Len(Current)
    BY <1>1, <2>1
  <2>5. \A i \in 1 .. Len(x) : x[i] = y[i]
    BY <1>1, <2>2, <2>3, <2>4
  <2> HIDE DEF x, y
  <2>6. x = y
    BY <2>2, <2>3, <2>5, SeqEqual
  <2>7. QED
    BY <2>6 DEF x, y
<1>3. Slice(Current, 0, Len(Current)) = Current
  BY <1>1, SliceFull
<1>4. Slice(Stream, 0, Len(Current)) = Current
  <2>1. Len(Current) \in 0 .. Len(Current)
    BY <1>1
  <2>2. QED
    BY <1>2, <1>3, <2>1
<1>5. \A n \in 0 .. Len(Current) : Slice(Current, 0, n) = SubSeq(Current, 1, n)
  BY DEF Slice
<1>6. QED
  BY <1>2, <1>4, <1>5

\* The steps of the channel that deliver its message.
LEMMA DeliverStep ==
    ASSUME InFlight = <<Current>>, InFlight' = <<>>, UNCHANGED writer
    PROVE  /\ got' = Append(got, Current) => Channel!Deliver
           /\ (/\ writer = "crashed"
               /\ \E n \in 1 .. Len(Current) - 1 : got' = Append(got, SubSeq(Current, 1, n)))
              => Channel!DeliverCut
<1>1. InFlight # <<>> /\ Head(InFlight) = Current
  OBVIOUS
<1>2. QED
  BY <1>1 DEF Channel!Deliver, Channel!DeliverCut, InFlight

\* What the other steps find of the message under way.
LEMMA Facts ==
    ASSUME FramingTypes, UnderWay
    PROVE  /\ Len(sent) = Len(got) + 1 /\ Len(got) \in Nat
           /\ Len(Current) \in Nat /\ Current \in Seq(Nat)
           /\ Stream \in Seq(Nat) /\ Len(Stream) = Len(Current) + 1 /\ Len(Stream) \in Nat
           /\ InFlight = <<Current>>
BY Bytes, LenProperties DEF UnderWay

\* Some bytes go over from the third part to the second.
LEMMA TransmitStep ==
    ASSUME FramingInv, Transmit
    PROVE  FramingInv' /\ Stutter
<1>1. PICK n \in 1 .. Len(unsent) :
        wire' = wire \o SubSeq(unsent, 1, n) /\ unsent' = SubSeq(unsent, n + 1, Len(unsent))
  BY DEF Transmit
<1>2. writer = "open" /\ UNCHANGED <<writer, sent, reader, s, got>>
  BY DEF Transmit
<1>3. FramingTypes /\ UnderWay
  BY <1>1, EmptySeq DEF FramingInv, Idle
<1>4. /\ Len(sent) = Len(got) + 1 /\ Len(Current) \in Nat
      /\ Stream \in Seq(Nat) /\ Len(Stream) = Len(Current) + 1 /\ Len(Stream) \in Nat
  BY <1>3, Facts
<1>5. PICK a \in 0 .. Len(Current), b \in 0 .. Len(Current) + 1 : Parts(a, b)
  BY <1>3 DEF UnderWay
<1>6. a \in Nat /\ b \in Nat /\ a <= b /\ b <= Len(Stream)
  BY <1>4, <1>5 DEF Parts
<1>7. wire = Slice(Stream, a, b) /\ unsent = Slice(Stream, b, Len(Stream))
  BY <1>2, <1>5 DEF Parts
<1>8. Len(unsent) = Len(Stream) - b
  <2>1. Len(Stream) <= Len(Stream)
    BY <1>4
  <2>2. Len(Slice(Stream, b, Len(Stream))) = Len(Stream) - b
    BY <1>4, <1>6, <2>1, SliceElements
  <2>3. QED
    BY <1>7, <2>2
<1>9. PICK k \in Nat : k = Len(unsent)
  BY <1>4, <1>6, <1>8
<1>10. PICK c \in Nat : c = b + n
  BY <1>6, <1>9
<1>11. /\ n \in Nat /\ n <= k /\ k <= Len(Stream) - b /\ b <= c /\ a <= c /\ c <= Len(Stream)
       /\ Len(Stream) <= Len(Stream) /\ Len(Stream) = b + k /\ 0 <= n
  BY <1>1, <1>4, <1>6, <1>8, <1>9, <1>10
<1>12. SubSeq(unsent, 1, n) = Slice(Stream, b, c)
  <2>1. SubSeq(unsent, 1, n) = Slice(unsent, 0, n)
    BY DEF Slice
  <2>2. b <= b /\ b - b = 0 /\ c - b = n
    BY <1>6, <1>10, <1>11
  <2>3. Within(Stream, b, Len(Stream), b, c)
    BY <1>4, <1>6, <1>11, <2>2, SliceOfSlice
  <2>4. QED
    BY <1>7, <2>1, <2>2, <2>3 DEF Within
<1>13. SubSeq(unsent, n + 1, Len(unsent)) = Slice(Stream, c, Len(Stream))
  <2>1. SubSeq(unsent, n + 1, Len(unsent)) = Slice(unsent, n, k)
    BY <1>9 DEF Slice
  <2>2. c - b = n /\ Len(Stream) - b = k
    BY <1>6, <1>10, <1>11
  <2>3. Within(Stream, b, Len(Stream), c, Len(Stream))
    BY <1>4, <1>6, <1>11, SliceOfSlice
  <2>4. QED
    BY <1>7, <2>1, <2>2, <2>3 DEF Within
<1>14. wire' = Slice(Stream, a, c)
  <2>1. Joined(Stream, a, b, c)
    BY <1>4, <1>6, <1>11, SliceConcat
  <2>2. QED
    BY <1>1, <1>7, <1>12, <2>1 DEF Joined
<1>15. Current' = Current /\ Stream' = Stream
  BY <1>2 DEF Current, Stream
<1>16. Parts(a, c)'
  BY <1>1, <1>2, <1>5, <1>11, <1>13, <1>14, <1>15 DEF Parts
<1>17. UnderWay'
  <2>1. c \in 0 .. Len(Current) + 1
    BY <1>4, <1>11
  <2>2. QED
    BY <1>2, <1>4, <1>15, <1>16, <2>1 DEF UnderWay
<1>18. QED
  BY <1>2, <1>3, <1>17 DEF FramingInv, FramingTypes, NothingUnsent, Stutter, InFlight

\* The end of the writer: it has nothing left to write, or takes it along.
LEMMA EndStep ==
    ASSUME FramingInv, CloseConnection \/ Crash
    PROVE  FramingInv' /\ (Channel!Break \/ Stutter)
<1>1. /\ writer = "open" /\ UNCHANGED <<sent, wire, reader, s, got>>
      /\ \/ writer' = "closed" /\ unsent' = unsent /\ unsent = <<>>
         \/ writer' = "crashed" /\ unsent' = <<>>
  BY DEF CloseConnection, Crash
<1>2. FramingTypes' /\ Current' = Current /\ Stream' = Stream /\ InFlight' = InFlight
  BY <1>1 DEF FramingInv, FramingTypes, Current, Stream, InFlight
<1>3. Idle => Idle'
  BY <1>1 DEF Idle
<1>4. ASSUME UnderWay PROVE UnderWay'
  <2>1. PICK a \in 0 .. Len(Current), b \in 0 .. Len(Current) + 1 : Parts(a, b)
    BY <1>4 DEF UnderWay
  <2>2. Parts(a, b)'
    BY <1>1, <1>2, <2>1 DEF Parts
  <2>3. QED
    BY <1>1, <1>2, <1>4, <2>2 DEF UnderWay
<1>5. Channel!Break \/ Stutter
  BY <1>1, <1>2 DEF Channel!Break, Stutter, InFlight
<1>6. NothingUnsent'
  BY <1>1 DEF NothingUnsent
<1>7. QED
  BY <1>2, <1>3, <1>4, <1>5, <1>6 DEF FramingInv

\* Bytes go over from the second part to the first; with the NUL the message is complete.
LEMMA ReadStep ==
    ASSUME FramingInv, ReadSome
    PROVE  FramingInv' /\ (Channel!Deliver \/ Stutter)
<1>1. PICK n \in 1 .. Len(wire) : n <= BUFF_SZ /\ ReadPiece(n)
  BY DEF ReadSome
<1>2. reader # "ended" /\ UNCHANGED <<writer, sent, unsent>>
  BY DEF ReadSome
<1>3. FramingTypes /\ UnderWay /\ NothingUnsent
  BY <1>1, EmptySeq DEF FramingInv, Idle
<1>4. /\ Len(sent) = Len(got) + 1 /\ Len(Current) \in Nat /\ Len(got) \in Nat
      /\ Stream \in Seq(Nat) /\ Len(Stream) = Len(Current) + 1 /\ Len(Stream) \in Nat
      /\ Current \in Seq(Nat) /\ InFlight = <<Current>>
  BY <1>3, Facts
<1>5. PICK a \in 0 .. Len(Current), b \in 0 .. Len(Current) + 1 : Parts(a, b)
  BY <1>3 DEF UnderWay
<1>6. a \in Nat /\ b \in Nat /\ a <= b /\ b <= Len(Stream)
  BY <1>4, <1>5 DEF Parts
<1>7. /\ s = Slice(Stream, 0, a) /\ wire = Slice(Stream, a, b)
      /\ unsent = IF writer = "crashed" THEN <<>> ELSE Slice(Stream, b, Len(Stream))
  BY <1>5 DEF Parts
<1>8. Len(wire) = b - a
  <2>1. Len(Slice(Stream, a, b)) = b - a
    BY <1>4, <1>6, SliceElements
  <2>2. QED
    BY <1>7, <2>1
<1>9. PICK k \in Nat : k = Len(wire)
  BY <1>6, <1>8
<1>10. PICK c \in Nat : c = a + n
  BY <1>6, <1>9
<1>11. /\ n \in Nat \ {0} /\ n <= k /\ k <= b - a /\ b = a + k
       /\ a <= c /\ c <= b /\ c <= Len(Stream) /\ 0 <= n /\ c > 0
  BY <1>1, <1>4, <1>6, <1>8, <1>9, <1>10
<1> DEFINE piece == SubSeq(wire, 1, n)
<1>12. piece = Slice(Stream, a, c)
  <2>1. piece = Slice(wire, 0, n)
    BY DEF Slice
  <2>2. a <= a /\ a - a = 0 /\ c - a = n
    BY <1>6, <1>10, <1>11
  <2>3. Within(Stream, a, b, a, c)
    BY <1>4, <1>6, <1>11, <2>2, SliceOfSlice
  <2>4. QED
    BY <1>7, <2>1, <2>2, <2>3 DEF Within
<1>13. wire' = Slice(Stream, c, b)
  <2>1. wire' = Slice(wire, n, k)
    BY <1>1, <1>9 DEF ReadPiece, Slice
  <2>2. b <= b /\ c - a = n /\ b - a = k
    BY <1>6, <1>10, <1>11
  <2>3. Within(Stream, a, b, c, b)
    BY <1>4, <1>6, <1>11, <2>2, SliceOfSlice
  <2>4. QED
    BY <1>7, <2>1, <2>2, <2>3 DEF Within
<1>14. /\ piece \in Seq(Nat) /\ Len(piece) = n
       /\ \A i \in 1 .. n : piece[i] = Stream[a + i]
  <2>1. c - a = n
    BY <1>6, <1>10, <1>11
  <2>2. /\ Slice(Stream, a, c) \in Seq(Nat) /\ Len(Slice(Stream, a, c)) = c - a
        /\ \A i \in 1 .. c - a : Slice(Stream, a, c)[i] = Stream[a + i]
    BY <1>4, <1>6, <1>11, SliceElements, ZenonT(60)
  <2>3. QED
    BY <1>12, <2>1, <2>2
<1> HIDE DEF piece
<1>16. /\ Last(piece) = Stream[c]
       /\ IF Last(piece) = NUL
          THEN reader' = "first" /\ s' = <<>> /\ got' = Append(got, s \o CString(piece))
          ELSE reader' = "more" /\ s' = s \o CString(piece) /\ UNCHANGED got
  <2>1. Last(piece) = piece[Len(piece)]
    BY DEF Last
  <2>2. n \in 1 .. n
    BY <1>11
  <2>3. Last(piece) = Stream[c]
    BY <1>10, <1>14, <2>1, <2>2
  <2>4. QED
    BY <1>1, <2>3 DEF ReadPiece, piece
<1>17. \A i \in 1 .. Len(Current) : Stream[i] # NUL
  BY <1>3, <1>4, Bytes
<1>18. CASE c = Len(Stream)
  <2>1. /\ b = Len(Stream) /\ a + n = Len(Current) + 1
        /\ Len(Current) - a = n - 1 /\ Len(Current) <= c
        /\ a <= Len(Current) /\ Len(Current) <= Len(Stream)
    <3>1. a + n = Len(Current) + 1
      BY <1>4, <1>10, <1>18
    <3>2. b = Len(Stream)
      BY <1>6, <1>11, <1>18
    <3>3. Len(Current) - a = n - 1
      BY <1>4, <1>6, <1>11, <3>1
    <3>4. a <= Len(Current)
      BY <1>4, <1>6, <1>11, <3>1
    <3>5. Len(Current) <= c /\ Len(Current) <= Len(Stream)
      BY <1>4, <1>18
    <3>6. QED
      BY <3>1, <3>2, <3>3, <3>4, <3>5
  <2>2. Stream[c] = NUL
    BY <1>3, <1>4, <1>18, Bytes
  <2>3. reader' = "first" /\ s' = <<>> /\ got' = Append(got, s \o CString(piece))
    BY <1>16, <2>2
  <2>4. wire' = <<>> /\ unsent' = <<>>
    <3>1. Slice(Stream, Len(Stream), Len(Stream)) = <<>>
      BY <1>4, SliceEmpty
    <3>2. QED
      BY <1>2, <1>7, <1>13, <1>18, <2>1, <3>1
  <2>5. CString(piece) = Slice(piece, 0, n - 1)
    <3>1. piece[n] = NUL
      BY <1>10, <1>11, <1>14, <2>2
    <3>2. \A i \in 1 .. n - 1 : i \in 1 .. n /\ a + i \in 1 .. Len(Current)
      BY <1>4, <1>6, <1>10, <1>11, <1>18
    <3>3. \A i \in 1 .. n - 1 : piece[i] # NUL
      BY <1>14, <1>17, <3>2
    <3>4. QED
      BY <1>11, <1>14, <3>1, <3>3, CStringLast
  <2>6. Slice(piece, 0, n - 1) = Slice(Stream, a, Len(Current))
    <3>1. a <= a /\ a - a = 0
      BY <1>6
    <3>2. Within(Stream, a, c, a, Len(Current))
      BY <1>4, <1>6, <1>11, <2>1, <3>1, SliceOfSlice
    <3>3. QED
      BY <1>12, <2>1, <3>1, <3>2 DEF Within
  <2>7. s \o Slice(Stream, a, Len(Current)) = Slice(Stream, 0, Len(Current))
    <3>1. 0 \in Nat /\ 0 <= a
      BY <1>6
    <3>2. Joined(Stream, 0, a, Len(Current))
      BY <1>4, <1>6, <2>1, <3>1, SliceConcat
    <3>3. QED
      BY <1>7, <3>2 DEF Joined
  <2>8. Slice(Stream, 0, Len(Current)) = Current
    BY <1>3, StreamIsMessage DEF UnderWay
  <2>9. got' = Append(got, Current)
    BY <2>3, <2>5, <2>6, <2>7, <2>8
  <2>10. got' \in Seq(Seq(Nat)) /\ Len(got') = Len(got) + 1
    BY <1>3, <1>4, <2>9, AppendProperties DEF FramingTypes
  <2>11. FramingTypes' /\ Idle' /\ NothingUnsent'
    BY <1>2, <1>3, <1>4, <2>3, <2>4, <2>10 DEF FramingTypes, Idle, NothingUnsent
  <2>12. (FramingTypes /\ Len(sent) = Len(got) => InFlight = <<>>)'
    BY NothingInFlight, PTL
  <2>13. InFlight' = <<>>
    BY <2>11, <2>12 DEF Idle
  <2>14. Channel!Deliver
    BY <1>2, <1>4, <2>9, <2>13, DeliverStep
  <2>15. QED
    BY <2>11, <2>14 DEF FramingInv
<1>19. CASE c # Len(Stream)
  <2>1. c \in 1 .. Len(Current) /\ c \in 0 .. Len(Current)
    BY <1>4, <1>11, <1>19
  <2>2. Last(piece) # NUL
    BY <1>16, <1>17, <2>1
  <2>3. CString(piece) = piece
    <3>1. \A i \in 1 .. n : a + i \in 1 .. Len(Current)
      BY <1>4, <1>6, <1>10, <1>11, <2>1
    <3>2. \A i \in 1 .. Len(piece) : piece[i] # NUL
      BY <1>14, <1>17, <3>1
    <3>3. QED
      BY <1>14, <3>2, CStringWhole
  <2>4. s \o piece = Slice(Stream, 0, c)
    <3>1. 0 \in Nat /\ 0 <= a
      BY <1>6
    <3>2. Joined(Stream, 0, a, c)
      BY <1>4, <1>6, <1>11, <3>1, SliceConcat
    <3>3. QED
      BY <1>7, <1>12, <3>2 DEF Joined
  <2>5. reader' = "more" /\ s' = Slice(Stream, 0, c) /\ got' = got
    BY <1>16, <2>2, <2>3, <2>4
  <2>6. Current' = Current /\ Stream' = Stream /\ InFlight' = InFlight
    BY <1>2, <2>5 DEF Current, Stream, InFlight
  <2>7. Parts(c, b)'
    BY <1>2, <1>7, <1>11, <1>13, <2>1, <2>5, <2>6 DEF Parts
  <2>8. UnderWay'
    BY <1>2, <1>4, <2>1, <2>5, <2>6, <2>7 DEF UnderWay
  <2>9. QED
    BY <1>2, <1>3, <2>5, <2>6, <2>8 DEF FramingInv, FramingTypes, NothingUnsent, Stutter
<1>20. QED
  BY <1>18, <1>19

\* The read gives nothing: what there is of a message whose writer has died is delivered.
LEMMA ReadEndStep ==
    ASSUME FramingInv, ReadEnd
    PROVE  FramingInv' /\ (Channel!Deliver \/ Channel!DeliverCut \/ Stutter)
<1>1. /\ writer # "open" /\ wire = <<>> /\ reader # "ended"
      /\ UNCHANGED <<writer, sent, unsent, wire>>
  BY DEF ReadEnd
<1>2. FramingTypes /\ NothingUnsent /\ NothingUnsent'
  BY <1>1 DEF FramingInv, NothingUnsent
<1>3. CASE reader = "first"
  <2>1. reader' = "ended" /\ UNCHANGED <<s, got>>
    BY <1>3 DEF ReadEnd
  <2>2. Current' = Current /\ Stream' = Stream /\ InFlight' = InFlight
    BY <1>1, <2>1 DEF Current, Stream, InFlight
  <2>3. FramingTypes' /\ (Idle => Idle')
    BY <1>1, <1>2, <2>1 DEF FramingTypes, Idle
  <2>4. ASSUME UnderWay PROVE UnderWay'
    <3>1. PICK a \in 0 .. Len(Current), b \in 0 .. Len(Current) + 1 : Parts(a, b)
      BY <2>4 DEF UnderWay
    <3>2. Parts(a, b)'
      BY <1>1, <1>3, <2>1, <2>2, <3>1 DEF Parts
    <3>3. QED
      BY <1>1, <2>1, <2>2, <2>4, <3>2 DEF UnderWay
  <2>5. QED
    BY <1>1, <1>2, <2>1, <2>2, <2>3, <2>4 DEF FramingInv, Stutter
<1>4. CASE reader = "more"
  <2>1. reader' = "first" /\ s' = <<>> /\ got' = Append(got, s)
    BY <1>4 DEF ReadEnd
  <2>2. UnderWay
    BY <1>4 DEF FramingInv, Idle
  <2>3. PICK a \in 0 .. Len(Current), b \in 0 .. Len(Current) + 1 : Parts(a, b)
    BY <2>2 DEF UnderWay
  <2>4. /\ Len(sent) = Len(got) + 1 /\ Len(Current) \in Nat /\ Len(got) \in Nat
        /\ Stream \in Seq(Nat) /\ Len(Stream) = Len(Current) + 1 /\ Len(Stream) \in Nat
        /\ Current \in Seq(Nat) /\ InFlight = <<Current>>
    BY <1>2, <2>2, Facts
  <2>5. a \in Nat /\ b \in Nat /\ a <= b /\ b <= Len(Stream) /\ a > 0 /\ a < Len(Stream)
    BY <1>4, <2>3, <2>4 DEF Parts
  <2>6. /\ s = Slice(Stream, 0, a) /\ wire = Slice(Stream, a, b)
        /\ unsent = IF writer = "crashed" THEN <<>> ELSE Slice(Stream, b, Len(Stream))
    BY <2>3 DEF Parts
  <2>7. s = SubSeq(Current, 1, a)
    BY <1>2, <2>4, <2>6, StreamIsMessage
  <2>8. unsent = <<>>
    BY <1>1, <1>2 DEF NothingUnsent
  <2>9. writer = "crashed"
    <3>1. Len(Slice(Stream, a, b)) = b - a
      BY <2>4, <2>5, SliceElements
    <3>2. Len(Slice(Stream, b, Len(Stream))) = Len(Stream) - b
      <4>1. Len(Stream) <= Len(Stream)
        BY <2>4
      <4>2. QED
        BY <2>4, <2>5, <4>1, SliceElements
    <3>3. a = b
      BY <1>1, <2>5, <2>6, <3>1, EmptySeq
    <3>4. Slice(Stream, b, Len(Stream)) # <<>>
      BY <2>4, <2>5, <3>2, <3>3, EmptySeq
    <3>5. QED
      BY <2>6, <2>8, <3>4
  <2>10. got' \in Seq(Seq(Nat)) /\ Len(got') = Len(got) + 1
    <3>1. s \in Seq(Nat)
      BY <2>4, <2>5, <2>6, SliceElements
    <3>2. QED
      BY <1>2, <2>1, <3>1, AppendProperties DEF FramingTypes
  <2>11. FramingTypes' /\ Idle'
    BY <1>1, <1>2, <2>1, <2>4, <2>8, <2>10 DEF FramingTypes, Idle
  <2>12. (FramingTypes /\ Len(sent) = Len(got) => InFlight = <<>>)'
    BY NothingInFlight, PTL
  <2>13. InFlight' = <<>>
    BY <2>11, <2>12 DEF Idle
  <2>14. CASE a = Len(Current)
    <3>1. s = Current
      BY <2>4, <2>7, <2>14, SubSeqFull
    <3>2. Channel!Deliver
      BY <1>1, <2>1, <2>4, <2>13, <3>1, DeliverStep
    <3>3. QED
      BY <1>2, <2>11, <3>2 DEF FramingInv
  <2>15. CASE a # Len(Current)
    <3>1. a \in 1 .. Len(Current) - 1
      BY <2>4, <2>5, <2>15
    <3>2. Channel!DeliverCut
      BY <1>1, <2>1, <2>4, <2>7, <2>9, <2>13, <3>1, DeliverStep
    <3>3. QED
      BY <1>2, <2>11, <3>2 DEF FramingInv
  <2>16. QED
    BY <2>14, <2>15
<1>5. QED
  BY <1>1, <1>2, <1>3, <1>4 DEF FramingTypes

-------------------------------------------------------------------------------
LEMMA ChannelInit == FramingInit => Channel!Init
<1> SUFFICES ASSUME FramingInit
             PROVE  Channel!Init
  OBVIOUS
<1>1. SubSeq(sent, Len(got) + 1, Len(sent)) = <<>>
  BY EmptySeq, SubSeqEmpty DEF FramingInit
<1>2. QED
  BY <1>1 DEF FramingInit, Channel!Init

\* Every step keeps the invariant, and is one of the channel or none of its business.
LEMMA ChannelStep == FramingInv /\ [FramingNext]_framingVars => FramingInv' /\ [Channel!Next]_(Channel!vars)
<1> SUFFICES ASSUME FramingInv, [FramingNext]_framingVars
             PROVE  FramingInv' /\ [Channel!Next]_(Channel!vars)
  OBVIOUS
<1>1. Stutter => UNCHANGED Channel!vars
  BY DEF Stutter, Channel!vars, InFlight
<1>2. ASSUME NEW m \in Messages, WriteMessage(m)
      PROVE  FramingInv' /\ [Channel!Next]_(Channel!vars)
  BY <1>2, WriteStep DEF Channel!Next
<1>3. CASE Transmit
  BY <1>1, <1>3, TransmitStep
<1>4. CASE CloseConnection \/ Crash
  BY <1>1, <1>4, EndStep DEF Channel!Next
<1>5. CASE ReadSome
  BY <1>1, <1>5, ReadStep DEF Channel!Next
<1>6. CASE ReadEnd
  BY <1>1, <1>6, ReadEndStep DEF Channel!Next
<1>7. CASE UNCHANGED framingVars
  <2>1. Current' = Current /\ Stream' = Stream /\ Stutter
    BY <1>7 DEF framingVars, Current, Stream, Stutter, InFlight
  <2>2. FramingTypes' /\ NothingUnsent' /\ (Idle => Idle')
    BY <1>7 DEF framingVars, FramingInv, FramingTypes, NothingUnsent, Idle
  <2>3. ASSUME UnderWay PROVE UnderWay'
    <3>1. PICK a \in 0 .. Len(Current), b \in 0 .. Len(Current) + 1 : Parts(a, b)
      BY <2>3 DEF UnderWay
    <3>2. Parts(a, b)'
      BY <1>7, <2>1, <3>1 DEF framingVars, Parts
    <3>3. QED
      BY <1>7, <2>1, <2>3, <3>2 DEF framingVars, UnderWay
  <2>4. QED
    BY <1>1, <2>1, <2>2, <2>3 DEF FramingInv
<1>8. QED
  BY <1>2, <1>3, <1>4, <1>5, <1>6, <1>7 DEF FramingNext

\* At every moment the bytes of one message at most are on their way, in three
\* adjacent parts: read_message cannot take two messages for one.
THEOREM Inductive == FramingSpec => []FramingInv
BY InitEstablishesIInv, ChannelStep, PTL DEF FramingSpec

\* read_message and write_message are a message channel, for all messages and
\* every size of the buffer.
THEOREM Refinement == FramingSpec => ImplementsChannel
BY ChannelInit, ChannelStep, Inductive, PTL DEF FramingSpec, ImplementsChannel, Channel!Spec
===============================================================================
