--------------------------- MODULE MaltServerProofs ---------------------------
(***************************************************************************)
(* Proofs about MaltServer, for all clients, texts and sizes of buffers:   *)
(* the flag that a connection leaves behind reaches the next one, and does *)
(* no more there than to end it after a sentence.                          *)
(*                                                                         *)
(* The invariant says where the flag is while such a client is served: in  *)
(* EOFreached until the sentence is parsed, then in last.  That a client   *)
(* is served once only, so that no sentences of an earlier connection      *)
(* count, needs that it is never in two places.                            *)
(*                                                                         *)
(* And what a client is sent: sentences of its own text, whole and in      *)
(* order, and all of them unless a flag or the parser ended the session.   *)
(* The sentences of a text are a recursive function of its lines, and the  *)
(* invariant says how far client, buffers and server have come in it.      *)
(***************************************************************************)
EXTENDS MaltServer, SequenceLemmas

Types ==
    /\ spc \in {"accept", "read", "decide", "write", "close"}
    /\ conn \in Clients \cup {NoClient}
    /\ queue \in Seq(Clients)
    /\ stale \subseteq Clients
    /\ tokens \in Nat
    /\ cpc \in [Clients -> {"away", "sending", "receiving", "done", "failed", "killed"}]
    /\ unsent \in [Clients -> Seq(Lines)]
    /\ up \in [Clients -> Seq(Lines)]
    /\ down \in [Clients -> Seq(Nat)]
    /\ got \in [Clients -> Seq(Nat)]
    /\ spc # "accept" => conn \in Clients
    /\ spc = "accept" => conn = NoClient

Fresh(c) == c \notin stale /\ c # conn /\ got[c] = <<>> /\ down[c] = <<>>

\* A client that has not been accepted has nothing, and waits at one place at most.
OnePlace ==
    /\ \A c \in Clients : cpc[c] = "away" => Fresh(c) /\ \A i \in 1 .. Len(queue) : queue[i] # c
    /\ \A i \in 1 .. Len(queue) : Fresh(queue[i])
    /\ \A i, j \in 1 .. Len(queue) : queue[i] = queue[j] => i = j

\* Sentences that a client was sent.
Sent(c) == Len(got[c]) + Len(down[c])

\* Where the flag is while a client that was accepted with it is served.
FlagCarried ==
    \A c \in stale :
        /\ Sent(c) <= 1
        /\ c = conn =>
            /\ spc \in {"read", "decide"} => EOFreached /\ Sent(c) = 0
            /\ spc = "write" => last /\ Sent(c) = 0

IInv == Types /\ OnePlace /\ FlagCarried

-------------------------------------------------------------------------------
LEMMA InitEstablishesIInv == Init => IInv
<1> SUFFICES ASSUME Init PROVE IInv
  OBVIOUS
<1>1. Types
  BY DEF Init, Types
<1>2. OnePlace
  BY MaltAssumption DEF Init, OnePlace, Fresh, MaltAssumption
<1>3. FlagCarried
  BY DEF Init, FlagCarried
<1>4. QED
  BY <1>1, <1>2, <1>3 DEF IInv

LEMMA TypesStep == Types /\ [Next]_vars => Types'
<1> SUFFICES ASSUME Types, [Next]_vars PROVE Types'
  OBVIOUS
<1> USE DEF Types
<1>1. ASSUME NEW c \in Clients, Connect(c) PROVE Types'
  <2>1. queue' \in Seq(Clients)
    BY <1>1, AppendProperties DEF Connect
  <2>2. ASSUME NEW d \in Docs PROVE ClientStream(d) \in Seq(Lines)
    <3>1. d \in Seq(Lines) /\ <<"blank", "#EOF">> \in Seq(Lines)
      BY MaltAssumption DEF MaltAssumption, Lines
    <3>2. QED
      BY <3>1, ConcatProperties DEF ClientStream
  <2>3. unsent' \in [Clients -> Seq(Lines)]
    BY <1>1, <2>2 DEF Connect
  <2>4. QED
    BY <1>1, <2>1, <2>3 DEF Connect, history
<1>2. ASSUME NEW c \in Clients, Receive(c) PROVE Types'
  <2>1. Head(down[c]) \in Nat /\ Tail(down[c]) \in Seq(Nat)
    BY <1>2, HeadTailProperties DEF Receive
  <2>2. Append(got[c], Head(down[c])) \in Seq(Nat)
    BY <2>1, AppendProperties
  <2>3. got' \in [Clients -> Seq(Nat)] /\ down' \in [Clients -> Seq(Nat)]
    BY <1>2, <2>1, <2>2 DEF Receive
  <2>4. QED
    BY <1>2, <2>3 DEF Receive, server, history
<1>3. ASSUME NEW c \in Clients, SendLine(c) \/ SendAfterClose(c) PROVE Types'
  <2>1. unsent[c] # <<>> /\ unsent[c] \in Seq(Lines) /\ up[c] \in Seq(Lines)
    BY <1>3 DEF SendLine, SendAfterClose
  <2>2. Head(unsent[c]) \in Lines /\ Tail(unsent[c]) \in Seq(Lines)
    BY <2>1, HeadTailProperties
  <2>3. Append(up[c], Head(unsent[c])) \in Seq(Lines)
    BY <2>1, <2>2, AppendProperties
  <2>4. QED
    BY <1>3, <2>2, <2>3 DEF SendLine, SendAfterClose, server, history
<1>4. ASSUME NEW c \in Clients, SendFails(c) \/ StartReceiving(c) \/ ReceiveEnd(c) \/ ReceiveFails(c) \/ Kill(c)
      PROVE  Types'
  BY <1>4 DEF SendFails, StartReceiving, ReceiveEnd, ReceiveFails, Kill, server, history
<1>5. ASSUME Accept PROVE Types'
  <2>1. Head(queue) \in Clients /\ queue' \in Seq(Clients)
    BY <1>5, HeadTailProperties DEF Accept
  <2>2. QED
    BY <1>5, <2>1 DEF Accept, clients
<1>6. ASSUME ReadLine PROVE Types'
  <2>1. conn \in Clients /\ up[conn] \in Seq(Lines) /\ up[conn] # <<>>
    BY <1>6 DEF ReadLine
  <2>2. Head(up[conn]) \in Lines /\ Tail(up[conn]) \in Seq(Lines)
    BY <2>1, HeadTailProperties
  <2>3. spc' \in {"read", "decide"} /\ tokens' \in Nat
    BY <1>6, <2>2 DEF ReadLine, Lines
  <2>4. up' \in [Clients -> Seq(Lines)]
    BY <1>6, <2>2 DEF ReadLine
  <2>5. QED
    BY <1>6, <2>1, <2>3, <2>4 DEF ReadLine, history
<1>7. ASSUME ReadEndOfStream \/ DecideEmpty \/ DecideParse \/ WriteFails \/ CloseSession PROVE Types'
  BY <1>7 DEF ReadEndOfStream, DecideEmpty, DecideParse, WriteFails, CloseSession, clients, history
<1>8. ASSUME WriteSentence PROVE Types'
  <2>1. down' \in [Clients -> Seq(Nat)]
    BY <1>8, AppendProperties DEF WriteSentence
  <2>2. QED
    BY <1>8, <2>1 DEF WriteSentence, history
<1>9. ASSUME UNCHANGED vars PROVE Types'
  BY <1>9 DEF vars, server, clients, history
<1>10. QED
  BY <1>1, <1>2, <1>3, <1>4, <1>5, <1>6, <1>7, <1>8, <1>9 DEF Next, ServerStep, ClientStep

LEMMA OnePlaceStep == Types /\ OnePlace /\ [Next]_vars => OnePlace'
<1> SUFFICES ASSUME Types, OnePlace, [Next]_vars PROVE OnePlace'
  OBVIOUS
<1>a. /\ Len(queue) \in Nat
      /\ \A i \in 1 .. Len(queue) : queue[i] \in Clients /\ Fresh(queue[i])
  BY LenProperties, ElementOfSeq DEF OnePlace, Types
\* Whoever waits keeps its place as long as nobody comes or goes.
<1>b. ASSUME queue' = queue,
             \A c \in Clients : Fresh(c) => Fresh(c)',
             \A c \in Clients : cpc'[c] = "away" => cpc[c] = "away"
      PROVE  OnePlace'
  BY <1>a, <1>b DEF OnePlace
<1>1. ASSUME NEW c \in Clients, Connect(c) PROVE OnePlace'
  <2>1. /\ Len(queue') = Len(queue) + 1
        /\ \A i \in 1 .. Len(queue) : queue'[i] = queue[i]
        /\ queue'[Len(queue) + 1] = c
    BY <1>1, AppendProperties DEF Connect, Types
  <2>2. /\ Fresh(c) /\ \A i \in 1 .. Len(queue) : queue[i] # c
        /\ cpc' = [cpc EXCEPT ![c] = "sending"]
    BY <1>1 DEF Connect, OnePlace, Types
  <2>3. \A d \in Clients : Fresh(d) => Fresh(d)'
    BY <1>1 DEF Connect, history, Fresh
  <2>4. \A i \in 1 .. Len(queue') : i \in 1 .. Len(queue) \/ i = Len(queue) + 1
    <3>1. ASSUME NEW n \in Nat, NEW i \in 1 .. n + 1 PROVE i \in 1 .. n \/ i = n + 1
      OBVIOUS
    <3>2. QED
      BY <2>1, <1>a, <3>1
  <2>5. ASSUME NEW i \in 1 .. Len(queue') PROVE Fresh(queue[i])'
    <3>1. queue'[i] \in Clients /\ Fresh(queue'[i])
      BY <1>a, <2>1, <2>2, <2>4
    <3>2. QED
      BY <3>1, <2>3 DEF Fresh
  <2>6. ASSUME NEW i \in 1 .. Len(queue'), NEW j \in 1 .. Len(queue'), queue'[i] = queue'[j] PROVE i = j
    BY <1>a, <2>1, <2>2, <2>4, <2>6 DEF OnePlace
  <2>7. ASSUME NEW d \in Clients, cpc'[d] = "away"
        PROVE  Fresh(d)' /\ \A i \in 1 .. Len(queue') : queue'[i] # d
    <3>1. d # c /\ cpc[d] = "away"
      BY <2>2, <2>7 DEF Types
    <3>2. Fresh(d) /\ \A i \in 1 .. Len(queue) : queue[i] # d
      BY <3>1 DEF OnePlace
    <3>3. QED
      BY <3>1, <3>2, <2>1, <2>3, <2>4
  <2>8. QED
    BY <2>5, <2>6, <2>7 DEF OnePlace
<1>2. ASSUME NEW c \in Clients, ClientStep(c) \/ Kill(c) PROVE OnePlace'
  <2>1. /\ queue' = queue
        /\ \A d \in Clients : cpc'[d] = "away" => cpc[d] = "away"
        /\ \A d \in Clients : Fresh(d) => Fresh(d)'
    BY <1>2 DEF ClientStep, SendLine, SendAfterClose, SendFails, StartReceiving, Receive, ReceiveEnd,
                ReceiveFails, Kill, server, history, Fresh, Types
  <2>2. QED
    BY <2>1, <1>b
<1>3. ASSUME Accept PROVE OnePlace'
  <2>1. /\ queue # <<>> /\ conn' = Head(queue) /\ queue' = Tail(queue)
        /\ stale' \subseteq stale \cup {Head(queue)}
        /\ cpc' = cpc /\ got' = got /\ down' = down
    BY <1>3 DEF Accept, clients
  <2>2. /\ Head(queue) = queue[1] /\ Len(queue) >= 1
        /\ Len(queue') = Len(queue) - 1
        /\ \A i \in 1 .. Len(queue') : queue'[i] = queue[i + 1]
    BY <2>1, <1>a, HeadTailProperties, EmptySeq DEF Types
  <2>3. \A i \in 1 .. Len(queue') : i + 1 \in 1 .. Len(queue) /\ i + 1 # 1
    BY <2>2, <1>a
  <2>4. \A d \in Clients : Fresh(d) /\ d # queue[1] => Fresh(d)'
    BY <2>1, <2>2 DEF Fresh
  <2>5. ASSUME NEW i \in 1 .. Len(queue') PROVE Fresh(queue[i])'
    <3>1. queue'[i] \in Clients /\ Fresh(queue'[i]) /\ queue'[i] # queue[1]
      <4>1. i + 1 \in 1 .. Len(queue) /\ 1 \in 1 .. Len(queue) /\ i + 1 # 1 /\ queue'[i] = queue[i + 1]
        BY <1>a, <2>2, <2>3
      <4>2. queue[i + 1] # queue[1]
        BY <4>1 DEF OnePlace
      <4>3. QED
        BY <4>1, <4>2, <1>a
    <3>2. QED
      BY <3>1, <2>4 DEF Fresh
  <2>6. ASSUME NEW i \in 1 .. Len(queue'), NEW j \in 1 .. Len(queue'), queue'[i] = queue'[j] PROVE i = j
    <3>1. queue[i + 1] = queue[j + 1] /\ i + 1 \in 1 .. Len(queue) /\ j + 1 \in 1 .. Len(queue)
      BY <2>2, <2>3, <2>6
    <3>2. i + 1 = j + 1
      BY <3>1 DEF OnePlace
    <3>3. QED
      BY <3>2, <2>2, <1>a
  <2>7. ASSUME NEW d \in Clients, cpc'[d] = "away"
        PROVE  Fresh(d)' /\ \A i \in 1 .. Len(queue') : queue'[i] # d
    <3>1. Fresh(d) /\ \A i \in 1 .. Len(queue) : queue[i] # d
      BY <2>1, <2>7 DEF OnePlace
    <3>2. d # queue[1]
      BY <3>1, <2>2, <1>a
    <3>3. QED
      BY <3>1, <3>2, <2>2, <2>3, <2>4
  <2>8. QED
    BY <2>5, <2>6, <2>7 DEF OnePlace
<1>4. ASSUME ReadLine \/ ReadEndOfStream \/ DecideEmpty \/ DecideParse \/ WriteFails PROVE OnePlace'
  <2>1. /\ queue' = queue /\ cpc' = cpc
        /\ \A d \in Clients : Fresh(d) => Fresh(d)'
    BY <1>4 DEF ReadLine, ReadEndOfStream, DecideEmpty, DecideParse, WriteFails, clients, history, Fresh
  <2>2. QED
    BY <2>1, <1>b
<1>5. ASSUME WriteSentence PROVE OnePlace'
  <2>1. /\ queue' = queue /\ cpc' = cpc
        /\ \A d \in Clients : Fresh(d) => Fresh(d)'
    BY <1>5 DEF WriteSentence, history, Fresh
  <2>2. QED
    BY <2>1, <1>b
<1>6. ASSUME CloseSession PROVE OnePlace'
  <2>1. /\ queue' = queue /\ cpc' = cpc
        /\ \A d \in Clients : Fresh(d) => Fresh(d)'
    BY <1>6, MaltAssumption DEF CloseSession, clients, history, Fresh, MaltAssumption
  <2>2. QED
    BY <2>1, <1>b
<1>7. ASSUME UNCHANGED vars PROVE OnePlace'
  <2>1. /\ queue' = queue /\ cpc' = cpc
        /\ \A d \in Clients : Fresh(d) => Fresh(d)'
    BY <1>7 DEF vars, server, clients, history, Fresh
  <2>2. QED
    BY <2>1, <1>b
<1>8. QED
  BY <1>1, <1>2, <1>3, <1>4, <1>5, <1>6, <1>7 DEF Next, ServerStep

LEMMA FlagStep == IInv /\ [Next]_vars => FlagCarried'
<1> SUFFICES ASSUME IInv, [Next]_vars PROVE FlagCarried'
  OBVIOUS
<1>a. Types /\ FlagCarried /\ \A c \in Clients : Len(got[c]) \in Nat /\ Len(down[c]) \in Nat
  BY LenProperties DEF IInv, Types
\* Nothing happens to the flag as long as the session goes on and nothing is sent.
<1>b. ASSUME \A c \in Clients : Sent(c)' = Sent(c),
             stale' = stale, conn' = conn, spc' = spc, EOFreached' = EOFreached, last' = last
      PROVE  FlagCarried'
  BY <1>a, <1>b DEF FlagCarried, Types
<1>1. ASSUME NEW c \in Clients, Receive(c) PROVE FlagCarried'
  <2>1. ASSUME NEW d \in Clients PROVE Sent(d)' = Sent(d)
    <3>1. CASE d = c
      <4>1. Len(got'[c]) = Len(got[c]) + 1 /\ Len(down'[c]) = Len(down[c]) - 1
        BY <1>1, <1>a, HeadTailProperties, AppendProperties DEF Receive, Types
      <4>2. QED
        <5>1. Len(got[c]) \in Nat /\ Len(down[c]) \in Nat
          BY <1>a
        <5>2. Sent(c)' = Len(got'[c]) + Len(down'[c])
          BY DEF Sent
        <5>3. Sent(c) = Len(got[c]) + Len(down[c])
          BY DEF Sent
        <5>4. ASSUME NEW g \in Nat, NEW n \in Nat PROVE (g + 1) + (n - 1) = g + n
          OBVIOUS
        <5>5. Sent(c)' = (Len(got[c]) + 1) + (Len(down[c]) - 1)
          BY <4>1, <5>2
        <5>6. Sent(c)' = Sent(c)
          BY <5>1, <5>3, <5>4, <5>5
        <5>7. QED
          BY <3>1, <5>6
    <3>2. CASE d # c
      BY <1>1, <1>a, <3>2 DEF Receive, Sent, Types
    <3>3. QED
      BY <3>1, <3>2
  <2>2. QED
    BY <1>1, <1>b, <2>1 DEF Receive, server, history
<1>2. ASSUME NEW c \in Clients,
             \/ Connect(c) \/ SendLine(c) \/ SendAfterClose(c) \/ SendFails(c) \/ StartReceiving(c)
             \/ ReceiveEnd(c) \/ ReceiveFails(c) \/ Kill(c)
      PROVE  FlagCarried'
  <2>1. /\ stale' = stale /\ conn' = conn /\ spc' = spc /\ EOFreached' = EOFreached /\ last' = last
        /\ got' = got /\ down' = down
    BY <1>2 DEF Connect, SendLine, SendAfterClose, SendFails, StartReceiving, ReceiveEnd, ReceiveFails, Kill,
                server, history
  <2>2. QED
    BY <2>1, <1>b DEF Sent
<1>3. ASSUME Accept PROVE FlagCarried'
  <2>1. Head(queue) = queue[1] /\ Len(queue) >= 1 /\ Len(queue) \in Nat /\ Head(queue) \in Clients
    BY <1>3, <1>a, HeadTailProperties, EmptySeq, LenProperties DEF Accept, Types
  <2>2. Fresh(Head(queue))
    BY <2>1 DEF IInv, OnePlace
  <2>3. Sent(Head(queue)) = 0 /\ Head(queue) \notin stale
    BY <2>2, EmptySeq DEF Fresh, Sent
  <2>4. /\ conn' = Head(queue) /\ spc' = "read" /\ EOFreached' = EOFreached
        /\ stale' = IF EOFreached THEN stale \cup {Head(queue)} ELSE stale
        /\ got' = got /\ down' = down
    BY <1>3 DEF Accept, clients
  <2>5. ASSUME NEW c \in stale' PROVE Sent(c)' <= 1 /\ (c = conn' => EOFreached' /\ Sent(c)' = 0)
    <3>1. CASE c = Head(queue)
      <4>1. EOFreached'
        BY <2>3, <2>4, <3>1
      <4>2. Sent(c)' = Sent(c)
        BY <2>4 DEF Sent
      <4>3. QED
        BY <2>3, <3>1, <4>1, <4>2
    <3>2. CASE c # Head(queue)
      BY <1>a, <2>4, <3>2 DEF Sent, FlagCarried
    <3>3. QED
      BY <3>1, <3>2
  <2>6. QED
    BY <2>4, <2>5 DEF FlagCarried
<1>4. ASSUME ReadLine \/ ReadEndOfStream \/ DecideEmpty \/ DecideParse \/ WriteFails PROVE FlagCarried'
  <2>1. \A c \in Clients : Sent(c)' = Sent(c)
    BY <1>4 DEF ReadLine, ReadEndOfStream, DecideEmpty, DecideParse, WriteFails, clients, history, Sent
  <2>2. stale' = stale /\ conn' = conn
    BY <1>4 DEF ReadLine, ReadEndOfStream, DecideEmpty, DecideParse, WriteFails, clients, history
  <2>3. CASE ReadLine
    <3>1. spc = "read" /\ spc' \in {"read", "decide"}
      BY <2>3 DEF ReadLine
    <3>2. EOFreached => EOFreached'
      BY <2>3, Zenon DEF ReadLine
    <3>3. QED
      BY <2>1, <2>2, <3>1, <3>2, <1>a DEF FlagCarried, Types
  <2>4. CASE DecideParse
    BY <2>1, <2>2, <2>4, <1>a DEF DecideParse, FlagCarried, Types
  <2>5. CASE ReadEndOfStream \/ DecideEmpty \/ WriteFails
    BY <2>1, <2>2, <2>5, <1>a DEF ReadEndOfStream, DecideEmpty, WriteFails, FlagCarried, Types
  <2>6. QED
    BY <1>4, <2>3, <2>4, <2>5
<1>5. ASSUME WriteSentence PROVE FlagCarried'
  <2>1. conn \in Clients /\ Len(down'[conn]) = Len(down[conn]) + 1
    BY <1>5, <1>a, AppendProperties DEF WriteSentence, Types
  <2>2. Sent(conn)' = Sent(conn) + 1 /\ \A c \in Clients : c # conn => Sent(c)' = Sent(c)
    BY <1>5, <1>a, <2>1 DEF WriteSentence, Sent, Types
  <2>3. QED
    BY <1>5, <1>a, <2>1, <2>2 DEF WriteSentence, history, FlagCarried, Types
<1>6. ASSUME CloseSession PROVE FlagCarried'
  BY <1>6, <1>a, MaltAssumption DEF CloseSession, clients, history, Sent, MaltAssumption, FlagCarried, Types
<1>7. ASSUME UNCHANGED vars PROVE FlagCarried'
  BY <1>7, <1>b DEF vars, server, clients, history, Sent
<1>8. QED
  BY <1>1, <1>2, <1>3, <1>4, <1>5, <1>6, <1>7 DEF Next, ServerStep, ClientStep

-------------------------------------------------------------------------------
\* The invariant from which the reach of the flag follows.
THEOREM Inductive == Spec => []IInv
<1>1. IInv /\ [Next]_vars => IInv'
  BY TypesStep, OnePlaceStep, FlagStep DEF IInv
<1>2. QED
  BY <1>1, InitEstablishesIInv, PTL DEF Spec

\* A client that is accepted with EOFreached set by another one gets its first sentence
\* or none, and the connection ends with it, however many clients there are.
THEOREM StaleAlwaysTruncates == Spec => []StaleTruncates
<1>1. IInv => StaleTruncates
  <2> SUFFICES ASSUME IInv, NEW c \in stale PROVE Len(got[c] \o down[c]) <= 1
    BY DEF StaleTruncates
  <2>1. got[c] \in Seq(Nat) /\ down[c] \in Seq(Nat) /\ Sent(c) <= 1
    BY DEF IInv, Types, FlagCarried
  <2>2. Len(got[c] \o down[c]) = Len(got[c]) + Len(down[c])
    BY <2>1, ConcatProperties
  <2>3. QED
    BY <2>1, <2>2 DEF Sent
<1>2. QED
  BY <1>1, Inductive, PTL

-------------------------------------------------------------------------------
(***************************************************************************)
(* The sentences of a sequence of lines.                                   *)
(***************************************************************************)
Scans == [done : Seq(Nat), open : Nat]
NoScan == [done |-> <<>>, open |-> 0]

LEMMA AddLineType ==
    ASSUME NEW scan \in Scans, NEW l
    PROVE  AddLine(scan, l) \in Scans
<1>1. Append(scan.done, scan.open) \in Seq(Nat)
  BY AppendProperties DEF Scans
<1>2. QED
  BY <1>1 DEF AddLine, Scans

ScanUpTo(s, k, f) ==
    /\ f[0] = NoScan
    /\ \A n \in 1 .. k : f[n] = AddLine(f[n - 1], s[n])

LEMMA ScanUpToWhole ==
    ASSUME NEW s \in Seq(Lines)
    PROVE  \E f \in [0 .. Len(s) -> Scans] : ScanUpTo(s, Len(s), f)
<1> DEFINE step == [n \in 1 .. Len(s) |-> [q \in Scans |-> AddLine(q, s[n])]]
<1>1. Len(s) \in Nat /\ NoScan \in Scans
  BY LenProperties, EmptySeq DEF NoScan, Scans
<1>2. step \in [1 .. Len(s) -> [Scans -> Scans]]
  BY AddLineType
<1>3. \A n \in 1 .. Len(s), q \in Scans : step[n][q] = AddLine(q, s[n])
  OBVIOUS
<1> HIDE DEF step
<1>4. PICK f \in [0 .. Len(s) -> Scans] : Follows(f, NoScan, Len(s), step)
  BY <1>1, <1>2, RecursionExists
<1>5. \A n \in 1 .. Len(s) : f[n - 1] \in Scans
  BY <1>1
<1>6. ScanUpTo(s, Len(s), f)
  BY <1>3, <1>4, <1>5 DEF Follows, ScanUpTo
<1>7. QED
  BY <1>6

LEMMA ScanIs ==
    ASSUME NEW s \in Seq(Lines), NEW f, ScanUpTo(s, Len(s), f)
    PROVE  Scan(s) = f[Len(s)]
<1> DEFINE Body(g) == [n \in 0 .. Len(s) |-> IF n = 0 THEN [done |-> <<>>, open |-> 0] ELSE AddLine(g[n - 1], s[n])]
           chosen == CHOOSE g : g = Body(g)
<1>1. Len(s) \in Nat
  BY LenProperties
<1>2. \E g : g = Body(g)
  <2>1. PICK g \in [0 .. Len(s) -> Scans] : ScanUpTo(s, Len(s), g)
    BY ScanUpToWhole
  <2>2. ASSUME NEW n \in 0 .. Len(s) PROVE g[n] = Body(g)[n]
    <3>1. CASE n = 0
      BY <1>1, <2>1, <3>1 DEF ScanUpTo, NoScan
    <3>2. CASE n \in 1 .. Len(s)
      BY <1>1, <2>1, <3>2 DEF ScanUpTo
    <3>3. QED
      BY <1>1, <3>1, <3>2
  <2>3. g = Body(g)
    <3> DEFINE h == Body(g)
    <3>1. h = [n \in 0 .. Len(s) |-> h[n]] /\ \A n \in 0 .. Len(s) : g[n] = h[n]
      BY <2>2
    <3> HIDE DEF h
    <3>2. g = h
      BY <3>1
    <3>3. QED
      BY <3>2 DEF h
  <2>4. QED
    BY <2>3
<1>3. chosen = Body(chosen)
  BY <1>2
<1>4. ScanUpTo(s, Len(s), chosen)
  <2>1. \A n \in 0 .. Len(s) : chosen[n] = Body(chosen)[n]
    BY <1>3
  <2>2. chosen[0] = NoScan
    BY <1>1, <2>1 DEF NoScan
  <2>3. ASSUME NEW n \in 1 .. Len(s) PROVE chosen[n] = AddLine(chosen[n - 1], s[n])
    <3>1. n \in 0 .. Len(s) /\ n # 0
      BY <1>1
    <3>2. chosen[n] = Body(chosen)[n]
      BY <2>1, <3>1
    <3> HIDE DEF chosen
    <3>3. QED
      BY <3>1, <3>2
  <2>4. QED
    BY <2>2, <2>3 DEF ScanUpTo
<1>5. chosen[Len(s)] = f[Len(s)]
  <2> HIDE DEF chosen
  <2>1. chosen[0] = f[0] /\ \A n \in 1 .. Len(s) : chosen[n - 1] = f[n - 1] => chosen[n] = f[n]
    BY <1>4 DEF ScanUpTo
  <2>2. QED
    BY <1>1, <2>1, RecursionAgrees
<1>6. QED
  BY <1>5 DEF Scan

LEMMA ScanNothing == Scan(<<>>) = NoScan
<1> DEFINE f == [n \in 0 .. 0 |-> NoScan]
<1>1. <<>> \in Seq(Lines) /\ Len(<<>>) = 0
  BY EmptySeq
<1>2. ScanUpTo(<<>>, Len(<<>>), f)
  BY <1>1 DEF ScanUpTo
<1>3. QED
  BY <1>1, <1>2, ScanIs

LEMMA ScanAppend ==
    ASSUME NEW s \in Seq(Lines), NEW l \in Lines
    PROVE  Scan(s) \in Scans /\ Scan(Append(s, l)) = AddLine(Scan(s), l)
<1> DEFINE t == Append(s, l)
<1>1. /\ t \in Seq(Lines) /\ Len(s) \in Nat /\ Len(t) = Len(s) + 1
      /\ \A n \in 1 .. Len(s) : t[n] = s[n]
      /\ t[Len(s) + 1] = l
  BY AppendProperties, LenProperties
<1> HIDE DEF t
<1>2. PICK f \in [0 .. Len(t) -> Scans] : ScanUpTo(t, Len(t), f)
  BY <1>1, ScanUpToWhole
<1>3. ScanUpTo(s, Len(s), f)
  <2>1. \A n \in 1 .. Len(s) : n \in 1 .. Len(t) /\ s[n] = t[n]
    BY <1>1
  <2>2. QED
    BY <1>2, <2>1 DEF ScanUpTo
<1>4. Scan(t) = f[Len(s) + 1] /\ Scan(s) = f[Len(s)]
  BY <1>1, <1>2, <1>3, ScanIs
<1>5. f[Len(s) + 1] = AddLine(f[Len(s)], l)
  <2>1. Len(s) + 1 \in 1 .. Len(t) /\ (Len(s) + 1) - 1 = Len(s)
    BY <1>1
  <2>2. QED
    BY <1>1, <1>2, <2>1 DEF ScanUpTo
<1>6. f[Len(s)] \in Scans
  BY <1>1
<1>7. QED
  BY <1>4, <1>5, <1>6 DEF t

LEMMA ScanType == \A s \in Seq(Lines) : Scan(s) \in Scans
BY ScanAppend DEF Lines

\* Reading on, sentences are added to those that have ended.
LEMMA ScanGrowsStep ==
    ASSUME NEW s \in Seq(Lines), NEW t \in Seq(Lines), NEW l \in Lines, NEW e \in Seq(Nat), NEW u \in Seq(Nat),
           Scan(Cat(s, t)).done = Cat(e, u)
    PROVE  \E v \in Seq(Nat) : Scan(Cat(s, Append(t, l))).done = Cat(e, v)
<1> DEFINE r == Cat(s, t)
<1>1. r \in Seq(Lines) /\ Cat(s, Append(t, l)) = Append(r, l)
  BY CatOfAppend
<1> HIDE DEF r
<1>2. Scan(r) \in Scans /\ Scan(Append(r, l)) = AddLine(Scan(r), l)
  BY <1>1, ScanAppend
<1>3. Scan(r).done = Cat(e, u)
  BY DEF r
<1>4. CASE AddLine(Scan(r), l).done = Scan(r).done
  BY <1>1, <1>2, <1>3, <1>4
<1>5. CASE AddLine(Scan(r), l).done = Append(Scan(r).done, Scan(r).open)
  <2> DEFINE n == Scan(r).open
  <2>1. n \in Nat
    BY <1>2 DEF Scans
  <2> HIDE DEF n
  <2>2. <<n>> \in Seq(Nat) /\ Append(Cat(e, u), n) = Cat(Cat(e, u), <<n>>)
    <3>1. Cat(e, u) \in Seq(Nat)
      BY CatLaws
    <3>2. QED
      BY <2>1, <3>1, CatAppend
  <2>3. Cat(Cat(e, u), <<n>>) = Cat(e, Cat(u, <<n>>)) /\ Cat(u, <<n>>) \in Seq(Nat)
    <3>1. \A x, y, z \in Seq(Nat) : Cat(Cat(x, y), z) = Cat(x, Cat(y, z)) /\ Cat(y, z) \in Seq(Nat)
      BY CatLaws
    <3>2. QED
      BY <2>2, <3>1
  <2>4. Scan(Append(r, l)).done = Append(Cat(e, u), n)
    BY <1>2, <1>3, <1>5 DEF n
  <2>5. Scan(Cat(s, Append(t, l))).done = Cat(e, Cat(u, <<n>>))
    BY <1>1, <2>2, <2>3, <2>4
  <2>6. QED
    BY <2>3, <2>5
<1>6. QED
  BY <1>4, <1>5 DEF AddLine

LEMMA ScanGrows ==
    ASSUME NEW s \in Seq(Lines)
    PROVE  \A t \in Seq(Lines) : \E u \in Seq(Nat) : Scan(Cat(s, t)).done = Cat(Scan(s).done, u)
<1> DEFINE e == Scan(s).done
           G == {t \in Seq(Lines) : \E u \in Seq(Nat) : Scan(Cat(s, t)).done = Cat(e, u)}
<1>1. e \in Seq(Nat)
  BY ScanType DEF Scans
<1> HIDE DEF e
<1>2. <<>> \in G
  <2>1. Cat(s, <<>>) = s /\ <<>> \in Seq(Lines)
    BY CatLaws
  <2>2. Cat(e, <<>>) = e /\ <<>> \in Seq(Nat)
    BY <1>1, CatLaws
  <2>3. Scan(Cat(s, <<>>)).done = Cat(e, <<>>)
    BY <2>1, <2>2 DEF e
  <2>4. QED
    BY <2>1, <2>2, <2>3
<1>3. ASSUME NEW t \in Seq(Lines), NEW l \in Lines, t \in G PROVE Append(t, l) \in G
  <2>1. PICK u \in Seq(Nat) : Scan(Cat(s, t)).done = Cat(e, u)
    BY <1>3
  <2>2. \E v \in Seq(Nat) : Scan(Cat(s, Append(t, l))).done = Cat(e, v)
    BY <1>1, <2>1, ScanGrowsStep
  <2>3. Append(t, l) \in Seq(Lines)
    BY AppendProperties
  <2>4. QED
    BY <2>2, <2>3
<1> HIDE DEF G
<1>4. Seq(Lines) \subseteq G
  BY <1>2, <1>3, SequenceInduction
<1>5. QED
  BY <1>4 DEF G, e

\* What a client writes: its text, an empty line and the mark.
LEMMA StreamIs ==
    ASSUME NEW d \in Seq({"token", "blank"})
    PROVE  /\ d \in Seq(Lines) /\ Append(d, "blank") \in Seq(Lines) /\ ClientStream(d) \in Seq(Lines)
           /\ ClientStream(d) = Append(Append(d, "blank"), "#EOF")
<1>1. d \in Seq(Lines) /\ "blank" \in Lines /\ "#EOF" \in Lines
  BY DEF Lines
<1>2. Append(d, "blank") \in Seq(Lines)
  BY <1>1, AppendProperties
<1>3. d \o Append(<<"blank">>, "#EOF") = Append(d \o <<"blank">>, "#EOF")
  BY <1>1, CatAppend, ConcatAppend
<1>4. d \o <<"blank">> = Append(d, "blank") /\ Append(<<"blank">>, "#EOF") = <<"blank", "#EOF">>
  <2>1. d \o <<"blank">> = Append(d, "blank")
    BY <1>1, AppendIsConcat
  <2>2. Append(<<"blank">>, "#EOF") = <<"blank", "#EOF">>
    <3>1. <<"blank">> \in Seq(Lines) /\ <<"blank", "#EOF">> \in Seq(Lines) /\ "#EOF" \in Lines
      BY DEF Lines
    <3>2. /\ Append(<<"blank">>, "#EOF") \in Seq(Lines) /\ Len(Append(<<"blank">>, "#EOF")) = 2
          /\ Append(<<"blank">>, "#EOF")[1] = "blank" /\ Append(<<"blank">>, "#EOF")[2] = "#EOF"
      BY <3>1, AppendProperties
    <3>3. Len(<<"blank", "#EOF">>) = 2 /\ \A i \in 1 .. 2 : i = 1 \/ i = 2
      OBVIOUS
    <3>4. \A i \in 1 .. 2 : Append(<<"blank">>, "#EOF")[i] = <<"blank", "#EOF">>[i]
      BY <3>2, <3>3
    <3> DEFINE x == Append(<<"blank">>, "#EOF")
               y == <<"blank", "#EOF">>
    <3> HIDE DEF x, y
    <3>5. /\ x \in Seq(Lines) /\ y \in Seq(Lines) /\ Len(x) = Len(y)
          /\ \A i \in 1 .. Len(x) : x[i] = y[i]
      BY <3>1, <3>2, <3>3, <3>4 DEF x, y
    <3>6. x = y
      BY <3>5, SeqEqual
    <3>7. QED
      BY <3>6 DEF x, y
  <2>3. QED
    BY <2>1, <2>2
<1>5. ClientStream(d) = Append(Append(d, "blank"), "#EOF")
  BY <1>3, <1>4 DEF ClientStream
<1>6. QED
  BY <1>1, <1>2, <1>5, AppendProperties

\* The mark ends no sentence that the empty line before it has not ended.
LEMMA ScanMark ==
    ASSUME NEW d \in Seq({"token", "blank"})
    PROVE  /\ Scan(ClientStream(d)).done = Sentences(d)
           /\ Sentences(d) \in Seq(Nat)
<1> DEFINE t == Append(d, "blank")
<1>1. d \in Seq(Lines) /\ t \in Seq(Lines) /\ ClientStream(d) = Append(t, "#EOF")
  BY StreamIs
<1>2. Scan(d) \in Scans /\ Scan(t) = AddLine(Scan(d), "blank")
  BY <1>1, ScanAppend DEF Lines
<1>3. Scan(t).open = 0
  BY <1>2 DEF AddLine, Scans
<1> HIDE DEF t
<1>4. Scan(ClientStream(d)) = AddLine(Scan(t), "#EOF")
  BY <1>1, ScanAppend DEF Lines
<1>5. Scan(ClientStream(d)) = Scan(t)
  BY <1>3, <1>4 DEF AddLine
<1>6. Scan(t) \in Scans
  BY <1>1, ScanType
<1>7. QED
  BY <1>5, <1>6 DEF Sentences, t, Scans

\* Where in the stream of a text the end of a sentence can be.
LEMMA SentenceEnd ==
    ASSUME NEW d \in Seq({"token", "blank"}), NEW q \in Seq(Lines), NEW l \in {"blank", "#EOF"}, NEW m \in Seq(Lines),
           ClientStream(d) = Cat(Append(q, l), m)
    PROVE  \/ l = "#EOF" /\ m = <<>> /\ q = Append(d, "blank")
           \/ l = "blank" /\ q = d
           \/ /\ l = "blank" /\ Len(q) < Len(d)
              /\ \A i \in 1 .. Len(q) : q[i] = d[i]
              /\ d[Len(q) + 1] = "blank"
<1> DEFINE k == Len(q)
           n == Len(d)
           s == ClientStream(d)
<1>1. /\ k \in Nat /\ n \in Nat /\ Len(m) \in Nat
      /\ s \in Seq(Lines)
      /\ Len(s) = n + 2
      /\ \A i \in 1 .. n : s[i] = d[i] /\ d[i] \in {"token", "blank"}
      /\ s[n + 1] = "blank" /\ s[n + 2] = "#EOF"
  <2>1. s = Append(Append(d, "blank"), "#EOF") /\ Append(d, "blank") \in Seq(Lines) /\ d \in Seq(Lines) /\ s \in Seq(Lines)
    BY StreamIs
  <2>2. "blank" \in Lines /\ "#EOF" \in Lines
    BY DEF Lines
  <2>3. /\ Len(Append(d, "blank")) = n + 1
        /\ \A i \in 1 .. n : Append(d, "blank")[i] = d[i]
        /\ Append(d, "blank")[n + 1] = "blank"
    BY <2>1, <2>2, AppendProperties
  <2>4. /\ Len(s) = (n + 1) + 1
        /\ \A i \in 1 .. n + 1 : s[i] = Append(d, "blank")[i]
        /\ s[(n + 1) + 1] = "#EOF"
    BY <2>1, <2>2, <2>3, AppendProperties
  <2>5. k \in Nat /\ n \in Nat /\ Len(m) \in Nat /\ \A i \in 1 .. n : d[i] \in {"token", "blank"}
    BY ElementOfSeq, LenProperties
  <2> HIDE DEF s, n
  <2>6. \A i \in 1 .. n : i \in 1 .. n + 1
    BY <2>5
  <2>7. QED
    BY <2>1, <2>3, <2>4, <2>5, <2>6
<1>2. /\ Len(s) = k + 1 + Len(m)
      /\ \A i \in 1 .. k : s[i] = q[i]
      /\ s[k + 1] = l
  <2>1. /\ Append(q, l) \in Seq(Lines) /\ Len(Append(q, l)) = k + 1
        /\ \A i \in 1 .. k : Append(q, l)[i] = q[i]
        /\ Append(q, l)[k + 1] = l
    BY AppendProperties DEF Lines
  <2>2. /\ Len(s) = Len(Append(q, l)) + Len(m)
        /\ \A i \in 1 .. Len(Append(q, l)) : s[i] = Append(q, l)[i]
    BY <2>1, ConcatProperties DEF Cat
  <2> HIDE DEF s, k
  <2>3. \A i \in 1 .. k : i \in 1 .. k + 1
    BY <1>1
  <2>4. k + 1 \in 1 .. k + 1
    BY <1>1
  <2>5. QED
    BY <2>1, <2>2, <2>3, <2>4
<1> HIDE DEF s, k, n
<1>3. k <= n + 1
  BY <1>1, <1>2
<1>4. CASE k = n + 1
  <2>1. l = "#EOF" /\ Len(m) = 0
    BY <1>1, <1>2, <1>4
  <2>2. q = Append(d, "blank")
    <3>1. /\ Append(d, "blank") \in Seq(Lines) /\ Len(Append(d, "blank")) = n + 1
          /\ \A i \in 1 .. n : Append(d, "blank")[i] = d[i]
          /\ Append(d, "blank")[n + 1] = "blank"
      BY StreamIs, AppendProperties DEF n, Lines
    <3>2. \A i \in 1 .. n + 1 : i \in 1 .. n \/ i = n + 1
      BY <1>1
    <3>3. \A i \in 1 .. k : q[i] = Append(d, "blank")[i]
      BY <1>1, <1>2, <1>4, <3>1, <3>2
    <3>4. Len(q) = Len(Append(d, "blank"))
      BY <1>4, <3>1 DEF k
    <3>5. QED
      BY <3>1, <3>3, <3>4, SeqEqual DEF k
  <2>3. QED
    BY <2>1, <2>2, EmptySeq
<1>5. CASE k = n
  <2>1. l = "blank"
    BY <1>1, <1>2, <1>5
  <2>2. \A i \in 1 .. k : q[i] = d[i]
    BY <1>1, <1>2, <1>5
  <2>3. d \in Seq(Lines) /\ Len(q) = Len(d)
    BY <1>5, StreamIs DEF k, n
  <2>4. q = d
    BY <2>2, <2>3, SeqEqual DEF k
  <2>5. QED
    BY <2>1, <2>4
<1>6. CASE k < n
  <2>1. k + 1 \in 1 .. n /\ \A i \in 1 .. k : i \in 1 .. n
    BY <1>1, <1>6
  <2>2. l = d[k + 1] /\ \A i \in 1 .. k : q[i] = d[i]
    BY <1>1, <1>2, <2>1
  <2>3. d[k + 1] = "blank"
    BY <1>1, <2>1, <2>2
  <2>4. QED
    BY <1>6, <2>2, <2>3 DEF k, n
<1>7. QED
  BY <1>1, <1>3, <1>4, <1>5, <1>6

\* The server takes an empty sentence for the end of the text: in a well separated
\* text it is.
LEMMA EmptySentence ==
    ASSUME NEW d \in Seq({"token", "blank"}), NEW q \in Seq(Lines), NEW l \in {"blank", "#EOF"}, NEW m \in Seq(Lines),
           ClientStream(d) = Cat(Append(q, l), m), Scan(q).open = 0, WellSeparated(d)
    PROVE  Scan(q).done = Sentences(d)
<1>1. CASE q = Append(d, "blank")
  BY <1>1 DEF Sentences
<1>2. CASE q = d
  <2>1. d \in Seq(Lines) /\ "blank" \in Lines
    BY StreamIs DEF Lines
  <2>2. Scan(Append(d, "blank")) = AddLine(Scan(d), "blank")
    BY <2>1, ScanAppend
  <2>3. QED
    BY <1>2, <2>2 DEF AddLine, Sentences
<1>3. CASE /\ Len(q) < Len(d)
           /\ \A i \in 1 .. Len(q) : q[i] = d[i]
           /\ d[Len(q) + 1] = "blank"
  <2>1. Len(q) \in Nat /\ Len(d) \in Nat
    BY LenProperties
  <2>2. CASE q = <<>>
    <3>1. Len(q) = 0 /\ d # <<>> /\ Head(d) = d[1]
      BY <1>3, <2>1, <2>2, EmptySeq, HeadTailProperties
    <3>2. QED
      BY <1>3, <3>1 DEF WellSeparated
  <2>3. CASE q # <<>>
    <3>1. PICK u \in Seq(Lines), x \in Lines : q = Append(u, x)
      BY <2>3, SequenceEmptyOrAppend
    <3>2. Scan(u) \in Scans /\ Scan(q) = AddLine(Scan(u), x)
      BY <3>1, ScanAppend
    <3>3. x # "token"
      <4>1. ASSUME x = "token" PROVE FALSE
        <5>1. Scan(q).open = Scan(u).open + 1 /\ Scan(u).open \in Nat
          BY <3>2, <4>1 DEF AddLine, Scans
        <5>2. QED
          BY <5>1
      <4>2. QED
        BY <4>1
    <3>4. Len(q) = Len(u) + 1 /\ Len(u) \in Nat /\ q[Len(q)] = x
      <4>1. Len(Append(u, x)) = Len(u) + 1 /\ Append(u, x)[Len(u) + 1] = x /\ Len(u) \in Nat
        BY AppendProperties, LenProperties
      <4>2. QED
        BY <3>1, <4>1
    <3>5. Len(q) \in 1 .. Len(q) /\ Len(q) \in 1 .. Len(d) - 1
      BY <1>3, <2>1, <3>4
    <3>6. d[Len(q)] = x
      BY <1>3, <3>4, <3>5
    <3>7. d[Len(q)] = "token" \/ d[Len(q) + 1] = "token"
      BY <3>5 DEF WellSeparated
    <3>8. QED
      BY <1>3, <3>3, <3>6, <3>7
  <2>4. QED
    BY <2>2, <2>3
<1>4. QED
  BY <1>1, <1>2, <1>3, SentenceEnd

-------------------------------------------------------------------------------
(***************************************************************************)
(* The replies.  While a client is served, the lines that the server has   *)
(* read, r, and those that are on their way make its stream, and the       *)
(* replies are the sentences that end within r, but for the one at hand.   *)
(***************************************************************************)
Reply(c)     == Cat(got[c], down[c])
Stream(c)    == ClientStream(doc[c])
Left(c)      == Cat(up[c], unsent[c])
Begins(s, t) == \E u \in Seq(Nat) : t = Cat(s, u)
Waiting(c)   == \E i \in 1 .. Len(queue) : queue[i] = c

\* Only a client that has connected is queued or served, over an open connection.
Session(c) ==
    /\ cpc[c] = "away" => conns[c] = "open" /\ up[c] = <<>>
    /\ cpc[c] = "done" => down[c] = <<>> /\ conns[c] # "open"
    /\ Waiting(c) \/ c = conn => conns[c] = "open" /\ cpc[c] # "away"

Sessions ==
    /\ doc \in [Clients -> Seq({"token", "blank"})]
    /\ conns \in [Clients -> {"open", "closed", "reset"}]
    /\ \A c \in Clients : Session(c)

Progress(c, r) ==
    /\ spc = "read" => Scan(r) = [done |-> Reply(c), open |-> tokens]
    /\ spc = "decide" => \E q \in Seq(Lines), l \in {"blank", "#EOF"} :
                             r = Append(q, l) /\ Scan(q) = [done |-> Reply(c), open |-> tokens]
    /\ spc = "write" => Scan(r) = [done |-> Append(Reply(c), tokens), open |-> 0]

Prompt(c) == cpc[c] # "killed" => Begins(Reply(c), Sentences(doc[c]))

Reading(c) ==
    conns[c] = "open" /\ cpc[c] \notin {"away", "killed"} =>
        \E r \in Seq(Lines) :
            /\ Stream(c) = Cat(r, Left(c))
            /\ c = conn => Progress(c, r)
            /\ c # conn => r = <<>>

Whole(c) ==
    /\ conns[c] # "open" /\ cpc[c] # "killed"
    /\ c \notin stale \cup rejected
    /\ WellSeparated(doc[c])
    => Reply(c) = Sentences(doc[c])

Served(c) == Prompt(c) /\ Reading(c) /\ Whole(c)

\* Unless an earlier connection has set the flag, it is set by the mark, and the
\* session ends after the sentence before the mark.
Ending(c) ==
    c = conn /\ c \notin stale /\ cpc[c] # "killed" =>
        /\ spc = "read" => ~EOFreached
        /\ spc = "decide" /\ EOFreached => Left(c) = <<>>
        /\ spc = "write" => ~EOFreached
        /\ spc = "write" /\ last => Left(c) = <<>>
        /\ spc = "close" /\ c \notin rejected /\ WellSeparated(doc[c]) => Reply(c) = Sentences(doc[c])

RepliesInv ==
    /\ Sessions
    /\ \A c \in Clients : Served(c) /\ Ending(c)

\* A step that leaves the replies to a client and the rest of its stream alone.
Untouched(c) ==
    /\ Reply(c)' = Reply(c) /\ doc'[c] = doc[c]
    /\ conns'[c] = "open" <=> conns[c] = "open"
    /\ conns[c] = "open" => Left(c)' = Left(c)
    /\ cpc[c] = "away" => cpc'[c] = "away"
    /\ cpc[c] = "killed" => cpc'[c] = "killed"
    /\ stale \subseteq stale' /\ rejected \subseteq rejected'

LEMMA ServedKept ==
    ASSUME NEW c \in Clients, Served(c), Untouched(c),
           c = conn <=> c = conn', c = conn => spc' = spc /\ tokens' = tokens
    PROVE  Served(c)'
<1>1. Prompt(c)'
  BY DEF Served, Untouched, Prompt, Begins
<1>2. Whole(c)'
  BY DEF Served, Untouched, Whole
<1>3. Reading(c)'
  <2> SUFFICES ASSUME conns'[c] = "open", cpc'[c] \notin {"away", "killed"}
               PROVE  \E r \in Seq(Lines) :
                          /\ Stream(c)' = Cat(r, Left(c)')
                          /\ c = conn' => Progress(c, r)'
                          /\ c # conn' => r = <<>>
    BY DEF Reading
  <2>1. conns[c] = "open" /\ cpc[c] \notin {"away", "killed"} /\ Left(c)' = Left(c) /\ Reply(c)' = Reply(c) /\ Stream(c)' = Stream(c)
    BY DEF Untouched, Stream
  <2>2. PICK r \in Seq(Lines) : Stream(c) = Cat(r, Left(c)) /\ (c = conn => Progress(c, r)) /\ (c # conn => r = <<>>)
    BY <2>1 DEF Served, Reading
  <2>3. c = conn' => Progress(c, r)'
    BY <2>1, <2>2 DEF Progress
  <2>4. QED
    BY <2>1, <2>2, <2>3
<1>4. QED
  BY <1>1, <1>2, <1>3 DEF Served

LEMMA EndingKept ==
    ASSUME NEW c \in Clients, Ending(c), Untouched(c), c = conn => conns[c] = "open",
           conn' = conn, spc' = spc, EOFreached' = EOFreached, last' = last
    PROVE  Ending(c)'
BY DEF Ending, Untouched

\* The steps of the clients only move lines and sentences along.
LEMMA ClientsMove ==
    ASSUME Types, Sessions, NEW c \in Clients, ClientStep(c) \/ Kill(c), NEW d \in Clients
    PROVE  Untouched(d) /\ UNCHANGED <<server, history>>
<1>1. CASE SendLine(c)
  <2>1. /\ unsent[c] # <<>> /\ unsent[c] \in Seq(Lines) /\ up[c] \in Seq(Lines)
        /\ up' = [up EXCEPT ![c] = Append(up[c], Head(unsent[c]))]
        /\ unsent' = [unsent EXCEPT ![c] = Tail(unsent[c])]
        /\ up \in [Clients -> Seq(Lines)] /\ unsent \in [Clients -> Seq(Lines)]
        /\ UNCHANGED <<server, cpc, doc, down, got, conns, history>>
    BY <1>1 DEF SendLine, Types
  <2>2. Cat(Append(up[c], Head(unsent[c])), Tail(unsent[c])) = Cat(up[c], unsent[c])
    BY <2>1, MoveOne
  <2>3. up'[c] = Append(up[c], Head(unsent[c])) /\ unsent'[c] = Tail(unsent[c])
    BY <2>1
  <2>4. d # c => up'[d] = up[d] /\ unsent'[d] = unsent[d]
    BY <2>1
  <2>5. Left(d)' = Left(d)
    BY <2>2, <2>3, <2>4 DEF Left
  <2>6. QED
    BY <2>1, <2>5 DEF Untouched, Reply, history
<1>2. CASE Receive(c)
  <2>1. /\ down[c] # <<>> /\ down[c] \in Seq(Nat) /\ got[c] \in Seq(Nat)
        /\ got' = [got EXCEPT ![c] = Append(got[c], Head(down[c]))]
        /\ down' = [down EXCEPT ![c] = Tail(down[c])]
        /\ got \in [Clients -> Seq(Nat)] /\ down \in [Clients -> Seq(Nat)]
        /\ UNCHANGED <<server, cpc, doc, unsent, up, conns, history>>
    BY <1>2 DEF Receive, Types
  <2>2. Cat(Append(got[c], Head(down[c])), Tail(down[c])) = Cat(got[c], down[c])
    BY <2>1, MoveOne
  <2>3. got'[c] = Append(got[c], Head(down[c])) /\ down'[c] = Tail(down[c])
    BY <2>1
  <2>4. d # c => got'[d] = got[d] /\ down'[d] = down[d]
    BY <2>1
  <2>5. Reply(d)' = Reply(d)
    BY <2>2, <2>3, <2>4 DEF Reply
  <2>6. QED
    BY <2>1, <2>5 DEF Untouched, Left, history
<1>3. CASE SendAfterClose(c)
  BY <1>3 DEF SendAfterClose, Untouched, Left, Reply, history, Types, Sessions
<1>4. CASE SendFails(c) \/ StartReceiving(c) \/ ReceiveEnd(c) \/ ReceiveFails(c) \/ Kill(c)
  BY <1>4 DEF SendFails, StartReceiving, ReceiveEnd, ReceiveFails, Kill, Untouched, Left, Reply, history, Types
<1>5. QED
  BY <1>1, <1>2, <1>3, <1>4 DEF ClientStep

LEMMA SessionsStep == Types /\ OnePlace /\ Sessions /\ [Next]_vars => Sessions'
<1> SUFFICES ASSUME Types, OnePlace, Sessions, [Next]_vars PROVE Sessions'
  OBVIOUS
<1>a. Len(queue) \in Nat /\ \A i \in 1 .. Len(queue) : queue[i] \in Clients
  BY LenProperties, ElementOfSeq DEF Types
<1>1. ASSUME NEW c \in Clients, Connect(c) PROVE Sessions'
  <2>1. /\ Len(queue') = Len(queue) + 1
        /\ \A i \in 1 .. Len(queue) : queue'[i] = queue[i]
        /\ queue'[Len(queue) + 1] = c
    BY <1>1, AppendProperties DEF Connect, Types
  <2>2. \A i \in 1 .. Len(queue') : i \in 1 .. Len(queue) \/ i = Len(queue) + 1
    <3>1. ASSUME NEW n \in Nat, NEW i \in 1 .. n + 1 PROVE i \in 1 .. n \/ i = n + 1
      OBVIOUS
    <3>2. QED
      BY <2>1, <1>a, <3>1
  <2>3. ASSUME NEW d \in Clients PROVE Waiting(d)' => Waiting(d) \/ d = c
    BY <2>1, <2>2 DEF Waiting
  <2>4. doc' \in [Clients -> Seq({"token", "blank"})]
    BY <1>1, MaltAssumption DEF Connect, MaltAssumption, Sessions
  <2>5. /\ cpc' = [cpc EXCEPT ![c] = "sending"] /\ cpc[c] = "away"
        /\ conns' = conns /\ conn' = conn /\ up' = up /\ down' = down
    BY <1>1 DEF Connect
  <2>6. ASSUME NEW d \in Clients PROVE Session(d)'
    <3>1. Session(d) /\ Session(c)
      BY DEF Sessions
    <3>2. CASE d = c
      BY <2>5, <3>1, <3>2 DEF Session, Types
    <3>3. CASE d # c
      BY <2>3, <2>5, <3>1, <3>3 DEF Session, Types
    <3>4. QED
      BY <3>2, <3>3
  <2>7. QED
    BY <2>4, <2>5, <2>6 DEF Sessions
<1>2. ASSUME NEW c \in Clients, ClientStep(c) \/ Kill(c) PROVE Sessions'
  <2>1. UNCHANGED server /\ doc' = doc
    BY <1>2 DEF ClientStep, SendLine, SendAfterClose, SendFails, StartReceiving, Receive, ReceiveEnd, ReceiveFails,
                Kill
  <2>2. \A d \in Clients : Waiting(d)' = Waiting(d)
    BY <2>1 DEF server, Waiting
  <2>3. ASSUME NEW d \in Clients PROVE Session(d)'
    <3>1. Session(d) /\ conn' = conn /\ cpc[c] \notin {"away", "done"}
      BY <1>2, <2>1 DEF Sessions, server, ClientStep, SendLine, SendAfterClose, SendFails, StartReceiving, Receive,
                        ReceiveEnd, ReceiveFails, Kill
    <3>2. CASE d # c
      <4>1. cpc'[d] = cpc[d] /\ conns'[d] = conns[d] /\ up'[d] = up[d] /\ down'[d] = down[d]
        BY <1>2, <3>2 DEF ClientStep, SendLine, SendAfterClose, SendFails, StartReceiving, Receive, ReceiveEnd,
                          ReceiveFails, Kill, Types, Sessions
      <4>2. QED
        BY <2>2, <3>1, <4>1 DEF Session
    <3>3. CASE d = c
      <4>1. cpc'[c] # "away" /\ (conns[c] = "open" => conns'[c] = "open")
        BY <1>2, <3>1 DEF ClientStep, SendLine, SendAfterClose, SendFails, StartReceiving, Receive, ReceiveEnd,
                          ReceiveFails, Kill, Types, Sessions
      <4>2. cpc'[c] = "done" => down'[c] = <<>> /\ conns'[c] # "open"
        BY <1>2, <3>1 DEF ClientStep, SendLine, SendAfterClose, SendFails, StartReceiving, Receive, ReceiveEnd,
                          ReceiveFails, Kill, Types, Sessions
      <4>3. QED
        BY <2>2, <3>1, <3>3, <4>1, <4>2 DEF Session
    <3>4. QED
      BY <3>2, <3>3
  <2>4. conns' \in [Clients -> {"open", "closed", "reset"}]
    BY <1>2 DEF ClientStep, SendLine, SendAfterClose, SendFails, StartReceiving, Receive, ReceiveEnd, ReceiveFails,
                Kill, Sessions
  <2>5. QED
    BY <2>1, <2>3, <2>4 DEF Sessions
<1>3. ASSUME Accept PROVE Sessions'
  <2>1. /\ queue # <<>> /\ conn' = Head(queue) /\ queue' = Tail(queue)
        /\ cpc' = cpc /\ up' = up /\ down' = down /\ doc' = doc /\ conns' = conns
    BY <1>3 DEF Accept, clients
  <2>2. /\ Head(queue) = queue[1] /\ Len(queue) >= 1
        /\ Len(queue') = Len(queue) - 1
        /\ \A i \in 1 .. Len(queue') : queue'[i] = queue[i + 1]
    BY <2>1, <1>a, HeadTailProperties, EmptySeq DEF Types
  <2>3. \A i \in 1 .. Len(queue') : i + 1 \in 1 .. Len(queue)
    BY <2>2, <1>a
  <2>4. ASSUME NEW d \in Clients PROVE Waiting(d)' \/ d = conn' => Waiting(d)
    <3>1. Waiting(d)' => Waiting(d)
      BY <2>2, <2>3 DEF Waiting
    <3>2. 1 \in 1 .. Len(queue)
      BY <2>2, <1>a
    <3>3. QED
      BY <2>1, <2>2, <3>1, <3>2 DEF Waiting
  <2>5. QED
    BY <2>1, <2>4 DEF Sessions, Session
<1>4. ASSUME ReadLine \/ ReadEndOfStream \/ DecideEmpty \/ DecideParse \/ WriteFails \/ WriteSentence PROVE Sessions'
  <2>1. /\ queue' = queue /\ conn' = conn /\ cpc' = cpc /\ doc' = doc /\ conns' = conns
        /\ conn \in Clients
        /\ \A c \in Clients : c # conn => up'[c] = up[c] /\ down'[c] = down[c]
    BY <1>4 DEF ReadLine, ReadEndOfStream, DecideEmpty, DecideParse, WriteFails, WriteSentence, clients, history, Types
  <2>2. ASSUME NEW c \in Clients PROVE Session(c)'
    BY <2>1 DEF Sessions, Session, Waiting
  <2>3. QED
    BY <2>1, <2>2 DEF Sessions
<1>5. ASSUME CloseSession PROVE Sessions'
  <2>1. /\ queue' = queue /\ conn' = NoClient /\ cpc' = cpc /\ doc' = doc /\ up' = up /\ down' = down
        /\ conn \in Clients
        /\ \E how \in {"closed", "reset"} : conns' = [conns EXCEPT ![conn] = how]
    BY <1>5 DEF CloseSession, clients, history, Types
  <2>2. conns' \in [Clients -> {"open", "closed", "reset"}]
        /\ conns'[conn] # "open"
        /\ \A c \in Clients : c # conn => conns'[c] = conns[c]
    BY <2>1 DEF Sessions
  <2>3. ~Waiting(conn)
    BY <1>a DEF Waiting, OnePlace, Fresh
  <2>4. \A c \in Clients : Waiting(c)' = Waiting(c) /\ c # conn'
    BY <2>1, MaltAssumption DEF Waiting, MaltAssumption
  <2>5. ASSUME NEW c \in Clients PROVE Session(c)'
    BY <2>1, <2>2, <2>3, <2>4 DEF Sessions, Session
  <2>6. QED
    BY <2>1, <2>2, <2>5 DEF Sessions
<1>6. ASSUME UNCHANGED vars PROVE Sessions'
  BY <1>6 DEF vars, server, clients, history, Sessions, Session, Waiting
<1>7. QED
  BY <1>1, <1>2, <1>3, <1>4, <1>5, <1>6 DEF Next, ServerStep

LEMMA ConnectServes ==
    ASSUME IInv, RepliesInv, NEW c \in Clients, Connect(c), NEW d \in Clients
    PROVE  Served(d)' /\ Ending(d)'
<1>1. /\ cpc[c] = "away" /\ cpc' = [cpc EXCEPT ![c] = "sending"]
      /\ UNCHANGED <<spc, conn, tokens, last, EOFreached, up, down, got, conns, stale, rejected>>
      /\ \E t \in Docs : /\ doc' = [doc EXCEPT ![c] = t]
                         /\ unsent' = [unsent EXCEPT ![c] = ClientStream(t)]
  BY DEF Connect, history
<1>2. Types /\ Sessions /\ Session(d) /\ Session(c) /\ Served(d) /\ Ending(d)
  BY DEF IInv, RepliesInv, Sessions
<1>3. CASE d # c
  <2>1. Untouched(d)
    BY <1>1, <1>2, <1>3 DEF Untouched, Reply, Left, Types, Sessions
  <2>2. QED
    BY <1>1, <1>2, <2>1, ServedKept, EndingKept DEF Session
<1>4. CASE d = c
  <2>1. PICK t \in Seq({"token", "blank"}) : doc'[c] = t /\ unsent'[c] = ClientStream(t)
    BY <1>1, <1>2, MaltAssumption DEF MaltAssumption, Types, Sessions
  <2>2. c # conn /\ got'[c] = <<>> /\ down'[c] = <<>> /\ up'[c] = <<>> /\ conns'[c] = "open"
    BY <1>1, <1>2 DEF IInv, OnePlace, Fresh, Session
  <2>3. Reply(c)' = <<>> /\ Left(c)' = ClientStream(t) /\ Stream(c)' = ClientStream(t)
    <3>1. Cat(<<>>, <<>>) = <<>> /\ Cat(<<>>, ClientStream(t)) = ClientStream(t)
      BY CatLaws, StreamIs
    <3>2. QED
      BY <2>1, <2>2, <3>1 DEF Reply, Left, Stream
  <2>4. Prompt(c)'
    <3>1. Sentences(t) \in Seq(Nat) /\ Cat(<<>>, Sentences(t)) = Sentences(t)
      BY CatLaws, ScanMark
    <3>2. QED
      BY <2>1, <2>3, <3>1 DEF Prompt, Begins
  <2>5. Reading(c)'
    <3>1. <<>> \in Seq(Lines) /\ Cat(<<>>, ClientStream(t)) = ClientStream(t)
      BY CatLaws, StreamIs
    <3>2. c # conn'
      BY <1>1, <2>2
    <3>3. QED
      BY <2>3, <3>1, <3>2 DEF Reading
  <2>6. Whole(c)' /\ Ending(c)'
    BY <1>1, <2>2 DEF Whole, Ending
  <2>7. QED
    BY <1>4, <2>4, <2>5, <2>6 DEF Served
<1>5. QED
  BY <1>3, <1>4

LEMMA AcceptServes ==
    ASSUME IInv, RepliesInv, Accept, NEW d \in Clients
    PROVE  Served(d)' /\ Ending(d)'
<1>1. /\ queue # <<>> /\ conn' = Head(queue) /\ tokens' = 0 /\ spc = "accept" /\ spc' = "read"
      /\ stale' = (IF EOFreached THEN stale \cup {Head(queue)} ELSE stale)
      /\ UNCHANGED <<last, EOFreached, cpc, doc, unsent, up, down, got, conns, rejected>>
  BY DEF Accept, clients
<1>2. Types /\ Sessions /\ Served(d) /\ conn = NoClient /\ d # conn
  BY <1>1, MaltAssumption DEF IInv, RepliesInv, Types, MaltAssumption
<1>3. Head(queue) = queue[1] /\ 1 \in 1 .. Len(queue) /\ Head(queue) \in Clients
  <2>1. Len(queue) \in Nat \ {0} /\ Head(queue) = queue[1] /\ Head(queue) \in Clients
    BY <1>1, <1>2, HeadTailProperties, EmptySeq, LenProperties DEF Types
  <2>2. QED
    BY <2>1
<1>4. CASE d # Head(queue)
  <2>1. Untouched(d)
    BY <1>1 DEF Untouched, Reply, Left
  <2>2. d # conn'
    BY <1>1, <1>4
  <2>3. Served(d)'
    BY <1>2, <2>1, <2>2, ServedKept
  <2>4. QED
    BY <2>2, <2>3 DEF Ending
<1>5. CASE d = Head(queue)
  <2>1. Fresh(d) /\ Waiting(d)
    BY <1>3, <1>5 DEF IInv, OnePlace, Waiting
  <2>2. conns[d] = "open" /\ cpc[d] # "away"
    BY <1>2, <2>1 DEF Sessions, Session
  <2>3. Reply(d) = <<>> /\ Reply(d)' = <<>> /\ Left(d)' = Left(d) /\ Stream(d)' = Stream(d)
    <3>1. Cat(<<>>, <<>>) = <<>>
      BY CatLaws
    <3>2. QED
      BY <1>1, <2>1, <3>1 DEF Reply, Left, Stream, Fresh
  <2>4. Prompt(d)'
    BY <1>1, <1>2, <2>3 DEF Served, Prompt, Begins
  <2>5. Whole(d)'
    BY <1>1, <2>2 DEF Whole
  <2>6. ASSUME cpc'[d] # "killed" PROVE Stream(d)' = Cat(<<>>, Left(d)')
    BY <1>1, <1>2, <2>2, <2>3, <2>6 DEF Served, Reading
  <2>7. Progress(d, <<>>)'
    <3>1. Scan(<<>>) = [done |-> <<>>, open |-> 0]
      BY ScanNothing DEF NoScan
    <3>2. QED
      BY <1>1, <2>3, <3>1 DEF Progress
  <2>8. Reading(d)'
    <3>1. <<>> \in Seq(Lines)
      BY EmptySeq
    <3>2. d = conn'
      BY <1>1, <1>5
    <3>3. QED
      BY <2>6, <2>7, <3>1, <3>2 DEF Reading
  <2>9. Ending(d)'
    BY <1>1, <1>5 DEF Ending
  <2>10. QED
    BY <2>4, <2>5, <2>8, <2>9 DEF Served
<1>6. QED
  BY <1>4, <1>5

\* A step of the server touches nobody but the client that it serves.
LEMMA OthersUntouched ==
    ASSUME IInv, RepliesInv, NEW d \in Clients, d # conn,
           ReadLine \/ ReadEndOfStream \/ DecideEmpty \/ DecideParse \/ WriteFails \/ WriteSentence \/ CloseSession
    PROVE  Served(d)' /\ Ending(d)'
<1>1. Types /\ Sessions /\ Served(d) /\ conn \in Clients
  BY DEF IInv, RepliesInv, Types, ReadLine, ReadEndOfStream, DecideEmpty, DecideParse, WriteFails, WriteSentence,
         CloseSession
<1>2. Untouched(d)
  BY <1>1 DEF ReadLine, ReadEndOfStream, DecideEmpty, DecideParse, WriteFails, WriteSentence, CloseSession,
              Untouched, Reply, Left, Types, Sessions, clients, history
<1>3. d # conn'
  BY MaltAssumption DEF ReadLine, ReadEndOfStream, DecideEmpty, DecideParse, WriteFails, WriteSentence, CloseSession,
                        MaltAssumption
<1>4. QED
  BY <1>1, <1>2, <1>3, ServedKept DEF Ending

\* Nothing is promised to a client that was killed.
LEMMA NothingForKilled ==
    ASSUME NEW c \in Clients, cpc[c] = "killed", cpc' = cpc
    PROVE  Served(c)' /\ Ending(c)'
BY DEF Served, Prompt, Reading, Whole, Ending

\* What is known of the client that is served.
LEMMA AtConn ==
    ASSUME IInv, RepliesInv, NEW c \in Clients, c = conn, cpc[c] # "killed"
    PROVE  \E r \in Seq(Lines) :
               /\ Stream(c) = Cat(r, Left(c)) /\ Progress(c, r)
               /\ conns[c] = "open" /\ doc[c] \in Seq({"token", "blank"})
               /\ up[c] \in Seq(Lines) /\ unsent[c] \in Seq(Lines) /\ Left(c) \in Seq(Lines)
               /\ got[c] \in Seq(Nat) /\ down[c] \in Seq(Nat) /\ Reply(c) \in Seq(Nat)
<1>1. conns[c] = "open" /\ cpc[c] # "away" /\ doc[c] \in Seq({"token", "blank"}) /\ Reading(c)
  BY DEF RepliesInv, Sessions, Session, Served
<1>2. /\ up[c] \in Seq(Lines) /\ unsent[c] \in Seq(Lines)
      /\ got[c] \in Seq(Nat) /\ down[c] \in Seq(Nat)
  BY DEF IInv, Types
<1>3. Left(c) \in Seq(Lines) /\ Reply(c) \in Seq(Nat)
  BY <1>2, CatLaws DEF Left, Reply
<1>4. QED
  BY <1>1, <1>2, <1>3 DEF Reading

LEMMA ReadServes ==
    ASSUME IInv, RepliesInv, ReadLine, NEW c \in Clients, c = conn, cpc[c] # "killed"
    PROVE  Served(c)' /\ Ending(c)'
<1> DEFINE d == doc[c]
<1>1. /\ spc = "read" /\ up[c] # <<>> /\ c \in Clients
      /\ up' = [up EXCEPT ![c] = Tail(up[c])] /\ up \in [Clients -> Seq(Lines)]
      /\ UNCHANGED <<conn, last, cpc, doc, unsent, down, got, conns, stale, rejected>>
  BY DEF ReadLine, history, IInv, Types
<1>a. PICK h \in Lines : h = Head(up[c])
  <2>1. up[c] \in Seq(Lines) /\ up[c] # <<>>
    BY <1>1
  <2>2. QED
    BY <2>1, CatHeadTail
<1>2. \/ h = "token" /\ tokens' = tokens + 1 /\ spc' = "read" /\ EOFreached' = EOFreached
      \/ h # "token" /\ spc' = "decide" /\ tokens' = tokens /\ (EOFreached' <=> EOFreached \/ h = "#EOF")
  BY <1>1, <1>a DEF ReadLine
<1>3. PICK r \in Seq(Lines) :
               /\ Stream(c) = Cat(r, Left(c)) /\ Progress(c, r)
               /\ conns[c] = "open" /\ d \in Seq({"token", "blank"})
               /\ up[c] \in Seq(Lines) /\ unsent[c] \in Seq(Lines)
  BY <1>1, AtConn
<1>4. Served(c) /\ Ending(c)
  BY <1>1 DEF RepliesInv
<1>5. Reply(c)' = Reply(c) /\ Stream(c)' = Stream(c) /\ Left(c)' = Cat(Tail(up[c]), unsent[c])
  BY <1>1 DEF Reply, Stream, Left
<1>6. /\ Append(r, h) \in Seq(Lines) /\ Left(c)' \in Seq(Lines)
      /\ Stream(c) = Cat(Append(r, h), Left(c)')
  BY <1>1, <1>3, <1>a, <1>5, MoveOneOn DEF Left
<1>7. Scan(r) = [done |-> Reply(c), open |-> tokens] /\ Scan(Append(r, h)) = AddLine(Scan(r), h)
  BY <1>1, <1>3, <1>6, ScanAppend DEF Progress
<1>8. Progress(c, Append(r, h))'
  <2>1. CASE h = "token"
    <3>1. Scan(Append(r, h)) = [done |-> Reply(c), open |-> tokens + 1]
      BY <1>7, <2>1 DEF AddLine
    <3>2. QED
      BY <1>2, <1>5, <2>1, <3>1 DEF Progress
  <2>2. CASE h # "token"
    <3>1. h \in {"blank", "#EOF"}
      BY <2>2 DEF Lines
    <3>2. QED
      BY <1>2, <1>5, <1>7, <2>2, <3>1 DEF Progress
  <2>3. QED
    BY <2>1, <2>2
<1>9. Reading(c)'
  BY <1>1, <1>5, <1>6, <1>8 DEF Reading
<1>10. Prompt(c)' /\ Whole(c)'
  BY <1>1, <1>3, <1>4, <1>5 DEF Served, Prompt, Begins, Whole
<1>11. Ending(c)'
  <2>1. CASE h = "token"
    BY <1>1, <1>2, <1>4, <2>1 DEF Ending
  <2>2. CASE h # "token"
    <3>1. h \in {"blank", "#EOF"}
      BY <2>2 DEF Lines
    <3>2. h = "#EOF" => Left(c)' = <<>>
      BY <1>3, <1>6, <3>1, SentenceEnd DEF Stream
    <3>3. QED
      BY <1>1, <1>2, <1>4, <2>2, <3>2 DEF Ending
  <2>3. QED
    BY <2>1, <2>2
<1>12. QED
  BY <1>9, <1>10, <1>11 DEF Served

LEMMA DecideEmptyServes ==
    ASSUME IInv, RepliesInv, DecideEmpty, NEW c \in Clients, c = conn, cpc[c] # "killed"
    PROVE  Served(c)' /\ Ending(c)'
<1> DEFINE d == doc[c]
<1>1. /\ spc = "decide" /\ tokens = 0 /\ spc' = "close" /\ c \in Clients
      /\ UNCHANGED <<conn, tokens, last, EOFreached, cpc, doc, unsent, up, down, got, conns, stale, rejected>>
  BY DEF DecideEmpty, clients, history, IInv, Types
<1>2. PICK r \in Seq(Lines) :
               /\ Stream(c) = Cat(r, Left(c)) /\ Progress(c, r)
               /\ conns[c] = "open" /\ d \in Seq({"token", "blank"}) /\ Left(c) \in Seq(Lines)
  BY <1>1, AtConn
<1>3. Served(c) /\ Ending(c)
  BY <1>1 DEF RepliesInv
<1>4. Reply(c)' = Reply(c) /\ Stream(c)' = Stream(c) /\ Left(c)' = Left(c)
  BY <1>1 DEF Reply, Stream, Left
<1>5. WellSeparated(d) => Reply(c) = Sentences(d)
  <2>1. PICK q \in Seq(Lines), l \in {"blank", "#EOF"} :
                 r = Append(q, l) /\ Scan(q) = [done |-> Reply(c), open |-> 0]
    BY <1>1, <1>2 DEF Progress
  <2>2. ClientStream(d) = Cat(Append(q, l), Left(c))
    BY <1>2, <2>1 DEF Stream
  <2>3. Scan(q).open = 0 /\ Scan(q).done = Reply(c)
    BY <2>1
  <2>4. QED
    BY <1>2, <2>2, <2>3, EmptySentence
<1>6. Reading(c)'
  BY <1>1, <1>2, <1>4 DEF Reading, Progress
<1>7. Prompt(c)' /\ Whole(c)'
  BY <1>1, <1>2, <1>3, <1>4 DEF Served, Prompt, Begins, Whole
<1>8. Ending(c)'
  BY <1>1, <1>4, <1>5 DEF Ending
<1>9. QED
  BY <1>6, <1>7, <1>8 DEF Served

LEMMA DecideParseServes ==
    ASSUME IInv, RepliesInv, DecideParse, NEW c \in Clients, c = conn, cpc[c] # "killed"
    PROVE  Served(c)' /\ Ending(c)'
<1> DEFINE d == doc[c]
<1>1. /\ spc = "decide" /\ tokens > 0 /\ tokens \in Nat /\ c \in Clients
      /\ last' = EOFreached /\ EOFreached' = FALSE
      /\ UNCHANGED <<conn, tokens, cpc, doc, unsent, up, down, got, conns, stale>>
      /\ \/ spc' = "write" /\ rejected' = rejected
         \/ spc' = "close" /\ rejected' = rejected \cup {c}
  BY DEF DecideParse, clients, history, IInv, Types
<1>2. PICK r \in Seq(Lines) :
               /\ Stream(c) = Cat(r, Left(c)) /\ Progress(c, r)
               /\ conns[c] = "open" /\ d \in Seq({"token", "blank"}) /\ Left(c) \in Seq(Lines)
  BY <1>1, AtConn
<1>3. Served(c) /\ Ending(c)
  BY <1>1 DEF RepliesInv
<1>4. Reply(c)' = Reply(c) /\ Stream(c)' = Stream(c) /\ Left(c)' = Left(c)
  BY <1>1 DEF Reply, Stream, Left
<1>5. Scan(r) = [done |-> Append(Reply(c), tokens), open |-> 0]
  <2>1. PICK q \in Seq(Lines), l \in {"blank", "#EOF"} :
                 r = Append(q, l) /\ Scan(q) = [done |-> Reply(c), open |-> tokens]
    BY <1>1, <1>2 DEF Progress
  <2>2. Scan(Append(q, l)) = AddLine(Scan(q), l)
    BY ScanAppend DEF Lines
  <2>3. l # "token" /\ tokens # 0
    BY <1>1
  <2>4. QED
    BY <2>1, <2>2, <2>3 DEF AddLine
<1>6. Reading(c)'
  BY <1>1, <1>2, <1>4, <1>5 DEF Reading, Progress
<1>7. Prompt(c)' /\ Whole(c)'
  BY <1>1, <1>2, <1>3, <1>4 DEF Served, Prompt, Begins, Whole
<1>8. Ending(c)'
  BY <1>1, <1>3, <1>4 DEF Ending
<1>9. QED
  BY <1>6, <1>7, <1>8 DEF Served

LEMMA WriteServes ==
    ASSUME IInv, RepliesInv, WriteSentence, NEW c \in Clients, c = conn, cpc[c] # "killed"
    PROVE  Served(c)' /\ Ending(c)'
<1> DEFINE d == doc[c]
<1>1. /\ spc = "write" /\ tokens \in Nat /\ tokens' = 0 /\ c \in Clients
      /\ down' = [down EXCEPT ![c] = Append(down[c], tokens)] /\ down \in [Clients -> Seq(Nat)]
      /\ \/ last /\ spc' = "close"
         \/ ~last /\ spc' = "read"
      /\ UNCHANGED <<conn, last, EOFreached, cpc, doc, unsent, up, got, conns, stale, rejected>>
  BY DEF WriteSentence, history, IInv, Types
<1>2. PICK r \in Seq(Lines) :
               /\ Stream(c) = Cat(r, Left(c)) /\ Progress(c, r)
               /\ conns[c] = "open" /\ d \in Seq({"token", "blank"}) /\ Left(c) \in Seq(Lines)
               /\ got[c] \in Seq(Nat) /\ down[c] \in Seq(Nat)
  BY <1>1, AtConn
<1>3. Served(c) /\ Ending(c)
  BY <1>1 DEF RepliesInv
<1>4. Stream(c)' = Stream(c) /\ Left(c)' = Left(c)
  BY <1>1 DEF Stream, Left
<1>5. Reply(c)' = Append(Reply(c), tokens)
  <2>1. down'[c] = Append(down[c], tokens) /\ got'[c] = got[c]
    BY <1>1
  <2>2. Cat(got[c], Append(down[c], tokens)) = Append(Cat(got[c], down[c]), tokens)
    <3>1. \A x, y \in Seq(Nat), n \in Nat : Cat(x, Append(y, n)) = Append(Cat(x, y), n)
      BY CatOfAppend
    <3>2. QED
      BY <1>1, <1>2, <3>1
  <2>3. QED
    BY <2>1, <2>2 DEF Reply
<1>6. Scan(r) = [done |-> Reply(c)', open |-> 0]
  BY <1>1, <1>2, <1>5 DEF Progress
<1>7. Scan(Stream(c)).done = Sentences(d)
  BY <1>2, ScanMark DEF Stream
<1>8. Prompt(c)'
  <2>1. PICK u \in Seq(Nat) : Scan(Cat(r, Left(c))).done = Cat(Scan(r).done, u)
    BY <1>2, ScanGrows
  <2>2. Scan(r).done = Reply(c)'
    BY <1>6
  <2>3. Sentences(d) = Cat(Reply(c)', u)
    BY <1>2, <1>7, <2>1, <2>2
  <2>4. QED
    BY <1>1, <2>3 DEF Prompt, Begins
<1>9. Reading(c)'
  BY <1>1, <1>2, <1>4, <1>6 DEF Reading, Progress
<1>10. Whole(c)'
  BY <1>1, <1>2 DEF Whole
<1>11. Ending(c)'
  <2>1. c \notin stale /\ last => Reply(c)' = Sentences(d)
    <3> SUFFICES ASSUME c \notin stale, last PROVE Reply(c)' = Sentences(d)
      OBVIOUS
    <3>1. Left(c) = <<>>
      BY <1>1, <1>3 DEF Ending
    <3>2. Stream(c) = r
      BY <1>2, <3>1, CatLaws
    <3>3. QED
      BY <1>6, <1>7, <3>2
  <2>2. QED
    BY <1>1, <1>3, <2>1 DEF Ending
<1>12. QED
  BY <1>8, <1>9, <1>10, <1>11 DEF Served

LEMMA CloseServes ==
    ASSUME IInv, RepliesInv, CloseSession, NEW c \in Clients, c = conn
    PROVE  Served(c)' /\ Ending(c)'
<1>1. /\ spc = "close" /\ conn' = NoClient
      /\ UNCHANGED <<cpc, doc, up, unsent, down, got, stale, rejected>>
      /\ conns \in [Clients -> {"open", "closed", "reset"}]
      /\ \E how \in {"closed", "reset"} : conns' = [conns EXCEPT ![c] = how]
  BY DEF CloseSession, clients, history, RepliesInv, Sessions
<1>2. conns'[c] # "open" /\ c # conn'
  BY <1>1, MaltAssumption DEF MaltAssumption
<1>3. Served(c) /\ Ending(c)
  BY DEF RepliesInv
<1>4. Reply(c)' = Reply(c)
  BY <1>1 DEF Reply
<1>5. Prompt(c)' /\ Reading(c)' /\ Ending(c)'
  BY <1>1, <1>2, <1>3, <1>4 DEF Served, Prompt, Reading, Ending, Begins
<1>6. Whole(c)'
  BY <1>1, <1>3, <1>4 DEF Ending, Whole
<1>7. QED
  BY <1>5, <1>6 DEF Served

LEMMA RepliesInit == Init => RepliesInv
<1> SUFFICES ASSUME Init PROVE RepliesInv
  OBVIOUS
<1>1. Cat(<<>>, <<>>) = <<>> /\ <<>> \in Seq({"token", "blank"}) /\ Len(<<>>) = 0
  BY CatLaws, EmptySeq
<1>2. Sessions
  BY <1>1, MaltAssumption DEF Init, Sessions, Session, Waiting, MaltAssumption
<1>3. ASSUME NEW c \in Clients PROVE Served(c) /\ Ending(c)
  <2>1. Reply(c) = <<>> /\ doc[c] = <<>> /\ c # conn /\ cpc[c] = "away" /\ conns[c] = "open"
    BY <1>1, MaltAssumption DEF Init, Reply, MaltAssumption
  <2>2. Sentences(<<>>) \in Seq(Nat) /\ Cat(<<>>, Sentences(<<>>)) = Sentences(<<>>)
    BY <1>1, ScanMark, CatLaws
  <2>3. QED
    BY <2>1, <2>2 DEF Served, Prompt, Begins, Reading, Whole, Ending
<1>4. QED
  BY <1>2, <1>3 DEF RepliesInv

LEMMA RepliesStep == IInv /\ RepliesInv /\ [Next]_vars => RepliesInv'
<1> SUFFICES ASSUME IInv, RepliesInv, [Next]_vars PROVE RepliesInv'
  OBVIOUS
<1>1. Sessions'
  BY SessionsStep DEF IInv, RepliesInv
<1>2. ASSUME NEW d \in Clients PROVE Served(d)' /\ Ending(d)'
  <2>a. Types /\ Sessions /\ Session(d) /\ Served(d) /\ Ending(d)
    BY DEF IInv, RepliesInv, Sessions
  <2>1. CASE \E c \in Clients : Connect(c)
    BY <2>1, ConnectServes
  <2>2. ASSUME NEW c \in Clients, ClientStep(c) \/ Kill(c) PROVE Served(d)' /\ Ending(d)'
    <3>1. Untouched(d) /\ UNCHANGED <<server, history>>
      BY <2>a, <2>2, ClientsMove
    <3>2. QED
      BY <2>a, <3>1, ServedKept, EndingKept DEF server, history, Session
  <2>3. CASE Accept
    BY <2>3, AcceptServes
  <2>4. CASE d # conn /\ (ReadLine \/ ReadEndOfStream \/ DecideEmpty \/ DecideParse \/ WriteFails \/ WriteSentence
                             \/ CloseSession)
    BY <2>4, OthersUntouched
  <2>5. CASE d = conn /\ cpc[d] # "killed" /\ (ReadLine \/ DecideEmpty \/ DecideParse \/ WriteSentence)
    BY <2>5, ReadServes, DecideEmptyServes, DecideParseServes, WriteServes
  <2>6. CASE d = conn /\ cpc[d] = "killed" /\ (ReadLine \/ ReadEndOfStream \/ DecideEmpty \/ DecideParse \/ WriteFails
                                                  \/ WriteSentence)
    <3>1. cpc' = cpc
      BY <2>6 DEF ReadLine, ReadEndOfStream, DecideEmpty, DecideParse, WriteFails, WriteSentence, clients
    <3>2. QED
      BY <2>6, <3>1, NothingForKilled
  <2>7. ReadEndOfStream \/ WriteFails => cpc[conn] = "killed"
    BY DEF ReadEndOfStream, WriteFails
  <2>8. CASE d = conn /\ CloseSession
    BY <2>8, CloseServes
  <2>9. CASE UNCHANGED vars
    <3>1. Untouched(d) /\ UNCHANGED <<server, history>>
      BY <2>9 DEF vars, server, clients, history, Untouched, Reply, Left
    <3>2. QED
      BY <2>a, <3>1, ServedKept, EndingKept DEF server, history, Session
  <2>10. QED
    BY <2>1, <2>2, <2>3, <2>4, <2>5, <2>6, <2>7, <2>8, <2>9 DEF Next, ServerStep
<1>3. QED
  BY <1>1, <1>2 DEF RepliesInv

LEMMA RepliesAlways == Spec => [](IInv /\ RepliesInv)
<1>1. Init => IInv /\ RepliesInv
  BY InitEstablishesIInv, RepliesInit
<1>2. IInv /\ RepliesInv /\ [Next]_vars => IInv' /\ RepliesInv'
  BY TypesStep, OnePlaceStep, FlagStep, RepliesStep DEF IInv
<1>3. QED
  BY <1>1, <1>2, PTL DEF Spec

\* However the clients take turns, whatever the flag and whoever is killed: a client is
\* sent sentences of its own text, from the first on, each one whole.
THEOREM RepliesAlwaysInOrder == Spec => []RepliesInOrder
<1>1. IInv /\ RepliesInv => RepliesInOrder
  <2> SUFFICES ASSUME IInv, RepliesInv, NEW c \in Clients, cpc[c] # "killed"
               PROVE  IsPrefix(got[c] \o down[c], Sentences(doc[c]))
    BY DEF RepliesInOrder
  <2>1. Prompt(c) /\ got[c] \in Seq(Nat) /\ down[c] \in Seq(Nat)
    BY DEF IInv, Types, RepliesInv, Served
  <2>2. Reply(c) \in Seq(Nat)
    BY <2>1, CatLaws DEF Reply
  <2>3. PICK u \in Seq(Nat) : Sentences(doc[c]) = Cat(Reply(c), u)
    BY <2>1 DEF Prompt, Begins
  <2>4. IsPrefix(Reply(c), Cat(Reply(c), u))
    BY <2>2, CatIsPrefix
  <2>5. QED
    BY <2>3, <2>4 DEF Reply, Cat
<1>2. QED
  BY <1>1, RepliesAlways, PTL

\* A client that ends normally has the parse of its whole text, unless the flag of an
\* earlier one cut it short, a sentence was rejected or its text has empty sentences.
THEOREM RepliesComplete == Spec => []CompleteReply
<1>1. IInv /\ RepliesInv => CompleteReply
  <2> SUFFICES ASSUME IInv, RepliesInv, NEW c \in Clients,
                      cpc[c] = "done", c \notin stale \cup rejected, WellSeparated(doc[c])
               PROVE  got[c] = Sentences(doc[c])
    BY DEF CompleteReply
  <2>1. down[c] = <<>> /\ conns[c] # "open" /\ Whole(c) /\ got[c] \in Seq(Nat)
    BY DEF IInv, Types, RepliesInv, Sessions, Session, Served
  <2>2. Reply(c) = got[c]
    BY <2>1, CatLaws DEF Reply
  <2>3. QED
    BY <2>1, <2>2 DEF Whole
<1>2. QED
  BY <1>1, RepliesAlways, PTL
===============================================================================
