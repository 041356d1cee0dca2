----------------------------- MODULE SocketFraming -----------------------------
(***************************************************************************)
(* How socket_CS turns messages into bytes and back.  write_message sends  *)
(* the characters and the NUL that ends a C string; read_message reads     *)
(* pieces of at most BUFF_SZ bytes until one of them ends in NUL, and      *)
(* keeps of each piece what precedes its first NUL.  TCP cuts and joins    *)
(* the bytes as it likes.                                                  *)
(*                                                                         *)
(* Nothing but the turns of the two sides (OneInFlight in AnalyzerSession) *)
(* keeps two messages from being read as one.                              *)
(***************************************************************************)
EXTENDS Integers, Sequences, SequencesExt

CONSTANTS Messages,     \* the messages that may be written
          BUFF_SZ,      \* size of the buffer of read_message
          MaxMessages   \* bound: messages written on one connection

NUL == 0

ASSUME FramingAssumption ==
    /\ Messages \subseteq Seq(Nat \ {NUL})
    /\ BUFF_SZ \in Nat \ {0}
    /\ MaxMessages \in Nat

VARIABLES
    writer,   \* the writing side: "open", "closed" or "crashed"
    sent,     \* the messages given to write_message
    unsent,   \* bytes of the message being written that the kernel has not taken
    wire,     \* bytes on their way
    reader,   \* read_message: "first" read, "more" reads, "ended" once it gave 0
    s,        \* what read_message has of its message
    got       \* the messages it returned

framingVars == <<writer, sent, unsent, wire, reader, s, got>>

FramingInit ==
    /\ writer = "open"
    /\ sent = <<>>
    /\ unsent = <<>>
    /\ wire = <<>>
    /\ reader = "first"
    /\ s = <<>>
    /\ got = <<>>

-------------------------------------------------------------------------------
\* It is this side's turn: the other side has read all its messages.
InTurn == Len(sent) = Len(got)

\* Mutant of WriteMessage: without waiting for its turn.
WriteMessageEarly(m) ==
    /\ writer = "open"
    /\ unsent = <<>>
    /\ Len(sent) < MaxMessages
    /\ sent' = Append(sent, m)
    /\ unsent' = Append(m, NUL)
    /\ UNCHANGED <<writer, wire, reader, s, got>>

\* write_message: s.length() + 1 bytes of s.c_str().
WriteMessage(m) ==
    /\ writer = "open"
    /\ unsent = <<>>
    /\ InTurn
    /\ Len(sent) < MaxMessages
    /\ sent' = Append(sent, m)
    /\ unsent' = Append(m, NUL)
    /\ UNCHANGED <<writer, wire, reader, s, got>>

\* The kernel takes some bytes of the message being written.
Transmit ==
    /\ writer = "open"
    /\ \E n \in 1 .. Len(unsent) :
        /\ wire' = wire \o SubSeq(unsent, 1, n)
        /\ unsent' = SubSeq(unsent, n + 1, Len(unsent))
    /\ UNCHANGED <<writer, sent, reader, s, got>>

\* close_connection, after the last message has been written.
CloseConnection ==
    /\ writer = "open"
    /\ unsent = <<>>
    /\ writer' = "closed"
    /\ UNCHANGED <<sent, unsent, wire, reader, s, got>>

\* The writing process is killed, maybe within a message.
Crash ==
    /\ writer = "open"
    /\ writer' = "crashed"
    /\ unsent' = <<>>
    /\ UNCHANGED <<sent, wire, reader, s, got>>

-------------------------------------------------------------------------------
\* std::string(buffer): the bytes before the first NUL.
CString(piece) ==
    LET n == SelectInSeq(piece, LAMBDA b : b = NUL)
    IN  IF n = 0 THEN piece ELSE SubSeq(piece, 1, n - 1)

\* Mutant of ReadPiece: a piece that fills the buffer is never taken for the last one.
ReadUntilShort(n) ==
    LET piece == SubSeq(wire, 1, n)
        text  == s \o CString(piece)
    IN  /\ wire' = SubSeq(wire, n + 1, Len(wire))
        /\ IF Last(piece) = NUL /\ n < BUFF_SZ
           THEN reader' = "first" /\ s' = <<>> /\ got' = Append(got, text)
           ELSE reader' = "more" /\ s' = text /\ UNCHANGED got

\* read_message: n of the bytes that have arrived are read; the message ends with a piece that ends in NUL.
ReadPiece(n) ==
    LET piece == SubSeq(wire, 1, n)
        text  == s \o CString(piece)
    IN  /\ wire' = SubSeq(wire, n + 1, Len(wire))
        /\ IF Last(piece) = NUL
           THEN reader' = "first" /\ s' = <<>> /\ got' = Append(got, text)
           ELSE reader' = "more" /\ s' = text /\ UNCHANGED got

\* One read, of any number of bytes that the buffer holds.
ReadSome ==
    /\ reader # "ended"
    /\ \E n \in 1 .. Len(wire) : n <= BUFF_SZ /\ ReadPiece(n)
    /\ UNCHANGED <<writer, sent, unsent>>

\* The read gives 0: read_message returns 0 if it has read nothing at all, and
\* what it has otherwise.
ReadEnd ==
    /\ reader # "ended"
    /\ writer # "open"
    /\ wire = <<>>
    /\ IF reader = "first" THEN reader' = "ended" /\ UNCHANGED <<s, got>>
       ELSE reader' = "first" /\ s' = <<>> /\ got' = Append(got, s)
    /\ UNCHANGED <<writer, sent, unsent, wire>>

FramingNext ==
    \/ \E m \in Messages : WriteMessage(m)
    \/ Transmit
    \/ CloseConnection
    \/ Crash
    \/ ReadSome
    \/ ReadEnd

FramingSpec == FramingInit /\ [][FramingNext]_framingVars

\* TCP delivers what was written and the reader reads it; nobody has to write.
FramingFairness == WF_framingVars(Transmit) /\ WF_framingVars(ReadSome) /\ WF_framingVars(ReadEnd)

-------------------------------------------------------------------------------
(***************************************************************************)
(* Properties.                                                             *)
(***************************************************************************)
\* The connection is a message channel: in whatever pieces the bytes arrive,
\* also when a message fills the buffer exactly or its NUL arrives alone, the
\* messages are delivered whole and in order.
Channel == INSTANCE MessageChannel
               WITH inFlight  <- SubSeq(sent, Len(got) + 1, Len(sent)),
                    delivered <- got,
                    broken    <- writer = "crashed"

ImplementsChannel == Channel!Spec

\* A message that was written is read, unless its writer crashes.
MessagesArrive ==
    \A n \in 1 .. MaxMessages :
        Len(sent) = n ~> (Len(got) >= n \/ writer = "crashed")
===============================================================================
