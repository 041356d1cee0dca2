------------------------------ MODULE MaltServer ------------------------------
(***************************************************************************)
(* The dependency parser of the translator: MaltParserServer, which serves *)
(* one connection after the other in one thread, and the MPClient runs     *)
(* that send it a text.  The parser model itself is external: a sentence   *)
(* is known by its number of tokens, and parsing it may throw.             *)
(*                                                                         *)
(* EOFreached is a static field of the server: it is written while one     *)
(* connection is served and read while the next one is.                    *)
(***************************************************************************)
EXTENDS Integers, Sequences, SequencesExt

CONSTANTS Clients,        \* runs of MPClient
          NoClient,       \* the server serves nobody
          Docs,           \* the texts a client may send: sequences of lines
          BufLines,       \* lines in flight that the kernel buffers hold
          BufSentences,   \* parsed sentences in flight that they hold
          ParserMayThrow  \* model.parseTokens may reject a sentence

Lines == {"token", "blank", "#EOF"}

ASSUME MaltAssumption ==
    /\ NoClient \notin Clients
    /\ Docs \subseteq Seq({"token", "blank"})
    /\ BufLines \in Nat \ {0}
    /\ BufSentences \in Nat \ {0}
    /\ ParserMayThrow \in BOOLEAN

VARIABLES
    \* the server
    spc,         \* "accept", "read", "decide", "write" or "close"
    conn,        \* the client of the connection being served
    tokens,      \* tokens of the sentence being read or written
    last,        \* the session ends after the sentence being written
    EOFreached,  \* the static field
    queue,       \* connections waiting for accept()
    \* the clients and their connections
    cpc,         \* "away", "sending", "receiving", "done", "failed" or "killed"
    doc,         \* the text of a client
    unsent,      \* lines the client has still to write
    up,          \* lines written and not read by the server
    down,        \* sentences written and not read by the client
    got,         \* sentences the client printed
    conns,       \* per connection: "open", "closed" or "reset" by the server
    \* history
    stale,       \* clients that were accepted with EOFreached set
    rejected     \* clients of which parseTokens rejected a sentence

server  == <<spc, conn, tokens, last, EOFreached, queue>>
clients == <<cpc, doc, unsent, up, down, got>>
history == <<stale, rejected>>
vars    == <<server, clients, conns, history>>

\* Mutant of ClientStream: the mark is left out.
StreamWithoutMark(d) == Append(d, "blank")

\* MPClient writes the text line by line, then "\n#EOF\n": the
\* server reads the text, an empty line and the mark.
ClientStream(d) == d \o <<"blank", "#EOF">>

Init ==
    /\ spc = "accept"
    /\ conn = NoClient
    /\ tokens = 0
    /\ last = FALSE
    /\ EOFreached = FALSE
    /\ queue = <<>>
    /\ cpc = [c \in Clients |-> "away"]
    /\ doc = [c \in Clients |-> <<>>]
    /\ unsent = [c \in Clients |-> <<>>]
    /\ up = [c \in Clients |-> <<>>]
    /\ down = [c \in Clients |-> <<>>]
    /\ got = [c \in Clients |-> <<>>]
    /\ conns = [c \in Clients |-> "open"]
    /\ stale = {}
    /\ rejected = {}

-------------------------------------------------------------------------------
(***************************************************************************)
(* MPClient: first writes everything, then reads until the server closes.  *)
(***************************************************************************)
Connect(c) ==
    /\ cpc[c] = "away"
    /\ \E d \in Docs :
        /\ doc' = [doc EXCEPT ![c] = d]
        /\ unsent' = [unsent EXCEPT ![c] = ClientStream(d)]
    /\ cpc' = [cpc EXCEPT ![c] = "sending"]
    /\ queue' = Append(queue, c)
    /\ UNCHANGED <<spc, conn, tokens, last, EOFreached, up, down, got, conns, history>>

SendLine(c) ==
    /\ cpc[c] = "sending"
    /\ unsent[c] # <<>>
    /\ conns[c] = "open"
    /\ Len(up[c]) < BufLines
    /\ up' = [up EXCEPT ![c] = Append(@, Head(unsent[c]))]
    /\ unsent' = [unsent EXCEPT ![c] = Tail(@)]
    /\ UNCHANGED <<server, cpc, doc, down, got, conns, history>>

\* The server's kernel answers a line for a closed connection with a reset ...
SendAfterClose(c) ==
    /\ cpc[c] = "sending"
    /\ unsent[c] # <<>>
    /\ conns[c] = "closed"
    /\ conns' = [conns EXCEPT ![c] = "reset"]
    /\ unsent' = [unsent EXCEPT ![c] = Tail(@)]
    /\ UNCHANGED <<server, cpc, doc, up, down, got, history>>

\* ... and the next write throws: the exception of the loop is caught, the one
\* of the final "#EOF" ends the client before it reads anything.
SendFails(c) ==
    /\ cpc[c] = "sending"
    /\ unsent[c] # <<>>
    /\ conns[c] = "reset"
    /\ cpc' = [cpc EXCEPT ![c] = "failed"]
    /\ UNCHANGED <<server, doc, unsent, up, down, got, conns, history>>

StartReceiving(c) ==
    /\ cpc[c] = "sending"
    /\ unsent[c] = <<>>
    /\ cpc' = [cpc EXCEPT ![c] = "receiving"]
    /\ UNCHANGED <<server, doc, unsent, up, down, got, conns, history>>

Receive(c) ==
    /\ cpc[c] = "receiving"
    /\ down[c] # <<>>
    /\ got' = [got EXCEPT ![c] = Append(@, Head(down[c]))]
    /\ down' = [down EXCEPT ![c] = Tail(@)]
    /\ UNCHANGED <<server, cpc, doc, unsent, up, conns, history>>

\* read() returns -1: the client flushes what it has and ends.
ReceiveEnd(c) ==
    /\ cpc[c] = "receiving"
    /\ down[c] = <<>>
    /\ conns[c] = "closed"
    /\ cpc' = [cpc EXCEPT ![c] = "done"]
    /\ UNCHANGED <<server, doc, unsent, up, down, got, conns, history>>

\* read() throws on a connection that was reset, whatever was still on its
\* way; the output that was not flushed is lost.
ReceiveFails(c) ==
    /\ cpc[c] = "receiving"
    /\ conns[c] = "reset"
    /\ cpc' = [cpc EXCEPT ![c] = "failed"]
    /\ UNCHANGED <<server, doc, unsent, up, down, got, conns, history>>

\* The user interrupts the translation.
Kill(c) ==
    /\ cpc[c] \in {"sending", "receiving"}
    /\ cpc' = [cpc EXCEPT ![c] = "killed"]
    /\ UNCHANGED <<server, doc, unsent, up, down, got, conns, history>>

ClientStep(c) ==
    SendLine(c) \/ SendAfterClose(c) \/ SendFails(c) \/ StartReceiving(c)
        \/ Receive(c) \/ ReceiveEnd(c) \/ ReceiveFails(c)

-------------------------------------------------------------------------------
(***************************************************************************)
(* MaltParserServer.                                                       *)
(***************************************************************************)
\* main: the next connection.
Accept ==
    /\ spc = "accept"
    /\ queue # <<>>
    /\ conn' = Head(queue)
    /\ queue' = Tail(queue)
    /\ tokens' = 0
    /\ spc' = "read"
    /\ stale' = IF EOFreached THEN stale \cup {Head(queue)} ELSE stale
    /\ UNCHANGED <<last, EOFreached, clients, conns, rejected>>

\* Mutant of ReadLine: a blank line also counts as the end of the text.
ReadLineBlankIsEnd ==
    /\ spc = "read"
    /\ up[conn] # <<>>
    /\ up' = [up EXCEPT ![conn] = Tail(@)]
    /\ IF Head(up[conn]) = "token"
       THEN tokens' = tokens + 1 /\ UNCHANGED <<spc, EOFreached>>
       ELSE spc' = "decide" /\ EOFreached' = TRUE /\ UNCHANGED tokens
    /\ UNCHANGED <<conn, last, queue, cpc, doc, unsent, down, got, conns, history>>

\* readSentence: one line of the connection.  A blank line and the mark end the
\* sentence, whatever has been read of it.
ReadLine ==
    /\ spc = "read"
    /\ up[conn] # <<>>
    /\ up' = [up EXCEPT ![conn] = Tail(@)]
    /\ \/ /\ Head(up[conn]) = "token"
          /\ tokens' = tokens + 1
          /\ UNCHANGED <<spc, EOFreached>>
       \/ /\ Head(up[conn]) # "token"
          /\ spc' = "decide"
          /\ EOFreached' = (EOFreached \/ Head(up[conn]) = "#EOF")
          /\ UNCHANGED tokens
    /\ UNCHANGED <<conn, last, queue, cpc, doc, unsent, down, got, conns, history>>

\* readLine() returns null: the client was killed and nothing is left to read.
ReadEndOfStream ==
    /\ spc = "read"
    /\ up[conn] = <<>>
    /\ cpc[conn] = "killed"
    /\ spc' = "decide"
    /\ UNCHANGED <<conn, tokens, last, EOFreached, queue, clients, conns, history>>

\* parseSentences, no tokens: taken for the end of the text.
DecideEmpty ==
    /\ spc = "decide"
    /\ tokens = 0
    /\ spc' = "close"
    /\ UNCHANGED <<conn, tokens, last, EOFreached, queue, clients, conns, history>>

\* Mutant of DecideParse: EOFreached is reset without leaving the loop.
DecideParseGoesOn ==
    /\ spc = "decide"
    /\ tokens > 0
    /\ last' = FALSE
    /\ EOFreached' = FALSE
    /\ \/ spc' = "write" /\ UNCHANGED rejected
       \/ spc' = "close" /\ rejected' = rejected \cup {conn} /\ ParserMayThrow
    /\ UNCHANGED <<conn, tokens, queue, clients, conns, stale>>

\* parseSentences, some tokens: the sentence is parsed, and is the last one if
\* EOFreached is set; only this branch resets the field.
DecideParse ==
    /\ spc = "decide"
    /\ tokens > 0
    /\ last' = EOFreached
    /\ EOFreached' = FALSE
    /\ \/ spc' = "write" /\ UNCHANGED rejected
       \/ spc' = "close" /\ rejected' = rejected \cup {conn} /\ ParserMayThrow
    /\ UNCHANGED <<conn, tokens, queue, clients, conns, stale>>

\* Mutant of WriteSentence: the tokens of the sentence are kept.
WriteSentenceKeepsTokens ==
    /\ spc = "write"
    /\ Len(down[conn]) < BufSentences
    /\ down' = [down EXCEPT ![conn] = Append(@, tokens)]
    /\ spc' = IF last THEN "close" ELSE "read"
    /\ UNCHANGED <<conn, tokens, last, EOFreached, queue, cpc, doc, unsent, up, got, conns, history>>

\* ConcurrentUtils.writeSentence, blocking while the buffers are full.
WriteSentence ==
    /\ spc = "write"
    /\ Len(down[conn]) < BufSentences
    /\ down' = [down EXCEPT ![conn] = Append(@, tokens)]
    /\ tokens' = 0
    /\ spc' = IF last THEN "close" ELSE "read"
    /\ UNCHANGED <<conn, last, EOFreached, queue, cpc, doc, unsent, up, got, conns, history>>

\* Writing to a client that was killed throws, as soon as the kernel knows.
WriteFails ==
    /\ spc = "write"
    /\ cpc[conn] = "killed"
    /\ spc' = "close"
    /\ UNCHANGED <<conn, tokens, last, EOFreached, queue, clients, conns, history>>

\* reader, writer and socket are closed.  Closing with input that nobody read
\* resets the connection, unless the reader had already buffered that input.
CloseSession ==
    /\ spc = "close"
    /\ \E how \in {"closed"} \cup (IF up[conn] # <<>> THEN {"reset"} ELSE {}) :
        conns' = [conns EXCEPT ![conn] = how]
    /\ conn' = NoClient
    /\ spc' = "accept"
    /\ UNCHANGED <<tokens, last, EOFreached, queue, clients, history>>

ServerStep ==
    Accept \/ ReadLine \/ ReadEndOfStream \/ DecideEmpty \/ DecideParse
        \/ WriteSentence \/ WriteFails \/ CloseSession

Next ==
    \/ ServerStep
    \/ \E c \in Clients : Connect(c) \/ ClientStep(c) \/ Kill(c)

Spec == Init /\ [][Next]_vars

\* The server and the clients are processes that run as long as they can.
FairSpec == Spec /\ WF_vars(ServerStep) /\ \A c \in Clients : WF_vars(ClientStep(c))

-------------------------------------------------------------------------------
(***************************************************************************)
(* Properties.                                                             *)
(***************************************************************************)
\* The sentences of a text, by their lengths: its runs of tokens.  Scan has those
\* that have ended, and the length of the one that has not.
AddLine(scan, l) ==
    IF l = "token" THEN [done |-> scan.done, open |-> scan.open + 1]
    ELSE IF scan.open = 0 THEN scan
    ELSE [done |-> Append(scan.done, scan.open), open |-> 0]

Scan(s) ==
    LET upTo[n \in 0 .. Len(s)] ==
            IF n = 0 THEN [done |-> <<>>, open |-> 0] ELSE AddLine(upTo[n - 1], s[n])
    IN  upTo[Len(s)]

Sentences(d) == Scan(Append(d, "blank")).done

\* One blank line between two sentences, none before the first.
WellSeparated(d) ==
    /\ d # <<>> => Head(d) = "token"
    /\ \A i \in 1 .. Len(d) - 1 : d[i] = "token" \/ d[i + 1] = "token"

\* What a client is sent are sentences of its own text, from the first on and
\* each one whole: whatever the flag, the buffers and the other clients do, no
\* reply mixes sentences, skips one or ends within one.
RepliesInOrder ==
    \A c \in Clients :
        cpc[c] # "killed" => IsPrefix(got[c] \o down[c], Sentences(doc[c]))

\* A client gets the parse of its whole text, if the text is well separated and
\* the client was not accepted with the flag of an earlier one and no sentence
\* was rejected.
CompleteReply ==
    \A c \in Clients :
        cpc[c] = "done" /\ c \notin stale \cup rejected /\ WellSeparated(doc[c])
            => got[c] = Sentences(doc[c])

\* A client accepted with the flag set gets at most its first sentence.
StaleTruncates == \A c \in stale : Len(got[c] \o down[c]) <= 1

\* Every client that is not killed gets its connection closed, if the replies
\* fit in the buffers (a client that is still sending does not read).
RepliesFit == \A d \in Docs : Len(Sentences(d)) <= BufSentences
SessionsEnd ==
    RepliesFit => \A c \in Clients :
        cpc[c] = "sending" ~> cpc[c] \in {"done", "failed", "killed"}

\* MPClient.java:61 "wait for server to send the parsed file": a client that
\* ends normally has the parse of the file it sent.
WholeFileParsed ==
    \A c \in Clients : cpc[c] = "done" => got[c] = Sentences(doc[c])
===============================================================================
