---------------------------- MODULE AnalyzerSession ----------------------------
(***************************************************************************)
(* The conversation of one analyzer_client with its worker of              *)
(* server_squoia, at the level of messages (SocketFraming shows how the    *)
(* messages become bytes, and needs that only one is on its way).          *)
(*                                                                         *)
(* The analyzer is external: a line of text stays in its buffer until some *)
(* later line completes the sentence, so that any number of buffered lines *)
(* may come back with a line, and a flush returns them all.                *)
(***************************************************************************)
EXTENDS Integers, Sequences, SequencesExt, SequenceFilters

CONSTANTS Inputs,       \* the input files of a run of the client: a set of
                        \* sequences of files, which are sequences of lines
          Configs       \* what the server may have been configured for

Modes == {"ident",      \* OutputLevel IDENT
          "doc",        \* InputMode MODE_DOC
          "text",       \* MODE_CORPUS, INP_TEXT
          "columns"}    \* MODE_CORPUS, INP_CONLL or INP_FREELING

\* A line is text, empty, or a word that the worker takes for a command.
Commands  == {"RESET_STATS", "PRINT_STATS", "FLUSH_BUFFER"}
LineKinds == {"text", "empty"} \cup Commands

ASSUME SessionAssumption ==
    /\ Inputs \subseteq Seq(Seq(LineKinds))
    /\ Configs \subseteq Modes

VARIABLES
    mode,      \* the configuration of the server
    files,     \* the files on the command line of the client
    cpc,       \* client: "sync", "send", "wait", "flush", "done", "failed", "killed"
    file,      \* index of the file being sent
    line,      \* index of the next line of that file
    out,       \* per file, what the client printed between <OUTPUT> and </OUTPUT>
    wpc,       \* worker: "read" or "exited"
    buffer,    \* lines the worker holds: in the analyzer, or in "text"
    up, down   \* messages on their way to the worker and to the client

client  == <<files, cpc, file, line, out>>
worker  == <<mode, wpc, buffer>>
vars    == <<client, worker, up, down>>

(***************************************************************************)
(* A message to the worker is a line: a line of text is known by its file  *)
(* and its place.  An answer is the sequence of the lines that were        *)
(* analyzed: none of them is the ready message; a language name and the    *)
(* statistics are answers apart.                                           *)
(***************************************************************************)
Text(f, i) == <<f, i>>
TextLines  == UNION {{Text(f, i) : i \in DOMAIN files[f]} : f \in DOMAIN files}
Empty      == <<"empty">>
Reset      == <<"RESET_STATS">>
PrintStats == <<"PRINT_STATS">>
Flush      == <<"FLUSH_BUFFER">>

Ready    == <<>>
Language == <<<<"language">>>>
Stats    == <<<<"stats">>>>

Message(f, i) == IF files[f][i] = "text" THEN Text(f, i) ELSE <<files[f][i]>>

TextOf(s) == Only(s, TextLines)

Init ==
    /\ mode \in Configs
    /\ files \in Inputs
    /\ cpc = "sync"
    /\ file = 1
    /\ line = 1
    /\ out = [f \in DOMAIN files |-> <<>>]
    /\ wpc = "read"
    /\ buffer = <<>>
    /\ up = <<Reset>>              \* sent by main as soon as it is connected
    /\ down = <<>>

-------------------------------------------------------------------------------
(***************************************************************************)
(* analyzer_client.cc                                                      *)
(***************************************************************************)
\* The connection as the client sees it.  Once the worker is gone, a read finds
\* nothing.  A first message can still be written and is thrown away; when the
\* reset that it provokes has come back, the next write raises SIGPIPE and the
\* next read fails.  Between two hosts that takes any time, and any number of
\* messages may be written before: up holds the last of them.
Answered == down # <<>>
HungUp   == down = <<>> /\ wpc = "exited"
Broken   == wpc = "exited" /\ up # <<>>
Send(m)  == up' = IF wpc = "exited" THEN <<m>> ELSE Append(up, m)

\* main: the answer to RESET_STATS tells that the worker is ready.
Synchronize ==
    /\ cpc = "sync"
    /\ Answered
    /\ down' = Tail(down)
    /\ cpc' = IF Head(down) = Ready THEN "send" ELSE "failed"
    /\ UNCHANGED <<files, file, line, out, worker, up>>

\* Mutant of SendLine: the client does not wait for the response.
SendLineWithoutWaiting ==
    /\ cpc = "send"
    /\ file <= Len(files)
    /\ line <= Len(files[file])
    /\ Send(Message(file, line))
    /\ line' = line + 1
    /\ UNCHANGED <<files, cpc, file, out, worker, down>>

\* process_stream: the next line of the file.
SendLine ==
    /\ cpc = "send"
    /\ file <= Len(files)
    /\ line <= Len(files[file])
    /\ Send(Message(file, line))
    /\ line' = line + 1
    /\ cpc' = "wait"
    /\ UNCHANGED <<files, file, out, worker, down>>

\* process_stream: the file has ended, make the server flush its buffer.
SendFlush ==
    /\ cpc = "send"
    /\ file <= Len(files)
    /\ line > Len(files[file])
    /\ Send(Flush)
    /\ cpc' = "flush"
    /\ UNCHANGED <<files, file, line, out, worker, down>>

\* process_stream: an answer that is not the ready message is printed.
PrintAnswer(answer) ==
    out' = IF answer = Ready THEN out ELSE [out EXCEPT ![file] = @ \o answer]

ReceiveAnswer ==
    /\ cpc = "wait"
    /\ Answered
    /\ PrintAnswer(Head(down))
    /\ down' = Tail(down)
    /\ cpc' = "send"
    /\ UNCHANGED <<files, file, line, worker, up>>

\* process_stream: the answer to the flush ends the file.
ReceiveFlushed ==
    /\ cpc = "flush"
    /\ Answered
    /\ PrintAnswer(Head(down))
    /\ down' = Tail(down)
    /\ file' = file + 1
    /\ line' = 1
    /\ cpc' = "send"
    /\ UNCHANGED <<files, worker, up>>

\* The worker is gone and the read returns 0: read_message returns an empty
\* string, which is printed, and the client goes on as after an answer.
ReceiveNothing ==
    /\ cpc \in {"wait", "flush"}
    /\ HungUp
    /\ cpc' = "send"
    /\ IF cpc = "flush" THEN file' = file + 1 /\ line' = 1
                        ELSE UNCHANGED <<file, line>>
    /\ UNCHANGED <<files, out, worker, up, down>>

\* The worker is gone: the read fails (or is no ready message), or the reset is
\* there when the client writes.
ClientFails ==
    /\ \/ cpc \in {"sync", "wait", "flush"} /\ HungUp
       \/ cpc = "send" /\ file <= Len(files) /\ Broken
    /\ cpc' = "failed"
    /\ UNCHANGED <<files, file, line, out, worker, up, down>>

\* main: the last file is done, the connection is closed.
CloseClient ==
    /\ cpc = "send"
    /\ file > Len(files)
    /\ cpc' = "done"
    /\ UNCHANGED <<files, file, line, out, worker, up, down>>

\* The user interrupts the client.
Kill ==
    /\ cpc \notin {"done", "failed", "killed"}
    /\ cpc' = "killed"
    /\ UNCHANGED <<files, file, line, out, worker, up, down>>

ClientStep ==
    \/ Synchronize \/ SendLine \/ SendFlush
    \/ ReceiveAnswer \/ ReceiveFlushed \/ ReceiveNothing
    \/ ClientFails \/ CloseClient

ClientGone == cpc \in {"done", "failed", "killed"}

-------------------------------------------------------------------------------
(***************************************************************************)
(* The worker: one action per branch of the four reading loops.            *)
(***************************************************************************)
Read(m) == wpc = "read" /\ up # <<>> /\ Head(up) = m /\ up' = Tail(up)
ReadText == wpc = "read" /\ up # <<>> /\ Head(up) \in TextLines /\ up' = Tail(up)

Answer(a) == down' = Append(down, a)

\* main, OutputLevel IDENT: every message is text to identify.
Identify ==
    /\ mode = "ident"
    /\ wpc = "read"
    /\ up # <<>>
    /\ up' = Tail(up)
    /\ Answer(Language)
    /\ UNCHANGED <<client, mode, wpc, buffer>>

\* CheckStatsCommands, called by the three other loops.
CheckStatsCommands ==
    /\ mode # "ident"
    /\ \/ Read(Reset) /\ Answer(Ready)
       \/ Read(PrintStats) /\ Answer(Stats)
    /\ UNCHANGED <<client, mode, wpc, buffer>>

\* Mutant of AnalyzeText: the lines of an unfinished sentence are dropped.
AnalyzeTextDropsRest ==
    /\ mode = "text"
    /\ (ReadText \/ Read(Empty))
    /\ LET held == IF Head(up) = Empty THEN buffer ELSE Append(buffer, Head(up))
       IN  \E n \in 0 .. Len(held) : Answer(SubSeq(held, 1, n))
    /\ buffer' = <<>>
    /\ UNCHANGED <<client, mode, wpc>>

AnalyzeTextWithoutAck ==
    /\ mode = "text"
    /\ (ReadText \/ Read(Empty))
    /\ LET held == IF Head(up) = Empty THEN buffer ELSE Append(buffer, Head(up))
       IN  \E n \in 0 .. Len(held) :
            /\ IF n > 0 THEN Answer(SubSeq(held, 1, n)) ELSE UNCHANGED down
            /\ buffer' = SubSeq(held, n + 1, Len(held))
    /\ UNCHANGED <<client, mode, wpc>>

\* process_text_incremental: a line of text.  OutputSentences answers with the
\* sentences that are complete, or with the ready message when there is none
\* (with cfg->AlwaysFlush the line completes one: n = Len(held)).
AnalyzeText ==
    /\ mode = "text"
    /\ (ReadText \/ Read(Empty))
    /\ LET held == IF Head(up) = Empty THEN buffer ELSE Append(buffer, Head(up))
       IN  \E n \in 0 .. Len(held) :
            /\ Answer(SubSeq(held, 1, n))
            /\ buffer' = SubSeq(held, n + 1, Len(held))
    /\ UNCHANGED <<client, mode, wpc>>

\* Mutant of FlushText: the splitter is called without flush.
FlushTextKeepsRest ==
    /\ mode = "text"
    /\ Read(Flush)
    /\ \E n \in 0 .. Len(buffer) :
        /\ Answer(SubSeq(buffer, 1, n))
        /\ buffer' = SubSeq(buffer, n + 1, Len(buffer))
    /\ UNCHANGED <<client, mode, wpc>>

\* process_text_incremental: FLUSH_BUFFER returns all that is buffered.
FlushText ==
    /\ mode = "text"
    /\ Read(Flush)
    /\ Answer(buffer)
    /\ buffer' = <<>>
    /\ UNCHANGED <<client, mode, wpc>>


\* load_document: a line is acknowledged and kept.
LoadLine ==
    /\ mode = "doc"
    /\ ReadText \/ Read(Empty)
    /\ buffer' = IF Head(up) = Empty THEN buffer ELSE Append(buffer, Head(up))
    /\ Answer(Ready)
    /\ UNCHANGED <<client, mode, wpc>>

\* Mutant of FlushDocument: the line read last is left out of the document.
FlushDocumentWithoutLast ==
    /\ mode = "doc"
    /\ Read(Flush)
    /\ Answer(IF buffer = <<>> THEN buffer ELSE Front(buffer))
    /\ buffer' = <<>>
    /\ wpc' = "exited"
    /\ UNCHANGED <<client, mode>>

\* load_document returns at FLUSH_BUFFER: main analyzes the document, writes it
\* (OutputDocument) and closes the worker.
FlushDocument ==
    /\ mode = "doc"
    /\ Read(Flush)
    /\ Answer(buffer)
    /\ buffer' = <<>>
    /\ wpc' = "exited"
    /\ UNCHANGED <<client, mode>>

\* process_columns_incremental: a line is added to the sentence, unanswered.
AddColumns ==
    /\ mode = "columns"
    /\ ReadText
    /\ buffer' = Append(buffer, Head(up))
    /\ UNCHANGED <<client, mode, wpc, down>>

\* process_columns_incremental: an empty line ends the sentence; FLUSH_BUFFER
\* is turned into an empty line.
EndSentence ==
    /\ mode = "columns"
    /\ Read(Empty) \/ Read(Flush)
    /\ Answer(buffer)
    /\ buffer' = <<>>
    /\ UNCHANGED <<client, mode, wpc>>

\* Mutant of EndOfInput: only a client that closes the connection ends it.
EndOfInputWhenDone ==
    /\ wpc = "read"
    /\ up = <<>>
    /\ cpc = "done"
    /\ buffer' = IF mode \in {"doc", "text"} THEN <<>> ELSE buffer
    /\ wpc' = "exited"
    /\ UNCHANGED <<client, mode, up, down>>

\* ReadLine returns 0, the client is gone: what is left is written to a closed
\* connection (in the doc and text modes) and the worker exits.
EndOfInput ==
    /\ wpc = "read"
    /\ up = <<>>
    /\ ClientGone
    /\ buffer' = IF mode \in {"doc", "text"} THEN <<>> ELSE buffer
    /\ wpc' = "exited"
    /\ UNCHANGED <<client, mode, up, down>>

\* A write to a client that is gone fails or raises SIGPIPE: the worker exits.
WriteFails ==
    /\ wpc = "read"
    /\ up # <<>>
    /\ ClientGone
    /\ wpc' = "exited"
    /\ UNCHANGED <<client, mode, buffer, up, down>>

WorkerStep ==
    \/ Identify \/ CheckStatsCommands
    \/ AnalyzeText \/ FlushText
    \/ LoadLine \/ FlushDocument
    \/ AddColumns \/ EndSentence
    \/ EndOfInput \/ WriteFails

Next == ClientStep \/ WorkerStep \/ Kill

Spec == Init /\ [][Next]_vars

\* Both are processes that the system runs; nobody has to kill the client.
Fairness == WF_vars(ClientStep) /\ WF_vars(WorkerStep)

-------------------------------------------------------------------------------
(***************************************************************************)
(* Properties.                                                             *)
(***************************************************************************)
\* The first n lines of a file that are text, in order.
FirstLines(f, n) == TextOf([i \in 1 .. n |-> Message(f, i)])
FileLines(f)     == FirstLines(f, Len(files[f]))

\* The two sides take turns: there is never more than one message on its way.
\* read_message keeps nothing of a second message that came with the first one,
\* so the whole protocol rests on this (SocketFraming).
OneInFlight == Len(up) + Len(down) <= 1

\* Nothing is lost, repeated or reordered: what was printed for a file, what is
\* on its way back, in the worker or on its way there make up the lines of that
\* file that the client has sent, in their order.
LinesConserved ==
    mode # "ident" /\ file <= Len(files) /\ wpc = "read" /\ ~ClientGone =>
        TextOf(out[file]) \o TextOf(FlattenSeq(down)) \o buffer \o TextOf(up)
            = FirstLines(file, line - 1)

\* A document ends where its file does, or at a line that the worker takes for
\* the command to flush.
DocumentEnds(n) ==
    /\ n \in 0 .. Len(files[1])
    /\ \A i \in 1 .. n - 1 : files[1][i] # "FLUSH_BUFFER"
    /\ n = Len(files[1]) \/ (n > 0 /\ files[1][n] = "FLUSH_BUFFER")

\* What may be printed for a file: its lines.  A worker of a document takes one
\* document only and exits; a client that goes on may lose what it sends
\* without being told, and prints the other files without an analysis.
OwnSection(f, text) ==
    IF mode # "doc" THEN text = FileLines(f)
    ELSE IF f = 1 THEN \E n \in 0 .. Len(files[1]) :
                            DocumentEnds(n) /\ text = FirstLines(1, n)
    ELSE text = <<>>

\* The analysis of a file is printed between its own <OUTPUT> tags: the flush
\* at the end of a file leaves nothing for the next one, and no part of a file
\* goes without its analysis unless the worker took the document for complete.
SectionsMatch ==
    /\ \A f \in DOMAIN files : f < file => OwnSection(f, TextOf(out[f]))
    /\ \A f \in DOMAIN files : f > file => out[f] = <<>>

\* Every session that is not interrupted ends with the last file: no message is
\* left without an answer.  (A worker of a document takes one file only.)
SessionEnds ==
    mode \notin {"ident", "columns"} /\ (mode = "doc" => Len(files) <= 1)
        => <>(cpc \in {"done", "killed"})

\* A worker exits after its client, whatever happened to the client: this is
\* the fairness of WorkerExits in AnalyzerServer.
WorkerFollows == ClientGone ~> wpc = "exited"
===============================================================================
