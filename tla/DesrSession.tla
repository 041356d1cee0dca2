------------------------------ MODULE DesrSession ------------------------------
(***************************************************************************)
(* The server of the dependency parser, desr_server, and its clients, at   *)
(* the level of messages.  Its dispatcher is a copy of that of             *)
(* server_squoia without the handler for a failed fork; its workers gather *)
(* all lines of a client, parse them when the client closes its half of    *)
(* the connection, and answer with one message.                            *)
(***************************************************************************)
EXTENDS FiniteSets, SequenceFilters

CONSTANTS Clients,
          Texts,      \* what the clients may have to send: for each a sequence of lines
          Bad,        \* lines that make the parser throw an exception
          Slots,      \* DEFAULT_MAX_WORKERS, 5 in the code
          QueueSize   \* DEFAULT_QUEUE_SIZE, 32 in the code

ASSUME DesrAssumption ==
    /\ IsFiniteSet(Clients)
    /\ Texts \subseteq [Clients -> Seq(STRING)]
    /\ Slots \in Nat \ {0}
    /\ QueueSize \in Nat \ {0}

VARIABLES
    pc,       \* the dispatcher: "options", "model", "slot", "accept", "fork" or "exited"
    semaf,    \* value of the semaphore
    zombies,  \* workers that have ended and were not waited for
    sigchld,  \* number of SIGCHLD that are pending: at most one
    unforked, \* history: 1 once a fork has failed
    queue,    \* connections that wait for accept()
    link,     \* a connection: "none", "queued", "accepted", "reading", "parsing" or "closed"
    client,   \* "new", "sync", "send", "wait", "last", "done", "failed" or "killed"
    lines,    \* the lines of a client
    next,     \* its next line
    up, down, \* messages on their way to the worker and to the client
    held,     \* the lines that the worker has gathered in sout
    printed   \* the answers that the client has printed

dispatcher == <<pc, semaf, zombies, sigchld, unforked, queue>>
talk == <<client, lines, next, up, down, held, printed>>
vars == <<dispatcher, link, talk>>

Working(c) == link[c] \in {"reading", "parsing"}
Busy == {c \in Clients : Working(c)}
Holding == IF pc \in {"accept", "fork"} THEN 1 ELSE 0

(***************************************************************************)
(* Lines are words for what they hold; the two of Commands are taken for   *)
(* commands wherever they come from.  An answer is the lines that were     *)
(* parsed, or one of two messages that no line looks like.                 *)
(***************************************************************************)
Reset == "RESET_STATS"
Statistics == "PRINT_STATS"
Commands == {Reset, Statistics}
Ready  == [kind |-> "ready", lines |-> <<>>]
Stats  == [kind |-> "stats", lines |-> <<>>]
Parsed(s) == [kind |-> "parsed", lines |-> s]

InitWith(stage, texts) ==
    /\ pc = stage
    /\ semaf = Slots
    /\ zombies = 0
    /\ sigchld = 0
    /\ unforked = 0
    /\ queue = <<>>
    /\ link = [c \in Clients |-> "none"]
    /\ client = [c \in Clients |-> "new"]
    /\ lines = texts
    /\ next = [c \in Clients |-> 1]
    /\ up = [c \in Clients |-> <<>>]
    /\ down = [c \in Clients |-> <<>>]
    /\ held = [c \in Clients |-> <<>>]
    /\ printed = [c \in Clients |-> <<>>]

Init == \E texts \in Texts : InitWith("options", texts)

-------------------------------------------------------------------------------
(***************************************************************************)
(* The dispatcher of desr_server.cc.                                       *)
(***************************************************************************)
\* main: missing options, files, languages or formats end the program before there is
\* a socket.
ReadOptions(ok) ==
    /\ pc = "options"
    /\ pc' = IF ok THEN "model" ELSE "exited"
    /\ UNCHANGED <<semaf, zombies, sigchld, unforked, queue, link, talk>>

\* What happens to the connections that no process holds any more.
Dropped == [c \in Clients |-> IF link[c] \in {"queued", "accepted"} THEN "closed" ELSE link[c]]

\* Parser::create: the socket listens while the model is loaded.  Without a parser the
\* program ends.
LoadModel(ok) ==
    /\ pc = "model"
    /\ IF ok
       THEN pc' = "slot" /\ UNCHANGED <<queue, link>>
       ELSE pc' = "exited" /\ queue' = <<>> /\ link' = Dropped
    /\ UNCHANGED <<semaf, zombies, sigchld, unforked, talk>>

TakeSlot ==
    /\ pc = "slot"
    /\ semaf > 0
    /\ semaf' = semaf - 1
    /\ pc' = "accept"
    /\ UNCHANGED <<zombies, sigchld, unforked, queue, link, talk>>

AcceptClient ==
    /\ pc = "accept"
    /\ queue # <<>>
    /\ queue' = Tail(queue)
    /\ link' = [link EXCEPT ![Head(queue)] = "accepted"]
    /\ pc' = "fork"
    /\ UNCHANGED <<semaf, zombies, sigchld, unforked, talk>>

\* Mutant of ForkWorker: the next client is accepted on the same slot.
ForkWorkerSameSlot(c) ==
    /\ pc = "fork"
    /\ link[c] = "accepted"
    /\ link' = [link EXCEPT ![c] = "reading"]
    /\ pc' = "accept"
    /\ UNCHANGED <<semaf, zombies, sigchld, unforked, queue, talk>>

ForkWorker(c) ==
    /\ pc = "fork"
    /\ link[c] = "accepted"
    /\ link' = [link EXCEPT ![c] = "reading"]
    /\ pc' = "slot"
    /\ UNCHANGED <<semaf, zombies, sigchld, unforked, queue, talk>>

\* A failed fork is taken for that of a parent: the connection is closed, the slot is
\* not returned.
ForkFails(c) ==
    /\ pc = "fork"
    /\ link[c] = "accepted"
    /\ link' = [link EXCEPT ![c] = "closed"]
    /\ unforked' = 1
    /\ pc' = "slot"
    /\ UNCHANGED <<semaf, zombies, sigchld, queue, talk>>

\* Mutant of ChildEnded: the handler waits for a child and posts for none.
ChildEndedNoPost ==
    /\ sigchld = 1
    /\ pc # "exited"
    /\ sigchld' = 0
    /\ zombies' = zombies - 1
    /\ UNCHANGED <<pc, semaf, unforked, queue, link, talk>>

\* child_ended: one child and one slot for each signal that is delivered.  sem_wait
\* and accept go on when the handler returns.
ChildEnded ==
    /\ sigchld = 1
    /\ pc # "exited"
    /\ sigchld' = 0
    /\ zombies' = zombies - 1
    /\ semaf' = semaf + 1
    /\ UNCHANGED <<pc, unforked, queue, link, talk>>

\* terminate: the workers go on.
Terminate ==
    /\ pc \notin {"options", "exited"}
    /\ pc' = "exited"
    /\ queue' = <<>>
    /\ link' = Dropped
    /\ UNCHANGED <<semaf, zombies, sigchld, unforked, talk>>

-------------------------------------------------------------------------------
(***************************************************************************)
(* A worker of desr_server.cc.                                             *)
(***************************************************************************)
\* Mutant of Hear: commands are answered and kept.
HearKeepsCommands(c) ==
    /\ link[c] = "reading"
    /\ up[c] # <<>>
    /\ up' = [up EXCEPT ![c] = Tail(@)]
    /\ held' = [held EXCEPT ![c] = Append(@, Head(up[c]))]
    /\ down' = [down EXCEPT ![c] = Append(@, IF Head(up[c]) = Statistics THEN Stats ELSE Ready)]
    /\ UNCHANGED <<dispatcher, link, client, lines, next, printed>>

\* ReadLine and CheckStatsCommands: a command is answered, a line is kept and
\* acknowledged.
Hear(c) ==
    /\ link[c] = "reading"
    /\ up[c] # <<>>
    /\ up' = [up EXCEPT ![c] = Tail(@)]
    /\ held' = IF Head(up[c]) \in Commands THEN held ELSE [held EXCEPT ![c] = Append(@, Head(up[c]))]
    /\ down' = [down EXCEPT ![c] = Append(@, IF Head(up[c]) = Statistics THEN Stats ELSE Ready)]
    /\ UNCHANGED <<dispatcher, link, client, lines, next, printed>>

\* Mutant of EndOfText: a worker without lines goes on reading.
EndOfTextNonempty(c) ==
    /\ link[c] = "reading"
    /\ up[c] = <<>>
    /\ held[c] # <<>>
    /\ client[c] \in {"last", "killed"}
    /\ link' = [link EXCEPT ![c] = "parsing"]
    /\ UNCHANGED <<dispatcher, talk>>

\* The client has closed its half of the connection, or is gone.
EndOfText(c) ==
    /\ link[c] = "reading"
    /\ up[c] = <<>>
    /\ client[c] \in {"last", "killed"}
    /\ link' = [link EXCEPT ![c] = "parsing"]
    /\ UNCHANGED <<dispatcher, talk>>

\* The worker's process ends.  Nobody waits for it once the dispatcher is gone.
End(c) ==
    /\ link' = [link EXCEPT ![c] = "closed"]
    /\ IF pc = "exited"
       THEN UNCHANGED <<zombies, sigchld>>
       ELSE zombies' = zombies + 1 /\ sigchld' = 1
    /\ UNCHANGED <<pc, semaf, unforked, queue>>

HasBad(s) == \E i \in DOMAIN s : s[i] \in Bad

\* OutputString and CloseWorker.
Answer(c) ==
    /\ link[c] = "parsing"
    /\ ~HasBad(held[c])
    /\ down' = [down EXCEPT ![c] = Append(@, Parsed(held[c]))]
    /\ End(c)
    /\ UNCHANGED <<client, lines, next, up, held, printed>>

\* An exception of the parser is caught outside of the loop: the worker ends and says
\* nothing to the client.
ParserThrows(c) ==
    /\ link[c] = "parsing"
    /\ HasBad(held[c])
    /\ End(c)
    /\ UNCHANGED talk

-------------------------------------------------------------------------------
(***************************************************************************)
(* desr_client.cc                                                          *)
(***************************************************************************)
\* The connection is established by the system, and the message to synchronize with
\* the worker can be sent, before anybody accepts it.
Connect(c) ==
    /\ client[c] = "new"
    /\ pc \notin {"options", "exited"}
    /\ Len(queue) < QueueSize
    /\ queue' = Append(queue, c)
    /\ link' = [link EXCEPT ![c] = "queued"]
    /\ up' = [up EXCEPT ![c] = <<Reset>>]
    /\ client' = [client EXCEPT ![c] = "sync"]
    /\ UNCHANGED <<pc, semaf, zombies, sigchld, unforked, lines, next, down, held, printed>>

Refused(c) ==
    /\ client[c] = "new"
    /\ pc \in {"options", "exited"}
    /\ client' = [client EXCEPT ![c] = "failed"]
    /\ UNCHANGED <<dispatcher, link, lines, next, up, down, held, printed>>

HungUp(c) == down[c] = <<>> /\ link[c] = "closed"

\* "Server not ready?" if the connection is closed.
Synchronize(c) ==
    /\ client[c] = "sync"
    /\ HungUp(c) \/ down[c] # <<>>
    /\ client' = [client EXCEPT ![c] = IF ~HungUp(c) /\ Head(down[c]) = Ready THEN "send" ELSE "failed"]
    /\ down' = [down EXCEPT ![c] = <<>>]
    /\ UNCHANGED <<dispatcher, link, lines, next, up, held, printed>>

SendLine(c) ==
    /\ client[c] = "send"
    /\ next[c] <= Len(lines[c])
    /\ up' = [up EXCEPT ![c] = Append(@, lines[c][next[c]])]
    /\ next' = [next EXCEPT ![c] = @ + 1]
    /\ client' = [client EXCEPT ![c] = "wait"]
    /\ UNCHANGED <<dispatcher, link, lines, down, held, printed>>

\* What is printed of an answer: nothing if there is none or it is an acknowledgment.
Shown(answers) == IF answers = <<>> \/ answers = <<Ready>> THEN <<>> ELSE answers

ReadReply(c) ==
    /\ client[c] = "wait"
    /\ down[c] # <<>>
    /\ printed' = [printed EXCEPT ![c] = @ \o Shown(down[c])]
    /\ down' = [down EXCEPT ![c] = <<>>]
    /\ client' = [client EXCEPT ![c] = "send"]
    /\ UNCHANGED <<dispatcher, link, lines, next, up, held>>

\* shutdown_connection: no more lines.
Shutdown(c) ==
    /\ client[c] = "send"
    /\ next[c] > Len(lines[c])
    /\ client' = [client EXCEPT ![c] = "last"]
    /\ UNCHANGED <<dispatcher, link, lines, next, up, down, held, printed>>

\* The last answer, or the end of the connection: the client ends in the same way.
ReadResult(c) ==
    /\ client[c] = "last"
    /\ HungUp(c) \/ down[c] # <<>>
    /\ printed' = [printed EXCEPT ![c] = @ \o Shown(down[c])]
    /\ down' = [down EXCEPT ![c] = <<>>]
    /\ client' = [client EXCEPT ![c] = "done"]
    /\ UNCHANGED <<dispatcher, link, lines, next, up, held>>

\* The client may be killed at any time.
Kill(c) ==
    /\ client[c] \in {"sync", "send", "wait", "last"}
    /\ client' = [client EXCEPT ![c] = "killed"]
    /\ UNCHANGED <<dispatcher, link, lines, next, up, down, held, printed>>

-------------------------------------------------------------------------------
Dispatch ==
    \/ TakeSlot
    \/ AcceptClient
    \/ \E c \in Clients : ForkWorker(c) \/ ForkFails(c)

Work(c) == Hear(c) \/ EndOfText(c) \/ Answer(c) \/ ParserThrows(c)

Run(c) == Synchronize(c) \/ SendLine(c) \/ ReadReply(c) \/ Shutdown(c) \/ ReadResult(c)

Next ==
    \/ \E ok \in BOOLEAN : ReadOptions(ok) \/ LoadModel(ok)
    \/ Dispatch
    \/ ChildEnded
    \/ Terminate
    \/ \E c \in Clients : Work(c) \/ Run(c) \/ Connect(c) \/ Refused(c) \/ Kill(c)

\* The server, a worker whose parser ends, and a client go on when they can; nobody
\* has to start, stop or kill anything.
Fairness ==
    /\ WF_vars(\E ok \in BOOLEAN : ReadOptions(ok) \/ LoadModel(ok))
    /\ WF_vars(Dispatch)
    /\ WF_vars(ChildEnded)
    /\ \A c \in Clients : WF_vars(Work(c)) /\ WF_vars(Run(c))

Spec == Init /\ [][Next]_vars /\ Fairness

-------------------------------------------------------------------------------
(***************************************************************************)
(* Properties.                                                             *)
(***************************************************************************)
TypeOK ==
    /\ pc \in {"options", "model", "slot", "accept", "fork", "exited"}
    /\ semaf \in Nat
    /\ zombies \in Nat
    /\ sigchld \in {0, 1}
    /\ unforked \in {0, 1}
    /\ queue \in Seq(Clients)
    /\ link \in [Clients -> {"none", "queued", "accepted", "reading", "parsing", "closed"}]
    /\ client \in [Clients -> {"new", "sync", "send", "wait", "last", "done", "failed", "killed"}]

\* A SIGCHLD always finds a child to wait for, and there are never more workers and
\* free slots than DEFAULT_MAX_WORKERS, although the handler posts the semaphore
\* without knowing who ended.
SlotsCounted ==
    /\ sigchld = 1 => zombies > 0
    /\ semaf + Cardinality(Busy) + zombies + Holding <= Slots

\* Workers that end together may lose all their slots but one: as long as no fork has
\* failed, the dispatcher has a slot, or a worker or a signal will give it one.
SlotLeft ==
    pc # "exited" /\ unforked = 0 => semaf > 0 \/ Busy # {} \/ Holding = 1 \/ sigchld = 1

\* A line is a command for the worker that reads it, also in the middle of a text.
TextOf(s) == Without(s, Commands)
StatsOf(s) == [i \in 1 .. Len(Only(s, {Statistics})) |-> Stats]

\* A client that ends normally has printed the statistics that its text asks for and
\* then the parse of all other lines in their order, its own and no one else's; only
\* without the parse if the parser threw an exception.
TextParsed ==
    \A c \in Clients : client[c] = "done" =>
        printed[c] = StatsOf(lines[c]) \o
                     (IF HasBad(TextOf(lines[c])) THEN <<>> ELSE <<Parsed(TextOf(lines[c]))>>)

\* A client whose connection is established ends, whatever others do, unless forks
\* fail.
SessionEnds ==
    \A c \in Clients :
        client[c] = "sync" ~> client[c] \in {"done", "failed", "killed"} \/ unforked = 1
===============================================================================
