----------------------------- MODULE LookupSession -----------------------------
(***************************************************************************)
(* The look-up servers flookup_tcpServer and tcpServer (the spell checker) *)
(* and their client: one process per connection, no framing.  The client   *)
(* writes a line without its line end and takes one read for the answer.   *)
(*                                                                         *)
(* A line is a sequence of pieces: none if it is empty, one if it fits the *)
(* 1024 bytes of the server's buffer, and else some that fill it and the   *)
(* rest.  An answer is the sequence of its results, of which ReadSize fit  *)
(* one read of the client.                                                 *)
(***************************************************************************)
EXTENDS SpellWords, FiniteSets

CONSTANTS Clients,
          Inputs,     \* what the clients may have to look up: for each a sequence of lines
          Full,       \* pieces that fill the buffer
          Fused,      \* what the rest of a line and the line after it look like in one
          MedLimit,   \* option -l of the spell checker
          ReadSize,   \* results that fit the 255 bytes that the client reads
          MaxProcs    \* bound: processes that the system may let the server have

ASSUME LookupAssumption ==
    /\ IsFiniteSet(Clients)
    /\ Inputs \subseteq [Clients -> Seq(Seq(Words))]
    /\ Full \subseteq Words /\ Fused \in Words
    /\ MedLimit \in Nat \ {0}
    /\ ReadSize \in Nat \ {0}
    /\ MaxProcs \in Nat \ {0}

VARIABLES
    program,   \* the server: "flookup" or "spell"
    server,    \* "down", "listening" or "exited"
    procs,     \* processes that the system lets it have
    client,    \* "new", "refused", "writing", "reading", "done" or "failed"
    child,     \* the process of a connection: "none", "running" or "zombie"
    input,     \* the lines that a client has not read yet
    toServer,  \* pieces on their way
    toClient,  \* results on their way
    previous,  \* what outstr of a child points at
    asked,     \* history: the lines that the client has written
    printed,   \* what it has printed
    served     \* history: number of connections that got a process

vars == <<program, server, procs, client, child, input, toServer, toClient, previous, asked, printed, served>>
conn == <<input, toServer, toClient, previous, asked, printed>>

\* What is printed of an address that is not a string.
Garbage == <<<<Fused, -2>>>>

InitWith(which, n, lines) ==
    /\ procs = n
    /\ program = which
    /\ input = lines
    /\ server = "down"
    /\ client = [c \in Clients |-> "new"]
    /\ child = [c \in Clients |-> "none"]
    /\ toServer = [c \in Clients |-> <<>>]
    /\ toClient = [c \in Clients |-> <<>>]
    /\ previous = [c \in Clients |-> Garbage]
    /\ asked = [c \in Clients |-> <<>>]
    /\ printed = [c \in Clients |-> <<>>]
    /\ served = 0

Init ==
    \E which \in {"flookup", "spell"}, n \in 1 .. MaxProcs, lines \in Inputs : InitWith(which, n, lines)

-------------------------------------------------------------------------------
(***************************************************************************)
(* The answers.                                                            *)
(***************************************************************************)
\* handle_line of flookup_tcpServer: the results of the chain, if any.
LookupAnswer(w) == ChainResults(w)

\* handle_line of tcpServer: "--" for a word that the analyzer knows, else
\* suggestions, "???" if there are none.
CheckAnswer(w) == SpellAnswer(w, MedLimit)

Answer(w) == IF program = "spell" THEN CheckAnswer(w) ELSE LookupAnswer(w)

\* outstr is not initialized: without an answer it may still point at the last
\* one, at nothing or at anything.
Unset(c) == {previous[c], <<>>, Garbage}

-------------------------------------------------------------------------------
(***************************************************************************)
(* The server.                                                             *)
(***************************************************************************)
\* main of flookup_tcpServer: options, the chain, the port.
StartFlookup(fault) ==
    /\ program = "flookup"
    /\ server = "down"
    /\ server' = IF fault \in {"chain", "port"} THEN "exited" ELSE "listening"
    /\ UNCHANGED <<program, procs, client, child, served, conn>>

\* main of tcpServer: options, analyzer, chain, the search, the port.
StartSpell(fault) ==
    /\ program = "spell"
    /\ server = "down"
    /\ server' = IF fault \in {"analyzer", "chain", "med", "port"} THEN "exited" ELSE "listening"
    /\ UNCHANGED <<program, procs, client, child, served, conn>>

Processes == {c \in Clients : child[c] # "none"}

\* Mutant of AcceptClient: the server waits for the child of a client before it accepts another.
AcceptClientAlone(c) ==
    /\ server = "listening"
    /\ client[c] \notin {"new", "refused"}
    /\ child[c] = "none"
    /\ \A d \in Clients : child[d] # "running"
    /\ child' = [child EXCEPT ![c] = "running"]
    /\ served' = served + 1
    /\ UNCHANGED <<program, server, procs, client, conn>>

\* accept and fork: children are never waited for; without a process the server exits.
AcceptClient(c) ==
    /\ server = "listening"
    /\ client[c] \notin {"new", "refused"}
    /\ child[c] = "none"
    /\ IF Cardinality(Processes) < procs
       THEN /\ child' = [child EXCEPT ![c] = "running"]
            /\ served' = served + 1
            /\ UNCHANGED server
       ELSE server' = "exited" /\ UNCHANGED <<child, served>>
    /\ UNCHANGED <<program, procs, client, conn>>

\* recv: a full piece, or a rest with whatever of the next line is there already.
Received(c) ==
    {r \in Words \X (1 .. Len(toServer[c])) :
        \/ r[2] = 1 /\ r[1] = toServer[c][1]
        \/ r[2] > 1 /\ r[1] = Fused /\ \A i \in 1 .. r[2] : toServer[c][i] \notin Full}

\* The loop of a child: what is received is looked up and answered at once.
ChildAnswers(c) ==
    /\ child[c] = "running"
    /\ toServer[c] # <<>>
    /\ \E r \in Received(c) :
          /\ \E outstr \in IF Answer(r[1]) # <<>> THEN {Answer(r[1])} ELSE Unset(c) :
                /\ previous' = [previous EXCEPT ![c] = outstr]
                /\ toClient' = [toClient EXCEPT ![c] = @ \o outstr]
          /\ toServer' = [toServer EXCEPT ![c] = SubSeq(@, r[2] + 1, Len(@))]
    /\ UNCHANGED <<program, server, procs, client, child, input, asked, printed, served>>

\* It dies of an address in outstr that is not valid.
ChildCrashes(c) ==
    /\ child[c] = "running"
    /\ toServer[c] # <<>>
    /\ \E r \in Received(c) : Answer(r[1]) = <<>>
    /\ child' = [child EXCEPT ![c] = "zombie"]
    /\ toServer' = [toServer EXCEPT ![c] = <<>>]
    /\ UNCHANGED <<program, server, procs, client, input, toClient, previous, asked, printed, served>>

\* recv gives 0: handle_line of an empty string, and exit, whatever it sends.
ChildEnds(c) ==
    /\ child[c] = "running"
    /\ toServer[c] = <<>>
    /\ client[c] \in {"done", "failed"}
    /\ child' = [child EXCEPT ![c] = "zombie"]
    /\ UNCHANGED <<program, server, procs, client, served, conn>>

-------------------------------------------------------------------------------
(***************************************************************************)
(* The client.                                                             *)
(***************************************************************************)
\* connect succeeds as soon as the server listens; accept comes later.
Connect(c) ==
    /\ client[c] = "new"
    /\ client' = [client EXCEPT ![c] = IF server = "listening" THEN "writing" ELSE "refused"]
    /\ UNCHANGED <<program, server, procs, child, served, conn>>

\* The process that would read is gone, or will never exist.
Gone(c) == child[c] = "zombie" \/ (child[c] = "none" /\ server = "exited")

\* One write of strlen(line) bytes: an empty line sends nothing.
WriteLine(c) ==
    /\ client[c] = "writing"
    /\ input[c] # <<>>
    /\ client' = [client EXCEPT ![c] = "reading"]
    /\ asked' = [asked EXCEPT ![c] = Append(@, Head(input[c]))]
    /\ input' = [input EXCEPT ![c] = Tail(@)]
    /\ toServer' = [toServer EXCEPT ![c] = IF Gone(c) THEN @ ELSE @ \o Head(input[c])]
    /\ UNCHANGED <<program, server, procs, child, toClient, previous, printed, served>>

\* The second write to a process that is gone kills the client.
WriteFails(c) ==
    /\ client[c] = "writing"
    /\ input[c] # <<>>
    /\ Gone(c)
    /\ client' = [client EXCEPT ![c] = "failed"]
    /\ UNCHANGED <<program, server, procs, child, served, conn>>

\* Mutant of ReadAnswer: what does not fit is dropped.
ReadAnswerDropping(c) ==
    /\ client[c] = "reading"
    /\ toClient[c] # <<>>
    /\ client' = [client EXCEPT ![c] = "writing"]
    /\ printed' = [printed EXCEPT ![c] = Append(@, SelectSeq(toClient[c], LAMBDA r : r[2] <= ReadSize))]
    /\ toClient' = [toClient EXCEPT ![c] = <<>>]
    /\ UNCHANGED <<program, server, procs, child, input, toServer, previous, asked, served>>

\* One read: what has arrived, as far as it fits.
ReadAnswer(c) ==
    /\ client[c] = "reading"
    /\ toClient[c] # <<>>
    /\ LET n == IF Len(toClient[c]) < ReadSize THEN Len(toClient[c]) ELSE ReadSize
       IN  /\ printed' = [printed EXCEPT ![c] = Append(@, SubSeq(toClient[c], 1, n))]
           /\ toClient' = [toClient EXCEPT ![c] = SubSeq(@, n + 1, Len(@))]
    /\ client' = [client EXCEPT ![c] = "writing"]
    /\ UNCHANGED <<program, server, procs, child, input, toServer, previous, asked, served>>

\* The connection is closed by the other side: an empty line is printed, or the
\* connection was reset and the client exits.
ReadNothing(c) ==
    /\ client[c] = "reading"
    /\ toClient[c] = <<>>
    /\ Gone(c)
    /\ \/ client' = [client EXCEPT ![c] = "writing"] /\ printed' = [printed EXCEPT ![c] = Append(@, <<>>)]
       \/ client' = [client EXCEPT ![c] = "failed"] /\ UNCHANGED printed
    /\ UNCHANGED <<program, server, procs, child, input, toServer, toClient, previous, asked, served>>

\* The end of its input; what it has not read is lost.
Finish(c) ==
    /\ client[c] = "writing"
    /\ input[c] = <<>>
    /\ client' = [client EXCEPT ![c] = "done"]
    /\ UNCHANGED <<program, server, procs, child, served, conn>>

ClientStep(c) == Connect(c) \/ WriteLine(c) \/ WriteFails(c) \/ ReadAnswer(c) \/ ReadNothing(c) \/ Finish(c)
ServerStep(c) == AcceptClient(c) \/ ChildAnswers(c) \/ ChildCrashes(c) \/ ChildEnds(c)

Next ==
    \/ \E fault \in {"none", "analyzer", "chain", "med", "port"} : StartFlookup(fault) \/ StartSpell(fault)
    \/ \E c \in Clients : ClientStep(c) \/ ServerStep(c)

Spec == Init /\ [][Next]_vars

\* The processes run; nobody has to start the server or a client.
Fairness ==
    \A c \in Clients : /\ WF_vars(ServerStep(c))
                       /\ WF_vars(ClientStep(c) /\ client[c] # "new")

FairSpec == Spec /\ Fairness

-------------------------------------------------------------------------------
(***************************************************************************)
(* Properties.                                                             *)
(***************************************************************************)
\* Types; a client reads after each line that it writes and only then; and no more
\* connections ever get a process than the system allows processes at a time,
\* because those that have ended are never waited for.
TypeOK ==
    /\ program \in {"flookup", "spell"}
    /\ server \in {"down", "listening", "exited"}
    /\ child \in [Clients -> {"none", "running", "zombie"}]
    /\ client \in [Clients -> {"new", "refused", "writing", "reading", "done", "failed"}]
    /\ toServer \in [Clients -> Seq(Words)]
    /\ procs \in Nat /\ served \in 0 .. procs
    /\ \A c \in Clients :
        /\ client[c] \in {"new", "refused"} => child[c] = "none" /\ asked[c] = <<>>
        /\ client[c] = "reading" => Len(asked[c]) = Len(printed[c]) + 1
        /\ client[c] \in {"writing", "done"} => Len(asked[c]) = Len(printed[c])

\* A line that gets one answer in one read.
Ordinary(line) ==
    /\ Len(line) = 1
    /\ Len(Answer(line[1])) \in 1 .. ReadSize

\* Lines of which none can run into the one before it: a client that has read only
\* a part of an answer takes the rest for the next one and is ahead from then on.
Separate(lines) ==
    /\ \A k \in 1 .. Len(lines) - 2 : Ordinary(lines[k])
    /\ \A k \in DOMAIN lines : Len(lines[k]) = 1 /\ Answer(lines[k][1]) # <<>>

\* An answer belongs to its question: what is printed for a line is its answer as
\* long as all lines have been ordinary.  At the first answer that does not fit
\* and the line after it, what is printed is still what was answered, in order
\* and without a gap, only later.
AnswersInStep ==
    \A c \in Clients :
        LET lines == SubSeq(asked[c], 1, Len(printed[c]))
        IN  /\ \A k \in DOMAIN lines :
                (\A j \in 1 .. k : Ordinary(lines[j])) /\ printed[c][k] # <<>>
                    => printed[c][k] = Answer(lines[k][1])
            /\ Separate(lines) =>
                IsPrefix(FlattenSeq(printed[c]), FlattenSeq([k \in DOMAIN lines |-> Answer(lines[k][1])]))

\* A client whose lines are neither empty nor too long nor without result comes to
\* its end, also when it reads an answer late or the server has no process for it.
ClientsEnd ==
    \A c \in Clients :
        client[c] = "writing" /\ asked[c] = <<>> /\ Separate(input[c]) ~> client[c] \in {"done", "failed"}
===============================================================================
