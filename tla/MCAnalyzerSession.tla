--------------------------- MODULE MCAnalyzerSession ---------------------------
(***************************************************************************)
(* The way to the analyzer for TLC: how a server is started (ServerStart), *)
(* and the connection between client and worker at its two levels, the     *)
(* messages of AnalyzerSession and the bytes of SocketFraming.  Each       *)
(* behaviour runs one of the three, while the others are over.             *)
(***************************************************************************)
EXTENDS AnalyzerSession, SocketFraming, ServerStart

VARIABLE active \* "session", "framing" or "start"

(***************************************************************************)
(* The files of the client: no file, up to two files of at most two lines, *)
(* or a longer file and a short one, or three short files; and files with  *)
(* a line that the worker takes for a command, before and after text.      *)
(***************************************************************************)
FilesUpTo(n) == UNION {[1 .. k -> {"text", "empty"}] : k \in 0 .. n}
PlainFiles ==
    UNION {[1 .. k -> FilesUpTo(2)] : k \in 0 .. 2}
        \cup {<<f, <<"text">>>> : f \in FilesUpTo(4)}
        \cup [1 .. 3 -> FilesUpTo(1)]
CommandFiles ==
    {<<f, <<"text">>>> :
        f \in {<<"text">> \o <<c>> \o t : c \in Commands, t \in FilesUpTo(2)}}
AllFiles == PlainFiles \cup CommandFiles

\* Messages shorter than, as long as and longer than the buffer, of two characters.
ShortMessages == UNION {[1 .. n -> {1, 2}] : n \in 0 .. 1} \cup {<<1, 2>>, <<2, 1, 1>>, <<1, 2, 2, 1>>}

SessionOver ==
    /\ mode = "text" /\ files = <<>> /\ out = <<>>
    /\ cpc = "done" /\ file = 1 /\ line = 1
    /\ wpc = "exited" /\ buffer = <<>> /\ up = <<>> /\ down = <<>>
FramingOver ==
    /\ writer = "closed" /\ sent = <<>> /\ unsent = <<>> /\ wire = <<>>
    /\ reader = "ended" /\ s = <<>> /\ got = <<>>

StartOver ==
    /\ run = [r \in Starters |-> "answer"] /\ server = [r \in Starters |-> "dead"]
    /\ configured = "text" /\ failures = 0 /\ found = [r \in Starters |-> FALSE]

MCInit ==
    \/ active = "session" /\ Init /\ FramingOver /\ StartOver
    \/ active = "framing" /\ FramingInit /\ SessionOver /\ StartOver
    \/ active = "start" /\ StartInit /\ SessionOver /\ FramingOver

MCNext ==
    /\ UNCHANGED active
    /\ \/ active = "session" /\ Next /\ UNCHANGED <<framingVars, startVars>>
       \/ active = "framing" /\ FramingNext /\ UNCHANGED <<vars, startVars>>
       \/ active = "start" /\ StartNext /\ UNCHANGED <<vars, framingVars>>

MCSpec ==
    /\ MCInit /\ [][MCNext]_<<active, vars, framingVars, startVars>>
    /\ Fairness /\ FramingFairness /\ StartFairness
===============================================================================
