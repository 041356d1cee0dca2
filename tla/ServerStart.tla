------------------------------- MODULE ServerStart -------------------------------
(***************************************************************************)
(* How runs of translate.pm come by the analyzer: a run that finds no      *)
(* server_squoia for its port among the processes starts one, and asks it  *)
(* until it answers; a run that finds one uses it at once.  Each server    *)
(* loads its models before it binds the port, which only one of them can.  *)
(* MaltParserServer is started in the same way, and answers whenever it    *)
(* listens.                                                                *)
(***************************************************************************)
EXTENDS Naturals

CONSTANTS Starters,   \* runs of the script that start at the same time
          Answering,  \* what the server may be configured for
          MaxFailures \* bound: servers that die

VARIABLES
    run,      \* each run: "check", "start", "poll", "hung", or what it got from the server:
              \* "answer" or "nothing"
    server,   \* the server that each run started: "none", "loading", "listening", "dead"
    configured, \* "ident": no ready message; "columns": no answer to a line; "text": both
    failures, \* how many servers have died
    found     \* history: whether each run has found a server that was loading

startVars == <<run, server, configured, failures, found>>

In(s) == {r \in Starters : server[r] = s}
Listening == In("listening") # {}

StartInit ==
    /\ run = [r \in Starters |-> "check"]
    /\ server = [r \in Starters |-> "none"]
    /\ configured \in Answering
    /\ failures = 0
    /\ found = [r \in Starters |-> FALSE]

\* ps ax | grep "server_squoia.*port=..."
CheckRunning(r) ==
    /\ run[r] = "check"
    /\ run' = [run EXCEPT ![r] = IF In("loading") \cup In("listening") = {} THEN "start" ELSE "use"]
    /\ found' = [found EXCEPT ![r] = In("loading") # {} /\ ~Listening]
    /\ UNCHANGED <<server, configured, failures>>

StartServer(r) ==
    /\ run[r] = "start"
    /\ server' = [server EXCEPT ![r] = "loading"]
    /\ run' = [run EXCEPT ![r] = "poll"]
    /\ UNCHANGED <<configured, failures, found>>

\* The models are loaded, and the port is bound; if it is in use, the server exits.
Bind(r) ==
    /\ server[r] = "loading"
    /\ server' = [server EXCEPT ![r] = IF Listening THEN "dead" ELSE "listening"]
    /\ UNCHANGED <<run, configured, failures, found>>

\* A bug that Poll does not have: it asks once.
PollOnce(r) ==
    /\ run[r] = "poll"
    /\ run' = [run EXCEPT ![r] = "use"]
    /\ UNCHANGED <<server, configured, failures, found>>

\* while(`echo "test" | analyzer_client ...` eq ''): without a server, or without the ready
\* message, the client prints nothing; without an answer to its line it waits for ever.
Poll(r) ==
    /\ run[r] = "poll"
    /\ Listening /\ configured # "ident"
    /\ run' = [run EXCEPT ![r] = IF configured = "columns" THEN "hung" ELSE "use"]
    /\ UNCHANGED <<server, configured, failures, found>>

\* The text is sent to the server; what comes back, if anything, goes down the pipe.
Use(r) ==
    /\ run[r] = "use"
    /\ run' = [run EXCEPT ![r] = IF ~Listening \/ configured = "ident" THEN "nothing"
                                 ELSE IF configured = "columns" THEN "hung" ELSE "answer"]
    /\ UNCHANGED <<server, configured, failures, found>>

\* A server dies, while it loads or later.
Fail(r) ==
    /\ server[r] \in {"loading", "listening"}
    /\ failures < MaxFailures
    /\ failures' = failures + 1
    /\ server' = [server EXCEPT ![r] = "dead"]
    /\ UNCHANGED <<run, configured, found>>

StartNext ==
    \E r \in Starters :
        CheckRunning(r) \/ StartServer(r) \/ Bind(r) \/ Poll(r) \/ Use(r) \/ Fail(r)

StartFairness ==
    \A r \in Starters :
        WF_startVars(CheckRunning(r) \/ StartServer(r) \/ Poll(r) \/ Use(r)) /\ WF_startVars(Bind(r))

(***************************************************************************)
(* Whatever servers the runs start beside each other, and whichever of     *)
(* them fail: if one server remains that answers, every run gets its       *)
(* answer, apart from those that had found a server that was still         *)
(* loading, or lost the one they had.                                      *)
(***************************************************************************)
RunsGetAnswers ==
    \A r \in Starters :
        <>[](Listening /\ configured = "text")
            => <>(run[r] = "answer" \/ (run[r] = "nothing" /\ (found[r] \/ failures > 0)))
===============================================================================
