------------------------------ MODULE WorkerPool ------------------------------
(***************************************************************************)
(* What the analysis servers promise their clients: a pool that serves at  *)
(* most "capacity" clients at the same time, whose capacity starts at      *)
(* MaxWorkers and never grows.  The pool does not say how slots, processes *)
(* and signals bring this about; AnalyzerServer does, and implements it.   *)
(***************************************************************************)
EXTENDS Integers, FiniteSets

CONSTANTS Clients,      \* connections that may ask for service
          MaxWorkers    \* the option --workers of the server

VARIABLES waiting,      \* clients that connected and have not been admitted
          serving,      \* clients attended by a worker
          capacity,     \* clients the pool is still able to serve at once
          open          \* FALSE once the server is gone

vars == <<waiting, serving, capacity, open>>

Init ==
    /\ waiting = {}
    /\ serving = {}
    /\ capacity = MaxWorkers
    /\ open = TRUE

Arrive(c) ==
    /\ open
    /\ c \notin waiting \cup serving
    /\ waiting' = waiting \cup {c}
    /\ UNCHANGED <<serving, capacity, open>>

\* A client is admitted only while fewer than "capacity" are being served.
Admit(c) ==
    /\ open
    /\ c \in waiting
    /\ Cardinality(serving) < capacity
    /\ waiting' = waiting \ {c}
    /\ serving' = serving \cup {c}
    /\ UNCHANGED <<capacity, open>>

\* A client is turned away, and the slot meant for it is gone with it.
Refuse(c) ==
    /\ open
    /\ c \in waiting
    /\ Cardinality(serving) < capacity
    /\ waiting' = waiting \ {c}
    /\ capacity' = capacity - 1
    /\ UNCHANGED <<serving, open>>

\* A client is done; its slot either returns to the pool or is lost.
Finish(c) ==
    /\ c \in serving
    /\ serving' = serving \ {c}
    /\ capacity' \in {capacity, capacity - 1}
    /\ UNCHANGED <<waiting, open>>

\* The server stops: the waiting clients are dropped, the workers go on.
Close ==
    /\ open
    /\ open' = FALSE
    /\ waiting' = {}
    /\ capacity' \in 0 .. capacity
    /\ UNCHANGED serving

Next ==
    \/ \E c \in Clients : Arrive(c) \/ Admit(c) \/ Refuse(c) \/ Finish(c)
    \/ Close

Spec == Init /\ [][Next]_vars
===============================================================================
