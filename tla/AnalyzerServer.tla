---------------------------- MODULE AnalyzerServer ----------------------------
(***************************************************************************)
(* The dispatcher of the FreeLing analysis server (server_squoia.cc), its  *)
(* workers and the kernel objects between them: the semaphore that counts  *)
(* worker slots, the backlog of the listening socket and the pending       *)
(* SIGCHLD.  A worker's conversation with its client is AnalyzerSession.   *)
(*                                                                         *)
(* The dispatcher is single threaded, so it takes no step while a signal   *)
(* handler runs in it; the workers are processes and run all the time.     *)
(***************************************************************************)
EXTENDS Integers, FiniteSets, Sequences

CONSTANTS Clients,      \* connections that clients may open (reused once closed)
          NoClient,     \* the dispatcher holds no accepted connection
          MaxWorkers,   \* cfg->MaxWorkers
          QueueSize,    \* cfg->QueueSize, the backlog given to listen()
          ForkMayFail   \* the system may be out of processes when fork is called

ASSUME ServerAssumption ==
    /\ IsFiniteSet(Clients)
    /\ NoClient \notin Clients
    /\ MaxWorkers \in Nat \ {0}
    /\ QueueSize \in Nat \ {0}
    /\ ForkMayFail \in BOOLEAN

VARIABLES pc,        \* where the dispatcher is
          handler,   \* where the SIGCHLD handler is, "idle" when not running
          semaf,     \* value of the semaphore
          accepted,  \* connection returned by accept() and not yet forked for
          backlog,   \* established connections waiting for accept()
          active,    \* clients that have a live worker
          zombies,   \* workers that have exited and that nobody waited for
          sigchld    \* number of SIGCHLD pending for the dispatcher: at most one

vars == <<pc, handler, semaf, accepted, backlog, active, zombies, sigchld>>

(***************************************************************************)
(* Dispatcher locations: "slot" at sem_wait, "accept" at accept(), "fork"  *)
(* after accept(), "stopped" once the process has exited.                  *)
(***************************************************************************)
PCs == {"slot", "accept", "fork", "stopped"}
HandlerPCs == {"idle", "wait", "post"}

Queued == {backlog[i] : i \in DOMAIN backlog}

TypeOK ==
    /\ pc \in PCs
    /\ handler \in HandlerPCs
    /\ semaf \in Nat
    /\ accepted \in Clients \cup {NoClient}
    /\ backlog \in Seq(Clients)
    /\ Len(backlog) <= QueueSize
    /\ active \in SUBSET Clients
    /\ zombies \in Nat
    /\ sigchld \in {0, 1}
    /\ accepted # NoClient <=> pc = "fork"

\* InitServer: the socket listens, the handlers are set, the slots are free.
Init ==
    /\ pc = "slot"
    /\ handler = "idle"
    /\ semaf = MaxWorkers
    /\ accepted = NoClient
    /\ backlog = <<>>
    /\ active = {}
    /\ zombies = 0
    /\ sigchld = 0

-------------------------------------------------------------------------------
\* A client connects.  The kernel completes the connection while the backlog
\* has room, whatever the dispatcher is doing.
Connect(c) ==
    /\ pc # "stopped"
    /\ c \notin Queued \cup active \cup {accepted}
    /\ Len(backlog) < QueueSize
    /\ backlog' = Append(backlog, c)
    /\ UNCHANGED <<pc, handler, semaf, accepted, active, zombies, sigchld>>

\* The dispatcher runs only when no signal handler runs on top of it.
DispatcherAt(l) == pc = l /\ handler = "idle"

\* WaitClient: sem_wait takes a slot, before a client is known.
TakeSlot ==
    /\ DispatcherAt("slot")
    /\ semaf > 0
    /\ semaf' = semaf - 1
    /\ pc' = "accept"
    /\ UNCHANGED <<handler, accepted, backlog, active, zombies, sigchld>>

\* wait_client: accept returns the oldest connection of the backlog.
AcceptClient ==
    /\ DispatcherAt("accept")
    /\ backlog # <<>>
    /\ accepted' = Head(backlog)
    /\ backlog' = Tail(backlog)
    /\ pc' = "fork"
    /\ UNCHANGED <<handler, semaf, active, zombies, sigchld>>

\* Mutant of ForkWorker: the dispatcher goes back to accept() and forks again
\* on the same slot.
ForkWorkerKeepsAccepting ==
    /\ DispatcherAt("fork")
    /\ active' = active \cup {accepted}
    /\ accepted' = NoClient
    /\ pc' = "accept"
    /\ UNCHANGED <<handler, semaf, backlog, zombies, sigchld>>

\* fork succeeds: the child serves the client, the parent closes its copy of
\* the connection and goes back to wait for a slot.
ForkWorker ==
    /\ DispatcherAt("fork")
    /\ active' = active \cup {accepted}
    /\ accepted' = NoClient
    /\ pc' = "slot"
    /\ UNCHANGED <<handler, semaf, backlog, zombies, sigchld>>

\* fork fails: the code reports it and continues like a parent.  The client
\* loses its connection; nobody posts the slot that was taken for it.
ForkFails ==
    /\ ForkMayFail
    /\ DispatcherAt("fork")
    /\ accepted' = NoClient
    /\ pc' = "slot"
    /\ UNCHANGED <<handler, semaf, backlog, active, zombies, sigchld>>

-------------------------------------------------------------------------------
\* A worker ends (CloseWorker, or an error in its session).  The kernel keeps
\* a zombie and raises SIGCHLD; a SIGCHLD already pending absorbs the new one.
\* Without a dispatcher, init reaps the worker and there is no signal.
WorkerExits(c) ==
    /\ c \in active
    /\ active' = active \ {c}
    /\ IF pc = "stopped"
       THEN UNCHANGED <<zombies, sigchld>>
       ELSE zombies' = zombies + 1 /\ sigchld' = 1
    /\ UNCHANGED <<pc, handler, semaf, accepted, backlog>>

\* SIGCHLD is delivered: child_ended starts, with SIGCHLD blocked meanwhile.
DeliverSigchld ==
    /\ pc # "stopped"
    /\ sigchld = 1
    /\ handler = "idle"
    /\ sigchld' = 0
    /\ handler' = "wait"
    /\ UNCHANGED <<pc, semaf, accepted, backlog, active, zombies>>

\* Mutant of ReapOne: child_ended loops over every zombie, so that the signal
\* of a worker reaped early still comes.
ReapAll ==
    /\ handler = "wait"
    /\ zombies > 0
    /\ zombies' = 0
    /\ handler' = "post"
    /\ UNCHANGED <<pc, semaf, accepted, backlog, active, sigchld>>

\* child_ended: wait() blocks until there is a zombie, and reaps one.
ReapOne ==
    /\ handler = "wait"
    /\ zombies > 0
    /\ zombies' = zombies - 1
    /\ handler' = "post"
    /\ UNCHANGED <<pc, semaf, accepted, backlog, active, sigchld>>

\* Mutant of PostSlot: a signal that is pending already counts as a dead worker.
PostSlotAndPending ==
    /\ handler = "post"
    /\ semaf' = semaf + 1 + sigchld
    /\ handler' = "idle"
    /\ UNCHANGED <<pc, accepted, backlog, active, zombies, sigchld>>

\* child_ended: sem_post gives one slot back, and the handler returns.
PostSlot ==
    /\ handler = "post"
    /\ semaf' = semaf + 1
    /\ handler' = "idle"
    /\ UNCHANGED <<pc, accepted, backlog, active, zombies, sigchld>>

-------------------------------------------------------------------------------
\* The dispatcher process is gone: its connections are closed by the kernel
\* and its children belong to init.
Exit ==
    /\ pc' = "stopped"
    /\ handler' = "idle"
    /\ accepted' = NoClient
    /\ backlog' = <<>>
    /\ zombies' = 0
    /\ sigchld' = 0
    /\ UNCHANGED <<semaf, active>>

\* SIGTERM or SIGQUIT: terminate() exits, also out of the SIGCHLD handler.
Terminate == pc # "stopped" /\ Exit

\* accept() fails: socket_CS::error() exits.
AcceptFails == DispatcherAt("accept") /\ Exit

Dispatcher == TakeSlot \/ AcceptClient \/ ForkWorker \/ ForkFails
Handler    == DeliverSigchld \/ ReapOne \/ PostSlot

Next ==
    \/ \E c \in Clients : Connect(c) \/ WorkerExits(c)
    \/ Dispatcher
    \/ Handler
    \/ AcceptFails
    \/ Terminate

Spec == Init /\ [][Next]_vars

(***************************************************************************)
(* The scheduler runs the dispatcher and delivers its signals; a worker    *)
(* ends because a client ends its session (analyzer_client.cc closes the   *)
(* connection after its last file).  Nothing is assumed of new clients, of *)
(* failing calls and of the operator that stops the server.                *)
(***************************************************************************)
Fairness ==
    /\ WF_vars(Dispatcher)
    /\ WF_vars(Handler)
    /\ \A c \in Clients : WF_vars(WorkerExits(c))

FairSpec == Spec /\ Fairness

-------------------------------------------------------------------------------
(***************************************************************************)
(* Properties.                                                             *)
(***************************************************************************)
One(b) == IF b THEN 1 ELSE 0

\* The dispatcher has taken a slot and not yet given it to a worker.
HoldsSlot == pc \in {"accept", "fork"}

\* The slots that are free, in use, or on their way back to the semaphore.
Capacity ==
    semaf + One(HoldsSlot) + Cardinality(active) + sigchld + One(handler # "idle")

\* No slot is counted twice: the free slots, the one the dispatcher holds, the
\* live workers, the zombies and the slot being posted fit in MaxWorkers.
\* (WaitClient takes a slot for every fork, child_ended posts one per wait.)
SlotsFit ==
    semaf + One(HoldsSlot) + Cardinality(active) + zombies + One(handler = "post")
        <= MaxWorkers

\* The semaphore bounds the workers: whatever the order of forks, deaths and
\* signals, no more than MaxWorkers clients are served at the same time.
BoundedWorkers == Cardinality(active) <= MaxWorkers

\* wait() in child_ended runs in the dispatcher, inside a signal handler; it
\* finds a zombie whenever it is called, so it never blocks the dispatcher.
HandlerNeverBlocks == handler = "wait" => zombies > 0

\* A slot that is lost never comes back, and none is made up: the number of
\* clients the server can ever serve at once only shrinks.
CapacityNeverGrows == [][Capacity' <= Capacity]_vars

\* A client in the backlog is accepted, unless the server is stopped or has
\* lost all of its slots (waiting workers end, see Fairness).
ClientsAccepted ==
    \A c \in Clients : c \in Queued ~> (c \notin Queued \/ Capacity = 0)

\* The server is a worker pool whose capacity shrinks: what a client sees of
\* semaphore, fork and signals is only whether it is admitted.
Waiting == (Queued \cup {accepted}) \ {NoClient}

Pool == INSTANCE WorkerPool
            WITH waiting  <- Waiting,
                 serving  <- active,
                 capacity <- Capacity,
                 open     <- pc # "stopped"

ImplementsPool == Pool!Spec

\* server_squoia.cc:103 "Be signaled when children finish, to keep count of
\* active workers": between two clients, with no signal left to handle, the
\* slots that are not free are those of the active workers.
SlotsCountActiveWorkers ==
    pc = "slot" /\ handler = "idle" /\ sigchld = 0
        => semaf + Cardinality(active) = MaxWorkers
===============================================================================
