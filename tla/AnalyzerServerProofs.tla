------------------------ MODULE AnalyzerServerProofs ------------------------
(*****************************************************************************)
(* Proofs about the analyzer server before and between its sessions.         *)
(*                                                                           *)
(* AnalyzerServer, for every set of clients, every number of workers and     *)
(* every backlog.  The counting argument needs three facts beyond the type   *)
(* invariant: the slots fit (SlotsFit), every signal has its zombie          *)
(* (SignalsHaveZombies) and no client is in two places at once (OnePlace),   *)
(* without which the number of active workers would not grow by one with     *)
(* each fork.                                                                *)
(*                                                                           *)
(* ServerConfig, for every command line and every file of configuration:     *)
(* no file that a user gives and that the requested analysis needs is        *)
(* lost.  What has to be carried along is where the names of the files       *)
(* come from until load_config, and that the options it looks at have        *)
(* values by then.                                                           *)
(*****************************************************************************)
EXTENDS AnalyzerServer, ServerConfig, FiniteSetTheorems, SequenceTheorems, TLAPS

\* A client is in the backlog at most once, or just accepted, or being served.
OnePlace ==
    /\ \A i, j \in DOMAIN backlog : backlog[i] = backlog[j] => i = j
    /\ \A i \in DOMAIN backlog : backlog[i] \notin active \cup {accepted}
    /\ accepted \notin active

\* Every SIGCHLD that is pending or being handled has a zombie of its own.
SignalsHaveZombies == zombies >= sigchld + One(handler = "wait")

IInv == TypeOK /\ OnePlace /\ SlotsFit /\ SignalsHaveZombies

-------------------------------------------------------------------------------
\* What the proofs use of sets of clients: their size is a natural number, and
\* one more or one fewer member changes it by one.
LEMMA SizeOfActive ==
    ASSUME NEW S \in SUBSET Clients
    PROVE  /\ Cardinality(S) \in Nat
           /\ \A c \in Clients \ S : Cardinality(S \cup {c}) = Cardinality(S) + 1
           /\ \A c \in S : Cardinality(S \ {c}) = Cardinality(S) - 1
<1>1. IsFiniteSet(S)
  BY ServerAssumption, FS_Subset DEF ServerAssumption
<1>2. Cardinality(S) \in Nat
  BY <1>1, FS_CardinalityType
<1>3. ASSUME NEW c \in Clients \ S
      PROVE  Cardinality(S \cup {c}) = Cardinality(S) + 1
  BY <1>1, <1>3, FS_AddElement
<1>4. ASSUME NEW c \in S
      PROVE  Cardinality(S \ {c}) = Cardinality(S) - 1
  BY <1>1, <1>4, FS_RemoveElement
<1>5. QED
  BY <1>2, <1>3, <1>4

LEMMA InitEstablishesIInv == Init => IInv
<1> SUFFICES ASSUME Init PROVE IInv
  OBVIOUS
<1>2. Cardinality({}) = 0
  BY FS_EmptySet
<1>3. TypeOK
  BY ServerAssumption DEF ServerAssumption, Init, TypeOK, PCs, HandlerPCs
<1>4. OnePlace
  BY ServerAssumption DEF ServerAssumption, Init, OnePlace
<1>5. SlotsFit
  BY <1>2, ServerAssumption DEF ServerAssumption, Init, SlotsFit, HoldsSlot, One
<1>6. SignalsHaveZombies
  BY DEF Init, SignalsHaveZombies, One
<1>7. QED
  BY <1>3, <1>4, <1>5, <1>6 DEF IInv

-------------------------------------------------------------------------------
\* Every step preserves the types.
LEMMA TypeStep == TypeOK /\ [Next]_vars => TypeOK'
<1> SUFFICES ASSUME TypeOK, [Next]_vars PROVE TypeOK'
  OBVIOUS
<1> USE ServerAssumption DEF ServerAssumption, TypeOK, PCs, HandlerPCs
<1>1. ASSUME NEW c \in Clients, Connect(c) PROVE TypeOK'
  BY <1>1 DEF Connect
<1>2. ASSUME NEW c \in Clients, WorkerExits(c) PROVE TypeOK'
  BY <1>2 DEF WorkerExits
<1>3. CASE TakeSlot
  BY <1>3 DEF TakeSlot, DispatcherAt
<1>4. CASE AcceptClient
  <2>1. Head(backlog) \in Clients /\ Tail(backlog) \in Seq(Clients)
    BY <1>4 DEF AcceptClient
  <2>2. Len(Tail(backlog)) <= QueueSize
    BY <1>4 DEF AcceptClient
  <2>3. QED
    BY <1>4, <2>1, <2>2 DEF AcceptClient, DispatcherAt
<1>5. CASE ForkWorker
  BY <1>5 DEF ForkWorker, DispatcherAt
<1>6. CASE ForkFails
  BY <1>6 DEF ForkFails, DispatcherAt
<1>7. CASE DeliverSigchld
  BY <1>7 DEF DeliverSigchld
<1>8. CASE ReapOne
  BY <1>8 DEF ReapOne
<1>9. CASE PostSlot
  BY <1>9 DEF PostSlot
<1>10. CASE AcceptFails \/ Terminate
  <2>1. Exit
    BY <1>10 DEF AcceptFails, Terminate
  <2>2. backlog' \in Seq(Clients) /\ Len(backlog') = 0
    BY <2>1 DEF Exit
  <2>3. QED
    BY <2>1, <2>2 DEF Exit
<1>11. CASE UNCHANGED vars
  BY <1>11 DEF vars
<1>12. QED
  BY <1>1, <1>2, <1>3, <1>4, <1>5, <1>6, <1>7, <1>8, <1>9, <1>10, <1>11
     DEF Next, Dispatcher, Handler

\* Every step keeps each client in one place.
LEMMA OnePlaceStep == TypeOK /\ OnePlace /\ [Next]_vars => OnePlace'
<1> SUFFICES ASSUME TypeOK, OnePlace, [Next]_vars PROVE OnePlace'
  OBVIOUS
<1> USE ServerAssumption DEF ServerAssumption
<1>1. ASSUME NEW c \in Clients, Connect(c) PROVE OnePlace'
  <2>1. /\ DOMAIN backlog = 1 .. Len(backlog)
        /\ DOMAIN backlog' = 1 .. Len(backlog) + 1
        /\ \A i \in 1 .. Len(backlog) : backlog'[i] = backlog[i]
        /\ backlog'[Len(backlog) + 1] = c
    BY <1>1 DEF Connect, TypeOK
  <2>2. /\ \A i \in DOMAIN backlog : backlog[i] # c
        /\ c \notin active \cup {accepted}
    BY <1>1 DEF Connect, Queued
  <2>3. /\ active' = active
        /\ accepted' = accepted
        /\ Len(backlog) \in Nat
    BY <1>1 DEF Connect, TypeOK
  <2>4. QED
    BY <2>1, <2>2, <2>3 DEF OnePlace
<1>2. ASSUME NEW c \in Clients, WorkerExits(c) PROVE OnePlace'
  BY <1>2 DEF WorkerExits, OnePlace
<1>3. CASE AcceptClient
  <2>1. /\ backlog \in Seq(Clients)
        /\ backlog # <<>>
        /\ backlog' = Tail(backlog)
        /\ accepted' = Head(backlog)
    BY <1>3 DEF AcceptClient, TypeOK
  <2>3. /\ DOMAIN backlog = 1 .. Len(backlog)
        /\ Len(backlog) \in Nat \ {0}
    BY <2>1
  <2>4. /\ DOMAIN backlog' = 1 .. Len(backlog) - 1
        /\ \A i \in 1 .. Len(backlog) - 1 : backlog'[i] = backlog[i + 1]
        /\ accepted' = backlog[1]
    BY <2>1, <2>3
  <2>2. active' = active
    BY <1>3 DEF AcceptClient
  <2>5. \A i \in DOMAIN backlog' :
            /\ i \in Nat /\ i + 1 \in DOMAIN backlog
            /\ backlog'[i] = backlog[i + 1]
    BY <2>3, <2>4
  <2>6. \A i, j \in DOMAIN backlog' : backlog'[i] = backlog'[j] => i = j
    BY <2>5 DEF OnePlace
  <2>7. \A i \in DOMAIN backlog' : backlog'[i] \notin active \cup {backlog[1]}
    BY <2>3, <2>4, <2>5 DEF OnePlace
  <2>8. backlog[1] \notin active
    BY <2>3 DEF OnePlace
  <2>9. QED
    BY <2>2, <2>4, <2>6, <2>7, <2>8 DEF OnePlace
<1>4. CASE ForkWorker
  BY <1>4 DEF ForkWorker, DispatcherAt, OnePlace, TypeOK
<1>5. CASE ForkFails
  BY <1>5 DEF ForkFails, OnePlace, TypeOK
<1>6. CASE TakeSlot \/ Handler
  BY <1>6 DEF TakeSlot, Handler, DeliverSigchld, ReapOne, PostSlot, OnePlace
<1>7. CASE AcceptFails \/ Terminate
  <2>1. Exit
    BY <1>7 DEF AcceptFails, Terminate
  <2>2. DOMAIN backlog' = {} /\ accepted' = NoClient /\ active' = active
    BY <2>1 DEF Exit
  <2>3. QED
    BY <2>2 DEF OnePlace, TypeOK
<1>8. CASE UNCHANGED vars
  BY <1>8 DEF vars, OnePlace
<1>9. QED
  BY <1>1, <1>2, <1>3, <1>4, <1>5, <1>6, <1>7, <1>8 DEF Next, Dispatcher

\* Every step keeps the slots within MaxWorkers.
LEMMA SlotsStep == TypeOK /\ OnePlace /\ SlotsFit /\ [Next]_vars => SlotsFit'
<1> SUFFICES ASSUME TypeOK, OnePlace, SlotsFit, [Next]_vars PROVE SlotsFit'
  OBVIOUS
<1> USE ServerAssumption DEF ServerAssumption
<1>1. /\ Cardinality(active) \in Nat
      /\ active \in SUBSET Clients
      /\ semaf \in Nat /\ zombies \in Nat
  BY SizeOfActive DEF TypeOK
<1>2. ASSUME NEW c \in Clients, Connect(c) PROVE SlotsFit'
  BY <1>2 DEF Connect, SlotsFit, HoldsSlot, One
<1>3. ASSUME NEW c \in Clients, WorkerExits(c) PROVE SlotsFit'
  <2>1. Cardinality(active') = Cardinality(active) - 1
    BY <1>1, <1>3, SizeOfActive DEF WorkerExits
  <2>2. zombies' \in {zombies, zombies + 1}
    BY <1>3 DEF WorkerExits
  <2>3. UNCHANGED <<pc, handler, semaf>>
    BY <1>3 DEF WorkerExits
  <2>4. QED
    BY <1>1, <2>1, <2>2, <2>3 DEF SlotsFit, HoldsSlot, One
<1>4. CASE TakeSlot
  BY <1>1, <1>4 DEF TakeSlot, DispatcherAt, SlotsFit, HoldsSlot, One
<1>5. CASE AcceptClient
  BY <1>1, <1>5 DEF AcceptClient, DispatcherAt, SlotsFit, HoldsSlot, One
<1>6. CASE ForkWorker
  <2>1. accepted \in Clients \ active
    BY <1>6 DEF ForkWorker, DispatcherAt, TypeOK, OnePlace
  <2>2. Cardinality(active') = Cardinality(active) + 1
    BY <1>1, <1>6, <2>1, SizeOfActive DEF ForkWorker
  <2>3. QED
    BY <1>1, <1>6, <2>2 DEF ForkWorker, DispatcherAt, SlotsFit, HoldsSlot, One
<1>7. CASE ForkFails
  BY <1>1, <1>7 DEF ForkFails, DispatcherAt, SlotsFit, HoldsSlot, One
<1>8. CASE DeliverSigchld
  BY <1>1, <1>8 DEF DeliverSigchld, SlotsFit, HoldsSlot, One
<1>9. CASE ReapOne
  BY <1>1, <1>9 DEF ReapOne, SlotsFit, HoldsSlot, One
<1>10. CASE PostSlot
  BY <1>1, <1>10 DEF PostSlot, SlotsFit, HoldsSlot, One
<1>11. CASE AcceptFails \/ Terminate
  BY <1>1, <1>11 DEF AcceptFails, Terminate, Exit, SlotsFit, HoldsSlot, One
<1>12. CASE UNCHANGED vars
  BY <1>12 DEF vars, SlotsFit, HoldsSlot, One
<1>13. QED
  BY <1>2, <1>3, <1>4, <1>5, <1>6, <1>7, <1>8, <1>9, <1>10, <1>11, <1>12
     DEF Next, Dispatcher, Handler

\* Every step leaves a zombie for each signal: a death makes both, a delivery
\* turns the pending signal into a running handler, the handler reaps one.
LEMMA SignalsStep == TypeOK /\ SignalsHaveZombies /\ [Next]_vars => SignalsHaveZombies'
<1> SUFFICES ASSUME TypeOK, SignalsHaveZombies, [Next]_vars PROVE SignalsHaveZombies'
  OBVIOUS
<1>1. zombies \in Nat /\ sigchld \in {0, 1}
  BY DEF TypeOK
<1> USE DEF SignalsHaveZombies, One
<1>2. ASSUME NEW c \in Clients, WorkerExits(c) PROVE SignalsHaveZombies'
  BY <1>1, <1>2 DEF WorkerExits
<1>3. CASE DeliverSigchld
  BY <1>1, <1>3 DEF DeliverSigchld
<1>4. CASE ReapOne
  BY <1>1, <1>4 DEF ReapOne
<1>5. CASE PostSlot
  BY <1>1, <1>5 DEF PostSlot
<1>6. CASE Dispatcher
  BY <1>6 DEF Dispatcher, TakeSlot, AcceptClient, ForkWorker, ForkFails
<1>7. ASSUME NEW c \in Clients, Connect(c) PROVE SignalsHaveZombies'
  BY <1>7 DEF Connect
<1>8. CASE AcceptFails \/ Terminate
  BY <1>8 DEF AcceptFails, Terminate, Exit
<1>9. CASE UNCHANGED vars
  BY <1>9 DEF vars
<1>10. QED
  BY <1>2, <1>3, <1>4, <1>5, <1>6, <1>7, <1>8, <1>9 DEF Next, Handler

LEMMA IInvStep == IInv /\ [Next]_vars => IInv'
BY TypeStep, OnePlaceStep, SlotsStep, SignalsStep DEF IInv

\* The types hold in every state of the server.
THEOREM TypeCorrect == Spec => []TypeOK
<1>1. Init => TypeOK
  BY InitEstablishesIInv DEF IInv
<1>2. QED
  BY <1>1, TypeStep, PTL DEF Spec

\* The inductive invariant holds in every state of the server.
THEOREM Inductive == Spec => []IInv
BY InitEstablishesIInv, IInvStep, PTL DEF Spec

\* The slots always fit in MaxWorkers: no slot is counted twice.
THEOREM SlotsAlwaysFit == Spec => []SlotsFit
<1>1. IInv => SlotsFit
  BY DEF IInv
<1>2. QED
  BY <1>1, Inductive, PTL

\* No more than MaxWorkers clients are served at the same time.
THEOREM WorkersBounded == Spec => []BoundedWorkers
<1>1. IInv => BoundedWorkers
  <2> SUFFICES ASSUME IInv PROVE BoundedWorkers
    OBVIOUS
  <2>1. Cardinality(active) \in Nat /\ semaf \in Nat /\ zombies \in Nat
    BY SizeOfActive DEF IInv, TypeOK
  <2>2. QED
    BY <2>1, ServerAssumption
       DEF IInv, SlotsFit, BoundedWorkers, HoldsSlot, One, ServerAssumption
<1>2. QED
  BY <1>1, Inductive, PTL

\* child_ended never blocks in wait(): it always finds a zombie.
THEOREM HandlerReturns == Spec => []HandlerNeverBlocks
<1>1. IInv => HandlerNeverBlocks
  BY DEF IInv, TypeOK, SignalsHaveZombies, HandlerNeverBlocks, One
<1>2. QED
  BY <1>1, Inductive, PTL

-------------------------------------------------------------------------------
\* What a step does to the capacity of the server.
LEMMA CapacityStep ==
    ASSUME IInv, [Next]_vars
    PROVE  /\ Capacity \in Nat
           /\ Capacity' \in Nat
           /\ Capacity' <= Capacity
<1> USE ServerAssumption DEF ServerAssumption, Capacity, HoldsSlot, One
<1>1. /\ Cardinality(active) \in Nat
      /\ active \in SUBSET Clients
      /\ semaf \in Nat /\ sigchld \in {0, 1}
  BY SizeOfActive DEF IInv, TypeOK
<1>2. /\ Cardinality(active') \in Nat
      /\ semaf' \in Nat /\ sigchld' \in {0, 1}
  BY IInvStep, SizeOfActive DEF IInv, TypeOK
<1>3. Capacity \in Nat /\ Capacity' \in Nat
  BY <1>1, <1>2
<1>4. ASSUME NEW c \in Clients, Connect(c) PROVE Capacity' <= Capacity
  BY <1>1, <1>4 DEF Connect
<1>5. ASSUME NEW c \in Clients, WorkerExits(c) PROVE Capacity' <= Capacity
  <2>1. Cardinality(active') = Cardinality(active) - 1
    BY <1>1, <1>5, SizeOfActive DEF WorkerExits
  <2>2. UNCHANGED <<pc, handler, semaf>>
    BY <1>5 DEF WorkerExits
  <2>3. QED
    BY <1>1, <1>2, <2>1, <2>2
<1>6. CASE TakeSlot
  BY <1>1, <1>6 DEF TakeSlot, DispatcherAt
<1>7. CASE AcceptClient
  BY <1>1, <1>7 DEF AcceptClient, DispatcherAt
<1>8. CASE ForkWorker
  <2>1. accepted \in Clients \ active
    BY <1>8 DEF ForkWorker, DispatcherAt, IInv, TypeOK, OnePlace
  <2>2. Cardinality(active') = Cardinality(active) + 1
    BY <1>1, <1>8, <2>1, SizeOfActive DEF ForkWorker
  <2>3. QED
    BY <1>1, <1>8, <2>2 DEF ForkWorker, DispatcherAt
<1>9. CASE ForkFails
  BY <1>1, <1>9 DEF ForkFails, DispatcherAt
<1>10. CASE DeliverSigchld
  BY <1>1, <1>10 DEF DeliverSigchld
<1>11. CASE ReapOne
  BY <1>1, <1>11 DEF ReapOne
<1>12. CASE PostSlot
  BY <1>1, <1>12 DEF PostSlot
<1>13. CASE AcceptFails \/ Terminate
  BY <1>1, <1>13 DEF AcceptFails, Terminate, Exit
<1>14. CASE UNCHANGED vars
  BY <1>1, <1>14 DEF vars
<1>15. QED
  BY <1>3, <1>4, <1>5, <1>6, <1>7, <1>8, <1>9, <1>10, <1>11, <1>12, <1>13, <1>14
     DEF Next, Dispatcher, Handler

\* A lost slot never comes back.
THEOREM CapacityShrinks == Spec => CapacityNeverGrows
<1>1. IInv /\ [Next]_vars => [Capacity' <= Capacity]_vars
  BY CapacityStep
<1>2. QED
  BY <1>1, Inductive, PTL DEF Spec, CapacityNeverGrows

-------------------------------------------------------------------------------
(***************************************************************************)
(* The server implements the pool.  Only Connect, ForkWorker, ForkFails,   *)
(* WorkerExits and the exits change what the pool sees; the other steps    *)
(* leave the waiting and the served clients and the capacity alone.        *)
(***************************************************************************)

\* The backlog only gives up its head, and only to the dispatcher.
LEMMA QueuedAfterAccept ==
    ASSUME IInv, AcceptClient
    PROVE  Waiting' = Waiting
<1> USE ServerAssumption DEF ServerAssumption
<1>1. /\ backlog \in Seq(Clients) /\ backlog # <<>>
      /\ backlog' = Tail(backlog) /\ accepted' = Head(backlog)
      /\ accepted = NoClient
  BY DEF AcceptClient, DispatcherAt, IInv, TypeOK
<1>2. /\ DOMAIN backlog = 1 .. Len(backlog)
      /\ Len(backlog) \in Nat \ {0}
  BY <1>1
<1>3. /\ DOMAIN Tail(backlog) = 1 .. Len(backlog) - 1
      /\ \A i \in 1 .. Len(backlog) - 1 : Tail(backlog)[i] = backlog[i + 1]
  <2>1. /\ Tail(backlog) \in Seq(Clients)
        /\ Len(Tail(backlog)) = Len(backlog) - 1
        /\ \A i \in 1 .. Len(Tail(backlog)) : Tail(backlog)[i] = backlog[i + 1]
    BY <1>1, HeadTailProperties
  <2>2. QED
    BY <2>1
<1>4. Head(backlog) = backlog[1]
  BY <1>1
<1>5. Queued' = {Tail(backlog)[i] : i \in 1 .. Len(backlog) - 1}
  BY <1>1, <1>3 DEF Queued
<1>6. Queued = Queued' \cup {backlog[1]}
  <2>1. ASSUME NEW x \in Queued PROVE x \in Queued' \cup {backlog[1]}
    <3>1. PICK i \in 1 .. Len(backlog) : x = backlog[i]
      BY <1>2 DEF Queued
    <3>2. CASE i = 1
      BY <3>1, <3>2
    <3>3. CASE i # 1
      <4>1. i - 1 \in 1 .. Len(backlog) - 1 /\ (i - 1) + 1 = i
        BY <1>2, <3>3
      <4>2. x = Tail(backlog)[i - 1]
        BY <1>3, <3>1, <4>1
      <4>3. QED
        BY <1>5, <4>1, <4>2
    <3>4. QED
      BY <3>2, <3>3
  <2>2. ASSUME NEW x \in Queued' PROVE x \in Queued
    <3>1. PICK i \in 1 .. Len(backlog) - 1 : x = Tail(backlog)[i]
      BY <1>5
    <3>2. i + 1 \in 1 .. Len(backlog) /\ x = backlog[i + 1]
      BY <1>2, <1>3, <3>1
    <3>3. QED
      BY <1>2, <3>2 DEF Queued
  <2>3. backlog[1] \in Queued
    BY <1>2 DEF Queued
  <2>4. QED
    BY <2>1, <2>2, <2>3
<1>7. QED
  BY <1>1, <1>4, <1>6 DEF Waiting

\* A connection joins the waiting clients.
LEMMA QueuedAfterConnect ==
    ASSUME IInv, NEW c \in Clients, Connect(c)
    PROVE  Waiting' = Waiting \cup {c}
<1> USE ServerAssumption DEF ServerAssumption
<1>1. /\ backlog \in Seq(Clients) /\ Len(backlog) \in Nat
      /\ backlog' = Append(backlog, c) /\ accepted' = accepted
  BY DEF Connect, IInv, TypeOK
<1>2. /\ DOMAIN backlog = 1 .. Len(backlog)
      /\ DOMAIN backlog' = 1 .. Len(backlog) + 1
      /\ \A i \in 1 .. Len(backlog) : backlog'[i] = backlog[i]
      /\ backlog'[Len(backlog) + 1] = c
  BY <1>1
<1>3. Queued' = Queued \cup {c}
  <2>1. ASSUME NEW x \in Queued' PROVE x \in Queued \cup {c}
    <3>1. PICK i \in 1 .. Len(backlog) + 1 : x = backlog'[i]
      BY <1>2 DEF Queued
    <3>2. CASE i \in 1 .. Len(backlog)
      BY <1>2, <3>1, <3>2 DEF Queued
    <3>3. CASE i = Len(backlog) + 1
      BY <1>2, <3>1, <3>3
    <3>4. QED
      BY <1>1, <3>1, <3>2, <3>3
  <2>2. ASSUME NEW x \in Queued PROVE x \in Queued'
    <3>1. PICK i \in 1 .. Len(backlog) : x = backlog[i]
      BY <1>2 DEF Queued
    <3>2. QED
      BY <1>1, <1>2, <3>1 DEF Queued
  <2>3. c \in Queued'
    BY <1>1, <1>2 DEF Queued
  <2>4. QED
    BY <2>1, <2>2, <2>3
<1>4. QED
  BY <1>1, <1>3 DEF Waiting

\* The dispatcher holds no connection but the accepted one, which is not queued.
LEMMA AcceptedIsNotQueued ==
    ASSUME IInv, pc = "fork", accepted' = NoClient, backlog' = backlog
    PROVE  /\ accepted \in Clients \ active
           /\ accepted \in Waiting
           /\ Waiting' = Waiting \ {accepted}
<1> USE ServerAssumption DEF ServerAssumption
<1>1. accepted \in Clients \ active
  BY DEF IInv, TypeOK, OnePlace
<1>2. accepted \notin Queued
  BY DEF IInv, OnePlace, Queued
<1>3. Queued' = Queued
  BY DEF Queued
<1>4. QED
  BY <1>1, <1>2, <1>3 DEF Waiting

LEMMA PoolInit == Init => Pool!Init
<1> SUFFICES ASSUME Init PROVE Pool!Init
  OBVIOUS
<1>1. Cardinality({}) = 0
  BY FS_EmptySet
<1>2. Waiting = {}
  BY DEF Init, Waiting, Queued
<1>3. Capacity = MaxWorkers
  BY <1>1, ServerAssumption DEF Init, Capacity, HoldsSlot, One, ServerAssumption
<1>4. QED
  BY <1>2, <1>3 DEF Init, Pool!Init

LEMMA PoolStep == IInv /\ [Next]_vars => [Pool!Next]_(Pool!vars)
<1> SUFFICES ASSUME IInv, [Next]_vars PROVE [Pool!Next]_(Pool!vars)
  OBVIOUS
<1> USE ServerAssumption DEF ServerAssumption
<1>1. /\ Cardinality(active) \in Nat
      /\ active \in SUBSET Clients
      /\ semaf \in Nat /\ sigchld \in {0, 1}
  BY SizeOfActive DEF IInv, TypeOK
<1>2. Capacity \in Nat /\ Capacity' \in Nat /\ Capacity' <= Capacity
  BY CapacityStep
<1>3. ASSUME NEW c \in Clients, Connect(c) PROVE Pool!Next
  <2>1. Waiting' = Waiting \cup {c}
    BY <1>3, QueuedAfterConnect
  <2>2. c \notin Waiting \cup active
    BY <1>3 DEF Connect, Waiting
  <2>3. pc # "stopped" /\ pc' # "stopped" /\ active' = active /\ Capacity' = Capacity
    BY <1>3 DEF Connect, Capacity, HoldsSlot
  <2>4. Pool!Arrive(c)
    BY <2>1, <2>2, <2>3 DEF Pool!Arrive
  <2>5. QED
    BY <2>4 DEF Pool!Next
<1>4. ASSUME NEW c \in Clients, WorkerExits(c) PROVE Pool!Next
  <2>1. Cardinality(active') = Cardinality(active) - 1
    BY <1>1, <1>4, SizeOfActive DEF WorkerExits
  <2>2. /\ UNCHANGED <<pc, handler, semaf, accepted, backlog>>
        /\ c \in active /\ active' = active \ {c}
        /\ sigchld' \in {sigchld, 1}
    BY <1>4 DEF WorkerExits
  <2>3. Capacity' \in {Capacity, Capacity - 1}
    BY <1>1, <2>1, <2>2 DEF Capacity, HoldsSlot, One
  <2>4. Waiting' = Waiting
    BY <2>2 DEF Waiting, Queued
  <2>5. Pool!Finish(c)
    BY <2>2, <2>3, <2>4 DEF Pool!Finish
  <2>6. QED
    BY <2>5 DEF Pool!Next
<1>5. CASE ForkWorker
  <2>1. /\ pc = "fork" /\ pc' = "slot" /\ backlog' = backlog
        /\ accepted' = NoClient /\ active' = active \cup {accepted}
        /\ UNCHANGED <<handler, semaf, sigchld>>
    BY <1>5 DEF ForkWorker, DispatcherAt
  <2>2. /\ accepted \in Clients \ active
        /\ accepted \in Waiting
        /\ Waiting' = Waiting \ {accepted}
    BY <2>1, AcceptedIsNotQueued
  <2>3. Cardinality(active') = Cardinality(active) + 1
    BY <1>1, <2>1, <2>2, SizeOfActive
  <2>4. Capacity' = Capacity /\ Cardinality(active) < Capacity
    BY <1>1, <2>1, <2>3 DEF Capacity, HoldsSlot, One
  <2>5. PICK c \in Clients : c = accepted
    BY <2>2
  <2>6. Pool!Admit(c)
    BY <2>1, <2>2, <2>4, <2>5 DEF Pool!Admit, Pool!Cardinality, Cardinality
  <2>7. QED
    BY <2>6 DEF Pool!Next
<1>6. CASE ForkFails
  <2>1. /\ pc = "fork" /\ pc' = "slot" /\ backlog' = backlog
        /\ accepted' = NoClient /\ active' = active
        /\ UNCHANGED <<handler, semaf, sigchld>>
    BY <1>6 DEF ForkFails, DispatcherAt
  <2>2. /\ accepted \in Clients
        /\ accepted \in Waiting
        /\ Waiting' = Waiting \ {accepted}
    BY <2>1, AcceptedIsNotQueued
  <2>3. Capacity' = Capacity - 1 /\ Cardinality(active) < Capacity
    BY <1>1, <2>1 DEF Capacity, HoldsSlot, One
  <2>4. PICK c \in Clients : c = accepted
    BY <2>2
  <2>5. Pool!Refuse(c)
    BY <2>1, <2>2, <2>3, <2>4 DEF Pool!Refuse, Pool!Cardinality, Cardinality
  <2>6. QED
    BY <2>5 DEF Pool!Next
<1>7. CASE AcceptFails \/ Terminate
  <2>1. Exit /\ pc # "stopped"
    BY <1>7 DEF AcceptFails, Terminate, DispatcherAt
  <2>2. Waiting' = {}
    BY <2>1 DEF Exit, Waiting, Queued
  <2>3. Pool!Close
    BY <1>2, <2>1, <2>2 DEF Exit, Pool!Close
  <2>4. QED
    BY <2>3 DEF Pool!Next
<1>8. CASE TakeSlot
  BY <1>1, <1>8 DEF TakeSlot, DispatcherAt, Waiting, Queued, Capacity, HoldsSlot, One, Pool!vars
<1>9. CASE AcceptClient
  <2>1. Waiting' = Waiting
    BY <1>9, QueuedAfterAccept
  <2>2. QED
    BY <1>9, <2>1 DEF AcceptClient, DispatcherAt, Capacity, HoldsSlot, Pool!vars
<1>10. CASE Handler
  <2>1. UNCHANGED <<accepted, backlog, active, pc>>
    BY <1>10 DEF Handler, DeliverSigchld, ReapOne, PostSlot
  <2>2. semaf' + sigchld' + One(handler' # "idle") = semaf + sigchld + One(handler # "idle")
    BY <1>1, <1>10 DEF Handler, DeliverSigchld, ReapOne, PostSlot, One
  <2>3. /\ One(HoldsSlot) \in Nat /\ One(HoldsSlot)' = One(HoldsSlot)
        /\ One(handler # "idle") \in Nat /\ One(handler # "idle")' \in Nat
        /\ Cardinality(active') = Cardinality(active)
    BY <2>1 DEF One, HoldsSlot
  <2>4. semaf' \in Nat /\ sigchld' \in {0, 1}
    BY IInvStep DEF IInv, TypeOK
  <2>5. Capacity' = Capacity
    BY <1>1, <2>2, <2>3, <2>4 DEF Capacity
  <2>6. Waiting' = Waiting
    BY <2>1 DEF Waiting, Queued
  <2>7. QED
    BY <2>1, <2>5, <2>6 DEF Pool!vars
<1>11. CASE UNCHANGED vars
  BY <1>11 DEF vars, Pool!vars, Waiting, Queued, Capacity, HoldsSlot
<1>12. QED
  BY <1>3, <1>4, <1>5, <1>6, <1>7, <1>8, <1>9, <1>10, <1>11 DEF Next, Dispatcher

\* The server implements the pool: for any number of workers and clients, what
\* the clients see is a pool whose capacity only shrinks.
THEOREM Refinement == Spec => ImplementsPool
BY PoolInit, PoolStep, Inductive, PTL DEF Spec, ImplementsPool, Pool!Spec

-------------------------------------------------------------------------------
(*****************************************************************************)
(* What the server is configured with.                                       *)
(*****************************************************************************)
\* The options that load_config changes or looks at.
Chosen == {"InputLevel", "OutputLevel", "Tagger", "DependencyParser", "SenseAnnotation", "NEClassification"}
Options == FileOptions \cup Chosen \cup {"InputFormat", "InputMode", "OutputFormat", "ServerMode", "ServerPort"}

FilesTraced ==
    /\ stage = "line" => cfg = Unset
    /\ stage = "file" => /\ FileOptions \cup {"ServerPort"} \subseteq DOMAIN cfg
                         /\ \A f \in FileOptions : f \notin DOMAIN line => cfg[f] = ""
    /\ stage \in {"strings", "load"} => /\ Options \subseteq DOMAIN cfg
                                        /\ \A f \in FileOptions : cfg[f] = Given[f]
    /\ stage = "load" => cfg.InputLevel \in InputLevels /\ cfg.OutputLevel \in OutputLevels
    /\ stage \in {"handlers", "running"} =>
          \A f \in Needed(cfg) : Given[f] = "given" => cfg[f] = "given"

-------------------------------------------------------------------------------
\* The levels are numbered in the order of the enumeration.
LEMMA Ranks ==
    /\ Rank("text") = 1 /\ Rank("ident") = 2 /\ Rank("token") = 3 /\ Rank("splitted") = 4 /\ Rank("morfo") = 5
    /\ Rank("crf") = 6 /\ Rank("tagged") = 7 /\ Rank("sense") = 8 /\ Rank("shallow") = 9 /\ Rank("parsed") = 10
    /\ Rank("dep") = 11 /\ Rank("coref") = 12 /\ Rank("semgraph") = 13
<1>1. DOMAIN Levels = 1 .. 13
  BY DEF Levels
<1>2. /\ Levels[1] = "text" /\ Levels[2] = "ident" /\ Levels[3] = "token" /\ Levels[4] = "splitted"
      /\ Levels[5] = "morfo" /\ Levels[6] = "crf" /\ Levels[7] = "tagged" /\ Levels[8] = "sense"
      /\ Levels[9] = "shallow" /\ Levels[10] = "parsed" /\ Levels[11] = "dep" /\ Levels[12] = "coref"
      /\ Levels[13] = "semgraph"
  BY DEF Levels
<1>3. \A i, j \in 1 .. 13 : Levels[i] = Levels[j] => i = j
  BY <1>2
<1>4. ASSUME NEW i \in 1 .. 13 PROVE Rank(Levels[i]) = i
  <2>1. \A j \in DOMAIN Levels : Levels[j] = Levels[i] <=> j = i
    BY <1>1, <1>3
  <2>2. i \in DOMAIN Levels
    BY <1>1
  <2>3. QED
    BY <2>1, <2>2 DEF Rank
<1>5. QED
  BY <1>2, <1>4

LEMMA LevelsHaveRanks ==
    \A level \in InputLevels \cup OutputLevels : Rank(level) \in 1 .. 13
BY Ranks DEF InputLevels, OutputLevels

LEMMA NamesDiffer ==
    /\ FileOptions \cap (Chosen \cup {"InputFormat", "InputMode", "OutputFormat", "ServerMode", "ServerPort"}) = {}
    /\ FileOptions \cap (BooleanOptions \cup DOMAIN LineDefaults \cup DOMAIN FileDefaults) = {}
    /\ Chosen \cup {"InputFormat", "InputMode", "OutputFormat", "ServerMode"} \subseteq DOMAIN FileDefaults
BY DEF FileOptions, Chosen, BooleanOptions, LineDefaults, FileDefaults

-------------------------------------------------------------------------------
\* load_config switches modules on before it drops their files.
LEMMA ActivatedFields ==
    ASSUME NEW c, Options \subseteq DOMAIN c
    PROVE  /\ DOMAIN Activated(c) = DOMAIN c
           /\ \A x \in DOMAIN c \ {"ServerPort", "NEClassification", "SenseAnnotation"} : Activated(c)[x] = c[x]
           /\ ~Below(c, "coref") => Activated(c).SenseAnnotation = "ukb"
           /\ ~Below(c, "coref") \/ c.OutputLevel = "crf" => Activated(c).NEClassification
BY DEF Activated, Options, Chosen

LEMMA NeededNotDropped ==
    ASSUME NEW c, Options \subseteq DOMAIN c,
           c.InputLevel \in InputLevels, c.OutputLevel \in OutputLevels,
           NEW f \in Needed(Activated(c))
    PROVE  f \notin Unneeded(Activated(c))
<1> DEFINE a == Activated(c)
           in == Rank(a.InputLevel)
           out == Rank(a.OutputLevel)
<1>1. a.InputLevel = c.InputLevel /\ a.OutputLevel = c.OutputLevel
  BY ActivatedFields DEF Options, Chosen
<1>2. in \in 1 .. 13 /\ out \in 1 .. 13
  BY <1>1, LevelsHaveRanks
<1>3. out >= 12 => a.SenseAnnotation = "ukb"
  BY <1>1, <1>2, ActivatedFields, Ranks DEF Below
<1>4. out >= 12 \/ a.OutputLevel = "crf" => a.NEClassification
  BY <1>1, <1>2, ActivatedFields, Ranks DEF Below
<1> HIDE DEF a
<1>5. f \in FileOptions
  BY DEF Needed
<1>6. CASE f \in {"TokenizerFile", "SplitterFile"}
  BY <1>2, <1>6, Ranks DEF Needed, Unneeded, Below, Beyond, Outside, a
<1>7. CASE f \in {"TaggerHMMFile", "TaggerRelaxFile"}
  BY <1>2, <1>7, Ranks DEF Needed, Unneeded, Below, Beyond, Outside, a
<1>8. CASE f = "GrammarFile"
  BY <1>2, <1>8, Ranks DEF Needed, Unneeded, Below, Beyond, Outside, a
<1>9. CASE f \in {"DepTxalaFile", "DepTreelerFile"}
  BY <1>2, <1>9, Ranks DEF Needed, Unneeded, Below, Beyond, Outside, a
<1>10. CASE f \in {"CorefFile", "SemGraphExtractorFile"}
  BY <1>2, <1>10, Ranks DEF Needed, Unneeded, Below, Beyond, Outside, a
<1>11. CASE f = "NECFile"
  BY <1>2, <1>4, <1>11, Ranks DEF Needed, Unneeded, Below, Beyond, Outside, a
<1>12. CASE f \in {"SenseConfigFile", "UKBConfigFile"}
  BY <1>2, <1>3, <1>12, Ranks DEF Needed, Unneeded, Below, Beyond, Outside, a
<1>13. CASE f \in {"LangIdentFile", "PhoneticsFile"}
  BY <1>13 DEF Needed
<1>20. QED
  BY <1>5, <1>6, <1>7, <1>8, <1>9, <1>10, <1>11, <1>12, <1>13 DEF FileOptions
\* What load_config does after that leaves alone what it is about.
LEMMA LoadedFields ==
    ASSUME NEW c, Options \subseteq DOMAIN c,
           NEW d, d = Documentwise(DropUnneeded(Activated(c)))
    PROVE  /\ \A x \in Chosen : d[x] = Activated(c)[x]
           /\ \A f \in FileOptions \ Unneeded(Activated(c)) : d[f] = c[f]
<1> DEFINE a == Activated(c)
           e == DropUnneeded(a)
<1>1. DOMAIN a = DOMAIN c /\ \A f \in FileOptions : a[f] = c[f]
  BY ActivatedFields, NamesDiffer DEF Options, Chosen
<1> HIDE DEF a
<1>2. Unneeded(a) \subseteq FileOptions
  BY DEF Unneeded
<1>3. /\ DOMAIN e = DOMAIN a
      /\ \A x \in DOMAIN a \ Unneeded(a) : e[x] = a[x]
  BY <1>1, <1>2 DEF DropUnneeded, Options, Over
<1>4. \A x \in DOMAIN e \ {"InputMode"} : Documentwise(e)[x] = e[x]
  BY DEF Documentwise
<1>5. \A x \in Chosen : x \in DOMAIN a /\ x \notin Unneeded(a) /\ x # "InputMode"
  BY <1>1, <1>2, NamesDiffer DEF Options, Chosen
<1>6. \A f \in FileOptions : f \in DOMAIN a /\ f # "InputMode"
  BY <1>1, NamesDiffer DEF Options
<1>7. d = Documentwise(e)
  BY DEF a
<1> HIDE DEF e
<1>8. \A x \in Chosen : d[x] = a[x]
  BY <1>3, <1>4, <1>5, <1>7
<1>9. \A f \in FileOptions \ Unneeded(a) : d[f] = c[f]
  BY <1>1, <1>3, <1>4, <1>6, <1>7
<1>10. QED
  BY <1>8, <1>9 DEF a

LEMMA NeededByChosen ==
    ASSUME NEW c, NEW d, \A x \in Chosen : d[x] = c[x]
    PROVE  Needed(d) = Needed(c)
<1>1. /\ d.InputLevel = c.InputLevel /\ d.OutputLevel = c.OutputLevel
      /\ d.Tagger = c.Tagger /\ d.DependencyParser = c.DependencyParser
      /\ d.SenseAnnotation = c.SenseAnnotation /\ d.NEClassification = c.NEClassification
  BY DEF Chosen
<1>2. QED
  BY <1>1 DEF Needed, Below

-------------------------------------------------------------------------------
LEMMA InitTraced == ConfigInit => FilesTraced
BY DEF ConfigInit, ConfigInitWith, FilesTraced

LEMMA StepTraced == FilesTraced /\ [ConfigNext]_configVars => FilesTraced'
<1> SUFFICES ASSUME FilesTraced, [ConfigNext]_configVars PROVE FilesTraced'
  OBVIOUS
<1>1. ASSUME NEW outcome \in {"file", "exited", "failed"}, ParseCommandLine(outcome) PROVE FilesTraced'
  <2>1. cfg' = Over(line', Unset) /\ stage' = outcome
    BY <1>1 DEF ParseCommandLine, FilesTraced
  <2>2. FileOptions \cup {"ServerPort"} = DOMAIN Unset /\ \A f \in FileOptions : Unset[f] = ""
    BY NamesDiffer DEF Unset
  <2>3. FileOptions \cup {"ServerPort"} \subseteq DOMAIN cfg'
    BY <2>1, <2>2 DEF Over
  <2>4. \A f \in FileOptions : f \notin DOMAIN line' => cfg'[f] = ""
    BY <2>1, <2>2 DEF Over
  <2>5. QED
    BY <2>1, <2>3, <2>4 DEF FilesTraced
<1>2. ASSUME NEW ok \in BOOLEAN, ParseConfigFile(ok) PROVE FilesTraced'
  <2>1. CASE stage' = "failed"
    BY <2>1 DEF FilesTraced
  <2>2. CASE stage' = "strings" /\ cfg' = Notify
    <3>1. /\ FileOptions \cup {"ServerPort"} \subseteq DOMAIN cfg
          /\ \A f \in FileOptions : f \notin DOMAIN line => cfg[f] = ""
      BY <1>2 DEF ParseConfigFile, FilesTraced
    <3>2. DOMAIN cfg' = DOMAIN line \cup DOMAIN file \cup DOMAIN FileDefaults \cup DOMAIN cfg
      BY <2>2 DEF Notify, Over
    <3>3. Options \subseteq DOMAIN cfg'
      BY <3>1, <3>2, NamesDiffer DEF Options
    <3>4. Given' = Given
      BY <1>2 DEF ParseConfigFile, Given
    <3>5. ASSUME NEW f \in FileOptions PROVE cfg'[f] = Given[f]
      <4>1. f \notin DOMAIN FileDefaults /\ f \in DOMAIN cfg
        BY <3>1, NamesDiffer
      <4>2. f \in DOMAIN Unset /\ Unset[f] = ""
        BY NamesDiffer DEF Unset
      <4>3. CASE f \in DOMAIN line
        BY <2>2, <4>3 DEF Notify, Given, Over
      <4>4. CASE f \notin DOMAIN line /\ f \in DOMAIN file
        BY <2>2, <4>4 DEF Notify, Given, Over
      <4>5. CASE f \notin DOMAIN line /\ f \notin DOMAIN file
        <5>1. cfg'[f] = cfg[f]
          BY <2>2, <4>1, <4>5 DEF Notify, Over
        <5>2. Given[f] = Unset[f]
          BY <4>2, <4>5 DEF Given, Over
        <5>3. QED
          BY <3>1, <4>2, <4>5, <5>1, <5>2
      <4>6. QED
        BY <4>3, <4>4, <4>5
    <3>6. QED
      BY <2>2, <3>3, <3>4, <3>5 DEF FilesTraced
  <2>3. QED
    BY <1>2, <2>1, <2>2 DEF ParseConfigFile
<1>3. ASSUME Translate PROVE FilesTraced'
  <2>1. CASE stage' = "failed"
    BY <2>1 DEF FilesTraced
  <2>2. CASE stage' = "load"
    <3> DEFINE known == Over([b \in BooleanOptions |-> SetBooleanOptionCL(Signs(b), cfg[b])], cfg)
    <3>1. Options \subseteq DOMAIN cfg /\ \A f \in FileOptions : cfg[f] = Given[f]
      BY <1>3 DEF Translate, FilesTraced
    <3>2. /\ cfg.InputLevel \in InputLevels /\ cfg.OutputLevel \in OutputLevels
          /\ cfg' = [known EXCEPT
                       !.Tagger = IF @ \in {"hmm", "relax"} THEN @ ELSE "hmm",
                       !.SenseAnnotation = IF @ \in {"all", "mfs", "ukb"} THEN @ ELSE "none",
                       !.DependencyParser = IF @ \in {"txala", "treeler"} THEN @ ELSE "txala"]
      BY <1>3, <2>2 DEF Translate
    <3>3. DOMAIN known = BooleanOptions \cup DOMAIN cfg
      BY DEF Over
    <3>4. \A x \in DOMAIN cfg \ BooleanOptions : known[x] = cfg[x]
      BY DEF Over
    <3> HIDE DEF known
    <3>5. DOMAIN cfg' = DOMAIN known
      BY <3>2
    <3>6. \A x \in DOMAIN known \ {"Tagger", "SenseAnnotation", "DependencyParser"} : cfg'[x] = known[x]
      BY <3>2
    <3>7. Given' = Given
      BY <1>3 DEF Translate, Given
    <3>8. Options \subseteq DOMAIN cfg'
      BY <3>1, <3>3, <3>5
    <3>9. \A f \in FileOptions : cfg'[f] = Given[f]
      BY <3>1, <3>3, <3>4, <3>6, NamesDiffer DEF Options, Chosen
    <3>10. cfg'["InputLevel"] = cfg["InputLevel"] /\ cfg'["OutputLevel"] = cfg["OutputLevel"]
      BY <3>1, <3>3, <3>4, <3>6 DEF Options, Chosen, BooleanOptions
    <3>11. QED
      BY <2>2, <3>2, <3>7, <3>8, <3>9, <3>10, ZenonT(60) DEF FilesTraced
  <2>3. QED
    BY <1>3, <2>1, <2>2 DEF Translate
<1>4. ASSUME LoadConfig PROVE FilesTraced'
  <2>1. CASE stage' = "failed"
    BY <2>1 DEF FilesTraced
  <2>2. CASE stage' = "handlers"
    <3>1. /\ Options \subseteq DOMAIN cfg /\ \A f \in FileOptions : cfg[f] = Given[f]
          /\ cfg.InputLevel \in InputLevels /\ cfg.OutputLevel \in OutputLevels
      BY <1>4 DEF LoadConfig, FilesTraced
    <3>2. cfg' = Documentwise(DropUnneeded(Activated(cfg)))
      BY <1>4 DEF LoadConfig
    <3>3. /\ \A x \in Chosen : cfg'[x] = Activated(cfg)[x]
          /\ \A f \in FileOptions \ Unneeded(Activated(cfg)) : cfg'[f] = cfg[f]
      BY <3>1, <3>2, LoadedFields
    <3>4. Needed(cfg') = Needed(Activated(cfg))
      BY <3>3, NeededByChosen
    <3>5. \A f \in Needed(Activated(cfg)) : f \in FileOptions \ Unneeded(Activated(cfg))
      BY <3>1, NeededNotDropped DEF Needed
    <3>6. Given' = Given
      BY <1>4 DEF LoadConfig, Given
    <3>7. \A f \in Needed(cfg') : cfg'[f] = Given'[f]
      BY <3>1, <3>3, <3>4, <3>5, <3>6
    <3>8. QED
      BY <2>2, <3>7 DEF FilesTraced
  <2>3. QED
    BY <1>4, <2>1, <2>2 DEF LoadConfig
<1>5. ASSUME Enter PROVE FilesTraced'
  <2>1. \A f \in Needed(cfg) : Given[f] = "given" => cfg[f] = "given"
    BY <1>5 DEF Enter, FilesTraced
  <2>2. cfg' = cfg /\ Given' = Given /\ stage' \in {"crashed", "running"}
    BY <1>5 DEF Enter, Given
  <2>3. QED
    BY <2>1, <2>2 DEF FilesTraced
<1>6. ASSUME UNCHANGED configVars PROVE FilesTraced'
  BY <1>6 DEF configVars, FilesTraced, Given
<1>7. QED
  BY <1>1, <1>2, <1>3, <1>4, <1>5, <1>6 DEF ConfigNext

LEMMA TracedKeeps == FilesTraced => NeededFilesKept
BY DEF FilesTraced, NeededFilesKept

-------------------------------------------------------------------------------
\* For every command line, every pair of --option and --nooption and every file of
\* configuration: a file that the user gives and that a module between the requested
\* levels opens still has its name when main enters its loop (load_config of
\* config_squoia.h clears names only after it has switched modules on).
THEOREM FilesKept == ConfigSpec => []NeededFilesKept
<1>1. ConfigSpec => []FilesTraced
  BY InitTraced, StepTraced, PTL DEF ConfigSpec
<1>2. QED
  BY <1>1, TracedKeeps, PTL
-------------------------------------------------------------------------------
(***************************************************************************)
(* What the user asks for: cfg is always the same merge.                   *)
(***************************************************************************)
Merged == Over(line, Over(file, Over(FileDefaults, Over(line, Unset))))

OptionsTraced ==
    /\ stage = "line" => cfg = Unset
    /\ stage = "file" => cfg = Over(line, Unset)
    /\ stage = "strings" => cfg = Merged
    /\ stage \in {"line", "file", "strings"} => DOMAIN line \cap BooleanOptions = {}
    /\ OptionsObeyed

Plain == {"InputLevel", "OutputLevel", "InputMode", "OutputFormat", "InputFormat", "ServerPort"} \cup FileOptions

LEMMA PlainNames ==
    /\ Plain \subseteq DOMAIN FileDefaults \cup DOMAIN Unset
    /\ Plain \cap (BooleanOptions \cup {"Tagger", "SenseAnnotation", "DependencyParser"}) = {}
    /\ BooleanOptions \subseteq DOMAIN FileDefaults
    /\ BooleanOptions \cap {"Tagger", "SenseAnnotation", "DependencyParser"} = {}
BY DEF Plain, FileOptions, BooleanOptions, FileDefaults, Unset

LEMMA MergedOptions ==
    /\ \A o \in Plain : /\ o \in DOMAIN Merged
                        /\ Merged[o] = IF o \in DOMAIN line THEN line[o]
                                       ELSE IF o \in DOMAIN file THEN file[o]
                                       ELSE Over(FileDefaults, Unset)[o]
    /\ \A b \in BooleanOptions \ DOMAIN line : Merged[b] = Over(file, FileDefaults)[b]
<1> DEFINE d == FileDefaults
           u == Unset
<1>1. /\ Plain \subseteq DOMAIN d \cup DOMAIN u
      /\ BooleanOptions \subseteq DOMAIN d
  BY PlainNames
<1>2. Merged = Over(line, Over(file, Over(d, Over(line, u))))
  BY DEF Merged
<1> HIDE DEF d, u
<1>3. \A o \in Plain : /\ o \in DOMAIN Merged
                     /\ Merged[o] = IF o \in DOMAIN line THEN line[o]
                                    ELSE IF o \in DOMAIN file THEN file[o]
                                    ELSE Over(d, u)[o]
  BY <1>1, <1>2 DEF Over
<1>4. \A b \in BooleanOptions \ DOMAIN line : Merged[b] = Over(file, d)[b]
  BY <1>1, <1>2 DEF Over
<1>5. QED
  BY <1>3, <1>4 DEF d, u

LEMMA TranslatedOptions ==
    ASSUME Translate, stage' = "load"
    PROVE  /\ \A o \in Plain \cap DOMAIN cfg : cfg'[o] = cfg[o]
           /\ \A b \in BooleanOptions : cfg'[b] = SetBooleanOptionCL(Signs(b), cfg[b])
<1> DEFINE known == Over([b \in BooleanOptions |-> SetBooleanOptionCL(Signs(b), cfg[b])], cfg)
<1>1. cfg' = [known EXCEPT
                !.Tagger = IF @ \in {"hmm", "relax"} THEN @ ELSE "hmm",
                !.SenseAnnotation = IF @ \in {"all", "mfs", "ukb"} THEN @ ELSE "none",
                !.DependencyParser = IF @ \in {"txala", "treeler"} THEN @ ELSE "txala"]
  BY DEF Translate
<1>2. /\ DOMAIN known = BooleanOptions \cup DOMAIN cfg
      /\ \A x \in DOMAIN cfg \ BooleanOptions : known[x] = cfg[x]
      /\ \A b \in BooleanOptions : known[b] = SetBooleanOptionCL(Signs(b), cfg[b])
  BY DEF Over
<1> HIDE DEF known
<1>3. \A x \in DOMAIN known \ {"Tagger", "SenseAnnotation", "DependencyParser"} : cfg'[x] = known[x]
  BY <1>1
<1>4. QED
  BY <1>2, <1>3, PlainNames

LEMMA StepOptions == OptionsTraced /\ [ConfigNext]_configVars => OptionsTraced'
<1> SUFFICES ASSUME OptionsTraced, [ConfigNext]_configVars PROVE OptionsTraced'
  OBVIOUS
<1>1. ASSUME NEW outcome \in {"file", "exited", "failed"}, ParseCommandLine(outcome) PROVE OptionsTraced'
  <2>1. cfg' = Over(line', Unset) /\ stage' \in {"file", "exited", "failed"}
    BY <1>1 DEF ParseCommandLine, OptionsTraced
  <2>2. DOMAIN line' \cap BooleanOptions = {}
    BY <1>1, NamesDiffer DEF ParseCommandLine, OptionsTraced, Over, LineDefaults, BooleanOptions
  <2>3. QED
    BY <2>1, <2>2 DEF OptionsTraced, OptionsObeyed
<1>2. ASSUME NEW ok \in BOOLEAN, ParseConfigFile(ok) PROVE OptionsTraced'
  <2>1. CASE stage' = "failed"
    BY <2>1 DEF OptionsTraced, OptionsObeyed
  <2>2. CASE stage' = "strings" /\ cfg' = Notify
    <3>1. cfg' = Merged /\ Merged' = Merged /\ DOMAIN line' \cap BooleanOptions = {}
      BY <1>2, <2>2 DEF ParseConfigFile, OptionsTraced, Notify, Merged
    <3>2. QED
      BY <2>2, <3>1 DEF OptionsTraced, OptionsObeyed
  <2>3. QED
    BY <1>2, <2>1, <2>2 DEF ParseConfigFile
<1>3. ASSUME Translate PROVE OptionsTraced'
  <2>1. CASE stage' = "failed"
    BY <2>1 DEF OptionsTraced, OptionsObeyed
  <2>2. CASE stage' = "load"
    <3>1. cfg = Merged /\ DOMAIN line \cap BooleanOptions = {}
      BY <1>3 DEF Translate, OptionsTraced
    <3>2. line' = line /\ file' = file /\ flags' = flags
      BY <1>3 DEF Translate
    <3>3. \A o \in Plain : cfg'[o] = IF o \in DOMAIN line THEN line[o]
                                   ELSE IF o \in DOMAIN file THEN file[o]
                                   ELSE Over(FileDefaults, Unset)[o]
      BY <1>3, <2>2, <3>1, MergedOptions, TranslatedOptions
    <3>4. \A b \in BooleanOptions : cfg'[b] = SetBooleanOptionCL(Signs(b), Over(file, FileDefaults)[b])
      BY <1>3, <2>2, <3>1, MergedOptions, TranslatedOptions
    <3>5. \A b \in BooleanOptions \ {"ServerMode"} :
              cfg'[b] = CASE flags[b] = {"pos"} -> TRUE
                          [] flags[b] = {"neg"} -> FALSE
                          [] OTHER -> Over(file, FileDefaults)[b]
      BY <3>4 DEF SetBooleanOptionCL, Signs
    <3>6. cfg'["ServerMode"] <=> "pos" \in flags["ServerMode"]
      BY <3>4 DEF SetBooleanOptionCL, Signs, BooleanOptions
    <3>7. OptionsObeyed'
      BY <3>2, <3>3, <3>5, <3>6 DEF OptionsObeyed, Plain
    <3>8. QED
      BY <2>2, <3>7 DEF OptionsTraced
  <2>3. QED
    BY <1>3, <2>1, <2>2 DEF Translate
<1>4. ASSUME LoadConfig \/ Enter PROVE OptionsTraced'
  BY <1>4 DEF LoadConfig, Enter, OptionsTraced, OptionsObeyed
<1>5. ASSUME UNCHANGED configVars PROVE OptionsTraced'
  BY <1>5 DEF configVars, OptionsTraced, OptionsObeyed, Merged
<1>6. QED
  BY <1>1, <1>2, <1>3, <1>4, <1>5 DEF ConfigNext

\* No option is lost on its way from the command line or the file to load_config, if
\* the command line names Boolean options by --option and --nooption only, as the
\* table of config_squoia.h:97 makes it.
THEOREM OptionsAlwaysObeyed ==
    ASSUME \A l \in Lines : DOMAIN l \cap BooleanOptions = {}
    PROVE  ConfigSpec => []OptionsObeyed
<1>1. ConfigInit => OptionsTraced
  BY DEF ConfigInit, ConfigInitWith, OptionsTraced, OptionsObeyed
<1>2. OptionsTraced => OptionsObeyed
  BY DEF OptionsTraced
<1>3. QED
  BY <1>1, <1>2, StepOptions, PTL DEF ConfigSpec
-------------------------------------------------------------------------------
(***************************************************************************)
(* What load_config accepts.                                               *)
(***************************************************************************)
Consistent(c) ==
    /\ c.InputLevel \in InputLevels /\ c.OutputLevel \in OutputLevels
    /\ c.InputFormat \in {"text", "freeling", "conll", "crf"}
    /\ c.ServerMode <=> c.ServerPort # 0
    /\ Rank(c.InputLevel) <= Rank(c.OutputLevel)
    /\ c.OutputLevel = "ident" => c.LangIdentFile # ""
    /\ c.InputFormat = "text" => c.InputLevel = "text"
    /\ ~Below(c, "coref") => c.InputMode = "doc"

Accepted ==
    /\ FilesTraced
    /\ stage = "load" => cfg.InputFormat \in {"text", "freeling", "conll", "crf"}
    /\ stage \in {"handlers", "running", "crashed"} => Consistent(cfg)
    /\ stage \in {"running", "crashed"} => inp = CreateInputHandler(cfg)
    /\ stage = "crashed" => cfg.InputFormat = "crf"
    /\ stage = "running" /\ cfg.OutputLevel # "ident" /\ inp = "none" => cfg.InputFormat = "text"

LEMMA LoadedConsistent ==
    ASSUME NEW c, Options \subseteq DOMAIN c, ~Rejected(c),
           c.InputLevel \in InputLevels, c.OutputLevel \in OutputLevels,
           c.InputFormat \in {"text", "freeling", "conll", "crf"}
    PROVE  Consistent(Documentwise(DropUnneeded(Activated(c))))
<1> DEFINE a == Activated(c)
           e == DropUnneeded(a)
           d == Documentwise(e)
           Kept == {"InputLevel", "OutputLevel", "InputFormat", "ServerMode", "LangIdentFile"}
<1>1. /\ DOMAIN a = DOMAIN c
      /\ a["ServerPort"] = IF c.ServerMode THEN c["ServerPort"] ELSE 0
      /\ \A x \in Kept : a[x] = c[x]
  BY DEF Activated, Options, Chosen, FileOptions
<1>2. /\ Kept \cup {"ServerPort", "InputMode"} \subseteq DOMAIN c
      /\ Unneeded(a) \cap (Kept \cup {"ServerPort", "InputMode"}) = {}
  BY DEF Options, Chosen, FileOptions, Unneeded
<1> HIDE DEF a
<1>3. /\ DOMAIN e = Unneeded(a) \cup DOMAIN a
      /\ \A x \in Kept \cup {"ServerPort"} : e[x] = a[x]
  BY <1>1, <1>2 DEF DropUnneeded, Over
<1> HIDE DEF e
<1>4. /\ \A x \in Kept \cup {"ServerPort"} : d[x] = e[x]
      /\ ~Below(e, "coref") => d["InputMode"] = "doc"
  BY <1>1, <1>2, <1>3 DEF Documentwise
<1>5. e["OutputLevel"] = d["OutputLevel"]
  BY <1>4
<1> HIDE DEF d
<1>6. \A x \in Kept : d[x] = c[x]
  BY <1>1, <1>3, <1>4
<1>7. d["ServerPort"] = IF c.ServerMode THEN c["ServerPort"] ELSE 0
  BY <1>1, <1>3, <1>4
<1>8. d.InputLevel = c.InputLevel /\ d.OutputLevel = c.OutputLevel /\ d.InputFormat = c.InputFormat
  BY <1>6
<1>9. d.ServerMode <=> d.ServerPort # 0
  BY <1>6, <1>7 DEF Rejected
<1>10. Rank(d.InputLevel) <= Rank(d.OutputLevel)
  <2>1. Rank(c.InputLevel) \in 1 .. 13 /\ Rank(c.OutputLevel) \in 1 .. 13
    BY LevelsHaveRanks
  <2>2. ~(Rank(c.InputLevel) > Rank(c.OutputLevel))
    BY DEF Rejected
  <2>3. Rank(c.InputLevel) <= Rank(c.OutputLevel)
    BY <2>1, <2>2
  <2>4. QED
    BY <1>8, <2>3
<1>11. d.OutputLevel = "ident" => d.LangIdentFile # ""
  BY <1>6, <1>8 DEF Rejected
<1>12. d.InputFormat = "text" => d.InputLevel = "text"
  BY <1>8 DEF Rejected
<1>13. ~Below(d, "coref") => d.InputMode = "doc"
  BY <1>4, <1>5 DEF Below
<1>14. Consistent(d)
  BY <1>8, <1>9, <1>10, <1>11, <1>12, <1>13 DEF Consistent
<1>15. QED
  BY <1>14 DEF a, e, d

LEMMA StepAccepted == Accepted /\ [ConfigNext]_configVars => Accepted'
<1> SUFFICES ASSUME Accepted, [ConfigNext]_configVars PROVE Accepted'
  OBVIOUS
<1>1. FilesTraced'
  BY StepTraced DEF Accepted
<1>2. ASSUME NEW outcome \in {"file", "exited", "failed"}, ParseCommandLine(outcome) PROVE Accepted'
  BY <1>1, <1>2 DEF ParseCommandLine, Accepted
<1>3. ASSUME NEW ok \in BOOLEAN, ParseConfigFile(ok) PROVE Accepted'
  <2>1. stage' \in {"strings", "failed"}
    BY <1>3 DEF ParseConfigFile
  <2>2. QED
    BY <1>1, <2>1 DEF Accepted
<1>4. ASSUME Translate PROVE Accepted'
  <2>1. CASE stage' = "failed"
    BY <1>1, <2>1 DEF Accepted
  <2>2. CASE stage' = "load"
    <3>1. /\ cfg.InputFormat \in {"text", "freeling", "conll", "crf"}
          /\ Options \subseteq DOMAIN cfg
      BY <1>4, <2>2 DEF Translate, Accepted, FilesTraced
    <3>2. cfg'["InputFormat"] = cfg["InputFormat"]
      BY <1>4, <2>2, <3>1, TranslatedOptions DEF Plain, Options
    <3>3. QED
      BY <1>1, <2>2, <3>1, <3>2 DEF Accepted
  <2>3. QED
    BY <1>4, <2>1, <2>2 DEF Translate
<1>5. ASSUME LoadConfig PROVE Accepted'
  <2>1. CASE Rejected(cfg)
    <3>1. stage' = "failed"
      BY <1>5, <2>1 DEF LoadConfig
    <3>2. QED
      BY <1>1, <3>1 DEF Accepted
  <2>2. CASE ~Rejected(cfg)
    <3>1. stage' = "handlers" /\ cfg' = Documentwise(DropUnneeded(Activated(cfg)))
      BY <1>5, <2>2 DEF LoadConfig
    <3>2. /\ Options \subseteq DOMAIN cfg
          /\ cfg.InputLevel \in InputLevels /\ cfg.OutputLevel \in OutputLevels
          /\ cfg.InputFormat \in {"text", "freeling", "conll", "crf"}
      BY <1>5 DEF LoadConfig, Accepted, FilesTraced
    <3>3. Consistent(cfg')
      BY <2>2, <3>1, <3>2, LoadedConsistent
    <3>4. QED
      BY <1>1, <3>1, <3>3 DEF Accepted
  <2>3. QED
    BY <2>1, <2>2
<1>6. ASSUME Enter PROVE Accepted'
  <2>1. Consistent(cfg) /\ cfg' = cfg /\ inp' = CreateInputHandler(cfg) /\ stage' \in {"crashed", "running"}
    BY <1>6 DEF Enter, Accepted
  <2>2. stage' = "crashed" => cfg.InputFormat # "text" /\ inp' = "none"
    BY <1>6 DEF Enter
  <2>3. stage' = "crashed" => cfg.InputFormat = "crf"
    BY <2>1, <2>2 DEF Consistent, CreateInputHandler
  <2>4. stage' = "running" /\ cfg.OutputLevel # "ident" /\ inp' = "none" => cfg.InputFormat = "text"
    BY <1>6 DEF Enter
  <2>5. QED
    BY <1>1, <2>1, <2>3, <2>4 DEF Accepted
<1>7. ASSUME UNCHANGED configVars PROVE Accepted'
  BY <1>1, <1>7 DEF configVars, Accepted
<1>8. QED
  BY <1>2, <1>3, <1>4, <1>5, <1>6, <1>7 DEF ConfigNext

LEMMA AcceptedRuns == Accepted => Runnable
<1> SUFFICES ASSUME Accepted PROVE Runnable
  OBVIOUS
<1>1. stage = "crashed" => cfg.InputFormat = "crf"
  BY DEF Accepted
<1>2. ASSUME stage = "running"
      PROVE  /\ cfg.ServerMode <=> cfg.ServerPort # 0
             /\ Rank(cfg.InputLevel) <= Rank(cfg.OutputLevel)
             /\ cfg.OutputLevel = "ident" => cfg.LangIdentFile # "" /\ cfg.InputLevel = "text"
             /\ cfg.OutputLevel # "ident" /\ inp = "none" => cfg.InputLevel = "text"
             /\ ~Below(cfg, "coref") => cfg.InputMode = "doc"
  <2>1. Consistent(cfg)
    BY <1>2 DEF Accepted
  <2>2. ASSUME cfg.OutputLevel = "ident" PROVE cfg.InputLevel = "text"
    <3>1. Rank(cfg.InputLevel) <= 2
      BY <2>1, <2>2, Ranks DEF Consistent
    <3>2. cfg.InputLevel \in InputLevels
      BY <2>1 DEF Consistent
    <3>3. QED
      BY <3>1, <3>2, Ranks DEF InputLevels
  <2>3. cfg.OutputLevel # "ident" /\ inp = "none" => cfg.InputLevel = "text"
    BY <1>2, <2>1 DEF Accepted, Consistent
  <2>4. QED
    BY <2>1, <2>2, <2>3 DEF Consistent
<1>3. QED
  BY <1>1, <1>2 DEF Runnable

\* Every configuration that load_config lets through can be run, whatever the command
\* line and the file say, except that the input format crf has no handler.
THEOREM AlwaysRunnable == ConfigSpec => []Runnable
<1>1. ConfigInit => Accepted
  BY InitTraced DEF ConfigInit, ConfigInitWith, Accepted
<1>2. QED
  BY <1>1, StepAccepted, AcceptedRuns, PTL DEF ConfigSpec
===============================================================================
