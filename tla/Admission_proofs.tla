--------------------------- MODULE Admission_proofs ---------------------------
(***************************************************************************)
(* Theorems about Admission, for any number of connections and requests    *)
(* and any two limits.  The invariant is proved in layers: types, the      *)
(* slots and the queue, what was begun, who it came from, and the drain.   *)
(***************************************************************************)
EXTENDS Admission, FiniteSetTheorems, TLAPS

-----------------------------------------------------------------------------
(* The queue and the slots, as sets *)

LEMMA FiniteSets ==
  /\ IsFiniteSet(Queue) /\ Cardinality(Queue) \in Nat
  /\ IsFiniteSet(Left) /\ Cardinality(Left) \in Nat
  /\ IsFiniteSet(Running) /\ Cardinality(Running) \in Nat
<1>1. /\ Queue \in SUBSET Sandbox /\ Left \in SUBSET Sandbox
      /\ Running \in SUBSET Sandbox
  BY DEF Queue, Left, Running
<1>2. \A S \in SUBSET Sandbox : IsFiniteSet(S)
  BY FS_Subset, FiniteAssumption
<1> QED
  BY <1>1, <1>2, FS_CardinalityType

\* What the admission deadline does to the requests, whoever applies it.
LEMMA ExpiryEffect ==
  ASSUME TypeOK
  PROVE  /\ AfterExpiry \in [Requests -> States]
         /\ \A r \in Requests : r \notin Queue => AfterExpiry[r] = state[r]
         /\ \A r \in Requests : AfterExpiry[r] # "unsent" => state[r] # "unsent"
         /\ \A r \in Requests : AfterExpiry[r] \in {state[r], "expired"}
         /\ \A r \in Sandbox : AfterExpiry[r] = "queued" <=> r \in Left
         /\ \A r \in Sandbox : AfterExpiry[r] = "running" <=> r \in Running
BY DEF TypeOK, AfterExpiry, Dropped, Left, Queue, Running, States, Verdicts, Requests

-----------------------------------------------------------------------------
(* Types *)

LEMMA TypeInit == Init => TypeOK
<1> SUFFICES ASSUME Init PROVE TypeOK
  OBVIOUS
<1>1. /\ conn \in [Connections -> Sockets]
      /\ state \in [Requests -> States]
      /\ via \in [Requests -> Connections \union {Nobody}]
      /\ role \in [Connections -> Roles \union {"none"}]
      /\ ticket \in [Requests -> Nat]
  BY DEF Init, Sockets, States
<1>2. /\ ticking \in BOOLEAN /\ draining \in BOOLEAN /\ graceOver \in BOOLEAN
      /\ arrived \in Nat /\ active \in Nat
  BY DEF Init
<1> QED
  BY <1>1, <1>2 DEF Init, TypeOK

LEMMA ConnectionTypes ==
  ASSUME TypeOK, NEW c \in Connections, ConnectionStep(c)
  PROVE  TypeOK'
<1>1. CASE Connect(c) \/ Handshake(c) \/ HandshakeRefused(c) \/ SocketLost(c)
  BY <1>1 DEF TypeOK, Connect, Handshake, HandshakeRefused, SocketLost, Sockets, Roles,
     requests, queueing, shutdown, Queue
<1>2. CASE SocketCloses(c)
  <2>1. state' \in [Requests -> States]
    BY <1>2 DEF SocketCloses, TypeOK, States, Verdicts
  <2>2. due' \subseteq Queue'
    BY <1>2 DEF SocketCloses, TypeOK, Queue, Abandoned, Requests
  <2> QED
    BY <1>2, <2>1, <2>2 DEF SocketCloses, TypeOK, Sockets, shutdown
<1>3. CASE Flush(c)
  BY <1>3 DEF Flush, TypeOK, InFlight, Ended, Sockets, requests, queueing, Queue, Requests
<1> QED
  BY <1>1, <1>2, <1>3 DEF ConnectionStep

LEMMA SubmitTypes ==
  ASSUME TypeOK, NEW c \in Connections, NEW r \in Requests, SubmitStep(c, r)
  PROVE  TypeOK'
<1>1. via' \in [Requests -> Connections \union {Nobody}]
  BY DEF SubmitStep, Refused, SubmitBusy, SubmitRuns, SubmitWaits, StartDirect, Submitted,
     Arrives, TypeOK
<1>2. CASE Refused(c, r) \/ StartDirect(c, r)
  <2>1. state[r] = "unsent" /\ state' \in [Requests -> States]
    BY <1>2 DEF Refused, StartDirect, Arrives, TypeOK, States, Verdicts
  <2>2. due' \subseteq Queue'
    BY <1>2, <2>1 DEF Refused, StartDirect, Arrives, TypeOK, queueing, Queue, Requests
  <2> QED
    BY <1>1, <1>2, <2>1, <2>2 DEF Refused, StartDirect, Arrives, TypeOK, sockets, shutdown, queueing
<1>3. CASE SubmitBusy(c, r) \/ SubmitRuns(c, r) \/ SubmitWaits(c, r)
  <2>1. state' \in [Requests -> States]
    BY <1>3, ExpiryEffect DEF SubmitBusy, SubmitRuns, SubmitWaits, States, Verdicts
  <2>2. ticket' \in [Requests -> Nat] /\ arrived' \in Nat
    BY <1>3 DEF SubmitBusy, SubmitRuns, SubmitWaits, Submitted, TypeOK
  <2>3. active' \in Nat /\ started' \subseteq Requests
    BY <1>3 DEF SubmitBusy, SubmitRuns, SubmitWaits, Submitted, TypeOK, SlotTaken
  <2>4. ticking' \in BOOLEAN /\ due' = {}
    BY <1>3, Zenon DEF SubmitBusy, SubmitRuns, SubmitWaits, Submitted, KeptTicking, TimerArmed
  <2> QED
    BY <1>1, <1>3, <2>1, <2>2, <2>3, <2>4 DEF SubmitBusy, SubmitRuns, SubmitWaits, Submitted,
       Arrives, TypeOK, sockets, shutdown
<1> QED
  BY <1>2, <1>3 DEF SubmitStep

LEMMA PumpTypes ==
  ASSUME TypeOK, NEW r \in Requests, WorkEnds(r), active > 0
  PROVE  TypeOK'
<1>1. PICK S \in SUBSET Left :
        /\ state' = [s \in Requests |-> IF s = r THEN "ran"
                                        ELSE IF s \in S THEN "running" ELSE AfterExpiry[s]]
        /\ started' = started \union S
        /\ active' = (active - 1) + Cardinality(S)
  BY DEF WorkEnds
<1>2. state' \in [Requests -> States]
  BY <1>1, ExpiryEffect DEF States, Verdicts
<1>3. started' \subseteq Requests
  BY <1>1 DEF Left, Queue, Requests, TypeOK
<1>4. active' \in Nat
  <2>1. IsFiniteSet(S)
    BY FiniteSets, FS_Subset
  <2>2. Cardinality(S) \in Nat
    BY <2>1, FS_CardinalityType
  <2> QED
    BY <1>1, <2>2 DEF TypeOK
<1> QED
  BY <1>2, <1>3, <1>4 DEF WorkEnds, TypeOK, KeptTicking, sockets, shutdown

LEMMA OtherTypes ==
  ASSUME TypeOK,
         \/ Tick \/ DrainStep
         \/ \E r \in Requests : DeadlinePasses(r) \/ ProvisionEnds(r) \/ StopFlushed(r)
  PROVE  TypeOK'
<1>1. CASE Tick
  BY <1>1, ExpiryEffect DEF Tick, TypeOK, KeptTicking, sockets, shutdown
<1>2. CASE DrainStep
  <2>1. CASE Signal \/ GracePasses \/ GraceEnds \/ Stopped
    <3>1. /\ UNCHANGED <<sockets, requests, queueing, visited, awaiting>>
          /\ draining' \in BOOLEAN /\ graceOver' \in BOOLEAN
          /\ phase' \in {phase, "draining", "flushing", "stopped"}
      BY <2>1 DEF Signal, Drain, GracePasses, GraceEnds, Stopped, TypeOK
    <3> QED
      BY <3>1 DEF TypeOK, sockets, requests, queueing, Queue
  <2>2. CASE FlushWaitEnds
    <3>1. conn' \in [Connections -> Sockets]
      BY <2>2 DEF FlushWaitEnds, Ended, TypeOK, Sockets
    <3> QED
      BY <2>2, <3>1 DEF FlushWaitEnds, TypeOK, requests, queueing, Queue
  <2>3. CASE DestroyAll
    <3>1. conn' \in [Connections -> Sockets]
      BY <2>3 DEF DestroyAll, TypeOK, Sockets
    <3> QED
      BY <2>3, <3>1 DEF DestroyAll, TypeOK, requests, Queue
  <2> QED
    BY <1>2, <2>1, <2>2, <2>3 DEF DrainStep
<1>3. ASSUME NEW r \in Requests, DeadlinePasses(r)
      PROVE  TypeOK'
  BY <1>3 DEF DeadlinePasses, TypeOK, sockets, requests, shutdown, Queue
<1>4. ASSUME NEW r \in Requests, ProvisionEnds(r) \/ StopFlushed(r)
      PROVE  TypeOK'
  <2>1. state[r] = "direct" /\ state' = [state EXCEPT ![r] = "ran"]
    BY <1>4 DEF ProvisionEnds, StopFlushed
  <2>2. state' \in [Requests -> States] /\ due \subseteq Queue'
    BY <2>1 DEF TypeOK, States, Verdicts, Queue, Requests
  <2>3. conn' \in [Connections -> Sockets]
    BY <1>4 DEF ProvisionEnds, StopFlushed, TypeOK, Sockets, AfterStop, sockets
  <2> QED
    BY <1>4, <2>2, <2>3 DEF ProvisionEnds, StopFlushed, Drain, TypeOK, sockets, queueing,
       shutdown
<1> QED
  BY <1>1, <1>2, <1>3, <1>4

-----------------------------------------------------------------------------
(* What a step does to the slots and the queue *)

\* Nobody is begun and nobody comes to wait.
Settles == Queue' \subseteq Queue /\ Running' = Running /\ active' = active

\* A newcomer takes a free slot.
Dispatches(r) ==
  /\ SlotFree
  /\ Queue' = Left /\ Running' = Running \union {r} /\ active' = active + 1

\* A newcomer comes to wait.
Waits(r) ==
  /\ ~Full /\ ~SlotFree
  /\ Queue' = Left \union {r} /\ Running' = Running /\ active' = active

\* A slot is freed and S moves up.
Frees(r, S) ==
  /\ Pumps(S)
  /\ Queue' = Left \ S
  /\ Running' = (Running \ {r}) \union S
  /\ active' = (active - 1) + Cardinality(S)

Moves ==
  \/ Settles
  \/ \E r \in Sandbox \ (Queue \union Running) : Dispatches(r) \/ Waits(r)
  \/ \E r \in Running : \E S \in SUBSET Left : Frees(r, S)

LEMMA ConnectionMoves ==
  ASSUME TypeOK, NEW c \in Connections, ConnectionStep(c)
  PROVE  Settles
<1>1. CASE state' = state /\ active' = active
  BY <1>1 DEF Settles, Queue, Running
<1>2. CASE SocketCloses(c)
  BY <1>2 DEF SocketCloses, Settles, Queue, Running, Abandoned, Requests, TypeOK
<1> QED
  BY <1>1, <1>2 DEF ConnectionStep, Connect, Handshake, HandshakeRefused, SocketLost, Flush,
     requests, queueing

LEMMA SubmitMoves ==
  ASSUME TypeOK, NEW c \in Connections, NEW r \in Requests, SubmitStep(c, r)
  PROVE  Settles \/ (r \in Sandbox \ (Queue \union Running) /\ (Dispatches(r) \/ Waits(r)))
<1>1. state[r] = "unsent"
  BY DEF SubmitStep, Refused, SubmitBusy, SubmitRuns, SubmitWaits, StartDirect, Submitted, Arrives
<1>2. r \notin Queue \union Running
  BY <1>1 DEF Queue, Running
<1>3. CASE Refused(c, r) \/ StartDirect(c, r)
  BY <1>1, <1>3 DEF Refused, StartDirect, TypeOK, Settles, Queue, Running, queueing, Requests
<1>4. CASE SubmitBusy(c, r)
  <2>1. state' = [AfterExpiry EXCEPT ![r] = "busy"] /\ active' = active
    BY <1>4 DEF SubmitBusy
  <2>2. Queue' = Left /\ Running' = Running
    BY <1>2, <2>1, ExpiryEffect DEF Queue, Running, Left, Requests
  <2> QED
    BY <2>1, <2>2 DEF Settles, Left
<1>5. CASE SubmitRuns(c, r)
  <2>1. /\ state' = [AfterExpiry EXCEPT ![r] = "running"] /\ active' = active + 1
        /\ SlotFree /\ r \in Sandbox
    BY <1>5 DEF SubmitRuns, Submitted, SlotTaken
  <2>2. Queue' = Left /\ Running' = Running \union {r}
    BY <1>2, <2>1, ExpiryEffect DEF Queue, Running, Left, Requests
  <2> QED
    BY <1>2, <2>1, <2>2 DEF Dispatches
<1>6. CASE SubmitWaits(c, r)
  <2>1. /\ state' = [AfterExpiry EXCEPT ![r] = "queued"] /\ active' = active
        /\ ~Full /\ ~SlotFree /\ r \in Sandbox
    BY <1>6 DEF SubmitWaits, Submitted
  <2>2. Queue' = Left \union {r} /\ Running' = Running
    BY <1>2, <2>1, ExpiryEffect DEF Queue, Running, Left, Requests
  <2> QED
    BY <1>2, <2>1, <2>2 DEF Waits
<1> QED
  BY <1>3, <1>4, <1>5, <1>6 DEF SubmitStep

LEMMA PumpMoves ==
  ASSUME TypeOK, NEW r \in Requests, WorkEnds(r)
  PROVE  r \in Running /\ \E S \in SUBSET Left : Frees(r, S)
<1>1. PICK S \in SUBSET Left :
        /\ Pumps(S)
        /\ state' = [s \in Requests |-> IF s = r THEN "ran"
                                        ELSE IF s \in S THEN "running" ELSE AfterExpiry[s]]
        /\ active' = (active - 1) + Cardinality(S)
  BY DEF WorkEnds
<1>2. r \in Running /\ r \notin Left
  BY DEF WorkEnds, Left, Queue, Running
<1>3. Queue' = Left \ S
  BY <1>1, <1>2, ExpiryEffect DEF Queue, Left, Requests
<1>4. Running' = (Running \ {r}) \union S
  BY <1>1, <1>2, ExpiryEffect DEF Running, Left, Queue, Requests
<1> QED
  BY <1>1, <1>2, <1>3, <1>4 DEF Frees

LEMMA EveryStepMoves ==
  ASSUME TypeOK, [Next]_vars
  PROVE  Moves
<1>1. CASE \E c \in Connections : ConnectionStep(c)
  BY <1>1, ConnectionMoves DEF Moves
<1>2. CASE \E c \in Connections, r \in Requests : SubmitStep(c, r)
  BY <1>2, SubmitMoves DEF Moves
<1>3. CASE \E r \in Requests : WorkEnds(r)
  BY <1>3, PumpMoves DEF Moves
<1>4. CASE Tick
  <2>1. Queue' = Left /\ Running' = Running /\ active' = active
    BY <1>4, ExpiryEffect DEF Tick, Queue, Running, Left, Requests
  <2> QED
    BY <2>1 DEF Moves, Settles, Left
<1>5. ASSUME NEW r \in Requests, ProvisionEnds(r) \/ StopFlushed(r)
      PROVE  Moves
  <2>1. state[r] = "direct" /\ state' = [state EXCEPT ![r] = "ran"] /\ active' = active
    BY <1>5 DEF ProvisionEnds, StopFlushed, queueing
  <2> QED
    BY <2>1 DEF Moves, Settles, Queue, Running, TypeOK, Requests
<1>6. CASE state' = state /\ active' = active
  BY <1>6 DEF Moves, Settles, Queue, Running
<1>7. DrainStep \/ UNCHANGED vars \/ (\E r \in Requests : DeadlinePasses(r)) => <1>6!1
  BY DEF DrainStep, Signal, Drain, GracePasses, GraceEnds, FlushWaitEnds, DestroyAll, Stopped,
     DeadlinePasses, vars, requests, queueing
<1> QED
  BY <1>1, <1>2, <1>3, <1>4, <1>5, <1>6, <1>7 DEF Next, RequestStep

-----------------------------------------------------------------------------
(* The limits *)

Seats == Bounded /\ NoIdleSlot

LEMMA SeatsInit == Init => Seats
<1> SUFFICES ASSUME Init PROVE Seats
  OBVIOUS
<1>1. Queue = {} /\ Running = {} /\ active = 0
  BY DEF Init, Queue, Running, Requests
<1> QED
  BY <1>1, FS_EmptySet, LimitsAssumption DEF Seats, Bounded, NoIdleSlot

LEMMA SeatsStep ==
  ASSUME TypeOK, Seats, Moves
  PROVE  Seats'
<1> USE LimitsAssumption
<1>1. CASE Settles
  <2>1. Cardinality(Queue') <= Cardinality(Queue) /\ Cardinality(Queue') \in Nat
    BY <1>1, FiniteSets, FS_Subset, FS_CardinalityType DEF Settles
  <2>2. Queue' # {} => Queue # {}
    BY <1>1 DEF Settles
  <2> QED
    BY <1>1, <2>1, <2>2, FiniteSets DEF Settles, Seats, Bounded, NoIdleSlot
<1>2. Cardinality(Left) <= Cardinality(Queue)
  BY FiniteSets, FS_Subset DEF Left
<1>3. ASSUME NEW r \in Sandbox \ (Queue \union Running), Dispatches(r)
      PROVE  Seats'
  <2>1. Cardinality(Running') = Cardinality(Running) + 1
    BY <1>3, FiniteSets, FS_AddElement DEF Dispatches
  <2>2. active < Cap
    BY <1>3 DEF Dispatches, SlotFree
  <2>3. Queue' = {}
    BY <1>3, <2>2 DEF Dispatches, Seats, NoIdleSlot, Left, TypeOK
  <2> QED
    BY <1>3, <2>1, <2>2, <2>3, FS_EmptySet DEF Dispatches, Seats, Bounded, NoIdleSlot, TypeOK
<1>4. ASSUME NEW r \in Sandbox \ (Queue \union Running), Waits(r)
      PROVE  Seats'
  <2>1. active = Cap
    BY <1>4 DEF Waits, SlotFree, Seats, Bounded, TypeOK
  <2>2. Cardinality(Left) < Capacity
    BY <1>4, <2>1, FiniteSets DEF Waits, Full
  <2>3. Cardinality(Queue') = Cardinality(Left) + 1
    BY <1>4, FiniteSets, FS_AddElement DEF Waits, Left
  <2> QED
    BY <1>4, <2>1, <2>2, <2>3, FiniteSets DEF Waits, Seats, Bounded, NoIdleSlot
<1>5. ASSUME NEW r \in Running, NEW S \in SUBSET Left, Frees(r, S)
      PROVE  Seats'
  <2>1. IsFiniteSet(S) /\ Cardinality(S) \in Nat /\ Cardinality(S) <= Cap - (active - 1)
    BY <1>5, FiniteSets, FS_Subset, FS_CardinalityType DEF Frees, Pumps
  <2>2. Cardinality(Running') = active'
    <3>1. (Running \ {r}) \cap S = {}
      BY DEF Left, Queue, Running
    <3>2. /\ IsFiniteSet(Running \ {r})
          /\ Cardinality(Running \ {r}) = active - 1
      BY <1>5, FiniteSets, FS_RemoveElement DEF Seats, Bounded
    <3>3. Cardinality((Running \ {r}) \union S) = (active - 1) + Cardinality(S)
      <4>1. Cardinality((Running \ {r}) \union S)
              = Cardinality(Running \ {r}) + Cardinality(S) - Cardinality({})
        BY <2>1, <3>1, <3>2, FS_Union
      <4> QED
        BY <2>1, <3>2, <4>1, FS_EmptySet DEF TypeOK
    <3> QED
      BY <1>5, <3>3 DEF Frees
  <2>3. active' <= Cap
    BY <1>5, <2>1 DEF Frees, TypeOK
  <2>4. Cardinality(Queue') <= Capacity
    <3>1. IsFiniteSet(Left \ S) /\ Cardinality(Left \ S) <= Cardinality(Left)
      BY FiniteSets, FS_Subset
    <3>2. Cardinality(Left \ S) \in Nat
      BY <3>1, FS_CardinalityType
    <3>3. Cardinality(Left \ S) <= Capacity
      BY <1>2, <3>1, <3>2, FiniteSets DEF Seats, Bounded
    <3> QED
      BY <1>5, <3>3 DEF Frees
  <2>5. Queue' # {} => active' = Cap
    BY <1>5, <2>1 DEF Frees, Pumps, TypeOK
  <2> QED
    BY <2>2, <2>3, <2>4, <2>5 DEF Seats, Bounded, NoIdleSlot
<1> QED
  BY <1>1, <1>3, <1>4, <1>5 DEF Moves

LEMMA TypeStep ==
  ASSUME TypeOK, Seats, [Next]_vars
  PROVE  TypeOK'
<1>1. CASE \E c \in Connections : ConnectionStep(c)
  BY <1>1, ConnectionTypes
<1>2. CASE \E c \in Connections, r \in Requests : SubmitStep(c, r)
  BY <1>2, SubmitTypes
<1>3. ASSUME NEW r \in Requests, WorkEnds(r)
      PROVE  TypeOK'
  <2>1. r \in Running
    BY <1>3 DEF WorkEnds
  <2>2. active # 0
    BY <2>1, FiniteSets, FS_EmptySet DEF Seats, Bounded
  <2> QED
    BY <1>3, <2>2, PumpTypes DEF TypeOK
<1>4. CASE \/ Tick \/ DrainStep
           \/ \E r \in Requests : DeadlinePasses(r) \/ ProvisionEnds(r) \/ StopFlushed(r)
  BY <1>4, OtherTypes
<1>5. CASE UNCHANGED vars
  BY <1>5 DEF vars, sockets, requests, queueing, shutdown, TypeOK, Queue
<1> QED
  BY <1>1, <1>2, <1>3, <1>4, <1>5 DEF Next, RequestStep

LEMMA SeatsHold == Spec => [](TypeOK /\ Seats)
<1>1. Init => TypeOK /\ Seats
  BY TypeInit, SeatsInit
<1>2. TypeOK /\ Seats /\ [Next]_vars => TypeOK' /\ Seats'
  BY TypeStep, SeatsStep, EveryStepMoves
<1> QED
  BY <1>1, <1>2, PTL DEF Spec

\* The daemon's connections, requests, queue and drain stay what their types
\* say: the slot counter never goes below zero, and only a waiting entry has a
\* passed admission deadline.
THEOREM TypeCorrect == Spec => []TypeOK
BY SeatsHold, PTL

\* ExecutionQueue drives at most CONCURRENCY_CAP executions at once and holds
\* at most QUEUE_CAPACITY more, and its counter is exact.
THEOREM LimitsHold == Spec => []Bounded
<1>1. Seats => Bounded
  BY DEF Seats
<1> QED
  BY <1>1, SeatsHold, PTL

\* ExecutionQueue never keeps anybody waiting beside a free slot, so a waiting
\* entry always has a completion ahead of it that will pump it.
THEOREM NobodyIsStranded == Spec => []NoIdleSlot
<1>1. Seats => NoIdleSlot
  BY DEF Seats
<1> QED
  BY <1>1, SeatsHold, PTL

-----------------------------------------------------------------------------
(* What was begun *)

LEMMA BegunStep ==
  ASSUME TypeOK, Begun, [Next]_vars
  PROVE  Begun'
<1>1. CASE started' = started /\ \A s \in started : state'[s] = state[s] \/ state'[s] = "ran"
  BY <1>1 DEF Begun
<1>2. \A s \in started : s \notin Queue /\ state[s] # "unsent"
  BY DEF Begun, Queue
<1>3. CASE \E c \in Connections : ConnectionStep(c)
  BY <1>1, <1>2, <1>3 DEF ConnectionStep, Connect, Handshake, HandshakeRefused, SocketLost,
     SocketCloses, Flush, requests, Abandoned, TypeOK
<1>4. ASSUME NEW c \in Connections, NEW r \in Requests, SubmitStep(c, r)
      PROVE  Begun'
  <2>1. state[r] = "unsent"
    BY <1>4 DEF SubmitStep, Refused, SubmitBusy, SubmitRuns, SubmitWaits, StartDirect,
       Submitted, Arrives
  <2>2. CASE Refused(c, r) \/ StartDirect(c, r)
    BY <1>2, <2>1, <2>2 DEF Refused, StartDirect, Begun, TypeOK
  <2>3. CASE SubmitBusy(c, r) \/ SubmitRuns(c, r) \/ SubmitWaits(c, r)
    <3>1. \A s \in started : AfterExpiry[s] = state[s]
      BY <1>2, ExpiryEffect DEF TypeOK
    <3> QED
      BY <1>2, <2>1, <2>3, <3>1, ExpiryEffect DEF SubmitBusy, SubmitRuns, SubmitWaits, Begun,
         TypeOK
  <2> QED
    BY <1>4, <2>2, <2>3 DEF SubmitStep
<1>5. ASSUME NEW r \in Requests, WorkEnds(r)
      PROVE  Begun'
  <2>1. PICK S \in SUBSET Left :
          /\ state' = [s \in Requests |-> IF s = r THEN "ran"
                                          ELSE IF s \in S THEN "running" ELSE AfterExpiry[s]]
          /\ started' = started \union S
    BY <1>5 DEF WorkEnds
  <2>2. S \subseteq Requests
    BY DEF Left, Queue, Requests
  <2>3. \A s \in started : AfterExpiry[s] = state[s]
    BY <1>2, ExpiryEffect DEF TypeOK
  <2> QED
    BY <2>1, <2>2, <2>3 DEF Begun, TypeOK
<1>6. CASE Tick
  BY <1>1, <1>2, <1>6, ExpiryEffect DEF Tick, TypeOK
<1>7. CASE \E r \in Requests : ProvisionEnds(r) \/ StopFlushed(r)
  BY <1>1, <1>7 DEF ProvisionEnds, StopFlushed, TypeOK
<1>8. CASE DrainStep \/ UNCHANGED vars \/ \E r \in Requests : DeadlinePasses(r)
  BY <1>1, <1>8 DEF DrainStep, Signal, GracePasses, GraceEnds, FlushWaitEnds, DestroyAll,
     Stopped, DeadlinePasses, vars, requests
<1> QED
  BY <1>3, <1>4, <1>5, <1>6, <1>7, <1>8 DEF Next, RequestStep

LEMMA BegunHolds == Spec => []Begun
<1>1. Init => Begun
  BY DEF Init, Begun
<1>2. TypeOK /\ Begun /\ [Next]_vars => Begun'
  BY BegunStep
<1> QED
  BY <1>1, <1>2, TypeCorrect, PTL DEF Spec

\* A busy, expired or refused answer, and the line the daemon logs for an
\* abandoned entry, are the truth for good: the work never began and never will.
THEOREM RefusalIsTrue == Spec => []NotRunIsTrue
<1>1. Begun => NotRunIsTrue
  BY DEF Begun, NotRunIsTrue
<1> QED
  BY <1>1, BegunHolds, PTL

-----------------------------------------------------------------------------
(* Who it was begun for *)

Charged == Sent /\ Authorised

LEMMA ChargedStep ==
  ASSUME TypeOK, Begun, Charged, [Next]_vars
  PROVE  Charged'
<1>1. ASSUME UNCHANGED <<role, via, started>>, Queue' \subseteq Queue,
             \A r \in Requests : state'[r] # "unsent" => state[r] # "unsent"
      PROVE  Charged'
  BY <1>1 DEF Charged, Sent, Authorised
<1>2. \A s \in started \union Queue :
        s \in Requests /\ via[s] \in Connections /\ role[via[s]] # "none"
  BY DEF Begun, Charged, Sent, Authorised, Permits, TypeOK, Queue, Requests
<1>3. ASSUME NEW c \in Connections, ConnectionStep(c)
      PROVE  Charged'
  <2>1. CASE Handshake(c)
    <3>1. /\ role[c] = "none" /\ UNCHANGED <<via, started, state>>
          /\ \E grant \in Roles : role' = [role EXCEPT ![c] = grant]
      BY <2>1 DEF Handshake, MayHandshake, requests
    <3>2. \A s \in started \union Queue : role'[via[s]] = role[via[s]]
      BY <1>2, <3>1 DEF TypeOK
    <3>3. Queue' = Queue
      BY <3>1 DEF Queue
    <3> QED
      BY <3>1, <3>2, <3>3 DEF Charged, Sent, Authorised
  <2>2. CASE SocketCloses(c)
    BY <1>1, <2>2, <1>3, ConnectionMoves DEF SocketCloses, Abandoned, Queue, Settles
  <2> QED
    BY <1>1, <1>3, <2>1, <2>2 DEF ConnectionStep, Connect, HandshakeRefused, SocketLost, Flush,
       requests, Queue
<1>4. ASSUME NEW c \in Connections, NEW r \in Requests, SubmitStep(c, r)
      PROVE  Charged'
  <2>1. state[r] = "unsent" /\ via' = [via EXCEPT ![r] = c] /\ role' = role
    BY <1>4 DEF SubmitStep, Refused, SubmitBusy, SubmitRuns, SubmitWaits, StartDirect,
       Submitted, Arrives, sockets
  <2>2. r \notin started \union Queue
    BY <2>1 DEF Begun, Queue
  <2>3. \A s \in Requests \ {r} : state'[s] # "unsent" => state[s] # "unsent"
    BY <1>4, ExpiryEffect DEF SubmitStep, Refused, SubmitBusy, SubmitRuns, SubmitWaits,
       StartDirect, TypeOK
  <2>4. \/ (started \union Queue)' \subseteq started \union Queue
        \/ /\ (started \union Queue)' \subseteq (started \union Queue) \union {r}
           /\ Permits(role[c], r)
    <3>1. started' = started \/ (started' = started \union {r} /\ Permits(role[c], r))
      BY <1>4 DEF SubmitStep, Refused, SubmitBusy, SubmitRuns, SubmitWaits, StartDirect,
         Submitted
    <3>2. CASE Settles
      BY <3>1, <3>2 DEF Settles
    <3>3. CASE Dispatches(r) \/ Waits(r)
      <4>1. Permits(role[c], r)
        <5>1. ~Refused(c, r)
          BY <2>1, <3>3 DEF Refused, Dispatches, Waits, Queue, Running, TypeOK, Requests
        <5> QED
          BY <1>4, <5>1 DEF SubmitStep, SubmitBusy, SubmitRuns, SubmitWaits, StartDirect,
             Submitted
      <4> QED
        BY <3>1, <3>3, <4>1 DEF Dispatches, Waits, Left
    <3> QED
      BY <1>4, <3>2, <3>3, SubmitMoves
  <2>5. Sent'
    BY <2>1, <2>3 DEF Charged, Sent, TypeOK
  <2>6. Authorised'
    BY <1>2, <2>1, <2>2, <2>4 DEF Charged, Authorised, TypeOK
  <2> QED
    BY <2>5, <2>6 DEF Charged
<1>5. ASSUME NEW r \in Requests, WorkEnds(r)
      PROVE  Charged'
  <2>1. PICK S \in SUBSET Left :
          /\ state' = [s \in Requests |-> IF s = r THEN "ran"
                                          ELSE IF s \in S THEN "running" ELSE AfterExpiry[s]]
          /\ started' = started \union S
    BY <1>5 DEF WorkEnds
  <2>2. \A s \in S : s \in Queue
    BY DEF Left
  <2>3. r \in Running /\ UNCHANGED <<via, role>>
    BY <1>5 DEF WorkEnds, sockets
  <2>4. Sent'
    BY <2>1, <2>2, <2>3, ExpiryEffect DEF Charged, Sent, Running, Queue
  <2>5. Queue' \subseteq Queue
    BY <1>5, PumpMoves DEF Frees, Left
  <2> QED
    BY <2>1, <2>2, <2>3, <2>4, <2>5 DEF Charged, Authorised
<1>6. CASE Tick
  <2>1. Queue' \subseteq Queue
    BY <1>6, ExpiryEffect DEF Tick, Queue, Left, Requests
  <2> QED
    BY <1>1, <1>6, <2>1, ExpiryEffect DEF Tick, sockets
<1>7. ASSUME NEW r \in Requests, ProvisionEnds(r) \/ StopFlushed(r)
      PROVE  Charged'
  <2>1. /\ state[r] = "direct" /\ state' = [state EXCEPT ![r] = "ran"]
        /\ UNCHANGED <<role, via, started>>
    BY <1>7 DEF ProvisionEnds, StopFlushed, sockets
  <2> QED
    BY <1>1, <2>1 DEF Queue, Requests, TypeOK
<1>8. CASE DrainStep \/ UNCHANGED vars \/ \E r \in Requests : DeadlinePasses(r)
  BY <1>1, <1>8 DEF DrainStep, Signal, GracePasses, GraceEnds, FlushWaitEnds, DestroyAll,
     Stopped, DeadlinePasses, vars, requests, sockets, Queue
<1> QED
  BY <1>3, <1>4, <1>5, <1>6, <1>7, <1>8 DEF Next, RequestStep

LEMMA ChargedHolds == Spec => []Charged
<1>1. Init => Charged
  BY DEF Init, Charged, Sent, Authorised, Queue, Requests
<1>2. TypeOK /\ Begun /\ Charged /\ [Next]_vars => Charged'
  BY ChargedStep
<1> QED
  BY <1>1, <1>2, TypeCorrect, BegunHolds, PTL DEF Spec

\* No work is begun for a connection whose one handshake did not permit its
\* kind, however long the work waited in the queue and whatever the connection
\* asked for meanwhile.
THEOREM NothingOutOfRole == Spec => []WithinCapability
<1>1. Charged => WithinCapability
  BY DEF Charged, Authorised, WithinCapability
<1> QED
  BY <1>1, ChargedHolds, PTL

-----------------------------------------------------------------------------
(* In which order *)

Ordered == TicketsDrawn /\ NoOvertaking

LEMMA OrderedStep ==
  ASSUME TypeOK, Seats, Begun, Ordered, [Next]_vars
  PROVE  Ordered'
<1>1. ASSUME UNCHANGED <<ticket, arrived, started>>, Queue' \subseteq Queue
      PROVE  Ordered'
  BY <1>1 DEF Ordered, TicketsDrawn, NoOvertaking
<1>2. ASSUME NEW c \in Connections, ConnectionStep(c)
      PROVE  Ordered'
  BY <1>1, <1>2, ConnectionMoves DEF ConnectionStep, Connect, Handshake, HandshakeRefused,
     SocketLost, SocketCloses, Flush, requests, Settles
<1>3. ASSUME NEW c \in Connections, NEW r \in Requests, SubmitStep(c, r)
      PROVE  Ordered'
  <2>1. CASE Refused(c, r)
    BY <1>1, <2>1 DEF Refused, Arrives, TypeOK, Queue, Requests
  <2>2. CASE StartDirect(c, r)
    <3>1. /\ state[r] = "unsent" /\ state' = [state EXCEPT ![r] = "direct"]
          /\ r \in Provisions \union Stops /\ started' = started \union {r}
          /\ UNCHANGED <<ticket, arrived>>
      BY <2>2 DEF StartDirect, Arrives
    <3>2. Queue' \subseteq Queue /\ r \notin Sandbox
      BY <3>1, KindsAssumption DEF Queue, Sandbox, Requests, TypeOK
    <3> QED
      BY <3>1, <3>2 DEF Ordered, TicketsDrawn, NoOvertaking
  <2>3. CASE SubmitBusy(c, r) \/ SubmitRuns(c, r) \/ SubmitWaits(c, r)
    <3>1. /\ r \in Sandbox /\ state[r] = "unsent" /\ r \notin started
          /\ ticket' = [ticket EXCEPT ![r] = arrived + 1] /\ arrived' = arrived + 1
      BY <2>3 DEF SubmitBusy, SubmitRuns, SubmitWaits, Submitted, Arrives, Begun
    <3>2. /\ \A s \in Sandbox : ticket'[s] = IF s = r THEN arrived + 1 ELSE ticket[s]
          /\ \A s \in Sandbox : ticket[s] \in Nat /\ ticket[s] <= arrived
          /\ arrived \in Nat
      BY <3>1 DEF TypeOK, Requests, Ordered, TicketsDrawn
    <3>3. TicketsDrawn'
      BY <3>1, <3>2 DEF TicketsDrawn
    <3>4. NoOvertaking'
      <4>1. CASE SubmitBusy(c, r)
        <5>1. started' = started /\ Queue' \subseteq Queue /\ r \notin Queue
          BY <3>1, <4>1, ExpiryEffect DEF SubmitBusy, Queue, Left, Requests
        <5> QED
          BY <3>1, <3>2, <5>1 DEF Ordered, NoOvertaking, Queue
      <4>2. CASE SubmitRuns(c, r)
        <5>1. active < Cap /\ Queue = {}
          BY <4>2, LimitsAssumption DEF SubmitRuns, SlotFree, Seats, NoIdleSlot, TypeOK
        <5>2. Left = {}
          BY <5>1 DEF Left
        <5>3. Queue' = {}
          BY <4>2, <5>2, ExpiryEffect DEF SubmitRuns, Queue, Requests
        <5> QED
          BY <5>3 DEF NoOvertaking
      <4>3. CASE SubmitWaits(c, r)
        <5>1. started' = started /\ Queue' \subseteq Queue \union {r}
          BY <3>1, <4>3, ExpiryEffect DEF SubmitWaits, Queue, Left, Requests
        <5>2. ASSUME NEW early \in Queue', NEW late \in Sandbox, ticket'[late] > ticket'[early]
              PROVE  late \notin started
          <6>1. CASE late = r
            BY <3>1, <6>1
          <6>2. CASE early = r /\ late # r
            BY <3>1, <3>2, <5>2, <6>2
          <6>3. CASE early # r /\ late # r
            <7>1. early \in Queue /\ early \in Sandbox
              BY <5>1, <5>2, <6>3 DEF Queue
            <7>2. ticket[late] > ticket[early]
              BY <3>2, <5>2, <6>3, <7>1
            <7> QED
              BY <7>1, <7>2 DEF Ordered, NoOvertaking
          <6> QED
            BY <6>1, <6>2, <6>3
        <5> QED
          BY <5>1, <5>2 DEF NoOvertaking
      <4> QED
        BY <2>3, <4>1, <4>2, <4>3
    <3> QED
      BY <3>3, <3>4 DEF Ordered
  <2> QED
    BY <1>3, <2>1, <2>2, <2>3 DEF SubmitStep
<1>4. ASSUME NEW r \in Requests, WorkEnds(r)
      PROVE  Ordered'
  <2>1. PICK S \in SUBSET Left :
          /\ Pumps(S)
          /\ state' = [s \in Requests |-> IF s = r THEN "ran"
                                          ELSE IF s \in S THEN "running" ELSE AfterExpiry[s]]
          /\ started' = started \union S
    BY <1>4 DEF WorkEnds
  <2>2. UNCHANGED <<ticket, arrived>>
    BY <1>4 DEF WorkEnds
  <2>3. Queue' \subseteq Left \ S
    BY <2>1, ExpiryEffect DEF Queue, Requests
  <2>4. \A n \in S, o \in Left \ S : ticket[n] < ticket[o]
    BY <2>1 DEF Pumps, Oldest
  <2>5. \A s \in Sandbox : ticket[s] \in Nat
    BY DEF TypeOK, Requests
  <2>6. ASSUME NEW early \in Queue', NEW late \in Sandbox, ticket[late] > ticket[early]
        PROVE  late \notin started \union S
    <3>1. early \in Left \ S /\ early \in Queue /\ early \in Sandbox
      BY <2>3, <2>6 DEF Left, Queue
    <3>2. late \notin S
      BY <2>4, <2>5, <2>6, <3>1
    <3> QED
      BY <2>6, <3>1, <3>2 DEF Ordered, NoOvertaking
  <2> QED
    BY <2>1, <2>2, <2>6 DEF Ordered, TicketsDrawn, NoOvertaking
<1>5. CASE Tick
  <2>1. Queue' \subseteq Queue
    BY <1>5, ExpiryEffect DEF Tick, Queue, Left, Requests
  <2> QED
    BY <1>1, <1>5, <2>1 DEF Tick
<1>6. ASSUME NEW r \in Requests, ProvisionEnds(r) \/ StopFlushed(r)
      PROVE  Ordered'
  <2>1. /\ state[r] = "direct" /\ state' = [state EXCEPT ![r] = "ran"]
        /\ UNCHANGED <<ticket, arrived, started>>
    BY <1>6 DEF ProvisionEnds, StopFlushed
  <2> QED
    BY <1>1, <2>1 DEF Queue, Requests, TypeOK
<1>7. CASE DrainStep \/ UNCHANGED vars \/ \E r \in Requests : DeadlinePasses(r)
  BY <1>1, <1>7 DEF DrainStep, Signal, GracePasses, GraceEnds, FlushWaitEnds, DestroyAll,
     Stopped, DeadlinePasses, vars, requests, Queue
<1> QED
  BY <1>2, <1>3, <1>4, <1>5, <1>6, <1>7 DEF Next, RequestStep

LEMMA OrderedHolds == Spec => []Ordered
<1>1. Init => Ordered
  BY DEF Init, Ordered, TicketsDrawn, NoOvertaking, Queue, Requests
<1>2. TypeOK /\ Seats /\ Begun /\ Ordered /\ [Next]_vars => Ordered'
  BY OrderedStep
<1> QED
  BY <1>1, <1>2, SeatsHold, BegunHolds, PTL DEF Spec

\* ExecutionQueue is first come, first served: no later arrival is begun while
\* an earlier one still waits, whatever expires or is abandoned in between.
THEOREM FirstComeFirstServed == Spec => []NoOvertaking
<1>1. Ordered => NoOvertaking
  BY DEF Ordered
<1> QED
  BY <1>1, OrderedHolds, PTL

-----------------------------------------------------------------------------
(* Who has gone *)

LEMMA GoneStep ==
  ASSUME TypeOK, Begun, Charged, GoneHoldsNothing, [Next]_vars
  PROVE  GoneHoldsNothing'
<1>1. ASSUME UNCHANGED via, Queue' \subseteq Queue,
             \A c \in Connections : conn'[c] = "closed" => conn[c] = "closed"
      PROVE  GoneHoldsNothing'
  <2>1. \A r \in Queue : r \in Requests /\ via[r] \in Connections
    BY DEF Charged, Sent, Queue, Requests
  <2> QED
    BY <1>1, <2>1 DEF GoneHoldsNothing
<1>2. ASSUME NEW c \in Connections, ConnectionStep(c)
      PROVE  GoneHoldsNothing'
  <2>1. Queue' \subseteq Queue
    BY <1>2, ConnectionMoves DEF Settles
  <2>2. CASE SocketCloses(c)
    <3>1. /\ UNCHANGED via /\ conn' = [conn EXCEPT ![c] = "closed"]
          /\ \A r \in Abandoned(c) : r \in Requests => state'[r] = "abandoned"
      BY <2>2 DEF SocketCloses
    <3>2. \A r \in Queue' : r \in Requests /\ via[r] # c /\ via[r] \in Connections
      BY <2>1, <3>1 DEF Queue, Abandoned, Requests, Charged, Sent
    <3> QED
      BY <2>1, <3>1, <3>2 DEF GoneHoldsNothing, TypeOK
  <2>3. CASE Connect(c) \/ Handshake(c) \/ HandshakeRefused(c) \/ SocketLost(c) \/ Flush(c)
    <3>1. UNCHANGED via /\ \A d \in Connections : conn'[d] = "closed" => conn[d] = "closed"
      BY <2>3 DEF Connect, Handshake, HandshakeRefused, SocketLost, Flush, Ended, requests, TypeOK
    <3> QED
      BY <1>1, <2>1, <3>1
  <2> QED
    BY <1>2, <2>2, <2>3 DEF ConnectionStep
<1>3. ASSUME NEW c \in Connections, NEW r \in Requests, SubmitStep(c, r)
      PROVE  GoneHoldsNothing'
  <2>1. /\ conn' = conn /\ conn[c] # "closed" /\ via' = [via EXCEPT ![r] = c]
    BY <1>3 DEF SubmitStep, Refused, SubmitBusy, SubmitRuns, SubmitWaits, StartDirect,
       Submitted, Arrives, sockets, Live
  <2>2. Queue' \subseteq Queue \union {r}
    BY <1>3, SubmitMoves DEF Settles, Dispatches, Waits, Left
  <2>3. \A s \in Queue \union {r} : s \in Requests
    BY DEF Queue, Requests
  <2>4. \A s \in Queue' : via'[s] = IF s = r THEN c ELSE via[s]
    BY <2>1, <2>2, <2>3 DEF TypeOK
  <2> QED
    BY <2>1, <2>2, <2>4 DEF GoneHoldsNothing
<1>4. ASSUME NEW r \in Requests, WorkEnds(r)
      PROVE  GoneHoldsNothing'
  BY <1>1, <1>4, PumpMoves DEF WorkEnds, Frees, Left, sockets
<1>5. CASE Tick
  <2>1. Queue' \subseteq Queue
    BY <1>5, ExpiryEffect DEF Tick, Queue, Left, Requests
  <2> QED
    BY <1>1, <1>5, <2>1 DEF Tick, sockets
<1>6. ASSUME NEW r \in Requests, ProvisionEnds(r) \/ StopFlushed(r)
      PROVE  GoneHoldsNothing'
  <2>1. /\ state[r] = "direct" /\ state' = [state EXCEPT ![r] = "ran"] /\ UNCHANGED via
    BY <1>6 DEF ProvisionEnds, StopFlushed
  <2>2. Queue' \subseteq Queue
    BY <2>1 DEF Queue, Requests, TypeOK
  <2>3. \A d \in Connections : conn'[d] = "closed" => conn[d] = "closed"
    BY <1>6 DEF ProvisionEnds, StopFlushed, AfterStop, sockets, TypeOK
  <2> QED
    BY <1>1, <2>1, <2>2, <2>3
<1>7. CASE DrainStep \/ UNCHANGED vars \/ \E r \in Requests : DeadlinePasses(r)
  <2>1. UNCHANGED <<via, state>>
    BY <1>7 DEF DrainStep, Signal, GracePasses, GraceEnds, FlushWaitEnds, DestroyAll,
       Stopped, DeadlinePasses, vars, requests
  <2>2. \A d \in Connections : conn'[d] = "closed" => conn[d] = "closed"
    BY <1>7 DEF DrainStep, Signal, GracePasses, GraceEnds, FlushWaitEnds, DestroyAll,
       Stopped, DeadlinePasses, vars, sockets, Ended
  <2> QED
    BY <1>1, <2>1, <2>2 DEF Queue
<1> QED
  BY <1>2, <1>3, <1>4, <1>5, <1>6, <1>7 DEF Next, RequestStep

\* A client that disconnected holds none of the queue's places: the close
\* handler removed its entries, and nothing can put one back.
THEOREM TheGoneHoldNothing == Spec => []GoneHoldsNothing
<1>1. Init => GoneHoldsNothing
  BY DEF Init, GoneHoldsNothing, Queue, Requests
<1>2. TypeOK /\ Begun /\ Charged /\ GoneHoldsNothing /\ [Next]_vars => GoneHoldsNothing'
  BY GoneStep
<1> QED
  BY <1>1, <1>2, TypeCorrect, BegunHolds, ChargedHolds, PTL DEF Spec

-----------------------------------------------------------------------------
(* The drain *)

LEMMA LeftEarlyStep ==
  ASSUME TypeOK, Seats, LeftEarly, [Next]_vars
  PROVE  LeftEarly'
<1> DEFINE Late == phase \in {"flushing", "closing", "stopped"}
<1>1. ASSUME UNCHANGED <<draining, phase>>, graceOver => graceOver',
             Live' \subseteq Live \/ ~Late, Queue' \subseteq Queue, Running' \subseteq Running
      PROVE  LeftEarly'
  BY <1>1 DEF LeftEarly
<1>2. ASSUME NEW c \in Connections, ConnectionStep(c)
      PROVE  LeftEarly'
  <2>1. Queue' \subseteq Queue /\ Running' \subseteq Running
    BY <1>2, ConnectionMoves DEF Settles
  <2>2. UNCHANGED <<draining, phase, graceOver>>
    BY <1>2 DEF ConnectionStep, Connect, Handshake, HandshakeRefused, SocketLost, SocketCloses,
       Flush, shutdown
  <2>3. Live' \subseteq Live \/ ~Late
    BY <1>2 DEF ConnectionStep, Connect, Handshake, HandshakeRefused, SocketLost, SocketCloses,
       Flush, Ended, Live, LeftEarly, TypeOK
  <2> QED
    BY <1>1, <2>1, <2>2, <2>3
<1>3. ASSUME NEW c \in Connections, NEW r \in Requests, SubmitStep(c, r)
      PROVE  LeftEarly'
  <2>1. c \in Live /\ UNCHANGED <<draining, phase, graceOver>>
    BY <1>3 DEF SubmitStep, Refused, SubmitBusy, SubmitRuns, SubmitWaits, StartDirect,
       Submitted, Arrives, shutdown
  <2> QED
    BY <2>1 DEF LeftEarly
<1>4. ASSUME NEW r \in Requests, WorkEnds(r)
      PROVE  LeftEarly'
  <2>1. r \in Running /\ UNCHANGED <<draining, phase, graceOver>>
    BY <1>4 DEF WorkEnds, shutdown
  <2> QED
    BY <2>1 DEF LeftEarly
<1>5. CASE Tick
  <2>1. Queue' \subseteq Queue /\ Running' \subseteq Running
    BY <1>5, ExpiryEffect DEF Tick, Queue, Left, Running, Requests
  <2> QED
    BY <1>1, <1>5, <2>1 DEF Tick, sockets, shutdown, Live
<1>6. ASSUME NEW r \in Requests, ProvisionEnds(r) \/ StopFlushed(r)
      PROVE  LeftEarly'
  <2>1. Queue' \subseteq Queue /\ Running' \subseteq Running
    BY <1>6 DEF ProvisionEnds, StopFlushed, Queue, Running, Requests, TypeOK
  <2>2. Live' \subseteq Live
    BY <1>6 DEF ProvisionEnds, StopFlushed, AfterStop, Live, sockets, TypeOK
  <2>3. CASE ProvisionEnds(r)
    BY <1>1, <2>1, <2>2, <2>3 DEF ProvisionEnds, shutdown
  <2>4. CASE StopFlushed(r)
    <3>1. /\ draining' = TRUE /\ graceOver' = graceOver
          /\ phase' = IF phase = "serving" THEN "draining" ELSE phase
      BY <2>4 DEF StopFlushed, Drain
    <3> QED
      BY <2>1, <2>2, <3>1 DEF LeftEarly
  <2> QED
    BY <1>6, <2>3, <2>4
<1>7. CASE DrainStep
  <2>1. UNCHANGED state
    BY <1>7 DEF DrainStep, Signal, GracePasses, GraceEnds, FlushWaitEnds, DestroyAll, Stopped,
       requests
  <2>2. Queue' = Queue /\ Running' = Running
    BY <2>1 DEF Queue, Running
  <2>3. CASE Signal
    BY <2>2, <2>3 DEF Signal, Drain, LeftEarly, sockets, Live
  <2>4. CASE GracePasses \/ FlushWaitEnds
    BY <1>1, <2>2, <2>4 DEF GracePasses, FlushWaitEnds, Ended, Live, sockets
  <2>5. CASE GraceEnds
    <3>1. NothingLeft => Live = {} /\ Running = {} /\ Queue = {}
      BY FiniteSets, FS_EmptySet DEF NothingLeft, Idle, Seats, Bounded
    <3> QED
      BY <2>2, <2>5, <3>1 DEF GraceEnds, GraceIsOver, LeftEarly, sockets, Live
  <2>6. CASE DestroyAll \/ Stopped
    <3>1. Live' \subseteq Live /\ Late /\ UNCHANGED <<draining, graceOver>>
      BY <2>6 DEF DestroyAll, Stopped, Live, sockets
    <3> QED
      BY <2>2, <2>6, <3>1 DEF DestroyAll, Stopped, LeftEarly
  <2> QED
    BY <1>7, <2>3, <2>4, <2>5, <2>6 DEF DrainStep
<1>8. CASE UNCHANGED vars \/ \E r \in Requests : DeadlinePasses(r)
  BY <1>1, <1>8 DEF DeadlinePasses, vars, requests, sockets, shutdown, Queue, Running, Live
<1> QED
  BY <1>2, <1>3, <1>4, <1>5, <1>6, <1>7, <1>8 DEF Next, RequestStep

LEMMA LeftEarlyHolds == Spec => []LeftEarly
<1>1. Init => LeftEarly
  BY DEF Init, LeftEarly
<1>2. TypeOK /\ Seats /\ LeftEarly /\ [Next]_vars => LeftEarly'
  BY LeftEarlyStep
<1> QED
  BY <1>1, <1>2, SeatsHold, PTL DEF Spec

\* Until the drain deadline, serve() cuts no connection that was sent READY:
\* it goes on only once they have all left.
THEOREM TheReadyAreHonoured == Spec => []ReadyIsHonoured
<1>1. LeftEarly => ReadyIsHonoured
  BY DEF LeftEarly, ReadyIsHonoured
<1> QED
  BY <1>1, LeftEarlyHolds, PTL

\* A daemon that stops before its drain deadline has finished every execution
\* it had admitted.
THEOREM EarlyStopIsClean == Spec => []NothingAbandonedEarly
<1>1. LeftEarly => NothingAbandonedEarly
  BY DEF LeftEarly, NothingAbandonedEarly
<1> QED
  BY <1>1, LeftEarlyHolds, PTL

-----------------------------------------------------------------------------
(* The expiry timer *)

LEMMA WatchStep ==
  ASSUME TypeOK, WaitIsWatched, [Next]_vars
  PROVE  WaitIsWatched'
<1>1. ASSUME UNCHANGED ticking, Queue' \subseteq Queue,
             phase \in {"closing", "stopped"} => phase' \in {"closing", "stopped"}
      PROVE  WaitIsWatched'
  BY <1>1 DEF WaitIsWatched
<1>2. ASSUME UNCHANGED phase, ticking' = KeptTicking, Queue' \subseteq Left
      PROVE  WaitIsWatched'
  BY <1>2 DEF WaitIsWatched, KeptTicking, Left
<1>3. ASSUME NEW c \in Connections, ConnectionStep(c)
      PROVE  WaitIsWatched'
  BY <1>1, <1>3, ConnectionMoves DEF ConnectionStep, Connect, Handshake, HandshakeRefused,
     SocketLost, SocketCloses, Flush, queueing, shutdown, Settles
<1>4. ASSUME NEW c \in Connections, NEW r \in Requests, SubmitStep(c, r)
      PROVE  WaitIsWatched'
  <2>1. CASE Refused(c, r) \/ StartDirect(c, r)
    <3>1. Queue' \subseteq Queue
      BY <2>1 DEF Refused, StartDirect, Queue, Requests, TypeOK
    <3> QED
      BY <1>1, <2>1, <3>1 DEF Refused, StartDirect, Arrives, queueing, shutdown
  <2>2. CASE SubmitBusy(c, r) \/ SubmitRuns(c, r)
    <3>1. Queue' \subseteq Left
      BY <2>2, ExpiryEffect DEF SubmitBusy, SubmitRuns, Queue, Requests
    <3> QED
      BY <1>2, <2>2, <3>1 DEF SubmitBusy, SubmitRuns, Submitted, Arrives, shutdown
  <2>3. CASE SubmitWaits(c, r)
    BY <2>3 DEF SubmitWaits, TimerArmed, WaitIsWatched
  <2> QED
    BY <1>4, <2>1, <2>2, <2>3 DEF SubmitStep
<1>5. ASSUME NEW r \in Requests, WorkEnds(r)
      PROVE  WaitIsWatched'
  <2>1. Queue' \subseteq Left
    BY <1>5, PumpMoves DEF Frees
  <2> QED
    BY <1>2, <1>5, <2>1 DEF WorkEnds, shutdown
<1>6. CASE Tick
  <2>1. Queue' \subseteq Left
    BY <1>6, ExpiryEffect DEF Tick, Queue, Requests
  <2> QED
    BY <1>2, <1>6, <2>1 DEF Tick, shutdown
<1>7. ASSUME NEW r \in Requests, ProvisionEnds(r) \/ StopFlushed(r)
      PROVE  WaitIsWatched'
  <2>1. Queue' \subseteq Queue
    BY <1>7 DEF ProvisionEnds, StopFlushed, Queue, Requests, TypeOK
  <2> QED
    BY <1>1, <1>7, <2>1 DEF ProvisionEnds, StopFlushed, Drain, queueing, shutdown
<1>8. CASE DrainStep
  <2>1. CASE DestroyAll
    BY <2>1 DEF DestroyAll, WaitIsWatched
  <2>2. CASE Signal \/ GracePasses \/ GraceEnds \/ FlushWaitEnds \/ Stopped
    BY <1>1, <2>2 DEF Signal, Drain, GracePasses, GraceEnds, FlushWaitEnds, Stopped, requests,
       queueing, Queue
  <2> QED
    BY <1>8, <2>1, <2>2 DEF DrainStep
<1>9. CASE UNCHANGED vars \/ \E r \in Requests : DeadlinePasses(r)
  BY <1>1, <1>9 DEF DeadlinePasses, vars, requests, queueing, shutdown, Queue
<1> QED
  BY <1>3, <1>4, <1>5, <1>6, <1>7, <1>8, <1>9 DEF Next, RequestStep

\* While anybody waits and the daemon is not closing, the expiry timer runs:
\* a queue behind work that never ends is emptied all the same.
THEOREM WaitsAreWatched == Spec => []WaitIsWatched
<1>1. Init => WaitIsWatched
  BY DEF Init, WaitIsWatched, Queue, Requests
<1>2. TypeOK /\ WaitIsWatched /\ [Next]_vars => WaitIsWatched'
  BY WatchStep
<1> QED
  BY <1>1, <1>2, TypeCorrect, PTL DEF Spec

\* Together: the inductive invariant of the serving daemon.
THEOREM Invariance == Spec => []IInv
<1>1. Seats /\ Charged /\ Ordered => /\ Bounded /\ NoIdleSlot /\ Sent /\ Authorised
                                    /\ TicketsDrawn /\ NoOvertaking
  BY DEF Seats, Charged, Ordered
<1>2. TypeOK /\ Seats /\ Charged /\ Ordered /\ Begun /\ GoneHoldsNothing /\ WaitIsWatched
      /\ LeftEarly => IInv
  BY <1>1 DEF IInv
<1> QED
  BY <1>2, SeatsHold, BegunHolds, ChargedHolds, OrderedHolds, TheGoneHoldNothing, WaitsAreWatched,
     LeftEarlyHolds, PTL

-----------------------------------------------------------------------------
(* What the runs check, part by part proved above *)

\* ExecutionQueue as a whole: limits, no wait beside a free slot, no wait
\* without a timer, no overtaking.
THEOREM QueueHolds == Spec => []QueueIsSound
<1>1. Bounded /\ NoIdleSlot /\ WaitIsWatched /\ NoOvertaking => QueueIsSound
  BY DEF QueueIsSound
<1> QED
  BY <1>1, LimitsHold, NobodyIsStranded, WaitsAreWatched, FirstComeFirstServed, PTL

\* Nothing begins that submit() or the capability check turned away.
THEOREM StartsHold == Spec => []StartsAreRightful
<1>1. NotRunIsTrue /\ WithinCapability => StartsAreRightful
  BY DEF StartsAreRightful
<1> QED
  BY <1>1, RefusalIsTrue, NothingOutOfRole, PTL

\* The drain of serve() cuts nobody and nothing before its deadline.
THEOREM DrainHolds == Spec => []DrainIsPatient
<1>1. ReadyIsHonoured /\ NothingAbandonedEarly => DrainIsPatient
  BY DEF DrainIsPatient
<1> QED
  BY <1>1, TheReadyAreHonoured, EarlyStopIsClean, PTL

=============================================================================
