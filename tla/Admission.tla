------------------------------ MODULE Admission ------------------------------
(***************************************************************************)
(* One serving daemon: its connections, the execution queue every sandbox  *)
(* request goes through, and the drain that ends it.                       *)
(*                                                                         *)
(* The daemon is one event loop, so an action is what runs between two     *)
(* turns of it: a frame arriving, a timer, a promise of the manager        *)
(* settling, a socket closing.  A request is "unsent", then "queued",      *)
(* "running" (in one of the Cap slots) or "direct" (answered outside the   *)
(* queue), and at last carries its verdict.                                *)
(*                                                                         *)
(* Abstracted: what a request computes, frames and their contents, and     *)
(* clocks (an admission deadline or the drain deadline passes when it      *)
(* likes).  The queue's array is the set of queued requests with the       *)
(* order of their arrival.                                                 *)
(***************************************************************************)
EXTENDS Naturals, FiniteSets

CONSTANTS
  Connections,  \* the sockets clients open
  Executes,     \* execute requests
  Resumes,      \* approvals.resume requests
  Provisions,   \* source.provision and source.revalidate requests
  Stops,        \* daemon.stop requests
  Nobody,       \* no connection: the request was not sent yet
  Cap,          \* CONCURRENCY_CAP
  Capacity      \* QUEUE_CAPACITY

ASSUME KindsAssumption ==
  /\ Executes \cap (Resumes \union Provisions \union Stops) = {}
  /\ Resumes \cap (Provisions \union Stops) = {}
  /\ Provisions \cap Stops = {}
  /\ Nobody \notin Connections

ASSUME LimitsAssumption ==
  /\ Cap \in Nat \ {0}
  /\ Capacity \in Nat

\* Both kinds of sandbox work share the queue.
Sandbox == Executes \union Resumes
Requests == Sandbox \union Provisions \union Stops

ASSUME FiniteAssumption == IsFiniteSet(Sandbox)

VARIABLES
  conn,      \* per connection: the socket
  role,      \* per connection: the capability its handshake was granted
  via,       \* per request: the connection it came in on
  state,     \* per request: where it is
  started,   \* history: the requests whose work was begun
  ticket,    \* per request: its turn among the sandbox requests
  arrived,   \* how many tickets were drawn
  active,    \* ExecutionQueue.active
  due,       \* the queued requests whose admission deadline has passed
  ticking,   \* the expiry timer is armed
  draining,  \* a stop was requested
  phase,     \* of serve(): "serving", "draining", "flushing", "closing", "stopped"
  graceOver, \* the drain deadline has passed
  visited,   \* the connections the flush loop has been to
  awaiting   \* the requests the flush loop waits for

sockets == <<conn, role>>
requests == <<via, state, started, ticket, arrived>>
queueing == <<active, due, ticking>>
shutdown == <<draining, phase, graceOver, visited, awaiting>>
vars == <<sockets, requests, queueing, shutdown>>

-----------------------------------------------------------------------------
(* Values *)

\* "ending" is a socket the daemon ended; it still reads.  "destroyed" is
\* one whose close event has yet to come.
Sockets == {"new", "ready", "ending", "destroyed", "closed", "refused"}
Roles == {"serve", "approvals", "add-mcp", "control"}

Verdicts == {"ran", "expired", "abandoned", "busy", "invalid"}
States == {"unsent", "queued", "running", "direct"} \union Verdicts

\* CAPABILITIES, as far as these requests go.
Permits(grant, r) ==
  CASE grant = "serve" -> r \in Executes
    [] grant = "approvals" -> r \in Resumes
    [] grant = "add-mcp" -> r \in Provisions
    [] grant = "control" -> r \in Stops
    [] OTHER -> FALSE

Registered == {c \in Connections : conn[c] \in {"ready", "ending", "destroyed"}}
Live == {c \in Connections : conn[c] \in {"ready", "ending"}}

Queue == {r \in Sandbox : state[r] = "queued"}
Running == {r \in Sandbox : state[r] = "running"}

\* ctx.inFlight.  A stop is no part of it: its handler does not wait for the
\* flush of its acknowledgement.
InFlight(c) ==
  {r \in Sandbox \union Provisions :
     via[r] = c /\ state[r] \in {"queued", "running", "direct"}}

TypeOK ==
  /\ conn \in [Connections -> Sockets]
  /\ role \in [Connections -> Roles \union {"none"}]
  /\ via \in [Requests -> Connections \union {Nobody}]
  /\ state \in [Requests -> States]
  /\ started \subseteq Requests
  /\ ticket \in [Requests -> Nat]
  /\ arrived \in Nat
  /\ active \in Nat
  /\ due \subseteq Queue
  /\ ticking \in BOOLEAN
  /\ draining \in BOOLEAN
  /\ phase \in {"serving", "draining", "flushing", "closing", "stopped"}
  /\ graceOver \in BOOLEAN
  /\ visited \subseteq Connections
  /\ awaiting \subseteq Requests

Init ==
  /\ conn = [c \in Connections |-> "new"]
  /\ role = [c \in Connections |-> "none"]
  /\ via = [r \in Requests |-> Nobody]
  /\ state = [r \in Requests |-> "unsent"]
  /\ started = {}
  /\ ticket = [r \in Requests |-> 0]
  /\ arrived = 0
  /\ active = 0
  /\ due = {}
  /\ ticking = FALSE
  /\ draining = FALSE
  /\ phase = "serving"
  /\ graceOver = FALSE
  /\ visited = {}
  /\ awaiting = {}

-----------------------------------------------------------------------------
(* Connections *)

\* The process is still there: runDaemon's caller exits once it stopped.
Up == phase # "stopped"

\* handleConnection: READY, unless a stop was requested.
Connect(c) ==
  /\ Up
  /\ conn[c] = "new"
  /\ conn' = [conn EXCEPT ![c] = IF draining THEN "refused" ELSE "ready"]
  /\ UNCHANGED <<role, requests, queueing, shutdown>>

\* A connection's capability is assigned exactly once.
MayHandshake(c) == role[c] = "none"

Handshake(c) ==
  /\ Up
  /\ c \in Live
  /\ MayHandshake(c)
  /\ \E grant \in Roles : role' = [role EXCEPT ![c] = grant]
  /\ UNCHANGED <<conn, requests, queueing, shutdown>>

\* A handshake that names its own database, or none before the deadline.
HandshakeRefused(c) ==
  /\ Up
  /\ conn[c] = "ready"
  /\ role[c] = "none"
  /\ conn' = [conn EXCEPT ![c] = "ending"]
  /\ UNCHANGED <<role, requests, queueing, shutdown>>

\* The peer goes away, or a read or write on the socket fails.
SocketLost(c) ==
  /\ Up
  /\ c \in Live
  /\ conn' = [conn EXCEPT ![c] = "destroyed"]
  /\ UNCHANGED <<role, requests, queueing, shutdown>>

\* The close event: the queued entries of the connection are abandoned.
AbandonsAll(c) == InFlight(c)  \* mutant: the work begun is abandoned too
Abandoned(c) == {r \in Queue : via[r] = c}

SocketCloses(c) ==
  /\ Up
  /\ conn[c] = "destroyed"
  /\ conn' = [conn EXCEPT ![c] = "closed"]
  /\ state' = [r \in Requests |-> IF r \in Abandoned(c) THEN "abandoned" ELSE state[r]]
  /\ due' = due \ Abandoned(c)
  /\ UNCHANGED <<role, via, started, ticket, arrived, active, ticking, shutdown>>

-----------------------------------------------------------------------------
(* The execution queue *)

\* dropExpired: who goes, who stays, and the timer that nobody needs.
Dropped == Queue \cap due
Left == Queue \ due
KeptTicking == ticking /\ Left # {}
AfterExpiry == [r \in Requests |-> IF r \in Dropped THEN "expired" ELSE state[r]]

\* submit: refuse, dispatch at once, or wait.
Full == active >= Cap /\ Cardinality(Left) >= Capacity

SlotFree == active < Cap

SlotNotTaken == active  \* mutant: the dispatch is not counted
SlotTaken == active + 1

\* A request of this connection reaches handleRequest.
Arrives(c, r) ==
  /\ Up
  /\ c \in Live
  /\ state[r] = "unsent"
  /\ via' = [via EXCEPT ![r] = c]
  /\ UNCHANGED <<sockets, shutdown>>

\* dispatch: no handshake yet, or a kind outside the granted set.
Refused(c, r) ==
  /\ Arrives(c, r)
  /\ ~Permits(role[c], r)
  /\ state' = [state EXCEPT ![r] = "invalid"]
  /\ UNCHANGED <<started, ticket, arrived, queueing>>

\* The part of submitSandboxWork every outcome shares.
Submitted(c, r) ==
  /\ Arrives(c, r)
  /\ r \in Sandbox
  /\ Permits(role[c], r)
  /\ due' = {}
  /\ ticket' = [ticket EXCEPT ![r] = arrived + 1]
  /\ arrived' = arrived + 1

SubmitBusy(c, r) ==
  /\ Submitted(c, r)
  /\ Full
  /\ state' = [AfterExpiry EXCEPT ![r] = "busy"]
  /\ ticking' = KeptTicking
  /\ UNCHANGED <<started, active>>

SubmitRuns(c, r) ==
  /\ Submitted(c, r)
  /\ ~Full
  /\ SlotFree
  /\ state' = [AfterExpiry EXCEPT ![r] = "running"]
  /\ started' = started \union {r}
  /\ active' = SlotTaken
  /\ ticking' = KeptTicking

TimerArmed == TRUE

SubmitWaits(c, r) ==
  /\ Submitted(c, r)
  /\ ~Full
  /\ ~SlotFree
  /\ state' = [AfterExpiry EXCEPT ![r] = "queued"]
  /\ ticking' = TimerArmed
  /\ UNCHANGED <<started, active>>

\* The admission deadline of a waiting entry passes.
DeadlinePasses(r) ==
  /\ Up
  /\ r \in Queue \ due
  /\ due' = due \union {r}
  /\ UNCHANGED <<sockets, requests, active, ticking, shutdown>>

Tick ==
  /\ Up
  /\ ticking
  /\ state' = AfterExpiry
  /\ due' = {}
  /\ ticking' = KeptTicking
  /\ UNCHANGED <<sockets, via, started, ticket, arrived, active, shutdown>>

\* pump: the oldest entries, as many as there are free slots.
Oldest(n, others) == \A o \in others : ticket[n] < ticket[o]

PumpsAny(S) == TRUE  \* mutant: a freed slot is not always used
Pumps(S) ==
  /\ Cardinality(S) <= Cap - (active - 1)
  /\ Cardinality(S) = Cap - (active - 1) \/ S = Left
  /\ \A n \in S : Oldest(n, Left \ S)

\* The manager settles: the reply goes out, the slot is freed, the queue moves.
WorkEnds(r) ==
  /\ Up
  /\ r \in Running
  /\ \E S \in SUBSET Left :
       /\ Pumps(S)
       /\ state' = [s \in Requests |-> IF s = r THEN "ran"
                                       ELSE IF s \in S THEN "running" ELSE AfterExpiry[s]]
       /\ started' = started \union S
       /\ active' = (active - 1) + Cardinality(S)
  /\ due' = {}
  /\ ticking' = KeptTicking
  /\ UNCHANGED <<sockets, via, ticket, arrived, shutdown>>

-----------------------------------------------------------------------------
(* Outside the queue *)

\* A provision runs under its source lock; a stop waits for its ack to flush.
StartDirect(c, r) ==
  /\ Arrives(c, r)
  /\ r \in Provisions \union Stops
  /\ Permits(role[c], r)
  /\ state' = [state EXCEPT ![r] = "direct"]
  /\ started' = started \union {r}
  /\ UNCHANGED <<ticket, arrived, queueing>>

ProvisionEnds(r) ==
  /\ Up
  /\ r \in Provisions
  /\ state[r] = "direct"
  /\ state' = [state EXCEPT ![r] = "ran"]
  /\ UNCHANGED <<sockets, via, started, ticket, arrived, queueing, shutdown>>

\* StopSignal.request, and serve() awakened by it.
Drain ==
  /\ draining' = TRUE
  /\ phase' = IF phase = "serving" THEN "draining" ELSE phase
  /\ UNCHANGED <<graceOver, visited, awaiting>>

\* The ack was flushed, or could not be: stop, and end this connection.
LeftOpen(c) == "ready"  \* mutant: the stop rides on its own connection
AfterStop(c) == "ending"

StopFlushed(r) ==
  /\ Up
  /\ r \in Stops
  /\ state[r] = "direct"
  /\ state' = [state EXCEPT ![r] = "ran"]
  /\ conn' = [conn EXCEPT ![via[r]] =
       IF conn[via[r]] = "ready" THEN AfterStop(via[r]) ELSE conn[via[r]]]
  /\ Drain
  /\ UNCHANGED <<role, via, started, ticket, arrived, queueing>>

\* SIGTERM, SIGINT, or a listener error.
Signal ==
  /\ Up
  /\ ~draining
  /\ Drain
  /\ UNCHANGED <<sockets, requests, queueing>>

-----------------------------------------------------------------------------
(* The drain *)

\* DRAIN_DEADLINE_MS after the drain began.
GracePasses ==
  /\ Up
  /\ draining
  /\ ~graceOver
  /\ graceOver' = TRUE
  /\ UNCHANGED <<sockets, requests, queueing, draining, phase, visited, awaiting>>

Idle == active = 0 /\ Queue = {}

ConnectionsGone == Live = {}  \* mutant: an execution without its client is not work
NothingLeft == Idle /\ Live = {}

NoDeadline == FALSE  \* mutant: the drain waits for as long as it takes
GraceIsOver == graceOver

GraceEnds ==
  /\ phase = "draining"
  /\ GraceIsOver \/ NothingLeft
  /\ phase' = "flushing"
  /\ UNCHANGED <<sockets, requests, queueing, draining, graceOver, visited, awaiting>>

Ended(c) == IF conn[c] = "ready" THEN "ending" ELSE conn[c]

\* The flush loop comes to a connection and ends it, unless it has requests to
\* wait for first.
Flush(c) ==
  /\ phase = "flushing"
  /\ awaiting = {}
  /\ c \in Registered \ visited
  /\ visited' = visited \union {c}
  /\ awaiting' = IF graceOver THEN {} ELSE InFlight(c)
  /\ conn' = IF awaiting' = {} THEN [conn EXCEPT ![c] = Ended(c)] ELSE conn
  /\ UNCHANGED <<role, requests, queueing, draining, phase, graceOver>>

FlushWaitEnds ==
  /\ awaiting # {}
  /\ graceOver \/ \A r \in awaiting : state[r] \in Verdicts
  /\ awaiting' = {}
  /\ conn' = [c \in Connections |->
       IF \E r \in awaiting : via[r] = c THEN Ended(c) ELSE conn[c]]
  /\ UNCHANGED <<role, requests, queueing, draining, phase, graceOver, visited>>

\* Everything still open is destroyed, and the queue's timer stopped.
DestroyAll ==
  /\ phase = "flushing"
  /\ awaiting = {}
  /\ Registered \subseteq visited
  /\ phase' = "closing"
  /\ conn' = [c \in Connections |-> IF c \in Live THEN "destroyed" ELSE conn[c]]
  /\ ticking' = FALSE
  /\ UNCHANGED <<role, requests, active, due, draining, graceOver, visited, awaiting>>

\* The listener's close event; the locks are released and the process exits.
Stopped ==
  /\ phase = "closing"
  /\ Registered = {}
  /\ phase' = "stopped"
  /\ UNCHANGED <<sockets, requests, queueing, draining, graceOver, visited, awaiting>>

-----------------------------------------------------------------------------
(* The specification *)

ConnectionStep(c) ==
  \/ Connect(c) \/ Handshake(c) \/ HandshakeRefused(c)
  \/ SocketLost(c) \/ SocketCloses(c) \/ Flush(c)

SubmitStep(c, r) ==
  \/ Refused(c, r)
  \/ SubmitBusy(c, r) \/ SubmitRuns(c, r) \/ SubmitWaits(c, r)
  \/ StartDirect(c, r)

RequestStep(r) ==
  \/ DeadlinePasses(r) \/ WorkEnds(r) \/ ProvisionEnds(r) \/ StopFlushed(r)

DrainStep ==
  \/ Signal \/ GracePasses \/ GraceEnds \/ FlushWaitEnds \/ DestroyAll \/ Stopped

Next ==
  \/ \E c \in Connections : ConnectionStep(c)
  \/ \E c \in Connections, r \in Requests : SubmitStep(c, r)
  \/ \E r \in Requests : RequestStep(r)
  \/ Tick
  \/ DrainStep

Spec == Init /\ [][Next]_vars

\* The event loop: sockets that were closed say so, and the drain moves on.
LoopFairness ==
  WF_vars(\/ \E c \in Connections : SocketCloses(c) \/ Flush(c)
          \/ GraceEnds \/ FlushWaitEnds \/ DestroyAll \/ Stopped)

\* The loop turns, whatever else stands still.
FairSpec == Spec /\ LoopFairness

\* Timers fire.
TimersFire ==
  WF_vars(Tick \/ GracePasses \/ \E r \in Sandbox : DeadlinePasses(r))

\* Work ends and ended peers leave.
WorkIsDone ==
  WF_vars(\/ \E r \in Requests : WorkEnds(r) \/ ProvisionEnds(r) \/ StopFlushed(r)
          \/ \E c \in Connections : conn[c] = "ending" /\ SocketLost(c))

-----------------------------------------------------------------------------
(* Properties *)

\* The counter counts: never more than CONCURRENCY_CAP executions are driven
\* at once, and never more than QUEUE_CAPACITY wait.
Bounded ==
  /\ active = Cardinality(Running)
  /\ active <= Cap
  /\ Cardinality(Queue) <= Capacity

\* Nobody waits beside a free slot: the queue is only ever non-empty while
\* every slot is taken, so it cannot be stranded without a completion to come.
NoIdleSlot == Queue # {} => active = Cap

\* A waiting entry has a timer that will expire it, even if nothing else
\* ever happens to the queue again.
WaitIsWatched == Queue # {} /\ phase \notin {"closing", "stopped"} => ticking

\* A request answered busy, expired or refused, or logged as abandoned, was
\* never begun, and never will be: the operator may safely issue it again.
NotRunIsTrue ==
  \A r \in Requests : state[r] \in {"busy", "expired", "abandoned", "invalid"} => r \notin started

\* Whatever was begun was within the capability of the connection it came on.
WithinCapability == \A r \in started : Permits(role[via[r]], r)

\* Slots are given in the order of arrival: nobody begins while one who came
\* earlier still waits.
NoOvertaking ==
  \A early \in Queue, late \in Sandbox :
    ticket[late] > ticket[early] => late \notin started

\* The execution queue keeps its limits, and whoever waits in it waits for a slot
\* that is taken, behind nobody who came later, and not beyond a deadline that
\* somebody watches.
QueueIsSound == Bounded /\ NoIdleSlot /\ WaitIsWatched /\ NoOvertaking

\* What begins is what was permitted and never refused.
StartsAreRightful == NotRunIsTrue /\ WithinCapability

\* A connection that is gone holds none of the bounded capacity.
GoneHoldsNothing == \A r \in Queue : conn[via[r]] # "closed"

\* While the drain deadline has not passed, no connection that was sent READY
\* is cut: the drain goes on only when they have all left by themselves.
ReadyIsHonoured ==
  phase \in {"flushing", "closing", "stopped"} => graceOver \/ Live = {}

\* A drain that ends before its deadline has abandoned no execution.
NothingAbandonedEarly ==
  phase = "stopped" /\ ~graceOver => Running = {} /\ Queue = {}

\* Before its deadline a drain cuts neither a client it said READY to nor an execution.
DrainIsPatient == ReadyIsHonoured /\ NothingAbandonedEarly

\* The inductive invariant behind the theorems: beside the properties above,
\* what keeps them.  Only work under way or done was begun ...
Begun == \A r \in started : state[r] \in {"running", "direct", "ran"}

\* ... every request that was sent came in on a connection ...
Sent == \A r \in Requests : state[r] # "unsent" => via[r] \in Connections

\* ... one that permits it, for whatever was begun or waits to be ...
Authorised == \A r \in started \union Queue : Permits(role[via[r]], r)

\* ... no ticket is from the future ...
TicketsDrawn == \A r \in Sandbox : ticket[r] <= arrived

\* ... and once the grace loop is left early there is nothing to admit from,
\* nothing running and nobody connected.
LeftEarly ==
  /\ phase # "serving" => draining
  /\ phase \in {"flushing", "closing", "stopped"} =>
       graceOver \/ (Live = {} /\ Running = {} /\ Queue = {})

IInv ==
  /\ TypeOK /\ Bounded /\ NoIdleSlot
  /\ Begun /\ Sent /\ Authorised
  /\ TicketsDrawn /\ NoOvertaking
  /\ GoneHoldsNothing /\ WaitIsWatched /\ LeftEarly

\* ConnectionContext.inFlight: "In-flight request promises; drain waits on
\* all of them."  (The drain deadline excepted.)
DrainWaitsForInFlight ==
  phase = "stopped" /\ ~graceOver => \A c \in Connections : InFlight(c) = {}

\* A requested stop ends in an exit, whatever hangs, as long as timers fire.
DrainEnds == TimersFire => (draining ~> phase = "stopped")

\* A stop that finds nobody else connected need not wait for the drain deadline:
\* with every clock standing still, the daemon is gone once the running work is done.
StopIsPrompt ==
  WorkIsDone =>
    ((/\ draining
      /\ \A c \in Connections :
           conn[c] = "ready" => \E s \in Stops : via[s] = c /\ state[s] = "ran")
     ~> phase = "stopped")

=============================================================================
