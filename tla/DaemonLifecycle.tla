--------------------------- MODULE DaemonLifecycle ---------------------------
(***************************************************************************)
(* Who owns the database: daemon processes that start, serve, drain and    *)
(* die; clients that find or spawn one; the operator's `daemon stop`; and  *)
(* the offline commands that rewrite the database under a new key.         *)
(*                                                                         *)
(* What they share is two lock databases, the pathname of the socket, the  *)
(* key files and the execution rows.  An action is one call another        *)
(* process can observe: a lock taken or dropped, an entry bound or         *)
(* unlinked, a frame written, a row committed.                             *)
(*                                                                         *)
(* A lock database is an SQLite file in rollback mode.  It has readers     *)
(* (SHARED) and at most one writer (PENDING, and EXCLUSIVE once no reader  *)
(* is left): a writer of either kind makes a new reader BUSY.  The commit  *)
(* of a holder stamp is such a writer for an instant.                      *)
(*                                                                         *)
(* Abstracted: clocks (a deadline passes when it likes), the state         *)
(* directory and its ownership checks, the handshake, what a request       *)
(* computes (Admission and DirectExecution), the text of a holder stamp.   *)
(***************************************************************************)
EXTENDS Naturals, FiniteSets

CONSTANTS
  Daemons,   \* processes, each of which runs the daemon once
  ByHand,    \* those an operator starts; the others are spawned
  Askers,    \* clients with one request, which may spawn a daemon
  Stoppers,  \* `conduit daemon stop` commands, which never spawn
  Rotators,  \* `conduit key rotate` commands; each also names its new key
  Patient,   \* the clients whose deadline does not pass before an answer
  MaxKills,  \* how many processes are killed
  Nobody     \* no process, no endpoint, no key

Clients == Askers \union Stoppers

ASSUME ProcessesAssumption ==
  /\ Daemons \cap (Clients \union Rotators) = {}
  /\ Clients \cap Rotators = {}
  /\ Askers \cap Stoppers = {}
  /\ Nobody \notin Daemons \union Clients \union Rotators
  /\ ByHand \subseteq Daemons
  /\ Patient \subseteq Clients
  /\ MaxKills \in Nat

VARIABLES
  writer,    \* per lock database: the process with PENDING or EXCLUSIVE
  readers,   \* per lock database: the processes with SHARED
  pc,        \* per daemon: where runDaemon is
  stop,      \* per daemon: its StopSignal
  exit,      \* per daemon: why it leaves
  key,       \* per daemon: the key it resolved
  endpoint,  \* the daemon whose socket the pathname leads to
  row,       \* per asker: the execution row of its request
  owner,     \* per asker: the daemon that began it
  dbKey,     \* the key the rows are sealed under
  fileKey,   \* the key in master-key
  nextKey,   \* the key in master-key.next
  cpc,       \* per client: where daemonRequest is
  link,      \* per client: the daemon its socket is connected to
  wire,      \* per client: the daemon that has yet to read its request
  asked,     \* per stopper: the daemon its request was written to
  spawned,   \* the clients that have spent their spawn
  rpc,       \* per rotator: where runKeyRotate is
  kills      \* how many processes were killed

locks == <<writer, readers>>
daemons == <<pc, stop, exit, key, endpoint>>
rows == <<row, owner>>
keys == <<dbKey, fileKey, nextKey>>
clients == <<cpc, link, wire, asked, spawned>>
vars == <<locks, daemons, rows, keys, clients, rpc, kills>>

-----------------------------------------------------------------------------
(* Values *)

LockFiles == {"lifecycle", "maintenance"}
Processes == Daemons \union Clients \union Rotators
Keys == Rotators \union {"original"}

\* "starting" to "taking" is the way to lifecycle EXCLUSIVE, "stamping" to
\* "sharing" the way to maintenance SHARED.  From "opening" on the store is
\* open; "releasing" to "unlocking" is the finally of startDaemon.
Stages ==
  {"unborn", "starting", "climbing", "taking", "stamping", "committing",
   "sharing", "opening", "sweeping", "clearing", "binding", "serving",
   "draining", "flushing", "releasing", "unstamping", "erasing", "unlocking",
   "exiting", "gone"}

Reasons == {"none", "ok", "already running", "rotation in progress", "failed",
            "killed"}

\* The decision table's passes, then the exchange, then what is reported.
Asking == {"row 1", "probing 1", "row 2", "probing 2", "row 4", "connecting",
           "waiting", "awaiting", "holding"}
Reports == {"answered", "unknown", "unavailable", "rotation",
            "stopped", "still draining", "not running", "unreachable"}
ClientSteps == {"idle", "ready", "sent", "polling"} \union Asking \union Reports

RotatorSteps ==
  {"idle", "stamping", "acquiring", "pending", "holding", "opened", "staged",
   "resealed", "releasing", "unstamping", "erasing", "done"}

TypeOK ==
  /\ writer \in [LockFiles -> Processes \union {Nobody}]
  /\ readers \in [LockFiles -> SUBSET Processes]
  /\ pc \in [Daemons -> Stages]
  /\ stop \in [Daemons -> BOOLEAN]
  /\ exit \in [Daemons -> Reasons]
  /\ key \in [Daemons -> Keys \union {Nobody}]
  /\ endpoint \in Daemons \union {Nobody}
  /\ row \in [Askers -> {"none", "running", "done", "swept"}]
  /\ owner \in [Askers -> Daemons \union {Nobody}]
  /\ dbKey \in Keys
  /\ fileKey \in Keys
  /\ nextKey \in Keys \union {Nobody}
  /\ cpc \in [Clients -> ClientSteps]
  /\ link \in [Clients -> Daemons \union {Nobody}]
  /\ wire \in [Clients -> Daemons \union {Nobody}]
  /\ asked \in [Stoppers -> Daemons \union {Nobody}]
  /\ spawned \subseteq Askers
  /\ rpc \in [Rotators -> RotatorSteps]
  /\ kills \in Nat

Init ==
  /\ writer = [l \in LockFiles |-> Nobody]
  /\ readers = [l \in LockFiles |-> {}]
  /\ pc = [d \in Daemons |-> "unborn"]
  /\ stop = [d \in Daemons |-> FALSE]
  /\ exit = [d \in Daemons |-> "none"]
  /\ key = [d \in Daemons |-> Nobody]
  /\ endpoint = Nobody
  /\ row = [a \in Askers |-> "none"]
  /\ owner = [a \in Askers |-> Nobody]
  /\ dbKey = "original"
  /\ fileKey = "original"
  /\ nextKey = Nobody
  /\ cpc = [c \in Clients |-> "idle"]
  /\ link = [c \in Clients |-> Nobody]
  /\ wire = [c \in Clients |-> Nobody]
  /\ asked = [s \in Stoppers |-> Nobody]
  /\ spawned = {}
  /\ rpc = [r \in Rotators |-> "idle"]
  /\ kills = 0

-----------------------------------------------------------------------------
(* Lock databases *)

Free(l) == writer[l] = Nobody

BecomesReader(p, l) == readers' = [readers EXCEPT ![l] = @ \union {p}]
NoLongerReader(p, l) == readers' = [readers EXCEPT ![l] = @ \ {p}]
BecomesWriter(p, l) == writer' = [writer EXCEPT ![l] = p]
NoLongerWriter(l) == writer' = [writer EXCEPT ![l] = Nobody]

\* The kernel drops the locks of a process that dies.
LocksDropped(p) ==
  /\ writer' = [l \in LockFiles |-> IF writer[l] = p THEN Nobody ELSE writer[l]]
  /\ readers' = [l \in LockFiles |-> readers[l] \ {p}]

-----------------------------------------------------------------------------
(* A daemon starts *)

Becomes(d, stage) == pc' = [pc EXCEPT ![d] = stage]
Leaves(d, reason) == exit' = [exit EXCEPT ![d] = reason]

StartByHand(d) ==
  /\ d \in ByHand
  /\ pc[d] = "unborn"
  /\ Becomes(d, "starting")
  /\ UNCHANGED <<locks, stop, exit, key, endpoint, rows, keys, clients, rpc, kills>>

\* BEGIN EXCLUSIVE on the lifecycle database.  It climbs through SHARED;
\* whoever meets a PENDING writer on the way lets go and tries again for as
\* long as the busy timeout lasts, and the writer waits for readers to leave.
Climb(d) ==
  /\ pc[d] = "starting"
  /\ Free("lifecycle")
  /\ BecomesReader(d, "lifecycle")
  /\ Becomes(d, "climbing")
  /\ UNCHANGED <<writer, stop, exit, key, endpoint, rows, keys, clients, rpc, kills>>

Pend(d) ==
  /\ pc[d] = "climbing"
  /\ Free("lifecycle")
  /\ BecomesWriter(d, "lifecycle")
  /\ Becomes(d, "taking")
  /\ UNCHANGED <<readers, stop, exit, key, endpoint, rows, keys, clients, rpc, kills>>

BackOff(d) ==
  /\ pc[d] = "climbing"
  /\ ~Free("lifecycle")
  /\ NoLongerReader(d, "lifecycle")
  /\ Becomes(d, "starting")
  /\ UNCHANGED <<writer, stop, exit, key, endpoint, rows, keys, clients, rpc, kills>>

\* Mutant: no busy timeout, so a single probe turns the daemon away.
MTake(d) ==
  /\ pc[d] = "taking"
  /\ NoLongerReader(d, "lifecycle")
  /\ IF readers["lifecycle"] = {d}
     THEN Becomes(d, "stamping") /\ UNCHANGED <<writer, exit>>
     ELSE NoLongerWriter("lifecycle") /\ Leaves(d, "already running") /\ Becomes(d, "exiting")
  /\ UNCHANGED <<stop, key, endpoint, rows, keys, clients, rpc, kills>>

Take(d) ==
  /\ pc[d] = "taking"
  /\ readers["lifecycle"] = {d}
  /\ NoLongerReader(d, "lifecycle")
  /\ Becomes(d, "stamping")
  /\ UNCHANGED <<writer, stop, exit, key, endpoint, rows, keys, clients, rpc, kills>>

\* Mutant: a BUSY lifecycle lock is not the end of the start.
MAlreadyRunning(d) ==
  /\ pc[d] = "starting"
  /\ ~Free("lifecycle")
  /\ Becomes(d, "stamping")
  /\ UNCHANGED <<locks, stop, exit, key, endpoint, rows, keys, clients, rpc, kills>>

AlreadyRunning(d) ==
  /\ pc[d] = "starting"
  /\ ~Free("lifecycle")
  /\ Leaves(d, "already running")
  /\ Becomes(d, "exiting")
  /\ UNCHANGED <<locks, stop, key, endpoint, rows, keys, clients, rpc, kills>>

\* stampHolder: a commit of its own, skipped when it is BUSY.
Stamp(d) ==
  /\ pc[d] = "stamping"
  /\ IF Free("maintenance")
     THEN BecomesWriter(d, "maintenance") /\ Becomes(d, "committing")
     ELSE UNCHANGED writer /\ Becomes(d, "sharing")
  /\ UNCHANGED <<readers, stop, exit, key, endpoint, rows, keys, clients, rpc, kills>>

Stamped(d) ==
  /\ pc[d] = "committing"
  /\ NoLongerWriter("maintenance")
  /\ Becomes(d, "sharing")
  /\ UNCHANGED <<readers, stop, exit, key, endpoint, rows, keys, clients, rpc, kills>>

Share(d) ==
  /\ pc[d] = "sharing"
  /\ Free("maintenance")
  /\ BecomesReader(d, "maintenance")
  /\ Becomes(d, "opening")
  /\ UNCHANGED <<writer, stop, exit, key, endpoint, rows, keys, clients, rpc, kills>>

\* Mutant: nor is a BUSY maintenance lock.
MRotationInProgress(d) ==
  /\ pc[d] = "sharing"
  /\ ~Free("maintenance")
  /\ Becomes(d, "opening")
  /\ UNCHANGED <<locks, stop, exit, key, endpoint, rows, keys, clients, rpc, kills>>

RotationInProgress(d) ==
  /\ pc[d] = "sharing"
  /\ ~Free("maintenance")
  /\ Leaves(d, "rotation in progress")
  /\ Becomes(d, "unstamping")
  /\ UNCHANGED <<locks, stop, key, endpoint, rows, keys, clients, rpc, kills>>

\* The canary proves that the key file opens the database.
OpenStore(d) ==
  /\ pc[d] = "opening"
  /\ IF fileKey = dbKey
     THEN /\ key' = [key EXCEPT ![d] = fileKey]
          /\ Becomes(d, "sweeping")
          /\ UNCHANGED exit
     ELSE /\ Leaves(d, "failed")
          /\ Becomes(d, "releasing")
          /\ UNCHANGED key
  /\ UNCHANGED <<locks, stop, endpoint, rows, keys, clients, rpc, kills>>

\* Mutant: the sweep writes what it did, which is no status of a row.
MSweepRow(d, a) ==
  /\ pc[d] = "sweeping"
  /\ row[a] = "running"
  /\ row' = [row EXCEPT ![a] = "interrupted"]
  /\ UNCHANGED <<locks, daemons, owner, keys, clients, rpc, kills>>

SweepRow(d, a) ==
  /\ pc[d] = "sweeping"
  /\ row[a] = "running"
  /\ row' = [row EXCEPT ![a] = "swept"]
  /\ UNCHANGED <<locks, daemons, owner, keys, clients, rpc, kills>>

\* Mutant: the endpoint is bound while the sweep goes on.
MSweepEnds(d) ==
  /\ pc[d] = "sweeping"
  /\ Becomes(d, "clearing")
  /\ UNCHANGED <<locks, stop, exit, key, endpoint, rows, keys, clients, rpc, kills>>

\* The sweep is over, or a stop is not waiting for it.
SweepEnds(d) ==
  /\ pc[d] = "sweeping"
  /\ \/ /\ ~stop[d]
        /\ \A a \in Askers : row[a] # "running"
        /\ Becomes(d, "clearing")
        /\ UNCHANGED exit
     \/ /\ stop[d]
        /\ Leaves(d, "ok")
        /\ Becomes(d, "releasing")
  /\ UNCHANGED <<locks, stop, key, endpoint, rows, keys, clients, rpc, kills>>

ClearStaleEndpoint(d) ==
  /\ pc[d] = "clearing"
  /\ endpoint' = Nobody
  /\ Becomes(d, "binding")
  /\ UNCHANGED <<locks, stop, exit, key, rows, keys, clients, rpc, kills>>

Bind(d) ==
  /\ pc[d] = "binding"
  /\ endpoint = Nobody
  /\ endpoint' = d
  /\ Becomes(d, "serving")
  /\ UNCHANGED <<locks, stop, exit, key, rows, keys, clients, rpc, kills>>

\* The sweep throws, the entry at the pathname is nobody's to remove,
\* hydration fails, or the pathname is taken.
StartFails(d) ==
  /\ pc[d] \in {"sweeping", "clearing", "binding"}
  /\ Leaves(d, "failed")
  /\ Becomes(d, "releasing")
  /\ UNCHANGED <<locks, stop, key, endpoint, rows, keys, clients, rpc, kills>>

-----------------------------------------------------------------------------
(* A daemon serves *)

Works(d) == pc[d] \in {"serving", "draining"}

\* The connection event: READY.
Accept(d, c) ==
  /\ pc[d] = "serving"
  /\ cpc[c] = "awaiting"
  /\ link[c] = d
  /\ cpc' = [cpc EXCEPT ![c] = "ready"]
  /\ UNCHANGED <<locks, daemons, rows, keys, link, wire, asked, spawned, rpc, kills>>

\* A request is read: its execution row is created.
Begin(d, a) ==
  /\ Works(d)
  /\ wire[a] = d
  /\ wire' = [wire EXCEPT ![a] = Nobody]
  /\ row' = [row EXCEPT ![a] = "running"]
  /\ owner' = [owner EXCEPT ![a] = d]
  /\ UNCHANGED <<locks, daemons, keys, cpc, link, asked, spawned, rpc, kills>>

\* It is finalized, and answered if its connection is still there.  Work the
\* drain abandoned may still finish while the sockets close.
Finish(d, a) ==
  /\ Works(d) \/ pc[d] = "flushing"
  /\ row[a] = "running"
  /\ owner[a] = d
  /\ row' = [row EXCEPT ![a] = "done"]
  /\ IF cpc[a] = "sent" /\ link[a] = d
     THEN /\ cpc' = [cpc EXCEPT ![a] = "answered"]
          /\ link' = [link EXCEPT ![a] = Nobody]
     ELSE UNCHANGED <<cpc, link>>
  /\ UNCHANGED <<locks, daemons, owner, keys, wire, asked, spawned, rpc, kills>>

\* daemon.stop: the acknowledgement may or may not arrive; the command goes
\* on to poll in either case.
AcceptStop(d, s) ==
  /\ Works(d)
  /\ wire[s] = d
  /\ wire' = [wire EXCEPT ![s] = Nobody]
  /\ stop' = [stop EXCEPT ![d] = TRUE]
  /\ IF cpc[s] = "sent"
     THEN /\ cpc' = [cpc EXCEPT ![s] = "polling"]
          /\ link' = [link EXCEPT ![s] = Nobody]
     ELSE UNCHANGED <<cpc, link>>
  /\ UNCHANGED <<locks, pc, exit, key, endpoint, rows, keys, asked, spawned, rpc, kills>>

Running(d) == pc[d] \notin {"unborn", "exiting", "gone"}

\* SIGTERM, SIGINT, or an error of the listener.
Signal(d) ==
  /\ Running(d)
  /\ stop' = [stop EXCEPT ![d] = TRUE]
  /\ UNCHANGED <<locks, pc, exit, key, endpoint, rows, keys, clients, rpc, kills>>

\* Connections of d among the clients at a step of S are gone, and with them
\* what they carried.
Cut(d, S) ==
  /\ link' = [c \in Clients |->
                IF link[c] = d /\ cpc[c] \in S THEN Nobody ELSE link[c]]
  /\ wire' = [c \in Clients |->
                IF wire[c] = d /\ cpc[c] \in S THEN Nobody ELSE wire[c]]

\* server.close() discards the backlog; the runtime unlinks the pathname on
\* its own, or leaves it for unlinkIfStillOurs.
StartDrain(d) ==
  /\ pc[d] = "serving"
  /\ stop[d]
  /\ Becomes(d, "draining")
  /\ endpoint' \in {endpoint, Nobody}
  /\ Cut(d, {"awaiting"})
  /\ UNCHANGED <<locks, stop, exit, key, rows, keys, cpc, asked, spawned, rpc, kills>>

\* Mutant: the lifecycle lock goes with the sockets.
MEndDrain(d) ==
  /\ pc[d] = "draining"
  /\ Becomes(d, "flushing")
  /\ Cut(d, ClientSteps)
  /\ NoLongerWriter("lifecycle")
  /\ UNCHANGED <<readers, stop, exit, key, endpoint, rows, keys, cpc, asked, spawned, rpc, kills>>

\* Mutant: the drain has no deadline.
MEndDrainIdle(d) ==
  /\ pc[d] = "draining"
  /\ \A a \in Askers : owner[a] = d => row[a] # "running"
  /\ Becomes(d, "flushing")
  /\ Cut(d, ClientSteps)
  /\ UNCHANGED <<locks, stop, exit, key, endpoint, rows, keys, cpc, asked, spawned, rpc, kills>>

\* Nothing is left to wait for, or the drain deadline is here.
EndDrain(d) ==
  /\ pc[d] = "draining"
  /\ Becomes(d, "flushing")
  /\ Cut(d, ClientSteps)
  /\ UNCHANGED <<locks, stop, exit, key, endpoint, rows, keys, cpc, asked, spawned, rpc, kills>>

UnlinkIfStillOurs(d) ==
  /\ pc[d] = "flushing"
  /\ endpoint' = IF endpoint = d THEN Nobody ELSE endpoint
  /\ Leaves(d, "ok")
  /\ Becomes(d, "releasing")
  /\ UNCHANGED <<locks, stop, key, rows, keys, clients, rpc, kills>>

-----------------------------------------------------------------------------
(* A daemon leaves: from here to its exit no timer and no socket of the     *)
(* process is serviced, so what the drain abandoned does not resume.        *)

ReleaseMaintenance(d) ==
  /\ pc[d] = "releasing"
  /\ NoLongerReader(d, "maintenance")
  /\ Becomes(d, "unstamping")
  /\ UNCHANGED <<writer, stop, exit, key, endpoint, rows, keys, clients, rpc, kills>>

\* clearHolder: again a commit, skipped when it is BUSY.
Unstamp(d) ==
  /\ pc[d] = "unstamping"
  /\ IF Free("maintenance")
     THEN BecomesWriter(d, "maintenance") /\ Becomes(d, "erasing")
     ELSE UNCHANGED writer /\ Becomes(d, "unlocking")
  /\ UNCHANGED <<readers, stop, exit, key, endpoint, rows, keys, clients, rpc, kills>>

Unstamped(d) ==
  /\ pc[d] = "erasing"
  /\ NoLongerWriter("maintenance")
  /\ Becomes(d, "unlocking")
  /\ UNCHANGED <<readers, stop, exit, key, endpoint, rows, keys, clients, rpc, kills>>

ReleaseLifecycle(d) ==
  /\ pc[d] = "unlocking"
  /\ NoLongerWriter("lifecycle")
  /\ Becomes(d, "exiting")
  /\ UNCHANGED <<readers, stop, exit, key, endpoint, rows, keys, clients, rpc, kills>>

Exit(d) ==
  /\ pc[d] = "exiting"
  /\ Becomes(d, "gone")
  /\ UNCHANGED <<locks, stop, exit, key, endpoint, rows, keys, clients, rpc, kills>>

\* SIGKILL: no finally runs.
Kill(d) ==
  /\ Running(d)
  /\ kills < MaxKills
  /\ kills' = kills + 1
  /\ LocksDropped(d)
  /\ Leaves(d, "killed")
  /\ Becomes(d, "gone")
  /\ Cut(d, ClientSteps)
  /\ UNCHANGED <<stop, key, endpoint, rows, keys, cpc, asked, spawned, rpc>>

-----------------------------------------------------------------------------
(* daemonRequest: the decision table *)

Goes(c, step) == cpc' = [cpc EXCEPT ![c] = step]

Ask(c) ==
  /\ cpc[c] = "idle"
  /\ Goes(c, "row 1")
  /\ UNCHANGED <<locks, daemons, rows, keys, link, wire, asked, spawned, rpc, kills>>

\* Row 1, probeSharedWithin: SHARED for an instant.  A commit is over before
\* the window is, so what is BUSY throughout is a transaction held open; but
\* a deadline that is near leaves no window, and one BUSY is enough.
ProbeMaintenance(c) ==
  /\ cpc[c] = "row 1"
  /\ Free("maintenance")
  /\ BecomesReader(c, "maintenance")
  /\ Goes(c, "probing 1")
  /\ UNCHANGED <<writer, daemons, rows, keys, link, wire, asked, spawned, rpc, kills>>

MaintenanceProbed(c) ==
  /\ cpc[c] = "probing 1"
  /\ NoLongerReader(c, "maintenance")
  /\ Goes(c, "row 2")
  /\ UNCHANGED <<writer, daemons, rows, keys, link, wire, asked, spawned, rpc, kills>>

Holding == {"holding", "opened", "staged", "resealed", "releasing"}

RotationSeen(c) ==
  /\ cpc[c] = "row 1"
  /\ \/ \E r \in Rotators : writer["maintenance"] = r /\ rpc[r] \in Holding
     \/ c \notin Patient /\ ~Free("maintenance")
  /\ Goes(c, "rotation")
  /\ UNCHANGED <<locks, daemons, rows, keys, link, wire, asked, spawned, rpc, kills>>

\* Rows 2 to 4, probeShared.
ProbeLifecycle(c) ==
  /\ cpc[c] = "row 2"
  /\ IF Free("lifecycle")
     THEN BecomesReader(c, "lifecycle") /\ Goes(c, "probing 2")
     ELSE UNCHANGED readers /\ Goes(c, "connecting")
  /\ UNCHANGED <<writer, daemons, rows, keys, link, wire, asked, spawned, rpc, kills>>

LifecycleProbed(c) ==
  /\ cpc[c] = "probing 2"
  /\ NoLongerReader(c, "lifecycle")
  /\ Goes(c, "row 4")
  /\ UNCHANGED <<writer, daemons, rows, keys, link, wire, asked, spawned, rpc, kills>>

Listening == endpoint # Nobody /\ pc[endpoint] = "serving"

TryConnect(c) ==
  /\ cpc[c] \in {"connecting", "waiting"}
  /\ IF Listening
     THEN /\ link' = [link EXCEPT ![c] = endpoint]
          /\ Goes(c, "awaiting")
     ELSE /\ UNCHANGED link
          /\ Goes(c, "waiting")
  /\ UNCHANGED <<locks, daemons, rows, keys, wire, asked, spawned, rpc, kills>>

\* waitForStartOrRelease: the holder is gone, back to the top.
Released(c) ==
  /\ cpc[c] = "waiting"
  /\ Free("lifecycle")
  /\ Goes(c, "row 1")
  /\ UNCHANGED <<locks, daemons, rows, keys, link, wire, asked, spawned, rpc, kills>>

\* awaitReady: the connection is gone before READY, back to the top.
NotReady(c) ==
  /\ cpc[c] = "awaiting"
  /\ link[c] = Nobody
  /\ Goes(c, "row 1")
  /\ UNCHANGED <<locks, daemons, rows, keys, link, wire, asked, spawned, rpc, kills>>

\* Row 4, once.  The child goes its own way; or it never came to be, which
\* the client does not learn.
Spawns(a) ==
  /\ cpc[a] = "row 4"
  /\ a \notin spawned
  /\ spawned' = spawned \union {a}
  /\ Goes(a, "holding")

Spawn(a, d) ==
  /\ Spawns(a)
  /\ d \notin ByHand
  /\ pc[d] = "unborn"
  /\ Becomes(d, "starting")
  /\ UNCHANGED <<locks, stop, exit, key, endpoint, rows, keys, link, wire, asked, rpc, kills>>

SpawnFails(a) ==
  /\ Spawns(a)
  /\ UNCHANGED <<locks, daemons, rows, keys, link, wire, asked, rpc, kills>>

\* waitForLifecycleHeld.
Held(a) ==
  /\ cpc[a] = "holding"
  /\ ~Free("lifecycle")
  /\ Goes(a, "row 1")
  /\ UNCHANGED <<locks, daemons, rows, keys, link, wire, asked, spawned, rpc, kills>>

Unavailable(c) ==
  /\ cpc[c] = "row 4"
  /\ c \in spawned \union Stoppers
  /\ Goes(c, "unavailable")
  /\ UNCHANGED <<locks, daemons, rows, keys, link, wire, asked, spawned, rpc, kills>>

\* The deadline, before a byte was written.
Expire(c) ==
  /\ cpc[c] \in Asking \ {"probing 1", "probing 2"}
  /\ c \notin Patient
  /\ Goes(c, "unavailable")
  /\ link' = [link EXCEPT ![c] = Nobody]
  /\ UNCHANGED <<locks, daemons, rows, keys, wire, asked, spawned, rpc, kills>>

-----------------------------------------------------------------------------
(* exchange *)

\* From the first byte on nothing is tried again.  The bytes are lost if
\* the connection is.
Send(c) ==
  /\ cpc[c] = "ready"
  /\ wire' = [wire EXCEPT ![c] = link[c]]
  /\ asked' = IF c \in Stoppers THEN [asked EXCEPT ![c] = link[c]] ELSE asked
  /\ Goes(c, "sent")
  /\ UNCHANGED <<locks, daemons, rows, keys, link, spawned, rpc, kills>>

\* Mutant: a request whose answer is lost is reported as never made.
MOutcomeUnknown(c) ==
  /\ cpc[c] = "sent"
  /\ link[c] = Nobody \/ c \notin Patient
  /\ Goes(c, "unavailable")
  /\ link' = [link EXCEPT ![c] = Nobody]
  /\ UNCHANGED <<locks, daemons, rows, keys, wire, asked, spawned, rpc, kills>>

\* The connection is lost, or the deadline passes: the request may have run,
\* and bytes already written may still be read.
OutcomeUnknown(c) ==
  /\ cpc[c] = "sent"
  /\ link[c] = Nobody \/ c \notin Patient
  /\ Goes(c, IF c \in Stoppers THEN "polling" ELSE "unknown")
  /\ link' = [link EXCEPT ![c] = Nobody]
  /\ UNCHANGED <<locks, daemons, rows, keys, wire, asked, spawned, rpc, kills>>

-----------------------------------------------------------------------------
(* conduit daemon stop, after the request *)

\* Mutant: the acknowledgement is the evidence.
MStopVerified(s) ==
  /\ cpc[s] = "polling"
  /\ Goes(s, "stopped")
  /\ UNCHANGED <<locks, daemons, rows, keys, link, wire, asked, spawned, rpc, kills>>

\* runStop: the lifecycle lock is the evidence.
StopVerified(s) ==
  /\ cpc[s] = "polling"
  /\ Free("lifecycle")
  /\ Goes(s, "stopped")
  /\ UNCHANGED <<locks, daemons, rows, keys, link, wire, asked, spawned, rpc, kills>>

StopTimesOut(s) ==
  /\ cpc[s] = "polling"
  /\ s \notin Patient
  /\ ~Free("lifecycle")
  /\ Goes(s, "still draining")
  /\ UNCHANGED <<locks, daemons, rows, keys, link, wire, asked, spawned, rpc, kills>>

\* unavailableExitCode.
AbsenceChecked(s) ==
  /\ cpc[s] = "unavailable"
  /\ Goes(s, IF Free("lifecycle") THEN "not running" ELSE "unreachable")
  /\ UNCHANGED <<locks, daemons, rows, keys, link, wire, asked, spawned, rpc, kills>>

-----------------------------------------------------------------------------
(* conduit key rotate *)

Steps(r, step) == rpc' = [rpc EXCEPT ![r] = step]

Rotate(r) ==
  /\ rpc[r] = "idle"
  /\ IF Free("maintenance")
     THEN BecomesWriter(r, "maintenance") /\ Steps(r, "stamping")
     ELSE UNCHANGED writer /\ Steps(r, "acquiring")
  /\ UNCHANGED <<readers, daemons, rows, keys, clients, kills>>

RotatorStamped(r) ==
  /\ rpc[r] = "stamping"
  /\ NoLongerWriter("maintenance")
  /\ Steps(r, "acquiring")
  /\ UNCHANGED <<readers, daemons, rows, keys, clients, kills>>

\* BEGIN EXCLUSIVE with no busy timeout: PENDING first.
BeginExclusive(r) ==
  /\ rpc[r] = "acquiring"
  /\ IF Free("maintenance")
     THEN BecomesWriter(r, "maintenance") /\ Steps(r, "pending")
     ELSE UNCHANGED writer /\ Steps(r, "unstamping")
  /\ UNCHANGED <<readers, daemons, rows, keys, clients, kills>>

\* EXCLUSIVE, or BUSY because of a reader.
ExclusiveOrBusy(r) ==
  /\ rpc[r] = "pending"
  /\ IF readers["maintenance"] = {}
     THEN UNCHANGED writer /\ Steps(r, "holding")
     ELSE NoLongerWriter("maintenance") /\ Steps(r, "unstamping")
  /\ UNCHANGED <<readers, daemons, rows, keys, clients, kills>>

\* A leftover master-key.next refuses the run; the canary proves the key.
Preflight(r) ==
  /\ rpc[r] = "holding"
  /\ Steps(r, IF nextKey = Nobody /\ fileKey = dbKey THEN "opened" ELSE "releasing")
  /\ UNCHANGED <<locks, daemons, rows, keys, clients, kills>>

\* The new key is on disk before the database is touched; a failure takes
\* it back, if it can.
StageKey(r) ==
  /\ rpc[r] = "opened"
  /\ \/ nextKey' = r /\ Steps(r, "staged")
     \/ nextKey' \in {Nobody, r} /\ Steps(r, "releasing")
  /\ UNCHANGED <<locks, daemons, rows, dbKey, fileKey, clients, kills>>

\* One transaction.  A failure that left the rows alone takes the staged key
\* back; one whose outcome is uncertain leaves it.
Reseal(r) ==
  /\ rpc[r] = "staged"
  /\ \/ dbKey' = nextKey /\ UNCHANGED nextKey /\ Steps(r, "resealed")
     \/ UNCHANGED dbKey /\ nextKey' = Nobody /\ Steps(r, "releasing")
     \/ dbKey' \in {dbKey, nextKey} /\ UNCHANGED nextKey /\ Steps(r, "releasing")
  /\ UNCHANGED <<locks, daemons, rows, fileKey, clients, kills>>

\* renameSync, which may fail.
Promote(r) ==
  /\ rpc[r] = "resealed"
  /\ \/ fileKey' = nextKey /\ nextKey' = Nobody
     \/ UNCHANGED <<fileKey, nextKey>>
  /\ Steps(r, "releasing")
  /\ UNCHANGED <<locks, daemons, rows, dbKey, clients, kills>>

RotatorReleases(r) ==
  /\ rpc[r] = "releasing"
  /\ NoLongerWriter("maintenance")
  /\ Steps(r, "unstamping")
  /\ UNCHANGED <<readers, daemons, rows, keys, clients, kills>>

RotatorUnstamps(r) ==
  /\ rpc[r] = "unstamping"
  /\ IF Free("maintenance")
     THEN BecomesWriter(r, "maintenance") /\ Steps(r, "erasing")
     ELSE UNCHANGED writer /\ Steps(r, "done")
  /\ UNCHANGED <<readers, daemons, rows, keys, clients, kills>>

RotatorUnstamped(r) ==
  /\ rpc[r] = "erasing"
  /\ NoLongerWriter("maintenance")
  /\ Steps(r, "done")
  /\ UNCHANGED <<readers, daemons, rows, keys, clients, kills>>

KillRotator(r) ==
  /\ rpc[r] \notin {"idle", "done"}
  /\ kills < MaxKills
  /\ kills' = kills + 1
  /\ LocksDropped(r)
  /\ Steps(r, "done")
  /\ UNCHANGED <<daemons, rows, keys, clients>>

-----------------------------------------------------------------------------
(* The specification *)

Starting(d) ==
  \/ Climb(d) \/ Pend(d) \/ BackOff(d) \/ Take(d) \/ AlreadyRunning(d)
  \/ Stamp(d) \/ Stamped(d) \/ Share(d) \/ RotationInProgress(d)
  \/ OpenStore(d) \/ (\E a \in Askers : SweepRow(d, a)) \/ SweepEnds(d)
  \/ ClearStaleEndpoint(d) \/ Bind(d)

Serving(d) ==
  \/ \E c \in Clients : Accept(d, c)
  \/ \E a \in Askers : Begin(d, a)
  \/ \E s \in Stoppers : AcceptStop(d, s)

Finishing(d) == \E a \in Askers : Finish(d, a)

Leaving(d) ==
  \/ StartDrain(d) \/ EndDrain(d) \/ UnlinkIfStillOurs(d)
  \/ ReleaseMaintenance(d) \/ Unstamp(d) \/ Unstamped(d)
  \/ ReleaseLifecycle(d) \/ Exit(d)

DaemonStep(d) == Starting(d) \/ Serving(d) \/ Finishing(d) \/ Leaving(d)

Requesting(c) ==
  \/ ProbeMaintenance(c) \/ MaintenanceProbed(c) \/ RotationSeen(c)
  \/ ProbeLifecycle(c) \/ LifecycleProbed(c) \/ TryConnect(c)
  \/ Released(c) \/ NotReady(c) \/ Unavailable(c) \/ Send(c)
  \/ OutcomeUnknown(c)

AskerStep(a) == Requesting(a) \/ (\E d \in Daemons : Spawn(a, d)) \/ Held(a)

StopperStep(s) == Requesting(s) \/ StopVerified(s) \/ StopTimesOut(s) \/ AbsenceChecked(s)

RotatorStep(r) ==
  \/ RotatorStamped(r) \/ BeginExclusive(r) \/ ExclusiveOrBusy(r)
  \/ Preflight(r) \/ StageKey(r) \/ Reseal(r) \/ Promote(r)
  \/ RotatorReleases(r) \/ RotatorUnstamps(r) \/ RotatorUnstamped(r)

\* What happens unless something is broken.
QuietNext ==
  \/ \E d \in Daemons : StartByHand(d) \/ DaemonStep(d)
  \/ \E a \in Askers : AskerStep(a)
  \/ \E s \in Stoppers : StopperStep(s)
  \/ \E c \in Clients : Ask(c) \/ Expire(c)
  \/ \E r \in Rotators : Rotate(r) \/ RotatorStep(r)

Next ==
  \/ QuietNext
  \/ \E d \in Daemons : StartFails(d) \/ Signal(d) \/ Kill(d)
  \/ \E a \in Askers : SpawnFails(a)
  \/ \E r \in Rotators : KillRotator(r)

Spec == Init /\ [][Next]_vars

\* Nobody loses a process for want of processor time: what is under way goes
\* on.  Nothing obliges anyone to ask, to signal, to rotate or to kill, nor
\* an execution to finish: an upstream may hang for ever.
Fairness ==
  /\ \A d \in Daemons : WF_vars(Starting(d)) /\ WF_vars(Serving(d)) /\ WF_vars(Leaving(d))
  /\ \A a \in Askers : WF_vars(AskerStep(a))
  /\ \A s \in Stoppers : WF_vars(StopperStep(s))
  /\ \A r \in Rotators : WF_vars(RotatorStep(r))

FairSpec == Spec /\ Fairness

-----------------------------------------------------------------------------
(* Safety *)

\* Processes with the database open for writing.
OpenDaemons ==
  {d \in Daemons : pc[d] \in {"sweeping", "clearing", "binding", "serving",
                              "draining", "flushing"}}
OpenRotators ==
  {r \in Rotators : rpc[r] \in {"opened", "staged", "resealed", "releasing"}}

\* One process at a time has the database open: a daemon from the sweep to
\* the end of its drain, or a rotation from its preflight to its last vacuum.
OneOwner ==
  \A p, q \in OpenDaemons \union OpenRotators : p = q

\* The pathname leads to the daemon that serves: no predecessor that leaves
\* late and no successor that cleans up takes it away.
PathLeadsToDaemon ==
  \A d \in Daemons : pc[d] = "serving" => endpoint = d

\* One process has the database open, and if it serves, clients find it.
DatabaseIsOwned == OneOwner /\ PathLeadsToDaemon

\* While a daemon serves, every row left running is one of its own: what a
\* dead daemon stranded was settled before the endpoint was bound.
OrphansAreSettled ==
  \A d \in Daemons : Works(d) =>
    \A a \in Askers : row[a] = "running" => owner[a] = d

\* The key in a daemon's memory opens what it reads and seals what its
\* successor will read, whatever a rotation does meanwhile.
KeyIsCurrent ==
  \A d \in OpenDaemons : key[d] = dbKey

\* Whenever a rotation stops, a file on disk opens the database.
KeyIsOnDisk ==
  dbKey \in {fileKey, nextKey}

\* No key is lost: not to the daemon that serves, not to whoever opens the database
\* after a rotation that was refused, failed or was killed at any step.
KeysAreSafe == KeyIsCurrent /\ KeyIsOnDisk

\* DaemonUnavailable means that nothing was written: no daemon has begun or
\* will begin the request of a client that was told so.
UnavailableNeverRan ==
  \A a \in Askers : cpc[a] \in {"unavailable", "rotation"} =>
    row[a] = "none" /\ wire[a] = Nobody

-----------------------------------------------------------------------------
(* Action properties *)

\* A request is begun once, by one daemon, however often its client went
\* round the table and however many daemons came and went.
RunsOnce ==
  [][\A a \in Askers :
       (row[a] # "none" /\ row'[a] = "running") => UNCHANGED <<row[a], owner[a]>>]_vars

\* The sweep takes no row from a daemon that could still finish it.
SweepSparesTheLiving ==
  [][\A a \in Askers :
       (row[a] = "running" /\ row'[a] = "swept") => pc[owner[a]] \in {"exiting", "gone"}]_vars

\* A row has one life: it is begun once, and swept only when its owner cannot finish it.
RowsLiveOnce == RunsOnce /\ SweepSparesTheLiving

\* "stopped" and "not running" are printed at an instant when no daemon has
\* the database open, and the one that was asked is on its way out for good.
StopReportIsTrue ==
  [][\A s \in Stoppers :
       (cpc[s] # cpc'[s] /\ cpc'[s] \in {"stopped", "not running"})
         => OpenDaemons = {} /\ (asked[s] # Nobody => pc[asked[s]] \in {"exiting", "gone"})]_vars

-----------------------------------------------------------------------------
(* Liveness *)

\* A daemon that was asked to stop is gone in the end, wherever the request
\* met it.
StopEnds ==
  \A d \in Daemons : (stop[d] /\ Running(d)) ~> (pc[d] = "gone")

\* Executions end.
WorkIsDone == \A d \in Daemons : WF_vars(Finishing(d))

\* The lifecycle lock is with a daemon that will give it back: it was told to
\* stop, or it failed to start.
GivesWay(d) == writer["lifecycle"] = d /\ (stop[d] \/ exit[d] = "failed")

\* The child of some client never came to be.
SpawnFailed ==
  Cardinality({d \in Daemons \ ByHand : pc[d] # "unborn"}) < Cardinality(spawned)

\* A client whose deadline is long enough hears from a daemon that took its
\* request: whoever wins the race to start one, and though it met one that was
\* leaving.  It spawns once, so it may be left without only if after its own spawn
\* the lock is still, or again, with a daemon that gives way; a daemon that was
\* gone before the spawn is no excuse.
AskersConverge ==
  WorkIsDone =>
    \A a \in Patient \cap Askers :
      (cpc[a] = "row 1" /\ a \notin spawned)
        ~> \/ cpc[a] \in {"answered", "unknown"}
           \/ a \in spawned /\ (SpawnFailed \/ \E d \in Daemons : GivesWay(d))

-----------------------------------------------------------------------------
(* The inductive invariant *)

\* Stages that hold a lock database in some mode.
HoldsLifecycle ==
  {"taking", "stamping", "committing", "sharing", "opening", "sweeping",
   "clearing", "binding", "serving", "draining", "flushing", "releasing",
   "unstamping", "erasing", "unlocking"}
SharesMaintenance ==
  {"opening", "sweeping", "clearing", "binding", "serving", "draining",
   "flushing", "releasing"}
WritesMaintenance == {"committing", "erasing"}
RotatorWrites == Holding \union {"stamping", "pending", "erasing"}

\* Where a process is and what it holds are one and the same.
LocksHeld ==
  /\ \A d \in Daemons : pc[d] \in HoldsLifecycle <=> writer["lifecycle"] = d
  /\ \A d \in Daemons : pc[d] \in WritesMaintenance <=> writer["maintenance"] = d
  /\ \A d \in Daemons : pc[d] \in SharesMaintenance <=> d \in readers["maintenance"]
  /\ \A r \in Rotators : rpc[r] \in RotatorWrites <=> writer["maintenance"] = r
  /\ \A r \in Rotators : rpc[r] \in Holding => readers["maintenance"] = {}

\* Where a rotation is says which file has which key.
KeysStaged ==
  \A r \in Rotators :
    /\ rpc[r] \in {"opened", "staged"} => fileKey = dbKey
    /\ rpc[r] = "staged" => nextKey = r
    /\ rpc[r] = "resealed" => nextKey = dbKey

\* A daemon that once served is past that for good.
AfterBind ==
  {"serving", "draining", "flushing", "releasing", "unstamping", "erasing",
   "unlocking", "exiting", "gone"}

RowsOwned ==
  /\ \A a \in Askers :
       row[a] = "running" => owner[a] \in Daemons /\ pc[owner[a]] \in AfterBind
  /\ \A d \in Daemons : pc[d] \in {"clearing", "binding", "serving", "draining"} =>
       \A a \in Askers : row[a] = "running" => owner[a] = d

Connected ==
  /\ \A c \in Clients : link[c] # Nobody => pc[link[c]] \in AfterBind
  /\ \A s \in Stoppers : asked[s] # Nobody => pc[asked[s]] \in AfterBind

\* Before the first byte there is nothing on the wire and no row; with the
\* request still on the wire there is no row.
Unwritten ==
  \A a \in Askers :
    /\ cpc[a] \in Asking \union {"idle", "ready", "unavailable", "rotation"} =>
         row[a] = "none" /\ wire[a] = Nobody
    /\ wire[a] # Nobody => row[a] = "none"

\* What every step preserves.
IInv ==
  /\ TypeOK /\ LocksHeld /\ KeysStaged /\ KeyIsOnDisk /\ KeyIsCurrent
  /\ PathLeadsToDaemon /\ RowsOwned /\ Connected /\ Unwritten

=============================================================================
