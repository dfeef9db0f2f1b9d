----------------------- MODULE DaemonLifecycle_proofs -----------------------
(***************************************************************************)
(* Theorems about DaemonLifecycle, for any sets of daemons, clients, stops *)
(* and rotations, and any number of kills.                                 *)
(***************************************************************************)
EXTENDS DaemonLifecycle, TLAPS

-----------------------------------------------------------------------------
(* Steps by who takes them *)

\* What a client does, but for the daemon it spawns.
ClientStep(c) ==
  \/ Ask(c) \/ Requesting(c) \/ Expire(c)
  \/ c \in Askers /\ (Held(c) \/ SpawnFails(c))
  \/ c \in Stoppers /\ (StopVerified(c) \/ StopTimesOut(c) \/ AbsenceChecked(c))

RotatorAction(r) == Rotate(r) \/ RotatorStep(r) \/ KillRotator(r)

\* The start of a daemon up to its bind, however it came to be.
StartStep(d) ==
  \/ StartByHand(d) \/ Starting(d) \/ StartFails(d)
  \/ \E a \in Askers : Spawn(a, d)

ServiceStep(d) == Serving(d) \/ Finishing(d) \/ Signal(d)

LeavingStep(d) == Leaving(d) \/ Kill(d)

LEMMA StepsByActor ==
  ASSUME [Next]_vars
  PROVE  \/ \E d \in Daemons : StartStep(d) \/ ServiceStep(d) \/ LeavingStep(d)
         \/ \E c \in Clients : ClientStep(c)
         \/ \E r \in Rotators : RotatorAction(r)
         \/ UNCHANGED vars
BY DEF Next, QuietNext, DaemonStep, AskerStep, StopperStep, StartStep, ServiceStep, LeavingStep,
   ClientStep, RotatorAction, Clients

-----------------------------------------------------------------------------
(* Types *)

LEMMA ProcessFacts ==
  /\ Nobody \notin Daemons /\ Nobody \notin Clients /\ Nobody \notin Rotators
  /\ Askers \subseteq Clients /\ Stoppers \subseteq Clients
  /\ \A d \in Daemons : d \notin Clients /\ d \notin Rotators
  /\ \A c \in Clients : c \notin Rotators
  /\ \A a \in Askers : a \notin Stoppers
  /\ Daemons \subseteq Processes /\ Clients \subseteq Processes /\ Rotators \subseteq Processes
  /\ Rotators \subseteq Keys
  /\ MaxKills \in Nat
BY ProcessesAssumption DEF Clients, Processes, Keys

LEMMA TypeInit == Init => TypeOK
BY ProcessFacts DEF Init, TypeOK, Keys, Stages, Reasons, ClientSteps, RotatorSteps

LEMMA StartTypes ==
  ASSUME TypeOK, NEW d \in Daemons, StartStep(d)
  PROVE  TypeOK'
<1> USE ProcessFacts DEF TypeOK, locks, daemons, rows, keys, clients
<1>1. CASE Climb(d) \/ Pend(d) \/ BackOff(d) \/ Take(d)
  BY <1>1 DEF Climb, Pend, BackOff, Take, Becomes, BecomesReader, NoLongerReader, BecomesWriter,
     LockFiles, Stages
<1>2. CASE Stamp(d) \/ Stamped(d) \/ Share(d)
  BY <1>2 DEF Stamp, Stamped, Share, Becomes, BecomesReader, BecomesWriter, NoLongerWriter,
     LockFiles, Stages
<1>3. ASSUME NEW stage \in Stages, NEW reason \in Reasons,
             Becomes(d, stage), exit' = exit \/ Leaves(d, reason)
      PROVE  pc' \in [Daemons -> Stages] /\ exit' \in [Daemons -> Reasons]
  BY <1>3 DEF Becomes, Leaves
<1>8. CASE AlreadyRunning(d) \/ RotationInProgress(d) \/ StartFails(d)
  <2>1. pc' \in [Daemons -> Stages] /\ exit' \in [Daemons -> Reasons]
    BY <1>3, <1>8 DEF AlreadyRunning, RotationInProgress, StartFails, Stages, Reasons
  <2> QED
    BY <1>8, <2>1 DEF AlreadyRunning, RotationInProgress, StartFails
<1>7. CASE OpenStore(d)
  <2>1. pc' \in [Daemons -> Stages] /\ exit' \in [Daemons -> Reasons]
    BY <1>3, <1>7 DEF OpenStore, Stages, Reasons
  <2> QED
    BY <1>7, <2>1 DEF OpenStore
<1>4. CASE StartByHand(d) \/ ClearStaleEndpoint(d) \/ Bind(d)
  BY <1>4 DEF StartByHand, ClearStaleEndpoint, Bind, Becomes, Stages
<1>9. CASE SweepEnds(d)
  <2>1. pc' \in [Daemons -> Stages] /\ exit' \in [Daemons -> Reasons]
    BY <1>3, <1>9 DEF SweepEnds, Stages, Reasons
  <2> QED
    BY <1>9, <2>1 DEF SweepEnds
<1>5. ASSUME NEW a \in Askers, SweepRow(d, a)
      PROVE  TypeOK'
  BY <1>5 DEF SweepRow
<1>6. ASSUME NEW a \in Askers, Spawn(a, d)
      PROVE  TypeOK'
  BY <1>6 DEF Spawn, Spawns, Goes, Becomes, Stages, ClientSteps, Asking
<1> QED
  BY <1>1, <1>2, <1>4, <1>5, <1>6, <1>7, <1>8, <1>9 DEF StartStep, Starting

LEMMA ServiceTypes ==
  ASSUME TypeOK, NEW d \in Daemons, ServiceStep(d)
  PROVE  TypeOK'
<1> USE ProcessFacts DEF TypeOK, locks, daemons, rows, keys, clients
<1>1. ASSUME NEW c \in Clients, Accept(d, c)
      PROVE  TypeOK'
  BY <1>1 DEF Accept, ClientSteps
<1>2. ASSUME NEW a \in Askers, Begin(d, a)
      PROVE  TypeOK'
  BY <1>2 DEF Begin
<1>3. ASSUME NEW a \in Askers, Finish(d, a)
      PROVE  TypeOK'
  <2>0. \/ UNCHANGED <<cpc, link>>
        \/ cpc' = [cpc EXCEPT ![a] = "answered"] /\ link' = [link EXCEPT ![a] = Nobody]
    BY <1>3 DEF Finish
  <2>1. cpc' \in [Clients -> ClientSteps] /\ link' \in [Clients -> Daemons \union {Nobody}]
    BY <2>0 DEF ClientSteps, Reports
  <2>2. row' \in [Askers -> {"none", "running", "done", "swept"}]
    BY <1>3 DEF Finish
  <2> QED
    BY <1>3, <2>1, <2>2 DEF Finish
<1>4. ASSUME NEW s \in Stoppers, AcceptStop(d, s)
      PROVE  TypeOK'
  BY <1>4 DEF AcceptStop, ClientSteps
<1>5. CASE Signal(d)
  BY <1>5 DEF Signal
<1> QED
  BY <1>1, <1>2, <1>3, <1>4, <1>5 DEF ServiceStep, Serving, Finishing

LEMMA CutTypes ==
  ASSUME TypeOK, NEW d \in Daemons, NEW S, Cut(d, S)
  PROVE  /\ link' \in [Clients -> Daemons \union {Nobody}]
         /\ wire' \in [Clients -> Daemons \union {Nobody}]
BY DEF TypeOK, Cut

LEMMA LeavingTypes ==
  ASSUME TypeOK, NEW d \in Daemons, LeavingStep(d)
  PROVE  TypeOK'
<1> USE ProcessFacts DEF TypeOK, locks, daemons, rows, keys, clients
<1>1. CASE StartDrain(d) \/ EndDrain(d)
  <2>1. PICK S : Cut(d, S)
    BY <1>1 DEF StartDrain, EndDrain
  <2> QED
    BY <1>1, <2>1, CutTypes DEF StartDrain, EndDrain, Becomes, Stages
<1>2. CASE ReleaseMaintenance(d) \/ Unstamp(d) \/ Unstamped(d)
  BY <1>2 DEF ReleaseMaintenance, Unstamp, Unstamped, Becomes, NoLongerReader, BecomesWriter,
     NoLongerWriter, LockFiles, Stages
<1>5. CASE UnlinkIfStillOurs(d)
  BY <1>5 DEF UnlinkIfStillOurs, Becomes, Leaves, Stages, Reasons
<1>3. CASE ReleaseLifecycle(d) \/ Exit(d)
  BY <1>3 DEF ReleaseLifecycle, Exit, Becomes, NoLongerWriter, LockFiles, Stages
<1>4. CASE Kill(d)
  <2>1. Cut(d, ClientSteps)
    BY <1>4 DEF Kill
  <2>2. /\ writer' \in [LockFiles -> Processes \union {Nobody}]
        /\ readers' \in [LockFiles -> SUBSET Processes]
    BY <1>4 DEF Kill, LocksDropped
  <2>3. pc' \in [Daemons -> Stages] /\ exit' \in [Daemons -> Reasons]
    BY <1>4 DEF Kill, Becomes, Leaves, Stages, Reasons
  <2>4. kills' \in Nat
    BY <1>4 DEF Kill
  <2> QED
    BY <1>4, <2>1, <2>2, <2>3, <2>4, CutTypes DEF Kill
<1> QED
  BY <1>1, <1>2, <1>3, <1>4, <1>5 DEF LeavingStep, Leaving

\* A client step changes at most where the client is, its connection, and
\* what it probes.
LEMMA GoesType ==
  ASSUME TypeOK, NEW c \in Clients, ClientStep(c)
  PROVE  cpc' \in [Clients -> ClientSteps]
<1>1. SUFFICES \E step \in ClientSteps : cpc' = [cpc EXCEPT ![c] = step]
  BY DEF TypeOK
<1>2. PICK step : Goes(c, step) /\ step \in Asking \union Reports \union {"ready", "sent", "polling"}
  <2> USE DEF Asking, Reports
  <2>1. CASE ProbeMaintenance(c) \/ MaintenanceProbed(c) \/ LifecycleProbed(c)
    BY <2>1 DEF ProbeMaintenance, MaintenanceProbed, LifecycleProbed
  <2>2. CASE ProbeLifecycle(c) \/ TryConnect(c)
    BY <2>2 DEF ProbeLifecycle, TryConnect
  <2>3. CASE Ask(c) \/ RotationSeen(c) \/ Released(c) \/ NotReady(c)
    BY <2>3 DEF Ask, RotationSeen, Released, NotReady
  <2>4. CASE Unavailable(c) \/ Expire(c) \/ Send(c) \/ OutcomeUnknown(c)
    BY <2>4 DEF Unavailable, Expire, Send, OutcomeUnknown
  <2>5. CASE Held(c) \/ SpawnFails(c)
    BY <2>5 DEF Held, SpawnFails, Spawns
  <2>6. CASE StopVerified(c) \/ StopTimesOut(c) \/ AbsenceChecked(c)
    BY <2>6 DEF StopVerified, StopTimesOut, AbsenceChecked
  <2> QED
    BY <2>1, <2>2, <2>3, <2>4, <2>5, <2>6 DEF ClientStep, Requesting
<1> QED
  BY <1>2 DEF Goes, ClientSteps

LEMMA ClientTypes ==
  ASSUME TypeOK, NEW c \in Clients, ClientStep(c)
  PROVE  TypeOK'
<1>0. cpc' \in [Clients -> ClientSteps]
  BY GoesType
<1> USE ProcessFacts, <1>0 DEF TypeOK, locks, daemons, rows, keys, clients
<1>1. CASE ProbeMaintenance(c) \/ MaintenanceProbed(c) \/ ProbeLifecycle(c) \/ LifecycleProbed(c)
  <2>1. PICK l \in LockFiles : readers' = readers \/ BecomesReader(c, l) \/ NoLongerReader(c, l)
    BY <1>1 DEF ProbeMaintenance, MaintenanceProbed, ProbeLifecycle, LifecycleProbed, LockFiles
  <2>2. readers' \in [LockFiles -> SUBSET Processes]
    BY <2>1 DEF BecomesReader, NoLongerReader
  <2> QED
    BY <1>1, <2>2 DEF ProbeMaintenance, MaintenanceProbed, ProbeLifecycle, LifecycleProbed
<1>3. CASE Ask(c) \/ RotationSeen(c) \/ Released(c) \/ NotReady(c) \/ Unavailable(c)
  BY <1>3 DEF Ask, RotationSeen, Released, NotReady, Unavailable
<1>4. CASE TryConnect(c) \/ Expire(c) \/ OutcomeUnknown(c)
  <2>1. PICK d \in Daemons \union {Nobody} : link' = link \/ link' = [link EXCEPT ![c] = d]
    <3>1. CASE TryConnect(c)
      BY <3>1 DEF TryConnect
    <3>2. CASE Expire(c) \/ OutcomeUnknown(c)
      BY <3>2 DEF Expire, OutcomeUnknown
    <3> QED
      BY <1>4, <3>1, <3>2
  <2>2. link' \in [Clients -> Daemons \union {Nobody}]
    BY <2>1
  <2> QED
    BY <1>4, <2>2 DEF TryConnect, Expire, OutcomeUnknown
<1>5. CASE Send(c)
  BY <1>5 DEF Send
<1>6. ASSUME c \in Askers, Held(c) \/ SpawnFails(c)
      PROVE  TypeOK'
  BY <1>6 DEF Held, SpawnFails, Spawns
<1>7. ASSUME c \in Stoppers, StopVerified(c) \/ StopTimesOut(c) \/ AbsenceChecked(c)
      PROVE  TypeOK'
  BY <1>7 DEF StopVerified, StopTimesOut, AbsenceChecked
<1> QED
  BY <1>1, <1>3, <1>4, <1>5, <1>6, <1>7 DEF ClientStep, Requesting

LEMMA RotatorTypes ==
  ASSUME TypeOK, KeysStaged, NEW r \in Rotators, RotatorAction(r)
  PROVE  TypeOK'
<1> USE ProcessFacts DEF TypeOK, locks, daemons, rows, keys, clients, Steps, RotatorSteps
<1>1. CASE Rotate(r) \/ RotatorStamped(r) \/ BeginExclusive(r) \/ ExclusiveOrBusy(r)
  BY <1>1 DEF Rotate, RotatorStamped, BeginExclusive, ExclusiveOrBusy, BecomesWriter,
     NoLongerWriter, LockFiles
<1>2. CASE RotatorReleases(r) \/ RotatorUnstamps(r) \/ RotatorUnstamped(r)
  BY <1>2 DEF RotatorReleases, RotatorUnstamps, RotatorUnstamped, BecomesWriter, NoLongerWriter,
     LockFiles
<1>3. CASE Preflight(r) \/ StageKey(r)
  BY <1>3 DEF Preflight, StageKey
<1>4. CASE Reseal(r) \/ Promote(r)
  BY <1>4 DEF Reseal, Promote, KeysStaged
<1>5. CASE KillRotator(r)
  <2>1. /\ writer' \in [LockFiles -> Processes \union {Nobody}]
        /\ readers' \in [LockFiles -> SUBSET Processes]
    BY <1>5 DEF KillRotator, LocksDropped
  <2> QED
    BY <1>5, <2>1 DEF KillRotator
<1> QED
  BY <1>1, <1>2, <1>3, <1>4, <1>5 DEF RotatorAction, RotatorStep

LEMMA TypeStep ==
  ASSUME TypeOK, KeysStaged, [Next]_vars
  PROVE  TypeOK'
<1>1. CASE UNCHANGED vars
  BY <1>1 DEF vars, locks, daemons, rows, keys, clients, TypeOK
<1> QED
  BY <1>1, StepsByActor, StartTypes, ServiceTypes, LeavingTypes, ClientTypes, RotatorTypes

-----------------------------------------------------------------------------
(* Locks *)

\* A client leaves everything but its own affairs alone, and comes to read
\* only what nobody writes.
ClientEffect ==
  /\ UNCHANGED <<writer, daemons, rows, keys, rpc>>
  /\ \A d \in Daemons : d \in readers'["maintenance"] <=> d \in readers["maintenance"]
  /\ readers["maintenance"] = {} /\ ~Free("maintenance") => readers'["maintenance"] = {}

LEMMA ClientsKeepOut ==
  ASSUME TypeOK, NEW c \in Clients, ClientStep(c)
  PROVE  ClientEffect
<1> USE DEF ClientEffect
<1>1. c \notin Daemons
  BY ProcessFacts
<1>2. UNCHANGED <<writer, daemons, rows, keys, rpc>>
  BY DEF ClientStep, Requesting, Ask, ProbeMaintenance, MaintenanceProbed, RotationSeen,
     ProbeLifecycle, LifecycleProbed, TryConnect, Released, NotReady, Unavailable, Expire, Send,
     OutcomeUnknown, Held, SpawnFails, Spawns, StopVerified, StopTimesOut, AbsenceChecked, locks
<1>3. CASE readers'["maintenance"] = readers["maintenance"]
  BY <1>2, <1>3
<1>4. CASE ProbeMaintenance(c) \/ MaintenanceProbed(c)
  <2>1. \/ readers'["maintenance"] = readers["maintenance"] \union {c} /\ Free("maintenance")
        \/ readers'["maintenance"] = readers["maintenance"] \ {c}
    BY <1>4 DEF ProbeMaintenance, MaintenanceProbed, BecomesReader, NoLongerReader, TypeOK,
       LockFiles
  <2> QED
    BY <1>1, <1>2, <2>1
<1>5. CASE ProbeLifecycle(c) \/ LifecycleProbed(c)
  <2>1. readers'["maintenance"] = readers["maintenance"]
    BY <1>5 DEF ProbeLifecycle, LifecycleProbed, BecomesReader, NoLongerReader, TypeOK, LockFiles
  <2> QED
    BY <1>2, <2>1
<1>6. \/ ProbeMaintenance(c) \/ MaintenanceProbed(c) \/ ProbeLifecycle(c) \/ LifecycleProbed(c)
      \/ UNCHANGED readers
  BY DEF ClientStep, Requesting, Ask, RotationSeen, TryConnect, Released, NotReady, Unavailable,
     Expire, Send, OutcomeUnknown, Held, SpawnFails, Spawns, StopVerified, StopTimesOut,
     AbsenceChecked, locks
<1> QED
  BY <1>3, <1>4, <1>5, <1>6

LEMMA LocksInit == Init => LocksHeld
BY ProcessFacts DEF Init, LocksHeld, LockFiles, HoldsLifecycle, WritesMaintenance,
   SharesMaintenance, RotatorWrites, Holding

LEMMA ClientLocks ==
  ASSUME TypeOK, LocksHeld, NEW c \in Clients, ClientStep(c)
  PROVE  LocksHeld'
<1>1. ClientEffect
  BY ClientsKeepOut
<1>2. \A r \in Rotators : rpc[r] \in Holding => ~Free("maintenance")
  BY ProcessFacts DEF LocksHeld, RotatorWrites, Free
<1> QED
  BY <1>1, <1>2 DEF ClientEffect, LocksHeld, daemons

LEMMA RotatorLocks ==
  ASSUME TypeOK, LocksHeld, NEW r \in Rotators, RotatorAction(r)
  PROVE  LocksHeld'
<1> USE ProcessFacts DEF LocksHeld, HoldsLifecycle, WritesMaintenance, SharesMaintenance,
        RotatorWrites, Holding, TypeOK, LockFiles, daemons
<1>1. CASE Rotate(r)
  BY <1>1 DEF Rotate, Free, BecomesWriter, Steps
<1>6. CASE RotatorStamped(r)
  BY <1>6 DEF RotatorStamped, NoLongerWriter, Steps
<1>2. CASE BeginExclusive(r) \/ ExclusiveOrBusy(r)
  BY <1>2 DEF BeginExclusive, ExclusiveOrBusy, Free, BecomesWriter, NoLongerWriter, Steps
<1>3. CASE Preflight(r) \/ StageKey(r) \/ Reseal(r) \/ Promote(r)
  BY <1>3 DEF Preflight, StageKey, Reseal, Promote, Steps, locks
<1>4. CASE RotatorReleases(r) \/ RotatorUnstamps(r) \/ RotatorUnstamped(r)
  BY <1>4 DEF RotatorReleases, RotatorUnstamps, RotatorUnstamped, Free, BecomesWriter,
     NoLongerWriter, Steps
<1>5. CASE KillRotator(r)
  BY <1>5 DEF KillRotator, LocksDropped, Steps
<1> QED
  BY <1>1, <1>2, <1>3, <1>4, <1>5, <1>6 DEF RotatorAction, RotatorStep

LEMMA StartLocks ==
  ASSUME TypeOK, LocksHeld, NEW d \in Daemons, StartStep(d)
  PROVE  LocksHeld'
<1> USE ProcessFacts DEF LocksHeld, HoldsLifecycle, WritesMaintenance, SharesMaintenance,
        RotatorWrites, Holding, TypeOK, LockFiles, Becomes, Free
<1>1. CASE Climb(d) \/ BackOff(d) \/ Take(d)
  BY <1>1 DEF Climb, BackOff, Take, BecomesReader, NoLongerReader
<1>2. CASE Pend(d)
  BY <1>2 DEF Pend, BecomesWriter
<1>3. CASE Stamp(d)
  BY <1>3 DEF Stamp, BecomesWriter
<1>8. CASE Stamped(d)
  BY <1>8 DEF Stamped, NoLongerWriter
<1>4. CASE Share(d)
  BY <1>4 DEF Share, BecomesReader
<1>5. CASE AlreadyRunning(d)
  <2>1. pc[d] = "starting" /\ pc' = [pc EXCEPT ![d] = "exiting"] /\ UNCHANGED <<writer, readers, rpc>>
    BY <1>5 DEF AlreadyRunning, locks
  <2> QED
    BY <2>1
<1>11. CASE RotationInProgress(d)
  <2>1. pc[d] = "sharing" /\ pc' = [pc EXCEPT ![d] = "unstamping"] /\ UNCHANGED <<writer, readers, rpc>>
    BY <1>11 DEF RotationInProgress, locks
  <2> QED
    BY <2>1
<1>10. CASE StartFails(d)
  BY <1>10 DEF StartFails, locks
<1>9. CASE OpenStore(d)
  BY <1>9 DEF OpenStore, locks
<1>6. CASE StartByHand(d) \/ SweepEnds(d) \/ ClearStaleEndpoint(d) \/ Bind(d)
  BY <1>6 DEF StartByHand, SweepEnds, ClearStaleEndpoint, Bind, locks
<1>7. ASSUME NEW a \in Askers, SweepRow(d, a) \/ Spawn(a, d)
      PROVE  LocksHeld'
  BY <1>7 DEF SweepRow, Spawn, locks, daemons
<1> QED
  BY <1>1, <1>2, <1>3, <1>4, <1>5, <1>6, <1>7, <1>8, <1>9, <1>10, <1>11 DEF StartStep,
     Starting

LEMMA ServiceLocks ==
  ASSUME LocksHeld, NEW d \in Daemons, ServiceStep(d)
  PROVE  LocksHeld'
<1>1. UNCHANGED <<writer, readers, pc, rpc>>
  BY DEF ServiceStep, Serving, Finishing, Accept, Begin, Finish, AcceptStop, Signal, locks, daemons
<1> QED
  BY <1>1 DEF LocksHeld

LEMMA LeavingLocks ==
  ASSUME TypeOK, LocksHeld, NEW d \in Daemons, LeavingStep(d)
  PROVE  LocksHeld'
<1> USE ProcessFacts DEF LocksHeld, HoldsLifecycle, WritesMaintenance, SharesMaintenance,
        RotatorWrites, Holding, TypeOK, LockFiles, Becomes, Free
<1>1. CASE StartDrain(d) \/ EndDrain(d) \/ UnlinkIfStillOurs(d) \/ Exit(d)
  BY <1>1 DEF StartDrain, EndDrain, UnlinkIfStillOurs, Exit, locks
<1>2. CASE ReleaseMaintenance(d)
  BY <1>2 DEF ReleaseMaintenance, NoLongerReader
<1>3. CASE Unstamp(d) \/ Unstamped(d)
  BY <1>3 DEF Unstamp, Unstamped, BecomesWriter, NoLongerWriter
<1>4. CASE ReleaseLifecycle(d)
  BY <1>4 DEF ReleaseLifecycle, NoLongerWriter
<1>5. CASE Kill(d)
  BY <1>5 DEF Kill, LocksDropped
<1> QED
  BY <1>1, <1>2, <1>3, <1>4, <1>5 DEF LeavingStep, Leaving

LEMMA LocksStep ==
  ASSUME TypeOK, LocksHeld, [Next]_vars
  PROVE  LocksHeld'
<1>1. CASE UNCHANGED vars
  BY <1>1 DEF vars, locks, daemons, LocksHeld
<1> QED
  BY <1>1, StepsByActor, StartLocks, ServiceLocks, LeavingLocks, ClientLocks, RotatorLocks

-----------------------------------------------------------------------------
(* What follows from the locks *)

\* Two daemons past the lifecycle lock are one.
LEMMA OneHolder ==
  ASSUME LocksHeld, NEW d \in Daemons, NEW e \in Daemons,
         pc[d] \in HoldsLifecycle, pc[e] \in HoldsLifecycle
  PROVE  d = e
BY DEF LocksHeld

\* While a rotation holds the maintenance lock it is the only one, and no
\* daemon has the store open.
LEMMA RotationExcludes ==
  ASSUME LocksHeld, NEW r \in Rotators, rpc[r] \in Holding
  PROVE  /\ \A q \in Rotators : rpc[q] \in Holding => q = r
         /\ \A d \in Daemons : pc[d] \notin SharesMaintenance
<1>1. \A q \in Rotators : rpc[q] \in Holding => writer["maintenance"] = q
  BY DEF LocksHeld, RotatorWrites
<1>2. readers["maintenance"] = {}
  BY DEF LocksHeld
<1>3. \A d \in Daemons : pc[d] \notin SharesMaintenance
  BY <1>2 DEF LocksHeld
<1> QED
  BY <1>1, <1>3

-----------------------------------------------------------------------------
(* How a daemon moves *)

DaemonAction(d) == StartStep(d) \/ ServiceStep(d) \/ LeavingStep(d)

\* Only d moves, it never goes back over its bind, and it opens the database
\* only at the canary.
DaemonEffect(d) ==
  /\ UNCHANGED <<keys, rpc>>
  /\ \E stage : pc' = [pc EXCEPT ![d] = stage]
  /\ pc[d] \in AfterBind => pc'[d] \in AfterBind
  /\ \/ OpenStore(d)
     \/ key' = key /\ (d \in OpenDaemons' => d \in OpenDaemons)

LEMMA StartEffect ==
  ASSUME TypeOK, NEW d \in Daemons, StartStep(d)
  PROVE  DaemonEffect(d)
<1> USE DEF DaemonEffect, TypeOK, daemons, AfterBind, OpenDaemons
<1>1. CASE Climb(d) \/ Pend(d) \/ BackOff(d) \/ Take(d)
  BY <1>1 DEF Climb, Pend, BackOff, Take, Becomes
<1>2. CASE Stamp(d) \/ Stamped(d) \/ Share(d)
  BY <1>2 DEF Stamp, Stamped, Share, Becomes
<1>3. CASE AlreadyRunning(d) \/ RotationInProgress(d) \/ StartFails(d)
  BY <1>3 DEF AlreadyRunning, RotationInProgress, StartFails, Becomes
<1>4. CASE OpenStore(d)
  BY <1>4 DEF OpenStore, Becomes
<1>5. CASE StartByHand(d) \/ SweepEnds(d) \/ ClearStaleEndpoint(d) \/ Bind(d)
  BY <1>5 DEF StartByHand, SweepEnds, ClearStaleEndpoint, Bind, Becomes
<1>6. ASSUME NEW a \in Askers, SweepRow(d, a)
      PROVE  DaemonEffect(d)
  <2>1. pc' = [pc EXCEPT ![d] = pc[d]] /\ key' = key /\ UNCHANGED <<keys, rpc>>
    BY <1>6 DEF SweepRow
  <2> QED
    BY <2>1
<1>7. ASSUME NEW a \in Askers, Spawn(a, d)
      PROVE  DaemonEffect(d)
  BY <1>7 DEF Spawn, Becomes
<1> QED
  BY <1>1, <1>2, <1>3, <1>4, <1>5, <1>6, <1>7 DEF StartStep, Starting

LEMMA ServiceEffect ==
  ASSUME TypeOK, NEW d \in Daemons, ServiceStep(d)
  PROVE  DaemonEffect(d)
<1>1. pc' = [pc EXCEPT ![d] = pc[d]] /\ UNCHANGED <<key, keys, rpc>>
  BY DEF TypeOK, ServiceStep, Serving, Finishing, Accept, Begin, Finish, AcceptStop, Signal, daemons
<1> QED
  BY <1>1 DEF DaemonEffect, OpenDaemons, TypeOK

LEMMA LeavingEffect ==
  ASSUME TypeOK, NEW d \in Daemons, LeavingStep(d)
  PROVE  DaemonEffect(d)
<1> USE DEF DaemonEffect, TypeOK, daemons, AfterBind, OpenDaemons, Becomes
<1>1. CASE StartDrain(d) \/ EndDrain(d) \/ UnlinkIfStillOurs(d) \/ Exit(d)
  BY <1>1 DEF StartDrain, EndDrain, UnlinkIfStillOurs, Exit
<1>2. CASE ReleaseMaintenance(d) \/ Unstamp(d) \/ Unstamped(d) \/ ReleaseLifecycle(d)
  BY <1>2 DEF ReleaseMaintenance, Unstamp, Unstamped, ReleaseLifecycle
<1>3. CASE Kill(d)
  BY <1>3 DEF Kill
<1> QED
  BY <1>1, <1>2, <1>3 DEF LeavingStep, Leaving

LEMMA DaemonMoves ==
  ASSUME TypeOK, NEW d \in Daemons, DaemonAction(d)
  PROVE  DaemonEffect(d)
BY StartEffect, ServiceEffect, LeavingEffect DEF DaemonAction

\* A rotation touches no daemon, row or client.
LEMMA RotatorsKeepOut ==
  ASSUME NEW r \in Rotators, RotatorAction(r)
  PROVE  UNCHANGED <<daemons, rows, clients>>
BY DEF RotatorAction, RotatorStep, Rotate, RotatorStamped, BeginExclusive, ExclusiveOrBusy,
   Preflight, StageKey, Reseal, Promote, RotatorReleases, RotatorUnstamps, RotatorUnstamped,
   KillRotator

LEMMA StepsByKind ==
  ASSUME [Next]_vars
  PROVE  \/ \E d \in Daemons : DaemonAction(d)
         \/ \E c \in Clients : ClientStep(c)
         \/ \E r \in Rotators : RotatorAction(r)
         \/ UNCHANGED vars
BY StepsByActor DEF DaemonAction

\* No step takes a daemon back over its bind.
LEMMA BindIsPast ==
  ASSUME TypeOK, [Next]_vars, NEW d \in Daemons, pc[d] \in AfterBind
  PROVE  pc'[d] \in AfterBind
<1>1. CASE \E e \in Daemons : DaemonAction(e)
  <2>1. PICK e \in Daemons : DaemonEffect(e)
    BY <1>1, DaemonMoves
  <2> QED
    BY <2>1 DEF DaemonEffect, TypeOK
<1>2. CASE \E c \in Clients : ClientStep(c)
  BY <1>2, ClientsKeepOut DEF ClientEffect, daemons
<1>3. CASE \E r \in Rotators : RotatorAction(r)
  BY <1>3, RotatorsKeepOut DEF daemons
<1>4. CASE UNCHANGED vars
  BY <1>4 DEF vars, daemons
<1> QED
  BY <1>1, <1>2, <1>3, <1>4, StepsByKind

-----------------------------------------------------------------------------
(* Keys *)

KeysRight == KeysStaged /\ KeyIsOnDisk /\ KeyIsCurrent

LEMMA KeysInit == Init => KeysRight
BY DEF Init, KeysRight, KeysStaged, KeyIsOnDisk, KeyIsCurrent, OpenDaemons

LEMMA DaemonKeys ==
  ASSUME TypeOK, KeysRight, NEW d \in Daemons, DaemonAction(d)
  PROVE  KeysRight'
<1>1. DaemonEffect(d)
  BY DaemonMoves
<1>2. KeysStaged' /\ KeyIsOnDisk'
  BY <1>1 DEF DaemonEffect, KeysRight, KeysStaged, KeyIsOnDisk, keys
<1>3. dbKey' = dbKey
  BY <1>1 DEF DaemonEffect, keys
<1>4. CASE OpenStore(d)
  <2>1. fileKey = dbKey => key' = [key EXCEPT ![d] = dbKey]
    BY <1>4 DEF OpenStore
  <2>2. fileKey # dbKey => key' = key /\ pc' = [pc EXCEPT ![d] = "releasing"]
    BY <1>4 DEF OpenStore, Becomes
  <2>3. \A e \in Daemons \ {d} : pc'[e] = pc[e]
    BY <1>1 DEF DaemonEffect, TypeOK
  <2>4. ASSUME fileKey = dbKey
       PROVE  KeyIsCurrent'
    BY <1>3, <2>1, <2>3, <2>4 DEF KeysRight, KeyIsCurrent, OpenDaemons, TypeOK
  <2>5. ASSUME fileKey # dbKey
       PROVE  KeyIsCurrent'
    BY <1>3, <2>2, <2>3, <2>5 DEF KeysRight, KeyIsCurrent, OpenDaemons, TypeOK
  <2>6. KeyIsCurrent'
    BY <2>4, <2>5
  <2> QED
    BY <1>2, <2>6 DEF KeysRight
<1>5. CASE key' = key /\ (d \in OpenDaemons' => d \in OpenDaemons)
  <2>1. OpenDaemons' \subseteq OpenDaemons
    BY <1>1, <1>5 DEF DaemonEffect, OpenDaemons, TypeOK
  <2>2. KeyIsCurrent'
    BY <1>3, <1>5, <2>1 DEF KeysRight, KeyIsCurrent
  <2> QED
    BY <1>2, <2>2 DEF KeysRight
<1> QED
  BY <1>1, <1>4, <1>5 DEF DaemonEffect

LEMMA ClientKeys ==
  ASSUME TypeOK, KeysRight, NEW c \in Clients, ClientStep(c)
  PROVE  KeysRight'
BY ClientsKeepOut DEF ClientEffect, KeysRight, KeysStaged, KeyIsOnDisk, KeyIsCurrent, OpenDaemons,
   daemons, keys

LEMMA RotatorKeys ==
  ASSUME TypeOK, LocksHeld, KeysRight, NEW r \in Rotators, RotatorAction(r)
  PROVE  KeysRight'
<1>1. UNCHANGED daemons
  BY RotatorsKeepOut
<1>2. CASE UNCHANGED keys /\ rpc'[r] \notin {"opened", "staged", "resealed"}
  <2>1. \E step : rpc' = [rpc EXCEPT ![r] = step]
    BY DEF RotatorAction, RotatorStep, Steps, Rotate, RotatorStamped, BeginExclusive,
       ExclusiveOrBusy, Preflight, StageKey, Reseal, Promote, RotatorReleases, RotatorUnstamps,
       RotatorUnstamped, KillRotator
  <2>2. \A q \in Rotators \ {r} : rpc'[q] = rpc[q]
    BY <2>1 DEF TypeOK
  <2> QED
    BY <1>1, <1>2, <2>2 DEF KeysRight, KeysStaged, KeyIsOnDisk, KeyIsCurrent, OpenDaemons, daemons, keys
<1>3. ASSUME rpc[r] \in Holding
      PROVE  /\ OpenDaemons = {}
             /\ \A q \in Rotators \ {r} : rpc[q] \notin {"opened", "staged", "resealed"}
  BY <1>3, RotationExcludes DEF OpenDaemons, SharesMaintenance, Holding
<1>4. CASE Preflight(r)
  BY <1>1, <1>3, <1>4 DEF Preflight, Steps, Holding, KeysRight, KeysStaged, KeyIsOnDisk,
     KeyIsCurrent, OpenDaemons, TypeOK, daemons, keys
<1>5. CASE StageKey(r)
  <2>1. fileKey = dbKey /\ UNCHANGED <<dbKey, fileKey>>
    BY <1>5 DEF StageKey, KeysRight, KeysStaged
  <2> QED
    BY <1>1, <1>3, <1>5, <2>1 DEF StageKey, Steps, Holding, KeysRight, KeysStaged, KeyIsOnDisk,
       KeyIsCurrent, OpenDaemons, TypeOK, daemons
<1>6. CASE Reseal(r)
  <2>1. fileKey = dbKey /\ nextKey = r /\ UNCHANGED fileKey
    BY <1>6 DEF Reseal, KeysRight, KeysStaged
  <2>2. OpenDaemons' = {}
    BY <1>1, <1>3, <1>6 DEF Reseal, Holding, OpenDaemons, daemons
  <2> QED
    BY <1>3, <1>6, <2>1, <2>2 DEF Reseal, Steps, Holding, KeysRight, KeysStaged, KeyIsOnDisk,
       KeyIsCurrent, TypeOK
<1>7. CASE Promote(r)
  <2>1. nextKey = dbKey /\ UNCHANGED dbKey
    BY <1>7 DEF Promote, KeysRight, KeysStaged
  <2> QED
    BY <1>1, <1>3, <1>7, <2>1 DEF Promote, Steps, Holding, KeysRight, KeysStaged, KeyIsOnDisk,
       KeyIsCurrent, OpenDaemons, TypeOK, daemons
<1>8. CASE Rotate(r) \/ RotatorStamped(r) \/ BeginExclusive(r) \/ ExclusiveOrBusy(r)
  BY <1>2, <1>8 DEF Rotate, RotatorStamped, BeginExclusive, ExclusiveOrBusy, Steps, TypeOK
<1>9. CASE RotatorReleases(r) \/ RotatorUnstamps(r) \/ RotatorUnstamped(r) \/ KillRotator(r)
  BY <1>2, <1>9 DEF RotatorReleases, RotatorUnstamps, RotatorUnstamped, KillRotator, Steps, TypeOK
<1> QED
  BY <1>4, <1>5, <1>6, <1>7, <1>8, <1>9 DEF RotatorAction, RotatorStep

LEMMA KeysStep ==
  ASSUME TypeOK, LocksHeld, KeysRight, [Next]_vars
  PROVE  KeysRight'
<1>1. CASE UNCHANGED vars
  BY <1>1 DEF vars, daemons, keys, KeysRight, KeysStaged, KeyIsOnDisk, KeyIsCurrent, OpenDaemons
<1> QED
  BY <1>1, StepsByKind, DaemonKeys, ClientKeys, RotatorKeys

-----------------------------------------------------------------------------
(* The pathname *)

LEMMA PathStep ==
  ASSUME TypeOK, LocksHeld, PathLeadsToDaemon, [Next]_vars
  PROVE  PathLeadsToDaemon'
<1>1. CASE UNCHANGED daemons
  BY <1>1 DEF daemons, PathLeadsToDaemon
<1>2. ASSUME NEW e \in Daemons, DaemonAction(e)
      PROVE  PathLeadsToDaemon'
  <2>1. SUFFICES ASSUME NEW d \in Daemons, pc'[d] = "serving"
                 PROVE  endpoint' = d
    BY DEF PathLeadsToDaemon
  <2>2. CASE Bind(e)
    <3>1. pc[e] = "binding" /\ endpoint' = e /\ pc' = [pc EXCEPT ![e] = "serving"]
      BY <2>2 DEF Bind, Becomes
    <3>2. CASE d # e
      <4>1. pc[d] = "serving"
        BY <2>1, <3>1, <3>2 DEF TypeOK
      <4>2. d = e
        BY <3>1, <4>1, OneHolder DEF HoldsLifecycle
      <4> QED
        BY <3>2, <4>2
    <3> QED
      BY <3>1, <3>2
  <2>3. CASE ClearStaleEndpoint(e) \/ StartDrain(e) \/ UnlinkIfStillOurs(e)
    <3>1. /\ pc[e] \in HoldsLifecycle
          /\ \E stage \in {"binding", "draining", "releasing"} : pc' = [pc EXCEPT ![e] = stage]
      BY <2>3 DEF ClearStaleEndpoint, StartDrain, UnlinkIfStillOurs, Becomes, HoldsLifecycle
    <3>2. d # e /\ pc[d] = "serving"
      BY <2>1, <3>1 DEF TypeOK
    <3> QED
      BY <3>1, <3>2, OneHolder DEF HoldsLifecycle
  <2>4. CASE endpoint' = endpoint /\ (pc'[e] = "serving" => pc[e] = "serving")
    <3>1. pc[d] = "serving"
      BY <1>2, <2>1, <2>4, DaemonMoves DEF DaemonEffect, TypeOK
    <3> QED
      BY <2>4, <3>1 DEF PathLeadsToDaemon
  <2>5. CASE ServiceStep(e)
    BY <2>4, <2>5 DEF ServiceStep, Serving, Finishing, Accept, Begin, Finish, AcceptStop, Signal, daemons
  <2>6. CASE StartStep(e) /\ ~Bind(e) /\ ~ClearStaleEndpoint(e)
    <3>1. endpoint' = endpoint
      BY <2>6 DEF StartStep, Starting, StartByHand, Climb, Pend, BackOff, Take, AlreadyRunning,
         Stamp, Stamped, Share, RotationInProgress, OpenStore, SweepRow, SweepEnds, StartFails,
         Spawn, daemons
    <3>2. UNCHANGED pc \/ \E stage \in Stages \ {"serving"} : pc' = [pc EXCEPT ![e] = stage]
      BY <2>6 DEF StartStep, Starting, StartByHand, Climb, Pend, BackOff, Take, AlreadyRunning,
         Stamp, Stamped, Share, RotationInProgress, OpenStore, SweepRow, SweepEnds, StartFails,
         Spawn, daemons, Becomes, Stages
    <3> QED
      BY <2>4, <3>1, <3>2 DEF TypeOK
  <2>7. CASE LeavingStep(e) /\ ~StartDrain(e) /\ ~UnlinkIfStillOurs(e)
    BY <2>4, <2>7 DEF LeavingStep, Leaving, EndDrain, ReleaseMaintenance, Unstamp, Unstamped,
       ReleaseLifecycle, Exit, Kill, Becomes, TypeOK
  <2> QED
    BY <1>2, <2>2, <2>3, <2>5, <2>6, <2>7 DEF DaemonAction
<1> QED
  BY <1>1, <1>2, StepsByKind, ClientsKeepOut, RotatorsKeepOut DEF ClientEffect, vars

-----------------------------------------------------------------------------
(* Rows *)

\* Nothing but a daemon that reads a request makes a row run.
LEMMA RowEffect ==
  ASSUME TypeOK, [Next]_vars
  PROVE  \/ \E d \in Daemons, a \in Askers : Begin(d, a) \/ Finish(d, a) \/ SweepRow(d, a)
         \/ UNCHANGED rows
<1>1. CASE \E c \in Clients : ClientStep(c)
  BY <1>1, ClientsKeepOut DEF ClientEffect
<1>2. CASE \E r \in Rotators : RotatorAction(r)
  BY <1>2, RotatorsKeepOut
<1>3. ASSUME NEW d \in Daemons, StartStep(d)
      PROVE  UNCHANGED rows \/ \E a \in Askers : SweepRow(d, a)
  BY <1>3 DEF StartStep, Starting, StartByHand, Climb, Pend, BackOff, Take, AlreadyRunning, Stamp,
     Stamped, Share, RotationInProgress, OpenStore, SweepEnds, ClearStaleEndpoint, Bind,
     StartFails, Spawn
<1>4. ASSUME NEW d \in Daemons, ServiceStep(d)
      PROVE  UNCHANGED rows \/ \E a \in Askers : Begin(d, a) \/ Finish(d, a)
  BY <1>4 DEF ServiceStep, Serving, Finishing, Accept, AcceptStop, Signal
<1>5. ASSUME NEW d \in Daemons, LeavingStep(d)
      PROVE  UNCHANGED rows
  BY <1>5 DEF LeavingStep, Leaving, StartDrain, EndDrain, UnlinkIfStillOurs, ReleaseMaintenance,
     Unstamp, Unstamped, ReleaseLifecycle, Exit, Kill
<1> QED
  BY <1>1, <1>2, <1>3, <1>4, <1>5, StepsByKind DEF DaemonAction, vars

\* A daemon comes to the point where every running row is its own only from
\* the end of its sweep.
LEMMA SettledFrom ==
  ASSUME TypeOK, [Next]_vars, NEW d \in Daemons,
         pc'[d] \in {"clearing", "binding", "serving", "draining"}
  PROVE  \/ pc[d] \in {"clearing", "binding", "serving", "draining"}
         \/ UNCHANGED rows /\ \A a \in Askers : row[a] # "running"
<1>1. CASE UNCHANGED pc
  BY <1>1
<1>2. ASSUME NEW e \in Daemons, DaemonAction(e), e # d
      PROVE  pc'[d] = pc[d]
  BY <1>2, DaemonMoves DEF DaemonEffect, TypeOK
<1>3. CASE SweepEnds(d)
  BY <1>3 DEF SweepEnds, Becomes, TypeOK
<1>4. CASE StartStep(d) /\ ~SweepEnds(d)
  <2>1. CASE Bind(d) \/ ClearStaleEndpoint(d)
    BY <2>1 DEF Bind, ClearStaleEndpoint
  <2>2. CASE ~Bind(d) /\ ~ClearStaleEndpoint(d)
    <3>1. \/ UNCHANGED pc
          \/ \E stage \in Stages \ {"clearing", "binding", "serving", "draining"} :
               pc' = [pc EXCEPT ![d] = stage]
      BY <1>4, <2>2 DEF StartStep, Starting, StartByHand, Climb, Pend, BackOff, Take,
         AlreadyRunning, Stamp, Stamped, Share, RotationInProgress, OpenStore, SweepRow,
         StartFails, Spawn, daemons, Becomes, Stages
    <3> QED
      BY <1>1, <3>1 DEF TypeOK
  <2> QED
    BY <2>1, <2>2
<1>5. CASE ServiceStep(d)
  BY <1>1, <1>5 DEF ServiceStep, Serving, Finishing, Accept, Begin, Finish, AcceptStop, Signal, daemons
<1>6. CASE LeavingStep(d)
  BY <1>6 DEF LeavingStep, Leaving, StartDrain, EndDrain, UnlinkIfStillOurs, ReleaseMaintenance,
     Unstamp, Unstamped, ReleaseLifecycle, Exit, Kill, Becomes, TypeOK
<1> QED
  BY <1>1, <1>2, <1>3, <1>4, <1>5, <1>6, StepsByKind, ClientsKeepOut, RotatorsKeepOut
  DEF DaemonAction, ClientEffect, vars, daemons

LEMMA RowsStep ==
  ASSUME TypeOK, LocksHeld, RowsOwned, [Next]_vars
  PROVE  RowsOwned'
<1>1. ASSUME NEW a \in Askers, row'[a] = "running"
      PROVE  owner'[a] \in Daemons /\ pc'[owner'[a]] \in AfterBind
  <2>1. CASE row[a] = "running" /\ owner'[a] = owner[a]
    BY <2>1, BindIsPast DEF RowsOwned
  <2>2. ASSUME NEW d \in Daemons, Begin(d, a)
        PROVE  owner'[a] = d /\ pc[d] \in AfterBind
    BY <2>2 DEF Begin, Works, AfterBind, TypeOK
  <2>3. ASSUME NEW d \in Daemons, NEW b \in Askers,
               (Begin(d, b) /\ b # a) \/ Finish(d, b) \/ SweepRow(d, b)
        PROVE  row[a] = "running" /\ owner'[a] = owner[a]
    BY <1>1, <2>3 DEF Begin, Finish, SweepRow, TypeOK
  <2> QED
    BY <1>1, <2>1, <2>2, <2>3, RowEffect, BindIsPast DEF rows
<1>2. ASSUME NEW d \in Daemons, NEW a \in Askers,
             pc'[d] \in {"clearing", "binding", "serving", "draining"}, row'[a] = "running"
      PROVE  owner'[a] = d
  <2>1. CASE UNCHANGED rows
    BY <1>2, <2>1, SettledFrom DEF RowsOwned, rows
  <2>2. ASSUME NEW e \in Daemons, NEW b \in Askers, Begin(e, b) \/ Finish(e, b) \/ SweepRow(e, b)
        PROVE  owner'[a] = d
    <3>1. pc'[d] = pc[d]
      BY <2>2 DEF Begin, Finish, SweepRow, daemons
    <3>2. CASE Begin(e, b) /\ b = a
      <4>1. pc[e] \in HoldsLifecycle /\ owner'[a] = e
        BY <3>2 DEF Begin, Works, HoldsLifecycle, TypeOK
      <4> QED
        BY <1>2, <3>1, <4>1, OneHolder DEF HoldsLifecycle
    <3>3. CASE ~(Begin(e, b) /\ b = a)
      <4>1. row[a] = "running" /\ owner'[a] = owner[a]
        BY <1>2, <2>2, <3>3 DEF Begin, Finish, SweepRow, TypeOK
      <4> QED
        BY <1>2, <3>1, <4>1 DEF RowsOwned
    <3> QED
      BY <3>2, <3>3
  <2> QED
    BY <2>1, <2>2, RowEffect
<1> QED
  BY <1>1, <1>2 DEF RowsOwned

-----------------------------------------------------------------------------
(* Connections and requests *)

\* A connection leads where it led, or nowhere, or where the pathname leads;
\* what a stopper asked is what its connection led to.
LinksMove ==
  /\ \A c \in Clients :
       \/ link'[c] \in {link[c], Nobody}
       \/ Listening /\ link'[c] = endpoint
  /\ \A s \in Stoppers : asked'[s] \in {asked[s], link[s]}

LEMMA ClientLinks ==
  ASSUME TypeOK, NEW c \in Clients, ClientStep(c)
  PROVE  LinksMove
<1> USE ProcessFacts DEF TypeOK, LinksMove
<1>1. CASE TryConnect(c)
  BY <1>1 DEF TryConnect
<1>2. CASE Expire(c) \/ OutcomeUnknown(c)
  BY <1>2 DEF Expire, OutcomeUnknown
<1>3. CASE Send(c)
  BY <1>3 DEF Send
<1>4. \/ TryConnect(c) \/ Expire(c) \/ OutcomeUnknown(c) \/ Send(c)
      \/ UNCHANGED <<link, asked>>
  BY DEF ClientStep, Requesting, Ask, ProbeMaintenance, MaintenanceProbed, RotationSeen,
     ProbeLifecycle, LifecycleProbed, Released, NotReady, Unavailable, Held, SpawnFails, Spawns,
     StopVerified, StopTimesOut, AbsenceChecked
<1> QED
  BY <1>1, <1>2, <1>3, <1>4

LEMMA DaemonLinks ==
  ASSUME TypeOK, NEW d \in Daemons, DaemonAction(d)
  PROVE  LinksMove
<1> USE ProcessFacts DEF TypeOK, LinksMove
<1>1. CASE StartStep(d)
  BY <1>1 DEF StartStep, Starting, StartByHand, Climb, Pend, BackOff, Take, AlreadyRunning, Stamp,
     Stamped, Share, RotationInProgress, OpenStore, SweepRow, SweepEnds, ClearStaleEndpoint, Bind,
     StartFails, Spawn, clients
<1>2. ASSUME NEW c \in Clients, Accept(d, c)
      PROVE  LinksMove
  BY <1>2 DEF Accept
<1>3. ASSUME NEW a \in Askers, Begin(d, a) \/ Finish(d, a)
      PROVE  LinksMove
  BY <1>3 DEF Begin, Finish
<1>4. ASSUME NEW s \in Stoppers, AcceptStop(d, s)
      PROVE  LinksMove
  BY <1>4 DEF AcceptStop
<1>5. CASE Signal(d)
  BY <1>5 DEF Signal, clients
<1>6. CASE LeavingStep(d)
  <2>1. UNCHANGED asked
    BY <1>6 DEF LeavingStep, Leaving, StartDrain, EndDrain, UnlinkIfStillOurs, ReleaseMaintenance,
       Unstamp, Unstamped, ReleaseLifecycle, Exit, Kill, clients
  <2>2. UNCHANGED link \/ \E S : Cut(d, S)
    BY <1>6 DEF LeavingStep, Leaving, StartDrain, EndDrain, UnlinkIfStillOurs, ReleaseMaintenance,
       Unstamp, Unstamped, ReleaseLifecycle, Exit, Kill, clients
  <2> QED
    BY <2>1, <2>2 DEF Cut
<1> QED
  BY <1>1, <1>2, <1>3, <1>4, <1>5, <1>6 DEF DaemonAction, ServiceStep, Serving, Finishing

LEMMA ConnectedStep ==
  ASSUME TypeOK, Connected, [Next]_vars
  PROVE  Connected'
<1>1. LinksMove
  <2>1. CASE UNCHANGED clients
    BY <2>1 DEF clients, LinksMove
  <2> QED
    BY <2>1, StepsByKind, ClientLinks, DaemonLinks, RotatorsKeepOut DEF vars
<1>2. \A d \in Daemons : pc[d] \in AfterBind => pc'[d] \in AfterBind
  BY BindIsPast
<1>3. Listening => endpoint \in Daemons /\ pc[endpoint] \in AfterBind
  BY DEF Listening, AfterBind, TypeOK
<1>4. ASSUME NEW c \in Clients, link'[c] # Nobody
      PROVE  pc'[link'[c]] \in AfterBind
  BY <1>1, <1>2, <1>3, <1>4 DEF LinksMove, Connected, TypeOK
<1>5. ASSUME NEW s \in Stoppers, asked'[s] # Nobody
      PROVE  pc'[asked'[s]] \in AfterBind
  BY <1>1, <1>2, <1>5, ProcessFacts DEF LinksMove, Connected, TypeOK
<1> QED
  BY <1>4, <1>5 DEF Connected

\* Where a client is before the first byte, and when it has given up then.
Early == Asking \union {"idle", "ready", "unavailable", "rotation"}

\* Nobody comes back from its first byte, which is what puts a request on
\* the wire.
AskerMoves(a) ==
  /\ cpc'[a] \in Early => cpc[a] \in Early
  /\ \/ wire'[a] \in {wire[a], Nobody}
     \/ cpc[a] = "ready" /\ cpc'[a] = "sent"

LEMMA ClientMoves ==
  ASSUME TypeOK, NEW c \in Clients, ClientStep(c), NEW a \in Askers
  PROVE  AskerMoves(a)
<1> USE ProcessFacts DEF TypeOK, AskerMoves
<1>1. CASE c # a
  <2>1. \E step : cpc' = [cpc EXCEPT ![c] = step]
    BY DEF ClientStep, Requesting, Goes, Ask, ProbeMaintenance, MaintenanceProbed, RotationSeen,
       ProbeLifecycle, LifecycleProbed, TryConnect, Released, NotReady, Unavailable, Expire, Send,
       OutcomeUnknown, Held, SpawnFails, Spawns, StopVerified, StopTimesOut, AbsenceChecked
  <2>2. wire' = wire \/ wire' = [wire EXCEPT ![c] = link[c]]
    BY DEF ClientStep, Requesting, Ask, ProbeMaintenance, MaintenanceProbed, RotationSeen,
       ProbeLifecycle, LifecycleProbed, TryConnect, Released, NotReady, Unavailable, Expire, Send,
       OutcomeUnknown, Held, SpawnFails, Spawns, StopVerified, StopTimesOut, AbsenceChecked
  <2> QED
    BY <1>1, <2>1, <2>2
<1>2. CASE c = a
  <2>1. CASE Send(a)
    BY <2>1 DEF Send, Goes, Early, Asking
  <2>2. CASE OutcomeUnknown(a)
    BY <2>2 DEF OutcomeUnknown, Goes, Early, Asking
  <2>3. CASE ~Send(a) /\ ~OutcomeUnknown(a)
    <3>1. wire' = wire
      BY <1>2, <2>3 DEF ClientStep, Requesting, Ask, ProbeMaintenance, MaintenanceProbed,
         RotationSeen, ProbeLifecycle, LifecycleProbed, TryConnect, Released, NotReady,
         Unavailable, Expire, Held, SpawnFails, Spawns, StopVerified, StopTimesOut, AbsenceChecked
    <3>2. cpc[a] \in Early
      BY <1>2, <2>3 DEF ClientStep, Requesting, Ask, ProbeMaintenance, MaintenanceProbed,
         RotationSeen, ProbeLifecycle, LifecycleProbed, TryConnect, Released, NotReady,
         Unavailable, Expire, Held, SpawnFails, Spawns, Early, Asking
    <3> QED
      BY <3>1, <3>2
  <2> QED
    BY <2>1, <2>2, <2>3
<1> QED
  BY <1>1, <1>2

LEMMA DaemonMovesAskers ==
  ASSUME TypeOK, NEW d \in Daemons, DaemonAction(d), NEW a \in Askers
  PROVE  AskerMoves(a)
<1> USE ProcessFacts DEF TypeOK, AskerMoves, clients
<1>1. ASSUME NEW b \in Askers, Spawn(b, d)
      PROVE  AskerMoves(a)
  BY <1>1 DEF Spawn, Spawns, Goes, Early, Asking
<1>2. CASE StartStep(d) /\ UNCHANGED clients
  BY <1>2
<1>3. StartStep(d) => UNCHANGED clients \/ \E b \in Askers : Spawn(b, d)
  BY DEF StartStep, Starting, StartByHand, Climb, Pend, BackOff, Take, AlreadyRunning, Stamp,
     Stamped, Share, RotationInProgress, OpenStore, SweepRow, SweepEnds, ClearStaleEndpoint, Bind,
     StartFails
<1>4. ASSUME NEW c \in Clients, Accept(d, c)
      PROVE  AskerMoves(a)
  BY <1>4 DEF Accept, Early, Asking
<1>5. ASSUME NEW b \in Askers, Begin(d, b)
      PROVE  AskerMoves(a)
  BY <1>5 DEF Begin
<1>6. ASSUME NEW b \in Askers, Finish(d, b)
      PROVE  AskerMoves(a)
  <2>1. wire' = wire /\ (cpc' = cpc \/ cpc' = [cpc EXCEPT ![b] = "answered"])
    BY <1>6 DEF Finish
  <2> QED
    BY <2>1 DEF Early, Asking
<1>7. ASSUME NEW s \in Stoppers, AcceptStop(d, s)
      PROVE  AskerMoves(a)
  <2>1. /\ wire' = [wire EXCEPT ![s] = Nobody]
        /\ cpc' = cpc \/ cpc' = [cpc EXCEPT ![s] = "polling"]
    BY <1>7 DEF AcceptStop
  <2> QED
    BY <2>1 DEF Early, Asking
<1>8. CASE Signal(d)
  BY <1>8 DEF Signal
<1>9. CASE LeavingStep(d)
  <2>1. UNCHANGED cpc
    BY <1>9 DEF LeavingStep, Leaving, StartDrain, EndDrain, UnlinkIfStillOurs, ReleaseMaintenance,
       Unstamp, Unstamped, ReleaseLifecycle, Exit, Kill
  <2>2. UNCHANGED wire \/ \E S : Cut(d, S)
    BY <1>9 DEF LeavingStep, Leaving, StartDrain, EndDrain, UnlinkIfStillOurs, ReleaseMaintenance,
       Unstamp, Unstamped, ReleaseLifecycle, Exit, Kill
  <2> QED
    BY <2>1, <2>2 DEF Cut
<1> QED
  BY <1>1, <1>2, <1>3, <1>4, <1>5, <1>6, <1>7, <1>8, <1>9 DEF DaemonAction, ServiceStep, Serving,
     Finishing

LEMMA AskersMove ==
  ASSUME TypeOK, [Next]_vars, NEW a \in Askers
  PROVE  AskerMoves(a)
<1>1. CASE UNCHANGED clients
  BY <1>1 DEF clients, AskerMoves
<1> QED
  BY <1>1, StepsByKind, ClientMoves, DaemonMovesAskers, RotatorsKeepOut DEF vars

LEMMA UnwrittenStep ==
  ASSUME TypeOK, Unwritten, [Next]_vars
  PROVE  Unwritten'
<1> SUFFICES ASSUME NEW a \in Askers
             PROVE  /\ cpc'[a] \in Early => row'[a] = "none" /\ wire'[a] = Nobody
                    /\ wire'[a] # Nobody => row'[a] = "none"
  BY DEF Unwritten, Early
<1>1. /\ cpc[a] \in Early => row[a] = "none" /\ wire[a] = Nobody
      /\ wire[a] # Nobody => row[a] = "none"
  BY DEF Unwritten, Early
<1>2. AskerMoves(a)
  BY AskersMove
<1>3. row[a] = "none" => row'[a] = "none" \/ (wire[a] # Nobody /\ wire'[a] = Nobody)
  <2>1. ASSUME NEW d \in Daemons, NEW b \in Askers, Begin(d, b), row[a] = "none"
        PROVE  row'[a] = "none" \/ (wire[a] # Nobody /\ wire'[a] = Nobody)
    BY <2>1, ProcessFacts DEF Begin, TypeOK
  <2>2. ASSUME NEW d \in Daemons, NEW b \in Askers, Finish(d, b) \/ SweepRow(d, b), row[a] = "none"
        PROVE  row'[a] = "none"
    BY <2>2 DEF Finish, SweepRow, TypeOK
  <2> QED
    BY <2>1, <2>2, RowEffect DEF rows
<1>4. cpc[a] = "ready" /\ cpc'[a] = "sent" => row'[a] = "none" /\ cpc'[a] \notin Early
  BY <1>1, <1>3 DEF Early, Asking
<1> QED
  BY <1>1, <1>2, <1>3, <1>4 DEF AskerMoves

-----------------------------------------------------------------------------
(* The invariant *)

LEMMA IInvInit == Init => IInv
<1> SUFFICES ASSUME Init
             PROVE  IInv
  OBVIOUS
<1>1. PathLeadsToDaemon /\ RowsOwned /\ Connected /\ Unwritten
  BY ProcessFacts DEF Init, PathLeadsToDaemon, RowsOwned, Connected, Unwritten
<1> QED
  BY <1>1, TypeInit, LocksInit, KeysInit DEF IInv, KeysRight

LEMMA IInvStep == IInv /\ [Next]_vars => IInv'
BY TypeStep, LocksStep, KeysStep, PathStep, RowsStep, ConnectedStep, UnwrittenStep
DEF IInv, KeysRight

\* The inductive invariant of daemons, clients, stops and rotations: who
\* holds which lock is said by where everyone is, and with it which file has
\* which key, whose the running rows are and what is on the wire.
THEOREM Invariance == Spec => []IInv
BY IInvInit, IInvStep, PTL DEF Spec

\* Every variable keeps its type, however processes start, die and meet.
THEOREM TypeCorrect == Spec => []TypeOK
<1>1. IInv => TypeOK
  BY DEF IInv
<1> QED
  BY <1>1, Invariance, PTL

\* startDaemon takes the lifecycle lock and then a share of the maintenance
\* lock; runKeyRotate needs the maintenance lock alone: so two processes
\* never have the database open, whatever stamps and probes come between.
THEOREM OwnerIsUnique == Spec => []OneOwner
<1>1. ASSUME IInv
      PROVE  OneOwner
  <2>1. ASSUME NEW p \in OpenDaemons, NEW q \in OpenDaemons
        PROVE  p = q
    BY <1>1, <2>1, OneHolder DEF IInv, OpenDaemons, HoldsLifecycle
  <2>2. ASSUME NEW r \in OpenRotators
        PROVE  OpenDaemons = {} /\ \A q \in OpenRotators : q = r
    BY <1>1, <2>2, RotationExcludes DEF IInv, OpenRotators, OpenDaemons, Holding, SharesMaintenance
  <2> QED
    BY <2>1, <2>2 DEF OneOwner
<1> QED
  BY <1>1, Invariance, PTL

\* The pathname leads to the daemon that serves: whoever clears, binds or
\* unlinks it holds the lifecycle lock.
THEOREM PathHolds == Spec => []PathLeadsToDaemon
<1>1. IInv => PathLeadsToDaemon
  BY DEF IInv
<1> QED
  BY <1>1, Invariance, PTL

\* The key in a daemon's memory is the key of the database: runKeyRotate
\* reseals only while no daemon has a share of the maintenance lock.
THEOREM OpenUnderOneKey == Spec => []KeyIsCurrent
<1>1. IInv => KeyIsCurrent
  BY DEF IInv
<1> QED
  BY <1>1, Invariance, PTL

\* One of the two key files opens the database, wherever runKeyRotate fails
\* or is killed.
THEOREM KeyNeverLost == Spec => []KeyIsOnDisk
<1>1. IInv => KeyIsOnDisk
  BY DEF IInv
<1> QED
  BY <1>1, Invariance, PTL

\* When a daemon works on requests, the running rows are its own.
THEOREM OrphansSettled == Spec => []OrphansAreSettled
<1>1. IInv => OrphansAreSettled
  BY DEF IInv, RowsOwned, OrphansAreSettled, Works
<1> QED
  BY <1>1, Invariance, PTL

\* DaemonUnavailable: nothing of the request was written, so no daemon
\* begins it, now or later.
THEOREM UnavailableIsFinal == Spec => []UnavailableNeverRan
<1>1. IInv => UnavailableNeverRan
  BY DEF IInv, Unwritten, UnavailableNeverRan
<1> QED
  BY <1>1, Invariance, PTL

-----------------------------------------------------------------------------
(* Steps *)

\* daemonRequest writes a request to one daemon once, so a row that has been
\* running is not begun again.
THEOREM RunsOnceHolds == Spec => RunsOnce
<1>1. ASSUME IInv, [Next]_vars, NEW a \in Askers, row[a] # "none", row'[a] = "running"
      PROVE  UNCHANGED <<row[a], owner[a]>>
  <2>1. wire[a] = Nobody
    BY <1>1 DEF IInv, Unwritten
  <2>2. ASSUME NEW d \in Daemons, NEW b \in Askers, Begin(d, b)
        PROVE  UNCHANGED <<row[a], owner[a]>>
    BY <1>1, <2>1, <2>2, ProcessFacts DEF Begin, IInv, TypeOK
  <2>3. ASSUME NEW d \in Daemons, NEW b \in Askers, Finish(d, b) \/ SweepRow(d, b)
        PROVE  UNCHANGED <<row[a], owner[a]>>
    BY <1>1, <2>3 DEF Finish, SweepRow, IInv, TypeOK
  <2> QED
    BY <1>1, <2>2, <2>3, RowEffect DEF IInv, rows
<1>2. IInv /\ [Next]_vars => [\A a \in Askers :
        (row[a] # "none" /\ row'[a] = "running") => UNCHANGED <<row[a], owner[a]>>]_vars
  BY <1>1
<1> QED
  BY <1>2, Invariance, PTL DEF Spec, RunsOnce

\* The startup sweep runs under the lifecycle lock, and whoever began a row
\* that still runs once held it: by now that daemon has dropped it.
THEOREM SweepSpares == Spec => SweepSparesTheLiving
<1>1. ASSUME IInv, [Next]_vars, NEW a \in Askers, row[a] = "running", row'[a] = "swept"
      PROVE  pc[owner[a]] \in {"exiting", "gone"}
  <2>1. PICK d \in Daemons : pc[d] = "sweeping"
    <3>1. ASSUME NEW d \in Daemons, NEW b \in Askers, Begin(d, b) \/ Finish(d, b)
          PROVE  FALSE
      BY <1>1, <3>1 DEF Begin, Finish, IInv, TypeOK
    <3>2. \E d \in Daemons, b \in Askers : SweepRow(d, b)
      BY <1>1, <3>1, RowEffect DEF IInv, rows
    <3> QED
      BY <3>2 DEF SweepRow
  <2>2. owner[a] \in Daemons /\ pc[owner[a]] \in AfterBind
    BY <1>1 DEF IInv, RowsOwned
  <2>3. pc[owner[a]] \notin HoldsLifecycle
    BY <1>1, <2>1, <2>2, OneHolder DEF IInv, HoldsLifecycle, AfterBind
  <2> QED
    BY <2>2, <2>3 DEF AfterBind, HoldsLifecycle
<1>2. IInv /\ [Next]_vars => [\A a \in Askers :
        (row[a] = "running" /\ row'[a] = "swept") => pc[owner[a]] \in {"exiting", "gone"}]_vars
  BY <1>1
<1> QED
  BY <1>2, Invariance, PTL DEF Spec, SweepSparesTheLiving

\* The lifecycle lock is the evidence: when `daemon stop` prints "stopped"
\* or "not running", no daemon has the database open, and the one it asked
\* is past its finally.
THEOREM StopReports == Spec => StopReportIsTrue
<1>1. ASSUME IInv, [Next]_vars, NEW s \in Stoppers,
             cpc[s] # cpc'[s], cpc'[s] \in {"stopped", "not running"}
      PROVE  OpenDaemons = {} /\ (asked[s] # Nobody => pc[asked[s]] \in {"exiting", "gone"})
  <2>1. Free("lifecycle")
    <3>1. ASSUME NEW c \in Clients, ClientStep(c)
          PROVE  Free("lifecycle")
      <4>1. CASE StopVerified(c) \/ AbsenceChecked(c)
        BY <1>1, <4>1, ProcessFacts DEF StopVerified, AbsenceChecked, Goes, IInv, TypeOK
      <4>2. CASE ~(StopVerified(c) \/ AbsenceChecked(c))
        <5>1. \E step \in ClientSteps \ {"stopped", "not running"} : cpc' = [cpc EXCEPT ![c] = step]
          BY <3>1, <4>2 DEF ClientStep, Requesting, Goes, Ask, ProbeMaintenance,
             MaintenanceProbed, RotationSeen, ProbeLifecycle, LifecycleProbed, TryConnect,
             Released, NotReady, Unavailable, Expire, Send, OutcomeUnknown, Held, SpawnFails,
             Spawns, StopTimesOut, ClientSteps, Asking, Reports
        <5> QED
          BY <1>1, <5>1, ProcessFacts DEF IInv, TypeOK
      <4> QED
        BY <4>1, <4>2
    <3>2. ASSUME NEW d \in Daemons, DaemonAction(d)
          PROVE  FALSE
      <4>1. \/ UNCHANGED cpc
            \/ \E c \in Clients, step \in {"holding", "ready", "answered", "polling"} :
                 cpc' = [cpc EXCEPT ![c] = step]
        <5>1. CASE StartStep(d)
          BY <5>1, ProcessFacts DEF StartStep, Starting, StartByHand, Climb, Pend, BackOff, Take,
             AlreadyRunning, Stamp, Stamped, Share, RotationInProgress, OpenStore, SweepRow,
             SweepEnds, ClearStaleEndpoint, Bind, StartFails, Spawn, Spawns, Goes, clients
        <5>2. CASE ServiceStep(d)
          BY <5>2, ProcessFacts DEF ServiceStep, Serving, Finishing, Accept, Begin, Finish,
             AcceptStop, Signal, clients
        <5>3. CASE LeavingStep(d)
          BY <5>3 DEF LeavingStep, Leaving, StartDrain, EndDrain, UnlinkIfStillOurs,
             ReleaseMaintenance, Unstamp, Unstamped, ReleaseLifecycle, Exit, Kill, clients
        <5> QED
          BY <3>2, <5>1, <5>2, <5>3 DEF DaemonAction
      <4> QED
        BY <1>1, <4>1, ProcessFacts DEF IInv, TypeOK
    <3>3. ~UNCHANGED clients
      BY <1>1 DEF clients
    <3> QED
      BY <1>1, <3>1, <3>2, <3>3, StepsByKind, RotatorsKeepOut DEF vars
  <2>2. \A d \in Daemons : pc[d] \notin HoldsLifecycle
    BY <1>1, <2>1, ProcessFacts DEF IInv, LocksHeld, Free
  <2>3. OpenDaemons = {}
    BY <2>2 DEF OpenDaemons, HoldsLifecycle
  <2>4. asked[s] # Nobody => asked[s] \in Daemons /\ pc[asked[s]] \in AfterBind
    BY <1>1 DEF IInv, Connected, TypeOK
  <2> QED
    BY <2>2, <2>3, <2>4 DEF HoldsLifecycle, AfterBind
<1>2. IInv /\ [Next]_vars => [\A s \in Stoppers :
        (cpc[s] # cpc'[s] /\ cpc'[s] \in {"stopped", "not running"})
          => OpenDaemons = {} /\ (asked[s] # Nobody => pc[asked[s]] \in {"exiting", "gone"})]_vars
  BY <1>1
<1> QED
  BY <1>2, Invariance, PTL DEF Spec, StopReportIsTrue

-----------------------------------------------------------------------------
(* What the runs check, part by part proved above *)

\* startDaemon's locks and endpoint: one process has the database open, and
\* the socket's pathname leads to it while it serves.
THEOREM OwnerHolds == Spec => []DatabaseIsOwned
<1>1. OneOwner /\ PathLeadsToDaemon => DatabaseIsOwned
  BY DEF DatabaseIsOwned
<1> QED
  BY <1>1, OwnerIsUnique, PathHolds, PTL

\* runKeyRotate loses no key, to a daemon or to its successors.
THEOREM KeysHold == Spec => []KeysAreSafe
<1>1. KeyIsCurrent /\ KeyIsOnDisk => KeysAreSafe
  BY DEF KeysAreSafe
<1> QED
  BY <1>1, OpenUnderOneKey, KeyNeverLost, PTL

\* An execution's row is begun once, and swept from the dead only.
THEOREM RowsHold == Spec => RowsLiveOnce
BY RunsOnceHolds, SweepSpares DEF RowsLiveOnce

=============================================================================
