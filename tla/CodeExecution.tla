---------------------------- MODULE CodeExecution ----------------------------
(***************************************************************************)
(* Code executions: a script whose tool calls are performed one at a time, *)
(* each journaled before the script goes on, so that a script that paused  *)
(* for an operator is resumed by running it again from the top against its *)
(* journal.  The manager's start(), resume() and drive(), its journaling   *)
(* host, the sandbox's loop with the engine module all executions share,   *)
(* the operator's staged decision, and the rows and the journal on disk.   *)
(*                                                                         *)
(* A script is deterministic: a function from what its calls have returned *)
(* so far to what it does next.  A run of the sandbox is synchronous, so   *)
(* it is one step; every await of a drive is a place where pc rests.       *)
(*                                                                         *)
(* Abstracted: arguments, results and texts of errors, except whether the  *)
(* text of an error changes when it is stored; seeds (they are what makes  *)
(* scripts deterministic); memory, output and time limits, one outcome;    *)
(* the read-side guard of resume(), which DirectExecution has in detail;   *)
(* the session a call is written on, which is UpstreamSession's.           *)
(***************************************************************************)
EXTENDS Naturals, Sequences, SequencesExt, FiniteSets

CONSTANTS
  Executions,
  Resumers,    \* calls of resume() by operators
  Requests,    \* what scripts ask of the host: an operation and its arguments
  Lookups,     \* those that are search or describe
  Gated,       \* the calls whose policy is require_approval
  Blocked,     \* the calls whose policy is block
  Scripts,     \* per execution: the scripts it may be started with
  Does,        \* what each script does next, given what it has heard so far
  MaxCalls,    \* bound: how many requests a script makes
  MaxCrashes,  \* bound: how often the daemon process dies
  Nothing      \* no request

\* What a script hears of a request: its result, a refusal, an error, an error
\* whose text is long or spans lines, and what storing makes of that one.
Outcomes == {"value", "refused", "error", "long error", "cut error"}

\* How a script ends: it returns, throws, or overflows the host's stack.
Ends == {"return", "throw", "overflow"}

Heard == BoundedSeq(Outcomes, MaxCalls)

ASSUME RequestsAssumption ==
  /\ Lookups \subseteq Requests /\ Gated \subseteq Requests /\ Blocked \subseteq Requests
  /\ Lookups \cap (Gated \union Blocked) = {} /\ Gated \cap Blocked = {}
  /\ Nothing \notin Requests \union Executions \union Resumers
  /\ Requests \cap Ends = {}

ASSUME ScriptsAssumption ==
  \A e \in Executions : \A s \in Scripts[e] :
    /\ Does[s] \in [Heard -> Requests \union Ends]
    /\ \A h \in Heard : Len(h) = MaxCalls => Does[s][h] \in Ends

ASSUME BoundsAssumption == MaxCalls \in Nat /\ MaxCrashes \in Nat

VARIABLES
  row,      \* executions: status, the call it is paused on, what it failed of
  disk,     \* replay_journal: per execution, its entries by ordinal
  script,   \* executions.code
  pauses,   \* how many call ids the pauses of an execution have used
  pc,       \* per execution: where its drive rests
  drive,    \* per execution: what its drive holds in its local variables
  staged,   \* per execution: the decision its drive may take, and if it did
  engine,   \* the shared module: none yet, sound or poisoned, and if one is being built
  rpc,      \* per resume(): where it rests
  deed,     \* per resume(): what it was called with
  answer,   \* per resume(): how it ended
  up, crashes,
  sent,     \* history: per execution, the calls written to an upstream, in order
  approved, \* history: the approvals that were claimed, by execution and call id
  given     \* history: executions whose last write was given up, in the log

store == <<row, disk, script, pauses>>
memory == <<pc, drive, staged>>
resumes == <<rpc, deed, answer>>
world == <<up, crashes>>
history == <<sent, approved, given>>
vars == <<store, memory, engine, resumes, world, history>>

-----------------------------------------------------------------------------
(* Values *)

NoPause == [id |-> 0, at |-> 0, request |-> Nothing]

Positions == 1..MaxCalls

Pauses == [id : Positions, at : Positions, request : Requests] \union {NoPause}

Terminal == {"completed", "failed", "expired"}

Statuses == {"none", "running", "paused"} \union Terminal

\* What the error of a failed row says.
Causes == {"none", "script", "limits", "ambiguous", "nondeterminism", "divergence",
           "catalog", "internal", "engine", "no engine", "persist", "resume", "swept"}

Rows == [status : Statuses, pause : Pauses, cause : Causes]

NoRow == [status |-> "none", pause |-> NoPause, cause |-> "none"]

Entries == [request : Requests, outcome : Outcomes]

Journals == BoundedSeq(Entries, MaxCalls)

\* journal: execute()'s copy; request: what the script waits for; outcome: what the
\* host made of it; plan: the row the drive wants to write; by: the resume() it serves.
Drives == [journal : Journals, request : Requests \union {Nothing}, outcome : Outcomes,
           plan : Rows, by : Resumers \union {Nothing}]

NoDrive == [journal |-> <<>>, request |-> Nothing, outcome |-> "value", plan |-> NoRow,
            by |-> Nothing]

Decisions == {"approve", "deny"}

\* The execution, the position of the pause, the decision, and the row a resume()
\* that does not drive wants to write.
Deeds == [on : Executions \union {Nothing}, at : 0..MaxCalls, decision : Decisions, plan : Rows]

NoDeed == [on |-> Nothing, at |-> 0, decision |-> "deny", plan |-> NoRow]

Stagings == [request : Requests \union {Nothing}, decision : Decisions, consumed : BOOLEAN]

NotStaged == [request |-> Nothing, decision |-> "deny", consumed |-> FALSE]

Steps == {"idle", "module", "building", "run", "asking", "calling", "sent", "journaling",
          "pausing", "settling", "fallback", "over"}

Answers == {"none", "conflict", "applied", "not applied", "unknown", "threw", "dead"}

TypeOK ==
  /\ row \in [Executions -> Rows]
  /\ disk \in [Executions -> Journals]
  /\ \A e \in Executions : script[e] \in Scripts[e] \union {Nothing}
  /\ pauses \in [Executions -> 0..MaxCalls]
  /\ pc \in [Executions -> Steps]
  /\ drive \in [Executions -> Drives]
  /\ staged \in [Executions -> Stagings]
  /\ engine \in [module : {"none", "sound", "poisoned"}, building : BOOLEAN]
  /\ rpc \in [Resumers -> {"idle", "claimed", "driving", "caught", "late", "done"}]
  /\ deed \in [Resumers -> Deeds]
  /\ answer \in [Resumers -> Answers]
  /\ up \in BOOLEAN
  /\ crashes \in 0..MaxCrashes
  /\ \A e \in Executions : \A i \in DOMAIN sent[e] :
       sent[e][i] \in [at : Positions, request : Requests]
  /\ approved \subseteq [on : Executions, id : Positions, request : Requests]
  /\ given \subseteq Executions

Init ==
  /\ row = [e \in Executions |-> NoRow]
  /\ disk = [e \in Executions |-> <<>>]
  /\ script = [e \in Executions |-> Nothing]
  /\ pauses = [e \in Executions |-> 0]
  /\ pc = [e \in Executions |-> "idle"]
  /\ drive = [e \in Executions |-> NoDrive]
  /\ staged = [e \in Executions |-> NotStaged]
  /\ engine = [module |-> "none", building |-> FALSE]
  /\ rpc = [r \in Resumers |-> "idle"]
  /\ deed = [r \in Resumers |-> NoDeed]
  /\ answer = [r \in Resumers |-> "none"]
  /\ up = TRUE
  /\ crashes = 0
  /\ sent = [e \in Executions |-> <<>>]
  /\ approved = {}
  /\ given = {}

-----------------------------------------------------------------------------
(* Helpers *)

Goes(e, step) == pc' = [pc EXCEPT ![e] = step]

Failed(cause) == [status |-> "failed", pause |-> NoPause, cause |-> cause]

Completed == [status |-> "completed", pause |-> NoPause, cause |-> "none"]

\* Mutant: expiry has a status that is no status of a row.
MExpired == [status |-> "timed out", pause |-> NoPause, cause |-> "none"]

Expired == [status |-> "expired", pause |-> NoPause, cause |-> "none"]

\* The drive is about to write this row: finish(), or the paused put.
Settles(e, planned) ==
  /\ drive' = [drive EXCEPT ![e].plan = planned]
  /\ Goes(e, "settling")

\* The journal position of the request the drive is at, ordinal plus one.
At(e) == Len(drive[e].journal) + 1

-----------------------------------------------------------------------------
(* start() *)

\* create() and the drive's preparation; the script has not run yet.
Start(e, s) ==
  /\ up
  /\ row[e].status = "none"
  /\ row' = [row EXCEPT ![e].status = "running"]
  /\ script' = [script EXCEPT ![e] = s]
  /\ Goes(e, "module")
  /\ UNCHANGED <<disk, pauses, drive, staged, engine, resumes, world, history>>

\* The session scope or the invoker cannot be made: the row is already running.
StartFails(e, s) ==
  /\ up
  /\ row[e].status = "none"
  /\ row' = [row EXCEPT ![e].status = "running"]
  /\ script' = [script EXCEPT ![e] = s]
  /\ Settles(e, Failed("internal"))
  /\ UNCHANGED <<disk, pauses, staged, engine, resumes, world, history>>

-----------------------------------------------------------------------------
(* execute(): the shared module *)

\* getModule(): the module there is, or the one build everybody waits for.
GetModule(e) ==
  /\ pc[e] = "module"
  /\ IF engine.module = "sound"
     THEN Goes(e, "run") /\ UNCHANGED engine
     ELSE Goes(e, "building") /\ engine' = [engine EXCEPT !.building = TRUE]
  /\ UNCHANGED <<store, drive, staged, resumes, world, history>>

\* The build ends.  An execution that was handed a module runs before the event
\* loop gets to it.
ModuleBuilt ==
  /\ engine.building
  /\ \A e \in Executions : pc[e] # "run"
  /\ engine' = [module |-> "sound", building |-> FALSE]
  /\ pc' = [e \in Executions |-> IF pc[e] = "building" THEN "run" ELSE pc[e]]
  /\ UNCHANGED <<store, drive, staged, resumes, world, history>>

\* The build rejects: execute() throws for all of them, and drive() finalizes.
BuildFails ==
  /\ engine.building
  /\ \A e \in Executions : pc[e] # "run"
  /\ engine' = [engine EXCEPT !.building = FALSE]
  /\ pc' = [e \in Executions |-> IF pc[e] = "building" THEN "settling" ELSE pc[e]]
  /\ drive' = [e \in Executions |->
       IF pc[e] = "building" THEN [drive[e] EXCEPT !.plan = Failed("no engine")] ELSE drive[e]]
  /\ UNCHANGED <<store, staged, resumes, world, history>>

\* Mutant: a module that was handed out is not looked at again.
MStillUsable == TRUE

\* The check before a run: nobody poisoned the module since it was handed out.
StillUsable == engine.module # "poisoned"

\* A run that damaged the module marks it.
Poison == engine' = [engine EXCEPT !.module = "poisoned"]

-----------------------------------------------------------------------------
(* runOnce() *)

\* What the script has heard after its first n requests are answered from j.
HeardFrom(j, n) == [i \in 1..n |-> j[i].outcome]

\* The bridge answers the next request from the journal if it is the journaled one.
Replays(e, i) ==
  Does[script[e]][HeardFrom(drive[e].journal, i - 1)] = drive[e].journal[i].request

\* How many entries of the journal the run consumes.
Consumed(e) ==
  CHOOSE n \in 0..Len(drive[e].journal) :
    /\ \A i \in 1..n : Replays(e, i)
    /\ n < Len(drive[e].journal) => ~Replays(e, n + 1)

\* What the script does after those.
NextStep(e) == Does[script[e]][HeardFrom(drive[e].journal, Consumed(e))]

Diverges(e) == Consumed(e) < Len(drive[e].journal) /\ NextStep(e) \in Requests

\* The bridge was called for something that is not journaled: the run is suspended.
Asks(e) ==
  /\ engine.module # "poisoned"
  /\ ~Diverges(e)
  /\ NextStep(e) \in Requests

\* What the run leaves the drive to write, if the script did not ask for anything.
RunEnds(e) ==
  IF engine.module = "poisoned" THEN Failed("engine")
  ELSE IF Diverges(e) THEN Failed("nondeterminism")
       ELSE IF NextStep(e) = "return" THEN Completed ELSE Failed("script")

RunOnce(e) ==
  /\ pc[e] = "run"
  /\ StillUsable
  /\ \/ /\ Asks(e)
        /\ drive' = [drive EXCEPT ![e].request = NextStep(e)]
        /\ Goes(e, "asking")
        /\ UNCHANGED engine
     \/ /\ ~Asks(e)
        /\ Settles(e, RunEnds(e))
        /\ IF NextStep(e) = "overflow" THEN Poison ELSE UNCHANGED engine
  /\ UNCHANGED <<store, staged, resumes, world, history>>

\* Another execution poisoned it meanwhile: back to getModule().
RunAgain(e) ==
  /\ pc[e] = "run"
  /\ ~StillUsable
  /\ Goes(e, "module")
  /\ UNCHANGED <<store, drive, staged, engine, resumes, world, history>>

-----------------------------------------------------------------------------
(* The journaling host and the invoker: one request, with the VM gone *)

\* A request has an outcome the script may hear; it is journaled first.
Hears(e, outcome) ==
  /\ drive' = [drive EXCEPT ![e].outcome = outcome]
  /\ Goes(e, "journaling")

LookUp(e) ==
  /\ pc[e] = "asking"
  /\ drive[e].request \in Lookups
  /\ \E outcome \in {"value", "error"} : Hears(e, outcome)
  /\ UNCHANGED <<store, staged, engine, resumes, world, history>>

\* Mutant: take() answers whatever call asks first.
MTakes(e) == TRUE

\* take() answers for the call the decision was staged for, and only once.
Takes(e) == staged[e].request = drive[e].request

\* resolveDecisionVerdict(): the operator's word goes before policy.
TakeDecision(e) ==
  /\ pc[e] = "asking"
  /\ drive[e].request \notin Lookups
  /\ staged[e].request # Nothing
  /\ IF Takes(e)
     THEN /\ staged' = [staged EXCEPT ![e].request = Nothing, ![e].consumed = TRUE]
          /\ IF staged[e].decision = "approve"
             THEN Goes(e, "calling") /\ UNCHANGED drive
             ELSE Hears(e, "refused")
     ELSE \* discarded, and the execution with it
          /\ staged' = [staged EXCEPT ![e].request = Nothing]
          /\ Settles(e, Failed("divergence"))
  /\ UNCHANGED <<store, engine, resumes, world, history>>

\* No decision is staged: policy decides.
EvaluatePolicy(e) ==
  /\ pc[e] = "asking"
  /\ drive[e].request \notin Lookups
  /\ staged[e].request = Nothing
  /\ \/ drive[e].request \in Blocked /\ Hears(e, "refused")
     \/ drive[e].request \in Gated /\ Goes(e, "pausing") /\ UNCHANGED drive
     \/ /\ drive[e].request \notin Blocked \union Gated
        /\ Goes(e, "calling")
        /\ UNCHANGED drive
  /\ UNCHANGED <<store, staged, engine, resumes, world, history>>

\* Before the body is written: a store read, the time limit, the egress check or
\* the session handshake fails the call, with an error that may quote the upstream,
\* or the tool is gone.  A read that fails before take() leaves the decision staged.
CallFails(e) ==
  /\ pc[e] \in {"asking", "calling"}
  /\ drive[e].request \notin Lookups
  /\ \/ \E outcome \in {"error", "long error"} : Hears(e, outcome)
     \/ pc[e] = "calling" /\ Hears(e, "refused")
  /\ UNCHANGED <<store, staged, engine, resumes, world, history>>

\* upstream.call() writes the body, and the dispatch cell says so.
WriteBody(e) ==
  /\ pc[e] = "calling"
  /\ sent' = [sent EXCEPT ![e] = Append(@, [at |-> At(e), request |-> drive[e].request])]
  /\ Goes(e, "sent")
  /\ UNCHANGED <<store, drive, staged, engine, resumes, world, approved, given>>

\* The result, of a tool that worked or one that says it failed, was audited.
Answered(e) ==
  /\ pc[e] = "sent"
  /\ Hears(e, "value")
  /\ UNCHANGED <<store, staged, engine, resumes, world, history>>

\* Mutant: a lost answer is an error like any other.
MAnswerLost(e) ==
  /\ pc[e] = "sent"
  /\ Hears(e, "error")
  /\ UNCHANGED <<store, staged, engine, resumes, world, history>>

\* Anything else after the write, the audit row's failure included: the call may
\* have run, and the script must not go on.
AnswerLost(e) ==
  /\ pc[e] = "sent"
  /\ Settles(e, Failed("ambiguous"))
  /\ UNCHANGED <<store, staged, engine, resumes, world, history>>

\* What the journal row keeps of an outcome: errors go through formatCause().
RowOutcome(outcome) == IF outcome = "long error" THEN "cut error" ELSE outcome

\* replayJournal.append(): nothing to do for an entry that is there, a conflict
\* for one that differs.
CanAppend(e) ==
  At(e) <= Len(disk[e]) =>
    disk[e][At(e)] = [request |-> drive[e].request, outcome |-> RowOutcome(drive[e].outcome)]

Appended(e) ==
  IF At(e) > Len(disk[e])
  THEN [disk EXCEPT ![e] =
         Append(@, [request |-> drive[e].request, outcome |-> RowOutcome(drive[e].outcome)])]
  ELSE disk

\* The outcome is durable, and only then the script's: it runs again, unless its
\* time is over.
AppendBarrier(e) ==
  /\ pc[e] = "journaling"
  /\ CanAppend(e)
  /\ disk' = Appended(e)
  /\ LET entry == [request |-> drive[e].request, outcome |-> drive[e].outcome]
         longer == [drive EXCEPT ![e].journal = Append(@, entry)]
     IN \/ drive' = longer /\ Goes(e, "module")
        \/ /\ drive' = [longer EXCEPT ![e].plan = Failed("limits")]
           /\ Goes(e, "settling")
  /\ UNCHANGED <<row, script, pauses, staged, engine, resumes, world, history>>

\* Mutant: an append that throws is logged, and the script goes on.
MAppendFails(e) ==
  /\ pc[e] = "journaling"
  /\ drive' = [drive EXCEPT ![e].journal =
                 Append(@, [request |-> drive[e].request, outcome |-> drive[e].outcome])]
  /\ Goes(e, "module")
  /\ UNCHANGED <<store, staged, engine, resumes, world, history>>

\* The append throws: whatever the request did is not on record.
AppendFails(e) ==
  /\ pc[e] = "journaling"
  /\ Settles(e, Failed("ambiguous"))
  /\ UNCHANGED <<store, staged, engine, resumes, world, history>>

\* assemblePending(): a pause carries a new call id and the call it is for.
AssemblePending(e) ==
  /\ pc[e] = "pausing"
  /\ pauses' = [pauses EXCEPT ![e] = @ + 1]
  /\ Settles(e, [status |-> "paused", cause |-> "none",
                 pause |-> [id |-> pauses[e] + 1, at |-> At(e), request |-> drive[e].request]])
  /\ UNCHANGED <<row, disk, script, staged, engine, resumes, world, history>>

\* The tool's source is gone, or the store cannot say: no pause without provenance.
CannotPause(e) ==
  /\ pc[e] = "pausing"
  /\ \E cause \in {"catalog", "internal"} : Settles(e, Failed(cause))
  /\ UNCHANGED <<store, staged, engine, resumes, world, history>>

-----------------------------------------------------------------------------
(* The drive's last write, and what resume() returns *)

\* Mutant: a decision counts as applied when the execution went well.
MReturns(e, ok) ==
  /\ Goes(e, "over")
  /\ drive' = [drive EXCEPT ![e] = NoDrive]
  /\ staged' = [staged EXCEPT ![e] = NotStaged]
  /\ LET r == drive[e].by
     IN IF r = Nothing THEN UNCHANGED resumes
        ELSE /\ rpc' = [rpc EXCEPT ![r] = IF ok THEN "done" ELSE "caught"]
             /\ answer' = [answer EXCEPT ![r] =
                  IF ~ok THEN @
                  ELSE IF drive[e].plan = Completed THEN "applied" ELSE "not applied"]
             /\ UNCHANGED deed

\* The drive is over; the resume() it served answers, or catches what it threw.
Returns(e, ok) ==
  /\ Goes(e, "over")
  /\ drive' = [drive EXCEPT ![e] = NoDrive]
  /\ staged' = [staged EXCEPT ![e] = NotStaged]
  /\ LET r == drive[e].by
     IN IF r = Nothing THEN UNCHANGED resumes
        ELSE /\ rpc' = [rpc EXCEPT ![r] = IF ok THEN "done" ELSE "caught"]
             /\ answer' = [answer EXCEPT ![r] =
                  IF ~ok THEN @
                  ELSE IF staged[e].consumed THEN "applied" ELSE "not applied"]
             /\ UNCHANGED deed

\* executions.put() of the row finish() or the paused arm built.
Settle(e) ==
  /\ pc[e] = "settling"
  /\ row' = [row EXCEPT ![e] = drive[e].plan]
  /\ Returns(e, drive[e].plan.cause \notin {"engine", "no engine"})
  /\ UNCHANGED <<disk, script, pauses, engine, world, history>>

\* Mutant: a put that throws just surfaces.
MSettleFails(e) ==
  /\ pc[e] = "settling"
  /\ Returns(e, FALSE)
  /\ UNCHANGED <<store, engine, world, history>>

\* persistOrFinalizeFailed(): the put throws, and a failed row is tried instead.
SettleFails(e) ==
  /\ pc[e] = "settling"
  /\ Goes(e, "fallback")
  /\ UNCHANGED <<store, drive, staged, engine, resumes, world, history>>

FinalizeFailed(e) ==
  /\ pc[e] = "fallback"
  /\ row' = [row EXCEPT ![e] = Failed("persist")]
  /\ Returns(e, FALSE)
  /\ UNCHANGED <<disk, script, pauses, engine, world, history>>

\* Not even that: the row stays running, and the fault surfaces, to the catch of
\* resume() if one is waiting for it.
GivesUp(e) ==
  /\ pc[e] = "fallback"
  /\ given' = given \union {e}
  /\ Returns(e, FALSE)
  /\ UNCHANGED <<store, engine, world, sent, approved>>

-----------------------------------------------------------------------------
(* resume() *)

\* claimForResume(): one UPDATE, from paused and for the call id that is pending.
Claims(e, id) == row[e].status = "paused" /\ row[e].pause.id = id

\* The caller has read the call id of some pause off a list.
Claim(r, e, id, decision) ==
  /\ up
  /\ rpc[r] = "idle"
  /\ id \in 1..pauses[e]
  /\ IF Claims(e, id)
     THEN /\ row' = [row EXCEPT ![e].status = "running"]
          /\ deed' = [deed EXCEPT ![r] =
               [on |-> e, at |-> row[e].pause.at, decision |-> decision, plan |-> NoRow]]
          /\ rpc' = [rpc EXCEPT ![r] = "claimed"]
          /\ approved' = IF decision = "approve"
                         THEN approved \union
                                {[on |-> e, id |-> id, request |-> row[e].pause.request]}
                         ELSE approved
          /\ UNCHANGED answer
     ELSE /\ rpc' = [rpc EXCEPT ![r] = "done"]
          /\ answer' = [answer EXCEPT ![r] = "conflict"]
          /\ UNCHANGED <<row, deed, approved>>
  /\ UNCHANGED <<disk, script, pauses, memory, engine, world, sent, given>>

\* Mutant: the script is driven again without its prefix.
MRedrive(r) ==
  /\ rpc[r] = "claimed"
  /\ LET e == deed[r].on
     IN /\ drive' = [drive EXCEPT ![e] = [NoDrive EXCEPT !.by = r]]
        /\ staged' = [staged EXCEPT ![e] =
             [request |-> row[e].pause.request, decision |-> deed[r].decision, consumed |-> FALSE]]
        /\ Goes(e, "module")
  /\ rpc' = [rpc EXCEPT ![r] = "driving"]
  /\ UNCHANGED <<store, engine, deed, answer, world, history>>

\* The guard passed: the prefix is loaded, the decision staged for the pending call,
\* and the script is driven again, from the top and with a fresh time limit.
Redrive(r) ==
  /\ rpc[r] = "claimed"
  /\ LET e == deed[r].on
     IN /\ drive' = [drive EXCEPT ![e] = [NoDrive EXCEPT !.journal = disk[e], !.by = r]]
        /\ staged' = [staged EXCEPT ![e] =
             [request |-> row[e].pause.request, decision |-> deed[r].decision, consumed |-> FALSE]]
        /\ Goes(e, "module")
  /\ rpc' = [rpc EXCEPT ![r] = "driving"]
  /\ UNCHANGED <<store, engine, deed, answer, world, history>>

\* failClaimedResume(): only a row that is still running.
FailedIfRunning(e, planned) ==
  IF row[e].status = "running" THEN [row EXCEPT ![e] = planned] ELSE row

\* How a bounded store write ends: landed, rejected, or not within its budget.
WriteEnds == {"ok", "rejected", "timeout"}

\* A resume() writes a terminal row itself, and answers by how the write ended.
Terminalizes(r, planned, write, told) ==
  /\ row' = IF write = "ok" THEN FailedIfRunning(deed[r].on, planned) ELSE row
  /\ given' = IF write = "ok" THEN given ELSE given \union {deed[r].on}
  /\ rpc' = [rpc EXCEPT ![r] = IF write = "timeout" THEN "late" ELSE "done"]
  /\ answer' = [answer EXCEPT ![r] = told]
  /\ deed' = [deed EXCEPT ![r].plan = planned]
  /\ UNCHANGED <<disk, script, pauses, memory, engine, world, sent, approved>>

\* kindOf() did not answer within its budget.
KindUnanswered(r) ==
  /\ rpc[r] = "claimed"
  /\ \E write \in WriteEnds : Terminalizes(r, Failed("resume"), write, "unknown")

\* The catalog, the scope or the stored pause refuses: terminalizeCodeRow().
GuardRefuses(r) ==
  /\ rpc[r] = "claimed"
  /\ \E write \in WriteEnds :
       Terminalizes(r, Failed("resume"), write, IF write = "ok" THEN "not applied" ELSE "unknown")

\* The approval is older than its TTL; a rejected put falls back to a failed row.
FindsExpired(r) ==
  /\ rpc[r] = "claimed"
  /\ \/ Terminalizes(r, Expired, "ok", "not applied")
     \/ Terminalizes(r, Expired, "timeout", "unknown")
     \/ \E write \in {"ok", "rejected"} : Terminalizes(r, Failed("persist"), write, "threw")

\* The catch around all of resume(): a read, the journal's check, the scope or the
\* invoker threw, or the drive did, whose row may be settled or may not.
PreparationFails(r) ==
  /\ rpc[r] \in {"claimed", "caught"}
  /\ \E write \in WriteEnds : Terminalizes(r, Failed("resume"), write, "threw")

\* A write that was given up on lands after all.
LandsLate(r) ==
  /\ rpc[r] = "late"
  /\ row' = FailedIfRunning(deed[r].on, deed[r].plan)
  /\ rpc' = [rpc EXCEPT ![r] = "done"]
  /\ UNCHANGED <<disk, script, pauses, memory, engine, deed, answer, world, history>>

\* invalidatePaused(), the store's sweep of a namespace's pauses, by whoever uses the
\* store beside the manager; the daemon does not call it yet.
InvalidatePaused(e) ==
  /\ row[e].status = "paused"
  /\ row' = [row EXCEPT ![e] = Failed("catalog")]
  /\ UNCHANGED <<disk, script, pauses, memory, engine, resumes, world, history>>

-----------------------------------------------------------------------------
(* The process *)

Crash ==
  /\ up
  /\ crashes < MaxCrashes
  /\ up' = FALSE
  /\ crashes' = crashes + 1
  /\ pc' = [e \in Executions |-> "idle"]
  /\ drive' = [e \in Executions |-> NoDrive]
  /\ staged' = [e \in Executions |-> NotStaged]
  /\ engine' = [module |-> "none", building |-> FALSE]
  /\ rpc' = [r \in Resumers |-> IF rpc[r] = "idle" THEN "idle" ELSE "done"]
  /\ answer' = [r \in Resumers |->
       IF rpc[r] \in {"claimed", "driving", "caught"} THEN "dead" ELSE answer[r]]
  /\ UNCHANGED <<store, deed, history>>

\* The next process sweeps what the dead one left running, before it serves.
Restart ==
  /\ ~up
  /\ up' = TRUE
  /\ row' = [e \in Executions |->
       IF row[e].status = "running" THEN Failed("swept") ELSE row[e]]
  /\ UNCHANGED <<disk, script, pauses, memory, engine, resumes, crashes, history>>

-----------------------------------------------------------------------------
(* The specification *)

DriveStep(e) ==
  \/ GetModule(e) \/ RunOnce(e) \/ RunAgain(e)
  \/ LookUp(e) \/ TakeDecision(e) \/ EvaluatePolicy(e) \/ WriteBody(e) \/ Answered(e)
  \/ AppendBarrier(e) \/ AssemblePending(e) \/ Settle(e) \/ FinalizeFailed(e)

DriveFails(e) ==
  \/ CallFails(e) \/ AnswerLost(e) \/ AppendFails(e) \/ CannotPause(e)
  \/ SettleFails(e) \/ GivesUp(e)

ResumeFails(r) ==
  \/ KindUnanswered(r) \/ GuardRefuses(r) \/ FindsExpired(r) \/ PreparationFails(r)
  \/ LandsLate(r)

Next ==
  \/ \E e \in Executions :
       \/ \E s \in Scripts[e] : Start(e, s) \/ StartFails(e, s)
       \/ DriveStep(e) \/ DriveFails(e) \/ InvalidatePaused(e)
  \/ \E r \in Resumers :
       \/ \E e \in Executions, id \in Positions, d \in Decisions : Claim(r, e, id, d)
       \/ Redrive(r) \/ ResumeFails(r)
  \/ ModuleBuilt \/ BuildFails \/ Crash \/ Restart

Spec == Init /\ [][Next]_vars

-----------------------------------------------------------------------------
(* Properties *)

\* Who holds a row that is running: a resume() that has not got to driving, or a drive.
Claimed(e) == \E r \in Resumers : rpc[r] = "claimed" /\ deed[r].on = e

Driven(e) == pc[e] \notin {"idle", "over"}

\* Each call of a script is written to its upstream at most once, however often
\* the script is run again: a journaled call is answered from the journal.
PerformedOnce ==
  \A e \in Executions : \A i, j \in DOMAIN sent[e] :
    sent[e][i].at = sent[e][j].at => i = j

\* One approval, one call: a gated request is written no more often than operators
\* approved that very request of that execution.
OneApprovalOneCall ==
  \A e \in Executions, q \in Gated :
    Cardinality({i \in DOMAIN sent[e] : sent[e][i].request = q})
      <= Cardinality({a \in approved : a.on = e /\ a.request = q})

\* A call that was written and whose result is on no record is not passed over:
\* the row does not pause or complete over it, and if it failed it says that the
\* outcome is ambiguous, that the process died, or that the write was lost.  Only
\* where the drive could write nothing at all, which the log says, may the catch of
\* resume() put its own words there.
LostCallIsTold ==
  \A e \in Executions : \A i \in DOMAIN sent[e] :
    sent[e][i].at > Len(disk[e]) =>
      /\ row[e].status \in {"running", "failed"}
      /\ row[e].status = "failed" =>
           \/ row[e].cause \in {"ambiguous", "swept", "persist"}
           \/ row[e].cause = "resume" /\ e \in given

\* An operator who denied, or was told that the decision did not apply, can rely on
\* it: the pending call was not written, then or later.
UnappliedIsNotRun ==
  \A r \in Resumers :
    (\/ answer[r] \in {"not applied", "unknown"}
     \/ answer[r] = "applied" /\ deed[r].decision = "deny") =>
        \A i \in DOMAIN sent[deed[r].on] : sent[deed[r].on][i].at # deed[r].at

\* A script that overflows the stack fails alone: nobody runs on the module it
\* damaged, although all that waited for one build were handed the same module.
OneVictim == \A e \in Executions : row[e].cause # "engine"

\* No row is left running with nobody to settle it: a drive or a resume() holds it,
\* unless a last write was given up in the log.  However many executions failed
\* together on one build of the engine, or on a store that comes and goes.
NothingStranded ==
  up => \A e \in Executions :
          row[e].status = "running" => Driven(e) \/ Claimed(e) \/ e \in given

\* conduitspec.md, 5.5: journaled calls return their memoized results, so a script
\* that is deterministic between calls is never failed for diverging from itself.
DeterministicScriptsReplay ==
  \A e \in Executions : row[e].cause \notin {"nondeterminism", "divergence"}

-----------------------------------------------------------------------------
(* Each call of a script is a governed call: the k-th request of e keeps the   *)
(* promise GatedCall states.                                                   *)

Gate(e, k) ==
  IF \/ k <= Len(disk[e])
     \/ row[e].status \in Terminal
     \/ row[e].status = "running" /\ ~Driven(e) /\ ~Claimed(e)
  THEN "closed"
  ELSE IF row[e].pause.at # k THEN "open"
       ELSE IF ~Driven(e) THEN "waiting"
            ELSE IF deed[drive[e].by].decision = "approve" THEN "granted" ELSE "closed"

Told(e, k) ==
  IF k > Len(disk[e]) \/ disk[e][k].request \in Lookups THEN {}
  ELSE IF disk[e][k].outcome = "value" THEN {"ran"} ELSE {"didNotRun"}

Promise(e, k) ==
  INSTANCE GatedCall WITH gate <- Gate(e, k),
                          sent <- \E i \in DOMAIN sent[e] : sent[e][i].at = k,
                          told <- Told(e, k)

\* What the journal tells a script of a call is so, and stays so.
CallsKeepPromise ==
  /\ \A e \in Executions, k \in Positions : Promise(e, k)!CallInit
  /\ [][\A e \in Executions, k \in Positions :
          [Promise(e, k)!CallNext]_(Promise(e, k)!callVars)]_vars

=============================================================================
