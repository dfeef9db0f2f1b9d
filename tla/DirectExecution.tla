--------------------------- MODULE DirectExecution ---------------------------
(***************************************************************************)
(* One direct execution (a single governed tool call) of the execution     *)
(* manager: the persisted row, the attempts that drive it, and the one     *)
(* latch per attempt that decides who answers.                             *)
(*                                                                         *)
(* The attempt Start is startDirect(); every member of Resumers is one     *)
(* resume() call an operator makes.  An attempt is a continuation (pc), a  *)
(* drive timer, and at most one settle write in flight.  The continuation  *)
(* and the timer race for latch[a]; whoever takes it owns the answer.      *)
(* Every await of the source is a place where pc rests, so timers, writes  *)
(* that land late, other attempts, catalog changes and crashes interleave  *)
(* there.  Consecutive awaits between which no shared state is touched     *)
(* share one pc value, named in the comment of the action that leaves it.  *)
(*                                                                         *)
(* Abstracted: payloads (the call's arguments, its result and the size and *)
(* redaction of it), the texts of errors (only their class is kept), and   *)
(* clocks (a budget may run out at any moment).                            *)
(***************************************************************************)
EXTENDS Naturals, FiniteSets

CONSTANTS
  Start,          \* the attempt id startDirect() mints
  Resumers,       \* the attempt ids of the resume() calls
  Nobody,         \* no attempt: the row has no resume_attempt yet
  MaxGeneration,  \* bound: catalog generations run from 1 to this
  MaxCrashes      \* bound: how often the daemon process dies

ASSUME AttemptsAssumption ==
  /\ Start \notin Resumers
  /\ Nobody \notin Resumers \union {Start}

ASSUME BoundsAssumption ==
  /\ MaxGeneration \in Nat \ {0}
  /\ MaxCrashes \in Nat

Attempts == Resumers \union {Start}

Generations == 1..MaxGeneration

VARIABLES
  row,        \* the executions row, durable
  catalog,    \* the tool's source: its generation, and whether the tool exists
  permitted,  \* the client's scope still grants the tool
  daemon,     \* "serving", "sweeping" (startup) or "down"
  crashes,    \* how often it died
  pc,         \* per attempt: where the continuation rests
  latch,      \* per attempt: "none" (no drive), "free", or who took it
  write,      \* per attempt: its settle write
  expiry,     \* per attempt: the guardExpiry promise of resume()
  outcome,    \* per attempt: what the outcome promise resolved to
  applied,    \* per attempt: the decisionApplied flag resume() returned
  decision,   \* per attempt: what the operator decided
  consumed,   \* per attempt: the staged decision was taken by the call
  found,      \* per attempt: the invoker resolved the tool
  sent,       \* the attempts whose dispatch cell reads "dispatched"
  seen        \* history: catalog and scope as they were when it mattered

world == <<catalog, permitted, daemon, crashes>>
answers == <<expiry, outcome, applied>>
call == <<decision, consumed, found, sent, seen>>
vars == <<row, world, pc, latch, write, answers, call>>

-----------------------------------------------------------------------------
(* Values *)

RowStatuses == {"absent", "running", "paused", "completed", "failed", "expired"}
Terminal == {"completed", "failed", "expired"}
Errors == {"none", "interrupted", "ambiguous", "catalogChanged",
           "scopeRevoked", "policyBlocked", "internal"}

\* How the stored pause reads: "unnameable" and "disagrees" are the damaged
\* forms the claim and the guard look for.
Pauses == {"none", "good", "unnameable", "disagrees"}

Rows == [status : RowStatuses, attempt : Attempts \union {Nobody}, error : Errors,
         generation : 0..MaxGeneration, pause : Pauses]

Answers == [status : {"none", "completed", "failed", "expired", "paused",
                      "unknown", "conflict", "threw"},
            error : Errors]

NoAnswer == [status |-> "none", error |-> "none"]
Says(status) == [status |-> status, error |-> "none"]
Failed(error) == [status |-> "failed", error |-> error]

\* The caller of an attempt has its answer.
Answered(a) == IF a = Start THEN outcome[a] # NoAnswer ELSE applied[a] # "unread"

\* What a settle write can make of a row.
Settles == [status : {"completed", "failed", "expired", "paused"}, error : Errors]

\* A settle write: "fenced" is settleDirect, "claimed" is failClaimedResume,
\* "put" is the unfenced upsert.  "to" is who still waits for its result.
NoWrite == [state |-> "none", by |-> "none", settle |-> NoAnswer,
            generation |-> 0, to |-> "nobody"]

IssuedWrites ==
  [state : {"pending", "written", "fenced", "failed"},
   by : {"fenced", "claimed", "put"},
   settle : Settles,
   generation : 0..MaxGeneration,
   to : {"nobody", "outcome", "guardExpiry", "unknown", "throw"}]

Writes == IssuedWrites \union {NoWrite}

Issue(by, settle, generation, to) ==
  [state |-> "pending", by |-> by, settle |-> settle, generation |-> generation, to |-> to]

\* The pc values of startDirect() before the row is known to exist.
UnpersistedPCs == {"creating", "createLanded", "conflictLookup"}

\* The pc values of the guard of resume(), each an awaited read.
GuardPCs == {"readPause", "getTool", "getGeneration", "getScope", "getPolicy"}

\* The pc values of runDirect() up to the body write, and after it.
BeforeSendPCs == {"tool", "scope", "policy", "blocked", "gated", "pausing",
                  "source", "handshake"}
AfterSendPCs == {"inflight", "audit"}

PCs == UnpersistedPCs \union GuardPCs \union BeforeSendPCs \union AfterSendPCs
         \union {"idle", "kind", "awaitExpiry", "settling", "done", "dead"}

\* The generation the pause recorded, the one at the claim, the one the call was
\* made on, and whether the grant stood when the drive began.
Sights == [approved : 0..MaxGeneration, claimed : 0..MaxGeneration, used : 0..MaxGeneration,
           scope : BOOLEAN]

TypeOK ==
  /\ row \in Rows
  /\ catalog \in [generation : Generations, tool : BOOLEAN]
  /\ permitted \in BOOLEAN
  /\ daemon \in {"serving", "sweeping", "down"}
  /\ crashes \in 0..MaxCrashes
  /\ pc \in [Attempts -> PCs]
  /\ latch \in [Attempts -> {"none", "free", "continuation", "timer"}]
  /\ write \in [Attempts -> Writes]
  /\ expiry \in [Attempts -> Answers]
  /\ outcome \in [Attempts -> Answers]
  /\ applied \in [Attempts -> {"unread", "yes", "no"}]
  /\ decision \in [Attempts -> {"none", "approve", "deny"}]
  /\ consumed \in [Attempts -> BOOLEAN]
  /\ found \in [Attempts -> BOOLEAN]
  /\ sent \subseteq Attempts
  /\ seen \in [Attempts -> Sights]

Init ==
  /\ row = [status |-> "absent", attempt |-> Nobody, error |-> "none",
            generation |-> 0, pause |-> "none"]
  /\ catalog \in [generation : {1}, tool : BOOLEAN]
  /\ permitted \in BOOLEAN
  /\ daemon = "serving"
  /\ crashes = 0
  /\ pc = [a \in Attempts |-> "idle"]
  /\ latch = [a \in Attempts |-> "none"]
  /\ write = [a \in Attempts |-> NoWrite]
  /\ expiry = [a \in Attempts |-> NoAnswer]
  /\ outcome = [a \in Attempts |-> NoAnswer]
  /\ applied = [a \in Attempts |-> "unread"]
  /\ decision = [a \in Attempts |-> "none"]
  /\ consumed = [a \in Attempts |-> FALSE]
  /\ found = [a \in Attempts |-> FALSE]
  /\ sent = {}
  /\ seen = [a \in Attempts |->
              [approved |-> 0, claimed |-> 0, used |-> 0, scope |-> FALSE]]

-----------------------------------------------------------------------------
(* The latch and the drive *)

\* drive.settled, as the guard reads it.  A drive that does not exist (the
\* stored kind could not be read) is never settled.
StaleSettled(a) == FALSE  \* mutant: a copy of the flag taken at construction
DriveSettled(a) == latch[a] \in {"continuation", "timer"}

\* deadline() > 0 needs a latch nobody has taken.  (A free latch does not
\* promise budget: the clock may also have run out, see CallFails.)
DeadlineOpen(a) == latch[a] = "free"

\* settle() answers true to the first caller only.
EverybodyWins(a) == TRUE  \* mutant: the latch does not latch
WinsLatch(a) == latch[a] = "free"

\* settle() and the bounded fenced write that follows it, for the
\* continuation: the winner writes, the loser stops and says nothing.
Settle(a, settle, generation) ==
  /\ IF WinsLatch(a)
     THEN /\ latch' = [latch EXCEPT ![a] = "continuation"]
          /\ write' = [write EXCEPT ![a] = Issue("fenced", settle, generation, "outcome")]
          /\ pc' = [pc EXCEPT ![a] = "settling"]
     ELSE /\ pc' = [pc EXCEPT ![a] = "done"]
          /\ UNCHANGED <<latch, write>>
  /\ UNCHANGED <<row, world, answers>>

\* classifyDirectFailure: the dispatch cell decides, not the cause.
ClassifyByCause(a, error) == Failed(error)  \* mutant: the cell is not consulted
Classify(a, error) == IF a \in sent THEN Failed("ambiguous") ELSE Failed(error)

\* What the timer publishes.
ClassifyExpiry(a) == Classify(a, "interrupted")

-----------------------------------------------------------------------------
(* Store operations *)

\* The fence of settleDirect.
FenceHolds(a) == row.status = "running" /\ row.attempt = a

Settled(settle, generation) ==
  [row EXCEPT !.status = settle.status,
              !.error = settle.error,
              !.generation = generation,
              !.pause = IF settle.status = "paused" THEN "good" ELSE "none"]

\* A settle write reaches the database: settleDirect under its fence,
\* failClaimedResume on a row still running, put on any row.
WriteLands(a) ==
  /\ daemon = "serving"
  /\ write[a].state = "pending"
  /\ LET w == write[a]
         matches == CASE w.by = "fenced" -> FenceHolds(a)
                      [] w.by = "claimed" -> row.status = "running"
                      [] OTHER -> TRUE
     IN  /\ row' = IF matches THEN Settled(w.settle, w.generation) ELSE row
         /\ write' = [write EXCEPT
              ![a].state = IF w.by = "fenced" /\ ~matches THEN "fenced" ELSE "written"]
  /\ UNCHANGED <<world, pc, latch, answers, call>>

\* The store rejects the write.  A rejected put is followed by a put of the
\* failure (persistOrFinalizeFailed), and that one by failClaimedResume.
WriteRejected(a) ==
  /\ daemon = "serving"
  /\ write[a].state = "pending"
  /\ LET w == write[a]
         listener == IF w.to = "nobody" THEN "nobody" ELSE "throw"
     IN  write' = [write EXCEPT ![a] =
           CASE w.by = "put" /\ w.settle.status = "expired" ->
                  Issue("put", Failed("internal"), 0, listener)
             [] w.by = "put" /\ w.settle.status = "failed" /\ w.to = "throw" ->
                  Issue("claimed", Failed("internal"), 0, "throw")
             [] OTHER -> [w EXCEPT !.state = "failed"]]
  /\ UNCHANGED <<row, world, pc, latch, answers, call>>

\* claimForResume: compare-and-swap paused -> running, for the one pending
\* call the decision names.  A pause nobody can name stays claimable.
Claimable(namesPending) ==
  row.status = "paused" /\ (row.pause = "unnameable" \/ namesPending)

-----------------------------------------------------------------------------
(* The catalog, the grant, and the daemon process around the manager *)

\* provisionSource: one transaction replaces the tools and draws a fresh
\* generation.
ProvisionSource ==
  /\ daemon = "serving"
  /\ catalog.generation < MaxGeneration
  /\ \E tool \in BOOLEAN :
       catalog' = [generation |-> catalog.generation + 1, tool |-> tool]
  /\ UNCHANGED <<row, permitted, daemon, crashes, pc, latch, write, answers, call>>

\* invalidatePaused: a paused row of the namespace fails for re-approval.  Like
\* startDirect() it is the SDK's to offer; the daemon does not call it yet.
InvalidatePaused ==
  /\ daemon = "serving"
  /\ row.status = "paused"
  /\ row.pause # "unnameable"
  /\ row' = Settled(Failed("catalogChanged"), 0)
  /\ UNCHANGED <<world, pc, latch, write, answers, call>>

\* What the scope resolver answers: the grant and the catalog, read together.
Permits == permitted /\ catalog.tool

\* The grant is withdrawn.
RevokeScope ==
  /\ permitted
  /\ permitted' = FALSE
  /\ UNCHANGED <<row, catalog, daemon, crashes, pc, latch, write, answers, call>>

\* The stored pause is damaged on disk.
DamagePause ==
  /\ row.status = "paused"
  /\ row.pause = "good"
  /\ \E pause \in {"unnameable", "disagrees"} : row' = [row EXCEPT !.pause = pause]
  /\ UNCHANGED <<world, pc, latch, write, answers, call>>

\* The process dies: every continuation, timer and unfinished write with it.
Crash ==
  /\ daemon # "down"
  /\ crashes < MaxCrashes
  /\ daemon' = "down"
  /\ crashes' = crashes + 1
  /\ pc' = [a \in Attempts |->
       IF pc[a] = "idle" \/ (pc[a] = "done" /\ Answered(a)) THEN pc[a] ELSE "dead"]
  /\ latch' = [a \in Attempts |-> "none"]
  /\ write' = [a \in Attempts |-> [write[a] EXCEPT
       !.state = IF @ = "pending" THEN "failed" ELSE @, !.to = "nobody"]]
  /\ UNCHANGED <<row, catalog, permitted, answers, call>>

Restart ==
  /\ daemon = "down"
  /\ daemon' = "sweeping"
  /\ UNCHANGED <<row, catalog, permitted, crashes, pc, latch, write, answers, call>>

\* sweepOrphanedExecutions, before the endpoint is bound: a row left running
\* becomes ambiguous.  A store that rejects ends the startup instead.
SweptAsUnknown(r) ==  \* mutant: stores a status only answers have
  IF r.status = "running" THEN [r EXCEPT !.status = "unknown"] ELSE r
Swept(r) ==
  IF r.status = "running"
  THEN [r EXCEPT !.status = "failed", !.error = "ambiguous", !.generation = 0, !.pause = "none"]
  ELSE r

Sweep ==
  /\ daemon = "sweeping"
  /\ \/ daemon' = "serving" /\ row' = Swept(row)
     \/ daemon' = "down" /\ UNCHANGED row
  /\ UNCHANGED <<catalog, permitted, crashes, pc, latch, write, answers, call>>

-----------------------------------------------------------------------------
(* startDirect() *)

\* The drive, and its timer, exist before the first write is issued.  An
\* input that is not JSON is refused without a row.
StartDirect ==
  /\ daemon = "serving"
  /\ pc[Start] = "idle"
  /\ \/ /\ pc' = [pc EXCEPT ![Start] = "creating"]
        /\ latch' = [latch EXCEPT ![Start] = "free"]
        /\ UNCHANGED outcome
     \/ /\ pc' = [pc EXCEPT ![Start] = "done"]
        /\ latch' = [latch EXCEPT ![Start] = "continuation"]
        /\ outcome' = [outcome EXCEPT ![Start] = Failed("internal")]
  /\ UNCHANGED <<row, world, write, expiry, applied, call>>

\* The insert commits; its promise has yet to resolve.
CreateLands ==
  /\ pc[Start] = "creating"
  /\ row.status = "absent"
  /\ row' = [row EXCEPT !.status = "running", !.attempt = Start]
  /\ pc' = [pc EXCEPT ![Start] = "createLanded"]
  /\ UNCHANGED <<world, latch, write, answers, call>>

\* The insert is rejected: a duplicate request key or a faulting store.
CreateRejected ==
  /\ pc[Start] = "creating"
  /\ pc' = [pc EXCEPT ![Start] = "conflictLookup"]
  /\ UNCHANGED <<row, world, latch, write, answers, call>>

\* The conflict lookup answers, or fails; there is no row to settle.
ConflictLookup ==
  /\ pc[Start] = "conflictLookup"
  /\ pc' = [pc EXCEPT ![Start] = "done"]
  /\ IF latch[Start] = "free"
     THEN /\ latch' = [latch EXCEPT ![Start] = "continuation"]
          /\ \E answer \in {Says("conflict"), Failed("internal")} :
               outcome' = [outcome EXCEPT ![Start] = answer]
     ELSE UNCHANGED <<latch, outcome>>
  /\ UNCHANGED <<row, world, write, expiry, applied, call>>

\* The drive begins: makeInvoker throws, or the pipeline asks for the tool.
BeginDrive(a) ==
  \/ Settle(a, Failed("internal"), 0) /\ UNCHANGED call
  \/ /\ pc' = [pc EXCEPT ![a] = "tool"]
     /\ seen' = [seen EXCEPT ![a].scope = permitted]
     /\ UNCHANGED <<row, world, latch, write, answers, decision, consumed, found, sent>>

\* create() resolves.  A drive that already answered is never run: the new
\* row gets the timeout settle instead, and nobody waits for it.
CreateReturns ==
  /\ pc[Start] = "createLanded"
  /\ IF DriveSettled(Start)
     THEN /\ pc' = [pc EXCEPT ![Start] = "done"]
          /\ write' = [write EXCEPT
               ![Start] = Issue("fenced", Failed("interrupted"), 0, "nobody")]
          /\ UNCHANGED <<row, world, latch, answers, call>>
     ELSE BeginDrive(Start)

-----------------------------------------------------------------------------
(* runDirect(): the invoker's pipeline, then one settle *)

\* A call that was not written yet can fail at every step: a store read, a
\* credential, the handshake or the audit row of a refusal is rejected, or
\* the clock (or the latch) closed the deadline.
CallFails(a) ==
  /\ pc[a] \in BeforeSendPCs
  /\ Settle(a, Classify(a, "internal"), 0)
  /\ UNCHANGED call

\* tools.get answers.
ToolAnswers(a) ==
  /\ pc[a] = "tool"
  /\ found' = [found EXCEPT ![a] = catalog.tool]
  /\ pc' = [pc EXCEPT ![a] = "scope"]
  /\ UNCHANGED <<row, world, latch, write, answers, decision, consumed, sent, seen>>

\* The scope resolver answers.  Out of scope reads as an unknown tool, and
\* the staged decision, if any, is taken by the call it names.
InScope(a) == found[a] /\ Permits

ScopeAnswers(a) ==
  /\ pc[a] = "scope"
  /\ found' = [found EXCEPT ![a] = InScope(a)]
  /\ consumed' = [consumed EXCEPT ![a] = a \in Resumers]
  /\ pc' = [pc EXCEPT ![a] = "policy"]
  /\ UNCHANGED <<row, world, latch, write, answers, decision, sent, seen>>

\* The verdicts a call can get: the operator's decision replaces policy.
VerdictsIgnoreDenial(a) ==  \* mutant: a taken decision always allows
  IF a \in Resumers THEN {"allow"} ELSE {"allow", "block", "require_approval"}
Verdicts(a) ==
  IF a \in Resumers
  THEN {IF decision[a] = "approve" THEN "allow" ELSE "block"}
  ELSE {"allow", "block", "require_approval"}

\* Policy answers (for a decided call, the policy row read for redaction).
\* An unknown tool is blocked whatever the verdict.
PolicyAnswers(a) ==
  /\ pc[a] = "policy"
  /\ \E verdict \in Verdicts(a) :
       pc' = [pc EXCEPT ![a] =
               CASE ~found[a] \/ verdict = "block" -> "blocked"
                 [] found[a] /\ verdict = "allow" -> "source"
                 [] OTHER -> "gated"]
  /\ UNCHANGED <<row, world, latch, write, answers, call>>

\* The refusal is audited; a blocked call failed.
BlockAudited(a) ==
  /\ pc[a] = "blocked"
  /\ Settle(a, Classify(a, "policyBlocked"), 0)
  /\ UNCHANGED call

\* The refusal is audited; a gated call reads its generation before pausing.
GateAudited(a) ==
  /\ pc[a] = "gated"
  /\ pc' = [pc EXCEPT ![a] = "pausing"]
  /\ UNCHANGED <<row, world, latch, write, answers, call>>

\* getGeneration answers: the pause is planned, then the latch is taken.
PauseGeneration(a) == catalog.generation

PauseForApproval(a) ==
  /\ pc[a] = "pausing"
  /\ Settle(a, Says("paused"), PauseGeneration(a))
  /\ UNCHANGED call

\* Connection and source are read and the deadline holds: credentials are
\* resolved and the session opened next.
SourceAnswers(a) ==
  /\ pc[a] = "source"
  /\ DeadlineOpen(a)
  /\ pc' = [pc EXCEPT ![a] = "handshake"]
  /\ seen' = [seen EXCEPT ![a].used = catalog.generation]
  /\ UNCHANGED <<row, world, latch, write, answers, decision, consumed, found, sent>>

\* The session is up and the deadline still holds: the dispatch cell is
\* advanced and the body is written.
BeforeSend(a) ==
  /\ pc[a] = "handshake"
  /\ DeadlineOpen(a)
  /\ sent' = sent \union {a}
  /\ pc' = [pc EXCEPT ![a] = "inflight"]
  /\ UNCHANGED <<row, world, latch, write, answers, decision, consumed, found, seen>>

\* The upstream answers; the success is audited before it is delivered.
UpstreamAnswers(a) ==
  /\ pc[a] = "inflight"
  /\ pc' = [pc EXCEPT ![a] = "audit"]
  /\ UNCHANGED <<row, world, latch, write, answers, call>>

\* The result is delivered (stored, or discarded for its size).
CallCompletes(a) ==
  /\ pc[a] = "audit"
  /\ Settle(a, Says("completed"), 0)
  /\ UNCHANGED call

\* The transport, the audit row or the serialization of the result fails
\* once the body was written.
CallLost(a) ==
  /\ pc[a] \in AfterSendPCs
  /\ Settle(a, Classify(a, "internal"), 0)
  /\ UNCHANGED call

-----------------------------------------------------------------------------
(* resume() *)

\* An answer of the guard: no decision was applied.
GuardAnswers(r, answer) ==
  /\ outcome' = [outcome EXCEPT ![r] = answer]
  /\ applied' = [applied EXCEPT ![r] = "no"]
  /\ pc' = [pc EXCEPT ![r] = "done"]

\* The claim: the operator's decision, for the pending call or another one.
Claim(r) ==
  /\ daemon = "serving"
  /\ pc[r] = "idle"
  /\ row.status # "absent"
  /\ \E answer \in {"approve", "deny"} : decision' = [decision EXCEPT ![r] = answer]
  /\ \E namesPending \in BOOLEAN :
       IF Claimable(namesPending)
       THEN /\ row' = [row EXCEPT !.status = "running", !.attempt = r]
            /\ seen' = [seen EXCEPT ![r].claimed = catalog.generation,
                                    ![r].approved = row.generation]
            /\ pc' = [pc EXCEPT ![r] = "kind"]
            /\ UNCHANGED answers
       ELSE /\ GuardAnswers(r, Says("conflict"))
            /\ UNCHANGED <<row, seen, expiry>>
  /\ UNCHANGED <<world, latch, write, consumed, found, sent>>

\* kindOf answers "direct": the drive, and its timer, exist from here on.
\* A rejected lookup leaves the guard without a drive.
KindAnswers(r) ==
  /\ pc[r] = "kind"
  /\ pc' = [pc EXCEPT ![r] = "readPause"]
  /\ latch' \in {latch, [latch EXCEPT ![r] = "free"]}
  /\ UNCHANGED <<row, world, write, answers, call>>

\* kindOf does not answer within its budget.
KindTimesOut(r) ==
  /\ pc[r] = "kind"
  /\ pc' = [pc EXCEPT ![r] = "settling"]
  /\ write' = [write EXCEPT ![r] = Issue("claimed", Failed("internal"), 0, "unknown")]
  /\ UNCHANGED <<row, world, latch, answers, call>>

\* A guard read settles, one way or the other, on a drive its timer already
\* settled: raceGuard (and the handover) defer to the expiry.
GuardReadIsLate(r) ==
  /\ pc[r] \in GuardPCs
  /\ DriveSettled(r)
  /\ pc' = [pc EXCEPT ![r] = "awaitExpiry"]
  /\ UNCHANGED <<row, world, latch, write, answers, call>>

\* guardExpiry resolved: it is what resume() answers.
ExpiryAnswers(r) ==
  /\ pc[r] \in GuardPCs \union {"awaitExpiry"}
  /\ expiry[r] # NoAnswer
  /\ GuardAnswers(r, expiry[r])
  /\ UNCHANGED <<row, world, latch, write, expiry, call>>

\* The guard refuses.  terminalizeDirect takes the latch or defers to the
\* expiry; without a drive the row is failed as a code row is.
Terminalize(r, settle, to) ==
  /\ CASE latch[r] = "none" ->
            /\ pc' = [pc EXCEPT ![r] = "settling"]
            /\ write' = [write EXCEPT ![r] =
                 Issue(IF settle.status = "expired" THEN "put" ELSE "claimed", settle, 0, to)]
            /\ UNCHANGED latch
       [] latch[r] = "free" ->
            /\ pc' = [pc EXCEPT ![r] = "settling"]
            /\ write' = [write EXCEPT ![r] = Issue("fenced", settle, 0, to)]
            /\ latch' = [latch EXCEPT ![r] = "continuation"]
       [] OTHER ->
            /\ pc' = [pc EXCEPT ![r] = "awaitExpiry"]
            /\ UNCHANGED <<latch, write>>
  /\ UNCHANGED <<row, world, answers, call>>

Refuse(r, error) == Terminalize(r, Failed(error), "guardExpiry")

\* One read of the guard: at is where it was awaited, next where it leads
\* unless refusal names an error.
Guard(r, at, refusal, next) ==
  /\ pc[r] = at
  /\ ~DriveSettled(r)
  /\ IF refusal # "none"
     THEN Refuse(r, refusal)
     ELSE /\ pc' = [pc EXCEPT ![r] = next]
          /\ UNCHANGED <<row, world, latch, write, answers, call>>

\* executions.get and claimCallId answer: a pause nobody can name is
\* corrupt.  The TTL check follows (PauseExpired); a call that disagrees
\* with its pause is corrupt too.
PauseAnswers(r) ==
  Guard(r, "readPause", IF row.pause = "unnameable" THEN "internal" ELSE "none", "getTool")

\* The pause outlived its TTL.
PauseExpired(r) ==
  /\ pc[r] = "readPause"
  /\ ~DriveSettled(r)
  /\ row.pause # "unnameable"
  /\ Terminalize(r, Says("expired"), "guardExpiry")

\* tools.get answers.
GuardToolAnswers(r) ==
  Guard(r, "getTool",
        CASE ~catalog.tool -> "catalogChanged"
          [] catalog.tool /\ row.pause = "disagrees" -> "internal"
          [] OTHER -> "none",
        "getGeneration")

\* getGeneration answers: an approval is never spent on another catalog.
GenerationUnchecked(r) == TRUE  \* mutant: the generation is not compared
GenerationMatches(r) == catalog.generation = row.generation

GuardGenerationAnswers(r) ==
  Guard(r, "getGeneration",
        IF GenerationMatches(r) THEN "none" ELSE "catalogChanged", "getScope")

\* The scope resolver answers.  Past it only a row with a drive may proceed.
GuardScopeAnswers(r) ==
  Guard(r, "getScope",
        CASE ~Permits -> "scopeRevoked"
          [] Permits /\ latch[r] = "none" -> "internal"
          [] OTHER -> "none",
        "getPolicy")

\* policies.get answers: the decision is staged, the timer's handler becomes
\* expireDirect, and runDirect takes over.
Handover(r) ==
  /\ pc[r] = "getPolicy"
  /\ ~DriveSettled(r)
  /\ BeginDrive(r)

\* A guard read is rejected: the row is terminalized and resume() throws.
GuardReadRejected(r) ==
  /\ pc[r] \in GuardPCs
  /\ ~DriveSettled(r)
  /\ Terminalize(r, Failed("internal"), "throw")

\* resume() returns the drive's outcome, with whether the decision was taken.
AppliedOnSuccess(r) ==  \* mutant: inferred from the outcome
  outcome[r].status = "completed"
DecisionApplied(r) == consumed[r]

ResumeReturns(r) ==
  /\ daemon = "serving"
  /\ pc[r] # "dead"
  /\ outcome[r] # NoAnswer
  /\ applied[r] = "unread"
  /\ applied' = [applied EXCEPT ![r] = IF DecisionApplied(r) THEN "yes" ELSE "no"]
  /\ UNCHANGED <<row, world, pc, latch, write, expiry, outcome, call>>

-----------------------------------------------------------------------------
(* The timer, and the answers of settle writes *)

\* The drive budget elapses while nobody has settled.
TimerFires(a) ==
  /\ latch[a] = "free"
  /\ latch' = [latch EXCEPT ![a] = "timer"]
  /\ IF pc[a] \in UnpersistedPCs
     THEN /\ outcome' = [outcome EXCEPT ![a] = ClassifyExpiry(a)]
          /\ UNCHANGED write
     ELSE /\ write' = [write EXCEPT ![a] =
               Issue("fenced", ClassifyExpiry(a), 0,
                     IF pc[a] \in GuardPCs THEN "guardExpiry" ELSE "outcome")]
          /\ UNCHANGED outcome
  /\ UNCHANGED <<row, world, pc, expiry, applied, call>>

\* Whoever waits for the write of a hears answer.
Deliver(a, answer) ==
  /\ write' = [write EXCEPT ![a].to = "nobody"]
  /\ CASE write[a].to = "guardExpiry" /\ latch[a] = "timer" ->
            /\ expiry' = [expiry EXCEPT ![a] = answer]
            /\ UNCHANGED <<outcome, applied, pc>>
       [] write[a].to = "outcome" ->
            /\ outcome' = [outcome EXCEPT ![a] = answer]
            /\ pc' = [pc EXCEPT ![a] = IF @ = "settling" THEN "done" ELSE @]
            /\ UNCHANGED <<expiry, applied>>
       [] OTHER ->
            /\ GuardAnswers(a, answer)
            /\ UNCHANGED expiry
  /\ UNCHANGED <<row, world, latch, call>>

\* The intended answer is published only when the write returned true.
WriteAnswer(w) ==
  CASE w.to = "throw" -> Says("threw")
    [] w.to \notin {"throw", "unknown"} /\ w.state = "written" -> w.settle
    [] OTHER -> Says("unknown")

WriteReturns(a) ==
  /\ daemon = "serving"
  /\ write[a].to # "nobody"
  /\ write[a].state \in {"written", "fenced", "failed"}
  /\ Deliver(a, WriteAnswer(write[a]))

\* The settle-write budget elapses first.  The write is not cancelled.
SettleTimesOut(a) ==
  /\ daemon = "serving"
  /\ write[a].to # "nobody"
  /\ Deliver(a, Says(IF write[a].to = "throw" /\ write[a].by # "put"
                     THEN "threw" ELSE "unknown"))

-----------------------------------------------------------------------------
(* The specification *)

StartStep ==
  StartDirect \/ CreateLands \/ CreateRejected \/ ConflictLookup \/ CreateReturns

GuardStep(r) ==
  \/ Claim(r) \/ KindAnswers(r) \/ KindTimesOut(r)
  \/ PauseAnswers(r) \/ PauseExpired(r) \/ GuardToolAnswers(r)
  \/ GuardGenerationAnswers(r) \/ GuardScopeAnswers(r) \/ Handover(r)
  \/ GuardReadIsLate(r) \/ GuardReadRejected(r)
  \/ ExpiryAnswers(r) \/ ResumeReturns(r)

CallStep(a) ==
  \/ ToolAnswers(a) \/ ScopeAnswers(a) \/ PolicyAnswers(a)
  \/ BlockAudited(a) \/ GateAudited(a) \/ PauseForApproval(a)
  \/ SourceAnswers(a) \/ BeforeSend(a) \/ UpstreamAnswers(a)
  \/ CallCompletes(a) \/ CallLost(a) \/ CallFails(a)

SettleStep(a) ==
  TimerFires(a) \/ WriteLands(a) \/ WriteRejected(a) \/ WriteReturns(a) \/ SettleTimesOut(a)

WorldStep ==
  ProvisionSource \/ InvalidatePaused \/ RevokeScope \/ DamagePause
    \/ Crash \/ Restart \/ Sweep

Next ==
  \/ StartStep
  \/ \E r \in Resumers : GuardStep(r)
  \/ \E a \in Attempts : CallStep(a) \/ SettleStep(a)
  \/ WorldStep

Spec == Init /\ [][Next]_vars

\* Timers fire, budgets elapse, and a resolved promise resumes its waiter as
\* long as the process lives.  No store call, resolver or upstream is ever
\* assumed to answer.
Fairness ==
  WF_vars(\/ \E a \in Attempts : TimerFires(a) \/ WriteReturns(a) \/ SettleTimesOut(a)
          \/ \E r \in Resumers : ExpiryAnswers(r) \/ ResumeReturns(r))

FairSpec == Spec /\ Fairness

-----------------------------------------------------------------------------
(* Properties *)

\* What an answer, or a stored row, commits to.
Commits(answer) ==
  CASE answer.status = "completed" -> {"ran"}
    [] answer.status = "expired" -> {"didNotRun"}
    [] answer.status = "failed" /\ answer.error # "ambiguous" -> {"didNotRun"}
    [] OTHER -> {}

Told == Commits(row) \union UNION {Commits(outcome[a]) : a \in Attempts}

\* The upstream sees the call at most once, over all attempts, restarts and
\* decisions of the execution (the claim's compare-and-swap, manager.ts
\* "never a second execution").
SentAtMostOnce == Cardinality(sent) <= 1

\* A resumed call reaches the upstream only when its operator approved it and
\* the staged decision was taken by that very call.
OnlyApprovedCallsSent ==
  \A r \in sent \ {Start} : decision[r] = "approve" /\ consumed[r]

\* A stale approval is refused: any provision that committed before the claim,
\* one that lands between the invalidation sweep and the claim included, keeps the
\* call from the upstream.  What commits once the guard has read the generation
\* is not caught (SpentOnApprovedCatalog).
NothingSpentAcrossCatalogs ==
  \A r \in sent \ {Start} : seen[r].claimed = seen[r].approved

\* A drive that began after the grant was withdrawn never reaches the
\* upstream: the invoker asks for authority per call.
NothingSentOutOfScope == \A a \in sent : seen[a].scope

\* What a resumed call rests on was looked at again: the catalog at its claim is the
\* one its approval saw, and its drive began under a grant that stood.
AuthorityIsRevalidated == NothingSpentAcrossCatalogs /\ NothingSentOutOfScope

\* manager.ts 2289: an approval granted against one catalog state must never be
\* spent against another; that is, against the one the call is then made on.
SpentOnApprovedCatalog ==
  \A r \in sent \ {Start} : seen[r].used = seen[r].approved

\* Whatever was said of the call, by the stored row or by any answer, is true
\* and stays true: "completed" only of a call that was written, "did not run"
\* only of one that was not and never will be.
ClaimsAreTrue ==
  /\ "ran" \in Told => sent # {}
  /\ "didNotRun" \in Told => sent = {}

\* A definite final answer is durable: the row says the same, for good.  The
\* one exception is the timeout of a drive whose row did not exist yet, whose
\* row may be running or failed until it is reconciled or swept.
AnswersMatchRow ==
  \A a \in Attempts :
    (row.attempt = a /\ outcome[a].status \in Terminal) =>
      \/ row.status = outcome[a].status /\ row.error = outcome[a].error
      \/ /\ a = Start
         /\ outcome[a] = Failed("interrupted")
         /\ row.status \in {"running", "failed"}

\* decisionApplied = FALSE can be trusted: the operator who reads it knows
\* that this decision let nothing through, now or later.
NotAppliedNeverSent == \A r \in Resumers : applied[r] = "no" => r \notin sent

\* The latch alone keeps a second writer away: no settle write ever finds the
\* row settled, so "fenced" never turns a true answer into unknown.
FenceNeverLost == \A a \in Attempts : write[a].state # "fenced"

\* The stored row decides: its settle write is of the one attempt that owns it, and
\* whoever is told a final outcome is told what the row says.
RowDecides == FenceNeverLost /\ AnswersMatchRow

\* A terminal row never changes again.
TerminalIsForGood == [][row.status \in Terminal => row' = row]_vars

\* The caller of a drive that exists has neither got an answer nor died.
Owed(a) == latch[a] # "none" /\ ~Answered(a) /\ pc[a] # "dead"

\* Once the drive exists its caller gets an answer, whatever the store, the
\* resolver and the upstream do, unless the process dies.
AnswersResolve == (\E a \in Attempts : Owed(a)) ~> (\A a \in Attempts : ~Owed(a))

\* The gate of the abstract call, read off the row.
Gate ==
  CASE row.status = "paused" -> "waiting"
    [] row.status \in Terminal -> "closed"
    [] row.status = "running" /\ row.attempt \in Resumers ->
         IF decision[row.attempt] = "approve" THEN "granted" ELSE "closed"
    [] OTHER -> "open"

Promise == INSTANCE GatedCall WITH gate <- Gate, sent <- (sent # {}), told <- Told

\* The manager keeps the promise of a governed call.
KeepsPromise == Promise!CallSpec

-----------------------------------------------------------------------------
(* The inductive invariant the proofs use *)

\* The attempt can still act on the row: its latch is free, or it has no
\* drive and is between the claim and its refusal, or create() just landed.
Engaged(a) ==
  \/ latch[a] = "free" /\ pc[a] \notin {"creating", "conflictLookup"}
  \/ latch[a] = "none" /\ pc[a] \in {"kind"} \union GuardPCs
  \/ pc[a] = "createLanded"

\* One writer: whoever can act on the row, and whoever has a write under way,
\* owns the row; and nobody is both.
OneWriter ==
  \A a \in Attempts :
    /\ Engaged(a) => FenceHolds(a) /\ write[a].state = "none"
    /\ write[a].state = "pending" => FenceHolds(a)
    /\ write[a].state # "fenced"

\* The body is only behind the continuation where the code says so, and a
\* taken latch or a settled write closes the way to it.
SentByPC ==
  \A a \in Attempts :
    /\ pc[a] \in BeforeSendPCs \union GuardPCs \union UnpersistedPCs
                   \union {"idle", "kind", "awaitExpiry"} => a \notin sent
    /\ pc[a] \in AfterSendPCs => a \in sent

\* The upstream was reached by the row's present attempt, or by the attempt
\* that settled the row for good.
SentByOwner ==
  /\ \A a, b \in sent : a = b
  /\ sent # {} => \/ row.status \in Terminal
                  \/ row.status = "running" /\ row.attempt \in sent

\* What a write says is true of its attempt, and a write that landed a final
\* state is what the row still says.
WritesAreTrue ==
  \A a \in Attempts : write[a].state # "none" =>
    LET w == write[a] IN
    /\ latch[a] # "free"
    /\ w.by # "fenced" => a \notin sent /\ w.settle.status \in {"failed", "expired"}
    /\ w.settle.status # "completed" /\ w.settle.error # "ambiguous" => a \notin sent
    /\ w.settle.status = "completed" => a \in sent
    /\ w.settle.error = "ambiguous" => w.settle.status = "failed"
    /\ w.state = "written" /\ w.settle.status \in Terminal =>
         row.status = w.settle.status /\ row.error = w.settle.error

\* The answers: final ones agree with the row, but for the refusals and the
\* timeout of a start whose row was never written, or not yet.
StartGaveUp ==
  /\ latch[Start] # "free"
  /\ sent = {}
  /\ row.status \in {"absent", "running", "failed"}
  /\ row.attempt \in {Start, Nobody}
  /\ row.attempt = Start => outcome[Start] = Failed("interrupted")
  /\ write[Start].state # "none" => write[Start].settle.status = "failed"

AnswersAreTrue ==
  \A a \in Attempts : outcome[a].status \in Terminal =>
    \/ row.status = outcome[a].status /\ row.error = outcome[a].error
    \/ a = Start /\ outcome[a].status = "failed" /\ StartGaveUp

ExpiryIsTrue ==
  \A a \in Attempts : expiry[a].status \in Terminal =>
    row.status = expiry[a].status /\ row.error = expiry[a].error

\* The row's claim is true.
RowIsTrue ==
  /\ row.status = "completed" => sent # {}
  /\ row.status = "failed" /\ row.error # "ambiguous" => sent = {}
  /\ row.status \in {"absent", "paused", "expired"} => sent = {}

\* Nothing runs in a process that is down or still sweeping.
Quiet ==
  daemon # "serving" => \A a \in Attempts :
    /\ latch[a] = "none"
    /\ pc[a] \in {"idle", "done", "dead"}
    /\ write[a].state # "pending"
    /\ write[a].to = "nobody"

\* Where a continuation rests bounds what its attempt has done so far.
Phases ==
  /\ \A a \in Attempts :
       /\ pc[a] \in {"idle", "kind"} => latch[a] = "none"
       /\ pc[a] = "idle" => outcome[a] = NoAnswer
       /\ pc[a] \in UnpersistedPCs =>
            /\ a = Start /\ latch[a] # "none"
            /\ outcome[a] \in {NoAnswer, Failed("interrupted")}
       /\ pc[a] \in {"idle", "creating", "conflictLookup"} => write[a].state = "none"
       /\ write[a].state = "none" => write[a].to = "nobody"
  /\ pc[Start] \in {"idle", "creating", "conflictLookup"} => row.status = "absent"
  /\ row.status = "absent" => row.attempt = Nobody

Consistent ==
  /\ OneWriter
  /\ SentByPC
  /\ SentByOwner
  /\ WritesAreTrue
  /\ AnswersAreTrue
  /\ ExpiryIsTrue
  /\ RowIsTrue
  /\ Quiet
  /\ Phases

IInv == TypeOK /\ Consistent

=============================================================================
