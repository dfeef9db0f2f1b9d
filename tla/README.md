# Conduit in TLA+

Conduit lets an agent call tools of other services. A call passes a policy gate; when
policy asks for it, an operator approves or denies the one pending call. A background
daemon owns the database and does all the work; agents and operators reach it over a
local socket. These modules model that program. Paths below are relative to
`src/packages/`.

## The system

| Component | State it keeps | Operations | What makes it correct |
|---|---|---|---|
| Direct executions `sdk/src/execution/{manager,direct,decisions,create-conflict}.ts` | the persisted row; per attempt a drive (latch, timer, dispatch cell), a staged decision, the outcome promise | `startDirect`, `resume`, settle writes, expiry | a call is sent at most once, only under the approval it paused for, and what anybody is told about it is true |
| Code-mode executions `sdk/src/execution/{manager,journal,scrub}.ts`, `sdk/src/sandbox` | row, durable journal, paused-on entry; the shared engine module | `start`, `resume`, replay | a replay repeats no call; an approval is spent once; a lost result is told of |
| Invocation pipeline `sdk/src/pipeline/{invoker,upstream,dispatch}.ts` | none of its own; the dispatch cell of the drive | one call: resolve, scope, policy, audit, send, audit | refusals come before the body; the cell is advanced before the write |
| Store `sdk/src/store/sqlite.ts` | the SQLite database | single-statement compare-and-swaps and transactions | fences decide races |
| Execution queue `mcp/src/daemon/conduitd.ts` | active count, waiting entries, expiry timer | submit, dispatch, pump, expire, abandon, stop | bounded, never stranded, a refusal is true |
| Connections `mcp/src/daemon/{connection,rpc,control,frames}.ts` | socket, capability, in-flight and queued sets | READY, handshake, requests, close | one role per connection, a gone client holds nothing |
| Drain `mcp/src/daemon/conduitd.ts` (`serve`) | draining flag, deadline | stop, grace window, flush, destroy | ends, and cuts nobody before the deadline |
| Daemon start `mcp/src/daemon/{conduitd,locks,sweep}.ts`, `mcp/src/bin.ts` | two lock databases, the socket file | lock, sweep, clear the stale endpoint, bind, release | one owner of the database; orphans are swept before serving |
| Client `mcp/src/daemon/{client,spawn}.ts` | per request: phase, budget | probe, spawn once, connect, exchange | "unavailable" only when nothing was written |
| Source provisioning `mcp/src/daemon/{provision,source-lock}.ts` | per namespace: a promise chain; the in-memory catalog | provision, revalidate, refresh | a secret is never paired with another request's address |
| Upstream sessions `sdk/src/pipeline/{mcp-client,upstream-session}.ts` | per drive: sessions by (url, credentials) | handshake, `callTool`, `listTools`, dispose | one handshake per key, the cell tells the wire's truth, every operation settles |
| Master key `cli/src/commands/key.ts`, `sdk/src/store/key-lifecycle.ts` | key files, sealed rows | generate, rotate | after any crash some key on disk opens every row |
| Everything else | | CLI and stdio server rendering, state directory, log sink, normalizers, redaction | I/O and formatting |

Interaction: the stdio server and the CLI are clients; a client sends framed requests to
the daemon; the daemon's connection layer admits sandbox work through the execution queue
to the execution manager, which runs the pipeline against the store and an upstream.
Source provisioning writes a source, its connection, its credential and its tools in one
batch; triggers of that batch raise the source's generation, and a call that was paused under
the old one is refused when it is resumed (`invalidatePaused()` exists in the store, the
daemon does not call it). The daemon is one event loop: only `await` points interleave. Between
processes only lock files, the socket and the database are shared.

What is hard: a timer, a late store write and the call itself racing to settle one row;
several operators resuming one call; a catalog or grant that changes between a pause and
its resume; a process that dies after the body was written; the drain deadline against
work and clients that never finish; a script that is run again from the top and must meet the
same answers; a provision that fetches for seconds between what it read and what it writes;
servers that never answer. `PROJECT.json` lists each hazard at its line.

## Modules

| Module | What it is |
|---|---|
| `GatedCall` | what Conduit promises about one governed call: sent at most once, under authority, and every claim about it true for good |
| `DirectExecution` | `startDirect()` and `resume()` of the execution manager with the pipeline, the settle writes, the catalog, the grant, crashes and the startup sweep |
| `DirectExecution_proofs` | its theorems about the row, its owner and what is told |
| `DirectPromise_proofs` | its theorems about the operator's decision, and that it implements `GatedCall` |
| `Admission` | one serving daemon: connections, the execution queue and the drain |
| `Admission_proofs` | its theorems |
| `DaemonLifecycle` | who owns the database: daemons that start, serve, drain and die, their clients, `conduit daemon stop` and `conduit key rotate` |
| `DaemonLifecycle_proofs` | its theorems |
| `SourceProvisioning` | provisions and re-syncs of sources: the lock per namespace, the fetch, the batch, the refresh of the served catalog, and tool calls that read beside them |
| `SourceProvisioning_proofs` | its theorems |
| `CodeExecution` | scripts: drive, journal, pause, replay, the staged decision, the engine module, crashes; each call keeps `GatedCall`'s promise |
| `CodeExecution_proofs` | its theorems |
| `CodePromise_proofs` | that its calls implement `GatedCall` |
| `UpstreamSession` | the MCP client: a drive's calls and their shared sessions, an onboarding's `tools/list`, deadlines, teardown |
| `UpstreamSession_proofs` | its theorems |
| `MC...` | one per module: instances and symmetry for model checking |

`GatedCall` is the abstract specification and has two implementations, `DirectExecution`
(the one call of an execution) and `CodeExecution` (every call of a script). The other
modules are views of the same daemon that meet at one abstraction: what `Admission` calls
work is an execution of either kind or a provision; what an execution calls "write the body"
is `UpstreamSession`'s call; what `DaemonLifecycle` calls a row is an execution's.

### DirectExecution

`row` is the executions row; `catalog` and `permitted` the source's generation and the
client's grant. An attempt is one call of `startDirect()` (`Start`) or `resume()`
(`Resumers`). `pc[a]` names the await its continuation rests at, `latch[a]` is the drive's
`settled` flag with who took it, `write[a]` its settle write with who still waits for it,
`outcome`, `expiry`, `applied` are the promises and the `decisionApplied` flag, `sent` the
dispatch cells that read "dispatched". One action is what runs from one await to the next.
A rejected promise, an expired budget and a crash are actions of their own. The world
around the manager (`ProvisionSource`, `InvalidatePaused`, `RevokeScope`, `DamagePause`,
`Crash`, `Restart`, `Sweep`) moves between any two awaits. Payloads, texts of errors and
clocks are abstracted: a budget may run out whenever it is running.

`KeepsPromise` is the refinement: with the gate read off the row, `sent # {}` for sent and
every stored or published claim for told, each step is a step of `GatedCall` or a stutter.

### Admission

`conn` and `role` are the socket and the capability, `state[r]` is where a request is
(unsent, queued, running in a slot, answered outside the queue, or its verdict), `active`
and `ticking` are `ExecutionQueue`'s counter and expiry timer, `due` the queued entries
whose deadline has passed, `phase`, `graceOver`, `visited` and `awaiting` are the local
state of `serve()`'s drain. The queue's array is a set with the order of arrival in
`ticket`. One action is one turn of the event loop, so `submit`, `pump` and the close
handler are atomic, as they are in the code. `started` and `ticket` are history.

### DaemonLifecycle

Four kinds of process share two lock databases, the socket's pathname, the key files and the
execution rows. `writer` and `readers` are the SQLite locks of each lock database: SHARED
readers and one PENDING or EXCLUSIVE writer, which is what a held transaction and the commit
of a holder stamp both look like from outside. `pc[d]` is where a daemon is in
`startDaemon()` and `serve()`, from `acquireExclusive` (climbed through SHARED and PENDING,
with the busy timeout's retries) to `process.exit`; `cpc[c]` where a client is in
`daemonRequest()`'s decision table, `exchange()` and `runStop()`; `rpc[r]` where a rotation is
in `rotateUnderMaintenance()`. `link` is a client's socket, `wire` a request written and not
yet read. One action is one call another process can observe. A process that is killed loses
locks and sockets and leaves the pathname, the rows and the key files as they are.

Each daemon process runs once, so `Daemons` bounds the number of starts; those not in
`ByHand` exist only once a client spawns them. `MaxKills` bounds kills. What the serving
daemon does in detail is `Admission`, what becomes of a row `DirectExecution`: here a request
is begun, is finished or is stranded.

Assumed of the platform: a stamp's commit does not outlast the client's 250 ms window; between
the release of the locks and `process.exit` only microtasks run, so work the drain abandoned
does not resume (`bin.ts:465` gives that as the reason for the hard exit); a lifecycle probe
inside a wait is an instant.

### SourceProvisioning

`rows[n]` is what one batch of `store.provisionSource()` writes for a namespace (source,
connection, secret, tools), `catalog` the daemon's served copy. `tail` is the map of
`SourceLock`, `pred` the promise each request waits for. `pc[r]` names the await of
`provisionSourceRequest()`, `revalidateSourceRequest()`, `fetchAndProvision()` or
`refreshNamespace()` a handler rests at, `plan[r]` its locals. A secret is named by the
request that brought it, a list of tools by the request that fetched it, so that "whose" can
be asked of both. The decision steps 1 to 4 of a provision are one action: they read rows only
the holder of the lock writes, and the prefix index, which is read last. Every store call can
throw (`StoreFails`), every fetch fail or return a list the code refuses, the refresh fail
between its two halves (`Partial`) and be tried again once. Tool calls (`callPC`, `held`) make
the invoker's reads of connection, source and credential, each a step, without the lock.

### CodeExecution

A script is a function from what its calls have returned to what it does next: the seeded
sandbox makes it one. `drive[e].journal` is `execute()`'s copy of the journal and `disk[e]` the
durable one; a run of the sandbox (`RunOnce`) is synchronous and therefore one step, which
answers from the journal as far as it goes and ends in a request, an end or a divergence. From
there a request goes through the journaling host, the staged decision or policy, the write and
the barrier, each await an action with its failure; then the script runs again.
`engine` is the module all executions share, with its single-flight build. `resume()` is a
claim, its read-side guard as one step with each of its outcomes (`DirectExecution` has it read
by read), and a drive over the stored prefix. A drive that threw leaves the resume in the catch
around it (`caught`), which writes the row once more if it still runs (`PreparationFails`).
`answer` is what `decisionApplied` tells the
operator. `sent`, `approved` and `given` are history.

`CallsKeepPromise` is the refinement: for every execution and every position in its script,
with the gate read off row, drive and decision, and told read off the journal, each step is a
step of `GatedCall` or a stutter.

### UpstreamSession

An operation is a governed call of a drive or an onboarding fetch. `hand` is the handshake it
made, `entries` the session scope's map from cache key to promise, `on[c]` the handshake a call
joined, `cell` the dispatch cell and `wire` what was in fact written. `late` says that an
operation's absolute deadline has passed; each await then has its timeout action. A server may
answer, refuse, forget a session, ping in the middle of a stream or say nothing; the reasons a
failure can have (status, protocol, size) are one failure. The key is computed as the code
computes it (`canonicalAuth`), and `SessionIsItsOwn` compares headers without it.

What the model shows and no property forbids: a call that meets a 404 on a dead session leaves
that session cached for the rest of the drive; a handshake that fails after the server gave an
id, and a fetch that fails after its handshake, leave a session on the server; a call that
joined a session may write after `dispose()` has sent its DELETE.

## Runs

| Run | Instance | What it shows |
|---|---|---|
| `direct_execution` | one start, two resumes, two generations, one crash | a call is sent only under the approval it paused for and on authority that was looked at again (`AuthorityIsRevalidated`: the claim's catalog is the approval's, the drive began under a grant that stood), claims about it are true, the row decides (`RowDecides`), every drive answers or dies, and the refinement of `GatedCall` |
| `approval_spent` | one start, one resume, two generations | the fourth finding |
| `queue_and_drain` | two connections, four executions, one slot, two places | `QueueIsSound` (limits, no idle slot, watched waits, order), `StartsAreRightful` (refusals are true, nothing out of role), `DrainIsPatient` (no READY client or execution is cut before the deadline) |
| `drain_liveness` | two connections, an execution, a provision, a stop | a stop ends in an exit; it does not ride the drain deadline because of its own connection |
| `drain_in_flight` | one connection, one provision | the first finding |
| `lifecycle` | two daemons, one by hand, a client, a rotation, one kill | `DatabaseIsOwned` (one owner, its pathname leads to it), `KeysAreSafe` (no stale key, a file that opens the database), `RowsLiveOnce` (begun once, the living spared), orphans are settled, a definite refusal is final |
| `lifecycle_stop` | two daemons, a client, a stop | what `daemon stop` prints of a daemon that is gone is true, a stop ends in an exit wherever it meets the daemon, and once no work hangs a client that finds no daemon is answered, unless the spawn failed or the daemon in possession is giving way |
| `provisioning` | an onboarding, one of four rewrites, a re-sync or a rival for the prefix, a tool call, a crash | one handler per namespace at a time, credentials go only to urls they were supplied for, answers are true, the catalog follows the store, the chain strands nobody |
| `call_pairing` | the same | the second finding |
| `code_execution` | one script with a gate after an error it branches on or the same gate twice, one that overflows the stack, two operators, a crash | no call twice, one approval one call, nothing stranded, a lost call told of by the row or, at the last, by the log, decisions not applied stay so, an overflow has one victim, and the refinement of `GatedCall` per call |
| `replay` | one script, one operator | the third finding |
| `upstream_session` | two operations, three bindings of which two are one credential | cell and wire agree, sessions are one's own and torn down, everything settles |

Bounds. Two resumers are enough to race one claim and to have a loser; a second generation
is enough for any catalog change between two reads; a constraint calls whoever resumes first `r1`
(the two are interchangeable, and unlike a symmetry set this is sound of liveness); a second crash adds only a second sweep
of the same row. One slot and two places make four executions reach every outcome of
`submit`, a pump with a choice of whom to take, and expiry, abandonment and completion of a
neighbour. Two daemons make a winner, a loser and a successor; a client that spawns and a daemon started by hand the race for the lock;
the kill strands a pathname, a row and a lock at once. Three source requests make a holder, a
waiter and one that arrives when the holder has gone, at one namespace, or a rival from
another; the rewrites are those that differ in what happens to the credential. Scripts of two
calls have a prefix to replay and a call after it; two executions are what it takes to share an
engine; the two operators race one claim or answer two pauses. Two operations are a call that
makes a session and one that joins it, or a call beside a fetch. Deadlock is not checked: an
execution ends, a daemon stops, a command is over, a request is answered.

Fairness. `DirectExecution` assumes only that timers fire, bounded waits end and a resolved
promise resumes its waiter: no store call, resolver or upstream has to answer. `Admission`
assumes of itself that the event loop turns; `DrainEnds` adds that timers fire, while no work
ends and no peer leaves, and `StopIsPrompt` the opposite, that work ends and ended peers leave,
while every timer may stand still, so that nothing can lean on the deadline. `lifecycle_stop`
assumes that processes are scheduled; executions may hang, and the client, but not the command,
is patient. `AskersConverge` is of the same run; that executions end is its premise
(`WorkIsDone`), not an assumption, and what a client can do nothing about is in its conclusion: a
spawn that failed, and a daemon that has the lifecycle lock while it stops or could not start.
`SourceProvisioning` assumes that a handler
goes on: store calls on the local database return or throw, and a fetch ends by its own
deadline (which `UpstreamSession` shows). `UpstreamSession` assumes timers and continuations,
and nothing of the servers.

## Proofs

For every number of resumers, generations and crashes, `DirectExecution_proofs` shows
`IInv` inductive and derives type correctness, `SentAtMostOnce`, `ClaimsAreTrue`,
`AnswersMatchRow`, `FenceNeverLost` (the two are the run's `RowDecides`) and
`TerminalIsForGood`. None of these is inductive.
The core of the strengthening is `OneWriter`: whoever can still act on the row, and whoever
has a settle write under way, owns the row under its fence, and nobody is both. Beside it,
`SentByPC` and `SentByOwner` tie the body write to where continuations rest, `WritesAreTrue`
says that a write in flight already tells the truth, and `AnswersAreTrue` and `RowIsTrue`
carry that to answers and row. The one exception is a start whose timer fired before its
row existed (`StartGaveUp`).

For every number of connections and requests and any two limits, `Admission_proofs` shows
all of `Admission`'s safety properties, in layers. First types together with the limits
(the counter equals the number of running requests, which is what keeps it natural); every
step is classified by what it does to the two sets (`Moves`), and cardinalities follow from
the finite-set library. Then what was begun (`Begun`), for whom (`Sent`, `Authorised`, which
also covers the waiting), in which order, the departed, the drain (`LeftEarly`) and the
timer. `IInv` is their conjunction.

For any sets of daemons, clients, stops and rotations, finite or not, and any number of
kills, `DaemonLifecycle_proofs` shows every safety property of `DaemonLifecycle`. Its `IInv`
starts from `LocksHeld`: where a process stands in its code and what it holds of the two lock
databases are one and the same, so a daemon past `taking` is the only one (`OneHolder`) and a
rotation past `pending` meets no open store (`RotationExcludes`). `KeysStaged` says which key
is in which file at each step of a rotation and makes `KeyIsOnDisk` inductive; with
`RotationExcludes` so is `KeyIsCurrent`. `RowsOwned` and `Connected` say that whoever owns a
running row, or is at the other end of a connection, has bound and never goes back over it
(`BindIsPast`): such a daemon that lacks the lifecycle lock has left for good, which is what
`SweepSparesTheLiving` and `StopReportIsTrue` need. `Unwritten` says that before a client's
first byte there is no row and nothing on the wire, and gives `UnavailableNeverRan` and
`RunsOnce`. TLC found the conjuncts of `IInv` to hold on the instances of the runs.

For any number of source requests, calls, namespaces, urls, prefixes and crashes, and whatever
is asked, `SourceProvisioning_proofs` shows every safety property of `SourceProvisioning` that
holds. The code has no queue, only promises that each wait for one other; `Chain` says in what
sense they are one: requests arrive in the order of their numbers, the tail is the last active
one of its namespace, everybody's predecessor comes after all the active ones before it, and
whoever has entered has nobody active before it. That gives `OneHolder`. `Pairs` then uses the
lock: between its decision and its batch, a handler's plan is still true of the rows it was
made from (`Planned`), because nobody else may write them, and so the url it fetches from, the
credential it reveals and the pair it writes belong together. `Deeds` says which steps come
after the batch and gives `AnswersAreTrue`; `Served` names, for each namespace whose catalog
differs from its store, the request whose batch is stored: it is yet to refresh, or logged that it
gave up, or threw at its read-back, which only its own client hears of; that gives
`CatalogFollowsStore`. `Reading` is
what a tool call may rely on: a source, once stored, stays stored.

`DirectPromise_proofs` adds `Decided` to that invariant and takes the operator's decision
through a resumed drive. `Taken` says at which awaits the decision has been taken and what it
was. `Dated` orders the generations an attempt has seen: they only grow, so one that still
matches at the read-side guard was also the claim's, which gives `AuthorityIsRevalidated`; of the
time between that read and the body it says nothing (the fourth finding). `Scoped` does the same for a grant that can only be withdrawn. `Unspent`
keeps whoever was told "not applied" away from the body and gives `NotAppliedNeverSent`;
`SaidOnce` says which promises can still be answered. `PromiseKept` is then the refinement:
one lemma per action names the step of `GatedCall` it is, `Send` for the body, `AskOperator` and
`OperatorAnswers` for pause and claim, `Conclude` for every settle write and every answer.

For any set of executions, scripts that branch in any way within a bound on their length, any
operators and any number of crashes, `CodeExecution_proofs` shows all of `CodeExecution`'s
safety properties. The invariant is a conjunction over executions (`Kept(e)`), and a frame
lemma (`ApartKept`) says that a step that leaves an execution's row, journal, drive and
resume() alone leaves it kept; so each action is looked at for one execution only. `Owned` says
who may act on a running row: one drive, or one resume(), whose drive serves that resume(), or
nobody. `Recorded` is what the durable journal is worth: an entry says "value" exactly of a
call that was written, calls are written once each, and at most one of them, at the next
position, is not journaled. `Driving` places that one call among the awaits of the drive;
`Undriven` says what the row says of it once no drive is left, and `Parted` that a resume() in its
catch, or with a write that may still land, has no rival and finds a row that runs only after a lost
settle. `Claiming` ties a claim to the
pause it was made for, so that an approval cannot reach a later call. `Spent` counts: of each
gated request no more calls were written than approvals given, and one fewer while an approval
is claimed, staged or taken and not yet used; this is what makes `OneApprovalOneCall` inductive
for scripts that make the same request many times. `Honest` says that the call of an operator who
was told "not applied", or who denied, can no longer be written (`Never`). TLC found `IInv` to
hold on both instances before it was proved.

`CodePromise_proofs` shows the refinement for every position of every script: an action is
quiet for a call (`Quiet`: nothing of it changes but that its gate may close), or is the
drive's next call's own `Send`, `AskOperator`, `OperatorAnswers` or `Conclude`. A position that
was journaled is closed, a call behind the next one is not reached yet, and the journal's next
entry is the only place where something new is told.

For any operations and bindings and whatever the servers do, `UpstreamSession_proofs` shows
`CellIsTrue` and `SessionsAreAccountedFor`. `Deeds` ties the cell and the wire to the await an
operation rests at. `Shared` says that the map of sessions and the handshakes agree: its entry
for a key is the one standing handshake made under that key, until the scope is disposed of.
`Teardown` says what is left to tear down at each point of `dispose()`. The text that
`canonicalAuth()` makes of the headers, sorted and with their lengths, is taken to be as good as
the set of them.

The runs check conjunctions where several named parts make one promise; a theorem for each
conjunction combines the theorems of its parts. `SentAtMostOnce`, `ClaimsAreTrue` and
`TerminalIsForGood` are proved and in no run: the refinement says what they say.

Assumptions are the named ones of the modules: disjoint kinds of requests and of processes,
finitely many requests, a positive cap, an attempt id of its own for the start, scripts that end
within `MaxCalls`, `Nobody` and `Nothing` distinct from every value they stand beside.

Every invariant, action property and refinement that a passing run checks is stated by a
theorem. Model-checked only is liveness, which needs ENABLED and is beyond the prover:
`AnswersResolve`, `DrainEnds`, `StopIsPrompt`, `StopEnds`, `AskersConverge`,
`RequestsAreAnswered`, `CallsSettle`. The four properties of `Findings` are refuted, not proved.
Where a proof needs an induction over numbers, it takes the least member of a set (`LeastOf`
in `CodeExecution_proofs`, from the well-foundedness of <), since a theorem with an operator
for a parameter cannot be used.

## Findings

`connection.ts:93` says of the in-flight set that the drain waits on all of it. The grace
loop (`conduitd.ts:797`) looks at the queue and at open READY connections, and the flush
loop at connections still registered. A `source.provision` runs outside the queue, so one
whose client has left is in neither: the daemon stops at once and the provision is cut, well
before the deadline. Its commit is a single transaction, so nothing is left half done.

`source-lock.ts:18` states that a stored credential is only ever sent to the destination it is
bound to. The lock serializes onboarding requests, and for these it is proved
(`PairsHold`). A tool call takes no lock: `invokeOne()` reads the connection, the source and the
secret in three awaits (`invoker.ts:291`, `298`, `326`), and a provision with a new url and a
new secret that commits after the second makes the call send the new secret to the old url
(`call_pairing`).

`conduitspec.md:192` says that a journaled call returns its memoized result. For a failed call
it does not: the live script hears the error in full (`quickjs.ts:433`, `499`), the journal keeps
what `formatCause()` leaves of it (`manager.ts:545`, `2710`), and the replay answers from the
journal. A script that looks at the message of a long or many-lined error takes another branch
when it is resumed, and fails for nondeterminism although it is deterministic (`replay`).

`manager.ts:2289` says that an approval granted against one catalog state must never be spent
against another. `resume()` reads the generation once, in its read-side guard (`manager.ts:2381`),
and compares it with the pause's. A provision that commits after that read and before the call's
own reads of connection and source, several awaits on, is not noticed: the approved call goes out
on the new catalog (`approval_spent`; the model notes the generation at the second of these reads). Up to the claim the statement is proved (`AuthorityHolds`).

Two observations from reading and modelling `DaemonLifecycle`, which no run isolates. Exit code
4 is documented (`packages/mcp/README.md:188`) as a rotation holding the maintenance lock, but
the daemon's `acquireShared` (`locks.ts:408`) tries once and is refused by any commit on that
lock database, such as the one by which a refused rotation takes its stamp back. And `runStop`
(`cli/src/commands/daemon.ts:327`) reads the lifecycle lock, which does not say whose it is: if
a successor took it between two polls, the stopped daemon is reported as still draining.

## Not modelled, and the plan

Next: what liveness rests on, as invariants that can be proved, such as that an operation that
is not settled always has a deadline armed (`UpstreamSession`) or a way on (`Admission`'s drain),
so that TLC is left with the fairness alone; and the consequences of `GatedCall` stated for it
once and carried over by the two refinements. Then, as far as the model is to grow, `KeyRotation`:
key generation, backups, and the order of writes and fsyncs under a crash of the host
(`DaemonLifecycle` has rotation as a rival for the lock); and policy matching, scope and framing
as pure operators.

Not modelled: CLI and stdio rendering, path resolution, the log sink, address classification,
redaction, normalizers, and the parsing of SSE streams and JSON-RPC (`mcp-wire.ts`), which are
data transformations or file I/O that no property here tells apart; the store's profiles, audit
rows and migrations; and the interpreter inside the sandbox, which is third-party code. Of the
sandbox, memory and time limits end a script as its own throw would.
