------------------------- MODULE SourceProvisioning -------------------------
(***************************************************************************)
(* Onboarding and re-syncing of sources by the daemon: source.provision    *)
(* and source.revalidate requests, the chain of promises that serializes   *)
(* them per namespace, the fetch that carries a credential, the one batch  *)
(* that writes everything, the refresh of the shared in-memory catalog,    *)
(* and, beside them, tool calls that read the same rows without the lock.  *)
(*                                                                         *)
(* A request is one frame of one client; every await of its handler is a   *)
(* place where pc rests.  Requests are numbered as they arrive; a secret is  *)
(* named by the request that brought it, a list of tools by the request     *)
(* whose fetch returned it.                                                 *)
(*                                                                         *)
(* Abstracted: the source, integration and connection rows, the secret and *)
(* the tools of one namespace are one record, since one batch writes them  *)
(* all; texts of refusals; contents of tools, except what decides whether  *)
(* a list is accepted.  Generations are in DirectExecution.                *)
(***************************************************************************)
EXTENDS Naturals

CONSTANTS
  MaxRequests,  \* bound: how many source requests clients send
  Calls,        \* tool calls that run beside them
  Namespaces,
  Urls,
  Prefixes,
  Asks,         \* what each request may ask for: subsets of AllAsks
  Nothing,      \* no request, no secret, no tools
  Partial,      \* what a refresh that failed half way serves
  MaxCrashes    \* bound: how often the daemon process dies

Requests == 1..MaxRequests

\* "malformed" stands for a url that does not parse, is not http(s), or
\* carries a password.
AllAsks ==
  [kind : {"provision"}, ns : Namespaces, url : Urls \union {"malformed"},
   prefix : Prefixes, secret : BOOLEAN, replace : BOOLEAN, clear : BOOLEAN]
    \union [kind : {"revalidate"}, ns : Namespaces]

ASSUME AsksAssumption == \A r \in Requests : Asks[r] \subseteq AllAsks

ASSUME NothingAssumption ==
  /\ Nothing \notin Requests \union Urls \union Prefixes \union Namespaces \union AllAsks
  /\ Partial \notin Requests \union {Nothing}

ASSUME CallsAssumption == Calls \cap Requests = {}

ASSUME BoundsAssumption == MaxRequests \in Nat /\ MaxCrashes \in Nat

VARIABLES
  rows,      \* per namespace: the stored source, durable
  catalog,   \* per namespace: the tools the daemon's shared catalog serves
  tail,      \* per namespace: SourceLock's map entry, the last run of its chain
  pred,      \* per request: the run it waits for
  ask,       \* per request: what it asks for
  pc,        \* per request: where its handler rests
  plan,      \* per request: what the handler holds in its local variables
  answer,    \* per request: what its client was told
  callPC,    \* per call: where the invoker rests
  held,      \* per call: what the invoker has read
  sent,      \* the requests that went out: to which url, with which secret
  up,        \* the daemon is serving
  crashes,   \* how often it died
  committed, \* history: the requests whose batch was committed
  reported   \* history: the requests whose refresh was given up, in the log

chain == <<tail, pred>>
request == <<ask, pc, plan, answer>>
call == <<callPC, held>>
world == <<up, crashes>>
history == <<committed, reported>>
vars == <<rows, catalog, chain, request, call, sent, world, history>>

-----------------------------------------------------------------------------
(* Values *)

Absent == [location |-> Nothing, prefix |-> Nothing, ref |-> FALSE,
           secret |-> Nothing, tools |-> Nothing]

Stored == [location : Urls, prefix : Prefixes, ref : BOOLEAN,
           secret : Requests \union {Nothing}, tools : Requests]

\* What a run of fetchAndProvision() carries: where it fetches, the prefix it
\* writes, the credential it reveals, whether a credential was on file when it
\* looked, the tools it has read back, and how often that read failed.
NoPlan == [url |-> Nothing, prefix |-> Nothing, auth |-> Nothing, onFile |-> FALSE,
           tools |-> Nothing, tries |-> 0]

Plans == [url : Urls \union {Nothing}, prefix : Prefixes \union {Nothing},
          auth : Requests \union {Nothing}, onFile : BOOLEAN,
          tools : Requests \union {Nothing}, tries : 0..1]

\* The steps of a handler that runs, in order.
Running == {"deciding", "revealing", "fetching", "fetched", "committing",
            "readback", "refreshing", "publishing", "releasing"}

Steps == {"unsent", "queued", "done", "dead"} \union Running

\* "refused" says that nothing was written, "fault" only that the daemon failed.
Answers == {"none", "seeded", "refused", "fault", "unknown"}

CallSteps == {"idle", "source", "credentials", "sending", "done"}

TypeOK ==
  /\ rows \in [Namespaces -> Stored \union {Absent}]
  /\ catalog \in [Namespaces -> Requests \union {Nothing, Partial}]
  /\ tail \in [Namespaces -> Requests \union {Nothing}]
  /\ pred \in [Requests -> Requests \union {Nothing}]
  /\ ask \in [Requests -> AllAsks \union {Nothing}]
  /\ pc \in [Requests -> Steps]
  /\ plan \in [Requests -> Plans]
  /\ answer \in [Requests -> Answers]
  /\ callPC \in [Calls -> CallSteps]
  /\ held \in [Calls -> [ns : Namespaces \union {Nothing}, ref : BOOLEAN,
                         url : Urls \union {Nothing}, secret : Requests \union {Nothing}]]
  /\ sent \subseteq [by : Requests \union Calls, to : Urls, secret : Requests \union {Nothing}]
  /\ up \in BOOLEAN
  /\ crashes \in 0..MaxCrashes
  /\ committed \subseteq Requests
  /\ reported \subseteq Requests

NotReading == [ns |-> Nothing, ref |-> FALSE, url |-> Nothing, secret |-> Nothing]

Init ==
  /\ rows = [n \in Namespaces |-> Absent]
  /\ catalog = [n \in Namespaces |-> Nothing]
  /\ tail = [n \in Namespaces |-> Nothing]
  /\ pred = [r \in Requests |-> Nothing]
  /\ ask = [r \in Requests |-> Nothing]
  /\ pc = [r \in Requests |-> "unsent"]
  /\ plan = [r \in Requests |-> NoPlan]
  /\ answer = [r \in Requests |-> "none"]
  /\ callPC = [c \in Calls |-> "idle"]
  /\ held = [c \in Calls |-> NotReading]
  /\ sent = {}
  /\ up = TRUE
  /\ crashes = 0
  /\ committed = {}
  /\ reported = {}

-----------------------------------------------------------------------------
(* Helpers *)

Ns(r) == ask[r].ns

\* The stored source of the namespace a request names.
Row(r) == rows[Ns(r)]

HasFreshSecret(r) == ask[r].kind = "provision" /\ ask[r].secret

ClearsCredential(r) == ask[r].kind = "provision" /\ ask[r].clear

\* The handler of r has not returned: it waits in its namespace's chain or runs.
Active(r) == pc[r] \in Running \union {"queued"}

Goes(r, step) == pc' = [pc EXCEPT ![r] = step]

\* The handler of r is over, with this answer; finally releases the lock.
Answer(r, a) ==
  /\ answer' = [answer EXCEPT ![r] = a]
  /\ Goes(r, "releasing")

-----------------------------------------------------------------------------
(* SourceLock *)

\* A source frame arrives.  run() makes it the tail of its namespace's chain
\* before anything is awaited.
Arrive(r, a) ==
  /\ up
  /\ pc[r] = "unsent"
  /\ \A q \in Requests : q < r => pc[q] # "unsent"
  /\ ask' = [ask EXCEPT ![r] = a]
  /\ pred' = [pred EXCEPT ![r] = tail[a.ns]]
  /\ tail' = [tail EXCEPT ![a.ns] = r]
  /\ Goes(r, "queued")
  /\ UNCHANGED <<rows, catalog, plan, answer, call, sent, world, history>>

\* The predecessor has released, or there was none: fn() is called.
Enter(r) ==
  /\ pc[r] = "queued"
  /\ pred[r] # Nothing => pc[pred[r]] = "done"
  /\ Goes(r, "deciding")
  /\ UNCHANGED <<rows, catalog, chain, ask, plan, answer, call, sent, world, history>>

\* Mutant: the entry goes even if a later run has replaced it.
MRelease(r) ==
  /\ pc[r] = "releasing"
  /\ Goes(r, "done")
  /\ tail' = [tail EXCEPT ![Ns(r)] = Nothing]
  /\ plan' = [plan EXCEPT ![r] = NoPlan]
  /\ UNCHANGED <<rows, catalog, pred, ask, answer, call, sent, world, history>>

\* Mutant: no finally.
MReleaseOnSuccess(r) ==
  /\ pc[r] = "releasing"
  /\ answer[r] = "seeded"
  /\ Goes(r, "done")
  /\ tail' = IF tail[Ns(r)] = r THEN [tail EXCEPT ![Ns(r)] = Nothing] ELSE tail
  /\ plan' = [plan EXCEPT ![r] = NoPlan]
  /\ UNCHANGED <<rows, catalog, pred, ask, answer, call, sent, world, history>>

\* The finally of run(), whether fn() resolved or rejected: the promise the next
\* run waits for resolves, and the entry goes only if no later run replaced it.
Release(r) ==
  /\ pc[r] = "releasing"
  /\ Goes(r, "done")
  /\ tail' = IF tail[Ns(r)] = r THEN [tail EXCEPT ![Ns(r)] = Nothing] ELSE tail
  /\ plan' = [plan EXCEPT ![r] = NoPlan]
  /\ UNCHANGED <<rows, catalog, pred, ask, answer, call, sent, world, history>>

-----------------------------------------------------------------------------
(* provisionSourceRequest() and revalidateSourceRequest(): what is decided     *)
(* before anything goes out.  Each is several reads of rows that only the      *)
(* holder of the lock writes, and one of the prefix index, the last.           *)

\* Step 1 of a provision.
Valid(a) == a.url # "malformed"

\* Step 2: the prefix belongs to a source of another namespace.
PrefixTaken(a) ==
  \E n \in Namespaces \ {a.ns} : rows[n] # Absent /\ rows[n].prefix = a.prefix

UrlUnchanged(a) == rows[a.ns] # Absent /\ rows[a.ns].location = a.url

\* Mutant: a credential follows its namespace.
MWouldCarryCredential(a) == FALSE

\* Step 3: a stored credential would follow the namespace to a new url.
WouldCarryCredential(a) ==
  a.replace /\ ~UrlUnchanged(a) /\ rows[a.ns].ref /\ ~a.secret /\ ~a.clear

\* Step 4.
IsRetarget(a) ==
  rows[a.ns] # Absent /\ (rows[a.ns].location # a.url \/ rows[a.ns].prefix # a.prefix)

Refuses(a) ==
  \/ ~Valid(a)
  \/ PrefixTaken(a)
  \/ WouldCarryCredential(a)
  \/ IsRetarget(a) /\ ~a.replace

\* The handler knows where it fetches; a fresh secret is its credential at once.
Proceeds(r, url, prefix, reveal) ==
  /\ plan' = [plan EXCEPT ![r] =
       [url |-> url, prefix |-> prefix, auth |-> IF HasFreshSecret(r) THEN r ELSE Nothing,
        onFile |-> Row(r).ref, tools |-> Nothing, tries |-> 0]]
  /\ Goes(r, IF reveal THEN "revealing" ELSE "fetching")
  /\ UNCHANGED answer

Provision(r) ==
  /\ pc[r] = "deciding"
  /\ ask[r].kind = "provision"
  /\ IF Refuses(ask[r])
     THEN Answer(r, "refused") /\ UNCHANGED plan
     ELSE Proceeds(r, ask[r].url, ask[r].prefix,
                 ~ask[r].secret /\ UrlUnchanged(ask[r]) /\ Row(r).ref)
  /\ UNCHANGED <<rows, catalog, chain, ask, call, sent, world, history>>

\* Everything but the namespace comes from the stored row.
Revalidate(r) ==
  /\ pc[r] = "deciding"
  /\ ask[r].kind = "revalidate"
  /\ IF Row(r) = Absent
     THEN Answer(r, "refused") /\ UNCHANGED plan
     ELSE Proceeds(r, Row(r).location, Row(r).prefix, Row(r).ref)
  /\ UNCHANGED <<rows, catalog, chain, ask, call, sent, world, history>>

\* Step 5: secrets.reveal() of the stored credential.
Reveal(r) ==
  /\ pc[r] = "revealing"
  /\ plan' = [plan EXCEPT ![r].auth = Row(r).secret]
  /\ Goes(r, "fetching")
  /\ UNCHANGED <<rows, catalog, chain, ask, answer, call, sent, world, history>>

-----------------------------------------------------------------------------
(* fetchAndProvision() *)

\* fetchToolsList() puts the request on the wire.
Fetch(r) ==
  /\ pc[r] = "fetching"
  /\ sent' = sent \union {[by |-> r, to |-> plan[r].url, secret |-> plan[r].auth]}
  /\ Goes(r, "fetched")
  /\ UNCHANGED <<rows, catalog, chain, ask, plan, answer, call, world, history>>

\* What an upstream may answer within the onboarding deadline: a list, a list with
\* a tool whose text is too long, one that repeats the credential, one that does
\* not normalize (no envelope, or two tools with one name), or no list.
Replies == {"tools", "oversize", "reflecting", "abnormal", "failure"}

Oversize(reply) == reply = "oversize"

\* Only a credential that was sent can be looked for.
Reflects(r, reply) == plan[r].auth # Nothing /\ reply = "reflecting"

Normalizes(reply) == reply # "abnormal"

FetchAnswered(r, reply) ==
  /\ pc[r] = "fetched"
  /\ IF reply = "failure" \/ Oversize(reply) \/ Reflects(r, reply) \/ ~Normalizes(reply)
     THEN Answer(r, "refused")
     ELSE Goes(r, "committing") /\ UNCHANGED answer
  /\ UNCHANGED <<rows, catalog, chain, ask, plan, call, sent, world, history>>

\* The connection's credential ref and the secrets row the batch leaves: dropped
\* on request, replaced by a fresh one, else as they were.
Resolved(r) ==
  IF ClearsCredential(r)
  THEN [ref |-> FALSE, secret |-> IF plan[r].onFile THEN Nothing ELSE Row(r).secret]
  ELSE IF HasFreshSecret(r)
       THEN [ref |-> TRUE, secret |-> r]
       ELSE [ref |-> plan[r].onFile, secret |-> Row(r).secret]

\* The UNIQUE index on connections.prefix, the guard step 2 only anticipates.
PrefixConflicts(r) ==
  \E n \in Namespaces \ {Ns(r)} : rows[n] # Absent /\ rows[n].prefix = plan[r].prefix

\* store.provisionSource(): all rows in one batch, or none.
Commit(r) ==
  /\ pc[r] = "committing"
  /\ ~PrefixConflicts(r)
  /\ rows' = [rows EXCEPT ![Ns(r)] =
       [location |-> plan[r].url, prefix |-> plan[r].prefix,
        ref |-> Resolved(r).ref, secret |-> Resolved(r).secret, tools |-> r]]
  /\ committed' = committed \union {r}
  /\ Goes(r, "readback")
  /\ UNCHANGED <<catalog, chain, ask, plan, answer, call, sent, world, reported>>

CommitConflicts(r) ==
  /\ pc[r] = "committing"
  /\ PrefixConflicts(r)
  /\ Answer(r, "fault")
  /\ UNCHANGED <<rows, catalog, chain, ask, plan, call, sent, world, history>>

\* The generation the triggers allocated is read back after the commit.
ReadBack(r) ==
  /\ pc[r] = "readback"
  /\ Goes(r, "refreshing")
  /\ UNCHANGED <<rows, catalog, chain, ask, plan, answer, call, sent, world, history>>

\* Mutant: whatever throws is answered as a refusal.
MStoreFails(r) ==
  /\ pc[r] \in {"deciding", "revealing", "committing", "readback"}
  /\ Answer(r, "refused")
  /\ UNCHANGED <<rows, catalog, chain, ask, plan, call, sent, world, history>>

\* A read, the seal, the batch or the read-back throws.  In every case the client
\* hears of an internal error; after the commit the refresh is skipped too.
StoreFails(r) ==
  /\ pc[r] \in {"deciding", "revealing", "committing", "readback"}
  /\ Answer(r, "fault")
  /\ UNCHANGED <<rows, catalog, chain, ask, plan, call, sent, world, history>>

-----------------------------------------------------------------------------
(* refreshNamespace(), after the commit and inside the lock *)

\* store.tools.list(namespace).
RefreshReads(r) ==
  /\ pc[r] = "refreshing"
  /\ plan' = [plan EXCEPT ![r].tools = Row(r).tools]
  /\ Goes(r, "publishing")
  /\ UNCHANGED <<rows, catalog, chain, ask, answer, call, sent, world, history>>

\* Mutant: the ladder has no end.
MRefreshReadFails(r) ==
  /\ pc[r] = "refreshing"
  /\ plan' = [plan EXCEPT ![r].tries = @ + 1]
  /\ UNCHANGED <<rows, catalog, chain, ask, pc, answer, call, sent, world, history>>

\* The read throws: once more, then the ladder ends in a log line.
RefreshReadFails(r) ==
  /\ pc[r] = "refreshing"
  /\ IF plan[r].tries = 0
     THEN /\ plan' = [plan EXCEPT ![r].tries = 1]
          /\ UNCHANGED <<pc, answer, reported>>
     ELSE /\ Answer(r, "seeded")
          /\ reported' = reported \union {r}
          /\ UNCHANGED plan
  /\ UNCHANGED <<rows, catalog, chain, ask, call, sent, world, committed>>

\* removeNamespace() and upsert() in one tick.
Publish(r) ==
  /\ pc[r] = "publishing"
  /\ catalog' = [catalog EXCEPT ![Ns(r)] = plan[r].tools]
  /\ Answer(r, "seeded")
  /\ UNCHANGED <<rows, chain, ask, plan, call, sent, world, history>>

\* Mutant: the last failure is swallowed.
MPublishFails(r) ==
  /\ pc[r] = "publishing"
  /\ catalog' = [catalog EXCEPT ![Ns(r)] = Partial]
  /\ Answer(r, "seeded")
  /\ UNCHANGED <<rows, chain, ask, plan, call, sent, world, history>>

\* A mutation throws.  After a failed read there was no retry left; otherwise the
\* retry follows in the same tick, so only its failure is visible.
PublishFails(r) ==
  /\ pc[r] = "publishing"
  /\ catalog' = [catalog EXCEPT ![Ns(r)] = Partial]
  /\ reported' = reported \union {r}
  /\ Answer(r, "seeded")
  /\ UNCHANGED <<rows, chain, ask, plan, call, sent, world, committed>>

-----------------------------------------------------------------------------
(* A tool call, which takes no lock: connection, source, credential, request. *)

\* resolveConnection().
CallReadsConnection(c, n) ==
  /\ up
  /\ callPC[c] = "idle"
  /\ rows[n] # Absent
  /\ held' = [held EXCEPT ![c] =
       [ns |-> n, ref |-> rows[n].ref, url |-> Nothing, secret |-> Nothing]]
  /\ callPC' = [callPC EXCEPT ![c] = "source"]
  /\ UNCHANGED <<rows, catalog, chain, request, sent, world, history>>

\* sources.getByNamespace().
CallReadsSource(c) ==
  /\ callPC[c] = "source"
  /\ held' = [held EXCEPT ![c].url = rows[held[c].ns].location]
  /\ callPC' = [callPC EXCEPT ![c] = "credentials"]
  /\ UNCHANGED <<rows, catalog, chain, request, sent, world, history>>

\* credentials.resolve(): a promised credential that is gone fails the call.
CallResolves(c) ==
  /\ callPC[c] = "credentials"
  /\ LET secret == rows[held[c].ns].secret
     IN IF held[c].ref /\ secret = Nothing
        THEN callPC' = [callPC EXCEPT ![c] = "done"] /\ UNCHANGED held
        ELSE /\ callPC' = [callPC EXCEPT ![c] = "sending"]
             /\ held' = [held EXCEPT ![c].secret = IF held[c].ref THEN secret ELSE Nothing]
  /\ UNCHANGED <<rows, catalog, chain, request, sent, world, history>>

\* upstream.call().
CallSends(c) ==
  /\ callPC[c] = "sending"
  /\ sent' = sent \union {[by |-> c, to |-> held[c].url, secret |-> held[c].secret]}
  /\ callPC' = [callPC EXCEPT ![c] = "done"]
  /\ UNCHANGED <<rows, catalog, chain, request, held, world, history>>

-----------------------------------------------------------------------------
(* The process *)

\* The daemon dies: handlers, chains and the catalog are gone; a client whose
\* request was written is told that the outcome is unknown.
Crash ==
  /\ up
  /\ crashes < MaxCrashes
  /\ up' = FALSE
  /\ crashes' = crashes + 1
  /\ pc' = [r \in Requests |-> IF Active(r) THEN "dead" ELSE pc[r]]
  /\ answer' = [r \in Requests |-> IF Active(r) THEN "unknown" ELSE answer[r]]
  /\ tail' = [n \in Namespaces |-> Nothing]
  /\ catalog' = [n \in Namespaces |-> Nothing]
  /\ callPC' = [c \in Calls |-> IF callPC[c] = "idle" THEN "idle" ELSE "done"]
  /\ UNCHANGED <<rows, pred, ask, plan, held, sent, history>>

\* hydrateCatalog() of the next process, before it serves.
Restart ==
  /\ ~up
  /\ up' = TRUE
  /\ catalog' = [n \in Namespaces |-> rows[n].tools]
  /\ UNCHANGED <<rows, chain, request, call, sent, crashes, history>>

-----------------------------------------------------------------------------
(* The specification *)

Handle(r) ==
  \/ Enter(r) \/ Provision(r) \/ Revalidate(r) \/ Reveal(r) \/ Fetch(r)
  \/ \E reply \in Replies : FetchAnswered(r, reply)
  \/ Commit(r) \/ CommitConflicts(r) \/ ReadBack(r)
  \/ RefreshReads(r) \/ Publish(r) \/ Release(r)

Fails(r) == StoreFails(r) \/ RefreshReadFails(r) \/ PublishFails(r)

CallGoesOn(c) ==
  \/ \E n \in Namespaces : CallReadsConnection(c, n)
  \/ CallReadsSource(c) \/ CallResolves(c) \/ CallSends(c)

Next ==
  \/ \E r \in Requests : (\E a \in Asks[r] : Arrive(r, a)) \/ Handle(r) \/ Fails(r)
  \/ \E c \in Calls : CallGoesOn(c)
  \/ Crash
  \/ Restart

Spec == Init /\ [][Next]_vars

\* A handler goes on: store calls return, a fetch ends by the onboarding deadline,
\* and a continuation that may run does.  Nothing is assumed of clients or crashes.
FairSpec == Spec /\ WF_vars(\E r \in Requests : Handle(r))

-----------------------------------------------------------------------------
(* Properties *)

\* At most one handler of a namespace runs at a time: SourceLock is a lock,
\* although each request only ever waits for the one before it.
OneHolder ==
  \A q, r \in Requests :
    pc[q] \in Running /\ pc[r] \in Running /\ Ns(q) = Ns(r) => q = r

StoredPair(n) ==
  /\ rows[n].ref <=> rows[n].secret # Nothing
  /\ rows[n].secret # Nothing => ask[rows[n].secret].url = rows[n].location

\* A credential and a url belong together when an operator named them in one
\* request.  So they do on file, where a connection promises a credential exactly
\* when there is one, and in every onboarding fetch, whatever was provisioned
\* meanwhile.
PairsAreSupplied ==
  /\ \A n \in Namespaces : StoredPair(n)
  /\ \A m \in sent :
       m.by \in Requests /\ m.secret # Nothing => ask[m.secret].url = m.to

\* What a client is told is so: "nothing was written" only of requests that wrote
\* nothing, success only of requests that did.
AnswersAreTrue ==
  \A r \in Requests :
    /\ answer[r] = "refused" => r \notin committed
    /\ answer[r] = "seeded" => r \in committed

\* The served catalog is the stored one, except while the handler that changed
\* the store has not refreshed it yet, and after a failure that somebody was told
\* of: a refresh given up is in the log; a read-back that threw after the commit,
\* where no refresh is tried, is only an internal error to the one client who asked.
CatalogFollowsStore ==
  \A n \in Namespaces :
    LET writer == rows[n].tools
    IN up /\ catalog[n] # writer =>
         pc[writer] \in {"readback", "refreshing", "publishing"}
           \/ answer[writer] = "fault" \/ writer \in reported

\* Every request in a chain gets its turn and its answer, or dies with the daemon:
\* a predecessor that is refused, or throws, does not strand the ones behind it.
RequestsAreAnswered ==
  (\E r \in Requests : Active(r)) ~> (\A r \in Requests : ~Active(r))

\* What SourceLock's doc says of a stored credential (it is only ever sent to the
\* destination it is bound to), of tool calls: they hold no lock, so the url and
\* the credential they read may be of two provisionings.
CallPairIsSupplied ==
  \A m \in sent :
    m.by \in Calls /\ m.secret # Nothing => ask[m.secret].url = m.to

=============================================================================
