-------------------------- MODULE UpstreamSession --------------------------
(***************************************************************************)
(* The governed tool calls of one drive on their way to upstream MCP       *)
(* servers: the session scope they share, the handshake one call runs for  *)
(* all that wait for it, the gate before the write, the dispatch cell, the *)
(* stream with pings to answer, and the teardown when the drive is over.   *)
(* Beside them, the tools/list of an onboarding, which has a client and a  *)
(* session of its own and may renew that session once.                     *)
(*                                                                         *)
(* Servers answer, fail, forget sessions or stay silent as they like.      *)
(*                                                                         *)
(* Abstracted: what is on the wire, to which request is outstanding; the   *)
(* reasons of a failure (network, status, protocol, size cap), to the      *)
(* failure; the clock, to whether a deadline has passed.                   *)
(***************************************************************************)
EXTENDS Naturals, FiniteSets

CONSTANTS
  Operations, \* each a governed call of the drive or an onboarding fetch
  Bindings,   \* sources with a connection, as calls name them
  Url,        \* per binding: the source's location
  Headers,    \* per binding: the auth headers, a set of <<name, value>>
  Lower,      \* per header name: the name in lower case
  Nobody      \* no operation, no binding

ASSUME NobodyAssumption == Nobody \notin Operations \union Bindings

VARIABLES
  pc,       \* per operation: how far it is
  hand,     \* per operation: its handshake
  named,    \* operations whose session has an id
  live,     \* operations whose session a server may still hold
  binding,  \* per call: the binding it goes to
  on,       \* per call: whose handshake it waits for, or rides
  late,     \* the operations whose own deadline has passed
  entries,  \* the scope's map: per key, the call whose promise it holds
  scope,    \* "open", "disposing", "disposed"
  left,     \* the keys dispose() has yet to tear down
  tearing,  \* the call whose session it is tearing down
  deleting, \* whether that session's DELETE is on the wire
  logged,   \* calls whose teardown was logged as failed
  cell,     \* per call: the dispatch cell
  wire,     \* per call: how many tools/call bodies were written for it
  spent,    \* whether the drive's budget has elapsed
  renewed   \* per fetch: how often it has renewed its session

scopeVars == <<entries, scope, left, tearing, deleting, logged>>
vars == <<pc, hand, named, live, binding, on, late, scopeVars, cell, wire, spent, renewed>>

Settled == {"ok", "error"}

\* canonicalAuth(): names in lower case, values as they are; sorted and
\* length-prefixed, so that different headers never read the same.
CanonicalAuth(b) == {<<Lower[h[1]], h[2]>> : h \in Headers[b]}

\* The cache key: url and a salted digest of the headers.
KeyOf(b) == <<Url[b], CanonicalAuth(b)>>

Keys == {KeyOf(b) : b \in Bindings}

Key(c) == KeyOf(binding[c])

Init ==
  /\ pc = [o \in Operations |-> "idle"]
  /\ hand = [o \in Operations |-> "none"]
  /\ named = {}
  /\ live = {}
  /\ binding = [c \in Operations |-> Nobody]
  /\ on = [c \in Operations |-> Nobody]
  /\ late = {}
  /\ entries = [k \in Keys |-> Nobody]
  /\ scope = "open"
  /\ left = {}
  /\ tearing = Nobody
  /\ deleting = FALSE
  /\ logged = {}
  /\ cell = [c \in Operations |-> "none"]
  /\ wire = [c \in Operations |-> 0]
  /\ spent = FALSE
  /\ renewed = [f \in Operations |-> 0]

-----------------------------------------------------------------------------
(* Deadlines                                                                 *)

\* The absolute deadline of an operation that has begun; its handshake and
\* its session's teardown draw on it even after the call itself has settled.
DeadlinePasses(o) ==
  /\ o \notin late
  /\ pc[o] \notin {"idle"} \union Settled \/ hand[o] \notin {"none", "failed"}
  /\ late' = late \union {o}
  /\ UNCHANGED <<pc, hand, named, live, binding, on, scopeVars, cell, wire, spent, renewed>>

\* The drive's budget elapses, which only a call that has yet to write will see.
BudgetElapses ==
  /\ ~spent
  /\ \E c \in Operations : pc[c] \in {"begun", "acquiring"}
  /\ spent' = TRUE
  /\ UNCHANGED <<pc, hand, named, live, binding, on, late, scopeVars, cell, wire, renewed>>

-----------------------------------------------------------------------------
(* A governed call takes a session                                           *)

\* call(): the url passes the egress check and the deadline starts to run.
Begin(c) ==
  /\ pc[c] = "idle"
  /\ pc' = [pc EXCEPT ![c] = "begun"]
  /\ \E b \in Bindings : binding' = [binding EXCEPT ![c] = b]
  /\ UNCHANGED <<hand, named, live, on, late, scopeVars, cell, wire, spent, renewed>>

\* ... or it is refused before anything starts.
EgressRefuses(c) ==
  /\ pc[c] = "idle"
  /\ pc' = [pc EXCEPT ![c] = "error"]
  /\ UNCHANGED <<hand, named, live, binding, on, late, scopeVars, cell, wire, spent, renewed>>

\* initialize() refuses at once when the budget is exhausted; the entry that
\* held its promise is gone before any timer or socket event.
Handshake(c) ==
  IF c \in late
  THEN /\ hand' = [hand EXCEPT ![c] = "failed"]
       /\ UNCHANGED entries
  ELSE /\ hand' = [hand EXCEPT ![c] = "initialize"]
       /\ entries' = [entries EXCEPT ![Key(c)] = c]

\* acquire(): a disposed scope refuses, an entry is joined, whether its
\* handshake is done or not, and otherwise this call makes one.
Acquire(c) ==
  /\ pc[c] = "begun"
  /\ cell' = [cell EXCEPT ![c] = "initializing"]
  /\ \/ /\ scope # "open"
        /\ pc' = [pc EXCEPT ![c] = "error"]
        /\ UNCHANGED <<hand, on, entries>>
     \/ /\ scope = "open" /\ entries[Key(c)] # Nobody
        /\ pc' = [pc EXCEPT ![c] = "acquiring"]
        /\ on' = [on EXCEPT ![c] = entries[Key(c)]]
        /\ UNCHANGED <<hand, entries>>
     \/ /\ scope = "open" /\ entries[Key(c)] = Nobody
        /\ pc' = [pc EXCEPT ![c] = "acquiring"]
        /\ on' = [on EXCEPT ![c] = c]
        /\ Handshake(c)
  /\ UNCHANGED <<named, live, binding, late, scope, left, tearing, deleting, logged, wire, spent,
                 renewed>>

\* The server accepts initialize, with a session id or without; the client
\* posts notifications/initialized in the same step, unless it is late.
InitializeAnswered(o) ==
  /\ hand[o] = "initialize" /\ o \notin late
  /\ hand' = [hand EXCEPT ![o] = "initialized"]
  /\ \/ /\ named' = named \union {o}
        /\ live' = live \union {o}
     \/ UNCHANGED <<named, live>>
  /\ UNCHANGED <<pc, binding, on, late, scopeVars, cell, wire, spent, renewed>>

\* ... and accepts that with 202: the promise resolves.
InitializedAccepted(o) ==
  /\ hand[o] = "initialized" /\ o \notin late
  /\ hand' = [hand EXCEPT ![o] = "made"]
  /\ UNCHANGED <<pc, named, live, binding, on, late, scopeVars, cell, wire, spent, renewed>>

\* Any failure of the two posts, the deadline's among them: a failed
\* handshake is not cached.
HandshakeFails(o) ==
  /\ hand[o] \in {"initialize", "initialized"}
  /\ hand' = [hand EXCEPT ![o] = "failed"]
  /\ entries' = [k \in Keys |-> IF entries[k] = o THEN Nobody ELSE entries[k]]
  /\ UNCHANGED <<pc, named, live, binding, on, late, scope, left, tearing, deleting, logged, cell, wire,
                 spent, renewed>>

\* The promise a call waits for has rejected.
AcquireFails(c) ==
  /\ pc[c] = "acquiring" /\ hand[on[c]] = "failed"
  /\ pc' = [pc EXCEPT ![c] = "error"]
  /\ UNCHANGED <<hand, named, live, binding, on, late, scopeVars, cell, wire, spent, renewed>>

\* Mutant: the call takes the entry with it.
MAcquireTimesOut(c) ==
  /\ pc[c] = "acquiring" /\ c \in late
  /\ hand[on[c]] \in {"initialize", "initialized"}
  /\ pc' = [pc EXCEPT ![c] = "error"]
  /\ entries' = [entries EXCEPT ![Key(c)] = Nobody]
  /\ UNCHANGED <<hand, named, live, binding, on, late, scope, left, tearing, deleting, logged, cell, wire,
                 spent, renewed>>

\* withinDeadline(): the call gives up on a handshake that is still under way;
\* the handshake goes on, for those that still wait and those yet to come.
AcquireTimesOut(c) ==
  /\ pc[c] = "acquiring" /\ c \in late
  /\ hand[on[c]] \in {"initialize", "initialized"}
  /\ pc' = [pc EXCEPT ![c] = "error"]
  /\ UNCHANGED <<hand, named, live, binding, on, late, scopeVars, cell, wire, spent, renewed>>

-----------------------------------------------------------------------------
(* The governed call itself                                                  *)

\* callTool() under the session: refused with nothing written when the call's
\* own deadline has passed, or when the gate before the write finds the
\* drive's budget spent; otherwise the cell advances, then the body is
\* written, all in one step.
CallTool(c) ==
  /\ pc[c] = "acquiring" /\ hand[on[c]] = "made"
  /\ \/ /\ c \in late \/ spent
        /\ pc' = [pc EXCEPT ![c] = "error"]
        /\ UNCHANGED <<cell, wire>>
     \/ /\ c \notin late /\ ~spent
        /\ cell' = [cell EXCEPT ![c] = "dispatched"]
        /\ wire' = [wire EXCEPT ![c] = @ + 1]
        /\ pc' = [pc EXCEPT ![c] = "reading"]
  /\ UNCHANGED <<hand, named, live, binding, on, late, scopeVars, spent, renewed>>

\* A ping in the stream, answered by a post of its own while the stream
\* stays open; "pinged" while answers are under way.
PingArrives(c) ==
  /\ pc[c] = "reading"
  /\ pc' = [pc EXCEPT ![c] = "pinged"]
  /\ UNCHANGED <<hand, named, live, binding, on, late, scopeVars, cell, wire, spent, renewed>>

\* The last of the answers is accepted with 202.  A result that waited for it is
\* delivered, or refused for a JSON-RPC error or an echo of the credential.
PingAccepted(c) ==
  /\ \/ pc[c] = "pinged" /\ pc' = [pc EXCEPT ![c] = "reading"]
     \/ pc[c] = "matched" /\ \E how \in Settled : pc' = [pc EXCEPT ![c] = how]
  /\ UNCHANGED <<hand, named, live, binding, on, late, scopeVars, cell, wire, spent, renewed>>

\* An answer fails, by the server or by the deadline, and the call with it, be
\* there a response or not.
PingFails(c) ==
  /\ pc[c] \in {"pinged", "matched"}
  /\ pc' = [pc EXCEPT ![c] = "error"]
  /\ UNCHANGED <<hand, named, live, binding, on, late, scopeVars, cell, wire, spent, renewed>>

\* The response with the call's id: the read stops, the result waits for
\* answers to pings that are under way.
ResponseMatches(c) ==
  /\ \/ pc[c] = "reading" /\ \E how \in Settled : pc' = [pc EXCEPT ![c] = how]
     \/ pc[c] = "pinged" /\ pc' = [pc EXCEPT ![c] = "matched"]
  /\ UNCHANGED <<hand, named, live, binding, on, late, scopeVars, cell, wire, spent, renewed>>

\* Mutant: a 404 under a session id is answered by a second write.
MResponseFails(c) ==
  /\ pc[c] \in {"reading", "pinged"}
  /\ \/ /\ on[c] \in named
        /\ wire' = [wire EXCEPT ![c] = @ + 1]
        /\ UNCHANGED pc
     \/ /\ pc' = [pc EXCEPT ![c] = "error"]
        /\ UNCHANGED wire
  /\ UNCHANGED <<hand, named, live, binding, on, late, scopeVars, cell, spent, renewed>>

\* No response: the stream ends or breaks, is malformed or over the cap, or the
\* answer has another status.  A 404 is one of these: a governed call is never
\* sent again.
ResponseFails(c) ==
  /\ pc[c] \in {"reading", "pinged"}
  /\ pc' = [pc EXCEPT ![c] = "error"]
  /\ UNCHANGED <<hand, named, live, binding, on, late, scopeVars, cell, wire, spent, renewed>>

\* The deadline ends the wait for a response.
ReadTimesOut(c) ==
  /\ c \in late
  /\ ResponseFails(c)

-----------------------------------------------------------------------------
(* dispose(), when the drive is over                                         *)

\* The drive ends; a call it did not wait for may still be under way.
DisposeBegins ==
  /\ scope = "open"
  /\ scope' = "disposing"
  /\ left' = {k \in Keys : entries[k] # Nobody}
  /\ UNCHANGED <<pc, hand, named, live, binding, on, late, entries, tearing, deleting, logged, cell, wire,
                 spent, renewed>>

\* The next entry of the map; one whose handshake failed meanwhile has left it.
TeardownBegins(k) ==
  /\ scope = "disposing" /\ tearing = Nobody /\ k \in left
  /\ left' = left \ {k}
  /\ tearing' = entries[k]
  /\ UNCHANGED <<pc, hand, named, live, binding, on, late, entries, scope, deleting, logged, cell, wire,
                 spent, renewed>>

\* The promise it awaits: a rejection is logged; a session without an id
\* needs nothing; one with an id is deleted, on the budget of the call that made it.
TeardownProceeds ==
  /\ tearing # Nobody /\ ~deleting
  /\ hand[tearing] \in {"made", "failed"}
  /\ \/ /\ hand[tearing] = "failed" \/ (tearing \in named /\ tearing \in late)
        /\ logged' = logged \union {tearing}
        /\ tearing' = Nobody
        /\ UNCHANGED deleting
     \/ /\ hand[tearing] = "made" /\ tearing \notin named
        /\ tearing' = Nobody
        /\ UNCHANGED <<deleting, logged>>
     \/ /\ hand[tearing] = "made" /\ tearing \in named /\ tearing \notin late
        /\ deleting' = TRUE
        /\ UNCHANGED <<tearing, logged>>
  /\ UNCHANGED <<pc, hand, named, live, binding, on, late, entries, scope, left, cell, wire, spent,
                 renewed>>

\* deleteSession() answered 2xx, or 404 or 405 by a server that has it no
\* more or will not end it.
DeleteAnswered ==
  /\ deleting
  /\ live' = live \ {tearing}
  /\ deleting' = FALSE
  /\ tearing' = Nobody
  /\ UNCHANGED <<pc, hand, named, binding, on, late, entries, scope, left, logged, cell, wire, spent,
                 renewed>>

\* ... or failed, whether or not the server carried it out: logged, never thrown.
DeleteFails ==
  /\ deleting
  /\ logged' = logged \union {tearing}
  /\ deleting' = FALSE
  /\ tearing' = Nobody
  /\ UNCHANGED <<pc, hand, named, live, binding, on, late, entries, scope, left, cell, wire, spent,
                 renewed>>

\* Mutant: no timer bounds the drain of the DELETE's response.
MDeleteTimesOut == FALSE

\* The wall-clock timers of both phases of the DELETE.
DeleteTimesOut ==
  /\ tearing \in late
  /\ DeleteFails

DisposeEnds ==
  /\ scope = "disposing" /\ tearing = Nobody /\ left = {}
  /\ scope' = "disposed"
  /\ entries' = [k \in Keys |-> Nobody]
  /\ UNCHANGED <<pc, hand, named, live, binding, on, late, left, tearing, deleting, logged, cell, wire,
                 spent, renewed>>

-----------------------------------------------------------------------------
(* fetchToolsList(): handshake, tools/list, DELETE                           *)

FetchBegins(f) ==
  /\ pc[f] = "idle"
  /\ pc' = [pc EXCEPT ![f] = "opening"]
  /\ hand' = [hand EXCEPT ![f] = "initialize"]
  /\ UNCHANGED <<named, live, binding, on, late, scopeVars, cell, wire, spent, renewed>>

\* The handshake, the first or the renewal's, is over.
FetchProceeds(f) ==
  /\ pc[f] = "opening"
  /\ \/ hand[f] = "made" /\ f \notin late /\ pc' = [pc EXCEPT ![f] = "listing"]
     \/ hand[f] = "failed" /\ pc' = [pc EXCEPT ![f] = "error"]
     \/ hand[f] = "made" /\ f \in late /\ pc' = [pc EXCEPT ![f] = "error"]
  /\ UNCHANGED <<hand, named, live, binding, on, late, scopeVars, cell, wire, spent, renewed>>

\* tools/list, all its pages: done, and the session is deleted, if it has an id
\* and time is left.
ListAnswered(f) ==
  /\ pc[f] = "listing"
  /\ pc' = [pc EXCEPT ![f] = IF f \notin named \/ f \in late THEN "ok" ELSE "deleting"]
  /\ UNCHANGED <<hand, named, live, binding, on, late, scopeVars, cell, wire, spent, renewed>>

\* Mutant: every such 404 renews.
MListExpired(f) ==
  /\ pc[f] = "listing" /\ f \in named
  /\ live' = live \ {f}
  /\ named' = named \ {f}
  /\ renewed' = [renewed EXCEPT ![f] = @ + 1]
  /\ hand' = [hand EXCEPT ![f] = IF f \in late THEN "failed" ELSE "initialize"]
  /\ pc' = [pc EXCEPT ![f] = "opening"]
  /\ UNCHANGED <<binding, on, late, scopeVars, cell, wire, spent>>

\* A 404 of a request that carried a session id: one renewal, from the first
\* page again.
ListExpired(f) ==
  /\ pc[f] = "listing" /\ f \in named /\ renewed[f] = 0
  /\ live' = live \ {f}
  /\ named' = named \ {f}
  /\ renewed' = [renewed EXCEPT ![f] = @ + 1]
  /\ hand' = [hand EXCEPT ![f] = IF f \in late THEN "failed" ELSE "initialize"]
  /\ pc' = [pc EXCEPT ![f] = "opening"]
  /\ UNCHANGED <<binding, on, late, scopeVars, cell, wire, spent>>

\* Every other failure of a page, and the deadline.
ListFails(f) ==
  /\ pc[f] = "listing"
  /\ pc' = [pc EXCEPT ![f] = "error"]
  /\ UNCHANGED <<hand, named, live, binding, on, late, scopeVars, cell, wire, spent, renewed>>

\* The DELETE is best effort: the tools are in hand whatever becomes of it.
FetchDeletes(f) ==
  /\ pc[f] = "deleting"
  /\ pc' = [pc EXCEPT ![f] = "ok"]
  /\ live' \in {live, live \ {f}}
  /\ UNCHANGED <<hand, named, binding, on, late, scopeVars, cell, wire, spent, renewed>>

-----------------------------------------------------------------------------

\* What happens whatever the servers do: continuations of settled promises,
\* and timers.
Local ==
  \/ \E o \in Operations :
       \/ DeadlinePasses(o)
       \/ o \in late /\ HandshakeFails(o)
  \/ \E c \in Operations :
       \/ Acquire(c)
       \/ AcquireFails(c)
       \/ AcquireTimesOut(c)
       \/ CallTool(c)
       \/ c \in late /\ PingFails(c)
       \/ ReadTimesOut(c)
  \/ \E k \in Keys : TeardownBegins(k)
  \/ TeardownProceeds
  \/ DeleteTimesOut
  \/ DisposeEnds
  \/ \E f \in Operations :
       \/ FetchProceeds(f)
       \/ f \in late /\ (ListFails(f) \/ FetchDeletes(f))

Next ==
  \/ Local
  \/ BudgetElapses
  \/ \E o \in Operations :
       \/ InitializeAnswered(o)
       \/ InitializedAccepted(o)
       \/ HandshakeFails(o)
  \/ \E c \in Operations :
       \/ Begin(c)
       \/ EgressRefuses(c)
       \/ PingArrives(c)
       \/ PingAccepted(c)
       \/ PingFails(c)
       \/ ResponseMatches(c)
       \/ ResponseFails(c)
  \/ DisposeBegins
  \/ DeleteAnswered
  \/ DeleteFails
  \/ \E f \in Operations :
       \/ FetchBegins(f)
       \/ ListAnswered(f)
       \/ ListExpired(f)
       \/ ListFails(f)
       \/ FetchDeletes(f)

Spec == Init /\ [][Next]_vars

\* Timers fire and continuations run: the event loop never stops.  Nothing is
\* assumed of the servers.
FairSpec == Spec /\ WF_vars(Local)

-----------------------------------------------------------------------------

\* The values the state ranges over; a fetch renews its session at most once.
TypeOK ==
  /\ pc \in [Operations ->
              {"idle", "begun", "acquiring", "reading", "pinged", "matched",
               "opening", "listing", "deleting"} \union Settled]
  /\ hand \in [Operations -> {"none", "initialize", "initialized", "made", "failed"}]
  /\ named \subseteq Operations
  /\ live \subseteq Operations
  /\ binding \in [Operations -> Bindings \union {Nobody}]
  /\ on \in [Operations -> Operations \union {Nobody}]
  /\ late \subseteq Operations
  /\ entries \in [Keys -> Operations \union {Nobody}]
  /\ scope \in {"open", "disposing", "disposed"}
  /\ left \subseteq Keys
  /\ tearing \in Operations \union {Nobody}
  /\ deleting \in BOOLEAN
  /\ logged \subseteq Operations
  /\ cell \in [Operations -> {"none", "initializing", "dispatched"}]
  /\ wire \in [Operations -> Nat]
  /\ spent \in BOOLEAN
  /\ renewed \in [Operations -> 0..1]

\* What settles a call reads its cell, so the cell must tell the wire's truth:
\* at most one tools/call body is ever written for a call, exactly the calls
\* whose cell says "dispatched" have one, and none was answered as done without.
CellIsTrue ==
  \A c \in Operations :
    /\ wire[c] <= 1
    /\ wire[c] = 1 <=> cell[c] = "dispatched"
    /\ pc[c] = "ok" /\ binding[c] # Nobody => wire[c] = 1

\* The same headers up to the case of their names, written without reference
\* to the cache key.
SameBinding(a, b) ==
  /\ Url[a] = Url[b]
  /\ \A h \in Headers[a] : \E g \in Headers[b] : Lower[g[1]] = Lower[h[1]] /\ g[2] = h[2]
  /\ \A h \in Headers[b] : \E g \in Headers[a] : Lower[g[1]] = Lower[h[1]] /\ g[2] = h[2]

\* A call only waits for, and only rides, a handshake made at the same url
\* with the same credential; and no two handshakes of one binding are under
\* way, or stand, in one scope.
SessionIsItsOwn ==
  /\ \A c \in Operations : on[c] # Nobody => SameBinding(binding[c], binding[on[c]])
  /\ \A c, d \in Operations :
       c # d /\ on[c] # Nobody /\ on[d] # Nobody /\ SameBinding(binding[c], binding[d])
         => ~(hand[c] \notin {"none", "failed"} /\ hand[d] \notin {"none", "failed"})

\* Every session a handshake opened and a server still holds is one the
\* scope knows and will tear down, or one whose teardown is logged as failed:
\* none is left behind, not by a call that gave up on the handshake, nor by one that
\* comes while the scope is being disposed of.
SessionIsTornDown ==
  \A c \in Operations :
    on[c] = c /\ hand[c] = "made" /\ c \in live
      => c \in logged \/ (entries[Key(c)] = c /\ scope # "disposed")

\* The calls of a drive share one session per url and credential, never one
\* made with another's, and every session so opened is torn down with the drive.
SessionsAreAccountedFor ==
  /\ SessionIsItsOwn
  /\ SessionIsTornDown

\* An operation that has begun and not settled, or a dispose() under way.
Busy ==
  \/ \E o \in Operations : pc[o] \notin {"idle"} \union Settled
  \/ scope = "disposing"

\* Whatever the servers do or fail to do, every call and every fetch settles
\* and dispose() returns: no silent server holds an execution.
CallsSettle == Busy ~> ~Busy

=============================================================================
