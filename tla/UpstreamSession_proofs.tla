----------------------- MODULE UpstreamSession_proofs -----------------------
(***************************************************************************)
(* Theorems about UpstreamSession, for any number of calls and fetches,    *)
(* any bindings, and whatever the servers do.                              *)
(***************************************************************************)
EXTENDS UpstreamSession, TLAPS

-----------------------------------------------------------------------------
(* The inductive invariant *)

Sending == {"reading", "pinged", "matched"}
Fetching == {"opening", "listing", "deleting"}

\* A handshake that is under way or stands.
Standing == {"initialize", "initialized", "made"}

\* What an operation has done at each of its steps: a fetch has no binding and
\* rides nothing, a call waits before it writes, and the cell counts the wire.
Deed(c) ==
  /\ pc[c] \in {"idle"} \union Fetching => binding[c] = Nobody
  /\ pc[c] \in {"begun", "acquiring"} \union Sending => binding[c] # Nobody
  /\ pc[c] \in {"idle", "begun"} => hand[c] = "none"
  /\ pc[c] \in {"idle", "begun"} \/ binding[c] = Nobody => on[c] = Nobody /\ cell[c] = "none"
  /\ pc[c] = "acquiring" => on[c] # Nobody /\ cell[c] = "initializing"
  /\ pc[c] \in Sending => cell[c] = "dispatched"
  /\ pc[c] = "ok" /\ binding[c] # Nobody => cell[c] = "dispatched"
  /\ wire[c] = IF cell[c] = "dispatched" THEN 1 ELSE 0

Deeds == \A c \in Operations : Deed(c)

\* The maker of a handshake rides its own; the others ride one made under
\* their key; and the map holds the one of its key, for as long as the scope stands.
Shared ==
  /\ \A c \in Operations : on[c] # Nobody => on[on[c]] = on[c] /\ Key(on[c]) = Key(c)
  /\ \A c \in Operations : binding[c] # Nobody /\ hand[c] # "none" => on[c] = c
  /\ \A k \in Keys : entries[k] # Nobody =>
       on[entries[k]] = entries[k] /\ Key(entries[k]) = k /\ hand[entries[k]] \in Standing
  /\ \A c \in Operations :
       on[c] = c /\ hand[c] \in Standing /\ scope # "disposed" => entries[Key(c)] = c
  /\ \A c, d \in Operations :
       on[c] = c /\ hand[c] \in Standing /\ on[d] = d /\ hand[d] \in Standing /\ Key(c) = Key(d)
         => c = d

\* Nothing is left for a teardown of c to do.
Done(c) == hand[c] = "made" /\ (c \in logged \/ c \notin live)

\* A teardown has begun only once the drive is over; every handshake that
\* stands then is yet to come, is being torn down, or is done with.
Teardown ==
  /\ live \subseteq named
  /\ tearing # Nobody => scope = "disposing" /\ on[tearing] = tearing
  /\ deleting => tearing # Nobody /\ hand[tearing] = "made"
  /\ \A c \in Operations : on[c] = c /\ hand[c] \in Standing =>
       /\ scope = "disposing" => Key(c) \in left \/ tearing = c \/ Done(c)
       /\ scope = "disposed" => Done(c)

IInv == TypeOK /\ Deeds /\ Shared /\ Teardown

-----------------------------------------------------------------------------
(* Steps by what they touch *)

\* A call or a fetch goes on, and nothing changes but how far it is.
Moves(o) ==
  \/ EgressRefuses(o) \/ AcquireFails(o) \/ AcquireTimesOut(o)
  \/ PingArrives(o) \/ PingAccepted(o) \/ PingFails(o) \/ ResponseMatches(o) \/ ResponseFails(o)
  \/ FetchProceeds(o) \/ ListAnswered(o) \/ ListFails(o)

LEMMA StepsByKind ==
  ASSUME [Next]_vars
  PROVE  \/ \E o \in Operations :
              \/ DeadlinePasses(o) \/ Moves(o)
              \/ Begin(o) \/ Acquire(o) \/ CallTool(o)
              \/ InitializeAnswered(o) \/ InitializedAccepted(o) \/ HandshakeFails(o)
              \/ FetchBegins(o) \/ ListExpired(o) \/ FetchDeletes(o)
         \/ BudgetElapses \/ DisposeBegins \/ (\E k \in Keys : TeardownBegins(k))
         \/ TeardownProceeds \/ DeleteAnswered \/ DeleteFails \/ DisposeEnds
         \/ UNCHANGED vars
BY DEF Next, Local, Moves, ReadTimesOut, DeleteTimesOut

\* Where a call or a fetch can get to from where it is.
LEMMA MovesWithin ==
  ASSUME TypeOK, NEW o \in Operations, Moves(o)
  PROVE  /\ UNCHANGED <<hand, named, live, binding, on, late, scopeVars, cell, wire, spent, renewed>>
         /\ \E next \in Sending \union Fetching \union Settled :
              /\ pc' = [pc EXCEPT ![o] = next]
              /\ \/ next = "error"
                 \/ pc[o] \in Sending /\ next \in Sending \union Settled
                 \/ pc[o] \in Fetching /\ next \in Fetching \union Settled
         /\ pc[o] \notin Settled
<1> USE DEF TypeOK, Sending, Fetching, Settled
<1>1. CASE EgressRefuses(o) \/ AcquireFails(o) \/ AcquireTimesOut(o)
  BY <1>1 DEF EgressRefuses, AcquireFails, AcquireTimesOut
<1>2. CASE PingArrives(o) \/ PingAccepted(o) \/ PingFails(o)
  BY <1>2 DEF PingArrives, PingAccepted, PingFails
<1>3. CASE ResponseMatches(o) \/ ResponseFails(o)
  BY <1>3 DEF ResponseMatches, ResponseFails
<1>4. CASE FetchProceeds(o) \/ ListFails(o)
  BY <1>4 DEF FetchProceeds, ListFails
<1>5. CASE ListAnswered(o)
  <2>1. pc' = [pc EXCEPT ![o] = "ok"] \/ pc' = [pc EXCEPT ![o] = "deleting"]
    BY <1>5 DEF ListAnswered
  <2> QED
    BY <1>5, <2>1 DEF ListAnswered
<1> QED
  BY <1>1, <1>2, <1>3, <1>4, <1>5 DEF Moves

\* The key of a call with a binding is a key.
LEMMA KeysOfCalls ==
  ASSUME TypeOK, NEW c \in Operations, binding[c] # Nobody
  PROVE  Key(c) \in Keys
BY DEF TypeOK, Key, Keys

-----------------------------------------------------------------------------
(* Types *)

LEMMA TypesKept ==
  ASSUME TypeOK, Deeds, Teardown, [Next]_vars
  PROVE  TypeOK'
<1> USE DEF TypeOK, Settled, scopeVars
<1>1. ASSUME NEW o \in Operations, DeadlinePasses(o)
      PROVE  TypeOK'
  BY <1>1 DEF DeadlinePasses
<1>2. ASSUME NEW o \in Operations, Moves(o)
      PROVE  TypeOK'
  BY <1>2, MovesWithin DEF Sending, Fetching
<1>3. ASSUME NEW o \in Operations, Begin(o)
      PROVE  TypeOK'
  BY <1>3 DEF Begin
<1>4. ASSUME NEW o \in Operations, Acquire(o)
      PROVE  TypeOK'
  <2>1. Key(o) \in Keys
    BY <1>4, KeysOfCalls DEF Acquire, Deeds, Deed
  <2>2. hand' \in [Operations -> {"none", "initialize", "initialized", "made", "failed"}]
    BY <1>4 DEF Acquire, Handshake
  <2>3. entries' \in [Keys -> Operations \union {Nobody}]
    BY <1>4 DEF Acquire, Handshake
  <2>4. on' \in [Operations -> Operations \union {Nobody}]
    BY <1>4, <2>1 DEF Acquire
  <2>5. pc' = [pc EXCEPT ![o] = "error"] \/ pc' = [pc EXCEPT ![o] = "acquiring"]
    BY <1>4 DEF Acquire
  <2> QED
    BY <1>4, <2>2, <2>3, <2>4, <2>5 DEF Acquire
<1>5. ASSUME NEW o \in Operations, CallTool(o)
      PROVE  TypeOK'
  BY <1>5 DEF CallTool
<1>6. ASSUME NEW o \in Operations, InitializeAnswered(o) \/ InitializedAccepted(o) \/ HandshakeFails(o)
      PROVE  TypeOK'
  BY <1>6 DEF InitializeAnswered, InitializedAccepted, HandshakeFails
<1>7. ASSUME NEW o \in Operations, FetchBegins(o) \/ FetchDeletes(o)
      PROVE  TypeOK'
  BY <1>7 DEF FetchBegins, FetchDeletes
<1>8. ASSUME NEW o \in Operations, ListExpired(o)
      PROVE  TypeOK'
  <2>1. hand' \in [Operations -> {"none", "initialize", "initialized", "made", "failed"}]
    BY <1>8 DEF ListExpired
  <2>2. renewed' \in [Operations -> 0..1]
    BY <1>8 DEF ListExpired
  <2> QED
    BY <1>8, <2>1, <2>2 DEF ListExpired
<1>9. CASE BudgetElapses \/ DisposeBegins \/ (\E k \in Keys : TeardownBegins(k)) \/ TeardownProceeds
  BY <1>9 DEF BudgetElapses, DisposeBegins, TeardownBegins, TeardownProceeds
<1>10. CASE DeleteAnswered \/ DeleteFails \/ DisposeEnds
  <2>1. deleting => tearing # Nobody
    BY DEF Teardown
  <2> QED
    BY <1>10, <2>1 DEF DeleteAnswered, DeleteFails, DisposeEnds
<1>11. CASE UNCHANGED vars
  BY <1>11 DEF vars
<1> QED
  BY StepsByKind, <1>1, <1>2, <1>3, <1>4, <1>5, <1>6, <1>7, <1>8, <1>9, <1>10, <1>11

-----------------------------------------------------------------------------
(* The cell *)

\* A step of one operation leaves the deeds of the others alone.
LEMMA DeedsOfOne ==
  ASSUME Deeds, NEW o \in Operations, Deed(o)',
         \A c \in Operations \ {o} :
           /\ pc'[c] = pc[c] /\ binding'[c] = binding[c] /\ on'[c] = on[c]
           /\ cell'[c] = cell[c] /\ wire'[c] = wire[c] /\ hand'[c] = hand[c]
  PROVE  Deeds'
<1> SUFFICES ASSUME NEW c \in Operations PROVE Deed(c)'
  BY DEF Deeds
<1>1. CASE c = o
  BY <1>1
<1>2. CASE c # o
  BY <1>2 DEF Deeds, Deed
<1> QED
  BY <1>1, <1>2

LEMMA DeedsKept ==
  ASSUME IInv, [Next]_vars
  PROVE  Deeds'
<1> USE NobodyAssumption DEF IInv, TypeOK, Settled, scopeVars, Sending, Fetching
<1>1. ASSUME NEW o \in Operations, DeadlinePasses(o)
      PROVE  Deeds'
  BY <1>1 DEF DeadlinePasses, Deeds, Deed
<1>2. ASSUME NEW o \in Operations, Moves(o)
      PROVE  Deeds'
  <2>1. PICK next \in Sending \union Fetching \union Settled :
          /\ pc' = [pc EXCEPT ![o] = next]
          /\ \/ next = "error"
             \/ pc[o] \in Sending /\ next \in Sending \union Settled
             \/ pc[o] \in Fetching /\ next \in Fetching \union Settled
    BY <1>2, MovesWithin
  <2>2. UNCHANGED <<hand, binding, on, cell, wire>>
    BY <1>2, MovesWithin
  <2>3. Deed(o)'
    BY <2>1, <2>2 DEF Deeds, Deed
  <2> QED
    BY <2>1, <2>2, <2>3, DeedsOfOne
<1>3. ASSUME NEW o \in Operations, Begin(o)
      PROVE  Deeds'
  <2>1. Deed(o)'
    BY <1>3 DEF Begin, Deeds, Deed
  <2> QED
    BY <1>3, <2>1, DeedsOfOne DEF Begin
<1>4. ASSUME NEW o \in Operations, Acquire(o)
      PROVE  Deeds'
  <2>1. Key(o) \in Keys
    BY <1>4, KeysOfCalls DEF Acquire, Deeds, Deed
  <2>2. Deed(o)'
    BY <1>4, <2>1 DEF Acquire, Deeds, Deed
  <2>3. \A c \in Operations \ {o} :
          /\ pc'[c] = pc[c] /\ binding'[c] = binding[c] /\ on'[c] = on[c]
          /\ cell'[c] = cell[c] /\ wire'[c] = wire[c] /\ hand'[c] = hand[c]
    BY <1>4 DEF Acquire, Handshake
  <2> QED
    BY <2>2, <2>3, DeedsOfOne
<1>5. ASSUME NEW o \in Operations, CallTool(o)
      PROVE  Deeds'
  <2>1. Deed(o)'
    BY <1>5 DEF CallTool, Deeds, Deed
  <2> QED
    BY <1>5, <2>1, DeedsOfOne DEF CallTool
<1>6. ASSUME NEW o \in Operations, InitializeAnswered(o) \/ InitializedAccepted(o) \/ HandshakeFails(o)
      PROVE  Deeds'
  <2>1. Deed(o)'
    BY <1>6 DEF InitializeAnswered, InitializedAccepted, HandshakeFails, Deeds, Deed
  <2> QED
    BY <1>6, <2>1, DeedsOfOne DEF InitializeAnswered, InitializedAccepted, HandshakeFails
<1>7. ASSUME NEW o \in Operations, FetchBegins(o) \/ FetchDeletes(o)
      PROVE  Deeds'
  <2>1. Deed(o)'
    BY <1>7 DEF FetchBegins, FetchDeletes, Deeds, Deed
  <2> QED
    BY <1>7, <2>1, DeedsOfOne DEF FetchBegins, FetchDeletes
<1>8. ASSUME NEW o \in Operations, ListExpired(o)
      PROVE  Deeds'
  <2>1. Deed(o)'
    BY <1>8 DEF ListExpired, Deeds, Deed
  <2> QED
    BY <1>8, <2>1, DeedsOfOne DEF ListExpired
<1>9. CASE BudgetElapses \/ DisposeBegins \/ (\E k \in Keys : TeardownBegins(k)) \/ TeardownProceeds
  BY <1>9 DEF BudgetElapses, DisposeBegins, TeardownBegins, TeardownProceeds, Deeds, Deed
<1>10. CASE DeleteAnswered \/ DeleteFails \/ DisposeEnds \/ UNCHANGED vars
  BY <1>10 DEF DeleteAnswered, DeleteFails, DisposeEnds, vars, Deeds, Deed
<1> QED
  BY StepsByKind, <1>1, <1>2, <1>3, <1>4, <1>5, <1>6, <1>7, <1>8, <1>9, <1>10

-----------------------------------------------------------------------------
(* The shared handshakes *)

\* A call that rides a handshake has a binding, and so has its maker.
LEMMA RidersAreCalls ==
  ASSUME TypeOK, Deeds, Shared, NEW c \in Operations, on[c] # Nobody
  PROVE  /\ binding[c] # Nobody /\ pc[c] \notin {"idle", "begun"} \union Fetching
         /\ on[c] \in Operations
         /\ binding[on[c]] # Nobody /\ pc[on[c]] \notin {"idle", "begun"} \union Fetching
         /\ Key(c) \in Keys
<1>1. on[c] \in Operations /\ on[on[c]] # Nobody
  BY DEF TypeOK, Shared
<1>2. binding[c] # Nobody /\ pc[c] \notin {"idle", "begun"} \union Fetching
  BY DEF Deeds, Deed, Fetching
<1>3. binding[on[c]] # Nobody /\ pc[on[c]] \notin {"idle", "begun"} \union Fetching
  BY <1>1 DEF Deeds, Deed, Fetching
<1> QED
  BY <1>1, <1>2, <1>3, KeysOfCalls

\* The handshake of an operation that rides nothing is no matter of the scope.
LEMMA OutsideKeepsShared ==
  ASSUME TypeOK, Shared, NEW o \in Operations, on[o] = Nobody,
         UNCHANGED <<on, entries, scope>>,
         binding'[o] = Nobody \/ hand'[o] = "none",
         \A c \in Operations \ {o} : binding'[c] = binding[c] /\ hand'[c] = hand[c]
  PROVE  Shared'
<1> USE NobodyAssumption DEF TypeOK
<1>1. \A c \in Operations \ {o} : Key(c)' = Key(c)
  BY DEF Key
<1>2. \A c \in Operations : on[c] # o
  BY DEF Shared
<1>3. \A c \in Operations : on[c] # Nobody => on[c] \in Operations \ {o} /\ c # o
  BY <1>2
<1>4. \A k \in Keys : entries[k] # o
  BY DEF Shared
<1>5. \A c \in Operations : on'[c] # Nobody => on'[on'[c]] = on'[c] /\ Key(on[c])' = Key(c)'
  BY <1>1, <1>3 DEF Shared
<1>6. \A c \in Operations : binding'[c] # Nobody /\ hand'[c] # "none" => on'[c] = c
  BY DEF Shared
<1>7. \A k \in Keys : entries'[k] # Nobody =>
        on'[entries'[k]] = entries'[k] /\ Key(entries[k])' = k /\ hand'[entries'[k]] \in Standing
  <2> SUFFICES ASSUME NEW k \in Keys, entries[k] # Nobody
               PROVE  on[entries[k]] = entries[k] /\ Key(entries[k])' = k /\ hand'[entries[k]] \in Standing
    OBVIOUS
  <2>1. entries[k] \in Operations \ {o}
    BY <1>4
  <2> QED
    BY <1>1, <2>1 DEF Shared
<1>8. \A c \in Operations :
        on'[c] = c /\ hand'[c] \in Standing /\ scope' # "disposed" => entries'[Key(c)'] = c
  BY <1>1, <1>3 DEF Shared
<1>9. \A c, d \in Operations :
        on'[c] = c /\ hand'[c] \in Standing /\ on'[d] = d /\ hand'[d] \in Standing /\ Key(c)' = Key(d)'
          => c = d
  BY <1>1, <1>3 DEF Shared
<1> QED
  BY <1>5, <1>6, <1>7, <1>8, <1>9 DEF Shared

\* A call that asks for a session joins one under its key or makes one where
\* none stands.
LEMMA AcquireKeepsShared ==
  ASSUME IInv, NEW o \in Operations, Acquire(o)
  PROVE  Shared'
<1> USE NobodyAssumption DEF IInv, TypeOK
<1>0. /\ pc[o] = "begun" /\ binding[o] # Nobody /\ hand[o] = "none" /\ on[o] = Nobody
      /\ Key(o) \in Keys
      /\ binding' = binding /\ scope' = scope
  BY KeysOfCalls DEF Acquire, Deeds, Deed
<1>1. \A c \in Operations : Key(c)' = Key(c)
  BY <1>0 DEF Key
<1>2. \A c \in Operations : on[c] # o
  BY <1>0 DEF Shared
<1>3. \A k \in Keys : entries[k] # o
  BY <1>0 DEF Shared
<1>4. CASE scope # "open" /\ UNCHANGED <<hand, on, entries>>
  BY <1>0, <1>1, <1>4 DEF Shared
<1>5. CASE /\ scope = "open" /\ entries[Key(o)] # Nobody
           /\ on' = [on EXCEPT ![o] = entries[Key(o)]]
           /\ UNCHANGED <<hand, entries>>
  <2> DEFINE m == entries[Key(o)]
  <2>1. m \in Operations /\ on[m] = m /\ Key(m) = Key(o) /\ m # o
    BY <1>0, <1>3, <1>5 DEF Shared
  <2>2. \A c \in Operations : on'[c] = IF c = o THEN m ELSE on[c]
    BY <1>5
  <2> HIDE DEF m
  <2>3. \A c \in Operations : on'[c] # Nobody => on'[on'[c]] = on'[c] /\ Key(on'[c]) = Key(c)
    BY <1>2, <2>1, <2>2 DEF Shared
  <2>4. \A c \in Operations : binding'[c] # Nobody /\ hand'[c] # "none" => on'[c] = c
    BY <1>0, <1>5, <2>2 DEF Shared
  <2>5. \A k \in Keys : entries'[k] # Nobody =>
          on'[entries'[k]] = entries'[k] /\ Key(entries'[k]) = k /\ hand'[entries'[k]] \in Standing
    BY <1>3, <1>5, <2>2 DEF Shared
  <2>6. \A c \in Operations :
          on'[c] = c /\ hand'[c] \in Standing /\ scope' # "disposed" => entries'[Key(c)] = c
    BY <1>0, <1>5, <2>1, <2>2 DEF Shared
  <2>7. \A c, d \in Operations :
          on'[c] = c /\ hand'[c] \in Standing /\ on'[d] = d /\ hand'[d] \in Standing /\ Key(c) = Key(d)
            => c = d
    BY <1>5, <2>1, <2>2 DEF Shared
  <2>8. \A k \in Keys : entries'[k] # Nobody => entries'[k] \in Operations
    BY <1>5
  <2>9. \A c \in Operations : on'[c] # Nobody => on'[c] \in Operations
    BY <2>1, <2>2
  <2> QED
    BY <1>1, <2>3, <2>4, <2>5, <2>6, <2>7, <2>8, <2>9 DEF Shared
<1>6. CASE /\ scope = "open" /\ entries[Key(o)] = Nobody
           /\ on' = [on EXCEPT ![o] = o]
           /\ Handshake(o)
  <2>1. \A c \in Operations : on'[c] = IF c = o THEN o ELSE on[c]
    BY <1>6
  <2>2. \A c \in Operations : on[c] = c /\ hand[c] \in Standing => Key(c) # Key(o)
    BY <1>6 DEF Shared
  <2>3. \A c \in Operations \ {o} : hand'[c] = hand[c]
    BY <1>6 DEF Handshake
  <2>4. \A c \in Operations : on'[c] # Nobody => on'[c] \in Operations /\ on'[on'[c]] = on'[c] /\ Key(on'[c]) = Key(c)
    BY <1>2, <2>1 DEF Shared
  <2>5. \A c \in Operations : binding'[c] # Nobody /\ hand'[c] # "none" => on'[c] = c
    BY <1>0, <2>1, <2>3 DEF Shared
  <2>6. \A k \in Keys :
          \/ entries'[k] = entries[k]
          \/ k = Key(o) /\ entries'[k] = o /\ hand'[o] = "initialize"
    BY <1>0, <1>6 DEF Handshake
  <2>7. hand'[o] \in Standing => entries'[Key(o)] = o
    BY <1>0, <1>6 DEF Handshake, Standing
  <2>8. \A k \in Keys : entries'[k] # Nobody =>
          /\ entries'[k] \in Operations
          /\ on'[entries'[k]] = entries'[k] /\ Key(entries'[k]) = k /\ hand'[entries'[k]] \in Standing
    <3> SUFFICES ASSUME NEW k \in Keys, entries'[k] # Nobody
                 PROVE  /\ entries'[k] \in Operations
                        /\ on'[entries'[k]] = entries'[k] /\ Key(entries'[k]) = k
                        /\ hand'[entries'[k]] \in Standing
      OBVIOUS
    <3>1. CASE entries'[k] = entries[k]
      BY <1>3, <2>1, <2>3, <3>1 DEF Shared
    <3>2. CASE k = Key(o) /\ entries'[k] = o /\ hand'[o] = "initialize"
      BY <2>1, <3>2 DEF Standing
    <3> QED
      BY <2>6, <3>1, <3>2
  <2>9. \A c \in Operations :
          on'[c] = c /\ hand'[c] \in Standing /\ scope' # "disposed" => entries'[Key(c)] = c
    <3> SUFFICES ASSUME NEW c \in Operations, on'[c] = c, hand'[c] \in Standing
                 PROVE  entries'[Key(c)] = c
      OBVIOUS
    <3>1. CASE c = o
      BY <2>7, <3>1
    <3>2. CASE c # o
      <4>1. on[c] = c /\ hand[c] \in Standing /\ Key(c) \in Keys
        BY <2>1, <2>3, <3>2, RidersAreCalls
      <4> QED
        BY <1>6, <2>2, <2>6, <4>1 DEF Shared
    <3> QED
      BY <3>1, <3>2
  <2>10. \A c, d \in Operations :
           on'[c] = c /\ hand'[c] \in Standing /\ on'[d] = d /\ hand'[d] \in Standing /\ Key(c) = Key(d)
             => c = d
    BY <2>1, <2>2, <2>3 DEF Shared
  <2> QED
    BY <1>1, <2>4, <2>5, <2>8, <2>9, <2>10 DEF Shared
<1> QED
  BY <1>4, <1>5, <1>6 DEF Acquire

LEMMA SharedKept ==
  ASSUME IInv, [Next]_vars
  PROVE  Shared'
<1> USE NobodyAssumption DEF IInv, TypeOK, scopeVars
<1>1. CASE UNCHANGED <<on, binding, hand, entries, scope>>
  BY <1>1 DEF Shared, Key
<1>2. ASSUME NEW o \in Operations, Begin(o)
      PROVE  Shared'
  <2>1. on[o] = Nobody /\ hand'[o] = "none"
    BY <1>2 DEF Begin, Deeds, Deed
  <2> QED
    BY <1>2, <2>1, OutsideKeepsShared DEF Begin
<1>3. ASSUME NEW o \in Operations, FetchBegins(o) \/ ListExpired(o)
      PROVE  Shared'
  <2>1. on[o] = Nobody /\ binding'[o] = Nobody
    BY <1>3 DEF FetchBegins, ListExpired, Deeds, Deed, Fetching
  <2>2. UNCHANGED <<on, entries, scope, binding>> /\ \A c \in Operations \ {o} : hand'[c] = hand[c]
    BY <1>3 DEF FetchBegins, ListExpired
  <2> QED
    BY <2>1, <2>2, OutsideKeepsShared
<1>4. ASSUME NEW o \in Operations, InitializeAnswered(o) \/ InitializedAccepted(o)
      PROVE  Shared'
  <2>1. /\ UNCHANGED <<on, binding, entries, scope>>
        /\ hand[o] \in Standing /\ hand'[o] \in Standing
        /\ \A c \in Operations \ {o} : hand'[c] = hand[c]
    BY <1>4 DEF InitializeAnswered, InitializedAccepted, Standing
  <2>2. \A c \in Operations : (hand'[c] \in Standing <=> hand[c] \in Standing) /\ Key(c)' = Key(c)
    BY <2>1 DEF Key
  <2>3. hand[o] # "none"
    BY <2>1 DEF Standing
  <2> QED
    BY <2>1, <2>2, <2>3 DEF Shared, Key
<1>5. ASSUME NEW o \in Operations, HandshakeFails(o)
      PROVE  Shared'
  <2>1. /\ UNCHANGED <<on, binding, scope>>
        /\ hand[o] # "none" /\ hand'[o] \notin Standing
        /\ \A c \in Operations \ {o} : hand'[c] = hand[c]
        /\ \A k \in Keys : entries'[k] = IF entries[k] = o THEN Nobody ELSE entries[k]
    BY <1>5 DEF HandshakeFails, Standing
  <2>2. \A c \in Operations : Key(c)' = Key(c)
    BY <2>1 DEF Key
  <2>3. \A c \in Operations : on[c] # Nobody => Key(c) \in Keys
    BY RidersAreCalls
  <2> QED
    BY <2>1, <2>2, <2>3 DEF Shared, Key
<1>6. CASE DisposeBegins
  BY <1>6 DEF DisposeBegins, Shared, Key
<1>7. CASE DisposeEnds
  BY <1>7 DEF DisposeEnds, Shared, Key
<1>8. ASSUME NEW o \in Operations, DeadlinePasses(o) \/ CallTool(o) \/ FetchDeletes(o)
      PROVE  Shared'
  BY <1>1, <1>8 DEF DeadlinePasses, CallTool, FetchDeletes
<1>9. ASSUME NEW o \in Operations, Moves(o)
      PROVE  Shared'
  BY <1>1, <1>9, MovesWithin
<1>10. CASE BudgetElapses \/ (\E k \in Keys : TeardownBegins(k)) \/ TeardownProceeds \/ UNCHANGED vars
  BY <1>1, <1>10 DEF BudgetElapses, TeardownBegins, TeardownProceeds, vars
<1>11. CASE DeleteAnswered \/ DeleteFails
  BY <1>1, <1>11 DEF DeleteAnswered, DeleteFails
<1> QED
  BY StepsByKind, AcquireKeepsShared,
     <1>2, <1>3, <1>4, <1>5, <1>6, <1>7, <1>8, <1>9, <1>10, <1>11

-----------------------------------------------------------------------------
(* The teardown *)

\* Before the drive is over nothing is torn down, and nothing has to be yet.
LEMMA OpenIsQuiet ==
  ASSUME Teardown, live' \subseteq named', UNCHANGED <<tearing, deleting>>,
         scope = "open", scope' = "open"
  PROVE  Teardown'
BY DEF Teardown

\* The handshake of an operation that rides nothing is none of the teardown's.
LEMMA OutsideKeepsTeardown ==
  ASSUME TypeOK, Teardown, NEW o \in Operations, on[o] = Nobody,
         UNCHANGED <<on, scope, left, tearing, deleting, logged>>,
         live' \subseteq live, live' \subseteq named',
         \A c \in Operations \ {o} : binding'[c] = binding[c] /\ hand'[c] = hand[c]
  PROVE  Teardown'
<1>1. \A c \in Operations : on[c] = c => c # o /\ Key(c)' = Key(c) /\ hand'[c] = hand[c]
  BY NobodyAssumption DEF Key
<1>2. tearing # Nobody => tearing \in Operations
  BY DEF TypeOK
<1> QED
  BY <1>1, <1>2 DEF Teardown, Done

LEMMA HandshakeKeepsTeardown ==
  ASSUME IInv, NEW o \in Operations,
         InitializeAnswered(o) \/ InitializedAccepted(o) \/ HandshakeFails(o)
  PROVE  Teardown'
<1> USE DEF IInv, TypeOK
<1>1. /\ UNCHANGED <<on, binding, scope, left, tearing, deleting, logged>>
      /\ \A c \in Operations \ {o} : hand'[c] = hand[c] /\ (c \in live' <=> c \in live)
      /\ hand[o] \in {"initialize", "initialized"}
      /\ live' \subseteq named'
  BY DEF InitializeAnswered, InitializedAccepted, HandshakeFails, Teardown, scopeVars
<1>2. \A c \in Operations : Key(c)' = Key(c)
  BY <1>1 DEF Key
<1>3. deleting' => tearing' # Nobody /\ hand'[tearing'] = "made"
  BY <1>1 DEF Teardown
<1>4. ASSUME NEW c \in Operations, on'[c] = c, hand'[c] \in Standing
      PROVE  /\ scope' = "disposing" => Key(c) \in left' \/ tearing' = c \/ Done(c)'
             /\ scope' = "disposed" => Done(c)'
  <2>1. CASE c = o
    BY <1>1, <1>4, <2>1 DEF Teardown, Done, Standing
  <2>2. CASE c # o
    BY <1>1, <1>4, <2>2 DEF Teardown, Done
  <2> QED
    BY <2>1, <2>2
<1> QED
  BY <1>1, <1>2, <1>3, <1>4 DEF Teardown

LEMMA DisposeKeepsTeardown ==
  ASSUME IInv,
         \/ DisposeBegins \/ (\E k \in Keys : TeardownBegins(k)) \/ TeardownProceeds
         \/ DeleteAnswered \/ DeleteFails \/ DisposeEnds
  PROVE  Teardown'
<1> USE NobodyAssumption DEF IInv, TypeOK
<1>0. UNCHANGED <<on, hand, binding, named>>
  BY DEF DisposeBegins, TeardownBegins, TeardownProceeds, DeleteAnswered, DeleteFails, DisposeEnds
<1>1. \A c \in Operations : Key(c)' = Key(c)
  BY <1>0 DEF Key
<1>2. \A c \in Operations : on[c] = c => Key(c) \in Keys /\ c # Nobody
  BY RidersAreCalls
<1>3. CASE DisposeBegins
  <2>1. \A c \in Operations : on[c] = c /\ hand[c] \in Standing => Key(c) \in left'
    BY <1>2, <1>3 DEF DisposeBegins, Shared
  <2> QED
    BY <1>0, <1>1, <1>3, <2>1 DEF DisposeBegins, Teardown
<1>4. ASSUME NEW k \in Keys, TeardownBegins(k)
      PROVE  Teardown'
  <2>1. \A c \in Operations : on[c] = c /\ hand[c] \in Standing /\ Key(c) = k => tearing' = c
    BY <1>4 DEF TeardownBegins, Shared
  <2>2. tearing' # Nobody => on[tearing'] = tearing'
    BY <1>4 DEF TeardownBegins, Shared
  <2>3. /\ scope = "disposing" /\ scope' = scope /\ tearing = Nobody /\ left' = left \ {k}
        /\ UNCHANGED <<live, deleting, logged>>
    BY <1>4 DEF TeardownBegins
  <2> QED
    BY <1>0, <1>1, <1>2, <2>1, <2>2, <2>3 DEF Teardown, Done
<1>5. CASE TeardownProceeds
  <2>1. UNCHANGED <<live, scope, left>> /\ logged \subseteq logged'
    BY <1>5 DEF TeardownProceeds
  <2>2. \/ tearing' = Nobody /\ deleting' = FALSE
        \/ tearing' = tearing /\ hand[tearing] = "made"
    BY <1>5 DEF TeardownProceeds
  <2>3. tearing' = Nobody => tearing \in logged' \/ tearing \notin live
    BY <1>5 DEF TeardownProceeds, Teardown
  <2>4. tearing # Nobody
    BY <1>5 DEF TeardownProceeds
  <2>5. hand[tearing] \in Standing => hand[tearing] = "made"
    BY <1>5 DEF TeardownProceeds, Standing
  <2> QED
    BY <1>0, <1>1, <2>1, <2>2, <2>3, <2>4, <2>5 DEF Teardown, Done
<1>6. CASE DeleteAnswered \/ DeleteFails
  <2>1. /\ UNCHANGED <<scope, left>> /\ tearing' = Nobody /\ deleting' = FALSE
        /\ logged \subseteq logged' /\ live' \subseteq live
        /\ tearing \in logged' \/ tearing \notin live'
        /\ deleting
    BY <1>6 DEF DeleteAnswered, DeleteFails
  <2> QED
    BY <1>0, <1>1, <2>1 DEF Teardown, Done
<1>7. CASE DisposeEnds
  BY <1>0, <1>1, <1>2, <1>7 DEF DisposeEnds, Teardown, Done
<1> QED
  BY <1>3, <1>4, <1>5, <1>6, <1>7

LEMMA TeardownKept ==
  ASSUME IInv, [Next]_vars
  PROVE  Teardown'
<1> USE NobodyAssumption DEF IInv, TypeOK, scopeVars
<1>1. CASE UNCHANGED <<hand, named, live, binding, on, scope, left, tearing, deleting, logged>>
  BY <1>1 DEF Teardown, Done, Key
<1>2. ASSUME NEW o \in Operations, Begin(o) \/ FetchBegins(o) \/ ListExpired(o)
      PROVE  Teardown'
  <2>1. on[o] = Nobody
    BY <1>2 DEF Begin, FetchBegins, ListExpired, Deeds, Deed, Fetching
  <2>2. /\ UNCHANGED <<on, scope, left, tearing, deleting, logged>>
        /\ live' \subseteq live /\ live' \subseteq named'
        /\ \A c \in Operations \ {o} : binding'[c] = binding[c] /\ hand'[c] = hand[c]
    BY <1>2 DEF Begin, FetchBegins, ListExpired, Teardown
  <2> QED
    BY <2>1, <2>2, OutsideKeepsTeardown
<1>3. ASSUME NEW o \in Operations, FetchDeletes(o)
      PROVE  Teardown'
  <2>1. on[o] = Nobody
    BY <1>3 DEF FetchDeletes, Deeds, Deed, Fetching
  <2>2. /\ UNCHANGED <<on, hand, binding, scope, left, tearing, deleting, logged>>
        /\ live' \subseteq live /\ live' \subseteq named'
    BY <1>3 DEF FetchDeletes, Teardown
  <2> QED
    BY <2>1, <2>2, OutsideKeepsTeardown
<1>4. ASSUME NEW o \in Operations, Acquire(o)
      PROVE  Teardown'
  <2>1. UNCHANGED <<named, live, binding, scope, left, tearing, deleting, logged>>
    BY <1>4 DEF Acquire
  <2>2. CASE scope = "open"
    BY <2>1, <2>2, OpenIsQuiet DEF Teardown
  <2>3. CASE scope # "open"
    BY <1>1, <1>4, <2>1, <2>3 DEF Acquire
  <2> QED
    BY <2>2, <2>3
<1>5. ASSUME NEW o \in Operations,
             InitializeAnswered(o) \/ InitializedAccepted(o) \/ HandshakeFails(o)
      PROVE  Teardown'
  BY <1>5, HandshakeKeepsTeardown
<1>6. ASSUME NEW o \in Operations, DeadlinePasses(o) \/ CallTool(o)
      PROVE  Teardown'
  BY <1>1, <1>6 DEF DeadlinePasses, CallTool
<1>7. ASSUME NEW o \in Operations, Moves(o)
      PROVE  Teardown'
  BY <1>1, <1>7, MovesWithin
<1>8. CASE BudgetElapses \/ UNCHANGED vars
  BY <1>1, <1>8 DEF BudgetElapses, vars
<1> QED
  BY StepsByKind, DisposeKeepsTeardown, <1>2, <1>3, <1>4, <1>5, <1>6, <1>7, <1>8

-----------------------------------------------------------------------------
(* The theorems *)

LEMMA InvInit == Init => IInv
<1> SUFFICES ASSUME Init PROVE IInv
  OBVIOUS
<1>1. TypeOK
  <2>1. /\ pc \in [Operations -> {"idle", "begun", "acquiring", "reading", "pinged", "matched",
                                 "opening", "listing", "deleting"} \union Settled]
        /\ hand \in [Operations -> {"none", "initialize", "initialized", "made", "failed"}]
        /\ cell \in [Operations -> {"none", "initializing", "dispatched"}]
        /\ wire \in [Operations -> Nat] /\ renewed \in [Operations -> 0..1]
    BY DEF Init
  <2>2. /\ binding \in [Operations -> Bindings \union {Nobody}]
        /\ on \in [Operations -> Operations \union {Nobody}]
        /\ entries \in [Keys -> Operations \union {Nobody}]
    BY DEF Init
  <2> QED
    BY <2>1, <2>2 DEF Init, TypeOK
<1>2. Deeds
  BY DEF Init, Deeds, Deed, Fetching, Sending
<1>3. Shared
  BY NobodyAssumption DEF Init, Shared, Standing
<1>4. Teardown
  BY NobodyAssumption DEF Init, Teardown
<1> QED
  BY <1>1, <1>2, <1>3, <1>4 DEF IInv

LEMMA InvKept == IInv /\ [Next]_vars => IInv'
BY TypesKept, DeedsKept, SharedKept, TeardownKept DEF IInv

LEMMA Invariance == Spec => []IInv
BY InvInit, InvKept, PTL DEF Spec

\* Every variable stays within its values: awaits, cells, the map of sessions, and at
\* most one re-initialize of a fetch.
THEOREM TypesHold == Spec => []TypeOK
<1>1. IInv => TypeOK
  BY DEF IInv
<1> QED
  BY Invariance, <1>1, PTL

\* dispatchCell: whatever the timing of deadlines, pings, and failures, the
\* cell says "dispatched" exactly of the calls with one tools/call body on the wire,
\* and no call has two.
THEOREM TheCellIsTrue == Spec => []CellIsTrue
<1>1. IInv => CellIsTrue
  BY DEF IInv, Deeds, Deed, CellIsTrue
<1> QED
  BY Invariance, <1>1, PTL

\* In the model a key is the url and the set of lower-cased headers, so two bindings
\* share one exactly when they agree on both.  That the text canonicalAuth() makes of
\* the set (sorted, each part with its length) is as good as the set is not modelled.
LEMMA KeysTellBindingsApart ==
  ASSUME NEW a \in Bindings, NEW b \in Bindings
  PROVE  KeyOf(a) = KeyOf(b) <=> SameBinding(a, b)
<1>1. ASSUME CanonicalAuth(a) = CanonicalAuth(b), NEW h \in Headers[a]
      PROVE  \E g \in Headers[b] : Lower[g[1]] = Lower[h[1]] /\ g[2] = h[2]
  <2>1. <<Lower[h[1]], h[2]>> \in CanonicalAuth(b)
    BY <1>1 DEF CanonicalAuth
  <2> QED
    BY <2>1 DEF CanonicalAuth
<1>2. ASSUME CanonicalAuth(a) = CanonicalAuth(b), NEW h \in Headers[b]
      PROVE  \E g \in Headers[a] : Lower[g[1]] = Lower[h[1]] /\ g[2] = h[2]
  <2>1. <<Lower[h[1]], h[2]>> \in CanonicalAuth(a)
    BY <1>2 DEF CanonicalAuth
  <2> QED
    BY <2>1 DEF CanonicalAuth
<1>3. ASSUME SameBinding(a, b)
      PROVE  CanonicalAuth(a) = CanonicalAuth(b)
  <2>1. ASSUME NEW h \in Headers[a]
        PROVE  <<Lower[h[1]], h[2]>> \in CanonicalAuth(b)
    BY <1>3, <2>1 DEF CanonicalAuth, SameBinding
  <2>2. ASSUME NEW h \in Headers[b]
        PROVE  <<Lower[h[1]], h[2]>> \in CanonicalAuth(a)
    BY <1>3, <2>2 DEF CanonicalAuth, SameBinding
  <2>3. CanonicalAuth(a) \subseteq CanonicalAuth(b) /\ CanonicalAuth(b) \subseteq CanonicalAuth(a)
    BY <2>1, <2>2 DEF CanonicalAuth
  <2> QED
    BY <2>3
<1>4. KeyOf(a) = KeyOf(b) <=> Url[a] = Url[b] /\ CanonicalAuth(a) = CanonicalAuth(b)
  BY DEF KeyOf
<1> QED
  BY <1>1, <1>2, <1>3, <1>4 DEF SameBinding

\* McpSessionScope.acquire(): a call rides only a handshake of its own url and
\* credential, no two of one binding are under way or stand at once, and dispose()
\* leaves no session to a server unless it logged that it could not end it.
THEOREM SessionsHold == Spec => []SessionsAreAccountedFor
<1>1. ASSUME IInv PROVE SessionIsItsOwn
  <2> USE <1>1 DEF IInv, TypeOK
  <2>1. \A c \in Operations : on[c] # Nobody => binding[c] \in Bindings /\ binding[on[c]] \in Bindings
    BY RidersAreCalls
  <2>2. \A c \in Operations : on[c] # Nobody => SameBinding(binding[c], binding[on[c]])
    BY <2>1, KeysTellBindingsApart DEF Shared, Key
  <2>3. \A c, d \in Operations :
          on[c] # Nobody /\ on[d] # Nobody /\ SameBinding(binding[c], binding[d]) => Key(c) = Key(d)
    BY <2>1, KeysTellBindingsApart DEF Key
  <2>4. \A c \in Operations : on[c] # Nobody /\ hand[c] \notin {"none", "failed"} =>
          on[c] = c /\ hand[c] \in Standing
    BY <2>1, NobodyAssumption DEF Shared, Standing
  <2>5. \A c, d \in Operations :
          c # d /\ on[c] # Nobody /\ on[d] # Nobody /\ SameBinding(binding[c], binding[d])
            => ~(hand[c] \notin {"none", "failed"} /\ hand[d] \notin {"none", "failed"})
    BY <2>3, <2>4 DEF Shared
  <2> QED
    BY <2>2, <2>5 DEF SessionIsItsOwn
<1>2. ASSUME IInv PROVE SessionIsTornDown
  BY <1>2 DEF IInv, TypeOK, Shared, Teardown, Done, Standing, SessionIsTornDown
<1>3. IInv => SessionsAreAccountedFor
  BY <1>1, <1>2 DEF SessionsAreAccountedFor
<1> QED
  BY Invariance, <1>3, PTL

=============================================================================
