------------------------ MODULE DirectPromise_proofs ------------------------
(***************************************************************************)
(* What an operator's decision is worth, and that DirectExecution keeps    *)
(* the promise of GatedCall: for every set of resume() calls, every number *)
(* of catalog generations and every number of crashes.                     *)
(***************************************************************************)
EXTENDS DirectExecution_proofs

-----------------------------------------------------------------------------
(* The inductive invariant, on top of IInv *)

\* A resumed attempt took its decision before it got anywhere near the body,
\* and never asks again.
Taken(r) ==
  /\ pc[r] \in {"policy", "blocked", "source", "handshake"} \union AfterSendPCs => consumed[r]
  /\ pc[r] \in {"source", "handshake"} => decision[r] = "approve"
  /\ r \in sent => decision[r] = "approve" /\ consumed[r]
  /\ pc[r] \notin {"gated", "pausing"}
  /\ write[r].state # "none" => write[r].settle.status # "paused"
  /\ pc[r] = "idle" => row.attempt # r

\* Generations only grow, so one that still matches at the guard is the one
\* the pause was stored under, and none came between.
Dated(r) ==
  /\ seen[r].approved <= seen[r].claimed
  /\ seen[r].claimed <= catalog.generation
  /\ FenceHolds(r) => row.generation = seen[r].approved
  /\ pc[r] \in {"getScope", "getPolicy"} \union BeforeSendPCs \/ r \in sent =>
       seen[r].claimed = seen[r].approved

\* Who was told that the decision was not applied is never overtaken by the call.
Unspent(r) ==
  applied[r] = "no" => r \notin sent /\ latch[r] # "free" /\ pc[r] \notin {"idle", "kind"}

\* A grant is only ever withdrawn, so one that the call could read was there
\* when its drive began.
Scoped(a) ==
  /\ pc[a] \in {"tool", "scope"} /\ permitted => seen[a].scope
  /\ pc[a] = "policy" /\ found[a] => seen[a].scope
  /\ pc[a] \in {"source", "handshake"} \/ a \in sent => seen[a].scope

\* An attempt whose answer can still change has none; and an answer of the
\* guard is of an attempt that has not reached the body.
Waiting == {"idle", "kind", "awaitExpiry"} \union GuardPCs

SaidOnce(a) ==
  /\ latch[a] = "free" \/ write[a].to # "nobody" \/ pc[a] \in Waiting => outcome[a] = NoAnswer
  /\ write[a].to = "outcome" => pc[a] \notin Waiting
  /\ write[a].to \in {"guardExpiry", "unknown", "throw"} => a \notin sent
  /\ pc[a] = "awaitExpiry" => latch[a] # "free"
  /\ expiry[a] # NoAnswer =>
       /\ write[a].to = "nobody" /\ latch[a] # "free"
       /\ pc[a] \notin {"idle", "kind"}
       /\ latch[a] = "none" => pc[a] \in {"done", "dead"}

\* All that is to be kept of one attempt.
Kept(a) ==
  /\ write[a].generation <= catalog.generation
  /\ Scoped(a) /\ SaidOnce(a)
  /\ a \in Resumers => Taken(a) /\ Dated(a) /\ Unspent(a)

Decided ==
  /\ row.generation <= catalog.generation
  /\ \A a \in Attempts : Kept(a)

-----------------------------------------------------------------------------
(* Steps of one attempt *)

\* Nothing of b is touched.
Untouched(b) ==
  /\ pc'[b] = pc[b] /\ latch'[b] = latch[b] /\ write'[b] = write[b]
  /\ expiry'[b] = expiry[b] /\ outcome'[b] = outcome[b] /\ applied'[b] = applied[b]
  /\ decision'[b] = decision[b] /\ consumed'[b] = consumed[b] /\ found'[b] = found[b]
  /\ seen'[b] = seen[b] /\ (b \in sent' <=> b \in sent)

\* A row that changes owner, or stops running, was not somebody else's.
RowOf(a) ==
  /\ row'.generation <= catalog.generation
  /\ \A b \in Attempts \ {a} :
       /\ row'.attempt = b => row.attempt = b
       /\ FenceHolds(b)' => FenceHolds(b) /\ row'.generation = row.generation

LEMMA OneAttempt ==
  ASSUME Decided, NEW a \in Attempts,
         \A b \in Attempts \ {a} : Untouched(b),
         RowOf(a), UNCHANGED <<catalog, permitted>>, Kept(a)'
  PROVE  Decided'
<1> SUFFICES ASSUME NEW b \in Attempts, b # a PROVE Kept(b)'
  BY DEF Decided, RowOf
<1>1. Untouched(b) /\ Kept(b)
  BY DEF Decided
<1>2. (b \in Resumers => Taken(b))' /\ Scoped(b)' /\ SaidOnce(b)' /\ (Unspent(b) => Unspent(b)')
  BY <1>1 DEF Untouched, Kept, RowOf, Taken, Scoped, SaidOnce, Unspent
<1>3. Dated(b) => Dated(b)'
  BY <1>1 DEF Untouched, RowOf, Dated, BeforeSendPCs
<1> QED
  BY <1>1, <1>2, <1>3 DEF Kept, Untouched

\* The row stays as it is.
LEMMA SameRow ==
  ASSUME Decided, UNCHANGED row, NEW a \in Attempts
  PROVE  RowOf(a)
BY DEF Decided, RowOf, FenceHolds

\* Most steps touch the one attempt they are of, and neither row nor world.
LEMMA OneAttemptSameRow ==
  ASSUME Decided, NEW a \in Attempts,
         \A b \in Attempts \ {a} : Untouched(b),
         UNCHANGED <<row, world>>, Kept(a)'
  PROVE  Decided'
BY OneAttempt, SameRow DEF world

LEMMA SettleDecided ==
  ASSUME IInv, Decided, NEW a \in Attempts, NEW settle \in Settles,
         NEW generation \in 0..MaxGeneration, generation <= catalog.generation,
         Settle(a, settle, generation), UNCHANGED call,
         pc[a] \notin {"idle", "kind"},
         a \in Resumers => settle.status # "paused"
  PROVE  Decided'
<1> USE DEF IInv, TypeOK, answers, call
<1>1. UNCHANGED <<row, world>> /\ \A b \in Attempts \ {a} : Untouched(b)
  BY DEF Settle, Untouched
<1>2. /\ pc'[a] \in {"settling", "done"}
      /\ UNCHANGED <<expiry[a], outcome[a], applied[a], decision[a], consumed[a], found[a], seen[a], sent>>
      /\ UNCHANGED <<row, catalog, permitted>>
  BY DEF Settle, world
<1>3. \/ latch'[a] = latch[a] /\ write'[a] = write[a] /\ pc'[a] = "done"
      \/ /\ latch[a] = "free" /\ latch'[a] = "continuation"
         /\ write'[a] = Issue("fenced", settle, generation, "outcome")
  BY DEF Settle, WinsLatch
<1>4. Scoped(a)' /\ (a \in Resumers => Dated(a)' /\ Unspent(a)') /\ write'[a].generation <= catalog.generation
  BY <1>2, <1>3 DEF Decided, Kept, Scoped, Dated, Unspent, FenceHolds, BeforeSendPCs, Issue
<1>5. SaidOnce(a)'
  BY <1>2, <1>3 DEF Decided, Kept, SaidOnce, Waiting, GuardPCs, Issue
<1>6. a \in Resumers => Taken(a)'
  BY <1>2, <1>3 DEF Decided, Kept, Taken, AfterSendPCs, Issue
<1> QED
  BY <1>1, <1>2, <1>4, <1>5, <1>6, OneAttemptSameRow DEF Kept

LEMMA BeginDriveDecided ==
  ASSUME IInv, Decided, NEW a \in Attempts, BeginDrive(a),
         pc[a] \in {"createLanded", "getPolicy"},
         a \in Resumers => pc[a] = "getPolicy"
  PROVE  Decided'
<1> USE DEF IInv, TypeOK
<1>1. CASE Settle(a, Failed("internal"), 0) /\ UNCHANGED call
  <2>1. /\ Failed("internal") \in Settles /\ Failed("internal").status # "paused"
        /\ 0 \in 0..MaxGeneration /\ 0 <= catalog.generation
    BY ValueTypes, BoundsAssumption DEF Errors, Failed, Generations
  <2> QED
    BY <1>1, <2>1, SettleDecided
<1>2. CASE /\ pc' = [pc EXCEPT ![a] = "tool"]
           /\ seen' = [seen EXCEPT ![a].scope = permitted]
           /\ UNCHANGED <<row, world, latch, write, answers, decision, consumed, found, sent>>
  <2>1. seen'[a].scope = permitted /\ seen'[a].claimed = seen[a].claimed /\ seen'[a].approved = seen[a].approved
    BY <1>2
  <2>2. a \notin sent
    BY DEF Consistent, SentByPC, UnpersistedPCs, GuardPCs
  <2>3. \A b \in Attempts \ {a} : Untouched(b)
    BY <1>2 DEF Untouched, answers
  <2>4. pc'[a] = "tool"
    BY <1>2
  <2>5. Scoped(a)'
    BY <1>2, <2>1, <2>2, <2>4 DEF Scoped, world
  <2>6. SaidOnce(a)'
    BY <1>2, <2>4 DEF Decided, Kept, SaidOnce, Waiting, GuardPCs, answers
  <2>7. a \in Resumers => Taken(a)' /\ Unspent(a)'
    BY <1>2, <2>4 DEF Decided, Kept, Taken, Unspent, AfterSendPCs, GuardPCs, answers
  <2>8. a \in Resumers => Dated(a)'
    BY <1>2, <2>1, <2>2, <2>4 DEF Decided, Kept, Dated, FenceHolds, world
  <2>9. write'[a].generation <= catalog'.generation
    BY <1>2 DEF Decided, Kept, world
  <2> QED
    BY <1>2, <2>3, <2>5, <2>6, <2>7, <2>8, <2>9, OneAttemptSameRow DEF Kept
<1> QED
  BY <1>1, <1>2 DEF BeginDrive

LEMMA TerminalizeDecided ==
  ASSUME IInv, Decided, NEW r \in Resumers, NEW settle \in Settles,
         NEW to \in {"guardExpiry", "throw"}, Terminalize(r, settle, to),
         settle.status \in {"failed", "expired"},
         pc[r] \in GuardPCs
  PROVE  Decided'
<1> USE AttemptFacts DEF IInv, TypeOK, answers, call
<1>0. r \in Attempts /\ r \notin sent /\ pc[r] \notin {"idle", "kind", "awaitExpiry"}
  BY DEF Consistent, SentByPC, GuardPCs
<1>1. UNCHANGED <<row, world>> /\ \A b \in Attempts \ {r} : Untouched(b)
  BY <1>0 DEF Terminalize, Untouched
<1>2. /\ UNCHANGED <<expiry[r], outcome[r], applied[r], decision[r], consumed[r], found[r], seen[r], sent>>
      /\ UNCHANGED <<row, catalog, permitted>>
  BY DEF Terminalize, world
<1>3. \/ /\ latch[r] \notin {"none", "free"} /\ pc'[r] = "awaitExpiry"
         /\ latch'[r] = latch[r] /\ write'[r] = write[r]
      \/ /\ latch[r] \in {"none", "free"} /\ pc'[r] = "settling"
         /\ latch'[r] # "free" /\ (latch'[r] = "none" => latch[r] = "none")
         /\ \E by \in {"fenced", "put", "claimed"} : write'[r] = Issue(by, settle, 0, to)
  <2>1. CASE latch[r] = "none"
    BY <1>0, <2>1 DEF Terminalize
  <2>2. CASE latch[r] = "free"
    BY <1>0, <2>2 DEF Terminalize
  <2>3. CASE latch[r] \notin {"none", "free"}
    BY <1>0, <2>3 DEF Terminalize
  <2> QED
    BY <2>1, <2>2, <2>3
<1>4. 0 <= catalog.generation
  BY BoundsAssumption DEF Generations
<1>5. Scoped(r)' /\ Dated(r)' /\ Unspent(r)' /\ write'[r].generation <= catalog.generation
  BY <1>0, <1>2, <1>3, <1>4
     DEF Decided, Kept, Scoped, Dated, Unspent, FenceHolds, BeforeSendPCs, Issue
<1>6. SaidOnce(r)'
  <2>1. latch[r] \in {"none", "free"} => expiry[r] = NoAnswer
    BY <1>0 DEF Decided, Kept, SaidOnce, GuardPCs
  <2>2. outcome[r] = NoAnswer
    BY <1>0 DEF Decided, Kept, SaidOnce, Waiting
  <2>3. CASE pc'[r] = "awaitExpiry"
    BY <1>0, <1>2, <1>3, <2>2, <2>3 DEF Decided, Kept, SaidOnce, Waiting, GuardPCs
  <2>4. CASE pc'[r] = "settling"
    BY <1>0, <1>2, <1>3, <2>1, <2>2, <2>4 DEF Decided, Kept, SaidOnce, Waiting, GuardPCs, Issue
  <2> QED
    BY <1>3, <2>3, <2>4
<1>7. Taken(r)'
  BY <1>0, <1>2, <1>3 DEF Decided, Kept, Taken, AfterSendPCs, Issue
<1> QED
  BY <1>0, <1>1, <1>2, <1>5, <1>6, <1>7, OneAttemptSameRow DEF Kept

\* An answer of the guard is of an attempt that the body is closed to.
LEMMA GuardAnswersDecided ==
  ASSUME IInv, Decided, NEW a \in Attempts, NEW answer, GuardAnswers(a, answer),
         UNCHANGED <<row, world, latch, expiry, call>>,
         a \notin sent, latch[a] # "free",
         \A b \in Attempts \ {a} : write'[b] = write[b],
         \/ write'[a] = write[a] /\ write[a].to = "nobody"
         \/ write'[a] = [write[a] EXCEPT !.to = "nobody"] /\ write[a] \in IssuedWrites
  PROVE  Decided'
<1> USE DEF IInv, TypeOK, answers, call
<1>1. \A b \in Attempts \ {a} : Untouched(b)
  BY DEF GuardAnswers, Untouched
<1>2. /\ pc'[a] = "done"
      /\ UNCHANGED <<expiry[a], decision[a], consumed[a], found[a], seen[a], latch[a], sent>>
      /\ UNCHANGED <<row, catalog, permitted>>
  BY DEF GuardAnswers, world
<1>3. /\ write'[a].to = "nobody"
      /\ write'[a].generation = write[a].generation
      /\ write'[a].state = write[a].state /\ write'[a].settle = write[a].settle
  BY DEF IssuedWrites
<1>4. Scoped(a)' /\ (a \in Resumers => Dated(a)' /\ Unspent(a)') /\ write'[a].generation <= catalog.generation
  BY <1>2, <1>3 DEF Decided, Kept, Scoped, Dated, Unspent, FenceHolds, BeforeSendPCs
<1>5. SaidOnce(a)'
  BY <1>2, <1>3 DEF Decided, Kept, SaidOnce, Waiting, GuardPCs
<1>6. a \in Resumers => Taken(a)'
  BY <1>2, <1>3 DEF Decided, Kept, Taken, AfterSendPCs
<1> QED
  BY <1>1, <1>2, <1>4, <1>5, <1>6, OneAttemptSameRow DEF Kept

LEMMA DeliverDecided ==
  ASSUME IInv, Decided, NEW a \in Attempts, NEW answer, Deliver(a, answer),
         write[a].to # "nobody"
  PROVE  Decided'
<1> USE DEF IInv, TypeOK
<1>0. /\ write[a] \in IssuedWrites /\ write[a].state # "none"
      /\ latch[a] # "free" /\ pc[a] \notin {"idle", "kind"}
  <2>1. write[a] \in IssuedWrites
    BY WriteFields
  <2>2. write[a].state # "none"
    BY <2>1 DEF IssuedWrites
  <2>3. latch[a] # "free"
    BY <2>2 DEF Consistent, WritesAreTrue
  <2>4. pc[a] # "kind"
    BY <2>2 DEF Consistent, OneWriter, Engaged, Phases
  <2>5. pc[a] # "idle"
    BY <2>2 DEF Consistent, Phases
  <2> QED
    BY <2>1, <2>2, <2>3, <2>4, <2>5
<1>1. /\ write'[a] = [write[a] EXCEPT !.to = "nobody"]
      /\ \A b \in Attempts \ {a} : write'[b] = write[b]
      /\ UNCHANGED <<row, world, latch, call>>
  BY DEF Deliver
<1>2. /\ write'[a].to = "nobody"
      /\ write'[a].generation = write[a].generation
      /\ write'[a].state = write[a].state /\ write'[a].settle = write[a].settle
  BY <1>0, <1>1 DEF IssuedWrites
<1>3. CASE write[a].to = "guardExpiry" /\ latch[a] = "timer"
  <2>1. expiry' = [expiry EXCEPT ![a] = answer] /\ UNCHANGED <<outcome, applied, pc>>
    BY <1>3 DEF Deliver
  <2>2. \A b \in Attempts \ {a} : Untouched(b)
    BY <1>1, <2>1 DEF Untouched, call
  <2>3. /\ UNCHANGED <<pc[a], outcome[a], applied[a], decision[a], consumed[a], found[a], seen[a], latch[a], sent>>
        /\ UNCHANGED <<row, catalog, permitted>>
    BY <1>1, <2>1 DEF call, world
  <2>4. Scoped(a)' /\ (a \in Resumers => Dated(a)' /\ Unspent(a)') /\ write'[a].generation <= catalog.generation
    BY <1>2, <2>3 DEF Decided, Kept, Scoped, Dated, Unspent, FenceHolds
  <2>5. SaidOnce(a)'
    BY <1>0, <1>2, <1>3, <2>1, <2>3 DEF Decided, Kept, SaidOnce
  <2>6. a \in Resumers => Taken(a)'
    BY <1>2, <2>3 DEF Decided, Kept, Taken
  <2> QED
    BY <1>1, <2>2, <2>3, <2>4, <2>5, <2>6, OneAttemptSameRow DEF Kept
<1>4. CASE write[a].to = "outcome"
  <2>1. /\ outcome' = [outcome EXCEPT ![a] = answer] /\ UNCHANGED <<expiry, applied>>
        /\ pc' = [pc EXCEPT ![a] = IF pc[a] = "settling" THEN "done" ELSE pc[a]]
    BY <1>4 DEF Deliver
  <2>2. \A b \in Attempts \ {a} : Untouched(b)
    BY <1>1, <2>1 DEF Untouched, call
  <2>3. /\ UNCHANGED <<expiry[a], applied[a], decision[a], consumed[a], found[a], seen[a], latch[a], sent>>
        /\ UNCHANGED <<row, catalog, permitted>>
        /\ pc'[a] = pc[a] \/ pc'[a] = "done"
    BY <1>1, <2>1 DEF call, world
  <2>4. Scoped(a)' /\ (a \in Resumers => Dated(a)' /\ Unspent(a)') /\ write'[a].generation <= catalog.generation
    BY <1>2, <2>3 DEF Decided, Kept, Scoped, Dated, Unspent, FenceHolds, BeforeSendPCs
  <2>5. SaidOnce(a)'
    BY <1>0, <1>2, <1>4, <2>3 DEF Decided, Kept, SaidOnce, Waiting, GuardPCs
  <2>6. a \in Resumers => Taken(a)'
    BY <1>2, <2>3 DEF Decided, Kept, Taken, AfterSendPCs
  <2> QED
    BY <1>1, <2>2, <2>3, <2>4, <2>5, <2>6, OneAttemptSameRow DEF Kept
<1>5. CASE write[a].to # "outcome" /\ ~(write[a].to = "guardExpiry" /\ latch[a] = "timer")
  <2>1. GuardAnswers(a, answer) /\ UNCHANGED expiry
    BY <1>5 DEF Deliver
  <2>2. write[a].to \in {"guardExpiry", "unknown", "throw"}
    BY <1>0, <1>5 DEF IssuedWrites
  <2>3. a \notin sent
    BY <2>2 DEF Decided, Kept, SaidOnce
  <2> QED
    BY <1>0, <1>1, <2>1, <2>3, GuardAnswersDecided
<1> QED
  BY <1>3, <1>4, <1>5

-----------------------------------------------------------------------------
(* The steps of startDirect() *)

LEMMA StartStepDecided ==
  ASSUME IInv, Decided, StartStep
  PROVE  Decided'
<1> USE AttemptFacts DEF IInv, TypeOK, answers, call
<1>1. CASE StartDirect
  <2>1. UNCHANGED <<row, world>> /\ \A b \in Attempts \ {Start} : Untouched(b)
    BY <1>1 DEF StartDirect, Untouched
  <2>2. /\ pc[Start] = "idle" /\ outcome[Start] = NoAnswer /\ write[Start].to = "nobody"
        /\ Start \notin sent /\ expiry[Start] = NoAnswer
    BY <1>1 DEF StartDirect, Consistent, Phases, SentByPC, Decided, Kept, SaidOnce
  <2>3. /\ UNCHANGED <<write[Start], expiry[Start], seen[Start], found[Start], sent, row, catalog, permitted>>
        /\ \/ pc'[Start] = "creating" /\ outcome'[Start] = outcome[Start]
           \/ pc'[Start] = "done" /\ latch'[Start] = "continuation"
    BY <1>1 DEF StartDirect, world
  <2>4. Kept(Start)'
    BY <2>2, <2>3 DEF Decided, Kept, Scoped, SaidOnce, Waiting, GuardPCs
  <2> QED
    BY <2>1, <2>4, OneAttemptSameRow
<1>2. CASE CreateLands
  <2>1. UNCHANGED <<catalog, permitted>> /\ \A b \in Attempts \ {Start} : Untouched(b)
    BY <1>2 DEF CreateLands, Untouched, world
  <2>2. row'.attempt = Start /\ row'.generation = row.generation
    BY <1>2 DEF CreateLands, Rows
  <2>3. RowOf(Start)
    BY <2>2 DEF RowOf, FenceHolds, Decided
  <2>4. /\ UNCHANGED <<write[Start], expiry[Start], outcome[Start], latch[Start], seen[Start], found[Start], sent>>
        /\ pc'[Start] = "createLanded" /\ pc[Start] = "creating"
    BY <1>2 DEF CreateLands
  <2>5. Kept(Start)'
    BY <2>1, <2>4 DEF Decided, Kept, Scoped, SaidOnce, Waiting, GuardPCs
  <2> QED
    BY <2>1, <2>3, <2>5, OneAttempt
<1>3. CASE CreateRejected \/ ConflictLookup
  <2>1. UNCHANGED <<row, world>> /\ \A b \in Attempts \ {Start} : Untouched(b)
    BY <1>3 DEF CreateRejected, ConflictLookup, Untouched
  <2>2. write[Start].to = "nobody" /\ Start \notin sent
    BY <1>3 DEF CreateRejected, ConflictLookup, Consistent, Phases, SentByPC, UnpersistedPCs
  <2>3. /\ UNCHANGED <<write[Start], expiry[Start], seen[Start], found[Start], sent, row, catalog, permitted>>
        /\ pc'[Start] \in {"conflictLookup", "done"}
        /\ \/ latch'[Start] = latch[Start] /\ outcome'[Start] = outcome[Start]
           \/ latch'[Start] = "continuation"
        /\ pc[Start] \in {"creating", "conflictLookup"}
    BY <1>3 DEF CreateRejected, ConflictLookup, world
  <2>4. latch[Start] # "none"
    BY <2>3 DEF Consistent, Phases, UnpersistedPCs
  <2>5. Kept(Start)'
    BY <2>2, <2>3, <2>4 DEF Decided, Kept, Scoped, SaidOnce, Waiting, GuardPCs
  <2> QED
    BY <2>1, <2>5, OneAttemptSameRow
<1>4. CASE CreateReturns
  <2>1. CASE DriveSettled(Start)
    <3>1. /\ UNCHANGED <<row, world, latch, answers, call>>
          /\ pc' = [pc EXCEPT ![Start] = "done"]
          /\ write' = [write EXCEPT ![Start] = Issue("fenced", Failed("interrupted"), 0, "nobody")]
          /\ pc[Start] = "createLanded"
      BY <1>4, <2>1 DEF CreateReturns
    <3>2. \A b \in Attempts \ {Start} : Untouched(b)
      BY <3>1 DEF Untouched
    <3>3. /\ write'[Start].to = "nobody" /\ write'[Start].generation = 0
          /\ pc'[Start] = "done"
          /\ UNCHANGED <<catalog, permitted, latch[Start], expiry[Start], outcome[Start], seen[Start], found[Start], sent>>
      BY <3>1 DEF Issue, world
    <3>4. 0 <= catalog.generation
      BY BoundsAssumption DEF Generations
    <3>5. Kept(Start)'
      BY <2>1, <3>3, <3>4 DEF Decided, Kept, Scoped, SaidOnce, Waiting, GuardPCs, DriveSettled
    <3> QED
      BY <3>1, <3>2, <3>5, OneAttemptSameRow
  <2>2. CASE ~DriveSettled(Start)
    BY <1>4, <2>2, BeginDriveDecided DEF CreateReturns
  <2> QED
    BY <2>1, <2>2
<1> QED
  BY <1>1, <1>2, <1>3, <1>4 DEF StartStep

-----------------------------------------------------------------------------
(* The steps of resume() *)

\* The claim ties the attempt to the row's generation.
LEMMA ClaimDecided ==
  ASSUME IInv, Decided, NEW r \in Resumers, Claim(r)
  PROVE  Decided'
<1> USE AttemptFacts DEF IInv, TypeOK
<1>0. /\ pc[r] = "idle" /\ row.status # "absent"
      /\ latch[r] = "none" /\ write[r].state = "none" /\ write[r].to = "nobody"
      /\ r \notin sent /\ expiry[r] = NoAnswer /\ row.attempt # r
  BY DEF Claim, Consistent, Phases, SentByPC, Decided, Kept, SaidOnce, Taken
<1>1. /\ UNCHANGED <<catalog, permitted, latch, write, consumed, found, sent, world>>
      /\ \A b \in Attempts \ {r} : decision'[b] = decision[b]
  BY DEF Claim, world
<1>2. PICK namesPending \in BOOLEAN :
       IF Claimable(namesPending)
       THEN /\ row' = [row EXCEPT !.status = "running", !.attempt = r]
            /\ seen' = [seen EXCEPT ![r].claimed = catalog.generation,
                                    ![r].approved = row.generation]
            /\ pc' = [pc EXCEPT ![r] = "kind"]
            /\ UNCHANGED answers
       ELSE /\ GuardAnswers(r, Says("conflict"))
            /\ UNCHANGED <<row, seen, expiry>>
  BY DEF Claim
<1>3. CASE Claimable(namesPending)
  <2>1. /\ row'.attempt = r /\ row'.generation = row.generation
        /\ seen'[r].claimed = catalog.generation /\ seen'[r].approved = row.generation
        /\ \A b \in Attempts \ {r} : seen'[b] = seen[b]
        /\ pc'[r] = "kind" /\ \A b \in Attempts \ {r} : pc'[b] = pc[b]
        /\ UNCHANGED <<expiry, outcome, applied>>
    <3>1. row'.attempt = r /\ row'.generation = row.generation
      <4>1. row' = [row EXCEPT !.status = "running", !.attempt = r]
        BY <1>2, <1>3
      <4>2. row \in Rows
        OBVIOUS
      <4> HIDE DEF IInv, TypeOK
      <4> QED
        BY <4>1, <4>2 DEF Rows
    <3>2. seen'[r].claimed = catalog.generation /\ seen'[r].approved = row.generation
      BY <1>2, <1>3 DEF Sights
    <3> QED
      BY <1>2, <1>3, <3>1, <3>2 DEF answers
  <2>2. \A b \in Attempts \ {r} : Untouched(b)
    BY <1>1, <2>1 DEF Untouched
  <2>3. RowOf(r)
    BY <2>1 DEF RowOf, FenceHolds, Decided
  <2>4. Dated(r)'
    BY <1>0, <1>1, <2>1 DEF Decided, Dated, FenceHolds, BeforeSendPCs, Generations, Rows
  <2>5. Taken(r)' /\ Unspent(r)' /\ Scoped(r)'
    <3>1. applied[r] # "no"
      BY <1>0 DEF Decided, Kept, Unspent
    <3> QED
      BY <1>0, <1>1, <2>1, <3>1 DEF Taken, Unspent, Scoped, AfterSendPCs
  <2>6. SaidOnce(r)'
    BY <1>0, <1>1, <2>1 DEF Decided, Kept, SaidOnce, Waiting, GuardPCs
  <2>7. write'[r].generation <= catalog'.generation
    BY <1>1 DEF Decided, Kept
  <2> QED
    BY <1>1, <2>2, <2>3, <2>4, <2>5, <2>6, <2>7, OneAttempt DEF Kept
<1>4. CASE ~Claimable(namesPending)
  <2>1. GuardAnswers(r, Says("conflict")) /\ UNCHANGED <<row, seen, expiry>>
    BY <1>2, <1>4
  <2>2. /\ pc'[r] = "done" /\ \A b \in Attempts \ {r} : Untouched(b)
        /\ UNCHANGED <<row, catalog, permitted, expiry[r], seen[r], write[r], latch[r], sent, found[r]>>
    BY <1>1, <2>1 DEF GuardAnswers, Untouched
  <2>3. Kept(r)'
    BY <1>0, <2>2
       DEF Decided, Kept, Scoped, SaidOnce, Waiting, GuardPCs, Taken, Dated, Unspent, FenceHolds,
           BeforeSendPCs, AfterSendPCs
  <2> QED
    BY <1>1, <2>1, <2>2, <2>3, OneAttemptSameRow
<1> QED
  BY <1>3, <1>4

\* A read of the guard: refused, or passed on to the next one.
LEMMA GuardDecided ==
  ASSUME IInv, Decided, NEW r \in Resumers, NEW at \in GuardPCs, NEW refusal \in Errors,
         NEW next \in GuardPCs, Guard(r, at, refusal, next),
         next \in {"getScope", "getPolicy"} /\ refusal = "none" =>
           seen[r].claimed = seen[r].approved
  PROVE  Decided'
<1> USE AttemptFacts DEF IInv, TypeOK
<1>1. CASE refusal # "none"
  <2>1. Failed(refusal) \in Settles /\ Failed(refusal).status = "failed"
    BY ValueTypes DEF Failed
  <2> QED
    BY <1>1, <2>1, TerminalizeDecided DEF Guard, Refuse
<1>2. CASE refusal = "none"
  <2>1. /\ pc[r] = at /\ pc' = [pc EXCEPT ![r] = next]
        /\ UNCHANGED <<row, world, latch, write, answers, call>>
    BY <1>2 DEF Guard
  <2>2. \A b \in Attempts \ {r} : Untouched(b)
    BY <2>1 DEF Untouched, answers, call
  <2>3. /\ pc'[r] = next /\ pc[r] = at
        /\ UNCHANGED <<row, catalog, permitted, expiry[r], outcome[r], applied[r], seen[r], write[r], latch[r],
                       sent, found[r], consumed[r], decision[r]>>
    BY <2>1 DEF answers, call, world
  <2>4. r \notin sent
    BY <2>3 DEF Consistent, SentByPC
  <2>5. SaidOnce(r)'
    BY <2>3 DEF Decided, Kept, SaidOnce, Waiting, GuardPCs
  <2>6. Dated(r)'
    BY <1>2, <2>3, <2>4 DEF Decided, Kept, Dated, FenceHolds, GuardPCs, BeforeSendPCs
  <2>7. Taken(r)' /\ Unspent(r)' /\ Scoped(r)' /\ write'[r].generation <= catalog'.generation
    BY <2>3, <2>4 DEF Decided, Kept, Taken, Unspent, Scoped, GuardPCs, AfterSendPCs
  <2> QED
    BY <2>1, <2>2, <2>5, <2>6, <2>7, OneAttemptSameRow DEF Kept
<1> QED
  BY <1>1, <1>2

\* The guard spends no approval of another catalog: a generation that matches
\* the one the row was stored under is the one the claim saw.
LEMMA MatchIsCurrent ==
  ASSUME IInv, Decided, NEW r \in Resumers, pc[r] \in GuardPCs, ~DriveSettled(r),
         GenerationMatches(r)
  PROVE  seen[r].claimed = seen[r].approved
<1> USE AttemptFacts DEF IInv, TypeOK
<1>1. Engaged(r)
  BY DEF DriveSettled, Engaged, GuardPCs
<1>2. FenceHolds(r)
  BY <1>1 DEF Consistent, OneWriter
<1>3. /\ catalog.generation = seen[r].approved
      /\ seen[r].approved <= seen[r].claimed /\ seen[r].claimed <= catalog.generation
  BY <1>2 DEF Decided, Kept, Dated, GenerationMatches
<1>4. seen[r].claimed \in Nat /\ seen[r].approved \in Nat
  BY BoundsAssumption DEF Sights
<1>5. seen[r].claimed <= seen[r].approved
  BY <1>3
<1>6. \A x, y \in Nat : x <= y /\ y <= x => x = y
  OBVIOUS
<1> QED
  BY <1>3, <1>4, <1>5, <1>6

LEMMA GuardStepDecided ==
  ASSUME IInv, Decided, NEW r \in Resumers, GuardStep(r)
  PROVE  Decided'
<1> USE AttemptFacts DEF IInv, TypeOK
<1>1. CASE Claim(r)
  BY <1>1, ClaimDecided
<1>2. CASE KindAnswers(r)
  <2>1. \A b \in Attempts \ {r} : Untouched(b)
    BY <1>2 DEF KindAnswers, Untouched, answers, call
  <2>2. /\ pc[r] = "kind" /\ pc'[r] = "readPause" /\ latch'[r] \in {latch[r], "free"}
        /\ UNCHANGED <<row, world, catalog, permitted, expiry[r], outcome[r], applied[r], seen[r], write[r],
                       sent, found[r], consumed[r], decision[r]>>
    BY <1>2 DEF KindAnswers, answers, call, world
  <2>3. r \notin sent
    BY <2>2 DEF Consistent, SentByPC
  <2>4. Kept(r)'
    BY <2>2, <2>3
       DEF Decided, Kept, Scoped, SaidOnce, Waiting, GuardPCs, Taken, Dated, Unspent, FenceHolds,
           BeforeSendPCs, AfterSendPCs
  <2> QED
    BY <2>1, <2>2, <2>4, OneAttemptSameRow
<1>3. CASE KindTimesOut(r)
  <2>1. \A b \in Attempts \ {r} : Untouched(b)
    BY <1>3 DEF KindTimesOut, Untouched, answers, call
  <2>2. /\ pc[r] = "kind" /\ pc'[r] = "settling"
        /\ write'[r].to = "unknown" /\ write'[r].generation = 0 /\ write'[r].settle.status = "failed"
        /\ UNCHANGED <<row, world, catalog, permitted, expiry[r], outcome[r], applied[r], seen[r], latch[r],
                       sent, found[r], consumed[r], decision[r]>>
    BY <1>3 DEF KindTimesOut, answers, call, world, Issue, Failed
  <2>3. r \notin sent /\ 0 <= catalog.generation
    BY <2>2, BoundsAssumption DEF Consistent, SentByPC, Generations
  <2>4. Kept(r)'
    BY <2>2, <2>3
       DEF Decided, Kept, Scoped, SaidOnce, Waiting, GuardPCs, Taken, Dated, Unspent, FenceHolds,
           BeforeSendPCs, AfterSendPCs
  <2> QED
    BY <2>1, <2>2, <2>4, OneAttemptSameRow
<1>4. CASE PauseAnswers(r)
  BY <1>4, GuardDecided DEF PauseAnswers, GuardPCs, Errors
<1>5. CASE PauseExpired(r)
  <2>1. Says("expired") \in Settles /\ Says("expired").status = "expired"
    BY ValueTypes DEF Says
  <2> QED
    BY <1>5, <2>1, TerminalizeDecided DEF PauseExpired, GuardPCs
<1>6. CASE GuardToolAnswers(r)
  BY <1>6, GuardDecided DEF GuardToolAnswers, GuardPCs, Errors
<1>7. CASE GuardGenerationAnswers(r)
  <2>1. GenerationMatches(r) => seen[r].claimed = seen[r].approved
    BY <1>7, MatchIsCurrent DEF GuardGenerationAnswers, Guard, GuardPCs
  <2> QED
    BY <1>7, <2>1, GuardDecided DEF GuardGenerationAnswers, GuardPCs, Errors
<1>8. CASE GuardScopeAnswers(r)
  <2>1. seen[r].claimed = seen[r].approved
    BY <1>8 DEF GuardScopeAnswers, Guard, Decided, Kept, Dated
  <2> QED
    BY <1>8, <2>1, GuardDecided DEF GuardScopeAnswers, GuardPCs, Errors
<1>9. CASE Handover(r)
  BY <1>9, BeginDriveDecided DEF Handover
<1>10. CASE GuardReadIsLate(r)
  <2>1. \A b \in Attempts \ {r} : Untouched(b)
    BY <1>10 DEF GuardReadIsLate, Untouched, answers, call
  <2>2. /\ pc[r] \in GuardPCs /\ pc'[r] = "awaitExpiry" /\ latch[r] \notin {"none", "free"}
        /\ UNCHANGED <<row, world, catalog, permitted, expiry[r], outcome[r], applied[r], seen[r], latch[r],
                       write[r], sent, found[r], consumed[r], decision[r]>>
    BY <1>10 DEF GuardReadIsLate, DriveSettled, answers, call, world
  <2>3. r \notin sent
    BY <2>2 DEF Consistent, SentByPC
  <2>4. Kept(r)'
    BY <2>2, <2>3
       DEF Decided, Kept, Scoped, SaidOnce, Waiting, GuardPCs, Taken, Dated, Unspent, FenceHolds,
           BeforeSendPCs, AfterSendPCs
  <2> QED
    BY <2>1, <2>2, <2>4, OneAttemptSameRow
<1>11. CASE GuardReadRejected(r)
  <2>1. Failed("internal") \in Settles /\ Failed("internal").status = "failed"
    BY ValueTypes DEF Failed, Errors
  <2> QED
    BY <1>11, <2>1, TerminalizeDecided DEF GuardReadRejected
<1>12. CASE ExpiryAnswers(r)
  <2>1. r \notin sent
    BY <1>12 DEF ExpiryAnswers, Consistent, SentByPC
  <2>2. write[r].to = "nobody" /\ latch[r] # "free"
    BY <1>12 DEF ExpiryAnswers, Decided, Kept, SaidOnce
  <2> QED
    BY <1>12, <2>1, <2>2, GuardAnswersDecided DEF ExpiryAnswers
<1>13. CASE ResumeReturns(r)
  <2>1. \A b \in Attempts \ {r} : Untouched(b)
    BY <1>13 DEF ResumeReturns, Untouched, call
  <2>2. /\ outcome[r] # NoAnswer
        /\ applied'[r] = IF consumed[r] THEN "yes" ELSE "no"
        /\ UNCHANGED <<row, world, catalog, permitted, pc[r], expiry[r], outcome[r], seen[r], latch[r],
                       write[r], sent, found[r], consumed[r], decision[r]>>
    BY <1>13 DEF ResumeReturns, DecisionApplied, call, world
  <2>3. Unspent(r)'
    BY <2>2 DEF Decided, Kept, SaidOnce, Waiting, Taken, Unspent
  <2>4. Scoped(r)' /\ SaidOnce(r)' /\ Taken(r)' /\ Dated(r)' /\ write'[r].generation <= catalog'.generation
    BY <2>2 DEF Decided, Kept, Scoped, SaidOnce, Taken, Dated, FenceHolds
  <2> QED
    BY <2>1, <2>2, <2>3, <2>4, OneAttemptSameRow DEF Kept
<1> QED
  BY <1>1, <1>2, <1>3, <1>4, <1>5, <1>6, <1>7, <1>8, <1>9, <1>10, <1>11, <1>12, <1>13 DEF GuardStep

-----------------------------------------------------------------------------
(* The steps of the call *)

\* A continuation that moves on within runDirect() keeps what its new place asks.
LEMMA MoveDecided ==
  ASSUME IInv, Decided, NEW a \in Attempts,
         \A b \in Attempts \ {a} : Untouched(b),
         UNCHANGED <<row, world, latch, write, expiry, outcome, applied, decision>>,
         UNCHANGED <<seen[a].approved, seen[a].claimed>>,
         pc[a] \in BeforeSendPCs \union AfterSendPCs,
         pc'[a] \in BeforeSendPCs \union AfterSendPCs,
         pc'[a] \in BeforeSendPCs => pc[a] \in BeforeSendPCs,
         a \in sent' => a \in sent \/ pc[a] \in BeforeSendPCs,
         Scoped(a)',
         a \in sent' => latch[a] = "free" \/ a \in sent,
         a \in Resumers => Taken(a)'
  PROVE  Decided'
<1> USE DEF IInv, TypeOK, world
<1>1. SaidOnce(a)'
  <2>1. pc[a] \notin Waiting /\ pc'[a] \notin Waiting
    BY DEF Waiting, BeforeSendPCs, AfterSendPCs, GuardPCs
  <2>2. expiry[a] # NoAnswer => latch[a] # "none"
    BY DEF Decided, Kept, SaidOnce, BeforeSendPCs, AfterSendPCs
  <2>3. latch[a] = "free" => write[a].to = "nobody"
    BY DEF Consistent, WritesAreTrue, Phases
  <2>4. write[a].to \in {"guardExpiry", "unknown", "throw"} => a \notin sent'
    BY <2>3 DEF Decided, Kept, SaidOnce
  <2> QED
    BY <2>1, <2>2, <2>4 DEF Decided, Kept, SaidOnce, Waiting
<1>2. a \in Resumers => Dated(a)'
  BY DEF Decided, Kept, Dated, FenceHolds, BeforeSendPCs, AfterSendPCs
<1>3. a \in Resumers => Unspent(a)'
  BY DEF Decided, Kept, Unspent, BeforeSendPCs, AfterSendPCs
<1>4. write'[a].generation <= catalog'.generation
  BY DEF Decided, Kept
<1> QED
  BY <1>1, <1>2, <1>3, <1>4, OneAttemptSameRow DEF Kept

LEMMA CallStepDecided ==
  ASSUME IInv, Decided, NEW a \in Attempts, CallStep(a)
  PROVE  Decided'
<1> USE DEF IInv, TypeOK, BeforeSendPCs, AfterSendPCs
<1>0. /\ pc[a] \in BeforeSendPCs => a \notin sent
      /\ pc[a] \in AfterSendPCs => a \in sent
      /\ 0 \in 0..MaxGeneration /\ 0 <= catalog.generation
  BY BoundsAssumption DEF Consistent, SentByPC, Generations
<1>1. CASE ToolAnswers(a)
  <2>1. \A b \in Attempts \ {a} : Untouched(b)
    BY <1>1 DEF ToolAnswers, Untouched, answers
  <2>2. /\ pc[a] = "tool" /\ pc'[a] = "scope"
        /\ UNCHANGED <<row, world, latch, write, expiry, outcome, applied, decision, consumed, sent, seen>>
    BY <1>1 DEF ToolAnswers, answers
  <2>3. Scoped(a)' /\ (a \in Resumers => Taken(a)')
    BY <1>0, <2>2 DEF Decided, Kept, Scoped, Taken, world
  <2> QED
    BY <2>1, <2>2, <2>3, MoveDecided
<1>2. CASE ScopeAnswers(a)
  <2>1. \A b \in Attempts \ {a} : Untouched(b)
    BY <1>2 DEF ScopeAnswers, Untouched, answers
  <2>2. /\ pc[a] = "scope" /\ pc'[a] = "policy"
        /\ found'[a] = InScope(a) /\ consumed'[a] = (a \in Resumers)
        /\ UNCHANGED <<row, world, latch, write, expiry, outcome, applied, decision, sent, seen>>
    BY <1>2 DEF ScopeAnswers, answers
  <2>3. Scoped(a)' /\ (a \in Resumers => Taken(a)')
    BY <1>0, <2>2 DEF Decided, Kept, Scoped, Taken, InScope, Permits, world
  <2> QED
    BY <2>1, <2>2, <2>3, MoveDecided
<1>3. CASE PolicyAnswers(a)
  <2>1. \A b \in Attempts \ {a} : Untouched(b)
    BY <1>3 DEF PolicyAnswers, Untouched, answers, call
  <2>2. UNCHANGED <<row, world, latch, write, expiry, outcome, applied, decision, consumed, found, sent, seen>>
    BY <1>3 DEF PolicyAnswers, answers, call
  <2>3. PICK verdict \in Verdicts(a) :
          /\ pc[a] = "policy"
          /\ pc'[a] = CASE ~found[a] \/ verdict = "block" -> "blocked"
                        [] found[a] /\ verdict = "allow" -> "source"
                        [] OTHER -> "gated"
    BY <1>3 DEF PolicyAnswers
  <2>4. a \in Resumers => verdict = IF decision[a] = "approve" THEN "allow" ELSE "block"
    BY <2>3 DEF Verdicts
  <2>5. CASE ~found[a]
    <3>1. pc'[a] = "blocked"
      BY <2>3, <2>5
    <3> QED
      BY <1>0, <2>1, <2>2, <2>3, <3>1, MoveDecided DEF Decided, Kept, Scoped, Taken
  <2>6. CASE found[a] /\ verdict = "allow"
    <3>1. pc'[a] = "source" /\ (a \in Resumers => decision[a] = "approve")
      BY <2>3, <2>4, <2>6
    <3>2. Scoped(a)' /\ (a \in Resumers => Taken(a)')
      BY <1>0, <2>2, <2>3, <2>6, <3>1 DEF Decided, Kept, Scoped, Taken
    <3> QED
      BY <2>1, <2>2, <2>3, <3>1, <3>2, MoveDecided
  <2>7. CASE found[a] /\ verdict = "block"
    <3>1. pc'[a] = "blocked"
      BY <2>3, <2>7
    <3> QED
      BY <1>0, <2>1, <2>2, <2>3, <3>1, MoveDecided DEF Decided, Kept, Scoped, Taken
  <2>8. CASE found[a] /\ verdict \notin {"allow", "block"}
    <3>1. pc'[a] = "gated" /\ a \notin Resumers
      BY <2>3, <2>4, <2>8
    <3> QED
      BY <1>0, <2>1, <2>2, <2>3, <3>1, MoveDecided DEF Decided, Kept, Scoped
  <2> QED
    BY <2>5, <2>6, <2>7, <2>8
<1>4. CASE GateAudited(a)
  <2>1. \A b \in Attempts \ {a} : Untouched(b)
    BY <1>4 DEF GateAudited, Untouched, answers, call
  <2>2. /\ pc[a] = "gated" /\ pc'[a] = "pausing"
        /\ UNCHANGED <<row, world, latch, write, expiry, outcome, applied, decision, consumed, found, sent, seen>>
    BY <1>4 DEF GateAudited, answers, call
  <2>3. a \notin Resumers
    BY <2>2 DEF Decided, Kept, Taken
  <2> QED
    BY <1>0, <2>1, <2>2, <2>3, MoveDecided DEF Decided, Kept, Scoped
<1>5. CASE PauseForApproval(a)
  <2>1. /\ Says("paused") \in Settles /\ PauseGeneration(a) \in 0..MaxGeneration
        /\ PauseGeneration(a) <= catalog.generation
    BY ValueTypes, BoundsAssumption DEF PauseGeneration, Generations
  <2>2. a \notin Resumers
    BY <1>5 DEF PauseForApproval, Decided, Kept, Taken
  <2> QED
    BY <1>5, <2>1, <2>2, SettleDecided DEF PauseForApproval
<1>6. CASE SourceAnswers(a)
  <2>1. /\ seen'[a].approved = seen[a].approved /\ seen'[a].claimed = seen[a].claimed
        /\ seen'[a].scope = seen[a].scope
        /\ \A b \in Attempts \ {a} : seen'[b] = seen[b]
    BY <1>6 DEF SourceAnswers, Sights
  <2>2. \A b \in Attempts \ {a} : Untouched(b)
    BY <1>6, <2>1 DEF SourceAnswers, Untouched, answers
  <2>3. /\ pc[a] = "source" /\ pc'[a] = "handshake"
        /\ UNCHANGED <<row, world, latch, write, expiry, outcome, applied, decision, consumed, found, sent>>
    BY <1>6 DEF SourceAnswers, answers
  <2>4. Scoped(a)' /\ (a \in Resumers => Taken(a)')
    BY <1>0, <2>1, <2>3 DEF Decided, Kept, Scoped, Taken
  <2> QED
    BY <2>1, <2>2, <2>3, <2>4, MoveDecided
<1>7. CASE BeforeSend(a)
  <2>1. \A b \in Attempts \ {a} : Untouched(b)
    BY <1>7 DEF BeforeSend, Untouched, answers
  <2>2. /\ pc[a] = "handshake" /\ pc'[a] = "inflight" /\ latch[a] = "free"
        /\ UNCHANGED <<row, world, latch, write, expiry, outcome, applied, decision, consumed, found, seen>>
        /\ a \in sent'
    BY <1>7 DEF BeforeSend, answers, DeadlineOpen
  <2>3. Scoped(a)' /\ (a \in Resumers => Taken(a)')
    BY <2>2 DEF Decided, Kept, Scoped, Taken
  <2> QED
    BY <2>1, <2>2, <2>3, MoveDecided
<1>8. CASE UpstreamAnswers(a)
  <2>1. \A b \in Attempts \ {a} : Untouched(b)
    BY <1>8 DEF UpstreamAnswers, Untouched, answers, call
  <2>2. /\ pc[a] = "inflight" /\ pc'[a] = "audit"
        /\ UNCHANGED <<row, world, latch, write, expiry, outcome, applied, decision, consumed, found, sent, seen>>
    BY <1>8 DEF UpstreamAnswers, answers, call
  <2>3. Scoped(a)' /\ (a \in Resumers => Taken(a)')
    BY <1>0, <2>2 DEF Decided, Kept, Scoped, Taken
  <2> QED
    BY <2>1, <2>2, <2>3, MoveDecided
<1>9. CASE CallCompletes(a)
  <2>1. Says("completed") \in Settles /\ Says("completed").status # "paused"
    BY ValueTypes DEF Says
  <2> QED
    BY <1>0, <1>9, <2>1, SettleDecided DEF CallCompletes
<1>10. CASE BlockAudited(a) \/ CallLost(a) \/ CallFails(a)
  <2>1. PICK error \in {"policyBlocked", "internal"} :
          Settle(a, Classify(a, error), 0) /\ UNCHANGED call /\ pc[a] \in BeforeSendPCs \union AfterSendPCs
    BY <1>10 DEF BlockAudited, CallLost, CallFails
  <2>2. Classify(a, error) \in Settles
    BY ClassifyType DEF Errors
  <2>3. Classify(a, error).status = "failed"
    BY DEF Classify, Failed
  <2> QED
    BY <1>0, <2>1, <2>2, <2>3, SettleDecided
<1> QED
  BY <1>1, <1>2, <1>3, <1>4, <1>5, <1>6, <1>7, <1>8, <1>9, <1>10 DEF CallStep

-----------------------------------------------------------------------------
(* Timers, and settle writes *)

LEMMA TimerDecided ==
  ASSUME IInv, Decided, NEW a \in Attempts, TimerFires(a)
  PROVE  Decided'
<1> USE DEF IInv, TypeOK
<1>1. /\ latch[a] = "free" /\ latch'[a] = "timer"
      /\ \A b \in Attempts \ {a} : Untouched(b)
      /\ UNCHANGED <<row, world, catalog, permitted, pc[a], expiry[a], applied[a], decision[a], consumed[a],
                     found[a], seen[a], sent>>
  BY DEF TimerFires, Untouched, call, world
<1>2. /\ write[a].state = "none" /\ write[a].to = "nobody" /\ outcome[a] = NoAnswer
      /\ expiry[a] = NoAnswer /\ pc[a] \notin {"idle", "kind", "awaitExpiry"}
  BY <1>1 DEF Consistent, WritesAreTrue, Phases, Decided, Kept, SaidOnce
<1>3. CASE pc[a] \in UnpersistedPCs
  <2>1. write'[a] = write[a] /\ a \notin Resumers /\ pc[a] \notin GuardPCs
    BY <1>1, <1>3, AttemptFacts DEF TimerFires, Consistent, Phases, UnpersistedPCs, GuardPCs
  <2>2. Kept(a)'
    BY <1>1, <1>2, <1>3, <2>1 DEF Decided, Kept, Scoped, SaidOnce, Waiting
  <2> QED
    BY <1>1, <2>2, OneAttemptSameRow
<1>4. CASE pc[a] \notin UnpersistedPCs
  <2> DEFINE to == IF pc[a] \in GuardPCs THEN "guardExpiry" ELSE "outcome"
  <2>1. outcome'[a] = outcome[a] /\ write' = [write EXCEPT ![a] = Issue("fenced", ClassifyExpiry(a), 0, to)]
    BY <1>4 DEF TimerFires
  <2>2. /\ write'[a].to = to /\ write'[a].generation = 0 /\ write'[a].settle.status = "failed"
    BY <2>1 DEF Issue, ClassifyExpiry, Classify, Failed
  <2>3. pc[a] \in GuardPCs => a \notin sent
    BY DEF Consistent, SentByPC
  <2>4. 0 <= catalog.generation
    BY BoundsAssumption DEF Generations
  <2>5. SaidOnce(a)'
    <3>1. CASE pc[a] \in GuardPCs
      BY <1>1, <1>2, <2>1, <2>2, <2>3, <3>1 DEF SaidOnce, Waiting
    <3>2. CASE pc[a] \notin GuardPCs
      BY <1>1, <1>2, <2>1, <2>2, <3>2 DEF SaidOnce, Waiting
    <3> QED
      BY <3>1, <3>2
  <2>6. Scoped(a)' /\ write'[a].generation <= catalog'.generation
    BY <1>1, <2>2, <2>4 DEF Decided, Kept, Scoped
  <2>7. a \in Resumers => Taken(a)' /\ Dated(a)' /\ Unspent(a)'
    BY <1>1, <1>2, <2>2 DEF Decided, Kept, Taken, Dated, Unspent, FenceHolds
  <2> QED
    BY <1>1, <2>5, <2>6, <2>7, OneAttemptSameRow DEF Kept
<1> QED
  BY <1>3, <1>4

\* A settle write that lands ends the run of the row's one owner.
LEMMA WriteLandsDecided ==
  ASSUME IInv, Decided, NEW a \in Attempts, WriteLands(a)
  PROVE  Decided'
<1> USE DEF IInv, TypeOK
<1>1. /\ write[a].state = "pending" /\ FenceHolds(a)
      /\ write[a] \in IssuedWrites
      /\ UNCHANGED <<world, catalog, permitted, pc, latch, expiry, outcome, applied, decision, consumed, found,
                     sent, seen>>
  <2>1. write[a].state = "pending" /\ FenceHolds(a)
    BY DEF WriteLands, Consistent, OneWriter
  <2>2. write[a] \in IssuedWrites
    BY <2>1, WriteFields
  <2> QED
    BY <2>1, <2>2 DEF WriteLands, answers, call, world
<1>2. /\ row' = Settled(write[a].settle, write[a].generation)
      /\ \A b \in Attempts \ {a} : write'[b] = write[b]
      /\ \E state \in {"fenced", "written"} : write'[a] = [write[a] EXCEPT !.state = state]
  BY <1>1 DEF WriteLands, FenceHolds
<1>3. /\ row'.attempt = row.attempt /\ row'.status # "running"
      /\ row'.generation = write[a].generation
  BY <1>1, <1>2 DEF Settled, Rows, IssuedWrites, Settles
<1>4. RowOf(a) /\ \A b \in Attempts \ {a} : Untouched(b)
  BY <1>1, <1>2, <1>3 DEF RowOf, FenceHolds, Decided, Kept, Untouched
<1>5. /\ write'[a].to = write[a].to /\ write'[a].generation = write[a].generation
      /\ write'[a].settle = write[a].settle
  BY <1>1, <1>2 DEF IssuedWrites
<1>6. Scoped(a)' /\ SaidOnce(a)' /\ write'[a].generation <= catalog'.generation
  BY <1>1, <1>5 DEF Decided, Kept, Scoped, SaidOnce
<1>7. a \in Resumers => Taken(a)' /\ Dated(a)' /\ Unspent(a)'
  BY <1>1, <1>3, <1>5 DEF Decided, Kept, Taken, Dated, Unspent, FenceHolds
<1> QED
  BY <1>1, <1>4, <1>6, <1>7, OneAttempt DEF Kept

LEMMA WriteRejectedDecided ==
  ASSUME IInv, Decided, NEW a \in Attempts, WriteRejected(a)
  PROVE  Decided'
<1> USE DEF IInv, TypeOK
<1>1. /\ write[a].state = "pending"
      /\ UNCHANGED <<row, world, catalog, permitted, pc, latch, expiry, outcome, applied, decision, consumed,
                     found, sent, seen>>
      /\ \A b \in Attempts \ {a} : write'[b] = write[b]
  BY DEF WriteRejected, answers, call, world
<1>2. write[a] \in IssuedWrites
  BY <1>1, WriteFields
<1>3. /\ \/ write'[a].to = write[a].to
         \/ write[a].to # "nobody" /\ write'[a].to = "throw" /\ a \notin sent
      /\ write'[a].generation \in {0, write[a].generation}
      /\ \/ write'[a].settle = write[a].settle \/ write'[a].settle.status = "failed"
  <2>1. CASE write[a].by = "put" /\ write[a].settle.status = "expired"
    <3>1. write'[a] = Issue("put", Failed("internal"), 0, IF write[a].to = "nobody" THEN "nobody" ELSE "throw")
      BY <2>1 DEF WriteRejected
    <3>2. a \notin sent
      BY <1>1, <2>1 DEF Consistent, WritesAreTrue
    <3> QED
      BY <3>1, <3>2 DEF Issue, Failed
  <2>2. CASE write[a].by = "put" /\ write[a].settle.status = "failed" /\ write[a].to = "throw"
    <3>1. write'[a] = Issue("claimed", Failed("internal"), 0, "throw")
      BY <2>2 DEF WriteRejected
    <3> QED
      BY <2>2, <3>1 DEF Issue, Failed
  <2>3. CASE /\ ~(write[a].by = "put" /\ write[a].settle.status = "expired")
             /\ ~(write[a].by = "put" /\ write[a].settle.status = "failed" /\ write[a].to = "throw")
    <3>1. write'[a] = [write[a] EXCEPT !.state = "failed"]
      BY <2>3 DEF WriteRejected
    <3> QED
      BY <1>2, <3>1 DEF IssuedWrites
  <2> QED
    BY <2>1, <2>2, <2>3
<1>4. \A b \in Attempts \ {a} : Untouched(b)
  BY <1>1 DEF Untouched
<1>5. 0 <= catalog.generation
  BY BoundsAssumption DEF Generations
<1>6. SaidOnce(a)'
  BY <1>1, <1>3 DEF Decided, Kept, SaidOnce
<1>7. Scoped(a)' /\ write'[a].generation <= catalog'.generation
  BY <1>1, <1>3, <1>5 DEF Decided, Kept, Scoped
<1>8. a \in Resumers => Taken(a)' /\ Dated(a)' /\ Unspent(a)'
  BY <1>1, <1>3 DEF Decided, Kept, Taken, Dated, Unspent, FenceHolds
<1> QED
  BY <1>1, <1>4, <1>6, <1>7, <1>8, OneAttemptSameRow DEF Kept

-----------------------------------------------------------------------------
(* The world around *)

LEMMA WorldStepDecided ==
  ASSUME IInv, Decided, WorldStep
  PROVE  Decided'
<1> USE DEF IInv, TypeOK, world, answers, call
<1>1. CASE ProvisionSource
  <2>1. /\ catalog'.generation = catalog.generation + 1
        /\ UNCHANGED <<row, permitted, pc, latch, write, answers, call>>
    BY <1>1 DEF ProvisionSource
  <2>2. \A n \in 0..MaxGeneration : n <= catalog.generation => n <= catalog'.generation
    BY <2>1, BoundsAssumption DEF Generations
  <2>3. /\ row.generation \in 0..MaxGeneration
        /\ \A a \in Attempts : write[a].generation \in 0..MaxGeneration /\ seen[a].claimed \in 0..MaxGeneration
    BY BoundsAssumption DEF Rows, Writes, IssuedWrites, NoWrite, Sights
  <2> QED
    BY <2>1, <2>2, <2>3 DEF Decided, Kept, Taken, Dated, Unspent, Scoped, SaidOnce, FenceHolds
<1>2. CASE InvalidatePaused
  <2>1. /\ row'.attempt = row.attempt /\ row'.status = "failed" /\ row'.generation = 0
        /\ UNCHANGED <<catalog, permitted, pc, latch, write, answers, call>>
    BY <1>2 DEF InvalidatePaused, Settled, Rows, Failed
  <2>2. 0 <= catalog.generation
    BY BoundsAssumption DEF Generations
  <2> QED
    BY <2>1, <2>2 DEF Decided, Kept, Taken, Dated, Unspent, Scoped, SaidOnce, FenceHolds
<1>3. CASE RevokeScope
  BY <1>3 DEF RevokeScope, Decided, Kept, Taken, Dated, Unspent, Scoped, SaidOnce, FenceHolds
<1>4. CASE DamagePause
  <2>1. /\ row'.attempt = row.attempt /\ row'.status = row.status /\ row'.generation = row.generation
        /\ UNCHANGED <<catalog, permitted, pc, latch, write, answers, call>>
    BY <1>4 DEF DamagePause, Rows
  <2> QED
    BY <2>1 DEF Decided, Kept, Taken, Dated, Unspent, Scoped, SaidOnce, FenceHolds
<1>5. CASE Crash
  <2>1. UNCHANGED <<row, catalog, permitted, answers, call>>
    BY <1>5 DEF Crash
  <2>2. ASSUME NEW a \in Attempts PROVE Kept(a)'
    <3>1. /\ pc'[a] \in {pc[a], "dead"} /\ (pc'[a] = pc[a] => pc[a] \in {"idle", "done", "dead"})
          /\ latch'[a] = "none"
      BY <1>5 DEF Crash
    <3>2. /\ write'[a].to = "nobody" /\ write'[a].generation = write[a].generation
          /\ write'[a].settle = write[a].settle /\ (write[a].state = "none" => write'[a].state = "none")
      <4>1. /\ write'[a] = [write[a] EXCEPT
                 !.state = IF write[a].state = "pending" THEN "failed" ELSE write[a].state,
                 !.to = "nobody"]
            /\ write[a] \in Writes
        BY <1>5 DEF Crash
      <4>2. CASE write[a] \in IssuedWrites
        BY <4>1, <4>2 DEF IssuedWrites
      <4>3. CASE write[a] = NoWrite
        BY <4>1, <4>3 DEF NoWrite
      <4> QED
        BY <4>1, <4>2, <4>3 DEF Writes
    <3>3. Scoped(a)' /\ write'[a].generation <= catalog'.generation
      BY <2>1, <3>1, <3>2 DEF Decided, Kept, Scoped
    <3>4. SaidOnce(a)'
      BY <2>1, <3>1, <3>2 DEF Decided, Kept, SaidOnce, Waiting, GuardPCs
    <3>5. a \in Resumers => Taken(a)' /\ Dated(a)' /\ Unspent(a)'
      BY <2>1, <3>1, <3>2 DEF Decided, Kept, Taken, Dated, Unspent, FenceHolds, AfterSendPCs, BeforeSendPCs
    <3> QED
      BY <3>3, <3>4, <3>5 DEF Kept
  <2> QED
    BY <2>1, <2>2 DEF Decided
<1>6. CASE Restart
  BY <1>6 DEF Restart, Decided, Kept, Taken, Dated, Unspent, Scoped, SaidOnce, FenceHolds
<1>7. CASE Sweep
  <2>1. /\ row'.attempt = row.attempt
        /\ \/ row' = row
           \/ row'.status # "running" /\ row'.generation = 0
           \/ row'.status # "running" /\ row'.generation = row.generation
        /\ UNCHANGED <<catalog, permitted, pc, latch, write, answers, call>>
    BY <1>7 DEF Sweep, Swept, Rows
  <2>2. 0 <= catalog.generation
    BY BoundsAssumption DEF Generations
  <2> QED
    BY <2>1, <2>2 DEF Decided, Kept, Taken, Dated, Unspent, Scoped, SaidOnce, FenceHolds
<1> QED
  BY <1>1, <1>2, <1>3, <1>4, <1>5, <1>6, <1>7 DEF WorldStep

-----------------------------------------------------------------------------
(* What an operator's decision is worth *)

LEMMA DecidedInit == Init => Decided
<1> SUFFICES ASSUME Init PROVE Decided
  OBVIOUS
<1>1. row.generation <= catalog.generation
  <2>1. row.generation = 0 /\ catalog.generation = 1
    BY DEF Init
  <2> QED
    BY <2>1
<1>2. ASSUME NEW a \in Attempts PROVE Kept(a)
  <2>1. /\ pc[a] = "idle" /\ latch[a] = "none" /\ write[a] = NoWrite /\ expiry[a] = NoAnswer
        /\ outcome[a] = NoAnswer /\ applied[a] = "unread" /\ a \notin sent
        /\ seen[a].claimed = 0 /\ seen[a].approved = 0
        /\ row.attempt = Nobody /\ row.status = "absent" /\ catalog.generation = 1
    BY <1>2 DEF Init
  <2>2. a # Nobody
    BY AttemptFacts
  <2> QED
    BY <2>1, <2>2 DEF Kept, Taken, Dated, Unspent, Scoped, SaidOnce, FenceHolds, NoWrite, BeforeSendPCs,
                      AfterSendPCs
<1> QED
  BY <1>1, <1>2 DEF Decided

LEMMA DecidedKept == IInv /\ Decided /\ [Next]_vars => Decided'
<1> SUFFICES ASSUME IInv, Decided, [Next]_vars PROVE Decided'
  OBVIOUS
<1>1. ASSUME NEW a \in Attempts, SettleStep(a) PROVE Decided'
  BY <1>1, TimerDecided, WriteLandsDecided, WriteRejectedDecided, DeliverDecided
     DEF SettleStep, WriteReturns, SettleTimesOut
<1>2. CASE UNCHANGED vars
  BY <1>2 DEF vars, world, answers, call, Decided, Kept, Taken, Dated, Unspent, Scoped, SaidOnce, FenceHolds
<1> QED
  BY StartStepDecided, GuardStepDecided, CallStepDecided, WorldStepDecided, <1>1, <1>2 DEF Next

LEMMA DecidedAlways == Spec => []Decided
BY Invariance, DecidedInit, DecidedKept, PTL DEF Spec

\* takeDecision: a resumed call reaches the upstream only with its operator's
\* approval in hand, taken by that very call.
THEOREM OnlyApprovedHolds == Spec => []OnlyApprovedCallsSent
<1>1. TypeOK /\ Decided => OnlyApprovedCallsSent
  BY DEF TypeOK, Decided, Kept, Taken, OnlyApprovedCallsSent, Attempts
<1> QED
  BY <1>1, TypeCorrect, DecidedAlways, PTL

\* The guard of resume(): a call is let through only if no provision came between its
\* pause and its claim, and its drive began under a grant that stood.  A provision after
\* the guard's own read is beyond this statement.
THEOREM AuthorityHolds == Spec => []AuthorityIsRevalidated
<1>1. TypeOK /\ Decided => AuthorityIsRevalidated
  BY DEF TypeOK, Decided, Kept, Dated, Scoped, AuthorityIsRevalidated, NothingSpentAcrossCatalogs,
         NothingSentOutOfScope, Attempts
<1> QED
  BY <1>1, TypeCorrect, DecidedAlways, PTL

\* decisionApplied = false: the operator who reads it knows that this decision let
\* nothing through and never will.
THEOREM NotAppliedHolds == Spec => []NotAppliedNeverSent
<1>1. Decided => NotAppliedNeverSent
  BY AttemptFacts DEF Decided, Kept, Unspent, NotAppliedNeverSent
<1> QED
  BY <1>1, DecidedAlways, PTL

-----------------------------------------------------------------------------
(* The promise of GatedCall *)

\* Few steps touch what the abstract call is read off.
LEMMA QuietSteps ==
  ASSUME [Next]_vars
  PROVE  \/ UNCHANGED <<row, decision, sent>>
         \/ CreateLands
         \/ \E r \in Resumers : Claim(r)
         \/ \E a \in Attempts : WriteLands(a) \/ BeforeSend(a)
         \/ InvalidatePaused \/ DamagePause \/ Sweep
<1> USE DEF answers, call
<1>1. CASE StartStep
  BY <1>1 DEF StartStep, StartDirect, CreateRejected, ConflictLookup, CreateReturns, BeginDrive, Settle
<1>2. ASSUME NEW r \in Resumers, GuardStep(r)
      PROVE  UNCHANGED <<row, decision, sent>> \/ Claim(r)
  BY <1>2 DEF GuardStep, KindAnswers, KindTimesOut, PauseAnswers, PauseExpired, GuardToolAnswers,
              GuardGenerationAnswers, GuardScopeAnswers, Handover, GuardReadIsLate, GuardReadRejected,
              ExpiryAnswers, ResumeReturns, Guard, Refuse, Terminalize, BeginDrive, Settle
<1>3. ASSUME NEW a \in Attempts, CallStep(a)
      PROVE  UNCHANGED <<row, decision, sent>> \/ BeforeSend(a)
  BY <1>3 DEF CallStep, ToolAnswers, ScopeAnswers, PolicyAnswers, BlockAudited, GateAudited,
              PauseForApproval, SourceAnswers, UpstreamAnswers, CallCompletes, CallLost, CallFails, Settle
<1>4. ASSUME NEW a \in Attempts, SettleStep(a)
      PROVE  UNCHANGED <<row, decision, sent>> \/ WriteLands(a)
  BY <1>4 DEF SettleStep, TimerFires, WriteRejected, WriteReturns, SettleTimesOut, Deliver
<1>5. CASE WorldStep
  BY <1>5 DEF WorldStep, ProvisionSource, RevokeScope, Crash, Restart
<1>6. CASE UNCHANGED vars
  BY <1>6 DEF vars
<1> QED
  BY <1>1, <1>2, <1>3, <1>4, <1>5, <1>6 DEF Next

\* The outcome promise of an attempt resolves once.
LEMMA OutcomeOnce ==
  ASSUME IInv, Decided, [Next]_vars, NEW a \in Attempts
  PROVE  outcome'[a] = outcome[a] \/ outcome[a] = NoAnswer
<1> USE AttemptFacts DEF IInv, TypeOK, answers, call
<1>1. CASE StartStep
  <2>1. pc[Start] = "idle" => outcome[Start] = NoAnswer
    BY DEF Consistent, Phases
  <2>2. latch[Start] = "free" => outcome[Start] = NoAnswer
    BY DEF Decided, Kept, SaidOnce
  <2> QED
    BY <1>1, <2>1, <2>2 DEF StartStep, StartDirect, CreateLands, CreateRejected, ConflictLookup,
                            CreateReturns, BeginDrive, Settle
<1>2. ASSUME NEW r \in Resumers, GuardStep(r)
      PROVE  outcome'[a] = outcome[a] \/ outcome[a] = NoAnswer
  <2>1. pc[r] \in {"idle", "awaitExpiry"} \union GuardPCs => outcome[r] = NoAnswer
    BY DEF Decided, Kept, SaidOnce, Waiting
  <2>2. CASE Claim(r) \/ ExpiryAnswers(r)
    BY <2>1, <2>2 DEF Claim, ExpiryAnswers, GuardAnswers
  <2>3. CASE ~(Claim(r) \/ ExpiryAnswers(r))
    BY <1>2, <2>3 DEF GuardStep, KindAnswers, KindTimesOut, PauseAnswers, PauseExpired, GuardToolAnswers,
              GuardGenerationAnswers, GuardScopeAnswers, Handover, GuardReadIsLate, GuardReadRejected,
              ResumeReturns, Guard, Refuse, Terminalize, BeginDrive, Settle
  <2> QED
    BY <2>2, <2>3
<1>3. ASSUME NEW b \in Attempts, CallStep(b)
      PROVE  UNCHANGED outcome
  BY <1>3 DEF CallStep, ToolAnswers, ScopeAnswers, PolicyAnswers, BlockAudited, GateAudited, BeforeSend,
              PauseForApproval, SourceAnswers, UpstreamAnswers, CallCompletes, CallLost, CallFails, Settle
<1>4. ASSUME NEW b \in Attempts, SettleStep(b)
      PROVE  outcome'[a] = outcome[a] \/ outcome[a] = NoAnswer
  <2>1. latch[b] = "free" \/ write[b].to # "nobody" => outcome[b] = NoAnswer
    BY DEF Decided, Kept, SaidOnce
  <2>2. CASE TimerFires(b) \/ WriteLands(b) \/ WriteRejected(b)
    BY <2>1, <2>2 DEF TimerFires, WriteLands, WriteRejected
  <2>3. ASSUME NEW answer, Deliver(b, answer), write[b].to # "nobody"
        PROVE  outcome'[a] = outcome[a] \/ outcome[a] = NoAnswer
    BY <2>1, <2>3 DEF Deliver, GuardAnswers
  <2> QED
    BY <1>4, <2>2, <2>3 DEF SettleStep, WriteReturns, SettleTimesOut
<1>5. CASE WorldStep
  BY <1>5 DEF WorldStep, ProvisionSource, InvalidatePaused, RevokeScope, DamagePause, Crash, Restart, Sweep
<1>6. CASE UNCHANGED vars
  BY <1>6 DEF vars
<1> QED
  BY <1>1, <1>2, <1>3, <1>4, <1>5, <1>6 DEF Next

\* Nothing that was said is taken back.
LEMMA ToldGrows ==
  ASSUME IInv, Decided, [Next]_vars
  PROVE  Told \subseteq Told'
<1>1. Commits(row) \subseteq Commits(row)'
  <2>1. CASE row.status \in Terminal
    BY <2>1, TerminalRowStays
  <2>2. CASE row.status \notin Terminal
    BY <2>2 DEF Commits, Terminal
  <2> QED
    BY <2>1, <2>2
<1>2. ASSUME NEW a \in Attempts PROVE Commits(outcome[a]) \subseteq Commits(outcome[a])'
  <2>1. CASE outcome'[a] = outcome[a]
    BY <2>1 DEF Commits
  <2>2. CASE outcome[a] = NoAnswer
    BY <2>2 DEF Commits, NoAnswer
  <2> QED
    BY <2>1, <2>2, OutcomeOnce
<1> QED
  BY <1>1, <1>2 DEF Told

\* The upstream is reached once, and behind an open or a granted gate.
LEMMA SendStep ==
  ASSUME IInv, Decided, [Next]_vars, sent' # sent
  PROVE  /\ sent = {} /\ sent' # {}
         /\ Gate \in {"open", "granted"} /\ Gate' = Gate /\ Told' = Told
<1> USE AttemptFacts DEF IInv, TypeOK
<1>1. PICK a \in Attempts : BeforeSend(a)
  BY QuietSteps DEF CreateLands, Claim, WriteLands, InvalidatePaused, DamagePause, Sweep, call
<1>2. FenceHolds(a) /\ a \notin sent
  BY <1>1 DEF BeforeSend, DeadlineOpen, Consistent, OneWriter, Engaged, SentByPC, BeforeSendPCs
<1>3. sent = {}
  BY <1>2 DEF Consistent, SentByOwner, FenceHolds, Terminal
<1>4. a \in Resumers => decision[a] = "approve"
  BY <1>1 DEF BeforeSend, Decided, Kept, Taken
<1>5. Gate \in {"open", "granted"}
  BY <1>2, <1>4 DEF Gate, FenceHolds, Terminal
<1>6. UNCHANGED <<row, outcome, decision>>
  BY <1>1 DEF BeforeSend, answers
<1>7. Gate' = Gate /\ Told' = Told
  BY <1>6 DEF Gate, Told, Commits
<1> QED
  BY <1>1, <1>3, <1>5, <1>7 DEF BeforeSend

\* A settle write of an open call asks the operator only if the call was not
\* written, and closes the gate otherwise.
LEMMA WriteLandsGate ==
  ASSUME IInv, Decided, NEW a \in Attempts, WriteLands(a)
  PROVE  \/ Gate' = "closed"
         \/ Gate = "open" /\ Gate' = "waiting" /\ sent = {} /\ Told' = Told
<1> USE AttemptFacts DEF IInv, TypeOK
<1>1. /\ write[a].state = "pending" /\ FenceHolds(a)
      /\ write[a] \in IssuedWrites
      /\ UNCHANGED outcome
  <2>1. write[a].state = "pending" /\ FenceHolds(a)
    BY DEF WriteLands, Consistent, OneWriter
  <2>2. write[a] \in IssuedWrites
    BY <2>1, WriteFields
  <2> QED
    BY <2>1, <2>2 DEF WriteLands, answers
<1>2. row' = Settled(write[a].settle, write[a].generation)
  BY <1>1 DEF WriteLands, FenceHolds
<1>3. row'.status = write[a].settle.status /\ row'.status \in {"completed", "failed", "expired", "paused"}
  <2>1. row'.status = write[a].settle.status
    BY <1>2 DEF Settled, Rows
  <2>2. write[a].settle \in Settles
    BY <1>1 DEF IssuedWrites
  <2>3. write[a].settle.status \in {"completed", "failed", "expired", "paused"}
    BY <2>2 DEF Settles
  <2> QED
    BY <2>1, <2>3
<1>4. CASE row'.status = "paused"
  <2>1. a = Start
    <3>1. a \in Resumers => Taken(a)
      BY DEF Decided, Kept
    <3>2. a \in Resumers => write[a].settle.status # "paused"
      BY <1>1, <3>1 DEF Taken
    <3> QED
      BY <1>3, <1>4, <3>2 DEF Attempts
  <2>2. a \notin sent
    BY <1>1, <1>3, <1>4 DEF Consistent, WritesAreTrue
  <2>3. sent = {}
    BY <1>1, <2>2 DEF Consistent, SentByOwner, FenceHolds, Terminal
  <2>4. Gate = "open" /\ Gate' = "waiting"
    BY <1>1, <1>4, <2>1 DEF Gate, FenceHolds, Terminal
  <2>5. Told' = Told
    BY <1>1, <1>4 DEF Told, Commits, FenceHolds
  <2> QED
    BY <2>3, <2>4, <2>5
<1>5. CASE row'.status # "paused"
  BY <1>3, <1>5 DEF Gate, Terminal
<1> QED
  BY <1>4, <1>5

\* The claim is the operator's answer; one that comes too late changes nothing.
LEMMA ClaimGate ==
  ASSUME IInv, Decided, NEW r \in Resumers, Claim(r)
  PROVE  \/ Gate' = Gate
         \/ Gate = "waiting" /\ Gate' \in {"granted", "closed"} /\ Told' = Told
<1> USE AttemptFacts DEF IInv, TypeOK
<1>1. row.attempt # r
  BY DEF Claim, Decided, Kept, Taken
<1>2. PICK answer \in {"approve", "deny"} : decision' = [decision EXCEPT ![r] = answer]
  BY DEF Claim
<1>3. CASE row.status = "paused" /\ row' = [row EXCEPT !.status = "running", !.attempt = r] /\ UNCHANGED outcome
  <2>1. row'.status = "running" /\ row'.attempt = r
    <3>1. row \in Rows
      OBVIOUS
    <3> HIDE DEF IInv, TypeOK
    <3> QED
      BY <3>1, <1>3 DEF Rows
  <2>2. Gate = "waiting"
    BY <1>3 DEF Gate, Terminal
  <2>3. Gate' \in {"granted", "closed"}
    BY <1>2, <2>1 DEF Gate, Terminal
  <2>4. Told' = Told
    BY <1>3, <2>1 DEF Told, Commits
  <2> QED
    BY <2>2, <2>3, <2>4
<1>4. CASE row' = row
  BY <1>1, <1>2, <1>4 DEF Gate
<1> QED
  BY <1>3, <1>4 DEF Claim, Claimable, answers

\* How the gate moves.
LEMMA GateStep ==
  ASSUME IInv, Decided, [Next]_vars
  PROVE  \/ Gate' \in {Gate, "closed"}
         \/ Gate = "open" /\ Gate' = "waiting" /\ sent = {} /\ Told' = Told
         \/ Gate = "waiting" /\ Gate' \in {"granted", "closed"} /\ Told' = Told
<1> USE AttemptFacts DEF IInv, TypeOK
<1>1. CASE UNCHANGED <<row, decision, sent>>
  BY <1>1 DEF Gate
<1>2. CASE CreateLands
  <2>1. row.status = "absent" /\ row'.status = "running" /\ row'.attempt = Start
    BY <1>2 DEF CreateLands, Rows
  <2> QED
    BY <2>1 DEF Gate, Terminal
<1>3. ASSUME NEW a \in Attempts, BeforeSend(a)
      PROVE  Gate' = Gate
  BY <1>3 DEF BeforeSend, Gate
<1>4. CASE InvalidatePaused
  <2>1. row'.status = "failed"
    BY <1>4 DEF InvalidatePaused, Settled, Failed, Rows
  <2> QED
    BY <2>1 DEF Gate, Terminal
<1>5. CASE DamagePause
  <2>1. row'.status = row.status /\ row'.attempt = row.attempt /\ UNCHANGED decision
    BY <1>5 DEF DamagePause, Rows, call
  <2> QED
    BY <2>1 DEF Gate
<1>6. CASE Sweep
  <2>1. UNCHANGED <<row, decision>> \/ row'.status = "failed"
    BY <1>6 DEF Sweep, Swept, Rows, call
  <2> QED
    BY <2>1 DEF Gate, Terminal
<1> QED
  BY <1>1, <1>2, <1>3, <1>4, <1>5, <1>6, ClaimGate, WriteLandsGate, QuietSteps

\* Conduit's governed calls keep the promise of GatedCall: written once, under
\* policy's or an operator's authority, and truly reported; for every schedule
\* of operators, provisions and crashes.
THEOREM PromiseKept == Spec => KeepsPromise
<1>1. Init => Promise!CallInit
  BY AttemptFacts DEF Init, Promise!CallInit, Gate, Told, Commits, NoAnswer, Terminal
<1>2. IInv => ClaimsAreTrue
  BY ClaimsOfIInv
<1>3. IInv /\ IInv' /\ Decided /\ [Next]_vars => [Promise!CallNext]_(Promise!callVars)
  <2> SUFFICES ASSUME IInv, IInv', Decided, [Next]_vars
               PROVE  [Promise!CallNext]_(Promise!callVars)
    OBVIOUS
  <2>1. ClaimsAreTrue /\ ClaimsAreTrue'
    BY <1>2, PTL
  <2>2. CASE sent' # sent
    BY <2>1, <2>2, SendStep DEF Promise!CallNext, Promise!Send, ClaimsAreTrue
  <2>3. CASE sent' = sent /\ Gate' \in {Gate, "closed"}
    <3>1. Told' \in SUBSET Promise!Claims
      BY DEF Told, Commits, Promise!Claims
    <3>2. Told' = Told \union Told'
      BY ToldGrows
    <3>3. /\ "ran" \in Told' => sent # {}
          /\ "didNotRun" \in Told' => ~(sent # {})
      BY <2>1, <2>3 DEF ClaimsAreTrue
    <3>4. Promise!Conclude
      BY <2>3, <3>1, <3>2, <3>3 DEF Promise!Conclude
    <3> QED
      BY <3>4 DEF Promise!CallNext
  <2>4. CASE sent' = sent /\ Gate = "open" /\ Gate' = "waiting" /\ sent = {} /\ Told' = Told
    BY <2>4 DEF Promise!CallNext, Promise!AskOperator
  <2>5. CASE sent' = sent /\ Gate = "waiting" /\ Gate' \in {"granted", "closed"} /\ Told' = Told
    BY <2>5 DEF Promise!CallNext, Promise!OperatorAnswers
  <2> QED
    BY <2>2, <2>3, <2>4, <2>5, GateStep
<1> QED
  BY <1>1, <1>3, Invariance, DecidedAlways, PTL DEF Spec, KeepsPromise, Promise!CallSpec

=============================================================================
