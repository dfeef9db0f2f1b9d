----------------------- MODULE DirectExecution_proofs -----------------------
(***************************************************************************)
(* Theorems about DirectExecution, for every set of resume() calls, every  *)
(* number of catalog generations and every number of crashes.              *)
(***************************************************************************)
EXTENDS DirectExecution, FiniteSetTheorems, TLAPS

-----------------------------------------------------------------------------
(* Types *)

LEMMA AttemptFacts ==
  /\ Start \in Attempts
  /\ Resumers \subseteq Attempts
  /\ Nobody \notin Attempts
  /\ Start \notin Resumers
BY AttemptsAssumption DEF Attempts

LEMMA ValueTypes ==
  /\ NoAnswer \in Answers
  /\ Settles \subseteq Answers
  /\ Says("expired") \in Settles /\ Says("completed") \in Settles
  /\ Says("paused") \in Settles
  /\ Says("unknown") \in Answers /\ Says("conflict") \in Answers
  /\ Says("threw") \in Answers
  /\ \A error \in Errors : Failed(error) \in Settles
  /\ NoWrite \in Writes
BY DEF NoAnswer, Says, Failed, Answers, Settles, Errors, Writes

LEMMA IssueType ==
  ASSUME NEW settle \in Settles, NEW generation \in 0..MaxGeneration,
         NEW by \in {"fenced", "claimed", "put"},
         NEW to \in {"nobody", "outcome", "guardExpiry", "unknown", "throw"}
  PROVE  Issue(by, settle, generation, to) \in Writes
BY DEF Issue, Writes, IssuedWrites

LEMMA PCFacts ==
  /\ UnpersistedPCs \subseteq PCs /\ GuardPCs \subseteq PCs
  /\ BeforeSendPCs \subseteq PCs /\ AfterSendPCs \subseteq PCs
  /\ {"idle", "kind", "awaitExpiry", "settling", "done", "dead"} \subseteq PCs
BY DEF PCs

LEMMA WriteFields ==
  ASSUME NEW w \in Writes, w.to # "nobody" \/ w.state # "none"
  PROVE  /\ w \in IssuedWrites
         /\ [w EXCEPT !.to = "nobody"] \in Writes
         /\ \A state \in {"written", "fenced", "failed"} : [w EXCEPT !.state = state] \in Writes
<1>1. w \in IssuedWrites
  BY DEF Writes, NoWrite
<1>2. /\ [w EXCEPT !.to = "nobody"] \in IssuedWrites
      /\ \A state \in {"written", "fenced", "failed"} : [w EXCEPT !.state = state] \in IssuedWrites
  BY <1>1 DEF IssuedWrites
<1> QED
  BY <1>1, <1>2 DEF Writes

LEMMA SettledType ==
  ASSUME TypeOK, NEW settle \in Settles, NEW generation \in 0..MaxGeneration
  PROVE  Settled(settle, generation) \in Rows
BY DEF Settled, Rows, Settles, Errors, RowStatuses, Pauses, TypeOK

LEMMA ClassifyType ==
  ASSUME NEW a, NEW error \in Errors
  PROVE  Classify(a, error) \in Settles
BY ValueTypes DEF Classify, Errors

\* The three shapes in which a continuation stops, and the delivery of a
\* write's result, keep the types.
LEMMA SettleType ==
  ASSUME TypeOK, NEW a \in Attempts, NEW settle \in Settles,
         NEW generation \in 0..MaxGeneration, Settle(a, settle, generation),
         UNCHANGED call
  PROVE  TypeOK'
<1>1. Issue("fenced", settle, generation, "outcome") \in Writes
  BY IssueType
<1>2. pc' \in [Attempts -> PCs]
  BY PCFacts DEF Settle, TypeOK
<1>3. latch' \in [Attempts -> {"none", "free", "continuation", "timer"}]
  BY DEF Settle, TypeOK
<1>4. write' \in [Attempts -> Writes]
  BY <1>1 DEF Settle, TypeOK
<1> QED
  BY <1>2, <1>3, <1>4 DEF Settle, TypeOK, world, answers, call

LEMMA TerminalizeType ==
  ASSUME TypeOK, NEW r \in Attempts, NEW settle \in Settles,
         NEW to \in {"guardExpiry", "throw"}, Terminalize(r, settle, to)
  PROVE  TypeOK'
<1> DEFINE unfenced == IF settle.status = "expired" THEN "put" ELSE "claimed"
<1>1. /\ Issue(unfenced, settle, 0, to) \in Writes
      /\ Issue("fenced", settle, 0, to) \in Writes
  <2>1. 0 \in 0..MaxGeneration
    BY BoundsAssumption
  <2>2. unfenced \in {"fenced", "claimed", "put"}
    OBVIOUS
  <2> QED
    BY <2>1, <2>2, IssueType
<1>2. /\ pc' \in [Attempts -> PCs]
      /\ latch' \in [Attempts -> {"none", "free", "continuation", "timer"}]
      /\ write' \in [Attempts -> Writes]
  <2>0. "settling" \in PCs /\ "awaitExpiry" \in PCs
    BY PCFacts
  <2>1. CASE latch[r] = "none"
    <3>1. /\ pc' = [pc EXCEPT ![r] = "settling"]
          /\ write' = [write EXCEPT ![r] = Issue(unfenced, settle, 0, to)]
          /\ latch' = latch
      BY <2>1 DEF Terminalize
    <3> QED
      BY <1>1, <2>0, <3>1 DEF TypeOK
  <2>2. CASE latch[r] = "free"
    <3>1. /\ pc' = [pc EXCEPT ![r] = "settling"]
          /\ write' = [write EXCEPT ![r] = Issue("fenced", settle, 0, to)]
          /\ latch' = [latch EXCEPT ![r] = "continuation"]
      BY <2>2 DEF Terminalize
    <3> QED
      BY <1>1, <2>0, <3>1 DEF TypeOK
  <2>3. CASE latch[r] \notin {"none", "free"}
    <3>1. pc' = [pc EXCEPT ![r] = "awaitExpiry"] /\ latch' = latch /\ write' = write
      BY <2>3 DEF Terminalize
    <3> QED
      BY <2>0, <3>1 DEF TypeOK
  <2> QED
    BY <2>1, <2>2, <2>3
<1> QED
  BY <1>2 DEF Terminalize, TypeOK, world, answers, call

LEMMA DeliverType ==
  ASSUME TypeOK, NEW a \in Attempts, NEW answer \in Answers, Deliver(a, answer),
         write[a].to # "nobody"
  PROVE  TypeOK'
<1>1. write' \in [Attempts -> Writes]
  <2>1. write[a] \in Writes
    BY DEF TypeOK
  <2>2. [write[a] EXCEPT !.to = "nobody"] \in Writes
    BY <2>1, WriteFields
  <2> QED
    BY <2>2 DEF Deliver, TypeOK
<1>2. /\ pc' \in [Attempts -> PCs]
      /\ expiry' \in [Attempts -> Answers]
      /\ outcome' \in [Attempts -> Answers]
      /\ applied' \in [Attempts -> {"unread", "yes", "no"}]
  <2>1. CASE write[a].to = "guardExpiry" /\ latch[a] = "timer"
    BY <2>1 DEF Deliver, TypeOK
  <2>2. CASE write[a].to = "outcome"
    <3>1. /\ outcome' = [outcome EXCEPT ![a] = answer]
          /\ pc' = [pc EXCEPT ![a] = IF pc[a] = "settling" THEN "done" ELSE pc[a]]
          /\ UNCHANGED <<expiry, applied>>
      BY <2>2 DEF Deliver
    <3>2. (IF pc[a] = "settling" THEN "done" ELSE pc[a]) \in PCs
      BY PCFacts DEF TypeOK
    <3> QED
      BY <3>1, <3>2 DEF TypeOK
  <2>3. CASE write[a].to # "outcome" /\ ~(write[a].to = "guardExpiry" /\ latch[a] = "timer")
    <3>1. GuardAnswers(a, answer) /\ UNCHANGED expiry
      BY <2>3 DEF Deliver
    <3> QED
      BY <3>1, PCFacts DEF GuardAnswers, TypeOK
  <2> QED
    BY <2>1, <2>2, <2>3
<1> QED
  BY <1>1, <1>2 DEF Deliver, TypeOK, world, call

LEMMA BeginDriveType ==
  ASSUME TypeOK, NEW a \in Attempts, BeginDrive(a)
  PROVE  TypeOK'
<1>1. CASE Settle(a, Failed("internal"), 0) /\ UNCHANGED call
  <2>1. Failed("internal") \in Settles /\ 0 \in 0..MaxGeneration
    BY ValueTypes, BoundsAssumption DEF Errors
  <2> QED
    BY <1>1, <2>1, SettleType
<1>2. CASE ~(Settle(a, Failed("internal"), 0) /\ UNCHANGED call)
  <2>1. /\ pc' = [pc EXCEPT ![a] = "tool"]
        /\ seen' = [seen EXCEPT ![a].scope = permitted]
        /\ UNCHANGED <<row, world, latch, write, answers, decision, consumed, found, sent>>
    BY <1>2 DEF BeginDrive
  <2>2. pc' \in [Attempts -> PCs]
    BY <2>1, PCFacts DEF TypeOK, BeforeSendPCs
  <2>3. seen' \in [Attempts -> Sights]
    <3>1. permitted \in BOOLEAN /\ seen[a] \in Sights
      BY DEF TypeOK
    <3>2. [seen[a] EXCEPT !.scope = permitted] \in Sights
      BY <3>1 DEF Sights
    <3> QED
      BY <2>1, <3>2 DEF TypeOK
  <2> QED
    BY <2>1, <2>2, <2>3 DEF TypeOK, world, answers
<1> QED
  BY <1>1, <1>2

LEMMA StartStepType ==
  ASSUME TypeOK, StartStep
  PROVE  TypeOK'
<1>0. Start \in Attempts /\ Start \in Attempts \union {Nobody} /\ 0 \in 0..MaxGeneration
  BY AttemptFacts, BoundsAssumption
<1>1. CASE StartDirect
  <2>1. Failed("internal") \in Answers
    BY ValueTypes DEF Errors
  <2> QED
    <3>1. "creating" \in PCs
      BY PCFacts DEF UnpersistedPCs
    <3>2. pc' \in [Attempts -> PCs]
      BY <1>0, <1>1, <3>1, PCFacts DEF StartDirect, TypeOK
    <3>3. /\ latch' \in [Attempts -> {"none", "free", "continuation", "timer"}]
          /\ outcome' \in [Attempts -> Answers]
      <4>1. \/ latch' = [latch EXCEPT ![Start] = "free"] /\ UNCHANGED outcome
            \/ /\ latch' = [latch EXCEPT ![Start] = "continuation"]
               /\ outcome' = [outcome EXCEPT ![Start] = Failed("internal")]
        BY <1>1 DEF StartDirect
      <4>2. CASE latch' = [latch EXCEPT ![Start] = "free"] /\ UNCHANGED outcome
        BY <1>0, <4>2 DEF TypeOK
      <4>3. CASE /\ latch' = [latch EXCEPT ![Start] = "continuation"]
                 /\ outcome' = [outcome EXCEPT ![Start] = Failed("internal")]
        BY <1>0, <2>1, <4>3 DEF TypeOK
      <4> QED
        BY <4>1, <4>2, <4>3
    <3>4. UNCHANGED <<row, world, write, expiry, applied, call>>
      BY <1>1 DEF StartDirect
    <3> QED
      BY <3>2, <3>3, <3>4 DEF TypeOK, world, call
<1>2. CASE CreateLands
  BY <1>0, <1>2, PCFacts DEF CreateLands, TypeOK, Rows, RowStatuses, world, answers, call,
     UnpersistedPCs
<1>3. CASE CreateRejected
  BY <1>0, <1>3, PCFacts DEF CreateRejected, TypeOK, world, answers, call, UnpersistedPCs
<1>4. CASE ConflictLookup
  <2>1. Failed("internal") \in Answers /\ Says("conflict") \in Answers
    BY ValueTypes DEF Errors
  <2>2. PICK answer \in Answers :
          /\ pc' = [pc EXCEPT ![Start] = "done"]
          /\ \/ /\ latch' = [latch EXCEPT ![Start] = "continuation"]
                /\ outcome' = [outcome EXCEPT ![Start] = answer]
             \/ UNCHANGED <<latch, outcome>>
          /\ UNCHANGED <<row, world, write, expiry, applied, call>>
    BY <1>4, <2>1 DEF ConflictLookup
  <2>3. pc' \in [Attempts -> PCs]
    BY <1>0, <2>2, PCFacts DEF TypeOK
  <2>4. /\ latch' \in [Attempts -> {"none", "free", "continuation", "timer"}]
        /\ outcome' \in [Attempts -> Answers]
    <3>1. CASE /\ latch' = [latch EXCEPT ![Start] = "continuation"]
               /\ outcome' = [outcome EXCEPT ![Start] = answer]
      BY <1>0, <3>1 DEF TypeOK
    <3>2. CASE UNCHANGED <<latch, outcome>>
      BY <3>2 DEF TypeOK
    <3> QED
      BY <2>2, <3>1, <3>2
  <2> QED
    BY <2>2, <2>3, <2>4 DEF TypeOK, world, call
<1>5. CASE CreateReturns
  <2>1. CASE DriveSettled(Start)
    <3>1. Issue("fenced", Failed("interrupted"), 0, "nobody") \in Writes
      BY <1>0, IssueType, ValueTypes DEF Errors
    <3>2. /\ pc' = [pc EXCEPT ![Start] = "done"]
          /\ write' = [write EXCEPT ![Start] = Issue("fenced", Failed("interrupted"), 0, "nobody")]
          /\ UNCHANGED <<row, world, latch, answers, call>>
      BY <1>5, <2>1 DEF CreateReturns
    <3>3. pc' \in [Attempts -> PCs] /\ write' \in [Attempts -> Writes]
      BY <1>0, <3>1, <3>2, PCFacts DEF TypeOK
    <3> QED
      BY <3>2, <3>3 DEF TypeOK, world, answers, call
  <2>2. CASE ~DriveSettled(Start)
    BY <1>0, <1>5, <2>2, BeginDriveType DEF CreateReturns
  <2> QED
    BY <2>1, <2>2
<1> QED
  BY <1>1, <1>2, <1>3, <1>4, <1>5 DEF StartStep

LEMMA GuardType ==
  ASSUME TypeOK, NEW r \in Attempts, NEW at, NEW refusal \in Errors,
         NEW next \in PCs, Guard(r, at, refusal, next)
  PROVE  TypeOK'
<1>1. CASE refusal # "none"
  <2>1. Failed(refusal) \in Settles
    BY ValueTypes
  <2> QED
    BY <1>1, <2>1, TerminalizeType DEF Guard, Refuse
<1>2. CASE refusal = "none"
  BY <1>2 DEF Guard, TypeOK, world, answers, call
<1> QED
  BY <1>1, <1>2

LEMMA GuardStepType ==
  ASSUME TypeOK, NEW r \in Resumers, GuardStep(r)
  PROVE  TypeOK'
<1>0. r \in Attempts /\ r \in Attempts \union {Nobody}
  BY AttemptFacts
<1>1. CASE Claim(r)
  <2>1. decision' \in [Attempts -> {"none", "approve", "deny"}]
    BY <1>0, <1>1 DEF Claim, TypeOK
  <2>2. PICK namesPending \in BOOLEAN :
       IF Claimable(namesPending)
       THEN /\ row' = [row EXCEPT !.status = "running", !.attempt = r]
            /\ seen' = [seen EXCEPT ![r].claimed = catalog.generation,
                                    ![r].approved = row.generation]
            /\ pc' = [pc EXCEPT ![r] = "kind"]
            /\ UNCHANGED answers
       ELSE /\ GuardAnswers(r, Says("conflict"))
            /\ UNCHANGED <<row, seen, expiry>>
    BY <1>1 DEF Claim
  <2>3. CASE Claimable(namesPending)
    <3>1. row' \in Rows
      <4>1. row' = [row EXCEPT !.status = "running", !.attempt = r] /\ row \in Rows
        BY <2>2, <2>3 DEF TypeOK
      <4> QED
        BY <1>0, <4>1 DEF Rows, RowStatuses
    <3>2. catalog.generation \in 0..MaxGeneration /\ row.generation \in 0..MaxGeneration
      BY BoundsAssumption DEF TypeOK, Generations, Rows
    <3>3. seen' \in [Attempts -> Sights]
      BY <1>0, <2>2, <2>3, <3>2, SMTT(30) DEF TypeOK, Sights
    <3>4. pc' \in [Attempts -> PCs]
      BY <1>0, <2>2, <2>3, PCFacts DEF TypeOK
    <3> QED
      BY <1>1, <2>1, <2>2, <2>3, <3>1, <3>3, <3>4 DEF Claim, TypeOK, world, answers
  <2>4. CASE ~Claimable(namesPending)
    <3>1. Says("conflict") \in Answers
      BY ValueTypes
    <3>2. /\ outcome' \in [Attempts -> Answers]
          /\ applied' \in [Attempts -> {"unread", "yes", "no"}]
          /\ pc' \in [Attempts -> PCs]
      <4>1. GuardAnswers(r, Says("conflict"))
        BY <2>2, <2>4
      <4> QED
        BY <1>0, <3>1, <4>1, PCFacts DEF GuardAnswers, TypeOK
    <3> QED
      BY <1>1, <2>1, <2>2, <2>4, <3>2 DEF Claim, TypeOK, world
  <2> QED
    BY <2>3, <2>4
<1>2. CASE KindAnswers(r)
  BY <1>0, <1>2, PCFacts DEF KindAnswers, TypeOK, GuardPCs, world, answers, call
<1>3. CASE KindTimesOut(r)
  <2>1. Issue("claimed", Failed("internal"), 0, "unknown") \in Writes
    BY IssueType, ValueTypes, BoundsAssumption DEF Errors
  <2> QED
    BY <1>0, <1>3, <2>1, PCFacts DEF KindTimesOut, TypeOK, world, answers, call
<1>4. CASE PauseAnswers(r)
  BY <1>0, <1>4, GuardType, PCFacts DEF PauseAnswers, Errors, GuardPCs
<1>5. CASE PauseExpired(r)
  BY <1>0, <1>5, TerminalizeType, ValueTypes DEF PauseExpired
<1>6. CASE GuardToolAnswers(r)
  <2>1. (CASE ~catalog.tool -> "catalogChanged"
           [] catalog.tool /\ row.pause = "disagrees" -> "internal"
           [] OTHER -> "none") \in Errors
    BY DEF Errors
  <2> QED
    BY <1>0, <1>6, <2>1, GuardType, PCFacts DEF GuardToolAnswers, GuardPCs
<1>7. CASE GuardGenerationAnswers(r)
  BY <1>0, <1>7, GuardType, PCFacts DEF GuardGenerationAnswers, Errors, GuardPCs
<1>8. CASE GuardScopeAnswers(r)
  <2>1. (CASE ~Permits -> "scopeRevoked"
           [] Permits /\ latch[r] = "none" -> "internal"
           [] OTHER -> "none") \in Errors
    BY DEF Errors
  <2> QED
    BY <1>0, <1>8, <2>1, GuardType, PCFacts DEF GuardScopeAnswers, GuardPCs
<1>9. CASE Handover(r)
  BY <1>0, <1>9, BeginDriveType DEF Handover
<1>10. CASE GuardReadIsLate(r)
  BY <1>0, <1>10, PCFacts DEF GuardReadIsLate, TypeOK, world, answers, call
<1>11. CASE GuardReadRejected(r)
  BY <1>0, <1>11, TerminalizeType, ValueTypes DEF GuardReadRejected, Errors
<1>12. CASE ExpiryAnswers(r)
  BY <1>0, <1>12, PCFacts DEF ExpiryAnswers, GuardAnswers, TypeOK, world, call
<1>13. CASE ResumeReturns(r)
  BY <1>0, <1>13 DEF ResumeReturns, TypeOK, world, call
<1> QED
  BY <1>1, <1>2, <1>3, <1>4, <1>5, <1>6, <1>7, <1>8, <1>9, <1>10, <1>11, <1>12, <1>13
     DEF GuardStep

LEMMA CallStepType ==
  ASSUME TypeOK, NEW a \in Attempts, CallStep(a)
  PROVE  TypeOK'
<1>0. 0 \in 0..MaxGeneration /\ catalog.generation \in 0..MaxGeneration
  BY BoundsAssumption DEF TypeOK, Generations
<1>1. CASE ToolAnswers(a)
  BY <1>1, PCFacts DEF ToolAnswers, TypeOK, BeforeSendPCs, world, answers
<1>2. CASE ScopeAnswers(a)
  <2>1. InScope(a) \in BOOLEAN /\ (a \in Resumers) \in BOOLEAN
    BY DEF InScope, TypeOK
  <2> QED
    BY <1>2, <2>1, PCFacts DEF ScopeAnswers, TypeOK, BeforeSendPCs, world, answers
<1>3. CASE PolicyAnswers(a)
  <2>1. PICK next \in {"blocked", "source", "gated"} : pc' = [pc EXCEPT ![a] = next]
    BY <1>3 DEF PolicyAnswers
  <2> QED
    BY <1>3, <2>1, PCFacts DEF PolicyAnswers, TypeOK, BeforeSendPCs, world, answers, call
<1>4. CASE BlockAudited(a)
  <2>1. Classify(a, "policyBlocked") \in Settles
    BY ClassifyType DEF Errors
  <2> QED
    BY <1>0, <1>4, <2>1, SettleType DEF BlockAudited
<1>5. CASE GateAudited(a)
  BY <1>5, PCFacts DEF GateAudited, TypeOK, BeforeSendPCs, world, answers, call
<1>6. CASE PauseForApproval(a)
  <2>1. PauseGeneration(a) \in 0..MaxGeneration
    BY <1>0 DEF PauseGeneration
  <2> QED
    BY <1>6, <2>1, SettleType, ValueTypes DEF PauseForApproval
<1>7. CASE SourceAnswers(a)
  <2>1. pc' \in [Attempts -> PCs]
    BY <1>7, PCFacts DEF SourceAnswers, TypeOK, BeforeSendPCs
  <2>2. seen' \in [Attempts -> Sights]
    <3>1. seen[a] \in Sights /\ catalog.generation \in 0..MaxGeneration
      BY BoundsAssumption DEF TypeOK, Generations
    <3>2. [seen[a] EXCEPT !.used = catalog.generation] \in Sights
      BY <3>1 DEF Sights
    <3> QED
      BY <1>7, <3>2 DEF SourceAnswers, TypeOK
  <2> QED
    BY <1>7, <2>1, <2>2 DEF SourceAnswers, TypeOK, world, answers
<1>8. CASE BeforeSend(a)
  BY <1>8, PCFacts DEF BeforeSend, TypeOK, AfterSendPCs, world, answers
<1>9. CASE UpstreamAnswers(a)
  BY <1>9, PCFacts DEF UpstreamAnswers, TypeOK, AfterSendPCs, world, answers, call
<1>10. CASE CallCompletes(a)
  BY <1>0, <1>10, SettleType, ValueTypes DEF CallCompletes
<1>11. CASE CallLost(a) \/ CallFails(a)
  <2>1. Classify(a, "internal") \in Settles
    BY ClassifyType DEF Errors
  <2> QED
    BY <1>0, <1>11, <2>1, SettleType DEF CallLost, CallFails
<1> QED
  BY <1>1, <1>2, <1>3, <1>4, <1>5, <1>6, <1>7, <1>8, <1>9, <1>10, <1>11 DEF CallStep

LEMMA SettleStepType ==
  ASSUME TypeOK, NEW a \in Attempts, SettleStep(a)
  PROVE  TypeOK'
<1>0. write[a] \in Writes /\ 0 \in 0..MaxGeneration
  BY BoundsAssumption DEF TypeOK
<1>1. CASE TimerFires(a)
  <2>1. /\ ClassifyExpiry(a) \in Settles
        /\ ClassifyExpiry(a) \in Answers
    BY ClassifyType, ValueTypes DEF ClassifyExpiry, Errors
  <2>2. Issue("fenced", ClassifyExpiry(a), 0,
              IF pc[a] \in GuardPCs THEN "guardExpiry" ELSE "outcome") \in Writes
    BY <1>0, <2>1, IssueType
  <2>3. latch' \in [Attempts -> {"none", "free", "continuation", "timer"}]
    BY <1>1 DEF TimerFires, TypeOK
  <2>4. CASE pc[a] \in UnpersistedPCs
    BY <1>1, <2>1, <2>3, <2>4 DEF TimerFires, TypeOK, world, call
  <2>5. CASE pc[a] \notin UnpersistedPCs
    BY <1>1, <2>2, <2>3, <2>5 DEF TimerFires, TypeOK, world, call
  <2> QED
    BY <2>4, <2>5
<1>2. CASE WriteLands(a)
  <2>1. write[a] \in IssuedWrites
    BY <1>0, <1>2, WriteFields DEF WriteLands
  <2>2. row' = row \/ row' = Settled(write[a].settle, write[a].generation)
    BY <1>2 DEF WriteLands
  <2>3. row' \in Rows
    BY <2>1, <2>2, SettledType DEF IssuedWrites, TypeOK
  <2>4. PICK state \in {"fenced", "written"} : write' = [write EXCEPT ![a].state = state]
    BY <1>2 DEF WriteLands
  <2>5. [write[a] EXCEPT !.state = state] \in Writes
    BY <1>0, <1>2, <2>4, WriteFields DEF WriteLands
  <2>6. write' \in [Attempts -> Writes]
    BY <2>4, <2>5 DEF TypeOK
  <2> QED
    BY <1>2, <2>3, <2>6 DEF WriteLands, TypeOK, world, answers, call
<1>3. CASE WriteRejected(a)
  <2> DEFINE listener == IF write[a].to = "nobody" THEN "nobody" ELSE "throw"
  <2>1. /\ Issue("put", Failed("internal"), 0, listener) \in Writes
        /\ Issue("claimed", Failed("internal"), 0, "throw") \in Writes
        /\ [write[a] EXCEPT !.state = "failed"] \in Writes
    BY <1>0, <1>3, IssueType, ValueTypes, WriteFields DEF WriteRejected, Errors
  <2>2. PICK w \in Writes : write' = [write EXCEPT ![a] = w]
    BY <1>3, <2>1 DEF WriteRejected
  <2>3. write' \in [Attempts -> Writes]
    BY <2>2 DEF TypeOK
  <2> QED
    BY <1>3, <2>3 DEF WriteRejected, TypeOK, world, answers, call
<1>4. CASE WriteReturns(a)
  <2>1. write[a] \in IssuedWrites
    BY <1>0, <1>4, WriteFields DEF WriteReturns
  <2>2. write[a].settle \in Answers
    BY <2>1, ValueTypes DEF IssuedWrites
  <2>3. WriteAnswer(write[a]) \in Answers
    BY <2>2, ValueTypes DEF WriteAnswer
  <2> QED
    BY <1>4, <2>3, DeliverType DEF WriteReturns
<1>5. CASE SettleTimesOut(a)
  <2>1. PICK answer \in Answers : Deliver(a, answer)
    BY <1>5, ValueTypes DEF SettleTimesOut
  <2> QED
    BY <1>5, <2>1, DeliverType DEF SettleTimesOut
<1> QED
  BY <1>1, <1>2, <1>3, <1>4, <1>5 DEF SettleStep

LEMMA WorldStepType ==
  ASSUME TypeOK, WorldStep
  PROVE  TypeOK'
<1>1. CASE ProvisionSource
  <2>1. catalog' \in [generation : Generations, tool : BOOLEAN]
    BY <1>1, BoundsAssumption DEF ProvisionSource, TypeOK, Generations
  <2> QED
    BY <1>1, <2>1 DEF ProvisionSource, TypeOK, answers, call
<1>2. CASE InvalidatePaused
  <2>1. row' \in Rows
    BY <1>2, SettledType, ValueTypes, BoundsAssumption DEF InvalidatePaused, Errors
  <2> QED
    BY <1>2, <2>1 DEF InvalidatePaused, TypeOK, world, answers, call
<1>3. CASE RevokeScope
  BY <1>3 DEF RevokeScope, TypeOK, answers, call
<1>4. CASE DamagePause
  <2>1. row' \in Rows
    BY <1>4 DEF DamagePause, TypeOK, Rows, Pauses
  <2> QED
    BY <1>4, <2>1 DEF DamagePause, TypeOK, world, answers, call
<1>5. CASE Crash
  <2>1. crashes' \in 0..MaxCrashes
    <3>1. crashes \in 0..MaxCrashes /\ crashes < MaxCrashes /\ crashes' = crashes + 1
      BY <1>5 DEF Crash, TypeOK
    <3> QED
      BY <3>1, BoundsAssumption
  <2>2. pc' \in [Attempts -> PCs]
    BY <1>5, PCFacts DEF Crash, TypeOK
  <2>3. latch' \in [Attempts -> {"none", "free", "continuation", "timer"}]
    BY <1>5 DEF Crash, TypeOK
  <2>4. ASSUME NEW a \in Attempts
        PROVE  [write[a] EXCEPT !.state = IF @ = "pending" THEN "failed" ELSE @,
                                !.to = "nobody"] \in Writes
    <3>1. write[a] \in Writes
      BY DEF TypeOK
    <3>2. CASE write[a] \in IssuedWrites
      BY <3>2 DEF Writes, IssuedWrites
    <3>3. CASE write[a] = NoWrite
      <4> DEFINE only == [state : {"none"}, by : {"none"}, settle : {NoAnswer},
                          generation : {0}, to : {"nobody"}]
      <4>1. write[a] \in only /\ write[a].state = "none"
        BY <3>3 DEF NoWrite
      <4>2. [write[a] EXCEPT !.state = "none", !.to = "nobody"] \in only
        BY <4>1
      <4>3. \A w \in only : w = NoWrite
        BY DEF NoWrite
      <4> QED
        BY <4>1, <4>2, <4>3 DEF Writes
    <3> QED
      BY <3>1, <3>2, <3>3 DEF Writes
  <2>5. write' \in [Attempts -> Writes]
    BY <1>5, <2>4 DEF Crash
  <2> QED
    BY <1>5, <2>1, <2>2, <2>3, <2>5 DEF Crash, TypeOK, answers, call
<1>6. CASE Restart
  BY <1>6 DEF Restart, TypeOK, answers, call
<1>7. CASE Sweep
  <2>1. Swept(row) \in Rows
    <3>1. row \in Rows /\ 0 \in 0..MaxGeneration
      BY BoundsAssumption DEF TypeOK
    <3>2. /\ "failed" \in RowStatuses
          /\ "ambiguous" \in Errors
          /\ "none" \in Pauses
      BY DEF RowStatuses, Errors, Pauses
    <3>3. [row EXCEPT !.status = "failed", !.error = "ambiguous",
                      !.generation = 0, !.pause = "none"] \in Rows
      BY <3>1, <3>2 DEF Rows
    <3> QED
      BY <3>1, <3>3 DEF Swept
  <2> QED
    BY <1>7, <2>1 DEF Sweep, TypeOK, answers, call
<1> QED
  BY <1>1, <1>2, <1>3, <1>4, <1>5, <1>6, <1>7 DEF WorldStep

LEMMA InitType == Init => TypeOK
<1> SUFFICES ASSUME Init PROVE TypeOK
  OBVIOUS
<1>1. row \in Rows
  BY BoundsAssumption DEF Init, Rows, RowStatuses, Errors, Pauses
<1>2. catalog \in [generation : Generations, tool : BOOLEAN]
  BY BoundsAssumption DEF Init, Generations
<1>3. seen \in [Attempts -> Sights]
  BY BoundsAssumption DEF Init, Sights
<1>4. pc \in [Attempts -> PCs]
  BY PCFacts DEF Init
<1> QED
  BY <1>1, <1>2, <1>3, <1>4, BoundsAssumption, ValueTypes DEF Init, TypeOK

LEMMA NextType == TypeOK /\ [Next]_vars => TypeOK'
<1> SUFFICES ASSUME TypeOK, [Next]_vars PROVE TypeOK'
  OBVIOUS
<1>1. CASE StartStep
  BY <1>1, StartStepType
<1>2. ASSUME NEW r \in Resumers, GuardStep(r) PROVE TypeOK'
  BY <1>2, GuardStepType
<1>3. ASSUME NEW a \in Attempts, CallStep(a) PROVE TypeOK'
  BY <1>3, CallStepType
<1>4. ASSUME NEW a \in Attempts, SettleStep(a) PROVE TypeOK'
  BY <1>4, SettleStepType
<1>5. CASE WorldStep
  BY <1>5, WorldStepType
<1>6. CASE UNCHANGED vars
  BY <1>6 DEF vars, world, answers, call, TypeOK
<1> QED
  BY <1>1, <1>2, <1>3, <1>4, <1>5, <1>6 DEF Next

\* Every variable of the manager keeps its type: a row never holds a status,
\* an error or a pause the store does not know, and every pc is a real await.
THEOREM TypeCorrect == Spec => []TypeOK
<1>1. Init => TypeOK
  BY InitType
<1>2. TypeOK /\ [Next]_vars => TypeOK'
  BY NextType
<1> QED
  BY <1>1, <1>2, PTL DEF Spec

-----------------------------------------------------------------------------
(* The inductive invariant *)

\* A continuation moves on and touches nothing else.
LEMMA MoveKeeps ==
  ASSUME IInv, NEW a \in Attempts, NEW q \in PCs,
         pc' = [pc EXCEPT ![a] = q],
         UNCHANGED <<row, daemon, latch, write, expiry, outcome, sent>>,
         daemon = "serving" \/ q = "done",
         q \notin UnpersistedPCs \union {"idle", "kind"},
         latch[a] = "free" => pc[a] \notin {"creating", "conflictLookup"},
         q \in GuardPCs => pc[a] \in GuardPCs \union {"kind"},
         a \in sent => q \notin BeforeSendPCs \union GuardPCs \union {"awaitExpiry"},
         q \in AfterSendPCs => a \in sent
  PROVE  Consistent'
<1>0. /\ pc \in [Attempts -> PCs]
      /\ \A b \in Attempts : pc'[b] = IF b = a THEN q ELSE pc[b]
  BY DEF IInv, TypeOK
<1>1. OneWriter'
  BY <1>0 DEF IInv, Consistent, OneWriter, Engaged, FenceHolds, UnpersistedPCs
<1>2. SentByPC'
  BY <1>0 DEF IInv, Consistent, SentByPC
<1>3. Quiet'
  BY <1>0 DEF IInv, Consistent, Quiet
<1>4. Phases'
  BY <1>0, AttemptFacts DEF IInv, Consistent, Phases, UnpersistedPCs
<1>5. /\ SentByOwner' /\ WritesAreTrue' /\ AnswersAreTrue' /\ ExpiryIsTrue' /\ RowIsTrue'
  BY DEF IInv, Consistent, SentByOwner, WritesAreTrue, AnswersAreTrue, StartGaveUp,
         ExpiryIsTrue, RowIsTrue
<1> QED
  BY <1>1, <1>2, <1>3, <1>4, <1>5 DEF Consistent

\* An attempt that owns the row, and has written nothing yet, issues its
\* write with its latch taken: what the write says must be true of it.
LEMMA IssueKeeps ==
  ASSUME IInv, NEW a \in Attempts, NEW q \in PCs, NEW l \in {"none", "continuation", "timer"},
         NEW by \in {"fenced", "claimed", "put"}, NEW settle \in Settles,
         NEW generation, NEW to \in {"nobody", "outcome", "guardExpiry", "unknown", "throw"},
         FenceHolds(a), write[a].state = "none", daemon = "serving",
         write' = [write EXCEPT ![a] = Issue(by, settle, generation, to)],
         latch' = [latch EXCEPT ![a] = l],
         pc' = [pc EXCEPT ![a] = q],
         UNCHANGED <<row, daemon, expiry, outcome, sent>>,
         q \notin UnpersistedPCs \union {"idle", "kind"},
         l = "none" => q \notin GuardPCs,
         a \in sent => q \notin BeforeSendPCs \union GuardPCs \union {"awaitExpiry"},
         q \in AfterSendPCs => a \in sent,
         by # "fenced" => a \notin sent /\ settle.status \in {"failed", "expired"},
         settle.status # "completed" /\ settle.error # "ambiguous" => a \notin sent,
         settle.status = "completed" => a \in sent,
         settle.error = "ambiguous" => settle.status = "failed",
         a = Start /\ latch[Start] # "free" => settle.status = "failed"
  PROVE  Consistent'
<1>0. /\ \A b \in Attempts :
           /\ pc'[b] = IF b = a THEN q ELSE pc[b]
           /\ latch'[b] = IF b = a THEN l ELSE latch[b]
           /\ write'[b] = IF b = a THEN Issue(by, settle, generation, to) ELSE write[b]
      /\ Start \in Attempts
  BY AttemptFacts DEF IInv, TypeOK
<1>a. LET w == Issue(by, settle, generation, to)
      IN  w.state = "pending" /\ w.by = by /\ w.settle = settle /\ w.to = to
  BY DEF Issue
<1>1. OneWriter'
  BY <1>0, <1>a DEF IInv, Consistent, OneWriter, Engaged, FenceHolds, UnpersistedPCs
<1>2. SentByPC'
  BY <1>0 DEF IInv, Consistent, SentByPC
<1>3. WritesAreTrue'
  BY <1>0, <1>a DEF IInv, Consistent, WritesAreTrue
<1>4. AnswersAreTrue'
  BY <1>0, <1>a DEF IInv, Consistent, AnswersAreTrue, StartGaveUp
<1>5. Quiet' /\ SentByOwner' /\ ExpiryIsTrue' /\ RowIsTrue'
  BY DEF IInv, Consistent, SentByOwner, ExpiryIsTrue, RowIsTrue, Quiet
<1>6. Phases'
  BY <1>0, <1>a DEF IInv, Consistent, Phases, UnpersistedPCs
<1> QED
  BY <1>1, <1>2, <1>3, <1>4, <1>5, <1>6 DEF Consistent

\* An attempt whose latch is free and whose row exists owns that row.
LEMMA FreeOwns ==
  ASSUME IInv, NEW a \in Attempts, latch[a] = "free",
         pc[a] \notin {"creating", "conflictLookup"}
  PROVE  FenceHolds(a) /\ write[a].state = "none" /\ daemon = "serving"
BY DEF IInv, Consistent, OneWriter, Engaged, Quiet, TypeOK

\* Only the row's owner can have reached the upstream while the row runs.
LEMMA OwnerSent ==
  ASSUME IInv, NEW a \in Attempts, FenceHolds(a)
  PROVE  sent = {} \/ sent = {a}
BY DEF IInv, Consistent, SentByOwner, FenceHolds, TypeOK, Terminal

LEMMA SettleKeeps ==
  ASSUME IInv, NEW a \in Attempts, NEW settle \in Settles, NEW generation,
         Settle(a, settle, generation), UNCHANGED sent,
         pc[a] \in {"createLanded"} \union GuardPCs \union BeforeSendPCs \union AfterSendPCs,
         settle.status # "completed" /\ settle.error # "ambiguous" => a \notin sent,
         settle.status = "completed" => a \in sent,
         settle.error = "ambiguous" => settle.status = "failed"
  PROVE  Consistent'
<1>0. pc[a] \notin {"creating", "conflictLookup", "idle", "done", "dead"}
  BY DEF GuardPCs, BeforeSendPCs, AfterSendPCs
<1>1. CASE latch[a] = "free"
  <2>1. FenceHolds(a) /\ write[a].state = "none" /\ daemon = "serving"
    BY <1>0, <1>1, FreeOwns
  <2>2. /\ write' = [write EXCEPT ![a] = Issue("fenced", settle, generation, "outcome")]
        /\ latch' = [latch EXCEPT ![a] = "continuation"]
        /\ pc' = [pc EXCEPT ![a] = "settling"]
        /\ UNCHANGED <<row, daemon, expiry, outcome, sent>>
    BY <1>1 DEF Settle, WinsLatch, world, answers
  <2>3. "settling" \in PCs
    BY PCFacts
  <2>4. "settling" \notin UnpersistedPCs \union {"idle", "kind"} \union GuardPCs
                             \union BeforeSendPCs \union AfterSendPCs
    BY DEF UnpersistedPCs, GuardPCs, BeforeSendPCs, AfterSendPCs
  <2> QED
    BY <1>1, <2>1, <2>2, <2>3, <2>4, IssueKeeps
<1>2. CASE latch[a] # "free"
  <2>1. /\ pc' = [pc EXCEPT ![a] = "done"]
        /\ UNCHANGED <<row, daemon, latch, write, expiry, outcome, sent>>
    BY <1>2 DEF Settle, WinsLatch, world, answers
  <2>2. "done" \in PCs
    BY PCFacts
  <2>3. "done" \notin UnpersistedPCs \union {"idle", "kind"} \union GuardPCs
                             \union BeforeSendPCs \union AfterSendPCs
    BY DEF UnpersistedPCs, GuardPCs, BeforeSendPCs, AfterSendPCs
  <2> QED
    BY <1>2, <2>1, <2>2, <2>3, MoveKeeps
<1> QED
  BY <1>1, <1>2

\* An attempt of resume() that has not been handed to the call may refuse.
LEMMA TerminalizeKeeps ==
  ASSUME IInv, NEW r \in Resumers, NEW settle \in Settles, NEW to \in {"guardExpiry", "throw"},
         Terminalize(r, settle, to), pc[r] \in GuardPCs, ~DriveSettled(r),
         settle.status \in {"failed", "expired"}, settle.error # "ambiguous"
  PROVE  Consistent'
<1>0. /\ r \in Attempts /\ r # Start
      /\ latch[r] \in {"none", "free"}
      /\ r \notin sent
  BY AttemptFacts DEF IInv, TypeOK, DriveSettled, Consistent, SentByPC
<1>1. Engaged(r)
  BY <1>0 DEF Engaged, GuardPCs
<1>2. FenceHolds(r) /\ write[r].state = "none" /\ daemon = "serving"
  BY <1>0, <1>1 DEF IInv, Consistent, OneWriter, Quiet, TypeOK, GuardPCs
<1>3. /\ "settling" \in PCs
      /\ "settling" \notin UnpersistedPCs \union {"idle", "kind"} \union GuardPCs
                             \union BeforeSendPCs \union AfterSendPCs
  BY PCFacts DEF UnpersistedPCs, GuardPCs, BeforeSendPCs, AfterSendPCs
<1>4. PICK by \in {"fenced", "claimed", "put"}, l \in {"none", "continuation"} :
        /\ write' = [write EXCEPT ![r] = Issue(by, settle, 0, to)]
        /\ latch' = [latch EXCEPT ![r] = l]
        /\ pc' = [pc EXCEPT ![r] = "settling"]
        /\ UNCHANGED <<row, daemon, expiry, outcome, sent>>
  <2>1. latch = [latch EXCEPT ![r] = latch[r]]
    BY <1>0 DEF IInv, TypeOK
  <2>2. CASE latch[r] = "none"
    <3>1. /\ write' = [write EXCEPT
               ![r] = Issue(IF settle.status = "expired" THEN "put" ELSE "claimed", settle, 0, to)]
          /\ latch' = [latch EXCEPT ![r] = "none"]
          /\ pc' = [pc EXCEPT ![r] = "settling"]
          /\ UNCHANGED <<row, daemon, expiry, outcome, sent>>
      BY <2>1, <2>2 DEF Terminalize, world, answers, call
    <3> QED
      BY <3>1
  <2>3. CASE latch[r] = "free"
    <3>1. /\ write' = [write EXCEPT ![r] = Issue("fenced", settle, 0, to)]
          /\ latch' = [latch EXCEPT ![r] = "continuation"]
          /\ pc' = [pc EXCEPT ![r] = "settling"]
          /\ UNCHANGED <<row, daemon, expiry, outcome, sent>>
      BY <2>3 DEF Terminalize, world, answers, call
    <3> QED
      BY <3>1
  <2> QED
    BY <1>0, <2>2, <2>3
<1>5. /\ "settling" \notin UnpersistedPCs \union {"idle", "kind"}
      /\ "settling" \notin GuardPCs /\ "settling" \notin AfterSendPCs
  BY <1>3
<1>6. settle.status # "completed"
  BY <1>0
<1>7. "settling" \in PCs
  BY <1>3
<1> QED
  BY <1>0, <1>2, <1>4, <1>5, <1>6, <1>7, IssueKeeps

\* Whoever waited for a write hears an answer; a final one is on the row.
LEMMA DeliverKeeps ==
  ASSUME IInv, NEW a \in Attempts, NEW answer \in Answers, Deliver(a, answer),
         write[a].to # "nobody", daemon = "serving",
         answer.status \in Terminal =>
           row.status = answer.status /\ row.error = answer.error
  PROVE  Consistent'
<1>0. /\ write[a].state # "none"
      /\ pc[a] \notin {"idle", "creating", "conflictLookup"}
      /\ ~Engaged(a)
  BY DEF IInv, Consistent, Phases, OneWriter
<1>1. \A b \in Attempts :
        /\ write'[b].state = write[b].state
        /\ write'[b].by = write[b].by
        /\ write'[b].settle = write[b].settle
        /\ write'[b].to = IF b = a THEN "nobody" ELSE write[b].to
  <2>1. write \in [Attempts -> Writes] /\ write' = [write EXCEPT ![a].to = "nobody"]
    BY DEF IInv, TypeOK, Deliver
  <2>2. write[a] \in IssuedWrites
    BY <2>1, <1>0, WriteFields
  <2> QED
    BY <2>1, <2>2 DEF IssuedWrites
<1>2. UNCHANGED <<row, daemon, latch, sent>>
  BY DEF Deliver, world, call
<1>3. \A b \in Attempts : pc'[b] = IF b = a THEN pc'[a] ELSE pc[b]
  BY DEF Deliver, GuardAnswers, IInv, TypeOK
<1>4. pc'[a] \in {pc[a], "done"}
  BY DEF Deliver, GuardAnswers, IInv, TypeOK
<1>5. \A b \in Attempts : outcome'[b] = outcome[b] \/ (b = a /\ outcome'[b] = answer)
  BY DEF Deliver, GuardAnswers, IInv, TypeOK
<1>6. \A b \in Attempts : expiry'[b] = expiry[b] \/ (b = a /\ expiry'[b] = answer)
  BY DEF Deliver, GuardAnswers, IInv, TypeOK
<1>7. pc[a] \in UnpersistedPCs => UNCHANGED outcome
  BY <1>0, <1>3 DEF IInv, Consistent, OneWriter, Engaged, UnpersistedPCs
<1>8. "done" \notin UnpersistedPCs \union {"idle", "kind", "awaitExpiry"} \union GuardPCs
                       \union BeforeSendPCs \union AfterSendPCs
  BY DEF UnpersistedPCs, GuardPCs, BeforeSendPCs, AfterSendPCs
<1>9. OneWriter'
  BY <1>0, <1>1, <1>2, <1>3, <1>4, <1>8
     DEF IInv, Consistent, OneWriter, Engaged, FenceHolds, UnpersistedPCs
<1>10. SentByPC'
  BY <1>2, <1>3, <1>4, <1>8 DEF IInv, Consistent, SentByPC
<1>11. WritesAreTrue'
  BY <1>1, <1>2 DEF IInv, Consistent, WritesAreTrue
<1>12. AnswersAreTrue'
  BY <1>0, <1>1, <1>2, <1>5, AttemptFacts DEF IInv, Consistent, AnswersAreTrue, StartGaveUp
<1>13. ExpiryIsTrue'
  BY <1>2, <1>6 DEF IInv, Consistent, ExpiryIsTrue
<1>14. SentByOwner' /\ RowIsTrue' /\ Quiet'
  BY <1>2 DEF IInv, Consistent, SentByOwner, RowIsTrue, Quiet
<1>15. Phases'
  BY <1>0, <1>1, <1>2, <1>3, <1>4, <1>5, <1>7, <1>8, AttemptFacts
     DEF IInv, Consistent, Phases, UnpersistedPCs
<1> QED
  BY <1>9, <1>10, <1>11, <1>12, <1>13, <1>14, <1>15 DEF Consistent

\* While the row runs, the only final answer there can be is the one a start
\* gave before its row was known to exist.
LEMMA RunningAnswers ==
  ASSUME IInv, row.status \notin Terminal
  PROVE  /\ \A a \in Attempts : outcome[a].status \in Terminal =>
              a = Start /\ outcome[a].status = "failed" /\ StartGaveUp
         /\ \A a \in Attempts : expiry[a].status \notin Terminal
         /\ \A a \in Attempts : write[a].state = "written" => write[a].settle.status \notin Terminal
BY DEF IInv, Consistent, AnswersAreTrue, ExpiryIsTrue, WritesAreTrue

LEMMA WriteLandsKeeps ==
  ASSUME IInv, NEW a \in Attempts, WriteLands(a)
  PROVE  Consistent'
<1> DEFINE w == write[a]
<1>0. /\ FenceHolds(a)
      /\ w.state = "pending"
      /\ row.status \notin Terminal
  BY DEF WriteLands, IInv, Consistent, OneWriter, FenceHolds, Terminal
<1>1. /\ row' = Settled(w.settle, w.generation)
      /\ write' = [write EXCEPT ![a].state = "written"]
  BY <1>0 DEF WriteLands, FenceHolds
<1>2. /\ row \in Rows /\ write \in [Attempts -> Writes]
      /\ w \in IssuedWrites
  <2>1. row \in Rows /\ write \in [Attempts -> Writes]
    BY DEF IInv, TypeOK
  <2> QED
    BY <1>0, <2>1, WriteFields
<1>3. /\ row'.status = w.settle.status
      /\ row'.error = w.settle.error
      /\ row'.attempt = a
      /\ w.settle.status \in {"completed", "failed", "expired", "paused"}
  BY <1>0, <1>1, <1>2 DEF Settled, Rows, FenceHolds, IssuedWrites, Settles
<1>4. \A b \in Attempts :
        /\ write'[b].state = IF b = a THEN "written" ELSE write[b].state
        /\ write'[b].by = write[b].by
        /\ write'[b].settle = write[b].settle
        /\ write'[b].to = write[b].to
  BY <1>1, <1>2 DEF IssuedWrites
<1>5. UNCHANGED <<daemon, pc, latch, sent, outcome, expiry>>
  BY DEF WriteLands, world, answers, call
<1>6. sent = {} \/ sent = {a}
  BY <1>0, OwnerSent
<1>7. \A b \in Attempts : ~Engaged(b) /\ (write[b].state = "pending" => b = a)
  BY <1>0 DEF IInv, Consistent, OneWriter, FenceHolds
<1>8. OneWriter'
  BY <1>4, <1>5, <1>7 DEF IInv, Consistent, OneWriter, Engaged
<1>9. SentByPC' /\ Quiet'
  BY <1>4, <1>5 DEF IInv, Consistent, SentByPC, Quiet
<1>10. WritesAreTrue'
  BY <1>0, <1>3, <1>4, <1>5, RunningAnswers DEF IInv, Consistent, WritesAreTrue
<1>11. SentByOwner' /\ RowIsTrue'
  BY <1>0, <1>3, <1>5, <1>6 DEF IInv, Consistent, WritesAreTrue, SentByOwner, RowIsTrue, Terminal
<1>12. AnswersAreTrue'
  BY <1>0, <1>3, <1>4, <1>5, RunningAnswers, AttemptFacts
     DEF AnswersAreTrue, StartGaveUp, FenceHolds
<1>13. ExpiryIsTrue'
  BY <1>0, <1>5, RunningAnswers DEF ExpiryIsTrue
<1>14. Phases'
  BY <1>0, <1>3, <1>4, <1>5, AttemptFacts DEF IInv, Consistent, Phases, FenceHolds
<1> QED
  BY <1>8, <1>9, <1>10, <1>11, <1>12, <1>13, <1>14 DEF Consistent

LEMMA WriteRejectedKeeps ==
  ASSUME IInv, NEW a \in Attempts, WriteRejected(a)
  PROVE  Consistent'
<1> DEFINE w == write[a]
<1>1. /\ w.state = "pending" /\ w \in IssuedWrites /\ write \in [Attempts -> Writes]
      /\ daemon = "serving"
  BY WriteFields DEF WriteRejected, IInv, TypeOK
<1>2. PICK v : /\ write' = [write EXCEPT ![a] = v]
               /\ v.state \in {"pending", "failed"}
               /\ \/ v.settle = w.settle /\ v.by = w.by
                  \/ /\ v.settle = Failed("internal") /\ v.by # "fenced" /\ w.by # "fenced"
  <2> DEFINE listener == IF w.to = "nobody" THEN "nobody" ELSE "throw"
             again == w.by = "put" /\ w.settle.status = "expired"
             asCode == w.by = "put" /\ w.settle.status = "failed" /\ w.to = "throw"
             Fits(v) == /\ write' = [write EXCEPT ![a] = v]
                        /\ v.state \in {"pending", "failed"}
                        /\ \/ v.settle = w.settle /\ v.by = w.by
                           \/ v.settle = Failed("internal") /\ v.by # "fenced" /\ w.by # "fenced"
  <2>1. CASE again
    <3>1. Fits(Issue("put", Failed("internal"), 0, listener))
      BY <2>1 DEF WriteRejected, Issue
    <3> QED
      BY <3>1
  <2>2. CASE ~again /\ asCode
    <3>1. Fits(Issue("claimed", Failed("internal"), 0, "throw"))
      BY <2>2 DEF WriteRejected, Issue
    <3> QED
      BY <3>1
  <2>3. CASE ~again /\ ~asCode
    <3>1. write' = [write EXCEPT ![a] = [w EXCEPT !.state = "failed"]]
      BY <2>3 DEF WriteRejected
    <3>2. Fits([w EXCEPT !.state = "failed"])
      BY <1>1, <3>1 DEF IssuedWrites
    <3> QED
      BY <3>2
  <2> QED
    BY <2>1, <2>2, <2>3
<1>3. /\ \A b \in Attempts : write'[b] = IF b = a THEN v ELSE write[b]
      /\ UNCHANGED <<row, daemon, pc, latch, outcome, expiry, sent>>
      /\ Failed("internal").status = "failed" /\ Failed("internal").error = "internal"
  BY <1>1, <1>2 DEF WriteRejected, world, answers, call, Failed
<1>4. OneWriter'
  BY <1>1, <1>2, <1>3 DEF IInv, Consistent, OneWriter, Engaged, FenceHolds
<1>5. WritesAreTrue'
  BY <1>1, <1>2, <1>3 DEF IInv, Consistent, WritesAreTrue
<1>6. AnswersAreTrue'
  BY <1>1, <1>2, <1>3, AttemptFacts DEF IInv, Consistent, AnswersAreTrue, StartGaveUp
<1>7. SentByPC' /\ SentByOwner' /\ ExpiryIsTrue' /\ RowIsTrue' /\ Quiet'
  BY <1>1, <1>3 DEF IInv, Consistent, SentByPC, SentByOwner, ExpiryIsTrue, RowIsTrue, Quiet
<1>8. Phases'
  BY <1>1, <1>2, <1>3 DEF IInv, Consistent, Phases
<1> QED
  BY <1>4, <1>5, <1>6, <1>7, <1>8 DEF Consistent

LEMMA TimerKeeps ==
  ASSUME IInv, NEW a \in Attempts, TimerFires(a)
  PROVE  Consistent'
<1>1. /\ latch[a] = "free"
      /\ latch' = [latch EXCEPT ![a] = "timer"]
      /\ UNCHANGED <<row, daemon, pc, sent, expiry>>
      /\ daemon = "serving"
  BY DEF TimerFires, world, answers, call, IInv, TypeOK, Consistent, Quiet
<1>2. CASE pc[a] \in UnpersistedPCs
  <2>1. /\ a = Start /\ a \notin sent
        /\ outcome' = [outcome EXCEPT ![Start] = Failed("interrupted")]
        /\ UNCHANGED write
    BY <1>2 DEF TimerFires, ClassifyExpiry, Classify, IInv, Consistent, Phases, SentByPC
  <2>2. /\ sent = {}
        /\ row.status \in {"absent", "running"}
        /\ row.attempt \in {Start, Nobody}
        /\ write[Start].state = "none"
    <3>1. CASE pc[a] \in {"creating", "conflictLookup"}
      BY <2>1, <3>1, AttemptFacts DEF IInv, Consistent, Phases, RowIsTrue
    <3>2. CASE pc[a] = "createLanded"
      <4>1. FenceHolds(a) /\ write[a].state = "none"
        BY <1>1, <3>2, FreeOwns
      <4> QED
        BY <2>1, <4>1, OwnerSent DEF FenceHolds
    <3> QED
      BY <1>2, <3>1, <3>2 DEF UnpersistedPCs
  <2>3. /\ \A b \in Attempts : latch'[b] = IF b = Start THEN "timer" ELSE latch[b]
        /\ \A b \in Attempts :
             outcome'[b] = IF b = Start THEN Failed("interrupted") ELSE outcome[b]
        /\ Failed("interrupted").status = "failed"
    BY <1>1, <2>1 DEF IInv, TypeOK, Failed
  <2>4. OneWriter' /\ SentByPC' /\ SentByOwner' /\ ExpiryIsTrue' /\ RowIsTrue' /\ Quiet'
    BY <1>1, <2>1, <2>3 DEF IInv, Consistent, OneWriter, Engaged, FenceHolds, SentByPC,
                            SentByOwner, ExpiryIsTrue, RowIsTrue, Quiet
  <2>5. WritesAreTrue'
    BY <1>1, <2>1, <2>3 DEF IInv, Consistent, WritesAreTrue
  <2>6. AnswersAreTrue'
    BY <1>1, <2>1, <2>2, <2>3, AttemptFacts DEF IInv, Consistent, AnswersAreTrue, StartGaveUp
  <2>7. Phases'
    BY <1>1, <1>2, <2>1, <2>3 DEF IInv, Consistent, Phases, UnpersistedPCs
  <2> QED
    BY <2>4, <2>5, <2>6, <2>7 DEF Consistent
<1>3. CASE pc[a] \notin UnpersistedPCs
  <2>1. FenceHolds(a) /\ write[a].state = "none"
    BY <1>1, <1>3, FreeOwns DEF UnpersistedPCs
  <2>2. PICK to \in {"guardExpiry", "outcome"} :
          write' = [write EXCEPT ![a] = Issue("fenced", ClassifyExpiry(a), 0, to)]
    BY <1>3 DEF TimerFires
  <2>3. /\ pc' = [pc EXCEPT ![a] = pc[a]]
        /\ pc[a] \in PCs
        /\ UNCHANGED outcome
    BY <1>1, <1>3 DEF IInv, TypeOK, TimerFires
  <2>4. pc[a] \notin {"idle", "kind"}
    BY <1>1 DEF IInv, Consistent, Phases
  <2>5. /\ ClassifyExpiry(a) \in Settles
        /\ ClassifyExpiry(a).status = "failed"
        /\ ClassifyExpiry(a).error # "ambiguous" => a \notin sent
    BY ClassifyType DEF ClassifyExpiry, Classify, Errors, Failed
  <2>6. /\ a \in sent => pc[a] \notin BeforeSendPCs \union GuardPCs \union {"awaitExpiry"}
        /\ pc[a] \in AfterSendPCs => a \in sent
    BY DEF IInv, Consistent, SentByPC
  <2> HIDE DEF ClassifyExpiry
  <2> QED
    BY <1>1, <1>3, <2>1, <2>2, <2>3, <2>4, <2>5, <2>6, IssueKeeps
<1> QED
  BY <1>2, <1>3

-----------------------------------------------------------------------------
(* One lemma per part of the next-state relation *)

LEMMA BeginDriveKeeps ==
  ASSUME IInv, NEW a \in Attempts, BeginDrive(a),
         pc[a] \in {"createLanded"} \union GuardPCs, ~DriveSettled(a),
         latch[a] = "none" => pc[a] \in GuardPCs
  PROVE  Consistent'
<1>0. a \notin sent
  BY DEF IInv, Consistent, SentByPC, UnpersistedPCs
<1>1. CASE Settle(a, Failed("internal"), 0) /\ UNCHANGED call
  <2>1. /\ Failed("internal") \in Settles
        /\ Failed("internal").status = "failed" /\ Failed("internal").error = "internal"
    BY ValueTypes DEF Failed, Errors
  <2> HIDE DEF Failed
  <2> QED
    BY <1>0, <1>1, <2>1, SettleKeeps DEF call
<1>2. CASE ~(Settle(a, Failed("internal"), 0) /\ UNCHANGED call)
  <2>1. /\ pc' = [pc EXCEPT ![a] = "tool"]
        /\ UNCHANGED <<row, daemon, latch, write, expiry, outcome, sent>>
    BY <1>2 DEF BeginDrive, world, answers
  <2>2. /\ "tool" \in PCs \ UnpersistedPCs
        /\ "tool" \notin {"idle", "kind"} \union GuardPCs \union AfterSendPCs
        /\ pc[a] \notin {"creating", "conflictLookup", "idle", "done", "dead"}
    BY PCFacts DEF UnpersistedPCs, GuardPCs, AfterSendPCs, BeforeSendPCs
  <2>3. daemon = "serving"
    BY <2>2 DEF IInv, TypeOK, Consistent, Quiet
  <2> QED
    BY <1>0, <2>1, <2>2, <2>3, MoveKeeps
<1> QED
  BY <1>1, <1>2

LEMMA StartStepKeeps ==
  ASSUME IInv, StartStep
  PROVE  Consistent'
<1>0. Start \in Attempts
  BY AttemptFacts
<1>1. CASE StartDirect
  <2>1. /\ pc[Start] = "idle" /\ row.status = "absent" /\ row.attempt = Nobody
        /\ latch[Start] = "none" /\ write[Start].state = "none"
        /\ outcome[Start] = NoAnswer /\ sent = {} /\ daemon = "serving"
    BY <1>0, <1>1 DEF StartDirect, IInv, Consistent, Phases, RowIsTrue
  <2>2. UNCHANGED <<row, daemon, write, expiry, sent>>
    BY <1>1 DEF StartDirect, world, call
  <2>3. CASE /\ pc' = [pc EXCEPT ![Start] = "creating"]
             /\ latch' = [latch EXCEPT ![Start] = "free"]
             /\ UNCHANGED outcome
    <3>1. \A b \in Attempts :
            /\ pc'[b] = IF b = Start THEN "creating" ELSE pc[b]
            /\ latch'[b] = IF b = Start THEN "free" ELSE latch[b]
      BY <2>3 DEF IInv, TypeOK
    <3>2. OneWriter' /\ SentByPC' /\ SentByOwner' /\ ExpiryIsTrue' /\ RowIsTrue' /\ Quiet'
      BY <2>1, <2>2, <2>3, <3>1
         DEF IInv, Consistent, OneWriter, Engaged, FenceHolds, SentByPC, SentByOwner,
             ExpiryIsTrue, RowIsTrue, Quiet, GuardPCs, AfterSendPCs
    <3>3. WritesAreTrue' /\ AnswersAreTrue'
      BY <2>1, <2>2, <2>3, <3>1
         DEF IInv, Consistent, WritesAreTrue, AnswersAreTrue, StartGaveUp, NoAnswer, Terminal
    <3>4. Phases'
      BY <1>0, <2>1, <2>2, <2>3, <3>1 DEF IInv, Consistent, Phases, UnpersistedPCs
    <3> QED
      BY <3>2, <3>3, <3>4 DEF Consistent
  <2>4. CASE /\ pc' = [pc EXCEPT ![Start] = "done"]
             /\ latch' = [latch EXCEPT ![Start] = "continuation"]
             /\ outcome' = [outcome EXCEPT ![Start] = Failed("internal")]
    <3>1. /\ \A b \in Attempts :
               /\ pc'[b] = IF b = Start THEN "done" ELSE pc[b]
               /\ latch'[b] = IF b = Start THEN "continuation" ELSE latch[b]
               /\ outcome'[b] = IF b = Start THEN Failed("internal") ELSE outcome[b]
          /\ Failed("internal").status = "failed"
      BY <2>4 DEF IInv, TypeOK, Failed
    <3>2. OneWriter' /\ SentByPC' /\ SentByOwner' /\ ExpiryIsTrue' /\ RowIsTrue' /\ Quiet'
      BY <2>1, <2>2, <3>1
         DEF IInv, Consistent, OneWriter, Engaged, FenceHolds, SentByPC, SentByOwner,
             ExpiryIsTrue, RowIsTrue, Quiet, GuardPCs, AfterSendPCs, BeforeSendPCs,
             UnpersistedPCs
    <3>3. WritesAreTrue' /\ AnswersAreTrue'
      BY <1>0, <2>1, <2>2, <3>1, AttemptFacts
         DEF IInv, Consistent, WritesAreTrue, AnswersAreTrue, StartGaveUp
    <3>4. Phases'
      BY <1>0, <2>1, <2>2, <3>1 DEF IInv, Consistent, Phases, UnpersistedPCs
    <3> QED
      BY <3>2, <3>3, <3>4 DEF Consistent
  <2> QED
    BY <1>1, <2>3, <2>4 DEF StartDirect
<1>2. CASE CreateLands
  <2>1. /\ pc[Start] = "creating" /\ row.status = "absent"
        /\ latch[Start] # "none" /\ write[Start].state = "none"
        /\ outcome[Start] \in {NoAnswer, Failed("interrupted")}
        /\ sent = {} /\ row \in Rows /\ row.status \notin Terminal /\ daemon = "serving"
    BY <1>0, <1>2 DEF CreateLands, IInv, TypeOK, Consistent, Phases, RowIsTrue, UnpersistedPCs,
                      Terminal, Quiet
  <2>2. /\ row'.status = "running" /\ row'.attempt = Start
        /\ \A b \in Attempts : pc'[b] = IF b = Start THEN "createLanded" ELSE pc[b]
        /\ UNCHANGED <<daemon, latch, write, expiry, outcome, sent>>
    BY <1>2, <2>1 DEF CreateLands, IInv, TypeOK, Rows, world, answers, call
  <2>3. \A b \in Attempts : ~Engaged(b) /\ write[b].state # "pending"
    BY <2>1 DEF IInv, Consistent, OneWriter, FenceHolds
  <2>4. OneWriter' /\ SentByPC' /\ SentByOwner' /\ RowIsTrue' /\ Quiet'
    BY <2>1, <2>2, <2>3
       DEF IInv, Consistent, OneWriter, Engaged, FenceHolds, SentByPC, SentByOwner,
           RowIsTrue, Quiet, GuardPCs, AfterSendPCs
  <2>5. WritesAreTrue' /\ ExpiryIsTrue'
    BY <2>1, <2>2, RunningAnswers DEF IInv, Consistent, WritesAreTrue, ExpiryIsTrue
  <2>6. AnswersAreTrue'
    BY <2>1, <2>2, RunningAnswers DEF AnswersAreTrue, StartGaveUp, NoAnswer, Terminal
  <2>7. Phases'
    BY <1>0, <2>1, <2>2 DEF IInv, Consistent, Phases, UnpersistedPCs
  <2> QED
    BY <2>4, <2>5, <2>6, <2>7 DEF Consistent
<1>3. CASE CreateRejected
  <2>1. /\ pc[Start] = "creating"
        /\ \A b \in Attempts : pc'[b] = IF b = Start THEN "conflictLookup" ELSE pc[b]
        /\ UNCHANGED <<row, daemon, latch, write, expiry, outcome, sent>>
        /\ daemon = "serving"
    BY <1>0, <1>3 DEF CreateRejected, IInv, TypeOK, world, answers, call, Consistent, Quiet
  <2>2. OneWriter' /\ SentByPC' /\ SentByOwner' /\ RowIsTrue' /\ Quiet' /\ ExpiryIsTrue'
    BY <2>1 DEF IInv, Consistent, OneWriter, Engaged, FenceHolds, SentByPC, SentByOwner,
                RowIsTrue, Quiet, ExpiryIsTrue, GuardPCs, AfterSendPCs, UnpersistedPCs
  <2>3. WritesAreTrue' /\ AnswersAreTrue'
    BY <2>1 DEF IInv, Consistent, WritesAreTrue, AnswersAreTrue, StartGaveUp
  <2>4. Phases'
    BY <1>0, <2>1 DEF IInv, Consistent, Phases, UnpersistedPCs
  <2> QED
    BY <2>2, <2>3, <2>4 DEF Consistent
<1>4. CASE ConflictLookup
  <2>1. /\ pc[Start] = "conflictLookup" /\ row.status = "absent" /\ row.attempt = Nobody
        /\ sent = {} /\ write[Start].state = "none" /\ latch[Start] # "none"
        /\ \A b \in Attempts : pc'[b] = IF b = Start THEN "done" ELSE pc[b]
        /\ UNCHANGED <<row, daemon, write, expiry, sent>>
        /\ daemon = "serving"
    BY <1>0, <1>4 DEF ConflictLookup, IInv, TypeOK, world, call, Consistent, Phases,
                      RowIsTrue, UnpersistedPCs, Quiet
  <2>2. /\ \A b \in Attempts : latch'[b] = latch[b] \/ b = Start
        /\ latch'[Start] \in {"continuation", "timer"}
        /\ \A b \in Attempts : outcome'[b] = outcome[b] \/ b = Start
        /\ outcome'[Start] \in {outcome[Start], Says("conflict"), Failed("internal")}
        /\ Says("conflict").status = "conflict" /\ Failed("internal").status = "failed"
    BY <1>0, <1>4, <2>1 DEF ConflictLookup, IInv, TypeOK, Says, Failed
  <2>3. OneWriter' /\ SentByPC' /\ SentByOwner' /\ RowIsTrue' /\ Quiet' /\ ExpiryIsTrue'
    BY <2>1, <2>2
       DEF IInv, Consistent, OneWriter, Engaged, FenceHolds, SentByPC, SentByOwner,
           RowIsTrue, Quiet, ExpiryIsTrue, GuardPCs, AfterSendPCs, BeforeSendPCs, UnpersistedPCs
  <2>4. WritesAreTrue'
    BY <2>1, <2>2 DEF IInv, Consistent, WritesAreTrue
  <2>5. AnswersAreTrue'
    BY <2>1, <2>2, AttemptFacts DEF IInv, Consistent, AnswersAreTrue, StartGaveUp, Terminal
  <2>6. Phases'
    BY <1>0, <2>1, <2>2 DEF IInv, Consistent, Phases, UnpersistedPCs
  <2> QED
    BY <2>3, <2>4, <2>5, <2>6 DEF Consistent
<1>5. CASE CreateReturns
  <2>1. /\ pc[Start] = "createLanded" /\ latch[Start] # "none"
        /\ FenceHolds(Start) /\ write[Start].state = "none" /\ daemon = "serving"
        /\ Start \notin sent
    BY <1>0, <1>5 DEF CreateReturns, IInv, TypeOK, Consistent, OneWriter, Engaged, Phases,
                      UnpersistedPCs, SentByPC, Quiet
  <2>2. CASE DriveSettled(Start)
    <3>1. /\ latch[Start] \in {"continuation", "timer"}
          /\ latch' = [latch EXCEPT ![Start] = latch[Start]]
          /\ pc' = [pc EXCEPT ![Start] = "done"]
          /\ write' = [write EXCEPT ![Start] = Issue("fenced", Failed("interrupted"), 0, "nobody")]
          /\ UNCHANGED <<row, daemon, expiry, outcome, sent>>
      BY <1>5, <2>2 DEF CreateReturns, DriveSettled, IInv, TypeOK, world, answers, call
    <3>2. /\ Failed("interrupted") \in Settles
          /\ Failed("interrupted").status = "failed" /\ Failed("interrupted").error = "interrupted"
      BY ValueTypes DEF Failed, Errors
    <3>3. /\ "done" \in PCs
          /\ "done" \notin UnpersistedPCs \union {"idle", "kind", "awaitExpiry"} \union GuardPCs
                             \union BeforeSendPCs \union AfterSendPCs
      BY PCFacts DEF UnpersistedPCs, GuardPCs, BeforeSendPCs, AfterSendPCs
    <3> HIDE DEF Failed
    <3> QED
      BY <1>0, <2>1, <3>1, <3>2, <3>3, IssueKeeps
  <2>3. CASE ~DriveSettled(Start)
    BY <1>0, <1>5, <2>1, <2>3, BeginDriveKeeps DEF CreateReturns
  <2> QED
    BY <2>2, <2>3
<1> QED
  BY <1>1, <1>2, <1>3, <1>4, <1>5 DEF StartStep

\* resume() answers without having a write to wait for.
LEMMA GuardAnswersKeeps ==
  ASSUME IInv, NEW r \in Resumers, NEW answer, GuardAnswers(r, answer),
         UNCHANGED <<row, daemon, latch, write, expiry, sent>>, daemon = "serving",
         answer.status \in Terminal =>
           row.status = answer.status /\ row.error = answer.error
  PROVE  Consistent'
<1>1. /\ r \in Attempts /\ r # Start /\ Start \in Attempts
      /\ \A b \in Attempts :
           /\ pc'[b] = IF b = r THEN "done" ELSE pc[b]
           /\ outcome'[b] = IF b = r THEN answer ELSE outcome[b]
  BY AttemptFacts DEF GuardAnswers, IInv, TypeOK
<1>a. pc[r] \notin UnpersistedPCs
  BY <1>1 DEF IInv, Consistent, Phases
<1>2. OneWriter' /\ SentByPC' /\ SentByOwner' /\ RowIsTrue' /\ Quiet' /\ ExpiryIsTrue'
  BY <1>a, <1>1 DEF IInv, Consistent, OneWriter, Engaged, FenceHolds, SentByPC, SentByOwner, RowIsTrue,
              Quiet, ExpiryIsTrue, GuardPCs, AfterSendPCs, BeforeSendPCs, UnpersistedPCs
<1>3. WritesAreTrue' /\ AnswersAreTrue'
  BY <1>1 DEF IInv, Consistent, WritesAreTrue, AnswersAreTrue, StartGaveUp
<1>4. Phases'
  BY <1>1 DEF IInv, Consistent, Phases, UnpersistedPCs
<1> QED
  BY <1>2, <1>3, <1>4 DEF Consistent

LEMMA GuardKeeps ==
  ASSUME IInv, NEW r \in Resumers, NEW at \in GuardPCs, NEW refusal \in Errors \ {"ambiguous"},
         NEW next \in GuardPCs, Guard(r, at, refusal, next)
  PROVE  Consistent'
<1>0. r \in Attempts /\ pc[r] \in GuardPCs /\ ~DriveSettled(r)
  BY AttemptFacts DEF Guard
<1>1. CASE refusal # "none"
  <2>1. /\ Failed(refusal) \in Settles
        /\ Failed(refusal).status = "failed" /\ Failed(refusal).error # "ambiguous"
    BY ValueTypes DEF Failed
  <2>2. Terminalize(r, Failed(refusal), "guardExpiry")
    BY <1>1 DEF Guard, Refuse
  <2> HIDE DEF Failed
  <2> QED
    BY <1>0, <2>1, <2>2, TerminalizeKeeps
<1>2. CASE refusal = "none"
  <2>1. /\ pc' = [pc EXCEPT ![r] = next]
        /\ UNCHANGED <<row, daemon, latch, write, expiry, outcome, sent>>
    BY <1>2 DEF Guard, world, answers, call
  <2>2. /\ next \in PCs
        /\ next \notin UnpersistedPCs \union {"idle", "kind"} \union AfterSendPCs
        /\ pc[r] \notin {"creating", "conflictLookup", "idle", "done", "dead"}
    BY <1>0, PCFacts DEF GuardPCs, UnpersistedPCs, AfterSendPCs
  <2>3. daemon = "serving" /\ r \notin sent
    BY <1>0, <2>2 DEF IInv, TypeOK, Consistent, Quiet, SentByPC
  <2> QED
    BY <1>0, <2>1, <2>2, <2>3, MoveKeeps
<1> QED
  BY <1>1, <1>2

LEMMA ClaimKeeps ==
  ASSUME IInv, NEW r \in Resumers, Claim(r)
  PROVE  Consistent'
<1>0. r \in Attempts /\ r # Start /\ Start \in Attempts
  BY AttemptFacts
<1>1. PICK namesPending \in BOOLEAN :
       IF Claimable(namesPending)
       THEN /\ row' = [row EXCEPT !.status = "running", !.attempt = r]
            /\ seen' = [seen EXCEPT ![r].claimed = catalog.generation,
                                    ![r].approved = row.generation]
            /\ pc' = [pc EXCEPT ![r] = "kind"]
            /\ UNCHANGED answers
       ELSE /\ GuardAnswers(r, Says("conflict"))
            /\ UNCHANGED <<row, seen, expiry>>
  BY DEF Claim
<1>2. /\ UNCHANGED <<daemon, latch, write, sent>>
      /\ pc[r] = "idle" /\ daemon = "serving"
  BY DEF Claim, world
<1>3. CASE ~Claimable(namesPending)
  <2>1. Says("conflict").status \notin Terminal
    BY DEF Says, Terminal
  <2> QED
    BY <1>1, <1>2, <1>3, <2>1, GuardAnswersKeeps
<1>4. CASE Claimable(namesPending)
  <2>1. /\ row.status = "paused" /\ row.status \notin Terminal /\ row \in Rows
        /\ sent = {} /\ latch[r] = "none" /\ write[r].state = "none"
        /\ outcome[r] = NoAnswer
    BY <1>0, <1>2, <1>4 DEF Claimable, Terminal, IInv, TypeOK, Consistent, RowIsTrue, Phases
  <2>2. /\ row'.status = "running" /\ row'.attempt = r
        /\ \A b \in Attempts : pc'[b] = IF b = r THEN "kind" ELSE pc[b]
        /\ UNCHANGED <<expiry, outcome>>
    <3>1. /\ row' = [row EXCEPT !.status = "running", !.attempt = r]
          /\ pc' = [pc EXCEPT ![r] = "kind"]
          /\ UNCHANGED <<expiry, outcome>>
      BY <1>1, <1>4 DEF answers
    <3>2. row'.status = "running" /\ row'.attempt = r
      BY <2>1, <3>1 DEF Rows
    <3>3. \A b \in Attempts : pc'[b] = IF b = r THEN "kind" ELSE pc[b]
      BY <3>1 DEF IInv, TypeOK
    <3> QED
      BY <3>1, <3>2, <3>3
  <2>3. \A b \in Attempts : ~Engaged(b) /\ write[b].state # "pending"
    BY <2>1 DEF IInv, Consistent, OneWriter, FenceHolds
  <2>4. \A b \in Attempts : outcome[b].status \notin Terminal
    BY <2>1, RunningAnswers DEF StartGaveUp
  <2>5. OneWriter' /\ SentByPC' /\ SentByOwner' /\ RowIsTrue' /\ Quiet'
    BY <1>0, <1>2, <2>1, <2>2, <2>3
       DEF IInv, Consistent, OneWriter, Engaged, FenceHolds, SentByPC, SentByOwner,
           RowIsTrue, Quiet, GuardPCs, AfterSendPCs
  <2>6. WritesAreTrue' /\ ExpiryIsTrue' /\ AnswersAreTrue'
    BY <1>2, <2>1, <2>2, <2>4, RunningAnswers
       DEF IInv, Consistent, WritesAreTrue, ExpiryIsTrue, AnswersAreTrue
  <2>7. Phases'
    BY <1>0, <1>2, <2>1, <2>2 DEF IInv, Consistent, Phases, UnpersistedPCs
  <2> QED
    BY <2>5, <2>6, <2>7 DEF Consistent
<1> QED
  BY <1>3, <1>4

LEMMA GuardStepKeeps ==
  ASSUME IInv, NEW r \in Resumers, GuardStep(r)
  PROVE  Consistent'
<1>0. r \in Attempts /\ r # Start /\ Start \in Attempts
  BY AttemptFacts
<1>a. {"internal", "none", "catalogChanged", "scopeRevoked"} \subseteq Errors \ {"ambiguous"}
  BY DEF Errors
<1>b. /\ Failed("internal") \in Settles /\ Says("expired") \in Settles
      /\ Failed("internal").status = "failed" /\ Failed("internal").error = "internal"
      /\ Says("expired").status = "expired" /\ Says("expired").error = "none"
  BY ValueTypes DEF Failed, Says, Errors
<1>1. CASE Claim(r)
  BY <1>1, ClaimKeeps
<1>2. CASE KindAnswers(r) \/ KindTimesOut(r)
  <2>1. /\ pc[r] = "kind" /\ latch[r] = "none" /\ r \notin sent
        /\ FenceHolds(r) /\ write[r].state = "none" /\ daemon = "serving"
    BY <1>0, <1>2 DEF KindAnswers, KindTimesOut, IInv, TypeOK, Consistent, Phases, OneWriter,
                      Engaged, SentByPC, Quiet
  <2>2. CASE KindAnswers(r)
    <3>1. /\ UNCHANGED <<row, daemon, write, expiry, outcome, sent>>
          /\ \A b \in Attempts : pc'[b] = IF b = r THEN "readPause" ELSE pc[b]
          /\ \A b \in Attempts : latch'[b] = latch[b] \/ (b = r /\ latch'[b] = "free")
      BY <1>0, <2>2 DEF KindAnswers, IInv, TypeOK, world, answers, call
    <3>2. OneWriter' /\ SentByPC' /\ SentByOwner' /\ RowIsTrue' /\ Quiet' /\ ExpiryIsTrue'
      BY <1>0, <2>1, <3>1
         DEF IInv, Consistent, OneWriter, Engaged, FenceHolds, SentByPC, SentByOwner,
             RowIsTrue, Quiet, ExpiryIsTrue, GuardPCs, AfterSendPCs, UnpersistedPCs
    <3>3. WritesAreTrue' /\ AnswersAreTrue'
      BY <1>0, <2>1, <3>1 DEF IInv, Consistent, WritesAreTrue, AnswersAreTrue, StartGaveUp
    <3>4. Phases'
      BY <1>0, <2>1, <3>1 DEF IInv, Consistent, Phases, UnpersistedPCs
    <3> QED
      BY <3>2, <3>3, <3>4 DEF Consistent
  <2>3. CASE KindTimesOut(r)
    <3>1. /\ latch' = [latch EXCEPT ![r] = "none"]
          /\ pc' = [pc EXCEPT ![r] = "settling"]
          /\ write' = [write EXCEPT ![r] = Issue("claimed", Failed("internal"), 0, "unknown")]
          /\ UNCHANGED <<row, daemon, expiry, outcome, sent>>
      BY <2>1, <2>3 DEF KindTimesOut, IInv, TypeOK, world, answers, call
    <3>2. /\ "settling" \in PCs
          /\ "settling" \notin UnpersistedPCs \union {"idle", "kind"} \union GuardPCs
                                 \union BeforeSendPCs \union AfterSendPCs
      BY PCFacts DEF UnpersistedPCs, GuardPCs, BeforeSendPCs, AfterSendPCs
    <3> HIDE DEF Failed
    <3> QED
      BY <1>0, <1>b, <2>1, <3>1, <3>2, IssueKeeps
  <2> QED
    BY <1>2, <2>2, <2>3
<1>3. CASE PauseAnswers(r)
  BY <1>3, <1>a, GuardKeeps DEF PauseAnswers, GuardPCs
<1>4. CASE PauseExpired(r)
  <2>1. pc[r] \in GuardPCs /\ ~DriveSettled(r) /\ Terminalize(r, Says("expired"), "guardExpiry")
    BY <1>4 DEF PauseExpired, GuardPCs
  <2> HIDE DEF Says
  <2> QED
    BY <1>b, <2>1, TerminalizeKeeps
<1>5. CASE GuardToolAnswers(r)
  <2>1. PICK refusal \in Errors \ {"ambiguous"} : Guard(r, "getTool", refusal, "getGeneration")
    BY <1>5, <1>a DEF GuardToolAnswers
  <2> QED
    BY <2>1, GuardKeeps DEF GuardPCs
<1>6. CASE GuardGenerationAnswers(r)
  BY <1>6, <1>a, GuardKeeps DEF GuardGenerationAnswers, GuardPCs
<1>7. CASE GuardScopeAnswers(r)
  <2>1. PICK refusal \in Errors \ {"ambiguous"} : Guard(r, "getScope", refusal, "getPolicy")
    BY <1>7, <1>a DEF GuardScopeAnswers
  <2> QED
    BY <2>1, GuardKeeps DEF GuardPCs
<1>8. CASE Handover(r)
  BY <1>0, <1>8, BeginDriveKeeps DEF Handover, GuardPCs
<1>9. CASE GuardReadIsLate(r)
  <2>1. /\ pc[r] \in GuardPCs /\ DriveSettled(r)
        /\ pc' = [pc EXCEPT ![r] = "awaitExpiry"]
        /\ UNCHANGED <<row, daemon, latch, write, expiry, outcome, sent>>
    BY <1>9 DEF GuardReadIsLate, world, answers, call
  <2>2. /\ "awaitExpiry" \in PCs
        /\ "awaitExpiry" \notin UnpersistedPCs \union {"idle", "kind"} \union GuardPCs
                                  \union AfterSendPCs
    BY PCFacts DEF UnpersistedPCs, GuardPCs, AfterSendPCs
  <2>3. daemon = "serving" /\ r \notin sent /\ latch[r] # "free"
    BY <1>0, <2>1 DEF IInv, TypeOK, Consistent, Quiet, SentByPC, DriveSettled
  <2> QED
    BY <1>0, <2>1, <2>2, <2>3, MoveKeeps
<1>10. CASE GuardReadRejected(r)
  <2>1. pc[r] \in GuardPCs /\ ~DriveSettled(r) /\ Terminalize(r, Failed("internal"), "throw")
    BY <1>10 DEF GuardReadRejected
  <2> HIDE DEF Failed
  <2> QED
    BY <1>b, <2>1, TerminalizeKeeps
<1>11. CASE ExpiryAnswers(r)
  <2>1. /\ GuardAnswers(r, expiry[r])
        /\ UNCHANGED <<row, daemon, latch, write, expiry, sent>>
        /\ pc[r] \notin {"idle", "done", "dead"}
    BY <1>11 DEF ExpiryAnswers, world, call, GuardPCs
  <2>2. /\ daemon = "serving"
        /\ expiry[r].status \in Terminal => row.status = expiry[r].status /\ row.error = expiry[r].error
    BY <1>0, <2>1 DEF IInv, TypeOK, Consistent, Quiet, ExpiryIsTrue
  <2> QED
    BY <2>1, <2>2, GuardAnswersKeeps
<1>12. CASE ResumeReturns(r)
  BY <1>12 DEF ResumeReturns, IInv, Consistent, OneWriter, Engaged, FenceHolds, SentByPC,
     SentByOwner, WritesAreTrue, AnswersAreTrue, StartGaveUp, ExpiryIsTrue, RowIsTrue, Quiet,
     Phases, world, call
<1> QED
  BY <1>1, <1>2, <1>3, <1>4, <1>5, <1>6, <1>7, <1>8, <1>9, <1>10, <1>11, <1>12 DEF GuardStep

LEMMA CallStepKeeps ==
  ASSUME IInv, NEW a \in Attempts, CallStep(a)
  PROVE  Consistent'
<1>0. pc[a] \in BeforeSendPCs \union AfterSendPCs
  BY DEF CallStep, ToolAnswers, ScopeAnswers, PolicyAnswers, BlockAudited, GateAudited,
         PauseForApproval, SourceAnswers, BeforeSend, UpstreamAnswers, CallCompletes, CallLost,
         CallFails, BeforeSendPCs, AfterSendPCs
<1>a. /\ pc[a] \notin {"creating", "conflictLookup", "idle", "done", "dead"}
      /\ daemon = "serving"
      /\ pc[a] \in BeforeSendPCs => a \notin sent
      /\ pc[a] \in AfterSendPCs => a \in sent
  <2>1. pc[a] \notin {"creating", "conflictLookup", "idle", "done", "dead"}
    BY <1>0 DEF BeforeSendPCs, AfterSendPCs
  <2> QED
    BY <1>0, <2>1 DEF IInv, TypeOK, Consistent, Quiet, SentByPC
<1>1. ASSUME NEW q \in BeforeSendPCs, pc[a] \in BeforeSendPCs, pc' = [pc EXCEPT ![a] = q],
             UNCHANGED <<row, daemon, latch, write, expiry, outcome, sent>>
      PROVE  Consistent'
  <2>1. /\ q \in PCs
        /\ q \notin UnpersistedPCs \union {"idle", "kind"} \union GuardPCs \union AfterSendPCs
    BY PCFacts DEF BeforeSendPCs, UnpersistedPCs, GuardPCs, AfterSendPCs
  <2> QED
    BY <1>a, <1>1, <2>1, MoveKeeps
<1>2. ASSUME NEW settle \in Settles, NEW generation, Settle(a, settle, generation), UNCHANGED call,
             settle.status # "completed" /\ settle.error # "ambiguous" => a \notin sent,
             settle.status = "completed" => a \in sent,
             settle.error = "ambiguous" => settle.status = "failed"
      PROVE  Consistent'
  BY <1>0, <1>2, SettleKeeps DEF call
<1>3. ASSUME NEW error \in Errors \ {"ambiguous"}, Settle(a, Classify(a, error), 0), UNCHANGED call
      PROVE  Consistent'
  <2>1. /\ Classify(a, error) \in Settles
        /\ Classify(a, error).status = "failed"
        /\ Classify(a, error).error # "ambiguous" => a \notin sent
    BY ClassifyType DEF Classify, Failed
  <2> HIDE DEF Classify
  <2> QED
    BY <1>2, <1>3, <2>1
<1>b. {"internal", "policyBlocked"} \subseteq Errors \ {"ambiguous"}
  BY DEF Errors
<1>4. CASE ToolAnswers(a) \/ ScopeAnswers(a) \/ PolicyAnswers(a) \/ GateAudited(a) \/ SourceAnswers(a)
  <2>1. PICK q \in BeforeSendPCs : pc' = [pc EXCEPT ![a] = q]
    <3>1. CASE PolicyAnswers(a)
      BY <3>1 DEF PolicyAnswers, BeforeSendPCs
    <3>2. CASE ~PolicyAnswers(a)
      BY <1>4, <3>2 DEF ToolAnswers, ScopeAnswers, GateAudited, SourceAnswers, BeforeSendPCs
    <3> QED
      BY <3>1, <3>2
  <2>2. /\ pc[a] \in BeforeSendPCs
        /\ UNCHANGED <<row, daemon, latch, write, expiry, outcome, sent>>
    BY <1>4 DEF ToolAnswers, ScopeAnswers, PolicyAnswers, GateAudited, SourceAnswers,
                BeforeSendPCs, world, answers, call
  <2> QED
    BY <1>1, <2>1, <2>2
<1>5. CASE BlockAudited(a) \/ CallLost(a) \/ CallFails(a)
  BY <1>3, <1>5, <1>b DEF BlockAudited, CallLost, CallFails
<1>6. CASE PauseForApproval(a)
  <2>1. /\ Says("paused") \in Settles
        /\ Says("paused").status = "paused" /\ Says("paused").error = "none"
    BY ValueTypes DEF Says
  <2>2. Settle(a, Says("paused"), PauseGeneration(a)) /\ UNCHANGED call /\ a \notin sent
    BY <1>6, <1>a DEF PauseForApproval, BeforeSendPCs
  <2> HIDE DEF Says
  <2> QED
    BY <1>2, <2>1, <2>2
<1>7. CASE CallCompletes(a)
  <2>1. /\ Says("completed") \in Settles
        /\ Says("completed").status = "completed" /\ Says("completed").error = "none"
    BY ValueTypes DEF Says
  <2>2. Settle(a, Says("completed"), 0) /\ UNCHANGED call /\ a \in sent
    BY <1>7, <1>a DEF CallCompletes, AfterSendPCs
  <2> HIDE DEF Says
  <2> QED
    BY <1>2, <2>1, <2>2
<1>8. CASE UpstreamAnswers(a)
  <2>1. /\ pc' = [pc EXCEPT ![a] = "audit"] /\ a \in sent
        /\ UNCHANGED <<row, daemon, latch, write, expiry, outcome, sent>>
    BY <1>8, <1>a DEF UpstreamAnswers, world, answers, call, AfterSendPCs
  <2>2. /\ "audit" \in PCs
        /\ "audit" \notin UnpersistedPCs \union {"idle", "kind", "awaitExpiry"} \union GuardPCs
                             \union BeforeSendPCs
    BY PCFacts DEF UnpersistedPCs, GuardPCs, BeforeSendPCs, AfterSendPCs
  <2> QED
    BY <1>a, <2>1, <2>2, MoveKeeps
<1>9. CASE BeforeSend(a)
  <2>1. /\ latch[a] = "free" /\ pc[a] = "handshake" /\ a \notin sent
        /\ sent' = sent \union {a}
        /\ \A b \in Attempts : pc'[b] = IF b = a THEN "inflight" ELSE pc[b]
        /\ UNCHANGED <<row, daemon, latch, write, expiry, outcome>>
    BY <1>9, <1>a DEF BeforeSend, DeadlineOpen, IInv, TypeOK, world, answers, BeforeSendPCs
  <2>2. FenceHolds(a) /\ write[a].state = "none" /\ row.status \notin Terminal
    BY <2>1, FreeOwns DEF FenceHolds, Terminal
  <2>3. sent' = {a}
    BY <2>1, <2>2, OwnerSent
  <2>4. OneWriter' /\ Quiet' /\ ExpiryIsTrue' /\ SentByOwner' /\ RowIsTrue'
    BY <2>1, <2>2, <2>3
       DEF IInv, Consistent, OneWriter, Engaged, FenceHolds, Quiet, ExpiryIsTrue, SentByOwner,
           RowIsTrue, GuardPCs, Terminal
  <2>5. SentByPC'
    BY <2>1, <2>3
       DEF IInv, Consistent, SentByPC, BeforeSendPCs, AfterSendPCs, GuardPCs, UnpersistedPCs
  <2>6. WritesAreTrue'
    <3>1. \A b \in Attempts : write[b].state # "none" => b \notin sent'
      BY <2>2, <2>3
    <3>2. \A b \in Attempts : write[b].state # "none" => write[b].settle.status # "completed"
      BY <2>1, <2>2, OwnerSent, <3>1 DEF IInv, Consistent, WritesAreTrue
    <3> QED
      BY <2>1, <3>1, <3>2 DEF IInv, Consistent, WritesAreTrue
  <2>7. AnswersAreTrue'
    BY <2>1, <2>2, RunningAnswers, AttemptFacts DEF AnswersAreTrue, StartGaveUp, FenceHolds
  <2>8. Phases'
    BY <1>a, <2>1, AttemptFacts DEF IInv, Consistent, Phases, UnpersistedPCs
  <2> QED
    BY <2>4, <2>5, <2>6, <2>7, <2>8 DEF Consistent
<1> QED
  BY <1>4, <1>5, <1>6, <1>7, <1>8, <1>9 DEF CallStep

LEMMA SettleStepKeeps ==
  ASSUME IInv, NEW a \in Attempts, SettleStep(a)
  PROVE  Consistent'
<1>1. CASE TimerFires(a)
  BY <1>1, TimerKeeps
<1>2. CASE WriteLands(a)
  BY <1>2, WriteLandsKeeps
<1>3. CASE WriteRejected(a)
  BY <1>3, WriteRejectedKeeps
<1>4. CASE WriteReturns(a)
  <2>1. /\ Deliver(a, WriteAnswer(write[a])) /\ write[a].to # "nobody" /\ daemon = "serving"
        /\ write[a] \in IssuedWrites
    BY <1>4, WriteFields DEF WriteReturns, IInv, TypeOK
  <2>2. /\ WriteAnswer(write[a]) \in Answers
        /\ WriteAnswer(write[a]).status \in Terminal =>
             write[a].state = "written" /\ WriteAnswer(write[a]) = write[a].settle
    BY <2>1, ValueTypes DEF WriteAnswer, IssuedWrites, Says, Terminal
  <2>3. WriteAnswer(write[a]).status \in Terminal =>
          /\ row.status = WriteAnswer(write[a]).status
          /\ row.error = WriteAnswer(write[a]).error
    BY <2>2 DEF IInv, Consistent, WritesAreTrue
  <2> QED
    BY <2>1, <2>2, <2>3, DeliverKeeps
<1>5. CASE SettleTimesOut(a)
  <2>1. PICK answer \in {Says("threw"), Says("unknown")} : Deliver(a, answer)
    BY <1>5 DEF SettleTimesOut
  <2>2. answer \in Answers /\ answer.status \notin Terminal
    BY <2>1, ValueTypes DEF Says, Terminal
  <2> QED
    BY <1>5, <2>1, <2>2, DeliverKeeps DEF SettleTimesOut
<1> QED
  BY <1>1, <1>2, <1>3, <1>4, <1>5 DEF SettleStep

LEMMA WorldStepKeeps ==
  ASSUME IInv, WorldStep
  PROVE  Consistent'
<1>1. CASE ProvisionSource \/ RevokeScope
  BY <1>1 DEF ProvisionSource, RevokeScope, IInv, Consistent, OneWriter, Engaged, FenceHolds,
     SentByPC, SentByOwner, WritesAreTrue, AnswersAreTrue, StartGaveUp, ExpiryIsTrue, RowIsTrue,
     Quiet, Phases, world, call, answers
<1>2. CASE InvalidatePaused \/ DamagePause
  <2>1. /\ row.status = "paused" /\ row.status \notin Terminal /\ row \in Rows
        /\ UNCHANGED <<daemon, pc, latch, write, expiry, outcome, sent>>
    BY <1>2 DEF InvalidatePaused, DamagePause, Terminal, IInv, TypeOK, world, call, answers
  <2>2. /\ row'.attempt = row.attempt
        /\ (row'.status = "failed" /\ row'.error = "catalogChanged") \/ row'.status = "paused"
    BY <1>2, <2>1 DEF InvalidatePaused, DamagePause, Settled, Failed, Rows
  <2>3. \A b \in Attempts : ~Engaged(b) /\ write[b].state # "pending"
    BY <2>1 DEF IInv, Consistent, OneWriter, FenceHolds
  <2>4. /\ \A b \in Attempts : outcome[b].status \notin Terminal
        /\ sent = {}
    BY <2>1, RunningAnswers DEF StartGaveUp, IInv, Consistent, RowIsTrue
  <2>5. OneWriter' /\ SentByPC' /\ SentByOwner' /\ RowIsTrue' /\ Quiet'
    BY <2>1, <2>2, <2>3, <2>4
       DEF IInv, Consistent, OneWriter, Engaged, SentByPC, SentByOwner, RowIsTrue, Quiet
  <2>6. WritesAreTrue' /\ ExpiryIsTrue' /\ AnswersAreTrue'
    BY <2>1, <2>4, RunningAnswers DEF IInv, Consistent, WritesAreTrue, ExpiryIsTrue, AnswersAreTrue
  <2>7. Phases'
    BY <2>1, <2>2, AttemptFacts DEF IInv, Consistent, Phases
  <2> QED
    BY <2>5, <2>6, <2>7 DEF Consistent
<1>3. CASE Crash
  <2>1. UNCHANGED <<row, outcome, expiry, sent>>
    BY <1>3 DEF Crash, answers, call
  <2>2. \A b \in Attempts :
          /\ latch'[b] = "none"
          /\ pc'[b] \in {pc[b], "dead"} /\ pc'[b] \in {"idle", "done", "dead"}
    BY <1>3 DEF Crash
  <2>3. \A b \in Attempts :
          /\ write'[b].state = IF write[b].state = "pending" THEN "failed" ELSE write[b].state
          /\ write'[b].by = write[b].by /\ write'[b].settle = write[b].settle
          /\ write'[b].to = "nobody"
    <3> TAKE b \in Attempts
    <3>1. /\ write'[b] = [write[b] EXCEPT
                 !.state = IF write[b].state = "pending" THEN "failed" ELSE write[b].state,
                 !.to = "nobody"]
          /\ write[b] \in Writes
      BY <1>3 DEF Crash, IInv, TypeOK
    <3>2. CASE write[b] \in IssuedWrites
      BY <3>1, <3>2 DEF IssuedWrites
    <3>3. CASE write[b] = NoWrite
      BY <3>1, <3>3 DEF NoWrite
    <3> QED
      BY <3>1, <3>2, <3>3 DEF Writes
  <2>4. OneWriter' /\ SentByPC' /\ SentByOwner' /\ RowIsTrue' /\ Quiet' /\ ExpiryIsTrue'
    BY <2>1, <2>2, <2>3
       DEF IInv, Consistent, OneWriter, Engaged, SentByPC, SentByOwner, RowIsTrue, Quiet,
           ExpiryIsTrue, GuardPCs, BeforeSendPCs, AfterSendPCs, UnpersistedPCs
  <2>5. WritesAreTrue'
    BY <2>1, <2>2, <2>3 DEF IInv, Consistent, WritesAreTrue
  <2>6. AnswersAreTrue'
    BY <2>1, <2>2, <2>3, AttemptFacts DEF IInv, Consistent, AnswersAreTrue, StartGaveUp
  <2>7. Phases'
    BY <2>1, <2>2, <2>3, AttemptFacts DEF IInv, Consistent, Phases, UnpersistedPCs
  <2> QED
    BY <2>4, <2>5, <2>6, <2>7 DEF Consistent
<1>4. CASE Restart
  BY <1>4 DEF Restart, IInv, Consistent, OneWriter, Engaged, FenceHolds,
     SentByPC, SentByOwner, WritesAreTrue, AnswersAreTrue, StartGaveUp, ExpiryIsTrue, RowIsTrue,
     Quiet, Phases, world, call, answers
<1>5. CASE Sweep
  <2>1. /\ UNCHANGED <<pc, latch, write, expiry, outcome, sent>>
        /\ \A b \in Attempts :
             /\ latch[b] = "none" /\ pc[b] \in {"idle", "done", "dead"}
             /\ write[b].state # "pending" /\ write[b].to = "nobody"
    BY <1>5 DEF Sweep, answers, call, IInv, Consistent, Quiet
  <2>2. CASE row' = row
    BY <2>1, <2>2 DEF IInv, Consistent, OneWriter, Engaged, FenceHolds,
       SentByPC, SentByOwner, WritesAreTrue, AnswersAreTrue, StartGaveUp, ExpiryIsTrue, RowIsTrue,
       Quiet, Phases
  <2>3. CASE row' # row
    <3>1. /\ row.status = "running" /\ row.status \notin Terminal
          /\ row'.status = "failed" /\ row'.error = "ambiguous" /\ row'.attempt = row.attempt
      BY <1>5, <2>3 DEF Sweep, Swept, IInv, TypeOK, Rows, Terminal
    <3>2. OneWriter' /\ SentByPC' /\ SentByOwner' /\ RowIsTrue' /\ Quiet'
      BY <2>1, <3>1
         DEF IInv, Consistent, OneWriter, Engaged, SentByPC, SentByOwner, RowIsTrue, Quiet,
             GuardPCs, Terminal
    <3>3. WritesAreTrue' /\ ExpiryIsTrue'
      BY <2>1, <3>1, RunningAnswers DEF IInv, Consistent, WritesAreTrue, ExpiryIsTrue
    <3>4. AnswersAreTrue'
      BY <2>1, <3>1, RunningAnswers, AttemptFacts DEF AnswersAreTrue, StartGaveUp
    <3>5. Phases'
      BY <2>1, <3>1, AttemptFacts DEF IInv, Consistent, Phases
    <3> QED
      BY <3>2, <3>3, <3>4, <3>5 DEF Consistent
  <2> QED
    BY <2>2, <2>3
<1> QED
  BY <1>1, <1>2, <1>3, <1>4, <1>5 DEF WorldStep

LEMMA InitKeeps == Init => IInv
<1> SUFFICES ASSUME Init PROVE Consistent
  BY InitType DEF IInv
<1>1. \A a \in Attempts :
        /\ pc[a] = "idle" /\ latch[a] = "none" /\ write[a] = NoWrite
        /\ expiry[a] = NoAnswer /\ outcome[a] = NoAnswer
  BY DEF Init
<1>2. /\ NoWrite.state = "none" /\ NoWrite.to = "nobody" /\ NoAnswer.status = "none"
      /\ row.status = "absent" /\ row.attempt = Nobody /\ sent = {}
  BY DEF Init, NoWrite, NoAnswer
<1>3. OneWriter /\ SentByPC /\ SentByOwner /\ RowIsTrue /\ Quiet
  BY <1>1, <1>2
     DEF OneWriter, Engaged, SentByPC, SentByOwner, RowIsTrue, Quiet, GuardPCs, AfterSendPCs
<1>4. WritesAreTrue /\ AnswersAreTrue /\ ExpiryIsTrue
  BY <1>1, <1>2 DEF WritesAreTrue, AnswersAreTrue, ExpiryIsTrue, Terminal
<1>5. Phases
  BY <1>1, <1>2, AttemptFacts DEF Phases, UnpersistedPCs
<1> QED
  BY <1>3, <1>4, <1>5 DEF Consistent

LEMMA NextKeeps == IInv /\ [Next]_vars => IInv'
<1> SUFFICES ASSUME IInv, [Next]_vars PROVE Consistent'
  BY NextType DEF IInv
<1>1. CASE StartStep
  BY <1>1, StartStepKeeps
<1>2. ASSUME NEW r \in Resumers, GuardStep(r) PROVE Consistent'
  BY <1>2, GuardStepKeeps
<1>3. ASSUME NEW a \in Attempts, CallStep(a) PROVE Consistent'
  BY <1>3, CallStepKeeps
<1>4. ASSUME NEW a \in Attempts, SettleStep(a) PROVE Consistent'
  BY <1>4, SettleStepKeeps
<1>5. CASE WorldStep
  BY <1>5, WorldStepKeeps
<1>6. CASE UNCHANGED vars
  BY <1>6 DEF vars, IInv, Consistent, OneWriter, Engaged, FenceHolds,
     SentByPC, SentByOwner, WritesAreTrue, AnswersAreTrue, StartGaveUp, ExpiryIsTrue, RowIsTrue,
     Quiet, Phases, world, call, answers
<1> QED
  BY <1>1, <1>2, <1>3, <1>4, <1>5, <1>6 DEF Next

\* The invariant is inductive.
THEOREM Invariance == Spec => []IInv
<1>1. Init => IInv
  BY InitKeeps
<1>2. IInv /\ [Next]_vars => IInv'
  BY NextKeeps
<1> QED
  BY <1>1, <1>2, PTL DEF Spec

-----------------------------------------------------------------------------
(* What follows from it *)

\* The upstream sees the call at most once, however many operators decide,
\* however late writes land, and however often the process dies.
THEOREM AtMostOnce == Spec => []SentAtMostOnce
<1>1. IInv => SentAtMostOnce
  <2> SUFFICES ASSUME IInv PROVE Cardinality(sent) <= 1
    BY DEF SentAtMostOnce
  <2>1. CASE sent = {}
    BY <2>1, FS_EmptySet
  <2>2. CASE sent # {}
    <3>1. PICK a \in sent : sent = {a}
      BY <2>2 DEF IInv, Consistent, SentByOwner
    <3>2. Cardinality({a}) = 1
      BY FS_Singleton
    <3> QED
      BY <3>1, <3>2
  <2> QED
    BY <2>1, <2>2
<1> QED
  BY <1>1, Invariance, PTL

\* What is said, by the row or by an answer, is true.
LEMMA ClaimsOfIInv == IInv => ClaimsAreTrue
<1> SUFFICES ASSUME IInv PROVE ClaimsAreTrue
  OBVIOUS
<1>1. \A a \in Attempts :
        /\ "ran" \in Commits(outcome[a]) => sent # {}
        /\ "didNotRun" \in Commits(outcome[a]) => sent = {}
  BY DEF IInv, Consistent, AnswersAreTrue, StartGaveUp, RowIsTrue, Commits, Terminal
<1>2. /\ "ran" \in Commits(row) => sent # {}
      /\ "didNotRun" \in Commits(row) => sent = {}
  BY DEF IInv, Consistent, RowIsTrue, Commits
<1> QED
  BY <1>1, <1>2 DEF ClaimsAreTrue, Told

\* What the manager says of a call, in a row or in an answer, is true and is
\* never overtaken by a later delivery.
THEOREM ToldTheTruth == Spec => []ClaimsAreTrue
BY ClaimsOfIInv, Invariance, PTL

\* A definite final answer is what the row says, but for the timeout of a
\* start whose row was not known to exist.
THEOREM AnswersAreDurable == Spec => []AnswersMatchRow
<1>1. IInv => AnswersMatchRow
  <2> SUFFICES ASSUME IInv, NEW a \in Attempts, row.attempt = a, outcome[a].status \in Terminal
               PROVE  \/ row.status = outcome[a].status /\ row.error = outcome[a].error
                      \/ /\ a = Start
                         /\ outcome[a] = Failed("interrupted")
                         /\ row.status \in {"running", "failed"}
    BY DEF AnswersMatchRow
  <2>1. CASE row.status = outcome[a].status /\ row.error = outcome[a].error
    BY <2>1
  <2>2. CASE a = Start /\ outcome[a].status = "failed" /\ StartGaveUp
    <3>1. row.status # "absent"
      BY AttemptFacts DEF IInv, Consistent, Phases
    <3> QED
      BY <2>2, <3>1 DEF StartGaveUp
  <2> QED
    BY <2>1, <2>2 DEF IInv, Consistent, AnswersAreTrue
<1> QED
  BY <1>1, Invariance, PTL

\* No settle write ever finds the row settled by somebody else.
THEOREM OneWriterPerRow == Spec => []FenceNeverLost
<1>1. IInv => FenceNeverLost
  BY DEF IInv, Consistent, OneWriter, FenceNeverLost
<1> QED
  BY <1>1, Invariance, PTL

\* The stored row decides: one attempt writes it, and no answer contradicts it.
THEOREM RowDecidesHolds == Spec => []RowDecides
<1>1. FenceNeverLost /\ AnswersMatchRow => RowDecides
  BY DEF RowDecides
<1> QED
  BY <1>1, OneWriterPerRow, AnswersAreDurable, PTL

\* No step touches a row that is final.
LEMMA TerminalRowStays ==
  ASSUME IInv, [Next]_vars, row.status \in Terminal
  PROVE  row' = row
<1>0. row.status \notin {"absent", "running", "paused"}
  BY DEF Terminal
<1>1. CASE StartStep
  BY <1>0, <1>1 DEF StartStep, StartDirect, CreateLands, CreateRejected, ConflictLookup,
                    CreateReturns, BeginDrive, Settle
<1>2. ASSUME NEW r \in Resumers, GuardStep(r) PROVE row' = row
  BY <1>0, <1>2 DEF GuardStep, Claim, Claimable, KindAnswers, KindTimesOut, PauseAnswers,
                    PauseExpired, GuardToolAnswers, GuardGenerationAnswers, GuardScopeAnswers,
                    Handover, GuardReadIsLate, GuardReadRejected, ExpiryAnswers, ResumeReturns,
                    Guard, Refuse, Terminalize, BeginDrive, Settle
<1>3. ASSUME NEW a \in Attempts, CallStep(a) PROVE row' = row
  BY <1>3 DEF CallStep, ToolAnswers, ScopeAnswers, PolicyAnswers, BlockAudited, GateAudited,
              PauseForApproval, SourceAnswers, BeforeSend, UpstreamAnswers, CallCompletes,
              CallLost, CallFails, Settle
<1>4. ASSUME NEW a \in Attempts, SettleStep(a) PROVE row' = row
  <2>1. ~WriteLands(a)
    BY <1>0 DEF WriteLands, IInv, Consistent, OneWriter, FenceHolds
  <2> QED
    BY <1>4, <2>1 DEF SettleStep, TimerFires, WriteRejected, WriteReturns, SettleTimesOut, Deliver
<1>5. CASE WorldStep
  BY <1>0, <1>5 DEF WorldStep, ProvisionSource, InvalidatePaused, RevokeScope, DamagePause, Crash,
                    Restart, Sweep, Swept
<1>6. CASE UNCHANGED vars
  BY <1>6 DEF vars
<1> QED
  BY <1>1, <1>2, <1>3, <1>4, <1>5, <1>6 DEF Next

\* Nothing rewrites a settled row: not a late write, a late operator, a
\* catalog change or the crash sweep.
THEOREM SettledForGood == Spec => TerminalIsForGood
<1>1. IInv /\ [Next]_vars => [row.status \in Terminal => row' = row]_vars
  BY TerminalRowStays
<1> QED
  BY <1>1, Invariance, PTL DEF Spec, TerminalIsForGood

=============================================================================
