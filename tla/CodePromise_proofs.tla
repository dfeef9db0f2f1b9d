------------------------- MODULE CodePromise_proofs -------------------------
(***************************************************************************)
(* That every call of every script keeps the promise of GatedCall: the     *)
(* journal tells a script the truth about each of them, and what it told   *)
(* stays so, whatever the scripts, the operators and the crashes.          *)
(***************************************************************************)
EXTENDS CodeExecution_proofs

-----------------------------------------------------------------------------
(* One call, as GatedCall sees it *)

\* Nothing of the call changes, or its gate is closed.
Quiet(e, k) ==
  /\ Gate(e, k)' \in {Gate(e, k), "closed"}
  /\ SentAt(e, k)' <=> SentAt(e, k)
  /\ Told(e, k)' = Told(e, k)

Keeps(e, k) == [Promise(e, k)!CallNext]_(Promise(e, k)!callVars)

LEMMA QuietKeeps ==
  ASSUME NEW e \in Executions, NEW k \in Positions, Quiet(e, k)
  PROVE  Keeps(e, k)
<1>1. {} \in SUBSET Promise(e, k)!Claims /\ Told(e, k)' = Told(e, k) \union {}
  BY DEF Quiet
<1>2. UNCHANGED (\E i \in DOMAIN sent[e] : sent[e][i].at = k)
  BY DEF Quiet, SentAt
<1>3. Gate(e, k)' \in {Gate(e, k), "closed"}
  BY DEF Quiet
<1>4. Promise(e, k)!Conclude
  BY <1>1, <1>2, <1>3 DEF Promise!Conclude
<1> QED
  BY <1>4 DEF Promise!CallNext, Keeps

\* What is behind a gate.
LEMMA Gates ==
  ASSUME NEW e \in Executions, NEW k \in Positions
  PROVE  /\ k <= Len(disk[e]) => Gate(e, k) = "closed"
         /\ row[e].status \in Terminal => Gate(e, k) = "closed"
         /\ row[e].status = "running" /\ ~Driven(e) /\ ~Claimed(e) => Gate(e, k) = "closed"
         /\ Gate(e, k) = "closed" \/ Gate(e, k) = "open" \/ row[e].pause.at = k
BY DEF Gate

\* The gate of a call that is not told of yet, and of a row that is not settled.
LEMMA OpenGates ==
  ASSUME NEW e \in Executions, NEW k \in Positions, ~(k <= Len(disk[e])),
         row[e].status \notin Terminal, row[e].status = "running" => Driven(e) \/ Claimed(e)
  PROVE  Gate(e, k) = IF row[e].pause.at # k THEN "open"
                      ELSE IF ~Driven(e) THEN "waiting"
                      ELSE IF deed[drive[e].by].decision = "approve" THEN "granted" ELSE "closed"
BY DEF Gate

LEMMA ToldLater ==
  ASSUME NEW e \in Executions, NEW k \in Positions, ~(k <= Len(disk[e])), IInv
  PROVE  Told(e, k) = {}
<1>1. Len(disk[e]) \in Nat /\ k \in Nat
  BY JournalFacts DEF IInv, TypeOK, Positions
<1> QED
  BY <1>1 DEF Told

\* Nothing that a gate depends on changes.
LEMMA SameQuiet ==
  ASSUME NEW e \in Executions, NEW k \in Positions,
         row'[e] = row[e], disk'[e] = disk[e], sent'[e] = sent[e],
         Driven(e)' <=> Driven(e), Claimed(e)' <=> Claimed(e),
         Driven(e) /\ row[e].pause.at = k =>
           deed'[drive'[e].by].decision = deed[drive[e].by].decision
  PROVE  Quiet(e, k)
<1>1. Gate(e, k)' = Gate(e, k)
  BY DEF Gate
<1> QED
  BY <1>1 DEF Quiet, SentAt, Told

\* A drive serves the resume() that holds the row, if the row was ever paused.
LEMMA Serving ==
  ASSUME IInv, NEW e \in Executions, Driven(e)
  PROVE  \/ drive[e].by = Nothing /\ row[e].pause.at = 0
         \/ /\ drive[e].by \in Resumers /\ Holds(drive[e].by, e)
            /\ row[e].pause.at = deed[drive[e].by].at /\ Staged(e)
            /\ deed[drive[e].by].decision \in Decisions
<1>1. TypeOK /\ Kept(e) /\ Owned(e) /\ Claiming(e) /\ Driving(e)
  BY DEF IInv, Kept
<1>2. drive[e].by \in Resumers \union {Nothing}
  BY <1>1, DriveFields
<1>3. CASE drive[e].by = Nothing
  BY <1>1, <1>3 DEF Driving, NoPause
<1>4. CASE drive[e].by # Nothing
  <2>1. Holds(drive[e].by, e) /\ drive[e].by \in Resumers
    BY <1>1, <1>2, <1>4 DEF Owned
  <2> QED
    BY <1>1, <1>4, <2>1 DEF Driving, Claiming, TypeOK, Deeds
<1> QED
  BY <1>3, <1>4

LEMMA ApartQuiet ==
  ASSUME IInv, NEW e \in Executions, NEW k \in Positions, Apart(e)
  PROVE  Quiet(e, k)
<1>1. /\ row'[e] = row[e] /\ disk'[e] = disk[e] /\ sent'[e] = sent[e]
      /\ pc'[e] = pc[e] /\ drive'[e] = drive[e]
  BY DEF Apart
<1>2. \A r \in Resumers :
        \/ rpc'[r] = rpc[r] /\ deed'[r] = deed[r]
        \/ deed[r].on # e /\ deed'[r].on # e
  BY DEF Apart
<1>3. (Driven(e)' <=> Driven(e)) /\ (Claimed(e)' <=> Claimed(e))
  BY <1>1, <1>2 DEF Driven, Claimed
<1>4. Driven(e) /\ row[e].pause.at = k => deed'[drive'[e].by].decision = deed[drive[e].by].decision
  <2> SUFFICES ASSUME Driven(e), row[e].pause.at = k
               PROVE  deed'[drive'[e].by].decision = deed[drive[e].by].decision
    OBVIOUS
  <2>1. k # 0
    BY DEF Positions
  <2>2. drive[e].by \in Resumers /\ deed[drive[e].by].on = e
    BY <2>1, Serving DEF Holds
  <2> QED
    BY <1>1, <1>2, <2>2
<1> QED
  BY <1>1, <1>3, <1>4, SameQuiet

-----------------------------------------------------------------------------
(* The steps, one action at a time *)

\* A step in memory changes nothing of any call.
LEMMA MemoryQuiet ==
  ASSUME IInv, NEW e \in Executions, NEW k \in Positions,
         UNCHANGED <<store, resumes, world, history>>,
         Driven(e)' <=> Driven(e), Driven(e) => drive'[e].by = drive[e].by
  PROVE  Quiet(e, k)
<1>1. UNCHANGED <<row, disk, sent, rpc, deed>>
  BY DEF store, resumes, history
<1>2. Claimed(e)' <=> Claimed(e)
  BY <1>1 DEF Claimed
<1> QED
  BY <1>1, <1>2, SameQuiet

LEMMA OwnStepKeeps ==
  ASSUME IInv, NEW e \in Executions,
         \/ GetModule(e) \/ RunOnce(e) \/ RunAgain(e)
         \/ LookUp(e) \/ TakeDecision(e) \/ EvaluatePolicy(e) \/ Answered(e)
         \/ CallFails(e) \/ AnswerLost(e) \/ AppendFails(e) \/ CannotPause(e) \/ SettleFails(e),
         NEW b \in Executions, NEW k \in Positions
  PROVE  Keeps(b, k)
<1>1. TypeOK /\ UNCHANGED <<store, resumes, world, history>>
  BY OwnStep DEF IInv
<1>2. CASE b # e
  <2>1. (Driven(b)' <=> Driven(b)) /\ drive'[b].by = drive[b].by
    BY <1>2, OwnStep DEF Driven
  <2> QED
    BY <1>1, <2>1, MemoryQuiet, QuietKeeps
<1>3. CASE b = e
  <2>1. Driven(e) /\ Driven(e)'
    <3>1. pc[e] \notin {"idle", "over"}
      BY DEF GetModule, RunOnce, RunAgain, LookUp, TakeDecision, EvaluatePolicy, Answered, CallFails,
             AnswerLost, AppendFails, CannotPause, SettleFails
    <3>2. \E step \in Steps \ {"idle", "over"} : Goes(e, step)
      BY DEF GetModule, RunOnce, RunAgain, LookUp, TakeDecision, EvaluatePolicy, Answered, CallFails,
             AnswerLost, AppendFails, CannotPause, SettleFails, Settles, Hears, Steps
    <3> QED
      BY <1>1, <3>1, <3>2, GoesTo DEF Driven
  <2>2. drive'[e].by = drive[e].by
    <3>1. \/ UNCHANGED drive
          \/ \E p : drive' = [drive EXCEPT ![e].plan = p]
          \/ \E outcome : drive' = [drive EXCEPT ![e].outcome = outcome]
          \/ \E q : drive' = [drive EXCEPT ![e].request = q]
      BY DEF GetModule, RunOnce, RunAgain, LookUp, TakeDecision, EvaluatePolicy, Answered, CallFails,
             AnswerLost, AppendFails, CannotPause, SettleFails, Settles, Hears
    <3> QED
      BY <1>1, <3>1 DEF TypeOK, Drives
  <2> QED
    BY <1>1, <1>3, <2>1, <2>2, MemoryQuiet, QuietKeeps
<1> QED
  BY <1>2, <1>3

LEMMA BuildKeeps ==
  ASSUME IInv, ModuleBuilt \/ BuildFails, NEW b \in Executions, NEW k \in Positions
  PROVE  Keeps(b, k)
<1>1. TypeOK /\ UNCHANGED <<store, resumes, world, history>>
  BY DEF IInv, ModuleBuilt, BuildFails
<1>2. \/ pc'[b] = pc[b]
      \/ pc[b] = "building" /\ pc'[b] \in {"run", "settling"}
  BY DEF ModuleBuilt, BuildFails
<1>3. drive'[b].by = drive[b].by
  <2>1. drive'[b] = drive[b] \/ \E p : drive'[b] = [drive[b] EXCEPT !.plan = p]
    BY DEF ModuleBuilt, BuildFails
  <2> QED
    BY <1>1, <2>1 DEF TypeOK, Drives
<1> QED
  BY <1>1, <1>2, <1>3, MemoryQuiet, QuietKeeps DEF Driven

\* The body is written: with the gate open, or granted by the operator.
LEMMA WriteBodyKeeps ==
  ASSUME IInv, NEW e \in Executions, WriteBody(e), NEW b \in Executions, NEW k \in Positions
  PROVE  Keeps(b, k)
<1> DEFINE call == [at |-> At(e), request |-> drive[e].request]
<1>1. /\ pc[e] = "calling" /\ sent' = [sent EXCEPT ![e] = Append(sent[e], call)] /\ Goes(e, "sent")
      /\ UNCHANGED <<row, disk, drive, rpc, deed>>
  BY DEF WriteBody, store, resumes
<1>2. Driven(e)
  BY <1>1 DEF Driven
<1>3. /\ TypeOK /\ Shapes /\ Driving(e) /\ At(e) = Here(e) /\ Here(e) \in Nat /\ disk[e] \in Seq(Entries)
      /\ row[e].status = "running" /\ IInv' /\ \A c \in Executions \ {e} : Apart(c)
  BY <1>2, DrivenFacts, WriteBodyKept
<1>4. CASE b # e
  BY <1>3, <1>4, ApartQuiet, QuietKeeps
<1>5. CASE b = e
  <2>1. Driven(e)' /\ (Claimed(e)' <=> Claimed(e))
    BY <1>1, <1>3, GoesTo DEF Driven, Claimed, Steps
  <2>2. Gate(e, k)' = Gate(e, k) /\ Told(e, k)' = Told(e, k)
    BY <1>1, <1>2, <2>1 DEF Gate, Told
  <2>3. \A j : SentAt(e, j)' <=> (SentAt(e, j) \/ j = Here(e))
    <3> DEFINE n == Len(sent[e])
               Call == [at : Positions, request : Requests]
    <3>1. call \in Call /\ call.at = Here(e)
      BY <1>1, <1>2, <1>3, DrivenFacts DEF Asking
    <3>2. sent \in [Executions -> Seq(Call)]
      BY <1>3 DEF Shapes
    <3> HIDE DEF call, Call
    <3>3. /\ n \in Nat /\ DOMAIN sent[e] = 1..n /\ DOMAIN sent'[e] = 1..(n + 1)
          /\ sent'[e][n + 1] = call /\ \A i \in 1..n : sent'[e][i] = sent[e][i]
      <4>1. sent[e] \in Seq(Call) /\ sent'[e] = Append(sent[e], call)
        BY <1>1, <3>2
      <4> QED
        BY <3>1, <4>1, Appending
    <3> SUFFICES ASSUME NEW j PROVE SentAt(e, j)' <=> (SentAt(e, j) \/ j = Here(e))
      OBVIOUS
    <3>4. SentAt(e, j)' <=> \E i \in 1..(n + 1) : sent'[e][i].at = j
      BY <3>3 DEF SentAt
    <3>5. SentAt(e, j) <=> \E i \in 1..n : sent'[e][i].at = j
      BY <3>3 DEF SentAt
    <3>6. \A i : i \in 1..(n + 1) <=> i \in 1..n \/ i = n + 1
      BY <3>3
    <3> QED
      BY <3>1, <3>3, <3>4, <3>5, <3>6
  <2>4. CASE k # Here(e)
    <3>1. Quiet(e, k)
      BY <2>2, <2>3, <2>4 DEF Quiet
    <3> QED
      BY <1>5, <3>1, QuietKeeps
  <2>5. CASE k = Here(e)
    <3>1. ~(k <= Len(disk[e])) /\ row[e].status \notin Terminal
      BY <1>3, <2>5 DEF Here, Terminal
    <3>2. Told(e, k) = {}
      BY <3>1, ToldLater
    <3>3. Gate(e, k) \in {"open", "granted"}
      <4>1. row[e].pause.at = k => deed[drive[e].by].decision = "approve"
        <5>1. k # 0
          BY DEF Positions
        <5> QED
          BY <1>1, <1>2, <2>5, <5>1, Serving DEF Staged
      <4> QED
        BY <1>2, <3>1, <4>1, OpenGates
    <3>4. ~SentAt(e, k) /\ SentAt(e, k)'
      BY <1>1, <1>3, <2>3, <2>5 DEF Driving, Settling
    <3>5. Promise(e, k)!Send
      BY <2>2, <3>2, <3>3, <3>4 DEF Promise!Send, SentAt
    <3> QED
      BY <1>5, <3>5 DEF Promise!CallNext, Keeps
  <2> QED
    BY <2>4, <2>5
<1> QED
  BY <1>4, <1>5

\* The result is journaled: the call is over, and what the journal tells of it is so.
LEMMA AppendBarrierKeeps ==
  ASSUME IInv, NEW e \in Executions, AppendBarrier(e), NEW b \in Executions, NEW k \in Positions
  PROVE  Keeps(b, k)
<1>1. Driven(e) /\ UNCHANGED <<row, sent, rpc, deed>>
  BY DEF AppendBarrier, Driven, resumes, history
<1>2. /\ TypeOK /\ TypeOK' /\ Here(e) \in Nat /\ disk[e] \in Seq(Entries) /\ disk'[e] \in Seq(Entries)
      /\ Recorded(e)' /\ \A c \in Executions \ {e} : Apart(c)
  <2>1. IInv' /\ \A c \in Executions \ {e} : Apart(c)
    BY AppendBarrierKept
  <2>2. TypeOK /\ TypeOK' /\ Recorded(e)'
    BY <2>1 DEF IInv, Kept
  <2> QED
    BY <1>1, <2>1, <2>2, DrivenFacts, JournalFacts DEF TypeOK
<1>3. /\ Len(disk'[e]) = Len(disk[e]) + 1 /\ Len(disk[e]) \in Nat
      /\ \A j \in DOMAIN disk[e] : j \in DOMAIN disk'[e] /\ disk'[e][j] = disk[e][j]
      /\ drive'[e].by = drive[e].by /\ Driven(e)'
  <2>1. /\ Len(disk'[e]) = Len(disk[e]) + 1 /\ drive'[e].by = drive[e].by
        /\ pc'[e] = "module" \/ pc'[e] = "settling"
    BY AppendsTo
  <2>2. \A j \in DOMAIN disk[e] : j \in DOMAIN disk'[e] /\ disk'[e][j] = disk[e][j]
    BY AppendsTo
  <2> QED
    BY <1>2, <2>1, <2>2 DEF Driven
<1>4. CASE b # e
  BY <1>2, <1>4, ApartQuiet, QuietKeeps
<1>5. CASE b = e
  <2>1. (Claimed(e)' <=> Claimed(e)) /\ (SentAt(e, k)' <=> SentAt(e, k))
    BY <1>1 DEF Claimed, SentAt
  <2>2. DOMAIN disk[e] = 1..Len(disk[e]) /\ DOMAIN disk'[e] = 1..Len(disk'[e])
    BY <1>2
  <2>3. k \in Nat /\ k >= 1
    BY JournalFacts DEF Positions
  <2>4. CASE k # Here(e)
    <3>1. Gate(e, k)' = Gate(e, k)
      <4>1. k <= Len(disk'[e]) <=> k <= Len(disk[e])
        BY <1>3, <2>3, <2>4 DEF Here
      <4> QED
        BY <1>1, <1>3, <2>1, <4>1 DEF Gate
    <3>2. Told(e, k)' = Told(e, k)
      <4>1. CASE k <= Len(disk[e])
        <5>1. disk'[e][k] = disk[e][k] /\ k <= Len(disk'[e])
          BY <1>3, <2>2, <2>3, <4>1
        <5>2. ~(k > Len(disk[e])) /\ ~(k > Len(disk'[e]))
          BY <1>3, <2>3, <4>1, <5>1
        <5> QED
          BY <5>1, <5>2 DEF Told
      <4>2. CASE ~(k <= Len(disk[e]))
        <5>1. k > Len(disk[e]) /\ k > Len(disk'[e])
          BY <1>3, <2>3, <2>4, <4>2 DEF Here
        <5> QED
          BY <5>1 DEF Told
      <4> QED
        BY <4>1, <4>2
    <3> QED
      BY <1>5, <2>1, <3>1, <3>2, QuietKeeps DEF Quiet
  <2>5. CASE k = Here(e)
    <3>1. ~(k <= Len(disk[e])) /\ k \in DOMAIN disk'[e] /\ k <= Len(disk'[e])
      BY <1>3, <2>2, <2>3, <2>5 DEF Here
    <3>2. Told(e, k) = {}
      BY <3>1, ToldLater
    <3>3. Gate(e, k)' = "closed"
      BY <3>1 DEF Gate
    <3>4. Told(e, k)' \in SUBSET Promise(e, k)!Claims
      BY DEF Told, Promise!Claims
    <3>5. /\ "ran" \in Told(e, k)' => SentAt(e, k)
          /\ "didNotRun" \in Told(e, k)' => ~SentAt(e, k)
      <4>1. disk'[e][k].request \notin Lookups => (disk'[e][k].outcome = "value" <=> SentAt(e, k))
        BY <1>2, <2>1, <3>1 DEF Recorded
      <4> QED
        BY <4>1 DEF Told
    <3>6. UNCHANGED (\E i \in DOMAIN sent[e] : sent[e][i].at = k)
      BY <1>1
    <3>7. Promise(e, k)!Conclude
      <4> DEFINE said == Told(e, k)'
      <4>1. Told(e, k)' = Told(e, k) \union said
        BY <3>2
      <4>2. /\ "ran" \in said => \E i \in DOMAIN sent[e] : sent[e][i].at = k
            /\ "didNotRun" \in said => ~\E i \in DOMAIN sent[e] : sent[e][i].at = k
        BY <3>5 DEF SentAt
      <4>3. said \in SUBSET Promise(e, k)!Claims
        BY <3>4
      <4> HIDE DEF said
      <4> QED
        BY <3>3, <3>6, <4>1, <4>2, <4>3 DEF Promise!Conclude
    <3> QED
      BY <1>5, <3>7 DEF Promise!CallNext, Keeps
  <2> QED
    BY <2>4, <2>5
<1> QED
  BY <1>4, <1>5

LEMMA AssemblePendingKeeps ==
  ASSUME IInv, NEW e \in Executions, AssemblePending(e), NEW b \in Executions, NEW k \in Positions
  PROVE  Keeps(b, k)
<1>1. /\ TypeOK /\ pc[e] = "pausing" /\ UNCHANGED <<row, disk, sent, rpc, deed>>
      /\ Goes(e, "settling") /\ \E p : drive' = [drive EXCEPT ![e].plan = p]
  BY DEF AssemblePending, Settles, IInv, resumes, history
<1>2. CASE b # e
  BY <1>2, AssemblePendingKept, ApartQuiet, QuietKeeps
<1>3. CASE b = e
  <2>1. Driven(e) /\ Driven(e)' /\ (Claimed(e)' <=> Claimed(e))
    BY <1>1, GoesTo DEF Driven, Claimed, Steps
  <2>2. drive'[e].by = drive[e].by
    BY <1>1 DEF TypeOK, Drives
  <2> QED
    BY <1>1, <1>3, <2>1, <2>2, SameQuiet, QuietKeeps
<1> QED
  BY <1>2, <1>3

LEMMA StartKeeps ==
  ASSUME IInv, NEW e \in Executions, NEW s \in Scripts[e], Start(e, s) \/ StartFails(e, s),
         NEW b \in Executions, NEW k \in Positions
  PROVE  Keeps(b, k)
<1>1. /\ TypeOK /\ row[e].status = "none" /\ row' = [row EXCEPT ![e].status = "running"]
      /\ UNCHANGED <<disk, sent, rpc, deed>>
      /\ \E step \in {"module", "settling"} : Goes(e, step)
  BY DEF Start, StartFails, Settles, IInv, resumes, history
<1>2. CASE b # e
  BY <1>2, StartKept, ApartQuiet, QuietKeeps
<1>3. CASE b = e
  <2>1. row[e].pause = NoPause /\ row'[e].status = "running" /\ row'[e].pause = NoPause
    <3>1. Recorded(e) /\ row[e] \in Rows
      BY <1>1 DEF IInv, Kept, TypeOK
    <3>2. row[e].pause = NoPause
      BY <1>1, <3>1 DEF Recorded
    <3> QED
      BY <1>1, <3>1, <3>2 DEF TypeOK, Rows
  <2>2. Driven(e)'
    BY <1>1, GoesTo DEF Driven, Steps
  <2>3. Told(e, k)' = Told(e, k) /\ (SentAt(e, k)' <=> SentAt(e, k))
    BY <1>1 DEF Told, SentAt
  <2>4. Gate(e, k)' = Gate(e, k)
    <3>1. NoPause.at # k
      BY DEF NoPause, Positions
    <3> QED
      BY <1>1, <2>1, <2>2, <3>1 DEF Gate, Terminal
  <2> QED
    BY <1>3, <2>3, <2>4, QuietKeeps DEF Quiet
<1> QED
  BY <1>2, <1>3

\* A pause is where the operator is asked; every other end of a drive closes the gates.
LEMMA ReturningKeeps ==
  ASSUME IInv, NEW e \in Executions, Settle(e) \/ FinalizeFailed(e) \/ GivesUp(e),
         NEW b \in Executions, NEW k \in Positions
  PROVE  Keeps(b, k)
<1>1. /\ pc[e] \in Settling /\ UNCHANGED <<disk, sent>>
  BY DEF Settle, FinalizeFailed, GivesUp, Settling, store, history
<1>2. Driven(e)
  BY <1>1 DEF Driven, Settling
<1>3. PICK ok \in BOOLEAN : Returns(e, ok)
  BY DEF Settle, FinalizeFailed, GivesUp
<1>4. /\ TypeOK /\ Driving(e) /\ Owned(e) /\ Here(e) \in Nat /\ disk[e] \in Seq(Entries)
      /\ row[e].status = "running"
  BY <1>2, DrivenFacts
<1>5. /\ pc'[e] = "over" /\ UNCHANGED deed
      /\ \A r \in Resumers :
           \/ r = drive[e].by /\ rpc'[r] \in {"done", "caught"}
           \/ r # drive[e].by /\ rpc'[r] = rpc[r]
  <2>1. pc'[e] = "over" /\ UNCHANGED deed
    BY <1>3, <1>4, ReturnsTo
  <2>2. \A r \in Resumers :
          \/ r = drive[e].by /\ rpc'[r] \in {"done", "caught"}
          \/ r # drive[e].by /\ rpc'[r] = rpc[r]
    <3>1. TypeOK
      BY <1>4
    <3>2. \A r \in Resumers :
            \/ r = drive[e].by /\ rpc'[r] = "done"
                 /\ \/ answer'[r] = "applied" /\ staged[e].consumed
                    \/ answer'[r] = "not applied" /\ ~staged[e].consumed
            \/ r = drive[e].by /\ rpc'[r] = "caught" /\ answer'[r] = answer[r]
            \/ r # drive[e].by /\ rpc'[r] = rpc[r] /\ answer'[r] = answer[r]
      BY <1>3, <3>1, ReturnsTo
    <3> QED
      BY <3>2
  <2> QED
    BY <2>1, <2>2
<1>6. ~Driven(e)' /\ ~Claimed(e)' /\ Told(e, k)' = Told(e, k) /\ (SentAt(e, k)' <=> SentAt(e, k))
  <2>1. ~Claimed(e)'
    BY <1>2, <1>5, NobodyClaims DEF Claimed
  <2> QED
    BY <1>1, <1>5, <2>1 DEF Driven, Told, SentAt
<1>7. CASE b # e
  BY <1>7, ReturningKept, ApartQuiet, QuietKeeps
<1>8. CASE b = e
  <2>1. row'[e] = drive[e].plan \/ row'[e] = Failed("persist") \/ row'[e] = row[e]
    BY <1>4 DEF Settle, FinalizeFailed, GivesUp, TypeOK, store
  <2>2. CASE row'[e].status \in Terminal \union {"running"}
    <3>1. Gate(e, k)' = "closed"
      BY <1>6, <2>2 DEF Gate
    <3> QED
      BY <1>6, <1>8, <3>1, QuietKeeps DEF Quiet
  <2>3. CASE row'[e].status \notin Terminal \union {"running"}
    <3>1. row'[e] = drive[e].plan /\ row'[e].status = "paused"
      BY <1>1, <1>4, <2>1, <2>3 DEF Driving, Failed, Terminal
    <3>2. row'[e].pause.at = Here(e) /\ ~SentAt(e, Here(e))
      BY <1>1, <1>4, <3>1 DEF Driving, Waits, Settling, Failed
    <3>3. k \in Nat /\ k >= 1 /\ Len(disk[e]) \in Nat
      BY <1>4, JournalFacts DEF Positions
    <3>4. CASE k <= Len(disk[e])
      <4>1. Gate(e, k)' = "closed"
        BY <1>1, <3>4 DEF Gate
      <4> QED
        BY <1>6, <1>8, <4>1, QuietKeeps DEF Quiet
    <3>5. CASE ~(k <= Len(disk[e]))
      <4>1. row[e].pause.at # k
        <5>1. CASE drive[e].by = Nothing /\ row[e].pause.at = 0
          BY <3>3, <5>1
        <5>2. CASE row[e].pause.at = deed[drive[e].by].at /\ Staged(e)
          <6>1. deed[drive[e].by].at <= Here(e) /\ deed[drive[e].by].at # Here(e)
            BY <1>1, <3>1, <5>2 DEF Staged
          <6>2. k >= Here(e)
            BY <3>3, <3>5 DEF Here
          <6>3. row[e].pause.at \in Nat
            BY <1>4, JournalFacts DEF TypeOK, Rows, Pauses, NoPause, Positions
          <6> QED
            BY <1>4, <3>3, <5>2, <6>1, <6>2, <6>3
        <5> QED
          BY <1>2, <5>1, <5>2, Serving
      <4>2. Gate(e, k) = "open"
        BY <1>2, <1>4, <3>5, <4>1, OpenGates DEF Terminal
      <4>3. CASE k # Here(e)
        <5>1. Gate(e, k)' = "open"
          BY <1>1, <1>6, <3>1, <3>2, <3>5, <4>3 DEF Gate, Terminal
        <5> QED
          BY <1>6, <1>8, <4>2, <5>1, QuietKeeps DEF Quiet
      <4>4. CASE k = Here(e)
        <5>1. Gate(e, k)' = "waiting"
          BY <1>1, <1>6, <3>1, <3>2, <3>5, <4>4 DEF Gate, Terminal
        <5>2. Promise(e, k)!AskOperator
          BY <1>6, <3>2, <4>2, <4>4, <5>1 DEF Promise!AskOperator, SentAt
        <5> QED
          BY <1>8, <5>2 DEF Promise!CallNext, Keeps
      <4> QED
        BY <4>3, <4>4
    <3> QED
      BY <3>4, <3>5
  <2> QED
    BY <2>2, <2>3
<1> QED
  BY <1>7, <1>8

\* An operator who takes the pause has not answered it yet.
LEMMA ClaimKeeps ==
  ASSUME IInv, NEW r \in Resumers, NEW e \in Executions, NEW id \in Positions, NEW d \in Decisions,
         Claim(r, e, id, d), NEW b \in Executions, NEW k \in Positions
  PROVE  Keeps(b, k)
<1>1. CASE ~Claims(e, id)
  <2>1. /\ TypeOK /\ Shapes /\ rpc[r] = "idle" /\ rpc' = [rpc EXCEPT ![r] = "done"]
        /\ UNCHANGED <<row, disk, sent, pc, drive, deed>>
    BY <1>1 DEF IInv, Claim, memory
  <2>2. deed[r].on # b
    <3>1. deed[r] = NoDeed
      BY <2>1 DEF Shapes
    <3>2. NoDeed.on = Nothing /\ Nothing \notin Executions
      BY RequestsAssumption DEF NoDeed
    <3> QED
      BY <3>1, <3>2
  <2>3. (Driven(b)' <=> Driven(b)) /\ (Claimed(b)' <=> Claimed(b))
    BY <2>1, <2>2 DEF Driven, Claimed, TypeOK
  <2> QED
    BY <2>1, <2>3, SameQuiet, QuietKeeps
<1>2. CASE Claims(e, id) /\ b # e
  BY <1>2, ClaimKept, ApartQuiet, QuietKeeps
<1>3. CASE Claims(e, id) /\ b = e
  <2>1. /\ row[e].status = "paused" /\ row'[e].status = "running" /\ row'[e].pause = row[e].pause
        /\ deed'[r].on = e /\ rpc'[r] = "claimed" /\ UNCHANGED <<disk, pc, sent>>
    BY <1>3, ClaimsTo DEF memory
  <2>2. ~Driven(e) /\ ~Driven(e)' /\ Claimed(e)'
    <3>1. Owned(e)
      BY DEF IInv, Kept
    <3> QED
      BY <2>1, <3>1 DEF Owned, Driven, Claimed
  <2>3. Gate(e, k)' = Gate(e, k)
    BY <2>1, <2>2 DEF Gate, Terminal
  <2>4. Told(e, k)' = Told(e, k) /\ (SentAt(e, k)' <=> SentAt(e, k))
    BY <2>1 DEF Told, SentAt
  <2> QED
    BY <1>3, <2>3, <2>4, QuietKeeps DEF Quiet
<1> QED
  BY <1>1, <1>2, <1>3

\* The script runs again: the pending call is granted, or it is refused for good.
LEMMA RedriveKeeps ==
  ASSUME IInv, NEW r \in Resumers, Redrive(r), NEW b \in Executions, NEW k \in Positions
  PROVE  Keeps(b, k)
<1>0. PICK e \in Executions : e = deed[r].on
  BY ClaimedFacts DEF Redrive
<1>1. rpc[r] = "claimed" /\ UNCHANGED <<row, disk, deed, sent>>
  BY DEF Redrive, store, history
<1>2. CASE b # e
  BY <1>0, <1>2, RedriveKept, ApartQuiet, QuietKeeps
<1>3. CASE b = e
  <2>1. ~Driven(e) /\ Claimed(e) /\ row[e].status = "running" /\ row[e].pause.at = deed[r].at
    BY <1>0, <1>1, ClaimedFacts DEF Claimed
  <2>2. Driven(e)' /\ drive'[e].by = r
    BY <1>0, RedrivesTo DEF Driven
  <2>3. Told(e, k)' = Told(e, k) /\ (SentAt(e, k)' <=> SentAt(e, k))
    BY <1>1 DEF Told, SentAt
  <2>4. CASE k <= Len(disk[e]) \/ row[e].pause.at # k
    <3>1. Gate(e, k)' = Gate(e, k)
      BY <1>1, <2>1, <2>2, <2>4 DEF Gate, Terminal
    <3> QED
      BY <1>3, <2>3, <3>1, QuietKeeps DEF Quiet
  <2>5. CASE ~(k <= Len(disk[e])) /\ row[e].pause.at = k
    <3>1. Gate(e, k) = "waiting" /\ Gate(e, k)' \in {"granted", "closed"}
      BY <1>1, <2>1, <2>2, <2>5 DEF Gate, Terminal
    <3>2. Promise(e, k)!OperatorAnswers
      BY <2>3, <3>1 DEF Promise!OperatorAnswers, SentAt
    <3> QED
      BY <1>3, <3>2 DEF Promise!CallNext, Keeps
  <2> QED
    BY <2>4, <2>5
<1> QED
  BY <1>2, <1>3

LEMMA ResumeFailsKeeps ==
  ASSUME IInv, NEW r \in Resumers, ResumeFails(r), NEW b \in Executions, NEW k \in Positions
  PROVE  Keeps(b, k)
<1>1. /\ rpc[r] \in {"claimed", "caught", "late"} /\ rpc'[r] # "claimed"
      /\ \A s \in Resumers \ {r} : rpc'[s] = rpc[s] /\ deed'[s] = deed[s]
      /\ \/ row' = row
         \/ \E p : p.status \in Terminal /\ row' = FailedIfRunning(deed[r].on, p)
      /\ UNCHANGED <<disk, pc, sent>>
  <2>0. rpc \in [Resumers -> {"idle", "claimed", "driving", "caught", "late", "done"}] /\ deed \in [Resumers -> Deeds]
    BY DEF IInv, TypeOK
  <2>1. CASE LandsLate(r)
    <3>1. deed[r].plan.status \in Terminal
      <4>1. rpc[r] = "late" /\ deed[r].on \in Executions
        BY <2>1 DEF LandsLate, IInv, Shapes
      <4>2. Parting(r, deed[r].on) /\ Parted(deed[r].on)
        BY <4>1 DEF Parting, IInv, Kept
      <4> QED
        BY <4>1, <4>2 DEF Parted
    <3> QED
      BY <2>0, <2>1, <3>1 DEF LandsLate, memory, history
  <2>2. CASE KindUnanswered(r) \/ GuardRefuses(r) \/ FindsExpired(r) \/ PreparationFails(r)
    <3>1. PICK p \in {Failed("resume"), Failed("persist"), Expired}, write \in WriteEnds,
               told \in {"unknown", "not applied", "threw"} : Terminalizes(r, p, write, told)
      BY <2>2, GivingUpEnds
    <3>2. p.status \in Terminal
      BY EndingRows
    <3>3. rpc[r] \in {"claimed", "caught"}
      BY <2>2 DEF KindUnanswered, GuardRefuses, FindsExpired, PreparationFails
    <3> QED
      BY <2>0, <3>1, <3>2, <3>3 DEF Terminalizes, memory
  <2> QED
    BY <2>1, <2>2 DEF ResumeFails
<1>2. PICK e \in Executions : e = deed[r].on
  BY <1>1 DEF IInv, Shapes
<1>3. /\ ~Driven(e) /\ row[e].status \in {"running"} \union Terminal /\ TypeOK
      /\ \A s \in Resumers \ {r} : ~(rpc[s] = "claimed" /\ deed[s].on = e)
  <2>1. CASE rpc[r] = "claimed"
    <3>1. Owned(e) /\ Holds(r, e) /\ TypeOK /\ ~Driven(e) /\ row[e].status = "running"
      BY <1>2, <2>1, ClaimedFacts DEF Kept
    <3> QED
      BY <3>1 DEF Owned, Holds
  <2>2. CASE rpc[r] \in {"caught", "late"}
    <3>1. Parting(r, e) /\ Parted(e) /\ TypeOK
      BY <1>2, <2>2 DEF Parting, IInv, Kept
    <3> QED
      BY <3>1 DEF Parted, Holds
  <2> QED
    BY <1>1, <2>1, <2>2
<1>4. CASE b # e
  <2>1. Apart(b)
    BY <1>2, <1>4, GivingUpKept, LandsLateKept DEF ResumeFails
  <2> QED
    BY <2>1, ApartQuiet, QuietKeeps
<1>5. CASE b = e
  <2>1. Told(e, k)' = Told(e, k) /\ (SentAt(e, k)' <=> SentAt(e, k)) /\ ~Driven(e)'
    BY <1>1, <1>3 DEF Told, SentAt, Driven
  <2>2. ~Claimed(e)'
    BY <1>1, <1>3 DEF Claimed
  <2>3. row'[e].status \in Terminal \union {"running"}
    BY <1>1, <1>2, <1>3 DEF FailedIfRunning, TypeOK
  <2>4. Gate(e, k)' = "closed"
    BY <2>1, <2>2, <2>3 DEF Gate
  <2> QED
    BY <1>5, <2>1, <2>4, QuietKeeps DEF Quiet
<1> QED
  BY <1>4, <1>5

LEMMA InvalidatePausedKeeps ==
  ASSUME IInv, NEW e \in Executions, InvalidatePaused(e), NEW b \in Executions, NEW k \in Positions
  PROVE  Keeps(b, k)
<1>1. CASE b # e
  BY <1>1, InvalidatePausedKept, ApartQuiet, QuietKeeps
<1>2. CASE b = e
  <2>1. Told(e, k)' = Told(e, k) /\ (SentAt(e, k)' <=> SentAt(e, k)) /\ row'[e].status \in Terminal
    BY DEF InvalidatePaused, Told, SentAt, history, IInv, TypeOK, Failed, Terminal
  <2>2. Gate(e, k)' = "closed"
    BY <2>1 DEF Gate
  <2> QED
    BY <1>2, <2>1, <2>2, QuietKeeps DEF Quiet
<1> QED
  BY <1>1, <1>2

\* A crash takes the decisions that were given with it.
LEMMA CrashKeeps ==
  ASSUME IInv, Crash, NEW b \in Executions, NEW k \in Positions
  PROVE  Keeps(b, k)
<1>1. /\ UNCHANGED <<row, disk, sent, deed>> /\ ~Driven(b)'
      /\ \A r \in Resumers : rpc'[r] # "claimed"
  BY DEF Crash, store, history, Driven
<1>2. Told(b, k)' = Told(b, k) /\ (SentAt(b, k)' <=> SentAt(b, k)) /\ ~Claimed(b)'
  BY <1>1 DEF Told, SentAt, Claimed
<1>3. Driven(b) \/ Claimed(b) => row[b].status = "running"
  BY DEF IInv, Kept, Owned, Claimed, Holds
<1>4. Gate(b, k)' \in {Gate(b, k), "closed"}
  BY <1>1, <1>2, <1>3 DEF Gate
<1> QED
  BY <1>2, <1>4, QuietKeeps DEF Quiet

LEMMA RestartKeeps ==
  ASSUME IInv, Restart, NEW b \in Executions, NEW k \in Positions
  PROVE  Keeps(b, k)
<1>1. /\ UNCHANGED <<disk, sent, deed, drive, pc, rpc>>
      /\ \/ row'[b] = row[b] /\ row[b].status # "running"
         \/ row'[b].status = "failed"
  BY DEF Restart, memory, resumes, history, Failed
<1>2. Told(b, k)' = Told(b, k) /\ (SentAt(b, k)' <=> SentAt(b, k))
      /\ (Driven(b)' <=> Driven(b)) /\ (Claimed(b)' <=> Claimed(b))
  BY <1>1 DEF Told, SentAt, Claimed, Driven
<1>3. Gate(b, k)' \in {Gate(b, k), "closed"}
  BY <1>1, <1>2 DEF Gate, Terminal
<1> QED
  BY <1>2, <1>3, QuietKeeps DEF Quiet

\* What the journal tells a script of its calls is true and stays so, and no call is
\* written without authority, more than once, or after it was said not to run: every
\* call of every script implements GatedCall.
THEOREM CallsKeepTheirPromise == Spec => CallsKeepPromise
<1>1. Init => \A e \in Executions, k \in Positions : Promise(e, k)!CallInit
  <2> SUFFICES ASSUME Init, NEW e \in Executions, NEW k \in Positions PROVE Promise(e, k)!CallInit
    OBVIOUS
  <2>1. row[e] = NoRow /\ disk[e] = <<>> /\ sent[e] = <<>> /\ Len(<<>>) = 0 /\ k \in Nat /\ k >= 1
    BY JournalFacts DEF Init, Positions
  <2>2. NoRow.status = "none" /\ NoRow.pause.at = 0
    BY DEF NoRow, NoPause
  <2>3. Gate(e, k) = "open"
    BY <2>1, <2>2 DEF Gate, Terminal
  <2>4. Told(e, k) = {}
    BY <2>1 DEF Told
  <2> QED
    BY <2>1, <2>3, <2>4 DEF Promise!CallInit
<1>2. IInv /\ [Next]_vars =>
        [\A e \in Executions, k \in Positions :
           [Promise(e, k)!CallNext]_(Promise(e, k)!callVars)]_vars
  <2> SUFFICES ASSUME IInv, Next, NEW b \in Executions, NEW k \in Positions
               PROVE  Keeps(b, k)
    BY DEF Keeps
  <2>1. ASSUME NEW e \in Executions, DriveStep(e) \/ DriveFails(e) \/ InvalidatePaused(e)
        PROVE  Keeps(b, k)
    BY <2>1, OwnStepKeeps, WriteBodyKeeps, AppendBarrierKeeps, AssemblePendingKeeps,
       ReturningKeeps, InvalidatePausedKeeps DEF DriveStep, DriveFails
  <2>2. ASSUME NEW r \in Resumers, Redrive(r) \/ ResumeFails(r) PROVE Keeps(b, k)
    BY <2>2, RedriveKeeps, ResumeFailsKeeps
  <2> QED
    BY <2>1, <2>2, StartKeeps, ClaimKeeps, BuildKeeps, CrashKeeps, RestartKeeps DEF Next
<1> QED
  BY <1>1, <1>2, Invariance, PTL DEF Spec, CallsKeepPromise

=============================================================================
