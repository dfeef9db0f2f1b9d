-------------------------- MODULE CodeExecution_proofs --------------------------
(***************************************************************************)
(* What CodeExecution keeps, for every set of executions, scripts and      *)
(* operators, however long the scripts are and however often the daemon    *)
(* dies: that its calls are performed once, under one approval each, and   *)
(* that what is told of them is so.                                        *)
(***************************************************************************)
EXTENDS CodeExecution, FiniteSetTheorems, WellFoundedInduction, TLAPS

-----------------------------------------------------------------------------
(* The inductive invariant, one execution at a time *)

\* The first position that is not journaled.
Here(e) == Len(disk[e]) + 1

\* The k-th request of the script was written to its upstream.
SentAt(e, k) == \E i \in DOMAIN sent[e] : sent[e][i].at = k

\* A resume() that was given the row and has not let go of it.
Holds(r, e) == rpc[r] \in {"claimed", "driving"} /\ deed[r].on = e

\* One that has, and may write it still: the catch of a drive that threw, or a write
\* that was given up on.
Parting(r, e) == rpc[r] \in {"caught", "late"} /\ deed[r].on = e

Asking == {"asking", "calling", "sent", "journaling", "pausing"}

Settling == {"settling", "fallback"}

\* Types that TypeOK leaves open.
Shapes ==
  /\ script = [e \in Executions |-> script[e]]
  /\ sent \in [Executions -> Seq([at : Positions, request : Requests])]
  /\ IsFiniteSet(approved)
  /\ \A r \in Resumers :
       /\ rpc[r] = "idle" => deed[r] = NoDeed /\ answer[r] = "none"
       /\ rpc[r] \in {"claimed", "driving", "caught", "late"} => deed[r].on \in Executions
       /\ answer[r] \in {"applied", "not applied", "unknown"} => deed[r].on \in Executions

\* A running row is held by one drive, or by one resume(), or by nobody.
Owned(e) ==
  /\ Driven(e) \/ (\E r \in Resumers : Holds(r, e)) => up /\ row[e].status = "running"
  /\ row[e].status # "none" => script[e] \in Scripts[e]
  /\ ~Driven(e) => drive[e] = NoDrive /\ staged[e] = NotStaged
  /\ Driven(e) /\ drive[e].by # Nothing => Holds(drive[e].by, e)
  /\ \A r \in Resumers : Holds(r, e) =>
       /\ \A s \in Resumers : Holds(s, e) => s = r
       /\ rpc[r] = "driving" <=> Driven(e)
       /\ Driven(e) => drive[e].by = r

\* A pause that waits for an operator: for the next request, under an id that was
\* never approved.
Waits(e, pause) ==
  /\ pause.id = pauses[e] /\ pause.at = Here(e) /\ pause.request \in Requests
  /\ \A a \in approved : a.on = e => a.id # pauses[e]

\* What is on record is true: an entry says "value" of a call that was written, and
\* of no other; calls are written once each, and at most one is not journaled.
Recorded(e) ==
  /\ row[e].status = "none" =>
       disk[e] = <<>> /\ sent[e] = <<>> /\ pauses[e] = 0 /\ row[e].pause = NoPause
  /\ row[e].status = "paused" => Waits(e, row[e].pause)
  /\ row[e].cause # "engine"
  /\ \A k \in DOMAIN disk[e] : disk[e][k].request \notin Lookups =>
       (disk[e][k].outcome = "value" <=> SentAt(e, k))
  /\ \A i \in DOMAIN sent[e] : sent[e][i].at <= Here(e)
  /\ \A i, j \in DOMAIN sent[e] : sent[e][i].at = sent[e][j].at => i = j
  /\ \A a \in approved : a.on = e => a.id <= pauses[e]
  /\ pauses[e] <= Here(e)

\* The decision a drive was given is staged until the drive gets to the call it is
\* for, and that call is only written on it.
Staged(e) ==
  LET d == deed[drive[e].by]
  IN  /\ d.at <= Here(e)
      /\ staged[e].request # Nothing => staged[e].decision = d.decision
      /\ d.at = Here(e) =>
           /\ pc[e] \in {"module", "building", "run", "asking"} => staged[e].request # Nothing
           /\ pc[e] \in {"calling", "sent"} => staged[e].consumed /\ d.decision = "approve"
           /\ pc[e] # "pausing"
           /\ pc[e] \in Settling => drive[e].plan.status # "paused"
      /\ d.decision = "deny" \/ ~staged[e].consumed => ~SentAt(e, d.at)

\* What a drive has done at each of its steps.  A call whose result is on no record
\* is the one it is at, or the one it failed over.
Driving(e) ==
  /\ Len(drive[e].journal) = Len(disk[e])
  /\ pc[e] \in Asking => Len(disk[e]) < MaxCalls /\ drive[e].request \in Requests
  /\ pc[e] \in {"calling", "sent", "pausing"} =>
       drive[e].request \notin Lookups /\ staged[e].request = Nothing
  /\ pc[e] = "sent" => SentAt(e, Here(e))
  /\ pc[e] = "journaling" =>
       (SentAt(e, Here(e)) <=> drive[e].outcome = "value" /\ drive[e].request \notin Lookups)
  /\ SentAt(e, Here(e)) =>
       \/ pc[e] \in {"sent", "journaling"}
       \/ pc[e] \in Settling /\ drive[e].plan = Failed("ambiguous")
  /\ pc[e] \in Settling =>
       /\ drive[e].plan.status \in {"paused"} \union Terminal
       /\ drive[e].plan.status = "paused" =>
            Waits(e, drive[e].plan.pause) /\ drive[e].plan.cause = "none"
       /\ drive[e].plan.cause # "engine"
  /\ pc[e] \notin Settling =>
       \/ pauses[e] < Here(e)
       \/ drive[e].by # Nothing /\ deed[drive[e].by].at = Here(e)
  /\ IF drive[e].by = Nothing
     THEN staged[e].request = Nothing /\ row[e].pause = NoPause
     ELSE Staged(e)

\* Without a drive, such a call is told of, and a running row has somebody to answer for it.
Undriven(e) ==
  /\ SentAt(e, Here(e)) =>
       /\ \A r \in Resumers : ~Holds(r, e)
       /\ \/ row[e].status = "running"
          \/ row[e].status = "failed" /\ row[e].cause \in {"ambiguous", "swept", "persist"}
          \/ row[e].status = "failed" /\ row[e].cause = "resume" /\ e \in given
  /\ row[e].status = "running" /\ up => Claimed(e) \/ e \in given

\* A resume() holds the row for the pause it was called for.
Claiming(e) ==
  \A r \in Resumers : Holds(r, e) =>
    /\ row[e].pause.at = deed[r].at /\ row[e].pause.request \in Requests
    /\ rpc[r] = "claimed" => deed[r].at = Here(e)

\* A resume() that has let go writes a running row only where nobody settles it, and
\* then a row of its own kind: over a lost call, that it failed.
Parted(e) ==
  \A r \in Resumers : Parting(r, e) =>
    /\ up /\ ~Driven(e)
    /\ \A s \in Resumers : ~Holds(s, e)
    /\ row[e].status \in {"running"} \union Terminal
    /\ row[e].status = "running" => e \in given
    /\ rpc[r] = "late" =>
         /\ deed[r].plan.status \in Terminal /\ deed[r].plan.cause # "engine"
         /\ row[e].status = "running" /\ SentAt(e, Here(e)) => deed[r].plan = Failed("resume")

\* The k-th request of e is not written, and never will be.
Never(e, k) ==
  /\ ~SentAt(e, k)
  /\ \/ k <= Len(disk[e])
     \/ row[e].status \in Terminal
     \/ row[e].status = "running" /\ ~Driven(e) /\ ~Claimed(e)

\* The operator was told that the pending call was not let through.
Unrun(r) ==
  answer[r] \in {"not applied", "unknown"} \/ (answer[r] = "applied" /\ deed[r].decision = "deny")

Honest(e) == \A r \in Resumers : Unrun(r) /\ deed[r].on = e => Never(e, deed[r].at)

\* An approval that was given and not spent yet.
Unspent(e, q) ==
  \/ \E r \in Resumers : rpc[r] = "claimed" /\ deed[r].on = e /\ deed[r].decision = "approve"
                           /\ row[e].pause.request = q
  \/ Driven(e) /\ staged[e].request = q /\ staged[e].decision = "approve"
  \/ pc[e] = "calling" /\ drive[e].request = q

CallsOf(e, q) == {i \in DOMAIN sent[e] : sent[e][i].request = q}
ApprovalsOf(e, q) == {a \in approved : a.on = e /\ a.request = q}

Spent(e) ==
  \A q \in Gated :
    /\ Cardinality(CallsOf(e, q)) <= Cardinality(ApprovalsOf(e, q))
    /\ Unspent(e, q) => Cardinality(CallsOf(e, q)) < Cardinality(ApprovalsOf(e, q))

Kept(e) ==
  /\ Owned(e) /\ Recorded(e) /\ Claiming(e) /\ Parted(e) /\ Honest(e) /\ Spent(e)
  /\ IF Driven(e) THEN Driving(e) ELSE Undriven(e)

IInv == TypeOK /\ Shapes /\ \A e \in Executions : Kept(e)

-----------------------------------------------------------------------------
(* Values *)

\* The least element of a set of numbers.
LEMMA LeastOf ==
  ASSUME NEW T \in SUBSET Nat, T # {}
  PROVE  \E x \in T : \A y \in T : x <= y
<1>1. PICK x \in T : \A y \in T : ~ (<<y, x>> \in OpToRel(<, Nat))
  BY NatLessThanWellFounded, WFMin
<1>2. \A y \in T : ~(y < x)
  BY <1>1 DEF OpToRel
<1> QED
  BY <1>2

LEMMA BoundedSeqs ==
  ASSUME NEW S, NEW n \in Nat
  PROVE  \A s : s \in BoundedSeq(S, n) <=> s \in Seq(S) /\ Len(s) <= n
<1>1. ASSUME NEW s \in BoundedSeq(S, n) PROVE s \in Seq(S) /\ Len(s) <= n
  BY <1>1 DEF BoundedSeq, SeqOf
<1>2. ASSUME NEW s \in Seq(S), Len(s) <= n PROVE s \in BoundedSeq(S, n)
  <2>1. s \in [1..Len(s) -> S] /\ Len(s) \in 0..n
    BY <1>2
  <2> QED
    BY <2>1 DEF BoundedSeq, SeqOf
<1> QED
  BY <1>1, <1>2

LEMMA JournalFacts ==
  /\ \A j : j \in Journals <=> j \in Seq(Entries) /\ Len(j) <= MaxCalls
  /\ \A h : h \in Heard <=> h \in Seq(Outcomes) /\ Len(h) <= MaxCalls
  /\ <<>> \in Journals /\ MaxCalls \in Nat
<1>1. MaxCalls \in Nat
  BY BoundsAssumption
<1>2. \A j : j \in Journals <=> j \in Seq(Entries) /\ Len(j) <= MaxCalls
  BY <1>1, BoundedSeqs DEF Journals
<1>3. \A h : h \in Heard <=> h \in Seq(Outcomes) /\ Len(h) <= MaxCalls
  BY <1>1, BoundedSeqs DEF Heard
<1>4. <<>> \in Journals
  <2>1. <<>> \in Seq(Entries) /\ Len(<<>>) = 0
    OBVIOUS
  <2>2. Len(<<>>) <= MaxCalls
    BY <1>1, <2>1
  <2> QED
    BY <1>2, <2>1, <2>2, Zenon
<1> QED
  BY <1>1, <1>2, <1>3, <1>4

LEMMA LongerJournal ==
  ASSUME NEW j \in Seq(Entries), Len(j) < MaxCalls, NEW x \in Entries
  PROVE  /\ Append(j, x) \in Journals /\ Append(j, x) \in Seq(Entries)
         /\ Len(Append(j, x)) = Len(j) + 1
         /\ \A k \in DOMAIN j : k \in DOMAIN Append(j, x) /\ Append(j, x)[k] = j[k]
<1> DEFINE s == Append(j, x)
<1>1. s \in Seq(Entries) /\ Len(s) = Len(j) + 1 /\ Len(j) \in Nat
  OBVIOUS
<1>2. Len(s) <= MaxCalls
  BY <1>1, JournalFacts
<1>3. \A k \in DOMAIN j : k \in DOMAIN s /\ s[k] = j[k]
  OBVIOUS
<1> HIDE DEF s
<1>4. s \in Journals
  BY <1>1, <1>2, JournalFacts
<1> QED
  BY <1>1, <1>3, <1>4 DEF s

LEMMA RowFacts ==
  /\ NoRow \in Rows /\ Completed \in Rows /\ Expired \in Rows
  /\ \A cause \in Causes : Failed(cause) \in Rows
BY DEF NoRow, Completed, Expired, Failed, Rows, Pauses, Statuses, Terminal, Causes

LEMMA DriveFacts ==
  /\ NoDrive \in Drives
  /\ \A d \in Drives :
       /\ \A p \in Rows : [d EXCEPT !.plan = p] \in Drives
       /\ \A q \in Requests : [d EXCEPT !.request = q] \in Drives
       /\ \A o \in Outcomes : [d EXCEPT !.outcome = o] \in Drives
       /\ \A j \in Journals : [d EXCEPT !.journal = j] \in Drives
<1>1. NoDrive \in Drives
  BY RowFacts, JournalFacts DEF NoDrive, Drives, Outcomes
<1>2. ASSUME NEW d \in Drives, NEW p \in Rows PROVE [d EXCEPT !.plan = p] \in Drives
  BY <1>2 DEF Drives
<1>3. ASSUME NEW d \in Drives, NEW q \in Requests PROVE [d EXCEPT !.request = q] \in Drives
  BY <1>3 DEF Drives
<1>4. ASSUME NEW d \in Drives, NEW o \in Outcomes PROVE [d EXCEPT !.outcome = o] \in Drives
  BY <1>4 DEF Drives
<1>5. ASSUME NEW d \in Drives, NEW j \in Journals PROVE [d EXCEPT !.journal = j] \in Drives
  BY <1>5 DEF Drives
<1> QED
  BY <1>1, <1>2, <1>3, <1>4, <1>5

LEMMA StagingFacts ==
  /\ NotStaged \in Stagings
  /\ \A g \in Stagings :
       /\ [g EXCEPT !.request = Nothing] \in Stagings
       /\ [g EXCEPT !.request = Nothing, !.consumed = TRUE] \in Stagings
BY DEF NotStaged, Stagings, Decisions

\* A run that asks has been through its whole journal, and may still ask.
LEMMA AskingRuns ==
  ASSUME TypeOK, NEW e \in Executions, script[e] \in Scripts[e], Asks(e)
  PROVE  /\ NextStep(e) \in Requests
         /\ Len(drive[e].journal) < MaxCalls
<1> DEFINE n == Len(drive[e].journal)
           Unlike == {i \in 1..n : ~Replays(e, i)}
           Whole(m) == /\ \A i \in 1..m : Replays(e, i)
                       /\ m < n => ~Replays(e, m + 1)
<1>1. drive[e].journal \in Seq(Entries) /\ n \in Nat /\ n <= MaxCalls
  BY JournalFacts DEF TypeOK, Drives
<1>2. \E m \in 0..n : Whole(m)
  <2>1. CASE Unlike = {}
    <3>1. Whole(n)
      BY <1>1, <2>1
    <3> QED
      BY <1>1, <3>1
  <2>2. CASE Unlike # {}
    <3>0. Unlike \in SUBSET Nat
      BY <1>1
    <3>1. PICK x \in Unlike : \A y \in Unlike : x <= y
      <4> HIDE DEF Unlike
      <4> QED
        BY <2>2, <3>0, LeastOf
    <3>2. x - 1 \in 0..n /\ x = (x - 1) + 1
      BY <1>1, <3>1
    <3>3. \A i \in 1..(x - 1) : Replays(e, i)
      BY <1>1, <3>1
    <3>4. ~Replays(e, (x - 1) + 1)
      BY <3>1, <3>2
    <3> QED
      BY <3>2, <3>3, <3>4
  <2> QED
    BY <2>1, <2>2
<1>3. Consumed(e) \in 0..n
  <2>1. Consumed(e) = CHOOSE m \in 0..n : Whole(m)
    BY DEF Consumed
  <2> QED
    BY <1>2, <2>1
<1>4. Consumed(e) = n /\ NextStep(e) \in Requests
  BY <1>1, <1>3 DEF Asks, Diverges
<1>5. HeardFrom(drive[e].journal, n) \in Heard /\ Len(HeardFrom(drive[e].journal, n)) = n
  <2> DEFINE j == drive[e].journal
  <2>1. \A i \in 1..n : j[i].outcome \in Outcomes
    <3>1. \A i \in 1..n : j[i] \in Entries
      BY <1>1
    <3> QED
      BY <3>1 DEF Entries
  <2>2. HeardFrom(j, n) \in [1..n -> Outcomes]
    BY <2>1 DEF HeardFrom
  <2> HIDE DEF n
  <2>3. HeardFrom(j, n) \in Seq(Outcomes) /\ Len(HeardFrom(j, n)) = n
    BY <1>1, <2>2
  <2> QED
    BY <1>1, <2>3, JournalFacts
<1>6. n # MaxCalls
  <2>1. NextStep(e) = Does[script[e]][HeardFrom(drive[e].journal, n)]
    BY <1>4 DEF NextStep
  <2> HIDE DEF n
  <2>2. n = MaxCalls => NextStep(e) \in Ends
    BY <1>5, <2>1, ScriptsAssumption
  <2> QED
    BY <1>4, <2>2, RequestsAssumption
<1> QED
  BY <1>1, <1>4, <1>6, JournalFacts

-----------------------------------------------------------------------------
(* What the helpers of the actions do *)

LEMMA GoesTo ==
  ASSUME TypeOK, NEW e \in Executions, NEW step \in Steps, Goes(e, step)
  PROVE  /\ pc' \in [Executions -> Steps] /\ pc'[e] = step
         /\ \A b \in Executions \ {e} : pc'[b] = pc[b]
BY DEF TypeOK, Goes

\* The fields of a drive that one field of is changed.
LEMMA DriveFields ==
  ASSUME TypeOK, NEW e \in Executions
  PROVE  /\ drive[e] \in Drives
         /\ drive[e].journal \in Seq(Entries) /\ Len(drive[e].journal) <= MaxCalls
         /\ drive[e].request \in Requests \union {Nothing} /\ drive[e].outcome \in Outcomes
         /\ drive[e].plan \in Rows /\ drive[e].by \in Resumers \union {Nothing}
BY JournalFacts DEF TypeOK, Drives

LEMMA Plans ==
  ASSUME TypeOK, NEW e \in Executions, NEW p \in Rows, drive' = [drive EXCEPT ![e].plan = p]
  PROVE  /\ drive' \in [Executions -> Drives]
         /\ drive'[e].plan = p /\ drive'[e].journal = drive[e].journal /\ drive'[e].by = drive[e].by
         /\ drive'[e].request = drive[e].request /\ drive'[e].outcome = drive[e].outcome
         /\ \A b \in Executions \ {e} : drive'[b] = drive[b]
<1>1. drive \in [Executions -> Drives]
  BY DEF TypeOK
<1>2. drive' = [drive EXCEPT ![e] = [drive[e] EXCEPT !.plan = p]]
  BY <1>1
<1>3. [drive[e] EXCEPT !.plan = p] \in Drives
  BY <1>1, DriveFacts
<1> QED
  BY <1>1, <1>2, <1>3 DEF Drives

LEMMA SettlesTo ==
  ASSUME TypeOK, NEW e \in Executions, NEW p \in Rows, Settles(e, p)
  PROVE  /\ pc' \in [Executions -> Steps] /\ pc'[e] = "settling"
         /\ drive' \in [Executions -> Drives]
         /\ drive'[e].plan = p /\ drive'[e].journal = drive[e].journal /\ drive'[e].by = drive[e].by
         /\ drive'[e].request = drive[e].request /\ drive'[e].outcome = drive[e].outcome
         /\ \A b \in Executions \ {e} : pc'[b] = pc[b] /\ drive'[b] = drive[b]
<1>1. "settling" \in Steps
  BY DEF Steps
<1> QED
  BY <1>1, Plans, GoesTo DEF Settles

LEMMA HearsTo ==
  ASSUME TypeOK, NEW e \in Executions, NEW outcome \in Outcomes, Hears(e, outcome)
  PROVE  /\ pc' \in [Executions -> Steps] /\ pc'[e] = "journaling"
         /\ drive' \in [Executions -> Drives]
         /\ drive'[e].outcome = outcome /\ drive'[e].journal = drive[e].journal
         /\ drive'[e].by = drive[e].by /\ drive'[e].request = drive[e].request
         /\ \A b \in Executions \ {e} : pc'[b] = pc[b] /\ drive'[b] = drive[b]
<1>1. drive \in [Executions -> Drives] /\ "journaling" \in Steps
  BY DEF TypeOK, Steps
<1>2. drive' = [drive EXCEPT ![e] = [drive[e] EXCEPT !.outcome = outcome]]
  BY <1>1 DEF Hears
<1>3. [drive[e] EXCEPT !.outcome = outcome] \in Drives
  BY <1>1, DriveFacts
<1> QED
  BY <1>1, <1>2, <1>3, GoesTo DEF Drives, Hears

LEMMA AsksTo ==
  ASSUME TypeOK, NEW e \in Executions, NEW q \in Requests, drive' = [drive EXCEPT ![e].request = q]
  PROVE  /\ drive' \in [Executions -> Drives]
         /\ drive'[e].request = q /\ drive'[e].journal = drive[e].journal
         /\ drive'[e].by = drive[e].by /\ drive'[e].plan = drive[e].plan
         /\ \A b \in Executions \ {e} : drive'[b] = drive[b]
<1>1. drive \in [Executions -> Drives]
  BY DEF TypeOK
<1>2. drive' = [drive EXCEPT ![e] = [drive[e] EXCEPT !.request = q]]
  BY <1>1
<1>3. [drive[e] EXCEPT !.request = q] \in Drives
  BY <1>1, DriveFacts
<1> QED
  BY <1>1, <1>2, <1>3 DEF Drives

\* Types of what most steps leave alone: the scripts, and what is known of the calls.
CallsTypeOK ==
  /\ \A e \in Executions : script[e] \in Scripts[e] \union {Nothing}
  /\ \A e \in Executions : \A i \in DOMAIN sent[e] :
       sent[e][i] \in [at : Positions, request : Requests]
  /\ approved \subseteq [on : Executions, id : Positions, request : Requests]

LEMMA CallsTyped ==
  ASSUME TypeOK, UNCHANGED <<script, sent, approved>>
  PROVE  CallsTypeOK'
BY DEF TypeOK, CallsTypeOK

LEMMA ReturnsTo ==
  ASSUME TypeOK, NEW e \in Executions, NEW ok \in BOOLEAN, Returns(e, ok)
  PROVE  /\ pc' \in [Executions -> Steps] /\ drive' \in [Executions -> Drives]
         /\ staged' \in [Executions -> Stagings]
         /\ rpc' \in [Resumers -> {"idle", "claimed", "driving", "caught", "late", "done"}]
         /\ answer' \in [Resumers -> Answers] /\ UNCHANGED deed
         /\ pc'[e] = "over" /\ drive'[e] = NoDrive /\ staged'[e] = NotStaged
         /\ \A b \in Executions \ {e} :
              pc'[b] = pc[b] /\ drive'[b] = drive[b] /\ staged'[b] = staged[b]
         /\ \A r \in Resumers :
              \/ r = drive[e].by /\ rpc'[r] = "done"
                   /\ \/ answer'[r] = "applied" /\ staged[e].consumed
                      \/ answer'[r] = "not applied" /\ ~staged[e].consumed
              \/ r = drive[e].by /\ rpc'[r] = "caught" /\ answer'[r] = answer[r]
              \/ r # drive[e].by /\ rpc'[r] = rpc[r] /\ answer'[r] = answer[r]
<1>1. drive \in [Executions -> Drives] /\ "over" \in Steps /\ staged \in [Executions -> Stagings]
  BY DEF TypeOK, Steps
<1>2. /\ drive' \in [Executions -> Drives] /\ drive'[e] = NoDrive
      /\ \A b \in Executions \ {e} : drive'[b] = drive[b]
  BY <1>1, DriveFacts DEF Returns
<1>3. /\ staged' \in [Executions -> Stagings] /\ staged'[e] = NotStaged
      /\ \A b \in Executions \ {e} : staged'[b] = staged[b]
  BY <1>1, StagingFacts DEF Returns
<1>4. /\ pc' \in [Executions -> Steps] /\ pc'[e] = "over"
      /\ \A b \in Executions \ {e} : pc'[b] = pc[b]
  BY <1>1, GoesTo DEF Returns
<1>5. CASE drive[e].by = Nothing
  <2>1. UNCHANGED <<rpc, deed, answer>>
    BY <1>5 DEF Returns, resumes
  <2> QED
    BY <1>2, <1>3, <1>4, <1>5, <2>1, RequestsAssumption DEF TypeOK
<1>6. CASE drive[e].by # Nothing
  <2>1. drive[e].by \in Resumers
    BY <1>6, DriveFields
  <2>2. /\ rpc' = [rpc EXCEPT ![drive[e].by] = IF ok THEN "done" ELSE "caught"] /\ UNCHANGED deed
        /\ \E told \in Answers : /\ answer' = [answer EXCEPT ![drive[e].by] = told]
                                 /\ \/ ok = FALSE /\ told = answer[drive[e].by]
                                    \/ ok = TRUE /\ told = "applied" /\ staged[e].consumed
                                    \/ ok = TRUE /\ told = "not applied" /\ ~staged[e].consumed
    BY <1>6, <2>1 DEF Returns, Answers, TypeOK
  <2>3. /\ rpc' \in [Resumers -> {"idle", "claimed", "driving", "caught", "late", "done"}]
        /\ rpc'[drive[e].by] = IF ok THEN "done" ELSE "caught"
        /\ \A r \in Resumers : r # drive[e].by => rpc'[r] = rpc[r]
    BY <2>1, <2>2 DEF TypeOK
  <2>4. /\ answer' \in [Resumers -> Answers]
        /\ \/ ok = FALSE /\ answer'[drive[e].by] = answer[drive[e].by]
           \/ ok = TRUE /\ answer'[drive[e].by] = "applied" /\ staged[e].consumed
           \/ ok = TRUE /\ answer'[drive[e].by] = "not applied" /\ ~staged[e].consumed
        /\ \A r \in Resumers : r # drive[e].by => answer'[r] = answer[r]
    <3>1. PICK told \in Answers :
            /\ answer' = [answer EXCEPT ![drive[e].by] = told]
            /\ \/ ok = FALSE /\ told = answer[drive[e].by]
               \/ ok = TRUE /\ told = "applied" /\ staged[e].consumed
               \/ ok = TRUE /\ told = "not applied" /\ ~staged[e].consumed
      BY <2>2
    <3>2. answer \in [Resumers -> Answers]
      BY DEF TypeOK
    <3>3. answer' \in [Resumers -> Answers] /\ answer'[drive[e].by] = told
      BY <2>1, <3>1, <3>2
    <3>4. \A r \in Resumers : r # drive[e].by => answer'[r] = answer[r]
      BY <3>1, <3>2
    <3> QED
      BY <3>1, <3>3, <3>4
  <2> QED
    BY <1>2, <1>3, <1>4, <2>1, <2>2, <2>3, <2>4
<1> QED
  BY <1>5, <1>6

\* A resume() that writes the row itself.
LEMMA TerminalizesTo ==
  ASSUME TypeOK, NEW r \in Resumers, deed[r].on \in Executions, NEW p \in Rows,
         NEW write \in WriteEnds, NEW told \in Answers, Terminalizes(r, p, write, told)
  PROVE  /\ row' \in [Executions -> Rows]
         /\ rpc' \in [Resumers -> {"idle", "claimed", "driving", "caught", "late", "done"}]
         /\ answer' \in [Resumers -> Answers] /\ deed' \in [Resumers -> Deeds]
         /\ given' \subseteq Executions
         /\ answer'[r] = told
         /\ deed'[r].on = deed[r].on /\ deed'[r].at = deed[r].at
         /\ deed'[r].decision = deed[r].decision /\ deed'[r].plan = p
         /\ \A s \in Resumers \ {r} : rpc'[s] = rpc[s] /\ deed'[s] = deed[s] /\ answer'[s] = answer[s]
         /\ \A b \in Executions \ {deed[r].on} : row'[b] = row[b] /\ (b \in given' <=> b \in given)
         /\ \/ /\ write = "ok" /\ rpc'[r] = "done" /\ given' = given
               /\ row'[deed[r].on] = IF row[deed[r].on].status = "running" THEN p ELSE row[deed[r].on]
            \/ /\ write # "ok" /\ rpc'[r] \in {"late", "done"}
               /\ row' = row /\ deed[r].on \in given'
<1> DEFINE e == deed[r].on
<1>1. /\ row \in [Executions -> Rows] /\ deed \in [Resumers -> Deeds]
      /\ rpc \in [Resumers -> {"idle", "claimed", "driving", "caught", "late", "done"}]
      /\ answer \in [Resumers -> Answers] /\ given \subseteq Executions
  BY DEF TypeOK
<1>2. row' = IF write = "ok" /\ row[e].status = "running" THEN [row EXCEPT ![e] = p] ELSE row
  BY DEF Terminalizes, FailedIfRunning
<1>3. deed' = [deed EXCEPT ![r] = [deed[r] EXCEPT !.plan = p]] /\ [deed[r] EXCEPT !.plan = p] \in Deeds
  BY <1>1 DEF Terminalizes, Deeds
<1>4. /\ rpc' = [rpc EXCEPT ![r] = IF write = "timeout" THEN "late" ELSE "done"]
      /\ answer' = [answer EXCEPT ![r] = told]
      /\ given' = IF write = "ok" THEN given ELSE given \union {e}
  BY DEF Terminalizes
<1> HIDE DEF e
<1>5. row' \in [Executions -> Rows] /\ given' \subseteq Executions
  BY <1>1, <1>2, <1>4 DEF e
<1>6. deed' \in [Resumers -> Deeds] /\ deed'[r].on = e /\ deed'[r].at = deed[r].at
      /\ deed'[r].decision = deed[r].decision /\ deed'[r].plan = p
  BY <1>1, <1>3 DEF Deeds, e
<1> QED
  BY <1>1, <1>2, <1>3, <1>4, <1>5, <1>6 DEF e, WriteEnds

-----------------------------------------------------------------------------
(* Types *)

LEMMA MemoryTypes ==
  ASSUME TypeOK, Shapes, UNCHANGED <<store, resumes, world, history>>,
         pc' \in [Executions -> Steps], drive' \in [Executions -> Drives],
         staged' \in [Executions -> Stagings],
         engine' \in [module : {"none", "sound", "poisoned"}, building : BOOLEAN]
  PROVE  TypeOK' /\ Shapes'
BY DEF TypeOK, Shapes, store, resumes, world, history

\* A step of a drive in memory, one that settles or one that hears included.
LEMMA DriveTypes ==
  ASSUME IInv, NEW e \in Executions,
         \/ GetModule(e) \/ RunOnce(e) \/ RunAgain(e)
         \/ LookUp(e) \/ TakeDecision(e) \/ EvaluatePolicy(e) \/ Answered(e)
         \/ CallFails(e) \/ AnswerLost(e) \/ AppendFails(e) \/ CannotPause(e) \/ SettleFails(e)
  PROVE  TypeOK' /\ Shapes'
<1>1. TypeOK /\ Shapes
  BY DEF IInv
<1>2. UNCHANGED <<store, resumes, world, history>>
  BY DEF GetModule, RunOnce, RunAgain, LookUp, TakeDecision, EvaluatePolicy, Answered, CallFails,
         AnswerLost, AppendFails, CannotPause, SettleFails
<1>3. engine' \in [module : {"none", "sound", "poisoned"}, building : BOOLEAN]
  <2>1. \/ UNCHANGED engine
        \/ engine' = [engine EXCEPT !.building = TRUE]
        \/ engine' = [engine EXCEPT !.module = "poisoned"]
    BY DEF GetModule, RunOnce, RunAgain, LookUp, TakeDecision, EvaluatePolicy, Answered, CallFails,
           AnswerLost, AppendFails, CannotPause, SettleFails, Poison
  <2> QED
    BY <1>1, <2>1 DEF TypeOK
<1>4. staged' \in [Executions -> Stagings]
  <2>1. \/ UNCHANGED staged
        \/ staged' = [staged EXCEPT ![e].request = Nothing]
        \/ staged' = [staged EXCEPT ![e].request = Nothing, ![e].consumed = TRUE]
    BY DEF GetModule, RunOnce, RunAgain, LookUp, TakeDecision, EvaluatePolicy, Answered, CallFails,
           AnswerLost, AppendFails, CannotPause, SettleFails
  <2>2. staged \in [Executions -> Stagings]
    BY <1>1 DEF TypeOK
  <2> QED
    BY <2>1, <2>2 DEF Stagings
<1>5. pc' \in [Executions -> Steps] /\ drive' \in [Executions -> Drives]
  <2>1. ASSUME NEW p \in Rows, Settles(e, p) PROVE <1>5!1 /\ <1>5!2
    BY <1>1, <2>1, SettlesTo
  <2>2. ASSUME NEW outcome \in Outcomes, Hears(e, outcome) PROVE <1>5!1 /\ <1>5!2
    BY <1>1, <2>2, HearsTo
  <2>3. ASSUME NEW step \in Steps, Goes(e, step), UNCHANGED drive PROVE <1>5!1 /\ <1>5!2
    BY <1>1, <2>3, GoesTo DEF TypeOK
  <2>4. CASE GetModule(e) \/ RunAgain(e) \/ SettleFails(e)
    BY <2>3, <2>4 DEF GetModule, RunAgain, SettleFails, Steps
  <2>5. CASE RunOnce(e)
    <3>1. CASE Asks(e)
      <4>1. NextStep(e) \in Requests
        BY <3>1 DEF Asks
      <4>2. drive' = [drive EXCEPT ![e].request = NextStep(e)] /\ Goes(e, "asking")
        BY <2>5, <3>1 DEF RunOnce
      <4>3. drive' \in [Executions -> Drives]
        BY <1>1, <4>1, <4>2, AsksTo
      <4> QED
        BY <1>1, <4>2, <4>3, GoesTo DEF Steps
    <3>2. CASE ~Asks(e)
      <4>1. Settles(e, RunEnds(e))
        BY <2>5, <3>2 DEF RunOnce
      <4>2. RunEnds(e) \in Rows
        BY RowFacts DEF RunEnds, Causes
      <4> QED
        BY <2>1, <4>1, <4>2
    <3> QED
      BY <3>1, <3>2
  <2>6. CASE LookUp(e) \/ Answered(e) \/ CallFails(e)
    BY <2>2, <2>6 DEF LookUp, Answered, CallFails, Outcomes
  <2>7. CASE AnswerLost(e) \/ AppendFails(e) \/ CannotPause(e)
    BY <2>1, <2>7, RowFacts DEF AnswerLost, AppendFails, CannotPause, Causes
  <2>8. CASE TakeDecision(e)
    <3>1. \/ Goes(e, "calling") /\ UNCHANGED drive
          \/ Hears(e, "refused")
          \/ Settles(e, Failed("divergence"))
      BY <2>8 DEF TakeDecision
    <3>2. "calling" \in Steps /\ "refused" \in Outcomes /\ Failed("divergence") \in Rows
      BY RowFacts DEF Steps, Outcomes, Causes
    <3> QED
      BY <2>1, <2>2, <2>3, <3>1, <3>2
  <2>9. CASE EvaluatePolicy(e)
    BY <2>2, <2>3, <2>9 DEF EvaluatePolicy, Outcomes, Steps
  <2> QED
    BY <2>4, <2>5, <2>6, <2>7, <2>8, <2>9
<1> QED
  BY <1>1, <1>2, <1>3, <1>4, <1>5, MemoryTypes

\* What IInv says of an execution that is driven.
LEMMA DrivenFacts ==
  ASSUME IInv, NEW e \in Executions, Driven(e)
  PROVE  /\ TypeOK /\ Shapes /\ Kept(e) /\ Driving(e) /\ Owned(e)
         /\ up /\ row[e].status = "running" /\ script[e] \in Scripts[e]
         /\ At(e) = Here(e) /\ Here(e) \in Nat /\ disk[e] \in Seq(Entries) /\ Len(disk[e]) <= MaxCalls
         /\ pc[e] \in Asking =>
              /\ drive[e].request \in Requests /\ Here(e) \in Positions /\ Len(disk[e]) < MaxCalls
<1>1. TypeOK /\ Shapes /\ Kept(e) /\ Driving(e) /\ Owned(e)
  BY DEF IInv, Kept
<1>2. disk[e] \in Seq(Entries) /\ Len(disk[e]) <= MaxCalls /\ Len(disk[e]) \in Nat
  BY <1>1, JournalFacts DEF TypeOK
<1>3. up /\ row[e].status = "running" /\ script[e] \in Scripts[e]
  BY <1>1 DEF Owned
<1>4. At(e) = Here(e) /\ Here(e) \in Nat
  BY <1>1, <1>2 DEF Driving, At, Here
<1>5. pc[e] \in Asking => drive[e].request \in Requests /\ Len(disk[e]) < MaxCalls
  BY <1>1 DEF Driving
<1>6. Len(disk[e]) < MaxCalls => Here(e) \in Positions
  BY <1>2, JournalFacts DEF Here, Positions
<1> QED
  BY <1>1, <1>2, <1>3, <1>4, <1>5, <1>6

LEMMA AppendsTo ==
  ASSUME IInv, NEW e \in Executions, AppendBarrier(e)
  PROVE  /\ disk' \in [Executions -> Journals] /\ drive' \in [Executions -> Drives]
         /\ pc' \in [Executions -> Steps]
         /\ disk'[e] = Append(disk[e], [request |-> drive[e].request,
                                        outcome |-> RowOutcome(drive[e].outcome)])
         /\ Len(disk'[e]) = Len(disk[e]) + 1 /\ Len(drive'[e].journal) = Len(disk'[e])
         /\ \A k \in DOMAIN disk[e] : k \in DOMAIN disk'[e] /\ disk'[e][k] = disk[e][k]
         /\ drive'[e].by = drive[e].by
         /\ \/ pc'[e] = "module"
            \/ pc'[e] = "settling" /\ drive'[e].plan = Failed("limits")
         /\ \A b \in Executions \ {e} : disk'[b] = disk[b] /\ drive'[b] = drive[b] /\ pc'[b] = pc[b]
<1> DEFINE entry == [request |-> drive[e].request, outcome |-> drive[e].outcome]
           kept == [request |-> drive[e].request, outcome |-> RowOutcome(drive[e].outcome)]
<1>1. Driven(e) /\ pc[e] \in Asking
  BY DEF AppendBarrier, Driven, Asking
<1>2. /\ TypeOK /\ At(e) = Here(e) /\ disk[e] \in Seq(Entries) /\ Len(disk[e]) \in Nat
      /\ Len(disk[e]) < MaxCalls /\ drive[e].request \in Requests
      /\ Len(drive[e].journal) = Len(disk[e])
  BY <1>1, DrivenFacts DEF Driving
<1>3. entry \in Entries /\ kept \in Entries
  BY <1>2, DriveFields DEF Entries, RowOutcome, Outcomes
<1>4. disk' = [disk EXCEPT ![e] = Append(disk[e], kept)]
  BY <1>2 DEF AppendBarrier, Appended, Here
<1>5. Append(disk[e], kept) \in Seq(Entries) /\ Len(Append(disk[e], kept)) = Len(disk[e]) + 1
  BY <1>2, <1>3, LongerJournal
<1>6. Append(disk[e], kept) \in Journals
  BY <1>2, <1>3, LongerJournal
<1>7. disk' \in [Executions -> Journals] /\ disk'[e] = Append(disk[e], kept)
      /\ \A b \in Executions \ {e} : disk'[b] = disk[b]
  BY <1>2, <1>4, <1>6 DEF TypeOK
<1>8. \A k \in DOMAIN disk[e] : k \in DOMAIN disk'[e] /\ disk'[e][k] = disk[e][k]
  BY <1>2, <1>3, <1>7
<1> DEFINE journal == Append(drive[e].journal, entry)
           longer == [drive EXCEPT ![e].journal = journal]
<1>9. journal \in Journals /\ Len(journal) = Len(disk[e]) + 1
  <2>1. drive[e].journal \in Seq(Entries)
    BY <1>2, DriveFields
  <2> QED
    BY <1>2, <1>3, <2>1, LongerJournal
<1>10. /\ longer \in [Executions -> Drives] /\ longer[e].journal = journal /\ longer[e].by = drive[e].by
       /\ \A b \in Executions \ {e} : longer[b] = drive[b]
  <2>1. [drive[e] EXCEPT !.journal = journal] \in Drives
    BY <1>2, <1>9, DriveFacts, DriveFields
  <2>2. longer = [drive EXCEPT ![e] = [drive[e] EXCEPT !.journal = journal]]
    BY <1>2 DEF TypeOK
  <2> HIDE DEF journal, entry
  <2> QED
    BY <1>2, <2>1, <2>2 DEF TypeOK, Drives
<1>11. \/ drive' = longer /\ Goes(e, "module")
       \/ drive' = [longer EXCEPT ![e].plan = Failed("limits")] /\ Goes(e, "settling")
  BY DEF AppendBarrier
<1> HIDE DEF longer, journal
<1>12. /\ drive' \in [Executions -> Drives] /\ drive'[e].journal = journal /\ drive'[e].by = drive[e].by
       /\ pc' \in [Executions -> Steps]
       /\ \/ pc'[e] = "module"
          \/ pc'[e] = "settling" /\ drive'[e].plan = Failed("limits")
       /\ \A b \in Executions \ {e} : drive'[b] = drive[b] /\ pc'[b] = pc[b]
  <2>1. CASE drive' = longer /\ Goes(e, "module")
    BY <1>2, <1>10, <2>1, GoesTo DEF Steps
  <2>2. CASE drive' = [longer EXCEPT ![e].plan = Failed("limits")] /\ Goes(e, "settling")
    <3>1. Failed("limits") \in Rows
      BY RowFacts DEF Causes
    <3>2. [longer[e] EXCEPT !.plan = Failed("limits")] \in Drives
      BY <1>10, <3>1, DriveFacts
    <3>3. drive' = [longer EXCEPT ![e] = [longer[e] EXCEPT !.plan = Failed("limits")]]
      BY <1>10, <2>2
    <3>4. /\ drive' \in [Executions -> Drives] /\ drive'[e] = [longer[e] EXCEPT !.plan = Failed("limits")]
          /\ \A b \in Executions \ {e} : drive'[b] = drive[b]
      BY <1>10, <3>2, <3>3
    <3>5. longer[e] \in Drives
      BY <1>10
    <3>6. drive'[e].journal = longer[e].journal /\ drive'[e].by = longer[e].by /\ drive'[e].plan = Failed("limits")
      BY <3>4, <3>5 DEF Drives
    <3> QED
      BY <1>2, <1>10, <2>2, <3>4, <3>6, GoesTo DEF Steps
  <2> QED
    BY <1>11, <2>1, <2>2
<1> QED
  BY <1>5, <1>7, <1>8, <1>9, <1>12 DEF entry, journal

\* Of a resume() that was given a row and does not drive yet.
LEMMA ClaimedFacts ==
  ASSUME IInv, NEW r \in Resumers, rpc[r] = "claimed"
  PROVE  /\ TypeOK /\ deed[r].on \in Executions /\ Holds(r, deed[r].on)
         /\ Kept(deed[r].on) /\ ~Driven(deed[r].on) /\ up
         /\ row[deed[r].on].status = "running"
         /\ row[deed[r].on].pause.at = deed[r].at /\ deed[r].at = Here(deed[r].on)
         /\ row[deed[r].on].pause.request \in Requests
         /\ deed[r] \in Deeds
         /\ drive[deed[r].on] = NoDrive
<1>1. TypeOK /\ deed[r].on \in Executions /\ Holds(r, deed[r].on) /\ deed[r] \in Deeds
  BY DEF IInv, Shapes, Holds, TypeOK
<1>2. Kept(deed[r].on)
  BY <1>1 DEF IInv
<1> QED
  BY <1>1, <1>2 DEF Kept, Owned, Claiming

LEMMA RedrivesTo ==
  ASSUME IInv, NEW r \in Resumers, Redrive(r)
  PROVE  /\ drive' \in [Executions -> Drives] /\ staged' \in [Executions -> Stagings]
         /\ pc' \in [Executions -> Steps]
         /\ rpc' \in [Resumers -> {"idle", "claimed", "driving", "caught", "late", "done"}]
         /\ drive'[deed[r].on].journal = disk[deed[r].on] /\ drive'[deed[r].on].by = r
         /\ staged'[deed[r].on].request = row[deed[r].on].pause.request
         /\ staged'[deed[r].on].decision = deed[r].decision
         /\ ~staged'[deed[r].on].consumed
         /\ pc'[deed[r].on] = "module" /\ rpc'[r] = "driving"
         /\ \A b \in Executions \ {deed[r].on} :
              pc'[b] = pc[b] /\ drive'[b] = drive[b] /\ staged'[b] = staged[b]
         /\ \A s \in Resumers \ {r} : rpc'[s] = rpc[s]
<1> DEFINE e == deed[r].on
           begun == [NoDrive EXCEPT !.journal = disk[e], !.by = r]
           choice == [request |-> row[e].pause.request, decision |-> deed[r].decision,
                      consumed |-> FALSE]
<1>1. /\ TypeOK /\ e \in Executions /\ row[e].pause.request \in Requests
      /\ deed[r].decision \in Decisions
  BY ClaimedFacts DEF Redrive, Deeds
<1>2. begun \in Drives /\ begun.journal = disk[e] /\ begun.by = r
  BY <1>1, DriveFacts DEF TypeOK, Drives
<1>3. choice \in Stagings
  BY <1>1 DEF Stagings
<1>4. /\ drive' = [drive EXCEPT ![e] = begun] /\ staged' = [staged EXCEPT ![e] = choice]
      /\ Goes(e, "module") /\ rpc' = [rpc EXCEPT ![r] = "driving"]
  BY DEF Redrive
<1> HIDE DEF e, begun
<1> QED
  BY <1>1, <1>2, <1>3, <1>4, GoesTo DEF TypeOK, Steps, e

LEMMA ClaimsTo ==
  ASSUME IInv, NEW r \in Resumers, NEW e \in Executions, NEW id \in Positions, NEW d \in Decisions,
         Claim(r, e, id, d), Claims(e, id)
  PROVE  /\ TypeOK' /\ Shapes' /\ up
         /\ row[e].status = "paused" /\ row[e].pause \in Pauses /\ row[e].pause.id = id
         /\ row'[e].status = "running" /\ row'[e].pause = row[e].pause /\ row'[e].cause = row[e].cause
         /\ deed[r] = NoDeed /\ rpc[r] = "idle" /\ answer[r] = "none"
         /\ deed'[r].on = e /\ deed'[r].at = row[e].pause.at /\ deed'[r].decision = d
         /\ rpc'[r] = "claimed" /\ UNCHANGED answer
         /\ approved' = IF d = "approve"
                        THEN approved \union {[on |-> e, id |-> id, request |-> row[e].pause.request]}
                        ELSE approved
         /\ UNCHANGED <<disk, script, pauses, memory, engine, world, sent, given>>
         /\ \A b \in Executions \ {e} : row'[b] = row[b]
         /\ \A s \in Resumers \ {r} : rpc'[s] = rpc[s] /\ deed'[s] = deed[s]
<1>1. TypeOK /\ Shapes /\ Kept(e) /\ row[e] \in Rows /\ row[e].pause \in Pauses
  <2>1. TypeOK /\ Shapes /\ Kept(e) /\ row[e] \in Rows
    BY DEF IInv, TypeOK
  <2> QED
    BY <2>1 DEF Rows
<1>2. /\ row[e].status = "paused" /\ row[e].pause.id = id
      /\ row[e].pause.request \in Requests
  BY <1>1 DEF Claims, Kept, Recorded, Waits
<1>3. row[e].pause.at \in 0..MaxCalls
  BY <1>1, JournalFacts DEF Pauses, NoPause, Positions
<1> DEFINE taken == [on |-> e, at |-> row[e].pause.at, decision |-> d, plan |-> NoRow]
           approval == [on |-> e, id |-> id, request |-> row[e].pause.request]
<1>4. taken \in Deeds
  BY <1>3, RowFacts DEF Deeds
<1>5. /\ row' = [row EXCEPT ![e].status = "running"]
      /\ deed' = [deed EXCEPT ![r] = taken]
      /\ rpc' = [rpc EXCEPT ![r] = "claimed"]
      /\ approved' = IF d = "approve" THEN approved \union {approval} ELSE approved
      /\ UNCHANGED answer
      /\ UNCHANGED <<disk, script, pauses, memory, engine, world, sent, given>>
      /\ up /\ rpc[r] = "idle"
  BY DEF Claim
<1>6. [row[e] EXCEPT !.status = "running"] \in Rows /\ row' = [row EXCEPT ![e] = [row[e] EXCEPT !.status = "running"]]
  BY <1>1, <1>5 DEF Rows, Statuses, TypeOK
<1>7. /\ row' \in [Executions -> Rows] /\ row'[e].status = "running" /\ row'[e].pause = row[e].pause
      /\ row'[e].cause = row[e].cause
      /\ \A b \in Executions \ {e} : row'[b] = row[b]
  <2>1. row' \in [Executions -> Rows] /\ row'[e] = [row[e] EXCEPT !.status = "running"]
        /\ \A b \in Executions \ {e} : row'[b] = row[b]
    BY <1>1, <1>6 DEF TypeOK
  <2> QED
    BY <1>1, <2>1 DEF Rows
<1>8. /\ deed' \in [Resumers -> Deeds] /\ deed'[r] = taken
      /\ \A s \in Resumers \ {r} : deed'[s] = deed[s]
  BY <1>1, <1>4, <1>5 DEF TypeOK
<1>9. /\ rpc' \in [Resumers -> {"idle", "claimed", "driving", "caught", "late", "done"}] /\ rpc'[r] = "claimed"
      /\ \A s \in Resumers \ {r} : rpc'[s] = rpc[s]
  BY <1>1, <1>5 DEF TypeOK
<1>10. /\ approved' \subseteq [on : Executions, id : Positions, request : Requests]
       /\ IsFiniteSet(approved')
  <2>1. IsFiniteSet(approved \union {approval})
    BY <1>1, FS_AddElement DEF Shapes
  <2>2. IsFiniteSet(approved')
    BY <1>1, <1>5, <2>1 DEF Shapes
  <2>3. approval \in [on : Executions, id : Positions, request : Requests]
    BY <1>2
  <2> HIDE DEF approval
  <2>4. approved' \subseteq [on : Executions, id : Positions, request : Requests]
    BY <1>1, <1>5, <2>3 DEF TypeOK
  <2> QED
    BY <2>2, <2>4
<1>11. TypeOK'
  BY <1>1, <1>5, <1>7, <1>8, <1>9, <1>10 DEF TypeOK, memory, world
<1>12. Shapes'
  BY <1>1, <1>5, <1>8, <1>9, <1>10 DEF Shapes
<1>13. deed[r] = NoDeed /\ answer[r] = "none"
  BY <1>1, <1>5 DEF Shapes
<1> QED
  BY <1>1, <1>2, <1>5, <1>7, <1>8, <1>9, <1>11, <1>12, <1>13

-----------------------------------------------------------------------------
(* What a step leaves alone *)

\* A step of somebody else: nothing of b changes, nor what is held of it.
Apart(b) ==
  /\ row'[b] = row[b] /\ disk'[b] = disk[b] /\ script'[b] = script[b] /\ pauses'[b] = pauses[b]
  /\ pc'[b] = pc[b] /\ drive'[b] = drive[b] /\ staged'[b] = staged[b]
  /\ sent'[b] = sent[b] /\ up' = up
  /\ b \in given => b \in given'
  /\ \A a \in approved \union approved' : a.on = b => a \in approved /\ a \in approved'
  /\ \A r \in Resumers :
       \/ rpc'[r] = rpc[r] /\ deed'[r] = deed[r] /\ answer'[r] = answer[r]
       \/ deed[r].on # b /\ deed'[r].on # b

LEMMA ApartKept ==
  ASSUME IInv, NEW b \in Executions, Apart(b)
  PROVE  Kept(b)'
<1>1. TypeOK /\ Owned(b) /\ Recorded(b) /\ Claiming(b) /\ Parted(b) /\ Honest(b) /\ Spent(b)
      /\ (IF Driven(b) THEN Driving(b) ELSE Undriven(b))
  BY DEF IInv, Kept
<1>2. /\ row'[b] = row[b] /\ disk'[b] = disk[b] /\ script'[b] = script[b] /\ pauses'[b] = pauses[b]
      /\ pc'[b] = pc[b] /\ drive'[b] = drive[b] /\ staged'[b] = staged[b]
      /\ sent'[b] = sent[b] /\ up' = up
      /\ b \in given => b \in given'
      /\ \A a \in approved \union approved' : a.on = b => a \in approved /\ a \in approved'
  BY DEF Apart
<1>3. \A r \in Resumers :
        \/ rpc'[r] = rpc[r] /\ deed'[r] = deed[r] /\ answer'[r] = answer[r]
        \/ deed[r].on # b /\ deed'[r].on # b
  BY DEF Apart
<1>4. (Here(b))' = Here(b) /\ (Driven(b)' <=> Driven(b)) /\ (\A k : SentAt(b, k)' <=> SentAt(b, k))
  BY <1>2 DEF Here, Driven, SentAt
<1>5. \A r \in Resumers : Holds(r, b)' <=> Holds(r, b)
  BY <1>3 DEF Holds
<1>6. \A r \in Resumers : Holds(r, b) => rpc'[r] = rpc[r] /\ deed'[r] = deed[r]
  BY <1>3 DEF Holds
<1>7. Claimed(b)' <=> Claimed(b)
  BY <1>3 DEF Claimed
<1>8. Owned(b)'
  <2>1. drive[b].by \in Resumers \union {Nothing}
    BY <1>1, DriveFields
  <2> QED
    BY <1>1, <1>2, <1>4, <1>5, <1>6, <2>1 DEF Owned
<1>9. Recorded(b)'
  BY <1>1, <1>2, <1>4 DEF Recorded, Waits
<1>10. Claiming(b)'
  BY <1>1, <1>2, <1>4, <1>5, <1>6 DEF Claiming
<1>10a. Parted(b)'
  <2>1. \A r \in Resumers : Parting(r, b)' <=> Parting(r, b)
    BY <1>3 DEF Parting
  <2>2. \A r \in Resumers : Parting(r, b) => rpc'[r] = rpc[r] /\ deed'[r] = deed[r]
    BY <1>3 DEF Parting
  <2> QED
    BY <1>1, <1>2, <1>4, <1>5, <2>1, <2>2 DEF Parted
<1>11. Honest(b)'
  <2>1. \A k : Never(b, k)' <=> Never(b, k)
    BY <1>2, <1>4, <1>7 DEF Never
  <2> QED
    BY <1>1, <1>3, <2>1 DEF Honest, Unrun
<1>12. Spent(b)'
  <2>1. \A q : (CallsOf(b, q))' = CallsOf(b, q) /\ (ApprovalsOf(b, q))' = ApprovalsOf(b, q)
    BY <1>2 DEF CallsOf, ApprovalsOf
  <2>2. \A q : Unspent(b, q)' => Unspent(b, q)
    BY <1>2, <1>3, <1>4 DEF Unspent
  <2> QED
    BY <1>1, <2>1, <2>2 DEF Spent
<1>13. Driven(b) => Driving(b)'
  <2> SUFFICES ASSUME Driven(b) PROVE Driving(b)'
    OBVIOUS
  <2>1. drive[b].by # Nothing => deed'[drive[b].by] = deed[drive[b].by]
    <3>1. drive[b].by \in Resumers \union {Nothing}
      BY <1>1, DriveFields
    <3> QED
      BY <1>1, <1>6, <3>1 DEF Owned
  <2>2. drive[b].by # Nothing => (Staged(b)' <=> Staged(b))
    BY <1>2, <1>4, <2>1 DEF Staged
  <2>3. \A pause : Waits(b, pause) => Waits(b, pause)'
    BY <1>2, <1>4 DEF Waits
  <2> QED
    BY <1>1, <1>2, <1>4, <2>1, <2>2, <2>3 DEF Driving
<1>14. ~Driven(b) => Undriven(b)'
  BY <1>1, <1>2, <1>4, <1>5, <1>7 DEF Undriven
<1> QED
  BY <1>4, <1>8, <1>9, <1>10, <1>10a, <1>11, <1>12, <1>13, <1>14 DEF Kept

\* Whoever has let go of a row has let go of one that nobody holds and nobody can claim.
LEMMA NobodyParts ==
  ASSUME IInv, NEW e \in Executions,
         \/ Driven(e)
         \/ \E r \in Resumers : Holds(r, e)
         \/ row[e].status \in {"none", "paused"}
         \/ ~up
  PROVE  \A r \in Resumers : ~Parting(r, e)
BY DEF IInv, Kept, Parted, Terminal

\* A step that e's drive takes in memory.
Moves(e) ==
  /\ UNCHANGED <<store, resumes, world, history>>
  /\ Driven(e) /\ Driven(e)' /\ drive'[e].by = drive[e].by

LEMMA MovesKept ==
  ASSUME IInv, NEW e \in Executions, Moves(e), Driving(e)',
         \A q \in Gated : Unspent(e, q)' => Unspent(e, q)
  PROVE  Kept(e)'
<1>1. TypeOK /\ Driven(e) /\ Driven(e)' /\ Owned(e) /\ Recorded(e) /\ Claiming(e) /\ Parted(e) /\ Honest(e) /\ Spent(e)
  BY DEF IInv, Kept, Moves
<1>2. /\ UNCHANGED <<row, disk, script, pauses, rpc, deed, answer, up, crashes, sent, approved, given>>
      /\ drive'[e].by = drive[e].by
  BY DEF Moves, store, resumes, world, history
<1>3. (Here(e))' = Here(e) /\ (\A k : SentAt(e, k)' <=> SentAt(e, k)) /\ (\A r : Holds(r, e)' <=> Holds(r, e))
  BY <1>2 DEF Here, SentAt, Holds
<1>4. Owned(e)'
  BY <1>1, <1>2, <1>3 DEF Owned
<1>5. Recorded(e)'
  BY <1>1, <1>2, <1>3 DEF Recorded, Waits
<1>6. Claiming(e)'
  BY <1>1, <1>2, <1>3 DEF Claiming
<1>6a. Parted(e)'
  BY <1>1, <1>2, NobodyParts DEF Parted, Parting
<1>7. Honest(e)'
  BY <1>1, <1>2, <1>3 DEF Honest, Unrun, Never
<1>8. Spent(e)'
  <2>1. \A q : (CallsOf(e, q))' = CallsOf(e, q) /\ (ApprovalsOf(e, q))' = ApprovalsOf(e, q)
    BY <1>2 DEF CallsOf, ApprovalsOf
  <2> QED
    BY <1>1, <2>1 DEF Spent
<1> QED
  BY <1>1, <1>4, <1>5, <1>6, <1>6a, <1>7, <1>8 DEF Kept

\* A step that a drive takes in memory leaves every other execution alone.
LEMMA OthersApart ==
  ASSUME IInv, NEW b \in Executions, UNCHANGED <<store, resumes, world, history>>,
         pc'[b] = pc[b], drive'[b] = drive[b], staged'[b] = staged[b]
  PROVE  Kept(b)'
<1>1. Apart(b)
  BY DEF Apart, store, resumes, world, history
<1> QED
  BY <1>1, ApartKept

-----------------------------------------------------------------------------
(* The steps a drive takes in memory, by where they lead *)

\* The staged decision is as it was, or taken, or discarded.
StagedLess(e) ==
  /\ staged'[e].request \in {staged[e].request, Nothing}
  /\ staged'[e].decision = staged[e].decision
  /\ staged[e].consumed => staged'[e].consumed

Waiting == {"module", "building", "run"}

\* What a step in memory does not touch.
LEMMA MovesFacts ==
  ASSUME IInv, NEW e \in Executions, Moves(e)
  PROVE  /\ TypeOK /\ Kept(e) /\ Driving(e) /\ Driven(e) /\ Driven(e)'
         /\ (Here(e))' = Here(e) /\ (\A k : SentAt(e, k)' <=> SentAt(e, k))
         /\ UNCHANGED <<row, disk, script, pauses, rpc, deed, answer, sent, approved, up>>
         /\ drive'[e].by = drive[e].by
         /\ \A pause : Waits(e, pause) => Waits(e, pause)'
         /\ \A q \in Gated : q # Nothing
<1>1. TypeOK /\ Kept(e) /\ Driving(e) /\ Driven(e) /\ Driven(e)'
  BY DEF IInv, Kept, Moves
<1>2. UNCHANGED <<row, disk, script, pauses, rpc, deed, answer, sent, approved, up>>
  BY DEF Moves, store, resumes, world, history
<1>3. (Here(e))' = Here(e) /\ (\A k : SentAt(e, k)' <=> SentAt(e, k))
      /\ \A pause : Waits(e, pause) => Waits(e, pause)'
  BY <1>2 DEF Here, SentAt, Waits
<1>4. \A q \in Gated : q # Nothing
  BY RequestsAssumption
<1> QED
  BY <1>1, <1>2, <1>3, <1>4 DEF Moves

\* Waiting for a module, and being handed one.
LEMMA WaitingKept ==
  ASSUME IInv, NEW e \in Executions, UNCHANGED <<store, resumes, world, history>>,
         pc[e] \in Waiting, pc'[e] \in Waiting,
         drive'[e] = drive[e], staged'[e] = staged[e]
  PROVE  Kept(e)'
<1>1. Moves(e)
  BY DEF Moves, Driven, Waiting
<1>2. Driving(e)'
  BY <1>1, MovesFacts DEF Driving, Staged, Waiting, Asking, Settling
<1>3. \A q : Unspent(e, q)' => Unspent(e, q)
  BY <1>1, MovesFacts DEF Unspent, Waiting
<1> QED
  BY <1>1, <1>2, <1>3, MovesKept

\* The script asks for something.
LEMMA AskingKept ==
  ASSUME IInv, NEW e \in Executions, UNCHANGED <<store, resumes, world, history>>,
         pc[e] = "run", pc'[e] = "asking", Len(disk[e]) < MaxCalls,
         drive'[e].request \in Requests, drive'[e].journal = drive[e].journal,
         drive'[e].by = drive[e].by, staged'[e] = staged[e]
  PROVE  Kept(e)'
<1>1. Moves(e)
  BY DEF Moves, Driven
<1>2. Driving(e)'
  BY <1>1, MovesFacts DEF Driving, Staged, Asking, Settling
<1>3. \A q : Unspent(e, q)' => Unspent(e, q)
  BY <1>1, MovesFacts DEF Unspent
<1> QED
  BY <1>1, <1>2, <1>3, MovesKept

\* The drive is to end, in a terminal row.
LEMMA EndingKept ==
  ASSUME IInv, NEW e \in Executions, UNCHANGED <<store, resumes, world, history>>,
         Driven(e), pc[e] \notin Settling, pc'[e] = "settling", StagedLess(e),
         drive'[e].journal = drive[e].journal, drive'[e].by = drive[e].by,
         drive'[e].plan.status \in Terminal, drive'[e].plan.cause # "engine",
         SentAt(e, Here(e)) => drive'[e].plan = Failed("ambiguous")
  PROVE  Kept(e)'
<1>1. Moves(e)
  BY DEF Moves, Driven
<1>2. Driving(e)'
  <2>1. drive[e].by # Nothing => Staged(e)'
    BY <1>1, MovesFacts DEF Driving, Staged, Settling, StagedLess, Terminal
  <2>2. drive[e].by = Nothing => staged'[e].request = Nothing
    BY <1>1, MovesFacts DEF Driving, StagedLess
  <2> QED
    BY <1>1, <2>1, <2>2, MovesFacts DEF Driving, Asking, Settling, Terminal
<1>3. \A q \in Gated : Unspent(e, q)' => Unspent(e, q)
  BY <1>1, MovesFacts DEF Unspent, StagedLess
<1> QED
  BY <1>1, <1>2, <1>3, MovesKept

\* The script is to hear something of its request.
LEMMA HearingKept ==
  ASSUME IInv, NEW e \in Executions, UNCHANGED <<store, resumes, world, history>>,
         pc[e] \in {"asking", "calling", "sent"}, pc'[e] = "journaling", StagedLess(e),
         drive'[e].journal = drive[e].journal, drive'[e].by = drive[e].by,
         drive'[e].request = drive[e].request,
         SentAt(e, Here(e)) <=> drive'[e].outcome = "value" /\ drive[e].request \notin Lookups
  PROVE  Kept(e)'
<1>1. Moves(e)
  BY DEF Moves, Driven
<1>2. Driving(e)'
  <2>1. drive[e].by # Nothing => Staged(e)'
    BY <1>1, MovesFacts DEF Driving, Staged, Settling, StagedLess
  <2>2. drive[e].by = Nothing => staged'[e].request = Nothing
    BY <1>1, MovesFacts DEF Driving, StagedLess
  <2> QED
    BY <1>1, <2>1, <2>2, MovesFacts DEF Driving, Asking, Settling
<1>3. \A q \in Gated : Unspent(e, q)' => Unspent(e, q)
  BY <1>1, MovesFacts DEF Unspent, StagedLess
<1> QED
  BY <1>1, <1>2, <1>3, MovesKept

\* A request that is let through, or that waits for an operator.
LEMMA DecidedKept ==
  ASSUME IInv, NEW e \in Executions, UNCHANGED <<store, resumes, world, history>>,
         pc[e] = "asking", drive[e].request \notin Lookups, drive'[e] = drive[e],
         \/ /\ pc'[e] = "calling"
            /\ staged[e].request = drive[e].request /\ staged[e].decision = "approve"
            /\ staged'[e].request = Nothing /\ staged'[e].consumed
            /\ staged'[e].decision = staged[e].decision
         \/ /\ pc'[e] \in {"calling", "pausing"} /\ staged[e].request = Nothing
            /\ staged'[e] = staged[e]
            /\ pc'[e] = "calling" => drive[e].request \notin Gated
  PROVE  Kept(e)'
<1>1. Moves(e)
  BY DEF Moves, Driven
<1>2. Driving(e)'
  <2>1. drive[e].by # Nothing => Staged(e)'
    BY <1>1, MovesFacts, RequestsAssumption DEF Driving, Staged, Settling, Asking
  <2> QED
    BY <1>1, <2>1, MovesFacts, RequestsAssumption DEF Driving, Asking, Settling
<1>3. \A q \in Gated : Unspent(e, q)' => Unspent(e, q)
  BY <1>1, MovesFacts DEF Unspent
<1> QED
  BY <1>1, <1>2, <1>3, MovesKept

\* The drive's last write is to be tried in another way.
LEMMA FallbackKept ==
  ASSUME IInv, NEW e \in Executions, UNCHANGED <<store, resumes, world, history>>,
         pc[e] = "settling", pc'[e] = "fallback", drive'[e] = drive[e], staged'[e] = staged[e]
  PROVE  Kept(e)'
<1>1. Moves(e)
  BY DEF Moves, Driven
<1>2. Driving(e)'
  BY <1>1, MovesFacts DEF Driving, Staged, Asking, Settling
<1>3. \A q : Unspent(e, q)' => Unspent(e, q)
  BY <1>1, MovesFacts DEF Unspent
<1> QED
  BY <1>1, <1>2, <1>3, MovesKept

\* Such a step leaves the other executions alone.
LEMMA OwnStep ==
  ASSUME IInv, NEW e \in Executions,
         \/ GetModule(e) \/ RunOnce(e) \/ RunAgain(e)
         \/ LookUp(e) \/ TakeDecision(e) \/ EvaluatePolicy(e) \/ Answered(e)
         \/ CallFails(e) \/ AnswerLost(e) \/ AppendFails(e) \/ CannotPause(e) \/ SettleFails(e)
  PROVE  /\ UNCHANGED <<store, resumes, world, history>>
         /\ \A b \in Executions \ {e} :
              pc'[b] = pc[b] /\ drive'[b] = drive[b] /\ staged'[b] = staged[b] /\ Kept(b)'
<1>1. UNCHANGED <<store, resumes, world, history>>
  BY DEF GetModule, RunOnce, RunAgain, LookUp, TakeDecision, EvaluatePolicy, Answered, CallFails,
         AnswerLost, AppendFails, CannotPause, SettleFails
<1>2. ASSUME NEW b \in Executions, b # e PROVE pc'[b] = pc[b] /\ drive'[b] = drive[b] /\ staged'[b] = staged[b]
  <2>1. TypeOK
    BY DEF IInv
  <2>2. staged'[b] = staged[b]
    <3>1. \/ UNCHANGED staged
          \/ staged' = [staged EXCEPT ![e].request = Nothing]
          \/ staged' = [staged EXCEPT ![e].request = Nothing, ![e].consumed = TRUE]
      BY DEF GetModule, RunOnce, RunAgain, LookUp, TakeDecision, EvaluatePolicy, Answered, CallFails,
             AnswerLost, AppendFails, CannotPause, SettleFails
    <3> QED
      BY <1>2, <2>1, <3>1 DEF TypeOK
  <2>3. pc'[b] = pc[b]
    <3>1. \E step : Goes(e, step)
      BY DEF GetModule, RunOnce, RunAgain, LookUp, TakeDecision, EvaluatePolicy, Answered, CallFails,
             AnswerLost, AppendFails, CannotPause, SettleFails, Settles, Hears
    <3> QED
      BY <1>2, <2>1, <3>1 DEF TypeOK, Goes
  <2>4. drive'[b] = drive[b]
    <3>1. \/ UNCHANGED drive
          \/ \E p : drive' = [drive EXCEPT ![e].plan = p]
          \/ \E outcome : drive' = [drive EXCEPT ![e].outcome = outcome]
          \/ \E q : drive' = [drive EXCEPT ![e].request = q]
      BY DEF GetModule, RunOnce, RunAgain, LookUp, TakeDecision, EvaluatePolicy, Answered, CallFails,
             AnswerLost, AppendFails, CannotPause, SettleFails, Settles, Hears
    <3> QED
      BY <1>2, <2>1, <3>1 DEF TypeOK
  <2> QED
    BY <2>2, <2>3, <2>4
<1> QED
  BY <1>1, <1>2, OthersApart

LEMMA ModuleSteps ==
  ASSUME IInv, NEW e \in Executions, GetModule(e) \/ RunOnce(e) \/ RunAgain(e)
  PROVE  Kept(e)'
<1>1. TypeOK /\ UNCHANGED <<store, resumes, world, history>>
  BY OwnStep DEF IInv
<1>2. CASE GetModule(e) \/ RunAgain(e)
  <2>1. /\ pc[e] \in Waiting /\ UNCHANGED <<drive, staged>>
        /\ \E step \in {"run", "building", "module"} : Goes(e, step)
    BY <1>2 DEF GetModule, RunAgain, Waiting
  <2>2. pc'[e] \in Waiting
    BY <1>1, <2>1, GoesTo DEF Waiting, Steps
  <2> QED
    BY <1>1, <2>1, <2>2, WaitingKept
<1>3. CASE RunOnce(e)
  <2>1. /\ pc[e] = "run" /\ UNCHANGED staged /\ engine.module # "poisoned" /\ Driven(e)
    BY <1>3 DEF RunOnce, StillUsable, Driven
  <2>2. CASE Asks(e)
    <3>1. drive' = [drive EXCEPT ![e].request = NextStep(e)] /\ Goes(e, "asking")
      BY <1>3, <2>2 DEF RunOnce
    <3>2. NextStep(e) \in Requests /\ Len(disk[e]) < MaxCalls
      BY <1>1, <2>1, <2>2, AskingRuns, DrivenFacts DEF Driving
    <3>3. /\ pc'[e] = "asking" /\ drive'[e].request \in Requests
          /\ drive'[e].journal = drive[e].journal /\ drive'[e].by = drive[e].by
      <4>1. pc'[e] = "asking"
        BY <1>1, <3>1, GoesTo DEF Steps
      <4> DEFINE q == NextStep(e)
      <4>2. q \in Requests /\ drive' = [drive EXCEPT ![e].request = q]
        BY <3>1, <3>2
      <4> HIDE DEF q
      <4> QED
        BY <1>1, <4>1, <4>2, AsksTo
    <3>4. pc[e] = "run" /\ staged'[e] = staged[e]
      BY <2>1
    <3> QED
      BY <1>1, <3>2, <3>3, <3>4, AskingKept
  <2>3. CASE ~Asks(e)
    <3>1. Settles(e, RunEnds(e))
      BY <1>3, <2>3 DEF RunOnce
    <3>2. RunEnds(e) \in Rows /\ RunEnds(e).status \in Terminal /\ RunEnds(e).cause # "engine"
      BY <2>1, RowFacts DEF RunEnds, Completed, Failed, Terminal, Causes
    <3>3. ~SentAt(e, Here(e))
      BY <2>1, DrivenFacts DEF Driving, Settling
    <3>4. StagedLess(e)
      BY <2>1 DEF StagedLess
    <3> HIDE DEF RunEnds
    <3>5. pc'[e] = "settling" /\ drive'[e].plan = RunEnds(e)
          /\ drive'[e].journal = drive[e].journal /\ drive'[e].by = drive[e].by
      BY <1>1, <3>1, <3>2, SettlesTo
    <3> QED
      BY <1>1, <2>1, <3>2, <3>3, <3>4, <3>5, EndingKept DEF Settling
  <2> QED
    BY <2>2, <2>3
<1> QED
  BY <1>2, <1>3

LEMMA EndingSteps ==
  ASSUME IInv, NEW e \in Executions,
         AnswerLost(e) \/ AppendFails(e) \/ CannotPause(e) \/ SettleFails(e)
  PROVE  Kept(e)'
<1>1. TypeOK /\ UNCHANGED <<store, resumes, world, history>>
  BY OwnStep DEF IInv
<1>2. CASE AnswerLost(e) \/ AppendFails(e)
  <2>1. /\ Settles(e, Failed("ambiguous")) /\ UNCHANGED staged
        /\ Driven(e) /\ pc[e] \notin Settling
    BY <1>2 DEF AnswerLost, AppendFails, Driven, Settling
  <2>2. /\ Failed("ambiguous") \in Rows /\ Failed("ambiguous").status \in Terminal
        /\ Failed("ambiguous").cause # "engine"
    BY RowFacts DEF Failed, Terminal, Causes
  <2>3. StagedLess(e)
    BY <2>1 DEF StagedLess
  <2>4. pc'[e] = "settling" /\ drive'[e].plan = Failed("ambiguous")
        /\ drive'[e].journal = drive[e].journal /\ drive'[e].by = drive[e].by
    BY <1>1, <2>1, <2>2, SettlesTo
  <2> QED
    BY <1>1, <2>1, <2>2, <2>3, <2>4, EndingKept
<1>3. CASE CannotPause(e)
  <2>1. PICK cause \in {"catalog", "internal"} : Settles(e, Failed(cause))
    BY <1>3 DEF CannotPause
  <2>2. UNCHANGED staged /\ Driven(e) /\ pc[e] = "pausing" /\ pc[e] \notin Settling
    BY <1>3 DEF CannotPause, Driven, Settling
  <2>3. /\ Failed(cause) \in Rows /\ Failed(cause).status \in Terminal
        /\ Failed(cause).cause # "engine"
    BY RowFacts DEF Failed, Terminal, Causes
  <2>4. StagedLess(e)
    BY <2>2 DEF StagedLess
  <2>5. ~SentAt(e, Here(e))
    BY <2>2, DrivenFacts DEF Driving, Settling
  <2>6. pc'[e] = "settling" /\ drive'[e].plan = Failed(cause)
        /\ drive'[e].journal = drive[e].journal /\ drive'[e].by = drive[e].by
    BY <1>1, <2>1, <2>3, SettlesTo
  <2> QED
    BY <1>1, <2>2, <2>3, <2>4, <2>5, <2>6, EndingKept
<1>4. CASE SettleFails(e)
  <2>1. pc[e] = "settling" /\ Goes(e, "fallback") /\ UNCHANGED <<drive, staged>>
    BY <1>4 DEF SettleFails
  <2>2. pc'[e] = "fallback"
    BY <1>1, <2>1, GoesTo DEF Steps
  <2> QED
    BY <1>1, <2>1, <2>2, FallbackKept
<1> QED
  BY <1>2, <1>3, <1>4

LEMMA HearingSteps ==
  ASSUME IInv, NEW e \in Executions, LookUp(e) \/ CallFails(e) \/ Answered(e)
  PROVE  Kept(e)'
<1>1. TypeOK /\ UNCHANGED <<store, resumes, world, history>>
  BY OwnStep DEF IInv
<1>2. PICK outcome \in Outcomes :
        /\ Hears(e, outcome)
        /\ \/ pc[e] \in {"asking", "calling"} /\ (drive[e].request \in Lookups \/ outcome # "value")
           \/ pc[e] = "sent" /\ outcome = "value"
  BY DEF LookUp, CallFails, Answered, Outcomes
<1>3. UNCHANGED staged
  BY DEF LookUp, CallFails, Answered
<1>4. pc[e] \in {"asking", "calling", "sent"} /\ Driven(e)
  BY <1>2 DEF Driven
<1>5. SentAt(e, Here(e)) <=> outcome = "value" /\ drive[e].request \notin Lookups
  BY <1>2, <1>4, DrivenFacts DEF Driving, Settling
<1>6. pc'[e] = "journaling" /\ drive'[e].outcome = outcome
      /\ drive'[e].journal = drive[e].journal /\ drive'[e].by = drive[e].by
      /\ drive'[e].request = drive[e].request
  BY <1>1, <1>2, HearsTo
<1>7. StagedLess(e)
  BY <1>3 DEF StagedLess
<1> QED
  BY <1>1, <1>4, <1>5, <1>6, <1>7, HearingKept

LEMMA DecidingSteps ==
  ASSUME IInv, NEW e \in Executions, TakeDecision(e) \/ EvaluatePolicy(e)
  PROVE  Kept(e)'
<1>1. TypeOK /\ UNCHANGED <<store, resumes, world, history>>
  BY OwnStep DEF IInv
<1>2. /\ pc[e] = "asking" /\ Driven(e) /\ drive[e].request \notin Lookups
      /\ ~SentAt(e, Here(e)) /\ pc[e] \notin Settling /\ drive[e].request \in Requests
  <2>1. pc[e] = "asking" /\ Driven(e) /\ drive[e].request \notin Lookups
    BY DEF TakeDecision, EvaluatePolicy, Driven
  <2> QED
    BY <2>1, DrivenFacts DEF Driving, Settling, Asking
<1>3. ASSUME Hears(e, "refused"), StagedLess(e) PROVE Kept(e)'
  <2>1. pc'[e] = "journaling" /\ drive'[e].outcome = "refused"
        /\ drive'[e].journal = drive[e].journal /\ drive'[e].by = drive[e].by
        /\ drive'[e].request = drive[e].request
    BY <1>1, <1>3, HearsTo DEF Outcomes
  <2> QED
    BY <1>1, <1>2, <1>3, <2>1, HearingKept
<1>4. staged \in [Executions -> Stagings]
  BY <1>1 DEF TypeOK
<1>5. CASE EvaluatePolicy(e)
  <2>1. UNCHANGED staged /\ StagedLess(e) /\ staged[e].request = Nothing
    BY <1>5 DEF EvaluatePolicy, StagedLess
  <2>2. CASE Hears(e, "refused")
    BY <1>3, <2>1, <2>2
  <2>3. CASE \E step \in {"calling", "pausing"} :
               /\ Goes(e, step) /\ UNCHANGED drive
               /\ step = "calling" => drive[e].request \notin Gated
    <3>1. /\ UNCHANGED drive /\ pc'[e] \in {"calling", "pausing"}
          /\ pc'[e] = "calling" => drive[e].request \notin Gated
      BY <1>1, <2>3, GoesTo DEF Steps
    <3> QED
      BY <1>1, <1>2, <2>1, <3>1, DecidedKept
  <2> QED
    BY <1>5, <2>2, <2>3 DEF EvaluatePolicy
<1>6. CASE TakeDecision(e) /\ Takes(e)
  <2>1. staged' = [staged EXCEPT ![e].request = Nothing, ![e].consumed = TRUE]
    BY <1>6 DEF TakeDecision
  <2>2. staged'[e].request = Nothing /\ staged'[e].consumed /\ staged'[e].decision = staged[e].decision
    BY <1>4, <2>1 DEF Stagings
  <2>3. CASE staged[e].decision = "approve"
    <3>1. Goes(e, "calling") /\ UNCHANGED drive
      BY <1>6, <2>3 DEF TakeDecision
    <3>2. pc'[e] = "calling" /\ staged[e].request = drive[e].request
      BY <1>1, <1>6, <3>1, GoesTo DEF Steps, Takes
    <3> QED
      BY <1>1, <1>2, <2>2, <2>3, <3>1, <3>2, DecidedKept
  <2>4. CASE staged[e].decision # "approve"
    <3>1. Hears(e, "refused")
      BY <1>6, <2>4 DEF TakeDecision
    <3> QED
      BY <1>3, <2>2, <3>1 DEF StagedLess
  <2> QED
    BY <2>3, <2>4
<1>7. CASE TakeDecision(e) /\ ~Takes(e)
  <2>1. staged' = [staged EXCEPT ![e].request = Nothing] /\ Settles(e, Failed("divergence"))
    BY <1>7 DEF TakeDecision
  <2>2. StagedLess(e)
    BY <1>4, <2>1 DEF Stagings, StagedLess
  <2>3. /\ Failed("divergence") \in Rows /\ Failed("divergence").status \in Terminal
        /\ Failed("divergence").cause # "engine"
    BY RowFacts DEF Failed, Terminal, Causes
  <2>4. pc'[e] = "settling" /\ drive'[e].plan = Failed("divergence")
        /\ drive'[e].journal = drive[e].journal /\ drive'[e].by = drive[e].by
    BY <1>1, <2>1, <2>3, SettlesTo
  <2> QED
    BY <1>1, <1>2, <2>2, <2>3, <2>4, EndingKept
<1> QED
  BY <1>5, <1>6, <1>7

-----------------------------------------------------------------------------
(* The engine module, for all that wait for it *)

LEMMA ModuleBuiltKept ==
  ASSUME IInv, ModuleBuilt
  PROVE  IInv'
<1>1. /\ TypeOK /\ Shapes /\ UNCHANGED <<store, drive, staged, resumes, world, history>>
      /\ engine' = [module |-> "sound", building |-> FALSE]
      /\ pc' = [e \in Executions |-> IF pc[e] = "building" THEN "run" ELSE pc[e]]
  BY DEF IInv, ModuleBuilt
<1>2. TypeOK' /\ Shapes'
  <2>1. /\ pc' \in [Executions -> Steps] /\ drive' \in [Executions -> Drives]
        /\ staged' \in [Executions -> Stagings]
    BY <1>1 DEF TypeOK, Steps
  <2>2. engine' \in [module : {"none", "sound", "poisoned"}, building : BOOLEAN]
    BY <1>1
  <2> QED
    BY <1>1, <2>1, <2>2, MemoryTypes
<1>3. ASSUME NEW b \in Executions PROVE Kept(b)'
  <2>1. CASE pc[b] = "building"
    <3>1. pc'[b] \in Waiting /\ pc[b] \in Waiting
      BY <1>1, <2>1 DEF Waiting
    <3> QED
      BY <1>1, <3>1, WaitingKept
  <2>2. CASE pc[b] # "building"
    <3>1. pc'[b] = pc[b]
      BY <1>1, <2>2
    <3> QED
      BY <1>1, <3>1, OthersApart
  <2> QED
    BY <2>1, <2>2
<1> QED
  BY <1>2, <1>3 DEF IInv

LEMMA BuildFailsKept ==
  ASSUME IInv, BuildFails
  PROVE  IInv'
<1>1. /\ TypeOK /\ Shapes /\ UNCHANGED <<store, staged, resumes, world, history>>
      /\ engine' = [engine EXCEPT !.building = FALSE]
      /\ pc' = [e \in Executions |-> IF pc[e] = "building" THEN "settling" ELSE pc[e]]
      /\ drive' = [e \in Executions |->
           IF pc[e] = "building" THEN [drive[e] EXCEPT !.plan = Failed("no engine")] ELSE drive[e]]
  BY DEF IInv, BuildFails
<1>2. /\ Failed("no engine") \in Rows /\ Failed("no engine").status \in Terminal
      /\ Failed("no engine").cause # "engine"
  BY RowFacts DEF Failed, Terminal, Causes
<1>3. \A b \in Executions : drive[b] \in Drives /\ [drive[b] EXCEPT !.plan = Failed("no engine")] \in Drives
  BY <1>1, <1>2, DriveFacts DEF TypeOK
<1>4. TypeOK' /\ Shapes'
  <2>1. /\ pc' \in [Executions -> Steps] /\ staged' \in [Executions -> Stagings]
        /\ engine' \in [module : {"none", "sound", "poisoned"}, building : BOOLEAN]
    BY <1>1 DEF TypeOK, Steps
  <2>2. drive' \in [Executions -> Drives]
    BY <1>1, <1>3
  <2> QED
    BY <1>1, <2>1, <2>2, MemoryTypes
<1>5. ASSUME NEW b \in Executions PROVE Kept(b)'
  <2>1. CASE pc[b] = "building"
    <3>1. /\ pc'[b] = "settling" /\ drive'[b] = [drive[b] EXCEPT !.plan = Failed("no engine")]
          /\ staged'[b] = staged[b]
      BY <1>1, <2>1
    <3>2. /\ drive'[b].journal = drive[b].journal /\ drive'[b].by = drive[b].by
          /\ drive'[b].plan = Failed("no engine")
      BY <1>3, <3>1 DEF Drives
    <3>3. Driven(b) /\ pc[b] \notin Settling
      BY <2>1 DEF Driven, Settling
    <3>4. ~SentAt(b, Here(b))
      BY <2>1, <3>3, DrivenFacts DEF Driving, Settling
    <3>5. StagedLess(b)
      BY <3>1 DEF StagedLess
    <3> QED
      BY <1>1, <1>2, <3>1, <3>2, <3>3, <3>4, <3>5, EndingKept
  <2>2. CASE pc[b] # "building"
    <3>1. pc'[b] = pc[b] /\ drive'[b] = drive[b] /\ staged'[b] = staged[b]
      BY <1>1, <2>2
    <3> QED
      BY <1>1, <3>1, OthersApart
  <2> QED
    BY <2>1, <2>2
<1> QED
  BY <1>4, <1>5 DEF IInv

-----------------------------------------------------------------------------
(* The steps of a drive that leave a trace *)

\* A resume() that has a driven execution drives it.
LEMMA NobodyClaims ==
  ASSUME IInv, NEW e \in Executions, Driven(e)
  PROVE  ~Claimed(e) /\ \A r \in Resumers : Holds(r, e) => rpc[r] = "driving"
BY DrivenFacts DEF Owned, Holds, Claimed

\* One more element at the end.
LEMMA Appending ==
  ASSUME NEW S, NEW s \in Seq(S), NEW x \in S
  PROVE  /\ Len(s) \in Nat /\ DOMAIN s = 1..Len(s)
         /\ Append(s, x) \in Seq(S) /\ DOMAIN Append(s, x) = 1..(Len(s) + 1)
         /\ Append(s, x)[Len(s) + 1] = x
         /\ \A i \in 1..Len(s) : Append(s, x)[i] = s[i]
OBVIOUS

LEMMA FiniteMany ==
  ASSUME Shapes, NEW e \in Executions, NEW q
  PROVE  /\ Len(sent[e]) \in Nat /\ DOMAIN sent[e] = 1..Len(sent[e])
         /\ IsFiniteSet(CallsOf(e, q)) /\ IsFiniteSet(ApprovalsOf(e, q))
         /\ Cardinality(CallsOf(e, q)) \in Nat /\ Cardinality(ApprovalsOf(e, q)) \in Nat
<1> DEFINE n == Len(sent[e])
           Call == [at : Positions, request : Requests]
<1>1. sent \in [Executions -> Seq(Call)]
  BY DEF Shapes
<1> HIDE DEF Call
<1>2. n \in Nat /\ DOMAIN sent[e] = 1..n
  BY <1>1
<1>3. IsFiniteSet(1..n)
  BY <1>2, FS_Interval
<1>4. CallsOf(e, q) \subseteq 1..n /\ ApprovalsOf(e, q) \subseteq approved
  BY <1>2 DEF CallsOf, ApprovalsOf
<1>5. IsFiniteSet(CallsOf(e, q)) /\ IsFiniteSet(ApprovalsOf(e, q))
  BY <1>3, <1>4, FS_Subset DEF Shapes
<1> QED
  BY <1>2, <1>5, FS_CardinalityType

LEMMA WriteBodyKept ==
  ASSUME IInv, NEW e \in Executions, WriteBody(e)
  PROVE  IInv' /\ \A b \in Executions \ {e} : Apart(b)
<1> DEFINE call == [at |-> At(e), request |-> drive[e].request]
<1>1. /\ pc[e] = "calling" /\ sent' = [sent EXCEPT ![e] = Append(sent[e], call)] /\ Goes(e, "sent")
      /\ UNCHANGED <<store, drive, staged, engine, resumes, world, approved, given>>
  BY DEF WriteBody
<1>2. Driven(e) /\ pc[e] \in Asking
  BY <1>1 DEF Driven, Asking
<1>3. /\ TypeOK /\ Shapes /\ Owned(e) /\ Recorded(e) /\ Claiming(e) /\ Parted(e) /\ Honest(e) /\ Spent(e)
      /\ Driving(e) /\ At(e) = Here(e) /\ Here(e) \in Positions
      /\ drive[e].request \in Requests /\ row[e].status = "running" /\ up
  BY <1>2, DrivenFacts DEF Kept
<1>4. call \in [at : Positions, request : Requests] /\ call.at = Here(e) /\ call.request = drive[e].request
  BY <1>3
<1> DEFINE n == Len(sent[e])
<1> DEFINE Call == [at : Positions, request : Requests]
<1>5. sent \in [Executions -> Seq(Call)] /\ call \in Call
  BY <1>3, <1>4 DEF Shapes
<1> HIDE DEF call, Call
<1>5a. sent[e] \in Seq(Call) /\ n \in Nat /\ DOMAIN sent[e] = 1..n
  BY <1>5
<1>6. /\ sent' \in [Executions -> Seq(Call)]
      /\ DOMAIN sent'[e] = 1..(n + 1) /\ sent'[e][n + 1] = call
      /\ \A i \in 1..n : sent'[e][i] = sent[e][i]
      /\ \A b \in Executions \ {e} : sent'[b] = sent[b]
  <2>1. /\ Append(sent[e], call) \in Seq(Call) /\ DOMAIN Append(sent[e], call) = 1..(n + 1)
        /\ Append(sent[e], call)[n + 1] = call
        /\ \A i \in 1..n : Append(sent[e], call)[i] = sent[e][i]
    BY <1>5, <1>5a, Appending
  <2>2. sent' \in [Executions -> Seq(Call)] /\ sent'[e] = Append(sent[e], call)
        /\ \A b \in Executions \ {e} : sent'[b] = sent[b]
    BY <1>1, <1>5, <2>1
  <2> QED
    BY <2>1, <2>2
<1>7. /\ pc' \in [Executions -> Steps] /\ pc'[e] = "sent" /\ \A b \in Executions \ {e} : pc'[b] = pc[b]
  BY <1>1, <1>3, GoesTo DEF Steps
<1>8. UNCHANGED <<row, disk, script, pauses, drive, staged, engine, rpc, deed, answer, up, crashes, approved, given>>
  BY <1>1 DEF store, resumes, world
<1>9. TypeOK' /\ Shapes'
  <2>1. \A b \in Executions : \A i \in DOMAIN sent'[b] : sent'[b][i] \in Call
    BY <1>6
  <2> QED
    BY <1>3, <1>6, <1>7, <1>8, <2>1 DEF TypeOK, Shapes, Call
<1>10. ASSUME NEW b \in Executions, b # e PROVE Apart(b) /\ Kept(b)'
  <2>1. Apart(b)
    BY <1>6, <1>7, <1>8, <1>10 DEF Apart
  <2> QED
    BY <2>1, ApartKept
<1>11. (Here(e))' = Here(e) /\ Driven(e)' /\ (\A r : Holds(r, e)' <=> Holds(r, e))
  BY <1>7, <1>8 DEF Here, Driven, Holds
<1>12. \A k : SentAt(e, k)' <=> (SentAt(e, k) \/ k = Here(e))
  <2> SUFFICES ASSUME NEW k PROVE SentAt(e, k)' <=> (SentAt(e, k) \/ k = Here(e))
    OBVIOUS
  <2>1. SentAt(e, k)' <=> \E i \in 1..(n + 1) : sent'[e][i].at = k
    BY <1>6 DEF SentAt
  <2>2. SentAt(e, k) <=> \E i \in 1..n : sent'[e][i].at = k
    BY <1>5a, <1>6 DEF SentAt
  <2>3. sent'[e][n + 1].at = Here(e)
    BY <1>4, <1>6
  <2>4. \A i : i \in 1..(n + 1) <=> i \in 1..n \/ i = n + 1
    BY <1>5a
  <2> QED
    BY <2>1, <2>2, <2>3, <2>4
<1>13. ~SentAt(e, Here(e))
  BY <1>1, <1>3 DEF Driving, Settling
<1>14. Owned(e)'
  BY <1>2, <1>3, <1>8, <1>11 DEF Owned
<1>15. Recorded(e)'
  <2>1. \A k \in DOMAIN disk[e] : k # Here(e)
    BY <1>3, JournalFacts DEF TypeOK, Here
  <2>2. \A k \in DOMAIN disk'[e] : disk'[e][k].request \notin Lookups =>
          (disk'[e][k].outcome = "value" <=> SentAt(e, k)')
    BY <1>3, <1>8, <1>12, <2>1 DEF Recorded
  <2>3. \A i \in DOMAIN sent'[e] : sent'[e][i].at <= Here(e)
    BY <1>3, <1>4, <1>5a, <1>6 DEF Recorded, Positions
  <2>4. \A i, j \in DOMAIN sent'[e] : sent'[e][i].at = sent'[e][j].at => i = j
    <3>1. \A i \in 1..n : sent[e][i].at # Here(e)
      BY <1>5a, <1>13 DEF SentAt
    <3>2. \A i \in 1..n : sent'[e][i].at # sent'[e][n + 1].at
      BY <1>4, <1>5a, <1>6, <3>1
    <3>3. \A i, j \in 1..n : sent'[e][i].at = sent'[e][j].at => i = j
      <4>1. \A i, j \in 1..n : sent[e][i].at = sent[e][j].at => i = j
        BY <1>3, <1>5a DEF Recorded
      <4>2. \A i \in 1..n : sent'[e][i] = sent[e][i]
        BY <1>6
      <4> QED
        BY <4>1, <4>2
    <3>4. \A i \in DOMAIN sent'[e] : i \in 1..n \/ i = n + 1
      BY <1>5a, <1>6
    <3> QED
      BY <3>2, <3>3, <3>4
  <2> QED
    BY <1>3, <1>8, <1>11, <2>2, <2>3, <2>4 DEF Recorded
<1>16. Claiming(e)'
  BY <1>3, <1>8, <1>11 DEF Claiming
<1>16a. Parted(e)'
  BY <1>2, <1>8, NobodyParts DEF Parted, Parting
<1>17. Honest(e)'
  <2>1. \A k : Never(e, k) => Never(e, k)'
    BY <1>2, <1>3, <1>8, <1>11, <1>12, JournalFacts DEF Never, Terminal, TypeOK, Here
  <2> QED
    BY <1>3, <1>8, <2>1 DEF Honest, Unrun
<1>18. Spent(e)'
  <2> SUFFICES ASSUME NEW q \in Gated PROVE Spent(e)!(q)'
    BY DEF Spent
  <2>1. (ApprovalsOf(e, q))' = ApprovalsOf(e, q)
    BY <1>8 DEF ApprovalsOf
  <2>2. ~Unspent(e, q)' \/ (Unspent(e, q) /\ q # drive[e].request)
    BY <1>1, <1>2, <1>3, <1>7, <1>8, <1>11, NobodyClaims, RequestsAssumption
       DEF Unspent, Driving, Claimed
  <2>3. CASE q = drive[e].request
    <3>1. Unspent(e, q)
      BY <1>1, <2>3 DEF Unspent
    <3>2. Cardinality(CallsOf(e, q)) < Cardinality(ApprovalsOf(e, q))
      BY <1>3, <3>1 DEF Spent
    <3>3. (CallsOf(e, q))' = CallsOf(e, q) \union {n + 1} /\ n + 1 \notin CallsOf(e, q)
      BY <1>4, <1>5a, <1>6, <2>3 DEF CallsOf
    <3>4. /\ IsFiniteSet(CallsOf(e, q))
          /\ Cardinality(CallsOf(e, q)) \in Nat /\ Cardinality(ApprovalsOf(e, q)) \in Nat
      BY <1>3, FiniteMany
    <3>5. Cardinality(CallsOf(e, q)') = Cardinality(CallsOf(e, q)) + 1
      BY <3>3, <3>4, FS_AddElement
    <3> QED
      BY <2>1, <2>2, <2>3, <3>2, <3>4, <3>5
  <2>4. CASE q # drive[e].request
    <3>1. (CallsOf(e, q))' = CallsOf(e, q)
      BY <1>4, <1>5a, <1>6, <2>4 DEF CallsOf
    <3> QED
      BY <1>3, <2>1, <2>2, <3>1 DEF Spent
  <2> QED
    BY <2>3, <2>4
<1>19. Driving(e)'
  <2>1. drive[e].by # Nothing => Staged(e)'
    BY <1>1, <1>3, <1>7, <1>8, <1>11, <1>12 DEF Driving, Staged, Settling
  <2> QED
    BY <1>1, <1>3, <1>7, <1>8, <1>11, <1>12, <2>1 DEF Driving, Asking, Settling
<1> QED
  BY <1>9, <1>10, <1>11, <1>14, <1>15, <1>16, <1>16a, <1>17, <1>18, <1>19 DEF IInv, Kept

LEMMA AppendBarrierKept ==
  ASSUME IInv, NEW e \in Executions, AppendBarrier(e)
  PROVE  IInv' /\ \A b \in Executions \ {e} : Apart(b)
<1> DEFINE kept == [request |-> drive[e].request, outcome |-> RowOutcome(drive[e].outcome)]
<1>1. /\ pc[e] = "journaling" /\ Driven(e) /\ pc[e] \in Asking
      /\ UNCHANGED <<row, script, pauses, staged, engine, rpc, deed, answer, up, crashes, sent, approved, given>>
  BY DEF AppendBarrier, Driven, Asking, resumes, world, history
<1>2. /\ TypeOK /\ Shapes /\ Owned(e) /\ Recorded(e) /\ Claiming(e) /\ Parted(e) /\ Honest(e) /\ Spent(e)
      /\ Driving(e) /\ Here(e) \in Positions /\ disk[e] \in Seq(Entries)
      /\ row[e].status = "running" /\ up
  BY <1>1, DrivenFacts DEF Kept
<1>3. /\ disk' \in [Executions -> Journals] /\ drive' \in [Executions -> Drives]
      /\ pc' \in [Executions -> Steps]
      /\ disk'[e] = Append(disk[e], kept)
      /\ Len(disk'[e]) = Len(disk[e]) + 1 /\ Len(drive'[e].journal) = Len(disk'[e])
      /\ \A k \in DOMAIN disk[e] : k \in DOMAIN disk'[e] /\ disk'[e][k] = disk[e][k]
      /\ drive'[e].by = drive[e].by
      /\ \/ pc'[e] = "module"
         \/ pc'[e] = "settling" /\ drive'[e].plan = Failed("limits")
      /\ \A b \in Executions \ {e} : disk'[b] = disk[b] /\ drive'[b] = drive[b] /\ pc'[b] = pc[b]
  BY AppendsTo
<1>4. TypeOK' /\ Shapes'
  BY <1>1, <1>2, <1>3 DEF TypeOK, Shapes
<1>5. ASSUME NEW b \in Executions, b # e PROVE Apart(b) /\ Kept(b)'
  <2>1. Apart(b)
    BY <1>1, <1>3, <1>5 DEF Apart
  <2> QED
    BY <2>1, ApartKept
<1>6. (Here(e))' = Here(e) + 1 /\ Here(e) \in Nat
  BY <1>2, <1>3 DEF Here, Positions
<1>7. /\ Driven(e)' /\ (\A k : SentAt(e, k)' <=> SentAt(e, k)) /\ (\A r : Holds(r, e)' <=> Holds(r, e))
  BY <1>1, <1>3 DEF Driven, SentAt, Holds
<1>8. ~SentAt(e, Here(e) + 1)
  BY <1>2, <1>6 DEF Recorded, SentAt
<1>9. Owned(e)'
  BY <1>1, <1>2, <1>3, <1>7 DEF Owned
<1>10. Recorded(e)'
  <2>1. /\ DOMAIN disk'[e] = 1..Here(e) /\ disk'[e][Here(e)] = kept
        /\ \A k \in DOMAIN disk'[e] : k \in DOMAIN disk[e] \/ k = Here(e)
    <3> HIDE DEF kept
    <3>1. disk[e] \in Seq(Entries) /\ disk'[e] \in Seq(Entries)
      BY <1>2, <1>3, JournalFacts DEF TypeOK
    <3>2. Len(disk[e]) \in Nat /\ DOMAIN disk[e] = 1..Len(disk[e]) /\ Here(e) = Len(disk[e]) + 1
      BY <3>1 DEF Here
    <3>3. DOMAIN disk'[e] = 1..Here(e)
      BY <1>3, <3>1, <3>2
    <3>4. disk'[e][Here(e)] = kept
      BY <1>3, <3>1, <3>2
    <3>5. \A k : k \in 1..Here(e) <=> k \in 1..Len(disk[e]) \/ k = Here(e)
      BY <3>2
    <3> QED
      BY <3>2, <3>3, <3>4, <3>5
  <2>2. kept.request = drive[e].request /\ (kept.outcome = "value" <=> drive[e].outcome = "value")
    BY DEF RowOutcome
  <2>3. \A k \in DOMAIN disk'[e] : disk'[e][k].request \notin Lookups =>
          (disk'[e][k].outcome = "value" <=> SentAt(e, k)')
    <3> HIDE DEF kept
    <3> QED
      BY <1>1, <1>2, <1>3, <1>7, <2>1, <2>2 DEF Recorded, Driving
  <2>4. \A i \in DOMAIN sent'[e] : sent'[e][i].at <= (Here(e))'
    <3>1. \A i \in DOMAIN sent[e] : sent[e][i].at \in Positions
      BY <1>2 DEF TypeOK
    <3> QED
      BY <1>1, <1>2, <1>6, <3>1 DEF Recorded, Positions
  <2>5. pauses'[e] <= (Here(e))'
    BY <1>1, <1>2, <1>6 DEF Recorded, TypeOK
  <2> QED
    BY <1>1, <1>2, <2>3, <2>4, <2>5 DEF Recorded
<1>11. Claiming(e)'
  BY <1>1, <1>2, <1>7, NobodyClaims DEF Claiming
<1>11a. Parted(e)'
  BY <1>1, NobodyParts DEF Parted, Parting
<1>12. Honest(e)'
  <2>1. \A k \in 0..MaxCalls : Never(e, k) => Never(e, k)'
    BY <1>1, <1>2, <1>3, <1>7, JournalFacts DEF Never, Terminal, Here, Positions
  <2>2. \A r \in Resumers : deed[r].at \in 0..MaxCalls
    BY <1>2 DEF TypeOK, Deeds
  <2> QED
    BY <1>1, <1>2, <2>1, <2>2 DEF Honest, Unrun
<1>13. Spent(e)'
  <2>1. \A q : (CallsOf(e, q))' = CallsOf(e, q) /\ (ApprovalsOf(e, q))' = ApprovalsOf(e, q)
    BY <1>1 DEF CallsOf, ApprovalsOf
  <2>2. \A q \in Gated : Unspent(e, q)' => Unspent(e, q)
    BY <1>1, <1>3, <1>7 DEF Unspent
  <2> QED
    BY <1>2, <2>1, <2>2 DEF Spent
<1>14. Driving(e)'
  <2>1. drive[e].by \in Resumers \union {Nothing}
    BY <1>2, DriveFields
  <2>2. pauses[e] \in Nat
    BY <1>2, JournalFacts DEF TypeOK
  <2>3. drive[e].by # Nothing => Staged(e)'
    <3> SUFFICES ASSUME drive[e].by # Nothing PROVE Staged(e)'
      OBVIOUS
    <3>1. deed[drive[e].by].at \in Nat /\ Staged(e)
      BY <1>2, <2>1, JournalFacts DEF TypeOK, Deeds, Driving
    <3>2. deed[drive[e].by].at < (Here(e))'
      BY <1>6, <3>1 DEF Staged
    <3> QED
      BY <1>1, <1>3, <1>6, <1>7, <3>1, <3>2 DEF Staged
  <2>4. pauses'[e] < (Here(e))'
    BY <1>1, <1>2, <1>6, <2>2 DEF Recorded
  <2>5. Failed("limits").status \in Terminal /\ Failed("limits").cause # "engine"
    BY DEF Failed, Terminal
  <2> QED
    BY <1>1, <1>2, <1>3, <1>6, <1>7, <1>8, <2>3, <2>4, <2>5 DEF Driving, Asking, Settling, Terminal
<1> QED
  BY <1>4, <1>5, <1>7, <1>9, <1>10, <1>11, <1>11a, <1>12, <1>13, <1>14 DEF IInv, Kept

LEMMA AssemblePendingKept ==
  ASSUME IInv, NEW e \in Executions, AssemblePending(e)
  PROVE  IInv' /\ \A b \in Executions \ {e} : Apart(b)
<1> DEFINE pause == [id |-> pauses[e] + 1, at |-> Here(e), request |-> drive[e].request]
           plan == [status |-> "paused", cause |-> "none", pause |-> pause]
<1>1. /\ pc[e] = "pausing" /\ Driven(e) /\ pc[e] \in Asking /\ pauses' = [pauses EXCEPT ![e] = @ + 1]
      /\ UNCHANGED <<row, disk, script, staged, engine, rpc, deed, answer, up, crashes, sent, approved, given>>
  BY DEF AssemblePending, Driven, Asking, resumes, world, history
<1>2. /\ TypeOK /\ Shapes /\ Owned(e) /\ Recorded(e) /\ Claiming(e) /\ Parted(e) /\ Honest(e) /\ Spent(e)
      /\ Driving(e) /\ At(e) = Here(e) /\ Here(e) \in Positions /\ drive[e].request \in Requests
      /\ row[e].status = "running" /\ up
  BY <1>1, DrivenFacts DEF Kept
<1>3. pauses[e] < Here(e) /\ (drive[e].by # Nothing => deed[drive[e].by].at # Here(e))
  BY <1>1, <1>2 DEF Driving, Staged, Settling
<1>4. pauses[e] + 1 \in Positions /\ pauses[e] \in Nat
  BY <1>2, <1>3, JournalFacts DEF TypeOK, Positions
<1>5. pause \in Pauses /\ plan \in Rows
  BY <1>2, <1>4 DEF Pauses, Rows, Statuses, Causes
<1>6. Settles(e, plan)
  BY <1>2 DEF AssemblePending
<1> HIDE DEF plan
<1>7. /\ pc' \in [Executions -> Steps] /\ pc'[e] = "settling"
      /\ drive' \in [Executions -> Drives]
      /\ drive'[e].plan = plan /\ drive'[e].journal = drive[e].journal /\ drive'[e].by = drive[e].by
      /\ \A b \in Executions \ {e} : pc'[b] = pc[b] /\ drive'[b] = drive[b]
  BY <1>2, <1>5, <1>6, SettlesTo
<1>8. /\ pauses' \in [Executions -> 0..MaxCalls] /\ pauses'[e] = pauses[e] + 1
      /\ \A b \in Executions \ {e} : pauses'[b] = pauses[b]
  BY <1>1, <1>2, <1>4, JournalFacts DEF TypeOK, Positions
<1>9. TypeOK' /\ Shapes'
  <2>1. TypeOK'
    BY <1>1, <1>2, <1>7, <1>8 DEF TypeOK
  <2>2. Shapes'
    BY <1>1, <1>2 DEF Shapes
  <2> QED
    BY <2>1, <2>2
<1>10. ASSUME NEW b \in Executions, b # e PROVE Apart(b) /\ Kept(b)'
  <2>1. Apart(b)
    BY <1>1, <1>7, <1>8, <1>10 DEF Apart
  <2> QED
    BY <2>1, ApartKept
<1>11. /\ (Here(e))' = Here(e) /\ Driven(e)' /\ (\A k : SentAt(e, k)' <=> SentAt(e, k))
       /\ (\A r : Holds(r, e)' <=> Holds(r, e))
  BY <1>1, <1>7 DEF Here, Driven, SentAt, Holds
<1>12. Owned(e)'
  BY <1>1, <1>2, <1>7, <1>11 DEF Owned
<1>13. \A a \in approved : a.on = e => a.id \in Nat /\ a.id <= pauses[e]
  BY <1>2 DEF Recorded, TypeOK, Positions
<1>14. Recorded(e)'
  <2>1. \A a \in approved : a.on = e => a.id <= pauses'[e]
    BY <1>4, <1>8, <1>13
  <2>2. pauses'[e] <= Here(e)
    BY <1>2, <1>3, <1>4, <1>8 DEF Positions
  <2> QED
    BY <1>1, <1>2, <1>11, <2>1, <2>2 DEF Recorded
<1>15. Claiming(e)'
  BY <1>1, <1>2, <1>11 DEF Claiming
<1>15a. Parted(e)'
  BY <1>1, NobodyParts DEF Parted, Parting
<1>16. Honest(e)'
  <2>1. \A k : Never(e, k) => Never(e, k)'
    BY <1>1, <1>2, <1>11 DEF Never, Terminal
  <2> QED
    BY <1>1, <1>2, <2>1 DEF Honest, Unrun
<1>17. Spent(e)'
  <2>1. \A q : (CallsOf(e, q))' = CallsOf(e, q) /\ (ApprovalsOf(e, q))' = ApprovalsOf(e, q)
    BY <1>1 DEF CallsOf, ApprovalsOf
  <2>2. \A q \in Gated : Unspent(e, q)' => Unspent(e, q)
    BY <1>1, <1>7, <1>11 DEF Unspent
  <2> QED
    BY <1>2, <2>1, <2>2 DEF Spent
<1>18. Waits(e, drive[e].plan.pause)'
  <2>1. drive'[e].plan.pause = pause
    BY <1>7 DEF plan
  <2>2. /\ drive'[e].plan.pause.id = pauses'[e] /\ drive'[e].plan.pause.at = Here(e)
        /\ drive'[e].plan.pause.request \in Requests
    BY <1>2, <1>8, <2>1
  <2>3. \A a \in approved : a.on = e => a.id # pauses'[e]
    BY <1>4, <1>8, <1>13
  <2> QED
    BY <1>1, <1>11, <2>2, <2>3 DEF Waits
<1>19. Driving(e)'
  <2>1. drive'[e].plan.status = "paused" /\ drive'[e].plan.cause = "none"
    BY <1>7 DEF plan
  <2>2. drive[e].by # Nothing => Staged(e)'
    BY <1>1, <1>2, <1>3, <1>7, <1>11 DEF Driving, Staged, Settling
  <2>3. ~SentAt(e, Here(e))
    BY <1>1, <1>2 DEF Driving, Settling
  <2> HIDE DEF pause
  <2> QED
    BY <1>1, <1>2, <1>7, <1>11, <1>18, <2>1, <2>2, <2>3 DEF Driving, Asking, Settling
<1> QED
  BY <1>9, <1>10, <1>11, <1>12, <1>14, <1>15, <1>15a, <1>16, <1>17, <1>19 DEF IInv, Kept

-----------------------------------------------------------------------------
(* How an execution begins, and how a drive of it ends *)

LEMMA BeginningKept ==
  ASSUME IInv, NEW e \in Executions, NEW s \in Scripts[e],
         up, row[e].status = "none",
         row' = [row EXCEPT ![e].status = "running"], script' = [script EXCEPT ![e] = s],
         UNCHANGED <<disk, pauses, staged, engine, resumes, world, history>>,
         pc' \in [Executions -> Steps], drive' \in [Executions -> Drives],
         drive'[e].journal = drive[e].journal, drive'[e].by = drive[e].by,
         \/ pc'[e] = "module"
         \/ pc'[e] = "settling" /\ drive'[e].plan = Failed("internal"),
         \A b \in Executions \ {e} : pc'[b] = pc[b] /\ drive'[b] = drive[b]
  PROVE  IInv' /\ \A b \in Executions \ {e} : Apart(b)
<1>1. UNCHANGED <<disk, pauses, staged, engine, rpc, deed, answer, up, crashes, sent, approved, given>>
  BY DEF resumes, world, history
<1>2. /\ TypeOK /\ Shapes /\ Owned(e) /\ Recorded(e) /\ Claiming(e) /\ Parted(e) /\ Honest(e) /\ Spent(e)
  BY DEF IInv, Kept
<1>3. /\ ~Driven(e) /\ (\A r \in Resumers : ~Holds(r, e))
      /\ drive[e] = NoDrive /\ staged[e] = NotStaged
      /\ disk[e] = <<>> /\ sent[e] = <<>> /\ pauses[e] = 0 /\ row[e].pause = NoPause
  BY <1>2 DEF Owned, Recorded
<1>4. /\ row' \in [Executions -> Rows] /\ row'[e].status = "running"
      /\ row'[e].pause = row[e].pause /\ row'[e].cause = row[e].cause
      /\ \A b \in Executions \ {e} : row'[b] = row[b]
  <2>1. row[e] \in Rows
    BY <1>2 DEF TypeOK
  <2>2. [row[e] EXCEPT !.status = "running"] \in Rows
    BY <2>1 DEF Rows, Statuses
  <2>3. row' = [row EXCEPT ![e] = [row[e] EXCEPT !.status = "running"]]
    BY <1>2 DEF TypeOK
  <2>4. row' \in [Executions -> Rows] /\ row'[e] = [row[e] EXCEPT !.status = "running"]
        /\ \A b \in Executions \ {e} : row'[b] = row[b]
    BY <1>2, <2>2, <2>3 DEF TypeOK
  <2> QED
    BY <2>1, <2>4 DEF Rows
<1>5. script' = [b \in Executions |-> script'[b]] /\ script'[e] = s
      /\ \A b \in Executions \ {e} : script'[b] = script[b]
  BY <1>2 DEF Shapes
<1>6. TypeOK' /\ Shapes'
  <2>1. \A b \in Executions : script'[b] \in Scripts[b] \union {Nothing}
    BY <1>2, <1>5 DEF TypeOK
  <2>2. TypeOK'
    BY <1>1, <1>2, <1>4, <1>5, <2>1 DEF TypeOK
  <2>3. Shapes'
    BY <1>1, <1>2, <1>5 DEF Shapes
  <2> QED
    BY <2>2, <2>3
<1>7. ASSUME NEW b \in Executions, b # e PROVE Apart(b) /\ Kept(b)'
  <2>1. Apart(b)
    BY <1>1, <1>4, <1>5, <1>7 DEF Apart
  <2> QED
    BY <2>1, ApartKept
<1>8. /\ (Here(e))' = Here(e) /\ Here(e) = 1 /\ Driven(e)' /\ (\A k : ~SentAt(e, k) /\ ~SentAt(e, k)')
      /\ \A r \in Resumers : ~Holds(r, e)'
  <2>1. DOMAIN sent[e] = {} /\ Len(disk[e]) = 0
    BY <1>3
  <2> QED
    BY <1>1, <1>3, <2>1 DEF Here, Driven, SentAt, Holds
<1>9. drive'[e].journal = <<>> /\ drive'[e].by = Nothing /\ staged'[e].request = Nothing
  BY <1>1, <1>3 DEF NoDrive, NotStaged
<1>10. Owned(e)'
  BY <1>1, <1>4, <1>5, <1>8, <1>9 DEF Owned
<1>11. Recorded(e)'
  BY <1>1, <1>2, <1>4, <1>8 DEF Recorded
<1>12. Claiming(e)'
  BY <1>8 DEF Claiming
<1>12a. Parted(e)'
  BY <1>1, NobodyParts DEF Parted, Parting
<1>13. Honest(e)'
  BY <1>1, <1>2, <1>4, <1>8 DEF Honest, Unrun, Never, Terminal
<1>14. Spent(e)'
  <2>1. \A q : (CallsOf(e, q))' = CallsOf(e, q) /\ (ApprovalsOf(e, q))' = ApprovalsOf(e, q)
    BY <1>1 DEF CallsOf, ApprovalsOf
  <2>2. \A q \in Gated : ~Unspent(e, q)'
    <3>1. \A r \in Resumers : ~(rpc'[r] = "claimed" /\ deed'[r].on = e)
      BY <1>8 DEF Holds
    <3> QED
      BY <1>9, <3>1, RequestsAssumption DEF Unspent
  <2> QED
    BY <1>2, <2>1, <2>2 DEF Spent
<1>15. Driving(e)'
  <2>1. Len(drive'[e].journal) = Len(disk'[e]) /\ pauses'[e] < (Here(e))' /\ row'[e].pause = NoPause
    BY <1>1, <1>3, <1>4, <1>8, <1>9
  <2>2. Failed("internal").status \in Terminal /\ Failed("internal").cause # "engine"
    BY DEF Failed, Terminal
  <2> QED
    BY <1>8, <1>9, <2>1, <2>2 DEF Driving, Asking, Settling, Terminal
<1> QED
  BY <1>6, <1>7, <1>8, <1>10, <1>11, <1>12, <1>12a, <1>13, <1>14, <1>15 DEF IInv, Kept

LEMMA StartKept ==
  ASSUME IInv, NEW e \in Executions, NEW s \in Scripts[e], Start(e, s) \/ StartFails(e, s)
  PROVE  IInv' /\ \A b \in Executions \ {e} : Apart(b)
<1>1. /\ TypeOK /\ up /\ row[e].status = "none"
      /\ row' = [row EXCEPT ![e].status = "running"] /\ script' = [script EXCEPT ![e] = s]
      /\ UNCHANGED <<disk, pauses, staged, engine, resumes, world, history>>
  BY DEF IInv, Start, StartFails
<1>2. /\ pc' \in [Executions -> Steps] /\ drive' \in [Executions -> Drives]
      /\ drive'[e].journal = drive[e].journal /\ drive'[e].by = drive[e].by
      /\ \/ pc'[e] = "module"
         \/ pc'[e] = "settling" /\ drive'[e].plan = Failed("internal")
      /\ \A b \in Executions \ {e} : pc'[b] = pc[b] /\ drive'[b] = drive[b]
  <2>1. CASE Start(e, s)
    <3>1. Goes(e, "module") /\ UNCHANGED drive
      BY <2>1 DEF Start
    <3> QED
      BY <1>1, <3>1, GoesTo DEF TypeOK, Steps
  <2>2. CASE StartFails(e, s)
    <3>1. Settles(e, Failed("internal")) /\ Failed("internal") \in Rows
      BY <2>2, RowFacts DEF StartFails, Causes
    <3> QED
      BY <1>1, <3>1, SettlesTo
  <2> QED
    BY <2>1, <2>2
<1> QED
  BY <1>1, <1>2, BeginningKept

\* The drive is over, and the row says how, or the log says that it does not.
LEMMA OverKept ==
  ASSUME IInv, NEW e \in Executions, NEW ok \in BOOLEAN, pc[e] \in Settling, Returns(e, ok),
         UNCHANGED <<disk, script, pauses, engine, world, sent, approved>>,
         row' \in [Executions -> Rows], given' \subseteq Executions,
         \/ row'[e] \in {drive[e].plan, Failed("persist")} /\ given' = given
         \/ row'[e] = row[e] /\ e \in given',
         row'[e].status = "paused" => \A r \in Resumers : rpc'[r] = "caught" => rpc[r] = "caught",
         \A b \in Executions \ {e} : row'[b] = row[b] /\ (b \in given => b \in given')
  PROVE  IInv' /\ \A b \in Executions \ {e} : Apart(b)
<1>1. UNCHANGED <<disk, script, pauses, engine, up, crashes, sent, approved>>
  BY DEF world
<1>2. Driven(e)
  BY DEF Driven, Settling
<1>3. /\ TypeOK /\ Shapes /\ Owned(e) /\ Recorded(e) /\ Claiming(e) /\ Parted(e) /\ Honest(e) /\ Spent(e)
      /\ Driving(e) /\ row[e].status = "running" /\ up
  BY <1>2, DrivenFacts DEF Kept
<1>4. /\ pc' \in [Executions -> Steps] /\ drive' \in [Executions -> Drives]
      /\ staged' \in [Executions -> Stagings]
      /\ rpc' \in [Resumers -> {"idle", "claimed", "driving", "caught", "late", "done"}]
      /\ answer' \in [Resumers -> Answers] /\ UNCHANGED deed
      /\ pc'[e] = "over" /\ drive'[e] = NoDrive /\ staged'[e] = NotStaged
      /\ \A b \in Executions \ {e} :
           pc'[b] = pc[b] /\ drive'[b] = drive[b] /\ staged'[b] = staged[b]
      /\ \A r \in Resumers :
           \/ r = drive[e].by /\ rpc'[r] = "done"
                /\ \/ answer'[r] = "applied" /\ staged[e].consumed
                   \/ answer'[r] = "not applied" /\ ~staged[e].consumed
           \/ r = drive[e].by /\ rpc'[r] = "caught" /\ answer'[r] = answer[r]
           \/ r # drive[e].by /\ rpc'[r] = rpc[r] /\ answer'[r] = answer[r]
  <2>1. TypeOK
    BY <1>3
  <2>2. /\ pc' \in [Executions -> Steps] /\ drive' \in [Executions -> Drives]
        /\ staged' \in [Executions -> Stagings]
        /\ rpc' \in [Resumers -> {"idle", "claimed", "driving", "caught", "late", "done"}]
        /\ answer' \in [Resumers -> Answers] /\ UNCHANGED deed
        /\ pc'[e] = "over" /\ drive'[e] = NoDrive /\ staged'[e] = NotStaged
    BY <2>1, ReturnsTo, ZenonT(40)
  <2>3. \A b \in Executions \ {e} :
          pc'[b] = pc[b] /\ drive'[b] = drive[b] /\ staged'[b] = staged[b]
    BY <2>1, ReturnsTo, ZenonT(40)
  <2>4. \A r \in Resumers :
          \/ r = drive[e].by /\ rpc'[r] = "done"
               /\ \/ answer'[r] = "applied" /\ staged[e].consumed
                  \/ answer'[r] = "not applied" /\ ~staged[e].consumed
          \/ r = drive[e].by /\ rpc'[r] = "caught" /\ answer'[r] = answer[r]
          \/ r # drive[e].by /\ rpc'[r] = rpc[r] /\ answer'[r] = answer[r]
    BY <2>1, ReturnsTo, ZenonT(40)
  <2> QED
    BY <2>2, <2>3, <2>4
<1>5. TypeOK'
  <2>1. /\ disk' \in [Executions -> Journals] /\ pauses' \in [Executions -> 0..MaxCalls]
        /\ engine' \in [module : {"none", "sound", "poisoned"}, building : BOOLEAN]
        /\ deed' \in [Resumers -> Deeds] /\ up' \in BOOLEAN /\ crashes' \in 0..MaxCrashes
    BY <1>1, <1>3, <1>4 DEF TypeOK
  <2>2. CallsTypeOK'
    BY <1>1, <1>3, CallsTyped
  <2> QED
    BY <1>4, <2>1, <2>2 DEF TypeOK, CallsTypeOK
<1>6. Shapes'
  <2>1. \A r \in Resumers :
          /\ rpc'[r] = "idle" => deed[r] = NoDeed /\ answer'[r] = "none"
          /\ rpc'[r] \in {"claimed", "driving", "caught", "late"} => deed[r].on \in Executions
          /\ answer'[r] \in {"applied", "not applied", "unknown"} => deed[r].on \in Executions
    <3>1. drive[e].by # Nothing => deed[drive[e].by].on = e
      BY <1>2, <1>3 DEF Owned, Holds
    <3>2. \A r \in Resumers : r # Nothing
      BY RequestsAssumption
    <3>3. \A r \in Resumers :
            /\ rpc[r] = "idle" => deed[r] = NoDeed /\ answer[r] = "none"
            /\ rpc[r] \in {"claimed", "driving", "caught", "late"} => deed[r].on \in Executions
            /\ answer[r] \in {"applied", "not applied", "unknown"} => deed[r].on \in Executions
      BY <1>3 DEF Shapes
    <3> TAKE r \in Resumers
    <3>4. CASE r = drive[e].by
      <4>1. deed[r].on = e /\ rpc'[r] # "idle"
        BY <1>4, <3>1, <3>2, <3>4
      <4> QED
        BY <4>1
    <3>5. CASE r # drive[e].by
      <4>1. rpc'[r] = rpc[r] /\ answer'[r] = answer[r]
        BY <1>4, <3>5
      <4> QED
        BY <3>3, <4>1
    <3> QED
      BY <3>4, <3>5
  <2>2. /\ script = [b \in Executions |-> script[b]] /\ IsFiniteSet(approved)
        /\ sent \in [Executions -> Seq([at : Positions, request : Requests])]
    BY <1>3 DEF Shapes
  <2> QED
    BY <1>1, <1>4, <2>1, <2>2, Zenon DEF Shapes
<1>7. drive[e].by # Nothing => Holds(drive[e].by, e)
  BY <1>2, <1>3 DEF Owned
<1>8. ASSUME NEW b \in Executions, b # e PROVE Apart(b) /\ Kept(b)'
  <2>1. \A r \in Resumers : r = drive[e].by => deed[r].on = e
    BY <1>7, RequestsAssumption DEF Holds
  <2>2. \A r \in Resumers :
          \/ rpc'[r] = rpc[r] /\ deed'[r] = deed[r] /\ answer'[r] = answer[r]
          \/ deed[r].on # b /\ deed'[r].on # b
    BY <1>4, <1>8, <2>1
  <2>3. /\ row'[b] = row[b] /\ (b \in given => b \in given')
        /\ pc'[b] = pc[b] /\ drive'[b] = drive[b] /\ staged'[b] = staged[b]
    BY <1>4, <1>8
  <2>4. Apart(b)
    BY <1>1, <2>2, <2>3 DEF Apart
  <2> QED
    BY <2>4, ApartKept
<1>9. \A r \in Resumers : ~Holds(r, e)'
  BY <1>2, <1>3, <1>4 DEF Owned, Holds
<1>10. /\ (Here(e))' = Here(e) /\ ~Driven(e)' /\ (\A k : SentAt(e, k)' <=> SentAt(e, k))
       /\ ~Claimed(e)' /\ (\A pause : Waits(e, pause) => Waits(e, pause)')
  BY <1>1, <1>4, <1>9 DEF Here, Driven, SentAt, Claimed, Holds, Waits
<1>11. /\ row'[e].status \in {"paused", "running"} \union Terminal /\ row'[e].cause # "engine"
       /\ row'[e].status = "running" => e \in given'
       /\ row'[e].status = "paused" => row'[e] = drive[e].plan
  BY <1>3 DEF Driving, Recorded, Failed, Terminal
<1>12. Owned(e)'
  BY <1>1, <1>3, <1>4, <1>9, <1>10 DEF Owned
<1>13. Recorded(e)'
  <2>1. row'[e].status = "paused" => Waits(e, row[e].pause)'
    BY <1>3, <1>10, <1>11 DEF Driving
  <2>2. row'[e].status # "none"
    BY <1>11 DEF Terminal
  <2> QED
    BY <1>1, <1>3, <1>10, <1>11, <2>1, <2>2 DEF Recorded
<1>14. Claiming(e)'
  BY <1>9 DEF Claiming
<1>14a. Parted(e)'
  <2>1. ASSUME NEW r \in Resumers, Parting(r, e)'
        PROVE  rpc'[r] = "caught" /\ row'[e].status # "paused"
    <3>1. ~Parting(r, e)
      BY <1>2, NobodyParts
    <3>2. rpc'[r] = "caught" /\ rpc[r] # "caught"
      BY <1>4, <2>1, <3>1 DEF Parting
    <3> QED
      BY <3>2
  <2> QED
    BY <1>1, <1>3, <1>9, <1>10, <1>11, <2>1 DEF Parted
<1>15. Honest(e)'
  <2> SUFFICES ASSUME NEW r \in Resumers, Unrun(r)', deed[r].on = e, NEW k, k = deed[r].at
               PROVE  Never(e, k)'
    BY <1>4 DEF Honest
  <2>1. CASE answer'[r] = answer[r]
    <3>1. Never(e, k)
      BY <1>3, <1>4, <2>1 DEF Honest, Unrun
    <3> QED
      BY <1>1, <1>2, <1>3, <1>10, <3>1 DEF Never, Terminal
  <2>2. CASE r = drive[e].by /\ rpc'[r] = "done"
    <3>1. Staged(e) /\ deed[r].at \in 0..MaxCalls
      BY <1>3, <2>2, RequestsAssumption DEF Driving, TypeOK, Deeds
    <3>2. ~SentAt(e, deed[r].at)
      BY <1>4, <2>2, <3>1 DEF Staged, Unrun
    <3>3. CASE deed[r].at # Here(e)
      <4>1. Len(disk[e]) \in Nat
        BY <1>3, JournalFacts DEF TypeOK
      <4>2. deed[r].at <= Len(disk[e])
        BY <2>2, <3>1, <3>3, <4>1, JournalFacts DEF Staged, Here
      <4> QED
        BY <1>1, <1>10, <3>2, <4>2 DEF Never
    <3>4. CASE deed[r].at = Here(e)
      <4>1. drive[e].plan.status # "paused"
        BY <2>2, <3>1, <3>4 DEF Staged
      <4>2. row'[e].status \in Terminal \union {"running"}
        BY <1>11, <4>1
      <4> QED
        BY <1>10, <3>2, <4>2 DEF Never
    <3> QED
      BY <3>3, <3>4
  <2> QED
    BY <1>4, <2>1, <2>2
<1>16. Spent(e)'
  <2>1. \A q : (CallsOf(e, q))' = CallsOf(e, q) /\ (ApprovalsOf(e, q))' = ApprovalsOf(e, q)
    BY <1>1 DEF CallsOf, ApprovalsOf
  <2>2. \A q : ~Unspent(e, q)'
    BY <1>4, <1>10 DEF Unspent, Claimed
  <2> QED
    BY <1>3, <2>1, <2>2 DEF Spent
<1>17. Undriven(e)'
  <2>1. SentAt(e, Here(e)) => drive[e].plan = Failed("ambiguous")
    BY <1>3 DEF Driving, Settling
  <2>2. SentAt(e, Here(e)) =>
          \/ row'[e].status = "running"
          \/ row'[e].status = "failed" /\ row'[e].cause \in {"ambiguous", "swept", "persist"}
    BY <1>3, <2>1 DEF Failed
  <2> QED
    BY <1>9, <1>10, <1>11, <2>2 DEF Undriven
<1> QED
  BY <1>5, <1>6, <1>8, <1>10, <1>12, <1>13, <1>14, <1>14a, <1>15, <1>16, <1>17 DEF IInv, Kept

LEMMA ReturningKept ==
  ASSUME IInv, NEW e \in Executions, Settle(e) \/ FinalizeFailed(e) \/ GivesUp(e)
  PROVE  IInv' /\ \A b \in Executions \ {e} : Apart(b)
<1>1. TypeOK /\ drive[e].plan \in Rows /\ Failed("persist") \in Rows
  BY DriveFields, RowFacts DEF IInv, Causes
<1>2. /\ pc[e] \in Settling
      /\ UNCHANGED <<disk, script, pauses, engine, world, sent, approved>>
  BY DEF Settle, FinalizeFailed, GivesUp, Settling, store, history
<1>3. /\ row' \in [Executions -> Rows] /\ given' \subseteq Executions
      /\ \/ row'[e] \in {drive[e].plan, Failed("persist")} /\ given' = given
         \/ row'[e] = row[e] /\ e \in given'
      /\ \A b \in Executions \ {e} : row'[b] = row[b] /\ (b \in given => b \in given')
  <2>1. CASE Settle(e)
    BY <1>1, <2>1 DEF Settle, TypeOK, history
  <2>2. CASE FinalizeFailed(e)
    BY <1>1, <2>2 DEF FinalizeFailed, TypeOK, history
  <2>3. CASE GivesUp(e)
    BY <1>1, <2>3 DEF GivesUp, TypeOK, store
  <2> QED
    BY <2>1, <2>2, <2>3
<1>4. PICK ok \in BOOLEAN : Returns(e, ok)
  BY DEF Settle, FinalizeFailed, GivesUp
<1>5. row'[e].status = "paused" => \A r \in Resumers : rpc'[r] = "caught" => rpc[r] = "caught"
  <2>1. /\ Driving(e) /\ row[e].status = "running"
    BY <1>2, DrivenFacts DEF Driven, Settling
  <2>2. CASE Settle(e)
    <3> SUFFICES ASSUME row'[e].status = "paused" PROVE Returns(e, TRUE)
      BY <1>1 DEF Returns, resumes, TypeOK
    <3>1. row'[e] = drive[e].plan
      BY <1>1, <2>2 DEF Settle, TypeOK
    <3>2. drive[e].plan.cause = "none"
      BY <1>2, <2>1, <3>1 DEF Driving
    <3>3. (drive[e].plan.cause \notin {"engine", "no engine"}) = TRUE
      BY <3>2
    <3> QED
      BY <2>2, <3>3 DEF Settle
  <2>3. CASE FinalizeFailed(e)
    BY <1>1, <2>3 DEF FinalizeFailed, TypeOK, Failed
  <2>4. CASE GivesUp(e)
    BY <2>1, <2>4 DEF GivesUp, store
  <2> QED
    BY <2>2, <2>3, <2>4
<1> QED
  BY <1>2, <1>3, <1>4, <1>5, OverKept

-----------------------------------------------------------------------------
(* resume() *)

LEMMA ClaimKept ==
  ASSUME IInv, NEW r \in Resumers, NEW e \in Executions, NEW id \in Positions, NEW d \in Decisions,
         Claim(r, e, id, d), Claims(e, id)
  PROVE  IInv' /\ \A b \in Executions \ {e} : Apart(b)
<1> DEFINE approval == [on |-> e, id |-> id, request |-> row[e].pause.request]
<1>1. /\ TypeOK' /\ Shapes' /\ up
      /\ row[e].status = "paused" /\ row[e].pause.id = id
      /\ row'[e].status = "running" /\ row'[e].pause = row[e].pause /\ row'[e].cause = row[e].cause
      /\ deed[r] = NoDeed /\ rpc[r] = "idle" /\ answer[r] = "none"
      /\ deed'[r].on = e /\ deed'[r].at = row[e].pause.at /\ deed'[r].decision = d
      /\ rpc'[r] = "claimed" /\ UNCHANGED answer
      /\ approved' = IF d = "approve" THEN approved \union {approval} ELSE approved
      /\ \A b \in Executions \ {e} : row'[b] = row[b]
      /\ \A s \in Resumers \ {r} : rpc'[s] = rpc[s] /\ deed'[s] = deed[s]
  BY ClaimsTo
<1>2. UNCHANGED <<disk, script, pauses, pc, drive, staged, engine, up, crashes, sent, given>>
  BY ClaimsTo DEF memory, world
<1>3. /\ TypeOK /\ Shapes /\ Owned(e) /\ Recorded(e) /\ Claiming(e) /\ Parted(e) /\ Honest(e) /\ Spent(e)
      /\ ~Driven(e) /\ Undriven(e) /\ (\A s \in Resumers : ~Holds(s, e))
  BY <1>1 DEF IInv, Kept, Owned
<1>4. Waits(e, row[e].pause)
  BY <1>1, <1>3 DEF Recorded
<1>5. ASSUME NEW b \in Executions, b # e PROVE Apart(b) /\ Kept(b)'
  <2>1. Nothing \notin Executions
    BY RequestsAssumption
  <2>2. deed[r].on # b /\ deed'[r].on # b
    BY <1>1, <1>5, <2>1 DEF NoDeed
  <2>3. Apart(b)
    <3>1. \A a \in approved \union approved' : a.on = b => a \in approved /\ a \in approved'
      BY <1>1, <1>5
    <3> HIDE DEF approval
    <3> QED
      BY <1>1, <1>2, <1>5, <2>2, <3>1 DEF Apart
  <2> QED
    BY <2>3, ApartKept
<1>6. /\ (Here(e))' = Here(e) /\ ~Driven(e)' /\ (\A k : SentAt(e, k)' <=> SentAt(e, k))
      /\ (\A s \in Resumers : Holds(s, e)' <=> s = r) /\ Claimed(e)'
  BY <1>1, <1>2, <1>3 DEF Here, Driven, SentAt, Holds, Claimed
<1>7. Owned(e)'
  BY <1>1, <1>2, <1>3, <1>6 DEF Owned
<1>8. Recorded(e)'
  <2>1. pauses[e] \in Nat /\ id = pauses[e]
    BY <1>1, <1>3, <1>4, JournalFacts DEF Waits, TypeOK
  <2>2. \A a \in approved' : a.on = e => a.id <= pauses[e]
    BY <1>1, <1>3, <2>1 DEF Recorded
  <2> HIDE DEF approval
  <2> QED
    BY <1>1, <1>2, <1>3, <1>6, <2>2 DEF Recorded
<1>9. Claiming(e)'
  BY <1>1, <1>2, <1>4, <1>6 DEF Claiming, Waits
<1>9a. Parted(e)'
  <2>1. \A s \in Resumers : ~Parting(s, e)
    BY <1>1, NobodyParts
  <2> QED
    BY <1>1, <2>1 DEF Parted, Parting
<1>10. Honest(e)'
  <2> SUFFICES ASSUME NEW s \in Resumers, Unrun(s)', deed'[s].on = e, NEW k, k = deed'[s].at
               PROVE  Never(e, k)'
    BY DEF Honest
  <2>1. s # r
    BY <1>1 DEF Unrun
  <2>2. Never(e, k)
    BY <1>1, <1>3, <2>1 DEF Honest, Unrun
  <2> QED
    BY <1>1, <1>2, <1>6, <2>2 DEF Never, Terminal
<1>11. Spent(e)'
  <2> SUFFICES ASSUME NEW q \in Gated PROVE Spent(e)!(q)'
    BY DEF Spent
  <2>1. (CallsOf(e, q))' = CallsOf(e, q)
    BY <1>2 DEF CallsOf
  <2>2. Unspent(e, q)' => d = "approve" /\ q = row[e].pause.request
    BY <1>1, <1>2, <1>3, <1>6 DEF Unspent, Driven, Holds
  <2>3. CASE d = "approve" /\ q = row[e].pause.request
    <3>1. (ApprovalsOf(e, q))' = ApprovalsOf(e, q) \union {approval}
      BY <1>1, <2>3 DEF ApprovalsOf
    <3>2. approval \notin ApprovalsOf(e, q)
      BY <1>1, <1>4 DEF ApprovalsOf, Waits
    <3>3. /\ IsFiniteSet(ApprovalsOf(e, q))
          /\ Cardinality(CallsOf(e, q)) \in Nat /\ Cardinality(ApprovalsOf(e, q)) \in Nat
      BY <1>3, FiniteMany
    <3> HIDE DEF approval
    <3>4. Cardinality(ApprovalsOf(e, q)') = Cardinality(ApprovalsOf(e, q)) + 1
      BY <3>1, <3>2, <3>3, FS_AddElement
    <3>5. Cardinality(CallsOf(e, q)) <= Cardinality(ApprovalsOf(e, q))
      BY <1>3 DEF Spent
    <3> QED
      BY <2>1, <3>3, <3>4, <3>5
  <2>4. CASE ~(d = "approve" /\ q = row[e].pause.request)
    <3>1. (ApprovalsOf(e, q))' = ApprovalsOf(e, q)
      BY <1>1, <2>4 DEF ApprovalsOf
    <3> QED
      BY <1>3, <2>1, <2>2, <2>4, <3>1 DEF Spent
  <2> QED
    BY <2>3, <2>4
<1>12. Undriven(e)'
  <2>1. ~SentAt(e, Here(e))
    BY <1>1, <1>3 DEF Undriven
  <2> QED
    BY <1>6, <2>1 DEF Undriven
<1> QED
  BY <1>1, <1>5, <1>6, <1>7, <1>8, <1>9, <1>9a, <1>10, <1>11, <1>12 DEF IInv, Kept

\* A claim that comes too late, or is for another pause.
LEMMA ConflictKept ==
  ASSUME IInv, NEW r \in Resumers, NEW e \in Executions, NEW id \in Positions, NEW d \in Decisions,
         Claim(r, e, id, d), ~Claims(e, id)
  PROVE  IInv'
<1>1. /\ TypeOK /\ Shapes /\ rpc[r] = "idle" /\ deed[r] = NoDeed
      /\ rpc' = [rpc EXCEPT ![r] = "done"] /\ answer' = [answer EXCEPT ![r] = "conflict"]
      /\ UNCHANGED <<row, deed, approved, disk, script, pauses, pc, drive, staged, engine, up, crashes, sent, given>>
  BY DEF IInv, Shapes, Claim, memory, world
<1>2. TypeOK' /\ Shapes'
  <2>1. /\ rpc' \in [Resumers -> {"idle", "claimed", "driving", "caught", "late", "done"}]
        /\ answer' \in [Resumers -> Answers] /\ rpc'[r] = "done"
        /\ \A s \in Resumers \ {r} : rpc'[s] = rpc[s] /\ answer'[s] = answer[s]
    BY <1>1 DEF TypeOK, Answers
  <2>2. TypeOK'
    BY <1>1, <2>1 DEF TypeOK
  <2>3. Shapes'
    BY <1>1, <2>1 DEF Shapes
  <2> QED
    BY <2>2, <2>3
<1>3. ASSUME NEW b \in Executions PROVE Kept(b)'
  <2>1. deed[r].on # b
    BY <1>1, RequestsAssumption DEF NoDeed
  <2>2. \A s \in Resumers \ {r} : rpc'[s] = rpc[s] /\ answer'[s] = answer[s]
    BY <1>1 DEF TypeOK
  <2>3. Apart(b)
    BY <1>1, <2>1, <2>2 DEF Apart
  <2> QED
    BY <2>3, ApartKept
<1> QED
  BY <1>2, <1>3 DEF IInv

LEMMA RedriveKept ==
  ASSUME IInv, NEW r \in Resumers, Redrive(r)
  PROVE  IInv' /\ \A b \in Executions \ {deed[r].on} : Apart(b)
<1>0. PICK e \in Executions : e = deed[r].on
  BY ClaimedFacts DEF Redrive
<1>1. /\ rpc[r] = "claimed"
      /\ UNCHANGED <<row, disk, script, pauses, engine, deed, answer, up, crashes, sent, approved, given>>
  BY DEF Redrive, store, world, history
<1>2. /\ e \in Executions /\ Holds(r, e) /\ Kept(e) /\ ~Driven(e) /\ up
      /\ row[e].status = "running" /\ row[e].pause.at = deed[r].at /\ deed[r].at = Here(e)
      /\ row[e].pause.request \in Requests
  BY <1>0, <1>1, ClaimedFacts
<1>3. /\ drive' \in [Executions -> Drives] /\ staged' \in [Executions -> Stagings]
      /\ pc' \in [Executions -> Steps]
      /\ rpc' \in [Resumers -> {"idle", "claimed", "driving", "caught", "late", "done"}]
      /\ drive'[e].journal = disk[e] /\ drive'[e].by = r
      /\ staged'[e].request = row[e].pause.request
      /\ staged'[e].decision = deed[r].decision
      /\ ~staged'[e].consumed
      /\ pc'[e] = "module" /\ rpc'[r] = "driving"
      /\ \A b \in Executions \ {e} :
           pc'[b] = pc[b] /\ drive'[b] = drive[b] /\ staged'[b] = staged[b]
      /\ \A s \in Resumers \ {r} : rpc'[s] = rpc[s]
  BY <1>0, RedrivesTo
<1>4. /\ TypeOK /\ Shapes /\ Owned(e) /\ Recorded(e) /\ Claiming(e) /\ Parted(e) /\ Honest(e) /\ Spent(e)
      /\ Undriven(e)
  BY <1>2 DEF IInv, Kept
<1>5. TypeOK' /\ Shapes'
  <2>1. TypeOK'
    <3>1. /\ pc' \in [Executions -> Steps] /\ drive' \in [Executions -> Drives]
          /\ staged' \in [Executions -> Stagings]
          /\ rpc' \in [Resumers -> {"idle", "claimed", "driving", "caught", "late", "done"}]
      BY <1>3
    <3>2. /\ TypeOK
          /\ UNCHANGED <<row, disk, script, pauses, engine, deed, answer, up, crashes, sent, approved, given>>
      BY <1>1, <1>4
    <3>3. /\ row' \in [Executions -> Rows] /\ disk' \in [Executions -> Journals]
          /\ pauses' \in [Executions -> 0..MaxCalls]
          /\ engine' \in [module : {"none", "sound", "poisoned"}, building : BOOLEAN]
          /\ deed' \in [Resumers -> Deeds] /\ answer' \in [Resumers -> Answers]
          /\ up' \in BOOLEAN /\ crashes' \in 0..MaxCrashes /\ given' \subseteq Executions
      BY <3>2 DEF TypeOK
    <3>4. CallsTypeOK'
      BY <3>2, CallsTyped
    <3> QED
      BY <3>1, <3>3, <3>4 DEF TypeOK, CallsTypeOK
  <2>2. Shapes'
    <3>1. /\ script' = [b \in Executions |-> script'[b]]
          /\ sent' \in [Executions -> Seq([at : Positions, request : Requests])]
          /\ IsFiniteSet(approved')
      BY <1>1, <1>4 DEF Shapes
    <3>2. ASSUME NEW s \in Resumers
          PROVE  /\ rpc'[s] = "idle" => deed'[s] = NoDeed /\ answer'[s] = "none"
                 /\ rpc'[s] \in {"claimed", "driving", "caught", "late"} => deed'[s].on \in Executions
                 /\ answer'[s] \in {"applied", "not applied", "unknown"} => deed'[s].on \in Executions
      <4>1. deed'[s] = deed[s] /\ answer'[s] = answer[s]
        BY <1>1
      <4>2. CASE s = r
        BY <1>1, <1>3, <1>4, <4>1, <4>2 DEF Shapes
      <4>3. CASE s # r
        BY <1>3, <1>4, <4>1, <4>3 DEF Shapes
      <4> QED
        BY <4>2, <4>3
    <3> QED
      BY <3>1, <3>2 DEF Shapes
  <2> QED
    BY <2>1, <2>2
<1>6. ASSUME NEW b \in Executions, b # e PROVE Apart(b) /\ Kept(b)'
  <2>1. Apart(b)
    BY <1>0, <1>1, <1>3, <1>6 DEF Apart
  <2> QED
    BY <2>1, ApartKept
<1>7. /\ (Here(e))' = Here(e) /\ Driven(e)' /\ (\A k : SentAt(e, k)' <=> SentAt(e, k))
      /\ (\A s \in Resumers : Holds(s, e)' <=> s = r)
  <2>1. \A s \in Resumers : Holds(s, e)' <=> Holds(s, e)
    BY <1>1, <1>3 DEF Holds
  <2>2. \A s \in Resumers : Holds(s, e) <=> s = r
    BY <1>2, <1>4 DEF Owned
  <2> QED
    BY <1>1, <1>2, <1>3, <2>1, <2>2 DEF Here, Driven, SentAt
<1>8. Owned(e)'
  BY <1>1, <1>2, <1>3, <1>4, <1>7 DEF Owned
<1>9. Recorded(e)'
  BY <1>1, <1>4, <1>7 DEF Recorded, Waits
<1>10. Claiming(e)'
  BY <1>1, <1>2, <1>3, <1>7 DEF Claiming
<1>10a. Parted(e)'
  <2>1. \A s \in Resumers : ~Parting(s, e)
    BY <1>2, NobodyParts
  <2> QED
    BY <1>1, <1>3, <2>1 DEF Parted, Parting
<1>11. Claimed(e)
  BY <1>0, <1>1 DEF Claimed
<1>12. Honest(e)'
  BY <1>1, <1>2, <1>4, <1>7, <1>11 DEF Honest, Unrun, Never, Terminal
<1>13. Spent(e)'
  <2>1. \A q : (CallsOf(e, q))' = CallsOf(e, q) /\ (ApprovalsOf(e, q))' = ApprovalsOf(e, q)
    BY <1>1 DEF CallsOf, ApprovalsOf
  <2>2. ASSUME NEW q, Unspent(e, q)' PROVE Unspent(e, q)
    <3>1. \A s \in Resumers : ~(rpc'[s] = "claimed" /\ deed'[s].on = e)
      BY <1>3, <1>7 DEF Holds
    <3>2. row[e].pause.request = q /\ deed[r].decision = "approve"
      BY <1>3, <2>2, <3>1 DEF Unspent
    <3> QED
      BY <1>0, <1>1, <3>2 DEF Unspent
  <2> QED
    BY <1>4, <2>1, <2>2 DEF Spent
<1>14. Driving(e)'
  <2>1. ~SentAt(e, Here(e))
    BY <1>2, <1>4 DEF Undriven
  <2>2. Here(e) \in Nat /\ r # Nothing /\ row[e].pause.request # Nothing
    BY <1>2, <1>4, RequestsAssumption, JournalFacts DEF TypeOK, Here
  <2>3. Staged(e)'
    BY <1>1, <1>2, <1>3, <1>7, <2>1, <2>2 DEF Staged, Settling
  <2> QED
    BY <1>1, <1>2, <1>3, <1>7, <2>1, <2>2, <2>3 DEF Driving, Asking, Settling
<1> QED
  BY <1>0, <1>5, <1>6, <1>7, <1>8, <1>9, <1>10, <1>10a, <1>12, <1>13, <1>14 DEF IInv, Kept

\* A resume() that gives the row up, in every way a bounded write can end.
LEMMA TerminalizesKept ==
  ASSUME IInv, NEW r \in Resumers, NEW p \in Rows, p.status \in Terminal, p.cause # "engine",
         NEW write \in WriteEnds, NEW told \in {"unknown", "not applied", "threw"},
         rpc[r] = "claimed", Terminalizes(r, p, write, told)
  PROVE  IInv' /\ \A b \in Executions \ {deed[r].on} : Apart(b)
<1>1. /\ rpc[r] = "claimed" /\ told \in Answers
      /\ UNCHANGED <<disk, script, pauses, pc, drive, staged, engine, up, crashes, sent, approved>>
  BY DEF Terminalizes, memory, world, Answers
<1>2. PICK e \in Executions : e = deed[r].on
  BY <1>1, ClaimedFacts
<1>3. /\ Holds(r, e) /\ Kept(e) /\ ~Driven(e) /\ up
      /\ row[e].status = "running" /\ row[e].pause.at = deed[r].at /\ deed[r].at = Here(e)
      /\ row[e].pause.request \in Requests /\ TypeOK
  BY <1>1, <1>2, ClaimedFacts
<1>4. /\ row' \in [Executions -> Rows]
      /\ rpc' \in [Resumers -> {"idle", "claimed", "driving", "caught", "late", "done"}]
      /\ answer' \in [Resumers -> Answers] /\ deed' \in [Resumers -> Deeds]
      /\ given' \subseteq Executions
      /\ answer'[r] = told
      /\ deed'[r].on = e /\ deed'[r].at = deed[r].at
      /\ deed'[r].decision = deed[r].decision /\ deed'[r].plan = p
      /\ \A s \in Resumers \ {r} : rpc'[s] = rpc[s] /\ deed'[s] = deed[s] /\ answer'[s] = answer[s]
      /\ \A b \in Executions \ {e} : row'[b] = row[b] /\ (b \in given' <=> b \in given)
      /\ \/ rpc'[r] = "done" /\ row'[e] = p
         \/ rpc'[r] \in {"late", "done"} /\ row'[e] = row[e] /\ e \in given'
  <2> USE <1>2
  <2>1. TypeOK /\ deed[r].on \in Executions /\ row[deed[r].on].status = "running"
    BY <1>3
  <2>2. /\ row' \in [Executions -> Rows]
        /\ rpc' \in [Resumers -> {"idle", "claimed", "driving", "caught", "late", "done"}]
        /\ answer' \in [Resumers -> Answers] /\ deed' \in [Resumers -> Deeds]
        /\ given' \subseteq Executions
        /\ answer'[r] = told
        /\ deed'[r].on = deed[r].on /\ deed'[r].at = deed[r].at
        /\ deed'[r].decision = deed[r].decision /\ deed'[r].plan = p
    BY <1>1, <2>1, TerminalizesTo
  <2>3. /\ \A s \in Resumers \ {r} : rpc'[s] = rpc[s] /\ deed'[s] = deed[s] /\ answer'[s] = answer[s]
        /\ \A b \in Executions \ {deed[r].on} : row'[b] = row[b] /\ (b \in given' <=> b \in given)
    BY <1>1, <2>1, TerminalizesTo
  <2>4. \/ rpc'[r] = "done" /\ row'[deed[r].on] = p
        \/ rpc'[r] \in {"late", "done"} /\ row' = row /\ deed[r].on \in given'
    BY <1>1, <2>1, TerminalizesTo
  <2> QED
    BY <2>2, <2>3, <2>4
<1>5. /\ Shapes /\ Owned(e) /\ Recorded(e) /\ Claiming(e) /\ Parted(e) /\ Honest(e) /\ Spent(e) /\ Undriven(e)
  BY <1>3 DEF IInv, Kept
<1>6. TypeOK'
  BY <1>1, <1>3, <1>4 DEF TypeOK
<1>7. Shapes'
  BY <1>1, <1>4, <1>5 DEF Shapes
<1>8. ASSUME NEW b \in Executions, b # e PROVE Apart(b) /\ Kept(b)'
  <2>1. Apart(b)
    BY <1>1, <1>2, <1>4, <1>8 DEF Apart
  <2> QED
    BY <2>1, ApartKept
<1>9. /\ (Here(e))' = Here(e) /\ ~Driven(e)' /\ (\A k : SentAt(e, k)' <=> SentAt(e, k))
      /\ (\A s \in Resumers : ~Holds(s, e)')
      /\ Claimed(e) /\ ~Claimed(e)'
  <2>1. \A s \in Resumers : Holds(s, e) => s = r
    BY <1>3, <1>5 DEF Owned
  <2>2. \A s \in Resumers : Holds(s, e)' => s = r
    BY <1>4, <2>1 DEF Holds
  <2>3. \A s \in Resumers : ~Holds(s, e)'
    BY <1>4, <2>2 DEF Holds
  <2> QED
    BY <1>1, <1>2, <1>3, <2>3 DEF Here, Driven, SentAt, Claimed, Holds
<1>10. ~SentAt(e, Here(e))
  BY <1>3, <1>5 DEF Undriven
<1>11. Owned(e)'
  BY <1>1, <1>3, <1>4, <1>5, <1>9 DEF Owned
<1>12. Recorded(e)'
  BY <1>1, <1>3, <1>4, <1>5, <1>9 DEF Recorded, Terminal
<1>13. Claiming(e)'
  BY <1>9 DEF Claiming
<1>13a. Parted(e)'
  <2>1. \A s \in Resumers : ~Parting(s, e)
    BY <1>3, NobodyParts
  <2>2. ASSUME NEW s \in Resumers, Parting(s, e)' PROVE s = r /\ row'[e] = row[e] /\ e \in given'
    BY <1>4, <2>1, <2>2 DEF Parting
  <2> QED
    BY <1>1, <1>3, <1>4, <1>9, <1>10, <2>2 DEF Parted
<1>14. Honest(e)'
  <2> SUFFICES ASSUME NEW s \in Resumers, Unrun(s)', deed'[s].on = e, NEW k, k = deed'[s].at
               PROVE  Never(e, k)'
    BY DEF Honest
  <2>1. CASE s = r
    BY <1>3, <1>4, <1>9, <1>10, <2>1 DEF Never
  <2>2. CASE s # r
    <3>1. Never(e, k)
      BY <1>4, <1>5, <2>2 DEF Honest, Unrun
    <3> QED
      BY <1>1, <1>3, <1>9, <3>1 DEF Never, Terminal
  <2> QED
    BY <2>1, <2>2
<1>15. Spent(e)'
  <2>1. \A q : (CallsOf(e, q))' = CallsOf(e, q) /\ (ApprovalsOf(e, q))' = ApprovalsOf(e, q)
    BY <1>1 DEF CallsOf, ApprovalsOf
  <2>2. \A q : ~Unspent(e, q)'
    BY <1>9 DEF Unspent, Claimed, Driven
  <2> QED
    BY <1>5, <2>1, <2>2 DEF Spent
<1>16. Undriven(e)'
  BY <1>4, <1>9, <1>10 DEF Undriven, Terminal
<1> QED
  BY <1>2, <1>6, <1>7, <1>8, <1>9, <1>11, <1>12, <1>13, <1>13a, <1>14, <1>15, <1>16 DEF IInv, Kept

\* However it comes to give a claimed row up, it is with one of these rows.
LEMMA GivingUpEnds ==
  ASSUME NEW r \in Resumers,
         KindUnanswered(r) \/ GuardRefuses(r) \/ FindsExpired(r) \/ PreparationFails(r)
  PROVE  \E p \in {Failed("resume"), Failed("persist"), Expired}, write \in WriteEnds,
            told \in {"unknown", "not applied", "threw"} : Terminalizes(r, p, write, told)
<1>1. CASE KindUnanswered(r)
  BY <1>1 DEF KindUnanswered
<1>2. CASE GuardRefuses(r)
  <2>1. PICK write \in WriteEnds :
          Terminalizes(r, Failed("resume"), write, IF write = "ok" THEN "not applied" ELSE "unknown")
    BY <1>2 DEF GuardRefuses
  <2> QED
    BY <2>1
<1>3. CASE FindsExpired(r)
  BY <1>3 DEF FindsExpired, WriteEnds
<1>4. CASE PreparationFails(r)
  BY <1>4 DEF PreparationFails
<1> QED
  BY <1>1, <1>2, <1>3, <1>4

LEMMA EndingRows ==
  \A p \in {Failed("resume"), Failed("persist"), Expired} :
    p \in Rows /\ p.status \in Terminal /\ p.cause # "engine"
<1>1. /\ Failed("resume") \in Rows /\ Failed("persist") \in Rows /\ Expired \in Rows
  BY RowFacts DEF Causes
<1>2. /\ Failed("resume").status \in Terminal /\ Failed("persist").status \in Terminal
      /\ Expired.status \in Terminal /\ Expired.cause # "engine"
      /\ Failed("resume").cause # "engine" /\ Failed("persist").cause # "engine"
  BY DEF Failed, Expired, Terminal
<1> QED
  BY <1>1, <1>2, Zenon

\* A resume() that has let go of its row writes it, gives that up too, or did not have
\* to: the row was settled meanwhile.
LEMMA PartingKept ==
  ASSUME IInv, NEW r \in Resumers, NEW e \in Executions, Parting(r, e),
         NEW p \in Rows, p.status \in Terminal, p.cause # "engine",
         row[e].status = "running" /\ SentAt(e, Here(e)) => p = Failed("resume"),
         UNCHANGED <<disk, script, pauses, memory, engine, world, sent, approved>>,
         row' \in [Executions -> Rows], given' \subseteq Executions, given \subseteq given',
         row'[e] = row[e] \/ (row[e].status = "running" /\ row'[e] = p),
         \A b \in Executions \ {e} : row'[b] = row[b],
         rpc' \in [Resumers -> {"idle", "claimed", "driving", "caught", "late", "done"}],
         answer' \in [Resumers -> Answers], deed' \in [Resumers -> Deeds],
         rpc'[r] = "done" \/ (rpc'[r] = "late" /\ deed'[r].plan = p),
         answer'[r] \in {answer[r], "threw"},
         deed'[r].on = e, deed'[r].at = deed[r].at, deed'[r].decision = deed[r].decision,
         \A s \in Resumers \ {r} : rpc'[s] = rpc[s] /\ deed'[s] = deed[s] /\ answer'[s] = answer[s]
  PROVE  IInv' /\ \A b \in Executions \ {e} : Apart(b)
<1>1. UNCHANGED <<disk, script, pauses, pc, drive, staged, engine, up, crashes, sent, approved>>
  BY DEF memory, world
<1>2. /\ TypeOK /\ Shapes /\ Owned(e) /\ Recorded(e) /\ Claiming(e) /\ Parted(e) /\ Honest(e) /\ Spent(e)
      /\ (~Driven(e) => Undriven(e))
  BY DEF IInv, Kept
<1>3. /\ up /\ ~Driven(e) /\ (\A s \in Resumers : ~Holds(s, e)) /\ Undriven(e)
      /\ row[e].status \in {"running"} \union Terminal
      /\ row[e].status = "running" => e \in given
  BY <1>2 DEF Parted
<1>4. TypeOK'
  BY <1>1, <1>2 DEF TypeOK
<1>5. Shapes'
  BY <1>1, <1>2 DEF Shapes
<1>6. ASSUME NEW b \in Executions, b # e PROVE Apart(b) /\ Kept(b)'
  <2>1. deed[r].on # b /\ deed'[r].on # b
    BY <1>6 DEF Parting
  <2>2. Apart(b)
    BY <1>1, <1>6, <2>1 DEF Apart
  <2> QED
    BY <2>2, ApartKept
<1>7. /\ (Here(e))' = Here(e) /\ ~Driven(e)' /\ (\A k : SentAt(e, k)' <=> SentAt(e, k))
      /\ (\A s \in Resumers : ~Holds(s, e)') /\ ~Claimed(e)'
  BY <1>1, <1>3 DEF Here, Driven, SentAt, Holds, Claimed
<1>8. /\ row'[e].status \in {"running"} \union Terminal
      /\ row'[e].status = "running" => row'[e] = row[e] /\ e \in given'
      /\ row[e].status \in Terminal => row'[e] = row[e]
  BY <1>3 DEF Terminal
<1>9. Owned(e)'
  BY <1>1, <1>2, <1>3, <1>7, <1>8 DEF Owned, Terminal
<1>10. Recorded(e)'
  BY <1>1, <1>2, <1>7, <1>8 DEF Recorded, Terminal
<1>11. Claiming(e)'
  BY <1>7 DEF Claiming
<1>12. Parted(e)'
  <2> SUFFICES ASSUME NEW s \in Resumers, Parting(s, e)', rpc'[s] = "late"
               PROVE  /\ deed'[s].plan.status \in Terminal /\ deed'[s].plan.cause # "engine"
                      /\ row'[e].status = "running" /\ SentAt(e, Here(e))' =>
                           deed'[s].plan = Failed("resume")
    BY <1>1, <1>3, <1>7, <1>8 DEF Parted
  <2>1. CASE s = r
    BY <1>7, <1>8, <2>1
  <2>2. CASE s # r
    <3>1. Parting(s, e) /\ rpc[s] = "late" /\ deed'[s] = deed[s]
      BY <2>2 DEF Parting
    <3> QED
      BY <1>2, <1>7, <1>8, <3>1 DEF Parted
  <2> QED
    BY <2>1, <2>2
<1>13. Honest(e)'
  <2> SUFFICES ASSUME NEW s \in Resumers, Unrun(s)', deed'[s].on = e, NEW k, k = deed'[s].at
               PROVE  Never(e, k)'
    BY DEF Honest
  <2>1. Unrun(s) /\ deed[s].on = e /\ k = deed[s].at
    BY ZenonT(40) DEF Unrun, Parting
  <2>2. Never(e, k)
    BY <1>2, <2>1 DEF Honest
  <2> QED
    BY <1>1, <1>7, <1>8, <2>2 DEF Never
<1>14. Spent(e)'
  <2>1. \A q : (CallsOf(e, q))' = CallsOf(e, q) /\ (ApprovalsOf(e, q))' = ApprovalsOf(e, q)
    BY <1>1 DEF CallsOf, ApprovalsOf
  <2>2. \A q : ~Unspent(e, q)'
    BY <1>7 DEF Unspent, Claimed, Driven
  <2> QED
    BY <1>2, <2>1, <2>2 DEF Spent
<1>15. Undriven(e)'
  <2>1. CASE row'[e] = row[e]
    BY <1>3, <1>7, <1>8, <2>1 DEF Undriven
  <2>2. CASE row[e].status = "running" /\ row'[e] = p
    <3>1. SentAt(e, Here(e)) => row'[e].status = "failed" /\ row'[e].cause = "resume" /\ e \in given'
      BY <1>3, <2>2 DEF Failed
    <3>2. row'[e].status # "running"
      BY <2>2 DEF Terminal
    <3> QED
      BY <1>7, <3>1, <3>2 DEF Undriven
  <2> QED
    BY <2>1, <2>2
<1> QED
  BY <1>4, <1>5, <1>6, <1>7, <1>9, <1>10, <1>11, <1>12, <1>13, <1>14, <1>15 DEF IInv, Kept

LEMMA GivingUpKept ==
  ASSUME IInv, NEW r \in Resumers,
         KindUnanswered(r) \/ GuardRefuses(r) \/ FindsExpired(r) \/ PreparationFails(r)
  PROVE  IInv' /\ \A b \in Executions \ {deed[r].on} : Apart(b)
<1>1. CASE rpc[r] = "claimed"
  <2>1. PICK p \in {Failed("resume"), Failed("persist"), Expired}, write \in WriteEnds,
             told \in {"unknown", "not applied", "threw"} : Terminalizes(r, p, write, told)
    BY GivingUpEnds
  <2>2. p \in Rows /\ p.status \in Terminal /\ p.cause # "engine"
    BY EndingRows
  <2> QED
    BY <1>1, <2>1, <2>2, TerminalizesKept
\* The catch of a drive that threw.
<1>2. CASE rpc[r] = "caught"
  <2>1. PICK write \in WriteEnds : Terminalizes(r, Failed("resume"), write, "threw")
    BY <1>2 DEF KindUnanswered, GuardRefuses, FindsExpired, PreparationFails
  <2>2. PICK e \in Executions : e = deed[r].on
    BY <1>2 DEF IInv, Shapes
  <2>3. Parting(r, e) /\ TypeOK
    BY <1>2, <2>2 DEF Parting, IInv
  <2>4. Failed("resume") \in Rows /\ Failed("resume").status \in Terminal /\ Failed("resume").cause # "engine"
    BY EndingRows
  <2>5. UNCHANGED <<disk, script, pauses, memory, engine, world, sent, approved>>
    BY <2>1 DEF Terminalizes
  <2>6. /\ row' \in [Executions -> Rows]
        /\ rpc' \in [Resumers -> {"idle", "claimed", "driving", "caught", "late", "done"}]
        /\ answer' \in [Resumers -> Answers] /\ deed' \in [Resumers -> Deeds]
        /\ given' \subseteq Executions /\ answer'[r] = "threw"
        /\ deed'[r].on = e /\ deed'[r].at = deed[r].at
        /\ deed'[r].decision = deed[r].decision /\ deed'[r].plan = Failed("resume")
        /\ \A s \in Resumers \ {r} : rpc'[s] = rpc[s] /\ deed'[s] = deed[s] /\ answer'[s] = answer[s]
        /\ \A b \in Executions \ {e} : row'[b] = row[b]
        /\ rpc'[r] \in {"late", "done"}
        /\ row'[e] = row[e] \/ (row[e].status = "running" /\ row'[e] = Failed("resume"))
    <3>1. "threw" \in Answers
      BY DEF Answers
    <3> QED
      BY <2>1, <2>2, <2>3, <2>4, <3>1, TerminalizesTo
  <2>7. given \subseteq given'
    BY <2>1 DEF Terminalizes
  <2> QED
    BY <2>2, <2>3, <2>4, <2>5, <2>6, <2>7, PartingKept
<1> QED
  BY <1>1, <1>2 DEF KindUnanswered, GuardRefuses, FindsExpired, PreparationFails

\* A write that lands after all ends a row nobody holds, or none.
LEMMA LandsLateKept ==
  ASSUME IInv, NEW r \in Resumers, LandsLate(r)
  PROVE  IInv' /\ \A b \in Executions \ {deed[r].on} : Apart(b)
<1>1. /\ rpc[r] = "late" /\ rpc' = [rpc EXCEPT ![r] = "done"]
      /\ row' = FailedIfRunning(deed[r].on, deed[r].plan)
      /\ UNCHANGED <<disk, script, pauses, memory, engine, world, sent, approved>>
      /\ UNCHANGED <<deed, answer, given>>
  BY DEF LandsLate, history
<1>2. PICK e \in Executions : e = deed[r].on
  BY <1>1 DEF IInv, Shapes
<1>3. TypeOK /\ Parting(r, e) /\ Parted(e) /\ deed[r] \in Deeds
  BY <1>1, <1>2 DEF IInv, Kept, Parting, TypeOK
<1>4. /\ deed[r].plan \in Rows /\ deed[r].plan.status \in Terminal /\ deed[r].plan.cause # "engine"
      /\ row[e].status = "running" /\ SentAt(e, Here(e)) => deed[r].plan = Failed("resume")
  BY <1>1, <1>3 DEF Parted, Deeds
<1>5. /\ row' \in [Executions -> Rows] /\ \A b \in Executions \ {e} : row'[b] = row[b]
      /\ row'[e] = row[e] \/ (row[e].status = "running" /\ row'[e] = deed[r].plan)
  BY <1>1, <1>2, <1>3, <1>4 DEF FailedIfRunning, TypeOK
<1>6. /\ rpc' \in [Resumers -> {"idle", "claimed", "driving", "caught", "late", "done"}] /\ rpc'[r] = "done"
      /\ \A s \in Resumers \ {r} : rpc'[s] = rpc[s]
  BY <1>1, <1>3 DEF TypeOK
<1>7. given' \subseteq Executions /\ given \subseteq given'
      /\ answer' \in [Resumers -> Answers] /\ deed' \in [Resumers -> Deeds]
  BY <1>1, <1>3 DEF TypeOK
<1> QED
  BY <1>1, <1>2, <1>3, <1>4, <1>5, <1>6, <1>7, PartingKept

LEMMA InvalidatePausedKept ==
  ASSUME IInv, NEW e \in Executions, InvalidatePaused(e)
  PROVE  IInv' /\ \A b \in Executions \ {e} : Apart(b)
<1>1. /\ row[e].status = "paused" /\ row' = [row EXCEPT ![e] = Failed("catalog")]
      /\ UNCHANGED <<disk, script, pauses, pc, drive, staged, engine, rpc, deed, answer, up, crashes, sent, approved, given>>
  BY DEF InvalidatePaused, memory, resumes, world, history
<1>2. /\ TypeOK /\ Shapes /\ Owned(e) /\ Recorded(e) /\ Claiming(e) /\ Parted(e) /\ Honest(e) /\ Spent(e)
      /\ ~Driven(e) /\ Undriven(e) /\ (\A s \in Resumers : ~Holds(s, e))
  BY <1>1 DEF IInv, Kept, Owned
<1>3. /\ row' \in [Executions -> Rows] /\ row'[e].status = "failed" /\ row'[e].cause = "catalog"
      /\ \A b \in Executions \ {e} : row'[b] = row[b]
  <2>1. Failed("catalog") \in Rows
    BY RowFacts DEF Causes
  <2>2. row' \in [Executions -> Rows] /\ row'[e] = Failed("catalog")
        /\ \A b \in Executions \ {e} : row'[b] = row[b]
    BY <1>1, <1>2, <2>1 DEF TypeOK
  <2> QED
    BY <2>2 DEF Failed
<1>4. TypeOK' /\ Shapes'
  <2>1. TypeOK'
    BY <1>1, <1>2, <1>3 DEF TypeOK
  <2>2. Shapes'
    BY <1>1, <1>2 DEF Shapes
  <2> QED
    BY <2>1, <2>2
<1>5. ASSUME NEW b \in Executions, b # e PROVE Apart(b) /\ Kept(b)'
  <2>1. Apart(b)
    BY <1>1, <1>3, <1>5 DEF Apart
  <2> QED
    BY <2>1, ApartKept
<1>6. /\ (Here(e))' = Here(e) /\ ~Driven(e)' /\ (\A k : SentAt(e, k)' <=> SentAt(e, k))
      /\ \A s \in Resumers : ~Holds(s, e)'
  BY <1>1, <1>2 DEF Here, Driven, SentAt, Holds
<1>7. Owned(e)'
  BY <1>1, <1>2, <1>6 DEF Owned
<1>8. Recorded(e)'
  BY <1>1, <1>2, <1>3, <1>6 DEF Recorded
<1>9. Claiming(e)'
  BY <1>6 DEF Claiming
<1>9a. Parted(e)'
  BY <1>1, NobodyParts DEF Parted, Parting
<1>10. Honest(e)'
  BY <1>1, <1>2, <1>3, <1>6 DEF Honest, Unrun, Never, Terminal
<1>11. Spent(e)'
  <2>1. \A q : (CallsOf(e, q))' = CallsOf(e, q) /\ (ApprovalsOf(e, q))' = ApprovalsOf(e, q)
    BY <1>1 DEF CallsOf, ApprovalsOf
  <2>2. \A q : ~Unspent(e, q)'
    BY <1>6 DEF Unspent, Holds, Driven
  <2> QED
    BY <1>2, <2>1, <2>2 DEF Spent
<1>12. Undriven(e)'
  BY <1>1, <1>2, <1>3, <1>6 DEF Undriven
<1> QED
  BY <1>4, <1>5, <1>6, <1>7, <1>8, <1>9, <1>9a, <1>10, <1>11, <1>12 DEF IInv, Kept

-----------------------------------------------------------------------------
(* The process *)

LEMMA CrashKept ==
  ASSUME IInv, Crash
  PROVE  IInv'
<1>1. /\ up /\ up' = FALSE /\ crashes < MaxCrashes /\ crashes' = crashes + 1
      /\ pc' = [e \in Executions |-> "idle"] /\ drive' = [e \in Executions |-> NoDrive]
      /\ staged' = [e \in Executions |-> NotStaged]
      /\ engine' = [module |-> "none", building |-> FALSE]
      /\ rpc' = [r \in Resumers |-> IF rpc[r] = "idle" THEN "idle" ELSE "done"]
      /\ answer' = [r \in Resumers |->
           IF rpc[r] \in {"claimed", "driving", "caught"} THEN "dead" ELSE answer[r]]
      /\ UNCHANGED <<row, disk, script, pauses, deed, sent, approved, given>>
  BY DEF Crash, store, history
<1>2. TypeOK /\ Shapes
  BY DEF IInv
<1>3. TypeOK'
  <2>1. /\ pc' \in [Executions -> Steps] /\ drive' \in [Executions -> Drives]
        /\ staged' \in [Executions -> Stagings]
        /\ engine' \in [module : {"none", "sound", "poisoned"}, building : BOOLEAN]
        /\ rpc' \in [Resumers -> {"idle", "claimed", "driving", "caught", "late", "done"}]
    BY <1>1, DriveFacts, StagingFacts DEF Steps
  <2>2. answer' \in [Resumers -> Answers] /\ up' \in BOOLEAN
    BY <1>1, <1>2 DEF TypeOK, Answers
  <2>3. crashes' \in 0..MaxCrashes
    BY <1>1, <1>2, BoundsAssumption DEF TypeOK
  <2> QED
    BY <1>1, <1>2, <2>1, <2>2, <2>3 DEF TypeOK
<1>4. Shapes'
  BY <1>1, <1>2 DEF Shapes
<1>5. ASSUME NEW e \in Executions PROVE Kept(e)'
  <2>1. /\ Owned(e) /\ Recorded(e) /\ Honest(e) /\ Spent(e)
        /\ (IF Driven(e) THEN Driving(e) ELSE Undriven(e))
    BY DEF IInv, Kept
  <2>2. /\ (Here(e))' = Here(e) /\ ~Driven(e)' /\ (\A k : SentAt(e, k)' <=> SentAt(e, k))
        /\ (\A s \in Resumers : ~Holds(s, e)') /\ ~Claimed(e)'
    BY <1>1 DEF Here, Driven, SentAt, Holds, Claimed
  <2>3. Owned(e)'
    BY <1>1, <2>1, <2>2 DEF Owned
  <2>4. Recorded(e)'
    BY <1>1, <2>1, <2>2 DEF Recorded, Waits
  <2>5. Claiming(e)'
    BY <2>2 DEF Claiming
  <2>5a. Parted(e)'
    BY <1>1 DEF Parted, Parting
  <2>6. Honest(e)'
    <3>1. \A r \in Resumers : Unrun(r)' => Unrun(r)
      BY <1>1 DEF Unrun
    <3>2. \A k : Never(e, k) => Never(e, k)'
      BY <1>1, <2>2 DEF Never
    <3> QED
      BY <1>1, <2>1, <3>1, <3>2 DEF Honest
  <2>7. Spent(e)'
    <3>1. \A q : (CallsOf(e, q))' = CallsOf(e, q) /\ (ApprovalsOf(e, q))' = ApprovalsOf(e, q)
      BY <1>1 DEF CallsOf, ApprovalsOf
    <3>2. \A q : ~Unspent(e, q)'
      BY <1>1, <2>2 DEF Unspent, Claimed
    <3> QED
      BY <2>1, <3>1, <3>2 DEF Spent
  <2>8. Undriven(e)'
    <3>1. Driven(e) => row[e].status = "running"
      BY <2>1 DEF Owned
    <3> QED
      BY <1>1, <2>1, <2>2, <3>1 DEF Undriven
  <2> QED
    BY <2>2, <2>3, <2>4, <2>5, <2>5a, <2>6, <2>7, <2>8 DEF Kept
<1> QED
  BY <1>3, <1>4, <1>5 DEF IInv

LEMMA RestartKept ==
  ASSUME IInv, Restart
  PROVE  IInv'
<1>1. /\ ~up /\ up' = TRUE
      /\ row' = [e \in Executions |->
           IF row[e].status = "running" THEN Failed("swept") ELSE row[e]]
      /\ UNCHANGED <<disk, script, pauses, pc, drive, staged, engine, rpc, deed, answer, crashes, sent, approved, given>>
  BY DEF Restart, memory, resumes, history
<1>2. TypeOK /\ Shapes /\ Failed("swept") \in Rows
  BY RowFacts DEF IInv, Causes
<1>3. TypeOK'
  <2>1. row' \in [Executions -> Rows]
    BY <1>1, <1>2 DEF TypeOK
  <2> QED
    BY <1>1, <1>2, <2>1 DEF TypeOK
<1>4. Shapes'
  BY <1>1, <1>2 DEF Shapes
<1>5. ASSUME NEW e \in Executions PROVE Kept(e)'
  <2>1. /\ Owned(e) /\ Recorded(e) /\ Honest(e) /\ Spent(e) /\ ~Driven(e) /\ Undriven(e)
        /\ \A s \in Resumers : ~Holds(s, e)
    BY <1>1 DEF IInv, Kept, Owned
  <2>2. /\ (Here(e))' = Here(e) /\ ~Driven(e)' /\ (\A k : SentAt(e, k)' <=> SentAt(e, k))
        /\ (\A s \in Resumers : ~Holds(s, e)') /\ ~Claimed(e)'
    BY <1>1, <2>1 DEF Here, Driven, SentAt, Holds, Claimed
  <2>3. \/ /\ row[e].status = "running" /\ row'[e].status = "failed"
           /\ row'[e].cause = "swept"
        \/ row[e].status # "running" /\ row'[e] = row[e]
    BY <1>1 DEF Failed
  <2>4. Owned(e)'
    BY <1>1, <2>1, <2>2, <2>3 DEF Owned
  <2>5. Recorded(e)'
    BY <1>1, <2>1, <2>2, <2>3 DEF Recorded, Waits
  <2>6. Claiming(e)'
    BY <2>2 DEF Claiming
  <2>6a. Parted(e)'
    BY <1>1, NobodyParts DEF Parted, Parting
  <2>7. Honest(e)'
    BY <1>1, <2>1, <2>2, <2>3 DEF Honest, Unrun, Never, Terminal
  <2>8. Spent(e)'
    <3>1. \A q : (CallsOf(e, q))' = CallsOf(e, q) /\ (ApprovalsOf(e, q))' = ApprovalsOf(e, q)
      BY <1>1 DEF CallsOf, ApprovalsOf
    <3>2. \A q : ~Unspent(e, q)'
      BY <2>2 DEF Unspent, Claimed, Driven
    <3> QED
      BY <2>1, <3>1, <3>2 DEF Spent
  <2>9. Undriven(e)'
    BY <1>1, <2>1, <2>2, <2>3 DEF Undriven
  <2> QED
    BY <2>2, <2>4, <2>5, <2>6, <2>6a, <2>7, <2>8, <2>9 DEF Kept
<1> QED
  BY <1>3, <1>4, <1>5 DEF IInv

-----------------------------------------------------------------------------
(* The invariant, and what follows from it *)

LEMMA InitKept == Init => IInv
<1> SUFFICES ASSUME Init PROVE IInv
  OBVIOUS
<1> USE DEF Init
<1>1. /\ row \in [Executions -> Rows] /\ disk \in [Executions -> Journals]
      /\ drive \in [Executions -> Drives] /\ staged \in [Executions -> Stagings]
  BY RowFacts, JournalFacts, DriveFacts, StagingFacts
<1>2. /\ \A e \in Executions : script[e] \in Scripts[e] \union {Nothing}
      /\ pauses \in [Executions -> 0..MaxCalls] /\ pc \in [Executions -> Steps]
      /\ engine \in [module : {"none", "sound", "poisoned"}, building : BOOLEAN]
      /\ rpc \in [Resumers -> {"idle", "claimed", "driving", "caught", "late", "done"}]
  BY JournalFacts DEF Steps
<1>3. deed \in [Resumers -> Deeds] /\ answer \in [Resumers -> Answers]
  <2>1. NoDeed \in Deeds
    BY RowFacts, JournalFacts DEF NoDeed, Deeds, Decisions
  <2> QED
    BY <2>1 DEF Answers
<1>4. /\ up \in BOOLEAN /\ crashes \in 0..MaxCrashes
      /\ \A e \in Executions : \A i \in DOMAIN sent[e] :
           sent[e][i] \in [at : Positions, request : Requests]
      /\ approved \subseteq [on : Executions, id : Positions, request : Requests]
      /\ given \subseteq Executions
  BY BoundsAssumption
<1>5. TypeOK
  BY <1>1, <1>2, <1>3, <1>4 DEF TypeOK
<1>6. Shapes
  BY FS_EmptySet DEF Shapes
<1>7. ASSUME NEW e \in Executions PROVE Kept(e)
  <2>1. /\ row[e] = NoRow /\ disk[e] = <<>> /\ pauses[e] = 0 /\ pc[e] = "idle"
        /\ drive[e] = NoDrive /\ staged[e] = NotStaged /\ sent[e] = <<>>
        /\ \A r \in Resumers : rpc[r] = "idle" /\ answer[r] = "none"
    OBVIOUS
  <2>2. /\ ~Driven(e) /\ (\A k : ~SentAt(e, k)) /\ (\A r \in Resumers : ~Holds(r, e))
        /\ Here(e) = 1 /\ NoRow.status = "none" /\ NoRow.pause = NoPause /\ NoRow.cause = "none"
    BY <2>1 DEF Driven, SentAt, Holds, Here, NoRow
  <2>3. Owned(e) /\ Claiming(e) /\ Parted(e) /\ Honest(e) /\ Undriven(e)
    BY <2>1, <2>2 DEF Owned, Claiming, Parted, Parting, Honest, Unrun, Undriven
  <2>4. Recorded(e)
    BY <2>1, <2>2 DEF Recorded
  <2>5. Spent(e)
    <3>1. \A q \in Gated : CallsOf(e, q) = {} /\ ApprovalsOf(e, q) = {}
      BY <2>1 DEF CallsOf, ApprovalsOf
    <3>2. \A q \in Gated : ~Unspent(e, q)
      BY <2>1, <2>2 DEF Unspent
    <3>3. Cardinality({}) <= Cardinality({})
      BY FS_EmptySet
    <3>4. \A q \in Gated : Cardinality(CallsOf(e, q)) <= Cardinality(ApprovalsOf(e, q))
      BY <3>1, <3>3, Zenon
    <3> QED
      BY <3>2, <3>4 DEF Spent
  <2> QED
    BY <2>2, <2>3, <2>4, <2>5 DEF Kept
<1> QED
  BY <1>5, <1>6, <1>7 DEF IInv

LEMMA StepKept == IInv /\ [Next]_vars => IInv'
<1> SUFFICES ASSUME IInv, [Next]_vars PROVE IInv'
  OBVIOUS
<1>1. ASSUME NEW e \in Executions,
             \/ GetModule(e) \/ RunOnce(e) \/ RunAgain(e)
             \/ LookUp(e) \/ TakeDecision(e) \/ EvaluatePolicy(e) \/ Answered(e)
             \/ CallFails(e) \/ AnswerLost(e) \/ AppendFails(e) \/ CannotPause(e) \/ SettleFails(e)
      PROVE  IInv'
  <2>1. TypeOK' /\ Shapes'
    BY <1>1, DriveTypes
  <2>2. \A b \in Executions \ {e} : Kept(b)'
    BY <1>1, OwnStep
  <2>3. Kept(e)'
    BY <1>1, ModuleSteps, EndingSteps, HearingSteps, DecidingSteps
  <2> QED
    BY <2>1, <2>2, <2>3 DEF IInv
<1>2. ASSUME NEW e \in Executions, DriveStep(e) \/ DriveFails(e) \/ InvalidatePaused(e) PROVE IInv'
  BY <1>1, <1>2, WriteBodyKept, AppendBarrierKept, AssemblePendingKept, ReturningKept,
     InvalidatePausedKept DEF DriveStep, DriveFails
<1>3. ASSUME NEW r \in Resumers, Redrive(r) \/ ResumeFails(r) PROVE IInv'
  BY <1>3, RedriveKept, GivingUpKept, LandsLateKept DEF ResumeFails
<1>4. ASSUME NEW r \in Resumers, NEW e \in Executions, NEW id \in Positions, NEW d \in Decisions,
             Claim(r, e, id, d)
      PROVE  IInv'
  BY <1>4, ClaimKept, ConflictKept
<1>5. CASE Next
  BY <1>2, <1>3, <1>4, <1>5, StartKept, ModuleBuiltKept, BuildFailsKept, CrashKept, RestartKept
     DEF Next
<1>6. CASE UNCHANGED vars
  <2>1. UNCHANGED <<store, memory, engine, resumes, world, history>>
    BY <1>6 DEF vars
  <2>2. UNCHANGED <<pc, drive, staged, engine, store, resumes, world, history>>
    BY <2>1 DEF memory
  <2>3. TypeOK' /\ Shapes'
    <3>1. TypeOK /\ Shapes
      BY DEF IInv
    <3> QED
      BY <2>2, <3>1, MemoryTypes DEF TypeOK
  <2>4. \A b \in Executions : Kept(b)'
    BY <2>2, OthersApart
  <2> QED
    BY <2>3, <2>4 DEF IInv
<1> QED
  BY <1>5, <1>6

\* Drives, resume()s, rows, journals and calls fit each other in every reachable state:
\* the invariant the theorems below follow from.
THEOREM Invariance == Spec => []IInv
BY InitKept, StepKept, PTL DEF Spec

\* What the invariant says of what was promised.
LEMMA ClaimsOfIInv ==
  ASSUME IInv
  PROVE  /\ PerformedOnce /\ OneApprovalOneCall /\ LostCallIsTold
         /\ UnappliedIsNotRun /\ OneVictim /\ NothingStranded
<1>1. TypeOK /\ Shapes /\ \A e \in Executions : Kept(e)
  BY DEF IInv
<1>2. \A e \in Executions : Recorded(e) /\ Spent(e) /\ Honest(e) /\ Owned(e)
                              /\ (IF Driven(e) THEN Driving(e) ELSE Undriven(e))
  BY <1>1 DEF Kept
<1>3. PerformedOnce /\ OneVictim
  BY <1>2 DEF PerformedOnce, OneVictim, Recorded
<1>4. OneApprovalOneCall
  BY <1>2 DEF OneApprovalOneCall, Spent, CallsOf, ApprovalsOf
<1>5. LostCallIsTold
  <2> SUFFICES ASSUME NEW e \in Executions, NEW i \in DOMAIN sent[e], sent[e][i].at > Len(disk[e])
               PROVE  /\ row[e].status \in {"running", "failed"}
                      /\ row[e].status = "failed" =>
                           \/ row[e].cause \in {"ambiguous", "swept", "persist"}
                           \/ row[e].cause = "resume" /\ e \in given
    BY DEF LostCallIsTold
  <2>1. SentAt(e, Here(e))
    <3>1. sent[e][i].at \in Nat /\ Len(disk[e]) \in Nat
      BY <1>1, JournalFacts DEF TypeOK, Positions
    <3>2. sent[e][i].at = Here(e)
      BY <1>2, <3>1 DEF Recorded, Here
    <3> QED
      BY <3>2 DEF SentAt
  <2> QED
    BY <1>2, <2>1 DEF Owned, Undriven
<1>6. UnappliedIsNotRun
  <2> SUFFICES ASSUME NEW r \in Resumers, Unrun(r)
               PROVE  \A i \in DOMAIN sent[deed[r].on] : sent[deed[r].on][i].at # deed[r].at
    BY DEF UnappliedIsNotRun, Unrun
  <2>1. deed[r].on \in Executions
    BY <1>1 DEF Shapes, Unrun
  <2> QED
    BY <1>2, <2>1 DEF Honest, Never, SentAt
<1>7. NothingStranded
  BY <1>2 DEF NothingStranded, Undriven
<1> QED
  BY <1>3, <1>4, <1>5, <1>6, <1>7

\* Every variable keeps its type: rows, journals, what a drive and a resume() hold in
\* memory, and the calls, however the scripts branch.
THEOREM TypesHold == Spec => []TypeOK
<1>1. IInv => TypeOK
  BY DEF IInv
<1> QED
  BY <1>1, Invariance, PTL

\* A call of a script is written at most once, however often the script is run again
\* and the daemon dies: the drive runs on the whole journal, and a call that is not
\* journaled ends the drive that wrote it.
THEOREM PerformedOnceHolds == Spec => []PerformedOnce
BY Invariance, ClaimsOfIInv, PTL

\* A gated request is not written more often than operators approved it: an approval
\* is of one pause, it is claimed once, and take() answers one call with it.
THEOREM OneApprovalHolds == Spec => []OneApprovalOneCall
BY Invariance, ClaimsOfIInv, PTL

\* A call that was written before its result could be journaled is not passed over:
\* the row does not pause or complete, and if it failed it says of what, except where
\* the catch of resume() wrote it after the drive's own writes were given up in the log.
THEOREM LostCallHolds == Spec => []LostCallIsTold
BY Invariance, ClaimsOfIInv, PTL

\* decisionApplied: an operator who denied, or who was told that the decision did not
\* apply, let nothing through, then or by any later drive of that execution.
THEOREM UnappliedHolds == Spec => []UnappliedIsNotRun
BY Invariance, ClaimsOfIInv, PTL

\* A script that damages the engine module takes no other execution with it: whoever
\* runs first on a module that is spoilt finds it so and builds another.
THEOREM OneVictimHolds == Spec => []OneVictim
BY Invariance, ClaimsOfIInv, PTL

\* While the daemon is up, a running row is a drive's or a resume()'s to settle, or
\* the log says that its settle write was given up.
THEOREM NothingStrandedHolds == Spec => []NothingStranded
BY Invariance, ClaimsOfIInv, PTL

=============================================================================
