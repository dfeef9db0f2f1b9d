---------------------- MODULE SourceProvisioning_proofs ----------------------
(***************************************************************************)
(* Theorems about SourceProvisioning, for any number of requests and       *)
(* crashes, any namespaces, urls and prefixes, and whatever is asked.      *)
(***************************************************************************)
EXTENDS SourceProvisioning, TLAPS

-----------------------------------------------------------------------------
(* The inductive invariant *)

\* The handler of r runs, or has run to its end.
Entered(r) == pc[r] \in Running \union {"done"}

Together(q, r) == Ns(q) = Ns(r)

\* A promise chain as the queue it is.  Requests arrive in the order of their
\* numbers; the tail is the last active one of its namespace; everybody's
\* predecessor comes after all the others still before it; and whoever has
\* entered has nobody active before it.
Chain ==
  /\ \A r \in Requests : pc[r] # "unsent" => ask[r] \in AllAsks
  /\ \A q, r \in Requests : q < r /\ pc[q] = "unsent" => pc[r] = "unsent"
  /\ \A n \in Namespaces : tail[n] # Nothing => Active(tail[n]) /\ Ns(tail[n]) = n
  /\ \A r \in Requests : Active(r) => tail[Ns(r)] # Nothing /\ r <= tail[Ns(r)]
  /\ \A r \in Requests : Active(r) /\ pred[r] # Nothing => pred[r] < r /\ Together(pred[r], r)
                            /\ pc[pred[r]] # "unsent"
  /\ \A q, r \in Requests : Active(q) /\ Active(r) /\ Together(q, r) /\ q < r =>
       pred[r] # Nothing /\ q <= pred[r]
  /\ \A q, r \in Requests : Active(q) /\ Entered(r) /\ Together(q, r) => r <= q

\* What a handler has done, and said, at each of its steps.
Uncommitted ==
  {"unsent", "queued", "deciding", "revealing", "fetching", "fetched", "committing"}
Refreshing == {"readback", "refreshing", "publishing"}

Deeds ==
  \A r \in Requests :
    /\ pc[r] \in Uncommitted => r \notin committed /\ answer[r] = "none"
    /\ pc[r] \in Refreshing => r \in committed /\ answer[r] = "none"

\* A secret is of a request that has arrived and named this url.
Supplies(s, url) == s # Nothing => pc[s] # "unsent" /\ ask[s].url = url

Filed(n) ==
  /\ rows[n].ref <=> rows[n].secret # Nothing
  /\ Supplies(rows[n].secret, rows[n].location)

\* What a handler holds between its decision and its batch is still so of the
\* rows it decided by.
Fetching == {"revealing", "fetching", "fetched", "committing"}

Planned(r) ==
  /\ plan[r].url \in Urls
  /\ plan[r].prefix \in Prefixes
  /\ plan[r].onFile = Row(r).ref
  /\ HasFreshSecret(r) => plan[r].url = ask[r].url
  /\ ~HasFreshSecret(r) /\ ~ClearsCredential(r) /\ Row(r).ref => Row(r).location = plan[r].url
  /\ pc[r] = "revealing" => Row(r).location = plan[r].url
  /\ pc[r] # "revealing" => Supplies(plan[r].auth, plan[r].url)

Pairs ==
  /\ \A n \in Namespaces : Filed(n)
  /\ \A r \in Requests : pc[r] \in Fetching => Planned(r)
  /\ \A m \in sent : m.by \in Requests => Supplies(m.secret, m.to)

\* A call that has read a connection reads of a stored source.
Reading ==
  \A c \in Calls :
    /\ callPC[c] \in {"source", "credentials"} => held[c].ns \in Namespaces /\ rows[held[c].ns] # Absent
    /\ callPC[c] \in {"credentials", "sending"} => held[c].url \in Urls

\* The served catalog, with who is to blame when it is not the stored one.
Served ==
  /\ \A n \in Namespaces :
       LET writer == rows[n].tools
       IN up /\ catalog[n] # writer =>
            /\ writer \in Requests
            /\ pc[writer] \in Refreshing \/ answer[writer] = "fault" \/ writer \in reported
  /\ \A n \in Namespaces :
       rows[n].tools # Nothing => pc[rows[n].tools] # "unsent" /\ Ns(rows[n].tools) = n
  /\ \A r \in Requests : pc[r] \in Refreshing => Row(r).tools = r
  /\ \A r \in Requests : pc[r] = "publishing" => plan[r].tools = r

IInv == TypeOK /\ Chain /\ Deeds /\ AnswersAreTrue /\ Pairs /\ Reading /\ Served

-----------------------------------------------------------------------------
(* Steps by what they do to the chain *)

\* A handler that has entered goes on, and neither arrives nor leaves.
GoesOn(r) ==
  \/ Provision(r) \/ Revalidate(r) \/ Reveal(r) \/ Fetch(r)
  \/ \E reply \in Replies : FetchAnswered(r, reply)
  \/ Commit(r) \/ CommitConflicts(r) \/ ReadBack(r) \/ StoreFails(r)
  \/ RefreshReads(r) \/ RefreshReadFails(r) \/ Publish(r) \/ PublishFails(r)

LEMMA StepsByKind ==
  ASSUME [Next]_vars
  PROVE  \/ \E r \in Requests : (\E a \in Asks[r] : Arrive(r, a)) \/ Enter(r) \/ Release(r) \/ GoesOn(r)
         \/ \E c \in Calls : CallGoesOn(c)
         \/ Crash \/ Restart \/ UNCHANGED vars
BY DEF Next, Handle, Fails, GoesOn

LEMMA GoesOnMoves ==
  ASSUME TypeOK, NEW r \in Requests, GoesOn(r)
  PROVE  /\ pc[r] \in Running \ {"releasing"}
         /\ \E step \in Running : pc' = [pc EXCEPT ![r] = step]
         /\ UNCHANGED <<tail, pred, ask, held, callPC, up, crashes>>
<1> USE DEF TypeOK, Running, Steps, Goes, Answer, chain, call, world, history
<1>1. CASE Provision(r) \/ Revalidate(r) \/ Reveal(r) \/ Fetch(r)
  BY <1>1 DEF Provision, Revalidate, Reveal, Fetch, Proceeds
<1>2. ASSUME NEW reply \in Replies, FetchAnswered(r, reply)
      PROVE  /\ pc[r] \in Running \ {"releasing"}
             /\ \E step \in Running : pc' = [pc EXCEPT ![r] = step]
             /\ UNCHANGED <<tail, pred, ask, held, callPC, up, crashes>>
  BY <1>2 DEF FetchAnswered
<1>3. CASE Commit(r) \/ CommitConflicts(r) \/ ReadBack(r) \/ StoreFails(r)
  BY <1>3 DEF Commit, CommitConflicts, ReadBack, StoreFails
<1>4. CASE RefreshReads(r) \/ Publish(r) \/ PublishFails(r)
  BY <1>4 DEF RefreshReads, Publish, PublishFails
<1>5. CASE RefreshReadFails(r)
  <2>1. pc' = [pc EXCEPT ![r] = pc[r]] \/ pc' = [pc EXCEPT ![r] = "releasing"]
    BY <1>5 DEF RefreshReadFails
  <2> QED
    BY <1>5, <2>1 DEF RefreshReadFails
<1> QED
  BY <1>1, <1>2, <1>3, <1>4, <1>5 DEF GoesOn

-----------------------------------------------------------------------------
(* SourceLock *)

LEMMA RequestFacts ==
  /\ Requests \subseteq Nat
  /\ Nothing \notin Requests
  /\ Nothing \notin AllAsks
  /\ \A r \in Requests : Asks[r] \subseteq AllAsks
  /\ \A a \in AllAsks : a.ns \in Namespaces
BY AsksAssumption, NothingAssumption, BoundsAssumption DEF Requests, AllAsks

LEMMA Order ==
  \A q, r \in Requests : (q < r \/ q = r \/ r < q) /\ (q <= r /\ r <= q => q = r)
BY BoundsAssumption DEF Requests

LEMMA ChainInit == Init => Chain
BY RequestFacts DEF Init, Chain, Active, Entered, Running

\* Whoever arrives becomes the tail, behind all the active of its namespace.
LEMMA ArriveKeepsChain ==
  ASSUME TypeOK, Chain, NEW r \in Requests, NEW a \in Asks[r], Arrive(r, a)
  PROVE  Chain'
<1> USE RequestFacts DEF TypeOK
<1>0. /\ pc[r] = "unsent"
      /\ \A q \in Requests : pc'[q] = IF q = r THEN "queued" ELSE pc[q]
      /\ \A q \in Requests : ask'[q] = IF q = r THEN a ELSE ask[q]
      /\ \A q \in Requests : pred'[q] = IF q = r THEN tail[a.ns] ELSE pred[q]
      /\ \A n \in Namespaces : tail'[n] = IF n = a.ns THEN r ELSE tail[n]
      /\ \A q \in Requests : q < r => pc[q] # "unsent"
      /\ a \in AllAsks /\ a.ns \in Namespaces
  BY DEF Arrive, Goes, Steps
<1>1. \A q \in Requests : r < q => pc[q] = "unsent"
  BY <1>0 DEF Chain
<1>2. /\ Active(r)' /\ ~Active(r) /\ ~Entered(r)' /\ Ns(r)' = a.ns
      /\ \A q \in Requests \ {r} : /\ Active(q)' = Active(q) /\ Entered(q)' = Entered(q)
                                   /\ Ns(q)' = Ns(q)
  BY <1>0 DEF Active, Entered, Ns, Running
<1>3. \A q \in Requests : Active(q) \/ Entered(q) => q < r /\ ask[q] \in AllAsks /\ pc[q] # "unsent"
  <2> SUFFICES ASSUME NEW q \in Requests, Active(q) \/ Entered(q)
               PROVE  q < r /\ ask[q] \in AllAsks /\ pc[q] # "unsent"
    OBVIOUS
  <2>1. pc[q] # "unsent"
    BY DEF Active, Entered, Running
  <2>2. q # r /\ ~(r < q)
    BY <1>0, <1>1, <2>1
  <2> QED
    BY <2>1, <2>2, Order DEF Chain
<1>4. \A q \in Requests : pc'[q] # "unsent" => ask'[q] \in AllAsks
  BY <1>0 DEF Chain
<1>5. \A p, q \in Requests : p < q /\ pc'[p] = "unsent" => pc'[q] = "unsent"
  BY <1>0 DEF Chain
<1>6. \A n \in Namespaces : tail'[n] # Nothing => Active(tail[n])' /\ Ns(tail[n])' = n
  <2> SUFFICES ASSUME NEW n \in Namespaces, tail'[n] # Nothing
               PROVE  Active(tail[n])' /\ Ns(tail[n])' = n
    OBVIOUS
  <2>1. CASE n = a.ns
    BY <1>0, <1>2, <2>1
  <2>2. CASE n # a.ns
    <3>1. tail'[n] = tail[n] /\ tail[n] \in Requests /\ Active(tail[n]) /\ Ns(tail[n]) = n
      BY <1>0, <2>2 DEF Chain
    <3> QED
      BY <1>2, <3>1
  <2> QED
    BY <2>1, <2>2
<1>7. \A q \in Requests : Active(q)' => tail'[Ns(q)'] # Nothing /\ q <= tail'[Ns(q)']
  <2> SUFFICES ASSUME NEW q \in Requests, Active(q)'
               PROVE  tail'[Ns(q)'] # Nothing /\ q <= tail'[Ns(q)']
    OBVIOUS
  <2>1. CASE q = r
    BY <1>0, <1>2, <2>1
  <2>2. CASE q # r
    <3>1. Active(q) /\ q < r /\ Ns(q)' = Ns(q) /\ Ns(q) \in Namespaces
      BY <1>2, <1>3, <2>2 DEF Ns
    <3>2. tail[Ns(q)] # Nothing /\ q <= tail[Ns(q)]
      BY <3>1 DEF Chain
    <3> QED
      BY <1>0, <3>1, <3>2
  <2> QED
    BY <2>1, <2>2
<1>8. \A q \in Requests : Active(q)' /\ pred'[q] # Nothing =>
        pred'[q] < q /\ Together(pred[q], q)' /\ pc'[pred'[q]] # "unsent"
  <2> SUFFICES ASSUME NEW q \in Requests, Active(q)', pred'[q] # Nothing
               PROVE  pred'[q] < q /\ Together(pred[q], q)' /\ pc'[pred'[q]] # "unsent"
    OBVIOUS
  <2>1. CASE q = r
    <3>1. pred'[r] = tail[a.ns] /\ tail[a.ns] \in Requests /\ Active(tail[a.ns]) /\ Ns(tail[a.ns]) = a.ns
      BY <1>0, <2>1 DEF Chain
    <3> QED
      BY <1>0, <1>2, <1>3, <2>1, <3>1 DEF Together
  <2>2. CASE q # r
    <3>1. /\ Active(q) /\ pred'[q] = pred[q] /\ pred[q] \in Requests /\ pred[q] < q
          /\ Together(pred[q], q) /\ pc[pred[q]] # "unsent"
      BY <1>0, <1>2, <2>2 DEF Chain
    <3> QED
      BY <1>0, <1>2, <2>2, <3>1 DEF Together
  <2> QED
    BY <2>1, <2>2
<1>9. \A p, q \in Requests : Active(p)' /\ Active(q)' /\ Together(p, q)' /\ p < q =>
        pred'[q] # Nothing /\ p <= pred'[q]
  <2> SUFFICES ASSUME NEW p \in Requests, NEW q \in Requests,
                      Active(p)', Active(q)', Together(p, q)', p < q
               PROVE  pred'[q] # Nothing /\ p <= pred'[q]
    OBVIOUS
  <2>1. p # r
    BY <1>0, <1>1, <1>2, <1>3
  <2>2. CASE q = r
    <3>1. Active(p) /\ Ns(p) = a.ns
      BY <1>2, <2>1, <2>2 DEF Together
    <3> QED
      BY <1>0, <2>2, <3>1 DEF Chain
  <2>3. CASE q # r
    BY <1>0, <1>2, <2>1, <2>3 DEF Chain, Together
  <2> QED
    BY <2>2, <2>3
<1>10. \A p, q \in Requests : Active(p)' /\ Entered(q)' /\ Together(p, q)' => q <= p
  <2> SUFFICES ASSUME NEW p \in Requests, NEW q \in Requests,
                      Active(p)', Entered(q)', Together(p, q)'
               PROVE  q <= p
    OBVIOUS
  <2>1. q # r /\ Entered(q)
    BY <1>2
  <2>2. CASE p = r
    BY <1>3, <2>1, <2>2
  <2>3. CASE p # r
    BY <1>2, <2>1, <2>3 DEF Chain, Together
  <2> QED
    BY <2>2, <2>3
<1> QED
  BY <1>4, <1>5, <1>6, <1>7, <1>8, <1>9, <1>10 DEF Chain, Together

\* What a step that moves one handler, or none, leaves of the queue as it was.
LEMMA EnterKeepsChain ==
  ASSUME TypeOK, Chain, NEW r \in Requests, Enter(r)
  PROVE  Chain'
<1> USE RequestFacts DEF TypeOK
<1>0. /\ pc[r] = "queued"
      /\ pred[r] # Nothing => pc[pred[r]] = "done"
      /\ \A q \in Requests : pc'[q] = IF q = r THEN "deciding" ELSE pc[q]
      /\ ask' = ask /\ pred' = pred /\ tail' = tail
  BY DEF Enter, Goes, chain
<1>1. /\ Active(r)
      /\ \A q \in Requests : Active(q)' = Active(q) /\ Ns(q)' = Ns(q)
      /\ \A q \in Requests \ {r} : Entered(q)' = Entered(q)
  BY <1>0 DEF Active, Entered, Ns, Running
<1>2. ASSUME NEW q \in Requests, Active(q), Together(q, r)
      PROVE  r <= q
  <2> SUFFICES ASSUME q < r
               PROVE  FALSE
    OBVIOUS
  <2>1. pred[r] \in Requests /\ q <= pred[r]
    BY <1>1, <1>2 DEF Chain
  <2>2. Entered(pred[r]) /\ Together(q, pred[r])
    BY <1>0, <1>1, <1>2, <2>1 DEF Chain, Entered, Together
  <2>3. q = pred[r]
    BY <1>2, <2>1, <2>2, Order DEF Chain
  <2> QED
    BY <1>0, <1>2, <2>1, <2>3 DEF Active, Running
<1>3. \A p, q \in Requests : Active(p)' /\ Entered(q)' /\ Together(p, q)' => q <= p
  BY <1>0, <1>1, <1>2 DEF Chain, Together
<1>4. \A n \in Namespaces : tail'[n] # Nothing => Active(tail[n])' /\ Ns(tail[n])' = n
  BY <1>0, <1>1 DEF Chain
<1>5. \A q \in Requests : Active(q)' => tail'[Ns(q)'] # Nothing /\ q <= tail'[Ns(q)']
  BY <1>0, <1>1 DEF Chain
<1>6. \A q \in Requests : Active(q)' /\ pred'[q] # Nothing =>
        pred'[q] < q /\ Together(pred[q], q)' /\ pc'[pred'[q]] # "unsent"
  BY <1>0, <1>1 DEF Chain, Together
<1>7. \A p, q \in Requests : Active(p)' /\ Active(q)' /\ Together(p, q)' /\ p < q =>
        pred'[q] # Nothing /\ p <= pred'[q]
  BY <1>0, <1>1 DEF Chain, Together
<1>8. /\ \A q \in Requests : pc'[q] # "unsent" => ask'[q] \in AllAsks
      /\ \A p, q \in Requests : p < q /\ pc'[p] = "unsent" => pc'[q] = "unsent"
  BY <1>0 DEF Chain
<1> QED
  BY <1>3, <1>4, <1>5, <1>6, <1>7, <1>8 DEF Chain, Together

\* Whoever leaves was the first; it was the tail only if it was the last.
LEMMA ReleaseKeepsChain ==
  ASSUME TypeOK, Chain, NEW r \in Requests, Release(r)
  PROVE  Chain'
<1> USE RequestFacts DEF TypeOK
<1>0. /\ pc[r] = "releasing"
      /\ \A q \in Requests : pc'[q] = IF q = r THEN "done" ELSE pc[q]
      /\ ask' = ask /\ pred' = pred
      /\ tail' = IF tail[Ns(r)] = r THEN [tail EXCEPT ![Ns(r)] = Nothing] ELSE tail
  BY DEF Release, Goes, Steps, Running
<1>1. /\ Active(r) /\ Entered(r) /\ ~Active(r)' /\ Entered(r)' /\ Ns(r) \in Namespaces
      /\ \A q \in Requests : Ns(q)' = Ns(q) /\ Entered(q)' = Entered(q)
      /\ \A q \in Requests \ {r} : Active(q)' = Active(q)
  BY <1>0 DEF Chain, Active, Entered, Ns, Running
<1>2. \A n \in Namespaces : tail'[n] = IF tail[n] = r THEN Nothing ELSE tail[n]
  <2>1. \A n \in Namespaces : tail[n] = r => n = Ns(r)
    BY DEF Chain
  <2> QED
    BY <1>0, <1>1, <2>1
<1>3. \A n \in Namespaces : tail'[n] # Nothing => Active(tail[n])' /\ Ns(tail[n])' = n
  BY <1>1, <1>2 DEF Chain
<1>4. ASSUME NEW q \in Requests, Active(q)'
      PROVE  tail'[Ns(q)'] # Nothing /\ q <= tail'[Ns(q)']
  <2>1. Active(q) /\ q # r /\ Ns(q) \in Namespaces /\ Ns(q)' = Ns(q)
    BY <1>1, <1>4 DEF Chain, Active, Running, Ns
  <2>2. tail[Ns(q)] # Nothing /\ q <= tail[Ns(q)]
    BY <2>1 DEF Chain
  <2>3. tail[Ns(q)] # r
    <3> SUFFICES ASSUME tail[Ns(q)] = r
                 PROVE  FALSE
      OBVIOUS
    <3>1. Together(q, r)
      BY <2>1 DEF Chain, Together
    <3> QED
      BY <1>1, <2>1, <2>2, <3>1, Order DEF Chain
  <2> QED
    BY <1>2, <2>1, <2>2, <2>3
<1>5. \A q \in Requests : Active(q)' /\ pred'[q] # Nothing =>
        pred'[q] < q /\ Together(pred[q], q)' /\ pc'[pred'[q]] # "unsent"
  BY <1>0, <1>1 DEF Chain, Together
<1>6. \A p, q \in Requests : Active(p)' /\ Active(q)' /\ Together(p, q)' /\ p < q =>
        pred'[q] # Nothing /\ p <= pred'[q]
  BY <1>0, <1>1 DEF Chain, Together
<1>7. \A p, q \in Requests : Active(p)' /\ Entered(q)' /\ Together(p, q)' => q <= p
  BY <1>1 DEF Chain, Together
<1>8. /\ \A q \in Requests : pc'[q] # "unsent" => ask'[q] \in AllAsks
      /\ \A p, q \in Requests : p < q /\ pc'[p] = "unsent" => pc'[q] = "unsent"
  BY <1>0 DEF Chain
<1> QED
  BY <1>3, <1>4, <1>5, <1>6, <1>7, <1>8 DEF Chain, Together

LEMMA GoesOnKeepsChain ==
  ASSUME TypeOK, Chain, NEW r \in Requests, GoesOn(r)
  PROVE  Chain'
<1> USE RequestFacts DEF TypeOK
<1>0. PICK step \in Running : /\ pc[r] \in Running
                              /\ \A q \in Requests : pc'[q] = IF q = r THEN step ELSE pc[q]
                              /\ ask' = ask /\ pred' = pred /\ tail' = tail
  BY GoesOnMoves
<1>1. \A q \in Requests :
        /\ Active(q)' = Active(q) /\ Ns(q)' = Ns(q) /\ Entered(q)' = Entered(q)
        /\ pc'[q] = "unsent" <=> pc[q] = "unsent"
  BY <1>0 DEF Active, Entered, Ns, Running
<1>2. \A n \in Namespaces : tail'[n] # Nothing => Active(tail[n])' /\ Ns(tail[n])' = n
  BY <1>0, <1>1 DEF Chain
<1>3. /\ \A q \in Requests : Active(q)' => tail'[Ns(q)'] # Nothing /\ q <= tail'[Ns(q)']
      /\ \A q \in Requests : pc'[q] # "unsent" => ask'[q] \in AllAsks
      /\ \A p, q \in Requests : p < q /\ pc'[p] = "unsent" => pc'[q] = "unsent"
  BY <1>0, <1>1 DEF Chain
<1>4. \A q \in Requests : Active(q)' /\ pred'[q] # Nothing =>
        pred'[q] < q /\ Together(pred[q], q)' /\ pc'[pred'[q]] # "unsent"
  BY <1>0, <1>1 DEF Chain, Together
<1>5. /\ \A p, q \in Requests : Active(p)' /\ Active(q)' /\ Together(p, q)' /\ p < q =>
           pred'[q] # Nothing /\ p <= pred'[q]
      /\ \A p, q \in Requests : Active(p)' /\ Entered(q)' /\ Together(p, q)' => q <= p
  BY <1>0, <1>1 DEF Chain, Together
<1> QED
  BY <1>2, <1>3, <1>4, <1>5 DEF Chain, Together

\* A crash leaves no one active.
LEMMA CrashKeepsChain ==
  ASSUME TypeOK, Chain, Crash
  PROVE  Chain'
<1> USE RequestFacts DEF TypeOK
<1>1. /\ \A q \in Requests : pc'[q] = IF Active(q) THEN "dead" ELSE pc[q]
      /\ \A n \in Namespaces : tail'[n] = Nothing
      /\ ask' = ask
  BY DEF Crash
<1>2. \A q \in Requests : ~Active(q)' /\ (pc'[q] = "unsent" <=> pc[q] = "unsent")
  BY <1>1 DEF Active, Running
<1> QED
  BY <1>1, <1>2 DEF Chain

LEMMA ChainNext ==
  ASSUME TypeOK, Chain, [Next]_vars
  PROVE  Chain'
<1>1. CASE UNCHANGED <<pc, ask, pred, tail>>
  BY <1>1 DEF Chain, Active, Entered, Together, Ns
<1>2. CASE (\E c \in Calls : CallGoesOn(c)) \/ Restart \/ UNCHANGED vars
  <2>1. UNCHANGED <<pc, ask, pred, tail>>
    BY <1>2 DEF CallGoesOn, CallReadsConnection, CallReadsSource, CallResolves, CallSends, Restart,
       request, chain, vars
  <2> QED
    BY <1>1, <2>1
<1> QED
  BY <1>2, StepsByKind, ArriveKeepsChain, EnterKeepsChain, ReleaseKeepsChain, GoesOnKeepsChain,
     CrashKeepsChain

\* One handler of a namespace at a time.
LEMMA ChainIsALock == Chain => OneHolder
BY RequestFacts DEF Chain, OneHolder, Active, Entered, Together

-----------------------------------------------------------------------------
(* Types *)

LEMMA ValueFacts ==
  /\ Absent.location = Nothing /\ Absent.prefix = Nothing /\ Absent.ref = FALSE
  /\ Absent.secret = Nothing /\ Absent.tools = Nothing
  /\ NoPlan \in Plans
  /\ Nothing \notin Urls /\ Nothing \notin Prefixes /\ Nothing \notin Namespaces
  /\ NotReading \in [ns : Namespaces \union {Nothing}, ref : BOOLEAN,
                     url : Urls \union {Nothing}, secret : Requests \union {Nothing}]
BY NothingAssumption DEF Absent, NoPlan, Plans, NotReading

LEMMA RowFacts ==
  ASSUME TypeOK, NEW n \in Namespaces
  PROVE  /\ rows[n].ref \in BOOLEAN
         /\ rows[n].secret \in Requests \union {Nothing}
         /\ rows[n].tools \in Requests \union {Nothing}
         /\ rows[n] # Absent <=> rows[n].location # Nothing
         /\ rows[n] # Absent => rows[n].location \in Urls /\ rows[n].prefix \in Prefixes
                                /\ rows[n].tools \in Requests
BY ValueFacts DEF TypeOK, Stored

LEMMA PlanFacts ==
  ASSUME NEW s \in Requests \union {Nothing}
  PROVE  /\ \A p \in Plans : /\ [p EXCEPT !.auth = s] \in Plans
                             /\ [p EXCEPT !.tools = s] \in Plans
                             /\ [p EXCEPT !.tries = 1] \in Plans
         /\ \A url \in Urls \union {Nothing}, prefix \in Prefixes \union {Nothing}, onFile \in BOOLEAN :
              [url |-> url, prefix |-> prefix, auth |-> s, onFile |-> onFile,
               tools |-> Nothing, tries |-> 0] \in Plans
<1>1. ASSUME NEW p \in Plans
      PROVE  /\ [p EXCEPT !.auth = s] \in Plans
             /\ [p EXCEPT !.tools = s] \in Plans
             /\ [p EXCEPT !.tries = 1] \in Plans
  <2>1. [p EXCEPT !.auth = s] \in Plans
    BY <1>1 DEF Plans
  <2>2. [p EXCEPT !.tools = s] \in Plans
    BY <1>1 DEF Plans
  <2>3. [p EXCEPT !.tries = 1] \in Plans
    BY <1>1 DEF Plans
  <2> QED
    BY <2>1, <2>2, <2>3
<1>2. ASSUME NEW url \in Urls \union {Nothing}, NEW prefix \in Prefixes \union {Nothing},
             NEW onFile \in BOOLEAN
      PROVE  [url |-> url, prefix |-> prefix, auth |-> s, onFile |-> onFile,
              tools |-> Nothing, tries |-> 0] \in Plans
  BY <1>2 DEF Plans
<1> QED
  BY <1>1, <1>2

LEMMA TypeInit == Init => TypeOK
<1> USE ValueFacts, BoundsAssumption DEF Init
<1>1. Init => /\ rows \in [Namespaces -> Stored \union {Absent}]
              /\ plan \in [Requests -> Plans]
              /\ held \in [Calls -> [ns : Namespaces \union {Nothing}, ref : BOOLEAN,
                             url : Urls \union {Nothing}, secret : Requests \union {Nothing}]]
  OBVIOUS
<1>2. Init => /\ pc \in [Requests -> Steps] /\ answer \in [Requests -> Answers]
              /\ callPC \in [Calls -> CallSteps]
  BY DEF Steps, Answers, CallSteps
<1> QED
  BY <1>1, <1>2 DEF TypeOK

\* Where a handler fetches, by what it was asked and the row it read.
LEMMA PlanTypes ==
  ASSUME TypeOK, Chain, NEW r \in Requests, Provision(r) \/ Revalidate(r)
  PROVE  plan' \in [Requests -> Plans]
<1> USE DEF TypeOK
<1>1. ask[r] \in AllAsks /\ Ns(r) \in Namespaces
  BY RequestFacts DEF Provision, Revalidate, Chain, Ns
<1>2. ASSUME NEW url \in Urls \union {Nothing}, NEW prefix \in Prefixes \union {Nothing},
             NEW reveal, Proceeds(r, url, prefix, reveal)
      PROVE  plan' \in [Requests -> Plans]
  <2>1. [url |-> url, prefix |-> prefix, auth |-> IF HasFreshSecret(r) THEN r ELSE Nothing,
         onFile |-> Row(r).ref, tools |-> Nothing, tries |-> 0] \in Plans
    <3>1. Row(r).ref \in BOOLEAN
      BY <1>1, RowFacts DEF Row
    <3> QED
      BY <3>1, PlanFacts
  <2> QED
    BY <1>2, <2>1 DEF Proceeds
<1>3. CASE Provision(r)
  <2>1. ask[r].kind = "provision" /\ (Valid(ask[r]) => ask[r].url \in Urls) /\ ask[r].prefix \in Prefixes
    BY <1>1, <1>3 DEF Provision, AllAsks, Valid
  <2> QED
    BY <1>2, <1>3, <2>1 DEF Provision, Refuses
<1>4. CASE Revalidate(r)
  BY <1>1, <1>2, <1>4, RowFacts DEF Revalidate, Row
<1> QED
  BY <1>3, <1>4

LEMMA HandlerTypes ==
  ASSUME TypeOK, Chain, Pairs, NEW r \in Requests, GoesOn(r)
  PROVE  TypeOK'
<1> USE DEF TypeOK
<1>0. /\ pc' \in [Requests -> Steps]
      /\ tail' = tail /\ pred' = pred /\ ask' = ask /\ callPC' = callPC /\ held' = held
      /\ up' = up /\ crashes' = crashes
      /\ Ns(r) \in Namespaces
  <2>1. Running \subseteq Steps /\ "unsent" \notin Running
    BY DEF Steps, Running
  <2>2. ask[r] \in AllAsks
    BY <2>1, GoesOnMoves DEF Chain
  <2>3. \E step \in Running : pc' = [pc EXCEPT ![r] = step]
    BY GoesOnMoves
  <2>4. pc' \in [Requests -> Steps]
    BY <2>1, <2>3
  <2> QED
    BY <2>2, <2>4, GoesOnMoves, RequestFacts DEF Ns
<1>1. answer' \in [Requests -> Answers]
  BY DEF GoesOn, Provision, Revalidate, Proceeds, Reveal, Fetch, FetchAnswered, Commit,
     CommitConflicts, ReadBack, StoreFails, RefreshReads, RefreshReadFails, Publish, PublishFails,
     Answer, Answers
<1>2. plan' \in [Requests -> Plans]
  <2>1. CASE Reveal(r)
    <3>1. [plan[r] EXCEPT !.auth = Row(r).secret] \in Plans
      BY <1>0, RowFacts, PlanFacts DEF Row
    <3> QED
      BY <2>1, <3>1 DEF Reveal
  <2>2. CASE RefreshReads(r)
    <3>1. [plan[r] EXCEPT !.tools = Row(r).tools] \in Plans
      BY <1>0, RowFacts, PlanFacts DEF Row
    <3> QED
      BY <2>2, <3>1 DEF RefreshReads
  <2>3. CASE RefreshReadFails(r)
    <3>1. [plan[r] EXCEPT !.tries = 1] \in Plans
      BY PlanFacts
    <3> QED
      BY <2>3, <3>1 DEF RefreshReadFails
  <2> QED
    BY <2>1, <2>2, <2>3, PlanTypes DEF GoesOn, Fetch, FetchAnswered, Commit, CommitConflicts,
       ReadBack, StoreFails, Publish, PublishFails
<1>3. rows' \in [Namespaces -> Stored \union {Absent}] /\ committed' \subseteq Requests
  <2>1. CASE Commit(r)
    <3>1. plan[r].url \in Urls /\ plan[r].prefix \in Prefixes
      BY <2>1 DEF Commit, Pairs, Planned, Fetching
    <3>2. Resolved(r).ref \in BOOLEAN /\ Resolved(r).secret \in Requests \union {Nothing}
      BY <1>0, RowFacts DEF Resolved, Plans, Row
    <3>3. [location |-> plan[r].url, prefix |-> plan[r].prefix, ref |-> Resolved(r).ref,
           secret |-> Resolved(r).secret, tools |-> r] \in Stored
      BY <3>1, <3>2 DEF Stored
    <3> QED
      BY <2>1, <3>3 DEF Commit
  <2> QED
    BY <2>1 DEF GoesOn, Provision, Revalidate, Reveal, Fetch, FetchAnswered, CommitConflicts,
       ReadBack, StoreFails, RefreshReads, RefreshReadFails, Publish, PublishFails, history
<1>4. catalog' \in [Namespaces -> Requests \union {Nothing, Partial}] /\ reported' \subseteq Requests
  <2>1. plan[r].tools \in Requests \union {Nothing}
    BY DEF Plans
  <2> QED
    BY <2>1 DEF GoesOn, Provision, Revalidate, Reveal, Fetch, FetchAnswered, Commit, CommitConflicts,
       ReadBack, StoreFails, RefreshReads, RefreshReadFails, Publish, PublishFails, history
<1>5. sent' \subseteq [by : Requests \union Calls, to : Urls, secret : Requests \union {Nothing}]
  <2>1. CASE Fetch(r)
    <3>1. plan[r].url \in Urls /\ plan[r].auth \in Requests \union {Nothing}
      BY <2>1 DEF Fetch, Pairs, Planned, Fetching, Plans
    <3> QED
      BY <2>1, <3>1 DEF Fetch
  <2> QED
    BY <2>1 DEF GoesOn, Provision, Revalidate, Reveal, FetchAnswered, Commit, CommitConflicts,
       ReadBack, StoreFails, RefreshReads, RefreshReadFails, Publish, PublishFails
<1> QED
  BY <1>0, <1>1, <1>2, <1>3, <1>4, <1>5

LEMMA CallTypes ==
  ASSUME TypeOK, Reading, NEW c \in Calls, CallGoesOn(c)
  PROVE  TypeOK'
<1> USE DEF TypeOK, chain, request, world, history
<1>1. ASSUME NEW n \in Namespaces, CallReadsConnection(c, n)
      PROVE  TypeOK'
  <2>1. [ns |-> n, ref |-> rows[n].ref, url |-> Nothing, secret |-> Nothing]
          \in [ns : Namespaces \union {Nothing}, ref : BOOLEAN,
               url : Urls \union {Nothing}, secret : Requests \union {Nothing}]
    <3>1. rows[n].ref \in BOOLEAN
      BY RowFacts
    <3> HIDE DEF TypeOK
    <3> QED
      BY <3>1
  <2> QED
    BY <1>1, <2>1 DEF CallReadsConnection, CallSteps
<1>2. CASE CallReadsSource(c)
  <2>1. rows[held[c].ns].location \in Urls
    BY <1>2, RowFacts DEF CallReadsSource, Reading
  <2>2. held' \in [Calls -> [ns : Namespaces \union {Nothing}, ref : BOOLEAN,
                             url : Urls \union {Nothing}, secret : Requests \union {Nothing}]]
    <3>1. [held[c] EXCEPT !.url = rows[held[c].ns].location]
            \in [ns : Namespaces \union {Nothing}, ref : BOOLEAN,
                 url : Urls \union {Nothing}, secret : Requests \union {Nothing}]
      BY <2>1
    <3> QED
      BY <1>2, <3>1 DEF CallReadsSource
  <2> QED
    BY <1>2, <2>2 DEF CallReadsSource, CallSteps
<1>3. CASE CallResolves(c)
  <2>1. rows[held[c].ns].secret \in Requests \union {Nothing}
    BY <1>3, RowFacts DEF CallResolves, Reading
  <2>2. held' \in [Calls -> [ns : Namespaces \union {Nothing}, ref : BOOLEAN,
                             url : Urls \union {Nothing}, secret : Requests \union {Nothing}]]
    <3>1. \A s \in Requests \union {Nothing} : [held[c] EXCEPT !.secret = s]
            \in [ns : Namespaces \union {Nothing}, ref : BOOLEAN,
                 url : Urls \union {Nothing}, secret : Requests \union {Nothing}]
      OBVIOUS
    <3>2. CASE held[c].ref /\ rows[held[c].ns].secret = Nothing
      BY <1>3, <3>2 DEF CallResolves
    <3>3. CASE ~(held[c].ref /\ rows[held[c].ns].secret = Nothing)
      <4>1. PICK s \in Requests \union {Nothing} :
              held' = [held EXCEPT ![c] = [held[c] EXCEPT !.secret = s]]
        BY <1>3, <2>1, <3>3 DEF CallResolves
      <4> QED
        BY <3>1, <4>1
    <3> QED
      BY <3>2, <3>3
  <2> QED
    BY <1>3, <2>2 DEF CallResolves, CallSteps
<1>4. CASE CallSends(c)
  <2>1. held[c].url \in Urls /\ held[c].secret \in Requests \union {Nothing}
    BY <1>4 DEF CallSends, Reading
  <2> QED
    BY <1>4, <2>1 DEF CallSends, CallSteps
<1> QED
  BY <1>1, <1>2, <1>3, <1>4 DEF CallGoesOn

LEMMA TypeNext ==
  ASSUME TypeOK, Chain, Pairs, Reading, [Next]_vars
  PROVE  TypeOK'
<1> USE DEF TypeOK, call, world, history, chain, request
<1>1. ASSUME NEW r \in Requests, NEW a \in Asks[r], Arrive(r, a)
      PROVE  TypeOK'
  BY <1>1, RequestFacts DEF Arrive, Goes, Steps
<1>2. ASSUME NEW r \in Requests, Enter(r)
      PROVE  TypeOK'
  BY <1>2 DEF Enter, Goes, Steps, Running
<1>3. ASSUME NEW r \in Requests, Release(r)
      PROVE  TypeOK'
  BY <1>3, ValueFacts DEF Release, Goes, Steps
<1>4. CASE Crash
  <2>1. pc' \in [Requests -> Steps]
    BY <1>4 DEF Crash, Steps
  <2>2. answer' \in [Requests -> Answers]
    BY <1>4 DEF Crash, Answers
  <2>3. callPC' \in [Calls -> CallSteps]
    BY <1>4 DEF Crash, CallSteps
  <2>4. crashes' \in 0..MaxCrashes
    BY <1>4, BoundsAssumption DEF Crash
  <2> QED
    BY <1>4, <2>1, <2>2, <2>3, <2>4 DEF Crash
<1>5. CASE Restart
  BY <1>5, RowFacts DEF Restart
<1>6. CASE UNCHANGED vars
  BY <1>6 DEF vars
<1> QED
  BY <1>1, <1>2, <1>3, <1>4, <1>5, <1>6, StepsByKind, HandlerTypes, CallTypes

-----------------------------------------------------------------------------
(* What is done and said *)

LEMMA DeedsInit == Init => Deeds
BY DEF Init, Deeds, Refreshing

LEMMA DeedsNext ==
  ASSUME TypeOK, Deeds, [Next]_vars
  PROVE  Deeds'
<1> USE DEF TypeOK, Deeds, Uncommitted, Refreshing, Goes, Answer, history
<1>1. ASSUME NEW r \in Requests, NEW a \in Asks[r], Arrive(r, a)
      PROVE  Deeds'
  BY <1>1 DEF Arrive
<1>2. ASSUME NEW r \in Requests, Enter(r) \/ Release(r)
      PROVE  Deeds'
  BY <1>2 DEF Enter, Release
<1>3. ASSUME NEW r \in Requests, GoesOn(r)
      PROVE  Deeds'
  <2>1. CASE Provision(r) \/ Revalidate(r) \/ Reveal(r) \/ Fetch(r)
    BY <2>1 DEF Provision, Revalidate, Reveal, Fetch, Proceeds
  <2>2. ASSUME NEW reply \in Replies, FetchAnswered(r, reply)
        PROVE  Deeds'
    BY <2>2 DEF FetchAnswered
  <2>3. CASE Commit(r) \/ CommitConflicts(r) \/ ReadBack(r) \/ StoreFails(r)
    BY <2>3 DEF Commit, CommitConflicts, ReadBack, StoreFails
  <2>4. CASE RefreshReads(r) \/ RefreshReadFails(r) \/ Publish(r) \/ PublishFails(r)
    BY <2>4 DEF RefreshReads, RefreshReadFails, Publish, PublishFails
  <2> QED
    BY <1>3, <2>1, <2>2, <2>3, <2>4 DEF GoesOn
<1>4. ASSUME NEW c \in Calls, CallGoesOn(c)
      PROVE  Deeds'
  BY <1>4 DEF CallGoesOn, CallReadsConnection, CallReadsSource, CallResolves, CallSends, request
<1>5. CASE Crash
  BY <1>5 DEF Crash, Active, Running
<1>6. CASE Restart \/ UNCHANGED vars
  BY <1>6 DEF Restart, request, vars
<1> QED
  BY <1>1, <1>2, <1>3, <1>4, <1>5, <1>6, StepsByKind

LEMMA AnswersNext ==
  ASSUME TypeOK, Deeds, AnswersAreTrue, [Next]_vars
  PROVE  AnswersAreTrue'
<1> USE DEF TypeOK, Deeds, AnswersAreTrue, Uncommitted, Refreshing, Goes, Answer, history
<1>1. ASSUME NEW r \in Requests, NEW a \in Asks[r], Arrive(r, a)
      PROVE  AnswersAreTrue'
  BY <1>1 DEF Arrive
<1>2. ASSUME NEW r \in Requests, Enter(r) \/ Release(r)
      PROVE  AnswersAreTrue'
  BY <1>2 DEF Enter, Release
<1>3. ASSUME NEW r \in Requests, GoesOn(r)
      PROVE  AnswersAreTrue'
  <2>1. CASE Provision(r) \/ Revalidate(r) \/ Reveal(r) \/ Fetch(r)
    BY <2>1 DEF Provision, Revalidate, Reveal, Fetch, Proceeds
  <2>2. ASSUME NEW reply \in Replies, FetchAnswered(r, reply)
        PROVE  AnswersAreTrue'
    BY <2>2 DEF FetchAnswered
  <2>3. CASE Commit(r) \/ CommitConflicts(r) \/ ReadBack(r) \/ StoreFails(r)
    BY <2>3 DEF Commit, CommitConflicts, ReadBack, StoreFails
  <2>4. CASE RefreshReads(r) \/ RefreshReadFails(r) \/ Publish(r) \/ PublishFails(r)
    BY <2>4 DEF RefreshReads, RefreshReadFails, Publish, PublishFails
  <2> QED
    BY <1>3, <2>1, <2>2, <2>3, <2>4 DEF GoesOn
<1>4. ASSUME NEW c \in Calls, CallGoesOn(c)
      PROVE  AnswersAreTrue'
  BY <1>4 DEF CallGoesOn, CallReadsConnection, CallReadsSource, CallResolves, CallSends, request
<1>5. CASE Crash
  BY <1>5 DEF Crash, Active, Running
<1>6. CASE Restart \/ UNCHANGED vars
  BY <1>6 DEF Restart, request, vars
<1> QED
  BY <1>1, <1>2, <1>3, <1>4, <1>5, <1>6, StepsByKind

-----------------------------------------------------------------------------
(* What holding the lock is worth: the rows stay as they were read *)

\* A request that has arrived goes on asking for the same.
LEMMA AsksStand ==
  ASSUME TypeOK, [Next]_vars, NEW s \in Requests, pc[s] # "unsent"
  PROVE  pc'[s] # "unsent" /\ ask'[s] = ask[s]
<1> USE DEF TypeOK
<1>1. ASSUME NEW r \in Requests, NEW a \in Asks[r], Arrive(r, a)
      PROVE  pc'[s] # "unsent" /\ ask'[s] = ask[s]
  BY <1>1 DEF Arrive, Goes
<1>2. ASSUME NEW r \in Requests, Enter(r) \/ Release(r)
      PROVE  pc'[s] # "unsent" /\ ask'[s] = ask[s]
  BY <1>2 DEF Enter, Release, Goes
<1>3. ASSUME NEW r \in Requests, GoesOn(r)
      PROVE  pc'[s] # "unsent" /\ ask'[s] = ask[s]
  BY <1>3, GoesOnMoves DEF Running
<1>4. ASSUME NEW c \in Calls, CallGoesOn(c)
      PROVE  pc'[s] # "unsent" /\ ask'[s] = ask[s]
  BY <1>4 DEF CallGoesOn, CallReadsConnection, CallReadsSource, CallResolves, CallSends, request
<1>5. CASE Crash \/ Restart \/ UNCHANGED vars
  BY <1>5 DEF Crash, Restart, request, vars
<1> QED
  BY <1>1, <1>2, <1>3, <1>4, <1>5, StepsByKind

\* Only a batch writes rows, those of its own namespace.
LEMMA RowsAreHeld ==
  ASSUME TypeOK, Chain, [Next]_vars, NEW n \in Namespaces, rows'[n] # rows[n]
  PROVE  \E r \in Requests : Commit(r) /\ Ns(r) = n
<1> USE DEF TypeOK
<1>1. ASSUME NEW r \in Requests, GoesOn(r), ~Commit(r)
      PROVE  rows' = rows
  BY <1>1 DEF GoesOn, Provision, Revalidate, Reveal, Fetch, FetchAnswered, CommitConflicts,
     ReadBack, StoreFails, RefreshReads, RefreshReadFails, Publish, PublishFails
<1>2. ASSUME ~ \E r \in Requests : GoesOn(r)
      PROVE  rows' = rows
  BY <1>2, StepsByKind DEF Arrive, Enter, Release, CallGoesOn, CallReadsConnection,
     CallReadsSource, CallResolves, CallSends, Crash, Restart, vars
<1>3. PICK r \in Requests : Commit(r)
  BY <1>1, <1>2
<1> QED
  BY <1>3 DEF Commit

LEMMA NobodyElseWrites ==
  ASSUME TypeOK, Chain, [Next]_vars, NEW q \in Requests, pc[q] \in Running, ~Commit(q)
  PROVE  rows'[Ns(q)] = rows[Ns(q)] /\ Ns(q) \in Namespaces
<1>1. Ns(q) \in Namespaces
  BY RequestFacts DEF Chain, Running, Ns
<1>2. ASSUME NEW r \in Requests, Commit(r), Ns(r) = Ns(q)
      PROVE  FALSE
  <2>1. pc[r] \in Running
    BY <1>2 DEF Commit, Running
  <2> QED
    BY <1>2, <2>1, ChainIsALock DEF OneHolder
<1> QED
  BY <1>1, <1>2, RowsAreHeld

-----------------------------------------------------------------------------
(* Urls and credentials *)

LEMMA PairsInit == Init => Pairs
BY ValueFacts DEF Init, Pairs, Filed, Supplies, Fetching

\* How a handler comes to a step between its decision and its batch.
LEMMA WhoFetches ==
  ASSUME TypeOK, [Next]_vars, NEW q \in Requests, pc'[q] \in Fetching
  PROVE  \/ Provision(q) \/ Revalidate(q) \/ Reveal(q)
         \/ /\ pc[q] \in Fetching /\ plan'[q] = plan[q]
            /\ pc'[q] = "revealing" <=> pc[q] = "revealing"
<1> USE DEF TypeOK, Fetching, Goes, Answer
<1>1. ASSUME NEW r \in Requests, NEW a \in Asks[r], Arrive(r, a)
      PROVE  pc[q] \in Fetching /\ plan'[q] = plan[q] /\ pc'[q] = pc[q]
  BY <1>1 DEF Arrive
<1>2. ASSUME NEW r \in Requests, Enter(r) \/ Release(r)
      PROVE  pc[q] \in Fetching /\ plan'[q] = plan[q] /\ pc'[q] = pc[q]
  BY <1>2 DEF Enter, Release
<1>3. ASSUME NEW r \in Requests, GoesOn(r), r # q
      PROVE  pc[q] \in Fetching /\ plan'[q] = plan[q] /\ pc'[q] = pc[q]
  <2>1. pc'[q] = pc[q]
    BY <1>3, GoesOnMoves
  <2>2. plan'[q] = plan[q]
    BY <1>3 DEF GoesOn, Provision, Revalidate, Proceeds, Reveal, Fetch, FetchAnswered, Commit,
       CommitConflicts, ReadBack, StoreFails, RefreshReads, RefreshReadFails, Publish, PublishFails
  <2> QED
    BY <2>1, <2>2
<1>4. CASE GoesOn(q)
  BY <1>4 DEF GoesOn, Fetch, FetchAnswered, Commit, CommitConflicts, ReadBack, StoreFails,
     RefreshReads, RefreshReadFails, Publish, PublishFails
<1>5. ASSUME NEW c \in Calls, CallGoesOn(c)
      PROVE  pc[q] \in Fetching /\ plan'[q] = plan[q] /\ pc'[q] = pc[q]
  BY <1>5 DEF CallGoesOn, CallReadsConnection, CallReadsSource, CallResolves, CallSends, request
<1>6. CASE Crash
  BY <1>6 DEF Crash, Active, Running
<1>7. CASE Restart \/ UNCHANGED vars
  BY <1>7 DEF Restart, request, vars
<1> QED
  BY <1>1, <1>2, <1>3, <1>4, <1>5, <1>6, <1>7, StepsByKind

\* A decision that goes on to a fetch has the url right.
LEMMA DecisionIsSound ==
  ASSUME TypeOK, Chain, Pairs, NEW r \in Requests, Provision(r) \/ Revalidate(r),
         pc'[r] \in Fetching
  PROVE  Planned(r)'
<1> USE DEF TypeOK
<1>0. /\ ask[r] \in AllAsks /\ Ns(r) \in Namespaces /\ pc[r] = "deciding"
      /\ ask' = ask /\ rows' = rows /\ Row(r)' = Row(r) /\ Ns(r)' = Ns(r)
      /\ HasFreshSecret(r)' = HasFreshSecret(r) /\ ClearsCredential(r)' = ClearsCredential(r)
  BY RequestFacts DEF Provision, Revalidate, Chain, Ns, Row, HasFreshSecret, ClearsCredential
<1>1. Filed(Ns(r)) /\ Row(r) = rows[Ns(r)]
  BY <1>0 DEF Pairs, Row
<1>2. ASSUME NEW url \in Urls, NEW prefix \in Prefixes, NEW reveal, Proceeds(r, url, prefix, reveal),
             HasFreshSecret(r) => url = ask[r].url,
             ~HasFreshSecret(r) /\ ~ClearsCredential(r) /\ Row(r).ref => Row(r).location = url,
             reveal => ~HasFreshSecret(r) /\ Row(r).location = url
      PROVE  Planned(r)'
  <2>1. /\ plan'[r] = [url |-> url, prefix |-> prefix, auth |-> IF HasFreshSecret(r) THEN r ELSE Nothing,
                       onFile |-> Row(r).ref, tools |-> Nothing, tries |-> 0]
        /\ pc'[r] = IF reveal THEN "revealing" ELSE "fetching"
    BY <1>2 DEF Proceeds, Goes
  <2>2. /\ plan'[r].url = url /\ plan'[r].prefix = prefix /\ plan'[r].onFile = Row(r).ref
        /\ plan'[r].auth = IF HasFreshSecret(r) THEN r ELSE Nothing
    BY <2>1
  <2>3. Supplies(plan[r].auth, plan[r].url)'
    BY <1>0, <1>2, <2>1, <2>2, RequestFacts DEF Supplies
  <2> QED
    BY <1>0, <1>2, <2>1, <2>2, <2>3 DEF Planned
<1>3. CASE Provision(r)
  <2>1. /\ ask[r].kind = "provision" /\ ask[r].prefix \in Prefixes
        /\ ask[r].secret \in BOOLEAN /\ ask[r].replace \in BOOLEAN /\ ask[r].clear \in BOOLEAN
        /\ Valid(ask[r]) => ask[r].url \in Urls
    BY <1>0, <1>3 DEF Provision, AllAsks, Valid
  <2>2. ~Refuses(ask[r])
    BY <1>3 DEF Provision, Answer, Goes, Fetching
  <2>3. ~ask[r].secret /\ ~ask[r].clear /\ Row(r).ref => Row(r).location = ask[r].url
    <3> SUFFICES ASSUME ~ask[r].secret, ~ask[r].clear, Row(r).ref, Row(r).location # ask[r].url
                 PROVE  FALSE
      OBVIOUS
    <3>1. Row(r) # Absent
      BY <1>1, ValueFacts
    <3>2. ask[r].replace
      BY <1>1, <2>2, <3>1 DEF Refuses, IsRetarget, Ns
    <3> QED
      BY <1>1, <2>2, <3>2 DEF Refuses, WouldCarryCredential, UrlUnchanged, Ns
  <2> HIDE DEF TypeOK
  <2>4. Proceeds(r, ask[r].url, ask[r].prefix, ~ask[r].secret /\ UrlUnchanged(ask[r]) /\ Row(r).ref)
    BY <1>3, <2>2 DEF Provision
  <2>5. UrlUnchanged(ask[r]) => Row(r).location = ask[r].url
    BY <1>1 DEF UrlUnchanged, Ns
  <2> QED
    BY <1>2, <2>1, <2>2, <2>3, <2>4, <2>5 DEF HasFreshSecret, ClearsCredential, Refuses
<1>4. CASE Revalidate(r)
  <2>1. Row(r) # Absent /\ Proceeds(r, Row(r).location, Row(r).prefix, Row(r).ref)
    BY <1>4 DEF Revalidate, Answer, Goes, Fetching
  <2>2. ask[r].kind = "revalidate"
    BY <1>4 DEF Revalidate
  <2> QED
    BY <1>0, <1>2, <2>1, <2>2, RowFacts DEF HasFreshSecret, Row
<1> QED
  BY <1>3, <1>4

\* Every handler between its decision and its batch.
LEMMA PlansHold ==
  ASSUME TypeOK, Chain, Pairs, [Next]_vars, NEW q \in Requests, pc'[q] \in Fetching
  PROVE  Planned(q)'
<1> USE DEF TypeOK
<1>1. CASE Provision(q) \/ Revalidate(q)
  BY <1>1, DecisionIsSound
<1>2. CASE ~(Provision(q) \/ Revalidate(q))
  <2>1. pc[q] \in Fetching /\ ~Commit(q)
    BY <1>2, WhoFetches DEF Reveal, Fetching, Commit, Goes
  <2>2. pc[q] \in Running /\ pc[q] # "unsent" /\ Planned(q)
    BY <2>1 DEF Fetching, Running, Pairs
  <2>3. Row(q)' = Row(q) /\ ask'[q] = ask[q] /\ Ns(q) \in Namespaces
    BY <2>1, <2>2, NobodyElseWrites, AsksStand DEF Row, Ns
  <2>4. HasFreshSecret(q)' = HasFreshSecret(q) /\ ClearsCredential(q)' = ClearsCredential(q)
    BY <2>3 DEF HasFreshSecret, ClearsCredential
  <2>5. CASE Reveal(q)
    <3>1. /\ plan'[q].url = plan[q].url /\ plan'[q].prefix = plan[q].prefix
          /\ plan'[q].onFile = plan[q].onFile /\ plan'[q].auth = Row(q).secret
          /\ pc[q] = "revealing" /\ pc'[q] = "fetching"
      BY <2>5 DEF Reveal, Goes, Plans
    <3>2. Supplies(Row(q).secret, Row(q).location) /\ Row(q).secret \in Requests \union {Nothing}
      BY <2>3, RowFacts DEF Pairs, Filed, Row
    <3>3. Supplies(plan[q].auth, plan[q].url)'
      BY <2>2, <3>1, <3>2, AsksStand DEF Planned, Supplies
    <3> QED
      BY <2>2, <2>3, <2>4, <3>1, <3>3 DEF Planned
  <2>6. CASE ~Reveal(q)
    <3>1. plan'[q] = plan[q] /\ (pc'[q] = "revealing" <=> pc[q] = "revealing")
      BY <1>2, <2>6, WhoFetches
    <3>2. plan[q].auth \in Requests \union {Nothing}
      BY DEF Plans
    <3>3. Supplies(plan[q].auth, plan[q].url) => Supplies(plan[q].auth, plan[q].url)'
      BY <3>1, <3>2, AsksStand DEF Supplies
    <3> QED
      BY <2>2, <2>3, <2>4, <3>1, <3>3 DEF Planned
  <2> QED
    BY <2>5, <2>6
<1> QED
  BY <1>1, <1>2

LEMMA FilesHold ==
  ASSUME TypeOK, Chain, Pairs, [Next]_vars, NEW n \in Namespaces
  PROVE  Filed(n)'
<1> USE DEF TypeOK
<1>1. CASE rows'[n] = rows[n]
  <2>1. rows[n].secret \in Requests \union {Nothing} /\ Filed(n)
    BY RowFacts DEF Pairs
  <2> QED
    BY <1>1, <2>1, AsksStand DEF Filed, Supplies
<1>2. CASE rows'[n] # rows[n]
  <2>1. PICK r \in Requests : Commit(r) /\ Ns(r) = n
    BY <1>2, RowsAreHeld
  <2>2. /\ rows'[n].location = plan[r].url /\ rows'[n].ref = Resolved(r).ref
        /\ rows'[n].secret = Resolved(r).secret
        /\ pc[r] = "committing"
    BY <2>1 DEF Commit
  <2>3. Planned(r) /\ Filed(n) /\ Row(r) = rows[n]
    BY <2>1, <2>2 DEF Pairs, Fetching, Row
  <2>4. Resolved(r).ref <=> Resolved(r).secret # Nothing
    BY <2>3, RequestFacts DEF Resolved, Planned, Filed
  <2>5. Resolved(r).secret \in Requests \union {Nothing}
    BY <2>3, RowFacts DEF Resolved
  <2>6. Supplies(Resolved(r).secret, plan[r].url)
    <3>1. CASE ClearsCredential(r)
      BY <2>3, <3>1 DEF Resolved, Planned, Filed, Supplies
    <3>2. CASE ~ClearsCredential(r) /\ HasFreshSecret(r)
      BY <2>2, <2>3, <3>2 DEF Resolved, Planned, Supplies
    <3>3. CASE ~ClearsCredential(r) /\ ~HasFreshSecret(r)
      BY <2>3, <3>3 DEF Resolved, Planned, Filed, Supplies
    <3> QED
      BY <3>1, <3>2, <3>3
  <2>7. Supplies(rows[n].secret, rows[n].location)'
    BY <2>2, <2>5, <2>6, AsksStand DEF Supplies
  <2> QED
    BY <2>2, <2>4, <2>7 DEF Filed
<1> QED
  BY <1>1, <1>2

LEMMA WhatIsSent ==
  ASSUME TypeOK, Pairs, [Next]_vars, NEW m \in sent', m.by \in Requests
  PROVE  /\ m.secret \in Requests \union {Nothing}
         /\ Supplies(m.secret, m.to)
<1> USE DEF TypeOK
<1>1. CASE m \in sent
  BY <1>1 DEF Pairs
<1>2. ASSUME NEW r \in Requests, Fetch(r), m \notin sent
      PROVE  m.secret \in Requests \union {Nothing} /\ Supplies(m.secret, m.to)
  <2>1. m.secret = plan[r].auth /\ m.to = plan[r].url /\ pc[r] = "fetching"
    BY <1>2 DEF Fetch
  <2> QED
    BY <2>1 DEF Pairs, Planned, Fetching, Plans
<1>3. ASSUME NEW c \in Calls, CallSends(c), m \notin sent
      PROVE  FALSE
  BY <1>3, CallsAssumption DEF CallSends
<1>4. CASE sent' = sent
  BY <1>1, <1>4
<1>5. \/ sent' = sent \/ (\E r \in Requests : Fetch(r)) \/ \E c \in Calls : CallSends(c)
  BY StepsByKind DEF Arrive, Enter, Release, GoesOn, Provision, Revalidate, Reveal, FetchAnswered,
     Commit, CommitConflicts, ReadBack, StoreFails, RefreshReads, RefreshReadFails, Publish,
     PublishFails, CallGoesOn, CallReadsConnection, CallReadsSource, CallResolves, Crash, Restart, vars
<1> QED
  BY <1>1, <1>2, <1>3, <1>4, <1>5

LEMMA PairsNext ==
  ASSUME TypeOK, Chain, Pairs, [Next]_vars
  PROVE  Pairs'
<1>1. \A m \in sent' : m.by \in Requests => Supplies(m.secret, m.to)'
  BY WhatIsSent, AsksStand DEF Supplies
<1> QED
  BY <1>1, PlansHold, FilesHold DEF Pairs

-----------------------------------------------------------------------------
(* Tool calls *)

LEMMA ReadingInit == Init => Reading
BY DEF Init, Reading

\* No row is ever taken away.
LEMMA RowsStay ==
  ASSUME TypeOK, Chain, Pairs, [Next]_vars, NEW n \in Namespaces, rows[n] # Absent
  PROVE  rows'[n] # Absent
<1>1. CASE rows'[n] # rows[n]
  <2>1. PICK r \in Requests : Commit(r) /\ Ns(r) = n
    BY <1>1, RowsAreHeld
  <2>2. plan[r].url \in Urls
    BY <2>1 DEF Commit, Pairs, Planned, Fetching
  <2>3. rows'[n].location = plan[r].url
    BY <2>1 DEF Commit, TypeOK
  <2> QED
    BY <2>2, <2>3, ValueFacts
<1> QED
  BY <1>1

LEMMA ReadingNext ==
  ASSUME TypeOK, Chain, Pairs, Reading, [Next]_vars
  PROVE  Reading'
<1> USE DEF TypeOK
<1>1. ASSUME NEW c \in Calls, CallGoesOn(c)
      PROVE  Reading'
  <2>0. rows' = rows
    BY <1>1 DEF CallGoesOn, CallReadsConnection, CallReadsSource, CallResolves, CallSends
  <2>1. ASSUME NEW d \in Calls, d # c
        PROVE  callPC'[d] = callPC[d] /\ held'[d] = held[d]
    BY <1>1, <2>1 DEF CallGoesOn, CallReadsConnection, CallReadsSource, CallResolves, CallSends
  <2>2. /\ callPC'[c] \in {"source", "credentials"} =>
             held'[c].ns \in Namespaces /\ rows'[held'[c].ns] # Absent
        /\ callPC'[c] \in {"credentials", "sending"} => held'[c].url \in Urls
    <3>1. ASSUME NEW n \in Namespaces, CallReadsConnection(c, n)
          PROVE  callPC'[c] = "source" /\ held'[c].ns = n /\ rows[n] # Absent
      BY <3>1 DEF CallReadsConnection
    <3>2. CASE CallReadsSource(c)
      <4>1. held[c].ns \in Namespaces /\ rows[held[c].ns] # Absent
        BY <3>2 DEF CallReadsSource, Reading
      <4>2. callPC'[c] = "credentials" /\ held'[c].ns = held[c].ns
            /\ held'[c].url = rows[held[c].ns].location
        BY <3>2 DEF CallReadsSource
      <4> QED
        BY <2>0, <4>1, <4>2, RowFacts
    <3>3. CASE CallResolves(c)
      <4>1. held[c].url \in Urls
        BY <3>3 DEF CallResolves, Reading
      <4>2. callPC'[c] \in {"sending", "done"} /\ held'[c].url = held[c].url
        BY <3>3 DEF CallResolves
      <4> QED
        BY <4>1, <4>2
    <3>4. CASE CallSends(c)
      BY <3>4 DEF CallSends
    <3> QED
      BY <1>1, <2>0, <3>1, <3>2, <3>3, <3>4 DEF CallGoesOn
  <2> QED
    BY <2>0, <2>1, <2>2 DEF Reading
<1>2. CASE Crash
  BY <1>2 DEF Crash, Reading
<1>3. CASE UNCHANGED <<callPC, held>>
  BY <1>3, RowsStay DEF Reading
<1>4. ASSUME NEW r \in Requests, GoesOn(r)
      PROVE  UNCHANGED <<callPC, held>>
  BY <1>4, GoesOnMoves
<1>5. ASSUME ~Crash, ~ \E c \in Calls : CallGoesOn(c), ~ \E r \in Requests : GoesOn(r)
      PROVE  UNCHANGED <<callPC, held>>
  BY <1>5, StepsByKind DEF Arrive, Enter, Release, Restart, call, vars
<1> QED
  BY <1>1, <1>2, <1>3, <1>4, <1>5

-----------------------------------------------------------------------------
(* The served catalog *)

LEMMA ServedInit == Init => Served
BY ValueFacts DEF Init, Served, Refreshing

\* How a handler comes to its refresh, and what it has read.
LEMMA WhoRefreshes ==
  ASSUME TypeOK, [Next]_vars, NEW q \in Requests, pc'[q] \in Refreshing
  PROVE  /\ Commit(q) \/ pc[q] \in Refreshing
         /\ pc'[q] = "publishing" => RefreshReads(q) \/ (pc[q] = "publishing" /\ plan'[q] = plan[q])
<1> USE DEF TypeOK, Refreshing, Goes, Answer
<1>1. ASSUME NEW r \in Requests, (\E a \in Asks[r] : Arrive(r, a)) \/ Enter(r) \/ Release(r)
      PROVE  pc[q] \in Refreshing /\ plan'[q] = plan[q] /\ pc'[q] = pc[q]
  BY <1>1 DEF Arrive, Enter, Release
<1>2. ASSUME NEW r \in Requests, GoesOn(r), r # q
      PROVE  pc[q] \in Refreshing /\ plan'[q] = plan[q] /\ pc'[q] = pc[q]
  <2>1. pc'[q] = pc[q]
    BY <1>2, GoesOnMoves
  <2>2. plan'[q] = plan[q]
    BY <1>2 DEF GoesOn, Provision, Revalidate, Proceeds, Reveal, Fetch, FetchAnswered, Commit,
       CommitConflicts, ReadBack, StoreFails, RefreshReads, RefreshReadFails, Publish, PublishFails
  <2> QED
    BY <2>1, <2>2
<1>3. CASE GoesOn(q)
  BY <1>3 DEF GoesOn, Provision, Revalidate, Proceeds, Reveal, Fetch, FetchAnswered, Commit,
     CommitConflicts, ReadBack, StoreFails, RefreshReads, RefreshReadFails, Publish, PublishFails
<1>4. ASSUME NEW c \in Calls, CallGoesOn(c)
      PROVE  pc[q] \in Refreshing /\ plan'[q] = plan[q] /\ pc'[q] = pc[q]
  BY <1>4 DEF CallGoesOn, CallReadsConnection, CallReadsSource, CallResolves, CallSends, request
<1>5. CASE Crash
  BY <1>5 DEF Crash, Active, Running
<1>6. CASE Restart \/ UNCHANGED vars
  BY <1>6 DEF Restart, request, vars
<1> QED
  BY <1>1, <1>2, <1>3, <1>4, <1>5, <1>6, StepsByKind

\* Only a refresh changes the catalog of a running daemon.
LEMMA WhoPublishes ==
  ASSUME TypeOK, [Next]_vars, NEW n \in Namespaces, catalog'[n] # catalog[n]
  PROVE  \/ Crash \/ Restart
         \/ \E r \in Requests : Ns(r) = n /\ (Publish(r) \/ PublishFails(r))
<1> USE DEF TypeOK
<1>1. ASSUME NEW r \in Requests, GoesOn(r), ~Publish(r), ~PublishFails(r)
      PROVE  catalog' = catalog
  BY <1>1 DEF GoesOn, Provision, Revalidate, Reveal, Fetch, FetchAnswered, Commit,
     CommitConflicts, ReadBack, StoreFails, RefreshReads, RefreshReadFails
<1>2. ASSUME ~Crash, ~Restart, ~ \E r \in Requests : GoesOn(r)
      PROVE  catalog' = catalog
  BY <1>2, StepsByKind DEF Arrive, Enter, Release, CallGoesOn, CallReadsConnection,
     CallReadsSource, CallResolves, CallSends, vars
<1>3. CASE \E r \in Requests : Publish(r) \/ PublishFails(r)
  BY <1>3 DEF Publish, PublishFails
<1> QED
  BY <1>1, <1>2, <1>3

\* What was answered or logged is not taken back, and a handler leaves its
\* refresh with the catalog made good or with one of the two.
LEMMA BlameStands ==
  ASSUME TypeOK, Deeds, [Next]_vars, up', ~Restart, NEW w \in Requests
  PROVE  /\ answer[w] = "fault" => answer'[w] = "fault"
         /\ w \in reported => w \in reported'
         /\ pc[w] \in Refreshing =>
              \/ pc'[w] \in Refreshing \/ answer'[w] = "fault" \/ w \in reported'
              \/ Publish(w)
<1>0. ASSUME NEW r \in Requests, GoesOn(r), r # w
      PROVE  pc'[w] = pc[w]
  <2>1. PICK step \in Running : pc' = [pc EXCEPT ![r] = step]
    BY <1>0, GoesOnMoves
  <2> QED
    BY <1>0, <2>1 DEF TypeOK
<1> USE DEF TypeOK, Refreshing, Goes, Answer, history
<1>1. ASSUME NEW r \in Requests, (\E a \in Asks[r] : Arrive(r, a)) \/ Enter(r) \/ Release(r)
      PROVE  /\ answer' = answer /\ reported' = reported
             /\ pc[w] \in Refreshing => pc'[w] = pc[w]
  BY <1>1 DEF Arrive, Enter, Release
<1>2. ASSUME NEW r \in Requests, GoesOn(r), r # w
      PROVE  pc'[w] = pc[w] /\ answer'[w] = answer[w] /\ (w \in reported' <=> w \in reported)
  <2>1. pc'[w] = pc[w]
    BY <1>0, <1>2
  <2>2. answer'[w] = answer[w] /\ (w \in reported' <=> w \in reported)
    BY <1>2 DEF GoesOn, Provision, Revalidate, Proceeds, Reveal, Fetch, FetchAnswered, Commit,
       CommitConflicts, ReadBack, StoreFails, RefreshReads, RefreshReadFails, Publish, PublishFails
  <2> QED
    BY <2>1, <2>2
<1>3. CASE GoesOn(w)
  <2>1. answer[w] = "none"
    BY <1>3, GoesOnMoves DEF Deeds, Uncommitted, Running
  <2>2. w \in reported => w \in reported'
    BY <1>3 DEF GoesOn, Provision, Revalidate, Proceeds, Reveal, Fetch, FetchAnswered, Commit,
       CommitConflicts, ReadBack, StoreFails, RefreshReads, RefreshReadFails, Publish, PublishFails
  <2>3. pc[w] \in Refreshing =>
          \/ pc'[w] \in Refreshing \/ answer'[w] = "fault" \/ w \in reported' \/ Publish(w)
    BY <1>3 DEF GoesOn, Provision, Revalidate, Reveal, Fetch, FetchAnswered, Commit,
       CommitConflicts, ReadBack, StoreFails, RefreshReads, RefreshReadFails, PublishFails
  <2> QED
    BY <2>1, <2>2, <2>3
<1>4. ASSUME NEW c \in Calls, CallGoesOn(c)
      PROVE  UNCHANGED <<pc, answer, reported>>
  BY <1>4 DEF CallGoesOn, CallReadsConnection, CallReadsSource, CallResolves, CallSends, request
<1>5. ~Crash
  BY DEF Crash
<1>6. CASE UNCHANGED vars
  BY <1>6 DEF vars, request
<1> QED
  BY <1>1, <1>2, <1>3, <1>4, <1>5, <1>6, StepsByKind

LEMMA ServedNext ==
  ASSUME TypeOK, Chain, Deeds, Pairs, Served, [Next]_vars
  PROVE  Served'
<1> USE DEF TypeOK
<1>1. ASSUME NEW q \in Requests, pc'[q] \in Refreshing
      PROVE  Row(q)' = rows'[Ns(q)] /\ Row(q)'.tools = q
  <2>1. CASE Commit(q)
    <3>1. Ns(q)' = Ns(q) /\ Ns(q) \in Namespaces
      BY <2>1, RequestFacts DEF Commit, chain, Chain, Ns
    <3>2. rows'[Ns(q)].tools = q
      BY <2>1, <3>1 DEF Commit
    <3> QED
      BY <3>1, <3>2 DEF Row
  <2>2. CASE ~Commit(q)
    <3>1. pc[q] \in Refreshing /\ pc[q] \in Running /\ pc[q] # "unsent"
      BY <1>1, <2>2, WhoRefreshes DEF Refreshing, Running
    <3>2. rows'[Ns(q)] = rows[Ns(q)] /\ Ns(q)' = Ns(q)
      BY <2>2, <3>1, NobodyElseWrites, AsksStand DEF Ns
    <3> QED
      BY <3>1, <3>2 DEF Served, Row
  <2> QED
    BY <2>1, <2>2
<1>2. ASSUME NEW q \in Requests, pc'[q] = "publishing"
      PROVE  plan'[q].tools = q
  <2>1. CASE RefreshReads(q)
    <3>1. plan'[q].tools = Row(q).tools /\ pc[q] \in Refreshing
      BY <2>1 DEF RefreshReads, Refreshing, Plans
    <3> QED
      BY <3>1 DEF Served
  <2>2. CASE ~RefreshReads(q)
    BY <1>2, <2>2, WhoRefreshes DEF Refreshing, Served
  <2> QED
    BY <2>1, <2>2
<1>3. ASSUME NEW n \in Namespaces, rows'[n].tools # Nothing
      PROVE  pc'[rows'[n].tools] # "unsent" /\ Ns(rows[n].tools)' = n
  <2>1. CASE rows'[n] = rows[n]
    <3>1. rows[n].tools \in Requests /\ pc[rows[n].tools] # "unsent" /\ Ns(rows[n].tools) = n
      BY <1>3, <2>1, RowFacts DEF Served
    <3> QED
      BY <2>1, <3>1, AsksStand DEF Ns
  <2>2. CASE rows'[n] # rows[n]
    <3>1. PICK r \in Requests : Commit(r) /\ Ns(r) = n
      BY <2>2, RowsAreHeld
    <3>2. rows'[n].tools = r /\ pc'[r] = "readback" /\ ask' = ask
      BY <3>1 DEF Commit, Goes
    <3> QED
      BY <3>1, <3>2 DEF Ns
  <2> QED
    BY <2>1, <2>2
<1>4. ASSUME NEW n \in Namespaces, up', catalog'[n] # rows'[n].tools
      PROVE  /\ rows'[n].tools \in Requests
             /\ \/ pc'[rows'[n].tools] \in Refreshing \/ answer'[rows'[n].tools] = "fault"
                \/ rows'[n].tools \in reported'
  <2>1. ~Crash /\ ~Restart
    BY <1>4 DEF Crash, Restart
  <2>2. ASSUME NEW r \in Requests, Publish(r), Ns(r) = n
        PROVE  FALSE
    <3>1. catalog'[n] = plan[r].tools /\ rows' = rows /\ pc[r] = "publishing"
      BY <2>2 DEF Publish
    <3> QED
      BY <1>4, <2>2, <3>1 DEF Served, Row, Refreshing
  <2>3. ASSUME NEW r \in Requests, PublishFails(r), Ns(r) = n
        PROVE  rows'[n].tools = r /\ r \in reported'
    BY <2>3 DEF PublishFails, Served, Row, Refreshing
  <2>4. ASSUME NEW r \in Requests, Commit(r), Ns(r) = n
        PROVE  rows'[n].tools = r /\ pc'[r] \in Refreshing
    BY <2>4 DEF Commit, Goes, Refreshing
  <2>5. CASE rows'[n] = rows[n] /\ catalog'[n] = catalog[n]
    <3>1. up
      BY <1>4, <2>1, StepsByKind, GoesOnMoves DEF Arrive, Enter, Release, CallGoesOn,
         CallReadsConnection, CallReadsSource, CallResolves, CallSends, world, vars
    <3> DEFINE w == rows[n].tools
    <3>2. w \in Requests /\ (pc[w] \in Refreshing \/ answer[w] = "fault" \/ w \in reported)
      BY <1>4, <2>5, <3>1 DEF Served
    <3>3. Ns(w) = n
      BY <3>2, RequestFacts DEF Served
    <3> QED
      BY <1>4, <2>1, <2>2, <2>5, <3>2, <3>3, BlameStands
  <2>6. CASE rows'[n] # rows[n]
    BY <2>4, <2>6, RowsAreHeld
  <2>7. CASE catalog'[n] # catalog[n]
    BY <2>1, <2>2, <2>3, <2>7, WhoPublishes
  <2> QED
    BY <2>5, <2>6, <2>7
<1> QED
  BY <1>1, <1>2, <1>3, <1>4 DEF Served

-----------------------------------------------------------------------------
(* Theorems *)

LEMMA Inductive == IInv /\ [Next]_vars => IInv'
BY TypeNext, ChainNext, DeedsNext, AnswersNext, PairsNext, ReadingNext, ServedNext DEF IInv

\* The conjunction above holds in every reachable state.
THEOREM Invariance == Spec => []IInv
<1>1. Init => IInv
  <2>1. Init => AnswersAreTrue
    BY DEF Init, AnswersAreTrue
  <2> QED
    BY <2>1, TypeInit, ChainInit, DeedsInit, PairsInit, ReadingInit, ServedInit DEF IInv
<1> QED
  BY <1>1, Inductive, PTL DEF Spec

\* Every reachable state of the provisioning daemon is well typed.
THEOREM TypeCorrect == Spec => []TypeOK
BY Invariance, PTL DEF IInv

\* SourceLock lets one handler of a namespace run at a time, however many
\* requests queue up behind it, whether they are refused, throw or succeed.
THEOREM LockExcludes == Spec => []OneHolder
<1>1. IInv => OneHolder
  BY ChainIsALock DEF IInv
<1> QED
  BY <1>1, Invariance, PTL

\* A stored credential is on file, and goes out in an onboarding fetch, only with
\* the url it was supplied for.
THEOREM PairsHold == Spec => []PairsAreSupplied
<1>1. IInv => PairsAreSupplied
  BY DEF IInv, Pairs, Filed, Supplies, PairsAreSupplied, StoredPair
<1> QED
  BY <1>1, Invariance, PTL

\* "Refused" is answered only when nothing was written, "seeded" only when all was.
THEOREM AnswersHold == Spec => []AnswersAreTrue
BY Invariance, PTL DEF IInv

\* refreshNamespace() and its callers: where the served catalog is not the stored one,
\* the handler of the batch that is stored is still on its way to refreshing it, or
\* failed: its client heard of an internal error (the read-back after the commit threw,
\* and nothing was refreshed), or the log says that the refresh was given up.
THEOREM CatalogHolds == Spec => []CatalogFollowsStore
<1>1. IInv => CatalogFollowsStore
  BY DEF IInv, Served, Refreshing, CatalogFollowsStore
<1> QED
  BY <1>1, Invariance, PTL

=============================================================================
