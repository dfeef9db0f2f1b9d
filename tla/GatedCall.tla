------------------------------ MODULE GatedCall ------------------------------
(***************************************************************************)
(* What Conduit promises about one governed tool call, with no store, no   *)
(* timers and no attempts in sight.                                        *)
(*                                                                         *)
(* A call is written to the upstream at most once, and only while its gate *)
(* is open (policy allowed it outright) or granted (an operator approved   *)
(* it).  Whatever Conduit tells anybody about the call is then true, and   *)
(* stays true: "ran" is only said of a call that was written, and once     *)
(* "didNotRun" has been said the call is never written afterwards.  Having *)
(* said nothing, or "the outcome is ambiguous", commits to neither.        *)
(*                                                                         *)
(* DirectExecution.tla implements this specification for the one call of   *)
(* an execution, CodeExecution.tla for every call of a script.             *)
(***************************************************************************)

VARIABLES
  gate,   \* "open", "waiting" for an operator, "granted" or "closed"
  sent,   \* the call's body was handed to the upstream's transport
  told    \* what Conduit has committed to so far: {}, {"ran"}, {"didNotRun"}

callVars == <<gate, sent, told>>

Claims == {"ran", "didNotRun"}

CallTypeOK ==
  /\ gate \in {"open", "waiting", "granted", "closed"}
  /\ sent \in BOOLEAN
  /\ told \subseteq Claims

CallInit ==
  /\ gate = "open"
  /\ sent = FALSE
  /\ told = {}

\* The body is written: once, under authority, and against no promise.
Send ==
  /\ gate \in {"open", "granted"}
  /\ ~sent
  /\ "didNotRun" \notin told
  /\ sent' = TRUE
  /\ UNCHANGED <<gate, told>>

\* Policy asks for an operator before anything was written.
AskOperator ==
  /\ gate = "open"
  /\ ~sent
  /\ gate' = "waiting"
  /\ UNCHANGED <<sent, told>>

\* The operator answers the one pending question: to let it run, or not.
OperatorAnswers ==
  /\ gate = "waiting"
  /\ gate' \in {"granted", "closed"}
  /\ UNCHANGED <<sent, told>>

\* Conduit speaks, or closes the call for good, or does both at once.
Conclude ==
  /\ \E said \in SUBSET Claims :
       /\ "ran" \in said => sent
       /\ "didNotRun" \in said => ~sent
       /\ told' = told \union said
  /\ gate' \in {gate, "closed"}
  /\ UNCHANGED sent

CallNext == Send \/ AskOperator \/ OperatorAnswers \/ Conclude

CallSpec == CallInit /\ [][CallNext]_callVars

=============================================================================
