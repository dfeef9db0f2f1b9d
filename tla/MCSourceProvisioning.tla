------------------------ MODULE MCSourceProvisioning ------------------------
(* Model checking of SourceProvisioning: the requests that meet each other *)
(* at one namespace, and one of another namespace that wants its prefix.   *)
EXTENDS SourceProvisioning

CONSTANTS n1, n2, u1, u2, p1, p2

Provisioning(n, u, p, secret, replace, clear) ==
  [kind |-> "provision", ns |-> n, url |-> u, prefix |-> p,
   secret |-> secret, replace |-> replace, clear |-> clear]

Onboard == Provisioning(n1, u1, p1, TRUE, FALSE, FALSE)

\* What the second request may be: a re-sync with a new secret, and the retargets
\* to another url: with a secret, without, and dropping the credential.
Rewrites == {
  Onboard,
  Provisioning(n1, u2, p1, TRUE, TRUE, FALSE),
  Provisioning(n1, u2, p1, FALSE, TRUE, FALSE),
  Provisioning(n1, u2, p1, FALSE, TRUE, TRUE) }

\* And the third: the operator's re-sync, and another source that wants the same
\* prefix.
Others == {
  [kind |-> "revalidate", ns |-> n1],
  Provisioning(n2, u1, p1, FALSE, FALSE, FALSE) }

\* The first request onboards a source with a credential.
MCAsks == <<{Onboard}, Rewrites, Others>>

=============================================================================
