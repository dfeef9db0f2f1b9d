------------------------- MODULE MCUpstreamSession -------------------------
(* Model checking of UpstreamSession: three bindings of one url, of which  *)
(* two are one credential under a name written differently.                *)
EXTENDS UpstreamSession

CONSTANTS b1, b2, b3, u1, Authorization, authorization, secret1, secret2

MCUrl == [b \in Bindings |-> u1]

MCHeaders ==
  [b \in Bindings |->
    CASE b = b1 -> {<<Authorization, secret1>>}
      [] b = b2 -> {<<authorization, secret1>>}
      [] b = b3 -> {<<Authorization, secret2>>}]

MCLower == [n \in {Authorization, authorization} |-> authorization]

=============================================================================
