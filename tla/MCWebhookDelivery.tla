-------------------------- MODULE MCWebhookDelivery --------------------------
(* Two dispatchers are interchangeable as long as nothing is asked of the   *)
(* fairness of either.                                                      *)
EXTENDS WebhookDelivery, TLC

Symmetry == Permutations(Dispatchers)
=============================================================================
