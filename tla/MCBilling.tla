------------------------------- MODULE MCBilling -------------------------------
EXTENDS Billing, TLC
Alike == Permutations(Subs) \cup Permutations(Handlers)
=============================================================================
