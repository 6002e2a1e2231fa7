---------------------------- MODULE MCRequestLimits ----------------------------
EXTENDS RequestLimits, TLC
PerAddress == [t \in Tiers |-> IF t = "default" THEN 2 ELSE 1]
PerSubnet == [t \in Tiers |-> IF t = "default" THEN 4 ELSE 2]
OneADay == [requests |-> 1, heavy |-> 1]
Alike == Permutations(Requests) \cup Permutations(Addresses)
=============================================================================
