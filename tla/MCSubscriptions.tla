--------------------------- MODULE MCSubscriptions ---------------------------
EXTENDS Subscriptions, TLC
\* Two addresses subscribe for one host; the first tries one url again after it
\* has deleted it.
Urls == <<"u1", "u2", "u1">>
OneHost == [s \in Subs |-> "h"]
TwoCreators == <<"a", "b", "a">>
\* Nothing is asked of the fairness of a request.
Alike == Permutations(Calls)
=============================================================================
