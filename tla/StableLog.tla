------------------------------ MODULE StableLog ------------------------------
(***************************************************************************)
(* What `bill_events` promises its readers, as an abstract log: a mark     *)
(* that only rises, and a set of entries at or below it that only grows    *)
(* above the old mark.  A reader whose cursor stands at the mark has       *)
(* missed nothing and never will have.                                     *)
(***************************************************************************)
EXTENDS Integers

CONSTANT MaxSeq

VARIABLES mark, entries

Init ==
    /\ mark = 0
    /\ entries = {}

\* The mark moves to m, revealing the entries of more, all of them above it.
Advance(m, more) ==
    /\ mark' = m
    /\ entries' = entries \cup more

Next ==
    \E m \in (mark + 1)..MaxSeq : \E more \in SUBSET ((mark + 1)..m) : Advance(m, more)

Spec == Init /\ [][Next]_<<mark, entries>>
=============================================================================
