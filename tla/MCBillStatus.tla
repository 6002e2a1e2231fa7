----------------------------- MODULE MCBillStatus -----------------------------
EXTENDS BillStatus
\* An original, a print of it under its own identifier, and another bill.
Named3 == <<"A1", "A1C", "S2">>
NoSuffix == [i \in Idents |-> IF i = "A1C" THEN "A1" ELSE i]
\* Outcomes of one day, progress of the next, and a substitution of either, whose
\* target may be the print, or must be the other bill.
TwoDays == {[kind |-> "signature", date |-> 1], [kind |-> "death", date |-> 1],
            [kind |-> "referral", date |-> 2],
            [kind |-> "substitution", date |-> 1, by |-> "A1C"],
            [kind |-> "substitution", date |-> 2, by |-> "S2"]}
=============================================================================
