------------------------------ MODULE MCCoverage ------------------------------
EXTENDS Coverage, TLC

CONSTANTS b1, v1, v2

One == {b1}
Either == {v1, v2}
Row(table, fact) == [table |-> table, bill |-> b1, fact |-> fact]

\* The one export: a subject, whose key is unique, a companion link, a row of every
\* table that commits by chunks, and two votes that two chunks may part.
First ==
    [bills |-> [b \in One |-> 2],
     votes |-> Either,
     rows |-> {Row("subjects", 1), Row("related", b1), Row("actions", 1), Row("versions", 1), Row("links", 1),
               Row("orphans", 1), Row("records", v1)}]
OfBill == [v \in Either |-> b1]
Exports == <<First>>
Synced == {{Row("actions", 1), Row("versions", 1), Row("orphans", 2)}}
===============================================================================
