----------------------------- MODULE LogReaders -----------------------------
(***************************************************************************)
(* Two readers of the change log.                                          *)
(*                                                                         *)
(* The webhook dispatcher (the alert mailer reads the same way) computes a *)
(* watermark once per tick and drains the WINDOW (last_seq, watermark]     *)
(* batch by batch.  A client of `/changes` (the Atom feeds filter the same *)
(* way) asks for rows above its cursor, each of which is itself old        *)
(* enough, and keeps the cursor of the last row it was given.              *)
(***************************************************************************)
EXTENDS ChangeLog

CONSTANT PageSize   \* MAX_EVENTS_PER_BATCH, per_page

ASSUME PageAssumption == PageSize \in Nat \ {0}

VARIABLES
    mark,        \* the dispatcher's watermark_seq of this tick
    markAt,      \* ... and its watermark_dt
    lastSeq,     \* the subscription's last_seq
    hookSeen,    \* the seqs delivered to the subscription
    hookLag,     \* lag_seconds of the last payload; 0 before there is one
    feedCursor,  \* next_cursor of the client's last page
    feedSeen     \* the seqs the client was given

hookVars == <<mark, markAt, lastSeq, hookSeen, hookLag>>
feedVars == <<feedCursor, feedSeen>>
vars == <<logVars, hookVars, feedVars>>

TypeOK ==
    /\ LogTypeOK
    /\ mark \in 0..MaxSeq
    /\ markAt \in Instants
    /\ lastSeq \in 0..MaxSeq
    /\ hookSeen \subseteq Seqs
    /\ hookLag \in Instants
    /\ feedCursor \in 0..MaxSeq
    /\ feedSeen \subseteq Seqs

Init ==
    /\ LogInit
    /\ mark = 0 /\ markAt = 0 /\ lastSeq = 0 /\ hookSeen = {} /\ hookLag = 0
    /\ feedCursor = 0 /\ feedSeen = {}

-----------------------------------------------------------------------------
Largest(S) == CHOOSE s \in S : \A t \in S : t <= s

\* ORDER BY seq LIMIT PageSize
FirstPage(S) == {s \in S : Cardinality({t \in S : t < s}) < PageSize}

\* The dispatcher's tick starts: compute_watermark, once for every drain in it.
ComputeWatermark ==
    /\ mark' = Watermark
    /\ markAt' = now
    /\ UNCHANGED <<logVars, lastSeq, hookSeen, hookLag, feedVars>>

\* Mutant: the rows of the window are filtered by age one by one.
DueAgedRowsOnly == {s \in (lastSeq + 1)..Largest(Seqs) : Aged(s)}

\* BillEvent.seq > sub.last_seq, BillEvent.seq <= watermark_seq
DueToHook == {s \in 1..mark : s > lastSeq /\ Committed(s)}

\* Mutant: after a full batch the cursor goes to the watermark at once.
DrainBatchToMark ==
    /\ lastSeq < mark
    /\ hookSeen' = hookSeen \cup FirstPage(DueToHook)
    /\ lastSeq' = mark
    /\ UNCHANGED <<logVars, mark, markAt, hookLag, feedVars>>

\* lag_seconds of a payload: watermark_dt - changed_at of its last row, not
\* below zero.
LagSeconds(batch) ==
    LET last == event[Largest(batch)].at IN
    IF last <= markAt THEN markAt - last ELSE 0

\* Mutant: an empty window takes the cursor one past the watermark.
DrainBatchPastMark ==
    LET batch == FirstPage(DueToHook) IN
    /\ hookSeen' = hookSeen \cup batch
    /\ lastSeq' = IF batch = {} THEN mark + 1 ELSE Largest(batch)
    /\ UNCHANGED <<logVars, mark, markAt, hookLag, feedVars>>

\* One turn of the drain loop whose POST is acknowledged: the batch is
\* delivered and the cursor moves to its last row.  When nothing is left the
\* cursor goes straight to the watermark.
DrainBatch ==
    LET batch == FirstPage(DueToHook) IN
    IF batch = {}
    THEN /\ lastSeq < mark
         /\ lastSeq' = mark
         /\ UNCHANGED <<logVars, mark, markAt, hookSeen, hookLag, feedVars>>
    ELSE /\ hookSeen' = hookSeen \cup batch
         /\ lastSeq' = Largest(batch)
         /\ hookLag' = LagSeconds(batch)
         /\ UNCHANGED <<logVars, mark, markAt, feedVars>>

\* Mutant: rows are served as soon as they are visible.
DueToFeedUnaged == {s \in Seqs : s > feedCursor /\ Committed(s)}

\* GET /changes?cursor=feedCursor
DueToFeed == {s \in Seqs : s > feedCursor /\ Aged(s)}

PollChanges ==
    LET page == FirstPage(DueToFeed) IN
    /\ page # {}
    /\ feedSeen' = feedSeen \cup page
    /\ feedCursor' = Largest(page)
    /\ UNCHANGED <<logVars, hookVars>>

Next ==
    \/ LogNext /\ UNCHANGED <<hookVars, feedVars>>
    \/ ComputeWatermark
    \/ DrainBatch
    \/ PollChanges

Spec == Init /\ [][Next]_vars

\* The dispatcher's timer keeps firing and its loop keeps draining; a
\* transaction ends (the server kills one that idles); time passes.
Fairness ==
    /\ WF_vars(Tick /\ UNCHANGED <<hookVars, feedVars>>)
    /\ \A w \in Writers :
           WF_vars((Commit(w) \/ Rollback(w)) /\ UNCHANGED <<hookVars, feedVars>>)
    /\ WF_vars(ComputeWatermark)
    /\ WF_vars(DrainBatch)

FairSpec == Spec /\ Fairness

-----------------------------------------------------------------------------
\* A subscription's cursor never steps over a change: every seq at or below it
\* is settled, and the visible ones were delivered (_drain_one advancing
\* last_seq to a batch's last row, or straight to the watermark).
HookMissesNothing ==
    \A s \in 1..lastSeq :
        /\ event[s].state \in {"committed", "rolledback"}
        /\ Committed(s) => s \in hookSeen

\* What `/changes` promises its clients: nothing at or below the cursor they
\* were handed is still to come (list_changes: "advancing to 'now' would step
\* them past changes they never received").
FeedMissesNothing ==
    \A s \in 1..feedCursor :
        event[s].state \in {"committed", "open"} => s \in feedSeen

\* What `/changes` does give: a change is stepped over only by one with a higher
\* seq that was stamped earlier, by a transaction that overlapped its own.
FeedSkipsOnlyInversions ==
    \A s \in 1..feedCursor :
        event[s].state \in {"committed", "open"} /\ s \notin feedSeen
            => \E t \in feedSeen : t > s /\ event[t].at < event[s].at

\* A payload's lag_seconds is not below the lag by more than a transaction can
\* last: the window has no age filter of its own (build_delivery_payload).
LagNearFloor == hookSeen # {} => hookLag > Lag - MaxTxn

\* A committed change is delivered to the subscription once it is old enough,
\* whatever the writers around it do (the dispatcher's promise of delivery).
HookServesAll ==
    \A s \in Seqs :
        (Committed(s) /\ event[s].at + Lag <= Horizon) ~> s \in hookSeen
=============================================================================
