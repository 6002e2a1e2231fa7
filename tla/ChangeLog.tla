------------------------------ MODULE ChangeLog ------------------------------
(***************************************************************************)
(* The append-only change log `bill_events` and its commit safety lag.     *)
(*                                                                         *)
(* An ingest transaction appends entries with events.record_event.  An     *)
(* entry's `seq` is taken from the sequence when the row is INSERTed, its  *)
(* `changed_at` is now(), which in PostgreSQL is the time the transaction  *)
(* BEGAN, and the row becomes visible when the transaction COMMITs.  Every *)
(* reader therefore stays behind a watermark Lag seconds old.              *)
(***************************************************************************)
EXTENDS Integers, FiniteSets

CONSTANTS
    Writers,    \* the ingest sessions that may have a transaction open
    MaxTxn,     \* every writing transaction is shorter than this
    Lag,        \* COMMIT_SAFETY_LAG_SECONDS
    MaxSeq,     \* bound: the sequence values a behaviour may draw
    Horizon     \* bound: the last instant of a behaviour

ASSUME LogAssumption ==
    /\ MaxTxn \in Nat \ {0}
    /\ Lag \in Nat
    /\ MaxSeq \in Nat
    /\ Horizon \in Nat

NotOpen == -1   \* began[w] of a session with no transaction

VARIABLES
    now,      \* the database clock
    began,    \* per session: when its open transaction began, or NotOpen
    pending,  \* per session: the seqs its open transaction has inserted
    nextSeq,  \* the sequence's next value
    event     \* per seq: the row's changed_at, and whether it is visible

logVars == <<now, began, pending, nextSeq, event>>

Seqs == 1..MaxSeq
Instants == 0..Horizon
RowStates == {"unused", "open", "committed", "rolledback"}
Row == [state : RowStates, at : Instants]

LogTypeOK ==
    /\ now \in Instants
    /\ began \in [Writers -> Instants \cup {NotOpen}]
    /\ pending \in [Writers -> SUBSET Seqs]
    /\ nextSeq \in 1..(MaxSeq + 1)
    /\ event \in [Seqs -> Row]

LogInit ==
    /\ now = 0
    /\ began = [w \in Writers |-> NotOpen]
    /\ pending = [w \in Writers |-> {}]
    /\ nextSeq = 1
    /\ event = [s \in Seqs |-> [state |-> "unused", at |-> 0]]

-----------------------------------------------------------------------------
IsOpen(w) == began[w] # NotOpen

Begin(w) ==
    /\ ~IsOpen(w)
    /\ began' = [began EXCEPT ![w] = now]
    /\ UNCHANGED <<now, pending, nextSeq, event>>

\* events.record_event, flushed: draws a seq, stamps the transaction's now().
RecordEvent(w) ==
    /\ IsOpen(w)
    /\ nextSeq <= MaxSeq
    /\ event' = [event EXCEPT ![nextSeq] = [state |-> "open", at |-> began[w]]]
    /\ pending' = [pending EXCEPT ![w] = @ \cup {nextSeq}]
    /\ nextSeq' = nextSeq + 1
    /\ UNCHANGED <<now, began>>

\* The rows of w's transaction all take the state s at once.
EndTxn(w, s) ==
    /\ IsOpen(w)
    /\ began' = [began EXCEPT ![w] = NotOpen]
    /\ pending' = [pending EXCEPT ![w] = {}]
    /\ event' = [q \in Seqs |-> IF q \in pending[w] THEN [event[q] EXCEPT !.state = s]
                                                    ELSE event[q]]
    /\ UNCHANGED <<now, nextSeq>>

Commit(w) == EndTxn(w, "committed")

\* A failed job, a deploy, or the server's idle-in-transaction killer.  The
\* sequence values drawn are not given back.
Rollback(w) == EndTxn(w, "rolledback")

\* Mutant: nothing bounds the age of an open transaction.
TickUnbounded ==
    /\ now < Horizon
    /\ now' = now + 1
    /\ UNCHANGED <<began, pending, nextSeq, event>>

\* Time passes; no open transaction reaches the age MaxTxn.
Tick ==
    /\ now < Horizon
    /\ \A w \in Writers : IsOpen(w) => now + 1 < began[w] + MaxTxn
    /\ now' = now + 1
    /\ UNCHANGED <<began, pending, nextSeq, event>>

LogNext ==
    \/ \E w \in Writers : Begin(w) \/ RecordEvent(w) \/ Commit(w) \/ Rollback(w)
    \/ Tick

LogSpec == LogInit /\ [][LogNext]_logVars

-----------------------------------------------------------------------------
(* What a reader sees.                                                     *)

Committed(s) == event[s].state = "committed"

\* Mutant: the lag is left out of the filter.
AgedIgnoringLag(s) == Committed(s)

\* `changed_at <= now() - lag`, on a visible row.
Aged(s) == Committed(s) /\ event[s].at + Lag <= now

AgedSeqs == {s \in Seqs : Aged(s)}

\* select coalesce(max(seq), 0) ... where changed_at <= now() - lag
IsWatermark(m) ==
    /\ m \in AgedSeqs \cup {0}
    /\ \A s \in AgedSeqs : s <= m

Watermark == CHOOSE m \in 0..MaxSeq : IsWatermark(m)

\* The rows a windowed reader is given up to m: no age filter of their own.
VisibleUpTo(m) == {s \in 1..m : Committed(s)}

-----------------------------------------------------------------------------
(* The lag is sound: when a row is old enough to be served, every          *)
(* transaction that drew a lower seq has ended, so no row can still appear *)
(* below the watermark (compute_watermark, and the claim of                *)
(* billcommons_shared/watermark.py).                                       *)
WatermarkSettled ==
    \A t \in AgedSeqs : \A s \in 1..t : event[s].state \in {"committed", "rolledback"}

\* seq order follows changed_at order up to the length of a transaction: the
\* skew that watermark.py reports as measured over the whole corpus.
SkewBounded ==
    \A t \in Seqs : \A s \in 1..t :
        event[t].state # "unused" => event[s].at < event[t].at + MaxTxn

\* The watermark never falls, and what a window up to it holds never changes:
\* a cursor advanced to it has nothing left to come back for.
WatermarkStable ==
    [][/\ Watermark' >= Watermark
       /\ VisibleUpTo(Watermark)' \cap (1..Watermark) = VisibleUpTo(Watermark)]_logVars

\* The lag a writer's transactions need: one MaxTxn for the skew of a row's stamp
\* against its seq, one for the transaction that still holds the lower seq.
LagSuffices == Lag >= 2 * MaxTxn - 1

Stable == INSTANCE StableLog WITH mark <- Watermark, entries <- VisibleUpTo(Watermark)

\* The log implements the stable log its readers rely on (the promise made by
\* billcommons_shared/watermark.py): the watermark is the mark, and the rows
\* visible below it are the entries.
ImplementsStableLog == Stable!Spec
=============================================================================
