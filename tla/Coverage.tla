------------------------------- MODULE Coverage -------------------------------
(***************************************************************************)
(* From a bulk load to a GREEN badge: the row of jurisdiction_coverage of  *)
(* each jurisdiction, what moves it, and what is decided from it.          *)
(*                                                                         *)
(* Autoboot loads a jurisdiction whose row says there is nothing yet; any  *)
(* of several processes recomputes the counts and advances the status from *)
(* them; validate workers pick the row that is due most, sample its bills  *)
(* without a transaction, and judge it.  One jurisdiction is to be loaded  *)
(* (BulkLoad), the others have their bills.  A jurisdiction has one row.   *)
(* Its documents are counted up to one, held, obtainable or neither, and   *)
(* a recompute may find them any way: upstream publishes, the crawl        *)
(* extracts and gives up as it likes.                                      *)
(***************************************************************************)
EXTENDS BulkLoad, SequencesExt

CONSTANTS
    Jurisdictions,
    Booted,      \* the jurisdiction whose session BulkLoad loads
    Workers,     \* the loaders that are crawl workers, one per container
    Validators,  \* validate-worker processes
    Batch        \* bound: jurisdictions a cycle selects (--batch)

Unmeasured == -1   \* full_text_available_count of a row never recomputed

ASSUME CoverageAssumption ==
    /\ Workers \subseteq Loaders /\ Booted \in Jurisdictions
    /\ IsFiniteSet(Jurisdictions) /\ Batch \in Nat \ {0}

VARIABLES
    cov,       \* per jurisdiction: its row, as committed
    turns,     \* jurisdictions, least recently validated first
    reading,   \* the statuses the recompute in progress has read: empty if none is
    todo,      \* per validator: what is left of its cycle's selection
    autoboot   \* per crawl worker: down, loading or past it

vars == <<bulkVars, cov, turns, reading, todo, autoboot>>
loadVars == <<bills, rows, votes, told, stray, load, raced, complete>>

Statuses == {"SOURCE_IDENTIFIED", "METADATA_SEARCHABLE", "FULL_TEXT_SEARCHABLE",
             "VALIDATING", "GREEN", "DEGRADED", "BLOCKED"}
Texts == {t \in [full : {0, 1}, available : {0, 1}] : t.full <= t.available}
Rows == [status : Statuses, bills : BOOLEAN, full : {0, 1}, available : {Unmeasured, 0, 1}]

\* Of the statuses a recompute has read, those it may advance from.
Advanced == {"SOURCE_IDENTIFIED", "METADATA_SEARCHABLE"}

TypeOK ==
    /\ BulkTypeOK
    /\ cov \in [Jurisdictions -> Rows]
    /\ turns \in [1..Cardinality(Jurisdictions) -> Jurisdictions]
    /\ reading \in UNION {[some -> Advanced] : some \in SUBSET Jurisdictions}
    /\ todo \in [Validators -> Seq(Jurisdictions)]
    /\ autoboot \in [Workers -> {"down", "loading", "up"}]

\* The registry seeded the row of the one; the others' were GREEN before the
\* obtainable documents were counted, whatever text they have.
Init ==
    /\ BulkInit
    /\ cov = [j \in Jurisdictions |->
                 [status |-> IF j = Booted THEN "SOURCE_IDENTIFIED" ELSE "GREEN",
                  bills |-> j # Booted, full |-> 0, available |-> Unmeasured]]
    /\ turns = SetToSeq(Jurisdictions)
    /\ reading = <<>>
    /\ todo = [v \in Validators |-> <<>>]
    /\ autoboot = [w \in Workers |-> "down"]

-----------------------------------------------------------------------------
(* The load, and what it is decided from.                                  *)

\* states_needing_bootstrap: nothing has moved its row yet, or it has no bills.
Needed(j) == cov[j].status = "SOURCE_IDENTIFIED" \/ ~cov[j].bills

\* autoboot.main: a jurisdiction that needs no load, or has failed its load, is
\* left to the worker loop.  It does not ask whether another load is under way.
Boot(w) ==
    /\ autoboot[w] = "down"
    /\ IF Needed(Booted)
       THEN autoboot' = [autoboot EXCEPT ![w] = "loading"] /\ \E n \in DOMAIN Zips : Begin(w, n)
       ELSE autoboot' = [autoboot EXCEPT ![w] = "up"] /\ UNCHANGED loadVars
    /\ UNCHANGED <<mishaps, cov, turns, reading, todo>>

\* `bootstrap --zip`, run by an operator.
Bootstrap(l) ==
    /\ Mishap
    /\ \E n \in DOMAIN Zips : Begin(l, n)
    /\ UNCHANGED <<cov, turns, reading, todo, autoboot>>

\* A load goes on, or fails; either way bootstrap_state goes on after it.
Load(l) ==
    /\ LoadStep(l) \/ LoadFails(l) \/ LoadBreaks(l)
    /\ autoboot' = [w \in Workers |-> IF w = l /\ load'[l] = NoLoad THEN "up" ELSE autoboot[w]]
    /\ UNCHANGED <<cov, turns, reading, todo>>

\* The container dies, and with it the load; the platform starts it again.
Dies(w) ==
    /\ autoboot[w] # "down" /\ Mishap
    /\ autoboot' = [autoboot EXCEPT ![w] = "down"]
    /\ Ends(w)
    /\ UNCHANGED <<bills, rows, votes, told, stray, complete,
                   cov, turns, reading, todo>>

Sync ==
    /\ \E b \in Bills : SyncBill(b)
    /\ UNCHANGED <<cov, turns, reading, todo, autoboot>>

-----------------------------------------------------------------------------
(* Recomputing the counts: the crawl worker, the sync worker, a validate    *)
(* worker at the start of its cycle, or autoboot after a load.              *)

HasBills(j) == j = Booted => \E b \in Bills : bills[b] # Absent

\* _next_status_for_counts, from one it may advance: others stand.
NextStatus(status, hasBills, full) ==
    IF full > 0 THEN "FULL_TEXT_SEARCHABLE"
    ELSE IF hasBills THEN "METADATA_SEARCHABLE"
    ELSE status

\* Every row is read first.  Only a status that may advance is worth keeping.
Read == [j \in {k \in Jurisdictions : cov[k].status \in Advanced} |-> cov[j].status]

RecomputeReads ==
    /\ reading = <<>> /\ DOMAIN Read # {}
    /\ reading' = Read
    /\ UNCHANGED <<bulkVars, cov, turns, todo, autoboot>>

\* The documents there may be.
Published(j) == j = Booted => \E r \in rows : r.table \in {"links", "orphans"}
Counts(j) == {t \in Texts : t.available > 0 => Published(j)}

\* and then counted; an UPDATE names the columns that differ from what was read.
Advance(j, full) ==
    LET next == NextStatus(reading[j], HasBills(j), full)
    IN IF next = reading[j] THEN cov[j].status ELSE next
Recomputed(j, t) ==
    [status |-> IF j \in DOMAIN reading THEN Advance(j, t.full) ELSE cov[j].status,
     bills |-> HasBills(j), full |-> t.full, available |-> t.available]

RecomputeCommits ==
    /\ reading # <<>> \/ DOMAIN Read = {}
    /\ \E found \in [Jurisdictions -> Texts] :
           /\ \A j \in Jurisdictions : found[j] \in Counts(j)
           /\ cov' = [j \in Jurisdictions |-> Recomputed(j, found[j])]
    /\ reading' = <<>>
    /\ UNCHANGED <<bulkVars, turns, todo, autoboot>>

RecomputeFails ==
    /\ reading # <<>> /\ Mishap
    /\ reading' = <<>>
    /\ UNCHANGED <<loadVars, cov, turns, todo, autoboot>>

-----------------------------------------------------------------------------
(* Validation.                                                             *)

\* At least GREEN_FULLTEXT_COVERAGE_THRESHOLD of what is obtainable is held.
Enough(t) == 10 * t.full >= 8 * t.available

\* A GREEN row measured below the threshold.
StaleGreen(row) == row.status = "GREEN" /\ row.available > 0 /\ ~Enough(row)

\* A GREEN row is a candidate when it is stale.
GreenTier(row) == IF StaleGreen(row) THEN 2 ELSE 4

\* _VALIDATION_PRIORITY_SQL: 4 is not a candidate, nor is a DEGRADED row validated
\* within degraded_recheck_age_hours: `due` are those it was longer ago for.
Priority(j, due) ==
    CASE ~cov[j].bills -> 4
      [] cov[j].status = "FULL_TEXT_SEARCHABLE" -> 1
      [] cov[j].status = "DEGRADED" -> IF j \in due THEN 2 ELSE 4
      [] cov[j].status = "GREEN" -> GreenTier(cov[j])
      [] cov[j].status \in {"METADATA_SEARCHABLE", "VALIDATING"} -> 3
      [] OTHER -> 4

\* plan_validation: by priority, then the least recently validated first.
Candidates(due) ==
    LET Of(p) == SelectSeq(turns, LAMBDA j : Priority(j, due) = p)
        all == Of(1) \o Of(2) \o Of(3)
    IN SubSeq(all, 1, IF Len(all) < Batch THEN Len(all) ELSE Batch)

\* The selection of a cycle, under an advisory lock it gives back at once.  How long
\* ago a DEGRADED row was validated is not kept: it may be due at any time, or not yet.
Select(v) ==
    /\ todo[v] = <<>>
    /\ \E due \in SUBSET {j \in Jurisdictions : cov[j].status = "DEGRADED"} :
           /\ Candidates(due) # <<>>
           /\ todo' = [todo EXCEPT ![v] = Candidates(due)]
    /\ UNCHANGED <<bulkVars, cov, turns, reading, autoboot>>

\* apply_validation_result, of a sample that passed or did not.  The structural
\* leg is checkable in every sample, so that the pass rate is never None.
Judged(row, passed) ==
    IF ~row.bills \/ row.status = "BLOCKED" THEN row.status
    ELSE IF ~passed THEN "DEGRADED"
    ELSE IF row.available = Unmeasured
    THEN IF row.status \in {"SOURCE_IDENTIFIED", "METADATA_SEARCHABLE"} THEN "VALIDATING"
         ELSE row.status
    ELSE IF Enough(row) THEN "GREEN"
    ELSE "VALIDATING"

\* validate_jurisdiction_txnfree, with no transaction open: a random sample of the
\* bills, looked up in the search API and on the official sites, passes or not.
Samples == BOOLEAN

\* Mutant: the order is that of the recompute's last_attempt_at, always the same.
SameOrder(j) == turns

\* max(validation_runs.finished_at) of j is the latest.
Validated(j) == Append(SelectSeq(turns, LAMBDA k : k # j), j)

\* validate_and_record_txnfree: the sample was taken, the sites asked, and the
\* run and the row are written in a transaction of their own.
Judge(v) ==
    /\ todo[v] # <<>>
    /\ todo' = [todo EXCEPT ![v] = Tail(@)]
    /\ LET j == Head(todo[v]) IN
       /\ \E passed \in Samples : cov' = [cov EXCEPT ![j].status = Judged(cov[j], passed)]
       /\ turns' = Validated(j)
    /\ UNCHANGED <<bulkVars, reading, autoboot>>

\* An error is a jurisdiction's own; a restart loses the rest of the cycle.  No run
\* is recorded, so that j keeps its turn: one that errs every time would be picked
\* first every time, which the bound on mishaps leaves out.
JudgeFails(v) ==
    /\ todo[v] # <<>> /\ Mishap
    /\ \E rest \in {Tail(todo[v]), <<>>} : todo' = [todo EXCEPT ![v] = rest]
    /\ UNCHANGED <<loadVars, cov, turns, reading, autoboot>>

\* An operator takes a jurisdiction out of service.
Block(j) ==
    /\ cov[j].status # "BLOCKED" /\ Mishap
    /\ cov' = [cov EXCEPT ![j].status = "BLOCKED"]
    /\ UNCHANGED <<loadVars, turns, reading, todo, autoboot>>

-----------------------------------------------------------------------------
Next ==
    \/ \E w \in Workers : Boot(w) \/ Dies(w)
    \/ \E l \in Loaders \ Workers : Bootstrap(l)
    \/ \E l \in Loaders : Load(l)
    \/ Sync
    \/ RecomputeReads \/ RecomputeCommits \/ RecomputeFails
    \/ \E j \in Jurisdictions : Block(j)
    \/ \E v \in Validators : Select(v) \/ Judge(v) \/ JudgeFails(v)

Spec == Init /\ [][Next]_vars

\* Workers loop for as long as they live, and are started again.
Fairness ==
    \A v \in Validators : WF_todo(Select(v) \/ Judge(v))

FairSpec == Spec /\ Fairness

-----------------------------------------------------------------------------
(* Properties.                                                             *)

\* A GREEN badge does not outlive the text behind it: no row keeps its badge for
\* ever with too little of what is obtainable held, although GREEN rows are
\* otherwise never picked and others compete for the batch.
StaleGreenRejudged ==
    \A j \in Jurisdictions : []<>~StaleGreen(cov[j])
=============================================================================
