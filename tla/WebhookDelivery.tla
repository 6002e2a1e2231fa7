--------------------------- MODULE WebhookDelivery ---------------------------
(***************************************************************************)
(* One verified webhook subscription: the dispatcher that drains it, the   *)
(* owner who deletes or reactivates it, the nightly mailer that reports on *)
(* it, and the receiver that answers.  Other subscriptions share nothing   *)
(* with it but the tick.                                                   *)
(*                                                                         *)
(* The dispatcher reads the row once per tick into a session that never    *)
(* expires it, POSTs outside any transaction, and then writes back the     *)
(* columns that differ from what it LOADED.  Everyone else may have        *)
(* changed the row in between.  A second dispatcher may be running: the    *)
(* session lock that keeps it out is only looked at when a tick starts.    *)
(*                                                                         *)
(* The change log is the StableLog that ChangeLog is proved to implement.  *)
(***************************************************************************)
EXTENDS Integers, Sequences, FiniteSets, FiniteSetsExt

CONSTANTS
    MaxSeq,        \* bound: the seqs of the log
    Oversized,     \* the seqs whose payload alone exceeds MAX_BODY_BYTES
    Orphans,       \* the seqs whose bill is gone when the batch is built
    BatchSize,     \* MAX_EVENTS_PER_BATCH
    HardStrikes,   \* consecutive hard 4xx before a disable (3)
    SkipStrikes,   \* OVERSIZED_SKIP_DISABLE_AFTER (2160)
    Dispatchers,   \* the dispatcher processes
    MaxMishaps     \* bound: crashes, internal errors and lost locks, together

NoOne == "no one"

ASSUME DeliveryAssumption ==
    /\ MaxSeq \in Nat /\ BatchSize \in Nat \ {0}
    /\ HardStrikes \in Nat \ {0} /\ SkipStrikes \in Nat \ {0}
    /\ Oversized \subseteq 1..MaxSeq /\ Orphans \subseteq 1..MaxSeq
    /\ MaxMishaps \in Nat
    /\ NoOne \notin Dispatchers

VARIABLES
    mark, entries,  \* the change log
    scopeKnown,     \* the subscription's topic still exists
    exists, row,    \* the subscription's row in the database
    worker,         \* per dispatcher: its thread for this subscription
    lock,           \* who holds the singleton session lock, or NoOne
    mail,           \* the notice the mailer has read, and whether it was sent
    served,         \* the seqs the receiver acknowledged with a 2xx, and those
                    \* the owner waived with reactivate?mode=skip
    toldCreated,    \* the owner was mailed that the subscription verified
    toldDisabled,   \* ... that it was disabled, since it last was
    reactivated,    \* the owner has reactivated it at least once
    hardRun,        \* hard 4xx answers recorded since any other outcome
    latePosts,      \* POSTs started after the row was deleted
    mishaps

Log == INSTANCE StableLog

logVars == <<mark, entries>>
ghosts == <<served, toldCreated, toldDisabled, reactivated, hardRun, latePosts>>
vars == <<logVars, scopeKnown, exists, row, worker, lock, mail, ghosts, mishaps>>

NoMail == [phase |-> "idle", notice |-> "none"]
Seqs == 1..MaxSeq
Reasons == {"none", "unknown_scope", "payload_too_large", "gone",
            "non_retryable_client_error", "too_many_failures"}
\* last_error.  All the classes that only back off (a transport error, http_429,
\* http_5xx, http_4xx_retryable, internal) are "retryable".
Errors == {"none", "payload_too_large", "http_4xx", "retryable"}
Notices == {"none", "created", "disabled", "created_disabled"}
MaxStreak == Max({HardStrikes, SkipStrikes})

Rows == [lastSeq : 0..MaxSeq, active : BOOLEAN, reason : Reasons, error : Errors,
         streak : 0..MaxStreak, failing : {"no", "recent", "long"},
         backedOff : BOOLEAN, notify : Notices]

\* What a worker thread holds: its copy of the row, its tick's watermark_seq,
\* and the batch of the POST in flight with its has_more.
Idle == [pc |-> "idle"]
Workers ==
    {Idle}
    \cup [pc : {"due"}, window : 0..MaxSeq]
    \cup [pc : {"loop"}, window : 0..MaxSeq, copy : Rows]
    \cup [pc : {"posted"}, window : 0..MaxSeq, copy : Rows, batch : SUBSET Seqs,
          more : BOOLEAN]

TypeOK ==
    /\ mark \in 0..MaxSeq /\ entries \subseteq 1..mark
    /\ scopeKnown \in BOOLEAN /\ exists \in BOOLEAN
    /\ row \in Rows
    /\ \A d \in Dispatchers : worker[d] \in Workers
    /\ lock \in Dispatchers \cup {NoOne}
    /\ mail \in [phase : {"idle", "read", "sent"}, notice : Notices]
    /\ served \subseteq Seqs
    /\ toldCreated \in BOOLEAN /\ toldDisabled \in BOOLEAN /\ reactivated \in BOOLEAN
    /\ hardRun \in 0..HardStrikes
    /\ latePosts \in Nat /\ mishaps \in 0..MaxMishaps

NewRow ==
    [lastSeq |-> 0, active |-> TRUE, reason |-> "none", error |-> "none", streak |-> 0,
     failing |-> "no", backedOff |-> FALSE, notify |-> "created"]

\* Just verified: _attempt_challenge left the 'created' notice pending.
Init ==
    /\ Log!Init
    /\ scopeKnown = TRUE /\ exists = TRUE
    /\ row = NewRow
    /\ worker = [d \in Dispatchers |-> Idle]
    /\ lock = NoOne /\ mail = NoMail
    /\ served = {} /\ toldCreated = FALSE /\ toldDisabled = FALSE
    /\ reactivated = FALSE /\ hardRun = 0
    /\ latePosts = 0 /\ mishaps = 0

-----------------------------------------------------------------------------
(* The record functions: what an outcome does to a copy of the row.        *)

\* Mutant: the streak goes on across a change of class.
CountedOn(r, class) == [r EXCEPT !.error = class, !.streak = Min({@ + 1, MaxStreak})]

\* consecutive_failures restarts when the class changes.  A retryable streak is
\* read by the backoff only, and not kept.
Counted(r, class) ==
    LET streak == IF r.error \notin {"none", class} THEN 0 ELSE r.streak
    IN  [r EXCEPT !.error = class,
                  !.streak = IF class = "retryable" THEN 0 ELSE Min({streak + 1, MaxStreak})]

RecordFailure(r, class) ==
    [Counted(r, class) EXCEPT !.failing = IF @ = "no" THEN "recent" ELSE @]

\* A skip never contacted the receiver: it ends the failing clock.
RecordSkip(r) == [Counted(r, "payload_too_large") EXCEPT !.failing = "no"]

RecordSuccess(r) ==
    [r EXCEPT !.error = "none", !.streak = 0, !.failing = "no", !.backedOff = FALSE]

ApplyBackoff(r) == [r EXCEPT !.backedOff = TRUE]

\* Mutant: a pending 'created' is overwritten.
NoticeOverwritten(pending) == "disabled"

\* Mutant: the notices are strung together, whatever is pending.
NoticeStrungOn(pending) == IF pending = "none" THEN "disabled" ELSE pending \o "_disabled"

\* _notify_disabled: the slot holds one notice, so the two are combined.
DisabledNotice(pending) ==
    IF pending \in {"created", "created_disabled"} THEN "created_disabled" ELSE "disabled"

Disable(r, reason) ==
    [r EXCEPT !.active = FALSE, !.reason = reason, !.notify = DisabledNotice(@)]

\* failing_since is more than AUTO_DISABLE_AFTER old.
MaybeAutoDisable(r) == IF r.failing = "long" THEN Disable(r, "too_many_failures") ELSE r

\* Mutant: the branch of a 429 forgets the 72 hour rule.
AfterResponse429Forever(r, response) ==
    CASE response = "http_429" -> ApplyBackoff(RecordFailure(r, "retryable"))
      [] response = "http_4xx" -> MaybeAutoDisable(ApplyBackoff(RecordFailure(r, "http_4xx")))
      [] response = "gone" -> Disable(RecordFailure(r, "http_4xx"), "gone")
      [] OTHER -> MaybeAutoDisable(ApplyBackoff(RecordFailure(r, "retryable")))

Responses == {"gone", "http_4xx", "http_429", "other"}

\* The row after a POST that did not get a 2xx.
AfterResponse(r, response) ==
    LET failed == RecordFailure(r, IF response \in {"gone", "http_4xx"} THEN "http_4xx"
                                                                      ELSE "retryable") IN
    CASE response = "gone" -> Disable(failed, "gone")
      [] response = "http_4xx" /\ failed.streak >= HardStrikes ->
             Disable(failed, "non_retryable_client_error")
      [] OTHER -> MaybeAutoDisable(ApplyBackoff(failed))

-----------------------------------------------------------------------------
(* Writing back.                                                           *)

\* Mutant: every column of the copy is written, changed or not.
FlushWholeRow(copy, new) == new

\* UPDATE sets only the columns that differ from what was loaded.
Flush(copy, new) == [f \in DOMAIN row |-> IF new[f] # copy[f] THEN new[f] ELSE row[f]]

\* Mutant: last_seq is assigned.
Assigned(current, to) == to

\* last_seq = GREATEST(last_seq, to)
Advanced(current, to) == Max({current, to})

\* What d drains on with after writing new, last_seq refreshed to seq.
LoopOn(d, new, seq) ==
    [pc |-> "loop", window |-> worker[d].window, copy |-> [new EXCEPT !.lastSeq = seq]]

\* The disable of an active row has not been reported yet.
Unreported(new) == row.active /\ ~new.active

\* Mutant: an UPDATE that matches no row goes unnoticed.
CommitUnnoticed(d, new, goOn) ==
    LET seq == Advanced(row.lastSeq, new.lastSeq) IN
    /\ row' = IF exists THEN [Flush(worker[d].copy, new) EXCEPT !.lastSeq = seq] ELSE row
    /\ worker' = [worker EXCEPT ![d] = IF goOn THEN LoopOn(d, new, new.lastSeq) ELSE Idle]
    /\ toldDisabled' = (toldDisabled /\ (exists => ~Unreported(new)))

\* Mutant: the loop goes on with the last_seq it was loaded with.
CommitUnrefreshed(d, new, goOn) ==
    LET copy == worker[d].copy IN
    /\ exists
    /\ row' = [Flush(copy, new) EXCEPT !.lastSeq = Advanced(row.lastSeq, new.lastSeq)]
    /\ worker' = [worker EXCEPT ![d] = IF goOn THEN LoopOn(d, new, copy.lastSeq) ELSE Idle]
    /\ toldDisabled' = (toldDisabled /\ ~Unreported(new))

\* d commits new (with its cursor write, if it moved the cursor) and then drains
\* on or stops.  On a row deleted meanwhile the write fails, and so does the
\* recovery from that.
Commit(d, new, goOn) ==
    LET copy == worker[d].copy
        seq == IF new.lastSeq # copy.lastSeq THEN Advanced(row.lastSeq, new.lastSeq)
                                             ELSE row.lastSeq IN
    IF exists
    THEN /\ row' = [Flush(copy, new) EXCEPT !.lastSeq = seq]
         /\ worker' = [worker EXCEPT ![d] = IF goOn THEN LoopOn(d, new, seq) ELSE Idle]
         /\ toldDisabled' = (toldDisabled /\ ~Unreported(new))
    ELSE /\ worker' = [worker EXCEPT ![d] = Idle]
         /\ UNCHANGED <<row, toldDisabled>>

-----------------------------------------------------------------------------
(* The dispatcher.                                                         *)

\* Mutant: the rows come in the wrong order.
Highest(n, S) == {s \in S : Cardinality({t \in S : t > s}) < n}

\* The first n of S, in seq order.
Lowest(n, S) == {s \in S : Cardinality({t \in S : t < s}) < n}

\* The body of a batch is under MAX_BODY_BYTES.
Fits(batch) == batch \cap Oversized = {}

\* The sizes that a batch of n goes through when it is halved again and again:
\* the least set that has n and the half of each of its own above 1.
ClosedUnderHalving(S) == \A k \in S : k > 1 => k \div 2 \in S
Halvings(n) == {k \in 1..n : \A S \in SUBSET (1..n) : n \in S /\ ClosedUnderHalving(S) => k \in S}

\* A batch over the cap is halved until it fits or is a single event.
Payload(batch) ==
    LET fitting == {n \in Halvings(Cardinality(batch)) : n = 1 \/ Fits(Lowest(n, batch))}
    IN  Lowest(Max(fitting), batch)

\* main, run_tick and eligible_deliveries: hold the lock, compute the watermark,
\* find the subscription due.
Tick(d) ==
    /\ worker[d] = Idle
    /\ lock \in {NoOne, d}
    /\ exists /\ row.active /\ ~row.backedOff
    /\ lock' = d
    /\ worker' = [worker EXCEPT ![d] = [pc |-> "due", window |-> mark]]
    /\ UNCHANGED <<logVars, scopeKnown, exists, row, mail, ghosts, mishaps>>

\* The worker thread gets the row in a session of its own, if it is still there
\* and active.
Load(d) ==
    /\ worker[d].pc = "due"
    /\ worker' = [worker EXCEPT ![d] =
           IF exists /\ row.active
           THEN [pc |-> "loop", window |-> worker[d].window, copy |-> row]
           ELSE Idle]
    /\ UNCHANGED <<logVars, scopeKnown, exists, row, lock, mail, ghosts, mishaps>>

\* Mutant: a batch of which nothing is left sends the cursor to the watermark.
PastOrphansToWindow(window, rows) == window

\* Where the cursor goes past rows whose bills are all gone: the last raw row.
PastOrphans(window, rows) == Max(rows)

\* One turn of the drain loop, up to its POST.
Fetch(d) ==
    /\ worker[d].pc = "loop"
    /\ LET w == worker[d]
           due == {s \in entries : w.copy.lastSeq < s /\ s <= w.window}
           rows == Lowest(BatchSize, due)
           batch == rows \ Orphans
           more == rows # due
           sent == Payload(batch)
           moreAfter == more \/ sent # batch
           skipped == RecordSkip([w.copy EXCEPT !.lastSeq = Max(sent)]) IN
       \/ /\ ~scopeKnown
          /\ Commit(d, Disable(w.copy, "unknown_scope"), FALSE)
          /\ UNCHANGED <<hardRun, latePosts>>
       \/ /\ scopeKnown /\ rows = {}
          /\ Commit(d, [w.copy EXCEPT !.lastSeq = w.window], FALSE)
          /\ UNCHANGED <<hardRun, latePosts>>
       \/ /\ scopeKnown /\ rows # {} /\ batch = {}
          /\ Commit(d, [w.copy EXCEPT !.lastSeq = PastOrphans(w.window, rows)], more)
          /\ UNCHANGED <<hardRun, latePosts>>
       \/ /\ scopeKnown /\ batch # {} /\ ~Fits(sent)
          /\ IF skipped.streak >= SkipStrikes
             THEN Commit(d, Disable(skipped, "payload_too_large"), FALSE)
             ELSE Commit(d, skipped, moreAfter)
          /\ hardRun' = 0
          /\ UNCHANGED latePosts
       \/ /\ scopeKnown /\ batch # {} /\ Fits(sent)
          /\ worker' = [worker EXCEPT ![d] =
                 [pc |-> "posted", window |-> w.window, copy |-> w.copy,
                  batch |-> sent, more |-> moreAfter]]
          /\ latePosts' = latePosts + IF exists THEN 0 ELSE 1
          /\ UNCHANGED <<row, toldDisabled, hardRun>>
    /\ UNCHANGED <<logVars, scopeKnown, exists, lock, mail, served, toldCreated,
                   reactivated, mishaps>>

\* The drain's deadline has passed.
OutOfTime(d) ==
    /\ worker[d].pc = "loop"
    /\ worker' = [worker EXCEPT ![d] = Idle]
    /\ UNCHANGED <<logVars, scopeKnown, exists, row, lock, mail, ghosts, mishaps>>

\* The receiver takes the batch and answers 2xx.
Acknowledged(d) ==
    /\ worker[d].pc = "posted"
    /\ LET w == worker[d] IN
       /\ served' = served \cup w.batch
       /\ Commit(d, RecordSuccess([w.copy EXCEPT !.lastSeq = Max(w.batch)]), w.more)
    /\ hardRun' = 0
    /\ UNCHANGED <<logVars, scopeKnown, exists, lock, mail, toldCreated, reactivated,
                   latePosts, mishaps>>

\* It answers anything else, or not at all.
Refused(d) ==
    /\ worker[d].pc = "posted"
    /\ \E response \in Responses :
           /\ Commit(d, AfterResponse(worker[d].copy, response), FALSE)
           /\ hardRun' = IF response \in {"gone", "http_4xx"} THEN Min({hardRun + 1, HardStrikes})
                                                             ELSE 0
    /\ UNCHANGED <<logVars, scopeKnown, exists, lock, mail, served, toldCreated,
                   reactivated, latePosts, mishaps>>

\* The dispatcher dies.  The receiver may have taken the POST in flight.
Crash(d) ==
    /\ worker[d] # Idle /\ mishaps < MaxMishaps
    /\ \/ UNCHANGED served
       \/ worker[d].pc = "posted" /\ served' = served \cup worker[d].batch
    /\ worker' = [worker EXCEPT ![d] = Idle]
    /\ lock' = IF lock = d THEN NoOne ELSE lock
    /\ mishaps' = mishaps + 1
    /\ UNCHANGED <<logVars, scopeKnown, exists, row, mail, toldCreated, toldDisabled,
                   reactivated, hardRun, latePosts>>

\* An exception in the drain: roll back, read the row afresh, record a failure
\* of class 'internal' on it.
InternalError(d) ==
    /\ worker[d].pc \in {"loop", "posted"} /\ mishaps < MaxMishaps
    /\ LET failed == MaybeAutoDisable(ApplyBackoff(RecordFailure(row, "retryable"))) IN
       IF exists
       THEN row' = failed /\ toldDisabled' = (toldDisabled /\ ~Unreported(failed))
       ELSE UNCHANGED <<row, toldDisabled>>
    /\ worker' = [worker EXCEPT ![d] = Idle]
    /\ mishaps' = mishaps + 1
    /\ hardRun' = 0
    /\ UNCHANGED <<logVars, scopeKnown, exists, lock, mail, served, toldCreated,
                   reactivated, latePosts>>

\* The connection that holds the session lock dies; its dispatcher works on.
LoseLock ==
    /\ lock # NoOne /\ mishaps < MaxMishaps
    /\ lock' = NoOne
    /\ mishaps' = mishaps + 1
    /\ UNCHANGED <<logVars, scopeKnown, exists, row, worker, mail, ghosts>>

-----------------------------------------------------------------------------
(* The owner.                                                              *)

\* What was recorded about a row that is gone is forgotten with it.
Delete ==
    /\ exists
    /\ exists' = FALSE
    /\ row' = NewRow
    /\ served' = {} /\ hardRun' = 0
    /\ toldCreated' = FALSE /\ toldDisabled' = FALSE /\ reactivated' = FALSE
    /\ UNCHANGED <<logVars, scopeKnown, worker, lock, mail, latePosts, mishaps>>

\* Mutant: a pending combined notice is dropped with the plain one.
NoticeDropped(pending) == "none"

\* Only the exact value 'disabled' is made moot by the reactivation.
NoticeAfterReactivation(pending) == IF pending = "disabled" THEN "none" ELSE pending

\* The guard is disabled_reason, read before the row is written in the same
\* request; a verified row keeps its error class.
Reactivate ==
    /\ exists /\ row.reason # "none"
    /\ \E to \in {row.lastSeq, Advanced(row.lastSeq, mark)} :   \* mode=resume, mode=skip
           /\ row' = [row EXCEPT !.active = TRUE, !.reason = "none", !.streak = 0,
                                 !.failing = "no", !.backedOff = FALSE, !.lastSeq = to,
                                 !.notify = NoticeAfterReactivation(@)]
           /\ served' = served \cup ((row.lastSeq + 1)..to)
    /\ reactivated' = TRUE
    /\ hardRun' = 0
    /\ UNCHANGED <<logVars, scopeKnown, exists, worker, lock, mail, toldCreated,
                   toldDisabled, latePosts, mishaps>>

-----------------------------------------------------------------------------
(* The nightly mailer, drain_webhook_notifications.                        *)

MailerReads ==
    /\ mail.phase = "idle"
    /\ exists /\ row.notify # "none"
    /\ mail' = [phase |-> "read", notice |-> row.notify]
    /\ UNCHANGED <<logVars, scopeKnown, exists, row, worker, lock, ghosts, mishaps>>

MailerSends ==
    /\ mail.phase = "read"
    /\ mail' = [mail EXCEPT !.phase = "sent"]
    /\ toldCreated' = (toldCreated \/ mail.notice \in {"created", "created_disabled"})
    /\ toldDisabled' = (toldDisabled \/ mail.notice \in {"disabled", "created_disabled"})
    /\ UNCHANGED <<logVars, scopeKnown, exists, row, worker, lock, served,
                   reactivated, hardRun, latePosts, mishaps>>

\* Mutant: whatever is pending is cleared.
ClearedAnyway(pending, sent) == "none"

\* SET notify_pending = NULL WHERE notify_pending = the value that was read
Cleared(pending, sent) == IF pending = sent THEN "none" ELSE pending

MailerClears ==
    /\ mail.phase = "sent"
    /\ mail' = NoMail
    /\ row' = IF exists THEN [row EXCEPT !.notify = Cleared(@, mail.notice)] ELSE row
    /\ UNCHANGED <<logVars, scopeKnown, exists, worker, lock, ghosts, mishaps>>

\* The send fails, or the run dies before or after it: the notice stays pending.
MailerStops ==
    /\ mail.phase # "idle"
    /\ mail' = NoMail
    /\ UNCHANGED <<logVars, scopeKnown, exists, row, worker, lock, ghosts, mishaps>>

-----------------------------------------------------------------------------
(* The world.                                                              *)

LogGrows ==
    /\ Log!Next
    /\ UNCHANGED <<scopeKnown, exists, row, worker, lock, mail, ghosts, mishaps>>

\* A deploy retires the topic.
ScopeRetired ==
    /\ scopeKnown
    /\ scopeKnown' = FALSE
    /\ UNCHANGED <<logVars, exists, row, worker, lock, mail, ghosts, mishaps>>

Older(failing) == IF failing = "recent" THEN "long" ELSE failing

\* 72 hours have passed since failing_since, in the row and in every copy of it.
FailingGetsLong ==
    /\ row.failing = "recent"
    /\ row' = [row EXCEPT !.failing = "long"]
    /\ worker' = [d \in Dispatchers |->
           IF worker[d].pc \in {"loop", "posted"}
           THEN [worker[d] EXCEPT !.copy.failing = Older(@)] ELSE worker[d]]
    /\ UNCHANGED <<logVars, scopeKnown, exists, lock, mail, ghosts, mishaps>>

BackoffElapses ==
    /\ row.backedOff
    /\ row' = [row EXCEPT !.backedOff = FALSE]
    /\ UNCHANGED <<logVars, scopeKnown, exists, worker, lock, mail, ghosts, mishaps>>

-----------------------------------------------------------------------------
Answered(d) == Acknowledged(d) \/ Refused(d)

Next ==
    \/ \E d \in Dispatchers :
           \/ Tick(d) \/ Load(d) \/ Fetch(d) \/ OutOfTime(d) \/ Answered(d)
           \/ Crash(d) \/ InternalError(d)
    \/ LoseLock
    \/ Delete \/ Reactivate
    \/ MailerReads \/ MailerSends \/ MailerClears \/ MailerStops
    \/ LogGrows \/ ScopeRetired \/ FailingGetsLong \/ BackoffElapses

Spec == Init /\ [][Next]_vars

\* The service timer fires and its threads run; rotation by last_attempt_at gives
\* the subscription its turn before the deadline again and again; a POST ends, in
\* a timeout if need be; time passes.
Fairness ==
    /\ \A d \in Dispatchers :
           /\ WF_vars(Tick(d) \/ Load(d) \/ Answered(d))
           /\ SF_vars(Fetch(d))
    /\ WF_vars(FailingGetsLong) /\ WF_vars(BackoffElapses)

FairSpec == Spec /\ Fairness

-----------------------------------------------------------------------------
Deliverable == Seqs \ (Oversized \cup Orphans)

\* At least once: the cursor passes a deliverable change only if the receiver
\* acknowledged it or the owner waived it, whatever crashes, overlaps or races
\* with the drain (_drain_one's cursor writes, reactivate's mode=skip).
CursorCoversAcked ==
    exists => \A s \in entries \cap Deliverable : s <= row.lastSeq => s \in served

\* No two writers drag the cursor back (_advance_last_seq's GREATEST against a
\* concurrent reactivate?mode=skip).
CursorNeverFallsBack == [][exists /\ exists' => row'.lastSeq >= row.lastSeq]_vars

\* As long as nothing crashed and the lock held, no change is POSTed again once
\* the cursor has passed it.
NoRepost ==
    [][\A d \in Dispatchers :
          worker[d].pc = "loop" /\ worker'[d].pc = "posted" /\ mishaps = 0
              => \A s \in worker'[d].batch : s > row.lastSeq]_vars

\* A disabled subscription is put back to work by its owner only, never by a
\* drain that loaded it before it was disabled.
OnlyOwnerReactivates ==
    [][exists /\ exists' /\ ~row.active /\ row'.active => worker' = worker]_vars

\* After the owner deletes the subscription each dispatcher starts one more POST
\* at most: the one of the batch it was fetching.
OneLatePost == latePosts <= Cardinality(Dispatchers)

\* The owner hears that the subscription verified: the notice is pending until it
\* is sent, whatever is combined with it (_notify_disabled, reactivate).
CreatedIsTold ==
    exists => toldCreated \/ row.notify \in {"created", "created_disabled"}

\* The owner hears of the first disable: the mailer's compare-and-swap never
\* clears a notice it did not send.
FirstDisableIsTold ==
    exists /\ ~row.active /\ ~reactivated
        => toldDisabled \/ row.notify \in {"disabled", "created_disabled"}

\* docs/api/webhooks.md: disabled "after 3 consecutive occurrences of the SAME
\* failure class", for one dispatcher.
HardStrikesConsecutive ==
    row.reason = "non_retryable_client_error" => hardRun = HardStrikes

\* The dispatcher always catches up again: no change waits for ever, unless the
\* subscription is deleted or disabled -- and no failure is retried for ever
\* without disabling it (the 72 hour rule).
EventuallyDelivered ==
    []<>(entries \cap Deliverable \subseteq served \/ ~exists \/ ~row.active)

\* send_alerts.py and _notify_disabled: "nothing silently dropped" -- a disable
\* leaves a notice for the mailer.
DisableLeavesNotice ==
    [][row.active /\ ~row'.active => row'.notify \in {"disabled", "created_disabled"}]_vars
=============================================================================
