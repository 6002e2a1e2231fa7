------------------------------ MODULE FetchQueue ------------------------------
(***************************************************************************)
(* The full-text crawl: the `ingest_jobs` queue, the crawl workers that    *)
(* claim its fetch_text jobs, the documents those jobs fetch, and the two  *)
(* others that write documents: the attended browser and the operator's    *)
(* reset command.                                                          *)
(*                                                                         *)
(* A claim is never committed before its job ends: the worker keeps the    *)
(* transaction, and with it the lock on the job's row, through the fetch.  *)
(* A failure rolls the claim back and is then recorded in a transaction of *)
(* its own; in between, the job is queued and due again for anybody.       *)
(***************************************************************************)
EXTENDS Integers, FiniteSets, FiniteSetsExt

CONSTANTS
    Docs,              \* bill_documents with a url
    Jobs,              \* bound: the ingest_jobs rows there is room for
    Workers,           \* crawl worker processes
    MaxAttempts,       \* DEFAULT_MAX_ATTEMPTS of a job (5)
    MaxFetchAttempts,  \* MAX_FETCH_ATTEMPTS, of a document (15)
    TopupFloor,        \* fulltext_topup_floor
    MaxMishaps         \* bound: crashes, outages and resets, together

ASSUME FetchAssumption ==
    /\ IsFiniteSet(Workers)
    /\ MaxAttempts \in Nat \ {0} /\ MaxFetchAttempts \in Nat \ {0}
    /\ TopupFloor \in Nat \ {0}
    /\ MaxMishaps \in Nat

VARIABLES
    doc,      \* per document: its text, fulltext_status and fetch_attempts
    job,      \* per ingest_jobs row, as committed
    worker,   \* per crawl worker: what it is at
    browser,  \* what the browser run is at
    blamed,   \* per document: the failures that were its own host's or bytes'
    tries,    \* per job: the claims of it
    mishaps

vars == <<doc, job, worker, browser, blamed, tries, mishaps>>

NoDoc == "no document"

\* fulltext_status.  "ok" are the SUCCESS_STATUSES, "unfetchable" the terminal
\* ones that have no name of their own here.
Statuses == {"none", "ok", "fetch_error", "worker_error", "robots_disallowed",
             "unfetchable", "permanently_failed"}
Terminal == {"robots_disallowed", "unfetchable", "permanently_failed"}

\* Counts stop at their caps, which is all that is asked of them.
Documents == [text : BOOLEAN, status : Statuses, attempts : 0..MaxFetchAttempts]

\* "free" is a row not inserted yet.  "running" is never committed.  The count
\* and run_after of a job that left the queue are not read again, and not kept.
JobRows == [state : {"free", "queued", "done", "dead"}, of : Docs \cup {NoDoc},
            attempts : 0..MaxAttempts, due : BOOLEAN]

\* What a failure costs: the status it leaves, whether it spends one of the
\* document's attempts, and whether its job is dead-lettered at once.
Failures == [status : Statuses, charge : BOOLEAN, terminal : BOOLEAN]

Idle == [pc |-> "idle"]
WorkerStates ==
    {Idle}
    \cup [pc : {"topup"}, found : SUBSET Docs]
    \cup [pc : {"running"}, job : Jobs, claimed : 1..MaxAttempts, copy : Documents]
    \cup [pc : {"failed", "recording"}, job : Jobs, claimed : 1..MaxAttempts,
          failure : Failures]
BrowserStates ==
    {Idle} \cup [pc : {"listed"}, of : Docs] \cup [pc : {"fetching"}, of : Docs, copy : Documents]

TypeOK ==
    /\ doc \in [Docs -> Documents]
    /\ job \in [Jobs -> JobRows]
    /\ worker \in [Workers -> WorkerStates]
    /\ browser \in BrowserStates
    /\ blamed \in [Docs -> 0..MaxFetchAttempts]
    /\ tries \in [Jobs -> 0..MaxAttempts]
    /\ mishaps \in 0..MaxMishaps

Init ==
    /\ doc = [d \in Docs |-> [text |-> FALSE, status |-> "none", attempts |-> 0]]
    /\ job = [j \in Jobs |-> [state |-> "free", of |-> NoDoc, attempts |-> 0, due |-> FALSE]]
    /\ worker = [w \in Workers |-> Idle]
    /\ browser = Idle
    /\ blamed = [d \in Docs |-> 0] /\ tries = [j \in Jobs |-> 0]
    /\ mishaps = 0

\* r's job leaves the queue.
Ended(r, state) == [state |-> state, of |-> r.of, attempts |-> 0, due |-> FALSE]

-----------------------------------------------------------------------------
(* Locks.                                                                  *)

\* The claim that is not committed yet holds the lock on the job's row.
Claims(w, j) == worker[w].pc = "running" /\ worker[w].job = j
JobLocked(j) == \E w \in Workers : Claims(w, j)

\* record_job_failure holds the document's row while it waits for the job's.
DocLocked(d) == \E w \in Workers : worker[w].pc = "recording" /\ job[worker[w].job].of = d

\* The document of w's job.
DocOf(w) == job[worker[w].job].of

-----------------------------------------------------------------------------
(* The queue.                                                              *)

Queued(j) == job[j].state = "queued"
Claimable(j) == Queued(j) /\ job[j].due

\* Mutant: the spent documents are known by their status only.
PendingByStatus(d) ==
    /\ ~doc[d].text /\ doc[d].status \notin Terminal
    /\ ~\E j \in Jobs : Queued(j) /\ job[j].of = d

\* What enqueue_fulltext_jobs selects, of what is committed.
Pending(d) ==
    /\ ~doc[d].text /\ doc[d].status \notin Terminal
    /\ doc[d].attempts < MaxFetchAttempts
    /\ ~\E j \in Jobs : Queued(j) /\ job[j].of = d

\* The top-up: too few claimable jobs, so the pending documents are read ...
TopupReads(w) ==
    /\ worker[w] = Idle
    /\ Cardinality({j \in Jobs : Claimable(j)}) < TopupFloor
    /\ \E d \in Docs : Pending(d)
    /\ worker' = [worker EXCEPT ![w] = [pc |-> "topup", found |-> {d \in Docs : Pending(d)}]]
    /\ UNCHANGED <<doc, job, browser, blamed, tries, mishaps>>

\* A row nobody refers to: a new one takes its place.
Spare(j) ==
    /\ ~Queued(j)
    /\ \A w \in Workers : worker[w].pc \in {"running", "failed", "recording"} => worker[w].job # j

\* ... and a job is inserted for each of them.
TopupInserts(w) ==
    /\ worker[w].pc = "topup"
    /\ \E at \in Injection(worker[w].found, {j \in Jobs : Spare(j)}) :
           LET inserted == {at[d] : d \in worker[w].found}
               for(j) == CHOOSE d \in worker[w].found : at[d] = j IN
           /\ job' = [j \in Jobs |-> IF j \notin inserted THEN job[j] ELSE
                  [state |-> "queued", of |-> for(j), attempts |-> 0, due |-> TRUE]]
           /\ tries' = [j \in Jobs |-> IF j \in inserted THEN 0 ELSE tries[j]]
    /\ worker' = [worker EXCEPT ![w] = Idle]
    /\ UNCHANGED <<doc, browser, blamed, mishaps>>

\* Mutant: the count is read off the row after the rollback has undone it.
AttemptsAfterRollback(j) == Max({job[j].attempts, 1})

\* job.attempts + 1, read while the claim is live.
ClaimedAttempts(j) == job[j].attempts + 1

\* claim_job, FOR UPDATE SKIP LOCKED; then the job's document is loaded.
Claim(w, j) ==
    /\ worker[w] = Idle
    /\ Claimable(j) /\ ~JobLocked(j)
    /\ worker' = [worker EXCEPT ![w] = [pc |-> "running", job |-> j,
                      claimed |-> ClaimedAttempts(j), copy |-> doc[job[j].of]]]
    /\ tries' = [tries EXCEPT ![j] = Min({@ + 1, MaxAttempts})]
    /\ UNCHANGED <<doc, job, browser, blamed, mishaps>>

-----------------------------------------------------------------------------
(* The outcome of a fetch.                                                 *)

\* A document after UPDATE has set the columns of new that differ from copy's.
Changed(current, copy, new) ==
    [c \in DOMAIN current |-> IF new[c] # copy[c] THEN new[c] ELSE current[c]]

\* persist_extraction_outcome: text was extracted, or there is none in the bytes.
Extracted(copy, text) ==
    IF text THEN [text |-> TRUE, status |-> "ok", attempts |-> 0]
            ELSE [copy EXCEPT !.text = FALSE, !.status = "unfetchable"]

\* Process the job to its end: the document is written, complete_job, commit.
Complete(w) ==
    /\ worker[w].pc = "running"
    /\ LET j == worker[w].job
           d == DocOf(w) IN
       /\ ~DocLocked(d)
       /\ \E text \in BOOLEAN :
              doc' = [doc EXCEPT ![d] = Changed(@, worker[w].copy, Extracted(worker[w].copy, text))]
       /\ job' = [job EXCEPT ![j] = Ended(@, "done")]
    /\ worker' = [worker EXCEPT ![w] = Idle]
    /\ UNCHANGED <<browser, blamed, tries, mishaps>>

\* What the document's own host or bytes do to its fetch: an error that may pass
\* (a fetch error, a redirect loop), a robots verdict, another lasting one, and
\* the docket the Massachusetts API does not know, whose job is retried.
OwnFailures ==
    {[status |-> "fetch_error", charge |-> TRUE, terminal |-> FALSE],
     [status |-> "robots_disallowed", charge |-> TRUE, terminal |-> TRUE],
     [status |-> "unfetchable", charge |-> TRUE, terminal |-> TRUE],
     [status |-> "unfetchable", charge |-> TRUE, terminal |-> FALSE]}

\* Mutant: an unclassified failure is charged to the document in flight.
WorkerErrorCharged == [status |-> "worker_error", charge |-> TRUE, terminal |-> FALSE]

\* classify_job_failure, of what is not the document's doing.
WorkerError == [status |-> "worker_error", charge |-> FALSE, terminal |-> FALSE]

\* The claim is rolled back: the job is queued and due as it was.
RollBack(w, failure) ==
    worker' = [worker EXCEPT ![w] = [pc |-> "failed", job |-> worker[w].job,
                                     claimed |-> worker[w].claimed, failure |-> failure]]

\* process_fetch_text_job marks the document and raises.  The mark takes the
\* document's lock, unless it is the one the document bears already.
FetchFails(w) ==
    /\ worker[w].pc = "running"
    /\ \E failure \in OwnFailures :
           /\ DocLocked(DocOf(w)) => failure.status = worker[w].copy.status
           /\ RollBack(w, failure)
    /\ blamed' = [blamed EXCEPT ![DocOf(w)] = Min({@ + 1, MaxFetchAttempts})]
    /\ UNCHANGED <<doc, job, browser, tries, mishaps>>

\* The database, the object store or the worker's own code fails, or the session
\* is killed for sitting idle in its transaction through the fetch.
Outage(w) ==
    /\ worker[w].pc = "running" /\ mishaps < MaxMishaps
    /\ RollBack(w, WorkerError)
    /\ mishaps' = mishaps + 1
    /\ UNCHANGED <<doc, job, browser, blamed, tries>>

\* w waits for the document with the job's lock in hand, v for the job with the
\* document's: the server aborts w, the last to wait.
Deadlock(w, v) ==
    /\ worker[w].pc = "running"
    /\ worker[v].pc = "recording" /\ worker[v].job = worker[w].job
    /\ RollBack(w, WorkerError)
    /\ UNCHANGED <<doc, job, browser, blamed, tries, mishaps>>

-----------------------------------------------------------------------------
(* record_job_failure.                                                     *)

\* A failure that spends an attempt (a terminal status does not).
Charged(failure) == failure.charge /\ failure.status \notin Terminal

\* Mutant: the row keeps its count.
AfterFailureUncharged(d, failure) == [d EXCEPT !.status = failure.status]

\* The document's row after the failure; the last attempt is the end of it.
AfterFailure(d, failure) ==
    LET attempts == d.attempts + 1 IN
    IF ~Charged(failure) THEN [d EXCEPT !.status = failure.status]
    ELSE IF attempts >= MaxFetchAttempts
         THEN [d EXCEPT !.status = "permanently_failed", !.attempts = MaxFetchAttempts]
         ELSE [d EXCEPT !.status = failure.status, !.attempts = attempts]

\* The failure ends its job, be it of a terminal kind or the document's last.
EndsJob(d, failure) ==
    failure.terminal
    \/ (Charged(failure) /\ AfterFailure(d, failure).status = "permanently_failed")

\* Mutant: a job is dead one attempt early.
AfterAttemptEarly(r, claimed, ends) ==
    IF ends \/ claimed + 1 >= MaxAttempts
    THEN Ended(r, "dead")
    ELSE [state |-> "queued", of |-> r.of, attempts |-> claimed, due |-> FALSE]

\* Mutant: the cap lets one attempt more through.
AfterAttemptLate(r, claimed, ends) ==
    IF ends \/ claimed > MaxAttempts
    THEN Ended(r, "dead")
    ELSE [state |-> "queued", of |-> r.of, attempts |-> claimed, due |-> FALSE]

\* dead_letter_job or fail_job.
AfterAttempt(r, claimed, ends) ==
    IF ends \/ claimed >= MaxAttempts
    THEN Ended(r, "dead")
    ELSE [state |-> "queued", of |-> r.of, attempts |-> claimed, due |-> FALSE]

\* SELECT ... FOR UPDATE on the document.
RecordDocument(w) ==
    /\ worker[w].pc = "failed"
    /\ ~DocLocked(DocOf(w))
    /\ worker' = [worker EXCEPT ![w].pc = "recording"]
    /\ UNCHANGED <<doc, job, browser, blamed, tries, mishaps>>

\* The job is written, as soon as no claim locks it, and both are committed.
\* Neither row can have changed meanwhile: whoever ends a job writes its document.
RecordJob(w) ==
    /\ worker[w].pc = "recording"
    /\ LET j == worker[w].job
           d == DocOf(w)
           failure == worker[w].failure IN
       /\ ~JobLocked(j)
       /\ doc' = [doc EXCEPT ![d] = AfterFailure(@, failure)]
       /\ job' = [job EXCEPT ![j] =
                     AfterAttempt(@, worker[w].claimed, EndsJob(doc[d], failure))]
    /\ worker' = [worker EXCEPT ![w] = Idle]
    /\ UNCHANGED <<browser, blamed, tries, mishaps>>

\* The worker dies, of a signal or of an exception outside its per-job handlers
\* (one in record_job_failure is), and is started again.
Crash(w) ==
    /\ worker[w] # Idle /\ mishaps < MaxMishaps
    /\ worker' = [worker EXCEPT ![w] = Idle]
    /\ mishaps' = mishaps + 1
    /\ UNCHANGED <<doc, job, browser, blamed, tries>>

-----------------------------------------------------------------------------
(* The attended browser.                                                   *)

\* select_browser_documents
BrowserLists ==
    /\ browser = Idle
    /\ \E d \in Docs :
           /\ doc[d].status \in {"robots_disallowed", "fetch_error", "permanently_failed"}
           /\ ~doc[d].text
           /\ browser' = [pc |-> "listed", of |-> d]
    /\ UNCHANGED <<doc, job, worker, blamed, tries, mishaps>>

\* The document's turn comes: it is read again, and skipped if it has text.
BrowserRefreshes ==
    /\ browser.pc = "listed"
    /\ LET d == browser.of IN
       browser' = IF doc[d].text THEN Idle ELSE [pc |-> "fetching", of |-> d, copy |-> doc[d]]
    /\ UNCHANGED <<doc, job, worker, blamed, tries, mishaps>>

\* The fetch ends in bytes.
BrowserFetches ==
    /\ browser.pc = "fetching"
    /\ ~DocLocked(browser.of)
    /\ \E text \in BOOLEAN :
           doc' = [doc EXCEPT ![browser.of] =
                      Changed(@, browser.copy, Extracted(browser.copy, text))]
    /\ browser' = Idle
    /\ UNCHANGED <<job, worker, blamed, tries, mishaps>>

\* It ends in another status than 200: _charge_fetch_error counts on from the
\* copy.  The note of the last attempt bears its time, so it is always written.
BrowserCharges ==
    /\ browser.pc = "fetching"
    /\ ~DocLocked(browser.of)
    /\ LET d == browser.of
           new == AfterFailure(browser.copy,
                      [status |-> "fetch_error", charge |-> TRUE, terminal |-> FALSE])
           written == Changed(doc[d], browser.copy, new) IN
       doc' = [doc EXCEPT ![d] =
                  IF new.status = "permanently_failed" THEN [written EXCEPT !.status = new.status]
                                                       ELSE written]
    /\ blamed' = [blamed EXCEPT ![browser.of] = Min({@ + 1, MaxFetchAttempts})]
    /\ browser' = Idle
    /\ UNCHANGED <<job, worker, tries, mishaps>>

\* The tunnel is lost, or the path to the browser fails: nothing is charged.
BrowserStops ==
    /\ browser # Idle
    /\ browser' = Idle
    /\ UNCHANGED <<doc, job, worker, blamed, tries, mishaps>>

-----------------------------------------------------------------------------
\* reset-fetch-attempts, the whole row in one UPDATE.
Reset(d) ==
    /\ mishaps < MaxMishaps
    /\ doc[d].attempts > 0 \/ doc[d].status \in {"permanently_failed", "worker_error"}
    /\ ~DocLocked(d)
    /\ doc' = [doc EXCEPT ![d].attempts = 0,
                   ![d].status = IF @ \in {"permanently_failed", "worker_error"} THEN "none" ELSE @]
    /\ mishaps' = mishaps + 1
    /\ UNCHANGED <<job, worker, browser, blamed, tries>>

\* run_after passes.
BackoffElapses(j) ==
    /\ Queued(j) /\ ~job[j].due
    /\ job' = [job EXCEPT ![j].due = TRUE]
    /\ UNCHANGED <<doc, worker, browser, blamed, tries, mishaps>>

WorkerStep(w) ==
    \/ TopupReads(w) \/ TopupInserts(w)
    \/ Complete(w) \/ FetchFails(w) \/ \E v \in Workers : Deadlock(w, v)
    \/ RecordDocument(w) \/ RecordJob(w)

Next ==
    \/ \E w \in Workers :
           \/ \E j \in Jobs : Claim(w, j)
           \/ WorkerStep(w) \/ Outage(w) \/ Crash(w)
    \/ BrowserLists \/ BrowserRefreshes \/ BrowserFetches \/ BrowserCharges \/ BrowserStops
    \/ \E d \in Docs : Reset(d)
    \/ \E j \in Jobs : BackoffElapses(j)

Spec == Init /\ [][Next]_vars

\* The workers run, a fetch ends (its timeouts see to that), and so does a wait
\* for a lock; the oldest job is claimed first, so each has its turn; time passes.
Fairness ==
    /\ \A w \in Workers : SF_vars(WorkerStep(w))
    /\ \A j \in Jobs : SF_vars(\E w \in Workers : Claim(w, j)) /\ WF_vars(BackoffElapses(j))

FairSpec == Spec /\ Fairness

-----------------------------------------------------------------------------
\* A document's retry budget is spent by its own failures only: an outage, a
\* deadlock, a crash or a lost update of somebody else's never costs it an attempt
\* (classify_job_failure, record_job_failure's count_attempt).
ChargesEarned == \A d \in Docs : doc[d].attempts <= blamed[d]

\* A job is dead-lettered for a verdict on its document, or after MaxAttempts claims
\* of it, however the records of its failures interleave.
DeadIsEarned ==
    [][\A j \in Jobs :
          job[j].state # "dead" /\ job'[j].state = "dead"
              => tries[j] = MaxAttempts \/ doc'[job[j].of].status \in Terminal]_vars

\* A document that stays spent comes to rest: no late record of a failure, whatever
\* status it leaves, keeps a job of it in the queue for ever or gets it enqueued
\* again and again (enqueue_fulltext_jobs against record_job_failure).
SpentRests ==
    \A d \in Docs :
        <>[](doc[d].attempts = MaxFetchAttempts)
            => <>[](\A j \in Jobs : Queued(j) => job[j].of # d)

\* No job is retried for ever: whatever fails and overlaps, its attempts add up
\* and it leaves the queue (record_job_failure's claimed_attempts).
JobsEnd == \A j \in Jobs : []<>~Queued(j)

\* Nor is a document: sooner or later it has its text, a verdict, or a spent budget
\* (the two workers and the browser "can only DELAY the cap, never break it").
Settled(d) ==
    doc[d].text \/ doc[d].status \in Terminal \/ doc[d].attempts = MaxFetchAttempts
DocumentsSettle == \A d \in Docs : []<>Settled(d)

\* queue.py: "queued -> running -> done", "without ... double-processing a job" --
\* a job that is done is done.
DoneIsFinal ==
    [][\A j \in Jobs :
          job[j].state = "done" /\ job'[j].state \in {"queued", "dead"} => tries'[j] = 0]_vars
=============================================================================
