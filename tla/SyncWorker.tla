------------------------------ MODULE SyncWorker ------------------------------
(***************************************************************************)
(* The nightly metadata refresh of one jurisdiction: the schedule pass     *)
(* that enqueues its api_sync jobs, the sync workers that run them against *)
(* the Open States v3 listing, the re-derivation of the statuses of the    *)
(* bills a run touched, and the operator's two commands over the same      *)
(* code: a manual api-sync and the replay of a window of time.             *)
(*                                                                         *)
(* A run is one transaction, held open over minutes of paced requests.     *)
(* Upstream goes on changing meanwhile, and so may another run of the same *)
(* jurisdiction: nothing locks one out.  A bill's version is the upstream  *)
(* instant of its last change; what a run stores of it, and what its       *)
(* status was last derived from, are versions too.  Versions stand for the *)
(* fields and actions a later sync overwrites in place; versions texts,    *)
(* documents and sponsors only accumulate and are not followed.            *)
(***************************************************************************)
EXTENDS Integers, FiniteSets, FiniteSetsExt, Functions

CONSTANTS
    Workers,      \* sync-worker processes
    Operators,    \* operators at a shell
    Jobs,         \* bound: the api_sync rows there is room for
    Bills,        \* the jurisdiction's bills: numbers, which break ties upstream
    PageSize,     \* per_page
    MaxPages,     \* MAX_PAGES_PER_RUN
    ChunkPages,   \* --commit-pages of a replay, at most its page budget
    MaxJobs,      \* --max-jobs of a cycle
    MaxAttempts,  \* DEFAULT_MAX_ATTEMPTS of a job
    Cadence,      \* cadence_minutes of the jurisdiction's tier
    Day,          \* instants in a UTC day
    DailyBudget,  \* requests a process may send in a day
    Horizon,      \* bound: the last instant
    MaxMishaps    \* bound: crashes, failures and operator commands, together

ASSUME SyncAssumption ==
    /\ Bills \subseteq Nat /\ IsFiniteSet(Bills)
    /\ Workers \cap Operators = {}
    /\ PageSize \in Nat \ {0} /\ MaxPages \in Nat \ {0} /\ MaxJobs \in Nat \ {0}
    /\ ChunkPages \in Nat \ {0}
    /\ MaxAttempts \in Nat \ {0} /\ Cadence \in Nat \ {0} /\ Day \in Nat \ {0}
    /\ DailyBudget \in Nat \ {0} /\ Horizon \in Nat \ {0} /\ MaxMishaps \in Nat

VARIABLES
    now,
    stamp,      \* upstream, per bill: when it last changed
    have,       \* per bill: the version stored, as committed
    derived,    \* per bill: the version its status was last derived from
    watermark,  \* the latest started_at of a successful run, 0 if there is none
    job,        \* per ingest_jobs row, as committed
    actor,      \* per process: what it is at
    spent,      \* per process: the requests it sent today
    failures,   \* per job: the runs of it that failed, budget apart
    excused,    \* bills a truncated run left out or a late run wrote back
    dropped,    \* bills whose re-derivation was lost
    replay,     \* per operator: the replay in progress, its window, what it owes and got
    mishaps

vars == <<now, stamp, have, derived, watermark, job, actor, spent,
          failures, excused, dropped, replay, mishaps>>

Actors == Workers \cup Operators
Instants == 0..Horizon
NoJob == "no job"
Versions == UNION {[some -> Instants] : some \in SUBSET Bills}

JobRows == [state : {"free", "queued", "done", "dead"}, created : Instants,
            after : 0..(Horizon + Day), attempts : 0..MaxAttempts]

\* A run: whose job it is and the count of its claim, or which command; the
\* updated_since it asks for and its started_at; the bills as its session
\* loaded them; the next page; the pages it fetched; the page in hand, and
\* whether upstream says there are more; the bills a replay has read; and what
\* the run wrote and did not commit.
Runs == [kind : {"job", "api-sync", "replay"}, job : Jobs \cup {NoJob},
         claimed : 0..MaxAttempts, since : Instants, started : Instants,
         loaded : [Bills -> Instants], page : Nat \ {0}, fetched : Nat,
         got : Versions, more : BOOLEAN, seen : SUBSET Bills, wrote : Versions]

\* `pending` is touched_this_cycle and pending_status_bills together, and `ran`
\* what the cycle has processed and failed.
Idle == [pc |-> "schedule", ran |-> 0, pending |-> {}]
ActorStates ==
    [pc : {"schedule", "drain", "derive"}, ran : 0..MaxJobs, pending : SUBSET Bills]
    \cup [pc : {"planned"}, ran : 0..MaxJobs, pending : SUBSET Bills, at : Instants]
    \cup [pc : {"fetch", "write", "commit"}, ran : 0..MaxJobs,
          pending : SUBSET Bills, run : Runs]
    \cup [pc : {"defer", "fail"}, ran : 0..MaxJobs, pending : SUBSET Bills,
          job : Jobs, claimed : 1..MaxAttempts]
    \cup [pc : {"deriving"}, ran : 0..MaxJobs, pending : SUBSET Bills, change : Versions]

\* `owes` is the listing of the window when the replay began, `got` the bills
\* its committed chunks have read, `page` where it resumes, 0 if there is none.
Replays == [page : Nat, since : Instants, owes : Versions, got : SUBSET Bills]
NoReplay == [page |-> 0, since |-> 0, owes |-> <<>>, got |-> {}]

TypeOK ==
    /\ now \in Instants
    /\ stamp \in [Bills -> Instants] /\ have \in [Bills -> Instants]
    /\ derived \in [Bills -> Instants]
    /\ watermark \in Instants
    /\ job \in [Jobs -> JobRows]
    /\ actor \in [Actors -> ActorStates]
    /\ spent \in [Actors -> 0..DailyBudget]
    /\ failures \in [Jobs -> 0..MaxAttempts]
    /\ excused \in SUBSET Bills /\ dropped \in SUBSET Bills
    /\ replay \in [Operators -> Replays]
    /\ mishaps \in 0..MaxMishaps

\* The bulk load brought the bills and their statuses; nothing was synced yet.
Init ==
    /\ now = 1
    /\ stamp = [b \in Bills |-> 0] /\ have = stamp /\ derived = stamp
    /\ watermark = 0
    /\ job = [j \in Jobs |-> [state |-> "free", created |-> 0, after |-> 0, attempts |-> 0]]
    /\ actor = [a \in Actors |-> Idle]
    /\ spent = [a \in Actors |-> 0]
    /\ failures = [j \in Jobs |-> 0]
    /\ excused = {} /\ dropped = {}
    /\ replay = [o \in Operators |-> NoReplay]
    /\ mishaps = 0

Mishap == mishaps < MaxMishaps /\ mishaps' = mishaps + 1

At(a, pc) == actor[a].pc = pc
InRun(a) == actor[a].pc \in {"fetch", "write", "commit"}
Run(a) == actor[a].run
\* a goes to pc, with nothing but what it carries between the steps of a cycle.
Goes(a, pc, ran) == [actor EXCEPT ![a] = [pc |-> pc, ran |-> ran, pending |-> @.pending]]
WithRun(a, pc, run) ==
    [actor EXCEPT ![a] = [pc |-> pc, ran |-> @.ran, pending |-> @.pending, run |-> run]]

-----------------------------------------------------------------------------
(* The world.                                                              *)

\* A bill changes upstream.
Change(b) ==
    /\ stamp[b] < now
    /\ stamp' = [stamp EXCEPT ![b] = now]
    /\ excused' = excused \ {b}
    /\ UNCHANGED <<now, have, derived, watermark, job, actor, spent, failures,
                   dropped, replay, mishaps>>

Midnight(t) == t % Day = 0
NextMidnight == now - (now % Day) + Day

\* Time passes; every process's budget is per UTC date.
Tick ==
    /\ now < Horizon
    /\ now' = now + 1
    /\ spent' = IF Midnight(now') THEN [a \in Actors |-> 0] ELSE spent
    /\ UNCHANGED <<stamp, have, derived, watermark, job, actor, failures, excused,
                   dropped, replay, mishaps>>

-----------------------------------------------------------------------------
(* The schedule pass.                                                      *)

\* Mutant: a pass that does not ask for the advisory lock.
NobodyAsks(a) == TRUE

\* pg_try_advisory_xact_lock: nobody else is between its read and its commit.
LockFree(a) == \A o \in Actors \ {a} : ~At(o, "planned")

\* _last_enqueued_at: a dead job does not count.
LastEnqueued == {job[j].created : j \in {i \in Jobs : job[i].state \in {"queued", "done"}}}

\* Never enqueued, or a cadence ago.
IsDue == \A created \in LastEnqueued : now - created >= Cadence

\* run_schedule_pass up to its read.  Without the lock it returns at once, and
\* so it does when nothing is due.
SchedulePass(a) ==
    /\ At(a, "schedule")
    /\ a \in Operators => mishaps < MaxMishaps
    /\ actor' = IF LockFree(a) /\ IsDue
                THEN [actor EXCEPT ![a] = [pc |-> "planned", ran |-> 0, pending |-> @.pending, at |-> now]]
                ELSE Goes(a, IF a \in Workers THEN "drain" ELSE "schedule", 0)
    /\ UNCHANGED <<now, stamp, have, derived, watermark, job, spent, failures,
                   excused, dropped, replay, mishaps>>

\* The insert, and the commit that releases the lock.  created_at and run_after
\* are the transaction's start.
Enqueue(a) ==
    /\ At(a, "planned")
    /\ \E j \in Jobs :
           /\ job[j].state = "free"
           /\ job' = [job EXCEPT ![j] = [state |-> "queued", created |-> actor[a].at,
                                         after |-> actor[a].at, attempts |-> 0]]
    /\ actor' = Goes(a, IF a \in Workers THEN "drain" ELSE "schedule", 0)
    /\ UNCHANGED <<now, stamp, have, derived, watermark, spent, failures, excused,
                   dropped, replay, mishaps>>

\* The pass fails, or the bound on rows is reached: the worker drains all the same.
PassFails(a) ==
    /\ At(a, "planned")
    /\ actor' = Goes(a, IF a \in Workers THEN "drain" ELSE "schedule", 0)
    /\ UNCHANGED <<now, stamp, have, derived, watermark, job, spent, failures,
                   excused, dropped, replay, mishaps>>

-----------------------------------------------------------------------------
(* The upstream listing: newest first, so a bill that changes while it is  *)
(* read goes to the front and moves the others down.                       *)

Listed(since) == {b \in Bills : stamp[b] >= since}
Before(b, c) == stamp[b] > stamp[c] \/ (stamp[b] = stamp[c] /\ b < c)
Rank(b, since) == Cardinality({c \in Listed(since) : Before(c, b)})
PageOf(b, since) == Rank(b, since) \div PageSize + 1
Page(p, since) == {b \in Listed(since) : PageOf(b, since) = p}
IsMore(p, since) == p * PageSize < Cardinality(Listed(since))

-----------------------------------------------------------------------------
(* The beginning of a run.                                                 *)

NewRun(kind, j, claimed, since, page) ==
    [kind |-> kind, job |-> j, claimed |-> claimed, since |-> since, started |-> now,
     loaded |-> have, page |-> page, fetched |-> 0, got |-> <<>>, more |-> FALSE,
     seen |-> {}, wrote |-> <<>>]

\* The claim is not committed before the run is: it holds the row's lock.
JobLocked(j) == \E a \in Actors : InRun(a) /\ Run(a).job = j
Claimable == {j \in Jobs : job[j].state = "queued" /\ job[j].after <= now /\ ~JobLocked(j)}

\* claim_job, skipping locked rows, then run_api_sync_job up to the first page.
Claim(w) ==
    /\ At(w, "drain") /\ actor[w].ran < MaxJobs
    /\ \E j \in Claimable :
           /\ \A i \in Claimable : job[j].after <= job[i].after
           /\ actor' = WithRun(w, "fetch", NewRun("job", j, job[j].attempts + 1, watermark, 1))
    /\ UNCHANGED <<now, stamp, have, derived, watermark, job, spent, failures,
                   excused, dropped, replay, mishaps>>

\* Nothing to claim, or max_jobs: on to the statuses, or to the next cycle.
DrainEnds(w) ==
    /\ At(w, "drain")
    /\ Claimable = {} \/ actor[w].ran = MaxJobs
    /\ actor' = Goes(w, IF actor[w].pending = {} THEN "schedule" ELSE "derive", 0)
    /\ UNCHANGED <<now, stamp, have, derived, watermark, job, spent, failures,
                   excused, dropped, replay, mishaps>>

\* cmd_api_sync: the same run, of no job.
ManualSync(o) ==
    /\ At(o, "schedule") /\ Mishap
    /\ actor' = WithRun(o, "fetch", NewRun("api-sync", NoJob, 0, watermark, 1))
    /\ UNCHANGED <<now, stamp, have, derived, watermark, job, spent, failures,
                   excused, dropped, replay>>

\* run_api_versions_backfill, from its first page with a --since of the
\* operator's choice, or from the page a run of it told to resume at.
ReplayChunk(o) ==
    /\ At(o, "schedule")
    /\ \/ /\ replay[o].page = 0 /\ Mishap
          /\ \E since \in 1..now :
                 replay' = [replay EXCEPT ![o] = [page |-> 1, since |-> since, got |-> {},
                                                  owes |-> [b \in Listed(since) |-> stamp[b]]]]
       \/ replay[o].page # 0 /\ UNCHANGED <<replay, mishaps>>
    /\ actor' = WithRun(o, "fetch", NewRun("replay", NoJob, 0, replay'[o].since, replay'[o].page))
    /\ UNCHANGED <<now, stamp, have, derived, watermark, job, spent, failures,
                   excused, dropped>>

-----------------------------------------------------------------------------
(* The pages of a run.                                                     *)

\* search_bills, counted against the budget right before it is sent.
FetchPage(a) ==
    /\ At(a, "fetch") /\ spent[a] < DailyBudget
    /\ spent' = [spent EXCEPT ![a] = @ + 1]
    /\ LET r == Run(a) IN
       actor' = WithRun(a, "write",
           [r EXCEPT !.got = [b \in Page(r.page, r.since) |-> stamp[b]],
                     !.more = IsMore(r.page, r.since), !.fetched = @ + 1])
    /\ UNCHANGED <<now, stamp, have, derived, watermark, job, failures, excused,
                   dropped, replay, mishaps>>

\* A timeout, a 429 or a 5xx that is retried costs one more request.
RequestRetried(a) ==
    /\ At(a, "fetch") /\ spent[a] < DailyBudget /\ Mishap
    /\ spent' = [spent EXCEPT ![a] = @ + 1]
    /\ UNCHANGED <<now, stamp, have, derived, watermark, job, actor, failures,
                   excused, dropped, replay>>

\* What a's session holds of a bill: its own write, or what it loaded.
Known(a, b) == IF b \in DOMAIN Run(a).wrote THEN Run(a).wrote[b] ELSE Run(a).loaded[b]
\* The bills of the page in hand whose rows change: the others are left alone.
Changed(a) == {b \in DOMAIN Run(a).got : Run(a).got[b] # Known(a, b)}
\* The others whose uncommitted writes lock some of them.
Blockers(a) == {o \in Actors \ {a} : InRun(o) /\ Changed(a) \cap DOMAIN Run(o).wrote # {}}

\* The page is written and flushed, and the loop ends on an empty page, on
\* upstream's last page or on the call's own budget, or goes to the next page.
WritePage(a) ==
    /\ At(a, "write") /\ Blockers(a) = {}
    /\ LET r == Run(a)
           wrote == [b \in DOMAIN r.wrote \cup Changed(a) |->
                        IF b \in DOMAIN r.got THEN r.got[b] ELSE r.wrote[b]]
           budget == IF r.kind = "replay" THEN ChunkPages ELSE MaxPages
           over == ~r.more \/ r.fetched = budget IN
       actor' = WithRun(a, IF over THEN "commit" ELSE "fetch",
           [r EXCEPT !.wrote = wrote, !.page = IF r.more THEN @ + 1 ELSE @, !.got = <<>>,
                     !.seen = IF r.kind = "replay" THEN @ \cup DOMAIN r.got ELSE {}])
    /\ UNCHANGED <<now, stamp, have, derived, watermark, job, spent, failures,
                   excused, dropped, replay, mishaps>>

\* result.next_page is set: the call stopped before upstream's last page.
Truncated(a) == Run(a).more

-----------------------------------------------------------------------------
(* The end of a run.                                                       *)

\* The rows of a's transaction, as they are once it commits.
Stored(a) == [b \in Bills |-> IF b \in DOMAIN Run(a).wrote THEN Run(a).wrote[b] ELSE have[b]]

\* Bills a run that becomes the watermark leaves out when it is cut short, and
\* bills it writes back over what another run has since stored.
LeftOut(a) ==
    {b \in Bills : Truncated(a) /\ Run(a).kind # "replay" /\ stamp[b] < Run(a).started}
WrittenBack(a) == {b \in Bills : Stored(a)[b] < have[b]}
Excused(a) ==
    (excused \cup LeftOut(a) \cup WrittenBack(a)) \ {b \in Bills : Stored(a)[b] = stamp[b]}

\* Mutant: the watermark is the run's finished_at.
AdvanceToFinish(a) == Max({watermark, now})

\* func.max(started_at) over the successful runs, this one included.
Advance(a) == Max({watermark, Run(a).started})

\* The run is a success, complete or truncated; complete_job and one commit.
\* The touched bills are only then remembered.
CommitJob(w) ==
    /\ At(w, "commit") /\ Run(w).kind = "job"
    /\ have' = Stored(w) /\ watermark' = Advance(w) /\ excused' = Excused(w)
    /\ job' = [job EXCEPT ![Run(w).job].state = "done"]
    /\ actor' = [actor EXCEPT ![w] = [pc |-> "drain", ran |-> @.ran + 1,
                                      pending |-> @.pending \cup DOMAIN @.run.wrote]]
    /\ UNCHANGED <<now, stamp, derived, spent, failures, dropped, replay, mishaps>>

\* cmd_api_sync commits and prints: nobody re-derives what it touched.
CommitManual(o) ==
    /\ At(o, "commit") /\ Run(o).kind = "api-sync"
    /\ have' = Stored(o) /\ watermark' = Advance(o) /\ excused' = Excused(o)
    /\ dropped' = dropped \cup DOMAIN Run(o).wrote
    /\ actor' = Goes(o, "schedule", 0)
    /\ UNCHANGED <<now, stamp, derived, job, spent, failures, replay, mishaps>>

\* Mutant: the page after the next.
ResumesPast(page) == page + 1

\* result.next_page, where the next chunk begins.
Resumes(page) == page

\* A chunk of a replay commits, and leaves the watermark alone.  It reads
\* one chunk of commit_pages pages per transaction.
CommitChunk(o) ==
    /\ At(o, "commit") /\ Run(o).kind = "replay"
    /\ have' = Stored(o) /\ excused' = Excused(o)
    /\ dropped' = dropped \cup DOMAIN Run(o).wrote
    /\ replay' = [replay EXCEPT ![o] =
           IF Truncated(o)
           THEN [page |-> Resumes(Run(o).page), since |-> @.since, owes |-> @.owes,
                 got |-> @.got \cup Run(o).seen]
           ELSE NoReplay]
    /\ actor' = Goes(o, "schedule", 0)
    /\ UNCHANGED <<now, stamp, derived, watermark, job, spent, failures, mishaps>>

\* Where an error takes a: its transaction, and the failed ingestion_runs row
\* with it, is rolled back; a replay keeps its page for the operator to resume.
RolledBack(a, pc) ==
    IF Run(a).kind = "job"
    THEN [actor EXCEPT ![a] = [pc |-> pc, ran |-> @.ran, pending |-> @.pending,
                               job |-> @.run.job, claimed |-> @.run.claimed]]
    ELSE Goes(a, "schedule", 0)

\* Mutant: our own brake is an exception like the others.
AnyException == "fail"

\* OpenStatesDailyBudgetExceeded has a handler of its own.
OwnHandler == "defer"
BudgetExceeded(a) ==
    /\ At(a, "fetch") /\ spent[a] = DailyBudget
    /\ actor' = RolledBack(a, OwnHandler)
    /\ UNCHANGED <<now, stamp, have, derived, watermark, job, spent, failures,
                   excused, dropped, replay, mishaps>>

\* Any other exception: the request fails for good, or the database does, which
\* it must when two runs wait for each other's rows.
RunFails(a) ==
    /\ InRun(a)
    /\ \/ Mishap
       \/ /\ \E o \in Actors : At(a, "write") /\ At(o, "write")
                               /\ o \in Blockers(a) /\ a \in Blockers(o)
          /\ UNCHANGED mishaps
    /\ actor' = RolledBack(a, "fail")
    /\ failures' = [j \in Jobs |-> IF j = Run(a).job THEN Min({failures[j] + 1, MaxAttempts})
                                   ELSE failures[j]]
    /\ UNCHANGED <<now, stamp, have, derived, watermark, job, spent, excused,
                   dropped, replay>>

\* The row still looks as the rollback left it: queued, and not claimed since.
AsRolledBack(j, claimed) == job[j].state = "queued" /\ job[j].attempts = claimed - 1

\* defer_job_for_budget, in a fresh transaction that waits for the row.
Defer(w) ==
    /\ At(w, "defer")
    /\ LET j == actor[w].job IN
       /\ ~JobLocked(j)
       /\ job' = IF AsRolledBack(j, actor[w].claimed)
                 THEN [job EXCEPT ![j].after = NextMidnight] ELSE job
    /\ actor' = Goes(w, "drain", actor[w].ran)
    /\ UNCHANGED <<now, stamp, have, derived, watermark, spent, failures, excused,
                   dropped, replay, mishaps>>

\* record_job_failure with fail_job: the count of the claim, and the backoff
\* or the dead letters.  It does not look at what the row has become.
RecordFailure(w) ==
    /\ At(w, "fail")
    /\ LET j == actor[w].job
           claimed == actor[w].claimed IN
       /\ ~JobLocked(j)
       /\ job' = [job EXCEPT ![j].attempts = claimed,
                             ![j].state = IF claimed >= MaxAttempts THEN "dead" ELSE "queued",
                             ![j].after = IF claimed >= MaxAttempts THEN @ ELSE now + 1]
    /\ actor' = Goes(w, "drain", actor[w].ran + 1)
    /\ UNCHANGED <<now, stamp, have, derived, watermark, spent, failures, excused,
                   dropped, replay, mishaps>>

-----------------------------------------------------------------------------
(* The statuses.                                                           *)

\* recompute_status_for_bills reads the pending bills, their statuses and their
\* actions, with no lock; a status that would not change is not written.
DeriveReads(w) ==
    /\ At(w, "derive")
    /\ LET moved == {b \in actor[w].pending : derived[b] # have[b]} IN
       actor' = [actor EXCEPT ![w] = [pc |-> "deriving", ran |-> @.ran, pending |-> @.pending,
                                      change |-> [b \in moved |-> have[b]]]]
    /\ UNCHANGED <<now, stamp, have, derived, watermark, job, spent, failures,
                   excused, dropped, replay, mishaps>>

\* The bills whose actions moved between the read and the write of w's pass.
Overtaken(w) == {b \in DOMAIN actor[w].change : actor[w].change[b] # have[b]}

\* It commits, and the worker forgets the bills.
DeriveCommits(w) ==
    /\ At(w, "deriving")
    /\ LET change == actor[w].change
           fresh == [b \in Bills |-> IF b \in DOMAIN change THEN change[b] ELSE derived[b]]
       IN  /\ derived' = fresh
           /\ dropped' = (dropped \cup Overtaken(w)) \ {b \in Bills : fresh[b] = have[b]}
    /\ actor' = [actor EXCEPT ![w] = Idle]
    /\ UNCHANGED <<now, stamp, have, watermark, job, spent, failures, excused,
                   replay, mishaps>>

\* Mutant: the set is emptied before the outcome is known.
Forgets(w) == {}

\* The bills are carried into the next cycle.
Carried(w) == actor[w].pending

DeriveFails(w) ==
    /\ At(w, "deriving") /\ Mishap
    /\ actor' = [actor EXCEPT ![w] = [pc |-> "schedule", ran |-> 0, pending |-> Carried(w)]]
    /\ UNCHANGED <<now, stamp, have, derived, watermark, job, spent, failures,
                   excused, dropped, replay>>

-----------------------------------------------------------------------------
\* A process dies with whatever it had not committed; the sets are its memory,
\* and the count of requests too.
Crash(w) ==
    /\ actor[w] # Idle /\ Mishap
    /\ actor' = [actor EXCEPT ![w] = Idle]
    /\ spent' = [spent EXCEPT ![w] = 0]
    /\ dropped' = dropped \cup actor[w].pending
    /\ UNCHANGED <<now, stamp, have, derived, watermark, job, failures, excused, replay>>

Next ==
    \/ Tick
    \/ \E b \in Bills : Change(b)
    \/ \E a \in Actors :
           \/ SchedulePass(a) \/ Enqueue(a) \/ PassFails(a)
           \/ FetchPage(a) \/ RequestRetried(a) \/ WritePage(a)
           \/ BudgetExceeded(a) \/ RunFails(a)
    \/ \E w \in Workers :
           \/ Claim(w) \/ DrainEnds(w) \/ CommitJob(w) \/ Defer(w) \/ RecordFailure(w)
           \/ DeriveReads(w) \/ DeriveCommits(w) \/ DeriveFails(w) \/ Crash(w)
    \/ \E o \in Operators : ManualSync(o) \/ ReplayChunk(o) \/ CommitManual(o) \/ CommitChunk(o)

Spec == Init /\ [][Next]_vars

-----------------------------------------------------------------------------
(* Properties.                                                             *)

\* A bill that changed upstream before the next run's updated_since, and was not
\* stored, is one a truncated run left out or a late run wrote back: the pages
\* of a run that is not cut short miss nothing, however upstream moves between
\* them, and nor does the started_at that becomes the watermark.
NothingMissed ==
    \A b \in Bills : have[b] < stamp[b] /\ stamp[b] < watermark => b \in excused

\* A status that does not follow from the bill's actions is waiting in a worker,
\* through every failure of the re-derivation, unless it was lost: with the
\* process, to a command that does not re-derive, or to a slower worker's write.
StaleStatusIsPending ==
    \A b \in Bills : derived[b] # have[b] =>
        b \in dropped \/ \E w \in Workers : b \in actor[w].pending

\* Running out of our own budget never counts against a job: it has been charged
\* no more attempts than it had failures, and is dead only for its own.
DeferralsAreFree ==
    \A j \in Jobs : /\ job[j].attempts <= failures[j]
                    /\ job[j].state = "dead" => failures[j] = MaxAttempts

\* A job is never enqueued within a cadence of one that is queued or done,
\* whoever else is passing: the quota is not burnt on a duplicate.  One that has
\* failed as often as makes it dead may be queued again by a late record of an
\* earlier failure, behind a pass that took it for dead.
NoDuplicateSync ==
    [][\A j, k \in Jobs :
           job[j].state = "free" /\ job'[j].state = "queued"
           /\ job[k].state \in {"queued", "done"} /\ failures[k] < MaxAttempts
               => job'[j].created - job[k].created >= Cadence]_vars

\* A replay that reports it is complete has read every bill its window had when
\* it began, unless the bill has changed since: chunks, failures and resumption
\* skip no page, although the listing moves.
ReplayCovers ==
    [][\A o \in Operators :
           replay[o].page # 0 /\ replay'[o].page = 0 =>
               \A b \in DOMAIN replay[o].owes :
                   b \in replay[o].got \cup Run(o).seen \/ stamp[b] > replay[o].owes[b]]_vars

=============================================================================
