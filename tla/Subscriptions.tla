---------------------------- MODULE Subscriptions ----------------------------
(***************************************************************************)
(* The life of webhook subscriptions up to their first delivery: created   *)
(* over the API, challenged by the dispatcher, promoted to verified or     *)
(* refused for quota, reactivated by their owner, and collected.  What a   *)
(* verified one receives is WebhookDelivery's matter, and so are two       *)
(* dispatchers at once: there is one here.                                 *)
(*                                                                         *)
(* Three parties count the seats that are taken and then take one: create, *)
(* reactivate, and the promotion of an answered challenge.  An advisory    *)
(* lock of the transaction excludes them from each other; those who only   *)
(* free seats do not ask for it.                                           *)
(***************************************************************************)
EXTENDS Integers, Sequences, FiniteSets, FiniteSetsExt, SequencesExt

CONSTANTS
    Subs,           \* row ids; each is used once
    Key,            \* per row: its url, kind, target and event_kinds
    Host,           \* per row: the registrable domain of its url
    Creator,        \* per row: its creator_ip
    Calls,          \* API requests that run at the same time
    MaxPerHost,     \* MAX_ACTIVE_PER_HOST (10)
    MaxGlobal,      \* MAX_ACTIVE_GLOBAL (500)
    MaxUnverified,  \* MAX_UNVERIFIED_PER_HOST (10), per host and creator
    MaxPerDay,      \* MAX_CREATIONS_PER_IP_PER_DAY (5)
    PageSize,       \* MAX_CHALLENGES_PER_TICK (10)
    MaxAttempts,    \* CHALLENGE_ATTEMPT_DISABLE_AFTER (10)
    MaxReturns,     \* bound: reactivations
    MaxCrashes      \* bound: restarts of the dispatcher

NoOne == "no one"

ASSUME SubscriptionsAssumption ==
    /\ IsFiniteSet(Subs) /\ IsFiniteSet(Calls) /\ NoOne \notin Calls
    /\ DOMAIN Key = Subs /\ DOMAIN Host = Subs /\ DOMAIN Creator = Subs
    /\ MaxPerHost \in Nat \ {0} /\ MaxGlobal \in Nat \ {0} /\ MaxUnverified \in Nat \ {0}
    /\ MaxPerDay \in Nat \ {0} /\ PageSize \in Nat \ {0} /\ MaxAttempts \in Nat \ {0}
    /\ MaxReturns \in Nat /\ MaxCrashes \in Nat

VARIABLES
    row,        \* webhook_subscriptions
    used,       \* the ids that were given out
    today,      \* per creator: its webhook_creation_events of the last day
    call,       \* per API request: where it is
    lock,       \* who holds _QUOTA_LOCK_KEY: a request, or NoOne
    page,       \* the dispatcher: the rows it has yet to challenge, in order
    posting,    \* whether the first of them is being challenged
    begun,      \* whether this run of challenges has attempted one
    overtaken,  \* per row and other row: how often the other was challenged
                \* since both have been waiting
    misread,    \* history: the rows that a reactivation brought back after it had
                \* read them as unverified and they had been verified meanwhile
    returns, crashes

hooksVars == <<row, used, today, call, lock, page, posting, begun, overtaken, misread,
               returns, crashes>>

NoRow == [gone |-> TRUE]
Now == Cardinality(Subs) + 1  \* the time of the run of challenges that goes on
Creators == {Creator[s] : s \in Subs}
Rows == [active : BOOLEAN, verified : BOOLEAN, attempts : 0..MaxAttempts,
         due : BOOLEAN,                 \* next_attempt_at has passed, or is NULL
         stamp : 0..Now,                \* challenge_attempted_at, by rank; 0 for NULL
         old : BOOLEAN]                 \* created_at is over 24 h ago or, of a
                                        \* disabled row, disabled_at over 7 days
Idle == [at |-> "idle"]
Stages == {Idle} \cup [at : {"insert"}, sub : Subs]
                 \cup [at : {"waits", "writes"}, sub : Subs, verified : BOOLEAN]

HooksTypeOK ==
    /\ row \in [Subs -> Rows \cup {NoRow}] /\ used \in SUBSET Subs
    /\ today \in [Creators -> 0..MaxPerDay]
    /\ call \in [Calls -> Stages] /\ lock \in Calls \cup {NoOne}
    /\ page \in Seq(Subs) /\ posting \in BOOLEAN /\ begun \in BOOLEAN
    /\ overtaken \in [Subs -> [Subs -> 0..2]]
    /\ misread \in SUBSET Subs /\ returns \in 0..MaxReturns /\ crashes \in 0..MaxCrashes

HooksInit ==
    /\ row = [s \in Subs |-> NoRow] /\ used = {} /\ today = [c \in Creators |-> 0]
    /\ call = [r \in Calls |-> Idle] /\ lock = NoOne
    /\ page = <<>> /\ posting = FALSE /\ begun = FALSE
    /\ overtaken = [s \in Subs |-> [o \in Subs |-> 0]]
    /\ misread = {} /\ returns = 0 /\ crashes = 0

There(s) == row[s] # NoRow
Verified(s) == There(s) /\ row[s].active /\ row[s].verified
Unverified(s) == There(s) /\ row[s].active /\ ~row[s].verified
SeatsOf(host) == Cardinality({s \in Subs : Verified(s) /\ Host[s] = host})
Seats == Cardinality({s \in Subs : Verified(s)})
Pool(host, creator) == Cardinality({s \in Subs : Unverified(s) /\ Host[s] = host /\ Creator[s] = creator})
SeatFree(s) == SeatsOf(Host[s]) < MaxPerHost /\ Seats < MaxGlobal
PoolFree(s) == Pool(Host[s], Creator[s]) < MaxUnverified

\* Mutant: no one is kept waiting.
NobodyWaits == TRUE

LockFree == lock = NoOne

\* s is a newcomer to the waiting: what it and the others had of turns is forgotten.
ForgetTurns(s) ==
    overtaken' = [o \in Subs |-> [x \in Subs |-> IF s \in {o, x} THEN 0 ELSE overtaken[o][x]]]

-----------------------------------------------------------------------------
(* routers/webhooks.py                                                     *)

api == <<page, posting, begun, crashes>>

\* create_webhook, up to its INSERT: the lock, and all the counts under it.
CreateCounts(r, s) ==
    /\ call[r] = Idle /\ s \notin used
    /\ LockFree
    /\ today[Creator[s]] < MaxPerDay /\ SeatFree(s) /\ PoolFree(s)
    /\ lock' = r
    /\ call' = [call EXCEPT ![r] = [at |-> "insert", sub |-> s]]
    /\ used' = used \cup {s}
    /\ UNCHANGED <<row, today, overtaken, misread, returns, api>>

\* The rest of it: the row and its creation event, or a conflict.
CreateCommits(r) ==
    /\ call[r].at = "insert"
    /\ LET s == call[r].sub IN
        IF \E o \in Subs : There(o) /\ Key[o] = Key[s]
        THEN UNCHANGED <<row, today, overtaken>>
        ELSE /\ row' = [row EXCEPT ![s] = [active |-> TRUE, verified |-> FALSE, attempts |-> 0,
                                           due |-> TRUE, stamp |-> 0, old |-> FALSE]]
             /\ today' = [today EXCEPT ![Creator[s]] = @ + 1]
             /\ ForgetTurns(s)
    /\ call' = [call EXCEPT ![r] = Idle]
    /\ lock' = NoOne
    /\ UNCHANGED <<used, misread, returns, api>>

\* reactivate_webhook reads the row, refuses one that is not disabled, and
\* waits for the lock with what it has read.
ReactivateReads(r, s) ==
    /\ call[r] = Idle /\ returns < MaxReturns
    /\ There(s) /\ ~row[s].active
    /\ call' = [call EXCEPT ![r] = [at |-> "waits", sub |-> s, verified |-> row[s].verified]]
    /\ returns' = returns + 1
    /\ UNCHANGED <<row, used, today, lock, overtaken, misread, api>>

\* It counts as one or the other, and refuses or goes on.
ReactivateCounts(r) ==
    /\ call[r].at = "waits"
    /\ LockFree
    /\ LET s == call[r].sub IN
        IF IF call[r].verified THEN SeatFree(s) ELSE PoolFree(s)
        THEN /\ lock' = r
             /\ call' = [call EXCEPT ![r].at = "writes"]
        ELSE /\ call' = [call EXCEPT ![r] = Idle]
             /\ UNCHANGED lock
    /\ UNCHANGED <<row, used, today, overtaken, misread, returns, api>>

\* It writes the row, if there still is one: a fresh challenge for one that it
\* has read as unverified.  What `verified` is by now it neither reads nor writes.
ReactivateCommits(r) ==
    /\ call[r].at = "writes"
    /\ LET s == call[r].sub IN
        IF ~There(s) THEN UNCHANGED <<row, overtaken, misread>>
        ELSE /\ row' = [row EXCEPT ![s] =
                  IF call[r].verified THEN [@ EXCEPT !.active = TRUE, !.due = TRUE]
                  ELSE [@ EXCEPT !.active = TRUE, !.due = TRUE, !.attempts = 0, !.stamp = 0, !.old = FALSE]]
             /\ misread' = IF row[s].verified = call[r].verified THEN misread \ {s}
                           ELSE misread \cup {s}
             /\ ForgetTurns(s)
    /\ call' = [call EXCEPT ![r] = Idle]
    /\ lock' = NoOne
    /\ UNCHANGED <<used, today, returns, api>>

\* delete_webhook
Delete(s) ==
    /\ There(s)
    /\ row' = [row EXCEPT ![s] = NoRow]
    /\ UNCHANGED <<used, today, call, lock, overtaken, misread, returns, api>>

-----------------------------------------------------------------------------
(* dispatch_webhooks.py                                                    *)

dispatcher == <<used, today, call, lock, misread, returns>>

\* gc_unverified_inactive
Collected(s) == There(s) /\ ~row[s].verified /\ ~row[s].active /\ row[s].old

Due == {s \in Subs : Unverified(s) /\ row[s].due}

\* Mutant: in no order.
AnyOrder(s, o) == TRUE

\* _challenge_order_by: the least recently attempted first, NULLS FIRST.
Earlier(s, o) == row[s].stamp <= row[o].stamp

\* Only the order of the stamps matters.
Rank(stamp) == Cardinality({row[o].stamp : o \in {x \in Subs : There(x)}} \cap 1..stamp)

\* run_challenges: collect, then select what is due, up to a page of it.
BeginChallenges ==
    /\ page = <<>>
    /\ \E p \in SetToSeqs(Due) :
        /\ \A i, j \in DOMAIN p : i < j => Earlier(p[i], p[j])
        /\ page' = SubSeq(p, 1, Min({PageSize, Len(p)}))
    /\ row' = [s \in Subs |-> IF Collected(s) \/ ~There(s) THEN NoRow
                               ELSE [row[s] EXCEPT !.stamp = Rank(@)]]
    /\ begun' = FALSE
    /\ UNCHANGED <<posting, overtaken, crashes, dispatcher>>

NextRow == page' = Tail(page) /\ posting' = FALSE

\* CHALLENGE_BUDGET_SECONDS are over; there is always time for one.
OutOfTime ==
    /\ page # <<>> /\ ~posting /\ begun
    /\ page' = <<>>
    /\ UNCHANGED <<row, posting, begun, overtaken, crashes, dispatcher>>

\* Never verified within CHALLENGE_GC_AFTER.
CollectOld ==
    /\ page # <<>> /\ ~posting
    /\ There(Head(page)) /\ row[Head(page)].old
    /\ row' = [row EXCEPT ![Head(page)] = NoRow]
    /\ NextRow
    /\ begun' = TRUE
    /\ UNCHANGED <<overtaken, crashes, dispatcher>>

\* _attempt_challenge, up to its POST: the stamp is committed.
Challenge ==
    /\ page # <<>> /\ ~posting
    /\ LET s == Head(page) IN
        /\ There(s) => ~row[s].old
        /\ row' = [row EXCEPT ![s] = IF There(s) THEN [@ EXCEPT !.stamp = Now] ELSE NoRow]
        /\ overtaken' = [o \in Subs |->
              IF o = s THEN [x \in Subs |-> 0]
              ELSE IF o \in Due THEN [overtaken[o] EXCEPT ![s] = Min({@ + 1, 2})] ELSE overtaken[o]]
    /\ posting' = TRUE /\ begun' = TRUE
    /\ UNCHANGED <<page, crashes, dispatcher>>

\* The row was deleted meanwhile: the write fails and is rolled back.
Lost ==
    /\ posting /\ ~There(Head(page))
    /\ NextRow
    /\ UNCHANGED <<row, begun, overtaken, crashes, dispatcher>>

Answers(s, new) ==
    /\ posting /\ page # <<>> /\ Head(page) = s /\ There(s)
    /\ row' = [row EXCEPT ![s] = new]
    /\ NextRow
    /\ UNCHANGED <<begun, overtaken, crashes, dispatcher>>

Disabled(s) == [row[s] EXCEPT !.active = FALSE, !.due = TRUE, !.old = FALSE,
                              !.attempts = Min({@ + 1, MaxAttempts})]

\* The challenge is answered: the seats are counted again, under the lock.
Accepted(s) ==
    /\ LockFree
    /\ Answers(s, IF SeatFree(s)
                  THEN [row[s] EXCEPT !.verified = TRUE, !.due = TRUE, !.attempts = Min({@ + 1, MaxAttempts})]
                  ELSE Disabled(s))

\* A failure of any kind: _maybe_disable_after_challenge_attempts, or a backoff.
AfterFailure(s) ==
    IF row[s].attempts + 1 >= MaxAttempts THEN Disabled(s)
    ELSE [row[s] EXCEPT !.attempts = @ + 1, !.due = FALSE]

Failed(s) == Answers(s, AfterFailure(s))

\* 410
Gone(s) == Answers(s, Disabled(s))

Crash ==
    /\ crashes < MaxCrashes /\ page # <<>>
    /\ page' = <<>> /\ posting' = FALSE
    /\ crashes' = crashes + 1
    /\ UNCHANGED <<row, begun, overtaken, dispatcher>>

\* A delivery disables a verified subscription (WebhookDelivery).
DeliveryDisables(s) ==
    /\ Verified(s)
    /\ row' = [row EXCEPT ![s].active = FALSE, ![s].old = FALSE]
    /\ UNCHANGED <<page, posting, begun, overtaken, crashes, dispatcher>>

-----------------------------------------------------------------------------
(* Time.                                                                   *)

time == <<used, call, lock, page, posting, begun, misread, returns, crashes>>

\* next_attempt_at passes; the next run of challenges is the first to see it.
BackoffElapses(s) ==
    /\ page = <<>>
    /\ Unverified(s) /\ ~row[s].due
    /\ row' = [row EXCEPT ![s].due = TRUE]
    /\ overtaken' = [overtaken EXCEPT ![s] = [o \in Subs |-> 0]]
    /\ UNCHANGED <<today, time>>

GrowsOld(s) ==
    /\ There(s) /\ ~row[s].verified /\ ~row[s].old
    /\ page = <<>>
    /\ row' = [row EXCEPT ![s].old = TRUE]
    /\ UNCHANGED <<today, overtaken, time>>

\* A creation event is a day old; prune_creation_events comes later still.
EventAges(c) ==
    /\ today[c] > 0
    /\ today' = [today EXCEPT ![c] = @ - 1]
    /\ UNCHANGED <<row, overtaken, time>>

HooksNext ==
    \/ \E r \in Calls :
        \/ \E s \in Subs : CreateCounts(r, s) \/ ReactivateReads(r, s)
        \/ CreateCommits(r) \/ ReactivateCounts(r) \/ ReactivateCommits(r)
    \/ \E s \in Subs :
        \/ Delete(s) \/ Accepted(s) \/ Failed(s) \/ Gone(s)
        \/ DeliveryDisables(s) \/ BackoffElapses(s) \/ GrowsOld(s)
    \/ BeginChallenges \/ OutOfTime \/ CollectOld \/ Challenge \/ Lost \/ Crash
    \/ \E c \in Creators : EventAges(c)

HooksSpec == HooksInit /\ [][HooksNext]_hooksVars

-----------------------------------------------------------------------------
(* Properties.                                                             *)

\* No host, and not the service, ever has more verified subscriptions than its
\* ceiling, and no host and creator more unverified ones, whoever counts and
\* takes a seat at the same time, and whatever reactivations bring back.  Not
\* counted are the rows that were misread.
SeatsHold ==
    LET Seated(host) == {s \in Subs : Verified(s) /\ Host[s] = host} \ misread IN
    /\ Cardinality({s \in Subs : Verified(s)} \ misread) <= MaxGlobal
    /\ \A s \in Subs :
        Cardinality(Seated(Host[s])) <= MaxPerHost /\ Pool(Host[s], Creator[s]) <= MaxUnverified

\* "The verified-subscription quotas are each enforced twice": no host ever has
\* more verified subscriptions than its ceiling, misread or not.
VerifiedQuotaHolds == \A s \in Subs : SeatsOf(Host[s]) <= MaxPerHost

\* While a subscription is due, no other is challenged twice before it, but for
\* one that was reactivated: neither a page that is full, nor one that is cut
\* short, nor a restart starves it.
TurnsAreFair == \A s, o \in Subs : Unverified(s) /\ row[s].due => overtaken[s][o] < 2

=============================================================================
