--------------------------- MODULE SyncWorkerProofs ---------------------------
(***************************************************************************)
(* Proofs about SyncWorker, for any workers, operators, jobs, bills, pages *)
(* and budgets: running out of budget charges no job, two passes enqueue   *)
(* no duplicate, a stale status is never lost in silence, the pages of a   *)
(* run miss nothing although the listing moves, and a replay covers its    *)
(* window.  And about BillStatus, what the worker then derives: for any    *)
(* bills, names and actions, a status does not depend on how the ids are   *)
(* chunked, two passes settle it, and an outcome stands.                   *)
(***************************************************************************)
EXTENDS SyncWorker, BillStatus, FiniteSetTheorems, SequenceTheorems, WellFoundedInduction, TLAPS

-----------------------------------------------------------------------------
(* The invariant of the jobs.                                              *)

JobType ==
    /\ job \in [Jobs -> [state : {"free", "queued", "done", "dead"}, created : Int,
                         after : Int, attempts : Nat]]
    /\ failures \in [Jobs -> 0..MaxAttempts]
    /\ now \in Nat

\* A queued job has attempts left, none is charged without a failure, and a dead
\* one has failed as often as it may.
ChargesInv ==
    \A j \in Jobs : /\ job[j].attempts <= failures[j]
                    /\ job[j].state = "dead" => failures[j] = MaxAttempts
                    /\ job[j].state \in {"free", "queued"} => job[j].attempts < MaxAttempts

\* The claim of a run counts one more attempt than the job has failures, and one
\* that failed has its failure.  No row becomes free again.
ClaimOf(claimed, j, fails, row) ==
    j \in Jobs /\ claimed \in 1..MaxAttempts /\ claimed <= fails /\ row.state # "free"
RunInv(s) == s.run.kind = "job" => ClaimOf(s.run.claimed, s.run.job, failures[s.run.job] + 1, job[s.run.job])
InRunState(s) == s.pc \in {"fetch", "write", "commit"}
ClaimsInv ==
    \A a \in Actors : /\ InRunState(actor[a]) => RunInv(actor[a])
                      /\ actor[a].pc = "fail" =>
                             ClaimOf(actor[a].claimed, actor[a].job, failures[actor[a].job],
                                     job[actor[a].job])

\* What a pass has read still holds, for it holds the lock: no job is younger
\* than a cadence, but dead ones and those that may have been.
PlannedInv ==
    \A a \in Actors : actor[a].pc = "planned" =>
        /\ \A o \in Actors \ {a} : actor[o].pc # "planned"
        /\ actor[a].at \in Int
        /\ \A k \in Jobs : job[k].state \in {"queued", "done"} /\ failures[k] < MaxAttempts =>
               actor[a].at - job[k].created >= Cadence

\* The run of an actor has the fields a run has.
RunShape(r) ==
    r = [kind |-> r.kind, job |-> r.job, claimed |-> r.claimed, since |-> r.since,
         started |-> r.started, loaded |-> r.loaded, page |-> r.page, fetched |-> r.fetched,
         got |-> r.got, more |-> r.more, seen |-> r.seen, wrote |-> r.wrote]
ShapeInv ==
    /\ actor = [a \in Actors |-> actor[a]]
    /\ \A a \in Actors : InRunState(actor[a]) => RunShape(actor[a].run)

SyncInv == JobType /\ ChargesInv /\ ClaimsInv /\ PlannedInv /\ ShapeInv

-----------------------------------------------------------------------------
(* Steps of an actor that leave the jobs alone.                            *)

\* a goes to state s, with its claim if it has one, and not to a pass.
LEMMA ActorSteps ==
    ASSUME SyncInv, NEW a \in Actors, NEW s, actor' = [actor EXCEPT ![a] = s],
           job' = job, failures' = failures, now' = now,
           s.pc # "planned", InRunState(s) => RunInv(s) /\ RunShape(s.run),
           s.pc = "fail" => ClaimOf(s.claimed, s.job, failures[s.job], job[s.job])
    PROVE  SyncInv'
<1>1. \A o \in Actors : actor'[o] = IF o = a THEN s ELSE actor[o]
  BY DEF SyncInv, ShapeInv
<1>2. JobType' /\ ChargesInv'
  BY DEF SyncInv, JobType, ChargesInv
<1>3. ClaimsInv'
  BY <1>1 DEF SyncInv, ClaimsInv, RunInv, ClaimOf, InRunState
<1>4. PlannedInv'
  BY <1>1 DEF SyncInv, PlannedInv
<1>5. ShapeInv'
  BY <1>1 DEF SyncInv, ShapeInv, InRunState, RunShape
<1> QED BY <1>2, <1>3, <1>4, <1>5 DEF SyncInv

LEMMA SameActors ==
    ASSUME SyncInv, actor' = actor, job' = job, failures' = failures, now' \in Nat
    PROVE  SyncInv'
<1>1. JobType' /\ ChargesInv'
  BY DEF SyncInv, JobType, ChargesInv
<1>2. ClaimsInv'
  BY DEF SyncInv, ClaimsInv, RunInv, ClaimOf, InRunState
<1>3. PlannedInv'
  BY DEF SyncInv, PlannedInv
<1>4. ShapeInv'
  BY DEF SyncInv, ShapeInv, InRunState, RunShape
<1> QED BY <1>1, <1>2, <1>3, <1>4 DEF SyncInv

LEMMA Going ==
    ASSUME SyncInv, NEW a \in Actors, NEW pc, NEW ran, actor' = Goes(a, pc, ran),
           pc \notin {"planned", "fetch", "write", "commit", "fail"},
           job' = job, failures' = failures, now' = now
    PROVE  SyncInv'
<1> DEFINE s == [pc |-> pc, ran |-> ran, pending |-> actor[a].pending]
<1>1. actor' = [actor EXCEPT ![a] = s] /\ s.pc = pc
  BY DEF Goes
<1> HIDE DEF s
<1> QED BY <1>1, ActorSteps DEF InRunState

LEMMA Running ==
    ASSUME SyncInv, NEW a \in Actors, NEW pc, NEW r, actor' = WithRun(a, pc, r),
           pc \in {"fetch", "write", "commit"}, RunShape(r),
           r.kind = "job" => ClaimOf(r.claimed, r.job, failures[r.job] + 1, job[r.job]),
           job' = job, failures' = failures, now' = now
    PROVE  SyncInv'
<1> DEFINE s == [pc |-> pc, ran |-> actor[a].ran, pending |-> actor[a].pending, run |-> r]
<1>1. actor' = [actor EXCEPT ![a] = s] /\ s.pc = pc /\ s.run = r
  BY DEF WithRun
<1> HIDE DEF s
<1> QED BY <1>1, ActorSteps DEF InRunState, RunInv

\* An edit of a run leaves it a run of the same job and claim.
SameClaim(r, s) == RunShape(s) /\ s.kind = r.kind /\ s.job = r.job /\ s.claimed = r.claimed

LEMMA Edits ==
    ASSUME NEW r, RunShape(r), NEW x
    PROVE  /\ SameClaim(r, [r EXCEPT !.got = x])
           /\ SameClaim(r, [r EXCEPT !.more = x])
           /\ SameClaim(r, [r EXCEPT !.fetched = x])
           /\ SameClaim(r, [r EXCEPT !.wrote = x])
           /\ SameClaim(r, [r EXCEPT !.page = x])
           /\ SameClaim(r, [r EXCEPT !.seen = x])
<1>1. SameClaim(r, [r EXCEPT !.got = x])
  BY DEF RunShape, SameClaim
<1>2. SameClaim(r, [r EXCEPT !.more = x])
  BY DEF RunShape, SameClaim
<1>3. SameClaim(r, [r EXCEPT !.fetched = x])
  BY DEF RunShape, SameClaim
<1>4. SameClaim(r, [r EXCEPT !.wrote = x])
  BY DEF RunShape, SameClaim
<1>5. SameClaim(r, [r EXCEPT !.page = x])
  BY DEF RunShape, SameClaim
<1>6. SameClaim(r, [r EXCEPT !.seen = x])
  BY DEF RunShape, SameClaim
<1> QED BY <1>1, <1>2, <1>3, <1>4, <1>5, <1>6

LEMMA ThreeEdits ==
    ASSUME NEW r, RunShape(r), NEW x, NEW y, NEW z
    PROVE  SameClaim(r, [r EXCEPT !.got = x, !.more = y, !.fetched = z])
<1>1. PICK s : s = [r EXCEPT !.got = x]
  OBVIOUS
<1>2. PICK t : t = [s EXCEPT !.more = y]
  OBVIOUS
<1>3. [r EXCEPT !.got = x, !.more = y, !.fetched = z] = [t EXCEPT !.fetched = z]
  BY <1>1, <1>2
<1>4. SameClaim(r, s) /\ RunShape(s)
  <2>1. SameClaim(r, s)
    BY <1>1, Edits
  <2> QED BY <2>1 DEF SameClaim
<1>5. SameClaim(s, t) /\ RunShape(t)
  <2>1. SameClaim(s, t)
    BY <1>2, <1>4, Edits
  <2> QED BY <2>1 DEF SameClaim
<1>6. SameClaim(t, [t EXCEPT !.fetched = z])
  BY <1>5, Edits
<1> QED BY <1>3, <1>4, <1>5, <1>6 DEF SameClaim

LEMMA FourEdits ==
    ASSUME NEW r, RunShape(r), NEW x, NEW y, NEW z
    PROVE  SameClaim(r, [r EXCEPT !.wrote = x, !.page = y, !.got = <<>>, !.seen = z])
<1>1. PICK s : s = [r EXCEPT !.wrote = x]
  OBVIOUS
<1>2. PICK t : t = [s EXCEPT !.page = y]
  OBVIOUS
<1>3. PICK u : u = [t EXCEPT !.got = <<>>]
  OBVIOUS
<1>4. [r EXCEPT !.wrote = x, !.page = y, !.got = <<>>, !.seen = z] = [u EXCEPT !.seen = z]
  BY <1>1, <1>2, <1>3
<1>5. SameClaim(r, s) /\ RunShape(s)
  <2>1. SameClaim(r, s)
    BY <1>1, Edits
  <2> QED BY <2>1 DEF SameClaim
<1>6. SameClaim(s, t) /\ RunShape(t)
  <2>1. SameClaim(s, t)
    BY <1>2, <1>5, Edits
  <2> QED BY <2>1 DEF SameClaim
<1>7. SameClaim(t, u) /\ RunShape(u)
  <2>1. SameClaim(t, u)
    BY <1>3, <1>6, Edits
  <2> QED BY <2>1 DEF SameClaim
<1>8. SameClaim(u, [u EXCEPT !.seen = z])
  BY <1>7, Edits
<1> QED BY <1>4, <1>5, <1>6, <1>7, <1>8 DEF SameClaim

\* The pages of a run change neither its job nor its claim.
LEMMA PagesStay ==
    ASSUME SyncInv, NEW a \in Actors, FetchPage(a) \/ WritePage(a)
    PROVE  SyncInv'
<1> DEFINE r == Run(a)
<1>1. actor[a].pc \in {"fetch", "write"} /\ RunShape(r)
      /\ (r.kind = "job" => ClaimOf(r.claimed, r.job, failures[r.job] + 1, job[r.job]))
  BY DEF FetchPage, WritePage, At, SyncInv, ShapeInv, ClaimsInv, RunInv, InRunState, Run
<1>2. job' = job /\ failures' = failures /\ now' = now
  BY DEF FetchPage, WritePage
<1>3. CASE FetchPage(a)
  <2> DEFINE next == [r EXCEPT !.got = [b \in Page(r.page, r.since) |-> stamp[b]],
                               !.more = IsMore(r.page, r.since), !.fetched = r.fetched + 1]
  <2>1. actor' = WithRun(a, "write", next)
    BY <1>3 DEF FetchPage
  <2>2. SameClaim(r, next)
    BY <1>1, ThreeEdits
  <2> HIDE DEF next, r
  <2> QED BY <1>1, <1>2, <2>1, <2>2, Running DEF SameClaim
<1>4. CASE WritePage(a)
  <2> DEFINE wrote == [b \in DOMAIN r.wrote \cup Changed(a) |->
                           IF b \in DOMAIN r.got THEN r.got[b] ELSE r.wrote[b]]
  <2> DEFINE seen == IF r.kind = "replay" THEN r.seen \cup DOMAIN r.got ELSE {}
  <2> DEFINE page == IF r.more THEN r.page + 1 ELSE r.page
  <2> DEFINE over == ~r.more \/ r.fetched = (IF r.kind = "replay" THEN ChunkPages ELSE MaxPages)
  <2> DEFINE next == [r EXCEPT !.wrote = wrote, !.page = page, !.got = <<>>, !.seen = seen]
  <2>1. actor' = WithRun(a, IF over THEN "commit" ELSE "fetch", next)
    BY <1>4 DEF WritePage
  <2> HIDE DEF wrote, seen, page, over
  <2>2. SameClaim(r, next)
    BY <1>1, FourEdits
  <2> HIDE DEF next, r
  <2> QED BY <1>1, <1>2, <2>1, <2>2, Running DEF SameClaim
<1> QED BY <1>3, <1>4

-----------------------------------------------------------------------------
(* Steps that change a job or its failures.                                *)

\* No job is queued or done that was not, but of those that failed enough to be
\* dead, and failures only mount.
Steady ==
    /\ \A j \in Jobs : failures[j] <= failures'[j]
    /\ \A j \in Jobs : job[j].state # "free" => job'[j].state # "free"
    /\ \A j \in Jobs : job'[j].state \in {"queued", "done"} /\ failures'[j] < MaxAttempts =>
           job[j].state \in {"queued", "done"} /\ job'[j].created = job[j].created

LEMMA JobSteps ==
    ASSUME SyncInv, NEW a \in Actors, NEW s, actor' = [actor EXCEPT ![a] = s],
           JobType', ChargesInv', Steady,
           s.pc # "planned", ~InRunState(s),
           s.pc = "fail" => ClaimOf(s.claimed, s.job, failures'[s.job], job'[s.job])
    PROVE  SyncInv'
<1>1. \A o \in Actors : actor'[o] = IF o = a THEN s ELSE actor[o]
  BY DEF SyncInv, ShapeInv
<1>2. \A j \in Jobs : failures[j] \in Int /\ failures'[j] \in Int
  BY DEF SyncInv, JobType
<1>3. ClaimsInv'
  <2>1. ASSUME NEW o \in Actors
        PROVE  /\ InRunState(actor'[o]) /\ actor'[o].run.kind = "job" =>
                      ClaimOf(actor'[o].run.claimed, actor'[o].run.job,
                              failures'[actor'[o].run.job] + 1, job'[actor'[o].run.job])
               /\ actor'[o].pc = "fail" =>
                      ClaimOf(actor'[o].claimed, actor'[o].job, failures'[actor'[o].job],
                              job'[actor'[o].job])
    <3>1. CASE o = a
      BY <1>1, <3>1
    <3>2. CASE o # a
      <4>1. actor'[o] = actor[o]
        BY <1>1, <3>2
      <4>2. ASSUME InRunState(actor[o]), actor[o].run.kind = "job"
            PROVE  ClaimOf(actor[o].run.claimed, actor[o].run.job, failures'[actor[o].run.job] + 1,
                           job'[actor[o].run.job])
        BY <4>2, <1>2 DEF SyncInv, ClaimsInv, RunInv, ClaimOf, Steady
      <4>3. ASSUME actor[o].pc = "fail"
            PROVE  ClaimOf(actor[o].claimed, actor[o].job, failures'[actor[o].job], job'[actor[o].job])
        BY <4>3, <1>2 DEF SyncInv, ClaimsInv, ClaimOf, Steady
      <4> QED BY <4>1, <4>2, <4>3
    <3> QED BY <3>1, <3>2
  <2> QED BY <2>1 DEF ClaimsInv, RunInv, InRunState
<1>4. PlannedInv'
  <2>1. ASSUME NEW o \in Actors, actor'[o].pc = "planned"
        PROVE  /\ \A x \in Actors \ {o} : actor'[x].pc # "planned"
               /\ actor'[o].at \in Int
               /\ \A k \in Jobs : job'[k].state \in {"queued", "done"} /\ failures'[k] < MaxAttempts =>
                      actor'[o].at - job'[k].created >= Cadence
    <3>1. actor'[o] = actor[o] /\ actor[o].pc = "planned"
      BY <1>1, <2>1
    <3>2. \A k \in Jobs : failures'[k] < MaxAttempts => failures[k] < MaxAttempts
      BY <1>2, SyncAssumption DEF Steady
    <3> QED BY <1>1, <3>1, <3>2 DEF SyncInv, PlannedInv, Steady
  <2> QED BY <2>1 DEF PlannedInv
<1>5. ShapeInv'
  BY <1>1 DEF SyncInv, ShapeInv, InRunState, RunShape
<1> QED BY <1>3, <1>4, <1>5 DEF SyncInv

LEMMA CommitJobStays == ASSUME SyncInv, NEW w \in Actors, CommitJob(w) PROVE SyncInv'
<1> DEFINE j == actor[w].run.job
<1> DEFINE s == [pc |-> "drain", ran |-> actor[w].ran + 1,
                 pending |-> actor[w].pending \cup DOMAIN actor[w].run.wrote]
<1>1. /\ actor' = [actor EXCEPT ![w] = s] /\ job' = [job EXCEPT ![j].state = "done"]
      /\ failures' = failures /\ now' = now /\ actor[w].pc = "commit" /\ actor[w].run.kind = "job"
  BY DEF CommitJob, At, Run
<1>2. s.pc = "drain"
  OBVIOUS
<1> HIDE DEF s
<1>3. j \in Jobs /\ job[j].state # "free"
  BY <1>1 DEF SyncInv, ClaimsInv, RunInv, InRunState, ClaimOf
<1>4. \A k \in Jobs : /\ job'[k].created = job[k].created /\ job'[k].attempts = job[k].attempts
                      /\ job'[k].state = IF k = j THEN "done" ELSE job[k].state
  BY <1>1 DEF SyncInv, JobType
<1>5. JobType'
  BY <1>1, <1>3 DEF SyncInv, JobType
<1>6. ChargesInv'
  BY <1>1, <1>4 DEF SyncInv, ChargesInv
<1>7. Steady
  <2>1. job[j].state # "dead" => job[j].state \in {"queued", "done"}
    BY <1>3 DEF SyncInv, JobType
  <2>2. job[j].state = "dead" => ~(failures[j] < MaxAttempts)
    BY <1>3, SyncAssumption DEF SyncInv, ChargesInv
  <2> QED BY <1>1, <1>4, <2>1, <2>2 DEF Steady, SyncInv, JobType
<1> QED BY <1>1, <1>2, <1>5, <1>6, <1>7, JobSteps DEF InRunState

LEMMA DeferStays == ASSUME SyncInv, NEW w \in Actors, Defer(w) PROVE SyncInv'
<1> DEFINE j == actor[w].job
<1> DEFINE s == [pc |-> "drain", ran |-> actor[w].ran, pending |-> actor[w].pending]
<1>1. /\ actor' = [actor EXCEPT ![w] = s]
      /\ job' = [job EXCEPT ![j].after = NextMidnight] \/ job' = job
      /\ failures' = failures /\ now' = now
  BY DEF Defer, Goes
<1>2. s.pc = "drain"
  OBVIOUS
<1> HIDE DEF s
<1>3. NextMidnight \in Int
  BY SyncAssumption DEF NextMidnight, SyncInv, JobType
<1>4. \A k \in Jobs : /\ job'[k].created = job[k].created /\ job'[k].attempts = job[k].attempts
                      /\ job'[k].state = job[k].state
  BY <1>1 DEF SyncInv, JobType
<1>5. JobType'
  BY <1>1, <1>3 DEF SyncInv, JobType
<1>6. ChargesInv'
  BY <1>1, <1>4 DEF SyncInv, ChargesInv
<1>7. Steady
  BY <1>1, <1>4 DEF Steady, SyncInv, JobType
<1> QED BY <1>1, <1>2, <1>5, <1>6, <1>7, JobSteps DEF InRunState

\* The record of a failure charges no more than what has failed, and is the
\* job's death only when that is all it may.
LEMMA RecordStays == ASSUME SyncInv, NEW w \in Actors, RecordFailure(w) PROVE SyncInv'
<1> DEFINE j == actor[w].job
<1> DEFINE claimed == actor[w].claimed
<1> DEFINE s == [pc |-> "drain", ran |-> actor[w].ran + 1, pending |-> actor[w].pending]
<1> DEFINE state == IF claimed >= MaxAttempts THEN "dead" ELSE "queued"
<1> DEFINE after == IF claimed >= MaxAttempts THEN job[j].after ELSE now + 1
<1>1. /\ actor' = [actor EXCEPT ![w] = s]
      /\ job' = [job EXCEPT ![j].attempts = claimed, ![j].state = state,
                            ![j].after = IF claimed >= MaxAttempts THEN @ ELSE now + 1]
      /\ failures' = failures /\ now' = now
      /\ ClaimOf(claimed, j, failures[j], job[j])
  BY DEF RecordFailure, Goes, At, SyncInv, ClaimsInv
<1>2. s.pc = "drain"
  OBVIOUS
<1> HIDE DEF s
<1>3. /\ j \in Jobs /\ claimed \in Nat /\ claimed <= MaxAttempts /\ claimed <= failures[j]
      /\ failures[j] \in 0..MaxAttempts /\ job[j].state # "free" /\ MaxAttempts \in Nat
  BY <1>1, SyncAssumption DEF ClaimOf, SyncInv, JobType
<1>4. \A k \in Jobs : /\ job'[k].created = job[k].created
                      /\ job'[k].attempts = IF k = j THEN claimed ELSE job[k].attempts
                      /\ job'[k].state = IF k = j THEN state ELSE job[k].state
  BY <1>1, <1>3 DEF SyncInv, JobType
<1>5. JobType'
  BY <1>1, <1>3 DEF SyncInv, JobType
<1>6. ChargesInv'
  <2>1. ASSUME NEW k \in Jobs
        PROVE  /\ job'[k].attempts <= failures[k]
               /\ job'[k].state = "dead" => failures[k] = MaxAttempts
               /\ job'[k].state \in {"free", "queued"} => job'[k].attempts < MaxAttempts
    <3>1. CASE k = j
      BY <1>3, <1>4, <3>1
    <3>2. CASE k # j
      BY <1>4, <3>2 DEF SyncInv, ChargesInv
    <3> QED BY <3>1, <3>2
  <2> QED BY <1>1, <2>1 DEF ChargesInv
<1>7. Steady
  <2>1. job[j].state # "dead" => job[j].state \in {"queued", "done"}
    BY <1>3 DEF SyncInv, JobType
  <2>2. job[j].state = "dead" => ~(failures[j] < MaxAttempts)
    BY <1>3 DEF SyncInv, ChargesInv
  <2>3. \A k \in Jobs : failures[k] \in Int
    BY DEF SyncInv, JobType
  <2>4. ASSUME NEW k \in Jobs
        PROVE  /\ failures[k] <= failures[k]
               /\ job[k].state # "free" => job'[k].state # "free"
               /\ job'[k].state \in {"queued", "done"} /\ failures[k] < MaxAttempts =>
                      job[k].state \in {"queued", "done"} /\ job'[k].created = job[k].created
    <3>1. CASE k = j
      BY <1>4, <2>1, <2>2, <2>3, <3>1
    <3>2. CASE k # j
      BY <1>4, <2>3, <3>2
    <3> QED BY <3>1, <3>2
  <2> QED BY <1>1, <2>4 DEF Steady
<1> QED BY <1>1, <1>2, <1>5, <1>6, <1>7, JobSteps DEF InRunState

LEMMA Lesser ==
    ASSUME NEW p \in Nat, NEW q \in Nat
    PROVE  Min({p, q}) = IF p <= q THEN p ELSE q
<1> DEFINE m == IF p <= q THEN p ELSE q
<1>1. m \in {p, q} /\ \A y \in {p, q} : m <= y
  OBVIOUS
<1>2. \A x \in {p, q} : (\A y \in {p, q} : x <= y) => x = m
  OBVIOUS
<1> QED BY <1>1, <1>2 DEF Min

\* A run that fails has its failure before its attempt is recorded.
LEMMA RunFailsStays == ASSUME SyncInv, NEW a \in Actors, RunFails(a) PROVE SyncInv'
<1> DEFINE j == actor[a].run.job
<1> DEFINE s == [pc |-> "fail", ran |-> actor[a].ran, pending |-> actor[a].pending,
                 job |-> j, claimed |-> actor[a].run.claimed]
<1> DEFINE idle == [pc |-> "schedule", ran |-> 0, pending |-> actor[a].pending]
<1>1. /\ job' = job /\ now' = now /\ InRunState(actor[a])
      /\ failures' = [k \in Jobs |-> IF k = j THEN Min({failures[k] + 1, MaxAttempts})
                                     ELSE failures[k]]
  BY DEF RunFails, InRun, InRunState, Run
<1>2. \A k \in Jobs : failures[k] \in Nat /\ failures[k] <= MaxAttempts /\ MaxAttempts \in Nat
  BY SyncAssumption DEF SyncInv, JobType
<1>3. \A k \in Jobs : failures'[k] = IF k = j /\ failures[k] < MaxAttempts THEN failures[k] + 1
                                     ELSE failures[k]
  <2>1. ASSUME NEW k \in Jobs
        PROVE  Min({failures[k] + 1, MaxAttempts}) = IF failures[k] < MaxAttempts
                                                     THEN failures[k] + 1 ELSE failures[k]
    <3>1. failures[k] + 1 \in Nat /\ MaxAttempts \in Nat /\ failures[k] <= MaxAttempts
          /\ failures[k] \in Nat
      BY <1>2
    <3>2. Min({failures[k] + 1, MaxAttempts}) = IF failures[k] + 1 <= MaxAttempts
                                                THEN failures[k] + 1 ELSE MaxAttempts
      BY <3>1, Lesser
    <3> QED BY <3>1, <3>2
  <2> QED BY <1>1, <2>1
<1>4. JobType'
  BY <1>1, <1>2, <1>3 DEF SyncInv, JobType
<1>5. ChargesInv'
  BY <1>1, <1>2, <1>3 DEF SyncInv, ChargesInv, JobType
<1>6. Steady
  BY <1>1, <1>2, <1>3 DEF Steady
<1>7. CASE actor[a].run.kind = "job"
  <2>1. actor' = [actor EXCEPT ![a] = s]
    BY <1>7 DEF RunFails, RolledBack, Run
  <2>2. s.pc = "fail" /\ s.job = j /\ s.claimed = actor[a].run.claimed
    OBVIOUS
  <2> HIDE DEF s
  <2>3. ClaimOf(actor[a].run.claimed, j, failures[j] + 1, job[j])
    BY <1>1, <1>7 DEF SyncInv, ClaimsInv, RunInv
  <2>4. ClaimOf(s.claimed, s.job, failures'[s.job], job'[s.job])
    <3>1. j \in Jobs /\ actor[a].run.claimed \in 1..MaxAttempts
          /\ actor[a].run.claimed <= failures[j] + 1 /\ job[j].state # "free"
      BY <2>3 DEF ClaimOf
    <3>2. actor[a].run.claimed <= failures'[j]
      BY <1>2, <1>3, <3>1
    <3> QED BY <1>1, <2>2, <3>1, <3>2 DEF ClaimOf
  <2> QED BY <1>4, <1>5, <1>6, <2>1, <2>2, <2>4, JobSteps DEF InRunState
<1>8. CASE actor[a].run.kind # "job"
  <2>1. actor' = [actor EXCEPT ![a] = idle]
    BY <1>8 DEF RunFails, RolledBack, Run, Goes
  <2>2. idle.pc = "schedule"
    OBVIOUS
  <2> HIDE DEF idle
  <2> QED BY <1>4, <1>5, <1>6, <2>1, <2>2, JobSteps DEF InRunState
<1> QED BY <1>7, <1>8

\* A pass enqueues while it holds the lock, and then gives it back.
LEMMA EnqueueStays == ASSUME SyncInv, NEW a \in Actors, Enqueue(a) PROVE SyncInv'
<1> DEFINE at == actor[a].at
<1> DEFINE s == [pc |-> IF a \in Workers THEN "drain" ELSE "schedule", ran |-> 0,
                 pending |-> actor[a].pending]
<1>1. PICK j \in Jobs : /\ job[j].state = "free"
                        /\ job' = [job EXCEPT ![j] = [state |-> "queued", created |-> at,
                                                      after |-> at, attempts |-> 0]]
  BY DEF Enqueue
<1>2. /\ actor' = [actor EXCEPT ![a] = s] /\ failures' = failures /\ now' = now
      /\ actor[a].pc = "planned" /\ at \in Int /\ \A o \in Actors \ {a} : actor[o].pc # "planned"
  BY DEF Enqueue, Goes, At, SyncInv, PlannedInv
<1>3. s.pc \in {"drain", "schedule"}
  OBVIOUS
<1> HIDE DEF s, at
<1>4. JobType'
  BY <1>1, <1>2 DEF SyncInv, JobType
<1>5. \A k \in Jobs : job'[k] = IF k = j THEN [state |-> "queued", created |-> at,
                                               after |-> at, attempts |-> 0] ELSE job[k]
  BY <1>1 DEF SyncInv, JobType
<1>6. ChargesInv'
  BY <1>2, <1>5, SyncAssumption DEF SyncInv, ChargesInv, JobType
<1>7. \A o \in Actors : actor'[o] = IF o = a THEN s ELSE actor[o]
  BY <1>2 DEF SyncInv, ShapeInv
<1>8. ClaimsInv'
  BY <1>1, <1>2, <1>3, <1>5, <1>7 DEF SyncInv, ClaimsInv, RunInv, ClaimOf, InRunState
<1>9. PlannedInv'
  BY <1>2, <1>3, <1>7 DEF PlannedInv
<1>10. ShapeInv'
  BY <1>2, <1>3, <1>7 DEF SyncInv, ShapeInv, InRunState, RunShape
<1> QED BY <1>4, <1>6, <1>8, <1>9, <1>10 DEF SyncInv

\* A pass that reads takes the lock, and finds every job but the dead a cadence old.
LEMMA PassStays == ASSUME SyncInv, NEW a \in Actors, SchedulePass(a) PROVE SyncInv'
<1>1. job' = job /\ failures' = failures /\ now' = now
  BY DEF SchedulePass
<1>2. CASE LockFree(a) /\ IsDue
  <2> DEFINE s == [pc |-> "planned", ran |-> 0, pending |-> actor[a].pending, at |-> now]
  <2>1. actor' = [actor EXCEPT ![a] = s]
    BY <1>2 DEF SchedulePass
  <2>2. s.pc = "planned" /\ s.at = now
    OBVIOUS
  <2> HIDE DEF s
  <2>3. \A o \in Actors : actor'[o] = IF o = a THEN s ELSE actor[o]
    BY <2>1 DEF SyncInv, ShapeInv
  <2>4. \A o \in Actors \ {a} : actor[o].pc # "planned"
    BY <1>2 DEF LockFree, At
  <2>5. \A k \in Jobs : job[k].state \in {"queued", "done"} => now - job[k].created >= Cadence
    BY <1>2 DEF IsDue, LastEnqueued
  <2>6. PlannedInv'
    BY <1>1, <2>2, <2>3, <2>4, <2>5 DEF PlannedInv, SyncInv, JobType
  <2>7. JobType' /\ ChargesInv'
    BY <1>1 DEF SyncInv, JobType, ChargesInv
  <2>8. ClaimsInv'
    BY <1>1, <2>2, <2>3 DEF SyncInv, ClaimsInv, RunInv, ClaimOf, InRunState
  <2>9. ShapeInv'
    BY <2>1, <2>2, <2>3 DEF SyncInv, ShapeInv, InRunState, RunShape
  <2> QED BY <2>6, <2>7, <2>8, <2>9 DEF SyncInv
<1>3. CASE ~(LockFree(a) /\ IsDue)
  <2>1. actor' = Goes(a, IF a \in Workers THEN "drain" ELSE "schedule", 0)
    BY <1>3 DEF SchedulePass
  <2> QED BY <1>1, <2>1, Going
<1> QED BY <1>2, <1>3

LEMMA BudgetStays == ASSUME SyncInv, NEW a \in Actors, BudgetExceeded(a) PROVE SyncInv'
<1> DEFINE s == [pc |-> "defer", ran |-> actor[a].ran, pending |-> actor[a].pending,
                 job |-> actor[a].run.job, claimed |-> actor[a].run.claimed]
<1>1. job' = job /\ failures' = failures /\ now' = now
  BY DEF BudgetExceeded
<1>2. CASE actor[a].run.kind = "job"
  <2>1. actor' = [actor EXCEPT ![a] = s]
    BY <1>2 DEF BudgetExceeded, RolledBack, Run, OwnHandler
  <2>2. s.pc = "defer"
    OBVIOUS
  <2> HIDE DEF s
  <2> QED BY <1>1, <2>1, <2>2, ActorSteps DEF InRunState
<1>3. CASE actor[a].run.kind # "job"
  BY <1>1, <1>3, Going DEF BudgetExceeded, RolledBack, Run
<1> QED BY <1>2, <1>3

LEMMA ClaimStays == ASSUME SyncInv, NEW w \in Actors, Claim(w) PROVE SyncInv'
<1>1. PICK j \in Claimable :
          actor' = WithRun(w, "fetch", NewRun("job", j, job[j].attempts + 1, watermark, 1))
  BY DEF Claim
<1> DEFINE r == NewRun("job", j, job[j].attempts + 1, watermark, 1)
<1>2. RunShape(r) /\ r.kind = "job" /\ r.job = j /\ r.claimed = job[j].attempts + 1
  BY DEF NewRun, RunShape
<1> HIDE DEF r
<1>3. j \in Jobs /\ job[j].state = "queued"
  BY DEF Claimable
<1>4. job[j].attempts \in Nat /\ job[j].attempts < MaxAttempts /\ job[j].attempts <= failures[j]
      /\ failures[j] \in Nat /\ MaxAttempts \in Nat
  BY <1>3, SyncAssumption DEF SyncInv, JobType, ChargesInv
<1>5. ClaimOf(r.claimed, r.job, failures[r.job] + 1, job[r.job])
  BY <1>2, <1>3, <1>4 DEF ClaimOf
<1>6. job' = job /\ failures' = failures /\ now' = now
  BY DEF Claim
<1>7. actor' = WithRun(w, "fetch", r)
  BY <1>1 DEF r
<1> QED BY <1>2, <1>5, <1>6, <1>7, Running

LEMMA CommandStays ==
    ASSUME SyncInv, NEW o \in Actors, ManualSync(o) \/ ReplayChunk(o)
    PROVE  SyncInv'
<1>1. job' = job /\ failures' = failures /\ now' = now
  BY DEF ManualSync, ReplayChunk
<1>2. \E kind \in {"api-sync", "replay"} : \E since, page :
          actor' = WithRun(o, "fetch", NewRun(kind, NoJob, 0, since, page))
  BY DEF ManualSync, ReplayChunk
<1>3. PICK kind, since, page :
          /\ kind \in {"api-sync", "replay"}
          /\ actor' = WithRun(o, "fetch", NewRun(kind, NoJob, 0, since, page))
  BY <1>2
<1> DEFINE r == NewRun(kind, NoJob, 0, since, page)
<1>4. RunShape(r) /\ r.kind = kind
  BY DEF NewRun, RunShape
<1> HIDE DEF r
<1>5. actor' = WithRun(o, "fetch", r)
  BY <1>3 DEF r
<1>6. r.kind # "job"
  BY <1>3, <1>4
<1> QED BY <1>1, <1>4, <1>5, <1>6, Running

LEMMA OthersStay ==
    ASSUME SyncInv, NEW a \in Actors,
           \/ PassFails(a) \/ RequestRetried(a) \/ DrainEnds(a) \/ CommitManual(a) \/ CommitChunk(a)
           \/ DeriveReads(a) \/ DeriveCommits(a) \/ DeriveFails(a) \/ Crash(a)
    PROVE  SyncInv'
<1>1. job' = job /\ failures' = failures /\ now' = now
  BY DEF PassFails, RequestRetried, DrainEnds, CommitManual, CommitChunk, DeriveReads,
         DeriveCommits, DeriveFails, Crash
<1>2. CASE PassFails(a)
  BY <1>1, <1>2, Going DEF PassFails
<1>3. CASE RequestRetried(a)
  BY <1>1, <1>3, SameActors DEF RequestRetried, SyncInv, JobType
<1>4. CASE DrainEnds(a)
  BY <1>1, <1>4, Going DEF DrainEnds
<1>5. CASE CommitManual(a)
  BY <1>1, <1>5, Going DEF CommitManual
<1>6. CASE CommitChunk(a)
  BY <1>1, <1>6, Going DEF CommitChunk
<1>7. CASE DeriveReads(a)
  <2> DEFINE moved == {b \in actor[a].pending : derived[b] # have[b]}
  <2> DEFINE s == [pc |-> "deriving", ran |-> actor[a].ran, pending |-> actor[a].pending,
                   change |-> [b \in moved |-> have[b]]]
  <2>1. actor' = [actor EXCEPT ![a] = s]
    BY <1>7 DEF DeriveReads
  <2>2. s.pc = "deriving"
    OBVIOUS
  <2> HIDE DEF s
  <2> QED BY <1>1, <2>1, <2>2, ActorSteps DEF InRunState
<1>8. CASE DeriveCommits(a) \/ Crash(a)
  <2>1. actor' = [actor EXCEPT ![a] = Idle]
    BY <1>8 DEF DeriveCommits, Crash
  <2>2. Idle.pc = "schedule"
    BY DEF Idle
  <2> QED BY <1>1, <2>1, <2>2, ActorSteps DEF InRunState
<1>9. CASE DeriveFails(a)
  <2> DEFINE s == [pc |-> "schedule", ran |-> 0, pending |-> actor[a].pending]
  <2>1. actor' = [actor EXCEPT ![a] = s]
    BY <1>9 DEF DeriveFails, Carried
  <2>2. s.pc = "schedule"
    OBVIOUS
  <2> HIDE DEF s
  <2> QED BY <1>1, <2>1, <2>2, ActorSteps DEF InRunState
<1> QED BY <1>2, <1>3, <1>4, <1>5, <1>6, <1>7, <1>8, <1>9

-----------------------------------------------------------------------------
(* Jobs: the theorems.                                                     *)

LEMMA SyncInit == Init => SyncInv
<1> SUFFICES ASSUME Init PROVE SyncInv
  OBVIOUS
<1>1. \A a \in Actors : actor[a].pc = "schedule"
  BY DEF Init, Idle
<1>2. JobType
  BY SyncAssumption DEF Init, JobType
<1>3. ChargesInv
  BY SyncAssumption DEF Init, ChargesInv
<1>4. ClaimsInv /\ PlannedInv
  BY <1>1 DEF ClaimsInv, PlannedInv, InRunState
<1>5. ShapeInv
  BY <1>1 DEF Init, ShapeInv, InRunState
<1> QED BY <1>2, <1>3, <1>4, <1>5 DEF SyncInv

LEMMA SyncNext == SyncInv /\ [Next]_vars => SyncInv'
<1> SUFFICES ASSUME SyncInv, [Next]_vars PROVE SyncInv'
  OBVIOUS
<1>1. CASE Tick \/ (\E b \in Bills : Change(b)) \/ UNCHANGED vars
  <2>1. UNCHANGED <<job, failures, actor>> /\ now' \in Nat
    BY <1>1 DEF Tick, Change, vars, SyncInv, JobType
  <2> QED BY <2>1, SameActors
<1>2. CASE \E a \in Actors : \/ SchedulePass(a) \/ Enqueue(a) \/ PassFails(a)
                             \/ FetchPage(a) \/ RequestRetried(a) \/ WritePage(a)
                             \/ BudgetExceeded(a) \/ RunFails(a)
  BY <1>2, PassStays, EnqueueStays, OthersStay, PagesStay, BudgetStays, RunFailsStays
<1>3. CASE \E w \in Workers :
               \/ Claim(w) \/ DrainEnds(w) \/ CommitJob(w) \/ Defer(w) \/ RecordFailure(w)
               \/ DeriveReads(w) \/ DeriveCommits(w) \/ DeriveFails(w) \/ Crash(w)
  BY <1>3, ClaimStays, OthersStay, CommitJobStays, DeferStays, RecordStays DEF Actors
<1>4. CASE \E o \in Operators : ManualSync(o) \/ ReplayChunk(o) \/ CommitManual(o) \/ CommitChunk(o)
  BY <1>4, CommandStays, OthersStay DEF Actors
<1> QED BY <1>1, <1>2, <1>3, <1>4 DEF Next

\* Every claim in progress counts one attempt more than its job has failures at
\* most, and what a pass has read holds until it commits.
THEOREM SyncInvariant == Spec => []SyncInv
<1> QED BY SyncInit, SyncNext, PTL DEF Spec

\* Running out of our own budget charges a job no attempt and buries none.
THEOREM BudgetChargesNothing == Spec => []DeferralsAreFree
<1>1. SyncInv => DeferralsAreFree
  BY DEF SyncInv, ChargesInv, DeferralsAreFree
<1> QED BY <1>1, SyncInvariant, PTL

\* Only a pass makes a free row a queued one, and only a cadence after the others.
LEMMA EnqueuesApart ==
    ASSUME SyncInv, Next, NEW j \in Jobs, NEW k \in Jobs,
           job[j].state = "free", job'[j].state = "queued",
           job[k].state \in {"queued", "done"}, failures[k] < MaxAttempts
    PROVE  job'[j].created - job[k].created >= Cadence
<1>1. job' # job
  OBVIOUS
<1>2. CASE \E a \in Actors : Enqueue(a)
  <2>1. PICK a \in Actors : Enqueue(a)
    BY <1>2
  <2>2. PICK i \in Jobs : job' = [job EXCEPT ![i] = [state |-> "queued", created |-> actor[a].at,
                                                     after |-> actor[a].at, attempts |-> 0]]
    BY <2>1 DEF Enqueue
  <2>3. i = j /\ job'[j].created = actor[a].at
    BY <2>2 DEF SyncInv, JobType
  <2> QED BY <2>1, <2>3 DEF Enqueue, At, SyncInv, PlannedInv
<1>3. CASE \E w \in Workers : CommitJob(w)
  <2>1. PICK w \in Workers : job' = [job EXCEPT ![actor[w].run.job].state = "done"]
    BY <1>3 DEF CommitJob, Run
  <2> QED BY <2>1 DEF SyncInv, JobType
<1>4. CASE \E w \in Workers : Defer(w)
  <2>1. PICK w \in Workers : job' = [job EXCEPT ![actor[w].job].after = NextMidnight]
    BY <1>1, <1>4 DEF Defer
  <2> QED BY <2>1 DEF SyncInv, JobType
<1>5. CASE \E w \in Workers : RecordFailure(w)
  <2>1. PICK w \in Workers : RecordFailure(w)
    BY <1>5
  <2>2. job[actor[w].job].state # "free"
    BY <2>1 DEF RecordFailure, At, SyncInv, ClaimsInv, ClaimOf, Actors
  <2>3. job'[j] = job[j]
    BY <2>1, <2>2 DEF RecordFailure, SyncInv, JobType
  <2> QED BY <2>3
<1> QED
  BY <1>1, <1>2, <1>3, <1>4, <1>5
  DEF Next, Tick, Change, SchedulePass, PassFails, FetchPage, RequestRetried, WritePage,
      BudgetExceeded, RunFails, Claim, DrainEnds, DeriveReads, DeriveCommits, DeriveFails, Crash,
      ManualSync, ReplayChunk, CommitManual, CommitChunk

\* However many passes read at once, no job is enqueued within a cadence of one
\* that is queued or done (run_schedule_pass).
THEOREM PassesDoNotDouble == Spec => NoDuplicateSync
<1>1. SyncInv /\ [Next]_vars =>
          [\A j, k \in Jobs :
               job[j].state = "free" /\ job'[j].state = "queued"
               /\ job[k].state \in {"queued", "done"} /\ failures[k] < MaxAttempts
                   => job'[j].created - job[k].created >= Cadence]_vars
  <2> SUFFICES ASSUME SyncInv, Next
               PROVE  \A j, k \in Jobs :
                          job[j].state = "free" /\ job'[j].state = "queued"
                          /\ job[k].state \in {"queued", "done"} /\ failures[k] < MaxAttempts
                              => job'[j].created - job[k].created >= Cadence
    OBVIOUS
  <2> QED BY EnqueuesApart
<1> QED BY <1>1, SyncInvariant, PTL DEF Spec, NoDuplicateSync

-----------------------------------------------------------------------------
(* Statuses.                                                               *)

\* A stale status waits in a worker, and in one that is re-deriving it waits for
\* what that worker is about to write: what it read before would miss the bill.
Waits(s, b) == b \in s.pending /\ (s.pc = "deriving" => b \in DOMAIN s.change)
StatusInv ==
    \A b \in Bills : derived[b] # have[b] => b \in dropped \/ \E w \in Workers : Waits(actor[w], b)

\* a goes to s with the bills it has, and nothing is written.
LEMMA QuietSteps ==
    ASSUME SyncInv, StatusInv, NEW a \in Actors, NEW s, actor' = [actor EXCEPT ![a] = s],
           s.pending = actor[a].pending, s.pc # "deriving",
           derived' = derived, have' = have, dropped' = dropped
    PROVE  StatusInv'
<1>1. \A o \in Workers : actor'[o] = IF o = a THEN s ELSE actor[o]
  BY DEF SyncInv, ShapeInv, Actors
<1>2. \A o \in Workers : \A b : Waits(actor[o], b) => Waits(actor'[o], b)
  BY <1>1 DEF Waits
<1> QED BY <1>2 DEF StatusInv, Waits

LEMMA QuietGoing ==
    ASSUME SyncInv, StatusInv, NEW a \in Actors, NEW pc, NEW ran, actor' = Goes(a, pc, ran),
           pc # "deriving", derived' = derived, have' = have, dropped' = dropped
    PROVE  StatusInv'
<1> DEFINE s == [pc |-> pc, ran |-> ran, pending |-> actor[a].pending]
<1>1. actor' = [actor EXCEPT ![a] = s] /\ s.pc = pc /\ s.pending = actor[a].pending
  BY DEF Goes
<1> HIDE DEF s
<1> QED BY <1>1, QuietSteps

LEMMA QuietRunning ==
    ASSUME SyncInv, StatusInv, NEW a \in Actors, NEW pc, NEW r, actor' = WithRun(a, pc, r),
           pc # "deriving", derived' = derived, have' = have, dropped' = dropped
    PROVE  StatusInv'
<1> DEFINE s == [pc |-> pc, ran |-> actor[a].ran, pending |-> actor[a].pending, run |-> r]
<1>1. actor' = [actor EXCEPT ![a] = s] /\ s.pc = pc /\ s.pending = actor[a].pending
  BY DEF WithRun
<1> HIDE DEF s
<1> QED BY <1>1, QuietSteps

LEMMA QuietRollback ==
    ASSUME SyncInv, StatusInv, NEW a \in Actors, NEW pc \in {"defer", "fail"},
           actor' = RolledBack(a, pc), derived' = derived, have' = have, dropped' = dropped
    PROVE  StatusInv'
<1> DEFINE s == [pc |-> pc, ran |-> actor[a].ran, pending |-> actor[a].pending,
                 job |-> actor[a].run.job, claimed |-> actor[a].run.claimed]
<1>1. CASE actor' = [actor EXCEPT ![a] = s]
  <2>1. s.pc = pc /\ s.pending = actor[a].pending
    OBVIOUS
  <2> HIDE DEF s
  <2> QED BY <1>1, <2>1, QuietSteps
<1>2. CASE actor' = Goes(a, "schedule", 0)
  BY <1>2, QuietGoing
<1> QED BY <1>1, <1>2 DEF RolledBack, Run

LEMMA SilentStays ==
    ASSUME SyncInv, StatusInv, actor' = actor, derived' = derived, have' = have, dropped' = dropped
    PROVE  StatusInv'
  BY DEF StatusInv, Waits

LEMMA JobsLeaveStatuses ==
    ASSUME SyncInv, StatusInv, NEW a \in Actors,
           \/ SchedulePass(a) \/ Enqueue(a) \/ PassFails(a)
           \/ FetchPage(a) \/ RequestRetried(a) \/ WritePage(a)
           \/ BudgetExceeded(a) \/ RunFails(a)
           \/ Claim(a) \/ DrainEnds(a) \/ Defer(a) \/ RecordFailure(a)
           \/ ManualSync(a) \/ ReplayChunk(a)
    PROVE  StatusInv'
<1>1. derived' = derived /\ have' = have /\ dropped' = dropped
  BY DEF SchedulePass, Enqueue, PassFails, FetchPage, RequestRetried, WritePage, BudgetExceeded,
         RunFails, Claim, DrainEnds, Defer, RecordFailure, ManualSync, ReplayChunk
<1>2. CASE SchedulePass(a)
  <2> DEFINE s == [pc |-> "planned", ran |-> 0, pending |-> actor[a].pending, at |-> now]
  <2>1. CASE actor' = [actor EXCEPT ![a] = s]
    <3>1. s.pc = "planned" /\ s.pending = actor[a].pending
      OBVIOUS
    <3> HIDE DEF s
    <3> QED BY <1>1, <2>1, <3>1, QuietSteps
  <2>2. CASE actor' = Goes(a, IF a \in Workers THEN "drain" ELSE "schedule", 0)
    BY <1>1, <2>2, QuietGoing
  <2> QED BY <1>2, <2>1, <2>2 DEF SchedulePass
<1>3. CASE Enqueue(a) \/ PassFails(a) \/ DrainEnds(a) \/ Defer(a) \/ RecordFailure(a)
  <2>1. \E pc \in {"drain", "schedule", "derive"} : \E ran : actor' = Goes(a, pc, ran)
    BY <1>3 DEF Enqueue, PassFails, DrainEnds, Defer, RecordFailure
  <2> QED BY <1>1, <2>1, QuietGoing
<1>4. CASE FetchPage(a) \/ WritePage(a) \/ Claim(a) \/ ManualSync(a) \/ ReplayChunk(a)
  <2>1. \E pc \in {"fetch", "write", "commit"} : \E r : actor' = WithRun(a, pc, r)
    BY <1>4 DEF FetchPage, WritePage, Claim, ManualSync, ReplayChunk
  <2> QED BY <1>1, <2>1, QuietRunning
<1>5. CASE RequestRetried(a)
  BY <1>1, <1>5, SilentStays DEF RequestRetried
<1>6. CASE BudgetExceeded(a) \/ RunFails(a)
  BY <1>1, <1>6, QuietRollback DEF BudgetExceeded, RunFails, OwnHandler
<1> QED BY <1>2, <1>3, <1>4, <1>5, <1>6

\* A run that commits leaves each bill it wrote waiting.
LEMMA CommitLeavesWaiting ==
    ASSUME SyncInv, StatusInv, NEW w \in Workers, CommitJob(w)
    PROVE  StatusInv'
<1> DEFINE s == [pc |-> "drain", ran |-> actor[w].ran + 1,
                 pending |-> actor[w].pending \cup DOMAIN actor[w].run.wrote]
<1>1. actor' = [actor EXCEPT ![w] = s] /\ have' = Stored(w) /\ derived' = derived /\ dropped' = dropped
  BY DEF CommitJob, Run
<1>2. s.pc = "drain" /\ s.pending = actor[w].pending \cup DOMAIN actor[w].run.wrote
  OBVIOUS
<1> HIDE DEF s
<1>3. \A o \in Workers : actor'[o] = IF o = w THEN s ELSE actor[o]
  BY <1>1 DEF SyncInv, ShapeInv, Actors
<1>4. \A b \in Bills : have'[b] # have[b] => Waits(s, b)
  BY <1>1, <1>2 DEF Stored, Run, Waits
<1>5. \A o \in Workers : \A b : Waits(actor[o], b) => Waits(actor'[o], b)
  BY <1>2, <1>3 DEF Waits
<1>6. \A b \in Bills : derived[b] # have'[b] =>
          b \in dropped \/ \E o \in Workers : Waits(actor'[o], b)
  BY <1>3, <1>4, <1>5 DEF StatusInv
<1> QED BY <1>1, <1>6 DEF StatusInv, Waits

\* A command's bills are lost for the statuses.
LEMMA CommandDrops ==
    ASSUME SyncInv, StatusInv, NEW o \in Operators, CommitManual(o) \/ CommitChunk(o)
    PROVE  StatusInv'
<1>1. have' = Stored(o) /\ derived' = derived /\ dropped' = dropped \cup DOMAIN Run(o).wrote
      /\ actor' = Goes(o, "schedule", 0)
  BY DEF CommitManual, CommitChunk
<1>2. \A w \in Workers : actor'[w] = actor[w]
  BY <1>1, SyncAssumption DEF Goes, SyncInv, ShapeInv, Actors
<1>3. \A b \in Bills : have'[b] # have[b] => b \in dropped'
  BY <1>1 DEF Stored
<1> QED BY <1>1, <1>2, <1>3 DEF StatusInv, Waits

LEMMA ReadsWaitForWrites ==
    ASSUME SyncInv, StatusInv, NEW w \in Workers, DeriveReads(w)
    PROVE  StatusInv'
<1> DEFINE moved == {b \in actor[w].pending : derived[b] # have[b]}
<1> DEFINE s == [pc |-> "deriving", ran |-> actor[w].ran, pending |-> actor[w].pending,
                 change |-> [b \in moved |-> have[b]]]
<1>1. actor' = [actor EXCEPT ![w] = s] /\ have' = have /\ derived' = derived /\ dropped' = dropped
  BY DEF DeriveReads
<1>2. s.pending = actor[w].pending /\ DOMAIN s.change = moved
  OBVIOUS
<1>3. \A b : derived[b] # have[b] /\ Waits(actor[w], b) => Waits(s, b)
  BY <1>2 DEF Waits
<1> HIDE DEF s
<1>4. \A o \in Workers : actor'[o] = IF o = w THEN s ELSE actor[o]
  BY <1>1 DEF SyncInv, ShapeInv, Actors
<1>5. \A b \in Bills : derived[b] # have[b] =>
          b \in dropped \/ \E o \in Workers : Waits(actor'[o], b)
  BY <1>3, <1>4 DEF StatusInv
<1> QED BY <1>1, <1>5 DEF StatusInv, Waits

\* A bill that is stale after the write moved since the read, or waits elsewhere.
LEMMA WritesAnswer ==
    ASSUME SyncInv, StatusInv, NEW w \in Workers, DeriveCommits(w)
    PROVE  StatusInv'
<1> DEFINE change == actor[w].change
<1> DEFINE fresh == [b \in Bills |-> IF b \in DOMAIN change THEN change[b] ELSE derived[b]]
<1>1. /\ derived' = fresh /\ have' = have /\ actor' = [actor EXCEPT ![w] = Idle]
      /\ dropped' = (dropped \cup Overtaken(w)) \ {b \in Bills : fresh[b] = have[b]}
      /\ actor[w].pc = "deriving"
  BY DEF DeriveCommits, At
<1>2. \A o \in Workers : o # w => actor'[o] = actor[o]
  BY <1>1 DEF SyncInv, ShapeInv, Actors
<1>3. ASSUME NEW b \in Bills, fresh[b] # have[b]
      PROVE  b \in dropped' \/ \E o \in Workers : Waits(actor'[o], b)
  <2>1. CASE b \in DOMAIN change
    <3>1. b \in Overtaken(w)
      BY <1>3, <2>1 DEF Overtaken
    <3> QED BY <1>1, <1>3, <3>1
  <2>2. CASE b \notin DOMAIN change
    <3>1. derived[b] # have[b]
      BY <1>3, <2>2
    <3>2. CASE b \in dropped
      BY <1>1, <1>3, <3>2
    <3>3. CASE \E o \in Workers : Waits(actor[o], b)
      <4>1. PICK o \in Workers : Waits(actor[o], b)
        BY <3>3
      <4>2. o # w
        BY <1>1, <2>2, <4>1 DEF Waits
      <4> QED BY <1>2, <4>1, <4>2
    <3> QED BY <3>1, <3>2, <3>3 DEF StatusInv
  <2> QED BY <2>1, <2>2
<1> HIDE DEF fresh
<1> QED BY <1>1, <1>3 DEF StatusInv, Waits

LEMMA FailureCarries ==
    ASSUME SyncInv, StatusInv, NEW w \in Workers, DeriveFails(w)
    PROVE  StatusInv'
<1> DEFINE s == [pc |-> "schedule", ran |-> 0, pending |-> actor[w].pending]
<1>1. actor' = [actor EXCEPT ![w] = s] /\ s.pc = "schedule" /\ s.pending = actor[w].pending
      /\ derived' = derived /\ have' = have /\ dropped' = dropped
  BY DEF DeriveFails, Carried
<1> HIDE DEF s
<1> QED BY <1>1, QuietSteps DEF Actors

LEMMA CrashDrops ==
    ASSUME SyncInv, StatusInv, NEW w \in Workers, Crash(w)
    PROVE  StatusInv'
<1>1. actor' = [actor EXCEPT ![w] = Idle] /\ derived' = derived /\ have' = have
      /\ dropped' = dropped \cup actor[w].pending
  BY DEF Crash
<1>2. \A o \in Workers : o # w => actor'[o] = actor[o]
  BY <1>1 DEF SyncInv, ShapeInv, Actors
<1>3. \A b \in Bills : derived[b] # have[b] =>
          b \in dropped' \/ \E o \in Workers : Waits(actor'[o], b)
  BY <1>1, <1>2 DEF StatusInv, Waits
<1> QED BY <1>1, <1>3 DEF StatusInv, Waits

LEMMA OwedInit == Init => StatusInv
  BY DEF Init, StatusInv

LEMMA OwedNext == SyncInv /\ StatusInv /\ [Next]_vars => StatusInv'
<1> SUFFICES ASSUME SyncInv, StatusInv, [Next]_vars PROVE StatusInv'
  OBVIOUS
<1>1. CASE Tick \/ (\E b \in Bills : Change(b)) \/ UNCHANGED vars
  <2>1. UNCHANGED <<actor, derived, have, dropped>>
    BY <1>1 DEF Tick, Change, vars
  <2> QED BY <2>1, SilentStays
<1>2. CASE \E a \in Actors : \/ SchedulePass(a) \/ Enqueue(a) \/ PassFails(a)
                             \/ FetchPage(a) \/ RequestRetried(a) \/ WritePage(a)
                             \/ BudgetExceeded(a) \/ RunFails(a)
  BY <1>2, JobsLeaveStatuses
<1>3. CASE \E w \in Workers :
               \/ Claim(w) \/ DrainEnds(w) \/ CommitJob(w) \/ Defer(w) \/ RecordFailure(w)
               \/ DeriveReads(w) \/ DeriveCommits(w) \/ DeriveFails(w) \/ Crash(w)
  BY <1>3, JobsLeaveStatuses, CommitLeavesWaiting, ReadsWaitForWrites, WritesAnswer,
     FailureCarries, CrashDrops DEF Actors
<1>4. CASE \E o \in Operators : ManualSync(o) \/ ReplayChunk(o) \/ CommitManual(o) \/ CommitChunk(o)
  BY <1>4, JobsLeaveStatuses, CommandDrops DEF Actors
<1> QED BY <1>1, <1>2, <1>3, <1>4 DEF Next

\* A status that does not follow from its bill's actions waits in a worker until
\* it is re-derived, through every failure, unless it was lost: with a process,
\* to a command, or to a slower worker's write.
THEOREM StaleStatusesWait == Spec => []StaleStatusIsPending
<1>1. Init => SyncInv /\ StatusInv
  BY SyncInit, OwedInit
<1>2. SyncInv /\ StatusInv /\ [Next]_vars => (SyncInv /\ StatusInv)'
  BY SyncNext, OwedNext
<1>3. StatusInv => StaleStatusIsPending
  BY DEF StatusInv, StaleStatusIsPending, Waits
<1> QED BY <1>1, <1>2, <1>3, PTL DEF Spec

-----------------------------------------------------------------------------
(* Bills: the invariant.                                                   *)

\* A drain has counted fewer jobs than it may while one is in its hands.
RanInv ==
    \A a \in Actors : /\ actor[a].pc = "schedule" => actor[a].ran = 0
                      /\ InRunState(actor[a]) \/ actor[a].pc \in {"defer", "fail"} =>
                             actor[a].ran < MaxJobs

\* What is stored, or will be, is what the bill once was; and what a page in
\* hand says of a bill is true unless it has changed since the run started.
PastRun(a) ==
    LET r == Run(a) IN
    /\ r.started <= now
    /\ r.kind # "replay" => r.since <= watermark
    /\ \A b \in Bills : r.loaded[b] <= stamp[b]
    /\ \A b \in DOMAIN r.wrote : r.wrote[b] <= stamp[b]
    /\ \A b \in DOMAIN r.got : r.got[b] <= stamp[b] /\ (r.got[b] = stamp[b] \/ stamp[b] >= r.started)
PastInv ==
    /\ watermark <= now
    /\ \A b \in Bills : have[b] <= stamp[b] /\ stamp[b] <= now
    /\ \A a \in Actors : InRun(a) => PastRun(a)

\* A run's session knows b as it is upstream, or has it in hand.
Knows(a, b) == Known(a, b) = stamp[b]
InHand(a, b) == At(a, "write") /\ b \in DOMAIN Run(a).got /\ Run(a).got[b] = stamp[b]
\* A run is yet to come to b.
Later(a, b) ==
    LET r == Run(a) IN
    \/ At(a, "fetch") /\ PageOf(b, r.since) >= r.page
    \/ At(a, "write") /\ r.more /\ PageOf(b, r.since) > r.page
    \/ At(a, "commit") /\ r.more /\ PageOf(b, r.since) >= r.page

\* A run that syncs knows every bill of its window that has not changed since it
\* started, or is yet to come to it; and what its session loaded is stored, or excused.
PagesRun(a) ==
    \A b \in Bills :
        /\ Run(a).kind # "replay" /\ Run(a).since <= stamp[b] /\ stamp[b] < Run(a).started =>
               Knows(a, b) \/ InHand(a, b) \/ Later(a, b)
        /\ Run(a).loaded[b] = stamp[b] => have[b] = stamp[b] \/ b \in excused
PagesInv == \A a \in Actors : InRun(a) => PagesRun(a)

\* What a replay owes and has not got, it is yet to come to; and the chunk in
\* progress is of the operator's replay.
Owed(o, b) == b \in DOMAIN replay[o].owes /\ b \notin replay[o].got /\ stamp[b] = replay[o].owes[b]
ReplayOwes(o) ==
    /\ \A b \in DOMAIN replay[o].owes :
           b \in Bills /\ replay[o].since <= replay[o].owes[b] /\ replay[o].owes[b] <= stamp[b]
    /\ replay[o].page # 0 => \A b \in Bills : Owed(o, b) => PageOf(b, replay[o].since) >= replay[o].page
ReplayRun(o) ==
    /\ replay[o].page # 0 /\ Run(o).since = replay[o].since
    /\ \A b \in Bills : Owed(o, b) => b \in Run(o).seen \/ InHand(o, b) \/ Later(o, b)
ReplayOf(o) == ReplayOwes(o) /\ (InRun(o) /\ Run(o).kind = "replay" => ReplayRun(o))
ReplayInv == \A o \in Operators : ReplayOf(o)

BillsInv == PastInv /\ PagesInv /\ NothingMissed /\ ReplayInv

-----------------------------------------------------------------------------
(* Bills: the types.                                                       *)

LEMMA VersionFields ==
    \A f \in Versions : /\ DOMAIN f \in SUBSET Bills
                        /\ \A b \in DOMAIN f : f[b] \in Instants
  BY DEF Versions

LEMMA AreVersions ==
    ASSUME NEW some \in SUBSET Bills, NEW f \in [some -> Instants]
    PROVE  f \in Versions
  BY DEF Versions

LEMMA NoVersion == <<>> \in Versions /\ DOMAIN <<>> = {}
<1>1. <<>> \in [{} -> Instants]
  OBVIOUS
<1> QED BY <1>1 DEF Versions

LEMMA InstantsAre ==
    /\ \A t \in Instants : t \in Int /\ t >= 0 /\ t <= Horizon
    /\ \A b \in Bills : b \in Int
    /\ 0 \in Instants /\ Horizon \in Int
  BY SyncAssumption DEF Instants

LEMMA StateFields ==
    ASSUME NEW s \in ActorStates
    PROVE  /\ s.ran \in 0..MaxJobs /\ s.pending \in SUBSET Bills
           /\ InRunState(s) => s.run \in Runs
           /\ s.pc = "planned" => s.at \in Instants
           /\ s.pc \in {"defer", "fail"} => s.job \in Jobs /\ s.claimed \in 1..MaxAttempts
           /\ s.pc = "deriving" => s.change \in Versions
  BY DEF ActorStates, InRunState

LEMMA RunFields ==
    ASSUME NEW r \in Runs
    PROVE  /\ r.kind \in {"job", "api-sync", "replay"} /\ r.job \in Jobs \cup {NoJob}
           /\ r.claimed \in 0..MaxAttempts /\ r.since \in Instants /\ r.started \in Instants
           /\ r.loaded \in [Bills -> Instants] /\ r.page \in Nat \ {0} /\ r.fetched \in Nat
           /\ r.got \in Versions /\ r.more \in BOOLEAN /\ r.seen \in SUBSET Bills /\ r.wrote \in Versions
           /\ DOMAIN r.got \in SUBSET Bills /\ \A b \in DOMAIN r.got : r.got[b] \in Instants
           /\ DOMAIN r.wrote \in SUBSET Bills /\ \A b \in DOMAIN r.wrote : r.wrote[b] \in Instants
<1>1. r.got \in Versions /\ r.wrote \in Versions
  BY DEF Runs
<1> QED BY <1>1, VersionFields DEF Runs

\* An actor goes to a state that is one, and counts as it should.
Counts(s) ==
    /\ s.pc = "schedule" => s.ran = 0
    /\ InRunState(s) \/ s.pc \in {"defer", "fail"} => s.ran < MaxJobs

LEMMA ActorTyped ==
    ASSUME TypeOK, RanInv, NEW a \in Actors, NEW s \in ActorStates, Counts(s),
           actor' = [actor EXCEPT ![a] = s]
    PROVE  actor' \in [Actors -> ActorStates] /\ RanInv'
<1>1. actor \in [Actors -> ActorStates]
  BY DEF TypeOK
<1>2. \A o \in Actors : actor'[o] = IF o = a THEN s ELSE actor[o]
  BY <1>1
<1> QED BY <1>1, <1>2 DEF RanInv, Counts

LEMMA GoneTyped ==
    ASSUME TypeOK, RanInv, NEW a \in Actors, NEW pc \in {"schedule", "drain", "derive"},
           NEW ran \in 0..MaxJobs, pc = "schedule" => ran = 0, actor' = Goes(a, pc, ran)
    PROVE  actor' \in [Actors -> ActorStates] /\ RanInv'
<1> DEFINE s == [pc |-> pc, ran |-> ran, pending |-> actor[a].pending]
<1>1. actor[a] \in ActorStates
  BY DEF TypeOK
<1>2. actor[a].pending \in SUBSET Bills
  BY <1>1, StateFields
<1>3. s \in ActorStates /\ Counts(s)
  BY <1>2 DEF ActorStates, Counts, InRunState
<1>4. actor' = [actor EXCEPT ![a] = s]
  BY DEF Goes
<1> HIDE DEF s
<1> QED BY <1>3, <1>4, ActorTyped

LEMMA RunningTyped ==
    ASSUME TypeOK, RanInv, NEW a \in Actors, NEW pc \in {"fetch", "write", "commit"},
           NEW r \in Runs, actor[a].ran < MaxJobs, actor' = WithRun(a, pc, r)
    PROVE  actor' \in [Actors -> ActorStates] /\ RanInv'
<1> DEFINE s == [pc |-> pc, ran |-> actor[a].ran, pending |-> actor[a].pending, run |-> r]
<1>1. actor[a] \in ActorStates
  BY DEF TypeOK
<1>2. actor[a].pending \in SUBSET Bills /\ actor[a].ran \in 0..MaxJobs
  BY <1>1, StateFields
<1>3. s \in ActorStates /\ Counts(s)
  BY <1>2 DEF ActorStates, Counts, InRunState
<1>4. actor' = [actor EXCEPT ![a] = s]
  BY DEF WithRun
<1> HIDE DEF s
<1> QED BY <1>3, <1>4, ActorTyped

LEMMA IdleTyped == Idle \in ActorStates /\ Counts(Idle) /\ Idle.pc = "schedule" /\ Idle.ran = 0
<1>1. 0 \in 0..MaxJobs
  BY SyncAssumption
<1> QED BY <1>1 DEF Idle, ActorStates, Counts, InRunState

LEMMA RolledBackTyped ==
    ASSUME TypeOK, RanInv, SyncInv, NEW a \in Actors, InRun(a), NEW pc \in {"defer", "fail"},
           actor' = RolledBack(a, pc)
    PROVE  actor' \in [Actors -> ActorStates] /\ RanInv'
<1> DEFINE s == [pc |-> pc, ran |-> actor[a].ran, pending |-> actor[a].pending,
                 job |-> actor[a].run.job, claimed |-> actor[a].run.claimed]
<1>1. actor[a] \in ActorStates /\ actor[a].ran < MaxJobs
  BY DEF TypeOK, RanInv, InRun, InRunState
<1>2. actor[a].pending \in SUBSET Bills /\ actor[a].ran \in 0..MaxJobs
  BY <1>1, StateFields
<1>3. CASE Run(a).kind = "job"
  <2>1. actor[a].run.job \in Jobs /\ actor[a].run.claimed \in 1..MaxAttempts
    BY <1>3 DEF SyncInv, ClaimsInv, RunInv, ClaimOf, InRun, InRunState, Run
  <2>2. s \in ActorStates /\ Counts(s)
    BY <1>1, <1>2, <2>1 DEF ActorStates, Counts, InRunState
  <2>3. actor' = [actor EXCEPT ![a] = s]
    BY <1>3 DEF RolledBack, Run
  <2> HIDE DEF s
  <2> QED BY <2>2, <2>3, ActorTyped
<1>4. CASE Run(a).kind # "job"
  <2>1. actor' = Goes(a, "schedule", 0) /\ 0 \in 0..MaxJobs
    BY <1>4, SyncAssumption DEF RolledBack
  <2> QED BY <2>1, GoneTyped
<1> QED BY <1>3, <1>4

\* What the steps of a run make of it.
LEMMA FetchEdit ==
    ASSUME NEW r \in Runs, NEW got \in Versions, NEW more \in BOOLEAN, NEW fetched \in Nat
    PROVE  [r EXCEPT !.got = got, !.more = more, !.fetched = fetched] \in Runs
  BY DEF Runs

LEMMA WriteEdit ==
    ASSUME NEW r \in Runs, NEW wrote \in Versions, NEW page \in Nat \ {0}, NEW seen \in SUBSET Bills
    PROVE  [r EXCEPT !.wrote = wrote, !.page = page, !.got = <<>>, !.seen = seen] \in Runs
  BY NoVersion DEF Runs

LEMMA NewRunIs ==
    ASSUME TypeOK, NEW kind \in {"job", "api-sync", "replay"}, NEW j \in Jobs \cup {NoJob},
           NEW claimed \in 0..MaxAttempts, NEW since \in Instants, NEW page \in Nat \ {0}
    PROVE  NewRun(kind, j, claimed, since, page) \in Runs
  BY NoVersion DEF NewRun, Runs, TypeOK

LEMMA RunIs ==
    ASSUME TypeOK, NEW a \in Actors, InRun(a)
    PROVE  Run(a) \in Runs
  BY StateFields DEF TypeOK, InRun, InRunState, Run

LEMMA FetchIs ==
    ASSUME TypeOK, NEW a \in Actors, FetchPage(a)
    PROVE  /\ [b \in Page(Run(a).page, Run(a).since) |-> stamp[b]] \in Versions
           /\ IsMore(Run(a).page, Run(a).since) \in BOOLEAN /\ Run(a).fetched + 1 \in Nat
           /\ Run(a) \in Runs
<1>1. Run(a) \in Runs
  BY RunIs DEF FetchPage, At, InRun
<1>2. Page(Run(a).page, Run(a).since) \in SUBSET Bills
  BY DEF Page, Listed
<1>3. [b \in Page(Run(a).page, Run(a).since) |-> stamp[b]] \in Versions
  BY <1>2, AreVersions DEF TypeOK
<1>4. Run(a).fetched + 1 \in Nat
  BY <1>1, RunFields
<1> QED BY <1>1, <1>3, <1>4 DEF IsMore

\* What a run has written once it has written its page.
Wrote(a) ==
    [b \in DOMAIN Run(a).wrote \cup Changed(a) |->
        IF b \in DOMAIN Run(a).got THEN Run(a).got[b] ELSE Run(a).wrote[b]]
Seen(a) == IF Run(a).kind = "replay" THEN Run(a).seen \cup DOMAIN Run(a).got ELSE {}
NextPage(a) == IF Run(a).more THEN Run(a).page + 1 ELSE Run(a).page

LEMMA WriteIs ==
    ASSUME TypeOK, NEW a \in Actors, WritePage(a)
    PROVE  /\ Wrote(a) \in Versions /\ NextPage(a) \in Nat \ {0} /\ Seen(a) \in SUBSET Bills
           /\ Run(a) \in Runs
<1>1. Run(a) \in Runs
  BY RunIs DEF WritePage, At, InRun
<1>2. DOMAIN Run(a).wrote \cup Changed(a) \in SUBSET Bills
  BY <1>1, RunFields DEF Changed
<1>3. \A b \in DOMAIN Run(a).wrote \cup Changed(a) :
          (IF b \in DOMAIN Run(a).got THEN Run(a).got[b] ELSE Run(a).wrote[b]) \in Instants
  BY <1>1, RunFields DEF Changed
<1>4. Wrote(a) \in [DOMAIN Run(a).wrote \cup Changed(a) -> Instants]
  BY <1>3 DEF Wrote
<1>5. Wrote(a) \in Versions
  BY <1>2, <1>4, AreVersions
<1>6. NextPage(a) \in Nat \ {0} /\ Seen(a) \in SUBSET Bills
  BY <1>1, RunFields DEF NextPage, Seen
<1> QED BY <1>1, <1>5, <1>6

LEMMA StoredIs ==
    ASSUME TypeOK, NEW a \in Actors, InRun(a)
    PROVE  /\ Stored(a) \in [Bills -> Instants]
           /\ \A b \in Bills : Stored(a)[b] = IF b \in DOMAIN Run(a).wrote THEN Run(a).wrote[b] ELSE have[b]
           /\ Advance(a) \in Instants
           /\ Advance(a) = IF watermark >= Run(a).started THEN watermark ELSE Run(a).started
           /\ Excused(a) \in SUBSET Bills /\ DOMAIN Run(a).wrote \in SUBSET Bills
<1>1. Run(a) \in Runs
  BY RunIs
<1>2. Run(a).started \in Instants /\ DOMAIN Run(a).wrote \in SUBSET Bills
      /\ \A b \in DOMAIN Run(a).wrote : Run(a).wrote[b] \in Instants
  BY <1>1, RunFields
<1>3. Stored(a) \in [Bills -> Instants]
  BY <1>2 DEF Stored, TypeOK
<1>4. Advance(a) = IF watermark >= Run(a).started THEN watermark ELSE Run(a).started
  BY <1>2, InstantsAre DEF Advance, Max, TypeOK
<1>5. Excused(a) \in SUBSET Bills
  BY DEF Excused, LeftOut, WrittenBack, TypeOK
<1> QED BY <1>2, <1>3, <1>4, <1>5 DEF Stored, TypeOK

\* Every step leaves the actors in states that are ones.
LEMMA PassesTyped ==
    ASSUME SyncInv, TypeOK, RanInv, NEW a \in Actors,
           SchedulePass(a) \/ Enqueue(a) \/ PassFails(a) \/ DrainEnds(a) \/ Defer(a) \/ RecordFailure(a)
    PROVE  actor' \in [Actors -> ActorStates] /\ RanInv'
<1> DEFINE next == IF a \in Workers THEN "drain" ELSE "schedule"
<1>1. next \in {"schedule", "drain", "derive"} /\ 0 \in 0..MaxJobs
  BY SyncAssumption
<1>2. actor[a] \in ActorStates
  BY DEF TypeOK
<1>3. actor[a].ran \in 0..MaxJobs /\ actor[a].pending \in SUBSET Bills
  BY <1>2, StateFields
<1> HIDE DEF next
<1>4. CASE actor' = Goes(a, next, 0)
  BY <1>1, <1>4, GoneTyped
<1>5. CASE actor' = [actor EXCEPT ![a] = [pc |-> "planned", ran |-> 0,
                                          pending |-> actor[a].pending, at |-> now]]
  <2> DEFINE s == [pc |-> "planned", ran |-> 0, pending |-> actor[a].pending, at |-> now]
  <2>1. s \in ActorStates /\ Counts(s)
    BY <1>1, <1>3 DEF ActorStates, Counts, InRunState, TypeOK
  <2>2. actor' = [actor EXCEPT ![a] = s]
    BY <1>5
  <2> HIDE DEF s
  <2> QED BY <2>1, <2>2, ActorTyped
<1>6. CASE SchedulePass(a) \/ Enqueue(a) \/ PassFails(a)
  BY <1>4, <1>5, <1>6 DEF SchedulePass, Enqueue, PassFails, next
<1>7. CASE DrainEnds(a)
  <2>1. PICK pc \in {"schedule", "derive"} : actor' = Goes(a, pc, 0)
    BY <1>7 DEF DrainEnds
  <2> QED BY <1>1, <2>1, GoneTyped
<1>8. CASE Defer(a)
  <2>1. actor' = Goes(a, "drain", actor[a].ran)
    BY <1>8 DEF Defer
  <2> QED BY <1>3, <2>1, GoneTyped
<1>9. CASE RecordFailure(a)
  <2>1. actor' = Goes(a, "drain", actor[a].ran + 1) /\ actor[a].ran < MaxJobs
    BY <1>9 DEF RecordFailure, At, RanInv
  <2>2. actor[a].ran + 1 \in 0..MaxJobs
    BY <1>3, <2>1, SyncAssumption
  <2> QED BY <2>1, <2>2, GoneTyped
<1> QED BY <1>6, <1>7, <1>8, <1>9

LEMMA BegunTyped ==
    ASSUME SyncInv, TypeOK, RanInv, NEW a \in Actors,
           replay' \in [Operators -> Replays],
           Claim(a) \/ (a \in Operators /\ (ManualSync(a) \/ ReplayChunk(a)))
    PROVE  actor' \in [Actors -> ActorStates] /\ RanInv'
<1>1. actor[a].ran < MaxJobs
  BY SyncAssumption DEF Claim, ManualSync, ReplayChunk, At, RanInv
<1>2. watermark \in Instants /\ 1 \in Nat \ {0} /\ 0 \in 0..MaxAttempts
  BY SyncAssumption DEF TypeOK
<1>3. CASE Claim(a)
  <2>1. PICK j \in Jobs : job[j].state = "queued"
                          /\ actor' = WithRun(a, "fetch", NewRun("job", j, job[j].attempts + 1, watermark, 1))
    BY <1>3 DEF Claim, Claimable
  <2>2. job[j].attempts + 1 \in 0..MaxAttempts
    BY <2>1, SyncAssumption DEF SyncInv, ChargesInv, JobType
  <2>3. NewRun("job", j, job[j].attempts + 1, watermark, 1) \in Runs
    BY <1>2, <2>2, NewRunIs
  <2> QED BY <1>1, <2>1, <2>3, RunningTyped
<1>4. CASE a \in Operators /\ ManualSync(a)
  <2>1. NewRun("api-sync", NoJob, 0, watermark, 1) \in Runs
    BY <1>2, NewRunIs
  <2> QED BY <1>1, <1>4, <2>1, RunningTyped DEF ManualSync
<1>5. CASE a \in Operators /\ ReplayChunk(a)
  <2>1. replay'[a].since \in Instants /\ replay'[a].page \in Nat
    BY <1>5 DEF Replays
  <2>2. replay'[a].page # 0
    BY <1>5 DEF ReplayChunk, TypeOK
  <2>3. NewRun("replay", NoJob, 0, replay'[a].since, replay'[a].page) \in Runs
    BY <1>2, <2>1, <2>2, NewRunIs
  <2> QED BY <1>1, <1>5, <2>3, RunningTyped DEF ReplayChunk
<1> QED BY <1>3, <1>4, <1>5

LEMMA PagesTyped ==
    ASSUME SyncInv, TypeOK, RanInv, NEW a \in Actors, FetchPage(a) \/ WritePage(a)
    PROVE  actor' \in [Actors -> ActorStates] /\ RanInv'
<1>1. actor[a].ran < MaxJobs
  BY DEF FetchPage, WritePage, At, RanInv, InRunState
<1>2. CASE FetchPage(a)
  <2> DEFINE n == [Run(a) EXCEPT !.got = [b \in Page(Run(a).page, Run(a).since) |-> stamp[b]],
                                 !.more = IsMore(Run(a).page, Run(a).since),
                                 !.fetched = Run(a).fetched + 1]
  <2>1. actor' = WithRun(a, "write", n)
    BY <1>2 DEF FetchPage
  <2>2. n \in Runs
    <3> DEFINE got == [b \in Page(Run(a).page, Run(a).since) |-> stamp[b]]
    <3>1. Run(a) \in Runs /\ got \in Versions
          /\ IsMore(Run(a).page, Run(a).since) \in BOOLEAN /\ Run(a).fetched + 1 \in Nat
      BY <1>2, FetchIs
    <3> HIDE DEF got
    <3>2. PICK more \in BOOLEAN, fetched \in Nat :
              n = [Run(a) EXCEPT !.got = got, !.more = more, !.fetched = fetched]
      BY <3>1 DEF got
    <3> HIDE DEF n
    <3> QED BY <3>1, <3>2, FetchEdit
  <2> HIDE DEF n
  <2> QED BY <1>1, <2>1, <2>2, RunningTyped
<1>3. CASE WritePage(a)
  <2> DEFINE n == [Run(a) EXCEPT !.wrote = Wrote(a), !.page = NextPage(a), !.got = <<>>, !.seen = Seen(a)]
  <2>1. PICK pc \in {"commit", "fetch"} : actor' = WithRun(a, pc, n)
    BY <1>3 DEF WritePage, Wrote, NextPage, Seen
  <2>2. n = [Run(a) EXCEPT !.wrote = Wrote(a), !.page = NextPage(a), !.got = <<>>, !.seen = Seen(a)]
    OBVIOUS
  <2> HIDE DEF n
  <2>3. n \in Runs
    BY <1>3, <2>2, WriteIs, WriteEdit
  <2> QED BY <1>1, <2>1, <2>3, RunningTyped
<1> QED BY <1>2, <1>3

LEMMA EndsTyped ==
    ASSUME SyncInv, TypeOK, RanInv, NEW a \in Actors,
           CommitJob(a) \/ CommitManual(a) \/ CommitChunk(a) \/ BudgetExceeded(a) \/ RunFails(a)
    PROVE  actor' \in [Actors -> ActorStates] /\ RanInv'
<1>1. InRun(a)
  BY DEF CommitJob, CommitManual, CommitChunk, BudgetExceeded, RunFails, At, InRun
<1>2. actor[a].ran < MaxJobs /\ actor[a] \in ActorStates /\ 0 \in 0..MaxJobs
  BY <1>1, SyncAssumption DEF InRun, InRunState, RanInv, TypeOK
<1>3. actor[a].ran \in 0..MaxJobs /\ actor[a].pending \in SUBSET Bills
  BY <1>2, StateFields
<1>4. CASE CommitJob(a)
  <2> DEFINE s == [pc |-> "drain", ran |-> actor[a].ran + 1,
                   pending |-> actor[a].pending \cup DOMAIN actor[a].run.wrote]
  <2>1. actor[a].ran + 1 \in 0..MaxJobs
    BY <1>2, <1>3, SyncAssumption
  <2>2. DOMAIN Run(a).wrote \in SUBSET Bills
    BY <1>1, StoredIs
  <2>3. s \in ActorStates /\ Counts(s)
    BY <1>3, <2>1, <2>2 DEF ActorStates, Counts, InRunState, Run
  <2>4. actor' = [actor EXCEPT ![a] = s]
    BY <1>4 DEF CommitJob
  <2> HIDE DEF s
  <2> QED BY <2>3, <2>4, ActorTyped
<1>5. CASE CommitManual(a) \/ CommitChunk(a)
  <2>1. actor' = Goes(a, "schedule", 0)
    BY <1>5 DEF CommitManual, CommitChunk
  <2> QED BY <1>2, <2>1, GoneTyped
<1>6. CASE BudgetExceeded(a) \/ RunFails(a)
  <2>1. PICK pc \in {"defer", "fail"} : actor' = RolledBack(a, pc)
    BY <1>6 DEF BudgetExceeded, RunFails, OwnHandler
  <2> QED BY <1>1, <2>1, RolledBackTyped
<1> QED BY <1>4, <1>5, <1>6

LEMMA DerivesTyped ==
    ASSUME SyncInv, TypeOK, RanInv, NEW w \in Actors,
           DeriveReads(w) \/ DeriveCommits(w) \/ DeriveFails(w) \/ Crash(w)
    PROVE  actor' \in [Actors -> ActorStates] /\ RanInv'
<1>1. actor[w] \in ActorStates
  BY DEF TypeOK
<1>2. actor[w].ran \in 0..MaxJobs /\ actor[w].pending \in SUBSET Bills
  BY <1>1, StateFields
<1>3. CASE DeriveReads(w)
  <2> DEFINE moved == {b \in actor[w].pending : derived[b] # have[b]}
  <2> DEFINE change == [b \in moved |-> have[b]]
  <2> DEFINE s == [pc |-> "deriving", ran |-> actor[w].ran, pending |-> actor[w].pending, change |-> change]
  <2>1. actor' = [actor EXCEPT ![w] = s]
    BY <1>3 DEF DeriveReads
  <2>2. moved \in SUBSET Bills /\ change \in [moved -> Instants]
    BY <1>2 DEF TypeOK
  <2>3. change \in Versions
    BY <2>2, AreVersions
  <2> HIDE DEF change
  <2>4. s \in ActorStates /\ Counts(s)
    BY <1>2, <2>3 DEF ActorStates, Counts, InRunState
  <2> HIDE DEF s
  <2> QED BY <2>1, <2>4, ActorTyped
<1>4. CASE DeriveCommits(w) \/ Crash(w)
  <2>1. actor' = [actor EXCEPT ![w] = Idle]
    BY <1>4 DEF DeriveCommits, Crash
  <2> QED BY <2>1, IdleTyped, ActorTyped
<1>5. CASE DeriveFails(w)
  <2> DEFINE s == [pc |-> "schedule", ran |-> 0, pending |-> actor[w].pending]
  <2>1. actor' = [actor EXCEPT ![w] = s]
    BY <1>5 DEF DeriveFails, Carried
  <2>2. s \in ActorStates /\ Counts(s)
    BY <1>2, SyncAssumption DEF ActorStates, Counts, InRunState
  <2> HIDE DEF s
  <2> QED BY <2>1, <2>2, ActorTyped
<1> QED BY <1>3, <1>4, <1>5

\* And everything else of what it is.
LEMMA MovesTyped ==
    ASSUME SyncInv, TypeOK, RanInv, Next
    PROVE  /\ now' \in Instants /\ stamp' \in [Bills -> Instants]
           /\ spent' \in [Actors -> 0..DailyBudget] /\ mishaps' \in 0..MaxMishaps
           /\ failures' \in [Jobs -> 0..MaxAttempts]
<1>1. now' \in Instants /\ stamp' \in [Bills -> Instants]
  <2>1. CASE Tick \/ \E b \in Bills : Change(b)
    BY <2>1, SyncAssumption DEF Tick, Change, TypeOK, Instants
  <2>2. CASE now' = now /\ stamp' = stamp
    BY <2>2 DEF TypeOK
  <2> QED
    BY <2>1, <2>2
    DEF Next, Tick, Change, SchedulePass, Enqueue, PassFails, FetchPage, RequestRetried, WritePage,
        BudgetExceeded, RunFails, Claim, DrainEnds, CommitJob, Defer, RecordFailure, DeriveReads,
        DeriveCommits, DeriveFails, Crash, ManualSync, ReplayChunk, CommitManual, CommitChunk
<1>2. spent' \in [Actors -> 0..DailyBudget]
  <2>1. CASE Tick
    BY <2>1, SyncAssumption DEF Tick, TypeOK
  <2>2. CASE \E a \in Actors : FetchPage(a) \/ RequestRetried(a)
    BY <2>2, SyncAssumption DEF FetchPage, RequestRetried, TypeOK
  <2>3. CASE \E w \in Workers : Crash(w)
    BY <2>3, SyncAssumption DEF Crash, TypeOK, Actors
  <2>4. CASE spent' = spent
    BY <2>4 DEF TypeOK
  <2> QED
    BY <2>1, <2>2, <2>3, <2>4
    DEF Next, Tick, Change, SchedulePass, Enqueue, PassFails, FetchPage, RequestRetried, WritePage,
        BudgetExceeded, RunFails, Claim, DrainEnds, CommitJob, Defer, RecordFailure, DeriveReads,
        DeriveCommits, DeriveFails, Crash, ManualSync, ReplayChunk, CommitManual, CommitChunk
<1>3. mishaps' \in 0..MaxMishaps
  <2>1. CASE Mishap
    BY <2>1, SyncAssumption DEF Mishap, TypeOK
  <2>2. CASE mishaps' = mishaps
    BY <2>2 DEF TypeOK
  <2> QED
    BY <2>1, <2>2
    DEF Next, Tick, Change, SchedulePass, Enqueue, PassFails, FetchPage, RequestRetried, WritePage,
        BudgetExceeded, RunFails, Claim, DrainEnds, CommitJob, Defer, RecordFailure, DeriveReads,
        DeriveCommits, DeriveFails, Crash, ManualSync, ReplayChunk, CommitManual, CommitChunk
<1>4. failures' \in [Jobs -> 0..MaxAttempts]
  BY SyncNext DEF SyncInv, JobType
<1> QED BY <1>1, <1>2, <1>3, <1>4

LEMMA JobsTyped ==
    ASSUME SyncInv, TypeOK, RanInv, Next
    PROVE  job' \in [Jobs -> JobRows]
<1>1. /\ now \in Nat /\ now <= Horizon /\ \A j \in Jobs : job[j] \in JobRows
      /\ Instants \subseteq 0..(Horizon + Day)
  BY SyncAssumption DEF TypeOK, Instants
<1>2. CASE \E a \in Actors : Enqueue(a)
  <2>1. PICK a \in Actors, j \in Jobs :
            /\ At(a, "planned")
            /\ job' = [job EXCEPT ![j] = [state |-> "queued", created |-> actor[a].at,
                                          after |-> actor[a].at, attempts |-> 0]]
    BY <1>2 DEF Enqueue
  <2> DEFINE at == actor[a].at
  <2>2. at \in Instants
    BY <2>1, StateFields DEF At, TypeOK
  <2> HIDE DEF at
  <2>3. [state |-> "queued", created |-> at, after |-> at, attempts |-> 0] \in JobRows
    BY <1>1, <2>2, SyncAssumption DEF JobRows
  <2> QED BY <2>1, <2>3 DEF TypeOK, at
<1>3. CASE \E w \in Workers : CommitJob(w)
  <2>1. PICK w \in Workers : job' = [job EXCEPT ![Run(w).job].state = "done"]
    BY <1>3 DEF CommitJob
  <2> QED BY <2>1 DEF TypeOK, JobRows
<1>4. CASE \E w \in Workers : Defer(w)
  <2>1. PICK w \in Workers : job' = job \/ job' = [job EXCEPT ![actor[w].job].after = NextMidnight]
    BY <1>4 DEF Defer
  <2>2. now % Day \in 0..(Day - 1) /\ now % Day <= now
    BY <1>1, SyncAssumption
  <2>3. NextMidnight \in 0..(Horizon + Day)
    BY <1>1, <2>2, SyncAssumption DEF NextMidnight
  <2> QED BY <2>1, <2>3 DEF TypeOK, JobRows
<1>5. CASE \E w \in Workers : RecordFailure(w)
  <2>1. PICK w \in Workers : RecordFailure(w)
    BY <1>5
  <2> DEFINE j == actor[w].job
  <2> DEFINE claimed == actor[w].claimed
  <2>2. claimed \in 0..MaxAttempts /\ now + 1 \in 0..(Horizon + Day)
    BY <1>1, <2>1, StateFields, SyncAssumption DEF RecordFailure, At, TypeOK, Actors
  <2>3. job' = [job EXCEPT ![j].attempts = claimed,
                           ![j].state = IF claimed >= MaxAttempts THEN "dead" ELSE "queued",
                           ![j].after = IF claimed >= MaxAttempts THEN @ ELSE now + 1]
    BY <2>1 DEF RecordFailure
  <2> HIDE DEF claimed
  <2>4. CASE claimed >= MaxAttempts
    <3>1. job' = [job EXCEPT ![j].attempts = claimed, ![j].state = "dead", ![j].after = @]
      BY <2>3, <2>4
    <3> DEFINE row == [job[j] EXCEPT !.attempts = claimed, !.state = "dead"]
    <3>2. job[j] \in JobRows => row \in JobRows
      BY <2>2 DEF JobRows
    <3>3. job' = [job EXCEPT ![j] = row]
      BY <3>1, <1>1 DEF TypeOK, JobRows
    <3> HIDE DEF row
    <3> QED BY <3>2, <3>3 DEF TypeOK
  <2>5. CASE ~(claimed >= MaxAttempts)
    <3>1. job' = [job EXCEPT ![j].attempts = claimed, ![j].state = "queued", ![j].after = now + 1]
      BY <2>3, <2>5
    <3> DEFINE row == [job[j] EXCEPT !.attempts = claimed, !.state = "queued", !.after = now + 1]
    <3>2. job[j] \in JobRows => row \in JobRows
      BY <2>2 DEF JobRows
    <3>3. job' = [job EXCEPT ![j] = row]
      BY <3>1
    <3> HIDE DEF row
    <3> QED BY <3>2, <3>3 DEF TypeOK
  <2> QED BY <2>4, <2>5
<1>6. CASE job' = job
  BY <1>6 DEF TypeOK
<1> QED
  BY <1>2, <1>3, <1>4, <1>5, <1>6
  DEF Next, Tick, Change, SchedulePass, PassFails, FetchPage, RequestRetried, WritePage,
      BudgetExceeded, RunFails, Claim, DrainEnds, DeriveReads, DeriveCommits, DeriveFails, Crash,
      ManualSync, ReplayChunk, CommitManual, CommitChunk

LEMMA ListedIs == ASSUME TypeOK, NEW since \in Instants
                  PROVE  [b \in Listed(since) |-> stamp[b]] \in Versions
<1>1. Listed(since) \in SUBSET Bills
  BY DEF Listed
<1> QED BY <1>1, AreVersions DEF TypeOK

LEMMA ReplaysTyped ==
    ASSUME TypeOK, NEW o \in Operators, ReplayChunk(o) \/ CommitChunk(o)
    PROVE  replay' \in [Operators -> Replays]
<1>1. replay[o] \in Replays
  BY DEF TypeOK
<1>2. CASE ReplayChunk(o)
  <2>1. CASE replay' = replay
    BY <2>1 DEF TypeOK
  <2>2. CASE \E since \in 1..now :
                 replay' = [replay EXCEPT ![o] = [page |-> 1, since |-> since, got |-> {},
                                                  owes |-> [b \in Listed(since) |-> stamp[b]]]]
    <3>1. PICK since \in 1..now :
                 replay' = [replay EXCEPT ![o] = [page |-> 1, since |-> since, got |-> {},
                                                  owes |-> [b \in Listed(since) |-> stamp[b]]]]
      BY <2>2
    <3>2. since \in Instants
      BY SyncAssumption DEF TypeOK, Instants
    <3> DEFINE owes == [b \in Listed(since) |-> stamp[b]]
    <3>3. owes \in Versions
      BY <3>2, ListedIs
    <3>4. replay' = [replay EXCEPT ![o] = [page |-> 1, since |-> since, got |-> {}, owes |-> owes]]
      BY <3>1
    <3> HIDE DEF owes
    <3>5. [page |-> 1, since |-> since, got |-> {}, owes |-> owes] \in Replays
      BY <3>2, <3>3 DEF Replays
    <3> QED BY <3>4, <3>5 DEF TypeOK
  <2> QED BY <1>2, <2>1, <2>2 DEF ReplayChunk
<1>3. CASE CommitChunk(o)
  <2>1. Run(o) \in Runs
    BY <1>3, RunIs DEF CommitChunk, At, InRun, Actors
  <2>2. Run(o).page \in Nat \ {0} /\ Run(o).seen \in SUBSET Bills
    BY <2>1, RunFields
  <2>3. [page |-> Run(o).page, since |-> replay[o].since, owes |-> replay[o].owes,
         got |-> replay[o].got \cup Run(o).seen] \in Replays
    BY <1>1, <2>2 DEF Replays
  <2>4. NoReplay \in Replays
    BY NoVersion, InstantsAre DEF Replays, NoReplay
  <2>5. CASE Truncated(o)
    BY <1>3, <2>3, <2>5 DEF CommitChunk, TypeOK, Resumes
  <2>6. CASE ~Truncated(o)
    BY <1>3, <2>4, <2>6 DEF CommitChunk, TypeOK
  <2> QED BY <2>5, <2>6
<1> QED BY <1>2, <1>3

LEMMA StoreTyped ==
    ASSUME SyncInv, TypeOK, RanInv, Next
    PROVE  /\ have' \in [Bills -> Instants] /\ watermark' \in Instants
           /\ derived' \in [Bills -> Instants]
           /\ excused' \in SUBSET Bills /\ dropped' \in SUBSET Bills
           /\ replay' \in [Operators -> Replays]
<1>1. CASE \E a \in Actors : CommitJob(a) \/ (a \in Operators /\ (CommitManual(a) \/ CommitChunk(a)))
  <2>1. PICK a \in Actors : CommitJob(a) \/ (a \in Operators /\ (CommitManual(a) \/ CommitChunk(a)))
    BY <1>1
  <2>2. InRun(a)
    BY <2>1 DEF CommitJob, CommitManual, CommitChunk, At, InRun
  <2>3. have' = Stored(a) /\ excused' = Excused(a) /\ derived' = derived
        /\ (watermark' = Advance(a) \/ watermark' = watermark)
        /\ (dropped' = dropped \/ dropped' = dropped \cup DOMAIN Run(a).wrote)
    BY <2>1 DEF CommitJob, CommitManual, CommitChunk
  <2>4. have' \in [Bills -> Instants] /\ watermark' \in Instants
        /\ excused' \in SUBSET Bills /\ dropped' \in SUBSET Bills
    BY <2>2, <2>3, StoredIs DEF TypeOK
  <2>5. replay' \in [Operators -> Replays]
    BY <2>1, ReplaysTyped DEF CommitJob, CommitManual, TypeOK
  <2> QED BY <2>3, <2>4, <2>5 DEF TypeOK
<1>2. CASE \E w \in Workers : DeriveCommits(w)
  <2>1. PICK w \in Workers : DeriveCommits(w)
    BY <1>2
  <2> DEFINE change == actor[w].change
  <2>2. change \in Versions
    BY <2>1, StateFields DEF DeriveCommits, At, TypeOK, Actors
  <2>3. DOMAIN change \in SUBSET Bills /\ \A b \in DOMAIN change : change[b] \in Instants
    BY <2>2, VersionFields
  <2>4. derived' \in [Bills -> Instants]
    BY <2>1, <2>3 DEF DeriveCommits, TypeOK
  <2>5. dropped' \in SUBSET Bills
    BY <2>1, <2>3 DEF DeriveCommits, TypeOK, Overtaken
  <2> QED BY <2>1, <2>4, <2>5 DEF DeriveCommits, TypeOK
<1>3. CASE \E w \in Workers : Crash(w)
  <2>1. PICK w \in Workers : Crash(w)
    BY <1>3
  <2>2. actor[w].pending \in SUBSET Bills
    BY StateFields DEF TypeOK, Actors
  <2> QED BY <2>1, <2>2 DEF Crash, TypeOK
<1>4. CASE \E b \in Bills : Change(b)
  BY <1>4 DEF Change, TypeOK
<1>5. CASE \E o \in Operators : ReplayChunk(o)
  <2>1. PICK o \in Operators : ReplayChunk(o)
    BY <1>5
  <2>2. replay' \in [Operators -> Replays]
    BY <2>1, ReplaysTyped
  <2> QED BY <2>1, <2>2 DEF ReplayChunk, TypeOK
<1>6. CASE UNCHANGED <<have, watermark, derived, excused, dropped, replay>>
  BY <1>6 DEF TypeOK
<1> QED
  BY <1>1, <1>2, <1>3, <1>4, <1>5, <1>6
  DEF Next, Tick, SchedulePass, Enqueue, PassFails, FetchPage, RequestRetried, WritePage,
      BudgetExceeded, RunFails, Claim, DrainEnds, Defer, RecordFailure, DeriveReads,
      DeriveFails, ManualSync, Actors

LEMMA TypesInit == Init => TypeOK /\ RanInv
<1> SUFFICES ASSUME Init PROVE TypeOK /\ RanInv
  OBVIOUS
<1>1. Idle \in ActorStates /\ Counts(Idle)
  BY IdleTyped
<1>2. NoReplay \in Replays
  BY NoVersion, InstantsAre DEF Replays, NoReplay
<1>3. \A a \in Actors : actor[a] = Idle
  BY DEF Init
<1>4. RanInv
  BY <1>1, <1>3 DEF RanInv, Counts
<1>5. actor \in [Actors -> ActorStates] /\ replay \in [Operators -> Replays]
  BY <1>1, <1>2 DEF Init
<1>6. [state |-> "free", created |-> 0, after |-> 0, attempts |-> 0] \in JobRows
  BY InstantsAre, SyncAssumption DEF JobRows
<1>7. job \in [Jobs -> JobRows]
  BY <1>6 DEF Init
<1>8. now \in Instants
  BY SyncAssumption DEF Init, Instants
<1> QED BY <1>4, <1>5, <1>7, <1>8, InstantsAre, SyncAssumption DEF Init, TypeOK

LEMMA TypesNext == SyncInv /\ TypeOK /\ RanInv /\ [Next]_vars => (TypeOK /\ RanInv)'
<1> SUFFICES ASSUME SyncInv, TypeOK, RanInv, [Next]_vars PROVE TypeOK' /\ RanInv'
  OBVIOUS
<1>1. CASE UNCHANGED vars
  BY <1>1 DEF vars, TypeOK, RanInv
<1>2. CASE Next
  <2>1. actor' \in [Actors -> ActorStates] /\ RanInv'
    <3>1. replay' \in [Operators -> Replays]
      BY <1>2, StoreTyped
    <3>2. CASE actor' = actor
      BY <3>2 DEF TypeOK, RanInv
    <3> QED
      BY <1>2, <3>1, <3>2, PassesTyped, BegunTyped, PagesTyped, EndsTyped, DerivesTyped
      DEF Next, Tick, Change, RequestRetried, Actors
  <2> QED BY <1>2, <2>1, MovesTyped, JobsTyped, StoreTyped DEF TypeOK
<1> QED BY <1>1, <1>2

\* The types of every variable, and of every run, hold of every execution.
THEOREM SyncTypeCorrect == Spec => []TypeOK
<1>1. Init => SyncInv /\ TypeOK /\ RanInv
  BY SyncInit, TypesInit
<1>2. SyncInv /\ TypeOK /\ RanInv /\ [Next]_vars => (SyncInv /\ TypeOK /\ RanInv)'
  BY SyncNext, TypesNext
<1> QED BY <1>1, <1>2, PTL DEF Spec

-----------------------------------------------------------------------------
(* Bills: the listing.                                                     *)

LEMMA Quotient ==
    ASSUME NEW x \in Nat, NEW n \in Nat \ {0}
    PROVE  /\ x \div n \in Nat
           /\ (x \div n) * n <= x /\ x < (x \div n) * n + n
  OBVIOUS

LEMMA Times ==
    ASSUME NEW p \in Nat, NEW q \in Nat, NEW n \in Nat, p <= q
    PROVE  p * n <= q * n
<1>1. PICK d \in Nat : q = p + d
  <2>1. q - p \in Nat /\ q = p + (q - p)
    OBVIOUS
  <2> QED BY <2>1
<1>2. q * n = p * n + d * n /\ d * n >= 0
  BY <1>1
<1>3. p * n \in Int /\ d * n \in Int
  BY <1>1
<1> QED BY <1>2, <1>3

LEMMA Quotients ==
    ASSUME NEW x \in Nat, NEW y \in Nat, NEW n \in Nat \ {0}, x <= y
    PROVE  x \div n <= y \div n
<1> DEFINE p == x \div n
<1> DEFINE q == y \div n
<1>1. p \in Nat /\ q \in Nat /\ p * n <= x /\ y < q * n + n
  BY Quotient
<1> HIDE DEF p, q
<1>2. ASSUME p > q PROVE FALSE
  <2>1. (q + 1) * n <= p * n
    BY <1>1, <1>2, Times
  <2>2. (q + 1) * n = q * n + n /\ q * n \in Int /\ p * n \in Int
    BY <1>1
  <2> QED BY <1>1, <2>1, <2>2
<1>3. p <= q
  BY <1>1, <1>2
<1> QED BY <1>3 DEF p, q

\* A rank counts some of the bills listed, and never the bill itself.
LEMMA RankIs ==
    ASSUME TypeOK, NEW b \in Bills, NEW since \in Instants
    PROVE  /\ Rank(b, since) \in Nat /\ PageOf(b, since) \in Nat \ {0}
           /\ Cardinality(Listed(since)) \in Nat
           /\ b \in Listed(since) => Rank(b, since) < Cardinality(Listed(since))
<1> DEFINE before == {c \in Listed(since) : Before(c, b)}
<1>1. Listed(since) \in SUBSET Bills /\ before \in SUBSET Listed(since) /\ IsFiniteSet(Bills)
  BY SyncAssumption DEF Listed
<1>2. IsFiniteSet(Listed(since))
  BY <1>1, FS_Subset
<1>3. /\ IsFiniteSet(before) /\ Cardinality(before) <= Cardinality(Listed(since))
      /\ Cardinality(Listed(since)) = Cardinality(before) => Listed(since) = before
  BY <1>1, <1>2, FS_Subset
<1>4. Cardinality(before) \in Nat /\ Cardinality(Listed(since)) \in Nat
  BY <1>2, <1>3, FS_CardinalityType
<1>5. stamp[b] \in Int /\ b \in Int
  BY SyncAssumption, InstantsAre DEF TypeOK
<1>6. b \notin before
  BY <1>5 DEF Before
<1>7. b \in Listed(since) => Cardinality(before) < Cardinality(Listed(since))
  BY <1>3, <1>4, <1>6
<1>8. Rank(b, since) = Cardinality(before)
  BY DEF Rank
<1> HIDE DEF before
<1>9. Rank(b, since) \div PageSize \in Nat
  BY <1>4, <1>8, Quotient, SyncAssumption
<1> QED BY <1>4, <1>7, <1>8, <1>9 DEF PageOf

\* A bill beyond a page is one upstream has more after that page for.
LEMMA BeyondIsMore ==
    ASSUME TypeOK, NEW b \in Bills, NEW since \in Instants, NEW p \in Nat,
           since <= stamp[b], PageOf(b, since) > p
    PROVE  IsMore(p, since)
<1> DEFINE rank == Rank(b, since)
<1> DEFINE q == rank \div PageSize
<1>1. b \in Listed(since)
  BY InstantsAre DEF Listed, TypeOK
<1>2. rank \in Nat /\ rank < Cardinality(Listed(since)) /\ Cardinality(Listed(since)) \in Nat
  BY <1>1, RankIs
<1>3. PageSize \in Nat \ {0}
  BY SyncAssumption
<1>4. PageOf(b, since) = q + 1
  BY DEF PageOf
<1> HIDE DEF rank
<1>5. q \in Nat /\ q * PageSize <= rank
  BY <1>2, <1>3, Quotient
<1> HIDE DEF q
<1>6. p <= q
  BY <1>4, <1>5
<1>7. p * PageSize <= q * PageSize /\ p * PageSize \in Int /\ q * PageSize \in Int
  BY <1>3, <1>5, <1>6, Times
<1> QED BY <1>2, <1>5, <1>7 DEF IsMore

\* A bill of a page is in it, as it is upstream.
LEMMA InItsPage ==
    ASSUME TypeOK, NEW b \in Bills, NEW since \in Instants, NEW p, since <= stamp[b],
           PageOf(b, since) = p
    PROVE  b \in Page(p, since)
<1>1. b \in Listed(since)
  BY InstantsAre DEF Listed, TypeOK
<1> QED BY <1>1 DEF Page

\* A bill that has not changed is moved down the listing by those that do,
\* never up.
LEMMA RanksGrow ==
    ASSUME TypeOK, TypeOK', NEW c \in Bills, Change(c), NEW b \in Bills, b # c,
           NEW since \in Instants, stamp[b] <= now
    PROVE  PageOf(b, since) <= PageOf(b, since)' /\ PageOf(b, since)' \in Nat
<1> DEFINE before == {x \in Listed(since) : Before(x, b)}
<1> DEFINE after == {x \in Bills : x \in Listed(since)' /\ Before(x, b)'}
<1>1. /\ stamp[c] < now /\ now' = now
      /\ \A x \in Bills : stamp'[x] = IF x = c THEN now ELSE stamp[x]
  BY DEF Change, TypeOK
<1>2. \A x \in Bills : stamp[x] \in Int /\ now \in Int /\ since \in Int /\ x \in Int
  BY InstantsAre, SyncAssumption DEF TypeOK
<1>3. before \subseteq after
  BY <1>1, <1>2 DEF Listed, Before
<1>4. after \in SUBSET Bills /\ IsFiniteSet(Bills)
  BY SyncAssumption
<1>5. Rank(b, since) = Cardinality(before)
  BY DEF Rank
<1>6. Rank(b, since)' = Cardinality(after)
  <2>1. {x \in Listed(since)' : Before(x, b)'} = after
    BY DEF Listed
  <2> QED BY <2>1 DEF Rank
<1> HIDE DEF before, after
<1>7. IsFiniteSet(after)
  BY <1>4, FS_Subset
<1>8. Cardinality(before) <= Cardinality(after)
  BY <1>3, <1>7, FS_Subset
<1>9. Rank(b, since) \in Nat
  BY RankIs
<1>10. Rank(b, since)' \in Nat
  BY <1>6, <1>7, FS_CardinalityType
<1>11. Rank(b, since) \div PageSize <= Rank(b, since)' \div PageSize
  BY <1>5, <1>6, <1>8, <1>9, <1>10, Quotients, SyncAssumption
<1>12. Rank(b, since) \div PageSize \in Nat /\ Rank(b, since)' \div PageSize \in Nat
  BY <1>9, <1>10, Quotient, SyncAssumption
<1> QED BY <1>11, <1>12 DEF PageOf

\* Where upstream has not moved, neither has the listing.
LEMMA RanksStay ==
    ASSUME stamp' = stamp, NEW b, NEW since
    PROVE  PageOf(b, since)' = PageOf(b, since)
  BY DEF PageOf, Rank, Listed, Before

-----------------------------------------------------------------------------
(* Bills: the steps of one run, which store nothing.                       *)

SameStore == UNCHANGED <<now, stamp, have, watermark, excused>>

\* A run that nobody touches is as it was.
LEMMA Untouched ==
    ASSUME SameStore, NEW a, actor'[a] = actor[a]
    PROVE  /\ InRun(a)' = InRun(a) /\ Run(a)' = Run(a)
           /\ PastRun(a)' = PastRun(a) /\ PagesRun(a)' = PagesRun(a)
           /\ \A b : InHand(a, b)' = InHand(a, b) /\ Later(a, b)' = Later(a, b)
<1>1. InRun(a)' = InRun(a) /\ Run(a)' = Run(a) /\ stamp' = stamp
  BY DEF InRun, Run, SameStore
<1>2. PastRun(a)' = PastRun(a)
  BY <1>1 DEF PastRun, SameStore
<1>3. \A b : InHand(a, b)' = InHand(a, b) /\ Later(a, b)' = Later(a, b) /\ Knows(a, b)' = Knows(a, b)
  BY <1>1, RanksStay DEF InHand, Later, Knows, Known, At
<1>4. PagesRun(a)' = PagesRun(a)
  BY <1>1, <1>3 DEF PagesRun, SameStore
<1> QED BY <1>1, <1>2, <1>3, <1>4

\* So a step of one run has that run alone to answer for.
LEMMA OneRun ==
    ASSUME BillsInv, SameStore, NEW a \in Actors, \A o \in Actors : o # a => actor'[o] = actor[o],
           InRun(a)' => PastRun(a)' /\ PagesRun(a)',
           \A o \in Operators : o # a => replay'[o] = replay[o],
           a \in Operators => ReplayOf(a)'
    PROVE  BillsInv'
<1>1. PastInv'
  <2>1. \A o \in Actors : InRun(o)' => PastRun(o)'
    BY Untouched DEF BillsInv, PastInv
  <2> QED BY <2>1 DEF BillsInv, PastInv, SameStore
<1>2. PagesInv'
  <2>1. \A o \in Actors : InRun(o)' => PagesRun(o)'
    BY Untouched DEF BillsInv, PagesInv
  <2> QED BY <2>1 DEF PagesInv
<1>3. NothingMissed'
  BY DEF BillsInv, NothingMissed, SameStore
<1>4. ReplayInv'
  <2>1. ASSUME NEW o \in Operators, o # a PROVE ReplayOf(o)'
    <3>1. actor'[o] = actor[o] /\ replay'[o] = replay[o] /\ stamp' = stamp
      BY <2>1 DEF Actors, SameStore
    <3>2. ReplayOf(o)
      BY DEF BillsInv, ReplayInv
    <3>3. \A b : Owed(o, b)' = Owed(o, b)
      BY <3>1 DEF Owed
    <3>4. ReplayOwes(o)'
      BY <3>1, <3>2, <3>3, RanksStay DEF ReplayOf, ReplayOwes
    <3>5. InRun(o)' = InRun(o) /\ Run(o)' = Run(o)
          /\ \A b : InHand(o, b)' = InHand(o, b) /\ Later(o, b)' = Later(o, b)
      BY <3>1, Untouched
    <3> QED BY <3>1, <3>2, <3>3, <3>4, <3>5 DEF ReplayOf, ReplayRun
  <2> QED BY <2>1 DEF ReplayInv
<1> QED BY <1>1, <1>2, <1>3, <1>4 DEF BillsInv

\* A run that ends without storing, and a step of an actor that is at none.
LEMMA NoRun ==
    ASSUME BillsInv, SameStore, NEW a \in Actors, \A o \in Actors : o # a => actor'[o] = actor[o],
           ~InRun(a)', replay' = replay
    PROVE  BillsInv'
<1>1. a \in Operators => ReplayOf(a)'
  <2>1. ASSUME a \in Operators PROVE ReplayOf(a)'
    <3>1. ReplayOwes(a) /\ stamp' = stamp
      BY <2>1 DEF BillsInv, ReplayInv, ReplayOf, SameStore
    <3>2. \A b : Owed(a, b)' = Owed(a, b)
      BY <3>1 DEF Owed
    <3>3. ReplayOwes(a)'
      BY <3>1, <3>2, RanksStay DEF ReplayOwes
    <3> QED BY <3>3 DEF ReplayOf
  <2> QED BY <2>1
<1> QED BY <1>1, OneRun

LEMMA SameRuns ==
    ASSUME BillsInv, SameStore, actor' = actor, replay' = replay
    PROVE  BillsInv'
<1>1. stamp' = stamp /\ \A a, b : Owed(a, b)' = Owed(a, b)
  BY DEF SameStore, Owed
<1>2. PastInv' /\ PagesInv' /\ NothingMissed'
  BY Untouched DEF BillsInv, PastInv, PagesInv, NothingMissed, SameStore
<1>3. ASSUME NEW o \in Operators PROVE ReplayOf(o)'
  <2>1. ReplayOf(o)
    BY DEF BillsInv, ReplayInv
  <2>2. ReplayOwes(o)'
    BY <1>1, <2>1, RanksStay DEF ReplayOf, ReplayOwes
  <2>3. InRun(o)' = InRun(o) /\ Run(o)' = Run(o)
        /\ \A b : InHand(o, b)' = InHand(o, b) /\ Later(o, b)' = Later(o, b)
    BY Untouched
  <2> QED BY <1>1, <2>1, <2>2, <2>3 DEF ReplayOf, ReplayRun
<1> QED BY <1>2, <1>3 DEF BillsInv, ReplayInv

\* The steps outside a run, and its failures.
LEMMA OutsideStays ==
    ASSUME TypeOK, BillsInv, NEW a \in Actors,
           \/ SchedulePass(a) \/ Enqueue(a) \/ PassFails(a) \/ DrainEnds(a) \/ Defer(a)
           \/ RecordFailure(a) \/ BudgetExceeded(a) \/ RunFails(a)
           \/ DeriveReads(a) \/ DeriveCommits(a) \/ DeriveFails(a) \/ Crash(a)
    PROVE  BillsInv'
<1>1. SameStore /\ replay' = replay
  BY DEF SameStore, SchedulePass, Enqueue, PassFails, DrainEnds, Defer, RecordFailure, BudgetExceeded,
         RunFails, DeriveReads, DeriveCommits, DeriveFails, Crash
<1> DEFINE Quits == \E s : actor' = [actor EXCEPT ![a] = s] /\ s.pc \notin {"fetch", "write", "commit"}
<1>2. Quits
  <2>1. ASSUME NEW pc \in {"schedule", "drain", "derive"}, NEW ran, actor' = Goes(a, pc, ran) PROVE Quits
    <3> DEFINE s == [pc |-> pc, ran |-> ran, pending |-> actor[a].pending]
    <3>1. actor' = [actor EXCEPT ![a] = s] /\ s.pc = pc
      BY <2>1 DEF Goes
    <3> HIDE DEF s
    <3> QED BY <3>1
  <2>2. CASE SchedulePass(a)
    <3> DEFINE s == [pc |-> "planned", ran |-> 0, pending |-> actor[a].pending, at |-> now]
    <3>1. CASE actor' = [actor EXCEPT ![a] = s]
      <4>1. s.pc = "planned"
        OBVIOUS
      <4> HIDE DEF s
      <4> QED BY <3>1, <4>1
    <3>2. CASE actor' = Goes(a, IF a \in Workers THEN "drain" ELSE "schedule", 0)
      BY <2>1, <3>2
    <3> QED BY <2>2, <3>1, <3>2 DEF SchedulePass
  <2>3. CASE Enqueue(a) \/ PassFails(a) \/ DrainEnds(a) \/ Defer(a) \/ RecordFailure(a)
    <3>1. \E pc \in {"drain", "schedule", "derive"} : \E ran : actor' = Goes(a, pc, ran)
      BY <2>3 DEF Enqueue, PassFails, DrainEnds, Defer, RecordFailure
    <3> QED BY <2>1, <3>1
  <2>4. CASE BudgetExceeded(a) \/ RunFails(a)
    <3>1. PICK pc \in {"defer", "fail"} : actor' = RolledBack(a, pc)
      BY <2>4 DEF BudgetExceeded, RunFails, OwnHandler
    <3> DEFINE s == [pc |-> pc, ran |-> actor[a].ran, pending |-> actor[a].pending,
                     job |-> actor[a].run.job, claimed |-> actor[a].run.claimed]
    <3>2. actor' = [actor EXCEPT ![a] = s] \/ actor' = Goes(a, "schedule", 0)
      BY <3>1 DEF RolledBack
    <3>3. s.pc = pc
      OBVIOUS
    <3> HIDE DEF s
    <3> QED BY <2>1, <3>2, <3>3
  <2>5. CASE DeriveReads(a) \/ DeriveFails(a)
    <3> DEFINE change == [b \in {x \in actor[a].pending : derived[x] # have[x]} |-> have[b]]
    <3> DEFINE s == [pc |-> "deriving", ran |-> actor[a].ran, pending |-> actor[a].pending,
                     change |-> change]
    <3> DEFINE t == [pc |-> "schedule", ran |-> 0, pending |-> actor[a].pending]
    <3>1. actor' = [actor EXCEPT ![a] = s] \/ actor' = [actor EXCEPT ![a] = t]
      BY <2>5 DEF DeriveReads, DeriveFails, Carried
    <3> HIDE DEF change
    <3>2. s.pc = "deriving" /\ t.pc = "schedule"
      OBVIOUS
    <3> HIDE DEF s, t
    <3> QED BY <3>1, <3>2
  <2>6. CASE DeriveCommits(a) \/ Crash(a)
    <3>1. Idle.pc = "schedule"
      BY IdleTyped
    <3> QED BY <2>6, <3>1 DEF DeriveCommits, Crash
  <2> QED BY <2>2, <2>3, <2>4, <2>5, <2>6
<1>3. ~InRun(a)' /\ \A o \in Actors : o # a => actor'[o] = actor[o]
  BY <1>2 DEF InRun, TypeOK
<1> QED BY <1>1, <1>3, NoRun

\* The beginning of a run: everything is ahead of it.
LEMMA AllAhead ==
    ASSUME TypeOK, NEW a \in Actors, NEW kind \in {"job", "api-sync", "replay"}, NEW j \in Jobs \cup {NoJob},
           NEW claimed \in 0..MaxAttempts, NEW since \in Instants, NEW page \in Nat \ {0},
           actor' = WithRun(a, "fetch", NewRun(kind, j, claimed, since, page)), stamp' = stamp
    PROVE  /\ InRun(a)' /\ \A o \in Actors : o # a => actor'[o] = actor[o]
           /\ Run(a)'.kind = kind /\ Run(a)'.since = since /\ Run(a)'.started = now
           /\ Run(a)'.loaded = have /\ Run(a)'.got = <<>> /\ Run(a)'.wrote = <<>>
           /\ \A b \in Bills : PageOf(b, since) >= page => Later(a, b)'
<1>0. PICK n : n = NewRun(kind, j, claimed, since, page)
  OBVIOUS
<1>1. /\ n.kind = kind /\ n.since = since /\ n.started = now /\ n.loaded = have
      /\ n.page = page /\ n.got = <<>> /\ n.wrote = <<>>
  BY <1>0 DEF NewRun
<1>2. actor' = WithRun(a, "fetch", n)
  BY <1>0
<1>3. actor'[a].pc = "fetch" /\ actor'[a].run = n /\ \A o \in Actors : o # a => actor'[o] = actor[o]
  BY <1>2 DEF WithRun, TypeOK
<1>4. InRun(a)' /\ Run(a)' = n /\ At(a, "fetch")'
  BY <1>3 DEF InRun, Run, At
<1>5. \A b : PageOf(b, since)' = PageOf(b, since)
  BY RanksStay
<1> QED BY <1>1, <1>3, <1>4, <1>5 DEF Later

LEMMA SyncBegins ==
    ASSUME TypeOK, BillsInv, NEW a \in Actors, NEW kind \in {"job", "api-sync"}, NEW j \in Jobs \cup {NoJob},
           NEW claimed \in 0..MaxAttempts, SameStore, replay' = replay,
           actor' = WithRun(a, "fetch", NewRun(kind, j, claimed, watermark, 1))
    PROVE  BillsInv'
<1>1. watermark \in Instants /\ 1 \in Nat \ {0} /\ stamp' = stamp /\ have' = have /\ now' = now
      /\ watermark' = watermark /\ excused' = excused
  BY DEF TypeOK, SameStore
<1>2. /\ InRun(a)' /\ \A o \in Actors : o # a => actor'[o] = actor[o]
      /\ Run(a)'.kind = kind /\ Run(a)'.since = watermark /\ Run(a)'.started = now
      /\ Run(a)'.loaded = have /\ Run(a)'.got = <<>> /\ Run(a)'.wrote = <<>>
      /\ \A b \in Bills : PageOf(b, watermark) >= 1 => Later(a, b)'
  BY <1>1, AllAhead
<1>3. now \in Int /\ watermark \in Int
  BY InstantsAre DEF TypeOK
<1>4. PastRun(a)'
  BY <1>1, <1>2, <1>3, NoVersion DEF PastRun, BillsInv, PastInv
<1>5. PagesRun(a)'
  <2>1. \A b \in Bills : PageOf(b, watermark) >= 1
    BY <1>1, RankIs
  <2> QED BY <1>1, <1>2, <2>1 DEF PagesRun
<1>6. a \in Operators => ReplayOf(a)'
  <2>1. ASSUME a \in Operators PROVE ReplayOwes(a)
    BY <2>1 DEF BillsInv, ReplayInv, ReplayOf
  <2>2. \A b : Owed(a, b)' = Owed(a, b)
    BY <1>1 DEF Owed
  <2>3. a \in Operators => ReplayOwes(a)'
    BY <1>1, <2>1, <2>2, RanksStay DEF ReplayOwes
  <2> QED BY <1>2, <2>3 DEF ReplayOf
<1> QED BY <1>2, <1>4, <1>5, <1>6, OneRun

LEMMA ReplayBegins ==
    ASSUME TypeOK, TypeOK', BillsInv, NEW o \in Operators, ReplayChunk(o)
    PROVE  BillsInv'
<1>0. PICK since, page : since = replay'[o].since /\ page = replay'[o].page
  OBVIOUS
<1>1. /\ SameStore /\ stamp' = stamp /\ have' = have /\ now' = now /\ o \in Actors
      /\ 0 \in 0..MaxAttempts /\ replay \in [Operators -> Replays] /\ NoJob \in Jobs \cup {NoJob}
  BY SyncAssumption DEF ReplayChunk, SameStore, TypeOK, Actors
<1>2. since \in Instants /\ page \in Nat
  BY <1>0 DEF TypeOK, Replays
<1>3. \A x \in Operators : x # o => replay'[x] = replay[x]
  BY <1>1 DEF ReplayChunk
<1>4. page # 0 /\ ReplayOwes(o)'
  <2>1. CASE replay' = replay
    <3>1. \A b : Owed(o, b)' = Owed(o, b)
      BY <1>1, <2>1 DEF Owed
    <3>2. page # 0
      BY <1>0, <2>1 DEF ReplayChunk, TypeOK
    <3>3. ReplayOwes(o)
      BY DEF BillsInv, ReplayInv, ReplayOf
    <3> QED BY <1>0, <1>1, <2>1, <3>1, <3>2, <3>3, RanksStay DEF ReplayOwes
  <2>2. CASE \E t \in 1..now :
                 replay' = [replay EXCEPT ![o] = [page |-> 1, since |-> t, got |-> {},
                                                  owes |-> [b \in Listed(t) |-> stamp[b]]]]
    <3>1. page = 1 /\ replay'[o].owes = [b \in Listed(since) |-> stamp[b]]
      BY <1>0, <1>1, <2>2
    <3>2. \A b \in Bills : PageOf(b, since) >= 1
      BY <1>2, RankIs
    <3>3. \A b \in Bills : PageOf(b, since)' >= 1
      BY <1>1, <3>2, RanksStay
    <3>4. \A b \in DOMAIN replay'[o].owes :
              b \in Bills /\ since <= replay'[o].owes[b] /\ replay'[o].owes[b] <= stamp'[b]
      BY <1>0, <1>1, <1>2, <3>1, InstantsAre DEF Listed, TypeOK
    <3> QED BY <1>0, <3>1, <3>3, <3>4 DEF ReplayOwes
  <2> QED BY <2>1, <2>2 DEF ReplayChunk
<1>5. actor' = WithRun(o, "fetch", NewRun("replay", NoJob, 0, since, page))
  BY <1>0 DEF ReplayChunk
<1>6. page \in Nat \ {0}
  BY <1>2, <1>4
<1>7. /\ InRun(o)' /\ \A x \in Actors : x # o => actor'[x] = actor[x]
      /\ Run(o)'.kind = "replay" /\ Run(o)'.since = since /\ Run(o)'.started = now
      /\ Run(o)'.loaded = have /\ Run(o)'.got = <<>> /\ Run(o)'.wrote = <<>>
      /\ \A b \in Bills : PageOf(b, since) >= page => Later(o, b)'
  BY <1>1, <1>2, <1>5, <1>6, AllAhead
<1>8. now \in Int
  BY InstantsAre DEF TypeOK
<1>9. PastRun(o)'
  BY <1>1, <1>7, <1>8, NoVersion DEF PastRun, BillsInv, PastInv
<1>10. PagesRun(o)'
  BY <1>1, <1>7 DEF PagesRun
<1>11. ReplayRun(o)'
  <2>1. \A b \in Bills : Owed(o, b)' => PageOf(b, since)' >= page
    BY <1>0, <1>4 DEF ReplayOwes
  <2>2. \A b \in Bills : Owed(o, b)' => Later(o, b)'
    BY <1>1, <1>7, <2>1, RanksStay
  <2> QED BY <1>0, <1>4, <1>7, <2>2 DEF ReplayRun
<1>12. ReplayOf(o)'
  BY <1>4, <1>11 DEF ReplayOf
<1> QED BY <1>1, <1>3, <1>7, <1>9, <1>10, <1>12, OneRun

LEMMA BeginsStays ==
    ASSUME SyncInv, TypeOK, TypeOK', BillsInv, NEW a \in Actors,
           Claim(a) \/ (a \in Operators /\ (ManualSync(a) \/ ReplayChunk(a)))
    PROVE  BillsInv'
<1>1. CASE Claim(a)
  <2>1. PICK j \in Jobs : job[j].state = "queued"
                          /\ actor' = WithRun(a, "fetch", NewRun("job", j, job[j].attempts + 1, watermark, 1))
    BY <1>1 DEF Claim, Claimable
  <2>2. job[j].attempts + 1 \in 0..MaxAttempts
    BY <2>1, SyncAssumption DEF SyncInv, ChargesInv, JobType
  <2>3. SameStore /\ replay' = replay
    BY <1>1 DEF Claim, SameStore
  <2> QED BY <2>1, <2>2, <2>3, SyncBegins
<1>2. CASE a \in Operators /\ ManualSync(a)
  <2>1. SameStore /\ replay' = replay /\ 0 \in 0..MaxAttempts
    BY <1>2, SyncAssumption DEF ManualSync, SameStore
  <2> QED BY <1>2, <2>1, SyncBegins DEF ManualSync
<1>3. CASE a \in Operators /\ ReplayChunk(a)
  BY <1>3, ReplayBegins
<1> QED BY <1>1, <1>2, <1>3

\* The page a run asks for next has each bill that is on it, as it is upstream;
\* and there is more upstream for those further down.
LEMMA FetchTurns ==
    ASSUME TypeOK, NEW a \in Actors, FetchPage(a)
    PROVE  /\ InRun(a) /\ InRun(a)' /\ \A o \in Actors : o # a => actor'[o] = actor[o]
           /\ Run(a)'.kind = Run(a).kind /\ Run(a)'.since = Run(a).since
           /\ Run(a)'.started = Run(a).started /\ Run(a)'.loaded = Run(a).loaded
           /\ Run(a)'.wrote = Run(a).wrote /\ Run(a)'.seen = Run(a).seen
           /\ \A b \in DOMAIN Run(a)'.got : Run(a)'.got[b] = stamp[b]
           /\ \A b \in Bills : Run(a).since <= stamp[b] /\ (InHand(a, b) \/ Later(a, b)) =>
                  InHand(a, b)' \/ Later(a, b)'
<1>0. PICK r, got, more, fetched :
          /\ r = Run(a) /\ got = [b \in Page(r.page, r.since) |-> stamp[b]]
          /\ more = IsMore(r.page, r.since) /\ fetched = r.fetched + 1
  OBVIOUS
<1>1. r \in Runs /\ got \in Versions /\ more \in BOOLEAN /\ fetched \in Nat
  BY <1>0, FetchIs
<1>2. PICK n : n = [r EXCEPT !.got = got, !.more = more, !.fetched = fetched]
  OBVIOUS
<1>3. /\ n.kind = r.kind /\ n.since = r.since /\ n.started = r.started /\ n.loaded = r.loaded
      /\ n.page = r.page /\ n.got = got /\ n.more = more /\ n.seen = r.seen /\ n.wrote = r.wrote
  BY <1>1, <1>2 DEF Runs
<1>4. actor' = WithRun(a, "write", n)
  BY <1>0, <1>2 DEF FetchPage
<1>5. actor'[a].pc = "write" /\ actor'[a].run = n /\ \A o \in Actors : o # a => actor'[o] = actor[o]
  BY <1>4 DEF WithRun, TypeOK
<1>6. InRun(a)' /\ Run(a)' = n /\ At(a, "write")' /\ At(a, "fetch") /\ InRun(a) /\ stamp' = stamp
  BY <1>5 DEF InRun, Run, At, FetchPage
<1>7. ASSUME NEW b \in Bills, r.since <= stamp[b], InHand(a, b) \/ Later(a, b)
      PROVE  InHand(a, b)' \/ Later(a, b)'
  <2>1. r.since \in Instants /\ r.page \in Nat
    BY <1>1, RunFields
  <2>2. PageOf(b, r.since) >= r.page
    BY <1>0, <1>6, <1>7 DEF InHand, Later, At
  <2>3. PageOf(b, r.since) \in Nat
    BY <2>1, RankIs
  <2>4. CASE PageOf(b, r.since) = r.page
    <3>1. b \in Page(r.page, r.since)
      BY <1>7, <2>1, <2>4, InItsPage
    <3>2. b \in DOMAIN n.got /\ n.got[b] = stamp[b]
      BY <1>0, <1>3, <3>1
    <3> QED BY <1>6, <3>2 DEF InHand
  <2>5. CASE PageOf(b, r.since) > r.page
    <3>1. more
      BY <1>0, <1>7, <2>1, <2>5, BeyondIsMore
    <3>2. PageOf(b, n.since)' > n.page
      BY <1>3, <1>6, <2>5, RanksStay
    <3> QED BY <1>3, <1>6, <3>1, <3>2 DEF Later
  <2> QED BY <2>1, <2>2, <2>3, <2>4, <2>5
<1> QED BY <1>0, <1>3, <1>5, <1>6, <1>7

\* What a run writes it knows, and the page it asks for next is the one after:
\* it ends before upstream's last page only if it says so.
LEMMA WriteTurns ==
    ASSUME TypeOK, NEW a \in Actors, WritePage(a)
    PROVE  /\ InRun(a) /\ InRun(a)' /\ \A o \in Actors : o # a => actor'[o] = actor[o]
           /\ Run(a)'.kind = Run(a).kind /\ Run(a)'.since = Run(a).since
           /\ Run(a)'.started = Run(a).started /\ Run(a)'.loaded = Run(a).loaded
           /\ Run(a)'.wrote = Wrote(a) /\ Run(a)'.seen = Seen(a) /\ Run(a)'.got = <<>>
           /\ \A b \in Bills : Later(a, b) => Later(a, b)'
           /\ \A b \in Bills : InHand(a, b) => Knows(a, b)'
           /\ \A b \in Bills : Knows(a, b) /\ (b \in DOMAIN Run(a).got => Run(a).got[b] = stamp[b]) =>
                  Knows(a, b)'
<1>0. PICK r, wrote, page, seen : r = Run(a) /\ wrote = Wrote(a) /\ page = NextPage(a) /\ seen = Seen(a)
  OBVIOUS
<1>1. r \in Runs /\ wrote \in Versions /\ page \in Nat \ {0} /\ seen \in SUBSET Bills
  BY <1>0, WriteIs
<1>2. PICK n : n = [r EXCEPT !.wrote = wrote, !.page = page, !.got = <<>>, !.seen = seen]
  OBVIOUS
<1>3. /\ n.kind = r.kind /\ n.since = r.since /\ n.started = r.started /\ n.loaded = r.loaded
      /\ n.page = page /\ n.got = <<>> /\ n.more = r.more /\ n.seen = seen /\ n.wrote = wrote
  BY <1>1, <1>2 DEF Runs
<1>4. PICK pc \in {"commit", "fetch"} : actor' = WithRun(a, pc, n)
  BY <1>0, <1>2 DEF WritePage, Wrote, NextPage, Seen
<1>5. actor'[a].pc = pc /\ actor'[a].run = n /\ \A o \in Actors : o # a => actor'[o] = actor[o]
  BY <1>4 DEF WithRun, TypeOK
<1>6. /\ InRun(a)' /\ Run(a)' = n /\ (At(a, "commit")' \/ At(a, "fetch")') /\ At(a, "write")
      /\ InRun(a) /\ stamp' = stamp
  BY <1>5 DEF InRun, Run, At, WritePage
<1>7. ASSUME NEW b \in Bills, Later(a, b) PROVE Later(a, b)'
  <2>1. r.more /\ PageOf(b, r.since) > r.page
    BY <1>0, <1>6, <1>7 DEF Later, At
  <2>2. r.since \in Instants /\ r.page \in Nat
    BY <1>1, RunFields
  <2>3. PageOf(b, r.since) \in Nat
    BY <2>2, RankIs
  <2>4. PageOf(b, n.since)' >= n.page
    BY <1>0, <1>3, <1>6, <2>1, <2>2, <2>3, RanksStay DEF NextPage
  <2> QED BY <1>3, <1>6, <2>1, <2>4 DEF Later
<1>8. ASSUME NEW b \in Bills, b \in DOMAIN r.got, r.got[b] = stamp[b] PROVE Knows(a, b)'
  <2>1. CASE b \in DOMAIN r.wrote \cup Changed(a)
    <3>1. b \in DOMAIN wrote /\ wrote[b] = stamp[b]
      BY <1>0, <1>8, <2>1 DEF Wrote
    <3> QED BY <1>3, <1>6, <3>1 DEF Knows, Known
  <2>2. CASE b \notin DOMAIN r.wrote \cup Changed(a)
    <3>1. r.loaded[b] = stamp[b] /\ b \notin DOMAIN wrote
      BY <1>0, <1>8, <2>2 DEF Changed, Known, Wrote
    <3> QED BY <1>3, <1>6, <3>1 DEF Knows, Known
  <2> QED BY <2>1, <2>2
<1>9. ASSUME NEW b \in Bills, Knows(a, b), b \notin DOMAIN r.got PROVE Knows(a, b)'
  <2>1. b \notin Changed(a)
    BY <1>0, <1>9 DEF Changed
  <2>2. b \in DOMAIN wrote <=> b \in DOMAIN r.wrote
    BY <1>0, <2>1 DEF Wrote
  <2>3. b \in DOMAIN r.wrote => wrote[b] = r.wrote[b]
    BY <1>0, <1>9 DEF Wrote
  <2> QED BY <1>0, <1>3, <1>6, <1>9, <2>2, <2>3 DEF Knows, Known
<1>10. \A b \in Bills : InHand(a, b) => Knows(a, b)'
  BY <1>0, <1>8 DEF InHand
<1>11. \A b \in Bills : Knows(a, b) /\ (b \in DOMAIN Run(a).got => Run(a).got[b] = stamp[b]) => Knows(a, b)'
  BY <1>0, <1>8, <1>9
<1> QED BY <1>0, <1>3, <1>5, <1>6, <1>7, <1>10, <1>11

LEMMA PagesKeep ==
    ASSUME TypeOK, TypeOK', BillsInv, NEW a \in Actors, FetchPage(a) \/ WritePage(a)
    PROVE  BillsInv'
<1>1. /\ SameStore /\ replay' = replay /\ stamp' = stamp /\ have' = have /\ now' = now
      /\ watermark' = watermark /\ excused' = excused
  BY DEF FetchPage, WritePage, SameStore
<1>2. /\ InRun(a) /\ InRun(a)' /\ \A o \in Actors : o # a => actor'[o] = actor[o]
      /\ Run(a)'.kind = Run(a).kind /\ Run(a)'.since = Run(a).since
      /\ Run(a)'.started = Run(a).started /\ Run(a)'.loaded = Run(a).loaded
  BY FetchTurns, WriteTurns
<1>3. PastRun(a) /\ PagesRun(a) /\ Run(a) \in Runs
  BY <1>2, RunIs DEF BillsInv, PastInv, PagesInv
<1>4. PastRun(a)'
  <2>1. CASE FetchPage(a)
    <3>1. \A b \in DOMAIN Run(a)'.got : Run(a)'.got[b] = stamp[b] /\ b \in Bills
      <4>1. Run(a)' \in Runs
        <5>1. TypeOK => (InRun(a) => Run(a) \in Runs)
          BY RunIs
        <5>2. TypeOK' => (InRun(a)' => (Run(a) \in Runs)')
          BY StateFields DEF TypeOK, InRun, InRunState, Run
        <5>3. (Run(a) \in Runs)'
          BY <1>2, <5>2
        <5> QED BY <5>3 DEF Runs, Versions, Instants
      <4>2. DOMAIN Run(a)'.got \in SUBSET Bills
        BY <4>1, RunFields
      <4> QED BY <2>1, <4>2, FetchTurns
    <3>2. Run(a)'.wrote = Run(a).wrote
      BY <2>1, FetchTurns
    <3>3. \A b \in Bills : stamp[b] \in Int
      BY InstantsAre DEF TypeOK
    <3> QED BY <1>1, <1>2, <1>3, <3>1, <3>2, <3>3 DEF PastRun
  <2>2. CASE WritePage(a)
    <3>1. Run(a)'.wrote = Wrote(a) /\ Run(a)'.got = <<>>
      BY <2>2, WriteTurns
    <3>2. \A b \in DOMAIN Wrote(a) : Wrote(a)[b] <= stamp[b]
      BY <1>3 DEF Wrote, PastRun, Changed
    <3> QED BY <1>1, <1>2, <1>3, <3>1, <3>2, NoVersion DEF PastRun
  <2> QED BY <2>1, <2>2
<1>5. PagesRun(a)'
  <2>1. ASSUME NEW b \in Bills, Run(a).kind # "replay", Run(a).since <= stamp[b], stamp[b] < Run(a).started
        PROVE  Knows(a, b)' \/ InHand(a, b)' \/ Later(a, b)'
    <3>1. Knows(a, b) \/ InHand(a, b) \/ Later(a, b)
      BY <1>3, <2>1 DEF PagesRun
    <3>2. CASE FetchPage(a)
      <4>1. Knows(a, b) => Knows(a, b)'
        BY <1>1, <1>2, <3>2, FetchTurns DEF Knows, Known
      <4> QED BY <2>1, <3>1, <3>2, <4>1, FetchTurns
    <3>3. CASE WritePage(a)
      <4>1. stamp[b] \in Int /\ Run(a).started \in Int
        BY <1>3, InstantsAre, RunFields DEF TypeOK
      <4>2. b \in DOMAIN Run(a).got => Run(a).got[b] = stamp[b]
        BY <1>3, <2>1, <4>1 DEF PastRun
      <4> QED BY <3>1, <3>3, <4>2, WriteTurns
    <3> QED BY <3>2, <3>3
  <2> QED BY <1>1, <1>2, <1>3, <2>1 DEF PagesRun
<1>6. ASSUME a \in Operators PROVE ReplayOf(a)'
  <2>1. ReplayOf(a) /\ \A b : Owed(a, b)' = Owed(a, b)
    BY <1>1, <1>6 DEF BillsInv, ReplayInv, Owed
  <2>2. ReplayOwes(a)'
    BY <1>1, <2>1, RanksStay DEF ReplayOf, ReplayOwes
  <2>3. ASSUME Run(a).kind = "replay" PROVE ReplayRun(a)'
    <3>1. ReplayRun(a)
      BY <1>2, <2>1, <2>3 DEF ReplayOf
    <3>2. ASSUME NEW b \in Bills, Owed(a, b)
          PROVE  b \in Run(a)'.seen \/ InHand(a, b)' \/ Later(a, b)'
      <4>1. b \in Run(a).seen \/ InHand(a, b) \/ Later(a, b)
        BY <3>1, <3>2 DEF ReplayRun
      <4>2. CASE FetchPage(a)
        <5>1. Run(a).since <= stamp[b]
          BY <2>1, <3>1, <3>2 DEF ReplayOf, ReplayOwes, ReplayRun, Owed
        <5> QED BY <4>1, <4>2, <5>1, FetchTurns
      <4>3. CASE WritePage(a)
        <5>1. Run(a)'.seen = Run(a).seen \cup DOMAIN Run(a).got
          BY <2>3, <4>3, WriteTurns DEF Seen
        <5> QED BY <4>1, <4>3, <5>1, WriteTurns DEF InHand
      <4> QED BY <4>2, <4>3
    <3> QED BY <1>1, <1>2, <2>1, <3>1, <3>2 DEF ReplayRun
  <2> QED BY <1>2, <2>2, <2>3 DEF ReplayOf
<1> QED BY <1>1, <1>2, <1>4, <1>5, <1>6, OneRun

-----------------------------------------------------------------------------
(* Bills: time, and the world.                                             *)

LEMMA TickKeeps == ASSUME TypeOK, BillsInv, Tick PROVE BillsInv'
<1>1. /\ now' = now + 1 /\ stamp' = stamp /\ have' = have /\ watermark' = watermark /\ actor' = actor
      /\ excused' = excused /\ replay' = replay
  BY DEF Tick
<1>2. now \in Int /\ watermark \in Int /\ \A b \in Bills : stamp[b] \in Int
  BY InstantsAre DEF TypeOK
<1>3. \A a, b : /\ InRun(a)' = InRun(a) /\ Run(a)' = Run(a) /\ Owed(a, b)' = Owed(a, b)
                /\ Knows(a, b)' = Knows(a, b) /\ InHand(a, b)' = InHand(a, b)
                /\ Later(a, b)' = Later(a, b)
  BY <1>1, RanksStay DEF InRun, Run, Knows, Known, InHand, Later, At, Owed
<1>4. ASSUME NEW a \in Actors, InRun(a) PROVE PastRun(a)' /\ PagesRun(a)'
  <2>1. PastRun(a) /\ PagesRun(a) /\ Run(a) \in Runs
    BY <1>4, RunIs DEF BillsInv, PastInv, PagesInv
  <2>2. Run(a).started \in Int
    BY <2>1, RunFields, InstantsAre
  <2>3. PastRun(a)'
    BY <1>1, <1>2, <1>3, <2>1, <2>2 DEF PastRun
  <2>4. PagesRun(a)'
    BY <1>1, <1>3, <2>1 DEF PagesRun
  <2> QED BY <2>3, <2>4
<1>5. PastInv'
  BY <1>1, <1>2, <1>3, <1>4 DEF BillsInv, PastInv
<1>6. PagesInv' /\ NothingMissed'
  BY <1>1, <1>3, <1>4 DEF BillsInv, PagesInv, NothingMissed
<1>7. ASSUME NEW o \in Operators PROVE ReplayOf(o)'
  <2>1. ReplayOf(o)
    BY DEF BillsInv, ReplayInv
  <2>2. ReplayOwes(o)'
    BY <1>1, <1>3, <2>1, RanksStay DEF ReplayOf, ReplayOwes
  <2> QED BY <1>1, <1>3, <2>1, <2>2 DEF ReplayOf, ReplayRun
<1> QED BY <1>5, <1>6, <1>7 DEF BillsInv, ReplayInv

\* A bill that changes does so after every run in progress started, and goes to
\* the front of the listing: no other is nearer to it than before.
LEMMA ChangeKeeps == ASSUME TypeOK, TypeOK', BillsInv, NEW c \in Bills, Change(c) PROVE BillsInv'
<1>1. /\ now' = now /\ have' = have /\ watermark' = watermark /\ actor' = actor /\ replay' = replay
      /\ stamp[c] < now /\ excused' = excused \ {c}
      /\ \A b \in Bills : stamp'[b] = IF b = c THEN now ELSE stamp[b]
  BY DEF Change, TypeOK
<1>2. /\ now \in Int /\ watermark \in Int /\ \A b \in Bills : stamp[b] \in Int /\ have[b] \in Int
      /\ watermark <= now /\ \A b \in Bills : have[b] <= stamp[b] /\ stamp[b] <= now
  BY InstantsAre DEF TypeOK, BillsInv, PastInv
<1>3. \A b \in Bills : stamp[b] <= stamp'[b]
  BY <1>1, <1>2
<1>4. \A a : InRun(a)' = InRun(a) /\ Run(a)' = Run(a) /\ \A b : Known(a, b)' = Known(a, b)
  BY <1>1 DEF InRun, Run, Known
<1>5. ASSUME NEW a \in Actors, InRun(a), NEW b \in Bills, b # c
      PROVE  /\ Knows(a, b)' = Knows(a, b) /\ InHand(a, b)' = InHand(a, b)
             /\ Later(a, b) => Later(a, b)'
  <2>1. Run(a) \in Runs
    BY <1>5, RunIs
  <2>2. PICK since, page : since = Run(a).since /\ page = Run(a).page
    OBVIOUS
  <2>3. since \in Instants /\ page \in Nat /\ since = Run(a)'.since /\ page = Run(a)'.page
    BY <1>4, <2>1, <2>2, RunFields
  <2>4. PageOf(b, since) <= PageOf(b, since)' /\ PageOf(b, since)' \in Nat
    BY <1>2, <1>5, <2>3, RanksGrow
  <2>5. PageOf(b, since) \in Nat
    BY <2>3, RankIs
  <2>6. PICK p \in Nat, q \in Nat : p = PageOf(b, since) /\ q = PageOf(b, since)' /\ p <= q
    BY <2>4, <2>5
  <2>7. Later(a, b) => Later(a, b)'
    <3>1. (p >= page => q >= page) /\ (p > page => q > page)
      BY <2>3, <2>6
    <3>2. Later(a, b) = \/ At(a, "fetch") /\ p >= page
                        \/ At(a, "write") /\ Run(a).more /\ p > page
                        \/ At(a, "commit") /\ Run(a).more /\ p >= page
      BY <2>2, <2>6 DEF Later
    <3>3. Later(a, b)' = \/ At(a, "fetch") /\ q >= page
                         \/ At(a, "write") /\ Run(a).more /\ q > page
                         \/ At(a, "commit") /\ Run(a).more /\ q >= page
      BY <1>1, <1>4, <2>3, <2>6 DEF Later, At
    <3> QED BY <3>1, <3>2, <3>3
  <2>8. Knows(a, b)' = Knows(a, b) /\ InHand(a, b)' = InHand(a, b)
    BY <1>1, <1>4, <1>5 DEF Knows, InHand, At
  <2> QED BY <2>7, <2>8
<1>6. ASSUME NEW a \in Actors, InRun(a) PROVE PastRun(a)'
  <2>1. PastRun(a) /\ Run(a) \in Runs
    BY <1>6, RunIs DEF BillsInv, PastInv
  <2>2. /\ Run(a).started \in Int /\ \A b \in Bills : Run(a).loaded[b] \in Int
        /\ \A b \in DOMAIN Run(a).wrote : b \in Bills /\ Run(a).wrote[b] \in Int
        /\ \A b \in DOMAIN Run(a).got : b \in Bills /\ Run(a).got[b] \in Int
    BY <2>1, RunFields, InstantsAre
  <2>3. \A b \in DOMAIN Run(a).got :
            Run(a).got[b] <= stamp'[b] /\ (Run(a).got[b] = stamp'[b] \/ stamp'[b] >= Run(a).started)
    BY <1>1, <1>2, <2>1, <2>2 DEF PastRun
  <2> QED BY <1>1, <1>2, <1>3, <1>4, <2>1, <2>2, <2>3 DEF PastRun
<1>7. ASSUME NEW a \in Actors, InRun(a) PROVE PagesRun(a)'
  <2>1. PastRun(a) /\ PagesRun(a) /\ Run(a) \in Runs
    BY <1>7, RunIs DEF BillsInv, PastInv, PagesInv
  <2>2. Run(a).started \in Int /\ \A b \in Bills : Run(a).loaded[b] \in Int
    BY <2>1, RunFields, InstantsAre
  <2>3. ~(stamp'[c] < Run(a).started) /\ Run(a).loaded[c] # stamp'[c]
    BY <1>1, <1>2, <2>1, <2>2 DEF PastRun
  <2>4. ASSUME NEW b \in Bills
        PROVE  /\ Run(a).kind # "replay" /\ Run(a).since <= stamp'[b] /\ stamp'[b] < Run(a).started =>
                      Knows(a, b)' \/ InHand(a, b)' \/ Later(a, b)'
               /\ Run(a).loaded[b] = stamp'[b] => have[b] = stamp'[b] \/ b \in excused'
    <3>1. CASE b = c
      BY <2>3, <3>1
    <3>2. CASE b # c
      BY <1>1, <1>5, <1>7, <2>1, <3>2 DEF PagesRun
    <3> QED BY <3>1, <3>2
  <2> QED BY <1>1, <1>4, <2>4 DEF PagesRun
<1>8. PastInv' /\ PagesInv'
  <2>1. \A b \in Bills : have'[b] <= stamp'[b] /\ stamp'[b] <= now'
    BY <1>1, <1>2
  <2> QED BY <1>1, <1>2, <1>4, <1>6, <1>7, <2>1 DEF PastInv, PagesInv, Actors
<1>9. NothingMissed'
  BY <1>1, <1>2 DEF BillsInv, NothingMissed
<1>10. ASSUME NEW o \in Operators PROVE ReplayOf(o)'
  <2>1. ReplayOf(o) /\ replay[o] \in Replays
    BY DEF BillsInv, ReplayInv, TypeOK
  <2>2. replay[o].since \in Instants /\ replay[o].page \in Nat /\ replay[o].owes \in Versions
    BY <2>1 DEF Replays
  <2>3. \A b \in DOMAIN replay[o].owes : b \in Bills /\ replay[o].owes[b] \in Int
    BY <2>2, VersionFields, InstantsAre
  <2>4. \A b : Owed(o, b)' => b # c /\ Owed(o, b)
    BY <1>1, <1>2, <2>1, <2>3 DEF Owed, ReplayOf, ReplayOwes
  <2>5. \A b \in DOMAIN replay[o].owes :
            b \in Bills /\ replay[o].since <= replay[o].owes[b] /\ replay[o].owes[b] <= stamp'[b]
    <3>1. \A b \in DOMAIN replay[o].owes :
              b \in Bills /\ replay[o].since <= replay[o].owes[b] /\ replay[o].owes[b] <= stamp[b]
      BY <2>1 DEF ReplayOf, ReplayOwes
    <3>2. \A b \in Bills : stamp[b] <= stamp'[b] /\ stamp[b] \in Int /\ stamp'[b] \in Int
      BY <1>1, <1>2, <1>3
    <3> QED BY <2>3, <3>1, <3>2
  <2>6. ASSUME replay[o].page # 0, NEW b \in Bills, Owed(o, b)'
        PROVE  PageOf(b, replay[o].since)' >= replay[o].page
    <3>1. PICK since, page : since = replay[o].since /\ page = replay[o].page
      OBVIOUS
    <3>2. since = replay'[o].since /\ since \in Instants /\ page \in Nat
      BY <1>1, <2>2, <3>1
    <3>3. PageOf(b, since) >= page
      BY <2>1, <2>4, <2>6, <3>1 DEF ReplayOf, ReplayOwes
    <3>4. PageOf(b, since) <= PageOf(b, since)' /\ PageOf(b, since)' \in Nat
      BY <1>2, <2>4, <2>6, <3>2, RanksGrow
    <3>5. PageOf(b, since) \in Nat
      BY <3>2, RankIs
    <3>6. PageOf(b, since)' >= page
      BY <3>2, <3>3, <3>4, <3>5
    <3> QED BY <1>1, <3>1, <3>2, <3>6
  <2>7. ReplayOwes(o)'
    BY <1>1, <2>5, <2>6 DEF ReplayOwes
  <2>8. ASSUME InRun(o), Run(o).kind = "replay" PROVE ReplayRun(o)'
    <3>1. ReplayRun(o) /\ o \in Actors
      BY <2>1, <2>8 DEF ReplayOf, Actors
    <3>2. \A b \in Bills : Owed(o, b)' => b \in Run(o).seen \/ InHand(o, b)' \/ Later(o, b)'
      BY <1>5, <2>4, <2>8, <3>1 DEF ReplayRun
    <3> QED BY <1>1, <1>4, <3>1, <3>2 DEF ReplayRun
  <2> QED BY <1>4, <2>7, <2>8 DEF ReplayOf
<1> QED BY <1>8, <1>9, <1>10 DEF BillsInv, ReplayInv

-----------------------------------------------------------------------------
(* Bills: what a run stores.                                               *)

\* The run stores what it wrote, over what others have since stored too; what is
\* then behind upstream was left out, written back, or excused before.
LEMMA CommitKeeps ==
    ASSUME TypeOK, BillsInv, NEW a \in Actors, At(a, "commit"),
           UNCHANGED <<now, stamp>>, have' = Stored(a), excused' = Excused(a),
           watermark' = watermark \/ (Run(a).kind # "replay" /\ watermark' = Advance(a)),
           ~InRun(a)', \A o \in Actors : o # a => actor'[o] = actor[o],
           \A o \in Operators : o # a => replay'[o] = replay[o],
           a \in Operators => ReplayOwes(a)'
    PROVE  BillsInv'
<1>1. InRun(a) /\ Run(a) \in Runs
  BY RunIs DEF At, InRun
<1>2. PastRun(a) /\ PagesRun(a)
  BY <1>1 DEF BillsInv, PastInv, PagesInv
<1>3. /\ \A b \in Bills : stamp[b] \in Int /\ have[b] \in Int /\ stamp[b] <= now /\ have[b] <= stamp[b]
      /\ now \in Int /\ watermark \in Int /\ watermark <= now
      /\ Run(a).started \in Int /\ Run(a).since \in Int /\ Run(a).started <= now
  BY <1>1, <1>2, RunFields, InstantsAre DEF TypeOK, BillsInv, PastInv, PastRun
<1>4. \A b \in Bills : /\ have'[b] = IF b \in DOMAIN Run(a).wrote THEN Run(a).wrote[b] ELSE have[b]
                       /\ have'[b] \in Int
  BY <1>1, StoredIs, InstantsAre
<1>5. \A b \in Bills : have'[b] <= stamp[b]
  BY <1>2, <1>3, <1>4 DEF PastRun
<1>6. watermark' \in Int /\ watermark <= watermark' /\ watermark' <= now
      /\ (watermark' = watermark \/ (Run(a).kind # "replay" /\ watermark' = Run(a).started))
  BY <1>1, <1>3, StoredIs
<1>7. \A b \in Bills : /\ b \in excused /\ have'[b] # stamp[b] => b \in excused'
                       /\ b \in LeftOut(a) /\ have'[b] # stamp[b] => b \in excused'
                       /\ have'[b] < have[b] /\ have'[b] # stamp[b] => b \in excused'
  BY DEF Excused, WrittenBack
<1>8. \A o \in Actors : o # a =>
          /\ InRun(o)' = InRun(o) /\ Run(o)' = Run(o)
          /\ \A b : /\ Knows(o, b)' = Knows(o, b) /\ InHand(o, b)' = InHand(o, b)
                    /\ Later(o, b)' = Later(o, b)
  BY RanksStay DEF InRun, Run, Knows, Known, InHand, Later, At
<1>9. PastInv'
  <2>1. ASSUME NEW o \in Actors, InRun(o)' PROVE PastRun(o)'
    <3>1. o # a /\ InRun(o) /\ Run(o)' = Run(o)
      BY <1>8, <2>1
    <3>2. PastRun(o) /\ Run(o) \in Runs
      BY <3>1, RunIs DEF BillsInv, PastInv
    <3>3. Run(o).since \in Int
      BY <3>2, RunFields, InstantsAre
    <3> QED BY <1>3, <1>6, <3>1, <3>2, <3>3 DEF PastRun
  <2> QED BY <1>3, <1>5, <1>6, <2>1 DEF PastInv
<1>10. PagesInv'
  <2>1. ASSUME NEW o \in Actors, InRun(o)' PROVE PagesRun(o)'
    <3>1. o # a /\ InRun(o) /\ Run(o)' = Run(o)
      BY <1>8, <2>1
    <3>2. PagesRun(o)
      BY <3>1 DEF BillsInv, PagesInv
    <3>3. ASSUME NEW b \in Bills, have[b] = stamp[b] \/ b \in excused
          PROVE  have'[b] = stamp[b] \/ b \in excused'
      BY <1>3, <1>4, <1>5, <1>7, <3>3
    <3> QED BY <1>8, <3>1, <3>2, <3>3 DEF PagesRun
  <2> QED BY <2>1 DEF PagesInv
<1>11. ASSUME NEW b \in Bills, have'[b] < stamp[b], stamp[b] < watermark'
       PROVE  b \in excused'
  <2>1. have'[b] # stamp[b]
    BY <1>3, <1>4, <1>11
  <2>2. CASE stamp[b] < watermark
    <3>1. have[b] < stamp[b] \/ have'[b] < have[b]
      BY <1>3, <1>4, <1>11
    <3> QED BY <1>7, <2>1, <2>2, <3>1 DEF BillsInv, NothingMissed
  <2>3. CASE ~(stamp[b] < watermark)
    <3>1. Run(a).kind # "replay" /\ stamp[b] < Run(a).started
      BY <1>3, <1>6, <1>11, <2>3
    <3>2. CASE Truncated(a)
      <4>1. b \in LeftOut(a)
        BY <3>1, <3>2 DEF LeftOut
      <4> QED BY <1>7, <2>1, <4>1
    <3>3. CASE ~Truncated(a)
      <4>1. Run(a).since <= stamp[b]
        BY <1>2, <1>3, <2>3, <3>1 DEF PastRun
      <4>2. ~InHand(a, b) /\ ~Later(a, b)
        BY <3>3 DEF InHand, Later, At, Truncated
      <4>3. Known(a, b) = stamp[b]
        BY <1>2, <3>1, <4>1, <4>2 DEF PagesRun, Knows
      <4>4. b \notin DOMAIN Run(a).wrote /\ Run(a).loaded[b] = stamp[b]
        BY <1>4, <2>1, <4>3 DEF Known
      <4>5. b \in excused
        BY <1>2, <1>4, <2>1, <4>4 DEF PagesRun
      <4> QED BY <1>7, <2>1, <4>5
    <3> QED BY <3>2, <3>3
  <2> QED BY <2>2, <2>3
<1>12. NothingMissed'
  BY <1>11 DEF NothingMissed
<1>13. ASSUME NEW o \in Operators PROVE ReplayOf(o)'
  <2>1. CASE o = a
    BY <2>1 DEF ReplayOf
  <2>2. CASE o # a
    <3>1. replay'[o] = replay[o] /\ ReplayOf(o) /\ o \in Actors /\ \A b : Owed(o, b)' = Owed(o, b)
      BY <2>2 DEF BillsInv, ReplayInv, Actors, Owed
    <3>2. ReplayOwes(o)'
      BY <3>1, RanksStay DEF ReplayOf, ReplayOwes
    <3> QED BY <1>8, <2>2, <3>1, <3>2 DEF ReplayOf, ReplayRun
  <2> QED BY <2>1, <2>2
<1> QED BY <1>9, <1>10, <1>12, <1>13 DEF BillsInv, ReplayInv

\* A chunk that ends before upstream's last page leaves the rest owed, from the
\* page it names.
LEMMA ChunkOwes ==
    ASSUME TypeOK, BillsInv, NEW o \in Operators, CommitChunk(o)
    PROVE  ReplayOwes(o)'
<1>1. At(o, "commit") /\ InRun(o) /\ Run(o).kind = "replay" /\ stamp' = stamp /\ o \in Actors
  BY DEF CommitChunk, At, InRun, Actors
<1>2. ReplayOwes(o) /\ ReplayRun(o)
  BY <1>1 DEF BillsInv, ReplayInv, ReplayOf
<1>3. CASE Truncated(o)
  <2>1. /\ replay'[o].page = Run(o).page /\ replay'[o].since = replay[o].since
        /\ replay'[o].owes = replay[o].owes /\ replay'[o].got = replay[o].got \cup Run(o).seen
    BY <1>3 DEF CommitChunk, Resumes, TypeOK
  <2>2. ASSUME NEW b \in Bills, Owed(o, b)'
        PROVE  PageOf(b, replay[o].since) >= Run(o).page
    <3>1. Owed(o, b) /\ b \notin Run(o).seen
      BY <1>1, <2>1, <2>2 DEF Owed
    <3> QED BY <1>1, <1>2, <3>1 DEF ReplayRun, InHand, Later, At
  <2> QED BY <1>1, <1>2, <2>1, <2>2, RanksStay DEF ReplayOwes
<1>4. CASE ~Truncated(o)
  <2>1. replay'[o] = NoReplay
    BY <1>4 DEF CommitChunk, TypeOK
  <2>2. replay'[o].page = 0 /\ DOMAIN replay'[o].owes = {}
    BY <2>1, NoVersion DEF NoReplay
  <2> QED BY <2>2 DEF ReplayOwes
<1> QED BY <1>3, <1>4

LEMMA CommitsKeep ==
    ASSUME TypeOK, BillsInv, NEW a \in Actors,
           \/ a \in Workers /\ CommitJob(a)
           \/ a \in Operators /\ (CommitManual(a) \/ CommitChunk(a))
    PROVE  BillsInv'
<1>1. /\ At(a, "commit") /\ UNCHANGED <<now, stamp>> /\ have' = Stored(a) /\ excused' = Excused(a)
      /\ watermark' = watermark \/ (Run(a).kind # "replay" /\ watermark' = Advance(a))
  BY DEF CommitJob, CommitManual, CommitChunk
<1>2. PICK s : actor' = [actor EXCEPT ![a] = s] /\ s.pc \in {"drain", "schedule"}
  <2> DEFINE s == [pc |-> "drain", ran |-> actor[a].ran + 1,
                   pending |-> actor[a].pending \cup DOMAIN actor[a].run.wrote]
  <2> DEFINE t == [pc |-> "schedule", ran |-> 0, pending |-> actor[a].pending]
  <2>1. actor' = [actor EXCEPT ![a] = s] \/ actor' = [actor EXCEPT ![a] = t]
    BY DEF CommitJob, CommitManual, CommitChunk, Goes
  <2>2. s.pc = "drain" /\ t.pc = "schedule"
    OBVIOUS
  <2> HIDE DEF s, t
  <2> QED BY <2>1, <2>2
<1>3. ~InRun(a)' /\ \A o \in Actors : o # a => actor'[o] = actor[o]
  BY <1>2 DEF InRun, TypeOK
<1>4. \A o \in Operators : o # a => replay'[o] = replay[o]
  BY DEF CommitJob, CommitManual, CommitChunk, TypeOK
<1>5. a \in Operators => ReplayOwes(a)'
  <2>1. ASSUME a \in Operators PROVE ReplayOwes(a)'
    <3>1. CASE CommitChunk(a)
      BY <2>1, <3>1, ChunkOwes
    <3>2. CASE CommitManual(a)
      <4>1. replay' = replay /\ stamp' = stamp /\ ReplayOwes(a)
        BY <2>1, <3>2 DEF CommitManual, BillsInv, ReplayInv, ReplayOf
      <4>2. \A b : Owed(a, b)' = Owed(a, b)
        BY <4>1 DEF Owed
      <4> QED BY <4>1, <4>2, RanksStay DEF ReplayOwes
    <3>3. a \notin Workers
      BY <2>1, SyncAssumption
    <3> QED BY <3>1, <3>2, <3>3
  <2> QED BY <2>1
<1> QED BY <1>1, <1>3, <1>4, <1>5, CommitKeeps

-----------------------------------------------------------------------------
(* Bills: the theorems.                                                    *)

LEMMA BillsInit == Init => BillsInv
<1> SUFFICES ASSUME Init PROVE BillsInv
  OBVIOUS
<1>1. /\ now = 1 /\ watermark = 0 /\ \A b \in Bills : have[b] = 0 /\ stamp[b] = 0
      /\ \A a \in Actors : actor[a] = Idle
      /\ \A o \in Operators : replay[o] = NoReplay
  BY DEF Init
<1>2. \A a \in Actors : ~InRun(a)
  BY <1>1, IdleTyped DEF InRun
<1>3. \A o \in Operators : replay[o].page = 0 /\ DOMAIN replay[o].owes = {}
  BY <1>1, NoVersion DEF NoReplay
<1>4. PastInv /\ PagesInv /\ NothingMissed
  BY <1>1, <1>2 DEF PastInv, PagesInv, NothingMissed
<1>5. ReplayInv
  BY <1>2, <1>3 DEF ReplayInv, ReplayOf, ReplayOwes, Actors
<1> QED BY <1>4, <1>5 DEF BillsInv

LEMMA BillsNext == SyncInv /\ TypeOK /\ TypeOK' /\ BillsInv /\ [Next]_vars => BillsInv'
<1> SUFFICES ASSUME SyncInv, TypeOK, TypeOK', BillsInv, [Next]_vars PROVE BillsInv'
  OBVIOUS
<1>1. CASE Tick
  BY <1>1, TickKeeps
<1>2. CASE \E b \in Bills : Change(b)
  BY <1>2, ChangeKeeps
<1>3. CASE (\E a \in Actors : RequestRetried(a)) \/ UNCHANGED vars
  <2>1. SameStore /\ actor' = actor /\ replay' = replay
    BY <1>3 DEF RequestRetried, vars, SameStore
  <2> QED BY <2>1, SameRuns
<1>4. CASE \E a \in Actors : \/ SchedulePass(a) \/ Enqueue(a) \/ PassFails(a)
                             \/ FetchPage(a) \/ WritePage(a)
                             \/ BudgetExceeded(a) \/ RunFails(a)
  BY <1>4, OutsideStays, PagesKeep
<1>5. CASE \E w \in Workers :
               \/ Claim(w) \/ DrainEnds(w) \/ CommitJob(w) \/ Defer(w) \/ RecordFailure(w)
               \/ DeriveReads(w) \/ DeriveCommits(w) \/ DeriveFails(w) \/ Crash(w)
  BY <1>5, BeginsStays, OutsideStays, CommitsKeep DEF Actors
<1>6. CASE \E o \in Operators : ManualSync(o) \/ ReplayChunk(o) \/ CommitManual(o) \/ CommitChunk(o)
  BY <1>6, BeginsStays, CommitsKeep DEF Actors
<1> QED BY <1>1, <1>2, <1>3, <1>4, <1>5, <1>6 DEF Next

\* A run knows every bill of its window that has not changed since it started, or
\* is yet to come to it, however the listing moves under it; and a replay has got
\* what it owes, or is yet to come to it.
THEOREM BillsInvariant == Spec => [](SyncInv /\ TypeOK /\ RanInv /\ BillsInv)
<1>1. Init => SyncInv /\ TypeOK /\ RanInv /\ BillsInv
  BY SyncInit, TypesInit, BillsInit
<1>2. SyncInv /\ TypeOK /\ RanInv /\ BillsInv /\ [Next]_vars => (SyncInv /\ TypeOK /\ RanInv /\ BillsInv)'
  BY SyncNext, TypesNext, BillsNext
<1> QED BY <1>1, <1>2, PTL DEF Spec

\* A bill that changed upstream before the next run's updated_since is stored, or
\* a truncated run left it out, or a late one wrote it back (run_api_sync_job).
THEOREM PagesMissNothing == Spec => []NothingMissed
<1>1. BillsInv => NothingMissed
  BY DEF BillsInv
<1> QED BY <1>1, BillsInvariant, PTL

\* Only a chunk that reached upstream's last page ends a replay.
LEMMA ReplayEnds ==
    ASSUME TypeOK, BillsInv, Next, NEW o \in Operators, replay[o].page # 0, replay'[o].page = 0
    PROVE  CommitChunk(o) /\ ~Truncated(o)
<1>1. replay' # replay
  OBVIOUS
<1>2. PICK x \in Operators : ReplayChunk(x) \/ CommitChunk(x)
  BY <1>1 DEF Next, Tick, Change, SchedulePass, Enqueue, PassFails, FetchPage, RequestRetried, WritePage,
        BudgetExceeded, RunFails, Claim, DrainEnds, CommitJob, Defer, RecordFailure, DeriveReads,
        DeriveCommits, DeriveFails, Crash, ManualSync, CommitManual
<1>3. x = o
  BY <1>2 DEF ReplayChunk, CommitChunk, TypeOK
<1>4. ~ReplayChunk(o)
  BY <1>1 DEF ReplayChunk
<1>5. CommitChunk(o)
  BY <1>2, <1>3, <1>4
<1>6. Run(o).page # 0
  <2>1. Run(o) \in Runs
    BY <1>5, RunIs DEF CommitChunk, At, InRun, Actors
  <2> QED BY <2>1, RunFields
<1> QED BY <1>5, <1>6 DEF CommitChunk, Resumes, TypeOK

\* A replay that reports it is complete has read every bill its window had when it
\* began, unless the bill has changed since (run_api_versions_backfill).
THEOREM ReplaysCover == Spec => ReplayCovers
<1>1. TypeOK /\ BillsInv /\ [Next]_vars =>
          [\A o \in Operators :
               replay[o].page # 0 /\ replay'[o].page = 0 =>
                   \A b \in DOMAIN replay[o].owes :
                       b \in replay[o].got \cup Run(o).seen \/ stamp[b] > replay[o].owes[b]]_vars
  <2> SUFFICES ASSUME TypeOK, BillsInv, Next, NEW o \in Operators, replay[o].page # 0, replay'[o].page = 0,
                      NEW b \in DOMAIN replay[o].owes,
                      b \notin replay[o].got \cup Run(o).seen
               PROVE  stamp[b] > replay[o].owes[b]
    OBVIOUS
  <2>1. CommitChunk(o) /\ ~Truncated(o)
    BY ReplayEnds
  <2>2. InRun(o) /\ Run(o).kind = "replay" /\ At(o, "commit")
    BY <2>1 DEF CommitChunk, At, InRun
  <2>3. ReplayOwes(o) /\ ReplayRun(o) /\ replay[o] \in Replays
    BY <2>2 DEF BillsInv, ReplayInv, ReplayOf, TypeOK
  <2>4. b \in Bills /\ replay[o].owes[b] <= stamp[b]
    BY <2>3 DEF ReplayOwes
  <2>5. replay[o].owes \in Versions
    BY <2>3 DEF Replays
  <2>6. replay[o].owes[b] \in Int /\ stamp[b] \in Int
    BY <2>4, <2>5, VersionFields, InstantsAre DEF TypeOK
  <2>7. ~InHand(o, b) /\ ~Later(o, b)
    BY <2>1, <2>2 DEF InHand, Later, At, Truncated
  <2>8. stamp[b] # replay[o].owes[b]
    BY <2>3, <2>4, <2>7 DEF ReplayRun, Owed
  <2> QED BY <2>4, <2>6, <2>8
<1> QED BY <1>1, BillsInvariant, PTL DEF Spec, ReplayCovers

-----------------------------------------------------------------------------
(* The statuses that are derived.  The latest, the largest, the winner: a  *)
(* finite set has a last member of any total preorder.                     *)

LEMMA LeastIsThere ==
    ASSUME NEW S, S \subseteq Nat, S # {}
    PROVE  \E m \in S : \A n \in S : m <= n
<1>1. PICK m \in S : \A n \in S : ~(<<n, m>> \in OpToRel(<, Nat))
  BY WFMin, NatLessThanWellFounded
<1>2. \A n \in S : ~(n < m)  BY <1>1 DEF OpToRel
<1>. QED  BY <1>2

LEMMA LastIsThere ==
    ASSUME NEW A, IsFiniteSet(A), A # {}, NEW R,
           \A x, y \in A : <<x, y>> \in R \/ <<y, x>> \in R,
           \A x, y, z \in A : <<x, y>> \in R /\ <<y, z>> \in R => <<x, z>> \in R
    PROVE  \E a \in A : \A o \in A : <<o, a>> \in R
<1>. DEFINE After(a) == {o \in A : <<o, a>> \notin R}
            Sizes == {Cardinality(After(a)) : a \in A}
<1>1. \A a \in A : IsFiniteSet(After(a)) /\ Cardinality(After(a)) \in Nat
  <2>. SUFFICES ASSUME NEW a \in A PROVE IsFiniteSet(After(a)) /\ Cardinality(After(a)) \in Nat  OBVIOUS
  <2>1. IsFiniteSet(After(a))  BY FS_Subset
  <2>. QED  BY <2>1, FS_CardinalityType
<1>2. PICK a \in A : \A o \in A : Cardinality(After(a)) <= Cardinality(After(o))
  <2>1. Sizes \subseteq Nat /\ Sizes # {}  BY <1>1
  <2>. HIDE DEF After
  <2>2. PICK m \in Sizes : \A n \in Sizes : m <= n  BY <2>1, LeastIsThere
  <2>. QED  BY <2>2
<1>3. ASSUME NEW o \in After(a) PROVE FALSE
  <2>1. After(o) \subseteq After(a)
    <3>. SUFFICES ASSUME NEW x \in A, <<x, o>> \notin R, <<x, a>> \in R PROVE FALSE  OBVIOUS
    <3>1. <<o, x>> \in R  OBVIOUS
    <3>. QED  BY <3>1, <1>3
  <2>2. o \notin After(o)  OBVIOUS
  <2>. HIDE DEF After
  <2>3. Cardinality(After(o)) <= Cardinality(After(a)) /\ After(o) # After(a)  BY <1>1, <1>3, <2>1, <2>2, FS_Subset
  <2>4. o \in A  BY <1>3 DEF After
  <2>5. Cardinality(After(o)) # Cardinality(After(a))  BY <1>1, <2>1, <2>3, FS_Subset
  <2>. QED  BY <1>1, <1>2, <2>3, <2>4, <2>5
<1>. QED  BY <1>3

LEMMA GreatestIsThere ==
    ASSUME NEW S, S \subseteq Nat, IsFiniteSet(S), S # {}
    PROVE  Max(S) \in S /\ \A n \in S : n <= Max(S)
<1>. DEFINE R == {p \in Nat \X Nat : p[1] <= p[2]}
<1>1. \A x, y \in Nat : <<x, y>> \in R <=> x <= y  OBVIOUS
<1>. HIDE DEF R
<1>2. /\ \A x, y \in S : <<x, y>> \in R \/ <<y, x>> \in R
      /\ \A x, y, z \in S : <<x, y>> \in R /\ <<y, z>> \in R => <<x, z>> \in R
  BY <1>1
<1>3. \E m \in S : \A n \in S : <<n, m>> \in R  BY <1>2, LastIsThere
<1>4. \E m \in S : \A n \in S : m >= n  BY <1>1, <1>3
<1>. QED  BY <1>4 DEF Max

LEMMA SmallestIsThere ==
    ASSUME NEW S, S \subseteq Nat, S # {}
    PROVE  Min(S) \in S /\ \A n \in S : Min(S) <= n
<1>1. \E m \in S : \A n \in S : m <= n  BY LeastIsThere
<1>. QED  BY <1>1 DEF Min

LEMMA RowOfActions ==
    ASSUME NEW a \in Actions
    PROVE  /\ a.kind \in ActionKinds /\ a.date \in Nat
           /\ a.kind = "substitution" => a.by \in Idents
           /\ Implies(a.kind) \in Statuses
           /\ StatusRank[Implies(a.kind)] \in 1..11
<1>1. CASE a.kind = "substitution"
  <2>1. a \in Substitution  BY <1>1, StatusAssumption
  <2>. QED  BY <1>1, <2>1 DEF Substitution, ActionKinds, Implies, Statuses, Live, Terminal, StatusRank, Passages
<1>2. CASE a.kind # "substitution"
  <2>1. a \in Procedure  BY <1>2, StatusAssumption
  <2>2. a.kind \in ActionKinds \ {"substitution"} /\ a.date \in Nat  BY <2>1 DEF Procedure
  <2>. QED  BY <1>2, <2>2 DEF ActionKinds, Implies, Statuses, Live, Terminal, StatusRank, Passages
<1>. QED  BY <1>1, <1>2

LEMMA WinnerIsThere ==
    ASSUME NEW acts, acts \subseteq Actions, acts # {}
    PROVE  Winner(acts) \in acts
<1>. DEFINE Beats(a, o) == \/ o.date < a.date
                           \/ o.date = a.date /\ StatusRank[Implies(o.kind)] <= StatusRank[Implies(a.kind)]
            R == {p \in acts \X acts : Beats(p[2], p[1])}
<1>1. \A a, o \in acts : <<o, a>> \in R <=> Beats(a, o)  OBVIOUS
<1>. HIDE DEF R
<1>2. \A a \in acts : a.date \in Nat /\ StatusRank[Implies(a.kind)] \in Nat  BY RowOfActions
<1>3. \A x, y \in acts : <<x, y>> \in R \/ <<y, x>> \in R
  <2>. SUFFICES ASSUME NEW x \in acts, NEW y \in acts PROVE Beats(y, x) \/ Beats(x, y)  BY <1>1
  <2>. DEFINE rx == StatusRank[Implies(x.kind)]
              ry == StatusRank[Implies(y.kind)]
  <2>1. x.date \in Nat /\ y.date \in Nat /\ rx \in Nat /\ ry \in Nat  BY <1>2
  <2>2. Beats(y, x) <=> x.date < y.date \/ (x.date = y.date /\ rx <= ry)  OBVIOUS
  <2>3. Beats(x, y) <=> y.date < x.date \/ (y.date = x.date /\ ry <= rx)  OBVIOUS
  <2>. HIDE DEF rx, ry, Beats
  <2>. QED  BY <2>1, <2>2, <2>3
<1>4. \A x, y, z \in acts : <<x, y>> \in R /\ <<y, z>> \in R => <<x, z>> \in R  BY <1>1, <1>2
<1>5. IsFiniteSet(acts)  BY StatusAssumption, FS_Subset
<1>6. \E a \in acts : \A o \in acts : <<o, a>> \in R  BY <1>3, <1>4, <1>5, LastIsThere
<1>7. \E a \in acts : \A o \in acts : Beats(a, o)  BY <1>1, <1>6
<1>. QED  BY <1>7 DEF Winner

\* What derive_status returns: the status of an action, if any stands.
LEMMA DerivedIs ==
    ASSUME NEW acts, acts \subseteq Actions
    PROVE  LET standing == {a \in acts : ~StaleDeath(acts, a)}
               outcomes == {a \in standing : Implies(a.kind) \in Terminal}
           IN /\ Derived(acts) \in Statuses \cup {None}
              /\ outcomes # {} => Derived(acts) \in Terminal
              /\ Derived(acts) \in Terminal => \E a \in outcomes : Derived(acts) = Implies(a.kind)
<1>. DEFINE standing == {a \in acts : ~StaleDeath(acts, a)}
            outcomes == {a \in standing : Implies(a.kind) \in Terminal}
            pool == IF outcomes # {} THEN outcomes ELSE standing
            said == Implies(Winner(pool).kind)
<1>1. Derived(acts) = IF pool = {} THEN None
                      ELSE IF said = "passed_one_chamber" /\ Passages \subseteq {a.kind : a \in acts} THEN "passed_both"
                      ELSE said
  BY DEF Derived
<1>2. pool # {} => Winner(pool) \in pool /\ said \in Statuses
  <2>. SUFFICES ASSUME pool # {} PROVE Winner(pool) \in pool /\ said \in Statuses  OBVIOUS
  <2>1. pool \subseteq Actions /\ pool # {}  OBVIOUS
  <2>. HIDE DEF pool
  <2>2. Winner(pool) \in pool  BY <2>1, WinnerIsThere
  <2>. QED  BY <2>1, <2>2, RowOfActions
<1>3. "passed_one_chamber" \notin Terminal /\ "passed_both" \in Statuses /\ "passed_both" \notin Terminal /\ None \notin Terminal
  BY DEF Terminal, Statuses, Live, None
<1>4. Derived(acts) \in Statuses \cup {None}  BY <1>1, <1>2, <1>3
<1>5. outcomes # {} => Winner(pool) \in outcomes /\ Derived(acts) = said /\ said \in Terminal
  <2>. SUFFICES ASSUME outcomes # {} PROVE Winner(pool) \in outcomes /\ Derived(acts) = said /\ said \in Terminal  OBVIOUS
  <2>1. pool = outcomes /\ pool # {}  OBVIOUS
  <2>2. Winner(pool) \in outcomes  BY <1>2, <2>1
  <2>3. said \in Terminal  BY <2>2
  <2>. QED  BY <1>1, <1>3, <2>1, <2>2, <2>3
<1>6. outcomes = {} => Derived(acts) \notin Terminal
  <2>. SUFFICES ASSUME outcomes = {} PROVE Derived(acts) \notin Terminal  OBVIOUS
  <2>1. pool = standing  OBVIOUS
  <2>2. pool # {} => said \notin Terminal  BY <1>2, <2>1
  <2>. QED  BY <1>1, <1>3, <2>2
<1>. QED  BY <1>4, <1>5, <1>6

LEMMA OwnIs ==
    ASSUME NEW b, actions[b] \subseteq Actions
    PROVE  Own(b) \in Statuses \cup {None}
<1>1. Derived(actions[b]) \in Statuses \cup {None}  BY DerivedIs
<1>. QED  BY <1>1 DEF Own, SessionOutcome, Statuses, Terminal

\* An outcome other than a death stands whatever is recorded after it.
LEMMA OutcomeStands ==
    ASSUME NEW acts, acts \subseteq Actions, NEW a \in Actions, Derived(acts) \in Terminal \ {"dead"}
    PROVE  Derived(acts \cup {a}) \in Terminal
<1>1. PICK o \in acts : Implies(o.kind) = Derived(acts) /\ Implies(o.kind) \in Terminal \ {"dead"}
  BY DerivedIs
<1>2. ~StaleDeath(acts \cup {a}, o)  BY <1>1 DEF StaleDeath
<1>3. o \in {x \in {y \in acts \cup {a} : ~StaleDeath(acts \cup {a}, y)} : Implies(x.kind) \in Terminal}
  BY <1>1, <1>2
<1>4. acts \cup {a} \subseteq Actions  OBVIOUS
<1>. QED  BY <1>3, <1>4, DerivedIs

-----------------------------------------------------------------------------
(* Who the survivor is.                                                    *)

\* Whom a row of related_bills names is there.
StoredInv == \A b \in Measures : \A i \in DOMAIN related[b] : related[b][i].to \in known \cup {0}

LEMMA RowOfRelated ==
    ASSUME StatusTypeOK, NEW b \in Measures, NEW i \in DOMAIN related[b]
    PROVE  related[b][i] \in Rows
  BY DEF StatusTypeOK

LEMMA PlaceIsThere ==
    ASSUME StatusTypeOK, NEW b \in Measures, NEW S, S \subseteq DOMAIN related[b], S # {}
    PROVE  Max(S) \in S /\ Min(S) \in S
<1>1. related[b] \in Seq(Rows)  BY DEF StatusTypeOK
<1>2. DOMAIN related[b] = 1..Len(related[b]) /\ Len(related[b]) \in Nat  BY <1>1, LenProperties
<1>3. S \subseteq Nat  BY <1>2
<1>4. IsFiniteSet(S)
  <2>1. IsFiniteSet(1..Len(related[b]))  BY <1>2, FS_Interval
  <2>2. S \in SUBSET (1..Len(related[b]))  BY <1>2
  <2>. QED  BY <2>1, <2>2, FS_Subset
<1>. QED  BY <1>3, <1>4, GreatestIsThere, SmallestIsThere

LEMMA TargetIs ==
    ASSUME StatusTypeOK, NEW b \in Measures
    PROVE  TextTarget(b) \in Idents \cup {None}
<1>. DEFINE subs == Substitutions(b)
            R == {p \in subs \X subs : p[1].date <= p[2].date}
<1>1. subs \subseteq Actions  BY DEF StatusTypeOK, Substitutions
<1>2. \A a \in subs : a.kind = "substitution"  BY DEF Substitutions
<1>3. \A a \in subs : a.date \in Nat /\ a.by \in Idents  BY <1>1, <1>2, RowOfActions
<1>4. IsFiniteSet(subs)  BY <1>1, StatusAssumption, FS_Subset
<1>5. \A x, y \in subs : <<x, y>> \in R <=> x.date <= y.date  OBVIOUS
<1>6. ASSUME subs # {} PROVE \E a \in subs : \A o \in subs : o.date <= a.date
  <2>. HIDE DEF R, subs
  <2>1. \A x, y \in subs : <<x, y>> \in R \/ <<y, x>> \in R
    <3>. SUFFICES ASSUME NEW x \in subs, NEW y \in subs PROVE x.date <= y.date \/ y.date <= x.date  BY <1>5
    <3>1. x.date \in Nat /\ y.date \in Nat  BY <1>3
    <3>. QED  BY <3>1
  <2>2. \A x, y, z \in subs : <<x, y>> \in R /\ <<y, z>> \in R => <<x, z>> \in R  BY <1>3, <1>5
  <2>3. \E a \in subs : \A o \in subs : <<o, a>> \in R  BY <1>4, <1>6, <2>1, <2>2, LastIsThere
  <2>. QED  BY <1>5, <2>3
<1>. QED  BY <1>3, <1>6 DEF TextTarget

\* An identifier names one bill at most, in a chunk or in the database.
LEMMA SameNamed ==
    ASSUME StatusTypeOK, NEW b \in Measures, NEW chunk, chunk \subseteq known, NEW ident
    PROVE  AtRank(b, chunk, ident) = Named(b, known, ident)
<1>1. known \subseteq Measures  BY DEF StatusTypeOK
<1>2. \A x, y \in Named(b, known, ident) : x = y  BY <1>1, StatusAssumption DEF Named
<1>3. Named(b, chunk, ident) \subseteq Named(b, known, ident)  BY DEF Named
<1>. QED  BY <1>2, <1>3 DEF AtRank

LEMMA SameSurvivor ==
    ASSUME StatusTypeOK, NEW b \in known, NEW chunk, chunk \subseteq known
    PROVE  Survivor(b, chunk) = Survivor(b, {b}) /\ RankByRank(b, chunk) = RankByRank(b, {b})
<1>1. b \in Measures /\ {b} \subseteq known  BY DEF StatusTypeOK
<1>2. \A ident : AtRank(b, chunk, ident) = AtRank(b, {b}, ident)  BY <1>1, SameNamed
<1>. DEFINE c == Candidates(LookedUp(b))
<1>3. RankByRank(b, chunk) = RankByRank(b, {b})
  <2>1. {i \in DOMAIN c : AtRank(b, chunk, c[i]) # {}} = {i \in DOMAIN c : AtRank(b, {b}, c[i]) # {}}  BY <1>2
  <2>. QED  BY <1>2, <2>1 DEF RankByRank
<1>. QED  BY <1>3 DEF Survivor

LEMMA LookedUpIs ==
    ASSUME StatusTypeOK, NEW b \in Measures, NEW chunk, RankByRank(b, chunk) # {}
    PROVE  LET c == Candidates(LookedUp(b))
               found == {i \in DOMAIN c : AtRank(b, chunk, c[i]) # {}}
           IN /\ Min(found) \in found /\ Min(found) \in {1, 2}
              /\ RankByRank(b, chunk) = AtRank(b, chunk, c[Min(found)])
<1>. DEFINE c == Candidates(LookedUp(b))
            found == {i \in DOMAIN c : AtRank(b, chunk, c[i]) # {}}
<1>1. DOMAIN c \subseteq {1, 2}  BY DEF Candidates
<1>2. found # {} /\ RankByRank(b, chunk) = AtRank(b, chunk, c[Min(found)])  BY DEF RankByRank
<1>3. found \subseteq Nat /\ found \subseteq {1, 2}  BY <1>1
<1>. HIDE DEF found
<1>4. Min(found) \in found  BY <1>2, <1>3, SmallestIsThere
<1>. QED  BY <1>2, <1>3, <1>4 DEF found

LEMMA SurvivorIs ==
    ASSUME StatusTypeOK, StoredInv, NEW b \in Measures, NEW chunk, chunk \subseteq known
    PROVE  /\ StoredSurvivor(b) \in known \cup {0}
           /\ Survivor(b, chunk) \in known \cup {0}
           /\ Survivor(b, chunk) # 0 => StoredSurvivor(b) # 0 \/ RankByRank(b, chunk) # {}
<1>. DEFINE resolved == {i \in DOMAIN related[b] : /\ related[b][i].to # 0
                                                   /\ TextTarget(b) \in {None, related[b][i].ident}}
<1>1. StoredSurvivor(b) \in known \cup {0}
  <2>1. CASE resolved = {}  BY <2>1 DEF StoredSurvivor
  <2>2. CASE resolved # {}
    <3>1. Max(resolved) \in resolved  BY <2>2, PlaceIsThere
    <3>2. StoredSurvivor(b) = related[b][Max(resolved)].to  BY <2>2 DEF StoredSurvivor
    <3>3. Max(resolved) \in DOMAIN related[b]  BY <3>1
    <3>. QED  BY <3>2, <3>3 DEF StoredInv
  <2>. QED  BY <2>1, <2>2
<1>2. RankByRank(b, chunk) \subseteq known
  <2>1. CASE RankByRank(b, chunk) = {}  BY <2>1
  <2>2. CASE RankByRank(b, chunk) # {}
    <3>1. \A ident : AtRank(b, chunk, ident) \subseteq known  BY DEF AtRank, Named
    <3>. QED  BY <2>2, <3>1, LookedUpIs
  <2>. QED  BY <2>1, <2>2
<1>. QED  BY <1>1, <1>2 DEF Survivor

-----------------------------------------------------------------------------
(* What a chunk is given.  The second pass defines a status by those of    *)
(* earlier turns: there is one such function, by the least turn at which   *)
(* there would be none.                                                    *)

Given(new, b, chunk) ==
    IF Survivor(b, chunk) = 0 THEN Own(b)
    ELSE IF Outcome(Inherited(new, b, chunk)) THEN Inherited(new, b, chunk) ELSE "substituted"

LEMMA TurnIs ==
    ASSUME StatusTypeOK, StoredInv, NEW chunk, chunk \subseteq known, NEW b \in chunk, Survivor(b, chunk) # 0
    PROVE  Turn(b, chunk) \in Nat
<1>. b \in Measures /\ b \in Nat /\ Measures \subseteq Nat  BY StatusAssumption DEF StatusTypeOK
<1>. DEFINE c == Candidates(LookedUp(b))
            rank == Min({i \in DOMAIN c : AtRank(b, chunk, c[i]) # {}})
            far == IF Named(b, chunk, c[rank]) = {} THEN 1 ELSE 0
            most == Max(Measures) + 1
<1>1. Turn(b, chunk) = IF StoredSurvivor(b) # 0 THEN b ELSE most * (2 * rank + far) + b  BY DEF Turn
<1>2. StoredSurvivor(b) = 0 => rank \in {1, 2}
  <2>. SUFFICES ASSUME StoredSurvivor(b) = 0 PROVE rank \in {1, 2}  OBVIOUS
  <2>1. RankByRank(b, chunk) # {}  BY SurvivorIs
  <2>. QED  BY <2>1, LookedUpIs
<1>3. most \in Nat
  <2>1. Measures # {} /\ IsFiniteSet(Measures)  BY StatusAssumption
  <2>2. Max(Measures) \in Measures  BY <2>1, GreatestIsThere
  <2>3. Max(Measures) \in Nat  BY <2>2
  <2>. HIDE DEF c, rank, far
  <2>. QED  BY <2>3
<1>4. far \in {0, 1}  OBVIOUS
<1>. HIDE DEF rank, far, most
<1>5. ASSUME rank \in {1, 2} PROVE most * (2 * rank + far) + b \in Nat
  <2>1. 2 * rank + far \in 0..5  BY <1>4, <1>5
  <2>2. \A x, y \in Nat : x * y \in Nat  OBVIOUS
  <2>3. most * (2 * rank + far) \in Nat  BY <1>3, <2>1, <2>2
  <2>. QED  BY <2>3
<1>. QED  BY <1>1, <1>2, <1>5

LEMMA GivenIs ==
    ASSUME StatusTypeOK, NEW chunk, chunk \subseteq known, NEW b \in chunk, NEW new
    PROVE  Given(new, b, chunk) \in Statuses \cup {None}
<1>1. Own(b) \in Statuses \cup {None}
  <2>1. b \in Measures /\ actions[b] \subseteq Actions  BY DEF StatusTypeOK
  <2>. QED  BY <2>1, OwnIs
<1>2. Terminal \subseteq Statuses /\ "substituted" \in Statuses  BY DEF Statuses, Live
<1>. QED  BY <1>1, <1>2 DEF Given, Outcome

\* It rests only on those of earlier turns.
TurnOf(b, chunk) == IF Survivor(b, chunk) = 0 THEN 0 ELSE Turn(b, chunk)

LEMMA GivenRests ==
    ASSUME StatusTypeOK, StoredInv, NEW chunk, chunk \subseteq known, NEW b \in chunk, NEW f, NEW g,
           \A s \in chunk : TurnOf(s, chunk) < TurnOf(b, chunk) => f[s] = g[s]
    PROVE  Given(f, b, chunk) = Given(g, b, chunk)
<1>1. ASSUME Survivor(b, chunk) # 0 PROVE Inherited(f, b, chunk) = Inherited(g, b, chunk)
  <2>. DEFINE s == Survivor(b, chunk)
  <2>1. ASSUME s \in chunk, Survivor(s, chunk) # 0, Turn(s, chunk) < Turn(b, chunk)
        PROVE  f[s] = g[s]
    BY <1>1, <2>1 DEF TurnOf
  <2>. QED  BY <2>1 DEF Inherited
<1>. QED  BY <1>1 DEF Given

LEMMA NewStatusIsThere ==
    ASSUME StatusTypeOK, StoredInv, NEW chunk, chunk \subseteq known
    PROVE  \E f : f = [b \in chunk |-> Given(f, b, chunk)]
<1>. DEFINE V == Statuses \cup {None}
            UpTo(n) == \E f : \A b \in chunk : TurnOf(b, chunk) < n => f[b] = Given(f, b, chunk)
<1>1. \A b \in chunk : TurnOf(b, chunk) \in Nat  BY TurnIs DEF TurnOf
<1>2. UpTo(0)  BY <1>1
<1>3. ASSUME NEW n \in Nat, UpTo(n) PROVE UpTo(n + 1)
  <2>. PICK f : \A b \in chunk : TurnOf(b, chunk) < n => f[b] = Given(f, b, chunk)  BY <1>3
  <2>. DEFINE g == [b \in chunk |-> Given(f, b, chunk)]
  <2>1. ASSUME NEW b \in chunk, TurnOf(b, chunk) < n + 1 PROVE g[b] = Given(g, b, chunk)
    <3>1. \A s \in chunk : TurnOf(s, chunk) < TurnOf(b, chunk) => g[s] = f[s]  BY <1>1, <2>1
    <3>. HIDE DEF g
    <3>2. Given(g, b, chunk) = Given(f, b, chunk)  BY <3>1, GivenRests
    <3>. QED  BY <3>2 DEF g
  <2>. HIDE DEF g
  <2>. QED  BY <2>1
<1>4. \A n \in Nat : UpTo(n)
  <2>. DEFINE Bad == {n \in Nat : ~UpTo(n)}
  <2>. HIDE DEF UpTo
  <2>. SUFFICES ASSUME Bad # {} PROVE FALSE  OBVIOUS
  <2>1. PICK m \in Bad : \A n \in Bad : m <= n  BY LeastIsThere
  <2>2. m # 0 /\ m \in Nat  BY <1>2
  <2>3. m - 1 \in Nat /\ m - 1 \notin Bad  BY <2>1, <2>2
  <2>4. UpTo(m - 1)  BY <2>3
  <2>5. UpTo((m - 1) + 1)  BY <1>3, <2>3, <2>4
  <2>6. (m - 1) + 1 = m  BY <2>2
  <2>. QED  BY <2>5, <2>6
<1>5. PICK n \in Nat : \A b \in chunk : TurnOf(b, chunk) < n
  <2>1. CASE chunk = {}  BY <2>1
  <2>2. CASE chunk # {}
    <3>. DEFINE R == {p \in chunk \X chunk : TurnOf(p[1], chunk) <= TurnOf(p[2], chunk)}
    <3>1. IsFiniteSet(chunk)
      <4>1. chunk \in SUBSET Measures  BY DEF StatusTypeOK
      <4>. QED  BY <4>1, StatusAssumption, FS_Subset
    <3>2. \A x, y \in chunk : <<x, y>> \in R <=> TurnOf(x, chunk) <= TurnOf(y, chunk)  OBVIOUS
    <3>. HIDE DEF R
    <3>3. \A x, y \in chunk : <<x, y>> \in R \/ <<y, x>> \in R
      <4>. TAKE x \in chunk, y \in chunk
      <4>1. TurnOf(x, chunk) \in Nat /\ TurnOf(y, chunk) \in Nat  BY <1>1
      <4>. QED  BY <3>2, <4>1
    <3>4. \A x, y, z \in chunk : <<x, y>> \in R /\ <<y, z>> \in R => <<x, z>> \in R  BY <1>1, <3>2
    <3>5. PICK a \in chunk : \A o \in chunk : <<o, a>> \in R  BY <2>2, <3>1, <3>3, <3>4, LastIsThere
    <3>6. ASSUME NEW b \in chunk PROVE TurnOf(b, chunk) < TurnOf(a, chunk) + 1
      <4>1. TurnOf(a, chunk) \in Nat /\ TurnOf(b, chunk) \in Nat  BY <1>1
      <4>2. TurnOf(b, chunk) <= TurnOf(a, chunk)  BY <3>2, <3>5
      <4>. QED  BY <4>1, <4>2
    <3>7. TurnOf(a, chunk) + 1 \in Nat  BY <1>1
    <3>. QED  BY <3>6, <3>7
  <2>. QED  BY <2>1, <2>2
<1>6. PICK f : \A b \in chunk : f[b] = Given(f, b, chunk)
  <2>1. UpTo(n)  BY <1>4
  <2>. QED  BY <1>5, <2>1
<1>. DEFINE g == [b \in chunk |-> f[b]]
<1>7. \A b \in chunk : Given(g, b, chunk) = Given(f, b, chunk)
  <2>. TAKE b \in chunk
  <2>1. \A s \in chunk : TurnOf(s, chunk) < TurnOf(b, chunk) => g[s] = f[s]  OBVIOUS
  <2>. HIDE DEF g
  <2>. QED  BY <2>1, GivenRests
<1>8. g = [b \in chunk |-> Given(g, b, chunk)]
  <2>1. \A b \in chunk : f[b] = Given(g, b, chunk)  BY <1>6, <1>7
  <2>. DEFINE h == [b \in chunk |-> Given(g, b, chunk)]
  <2>2. \A b \in chunk : g[b] = h[b]  BY <2>1
  <2>. QED  BY <2>2
<1>. QED  BY <1>8

LEMMA NewStatusIs ==
    ASSUME StatusTypeOK, StoredInv, NEW chunk, chunk \subseteq known
    PROVE  /\ NewStatus(chunk) = [b \in chunk |-> Given(NewStatus(chunk), b, chunk)]
           /\ NewStatus(chunk) \in [chunk -> Statuses \cup {None}]
<1>. DEFINE Is(new) == new = [b \in chunk |->
                                 LET read == Inherited(new, b, chunk) IN
                                 IF Survivor(b, chunk) = 0 THEN Own(b)
                                 ELSE IF Outcome(read) THEN read ELSE "substituted"]
<1>1. NewStatus(chunk) = CHOOSE new : Is(new)  BY DEF NewStatus
<1>2. \E f : Is(f)  BY NewStatusIsThere DEF Given
<1>3. Is(NewStatus(chunk))
  <2>. HIDE DEF Is
  <2>. QED  BY <1>1, <1>2
<1>4. NewStatus(chunk) = [b \in chunk |-> Given(NewStatus(chunk), b, chunk)]  BY <1>3 DEF Given
<1>. QED  BY <1>4, GivenIs

-----------------------------------------------------------------------------
(* What a chunk writes.                                                    *)

\* b's stored rows are those of its text; its status is its own record's when it
\* has no survivor, and otherwise goes by the survivor's, as it is stored.
Follows(b) == TextTarget(b) # None => related[b] = <<[ident |-> TextTarget(b), to |-> Survivor(b, {b})]>>
Based(b) == Survivor(b, {b}) = 0 => status[b] = Own(b)
Inherits(b) ==
    LET s == Survivor(b, {b}) IN
    s # 0 /\ Survivor(s, {s}) = 0 => status[b] = (IF status[s] \in Terminal THEN status[s] ELSE "substituted")

\* The bills that are there, and what upstream and the calendar say of them, stay.
Stays == known' = known /\ actions' = actions /\ phase' = phase

LEMMA NewRow ==
    ASSUME StatusTypeOK, StoredInv, NEW chunk, chunk \subseteq known, NEW b \in chunk, TextTarget(b) # None
    PROVE  /\ NewRelated(b, chunk) = <<[ident |-> TextTarget(b), to |-> Survivor(b, {b})]>>
           /\ [ident |-> TextTarget(b), to |-> Survivor(b, {b})] \in Rows
           /\ Survivor(b, {b}) \in known \cup {0}
<1>. b \in Measures /\ b \in known  BY DEF StatusTypeOK
<1>. DEFINE t == TextTarget(b)
            same == {i \in DOMAIN related[b] : related[b][i].ident = TextTarget(b)}
            resolved == {i \in same : related[b][i].to # 0}
            stored == {i \in DOMAIN related[b] : /\ related[b][i].to # 0
                                                 /\ TextTarget(b) \in {None, related[b][i].ident}}
<1>1. Survivor(b, chunk) = Survivor(b, {b})  BY SameSurvivor
<1>2. Survivor(b, {b}) \in known \cup {0} /\ Survivor(b, {b}) \in Measures \cup {0} /\ t \in Idents
  BY <1>1, SurvivorIs, TargetIs DEF StatusTypeOK
<1>3. stored = resolved  OBVIOUS
<1>4. /\ resolved # {} => Max(resolved) \in resolved
      /\ same # {} => Min(same) \in same
  BY PlaceIsThere
<1>5. \A i \in DOMAIN related[b] :
          related[b][i] = [ident |-> related[b][i].ident, to |-> related[b][i].to]
  BY RowOfRelated DEF Rows
<1>6. CASE resolved # {}
  <2>1. Kept(b) = related[b][Max(resolved)]  BY <1>6 DEF Kept
  <2>2. StoredSurvivor(b) = related[b][Max(resolved)].to  BY <1>3, <1>6 DEF StoredSurvivor
  <2>3. Max(resolved) \in DOMAIN related[b] /\ Kept(b).to # 0 /\ Kept(b).ident = t  BY <1>4, <1>6, <2>1
  <2>4. Survivor(b, {b}) = Kept(b).to  BY <2>1, <2>2, <2>3 DEF Survivor
  <2>5. Kept(b) = [ident |-> t, to |-> Survivor(b, {b})]  BY <1>5, <2>1, <2>3, <2>4
  <2>. QED  BY <1>2, <2>3, <2>5 DEF NewRelated, Rows
<1>7. CASE resolved = {}
  <2>1. Kept(b) = [ident |-> t, to |-> 0]
    <3>1. CASE same = {}  BY <1>7, <3>1 DEF Kept
    <3>2. CASE same # {}
      <4>1. Kept(b) = related[b][Min(same)]  BY <1>7, <3>2 DEF Kept
      <4>2. Min(same) \in same /\ Min(same) \notin resolved  BY <1>4, <1>7, <3>2
      <4>. QED  BY <1>5, <4>1, <4>2
    <3>. QED  BY <3>1, <3>2
  <2>2. [Kept(b) EXCEPT !.to = Survivor(b, chunk)] = [ident |-> t, to |-> Survivor(b, {b})]  BY <1>1, <2>1
  <2>3. Kept(b).to = 0  BY <2>1
  <2>. QED  BY <1>2, <2>2, <2>3 DEF NewRelated, Rows
<1>. QED  BY <1>6, <1>7

LEMMA SameChoice ==
    ASSUME NEW b, NEW chunk, StoredSurvivor(b)' = StoredSurvivor(b), LookedUp(b)' = LookedUp(b),
           RankByRank(b, chunk)' = RankByRank(b, chunk)
    PROVE  Survivor(b, chunk)' = Survivor(b, chunk)
<1>. DEFINE Of(stored, wanted, some) ==
                IF stored # 0 THEN stored
                ELSE IF wanted = None \/ some = {} THEN 0 ELSE CHOOSE s \in some : TRUE
<1>1. Survivor(b, chunk)' = Of(StoredSurvivor(b)', LookedUp(b)', RankByRank(b, chunk)')  BY DEF Survivor
<1>2. Survivor(b, chunk) = Of(StoredSurvivor(b), LookedUp(b), RankByRank(b, chunk))  BY DEF Survivor
<1>. HIDE DEF Of
<1>. QED  BY <1>1, <1>2

\* Recomputing changes no survivor: what was looked up is what will be stored.
LEMMA SurvivorStays ==
    ASSUME StatusTypeOK, StoredInv, NEW chunk, chunk \subseteq known, Recompute(chunk), Stays, NEW b \in known
    PROVE  Survivor(b, {b})' = Survivor(b, {b})
<1>. b \in Measures /\ {b} \subseteq known  BY DEF StatusTypeOK
<1>1. TextTarget(b)' = TextTarget(b)  BY DEF Stays, TextTarget, Substitutions
<1>2. \A ident : AtRank(b, {b}, ident)' = AtRank(b, {b}, ident)  BY DEF Stays, AtRank, Named
<1>3. related'[b] = IF b \in chunk THEN NewRelated(b, chunk) ELSE related[b]  BY DEF Recompute
<1>4. ASSUME LookedUp(b)' = LookedUp(b) PROVE RankByRank(b, {b})' = RankByRank(b, {b})
  <2>. QED  BY <1>2, <1>4 DEF RankByRank, Candidates
<1>5. CASE related'[b] = related[b]
  <2>1. StoredSurvivor(b)' = StoredSurvivor(b) /\ LookedUp(b)' = LookedUp(b)
    BY <1>1, <1>5 DEF StoredSurvivor, LookedUp
  <2>2. RankByRank(b, {b})' = RankByRank(b, {b})  BY <1>4, <2>1
  <2>. QED  BY <2>1, <2>2, SameChoice
<1>6. CASE b \in chunk /\ TextTarget(b) # None
  <2>. DEFINE to == Survivor(b, {b})
  <2>1. related'[b] = <<[ident |-> TextTarget(b), to |-> to]>>  BY <1>3, <1>6, NewRow
  <2>2. LookedUp(b)' = LookedUp(b) /\ LookedUp(b) = TextTarget(b)  BY <1>1, <1>6 DEF LookedUp
  <2>3. DOMAIN related'[b] = {1} /\ related'[b][1].ident = TextTarget(b) /\ related'[b][1].to = to  BY <2>1
  <2>4. CASE to = 0
    <3>1. StoredSurvivor(b)' = 0  BY <2>3, <2>4 DEF StoredSurvivor
    <3>2. RankByRank(b, {b}) = {}
      <4>1. RankByRank(b, {b}) \subseteq known
        <5>1. \A ident : AtRank(b, {b}, ident) \subseteq known  BY DEF AtRank, Named
        <5>. QED  BY <5>1, LookedUpIs
      <4>2. \A x \in RankByRank(b, {b}) : x # 0  BY <4>1, StatusAssumption DEF StatusTypeOK
      <4>. QED  BY <1>6, <2>2, <2>4, <4>2 DEF Survivor
    <3>. QED  BY <1>4, <2>2, <2>4, <3>1, <3>2 DEF Survivor
  <2>5. CASE to # 0
    <3>1. Max({1}) = 1  BY GreatestIsThere, FS_Singleton
    <3>2. {i \in DOMAIN related'[b] : /\ related'[b][i].to # 0
                                     /\ TextTarget(b)' \in {None, related'[b][i].ident}} = {1}
      BY <1>1, <2>3, <2>5
    <3>3. StoredSurvivor(b)' = related'[b][1].to
      <4>. DEFINE resolved == {i \in DOMAIN related'[b] : /\ related'[b][i].to # 0
                                                          /\ TextTarget(b)' \in {None, related'[b][i].ident}}
      <4>1. StoredSurvivor(b)' = IF resolved = {} THEN 0 ELSE related'[b][Max(resolved)].to  BY DEF StoredSurvivor
      <4>. QED  BY <3>1, <3>2, <4>1
    <3>. QED  BY <2>3, <2>5, <3>3 DEF Survivor
  <2>. QED  BY <2>4, <2>5
<1>. QED  BY <1>3, <1>5, <1>6 DEF NewRelated

LEMMA ChunkIsWritten ==
    ASSUME StatusTypeOK, StoredInv, NEW chunk, chunk \subseteq known, Recompute(chunk), Stays
    PROVE  /\ status' \in [Measures -> Statuses \cup {None}] /\ related' \in [Measures -> Seq(Rows)]
           /\ StoredInv'
           /\ \A b \in Measures \ chunk : status'[b] = status[b] /\ related'[b] = related[b]
           /\ \A b \in known : Own(b)' = Own(b)
           /\ \A b \in chunk : Follows(b)' /\ status'[b] = Given(NewStatus(chunk), b, chunk)
<1>. chunk \subseteq Measures  BY DEF StatusTypeOK
<1>1. status' = [b \in Measures |-> IF b \in chunk THEN NewStatus(chunk)[b] ELSE status[b]]  BY DEF Recompute
<1>2. related' = [b \in Measures |-> IF b \in chunk THEN NewRelated(b, chunk) ELSE related[b]]  BY DEF Recompute
<1>3. status' \in [Measures -> Statuses \cup {None}]  BY <1>1, NewStatusIs DEF StatusTypeOK
<1>4. ASSUME NEW b \in Measures PROVE /\ related'[b] \in Seq(Rows)
                                      /\ \A i \in DOMAIN related'[b] : related'[b][i].to \in known \cup {0}
  <2>1. CASE b \in chunk /\ TextTarget(b) # None
    <3>1. related'[b] = <<[ident |-> TextTarget(b), to |-> Survivor(b, {b})]>>  BY <1>2, <2>1, NewRow
    <3>2. [ident |-> TextTarget(b), to |-> Survivor(b, {b})] \in Rows /\ Survivor(b, {b}) \in known \cup {0}
      BY <2>1, NewRow
    <3>. QED  BY <3>1, <3>2
  <2>2. CASE ~(b \in chunk /\ TextTarget(b) # None)
    <3>1. related'[b] = related[b]  BY <1>2, <2>2 DEF NewRelated
    <3>. QED  BY <3>1 DEF StatusTypeOK, StoredInv
  <2>. QED  BY <2>1, <2>2
<1>5. related' \in [Measures -> Seq(Rows)]  BY <1>2, <1>4
<1>6. StoredInv'  BY <1>4 DEF StoredInv, Stays
<1>7. \A b \in Measures : Own(b)' = Own(b)  BY DEF Own, Stays, SessionOutcome
<1>8. ASSUME NEW b \in chunk PROVE Follows(b)' /\ status'[b] = Given(NewStatus(chunk), b, chunk)
  <2>1. status'[b] = Given(NewStatus(chunk), b, chunk)
    <3>. DEFINE new == NewStatus(chunk)
    <3>1. status'[b] = new[b]  BY <1>1
    <3>2. new = [x \in chunk |-> Given(new, x, chunk)]  BY NewStatusIs
    <3>. HIDE DEF new
    <3>3. new[b] = Given(new, b, chunk)  BY <3>2
    <3>. QED  BY <3>1, <3>3 DEF new
  <2>2. TextTarget(b)' = TextTarget(b)  BY DEF Stays, TextTarget, Substitutions
  <2>3. Survivor(b, {b})' = Survivor(b, {b})  BY SurvivorStays
  <2>4. TextTarget(b) # None => related'[b] = <<[ident |-> TextTarget(b), to |-> Survivor(b, {b})]>>  BY <1>2, NewRow
  <2>. QED  BY <2>1, <2>2, <2>3, <2>4 DEF Follows
<1>. QED  BY <1>1, <1>2, <1>3, <1>5, <1>6, <1>7, <1>8 DEF StatusTypeOK

\* A bill without a survivor has its own status afterwards.
LEMMA BasedAfter ==
    ASSUME StatusTypeOK, StoredInv, NEW chunk, chunk \subseteq known, Recompute(chunk), Stays, NEW b \in known,
           b \in chunk \/ Based(b)
    PROVE  Based(b)'
<1>. b \in Measures  BY DEF StatusTypeOK
<1>1. Survivor(b, {b})' = Survivor(b, {b}) /\ Own(b)' = Own(b)  BY SurvivorStays, ChunkIsWritten
<1>2. CASE b \in chunk
  <2>1. status'[b] = Given(NewStatus(chunk), b, chunk) /\ Survivor(b, chunk) = Survivor(b, {b})
    BY <1>2, ChunkIsWritten, SameSurvivor
  <2>. QED  BY <1>1, <2>1 DEF Based, Given
<1>3. CASE b \notin chunk
  <2>1. status'[b] = status[b] /\ Based(b)  BY <1>3, ChunkIsWritten
  <2>. QED  BY <1>1, <2>1 DEF Based
<1>. QED  BY <1>2, <1>3

\* Once those are, a bill with such a survivor has what the survivor's status says.
LEMMA InheritsAfter ==
    ASSUME StatusTypeOK, StoredInv, NEW chunk, chunk \subseteq known, Recompute(chunk), Stays,
           \A x \in known : Based(x), NEW b \in known, b \in chunk \/ Inherits(b)
    PROVE  Inherits(b)'
<1>. b \in Measures /\ {b} \subseteq known  BY DEF StatusTypeOK
<1>0. PICK s \in known \cup {0} : s = Survivor(b, {b})  BY SurvivorIs
<1>1. Inherits(b) <=> (s # 0 /\ Survivor(s, {s}) = 0 =>
                           status[b] = (IF status[s] \in Terminal THEN status[s] ELSE "substituted"))
  BY <1>0 DEF Inherits
<1>2. Survivor(b, {b})' = s  BY <1>0, SurvivorStays
<1>3. CASE s = 0  BY <1>2, <1>3 DEF Inherits
<1>4. CASE s # 0
  <2>. s \in known /\ s \in Measures  BY <1>4 DEF StatusTypeOK
  <2>1. Survivor(s, {s})' = Survivor(s, {s})  BY SurvivorStays
  <2>. SUFFICES ASSUME Survivor(s, {s}) = 0
                PROVE  status'[b] = IF status'[s] \in Terminal THEN status'[s] ELSE "substituted"
    BY <1>2, <2>1 DEF Inherits
  <2>2. status'[s] = Own(s) /\ status[s] = Own(s)
    <3>1. Based(s) /\ Based(s)'  BY BasedAfter
    <3>2. Own(s)' = Own(s)  BY ChunkIsWritten
    <3>. QED  BY <2>1, <3>1, <3>2 DEF Based
  <2>3. CASE b \in chunk
    <3>1. Survivor(b, chunk) = s  BY <1>0, <2>3, SameSurvivor
    <3>2. s \in chunk => Survivor(s, chunk) = 0  BY SameSurvivor
    <3>3. Inherited(NewStatus(chunk), b, chunk) = Own(s)  BY <2>2, <3>1, <3>2 DEF Inherited
    <3>4. status'[b] = Given(NewStatus(chunk), b, chunk)  BY <2>3, ChunkIsWritten
    <3>. QED  BY <1>4, <2>2, <3>1, <3>3, <3>4 DEF Given, Outcome
  <2>4. CASE b \notin chunk
    <3>1. status'[b] = status[b] /\ Inherits(b)  BY <2>4, ChunkIsWritten
    <3>. QED  BY <1>1, <1>4, <2>2, <3>1
  <2>. QED  BY <2>3, <2>4
<1>. QED  BY <1>3, <1>4

-----------------------------------------------------------------------------
(* The invariant of the passes.                                            *)

\* n whole passes over b since anything else changed, the one that goes on included.
Passed(b, n) == passes >= n \/ (passes = n - 1 /\ b <= pass)

PassInv ==
    /\ passes = 2 => pass = -1
    /\ \A b \in known : /\ Passed(b, 1) => Follows(b) /\ Based(b)
                        /\ Passed(b, 2) => Inherits(b)

SettledInv == StatusTypeOK /\ StoredInv /\ PassInv

LEMMA UpstreamCounts ==
    ASSUME StatusTypeOK, Upstream
    PROVE  passes' \in -1..2 /\ changes' \in 0..MaxChanges
<1>1. changes \in 0..MaxChanges /\ MaxChanges \in Nat  BY StatusAssumption DEF StatusTypeOK
<1>2. changes' \in 0..MaxChanges  BY <1>1 DEF Upstream
<1>3. passes' \in -1..2  BY DEF Upstream, StartOver
<1>. QED  BY <1>2, <1>3

LEMMA StartsOver ==
    ASSUME StatusTypeOK, StatusTypeOK', StartOver, pass' = pass
    PROVE  PassInv'
<1>1. \A b \in known' : b > 0 /\ b \in Nat  BY StatusAssumption DEF StatusTypeOK
<1>2. CASE pass = -1
  <2>1. passes' = 0 /\ pass' = -1  BY <1>2 DEF StartOver
  <2>. QED  BY <1>1, <2>1 DEF PassInv, Passed
<1>3. CASE pass # -1
  <2>1. passes' = -1 /\ pass' \in Nat  BY <1>3, StatusAssumption DEF StartOver, StatusTypeOK
  <2>. QED  BY <1>1, <2>1 DEF PassInv, Passed
<1>. QED  BY <1>2, <1>3

LEMMA SameStatuses ==
    ASSUME StatusTypeOK, Stays, UNCHANGED <<status, related>>, NEW b \in known
    PROVE  (Follows(b) <=> Follows(b)') /\ (Based(b) <=> Based(b)') /\ (Inherits(b) <=> Inherits(b)')
<1>1. \A x, chunk : Survivor(x, chunk)' = Survivor(x, chunk)
  <2>. TAKE x, chunk
  <2>1. TextTarget(x)' = TextTarget(x)  BY DEF Stays, TextTarget, Substitutions
  <2>2. StoredSurvivor(x)' = StoredSurvivor(x) /\ LookedUp(x)' = LookedUp(x)  BY <2>1 DEF StoredSurvivor, LookedUp
  <2>3. \A ident : AtRank(x, chunk, ident)' = AtRank(x, chunk, ident)  BY DEF Stays, AtRank, Named
  <2>4. RankByRank(x, chunk)' = RankByRank(x, chunk)  BY <2>2, <2>3 DEF RankByRank, Candidates
  <2>. QED  BY <2>2, <2>4, SameChoice
<1>2. TextTarget(b)' = TextTarget(b) /\ Own(b)' = Own(b)
  BY DEF Stays, TextTarget, Substitutions, Own, SessionOutcome
<1>. QED  BY <1>1, <1>2 DEF Follows, Based, Inherits

\* What the sync worker writes between the chunks of a pass either changes nothing
\* or makes the pass start over.
LEMMA NotedKeeps ==
    ASSUME SettledInv, NEW chunk, chunk \subseteq known, UNCHANGED <<status, related>> \/ Recompute(chunk),
           NoteChange, Stays, pass' = pass, changes' = changes, pending' \in SUBSET known', step' \in {"derive", "sweep"}
    PROVE  SettledInv'
<1>. StatusTypeOK /\ StoredInv /\ PassInv  BY DEF SettledInv
<1>1. StoredInv' /\ status' \in [Measures -> Statuses \cup {None}] /\ related' \in [Measures -> Seq(Rows)]
  <2>1. CASE UNCHANGED <<status, related>>  BY <2>1 DEF StoredInv, StatusTypeOK, Stays
  <2>2. CASE Recompute(chunk)  BY <2>2, ChunkIsWritten
  <2>. QED  BY <2>1, <2>2
<1>2. passes' \in -1..2  BY DEF NoteChange, StartOver, StatusTypeOK
<1>3. StatusTypeOK'  BY <1>1, <1>2 DEF StatusTypeOK, Stays
<1>4. PassInv'
  <2>1. CASE Rewritten  BY <1>3, <2>1, StartsOver DEF NoteChange
  <2>2. CASE ~Rewritten
    <3>1. UNCHANGED <<status, related>> /\ passes' = passes  BY <2>2 DEF Rewritten, NoteChange
    <3>2. \A b \in known : (Follows(b) <=> Follows(b)') /\ (Based(b) <=> Based(b)') /\ (Inherits(b) <=> Inherits(b)')
      BY <3>1, SameStatuses
    <3>. QED  BY <3>1, <3>2 DEF PassInv, Passed, Stays
  <2>. QED  BY <2>1, <2>2
<1>. QED  BY <1>1, <1>3, <1>4 DEF SettledInv

\* The next chunk is the first of what is left, and the pass is past it then.
LEMMA ChunkIsNext ==
    ASSUME StatusTypeOK, pass >= 0, Ahead # {},
           NEW chunk, chunk = {b \in Ahead : Cardinality({o \in Ahead : o < b}) < ChunkSize}
    PROVE  /\ chunk \subseteq known /\ Max(chunk) \in chunk
           /\ \A b \in known : b <= Max(chunk) => b <= pass \/ b \in chunk
<1>. known \in SUBSET Measures /\ Ahead \in SUBSET known  BY DEF StatusTypeOK, Ahead
<1>. known \subseteq Nat /\ Ahead \subseteq Nat  BY StatusAssumption
<1>. pass \in Nat  BY StatusAssumption DEF StatusTypeOK
<1>1. IsFiniteSet(known)  BY StatusAssumption, FS_Subset
<1>2. IsFiniteSet(Ahead)  BY <1>1, FS_Subset
<1>3. \A b \in Ahead : IsFiniteSet({o \in Ahead : o < b}) /\ Cardinality({o \in Ahead : o < b}) \in Nat
  <2>. SUFFICES ASSUME NEW b \in Ahead
                PROVE  IsFiniteSet({o \in Ahead : o < b}) /\ Cardinality({o \in Ahead : o < b}) \in Nat
    OBVIOUS
  <2>1. IsFiniteSet({o \in Ahead : o < b})  BY <1>2, FS_Subset
  <2>. QED  BY <2>1, FS_CardinalityType
<1>4. chunk # {}
  <2>1. PICK m \in Ahead : \A n \in Ahead : m <= n  BY LeastIsThere
  <2>2. {o \in Ahead : o < m} = {}
    <3>. SUFFICES ASSUME NEW o \in Ahead, o < m PROVE FALSE  OBVIOUS
    <3>1. m <= o /\ o \in Nat /\ m \in Nat  BY <2>1
    <3>. QED  BY <3>1
  <2>3. Cardinality({o \in Ahead : o < m}) = 0  BY <2>2, FS_EmptySet
  <2>. QED  BY <2>3, StatusAssumption
<1>5. Max(chunk) \in chunk
  <2>1. chunk \subseteq Nat /\ chunk \in SUBSET Ahead  OBVIOUS
  <2>2. IsFiniteSet(chunk)  BY <1>2, <2>1, FS_Subset
  <2>. QED  BY <1>4, <2>1, <2>2, GreatestIsThere
<1>6. ASSUME NEW b \in known, b <= Max(chunk), ~(b <= pass) PROVE b \in chunk
  <2>. PICK m \in chunk : m = Max(chunk)  BY <1>5
  <2>1. b \in Ahead /\ m \in Ahead  BY <1>6 DEF Ahead
  <2>2. {o \in Ahead : o < b} \in SUBSET {o \in Ahead : o < m}
    <3>. SUFFICES ASSUME NEW o \in Ahead, o < b PROVE o < m  OBVIOUS
    <3>1. o \in Nat /\ b \in Nat /\ m \in Nat /\ b <= m  BY <1>6, <2>1
    <3>. QED  BY <3>1
  <2>3. Cardinality({o \in Ahead : o < b}) <= Cardinality({o \in Ahead : o < m})  BY <1>3, <2>1, <2>2, FS_Subset
  <2>4. Cardinality({o \in Ahead : o < m}) < ChunkSize  OBVIOUS
  <2>5. Cardinality({o \in Ahead : o < b}) \in Nat /\ Cardinality({o \in Ahead : o < m}) \in Nat  BY <1>3, <2>1
  <2>6. ChunkSize \in Nat  BY StatusAssumption
  <2>. QED  BY <2>1, <2>3, <2>4, <2>5, <2>6
<1>. QED  BY <1>5, <1>6

LEMMA ChunkKeeps ==
    ASSUME SettledInv, PassChunk
    PROVE  SettledInv'
<1>. StatusTypeOK /\ StoredInv /\ PassInv  BY DEF SettledInv
<1>. Stays /\ pass >= 0 /\ known \subseteq Nat /\ \A b \in known : b > 0
  BY StatusAssumption DEF Stays, PassChunk, StatusTypeOK
<1>. pass \in Nat /\ passes \in {-1, 0, 1}  BY StatusAssumption DEF StatusTypeOK, PassInv
<1>1. CASE Ahead = {}
  <2>1. pass' = -1 /\ passes' = passes + 1 /\ UNCHANGED <<related, status, pending, step, changes>>
    BY <1>1 DEF PassChunk
  <2>2. \A b \in known : b <= pass  BY <1>1 DEF Ahead
  <2>3. \A b \in known : (Follows(b) <=> Follows(b)') /\ (Based(b) <=> Based(b)') /\ (Inherits(b) <=> Inherits(b)')
    BY <2>1, SameStatuses
  <2>4. \A b \in known : (Passed(b, 1)' => Passed(b, 1)) /\ (Passed(b, 2)' => Passed(b, 2))
    BY <2>1, <2>2 DEF Passed, Stays
  <2>5. PassInv'  BY <2>1, <2>3, <2>4 DEF PassInv, Stays
  <2>6. StatusTypeOK' /\ StoredInv'  BY <2>1 DEF StatusTypeOK, StoredInv, Stays
  <2>. QED  BY <2>5, <2>6 DEF SettledInv
<1>2. CASE Ahead # {}
  <2>. DEFINE chunk == {b \in Ahead : Cardinality({o \in Ahead : o < b}) < ChunkSize}
  <2>1. Recompute(chunk) /\ pass' = Max(chunk) /\ passes' = passes /\ UNCHANGED <<pending, step, changes>>
    BY <1>2 DEF PassChunk
  <2>2. /\ chunk \subseteq known /\ Max(chunk) \in chunk
        /\ \A b \in known : b <= Max(chunk) => b <= pass \/ b \in chunk
    BY <1>2, ChunkIsNext
  <2>. HIDE DEF chunk
  <2>3. StatusTypeOK' /\ StoredInv'
    <3>1. /\ status' \in [Measures -> Statuses \cup {None}] /\ related' \in [Measures -> Seq(Rows)]
          /\ StoredInv'
      BY <2>1, <2>2, ChunkIsWritten
    <3>. QED  BY <2>1, <2>2, <3>1 DEF StatusTypeOK, Stays
  <2>4. \A b \in known, n \in {1, 2} : Passed(b, n)' => Passed(b, n) \/ (passes = n - 1 /\ b \in chunk)
    BY <2>1, <2>2 DEF Passed, Stays
  <2>5. ASSUME NEW b \in known, Passed(b, 1)' PROVE Follows(b)' /\ Based(b)'
    <3>1. CASE b \in chunk
      <4>1. Follows(b)'  BY <2>1, <2>2, <3>1, ChunkIsWritten
      <4>2. Based(b)'  BY <2>1, <2>2, <3>1, BasedAfter
      <4>. QED  BY <4>1, <4>2
    <3>2. CASE b \notin chunk
      <4>1. Follows(b) /\ Based(b)  BY <2>4, <2>5, <3>2 DEF PassInv
      <4>2. Based(b)'  BY <2>1, <2>2, <4>1, BasedAfter
      <4>3. related'[b] = related[b]  BY <2>1, <2>2, <3>2, ChunkIsWritten DEF StatusTypeOK
      <4>4. TextTarget(b)' = TextTarget(b)  BY DEF Stays, TextTarget, Substitutions
      <4>5. Survivor(b, {b})' = Survivor(b, {b})  BY <2>1, <2>2, SurvivorStays
      <4>6. Follows(b)'  BY <4>1, <4>3, <4>4, <4>5 DEF Follows
      <4>. QED  BY <4>2, <4>6
    <3>. QED  BY <3>1, <3>2
  <2>6. ASSUME NEW b \in known, Passed(b, 2)' PROVE Inherits(b)'
    <3>1. passes >= 1  BY <2>1, <2>6 DEF Passed
    <3>2. \A x \in known : Based(x)  BY <3>1 DEF PassInv, Passed
    <3>3. b \in chunk \/ Inherits(b)  BY <2>4, <2>6 DEF PassInv
    <3>. QED  BY <2>1, <2>2, <3>2, <3>3, InheritsAfter
  <2>7. PassInv'  BY <2>1, <2>5, <2>6 DEF PassInv, Stays
  <2>. QED  BY <2>3, <2>7 DEF SettledInv
<1>. QED  BY <1>1, <1>2

\* The inductive invariant, for any bills, identifiers and actions and any sizes of a
\* chunk and of a batch: rows name bills that are there, and what passes have settled.
THEOREM StatusInvariant == StatusSpec => []SettledInv
<1>1. StatusInit => SettledInv
  <2>. SUFFICES ASSUME StatusInit PROVE SettledInv  OBVIOUS
  <2>1. StatusTypeOK  BY StatusAssumption DEF StatusInit, StatusTypeOK
  <2>2. StoredInv /\ PassInv  BY DEF StatusInit, StoredInv, PassInv
  <2>. QED  BY <2>1, <2>2 DEF SettledInv
<1>2. SettledInv /\ [StatusNext]_statusVars => SettledInv'
  <2>. SUFFICES ASSUME SettledInv, [StatusNext]_statusVars PROVE SettledInv'  OBVIOUS
  <2>. StatusTypeOK /\ StoredInv /\ PassInv  BY DEF SettledInv
  <2>1. ASSUME NEW b \in Measures, NEW a \in Actions, Sync(b, a) PROVE SettledInv'
    <3>1. StatusTypeOK'  BY <2>1, UpstreamCounts DEF Sync, StatusTypeOK
    <3>2. StoredInv'  BY <2>1 DEF Sync, StoredInv
    <3>3. PassInv'  BY <2>1, <3>1, StartsOver DEF Sync, Upstream
    <3>. QED  BY <3>1, <3>2, <3>3 DEF SettledInv
  <2>2. ASSUME NEW b \in Measures, NEW ident \in Idents, Import(b, ident) PROVE SettledInv'
    <3>. DEFINE new == [ident |-> ident, to |-> 0]
    <3>1. new \in Rows /\ new.to = 0  BY DEF Rows
    <3>2. related[b] \in Seq(Rows) /\ related' = [related EXCEPT ![b] = Append(@, new)]  BY <2>2 DEF Import, StatusTypeOK
    <3>. HIDE DEF new
    <3>3. related' \in [Measures -> Seq(Rows)]  BY <3>1, <3>2 DEF StatusTypeOK
    <3>4. StatusTypeOK'  BY <2>2, <3>3, UpstreamCounts DEF Import, StatusTypeOK
    <3>5. ASSUME NEW x \in Measures, NEW i \in DOMAIN related'[x] PROVE related'[x][i].to \in known \cup {0}
      <4>1. CASE x = b
        <5>1. related'[x] = Append(related[b], new)  BY <3>2, <4>1 DEF StatusTypeOK
        <5>2. (i \in DOMAIN related[b] /\ related'[x][i] = related[b][i]) \/ related'[x][i] = new
          BY <3>1, <3>2, <3>5, <5>1, AppendProperties
        <5>. QED  BY <3>1, <5>2 DEF StoredInv
      <4>2. CASE x # b
        <5>1. related'[x] = related[x]  BY <3>2, <4>2 DEF StatusTypeOK
        <5>. QED  BY <3>5, <5>1 DEF StoredInv
      <4>. QED  BY <4>1, <4>2
    <3>6. StoredInv'  BY <2>2, <3>5 DEF Import, StoredInv
    <3>7. PassInv'  BY <2>2, <3>4, StartsOver DEF Import, Upstream
    <3>. QED  BY <3>4, <3>6, <3>7 DEF SettledInv
  <2>3. ASSUME SessionEnds \/ DateFilled PROVE SettledInv'
    <3>0. StartOver  BY <2>3 DEF SessionEnds, DateFilled
    <3>1. StatusTypeOK'
      <4>1. passes' \in -1..2  BY <3>0 DEF StartOver
      <4>2. phase' \in {"sitting", "silent", "over"}  BY <2>3 DEF SessionEnds, DateFilled
      <4>. QED  BY <2>3, <4>1, <4>2 DEF SessionEnds, DateFilled, StatusTypeOK
    <3>2. StoredInv'  BY <2>3 DEF SessionEnds, DateFilled, StoredInv
    <3>3. PassInv'  BY <2>3, <3>0, <3>1, StartsOver DEF SessionEnds, DateFilled
    <3>. QED  BY <3>1, <3>2, <3>3 DEF SettledInv
  <2>4. ASSUME DeriveTouched PROVE SettledInv'
    <3>1. pending \subseteq known  BY DEF StatusTypeOK
    <3>2. UNCHANGED <<status, related>> \/ Recompute(pending)  BY <2>4 DEF DeriveTouched
    <3>3. /\ NoteChange /\ Stays /\ pass' = pass /\ changes' = changes
          /\ pending' \in SUBSET known' /\ step' \in {"derive", "sweep"}
      BY <2>4 DEF DeriveTouched, Stays
    <3>. QED  BY <3>1, <3>2, <3>3, NotedKeeps
  <2>5. ASSUME Sweep PROVE SettledInv'
    <3>1. PICK some \in SUBSET Overdue : IF some = {} THEN UNCHANGED <<status, related>> ELSE Recompute(some)
      BY <2>5 DEF Sweep
    <3>2. some \subseteq known  BY DEF Overdue
    <3>3. /\ NoteChange /\ Stays /\ pass' = pass /\ changes' = changes
          /\ pending' \in SUBSET known' /\ step' \in {"derive", "sweep"}
      BY <2>5 DEF Sweep, Stays, StatusTypeOK
    <3>. QED  BY <3>1, <3>2, <3>3, NotedKeeps
  <2>6. ASSUME StartPass PROVE SettledInv'
    <3>1. StatusTypeOK' /\ StoredInv'  BY <2>6 DEF StartPass, StatusTypeOK, StoredInv
    <3>2. \A b \in known : (Follows(b) <=> Follows(b)') /\ (Based(b) <=> Based(b)') /\ (Inherits(b) <=> Inherits(b)')
      BY <2>6, SameStatuses DEF StartPass, Stays
    <3>3. \A b \in known : (Passed(b, 1)' => Passed(b, 1)) /\ (Passed(b, 2)' => Passed(b, 2))
      BY <2>6, StatusAssumption DEF Passed, StartPass, StatusTypeOK
    <3>4. PassInv'  BY <2>6, <3>2, <3>3 DEF PassInv, StartPass
    <3>. QED  BY <3>1, <3>4 DEF SettledInv
  <2>7. ASSUME PassChunk PROVE SettledInv'  BY <2>7, ChunkKeeps
  <2>8. CASE UNCHANGED statusVars
    <3>1. StatusTypeOK' /\ StoredInv'  BY <2>8 DEF statusVars, StatusTypeOK, StoredInv
    <3>2. \A b \in known : (Follows(b) <=> Follows(b)') /\ (Based(b) <=> Based(b)') /\ (Inherits(b) <=> Inherits(b)')
      BY <2>8, SameStatuses DEF statusVars, Stays
    <3>3. PassInv'  BY <2>8, <3>2 DEF PassInv, Passed, statusVars
    <3>. QED  BY <3>1, <3>3 DEF SettledInv
  <2>. QED  BY <2>1, <2>2, <2>3, <2>4, <2>5, <2>6, <2>7, <2>8 DEF StatusNext
<1>. QED  BY <1>1, <1>2, PTL DEF StatusSpec

\* Type correctness of the statuses: whatever is derived is a status or none.
THEOREM StatusTypeCorrect == StatusSpec => []StatusTypeOK
<1>1. SettledInv => StatusTypeOK  BY DEF SettledInv
<1>. QED  BY <1>1, StatusInvariant, PTL

\* Which bill recompute_status_for_bills finds for a substituted print does not depend
\* on the chunk they are derived in.
THEOREM SurvivorsAreChunkBlind == StatusSpec => []ChunkBlind
<1>1. SettledInv => ChunkBlind
  <2>. SUFFICES ASSUME SettledInv, NEW chunk \in SUBSET known, NEW b \in chunk
                PROVE  Survivor(b, chunk) = Survivor(b, {b})
    BY DEF ChunkBlind
  <2>. QED  BY SameSurvivor DEF SettledInv
<1>. QED  BY <1>1, StatusInvariant, PTL

\* Two whole passes of recompute-status settle every status that a chain of
\* substitutions does not reach, for chunks of any size and any interruptions.
THEOREM PassesSettle == StatusSpec => []TwoPassesSettle
<1>1. SettledInv => TwoPassesSettle
  <2>. SUFFICES ASSUME SettledInv, passes = 2, NEW b \in known
                PROVE  LET s == Survivor(b, {b}) IN
                       IF s = 0 THEN status[b] = Own(b)
                       ELSE Survivor(s, {s}) = 0 =>
                                status[b] = (IF status[s] \in Terminal THEN status[s] ELSE "substituted")
    BY DEF TwoPassesSettle
  <2>1. Based(b) /\ Inherits(b)  BY DEF SettledInv, PassInv, Passed
  <2>. QED  BY <2>1 DEF Based, Inherits
<1>. QED  BY <1>1, StatusInvariant, PTL

\* One whole pass leaves of the stored relations of a bill the one of its text.
THEOREM RowsAreOfTheText == StatusSpec => []RowsFollowText
<1>1. SettledInv => RowsFollowText  BY DEF SettledInv, PassInv, Passed, Follows, RowsFollowText
<1>. QED  BY <1>1, StatusInvariant, PTL

\* derive_status takes no outcome back but a death, whatever actions a sync adds.
THEOREM OutcomesAreFinal == StatusSpec => OutcomesStand
<1>1. SettledInv /\ [StatusNext]_statusVars =>
          [\A b \in Measures :
              Derived(actions[b]) \in Terminal \ {"dead"} => Derived(actions'[b]) \in Terminal]_statusVars
  <2>. SUFFICES ASSUME SettledInv, StatusNext, NEW b \in Measures, Derived(actions[b]) \in Terminal \ {"dead"}
                PROVE  Derived(actions'[b]) \in Terminal
    OBVIOUS
  <2>1. actions[b] \subseteq Actions  BY DEF SettledInv, StatusTypeOK
  <2>2. CASE actions'[b] = actions[b]  BY <2>2
  <2>3. ASSUME NEW x \in Measures, NEW a \in Actions, Sync(x, a), actions'[b] # actions[b]
        PROVE  Derived(actions'[b]) \in Terminal
    <3>1. actions'[b] = actions[b] \cup {a}  BY <2>3 DEF Sync, SettledInv, StatusTypeOK
    <3>. QED  BY <2>1, <3>1, OutcomeStands
  <2>4. (\E x \in Measures, a \in Actions : Sync(x, a)) \/ actions' = actions
    BY DEF StatusNext, Import, SessionEnds, DateFilled, DeriveTouched, Sweep, StartPass, PassChunk
  <2>. QED  BY <2>2, <2>3, <2>4
<1>. QED  BY <1>1, StatusInvariant, PTL DEF StatusSpec, OutcomesStand

=============================================================================
