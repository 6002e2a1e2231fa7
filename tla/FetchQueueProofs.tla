--------------------------- MODULE FetchQueueProofs ---------------------------
(***************************************************************************)
(* FetchQueue, for any documents, jobs and finitely many workers, and any  *)
(* caps: every job and worker is well formed, dead letters are earned, and *)
(* a document's attempts are never more than its own failures.             *)
(*                                                                         *)
(* The count of a document lags behind its failures by the charges that    *)
(* workers still have to record, several at once if the job was claimed    *)
(* again in between; so the invariant counts them (Owing), and says the    *)
(* same of the copy that the browser goes on from.                         *)
(***************************************************************************)
EXTENDS FetchQueue, FiniteSetTheorems, TLAPS

USE FetchAssumption

-----------------------------------------------------------------------------
(* Values.                                                                 *)

LEMMA MinOfTwo ==
  ASSUME NEW a \in Int, NEW b \in Int
  PROVE  Min({a, b}) = IF a <= b THEN a ELSE b
BY DEF Min

\* A written row is a row, and its count is the new one or stays.
LEMMA ChangedRow ==
  ASSUME NEW current \in Documents, NEW copy \in Documents, NEW new \in Documents
  PROVE  /\ Changed(current, copy, new) \in Documents
         /\ Changed(current, copy, new).attempts
                = IF new.attempts # copy.attempts THEN new.attempts ELSE current.attempts
<1>1. DOMAIN current = {"text", "status", "attempts"}
  BY DEF Documents
<1>2. Changed(current, copy, new) =
          [text |-> IF new.text # copy.text THEN new.text ELSE current.text,
           status |-> IF new.status # copy.status THEN new.status ELSE current.status,
           attempts |-> IF new.attempts # copy.attempts THEN new.attempts ELSE current.attempts]
  BY <1>1 DEF Changed
<1> QED BY <1>2 DEF Documents

LEMMA ExtractedRow ==
  ASSUME NEW copy \in Documents, NEW text \in BOOLEAN
  PROVE  /\ Extracted(copy, text) \in Documents
         /\ Extracted(copy, text).attempts \in {0, copy.attempts}
<1>1. CASE text
  BY <1>1 DEF Extracted, Documents, Statuses
<1>2. CASE ~text
  <2>1. Extracted(copy, text) = [copy EXCEPT !.text = FALSE, !.status = "unfetchable"]
    BY <1>2 DEF Extracted
  <2> QED BY <2>1 DEF Documents, Statuses
<1> QED BY <1>1, <1>2

LEMMA AfterFailureRow ==
  ASSUME NEW d \in Documents, NEW failure \in Failures
  PROVE  /\ AfterFailure(d, failure) \in Documents
         /\ Charged(failure) => AfterFailure(d, failure).attempts <= d.attempts + 1
         /\ ~Charged(failure) => AfterFailure(d, failure).attempts = d.attempts
<1>1. d.attempts \in 0..MaxFetchAttempts
  BY DEF Documents
<1>2. failure.status \in Statuses /\ "permanently_failed" \in Statuses
  BY DEF Failures, Statuses
<1>3. CASE ~Charged(failure)
  <2>1. AfterFailure(d, failure) = [d EXCEPT !.status = failure.status]
    BY <1>3 DEF AfterFailure
  <2> QED BY <1>2, <1>3, <2>1 DEF Documents
<1>4. CASE Charged(failure) /\ d.attempts + 1 >= MaxFetchAttempts
  <2>1. AfterFailure(d, failure) =
            [text |-> d.text, status |-> "permanently_failed", attempts |-> MaxFetchAttempts]
    BY <1>4 DEF AfterFailure, Documents
  <2> QED BY <1>1, <1>2, <1>4, <2>1 DEF Documents
<1>5. CASE Charged(failure) /\ ~(d.attempts + 1 >= MaxFetchAttempts)
  <2>1. AfterFailure(d, failure) =
            [text |-> d.text, status |-> failure.status, attempts |-> d.attempts + 1]
    BY <1>5 DEF AfterFailure, Documents
  <2> QED BY <1>1, <1>2, <1>5, <2>1 DEF Documents
<1> QED BY <1>3, <1>4, <1>5

LEMMA FailureKinds ==
  /\ OwnFailures \subseteq Failures
  /\ WorkerError \in Failures
BY DEF OwnFailures, WorkerError, Failures, Statuses

\* What a worker is at determines what it holds.
LEMMA WorkerKinds ==
  ASSUME NEW s \in WorkerStates
  PROVE  /\ s.pc = "topup" => s.found \in SUBSET Docs
         /\ s.pc = "running" => /\ s.job \in Jobs /\ s.claimed \in 1..MaxAttempts
                                /\ s.copy \in Documents
         /\ s.pc \in {"failed", "recording"} => /\ s.job \in Jobs
                                                /\ s.claimed \in 1..MaxAttempts
                                                /\ s.failure \in Failures
         /\ s.pc \in {"idle", "topup", "running", "failed", "recording"}
BY DEF WorkerStates, Idle

LEMMA BrowserKinds ==
  ASSUME NEW s \in BrowserStates
  PROVE  /\ s.pc \in {"listed", "fetching"} => s.of \in Docs
         /\ s.pc = "fetching" => s.copy \in Documents
BY DEF BrowserStates, Idle

LEMMA WorkerValues ==
  /\ Idle \in WorkerStates
  /\ \A found \in SUBSET Docs : [pc |-> "topup", found |-> found] \in WorkerStates
  /\ \A j \in Jobs, c \in 1..MaxAttempts, copy \in Documents :
        [pc |-> "running", job |-> j, claimed |-> c, copy |-> copy] \in WorkerStates
  /\ \A pc \in {"failed", "recording"}, j \in Jobs, c \in 1..MaxAttempts, f \in Failures :
        [pc |-> pc, job |-> j, claimed |-> c, failure |-> f] \in WorkerStates
BY DEF WorkerStates

-----------------------------------------------------------------------------
(* The invariant of the queue.                                             *)

RefersToJob(s) == s.pc \in {"running", "failed", "recording"}

\* A job has a document once it was inserted, an attempt left while it is queued,
\* and no attempt that was not a claim.
JobsInv ==
    \A j \in Jobs : /\ job[j].state # "free" => job[j].of \in Docs
                    /\ Queued(j) => job[j].attempts < MaxAttempts
                    /\ job[j].attempts <= tries[j]

\* What a worker at work holds: an inserted job, a claim of it that was counted,
\* and a failure of one of the known kinds.
Holds(s, jobs, counts) ==
    RefersToJob(s) =>
        /\ jobs[s.job].state # "free"
        /\ s.claimed <= counts[s.job]
        /\ s.pc # "running" => s.failure \in OwnFailures \cup {WorkerError}

WorkersInv == \A w \in Workers : Holds(worker[w], job, tries)

QueueInv == TypeOK /\ JobsInv /\ WorkersInv

LEMMA InitQueueInv == Init => QueueInv
<1> SUFFICES ASSUME Init PROVE QueueInv
  OBVIOUS
<1>1. TypeOK
  BY WorkerValues DEF Init, TypeOK, Documents, Statuses, JobRows, BrowserStates
<1>2. JobsInv
  BY DEF Init, JobsInv, Queued
<1>3. WorkersInv
  BY DEF Init, WorkersInv, Holds, RefersToJob, Idle
<1> QED BY <1>1, <1>2, <1>3 DEF QueueInv

\* The document of a worker's job is a document.
LEMMA DocOfIsDoc ==
  ASSUME QueueInv, NEW w \in Workers, RefersToJob(worker[w])
  PROVE  worker[w].job \in Jobs /\ DocOf(w) \in Docs
BY WorkerKinds DEF QueueInv, TypeOK, JobsInv, WorkersInv, Holds, RefersToJob, DocOf

\* One worker moves on to s, and no job is inserted.
LEMMA WorkerMoves ==
  ASSUME QueueInv, NEW w \in Workers, NEW s \in WorkerStates,
         worker' = [worker EXCEPT ![w] = s],
         job' \in [Jobs -> JobRows], tries' \in [Jobs -> 0..MaxAttempts],
         \A j \in Jobs : /\ job[j].state # "free" => job'[j].state # "free"
                         /\ tries[j] <= tries'[j],
         Holds(s, job', tries')
  PROVE  worker' \in [Workers -> WorkerStates] /\ WorkersInv'
<1>1. worker' \in [Workers -> WorkerStates]
  BY DEF QueueInv, TypeOK
<1>2. ASSUME NEW v \in Workers PROVE Holds(worker'[v], job', tries')
  <2>1. CASE v = w
    BY <2>1 DEF QueueInv, TypeOK
  <2>2. CASE v # w
    <3>1. worker'[v] = worker[v] /\ worker[v] \in WorkerStates
      BY <2>2 DEF QueueInv, TypeOK
    <3>2. RefersToJob(worker[v]) => worker[v].job \in Jobs /\ worker[v].claimed \in Int
      BY <3>1, WorkerKinds DEF RefersToJob
    <3>3. RefersToJob(worker[v]) =>
             tries[worker[v].job] \in Int /\ tries'[worker[v].job] \in Int
      BY <3>2 DEF QueueInv, TypeOK
    <3> QED BY <3>1, <3>2, <3>3 DEF QueueInv, WorkersInv, Holds
  <2> QED BY <2>1, <2>2
<1> QED BY <1>1, <1>2 DEF WorkersInv

-----------------------------------------------------------------------------
(* Its steps.                                                              *)

LEMMA TopupReadsInv ==
  ASSUME QueueInv, NEW w \in Workers, TopupReads(w)
  PROVE  QueueInv'
<1> DEFINE s == [pc |-> "topup", found |-> {d \in Docs : Pending(d)}]
<1>1. worker' = [worker EXCEPT ![w] = s] /\ UNCHANGED <<doc, job, browser, blamed, tries, mishaps>>
  BY DEF TopupReads
<1>2. s \in WorkerStates /\ Holds(s, job, tries)
  BY WorkerValues DEF Holds, RefersToJob
<1>3. worker' \in [Workers -> WorkerStates] /\ WorkersInv'
  <2>1. \A j \in Jobs : tries[j] <= tries[j]
    BY DEF QueueInv, TypeOK
  <2> HIDE DEF s
  <2> QED BY <1>1, <1>2, <2>1, WorkerMoves DEF QueueInv, TypeOK
<1> QED BY <1>1, <1>3 DEF QueueInv, TypeOK, JobsInv, Queued

\* Only rows that nobody refers to are filled.
LEMMA TopupInsertsInv ==
  ASSUME QueueInv, NEW w \in Workers, TopupInserts(w)
  PROVE  QueueInv'
<1>1. PICK at \in Injection(worker[w].found, {j \in Jobs : Spare(j)}) :
          LET inserted == {at[d] : d \in worker[w].found}
              for(j) == CHOOSE d \in worker[w].found : at[d] = j IN
          /\ job' = [j \in Jobs |-> IF j \notin inserted THEN job[j] ELSE
                 [state |-> "queued", of |-> for(j), attempts |-> 0, due |-> TRUE]]
          /\ tries' = [j \in Jobs |-> IF j \in inserted THEN 0 ELSE tries[j]]
  BY DEF TopupInserts
<1> DEFINE inserted == {at[d] : d \in worker[w].found}
<1> DEFINE for(j) == CHOOSE d \in worker[w].found : at[d] = j
<1>2. worker[w].found \subseteq Docs
  BY WorkerKinds DEF TopupInserts, QueueInv, TypeOK
<1>3. at \in [worker[w].found -> {j \in Jobs : Spare(j)}]
  BY DEF Injection
<1>4. \A j \in inserted : for(j) \in Docs /\ j \in Jobs /\ Spare(j)
  BY <1>2, <1>3
<1>5. /\ job' = [j \in Jobs |-> IF j \notin inserted THEN job[j] ELSE
             [state |-> "queued", of |-> for(j), attempts |-> 0, due |-> TRUE]]
      /\ tries' = [j \in Jobs |-> IF j \in inserted THEN 0 ELSE tries[j]]
      /\ worker' = [worker EXCEPT ![w] = Idle]
      /\ UNCHANGED <<doc, browser, blamed, mishaps>>
  BY <1>1 DEF TopupInserts
<1> HIDE DEF inserted, for
<1>6. \A j \in Jobs : \/ job'[j] = job[j] /\ tries'[j] = tries[j] /\ j \notin inserted
                      \/ /\ job'[j] = [state |-> "queued", of |-> for(j), attempts |-> 0,
                                       due |-> TRUE]
                         /\ tries'[j] = 0 /\ for(j) \in Docs /\ Spare(j)
  BY <1>4, <1>5
<1>7. TypeOK'
  <2>1. job' \in [Jobs -> JobRows]
    <3> SUFFICES ASSUME NEW j \in Jobs PROVE job'[j] \in JobRows
      BY <1>5
    <3>1. job[j] \in JobRows
      BY DEF QueueInv, TypeOK
    <3>2. CASE job'[j] = job[j]
      BY <3>1, <3>2
    <3>3. CASE job'[j] # job[j]
      <4>1. /\ job'[j] = [state |-> "queued", of |-> for(j), attempts |-> 0, due |-> TRUE]
            /\ for(j) \in Docs
        BY <1>6, <3>3
      <4>2. 0 \in 0..MaxAttempts
        OBVIOUS
      <4> QED BY <4>1, <4>2 DEF JobRows
    <3> QED BY <3>2, <3>3
  <2>2. tries' \in [Jobs -> 0..MaxAttempts]
    BY <1>5 DEF QueueInv, TypeOK
  <2>3. worker' \in [Workers -> WorkerStates]
    BY <1>5, WorkerValues DEF QueueInv, TypeOK
  <2> QED BY <1>5, <2>1, <2>2, <2>3 DEF QueueInv, TypeOK
<1>8. JobsInv'
  <2> SUFFICES ASSUME NEW j \in Jobs
               PROVE  /\ job'[j].state # "free" => job'[j].of \in Docs
                      /\ job'[j].state = "queued" => job'[j].attempts < MaxAttempts
                      /\ job'[j].attempts <= tries'[j]
    BY DEF JobsInv, Queued
  <2>1. CASE job'[j] = job[j] /\ tries'[j] = tries[j]
    BY <2>1 DEF QueueInv, JobsInv, Queued
  <2>2. CASE ~(job'[j] = job[j] /\ tries'[j] = tries[j])
    <3>1. /\ job'[j] = [state |-> "queued", of |-> for(j), attempts |-> 0, due |-> TRUE]
          /\ for(j) \in Docs /\ tries'[j] = 0
      BY <1>6, <2>2
    <3> QED BY <3>1
  <2> QED BY <2>1, <2>2
<1>9. WorkersInv'
  <2> SUFFICES ASSUME NEW v \in Workers PROVE Holds(worker'[v], job', tries')
    BY DEF WorkersInv
  <2>1. CASE v = w
    BY <1>5, <2>1 DEF Holds, RefersToJob, Idle, QueueInv, TypeOK
  <2>2. CASE v # w /\ ~RefersToJob(worker[v])
    BY <1>5, <2>2 DEF Holds, QueueInv, TypeOK
  <2>3. CASE v # w /\ RefersToJob(worker[v])
    <3>1. worker'[v] = worker[v] /\ worker[v].job \in Jobs
      BY <1>5, <2>3, DocOfIsDoc DEF QueueInv, TypeOK
    <3>2. ~Spare(worker[v].job)
      BY <2>3 DEF Spare, RefersToJob
    <3>3. job'[worker[v].job] = job[worker[v].job] /\ tries'[worker[v].job] = tries[worker[v].job]
      BY <1>6, <3>1, <3>2
    <3> QED BY <3>1, <3>3 DEF QueueInv, WorkersInv, Holds
  <2> QED BY <2>1, <2>2, <2>3
<1> QED BY <1>7, <1>8, <1>9 DEF QueueInv

\* A claim has an attempt left, and is counted.
LEMMA ClaimInv ==
  ASSUME QueueInv, NEW w \in Workers, NEW j \in Jobs, Claim(w, j)
  PROVE  QueueInv'
<1> DEFINE s == [pc |-> "running", job |-> j, claimed |-> ClaimedAttempts(j),
                 copy |-> doc[job[j].of]]
<1>1. /\ worker' = [worker EXCEPT ![w] = s]
      /\ tries' = [tries EXCEPT ![j] = Min({@ + 1, MaxAttempts})]
      /\ UNCHANGED <<doc, job, browser, blamed, mishaps>>
      /\ Queued(j)
  BY DEF Claim, Claimable
<1>2. tries[j] \in 0..MaxAttempts /\ job[j].attempts \in 0..MaxAttempts
  BY DEF QueueInv, TypeOK, JobRows
<1>3. job[j].attempts < MaxAttempts /\ job[j].attempts <= tries[j] /\ job[j].of \in Docs
  BY <1>1 DEF QueueInv, JobsInv, Queued
<1>4. Min({tries[j] + 1, MaxAttempts})
          = IF tries[j] + 1 <= MaxAttempts THEN tries[j] + 1 ELSE MaxAttempts
  BY <1>2, MinOfTwo
<1>5. /\ tries' \in [Jobs -> 0..MaxAttempts]
      /\ \A i \in Jobs : tries[i] <= tries'[i]
      /\ ClaimedAttempts(j) \in 1..MaxAttempts /\ ClaimedAttempts(j) <= tries'[j]
  <2>1. \A i \in Jobs : tries[i] \in 0..MaxAttempts
    BY DEF QueueInv, TypeOK
  <2>2. \A i \in Jobs : tries'[i] = IF i = j THEN Min({tries[j] + 1, MaxAttempts}) ELSE tries[i]
    BY <1>1 DEF QueueInv, TypeOK
  <2>3. DOMAIN tries' = Jobs /\ tries' = [i \in Jobs |-> tries'[i]]
    BY <1>1 DEF QueueInv, TypeOK
  <2>4. Min({tries[j] + 1, MaxAttempts}) \in 0..MaxAttempts
    BY <1>2, <1>4
  <2>5. \A i \in Jobs : tries'[i] \in 0..MaxAttempts /\ tries[i] <= tries'[i]
    BY <1>2, <1>4, <2>1, <2>2, <2>4
  <2>6. ClaimedAttempts(j) \in 1..MaxAttempts /\ ClaimedAttempts(j) <= tries'[j]
    BY <1>2, <1>3, <1>4, <2>2 DEF ClaimedAttempts
  <2> QED BY <2>3, <2>5, <2>6
<1>6. s \in WorkerStates /\ Holds(s, job', tries')
  <2>1. doc[job[j].of] \in Documents
    BY <1>3 DEF QueueInv, TypeOK
  <2> QED BY <1>1, <1>5, <2>1, WorkerValues DEF Holds, Queued
<1> HIDE DEF s
<1>7. worker' \in [Workers -> WorkerStates] /\ WorkersInv'
  BY <1>1, <1>5, <1>6, WorkerMoves DEF QueueInv, TypeOK
<1>8. JobsInv'
  <2> SUFFICES ASSUME NEW i \in Jobs PROVE job[i].attempts <= tries'[i]
    BY <1>1 DEF QueueInv, JobsInv, Queued
  <2>1. job[i].attempts \in Int /\ tries[i] \in Int /\ tries'[i] \in Int
    BY <1>5 DEF QueueInv, TypeOK, JobRows
  <2> QED BY <1>5, <2>1 DEF QueueInv, JobsInv
<1> QED BY <1>1, <1>5, <1>7, <1>8 DEF QueueInv, TypeOK

LEMMA EndedRow ==
  ASSUME NEW q \in JobRows, NEW st \in {"done", "dead"}
  PROVE  /\ Ended(q, st) \in JobRows
         /\ Ended(q, st).state = st /\ Ended(q, st).of = q.of /\ Ended(q, st).attempts = 0
<1>1. q.of \in Docs \cup {NoDoc} /\ 0 \in 0..MaxAttempts
  BY DEF JobRows
<1> QED BY <1>1 DEF Ended, JobRows

LEMMA AttemptedRow ==
  ASSUME NEW q \in JobRows, NEW claimed \in 1..MaxAttempts, NEW ends \in BOOLEAN
  PROVE  LET r == AfterAttempt(q, claimed, ends) IN
         /\ r \in JobRows /\ r.of = q.of /\ r.state \in {"queued", "dead"}
         /\ r.state = "queued" => r.attempts < MaxAttempts
         /\ r.attempts <= claimed
         /\ r.state = "dead" => ends \/ claimed = MaxAttempts
<1>1. CASE ends \/ claimed >= MaxAttempts
  BY <1>1, EndedRow DEF AfterAttempt
<1>2. CASE ~(ends \/ claimed >= MaxAttempts)
  <2>1. q.of \in Docs \cup {NoDoc} /\ claimed \in 0..MaxAttempts
    BY DEF JobRows
  <2>2. AfterAttempt(q, claimed, ends)
            = [state |-> "queued", of |-> q.of, attempts |-> claimed, due |-> FALSE]
    BY <1>2 DEF AfterAttempt
  <2> QED BY <1>2, <2>1, <2>2 DEF JobRows
<1> QED BY <1>1, <1>2

\* An inserted job's row is written, its document kept.
LEMMA JobWritten ==
  ASSUME QueueInv, NEW j \in Jobs, NEW r \in JobRows, job' = [job EXCEPT ![j] = r],
         tries' = tries, job[j].state # "free",
         r.of = job[j].of, r.state \in {"queued", "done", "dead"},
         r.state = "queued" => r.attempts < MaxAttempts, r.attempts <= tries[j]
  PROVE  /\ job' \in [Jobs -> JobRows] /\ JobsInv'
         /\ \A i \in Jobs : job'[i].of = job[i].of /\ (job[i].state # "free" => job'[i].state # "free")
<1>1. \A i \in Jobs : job'[i] = IF i = j THEN r ELSE job[i]
  BY DEF QueueInv, TypeOK
<1>2. job' \in [Jobs -> JobRows]
  BY DEF QueueInv, TypeOK
<1>3. JobsInv'
  BY <1>1 DEF QueueInv, JobsInv, Queued
<1> QED BY <1>1, <1>2, <1>3

LEMMA CompleteInv ==
  ASSUME QueueInv, NEW w \in Workers, Complete(w)
  PROVE  QueueInv'
<1> DEFINE j == worker[w].job
<1> DEFINE d == DocOf(w)
<1>1. PICK text \in BOOLEAN :
          doc' = [doc EXCEPT ![d] = Changed(@, worker[w].copy, Extracted(worker[w].copy, text))]
  BY DEF Complete
<1>2. /\ worker[w].pc = "running"
      /\ job' = [job EXCEPT ![j] = Ended(@, "done")]
      /\ worker' = [worker EXCEPT ![w] = Idle]
      /\ UNCHANGED <<browser, blamed, tries, mishaps>>
  BY DEF Complete
<1>3. j \in Jobs /\ d \in Docs /\ job[j].state # "free" /\ worker[w].copy \in Documents
  BY <1>2, DocOfIsDoc, WorkerKinds DEF RefersToJob, QueueInv, TypeOK, WorkersInv, Holds
<1>4. doc' \in [Docs -> Documents]
  <2>1. Changed(doc[d], worker[w].copy, Extracted(worker[w].copy, text)) \in Documents
    BY <1>3, ChangedRow, ExtractedRow DEF QueueInv, TypeOK
  <2> QED BY <1>1, <1>3, <2>1 DEF QueueInv, TypeOK
<1> DEFINE r == Ended(job[j], "done")
<1>5. /\ job' = [job EXCEPT ![j] = r]
      /\ r \in JobRows /\ r.of = job[j].of /\ r.state = "done" /\ r.attempts <= tries[j]
  <2>1. job[j] \in JobRows /\ tries[j] \in 0..MaxAttempts
    BY <1>3 DEF QueueInv, TypeOK
  <2> QED BY <1>2, <2>1, EndedRow
<1> HIDE DEF j, d, r
<1>6. /\ job' \in [Jobs -> JobRows] /\ JobsInv'
      /\ \A i \in Jobs : job[i].state # "free" => job'[i].state # "free"
  BY <1>2, <1>3, <1>5, JobWritten
<1>7. worker' \in [Workers -> WorkerStates] /\ WorkersInv'
  <2>1. Holds(Idle, job', tries') /\ Idle \in WorkerStates
    BY WorkerValues DEF Holds, RefersToJob, Idle
  <2>2. \A i \in Jobs : tries[i] <= tries'[i]
    BY <1>2 DEF QueueInv, TypeOK
  <2> QED BY <1>2, <1>6, <2>1, <2>2, WorkerMoves DEF QueueInv, TypeOK
<1> QED BY <1>2, <1>4, <1>6, <1>7 DEF QueueInv, TypeOK

\* A failure rolls the claim back: only the worker moves.
LEMMA RollBackInv ==
  ASSUME QueueInv, NEW w \in Workers, worker[w].pc = "running",
         NEW failure \in OwnFailures \cup {WorkerError}, RollBack(w, failure),
         UNCHANGED <<doc, job, browser, tries>>,
         blamed' \in [Docs -> 0..MaxFetchAttempts], mishaps' \in 0..MaxMishaps
  PROVE  QueueInv'
<1> DEFINE s == [pc |-> "failed", job |-> worker[w].job, claimed |-> worker[w].claimed,
                 failure |-> failure]
<1>1. worker' = [worker EXCEPT ![w] = s]
  BY DEF RollBack
<1>2. /\ worker[w].job \in Jobs /\ worker[w].claimed \in 1..MaxAttempts
      /\ job[worker[w].job].state # "free" /\ worker[w].claimed <= tries[worker[w].job]
  BY WorkerKinds DEF QueueInv, TypeOK, WorkersInv, Holds, RefersToJob
<1>3. s \in WorkerStates
  BY <1>2, FailureKinds, WorkerValues
<1>4. Holds(s, job', tries')
  BY <1>2 DEF Holds
<1> HIDE DEF s
<1>5. worker' \in [Workers -> WorkerStates] /\ WorkersInv'
  <2>1. \A i \in Jobs : tries[i] <= tries'[i]
    BY DEF QueueInv, TypeOK
  <2> QED BY <1>1, <1>3, <1>4, <2>1, WorkerMoves DEF QueueInv, TypeOK
<1> QED BY <1>5 DEF QueueInv, TypeOK, JobsInv, Queued

\* One more failure of d's own, counted up to the cap.
LEMMA BlamedRow ==
  ASSUME QueueInv, NEW d \in Docs,
         blamed' = [blamed EXCEPT ![d] = Min({@ + 1, MaxFetchAttempts})]
  PROVE  /\ blamed' \in [Docs -> 0..MaxFetchAttempts]
         /\ blamed'[d] = IF blamed[d] < MaxFetchAttempts THEN blamed[d] + 1 ELSE MaxFetchAttempts
         /\ \A e \in Docs \ {d} : blamed'[e] = blamed[e]
<1>1. blamed[d] \in 0..MaxFetchAttempts
  BY DEF QueueInv, TypeOK
<1>2. Min({blamed[d] + 1, MaxFetchAttempts})
          = IF blamed[d] + 1 <= MaxFetchAttempts THEN blamed[d] + 1 ELSE MaxFetchAttempts
  BY <1>1, MinOfTwo
<1>3. Min({blamed[d] + 1, MaxFetchAttempts}) \in 0..MaxFetchAttempts
  BY <1>1, <1>2
<1> QED BY <1>1, <1>2, <1>3 DEF QueueInv, TypeOK

LEMMA FetchFailsInv ==
  ASSUME QueueInv, NEW w \in Workers, FetchFails(w)
  PROVE  QueueInv'
<1>1. worker[w].pc = "running" /\ DocOf(w) \in Docs
  BY DocOfIsDoc DEF FetchFails, RefersToJob
<1>2. blamed' \in [Docs -> 0..MaxFetchAttempts]
  BY <1>1, BlamedRow DEF FetchFails
<1>3. PICK failure \in OwnFailures : RollBack(w, failure)
  BY DEF FetchFails
<1> QED BY <1>1, <1>2, <1>3, RollBackInv DEF FetchFails, QueueInv, TypeOK

LEMMA OutageInv ==
  ASSUME QueueInv, NEW w \in Workers, Outage(w)
  PROVE  QueueInv'
<1>1. mishaps' \in 0..MaxMishaps
  BY DEF Outage, QueueInv, TypeOK
<1> QED BY <1>1, RollBackInv DEF Outage, QueueInv, TypeOK

LEMMA DeadlockInv ==
  ASSUME QueueInv, NEW w \in Workers, NEW v \in Workers, Deadlock(w, v)
  PROVE  QueueInv'
BY RollBackInv DEF Deadlock, QueueInv, TypeOK

LEMMA RecordDocumentInv ==
  ASSUME QueueInv, NEW w \in Workers, RecordDocument(w)
  PROVE  QueueInv'
<1> DEFINE s == [pc |-> "recording", job |-> worker[w].job, claimed |-> worker[w].claimed,
                 failure |-> worker[w].failure]
<1>1. worker[w].pc = "failed" /\ UNCHANGED <<doc, job, browser, blamed, tries, mishaps>>
  BY DEF RecordDocument
<1>2. /\ worker[w].job \in Jobs /\ worker[w].claimed \in 1..MaxAttempts
      /\ worker[w].failure \in Failures
      /\ job[worker[w].job].state # "free" /\ worker[w].claimed <= tries[worker[w].job]
      /\ worker[w].failure \in OwnFailures \cup {WorkerError}
  BY <1>1, WorkerKinds DEF QueueInv, TypeOK, WorkersInv, Holds, RefersToJob
<1>3. worker' = [worker EXCEPT ![w] = s]
  <2>1. worker[w] \in [pc : {"failed", "recording"}, job : Jobs, claimed : 1..MaxAttempts,
                       failure : Failures]
    BY <1>1 DEF QueueInv, TypeOK, WorkerStates, Idle
  <2>2. [worker[w] EXCEPT !.pc = "recording"] = s
    BY <2>1
  <2> QED BY <2>2 DEF RecordDocument
<1>4. s \in WorkerStates
  BY <1>2, WorkerValues
<1>5. Holds(s, job', tries')
  BY <1>1, <1>2 DEF Holds
<1> HIDE DEF s
<1>6. worker' \in [Workers -> WorkerStates] /\ WorkersInv'
  <2>1. \A i \in Jobs : tries[i] <= tries'[i]
    BY <1>1 DEF QueueInv, TypeOK
  <2> QED BY <1>1, <1>3, <1>4, <1>5, <2>1, WorkerMoves DEF QueueInv, TypeOK
<1> QED BY <1>1, <1>6 DEF QueueInv, TypeOK, JobsInv, Queued

\* A worker that is done with its job.
LEMMA WorkerRests ==
  ASSUME QueueInv, NEW w \in Workers, worker' = [worker EXCEPT ![w] = Idle],
         job' \in [Jobs -> JobRows], tries' = tries,
         \A i \in Jobs : job[i].state # "free" => job'[i].state # "free"
  PROVE  worker' \in [Workers -> WorkerStates] /\ WorkersInv'
<1>1. Holds(Idle, job', tries') /\ Idle \in WorkerStates
  BY WorkerValues DEF Holds, RefersToJob, Idle
<1>2. \A i \in Jobs : tries[i] <= tries'[i]
  BY DEF QueueInv, TypeOK
<1> QED BY <1>1, <1>2, WorkerMoves DEF QueueInv, TypeOK

\* What RecordJob writes into the two rows.
LEMMA RecordJobWrites ==
  ASSUME QueueInv, NEW w \in Workers, RecordJob(w)
  PROVE  LET j == worker[w].job
             d == DocOf(w)
             failure == worker[w].failure
             r == AfterAttempt(job[j], worker[w].claimed, EndsJob(doc[d], failure)) IN
         /\ j \in Jobs /\ d \in Docs /\ worker[w].pc = "recording"
         /\ failure \in OwnFailures \cup {WorkerError} /\ failure \in Failures
         /\ worker[w].claimed \in 1..MaxAttempts /\ worker[w].claimed <= tries[j]
         /\ doc' = [doc EXCEPT ![d] = AfterFailure(doc[d], failure)]
         /\ AfterFailure(doc[d], failure) \in Documents
         /\ job' = [job EXCEPT ![j] = r]
         /\ job[j].state # "free"
         /\ r \in JobRows /\ r.of = job[j].of /\ r.state \in {"queued", "dead"}
         /\ r.state = "queued" => r.attempts < MaxAttempts
         /\ r.attempts <= tries[j]
         /\ r.state = "dead" => EndsJob(doc[d], failure) \/ tries[j] = MaxAttempts
         /\ worker' = [worker EXCEPT ![w] = Idle]
         /\ UNCHANGED <<browser, blamed, tries, mishaps>>
<1> DEFINE j == worker[w].job
<1> DEFINE d == DocOf(w)
<1> DEFINE failure == worker[w].failure
<1> DEFINE ends == EndsJob(doc[d], failure)
<1> DEFINE r == AfterAttempt(job[j], worker[w].claimed, ends)
<1>1. /\ worker[w].pc = "recording"
      /\ doc' = [doc EXCEPT ![d] = AfterFailure(doc[d], failure)]
      /\ job' = [job EXCEPT ![j] = r]
      /\ worker' = [worker EXCEPT ![w] = Idle]
      /\ UNCHANGED <<browser, blamed, tries, mishaps>>
  BY DEF RecordJob
<1>2. /\ j \in Jobs /\ d \in Docs /\ job[j].state # "free"
      /\ worker[w].claimed \in 1..MaxAttempts /\ worker[w].claimed <= tries[j]
      /\ failure \in OwnFailures \cup {WorkerError} /\ failure \in Failures
  BY <1>1, DocOfIsDoc, WorkerKinds DEF QueueInv, TypeOK, WorkersInv, Holds, RefersToJob
<1>3. AfterFailure(doc[d], failure) \in Documents
  BY <1>2, AfterFailureRow DEF QueueInv, TypeOK
<1>4. ends \in BOOLEAN
  BY <1>2 DEF EndsJob, Charged, Failures
<1>5. job[j] \in JobRows /\ tries[j] \in 0..MaxAttempts
  BY <1>2 DEF QueueInv, TypeOK
<1>6. /\ r \in JobRows /\ r.of = job[j].of /\ r.state \in {"queued", "dead"}
      /\ r.state = "queued" => r.attempts < MaxAttempts
      /\ r.attempts <= worker[w].claimed
      /\ r.state = "dead" => ends \/ worker[w].claimed = MaxAttempts
  <2> HIDE DEF ends, j
  <2> QED BY <1>2, <1>4, <1>5, AttemptedRow
<1>7. r.attempts \in Int
  <2> HIDE DEF r
  <2> QED BY <1>6 DEF JobRows
<1> HIDE DEF r, ends
<1>8. r.attempts <= tries[j] /\ (r.state = "dead" => ends \/ tries[j] = MaxAttempts)
  BY <1>2, <1>5, <1>6, <1>7
<1> QED BY <1>1, <1>2, <1>3, <1>6, <1>8 DEF r, ends

LEMMA RecordJobInv ==
  ASSUME QueueInv, NEW w \in Workers, RecordJob(w)
  PROVE  QueueInv'
<1> DEFINE j == worker[w].job
<1> DEFINE d == DocOf(w)
<1> DEFINE r == AfterAttempt(job[j], worker[w].claimed, EndsJob(doc[d], worker[w].failure))
<1>1. /\ j \in Jobs /\ d \in Docs /\ job[j].state # "free" /\ job' = [job EXCEPT ![j] = r]
      /\ r \in JobRows /\ r.of = job[j].of /\ r.state \in {"queued", "dead"}
      /\ r.state = "queued" => r.attempts < MaxAttempts
      /\ r.attempts <= tries[j]
      /\ worker' = [worker EXCEPT ![w] = Idle]
      /\ UNCHANGED <<browser, blamed, tries, mishaps>>
  BY RecordJobWrites
<1>2. doc' \in [Docs -> Documents]
  BY RecordJobWrites DEF QueueInv, TypeOK
<1> HIDE DEF j, d, r
<1>3. /\ job' \in [Jobs -> JobRows] /\ JobsInv'
      /\ \A i \in Jobs : job[i].state # "free" => job'[i].state # "free"
  BY <1>1, JobWritten
<1>4. worker' \in [Workers -> WorkerStates] /\ WorkersInv'
  BY <1>1, <1>3, WorkerRests
<1> QED BY <1>1, <1>2, <1>3, <1>4 DEF QueueInv, TypeOK

LEMMA CrashInv ==
  ASSUME QueueInv, NEW w \in Workers, Crash(w)
  PROVE  QueueInv'
<1>1. worker' \in [Workers -> WorkerStates] /\ WorkersInv'
  BY WorkerRests DEF Crash, QueueInv, TypeOK
<1> QED BY <1>1 DEF Crash, QueueInv, TypeOK, JobsInv, Queued

\* A step that leaves jobs and workers alone keeps what is said of them.
LEMMA QueueUntouched ==
  ASSUME QueueInv, UNCHANGED <<job, worker, tries>>, TypeOK'
  PROVE  QueueInv'
BY DEF QueueInv, JobsInv, Queued, WorkersInv

LEMMA BrowserInv ==
  ASSUME QueueInv, BrowserLists \/ BrowserRefreshes \/ BrowserStops
  PROVE  QueueInv'
<1>1. UNCHANGED <<doc, job, worker, blamed, tries, mishaps>>
  BY DEF BrowserLists, BrowserRefreshes, BrowserStops
<1>2. browser' \in BrowserStates
  <2>1. CASE BrowserLists
    BY <2>1 DEF BrowserLists, BrowserStates
  <2>2. CASE BrowserRefreshes
    <3>1. browser.of \in Docs /\ doc[browser.of] \in Documents
      BY <2>2, BrowserKinds DEF BrowserRefreshes, QueueInv, TypeOK
    <3> QED BY <2>2, <3>1 DEF BrowserRefreshes, BrowserStates
  <2>3. CASE BrowserStops
    BY <2>3 DEF BrowserStops, BrowserStates
  <2> QED BY <2>1, <2>2, <2>3
<1> QED BY <1>1, <1>2, QueueUntouched DEF QueueInv, TypeOK

LEMMA BrowserFetchesInv ==
  ASSUME QueueInv, BrowserFetches
  PROVE  QueueInv'
<1>1. browser.of \in Docs /\ browser.copy \in Documents /\ doc[browser.of] \in Documents
  BY BrowserKinds DEF BrowserFetches, QueueInv, TypeOK
<1>2. PICK text \in BOOLEAN :
          doc' = [doc EXCEPT ![browser.of] =
                     Changed(@, browser.copy, Extracted(browser.copy, text))]
  BY DEF BrowserFetches
<1>3. Changed(doc[browser.of], browser.copy, Extracted(browser.copy, text)) \in Documents
  BY <1>1, ChangedRow, ExtractedRow
<1>4. doc' \in [Docs -> Documents] /\ browser' \in BrowserStates
  BY <1>1, <1>2, <1>3 DEF BrowserFetches, QueueInv, TypeOK, BrowserStates
<1> QED BY <1>4, QueueUntouched DEF BrowserFetches, QueueInv, TypeOK

BrowserFailure == [status |-> "fetch_error", charge |-> TRUE, terminal |-> FALSE]

\* What BrowserCharges writes: a row whose count is one more than the copy's at
\* most, or as it was.
LEMMA BrowserChargesWrites ==
  ASSUME QueueInv, BrowserCharges
  PROVE  /\ browser.of \in Docs /\ browser.copy \in Documents
         /\ \E r \in Documents :
               /\ doc' = [doc EXCEPT ![browser.of] = r]
               /\ r.attempts <= browser.copy.attempts + 1
                     \/ r.attempts = doc[browser.of].attempts
<1> DEFINE new == AfterFailure(browser.copy, BrowserFailure)
<1> DEFINE written == Changed(doc[browser.of], browser.copy, new)
<1> DEFINE r == IF new.status = "permanently_failed" THEN [written EXCEPT !.status = new.status]
                                                     ELSE written
<1>1. browser.of \in Docs /\ browser.copy \in Documents /\ doc[browser.of] \in Documents
  BY BrowserKinds DEF BrowserCharges, QueueInv, TypeOK
<1>2. doc' = [doc EXCEPT ![browser.of] = r]
  BY DEF BrowserCharges, BrowserFailure
<1>3. BrowserFailure \in Failures /\ Charged(BrowserFailure)
  BY DEF BrowserFailure, Failures, Statuses, Charged, Terminal
<1>4. new \in Documents /\ new.attempts <= browser.copy.attempts + 1
  BY <1>1, <1>3, AfterFailureRow
<1> HIDE DEF new
<1>5. /\ written \in Documents
      /\ written.attempts \in {new.attempts, doc[browser.of].attempts}
  BY <1>1, <1>4, ChangedRow
<1> HIDE DEF written
<1>6. r \in Documents /\ r.attempts = written.attempts
  BY <1>4, <1>5 DEF Documents
<1> QED BY <1>1, <1>2, <1>4, <1>5, <1>6

LEMMA BrowserChargesInv ==
  ASSUME QueueInv, BrowserCharges
  PROVE  QueueInv'
<1>1. browser.of \in Docs /\ doc' \in [Docs -> Documents]
  BY BrowserChargesWrites DEF QueueInv, TypeOK
<1>2. blamed' \in [Docs -> 0..MaxFetchAttempts]
  BY <1>1, BlamedRow DEF BrowserCharges
<1> QED BY <1>1, <1>2, QueueUntouched DEF BrowserCharges, QueueInv, TypeOK, BrowserStates

LEMMA ResetRow ==
  ASSUME NEW q \in Documents, NEW st \in Statuses
  PROVE  /\ [[q EXCEPT !.attempts = 0] EXCEPT !.status = st] \in Documents
         /\ [[q EXCEPT !.attempts = 0] EXCEPT !.status = st].attempts = 0
<1> DEFINE a == [q EXCEPT !.attempts = 0]
<1>1. a \in Documents /\ a.attempts = 0
  BY DEF Documents
<1> HIDE DEF a
<1>2. [a EXCEPT !.status = st] \in Documents /\ [a EXCEPT !.status = st].attempts = 0
  BY <1>1 DEF Documents
<1> QED BY <1>2 DEF a

\* What Reset writes.
LEMMA ResetWrites ==
  ASSUME QueueInv, NEW d \in Docs, Reset(d)
  PROVE  \E r \in Documents : doc' = [doc EXCEPT ![d] = r] /\ r.attempts = 0
<1> DEFINE st == IF doc[d].status \in {"permanently_failed", "worker_error"}
                 THEN "none" ELSE doc[d].status
<1> DEFINE r == [[doc[d] EXCEPT !.attempts = 0] EXCEPT !.status = st]
<1>1. doc[d] \in Documents /\ st \in Statuses
  BY DEF QueueInv, TypeOK, Documents, Statuses
<1>2. doc' = [doc EXCEPT ![d] = r]
  BY <1>1 DEF Reset, QueueInv, TypeOK
<1>3. r \in Documents /\ r.attempts = 0
  BY <1>1, ResetRow
<1> QED BY <1>2, <1>3

LEMMA ResetInv ==
  ASSUME QueueInv, NEW d \in Docs, Reset(d)
  PROVE  QueueInv'
<1>1. doc' \in [Docs -> Documents]
  BY ResetWrites DEF QueueInv, TypeOK
<1>2. mishaps' \in 0..MaxMishaps
  BY DEF Reset, QueueInv, TypeOK
<1> QED BY <1>1, <1>2, QueueUntouched DEF Reset, QueueInv, TypeOK

LEMMA BackoffElapsesInv ==
  ASSUME QueueInv, NEW j \in Jobs, BackoffElapses(j)
  PROVE  QueueInv'
<1> DEFINE r == [job[j] EXCEPT !.due = TRUE]
<1>1. /\ job[j] \in JobRows /\ job[j].state = "queued" /\ job' = [job EXCEPT ![j] = r]
      /\ UNCHANGED <<doc, worker, browser, blamed, tries, mishaps>>
  BY DEF BackoffElapses, Queued, QueueInv, TypeOK
<1>2. /\ r \in JobRows /\ r.of = job[j].of /\ r.state = "queued"
      /\ r.attempts = job[j].attempts
  BY <1>1 DEF JobRows
<1>3. r.attempts < MaxAttempts /\ r.attempts <= tries[j]
  BY <1>1, <1>2 DEF QueueInv, JobsInv, Queued
<1> HIDE DEF r
<1>4. /\ job' \in [Jobs -> JobRows] /\ JobsInv'
      /\ \A i \in Jobs : job[i].state # "free" => job'[i].state # "free"
  BY <1>1, <1>2, <1>3, JobWritten
<1>5. WorkersInv'
  BY <1>1, <1>4, DocOfIsDoc DEF QueueInv, WorkersInv, Holds
<1> QED BY <1>1, <1>4, <1>5 DEF QueueInv, TypeOK

-----------------------------------------------------------------------------
LEMMA NextQueueInv == QueueInv /\ [Next]_vars => QueueInv'
<1> SUFFICES ASSUME QueueInv, [Next]_vars PROVE QueueInv'
  OBVIOUS
<1>1. ASSUME NEW w \in Workers, NEW j \in Jobs, Claim(w, j) PROVE QueueInv'
  BY <1>1, ClaimInv
<1>2. ASSUME NEW w \in Workers, WorkerStep(w) PROVE QueueInv'
  BY <1>2, TopupReadsInv, TopupInsertsInv, CompleteInv, FetchFailsInv, DeadlockInv,
     RecordDocumentInv, RecordJobInv DEF WorkerStep
<1>3. ASSUME NEW w \in Workers, Outage(w) \/ Crash(w) PROVE QueueInv'
  BY <1>3, OutageInv, CrashInv
<1>4. CASE BrowserLists \/ BrowserRefreshes \/ BrowserFetches \/ BrowserCharges \/ BrowserStops
  BY <1>4, BrowserInv, BrowserFetchesInv, BrowserChargesInv
<1>5. ASSUME NEW d \in Docs, Reset(d) PROVE QueueInv'
  BY <1>5, ResetInv
<1>6. ASSUME NEW j \in Jobs, BackoffElapses(j) PROVE QueueInv'
  BY <1>6, BackoffElapsesInv
<1>7. CASE UNCHANGED vars
  BY <1>7 DEF vars, QueueInv, TypeOK, JobsInv, Queued, WorkersInv
<1> QED BY <1>1, <1>2, <1>3, <1>4, <1>5, <1>6, <1>7 DEF Next

THEOREM QueueInvariant == Spec => []QueueInv
<1>1. Init => QueueInv
  BY InitQueueInv
<1>2. QueueInv /\ [Next]_vars => QueueInv'
  BY NextQueueInv
<1> QED BY <1>1, <1>2, PTL DEF Spec

\* FetchQueue is type correct for any sets of documents, jobs and workers and any
\* caps: among others, a claim always has an attempt left to count.
THEOREM FetchTypeCorrect == Spec => []TypeOK
<1>1. QueueInv => TypeOK
  BY DEF QueueInv
<1> QED BY <1>1, QueueInvariant, PTL

-----------------------------------------------------------------------------
(* Dead letters.                                                           *)

\* A failure that ends its job leaves a verdict on the document.
LEMMA EndingIsVerdict ==
  ASSUME NEW d \in Documents, NEW failure \in OwnFailures \cup {WorkerError},
         EndsJob(d, failure)
  PROVE  AfterFailure(d, failure).status \in Terminal
<1>1. CASE failure.terminal
  <2>1. failure.status \in Terminal
    BY <1>1 DEF OwnFailures, WorkerError, Terminal
  <2> QED BY <2>1 DEF AfterFailure, Charged, Documents
<1>2. CASE ~failure.terminal
  BY <1>2 DEF EndsJob, Terminal
<1> QED BY <1>1, <1>2

LEMMA StepDeadIsEarned ==
  ASSUME QueueInv, [Next]_vars, NEW j \in Jobs, job[j].state # "dead", job'[j].state = "dead"
  PROVE  tries[j] = MaxAttempts \/ doc'[job[j].of].status \in Terminal
<1>1. ASSUME NEW w \in Workers, RecordJob(w)
      PROVE  tries[j] = MaxAttempts \/ doc'[job[j].of].status \in Terminal
  <2> DEFINE i == worker[w].job
  <2> DEFINE d == DocOf(w)
  <2> DEFINE failure == worker[w].failure
  <2> DEFINE r == AfterAttempt(job[i], worker[w].claimed, EndsJob(doc[d], failure))
  <2>1. /\ i \in Jobs /\ d \in Docs /\ failure \in OwnFailures \cup {WorkerError}
        /\ job' = [job EXCEPT ![i] = r]
        /\ doc' = [doc EXCEPT ![d] = AfterFailure(doc[d], failure)]
        /\ r.state = "dead" => EndsJob(doc[d], failure) \/ tries[i] = MaxAttempts
    BY <1>1, RecordJobWrites
  <2>2. i = j /\ r.state = "dead" /\ job[j].of = d
    <3> HIDE DEF r
    <3> QED BY <2>1 DEF QueueInv, TypeOK, DocOf
  <2>3. CASE EndsJob(doc[d], failure)
    <3>1. AfterFailure(doc[d], failure).status \in Terminal
      BY <2>1, <2>3, EndingIsVerdict DEF QueueInv, TypeOK
    <3> QED BY <2>1, <2>2, <3>1 DEF QueueInv, TypeOK
  <2> QED BY <2>1, <2>2, <2>3
<1>2. ASSUME NEW w \in Workers, Complete(w) PROVE job'[j].state # "dead"
  <2>1. job' = [job EXCEPT ![worker[w].job] = Ended(job[worker[w].job], "done")]
    BY <1>2 DEF Complete
  <2>2. job'[j] = job[j] \/ job'[j] = Ended(job[j], "done")
    BY <2>1 DEF QueueInv, TypeOK
  <2> QED BY <2>2 DEF Ended
<1>3. ASSUME NEW w \in Workers, TopupInserts(w) PROVE job'[j].state # "dead"
  <2>1. job'[j] = job[j] \/ job'[j].state = "queued"
    BY <1>3 DEF TopupInserts
  <2> QED BY <2>1
<1>4. ASSUME NEW i \in Jobs, BackoffElapses(i) PROVE job'[j].state # "dead"
  <2>1. job'[j] = job[j] \/ (i = j /\ job[j].state = "queued")
    BY <1>4 DEF BackoffElapses, QueueInv, TypeOK, Queued
  <2>2. CASE i = j /\ job[j].state = "queued"
    <3>1. job'[j] = [job[j] EXCEPT !.due = TRUE] /\ job[j] \in JobRows
      BY <1>4, <2>2 DEF BackoffElapses, QueueInv, TypeOK
    <3> QED BY <2>2, <3>1 DEF JobRows
  <2> QED BY <2>1, <2>2
<1>5. CASE job' = job
  BY <1>5
<1> QED
  BY <1>1, <1>2, <1>3, <1>4, <1>5
  DEF Next, WorkerStep, vars, TopupReads, Claim, FetchFails, Deadlock, RecordDocument, Outage,
      Crash, BrowserLists, BrowserRefreshes, BrowserFetches, BrowserCharges, BrowserStops, Reset

\* A job is dead-lettered for a verdict on its document or after MaxAttempts claims,
\* however many workers record failures of it and in whatever order
\* (record_job_failure).
THEOREM DeadLettersAreEarned == Spec => DeadIsEarned
<1>1. QueueInv /\ [Next]_vars =>
          [\A j \in Jobs :
              job[j].state # "dead" /\ job'[j].state = "dead"
                  => tries[j] = MaxAttempts \/ doc'[job[j].of].status \in Terminal]_vars
  BY StepDeadIsEarned
<1> QED BY <1>1, QueueInvariant, PTL DEF Spec, DeadIsEarned

-----------------------------------------------------------------------------
(* Charges.                                                                *)

\* A worker in state s is going to charge d.
Owes(s, jobs, d) ==
    s.pc \in {"failed", "recording"} /\ Charged(s.failure) /\ jobs[s.job].of = d

Owing(d) == {w \in Workers : Owes(worker[w], job, d)}

\* b failures account for a count of n and for the charges of S to come.
Covers(b, n, S) == b = MaxFetchAttempts \/ n + Cardinality(S) <= b

\* No document's count, and no count the browser goes on from, is more than its
\* own failures, the charges still to be recorded included.
ChargesInv ==
    /\ \A d \in Docs : Covers(blamed[d], doc[d].attempts, Owing(d))
    /\ browser.pc = "fetching" =>
           Covers(blamed[browser.of], browser.copy.attempts, Owing(browser.of))

LEMMA OwingIsFinite ==
  ASSUME NEW d
  PROVE  IsFiniteSet(Owing(d)) /\ Cardinality(Owing(d)) \in Nat
         /\ IsFiniteSet(Owing(d)') /\ Cardinality(Owing(d)') \in Nat
<1>1. Owing(d) \subseteq Workers /\ Owing(d)' \subseteq Workers
  BY DEF Owing
<1> QED BY <1>1, FS_Subset, FS_CardinalityType

LEMMA CoversLess ==
  ASSUME NEW S, IsFiniteSet(S), NEW T \in SUBSET S, NEW m \in Nat, NEW n \in Nat, n <= m,
         NEW b \in 0..MaxFetchAttempts, NEW c \in 0..MaxFetchAttempts, b <= c, Covers(b, m, S)
  PROVE  Covers(c, n, T)
<1>1. Cardinality(T) <= Cardinality(S) /\ Cardinality(S) \in Nat /\ Cardinality(T) \in Nat
  BY FS_Subset, FS_CardinalityType
<1> QED BY <1>1 DEF Covers

\* One worker moves to s, the others' jobs keep their documents.
LEMMA OwingMoves ==
  ASSUME QueueInv, NEW w \in Workers, NEW s, worker' = [worker EXCEPT ![w] = s],
         \A v \in Workers : RefersToJob(worker[v]) =>
             job'[worker[v].job].of = job[worker[v].job].of,
         NEW d
  PROVE  /\ \A v \in Workers \ {w} : v \in Owing(d)' <=> v \in Owing(d)
         /\ w \in Owing(d)' <=> Owes(s, job', d)
         /\ Owing(d) \subseteq Workers /\ Owing(d)' \subseteq Workers
<1>1. \A v \in Workers : worker'[v] = IF v = w THEN s ELSE worker[v]
  BY DEF QueueInv, TypeOK
<1>2. \A v \in Workers \ {w} : Owes(worker[v], job', d) <=> Owes(worker[v], job, d)
  BY DEF Owes, RefersToJob
<1> QED BY <1>1, <1>2 DEF Owing

\* A step that charges nobody and adds no debt.
LEMMA NoNewCharge ==
  ASSUME QueueInv, QueueInv', ChargesInv, browser' = browser \/ browser'.pc # "fetching",
         \A d \in Docs : /\ Owing(d)' \subseteq Owing(d)
                         /\ blamed[d] <= blamed'[d]
                         /\ doc'[d].attempts <= doc[d].attempts
  PROVE  ChargesInv'
<1>1. \A d \in Docs : /\ doc[d].attempts \in Nat /\ doc'[d].attempts \in Nat
                      /\ blamed[d] \in 0..MaxFetchAttempts /\ blamed'[d] \in 0..MaxFetchAttempts
  BY DEF QueueInv, TypeOK, Documents
<1>2. \A d \in Docs : Covers(blamed'[d], doc'[d].attempts, Owing(d)')
  BY <1>1, OwingIsFinite, CoversLess DEF ChargesInv
<1>3. ASSUME browser' = browser, browser.pc = "fetching"
      PROVE  Covers(blamed'[browser.of], browser.copy.attempts, Owing(browser.of)')
  <2>1. browser.of \in Docs /\ browser.copy.attempts \in Nat
    BY <1>3, BrowserKinds DEF QueueInv, TypeOK, Documents
  <2> QED BY <1>1, <1>3, <2>1, OwingIsFinite, CoversLess DEF ChargesInv
<1> QED BY <1>2, <1>3 DEF ChargesInv

-----------------------------------------------------------------------------
(* Its steps.  QueueInv holds after each of them, by NextQueueInv.         *)

\* One worker moves to a state in which it owes nothing it did not owe.
LEMMA WorkerOwesNoMore ==
  ASSUME QueueInv, QueueInv', ChargesInv, NEW w \in Workers, NEW s,
         worker' = [worker EXCEPT ![w] = s],
         \A v \in Workers : RefersToJob(worker[v]) =>
             job'[worker[v].job].of = job[worker[v].job].of,
         \A d \in Docs : Owes(s, job', d) => w \in Owing(d),
         UNCHANGED <<browser, blamed>>,
         \A d \in Docs : doc'[d].attempts <= doc[d].attempts
  PROVE  ChargesInv'
<1>1. \A d \in Docs : Owing(d)' \subseteq Owing(d)
  BY OwingMoves
<1>2. \A d \in Docs : blamed[d] <= blamed'[d]
  BY DEF QueueInv, TypeOK
<1> QED BY <1>1, <1>2, NoNewCharge

LEMMA SameCounts ==
  ASSUME QueueInv, doc' = doc
  PROVE  \A d \in Docs : doc'[d].attempts <= doc[d].attempts
BY DEF QueueInv, TypeOK, Documents

LEMMA TopupReadsCharges ==
  ASSUME QueueInv, QueueInv', ChargesInv, NEW w \in Workers, TopupReads(w)
  PROVE  ChargesInv'
<1> DEFINE s == [pc |-> "topup", found |-> {d \in Docs : Pending(d)}]
<1>1. worker' = [worker EXCEPT ![w] = s] /\ UNCHANGED <<doc, job, browser, blamed>> /\ s.pc = "topup"
  BY DEF TopupReads
<1>2. \A d \in Docs : ~Owes(s, job', d)
  BY <1>1 DEF Owes
<1> HIDE DEF s
<1> QED BY <1>1, <1>2, SameCounts, WorkerOwesNoMore

LEMMA TopupInsertsCharges ==
  ASSUME QueueInv, QueueInv', ChargesInv, NEW w \in Workers, TopupInserts(w)
  PROVE  ChargesInv'
<1>1. /\ worker' = [worker EXCEPT ![w] = Idle] /\ UNCHANGED <<doc, browser, blamed>>
      /\ Idle.pc = "idle"
  BY DEF TopupInserts, Idle
<1>2. ASSUME NEW v \in Workers, RefersToJob(worker[v])
      PROVE  job'[worker[v].job] = job[worker[v].job]
  <2>1. worker[v].job \in Jobs /\ ~Spare(worker[v].job)
    BY <1>2, DocOfIsDoc DEF Spare, RefersToJob
  <2>2. PICK at \in Injection(worker[w].found, {j \in Jobs : Spare(j)}) :
            LET inserted == {at[d] : d \in worker[w].found}
                for(j) == CHOOSE d \in worker[w].found : at[d] = j IN
            job' = [j \in Jobs |-> IF j \notin inserted THEN job[j] ELSE
                   [state |-> "queued", of |-> for(j), attempts |-> 0, due |-> TRUE]]
    BY DEF TopupInserts
  <2>3. worker[v].job \notin {at[d] : d \in worker[w].found}
    BY <2>1 DEF Injection
  <2> QED BY <2>1, <2>2, <2>3
<1>3. \A d \in Docs : ~Owes(Idle, job', d)
  BY DEF Owes, Idle
<1> QED BY <1>1, <1>2, <1>3, SameCounts, WorkerOwesNoMore

LEMMA ClaimCharges ==
  ASSUME QueueInv, QueueInv', ChargesInv, NEW w \in Workers, NEW j \in Jobs, Claim(w, j)
  PROVE  ChargesInv'
<1> DEFINE s == [pc |-> "running", job |-> j, claimed |-> ClaimedAttempts(j),
                 copy |-> doc[job[j].of]]
<1>1. /\ worker' = [worker EXCEPT ![w] = s] /\ UNCHANGED <<doc, job, browser, blamed>>
      /\ s.pc = "running"
  BY DEF Claim
<1>2. \A d \in Docs : ~Owes(s, job', d)
  BY <1>1 DEF Owes
<1> HIDE DEF s
<1> QED BY <1>1, <1>2, SameCounts, WorkerOwesNoMore

\* What a fetch that ended in bytes writes never raises a count.
LEMMA ExtractedCounts ==
  ASSUME NEW current \in Documents, NEW copy \in Documents, NEW text \in BOOLEAN
  PROVE  Changed(current, copy, Extracted(copy, text)).attempts <= current.attempts
<1>1. /\ Extracted(copy, text) \in Documents
      /\ Extracted(copy, text).attempts \in {0, copy.attempts}
  BY ExtractedRow
<1>2. Changed(current, copy, Extracted(copy, text)).attempts
          = IF Extracted(copy, text).attempts # copy.attempts
            THEN Extracted(copy, text).attempts ELSE current.attempts
  BY <1>1, ChangedRow
<1>3. current.attempts \in Nat
  BY DEF Documents
<1> QED BY <1>1, <1>2, <1>3

LEMMA CompleteCharges ==
  ASSUME QueueInv, QueueInv', ChargesInv, NEW w \in Workers, Complete(w)
  PROVE  ChargesInv'
<1>1. /\ worker[w].pc = "running" /\ worker' = [worker EXCEPT ![w] = Idle]
      /\ UNCHANGED <<browser, blamed>> /\ Idle.pc = "idle"
      /\ job' = [job EXCEPT ![worker[w].job] = Ended(@, "done")]
  BY DEF Complete, Idle
<1>2. \A v \in Workers : RefersToJob(worker[v]) =>
          job'[worker[v].job].of = job[worker[v].job].of
  <2>1. \A i \in Jobs : job'[i].of = job[i].of
    BY <1>1 DEF QueueInv, TypeOK, Ended
  <2> QED BY <2>1, DocOfIsDoc
<1>3. \A d \in Docs : doc'[d].attempts <= doc[d].attempts
  <2>1. PICK text \in BOOLEAN :
            doc' = [doc EXCEPT ![DocOf(w)] =
                       Changed(@, worker[w].copy, Extracted(worker[w].copy, text))]
    BY DEF Complete
  <2>2. DocOf(w) \in Docs /\ worker[w].copy \in Documents
    BY <1>1, DocOfIsDoc, WorkerKinds DEF RefersToJob, QueueInv, TypeOK
  <2>3. \A d \in Docs : doc[d] \in Documents /\ doc[d].attempts <= doc[d].attempts
    BY DEF QueueInv, TypeOK, Documents
  <2> QED BY <2>1, <2>2, <2>3, ExtractedCounts DEF QueueInv, TypeOK
<1>4. \A d \in Docs : ~Owes(Idle, job', d)
  BY DEF Owes, Idle
<1> QED BY <1>1, <1>2, <1>3, <1>4, WorkerOwesNoMore

\* An outage and a deadlock leave a failure that charges nobody.
LEMMA RollBackCharges ==
  ASSUME QueueInv, QueueInv', ChargesInv, NEW w \in Workers, RollBack(w, WorkerError),
         UNCHANGED <<doc, job, browser, blamed>>
  PROVE  ChargesInv'
<1> DEFINE s == [pc |-> "failed", job |-> worker[w].job, claimed |-> worker[w].claimed,
                 failure |-> WorkerError]
<1>1. worker' = [worker EXCEPT ![w] = s]
  BY DEF RollBack
<1>2. \A d \in Docs : ~Owes(s, job', d)
  BY DEF Owes, Charged, WorkerError
<1> HIDE DEF s
<1> QED BY <1>1, <1>2, SameCounts, WorkerOwesNoMore

LEMMA RecordDocumentCharges ==
  ASSUME QueueInv, QueueInv', ChargesInv, NEW w \in Workers, RecordDocument(w)
  PROVE  ChargesInv'
<1> DEFINE s == [worker[w] EXCEPT !.pc = "recording"]
<1>1. /\ worker[w].pc = "failed" /\ worker' = [worker EXCEPT ![w] = s]
      /\ UNCHANGED <<doc, job, browser, blamed>>
  BY DEF RecordDocument
<1>2. s.failure = worker[w].failure /\ s.job = worker[w].job
  <2>1. worker[w] \in [pc : {"failed", "recording"}, job : Jobs, claimed : 1..MaxAttempts,
                       failure : Failures]
    BY <1>1 DEF QueueInv, TypeOK, WorkerStates, Idle
  <2> QED BY <2>1
<1>3. \A d \in Docs : Owes(s, job', d) => w \in Owing(d)
  BY <1>1, <1>2 DEF Owes, Owing
<1> HIDE DEF s
<1> QED BY <1>1, <1>3, SameCounts, WorkerOwesNoMore

LEMMA CrashCharges ==
  ASSUME QueueInv, QueueInv', ChargesInv, NEW w \in Workers, Crash(w)
  PROVE  ChargesInv'
<1>1. /\ worker' = [worker EXCEPT ![w] = Idle] /\ UNCHANGED <<doc, job, browser, blamed>>
      /\ Idle.pc = "idle"
  BY DEF Crash, Idle
<1>2. \A d \in Docs : ~Owes(Idle, job', d)
  BY DEF Owes, Idle
<1> QED BY <1>1, <1>2, SameCounts, WorkerOwesNoMore

\* A failure of the document's own: one more to account for it with.
LEMMA FetchFailsCharges ==
  ASSUME QueueInv, QueueInv', ChargesInv, NEW w \in Workers, FetchFails(w)
  PROVE  ChargesInv'
<1>1. PICK failure \in OwnFailures : RollBack(w, failure)
  BY DEF FetchFails
<1> DEFINE s == [pc |-> "failed", job |-> worker[w].job, claimed |-> worker[w].claimed,
                 failure |-> failure]
<1>2. /\ worker[w].pc = "running" /\ worker' = [worker EXCEPT ![w] = s]
      /\ UNCHANGED <<doc, job, browser>>
      /\ blamed' = [blamed EXCEPT ![DocOf(w)] = Min({@ + 1, MaxFetchAttempts})]
  BY <1>1 DEF FetchFails, RollBack
<1>3. PICK e \in Docs : e = DocOf(w)
  BY <1>2, DocOfIsDoc DEF RefersToJob
<1>4. /\ blamed'[e] = IF blamed[e] < MaxFetchAttempts THEN blamed[e] + 1 ELSE MaxFetchAttempts
      /\ \A d \in Docs \ {e} : blamed'[d] = blamed[d]
  BY <1>2, <1>3, BlamedRow
<1>5. \A d : Owes(s, job', d) => d = e
  BY <1>2, <1>3 DEF Owes, DocOf
<1> HIDE DEF s
<1>6. \A d \in Docs : d # e => Owing(d)' \subseteq Owing(d)
  BY <1>2, <1>5, OwingMoves
<1>7. Owing(e)' \subseteq Owing(e) \cup {w}
  BY <1>2, OwingMoves
<1>8. ASSUME NEW d \in Docs, NEW n \in Nat, Covers(blamed[d], n, Owing(d))
      PROVE  Covers(blamed'[d], n, Owing(d)')
  <2>1. blamed[d] \in 0..MaxFetchAttempts
    BY DEF QueueInv, TypeOK
  <2>2. CASE d # e
    <3>1. blamed'[d] = blamed[d] /\ Owing(d)' \subseteq Owing(d)
      BY <1>4, <1>6, <2>2
    <3> QED BY <1>8, <2>1, <3>1, OwingIsFinite, CoversLess
  <2>3. CASE d = e
    <3>1. Cardinality(Owing(e)') <= Cardinality(Owing(e)) + 1
      <4>1. /\ IsFiniteSet(Owing(e) \cup {w})
            /\ Cardinality(Owing(e) \cup {w}) <= Cardinality(Owing(e)) + 1
            /\ Cardinality(Owing(e) \cup {w}) \in Nat
        <5> DEFINE S == Owing(e)
        <5>1. IsFiniteSet(S) /\ Cardinality(S) \in Nat
          BY OwingIsFinite
        <5> HIDE DEF S
        <5>2. /\ IsFiniteSet(S \cup {w})
              /\ Cardinality(S \cup {w}) = IF w \in S THEN Cardinality(S) ELSE Cardinality(S) + 1
          BY <5>1, FS_AddElement
        <5> QED BY <5>1, <5>2 DEF S
      <4>2. Cardinality(Owing(e)') <= Cardinality(Owing(e) \cup {w})
        BY <1>7, <4>1, FS_Subset
      <4> QED BY <4>1, <4>2, OwingIsFinite
    <3>2. Cardinality(Owing(e)) \in Nat /\ Cardinality(Owing(e)') \in Nat
      BY OwingIsFinite
    <3> QED BY <1>4, <1>8, <2>1, <2>3, <3>1, <3>2 DEF Covers
  <2> QED BY <2>2, <2>3
<1>9. \A d \in Docs : doc[d].attempts \in Nat
  BY DEF QueueInv, TypeOK, Documents
<1>10. browser.pc = "fetching" => browser.of \in Docs /\ browser.copy.attempts \in Nat
  BY BrowserKinds DEF QueueInv, TypeOK, Documents
<1> QED BY <1>2, <1>8, <1>9, <1>10 DEF ChargesInv

\* The record of a charge: the debt becomes an attempt.
LEMMA RecordJobCharges ==
  ASSUME QueueInv, QueueInv', ChargesInv, NEW w \in Workers, RecordJob(w)
  PROVE  ChargesInv'
<1> DEFINE failure == worker[w].failure
<1>1. PICK e \in Docs : e = DocOf(w)
  BY RecordJobWrites
<1>2. /\ worker[w].pc = "recording" /\ failure \in Failures
      /\ doc' = [doc EXCEPT ![e] = AfterFailure(doc[e], failure)]
      /\ worker' = [worker EXCEPT ![w] = Idle]
      /\ UNCHANGED <<browser, blamed>>
  BY <1>1, RecordJobWrites
<1>3. \A i \in Jobs : job'[i].of = job[i].of
  BY RecordJobWrites DEF QueueInv, TypeOK
<1>4. \A d : Owing(d)' \subseteq Owing(d) \ {w}
  <2>1. \A v \in Workers : RefersToJob(worker[v]) =>
            job'[worker[v].job].of = job[worker[v].job].of
    BY <1>3, DocOfIsDoc
  <2>2. \A d : ~Owes(Idle, job', d)
    BY DEF Owes, Idle
  <2> QED BY <1>2, <2>1, <2>2, OwingMoves
<1>5. doc[e] \in Documents /\ blamed[e] \in 0..MaxFetchAttempts
  BY DEF QueueInv, TypeOK
<1>6. \A d \in Docs \ {e} : Covers(blamed'[d], doc'[d].attempts, Owing(d)')
  <2> SUFFICES ASSUME NEW d \in Docs \ {e}
               PROVE  Covers(blamed[d], doc[d].attempts, Owing(d)')
    BY <1>2 DEF QueueInv, TypeOK
  <2>1. blamed[d] \in 0..MaxFetchAttempts /\ doc[d].attempts \in Nat
    BY DEF QueueInv, TypeOK, Documents
  <2> QED BY <1>4, <2>1, OwingIsFinite, CoversLess DEF ChargesInv
<1>7. Covers(blamed'[e], doc'[e].attempts, Owing(e)')
  <2>1. doc'[e] = AfterFailure(doc[e], failure) /\ blamed'[e] = blamed[e]
    BY <1>2 DEF QueueInv, TypeOK
  <2>2. doc[e].attempts \in Nat /\ doc'[e].attempts \in Nat
    BY DEF QueueInv, TypeOK, Documents
  <2>3. CASE ~Charged(failure)
    <3>1. doc'[e].attempts = doc[e].attempts
      BY <1>2, <1>5, <2>1, <2>3, AfterFailureRow
    <3> QED BY <1>4, <1>5, <2>1, <2>2, <3>1, OwingIsFinite, CoversLess DEF ChargesInv
  <2>4. CASE Charged(failure)
    <3>1. doc'[e].attempts <= doc[e].attempts + 1
      BY <1>2, <1>5, <2>1, <2>4, AfterFailureRow
    <3>2. w \in Owing(e)
      BY <1>1, <1>2, <2>4 DEF Owing, Owes, DocOf
    <3>3. Cardinality(Owing(e)') + 1 <= Cardinality(Owing(e))
      <4> DEFINE S == Owing(e)
      <4> DEFINE T == Owing(e)'
      <4>1. IsFiniteSet(S) /\ Cardinality(S) \in Nat /\ Cardinality(T) \in Nat
        BY OwingIsFinite
      <4>2. T \subseteq S \ {w} /\ w \in S
        BY <1>4, <3>2
      <4> HIDE DEF S, T
      <4>3. IsFiniteSet(S \ {w}) /\ Cardinality(S \ {w}) = Cardinality(S) - 1
        BY <4>1, <4>2, FS_RemoveElement
      <4>4. Cardinality(T) <= Cardinality(S \ {w})
        BY <4>2, <4>3, FS_Subset
      <4>5. Cardinality(T) + 1 <= Cardinality(S)
        BY <4>1, <4>3, <4>4
      <4> QED BY <4>5 DEF S, T
    <3>4. Cardinality(Owing(e)) \in Nat /\ Cardinality(Owing(e)') \in Nat
      BY OwingIsFinite
    <3>5. Covers(blamed[e], doc[e].attempts, Owing(e))
      BY DEF ChargesInv
    <3> QED BY <1>5, <2>1, <2>2, <3>1, <3>3, <3>4, <3>5 DEF Covers
  <2> QED BY <2>3, <2>4
<1>8. browser'.pc = "fetching" =>
          Covers(blamed'[browser'.of], browser'.copy.attempts, Owing(browser.of)')
  <2> SUFFICES ASSUME browser.pc = "fetching"
               PROVE  Covers(blamed[browser.of], browser.copy.attempts, Owing(browser.of)')
    BY <1>2
  <2>1. PICK d \in Docs : d = browser.of
    BY BrowserKinds DEF QueueInv, TypeOK
  <2>2. browser.copy.attempts \in Nat /\ blamed[d] \in 0..MaxFetchAttempts
    BY BrowserKinds DEF QueueInv, TypeOK, Documents
  <2>3. Covers(blamed[d], browser.copy.attempts, Owing(d)')
    BY <1>4, <2>1, <2>2, OwingIsFinite, CoversLess DEF ChargesInv
  <2>4. Owing(browser.of)' = Owing(d)'
    BY <1>2, <2>1
  <2> QED BY <2>1, <2>3, <2>4
<1> QED BY <1>2, <1>6, <1>7, <1>8 DEF ChargesInv

-----------------------------------------------------------------------------
LEMMA OwingStays ==
  ASSUME UNCHANGED <<worker, job>>
  PROVE  \A d : Owing(d)' = Owing(d)
BY DEF Owing, Owes

\* The browser goes on from the row as it is.
LEMMA BrowserRefreshesCharges ==
  ASSUME QueueInv, QueueInv', ChargesInv, BrowserRefreshes
  PROVE  ChargesInv'
<1>1. UNCHANGED <<doc, job, worker, blamed>> /\ browser.of \in Docs
  BY BrowserKinds DEF BrowserRefreshes, QueueInv, TypeOK
<1>2. \A d : Owing(d)' = Owing(d)
  BY <1>1, OwingStays
<1>3. browser'.pc = "fetching" => browser'.of = browser.of /\ browser'.copy = doc[browser.of]
  BY DEF BrowserRefreshes, Idle
<1>4. browser'.pc = "fetching" =>
          Covers(blamed'[browser'.of], browser'.copy.attempts, Owing(browser.of)')
  <2> SUFFICES ASSUME browser'.pc = "fetching"
               PROVE  Covers(blamed'[browser'.of], browser'.copy.attempts, Owing(browser.of)')
    OBVIOUS
  <2>1. PICK d \in Docs : d = browser.of
    BY <1>1
  <2>2. Covers(blamed[d], doc[d].attempts, Owing(d))
    BY DEF ChargesInv
  <2>3. Owing(browser.of)' = Owing(d)'
    BY <1>3, <2>1
  <2> QED BY <1>1, <1>2, <1>3, <2>1, <2>2, <2>3
<1> QED BY <1>1, <1>2, <1>4 DEF ChargesInv

LEMMA BrowserFetchesCharges ==
  ASSUME QueueInv, QueueInv', ChargesInv, BrowserFetches
  PROVE  ChargesInv'
<1>1. UNCHANGED <<job, worker, blamed>> /\ browser'.pc # "fetching"
  BY DEF BrowserFetches, Idle
<1>2. \A d \in Docs : doc'[d].attempts <= doc[d].attempts
  <2>1. PICK text \in BOOLEAN :
            doc' = [doc EXCEPT ![browser.of] =
                       Changed(@, browser.copy, Extracted(browser.copy, text))]
    BY DEF BrowserFetches
  <2>2. browser.of \in Docs /\ browser.copy \in Documents
    BY BrowserKinds DEF BrowserFetches, QueueInv, TypeOK
  <2>3. \A d \in Docs : doc[d] \in Documents /\ doc[d].attempts <= doc[d].attempts
    BY DEF QueueInv, TypeOK, Documents
  <2> QED BY <2>1, <2>2, <2>3, ExtractedCounts DEF QueueInv, TypeOK
<1>3. \A d \in Docs : Owing(d)' \subseteq Owing(d) /\ blamed[d] <= blamed'[d]
  BY <1>1, OwingStays DEF QueueInv, TypeOK
<1> QED BY <1>1, <1>2, <1>3, NoNewCharge

\* The stale copy's count is covered, and so is one more with one failure more.
LEMMA BrowserChargesCharges ==
  ASSUME QueueInv, QueueInv', ChargesInv, BrowserCharges
  PROVE  ChargesInv'
<1>1. PICK e \in Docs : e = browser.of
  BY BrowserChargesWrites
<1>2. PICK r \in Documents :
          /\ doc' = [doc EXCEPT ![e] = r]
          /\ r.attempts <= browser.copy.attempts + 1 \/ r.attempts = doc[e].attempts
  BY <1>1, BrowserChargesWrites
<1>3. /\ UNCHANGED <<job, worker>> /\ browser.pc = "fetching" /\ browser'.pc # "fetching"
      /\ blamed' = [blamed EXCEPT ![e] = Min({@ + 1, MaxFetchAttempts})]
  BY <1>1 DEF BrowserCharges, Idle
<1>4. /\ blamed'[e] = IF blamed[e] < MaxFetchAttempts THEN blamed[e] + 1 ELSE MaxFetchAttempts
      /\ \A d \in Docs \ {e} : blamed'[d] = blamed[d]
  BY <1>3, BlamedRow
<1>5. \A d : Owing(d)' = Owing(d)
  BY <1>3, OwingStays
<1>6. \A d \in Docs \ {e} : Covers(blamed'[d], doc'[d].attempts, Owing(d)')
  BY <1>2, <1>4, <1>5 DEF ChargesInv, QueueInv, TypeOK
<1>7. Covers(blamed'[e], doc'[e].attempts, Owing(e)')
  <2>1. /\ Covers(blamed[e], doc[e].attempts, Owing(e))
        /\ Covers(blamed[e], browser.copy.attempts, Owing(e))
    BY <1>1, <1>3 DEF ChargesInv
  <2>2. /\ doc'[e] = r /\ blamed[e] \in 0..MaxFetchAttempts
        /\ r.attempts \in Nat /\ doc[e].attempts \in Nat
    BY <1>2 DEF QueueInv, TypeOK, Documents
  <2>3. browser.copy.attempts \in Nat /\ Cardinality(Owing(e)) \in Nat
    BY <1>3, BrowserKinds, OwingIsFinite DEF QueueInv, TypeOK, Documents
  <2>4. Covers(blamed'[e], r.attempts, Owing(e))
    BY <1>2, <1>4, <2>1, <2>2, <2>3 DEF Covers
  <2> QED BY <1>5, <2>2, <2>4
<1> QED BY <1>3, <1>6, <1>7 DEF ChargesInv

LEMMA ResetCharges ==
  ASSUME QueueInv, QueueInv', ChargesInv, NEW e \in Docs, Reset(e)
  PROVE  ChargesInv'
<1>1. UNCHANGED <<job, worker, browser, blamed>>
  BY DEF Reset
<1>2. \A d \in Docs : doc'[d].attempts <= doc[d].attempts
  <2>1. PICK r \in Documents : doc' = [doc EXCEPT ![e] = r] /\ r.attempts = 0
    BY ResetWrites
  <2>2. \A d \in Docs : doc[d].attempts \in Nat
    BY DEF QueueInv, TypeOK, Documents
  <2> QED BY <2>1, <2>2 DEF QueueInv, TypeOK
<1>3. \A d \in Docs : Owing(d)' \subseteq Owing(d) /\ blamed[d] <= blamed'[d]
  BY <1>1, OwingStays DEF QueueInv, TypeOK
<1> QED BY <1>1, <1>2, <1>3, NoNewCharge

\* A step that touches neither documents nor failures.
LEMMA OtherCharges ==
  ASSUME QueueInv, QueueInv', ChargesInv,
         BrowserLists \/ BrowserStops \/ (\E j \in Jobs : BackoffElapses(j)) \/ UNCHANGED vars
  PROVE  ChargesInv'
<1>1. UNCHANGED <<doc, worker, blamed>> /\ (browser' = browser \/ browser'.pc # "fetching")
  BY DEF BrowserLists, BrowserStops, BackoffElapses, vars, Idle
<1>2. \A i \in Jobs : job'[i].of = job[i].of
  <2>1. CASE job' = job
    BY <2>1
  <2>2. ASSUME NEW j \in Jobs, BackoffElapses(j) PROVE \A i \in Jobs : job'[i].of = job[i].of
    <3>1. job[j] \in JobRows /\ job' = [job EXCEPT ![j] = [job[j] EXCEPT !.due = TRUE]]
      BY <2>2 DEF BackoffElapses, QueueInv, TypeOK
    <3>2. [job[j] EXCEPT !.due = TRUE].of = job[j].of
      BY <3>1 DEF JobRows
    <3> QED BY <3>1, <3>2 DEF QueueInv, TypeOK
  <2> QED BY <2>1, <2>2 DEF BrowserLists, BrowserStops, vars
<1>3. \A d \in Docs : Owing(d)' \subseteq Owing(d)
  <2>1. \A w \in Workers : RefersToJob(worker[w]) => worker[w].job \in Jobs
    BY DocOfIsDoc
  <2> QED BY <1>1, <1>2, <2>1 DEF Owing, Owes, RefersToJob
<1>4. \A d \in Docs : doc'[d].attempts <= doc[d].attempts /\ blamed[d] <= blamed'[d]
  BY <1>1 DEF QueueInv, TypeOK, Documents
<1> QED BY <1>1, <1>3, <1>4, NoNewCharge

-----------------------------------------------------------------------------
LEMMA InitChargesInv == Init => ChargesInv
<1> SUFFICES ASSUME Init PROVE ChargesInv
  OBVIOUS
<1>1. \A d : Owing(d) = {}
  BY DEF Init, Owing, Owes, Idle
<1>2. \A d \in Docs : blamed[d] = 0 /\ doc[d].attempts = 0
  BY DEF Init
<1>3. \A d \in Docs : Covers(blamed[d], doc[d].attempts, Owing(d))
  <2>1. Covers(0, 0, {})
    BY FS_EmptySet DEF Covers
  <2> QED BY <1>1, <1>2, <2>1
<1> QED BY <1>3 DEF Init, ChargesInv, Idle

LEMMA NextChargesInv == QueueInv /\ ChargesInv /\ [Next]_vars => QueueInv' /\ ChargesInv'
<1> SUFFICES ASSUME QueueInv, ChargesInv, [Next]_vars PROVE QueueInv' /\ ChargesInv'
  OBVIOUS
<1>1. QueueInv'
  BY NextQueueInv
<1>2. ASSUME NEW w \in Workers, NEW j \in Jobs, Claim(w, j) PROVE ChargesInv'
  BY <1>1, <1>2, ClaimCharges
<1>3. ASSUME NEW w \in Workers, WorkerStep(w) PROVE ChargesInv'
  <2>1. ASSUME NEW v \in Workers, Deadlock(w, v) PROVE ChargesInv'
    BY <1>1, <2>1, RollBackCharges DEF Deadlock
  <2> QED BY <1>1, <1>3, <2>1, TopupReadsCharges, TopupInsertsCharges, CompleteCharges,
             FetchFailsCharges, RecordDocumentCharges, RecordJobCharges DEF WorkerStep
<1>4. ASSUME NEW w \in Workers, Outage(w) PROVE ChargesInv'
  BY <1>1, <1>4, RollBackCharges DEF Outage
<1>5. ASSUME NEW w \in Workers, Crash(w) PROVE ChargesInv'
  BY <1>1, <1>5, CrashCharges
<1>6. CASE BrowserRefreshes \/ BrowserFetches \/ BrowserCharges
  BY <1>1, <1>6, BrowserRefreshesCharges, BrowserFetchesCharges, BrowserChargesCharges
<1>7. ASSUME NEW d \in Docs, Reset(d) PROVE ChargesInv'
  BY <1>1, <1>7, ResetCharges
<1>8. CASE BrowserLists \/ BrowserStops \/ (\E j \in Jobs : BackoffElapses(j)) \/ UNCHANGED vars
  BY <1>1, <1>8, OtherCharges
<1> QED BY <1>1, <1>2, <1>3, <1>4, <1>5, <1>6, <1>7, <1>8 DEF Next

\* A document's retry budget is spent by failures of its own only, for any number of
\* workers, jobs and documents, whatever crashes, deadlocks, outages and stale copies
\* of the browser come in between (classify_job_failure, record_job_failure,
\* _charge_fetch_error).
THEOREM ChargesAreEarned == Spec => []ChargesEarned
<1>1. Init => QueueInv /\ ChargesInv
  BY InitQueueInv, InitChargesInv
<1>2. QueueInv /\ ChargesInv /\ [Next]_vars => QueueInv' /\ ChargesInv'
  BY NextChargesInv
<1>3. QueueInv /\ ChargesInv => ChargesEarned
  <2> SUFFICES ASSUME QueueInv, ChargesInv, NEW d \in Docs PROVE doc[d].attempts <= blamed[d]
    BY DEF ChargesEarned
  <2>1. /\ doc[d].attempts \in 0..MaxFetchAttempts /\ blamed[d] \in 0..MaxFetchAttempts
        /\ Cardinality(Owing(d)) \in Nat
    BY OwingIsFinite DEF QueueInv, TypeOK, Documents
  <2> QED BY <2>1 DEF ChargesInv, Covers
<1> QED BY <1>1, <1>2, <1>3, PTL DEF Spec
=============================================================================
