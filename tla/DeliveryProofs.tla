---------------------------- MODULE DeliveryProofs ----------------------------
(***************************************************************************)
(* Proofs about WebhookDelivery, for any log, batch and body limits, any   *)
(* strike rules and any dispatchers: the cursor covers what the receiver   *)
(* acknowledged and never falls back, the owner hears of a verification    *)
(* and of the first disable, and a dispatcher that works alone disables    *)
(* for consecutive strikes only and repeats no change.                     *)
(***************************************************************************)
EXTENDS WebhookDelivery, FiniteSetTheorems, WellFoundedInduction, TLAPS

-----------------------------------------------------------------------------
(* The invariant.                                                          *)

Working(d) == worker[d].pc \in {"loop", "posted"}
CreatedNotices == {"created", "created_disabled"}
DisabledNotices == {"disabled", "created_disabled"}

TypeInv ==
    /\ TypeOK
    /\ worker = [d \in Dispatchers |-> worker[d]]
    /\ ~exists => row = NewRow

\* Up to seq everything deliverable was acknowledged or waived.
Covered(seq) == seq <= mark /\ \A s \in entries \cap Deliverable : s <= seq => s \in served

\* The row's cursor is covered, and so is the cursor that any worker goes on from;
\* the batch of a POST leaves out nothing deliverable on the way to its end.
CursorInv ==
    /\ exists => Covered(row.lastSeq)
    /\ \A d \in Dispatchers :
           /\ worker[d] # Idle => worker[d].window <= mark
           /\ exists /\ Working(d) => Covered(worker[d].copy.lastSeq)
           /\ worker[d].pc = "posted" =>
                  /\ worker[d].batch # {} /\ \A s \in worker[d].batch : s <= mark
                  /\ \A s \in entries \cap Deliverable :
                         worker[d].copy.lastSeq < s /\ s <= Max(worker[d].batch)
                             => s \in worker[d].batch

\* What the copies and the mailer know of the notices is not behind the row: who
\* has not seen the notice was told, and until the owner reactivates, a notice of
\* a disable means that the row is disabled.
NoticeInv ==
    /\ \A d \in Dispatchers : Working(d) => worker[d].copy.active /\ worker[d].copy.reason = "none"
    /\ exists =>
           /\ CreatedIsTold /\ FirstDisableIsTold
           /\ \A d \in Dispatchers : Working(d) =>
                  /\ toldCreated \/ worker[d].copy.notify \in CreatedNotices
                  /\ reactivated \/ worker[d].copy.notify \notin DisabledNotices
           /\ mail.phase = "sent" /\ mail.notice \in CreatedNotices => toldCreated
           /\ ~reactivated =>
                  /\ row.notify \in DisabledNotices => ~row.active
                  /\ mail.phase # "idle" /\ mail.notice \in DisabledNotices =>
                         ~row.active /\ (mail.phase = "sent" => toldDisabled)

\* A dispatcher that never shares the subscription holds the row as it is.
Alone == mishaps = 0 \/ \A d, e \in Dispatchers : d = e
Strikes(r) ==
    /\ r.error = "none" => r.streak = 0
    /\ r.error = "http_4xx" => r.streak <= hardRun \/ hardRun = HardStrikes
AloneInv ==
    /\ row.active <=> row.reason = "none"
    /\ mishaps = 0 => \A d \in Dispatchers : worker[d] # Idle => lock = d
    /\ Alone =>
           /\ HardStrikesConsecutive
           /\ exists =>
                  /\ Strikes(row)
                  /\ \A d \in Dispatchers : Working(d) =>
                         /\ row.active
                         /\ worker[d].copy.error = row.error
                         /\ worker[d].copy.streak = row.streak
                         /\ worker[d].copy.lastSeq = row.lastSeq

DeliveryInv == TypeInv /\ CursorInv /\ NoticeInv /\ AloneInv

-----------------------------------------------------------------------------
(* Numbers and sets of them.                                               *)

LEMMA MaxOfTwo ==
  ASSUME NEW a \in Int, NEW b \in Int
  PROVE  Max({a, b}) = IF a >= b THEN a ELSE b
BY DEF Max

LEMMA MinOfTwo ==
  ASSUME NEW a \in Int, NEW b \in Int
  PROVE  Min({a, b}) = IF a <= b THEN a ELSE b
BY DEF Min

\* A set of seqs has a largest and a least.
LEMMA MaxOfSeqs ==
  ASSUME NEW S, S \subseteq Seqs, S # {}
  PROVE  Max(S) \in S /\ \A s \in S : s <= Max(S)
<1> DEFINE Above == {n \in Nat : \A s \in S : s <= n}
<1>1. MaxSeq \in Above
  BY DeliveryAssumption DEF Seqs
<1>2. Above \subseteq Nat
  OBVIOUS
<1>3. PICK m \in Above : \A n \in Above : ~(<<n, m>> \in OpToRel(<, Nat))
  BY <1>1, <1>2, WFMin, NatLessThanWellFounded
<1>4. \A n \in Above : ~(n < m)
  BY <1>2, <1>3 DEF OpToRel
<1>5. m \in Nat /\ \A s \in S : s \in Nat /\ s <= m /\ s # 0
  BY DEF Seqs
<1>6. m \in S
  <2> SUFFICES ASSUME m \notin S
               PROVE  FALSE
    OBVIOUS
  <2>1. \A s \in S : s < m
    BY <1>5
  <2>2. m # 0
    BY <1>5, <2>1
  <2>3. m - 1 \in Above
    BY <1>5, <2>1, <2>2
  <2> QED BY <1>4, <1>5, <2>3
<1> QED BY <1>5, <1>6 DEF Max

LEMMA LeastOfSeqs ==
  ASSUME NEW S, S \subseteq Seqs, S # {}
  PROVE  \E m \in S : \A s \in S : m <= s
<1>1. S \subseteq Nat
  BY DEF Seqs
<1>2. PICK m \in S : \A t \in S : ~(<<t, m>> \in OpToRel(<, Nat))
  BY <1>1, WFMin, NatLessThanWellFounded
<1>3. \A t \in S : t \in Nat /\ ~(t < m)
  BY <1>1, <1>2 DEF OpToRel
<1>4. \A t \in S : m <= t
  BY <1>1, <1>3
<1> QED BY <1>4

\* The first n of S, if n is not 0, are some, and leave out nothing below.
LEMMA LowestAreFirst ==
  ASSUME NEW S, S \subseteq Seqs, NEW n \in Nat
  PROVE  /\ Lowest(n, S) \subseteq S
         /\ \A u \in Lowest(n, S), s \in S : s < u => s \in Lowest(n, S)
         /\ S # {} /\ n # 0 => Lowest(n, S) # {}
<1> DEFINE Below(x) == {t \in S : t < x}
<1>1. IsFiniteSet(S)
  <2>1. IsFiniteSet(1..MaxSeq)
    BY DeliveryAssumption, FS_Interval
  <2> QED BY <2>1, FS_Subset DEF Seqs
<1>2. \A x : IsFiniteSet(Below(x)) /\ Cardinality(Below(x)) \in Nat
  BY <1>1, FS_Subset, FS_CardinalityType
<1>3. ASSUME NEW u \in Lowest(n, S), NEW s \in S, s < u
      PROVE  s \in Lowest(n, S)
  <2>1. u \in S /\ Cardinality(Below(u)) < n
    BY DEF Lowest
  <2>2. Below(s) \subseteq Below(u)
    <3>1. s \in Int /\ u \in Int /\ \A t \in S : t \in Int
      BY <2>1 DEF Seqs
    <3>2. \A t \in S : t < s => t < u
      BY <1>3, <3>1
    <3> QED BY <3>2
  <2>3. Cardinality(Below(s)) <= Cardinality(Below(u))
    BY <1>2, <2>2, FS_Subset
  <2>4. Cardinality(Below(s)) < n
    BY <1>2, <2>1, <2>3
  <2> QED BY <2>4 DEF Lowest
<1>4. ASSUME S # {}, n # 0
      PROVE  Lowest(n, S) # {}
  <2>1. PICK m \in S : \A s \in S : m <= s
    BY <1>4, LeastOfSeqs
  <2>2. Below(m) = {}
    <3>1. m \in Int /\ \A t \in S : t \in Int
      BY DEF Seqs
    <3>2. \A t \in S : ~(t < m)
      BY <2>1, <3>1
    <3> QED BY <3>2
  <2>3. Cardinality(Below(m)) = 0
    BY <2>2, FS_EmptySet
  <2> QED BY <1>4, <2>3 DEF Lowest
<1> QED BY <1>3, <1>4 DEF Lowest

-----------------------------------------------------------------------------
(* What an outcome does to a row.                                          *)

\* An outcome leaves the row active and its notice alone, or it disables it.
Kept(r, new) == new.active = r.active /\ new.reason = r.reason /\ new.notify = r.notify
Ended(r, new) == ~new.active /\ new.reason # "none" /\ new.notify = DisabledNotice(r.notify)

LEMMA StreakBound ==
    /\ MaxStreak \in Nat /\ HardStrikes <= MaxStreak /\ SkipStrikes <= MaxStreak
    /\ 0 \in 0..MaxStreak
BY DeliveryAssumption, MaxOfTwo DEF MaxStreak

LEMMA NewRowIsRow == NewRow \in Rows
<1>1. 0 \in 0..MaxSeq /\ 0 \in 0..MaxStreak
  BY DeliveryAssumption, StreakBound
<1>2. "none" \in Reasons /\ "none" \in Errors /\ "created" \in Notices
  BY DEF Reasons, Errors, Notices
<1> QED BY <1>1, <1>2 DEF NewRow, Rows

LEMMA CountedRow ==
  ASSUME NEW r \in Rows, NEW class \in Errors \ {"none"}
  PROVE  /\ Counted(r, class) \in Rows
         /\ Kept(r, Counted(r, class))
         /\ Counted(r, class).lastSeq = r.lastSeq
         /\ Counted(r, class).error = class
         /\ class # "retryable" =>
                Counted(r, class).streak
                    = Min({(IF r.error \in {"none", class} THEN r.streak ELSE 0) + 1, MaxStreak})
<1> DEFINE streak == IF r.error \notin {"none", class} THEN 0 ELSE r.streak
<1>1. streak \in 0..MaxStreak /\ Min({streak + 1, MaxStreak}) \in 0..MaxStreak
  BY StreakBound, MinOfTwo DEF Rows
<1>2. Counted(r, class) = [r EXCEPT !.error = class,
                  !.streak = IF class = "retryable" THEN 0 ELSE Min({streak + 1, MaxStreak})]
  BY DEF Counted
<1> HIDE DEF streak
<1> DEFINE counted == IF class = "retryable" THEN 0 ELSE Min({streak + 1, MaxStreak})
<1>3. counted \in 0..MaxStreak
  BY <1>1, StreakBound
<1>4. class # "retryable" => counted = Min({streak + 1, MaxStreak})
  OBVIOUS
<1> HIDE DEF counted
<1>5. /\ Counted(r, class) \in Rows
      /\ Counted(r, class).error = class /\ Counted(r, class).lastSeq = r.lastSeq
      /\ Counted(r, class).streak = counted
  BY <1>2, <1>3 DEF Rows, counted
<1>6. Kept(r, Counted(r, class))
  BY <1>2 DEF Kept, Rows
<1>7. streak = IF r.error \in {"none", class} THEN r.streak ELSE 0
  BY DEF streak
<1> QED BY <1>4, <1>5, <1>6, <1>7

LEMMA FailureRow ==
  ASSUME NEW r \in Rows, NEW class \in Errors \ {"none"}
  PROVE  /\ RecordFailure(r, class) \in Rows
         /\ Kept(r, RecordFailure(r, class))
         /\ RecordFailure(r, class).lastSeq = r.lastSeq
         /\ RecordFailure(r, class).error = class
         /\ RecordFailure(r, class).streak = Counted(r, class).streak
<1> DEFINE c == Counted(r, class)
<1>1. c \in Rows /\ Kept(r, c) /\ c.lastSeq = r.lastSeq /\ c.error = class
  BY CountedRow
<1>2. RecordFailure(r, class) = [c EXCEPT !.failing = IF @ = "no" THEN "recent" ELSE @]
  BY DEF RecordFailure
<1> HIDE DEF c
<1>3. /\ RecordFailure(r, class) \in Rows /\ Kept(r, RecordFailure(r, class))
      /\ RecordFailure(r, class).lastSeq = r.lastSeq
      /\ RecordFailure(r, class).error = class
      /\ RecordFailure(r, class).streak = c.streak
  BY <1>1, <1>2 DEF Kept, Rows
<1> QED BY <1>3 DEF c

LEMMA SkipRow ==
  ASSUME NEW r \in Rows
  PROVE  /\ RecordSkip(r) \in Rows
         /\ Kept(r, RecordSkip(r))
         /\ RecordSkip(r).lastSeq = r.lastSeq
         /\ RecordSkip(r).error = "payload_too_large"
<1>1. "payload_too_large" \in Errors \ {"none"}
  BY DEF Errors
<1> DEFINE c == Counted(r, "payload_too_large")
<1>2. c \in Rows /\ Kept(r, c) /\ c.lastSeq = r.lastSeq /\ c.error = "payload_too_large"
  BY <1>1, CountedRow
<1>3. RecordSkip(r) = [c EXCEPT !.failing = "no"]
  BY DEF RecordSkip
<1> HIDE DEF c
<1> QED BY <1>2, <1>3 DEF Kept, Rows

LEMMA SuccessRow ==
  ASSUME NEW r \in Rows
  PROVE  /\ RecordSuccess(r) \in Rows
         /\ Kept(r, RecordSuccess(r))
         /\ RecordSuccess(r).lastSeq = r.lastSeq
         /\ RecordSuccess(r).error = "none" /\ RecordSuccess(r).streak = 0
<1>1. 0 \in 0..MaxStreak /\ "none" \in Errors
  BY StreakBound DEF Errors
<1>2. RecordSuccess(r) = [r EXCEPT !.error = "none", !.streak = 0, !.failing = "no",
                                   !.backedOff = FALSE]
  BY DEF RecordSuccess
<1> QED BY <1>1, <1>2 DEF Kept, Rows

LEMMA BackoffRow ==
  ASSUME NEW r \in Rows
  PROVE  /\ ApplyBackoff(r) \in Rows
         /\ Kept(r, ApplyBackoff(r))
         /\ ApplyBackoff(r).lastSeq = r.lastSeq
         /\ ApplyBackoff(r).error = r.error /\ ApplyBackoff(r).streak = r.streak
BY DEF ApplyBackoff, Kept, Rows

LEMMA DisabledRow ==
  ASSUME NEW r \in Rows, NEW reason \in Reasons \ {"none"}
  PROVE  /\ Disable(r, reason) \in Rows
         /\ Ended(r, Disable(r, reason))
         /\ Disable(r, reason).lastSeq = r.lastSeq
         /\ Disable(r, reason).error = r.error /\ Disable(r, reason).streak = r.streak
         /\ Disable(r, reason).reason = reason
<1>1. DisabledNotice(r.notify) \in Notices
  BY DEF DisabledNotice, Notices
<1> QED BY <1>1 DEF Disable, Ended, Rows

LEMMA AutoRow ==
  ASSUME NEW r \in Rows
  PROVE  /\ MaybeAutoDisable(r) \in Rows
         /\ Kept(r, MaybeAutoDisable(r)) \/ Ended(r, MaybeAutoDisable(r))
         /\ MaybeAutoDisable(r).lastSeq = r.lastSeq
         /\ MaybeAutoDisable(r).error = r.error /\ MaybeAutoDisable(r).streak = r.streak
         /\ MaybeAutoDisable(r).reason \in {r.reason, "too_many_failures"}
<1>1. "too_many_failures" \in Reasons \ {"none"}
  BY DEF Reasons
<1> QED BY <1>1, DisabledRow DEF MaybeAutoDisable, Kept

LEMMA KeptThen ==
  ASSUME NEW r, NEW s, NEW t, Kept(r, s), Kept(s, t) \/ Ended(s, t)
  PROVE  Kept(r, t) \/ Ended(r, t)
BY DEF Kept, Ended

\* An internal error, and every answer that only backs off.
LEMMA BackedOffRow ==
  ASSUME NEW r \in Rows, NEW class \in Errors \ {"none"}
  PROVE  LET new == MaybeAutoDisable(ApplyBackoff(RecordFailure(r, class))) IN
         /\ new \in Rows
         /\ Kept(r, new) \/ Ended(r, new)
         /\ new.lastSeq = r.lastSeq
         /\ new.error = class /\ new.streak = Counted(r, class).streak
         /\ new.reason \in {r.reason, "too_many_failures"}
<1> DEFINE failed == RecordFailure(r, class)
           waits == ApplyBackoff(failed)
           new == MaybeAutoDisable(waits)
<1>1. failed \in Rows /\ Kept(r, failed) /\ failed.lastSeq = r.lastSeq /\ failed.error = class
      /\ failed.streak = Counted(r, class).streak
  BY FailureRow
<1> HIDE DEF failed
<1>2. waits \in Rows /\ Kept(failed, waits) /\ waits.lastSeq = failed.lastSeq
      /\ waits.error = failed.error /\ waits.streak = failed.streak
  BY <1>1, BackoffRow
<1> HIDE DEF waits
<1>3. new \in Rows /\ (Kept(waits, new) \/ Ended(waits, new)) /\ new.lastSeq = waits.lastSeq
      /\ new.error = waits.error /\ new.streak = waits.streak
      /\ new.reason \in {waits.reason, "too_many_failures"}
  BY <1>2, AutoRow
<1> HIDE DEF new
<1>4. Kept(r, waits) /\ waits.reason = r.reason
  BY <1>1, <1>2 DEF Kept
<1>5. Kept(r, new) \/ Ended(r, new)
  BY <1>3, <1>4, KeptThen
<1>6. /\ new \in Rows
      /\ Kept(r, new) \/ Ended(r, new)
      /\ new.lastSeq = r.lastSeq
      /\ new.error = class /\ new.streak = Counted(r, class).streak
      /\ new.reason \in {r.reason, "too_many_failures"}
  BY <1>1, <1>2, <1>3, <1>4, <1>5
<1> QED BY <1>6 DEF new, waits, failed

\* Every answer but a 2xx.
LEMMA AfterResponseRow ==
  ASSUME NEW r \in Rows, NEW response \in Responses
  PROVE  LET class == IF response \in {"gone", "http_4xx"} THEN "http_4xx" ELSE "retryable"
             new == AfterResponse(r, response) IN
         /\ new \in Rows
         /\ Kept(r, new) \/ Ended(r, new)
         /\ new.lastSeq = r.lastSeq
         /\ new.error = class /\ new.streak = Counted(r, class).streak
         /\ new.reason \in {r.reason, "gone", "too_many_failures"}
                \/ /\ new.reason = "non_retryable_client_error"
                   /\ class = "http_4xx" /\ new.streak >= HardStrikes
<1> DEFINE class == IF response \in {"gone", "http_4xx"} THEN "http_4xx" ELSE "retryable"
           failed == RecordFailure(r, class)
           new == AfterResponse(r, response)
<1>1. class \in Errors \ {"none"}
  BY DEF Errors
<1>2. failed \in Rows /\ Kept(r, failed) /\ failed.lastSeq = r.lastSeq /\ failed.error = class
      /\ failed.streak = Counted(r, class).streak
  BY <1>1, FailureRow
<1>3. new = CASE response = "gone" -> Disable(failed, "gone")
              [] response = "http_4xx" /\ failed.streak >= HardStrikes ->
                     Disable(failed, "non_retryable_client_error")
              [] OTHER -> MaybeAutoDisable(ApplyBackoff(failed))
  BY DEF AfterResponse
<1>4. ASSUME NEW reason \in Reasons \ {"none"}, new = Disable(failed, reason)
      PROVE  /\ new \in Rows /\ Ended(r, new) /\ new.lastSeq = r.lastSeq
             /\ new.error = class /\ new.streak = failed.streak
             /\ new.reason = reason
  <2> HIDE DEF failed
  <2>1. /\ Disable(failed, reason) \in Rows /\ Ended(failed, Disable(failed, reason))
        /\ Disable(failed, reason).lastSeq = failed.lastSeq
        /\ Disable(failed, reason).error = failed.error
        /\ Disable(failed, reason).streak = failed.streak
        /\ Disable(failed, reason).reason = reason
    BY <1>2, DisabledRow
  <2>2. Ended(r, Disable(failed, reason))
    BY <1>2, <2>1, KeptThen DEF Kept, Ended
  <2> QED BY <1>2, <1>4, <2>1, <2>2
<1>5. CASE response = "gone"
  <2>1. new = Disable(failed, "gone")
    BY <1>3, <1>5
  <2>2. "gone" \in Reasons \ {"none"}
    BY DEF Reasons
  <2> HIDE DEF new, failed, class
  <2>3. new \in Rows /\ Ended(r, new) /\ new.lastSeq = r.lastSeq
        /\ new.error = class /\ new.streak = failed.streak /\ new.reason = "gone"
    BY <1>4, <2>1, <2>2
  <2> QED BY <1>2, <2>3 DEF new, class
<1>6. CASE response = "http_4xx" /\ failed.streak >= HardStrikes
  <2>1. new = Disable(failed, "non_retryable_client_error")
    BY <1>3, <1>6
  <2>2. "non_retryable_client_error" \in Reasons \ {"none"}
    BY DEF Reasons
  <2>3. class = "http_4xx"
    BY <1>6
  <2> HIDE DEF new, failed, class
  <2>4. new \in Rows /\ Ended(r, new) /\ new.lastSeq = r.lastSeq
        /\ new.error = class /\ new.streak = failed.streak
        /\ new.reason = "non_retryable_client_error"
    BY <1>4, <2>1, <2>2
  <2> QED BY <1>2, <1>6, <2>3, <2>4 DEF new, class
<1>7. CASE response # "gone" /\ ~(response = "http_4xx" /\ failed.streak >= HardStrikes)
  <2>1. new = MaybeAutoDisable(ApplyBackoff(failed))
    BY <1>3, <1>7
  <2> QED BY <1>1, <2>1, BackedOffRow
<1> QED BY <1>5, <1>6, <1>7

LEMMA FlushedRow ==
  ASSUME row \in Rows, NEW copy \in Rows, NEW new \in Rows, NEW seq \in 0..MaxSeq
  PROVE  LET written == [Flush(copy, new) EXCEPT !.lastSeq = seq] IN
         /\ written \in Rows
         /\ written.lastSeq = seq
         /\ written.active = IF new.active # copy.active THEN new.active ELSE row.active
         /\ written.reason = IF new.reason # copy.reason THEN new.reason ELSE row.reason
         /\ written.error = IF new.error # copy.error THEN new.error ELSE row.error
         /\ written.streak = IF new.streak # copy.streak THEN new.streak ELSE row.streak
         /\ written.notify = IF new.notify # copy.notify THEN new.notify ELSE row.notify
<1>1. DOMAIN row = {"lastSeq", "active", "reason", "error", "streak", "failing", "backedOff", "notify"}
  BY DEF Rows
<1> DEFINE Pick(f) == IF new[f] # copy[f] THEN new[f] ELSE row[f]
<1>2. Flush(copy, new) =
          [lastSeq |-> Pick("lastSeq"), active |-> Pick("active"), reason |-> Pick("reason"),
           error |-> Pick("error"), streak |-> Pick("streak"), failing |-> Pick("failing"),
           backedOff |-> Pick("backedOff"), notify |-> Pick("notify")]
  BY <1>1 DEF Flush
<1>3. /\ Pick("active") \in BOOLEAN /\ Pick("reason") \in Reasons /\ Pick("error") \in Errors
      /\ Pick("streak") \in 0..MaxStreak /\ Pick("failing") \in {"no", "recent", "long"}
      /\ Pick("backedOff") \in BOOLEAN /\ Pick("notify") \in Notices
  BY DEF Rows
<1>4. [Flush(copy, new) EXCEPT !.lastSeq = seq] =
          [lastSeq |-> seq, active |-> Pick("active"), reason |-> Pick("reason"),
           error |-> Pick("error"), streak |-> Pick("streak"), failing |-> Pick("failing"),
           backedOff |-> Pick("backedOff"), notify |-> Pick("notify")]
  BY <1>2
<1> QED BY <1>3, <1>4 DEF Rows

-----------------------------------------------------------------------------
(* The payload.                                                            *)

\* Halving comes to a single event.
LEMMA HalvedToOne ==
  ASSUME NEW n \in Nat \ {0}
  PROVE  1 \in Halvings(n)
<1> SUFFICES ASSUME NEW S \in SUBSET (1..n), n \in S, ClosedUnderHalving(S)
             PROVE  1 \in S
  BY DEF Halvings
<1>1. S \subseteq Nat
  OBVIOUS
<1>2. PICK m \in S : \A k \in S : ~(<<k, m>> \in OpToRel(<, Nat))
  BY <1>1, WFMin, NatLessThanWellFounded
<1>3. \A k \in S : k \in Nat /\ ~(k < m)
  BY <1>1, <1>2 DEF OpToRel
<1>4. m \in Nat /\ m >= 1
  OBVIOUS
<1>5. CASE m > 1
  <2>1. m \div 2 \in S
    BY <1>5 DEF ClosedUnderHalving
  <2>2. m \div 2 < m
    BY <1>4, <1>5
  <2> QED BY <1>3, <2>1, <2>2
<1> QED BY <1>4, <1>5

\* What is sent is an initial part of the batch that fits or is one event.
LEMMA PayloadIsInitial ==
  ASSUME NEW batch, batch \subseteq Seqs, batch # {}
  PROVE  /\ Payload(batch) \subseteq batch /\ Payload(batch) # {}
         /\ \A u \in Payload(batch), s \in batch : s < u => s \in Payload(batch)
         /\ ~Fits(Payload(batch)) => Payload(batch) \subseteq Oversized
<1> DEFINE c == Cardinality(batch)
           fitting == {n \in Halvings(c) : n = 1 \/ Fits(Lowest(n, batch))}
           n == Max(fitting)
<1>1. IsFiniteSet(batch) /\ c \in Nat \ {0} /\ c <= MaxSeq
  <2>1. IsFiniteSet(1..MaxSeq) /\ Cardinality(1..MaxSeq) = MaxSeq
    BY DeliveryAssumption, FS_Interval
  <2>2. IsFiniteSet(batch) /\ c <= MaxSeq
    BY <2>1, FS_Subset DEF Seqs
  <2> QED BY <2>2, FS_CardinalityType, FS_EmptySet
<1>2. fitting \subseteq Seqs /\ 1 \in fitting
  <2>1. 1 \in Halvings(c)
    BY <1>1, HalvedToOne
  <2>2. Halvings(c) \subseteq 1..c
    BY DEF Halvings
  <2>3. 1..c \subseteq Seqs
    BY <1>1, DeliveryAssumption DEF Seqs
  <2> QED BY <2>1, <2>2, <2>3
<1>3. n \in fitting
  BY <1>2, MaxOfSeqs
<1>4. n \in Nat \ {0} /\ (n = 1 \/ Fits(Lowest(n, batch)))
  BY <1>2, <1>3 DEF Seqs
<1>5. Payload(batch) = Lowest(n, batch)
  BY DEF Payload
<1> HIDE DEF n, fitting
<1>6. /\ Lowest(n, batch) \subseteq batch /\ Lowest(n, batch) # {}
      /\ \A u \in Lowest(n, batch), s \in batch : s < u => s \in Lowest(n, batch)
  BY <1>4, LowestAreFirst
<1>7. ASSUME n = 1, ~Fits(Lowest(1, batch))
      PROVE  Lowest(1, batch) \subseteq Oversized
  <2>1. PICK u \in Lowest(1, batch) : u \in Oversized
    BY <1>7 DEF Fits
  <2>2. ASSUME NEW t \in Lowest(1, batch)
        PROVE  t = u
    <3>1. \A x \in Lowest(1, batch) : x \in batch /\ Cardinality({y \in batch : y < x}) < 1
      BY DEF Lowest
    <3>2. ASSUME NEW x \in Lowest(1, batch)
          PROVE  {y \in batch : y < x} = {}
      <4>1. IsFiniteSet({y \in batch : y < x})
        BY <1>1, FS_Subset
      <4>2. Cardinality({y \in batch : y < x}) \in Nat
        BY <4>1, FS_CardinalityType
      <4>3. Cardinality({y \in batch : y < x}) < 1
        BY <3>1
      <4>4. Cardinality({y \in batch : y < x}) = 0
        BY <4>2, <4>3
      <4> QED BY <4>1, <4>4, FS_EmptySet
    <3>3. ~(t < u) /\ ~(u < t)
      BY <3>1, <3>2, <2>1
    <3>4. t \in batch /\ u \in batch
      BY <3>1
    <3>5. t \in Int /\ u \in Int
      BY <3>4 DEF Seqs
    <3> QED BY <3>3, <3>5
  <2> QED BY <2>1, <2>2
<1> QED BY <1>4, <1>5, <1>6, <1>7

-----------------------------------------------------------------------------
(* Workers.                                                                *)

LEMMA WorkerFields ==
  ASSUME NEW w \in Workers
  PROVE  /\ w.pc \in {"idle", "due", "loop", "posted"}
         /\ w.pc = "idle" => w = Idle
         /\ w.pc # "idle" => w # Idle /\ w.window \in 0..MaxSeq
         /\ w.pc \in {"loop", "posted"} => w.copy \in Rows
         /\ w.pc = "posted" => w.batch \in SUBSET Seqs /\ w.more \in BOOLEAN
BY DEF Workers, Idle

LEMMA IdleIsWorker == Idle \in Workers /\ Idle.pc = "idle"
BY DEF Workers, Idle

LEMMA LoopIsWorker ==
  ASSUME NEW window \in 0..MaxSeq, NEW copy \in Rows
  PROVE  [pc |-> "loop", window |-> window, copy |-> copy] \in Workers
BY DEF Workers

\* What a commit leaves, in the row and in the worker.
CommitLeaves(d, new, goOn) ==
    /\ row' \in Rows /\ toldDisabled' \in BOOLEAN
    /\ worker' = [e \in Dispatchers |-> worker'[e]]
    /\ \A e \in Dispatchers \ {d} : worker'[e] = worker[e]
    /\ ~exists => row' = row /\ toldDisabled' = toldDisabled /\ worker'[d] = Idle
    /\ exists =>
           /\ row'.lastSeq \in {row.lastSeq, new.lastSeq} /\ row'.lastSeq >= row.lastSeq
           /\ row'.active = IF new.active # worker[d].copy.active THEN new.active ELSE row.active
           /\ row'.reason = IF new.reason # worker[d].copy.reason THEN new.reason ELSE row.reason
           /\ row'.error = IF new.error # worker[d].copy.error THEN new.error ELSE row.error
           /\ row'.streak = IF new.streak # worker[d].copy.streak THEN new.streak ELSE row.streak
           /\ row'.notify = IF new.notify # worker[d].copy.notify THEN new.notify ELSE row.notify
           /\ toldDisabled' = (toldDisabled /\ ~(row.active /\ ~new.active))
           /\ ~goOn => worker'[d] = Idle
           /\ goOn => worker'[d] = [pc |-> "loop", window |-> worker[d].window,
                                    copy |-> [new EXCEPT !.lastSeq = row'.lastSeq]]

LEMMA CommitEffect ==
  ASSUME TypeInv, NEW d \in Dispatchers, Working(d), NEW new \in Rows, NEW goOn \in BOOLEAN,
         Commit(d, new, goOn)
  PROVE  CommitLeaves(d, new, goOn)
<1> DEFINE copy == worker[d].copy
           seq == IF new.lastSeq # copy.lastSeq THEN Advanced(row.lastSeq, new.lastSeq)
                                                ELSE row.lastSeq
<1>1. row \in Rows /\ copy \in Rows /\ toldDisabled \in BOOLEAN
      /\ worker = [e \in Dispatchers |-> worker[e]]
  BY WorkerFields DEF TypeInv, TypeOK, Working
<1>2. row.lastSeq \in 0..MaxSeq /\ new.lastSeq \in 0..MaxSeq
  BY <1>1 DEF Rows
<1>3. seq \in {row.lastSeq, new.lastSeq} /\ seq >= row.lastSeq
  BY <1>2, MaxOfTwo DEF Advanced
<1>4. seq \in 0..MaxSeq
  BY <1>2, <1>3
<1>5. CASE ~exists
  <2>1. worker' = [worker EXCEPT ![d] = Idle] /\ row' = row /\ toldDisabled' = toldDisabled
    BY <1>5 DEF Commit
  <2> QED BY <1>1, <1>5, <2>1 DEF CommitLeaves
<1>6. CASE exists
  <2>1. /\ row' = [Flush(copy, new) EXCEPT !.lastSeq = seq]
        /\ worker' = [worker EXCEPT ![d] = IF goOn THEN LoopOn(d, new, seq) ELSE Idle]
        /\ toldDisabled' = (toldDisabled /\ ~Unreported(new))
    BY <1>6 DEF Commit
  <2> HIDE DEF seq
  <2>2. /\ row' \in Rows /\ row'.lastSeq = seq
        /\ row'.active = IF new.active # copy.active THEN new.active ELSE row.active
        /\ row'.reason = IF new.reason # copy.reason THEN new.reason ELSE row.reason
        /\ row'.error = IF new.error # copy.error THEN new.error ELSE row.error
        /\ row'.streak = IF new.streak # copy.streak THEN new.streak ELSE row.streak
        /\ row'.notify = IF new.notify # copy.notify THEN new.notify ELSE row.notify
    BY <1>1, <1>4, <2>1, FlushedRow
  <2>3. /\ worker' = [e \in Dispatchers |-> worker'[e]]
        /\ \A e \in Dispatchers \ {d} : worker'[e] = worker[e]
        /\ worker'[d] = IF goOn THEN LoopOn(d, new, seq) ELSE Idle
    BY <1>1, <2>1
  <2>4. toldDisabled' = (toldDisabled /\ ~(row.active /\ ~new.active)) /\ toldDisabled' \in BOOLEAN
    BY <1>1, <2>1 DEF Unreported
  <2>5. goOn => worker'[d] = [pc |-> "loop", window |-> worker[d].window,
                              copy |-> [new EXCEPT !.lastSeq = row'.lastSeq]]
    BY <2>2, <2>3 DEF LoopOn
  <2>6. ~goOn => worker'[d] = Idle
    BY <2>3
  <2>7. row'.lastSeq \in {row.lastSeq, new.lastSeq} /\ row'.lastSeq >= row.lastSeq
    BY <1>3, <2>2 DEF seq
  <2> QED BY <1>6, <2>2, <2>3, <2>4, <2>5, <2>6, <2>7 DEF CommitLeaves
<1> QED BY <1>5, <1>6

\* The workers stay well formed.
LEMMA CommitWorkers ==
  ASSUME TypeInv, NEW d \in Dispatchers, Working(d), NEW new \in Rows, NEW goOn \in BOOLEAN,
         CommitLeaves(d, new, goOn)
  PROVE  \A e \in Dispatchers : worker'[e] \in Workers
<1>1. \A e \in Dispatchers : worker[e] \in Workers
  BY DEF TypeInv, TypeOK
<1>2. worker[d].window \in 0..MaxSeq
  BY <1>1, WorkerFields DEF Working
<1>3. [new EXCEPT !.lastSeq = row'.lastSeq] \in Rows
  BY DEF CommitLeaves, Rows
<1>4. worker'[d] \in Workers
  BY <1>2, <1>3, LoopIsWorker, IdleIsWorker DEF CommitLeaves
<1> QED BY <1>1, <1>4 DEF CommitLeaves

\* What a worker holds is a row and a batch.
LEMMA HeldFields ==
  ASSUME TypeInv, NEW d \in Dispatchers
  PROVE  /\ worker[d] \in Workers
         /\ worker[d].pc \in {"idle", "due", "loop", "posted"}
         /\ worker[d].pc = "idle" <=> worker[d] = Idle
         /\ worker[d] # Idle => worker[d].window \in 0..MaxSeq
         /\ Working(d) => worker[d].copy \in Rows /\ worker[d] # Idle
         /\ worker[d].pc = "posted" => worker[d].batch \in SUBSET Seqs /\ worker[d].more \in BOOLEAN
BY WorkerFields, IdleIsWorker DEF TypeInv, TypeOK, Working

\* What is left after a commit is no worker or one that drains on.
LEMMA CommittedWorkers ==
  ASSUME TypeInv, NEW d \in Dispatchers, Working(d), NEW new \in Rows, NEW goOn \in BOOLEAN,
         CommitLeaves(d, new, goOn)
  PROVE  /\ worker'[d] # Idle => worker'[d].window = worker[d].window
         /\ worker'[d].pc # "posted"
         /\ Working(d)' => exists /\ goOn /\ worker'[d].copy = [new EXCEPT !.lastSeq = row'.lastSeq]
         /\ \A e \in Dispatchers : e # d => worker'[e] = worker[e] /\ (Working(e)' <=> Working(e))
<1> DEFINE on == [pc |-> "loop", window |-> worker[d].window,
                  copy |-> [new EXCEPT !.lastSeq = row'.lastSeq]]
<1>1. on # Idle /\ on.pc = "loop" /\ on.window = worker[d].window
      /\ on.copy = [new EXCEPT !.lastSeq = row'.lastSeq]
  <2>1. on.pc = "loop" /\ on.window = worker[d].window
        /\ on.copy = [new EXCEPT !.lastSeq = row'.lastSeq]
    OBVIOUS
  <2> QED BY <2>1, IdleIsWorker
<1>2. worker'[d] = Idle \/ (exists /\ goOn /\ worker'[d] = on)
  BY DEF CommitLeaves
<1> HIDE DEF on
<1>3. \A e \in Dispatchers : e # d => worker'[e] = worker[e]
  BY DEF CommitLeaves
<1> QED BY <1>1, <1>2, <1>3, IdleIsWorker DEF Working

LEMMA CommitTypes ==
  ASSUME TypeInv, NEW d \in Dispatchers, Working(d), NEW new \in Rows, NEW goOn \in BOOLEAN,
         CommitLeaves(d, new, goOn), UNCHANGED <<logVars, scopeKnown, exists, lock, mail>>,
         UNCHANGED <<toldCreated, reactivated, mishaps>>,
         served' \subseteq Seqs, hardRun' \in 0..HardStrikes, latePosts' \in Nat
  PROVE  TypeInv'
<1>1. \A e \in Dispatchers : worker'[e] \in Workers
  BY CommitWorkers
<1>2. /\ row' \in Rows /\ toldDisabled' \in BOOLEAN
      /\ worker' = [e \in Dispatchers |-> worker'[e]] /\ (~exists => row' = row)
  BY DEF CommitLeaves
<1>3. TypeOK'
  BY <1>1, <1>2 DEF TypeInv, TypeOK, logVars
<1> QED BY <1>2, <1>3 DEF TypeInv

LEMMA CoveredStays ==
  ASSUME NEW seq, Covered(seq), UNCHANGED logVars, served \subseteq served'
  PROVE  Covered(seq)'
BY DEF Covered, logVars

LEMMA CommitCursor ==
  ASSUME TypeInv, CursorInv, NEW d \in Dispatchers, Working(d), NEW new \in Rows,
         NEW goOn \in BOOLEAN, CommitLeaves(d, new, goOn), UNCHANGED logVars, exists' = exists,
         served \subseteq served', exists => Covered(new.lastSeq)'
  PROVE  CursorInv'
<1>2. exists' => Covered(row.lastSeq)'
  <2>1. ASSUME exists
        PROVE  row'.lastSeq = row.lastSeq \/ row'.lastSeq = new.lastSeq
    BY <2>1 DEF CommitLeaves
  <2>2. ASSUME exists
        PROVE  Covered(row.lastSeq)
    BY <2>2 DEF CursorInv
  <2>3. ASSUME exists
        PROVE  row'.lastSeq <= mark /\ \A s \in entries \cap Deliverable : s <= row'.lastSeq => s \in served'
    BY <2>1, <2>2, <2>3 DEF Covered, logVars
  <2> QED BY <2>3 DEF Covered, logVars
<1>3. ASSUME NEW e \in Dispatchers, e # d
      PROVE  /\ worker'[e] # Idle => worker'[e].window <= mark'
             /\ exists' /\ Working(e)' => Covered(worker[e].copy.lastSeq)'
             /\ worker'[e].pc = "posted" =>
                  /\ worker'[e].batch # {} /\ \A s \in worker'[e].batch : s <= mark'
                  /\ \A s \in entries' \cap Deliverable :
                         worker'[e].copy.lastSeq < s /\ s <= Max(worker'[e].batch)
                             => s \in worker'[e].batch
  <2>1. worker'[e] = worker[e] /\ (Working(e)' <=> Working(e))
    BY <1>3, CommittedWorkers
  <2>2. mark' = mark /\ entries' = entries /\ exists' = exists
    BY DEF logVars
  <2>3. exists /\ Working(e) => Covered(worker[e].copy.lastSeq)
    BY DEF CursorInv
  <2>4. exists' /\ Working(e)' => Covered(worker[e].copy.lastSeq)'
    BY <2>1, <2>2, <2>3 DEF Covered
  <2>5. /\ worker[e] # Idle => worker[e].window <= mark
        /\ worker[e].pc = "posted" =>
                  /\ worker[e].batch # {} /\ \A s \in worker[e].batch : s <= mark
                  /\ \A s \in entries \cap Deliverable :
                         worker[e].copy.lastSeq < s /\ s <= Max(worker[e].batch)
                             => s \in worker[e].batch
    BY DEF CursorInv
  <2> QED BY <2>1, <2>2, <2>4, <2>5
<1>4. /\ worker'[d] # Idle => worker'[d].window <= mark'
      /\ worker'[d].pc # "posted"
      /\ Working(d)' => worker'[d].copy.lastSeq = row'.lastSeq
  <2>1. worker[d].window <= mark
    BY HeldFields DEF CursorInv
  <2>2. [new EXCEPT !.lastSeq = row'.lastSeq].lastSeq = row'.lastSeq
    BY DEF Rows
  <2>3. /\ worker'[d] # Idle => worker'[d].window = worker[d].window
        /\ worker'[d].pc # "posted"
        /\ Working(d)' => worker'[d].copy = [new EXCEPT !.lastSeq = row'.lastSeq]
    BY CommittedWorkers
  <2>4. mark' = mark
    BY DEF logVars
  <2> QED BY <2>1, <2>2, <2>3, <2>4
<1>5. exists' /\ Working(d)' => Covered(worker[d].copy.lastSeq)'
  BY <1>2, <1>4 DEF Covered
<1> QED BY <1>2, <1>3, <1>4, <1>5 DEF CursorInv

\* A commit keeps the row active with its notice, or it disables it and stops.
LEMMA CommitNotices ==
  ASSUME TypeInv, NoticeInv, NEW d \in Dispatchers, Working(d), NEW new \in Rows,
         NEW goOn \in BOOLEAN, CommitLeaves(d, new, goOn),
         Kept(worker[d].copy, new) \/ (Ended(worker[d].copy, new) /\ ~goOn),
         UNCHANGED <<exists, mail, toldCreated, reactivated>>
  PROVE  NoticeInv'
<1> DEFINE copy == worker[d].copy
           onward == [new EXCEPT !.lastSeq = row'.lastSeq]
<1>1. copy \in Rows /\ row \in Rows /\ copy.active /\ copy.reason = "none"
  BY HeldFields DEF TypeInv, TypeOK, NoticeInv
<1>2. /\ onward.active = new.active /\ onward.reason = new.reason /\ onward.notify = new.notify
  BY DEF Rows
<1> HIDE DEF copy, onward
<1>3. \A e \in Dispatchers : e # d => worker'[e] = worker[e] /\ (Working(e)' <=> Working(e))
  BY CommittedWorkers
<1>4. Working(d)' => exists /\ goOn /\ worker'[d].copy = onward
  BY CommittedWorkers DEF onward
<1>5. goOn => /\ new.active /\ new.reason = "none" /\ new.notify = copy.notify
  BY <1>1 DEF Kept, copy
<1>6. \A e \in Dispatchers : Working(e)' => worker'[e].copy.active /\ worker'[e].copy.reason = "none"
  <2> SUFFICES ASSUME NEW e \in Dispatchers, Working(e)'
               PROVE  worker'[e].copy.active /\ worker'[e].copy.reason = "none"
    OBVIOUS
  <2>1. CASE e = d
    BY <1>2, <1>4, <1>5, <2>1
  <2>2. CASE e # d
    BY <1>3, <2>2 DEF NoticeInv
  <2> QED BY <2>1, <2>2
<1>7. ASSUME exists
      PROVE  /\ toldCreated \/ copy.notify \in CreatedNotices
             /\ reactivated \/ copy.notify \notin DisabledNotices
             /\ toldCreated \/ row.notify \in CreatedNotices
             /\ ~row.active /\ ~reactivated => toldDisabled \/ row.notify \in DisabledNotices
             /\ mail.phase = "sent" /\ mail.notice \in CreatedNotices => toldCreated
             /\ ~reactivated /\ row.notify \in DisabledNotices => ~row.active
             /\ ~reactivated /\ mail.phase # "idle" /\ mail.notice \in DisabledNotices =>
                    ~row.active /\ (mail.phase = "sent" => toldDisabled)
  BY <1>7 DEF NoticeInv, copy, CreatedIsTold, FirstDisableIsTold, CreatedNotices, DisabledNotices
<1>8. ASSUME exists
      PROVE  /\ row'.active = IF new.active # copy.active THEN new.active ELSE row.active
             /\ row'.notify = IF new.notify # copy.notify THEN new.notify ELSE row.notify
             /\ toldDisabled' = (toldDisabled /\ ~(row.active /\ ~new.active))
  BY <1>8 DEF CommitLeaves, copy
<1>9. new.active \in BOOLEAN /\ row.active \in BOOLEAN /\ toldDisabled \in BOOLEAN
  BY <1>1 DEF Rows, TypeInv, TypeOK
<1>10. ASSUME exists
       PROVE  /\ toldCreated \/ row'.notify \in CreatedNotices
              /\ ~row'.active /\ ~reactivated => toldDisabled' \/ row'.notify \in DisabledNotices
              /\ ~reactivated /\ row'.notify \in DisabledNotices => ~row'.active
              /\ ~reactivated /\ mail.phase # "idle" /\ mail.notice \in DisabledNotices =>
                     ~row'.active /\ (mail.phase = "sent" => toldDisabled')
  <2>1. CASE Kept(copy, new)
    <3>1. new.active = copy.active /\ new.notify = copy.notify
      BY <2>1 DEF Kept
    <3>2. row'.active = row.active /\ row'.notify = row.notify /\ toldDisabled' = toldDisabled
      BY <1>1, <1>8, <1>9, <1>10, <3>1
    <3> QED BY <1>7, <1>10, <3>2
  <2>2. CASE Ended(copy, new)
    <3>1. ~new.active /\ new.notify = DisabledNotice(copy.notify)
      BY <2>2 DEF Ended
    <3>2. row'.active = FALSE /\ toldDisabled' = (toldDisabled /\ ~row.active)
      BY <1>1, <1>8, <1>9, <1>10, <3>1
    <3>3. row'.notify = IF DisabledNotice(copy.notify) # copy.notify
                        THEN DisabledNotice(copy.notify) ELSE row.notify
      BY <1>8, <1>10, <3>1
    <3>4. /\ DisabledNotice(copy.notify) \in DisabledNotices
          /\ copy.notify \in CreatedNotices => DisabledNotice(copy.notify) \in CreatedNotices
      BY DEF DisabledNotice, DisabledNotices, CreatedNotices
    <3>5. toldCreated \/ row'.notify \in CreatedNotices
      BY <1>7, <1>10, <3>3, <3>4
    <3>6. ~reactivated => row'.notify \in DisabledNotices
      BY <1>7, <1>10, <3>3, <3>4
    <3> QED BY <1>7, <1>9, <1>10, <3>2, <3>5, <3>6
  <2> QED BY <2>1, <2>2 DEF copy
<1>11. ASSUME exists, NEW e \in Dispatchers, Working(e)'
       PROVE  /\ toldCreated \/ worker'[e].copy.notify \in CreatedNotices
              /\ reactivated \/ worker'[e].copy.notify \notin DisabledNotices
  <2>1. CASE e = d
    BY <1>2, <1>4, <1>5, <1>7, <1>11, <2>1
  <2>2. CASE e # d
    BY <1>3, <1>11, <2>2 DEF NoticeInv
  <2> QED BY <2>1, <2>2
<1>12. exists' = exists /\ mail' = mail /\ toldCreated' = toldCreated /\ reactivated' = reactivated
  OBVIOUS
<1>13. exists => CreatedIsTold' /\ FirstDisableIsTold'
  BY <1>10, <1>12 DEF CreatedIsTold, FirstDisableIsTold, CreatedNotices, DisabledNotices
<1> QED BY <1>6, <1>7, <1>10, <1>11, <1>12, <1>13 DEF NoticeInv

\* A dispatcher at work alone is the only one, and its copy is the row's.
LEMMA AloneWorks ==
  ASSUME TypeInv, NoticeInv, AloneInv, Alone, NEW d \in Dispatchers, Working(d)
  PROVE  /\ \A e \in Dispatchers : e # d => worker[e] = Idle
         /\ ~exists => row.reason = "none"
         /\ exists => /\ row.active /\ row.reason = "none" /\ Strikes(row)
                      /\ worker[d].copy.error = row.error /\ worker[d].copy.streak = row.streak
                      /\ worker[d].copy.lastSeq = row.lastSeq
                      /\ Strikes(worker[d].copy)
<1>1. \A e \in Dispatchers : e # d => worker[e] = Idle
  <2>1. worker[d] # Idle
    BY HeldFields
  <2> QED BY <2>1 DEF AloneInv, Alone
<1>2. ~exists => row.reason = "none"
  BY DEF TypeInv, NewRow
<1>3. exists => row.active /\ row.reason = "none" /\ Strikes(row)
                /\ worker[d].copy.error = row.error /\ worker[d].copy.streak = row.streak
                /\ worker[d].copy.lastSeq = row.lastSeq
  BY DEF AloneInv
<1> QED BY <1>1, <1>2, <1>3 DEF Strikes

\* A commit of a dispatcher at work alone makes the row what it wrote.
LEMMA CommitAlone ==
  ASSUME TypeInv, NoticeInv, AloneInv, NEW d \in Dispatchers, Working(d), NEW new \in Rows,
         NEW goOn \in BOOLEAN, CommitLeaves(d, new, goOn),
         Kept(worker[d].copy, new) \/ (Ended(worker[d].copy, new) /\ ~goOn),
         UNCHANGED <<exists, lock, mishaps>>,
         Alone /\ exists =>
             Strikes(new)' /\ (new.reason = "non_retryable_client_error" => hardRun' = HardStrikes)
  PROVE  AloneInv'
<1> DEFINE copy == worker[d].copy
           onward == [new EXCEPT !.lastSeq = row'.lastSeq]
<1>1. copy \in Rows /\ row \in Rows /\ copy.active /\ copy.reason = "none"
  BY HeldFields DEF TypeInv, TypeOK, NoticeInv
<1>2. /\ onward.error = new.error /\ onward.streak = new.streak /\ onward.lastSeq = row'.lastSeq
  BY DEF Rows
<1> HIDE DEF onward
<1>3. /\ \A e \in Dispatchers : e # d => worker'[e] = worker[e] /\ (Working(e)' <=> Working(e))
      /\ Working(d)' => exists /\ goOn /\ worker'[d].copy = onward
  BY CommittedWorkers DEF onward
<1>4. ~exists => row' = row
  BY DEF CommitLeaves
<1>5. ASSUME exists
      PROVE  /\ row'.active = IF new.active # copy.active THEN new.active ELSE row.active
             /\ row'.reason = IF new.reason # copy.reason THEN new.reason ELSE row.reason
             /\ row'.error = IF new.error # copy.error THEN new.error ELSE row.error
             /\ row'.streak = IF new.streak # copy.streak THEN new.streak ELSE row.streak
  BY <1>5 DEF CommitLeaves
<1>6. new.active \in BOOLEAN /\ row.active \in BOOLEAN
  BY <1>1 DEF Rows
<1>7. /\ Kept(copy, new) => new.active = copy.active /\ new.reason = copy.reason
      /\ Ended(copy, new) => ~new.active /\ new.reason # "none"
  BY DEF Kept, Ended
<1> HIDE DEF copy
<1>8. row'.active <=> row'.reason = "none"
  <2>1. row.active <=> row.reason = "none"
    BY DEF AloneInv
  <2>2. CASE ~exists
    BY <1>4, <2>1, <2>2
  <2>3. CASE exists /\ Kept(copy, new)
    BY <1>5, <1>7, <2>1, <2>3
  <2>4. CASE exists /\ Ended(copy, new)
    <3>1. row'.active = FALSE
      BY <1>1, <1>5, <1>6, <1>7, <2>4
    <3>2. row'.reason = new.reason /\ new.reason # "none"
      BY <1>1, <1>5, <1>7, <2>4
    <3> QED BY <3>1, <3>2
  <2> QED BY <2>2, <2>3, <2>4 DEF copy
<1>9. mishaps' = 0 => \A e \in Dispatchers : worker'[e] # Idle => lock' = e
  <2>1. worker[d] # Idle
    BY HeldFields
  <2>2. mishaps = 0 => lock = d /\ \A e \in Dispatchers : worker[e] # Idle => lock = e
    BY <2>1 DEF AloneInv
  <2>3. mishaps' = mishaps /\ lock' = lock
    OBVIOUS
  <2> QED BY <1>3, <2>2, <2>3
<1>10. ASSUME Alone
       PROVE  /\ HardStrikesConsecutive'
              /\ exists' =>
                     /\ Strikes(row)'
                     /\ \A e \in Dispatchers : Working(e)' =>
                         /\ row'.active
                         /\ worker'[e].copy.error = row'.error
                         /\ worker'[e].copy.streak = row'.streak
                         /\ worker'[e].copy.lastSeq = row'.lastSeq
  <2>1. /\ \A e \in Dispatchers : e # d => worker[e] = Idle
        /\ ~exists => row.reason = "none"
        /\ exists => /\ row.active /\ row.reason = "none"
                     /\ copy.error = row.error /\ copy.streak = row.streak
    BY <1>10, AloneWorks DEF copy
  <2>2. exists' = exists
    OBVIOUS
  <2>3. CASE ~exists
    <3>1. row'.reason = "none"
      BY <1>4, <2>1, <2>3
    <3> QED BY <2>2, <2>3, <3>1 DEF HardStrikesConsecutive
  <2>4. CASE exists
    <3>1. row'.error = new.error /\ row'.streak = new.streak
      BY <1>5, <2>1, <2>4
    <3>2. Strikes(row)'
      BY <1>10, <2>4, <3>1 DEF Strikes
    <3>3. row'.reason = new.reason
      BY <1>1, <1>5, <2>1, <2>4
    <3>4. HardStrikesConsecutive'
      BY <1>10, <2>4, <3>3 DEF HardStrikesConsecutive
    <3>5. goOn => row'.active
      BY <1>1, <1>5, <1>7, <2>1, <2>4 DEF copy
    <3>6. ASSUME NEW e \in Dispatchers, Working(e)'
          PROVE  e = d
      <4>1. ~Working(e) \/ e = d
        BY <2>1, IdleIsWorker DEF Working
      <4> QED BY <1>3, <3>6, <4>1
    <3> QED BY <1>2, <1>3, <2>4, <3>1, <3>2, <3>4, <3>5, <3>6
  <2> QED BY <2>3, <2>4
<1>11. Alone' <=> Alone
  BY DEF Alone
<1> QED BY <1>8, <1>9, <1>10, <1>11 DEF AloneInv

\* Whatever a dispatcher commits keeps the invariant, if the cursor it writes is
\* covered and, for one that works alone, the strikes it writes are the run's.
LEMMA CommitKeeps ==
  ASSUME DeliveryInv, NEW d \in Dispatchers, Working(d), NEW new \in Rows, NEW goOn \in BOOLEAN,
         Commit(d, new, goOn),
         Kept(worker[d].copy, new) \/ (Ended(worker[d].copy, new) /\ ~goOn),
         UNCHANGED <<logVars, scopeKnown, exists, lock, mail>>,
         UNCHANGED <<toldCreated, reactivated, mishaps>>,
         served \subseteq served', served' \subseteq Seqs, hardRun' \in 0..HardStrikes,
         latePosts' \in Nat,
         exists => Covered(new.lastSeq)',
         Alone /\ exists =>
             Strikes(new)' /\ (new.reason = "non_retryable_client_error" => hardRun' = HardStrikes)
  PROVE  DeliveryInv'
<1>1. TypeInv /\ CursorInv /\ NoticeInv /\ AloneInv
  BY DEF DeliveryInv
<1>2. CommitLeaves(d, new, goOn)
  BY <1>1, CommitEffect
<1>3. TypeInv'
  BY <1>1, <1>2, CommitTypes
<1>4. CursorInv'
  BY <1>1, <1>2, CommitCursor
<1>5. NoticeInv'
  BY <1>1, <1>2, CommitNotices
<1>6. AloneInv'
  BY <1>1, <1>2, CommitAlone
<1> QED BY <1>3, <1>4, <1>5, <1>6 DEF DeliveryInv

-----------------------------------------------------------------------------
(* The turn of a drain loop.                                               *)

\* What a turn reads: the entries due, of which the page and then the batch and
\* the payload are initial parts.
Due(w) == {s \in entries : w.copy.lastSeq < s /\ s <= w.window}
Page(w) == Lowest(BatchSize, Due(w))
Batch(w) == Page(w) \ Orphans
Skipped(w) == RecordSkip([w.copy EXCEPT !.lastSeq = Max(Payload(Batch(w)))])

LEMMA FetchedInOrder ==
  ASSUME TypeInv, CursorInv, NEW d \in Dispatchers, worker[d].pc = "loop"
  PROVE  LET w == worker[d] IN
         /\ Due(w) \subseteq Seqs /\ Page(w) \subseteq Due(w)
         /\ \A s \in Due(w) : s <= w.window /\ s <= mark
         /\ Page(w) = {} => Due(w) = {}
         /\ \A u \in Page(w), s \in Due(w) : s < u => s \in Page(w)
<1>1. entries \subseteq 1..mark /\ mark \in 0..MaxSeq
  BY DEF TypeInv, TypeOK
<1>2. worker[d].window \in 0..MaxSeq /\ worker[d].window <= mark
  BY HeldFields DEF CursorInv
<1>3. 1..mark \subseteq Seqs /\ \A s \in 1..mark : s <= mark
  BY <1>1, DeliveryAssumption DEF Seqs
<1>4. Due(worker[d]) \subseteq Seqs /\ \A s \in Due(worker[d]) : s <= worker[d].window /\ s <= mark
  BY <1>1, <1>3 DEF Due
<1>5. BatchSize \in Nat /\ BatchSize # 0
  BY DeliveryAssumption
<1>6. /\ Page(worker[d]) \subseteq Due(worker[d])
      /\ \A u \in Page(worker[d]), s \in Due(worker[d]) : s < u => s \in Page(worker[d])
      /\ Page(worker[d]) = {} => Due(worker[d]) = {}
  BY <1>4, <1>5, LowestAreFirst DEF Page
<1> QED BY <1>4, <1>6

\* Up to the last row of the page, what is deliverable above the cursor is in the
\* batch; up to the last row of the payload, it is in the payload.
LEMMA PageLeavesNothingOut ==
  ASSUME TypeInv, CursorInv, NEW d \in Dispatchers, worker[d].pc = "loop", Page(worker[d]) # {}
  PROVE  LET w == worker[d] IN
         /\ Max(Page(w)) \in Seqs /\ Max(Page(w)) <= mark
         /\ \A s \in entries \cap Deliverable :
                w.copy.lastSeq < s /\ s <= Max(Page(w)) => s \in Batch(w)
<1> DEFINE w == worker[d]
           m == Max(Page(w))
<1>1. /\ Due(w) \subseteq Seqs /\ Page(w) \subseteq Due(w)
      /\ \A s \in Due(w) : s <= w.window /\ s <= mark
      /\ \A u \in Page(w), s \in Due(w) : s < u => s \in Page(w)
  BY FetchedInOrder
<1>2. m \in Page(w)
  BY <1>1, MaxOfSeqs
<1>3. w.window \in 0..MaxSeq
  BY HeldFields, IdleIsWorker
<1> HIDE DEF m
<1>4. ASSUME NEW s \in entries \cap Deliverable, w.copy.lastSeq < s, s <= m
      PROVE  s \in Batch(w)
  <2>1. m \in Due(w) /\ m <= w.window /\ m \in Seqs
    BY <1>1, <1>2
  <2>2. s \in Seqs
    BY DEF Deliverable
  <2>3. s <= w.window
    BY <1>3, <1>4, <2>1, <2>2 DEF Seqs
  <2>4. s \in Due(w)
    BY <1>4, <2>3 DEF Due
  <2>5. s = m \/ s < m
    BY <1>4, <2>1, <2>2 DEF Seqs
  <2>6. s \in Page(w)
    BY <1>1, <1>2, <2>4, <2>5
  <2> QED BY <2>6 DEF Batch, Deliverable
<1>5. m \in Seqs /\ m <= mark
  BY <1>1, <1>2
<1>6. \A s \in entries \cap Deliverable : w.copy.lastSeq < s /\ s <= m => s \in Batch(w)
  BY <1>4
<1> QED BY <1>5, <1>6 DEF m

LEMMA PayloadLeavesNothingOut ==
  ASSUME TypeInv, CursorInv, NEW d \in Dispatchers, worker[d].pc = "loop", Batch(worker[d]) # {}
  PROVE  LET w == worker[d]
             sent == Payload(Batch(w)) IN
         /\ sent # {} /\ sent \subseteq Due(w) /\ sent \subseteq Seqs
         /\ Max(sent) \in Seqs /\ Max(sent) <= mark
         /\ \A s \in entries \cap Deliverable :
                w.copy.lastSeq < s /\ s <= Max(sent) => s \in sent
<1> DEFINE w == worker[d]
           sent == Payload(Batch(w))
           m == Max(sent)
           p == Max(Page(w))
<1>1. Due(w) \subseteq Seqs /\ Page(w) \subseteq Due(w) /\ \A s \in Due(w) : s <= mark
  BY FetchedInOrder
<1>2. Batch(w) \subseteq Page(w) /\ Page(w) # {} /\ Batch(w) \subseteq Seqs
  BY <1>1 DEF Batch
<1>3. sent \subseteq Batch(w) /\ sent # {} /\ \A u \in sent, s \in Batch(w) : s < u => s \in sent
  BY <1>2, PayloadIsInitial
<1> HIDE DEF sent
<1>4. m \in sent
  BY <1>2, <1>3, MaxOfSeqs
<1>5. p \in Seqs /\ \A s \in entries \cap Deliverable : w.copy.lastSeq < s /\ s <= p => s \in Batch(w)
  BY <1>2, PageLeavesNothingOut
<1>6. m <= p
  <2>1. Page(w) \subseteq Seqs
    BY <1>1
  <2>2. \A s \in Page(w) : s <= p
    BY <1>2, <2>1, MaxOfSeqs
  <2> QED BY <1>2, <1>3, <1>4, <2>2
<1>7. sent \subseteq Due(w) /\ sent \subseteq Seqs /\ m \in Seqs /\ m <= mark
  BY <1>1, <1>2, <1>3, <1>4
<1> HIDE DEF p, m
<1>8. ASSUME NEW s \in entries \cap Deliverable, w.copy.lastSeq < s, s <= m
      PROVE  s \in sent
  <2>1. s \in Seqs
    BY DEF Deliverable
  <2>2. s <= p /\ (s = m \/ s < m)
    BY <1>5, <1>6, <1>7, <1>8, <2>1 DEF Seqs
  <2>3. s \in Batch(w)
    BY <1>5, <1>8, <2>2
  <2> QED BY <1>3, <1>4, <2>2, <2>3
<1>9. \A s \in entries \cap Deliverable : w.copy.lastSeq < s /\ s <= m => s \in sent
  BY <1>8
<1> QED BY <1>3, <1>7, <1>9 DEF m, sent

LEMMA MovedRow ==
  ASSUME NEW r \in Rows, NEW seq \in 0..MaxSeq
  PROVE  LET new == [r EXCEPT !.lastSeq = seq] IN
         /\ new \in Rows /\ Kept(r, new) /\ new.lastSeq = seq
         /\ new.error = r.error /\ new.streak = r.streak
BY DEF Rows, Kept

\* A commit at the end of a turn: it leaves the strikes alone or starts the run anew.
LEMMA TurnCommits ==
  ASSUME DeliveryInv, NEW d \in Dispatchers, worker[d].pc = "loop", NEW new \in Rows,
         NEW goOn \in BOOLEAN, Commit(d, new, goOn),
         Kept(worker[d].copy, new) \/ (Ended(worker[d].copy, new) /\ ~goOn),
         UNCHANGED <<logVars, scopeKnown, exists, lock, mail>>,
         UNCHANGED <<toldCreated, reactivated, mishaps, served, latePosts>>,
         exists => Covered(new.lastSeq),
         new.reason # "non_retryable_client_error",
         \/ new.error = "payload_too_large" /\ hardRun' = 0
         \/ /\ new.error = worker[d].copy.error /\ new.streak = worker[d].copy.streak
            /\ hardRun' = hardRun
  PROVE  DeliveryInv'
<1>1. TypeInv /\ NoticeInv /\ AloneInv
  BY DEF DeliveryInv
<1>2. Working(d)
  BY DEF Working
<1>3. served \subseteq served' /\ served' \subseteq Seqs /\ latePosts' \in Nat
      /\ hardRun' \in 0..HardStrikes
  BY <1>1, DeliveryAssumption DEF TypeInv, TypeOK
<1>4. exists => Covered(new.lastSeq)'
  BY DEF Covered, logVars
<1>5. Alone /\ exists => Strikes(new)'
  <2>1. Alone /\ exists => Strikes(worker[d].copy)
    BY <1>1, <1>2, AloneWorks
  <2> QED BY <2>1 DEF Strikes
<1> QED BY <1>2, <1>3, <1>4, <1>5, CommitKeeps

LEMMA FetchKeeps ==
  ASSUME DeliveryInv, NEW d \in Dispatchers, Fetch(d)
  PROVE  DeliveryInv'
<1> DEFINE w == worker[d]
           rows == Page(w)
           batch == Batch(w)
           sent == Payload(batch)
           more == rows # Due(w)
           moreAfter == more \/ sent # batch
<1>1. worker[d].pc = "loop"
  BY DEF Fetch
<1>2. TypeInv /\ CursorInv /\ NoticeInv /\ AloneInv /\ Working(d)
  BY <1>1 DEF DeliveryInv, Working
<1>3. w.copy \in Rows /\ w.window \in 0..MaxSeq /\ w.copy.reason = "none" /\ w.copy.active
  BY <1>2, HeldFields DEF NoticeInv
<1>4. /\ UNCHANGED <<logVars, scopeKnown, exists, lock, mail>>
      /\ UNCHANGED <<served, toldCreated, reactivated, mishaps>>
  BY DEF Fetch
<1>5. \/ /\ Commit(d, Disable(w.copy, "unknown_scope"), FALSE)
         /\ UNCHANGED <<hardRun, latePosts>>
      \/ /\ rows = {}
         /\ Commit(d, [w.copy EXCEPT !.lastSeq = w.window], FALSE)
         /\ UNCHANGED <<hardRun, latePosts>>
      \/ /\ rows # {} /\ batch = {}
         /\ Commit(d, [w.copy EXCEPT !.lastSeq = Max(rows)], more)
         /\ UNCHANGED <<hardRun, latePosts>>
      \/ /\ batch # {} /\ ~Fits(sent)
         /\ \/ Commit(d, Disable(Skipped(w), "payload_too_large"), FALSE)
            \/ Commit(d, Skipped(w), moreAfter)
         /\ hardRun' = 0
         /\ UNCHANGED latePosts
      \/ /\ batch # {}
         /\ worker' = [worker EXCEPT ![d] =
                [pc |-> "posted", window |-> w.window, copy |-> w.copy,
                 batch |-> sent, more |-> moreAfter]]
         /\ latePosts' = latePosts + IF exists THEN 0 ELSE 1
         /\ UNCHANGED <<row, toldDisabled, hardRun>>
  BY DEF Fetch, PastOrphans, Skipped, Batch, Page, Due
<1>6. exists => Covered(w.copy.lastSeq)
  BY <1>2 DEF CursorInv
<1> HIDE DEF w, rows, batch, sent, more, moreAfter
<1>7. more \in BOOLEAN /\ moreAfter \in BOOLEAN
  BY DEF more, moreAfter
<1>8. CASE /\ Commit(d, Disable(w.copy, "unknown_scope"), FALSE)
           /\ UNCHANGED <<hardRun, latePosts>>
  <2>1. "unknown_scope" \in Reasons \ {"none"}
    BY DEF Reasons
  <2>2. PICK new \in Rows : new = Disable(w.copy, "unknown_scope")
    BY <1>3, <2>1, DisabledRow
  <2>3. /\ Ended(w.copy, new) /\ new.lastSeq = w.copy.lastSeq /\ new.error = w.copy.error
        /\ new.streak = w.copy.streak /\ new.reason = "unknown_scope"
    BY <1>3, <2>1, <2>2, DisabledRow
  <2>4. Commit(d, new, FALSE)
    BY <1>8, <2>2
  <2>5. exists => Covered(new.lastSeq)
    BY <1>6, <2>3
  <2> QED BY <1>1, <1>4, <1>8, <2>3, <2>4, <2>5, TurnCommits DEF w
<1>9. CASE /\ rows = {}
           /\ Commit(d, [w.copy EXCEPT !.lastSeq = w.window], FALSE)
           /\ UNCHANGED <<hardRun, latePosts>>
  <2>1. PICK new \in Rows : new = [w.copy EXCEPT !.lastSeq = w.window]
    BY <1>3, MovedRow
  <2>2. Kept(w.copy, new) /\ new.lastSeq = w.window /\ new.error = w.copy.error
        /\ new.streak = w.copy.streak /\ new.reason = "none"
    BY <1>3, <2>1, MovedRow DEF Kept
  <2>3. Commit(d, new, FALSE)
    BY <1>9, <2>1
  <2>4. Due(w) = {}
    BY <1>1, <1>2, <1>9, FetchedInOrder DEF w, rows
  <2>5. w.window <= mark
    BY <1>2, HeldFields DEF CursorInv, w
  <2>6. ASSUME exists
        PROVE  Covered(w.window)
    <3>1. \A s \in entries \cap Deliverable : s <= w.window => s <= w.copy.lastSeq
      <4>1. \A s \in Deliverable : s \in Int
        BY DEF Deliverable, Seqs
      <4>2. w.copy.lastSeq \in Int
        BY <1>3 DEF Rows
      <4> QED BY <2>4, <4>1, <4>2 DEF Due
    <3> QED BY <1>6, <2>5, <2>6, <3>1 DEF Covered
  <2>7. exists => Covered(new.lastSeq)
    BY <2>2, <2>6
  <2> QED BY <1>1, <1>4, <1>9, <2>2, <2>3, <2>7, TurnCommits DEF w
<1>10. CASE /\ rows # {} /\ batch = {}
            /\ Commit(d, [w.copy EXCEPT !.lastSeq = Max(rows)], more)
            /\ UNCHANGED <<hardRun, latePosts>>
  <2>1. /\ Max(rows) \in Seqs /\ Max(rows) <= mark
        /\ \A s \in entries \cap Deliverable : ~(w.copy.lastSeq < s /\ s <= Max(rows))
    BY <1>1, <1>2, <1>10, PageLeavesNothingOut DEF w, rows, batch
  <2>2. Max(rows) \in 0..MaxSeq
    BY <2>1 DEF Seqs
  <2>3. PICK new \in Rows : new = [w.copy EXCEPT !.lastSeq = Max(rows)]
    BY <1>3, <2>2, MovedRow
  <2>4. Kept(w.copy, new) /\ new.lastSeq = Max(rows) /\ new.error = w.copy.error
        /\ new.streak = w.copy.streak /\ new.reason = "none"
    BY <1>3, <2>2, <2>3, MovedRow DEF Kept
  <2>5. Commit(d, new, more)
    BY <1>10, <2>3
  <2>6. ASSUME exists
        PROVE  Covered(Max(rows))
    <3>1. \A s \in entries \cap Deliverable : s <= Max(rows) => s <= w.copy.lastSeq
      <4>1. \A s \in Deliverable : s \in Int
        BY DEF Deliverable, Seqs
      <4>2. w.copy.lastSeq \in Int
        BY <1>3 DEF Rows
      <4> QED BY <2>1, <4>1, <4>2
    <3> QED BY <1>6, <2>1, <2>6, <3>1 DEF Covered
  <2>7. exists => Covered(new.lastSeq)
    BY <2>4, <2>6
  <2> QED BY <1>1, <1>4, <1>7, <1>10, <2>4, <2>5, <2>7, TurnCommits DEF w
<1>11. CASE /\ batch # {} /\ ~Fits(sent)
            /\ \/ Commit(d, Disable(Skipped(w), "payload_too_large"), FALSE)
               \/ Commit(d, Skipped(w), moreAfter)
            /\ hardRun' = 0
            /\ UNCHANGED latePosts
  <2>1. /\ sent \subseteq Due(w) /\ Max(sent) \in Seqs /\ Max(sent) <= mark
        /\ \A s \in entries \cap Deliverable :
               w.copy.lastSeq < s /\ s <= Max(sent) => s \in sent
    BY <1>1, <1>2, <1>11, PayloadLeavesNothingOut DEF w, batch, sent
  <2>2. sent \subseteq Oversized
    <3>1. batch \subseteq Seqs
      BY <1>1, <1>2, FetchedInOrder DEF batch, w, Batch
    <3> QED BY <1>11, <3>1, PayloadIsInitial DEF sent
  <2>3. Max(sent) \in 0..MaxSeq
    BY <2>1 DEF Seqs
  <2>4. ASSUME exists
        PROVE  Covered(Max(sent))
    <3>1. \A s \in entries \cap Deliverable : s <= Max(sent) => s <= w.copy.lastSeq
      <4>1. \A s \in Deliverable : s \in Int /\ s \notin Oversized
        BY DEF Deliverable, Seqs
      <4>2. w.copy.lastSeq \in Int
        BY <1>3 DEF Rows
      <4> QED BY <2>1, <2>2, <4>1, <4>2
    <3> QED BY <1>6, <2>1, <2>4, <3>1 DEF Covered
  <2> DEFINE moved == [w.copy EXCEPT !.lastSeq = Max(sent)]
  <2>5. moved \in Rows /\ Kept(w.copy, moved) /\ moved.lastSeq = Max(sent)
    BY <1>3, <2>3, MovedRow
  <2>6. Skipped(w) = RecordSkip(moved)
    BY DEF Skipped, sent, batch
  <2> HIDE DEF moved
  <2>7. PICK skipped \in Rows : skipped = Skipped(w)
    BY <2>5, <2>6, SkipRow
  <2>8. Kept(moved, skipped) /\ skipped.lastSeq = Max(sent) /\ skipped.error = "payload_too_large"
    BY <2>5, <2>6, <2>7, SkipRow
  <2>9. Kept(w.copy, skipped) /\ skipped.reason = "none"
    BY <1>3, <2>5, <2>8 DEF Kept
  <2>10. CASE Commit(d, skipped, moreAfter)
    <3>1. exists => Covered(skipped.lastSeq)
      BY <2>4, <2>8
    <3> QED BY <1>1, <1>4, <1>7, <1>11, <2>8, <2>9, <2>10, <3>1, TurnCommits DEF w
  <2>11. CASE Commit(d, Disable(skipped, "payload_too_large"), FALSE)
    <3>1. "payload_too_large" \in Reasons \ {"none"}
      BY DEF Reasons
    <3>2. PICK new \in Rows : new = Disable(skipped, "payload_too_large")
      BY <3>1, DisabledRow
    <3>3. /\ Ended(skipped, new) /\ new.lastSeq = Max(sent)
          /\ new.error = "payload_too_large" /\ new.reason = "payload_too_large"
      BY <2>8, <3>1, <3>2, DisabledRow
    <3>4. Ended(w.copy, new)
      BY <2>9, <3>3 DEF Kept, Ended
    <3>5. Commit(d, new, FALSE)
      BY <2>11, <3>2
    <3>6. exists => Covered(new.lastSeq)
      BY <2>4, <3>3
    <3> QED BY <1>1, <1>4, <1>11, <3>3, <3>4, <3>5, <3>6, TurnCommits DEF w
  <2> QED BY <1>11, <2>7, <2>10, <2>11
<1>12. CASE /\ batch # {}
            /\ worker' = [worker EXCEPT ![d] =
                   [pc |-> "posted", window |-> w.window, copy |-> w.copy,
                    batch |-> sent, more |-> moreAfter]]
            /\ latePosts' = latePosts + IF exists THEN 0 ELSE 1
            /\ UNCHANGED <<row, toldDisabled, hardRun>>
  <2> DEFINE post == [pc |-> "posted", window |-> w.window, copy |-> w.copy,
                      batch |-> sent, more |-> moreAfter]
  <2>1. /\ sent # {} /\ sent \subseteq Due(w) /\ sent \subseteq Seqs
        /\ \A s \in entries \cap Deliverable :
               w.copy.lastSeq < s /\ s <= Max(sent) => s \in sent
    BY <1>1, <1>2, <1>12, PayloadLeavesNothingOut DEF w, batch, sent
  <2>2. \A s \in sent : s <= mark
    BY <1>1, <1>2, <2>1, FetchedInOrder DEF w
  <2>3. post \in Workers /\ post # Idle
    BY <1>3, <1>7, <2>1, IdleIsWorker DEF Workers
  <2>4. post.pc = "posted" /\ post.window = w.window /\ post.copy = w.copy
        /\ post.batch = sent
    OBVIOUS
  <2> HIDE DEF post
  <2>5. /\ worker' = [e \in Dispatchers |-> worker'[e]]
        /\ worker'[d] = post /\ \A e \in Dispatchers : e # d => worker'[e] = worker[e]
    BY <1>2, <1>12 DEF TypeInv, post
  <2>6. w # Idle
    BY <1>2, HeldFields DEF w
  <2>7. TypeInv'
    <3>1. latePosts' \in Nat
      BY <1>2, <1>12 DEF TypeInv, TypeOK
    <3>2. \A e \in Dispatchers : worker'[e] \in Workers
      BY <1>2, <2>3, <2>5 DEF TypeInv, TypeOK
    <3>3. TypeOK'
      BY <1>2, <1>4, <1>12, <3>1, <3>2 DEF TypeInv, TypeOK, logVars
    <3> QED BY <1>2, <1>4, <1>12, <2>5, <3>3 DEF TypeInv, NewRow
  <2>8. Working(d)' /\ Working(d) /\ \A e \in Dispatchers : e # d => (Working(e)' <=> Working(e))
    BY <1>2, <2>4, <2>5 DEF Working
  <2>9. CursorInv'
    <3>1. \A seq : Covered(seq) => Covered(seq)'
      BY <1>4 DEF Covered, logVars
    <3>2. exists' => Covered(row.lastSeq)'
      BY <1>2, <1>4, <1>12, <3>1 DEF CursorInv, Covered
    <3>3. ASSUME NEW e \in Dispatchers, e # d
          PROVE  /\ worker'[e] # Idle => worker'[e].window <= mark'
                 /\ exists' /\ Working(e)' => Covered(worker[e].copy.lastSeq)'
                 /\ worker'[e].pc = "posted" =>
                      /\ worker'[e].batch # {} /\ \A s \in worker'[e].batch : s <= mark'
                      /\ \A s \in entries' \cap Deliverable :
                             worker'[e].copy.lastSeq < s /\ s <= Max(worker'[e].batch)
                                 => s \in worker'[e].batch
      BY <1>2, <1>4, <2>5, <2>8, <3>3 DEF CursorInv, Covered, logVars
    <3>4. /\ worker'[d].window <= mark'
          /\ exists' => Covered(worker[d].copy.lastSeq)'
      BY <1>2, <1>4, <1>6, <2>4, <2>5, <2>6 DEF CursorInv, Covered, logVars, w
    <3>5. /\ worker'[d].batch # {} /\ \A s \in worker'[d].batch : s <= mark'
          /\ \A s \in entries' \cap Deliverable :
                 worker'[d].copy.lastSeq < s /\ s <= Max(worker'[d].batch)
                     => s \in worker'[d].batch
      BY <1>4, <2>1, <2>2, <2>4, <2>5 DEF logVars
    <3> QED BY <3>2, <3>3, <3>4, <3>5 DEF CursorInv
  <2>10. \A e \in Dispatchers : worker'[e].copy = worker[e].copy /\ (Working(e)' <=> Working(e))
                                /\ (worker'[e] # Idle <=> worker[e] # Idle)
    BY <2>3, <2>4, <2>5, <2>6, <2>8 DEF w
  <2>11. NoticeInv'
    BY <1>2, <1>4, <1>12, <2>10 DEF NoticeInv, CreatedIsTold, FirstDisableIsTold
  <2>12. AloneInv'
    BY <1>2, <1>4, <1>12, <2>10 DEF AloneInv, Alone, HardStrikesConsecutive, Strikes
  <2> QED BY <2>7, <2>9, <2>11, <2>12 DEF DeliveryInv
<1> QED BY <1>5, <1>8, <1>9, <1>10, <1>11, <1>12

-----------------------------------------------------------------------------
(* The answer to a POST.                                                   *)

LEMMA AcknowledgedKeeps ==
  ASSUME DeliveryInv, NEW d \in Dispatchers, Acknowledged(d)
  PROVE  DeliveryInv'
<1> DEFINE w == worker[d]
           moved == [w.copy EXCEPT !.lastSeq = Max(w.batch)]
<1>1. w.pc = "posted"
  BY DEF Acknowledged
<1>2. TypeInv /\ CursorInv /\ NoticeInv /\ AloneInv /\ Working(d)
  BY <1>1 DEF DeliveryInv, Working
<1>3. w.copy \in Rows /\ w.batch \subseteq Seqs /\ w.more \in BOOLEAN /\ w.copy.reason = "none"
  BY <1>1, <1>2, HeldFields DEF NoticeInv
<1>4. /\ UNCHANGED <<logVars, scopeKnown, exists, lock, mail>>
      /\ UNCHANGED <<toldCreated, reactivated, latePosts, mishaps>>
      /\ served' = served \cup w.batch /\ hardRun' = 0
      /\ Commit(d, RecordSuccess(moved), w.more)
  BY DEF Acknowledged
<1>5. w.batch # {} /\ (\A s \in w.batch : s <= mark)
      /\ \A s \in entries \cap Deliverable : w.copy.lastSeq < s /\ s <= Max(w.batch) => s \in w.batch
  BY <1>1, <1>2 DEF CursorInv
<1>6. Max(w.batch) \in w.batch
  BY <1>3, <1>5, MaxOfSeqs
<1> HIDE DEF w
<1>7. Max(w.batch) \in 0..MaxSeq /\ Max(w.batch) <= mark
  BY <1>3, <1>5, <1>6 DEF Seqs
<1>8. moved \in Rows /\ Kept(w.copy, moved) /\ moved.lastSeq = Max(w.batch)
  BY <1>3, <1>7, MovedRow
<1> HIDE DEF moved
<1>9. PICK new \in Rows : new = RecordSuccess(moved)
  BY <1>8, SuccessRow
<1>10. Kept(moved, new) /\ new.lastSeq = Max(w.batch) /\ new.error = "none" /\ new.streak = 0
  BY <1>8, <1>9, SuccessRow
<1>11. Kept(w.copy, new) /\ new.reason = "none"
  BY <1>3, <1>8, <1>10 DEF Kept
<1>12. exists => Covered(new.lastSeq)'
  <2>1. ASSUME exists, NEW s \in entries \cap Deliverable, s <= Max(w.batch)
        PROVE  s \in served \cup w.batch
    <3>1. Covered(w.copy.lastSeq)
      BY <1>2, <2>1 DEF CursorInv, w
    <3>2. s \in Int /\ w.copy.lastSeq \in Int
      BY <1>3 DEF Deliverable, Seqs, Rows
    <3>3. s <= w.copy.lastSeq \/ w.copy.lastSeq < s
      BY <3>2
    <3> QED BY <1>5, <2>1, <3>1, <3>3 DEF Covered
  <2>2. exists => \A s \in entries \cap Deliverable : s <= Max(w.batch) => s \in served \cup w.batch
    BY <2>1
  <2> QED BY <1>4, <1>7, <1>10, <2>2 DEF Covered, logVars
<1>13. Strikes(new)'
  BY <1>10 DEF Strikes
<1>14. served \subseteq served' /\ served' \subseteq Seqs /\ latePosts' \in Nat
       /\ hardRun' \in 0..HardStrikes
  BY <1>2, <1>3, <1>4, DeliveryAssumption DEF TypeInv, TypeOK
<1>15. Commit(d, new, w.more)
  BY <1>4, <1>9
<1> QED BY <1>2, <1>3, <1>4, <1>11, <1>12, <1>13, <1>14, <1>15, CommitKeeps DEF w

\* One more strike of a run, counted in the row and in hardRun alike.
LEMMA StrikeCounted ==
  ASSUME NEW r \in Rows, Strikes(r), hardRun \in 0..HardStrikes,
         NEW new, new.error = "http_4xx", new.streak = Counted(r, "http_4xx").streak,
         hardRun' = Min({hardRun + 1, HardStrikes})
  PROVE  Strikes(new)' /\ (new.streak >= HardStrikes => hardRun' = HardStrikes)
<1> DEFINE before == IF r.error \in {"none", "http_4xx"} THEN r.streak ELSE 0
<1>1. new.streak = Min({before + 1, MaxStreak})
  <2>1. "http_4xx" \in Errors \ {"none"}
    BY DEF Errors
  <2> QED BY <2>1, CountedRow
<1>2. before \in Nat /\ (before <= hardRun \/ hardRun = HardStrikes)
  BY DEF Strikes, Rows
<1> HIDE DEF before
<1>3. hardRun' = IF hardRun + 1 <= HardStrikes THEN hardRun + 1 ELSE HardStrikes
  BY DeliveryAssumption, MinOfTwo
<1>4. new.streak \in Nat /\ new.streak <= before + 1
  BY <1>1, <1>2, StreakBound, MinOfTwo
<1>5. new.streak <= hardRun' \/ hardRun' = HardStrikes
  BY <1>2, <1>3, <1>4, DeliveryAssumption
<1>6. hardRun' <= HardStrikes /\ hardRun' \in Nat
  BY <1>3, DeliveryAssumption
<1>7. new.streak >= HardStrikes => hardRun' = HardStrikes
  BY <1>4, <1>5, <1>6, DeliveryAssumption
<1> QED BY <1>5, <1>7 DEF Strikes

LEMMA RefusedKeeps ==
  ASSUME DeliveryInv, NEW d \in Dispatchers, Refused(d)
  PROVE  DeliveryInv'
<1> DEFINE copy == worker[d].copy
<1>1. worker[d].pc = "posted"
  BY DEF Refused
<1>2. TypeInv /\ CursorInv /\ NoticeInv /\ AloneInv /\ Working(d)
  BY <1>1 DEF DeliveryInv, Working
<1>3. copy \in Rows /\ copy.reason = "none"
  BY <1>2, HeldFields DEF NoticeInv
<1>4. PICK response \in Responses :
          /\ Commit(d, AfterResponse(copy, response), FALSE)
          /\ hardRun' = IF response \in {"gone", "http_4xx"} THEN Min({hardRun + 1, HardStrikes})
                                                            ELSE 0
  BY DEF Refused
<1>5. /\ UNCHANGED <<logVars, scopeKnown, exists, lock, mail>>
      /\ UNCHANGED <<toldCreated, reactivated, mishaps, served, latePosts>>
  BY DEF Refused
<1>6. exists => Covered(copy.lastSeq)
  BY <1>2 DEF CursorInv
<1>7. Alone /\ exists => Strikes(copy)
  BY <1>2, AloneWorks
<1> HIDE DEF copy
<1>8. PICK new \in Rows : new = AfterResponse(copy, response)
  BY <1>3, AfterResponseRow
<1> DEFINE class == IF response \in {"gone", "http_4xx"} THEN "http_4xx" ELSE "retryable"
<1>9. /\ Kept(copy, new) \/ Ended(copy, new)
      /\ new.lastSeq = copy.lastSeq
      /\ new.error = class /\ new.streak = Counted(copy, class).streak
      /\ new.reason \in {copy.reason, "gone", "too_many_failures"}
             \/ /\ new.reason = "non_retryable_client_error"
                /\ class = "http_4xx" /\ new.streak >= HardStrikes
  BY <1>3, <1>8, AfterResponseRow
<1>10. hardRun \in 0..HardStrikes /\ hardRun' \in 0..HardStrikes
  <2>1. hardRun \in 0..HardStrikes
    BY <1>2 DEF TypeInv, TypeOK
  <2> QED BY <1>4, <2>1, DeliveryAssumption, MinOfTwo
<1>11. ASSUME Alone, exists
       PROVE  Strikes(new)' /\ (new.reason = "non_retryable_client_error" => hardRun' = HardStrikes)
  <2>1. CASE response \in {"gone", "http_4xx"}
    <3>1. new.error = "http_4xx" /\ new.streak = Counted(copy, "http_4xx").streak
      BY <1>9, <2>1
    <3>2. hardRun' = Min({hardRun + 1, HardStrikes})
      BY <1>4, <2>1
    <3>3. Strikes(new)' /\ (new.streak >= HardStrikes => hardRun' = HardStrikes)
      BY <1>3, <1>7, <1>10, <1>11, <3>1, <3>2, StrikeCounted
    <3> QED BY <1>3, <1>9, <3>3
  <2>2. CASE response \notin {"gone", "http_4xx"}
    <3>1. new.error = "retryable" /\ new.reason # "non_retryable_client_error"
      BY <1>3, <1>9, <2>2
    <3> QED BY <3>1 DEF Strikes
  <2> QED BY <2>1, <2>2
<1>12. exists => Covered(new.lastSeq)'
  BY <1>5, <1>6, <1>9 DEF Covered, logVars
<1>13. served \subseteq served' /\ served' \subseteq Seqs /\ latePosts' \in Nat
  BY <1>2, <1>5 DEF TypeInv, TypeOK
<1>14. Commit(d, new, FALSE)
  BY <1>4, <1>8
<1>15. Kept(copy, new) \/ (Ended(copy, new) /\ ~FALSE)
  BY <1>9
<1> QED BY <1>2, <1>5, <1>10, <1>11, <1>12, <1>13, <1>14, <1>15, CommitKeeps DEF copy

-----------------------------------------------------------------------------
(* The rest of a dispatcher's life.                                        *)

\* A thread that stops takes nothing with it.
LEMMA StopKeeps ==
  ASSUME DeliveryInv, NEW d \in Dispatchers, worker' = [worker EXCEPT ![d] = Idle],
         UNCHANGED <<logVars, scopeKnown, exists, row, mail>>,
         UNCHANGED <<toldCreated, toldDisabled, reactivated, hardRun, latePosts>>,
         served \subseteq served', served' \subseteq Seqs,
         lock' \in Dispatchers \cup {NoOne}, lock' = lock \/ lock = d,
         mishaps' \in 0..MaxMishaps, mishaps' = 0 => mishaps = 0
  PROVE  DeliveryInv'
<1>1. TypeInv /\ CursorInv /\ NoticeInv /\ AloneInv
  BY DEF DeliveryInv
<1>2. /\ worker' = [e \in Dispatchers |-> worker'[e]]
      /\ worker'[d] = Idle /\ \A e \in Dispatchers : e # d => worker'[e] = worker[e]
  BY <1>1 DEF TypeInv
<1>3. \A e \in Dispatchers : worker'[e] = worker[e] \/ worker'[e] = Idle
  BY <1>2
<1>4. /\ \A e \in Dispatchers : Working(e)' => Working(e) /\ worker'[e] = worker[e]
      /\ \A e \in Dispatchers : worker'[e].pc = "posted" => worker'[e] = worker[e]
  BY <1>3, IdleIsWorker DEF Working
<1>5. TypeInv'
  <2>1. TypeOK'
    BY <1>1, <1>3, IdleIsWorker DEF TypeInv, TypeOK, logVars
  <2> QED BY <1>1, <1>2, <2>1 DEF TypeInv, NewRow
<1>6. CursorInv'
  <2>1. exists' => Covered(row.lastSeq)'
    BY <1>1 DEF CursorInv, Covered, logVars
  <2>2. ASSUME NEW e \in Dispatchers
        PROVE  /\ worker'[e] # Idle => worker'[e].window <= mark'
               /\ exists' /\ Working(e)' => Covered(worker[e].copy.lastSeq)'
    BY <1>1, <1>3, <1>4 DEF CursorInv, Covered, logVars
  <2>3. ASSUME NEW e \in Dispatchers, worker'[e].pc = "posted"
        PROVE  /\ worker'[e].batch # {} /\ \A s \in worker'[e].batch : s <= mark'
               /\ \A s \in entries' \cap Deliverable :
                      worker'[e].copy.lastSeq < s /\ s <= Max(worker'[e].batch)
                          => s \in worker'[e].batch
    BY <1>1, <1>4, <2>3 DEF CursorInv, logVars
  <2> QED BY <2>1, <2>2, <2>3 DEF CursorInv
<1>7. NoticeInv'
  BY <1>1, <1>4 DEF NoticeInv, CreatedIsTold, FirstDisableIsTold
<1>8. AloneInv'
  <2>1. mishaps' = 0 => \A e \in Dispatchers : worker'[e] # Idle => lock' = e
    BY <1>1, <1>2 DEF AloneInv
  <2>2. Alone' => Alone
    BY DEF Alone
  <2> QED BY <1>1, <1>4, <2>1, <2>2 DEF AloneInv, HardStrikesConsecutive, Strikes
<1> QED BY <1>5, <1>6, <1>7, <1>8 DEF DeliveryInv

LEMMA OutOfTimeKeeps ==
  ASSUME DeliveryInv, NEW d \in Dispatchers, OutOfTime(d)
  PROVE  DeliveryInv'
<1>1. TypeOK
  BY DEF DeliveryInv, TypeInv
<1>2. /\ worker' = [worker EXCEPT ![d] = Idle]
      /\ UNCHANGED <<logVars, scopeKnown, exists, row, mail>>
      /\ UNCHANGED <<toldCreated, toldDisabled, reactivated, hardRun, latePosts>>
      /\ served' = served /\ lock' = lock /\ mishaps' = mishaps
  BY DEF OutOfTime, ghosts
<1>3. served \subseteq served' /\ served' \subseteq Seqs /\ lock' \in Dispatchers \cup {NoOne}
      /\ mishaps' \in 0..MaxMishaps
  BY <1>1, <1>2 DEF TypeOK
<1> QED BY <1>2, <1>3, StopKeeps

LEMMA CrashKeeps ==
  ASSUME DeliveryInv, NEW d \in Dispatchers, Crash(d)
  PROVE  DeliveryInv'
<1>1. TypeInv /\ TypeOK
  BY DEF DeliveryInv, TypeInv
<1>2. /\ worker' = [worker EXCEPT ![d] = Idle]
      /\ UNCHANGED <<logVars, scopeKnown, exists, row, mail>>
      /\ UNCHANGED <<toldCreated, toldDisabled, reactivated, hardRun, latePosts>>
      /\ served' = served \/ (worker[d].pc = "posted" /\ served' = served \cup worker[d].batch)
      /\ lock' = IF lock = d THEN NoOne ELSE lock
      /\ mishaps' = mishaps + 1 /\ mishaps < MaxMishaps
  BY DEF Crash
<1>3. worker[d].pc = "posted" => worker[d].batch \subseteq Seqs
  BY <1>1, HeldFields
<1>4. served \subseteq served' /\ served' \subseteq Seqs
  BY <1>1, <1>2, <1>3 DEF TypeOK
<1>5. lock' \in Dispatchers \cup {NoOne} /\ (lock' = lock \/ lock = d)
  BY <1>1, <1>2 DEF TypeOK
<1>6. mishaps' \in 0..MaxMishaps /\ mishaps' # 0
  BY <1>1, <1>2, DeliveryAssumption DEF TypeOK
<1> QED BY <1>2, <1>4, <1>5, <1>6, StopKeeps

\* A thread that starts, or comes to hold the row as it is.
LEMMA StartKeeps ==
  ASSUME DeliveryInv, NEW d \in Dispatchers, NEW w \in Workers, w # Idle,
         w.pc \in {"due", "loop"}, w.window <= mark,
         w.pc = "loop" => w.copy = row /\ exists /\ row.active,
         worker' = [worker EXCEPT ![d] = w],
         UNCHANGED <<logVars, scopeKnown, exists, row, mail, ghosts, mishaps>>,
         lock' \in Dispatchers \cup {NoOne},
         mishaps = 0 => lock' = d /\ \A e \in Dispatchers : worker[e] # Idle => e = d
  PROVE  DeliveryInv'
<1>1. TypeInv /\ CursorInv /\ NoticeInv /\ AloneInv
  BY DEF DeliveryInv
<1>2. /\ worker' = [e \in Dispatchers |-> worker'[e]]
      /\ worker'[d] = w /\ \A e \in Dispatchers : e # d => worker'[e] = worker[e]
  BY <1>1 DEF TypeInv
<1>3. \A e \in Dispatchers : e # d => worker'[e] = worker[e] /\ (Working(e)' <=> Working(e))
  BY <1>2 DEF Working
<1>4. worker'[d].pc # "posted" /\ (Working(d)' => worker'[d].copy = row /\ exists /\ row.active)
  BY <1>2 DEF Working
<1>5. TypeInv'
  <2>1. \A e \in Dispatchers : worker'[e] \in Workers
    BY <1>1, <1>2 DEF TypeInv, TypeOK
  <2>2. TypeOK'
    BY <1>1, <2>1 DEF TypeInv, TypeOK, logVars, ghosts
  <2> QED BY <1>1, <1>2, <2>2 DEF TypeInv, NewRow
<1>6. CursorInv'
  <2>1. exists' => Covered(row.lastSeq)'
    BY <1>1 DEF CursorInv, Covered, logVars, ghosts
  <2>2. ASSUME NEW e \in Dispatchers, e # d
        PROVE  /\ worker'[e] # Idle => worker'[e].window <= mark'
               /\ exists' /\ Working(e)' => Covered(worker[e].copy.lastSeq)'
               /\ worker'[e].pc = "posted" =>
                    /\ worker'[e].batch # {} /\ \A s \in worker'[e].batch : s <= mark'
                    /\ \A s \in entries' \cap Deliverable :
                           worker'[e].copy.lastSeq < s /\ s <= Max(worker'[e].batch)
                               => s \in worker'[e].batch
    BY <1>1, <1>3, <2>2 DEF CursorInv, Covered, logVars, ghosts
  <2>3. worker'[d].window <= mark'
    BY <1>2 DEF logVars
  <2>4. exists' /\ Working(d)' => Covered(worker[d].copy.lastSeq)'
    BY <1>1, <1>4 DEF CursorInv, Covered, logVars, ghosts
  <2> QED BY <1>4, <2>1, <2>2, <2>3, <2>4 DEF CursorInv
<1>7. NoticeInv'
  <2>1. row.active => row.reason = "none"
    BY <1>1 DEF AloneInv
  <2>2. exists /\ row.active => /\ toldCreated \/ row.notify \in CreatedNotices
                                /\ reactivated \/ row.notify \notin DisabledNotices
    BY <1>1 DEF NoticeInv, CreatedIsTold, CreatedNotices
  <2> QED BY <1>1, <1>3, <1>4, <2>1, <2>2
          DEF NoticeInv, CreatedIsTold, FirstDisableIsTold, ghosts
<1>8. AloneInv'
  <2>1. mishaps' = 0 => \A e \in Dispatchers : worker'[e] # Idle => lock' = e
    BY <1>2
  <2>2. Alone' <=> Alone
    BY DEF Alone
  <2>3. Alone => HardStrikesConsecutive' /\ (exists' => Strikes(row)')
    BY <1>1 DEF AloneInv, HardStrikesConsecutive, Strikes, ghosts
  <2>4. ASSUME Alone, exists, NEW e \in Dispatchers, Working(e)'
        PROVE  /\ row'.active
               /\ worker'[e].copy.error = row'.error
               /\ worker'[e].copy.streak = row'.streak
               /\ worker'[e].copy.lastSeq = row'.lastSeq
    BY <1>1, <1>3, <1>4, <2>4 DEF AloneInv
  <2> QED BY <1>1, <2>1, <2>2, <2>3, <2>4 DEF AloneInv
<1> QED BY <1>5, <1>6, <1>7, <1>8 DEF DeliveryInv

LEMMA TickKeeps ==
  ASSUME DeliveryInv, NEW d \in Dispatchers, Tick(d)
  PROVE  DeliveryInv'
<1> DEFINE w == [pc |-> "due", window |-> mark]
<1>1. TypeOK /\ AloneInv
  BY DEF DeliveryInv, TypeInv
<1>2. mark \in 0..MaxSeq
  BY <1>1 DEF TypeOK
<1>3. w.pc = "due" /\ w.window <= mark
  BY <1>2
<1>4. w \in Workers
  BY <1>2 DEF Workers
<1>5. w # Idle
  BY <1>3, IdleIsWorker
<1>6. mishaps = 0 => \A e \in Dispatchers : worker[e] # Idle => e = d
  <2>1. lock \in {NoOne, d} /\ NoOne \notin Dispatchers
    BY DeliveryAssumption DEF Tick
  <2> QED BY <1>1, <2>1 DEF AloneInv
<1>7. /\ worker' = [worker EXCEPT ![d] = w] /\ lock' = d
      /\ UNCHANGED <<logVars, scopeKnown, exists, row, mail, ghosts, mishaps>>
  BY DEF Tick
<1> HIDE DEF w
<1> QED BY <1>3, <1>4, <1>5, <1>6, <1>7, StartKeeps

LEMMA LoadKeeps ==
  ASSUME DeliveryInv, NEW d \in Dispatchers, Load(d)
  PROVE  DeliveryInv'
<1>1. TypeInv /\ TypeOK /\ AloneInv /\ CursorInv
  BY DEF DeliveryInv, TypeInv
<1>2. worker[d].pc = "due" /\ worker[d] # Idle
  BY IdleIsWorker DEF Load
<1>3. worker[d].window \in 0..MaxSeq /\ worker[d].window <= mark /\ row \in Rows
  BY <1>1, <1>2, HeldFields DEF CursorInv, TypeOK
<1>4. UNCHANGED <<logVars, scopeKnown, exists, row, lock, mail, ghosts, mishaps>>
  BY DEF Load
<1>5. CASE exists /\ row.active
  <2> DEFINE w == [pc |-> "loop", window |-> worker[d].window, copy |-> row]
  <2>1. w \in Workers
    BY <1>3, LoopIsWorker
  <2>2. w.pc = "loop" /\ w.window <= mark /\ w.copy = row
    BY <1>3
  <2>3. w # Idle
    BY <2>2, IdleIsWorker
  <2>4. worker' = [worker EXCEPT ![d] = w]
    BY <1>5 DEF Load
  <2> HIDE DEF w
  <2>5. mishaps = 0 => lock = d /\ \A e \in Dispatchers : worker[e] # Idle => e = d
    BY <1>1, <1>2 DEF AloneInv
  <2>6. lock' = lock /\ lock' \in Dispatchers \cup {NoOne}
    BY <1>1, <1>4 DEF TypeOK
  <2> QED BY <1>4, <1>5, <2>1, <2>2, <2>3, <2>4, <2>5, <2>6, StartKeeps
<1>6. CASE ~(exists /\ row.active)
  <2>1. worker' = [worker EXCEPT ![d] = Idle]
    BY <1>6 DEF Load
  <2>2. served' = served /\ lock' = lock /\ mishaps' = mishaps
        /\ UNCHANGED <<logVars, scopeKnown, exists, row, mail>>
        /\ UNCHANGED <<toldCreated, toldDisabled, reactivated, hardRun, latePosts>>
    BY <1>4 DEF ghosts
  <2>3. served \subseteq served' /\ served' \subseteq Seqs /\ lock' \in Dispatchers \cup {NoOne}
        /\ mishaps' \in 0..MaxMishaps
    BY <1>1, <2>2 DEF TypeOK
  <2> QED BY <2>1, <2>2, <2>3, StopKeeps
<1> QED BY <1>5, <1>6

LEMMA InternalErrorKeeps ==
  ASSUME DeliveryInv, NEW d \in Dispatchers, InternalError(d)
  PROVE  DeliveryInv'
<1> DEFINE failed == MaybeAutoDisable(ApplyBackoff(RecordFailure(row, "retryable")))
<1>1. TypeInv /\ TypeOK /\ CursorInv /\ NoticeInv /\ AloneInv /\ Working(d)
  BY DEF DeliveryInv, TypeInv, InternalError, Working
<1>2. row \in Rows /\ "retryable" \in Errors \ {"none"}
  BY <1>1 DEF TypeOK, Errors
<1>3. PICK new \in Rows : new = failed
  BY <1>2, BackedOffRow
<1>4. /\ Kept(row, new) \/ Ended(row, new)
      /\ new.lastSeq = row.lastSeq /\ new.error = "retryable"
      /\ new.reason \in {row.reason, "too_many_failures"}
  BY <1>2, <1>3, BackedOffRow
<1>5. /\ exists => row' = new /\ toldDisabled' = (toldDisabled /\ ~(row.active /\ ~new.active))
      /\ ~exists => row' = row /\ toldDisabled' = toldDisabled
      /\ worker' = [worker EXCEPT ![d] = Idle]
      /\ mishaps < MaxMishaps /\ mishaps' = mishaps + 1 /\ hardRun' = 0
      /\ UNCHANGED <<logVars, scopeKnown, exists, lock, mail, served, toldCreated,
                     reactivated, latePosts>>
  BY <1>3 DEF InternalError, Unreported
<1> HIDE DEF failed
<1>6. /\ worker' = [e \in Dispatchers |-> worker'[e]]
      /\ worker'[d] = Idle /\ \A e \in Dispatchers : e # d => worker'[e] = worker[e]
  BY <1>1, <1>5 DEF TypeInv
<1>7. /\ \A e \in Dispatchers : worker'[e] = worker[e] \/ worker'[e] = Idle
      /\ \A e \in Dispatchers : Working(e)' => Working(e) /\ worker'[e] = worker[e]
      /\ \A e \in Dispatchers : worker'[e].pc = "posted" => worker'[e] = worker[e]
  BY <1>6, IdleIsWorker DEF Working
<1>8. mishaps' \in 0..MaxMishaps /\ mishaps' # 0
  BY <1>1, <1>5, DeliveryAssumption DEF TypeOK
<1>9. TypeInv'
  <2>1. row' \in Rows /\ toldDisabled' \in BOOLEAN
    BY <1>1, <1>2, <1>5 DEF TypeOK
  <2>2. \A e \in Dispatchers : worker'[e] \in Workers
    BY <1>1, <1>7, IdleIsWorker DEF TypeOK
  <2>3. TypeOK'
    BY <1>1, <1>5, <1>8, <2>1, <2>2, DeliveryAssumption DEF TypeOK, logVars
  <2> QED BY <1>1, <1>5, <1>6, <2>3 DEF TypeInv, NewRow
<1>10. CursorInv'
  <2>1. exists' => Covered(row.lastSeq)'
    BY <1>1, <1>4, <1>5 DEF CursorInv, Covered, logVars
  <2>2. ASSUME NEW e \in Dispatchers
        PROVE  /\ worker'[e] # Idle => worker'[e].window <= mark'
               /\ exists' /\ Working(e)' => Covered(worker[e].copy.lastSeq)'
    BY <1>1, <1>5, <1>7 DEF CursorInv, Covered, logVars
  <2>3. ASSUME NEW e \in Dispatchers, worker'[e].pc = "posted"
        PROVE  /\ worker'[e].batch # {} /\ \A s \in worker'[e].batch : s <= mark'
               /\ \A s \in entries' \cap Deliverable :
                      worker'[e].copy.lastSeq < s /\ s <= Max(worker'[e].batch)
                          => s \in worker'[e].batch
    BY <1>1, <1>5, <1>7, <2>3 DEF CursorInv, logVars
  <2> QED BY <2>1, <2>2, <2>3 DEF CursorInv
<1>11. new.active \in BOOLEAN /\ row.active \in BOOLEAN /\ toldDisabled \in BOOLEAN
  BY <1>1, <1>2 DEF Rows, TypeOK
<1>12. NoticeInv'
  <2>1. ASSUME exists
        PROVE  /\ toldCreated \/ new.notify \in CreatedNotices
               /\ ~new.active /\ ~reactivated => toldDisabled' \/ new.notify \in DisabledNotices
               /\ ~reactivated /\ new.notify \in DisabledNotices => ~new.active
               /\ ~reactivated /\ mail.phase # "idle" /\ mail.notice \in DisabledNotices =>
                      ~new.active /\ (mail.phase = "sent" => toldDisabled')
    <3>1. /\ toldCreated \/ row.notify \in CreatedNotices
          /\ ~row.active /\ ~reactivated => toldDisabled \/ row.notify \in DisabledNotices
          /\ ~reactivated /\ row.notify \in DisabledNotices => ~row.active
          /\ ~reactivated /\ mail.phase # "idle" /\ mail.notice \in DisabledNotices =>
                 ~row.active /\ (mail.phase = "sent" => toldDisabled)
      BY <1>1, <2>1 DEF NoticeInv, CreatedIsTold, FirstDisableIsTold, CreatedNotices, DisabledNotices
    <3>2. CASE Kept(row, new)
      BY <1>5, <1>11, <2>1, <3>1, <3>2 DEF Kept
    <3>3. CASE Ended(row, new)
      <4>1. ~new.active /\ new.notify = DisabledNotice(row.notify)
        BY <3>3 DEF Ended
      <4>2. /\ new.notify \in DisabledNotices
            /\ row.notify \in CreatedNotices => new.notify \in CreatedNotices
        BY <4>1 DEF DisabledNotice, DisabledNotices, CreatedNotices
      <4> QED BY <1>5, <1>11, <2>1, <3>1, <4>1, <4>2
    <3> QED BY <1>4, <3>2, <3>3
  <2>2. exists => CreatedIsTold' /\ FirstDisableIsTold'
    BY <1>5, <2>1 DEF CreatedIsTold, FirstDisableIsTold, CreatedNotices, DisabledNotices
  <2> QED BY <1>1, <1>5, <1>7, <2>1, <2>2 DEF NoticeInv
<1>13. AloneInv'
  <2>1. row'.active <=> row'.reason = "none"
    <3>1. row.active <=> row.reason = "none"
      BY <1>1 DEF AloneInv
    <3> QED BY <1>4, <1>5, <3>1 DEF Kept, Ended
  <2>2. ASSUME Alone'
        PROVE  /\ HardStrikesConsecutive' /\ (exists' => Strikes(row)')
               /\ \A e \in Dispatchers : ~Working(e)'
    <3>1. Alone /\ \A e \in Dispatchers : e = d
      BY <1>8, <2>2 DEF Alone
    <3>2. row.reason = "none"
      BY <1>1, <3>1, AloneWorks
    <3>3. HardStrikesConsecutive'
      BY <1>4, <1>5, <3>2 DEF HardStrikesConsecutive
    <3>4. exists' => Strikes(row)'
      BY <1>4, <1>5 DEF Strikes
    <3> QED BY <1>6, <3>1, <3>3, <3>4, IdleIsWorker DEF Working
  <2> QED BY <1>8, <2>1, <2>2 DEF AloneInv
<1> QED BY <1>9, <1>10, <1>12, <1>13 DEF DeliveryInv

-----------------------------------------------------------------------------
(* What the others do.                                                     *)

\* No thread moves.
LEMMA CursorStays ==
  ASSUME CursorInv, UNCHANGED <<logVars, worker>>, served \subseteq served',
         exists' => exists /\ Covered(row.lastSeq)'
  PROVE  CursorInv'
<1>1. ASSUME NEW e \in Dispatchers
      PROVE  /\ worker'[e] # Idle => worker'[e].window <= mark'
             /\ exists' /\ Working(e)' => Covered(worker[e].copy.lastSeq)'
  BY DEF CursorInv, Covered, logVars, Working
<1>2. ASSUME NEW e \in Dispatchers, worker'[e].pc = "posted"
      PROVE  /\ worker'[e].batch # {} /\ \A s \in worker'[e].batch : s <= mark'
             /\ \A s \in entries' \cap Deliverable :
                    worker'[e].copy.lastSeq < s /\ s <= Max(worker'[e].batch)
                        => s \in worker'[e].batch
  BY <1>2 DEF CursorInv, logVars
<1> QED BY <1>1, <1>2 DEF CursorInv

LEMMA DeleteKeeps ==
  ASSUME DeliveryInv, Delete
  PROVE  DeliveryInv'
<1>1. TypeInv /\ TypeOK /\ CursorInv /\ NoticeInv /\ AloneInv
  BY DEF DeliveryInv, TypeInv
<1>2. exists' = FALSE /\ row' = NewRow /\ NewRow \in Rows
  BY NewRowIsRow DEF Delete
<1>3. TypeInv'
  <2>1. /\ exists' = FALSE /\ row' \in Rows /\ served' = {} /\ hardRun' = 0
        /\ toldCreated' = FALSE /\ toldDisabled' = FALSE /\ reactivated' = FALSE
        /\ 0 \in 0..HardStrikes
    BY <1>2, DeliveryAssumption DEF Delete
  <2>2. UNCHANGED <<logVars, scopeKnown, worker, lock, mail, latePosts, mishaps>>
    BY DEF Delete
  <2>3. TypeOK'
    BY <1>1, <2>1, <2>2 DEF TypeOK, logVars
  <2> QED BY <1>1, <1>2, <2>2, <2>3 DEF TypeInv, NewRow
<1>4. CursorInv'
  BY <1>1, <1>2 DEF CursorInv, Delete, logVars
<1>5. NoticeInv'
  BY <1>1, <1>2 DEF NoticeInv, Delete, Working
<1>6. AloneInv'
  BY <1>1, <1>2 DEF AloneInv, Delete, NewRow, Alone, HardStrikesConsecutive
<1> QED BY <1>3, <1>4, <1>5, <1>6 DEF DeliveryInv

LEMMA ReactivateKeeps ==
  ASSUME DeliveryInv, Reactivate
  PROVE  DeliveryInv'
<1>1. TypeInv /\ TypeOK /\ CursorInv /\ NoticeInv /\ AloneInv
  BY DEF DeliveryInv, TypeInv
<1>2. PICK to \in {row.lastSeq, Advanced(row.lastSeq, mark)} :
         /\ row' = [row EXCEPT !.active = TRUE, !.reason = "none", !.streak = 0,
                               !.failing = "no", !.backedOff = FALSE, !.lastSeq = to,
                               !.notify = NoticeAfterReactivation(@)]
         /\ served' = served \cup ((row.lastSeq + 1)..to)
  BY DEF Reactivate
<1>3. /\ exists /\ row.reason # "none" /\ reactivated' = TRUE /\ hardRun' = 0
      /\ UNCHANGED <<logVars, scopeKnown, exists, worker, lock, mail, toldCreated,
                     toldDisabled, latePosts, mishaps>>
  BY DEF Reactivate
<1>4. row \in Rows /\ row.lastSeq \in 0..MaxSeq /\ mark \in 0..MaxSeq /\ row.lastSeq <= mark
      /\ row.notify \in Notices
  BY <1>1, <1>3 DEF TypeOK, Rows, CursorInv, Covered
<1>5. to \in 0..MaxSeq /\ to <= mark
  BY <1>4, MaxOfTwo DEF Advanced
<1>6. /\ row' \in Rows /\ row'.active /\ row'.reason = "none" /\ row'.streak = 0
      /\ row'.error = row.error /\ row'.lastSeq = to
      /\ row'.notify = NoticeAfterReactivation(row.notify)
  <2>1. NoticeAfterReactivation(row.notify) \in Notices
    BY <1>4 DEF NoticeAfterReactivation, Notices
  <2>2. 0 \in 0..MaxStreak /\ "none" \in Reasons
    BY StreakBound DEF Reasons
  <2> QED BY <1>2, <1>4, <1>5, <2>1, <2>2 DEF Rows
<1>7. TypeInv'
  <2>1. served' \subseteq Seqs
    <3>1. (row.lastSeq + 1)..to \subseteq Seqs
      BY <1>4, <1>5, DeliveryAssumption DEF Seqs
    <3> QED BY <1>1, <1>2, <3>1 DEF TypeOK
  <2>2. TypeOK'
    BY <1>1, <1>3, <1>6, <2>1, DeliveryAssumption DEF TypeOK, logVars
  <2> QED BY <1>1, <1>3, <2>2 DEF TypeInv
<1>8. CursorInv'
  <2>1. Covered(row.lastSeq)
    BY <1>1, <1>3 DEF CursorInv
  <2>2. ASSUME NEW s \in entries \cap Deliverable, s <= to
        PROVE  s \in served'
    <3>1. s \in Int
      BY DEF Deliverable, Seqs
    <3>2. s <= row.lastSeq \/ s \in (row.lastSeq + 1)..to
      BY <1>4, <1>5, <2>2, <3>1
    <3> QED BY <1>2, <2>1, <2>2, <3>2 DEF Covered
  <2>3. Covered(row.lastSeq)'
    BY <1>3, <1>5, <1>6, <2>2 DEF Covered, logVars
  <2> QED BY <1>1, <1>2, <1>3, <2>3, CursorStays
<1>9. NoticeInv'
  <2>1. CreatedIsTold'
    BY <1>1, <1>3, <1>6 DEF NoticeInv, CreatedIsTold, NoticeAfterReactivation
  <2> QED BY <1>1, <1>3, <2>1 DEF NoticeInv, FirstDisableIsTold, Working
<1>10. AloneInv'
  <2>1. ~row.active
    BY <1>1, <1>3 DEF AloneInv
  <2>2. Alone' => \A e \in Dispatchers : ~Working(e)'
    BY <1>1, <1>3, <2>1 DEF AloneInv, Alone, Working
  <2>3. Alone' => HardStrikesConsecutive' /\ Strikes(row)'
    <3>1. HardStrikesConsecutive'
      BY <1>6 DEF HardStrikesConsecutive
    <3>2. Strikes(row)'
      BY <1>3, <1>6, DeliveryAssumption DEF Strikes
    <3> QED BY <3>1, <3>2
  <2> QED BY <1>1, <1>3, <1>6, <2>2, <2>3 DEF AloneInv
<1> QED BY <1>7, <1>8, <1>9, <1>10 DEF DeliveryInv

\* The mailer moves no thread, no cursor and no strike.
LEMMA MailerKeeps ==
  ASSUME DeliveryInv, MailerReads \/ MailerSends \/ MailerClears \/ MailerStops
  PROVE  DeliveryInv'
<1>1. TypeInv /\ TypeOK /\ CursorInv /\ NoticeInv /\ AloneInv
  BY DEF DeliveryInv, TypeInv
<1>2. UNCHANGED <<logVars, scopeKnown, exists, worker, lock, served, reactivated,
                  hardRun, latePosts, mishaps>>
  BY DEF MailerReads, MailerSends, MailerClears, MailerStops, ghosts
<1>3. row \in Rows /\ mail \in [phase : {"idle", "read", "sent"}, notice : Notices]
      /\ "none" \in Notices
  BY <1>1 DEF TypeOK, Notices
<1>4. row' = row \/ (exists /\ mail.phase = "sent"
                     /\ row' = [row EXCEPT !.notify = Cleared(@, mail.notice)])
  BY DEF MailerReads, MailerSends, MailerClears, MailerStops
<1>5. /\ row' \in Rows /\ row'.lastSeq = row.lastSeq /\ row'.active = row.active
      /\ row'.reason = row.reason /\ row'.error = row.error /\ row'.streak = row.streak
  <2>1. Cleared(row.notify, mail.notice) \in Notices
    BY <1>3 DEF Cleared, Rows
  <2> QED BY <1>3, <1>4, <2>1 DEF Rows
<1>6. mail' \in [phase : {"idle", "read", "sent"}, notice : Notices]
      /\ toldCreated' \in BOOLEAN /\ toldDisabled' \in BOOLEAN
  <2>1. NoMail \in [phase : {"idle", "read", "sent"}, notice : Notices]
    BY <1>3 DEF NoMail
  <2>2. row.notify \in Notices
    BY <1>3 DEF Rows
  <2>3. CASE MailerReads
    BY <1>1, <2>2, <2>3 DEF MailerReads, ghosts, TypeOK
  <2>4. CASE MailerSends
    BY <1>3, <2>4 DEF MailerSends
  <2>5. CASE MailerClears
    BY <1>1, <2>1, <2>5 DEF MailerClears, ghosts, TypeOK
  <2>6. CASE MailerStops
    BY <1>1, <2>1, <2>6 DEF MailerStops, ghosts, TypeOK
  <2> QED BY <2>3, <2>4, <2>5, <2>6
<1>7. TypeInv'
  <2>1. TypeOK'
    BY <1>1, <1>2, <1>5, <1>6 DEF TypeOK, logVars
  <2> QED BY <1>1, <1>2, <1>4, <2>1 DEF TypeInv, NewRow
<1>8. CursorInv'
  <2>1. exists' => exists /\ Covered(row.lastSeq)'
    BY <1>1, <1>2, <1>5 DEF CursorInv, Covered, logVars
  <2> QED BY <1>1, <1>2, <2>1, CursorStays
<1>9. AloneInv'
  BY <1>1, <1>2, <1>5 DEF AloneInv, Alone, Working, HardStrikesConsecutive, Strikes
<1>10. NoticeInv'
  <2>1. \A e \in Dispatchers : Working(e)' <=> Working(e)
    BY <1>2 DEF Working
  <2>2. ASSUME exists
        PROVE  /\ toldCreated \/ row.notify \in CreatedNotices
               /\ ~row.active /\ ~reactivated => toldDisabled \/ row.notify \in DisabledNotices
               /\ mail.phase = "sent" /\ mail.notice \in CreatedNotices => toldCreated
               /\ ~reactivated /\ row.notify \in DisabledNotices => ~row.active
               /\ ~reactivated /\ mail.phase # "idle" /\ mail.notice \in DisabledNotices =>
                      ~row.active /\ (mail.phase = "sent" => toldDisabled)
    BY <1>1, <2>2 DEF NoticeInv, CreatedIsTold, FirstDisableIsTold, CreatedNotices, DisabledNotices
  <2>3. (toldCreated => toldCreated') /\ (toldDisabled => toldDisabled')
    <3>1. CASE MailerSends
      BY <3>1, Zenon DEF MailerSends
    <3>2. CASE MailerReads \/ MailerClears \/ MailerStops
      BY <3>2 DEF MailerReads, MailerClears, MailerStops, ghosts
    <3> QED BY <3>1, <3>2
  <2>4. ASSUME exists
        PROVE  /\ toldCreated' \/ row'.notify \in CreatedNotices
               /\ ~row'.active /\ ~reactivated => toldDisabled' \/ row'.notify \in DisabledNotices
               /\ mail'.phase = "sent" /\ mail'.notice \in CreatedNotices => toldCreated'
               /\ ~reactivated /\ row'.notify \in DisabledNotices => ~row'.active
               /\ ~reactivated /\ mail'.phase # "idle" /\ mail'.notice \in DisabledNotices =>
                      ~row'.active /\ (mail'.phase = "sent" => toldDisabled')
    <3>1. CASE MailerReads
      <4>1. row' = row /\ mail'.phase = "read" /\ mail'.notice = row.notify
            /\ toldDisabled' = toldDisabled /\ toldCreated' = toldCreated
        BY <3>1 DEF MailerReads, ghosts
      <4> QED BY <2>2, <2>4, <4>1
    <3>2. CASE MailerSends
      <4>1. /\ row' = row /\ mail.phase = "read" /\ mail'.phase = "sent" /\ mail'.notice = mail.notice
            /\ toldCreated' = (toldCreated \/ mail.notice \in CreatedNotices)
            /\ toldDisabled' = (toldDisabled \/ mail.notice \in DisabledNotices)
        BY <1>3, <3>2 DEF MailerSends, CreatedNotices, DisabledNotices
      <4> QED BY <2>2, <2>4, <4>1
    <3>3. CASE MailerClears
      <4>1. /\ mail.phase = "sent" /\ mail'.phase = "idle"
            /\ toldDisabled' = toldDisabled /\ toldCreated' = toldCreated
            /\ row' = [row EXCEPT !.notify = Cleared(@, mail.notice)]
        BY <2>4, <3>3 DEF MailerClears, ghosts, NoMail
      <4>2. row'.notify = Cleared(row.notify, mail.notice) /\ row'.active = row.active
        BY <1>3, <4>1 DEF Rows
      <4>3. row'.notify = IF row.notify = mail.notice THEN "none" ELSE row.notify
        BY <4>2 DEF Cleared
      <4>4. "none" \notin CreatedNotices /\ "none" \notin DisabledNotices
        BY DEF CreatedNotices, DisabledNotices
      <4>5. toldCreated' \/ row'.notify \in CreatedNotices
        BY <2>2, <2>4, <4>1, <4>3
      <4>6. ~row'.active /\ ~reactivated => toldDisabled' \/ row'.notify \in DisabledNotices
        BY <2>2, <2>4, <4>1, <4>2, <4>3
      <4>7. ~reactivated /\ row'.notify \in DisabledNotices => ~row'.active
        BY <2>2, <2>4, <4>2, <4>3, <4>4
      <4> QED BY <4>1, <4>5, <4>6, <4>7
    <3>4. CASE MailerStops
      <4>1. /\ row' = row /\ mail'.phase = "idle"
            /\ toldDisabled' = toldDisabled /\ toldCreated' = toldCreated
        BY <3>4 DEF MailerStops, ghosts, NoMail
      <4> QED BY <2>2, <2>4, <4>1
    <3> QED BY <3>1, <3>2, <3>3, <3>4
  <2>5. exists => CreatedIsTold' /\ FirstDisableIsTold'
    BY <1>2, <2>4 DEF CreatedIsTold, FirstDisableIsTold, CreatedNotices, DisabledNotices
  <2> QED BY <1>1, <1>2, <2>1, <2>3, <2>4, <2>5 DEF NoticeInv
<1> QED BY <1>7, <1>8, <1>9, <1>10 DEF DeliveryInv

-----------------------------------------------------------------------------
(* What just happens.                                                      *)

LEMMA LogGrowsKeeps ==
  ASSUME DeliveryInv, LogGrows
  PROVE  DeliveryInv'
<1>1. TypeInv /\ TypeOK /\ CursorInv /\ NoticeInv /\ AloneInv
  BY DEF DeliveryInv, TypeInv
<1>2. PICK m \in (mark + 1)..MaxSeq : \E more \in SUBSET ((mark + 1)..m) :
          mark' = m /\ entries' = entries \cup more
  BY DEF LogGrows, Log!Next, Log!Advance
<1>3. PICK more \in SUBSET ((mark + 1)..m) : mark' = m /\ entries' = entries \cup more
  BY <1>2
<1>4. UNCHANGED <<scopeKnown, exists, row, worker, lock, mail, ghosts, mishaps>>
  BY DEF LogGrows
<1>5. mark \in 0..MaxSeq /\ entries \subseteq 1..mark
  BY <1>1 DEF TypeOK
<1>6. mark' \in 0..MaxSeq /\ entries' \subseteq 1..mark' /\ mark <= mark'
  BY <1>3, <1>5, DeliveryAssumption
<1>7. \A s \in entries' : s \in Int /\ (s <= mark => s \in entries)
  BY <1>3, <1>5
<1>8. TypeInv'
  <2>1. TypeOK'
    BY <1>1, <1>4, <1>6 DEF TypeOK, ghosts
  <2> QED BY <1>1, <1>4, <2>1 DEF TypeInv, NewRow
<1>9. ASSUME NEW seq \in Int, Covered(seq)
      PROVE  Covered(seq)'
  <2>1. seq <= mark' /\ seq <= mark
    BY <1>5, <1>6, <1>9 DEF Covered
  <2>2. \A s \in entries' : s <= seq => s \in entries
    BY <1>5, <1>7, <2>1
  <2> QED BY <1>4, <1>9, <2>1, <2>2 DEF Covered, ghosts
<1>10. row.lastSeq \in Int /\ \A e \in Dispatchers : Working(e) => worker[e].copy.lastSeq \in Int
  BY <1>1, HeldFields DEF TypeOK, Rows
<1>11. CursorInv'
  <2>1. ASSUME NEW seq \in Int, Covered(seq)
        PROVE  seq <= mark' /\ \A s \in entries' \cap Deliverable : s <= seq => s \in served'
    BY <1>9, <2>1 DEF Covered
  <2>2. exists' => Covered(row.lastSeq)'
    BY <1>1, <1>4, <1>10, <2>1 DEF CursorInv, Covered
  <2>3. ASSUME NEW e \in Dispatchers
        PROVE  worker'[e] # Idle => worker'[e].window <= mark'
    <3>1. worker[e] # Idle => worker[e].window \in 0..MaxSeq /\ worker[e].window <= mark
      BY <1>1, HeldFields DEF CursorInv
    <3> QED BY <1>4, <1>5, <1>6, <3>1
  <2>4. ASSUME NEW e \in Dispatchers
        PROVE  exists' /\ Working(e)' => Covered(worker[e].copy.lastSeq)'
    BY <1>1, <1>4, <1>10, <2>1 DEF CursorInv, Covered, Working
  <2>5. ASSUME NEW e \in Dispatchers, worker'[e].pc = "posted"
        PROVE  /\ worker'[e].batch # {} /\ \A s \in worker'[e].batch : s <= mark'
               /\ \A s \in entries' \cap Deliverable :
                      worker'[e].copy.lastSeq < s /\ s <= Max(worker'[e].batch)
                          => s \in worker'[e].batch
    <3>1. worker'[e] = worker[e] /\ worker[e].pc = "posted"
      BY <1>4, <2>5
    <3>2. /\ worker[e].batch # {} /\ \A s \in worker[e].batch : s <= mark
          /\ \A s \in entries \cap Deliverable :
                 worker[e].copy.lastSeq < s /\ s <= Max(worker[e].batch) => s \in worker[e].batch
      BY <1>1, <3>1 DEF CursorInv
    <3>3. worker[e].batch \subseteq Seqs
      BY <1>1, <3>1, HeldFields
    <3>4. Max(worker[e].batch) \in worker[e].batch
      BY <3>2, <3>3, MaxOfSeqs
    <3>5. Max(worker[e].batch) <= mark /\ Max(worker[e].batch) \in Int
      BY <3>2, <3>3, <3>4 DEF Seqs
    <3>6. \A s \in entries' : s <= Max(worker[e].batch) => s \in entries
      BY <1>5, <1>7, <3>5
    <3>7. \A s \in worker[e].batch : s <= mark'
      BY <1>5, <1>6, <3>2, <3>3 DEF Seqs
    <3> QED BY <3>1, <3>2, <3>6, <3>7
  <2> QED BY <2>2, <2>3, <2>4, <2>5 DEF CursorInv
<1>12. NoticeInv'
  BY <1>1, <1>4 DEF NoticeInv, CreatedIsTold, FirstDisableIsTold, Working, ghosts
<1>13. AloneInv'
  BY <1>1, <1>4 DEF AloneInv, Alone, Working, HardStrikesConsecutive, Strikes, ghosts
<1> QED BY <1>8, <1>11, <1>12, <1>13 DEF DeliveryInv

LEMMA FailingGetsLongKeeps ==
  ASSUME DeliveryInv, FailingGetsLong
  PROVE  DeliveryInv'
<1>1. TypeInv /\ TypeOK /\ CursorInv /\ NoticeInv /\ AloneInv
  BY DEF DeliveryInv, TypeInv
<1>2. /\ row' = [row EXCEPT !.failing = "long"] /\ row.failing = "recent"
      /\ worker' = [d \in Dispatchers |->
             IF worker[d].pc \in {"loop", "posted"}
             THEN [worker[d] EXCEPT !.copy.failing = Older(@)] ELSE worker[d]]
      /\ UNCHANGED <<logVars, scopeKnown, exists, lock, mail, ghosts, mishaps>>
  BY DEF FailingGetsLong
<1>3. /\ row' \in Rows /\ row'.lastSeq = row.lastSeq /\ row'.active = row.active
      /\ row'.reason = row.reason /\ row'.error = row.error /\ row'.streak = row.streak
      /\ row'.notify = row.notify
  BY <1>1, <1>2 DEF TypeOK, Rows
<1>4. exists
  BY <1>1, <1>2 DEF TypeInv, NewRow
<1>5. ASSUME NEW r \in Rows
      PROVE  LET new == [r EXCEPT !.failing = Older(@)] IN
             /\ new \in Rows /\ new.lastSeq = r.lastSeq /\ new.active = r.active
             /\ new.reason = r.reason /\ new.error = r.error /\ new.streak = r.streak
             /\ new.notify = r.notify
  BY DEF Older, Rows
<1>6. ASSUME NEW d \in Dispatchers, Working(d)
      PROVE  /\ worker'[d] \in Workers /\ worker'[d].pc = worker[d].pc
             /\ worker'[d].window = worker[d].window
             /\ worker'[d].copy = [worker[d].copy EXCEPT !.failing = Older(@)]
             /\ worker'[d].pc = "posted" => worker'[d].batch = worker[d].batch
  <2> DEFINE w == worker[d]
             aged == [w.copy EXCEPT !.failing = Older(@)]
  <2>1. worker'[d] = [w EXCEPT !.copy = aged]
    BY <1>2, <1>6 DEF Working
  <2>2. w \in Workers /\ w.copy \in Rows
    BY <1>1, <1>6, HeldFields
  <2>3. aged \in Rows
    BY <1>5, <2>2
  <2> HIDE DEF aged, w
  <2>4. CASE w.pc = "loop"
    <3>1. w \in [pc : {"loop"}, window : 0..MaxSeq, copy : Rows]
      BY <2>2, <2>4 DEF Workers, Idle
    <3>2. [w EXCEPT !.copy = aged] \in [pc : {"loop"}, window : 0..MaxSeq, copy : Rows]
      BY <2>3, <3>1
    <3>3. /\ [w EXCEPT !.copy = aged].pc = w.pc /\ [w EXCEPT !.copy = aged].window = w.window
          /\ [w EXCEPT !.copy = aged].copy = aged
      BY <3>1
    <3> QED BY <2>1, <2>4, <3>2, <3>3 DEF Workers, w, aged
  <2>5. CASE w.pc = "posted"
    <3>1. w \in [pc : {"posted"}, window : 0..MaxSeq, copy : Rows, batch : SUBSET Seqs,
                 more : BOOLEAN]
      BY <2>2, <2>5 DEF Workers, Idle
    <3>2. [w EXCEPT !.copy = aged] \in [pc : {"posted"}, window : 0..MaxSeq, copy : Rows,
                                        batch : SUBSET Seqs, more : BOOLEAN]
      BY <2>3, <3>1
    <3>3. /\ [w EXCEPT !.copy = aged].pc = w.pc /\ [w EXCEPT !.copy = aged].window = w.window
          /\ [w EXCEPT !.copy = aged].copy = aged /\ [w EXCEPT !.copy = aged].batch = w.batch
      BY <3>1
    <3> QED BY <2>1, <2>5, <3>2, <3>3 DEF Workers, w, aged
  <2> QED BY <1>6, <2>4, <2>5 DEF Working, w
<1>7. ASSUME NEW d \in Dispatchers, ~Working(d)
      PROVE  worker'[d] = worker[d]
  BY <1>2, <1>7 DEF Working
<1>8. ASSUME NEW d \in Dispatchers
      PROVE  /\ worker'[d].pc = worker[d].pc /\ (Working(d)' <=> Working(d))
             /\ worker'[d] \in Workers
             /\ worker'[d] # Idle => worker[d] # Idle /\ worker'[d].window = worker[d].window
  <2>1. worker'[d].pc = worker[d].pc /\ worker'[d] \in Workers
    BY <1>1, <1>6, <1>7 DEF TypeOK
  <2>2. worker'[d] # Idle => worker[d] # Idle /\ worker'[d].window = worker[d].window
    BY <1>1, <1>6, <1>7, HeldFields
  <2> QED BY <2>1, <2>2 DEF Working
<1>9. ASSUME NEW d \in Dispatchers, Working(d)'
      PROVE  /\ Working(d)
             /\ worker'[d].copy.lastSeq = worker[d].copy.lastSeq
             /\ worker'[d].copy.active = worker[d].copy.active
             /\ worker'[d].copy.reason = worker[d].copy.reason
             /\ worker'[d].copy.error = worker[d].copy.error
             /\ worker'[d].copy.streak = worker[d].copy.streak
             /\ worker'[d].copy.notify = worker[d].copy.notify
  <2>1. Working(d)
    BY <1>8, <1>9
  <2>2. worker[d].copy \in Rows
    BY <1>1, <2>1, HeldFields
  <2> QED BY <1>5, <1>6, <2>1, <2>2
<1>10. TypeInv'
  <2>1. TypeOK'
    BY <1>1, <1>2, <1>3, <1>8 DEF TypeOK, logVars, ghosts
  <2> QED BY <1>2, <1>4, <2>1 DEF TypeInv
<1>11. CursorInv'
  <2>1. exists' => Covered(row.lastSeq)'
    BY <1>1, <1>2, <1>3 DEF CursorInv, Covered, logVars, ghosts
  <2>2. ASSUME NEW e \in Dispatchers
        PROVE  /\ worker'[e] # Idle => worker'[e].window <= mark'
               /\ exists' /\ Working(e)' => Covered(worker[e].copy.lastSeq)'
    BY <1>1, <1>2, <1>8, <1>9 DEF CursorInv, Covered, logVars, ghosts
  <2>3. ASSUME NEW e \in Dispatchers, worker'[e].pc = "posted"
        PROVE  /\ worker'[e].batch # {} /\ \A s \in worker'[e].batch : s <= mark'
               /\ \A s \in entries' \cap Deliverable :
                      worker'[e].copy.lastSeq < s /\ s <= Max(worker'[e].batch)
                          => s \in worker'[e].batch
    <3>1. worker[e].pc = "posted" /\ Working(e)' /\ Working(e)
      BY <1>8, <2>3 DEF Working
    <3>2. worker'[e].batch = worker[e].batch /\ worker'[e].copy.lastSeq = worker[e].copy.lastSeq
      BY <1>6, <1>9, <2>3, <3>1
    <3> QED BY <1>1, <1>2, <3>1, <3>2 DEF CursorInv, logVars
  <2> QED BY <2>1, <2>2, <2>3 DEF CursorInv
<1>12. NoticeInv'
  BY <1>1, <1>2, <1>3, <1>9 DEF NoticeInv, CreatedIsTold, FirstDisableIsTold, ghosts
<1>13. AloneInv'
  BY <1>1, <1>2, <1>3, <1>8, <1>9 DEF AloneInv, Alone, HardStrikesConsecutive, Strikes, ghosts
<1> QED BY <1>10, <1>11, <1>12, <1>13 DEF DeliveryInv

LEMMA RestKeeps ==
  ASSUME DeliveryInv, LoseLock \/ ScopeRetired \/ BackoffElapses \/ UNCHANGED vars
  PROVE  DeliveryInv'
<1>1. TypeInv /\ TypeOK /\ CursorInv /\ NoticeInv /\ AloneInv
  BY DEF DeliveryInv, TypeInv
<1>2. /\ UNCHANGED <<logVars, exists, worker, mail, ghosts>>
      /\ scopeKnown' \in BOOLEAN
      /\ \/ lock' = lock /\ mishaps' = mishaps
         \/ lock' = NoOne /\ mishaps' = mishaps + 1 /\ mishaps < MaxMishaps
      /\ row' = row \/ (row.backedOff /\ row' = [row EXCEPT !.backedOff = FALSE])
  BY <1>1 DEF LoseLock, ScopeRetired, BackoffElapses, vars, TypeOK
<1>3. /\ row' \in Rows /\ row'.lastSeq = row.lastSeq /\ row'.active = row.active
      /\ row'.reason = row.reason /\ row'.error = row.error /\ row'.streak = row.streak
      /\ row'.notify = row.notify
  BY <1>1, <1>2 DEF TypeOK, Rows
<1>4. mishaps' \in 0..MaxMishaps /\ (mishaps' = 0 => mishaps = 0 /\ lock' = lock)
  BY <1>1, <1>2, DeliveryAssumption DEF TypeOK
<1>5. TypeInv'
  <2>1. lock' \in Dispatchers \cup {NoOne}
    BY <1>1, <1>2 DEF TypeOK
  <2>2. TypeOK'
    BY <1>1, <1>2, <1>3, <1>4, <2>1 DEF TypeOK, logVars, ghosts
  <2>3. ~exists => row' = row
    BY <1>1, <1>2 DEF TypeInv, NewRow
  <2> QED BY <1>1, <1>2, <2>2, <2>3 DEF TypeInv, NewRow
<1>6. CursorInv'
  <2>1. exists' => exists /\ Covered(row.lastSeq)'
    BY <1>1, <1>2, <1>3 DEF CursorInv, Covered, logVars, ghosts
  <2>2. served \subseteq served'
    BY <1>2 DEF ghosts
  <2> QED BY <1>1, <1>2, <2>1, <2>2, CursorStays
<1>7. NoticeInv'
  BY <1>1, <1>2, <1>3 DEF NoticeInv, CreatedIsTold, FirstDisableIsTold, Working, ghosts
<1>8. AloneInv'
  <2>1. Alone' => Alone
    BY <1>4 DEF Alone
  <2> QED BY <1>1, <1>2, <1>3, <1>4, <2>1
          DEF AloneInv, HardStrikesConsecutive, Strikes, Working, ghosts
<1> QED BY <1>5, <1>6, <1>7, <1>8 DEF DeliveryInv

-----------------------------------------------------------------------------
(* The theorems.                                                           *)

LEMMA DeliveryStarts ==
  ASSUME Init
  PROVE  DeliveryInv
<1>1. 0 \in 0..MaxSeq /\ 0 \in 0..HardStrikes /\ 0 \in 0..MaxMishaps
      /\ NoMail \in [phase : {"idle", "read", "sent"}, notice : Notices]
  BY DeliveryAssumption DEF NoMail, Notices
<1>2. \A d \in Dispatchers : worker[d] = Idle /\ ~Working(d) /\ worker[d].pc # "posted"
  BY IdleIsWorker DEF Init, Working
<1>3. mark = 0 /\ entries = {}
  BY DEF Init, Log!Init
<1>4. TypeInv
  <2>1. row \in Rows
    BY NewRowIsRow DEF Init
  <2>2. \A d \in Dispatchers : worker[d] \in Workers
    BY <1>2, IdleIsWorker
  <2>3. TypeOK
    BY <1>1, <1>3, <2>1, <2>2 DEF Init, TypeOK
  <2> QED BY <2>3 DEF Init, TypeInv
<1>5. CursorInv
  <2>1. row.lastSeq = 0
    BY DEF Init, NewRow
  <2> QED BY <1>2, <1>3, <2>1 DEF CursorInv, Covered
<1>6. row.active /\ row.reason = "none" /\ row.error = "none" /\ row.streak = 0
      /\ row.notify = "created"
  BY DEF Init, NewRow
<1>7. NoticeInv
  BY <1>2, <1>6 DEF NoticeInv, CreatedIsTold, FirstDisableIsTold, Init, NoMail, DisabledNotices
<1>8. AloneInv
  BY <1>2, <1>6 DEF AloneInv, HardStrikesConsecutive, Strikes
<1> QED BY <1>4, <1>5, <1>7, <1>8 DEF DeliveryInv

LEMMA DeliveryStep ==
  ASSUME DeliveryInv, [Next]_vars
  PROVE  DeliveryInv'
<1>1. ASSUME NEW d \in Dispatchers, Tick(d)
      PROVE  DeliveryInv'
  BY <1>1, TickKeeps
<1>2. ASSUME NEW d \in Dispatchers, Load(d)
      PROVE  DeliveryInv'
  BY <1>2, LoadKeeps
<1>3. ASSUME NEW d \in Dispatchers, Fetch(d)
      PROVE  DeliveryInv'
  BY <1>3, FetchKeeps
<1>4. ASSUME NEW d \in Dispatchers, OutOfTime(d)
      PROVE  DeliveryInv'
  BY <1>4, OutOfTimeKeeps
<1>5. ASSUME NEW d \in Dispatchers, Answered(d)
      PROVE  DeliveryInv'
  BY <1>5, AcknowledgedKeeps, RefusedKeeps DEF Answered
<1>6. ASSUME NEW d \in Dispatchers, Crash(d)
      PROVE  DeliveryInv'
  BY <1>6, CrashKeeps
<1>7. ASSUME NEW d \in Dispatchers, InternalError(d)
      PROVE  DeliveryInv'
  BY <1>7, InternalErrorKeeps
<1>8. CASE Delete
  BY <1>8, DeleteKeeps
<1>9. CASE Reactivate
  BY <1>9, ReactivateKeeps
<1>10. CASE MailerReads \/ MailerSends \/ MailerClears \/ MailerStops
  BY <1>10, MailerKeeps
<1>11. CASE LogGrows
  BY <1>11, LogGrowsKeeps
<1>12. CASE FailingGetsLong
  BY <1>12, FailingGetsLongKeeps
<1>13. CASE LoseLock \/ ScopeRetired \/ BackoffElapses \/ UNCHANGED vars
  BY <1>13, RestKeeps
<1> QED BY <1>1, <1>2, <1>3, <1>4, <1>5, <1>6, <1>7, <1>8, <1>9, <1>10, <1>11, <1>12, <1>13 DEF Next

\* The inductive invariant: the cursor of the row and of every thread, what the
\* notices in flight know, and a lone dispatcher's copy of the row.
THEOREM DeliveryInvariant == Spec => []DeliveryInv
<1>1. Init => DeliveryInv
  BY DeliveryStarts
<1>2. DeliveryInv /\ [Next]_vars => DeliveryInv'
  BY DeliveryStep
<1> QED BY <1>1, <1>2, PTL DEF Spec

\* Every variable keeps its type, whatever the limits and the strike rules.
THEOREM DeliveryTypeCorrect == Spec => []TypeOK
<1>1. DeliveryInv => TypeOK
  BY DEF DeliveryInv, TypeInv
<1> QED BY <1>1, DeliveryInvariant, PTL

\* At least once, for any number of dispatchers, overlaps, crashes and limits:
\* the cursor passes a deliverable change only if it was acknowledged or waived.
THEOREM DeliveryAtLeastOnce == Spec => []CursorCoversAcked
<1>1. DeliveryInv => CursorCoversAcked
  BY DEF DeliveryInv, CursorInv, Covered, CursorCoversAcked
<1> QED BY <1>1, DeliveryInvariant, PTL

\* The owner is told that the subscription verified, or the notice is pending.
THEOREM CreatedNoticeSurvives == Spec => []CreatedIsTold
<1>1. DeliveryInv => CreatedIsTold
  BY DEF DeliveryInv, NoticeInv, CreatedIsTold
<1> QED BY <1>1, DeliveryInvariant, PTL

\* The owner is told of the first disable, or the notice is pending.
THEOREM DisableNoticeSurvives == Spec => []FirstDisableIsTold
<1>1. DeliveryInv => FirstDisableIsTold
  BY DEF DeliveryInv, NoticeInv, FirstDisableIsTold
<1> QED BY <1>1, DeliveryInvariant, PTL

\* One dispatcher disables for hard 4xx answers only after HardStrikes of them in
\* a row, crashes and internal errors included; several can do so without, as
\* long as none shares the subscription with another by mishap.
THEOREM StrikesAreConsecutive ==
  /\ (\A d, e \in Dispatchers : d = e) => (Spec => []HardStrikesConsecutive)
  /\ Spec => [](mishaps = 0 => HardStrikesConsecutive)
<1>1. DeliveryInv /\ (\A d, e \in Dispatchers : d = e) => HardStrikesConsecutive
  BY DEF DeliveryInv, AloneInv, Alone
<1>2. DeliveryInv => (mishaps = 0 => HardStrikesConsecutive)
  BY DEF DeliveryInv, AloneInv, Alone
<1>3. CASE \A d, e \in Dispatchers : d = e
  <2>1. DeliveryInv => HardStrikesConsecutive
    BY <1>1, <1>3
  <2> QED BY <1>2, <2>1, DeliveryInvariant, PTL
<1>4. CASE ~(\A d, e \in Dispatchers : d = e)
  BY <1>2, <1>4, DeliveryInvariant, PTL
<1> QED BY <1>3, <1>4

-----------------------------------------------------------------------------
(* What a step may never do.                                               *)

\* A turn posts what it found due, or it commits a row.
LEMMA FetchWrites ==
  ASSUME DeliveryInv, NEW d \in Dispatchers, Fetch(d)
  PROVE  \/ /\ row' = row
            /\ \A e \in Dispatchers : e # d => worker'[e] = worker[e]
            /\ worker'[d].pc = "posted" /\ worker'[d].batch \subseteq Due(worker[d])
         \/ \E new \in Rows : \E goOn \in BOOLEAN :
                /\ Commit(d, new, goOn)
                /\ Kept(worker[d].copy, new) \/ (Ended(worker[d].copy, new) /\ ~goOn)
<1> DEFINE w == worker[d]
           rows == Page(w)
           batch == Batch(w)
           sent == Payload(batch)
           more == rows # Due(w)
           moreAfter == more \/ sent # batch
           moved == [w.copy EXCEPT !.lastSeq = Max(sent)]
<1>1. worker[d].pc = "loop"
  BY DEF Fetch
<1>2. TypeInv /\ CursorInv /\ Working(d) /\ worker = [e \in Dispatchers |-> worker[e]]
  BY <1>1 DEF DeliveryInv, Working, TypeInv
<1>3. w.copy \in Rows /\ w.window \in 0..MaxSeq
  BY <1>2, HeldFields
<1>4. \/ Commit(d, Disable(w.copy, "unknown_scope"), FALSE)
      \/ Commit(d, [w.copy EXCEPT !.lastSeq = w.window], FALSE)
      \/ /\ rows # {} /\ Commit(d, [w.copy EXCEPT !.lastSeq = Max(rows)], more)
      \/ /\ batch # {}
         /\ \/ Commit(d, Disable(RecordSkip(moved), "payload_too_large"), FALSE)
            \/ Commit(d, RecordSkip(moved), moreAfter)
      \/ /\ batch # {} /\ row' = row
         /\ worker' = [worker EXCEPT ![d] =
                [pc |-> "posted", window |-> w.window, copy |-> w.copy,
                 batch |-> sent, more |-> moreAfter]]
  BY DEF Fetch, PastOrphans, Batch, Page, Due
<1>5. /\ rows # {} => Max(rows) \in 0..MaxSeq
      /\ batch # {} => Max(sent) \in 0..MaxSeq /\ sent \subseteq Due(w)
  BY <1>1, <1>2, PageLeavesNothingOut, PayloadLeavesNothingOut DEF Seqs
<1> HIDE DEF w, rows, batch, sent, more, moreAfter
<1>6. more \in BOOLEAN /\ moreAfter \in BOOLEAN
  BY DEF more, moreAfter
<1>7. /\ "unknown_scope" \in Reasons \ {"none"} /\ "payload_too_large" \in Reasons \ {"none"}
  BY DEF Reasons
<1>8. CASE Commit(d, Disable(w.copy, "unknown_scope"), FALSE)
  <2>1. Disable(w.copy, "unknown_scope") \in Rows /\ Ended(w.copy, Disable(w.copy, "unknown_scope"))
    BY <1>3, <1>7, DisabledRow
  <2> QED BY <1>8, <2>1 DEF w
<1>9. CASE Commit(d, [w.copy EXCEPT !.lastSeq = w.window], FALSE)
  BY <1>3, <1>9, MovedRow DEF w
<1>10. CASE rows # {} /\ Commit(d, [w.copy EXCEPT !.lastSeq = Max(rows)], more)
  <2>1. /\ [w.copy EXCEPT !.lastSeq = Max(rows)] \in Rows
        /\ Kept(w.copy, [w.copy EXCEPT !.lastSeq = Max(rows)])
    BY <1>3, <1>5, <1>10, MovedRow
  <2> QED BY <1>6, <1>10, <2>1 DEF w
<1>11. CASE /\ batch # {}
            /\ \/ Commit(d, Disable(RecordSkip(moved), "payload_too_large"), FALSE)
               \/ Commit(d, RecordSkip(moved), moreAfter)
  <2>1. moved \in Rows /\ Kept(w.copy, moved)
    BY <1>3, <1>5, <1>11, MovedRow
  <2> HIDE DEF moved
  <2> DEFINE skipped == RecordSkip(moved)
  <2>2. skipped \in Rows /\ Kept(moved, skipped)
    BY <2>1, SkipRow
  <2>3. Kept(w.copy, skipped)
    BY <2>1, <2>2 DEF Kept
  <2> DEFINE new == Disable(skipped, "payload_too_large")
  <2>4. new \in Rows /\ Ended(skipped, new)
    <3> HIDE DEF skipped
    <3> QED BY <1>7, <2>2, DisabledRow
  <2>5. Ended(w.copy, new)
    <3> HIDE DEF skipped, new
    <3> QED BY <2>3, <2>4 DEF Kept, Ended
  <2>6. Commit(d, new, FALSE) \/ Commit(d, skipped, moreAfter)
    BY <1>11
  <2> HIDE DEF new, skipped
  <2> QED BY <1>6, <2>2, <2>3, <2>4, <2>5, <2>6 DEF w
<1>12. CASE /\ batch # {} /\ row' = row
            /\ worker' = [worker EXCEPT ![d] =
                   [pc |-> "posted", window |-> w.window, copy |-> w.copy,
                    batch |-> sent, more |-> moreAfter]]
  <2>1. /\ worker'[d].pc = "posted" /\ worker'[d].batch = sent
        /\ \A e \in Dispatchers : e # d => worker'[e] = worker[e]
    BY <1>2, <1>12
  <2> QED BY <1>5, <1>12, <2>1 DEF w
<1> QED BY <1>4, <1>8, <1>9, <1>10, <1>11, <1>12

LEMMA AnswerWrites ==
  ASSUME DeliveryInv, NEW d \in Dispatchers, Answered(d)
  PROVE  \E new \in Rows : \E goOn \in BOOLEAN :
             /\ Commit(d, new, goOn)
             /\ Kept(worker[d].copy, new) \/ (Ended(worker[d].copy, new) /\ ~goOn)
<1> DEFINE w == worker[d]
           moved == [w.copy EXCEPT !.lastSeq = Max(w.batch)]
<1>1. w.pc = "posted"
  BY DEF Answered, Acknowledged, Refused
<1>2. TypeInv /\ CursorInv
  BY DEF DeliveryInv
<1>3. Working(d)
  BY <1>1 DEF Working
<1>4. w.copy \in Rows /\ w.batch \subseteq Seqs /\ w.more \in BOOLEAN /\ w.batch # {}
  BY <1>1, <1>2, <1>3, HeldFields DEF CursorInv
<1>5. CASE Acknowledged(d)
  <2>1. Commit(d, RecordSuccess(moved), w.more)
    BY <1>5 DEF Acknowledged
  <2>2. Max(w.batch) \in 0..MaxSeq
    BY <1>4, MaxOfSeqs DEF Seqs
  <2>3. moved \in Rows /\ Kept(w.copy, moved)
    BY <1>4, <2>2, MovedRow
  <2> HIDE DEF moved
  <2>4. RecordSuccess(moved) \in Rows /\ Kept(moved, RecordSuccess(moved))
    BY <2>3, SuccessRow
  <2>5. Kept(w.copy, RecordSuccess(moved))
    BY <2>3, <2>4 DEF Kept
  <2> QED BY <1>4, <2>1, <2>4, <2>5
<1>6. CASE Refused(d)
  <2>1. PICK response \in Responses : Commit(d, AfterResponse(w.copy, response), FALSE)
    BY <1>6 DEF Refused
  <2>2. /\ AfterResponse(w.copy, response) \in Rows
        /\ Kept(w.copy, AfterResponse(w.copy, response)) \/ Ended(w.copy, AfterResponse(w.copy, response))
    BY <1>4, AfterResponseRow
  <2> QED BY <2>1, <2>2
<1> QED BY <1>5, <1>6 DEF Answered

\* What a step does to the row of a subscription that is still there: nothing that
\* takes the cursor back, and only the owner makes it active.
LEMMA StepOfRow ==
  ASSUME DeliveryInv, [Next]_vars, exists, exists'
  PROVE  /\ row'.lastSeq >= row.lastSeq
         /\ ~row.active /\ row'.active => worker' = worker
<1>1. TypeInv /\ NoticeInv /\ row \in Rows /\ mark \in 0..MaxSeq
  BY DEF DeliveryInv, TypeInv, TypeOK
<1>2. row.lastSeq \in Int
  BY <1>1 DEF Rows
<1>3. ASSUME NEW d \in Dispatchers, Working(d), NEW new \in Rows, NEW goOn \in BOOLEAN,
             Commit(d, new, goOn),
             Kept(worker[d].copy, new) \/ (Ended(worker[d].copy, new) /\ ~goOn)
      PROVE  row'.lastSeq >= row.lastSeq /\ (row'.active => row.active)
  <2>1. CommitLeaves(d, new, goOn)
    BY <1>1, <1>3, CommitEffect
  <2>2. worker[d].copy.active
    BY <1>1, <1>3 DEF NoticeInv
  <2>3. worker[d].copy \in Rows
    BY <1>1, <1>3, HeldFields
  <2>4. new.active \in BOOLEAN /\ worker[d].copy.active \in BOOLEAN
    BY <1>3, <2>3 DEF Rows
  <2>5. new.active = worker[d].copy.active \/ ~new.active
    BY <1>3 DEF Kept, Ended
  <2>6. /\ row'.lastSeq >= row.lastSeq
        /\ row'.active = IF new.active # worker[d].copy.active THEN new.active ELSE row.active
    BY <2>1 DEF CommitLeaves
  <2> QED BY <2>2, <2>4, <2>5, <2>6
<1>4. ASSUME NEW d \in Dispatchers, Fetch(d)
      PROVE  row'.lastSeq >= row.lastSeq /\ (row'.active => row.active)
  <2>1. Working(d)
    BY <1>4 DEF Fetch, Working
  <2>2. \/ row' = row
        \/ \E new \in Rows : \E goOn \in BOOLEAN :
                /\ Commit(d, new, goOn)
                /\ Kept(worker[d].copy, new) \/ (Ended(worker[d].copy, new) /\ ~goOn)
    BY <1>4, FetchWrites
  <2> QED BY <1>2, <1>3, <2>1, <2>2
<1>5. ASSUME NEW d \in Dispatchers, Answered(d)
      PROVE  row'.lastSeq >= row.lastSeq /\ (row'.active => row.active)
  <2>1. Working(d)
    BY <1>5 DEF Answered, Acknowledged, Refused, Working
  <2> QED BY <1>3, <1>5, <2>1, AnswerWrites
<1>6. ASSUME NEW d \in Dispatchers, InternalError(d)
      PROVE  row'.lastSeq >= row.lastSeq /\ (row'.active => row.active)
  <2>1. row' = MaybeAutoDisable(ApplyBackoff(RecordFailure(row, "retryable")))
    BY <1>6 DEF InternalError
  <2>2. "retryable" \in Errors \ {"none"}
    BY DEF Errors
  <2>3. row'.lastSeq = row.lastSeq /\ (Kept(row, row') \/ Ended(row, row'))
    BY <1>1, <2>1, <2>2, BackedOffRow
  <2> QED BY <1>2, <2>3 DEF Kept, Ended
<1>7. CASE Reactivate
  <2>1. PICK to \in {row.lastSeq, Advanced(row.lastSeq, mark)} :
            row' = [row EXCEPT !.active = TRUE, !.reason = "none", !.streak = 0,
                               !.failing = "no", !.backedOff = FALSE, !.lastSeq = to,
                               !.notify = NoticeAfterReactivation(@)]
    BY <1>7 DEF Reactivate
  <2>2. row'.lastSeq = to
    BY <1>1, <2>1 DEF Rows
  <2>3. to >= row.lastSeq
    BY <1>1, <1>2, MaxOfTwo DEF Advanced
  <2> QED BY <1>7, <2>2, <2>3 DEF Reactivate
<1>8. CASE Delete
  BY <1>8 DEF Delete
<1>9. CASE MailerClears
  <2>1. row' = [row EXCEPT !.notify = Cleared(@, mail.notice)]
    BY <1>9 DEF MailerClears
  <2> QED BY <1>1, <1>2, <2>1 DEF Rows
<1>10. CASE FailingGetsLong \/ BackoffElapses
  <2>1. row'.lastSeq = row.lastSeq /\ row'.active = row.active
    BY <1>1, <1>10 DEF FailingGetsLong, BackoffElapses, Rows
  <2> QED BY <1>2, <2>1
<1>11. CASE row' = row
  BY <1>2, <1>11
<1>12. ASSUME NEW d \in Dispatchers, Tick(d) \/ Load(d) \/ OutOfTime(d) \/ Crash(d)
       PROVE  row' = row
  BY <1>12 DEF Tick, Load, OutOfTime, Crash
<1>13. LoseLock \/ MailerReads \/ MailerSends \/ MailerStops \/ LogGrows \/ ScopeRetired
           \/ UNCHANGED vars => row' = row
  BY DEF LoseLock, MailerReads, MailerSends, MailerStops, LogGrows, ScopeRetired, vars
<1> QED BY <1>4, <1>5, <1>6, <1>7, <1>8, <1>9, <1>10, <1>11, <1>12, <1>13 DEF Next

\* No two writers drag the cursor back.
THEOREM CursorOnlyAdvances == Spec => CursorNeverFallsBack
<1>1. DeliveryInv /\ [Next]_vars => [exists /\ exists' => row'.lastSeq >= row.lastSeq]_vars
  BY StepOfRow
<1> QED BY <1>1, DeliveryInvariant, PTL DEF Spec, CursorNeverFallsBack

\* No drain puts a disabled subscription back to work.
THEOREM OnlyTheOwnerReactivates == Spec => OnlyOwnerReactivates
<1>1. DeliveryInv /\ [Next]_vars
          => [exists /\ exists' /\ ~row.active /\ row'.active => worker' = worker]_vars
  BY StepOfRow
<1> QED BY <1>1, DeliveryInvariant, PTL DEF Spec, OnlyOwnerReactivates

\* What a step does to a thread d: only its own turn starts a POST, of what it
\* found due, and only Load lets it start to drain.
LEMMA StepOfThread ==
  ASSUME DeliveryInv, [Next]_vars, NEW d \in Dispatchers
  PROVE  /\ worker'[d].pc = "posted" =>
                worker[d].pc = "posted" \/ (Fetch(d) /\ worker'[d].batch \subseteq Due(worker[d]))
         /\ worker'[d].pc = "loop" /\ ~exists => worker[d].pc = "loop"
<1> DEFINE Same == worker'[d].pc = worker[d].pc
<1>1. TypeInv /\ worker = [e \in Dispatchers |-> worker[e]]
  BY DEF DeliveryInv, TypeInv
<1>2. Idle.pc = "idle"
  BY IdleIsWorker
<1>3. ASSUME NEW e \in Dispatchers, Working(e), NEW new \in Rows, NEW goOn \in BOOLEAN,
             Commit(e, new, goOn)
      PROVE  /\ Same \/ (worker'[d].pc # "posted" /\ ~(worker'[d].pc = "loop" /\ ~exists))
  <2>1. CommitLeaves(e, new, goOn)
    BY <1>1, <1>3, CommitEffect
  <2>2. \A x \in Dispatchers : x # e => worker'[x] = worker[x]
    BY <2>1 DEF CommitLeaves
  <2>3. worker'[e].pc = "idle" \/ worker'[e].pc = "loop"
    BY <1>2, <1>3, <2>1 DEF CommitLeaves
  <2>4. ~exists => worker'[e].pc = "idle"
    BY <1>2, <2>1 DEF CommitLeaves
  <2> QED BY <2>2, <2>3, <2>4
<1>4. ASSUME NEW e \in Dispatchers, Fetch(e)
      PROVE  \/ Same \/ (worker'[d].pc # "posted" /\ ~(worker'[d].pc = "loop" /\ ~exists))
             \/ e = d /\ worker'[d].pc = "posted" /\ worker'[d].batch \subseteq Due(worker[d])
  <2>1. Working(e)
    BY <1>4 DEF Fetch, Working
  <2>2. CASE \E new \in Rows : \E goOn \in BOOLEAN : Commit(e, new, goOn)
    BY <1>3, <2>1, <2>2
  <2>3. CASE /\ \A x \in Dispatchers : x # e => worker'[x] = worker[x]
             /\ worker'[e].pc = "posted" /\ worker'[e].batch \subseteq Due(worker[e])
    BY <2>3
  <2> QED BY <1>4, <2>2, <2>3, FetchWrites
<1>5. ASSUME NEW e \in Dispatchers, Answered(e)
      PROVE  Same \/ (worker'[d].pc # "posted" /\ ~(worker'[d].pc = "loop" /\ ~exists))
  <2>1. Working(e)
    BY <1>5 DEF Answered, Acknowledged, Refused, Working
  <2> QED BY <1>3, <1>5, <2>1, AnswerWrites
<1>6. ASSUME NEW e \in Dispatchers, OutOfTime(e) \/ Crash(e) \/ InternalError(e)
      PROVE  Same \/ worker'[d].pc = "idle"
  <2>1. worker' = [worker EXCEPT ![e] = Idle]
    BY <1>6 DEF OutOfTime, Crash, InternalError
  <2> QED BY <1>1, <1>2, <2>1
<1>7. ASSUME NEW e \in Dispatchers, Tick(e)
      PROVE  Same \/ worker'[d].pc = "due"
  <2>1. worker' = [worker EXCEPT ![e] = [pc |-> "due", window |-> mark]]
    BY <1>7 DEF Tick
  <2> QED BY <1>1, <2>1
<1>8. ASSUME NEW e \in Dispatchers, Load(e)
      PROVE  Same \/ worker'[d].pc = "idle" \/ (worker'[d].pc = "loop" /\ exists)
  <2>1. worker' = [worker EXCEPT ![e] =
                      IF exists /\ row.active
                      THEN [pc |-> "loop", window |-> worker[e].window, copy |-> row]
                      ELSE Idle]
    BY <1>8 DEF Load
  <2> QED BY <1>1, <1>2, <2>1
<1>9. CASE FailingGetsLong
  <2>1. exists
    BY <1>1, <1>9 DEF FailingGetsLong, TypeInv, NewRow
  <2>2. worker'[d] = IF worker[d].pc \in {"loop", "posted"}
                     THEN [worker[d] EXCEPT !.copy.failing = Older(@)] ELSE worker[d]
    BY <1>9 DEF FailingGetsLong
  <2>3. worker[d].pc = "loop" => worker[d] \in [pc : {"loop"}, window : 0..MaxSeq, copy : Rows]
    BY <1>1, HeldFields DEF Workers, Idle
  <2>4. worker[d].pc # "posted" => worker'[d].pc # "posted"
    BY <2>2, <2>3
  <2> QED BY <2>1, <2>4
<1>10. LoseLock \/ Delete \/ Reactivate \/ MailerReads \/ MailerSends \/ MailerClears \/ MailerStops
           \/ LogGrows \/ ScopeRetired \/ BackoffElapses \/ UNCHANGED vars => Same
  BY DEF LoseLock, Delete, Reactivate, MailerReads, MailerSends, MailerClears, MailerStops,
         LogGrows, ScopeRetired, BackoffElapses, vars
<1> HIDE DEF Same
<1>11. CASE \E e \in Dispatchers : Fetch(e)
  <2>1. PICK e \in Dispatchers : Fetch(e)
    BY <1>11
  <2> QED BY <1>4, <2>1 DEF Same
<1>12. CASE \E e \in Dispatchers : Tick(e) \/ Load(e) \/ OutOfTime(e) \/ Answered(e)
                                   \/ Crash(e) \/ InternalError(e)
  <2>1. Same \/ (worker'[d].pc # "posted" /\ ~(worker'[d].pc = "loop" /\ ~exists))
    BY <1>5, <1>6, <1>7, <1>8, <1>12
  <2> QED BY <2>1 DEF Same
<1> QED BY <1>9, <1>10, <1>11, <1>12 DEF Next, Same

\* As long as nothing crashed and the lock held, no change is POSTed again once
\* the cursor has passed it.
THEOREM NothingIsReposted == Spec => NoRepost
<1>1. ASSUME DeliveryInv, [Next]_vars, NEW d \in Dispatchers, worker[d].pc = "loop",
             worker'[d].pc = "posted", mishaps = 0, NEW s \in worker'[d].batch
      PROVE  s > row.lastSeq
  <2>1. worker'[d].batch \subseteq Due(worker[d])
    BY <1>1, StepOfThread
  <2>2. TypeInv /\ TypeOK /\ CursorInv /\ AloneInv /\ Working(d) /\ Alone
    BY <1>1 DEF DeliveryInv, TypeInv, Working, Alone
  <2>3. s \in Seqs /\ worker[d].copy.lastSeq < s
    BY <1>1, <2>1, <2>2, FetchedInOrder DEF Due
  <2>4. CASE exists
    BY <2>2, <2>3, <2>4 DEF AloneInv, TypeOK, Rows, Seqs
  <2>5. CASE ~exists
    <3>1. row.lastSeq = 0
      BY <2>2, <2>5 DEF TypeInv, NewRow
    <3> QED BY <2>3, <3>1 DEF Seqs
  <2> QED BY <2>4, <2>5
<1>2. DeliveryInv /\ [Next]_vars
          => [\A d \in Dispatchers :
                 worker[d].pc = "loop" /\ worker'[d].pc = "posted" /\ mishaps = 0
                     => \A s \in worker'[d].batch : s > row.lastSeq]_vars
  BY <1>1
<1> QED BY <1>2, DeliveryInvariant, PTL DEF Spec, NoRepost

-----------------------------------------------------------------------------
(* After a delete.                                                         *)

\* The threads that may still start a POST, with those that did, are not more than
\* there are dispatchers.
Draining == {d \in Dispatchers : worker[d].pc = "loop"}
LateInv ==
    /\ exists => latePosts = 0
    /\ latePosts + Cardinality(Draining) <= Cardinality(Dispatchers)

LEMMA LateStep ==
  ASSUME IsFiniteSet(Dispatchers), DeliveryInv, LateInv, [Next]_vars
  PROVE  LateInv'
<1>1. IsFiniteSet(Draining) /\ Cardinality(Draining) \in Nat
  BY FS_Subset, FS_CardinalityType DEF Draining
<1>2. IsFiniteSet(Draining') /\ Cardinality(Draining') \in Nat
      /\ Cardinality(Draining') <= Cardinality(Dispatchers)
  BY FS_Subset, FS_CardinalityType DEF Draining
<1>3. latePosts \in Nat /\ Cardinality(Dispatchers) \in Nat
  BY FS_CardinalityType DEF DeliveryInv, TypeInv, TypeOK
<1>4. ~exists => Draining' \subseteq Draining
  BY StepOfThread DEF Draining
<1>5. CASE latePosts' = latePosts /\ (exists' => exists)
  <2>1. CASE exists
    BY <1>2, <1>3, <1>5, <2>1 DEF LateInv
  <2>2. CASE ~exists
    <3>1. Cardinality(Draining') <= Cardinality(Draining)
      BY <1>1, <1>4, <2>2, FS_Subset
    <3> QED BY <1>1, <1>2, <1>3, <1>5, <2>2, <3>1 DEF LateInv
  <2> QED BY <2>1, <2>2
<1>6. CASE latePosts' # latePosts
  <2>1. PICK d \in Dispatchers : Fetch(d) /\ latePosts' # latePosts
    BY <1>6 DEF Next, Tick, Load, OutOfTime, Answered, Acknowledged, Refused, Crash,
                InternalError, LoseLock, Delete, Reactivate, MailerReads, MailerSends,
                MailerClears, MailerStops, LogGrows, ScopeRetired, FailingGetsLong,
                BackoffElapses, ghosts, vars
  <2>2. /\ latePosts' = latePosts + IF exists THEN 0 ELSE 1
        /\ \E post \in {[pc |-> "posted", window |-> worker[d].window, copy |-> worker[d].copy,
                         batch |-> Payload(Batch(worker[d])),
                         more |-> Page(worker[d]) # Due(worker[d])
                                  \/ Payload(Batch(worker[d])) # Batch(worker[d])]} :
               worker' = [worker EXCEPT ![d] = post]
    BY <2>1 DEF Fetch, Batch, Page, Due
  <2>3. ~exists /\ latePosts' = latePosts + 1
    BY <1>3, <1>6, <2>2
  <2>4. worker'[d].pc = "posted" /\ worker[d].pc = "loop" /\ exists' = exists
    BY <2>1, <2>2 DEF Fetch, DeliveryInv, TypeInv
  <2>5. d \in Draining /\ d \notin Draining' /\ Draining' \subseteq Draining
    BY <1>4, <2>3, <2>4 DEF Draining
  <2>6. Cardinality(Draining') < Cardinality(Draining)
    <3>1. Cardinality(Draining') <= Cardinality(Draining)
      BY <1>1, <2>5, FS_Subset
    <3>2. Cardinality(Draining') # Cardinality(Draining)
      BY <1>1, <2>5, FS_Subset
    <3> QED BY <1>1, <1>2, <3>1, <3>2
  <2> QED BY <1>1, <1>2, <1>3, <2>3, <2>4, <2>6 DEF LateInv
<1>7. exists' => exists
  BY DEF Next, Tick, Load, Fetch, OutOfTime, Answered, Acknowledged, Refused, Crash,
         InternalError, LoseLock, Delete, Reactivate, MailerReads, MailerSends,
         MailerClears, MailerStops, LogGrows, ScopeRetired, FailingGetsLong,
         BackoffElapses, vars
<1> QED BY <1>5, <1>6, <1>7

\* After the owner deletes the subscription each dispatcher starts one POST more at
\* most.
THEOREM LatePostsAreBounded == IsFiniteSet(Dispatchers) => (Spec => []OneLatePost)
<1> SUFFICES ASSUME IsFiniteSet(Dispatchers)
             PROVE  Spec => []OneLatePost
  OBVIOUS
<1>1. Init => LateInv
  <2> SUFFICES ASSUME Init
               PROVE  LateInv
    OBVIOUS
  <2>1. latePosts = 0 /\ Draining = {}
    BY IdleIsWorker DEF Init, Draining
  <2>2. Cardinality(Draining) = 0 /\ Cardinality(Dispatchers) \in Nat
    BY <2>1, FS_EmptySet, FS_CardinalityType
  <2> QED BY <2>1, <2>2 DEF LateInv
<1>2. DeliveryInv /\ LateInv /\ [Next]_vars => LateInv'
  BY LateStep
<1>3. DeliveryInv /\ LateInv => OneLatePost
  <2> SUFFICES ASSUME DeliveryInv, LateInv
               PROVE  OneLatePost
    OBVIOUS
  <2>1. Cardinality(Draining) \in Nat /\ Cardinality(Dispatchers) \in Nat /\ latePosts \in Nat
    BY FS_Subset, FS_CardinalityType DEF Draining, DeliveryInv, TypeInv, TypeOK
  <2> QED BY <2>1 DEF LateInv, OneLatePost
<1> QED BY <1>1, <1>2, <1>3, DeliveryInvariant, PTL DEF Spec

=============================================================================
