--------------------------- MODULE LogReadersProofs ---------------------------
(***************************************************************************)
(* The change log and its readers, for any number of writers, any page     *)
(* size, any transaction length and any lag of at least 2 * MaxTxn - 1:    *)
(* below the watermark the log is settled, and a reader that stays below   *)
(* it misses nothing.                                                      *)
(***************************************************************************)
EXTENDS LogReaders, FiniteSetTheorems, WellFoundedInduction, TLAPS

-----------------------------------------------------------------------------
(* The log.                                                                *)

\* A row is stamped no later than now, and a seq is used once it was drawn.
RowsInv ==
    \A s \in Seqs : /\ event[s].at <= now
                    /\ s < nextSeq <=> event[s].state # "unused"

\* The rows an open transaction has inserted are invisible, carry its start
\* time and are no other transaction's.
PendingInv ==
    \A w \in Writers : \A s \in pending[w] :
        /\ IsOpen(w)
        /\ event[s].state = "open"
        /\ event[s].at = began[w]
        /\ \A v \in Writers : s \in pending[v] => v = w

\* An invisible row belongs to an open transaction.
OpenInv ==
    \A s \in Seqs : event[s].state = "open" => \E w \in Writers : s \in pending[w]

AgeInv ==
    \A w \in Writers : IsOpen(w) => began[w] <= now /\ now < began[w] + MaxTxn

IInv == LogTypeOK /\ RowsInv /\ PendingInv /\ OpenInv /\ AgeInv /\ SkewBounded

USE LogAssumption DEF NotOpen, Seqs, Instants, RowStates, Row

LEMMA InitIInv == LogInit => IInv
  BY DEF LogInit, IInv, LogTypeOK, RowsInv, PendingInv, OpenInv, AgeInv, SkewBounded, IsOpen

LEMMA BeginIInv ==
  ASSUME IInv, NEW w \in Writers, Begin(w)
  PROVE  IInv'
<1> USE DEF IInv, Begin
<1>1. LogTypeOK'
  BY DEF LogTypeOK
<1>2. pending[w] = {}
  BY DEF PendingInv
<1>3. RowsInv' /\ SkewBounded' /\ OpenInv'
  BY DEF RowsInv, SkewBounded, OpenInv
<1>4. PendingInv'
  BY <1>2 DEF PendingInv, LogTypeOK, IsOpen
<1>5. AgeInv'
  BY DEF AgeInv, LogTypeOK, IsOpen
<1> QED BY <1>1, <1>3, <1>4, <1>5

\* The new row's seq is the highest, and its stamp is younger than now by less
\* than MaxTxn: every stamp already in the log is less than MaxTxn later.
LEMMA RecordEventIInv ==
  ASSUME IInv, NEW w \in Writers, RecordEvent(w)
  PROVE  IInv'
<1> USE DEF IInv, RecordEvent
<1>1. nextSeq \in Seqs
  BY DEF LogTypeOK
<1>2. began[w] \in Instants /\ began[w] <= now /\ now < began[w] + MaxTxn
  BY DEF LogTypeOK, AgeInv, IsOpen
<1>3. event[nextSeq].state = "unused"
  BY <1>1 DEF RowsInv, LogTypeOK
<1>4. \A v \in Writers : nextSeq \notin pending[v]
  BY <1>3 DEF PendingInv
<1>5. LogTypeOK'
  BY <1>1, <1>2 DEF LogTypeOK
<1>6. RowsInv'
  BY <1>1, <1>2 DEF RowsInv, LogTypeOK
<1>7. PendingInv'
  BY <1>1, <1>2, <1>4 DEF PendingInv, LogTypeOK, IsOpen
<1>8. OpenInv'
  BY <1>1 DEF OpenInv, LogTypeOK
<1>9. AgeInv'
  BY DEF AgeInv, IsOpen
<1>10. SkewBounded'
  <2> SUFFICES ASSUME NEW t \in Seqs, NEW s \in 1..t, event'[t].state # "unused"
               PROVE  event'[s].at < event'[t].at + MaxTxn
    BY DEF SkewBounded
  <2>1. s \in Seqs /\ event[s].at \in Instants /\ event[s].at <= now
    BY DEF LogTypeOK, RowsInv
  <2>2. CASE t = nextSeq
    BY <1>1, <1>2, <2>1, <2>2 DEF LogTypeOK
  <2>3. CASE t # nextSeq
    BY <1>1, <2>1, <2>3 DEF LogTypeOK, SkewBounded, RowsInv
  <2> QED BY <2>2, <2>3
<1> QED BY <1>5, <1>6, <1>7, <1>8, <1>9, <1>10

LEMMA EndTxnIInv ==
  ASSUME IInv, NEW w \in Writers, NEW st \in {"committed", "rolledback"}, EndTxn(w, st)
  PROVE  IInv'
<1> USE DEF IInv, EndTxn
<1>1. \A s \in Seqs : /\ event'[s].at = event[s].at
                      /\ event'[s].state = IF s \in pending[w] THEN st ELSE event[s].state
                      /\ s \notin pending[w] => event'[s] = event[s]
  BY DEF LogTypeOK
<1>2. LogTypeOK'
  BY DEF LogTypeOK
<1>3. \A s \in Seqs : event'[s].state = "unused" <=> event[s].state = "unused"
  BY <1>1 DEF PendingInv, LogTypeOK
<1>4. RowsInv'
  BY <1>1, <1>3 DEF RowsInv
<1>5. PendingInv'
  <2> SUFFICES ASSUME NEW v \in Writers, NEW s \in pending'[v]
               PROVE  /\ IsOpen(v)'
                      /\ event'[s].state = "open"
                      /\ event'[s].at = began'[v]
                      /\ \A u \in Writers : s \in pending'[u] => u = v
    BY DEF PendingInv
  <2>1. v # w /\ s \in pending[v] /\ s \in Seqs
    BY DEF LogTypeOK
  <2>2. s \notin pending[w]
    BY <2>1 DEF PendingInv
  <2> QED BY <1>1, <2>1, <2>2 DEF PendingInv, LogTypeOK, IsOpen
<1>6. OpenInv'
  BY <1>1 DEF OpenInv, LogTypeOK
<1>7. AgeInv'
  BY DEF AgeInv, IsOpen, LogTypeOK
<1>8. SkewBounded'
  <2> SUFFICES ASSUME NEW t \in Seqs, NEW s \in 1..t, event'[t].state # "unused"
               PROVE  event'[s].at < event'[t].at + MaxTxn
    BY DEF SkewBounded
  <2>1. s \in Seqs
    OBVIOUS
  <2> QED BY <1>1, <1>3, <2>1 DEF SkewBounded
<1> QED BY <1>2, <1>4, <1>5, <1>6, <1>7, <1>8

LEMMA TickIInv ==
  ASSUME IInv, Tick
  PROVE  IInv'
<1> USE DEF IInv, Tick
<1>1. LogTypeOK'
  BY DEF LogTypeOK
<1>2. RowsInv'
  BY DEF RowsInv, LogTypeOK
<1>3. PendingInv' /\ OpenInv' /\ SkewBounded'
  BY DEF PendingInv, OpenInv, SkewBounded, IsOpen
<1>4. AgeInv'
  BY DEF AgeInv, IsOpen, LogTypeOK
<1> QED BY <1>1, <1>2, <1>3, <1>4

LEMMA StepIInv == IInv /\ [LogNext]_logVars => IInv'
<1> SUFFICES ASSUME IInv, [LogNext]_logVars PROVE IInv'
  OBVIOUS
<1>1. ASSUME NEW w \in Writers, Begin(w) PROVE IInv'
  BY <1>1, BeginIInv
<1>2. ASSUME NEW w \in Writers, RecordEvent(w) PROVE IInv'
  BY <1>2, RecordEventIInv
<1>3. ASSUME NEW w \in Writers, Commit(w) PROVE IInv'
  BY <1>3, EndTxnIInv DEF Commit
<1>4. ASSUME NEW w \in Writers, Rollback(w) PROVE IInv'
  BY <1>4, EndTxnIInv DEF Rollback
<1>5. CASE Tick
  BY <1>5, TickIInv
<1>6. CASE UNCHANGED logVars
  BY <1>6 DEF logVars, IInv, LogTypeOK, RowsInv, PendingInv, OpenInv, AgeInv, SkewBounded, IsOpen
<1> QED BY <1>1, <1>2, <1>3, <1>4, <1>5, <1>6 DEF LogNext

\* The strengthened invariant of the log, of which the types and the skew bound
\* are parts (record_event's seq and changed_at under any interleaving).
THEOREM LogInvariant == LogSpec => []IInv
  BY InitIInv, StepIInv, PTL DEF LogSpec

\* Every variable of the log keeps its type.
THEOREM LogTypeCorrect == LogSpec => []LogTypeOK
<1>1. IInv => LogTypeOK
  BY DEF IInv
<1> QED BY <1>1, LogInvariant, PTL

\* Stamps follow seqs up to the length of one transaction, for any number of
\* concurrent writers: the skew watermark.py bounds by measurement.
THEOREM SkewIsBounded == LogSpec => []SkewBounded
<1>1. IInv => SkewBounded
  BY DEF IInv
<1> QED BY <1>1, LogInvariant, PTL

-----------------------------------------------------------------------------
\* A row old enough to be served has no open row below it.
LEMMA SettledBelow ==
  ASSUME LagSuffices, IInv, NEW t \in AgedSeqs, NEW s \in 1..t
  PROVE  s \in Seqs /\ event[s].state \in {"committed", "rolledback"}
<1>1. t \in Seqs /\ s \in Seqs
  BY DEF AgedSeqs
<1>2. event[t].state = "committed" /\ event[t].at + Lag <= now
  BY DEF AgedSeqs, Aged, Committed
<1>3. /\ event[s].at \in Instants /\ event[t].at \in Instants
      /\ event[s].state \in RowStates /\ now \in Instants
  BY <1>1 DEF IInv, LogTypeOK
<1>4. event[s].state # "unused"
  BY <1>1, <1>2 DEF IInv, RowsInv, LogTypeOK
<1>5. event[s].at < event[t].at + MaxTxn
  BY <1>1, <1>2 DEF IInv, SkewBounded
<1>6. ASSUME event[s].state = "open" PROVE FALSE
  <2>1. PICK w \in Writers : s \in pending[w]
    BY <1>1, <1>6 DEF IInv, OpenInv
  <2>2. event[s].at = began[w] /\ now < began[w] + MaxTxn
    BY <2>1 DEF IInv, PendingInv, AgeInv
  <2> QED BY <1>2, <1>3, <1>5, <2>2 DEF LagSuffices
<1> QED BY <1>1, <1>3, <1>4, <1>6

\* The lag is sound for every number of writers and every transaction length,
\* provided it is at least 2 * MaxTxn - 1 (watermark.py's central claim).
THEOREM WatermarkIsSettled ==
  ASSUME LagSuffices
  PROVE  LogSpec => []WatermarkSettled
<1>1. IInv => WatermarkSettled
  BY SettledBelow DEF WatermarkSettled
<1> QED BY <1>1, LogInvariant, PTL

-----------------------------------------------------------------------------
\* A non-empty set of naturals below a bound has a largest element.
LEMMA LargestExists ==
  ASSUME NEW n \in Nat, NEW A, A \subseteq 0..n, A # {}
  PROVE  \E m \in A : \A t \in A : t <= m
<1> DEFINE D == {n - a : a \in A}
<1>1. D \subseteq Nat /\ D # {}
  <2>1. PICK a \in A : TRUE
    OBVIOUS
  <2>2. n - a \in D
    BY <2>1
  <2>3. \A b \in A : n - b \in Nat
    OBVIOUS
  <2> QED BY <2>2, <2>3
<1>2. PICK d \in D : \A e \in D : ~(<<e, d>> \in OpToRel(<, Nat))
  BY <1>1, WFMin, NatLessThanWellFounded
<1>3. PICK m \in A : d = n - m
  OBVIOUS
<1>4. ASSUME NEW t \in A PROVE t <= m
  <2>1. n - t \in D /\ n - t \in Nat /\ d \in Nat
    BY <1>1
  <2>2. ~(n - t < d)
    BY <1>2, <2>1 DEF OpToRel
  <2> QED BY <1>3, <2>2
<1> QED BY <1>4

LEMMA WatermarkExists ==
  /\ Watermark \in 0..MaxSeq
  /\ IsWatermark(Watermark)
<1>1. AgedSeqs \cup {0} \subseteq 0..MaxSeq
  BY DEF AgedSeqs
<1>2. PICK m \in AgedSeqs \cup {0} : \A t \in AgedSeqs \cup {0} : t <= m
  BY <1>1, LargestExists
<1>3. m \in 0..MaxSeq /\ IsWatermark(m)
  BY <1>1, <1>2 DEF IsWatermark
<1> QED BY <1>3 DEF Watermark

\* What is settled stays settled, and what is old enough stays old enough.
LEMMA SettledStays ==
  ASSUME IInv, [LogNext]_logVars, NEW s \in Seqs,
         event[s].state \in {"committed", "rolledback"}
  PROVE  event'[s] = event[s] /\ now <= now' /\ (Aged(s) => Aged(s)')
<1> USE DEF IInv
<1>0. now \in Instants /\ event[s].at \in Instants
  BY DEF LogTypeOK
<1> SUFFICES event'[s] = event[s] /\ now <= now' /\ now' \in Int
  BY <1>0 DEF Aged, Committed
<1>1. ASSUME NEW w \in Writers, Begin(w)
      PROVE  event'[s] = event[s] /\ now <= now' /\ now' \in Int
  BY <1>0, <1>1 DEF Begin
<1>2. ASSUME NEW w \in Writers, RecordEvent(w)
      PROVE  event'[s] = event[s] /\ now <= now' /\ now' \in Int
  BY <1>0, <1>2 DEF RecordEvent, RowsInv, LogTypeOK
<1>3. ASSUME NEW w \in Writers, NEW st, EndTxn(w, st)
      PROVE  event'[s] = event[s] /\ now <= now' /\ now' \in Int
  <2>1. s \notin pending[w]
    BY DEF PendingInv
  <2> QED BY <1>0, <1>3, <2>1 DEF EndTxn
<1>4. CASE Tick
  BY <1>0, <1>4 DEF Tick
<1>5. CASE UNCHANGED logVars
  BY <1>0, <1>5 DEF logVars
<1> QED BY <1>1, <1>2, <1>3, <1>4, <1>5 DEF LogNext, Commit, Rollback

LEMMA BelowWatermarkSettled ==
  ASSUME LagSuffices, IInv, NEW s \in 1..Watermark
  PROVE  s \in Seqs /\ event[s].state \in {"committed", "rolledback"}
<1>1. Watermark \in 0..MaxSeq /\ Watermark # 0
  BY WatermarkExists
<1>2. Watermark \in AgedSeqs
  BY <1>1, WatermarkExists DEF IsWatermark
<1> QED BY <1>2, SettledBelow

\* One step of the log: the watermark does not fall, and nothing at or below the
\* old one appears, disappears or changes.
LEMMA WatermarkStep ==
  ASSUME LagSuffices, IInv, [LogNext]_logVars
  PROVE  /\ Watermark \in 0..MaxSeq /\ Watermark' \in 0..MaxSeq
         /\ Watermark <= Watermark'
         /\ \A s \in 1..Watermark :
               /\ s \in Seqs
               /\ event'[s] = event[s]
               /\ event[s].state \in {"committed", "rolledback"}
<1>1. Watermark \in 0..MaxSeq /\ IsWatermark(Watermark)
  BY WatermarkExists
<1>2. Watermark' \in 0..MaxSeq /\ IsWatermark(Watermark)'
  <2>1. AgedSeqs' \cup {0} \subseteq 0..MaxSeq
    BY DEF AgedSeqs
  <2>2. PICK m \in AgedSeqs' \cup {0} : \A t \in AgedSeqs' \cup {0} : t <= m
    BY <2>1, LargestExists
  <2>3. m \in 0..MaxSeq /\ IsWatermark(m)'
    BY <2>1, <2>2 DEF IsWatermark
  <2> QED BY <2>3 DEF Watermark
<1>3. ASSUME Watermark \in AgedSeqs PROVE Watermark \in AgedSeqs'
  <2>1. Watermark \in Seqs /\ Aged(Watermark) /\ event[Watermark].state = "committed"
    BY <1>3 DEF AgedSeqs, Aged, Committed
  <2>2. event'[Watermark] = event[Watermark] /\ now <= now'
    BY <2>1, SettledStays
  <2>3. now \in Int /\ now' \in Int
    BY StepIInv DEF IInv, LogTypeOK
  <2>4. event[Watermark].at + Lag <= now /\ event[Watermark].at \in Int
    BY <2>1 DEF Aged, IInv, LogTypeOK
  <2> QED BY <2>1, <2>2, <2>3, <2>4 DEF AgedSeqs, Aged, Committed
<1>4. Watermark <= Watermark'
  BY <1>1, <1>2, <1>3 DEF IsWatermark
<1>5. ASSUME NEW s \in 1..Watermark
      PROVE  /\ s \in Seqs
             /\ event'[s] = event[s]
             /\ event[s].state \in {"committed", "rolledback"}
  BY BelowWatermarkSettled, SettledStays
<1> QED BY <1>1, <1>2, <1>4, <1>5

\* A cursor that stands at the watermark has nothing left to come back for.
THEOREM WatermarkIsStable ==
  ASSUME LagSuffices
  PROVE  LogSpec => WatermarkStable
<1>1. ASSUME IInv, [LogNext]_logVars
      PROVE  [/\ Watermark' >= Watermark
              /\ VisibleUpTo(Watermark)' \cap (1..Watermark) = VisibleUpTo(Watermark)]_logVars
  <2>1. /\ Watermark \in 0..MaxSeq /\ Watermark' \in 0..MaxSeq
        /\ Watermark <= Watermark'
        /\ \A s \in 1..Watermark : event'[s] = event[s]
    BY <1>1, WatermarkStep
  <2> QED BY <2>1 DEF VisibleUpTo, Committed
<1> QED BY <1>1, LogInvariant, PTL DEF LogSpec, WatermarkStable

\* The log, seen through its watermark, is the abstract stable log: each step
\* raises the mark and reveals rows above it only, or changes nothing.
THEOREM LogImplementsStableLog ==
  ASSUME LagSuffices
  PROVE  LogSpec => ImplementsStableLog
<1>1. LogInit => Stable!Init
  <2> SUFFICES ASSUME LogInit PROVE Stable!Init
    OBVIOUS
  <2>1. AgedSeqs = {}
    BY DEF LogInit, AgedSeqs, Aged, Committed
  <2>2. Watermark = 0
    BY <2>1, WatermarkExists DEF IsWatermark
  <2> QED BY <2>2 DEF Stable!Init, VisibleUpTo
<1>2. ASSUME IInv, [LogNext]_logVars
      PROVE  [Stable!Next]_<<Watermark, VisibleUpTo(Watermark)>>
  <2>1. /\ Watermark \in 0..MaxSeq /\ Watermark' \in 0..MaxSeq
        /\ Watermark <= Watermark'
        /\ \A s \in 1..Watermark : event'[s] = event[s]
    BY <1>2, WatermarkStep
  <2> DEFINE more == {s \in (Watermark + 1)..Watermark' : Committed(s)'}
  <2>2. VisibleUpTo(Watermark)' = VisibleUpTo(Watermark) \cup more
    BY <2>1 DEF VisibleUpTo, Committed
  <2>3. CASE Watermark' = Watermark
    BY <2>1, <2>2, <2>3
  <2>4. CASE Watermark' # Watermark
    <3>1. /\ Watermark' \in (Watermark + 1)..MaxSeq
          /\ more \in SUBSET ((Watermark + 1)..Watermark')
      BY <2>1, <2>4
    <3>2. Stable!Advance(Watermark', more)
      BY <2>2 DEF Stable!Advance
    <3> QED BY <3>1, <3>2 DEF Stable!Next
  <2> QED BY <2>3, <2>4
<1> QED BY <1>1, <1>2, LogInvariant, PTL DEF LogSpec, ImplementsStableLog, Stable!Spec

-----------------------------------------------------------------------------
(* Its readers.                                                            *)

USE PageAssumption

Settled(s) == event[s].state \in {"committed", "rolledback"}

\* Everything in the dispatcher's window is settled, and stamped almost a lag
\* before the window was computed.
MarkInv == \A s \in 1..mark : Settled(s) /\ event[s].at + Lag < markAt + MaxTxn

FeedSettled == \A s \in 1..feedCursor : Settled(s)

FeedSeenBelow == \A s \in feedSeen : s <= feedCursor

ReadersIInv ==
    /\ IInv /\ TypeOK /\ MarkInv /\ HookMissesNothing /\ LagNearFloor
    /\ FeedSettled /\ FeedSeenBelow /\ FeedSkipsOnlyInversions

-----------------------------------------------------------------------------
(* Pages.                                                                  *)

LEMMA LargestIsLargest ==
  ASSUME NEW S, S \subseteq Seqs, S # {}
  PROVE  Largest(S) \in S /\ \A t \in S : t <= Largest(S)
<1>1. S \subseteq 0..MaxSeq
  OBVIOUS
<1>2. \E m \in S : \A t \in S : t <= m
  BY <1>1, LargestExists
<1> QED BY <1>2 DEF Largest

LEMMA PageOfSome ==
  ASSUME NEW S, S \subseteq Seqs, S # {}
  PROVE  FirstPage(S) # {}
<1>1. S \subseteq Nat
  OBVIOUS
<1>2. PICK m \in S : \A t \in S : ~(<<t, m>> \in OpToRel(<, Nat))
  BY <1>1, WFMin, NatLessThanWellFounded
<1>3. {t \in S : t < m} = {}
  BY <1>1, <1>2 DEF OpToRel
<1>4. Cardinality({t \in S : t < m}) = 0
  BY <1>3, FS_EmptySet
<1> QED BY <1>4 DEF FirstPage

\* A page leaves out nothing below a row it holds.
LEMMA PageIsInitial ==
  ASSUME NEW S, S \subseteq Seqs, NEW u \in FirstPage(S), NEW s \in S, s < u
  PROVE  s \in FirstPage(S)
<1> DEFINE Below(x) == {t \in S : t < x}
<1>1. IsFiniteSet(S)
  <2>1. IsFiniteSet(1..MaxSeq)
    BY FS_Interval
  <2> QED BY <2>1, FS_Subset
<1>2. u \in S /\ Cardinality(Below(u)) < PageSize
  BY DEF FirstPage
<1>3. IsFiniteSet(Below(u)) /\ Below(s) \subseteq Below(u)
  <2>1. Below(u) \in SUBSET S
    OBVIOUS
  <2>2. Below(s) \subseteq Below(u)
    <3>1. s \in Int /\ u \in Int /\ \A t \in S : t \in Int
      BY <1>2
    <3>2. \A t \in S : t < s => t < u
      BY <3>1
    <3> QED BY <3>2
  <2> QED BY <1>1, <2>1, <2>2, FS_Subset
<1>4. IsFiniteSet(Below(s)) /\ Cardinality(Below(s)) <= Cardinality(Below(u))
  BY <1>3, FS_Subset
<1>5. Cardinality(Below(s)) \in Nat /\ Cardinality(Below(u)) \in Nat
  BY <1>3, <1>4, FS_CardinalityType
<1>6. Cardinality(Below(s)) < PageSize
  BY <1>2, <1>4, <1>5
<1> QED BY <1>6 DEF FirstPage

LEMMA PageIsSubset == \A S : FirstPage(S) \subseteq S
  BY DEF FirstPage

-----------------------------------------------------------------------------
LEMMA ReadersInit == Init => ReadersIInv
<1> SUFFICES ASSUME Init PROVE ReadersIInv
  OBVIOUS
<1>1. IInv
  BY InitIInv DEF Init
<1>2. TypeOK
  BY <1>1 DEF Init, TypeOK, IInv
<1> QED
  BY <1>1, <1>2 DEF Init, ReadersIInv, MarkInv, HookMissesNothing, LagNearFloor, FeedSettled,
                    FeedSeenBelow, FeedSkipsOnlyInversions

\* A step of the log disturbs nothing a reader has passed: it is settled.
LEMMA LogStep ==
  ASSUME ReadersIInv, LogNext, UNCHANGED <<hookVars, feedVars>>
  PROVE  ReadersIInv'
<1> USE DEF ReadersIInv, hookVars, feedVars
<1>1. IInv'
  BY StepIInv
<1>2. TypeOK'
  BY <1>1 DEF TypeOK, IInv
<1>3. \A s \in Seqs : Settled(s) => event'[s] = event[s]
  BY SettledStays DEF Settled
<1>4. MarkInv'
  BY <1>3 DEF MarkInv, Settled, TypeOK
<1>5. HookMissesNothing'
  BY <1>3 DEF HookMissesNothing, Settled, Committed, TypeOK
<1>6. LagNearFloor'
  BY DEF LagNearFloor
<1>7. FeedSettled'
  BY <1>3 DEF FeedSettled, Settled, TypeOK
<1>8. FeedSkipsOnlyInversions'
  <2> SUFFICES ASSUME NEW s \in 1..feedCursor,
                      event'[s].state \in {"committed", "open"}, s \notin feedSeen
               PROVE  \E t \in feedSeen : t > s /\ event'[t].at < event'[s].at
    BY DEF FeedSkipsOnlyInversions
  <2>1. s \in Seqs /\ event'[s] = event[s]
    BY <1>3 DEF FeedSettled, TypeOK
  <2>2. PICK t \in feedSeen : t > s /\ event[t].at < event[s].at
    BY <2>1 DEF FeedSkipsOnlyInversions
  <2>3. t \in Seqs /\ event'[t] = event[t]
    BY <1>3 DEF FeedSettled, FeedSeenBelow, TypeOK
  <2> QED BY <2>1, <2>2, <2>3
<1>9. FeedSeenBelow'
  BY DEF FeedSeenBelow
<1> QED BY <1>1, <1>2, <1>4, <1>5, <1>6, <1>7, <1>8, <1>9

LEMMA ComputeWatermarkStep ==
  ASSUME LagSuffices, ReadersIInv, ComputeWatermark
  PROVE  ReadersIInv'
<1> USE DEF ReadersIInv, ComputeWatermark
<1>1. UNCHANGED logVars
  OBVIOUS
<1>2. IInv'
  BY <1>1, StepIInv
<1>3. Watermark \in 0..MaxSeq /\ IsWatermark(Watermark)
  BY WatermarkExists
<1>4. TypeOK'
  BY <1>2, <1>3 DEF TypeOK, IInv, LogTypeOK, feedVars
<1>5. ASSUME NEW s \in 1..Watermark
      PROVE  Settled(s) /\ event[s].at + Lag < now + MaxTxn
  <2>1. Settled(s) /\ s \in Seqs
    BY <1>5, BelowWatermarkSettled DEF Settled
  <2>2. Watermark \in Seqs /\ event[Watermark].state = "committed"
        /\ event[Watermark].at + Lag <= now
    BY <1>3 DEF IsWatermark, AgedSeqs, Aged, Committed
  <2>3. event[s].at < event[Watermark].at + MaxTxn
    BY <2>1, <2>2 DEF IInv, SkewBounded
  <2>4. event[s].at \in Int /\ event[Watermark].at \in Int /\ now \in Int
    BY <2>1, <2>2 DEF IInv, LogTypeOK
  <2> QED BY <2>1, <2>2, <2>3, <2>4
<1>6. MarkInv'
  BY <1>1, <1>5 DEF MarkInv, Settled, logVars
<1>7. HookMissesNothing' /\ LagNearFloor' /\ FeedSettled' /\ FeedSkipsOnlyInversions'
      /\ FeedSeenBelow'
  BY <1>1 DEF HookMissesNothing, LagNearFloor, FeedSettled, FeedSkipsOnlyInversions,
              FeedSeenBelow, Settled, Committed, logVars, feedVars
<1> QED BY <1>2, <1>4, <1>6, <1>7

\* The drain loop: what it passes was in the batch it delivered, or is no row.
LEMMA DrainBatchStep ==
  ASSUME LagSuffices, ReadersIInv, DrainBatch
  PROVE  ReadersIInv'
<1> USE DEF ReadersIInv
<1> DEFINE batch == FirstPage(DueToHook)
<1>1. UNCHANGED <<logVars, mark, markAt, feedVars>>
  BY DEF DrainBatch
<1>2. IInv'
  BY <1>1, StepIInv
<1>3. MarkInv' /\ FeedSettled' /\ FeedSkipsOnlyInversions' /\ FeedSeenBelow'
  BY <1>1 DEF MarkInv, FeedSettled, FeedSkipsOnlyInversions, FeedSeenBelow, Settled,
              logVars, feedVars
<1>4. DueToHook \subseteq Seqs
  BY DEF DueToHook, TypeOK
<1>5. CASE batch = {}
  <2>1. lastSeq < mark /\ lastSeq' = mark /\ hookSeen' = hookSeen /\ hookLag' = hookLag
    BY <1>5 DEF DrainBatch
  <2>2. DueToHook = {}
    BY <1>4, <1>5, PageOfSome
  <2>3. TypeOK'
    BY <1>1, <1>2, <2>1 DEF TypeOK, IInv, feedVars
  <2>4. HookMissesNothing'
    <3> SUFFICES ASSUME NEW s \in 1..mark
                 PROVE  Settled(s) /\ (Committed(s) => s \in hookSeen)
      BY <1>1, <2>1 DEF HookMissesNothing, Settled, Committed, logVars
    <3>1. Settled(s)
      BY DEF MarkInv
    <3>2. ASSUME Committed(s) PROVE s <= lastSeq
      BY <2>2, <3>2 DEF DueToHook, TypeOK
    <3> QED BY <3>1, <3>2 DEF HookMissesNothing, TypeOK
  <2>5. LagNearFloor'
    BY <2>1 DEF LagNearFloor
  <2> QED BY <1>2, <1>3, <2>3, <2>4, <2>5
<1>6. CASE batch # {}
  <2>1. /\ hookSeen' = hookSeen \cup batch
        /\ lastSeq' = Largest(batch)
        /\ hookLag' = LagSeconds(batch)
    BY <1>6 DEF DrainBatch
  <2>2. batch \subseteq DueToHook
    BY PageIsSubset
  <2>3. Largest(batch) \in batch /\ \A t \in batch : t <= Largest(batch)
    BY <1>4, <1>6, <2>2, LargestIsLargest
  <2>4. Largest(batch) \in 1..mark /\ Largest(batch) \in Seqs
    BY <1>4, <2>2, <2>3 DEF DueToHook
  <2>5. hookLag' \in Instants /\ hookLag' > Lag - MaxTxn
    <3>1. event[Largest(batch)].at \in Instants /\ markAt \in Instants
      BY <2>4 DEF TypeOK, LogTypeOK
    <3>2. event[Largest(batch)].at + Lag < markAt + MaxTxn
      BY <2>4 DEF MarkInv
    <3> QED BY <2>1, <3>1, <3>2 DEF LagSuffices, LagSeconds
  <2>6. TypeOK'
    <3>1. LogTypeOK'
      BY <1>2 DEF IInv
    <3>2. hookSeen' \subseteq Seqs
      BY <1>4, <2>1, <2>2 DEF TypeOK
    <3>3. lastSeq' \in 0..MaxSeq
      BY <2>1, <2>4
    <3> QED BY <1>1, <2>5, <3>1, <3>2, <3>3 DEF TypeOK, feedVars
  <2>7. HookMissesNothing'
    <3> SUFFICES ASSUME NEW s \in 1..Largest(batch)
                 PROVE  Settled(s) /\ (Committed(s) => s \in hookSeen \cup batch)
      BY <1>1, <2>1 DEF HookMissesNothing, Settled, Committed, logVars
    <3>1. s \in 1..mark
      BY <2>4 DEF TypeOK
    <3>2. Settled(s)
      BY <3>1 DEF MarkInv
    <3>3. CASE s <= lastSeq
      BY <3>2, <3>3 DEF HookMissesNothing, TypeOK
    <3>4. ASSUME s > lastSeq, Committed(s) PROVE s \in batch
      <4>1. s \in DueToHook
        BY <3>1, <3>4 DEF DueToHook
      <4>2. CASE s = Largest(batch)
        BY <2>3, <4>2
      <4>3. CASE s < Largest(batch)
        BY <1>4, <2>3, <4>1, <4>3, PageIsInitial
      <4> QED BY <2>4, <4>2, <4>3
    <3> QED BY <3>1, <3>2, <3>3, <3>4 DEF TypeOK
  <2>8. LagNearFloor'
    BY <2>5 DEF LagNearFloor
  <2> QED BY <1>2, <1>3, <2>6, <2>7, <2>8
<1> QED BY <1>5, <1>6

\* A page of `/changes`: what it steps over is too young, so stamped after the
\* page's last row.
LEMMA PollChangesStep ==
  ASSUME LagSuffices, ReadersIInv, PollChanges
  PROVE  ReadersIInv'
<1> USE DEF ReadersIInv
<1> DEFINE page == FirstPage(DueToFeed)
<1> DEFINE top == Largest(page)
<1>1. /\ page # {} /\ feedSeen' = feedSeen \cup page /\ feedCursor' = top
      /\ UNCHANGED <<logVars, hookVars>>
  BY DEF PollChanges
<1>2. IInv'
  BY <1>1, StepIInv
<1>3. DueToFeed \subseteq Seqs /\ page \subseteq DueToFeed
  BY PageIsSubset DEF DueToFeed
<1>4. top \in page /\ \A t \in page : t <= top
  BY <1>1, <1>3, LargestIsLargest
<1>5. top \in Seqs /\ Aged(top) /\ top \in AgedSeqs /\ top > feedCursor
  BY <1>3, <1>4 DEF DueToFeed, AgedSeqs
<1>6. \A s \in 1..top : Settled(s) /\ s \in Seqs
  BY <1>5, SettledBelow DEF Settled
<1>7. TypeOK'
  <2>1. LogTypeOK'
    BY <1>2 DEF IInv
  <2>2. feedSeen' \subseteq Seqs
    BY <1>1, <1>3 DEF TypeOK
  <2>3. feedCursor' \in 0..MaxSeq
    BY <1>1, <1>5
  <2> QED BY <1>1, <2>1, <2>2, <2>3 DEF TypeOK, hookVars
<1>8. MarkInv' /\ HookMissesNothing' /\ LagNearFloor'
  BY <1>1 DEF MarkInv, HookMissesNothing, LagNearFloor, Settled, Committed, logVars, hookVars
<1>9. FeedSettled'
  BY <1>1, <1>6 DEF FeedSettled, Settled, logVars
<1>10. FeedSeenBelow'
  BY <1>1, <1>3, <1>4, <1>5 DEF FeedSeenBelow, TypeOK
<1>11. FeedSkipsOnlyInversions'
  <2> SUFFICES ASSUME NEW s \in 1..top, event[s].state \in {"committed", "open"},
                      s \notin feedSeen, s \notin page
               PROVE  \E t \in feedSeen \cup page : t > s /\ event[t].at < event[s].at
    BY <1>1 DEF FeedSkipsOnlyInversions, logVars
  <2>1. CASE s <= feedCursor
    BY <2>1 DEF FeedSkipsOnlyInversions, TypeOK
  <2>2. CASE s > feedCursor
    <3>1. s \in Seqs /\ Committed(s) /\ s # top
      BY <1>4, <1>6 DEF Settled, Committed
    <3>2. s < top
      BY <1>5, <3>1
    <3>3. ~Aged(s)
      <4>1. s \in DueToFeed => s \in page
        BY <1>3, <1>4, <3>2, PageIsInitial
      <4> QED BY <2>2, <3>1, <4>1 DEF DueToFeed
    <3>4. event[s].at + Lag > now /\ event[top].at + Lag <= now
      <4>1. event[s].at \in Int /\ now \in Int
        BY <3>1 DEF TypeOK, LogTypeOK
      <4> QED BY <1>5, <3>1, <3>3, <4>1 DEF Aged
    <3>5. event[s].at \in Int /\ event[top].at \in Int /\ now \in Int
      BY <1>5, <3>1 DEF TypeOK, LogTypeOK
    <3>6. event[top].at < event[s].at
      BY <3>4, <3>5
    <3> QED BY <1>4, <3>2, <3>6
  <2>3. feedCursor \in Nat /\ s \in Nat
    BY DEF TypeOK
  <2> QED BY <2>1, <2>2, <2>3
<1> QED BY <1>2, <1>7, <1>8, <1>9, <1>10, <1>11

LEMMA ReadersStep ==
  ASSUME LagSuffices, ReadersIInv, [Next]_vars
  PROVE  ReadersIInv'
<1>1. CASE LogNext /\ UNCHANGED <<hookVars, feedVars>>
  BY <1>1, LogStep
<1>2. CASE ComputeWatermark
  BY <1>2, ComputeWatermarkStep
<1>3. CASE DrainBatch
  BY <1>3, DrainBatchStep
<1>4. CASE PollChanges
  BY <1>4, PollChangesStep
<1>5. CASE UNCHANGED vars
  <2>1. UNCHANGED <<logVars, hookVars, feedVars>>
    BY <1>5 DEF vars
  <2>2. IInv'
    BY <2>1, StepIInv DEF ReadersIInv
  <2> QED
    BY <2>1, <2>2 DEF ReadersIInv, IInv, TypeOK, MarkInv, HookMissesNothing, LagNearFloor,
       FeedSettled, FeedSkipsOnlyInversions, FeedSeenBelow, Settled, Committed,
       logVars, hookVars, feedVars
<1> QED BY <1>1, <1>2, <1>3, <1>4, <1>5 DEF Next

LEMMA ReadersInvariant ==
  ASSUME LagSuffices
  PROVE  Spec => []ReadersIInv
<1>1. ReadersIInv /\ [Next]_vars => ReadersIInv'
  BY ReadersStep
<1> QED BY <1>1, ReadersInit, PTL DEF Spec

\* The subscription's cursor never steps over a change, for any number of
\* concurrent ingest transactions and any batch size.
THEOREM SubscriberMissesNothing ==
  ASSUME LagSuffices
  PROVE  Spec => []HookMissesNothing
<1>1. ReadersIInv => HookMissesNothing
  BY DEF ReadersIInv
<1> QED BY <1>1, ReadersInvariant, PTL

\* `/changes` steps over a change only by an earlier-stamped one with a higher
\* seq: without overlapping transactions it misses nothing.
THEOREM FeedSkipsAreInversions ==
  ASSUME LagSuffices
  PROVE  Spec => []FeedSkipsOnlyInversions
<1>1. ReadersIInv => FeedSkipsOnlyInversions
  BY DEF ReadersIInv
<1> QED BY <1>1, ReadersInvariant, PTL

\* The lag_seconds of a payload is above Lag - MaxTxn, for every interleaving.
THEOREM LagIsNearFloor ==
  ASSUME LagSuffices
  PROVE  Spec => []LagNearFloor
<1>1. ReadersIInv => LagNearFloor
  BY DEF ReadersIInv
<1> QED BY <1>1, ReadersInvariant, PTL
=============================================================================
