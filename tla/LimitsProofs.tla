----------------------------- MODULE LimitsProofs -----------------------------
(***************************************************************************)
(* Proofs about the two components that count before they let through.     *)
(* RequestLimits: the day's overshoot is bounded by the slots, and what an *)
(* address spends of its subnet's window is bounded by its own limit, for  *)
(* any requests, addresses, limits and lengths of the windows.             *)
(* Subscriptions: the ceilings hold and no one that is due is overtaken    *)
(* twice, for any rows, hosts, creators, requests, ceilings and page size. *)
(***************************************************************************)
EXTENDS RequestLimits, Subscriptions, FiniteSetTheorems, SequenceTheorems, TLAPS

-----------------------------------------------------------------------------
(* The invariants.                                                         *)

Inside == {r \in Requests : request[r].pc # "out"}

\* A request that the limits can no longer stop.
WillCount(s) == s.pc = "served" \/ (s.pc = "read" /\ Within(s.read, s.heavy))
Owing == {r \in Requests : WillCount(request[r])}
OwingHeavy == {r \in Requests : WillCount(request[r]) /\ request[r].heavy}

\* A slot for each request inside.
SlotsInv == inFlight = Cardinality(Inside)

Ceiling(limit) == limit + MaxConcurrent - 1

\* Days to come are empty, days past are within the ceiling, and today stays in
\* it even when everything that will count does.
DaysInv ==
    \A d \in Days :
        /\ d > Today => usage[d] = Zero
        /\ d < Today => /\ usage[d].requests <= Ceiling(Quota.requests)
                        /\ usage[d].heavy <= Ceiling(Quota.heavy)
TodayInv ==
    /\ usage[Today].requests + Cardinality(Owing) <= Ceiling(Quota.requests)
    /\ usage[Today].heavy + Cardinality(OwingHeavy) <= Ceiling(Quota.heavy)

LimitsInv == TypeOK /\ SlotsInv /\ usage = metered /\ DaysInv /\ TodayInv

\* What an address has spent of its subnet's window n, by its own window w: when
\* w began first, its first hit was of an earlier n; when w began later, an
\* earlier w may have spent all but that first hit.
Capped(w, limit) == IF w.count < limit THEN w.count ELSE limit
SpentInv(w, n, spent, limit) ==
    /\ w.count = 0 => spent <= limit - 1
    /\ w.count > 0 /\ w.start < n.start => spent <= Capped(w, limit) - 1
    /\ w.count > 0 /\ w.start >= n.start => spent <= limit - 1 + Capped(w, limit)
WindowsInv ==
    \A t \in Tiers, a \in Addresses :
        /\ ip[t][a].start <= clock /\ subnet[t].start <= clock
        /\ SpentInv(ip[t][a], subnet[t], subnet[t].hits[a], IpLimit[t])

-----------------------------------------------------------------------------
(* Days and requests.                                                      *)

LEMMA DivNat == ASSUME NEW i \in Nat, NEW n \in Nat \ {0} PROVE i \div n \in Nat
  BY SMT

LEMMA DivMonotone ==
    ASSUME NEW i \in Nat, NEW j \in Nat, i <= j, NEW n \in Nat \ {0}
    PROVE  i \div n <= j \div n
  BY SMT

LEMMA MomentsHaveDays == ASSUME NEW t \in Times PROVE t \div Day \in Days
<1>1. t \in Nat /\ t <= Horizon /\ Horizon \in Nat /\ Day \in Nat \ {0}
  BY LimitsAssumption DEF Times
<1>2. t \div Day \in Nat /\ Horizon \div Day \in Nat
  BY <1>1, DivNat
<1>3. t \div Day <= Horizon \div Day
  BY <1>1, DivMonotone
<1> QED BY <1>2, <1>3 DEF Days

LEMMA TodayIsADay == ASSUME TypeOK PROVE Today \in Days
  BY MomentsHaveDays DEF Today, TypeOK

LEMMA DaysAreNumbers == ASSUME NEW d \in Days PROVE d \in Int
  BY DEF Days

LEMMA StateKinds ==
    ASSUME NEW s \in RequestStates
    PROVE  /\ s.pc \in {"out", "paced", "served", "read", "answered"}
           /\ s.pc \in {"paced", "served", "read"} => s.heavy \in BOOLEAN
           /\ s.pc = "read" => s.read \in Usages
<1>1. CASE s = Out
  BY <1>1 DEF Out
<1>2. CASE s \in [pc : {"paced", "served"}, heavy : BOOLEAN]
  BY <1>2
<1>3. CASE s \in [pc : {"read"}, heavy : BOOLEAN, read : Usages]
  BY <1>3
<1>4. CASE s \in [pc : {"answered"}]
  BY <1>4
<1> QED BY <1>1, <1>2, <1>3, <1>4 DEF RequestStates

LEMMA States ==
    /\ Out \in RequestStates /\ Out.pc = "out"
    /\ [pc |-> "answered"] \in RequestStates
    /\ \A h \in BOOLEAN : /\ [pc |-> "paced", heavy |-> h] \in RequestStates
                          /\ [pc |-> "served", heavy |-> h] \in RequestStates
    /\ \A h \in BOOLEAN, u \in Usages : [pc |-> "read", heavy |-> h, read |-> u] \in RequestStates
  BY DEF RequestStates, Out

\* The sets of requests after one of them goes on.
LEMMA Going ==
    ASSUME TypeOK, NEW r \in Requests, NEW s \in RequestStates, Goes(r, s)
    PROVE  /\ request' \in [Requests -> RequestStates]
           /\ Inside' = IF s.pc = "out" THEN Inside \ {r} ELSE Inside \cup {r}
           /\ Owing' = IF WillCount(s) THEN Owing \cup {r} ELSE Owing \ {r}
           /\ OwingHeavy' = IF WillCount(s) /\ s.heavy THEN OwingHeavy \cup {r}
                            ELSE OwingHeavy \ {r}
<1>1. request \in [Requests -> RequestStates]
  BY DEF TypeOK
<1>2. request' = [request EXCEPT ![r] = s]
  BY DEF Goes
<1>3. request' \in [Requests -> RequestStates]
  BY <1>1, <1>2
<1>4. request'[r] = s /\ \A q \in Requests \ {r} : request'[q] = request[q]
  BY <1>1, <1>2
<1>5. Inside' = {q \in Requests : request'[q].pc # "out"}
  BY DEF Inside
<1>6. Owing' = {q \in Requests : WillCount(request'[q])}
  BY DEF Owing, WillCount, Within
<1>7. OwingHeavy' = {q \in Requests : WillCount(request'[q]) /\ request'[q].heavy}
  BY DEF OwingHeavy, WillCount, Within
<1> QED BY <1>3, <1>4, <1>5, <1>6, <1>7 DEF Inside, Owing, OwingHeavy

LEMMA Finite ==
    /\ IsFiniteSet(Requests)
    /\ IsFiniteSet(Inside) /\ Cardinality(Inside) \in Nat
    /\ IsFiniteSet(Owing) /\ Cardinality(Owing) \in Nat
    /\ IsFiniteSet(OwingHeavy) /\ Cardinality(OwingHeavy) \in Nat
    /\ Cardinality(Owing) <= Cardinality(Inside)
    /\ Cardinality(OwingHeavy) <= Cardinality(Owing)
<1>1. IsFiniteSet(Requests)
  BY LimitsAssumption
<1>2. Inside \subseteq Requests /\ Owing \subseteq Inside /\ OwingHeavy \subseteq Owing
  BY DEF Inside, Owing, OwingHeavy, WillCount
<1>3. IsFiniteSet(Inside)
  BY <1>1, <1>2, FS_Subset
<1>4. IsFiniteSet(Owing) /\ Cardinality(Owing) <= Cardinality(Inside)
  BY <1>2, <1>3, FS_Subset
<1>5. IsFiniteSet(OwingHeavy) /\ Cardinality(OwingHeavy) <= Cardinality(Owing)
  BY <1>2, <1>4, FS_Subset
<1> QED BY <1>1, <1>3, <1>4, <1>5, FS_CardinalityType

-----------------------------------------------------------------------------
(* The slots.                                                              *)

LEMMA SlotTaken ==
    ASSUME TypeOK, SlotsInv, NEW r \in Requests, NEW s \in RequestStates,
           Arrives(r), Goes(r, s), s.pc # "out"
    PROVE  SlotsInv' /\ inFlight' \in 0..MaxConcurrent
<1>1. r \notin Inside /\ inFlight' = inFlight + 1
  BY DEF Arrives, At, Inside
<1>2. Inside' = Inside \cup {r}
  BY Going
<1>3. Cardinality(Inside') = Cardinality(Inside) + 1
  BY <1>1, <1>2, Finite, FS_AddElement
<1>4. inFlight \in 0..MaxConcurrent /\ inFlight < MaxConcurrent /\ MaxConcurrent \in Nat
  BY LimitsAssumption DEF Arrives, SlotFree, TypeOK
<1> QED BY <1>1, <1>3, <1>4 DEF SlotsInv

LEMMA SlotKept ==
    ASSUME TypeOK, SlotsInv, NEW r \in Requests, NEW s \in RequestStates,
           request[r].pc # "out", inFlight' = inFlight, Goes(r, s), s.pc # "out"
    PROVE  SlotsInv' /\ inFlight' \in 0..MaxConcurrent
<1>1. Inside' = Inside
  BY Going DEF Inside
<1> QED BY <1>1 DEF SlotsInv, TypeOK

LEMMA SlotGivenBack ==
    ASSUME TypeOK, SlotsInv, NEW r \in Requests, Leave(r)
    PROVE  SlotsInv' /\ inFlight' \in 0..MaxConcurrent
<1>1. r \in Inside /\ inFlight' = inFlight - 1 /\ Goes(r, Out)
  BY DEF Leave, At, Inside
<1>2. Inside' = Inside \ {r}
  BY <1>1, Going, States
<1>3. Cardinality(Inside') = Cardinality(Inside) - 1
  BY <1>1, <1>2, Finite, FS_RemoveElement
<1>4. Cardinality(Inside) # 0
  BY <1>1, Finite, FS_EmptySet
<1>5. inFlight \in 0..MaxConcurrent /\ MaxConcurrent \in Nat
  BY LimitsAssumption DEF TypeOK
<1> QED BY <1>1, <1>3, <1>4, <1>5, Finite DEF SlotsInv

-----------------------------------------------------------------------------
(* The days.                                                               *)

LEMMA UsageTypes ==
    ASSUME TypeOK
    PROVE  /\ Today \in Days
           /\ \A d \in Days : usage[d] \in Usages /\ usage[d].requests \in Nat /\ usage[d].heavy \in Nat
           /\ Quota.requests \in Nat \ {0} /\ Quota.heavy \in Nat \ {0} /\ MaxConcurrent \in Nat
           /\ Zero.requests = 0 /\ Zero.heavy = 0
<1>1. \A d \in Days : usage[d] \in Usages
  BY DEF TypeOK
<1>2. \A u \in Usages : u.requests \in Nat /\ u.heavy \in Nat
  BY DEF Usages
<1> QED BY <1>1, <1>2, TodayIsADay, LimitsAssumption DEF Zero

\* What does not add to what will count keeps the days.
LEMMA NoMoreOwing ==
    ASSUME TypeOK, DaysInv, TodayInv, UNCHANGED <<clock, usage>>,
           Owing' \subseteq Owing, OwingHeavy' \subseteq OwingHeavy
    PROVE  DaysInv' /\ TodayInv'
<1>1. Today' = Today /\ usage' = usage
  BY DEF Today
<1>2. DaysInv'
  BY <1>1 DEF DaysInv, Ceiling
<1>3. Cardinality(Owing') <= Cardinality(Owing) /\ Cardinality(OwingHeavy') <= Cardinality(OwingHeavy)
  BY Finite, FS_Subset
<1>4. Cardinality(Owing') \in Nat /\ Cardinality(OwingHeavy') \in Nat
  BY Finite, FS_Subset, FS_CardinalityType
<1>5. TodayInv'
  BY <1>1, <1>3, <1>4, Finite, UsageTypes DEF TodayInv, Ceiling
<1> QED BY <1>2, <1>5

\* A request that goes on and will not count, or did already.
LEMMA GoesUncounted ==
    ASSUME TypeOK, DaysInv, TodayInv, UNCHANGED <<clock, usage>>,
           NEW r \in Requests, NEW s \in RequestStates, Goes(r, s),
           WillCount(s) => WillCount(request[r]) /\ s.heavy = request[r].heavy
    PROVE  DaysInv' /\ TodayInv'
<1>1. Owing' \subseteq Owing
  BY Going DEF Owing
<1>2. OwingHeavy' \subseteq OwingHeavy
  BY Going DEF OwingHeavy
<1> QED BY <1>1, <1>2, NoMoreOwing

\* A read that finds the quota unspent: everything inside may count, and stays
\* within the ceiling.
LEMMA ReadKeepsDays ==
    ASSUME TypeOK, SlotsInv, DaysInv, TodayInv, NEW r \in Requests, ReadUsage(r)
    PROVE  DaysInv' /\ TodayInv'
<1> DEFINE s == [pc |-> "read", heavy |-> request[r].heavy, read |-> usage[Today]]
<1>1. request[r] \in RequestStates /\ request[r].pc = "paced" /\ UNCHANGED <<clock, inFlight, usage>>
  BY DEF ReadUsage, At, TypeOK
<1>2. request[r].heavy \in BOOLEAN
  BY <1>1, StateKinds
<1>3. s \in RequestStates /\ s.pc = "read" /\ s.heavy = request[r].heavy /\ s.read = usage[Today]
  BY <1>2, States, UsageTypes
<1> HIDE DEF s
<1>4. CASE Answered(r)
  <2>1. ~WillCount([pc |-> "answered"])
    BY DEF WillCount
  <2> QED BY <1>1, <1>4, <2>1, States, GoesUncounted DEF Answered
<1>5. CASE Goes(r, s) /\ ~WillCount(s)
  BY <1>1, <1>3, <1>5, GoesUncounted
<1>6. CASE Goes(r, s) /\ WillCount(s)
  <2>1. SlotsInv' /\ inFlight' \in 0..MaxConcurrent
    BY <1>1, <1>3, <1>6, SlotKept
  <2>2. /\ IsFiniteSet(Inside') /\ Owing' \subseteq Inside'
        /\ OwingHeavy' \subseteq Owing'
    BY Finite, FS_Subset DEF Inside, Owing, OwingHeavy, WillCount
  <2>3. /\ Cardinality(Owing') \in Nat /\ Cardinality(Owing') <= MaxConcurrent
        /\ Cardinality(OwingHeavy') \in Nat /\ Cardinality(OwingHeavy') <= MaxConcurrent
    <3>1. IsFiniteSet(Inside') /\ Cardinality(Inside') <= MaxConcurrent /\ Cardinality(Inside') \in Nat
      BY <2>1, <2>2, FS_CardinalityType, LimitsAssumption DEF SlotsInv
    <3>2. IsFiniteSet(Owing') /\ Cardinality(Owing') <= Cardinality(Inside')
      BY <2>2, FS_Subset
    <3>3. IsFiniteSet(OwingHeavy') /\ Cardinality(OwingHeavy') <= Cardinality(Owing')
      BY <2>2, <3>2, FS_Subset
    <3> QED BY <3>1, <3>2, <3>3, FS_CardinalityType, LimitsAssumption
  <2>4. Today' = Today /\ usage' = usage
    BY <1>1 DEF Today
  <2>5. DaysInv'
    BY <2>4 DEF DaysInv, Ceiling
  <2>6. usage[Today].requests < Quota.requests /\ (s.heavy => usage[Today].heavy < Quota.heavy)
    BY <1>3, <1>6 DEF WillCount, Within
  <2>7. usage'[Today'].requests + Cardinality(Owing') <= Ceiling(Quota.requests)
    BY <2>3, <2>4, <2>6, UsageTypes DEF Ceiling
  <2>8. CASE s.heavy
    <3>1. usage'[Today'].heavy + Cardinality(OwingHeavy') <= Ceiling(Quota.heavy)
      BY <2>3, <2>4, <2>6, <2>8, UsageTypes DEF Ceiling
    <3> QED BY <2>5, <2>7, <3>1 DEF TodayInv, Ceiling
  <2>9. CASE ~s.heavy
    <3>1. OwingHeavy' \subseteq OwingHeavy
      BY <1>3, <1>6, <2>9, Going
    <3>2. Cardinality(OwingHeavy') <= Cardinality(OwingHeavy)
      BY <3>1, Finite, FS_Subset
    <3>3. usage'[Today'].heavy + Cardinality(OwingHeavy') <= Ceiling(Quota.heavy)
      BY <2>3, <2>4, <3>2, Finite, UsageTypes DEF TodayInv, Ceiling
    <3> QED BY <2>5, <2>7, <3>3 DEF TodayInv, Ceiling
  <2> QED BY <2>8, <2>9
<1> QED BY <1>4, <1>5, <1>6 DEF ReadUsage, s

\* A request that is counted adds to the day what it no longer owes.
LEMMA CountKeepsDays ==
    ASSUME TypeOK, DaysInv, TodayInv, NEW r \in Requests, Count(r)
    PROVE  DaysInv' /\ TodayInv' /\ usage' \in [Days -> Usages]
<1> DEFINE more == OneMore(usage[Today], request[r].heavy)
<1>1. request[r] \in RequestStates /\ request[r].pc = "served" /\ Goes(r, [pc |-> "answered"])
  BY DEF Count, At, TypeOK, Answered
<1>2. request[r].heavy \in BOOLEAN
  BY <1>1, StateKinds
<1>3. /\ Today \in Days /\ Today \in Int /\ Today' = Today
      /\ usage' = [usage EXCEPT ![Today] = more] /\ usage \in [Days -> Usages]
  BY TodayIsADay, DaysAreNumbers DEF Count, Today, TypeOK
<1>4. /\ more.requests = usage[Today].requests + 1
      /\ more.heavy = usage[Today].heavy + (IF request[r].heavy THEN 1 ELSE 0)
  BY DEF OneMore
<1>5. more \in Usages
  BY <1>2, <1>3, UsageTypes DEF OneMore, Usages
<1> HIDE DEF more
<1>6. usage'[Today] = more /\ \A d \in Days \ {Today} : usage'[d] = usage[d]
  BY <1>3
<1>7. DaysInv'
  <2>1. \A d \in Days : d > Today \/ d < Today => usage'[d] = usage[d]
    BY <1>3, <1>6
  <2> QED BY <1>3, <2>1 DEF DaysInv, Ceiling
<1>8. r \in Owing /\ Owing' = Owing \ {r}
  BY <1>1, Going, States DEF Owing, WillCount
<1>9. Cardinality(Owing') = Cardinality(Owing) - 1
  BY <1>8, Finite, FS_RemoveElement
<1>10. OwingHeavy' = OwingHeavy \ {r}
  BY <1>1, Going, States DEF WillCount
<1>11. more.requests + Cardinality(Owing') <= Ceiling(Quota.requests)
  BY <1>4, <1>9, Finite, UsageTypes DEF TodayInv, Ceiling
<1>12. more.heavy + Cardinality(OwingHeavy') <= Ceiling(Quota.heavy)
  <2>1. CASE request[r].heavy
    <3>1. r \in OwingHeavy
      BY <1>1, <2>1 DEF OwingHeavy, WillCount
    <3>2. Cardinality(OwingHeavy') = Cardinality(OwingHeavy) - 1
      BY <1>10, <3>1, Finite, FS_RemoveElement
    <3> QED BY <1>4, <2>1, <3>2, Finite, UsageTypes DEF TodayInv, Ceiling
  <2>2. CASE ~request[r].heavy
    <3>1. OwingHeavy' = OwingHeavy
      BY <1>10, <2>2 DEF OwingHeavy
    <3> QED BY <1>4, <2>2, <3>1, Finite, UsageTypes DEF TodayInv, Ceiling
  <2> QED BY <2>1, <2>2
<1>13. TodayInv'
  BY <1>3, <1>6, <1>11, <1>12 DEF TodayInv, Ceiling
<1>14. usage' \in [Days -> Usages]
  BY <1>3, <1>5
<1> QED BY <1>7, <1>13, <1>14

\* A new day is empty, and the one that ends was within the ceiling.
LEMMA TickKeepsDays ==
    ASSUME TypeOK, SlotsInv, DaysInv, TodayInv, Tick, TypeOK'
    PROVE  DaysInv' /\ TodayInv'
<1>1. Today \in Days /\ Today' \in Days /\ usage' = usage /\ request' = request
  <2>1. Today' \in Days
    BY MomentsHaveDays DEF Today, TypeOK
  <2> QED BY <2>1, TodayIsADay DEF Tick
<1>2. Today <= Today'
  <2>1. clock \in Nat /\ clock + 1 \in Nat /\ Day \in Nat \ {0} /\ clock' = clock + 1
    BY LimitsAssumption DEF TypeOK, Times, Tick
  <2>2. clock \div Day <= (clock + 1) \div Day
    BY <2>1, DivMonotone
  <2> QED BY <2>1, <2>2 DEF Today
<1>3. Owing' = Owing /\ OwingHeavy' = OwingHeavy
  BY <1>1 DEF Owing, OwingHeavy, WillCount, Within
<1>4. Today \in Int /\ Today' \in Int
  BY <1>1, DaysAreNumbers
<1>5. Cardinality(Owing) <= MaxConcurrent /\ Cardinality(OwingHeavy) <= MaxConcurrent
  BY Finite, LimitsAssumption DEF SlotsInv, TypeOK
<1>6. DaysInv'
  <2> SUFFICES ASSUME NEW d \in Days
               PROVE  /\ d > Today' => usage[d] = Zero
                      /\ d < Today' => /\ usage[d].requests <= Ceiling(Quota.requests)
                                       /\ usage[d].heavy <= Ceiling(Quota.heavy)
    BY <1>1 DEF DaysInv, Ceiling
  <2>1. d \in Int
    BY DaysAreNumbers
  <2>2. CASE d > Today
    BY <1>2, <1>4, <2>1, <2>2, UsageTypes DEF DaysInv, Ceiling
  <2>3. CASE d = Today
    BY <1>2, <1>4, <2>1, <2>3, Finite, UsageTypes DEF TodayInv, Ceiling
  <2>4. CASE d < Today
    BY <1>2, <1>4, <2>1, <2>4 DEF DaysInv
  <2> QED BY <1>4, <2>1, <2>2, <2>3, <2>4
<1>7. TodayInv'
  <2>1. CASE Today' = Today
    BY <1>1, <1>3, <2>1 DEF TodayInv, Ceiling
  <2>2. CASE Today' > Today
    <3>1. usage[Today'] = Zero
      BY <1>1, <2>2 DEF DaysInv
    <3> QED BY <1>1, <1>3, <1>5, <3>1, Finite, UsageTypes DEF TodayInv, Ceiling
  <2> QED BY <1>2, <1>4, <2>1, <2>2
<1> QED BY <1>6, <1>7

-----------------------------------------------------------------------------
(* The windows' types.                                                     *)

IpRows == [Tiers -> [Addresses -> [start : Times, count : Nat]]]
SubnetRows == [Tiers -> [start : Times, hits : [Addresses -> Nat]]]

LEMMA FreshTypes ==
    /\ Fresh \in [start : Times, count : Nat]
    /\ FreshSubnet \in [start : Times, hits : [Addresses -> Nat]]
    /\ Fresh.count = 0 /\ FreshSubnet.start = 0
    /\ \A a \in Addresses : FreshSubnet.hits[a] = 0
  BY LimitsAssumption DEF Fresh, FreshSubnet, Times

LEMMA IpFields ==
    ASSUME TypeOK, NEW t \in Tiers, NEW a \in Addresses
    PROVE  /\ ip[t] \in [Addresses -> [start : Times, count : Nat]]
           /\ ip[t][a] \in [start : Times, count : Nat]
           /\ ip[t][a].start \in Nat /\ ip[t][a].count \in Nat
           /\ subnet[t] \in [start : Times, hits : [Addresses -> Nat]]
           /\ subnet[t].start \in Nat /\ subnet[t].hits \in [Addresses -> Nat]
           /\ subnet[t].hits[a] \in Nat
           /\ IpLimit[t] \in Nat \ {0} /\ SubnetLimit[t] \in Nat \ {0}
           /\ clock \in Times /\ clock \in Nat
  BY LimitsAssumption DEF TypeOK, Times

LEMMA IpHitTypes ==
    ASSUME TypeOK, NEW t \in Tiers, NEW a \in Addresses
    PROVE  /\ HitIp(t, a) \in [start : Times, count : Nat]
           /\ HitIp(t, a).count > 0
           /\ ip[t][a].count = 0 => HitIp(t, a).start = clock /\ HitIp(t, a).count = 1
           /\ ip[t][a].count > 0 => HitIp(t, a).start = ip[t][a].start
           /\ ip[t][a].count > 0 /\ ~IpDenies(t, a) => HitIp(t, a).count = ip[t][a].count + 1
           /\ HitIp(t, a).count >= ip[t][a].count
<1> DEFINE w == ip[t][a]
<1>1. /\ w \in [start : Times, count : Nat] /\ w.count \in Nat /\ clock \in Times
      /\ IpLimit[t] \in Nat
  BY IpFields
<1>2. HitIp(t, a) = IF w.count = 0 THEN [start |-> clock, count |-> 1]
                    ELSE [w EXCEPT !.count = IF @ > IpLimit[t] THEN @ ELSE @ + 1]
  BY DEF HitIp
<1>3. w.count > IpLimit[t] => IpDenies(t, a)
  BY <1>1 DEF IpDenies
<1> HIDE DEF w
<1>4. CASE w.count = 0
  <2>1. HitIp(t, a) = [start |-> clock, count |-> 1]
    BY <1>2, <1>4
  <2> QED BY <1>1, <1>4, <2>1 DEF w
<1>5. CASE w.count > 0 /\ w.count > IpLimit[t]
  <2>1. HitIp(t, a) = [w EXCEPT !.count = w.count] /\ IpDenies(t, a)
    BY <1>1, <1>2, <1>3, <1>5
  <2> QED BY <1>1, <1>5, <2>1 DEF w
<1>6. CASE w.count > 0 /\ w.count <= IpLimit[t]
  <2>1. HitIp(t, a) = [w EXCEPT !.count = w.count + 1]
    BY <1>1, <1>2, <1>6
  <2> QED BY <1>1, <1>6, <2>1 DEF w
<1> QED BY <1>1, <1>4, <1>5, <1>6

LEMMA SubnetHitTypes ==
    ASSUME TypeOK, NEW t \in Tiers, NEW a \in Addresses
    PROVE  /\ HitSubnet(t, a) \in [start : Times, hits : [Addresses -> Nat]]
           /\ \/ /\ HitSubnet(t, a).start = clock
                 /\ HitSubnet(t, a).hits[a] = 1
                 /\ \A b \in Addresses \ {a} : HitSubnet(t, a).hits[b] = 0
              \/ /\ HitSubnet(t, a).start = subnet[t].start
                 /\ HitSubnet(t, a).hits[a] <= subnet[t].hits[a] + 1
                 /\ \A b \in Addresses \ {a} : HitSubnet(t, a).hits[b] = subnet[t].hits[b]
<1> DEFINE n == subnet[t]
           up == IF Total(n.hits) > SubnetLimit[t] THEN n.hits[a] ELSE n.hits[a] + 1
<1>1. /\ n \in [start : Times, hits : [Addresses -> Nat]] /\ n.hits \in [Addresses -> Nat]
      /\ n.hits[a] \in Nat /\ clock \in Times
  BY IpFields
<1>2. CASE n = FreshSubnet
  <2>1. HitSubnet(t, a) = [start |-> clock, hits |-> [FreshSubnet.hits EXCEPT ![a] = 1]]
    BY <1>2 DEF HitSubnet
  <2>2. FreshSubnet.hits \in [Addresses -> Nat] /\ \A b \in Addresses : FreshSubnet.hits[b] = 0
    BY FreshTypes
  <2> QED BY <1>1, <2>1, <2>2
<1>3. CASE n # FreshSubnet
  <2>1. up \in Nat /\ up <= n.hits[a] + 1
    BY <1>1
  <2>2. HitSubnet(t, a) = [n EXCEPT !.hits = [n.hits EXCEPT ![a] = up]]
    BY <1>1, <1>3 DEF HitSubnet
  <2> HIDE DEF up
  <2> QED BY <1>1, <2>1, <2>2
<1> QED BY <1>2, <1>3

\* What Charge leaves of a tier and an address.
LEMMA Charging ==
    ASSUME TypeOK, NEW heavy \in BOOLEAN, NEW a \in Addresses, Charge(heavy, a)
    PROVE  /\ ip' \in IpRows /\ subnet' \in SubnetRows
           /\ \A t \in Tiers :
                /\ \A b \in Addresses \ {a} : ip'[t][b] = ip[t][b]
                /\ ip'[t][a] = IF HitsIp(t, heavy, a) THEN HitIp(t, a) ELSE ip[t][a]
                /\ subnet'[t] = IF HitsSubnet(t, heavy, a) THEN HitSubnet(t, a) ELSE subnet[t]
<1>1. ip \in IpRows /\ subnet \in SubnetRows
  BY DEF TypeOK, IpRows, SubnetRows
<1>2. ip' = [t \in Tiers |-> IF HitsIp(t, heavy, a) THEN [ip[t] EXCEPT ![a] = HitIp(t, a)] ELSE ip[t]]
  BY DEF Charge
<1>3. subnet' = [t \in Tiers |-> IF HitsSubnet(t, heavy, a) THEN HitSubnet(t, a) ELSE subnet[t]]
  BY DEF Charge
<1>4. \A t \in Tiers : HitIp(t, a) \in [start : Times, count : Nat]
  BY IpHitTypes
<1>5. \A t \in Tiers : HitSubnet(t, a) \in [start : Times, hits : [Addresses -> Nat]]
  BY SubnetHitTypes
<1>6. \A t \in Tiers : ip[t] \in [Addresses -> [start : Times, count : Nat]]
  BY <1>1 DEF IpRows
<1>7. \A t \in Tiers : ip'[t] \in [Addresses -> [start : Times, count : Nat]]
  BY <1>2, <1>4, <1>6
<1>8. ip' \in IpRows
  BY <1>2, <1>7 DEF IpRows
<1>9. subnet' \in SubnetRows
  BY <1>1, <1>3, <1>5 DEF SubnetRows
<1> QED BY <1>2, <1>3, <1>6, <1>8, <1>9

-----------------------------------------------------------------------------
(* What an address spends.                                                 *)

\* A hit of the address's window alone, which refuses it.
LEMMA DenialSpends ==
    ASSUME NEW limit \in Nat \ {0}, NEW count \in Nat, NEW start \in Nat, NEW from \in Nat,
           NEW spent \in Nat, count + 1 > limit,
           SpentInv([start |-> start, count |-> count], [start |-> from], spent, limit),
           NEW count2 \in Nat, count2 >= count
    PROVE  SpentInv([start |-> start, count |-> count2], [start |-> from], spent, limit)
  BY SMT DEF SpentInv, Capped

\* SpentInv looks at these fields only.
LEMMA SpentFields ==
    ASSUME NEW w, NEW n, NEW spent, NEW limit
    PROVE  SpentInv(w, n, spent, limit) <=>
               SpentInv([start |-> w.start, count |-> w.count], [start |-> n.start], spent, limit)
  BY DEF SpentInv, Capped

LEMMA ChargeKeepsWindows ==
    ASSUME TypeOK, WindowsInv, NEW heavy \in BOOLEAN, NEW a \in Addresses, Charge(heavy, a),
           clock' = clock
    PROVE  WindowsInv'
<1> SUFFICES ASSUME NEW t \in Tiers, NEW b \in Addresses
             PROVE  /\ ip'[t][b].start <= clock /\ subnet'[t].start <= clock
                    /\ SpentInv(ip'[t][b], subnet'[t], subnet'[t].hits[b], IpLimit[t])
  BY DEF WindowsInv, SpentInv, Capped
<1> DEFINE w == ip[t][b]
           n == subnet[t]
           w2 == ip'[t][b]
           n2 == subnet'[t]
           limit == IpLimit[t]
<1>1. w.start <= clock /\ n.start <= clock /\ SpentInv(w, n, n.hits[b], limit)
  BY DEF WindowsInv
<1>2. /\ w.start \in Nat /\ w.count \in Nat /\ n.start \in Nat /\ n.hits[b] \in Nat
      /\ limit \in Nat \ {0} /\ clock \in Nat
  BY IpFields
<1>3. SpentInv([start |-> w.start, count |-> w.count], [start |-> n.start], n.hits[b], limit)
  BY <1>1, SpentFields
<1>4. /\ ip'[t][b] \in [start : Times, count : Nat]
      /\ subnet'[t] \in [start : Times, hits : [Addresses -> Nat]]
  BY Charging DEF IpRows, SubnetRows
<1>5. w2.start \in Nat /\ w2.count \in Nat /\ n2.start \in Nat /\ n2.hits[b] \in Nat
  BY <1>4 DEF Times
<1>6. CASE b # a
  <2>1. w2 = w
    BY <1>6, Charging
  <2>2. \/ n2.start = clock /\ n2.hits[b] = 0
        \/ n2.start = n.start /\ n2.hits[b] = n.hits[b]
    BY <1>6, Charging, SubnetHitTypes
  <2>3. CASE n2.start = clock /\ n2.hits[b] = 0
    BY <1>1, <1>2, <1>5, <2>1, <2>3 DEF SpentInv, Capped
  <2>4. CASE n2.start = n.start /\ n2.hits[b] = n.hits[b]
    BY <1>1, <2>1, <2>4 DEF SpentInv, Capped
  <2> QED BY <2>2, <2>3, <2>4
<1>7. CASE b = a /\ HitsSubnet(t, heavy, a)
  <2>1. HitsIp(t, heavy, a) /\ ~IpDenies(t, a)
    BY <1>7 DEF HitsSubnet
  <2>2. w2 = HitIp(t, a) /\ n2 = HitSubnet(t, a)
    BY <1>7, <2>1, Charging
  <2>3. w.count + 1 <= limit
    BY <1>2, <1>7, <2>1 DEF IpDenies
  <2>4. /\ w.count = 0 => w2.start = clock /\ w2.count = 1
        /\ w.count > 0 => w2.start = w.start /\ w2.count = w.count + 1
    BY <1>7, <2>1, <2>2, IpHitTypes
  <2>5. \/ n2.start = clock /\ n2.hits[b] = 1
        \/ n2.start = n.start /\ n2.hits[b] <= n.hits[b] + 1
    BY <1>7, <2>2, SubnetHitTypes
  <2>6. SpentInv([start |-> w2.start, count |-> w2.count], [start |-> n2.start], n2.hits[b], limit)
    <3> HIDE DEF w, n, w2, n2, limit
    <3>1. SpentInv(w, n, n.hits[b], limit)
      BY <1>1
    <3> QED BY <1>1, <1>2, <1>5, <2>3, <2>4, <2>5, <3>1, SMT DEF SpentInv, Capped
  <2>7. w2.start <= clock /\ n2.start <= clock
    BY <1>1, <1>2, <2>4, <2>5
  <2> QED BY <2>6, <2>7, SpentFields
<1>8. CASE b = a /\ HitsIp(t, heavy, a) /\ ~HitsSubnet(t, heavy, a)
  <2>1. IpDenies(t, a)
    BY <1>8 DEF HitsSubnet
  <2>2. w2 = HitIp(t, a) /\ n2 = n
    BY <1>8, Charging
  <2>3. w.count + 1 > limit
    BY <1>8, <2>1 DEF IpDenies
  <2>4. w2.start = w.start /\ w2.count >= w.count
    BY <1>2, <1>8, <2>2, <2>3, IpHitTypes
  <2>5. SpentInv([start |-> w2.start, count |-> w2.count], [start |-> n2.start], n2.hits[b], limit)
    BY <1>2, <1>3, <1>5, <2>2, <2>3, <2>4, DenialSpends
  <2> QED BY <1>1, <2>2, <2>4, <2>5, SpentFields
<1>9. CASE b = a /\ ~HitsIp(t, heavy, a)
  <2>1. ~HitsSubnet(t, heavy, a)
    BY <1>9 DEF HitsSubnet
  <2>2. w2 = w /\ n2 = n
    BY <1>9, <2>1, Charging
  <2> QED BY <1>1, <2>2
<1> QED BY <1>6, <1>7, <1>8, <1>9

\* A window that the clock ends: the address's ends no later than the subnet's,
\* when it began no later.
LEMMA TickKeepsWindows ==
    ASSUME TypeOK, WindowsInv, Tick
    PROVE  WindowsInv' /\ ip' \in IpRows /\ subnet' \in SubnetRows
<1>1. ip \in IpRows /\ subnet \in SubnetRows
  BY DEF TypeOK, IpRows, SubnetRows
<1>2. /\ ip' = [t \in Tiers |-> [a \in Addresses |->
              IF Started(ip[t][a], clock + 1, Window(t)) THEN ip[t][a] ELSE Fresh]]
      /\ subnet' = [t \in Tiers |->
              IF Started(subnet[t], clock + 1, Window(t)) THEN subnet[t] ELSE FreshSubnet]
      /\ clock' = clock + 1
  BY DEF Tick
<1>3. ip' \in IpRows
  BY <1>1, <1>2, FreshTypes DEF IpRows
<1>4. subnet' \in SubnetRows
  BY <1>1, <1>2, FreshTypes DEF SubnetRows
<1>5. WindowsInv'
  <2> SUFFICES ASSUME NEW t \in Tiers, NEW a \in Addresses
               PROVE  /\ ip'[t][a].start <= clock' /\ subnet'[t].start <= clock'
                      /\ SpentInv(ip'[t][a], subnet'[t], subnet'[t].hits[a], IpLimit[t])
    BY DEF WindowsInv, SpentInv, Capped
  <2> DEFINE w == ip[t][a]
             n == subnet[t]
             length == Window(t)
             limit == IpLimit[t]
  <2>1. w.start <= clock /\ n.start <= clock /\ SpentInv(w, n, n.hits[a], limit)
    BY DEF WindowsInv
  <2>2. /\ w.start \in Nat /\ w.count \in Nat /\ n.start \in Nat /\ n.hits[a] \in Nat
        /\ limit \in Nat \ {0} /\ clock \in Nat
    BY IpFields
  <2>3. length \in Nat
    BY LimitsAssumption DEF Window
  <2>4. ip'[t][a] = IF (clock + 1) - w.start < length THEN w ELSE Fresh
    <3>1. ip'[t][a] = IF Started(w, clock + 1, length) THEN w ELSE Fresh
      BY <1>2, Zenon
    <3> QED BY <3>1 DEF Started
  <2>5. subnet'[t] = IF (clock + 1) - n.start < length THEN n ELSE FreshSubnet
    <3>1. subnet'[t] = IF Started(n, clock + 1, length) THEN n ELSE FreshSubnet
      BY <1>2, Zenon
    <3> QED BY <3>1 DEF Started
  <2>6. /\ Fresh.count = 0 /\ Fresh.start = 0
        /\ FreshSubnet.start = 0 /\ FreshSubnet.hits[a] = 0
    BY DEF Fresh, FreshSubnet
  <2> HIDE DEF w, n, length, limit
  <2>7. CASE (clock + 1) - n.start >= length
    <3>1. subnet'[t] = FreshSubnet
      BY <2>2, <2>3, <2>5, <2>7
    <3>2. CASE ip'[t][a] = w
      BY <1>2, <2>1, <2>2, <2>6, <3>1, <3>2 DEF SpentInv, Capped, limit
    <3>3. CASE ip'[t][a] = Fresh
      BY <1>2, <2>1, <2>2, <2>6, <3>1, <3>3 DEF SpentInv, Capped, limit
    <3> QED BY <2>4, <3>2, <3>3
  <2>8. CASE (clock + 1) - n.start < length
    <3>1. subnet'[t] = n
      BY <2>5, <2>8
    <3>2. CASE (clock + 1) - w.start < length
      <4>1. ip'[t][a] = w
        BY <2>4, <3>2
      <4> QED BY <1>2, <2>1, <2>2, <3>1, <4>1 DEF limit
    <3>3. CASE (clock + 1) - w.start >= length
      <4>1. ip'[t][a] = Fresh
        BY <2>2, <2>3, <2>4, <3>3
      <4>2. w.start < n.start
        BY <2>2, <2>3, <2>8, <3>3
      <4>3. n.hits[a] <= limit - 1
        BY <2>1, <2>2, <4>2 DEF SpentInv, Capped
      <4> QED BY <1>2, <2>1, <2>2, <2>6, <3>1, <4>1, <4>3 DEF SpentInv, limit
    <3> QED BY <2>2, <2>3, <3>2, <3>3
  <2> QED BY <2>2, <2>3, <2>7, <2>8
<1> QED BY <1>3, <1>4, <1>5

-----------------------------------------------------------------------------
(* The theorems.                                                           *)

LEMMA InitLimits == Init => LimitsInv /\ WindowsInv
<1> SUFFICES ASSUME Init PROVE LimitsInv /\ WindowsInv
  OBVIOUS
<1>1. /\ clock = 0 /\ inFlight = 0 /\ usage = [d \in Days |-> Zero] /\ metered = usage
      /\ request = [r \in Requests |-> Out]
      /\ ip = [t \in Tiers |-> [a \in Addresses |-> Fresh]]
      /\ subnet = [t \in Tiers |-> FreshSubnet]
  BY DEF Init
<1>2. Zero \in Usages /\ Zero.requests = 0 /\ Zero.heavy = 0
  BY DEF Zero, Usages
<1>3. TypeOK
  <2>1. clock \in Times /\ inFlight \in 0..MaxConcurrent
    BY <1>1, LimitsAssumption DEF Times
  <2>2. request \in [Requests -> RequestStates]
    BY <1>1, States
  <2>3. ip \in IpRows
    BY <1>1, FreshTypes DEF IpRows
  <2>4. subnet \in SubnetRows
    BY <1>1, FreshTypes DEF SubnetRows
  <2>5. usage \in [Days -> Usages] /\ metered \in [Days -> Usages]
    BY <1>1, <1>2
  <2> QED BY <2>1, <2>2, <2>3, <2>4, <2>5 DEF TypeOK, IpRows, SubnetRows
<1>4. Inside = {} /\ Owing = {} /\ OwingHeavy = {}
  BY <1>1, States DEF Inside, Owing, OwingHeavy, WillCount
<1>5. Cardinality({}) = 0
  BY FS_EmptySet
<1>6. SlotsInv
  BY <1>1, <1>4, <1>5 DEF SlotsInv
<1>7. \A d \in Days : usage[d] = Zero
  BY <1>1
<1>8. DaysInv
  BY <1>2, <1>7, <1>3, UsageTypes DEF DaysInv, Ceiling
<1>9. TodayInv
  BY <1>2, <1>3, <1>4, <1>5, <1>7, UsageTypes DEF TodayInv, Ceiling
<1>10. WindowsInv
  <2> SUFFICES ASSUME NEW t \in Tiers, NEW a \in Addresses
               PROVE  /\ ip[t][a].start <= clock /\ subnet[t].start <= clock
                      /\ SpentInv(ip[t][a], subnet[t], subnet[t].hits[a], IpLimit[t])
    BY DEF WindowsInv
  <2>1. ip[t][a] = Fresh /\ subnet[t] = FreshSubnet
    BY <1>1
  <2>2. Fresh.count = 0 /\ Fresh.start = 0 /\ FreshSubnet.start = 0 /\ FreshSubnet.hits[a] = 0
    BY DEF Fresh, FreshSubnet
  <2>3. IpLimit[t] \in Nat \ {0}
    BY LimitsAssumption
  <2> QED BY <1>1, <2>1, <2>2, <2>3 DEF SpentInv
<1> QED BY <1>1, <1>3, <1>6, <1>8, <1>9, <1>10 DEF LimitsInv

\* A request arrives and goes where no day is owed anything.
LEMMA Arriving ==
    ASSUME LimitsInv, NEW r \in Requests, NEW s \in RequestStates,
           Arrives(r), Goes(r, s), s.pc # "out", ~WillCount(s),
           UNCHANGED <<clock, usage, metered>>
    PROVE  /\ SlotsInv' /\ inFlight' \in 0..MaxConcurrent /\ DaysInv' /\ TodayInv'
           /\ request' \in [Requests -> RequestStates]
  BY SlotTaken, GoesUncounted, Going DEF LimitsInv

\* A request that is inside goes on.
LEMMA GoingOn ==
    ASSUME LimitsInv, NEW r \in Requests, NEW s \in RequestStates,
           request[r].pc # "out", Goes(r, s), s.pc # "out",
           WillCount(s) => WillCount(request[r]) /\ s.heavy = request[r].heavy,
           UNCHANGED <<clock, inFlight, usage, metered>>
    PROVE  /\ SlotsInv' /\ inFlight' \in 0..MaxConcurrent /\ DaysInv' /\ TodayInv'
           /\ request' \in [Requests -> RequestStates]
  BY SlotKept, GoesUncounted, Going DEF LimitsInv

\* What a step of a request leaves of the windows.
LEMMA ChargedTypes ==
    ASSUME LimitsInv, WindowsInv, UNCHANGED clock,
           \/ UNCHANGED <<ip, subnet>>
           \/ \E heavy \in BOOLEAN, a \in Addresses : Charge(heavy, a)
    PROVE  WindowsInv' /\ ip' \in IpRows /\ subnet' \in SubnetRows
<1>1. CASE UNCHANGED <<ip, subnet>>
  BY <1>1 DEF LimitsInv, TypeOK, IpRows, SubnetRows, WindowsInv, SpentInv, Capped
<1>2. CASE \E heavy \in BOOLEAN, a \in Addresses : Charge(heavy, a)
  BY <1>2, Charging, ChargeKeepsWindows DEF LimitsInv
<1> QED BY <1>1, <1>2

LEMMA NextLimits == LimitsInv /\ WindowsInv /\ [Next]_vars => LimitsInv' /\ WindowsInv'
<1> SUFFICES ASSUME LimitsInv, WindowsInv, [Next]_vars PROVE LimitsInv' /\ WindowsInv'
  OBVIOUS
<1> USE DEF LimitsInv
<1> DEFINE Kept == /\ SlotsInv' /\ inFlight' \in 0..MaxConcurrent /\ DaysInv' /\ TodayInv'
                   /\ request' \in [Requests -> RequestStates]
           Windows == WindowsInv' /\ ip' \in IpRows /\ subnet' \in SubnetRows
           Books == usage' = metered' /\ usage' \in [Days -> Usages]
<1>1. ASSUME Kept, Windows, Books, clock' \in Times PROVE LimitsInv' /\ WindowsInv'
  BY <1>1 DEF TypeOK, IpRows, SubnetRows
<1>2. UNCHANGED <<usage, metered>> => Books
  BY DEF TypeOK
<1>3. UNCHANGED clock => clock' \in Times
  BY DEF TypeOK
<1> DEFINE answered == [pc |-> "answered"]
<1>4. answered \in RequestStates /\ answered.pc # "out" /\ ~WillCount(answered)
  BY States DEF WillCount
<1> HIDE DEF answered
<1>5. CASE Tick
  <2>1. Windows
    BY <1>5, TickKeepsWindows
  <2>2. clock' \in Times /\ UNCHANGED <<inFlight, request, usage, metered>>
    BY <1>5, LimitsAssumption DEF Tick, TypeOK, Times
  <2>3. TypeOK'
    BY <1>2, <2>1, <2>2 DEF TypeOK, IpRows, SubnetRows
  <2>4. SlotsInv'
    BY <2>2 DEF SlotsInv, Inside
  <2> QED BY <1>1, <1>2, <1>5, <2>1, <2>2, <2>3, <2>4, TickKeepsDays DEF TypeOK
<1>6. ASSUME NEW r \in Requests, NEW heavy \in BOOLEAN, NEW a \in Addresses,
             Anonymous(r, heavy, a) \/ BadKey(r, heavy, a)
      PROVE  LimitsInv' /\ WindowsInv'
  <2>1. /\ Arrives(r) /\ Goes(r, answered) /\ UNCHANGED <<clock, usage, metered>>
        /\ UNCHANGED <<ip, subnet>> \/ Charge(heavy, a)
    BY <1>6 DEF Anonymous, BadKey, Answered, answered
  <2>2. Windows
    BY <2>1, ChargedTypes
  <2>3. Kept
    BY <1>4, <2>1, Arriving
  <2> QED BY <1>1, <1>2, <1>3, <2>1, <2>2, <2>3
<1>7. ASSUME NEW r \in Requests, TurnedAway(r) PROVE LimitsInv' /\ WindowsInv'
  <2>1. Arrives(r) /\ Goes(r, answered) /\ UNCHANGED <<clock, ip, subnet, usage, metered>>
    BY <1>7 DEF TurnedAway, Answered, answered
  <2> QED BY <1>1, <1>2, <1>3, <1>4, <2>1, Arriving, ChargedTypes
<1>8. ASSUME NEW r \in Requests, NEW heavy \in BOOLEAN, Paced(r, heavy)
      PROVE  LimitsInv' /\ WindowsInv'
  <2> DEFINE s == [pc |-> "paced", heavy |-> heavy]
  <2>1. Arrives(r) /\ Goes(r, s) /\ UNCHANGED <<clock, ip, subnet, usage, metered>>
    BY <1>8 DEF Paced
  <2>2. s \in RequestStates /\ s.pc # "out" /\ ~WillCount(s)
    BY States DEF WillCount
  <2> HIDE DEF s
  <2> QED BY <1>1, <1>2, <1>3, <2>1, <2>2, Arriving, ChargedTypes
<1>9. ASSUME NEW r \in Requests, ReadUsage(r) PROVE LimitsInv' /\ WindowsInv'
  <2> DEFINE s == [pc |-> "read", heavy |-> request[r].heavy, read |-> usage[Today]]
  <2>1. /\ request[r].pc = "paced" /\ request[r] \in RequestStates
        /\ UNCHANGED <<clock, inFlight, ip, subnet, usage, metered>>
        /\ Goes(r, s) \/ Goes(r, answered)
    BY <1>9 DEF ReadUsage, At, TypeOK, Answered, answered
  <2>2. s \in RequestStates /\ s.pc # "out"
    BY <2>1, StateKinds, States, UsageTypes
  <2> HIDE DEF s
  <2>3. DaysInv' /\ TodayInv'
    BY <1>9, ReadKeepsDays
  <2>4. Kept
    BY <1>4, <2>1, <2>2, <2>3, SlotKept, Going
  <2> QED BY <1>1, <1>2, <1>3, <2>1, <2>4, ChargedTypes
<1>10. ASSUME NEW r \in Requests, Admit(r) PROVE LimitsInv' /\ WindowsInv'
  <2> DEFINE s == [pc |-> "served", heavy |-> request[r].heavy]
  <2>1. /\ request[r].pc = "read" /\ request[r] \in RequestStates
        /\ UNCHANGED <<clock, inFlight, ip, subnet, usage, metered>>
        /\ Goes(r, answered) \/ (Within(request[r].read, request[r].heavy) /\ Goes(r, s))
    BY <1>10 DEF Admit, At, TypeOK, Answered, answered
  <2>2. s \in RequestStates /\ s.pc # "out" /\ s.heavy = request[r].heavy
    BY <2>1, StateKinds, States
  <2> HIDE DEF s
  <2>3. CASE Goes(r, answered)
    BY <1>1, <1>2, <1>3, <1>4, <2>1, <2>3, GoingOn, ChargedTypes
  <2>4. CASE Within(request[r].read, request[r].heavy) /\ Goes(r, s)
    <3>1. WillCount(request[r])
      BY <2>1, <2>4 DEF WillCount
    <3> QED BY <1>1, <1>2, <1>3, <2>1, <2>2, <2>4, <3>1, GoingOn, ChargedTypes
  <2> QED BY <2>1, <2>3, <2>4
<1>11. ASSUME NEW r \in Requests, Count(r) PROVE LimitsInv' /\ WindowsInv'
  <2>1. /\ request[r].pc = "served" /\ Goes(r, answered)
        /\ UNCHANGED <<clock, inFlight, ip, subnet>> /\ usage' = metered'
    BY <1>11 DEF Count, At, Answered, answered
  <2>2. SlotsInv' /\ inFlight' \in 0..MaxConcurrent /\ request' \in [Requests -> RequestStates]
    BY <1>4, <2>1, SlotKept, Going
  <2>3. DaysInv' /\ TodayInv' /\ usage' \in [Days -> Usages]
    BY <1>11, CountKeepsDays
  <2> QED BY <1>1, <1>3, <2>1, <2>2, <2>3, ChargedTypes
<1>12. ASSUME NEW r \in Requests, NotCounted(r) PROVE LimitsInv' /\ WindowsInv'
  <2>1. /\ request[r].pc = "served" /\ Goes(r, answered)
        /\ UNCHANGED <<clock, inFlight, ip, subnet, usage, metered>>
    BY <1>12 DEF NotCounted, At, Answered, answered
  <2> QED BY <1>1, <1>2, <1>3, <1>4, <2>1, GoingOn, ChargedTypes
<1>13. ASSUME NEW r \in Requests, Leave(r) PROVE LimitsInv' /\ WindowsInv'
  <2>1. Goes(r, Out) /\ UNCHANGED <<clock, ip, subnet, usage, metered>>
    BY <1>13 DEF Leave
  <2>2. ~WillCount(Out)
    BY DEF WillCount, Out
  <2>3. Kept
    BY <1>13, <2>1, <2>2, States, SlotGivenBack, GoesUncounted, Going
  <2> QED BY <1>1, <1>2, <1>3, <2>1, <2>3, ChargedTypes
<1>14. CASE UNCHANGED vars
  <2>1. UNCHANGED <<clock, inFlight, request, ip, subnet, usage, metered>>
    BY <1>14 DEF vars
  <2>2. Owing' = Owing /\ OwingHeavy' = OwingHeavy /\ Inside' = Inside
    BY <2>1 DEF Owing, OwingHeavy, Inside, WillCount, Within
  <2>3. Kept
    BY <2>1, <2>2, NoMoreOwing DEF SlotsInv, TypeOK
  <2> QED BY <1>1, <1>2, <1>3, <2>1, <2>3, ChargedTypes
<1> QED BY <1>5, <1>6, <1>7, <1>8, <1>9, <1>10, <1>11, <1>12, <1>13, <1>14 DEF Next

\* The inductive invariant of the limits: the books agree, a slot is held by
\* each request inside, each day is within the ceiling with all that may still
\* be counted on it, and each address within what it may spend of its subnet.
THEOREM LimitsInvariant == Spec => [](LimitsInv /\ WindowsInv)
  BY InitLimits, NextLimits, PTL DEF Spec

\* Type correctness of slots, windows and usage, for any limits and lengths; among
\* others, no more than MaxConcurrent requests are in flight.
THEOREM LimitsTypeCorrect == Spec => []TypeOK
  BY LimitsInvariant, PTL DEF LimitsInv

\* However many requests read the quota before any of them is counted, and
\* wherever midnight falls, no day is overshot by more than the slots but one.
THEOREM OvershootIsBounded == Spec => []OvershootBounded
<1>1. LimitsInv => OvershootBounded
  <2> SUFFICES ASSUME LimitsInv, NEW d \in Days
               PROVE  /\ usage[d].requests <= Ceiling(Quota.requests)
                      /\ usage[d].heavy <= Ceiling(Quota.heavy)
    BY DEF OvershootBounded, LimitsInv, Ceiling
  <2> USE DEF LimitsInv
  <2>1. d \in Int /\ Today \in Int
    BY DaysAreNumbers, UsageTypes
  <2>2. CASE d < Today
    BY <2>2 DEF DaysInv
  <2>3. CASE d = Today
    BY <2>3, Finite, UsageTypes DEF TodayInv, Ceiling
  <2>4. CASE d > Today
    BY <2>4, UsageTypes DEF DaysInv, Ceiling
  <2> QED BY <2>1, <2>2, <2>3, <2>4
<1> QED BY <1>1, LimitsInvariant, PTL

\* Whatever an address sends and whichever tier refuses it, it takes of a window
\* of its subnet less than twice its own limit.
THEOREM NeighboursAreLeftTheirs == Spec => []NeighboursKeepTheirs
<1>1. LimitsInv /\ WindowsInv => NeighboursKeepTheirs
  <2> SUFFICES ASSUME LimitsInv, WindowsInv, NEW t \in Tiers, NEW a \in Addresses
               PROVE  subnet[t].hits[a] <= 2 * IpLimit[t] - 1
    BY DEF NeighboursKeepTheirs
  <2>1. SpentInv(ip[t][a], subnet[t], subnet[t].hits[a], IpLimit[t])
    BY DEF WindowsInv
  <2> QED BY <2>1, IpFields DEF SpentInv, Capped, LimitsInv
<1> QED BY <1>1, LimitsInvariant, PTL

-----------------------------------------------------------------------------
(* The seats of the subscriptions, and their turns.                        *)

\* Who holds the lock is counting or writing, and what it has counted still is so.
Inserts(r, s) == call[r].at = "insert" /\ call[r].sub = s
Writes(r, s) == call[r].at = "writes" /\ call[r].sub = s
Reactivates(r, s) == call[r].at \in {"waits", "writes"} /\ call[r].sub = s

LockInv == \A r \in Calls : call[r].at \in {"insert", "writes"} => lock = r
CountsInv ==
    \A r \in Calls, s \in Subs :
        /\ Inserts(r, s) => PoolFree(s) /\ today[Creator[s]] < MaxPerDay
        /\ Writes(r, s) => IF call[r].verified THEN SeatFree(s) ELSE PoolFree(s)

\* An id is given out once, and a row stays verified once it is.
IdsInv ==
    \A s \in Subs :
        /\ There(s) => s \in used
        /\ \A r \in Calls :
            /\ Reactivates(r, s) => s \in used /\ (call[r].verified /\ There(s) => row[s].verified)
            /\ Inserts(r, s) => s \in used /\ ~There(s) /\ \A o \in Calls : ~Reactivates(o, s)

ShapeInv == HooksTypeOK /\ (posting => page # <<>>)

SeatsInv == ShapeInv /\ LockInv /\ CountsInv /\ IdsInv /\ SeatsHold

LEMMA StageIs ==
    ASSUME HooksTypeOK, NEW r \in Calls
    PROVE  /\ call[r].at \in {"idle", "insert", "waits", "writes"}
           /\ call[r].at = "idle" => call[r] = Idle
           /\ call[r].at \in {"insert", "waits", "writes"} => call[r].sub \in Subs
           /\ call[r].at \in {"waits", "writes"} => call[r].verified \in BOOLEAN
           /\ call[r].at = "insert" => call[r] \in [at : {"insert"}, sub : Subs]
           /\ call[r].at \in {"waits", "writes"} =>
                  call[r] \in [at : {"waits", "writes"}, sub : Subs, verified : BOOLEAN]
<1>1. call[r] \in Stages  BY DEF HooksTypeOK
<1>. QED  BY <1>1 DEF Stages, Idle

LEMMA NoRowIsNone == NoRow \notin Rows
<1>1. SUFFICES ASSUME NoRow \in Rows PROVE FALSE  OBVIOUS
<1>2. DOMAIN NoRow = {"gone"}  BY DEF NoRow
<1>3. "active" \in DOMAIN NoRow  BY <1>1 DEF Rows
<1>. QED  BY <1>2, <1>3

LEMMA RowIs ==
    ASSUME HooksTypeOK, NEW s \in Subs
    PROVE  /\ There(s) <=> row[s] \in Rows
           /\ There(s) => /\ row[s].active \in BOOLEAN /\ row[s].verified \in BOOLEAN
                          /\ row[s].attempts \in 0..MaxAttempts /\ row[s].due \in BOOLEAN
                          /\ row[s].stamp \in 0..Now /\ row[s].old \in BOOLEAN
<1>1. row[s] \in Rows \cup {NoRow}  BY DEF HooksTypeOK
<1>2. There(s) <=> row[s] \in Rows  BY <1>1, NoRowIsNone DEF There
<1>. QED  BY <1>2 DEF Rows

LEMMA LesserOfTwo ==
    ASSUME NEW i \in Int, NEW j \in Int
    PROVE  Min({i, j}) = IF i <= j THEN i ELSE j
<1>1. CASE i <= j  BY <1>1 DEF Min
<1>2. CASE ~(i <= j)  BY <1>2 DEF Min
<1>. QED  BY <1>1, <1>2

\* The ranks are within the number of the rows.
LEMMA RankIs ==
    ASSUME HooksTypeOK, NEW n \in 0..Now
    PROVE  Rank(n) \in 0..Now
<1>. DEFINE S == {x \in Subs : There(x)}
            T == {row[o].stamp : o \in S}
            f == [o \in S |-> row[o].stamp]
<1>1. IsFiniteSet(S) /\ Cardinality(S) <= Cardinality(Subs) /\ Cardinality(S) \in Nat
      /\ Cardinality(Subs) \in Nat
  BY SubscriptionsAssumption, FS_Subset, FS_CardinalityType
<1>2. f \in Surjection(S, T)
  BY DEF Surjection
<1>3. IsFiniteSet(T) /\ Cardinality(T) <= Cardinality(S)
  BY <1>1, <1>2, FS_Surjection
<1>4. IsFiniteSet(T \cap 1..n) /\ Cardinality(T \cap 1..n) <= Cardinality(T)
  BY <1>3, FS_Subset
<1>5. Cardinality(T \cap 1..n) \in Nat /\ Cardinality(T) \in Nat
  BY <1>3, <1>4, FS_CardinalityType
<1>6. Rank(n) = Cardinality(T \cap 1..n)  BY DEF Rank
<1>. QED  BY <1>1, <1>3, <1>4, <1>5, <1>6 DEF Now

\* The sets that the ceilings count.
SeatedAt(h) == {s \in Subs : Verified(s) /\ Host[s] = h}
Seated == {s \in Subs : Verified(s)}
PoolOf(h, c) == {s \in Subs : Unverified(s) /\ Host[s] = h /\ Creator[s] = c}

\* A subset of some rows, all but one of them, is no larger than they are and one more.
LEMMA AtMostOneMore ==
    ASSUME NEW S, IsFiniteSet(S), NEW s, NEW T, T \subseteq S \cup {s}
    PROVE  /\ IsFiniteSet(T) /\ Cardinality(T) \in Nat /\ Cardinality(S) \in Nat
           /\ Cardinality(T) <= Cardinality(S) + 1
<1>1. /\ IsFiniteSet(S \cup {s})
      /\ Cardinality(S \cup {s}) = IF s \in S THEN Cardinality(S) ELSE Cardinality(S) + 1
  BY FS_AddElement
<1>2. IsFiniteSet(T) /\ Cardinality(T) <= Cardinality(S \cup {s})  BY <1>1, FS_Subset
<1>3. Cardinality(T) \in Nat /\ Cardinality(S) \in Nat  BY <1>2, FS_CardinalityType
<1>. QED  BY <1>1, <1>2, <1>3

LEMMA AtMostAsMany ==
    ASSUME NEW S, IsFiniteSet(S), NEW T, T \subseteq S
    PROVE  /\ IsFiniteSet(T) /\ Cardinality(T) \in Nat /\ Cardinality(S) \in Nat
           /\ Cardinality(T) <= Cardinality(S)
  BY FS_Subset, FS_CardinalityType

LEMMA FiniteSeats ==
    /\ IsFiniteSet(Seated) /\ IsFiniteSet(Seated \ misread)
    /\ \A h : IsFiniteSet(SeatedAt(h)) /\ IsFiniteSet(SeatedAt(h) \ misread)
    /\ \A h, c : IsFiniteSet(PoolOf(h, c))
<1>1. \A S : S \subseteq Subs => IsFiniteSet(S)  BY SubscriptionsAssumption, FS_Subset
<1>. QED  BY <1>1 DEF Seated, SeatedAt, PoolOf

LEMMA SeatsHoldIs ==
    SeatsHold <=> /\ Cardinality(Seated \ misread) <= MaxGlobal
                  /\ \A s \in Subs : /\ Cardinality(SeatedAt(Host[s]) \ misread) <= MaxPerHost
                                     /\ Cardinality(PoolOf(Host[s], Creator[s])) <= MaxUnverified
  BY DEF SeatsHold, Seated, SeatedAt, PoolOf, Pool

LEMMA FreeIs ==
    ASSUME NEW s
    PROVE  /\ SeatFree(s) <=> Cardinality(SeatedAt(Host[s])) < MaxPerHost /\ Cardinality(Seated) < MaxGlobal
           /\ PoolFree(s) <=> Cardinality(PoolOf(Host[s], Creator[s])) < MaxUnverified
  BY DEF SeatFree, PoolFree, SeatsOf, Seats, Pool, Seated, SeatedAt, PoolOf

\* No row is taken into a set that is counted.
Frees == \A x \in Subs : (Verified(x)' => Verified(x)) /\ (Unverified(x)' => Unverified(x))

LEMMA Freed ==
    ASSUME Frees, NEW s \in Subs
    PROVE  (SeatFree(s) => SeatFree(s)') /\ (PoolFree(s) => PoolFree(s)')
<1>. DEFINE h == Host[s]
            c == Creator[s]
<1>1. Seated' \subseteq Seated /\ SeatedAt(h)' \subseteq SeatedAt(h) /\ PoolOf(h, c)' \subseteq PoolOf(h, c)
  BY DEF Frees, Seated, SeatedAt, PoolOf
<1>2. /\ Cardinality(Seated') <= Cardinality(Seated) /\ Cardinality(SeatedAt(h)') <= Cardinality(SeatedAt(h))
      /\ Cardinality(PoolOf(h, c)') <= Cardinality(PoolOf(h, c))
      /\ Cardinality(Seated') \in Nat /\ Cardinality(SeatedAt(h)') \in Nat /\ Cardinality(PoolOf(h, c)') \in Nat
      /\ Cardinality(Seated) \in Nat /\ Cardinality(SeatedAt(h)) \in Nat /\ Cardinality(PoolOf(h, c)) \in Nat
  BY <1>1, FiniteSeats, AtMostAsMany
<1>. QED  BY SubscriptionsAssumption, <1>2 DEF SeatFree, PoolFree, SeatsOf, Seats, Pool, Seated, SeatedAt, PoolOf

\* What may be counted newly: nothing verified but of a free seat or misread, and
\* nothing unverified but of a free place.
LEMMA Kept ==
    ASSUME SeatsHold, NEW s \in Subs,
           \A x \in Subs : Verified(x)' /\ x \notin misread' =>
                               (Verified(x) /\ x \notin misread) \/ (x = s /\ SeatFree(s)),
           \A x \in Subs : Unverified(x)' => Unverified(x) \/ (x = s /\ PoolFree(s))
    PROVE  SeatsHold'
<1>1. Cardinality(Seated' \ misread') <= MaxGlobal
  <2>1. CASE SeatFree(s)
    <3>1. Seated' \ misread' \subseteq Seated \cup {s}  BY DEF Seated
    <3>2. Cardinality(Seated' \ misread') <= Cardinality(Seated) + 1 /\ Cardinality(Seated) \in Nat
          /\ Cardinality(Seated' \ misread') \in Nat
      BY <3>1, FiniteSeats, AtMostOneMore
    <3>. QED  BY SubscriptionsAssumption, <2>1, <3>2, FreeIs
  <2>2. CASE ~SeatFree(s)
    <3>1. Seated' \ misread' \subseteq Seated \ misread  BY <2>2 DEF Seated
    <3>2. Cardinality(Seated' \ misread') <= Cardinality(Seated \ misread)
          /\ Cardinality(Seated \ misread) \in Nat /\ Cardinality(Seated' \ misread') \in Nat
      BY <3>1, FiniteSeats, AtMostAsMany
    <3>. QED  BY SubscriptionsAssumption, <3>2, SeatsHoldIs
  <2>. QED  BY <2>1, <2>2
<1>2. ASSUME NEW t \in Subs
      PROVE  Cardinality(SeatedAt(Host[t])' \ misread') <= MaxPerHost
  <2>. PICK h : h = Host[t]  OBVIOUS
  <2>1. CASE SeatFree(s) /\ Host[s] = h
    <3>1. SeatedAt(h)' \ misread' \subseteq SeatedAt(h) \cup {s}  BY DEF SeatedAt
    <3>2. IsFiniteSet(SeatedAt(h))  BY FiniteSeats
    <3>. PICK T : T = SeatedAt(h)' \ misread'  OBVIOUS
    <3>3. Cardinality(T) <= Cardinality(SeatedAt(h)) + 1
          /\ Cardinality(SeatedAt(h)) \in Nat /\ Cardinality(T) \in Nat
      BY <3>1, <3>2, AtMostOneMore
    <3>. QED  BY SubscriptionsAssumption, <2>1, <3>3, FreeIs
  <2>2. CASE ~(SeatFree(s) /\ Host[s] = h)
    <3>1. SeatedAt(h)' \ misread' \subseteq SeatedAt(h) \ misread  BY <2>2 DEF SeatedAt
    <3>2. Cardinality(SeatedAt(h)' \ misread') <= Cardinality(SeatedAt(h) \ misread)
          /\ Cardinality(SeatedAt(h) \ misread) \in Nat /\ Cardinality(SeatedAt(h)' \ misread') \in Nat
      BY <3>1, FiniteSeats, AtMostAsMany
    <3>. QED  BY SubscriptionsAssumption, <3>2, SeatsHoldIs
  <2>. QED  BY <2>1, <2>2
<1>3. ASSUME NEW t \in Subs
      PROVE  Cardinality(PoolOf(Host[t], Creator[t])') <= MaxUnverified
  <2>. PICK h, c : h = Host[t] /\ c = Creator[t]  OBVIOUS
  <2>1. CASE PoolFree(s) /\ Host[s] = h /\ Creator[s] = c
    <3>1. PoolOf(h, c)' \subseteq PoolOf(h, c) \cup {s}  BY DEF PoolOf
    <3>2. Cardinality(PoolOf(h, c)') <= Cardinality(PoolOf(h, c)) + 1
          /\ Cardinality(PoolOf(h, c)) \in Nat /\ Cardinality(PoolOf(h, c)') \in Nat
      BY <3>1, FiniteSeats, AtMostOneMore
    <3>3. Cardinality(PoolOf(h, c)) < MaxUnverified  BY <2>1, FreeIs
    <3>. QED  BY SubscriptionsAssumption, <3>2, <3>3
  <2>2. CASE ~(PoolFree(s) /\ Host[s] = h /\ Creator[s] = c)
    <3>1. PoolOf(h, c)' \subseteq PoolOf(h, c)  BY <2>2 DEF PoolOf
    <3>2. Cardinality(PoolOf(h, c)') <= Cardinality(PoolOf(h, c))
          /\ Cardinality(PoolOf(h, c)) \in Nat /\ Cardinality(PoolOf(h, c)') \in Nat
      BY <3>1, FiniteSeats, AtMostAsMany
    <3>3. Cardinality(PoolOf(Host[t], Creator[t])) <= MaxUnverified  BY SeatsHoldIs
    <3>. QED  BY SubscriptionsAssumption, <3>2, <3>3
  <2>. QED  BY <2>1, <2>2
<1>4. SeatsHold' <=> /\ Cardinality(Seated' \ misread') <= MaxGlobal
                     /\ \A t \in Subs : /\ Cardinality(SeatedAt(Host[t])' \ misread') <= MaxPerHost
                                        /\ Cardinality(PoolOf(Host[t], Creator[t])') <= MaxUnverified
  BY DEF SeatsHold, Seated, SeatedAt, PoolOf, Pool
<1>. QED  BY <1>1, <1>2, <1>3, <1>4

\* A step that leaves the requests and the ids alone and takes no row anywhere:
\* each row is gone, or is there still, as verified as it was and not active anew.
Quiet ==
    \A x \in Subs :
        \/ row'[x] = NoRow
        \/ /\ There(x) /\ row'[x] \in Rows
           /\ row'[x].verified = row[x].verified /\ (row'[x].active => row[x].active)

LEMMA QuietFrees ==
    ASSUME Quiet, NEW x \in Subs
    PROVE  /\ There(x)' => There(x)
           /\ There(x) /\ There(x)' => row'[x].verified = row[x].verified
           /\ (Verified(x)' => Verified(x)) /\ (Unverified(x)' => Unverified(x))
  BY DEF Quiet, There, Verified, Unverified

\* What a quiet step keeps of the counts.
LEMMA QuietKeeps ==
    ASSUME SeatsInv, Quiet, ShapeInv',
           call' = call, lock' = lock, used' = used, misread' = misread,
           \A c \in Creators : today'[c] <= today[c]
    PROVE  SeatsInv'
<1>. HooksTypeOK /\ HooksTypeOK'  BY DEF SeatsInv, ShapeInv
<1>1. Frees  BY QuietFrees DEF Frees
<1>2. LockInv'  BY DEF LockInv, SeatsInv
<1>3. CountsInv'
  <2>. SUFFICES ASSUME NEW r \in Calls, NEW s \in Subs
       PROVE  /\ Inserts(r, s) => PoolFree(s)' /\ today'[Creator[s]] < MaxPerDay
              /\ Writes(r, s) => IF call[r].verified THEN SeatFree(s)' ELSE PoolFree(s)'
    BY DEF CountsInv, Inserts, Writes
  <2>1. (SeatFree(s) => SeatFree(s)') /\ (PoolFree(s) => PoolFree(s)')  BY <1>1, Freed
  <2>2. today[Creator[s]] < MaxPerDay => today'[Creator[s]] < MaxPerDay
    <3>1. Creator[s] \in Creators  BY DEF Creators
    <3>2. today[Creator[s]] \in Int /\ today'[Creator[s]] \in Int  BY SubscriptionsAssumption, <3>1 DEF HooksTypeOK
    <3>. QED  BY SubscriptionsAssumption, <3>1, <3>2
  <2>. QED  BY <2>1, <2>2 DEF SeatsInv, CountsInv
<1>4. IdsInv'
  <2>. SUFFICES ASSUME NEW s \in Subs
       PROVE  /\ There(s)' => s \in used
              /\ \A r \in Calls :
                  /\ Reactivates(r, s) => s \in used /\ (call[r].verified /\ There(s)' => row'[s].verified)
                  /\ Inserts(r, s) => s \in used /\ ~There(s)' /\ \A o \in Calls : ~Reactivates(o, s)
    BY DEF IdsInv, Reactivates, Inserts
  <2>1. There(s)' => There(s) /\ row'[s].verified = row[s].verified  BY QuietFrees
  <2>. QED  BY <2>1 DEF SeatsInv, IdsInv
<1>5. SeatsHold'
  <2>1. CASE Subs = {}
    <3>1. Seated' = {} /\ Seated' \ misread' = {}  BY <2>1 DEF Seated
    <3>. QED  BY SubscriptionsAssumption, <2>1, <3>1, FS_EmptySet DEF SeatsHold, Seated
  <2>2. CASE Subs # {}
    <3>. PICK s : s \in Subs  BY <2>2
    <3>. QED  BY <1>1, Kept DEF Frees, SeatsInv
  <2>. QED  BY <2>1, <2>2
<1>. QED  BY <1>2, <1>3, <1>4, <1>5 DEF SeatsInv

\* The new rows that the steps write.
LEMMA NewRows ==
    ASSUME HooksTypeOK, NEW s \in Subs, There(s)
    PROVE  /\ Disabled(s) \in Rows /\ Disabled(s).verified = row[s].verified /\ ~Disabled(s).active
           /\ AfterFailure(s) \in Rows /\ AfterFailure(s).verified = row[s].verified
           /\ AfterFailure(s).active => row[s].active
           /\ LET new == [row[s] EXCEPT !.verified = TRUE, !.due = TRUE, !.attempts = Min({@ + 1, MaxAttempts})]
              IN  new \in Rows /\ new.verified /\ (new.active => row[s].active)
<1>1. row[s] \in Rows /\ row[s].attempts \in 0..MaxAttempts  BY RowIs
<1>2. Min({row[s].attempts + 1, MaxAttempts}) \in 0..MaxAttempts
  <2>1. row[s].attempts + 1 \in Int /\ MaxAttempts \in Nat /\ row[s].attempts + 1 >= 0
    BY SubscriptionsAssumption, <1>1
  <2>2. Min({row[s].attempts + 1, MaxAttempts}) =
            IF row[s].attempts + 1 <= MaxAttempts THEN row[s].attempts + 1 ELSE MaxAttempts
    BY <2>1, LesserOfTwo
  <2>. QED  BY <2>1, <2>2
<1>3. Disabled(s) \in Rows /\ Disabled(s).verified = row[s].verified /\ ~Disabled(s).active
  BY <1>1, <1>2 DEF Disabled, Rows
<1>4. LET new == [row[s] EXCEPT !.verified = TRUE, !.due = TRUE, !.attempts = Min({@ + 1, MaxAttempts})]
      IN  new \in Rows /\ new.verified /\ (new.active => row[s].active)
  BY <1>1, <1>2 DEF Rows
<1>5. CASE row[s].attempts + 1 >= MaxAttempts
  BY <1>3, <1>4, <1>5 DEF AfterFailure
<1>6. CASE ~(row[s].attempts + 1 >= MaxAttempts)
  <2>1. row[s].attempts + 1 \in 0..MaxAttempts  BY SubscriptionsAssumption, <1>1, <1>6
  <2>2. AfterFailure(s) = [row[s] EXCEPT !.attempts = @ + 1, !.due = FALSE]  BY <1>6 DEF AfterFailure
  <2>3. AfterFailure(s) \in Rows /\ AfterFailure(s).verified = row[s].verified
        /\ (AfterFailure(s).active => row[s].active)
    BY <1>1, <2>1, <2>2 DEF Rows
  <2>. QED  BY <1>3, <1>4, <2>3
<1>. QED  BY <1>5, <1>6

LEMMA SetRow ==
    ASSUME HooksTypeOK, NEW s \in Subs, NEW new \in Rows \cup {NoRow}, row' = [row EXCEPT ![s] = new]
    PROVE  /\ row' \in [Subs -> Rows \cup {NoRow}] /\ row'[s] = new
           /\ \A x \in Subs : x # s => row'[x] = row[x]
  BY DEF HooksTypeOK

\* A step that writes one row, and quietly so.
LEMMA SetQuietly ==
    ASSUME HooksTypeOK, NEW s \in Subs, NEW new \in Rows \cup {NoRow}, row' = [row EXCEPT ![s] = new],
           There(s),
           new \in Rows => new.verified = row[s].verified /\ (new.active => row[s].active)
    PROVE  Quiet
<1>. SUFFICES ASSUME NEW x \in Subs
     PROVE  \/ row'[x] = NoRow
            \/ /\ There(x) /\ row'[x] \in Rows
               /\ row'[x].verified = row[x].verified /\ (row'[x].active => row[x].active)
  BY DEF Quiet
<1>1. CASE x = s  BY <1>1, SetRow
<1>2. CASE x # s
  <2>1. row'[x] = row[x]  BY <1>2, SetRow
  <2>2. row[x] = NoRow \/ (There(x) /\ row[x] \in Rows)  BY RowIs DEF There
  <2>. QED  BY <2>1, <2>2
<1>. QED  BY <1>1, <1>2

LEMMA StaysQuiet ==
    ASSUME HooksTypeOK, UNCHANGED row
    PROVE  Quiet
<1>1. \A x \in Subs : row[x] = NoRow \/ (There(x) /\ row[x] \in Rows)  BY RowIs DEF There
<1>. QED  BY <1>1 DEF Quiet

LEMMA ForgetType ==
    ASSUME HooksTypeOK, NEW s \in Subs, ForgetTurns(s)
    PROVE  overtaken' \in [Subs -> [Subs -> 0..2]]
  BY DEF HooksTypeOK, ForgetTurns

LEMMA DeleteStep ==
    ASSUME SeatsInv, NEW s \in Subs, Delete(s) PROVE SeatsInv'
<1>. HooksTypeOK  BY DEF SeatsInv, ShapeInv
<1>1. There(s) /\ row' = [row EXCEPT ![s] = NoRow]  BY DEF Delete
<1>2. Quiet  BY <1>1, SetQuietly, NoRowIsNone
<1>3. row' \in [Subs -> Rows \cup {NoRow}]  BY <1>1, SetRow
<1>4. ShapeInv'  BY <1>3 DEF SeatsInv, ShapeInv, HooksTypeOK, Delete, api
<1>5. \A c \in Creators : today'[c] <= today[c]  BY SubscriptionsAssumption DEF Delete, HooksTypeOK
<1>. QED  BY <1>2, <1>4, <1>5, QuietKeeps DEF Delete

\* One step of the dispatcher, or of time, that is quiet.
LEMMA DispatcherKeeps ==
    ASSUME SeatsInv, Quiet, ShapeInv', UNCHANGED dispatcher
    PROVE  SeatsInv'
<1>1. \A c \in Creators : today'[c] <= today[c]
  BY SubscriptionsAssumption DEF dispatcher, SeatsInv, ShapeInv, HooksTypeOK
<1>. QED  BY <1>1, QuietKeeps DEF dispatcher

LEMMA AnswersShape ==
    ASSUME SeatsInv, NEW s \in Subs, NEW new \in Rows, Answers(s, new)
    PROVE  ShapeInv' /\ There(s) /\ row' = [row EXCEPT ![s] = new] /\ UNCHANGED dispatcher
<1>. HooksTypeOK  BY DEF SeatsInv, ShapeInv
<1>1. row' \in [Subs -> Rows \cup {NoRow}]  BY SetRow DEF Answers
<1>2. page' \in Seq(Subs) /\ posting' = FALSE  BY DEF Answers, NextRow, HooksTypeOK
<1>3. UNCHANGED <<used, today, call, lock, misread, returns, begun, overtaken, crashes>>
  BY DEF Answers, dispatcher
<1>. QED  BY <1>1, <1>2, <1>3 DEF ShapeInv, HooksTypeOK, Answers

LEMMA FailedStep ==
    ASSUME SeatsInv, NEW s \in Subs, Failed(s) \/ Gone(s) PROVE SeatsInv'
<1>. HooksTypeOK  BY DEF SeatsInv, ShapeInv
<1>1. There(s)  BY DEF Failed, Gone, Answers
<1>2. PICK new \in Rows : /\ Answers(s, new) /\ new.verified = row[s].verified
                          /\ new.active => row[s].active
  BY <1>1, NewRows DEF Failed, Gone
<1>3. ShapeInv' /\ row' = [row EXCEPT ![s] = new] /\ UNCHANGED dispatcher  BY <1>2, AnswersShape
<1>4. Quiet  BY <1>1, <1>2, <1>3, SetQuietly
<1>. QED  BY <1>3, <1>4, DispatcherKeeps

LEMMA OutOfTimeStep ==
    ASSUME SeatsInv, OutOfTime \/ Lost \/ Crash PROVE SeatsInv'
<1>. HooksTypeOK  BY DEF SeatsInv, ShapeInv
<1>1. Quiet  BY StaysQuiet DEF OutOfTime, Lost, Crash
<1>2. UNCHANGED dispatcher  BY DEF OutOfTime, Lost, Crash
<1>3. /\ page' \in Seq(Subs) /\ (posting' => page' # <<>>) /\ posting' \in BOOLEAN
      /\ crashes' \in 0..MaxCrashes /\ UNCHANGED <<row, begun, overtaken>>
  <2>1. page \in Seq(Subs) /\ posting \in BOOLEAN /\ crashes \in 0..MaxCrashes /\ MaxCrashes \in Nat
    BY SubscriptionsAssumption DEF HooksTypeOK
  <2>2. CASE OutOfTime  BY <2>1, <2>2 DEF OutOfTime
  <2>3. CASE Lost
    <3>1. page # <<>>  BY <2>3 DEF Lost, SeatsInv, ShapeInv
    <3>2. page' = Tail(page) /\ posting' = FALSE /\ UNCHANGED <<row, begun, overtaken, crashes>>
      BY <2>3 DEF Lost, NextRow
    <3>3. page' \in Seq(Subs)  BY <2>1, <3>1, <3>2
    <3>4. ~posting' /\ posting' \in BOOLEAN  BY <3>2
    <3>5. crashes' \in 0..MaxCrashes  BY <2>1, <3>2
    <3>. QED  BY <3>2, <3>3, <3>4, <3>5
  <2>4. CASE Crash
    <3>1. page' = <<>> /\ posting' = FALSE /\ crashes < MaxCrashes /\ crashes' = crashes + 1
          /\ UNCHANGED <<row, begun, overtaken>>
      BY <2>4 DEF Crash
    <3>2. page' \in Seq(Subs)  BY <3>1
    <3>3. ~posting' /\ posting' \in BOOLEAN  BY <3>1
    <3>4. crashes' \in 0..MaxCrashes  BY <2>1, <3>1
    <3>. QED  BY <3>1, <3>2, <3>3, <3>4
  <2>. QED  BY <2>2, <2>3, <2>4
<1>4. ShapeInv'  BY <1>2, <1>3 DEF ShapeInv, HooksTypeOK, dispatcher
<1>. QED  BY <1>1, <1>2, <1>4, DispatcherKeeps

LEMMA CollectOldStep ==
    ASSUME SeatsInv, CollectOld PROVE SeatsInv'
<1>. HooksTypeOK  BY DEF SeatsInv, ShapeInv
<1>. PICK s \in Subs : s = Head(page)  BY DEF CollectOld, HooksTypeOK
<1>1. There(s) /\ row' = [row EXCEPT ![s] = NoRow]  BY DEF CollectOld
<1>2. Quiet  BY <1>1, SetQuietly, NoRowIsNone
<1>3. row' \in [Subs -> Rows \cup {NoRow}]  BY <1>1, SetRow
<1>4. UNCHANGED dispatcher  BY DEF CollectOld
<1>5. page' \in Seq(Subs) /\ posting' = FALSE /\ begun' = TRUE /\ UNCHANGED <<overtaken, crashes>>
  BY DEF CollectOld, NextRow, HooksTypeOK
<1>6. ShapeInv'  BY <1>3, <1>4, <1>5 DEF ShapeInv, HooksTypeOK, dispatcher
<1>. QED  BY <1>2, <1>4, <1>6, DispatcherKeeps

LEMMA ChallengeStep ==
    ASSUME SeatsInv, Challenge PROVE SeatsInv'
<1>. HooksTypeOK  BY DEF SeatsInv, ShapeInv
<1>. PICK s \in Subs : s = Head(page)  BY DEF Challenge, HooksTypeOK
<1>. DEFINE new == IF There(s) THEN [row[s] EXCEPT !.stamp = Now] ELSE NoRow
<1>1. row' = [row EXCEPT ![s] = new]  BY DEF Challenge
<1>2. Now \in 0..Now
  <2>1. Cardinality(Subs) \in Nat  BY SubscriptionsAssumption, FS_CardinalityType
  <2>. QED  BY <2>1 DEF Now
<1>3. new \in Rows \cup {NoRow}
      /\ (There(s) => new \in Rows /\ new.verified = row[s].verified /\ new.active = row[s].active)
  <2>1. CASE There(s)
    <3>1. row[s] \in Rows  BY <2>1, RowIs
    <3>. QED  BY <1>2, <2>1, <3>1 DEF Rows
  <2>2. CASE ~There(s)  BY <2>2
  <2>. QED  BY <2>1, <2>2
<1>4. Quiet
  <2>1. CASE There(s)
    <3>. HIDE DEF new
    <3>. QED  BY <1>1, <1>3, <2>1, SetQuietly
  <2>2. CASE ~There(s)
    <3>1. row[s] = NoRow  BY <2>2 DEF There
    <3>2. row' = row  BY <1>1, <2>2, <3>1 DEF HooksTypeOK
    <3>. QED  BY <3>2, StaysQuiet
  <2>. QED  BY <2>1, <2>2
<1>5. row' \in [Subs -> Rows \cup {NoRow}]
  <2>. HIDE DEF new
  <2>. QED  BY <1>1, <1>3, SetRow
<1>6. overtaken' \in [Subs -> [Subs -> 0..2]]
  <2>1. \A n \in 0..2 : Min({n + 1, 2}) \in 0..2  BY LesserOfTwo
  <2>2. \A o \in Subs : overtaken[o] \in [Subs -> 0..2]  BY DEF HooksTypeOK
  <2>3. \A o \in Subs : [overtaken[o] EXCEPT ![s] = Min({@ + 1, 2})] \in [Subs -> 0..2]
    BY <2>1, <2>2
  <2>4. overtaken' = [o \in Subs |->
              IF o = s THEN [x \in Subs |-> 0]
              ELSE IF o \in Due THEN [overtaken[o] EXCEPT ![s] = Min({@ + 1, 2})] ELSE overtaken[o]]
    BY DEF Challenge
  <2>. QED  BY <2>2, <2>3, <2>4
<1>7. UNCHANGED dispatcher /\ posting' = TRUE /\ begun' = TRUE /\ UNCHANGED <<page, crashes>> /\ page # <<>>
  BY DEF Challenge
<1>8. ShapeInv'  BY <1>5, <1>6, <1>7 DEF ShapeInv, HooksTypeOK, dispatcher
<1>. QED  BY <1>4, <1>7, <1>8, DispatcherKeeps

LEMMA BeginStep ==
    ASSUME SeatsInv, BeginChallenges PROVE SeatsInv'
<1>. HooksTypeOK  BY DEF SeatsInv, ShapeInv
<1>1. \A x \in Subs : There(x) => [row[x] EXCEPT !.stamp = Rank(@)] \in Rows
  <2>. SUFFICES ASSUME NEW x \in Subs, There(x) PROVE [row[x] EXCEPT !.stamp = Rank(@)] \in Rows
    OBVIOUS
  <2>1. row[x] \in Rows /\ row[x].stamp \in 0..Now  BY RowIs
  <2>2. Rank(row[x].stamp) \in 0..Now  BY <2>1, RankIs
  <2>. QED  BY <2>1, <2>2 DEF Rows
<1>2. row' = [x \in Subs |-> IF Collected(x) \/ ~There(x) THEN NoRow
                                ELSE [row[x] EXCEPT !.stamp = Rank(@)]]
  BY DEF BeginChallenges
<1>3. row' \in [Subs -> Rows \cup {NoRow}]  BY <1>1, <1>2
<1>4. Quiet
  <2>. SUFFICES ASSUME NEW x \in Subs, row'[x] # NoRow
       PROVE  /\ There(x) /\ row'[x] \in Rows
              /\ row'[x].verified = row[x].verified /\ (row'[x].active => row[x].active)
    BY DEF Quiet
  <2>1. There(x) /\ row'[x] = [row[x] EXCEPT !.stamp = Rank(@)]  BY <1>2
  <2>2. row[x] \in Rows  BY <2>1, RowIs
  <2>. QED  BY <1>1, <2>1, <2>2 DEF Rows
<1>5. page' \in Seq(Subs)
  <2>. PICK p \in SetToSeqs(Due) : page' = SubSeq(p, 1, Min({PageSize, Len(p)}))  BY DEF BeginChallenges
  <2>1. IsFiniteSet(Due)  BY SubscriptionsAssumption, FS_Subset DEF Due
  <2>2. Cardinality(Due) \in Nat  BY <2>1, FS_CardinalityType
  <2>3. p \in [1..Cardinality(Due) -> Due]  BY DEF SetToSeqs
  <2>4. p \in Seq(Subs) /\ Len(p) = Cardinality(Due)
    <3>. PICK n \in Nat : n = Cardinality(Due)  BY <2>2
    <3>1. p \in [1..n -> Subs]  BY <2>3 DEF Due
    <3>2. p \in Seq(Subs)  BY <3>1
    <3>3. DOMAIN p = 1..n /\ DOMAIN p = 1..Len(p) /\ Len(p) \in Nat  BY <3>1, <3>2, LenProperties
    <3>4. Len(p) = n  BY <3>3
    <3>. QED  BY <3>2, <3>4
  <2>5. Min({PageSize, Len(p)}) \in 0..Len(p)
    <3>1. PageSize \in Nat /\ Len(p) \in Nat  BY SubscriptionsAssumption, <2>2, <2>4
    <3>2. Min({PageSize, Len(p)}) = IF PageSize <= Len(p) THEN PageSize ELSE Len(p)
      BY <3>1, LesserOfTwo
    <3>. QED  BY <3>1, <3>2
  <2>. PICK n \in 0..Len(p) : n = Min({PageSize, Len(p)})  BY <2>5
  <2>6. \A i \in 1..n : p[i] \in Subs  BY <2>2, <2>4, ElementOfSeq
  <2>7. SubSeq(p, 1, n) \in Seq(Subs)
    <3>1. 1 \in Int /\ n \in Int  BY <2>4, LenProperties
    <3>. QED  BY <2>6, <3>1, SubSeqProperties
  <2>. QED  BY <2>7
<1>6. page = <<>> /\ begun' = FALSE /\ UNCHANGED <<posting, overtaken, crashes>> /\ UNCHANGED dispatcher
  BY DEF BeginChallenges
<1>7. ShapeInv'  BY <1>3, <1>5, <1>6 DEF ShapeInv, SeatsInv, HooksTypeOK, dispatcher
<1>. QED  BY <1>4, <1>6, <1>7, DispatcherKeeps

LEMMA DeliveryStep ==
    ASSUME SeatsInv, NEW s \in Subs, DeliveryDisables(s) PROVE SeatsInv'
<1>. HooksTypeOK  BY DEF SeatsInv, ShapeInv
<1>. DEFINE new == [row[s] EXCEPT !.active = FALSE, !.old = FALSE]
<1>1. There(s) /\ row[s] \in Rows  BY RowIs DEF DeliveryDisables, Verified
<1>2. row' = [row EXCEPT ![s] = new]  BY <1>1 DEF DeliveryDisables, HooksTypeOK
<1>3. new \in Rows /\ new.verified = row[s].verified /\ ~new.active  BY <1>1 DEF Rows
<1>. HIDE DEF new
<1>4. Quiet  BY <1>1, <1>2, <1>3, SetQuietly
<1>5. row' \in [Subs -> Rows \cup {NoRow}]  BY <1>2, <1>3, SetRow
<1>6. UNCHANGED dispatcher /\ UNCHANGED <<page, posting, begun, overtaken, crashes>>
  BY DEF DeliveryDisables
<1>7. ShapeInv'  BY <1>5, <1>6 DEF ShapeInv, SeatsInv, HooksTypeOK, dispatcher
<1>. QED  BY <1>4, <1>6, <1>7, DispatcherKeeps

LEMMA TimeStep ==
    ASSUME SeatsInv, NEW s \in Subs, BackoffElapses(s) \/ GrowsOld(s) PROVE SeatsInv'
<1>. HooksTypeOK  BY DEF SeatsInv, ShapeInv
<1>1. There(s) /\ row[s] \in Rows  BY RowIs DEF BackoffElapses, GrowsOld, Unverified
<1>2. PICK new \in Rows : /\ row' = [row EXCEPT ![s] = new]
                          /\ new.verified = row[s].verified /\ new.active = row[s].active
  <2>1. CASE BackoffElapses(s)
    <3>. DEFINE n == [row[s] EXCEPT !.due = TRUE]
    <3>1. n \in Rows /\ n.verified = row[s].verified /\ n.active = row[s].active  BY <1>1 DEF Rows
    <3>2. row' = [row EXCEPT ![s] = n]  BY <1>1, <2>1 DEF BackoffElapses
    <3>. QED  BY <3>1, <3>2
  <2>2. CASE GrowsOld(s)
    <3>. DEFINE n == [row[s] EXCEPT !.old = TRUE]
    <3>1. n \in Rows /\ n.verified = row[s].verified /\ n.active = row[s].active  BY <1>1 DEF Rows
    <3>2. row' = [row EXCEPT ![s] = n]  BY <1>1, <2>2 DEF GrowsOld
    <3>. QED  BY <3>1, <3>2
  <2>. QED  BY <2>1, <2>2
<1>3. Quiet  BY <1>1, <1>2, SetQuietly
<1>4. row' \in [Subs -> Rows \cup {NoRow}]  BY <1>2, SetRow
<1>5. UNCHANGED <<today, used, call, lock, page, posting, begun, misread, returns, crashes>>
  BY DEF BackoffElapses, GrowsOld, time
<1>6. overtaken' \in [Subs -> [Subs -> 0..2]]
  <2>1. CASE BackoffElapses(s)
    <3>1. [o \in Subs |-> 0] \in [Subs -> 0..2]  OBVIOUS
    <3>. QED  BY <2>1, <3>1 DEF BackoffElapses, HooksTypeOK
  <2>2. CASE GrowsOld(s)  BY <2>2 DEF GrowsOld, HooksTypeOK
  <2>. QED  BY <2>1, <2>2
<1>7. ShapeInv'  BY <1>4, <1>5, <1>6 DEF ShapeInv, SeatsInv, HooksTypeOK
<1>. QED  BY <1>3, <1>5, <1>7, DispatcherKeeps DEF dispatcher

LEMMA EventAgesStep ==
    ASSUME SeatsInv, NEW c \in Creators, EventAges(c) PROVE SeatsInv'
<1>. HooksTypeOK  BY DEF SeatsInv, ShapeInv
<1>1. today' \in [Creators -> 0..MaxPerDay] /\ \A x \in Creators : today'[x] <= today[x]
  BY SubscriptionsAssumption DEF EventAges, HooksTypeOK
<1>2. UNCHANGED <<row, overtaken, used, call, lock, page, posting, begun, misread, returns, crashes>>
  BY DEF EventAges, time
<1>3. Quiet  BY <1>2, StaysQuiet
<1>4. ShapeInv'  BY <1>1, <1>2 DEF ShapeInv, SeatsInv, HooksTypeOK
<1>. QED  BY <1>1, <1>2, <1>3, <1>4, QuietKeeps

-----------------------------------------------------------------------------
(* The steps of those who take seats.                                      *)

LEMMA NobodyHolds ==
    ASSUME SeatsInv, LockFree, NEW r \in Calls
    PROVE  call[r].at \notin {"insert", "writes"}
  BY SubscriptionsAssumption DEF SeatsInv, LockInv, LockFree

LEMMA OneHolds ==
    ASSUME SeatsInv, NEW r \in Calls, call[r].at \in {"insert", "writes"},
           NEW o \in Calls, o # r
    PROVE  call[o].at \notin {"insert", "writes"}
  BY DEF SeatsInv, LockInv

LEMMA SetStage ==
    ASSUME HooksTypeOK, NEW r \in Calls, NEW st \in Stages, call' = [call EXCEPT ![r] = st]
    PROVE  /\ call' \in [Calls -> Stages] /\ call'[r] = st
           /\ \A o \in Calls : o # r => call'[o] = call[o]
  BY DEF HooksTypeOK

LEMMA StageMoves ==
    ASSUME NEW r, NEW s, call'[r] = call[r]
    PROVE  /\ Inserts(r, s)' <=> Inserts(r, s)
           /\ Writes(r, s)' <=> Writes(r, s)
           /\ Reactivates(r, s)' <=> Reactivates(r, s)
  BY DEF Inserts, Writes, Reactivates

LEMMA RowsStay ==
    ASSUME UNCHANGED row
    PROVE  /\ \A s : There(s)' <=> There(s)
           /\ \A s : (SeatFree(s)' <=> SeatFree(s)) /\ (PoolFree(s)' <=> PoolFree(s))
           /\ UNCHANGED misread => (SeatsHold' <=> SeatsHold)
  BY DEF There, SeatFree, PoolFree, Seats, SeatsOf, Pool, Verified, Unverified, SeatsHold

LEMMA CreateCountsStep ==
    ASSUME SeatsInv, NEW r \in Calls, NEW s \in Subs, CreateCounts(r, s)
    PROVE  SeatsInv'
<1>. HooksTypeOK  BY DEF SeatsInv, ShapeInv
<1>. DEFINE st == [at |-> "insert", sub |-> s]
<1>1. LockFree /\ s \notin used /\ call[r] = Idle /\ lock' = r /\ used' = used \cup {s}
      /\ today[Creator[s]] < MaxPerDay /\ PoolFree(s) /\ call' = [call EXCEPT ![r] = st]
  BY DEF CreateCounts
<1>2. UNCHANGED <<row, today, overtaken, misread, returns, page, posting, begun, crashes>>
  BY DEF CreateCounts, api
<1>3. st \in Stages /\ st.at = "insert" /\ st.sub = s  BY DEF Stages
<1>. HIDE DEF st
<1>4. /\ call' \in [Calls -> Stages] /\ call'[r] = st
      /\ \A o \in Calls : o # r => call'[o] = call[o]
  BY <1>1, <1>3, SetStage
<1>5. \A o \in Calls : o # r => call'[o] = call[o] /\ call[o].at \notin {"insert", "writes"}
  BY <1>1, <1>4, NobodyHolds
<1>6. ShapeInv'  BY <1>1, <1>2, <1>4 DEF ShapeInv, SeatsInv, HooksTypeOK
<1>7. LockInv'  BY <1>1, <1>5 DEF LockInv
<1>8. CountsInv'
  <2>1. PoolFree(s)' /\ today'[Creator[s]] < MaxPerDay  BY <1>1, <1>2, RowsStay
  <2>2. \A o \in Calls, x \in Subs : ~Writes(o, x)' /\ (Inserts(o, x)' => x = s)
    BY <1>3, <1>4, <1>5 DEF Writes, Inserts
  <2>. QED  BY <2>1, <2>2 DEF CountsInv
<1>9. IdsInv'
  <2>1. \A x \in Subs : (There(x)' => There(x)) /\ (There(x) => x \in used) /\ ~There(s)
    BY <1>1, <1>2, RowsStay DEF SeatsInv, IdsInv
  <2>2. \A o \in Calls, x \in Subs : Inserts(o, x)' => x = s
    BY <1>3, <1>4, <1>5 DEF Inserts
  <2>3. \A o \in Calls, x \in Subs :
            Reactivates(o, x)' => Reactivates(o, x) /\ call'[o] = call[o]
    BY <1>3, <1>4 DEF Reactivates
  <2>4. \A o \in Calls, x \in Subs :
            Reactivates(o, x) => x \in used /\ (call[o].verified /\ There(x) => row[x].verified)
    BY DEF SeatsInv, IdsInv
  <2>5. \A o \in Calls : ~Reactivates(o, s)'  BY <1>1, <2>3, <2>4
  <2>. SUFFICES ASSUME NEW x \in Subs
       PROVE  /\ There(x)' => x \in used'
              /\ \A o \in Calls :
                  /\ Reactivates(o, x)' => x \in used' /\ (call'[o].verified /\ There(x)' => row'[x].verified)
                  /\ Inserts(o, x)' => x \in used' /\ ~There(x)' /\ \A p \in Calls : ~Reactivates(p, x)'
    BY DEF IdsInv
  <2>. QED  BY <1>1, <1>2, <2>1, <2>2, <2>3, <2>4, <2>5
<1>10. SeatsHold'  BY <1>2, RowsStay DEF SeatsInv
<1>. QED  BY <1>6, <1>7, <1>8, <1>9, <1>10 DEF SeatsInv

\* A step that frees the lock: nobody counts or writes any more.
LEMMA LockFreed ==
    ASSUME SeatsInv, NEW r \in Calls, call[r].at \in {"insert", "writes"},
           call' = [call EXCEPT ![r] = Idle]
    PROVE  /\ call' \in [Calls -> Stages]
           /\ \A o \in Calls : call'[o].at \notin {"insert", "writes"}
           /\ \A o \in Calls, x \in Subs :
                  Reactivates(o, x)' => o # r /\ call'[o] = call[o] /\ Reactivates(o, x)
           /\ LockInv' /\ CountsInv'
<1>. HooksTypeOK  BY DEF SeatsInv, ShapeInv
<1>1. Idle \in Stages /\ Idle.at = "idle"  BY DEF Stages, Idle
<1>2. /\ call' \in [Calls -> Stages] /\ call'[r] = Idle
      /\ \A o \in Calls : o # r => call'[o] = call[o]
  BY <1>1, SetStage
<1>3. \A o \in Calls : call'[o].at \notin {"insert", "writes"}
  <2>. SUFFICES ASSUME NEW o \in Calls PROVE call'[o].at \notin {"insert", "writes"}
    OBVIOUS
  <2>1. CASE o = r  BY <1>1, <1>2, <2>1
  <2>2. CASE o # r  BY <1>2, <2>2, OneHolds
  <2>. QED  BY <2>1, <2>2
<1>4. \A o \in Calls, x \in Subs :
          Reactivates(o, x)' => o # r /\ call'[o] = call[o] /\ Reactivates(o, x)
  BY <1>1, <1>2 DEF Reactivates
<1>5. LockInv'  BY <1>3 DEF LockInv
<1>6. CountsInv'  BY <1>3 DEF CountsInv, Inserts, Writes
<1>. QED  BY <1>2, <1>3, <1>4, <1>5, <1>6

LEMMA CreateCommitsStep ==
    ASSUME SeatsInv, NEW r \in Calls, CreateCommits(r)
    PROVE  SeatsInv'
<1>. HooksTypeOK  BY DEF SeatsInv, ShapeInv
<1>1. /\ call[r].at = "insert" /\ call' = [call EXCEPT ![r] = Idle] /\ lock' = NoOne
      /\ UNCHANGED <<used, misread, returns, page, posting, begun, crashes>>
  BY DEF CreateCommits, api
<1>. PICK s \in Subs : s = call[r].sub  BY <1>1, StageIs
<1>2. /\ Inserts(r, s) /\ s \in used /\ ~There(s) /\ \A o \in Calls : ~Reactivates(o, s)
      /\ PoolFree(s) /\ today[Creator[s]] < MaxPerDay
  BY <1>1 DEF Inserts, SeatsInv, IdsInv, CountsInv
<1>3. /\ call' \in [Calls -> Stages]
      /\ \A o \in Calls : call'[o].at \notin {"insert", "writes"}
      /\ \A o \in Calls, x \in Subs :
             Reactivates(o, x)' => o # r /\ call'[o] = call[o] /\ Reactivates(o, x)
      /\ LockInv' /\ CountsInv'
  BY <1>1, LockFreed
<1>4. \/ UNCHANGED <<row, today, overtaken>>
      \/ /\ row' = [row EXCEPT ![s] = [active |-> TRUE, verified |-> FALSE, attempts |-> 0,
                                       due |-> TRUE, stamp |-> 0, old |-> FALSE]]
         /\ today' = [today EXCEPT ![Creator[s]] = @ + 1]
         /\ ForgetTurns(s)
  BY DEF CreateCommits
<1>5. /\ ShapeInv' /\ SeatsHold'
      /\ \A x \in Subs : /\ There(x)' => There(x) \/ x = s
                         /\ x # s => row'[x] = row[x]
  <2>1. CASE UNCHANGED <<row, today, overtaken>>
    <3>1. ShapeInv'  BY <1>1, <1>3, <2>1 DEF SeatsInv, ShapeInv, HooksTypeOK
    <3>2. SeatsHold'  BY <1>1, <2>1, RowsStay DEF SeatsInv
    <3>. QED  BY <2>1, <3>1, <3>2, RowsStay
  <2>2. CASE /\ row' = [row EXCEPT ![s] = [active |-> TRUE, verified |-> FALSE, attempts |-> 0,
                                           due |-> TRUE, stamp |-> 0, old |-> FALSE]]
             /\ today' = [today EXCEPT ![Creator[s]] = @ + 1]
             /\ ForgetTurns(s)
    <3>. DEFINE new == [active |-> TRUE, verified |-> FALSE, attempts |-> 0,
                        due |-> TRUE, stamp |-> 0, old |-> FALSE]
    <3>1. 0 \in 0..Now
      <4>1. Cardinality(Subs) \in Nat  BY SubscriptionsAssumption, FS_CardinalityType
      <4>. QED  BY <4>1 DEF Now
    <3>2. new \in Rows /\ new.active /\ ~new.verified
      BY SubscriptionsAssumption, <3>1 DEF Rows
    <3>3. row' = [row EXCEPT ![s] = new]  BY <2>2
    <3>. HIDE DEF new
    <3>4. /\ row' \in [Subs -> Rows \cup {NoRow}] /\ row'[s] = new
          /\ \A x \in Subs : x # s => row'[x] = row[x]
      BY <3>2, <3>3, SetRow
    <3>5. overtaken' \in [Subs -> [Subs -> 0..2]]  BY <2>2, ForgetType
    <3>6. today' \in [Creators -> 0..MaxPerDay]
      <4>1. Creator[s] \in Creators  BY DEF Creators
      <4>. QED  BY SubscriptionsAssumption, <1>2, <2>2, <4>1 DEF HooksTypeOK
    <3>7. ShapeInv'  BY <1>1, <1>3, <3>4, <3>5, <3>6 DEF SeatsInv, ShapeInv, HooksTypeOK
    <3>8. \A x \in Subs : /\ There(x)' => There(x) \/ x = s
                          /\ Verified(x)' => Verified(x)
                          /\ Unverified(x)' => Unverified(x) \/ x = s
      BY <3>2, <3>4 DEF There, Verified, Unverified
    <3>9. SeatsHold'  BY <1>1, <1>2, <3>8, Kept DEF SeatsInv
    <3>. QED  BY <3>4, <3>7, <3>8, <3>9
  <2>. QED  BY <1>4, <2>1, <2>2
<1>6. IdsInv'
  <2>. SUFFICES ASSUME NEW x \in Subs
       PROVE  /\ There(x)' => x \in used'
              /\ \A o \in Calls :
                  /\ Reactivates(o, x)' => x \in used' /\ (call'[o].verified /\ There(x)' => row'[x].verified)
                  /\ Inserts(o, x)' => x \in used' /\ ~There(x)' /\ \A p \in Calls : ~Reactivates(p, x)'
    BY DEF IdsInv
  <2>1. \A o \in Calls : ~Inserts(o, x)'  BY <1>3 DEF Inserts
  <2>2. There(x)' => x \in used'  BY <1>1, <1>2, <1>5 DEF SeatsInv, IdsInv
  <2>3. ASSUME NEW o \in Calls, Reactivates(o, x)'
        PROVE  x \in used' /\ (call'[o].verified /\ There(x)' => row'[x].verified)
    <3>1. Reactivates(o, x) /\ call'[o] = call[o]  BY <1>3, <2>3
    <3>2. x # s /\ x \in used /\ (call[o].verified /\ There(x) => row[x].verified)
      BY <1>2, <3>1 DEF SeatsInv, IdsInv
    <3>. QED  BY <1>1, <1>5, <3>1, <3>2
  <2>. QED  BY <2>1, <2>2, <2>3
<1>7. lock' \in Calls \cup {NoOne}  BY <1>1
<1>. QED  BY <1>3, <1>5, <1>6 DEF SeatsInv

LEMMA ReactivateReadsStep ==
    ASSUME SeatsInv, NEW r \in Calls, NEW s \in Subs, ReactivateReads(r, s)
    PROVE  SeatsInv'
<1>. HooksTypeOK  BY DEF SeatsInv, ShapeInv
<1>. DEFINE st == [at |-> "waits", sub |-> s, verified |-> row[s].verified]
<1>1. /\ There(s) /\ call[r] = Idle /\ call' = [call EXCEPT ![r] = st]
      /\ returns < MaxReturns /\ returns' = returns + 1
      /\ UNCHANGED <<row, used, today, lock, overtaken, misread, page, posting, begun, crashes>>
  BY DEF ReactivateReads, api
<1>2. st \in Stages /\ st.at = "waits" /\ st.sub = s /\ st.verified = row[s].verified
  BY <1>1, RowIs DEF Stages
<1>. HIDE DEF st
<1>3. /\ call' \in [Calls -> Stages] /\ call'[r] = st
      /\ \A o \in Calls : o # r => call'[o] = call[o]
  BY <1>1, <1>2, SetStage
<1>4. returns' \in 0..MaxReturns  BY SubscriptionsAssumption, <1>1 DEF HooksTypeOK
<1>5. ShapeInv'  BY <1>1, <1>3, <1>4 DEF ShapeInv, SeatsInv, HooksTypeOK
<1>6. LockInv'  BY <1>1, <1>2, <1>3 DEF LockInv, SeatsInv
<1>7. \A o \in Calls, x \in Subs :
          /\ Inserts(o, x)' => o # r /\ Inserts(o, x)
          /\ Writes(o, x)' => o # r /\ call'[o] = call[o] /\ Writes(o, x)
          /\ Reactivates(o, x)' => (o = r /\ x = s) \/ (call'[o] = call[o] /\ Reactivates(o, x))
  BY <1>2, <1>3 DEF Inserts, Writes, Reactivates
<1>8. CountsInv'
  <2>. SUFFICES ASSUME NEW o \in Calls, NEW x \in Subs
       PROVE  /\ Inserts(o, x)' => PoolFree(x)' /\ today'[Creator[x]] < MaxPerDay
              /\ Writes(o, x)' => IF call'[o].verified THEN SeatFree(x)' ELSE PoolFree(x)'
    BY DEF CountsInv
  <2>1. (SeatFree(x)' <=> SeatFree(x)) /\ (PoolFree(x)' <=> PoolFree(x))  BY <1>1, RowsStay
  <2>. QED  BY <1>1, <1>7, <2>1 DEF SeatsInv, CountsInv
<1>9. IdsInv'
  <2>. SUFFICES ASSUME NEW x \in Subs
       PROVE  /\ There(x)' => x \in used'
              /\ \A o \in Calls :
                  /\ Reactivates(o, x)' => x \in used' /\ (call'[o].verified /\ There(x)' => row'[x].verified)
                  /\ Inserts(o, x)' => x \in used' /\ ~There(x)' /\ \A p \in Calls : ~Reactivates(p, x)'
    BY DEF IdsInv
  <2>1. There(x)' <=> There(x)  BY <1>1, RowsStay
  <2>2. s \in used  BY <1>1 DEF SeatsInv, IdsInv
  <2>3. \A o \in Calls : Reactivates(o, x)' =>
            x \in used' /\ (call'[o].verified /\ There(x)' => row'[x].verified)
    BY <1>1, <1>2, <1>3, <1>7, <2>1, <2>2 DEF SeatsInv, IdsInv
  <2>4. \A o \in Calls : Inserts(o, x)' =>
            x \in used' /\ ~There(x)' /\ \A p \in Calls : ~Reactivates(p, x)'
    BY <1>1, <1>7, <2>1 DEF SeatsInv, IdsInv
  <2>. QED  BY <1>1, <2>1, <2>3, <2>4 DEF SeatsInv, IdsInv
<1>10. SeatsHold'  BY <1>1, RowsStay DEF SeatsInv
<1>. QED  BY <1>5, <1>6, <1>8, <1>9, <1>10 DEF SeatsInv

LEMMA ReactivateCountsStep ==
    ASSUME SeatsInv, NEW r \in Calls, ReactivateCounts(r)
    PROVE  SeatsInv'
<1>. HooksTypeOK  BY DEF SeatsInv, ShapeInv
<1>1. /\ call[r].at = "waits" /\ LockFree
      /\ UNCHANGED <<row, used, today, overtaken, misread, returns, page, posting, begun, crashes>>
  BY DEF ReactivateCounts, api
<1>. PICK s \in Subs : s = call[r].sub  BY <1>1, StageIs
<1>2. Reactivates(r, s)  BY <1>1 DEF Reactivates
<1>. PICK st \in Stages :
         /\ call' = [call EXCEPT ![r] = st]
         /\ \/ st = Idle /\ UNCHANGED lock
            \/ /\ st.at = "writes" /\ st.sub = s /\ st.verified = call[r].verified /\ lock' = r
               /\ IF call[r].verified THEN SeatFree(s) ELSE PoolFree(s)
  <2>1. CASE IF call[r].verified THEN SeatFree(s) ELSE PoolFree(s)
    <3>. DEFINE st == [call[r] EXCEPT !.at = "writes"]
    <3>1. call[r] \in [at : {"waits", "writes"}, sub : Subs, verified : BOOLEAN]  BY <1>1, StageIs
    <3>2. /\ st \in [at : {"waits", "writes"}, sub : Subs, verified : BOOLEAN]
          /\ st.at = "writes" /\ st.sub = s /\ st.verified = call[r].verified
      BY <3>1
    <3>3. st \in Stages  BY <3>2 DEF Stages
    <3>4. call' = [call EXCEPT ![r] = st] /\ lock' = r  BY <2>1 DEF ReactivateCounts
    <3>. HIDE DEF st
    <3>. QED  BY <2>1, <3>2, <3>3, <3>4
  <2>2. CASE ~(IF call[r].verified THEN SeatFree(s) ELSE PoolFree(s))
    <3>1. call' = [call EXCEPT ![r] = Idle] /\ UNCHANGED lock  BY <2>2 DEF ReactivateCounts
    <3>. QED  BY <3>1 DEF Stages
  <2>. QED  BY <2>1, <2>2
<1>3. /\ call' \in [Calls -> Stages] /\ call'[r] = st
      /\ \A o \in Calls : o # r => call'[o] = call[o]
  BY SetStage
<1>4. \A o \in Calls : o # r => call'[o] = call[o] /\ call[o].at \notin {"insert", "writes"}
  BY <1>1, <1>3, NobodyHolds
<1>5. lock' \in Calls \cup {NoOne}  BY DEF HooksTypeOK
<1>6. ShapeInv'  BY <1>1, <1>3, <1>5 DEF ShapeInv, SeatsInv, HooksTypeOK
<1>7. Idle.at = "idle"  BY DEF Idle
<1>8. LockInv'  BY <1>3, <1>4, <1>7 DEF LockInv
<1>9. /\ \A o \in Calls, x \in Subs : ~Inserts(o, x)'
      /\ \A o \in Calls, x \in Subs : Writes(o, x)' => o = r /\ x = s /\ st # Idle
      /\ \A o \in Calls, x \in Subs : Reactivates(o, x)' =>
             Reactivates(o, x) /\ call'[o].verified = call[o].verified
  <2>1. \A o \in Calls : o # r => call'[o] = call[o] /\ call[o].at \notin {"insert", "writes"}
    BY <1>4
  <2>2. \A o \in Calls, x \in Subs : ~Inserts(o, x)'  BY <1>3, <2>1, <1>7 DEF Inserts
  <2>3. \A o \in Calls, x \in Subs : Writes(o, x)' => o = r /\ x = s /\ st # Idle
    BY <1>3, <2>1, <1>7 DEF Writes
  <2>4. \A o \in Calls, x \in Subs : Reactivates(o, x)' =>
            Reactivates(o, x) /\ call'[o].verified = call[o].verified
    BY <1>2, <1>3, <1>7, <2>1 DEF Reactivates
  <2>. QED  BY <2>2, <2>3, <2>4
<1>10. CountsInv'
  <2>. SUFFICES ASSUME NEW o \in Calls, NEW x \in Subs
       PROVE  /\ Inserts(o, x)' => PoolFree(x)' /\ today'[Creator[x]] < MaxPerDay
              /\ Writes(o, x)' => IF call'[o].verified THEN SeatFree(x)' ELSE PoolFree(x)'
    BY DEF CountsInv
  <2>1. (SeatFree(x)' <=> SeatFree(x)) /\ (PoolFree(x)' <=> PoolFree(x))  BY <1>1, RowsStay
  <2>2. ASSUME Writes(o, x)'
        PROVE  IF call'[o].verified THEN SeatFree(x)' ELSE PoolFree(x)'
    BY <1>3, <1>9, <2>1, <2>2
  <2>. QED  BY <1>9, <2>2
<1>11. IdsInv'
  <2>. SUFFICES ASSUME NEW x \in Subs
       PROVE  /\ There(x)' => x \in used'
              /\ \A o \in Calls :
                  /\ Reactivates(o, x)' => x \in used' /\ (call'[o].verified /\ There(x)' => row'[x].verified)
                  /\ Inserts(o, x)' => x \in used' /\ ~There(x)' /\ \A p \in Calls : ~Reactivates(p, x)'
    BY DEF IdsInv
  <2>1. There(x)' <=> There(x)  BY <1>1, RowsStay
  <2>. QED  BY <1>1, <1>9, <2>1 DEF SeatsInv, IdsInv
<1>12. SeatsHold'  BY <1>1, RowsStay DEF SeatsInv
<1>. QED  BY <1>6, <1>8, <1>10, <1>11, <1>12 DEF SeatsInv

LEMMA ReactivateCommitsStep ==
    ASSUME SeatsInv, NEW r \in Calls, ReactivateCommits(r)
    PROVE  SeatsInv'
<1>. HooksTypeOK  BY DEF SeatsInv, ShapeInv
<1>1. /\ call[r].at = "writes" /\ call' = [call EXCEPT ![r] = Idle] /\ lock' = NoOne
      /\ UNCHANGED <<used, today, returns, page, posting, begun, crashes>>
  BY DEF ReactivateCommits, api
<1>. PICK s \in Subs : s = call[r].sub  BY <1>1, StageIs
<1>. PICK read \in BOOLEAN : read = call[r].verified  BY <1>1, StageIs
<1>2. /\ Writes(r, s) /\ Reactivates(r, s) /\ (read /\ There(s) => row[s].verified)
      /\ IF read THEN SeatFree(s) ELSE PoolFree(s)
  BY <1>1 DEF Writes, Reactivates, SeatsInv, IdsInv, CountsInv
<1>3. /\ call' \in [Calls -> Stages]
      /\ \A o \in Calls : call'[o].at \notin {"insert", "writes"}
      /\ \A o \in Calls, x \in Subs :
             Reactivates(o, x)' => o # r /\ call'[o] = call[o] /\ Reactivates(o, x)
      /\ LockInv' /\ CountsInv'
  BY <1>1, LockFreed
<1>4. /\ ShapeInv' /\ SeatsHold'
      /\ \A x \in Subs : /\ There(x)' <=> There(x)
                         /\ There(x) => row'[x].verified = row[x].verified
  <2>1. CASE ~There(s)
    <3>1. UNCHANGED <<row, overtaken, misread>>  BY <2>1 DEF ReactivateCommits
    <3>2. ShapeInv'  BY <1>1, <1>3, <3>1 DEF SeatsInv, ShapeInv, HooksTypeOK
    <3>3. SeatsHold'  BY <3>1, RowsStay DEF SeatsInv
    <3>. QED  BY <3>1, <3>2, <3>3, RowsStay
  <2>2. CASE There(s)
    <3>. DEFINE new == IF read THEN [row[s] EXCEPT !.active = TRUE, !.due = TRUE]
                       ELSE [row[s] EXCEPT !.active = TRUE, !.due = TRUE, !.attempts = 0, !.stamp = 0,
                                           !.old = FALSE]
    <3>1. row[s] \in Rows /\ row[s].verified \in BOOLEAN  BY <2>2, RowIs
    <3>2. 0 \in 0..Now
      <4>1. Cardinality(Subs) \in Nat  BY SubscriptionsAssumption, FS_CardinalityType
      <4>. QED  BY <4>1 DEF Now
    <3>3. new \in Rows /\ new.active /\ new.verified = row[s].verified
      <4>1. 0 \in 0..MaxAttempts  BY SubscriptionsAssumption
      <4>2. CASE read  BY <3>1, <4>2 DEF Rows
      <4>3. CASE ~read
        <5>1. new = [row[s] EXCEPT !.active = TRUE, !.due = TRUE, !.attempts = 0, !.stamp = 0, !.old = FALSE]
          BY <4>3
        <5>. QED  BY <3>1, <3>2, <4>1, <5>1 DEF Rows
      <4>. QED  BY <4>2, <4>3
    <3>4. /\ row' = [row EXCEPT ![s] = new] /\ ForgetTurns(s)
          /\ misread' = IF row[s].verified = read THEN misread \ {s} ELSE misread \cup {s}
      BY <2>2 DEF ReactivateCommits
    <3>. HIDE DEF new
    <3>5. /\ row' \in [Subs -> Rows \cup {NoRow}] /\ row'[s] = new
          /\ \A x \in Subs : x # s => row'[x] = row[x]
      BY <3>3, <3>4, SetRow
    <3>6. overtaken' \in [Subs -> [Subs -> 0..2]]  BY <3>4, ForgetType
    <3>7. misread' \in SUBSET Subs  BY <3>4 DEF HooksTypeOK
    <3>8. ShapeInv'  BY <1>1, <1>3, <3>5, <3>6, <3>7 DEF SeatsInv, ShapeInv, HooksTypeOK
    <3>9. \A x \in Subs : x # s => /\ There(x)' <=> There(x)
                                   /\ Verified(x)' <=> Verified(x)
                                   /\ Unverified(x)' <=> Unverified(x)
                                   /\ x \in misread' <=> x \in misread
      BY <3>4, <3>5 DEF There, Verified, Unverified
    <3>10. /\ There(s)' /\ (Verified(s)' <=> row[s].verified) /\ (Unverified(s)' <=> ~row[s].verified)
           /\ s \in misread' <=> row[s].verified # read
      BY <3>1, <3>3, <3>4, <3>5, NoRowIsNone DEF There, Verified, Unverified
    <3>11. \A x \in Subs : Verified(x)' /\ x \notin misread' =>
               (Verified(x) /\ x \notin misread) \/ (x = s /\ SeatFree(s))
      BY <1>2, <3>9, <3>10
    <3>12. \A x \in Subs : Unverified(x)' => Unverified(x) \/ (x = s /\ PoolFree(s))
      BY <1>2, <2>2, <3>9, <3>10
    <3>13. SeatsHold'  BY <3>11, <3>12, Kept DEF SeatsInv
    <3>14. \A x \in Subs : /\ There(x)' <=> There(x)
                           /\ There(x) => row'[x].verified = row[x].verified
      BY <2>2, <3>3, <3>5, <3>9, <3>10
    <3>. QED  BY <3>8, <3>13, <3>14
  <2>. QED  BY <2>1, <2>2
<1>5. IdsInv'
  <2>. SUFFICES ASSUME NEW x \in Subs
       PROVE  /\ There(x)' => x \in used'
              /\ \A o \in Calls :
                  /\ Reactivates(o, x)' => x \in used' /\ (call'[o].verified /\ There(x)' => row'[x].verified)
                  /\ Inserts(o, x)' => x \in used' /\ ~There(x)' /\ \A p \in Calls : ~Reactivates(p, x)'
    BY DEF IdsInv
  <2>1. \A o \in Calls : ~Inserts(o, x)'  BY <1>3 DEF Inserts
  <2>2. There(x)' => x \in used'  BY <1>1, <1>4 DEF SeatsInv, IdsInv
  <2>3. ASSUME NEW o \in Calls, Reactivates(o, x)'
        PROVE  x \in used' /\ (call'[o].verified /\ There(x)' => row'[x].verified)
    <3>1. Reactivates(o, x) /\ call'[o] = call[o]  BY <1>3, <2>3
    <3>2. x \in used /\ (call[o].verified /\ There(x) => row[x].verified)
      BY <3>1 DEF SeatsInv, IdsInv
    <3>. QED  BY <1>1, <1>4, <3>1, <3>2
  <2>. QED  BY <2>1, <2>2, <2>3
<1>. QED  BY <1>3, <1>4, <1>5 DEF SeatsInv

LEMMA AcceptedStep ==
    ASSUME SeatsInv, NEW s \in Subs, Accepted(s)
    PROVE  SeatsInv'
<1>. HooksTypeOK  BY DEF SeatsInv, ShapeInv
<1>. DEFINE verified == [row[s] EXCEPT !.verified = TRUE, !.due = TRUE,
                                       !.attempts = Min({@ + 1, MaxAttempts})]
<1>1. LockFree /\ There(s) /\ Answers(s, IF SeatFree(s) THEN verified ELSE Disabled(s))
  BY DEF Accepted, Answers
<1>2. verified \in Rows /\ verified.verified /\ (verified.active => row[s].active)
  BY <1>1, NewRows
<1>. HIDE DEF verified
<1>3. CASE ~SeatFree(s)
  <2>1. Answers(s, Disabled(s))  BY <1>1, <1>3
  <2>. QED  BY <2>1, FailedStep DEF Gone
<1>4. CASE SeatFree(s)
  <2>1. Answers(s, verified)  BY <1>1, <1>4
  <2>2. ShapeInv' /\ row' = [row EXCEPT ![s] = verified] /\ UNCHANGED dispatcher
    BY <1>2, <2>1, AnswersShape
  <2>3. /\ row'[s] = verified /\ \A x \in Subs : x # s => row'[x] = row[x]  BY <1>2, <2>2, SetRow
  <2>4. UNCHANGED <<used, today, call, lock, misread, returns>>  BY <2>2 DEF dispatcher
  <2>5. \A o \in Calls : call'[o].at \notin {"insert", "writes"}  BY <1>1, <2>4, NobodyHolds
  <2>6. LockInv' /\ CountsInv'  BY <2>5 DEF LockInv, CountsInv, Inserts, Writes
  <2>7. \A x \in Subs : /\ There(x)' => There(x)
                        /\ Verified(x)' => Verified(x) \/ x = s
                        /\ Unverified(x)' => Unverified(x)
                        /\ There(x) /\ row[x].verified => row'[x].verified
    BY <1>1, <1>2, <2>3 DEF There, Verified, Unverified
  <2>8. SeatsHold'  BY <1>4, <2>4, <2>7, Kept DEF SeatsInv
  <2>9. IdsInv'
    <3>. SUFFICES ASSUME NEW x \in Subs
         PROVE  /\ There(x)' => x \in used'
                /\ \A o \in Calls :
                    /\ Reactivates(o, x)' => x \in used' /\ (call'[o].verified /\ There(x)' => row'[x].verified)
                    /\ Inserts(o, x)' => x \in used' /\ ~There(x)' /\ \A p \in Calls : ~Reactivates(p, x)'
      BY DEF IdsInv
    <3>1. \A o \in Calls : ~Inserts(o, x)'  BY <2>5 DEF Inserts
    <3>2. \A o \in Calls : Reactivates(o, x)' => Reactivates(o, x) /\ call'[o] = call[o]
      BY <2>4 DEF Reactivates
    <3>3. \A o \in Calls : Reactivates(o, x) => x \in used /\ (call[o].verified /\ There(x) => row[x].verified)
      BY DEF SeatsInv, IdsInv
    <3>. QED  BY <2>4, <2>7, <3>1, <3>2, <3>3 DEF SeatsInv, IdsInv
  <2>. QED  BY <2>2, <2>6, <2>8, <2>9 DEF SeatsInv
<1>. QED  BY <1>3, <1>4

\* The inductive invariant, for any rows, hosts, creators, requests and ceilings: who
\* holds the quota lock has counted what still is so, an id is given out once, and a
\* row stays verified once it is.
THEOREM SubscriptionsInvariant == HooksSpec => []SeatsInv
<1>1. HooksInit => SeatsInv
  <2>. SUFFICES ASSUME HooksInit PROVE SeatsInv  OBVIOUS
  <2>1. HooksTypeOK
    <3>1. row \in [Subs -> Rows \cup {NoRow}]  BY DEF HooksInit
    <3>2. today \in [Creators -> 0..MaxPerDay]  BY SubscriptionsAssumption DEF HooksInit
    <3>3. call \in [Calls -> Stages]  BY DEF HooksInit, Stages
    <3>4. overtaken \in [Subs -> [Subs -> 0..2]]  BY DEF HooksInit
    <3>5. /\ used \in SUBSET Subs /\ misread \in SUBSET Subs /\ page \in Seq(Subs) /\ lock \in Calls \cup {NoOne}
      BY DEF HooksInit
    <3>7. posting \in BOOLEAN /\ begun \in BOOLEAN  BY DEF HooksInit
    <3>6. returns \in 0..MaxReturns /\ crashes \in 0..MaxCrashes  BY SubscriptionsAssumption DEF HooksInit
    <3>. QED  BY <3>1, <3>2, <3>3, <3>4, <3>5, <3>6, <3>7 DEF HooksTypeOK
  <2>2. ShapeInv  BY <2>1 DEF HooksInit, ShapeInv
  <2>3. \A s \in Subs : ~There(s)  BY DEF HooksInit, There
  <2>4. \A r \in Calls : call[r].at = "idle"  BY DEF HooksInit, Idle
  <2>5. LockInv /\ CountsInv /\ IdsInv
    BY <2>3, <2>4 DEF LockInv, CountsInv, IdsInv, Inserts, Writes, Reactivates
  <2>6. SeatsHold
    <3>1. Seated = {} /\ \A h : SeatedAt(h) = {}  BY <2>3 DEF Seated, SeatedAt, Verified
    <3>2. \A h, c : PoolOf(h, c) = {}  BY <2>3 DEF PoolOf, Unverified
    <3>3. Seated \ misread = {} /\ \A h : SeatedAt(h) \ misread = {}  BY <3>1
    <3>4. Cardinality({}) = 0  BY FS_EmptySet
    <3>5. MaxGlobal \in Nat /\ MaxPerHost \in Nat /\ MaxUnverified \in Nat  BY SubscriptionsAssumption
    <3>6. Cardinality(Seated \ misread) <= MaxGlobal  BY <3>3, <3>4, <3>5
    <3>7. \A s \in Subs : /\ Cardinality(SeatedAt(Host[s]) \ misread) <= MaxPerHost
                          /\ Cardinality(PoolOf(Host[s], Creator[s])) <= MaxUnverified
      BY <3>2, <3>3, <3>4, <3>5
    <3>. QED  BY <3>6, <3>7, SeatsHoldIs
  <2>. QED  BY <2>2, <2>5, <2>6 DEF SeatsInv
<1>2. SeatsInv /\ [HooksNext]_hooksVars => SeatsInv'
  <2>. SUFFICES ASSUME SeatsInv, [HooksNext]_hooksVars PROVE SeatsInv'  OBVIOUS
  <2>. HooksTypeOK  BY DEF SeatsInv, ShapeInv
  <2>1. ASSUME NEW r \in Calls, NEW s \in Subs, CreateCounts(r, s) PROVE SeatsInv'
    BY <2>1, CreateCountsStep
  <2>2. ASSUME NEW r \in Calls, NEW s \in Subs, ReactivateReads(r, s) PROVE SeatsInv'
    BY <2>2, ReactivateReadsStep
  <2>3. ASSUME NEW r \in Calls, CreateCommits(r) PROVE SeatsInv'
    BY <2>3, CreateCommitsStep
  <2>4. ASSUME NEW r \in Calls, ReactivateCounts(r) PROVE SeatsInv'
    BY <2>4, ReactivateCountsStep
  <2>5. ASSUME NEW r \in Calls, ReactivateCommits(r) PROVE SeatsInv'
    BY <2>5, ReactivateCommitsStep
  <2>6. ASSUME NEW s \in Subs, Delete(s) PROVE SeatsInv'
    BY <2>6, DeleteStep
  <2>7. ASSUME NEW s \in Subs, Accepted(s) PROVE SeatsInv'
    BY <2>7, AcceptedStep
  <2>8. ASSUME NEW s \in Subs, Failed(s) \/ Gone(s) PROVE SeatsInv'
    BY <2>8, FailedStep
  <2>9. ASSUME NEW s \in Subs, DeliveryDisables(s) PROVE SeatsInv'
    BY <2>9, DeliveryStep
  <2>10. ASSUME NEW s \in Subs, BackoffElapses(s) \/ GrowsOld(s) PROVE SeatsInv'
    BY <2>10, TimeStep
  <2>11. CASE BeginChallenges  BY <2>11, BeginStep
  <2>12. CASE OutOfTime \/ Lost \/ Crash  BY <2>12, OutOfTimeStep
  <2>13. CASE CollectOld  BY <2>13, CollectOldStep
  <2>14. CASE Challenge  BY <2>14, ChallengeStep
  <2>15. ASSUME NEW c \in Creators, EventAges(c) PROVE SeatsInv'
    BY <2>15, EventAgesStep
  <2>16. CASE UNCHANGED hooksVars
    <3>1. Quiet  BY <2>16, StaysQuiet DEF hooksVars
    <3>2. ShapeInv'  BY <2>16 DEF hooksVars, ShapeInv, SeatsInv, HooksTypeOK
    <3>3. \A c \in Creators : today'[c] <= today[c]
      BY SubscriptionsAssumption, <2>16 DEF hooksVars, HooksTypeOK
    <3>. QED  BY <2>16, <3>1, <3>2, <3>3, QuietKeeps DEF hooksVars
  <2>. QED  BY <2>1, <2>2, <2>3, <2>4, <2>5, <2>6, <2>7, <2>8, <2>9, <2>10, <2>11, <2>12,
               <2>13, <2>14, <2>15, <2>16 DEF HooksNext
<1>. QED  BY <1>1, <1>2, PTL DEF HooksSpec

\* Type correctness of the subscriptions: no count, rank or stamp leaves its range.
THEOREM SubscriptionsTypeCorrect == HooksSpec => []HooksTypeOK
<1>1. SeatsInv => HooksTypeOK  BY DEF SeatsInv, ShapeInv
<1>. QED  BY <1>1, SubscriptionsInvariant, PTL

\* The ceilings on verified and unverified subscriptions hold whoever counts and takes
\* a seat at the same time: create_webhook, reactivate_webhook and the promotion of an
\* answered challenge, with deletions, disables and collections in between.
THEOREM SeatsAreKept == HooksSpec => []SeatsHold
<1>1. SeatsInv => SeatsHold  BY DEF SeatsInv
<1>. QED  BY <1>1, SubscriptionsInvariant, PTL

-----------------------------------------------------------------------------
(* Turns.                                                                  *)

\* The page names no row twice.  A row that is due and was overtaken once by
\* another was stamped before it, and comes before it in what is left of the
\* page; the one that is being challenged was overtaken by none, and is the only
\* one due with a stamp of this run.
TurnsInv ==
    /\ \A i, j \in 1..Len(page) : page[i] = page[j] => i = j
    /\ \A s \in Due :
        /\ page # <<>> /\ row[s].stamp = Now => posting /\ s = Head(page)
        /\ posting /\ s = Head(page) => \A o \in Subs : overtaken[s][o] = 0
        /\ \A o \in Subs :
            /\ overtaken[s][o] < 2
            /\ overtaken[s][o] = 1 =>
                /\ There(o) => row[s].stamp < row[o].stamp
                /\ \A j \in 1..Len(page) :
                       page[j] = o /\ ~(posting /\ j = 1) => \E i \in 1..Len(page) : i < j /\ page[i] = s

\* s has been overtaken by none, and is not of those stamped in a run that goes on.
Newcomer(s) ==
    /\ \A o \in Subs : overtaken'[s][o] = 0
    /\ row'[s].stamp = Now => page' = <<>>

\* s waits as it did, and of those that overtook it none has another stamp.
Waits(s) ==
    /\ s \in Due /\ row'[s].stamp = row[s].stamp
    /\ \A o \in Subs : \/ overtaken'[s][o] = 0
                       \/ /\ overtaken'[s][o] = overtaken[s][o]
                          /\ There(o)' => There(o) /\ row'[o].stamp = row[o].stamp

PageGoesOn ==
    \/ page' = page /\ posting' = posting
    \/ page' = <<>> /\ posting' = FALSE
    \/ page # <<>> /\ NextRow /\ Head(page) \notin Due'

\* What the steps that challenge no one keep of the turns.
LEMMA TurnsKept ==
    ASSUME ShapeInv, ShapeInv', TurnsInv, PageGoesOn, \A s \in Due' : Newcomer(s) \/ Waits(s)
    PROVE  TurnsInv'
<1>. HooksTypeOK /\ HooksTypeOK' /\ (posting => page # <<>>)  BY DEF ShapeInv
<1>. page \in Seq(Subs) /\ page' \in Seq(Subs)  BY DEF HooksTypeOK
<1>. Len(page) \in Nat /\ Len(page') \in Nat  BY LenProperties
<1>. Due \subseteq Subs /\ Due' \subseteq Subs  BY DEF Due
\* Of the new page, each place is one of the old page and no earlier than it.
<1>1. PICK k \in {0, 1} :
          /\ Len(page') <= Len(page)
          /\ \A j \in 1..Len(page') : j + k \in 1..Len(page) /\ page'[j] = page[j + k]
          /\ page' # <<>> =>
                 \/ k = 0 /\ page' = page /\ Len(page') = Len(page) /\ posting' = posting
                 \/ /\ k = 1 /\ page # <<>> /\ posting' = FALSE /\ Head(page) \notin Due'
                    /\ Len(page') = Len(page) - 1
          /\ page' = <<>> => (posting' = FALSE \/ posting' = posting)
  <2>1. CASE page' = page /\ posting' = posting  BY <2>1
  <2>2. CASE page' = <<>> /\ posting' = FALSE
    <3>1. Len(page') = 0  BY <2>2
    <3>. QED  BY <2>2, <3>1
  <2>3. CASE page # <<>> /\ NextRow /\ Head(page) \notin Due'
    <3>1. page' = Tail(page) /\ posting' = FALSE  BY <2>3 DEF NextRow
    <3>2. Len(page') = Len(page) - 1 /\ \A i \in 1..Len(page') : page'[i] = page[i + 1]
      BY <2>3, <3>1, HeadTailProperties
    <3>3. \A j \in 1..Len(page') : j + 1 \in 1..Len(page) /\ page'[j] = page[j + 1]  BY <3>2
    <3>4. Len(page') <= Len(page) /\ 1 \in {0, 1}  BY <3>2
    <3>. WITNESS 1 \in {0, 1}
    <3>. QED  BY <2>3, <3>1, <3>2, <3>3, <3>4
  <2>. QED  BY <2>1, <2>2, <2>3 DEF PageGoesOn
<1>2. page' # <<>> => Len(page') > 0 /\ page # <<>> /\ Len(page) > 0  BY <1>1, EmptySeq
<1>3. \A i, j \in 1..Len(page') : page'[i] = page'[j] => i = j
  <2>. SUFFICES ASSUME NEW i \in 1..Len(page'), NEW j \in 1..Len(page'), page'[i] = page'[j]
       PROVE  i = j
    OBVIOUS
  <2>1. i + k \in 1..Len(page) /\ j + k \in 1..Len(page) /\ page[i + k] = page[j + k]  BY <1>1
  <2>2. i + k = j + k  BY <2>1 DEF TurnsInv
  <2>. QED  BY <2>2
<1>4. ASSUME NEW s \in Due'
      PROVE  /\ page' # <<>> /\ row'[s].stamp = Now => posting' /\ s = Head(page')
             /\ posting' /\ s = Head(page') => \A o \in Subs : overtaken'[s][o] = 0
             /\ \A o \in Subs :
                 /\ overtaken'[s][o] < 2
                 /\ overtaken'[s][o] = 1 =>
                     /\ There(o)' => row'[s].stamp < row'[o].stamp
                     /\ \A j \in 1..Len(page') :
                            page'[j] = o /\ ~(posting' /\ j = 1) =>
                                \E i \in 1..Len(page') : i < j /\ page'[i] = s
  <2>. s \in Subs  OBVIOUS
  <2>1. CASE Newcomer(s)
    <3>1. \A o \in Subs : overtaken'[s][o] = 0  BY <2>1 DEF Newcomer
    <3>. QED  BY <2>1, <3>1 DEF Newcomer
  <2>2. CASE Waits(s)
    <3>1. s \in Due /\ row'[s].stamp = row[s].stamp  BY <2>2 DEF Waits
    <3>2. page' # <<>> /\ row'[s].stamp = Now => posting' /\ s = Head(page')
      <4>. SUFFICES ASSUME page' # <<>>, row'[s].stamp = Now PROVE posting' /\ s = Head(page')
        OBVIOUS
      <4>1. page # <<>> /\ row[s].stamp = Now  BY <1>2, <3>1
      <4>2. posting /\ s = Head(page)  BY <3>1, <4>1 DEF TurnsInv
      <4>. QED  BY <1>1, <4>2
    <3>3. posting' /\ s = Head(page') => \A o \in Subs : overtaken'[s][o] = 0
      <4>. SUFFICES ASSUME posting', s = Head(page') PROVE \A o \in Subs : overtaken'[s][o] = 0
        OBVIOUS
      <4>1. page' # <<>>  BY DEF ShapeInv
      <4>2. posting /\ page' = page  BY <1>1, <4>1
      <4>3. \A o \in Subs : overtaken[s][o] = 0  BY <3>1, <4>2 DEF TurnsInv
      <4>. QED  BY <2>2, <4>3 DEF Waits
    <3>4. ASSUME NEW o \in Subs
          PROVE  /\ overtaken'[s][o] < 2
                 /\ overtaken'[s][o] = 1 =>
                     /\ There(o)' => row'[s].stamp < row'[o].stamp
                     /\ \A j \in 1..Len(page') :
                            page'[j] = o /\ ~(posting' /\ j = 1) =>
                                \E i \in 1..Len(page') : i < j /\ page'[i] = s
      <4>1. CASE overtaken'[s][o] = 0  BY <4>1
      <4>2. CASE /\ overtaken'[s][o] = overtaken[s][o]
                 /\ There(o)' => There(o) /\ row'[o].stamp = row[o].stamp
        <5>1. overtaken'[s][o] < 2  BY <3>1, <4>2 DEF TurnsInv
        <5>2. ASSUME overtaken'[s][o] = 1, There(o)' PROVE row'[s].stamp < row'[o].stamp
          BY <3>1, <4>2, <5>2 DEF TurnsInv
        <5>3. ASSUME overtaken'[s][o] = 1, NEW j \in 1..Len(page'), page'[j] = o, ~(posting' /\ j = 1)
              PROVE  \E i \in 1..Len(page') : i < j /\ page'[i] = s
          <6>1. page' # <<>>  BY <5>3
          <6>2. overtaken[s][o] = 1  BY <4>2, <5>3
          <6>3. CASE k = 0
            <7>1. page' = page /\ posting' = posting  BY <1>1, <6>1, <6>3
            <7>. QED  BY <3>1, <5>3, <6>2, <7>1 DEF TurnsInv
          <6>4. CASE k = 1
            <7>1. j + 1 \in 1..Len(page) /\ page[j + 1] = o /\ j + 1 # 1
              BY <1>1, <5>3, <6>4
            <7>2. PICK i \in 1..Len(page) : i < j + 1 /\ page[i] = s
              BY <3>1, <6>2, <7>1 DEF TurnsInv
            <7>3. s # Head(page) /\ Len(page') = Len(page) - 1  BY <1>1, <6>1, <6>4
            <7>4. page[1] = Head(page)  OBVIOUS
            <7>5. i # 1  BY <7>2, <7>3, <7>4
            <7>6. i - 1 \in 1..Len(page') /\ i - 1 < j /\ page'[i - 1] = page[i - 1 + k]
              BY <1>1, <7>2, <7>3, <7>5
            <7>7. i - 1 + k = i  BY <6>4
            <7>8. page'[i - 1] = s  BY <7>2, <7>6, <7>7
            <7>. QED  BY <7>6, <7>8
          <6>. QED  BY <6>3, <6>4
        <5>. QED  BY <5>1, <5>2, <5>3
      <4>. QED  BY <2>2, <4>1, <4>2 DEF Waits
    <3>. QED  BY <3>2, <3>3, <3>4
  <2>. QED  BY <2>1, <2>2
<1>. QED  BY <1>3, <1>4 DEF TurnsInv, There

\* A step that brings no row into the waiting and moves no stamp.
Calm ==
    /\ \A x \in Subs : There(x)' => There(x) /\ row'[x].stamp = row[x].stamp
    /\ \A x \in Due' : x \in Due
    /\ overtaken' = overtaken

LEMMA CalmKeeps ==
    ASSUME ShapeInv, ShapeInv', TurnsInv, PageGoesOn, Calm
    PROVE  TurnsInv'
<1>1. \A s \in Due' : s \in Subs /\ There(s)' BY DEF Due, Unverified, There
<1>2. \A s \in Due' : Waits(s)  BY <1>1 DEF Calm, Waits
<1>. QED  BY <1>2, TurnsKept

LEMMA CalmRowsStay ==
    ASSUME UNCHANGED <<row, overtaken>>
    PROVE  Calm
  BY DEF Calm, There, Due, Unverified

\* One row is written, and it is not due, or as due and as stamped as it was.
LEMMA CalmSet ==
    ASSUME HooksTypeOK, NEW s \in Subs, There(s), NEW new \in Rows \cup {NoRow},
           row' = [row EXCEPT ![s] = new], UNCHANGED overtaken,
           new \in Rows => new.stamp = row[s].stamp,
           new \in Rows /\ new.active /\ ~new.verified /\ new.due => s \in Due
    PROVE  Calm
<1>1. row'[s] = new /\ \A x \in Subs : x # s => row'[x] = row[x]  BY SetRow
<1>2. \A x \in Subs : There(x)' => There(x) /\ row'[x].stamp = row[x].stamp
  BY <1>1 DEF There
<1>3. \A x \in Due' : x \in Due
  BY <1>1 DEF Due, Unverified, There
<1>. QED  BY <1>2, <1>3 DEF Calm

LEMMA CalmSteps ==
    ASSUME SeatsInv, SeatsInv', TurnsInv,
           \/ \E r \in Calls, s \in Subs : CreateCounts(r, s) \/ ReactivateReads(r, s)
           \/ \E r \in Calls : ReactivateCounts(r)
           \/ \E c \in Creators : EventAges(c)
           \/ OutOfTime \/ Crash \/ UNCHANGED hooksVars
    PROVE  TurnsInv'
<1>1. UNCHANGED <<row, overtaken>>
  BY DEF CreateCounts, ReactivateReads, ReactivateCounts, EventAges, OutOfTime, Crash, hooksVars
<1>2. PageGoesOn
  <2>1. CASE ~(OutOfTime \/ Crash)
    <3>1. page' = page /\ posting' = posting
      BY <2>1 DEF CreateCounts, ReactivateReads, ReactivateCounts, EventAges, hooksVars, api, time
    <3>. QED  BY <3>1 DEF PageGoesOn
  <2>2. CASE OutOfTime  BY <2>2 DEF OutOfTime, PageGoesOn, SeatsInv, ShapeInv, HooksTypeOK
  <2>3. CASE Crash  BY <2>3 DEF Crash, PageGoesOn
  <2>. QED  BY <2>1, <2>2, <2>3
<1>. QED  BY <1>1, <1>2, CalmRowsStay, CalmKeeps DEF SeatsInv

LEMMA DeleteTurns ==
    ASSUME SeatsInv, SeatsInv', TurnsInv, NEW s \in Subs,
           Delete(s) \/ DeliveryDisables(s) \/ GrowsOld(s)
    PROVE  TurnsInv'
<1>. HooksTypeOK  BY DEF SeatsInv, ShapeInv
<1>1. PageGoesOn  BY DEF Delete, DeliveryDisables, GrowsOld, PageGoesOn, api, time
<1>2. UNCHANGED overtaken  BY DEF Delete, DeliveryDisables, GrowsOld
<1>3. There(s)  BY DEF Delete, DeliveryDisables, GrowsOld, Verified
<1>4. row[s] \in Rows  BY <1>3, RowIs
<1>5. Calm
  <2>1. CASE Delete(s)
    <3>1. row' = [row EXCEPT ![s] = NoRow]  BY <2>1 DEF Delete
    <3>. QED  BY <1>2, <1>3, <3>1, CalmSet, NoRowIsNone
  <2>2. CASE DeliveryDisables(s)
    <3>. DEFINE new == [row[s] EXCEPT !.active = FALSE, !.old = FALSE]
    <3>1. row' = [row EXCEPT ![s] = new]  BY <1>4, <2>2 DEF DeliveryDisables, HooksTypeOK
    <3>2. new \in Rows /\ ~new.active /\ new.stamp = row[s].stamp  BY <1>4 DEF Rows
    <3>. HIDE DEF new
    <3>. QED  BY <1>2, <1>3, <3>1, <3>2, CalmSet
  <2>3. CASE GrowsOld(s)
    <3>. DEFINE new == [row[s] EXCEPT !.old = TRUE]
    <3>1. row' = [row EXCEPT ![s] = new]  BY <1>4, <2>3 DEF GrowsOld, HooksTypeOK
    <3>2. new \in Rows /\ new.stamp = row[s].stamp  BY <1>4 DEF Rows
    <3>3. new.active /\ ~new.verified /\ new.due => s \in Due
      BY <1>3, <1>4 DEF Rows, Due, Unverified
    <3>. HIDE DEF new
    <3>. QED  BY <1>2, <1>3, <3>1, <3>2, <3>3, CalmSet
  <2>. QED  BY <2>1, <2>2, <2>3
<1>. QED  BY <1>1, <1>5, CalmKeeps DEF SeatsInv

LEMMA AnswersTurns ==
    ASSUME SeatsInv, SeatsInv', TurnsInv, NEW s \in Subs, NEW new \in Rows,
           Answers(s, new), new.stamp = row[s].stamp, ~(new.active /\ ~new.verified /\ new.due)
    PROVE  TurnsInv'
<1>. HooksTypeOK  BY DEF SeatsInv, ShapeInv
<1>1. There(s) /\ row' = [row EXCEPT ![s] = new] /\ NextRow /\ page # <<>> /\ Head(page) = s
      /\ UNCHANGED overtaken
  BY DEF Answers
<1>2. Calm  BY <1>1, CalmSet
<1>3. row'[s] = new  BY <1>1, SetRow
<1>4. s \notin Due'  BY <1>3 DEF Due, Unverified
<1>5. PageGoesOn  BY <1>1, <1>4 DEF PageGoesOn
<1>. QED  BY <1>2, <1>5, CalmKeeps DEF SeatsInv

LEMMA AnsweredTurns ==
    ASSUME SeatsInv, SeatsInv', TurnsInv, NEW s \in Subs,
           Accepted(s) \/ Failed(s) \/ Gone(s)
    PROVE  TurnsInv'
<1>. HooksTypeOK  BY DEF SeatsInv, ShapeInv
<1>1. There(s) /\ row[s] \in Rows  BY RowIs DEF Accepted, Failed, Gone, Answers
<1>. DEFINE verified == [row[s] EXCEPT !.verified = TRUE, !.due = TRUE,
                                       !.attempts = Min({@ + 1, MaxAttempts})]
<1>2. verified \in Rows /\ verified.verified /\ verified.stamp = row[s].stamp
  BY <1>1, NewRows DEF Rows
<1>3. Disabled(s) \in Rows /\ ~Disabled(s).active /\ Disabled(s).stamp = row[s].stamp
  BY <1>1, NewRows DEF Disabled, Rows
<1>4. AfterFailure(s) \in Rows /\ AfterFailure(s).stamp = row[s].stamp
      /\ ~(AfterFailure(s).active /\ AfterFailure(s).due)
  <2>1. CASE row[s].attempts + 1 >= MaxAttempts  BY <1>3, <2>1 DEF AfterFailure
  <2>2. CASE ~(row[s].attempts + 1 >= MaxAttempts)
    <3>1. AfterFailure(s) = [row[s] EXCEPT !.attempts = @ + 1, !.due = FALSE]
      BY <2>2 DEF AfterFailure
    <3>2. AfterFailure(s) \in Rows  BY <1>1, NewRows
    <3>. QED  BY <1>1, <3>1, <3>2 DEF Rows
  <2>. QED  BY <2>1, <2>2
<1>. HIDE DEF verified
<1>5. \/ Answers(s, verified) \/ Answers(s, Disabled(s)) \/ Answers(s, AfterFailure(s))
  <2>1. CASE Accepted(s) /\ SeatFree(s)  BY <2>1 DEF Accepted, verified
  <2>2. CASE Accepted(s) /\ ~SeatFree(s)  BY <2>2 DEF Accepted
  <2>3. CASE Failed(s) \/ Gone(s)  BY <2>3 DEF Failed, Gone
  <2>. QED  BY <2>1, <2>2, <2>3
<1>. QED  BY <1>2, <1>3, <1>4, <1>5, AnswersTurns

LEMMA LostTurns ==
    ASSUME SeatsInv, SeatsInv', TurnsInv, Lost \/ CollectOld
    PROVE  TurnsInv'
<1>. HooksTypeOK  BY DEF SeatsInv, ShapeInv
<1>1. page # <<>> /\ NextRow /\ UNCHANGED overtaken
  BY DEF Lost, CollectOld, SeatsInv, ShapeInv
<1>. PICK s \in Subs : s = Head(page)  BY <1>1 DEF HooksTypeOK
<1>2. Calm /\ s \notin Due'
  <2>1. CASE Lost
    <3>1. UNCHANGED <<row, overtaken>> /\ ~There(s)  BY <2>1 DEF Lost
    <3>2. s \notin Due'  BY <3>1 DEF Due, Unverified, There
    <3>. QED  BY <3>1, <3>2, CalmRowsStay
  <2>2. CASE CollectOld
    <3>1. There(s) /\ row' = [row EXCEPT ![s] = NoRow]  BY <2>2 DEF CollectOld
    <3>2. row'[s] = NoRow  BY <3>1, SetRow
    <3>3. s \notin Due'  BY <3>2 DEF Due, Unverified, There
    <3>. QED  BY <1>1, <3>1, <3>3, CalmSet, NoRowIsNone
  <2>. QED  BY <2>1, <2>2
<1>3. PageGoesOn  BY <1>1, <1>2 DEF PageGoesOn
<1>. QED  BY <1>2, <1>3, CalmKeeps DEF SeatsInv

\* s is a newcomer, and the others wait as they did.
LEMMA NewcomerTurns ==
    ASSUME ShapeInv, ShapeInv', TurnsInv, NEW s \in Subs, ForgetTurns(s),
           \A x \in Subs : x # s => row'[x] = row[x],
           s \in Due' => row'[s].stamp = 0,
           UNCHANGED <<page, posting>>
    PROVE  TurnsInv'
<1>. HooksTypeOK  BY DEF ShapeInv
<1>1. 0 # Now
  <2>1. Cardinality(Subs) \in Nat  BY SubscriptionsAssumption, FS_CardinalityType
  <2>. QED  BY <2>1 DEF Now
<1>2. s \in Due' => Newcomer(s)
  BY <1>1 DEF Newcomer, ForgetTurns, Now
<1>3. ASSUME NEW x \in Due', x # s PROVE Waits(x)
  <2>1. x \in Subs /\ row'[x] = row[x] /\ x \in Due  BY <1>3 DEF Due, Unverified, There
  <2>2. \A o \in Subs : overtaken'[x][o] = IF o = s THEN 0 ELSE overtaken[x][o]
    BY <1>3, <2>1 DEF ForgetTurns
  <2>3. \A o \in Subs : o # s => (There(o)' => There(o) /\ row'[o].stamp = row[o].stamp)
    BY DEF There
  <2>. QED  BY <2>1, <2>2, <2>3 DEF Waits
<1>4. PageGoesOn  BY DEF PageGoesOn
<1>. QED  BY <1>2, <1>3, <1>4, TurnsKept

LEMMA CreateTurns ==
    ASSUME SeatsInv, SeatsInv', TurnsInv, NEW r \in Calls, CreateCommits(r)
    PROVE  TurnsInv'
<1>. HooksTypeOK  BY DEF SeatsInv, ShapeInv
<1>1. call[r].at = "insert" /\ UNCHANGED <<page, posting>>  BY DEF CreateCommits, api
<1>. PICK s \in Subs : s = call[r].sub  BY <1>1, StageIs
<1>2. CASE UNCHANGED <<row, overtaken>>
  <2>1. Calm /\ PageGoesOn  BY <1>1, <1>2, CalmRowsStay DEF PageGoesOn
  <2>. QED  BY <2>1, CalmKeeps DEF SeatsInv
<1>3. CASE ~UNCHANGED <<row, overtaken>>
  <2>. DEFINE new == [active |-> TRUE, verified |-> FALSE, attempts |-> 0,
                      due |-> TRUE, stamp |-> 0, old |-> FALSE]
  <2>1. row' = [row EXCEPT ![s] = new] /\ ForgetTurns(s)  BY <1>3 DEF CreateCommits
  <2>2. new.stamp = 0  OBVIOUS
  <2>. HIDE DEF new
  <2>3. row'[s].stamp = 0 /\ \A x \in Subs : x # s => row'[x] = row[x]
    BY <2>1, <2>2 DEF HooksTypeOK
  <2>. QED  BY <1>1, <2>1, <2>3, NewcomerTurns DEF SeatsInv
<1>. QED  BY <1>2, <1>3

LEMMA ReactivateTurns ==
    ASSUME SeatsInv, SeatsInv', TurnsInv, NEW r \in Calls, ReactivateCommits(r)
    PROVE  TurnsInv'
<1>. HooksTypeOK  BY DEF SeatsInv, ShapeInv
<1>1. call[r].at = "writes" /\ UNCHANGED <<page, posting>>  BY DEF ReactivateCommits, api
<1>. PICK s \in Subs : s = call[r].sub  BY <1>1, StageIs
<1>2. CASE ~There(s)
  <2>1. UNCHANGED <<row, overtaken>>  BY <1>2 DEF ReactivateCommits
  <2>2. Calm /\ PageGoesOn  BY <1>1, <2>1, CalmRowsStay DEF PageGoesOn
  <2>. QED  BY <2>2, CalmKeeps DEF SeatsInv
<1>3. CASE There(s)
  <2>1. row[s] \in Rows  BY <1>3, RowIs
  <2>2. call[r].verified => row[s].verified
    BY <1>1, <1>3 DEF SeatsInv, IdsInv, Reactivates
  <2>3. /\ row' = [row EXCEPT ![s] =
               IF call[r].verified THEN [row[s] EXCEPT !.active = TRUE, !.due = TRUE]
               ELSE [row[s] EXCEPT !.active = TRUE, !.due = TRUE, !.attempts = 0, !.stamp = 0, !.old = FALSE]]
        /\ ForgetTurns(s)
    BY <1>3 DEF ReactivateCommits
  <2>4. \A x \in Subs : x # s => row'[x] = row[x]  BY <2>3 DEF HooksTypeOK
  <2>5. s \in Due' => row'[s].stamp = 0
    <3>1. CASE call[r].verified
      <4>1. row'[s] = [row[s] EXCEPT !.active = TRUE, !.due = TRUE]  BY <2>3, <3>1 DEF HooksTypeOK
      <4>2. row'[s].verified  BY <2>1, <2>2, <3>1, <4>1 DEF Rows
      <4>. QED  BY <4>2 DEF Due, Unverified
    <3>2. CASE ~call[r].verified
      <4>1. row'[s] = [row[s] EXCEPT !.active = TRUE, !.due = TRUE, !.attempts = 0, !.stamp = 0, !.old = FALSE]
        BY <2>3, <3>2 DEF HooksTypeOK
      <4>. QED  BY <2>1, <4>1 DEF Rows
    <3>. QED  BY <3>1, <3>2
  <2>. QED  BY <1>1, <2>3, <2>4, <2>5, NewcomerTurns DEF SeatsInv
<1>. QED  BY <1>2, <1>3

LEMMA BackoffTurns ==
    ASSUME SeatsInv, SeatsInv', TurnsInv, NEW s \in Subs, BackoffElapses(s)
    PROVE  TurnsInv'
<1>. HooksTypeOK  BY DEF SeatsInv, ShapeInv
<1>1. /\ page = <<>> /\ page' = page /\ posting' = posting
      /\ Unverified(s) /\ row' = [row EXCEPT ![s].due = TRUE]
      /\ overtaken' = [overtaken EXCEPT ![s] = [o \in Subs |-> 0]]
  BY DEF BackoffElapses, time
<1>2. row[s] \in Rows  BY <1>1, RowIs DEF Unverified
<1>3. /\ There(s)' => row'[s].stamp = row[s].stamp
      /\ \A x \in Subs : x # s => row'[x] = row[x]
  BY <1>1, <1>2 DEF HooksTypeOK, Rows
<1>4. Newcomer(s)  BY <1>1 DEF Newcomer, HooksTypeOK
<1>5. ASSUME NEW x \in Due', x # s PROVE Waits(x)
  <2>1. x \in Subs /\ row'[x] = row[x] /\ x \in Due  BY <1>3, <1>5 DEF Due, Unverified, There
  <2>2. overtaken'[x] = overtaken[x]  BY <1>1, <1>5, <2>1 DEF HooksTypeOK
  <2>3. \A o \in Subs : There(o)' => There(o) /\ row'[o].stamp = row[o].stamp
    BY <1>1, <1>3 DEF There, Unverified
  <2>. QED  BY <2>1, <2>2, <2>3 DEF Waits
<1>6. PageGoesOn  BY <1>1 DEF PageGoesOn
<1>. QED  BY <1>4, <1>5, <1>6, TurnsKept DEF SeatsInv

\* Ranks order the rows as their stamps do, and none is the stamp of the run to come.
LEMMA RanksKeepOrder ==
    ASSUME HooksTypeOK, NEW s \in Subs, There(s)
    PROVE  /\ Rank(row[s].stamp) < Now
           /\ \A o \in Subs : There(o) /\ row[o].stamp < row[s].stamp =>
                  Rank(row[o].stamp) < Rank(row[s].stamp)
<1>. DEFINE S == {x \in Subs : There(x)}
            T == {row[o].stamp : o \in S}
            f == [o \in S |-> row[o].stamp]
<1>1. IsFiniteSet(S) /\ Cardinality(S) <= Cardinality(Subs) /\ Cardinality(S) \in Nat
      /\ Cardinality(Subs) \in Nat
  BY SubscriptionsAssumption, FS_Subset, FS_CardinalityType
<1>2. f \in Surjection(S, T)  BY DEF Surjection
<1>3. IsFiniteSet(T) /\ Cardinality(T) <= Cardinality(S)  BY <1>1, <1>2, FS_Surjection
<1>4. \A n : IsFiniteSet(T \cap 1..n) /\ Cardinality(T \cap 1..n) <= Cardinality(T)
             /\ Cardinality(T \cap 1..n) \in Nat
  <2>. SUFFICES ASSUME NEW n
       PROVE  IsFiniteSet(T \cap 1..n) /\ Cardinality(T \cap 1..n) <= Cardinality(T)
              /\ Cardinality(T \cap 1..n) \in Nat
    OBVIOUS
  <2>1. IsFiniteSet(T \cap 1..n) /\ Cardinality(T \cap 1..n) <= Cardinality(T)  BY <1>3, FS_Subset
  <2>. QED  BY <2>1, FS_CardinalityType
<1>5. Cardinality(T) \in Nat  BY <1>3, FS_CardinalityType
<1>6. \A n : Rank(n) = Cardinality(T \cap 1..n)  BY DEF Rank
<1>7. Rank(row[s].stamp) < Now
  <2>. PICK n : n = row[s].stamp  OBVIOUS
  <2>1. Cardinality(T \cap 1..n) <= Cardinality(T) /\ Cardinality(T \cap 1..n) \in Nat  BY <1>4
  <2>2. Rank(n) = Cardinality(T \cap 1..n)  BY <1>6
  <2>. QED  BY <1>1, <1>3, <1>5, <2>1, <2>2 DEF Now
<1>8. ASSUME NEW o \in Subs, There(o), row[o].stamp < row[s].stamp
      PROVE  Rank(row[o].stamp) < Rank(row[s].stamp)
  <2>. PICK a \in 0..Now : a = row[o].stamp  BY <1>8, RowIs
  <2>. PICK b \in 0..Now : b = row[s].stamp  BY RowIs
  <2>1. Now \in Nat  BY <1>1 DEF Now
  <2>2. a < b /\ b \in T  BY <1>8
  <2>. DEFINE A == T \cap 1..a
              B == T \cap 1..b
  <2>3. A \subseteq B /\ b \in B /\ b \notin A  BY <2>1, <2>2
  <2>4. IsFiniteSet(A) /\ IsFiniteSet(B) /\ Cardinality(A) \in Nat /\ Cardinality(B) \in Nat  BY <1>4
  <2>5. Rank(a) = Cardinality(A) /\ Rank(b) = Cardinality(B)  BY <1>6
  <2>. HIDE DEF A, B
  <2>6. Cardinality(A) <= Cardinality(B) /\ Cardinality(A) # Cardinality(B)
    BY <2>3, <2>4, FS_Subset
  <2>. QED  BY <2>4, <2>5, <2>6
<1>. QED  BY <1>7, <1>8

\* The prefix of a sequence.
LEMMA PrefixOf ==
    ASSUME NEW S, NEW p \in Seq(S), NEW n \in 0..Len(p)
    PROVE  /\ Len(SubSeq(p, 1, n)) = n
           /\ \A i \in 1..n : SubSeq(p, 1, n)[i] = p[i]
<1>1. Len(p) \in Nat  BY LenProperties
<1>2. 1 \in Int /\ n \in Int /\ n \in Nat  BY <1>1
<1>3. \A i \in 1..n : p[i] \in S
  <2>1. \A i \in 1..n : i \in 1..Len(p)  BY <1>1, <1>2
  <2>. QED  BY <2>1, ElementOfSeq
<1>. PICK q : q = SubSeq(p, 1, n)  OBVIOUS
<1>4. Len(q) = (IF 1 <= n THEN n - 1 + 1 ELSE 0) /\ \A i \in 1..(n - 1 + 1) : q[i] = p[1 + i - 1]
  BY <1>2, <1>3, SubSeqProperties
<1>5. Len(q) = n  BY <1>2, <1>4
<1>6. \A i \in 1..n : i \in 1..(n - 1 + 1) /\ 1 + i - 1 = i  BY <1>2
<1>7. \A i \in 1..n : q[i] = p[i]  BY <1>4, <1>6
<1>. QED  BY <1>5, <1>7

LEMMA BeginTurns ==
    ASSUME SeatsInv, SeatsInv', TurnsInv, BeginChallenges
    PROVE  TurnsInv'
<1>. HooksTypeOK /\ HooksTypeOK'  BY DEF SeatsInv, ShapeInv
<1>1. page = <<>> /\ ~posting /\ ~posting' /\ UNCHANGED overtaken
  BY DEF BeginChallenges, SeatsInv, ShapeInv
<1>. PICK p \in SetToSeqs(Due) :
         /\ \A i, j \in DOMAIN p : i < j => Earlier(p[i], p[j])
         /\ page' = SubSeq(p, 1, Min({PageSize, Len(p)}))
  BY DEF BeginChallenges
<1>2. IsFiniteSet(Due) /\ Cardinality(Due) \in Nat
  <2>1. IsFiniteSet(Due)  BY SubscriptionsAssumption, FS_Subset DEF Due
  <2>. QED  BY <2>1, FS_CardinalityType
<1>3. /\ p \in [1..Cardinality(Due) -> Due]
      /\ \A i, j \in 1..Cardinality(Due) : i # j => p[i] # p[j]
  BY DEF SetToSeqs
<1>4. p \in Seq(Subs) /\ Len(p) = Cardinality(Due)
  <2>. PICK n \in Nat : n = Cardinality(Due)  BY <1>2
  <2>1. p \in [1..n -> Subs]  BY <1>3 DEF Due
  <2>2. p \in Seq(Subs)  BY <2>1
  <2>3. DOMAIN p = 1..n /\ DOMAIN p = 1..Len(p) /\ Len(p) \in Nat  BY <2>1, <2>2, LenProperties
  <2>4. Len(p) = n  BY <2>3
  <2>. QED  BY <2>2, <2>4
\* Each row that is due is in p.
<1>5. \A x \in Due : \E i \in 1..Len(p) : p[i] = x
  <2>. DEFINE D == 1..Cardinality(Due)
  <2>1. p \in Injection(D, Due)  BY <1>3 DEF Injection, IsInjective
  <2>2. Cardinality(D) = Cardinality(Due)  BY <1>2, FS_Interval
  <2>3. p \in Surjection(D, Due)  BY <1>2, <2>1, <2>2, FS_Injection
  <2>. QED  BY <1>4, <2>3 DEF Surjection
<1>6. PICK n \in 0..Len(p) : page' = SubSeq(p, 1, n)
  <2>1. PageSize \in Nat /\ Len(p) \in Nat  BY SubscriptionsAssumption, <1>2, <1>4
  <2>2. Min({PageSize, Len(p)}) = IF PageSize <= Len(p) THEN PageSize ELSE Len(p)
    BY <2>1, LesserOfTwo
  <2>3. Min({PageSize, Len(p)}) \in 0..Len(p)  BY <2>1, <2>2
  <2>. QED  BY <2>3
<1>7. Len(page') = n /\ \A i \in 1..n : page'[i] = p[i]
  <2>1. Len(SubSeq(p, 1, n)) = n /\ \A i \in 1..n : SubSeq(p, 1, n)[i] = p[i]  BY <1>4, PrefixOf
  <2>. QED  BY <1>6, <2>1, Zenon
<1>8. Len(p) \in Nat /\ n \in Nat /\ n <= Len(p)  BY <1>2, <1>4
<1>9. \A x \in Subs : There(x)' => There(x) /\ row'[x] = [row[x] EXCEPT !.stamp = Rank(@)] /\ row[x] \in Rows
  <2>. SUFFICES ASSUME NEW x \in Subs, There(x)'
       PROVE  There(x) /\ row'[x] = [row[x] EXCEPT !.stamp = Rank(@)] /\ row[x] \in Rows
    OBVIOUS
  <2>1. row'[x] = IF Collected(x) \/ ~There(x) THEN NoRow ELSE [row[x] EXCEPT !.stamp = Rank(@)]
    BY DEF BeginChallenges
  <2>2. There(x)  BY <2>1 DEF There
  <2>. QED  BY <2>1, <2>2, RowIs DEF There
<1>10. \A x \in Subs : There(x)' => row'[x].stamp = Rank(row[x].stamp)
  BY <1>9 DEF Rows
<1>11. \A x \in Due' : x \in Due /\ There(x)'
  BY <1>9 DEF Due, Unverified, There, Rows
<1>12. \A i, j \in 1..Len(page') : page'[i] = page'[j] => i = j
  <2>. SUFFICES ASSUME NEW i \in 1..Len(page'), NEW j \in 1..Len(page'), page'[i] = page'[j]
       PROVE  i = j
    OBVIOUS
  <2>1. i \in 1..n /\ j \in 1..n  BY <1>7
  <2>2. p[i] = p[j]  BY <1>7, <2>1
  <2>3. i \in 1..Cardinality(Due) /\ j \in 1..Cardinality(Due)  BY <1>4, <1>8, <2>1
  <2>. QED  BY <1>3, <2>2, <2>3
<1>13. ASSUME NEW s \in Due', NEW o \in Subs, overtaken'[s][o] = 1
       PROVE  /\ There(o)' => row'[s].stamp < row'[o].stamp
              /\ \A j \in 1..Len(page') : page'[j] = o => \E i \in 1..Len(page') : i < j /\ page'[i] = s
  <2>1. s \in Due /\ s \in Subs /\ There(s)' /\ There(s) /\ overtaken[s][o] = 1
    BY <1>1, <1>11, <1>13 DEF Due, Unverified
  <2>2. There(o) => row[s].stamp < row[o].stamp  BY <2>1 DEF TurnsInv
  <2>3. There(o)' => row'[s].stamp < row'[o].stamp
    <3>. SUFFICES ASSUME There(o)' PROVE row'[s].stamp < row'[o].stamp  OBVIOUS
    <3>1. There(o) /\ row[s].stamp < row[o].stamp  BY <1>9, <2>2
    <3>2. Rank(row[s].stamp) < Rank(row[o].stamp)  BY <2>1, <3>1, RanksKeepOrder
    <3>. QED  BY <1>10, <2>1, <3>2
  <2>4. ASSUME NEW j \in 1..Len(page'), page'[j] = o
        PROVE  \E i \in 1..Len(page') : i < j /\ page'[i] = s
    <3>0. j \in 1..n  BY <1>7, <2>4
    <3>1. j \in 1..Len(p) /\ p[j] = o /\ o \in Due
      <4>1. p[j] = o  BY <1>7, <2>4, <3>0
      <4>2. j \in 1..Len(p) /\ j \in 1..Cardinality(Due)  BY <1>4, <1>8, <3>0
      <4>. QED  BY <1>3, <4>1, <4>2
    <3>2. There(o)  BY <3>1 DEF Due, Unverified
    <3>3. PICK i \in 1..Len(p) : p[i] = s  BY <1>5, <2>1
    <3>4. row[s].stamp \in Int /\ row[o].stamp \in Int
      <4>1. row[s].stamp \in 0..Now /\ row[o].stamp \in 0..Now  BY <2>1, <3>2, RowIs
      <4>. QED  BY <4>1
    <3>5. i # j  BY <2>2, <3>1, <3>2, <3>3, <3>4
    <3>6. ~(j < i)
      <4>1. SUFFICES ASSUME j < i PROVE FALSE  OBVIOUS
      <4>2. Earlier(o, s)  BY <1>3, <1>4, <3>1, <3>3, <4>1
      <4>. QED  BY <2>2, <3>2, <3>4, <4>2 DEF Earlier
    <3>7. i < j /\ i \in 1..n  BY <1>8, <3>0, <3>3, <3>5, <3>6
    <3>8. i \in 1..Len(page') /\ page'[i] = s  BY <1>7, <3>3, <3>7
    <3>. QED  BY <3>7, <3>8
  <2>. QED  BY <2>3, <2>4
<1>14. ASSUME NEW s \in Due'
       PROVE  /\ row'[s].stamp # Now
              /\ \A o \in Subs : overtaken'[s][o] < 2
  <2>1. s \in Due /\ There(s)' /\ s \in Subs /\ There(s)  BY <1>11 DEF Due, Unverified
  <2>2. Rank(row[s].stamp) < Now /\ Rank(row[s].stamp) \in Int
    <3>1. row[s].stamp \in 0..Now  BY <2>1, RowIs
    <3>2. Rank(row[s].stamp) \in 0..Now  BY <3>1, RankIs
    <3>. QED  BY <2>1, <3>2, RanksKeepOrder
  <2>3. Now \in Int
    <3>1. Cardinality(Subs) \in Nat  BY SubscriptionsAssumption, FS_CardinalityType
    <3>. QED  BY <3>1 DEF Now
  <2>. QED  BY <1>1, <1>10, <2>1, <2>2, <2>3 DEF TurnsInv
<1>15. Now' = Now  BY DEF Now
<1>16. ASSUME NEW s \in Due'
       PROVE  /\ page' # <<>> /\ row'[s].stamp = Now => posting' /\ s = Head(page')
              /\ posting' /\ s = Head(page') => \A o \in Subs : overtaken'[s][o] = 0
              /\ \A o \in Subs :
                  /\ overtaken'[s][o] < 2
                  /\ overtaken'[s][o] = 1 =>
                      /\ There(o)' => row'[s].stamp < row'[o].stamp
                      /\ \A j \in 1..Len(page') :
                             page'[j] = o /\ ~(posting' /\ j = 1) =>
                                 \E i \in 1..Len(page') : i < j /\ page'[i] = s
  <2>1. row'[s].stamp # Now /\ \A o \in Subs : overtaken'[s][o] < 2  BY <1>14
  <2>2. \A o \in Subs : overtaken'[s][o] = 1 =>
            /\ There(o)' => row'[s].stamp < row'[o].stamp
            /\ \A j \in 1..Len(page') : page'[j] = o => \E i \in 1..Len(page') : i < j /\ page'[i] = s
    BY <1>13
  <2>. QED  BY <1>1, <2>1, <2>2
<1>. QED  BY <1>12, <1>15, <1>16 DEF TurnsInv, There

LEMMA ChallengeTurns ==
    ASSUME SeatsInv, SeatsInv', TurnsInv, Challenge
    PROVE  TurnsInv'
<1>. HooksTypeOK /\ HooksTypeOK'  BY DEF SeatsInv, ShapeInv
<1>1. page # <<>> /\ ~posting /\ posting' /\ page' = page  BY DEF Challenge
<1>. PICK s \in Subs : s = Head(page)  BY <1>1 DEF HooksTypeOK
<1>2. page \in Seq(Subs) /\ Len(page) \in Nat /\ Len(page) >= 1 /\ page[1] = s
  BY <1>1, EmptySeq DEF HooksTypeOK
<1>3. row' = [row EXCEPT ![s] = IF There(s) THEN [row[s] EXCEPT !.stamp = Now] ELSE NoRow]
      /\ overtaken' = [o \in Subs |->
              IF o = s THEN [x \in Subs |-> 0]
              ELSE IF o \in Due THEN [overtaken[o] EXCEPT ![s] = Min({@ + 1, 2})] ELSE overtaken[o]]
  BY DEF Challenge
<1>4. /\ \A x \in Subs : x # s => row'[x] = row[x]
      /\ There(s)' => There(s) /\ row'[s].stamp = Now
  <2>1. row'[s] = IF There(s) THEN [row[s] EXCEPT !.stamp = Now] ELSE NoRow  BY <1>3 DEF HooksTypeOK
  <2>2. There(s) => row[s] \in Rows  BY RowIs
  <2>3. There(s)' => There(s) /\ row'[s].stamp = Now  BY <2>1, <2>2 DEF There, Rows
  <2>. QED  BY <1>3, <2>3 DEF HooksTypeOK
<1>5. ASSUME NEW x \in Due', x # s
      PROVE  /\ x \in Due /\ x \in Subs /\ row'[x] = row[x] /\ row[x].stamp # Now
             /\ row[x].stamp \in 0..Now
             /\ overtaken'[x][s] = 1
             /\ \A o \in Subs : o # s => overtaken'[x][o] = overtaken[x][o]
  <2>1. x \in Due /\ x \in Subs /\ row'[x] = row[x]  BY <1>4, <1>5 DEF Due, Unverified, There
  <2>2. row[x].stamp # Now  BY <1>1, <2>1 DEF TurnsInv
  <2>3. row[x].stamp \in 0..Now  BY <2>1, RowIs DEF Due, Unverified
  <2>4. overtaken[x] \in [Subs -> 0..2]  BY <2>1 DEF HooksTypeOK
  <2>5. overtaken[x][s] # 1
    <3>1. SUFFICES ASSUME overtaken[x][s] = 1 PROVE FALSE  OBVIOUS
    <3>2. 1 \in 1..Len(page) /\ page[1] = s  BY <1>2
    <3>3. \E i \in 1..Len(page) : i < 1 /\ page[i] = x  BY <1>1, <2>1, <3>1, <3>2 DEF TurnsInv
    <3>. QED  BY <1>2, <3>3
  <2>6. overtaken[x][s] < 2  BY <2>1 DEF TurnsInv
  <2>7. overtaken[x][s] = 0  BY <2>4, <2>5, <2>6
  <2>8. overtaken'[x] = [overtaken[x] EXCEPT ![s] = Min({@ + 1, 2})]  BY <1>3, <1>5, <2>1
  <2>9. Min({overtaken[x][s] + 1, 2}) = 1  BY <2>7, LesserOfTwo
  <2>. QED  BY <2>1, <2>2, <2>3, <2>4, <2>8, <2>9
<1>6. \A i, j \in 1..Len(page) : page[i] = page[j] => i = j  BY DEF TurnsInv
<1>7. Now' = Now /\ Now \in Int
  <2>1. Cardinality(Subs) \in Nat  BY SubscriptionsAssumption, FS_CardinalityType
  <2>. QED  BY <2>1 DEF Now
<1>8. ASSUME NEW x \in Due'
      PROVE  /\ page' # <<>> /\ row'[x].stamp = Now => posting' /\ x = Head(page')
             /\ posting' /\ x = Head(page') => \A o \in Subs : overtaken'[x][o] = 0
             /\ \A o \in Subs :
                 /\ overtaken'[x][o] < 2
                 /\ overtaken'[x][o] = 1 =>
                     /\ There(o)' => row'[x].stamp < row'[o].stamp
                     /\ \A j \in 1..Len(page') :
                            page'[j] = o /\ ~(posting' /\ j = 1) =>
                                \E i \in 1..Len(page') : i < j /\ page'[i] = x
  <2>1. CASE x = s
    <3>1. \A o \in Subs : overtaken'[x][o] = 0  BY <1>3, <2>1
    <3>. QED  BY <1>1, <2>1, <3>1
  <2>2. CASE x # s
    <3>1. /\ x \in Due /\ x \in Subs /\ row'[x] = row[x] /\ row[x].stamp # Now
          /\ row[x].stamp \in 0..Now
          /\ overtaken'[x][s] = 1
          /\ \A o \in Subs : o # s => overtaken'[x][o] = overtaken[x][o]
      BY <1>5, <2>2
    <3>2. ASSUME NEW o \in Subs
          PROVE  /\ overtaken'[x][o] < 2
                 /\ overtaken'[x][o] = 1 =>
                     /\ There(o)' => row'[x].stamp < row'[o].stamp
                     /\ \A j \in 1..Len(page') :
                            page'[j] = o /\ ~(posting' /\ j = 1) =>
                                \E i \in 1..Len(page') : i < j /\ page'[i] = x
      <4>1. CASE o = s
        <5>1. overtaken'[x][o] < 2  BY <3>1, <4>1
        <5>2. There(o)' => row'[x].stamp < row'[o].stamp  BY <1>4, <1>7, <3>1, <4>1
        <5>3. \A j \in 1..Len(page') : page'[j] = o => j = 1  BY <1>1, <1>2, <1>6, <4>1
        <5>. QED  BY <1>1, <5>1, <5>2, <5>3
      <4>2. CASE o # s
        <5>1. overtaken'[x][o] = overtaken[x][o] /\ row'[o] = row[o]  BY <1>4, <3>1, <4>2
        <5>2. There(o)' => There(o)  BY <5>1 DEF There
        <5>. QED  BY <1>1, <3>1, <5>1, <5>2 DEF TurnsInv
      <4>. QED  BY <4>1, <4>2
    <3>. QED  BY <1>1, <2>2, <3>1, <3>2
  <2>. QED  BY <2>1, <2>2
<1>. QED  BY <1>1, <1>6, <1>7, <1>8 DEF TurnsInv, There

\* The inductive invariant of the turns, for any page size and any restarts.
THEOREM TurnsInvariant == HooksSpec => []TurnsInv
<1>1. HooksInit => TurnsInv
  <2>. SUFFICES ASSUME HooksInit PROVE TurnsInv  OBVIOUS
  <2>1. Len(page) = 0  BY DEF HooksInit
  <2>2. Due = {}  BY DEF HooksInit, Due, Unverified, There
  <2>. QED  BY <2>1, <2>2 DEF TurnsInv
<1>2. SeatsInv /\ SeatsInv' /\ TurnsInv /\ [HooksNext]_hooksVars => TurnsInv'
  <2>. SUFFICES ASSUME SeatsInv, SeatsInv', TurnsInv, [HooksNext]_hooksVars PROVE TurnsInv'  OBVIOUS
  <2>1. ASSUME NEW r \in Calls, CreateCommits(r) PROVE TurnsInv'
    BY <2>1, CreateTurns
  <2>2. ASSUME NEW r \in Calls, ReactivateCommits(r) PROVE TurnsInv'
    BY <2>2, ReactivateTurns
  <2>3. ASSUME NEW s \in Subs, Delete(s) \/ DeliveryDisables(s) \/ GrowsOld(s) PROVE TurnsInv'
    BY <2>3, DeleteTurns
  <2>4. ASSUME NEW s \in Subs, Accepted(s) \/ Failed(s) \/ Gone(s) PROVE TurnsInv'
    BY <2>4, AnsweredTurns
  <2>5. ASSUME NEW s \in Subs, BackoffElapses(s) PROVE TurnsInv'
    BY <2>5, BackoffTurns
  <2>6. CASE BeginChallenges  BY <2>6, BeginTurns
  <2>7. CASE Challenge  BY <2>7, ChallengeTurns
  <2>8. CASE Lost \/ CollectOld  BY <2>8, LostTurns
  <2>9. CASE \/ \E r \in Calls, s \in Subs : CreateCounts(r, s) \/ ReactivateReads(r, s)
             \/ \E r \in Calls : ReactivateCounts(r)
             \/ \E c \in Creators : EventAges(c)
             \/ OutOfTime \/ Crash \/ UNCHANGED hooksVars
    BY <2>9, CalmSteps
  <2>. QED  BY <2>1, <2>2, <2>3, <2>4, <2>5, <2>6, <2>7, <2>8, <2>9 DEF HooksNext
<1>. QED  BY <1>1, <1>2, SubscriptionsInvariant, PTL DEF HooksSpec

\* No subscription that is due is overtaken twice by another, whatever the pages hold,
\* however they are cut short and whoever joins: _challenge_order_by starves no one.
THEOREM TurnsAreTaken == HooksSpec => []TurnsAreFair
<1>1. TurnsInv => TurnsAreFair  BY DEF TurnsInv, TurnsAreFair, Due
<1>. QED  BY <1>1, TurnsInvariant, PTL

=============================================================================
