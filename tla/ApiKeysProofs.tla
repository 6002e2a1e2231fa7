---------------------------- MODULE ApiKeysProofs ----------------------------
(***************************************************************************)
(* ApiKeys, for any finite set of keys, any links and requests, and any    *)
(* ceilings: its six properties.                                           *)
(*                                                                         *)
(* What a request read before its commit need not be so at its commit.     *)
(* The invariant says what still is: for every request, that its key is    *)
(* nobody's spare row and that what a resolution loaded is the row's       *)
(* unless it was tombstoned or an invalidation is owed (Sound); for the    *)
(* one request that holds the customer's lock, what it decided on          *)
(* (Decided) and that there is room for it (Room), which requests that     *)
(* take no lock may only make more of.                                     *)
(***************************************************************************)
EXTENDS ApiKeys, FiniteSetTheorems, TLAPS

USE KeysAssumption

-----------------------------------------------------------------------------
(* The invariant.                                                          *)

Keyed == {"look", "resolve", "loaded", "rotate", "rotating", "revoking", "revealing"}
Holding == {"minting", "rotate", "rotating", "revoking", "billing", "login"}

\* A row is about to be inserted.
Mints(s) ==
    \/ s.pc \in {"minting", "rotating"}
    \/ s.pc \in {"billing", "login"} /\ s.new # NoKey

\* A key's overlap ends after its rotation, or with its revocation.
OverInv == \A k \in over : row[k].status \in {"rotating", "revoked"}

SpareInv == \A k \in Keys : Spare(k) => cache[k] = Missing /\ told[k] = 0 /\ ~row[k].sealed

ToldInv == \A k \in Keys : told[k] <= 1 /\ (row[k].sealed => told[k] = 0)

PaidInv == plan = "paid" => events > 0

Mutex == \A q, r \in Requests : HoldsCustomer(q) /\ HoldsCustomer(r) => q = r

SameAnswer(a, b) == a.status = b.status /\ a.plan = b.plan

\* What is so of any request.
Sound(s) ==
    /\ s.pc \in Keyed => ~Spare(s.key)
    /\ s.pc = "refund" => events > 0
    /\ s.pc = "loaded" => s.seen.status # "none"
    /\ s.pc = "loaded" /\ ~s.raced => Owed(s.key) \/ SameAnswer(s.seen, row[s.key])

\* What the holder of the lock decided on.
Decided(s) ==
    /\ Mints(s) => Spare(s.new)
    /\ s.pc \in {"rotate", "rotating"} =>
           row[s.key].status \in {"active", "revoked"} /\ s.key \notin over
    /\ s.pc = "login" /\ s.new # NoKey => FirstLogin

KeysInv ==
    /\ TypeOK /\ OverInv /\ SpareInv /\ ToldInv /\ PaidInv /\ Mutex /\ CacheHonest
    /\ \A r \in Requests : Sound(req[r]) /\ Decided(req[r])

-----------------------------------------------------------------------------
(* Values.                                                                 *)

\* What a request is at determines what it holds.
LEMMA RequestKinds ==
  ASSUME NEW s \in RequestStates
  PROVE  /\ s.pc \in Keyed => s.key \in Keys
         /\ s.pc \in {"resolve", "loaded"} => s.raced \in BOOLEAN
         /\ s.pc = "loaded" => s.seen \in Rows
         /\ s.pc = "create" => s.plan \in Plans
         /\ s.pc = "minting" => s.new \in Keys /\ s.plan \in Plans
         /\ s.pc = "rotate" => s.plan \in Plans
         /\ s.pc = "rotating" => s.new \in Keys /\ s.plan \in Plans
         /\ s.pc = "billing" => /\ s.keys \in SUBSET Keys /\ s.new \in Keys \cup {NoKey}
                                /\ s.plan \in Plans
         /\ s.pc \in {"refund", "owes"} => s.keys \in SUBSET Keys
         /\ s.pc = "claimed" => s.token \in Tokens
         /\ s.pc = "login" => s.token \in Tokens /\ s.new \in Keys \cup {NoKey}
         /\ s.pc = "idle" => s = Idle
BY DEF RequestStates, Keyed, Idle

LEMMA RequestValues ==
  /\ Idle \in RequestStates
  /\ \A p \in Plans : [pc |-> "create", plan |-> p] \in RequestStates
  /\ \A n \in Keys, p \in Plans : [pc |-> "minting", new |-> n, plan |-> p] \in RequestStates
  /\ \A k \in Keys, p \in Plans : [pc |-> "rotate", key |-> k, plan |-> p] \in RequestStates
  /\ \A k, n \in Keys, p \in Plans :
        [pc |-> "rotating", key |-> k, new |-> n, plan |-> p] \in RequestStates
  /\ \A pc \in {"revoking", "revealing", "look"}, k \in Keys :
        [pc |-> pc, key |-> k] \in RequestStates
  /\ \A ks \in SUBSET Keys, n \in Keys \cup {NoKey}, p \in Plans :
        [pc |-> "billing", keys |-> ks, new |-> n, plan |-> p] \in RequestStates
  /\ \A pc \in {"refund", "owes"}, ks \in SUBSET Keys : [pc |-> pc, keys |-> ks] \in RequestStates
  /\ \A t \in Tokens : [pc |-> "claimed", token |-> t] \in RequestStates
  /\ \A t \in Tokens, n \in Keys \cup {NoKey} :
        [pc |-> "login", token |-> t, new |-> n] \in RequestStates
  /\ \A k \in Keys, b \in BOOLEAN : [pc |-> "resolve", key |-> k, raced |-> b] \in RequestStates
  /\ \A k \in Keys, b \in BOOLEAN, seen \in Rows :
        [pc |-> "loaded", key |-> k, raced |-> b, seen |-> seen] \in RequestStates
BY DEF RequestStates

\* A resolution that is tombstoned is the same one, raced.
LEMMA RacedState ==
  ASSUME NEW s \in RequestStates, s.pc \in {"resolve", "loaded"}
  PROVE  /\ [s EXCEPT !.raced = TRUE] \in RequestStates
         /\ [s EXCEPT !.raced = TRUE].pc = s.pc
         /\ [s EXCEPT !.raced = TRUE].key = s.key
         /\ [s EXCEPT !.raced = TRUE].raced = TRUE
         /\ s.pc = "loaded" => [s EXCEPT !.raced = TRUE].seen = s.seen
<1>1. CASE s.pc = "resolve"
  <2>1. s \in [pc : {"resolve"}, key : Keys, raced : BOOLEAN]
    BY <1>1 DEF RequestStates, Idle
  <2>2. [s EXCEPT !.raced = TRUE] \in [pc : {"resolve"}, key : Keys, raced : BOOLEAN]
    BY <2>1
  <2>3. [s EXCEPT !.raced = TRUE] \in RequestStates
    BY <2>2 DEF RequestStates
  <2> QED BY <1>1, <2>1, <2>3
<1>2. CASE s.pc = "loaded"
  <2>1. s \in [pc : {"loaded"}, key : Keys, raced : BOOLEAN, seen : Rows]
    BY <1>2 DEF RequestStates, Idle
  <2>2. [s EXCEPT !.raced = TRUE] \in [pc : {"loaded"}, key : Keys, raced : BOOLEAN, seen : Rows]
    BY <2>1
  <2>3. [s EXCEPT !.raced = TRUE] \in RequestStates
    BY <2>2 DEF RequestStates
  <2> QED BY <1>2, <2>1, <2>3
<1> QED BY <1>1, <1>2

\* Only the holder of the lock has decided anything.
LEMMA OnlyHoldersDecide ==
  ASSUME NEW s, s.pc \notin Holding
  PROVE  Decided(s)
BY DEF Decided, Mints, Holding

LEMMA HoldersHold ==
  ASSUME NEW r
  PROVE  HoldsCustomer(r) <=> req[r].pc \in Holding
BY DEF HoldsCustomer, Holding

-----------------------------------------------------------------------------
(* How requests move.                                                      *)

\* r goes on to s, and ks are invalidated.
Moves(r, s, ks) ==
    /\ req' = Tombstone([req EXCEPT ![r] = s], ks)
    /\ cache' = Dropped(ks)

LEMMA GotoMoves ==
  ASSUME TypeOK, NEW r \in Requests, NEW s \in RequestStates, Goto(r, s)
  PROVE  Moves(r, s, {})
<1>1. [req EXCEPT ![r] = s] = [q \in Requests |-> [req EXCEPT ![r] = s][q]]
  BY DEF TypeOK
<1>2. cache = [k \in Keys |-> cache[k]]
  BY DEF TypeOK
<1> QED BY <1>1, <1>2 DEF Goto, Moves, Tombstone, Dropped

LEMMA InvalidateMoves ==
  ASSUME NEW r, NEW s, NEW ks, Invalidate(r, s, ks)
  PROVE  Moves(r, s, ks)
BY DEF Invalidate, Moves

\* r is at s; any other request is where it was, a resolution of one of ks raced.
LEMMA Moved ==
  ASSUME TypeOK, NEW r \in Requests, NEW s \in RequestStates, NEW ks, Moves(r, s, ks),
         s.pc \notin {"resolve", "loaded"} \/ ks = {}
  PROVE  /\ req' \in [Requests -> RequestStates]
         /\ cache' \in [Keys -> Resolved \cup {Missing}]
         /\ req'[r] = s
         /\ \A q \in Requests \ {r} :
               \/ req'[q] = req[q]
               \/ req[q].pc \in {"resolve", "loaded"} /\ req'[q] = [req[q] EXCEPT !.raced = TRUE]
         /\ \A q \in Requests \ {r} :
               req[q].pc \in {"resolve", "loaded"} /\ req[q].key \in ks => req'[q].raced
         /\ \A k \in Keys : cache'[k] = IF k \in ks THEN Missing ELSE cache[k]
<1>1. \A q \in Requests : [req EXCEPT ![r] = s][q] = IF q = r THEN s ELSE req[q]
  BY DEF TypeOK
<1>2. \A q \in Requests :
          req'[q] = IF [req EXCEPT ![r] = s][q].pc \in {"resolve", "loaded"}
                       /\ [req EXCEPT ![r] = s][q].key \in ks
                    THEN [[req EXCEPT ![r] = s][q] EXCEPT !.raced = TRUE]
                    ELSE [req EXCEPT ![r] = s][q]
  BY DEF Moves, Tombstone
<1>3. req'[r] = s
  BY <1>1, <1>2
<1>4. \A q \in Requests \ {r} :
          req'[q] = IF req[q].pc \in {"resolve", "loaded"} /\ req[q].key \in ks
                    THEN [req[q] EXCEPT !.raced = TRUE] ELSE req[q]
  BY <1>1, <1>2
<1>5. \A q \in Requests : req[q] \in RequestStates
  BY DEF TypeOK
<1>6. ASSUME NEW q \in Requests PROVE req'[q] \in RequestStates
  BY <1>3, <1>4, <1>5, RacedState
<1>7. req' \in [Requests -> RequestStates]
  BY <1>6 DEF Moves, Tombstone
<1>8. \A q \in Requests \ {r} :
          req[q].pc \in {"resolve", "loaded"} /\ req[q].key \in ks => req'[q].raced
  BY <1>4, <1>5, RacedState
<1>9. /\ cache' \in [Keys -> Resolved \cup {Missing}]
      /\ \A k \in Keys : cache'[k] = IF k \in ks THEN Missing ELSE cache[k]
  BY DEF TypeOK, Moves, Dropped
<1> QED BY <1>3, <1>4, <1>7, <1>8, <1>9

\* A request that did not move, or was tombstoned, is at what it was at.
LEMMA Others ==
  ASSUME TypeOK, NEW q \in Requests,
         \/ req'[q] = req[q]
         \/ req[q].pc \in {"resolve", "loaded"} /\ req'[q] = [req[q] EXCEPT !.raced = TRUE]
  PROVE  /\ req'[q].pc = req[q].pc
         /\ req[q].pc \in Keyed => req'[q].key = req[q].key
         /\ req[q].pc \notin {"resolve", "loaded"} => req'[q] = req[q]
         /\ req[q].pc = "loaded" => /\ req'[q].seen = req[q].seen
                                    /\ ~req'[q].raced => ~req[q].raced
<1>1. req[q] \in RequestStates
  BY DEF TypeOK
<1>2. CASE req'[q] = req[q]
  BY <1>2
<1>3. CASE req[q].pc \in {"resolve", "loaded"} /\ req'[q] = [req[q] EXCEPT !.raced = TRUE]
  BY <1>1, <1>3, RacedState
<1> QED BY <1>2, <1>3

\* One holder at a time: only a request that finds the lock free gets it.
LEMMA MutexStays ==
  ASSUME Mutex, NEW r \in Requests,
         req'[r].pc \in Holding => req[r].pc \in Holding \/ CustomerFree,
         \A q \in Requests \ {r} : req'[q].pc = req[q].pc
  PROVE  Mutex'
<1>1. \A q \in Requests : HoldsCustomer(q)' <=> req'[q].pc \in Holding
  BY DEF HoldsCustomer, Holding
<1>2. \A q \in Requests : HoldsCustomer(q) <=> req[q].pc \in Holding
  BY DEF HoldsCustomer, Holding
<1> QED BY <1>1, <1>2 DEF Mutex, CustomerFree

\* A step of r before its commit.
LEMMA QuietStep ==
  ASSUME KeysInv, NEW r \in Requests, NEW s \in RequestStates, NEW ks, Moves(r, s, ks),
         UNCHANGED <<row, over, lapsed, plan, events, used, told, auto>>,
         s.pc \notin {"resolve", "loaded"} \/ ks = {},
         req[r].pc # "owes" /\ s.pc # "owes",
         s.pc \in Holding => req[r].pc \in Holding \/ CustomerFree,
         Sound(s), Decided(s)
  PROVE  KeysInv'
<1> TypeOK
  BY DEF KeysInv
<1>1. /\ req' \in [Requests -> RequestStates]
      /\ cache' \in [Keys -> Resolved \cup {Missing}]
      /\ req'[r] = s
      /\ \A k \in Keys : cache'[k] \in {cache[k], Missing}
  BY Moved
<1>2. \A q \in Requests \ {r} :
          \/ req'[q] = req[q]
          \/ req[q].pc \in {"resolve", "loaded"} /\ req'[q] = [req[q] EXCEPT !.raced = TRUE]
  BY Moved
<1>3. \A q \in Requests \ {r} :
          /\ req'[q].pc = req[q].pc
          /\ req[q].pc \in Keyed => req'[q].key = req[q].key
          /\ req[q].pc \notin {"resolve", "loaded"} => req'[q] = req[q]
          /\ req[q].pc = "loaded" => /\ req'[q].seen = req[q].seen
                                     /\ ~req'[q].raced => ~req[q].raced
  BY <1>2, Others
<1>4. \A k : Owed(k)' <=> Owed(k)
  BY <1>1, <1>3 DEF Owed
<1>5. TypeOK'
  BY <1>1 DEF TypeOK
<1>6. OverInv' /\ ToldInv' /\ PaidInv'
  BY DEF KeysInv, OverInv, ToldInv, PaidInv
<1>7. SpareInv'
  BY <1>1 DEF KeysInv, SpareInv, Spare
<1>8. Mutex'
  BY <1>1, <1>3, MutexStays DEF KeysInv
<1>9. CacheHonest'
  BY <1>1, <1>4 DEF KeysInv, CacheHonest
<1>10. Sound(s)' /\ Decided(s)'
  <2>1. Sound(s)'
    BY <1>4 DEF Sound, Spare
  <2>2. Decided(s)'
    BY DEF Decided, Mints, Spare, FirstLogin
  <2> QED BY <2>1, <2>2
<1>11. ASSUME NEW q \in Requests \ {r} PROVE Sound(req[q])' /\ Decided(req[q])'
  <2>1. Sound(req[q]) /\ Decided(req[q])
    BY DEF KeysInv
  <2>2. Sound(req[q])'
    <3>1. req'[q].pc \in Keyed => ~Spare(req[q].key)'
      BY <1>3, <2>1 DEF Sound, Spare
    <3>2. req'[q].pc = "refund" => events' > 0
      BY <1>3, <2>1 DEF Sound
    <3>3. req'[q].pc = "loaded" /\ ~req'[q].raced =>
              Owed(req[q].key) \/ SameAnswer(req'[q].seen, row[req[q].key])
      BY <1>3, <2>1 DEF Sound
    <3>4. req'[q].pc = "loaded" => req'[q].key = req[q].key
      BY <1>3 DEF Keyed
    <3>5. req'[q].pc = "loaded" /\ ~req'[q].raced =>
              Owed(req[q].key)' \/ SameAnswer(req'[q].seen, row'[req'[q].key])
      BY <1>4, <3>3, <3>4 DEF Owed
    <3>6. req'[q].pc = "loaded" => req'[q].seen.status # "none"
      BY <1>3, <2>1 DEF Sound
    <3> QED BY <3>1, <3>2, <3>5, <3>6 DEF Sound, SameAnswer
  <2>3. Decided(req[q])'
    <3>1. CASE req[q].pc \in Holding
      <4>1. req'[q] = req[q]
        BY <1>3, <3>1 DEF Holding
      <4> QED BY <2>1, <4>1 DEF Decided, Mints, Spare, FirstLogin
    <3>2. CASE req[q].pc \notin Holding
      <4>1. req'[q].pc \notin Holding
        BY <1>3, <3>2
      <4> QED BY <4>1 DEF Decided, Mints, Holding
    <3> QED BY <3>1, <3>2
  <2> QED BY <2>2, <2>3
<1>12. \A q \in Requests : Sound(req[q])' /\ Decided(req[q])'
  BY <1>1, <1>10, <1>11 DEF Sound, Decided, Mints
<1> QED BY <1>5, <1>6, <1>7, <1>8, <1>9, <1>12 DEF KeysInv

\* The same, when nothing is invalidated.
LEMMA GotoStep ==
  ASSUME KeysInv, NEW r \in Requests, NEW s \in RequestStates, Goto(r, s),
         UNCHANGED <<row, over, lapsed, plan, events, used, told, auto>>,
         req[r].pc # "owes" /\ s.pc # "owes",
         s.pc \in Holding => req[r].pc \in Holding \/ CustomerFree,
         Sound(s), Decided(s)
  PROVE  KeysInv'
<1>1. Moves(r, s, {})
  BY GotoMoves DEF KeysInv
<1> QED BY <1>1, QuietStep

-----------------------------------------------------------------------------
(* The steps before a commit.                                              *)

\* A request that holds no lock and refers to no key.
LEMMA PlainStates ==
  ASSUME NEW s, s.pc \in {"idle", "create", "claimed"}
  PROVE  Sound(s) /\ Decided(s)
BY OnlyHoldersDecide DEF Sound, Keyed, Holding

\* One that looks at a key which is not a spare row.
LEMMA LookingStates ==
  ASSUME NEW s, s.pc \in {"look", "resolve", "revealing", "revoking"}, ~Spare(s.key)
  PROVE  Sound(s) /\ Decided(s)
BY DEF Sound, Decided, Mints

LEMMA GoingIdleInv ==
  ASSUME KeysInv, NEW r \in Requests, Goto(r, Idle), req[r].pc # "owes",
         UNCHANGED <<row, over, lapsed, plan, events, used, told, auto>>
  PROVE  KeysInv'
<1>1. Idle \in RequestStates /\ Idle.pc = "idle"
  BY RequestValues DEF Idle
<1> HIDE DEF Idle
<1> QED BY <1>1, PlainStates, GotoStep DEF Holding

LEMMA ResolveStartInv ==
  ASSUME KeysInv, NEW r \in Requests, NEW k \in Keys, ResolveStart(r, k)
  PROVE  KeysInv'
<1> DEFINE s == [pc |-> "resolve", key |-> k, raced |-> FALSE]
<1>1. /\ Goto(r, s) /\ UNCHANGED <<row, over, lapsed, plan, events, used, told, auto>>
      /\ req[r].pc = "idle" /\ ~Spare(k)
  BY DEF ResolveStart, Idle
<1>2. s \in RequestStates /\ s.pc = "resolve" /\ s.key = k
  BY RequestValues
<1> HIDE DEF s
<1> QED BY <1>1, <1>2, LookingStates, GotoStep DEF Holding

LEMMA ResolveReadInv ==
  ASSUME KeysInv, NEW r \in Requests, ResolveRead(r)
  PROVE  KeysInv'
<1> DEFINE s == [pc |-> "loaded", key |-> req[r].key, raced |-> req[r].raced,
                 seen |-> row[req[r].key]]
<1>1. /\ Goto(r, s) /\ UNCHANGED <<row, over, lapsed, plan, events, used, told, auto>>
      /\ req[r].pc = "resolve"
  BY DEF ResolveRead
<1>2. req[r].key \in Keys /\ req[r].raced \in BOOLEAN /\ ~Spare(req[r].key)
  BY <1>1, RequestKinds DEF KeysInv, TypeOK, Sound, Keyed
<1>3. s \in RequestStates
  BY <1>2, RequestValues DEF KeysInv, TypeOK
<1>4. s.pc = "loaded" /\ s.key = req[r].key /\ s.seen = row[s.key]
  OBVIOUS
<1> HIDE DEF s
<1>5. Sound(s)
  BY <1>2, <1>4 DEF Sound, SameAnswer, Spare
<1>6. Decided(s)
  BY <1>4, OnlyHoldersDecide DEF Holding
<1> QED BY <1>1, <1>3, <1>4, <1>5, <1>6, GotoStep DEF Holding

LEMMA LookInv ==
  ASSUME KeysInv, NEW r \in Requests, NEW k \in Keys, Look(r, k)
  PROVE  KeysInv'
<1> DEFINE s == [pc |-> "look", key |-> k]
<1>1. /\ Goto(r, s) /\ UNCHANGED <<row, over, lapsed, plan, events, used, told, auto>>
      /\ req[r].pc = "idle" /\ ~Spare(k)
  BY DEF Look, Idle, Awaits, Spare
<1>2. s \in RequestStates /\ s.pc = "look" /\ s.key = k
  BY RequestValues
<1> HIDE DEF s
<1> QED BY <1>1, <1>2, LookingStates, GotoStep DEF Holding

LEMMA RevealInv ==
  ASSUME KeysInv, NEW r \in Requests, NEW k \in Keys, Reveal(r, k)
  PROVE  KeysInv'
<1> DEFINE s == [pc |-> "revealing", key |-> k]
<1>1. /\ Goto(r, s) /\ UNCHANGED <<row, over, lapsed, plan, events, used, told, auto>>
      /\ req[r].pc = "idle" /\ row[k].sealed
  BY DEF Reveal, Idle
<1>2. s \in RequestStates /\ s.pc = "revealing" /\ s.key = k
  BY RequestValues
<1>3. ~Spare(k)
  BY <1>1 DEF KeysInv, SpareInv
<1> HIDE DEF s
<1> QED BY <1>1, <1>2, <1>3, LookingStates, GotoStep DEF Holding

LEMMA CreateReadInv ==
  ASSUME KeysInv, NEW r \in Requests, CreateRead(r)
  PROVE  KeysInv'
<1> DEFINE s == [pc |-> "create", plan |-> plan]
<1>1. /\ Goto(r, s) /\ UNCHANGED <<row, over, lapsed, plan, events, used, told, auto>>
      /\ req[r].pc = "idle"
  BY DEF CreateRead, Idle
<1>2. s \in RequestStates /\ s.pc = "create"
  BY RequestValues DEF KeysInv, TypeOK
<1> HIDE DEF s
<1> QED BY <1>1, <1>2, PlainStates, GotoStep DEF Holding

LEMMA CreateMintInv ==
  ASSUME KeysInv, NEW r \in Requests, CreateMint(r)
  PROVE  KeysInv'
<1>1. PICK k \in Keys : Spare(k) /\ Goto(r, [pc |-> "minting", new |-> k, plan |-> req[r].plan])
  BY DEF CreateMint
<1> DEFINE s == [pc |-> "minting", new |-> k, plan |-> req[r].plan]
<1>2. /\ Goto(r, s) /\ UNCHANGED <<row, over, lapsed, plan, events, used, told, auto>>
      /\ req[r].pc = "create" /\ CustomerFree
  BY <1>1 DEF CreateMint
<1>3. req[r].plan \in Plans
  BY <1>2, RequestKinds DEF KeysInv, TypeOK
<1>4. s \in RequestStates /\ s.pc = "minting" /\ s.new = k
  BY <1>3, RequestValues
<1> HIDE DEF s
<1>5. Sound(s) /\ Decided(s)
  BY <1>1, <1>4 DEF Sound, Decided, Keyed
<1> QED BY <1>2, <1>4, <1>5, GotoStep

LEMMA RotateReadInv ==
  ASSUME KeysInv, NEW r \in Requests, NEW k \in Keys, RotateRead(r, k)
  PROVE  KeysInv'
<1> DEFINE s == [pc |-> "rotate", key |-> k, plan |-> row[k].plan]
<1>1. /\ Goto(r, s) /\ UNCHANGED <<row, over, lapsed, plan, events, used, told, auto>>
      /\ req[r].pc = "idle" /\ CustomerFree /\ Active(k)
  BY DEF RotateRead, Idle
<1>2. row[k].plan \in Plans
  BY DEF KeysInv, TypeOK, Rows
<1>3. s \in RequestStates /\ s.pc = "rotate" /\ s.key = k
  BY <1>2, RequestValues
<1> HIDE DEF s
<1>4. Sound(s)
  BY <1>1, <1>3 DEF Sound, Active, Spare
<1>5. Decided(s)
  BY <1>1, <1>3 DEF Decided, Mints, Active, KeysInv, OverInv
<1> QED BY <1>1, <1>3, <1>4, <1>5, GotoStep

LEMMA RotateFlushInv ==
  ASSUME KeysInv, NEW r \in Requests, RotateFlush(r)
  PROVE  KeysInv'
<1>1. PICK n \in Keys :
          /\ Spare(n)
          /\ Invalidate(r, [pc |-> "rotating", key |-> req[r].key, new |-> n,
                            plan |-> req[r].plan], {req[r].key})
  BY DEF RotateFlush
<1> DEFINE s == [pc |-> "rotating", key |-> req[r].key, new |-> n, plan |-> req[r].plan]
<1>2. /\ Moves(r, s, {req[r].key})
      /\ UNCHANGED <<row, over, lapsed, plan, events, used, told, auto>>
      /\ req[r].pc = "rotate"
  BY <1>1, InvalidateMoves DEF RotateFlush
<1>3. req[r].key \in Keys /\ req[r].plan \in Plans
  BY <1>2, RequestKinds DEF KeysInv, TypeOK, Keyed
<1>4. s \in RequestStates /\ s.pc = "rotating" /\ s.new = n /\ s.key = req[r].key
  BY <1>3, RequestValues
<1>5. Sound(req[r]) /\ Decided(req[r])
  BY DEF KeysInv
<1> HIDE DEF s
<1>6. Sound(s) /\ Decided(s)
  BY <1>1, <1>2, <1>4, <1>5 DEF Sound, Decided, Keyed
<1> QED BY <1>2, <1>4, <1>6, QuietStep DEF Holding

LEMMA RevokeFlushInv ==
  ASSUME KeysInv, NEW r \in Requests, NEW k \in Keys, RevokeFlush(r, k)
  PROVE  KeysInv'
<1> DEFINE s == [pc |-> "revoking", key |-> k]
<1>1. /\ Moves(r, s, {k}) /\ UNCHANGED <<row, over, lapsed, plan, events, used, told, auto>>
      /\ req[r].pc = "idle" /\ CustomerFree /\ ~Spare(k)
  BY InvalidateMoves DEF RevokeFlush, Idle
<1>2. s \in RequestStates /\ s.pc = "revoking" /\ s.key = k
  BY RequestValues
<1> HIDE DEF s
<1> QED BY <1>1, <1>2, LookingStates, QuietStep

LEMMA ClaimTokenInv ==
  ASSUME KeysInv, NEW r \in Requests, NEW t \in Tokens, ClaimToken(r, t)
  PROVE  KeysInv'
<1> DEFINE s == [pc |-> "claimed", token |-> t]
<1>1. /\ Goto(r, s) /\ UNCHANGED <<row, over, lapsed, plan, events, used, told, auto>>
      /\ req[r].pc = "idle"
  BY DEF ClaimToken, Idle
<1>2. s \in RequestStates /\ s.pc = "claimed"
  BY RequestValues
<1> HIDE DEF s
<1> QED BY <1>1, <1>2, PlainStates, GotoStep DEF Holding

LEMMA LoginMintInv ==
  ASSUME KeysInv, NEW r \in Requests, LoginMint(r)
  PROVE  KeysInv'
<1>1. PICK new \in Keys \cup {NoKey} :
          /\ new # NoKey => FirstLogin
          /\ Goto(r, [pc |-> "login", token |-> req[r].token, new |-> new])
  BY DEF LoginMint
<1> DEFINE s == [pc |-> "login", token |-> req[r].token, new |-> new]
<1>2. /\ Goto(r, s) /\ UNCHANGED <<row, over, lapsed, plan, events, used, told, auto>>
      /\ req[r].pc = "claimed" /\ CustomerFree
  BY <1>1 DEF LoginMint
<1>3. req[r].token \in Tokens
  BY <1>2, RequestKinds DEF KeysInv, TypeOK
<1>4. s \in RequestStates /\ s.pc = "login" /\ s.new = new
  BY <1>3, RequestValues
<1> HIDE DEF s
<1>5. Sound(s) /\ Decided(s)
  BY <1>1, <1>4 DEF Sound, Decided, Mints, Keyed, FirstLogin
<1> QED BY <1>2, <1>4, <1>5, GotoStep

LEMMA SubscriptionEventInv ==
  ASSUME KeysInv, NEW r \in Requests, NEW p \in Plans, SubscriptionEvent(r, p)
  PROVE  KeysInv'
<1>1. PICK new \in Keys \cup {NoKey} :
          /\ new # NoKey => Spare(new)
          /\ Invalidate(r, [pc |-> "billing", keys |-> OtherPlan(p), new |-> new, plan |-> p],
                        OtherPlan(p))
  BY DEF SubscriptionEvent
<1> DEFINE s == [pc |-> "billing", keys |-> OtherPlan(p), new |-> new, plan |-> p]
<1>2. /\ Moves(r, s, OtherPlan(p))
      /\ UNCHANGED <<row, over, lapsed, plan, events, used, told, auto>>
      /\ req[r].pc = "idle" /\ CustomerFree
  BY <1>1, InvalidateMoves DEF SubscriptionEvent, Idle
<1>3. OtherPlan(p) \in SUBSET Keys
  BY DEF OtherPlan
<1>4. s \in RequestStates /\ s.pc = "billing" /\ s.new = new
  BY <1>3, RequestValues
<1> HIDE DEF s
<1>5. Sound(s) /\ Decided(s)
  BY <1>1, <1>4 DEF Sound, Decided, Mints, Keyed
<1> QED BY <1>2, <1>4, <1>5, QuietStep

LEMMA RefundReadInv ==
  ASSUME KeysInv, NEW r \in Requests, RefundRead(r)
  PROVE  KeysInv'
<1> DEFINE ks == OtherPlan("developer")
<1> DEFINE s == [pc |-> "refund", keys |-> ks]
<1>1. /\ Moves(r, s, ks) /\ UNCHANGED <<row, over, lapsed, plan, events, used, told, auto>>
      /\ req[r].pc = "idle" /\ plan = "paid"
  BY InvalidateMoves DEF RefundRead, Idle
<1>2. ks \in SUBSET Keys
  BY DEF OtherPlan
<1>3. s \in RequestStates /\ s.pc = "refund"
  BY <1>2, RequestValues
<1>4. events > 0
  BY <1>1 DEF KeysInv, PaidInv
<1> HIDE DEF s
<1>5. Sound(s) /\ Decided(s)
  BY <1>3, <1>4 DEF Sound, Decided, Mints, Keyed
<1> QED BY <1>1, <1>3, <1>5, QuietStep DEF Holding

-----------------------------------------------------------------------------
(* The cache and the world.                                                *)

LEMMA OwedStays ==
  ASSUME UNCHANGED req
  PROVE  \A k : Owed(k)' <=> Owed(k)
BY DEF Owed

\* An answer is dropped, a window ends.
LEMMA WorldStep ==
  ASSUME KeysInv, UNCHANGED <<row, plan, events, used, told, auto, req>>,
         cache' \in [Keys -> Resolved \cup {Missing}],
         \A k \in Keys : cache'[k] \in {cache[k], Missing},
         over' \in SUBSET Keys, lapsed' \in SUBSET Keys,
         \A k \in over' : k \in over \/ row[k].status = "rotating"
  PROVE  KeysInv'
<1>1. TypeOK' /\ OverInv' /\ ToldInv' /\ PaidInv' /\ Mutex'
  BY DEF KeysInv, TypeOK, OverInv, ToldInv, PaidInv, Mutex, HoldsCustomer
<1>2. SpareInv'
  BY DEF KeysInv, SpareInv, Spare
<1>3. CacheHonest'
  BY OwedStays DEF KeysInv, CacheHonest
<1>4. ASSUME NEW q \in Requests PROVE Sound(req[q])' /\ Decided(req[q])'
  <2>1. Sound(req[q]) /\ Decided(req[q])
    BY <1>4 DEF KeysInv
  <2>2. Sound(req[q])'
    BY <2>1 DEF Sound, Spare, Owed
  <2>3. Decided(req[q])'
    BY <2>1 DEF Decided, Mints, Spare, FirstLogin
  <2> QED BY <2>2, <2>3
<1> QED BY <1>1, <1>2, <1>3, <1>4 DEF KeysInv

LEMMA WorldInv ==
  ASSUME KeysInv,
         (\E k \in Keys : CacheDrop(k) \/ OverlapEnds(k) \/ RevealLapses(k)) \/ UNCHANGED vars
  PROVE  KeysInv'
<1> TypeOK
  BY DEF KeysInv
<1>1. ASSUME NEW k \in Keys, CacheDrop(k) PROVE KeysInv'
  <2>1. /\ cache' \in [Keys -> Resolved \cup {Missing}]
        /\ \A j \in Keys : cache'[j] \in {cache[j], Missing}
    BY <1>1 DEF CacheDrop, Dropped, TypeOK
  <2> QED BY <1>1, <2>1, WorldStep DEF CacheDrop, TypeOK
<1>2. ASSUME NEW k \in Keys, OverlapEnds(k) PROVE KeysInv'
  BY <1>2, WorldStep DEF OverlapEnds, TypeOK
<1>3. ASSUME NEW k \in Keys, RevealLapses(k) PROVE KeysInv'
  BY <1>3, WorldStep DEF RevealLapses, TypeOK
<1>4. CASE UNCHANGED vars
  BY <1>4, WorldStep DEF vars, TypeOK
<1> QED BY <1>1, <1>2, <1>3, <1>4

\* What is kept is the row's answer, or somebody owes its invalidation.
LEMMA ResolveStoreInv ==
  ASSUME KeysInv, NEW r \in Requests, ResolveStore(r)
  PROVE  KeysInv'
<1> DEFINE key == req[r].key
<1>1. /\ UNCHANGED <<row, over, lapsed, plan, events, used, told, auto>>
      /\ req' = [req EXCEPT ![r] = Idle] /\ req[r].pc = "loaded"
      /\ cache' = IF req[r].raced THEN cache
                  ELSE [cache EXCEPT ![key] =
                            [status |-> req[r].seen.status, plan |-> req[r].seen.plan]]
  BY DEF ResolveStore
<1>2. /\ req[r].key \in Keys /\ req[r].raced \in BOOLEAN /\ req[r].seen \in Rows
      /\ ~Spare(req[r].key)
      /\ ~req[r].raced => Owed(key) \/ SameAnswer(req[r].seen, row[key])
  BY <1>1, RequestKinds DEF KeysInv, TypeOK, Sound, Keyed
<1>3. /\ req' \in [Requests -> RequestStates]
      /\ req'[r] = Idle
      /\ \A q \in Requests \ {r} : req'[q] = req[q]
  BY <1>1, RequestValues DEF KeysInv, TypeOK
<1>4. \A k : Owed(k)' <=> Owed(k)
  BY <1>1, <1>3 DEF Owed, Idle
<1>5. cache' \in [Keys -> Resolved \cup {Missing}] /\ SpareInv' /\ CacheHonest'
  <2> DEFINE answer == [status |-> req[r].seen.status, plan |-> req[r].seen.plan]
  <2>1. CASE req[r].raced
    BY <1>1, <1>4, <2>1 DEF KeysInv, TypeOK, SpareInv, Spare, CacheHonest
  <2>2. CASE ~req[r].raced /\ ~Spare(key)
    <3>1. cache' = [cache EXCEPT ![key] = answer] /\ key \in Keys
      BY <1>1, <1>2, <2>2
    <3>2. cache'[key] = answer /\ \A k \in Keys \ {key} : cache'[k] = cache[k]
      BY <3>1 DEF KeysInv, TypeOK
    <3>3. SpareInv'
      <4> SUFFICES ASSUME NEW k \in Keys, Spare(k)
                   PROVE  cache'[k] = Missing /\ told[k] = 0 /\ ~row[k].sealed
        BY <1>1 DEF SpareInv, Spare
      <4>1. k # key
        BY <2>2
      <4> HIDE DEF key, answer
      <4> QED BY <3>2, <4>1 DEF KeysInv, SpareInv
    <3>4. CacheHonest'
      <4> SUFFICES ASSUME NEW k \in Keys, cache'[k] # Missing, ~Owed(k)
                   PROVE  cache'[k] = [status |-> row[k].status, plan |-> row[k].plan]
        BY <1>1, <1>4 DEF CacheHonest
      <4>1. CASE k = key
        BY <1>2, <2>2, <3>2, <4>1 DEF SameAnswer
      <4>2. CASE k # key
        BY <3>2, <4>2 DEF KeysInv, CacheHonest
      <4> QED BY <4>1, <4>2
    <3>5. cache' \in [Keys -> Resolved \cup {Missing}]
      <4>1. answer \in Resolved
        <5>1. ASSUME NEW a \in Rows, a.status # "none"
              PROVE  [status |-> a.status, plan |-> a.plan] \in Resolved
          BY <5>1 DEF Rows, Resolved
        <5>2. req[r].seen.status # "none"
          BY <1>1 DEF KeysInv, Sound
        <5> QED BY <1>2, <5>1, <5>2
      <4> QED BY <3>1, <4>1 DEF KeysInv, TypeOK
    <3> QED BY <3>3, <3>4, <3>5
  <2> QED BY <1>2, <2>1, <2>2
<1>6. TypeOK' /\ OverInv' /\ ToldInv' /\ PaidInv'
  BY <1>1, <1>3, <1>5 DEF KeysInv, TypeOK, OverInv, ToldInv, PaidInv
<1>7. Mutex'
  <2>1. req'[r].pc \notin Holding
    BY <1>3 DEF Holding, Idle
  <2> QED BY <1>3, <2>1, MutexStays DEF KeysInv
<1>8. ASSUME NEW q \in Requests PROVE Sound(req[q])' /\ Decided(req[q])'
  <2>1. CASE q = r
    BY <1>3, <2>1 DEF Sound, Decided, Mints, Keyed, Idle
  <2>2. CASE q # r
    <3>1. req'[q] = req[q] /\ Sound(req[q]) /\ Decided(req[q])
      BY <1>3, <1>8, <2>2 DEF KeysInv
    <3>2. Sound(req[q])'
      BY <1>1, <1>4, <3>1 DEF Sound, Spare
    <3>3. Decided(req[q])'
      BY <1>1, <3>1 DEF Decided, Mints, Spare, FirstLogin
    <3> QED BY <3>2, <3>3
  <2> QED BY <2>1, <2>2
<1> QED BY <1>5, <1>6, <1>7, <1>8 DEF KeysInv

\* Whoever read one of the keys is tombstoned as the debt is paid.
LEMMA AfterCommitInv ==
  ASSUME KeysInv, NEW r \in Requests, AfterCommit(r)
  PROVE  KeysInv'
<1> DEFINE ks == req[r].keys
<1> TypeOK
  BY DEF KeysInv
<1>1. /\ Moves(r, Idle, ks) /\ UNCHANGED <<row, over, lapsed, plan, events, used, told, auto>>
      /\ req[r].pc = "owes" /\ Idle \in RequestStates /\ Idle.pc = "idle"
  BY InvalidateMoves, RequestValues DEF AfterCommit, Idle
<1>2. /\ req' \in [Requests -> RequestStates]
      /\ cache' \in [Keys -> Resolved \cup {Missing}]
      /\ req'[r] = Idle
      /\ \A k \in Keys : cache'[k] = IF k \in ks THEN Missing ELSE cache[k]
      /\ \A q \in Requests \ {r} :
            req[q].pc \in {"resolve", "loaded"} /\ req[q].key \in ks => req'[q].raced
  <2> HIDE DEF Idle
  <2> QED BY <1>1, Moved
<1>3. \A q \in Requests \ {r} :
          \/ req'[q] = req[q]
          \/ req[q].pc \in {"resolve", "loaded"} /\ req'[q] = [req[q] EXCEPT !.raced = TRUE]
  <2> HIDE DEF Idle
  <2> QED BY <1>1, Moved
<1>4. \A q \in Requests \ {r} :
          /\ req'[q].pc = req[q].pc
          /\ req[q].pc \in Keyed => req'[q].key = req[q].key
          /\ req[q].pc \notin {"resolve", "loaded"} => req'[q] = req[q]
          /\ req[q].pc = "loaded" => /\ req'[q].seen = req[q].seen
                                     /\ ~req'[q].raced => ~req[q].raced
  BY <1>3, Others
<1>5. \A k : Owed(k) => k \in ks \/ Owed(k)'
  BY <1>4 DEF Owed
<1>6. TypeOK' /\ OverInv' /\ ToldInv' /\ PaidInv'
  BY <1>1, <1>2 DEF KeysInv, TypeOK, OverInv, ToldInv, PaidInv
<1>7. SpareInv'
  BY <1>1, <1>2 DEF KeysInv, SpareInv, Spare
<1>8. Mutex'
  <2>1. req'[r].pc \notin Holding
    BY <1>1, <1>2 DEF Holding
  <2> QED BY <1>4, <2>1, MutexStays DEF KeysInv
<1>9. CacheHonest'
  BY <1>1, <1>2, <1>5 DEF KeysInv, CacheHonest
<1>10. ASSUME NEW q \in Requests PROVE Sound(req[q])' /\ Decided(req[q])'
  <2>1. CASE q = r
    BY <1>2, <2>1 DEF Sound, Decided, Mints, Keyed, Idle
  <2>2. CASE q # r
    <3>1. Sound(req[q]) /\ Decided(req[q])
      BY <1>10 DEF KeysInv
    <3>2. req'[q].pc = req[q].pc /\ (req[q].pc \in Keyed => req'[q].key = req[q].key)
      BY <1>4, <2>2
    <3>3. req'[q].pc \in Keyed => row'[req'[q].key].status # "none"
      BY <1>1, <3>1, <3>2 DEF Sound, Spare
    <3>4. req'[q].pc = "refund" => events' > 0
      BY <1>1, <3>1, <3>2 DEF Sound
    <3>5. ASSUME req'[q].pc = "loaded"
          PROVE  /\ req'[q].seen.status # "none"
                 /\ ~req'[q].raced => \/ Owed(req[q].key)'
                                      \/ SameAnswer(req'[q].seen, row'[req'[q].key])
      <4>1. /\ req[q].pc = "loaded" /\ req'[q].key = req[q].key /\ req'[q].seen = req[q].seen
            /\ ~req'[q].raced => ~req[q].raced /\ req[q].key \notin ks
        BY <1>2, <1>4, <2>2, <3>2, <3>5 DEF Keyed
      <4>2. PICK k : k = req[q].key
        OBVIOUS
      <4>3. Owed(k) => k \in ks \/ Owed(k)'
        BY <1>5
      <4>4. ~req'[q].raced => Owed(k)' \/ SameAnswer(req'[q].seen, row'[req'[q].key])
        BY <1>1, <3>1, <4>1, <4>2, <4>3 DEF Sound
      <4> QED BY <3>1, <4>1, <4>2, <4>4 DEF Sound, Owed
    <3>6. Sound(req[q])'
      BY <3>3, <3>4, <3>5 DEF Sound, Spare, SameAnswer
    <3>7. Decided(req[q])'
      <4>1. CASE req[q].pc \in Holding
        <5>1. req'[q] = req[q]
          BY <1>4, <2>2, <4>1 DEF Holding
        <5> QED BY <1>1, <3>1, <5>1 DEF Decided, Mints, Spare, FirstLogin
      <4>2. CASE req[q].pc \notin Holding
        BY <3>2, <4>2 DEF Decided, Mints, Holding
      <4> QED BY <4>1, <4>2
    <3> QED BY <3>6, <3>7
  <2> QED BY <2>1, <2>2
<1> QED BY <1>6, <1>7, <1>8, <1>9, <1>10 DEF KeysInv

LEMMA RestartInv ==
  ASSUME KeysInv, Restart
  PROVE  KeysInv'
<1>1. /\ UNCHANGED <<row, over, lapsed, plan, events, used, told, auto>>
      /\ req' = [r \in Requests |-> Idle] /\ cache' = [k \in Keys |-> Missing]
  BY DEF Restart
<1>2. TypeOK' /\ OverInv' /\ ToldInv' /\ PaidInv'
  BY <1>1, RequestValues DEF KeysInv, TypeOK, OverInv, ToldInv, PaidInv
<1>3. SpareInv' /\ CacheHonest' /\ Mutex'
  BY <1>1 DEF KeysInv, SpareInv, Spare, CacheHonest, Mutex, HoldsCustomer, Idle
<1>4. \A q \in Requests : Sound(req[q])' /\ Decided(req[q])'
  BY <1>1 DEF Sound, Decided, Mints, Keyed, Idle
<1> QED BY <1>2, <1>3, <1>4 DEF KeysInv

-----------------------------------------------------------------------------
(* The commits.                                                            *)

\* r commits: an answer changes only for a row that was spare, or with a debt.
LEMMA CommitStep ==
  ASSUME KeysInv, NEW r \in Requests, NEW s \in RequestStates, Goto(r, s),
         s.pc \in {"idle", "owes"}, req[r].pc # "owes",
         TypeOK', OverInv', ToldInv', PaidInv', events <= events',
         \A k \in Keys : Spare(k)' => Spare(k) /\ told'[k] = told[k]
                                               /\ row'[k].sealed = row[k].sealed,
         \A k \in Keys : \/ SameAnswer(row'[k], row[k]) \/ Spare(k)
                         \/ s.pc = "owes" /\ k \in s.keys,
         \A q \in Requests \ {r} : Decided(req[q])'
  PROVE  KeysInv'
<1>1. /\ req' = [req EXCEPT ![r] = s] /\ cache' = cache
      /\ req'[r] = s /\ \A q \in Requests \ {r} : req'[q] = req[q]
  BY DEF Goto, KeysInv, TypeOK
<1>2. \A k : Owed(k) => Owed(k)'
  BY <1>1 DEF Owed
<1>3. \A k \in Keys : s.pc = "owes" /\ k \in s.keys => Owed(k)'
  BY <1>1 DEF Owed
<1>4. SpareInv'
  BY <1>1 DEF KeysInv, SpareInv
<1>5. Mutex'
  <2>1. req'[r].pc \notin Holding
    BY <1>1 DEF Holding
  <2> QED BY <1>1, <2>1, MutexStays DEF KeysInv
<1>6. CacheHonest'
  <2> SUFFICES ASSUME NEW k \in Keys, cache[k] # Missing, ~Owed(k)'
               PROVE  cache[k] = [status |-> row'[k].status, plan |-> row'[k].plan]
    BY <1>1 DEF CacheHonest
  <2>1. cache[k] = [status |-> row[k].status, plan |-> row[k].plan] /\ ~Spare(k)
    BY <1>2 DEF KeysInv, CacheHonest, SpareInv
  <2>2. SameAnswer(row'[k], row[k])
    BY <1>3, <2>1
  <2> QED BY <2>1, <2>2 DEF SameAnswer
<1>7. ASSUME NEW q \in Requests \ {r} PROVE Sound(req[q])'
  <2>1. Sound(req[q]) /\ req'[q] = req[q] /\ req[q] \in RequestStates
    BY <1>1 DEF KeysInv, TypeOK
  <2>2. req[q].pc \in Keyed =>
            /\ row'[req[q].key].status # "none"
            /\ \/ SameAnswer(row'[req[q].key], row[req[q].key])
               \/ s.pc = "owes" /\ req[q].key \in s.keys
    BY <2>1, RequestKinds DEF Sound, Spare
  <2>3. req[q].pc = "refund" => events' > 0
    <3>1. events \in Int /\ events' \in Int
      BY DEF KeysInv, TypeOK
    <3> QED BY <2>1, <3>1 DEF Sound
  <2>4. req[q].pc = "loaded" /\ ~req[q].raced =>
            Owed(req[q].key)' \/ SameAnswer(req[q].seen, row'[req[q].key])
    <3> SUFFICES ASSUME req[q].pc = "loaded", ~req[q].raced
                 PROVE  Owed(req[q].key)' \/ SameAnswer(req[q].seen, row'[req[q].key])
      OBVIOUS
    <3>1. PICK k \in Keys : k = req[q].key
      BY <2>1, RequestKinds DEF Keyed
    <3>2. Owed(k)' \/ SameAnswer(req[q].seen, row'[k])
      BY <1>2, <1>3, <2>1, <2>2, <3>1 DEF Sound, SameAnswer, Keyed
    <3> QED BY <2>1, <3>1, <3>2 DEF Owed
  <2> QED BY <2>1, <2>2, <2>3, <2>4 DEF Sound, Spare, SameAnswer
<1>8. Sound(req[r])' /\ Decided(req[r])'
  BY <1>1 DEF Sound, Decided, Mints, Keyed
<1>9. \A q \in Requests : Sound(req[q])' /\ Decided(req[q])'
  BY <1>7, <1>8
<1> QED BY <1>4, <1>5, <1>6, <1>9 DEF KeysInv

\* Beside the holder of the lock nobody has decided anything.
LEMMA HolderAlone ==
  ASSUME KeysInv, NEW r \in Requests, NEW s, Goto(r, s), req[r].pc \in Holding
  PROVE  \A q \in Requests \ {r} : Decided(req[q])'
<1> SUFFICES ASSUME NEW q \in Requests \ {r} PROVE Decided(req[q])'
  OBVIOUS
<1>1. req[q].pc \notin Holding
  BY HoldersHold DEF KeysInv, Mutex
<1>2. req'[q] = req[q]
  BY DEF Goto, KeysInv, TypeOK
<1> QED BY <1>1, <1>2 DEF Decided, Mints, Holding

\* What the holder decided on survives a write without the lock: that one
\* inserts no row, revokes at most, and comes after an event if it is one.
LEMMA DecisionsStand ==
  ASSUME KeysInv, NEW r \in Requests, NEW s, Goto(r, s), over' = over,
         \A k \in Keys : Spare(k) => Spare(k)',
         \A k \in Keys : row'[k].status \in {row[k].status, "revoked"},
         events' = events \/ events > 0
  PROVE  \A q \in Requests \ {r} : Decided(req[q])'
<1> SUFFICES ASSUME NEW q \in Requests \ {r} PROVE Decided(req[q])'
  OBVIOUS
<1>1. req'[q] = req[q] /\ Decided(req[q]) /\ req[q] \in RequestStates
  BY DEF Goto, KeysInv, TypeOK
<1>2. Mints(req[q]) => req[q].new \in Keys
  BY <1>1, RequestKinds DEF Mints
<1>3. Mints(req[q]) => row'[req[q].new].status = "none"
  BY <1>1, <1>2 DEF Decided, Spare
<1>4. req[q].pc \in {"rotate", "rotating"} =>
          row'[req[q].key].status \in {"active", "revoked"} /\ req[q].key \notin over'
  BY <1>1, RequestKinds DEF Decided, Keyed
<1>5. req[q].pc = "login" /\ req[q].new # NoKey => FirstLogin'
  <2>1. FirstLogin => events = 0
    BY DEF FirstLogin
  <2>2. FirstLogin => FirstLogin'
    BY <2>1 DEF FirstLogin
  <2> QED BY <1>1, <2>2 DEF Decided
<1> QED BY <1>1, <1>3, <1>4, <1>5 DEF Decided, Mints, Spare

LEMMA GotoTypes ==
  ASSUME TypeOK, NEW r \in Requests, NEW s \in RequestStates, Goto(r, s)
  PROVE  req' \in [Requests -> RequestStates] /\ cache' = cache
BY DEF Goto, TypeOK

LEMMA NewRowIsRow ==
  ASSUME NEW p \in Plans, NEW b \in BOOLEAN
  PROVE  /\ NewRow(p, b) \in Rows
         /\ NewRow(p, b).status = "active" /\ NewRow(p, b).sealed = b
BY DEF NewRow, Rows

LEMMA ExpiredRow ==
  ASSUME TypeOK, NEW k \in Keys, Expired(k)
  PROVE  /\ row' \in [Keys -> Rows]
         /\ row'[k].status = "revoked" /\ ~row'[k].sealed
         /\ \A j \in Keys \ {k} : row'[j] = row[j]
<1> DEFINE new == [row[k] EXCEPT !.status = "revoked", !.sealed = FALSE]
<1>1. row[k] \in Rows
  BY DEF TypeOK
<1>2. new \in Rows /\ new.status = "revoked" /\ ~new.sealed
  BY <1>1 DEF Rows
<1>3. row' = [row EXCEPT ![k] = new]
  BY DEF Expired, TypeOK
<1> HIDE DEF new
<1> QED BY <1>2, <1>3 DEF TypeOK

\* A live key is revoked because its window ended, with or without the lock.
LEMMA ExpireStep ==
  ASSUME KeysInv, NEW r \in Requests, NEW k \in Keys, ~Spare(k), Expired(k),
         Goto(r, [pc |-> "owes", keys |-> {k}]), req[r].pc # "owes",
         UNCHANGED <<over, lapsed, plan, events, used, told, auto>>
  PROVE  KeysInv'
<1> DEFINE s == [pc |-> "owes", keys |-> {k}]
<1> TypeOK
  BY DEF KeysInv
<1>1. s \in RequestStates /\ s.pc = "owes" /\ s.keys = {k} /\ Goto(r, s)
  BY RequestValues
<1> HIDE DEF s
<1>2. /\ row' \in [Keys -> Rows] /\ row'[k].status = "revoked" /\ ~row'[k].sealed
      /\ \A j \in Keys \ {k} : row'[j] = row[j]
  BY ExpiredRow
<1>3. TypeOK'
  BY <1>1, <1>2, GotoTypes DEF TypeOK
<1>4. OverInv' /\ ToldInv' /\ PaidInv'
  BY <1>2 DEF KeysInv, TypeOK, OverInv, ToldInv, PaidInv
<1>5. \A j \in Keys : Spare(j) <=> Spare(j)'
  BY <1>2 DEF Spare
<1>6. \A q \in Requests \ {r} : Decided(req[q])'
  <2>1. \A j \in Keys : row'[j].status \in {row[j].status, "revoked"}
    BY <1>2
  <2> QED BY <1>1, <1>5, <2>1, DecisionsStand
<1>7. \A j \in Keys : \/ SameAnswer(row'[j], row[j]) \/ Spare(j)
                      \/ s.pc = "owes" /\ j \in s.keys
  BY <1>1, <1>2 DEF SameAnswer
<1>8. \A j \in Keys : Spare(j)' => Spare(j) /\ told'[j] = told[j] /\ row'[j].sealed = row[j].sealed
  BY <1>2, <1>5 DEF Spare
<1>9. events <= events'
  BY DEF TypeOK
<1> QED BY <1>1, <1>3, <1>4, <1>6, <1>7, <1>8, <1>9, CommitStep

LEMMA ExpireStaleRevealInv ==
  ASSUME KeysInv, NEW r \in Requests, ExpireStaleReveal(r)
  PROVE  KeysInv'
<1>1. /\ req[r].pc \in {"look", "loaded"} /\ Expired(req[r].key)
      /\ Goto(r, [pc |-> "owes", keys |-> {req[r].key}])
      /\ UNCHANGED <<over, lapsed, plan, events, used, told, auto>>
  BY DEF ExpireStaleReveal
<1>2. PICK k \in Keys : k = req[r].key /\ ~Spare(k)
  BY <1>1, RequestKinds DEF KeysInv, TypeOK, Sound, Keyed
<1> QED BY <1>1, <1>2, ExpireStep

LEMMA RevealLateInv ==
  ASSUME KeysInv, NEW r \in Requests, NEW k \in Keys, RevealLate(r, k)
  PROVE  KeysInv'
<1>1. ~Spare(k) /\ req[r].pc = "idle"
  BY DEF RevealLate, Awaits, Spare, Idle
<1> QED BY <1>1, ExpireStep DEF RevealLate

LEMMA RevealCommitInv ==
  ASSUME KeysInv, NEW r \in Requests, RevealCommit(r)
  PROVE  KeysInv'
<1> TypeOK
  BY DEF KeysInv
<1>1. PICK k \in Keys : k = req[r].key /\ ~Spare(k)
  BY RequestKinds DEF RevealCommit, KeysInv, TypeOK, Sound, Keyed
<1>2. /\ row' = [row EXCEPT ![k].sealed = FALSE]
      /\ told' = [told EXCEPT ![k] = IF row[k].sealed THEN @ + 1 ELSE @]
      /\ Goto(r, Idle) /\ req[r].pc # "owes" /\ Idle.pc = "idle"
      /\ UNCHANGED <<over, lapsed, plan, events, used, auto>>
  BY <1>1 DEF RevealCommit, Idle
<1>3. /\ row' \in [Keys -> Rows]
      /\ row'[k].status = row[k].status /\ row'[k].plan = row[k].plan /\ ~row'[k].sealed
      /\ \A j \in Keys \ {k} : row'[j] = row[j]
  <2>1. row[k] \in Rows
    BY DEF TypeOK
  <2> DEFINE new == [row[k] EXCEPT !.sealed = FALSE]
  <2>2. new \in Rows /\ new.status = row[k].status /\ new.plan = row[k].plan /\ ~new.sealed
    BY <2>1 DEF Rows
  <2>3. row' = [row EXCEPT ![k] = new]
    BY <1>2 DEF TypeOK
  <2> HIDE DEF new
  <2> QED BY <2>2, <2>3 DEF TypeOK
<1>4. /\ told' \in [Keys -> Nat]
      /\ told'[k] = IF row[k].sealed THEN told[k] + 1 ELSE told[k]
      /\ \A j \in Keys \ {k} : told'[j] = told[j]
  BY <1>2 DEF TypeOK
<1>5. TypeOK'
  BY <1>2, <1>3, <1>4, RequestValues, GotoTypes DEF TypeOK
<1>6. OverInv' /\ PaidInv'
  BY <1>2, <1>3 DEF KeysInv, TypeOK, OverInv, PaidInv
<1>7. ToldInv'
  <2> SUFFICES ASSUME NEW j \in Keys
               PROVE  told'[j] <= 1 /\ (row'[j].sealed => told'[j] = 0)
    BY DEF ToldInv
  <2>1. told[j] \in Nat /\ told[j] <= 1 /\ (row[j].sealed => told[j] = 0)
    BY DEF KeysInv, ToldInv, TypeOK
  <2>2. CASE j = k
    BY <1>3, <1>4, <2>1, <2>2
  <2>3. CASE j # k
    BY <1>3, <1>4, <2>1, <2>3
  <2> QED BY <2>2, <2>3
<1>8. \A j \in Keys : /\ row'[j].status = row[j].status /\ (Spare(j) <=> Spare(j)')
                      /\ SameAnswer(row'[j], row[j])
  BY <1>3 DEF Spare, SameAnswer
<1>9. \A q \in Requests \ {r} : Decided(req[q])'
  <2> HIDE DEF Idle
  <2> QED BY <1>2, <1>8, DecisionsStand
<1>10. \A j \in Keys : Spare(j)' => Spare(j) /\ told'[j] = told[j] /\ row'[j].sealed = row[j].sealed
  BY <1>1, <1>3, <1>4, <1>8
<1>11. events <= events' /\ Idle \in RequestStates
  BY <1>2, RequestValues DEF TypeOK
<1> HIDE DEF Idle
<1> QED BY <1>2, <1>5, <1>6, <1>7, <1>8, <1>9, <1>10, <1>11, CommitStep

\* The holder inserts one row and tells its plaintext.
LEMMA InsertStep ==
  ASSUME KeysInv, NEW r \in Requests, NEW n \in Keys, Spare(n), NEW p \in Plans,
         req[r].pc \in Holding,
         row' = [row EXCEPT ![n] = NewRow(p, FALSE)],
         told' = [told EXCEPT ![n] = @ + 1],
         Goto(r, Idle), used' \in SUBSET Tokens, auto' \in SUBSET Keys,
         UNCHANGED <<over, lapsed, plan, events>>
  PROVE  KeysInv'
<1> TypeOK
  BY DEF KeysInv
<1>1. /\ row' \in [Keys -> Rows] /\ row'[n].status = "active" /\ ~row'[n].sealed
      /\ \A j \in Keys \ {n} : row'[j] = row[j]
  <2>1. NewRow(p, FALSE) \in Rows /\ NewRow(p, FALSE).status = "active" /\ ~NewRow(p, FALSE).sealed
    BY NewRowIsRow
  <2> QED BY <2>1 DEF TypeOK
<1>2. told[n] = 0
  BY DEF KeysInv, SpareInv
<1>3. told' \in [Keys -> Nat] /\ told'[n] = 1 /\ \A j \in Keys \ {n} : told'[j] = told[j]
  BY <1>2 DEF TypeOK
<1>4. Idle \in RequestStates /\ Idle.pc = "idle" /\ req[r].pc # "owes"
  BY RequestValues DEF Idle, Holding
<1>5. TypeOK'
  BY <1>1, <1>3, <1>4, GotoTypes DEF TypeOK
<1>6. OverInv' /\ ToldInv' /\ PaidInv'
  <2>1. n \notin over
    BY DEF KeysInv, OverInv, Spare
  <2>2. OverInv'
    BY <1>1, <2>1 DEF KeysInv, TypeOK, OverInv
  <2>3. ToldInv'
    <3> SUFFICES ASSUME NEW j \in Keys
                 PROVE  told'[j] <= 1 /\ (row'[j].sealed => told'[j] = 0)
      BY DEF ToldInv
    <3>1. CASE j = n
      <4>1. told'[j] = 1 /\ ~row'[j].sealed
        BY <1>1, <1>3, <3>1
      <4>2. told'[j] <= 1
        BY <4>1, SMT
      <4>3. row'[j].sealed => told'[j] = 0
        BY <4>1, Zenon
      <4> QED BY <4>2, <4>3
    <3>2. CASE j # n
      <4>1. row'[j] = row[j] /\ told'[j] = told[j]
        BY <1>1, <1>3, <3>2
      <4> QED BY <4>1 DEF KeysInv, ToldInv
    <3> QED BY <3>1, <3>2
  <2> QED BY <2>2, <2>3 DEF KeysInv, PaidInv
<1>7. \A j \in Keys : Spare(j)' => Spare(j) /\ told'[j] = told[j] /\ row'[j].sealed = row[j].sealed
  BY <1>1, <1>3 DEF Spare
<1>8. \A j \in Keys : SameAnswer(row'[j], row[j]) \/ Spare(j)
  BY <1>1 DEF SameAnswer
<1>9. events <= events'
  BY DEF TypeOK
<1> HIDE DEF Idle
<1>10. \A q \in Requests \ {r} : Decided(req[q])'
  BY HolderAlone
<1> QED BY <1>4, <1>5, <1>6, <1>7, <1>8, <1>9, <1>10, CommitStep

LEMMA CreateCommitInv ==
  ASSUME KeysInv, NEW r \in Requests, CreateCommit(r)
  PROVE  KeysInv'
<1>1. req[r].pc = "minting" /\ req[r].new \in Keys /\ req[r].plan \in Plans
  BY RequestKinds DEF CreateCommit, KeysInv, TypeOK
<1>2. Spare(req[r].new)
  BY <1>1 DEF KeysInv, Decided, Mints
<1>3. PICK n \in Keys : n = req[r].new
  BY <1>1
<1>4. PICK p \in Plans : p = req[r].plan
  BY <1>1
<1>5. Spare(n) /\ req[r].pc \in Holding /\ used' \in SUBSET Tokens /\ auto' \in SUBSET Keys
  BY <1>1, <1>2, <1>3 DEF Holding, CreateCommit, KeysInv, TypeOK
<1> QED BY <1>3, <1>4, <1>5, InsertStep DEF CreateCommit

LEMMA LoginCommitInv ==
  ASSUME KeysInv, NEW r \in Requests, LoginCommit(r)
  PROVE  KeysInv'
<1> TypeOK
  BY DEF KeysInv
<1>1. /\ req[r].pc = "login" /\ req[r].token \in Tokens /\ req[r].new \in Keys \cup {NoKey}
      /\ used' \in SUBSET Tokens
  BY RequestKinds DEF LoginCommit, TypeOK
<1>2. CASE req[r].new = NoKey
  <2>1. /\ Idle \in RequestStates /\ Idle.pc = "idle" /\ Goto(r, Idle)
        /\ UNCHANGED <<row, over, lapsed, plan, events, told, auto>>
    BY <1>2, RequestValues DEF LoginCommit, Idle
  <2>2. TypeOK'
    BY <1>1, <2>1, GotoTypes DEF TypeOK
  <2>3. OverInv' /\ ToldInv' /\ PaidInv' /\ events <= events'
    BY <2>1 DEF KeysInv, TypeOK, OverInv, ToldInv, PaidInv
  <2>4. \A j \in Keys : /\ Spare(j)' => Spare(j)
                        /\ told'[j] = told[j] /\ row'[j].sealed = row[j].sealed
                        /\ SameAnswer(row'[j], row[j])
    BY <2>1 DEF Spare, SameAnswer
  <2> HIDE DEF Idle
  <2>5. \A q \in Requests \ {r} : Decided(req[q])'
    BY <1>1, <2>1, HolderAlone DEF Holding
  <2> QED BY <1>1, <2>1, <2>2, <2>3, <2>4, <2>5, CommitStep
<1>3. CASE req[r].new # NoKey
  <2>1. PICK n \in Keys : n = req[r].new
    BY <1>1, <1>3
  <2>2. Spare(n)
    BY <1>1, <1>3, <2>1 DEF KeysInv, Decided, Mints
  <2>3. /\ row' = [row EXCEPT ![n] = NewRow("developer", FALSE)]
        /\ told' = [told EXCEPT ![n] = @ + 1]
        /\ Goto(r, Idle) /\ UNCHANGED <<over, lapsed, plan, events>>
        /\ auto' = auto \cup {n}
    BY <1>3, <2>1 DEF LoginCommit
  <2>4. auto' \in SUBSET Keys /\ req[r].pc \in Holding /\ "developer" \in Plans
    BY <1>1, <2>3 DEF TypeOK, Holding, Plans
  <2> QED BY <1>1, <2>1, <2>2, <2>3, <2>4, InsertStep
<1> QED BY <1>2, <1>3

LEMMA RotateCommitInv ==
  ASSUME KeysInv, NEW r \in Requests, RotateCommit(r)
  PROVE  KeysInv'
<1> TypeOK
  BY DEF KeysInv
<1>1. /\ req[r].pc = "rotating" /\ req[r].key \in Keys /\ req[r].new \in Keys
      /\ req[r].plan \in Plans /\ Sound(req[r]) /\ Decided(req[r])
  BY RequestKinds DEF RotateCommit, KeysInv, TypeOK, Keyed
<1>2. PICK k \in Keys : k = req[r].key
  BY <1>1
<1>3. PICK n \in Keys : n = req[r].new
  BY <1>1
<1>4. PICK p \in Plans : p = req[r].plan
  BY <1>1
<1>5. /\ Spare(n) /\ ~Spare(k) /\ k \notin over
      /\ k # n
  BY <1>1, <1>2, <1>3 DEF Sound, Decided, Mints, Keyed
<1> DEFINE s == [pc |-> "owes", keys |-> {k}]
<1>6. /\ row' = [row EXCEPT ![k].status = "rotating", ![n] = NewRow(p, FALSE)]
      /\ told' = [told EXCEPT ![n] = @ + 1]
      /\ Goto(r, s) /\ UNCHANGED <<over, lapsed, plan, events, used, auto>>
  BY <1>2, <1>3, <1>4 DEF RotateCommit
<1>7. s \in RequestStates /\ s.pc = "owes" /\ s.keys = {k}
  BY RequestValues
<1> HIDE DEF s
<1>8. /\ row' \in [Keys -> Rows]
      /\ row'[k].status = "rotating" /\ row'[k].sealed = row[k].sealed
      /\ row'[n].status = "active" /\ ~row'[n].sealed
      /\ \A j \in Keys \ {k, n} : row'[j] = row[j]
  <2> DEFINE old == [row[k] EXCEPT !.status = "rotating"]
  <2>1. row[k] \in Rows
    BY DEF TypeOK
  <2>2. old \in Rows /\ old.status = "rotating" /\ old.sealed = row[k].sealed
    BY <2>1 DEF Rows
  <2>3. row' = [row EXCEPT ![k] = old, ![n] = NewRow(p, FALSE)]
    BY <1>6 DEF TypeOK
  <2>4. NewRow(p, FALSE) \in Rows /\ NewRow(p, FALSE).status = "active" /\ ~NewRow(p, FALSE).sealed
    BY NewRowIsRow
  <2> HIDE DEF old
  <2> QED BY <1>5, <2>2, <2>3, <2>4 DEF TypeOK
<1>9. told' \in [Keys -> Nat] /\ told'[n] = 1 /\ \A j \in Keys \ {n} : told'[j] = told[j]
  BY <1>5, <1>6 DEF TypeOK, KeysInv, SpareInv
<1>10. TypeOK'
  BY <1>6, <1>7, <1>8, <1>9, GotoTypes DEF TypeOK
<1>11. OverInv' /\ ToldInv' /\ PaidInv' /\ events <= events'
  <2>1. n \notin over
    BY <1>5 DEF KeysInv, OverInv, Spare
  <2>2. OverInv'
    BY <1>5, <1>6, <1>8, <2>1 DEF KeysInv, TypeOK, OverInv
  <2>3. \A j \in Keys : told'[j] <= 1 /\ (row'[j].sealed => told'[j] = 0)
    <3> SUFFICES ASSUME NEW j \in Keys
                 PROVE  told'[j] <= 1 /\ (row'[j].sealed => told'[j] = 0)
      OBVIOUS
    <3>1. CASE j = n
      BY <1>8, <1>9, <3>1
    <3>2. CASE j # n
      <4>1. row'[j].sealed = row[j].sealed /\ told'[j] = told[j]
        BY <1>8, <1>9, <3>2
      <4> QED BY <4>1 DEF KeysInv, ToldInv
    <3> QED BY <3>1, <3>2
  <2>4. ToldInv'
    BY <2>3 DEF ToldInv
  <2>5. PaidInv' /\ events <= events'
    BY <1>6 DEF KeysInv, TypeOK, PaidInv
  <2> QED BY <2>2, <2>4, <2>5
<1>12. \A j \in Keys : Spare(j)' => Spare(j) /\ told'[j] = told[j] /\ row'[j].sealed = row[j].sealed
  BY <1>8, <1>9 DEF Spare
<1>13. \A j \in Keys : \/ SameAnswer(row'[j], row[j]) \/ Spare(j)
                       \/ s.pc = "owes" /\ j \in s.keys
  BY <1>5, <1>7, <1>8 DEF SameAnswer
<1>14. \A q \in Requests \ {r} : Decided(req[q])'
  BY <1>1, <1>6, HolderAlone DEF Holding
<1> QED BY <1>1, <1>6, <1>7, <1>10, <1>11, <1>12, <1>13, <1>14, CommitStep

LEMMA RevokeCommitInv ==
  ASSUME KeysInv, NEW r \in Requests, RevokeCommit(r)
  PROVE  KeysInv'
<1> TypeOK
  BY DEF KeysInv
<1>1. req[r].pc = "revoking" /\ req[r].key \in Keys /\ Sound(req[r])
  BY RequestKinds DEF RevokeCommit, KeysInv, TypeOK, Keyed
<1>2. PICK k \in Keys : k = req[r].key /\ ~Spare(k)
  BY <1>1 DEF Sound, Keyed
<1> DEFINE s == [pc |-> "owes", keys |-> {k}]
<1>3. /\ row' = [row EXCEPT ![k].status = "revoked"] /\ over' = over \cup {k}
      /\ Goto(r, s) /\ UNCHANGED <<lapsed, plan, events, used, told, auto>>
  BY <1>2 DEF RevokeCommit
<1>4. s \in RequestStates /\ s.pc = "owes" /\ s.keys = {k}
  BY RequestValues
<1> HIDE DEF s
<1>5. /\ row' \in [Keys -> Rows]
      /\ row'[k].status = "revoked" /\ row'[k].sealed = row[k].sealed
      /\ \A j \in Keys \ {k} : row'[j] = row[j]
  <2> DEFINE new == [row[k] EXCEPT !.status = "revoked"]
  <2>1. row[k] \in Rows
    BY DEF TypeOK
  <2>2. new \in Rows /\ new.status = "revoked" /\ new.sealed = row[k].sealed
    BY <2>1 DEF Rows
  <2>3. row' = [row EXCEPT ![k] = new]
    BY <1>3 DEF TypeOK
  <2> HIDE DEF new
  <2> QED BY <2>2, <2>3 DEF TypeOK
<1>6. TypeOK'
  BY <1>3, <1>4, <1>5, GotoTypes DEF TypeOK
<1>7. OverInv' /\ ToldInv' /\ PaidInv' /\ events <= events'
  <2>1. OverInv'
    BY <1>3, <1>5 DEF KeysInv, TypeOK, OverInv
  <2>2. \A j \in Keys : row'[j].sealed = row[j].sealed /\ told'[j] = told[j]
    BY <1>3, <1>5
  <2>3. ToldInv'
    BY <1>3, <2>2 DEF KeysInv, ToldInv
  <2> QED BY <1>3, <2>1, <2>3 DEF KeysInv, TypeOK, PaidInv
<1>8. \A j \in Keys : Spare(j)' => Spare(j) /\ told'[j] = told[j] /\ row'[j].sealed = row[j].sealed
  BY <1>3, <1>5 DEF Spare
<1>9. \A j \in Keys : \/ SameAnswer(row'[j], row[j]) \/ Spare(j)
                      \/ s.pc = "owes" /\ j \in s.keys
  BY <1>4, <1>5 DEF SameAnswer
<1>10. \A q \in Requests \ {r} : Decided(req[q])'
  BY <1>1, <1>3, HolderAlone DEF Holding
<1> QED BY <1>1, <1>3, <1>4, <1>6, <1>7, <1>8, <1>9, <1>10, CommitStep

LEMMA RestampedRows ==
  ASSUME TypeOK, NEW ks \in SUBSET Keys, NEW p \in Plans
  PROVE  /\ Restamped(ks, p) \in [Keys -> Rows]
         /\ \A k \in Keys : /\ Restamped(ks, p)[k].status = row[k].status
                            /\ Restamped(ks, p)[k].sealed = row[k].sealed
                            /\ k \notin ks => Restamped(ks, p)[k] = row[k]
<1> SUFFICES ASSUME NEW k \in Keys
             PROVE  /\ Restamped(ks, p)[k] \in Rows
                    /\ Restamped(ks, p)[k].status = row[k].status
                    /\ Restamped(ks, p)[k].sealed = row[k].sealed
                    /\ k \notin ks => Restamped(ks, p)[k] = row[k]
  BY DEF Restamped
<1> DEFINE new == [row[k] EXCEPT !.plan = p]
<1>1. row[k] \in Rows
  BY DEF TypeOK
<1>2. new \in Rows /\ new.status = row[k].status /\ new.sealed = row[k].sealed
  BY <1>1 DEF Rows
<1>3. Restamped(ks, p)[k] = IF k \in ks THEN new ELSE row[k]
  BY DEF Restamped
<1> HIDE DEF new
<1> QED BY <1>1, <1>2, <1>3

LEMMA SubscriptionCommitInv ==
  ASSUME KeysInv, NEW r \in Requests, SubscriptionCommit(r)
  PROVE  KeysInv'
<1> TypeOK
  BY DEF KeysInv
<1> DEFINE n == req[r].new
<1> DEFINE old == Restamped(req[r].keys, req[r].plan)
<1> DEFINE s == [pc |-> "owes", keys |-> req[r].keys]
<1>1. /\ req[r].pc = "billing" /\ req[r].keys \in SUBSET Keys /\ n \in Keys \cup {NoKey}
      /\ req[r].plan \in Plans /\ Decided(req[r])
  BY RequestKinds DEF SubscriptionCommit, KeysInv, TypeOK
<1>2. n \in Keys => Spare(n)
  BY <1>1 DEF Decided, Mints
<1>3. /\ plan' = req[r].plan /\ events' = events + 1
      /\ row' = [k \in Keys |-> IF k = n THEN NewRow(req[r].plan, TRUE) ELSE old[k]]
      /\ Goto(r, s) /\ UNCHANGED <<over, lapsed, used, told, auto>>
  BY DEF SubscriptionCommit
<1>4. s \in RequestStates /\ s.pc = "owes" /\ s.keys = req[r].keys
  BY <1>1, RequestValues
<1> HIDE DEF s
<1>5. /\ row' \in [Keys -> Rows]
      /\ \A k \in Keys : k # n => /\ row'[k].status = row[k].status
                                  /\ row'[k].sealed = row[k].sealed
                                  /\ k \notin req[r].keys => row'[k] = row[k]
      /\ \A k \in Keys : k = n => row'[k].status = "active"
  <2>1. /\ old \in [Keys -> Rows]
        /\ \A k \in Keys : /\ old[k].status = row[k].status
                           /\ old[k].sealed = row[k].sealed
                           /\ k \notin req[r].keys => old[k] = row[k]
    BY <1>1, RestampedRows
  <2>2. NewRow(req[r].plan, TRUE) \in Rows /\ NewRow(req[r].plan, TRUE).status = "active"
    BY <1>1, NewRowIsRow
  <2> HIDE DEF old, n
  <2> QED BY <1>3, <2>1, <2>2
<1> HIDE DEF old
<1>6. TypeOK'
  <2>1. req' \in [Requests -> RequestStates] /\ cache' = cache
    BY <1>3, <1>4, GotoTypes
  <2>2. events' \in Nat /\ plan' \in Plans
    BY <1>1, <1>3 DEF TypeOK
  <2> QED BY <1>3, <1>5, <2>1, <2>2 DEF TypeOK
<1>7. OverInv'
  <2>1. n \notin over
    BY <1>2 DEF KeysInv, OverInv, Spare, TypeOK
  <2> HIDE DEF n
  <2> QED BY <1>3, <1>5, <2>1 DEF KeysInv, TypeOK, OverInv
<1>8. ToldInv'
  <2> SUFFICES ASSUME NEW k \in Keys PROVE told[k] <= 1 /\ (row'[k].sealed => told[k] = 0)
    BY <1>3 DEF ToldInv
  <2>1. CASE k = n
    <3>1. told[k] = 0
      BY <1>2, <2>1 DEF KeysInv, SpareInv
    <3> QED BY <3>1
  <2>2. CASE k # n
    <3>1. row'[k].sealed = row[k].sealed
      BY <1>5, <2>2
    <3> QED BY <3>1 DEF KeysInv, ToldInv
  <2> QED BY <2>1, <2>2
<1>9. PaidInv' /\ events <= events'
  BY <1>3 DEF KeysInv, TypeOK, PaidInv
<1>10. \A k \in Keys : Spare(k)' => Spare(k) /\ told'[k] = told[k] /\ row'[k].sealed = row[k].sealed
  <2> HIDE DEF n
  <2> QED BY <1>3, <1>5 DEF Spare
<1>11. \A k \in Keys : \/ SameAnswer(row'[k], row[k]) \/ Spare(k)
                       \/ s.pc = "owes" /\ k \in s.keys
  <2> HIDE DEF n
  <2> QED BY <1>2, <1>4, <1>5 DEF SameAnswer
<1>12. \A q \in Requests \ {r} : Decided(req[q])'
  BY <1>1, <1>3, HolderAlone DEF Holding
<1> QED BY <1>1, <1>3, <1>4, <1>6, <1>7, <1>8, <1>9, <1>10, <1>11, <1>12, CommitStep

LEMMA RefundCommitInv ==
  ASSUME KeysInv, NEW r \in Requests, RefundCommit(r)
  PROVE  KeysInv'
<1> TypeOK
  BY DEF KeysInv
<1> DEFINE s == [pc |-> "owes", keys |-> req[r].keys]
<1>1. req[r].pc = "refund" /\ req[r].keys \in SUBSET Keys /\ events > 0
  BY RequestKinds DEF RefundCommit, KeysInv, TypeOK, Sound
<1>2. /\ plan' = "developer" /\ events' = events + 1
      /\ row' = Restamped(req[r].keys, "developer")
      /\ Goto(r, s) /\ UNCHANGED <<over, lapsed, used, told, auto>>
  BY DEF RefundCommit
<1>3. s \in RequestStates /\ s.pc = "owes" /\ s.keys = req[r].keys
  BY <1>1, RequestValues
<1> HIDE DEF s
<1>4. "developer" \in Plans /\ "developer" # "paid"
  BY DEF Plans
<1>5. /\ row' \in [Keys -> Rows]
      /\ \A k \in Keys : /\ row'[k].status = row[k].status
                         /\ row'[k].sealed = row[k].sealed
                         /\ k \notin req[r].keys => row'[k] = row[k]
  BY <1>1, <1>2, <1>4, RestampedRows
<1>6. TypeOK'
  <2>1. req' \in [Requests -> RequestStates] /\ cache' = cache
    BY <1>2, <1>3, GotoTypes
  <2>2. events' \in Nat /\ plan' \in Plans
    BY <1>2, <1>4 DEF TypeOK
  <2> QED BY <1>2, <1>5, <2>1, <2>2 DEF TypeOK
<1>7. OverInv' /\ ToldInv'
  BY <1>2, <1>5 DEF KeysInv, TypeOK, OverInv, ToldInv
<1>8. PaidInv' /\ events <= events'
  BY <1>2, <1>4 DEF TypeOK, PaidInv
<1>9. \A k \in Keys : Spare(k)' => Spare(k) /\ told'[k] = told[k] /\ row'[k].sealed = row[k].sealed
  BY <1>2, <1>5 DEF Spare
<1>10. \A k \in Keys : \/ SameAnswer(row'[k], row[k]) \/ Spare(k)
                       \/ s.pc = "owes" /\ k \in s.keys
  BY <1>3, <1>5 DEF SameAnswer
<1>11. \A q \in Requests \ {r} : Decided(req[q])'
  <2>1. \A k \in Keys : (Spare(k) => Spare(k)') /\ row'[k].status \in {row[k].status, "revoked"}
    BY <1>5 DEF Spare
  <2> QED BY <1>1, <1>2, <2>1, DecisionsStand
<1> QED BY <1>1, <1>2, <1>3, <1>6, <1>7, <1>8, <1>9, <1>10, <1>11, CommitStep

-----------------------------------------------------------------------------
(* The theorems about keys and answers.                                    *)

LEMMA InitKeysInv == Init => KeysInv
<1> SUFFICES ASSUME Init PROVE KeysInv
  OBVIOUS
<1>1. TypeOK
  BY RequestValues DEF Init, TypeOK, Rows, Plans
<1>2. OverInv /\ SpareInv /\ ToldInv /\ PaidInv
  BY DEF Init, OverInv, SpareInv, Spare, ToldInv, PaidInv
<1>3. Mutex /\ CacheHonest
  BY DEF Init, Mutex, HoldsCustomer, CacheHonest, Idle
<1>4. \A q \in Requests : Sound(req[q]) /\ Decided(req[q])
  BY DEF Init, Sound, Decided, Mints, Keyed, Idle
<1> QED BY <1>1, <1>2, <1>3, <1>4 DEF KeysInv

LEMMA RequestStepInv ==
  ASSUME KeysInv, NEW r \in Requests, RequestStep(r)
  PROVE  KeysInv'
<1>1. CASE \/ ResolveRead(r) \/ ResolveStore(r) \/ AfterCommit(r)
           \/ ExpireStaleReveal(r) \/ RevealCommit(r)
  BY <1>1, ResolveReadInv, ResolveStoreInv, AfterCommitInv, ExpireStaleRevealInv, RevealCommitInv
<1>2. CASE LookEnds(r) \/ CreateRefused(r) \/ Abort(r)
  <2>1. /\ req[r].pc # "owes" /\ Goto(r, Idle)
        /\ UNCHANGED <<row, over, lapsed, plan, events, used, told, auto>>
    BY <1>2 DEF LookEnds, CreateRefused, Abort
  <2> QED BY <2>1, GoingIdleInv
<1>3. CASE CreateRead(r) \/ CreateMint(r) \/ CreateCommit(r) \/ LoginMint(r) \/ LoginCommit(r)
  BY <1>3, CreateReadInv, CreateMintInv, CreateCommitInv, LoginMintInv, LoginCommitInv
<1>4. CASE RotateFlush(r) \/ RotateCommit(r) \/ RevokeCommit(r)
  BY <1>4, RotateFlushInv, RotateCommitInv, RevokeCommitInv
<1>5. CASE SubscriptionCommit(r) \/ RefundRead(r) \/ RefundCommit(r)
  BY <1>5, SubscriptionCommitInv, RefundReadInv, RefundCommitInv
<1>6. ASSUME NEW k \in Keys,
             \/ ResolveStart(r, k) \/ Look(r, k) \/ Reveal(r, k) \/ RevealLate(r, k)
             \/ RotateRead(r, k) \/ RevokeFlush(r, k)
      PROVE  KeysInv'
  BY <1>6, ResolveStartInv, LookInv, RevealInv, RevealLateInv, RotateReadInv, RevokeFlushInv
<1>7. ASSUME NEW t \in Tokens, ClaimToken(r, t) PROVE KeysInv'
  BY <1>7, ClaimTokenInv
<1>8. ASSUME NEW p \in Plans, SubscriptionEvent(r, p) PROVE KeysInv'
  BY <1>8, SubscriptionEventInv
<1> QED BY <1>1, <1>2, <1>3, <1>4, <1>5, <1>6, <1>7, <1>8 DEF RequestStep

LEMMA NextKeysInv == KeysInv /\ [Next]_vars => KeysInv'
<1> SUFFICES ASSUME KeysInv, [Next]_vars PROVE KeysInv'
  OBVIOUS
<1>1. ASSUME NEW r \in Requests, RequestStep(r) PROVE KeysInv'
  BY <1>1, RequestStepInv
<1>2. CASE (\E k \in Keys : CacheDrop(k) \/ OverlapEnds(k) \/ RevealLapses(k)) \/ UNCHANGED vars
  BY <1>2, WorldInv
<1>3. CASE Restart
  BY <1>3, RestartInv
<1> QED BY <1>1, <1>2, <1>3 DEF Next

\* The invariant of the keys and of the requests that are at work on them.
THEOREM KeysInvariant == Spec => []KeysInv
<1>1. Init => KeysInv
  BY InitKeysInv
<1>2. KeysInv /\ [Next]_vars => KeysInv'
  BY NextKeysInv
<1> QED BY <1>1, <1>2, PTL DEF Spec

\* Every row, answer and request is well formed (api_keys, resolve_key).
THEOREM KeysTypeCorrect == Spec => []TypeOK
<1>1. KeysInv => TypeOK
  BY DEF KeysInv
<1> QED BY <1>1, KeysInvariant, PTL

\* No interleaving of resolutions with revocations, rotations, lapses and changes
\* of plan leaves a stale answer in the cache past the invalidation it is owed
\* (resolve_key, invalidate, _invalidate_after_commit).
THEOREM CacheIsHonest == Spec => []CacheHonest
<1>1. KeysInv => CacheHonest
  BY DEF KeysInv
<1> QED BY <1>1, KeysInvariant, PTL

\* A plaintext leaves at most once, whoever reveals, mints and rotates at the same
\* time (reveal_key_endpoint, mint_key, rotate_key).
THEOREM PlaintextsLeaveOnce == Spec => []ToldOnce
<1>1. KeysInv => ToldOnce
  BY DEF KeysInv, ToldInv, ToldOnce
<1> QED BY <1>1, KeysInvariant, PTL

-----------------------------------------------------------------------------
(* What a step writes, and who moves.                                      *)

Commits(r) ==
    \/ ExpireStaleReveal(r) \/ (\E k \in Keys : RevealLate(r, k)) \/ RevealCommit(r)
    \/ CreateCommit(r) \/ LoginCommit(r) \/ RotateCommit(r) \/ RevokeCommit(r)
    \/ SubscriptionCommit(r) \/ RefundCommit(r)

LEMMA OnlyCommitsWrite ==
  ASSUME NEW r \in Requests, RequestStep(r)
  PROVE  Commits(r) \/ UNCHANGED <<row, over, auto>>
<1>1. ASSUME \/ AfterCommit(r) \/ ResolveRead(r) \/ ResolveStore(r) \/ LookEnds(r)
             \/ CreateRead(r) \/ CreateMint(r) \/ CreateRefused(r)
      PROVE  UNCHANGED <<row, over, auto>>
  BY <1>1 DEF AfterCommit, ResolveRead, ResolveStore, LookEnds, CreateRead, CreateMint,
              CreateRefused
<1>2. ASSUME RotateFlush(r) \/ LoginMint(r) \/ RefundRead(r) \/ Abort(r)
      PROVE  UNCHANGED <<row, over, auto>>
  BY <1>2 DEF RotateFlush, LoginMint, RefundRead, Abort
<1>3. ASSUME NEW k \in Keys, ResolveStart(r, k) \/ Look(r, k) \/ Reveal(r, k)
                             \/ RotateRead(r, k) \/ RevokeFlush(r, k)
      PROVE  UNCHANGED <<row, over, auto>>
  BY <1>3 DEF ResolveStart, Look, Reveal, RotateRead, RevokeFlush
<1>4. ASSUME NEW t \in Tokens, ClaimToken(r, t) PROVE UNCHANGED <<row, over, auto>>
  BY <1>4 DEF ClaimToken
<1>5. ASSUME NEW p \in Plans, SubscriptionEvent(r, p) PROVE UNCHANGED <<row, over, auto>>
  BY <1>5 DEF SubscriptionEvent
<1> QED BY <1>1, <1>2, <1>3, <1>4, <1>5 DEF RequestStep, Commits

\* What the holder of the lock may be about to insert or to rotate.
Claims == {"minting", "rotate", "rotating", "billing", "login"}

\* Nobody else moves, except that a resolution may be tombstoned.
OthersStay(r) ==
    \A q \in Requests \ {r} :
        /\ req'[q].pc = req[q].pc
        /\ req[q].pc \in Claims => req'[q] = req[q]

LEMMA GotoReq ==
  ASSUME TypeOK, NEW r \in Requests, NEW s, Goto(r, s)
  PROVE  req'[r] = s /\ OthersStay(r)
BY DEF Goto, TypeOK, OthersStay

LEMMA InvalidateReq ==
  ASSUME TypeOK, NEW r \in Requests, NEW s, NEW ks, Invalidate(r, s, ks),
         s.pc \notin {"resolve", "loaded"}
  PROVE  req'[r] = s /\ OthersStay(r)
<1>1. \A q \in Requests : [req EXCEPT ![r] = s][q] = IF q = r THEN s ELSE req[q]
  BY DEF TypeOK
<1>2. \A q \in Requests :
          req'[q] = IF [req EXCEPT ![r] = s][q].pc \in {"resolve", "loaded"}
                       /\ [req EXCEPT ![r] = s][q].key \in ks
                    THEN [[req EXCEPT ![r] = s][q] EXCEPT !.raced = TRUE]
                    ELSE [req EXCEPT ![r] = s][q]
  BY DEF Invalidate, Tombstone
<1>3. req'[r] = s
  BY <1>1, <1>2
<1>4. ASSUME NEW q \in Requests \ {r}
      PROVE  req'[q].pc = req[q].pc /\ (req[q].pc \in Claims => req'[q] = req[q])
  <2>1. \/ req'[q] = req[q]
        \/ req[q].pc \in {"resolve", "loaded"} /\ req'[q] = [req[q] EXCEPT !.raced = TRUE]
    BY <1>1, <1>2
  <2> QED BY <2>1, Others DEF Claims
<1> QED BY <1>3, <1>4 DEF OthersStay

\* The steps that begin or go on with what the lock is held for.
Takes(r) ==
    \/ CreateMint(r) \/ RotateFlush(r) \/ LoginMint(r)
    \/ \E k \in Keys : RotateRead(r, k)
    \/ \E p \in Plans : SubscriptionEvent(r, p)

LEMMA StepMoves ==
  ASSUME TypeOK, NEW r \in Requests, RequestStep(r)
  PROVE  OthersStay(r) /\ (Takes(r) \/ req'[r].pc \notin Claims)
<1> DEFINE Goal == OthersStay(r) /\ (Takes(r) \/ req'[r].pc \notin Claims)
<1>0. ASSUME NEW s, Goto(r, s), s.pc \notin Claims PROVE Goal
  BY <1>0, GotoReq
<1>1. CASE LookEnds(r) \/ CreateRefused(r) \/ Abort(r) \/ RevealCommit(r) \/ CreateCommit(r)
           \/ LoginCommit(r)
  <2>1. Goto(r, Idle) /\ Idle.pc \notin Claims
    BY <1>1 DEF LookEnds, CreateRefused, Abort, RevealCommit, CreateCommit, LoginCommit,
                Idle, Claims
  <2> QED BY <1>0, <2>1
<1>2. CASE AfterCommit(r)
  <2>1. Invalidate(r, Idle, req[r].keys) /\ Idle.pc = "idle"
    BY <1>2 DEF AfterCommit, Idle
  <2> HIDE DEF Idle
  <2> QED BY <2>1, InvalidateReq DEF Claims
<1>3. CASE ResolveStore(r)
  BY <1>3 DEF ResolveStore, TypeOK, OthersStay, Claims, Idle
<1>4. CASE ResolveRead(r)
  <2>1. PICK s : Goto(r, s) /\ s.pc = "loaded"
    BY <1>4 DEF ResolveRead
  <2> QED BY <1>0, <2>1 DEF Claims
<1>5. CASE CreateRead(r)
  <2>1. PICK s : Goto(r, s) /\ s.pc = "create"
    BY <1>5 DEF CreateRead
  <2> QED BY <1>0, <2>1 DEF Claims
<1>6. CASE \/ ExpireStaleReveal(r) \/ RotateCommit(r) \/ RevokeCommit(r)
           \/ SubscriptionCommit(r) \/ RefundCommit(r)
  <2>1. ASSUME NEW ks, Goto(r, [pc |-> "owes", keys |-> ks]) PROVE Goal
    BY <1>0, <2>1 DEF Claims
  <2>2. CASE ExpireStaleReveal(r) \/ RotateCommit(r) \/ RevokeCommit(r)
    <3>1. Goto(r, [pc |-> "owes", keys |-> {req[r].key}])
      BY <2>2 DEF ExpireStaleReveal, RotateCommit, RevokeCommit
    <3> QED BY <2>1, <3>1
  <2>3. CASE SubscriptionCommit(r) \/ RefundCommit(r)
    <3>1. Goto(r, [pc |-> "owes", keys |-> req[r].keys])
      BY <2>3 DEF SubscriptionCommit, RefundCommit
    <3> QED BY <2>1, <3>1
  <2> QED BY <1>6, <2>2, <2>3
<1>7. CASE RefundRead(r)
  <2>1. PICK s, ks : Invalidate(r, s, ks) /\ s.pc = "refund"
    BY <1>7 DEF RefundRead
  <2> QED BY <2>1, InvalidateReq DEF Claims
<1>8. ASSUME NEW k \in Keys, ResolveStart(r, k) \/ Look(r, k) \/ Reveal(r, k) \/ RevealLate(r, k)
      PROVE  Goal
  <2>1. PICK s : Goto(r, s) /\ s.pc \in {"resolve", "look", "revealing", "owes"}
    BY <1>8 DEF ResolveStart, Look, Reveal, RevealLate
  <2> QED BY <1>0, <2>1 DEF Claims
<1>9. ASSUME NEW k \in Keys, RevokeFlush(r, k) PROVE Goal
  <2>1. PICK s, ks : Invalidate(r, s, ks) /\ s.pc = "revoking"
    BY <1>9 DEF RevokeFlush
  <2> QED BY <2>1, InvalidateReq DEF Claims
<1>10. ASSUME NEW t \in Tokens, ClaimToken(r, t) PROVE Goal
  <2>1. PICK s : Goto(r, s) /\ s.pc = "claimed"
    BY <1>10 DEF ClaimToken
  <2> QED BY <1>0, <2>1 DEF Claims
<1>11. CASE CreateMint(r) \/ LoginMint(r) \/ \E k \in Keys : RotateRead(r, k)
  <2>1. PICK s : Goto(r, s)
    BY <1>11 DEF CreateMint, LoginMint, RotateRead
  <2> QED BY <1>11, <2>1, GotoReq DEF Takes
<1>12. CASE RotateFlush(r)
  <2>1. PICK s, ks : Invalidate(r, s, ks) /\ s.pc = "rotating"
    BY <1>12 DEF RotateFlush
  <2> QED BY <1>12, <2>1, InvalidateReq DEF Takes
<1>13. ASSUME NEW p \in Plans, SubscriptionEvent(r, p) PROVE Goal
  <2>1. PICK s, ks : Invalidate(r, s, ks) /\ s.pc = "billing"
    BY <1>13 DEF SubscriptionEvent
  <2> QED BY <1>13, <2>1, InvalidateReq DEF Takes
<1> QED BY <1>1, <1>2, <1>3, <1>4, <1>5, <1>6, <1>7, <1>8, <1>9, <1>10, <1>11, <1>12,
           <1>13 DEF RequestStep

\* A commit revokes at most ...
Withdraws ==
    /\ over \subseteq over'
    /\ \A k \in Keys : row'[k].status \in {row[k].status, "revoked"}

\* ... or inserts the row that its request was about to insert ...
Inserts(r) ==
    /\ req[r].pc \in {"minting", "billing", "login"} /\ over' = over
    /\ \E n \in Keys : /\ Spare(n) /\ Mints(req[r]) /\ row'[n].status = "active"
                       /\ \A k \in Keys \ {n} : row'[k].status = row[k].status

\* ... or rotates a key.
Rotates(r) ==
    /\ req[r].pc = "rotating" /\ over' = over
    /\ \E k, n \in Keys : /\ k = req[r].key /\ k \notin over /\ Spare(n) /\ k # n
                          /\ row[k].status \in {"active", "revoked"}
                          /\ row'[k].status = "rotating" /\ row'[n].status = "active"
                          /\ \A j \in Keys \ {k, n} : row'[j].status = row[j].status

LEMMA ExpiredWithdraws ==
  ASSUME TypeOK, NEW k \in Keys, Expired(k), UNCHANGED over
  PROVE  Withdraws
BY ExpiredRow DEF Withdraws

LEMMA CommitRows ==
  ASSUME KeysInv, NEW r \in Requests, Commits(r)
  PROVE  Withdraws \/ Inserts(r) \/ Rotates(r)
<1> TypeOK
  BY DEF KeysInv
<1>1. CASE ExpireStaleReveal(r)
  <2>1. req[r].key \in Keys
    BY <1>1, RequestKinds DEF ExpireStaleReveal, TypeOK, Keyed
  <2> QED BY <1>1, <2>1, ExpiredWithdraws DEF ExpireStaleReveal
<1>2. ASSUME NEW k \in Keys, RevealLate(r, k) PROVE Withdraws
  BY <1>2, ExpiredWithdraws DEF RevealLate
<1>3. CASE RevealCommit(r)
  <2>1. req[r].key \in Keys
    BY <1>3, RequestKinds DEF RevealCommit, TypeOK, Keyed
  <2>2. row' = [row EXCEPT ![req[r].key] = [row[req[r].key] EXCEPT !.sealed = FALSE]]
    BY <1>3 DEF RevealCommit, TypeOK
  <2>3. \A k \in Keys : [row[k] EXCEPT !.sealed = FALSE].status = row[k].status
    BY DEF TypeOK, Rows
  <2>4. \A k \in Keys : row'[k].status = row[k].status
    BY <2>1, <2>2, <2>3 DEF TypeOK
  <2> QED BY <1>3, <2>4 DEF RevealCommit, Withdraws
<1>4. CASE CreateCommit(r)
  <2>1. req[r].pc = "minting" /\ req[r].new \in Keys /\ req[r].plan \in Plans
    BY <1>4, RequestKinds DEF CreateCommit, TypeOK
  <2>2. Mints(req[r]) /\ Spare(req[r].new)
    BY <2>1 DEF KeysInv, Decided, Mints
  <2>3. /\ row'[req[r].new] = NewRow(req[r].plan, FALSE)
        /\ \A k \in Keys \ {req[r].new} : row'[k] = row[k]
    BY <1>4, <2>1 DEF CreateCommit, TypeOK
  <2> QED BY <1>4, <2>1, <2>2, <2>3, NewRowIsRow DEF Inserts, CreateCommit
<1>5. CASE LoginCommit(r)
  <2>1. req[r].pc = "login" /\ req[r].new \in Keys \cup {NoKey}
    BY <1>5, RequestKinds DEF LoginCommit, TypeOK
  <2>2. CASE req[r].new = NoKey
    BY <1>5, <2>2 DEF LoginCommit, Withdraws
  <2>3. CASE req[r].new # NoKey
    <3>1. Mints(req[r]) /\ Spare(req[r].new) /\ req[r].new \in Keys
      BY <2>1, <2>3 DEF KeysInv, Decided, Mints
    <3>2. /\ row'[req[r].new] = NewRow("developer", FALSE)
          /\ \A k \in Keys \ {req[r].new} : row'[k] = row[k]
      BY <1>5, <2>3, <3>1 DEF LoginCommit, TypeOK
    <3>3. NewRow("developer", FALSE).status = "active"
      BY DEF NewRow
    <3> QED BY <1>5, <2>1, <3>1, <3>2, <3>3 DEF Inserts, LoginCommit
  <2> QED BY <2>2, <2>3
<1>6. CASE RotateCommit(r)
  <2>1. /\ req[r].pc = "rotating" /\ req[r].key \in Keys /\ req[r].new \in Keys
        /\ req[r].plan \in Plans /\ Sound(req[r]) /\ Decided(req[r])
    BY <1>6, RequestKinds DEF RotateCommit, KeysInv, TypeOK, Keyed
  <2>2. /\ Spare(req[r].new) /\ req[r].key # req[r].new /\ req[r].key \notin over
        /\ row[req[r].key].status \in {"active", "revoked"}
    BY <2>1 DEF Sound, Decided, Mints, Keyed
  <2>3. row' = [row EXCEPT ![req[r].key] = [row[req[r].key] EXCEPT !.status = "rotating"],
                           ![req[r].new] = NewRow(req[r].plan, FALSE)]
    BY <1>6 DEF RotateCommit, TypeOK
  <2>4. [row[req[r].key] EXCEPT !.status = "rotating"].status = "rotating"
    BY <2>1 DEF TypeOK, Rows
  <2>5. /\ row'[req[r].key].status = "rotating" /\ row'[req[r].new].status = "active"
        /\ \A j \in Keys \ {req[r].key, req[r].new} : row'[j] = row[j]
    BY <2>1, <2>2, <2>3, <2>4, NewRowIsRow DEF TypeOK
  <2> QED BY <1>6, <2>1, <2>2, <2>5 DEF Rotates, RotateCommit
<1>7. CASE RevokeCommit(r)
  <2>1. req[r].key \in Keys
    BY <1>7, RequestKinds DEF RevokeCommit, TypeOK, Keyed
  <2>2. row' = [row EXCEPT ![req[r].key] = [row[req[r].key] EXCEPT !.status = "revoked"]]
    BY <1>7 DEF RevokeCommit, TypeOK
  <2>3. \A k \in Keys : [row[k] EXCEPT !.status = "revoked"].status = "revoked"
    BY DEF TypeOK, Rows
  <2>4. \A k \in Keys : row'[k].status \in {row[k].status, "revoked"}
    BY <2>1, <2>2, <2>3 DEF TypeOK
  <2> QED BY <1>7, <2>4 DEF RevokeCommit, Withdraws
<1>8. CASE SubscriptionCommit(r)
  <2>1. /\ req[r].pc = "billing" /\ req[r].keys \in SUBSET Keys
        /\ req[r].new \in Keys \cup {NoKey} /\ req[r].plan \in Plans
    BY <1>8, RequestKinds DEF SubscriptionCommit, TypeOK
  <2>2. \A k \in Keys : row'[k] = IF k = req[r].new THEN NewRow(req[r].plan, TRUE)
                                  ELSE Restamped(req[r].keys, req[r].plan)[k]
    BY <1>8 DEF SubscriptionCommit
  <2>3. \A k \in Keys : k # req[r].new => row'[k].status = row[k].status
    <3>1. \A k \in Keys : Restamped(req[r].keys, req[r].plan)[k].status = row[k].status
      BY <2>1, RestampedRows
    <3> QED BY <2>2, <3>1
  <2>4. CASE req[r].new = NoKey
    BY <1>8, <2>3, <2>4 DEF SubscriptionCommit, Withdraws
  <2>5. CASE req[r].new # NoKey
    <3>1. Mints(req[r]) /\ Spare(req[r].new) /\ req[r].new \in Keys
      BY <2>1, <2>5 DEF KeysInv, Decided, Mints
    <3>2. row'[req[r].new].status = "active"
      BY <2>1, <2>2, <3>1, NewRowIsRow
    <3> QED BY <1>8, <2>1, <2>3, <3>1, <3>2 DEF Inserts, SubscriptionCommit
  <2> QED BY <2>4, <2>5
<1>9. CASE RefundCommit(r)
  <2>1. req[r].keys \in SUBSET Keys /\ "developer" \in Plans
    BY <1>9, RequestKinds DEF RefundCommit, TypeOK, Plans
  <2>2. \A k \in Keys : row'[k].status = row[k].status
    BY <1>9, <2>1, RestampedRows DEF RefundCommit
  <2> QED BY <1>9, <2>2 DEF RefundCommit, Withdraws
<1> QED BY <1>1, <1>2, <1>3, <1>4, <1>5, <1>6, <1>7, <1>8, <1>9 DEF Commits

-----------------------------------------------------------------------------
(* The theorems about revocations and first logins.                        *)

LEMMA WorldWrites ==
  ASSUME Next \/ UNCHANGED vars, \A r \in Requests : ~RequestStep(r)
  PROVE  UNCHANGED <<row, auto>> /\ over \subseteq over'
BY DEF Next, CacheDrop, OverlapEnds, RevealLapses, Restart, vars

LEMMA RevokedStays ==
  ASSUME KeysInv, [Next]_vars, NEW k \in Keys, row[k].status = "revoked", k \in over
  PROVE  row'[k].status = "revoked"
<1>1. CASE \A r \in Requests : ~RequestStep(r)
  BY <1>1, WorldWrites
<1>2. ASSUME NEW r \in Requests, RequestStep(r) PROVE row'[k].status = "revoked"
  <2>1. CASE Commits(r)
    <3>1. CASE Withdraws
      BY <3>1 DEF Withdraws
    <3>2. CASE Inserts(r)
      BY <3>2 DEF Inserts, Spare
    <3>3. CASE Rotates(r)
      BY <3>3 DEF Rotates, Spare
    <3> QED BY <2>1, <3>1, <3>2, <3>3, CommitRows
  <2>2. CASE UNCHANGED <<row, over, auto>>
    BY <2>2
  <2> QED BY <1>2, <2>1, <2>2, OnlyCommitsWrite
<1> QED BY <1>1, <1>2

\* Only a login that finds nothing mints, and nothing comes before its commit.
LEMMA FirstKeyOnly ==
  ASSUME KeysInv, [Next]_vars, auto' # auto
  PROVE  events = 0 /\ \A k \in Keys : Spare(k)
<1>1. CASE \A r \in Requests : ~RequestStep(r)
  BY <1>1, WorldWrites
<1>2. ASSUME NEW r \in Requests, RequestStep(r) PROVE FirstLogin
  <2>1. Commits(r)
    BY <1>2, OnlyCommitsWrite
  <2>2. LoginCommit(r) /\ req[r].new # NoKey
    BY <2>1 DEF Commits, ExpireStaleReveal, RevealLate, RevealCommit, CreateCommit, LoginCommit,
                RotateCommit, RevokeCommit, SubscriptionCommit, RefundCommit
  <2> QED BY <2>2 DEF LoginCommit, KeysInv, Decided
<1> QED BY <1>1, <1>2 DEF FirstLogin

\* What its owner revoked stays revoked, in every interleaving with rotations,
\* lapses and billing events: the rotation that would bring it back has read it
\* under the same lock (revoke_key, rotate_key).
THEOREM RevocationIsFinal == Spec => RevokeIsFinal
<1>1. KeysInv /\ [Next]_vars =>
          [\A k \in Keys : row[k].status = "revoked" /\ k \in over => row'[k].status = "revoked"]_vars
  BY RevokedStays
<1> QED BY <1>1, KeysInvariant, PTL DEF Spec, RevokeIsFinal

\* However many links are redeemed at once, and whatever Stripe reports meanwhile,
\* a login mints the customer's first key or none (mint_developer_key_if_first_login).
THEOREM LoginsMintFirstKeys == Spec => LoginMintsFirstKey
<1>1. KeysInv /\ [Next]_vars =>
          [auto' # auto => events = 0 /\ \A k \in Keys : Spare(k)]_vars
  BY FirstKeyOnly
<1> QED BY <1>1, KeysInvariant, PTL DEF Spec, LoginMintsFirstKey

-----------------------------------------------------------------------------
(* The ceilings.                                                           *)

ActiveKeys == {k \in Keys : Active(k)}
RotatingKeys == {k \in Keys : InRotation(k)}

\* There is room for what a request is about to insert or to rotate.  A key that
\* lapsed after its rotation read it counts as the usable key it will be again.
Room(s) ==
    /\ Mints(s) /\ s.pc # "rotating" => RoomToMint
    /\ s.pc \in {"rotate", "rotating"} =>
           /\ Cardinality(ActiveKeys \ {s.key}) < MaxActive
           /\ Cardinality(UsableKeys \cup {s.key}) < MaxUsable
           /\ RotatingKeys = {}

CeilingsInv == Ceilings /\ \A r \in Requests : Room(req[r])

LEMMA SubsetCounts ==
  ASSUME NEW S \in SUBSET Keys, NEW T \in SUBSET S
  PROVE  /\ Cardinality(S) \in Nat /\ Cardinality(T) \in Nat
         /\ Cardinality(T) <= Cardinality(S)
<1>1. IsFiniteSet(S) /\ IsFiniteSet(T)
  BY FS_Subset
<1> QED BY <1>1, FS_Subset, FS_CardinalityType

LEMMA AddCounts ==
  ASSUME NEW S \in SUBSET Keys, NEW T \in SUBSET Keys, NEW n, T \subseteq S \cup {n}
  PROVE  /\ Cardinality(S) \in Nat /\ Cardinality(T) \in Nat
         /\ Cardinality(T) <= Cardinality(S) + 1
<1>1. IsFiniteSet(S) /\ IsFiniteSet(T)
  BY FS_Subset
<1>2. /\ IsFiniteSet(S \cup {n}) /\ Cardinality(S) \in Nat /\ Cardinality(T) \in Nat
      /\ Cardinality(S \cup {n}) \in {Cardinality(S), Cardinality(S) + 1}
  BY <1>1, FS_AddElement, FS_CardinalityType
<1>3. Cardinality(T) <= Cardinality(S \cup {n})
  BY <1>2, FS_Subset
<1> QED BY <1>2, <1>3

LEMMA NoClaimNoRoom ==
  ASSUME NEW s, s.pc \notin Claims
  PROVE  Room(s)
BY DEF Room, Mints, Claims

LEMMA KeySets ==
  /\ ActiveKeys \in SUBSET Keys /\ UsableKeys \in SUBSET Keys /\ RotatingKeys \in SUBSET Keys
  /\ ActiveKeys \subseteq UsableKeys /\ RotatingKeys \subseteq UsableKeys
BY DEF ActiveKeys, UsableKeys, RotatingKeys, Usable

LEMMA CeilingsOfSets ==
  Ceilings <=> /\ Cardinality(ActiveKeys) <= MaxActive
               /\ Cardinality(UsableKeys) <= MaxUsable
               /\ Cardinality(RotatingKeys) <= 1
BY DEF Ceilings, ActiveKeys, RotatingKeys

LEMMA RoomToMintOfSets ==
  RoomToMint <=> Cardinality(ActiveKeys) < MaxActive /\ Cardinality(UsableKeys) < MaxUsable
BY DEF RoomToMint, ActiveKeys

Shrinks ==
    /\ ActiveKeys' \subseteq ActiveKeys
    /\ UsableKeys' \subseteq UsableKeys
    /\ RotatingKeys' \subseteq RotatingKeys

LEMMA WithdrawsShrinks ==
  ASSUME Withdraws
  PROVE  Shrinks
BY DEF Withdraws, Shrinks, ActiveKeys, UsableKeys, RotatingKeys, Usable, Active, InRotation

\* With fewer keys the ceilings hold, and there is still room.
LEMMA ShrinksCeilings ==
  ASSUME CeilingsInv, Shrinks
  PROVE  Ceilings'
<1>1. /\ Cardinality(ActiveKeys') <= Cardinality(ActiveKeys)
      /\ Cardinality(UsableKeys') <= Cardinality(UsableKeys)
      /\ Cardinality(RotatingKeys') <= Cardinality(RotatingKeys)
      /\ Cardinality(ActiveKeys) \in Nat /\ Cardinality(ActiveKeys') \in Nat
      /\ Cardinality(UsableKeys) \in Nat /\ Cardinality(UsableKeys') \in Nat
      /\ Cardinality(RotatingKeys) \in Nat /\ Cardinality(RotatingKeys') \in Nat
  BY KeySets, SubsetCounts DEF Shrinks
<1>2. /\ Cardinality(ActiveKeys) <= MaxActive /\ Cardinality(UsableKeys) <= MaxUsable
      /\ Cardinality(RotatingKeys) <= 1
  BY CeilingsOfSets DEF CeilingsInv
<1>3. /\ Cardinality(ActiveKeys') <= MaxActive /\ Cardinality(UsableKeys') <= MaxUsable
      /\ Cardinality(RotatingKeys') <= 1
  BY <1>1, <1>2
<1> QED BY <1>3 DEF Ceilings, ActiveKeys, RotatingKeys

LEMMA ShrinksRoom ==
  ASSUME Shrinks, NEW s, Room(s), s.pc \in {"rotate", "rotating"} => s.key \in Keys
  PROVE  Room(s)'
<1>1. Mints(s) /\ s.pc # "rotating" => RoomToMint'
  <2> SUFFICES ASSUME Mints(s), s.pc # "rotating" PROVE RoomToMint'
    OBVIOUS
  <2>1. Cardinality(ActiveKeys) < MaxActive /\ Cardinality(UsableKeys) < MaxUsable
    BY RoomToMintOfSets DEF Room
  <2>2. /\ Cardinality(ActiveKeys') <= Cardinality(ActiveKeys)
        /\ Cardinality(UsableKeys') <= Cardinality(UsableKeys)
        /\ Cardinality(ActiveKeys) \in Nat /\ Cardinality(ActiveKeys') \in Nat
        /\ Cardinality(UsableKeys) \in Nat /\ Cardinality(UsableKeys') \in Nat
    BY KeySets, SubsetCounts DEF Shrinks
  <2>3. Cardinality(ActiveKeys') < MaxActive /\ Cardinality(UsableKeys') < MaxUsable
    BY <2>1, <2>2
  <2> QED BY <2>3 DEF RoomToMint, ActiveKeys
<1>2. s.pc \in {"rotate", "rotating"} =>
          /\ Cardinality(ActiveKeys' \ {s.key}) < MaxActive
          /\ Cardinality(UsableKeys' \cup {s.key}) < MaxUsable
          /\ RotatingKeys' = {}
  <2> SUFFICES ASSUME s.pc \in {"rotate", "rotating"}
               PROVE  /\ Cardinality(ActiveKeys' \ {s.key}) < MaxActive
                      /\ Cardinality(UsableKeys' \cup {s.key}) < MaxUsable
                      /\ RotatingKeys' = {}
    OBVIOUS
  <2>1. /\ Cardinality(ActiveKeys \ {s.key}) < MaxActive
        /\ Cardinality(UsableKeys \cup {s.key}) < MaxUsable
        /\ RotatingKeys = {}
    BY DEF Room
  <2>2. /\ ActiveKeys' \ {s.key} \in SUBSET (ActiveKeys \ {s.key})
        /\ UsableKeys' \cup {s.key} \in SUBSET (UsableKeys \cup {s.key})
        /\ ActiveKeys \ {s.key} \in SUBSET Keys /\ UsableKeys \cup {s.key} \in SUBSET Keys
    BY KeySets DEF Shrinks
  <2>3. /\ Cardinality(ActiveKeys' \ {s.key}) <= Cardinality(ActiveKeys \ {s.key})
        /\ Cardinality(UsableKeys' \cup {s.key}) <= Cardinality(UsableKeys \cup {s.key})
        /\ Cardinality(ActiveKeys' \ {s.key}) \in Nat /\ Cardinality(ActiveKeys \ {s.key}) \in Nat
        /\ Cardinality(UsableKeys' \cup {s.key}) \in Nat
        /\ Cardinality(UsableKeys \cup {s.key}) \in Nat
    BY <2>2, SubsetCounts
  <2>4. RotatingKeys' = {}
    BY <2>1 DEF Shrinks
  <2> QED BY <2>1, <2>3, <2>4
<1> QED BY <1>1, <1>2 DEF Room, Mints

\* A step that inserts nothing leaves room for the others.
LEMMA ShrinksStep ==
  ASSUME KeysInv, CeilingsInv, Shrinks, NEW r \in Requests, OthersStay(r), Room(req[r])'
  PROVE  CeilingsInv'
<1>1. ASSUME NEW q \in Requests \ {r} PROVE Room(req[q])'
  <2>1. CASE req[q].pc \in Claims
    <3>1. req'[q] = req[q]
      BY <2>1 DEF OthersStay
    <3>2. PICK s : s = req[q]
      OBVIOUS
    <3>3. s.pc \in {"rotate", "rotating"} => s.key \in Keys
      BY <3>2, RequestKinds DEF KeysInv, TypeOK, Keyed
    <3>4. Room(s)
      BY <3>2 DEF CeilingsInv
    <3>5. Room(s)'
      BY <3>3, <3>4, ShrinksRoom
    <3> QED BY <3>1, <3>2, <3>5 DEF Room, Mints
  <2>2. CASE req[q].pc \notin Claims
    <3>1. req'[q].pc \notin Claims
      BY <2>2 DEF OthersStay
    <3> QED BY <3>1 DEF Room, Mints, Claims
  <2> QED BY <2>1, <2>2
<1> QED BY <1>1, ShrinksCeilings DEF CeilingsInv

LEMMA SameKeys ==
  ASSUME UNCHANGED <<row, over>>
  PROVE  Shrinks
BY DEF Shrinks, ActiveKeys, UsableKeys, RotatingKeys, Usable, Active, InRotation

\* r goes on to s, for which there is room.
LEMMA TakeStep ==
  ASSUME KeysInv, CeilingsInv, UNCHANGED <<row, over>>, NEW r \in Requests, OthersStay(r),
         NEW s, req'[r] = s, Room(s), s.pc \in {"rotate", "rotating"} => s.key \in Keys
  PROVE  CeilingsInv'
<1>1. Room(s)'
  BY SameKeys, ShrinksRoom
<1>2. Room(req[r])'
  BY <1>1 DEF Room, Mints
<1> QED BY <1>2, SameKeys, ShrinksStep

LEMMA CreateMintRoom ==
  ASSUME KeysInv, CeilingsInv, NEW r \in Requests, CreateMint(r)
  PROVE  CeilingsInv'
<1>1. PICK k \in Keys : Goto(r, [pc |-> "minting", new |-> k, plan |-> req[r].plan])
  BY DEF CreateMint
<1> DEFINE s == [pc |-> "minting", new |-> k, plan |-> req[r].plan]
<1>2. s.pc = "minting" /\ RoomToMint /\ UNCHANGED <<row, over>> /\ Goto(r, s)
  BY <1>1 DEF CreateMint
<1> HIDE DEF s
<1>3. Room(s)
  BY <1>2 DEF Room
<1>4. req'[r] = s /\ OthersStay(r)
  BY <1>2, GotoReq DEF KeysInv
<1> QED BY <1>2, <1>3, <1>4, TakeStep

LEMMA LoginMintRoom ==
  ASSUME KeysInv, CeilingsInv, NEW r \in Requests, LoginMint(r)
  PROVE  CeilingsInv'
<1>1. PICK new \in Keys \cup {NoKey} :
          /\ new # NoKey => FirstLogin
          /\ Goto(r, [pc |-> "login", token |-> req[r].token, new |-> new])
  BY DEF LoginMint
<1> DEFINE s == [pc |-> "login", token |-> req[r].token, new |-> new]
<1>2. s.pc = "login" /\ s.new = new /\ UNCHANGED <<row, over>> /\ Goto(r, s)
  BY <1>1 DEF LoginMint
<1> HIDE DEF s
<1>3. FirstLogin => RoomToMint
  <2> SUFFICES ASSUME FirstLogin PROVE RoomToMint
    OBVIOUS
  <2>1. ActiveKeys = {} /\ UsableKeys = {}
    BY DEF FirstLogin, Spare, ActiveKeys, UsableKeys, Usable, Active, InRotation
  <2>2. Cardinality({}) < MaxActive /\ Cardinality({}) < MaxUsable
    BY FS_EmptySet
  <2> QED BY <2>1, <2>2, RoomToMintOfSets
<1>4. Room(s)
  BY <1>1, <1>2, <1>3 DEF Room, Mints
<1>5. req'[r] = s /\ OthersStay(r)
  BY <1>2, GotoReq DEF KeysInv
<1> QED BY <1>2, <1>4, <1>5, TakeStep

\* The key that is to rotate is active, so without it there is one less.
LEMMA RotateReadRoom ==
  ASSUME KeysInv, CeilingsInv, NEW r \in Requests, NEW k \in Keys, RotateRead(r, k)
  PROVE  CeilingsInv'
<1> DEFINE s == [pc |-> "rotate", key |-> k, plan |-> row[k].plan]
<1>1. /\ s.pc = "rotate" /\ s.key = k /\ UNCHANGED <<row, over>> /\ Goto(r, s)
      /\ Active(k) /\ RotatingKeys = {} /\ Cardinality(UsableKeys) < MaxUsable
  BY DEF RotateRead, RotatingKeys
<1> HIDE DEF s
<1>2. k \in ActiveKeys /\ k \in UsableKeys
  BY <1>1 DEF ActiveKeys, UsableKeys, Usable
<1>3. Cardinality(ActiveKeys \ {k}) < MaxActive
  <2>1. IsFiniteSet(ActiveKeys)
    BY KeySets, FS_Subset
  <2>2. Cardinality(ActiveKeys \ {k}) = Cardinality(ActiveKeys) - 1
    BY <1>2, <2>1, FS_RemoveElement
  <2>3. Cardinality(ActiveKeys) \in Nat /\ Cardinality(ActiveKeys) <= MaxActive
    BY <2>1, FS_CardinalityType, CeilingsOfSets DEF CeilingsInv
  <2> QED BY <2>2, <2>3
<1>4. UsableKeys \cup {k} = UsableKeys
  BY <1>2
<1>5. Room(s)
  BY <1>1, <1>3, <1>4 DEF Room, Mints
<1>6. req'[r] = s /\ OthersStay(r)
  BY <1>1, GotoReq DEF KeysInv
<1> QED BY <1>1, <1>5, <1>6, TakeStep

LEMMA RotateFlushRoom ==
  ASSUME KeysInv, CeilingsInv, NEW r \in Requests, RotateFlush(r)
  PROVE  CeilingsInv'
<1>1. PICK n \in Keys :
          Invalidate(r, [pc |-> "rotating", key |-> req[r].key, new |-> n,
                         plan |-> req[r].plan], {req[r].key})
  BY DEF RotateFlush
<1> DEFINE s == [pc |-> "rotating", key |-> req[r].key, new |-> n, plan |-> req[r].plan]
<1>2. /\ s.pc = "rotating" /\ s.key = req[r].key /\ req[r].pc = "rotate"
      /\ UNCHANGED <<row, over>> /\ Invalidate(r, s, {req[r].key})
  BY <1>1 DEF RotateFlush
<1> HIDE DEF s
<1>3. s.key \in Keys
  BY <1>2, RequestKinds DEF KeysInv, TypeOK, Keyed
<1>4. Room(s)
  BY <1>2 DEF CeilingsInv, Room
<1>5. req'[r] = s /\ OthersStay(r)
  BY <1>2, InvalidateReq DEF KeysInv
<1> QED BY <1>2, <1>3, <1>4, <1>5, TakeStep

LEMMA SubscriptionEventRoom ==
  ASSUME KeysInv, CeilingsInv, NEW r \in Requests, NEW p \in Plans, SubscriptionEvent(r, p)
  PROVE  CeilingsInv'
<1>1. PICK new \in Keys \cup {NoKey} :
          /\ new # NoKey => UsableKeys = {}
          /\ Invalidate(r, [pc |-> "billing", keys |-> OtherPlan(p), new |-> new, plan |-> p],
                        OtherPlan(p))
  BY DEF SubscriptionEvent
<1> DEFINE s == [pc |-> "billing", keys |-> OtherPlan(p), new |-> new, plan |-> p]
<1>2. /\ s.pc = "billing" /\ s.new = new
      /\ UNCHANGED <<row, over>> /\ Invalidate(r, s, OtherPlan(p))
  BY <1>1 DEF SubscriptionEvent
<1> HIDE DEF s
<1>3. UsableKeys = {} => RoomToMint
  <2> SUFFICES ASSUME UsableKeys = {} PROVE RoomToMint
    OBVIOUS
  <2>1. ActiveKeys = {}
    BY KeySets
  <2>2. Cardinality({}) < MaxActive /\ Cardinality({}) < MaxUsable
    BY FS_EmptySet
  <2> QED BY <2>1, <2>2, RoomToMintOfSets
<1>4. Room(s)
  BY <1>1, <1>2, <1>3 DEF Room, Mints
<1>5. req'[r] = s /\ OthersStay(r)
  BY <1>2, InvalidateReq DEF KeysInv
<1> QED BY <1>2, <1>4, <1>5, TakeStep

-----------------------------------------------------------------------------
\* After the holder's commit nobody has a claim to room.
LEMMA HolderLeaves ==
  ASSUME KeysInv, NEW r \in Requests, req[r].pc \in Holding, OthersStay(r),
         req'[r].pc \notin Claims
  PROVE  \A q \in Requests : Room(req[q])'
<1> SUFFICES ASSUME NEW q \in Requests PROVE req'[q].pc \notin Claims
  BY DEF Room, Mints, Claims
<1>1. CASE q = r
  BY <1>1
<1>2. CASE q # r
  <2>1. req[q].pc \notin Holding
    BY <1>2, HoldersHold DEF KeysInv, Mutex
  <2> QED BY <1>2, <2>1 DEF OthersStay, Holding, Claims
<1> QED BY <1>1, <1>2

LEMMA InsertsCeilings ==
  ASSUME KeysInv, CeilingsInv, NEW r \in Requests, Inserts(r)
  PROVE  Ceilings'
<1>1. PICK n \in Keys : /\ Spare(n) /\ Mints(req[r]) /\ row'[n].status = "active"
                        /\ \A k \in Keys \ {n} : row'[k].status = row[k].status
  BY DEF Inserts
<1>2. RoomToMint
  BY <1>1 DEF Inserts, CeilingsInv, Room
<1>3. /\ ActiveKeys' \subseteq ActiveKeys \cup {n}
      /\ UsableKeys' \subseteq UsableKeys \cup {n}
      /\ RotatingKeys' \subseteq RotatingKeys
  BY <1>1 DEF Inserts, ActiveKeys, UsableKeys, RotatingKeys, Usable, Active, InRotation
<1>4. ActiveKeys' \in SUBSET Keys /\ UsableKeys' \in SUBSET Keys /\ RotatingKeys' \in SUBSET Keys
  BY DEF ActiveKeys, UsableKeys, RotatingKeys
<1>5. Cardinality(ActiveKeys') <= MaxActive
  <2>1. /\ Cardinality(ActiveKeys) \in Nat /\ Cardinality(ActiveKeys') \in Nat
        /\ Cardinality(ActiveKeys') <= Cardinality(ActiveKeys) + 1
    BY <1>3, <1>4, KeySets, AddCounts
  <2> QED BY <1>2, <2>1, RoomToMintOfSets
<1>6. Cardinality(UsableKeys') <= MaxUsable
  <2>1. /\ Cardinality(UsableKeys) \in Nat /\ Cardinality(UsableKeys') \in Nat
        /\ Cardinality(UsableKeys') <= Cardinality(UsableKeys) + 1
    BY <1>3, <1>4, KeySets, AddCounts
  <2> QED BY <1>2, <2>1, RoomToMintOfSets
<1>7. Cardinality(RotatingKeys') <= 1
  <2>1. /\ Cardinality(RotatingKeys) \in Nat /\ Cardinality(RotatingKeys') \in Nat
        /\ Cardinality(RotatingKeys') <= Cardinality(RotatingKeys)
    BY <1>3, KeySets, SubsetCounts
  <2> QED BY <2>1, CeilingsOfSets DEF CeilingsInv
<1> QED BY <1>5, <1>6, <1>7 DEF Ceilings, ActiveKeys, RotatingKeys

\* The rotated key leaves the active ones, or had left them; its successor joins.
LEMMA RotatesCeilings ==
  ASSUME KeysInv, CeilingsInv, NEW r \in Requests, Rotates(r)
  PROVE  Ceilings'
<1>1. PICK k, n \in Keys :
          /\ k = req[r].key /\ Spare(n) /\ k # n
          /\ row'[k].status = "rotating" /\ row'[n].status = "active"
          /\ \A j \in Keys \ {k, n} : row'[j].status = row[j].status
  BY DEF Rotates
<1> DEFINE Rest == ActiveKeys \ {k}
<1> DEFINE Counted == UsableKeys \cup {k}
<1>2. /\ Cardinality(Rest) < MaxActive /\ Cardinality(Counted) < MaxUsable
      /\ RotatingKeys = {}
  BY <1>1 DEF Rotates, CeilingsInv, Room
<1>3. /\ ActiveKeys' \subseteq Rest \cup {n}
      /\ UsableKeys' \subseteq Counted \cup {n}
      /\ RotatingKeys' \subseteq RotatingKeys \cup {k}
  BY <1>1 DEF Rotates, ActiveKeys, UsableKeys, RotatingKeys, Usable, Active, InRotation
<1>4. /\ ActiveKeys' \in SUBSET Keys /\ UsableKeys' \in SUBSET Keys /\ RotatingKeys' \in SUBSET Keys
      /\ Rest \in SUBSET Keys /\ Counted \in SUBSET Keys /\ RotatingKeys \in SUBSET Keys
  BY DEF ActiveKeys, UsableKeys, RotatingKeys
<1> HIDE DEF Rest, Counted
<1>5. Cardinality(ActiveKeys') <= MaxActive
  <2>1. /\ Cardinality(Rest) \in Nat /\ Cardinality(ActiveKeys') \in Nat
        /\ Cardinality(ActiveKeys') <= Cardinality(Rest) + 1
    BY <1>3, <1>4, AddCounts
  <2> QED BY <1>2, <2>1
<1>6. Cardinality(UsableKeys') <= MaxUsable
  <2>1. /\ Cardinality(Counted) \in Nat /\ Cardinality(UsableKeys') \in Nat
        /\ Cardinality(UsableKeys') <= Cardinality(Counted) + 1
    BY <1>3, <1>4, AddCounts
  <2> QED BY <1>2, <2>1
<1>7. Cardinality(RotatingKeys') <= 1
  <2>1. Cardinality(RotatingKeys') <= Cardinality(RotatingKeys) + 1
    BY <1>3, <1>4, AddCounts
  <2>2. Cardinality(RotatingKeys) = 0
    BY <1>2, FS_EmptySet
  <2> QED BY <2>1, <2>2
<1> QED BY <1>5, <1>6, <1>7 DEF Ceilings, ActiveKeys, RotatingKeys

LEMMA CommitsCeilings ==
  ASSUME KeysInv, CeilingsInv, NEW r \in Requests, Commits(r), OthersStay(r),
         req'[r].pc \notin Claims
  PROVE  CeilingsInv'
<1>1. CASE Withdraws
  <2>1. Room(req[r])'
    BY DEF Room, Mints, Claims
  <2> QED BY <1>1, <2>1, WithdrawsShrinks, ShrinksStep
<1>2. CASE Inserts(r)
  <2>1. req[r].pc \in Holding
    BY <1>2 DEF Inserts, Holding
  <2> QED BY <1>2, <2>1, InsertsCeilings, HolderLeaves DEF CeilingsInv
<1>3. CASE Rotates(r)
  <2>1. req[r].pc \in Holding
    BY <1>3 DEF Rotates, Holding
  <2> QED BY <1>3, <2>1, RotatesCeilings, HolderLeaves DEF CeilingsInv
<1> QED BY <1>1, <1>2, <1>3, CommitRows

-----------------------------------------------------------------------------
LEMMA InitCeilingsInv == Init => CeilingsInv
<1> SUFFICES ASSUME Init PROVE CeilingsInv
  OBVIOUS
<1>1. ActiveKeys = {} /\ UsableKeys = {} /\ RotatingKeys = {}
  BY DEF Init, ActiveKeys, UsableKeys, RotatingKeys, Usable, Active, InRotation
<1>2. Ceilings
  BY <1>1, FS_EmptySet, CeilingsOfSets
<1>3. \A r \in Requests : Room(req[r])
  BY DEF Init, Idle, Room, Mints
<1> QED BY <1>2, <1>3 DEF CeilingsInv

LEMMA NextCeilingsInv == KeysInv /\ CeilingsInv /\ [Next]_vars => CeilingsInv'
<1> SUFFICES ASSUME KeysInv, CeilingsInv, [Next]_vars PROVE CeilingsInv'
  OBVIOUS
<1>1. ASSUME NEW r \in Requests, RequestStep(r) PROVE CeilingsInv'
  <2>1. OthersStay(r) /\ (Takes(r) \/ req'[r].pc \notin Claims)
    BY <1>1, StepMoves DEF KeysInv
  <2>2. CASE Takes(r)
    BY <2>2, CreateMintRoom, RotateFlushRoom, LoginMintRoom, RotateReadRoom,
       SubscriptionEventRoom DEF Takes
  <2>3. CASE req'[r].pc \notin Claims /\ Commits(r)
    BY <2>1, <2>3, CommitsCeilings
  <2>4. CASE req'[r].pc \notin Claims /\ UNCHANGED <<row, over, auto>>
    <3>1. Room(req[r])'
      BY <2>4 DEF Room, Mints, Claims
    <3> QED BY <2>1, <2>4, <3>1, SameKeys, ShrinksStep
  <2> QED BY <1>1, <2>1, <2>2, <2>3, <2>4, OnlyCommitsWrite
<1>2. CASE Restart
  <2>1. UNCHANGED <<row, over>> /\ \A q \in Requests : Room(req[q])'
    BY <1>2 DEF Restart, Idle, Room, Mints
  <2> QED BY <2>1, SameKeys, ShrinksCeilings DEF CeilingsInv
<1>3. CASE (\E k \in Keys : CacheDrop(k) \/ OverlapEnds(k) \/ RevealLapses(k)) \/ UNCHANGED vars
  <2>1. UNCHANGED <<row, req>> /\ over \subseteq over'
    BY <1>3 DEF CacheDrop, OverlapEnds, RevealLapses, vars
  <2>2. Shrinks
    BY <2>1, WithdrawsShrinks DEF Withdraws
  <2>3. \A r \in Requests : OthersStay(r)
    BY <2>1 DEF OthersStay
  <2>4. ASSUME NEW r \in Requests PROVE Room(req[r])'
    <3>1. PICK s : s = req[r]
      OBVIOUS
    <3>2. Room(s) /\ (s.pc \in {"rotate", "rotating"} => s.key \in Keys)
      BY <3>1, RequestKinds DEF CeilingsInv, KeysInv, TypeOK, Keyed
    <3>3. Room(s)'
      BY <2>2, <3>2, ShrinksRoom
    <3> QED BY <2>1, <3>1, <3>3 DEF Room, Mints
  <2> QED BY <2>2, <2>4, ShrinksCeilings DEF CeilingsInv
<1> QED BY <1>1, <1>2, <1>3 DEF Next

\* For any ceilings, a customer's active and usable keys stay within them, and one
\* key at a time rotates, even where a lapse revokes the key in the middle of its
\* rotation (mint_key, rotate_key, expire_stale_reveal).
THEOREM CeilingsHold == Spec => []Ceilings
<1>1. Init => KeysInv /\ CeilingsInv
  BY InitKeysInv, InitCeilingsInv
<1>2. KeysInv /\ CeilingsInv /\ [Next]_vars => KeysInv' /\ CeilingsInv'
  BY NextKeysInv, NextCeilingsInv
<1>3. CeilingsInv => Ceilings
  BY DEF CeilingsInv
<1> QED BY <1>1, <1>2, <1>3, PTL DEF Spec
=============================================================================
