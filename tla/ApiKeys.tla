------------------------------- MODULE ApiKeys -------------------------------
(***************************************************************************)
(* The API keys of one customer: minting, rotation, revocation, the lazy   *)
(* end of a key nobody revealed, the plan the billing webhook stamps on    *)
(* the keys, the first login's key, and the process's resolution cache.    *)
(*                                                                         *)
(* Every request is a transaction under READ COMMITTED.  A step reads or   *)
(* locks, a later one commits, and the cache, which is not transactional,  *)
(* is invalidated once before the commit and once after it.                *)
(***************************************************************************)
EXTENDS Integers, FiniteSets

CONSTANTS
    Keys,       \* bound: the api_keys rows the customer may ever have
    Presented,  \* bound: the keys that clients present
    Tokens,     \* bound: the magic links sent to the customer
    Requests,   \* request threads of the one API process
    MaxUsable,  \* MAX_USABLE_KEYS_PER_CUSTOMER (3)
    MaxActive,  \* MAX_ACTIVE_KEYS_PER_CUSTOMER (2)
    MaxEvents,  \* bound: billing events that come in
    NoKey

ASSUME KeysAssumption ==
    /\ IsFiniteSet(Keys) /\ NoKey \notin Keys /\ Presented \subseteq Keys
    /\ MaxUsable \in Nat \ {0} /\ MaxActive \in Nat \ {0} /\ MaxEvents \in Nat

VARIABLES
    row,     \* api_keys, as committed
    over,    \* keys whose revoke_at has passed
    lapsed,  \* keys whose reveal window has ended
    plan,    \* customer_plan, of the committed subscriptions
    events,  \* billing events so far; the first makes the customer known to Stripe
    used,    \* login tokens with a used_at
    cache,   \* _cache: what a key was last resolved to
    req,     \* per request: what it is at
    told,    \* per key: how often its plaintext was sent out
    auto     \* the keys first logins minted

vars == <<row, over, lapsed, plan, events, used, cache, req, told, auto>>

Plans == {"developer", "paid"}
\* "none" is a row not inserted yet; sealed: reveal_ciphertext is not null.
Rows == [status : {"none", "active", "rotating", "revoked"}, plan : Plans, sealed : BOOLEAN]

Missing == [status |-> "missing"]
Resolved == [status : {"active", "rotating", "revoked"}, plan : Plans]

Idle == [pc |-> "idle"]
RequestStates ==
    {Idle}
    \cup [pc : {"create"}, plan : Plans]                          \* plan read, no lock yet
    \cup [pc : {"minting"}, new : Keys, plan : Plans]
    \cup [pc : {"rotate"}, key : Keys, plan : Plans]              \* locked and read
    \cup [pc : {"rotating"}, key : Keys, new : Keys, plan : Plans] \* flushed
    \cup [pc : {"revoking", "revealing"}, key : Keys]
    \cup [pc : {"billing"}, keys : SUBSET Keys, new : Keys \cup {NoKey}, plan : Plans]
    \cup [pc : {"refund"}, keys : SUBSET Keys]
    \cup [pc : {"claimed"}, token : Tokens]
    \cup [pc : {"login"}, token : Tokens, new : Keys \cup {NoKey}]
    \cup [pc : {"look"}, key : Keys]                              \* GET /account/me
    \cup [pc : {"resolve"}, key : Keys, raced : BOOLEAN]          \* resolve_key, cache missed
    \cup [pc : {"loaded"}, key : Keys, raced : BOOLEAN, seen : Rows]
    \cup [pc : {"owes"}, keys : SUBSET Keys]                      \* committed, not yet invalidated

TypeOK ==
    /\ row \in [Keys -> Rows]
    /\ over \in SUBSET Keys /\ lapsed \in SUBSET Keys
    /\ plan \in Plans /\ events \in Nat /\ used \in SUBSET Tokens
    /\ cache \in [Keys -> Resolved \cup {Missing}]
    /\ req \in [Requests -> RequestStates]
    /\ told \in [Keys -> Nat] /\ auto \in SUBSET Keys

Init ==
    /\ row = [k \in Keys |-> [status |-> "none", plan |-> "developer", sealed |-> FALSE]]
    /\ over = {} /\ lapsed = {}
    /\ plan = "developer" /\ events = 0 /\ used = {}
    /\ cache = [k \in Keys |-> Missing]
    /\ req = [r \in Requests |-> Idle]
    /\ told = [k \in Keys |-> 0] /\ auto = {}

-----------------------------------------------------------------------------
(* Locks and what is read under them.                                      *)

\* SELECT ... FOR UPDATE of the customer's row, to the end of the transaction.
HoldsCustomer(r) ==
    req[r].pc \in {"minting", "rotate", "rotating", "revoking", "billing", "login"}
CustomerFree == \A r \in Requests : ~HoldsCustomer(r)

\* The lock on a key's row, taken by a flushed UPDATE or by FOR UPDATE.
HoldsRow(r, k) == req[r].pc \in {"rotating", "revoking", "revealing"} /\ req[r].key = k
RowFree(k) == \A r \in Requests : ~HoldsRow(r, k)

\* Two events of the customer's subscription wait for each other on its row.
BillingFree == \A r \in Requests : req[r].pc \notin {"billing", "refund"}

Active(k) == row[k].status = "active"
InRotation(k) == row[k].status = "rotating" /\ k \notin over
Usable(k) == Active(k) \/ InRotation(k)
UsableKeys == {k \in Keys : Usable(k)}

Spare(k) == row[k].status = "none"

\* A session cookie is had by redeeming a login token.
LoggedIn == used # {}

\* A live key that waits to be revealed.
Awaits(seen) == seen.status \in {"active", "rotating"} /\ seen.sealed

NewRow(p, sealed) == [status |-> "active", plan |-> p, sealed |-> sealed]

-----------------------------------------------------------------------------
(* The cache.                                                              *)

\* Mutant: invalidate() only pops the cache.
NoTombstone(rs, ks) == rs

\* A tombstone at or after a read's start keeps what it read out of the cache.
Tombstone(rs, ks) ==
    [r \in Requests |->
        IF rs[r].pc \in {"resolve", "loaded"} /\ rs[r].key \in ks
        THEN [rs[r] EXCEPT !.raced = TRUE] ELSE rs[r]]

Dropped(ks) == [k \in Keys |-> IF k \in ks THEN Missing ELSE cache[k]]

\* r goes on to `next', and invalidate() has run for each of ks.
Invalidate(r, next, ks) ==
    /\ cache' = Dropped(ks)
    /\ req' = Tombstone([req EXCEPT ![r] = next], ks)

\* r goes on to `next'.
Goto(r, next) == req' = [req EXCEPT ![r] = next] /\ UNCHANGED cache

\* The after_commit hook, or what follows expire_stale_reveal's commit.
AfterCommit(r) ==
    /\ req[r].pc = "owes"
    /\ Invalidate(r, Idle, req[r].keys)
    /\ UNCHANGED <<row, over, lapsed, plan, events, used, told, auto>>

\* Mutant: a key that is nobody's is resolved, and the miss is cached.
ResolveAny(r, k) ==
    /\ req[r] = Idle /\ k \in Presented /\ cache[k] = Missing
    /\ Goto(r, [pc |-> "resolve", key |-> k, raced |-> FALSE])
    /\ UNCHANGED <<row, over, lapsed, plan, events, used, told, auto>>

\* resolve_key misses the cache: read_started_at is taken ...
ResolveStart(r, k) ==
    /\ req[r] = Idle /\ k \in Presented /\ ~Spare(k) /\ cache[k] = Missing
    /\ Goto(r, [pc |-> "resolve", key |-> k, raced |-> FALSE])
    /\ UNCHANGED <<row, over, lapsed, plan, events, used, told, auto>>

\* ... the row is read ...
ResolveRead(r) ==
    /\ req[r].pc = "resolve"
    /\ Goto(r, [pc |-> "loaded", key |-> req[r].key, raced |-> req[r].raced,
                seen |-> row[req[r].key]])
    /\ UNCHANGED <<row, over, lapsed, plan, events, used, told, auto>>

\* ... and kept, unless it was tombstoned meanwhile.
ResolveStore(r) ==
    /\ req[r].pc = "loaded" /\ ~(Awaits(req[r].seen) /\ req[r].key \in lapsed)
    /\ req' = [req EXCEPT ![r] = Idle]
    /\ cache' = IF req[r].raced THEN cache
                ELSE [cache EXCEPT ![req[r].key] =
                          [status |-> req[r].seen.status, plan |-> req[r].seen.plan]]
    /\ UNCHANGED <<row, over, lapsed, plan, events, used, told, auto>>

\* The TTL, or an eviction at _MAX_CACHE_ENTRIES.
CacheDrop(k) ==
    /\ cache[k] # Missing
    /\ cache' = Dropped({k})
    /\ UNCHANGED <<row, over, lapsed, plan, events, used, req, told, auto>>

-----------------------------------------------------------------------------
(* Keys that are never revealed.                                           *)

\* GET /account/me reads the keys ...
Look(r, k) ==
    /\ req[r] = Idle /\ LoggedIn /\ Awaits(row[k])
    /\ Goto(r, [pc |-> "look", key |-> k])
    /\ UNCHANGED <<row, over, lapsed, plan, events, used, told, auto>>

LookEnds(r) ==
    /\ req[r].pc = "look" /\ req[r].key \notin lapsed
    /\ Goto(r, Idle)
    /\ UNCHANGED <<row, over, lapsed, plan, events, used, told, auto>>

Expired(k) == row' = [row EXCEPT ![k].status = "revoked", ![k].sealed = FALSE]

\* ... and whoever finds the window ended on what it READ revokes the key and
\* commits.  No lock on the customer is taken, and the row is not read again.
ExpireStaleReveal(r) ==
    /\ req[r].pc = "look" \/ (req[r].pc = "loaded" /\ Awaits(req[r].seen))
    /\ req[r].key \in lapsed /\ RowFree(req[r].key)
    /\ Expired(req[r].key)
    /\ Goto(r, [pc |-> "owes", keys |-> {req[r].key}])
    /\ UNCHANGED <<over, lapsed, plan, events, used, told, auto>>

\* reveal_key_endpoint locks the key's row, and claims the ciphertext by a
\* conditional UPDATE.
Reveal(r, k) ==
    /\ req[r] = Idle /\ LoggedIn /\ RowFree(k)
    /\ row[k].sealed /\ k \notin lapsed
    /\ Goto(r, [pc |-> "revealing", key |-> k])
    /\ UNCHANGED <<row, over, lapsed, plan, events, used, told, auto>>

\* Mutant: the plaintext is returned, the columns stay.
RevealKept(r) ==
    /\ req[r].pc = "revealing"
    /\ told' = [told EXCEPT ![req[r].key] = @ + 1]
    /\ Goto(r, Idle)
    /\ UNCHANGED <<row, over, lapsed, plan, events, used, auto>>

RevealCommit(r) ==
    /\ req[r].pc = "revealing"
    /\ row' = [row EXCEPT ![req[r].key].sealed = FALSE]
    /\ told' = [told EXCEPT ![req[r].key] = IF row[req[r].key].sealed THEN @ + 1 ELSE @]
    /\ Goto(r, Idle)
    /\ UNCHANGED <<over, lapsed, plan, events, used, auto>>

\* Too late: the key is revoked instead.
RevealLate(r, k) ==
    /\ req[r] = Idle /\ LoggedIn /\ RowFree(k) /\ Awaits(row[k]) /\ k \in lapsed
    /\ Expired(k)
    /\ Goto(r, [pc |-> "owes", keys |-> {k}])
    /\ UNCHANGED <<over, lapsed, plan, events, used, told, auto>>

-----------------------------------------------------------------------------
(* Minting, rotating, revoking.                                            *)

\* mint_key, its caller holding the customer's row.
RoomToMint ==
    /\ Cardinality({k \in Keys : Active(k)}) < MaxActive
    /\ Cardinality(UsableKeys) < MaxUsable

\* create_key derives the plan before mint_key takes the lock.
CreateRead(r) ==
    /\ req[r] = Idle /\ LoggedIn
    /\ Goto(r, [pc |-> "create", plan |-> plan])
    /\ UNCHANGED <<row, over, lapsed, plan, events, used, told, auto>>

\* Mutant: the ceilings are read without the lock.
CreateUnlocked(r) ==
    /\ req[r].pc = "create" /\ RoomToMint
    /\ \E k \in Keys :
           /\ Spare(k) /\ \A s \in Requests : req[s].pc \in {"minting", "rotating"} => req[s].new # k
           /\ Goto(r, [pc |-> "minting", new |-> k, plan |-> req[r].plan])
    /\ UNCHANGED <<row, over, lapsed, plan, events, used, told, auto>>

CreateMint(r) ==
    /\ req[r].pc = "create" /\ CustomerFree /\ RoomToMint
    /\ \E k \in Keys :
           /\ Spare(k)
           /\ Goto(r, [pc |-> "minting", new |-> k, plan |-> req[r].plan])
    /\ UNCHANGED <<row, over, lapsed, plan, events, used, told, auto>>

\* 409.
CreateRefused(r) ==
    /\ req[r].pc = "create" /\ CustomerFree /\ ~RoomToMint
    /\ Goto(r, Idle)
    /\ UNCHANGED <<row, over, lapsed, plan, events, used, told, auto>>

\* The plaintext is in the response.
CreateCommit(r) ==
    /\ req[r].pc = "minting"
    /\ row' = [row EXCEPT ![req[r].new] = NewRow(req[r].plan, FALSE)]
    /\ told' = [told EXCEPT ![req[r].new] = @ + 1]
    /\ Goto(r, Idle)
    /\ UNCHANGED <<over, lapsed, plan, events, used, auto>>

\* rotate_key locks the customer and reads: the key is active, no rotation is
\* in flight and there is room ...
RotateRead(r, k) ==
    /\ req[r] = Idle /\ LoggedIn /\ CustomerFree
    /\ Active(k) /\ ~\E o \in Keys : InRotation(o)
    /\ Cardinality(UsableKeys) < MaxUsable
    /\ Goto(r, [pc |-> "rotate", key |-> k, plan |-> row[k].plan])
    /\ UNCHANGED <<row, over, lapsed, plan, events, used, told, auto>>

\* ... and flushes, whatever became of the key since.
RotateFlush(r) ==
    /\ req[r].pc = "rotate" /\ RowFree(req[r].key)
    /\ \E n \in Keys :
           /\ Spare(n)
           /\ Invalidate(r, [pc |-> "rotating", key |-> req[r].key, new |-> n,
                             plan |-> req[r].plan], {req[r].key})
    /\ UNCHANGED <<row, over, lapsed, plan, events, used, told, auto>>

RotateCommit(r) ==
    /\ req[r].pc = "rotating"
    /\ row' = [row EXCEPT ![req[r].key].status = "rotating",
                          ![req[r].new] = NewRow(req[r].plan, FALSE)]
    /\ told' = [told EXCEPT ![req[r].new] = @ + 1]
    /\ Goto(r, [pc |-> "owes", keys |-> {req[r].key}])
    /\ UNCHANGED <<over, lapsed, plan, events, used, auto>>

\* Mutant: revoke_key takes no lock on the customer.
RevokeUnlocked(r, k) ==
    /\ req[r] = Idle /\ LoggedIn /\ RowFree(k)
    /\ ~Spare(k)
    /\ Invalidate(r, [pc |-> "revoking", key |-> k], {k})
    /\ UNCHANGED <<row, over, lapsed, plan, events, used, told, auto>>

\* revoke_key, to its flush: under the customer's lock, whatever the status.
RevokeFlush(r, k) ==
    /\ req[r] = Idle /\ LoggedIn /\ CustomerFree /\ RowFree(k)
    /\ ~Spare(k)
    /\ Invalidate(r, [pc |-> "revoking", key |-> k], {k})
    /\ UNCHANGED <<row, over, lapsed, plan, events, used, told, auto>>

RevokeCommit(r) ==
    /\ req[r].pc = "revoking"
    /\ row' = [row EXCEPT ![req[r].key].status = "revoked"]
    /\ over' = over \cup {req[r].key}
    /\ Goto(r, [pc |-> "owes", keys |-> {req[r].key}])
    /\ UNCHANGED <<lapsed, plan, events, used, told, auto>>

-----------------------------------------------------------------------------
(* The first login.                                                        *)

\* One UPDATE claims the token; a second one waits for the first's commit.
ClaimToken(r, t) ==
    /\ req[r] = Idle /\ t \notin used
    /\ ~\E s \in Requests : req[s].pc \in {"claimed", "login"} /\ req[s].token = t
    /\ Goto(r, [pc |-> "claimed", token |-> t])
    /\ UNCHANGED <<row, over, lapsed, plan, events, used, told, auto>>

FirstLogin == events = 0 /\ \A k \in Keys : Spare(k)

\* Mutant: the check precedes the lock.
LoginUnlocked(r) ==
    /\ req[r].pc = "claimed"
    /\ \E new \in Keys \cup {NoKey} :
           /\ IF FirstLogin THEN new # NoKey ELSE new = NoKey
           /\ Goto(r, [pc |-> "login", token |-> req[r].token, new |-> new])
    /\ UNCHANGED <<row, over, lapsed, plan, events, used, told, auto>>

\* mint_developer_key_if_first_login, under the lock.
LoginMint(r) ==
    /\ req[r].pc = "claimed" /\ CustomerFree
    /\ \E new \in Keys \cup {NoKey} :
           /\ IF FirstLogin THEN new # NoKey ELSE new = NoKey
           /\ Goto(r, [pc |-> "login", token |-> req[r].token, new |-> new])
    /\ UNCHANGED <<row, over, lapsed, plan, events, used, told, auto>>

LoginCommit(r) ==
    /\ req[r].pc = "login"
    /\ used' = used \cup {req[r].token}
    /\ IF req[r].new = NoKey THEN UNCHANGED <<row, told, auto>>
       ELSE /\ row' = [row EXCEPT ![req[r].new] = NewRow("developer", FALSE)]
            /\ told' = [told EXCEPT ![req[r].new] = @ + 1]
            /\ auto' = auto \cup {req[r].new}
    /\ Goto(r, Idle)
    /\ UNCHANGED <<over, lapsed, plan, events>>

-----------------------------------------------------------------------------
(* The billing webhook's hand in the keys.                                 *)

\* The usable keys and those whose overlap has ended, of another plan than p.
OtherPlan(p) == {k \in Keys : row[k].status \in {"active", "rotating"} /\ row[k].plan # p}

\* A subscription event leaves the customer on plan p: under the customer's
\* lock, the keys are recomputed, and a paid subscription that finds no usable
\* key gets one to reveal.  It gets none if one was minted for it before.
SubscriptionEvent(r, p) ==
    /\ req[r] = Idle /\ CustomerFree /\ BillingFree /\ events < MaxEvents
    /\ \E new \in Keys \cup {NoKey} :
           /\ new # NoKey => p = "paid" /\ UsableKeys = {} /\ Spare(new)
           /\ Invalidate(r, [pc |-> "billing", keys |-> OtherPlan(p), new |-> new, plan |-> p],
                         OtherPlan(p))
    /\ UNCHANGED <<row, over, lapsed, plan, events, used, told, auto>>

Restamped(ks, p) == [k \in Keys |-> IF k \in ks THEN [row[k] EXCEPT !.plan = p] ELSE row[k]]

SubscriptionCommit(r) ==
    /\ req[r].pc = "billing" /\ \A k \in req[r].keys : RowFree(k)
    /\ plan' = req[r].plan /\ events' = events + 1
    /\ row' = [k \in Keys |-> IF k = req[r].new THEN NewRow(req[r].plan, TRUE)
                              ELSE Restamped(req[r].keys, req[r].plan)[k]]
    /\ Goto(r, [pc |-> "owes", keys |-> req[r].keys])
    /\ UNCHANGED <<over, lapsed, used, told, auto>>

\* A refund that withdraws access cancels the subscription and recomputes the
\* keys: without the customer's lock.
RefundRead(r) ==
    /\ req[r] = Idle /\ plan = "paid" /\ BillingFree /\ events < MaxEvents
    /\ Invalidate(r, [pc |-> "refund", keys |-> OtherPlan("developer")], OtherPlan("developer"))
    /\ UNCHANGED <<row, over, lapsed, plan, events, used, told, auto>>

RefundCommit(r) ==
    /\ req[r].pc = "refund" /\ \A k \in req[r].keys : RowFree(k)
    /\ plan' = "developer" /\ events' = events + 1
    /\ row' = Restamped(req[r].keys, "developer")
    /\ Goto(r, [pc |-> "owes", keys |-> req[r].keys])
    /\ UNCHANGED <<over, lapsed, used, told, auto>>

-----------------------------------------------------------------------------
(* Failures and time.                                                      *)

\* An error before the commit: the transaction is rolled back.
Abort(r) ==
    /\ req[r].pc \notin {"idle", "owes"}
    /\ Goto(r, Idle)
    /\ UNCHANGED <<row, over, lapsed, plan, events, used, told, auto>>

\* The process restarts, and its cache is empty.
Restart ==
    /\ \E r \in Requests : req[r].pc = "owes"
    /\ req' = [r \in Requests |-> Idle]
    /\ cache' = [k \in Keys |-> Missing]
    /\ UNCHANGED <<row, over, lapsed, plan, events, used, told, auto>>

\* revoke_at, 24 h after the rotation.
OverlapEnds(k) ==
    /\ row[k].status = "rotating" /\ k \notin over
    /\ over' = over \cup {k}
    /\ UNCHANGED <<row, lapsed, plan, events, used, cache, req, told, auto>>

\* reveal_expires_at, 24 h after the mint.
RevealLapses(k) ==
    /\ row[k].sealed /\ k \notin lapsed
    /\ lapsed' = lapsed \cup {k}
    /\ UNCHANGED <<row, over, plan, events, used, cache, req, told, auto>>

RequestStep(r) ==
    \/ AfterCommit(r)
    \/ ResolveRead(r) \/ ResolveStore(r)
    \/ LookEnds(r) \/ ExpireStaleReveal(r) \/ RevealCommit(r)
    \/ CreateRead(r) \/ CreateMint(r) \/ CreateRefused(r) \/ CreateCommit(r)
    \/ RotateFlush(r) \/ RotateCommit(r) \/ RevokeCommit(r)
    \/ LoginMint(r) \/ LoginCommit(r)
    \/ SubscriptionCommit(r) \/ RefundRead(r) \/ RefundCommit(r)
    \/ Abort(r)
    \/ \E k \in Keys : \/ ResolveStart(r, k) \/ Look(r, k)
                       \/ Reveal(r, k) \/ RevealLate(r, k)
                       \/ RotateRead(r, k) \/ RevokeFlush(r, k)
    \/ \E t \in Tokens : ClaimToken(r, t)
    \/ \E p \in Plans : SubscriptionEvent(r, p)

Next ==
    \/ \E r \in Requests : RequestStep(r)
    \/ \E k \in Keys : CacheDrop(k) \/ OverlapEnds(k) \/ RevealLapses(k)
    \/ Restart

Spec == Init /\ [][Next]_vars

-----------------------------------------------------------------------------
(* Properties.                                                             *)

Owed(k) == \E r \in Requests : req[r].pc = "owes" /\ k \in req[r].keys

\* What the cache answers for a key is what its committed row says, its status
\* and its plan, whenever no commit still owes the key an invalidation: a read
\* that began before a revocation, a rotation or a change of plan is never kept
\* after it (invalidate, _tombstones, _invalidate_after_commit).
CacheHonest ==
    \A k \in Keys : cache[k] # Missing /\ ~Owed(k) =>
        cache[k] = [status |-> row[k].status, plan |-> row[k].plan]

\* However mints, rotations and lapses interleave, the customer never has more
\* usable keys than the two ceilings, and at most one that rotates (B3, A9).
Ceilings ==
    /\ Cardinality({k \in Keys : Active(k)}) <= MaxActive
    /\ Cardinality(UsableKeys) <= MaxUsable
    /\ Cardinality({k \in Keys : InRotation(k)}) <= 1

\* A login mints a key only for a customer with no key and no dealings with
\* Stripe, at the moment the key is committed: magic links redeemed at once
\* mint one between them, and none beside a paid one (D5).
LoginMintsFirstKey ==
    [][auto' # auto => events = 0 /\ \A k \in Keys : Spare(k)]_vars

\* A key's plaintext leaves the process once at most: in the response that
\* minted it, or in one reveal (B1).
ToldOnce == \A k \in Keys : told[k] <= 1

\* A key its owner revoked stays revoked, whatever rotation was under way.
RevokeIsFinal ==
    [][\A k \in Keys : row[k].status = "revoked" /\ k \in over => row'[k].status = "revoked"]_vars

\* The plan a usable key is metered at is the customer's: _recompute_plan_onto_keys
\* writes it onto every usable key, and create_key derives it.
KeysCarryThePlan == \A k \in Keys : Usable(k) => row[k].plan = plan
=============================================================================
