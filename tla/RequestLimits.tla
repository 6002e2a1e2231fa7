----------------------------- MODULE RequestLimits -----------------------------
(***************************************************************************)
(* What stands between a request and its handler: the slots of the         *)
(* concurrency limiter, the fixed windows that meter anonymous callers,    *)
(* and one customer's daily quota.                                         *)
(*                                                                         *)
(* The middleware runs on the event loop, so what it does between two      *)
(* awaits is one step; reading the usage, the handler and the count are    *)
(* each behind an await.  So is resolving a key, but nothing is touched    *)
(* between the slot and that, so a request arrives with its key resolved.  *)
(* The addresses are those of one subnet.  A window that has expired       *)
(* counts as one that is not there, and is dropped at once here, where the *)
(* code sweeps them later; the cap on the number of windows is left out.   *)
(* The customer's burst window is one more of the kind: here it refuses    *)
(* when it likes.                                                          *)
(***************************************************************************)
EXTENDS Integers, FiniteSets, FiniteSetsExt, Functions

CONSTANTS
    Requests,        \* as many as can be on their way at once
    Addresses,       \* callers of one subnet
    MaxConcurrent,   \* max_concurrent
    IpLimit,         \* per tier, the limit of an address in a window
    SubnetLimit,     \* per tier, the limit of the subnet in a window
    Quota,           \* effective limits of a day: [requests, heavy]
    Minute, Day,     \* lengths of the windows
    Horizon          \* bound: the last moment

Tiers == {"default", "daily", "heavy"}
Usages == [requests : Nat, heavy : Nat]

ASSUME LimitsAssumption ==
    /\ IsFiniteSet(Requests)
    /\ MaxConcurrent \in Nat  \* 0 turns everyone away
    /\ IpLimit \in [Tiers -> Nat \ {0}] /\ SubnetLimit \in [Tiers -> Nat \ {0}]
    /\ Quota \in [requests : Nat \ {0}, heavy : Nat \ {0}]
    /\ Minute \in Nat \ {0} /\ Day \in Nat \ {0} /\ Horizon \in Nat

VARIABLES
    clock,
    inFlight,  \* _in_flight
    request,
    ip,        \* per tier and address: its window
    subnet,    \* per tier: the subnet's window, with whose hits it counts
    usage,     \* api_customer_usage, per day
    metered    \* history: the requests that were metered on a day

vars == <<clock, inFlight, request, ip, subnet, usage, metered>>

Times == 0..Horizon
Today == clock \div Day
Days == 0..(Horizon \div Day)
Window(tier) == IF tier = "daily" THEN Day ELSE Minute

Zero == [requests |-> 0, heavy |-> 0]
Fresh == [start |-> 0, count |-> 0]
FreshSubnet == [start |-> 0, hits |-> [a \in Addresses |-> 0]]

Out == [pc |-> "out"]
RequestStates ==
    {Out}
    \cup [pc : {"paced", "served"}, heavy : BOOLEAN]
    \cup [pc : {"read"}, heavy : BOOLEAN, read : Usages]
    \cup [pc : {"answered"}]

TypeOK ==
    /\ clock \in Times
    /\ inFlight \in 0..MaxConcurrent
    /\ request \in [Requests -> RequestStates]
    /\ ip \in [Tiers -> [Addresses -> [start : Times, count : Nat]]]
    /\ subnet \in [Tiers -> [start : Times, hits : [Addresses -> Nat]]]
    /\ usage \in [Days -> Usages] /\ metered \in [Days -> Usages]

Init ==
    /\ clock = 0
    /\ inFlight = 0
    /\ request = [r \in Requests |-> Out]
    /\ ip = [t \in Tiers |-> [a \in Addresses |-> Fresh]]
    /\ subnet = [t \in Tiers |-> FreshSubnet]
    /\ usage = [d \in Days |-> Zero] /\ metered = [d \in Days |-> Zero]

Started(window, t, length) == t - window.start < length

Tick ==
    /\ clock < Horizon
    /\ clock' = clock + 1
    /\ ip' = [t \in Tiers |-> [a \in Addresses |->
                 IF Started(ip[t][a], clock + 1, Window(t)) THEN ip[t][a] ELSE Fresh]]
    /\ subnet' = [t \in Tiers |->
                 IF Started(subnet[t], clock + 1, Window(t)) THEN subnet[t] ELSE FreshSubnet]
    /\ UNCHANGED <<inFlight, request, usage, metered>>

At(r, pc) == request[r].pc = pc
Goes(r, state) == request' = [request EXCEPT ![r] = state]
Answered(r) == Goes(r, [pc |-> "answered"])

-----------------------------------------------------------------------------
(* Slots.  A request beyond the limit is answered 503 and leaves no trace.   *)
(* A path that ends in /health or /ready takes no slot; the quota exempts    *)
(* exact paths and prefixes only.  A keyed request to any other path of that *)
(* ending, which no route answers, is metered without one: it is left out.   *)

\* Mutant: the comparison lets one too many in.
OneMoreSlot == inFlight <= MaxConcurrent

SlotFree == inFlight < MaxConcurrent

Arrives(r) == At(r, "out") /\ SlotFree /\ inFlight' = inFlight + 1

\* The response is sent, or the client is gone: the slot is given back.
Leave(r) ==
    /\ At(r, "answered")
    /\ inFlight' = inFlight - 1
    /\ Goes(r, Out)
    /\ UNCHANGED <<clock, ip, subnet, usage, metered>>

-----------------------------------------------------------------------------
(* Fixed windows.                                                           *)

Total(hits) == SumFunction(hits)

IpDenies(t, a) == ip[t][a].count + 1 > IpLimit[t]
SubnetDenies(t) == Total(subnet[t].hits) + 1 > SubnetLimit[t]

\* The tiers in the order in which they are asked; only a heavy route has the last.
TiersFor(heavy) == IF heavy THEN Tiers ELSE Tiers \ {"heavy"}
Before(t) == CASE t = "default" -> {} [] t = "daily" -> {"default"} [] OTHER -> {"default", "daily"}
Passes(t, a) == ~IpDenies(t, a) /\ ~SubnetDenies(t)
Allowed(heavy, a) == \A t \in TiersFor(heavy) : Passes(t, a)

\* The address's window of a tier is hit when every earlier tier passed.
HitsIp(t, heavy, a) == t \in TiersFor(heavy) /\ \A u \in Before(t) : Passes(u, a)

\* Mutant: the windows are all asked, whatever the earlier ones answered.
HitsEvery(t, heavy, a) == t \in TiersFor(heavy)

\* The subnet's window of a tier, when the address's own passed too.
HitsSubnet(t, heavy, a) == HitsIp(t, heavy, a) /\ ~IpDenies(t, a)

\* A hit is counted even when it is refused; past the first refusal the count
\* makes no difference and stays.  The first hit starts the window.
HitIp(t, a) ==
    IF ip[t][a].count = 0 THEN [start |-> clock, count |-> 1]
    ELSE [ip[t][a] EXCEPT !.count = IF @ > IpLimit[t] THEN @ ELSE @ + 1]
HitSubnet(t, a) ==
    IF subnet[t] = FreshSubnet THEN [start |-> clock, hits |-> [FreshSubnet.hits EXCEPT ![a] = 1]]
    ELSE [subnet[t] EXCEPT !.hits[a] = IF Total(subnet[t].hits) > SubnetLimit[t] THEN @ ELSE @ + 1]

\* _anon_tier_check.
Charge(heavy, a) ==
    /\ ip' = [t \in Tiers |-> IF HitsIp(t, heavy, a) THEN [ip[t] EXCEPT ![a] = HitIp(t, a)] ELSE ip[t]]
    /\ subnet' = [t \in Tiers |-> IF HitsSubnet(t, heavy, a) THEN HitSubnet(t, a) ELSE subnet[t]]

\* No key: charged, then handled or refused.
Anonymous(r, heavy, a) ==
    /\ Arrives(r)
    /\ Charge(heavy, a)
    /\ Answered(r)
    /\ UNCHANGED <<clock, usage, metered>>

\* A key that is unknown or revoked is charged like no key, unless a look at the
\* windows shows that it would be refused anyway.
BadKey(r, heavy, a) ==
    /\ Arrives(r)
    /\ IF Allowed(heavy, a) THEN Charge(heavy, a) ELSE UNCHANGED <<ip, subnet>>
    /\ Answered(r)
    /\ UNCHANGED <<clock, usage, metered>>

-----------------------------------------------------------------------------
(* A key of the customer.                                                   *)

\* The key cannot be resolved (503), the account is suspended (403) or owes
\* (402), or the burst window is full (429).
TurnedAway(r) ==
    /\ Arrives(r)
    /\ Answered(r)
    /\ UNCHANGED <<clock, ip, subnet, usage, metered>>

Paced(r, heavy) ==
    /\ Arrives(r)
    /\ Goes(r, [pc |-> "paced", heavy |-> heavy])
    /\ UNCHANGED <<clock, ip, subnet, usage, metered>>

\* _read_usage; a read that fails is answered 503.
ReadUsage(r) ==
    /\ At(r, "paced")
    /\ \/ Goes(r, [pc |-> "read", heavy |-> request[r].heavy, read |-> usage[Today]])
       \/ Answered(r)
    /\ UNCHANGED <<clock, inFlight, ip, subnet, usage, metered>>

Within(read, heavy) ==
    /\ read.requests < Quota.requests
    /\ heavy => read.heavy < Quota.heavy

\* The comparison with what was read, and call_next.
Admit(r) ==
    /\ At(r, "read")
    /\ IF Within(request[r].read, request[r].heavy)
       THEN Goes(r, [pc |-> "served", heavy |-> request[r].heavy]) ELSE Answered(r)
    /\ UNCHANGED <<clock, inFlight, ip, subnet, usage, metered>>

OneMore(u, heavy) == [requests |-> u.requests + 1, heavy |-> u.heavy + (IF heavy THEN 1 ELSE 0)]

\* _record_usage, under the day it is then.
Count(r) ==
    /\ At(r, "served")
    /\ usage' = [usage EXCEPT ![Today] = OneMore(@, request[r].heavy)]
    /\ metered' = [metered EXCEPT ![Today] = OneMore(@, request[r].heavy)]
    /\ Answered(r)
    /\ UNCHANGED <<clock, inFlight, ip, subnet>>

\* The handler raises or answers what is not charged for, or the count fails.
NotCounted(r) ==
    /\ At(r, "served")
    /\ Answered(r)
    /\ UNCHANGED <<clock, inFlight, ip, subnet, usage, metered>>

Next ==
    \/ Tick
    \/ \E r \in Requests :
           \/ \E heavy \in BOOLEAN, a \in Addresses : Anonymous(r, heavy, a) \/ BadKey(r, heavy, a)
           \/ TurnedAway(r) \/ \E heavy \in BOOLEAN : Paced(r, heavy)
           \/ ReadUsage(r) \/ Admit(r) \/ Count(r) \/ NotCounted(r) \/ Leave(r)

Spec == Init /\ [][Next]_vars

-----------------------------------------------------------------------------
(* Properties.                                                             *)

\* The quota is read before the handler and counted after it, so that requests
\* that are on their way together all pass; no day is overshot by more than the
\* slots but one, however requests, failures and midnights fall.  Requests that
\* take no slot are not in it.
OvershootBounded ==
    \A d \in Days :
        /\ metered[d].requests <= Quota.requests + MaxConcurrent - 1
        /\ metered[d].heavy <= Quota.heavy + MaxConcurrent - 1

\* However hard one address tries, and whichever tier refuses it, of a window it
\* shares with its subnet it spends no more than what is left of one window of
\* its own and all of the next: its neighbours are not refused for what it was
\* refused.
NeighboursKeepTheirs ==
    \A t \in Tiers, a \in Addresses : subnet[t].hits[a] <= 2 * IpLimit[t] - 1

=============================================================================
