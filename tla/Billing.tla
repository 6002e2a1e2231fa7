-------------------------------- MODULE Billing --------------------------------
(***************************************************************************)
(* One customer's subscriptions, at Stripe and in api_subscriptions, and   *)
(* the webhook that keeps the second in step with the first.               *)
(*                                                                         *)
(* Stripe delivers events in any order, again until one delivery commits,  *)
(* and stamps them with whole seconds.  A delivery is one transaction: it  *)
(* reads the rows, decides, flushes, calls Stripe when a subscription has  *)
(* to be canceled there, and commits with its stripe_events row.  Handlers *)
(* of subscription events take the customer's row lock first; those of     *)
(* invoices and refunds read before they lock anything.  `trialing` goes   *)
(* with active and `unpaid` with past_due, which the code treats alike.    *)
(***************************************************************************)
EXTENDS Integers, FiniteSets, FiniteSetsExt

CONSTANTS
    Subs,        \* Stripe subscriptions of the customer
    Handlers,    \* threads that serve the webhook
    Horizon,     \* bound: the last second
    MaxChanges,  \* bound: changes at Stripe that are not ours
    MaxMishaps   \* bound: deliveries that fail and cancels that are rejected

ASSUME BillingAssumption ==
    /\ IsFiniteSet(Subs)
    /\ Horizon \in Nat /\ MaxChanges \in Nat /\ MaxMishaps \in Nat

VARIABLES
    clock,
    stripe,    \* per subscription: its status at Stripe
    due,       \* the events whose delivery has not committed: not in stripe_events
    row,       \* api_subscriptions, as committed
    handler,   \* per thread: the delivery it is at
    rejected,  \* subscriptions whose cancel Stripe refused: the operator's to settle
    overtaken, \* rows written over by a delivery that had read them too early
    reverted,  \* rows a report of the same second took back to incomplete
    entitled,  \* snapshot_entitlements: a live one of kind subscription
    changes,
    mishaps

vars == <<clock, stripe, due, row, handler, rejected, overtaken, reverted, entitled,
          changes, mishaps>>

Seconds == 0..Horizon
Terminal == {"canceled", "incomplete_expired"}
\* _BLOCKING_SUB_STATUSES, which are the _PLAN_AUTHORITY_STATUSES.
Blocking == {"active", "past_due"}
Statuses == {"incomplete"} \cup Blocking \cup Terminal

Absent == [status |-> "none", seen |-> 0]
Rows == {Absent} \cup [status : Statuses, seen : Seconds]

\* A subscription event carries the status it reports; the others carry none.
Events == [type : {"subscription"}, of : Subs, status : Statuses, at : Seconds]
          \cup [type : {"checkout", "paid", "failed", "refund"}, of : Subs, at : Seconds]

\* What an event does to the customer's snapshot entitlement.
Entitling == {"keeps", "gives", "ends"}

Idle == [pc |-> "idle"]
\* What a delivery will write, the subscriptions it cancels at Stripe, and the
\* rows as it read them.
HandlerStates ==
    {Idle} \cup [pc : {"decided", "flushed"}, event : Events, locked : BOOLEAN,
                 read : [Subs -> Rows], writes : [Subs -> Rows], cancels : SUBSET Subs,
                 entitles : Entitling]

TypeOK ==
    /\ clock \in Seconds
    /\ stripe \in [Subs -> Statuses \cup {"none"}]
    /\ due \in SUBSET Events
    /\ row \in [Subs -> Rows]
    /\ handler \in [Handlers -> HandlerStates]
    /\ rejected \in SUBSET Subs /\ overtaken \in SUBSET Subs /\ reverted \in SUBSET Subs
    /\ entitled \in BOOLEAN
    /\ changes \in 0..MaxChanges /\ mishaps \in 0..MaxMishaps

Init ==
    /\ clock = 0
    /\ stripe = [s \in Subs |-> "none"]
    /\ due = {}
    /\ row = [s \in Subs |-> Absent]
    /\ handler = [h \in Handlers |-> Idle]
    /\ rejected = {} /\ overtaken = {} /\ reverted = {} /\ entitled = FALSE
    /\ changes = 0 /\ mishaps = 0

Mishap == mishaps < MaxMishaps /\ mishaps' = mishaps + 1

-----------------------------------------------------------------------------
(* Stripe.                                                                 *)

Reports(s, status) == [type |-> "subscription", of |-> s, status |-> status, at |-> clock]
Notice(type, s) == [type |-> type, of |-> s, at |-> clock]

Becomes(s, status, others) ==
    /\ changes < MaxChanges /\ changes' = changes + 1
    /\ stripe' = [stripe EXCEPT ![s] = status]
    /\ due' = due \cup {Reports(s, status)} \cup others
    /\ UNCHANGED <<clock, row, handler, rejected, overtaken, reverted, entitled, mishaps>>

\* A checkout completes; a guest's may be a second one.  The first payment may
\* still need the customer.
Subscribe(s) ==
    /\ stripe[s] = "none"
    /\ \/ Becomes(s, "incomplete", {Notice("checkout", s)})
       \/ Becomes(s, "active", {Notice("checkout", s), Notice("paid", s)})

Pays(s) ==
    /\ stripe[s] \in {"incomplete", "past_due"}
    /\ Becomes(s, "active", {Notice("paid", s)})

PaymentFails(s) ==
    /\ stripe[s] = "active"
    /\ Becomes(s, "past_due", {Notice("failed", s)})

Ends(s) ==
    \/ stripe[s] \in Blocking /\ Becomes(s, "canceled", {})
    \/ stripe[s] = "incomplete" /\ Becomes(s, "incomplete_expired", {})

\* The operator refunds with cancel_access, which only sends an event.
Refund(s) ==
    /\ stripe[s] \in Blocking
    /\ changes < MaxChanges /\ changes' = changes + 1
    /\ due' = due \cup {Notice("refund", s)}
    /\ UNCHANGED <<clock, stripe, row, handler, rejected, overtaken, reverted, entitled, mishaps>>

Tick ==
    /\ clock < Horizon
    /\ clock' = clock + 1
    /\ UNCHANGED <<stripe, due, row, handler, rejected, overtaken, reverted, entitled, changes, mishaps>>

-----------------------------------------------------------------------------
(* What a handler decides, of the rows it has read.  A decision is the     *)
(* rows it leaves and the subscriptions to cancel at Stripe.               *)

Known(rows, s) == rows[s] # Absent
\* existing_other: the customer's blocking rows but s's.
Others(rows, s) == {o \in Subs \ {s} : rows[o].status \in Blocking}
InDunning(rows, s) == Others(rows, s) # {} /\ \A o \in Others(rows, s) : rows[o].status = "past_due"

Later(r, at) == Max({r.seen, at})
Set(rows, some, status, at) ==
    [s \in Subs |-> IF s \in some THEN [status |-> status, seen |-> Later(rows[s], at)] ELSE rows[s]]
Entitles(rows, cancels, entitles) ==
    [writes |-> rows, cancels |-> cancels, entitles |-> entitles]
Decision(rows, cancels) == Entitles(rows, cancels, "keeps")
Nothing(rows) == Decision(rows, {})

\* A subscription that is applied, of the Scale plan: a terminal status ends
\* every live entitlement of the customer, whichever subscription it came with.
ByStatus(status) ==
    IF status \in Terminal THEN "ends" ELSE IF status \in Blocking THEN "gives" ELSE "keeps"
Applied(d, status) == [d EXCEPT !.entitles = ByStatus(status)]

\* Mutant: the incumbent is ended in the database only.
SwappedHere(rows, s, status, at) ==
    Decision(Set(Set(rows, Others(rows, s), "canceled", at), {s}, status, at), {})

\* The newcomer takes over from an incumbent that is in dunning.
Swapped(rows, s, status, at) ==
    Decision(Set(Set(rows, Others(rows, s), "canceled", at), {s}, status, at), Others(rows, s))
\* s is a duplicate.
Refused(rows, s, at) == Decision(Set(rows, {s}, "canceled", at), {s})

\* Mutant: seconds alone decide, as if two events could not share one.
OlderSecond(rows, s, status, at) == Known(rows, s) /\ at < rows[s].seen

\* An event older than the last one applied; on a tie, a terminal status stays.
Stale(rows, s, status, at) ==
    /\ Known(rows, s)
    /\ \/ at < rows[s].seen
       \/ at = rows[s].seen /\ rows[s].status \in Terminal /\ status \notin Terminal

\* _apply_subscription_event, from its staleness check to its write of the row.
\* Only a subscription never seen before is looked up at Stripe before a swap.
ApplySubscription(rows, s, status, at) ==
    LET swap == InDunning(rows, s) /\ status = "active" IN
    IF Stale(rows, s, status, at) \/ (swap /\ ~Known(rows, s) /\ stripe[s] # "active")
    THEN Nothing(rows)
    ELSE IF swap THEN Applied(Swapped(rows, s, status, at), status)
    ELSE IF Others(rows, s) # {} /\ ~Known(rows, s)
    THEN IF status \in Terminal THEN Nothing(Set(rows, {s}, "canceled", at)) ELSE Refused(rows, s, at)
    ELSE IF Others(rows, s) # {} /\ status \in Blocking THEN Refused(rows, s, at)
    ELSE Applied(Nothing(Set(rows, {s}, status, at)), status)

\* _handle_checkout_session_completed: a row that is there is left as it is;
\* otherwise the subscription is retrieved and applied.
ApplyCheckout(rows, s, at) ==
    IF Known(rows, s) THEN Nothing(rows) ELSE ApplySubscription(rows, s, stripe[s], at)

\* The status an invoice leaves: it revives no terminal row, and a first
\* payment that fails is not dunning.
AfterInvoice(r, paid) ==
    IF r.status \in Terminal THEN r.status
    ELSE IF paid THEN "active"
    ELSE IF r.status = "incomplete" THEN "incomplete" ELSE "past_due"

\* _handle_invoice_event once the row is there.
InvoiceOnRow(rows, s, paid, at) ==
    LET live == rows[s].status \notin Terminal
        blocks == paid \/ rows[s].status # "incomplete" IN
    IF at < rows[s].seen THEN Nothing(rows)
    ELSE IF paid /\ live /\ InDunning(rows, s) THEN Swapped(rows, s, "active", at)
    ELSE IF blocks /\ Others(rows, s) # {} THEN Refused(rows, s, at)
    ELSE Nothing(Set(rows, {s}, AfterInvoice(rows[s], paid), at))

\* An invoice for a row that is not there retrieves the subscription first, and
\* applies it like an event of its own.
ApplyInvoice(rows, s, paid, at) ==
    IF Known(rows, s) THEN InvoiceOnRow(rows, s, paid, at)
    ELSE LET first == ApplySubscription(rows, s, stripe[s], at) IN
         IF ~Known(first.writes, s) THEN first
         ELSE LET then == InvoiceOnRow(first.writes, s, paid, at) IN
              Entitles(then.writes, first.cancels \cup then.cancels, first.entitles)

\* _handle_charge_refunded, of a refund that cancels access: an unknown
\* subscription is a permanent error, a stale event nothing.  The entitlement
\* goes when no other subscription carries the plan.
AfterRefund(rows, s) == IF Others(rows, s) = {} THEN "ends" ELSE "keeps"
ApplyRefund(rows, s, at) ==
    IF ~Known(rows, s) \/ at < rows[s].seen THEN Nothing(rows)
    ELSE [Refused(rows, s, at) EXCEPT !.entitles = AfterRefund(rows, s)]

Decide(rows, e) ==
    CASE e.type = "subscription" -> ApplySubscription(rows, e.of, e.status, e.at)
      [] e.type = "checkout" -> ApplyCheckout(rows, e.of, e.at)
      [] e.type = "refund" -> ApplyRefund(rows, e.of, e.at)
      [] OTHER -> ApplyInvoice(rows, e.of, e.type = "paid", e.at)

-----------------------------------------------------------------------------
(* A delivery.                                                             *)

At(h, pc) == handler[h].pc = pc
Busy(h) == ~At(h, "idle")
\* SELECT .. FOR UPDATE of the customer: every path through
\* _apply_subscription_event, before it reads a row.
Locks(e) == e.type = "subscription" \/ (e.type # "refund" /\ ~Known(row, e.of))
CustomerLocked == \E h \in Handlers : Busy(h) /\ handler[h].locked

\* The stripe_events row is inserted; a delivery of an event that is in another
\* thread's hands waits for it there.  Then the rows are read.
MayDeliver(h, e) ==
    /\ ~Busy(h)
    /\ \A o \in Handlers : Busy(o) => handler[o].event # e
    /\ Locks(e) => ~CustomerLocked

Deliver(h, e) ==
    /\ MayDeliver(h, e) /\ Decide(row, e) # Nothing(row)
    /\ LET d == Decide(row, e) IN
       handler' = [handler EXCEPT ![h] = [pc |-> "decided", event |-> e, locked |-> Locks(e),
                                          read |-> row, writes |-> d.writes, cancels |-> d.cancels,
                                          entitles |-> d.entitles]]
    /\ UNCHANGED <<clock, stripe, due, row, rejected, overtaken, reverted, entitled, changes, mishaps>>

\* A delivery that finds nothing to change commits its stripe_events row only.
Acknowledge(h, e) ==
    /\ MayDeliver(h, e) /\ Decide(row, e) = Nothing(row)
    /\ due' = due \ {e}
    /\ UNCHANGED <<clock, stripe, row, handler, rejected, overtaken, reverted, entitled, changes, mishaps>>

\* The rows h writes: an assignment of the value that was read is none.
Wrote(h) == {s \in Subs : handler[h].writes[s] # handler[h].read[s]}
Written(h) == [s \in Subs |-> IF s \in Wrote(h) THEN handler[h].writes[s] ELSE row[s]]
\* uq_api_subscriptions_one_active: one blocking row a customer.
Conflicts(h) == Cardinality({s \in Subs : Written(h)[s].status \in Blocking}) > 1

\* Row locks and the unique index make a flush wait for another's transaction.
MayFlush(h) == At(h, "decided") /\ \A o \in Handlers \ {h} : ~At(o, "flushed")

\* The flush of a delivery that calls Stripe before it commits.  On a violation
\* of the index the newcomer is the duplicate, whatever else was decided.
Flush(h) ==
    /\ MayFlush(h)
    /\ handler[h].cancels # {} \/ Conflicts(h)
    /\ LET d == handler[h] IN
       handler' = [handler EXCEPT ![h] =
           [pc |-> "flushed", event |-> d.event, locked |-> d.locked, read |-> d.read,
            writes |-> IF Conflicts(h) THEN Set(d.writes, {d.event.of}, "canceled", d.event.at) ELSE d.writes,
            cancels |-> IF Conflicts(h) THEN d.cancels \cup {d.event.of} ELSE d.cancels,
            entitles |-> IF Conflicts(h) THEN "keeps" ELSE d.entitles]]
    /\ UNCHANGED <<clock, stripe, due, row, rejected, overtaken, reverted, entitled, changes, mishaps>>

\* stripe.Subscription.cancel: of a subscription that is terminal already it
\* changes nothing, and is no error.
CancelAtStripe(h, s) ==
    /\ At(h, "flushed") /\ s \in handler[h].cancels
    /\ handler' = [handler EXCEPT ![h].cancels = @ \ {s}]
    /\ IF stripe[s] \in Terminal THEN UNCHANGED <<stripe, due>>
       ELSE /\ stripe' = [stripe EXCEPT ![s] = "canceled"]
            /\ due' = due \cup {Reports(s, "canceled")}
    /\ UNCHANGED <<clock, row, rejected, overtaken, reverted, entitled, changes, mishaps>>

\* Mutant: the swap's rows stay when Stripe refuses the cancel.
RowsKept(h) == Written(h)

\* The savepoint around the swap takes both rows back.
RowsUnwound(h) == row

\* Stripe refuses: a permanent error, which is recorded and not retried.
CancelRejected(h, s) ==
    /\ At(h, "flushed") /\ s \in handler[h].cancels /\ stripe[s] \notin Terminal /\ Mishap
    /\ row' = RowsUnwound(h)
    /\ due' = due \ {handler[h].event}
    /\ rejected' = rejected \cup {s}
    /\ handler' = [handler EXCEPT ![h] = Idle]
    /\ UNCHANGED <<clock, stripe, overtaken, reverted, entitled, changes>>

\* No lock is taken for an invoice or a refund before the rows are read.
ReadTooEarly(h) == {s \in Wrote(h) : row[s] # handler[h].read[s]}
\* Only a terminal status is kept on a tie.
Reverted(h) ==
    {s \in Wrote(h) : row[s].status \in Blocking /\ Written(h)[s].status = "incomplete"}

\* The commit, and the flush before it when Stripe need not be called.
Commit(h) ==
    /\ handler[h].pc # "idle" /\ handler[h].cancels = {}
    /\ At(h, "flushed") \/ (MayFlush(h) /\ ~Conflicts(h))
    /\ row' = Written(h)
    /\ due' = due \ {handler[h].event}
    /\ overtaken' = overtaken \cup ReadTooEarly(h)
    /\ reverted' = reverted \cup Reverted(h)
    /\ entitled' = CASE handler[h].entitles = "keeps" -> entitled
                     [] handler[h].entitles = "gives" -> TRUE
                     [] handler[h].entitles = "ends" -> FALSE
    /\ handler' = [handler EXCEPT ![h] = Idle]
    /\ UNCHANGED <<clock, stripe, rejected, changes, mishaps>>

\* Any other exception, or the process dies: everything is rolled back, the
\* stripe_events row too, and Stripe delivers again.  Its cancels stand.
Fails(h) ==
    /\ Busy(h) /\ Mishap
    /\ handler' = [handler EXCEPT ![h] = Idle]
    /\ UNCHANGED <<clock, stripe, due, row, rejected, overtaken, reverted, entitled, changes>>

Next ==
    \/ Tick
    \/ \E s \in Subs : Subscribe(s) \/ Pays(s) \/ PaymentFails(s) \/ Ends(s) \/ Refund(s)
    \/ \E h \in Handlers :
           \/ \E e \in due : Deliver(h, e) \/ Acknowledge(h, e)
           \/ Flush(h) \/ Commit(h) \/ Fails(h)
           \/ \E s \in Subs : CancelAtStripe(h, s) \/ CancelRejected(h, s)

Spec == Init /\ [][Next]_vars

-----------------------------------------------------------------------------
(* Properties.                                                             *)

\* A subscription the database has ended is ended at Stripe: nobody is billed
\* for access the database has taken away, whatever is swapped, refused,
\* refunded, retried or rolled back on the way.
EndedHereIsEndedThere ==
    \A s \in Subs : row[s].status \in Terminal => stripe[s] \in Terminal

Settled == due = {} /\ \A h \in Handlers : ~Busy(h)

\* Once every event has been handled, in whatever order and however often it
\* came, a subscription that ended at Stripe has ended in the database, unless a
\* delivery that had read it too early was written over it; and with the last of
\* them the snapshot entitlement has ended.
EndedThereIsEndedHere ==
    Settled =>
        /\ \A s \in Subs \ overtaken : stripe[s] \in Terminal => row[s].status \in Terminal
        /\ overtaken = {} /\ (\A s \in Subs : stripe[s] \in Terminal \cup {"none"}) => ~entitled

\* Once every event has been handled, no customer is billed for two
\* subscriptions, unless Stripe refused to cancel one, or the row of one does not
\* show that it is billed, for a report of the same second took it back.
BilledOnce ==
    Settled /\ rejected = {} /\ reverted = {} =>
        Cardinality({s \in Subs : stripe[s] \in Blocking}) <= 1

\* The converse for the entitlement, which the code does not keep: the deletion
\* that Stripe reports of a duplicate or of a swapped incumbent ends the
\* entitlement of the subscription that lives on.
ScaleIsEntitled ==
    Settled /\ overtaken = {} /\ reverted = {} /\ (\E s \in Subs : row[s].status \in Blocking) =>
        entitled

=============================================================================
