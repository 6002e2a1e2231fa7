----------------------------- MODULE BillingProofs -----------------------------
(***************************************************************************)
(* Proofs about Billing, for any subscriptions, handlers and bounds.       *)
(*                                                                         *)
(* First, that what the database has ended is ended at Stripe: whatever a  *)
(* delivery decides to end is ended at Stripe when it reads the rows or is *)
(* among the subscriptions it cancels there; it commits with none of these *)
(* left; and what is ended at Stripe stays so while the delivery runs.     *)
(*                                                                         *)
(* Then, that what has ended at Stripe ends here, with the entitlement,    *)
(* and that one subscription is billed.  Until a row shows what Stripe     *)
(* has, the last report of its subscription is due, and its delivery will  *)
(* not find it stale; and at most one row blocks.                          *)
(***************************************************************************)
EXTENDS Billing, FiniteSetTheorems, TLAPS

-----------------------------------------------------------------------------
(* The invariant.                                                          *)

\* Rows that are ended are ended at Stripe, but for some that are to be canceled.
Backed(rows, cancels) ==
    \A s \in Subs : rows[s].status \in Terminal => s \in cancels \/ stripe[s] \in Terminal

HandlerShape(d) ==
    \/ d = Idle
    \/ d = [pc |-> d.pc, event |-> d.event, locked |-> d.locked, read |-> d.read,
            writes |-> d.writes, cancels |-> d.cancels, entitles |-> d.entitles]

StripeInv == stripe = [s \in Subs |-> stripe[s]]

\* An event that reports an end comes after it.
DueInv ==
    \A e \in due : /\ e.of \in Subs
                   /\ e.type = "subscription" /\ e.status \in Terminal => stripe[e.of] \in Terminal

HandlersInv ==
    /\ handler = [h \in Handlers |-> handler[h]]
    /\ \A h \in Handlers : /\ HandlerShape(handler[h])
                           /\ Busy(h) => Backed(handler[h].writes, handler[h].cancels)

BillInv == StripeInv /\ DueInv /\ HandlersInv /\ Backed(row, {})

-----------------------------------------------------------------------------
(* Decisions.                                                              *)

LEMMA SetStatus ==
    \A rows, some, status, at : \A s \in Subs :
        Set(rows, some, status, at)[s].status = IF s \in some THEN status ELSE rows[s].status
  BY DEF Set

LEMMA NothingBacked ==
    ASSUME NEW rows, NEW cancels, Backed(rows, cancels)
    PROVE  Backed(Nothing(rows).writes, cancels \cup Nothing(rows).cancels)
  BY DEF Backed, Nothing, Decision, Entitles

\* A row set to the status it has at Stripe as far as it matters.
LEMMA SetBacked ==
    ASSUME NEW rows, NEW cancels, Backed(rows, cancels), NEW s, NEW status, NEW at,
           status \in Terminal => s \in cancels \/ stripe[s] \in Terminal
    PROVE  Backed(Set(rows, {s}, status, at), cancels)
  BY SetStatus DEF Backed

LEMMA SwappedBacked ==
    ASSUME NEW rows, NEW cancels, Backed(rows, cancels), NEW s, NEW at
    PROVE  LET d == Swapped(rows, s, "active", at) IN Backed(d.writes, cancels \cup d.cancels)
<1> DEFINE d == Swapped(rows, s, "active", at)
<1>1. d.cancels = Others(rows, s)
      /\ d.writes = Set(Set(rows, Others(rows, s), "canceled", at), {s}, "active", at)
  BY DEF Swapped, Decision, Entitles
<1>2. \A t \in Subs : d.writes[t].status = IF t = s THEN "active"
                                           ELSE IF t \in Others(rows, s) THEN "canceled"
                                           ELSE rows[t].status
  BY <1>1, SetStatus
<1> QED BY <1>1, <1>2 DEF Backed, Terminal

LEMMA RefusedBacked ==
    ASSUME NEW rows, NEW cancels, Backed(rows, cancels), NEW s, NEW at
    PROVE  LET d == Refused(rows, s, at) IN Backed(d.writes, cancels \cup d.cancels)
<1>1. Refused(rows, s, at).cancels = {s}
      /\ Refused(rows, s, at).writes = Set(rows, {s}, "canceled", at)
  BY DEF Refused, Decision, Entitles
<1> QED BY <1>1, SetStatus DEF Backed

LEMMA AppliedKeeps ==
    \A rows, cancels, status :
        /\ Applied(Decision(rows, cancels), status).writes = rows
        /\ Applied(Decision(rows, cancels), status).cancels = cancels
  BY DEF Applied, Decision, Entitles

LEMMA SubscriptionBacked ==
    ASSUME NEW rows, Backed(rows, {}), NEW s, NEW status, NEW at,
           status \in Terminal => stripe[s] \in Terminal
    PROVE  LET d == ApplySubscription(rows, s, status, at) IN Backed(d.writes, d.cancels)
<1> DEFINE d == ApplySubscription(rows, s, status, at)
<1> DEFINE set == Set(rows, {s}, status, at)
<1> DEFINE refused == Set(rows, {s}, "canceled", at)
<1>1. CASE d = Nothing(rows)
  BY <1>1 DEF Nothing, Decision, Entitles
<1>2. CASE status = "active" /\ d = Applied(Swapped(rows, s, status, at), status)
  <2>1. d.writes = Swapped(rows, s, "active", at).writes
        /\ d.cancels = Swapped(rows, s, "active", at).cancels
    BY <1>2, AppliedKeeps DEF Swapped, Decision, Entitles
  <2> QED BY <2>1, SwappedBacked
<1>3. CASE status \in Terminal /\ d = Nothing(refused)
  <2>1. Backed(refused, {})
    BY <1>3, SetBacked
  <2> QED BY <1>3, <2>1 DEF Nothing, Decision, Entitles
<1>4. CASE d = Refused(rows, s, at)
  BY <1>4, RefusedBacked
<1>5. CASE d = Applied(Nothing(set), status)
  <2>1. d.writes = set /\ d.cancels = {}
    BY <1>5, AppliedKeeps DEF Nothing
  <2>2. Backed(set, {})
    BY SetBacked
  <2> QED BY <2>1, <2>2
<1> QED BY <1>1, <1>2, <1>3, <1>4, <1>5 DEF ApplySubscription

LEMMA InvoiceBacked ==
    ASSUME NEW rows, NEW cancels, Backed(rows, cancels), NEW s \in Subs, NEW paid, NEW at
    PROVE  LET d == InvoiceOnRow(rows, s, paid, at) IN Backed(d.writes, cancels \cup d.cancels)
<1> DEFINE d == InvoiceOnRow(rows, s, paid, at)
<1> DEFINE set == Set(rows, {s}, AfterInvoice(rows[s], paid), at)
<1>1. CASE d = Nothing(rows)
  BY <1>1, NothingBacked
<1>2. CASE d = Swapped(rows, s, "active", at)
  BY <1>2, SwappedBacked
<1>3. CASE d = Refused(rows, s, at)
  BY <1>3, RefusedBacked
<1>4. CASE d = Nothing(set)
  <2>1. AfterInvoice(rows[s], paid) \in Terminal => rows[s].status \in Terminal
    BY DEF AfterInvoice, Terminal
  <2>2. Backed(set, cancels)
    BY <2>1, SetBacked DEF Backed
  <2> QED BY <1>4, <2>2, NothingBacked
<1> QED BY <1>1, <1>2, <1>3, <1>4 DEF InvoiceOnRow

\* Every decision: what it ends is ended at Stripe, or will be canceled there.
LEMMA DecisionsBacked ==
    ASSUME NEW rows, Backed(rows, {}), NEW e, e.of \in Subs,
           e.type = "subscription" /\ e.status \in Terminal => stripe[e.of] \in Terminal
    PROVE  Backed(Decide(rows, e).writes, Decide(rows, e).cancels)
<1>1. Backed(Nothing(rows).writes, Nothing(rows).cancels)
  BY DEF Nothing, Decision, Entitles
<1>2. CASE e.type = "subscription"
  BY <1>2, SubscriptionBacked DEF Decide
<1>3. CASE e.type = "checkout"
  <2>1. Decide(rows, e) = ApplyCheckout(rows, e.of, e.at)
    BY <1>3 DEF Decide
  <2> QED BY <1>1, <2>1, SubscriptionBacked DEF ApplyCheckout
<1>4. CASE e.type = "refund"
  <2>1. Decide(rows, e) = ApplyRefund(rows, e.of, e.at)
    BY <1>4 DEF Decide
  <2>2. CASE Decide(rows, e) = Nothing(rows)
    BY <1>1, <2>2
  <2>3. CASE Decide(rows, e) = [Refused(rows, e.of, e.at) EXCEPT !.entitles = AfterRefund(rows, e.of)]
    <3>1. Decide(rows, e).writes = Refused(rows, e.of, e.at).writes
          /\ Decide(rows, e).cancels = Refused(rows, e.of, e.at).cancels
      BY <2>3 DEF Refused, Decision, Entitles
    <3> QED BY <3>1, RefusedBacked
  <2> QED BY <2>1, <2>2, <2>3 DEF ApplyRefund
<1>5. CASE e.type \notin {"subscription", "checkout", "refund"}
  <2> DEFINE paid == e.type = "paid"
  <2>1. Decide(rows, e) = ApplyInvoice(rows, e.of, paid, e.at)
    BY <1>5 DEF Decide
  <2> HIDE DEF paid
  <2>2. CASE Known(rows, e.of)
    BY <2>1, <2>2, InvoiceBacked DEF ApplyInvoice
  <2>3. CASE ~Known(rows, e.of)
    <3> DEFINE first == ApplySubscription(rows, e.of, stripe[e.of], e.at)
    <3> DEFINE then == InvoiceOnRow(first.writes, e.of, paid, e.at)
    <3>1. Backed(first.writes, first.cancels)
      BY SubscriptionBacked
    <3> HIDE DEF first
    <3>2. Backed(then.writes, first.cancels \cup then.cancels)
      BY <3>1, InvoiceBacked
    <3> HIDE DEF then
    <3>3. \/ Decide(rows, e) = first
          \/ Decide(rows, e) = Entitles(then.writes, first.cancels \cup then.cancels, first.entitles)
      BY <2>1, <2>3 DEF ApplyInvoice, first, then
    <3>4. /\ Entitles(then.writes, first.cancels \cup then.cancels, first.entitles).writes = then.writes
          /\ Entitles(then.writes, first.cancels \cup then.cancels, first.entitles).cancels
                 = first.cancels \cup then.cancels
      BY DEF Entitles
    <3> QED BY <3>1, <3>2, <3>3, <3>4
  <2> QED BY <2>2, <2>3
<1> QED BY <1>2, <1>3, <1>4, <1>5

-----------------------------------------------------------------------------
(* Steps.                                                                  *)

\* What is ended at Stripe stays ended.
Kept ==
    /\ stripe' = [s \in Subs |-> stripe'[s]]
    /\ \A s \in Subs : stripe[s] \in Terminal => stripe'[s] \in Terminal

LEMMA IdleNot == Idle.pc = "idle"
  BY DEF Idle

\* A step that leaves the rows and the deliveries alone.
LEMMA WorldStays ==
    ASSUME BillInv, Kept, UNCHANGED <<row, handler>>,
           \A e \in due' : e \in due \/ /\ e.of \in Subs
                                        /\ e.type = "subscription" /\ e.status \in Terminal
                                               => stripe'[e.of] \in Terminal
    PROVE  BillInv'
<1>1. StripeInv'
  BY DEF Kept, StripeInv
<1>2. DueInv'
  BY DEF Kept, BillInv, DueInv
<1>3. HandlersInv'
  <2>1. \A h \in Handlers : Busy(h)' <=> Busy(h)
    BY DEF Busy, At
  <2> QED BY <2>1 DEF Kept, BillInv, HandlersInv, Backed
<1>4. Backed(row, {})'
  BY DEF Kept, BillInv, Backed
<1> QED BY <1>1, <1>2, <1>3, <1>4 DEF BillInv

\* Stripe's own changes: only what has not ended becomes something else.
LEMMA BecomesStays ==
    ASSUME BillInv, NEW s \in Subs, NEW status, NEW others, Becomes(s, status, others),
           stripe[s] \notin Terminal,
           \A e \in others : e.of = s /\ e.type # "subscription"
    PROVE  BillInv'
<1>1. stripe' = [stripe EXCEPT ![s] = status] /\ due' = due \cup {Reports(s, status)} \cup others
  BY DEF Becomes
<1>2. \A t \in Subs : stripe'[t] = IF t = s THEN status ELSE stripe[t]
  BY <1>1 DEF BillInv, StripeInv
<1>3. Kept
  BY <1>1, <1>2 DEF Kept, BillInv, StripeInv
<1>4. Reports(s, status).of = s /\ Reports(s, status).status = status
  BY DEF Reports
<1> QED BY <1>1, <1>2, <1>3, <1>4, WorldStays DEF Becomes

LEMMA Notices ==
    \A type, s : Notice(type, s).of = s /\ Notice(type, s).type = type
  BY DEF Notice

LEMMA StripeStays ==
    ASSUME BillInv, NEW s \in Subs,
           Subscribe(s) \/ Pays(s) \/ PaymentFails(s) \/ Ends(s) \/ Refund(s)
    PROVE  BillInv'
<1>1. CASE Subscribe(s)
  <2>1. stripe[s] \notin Terminal
    BY <1>1 DEF Subscribe, Terminal
  <2>2. CASE Becomes(s, "incomplete", {Notice("checkout", s)})
    BY <2>1, <2>2, Notices, BecomesStays
  <2>3. CASE Becomes(s, "active", {Notice("checkout", s), Notice("paid", s)})
    BY <2>1, <2>3, Notices, BecomesStays
  <2> QED BY <1>1, <2>2, <2>3 DEF Subscribe
<1>2. CASE Pays(s)
  BY <1>2, Notices, BecomesStays DEF Pays, Terminal
<1>3. CASE PaymentFails(s)
  BY <1>3, Notices, BecomesStays DEF PaymentFails, Terminal
<1>4. CASE Ends(s)
  <2>1. stripe[s] \notin Terminal
    BY <1>4 DEF Ends, Terminal, Blocking
  <2>2. CASE Becomes(s, "canceled", {})
    BY <2>1, <2>2, BecomesStays
  <2>3. CASE Becomes(s, "incomplete_expired", {})
    BY <2>1, <2>3, BecomesStays
  <2> QED BY <1>4, <2>2, <2>3 DEF Ends
<1>5. CASE Refund(s)
  <2>1. Kept
    BY <1>5 DEF Refund, Kept, BillInv, StripeInv
  <2> QED BY <1>5, <2>1, Notices, WorldStays DEF Refund
<1> QED BY <1>1, <1>2, <1>3, <1>4, <1>5

\* A step of one delivery, which leaves it in state d.
LEMMA HandlerStays ==
    ASSUME BillInv, Kept, NEW h \in Handlers, NEW d, handler' = [handler EXCEPT ![h] = d],
           HandlerShape(d),
           d.pc # "idle" => \A s \in Subs : d.writes[s].status \in Terminal =>
                                s \in d.cancels \/ stripe'[s] \in Terminal
    PROVE  HandlersInv'
<1>1. \A g \in Handlers : handler'[g] = IF g = h THEN d ELSE handler[g]
  BY DEF BillInv, HandlersInv
<1>2. handler' = [g \in Handlers |-> handler'[g]]
  BY DEF BillInv, HandlersInv
<1>3. ASSUME NEW g \in Handlers
      PROVE  /\ HandlerShape(handler'[g])
             /\ handler'[g].pc # "idle" =>
                    \A s \in Subs : handler'[g].writes[s].status \in Terminal =>
                        s \in handler'[g].cancels \/ stripe'[s] \in Terminal
  <2>1. CASE g = h
    BY <1>1, <2>1
  <2>2. CASE g # h
    BY <1>1, <2>2 DEF Kept, BillInv, HandlersInv, Busy, At, Backed
  <2> QED BY <2>1, <2>2
<1> QED BY <1>2, <1>3 DEF HandlersInv, HandlerShape, Busy, At, Backed

LEMMA DeliverStays ==
    ASSUME BillInv, NEW h \in Handlers, NEW e \in due, Deliver(h, e) \/ Acknowledge(h, e)
    PROVE  BillInv'
<1>1. Kept
  BY DEF Deliver, Acknowledge, Kept, BillInv, StripeInv
<1>2. CASE Acknowledge(h, e)
  BY <1>1, <1>2, WorldStays DEF Acknowledge
<1>3. CASE Deliver(h, e)
  <2> DEFINE d == Decide(row, e)
  <2> DEFINE new == [pc |-> "decided", event |-> e, locked |-> Locks(e), read |-> row,
                     writes |-> d.writes, cancels |-> d.cancels, entitles |-> d.entitles]
  <2>1. Backed(d.writes, d.cancels)
    BY DecisionsBacked DEF BillInv, DueInv
  <2> HIDE DEF d
  <2>2. handler' = [handler EXCEPT ![h] = new]
    BY <1>3 DEF Deliver, d
  <2>3. HandlerShape(new) /\ new.writes = d.writes /\ new.cancels = d.cancels
    BY DEF HandlerShape
  <2> HIDE DEF new
  <2>4. UNCHANGED <<stripe, due, row>>
    BY <1>3 DEF Deliver
  <2>5. HandlersInv'
    BY <1>1, <2>1, <2>2, <2>3, <2>4, HandlerStays DEF Backed
  <2> QED BY <2>4, <2>5 DEF BillInv, StripeInv, DueInv, Backed
<1> QED BY <1>2, <1>3

LEMMA FlushStays == ASSUME BillInv, NEW h \in Handlers, Flush(h) PROVE BillInv'
<1> DEFINE d == handler[h]
<1> DEFINE writes == IF Conflicts(h) THEN Set(d.writes, {d.event.of}, "canceled", d.event.at) ELSE d.writes
<1> DEFINE cancels == IF Conflicts(h) THEN d.cancels \cup {d.event.of} ELSE d.cancels
<1> DEFINE new == [pc |-> "flushed", event |-> d.event, locked |-> d.locked, read |-> d.read,
                   writes |-> writes, cancels |-> cancels,
                   entitles |-> IF Conflicts(h) THEN "keeps" ELSE d.entitles]
<1>1. UNCHANGED <<stripe, due, row>> /\ handler' = [handler EXCEPT ![h] = new] /\ Busy(h)
  BY DEF Flush, MayFlush, Busy, At
<1>2. Kept
  BY <1>1 DEF Kept, BillInv, StripeInv
<1>3. Backed(d.writes, d.cancels)
  BY <1>1 DEF BillInv, HandlersInv
<1>4. Backed(writes, cancels)
  <2>1. CASE Conflicts(h)
    BY <1>3, <2>1, SetStatus DEF Backed
  <2>2. CASE ~Conflicts(h)
    BY <1>3, <2>2
  <2> QED BY <2>1, <2>2
<1> HIDE DEF writes, cancels
<1>5. HandlerShape(new) /\ new.writes = writes /\ new.cancels = cancels
  BY DEF HandlerShape
<1> HIDE DEF new
<1>6. HandlersInv'
  BY <1>1, <1>2, <1>4, <1>5, HandlerStays DEF Backed
<1> QED BY <1>1, <1>6 DEF BillInv, StripeInv, DueInv, Backed

LEMMA CancelStays ==
    ASSUME BillInv, NEW h \in Handlers, NEW s \in Subs, CancelAtStripe(h, s)
    PROVE  BillInv'
<1> DEFINE d == handler[h]
<1> DEFINE new == [d EXCEPT !.cancels = d.cancels \ {s}]
<1>1. handler' = [handler EXCEPT ![h] = new] /\ row' = row /\ Busy(h) /\ d.pc = "flushed"
  BY DEF CancelAtStripe, At, Busy
<1>2. \/ stripe[s] \in Terminal /\ UNCHANGED <<stripe, due>>
      \/ stripe' = [stripe EXCEPT ![s] = "canceled"] /\ due' = due \cup {Reports(s, "canceled")}
  BY DEF CancelAtStripe
<1>3. Kept
  BY <1>2 DEF Kept, BillInv, StripeInv, Terminal
<1>4. stripe'[s] \in Terminal
  BY <1>2 DEF BillInv, StripeInv, Terminal
<1>5. DueInv'
  <2>1. Reports(s, "canceled").of = s
    BY DEF Reports
  <2> QED BY <1>2, <1>3, <1>4, <2>1 DEF Kept, BillInv, DueInv
<1>6. Backed(d.writes, d.cancels)
  BY <1>1 DEF BillInv, HandlersInv
<1>7. HandlerShape(new) /\ new.writes = d.writes /\ new.cancels = d.cancels \ {s} /\ new.pc = d.pc
  <2>1. d = [pc |-> d.pc, event |-> d.event, locked |-> d.locked, read |-> d.read,
             writes |-> d.writes, cancels |-> d.cancels, entitles |-> d.entitles]
    BY <1>1, IdleNot DEF BillInv, HandlersInv, HandlerShape
  <2>2. new = [pc |-> d.pc, event |-> d.event, locked |-> d.locked, read |-> d.read,
               writes |-> d.writes, cancels |-> d.cancels \ {s}, entitles |-> d.entitles]
    BY <2>1
  <2> HIDE DEF new
  <2> QED BY <2>2 DEF HandlerShape
<1> HIDE DEF new
<1>8. HandlersInv'
  BY <1>1, <1>3, <1>4, <1>6, <1>7, HandlerStays DEF Backed, Kept
<1>9. Backed(row, {})' /\ StripeInv'
  BY <1>1, <1>3 DEF Kept, BillInv, Backed, StripeInv
<1> QED BY <1>5, <1>8, <1>9 DEF BillInv

\* A delivery that ends without a trace: refused by Stripe, failed or dead.
LEMMA EndStays ==
    ASSUME BillInv, NEW h \in Handlers, handler' = [handler EXCEPT ![h] = Idle],
           due' \subseteq due, stripe' = stripe,
           \A s \in Subs : row'[s].status \in Terminal => stripe[s] \in Terminal
    PROVE  BillInv'
<1>1. Kept
  BY DEF Kept, BillInv, StripeInv
<1>2. HandlersInv'
  BY <1>1, IdleNot, HandlerStays DEF HandlerShape
<1> QED BY <1>2 DEF BillInv, StripeInv, DueInv, Backed

LEMMA CommitStays == ASSUME BillInv, NEW h \in Handlers, Commit(h) PROVE BillInv'
<1>1. /\ handler' = [handler EXCEPT ![h] = Idle] /\ due' \subseteq due /\ stripe' = stripe
      /\ row' = Written(h) /\ Busy(h) /\ handler[h].cancels = {}
  BY DEF Commit, Busy, At
<1>2. \A s \in Subs : row'[s] = handler[h].writes[s] \/ row'[s] = row[s]
  BY <1>1 DEF Written
<1>3. Backed(handler[h].writes, {}) /\ Backed(row, {})
  BY <1>1 DEF BillInv, HandlersInv
<1>4. \A s \in Subs : row'[s].status \in Terminal => stripe[s] \in Terminal
  BY <1>2, <1>3 DEF Backed
<1> QED BY <1>1, <1>4, EndStays

LEMMA FailStays ==
    ASSUME BillInv, NEW h \in Handlers, Fails(h) \/ \E s \in Subs : CancelRejected(h, s)
    PROVE  BillInv'
<1>1. handler' = [handler EXCEPT ![h] = Idle] /\ due' \subseteq due /\ stripe' = stripe /\ row' = row
  BY DEF Fails, CancelRejected, RowsUnwound
<1>2. \A s \in Subs : row'[s].status \in Terminal => stripe[s] \in Terminal
  BY <1>1 DEF BillInv, Backed
<1> QED BY <1>1, <1>2, EndStays

-----------------------------------------------------------------------------
(* The theorems.                                                           *)

LEMMA BillInit == Init => BillInv
<1> SUFFICES ASSUME Init PROVE BillInv
  OBVIOUS
<1>1. StripeInv /\ DueInv
  BY DEF Init, StripeInv, DueInv
<1>2. HandlersInv
  BY IdleNot DEF Init, HandlersInv, HandlerShape, Busy, At
<1>3. Backed(row, {})
  BY DEF Init, Backed, Absent, Terminal
<1> QED BY <1>1, <1>2, <1>3 DEF BillInv

LEMMA BillNext == BillInv /\ [Next]_vars => BillInv'
<1> SUFFICES ASSUME BillInv, [Next]_vars PROVE BillInv'
  OBVIOUS
<1>1. CASE Tick \/ UNCHANGED vars
  <2>1. UNCHANGED <<stripe, due, row, handler>>
    BY <1>1 DEF Tick, vars
  <2>2. Kept
    BY <2>1 DEF Kept, BillInv, StripeInv
  <2> QED BY <2>1, <2>2, WorldStays
<1>2. CASE \E s \in Subs : Subscribe(s) \/ Pays(s) \/ PaymentFails(s) \/ Ends(s) \/ Refund(s)
  BY <1>2, StripeStays
<1>3. CASE \E h \in Handlers : \E e \in due : Deliver(h, e) \/ Acknowledge(h, e)
  BY <1>3, DeliverStays
<1>4. CASE \E h \in Handlers : Flush(h) \/ Commit(h) \/ Fails(h)
  BY <1>4, FlushStays, CommitStays, FailStays
<1>5. CASE \E h \in Handlers : \E s \in Subs : CancelAtStripe(h, s) \/ CancelRejected(h, s)
  BY <1>5, CancelStays, FailStays
<1> QED BY <1>1, <1>2, <1>3, <1>4, <1>5 DEF Next

\* Whatever the database or a delivery has ended is ended at Stripe or will be
\* canceled by that delivery, and an event that reports an end comes after it.
THEOREM BillInvariant == Spec => []BillInv
<1> QED BY BillInit, BillNext, PTL DEF Spec

\* A subscription the database has ended is ended at Stripe: no order,
\* repetition or failure of deliveries takes access away from a subscription
\* that goes on being billed.
THEOREM NobodyPaysForNothing == Spec => []EndedHereIsEndedThere
<1>1. BillInv => EndedHereIsEndedThere
  BY DEF BillInv, Backed, EndedHereIsEndedThere
<1> QED BY <1>1, BillInvariant, PTL

-----------------------------------------------------------------------------
(* What else holds: the invariant of the two other properties.             *)

\* An event that reports an end.
End(e) == e.type = "subscription" /\ e.status \in Terminal

\* Nothing comes before its time, and nothing of a subscription Stripe does not
\* have; the report of an end is the last of its subscription.
TimeInv ==
    /\ \A s \in Subs : row[s].seen <= clock /\ (row[s] # Absent => stripe[s] # "none")
    /\ \A e \in due : /\ e.at <= clock /\ stripe[e.of] # "none"
                      /\ End(e) => \A f \in due : f.of = e.of => f.at <= e.at

\* What a delivery of e may make of a row: it ends others that block, and moves
\* its own on to its own second, which it revives only if that is later than the end.
Own(old, new, e) ==
    /\ new.status \in Statuses /\ new.seen = e.at /\ old.seen <= e.at
    /\ new.status \in Terminal \/ (~End(e) /\ (old.status \in Terminal => old.seen < e.at))
Moves(s, old, new, e) ==
    \/ new = old
    \/ s # e.of /\ old.status \in Blocking /\ new.status \in Terminal /\ new.seen = Later(old, e.at)
    \/ s = e.of /\ Own(old, new, e)

\* One flush and one lock of the customer at a time, and no event twice.
Apart(c, d) ==
    /\ c.event # d.event
    /\ ~(c.pc = "flushed" /\ d.pc = "flushed") /\ ~(c.locked /\ d.locked)

\* A delivery is of what is due; whoever creates a row or gives access has the lock;
\* and the report of an end only ends.
DeliveryInv(h) ==
    LET d == handler[h] IN
    /\ d.event \in due
    /\ \A s \in Subs : /\ d.read[s].seen <= clock
                       /\ Moves(s, d.read[s], d.writes[s], d.event)
                       /\ d.writes[s] # Absent => stripe[s] # "none"
                       /\ d.read[s] = Absent /\ d.writes[s] # Absent => d.locked
    /\ d.read[d.event.of].seen <= d.event.at /\ d.writes[d.event.of] # Absent
    /\ d.entitles = "gives" \/ d.event.type = "subscription" => d.locked
    /\ End(d.event) => /\ d.cancels = {} /\ d.entitles # "gives"
                       /\ d.writes[d.event.of].status \in Terminal
                       /\ d.writes[d.event.of].seen = d.event.at
                       /\ d.entitles = "keeps" => d.read[d.event.of] = Absent
DeliveriesInv ==
    \A h \in Handlers : Busy(h) =>
        /\ DeliveryInv(h)
        /\ \A g \in Handlers \ {h} : Busy(g) => Apart(handler[g], handler[h])

\* At most one row blocks, in the table and in what a flush has left.
Unique(rows) == \A s, t \in Subs : rows[s].status \in Blocking /\ rows[t].status \in Blocking => s = t
UniqueInv == Unique(row) /\ \A h \in Handlers : At(h, "flushed") => Unique(Written(h))

\* Of a subscription that has ended at Stripe the report is due, or the row has
\* ended and nothing that is due can revive it.
EndDue(s, x) == x \in due /\ End(x) /\ x.of = s /\ row[s].seen <= x.at
Over(s) == row[s].status \in Terminal /\ \A f \in due : f.of = s => f.at <= row[s].seen
EndInv ==
    /\ \A s \in Subs \ overtaken : stripe[s] \in Terminal => (\E x \in due : EndDue(s, x)) \/ Over(s)
    /\ \A h \in Handlers : Busy(h) /\ End(handler[h].event) => \A s \in Subs \ overtaken :
           s = handler[h].event.of /\ handler[h].writes[s] = handler[h].read[s] => Over(s)

\* The entitlement is carried: by a subscription that lives, or the end of one is
\* due that will end it too.
Carries(s) ==
    \/ stripe[s] \notin Terminal \cup {"none"}
    \/ \E x \in due : /\ EndDue(s, x)
                      /\ \A h \in Handlers : Busy(h) /\ handler[h].event = x => handler[h].entitles # "keeps"
\* A delivery that ends another row leaves one that blocks.
Replaces(h) ==
    LET d == handler[h] IN
    \/ /\ At(h, "decided") /\ d.writes[d.event.of].status \in Blocking
       /\ d.read[d.event.of].status \notin Blocking
    \/ At(h, "flushed") /\ \E u \in Subs : Written(h)[u].status \in Blocking
CarryInv ==
    overtaken = {} =>
        /\ \A h \in Handlers : Busy(h) =>
               /\ End(handler[h].event) /\ handler[h].entitles = "keeps" =>
                      row[handler[h].event.of] = Absent
               /\ (\E s \in Subs \ {handler[h].event.of} : handler[h].writes[s] # handler[h].read[s]) =>
                      Replaces(h)
        /\ entitled \/ (\E h \in Handlers : Busy(h) /\ handler[h].entitles = "gives") =>
               \E s \in Subs : Carries(s)

\* A subscription that is billed has a row that blocks, or its last report is due.
Unread(s, e) ==
    /\ e.type = "subscription" /\ e.of = s /\ e.status = stripe[s]
    /\ row[s].seen <= e.at
    /\ \A h \in Handlers : Busy(h) => handler[h].read[s].seen <= e.at
    /\ \A f \in due : f.of = s /\ f.type # "refund" => f.at <= e.at
BilledInv ==
    /\ \A h \in Handlers : Busy(h) =>
           LET d == handler[h] IN
           /\ d.event.type = "subscription" /\ d.event.status \in Blocking =>
               d.writes[d.event.of].status \in Blocking \cup Terminal
           /\ d.event.type = "refund" => d.writes[d.event.of].status \in Terminal
    /\ reverted = {} =>
           /\ \A h \in Handlers : Busy(h) =>
                \A s \in Subs : handler[h].read[s].status \in Blocking =>
                    row[s].status \in Blocking \/ stripe[s] \in Terminal
           /\ rejected = {} => \A s \in Subs : stripe[s] \in Blocking =>
                  row[s].status \in Blocking \/ \E e \in due : Unread(s, e)

BillingInv == BillInv /\ TypeOK /\ TimeInv /\ DeliveriesInv /\ UniqueInv /\ EndInv /\ CarryInv /\ BilledInv

-----------------------------------------------------------------------------
(* What a decision may be.                                                 *)

LEMMA LaterOf ==
    ASSUME NEW r, NEW at, r.seen \in Int, at \in Int
    PROVE  Later(r, at) = IF r.seen >= at THEN r.seen ELSE at
  BY DEF Later, Max

LEMMA RowFields ==
    \A r \in Rows : /\ r.seen \in Seconds /\ r.seen \in Int /\ r.seen >= 0
                    /\ r = Absent \/ r.status \in Statuses
                    /\ r.status \in Statuses => r # Absent
  BY BillingAssumption DEF Rows, Absent, Statuses, Terminal, Blocking, Seconds

LEMMA EventFields ==
    \A e \in Events :
        /\ e.of \in Subs /\ e.at \in Seconds /\ e.at \in Int /\ e.at >= 0
        /\ e.type = "subscription" => e.status \in Statuses
        /\ e.type \in {"subscription", "checkout", "paid", "failed", "refund"}
  BY BillingAssumption DEF Events, Seconds

LEMMA Kinds ==
    /\ Blocking \subseteq Statuses /\ Terminal \subseteq Statuses /\ Blocking \cap Terminal = {}
    /\ "active" \in Blocking /\ "past_due" \in Blocking /\ "canceled" \in Terminal
    /\ "incomplete" \in Statuses \ (Blocking \cup Terminal)
    /\ "none" \notin Statuses
    /\ Absent.status = "none" /\ Absent.seen = 0
  BY DEF Blocking, Terminal, Statuses, Absent

LEMMA SetTyped ==
    ASSUME NEW rows \in [Subs -> Rows], NEW some, NEW status \in Statuses, NEW at \in Seconds
    PROVE  Set(rows, some, status, at) \in [Subs -> Rows]
<1>1. ASSUME NEW s \in Subs
      PROVE  [status |-> status, seen |-> Later(rows[s], at)] \in Rows
  <2>1. rows[s].seen \in Seconds /\ rows[s].seen \in Int /\ at \in Int
    BY RowFields, BillingAssumption DEF Seconds
  <2>2. Later(rows[s], at) \in Seconds
    BY <2>1, LaterOf
  <2> QED BY <2>2 DEF Rows
<1> QED BY <1>1 DEF Set

\* A decision that changes something, of the event e on these rows.
Sound(rows, e, d) ==
    LET s == e.of IN
    /\ d.writes \in [Subs -> Rows] /\ d.cancels \in SUBSET Subs /\ d.entitles \in Entitling
    /\ \A t \in Subs : Moves(t, rows[t], d.writes[t], e)
    /\ rows[s].seen <= e.at /\ d.writes[s] # Absent
    /\ (\E t \in Subs \ {s} : d.writes[t] # rows[t]) =>
           d.writes[s].status \in Blocking /\ Others(rows, s) # {} /\ Others(d.writes, s) = {}
    /\ End(e) => /\ d.cancels = {} /\ d.entitles # "gives"
                 /\ d.writes[s].status \in Terminal /\ d.writes[s].seen = e.at
                 /\ d.entitles = "keeps" => rows[s] = Absent /\ Others(rows, s) # {}
    /\ e.type = "subscription" /\ e.status \in Blocking => d.writes[s].status \in Blocking \cup Terminal
    /\ e.type = "refund" => d.writes[s].status \in Terminal /\ rows[s] # Absent
    /\ d.entitles = "gives" =>
           \/ e.type = "subscription" /\ (rows[s].status \in Terminal => rows[s].seen < e.at)
           \/ rows[s] = Absent /\ e.type # "refund" /\ stripe[s] \notin Terminal

\* A subscription event that is stale, or a newcomer's that Stripe does not confirm.
Ignored(rows, s, status, at) ==
    \/ Stale(rows, s, status, at)
    \/ ~Known(rows, s) /\ status = "active" /\ stripe[s] # "active"

\* A decision that writes its own row only.
LEMMA SetOwn ==
    ASSUME NEW rows \in [Subs -> Rows], NEW e \in Events, NEW status \in Statuses,
           rows[e.of].seen <= e.at,
           status \in Terminal \/ (~End(e) /\ (rows[e.of].status \in Terminal => rows[e.of].seen < e.at))
    PROVE  LET w == Set(rows, {e.of}, status, e.at) IN
           /\ w \in [Subs -> Rows]
           /\ w[e.of] = [status |-> status, seen |-> e.at] /\ w[e.of] # Absent
           /\ \A t \in Subs \ {e.of} : w[t] = rows[t]
           /\ \A t \in Subs : Moves(t, rows[t], w[t], e)
<1> DEFINE w == Set(rows, {e.of}, status, e.at)
<1>1. e.of \in Subs /\ e.at \in Seconds /\ e.at \in Int /\ rows[e.of].seen \in Int
  BY EventFields, RowFields
<1>2. Later(rows[e.of], e.at) = e.at
  BY <1>1, LaterOf
<1>3. w[e.of] = [status |-> status, seen |-> e.at] /\ \A t \in Subs \ {e.of} : w[t] = rows[t]
  BY <1>1, <1>2 DEF Set
<1>4. w \in [Subs -> Rows]
  BY <1>1, SetTyped
<1> HIDE DEF w
<1>5. w[e.of] # Absent
  BY <1>3, Kinds
<1>6. \A t \in Subs : Moves(t, rows[t], w[t], e)
  BY <1>3 DEF Moves, Own
<1> QED BY <1>3, <1>4, <1>5, <1>6 DEF w

\* A decision that takes over from the others.
LEMMA SwapOwn ==
    ASSUME NEW rows \in [Subs -> Rows], NEW e \in Events, rows[e.of].seen <= e.at,
           ~End(e), rows[e.of].status \in Terminal => rows[e.of].seen < e.at
    PROVE  LET w == Set(Set(rows, Others(rows, e.of), "canceled", e.at), {e.of}, "active", e.at) IN
           /\ w \in [Subs -> Rows]
           /\ w[e.of] = [status |-> "active", seen |-> e.at] /\ w[e.of] # Absent
           /\ \A t \in Subs : Moves(t, rows[t], w[t], e)
           /\ Others(w, e.of) = {}
<1> DEFINE o == Others(rows, e.of)
<1> DEFINE v == Set(rows, o, "canceled", e.at)
<1> DEFINE w == Set(v, {e.of}, "active", e.at)
<1>1. e.of \in Subs /\ e.at \in Seconds /\ e.at \in Int /\ rows[e.of].seen \in Int
  BY EventFields, RowFields
<1>2. v \in [Subs -> Rows] /\ w \in [Subs -> Rows]
  <2>1. v \in [Subs -> Rows]
    BY <1>1, Kinds, SetTyped
  <2> HIDE DEF v
  <2> QED BY <1>1, <2>1, Kinds, SetTyped
<1>3. e.of \notin o /\ o \subseteq Subs /\ \A t \in o : rows[t].status \in Blocking
  BY DEF Others
<1>4. v[e.of] = rows[e.of] /\ \A t \in Subs :
          v[t] = IF t \in o THEN [status |-> "canceled", seen |-> Later(rows[t], e.at)] ELSE rows[t]
  <2> HIDE DEF o
  <2> QED BY <1>1, <1>3 DEF Set
<1>10. ASSUME NEW t \in Subs
       PROVE  IF t \in o THEN v[t].status = "canceled" /\ v[t].seen = Later(rows[t], e.at)
              ELSE v[t] = rows[t]
  <2>1. CASE t \in o
    <3>1. v[t] = [status |-> "canceled", seen |-> Later(rows[t], e.at)]
      BY <1>4, <2>1
    <3> HIDE DEF v, o
    <3> QED BY <2>1, <3>1
  <2>2. CASE t \notin o
    BY <1>4, <2>2
  <2> QED BY <2>1, <2>2
<1> HIDE DEF v
<1>5. Later(v[e.of], e.at) = e.at
  BY <1>1, <1>4, LaterOf
<1>6. w[e.of] = [status |-> "active", seen |-> e.at] /\ \A t \in Subs \ {e.of} : w[t] = v[t]
  BY <1>1, <1>5 DEF Set
<1> HIDE DEF w
<1>7. w[e.of] # Absent
  BY <1>6, Kinds
<1>8. ASSUME NEW t \in Subs PROVE Moves(t, rows[t], w[t], e)
  <2>1. CASE t = e.of
    BY <1>6, <2>1, Kinds DEF Moves, Own
  <2>2. CASE t # e.of
    <3>1. w[t] = v[t]
      BY <1>6, <2>2
    <3> QED BY <1>3, <1>10, <2>2, <3>1, Kinds DEF Moves
  <2> QED BY <2>1, <2>2
<1>9. Others(w, e.of) = {}
  <2>1. ASSUME NEW t \in Subs \ {e.of} PROVE w[t].status \notin Blocking
    <3>1. w[t] = v[t]
      BY <1>6
    <3> QED BY <1>10, <3>1, Kinds DEF Others
  <2> QED BY <2>1 DEF Others
<1> QED BY <1>2, <1>6, <1>7, <1>8, <1>9 DEF w, v, o

LEMMA DecisionFields ==
    \A rows, cancels, entitles, status :
        /\ Entitles(rows, cancels, entitles).writes = rows
        /\ Entitles(rows, cancels, entitles).cancels = cancels
        /\ Entitles(rows, cancels, entitles).entitles = entitles
        /\ Applied(Decision(rows, cancels), status) = Entitles(rows, cancels, ByStatus(status))
        /\ Decision(rows, cancels) = Entitles(rows, cancels, "keeps")
        /\ Nothing(rows) = Entitles(rows, {}, "keeps")
  BY DEF Entitles, Applied, Decision, Nothing

LEMMA StatusKinds ==
    \A status \in Statuses :
        /\ ByStatus(status) \in Entitling
        /\ status \in Terminal => ByStatus(status) = "ends"
        /\ ByStatus(status) = "gives" <=> status \in Blocking
  BY DEF ByStatus, Entitling, Statuses, Terminal, Blocking

LEMMA SubscriptionSound ==
    ASSUME NEW rows \in [Subs -> Rows], NEW e \in Events, NEW status \in Statuses,
           IF e.type = "subscription" THEN status = e.status
           ELSE e.type # "refund" /\ rows[e.of] = Absent /\ status = stripe[e.of]
    PROVE  LET d == ApplySubscription(rows, e.of, status, e.at) IN
           \/ d = Nothing(rows) /\ Ignored(rows, e.of, status, e.at)
           \/ Sound(rows, e, d)
<1> DEFINE s == e.of
<1> DEFINE others == Others(rows, s)
<1> DEFINE d == ApplySubscription(rows, s, status, e.at)
<1>1. s \in Subs /\ e.at \in Int /\ e.at >= 0 /\ rows[s].seen \in Int /\ rows[s] \in Rows
  BY EventFields, RowFields
<1>2. End(e) <=> e.type = "subscription" /\ status \in Terminal
  BY DEF End
<1> SUFFICES ASSUME ~(d = Nothing(rows) /\ Ignored(rows, s, status, e.at))
             PROVE  Sound(rows, e, d)
  OBVIOUS
<1>3. ~Stale(rows, s, status, e.at)
  BY DEF ApplySubscription, Ignored
<1>4. rows[s].seen <= e.at /\ (rows[s].status \in Terminal /\ status \notin Terminal => rows[s].seen < e.at)
  <2>1. CASE rows[s] = Absent
    BY <1>1, <2>1, Kinds
  <2>2. CASE rows[s] # Absent
    BY <1>1, <1>3, <2>2 DEF Stale, Known
  <2> QED BY <2>1, <2>2
<1>5. "canceled" \in Statuses /\ "canceled" \in Terminal
  BY Kinds
<1>6. ByStatus(status) = "gives" =>
           \/ e.type = "subscription" /\ (rows[s].status \in Terminal => rows[s].seen < e.at)
           \/ rows[s] = Absent /\ e.type # "refund" /\ stripe[s] \notin Terminal
  BY <1>4, StatusKinds, Kinds
<1>7. CASE InDunning(rows, s) /\ status = "active" /\ d = Applied(Swapped(rows, s, status, e.at), status)
  <2> DEFINE w == Set(Set(rows, others, "canceled", e.at), {s}, "active", e.at)
  <2>1. d = Entitles(w, others, ByStatus(status))
    BY <1>7, DecisionFields DEF Swapped
  <2>2. ~End(e) /\ status \in Blocking /\ status \notin Terminal
    BY <1>2, <1>7, Kinds
  <2>3. /\ w \in [Subs -> Rows]
        /\ w[s] = [status |-> "active", seen |-> e.at] /\ w[s] # Absent
        /\ \A t \in Subs : Moves(t, rows[t], w[t], e)
        /\ Others(w, s) = {}
    BY <1>4, <2>2, SwapOwn
  <2> HIDE DEF w
  <2>4. d.writes = w /\ d.cancels = others /\ d.entitles = ByStatus(status)
    BY <2>1, DecisionFields
  <2>5. others \in SUBSET Subs /\ others # {}
    BY <1>7 DEF Others, InDunning
  <2> HIDE DEF d, others
  <2> QED BY <1>4, <1>6, <1>7, <2>2, <2>3, <2>4, <2>5, Kinds, StatusKinds DEF Sound, others
<1>8. CASE others # {} /\ \/ d = Refused(rows, s, e.at) /\ ~End(e)
                          \/ ~Known(rows, s) /\ d = Nothing(Set(rows, {s}, "canceled", e.at))
  <2> DEFINE w == Set(rows, {s}, "canceled", e.at)
  <2>1. /\ w \in [Subs -> Rows]
        /\ w[s] = [status |-> "canceled", seen |-> e.at] /\ w[s] # Absent
        /\ \A t \in Subs \ {s} : w[t] = rows[t]
        /\ \A t \in Subs : Moves(t, rows[t], w[t], e)
    BY <1>4, <1>5, SetOwn
  <2> HIDE DEF w
  <2>2. d.writes = w /\ d.entitles = "keeps" /\ d.cancels \in SUBSET {s}
        /\ ((d.cancels = {} /\ ~Known(rows, s)) \/ ~End(e))
    BY <1>8, DecisionFields DEF Refused, w
  <2> HIDE DEF d
  <2>3. End(e) => rows[s] = Absent /\ d.cancels = {} /\ others # {}
    BY <1>8, <2>2 DEF Known
  <2>4. e.type # "refund"
    OBVIOUS
  <2> QED BY <1>1, <1>4, <2>1, <2>2, <2>3, <2>4, Kinds DEF Sound, Entitling
<1>9. CASE d = Applied(Nothing(Set(rows, {s}, status, e.at)), status)
  <2> DEFINE w == Set(rows, {s}, status, e.at)
  <2>1. /\ w \in [Subs -> Rows]
        /\ w[s] = [status |-> status, seen |-> e.at] /\ w[s] # Absent
        /\ \A t \in Subs \ {s} : w[t] = rows[t]
        /\ \A t \in Subs : Moves(t, rows[t], w[t], e)
    <3>1. status \in Terminal \/ (~End(e) /\ (rows[s].status \in Terminal => rows[s].seen < e.at))
      BY <1>2, <1>4
    <3> QED BY <1>4, <3>1, SetOwn
  <2> HIDE DEF w
  <2>2. d.writes = w /\ d.cancels = {} /\ d.entitles = ByStatus(status)
    BY <1>9, DecisionFields DEF Nothing, w
  <2> HIDE DEF d
  <2>3. End(e) => status \in Terminal /\ ByStatus(status) = "ends"
    BY <1>2, StatusKinds
  <2>4. e.type # "refund"
    OBVIOUS
  <2>5. d.entitles \in Entitling
    BY <2>2, StatusKinds
  <2> QED BY <1>1, <1>4, <1>6, <2>1, <2>2, <2>3, <2>4, <2>5 DEF Sound
<1>10. \/ InDunning(rows, s) /\ status = "active" /\ d = Applied(Swapped(rows, s, status, e.at), status)
       \/ others # {} /\ \/ d = Refused(rows, s, e.at) /\ status \notin Terminal
                         \/ ~Known(rows, s) /\ d = Nothing(Set(rows, {s}, "canceled", e.at))
       \/ d = Applied(Nothing(Set(rows, {s}, status, e.at)), status)
  BY <1>3, Kinds DEF ApplySubscription, Ignored
<1> QED BY <1>2, <1>7, <1>8, <1>9, <1>10

LEMMA InvoiceSound ==
    ASSUME NEW rows \in [Subs -> Rows], NEW e \in Events, NEW paid \in BOOLEAN,
           e.type \notin {"subscription", "refund"}, rows[e.of] # Absent
    PROVE  LET d == InvoiceOnRow(rows, e.of, paid, e.at) IN
           /\ d = Nothing(rows) \/ Sound(rows, e, d)
           /\ d.entitles = "keeps"
           /\ rows[e.of].status \in Blocking /\ Others(rows, e.of) = {} => d.writes[e.of].status \in Blocking
<1> DEFINE s == e.of
<1> DEFINE others == Others(rows, s)
<1> DEFINE d == InvoiceOnRow(rows, s, paid, e.at)
<1> DEFINE after == AfterInvoice(rows[s], paid)
<1> SUFFICES /\ d = Nothing(rows) \/ Sound(rows, e, d)
             /\ d.entitles = "keeps"
             /\ rows[s].status \in Blocking /\ others = {} => d.writes[s].status \in Blocking
  OBVIOUS
<1>1. s \in Subs /\ e.at \in Int /\ rows[s].seen \in Int /\ rows[s] \in Rows /\ rows[s].status \in Statuses
  BY EventFields, RowFields
<1>2. ~End(e)
  BY DEF End
<1>3. CASE d = Nothing(rows)
  BY <1>3, DecisionFields
<1>4. CASE rows[s].seen <= e.at /\ rows[s].status \notin Terminal /\ others # {}
           /\ d = Swapped(rows, s, "active", e.at)
  <2> DEFINE w == Set(Set(rows, others, "canceled", e.at), {s}, "active", e.at)
  <2>1. d = Entitles(w, others, "keeps")
    BY <1>4, DecisionFields DEF Swapped
  <2>2. /\ w \in [Subs -> Rows]
        /\ w[s] = [status |-> "active", seen |-> e.at] /\ w[s] # Absent
        /\ \A t \in Subs : Moves(t, rows[t], w[t], e)
        /\ Others(w, s) = {}
    BY <1>2, <1>4, SwapOwn
  <2> HIDE DEF w
  <2>3. d.writes = w /\ d.cancels = others /\ d.entitles = "keeps"
    BY <2>1, DecisionFields
  <2>4. others \in SUBSET Subs
    BY DEF Others
  <2> HIDE DEF d, others
  <2> QED BY <1>2, <1>4, <2>2, <2>3, <2>4, Kinds DEF Sound, Entitling, others
<1>5. CASE rows[s].seen <= e.at /\ others # {} /\ d = Refused(rows, s, e.at)
  <2> DEFINE w == Set(rows, {s}, "canceled", e.at)
  <2>1. /\ w \in [Subs -> Rows]
        /\ w[s] = [status |-> "canceled", seen |-> e.at] /\ w[s] # Absent
        /\ \A t \in Subs \ {s} : w[t] = rows[t]
        /\ \A t \in Subs : Moves(t, rows[t], w[t], e)
    BY <1>5, Kinds, SetOwn
  <2> HIDE DEF w
  <2>2. d.writes = w /\ d.entitles = "keeps" /\ d.cancels = {s}
    BY <1>5, DecisionFields DEF Refused, w
  <2> HIDE DEF d
  <2> QED BY <1>1, <1>2, <1>5, <2>1, <2>2, Kinds DEF Sound, Entitling
<1>6. CASE rows[s].seen <= e.at /\ d = Nothing(Set(rows, {s}, after, e.at))
  <2> DEFINE w == Set(rows, {s}, after, e.at)
  <2>1. /\ after \in Statuses
        /\ rows[s].status \in Terminal => after \in Terminal
        /\ rows[s].status \in Blocking => after \in Blocking
    BY <1>1 DEF AfterInvoice, Statuses, Terminal, Blocking
  <2> HIDE DEF after
  <2>2. /\ w \in [Subs -> Rows]
        /\ w[s] = [status |-> after, seen |-> e.at] /\ w[s] # Absent
        /\ \A t \in Subs \ {s} : w[t] = rows[t]
        /\ \A t \in Subs : Moves(t, rows[t], w[t], e)
    BY <1>2, <1>6, <2>1, SetOwn
  <2> HIDE DEF w
  <2>3. d.writes = w /\ d.entitles = "keeps" /\ d.cancels = {}
    BY <1>6, DecisionFields DEF w
  <2> HIDE DEF d
  <2> QED BY <1>1, <1>2, <1>6, <2>1, <2>2, <2>3 DEF Sound, Entitling
<1>7. \/ d = Nothing(rows)
      \/ /\ rows[s].seen <= e.at
         /\ \/ rows[s].status \notin Terminal /\ others # {} /\ d = Swapped(rows, s, "active", e.at)
            \/ others # {} /\ d = Refused(rows, s, e.at)
            \/ d = Nothing(Set(rows, {s}, after, e.at))
  BY <1>1 DEF InvoiceOnRow, InDunning
<1> QED BY <1>3, <1>4, <1>5, <1>6, <1>7

LEMMA RefundSound ==
    ASSUME NEW rows \in [Subs -> Rows], NEW e \in Events, e.type = "refund"
    PROVE  LET d == ApplyRefund(rows, e.of, e.at) IN d = Nothing(rows) \/ Sound(rows, e, d)
<1> DEFINE s == e.of
<1> DEFINE d == ApplyRefund(rows, s, e.at)
<1>1. s \in Subs /\ e.at \in Int /\ rows[s].seen \in Int
  BY EventFields, RowFields
<1> SUFFICES ASSUME d # Nothing(rows) PROVE Sound(rows, e, d)
  OBVIOUS
<1>2. /\ rows[s] # Absent /\ rows[s].seen <= e.at
      /\ d = [Refused(rows, s, e.at) EXCEPT !.entitles = AfterRefund(rows, s)]
  BY <1>1 DEF ApplyRefund, Known
<1> DEFINE w == Set(rows, {s}, "canceled", e.at)
<1>3. /\ w \in [Subs -> Rows]
      /\ w[s] = [status |-> "canceled", seen |-> e.at] /\ w[s] # Absent
      /\ \A t \in Subs \ {s} : w[t] = rows[t]
      /\ \A t \in Subs : Moves(t, rows[t], w[t], e)
  BY <1>2, Kinds, SetOwn
<1>4. d.writes = w /\ d.entitles \in {"keeps", "ends"} /\ d.cancels = {s}
  BY <1>2 DEF Refused, Decision, Entitles, AfterRefund
<1> HIDE DEF d, w
<1> QED BY <1>1, <1>2, <1>3, <1>4, Kinds DEF Sound, Entitling, End

\* Two decisions for one event, the second of what the first made of a row that
\* was not there.
LEMMA SoundTwice ==
    ASSUME NEW rows \in [Subs -> Rows], NEW e \in Events, NEW first, NEW then, NEW d,
           rows[e.of] = Absent, e.type \notin {"subscription", "refund"},
           Sound(rows, e, first), then = Nothing(first.writes) \/ Sound(first.writes, e, then),
           first.writes[e.of].status \in Blocking /\ Others(first.writes, e.of) = {}
               => then.writes[e.of].status \in Blocking,
           d = Entitles(then.writes, first.cancels \cup then.cancels, first.entitles)
    PROVE  Sound(rows, e, d)
<1> DEFINE s == e.of
<1> DEFINE v == first.writes
<1> DEFINE w == then.writes
<1>1. d.writes = w /\ d.cancels = first.cancels \cup then.cancels /\ d.entitles = first.entitles
  BY DecisionFields
<1>2. s \in Subs /\ e.at \in Int /\ e.at >= 0 /\ ~End(e)
  BY EventFields DEF End
<1>3. /\ v \in [Subs -> Rows] /\ first.cancels \in SUBSET Subs /\ first.entitles \in Entitling
      /\ \A t \in Subs : Moves(t, rows[t], v[t], e)
      /\ v[s] # Absent
      /\ (\E t \in Subs \ {s} : v[t] # rows[t]) =>
             v[s].status \in Blocking /\ Others(rows, s) # {} /\ Others(v, s) = {}
      /\ first.entitles = "gives" => stripe[s] \notin Terminal
  BY DEF Sound
<1>4. CASE then = Nothing(first.writes)
  <2>1. w = v /\ then.cancels = {}
    BY <1>4, DecisionFields
  <2> HIDE DEF v, w
  <2> QED BY <1>1, <1>2, <2>1, Kinds DEF Sound, v
<1>5. CASE Sound(first.writes, e, then)
  <2>1. /\ w \in [Subs -> Rows] /\ then.cancels \in SUBSET Subs
        /\ \A t \in Subs : Moves(t, v[t], w[t], e)
        /\ w[s] # Absent
        /\ (\E t \in Subs \ {s} : w[t] # v[t]) =>
               w[s].status \in Blocking /\ Others(v, s) # {} /\ Others(w, s) = {}
    BY <1>5 DEF Sound
  <2> HIDE DEF v, w
  <2>2. rows[s].seen <= e.at /\ rows[s].status \notin Terminal
    BY <1>2, Kinds
  <2>3. ASSUME NEW t \in Subs PROVE Moves(t, rows[t], w[t], e)
    <3>1. CASE t = s
      <4>1. v[s].status \in Statuses /\ v[s].seen = e.at
        BY <1>2, <1>3, Kinds DEF Moves, Own
      <4>2. w[s].status \in Statuses /\ w[s].seen = e.at
        BY <1>2, <2>1, <4>1, Kinds DEF Moves, Own
      <4> QED BY <1>2, <2>2, <3>1, <4>2 DEF Moves, Own
    <3>2. CASE t # s
      BY <1>3, <2>1, <3>2, Kinds DEF Moves
    <3> QED BY <3>1, <3>2
  <2>4. ASSUME \E t \in Subs \ {s} : w[t] # rows[t]
        PROVE  w[s].status \in Blocking /\ Others(rows, s) # {} /\ Others(w, s) = {}
    <3>1. CASE \E t \in Subs \ {s} : w[t] # v[t]
      <4>1. w[s].status \in Blocking /\ Others(v, s) # {} /\ Others(w, s) = {}
        BY <2>1, <3>1
      <4>2. \A t \in Subs \ {s} : v[t].status \in Blocking => rows[t].status \in Blocking
        BY <1>3, Kinds DEF Moves
      <4> QED BY <4>1, <4>2 DEF Others
    <3>2. CASE \A t \in Subs \ {s} : w[t] = v[t]
      <4>1. v[s].status \in Blocking /\ Others(rows, s) # {} /\ Others(v, s) = {}
        BY <1>3, <2>4, <3>2
      <4>2. Others(w, s) = {}
        BY <3>2, <4>1 DEF Others
      <4> QED BY <4>1, <4>2 DEF v, w
    <3> QED BY <3>1, <3>2
  <2> QED BY <1>1, <1>2, <1>3, <2>1, <2>2, <2>3, <2>4, Kinds DEF Sound
<1> QED BY <1>4, <1>5

\* Every decision is none, or sound; one of a subscription event that is none
\* ignores it or is sound as well.
LEMMA DecisionsSound ==
    ASSUME NEW rows \in [Subs -> Rows], NEW e \in Events, stripe[e.of] \in Statuses
    PROVE  LET d == Decide(rows, e) IN
           /\ d = Nothing(rows) \/ Sound(rows, e, d)
           /\ e.type = "subscription" => Ignored(rows, e.of, e.status, e.at) \/ Sound(rows, e, d)
<1> DEFINE s == e.of
<1> DEFINE d == Decide(rows, e)
<1> SUFFICES /\ d = Nothing(rows) \/ Sound(rows, e, d)
             /\ e.type = "subscription" => Ignored(rows, s, e.status, e.at) \/ Sound(rows, e, d)
  OBVIOUS
<1>1. CASE e.type = "subscription"
  <2>1. e.status \in Statuses /\ d = ApplySubscription(rows, s, e.status, e.at)
    BY <1>1, EventFields DEF Decide
  <2> QED BY <1>1, <2>1, SubscriptionSound
<1>2. CASE e.type = "checkout"
  <2>1. d = ApplyCheckout(rows, s, e.at)
    BY <1>2 DEF Decide
  <2>2. CASE rows[s] # Absent
    BY <1>2, <2>1, <2>2 DEF ApplyCheckout, Known
  <2>3. CASE rows[s] = Absent
    <3>1. d = ApplySubscription(rows, s, stripe[s], e.at)
      BY <2>1, <2>3 DEF ApplyCheckout, Known
    <3> QED BY <1>2, <2>3, <3>1, SubscriptionSound
  <2> QED BY <2>2, <2>3
<1>3. CASE e.type = "refund"
  BY <1>3, RefundSound DEF Decide
<1>4. CASE e.type \notin {"subscription", "checkout", "refund"}
  <2> DEFINE paid == e.type = "paid"
  <2>1. d = ApplyInvoice(rows, s, paid, e.at) /\ paid \in BOOLEAN
    BY <1>4 DEF Decide
  <2> HIDE DEF paid, d
  <2>2. CASE rows[s] # Absent
    <3>1. d = InvoiceOnRow(rows, s, paid, e.at)
      BY <2>1, <2>2 DEF ApplyInvoice, Known
    <3> QED BY <1>4, <2>1, <2>2, <3>1, InvoiceSound
  <2>3. CASE rows[s] = Absent
    <3> DEFINE first == ApplySubscription(rows, s, stripe[s], e.at)
    <3> DEFINE then == InvoiceOnRow(first.writes, s, paid, e.at)
    <3>1. first = Nothing(rows) \/ Sound(rows, e, first)
      BY <1>4, <2>3, SubscriptionSound
    <3>2. IF first.writes[s] = Absent THEN d = first
          ELSE d = Entitles(then.writes, first.cancels \cup then.cancels, first.entitles)
      BY <2>1, <2>3 DEF ApplyInvoice, Known
    <3> HIDE DEF first
    <3>3. CASE first.writes[s] = Absent
      BY <1>4, <3>1, <3>2, <3>3
    <3>4. CASE first.writes[s] # Absent
      <4>1. Sound(rows, e, first)
        BY <2>3, <3>1, <3>4, DecisionFields
      <4>2. first.writes \in [Subs -> Rows]
        BY <4>1 DEF Sound
      <4>3. /\ then = Nothing(first.writes) \/ Sound(first.writes, e, then)
            /\ first.writes[s].status \in Blocking /\ Others(first.writes, s) = {}
                   => then.writes[s].status \in Blocking
        BY <1>4, <2>1, <3>4, <4>2, InvoiceSound
      <4> HIDE DEF then
      <4> QED BY <1>4, <2>3, <3>2, <3>4, <4>1, <4>3, SoundTwice
    <3> QED BY <3>3, <3>4
  <2> QED BY <1>4, <2>2, <2>3
<1> QED BY <1>1, <1>2, <1>3, <1>4

-----------------------------------------------------------------------------
(* Types.                                                                  *)

LEMMA BusyFields ==
    ASSUME TypeOK, NEW h \in Handlers, Busy(h)
    PROVE  /\ handler[h].pc \in {"decided", "flushed"}
           /\ handler[h].event \in Events /\ handler[h].locked \in BOOLEAN
           /\ handler[h].read \in [Subs -> Rows] /\ handler[h].writes \in [Subs -> Rows]
           /\ handler[h].cancels \in SUBSET Subs /\ handler[h].entitles \in Entitling
<1>1. handler[h] \in HandlerStates /\ handler[h].pc # "idle"
  BY DEF TypeOK, Busy, At
<1>2. handler[h] \in [pc : {"decided", "flushed"}, event : Events, locked : BOOLEAN,
                 read : [Subs -> Rows], writes : [Subs -> Rows], cancels : SUBSET Subs,
                 entitles : Entitling]
  BY <1>1 DEF HandlerStates, Idle
<1> QED BY <1>2

LEMMA HandlerSet ==
    ASSUME TypeOK, NEW h \in Handlers, NEW d, handler' = [handler EXCEPT ![h] = d]
    PROVE  /\ \A g \in Handlers : handler'[g] = IF g = h THEN d ELSE handler[g]
           /\ d \in HandlerStates => handler' \in [Handlers -> HandlerStates]
  BY DEF TypeOK

LEMMA ReportsAndNotices ==
    ASSUME clock \in Seconds, NEW s \in Subs
    PROVE  /\ \A status \in Statuses :
                  /\ Reports(s, status) \in Events
                  /\ Reports(s, status).type = "subscription" /\ Reports(s, status).of = s
                  /\ Reports(s, status).status = status /\ Reports(s, status).at = clock
           /\ \A type \in {"checkout", "paid", "failed", "refund"} :
                  /\ Notice(type, s) \in Events /\ Notice(type, s).type = type
                  /\ Notice(type, s).of = s /\ Notice(type, s).at = clock
  BY DEF Reports, Notice, Events

LEMMA WrittenRows ==
    ASSUME TypeOK, NEW h \in Handlers, Busy(h)
    PROVE  /\ Written(h) \in [Subs -> Rows]
           /\ \A s \in Subs : Written(h)[s] = IF s \in Wrote(h) THEN handler[h].writes[s] ELSE row[s]
<1>1. handler[h].writes \in [Subs -> Rows]
  BY BusyFields
<1>2. row \in [Subs -> Rows]
  BY DEF TypeOK
<1> QED BY <1>1, <1>2 DEF Written

\* The changes at Stripe, one by one.
LEMMA StripeChanges ==
    ASSUME NEW s \in Subs, Subscribe(s) \/ Pays(s) \/ PaymentFails(s) \/ Ends(s)
    PROVE  \E status \in Statuses : \E types \in SUBSET {"checkout", "paid", "failed"} :
               /\ stripe[s] \notin Terminal /\ stripe[s] # status
               /\ Becomes(s, status, {Notice(type, s) : type \in types})
<1> DEFINE P(status, types) ==
      /\ stripe[s] \notin Terminal /\ stripe[s] # status
      /\ Becomes(s, status, {Notice(type, s) : type \in types})
<1>1. CASE stripe[s] = "none" /\ Becomes(s, "incomplete", {Notice("checkout", s)})
  <2>1. {Notice("checkout", s)} = {Notice(type, s) : type \in {"checkout"}}
    OBVIOUS
  <2>2. P("incomplete", {"checkout"})
    BY <1>1, <2>1 DEF Terminal
  <2> QED BY <2>2, Kinds
<1>2. CASE stripe[s] = "none" /\ Becomes(s, "active", {Notice("checkout", s), Notice("paid", s)})
  <2>1. {Notice("checkout", s), Notice("paid", s)} = {Notice(type, s) : type \in {"checkout", "paid"}}
    OBVIOUS
  <2>2. P("active", {"checkout", "paid"})
    BY <1>2, <2>1 DEF Terminal
  <2> QED BY <2>2, Kinds
<1>3. CASE Pays(s)
  <2>1. {Notice("paid", s)} = {Notice(type, s) : type \in {"paid"}}
    OBVIOUS
  <2>2. P("active", {"paid"})
    BY <1>3, <2>1 DEF Pays, Terminal
  <2> QED BY <2>2, Kinds
<1>4. CASE PaymentFails(s)
  <2>1. {Notice("failed", s)} = {Notice(type, s) : type \in {"failed"}}
    OBVIOUS
  <2>2. P("past_due", {"failed"})
    BY <1>4, <2>1 DEF PaymentFails, Terminal
  <2> QED BY <2>2, Kinds
<1>5. CASE Ends(s)
  <2>1. {} = {Notice(type, s) : type \in {}}
    OBVIOUS
  <2>2. P("canceled", {}) \/ P("incomplete_expired", {})
    BY <1>5, <2>1 DEF Ends, Terminal, Blocking
  <2> QED BY <2>2, Kinds DEF Terminal, Statuses
<1> QED BY <1>1, <1>2, <1>3, <1>4, <1>5 DEF Subscribe

LEMMA TypeStep ==
    ASSUME TypeOK, TimeInv, [Next]_vars
    PROVE  TypeOK'
<1> USE DEF TypeOK
<1>1. CASE Tick
  BY <1>1, BillingAssumption DEF Tick, Seconds
<1>2. ASSUME NEW s \in Subs, Subscribe(s) \/ Pays(s) \/ PaymentFails(s) \/ Ends(s)
      PROVE  TypeOK'
  <2>1. PICK status \in Statuses, types \in SUBSET {"checkout", "paid", "failed"} :
            Becomes(s, status, {Notice(type, s) : type \in types})
    BY <1>2, StripeChanges
  <2> DEFINE others == {Notice(type, s) : type \in types}
  <2>2. others \subseteq Events /\ Reports(s, status) \in Events
    BY ReportsAndNotices
  <2> HIDE DEF others
  <2>3. changes' \in 0..MaxChanges
    BY <2>1, BillingAssumption DEF Becomes
  <2> QED BY <2>1, <2>2, <2>3 DEF Becomes, others
<1>3. ASSUME NEW s \in Subs, Refund(s)
      PROVE  TypeOK'
  <2>1. Notice("refund", s) \in Events
    BY ReportsAndNotices
  <2>2. changes' \in 0..MaxChanges
    BY <1>3, BillingAssumption DEF Refund
  <2> QED BY <1>3, <2>1, <2>2 DEF Refund
<1>4. ASSUME NEW h \in Handlers, NEW e \in due, Deliver(h, e)
      PROVE  TypeOK'
  <2>1. stripe[e.of] \in Statuses /\ e \in Events
    BY EventFields DEF TimeInv
  <2>2. Sound(row, e, Decide(row, e))
    BY <1>4, <2>1, DecisionsSound DEF Deliver
  <2> DEFINE d == Decide(row, e)
  <2> DEFINE new == [pc |-> "decided", event |-> e, locked |-> Locks(e), read |-> row,
                     writes |-> d.writes, cancels |-> d.cancels, entitles |-> d.entitles]
  <2>3. handler' = [handler EXCEPT ![h] = new]
    BY <1>4 DEF Deliver
  <2>4. d.writes \in [Subs -> Rows] /\ d.cancels \in SUBSET Subs /\ d.entitles \in Entitling
    BY <2>2 DEF Sound
  <2>5. Locks(e) \in BOOLEAN
    BY DEF Locks
  <2> HIDE DEF d
  <2>6. new \in HandlerStates
    BY <2>1, <2>4, <2>5 DEF HandlerStates
  <2> HIDE DEF new
  <2> QED BY <1>4, <2>3, <2>6 DEF Deliver
<1>5. ASSUME NEW h \in Handlers, NEW e \in due, Acknowledge(h, e)
      PROVE  TypeOK'
  BY <1>5 DEF Acknowledge
<1>6. ASSUME NEW h \in Handlers, Flush(h)
      PROVE  TypeOK'
  <2> DEFINE d == handler[h]
  <2> DEFINE writes == IF Conflicts(h) THEN Set(d.writes, {d.event.of}, "canceled", d.event.at) ELSE d.writes
  <2> DEFINE cancels == IF Conflicts(h) THEN d.cancels \cup {d.event.of} ELSE d.cancels
  <2> DEFINE entitles == IF Conflicts(h) THEN "keeps" ELSE d.entitles
  <2> DEFINE new == [pc |-> "flushed", event |-> d.event, locked |-> d.locked, read |-> d.read,
                     writes |-> writes, cancels |-> cancels, entitles |-> entitles]
  <2>1. /\ d.event \in Events /\ d.locked \in BOOLEAN /\ d.read \in [Subs -> Rows]
        /\ d.writes \in [Subs -> Rows] /\ d.cancels \in SUBSET Subs /\ d.entitles \in Entitling
    BY <1>6, BusyFields DEF Flush, MayFlush, Busy, At
  <2>2. writes \in [Subs -> Rows]
    BY <2>1, SetTyped, EventFields, Kinds
  <2>3. cancels \in SUBSET Subs /\ entitles \in Entitling
    BY <2>1, EventFields DEF Entitling
  <2>4. handler' = [handler EXCEPT ![h] = new]
    BY <1>6 DEF Flush
  <2> HIDE DEF writes, cancels, entitles
  <2>5. new \in HandlerStates
    BY <2>1, <2>2, <2>3 DEF HandlerStates
  <2> HIDE DEF new
  <2> QED BY <1>6, <2>4, <2>5 DEF Flush
<1>7. ASSUME NEW h \in Handlers, NEW s \in Subs, CancelAtStripe(h, s)
      PROVE  TypeOK'
  <2> DEFINE d == handler[h]
  <2> DEFINE new == [d EXCEPT !.cancels = d.cancels \ {s}]
  <2>1. handler[h].pc = "flushed"
    BY <1>7 DEF CancelAtStripe, At
  <2>2. d \in [pc : {"decided", "flushed"}, event : Events, locked : BOOLEAN,
               read : [Subs -> Rows], writes : [Subs -> Rows], cancels : SUBSET Subs,
               entitles : Entitling]
    BY <2>1 DEF HandlerStates, Idle
  <2>3. new \in HandlerStates
    BY <2>2 DEF HandlerStates
  <2>4. handler' = [handler EXCEPT ![h] = new]
    BY <1>7 DEF CancelAtStripe
  <2> HIDE DEF new
  <2>5. Reports(s, "canceled") \in Events /\ "canceled" \in Statuses
    BY ReportsAndNotices, Kinds
  <2>6. stripe' \in [Subs -> Statuses \cup {"none"}] /\ due' \in SUBSET Events
    BY <1>7, <2>5 DEF CancelAtStripe
  <2> QED BY <1>7, <2>3, <2>4, <2>6 DEF CancelAtStripe
<1>8. ASSUME NEW h \in Handlers, NEW s \in Subs, CancelRejected(h, s)
      PROVE  TypeOK'
  <2>1. mishaps' \in 0..MaxMishaps
    BY <1>8, BillingAssumption DEF CancelRejected, Mishap
  <2>2. handler' \in [Handlers -> HandlerStates]
    BY <1>8 DEF CancelRejected, HandlerStates
  <2> QED BY <1>8, <2>1, <2>2 DEF CancelRejected, RowsUnwound
<1>9. ASSUME NEW h \in Handlers, Commit(h)
      PROVE  TypeOK'
  <2>1. Written(h) \in [Subs -> Rows]
    BY <1>9, WrittenRows DEF Commit, Busy, At
  <2>2. handler' \in [Handlers -> HandlerStates]
    BY <1>9 DEF Commit, HandlerStates
  <2>3. ReadTooEarly(h) \subseteq Subs /\ Reverted(h) \subseteq Subs
    BY DEF ReadTooEarly, Reverted, Wrote
  <2>4. handler[h].entitles \in Entitling
    BY <1>9, BusyFields DEF Commit, Busy, At
  <2>5. entitled' \in BOOLEAN
    BY <1>9, <2>4 DEF Commit, Entitling
  <2> QED BY <1>9, <2>1, <2>2, <2>3, <2>5 DEF Commit
<1>10. ASSUME NEW h \in Handlers, Fails(h)
       PROVE  TypeOK'
  <2>1. mishaps' \in 0..MaxMishaps
    BY <1>10, BillingAssumption DEF Fails, Mishap
  <2>2. handler' \in [Handlers -> HandlerStates]
    BY <1>10 DEF Fails, HandlerStates
  <2> QED BY <1>10, <2>1, <2>2 DEF Fails
<1>11. CASE UNCHANGED vars
  BY <1>11 DEF vars
<1> QED BY <1>1, <1>2, <1>3, <1>4, <1>5, <1>6, <1>7, <1>8, <1>9, <1>10, <1>11 DEF Next

-----------------------------------------------------------------------------
(* Steps of Stripe and of time, which leave the rows and the deliveries.   *)

\* The same delivery, with fewer cancels to make.
Same(c, d) ==
    /\ d.pc = c.pc
    /\ c.pc # "idle" =>
           /\ d.event = c.event /\ d.locked = c.locked /\ d.read = c.read /\ d.writes = c.writes
           /\ d.entitles = c.entitles /\ d.cancels \subseteq c.cancels

\* The news of s: what it is now was reported this second.
News(s) == \E e \in due' : /\ e.type = "subscription" /\ e.of = s /\ e.status = stripe'[s]
                           /\ e.at = clock'
WorldStep ==
    /\ UNCHANGED <<row, rejected, overtaken, reverted, entitled>>
    /\ clock <= clock'
    /\ \A h \in Handlers : Same(handler[h], handler'[h])
    /\ due \subseteq due'
    /\ \A e \in due' \ due : /\ e.at = clock' /\ stripe[e.of] \notin Terminal /\ stripe'[e.of] # "none"
                             /\ e.type = "refund" \/ News(e.of)
    /\ \A s \in Subs : stripe'[s] = stripe[s] \/ (stripe[s] \notin Terminal /\ stripe'[s] # "none" /\ News(s))

LEMMA StripeSteps ==
    ASSUME TypeOK, BillInv,
           \/ Tick \/ UNCHANGED vars
           \/ \E s \in Subs : Subscribe(s) \/ Pays(s) \/ PaymentFails(s) \/ Ends(s) \/ Refund(s)
           \/ \E h \in Handlers : \E s \in Subs : CancelAtStripe(h, s)
    PROVE  WorldStep
<1>1. clock \in Int /\ clock \in Seconds
  BY BillingAssumption DEF TypeOK, Seconds
<1>2. ASSUME UNCHANGED handler PROVE \A h \in Handlers : Same(handler[h], handler'[h])
  BY <1>2 DEF Same
<1>3. CASE Tick \/ UNCHANGED vars
  <2>1. clock <= clock'
    BY <1>1, <1>3 DEF Tick, vars
  <2>2. UNCHANGED <<row, rejected, overtaken, reverted, entitled, handler, due, stripe>>
    BY <1>3 DEF Tick, vars
  <2> QED BY <1>2, <2>1, <2>2 DEF WorldStep
<1>4. ASSUME NEW s \in Subs, NEW status \in Statuses, NEW others,
             stripe[s] \notin Terminal,
             \A e \in others : e.of = s /\ e.at = clock,
             stripe' = [stripe EXCEPT ![s] = status],
             due' = due \cup {Reports(s, status)} \cup others, clock' = clock
      PROVE  /\ \A e \in due' \ due : /\ e.at = clock' /\ stripe[e.of] \notin Terminal /\ stripe'[e.of] # "none"
                                      /\ e.type = "refund" \/ News(e.of)
             /\ \A t \in Subs : stripe'[t] = stripe[t] \/ (stripe[t] \notin Terminal /\ stripe'[t] # "none" /\ News(t))
  <2>1. Reports(s, status) \in due' /\ Reports(s, status).type = "subscription"
        /\ Reports(s, status).of = s /\ Reports(s, status).status = status /\ Reports(s, status).at = clock
    BY <1>1, <1>4, ReportsAndNotices
  <2>2. \A t \in Subs : stripe'[t] = IF t = s THEN status ELSE stripe[t]
    BY <1>4 DEF TypeOK
  <2>3. News(s)
    BY <1>4, <2>1, <2>2 DEF News
  <2>4. stripe'[s] # "none"
    BY <2>2, Kinds
  <2> QED BY <1>4, <2>1, <2>2, <2>3, <2>4
<1>5. ASSUME NEW s \in Subs, Subscribe(s) \/ Pays(s) \/ PaymentFails(s) \/ Ends(s)
      PROVE  WorldStep
  <2>1. PICK status \in Statuses, types \in SUBSET {"checkout", "paid", "failed"} :
            stripe[s] \notin Terminal /\ Becomes(s, status, {Notice(type, s) : type \in types})
    BY <1>5, StripeChanges
  <2> DEFINE others == {Notice(type, s) : type \in types}
  <2>2. ASSUME NEW e \in others PROVE e.of = s /\ e.at = clock
    <3>1. PICK type \in types : e = Notice(type, s)
      OBVIOUS
    <3>2. type \in {"checkout", "paid", "failed", "refund"}
      OBVIOUS
    <3> QED BY <1>1, <3>1, <3>2, ReportsAndNotices
  <2> HIDE DEF others
  <2>3. /\ UNCHANGED <<clock, row, handler, rejected, overtaken, reverted, entitled>>
        /\ stripe' = [stripe EXCEPT ![s] = status] /\ due' = due \cup {Reports(s, status)} \cup others
    BY <2>1 DEF Becomes, others
  <2>4. /\ \A e \in due' \ due : /\ e.at = clock' /\ stripe[e.of] \notin Terminal /\ stripe'[e.of] # "none"
                                 /\ e.type = "refund" \/ News(e.of)
        /\ \A t \in Subs : stripe'[t] = stripe[t] \/ (stripe[t] \notin Terminal /\ stripe'[t] # "none" /\ News(t))
    BY <1>4, <2>1, <2>2, <2>3
  <2> QED BY <1>1, <1>2, <2>3, <2>4 DEF WorldStep
<1>6. ASSUME NEW s \in Subs, Refund(s)
      PROVE  WorldStep
  <2>1. Notice("refund", s).of = s /\ Notice("refund", s).at = clock /\ Notice("refund", s).type = "refund"
    BY <1>1, ReportsAndNotices
  <2>2. stripe[s] \notin Terminal /\ stripe[s] # "none"
    BY <1>6, Kinds DEF Refund
  <2>3. /\ UNCHANGED <<clock, stripe, row, handler, rejected, overtaken, reverted, entitled>>
        /\ due' = due \cup {Notice("refund", s)}
    BY <1>6 DEF Refund
  <2> QED BY <1>1, <1>2, <2>1, <2>2, <2>3 DEF WorldStep
<1>7. ASSUME NEW h \in Handlers, NEW s \in Subs, CancelAtStripe(h, s)
      PROVE  WorldStep
  <2> DEFINE new == [handler[h] EXCEPT !.cancels = handler[h].cancels \ {s}]
  <2>1. handler' = [handler EXCEPT ![h] = new] /\ Busy(h)
    BY <1>7 DEF CancelAtStripe, At, Busy
  <2>2. handler[h] \in [pc : {"decided", "flushed"}, event : Events, locked : BOOLEAN,
               read : [Subs -> Rows], writes : [Subs -> Rows], cancels : SUBSET Subs,
               entitles : Entitling]
    BY <2>1 DEF TypeOK, HandlerStates, Idle, Busy, At
  <2>3. Same(handler[h], new)
    BY <2>2 DEF Same
  <2> HIDE DEF new
  <2>4. \A g \in Handlers : Same(handler[g], handler'[g])
    <3>1. \A g \in Handlers : handler'[g] = IF g = h THEN new ELSE handler[g]
      BY <2>1, HandlerSet
    <3>2. \A g \in Handlers : Same(handler[g], handler[g])
      BY DEF Same
    <3> QED BY <2>3, <3>1, <3>2
  <2>5. UNCHANGED <<clock, row, rejected, overtaken, reverted, entitled>>
    BY <1>7 DEF CancelAtStripe
  <2>6. CASE UNCHANGED <<stripe, due>>
    BY <1>1, <2>4, <2>5, <2>6 DEF WorldStep
  <2>7. CASE /\ stripe[s] \notin Terminal /\ stripe' = [stripe EXCEPT ![s] = "canceled"]
             /\ due' = due \cup {Reports(s, "canceled")} \cup {}
    <3>1. "canceled" \in Statuses /\ clock' = clock
      BY <2>5, Kinds
    <3>2. /\ \A e \in due' \ due : /\ e.at = clock' /\ stripe[e.of] \notin Terminal /\ stripe'[e.of] # "none"
                                   /\ e.type = "refund" \/ News(e.of)
          /\ \A t \in Subs : stripe'[t] = stripe[t] \/ (stripe[t] \notin Terminal /\ stripe'[t] # "none" /\ News(t))
      <4> DEFINE others == {}
      <4>1. \A e \in others : e.of = s /\ e.at = clock
        OBVIOUS
      <4>2. due' = due \cup {Reports(s, "canceled")} \cup others
        BY <2>7
      <4> HIDE DEF others
      <4> QED BY <1>4, <2>7, <3>1, <4>1, <4>2
    <3> QED BY <1>1, <2>4, <2>5, <2>7, <3>2 DEF WorldStep
  <2> QED BY <1>7, <2>6, <2>7 DEF CancelAtStripe
<1> QED BY <1>3, <1>5, <1>6, <1>7

LEMMA WorldBusy ==
    ASSUME WorldStep
    PROVE  \A h \in Handlers :
               /\ Busy(h)' <=> Busy(h)
               /\ At(h, "decided")' <=> At(h, "decided")
               /\ At(h, "flushed")' <=> At(h, "flushed")
               /\ Busy(h) => /\ handler'[h].event = handler[h].event /\ handler'[h].locked = handler[h].locked
                             /\ handler'[h].read = handler[h].read /\ handler'[h].writes = handler[h].writes
                             /\ handler'[h].entitles = handler[h].entitles
                             /\ handler'[h].cancels \subseteq handler[h].cancels
                             /\ handler'[h].pc = handler[h].pc
                             /\ Wrote(h)' = Wrote(h) /\ Written(h)' = Written(h)
<1> SUFFICES ASSUME NEW h \in Handlers
             PROVE  /\ Busy(h)' <=> Busy(h)
                    /\ At(h, "decided")' <=> At(h, "decided")
                    /\ At(h, "flushed")' <=> At(h, "flushed")
                    /\ Busy(h) => /\ handler'[h].event = handler[h].event /\ handler'[h].locked = handler[h].locked
                                  /\ handler'[h].read = handler[h].read /\ handler'[h].writes = handler[h].writes
                                  /\ handler'[h].entitles = handler[h].entitles
                                  /\ handler'[h].cancels \subseteq handler[h].cancels
                                  /\ handler'[h].pc = handler[h].pc
                                  /\ Wrote(h)' = Wrote(h) /\ Written(h)' = Written(h)
  OBVIOUS
<1>1. Same(handler[h], handler'[h]) /\ row' = row
  BY DEF WorldStep
<1>2. (Busy(h)' <=> Busy(h)) /\ (At(h, "decided")' <=> At(h, "decided")) /\ (At(h, "flushed")' <=> At(h, "flushed"))
  BY <1>1 DEF Same, Busy, At
<1>3. ASSUME Busy(h)
      PROVE  /\ handler'[h].event = handler[h].event /\ handler'[h].locked = handler[h].locked
             /\ handler'[h].read = handler[h].read /\ handler'[h].writes = handler[h].writes
             /\ handler'[h].entitles = handler[h].entitles
             /\ handler'[h].cancels \subseteq handler[h].cancels
             /\ handler'[h].pc = handler[h].pc
  BY <1>1, <1>3 DEF Same, Busy, At
<1>4. ASSUME Busy(h) PROVE Wrote(h)' = Wrote(h)
  BY <1>3, <1>4 DEF Wrote
<1>5. ASSUME Busy(h) PROVE Written(h)' = Written(h)
  BY <1>1, <1>3, <1>4, <1>5 DEF Written
<1> QED BY <1>2, <1>3, <1>4, <1>5

-----------------------------------------------------------------------------
(* What Stripe and time leave as it is.                                    *)

\* What is compared and added are numbers, and every event is of a subscription.
Numbers ==
    /\ clock \in Int
    /\ \A s \in Subs : row[s].seen \in Int
    /\ \A e \in due : e.at \in Int /\ e.of \in Subs
    /\ \A h \in Handlers : Busy(h) =>
           /\ handler[h].event.at \in Int /\ handler[h].event.of \in Subs
           /\ \A s \in Subs : handler[h].read[s].seen \in Int /\ handler[h].writes[s].seen \in Int

LEMMA AreNumbers == TypeOK => Numbers
<1> SUFFICES ASSUME TypeOK PROVE Numbers
  OBVIOUS
<1>1. clock \in Int
  BY BillingAssumption DEF TypeOK, Seconds
<1>2. \A s \in Subs : row[s].seen \in Int
  BY RowFields DEF TypeOK
<1>3. \A e \in due : e.at \in Int /\ e.of \in Subs
  BY EventFields DEF TypeOK
<1>4. ASSUME NEW h \in Handlers, Busy(h)
      PROVE  /\ handler[h].event.at \in Int /\ handler[h].event.of \in Subs
             /\ \A s \in Subs : handler[h].read[s].seen \in Int /\ handler[h].writes[s].seen \in Int
  BY <1>4, BusyFields, RowFields, EventFields
<1> QED BY <1>1, <1>2, <1>3, <1>4 DEF Numbers

LEMMA AreNumbersNext == TypeOK' => Numbers'
  BY AreNumbers, PTL

LEMMA WorldTime ==
    ASSUME BillingInv, WorldStep, TypeOK'
    PROVE  TimeInv'
<1>1. Numbers /\ Numbers'
  BY AreNumbers, AreNumbersNext DEF BillingInv
<1>2. ASSUME NEW s \in Subs PROVE row'[s].seen <= clock' /\ (row'[s] # Absent => stripe'[s] # "none")
  BY <1>1 DEF Numbers, WorldStep, BillingInv, TimeInv
<1>3. ASSUME NEW e \in due' PROVE e.at <= clock' /\ stripe'[e.of] # "none"
  <2>1. CASE e \in due
    BY <1>1, <2>1 DEF Numbers, WorldStep, BillingInv, TimeInv
  <2>2. CASE e \notin due
    BY <1>1, <2>2 DEF Numbers, WorldStep
  <2> QED BY <2>1, <2>2
<1>4. ASSUME NEW e \in due', End(e), NEW f \in due', f.of = e.of PROVE f.at <= e.at
  <2>1. CASE e \notin due
    <3>1. e.at = clock'
      BY <2>1 DEF WorldStep
    <3> QED BY <1>3, <3>1
  <2>2. CASE e \in due /\ f \in due
    BY <1>4, <2>2 DEF BillingInv, TimeInv
  <2>3. CASE e \in due /\ f \notin due
    <3>1. stripe[e.of] \in Terminal
      BY <1>4, <2>3 DEF BillingInv, BillInv, DueInv, End
    <3>2. stripe[f.of] \notin Terminal
      BY <2>3 DEF WorldStep
    <3> QED BY <1>4, <3>1, <3>2
  <2> QED BY <2>1, <2>2, <2>3
<1> QED BY <1>2, <1>3, <1>4 DEF TimeInv

LEMMA WorldDeliveries ==
    ASSUME BillingInv, WorldStep, TypeOK'
    PROVE  DeliveriesInv'
<1>1. Numbers /\ Numbers'
  BY AreNumbers, AreNumbersNext DEF BillingInv
<1>2. \A s \in Subs : stripe[s] # "none" => stripe'[s] # "none"
  BY DEF WorldStep
<1> SUFFICES ASSUME NEW h \in Handlers, Busy(h)
             PROVE  /\ DeliveryInv(h)'
                    /\ \A g \in Handlers \ {h} : Busy(g) => Apart(handler'[g], handler'[h])
  BY WorldBusy DEF DeliveriesInv
<1> DEFINE d == handler[h]
<1> DEFINE c == handler'[h]
<1>3. /\ c.event = d.event /\ c.locked = d.locked /\ c.read = d.read /\ c.writes = d.writes
      /\ c.entitles = d.entitles /\ c.cancels \subseteq d.cancels
  BY WorldBusy
<1>4. DeliveryInv(h)
  BY DEF BillingInv, DeliveriesInv
<1>5. DeliveryInv(h)'
  <2>1. d.event \in due' /\ (End(d.event) => c.cancels = {})
    BY <1>3, <1>4 DEF DeliveryInv, WorldStep
  <2>2. \A s \in Subs : d.read[s].seen <= clock'
    BY <1>1, <1>4 DEF DeliveryInv, WorldStep, Numbers
  <2> QED BY <1>2, <1>3, <1>4, <2>1, <2>2 DEF DeliveryInv
<1>6. ASSUME NEW g \in Handlers \ {h}, Busy(g) PROVE Apart(handler'[g], handler'[h])
  <2>1. Apart(handler[g], handler[h])
    BY <1>6 DEF BillingInv, DeliveriesInv
  <2>2. /\ handler'[g].event = handler[g].event /\ handler'[g].locked = handler[g].locked
        /\ handler'[g].pc = handler[g].pc /\ handler'[h].pc = handler[h].pc
    BY <1>6, WorldBusy
  <2> QED BY <1>3, <2>1, <2>2 DEF Apart
<1> QED BY <1>5, <1>6

LEMMA WorldUnique ==
    ASSUME BillingInv, WorldStep
    PROVE  UniqueInv'
<1>1. Unique(row')
  BY DEF BillingInv, UniqueInv, WorldStep
<1>2. ASSUME NEW h \in Handlers, At(h, "flushed")' PROVE Unique(Written(h)')
  <2>1. At(h, "flushed") /\ Busy(h)
    BY <1>2, WorldBusy DEF At, Busy
  <2> QED BY <2>1, WorldBusy DEF BillingInv, UniqueInv
<1> QED BY <1>1, <1>2 DEF UniqueInv, Unique

\* What is over stays so: Stripe reports nothing more of it.
LEMMA WorldOver ==
    ASSUME WorldStep, NEW s \in Subs, stripe[s] \in Terminal, Over(s)
    PROVE  Over(s)'
  BY DEF WorldStep, Over

LEMMA WorldEndDue ==
    ASSUME WorldStep, NEW s, NEW x, EndDue(s, x)
    PROVE  EndDue(s, x)'
  BY DEF WorldStep, EndDue

\* Who ends now has its report.
LEMMA WorldReports ==
    ASSUME BillingInv, WorldStep, TypeOK', NEW s \in Subs, stripe'[s] \in Terminal, stripe[s] \notin Terminal
    PROVE  \E x \in due' : EndDue(s, x)' /\ x \notin due
<1>1. Numbers /\ Numbers'
  BY AreNumbers, AreNumbersNext DEF BillingInv
<1>2. News(s)
  BY DEF WorldStep
<1>3. PICK x \in due' : /\ x.type = "subscription" /\ x.of = s /\ x.status = stripe'[s]
                        /\ x.at = clock'
  BY <1>2 DEF News
<1>4. End(x)
  BY <1>3 DEF End
<1>5. row'[s].seen <= x.at
  BY <1>1, <1>3 DEF Numbers, WorldStep, BillingInv, TimeInv
<1>6. x \notin due
  BY <1>3 DEF BillingInv, BillInv, DueInv
<1> QED BY <1>3, <1>4, <1>5, <1>6 DEF EndDue

LEMMA WorldEnd ==
    ASSUME BillingInv, WorldStep, TypeOK'
    PROVE  EndInv'
<1>1. ASSUME NEW s \in Subs \ overtaken', stripe'[s] \in Terminal
      PROVE  (\E x \in due' : EndDue(s, x)') \/ Over(s)'
  <2>1. CASE stripe[s] \in Terminal
    <3>1. (\E x \in due : EndDue(s, x)) \/ Over(s)
      BY <1>1, <2>1 DEF WorldStep, BillingInv, EndInv
    <3>2. due \subseteq due'
      BY DEF WorldStep
    <3> QED BY <2>1, <3>1, <3>2, WorldOver, WorldEndDue
  <2>2. CASE stripe[s] \notin Terminal
    BY <1>1, <2>2, WorldReports
  <2> QED BY <2>1, <2>2
<1>2. ASSUME NEW h \in Handlers, Busy(h)', End(handler'[h].event), NEW s \in Subs \ overtaken',
             s = handler'[h].event.of, handler'[h].writes[s] = handler'[h].read[s]
      PROVE  Over(s)'
  <2>1. /\ Busy(h) /\ handler'[h].event = handler[h].event
        /\ handler'[h].read = handler[h].read /\ handler'[h].writes = handler[h].writes
    BY <1>2, WorldBusy
  <2>2. Over(s)
    BY <1>2, <2>1 DEF WorldStep, BillingInv, EndInv
  <2>3. handler[h].event \in due
    BY <2>1 DEF BillingInv, DeliveriesInv, DeliveryInv
  <2>4. stripe[s] \in Terminal
    BY <1>2, <2>1, <2>3 DEF BillingInv, BillInv, DueInv, End
  <2> QED BY <2>2, <2>4, WorldOver
<1> QED BY <1>1, <1>2 DEF EndInv

LEMMA WorldCarry ==
    ASSUME BillingInv, WorldStep, TypeOK'
    PROVE  CarryInv'
<1> SUFFICES ASSUME overtaken' = {} PROVE CarryInv'
  BY DEF CarryInv
<1>1. overtaken = {} /\ row' = row /\ entitled' = entitled
  BY DEF WorldStep
<1>2. ASSUME NEW h \in Handlers, Busy(h)'
      PROVE  /\ End(handler'[h].event) /\ handler'[h].entitles = "keeps" => row'[handler'[h].event.of] = Absent
             /\ (\E s \in Subs \ {handler'[h].event.of} : handler'[h].writes[s] # handler'[h].read[s])
                    => Replaces(h)'
  <2>1. /\ Busy(h) /\ handler'[h].event = handler[h].event /\ handler'[h].entitles = handler[h].entitles
        /\ handler'[h].read = handler[h].read /\ handler'[h].writes = handler[h].writes
    BY <1>2, WorldBusy
  <2>2. Replaces(h) => Replaces(h)'
    BY <2>1, WorldBusy DEF Replaces
  <2> QED BY <1>1, <2>1, <2>2 DEF BillingInv, CarryInv
<1>3. ASSUME entitled' \/ \E h \in Handlers : Busy(h)' /\ handler'[h].entitles = "gives"
      PROVE  \E s \in Subs : Carries(s)'
  <2>1. entitled \/ \E h \in Handlers : Busy(h) /\ handler[h].entitles = "gives"
    BY <1>1, <1>3, WorldBusy
  <2>2. PICK s \in Subs : Carries(s)
    BY <1>1, <2>1 DEF BillingInv, CarryInv
  <2>3. CASE stripe'[s] \notin Terminal \cup {"none"}
    BY <2>3 DEF Carries
  <2>4. CASE stripe[s] \notin Terminal /\ stripe'[s] \in Terminal \cup {"none"} /\ stripe[s] # "none"
    <3>1. stripe'[s] \in Terminal
      BY <2>4 DEF WorldStep
    <3>2. PICK x \in due' : EndDue(s, x)' /\ x \notin due
      BY <2>4, <3>1, WorldReports
    <3>3. ASSUME NEW h \in Handlers, Busy(h)' PROVE handler'[h].event # x
      BY <3>2, <3>3, WorldBusy DEF BillingInv, DeliveriesInv, DeliveryInv
    <3> QED BY <3>2, <3>3 DEF Carries
  <2>5. CASE \E x \in due : /\ EndDue(s, x)
                            /\ \A h \in Handlers : Busy(h) /\ handler[h].event = x => handler[h].entitles # "keeps"
    <3>1. PICK x \in due : /\ EndDue(s, x)
                           /\ \A h \in Handlers : Busy(h) /\ handler[h].event = x => handler[h].entitles # "keeps"
      BY <2>5
    <3>2. EndDue(s, x)' /\ x \in due'
      BY <3>1, WorldEndDue DEF EndDue, WorldStep
    <3> QED BY <3>1, <3>2, WorldBusy DEF Carries
  <2> QED BY <2>2, <2>3, <2>4, <2>5 DEF Carries
<1> QED BY <1>2, <1>3 DEF CarryInv

LEMMA WorldBilled ==
    ASSUME BillingInv, WorldStep, TypeOK'
    PROVE  BilledInv'
<1>1. Numbers /\ Numbers'
  BY AreNumbers, AreNumbersNext DEF BillingInv
<1>2. ASSUME NEW h \in Handlers, Busy(h)'
      PROVE  /\ handler'[h].event.type = "subscription" /\ handler'[h].event.status \in Blocking =>
                    handler'[h].writes[handler'[h].event.of].status \in Blocking \cup Terminal
             /\ handler'[h].event.type = "refund" => handler'[h].writes[handler'[h].event.of].status \in Terminal
  BY <1>2, WorldBusy DEF BillingInv, BilledInv
<1>3. ASSUME reverted' = {}, NEW h \in Handlers, Busy(h)', NEW s \in Subs,
             handler'[h].read[s].status \in Blocking
      PROVE  row'[s].status \in Blocking \/ stripe'[s] \in Terminal
  BY <1>3, WorldBusy DEF WorldStep, BillingInv, BilledInv
<1>4. ASSUME reverted' = {}, rejected' = {}, NEW s \in Subs, stripe'[s] \in Blocking
      PROVE  row'[s].status \in Blocking \/ \E e \in due' : Unread(s, e)'
  <2>1. CASE News(s)
    <3>1. PICK e \in due' : /\ e.type = "subscription" /\ e.of = s /\ e.status = stripe'[s]
                            /\ e.at = clock'
      BY <2>1 DEF News
    <3>2. row'[s].seen <= e.at
      BY <1>1, <3>1 DEF Numbers, WorldStep, BillingInv, TimeInv
    <3>3. ASSUME NEW h \in Handlers, Busy(h)' PROVE handler'[h].read[s].seen <= e.at
      <4>1. Busy(h) /\ handler'[h].read = handler[h].read
        BY <3>3, WorldBusy
      <4>2. handler[h].read[s].seen <= clock
        BY <4>1 DEF BillingInv, DeliveriesInv, DeliveryInv
      <4> QED BY <1>1, <3>1, <4>1, <4>2 DEF Numbers, WorldStep
    <3>4. TimeInv'
      BY WorldTime
    <3>5. \A f \in due' : f.at <= e.at
      BY <3>1, <3>4 DEF TimeInv
    <3> QED BY <3>1, <3>2, <3>3, <3>5 DEF Unread
  <2>2. CASE ~News(s)
    <3>1. stripe'[s] = stripe[s] /\ \A f \in due' : f.of = s /\ f.type # "refund" => f \in due
      BY <2>2 DEF WorldStep
    <3>2. row[s].status \in Blocking \/ \E e \in due : Unread(s, e)
      BY <1>4, <3>1 DEF WorldStep, BillingInv, BilledInv
    <3>3. ASSUME NEW e \in due, Unread(s, e) PROVE Unread(s, e)' /\ e \in due'
      <4>1. \A h \in Handlers : Busy(h)' => handler'[h].read[s].seen <= e.at
        BY <3>3, WorldBusy DEF Unread
      <4> QED BY <3>1, <3>3, <4>1 DEF Unread, WorldStep
    <3> QED BY <3>2, <3>3 DEF WorldStep
  <2> QED BY <2>1, <2>2
<1> QED BY <1>2, <1>3, <1>4 DEF BilledInv

-----------------------------------------------------------------------------
(* Deliveries that end without a trace.                                    *)

\* The event that goes, if one does, was not to end a row nor to revive one.
LeaveStep ==
    /\ UNCHANGED <<clock, stripe, row, overtaken, reverted, entitled>>
    /\ due' \subseteq due /\ rejected \subseteq rejected'
    /\ \A h \in Handlers : handler'[h] = handler[h] \/ handler'[h] = Idle
    /\ \A e \in due \ due' :
           /\ \A h \in Handlers : handler'[h] # Idle => handler'[h].event # e
           /\ \A s \in Subs : ~EndDue(s, e)
           /\ rejected' = {} /\ reverted = {} =>
                  \A s \in Subs : Unread(s, e) /\ stripe[s] \in Blocking => row[s].status \in Blocking

LEMMA AcknowledgeLeaves ==
    ASSUME BillingInv, NEW h \in Handlers, NEW e \in due, Acknowledge(h, e)
    PROVE  LeaveStep
<1>1. /\ UNCHANGED <<clock, stripe, row, overtaken, reverted, entitled, rejected, handler>>
      /\ due' = due \ {e} /\ MayDeliver(h, e) /\ Decide(row, e) = Nothing(row)
  BY DEF Acknowledge
<1>2. row \in [Subs -> Rows] /\ e \in Events /\ stripe[e.of] \in Statuses /\ e.of \in Subs
      /\ e.at \in Int /\ row[e.of].seen \in Int
  BY EventFields, RowFields DEF BillingInv, TypeOK, TimeInv
<1>3. e.type = "subscription" => Ignored(row, e.of, e.status, e.at) \/ Sound(row, e, Nothing(row))
  BY <1>1, <1>2, DecisionsSound
<1>4. Nothing(row).writes = row /\ Nothing(row).entitles = "keeps"
  BY DecisionFields
<1>5. \A g \in Handlers : handler'[g] # Idle => handler'[g].event # e
  <2> SUFFICES ASSUME NEW g \in Handlers, handler[g] # Idle PROVE handler[g].event # e
    BY <1>1
  <2>1. Busy(g)
    BY DEF BillingInv, BillInv, HandlersInv, TypeOK, HandlerStates, Busy, At, Idle
  <2> QED BY <1>1, <2>1 DEF MayDeliver
<1>6. ASSUME NEW s \in Subs, EndDue(s, e) PROVE FALSE
  <2>1. End(e) /\ s = e.of /\ row[s].seen <= e.at
    BY <1>6 DEF EndDue
  <2>2. e.type = "subscription" /\ e.status \in Terminal
    BY <2>1 DEF End
  <2>3. ~Ignored(row, e.of, e.status, e.at)
    BY <1>2, <2>1, <2>2, Kinds DEF Ignored, Stale
  <2>4. row[s] = Absent /\ row[s].status \in Terminal
    BY <1>3, <1>4, <2>1, <2>2, <2>3 DEF Sound
  <2> QED BY <2>4, Kinds
<1>7. ASSUME NEW s \in Subs, Unread(s, e), stripe[s] \in Blocking PROVE row[s].status \in Blocking
  <2>1. e.type = "subscription" /\ e.of = s /\ e.status = stripe[s] /\ row[s].seen <= e.at
    BY <1>7 DEF Unread
  <2>2. row[s].status \notin Terminal
    BY <1>7, Kinds DEF BillingInv, BillInv, Backed
  <2>3. ~Ignored(row, e.of, e.status, e.at)
    BY <1>2, <2>1, <2>2 DEF Ignored, Stale
  <2>4. row[s].status \in Blocking \cup Terminal
    BY <1>3, <1>4, <1>7, <2>1, <2>3 DEF Sound
  <2> QED BY <2>2, <2>4
<1> QED BY <1>1, <1>5, <1>6, <1>7 DEF LeaveStep

LEMMA FailLeaves ==
    ASSUME BillingInv, NEW h \in Handlers, Fails(h) \/ \E s \in Subs : CancelRejected(h, s)
    PROVE  LeaveStep
<1>1. \A g \in Handlers : handler'[g] = IF g = h THEN Idle ELSE handler[g]
  BY DEF Fails, CancelRejected, BillingInv, TypeOK
<1>2. CASE Fails(h)
  BY <1>1, <1>2 DEF Fails, LeaveStep
<1>3. ASSUME NEW s \in Subs, CancelRejected(h, s)
      PROVE  LeaveStep
  <2>1. /\ UNCHANGED <<clock, stripe, row, overtaken, reverted, entitled>>
        /\ due' = due \ {handler[h].event} /\ rejected' = rejected \cup {s}
        /\ Busy(h) /\ s \in handler[h].cancels
    BY <1>3 DEF CancelRejected, RowsUnwound, At, Busy
  <2>2. ASSUME NEW g \in Handlers, handler'[g] # Idle PROVE handler'[g].event # handler[h].event
    <3>1. g # h /\ handler'[g] = handler[g]
      BY <1>1, <2>2
    <3>2. Busy(g)
      BY <2>2, <3>1 DEF BillingInv, TypeOK, HandlerStates, Busy, At, Idle
    <3> QED BY <2>1, <3>1, <3>2 DEF BillingInv, DeliveriesInv, Apart
  <2>3. ~End(handler[h].event)
    BY <2>1 DEF BillingInv, DeliveriesInv, DeliveryInv
  <2> QED BY <1>1, <2>1, <2>2, <2>3 DEF LeaveStep, EndDue
<1> QED BY <1>2, <1>3

LEMMA LeaveBusy ==
    ASSUME BillingInv, LeaveStep, NEW h \in Handlers, Busy(h)'
    PROVE  /\ Busy(h) /\ handler'[h] = handler[h] /\ handler[h].event \in due'
           /\ Wrote(h)' = Wrote(h) /\ Written(h)' = Written(h)
<1>1. handler'[h] # Idle
  BY DEF Busy, At, Idle
<1>2. handler'[h] = handler[h] /\ row' = row
  BY <1>1 DEF LeaveStep
<1>3. Busy(h)
  BY <1>2 DEF Busy, At
<1>4. handler[h].event \in due
  BY <1>3 DEF BillingInv, DeliveriesInv, DeliveryInv
<1>5. handler[h].event \in due'
  BY <1>1, <1>2, <1>4 DEF LeaveStep
<1>6. Wrote(h)' = Wrote(h)
  BY <1>2 DEF Wrote
<1>7. Written(h)' = Written(h)
  BY <1>2, <1>6 DEF Written
<1> QED BY <1>2, <1>3, <1>5, <1>6, <1>7

LEMMA LeaveKeeps ==
    ASSUME BillingInv, LeaveStep
    PROVE  TimeInv' /\ DeliveriesInv' /\ UniqueInv' /\ EndInv'
<1>1. /\ clock' = clock /\ stripe' = stripe /\ row' = row /\ overtaken' = overtaken
      /\ due' \subseteq due
  BY DEF LeaveStep
<1>2. TimeInv'
  BY <1>1 DEF BillingInv, TimeInv
<1>3. DeliveriesInv'
  <2> SUFFICES ASSUME NEW h \in Handlers, Busy(h)'
               PROVE  /\ DeliveryInv(h)'
                      /\ \A g \in Handlers \ {h} : Busy(g)' => Apart(handler'[g], handler'[h])
    BY DEF DeliveriesInv
  <2>1. Busy(h) /\ handler'[h] = handler[h] /\ handler[h].event \in due'
    BY LeaveBusy
  <2>2. DeliveryInv(h)
    BY <2>1 DEF BillingInv, DeliveriesInv
  <2>3. DeliveryInv(h)'
    BY <1>1, <2>1, <2>2 DEF DeliveryInv
  <2>4. ASSUME NEW g \in Handlers \ {h}, Busy(g)' PROVE Apart(handler'[g], handler'[h])
    <3>1. Busy(g) /\ handler'[g] = handler[g]
      BY <2>4, LeaveBusy
    <3> QED BY <2>1, <3>1 DEF BillingInv, DeliveriesInv
  <2> QED BY <2>3, <2>4
<1>4. UniqueInv'
  <2>1. ASSUME NEW h \in Handlers, At(h, "flushed")' PROVE Unique(Written(h)')
    <3>1. Busy(h)'
      BY <2>1 DEF At, Busy
    <3>2. Busy(h) /\ handler'[h] = handler[h] /\ Written(h)' = Written(h)
      BY <3>1, LeaveBusy
    <3> QED BY <2>1, <3>2 DEF BillingInv, UniqueInv, At
  <2> QED BY <1>1, <2>1 DEF BillingInv, UniqueInv, Unique
<1>5. EndInv'
  <2>1. ASSUME NEW s, Over(s) PROVE Over(s)'
    BY <1>1, <2>1 DEF Over
  <2>2. ASSUME NEW s \in Subs \ overtaken', stripe'[s] \in Terminal
        PROVE  (\E x \in due' : EndDue(s, x)') \/ Over(s)'
    <3>1. (\E x \in due : EndDue(s, x)) \/ Over(s)
      BY <1>1, <2>2 DEF BillingInv, EndInv
    <3>2. ASSUME NEW x \in due, EndDue(s, x) PROVE x \in due' /\ EndDue(s, x)'
      BY <1>1, <3>2 DEF LeaveStep, EndDue
    <3> QED BY <2>1, <3>1, <3>2
  <2>3. ASSUME NEW h \in Handlers, Busy(h)', End(handler'[h].event), NEW s \in Subs \ overtaken',
               s = handler'[h].event.of, handler'[h].writes[s] = handler'[h].read[s]
        PROVE  Over(s)'
    <3>1. Busy(h) /\ handler'[h] = handler[h]
      BY <2>3, LeaveBusy
    <3> QED BY <1>1, <2>1, <2>3, <3>1 DEF BillingInv, EndInv
  <2> QED BY <2>2, <2>3 DEF EndInv
<1> QED BY <1>2, <1>3, <1>4, <1>5

LEMMA LeaveCarry ==
    ASSUME BillingInv, LeaveStep
    PROVE  CarryInv'
<1> SUFFICES ASSUME overtaken' = {} PROVE CarryInv'
  BY DEF CarryInv
<1>1. overtaken = {} /\ row' = row /\ entitled' = entitled /\ stripe' = stripe
  BY DEF LeaveStep
<1>2. ASSUME NEW h \in Handlers, Busy(h)'
      PROVE  /\ End(handler'[h].event) /\ handler'[h].entitles = "keeps" => row'[handler'[h].event.of] = Absent
             /\ (\E s \in Subs \ {handler'[h].event.of} : handler'[h].writes[s] # handler'[h].read[s])
                    => Replaces(h)'
  <2>1. Busy(h) /\ handler'[h] = handler[h] /\ Written(h)' = Written(h)
    BY <1>2, LeaveBusy
  <2>2. Replaces(h) => Replaces(h)'
    BY <2>1 DEF Replaces, At
  <2> QED BY <1>1, <2>1, <2>2 DEF BillingInv, CarryInv
<1>3. ASSUME entitled' \/ \E h \in Handlers : Busy(h)' /\ handler'[h].entitles = "gives"
      PROVE  \E s \in Subs : Carries(s)'
  <2>1. entitled \/ \E h \in Handlers : Busy(h) /\ handler[h].entitles = "gives"
    BY <1>1, <1>3, LeaveBusy
  <2>2. PICK s \in Subs : Carries(s)
    BY <1>1, <2>1 DEF BillingInv, CarryInv
  <2>3. CASE stripe[s] \notin Terminal \cup {"none"}
    BY <1>1, <2>3 DEF Carries
  <2>4. ASSUME NEW x \in due, EndDue(s, x),
               \A h \in Handlers : Busy(h) /\ handler[h].event = x => handler[h].entitles # "keeps"
        PROVE  Carries(s)'
    <3>1. x \in due' /\ EndDue(s, x)'
      BY <2>4 DEF LeaveStep, EndDue
    <3>2. \A h \in Handlers : Busy(h)' /\ handler'[h].event = x => handler'[h].entitles # "keeps"
      BY <2>4, LeaveBusy
    <3> QED BY <3>1, <3>2 DEF Carries
  <2> QED BY <2>2, <2>3, <2>4 DEF Carries
<1> QED BY <1>2, <1>3 DEF CarryInv

LEMMA LeaveBilled ==
    ASSUME BillingInv, LeaveStep
    PROVE  BilledInv'
<1>1. /\ row' = row /\ reverted' = reverted /\ stripe' = stripe /\ due' \subseteq due
      /\ rejected \subseteq rejected'
  BY DEF LeaveStep
<1>2. ASSUME NEW h \in Handlers, Busy(h)'
      PROVE  /\ handler'[h].event.type = "subscription" /\ handler'[h].event.status \in Blocking =>
                    handler'[h].writes[handler'[h].event.of].status \in Blocking \cup Terminal
             /\ handler'[h].event.type = "refund" => handler'[h].writes[handler'[h].event.of].status \in Terminal
             /\ reverted' = {} => \A s \in Subs : handler'[h].read[s].status \in Blocking =>
                    row'[s].status \in Blocking \/ stripe'[s] \in Terminal
  <2>1. Busy(h) /\ handler'[h] = handler[h]
    BY <1>2, LeaveBusy
  <2> QED BY <1>1, <2>1 DEF BillingInv, BilledInv
<1>3. ASSUME reverted' = {}, rejected' = {}, NEW s \in Subs, stripe'[s] \in Blocking
      PROVE  row'[s].status \in Blocking \/ \E e \in due' : Unread(s, e)'
  <2>1. row[s].status \in Blocking \/ \E e \in due : Unread(s, e)
    BY <1>1, <1>3 DEF BillingInv, BilledInv
  <2>2. ASSUME NEW e \in due, Unread(s, e), e \in due' PROVE Unread(s, e)'
    <3>1. \A h \in Handlers : Busy(h)' => handler'[h].read[s].seen <= e.at
      BY <2>2, LeaveBusy DEF Unread
    <3> QED BY <1>1, <2>2, <3>1 DEF Unread
  <2>3. ASSUME NEW e \in due, Unread(s, e), e \notin due' PROVE row[s].status \in Blocking
    BY <1>1, <1>3, <2>3 DEF LeaveStep
  <2> QED BY <1>1, <2>1, <2>2, <2>3
<1> QED BY <1>2, <1>3 DEF BilledInv

-----------------------------------------------------------------------------
(* A delivery begins.                                                      *)

LEMMA DeliverFacts ==
    ASSUME BillingInv, NEW h \in Handlers, NEW e \in due, Deliver(h, e)
    PROVE  /\ UNCHANGED <<clock, stripe, due, row, rejected, overtaken, reverted, entitled>>
           /\ e \in Events /\ e.of \in Subs /\ e.at \in Int /\ stripe[e.of] # "none" /\ row \in [Subs -> Rows]
           /\ MayDeliver(h, e) /\ ~Busy(h) /\ Busy(h)' /\ At(h, "decided")' /\ ~At(h, "flushed")'
           /\ Sound(row, e, Decide(row, e))
           /\ e.type = "subscription" => ~Ignored(row, e.of, e.status, e.at) \/ Decide(row, e) # Nothing(row)
           /\ handler'[h].pc = "decided" /\ handler'[h].event = e /\ handler'[h].locked = Locks(e)
           /\ handler'[h].read = row /\ handler'[h].writes = Decide(row, e).writes
           /\ handler'[h].cancels = Decide(row, e).cancels
           /\ handler'[h].entitles = Decide(row, e).entitles
           /\ \A g \in Handlers \ {h} :
                  /\ handler'[g] = handler[g] /\ (Busy(g)' <=> Busy(g))
                  /\ (At(g, "flushed")' <=> At(g, "flushed")) /\ (At(g, "decided")' <=> At(g, "decided"))
                  /\ Wrote(g)' = Wrote(g) /\ Written(g)' = Written(g)
<1>1. /\ UNCHANGED <<clock, stripe, due, row, rejected, overtaken, reverted, entitled>>
      /\ MayDeliver(h, e) /\ ~Busy(h) /\ Decide(row, e) # Nothing(row)
  BY DEF Deliver, MayDeliver
<1>2. e \in Events /\ e.of \in Subs /\ e.at \in Int /\ stripe[e.of] # "none" /\ row \in [Subs -> Rows]
      /\ stripe[e.of] \in Statuses
  BY EventFields DEF BillingInv, TypeOK, TimeInv
<1>3. Sound(row, e, Decide(row, e))
  BY <1>1, <1>2, DecisionsSound
<1> DEFINE new == [pc |-> "decided", event |-> e, locked |-> Locks(e), read |-> row,
                   writes |-> Decide(row, e).writes, cancels |-> Decide(row, e).cancels,
                   entitles |-> Decide(row, e).entitles]
<1>4. \A g \in Handlers : handler'[g] = IF g = h THEN new ELSE handler[g]
  BY DEF Deliver, BillingInv, TypeOK
<1>5. /\ handler'[h].pc = "decided" /\ handler'[h].event = e /\ handler'[h].locked = Locks(e)
      /\ handler'[h].read = row /\ handler'[h].writes = Decide(row, e).writes
      /\ handler'[h].cancels = Decide(row, e).cancels
      /\ handler'[h].entitles = Decide(row, e).entitles
  BY <1>4
<1>6. Busy(h)' /\ At(h, "decided")' /\ ~At(h, "flushed")'
  BY <1>5 DEF Busy, At
<1>7. ASSUME NEW g \in Handlers \ {h}
      PROVE  /\ handler'[g] = handler[g] /\ (Busy(g)' <=> Busy(g))
             /\ (At(g, "flushed")' <=> At(g, "flushed")) /\ (At(g, "decided")' <=> At(g, "decided"))
             /\ Wrote(g)' = Wrote(g) /\ Written(g)' = Written(g)
  <2>1. handler'[g] = handler[g]
    BY <1>4
  <2>2. Wrote(g)' = Wrote(g)
    BY <2>1 DEF Wrote
  <2>3. Written(g)' = Written(g)
    BY <1>1, <2>1, <2>2 DEF Written
  <2> QED BY <2>1, <2>2, <2>3 DEF Busy, At
<1> QED BY <1>1, <1>2, <1>3, <1>5, <1>6, <1>7

\* Who must lock, has locked.
LEMMA WhoLocks ==
    ASSUME NEW e \in Events
    PROVE  /\ e.type = "subscription" => Locks(e)
           /\ e.type # "refund" /\ row[e.of] = Absent => Locks(e)
           /\ Locks(e) \in BOOLEAN
  BY DEF Locks, Known

LEMMA DeliverDeliveries ==
    ASSUME BillingInv, NEW h \in Handlers, NEW e \in due, Deliver(h, e)
    PROVE  DeliveriesInv'
<1> DEFINE d == Decide(row, e)
<1>1. /\ UNCHANGED <<clock, stripe, due, row>>
      /\ e \in Events /\ e.of \in Subs /\ e.at \in Int /\ stripe[e.of] # "none" /\ MayDeliver(h, e)
      /\ Sound(row, e, d)
      /\ handler'[h].pc = "decided" /\ handler'[h].event = e /\ handler'[h].locked = Locks(e)
      /\ handler'[h].read = row /\ handler'[h].writes = d.writes /\ handler'[h].cancels = d.cancels
      /\ handler'[h].entitles = d.entitles
  BY DeliverFacts
<1>2. /\ \A t \in Subs : Moves(t, row[t], d.writes[t], e)
      /\ row[e.of].seen <= e.at /\ d.writes[e.of] # Absent
      /\ End(e) => /\ d.cancels = {} /\ d.entitles # "gives"
                   /\ d.writes[e.of].status \in Terminal /\ d.writes[e.of].seen = e.at
                   /\ d.entitles = "keeps" => row[e.of] = Absent
      /\ e.type = "refund" => row[e.of] # Absent
      /\ d.entitles = "gives" => e.type = "subscription" \/ (row[e.of] = Absent /\ e.type # "refund")
  BY <1>1 DEF Sound
<1> HIDE DEF d
<1>3. ASSUME NEW s \in Subs
      PROVE  /\ row[s].seen <= clock /\ (d.writes[s] # Absent => stripe[s] # "none")
             /\ row[s] = Absent /\ d.writes[s] # Absent => Locks(e)
  <2>1. row[s].seen <= clock /\ (row[s] # Absent => stripe[s] # "none")
    BY DEF BillingInv, TimeInv
  <2>2. CASE s = e.of
    BY <1>1, <1>2, <2>1, <2>2, WhoLocks
  <2>3. CASE s # e.of
    <3>1. row[s] = Absent => d.writes[s] = Absent
      BY <1>2, <2>3, Kinds DEF Moves
    <3> QED BY <2>1, <3>1
  <2> QED BY <2>2, <2>3
<1>4. d.entitles = "gives" \/ e.type = "subscription" => Locks(e)
  BY <1>1, <1>2, WhoLocks
<1>5. DeliveryInv(h)'
  BY <1>1, <1>2, <1>3, <1>4 DEF DeliveryInv
<1>6. ASSUME NEW g \in Handlers \ {h}, Busy(g)
      PROVE  /\ DeliveryInv(g)' /\ Apart(handler[g], handler'[h]) /\ Apart(handler'[h], handler[g])
  <2>1. handler'[g] = handler[g]
    BY DeliverFacts
  <2>2. DeliveryInv(g)
    BY <1>6 DEF BillingInv, DeliveriesInv
  <2>3. DeliveryInv(g)'
    BY <1>1, <2>1, <2>2 DEF DeliveryInv
  <2>4. handler[g].event # e /\ (Locks(e) => ~handler[g].locked)
    BY <1>1, <1>6 DEF MayDeliver, CustomerLocked
  <2> QED BY <1>1, <2>3, <2>4 DEF Apart
<1>7. ASSUME NEW g \in Handlers, NEW f \in Handlers \ {g}, Busy(g)', Busy(f)'
      PROVE  Apart(handler'[f], handler'[g])
  <2>1. \A i \in Handlers \ {h} : handler'[i] = handler[i] /\ (Busy(i)' <=> Busy(i))
    BY DeliverFacts
  <2>2. CASE g = h
    BY <1>6, <1>7, <2>1, <2>2
  <2>3. CASE f = h
    BY <1>6, <1>7, <2>1, <2>3
  <2>4. CASE g # h /\ f # h
    BY <1>7, <2>1, <2>4 DEF BillingInv, DeliveriesInv
  <2> QED BY <2>2, <2>3, <2>4
<1>8. ASSUME NEW g \in Handlers, Busy(g)' PROVE DeliveryInv(g)'
  <2>1. CASE g = h
    BY <1>5, <2>1
  <2>2. CASE g # h
    <3>1. Busy(g)
      BY <1>8, <2>2, DeliverFacts
    <3> QED BY <1>6, <2>2, <3>1
  <2> QED BY <2>1, <2>2
<1> QED BY <1>7, <1>8 DEF DeliveriesInv

LEMMA DeliverUnique ==
    ASSUME BillingInv, NEW h \in Handlers, NEW e \in due, Deliver(h, e)
    PROVE  TimeInv' /\ UniqueInv'
<1>1. UNCHANGED <<clock, stripe, due, row>> /\ ~At(h, "flushed")'
  BY DeliverFacts
<1>2. TimeInv'
  BY <1>1 DEF BillingInv, TimeInv
<1>3. ASSUME NEW g \in Handlers, At(g, "flushed")' PROVE Unique(Written(g)')
  <2>1. g # h
    BY <1>1, <1>3
  <2>2. At(g, "flushed") /\ Written(g)' = Written(g)
    BY <1>3, <2>1, DeliverFacts
  <2> QED BY <2>2 DEF BillingInv, UniqueInv
<1> QED BY <1>1, <1>2, <1>3 DEF BillingInv, UniqueInv, Unique

LEMMA DeliverEnd ==
    ASSUME BillingInv, NEW h \in Handlers, NEW e \in due, Deliver(h, e)
    PROVE  EndInv'
<1>1. UNCHANGED <<clock, stripe, due, row, overtaken>>
  BY DeliverFacts
<1>2. \A s : (Over(s)' <=> Over(s)) /\ \A x : EndDue(s, x)' <=> EndDue(s, x)
  BY <1>1 DEF Over, EndDue
<1>3. \A s \in Subs \ overtaken' : stripe'[s] \in Terminal => (\E x \in due' : EndDue(s, x)') \/ Over(s)'
  BY <1>1, <1>2 DEF BillingInv, EndInv
<1>4. ASSUME NEW g \in Handlers, Busy(g)', End(handler'[g].event), NEW s \in Subs \ overtaken',
             s = handler'[g].event.of, handler'[g].writes[s] = handler'[g].read[s]
      PROVE  Over(s)'
  <2>1. CASE g = h
    <3>1. handler'[h].event = e /\ handler'[h].read = row /\ handler'[h].writes = Decide(row, e).writes
          /\ Sound(row, e, Decide(row, e))
      BY DeliverFacts
    <3>2. row[s].status \in Terminal /\ row[s].seen = e.at
      BY <1>4, <2>1, <3>1 DEF Sound
    <3>3. \A f \in due : f.of = s => f.at <= e.at
      BY <1>4, <2>1, <3>1 DEF BillingInv, TimeInv
    <3> QED BY <1>1, <3>2, <3>3 DEF Over
  <2>2. CASE g # h
    <3>1. Busy(g) /\ handler'[g] = handler[g]
      BY <1>4, <2>2, DeliverFacts
    <3> QED BY <1>1, <1>2, <1>4, <3>1 DEF BillingInv, EndInv
  <2> QED BY <2>1, <2>2
<1> QED BY <1>3, <1>4 DEF EndInv

\* A row that blocks carries the entitlement.
Carrier ==
    overtaken = {} /\ (\E s \in Subs : row[s].status \in Blocking) => \E s \in Subs : Carries(s)
KeepsNone ==
    \A h \in Handlers : Busy(h) /\ End(handler[h].event) /\ handler[h].entitles = "keeps" =>
        row[handler[h].event.of] = Absent

LEMMA BlockingCarries == TimeInv /\ EndInv /\ KeepsNone => Carrier
<1> SUFFICES ASSUME TimeInv, EndInv, KeepsNone, overtaken = {},
                    NEW s \in Subs, row[s].status \in Blocking
             PROVE  Carries(s)
  BY DEF Carrier
<1>1. row[s] # Absent /\ row[s].status \notin Terminal
  BY Kinds
<1>2. CASE stripe[s] \notin Terminal
  BY <1>1, <1>2 DEF TimeInv, Carries
<1>3. CASE stripe[s] \in Terminal
  <2>1. PICK x \in due : EndDue(s, x)
    BY <1>1, <1>3 DEF EndInv, Over
  <2>2. ASSUME NEW h \in Handlers, Busy(h), handler[h].event = x PROVE handler[h].entitles # "keeps"
    BY <1>1, <2>1, <2>2 DEF EndDue, KeepsNone
  <2> QED BY <2>1, <2>2 DEF Carries
<1> QED BY <1>2, <1>3

LEMMA BlockingCarriesNext == TimeInv' /\ EndInv' /\ KeepsNone' => Carrier'
  BY BlockingCarries, PTL

LEMMA DeliverCarry ==
    ASSUME BillingInv, NEW h \in Handlers, NEW e \in due, Deliver(h, e)
    PROVE  CarryInv'
<1> SUFFICES ASSUME overtaken' = {} PROVE CarryInv'
  BY DEF CarryInv
<1> DEFINE d == Decide(row, e)
<1>1. /\ UNCHANGED <<clock, stripe, due, row, overtaken, entitled>>
      /\ e \in Events /\ e.of \in Subs /\ e.at \in Int /\ stripe[e.of] # "none" /\ MayDeliver(h, e)
      /\ Sound(row, e, d) /\ Busy(h)' /\ At(h, "decided")'
      /\ handler'[h].event = e /\ handler'[h].read = row /\ handler'[h].writes = d.writes
      /\ handler'[h].entitles = d.entitles
  BY DeliverFacts
<1>2. /\ (\E t \in Subs \ {e.of} : d.writes[t] # row[t]) =>
             d.writes[e.of].status \in Blocking /\ Others(row, e.of) # {}
      /\ End(e) => d.entitles # "gives" /\ (d.entitles = "keeps" => row[e.of] = Absent /\ Others(row, e.of) # {})
      /\ d.entitles = "gives" =>
             \/ e.type = "subscription" /\ (row[e.of].status \in Terminal => row[e.of].seen < e.at)
             \/ row[e.of] = Absent /\ e.type # "refund" /\ stripe[e.of] \notin Terminal
  BY <1>1 DEF Sound
<1> HIDE DEF d
<1>3. \A g \in Handlers \ {h} : /\ handler'[g] = handler[g] /\ (Busy(g)' <=> Busy(g))
                                /\ (At(g, "flushed")' <=> At(g, "flushed")) /\ (At(g, "decided")' <=> At(g, "decided"))
                                /\ Written(g)' = Written(g)
  BY DeliverFacts
<1>4. KeepsNone'
  <2> SUFFICES ASSUME NEW g \in Handlers, Busy(g)', End(handler'[g].event), handler'[g].entitles = "keeps"
               PROVE  row'[handler'[g].event.of] = Absent
    BY DEF KeepsNone
  <2>1. CASE g = h
    BY <1>1, <1>2, <2>1
  <2>2. CASE g # h
    BY <1>1, <1>3, <2>2 DEF BillingInv, CarryInv
  <2> QED BY <2>1, <2>2
<1>5. ASSUME NEW g \in Handlers, Busy(g)',
             \E s \in Subs \ {handler'[g].event.of} : handler'[g].writes[s] # handler'[g].read[s]
      PROVE  Replaces(g)'
  <2>1. CASE g = h
    <3>1. d.writes[e.of].status \in Blocking /\ Others(row, e.of) # {}
      BY <1>1, <1>2, <1>5, <2>1
    <3>2. row[e.of].status \notin Blocking
      BY <1>1, <3>1 DEF Others, BillingInv, UniqueInv, Unique
    <3> QED BY <1>1, <2>1, <3>1, <3>2 DEF Replaces
  <2>2. CASE g # h
    <3>1. Replaces(g)
      BY <1>1, <1>3, <1>5, <2>2 DEF BillingInv, CarryInv
    <3> QED BY <1>3, <2>2, <3>1 DEF Replaces
  <2> QED BY <2>1, <2>2
<1>6. ASSUME entitled' \/ \E g \in Handlers : Busy(g)' /\ handler'[g].entitles = "gives"
      PROVE  \E s \in Subs : Carries(s)'
  <2>1. \A s, x : EndDue(s, x)' <=> EndDue(s, x)
    BY <1>1 DEF EndDue
  <2>2. CASE End(e) /\ d.entitles = "keeps"
    <3>1. \E s \in Subs : row'[s].status \in Blocking
      BY <1>1, <1>2, <2>2 DEF Others
    <3>2. TimeInv' /\ EndInv'
      BY DeliverUnique, DeliverEnd
    <3> QED BY <1>4, <3>1, <3>2, BlockingCarriesNext DEF Carrier
  <2>3. CASE /\ ~(End(e) /\ d.entitles = "keeps")
             /\ entitled \/ \E g \in Handlers : Busy(g) /\ handler[g].entitles = "gives"
    <3>1. PICK s \in Subs : Carries(s)
      BY <1>1, <2>3 DEF BillingInv, CarryInv
    <3>2. CASE stripe[s] \notin Terminal \cup {"none"}
      BY <1>1, <3>2 DEF Carries
    <3>3. ASSUME NEW x \in due, EndDue(s, x),
                 \A g \in Handlers : Busy(g) /\ handler[g].event = x => handler[g].entitles # "keeps"
          PROVE  Carries(s)'
      <4>1. ASSUME NEW g \in Handlers, Busy(g)', handler'[g].event = x PROVE handler'[g].entitles # "keeps"
        <5>1. CASE g = h
          BY <1>1, <2>3, <3>3, <4>1, <5>1 DEF EndDue
        <5>2. CASE g # h
          BY <1>3, <3>3, <4>1, <5>2
        <5> QED BY <5>1, <5>2
      <4> QED BY <1>1, <2>1, <3>3, <4>1 DEF Carries
    <3> QED BY <3>1, <3>2, <3>3 DEF Carries
  <2>4. CASE d.entitles = "gives"
    <3> DEFINE s == e.of
    <3>1. CASE stripe[s] \notin Terminal
      BY <1>1, <3>1 DEF Carries
    <3>2. CASE stripe[s] \in Terminal
      <4>1. e.type = "subscription" /\ (row[s].status \in Terminal => row[s].seen < e.at)
        BY <1>2, <2>4, <3>2
      <4>2. row[s].seen \in Int
        BY <1>1, RowFields DEF BillingInv, TypeOK
      <4>3. ~Over(s)
        BY <1>1, <4>1, <4>2 DEF Over
      <4>4. PICK x \in due : EndDue(s, x)
        BY <1>1, <3>2, <4>3 DEF BillingInv, EndInv
      <4>5. End(x)
        BY <4>4 DEF EndDue
      <4>6. ASSUME NEW g \in Handlers, Busy(g)', handler'[g].event = x PROVE handler'[g].entitles # "keeps"
        <5>1. CASE g = h
          BY <1>1, <2>4, <5>1
        <5>2. CASE g # h
          <6>1. Busy(g) /\ handler[g].event = x
            BY <1>3, <4>6, <5>2
          <6>2. handler[g].locked
            BY <4>5, <6>1 DEF BillingInv, DeliveriesInv, DeliveryInv, End
          <6>3. Locks(e)
            BY <1>1, <4>1, WhoLocks
          <6> QED BY <1>1, <6>1, <6>2, <6>3 DEF MayDeliver, CustomerLocked
        <5> QED BY <5>1, <5>2
      <4> QED BY <1>1, <2>1, <4>4, <4>6 DEF Carries
    <3> QED BY <1>1, <3>1, <3>2
  <2> QED BY <1>1, <1>3, <1>6, <2>2, <2>3, <2>4
<1> QED BY <1>4, <1>5, <1>6 DEF CarryInv, KeepsNone

LEMMA DeliverBilled ==
    ASSUME BillingInv, NEW h \in Handlers, NEW e \in due, Deliver(h, e)
    PROVE  BilledInv'
<1> DEFINE d == Decide(row, e)
<1>1. /\ UNCHANGED <<clock, stripe, due, row, reverted, rejected>>
      /\ Sound(row, e, d)
      /\ handler'[h].event = e /\ handler'[h].read = row /\ handler'[h].writes = d.writes
  BY DeliverFacts
<1>2. /\ e.type = "subscription" /\ e.status \in Blocking => d.writes[e.of].status \in Blocking \cup Terminal
      /\ e.type = "refund" => d.writes[e.of].status \in Terminal
  BY <1>1 DEF Sound
<1> HIDE DEF d
<1>3. ASSUME NEW g \in Handlers, Busy(g)'
      PROVE  /\ handler'[g].event.type = "subscription" /\ handler'[g].event.status \in Blocking =>
                    handler'[g].writes[handler'[g].event.of].status \in Blocking \cup Terminal
             /\ handler'[g].event.type = "refund" => handler'[g].writes[handler'[g].event.of].status \in Terminal
             /\ reverted' = {} => \A s \in Subs : handler'[g].read[s].status \in Blocking =>
                    row'[s].status \in Blocking \/ stripe'[s] \in Terminal
  <2>1. CASE g = h
    BY <1>1, <1>2, <2>1
  <2>2. CASE g # h
    <3>1. Busy(g) /\ handler'[g] = handler[g]
      BY <1>3, <2>2, DeliverFacts
    <3> QED BY <1>1, <3>1 DEF BillingInv, BilledInv
  <2> QED BY <2>1, <2>2
<1>4. ASSUME reverted' = {}, rejected' = {}, NEW s \in Subs, stripe'[s] \in Blocking
      PROVE  row'[s].status \in Blocking \/ \E f \in due' : Unread(s, f)'
  <2>1. row[s].status \in Blocking \/ \E f \in due : Unread(s, f)
    BY <1>1, <1>4 DEF BillingInv, BilledInv
  <2>2. ASSUME NEW f \in due, Unread(s, f) PROVE Unread(s, f)'
    <3>1. ASSUME NEW g \in Handlers, Busy(g)' PROVE handler'[g].read[s].seen <= f.at
      <4>1. CASE g = h
        BY <1>1, <2>2, <4>1 DEF Unread
      <4>2. CASE g # h
        <5>1. Busy(g) /\ handler'[g] = handler[g]
          BY <3>1, <4>2, DeliverFacts
        <5> QED BY <2>2, <5>1 DEF Unread
      <4> QED BY <4>1, <4>2
    <3> QED BY <1>1, <2>2, <3>1 DEF Unread
  <2> QED BY <1>1, <2>1, <2>2
<1> QED BY <1>3, <1>4 DEF BilledInv

-----------------------------------------------------------------------------
(* A delivery is flushed.                                                  *)

LEMMA MoreThanOne ==
    ASSUME NEW S, IsFiniteSet(S)
    PROVE  Cardinality(S) > 1 <=> \E s, t \in S : s # t
<1>1. Cardinality(S) \in Nat
  BY FS_CardinalityType
<1>2. ASSUME \A s, t \in S : s = t PROVE Cardinality(S) <= 1
  <2>1. CASE S = {}
    <3>1. Cardinality(S) = 0
      BY <2>1, FS_EmptySet
    <3> QED BY <3>1
  <2>2. CASE S # {}
    <3>1. PICK s \in S : TRUE
      BY <2>2
    <3>2. S = {s}
      BY <1>2, <3>1
    <3>3. Cardinality({s}) = 1
      BY FS_Singleton
    <3> QED BY <3>2, <3>3
  <2> QED BY <2>1, <2>2
<1>3. ASSUME NEW s \in S, NEW t \in S, s # t PROVE Cardinality(S) > 1
  <2>1. IsFiniteSet({s}) /\ Cardinality({s}) = 1
    BY FS_Singleton
  <2>2. t \notin {s}
    BY <1>3
  <2>3. IsFiniteSet({s} \cup {t}) /\ Cardinality({s} \cup {t}) = Cardinality({s}) + 1
    BY <2>1, <2>2, FS_AddElement
  <2>4. {s} \cup {t} \subseteq S
    OBVIOUS
  <2>5. Cardinality({s} \cup {t}) <= Cardinality(S)
    BY <2>4, FS_Subset
  <2> QED BY <1>1, <2>1, <2>3, <2>5
<1> QED BY <1>1, <1>2, <1>3

LEMMA ConflictMeans ==
    ASSUME NEW h \in Handlers
    PROVE  Conflicts(h) <=> ~Unique(Written(h))
<1> DEFINE S == {s \in Subs : Written(h)[s].status \in Blocking}
<1>1. IsFiniteSet(S)
  BY BillingAssumption, FS_Subset
<1>2. Cardinality(S) > 1 <=> \E s, t \in S : s # t
  BY <1>1, MoreThanOne
<1>3. Conflicts(h) <=> \E s, t \in S : s # t
  BY <1>2 DEF Conflicts
<1> QED BY <1>3 DEF Unique

\* What a delivery ends does not block, and what it leaves alone is the row.
LEMMA WrittenMoves ==
    ASSUME BillingInv, NEW h \in Handlers, Busy(h), NEW t \in Subs
    PROVE  /\ Written(h)[t] = IF t \in Wrote(h) THEN handler[h].writes[t] ELSE row[t]
           /\ t \in Wrote(h) <=> handler[h].writes[t] # handler[h].read[t]
           /\ Moves(t, handler[h].read[t], handler[h].writes[t], handler[h].event)
           /\ t # handler[h].event.of /\ Written(h)[t].status \in Blocking => row[t].status \in Blocking
<1>1. Written(h)[t] = IF t \in Wrote(h) THEN handler[h].writes[t] ELSE row[t]
  BY WrittenRows DEF BillingInv
<1>2. t \in Wrote(h) <=> handler[h].writes[t] # handler[h].read[t]
  BY DEF Wrote
<1>3. Moves(t, handler[h].read[t], handler[h].writes[t], handler[h].event)
  BY DEF BillingInv, DeliveriesInv, DeliveryInv
<1> QED BY <1>1, <1>2, <1>3, Kinds DEF Moves

\* The report of an end finds no conflict.
LEMMA EndsAgree ==
    ASSUME BillingInv, NEW h \in Handlers, Busy(h), End(handler[h].event)
    PROVE  ~Conflicts(h)
<1>1. ASSUME NEW t \in Subs, Written(h)[t].status \in Blocking PROVE row[t].status \in Blocking
  <2>1. CASE t = handler[h].event.of /\ t \in Wrote(h)
    <3>1. handler[h].writes[t].status \in Terminal
      BY <2>1 DEF BillingInv, DeliveriesInv, DeliveryInv
    <3> QED BY <1>1, <2>1, <3>1, WrittenMoves, Kinds
  <2>2. CASE t # handler[h].event.of \/ t \notin Wrote(h)
    BY <1>1, <2>2, WrittenMoves
  <2> QED BY <2>1, <2>2
<1>2. Unique(Written(h))
  BY <1>1 DEF BillingInv, UniqueInv, Unique
<1> QED BY <1>2, ConflictMeans

\* A flush: without a conflict it changes nothing, and with one it ends the
\* newcomer's row.
LEMMA FlushFacts ==
    ASSUME BillingInv, NEW h \in Handlers, Flush(h)
    PROVE  /\ UNCHANGED <<clock, stripe, due, row, rejected, overtaken, reverted, entitled>>
           /\ Busy(h) /\ At(h, "decided") /\ Busy(h)' /\ At(h, "flushed")' /\ ~At(h, "decided")'
           /\ handler'[h].event = handler[h].event /\ handler'[h].locked = handler[h].locked
           /\ handler'[h].read = handler[h].read /\ handler'[h].pc = "flushed"
           /\ ~Conflicts(h) => /\ handler'[h].writes = handler[h].writes
                               /\ handler'[h].cancels = handler[h].cancels
                               /\ handler'[h].entitles = handler[h].entitles
           /\ Conflicts(h) => /\ handler'[h].entitles = "keeps"
                              /\ handler'[h].writes[handler[h].event.of] =
                                     [status |-> "canceled", seen |-> handler[h].event.at]
                              /\ \A t \in Subs \ {handler[h].event.of} :
                                     handler'[h].writes[t] = handler[h].writes[t]
           /\ \A g \in Handlers \ {h} :
                  /\ handler'[g] = handler[g] /\ (Busy(g)' <=> Busy(g)) /\ ~At(g, "flushed")
                  /\ ~At(g, "flushed")' /\ (At(g, "decided")' <=> At(g, "decided"))
<1> DEFINE d == handler[h]
<1> DEFINE writes == IF Conflicts(h) THEN Set(d.writes, {d.event.of}, "canceled", d.event.at) ELSE d.writes
<1> DEFINE cancels == IF Conflicts(h) THEN d.cancels \cup {d.event.of} ELSE d.cancels
<1> DEFINE entitles == IF Conflicts(h) THEN "keeps" ELSE d.entitles
<1> DEFINE new == [pc |-> "flushed", event |-> d.event, locked |-> d.locked, read |-> d.read,
                   writes |-> writes, cancels |-> cancels, entitles |-> entitles]
<1>1. /\ UNCHANGED <<clock, stripe, due, row, rejected, overtaken, reverted, entitled>>
      /\ At(h, "decided") /\ Busy(h) /\ \A g \in Handlers \ {h} : ~At(g, "flushed")
      /\ handler' = [handler EXCEPT ![h] = new]
  BY DEF Flush, MayFlush, Busy, At
<1> HIDE DEF writes, cancels, entitles, new
<1>2. \A g \in Handlers : handler'[g] = IF g = h THEN new ELSE handler[g]
  BY <1>1, HandlerSet DEF BillingInv
<1>3. /\ handler'[h].event = d.event /\ handler'[h].locked = d.locked /\ handler'[h].read = d.read
      /\ handler'[h].pc = "flushed" /\ handler'[h].writes = writes /\ handler'[h].cancels = cancels
      /\ handler'[h].entitles = entitles
  BY <1>2 DEF new
<1>4. Busy(h)' /\ At(h, "flushed")' /\ ~At(h, "decided")'
  BY <1>3 DEF Busy, At
<1>5. \A g \in Handlers \ {h} :
          /\ handler'[g] = handler[g] /\ (Busy(g)' <=> Busy(g)) /\ ~At(g, "flushed")
          /\ ~At(g, "flushed")' /\ (At(g, "decided")' <=> At(g, "decided"))
  BY <1>1, <1>2 DEF Busy, At
<1>6. ~Conflicts(h) => writes = d.writes /\ cancels = d.cancels /\ entitles = d.entitles
  BY DEF writes, cancels, entitles
<1>7. ASSUME Conflicts(h)
      PROVE  /\ entitles = "keeps"
             /\ writes[d.event.of] = [status |-> "canceled", seen |-> d.event.at]
             /\ \A t \in Subs \ {d.event.of} : writes[t] = d.writes[t]
  <2>1. /\ d.event.of \in Subs /\ d.event.at \in Int
        /\ d.writes[d.event.of].seen \in Int /\ d.read[d.event.of].seen \in Int
    BY <1>1, AreNumbers DEF BillingInv, Numbers
  <2>2. d.read[d.event.of].seen <= d.event.at
        /\ Moves(d.event.of, d.read[d.event.of], d.writes[d.event.of], d.event)
    BY <1>1, <2>1 DEF BillingInv, DeliveriesInv, DeliveryInv
  <2>3. d.writes[d.event.of].seen <= d.event.at
    BY <2>1, <2>2 DEF Moves, Own
  <2>4. Later(d.writes[d.event.of], d.event.at) = d.event.at
    BY <2>1, <2>3, LaterOf
  <2>5. writes = Set(d.writes, {d.event.of}, "canceled", d.event.at)
    BY <1>7 DEF writes
  <2> QED BY <1>7, <2>1, <2>4, <2>5 DEF entitles, Set
<1> QED BY <1>1, <1>3, <1>4, <1>5, <1>6, <1>7

\* What a flush leaves to be written.
LEMMA FlushWritten ==
    ASSUME BillingInv, NEW h \in Handlers, Flush(h)
    PROVE  /\ ~Conflicts(h) => Wrote(h)' = Wrote(h) /\ Written(h)' = Written(h)
           /\ Conflicts(h) => /\ \A t \in Subs \ {handler[h].event.of} : Written(h)'[t] = Written(h)[t]
                              /\ \A t \in Subs : Written(h)'[t].status \in Blocking => row[t].status \in Blocking
<1> DEFINE own == handler[h].event.of
<1>1. row' = row /\ Busy(h) /\ handler'[h].read = handler[h].read
  BY FlushFacts
<1>2. \A t \in Subs : Written(h)'[t] = IF t \in Wrote(h)' THEN handler'[h].writes[t] ELSE row[t]
  BY <1>1 DEF Written
<1>3. \A t \in Subs : t \in Wrote(h)' <=> handler'[h].writes[t] # handler[h].read[t]
  BY <1>1 DEF Wrote
<1>4. CASE ~Conflicts(h)
  <2>1. handler'[h].writes = handler[h].writes
    BY <1>4, FlushFacts
  <2>2. Wrote(h)' = Wrote(h)
    BY <1>1, <2>1 DEF Wrote
  <2> QED BY <1>1, <1>4, <2>1, <2>2 DEF Written
<1>5. CASE Conflicts(h)
  <2>1. /\ handler'[h].writes[own].status = "canceled"
        /\ \A t \in Subs \ {own} : handler'[h].writes[t] = handler[h].writes[t]
    <3>1. /\ handler'[h].writes[own] = [status |-> "canceled", seen |-> handler[h].event.at]
          /\ \A t \in Subs \ {own} : handler'[h].writes[t] = handler[h].writes[t]
      BY <1>5, FlushFacts
    <3> QED BY <3>1
  <2>2. ASSUME NEW t \in Subs \ {own} PROVE Written(h)'[t] = Written(h)[t]
    BY <1>1, <1>2, <1>3, <2>1, WrittenMoves
  <2>3. ASSUME NEW t \in Subs, Written(h)'[t].status \in Blocking PROVE row[t].status \in Blocking
    <3>1. CASE t = own
      <4>1. t \notin Wrote(h)'
        BY <1>2, <2>1, <2>3, <3>1, Kinds
      <4> QED BY <1>2, <2>3, <4>1
    <3>2. CASE t # own
      BY <1>1, <2>2, <2>3, <3>2, WrittenMoves
    <3> QED BY <3>1, <3>2
  <2> QED BY <1>5, <2>2, <2>3
<1> QED BY <1>4, <1>5

LEMMA FlushDeliveries ==
    ASSUME BillingInv, NEW h \in Handlers, Flush(h)
    PROVE  TimeInv' /\ DeliveriesInv'
<1> DEFINE d == handler[h]
<1> DEFINE c == handler'[h]
<1>1. /\ UNCHANGED <<clock, stripe, due, row>> /\ Busy(h)
      /\ c.event = d.event /\ c.locked = d.locked /\ c.read = d.read /\ c.pc = "flushed"
  BY FlushFacts
<1>2. TimeInv'
  BY <1>1 DEF BillingInv, TimeInv
<1>3. DeliveryInv(h)
  BY <1>1 DEF BillingInv, DeliveriesInv
<1>4. d.event.of \in Subs /\ d.event.at \in Int
  BY <1>1, AreNumbers DEF BillingInv, Numbers
<1>5. DeliveryInv(h)'
  <2>1. CASE ~Conflicts(h)
    <3>1. c.writes = d.writes /\ c.cancels = d.cancels /\ c.entitles = d.entitles
      BY <2>1, FlushFacts
    <3> HIDE DEF c, d
    <3> QED BY <1>1, <1>3, <3>1 DEF DeliveryInv, c, d
  <2>2. CASE Conflicts(h)
    <3>1. /\ c.entitles = "keeps" /\ ~End(d.event)
          /\ c.writes[d.event.of] = [status |-> "canceled", seen |-> d.event.at]
          /\ \A t \in Subs \ {d.event.of} : c.writes[t] = d.writes[t]
      BY <1>1, <2>2, FlushFacts, EndsAgree
    <3>2. c.writes[d.event.of].status = "canceled" /\ c.writes[d.event.of].seen = d.event.at
      BY <3>1
    <3>3. c.writes[d.event.of] # Absent
      BY <3>2, Kinds
    <3>4. Own(d.read[d.event.of], c.writes[d.event.of], d.event)
      BY <1>3, <3>2, Kinds DEF DeliveryInv, Own
    <3>5. stripe[d.event.of] # "none"
      BY <1>3 DEF DeliveryInv, BillingInv, TimeInv
    <3>6. d.read[d.event.of] = Absent => d.locked
      BY <1>3, <1>4 DEF DeliveryInv
    <3>7. ASSUME NEW s \in Subs
          PROVE  /\ c.read[s].seen <= clock' /\ Moves(s, c.read[s], c.writes[s], c.event)
                 /\ c.writes[s] # Absent => stripe'[s] # "none"
                 /\ c.read[s] = Absent /\ c.writes[s] # Absent => c.locked
      <4>1. CASE s = d.event.of
        BY <1>1, <1>3, <3>4, <3>5, <3>6, <4>1 DEF DeliveryInv, Moves
      <4>2. CASE s # d.event.of
        <5>1. c.writes[s] = d.writes[s]
          BY <3>1, <4>2
        <5> HIDE DEF c
        <5> QED BY <1>1, <1>3, <5>1 DEF DeliveryInv
      <4> QED BY <4>1, <4>2
    <3>8. d.event \in due /\ d.read[d.event.of].seen <= d.event.at
          /\ (d.event.type = "subscription" => d.locked)
      BY <1>3 DEF DeliveryInv
    <3> QED BY <1>1, <3>1, <3>3, <3>7, <3>8 DEF DeliveryInv
  <2> QED BY <2>1, <2>2
<1>6. \A g \in Handlers \ {h} :
          handler'[g] = handler[g] /\ (Busy(g)' <=> Busy(g)) /\ handler[g].pc # "flushed"
  BY FlushFacts DEF At
<1>7. ASSUME NEW g \in Handlers, Busy(g)'
      PROVE  DeliveryInv(g)'
  <2>1. CASE g = h
    BY <1>5, <2>1
  <2>2. CASE g # h
    <3>1. handler'[g] = handler[g] /\ DeliveryInv(g)
      BY <1>6, <1>7, <2>2 DEF BillingInv, DeliveriesInv
    <3> QED BY <1>1, <3>1 DEF DeliveryInv
  <2> QED BY <2>1, <2>2
<1>8. ASSUME NEW g \in Handlers, NEW f \in Handlers \ {g}, Busy(g)', Busy(f)'
      PROVE  Apart(handler'[f], handler'[g])
  <2>1. Busy(g) /\ Busy(f)
    BY <1>1, <1>6, <1>8
  <2>2. Apart(handler[f], handler[g])
    BY <2>1 DEF BillingInv, DeliveriesInv
  <2>3. CASE g = h
    BY <1>1, <1>6, <2>2, <2>3 DEF Apart
  <2>4. CASE f = h
    BY <1>1, <1>6, <2>2, <2>4 DEF Apart
  <2>5. CASE g # h /\ f # h
    BY <1>6, <2>2, <2>5
  <2> QED BY <2>3, <2>4, <2>5
<1> QED BY <1>2, <1>7, <1>8 DEF DeliveriesInv

LEMMA FlushUnique ==
    ASSUME BillingInv, NEW h \in Handlers, Flush(h)
    PROVE  UniqueInv'
<1>1. row' = row /\ \A g \in Handlers \ {h} : ~At(g, "flushed")'
  BY FlushFacts
<1>2. Unique(Written(h)')
  <2>1. CASE Conflicts(h)
    BY <2>1, FlushWritten DEF BillingInv, UniqueInv, Unique
  <2>2. CASE ~Conflicts(h)
    BY <2>2, FlushWritten, ConflictMeans
  <2> QED BY <2>1, <2>2
<1>3. \A g \in Handlers : At(g, "flushed")' => Unique(Written(g)')
  BY <1>1, <1>2
<1> QED BY <1>1, <1>3 DEF BillingInv, UniqueInv, Unique

LEMMA FlushEnd ==
    ASSUME BillingInv, NEW h \in Handlers, Flush(h)
    PROVE  EndInv'
<1>1. UNCHANGED <<clock, stripe, due, row, overtaken>> /\ Busy(h)
  BY FlushFacts
<1>2. \A s : (Over(s)' <=> Over(s)) /\ \A x : EndDue(s, x)' <=> EndDue(s, x)
  BY <1>1 DEF Over, EndDue
<1>3. \A s \in Subs \ overtaken' : stripe'[s] \in Terminal => (\E x \in due' : EndDue(s, x)') \/ Over(s)'
  BY <1>1, <1>2 DEF BillingInv, EndInv
<1>4. ASSUME NEW g \in Handlers, Busy(g)', End(handler'[g].event), NEW s \in Subs \ overtaken',
             s = handler'[g].event.of, handler'[g].writes[s] = handler'[g].read[s]
      PROVE  Over(s)'
  <2>1. /\ Busy(g) /\ handler'[g].event = handler[g].event /\ handler'[g].read = handler[g].read
        /\ handler'[g].writes = handler[g].writes
    BY <1>1, <1>4, FlushFacts, EndsAgree
  <2> QED BY <1>1, <1>2, <1>4, <2>1 DEF BillingInv, EndInv
<1> QED BY <1>3, <1>4 DEF EndInv

LEMMA FlushCarry ==
    ASSUME BillingInv, NEW h \in Handlers, Flush(h)
    PROVE  CarryInv'
<1> SUFFICES ASSUME overtaken' = {} PROVE CarryInv'
  BY DEF CarryInv
<1> DEFINE own == handler[h].event.of
<1>1. /\ UNCHANGED <<clock, stripe, due, row, overtaken, entitled>> /\ Busy(h)
      /\ At(h, "decided") /\ ~At(h, "flushed") /\ At(h, "flushed")'
      /\ handler'[h].event = handler[h].event /\ handler'[h].read = handler[h].read
      /\ handler'[h].entitles = handler[h].entitles \/ (handler'[h].entitles = "keeps" /\ ~End(handler[h].event))
  BY FlushFacts, EndsAgree DEF At
<1>2. \A g \in Handlers \ {h} : /\ handler'[g] = handler[g] /\ (Busy(g)' <=> Busy(g))
                                /\ ~At(g, "flushed") /\ (At(g, "decided")' <=> At(g, "decided"))
  BY FlushFacts
<1>3. ASSUME NEW g \in Handlers, Busy(g)', End(handler'[g].event), handler'[g].entitles = "keeps"
      PROVE  row'[handler'[g].event.of] = Absent
  BY <1>1, <1>2, <1>3 DEF BillingInv, CarryInv
<1>4. ASSUME \E s \in Subs \ {own} : handler'[h].writes[s] # handler'[h].read[s]
      PROVE  Replaces(h)'
  <2>1. \A s \in Subs \ {own} : handler'[h].writes[s] = handler[h].writes[s]
    BY FlushFacts
  <2>2. Replaces(h)
    BY <1>1, <1>4, <2>1 DEF BillingInv, CarryInv
  <2>3. own \in Subs /\ handler[h].writes[own].status \in Blocking /\ handler[h].read[own].status \notin Blocking
    BY <1>1, <2>2, AreNumbers DEF Replaces, BillingInv, Numbers
  <2>4. CASE Conflicts(h)
    <3>1. PICK u \in Subs : u # own /\ Written(h)[u].status \in Blocking
      BY <2>4, ConflictMeans DEF Unique
    <3>2. Written(h)'[u].status \in Blocking
      BY <2>4, <3>1, FlushWritten
    <3> QED BY <1>1, <3>2 DEF Replaces
  <2>5. CASE ~Conflicts(h)
    <3>1. Written(h)[own] = handler[h].writes[own]
      BY <1>1, <2>3, WrittenMoves
    <3>2. Written(h)'[own].status \in Blocking
      BY <2>3, <2>5, <3>1, FlushWritten
    <3> QED BY <1>1, <2>3, <3>2 DEF Replaces
  <2> QED BY <2>4, <2>5
<1>5. ASSUME NEW g \in Handlers, Busy(g)',
             \E s \in Subs \ {handler'[g].event.of} : handler'[g].writes[s] # handler'[g].read[s]
      PROVE  Replaces(g)'
  <2>1. CASE g = h
    BY <1>1, <1>4, <1>5, <2>1
  <2>2. CASE g # h
    <3>1. Replaces(g) /\ At(g, "decided")
      BY <1>1, <1>2, <1>5, <2>2 DEF BillingInv, CarryInv, Replaces
    <3> QED BY <1>2, <2>2, <3>1 DEF Replaces
  <2> QED BY <2>1, <2>2
<1>6. ASSUME entitled' \/ \E g \in Handlers : Busy(g)' /\ handler'[g].entitles = "gives"
      PROVE  \E s \in Subs : Carries(s)'
  <2>1. entitled \/ \E g \in Handlers : Busy(g) /\ handler[g].entitles = "gives"
    BY <1>1, <1>2, <1>6
  <2>2. PICK s \in Subs : Carries(s)
    BY <1>1, <2>1 DEF BillingInv, CarryInv
  <2>3. CASE stripe[s] \notin Terminal \cup {"none"}
    BY <1>1, <2>3 DEF Carries
  <2>4. ASSUME NEW x \in due, EndDue(s, x),
               \A g \in Handlers : Busy(g) /\ handler[g].event = x => handler[g].entitles # "keeps"
        PROVE  Carries(s)'
    <3>1. x \in due' /\ EndDue(s, x)' /\ End(x)
      BY <1>1, <2>4 DEF EndDue
    <3>2. \A g \in Handlers : Busy(g)' /\ handler'[g].event = x => handler'[g].entitles # "keeps"
      BY <1>1, <1>2, <2>4, <3>1
    <3> QED BY <3>1, <3>2 DEF Carries
  <2> QED BY <2>2, <2>3, <2>4 DEF Carries
<1> QED BY <1>3, <1>5, <1>6 DEF CarryInv

LEMMA FlushBilled ==
    ASSUME BillingInv, NEW h \in Handlers, Flush(h)
    PROVE  BilledInv'
<1>1. /\ UNCHANGED <<clock, stripe, due, row, reverted, rejected>> /\ Busy(h)
  BY FlushFacts
<1>2. ASSUME NEW g \in Handlers, Busy(g)'
      PROVE  /\ Busy(g) /\ handler'[g].event = handler[g].event /\ handler'[g].read = handler[g].read
             /\ LET d == handler'[g] IN
                /\ d.event.type = "subscription" /\ d.event.status \in Blocking =>
                    d.writes[d.event.of].status \in Blocking \cup Terminal
                /\ d.event.type = "refund" => d.writes[d.event.of].status \in Terminal
  <2>1. Busy(g) /\ handler'[g].event = handler[g].event /\ handler'[g].read = handler[g].read
    BY <1>1, <1>2, FlushFacts
  <2>2. \/ handler'[g].writes = handler[g].writes
        \/ handler'[g].writes[handler'[g].event.of].status \in Terminal
    <3>1. CASE g = h /\ Conflicts(h)
      <4>1. handler'[h].writes[handler[h].event.of] = [status |-> "canceled", seen |-> handler[h].event.at]
        BY <3>1, FlushFacts
      <4> QED BY <2>1, <3>1, <4>1, Kinds
    <3>2. CASE g # h \/ ~Conflicts(h)
      BY <3>2, FlushFacts
    <3> QED BY <3>1, <3>2
  <2> QED BY <2>1, <2>2 DEF BillingInv, BilledInv
<1>3. \A s \in Subs, e \in due : Unread(s, e) => Unread(s, e)'
  BY <1>1, <1>2 DEF Unread
<1>4. ASSUME reverted' = {}, NEW g \in Handlers, Busy(g)', NEW s \in Subs, handler'[g].read[s].status \in Blocking
      PROVE  row'[s].status \in Blocking \/ stripe'[s] \in Terminal
  BY <1>1, <1>2, <1>4 DEF BillingInv, BilledInv
<1>5. ASSUME reverted' = {}, rejected' = {}, NEW s \in Subs, stripe'[s] \in Blocking
      PROVE  row'[s].status \in Blocking \/ \E e \in due' : Unread(s, e)'
  BY <1>1, <1>3, <1>5 DEF BillingInv, BilledInv
<1> QED BY <1>2, <1>4, <1>5 DEF BilledInv

-----------------------------------------------------------------------------
(* A delivery commits.                                                     *)

LEMMA CommitFacts ==
    ASSUME BillingInv, NEW h \in Handlers, Commit(h)
    PROVE  /\ UNCHANGED <<clock, stripe, rejected>> /\ row' = Written(h) /\ due' = due \ {handler[h].event}
           /\ overtaken' = overtaken \cup ReadTooEarly(h) /\ reverted' = reverted \cup Reverted(h)
           /\ Busy(h) /\ ~Busy(h)' /\ Unique(Written(h)) /\ DeliveryInv(h)
           /\ handler[h].event \in due /\ handler[h].event.of \in Subs
           /\ \A s \in Subs : handler[h].writes[s].status \in Terminal => stripe[s] \in Terminal
           /\ handler[h].entitles = "keeps" => entitled' = entitled
           /\ handler[h].entitles = "ends" => entitled' = FALSE
           /\ handler[h].entitles \in {"keeps", "gives", "ends"}
           /\ \A g \in Handlers : Busy(g)' =>
                  /\ g # h /\ handler'[g] = handler[g] /\ Busy(g) /\ ~At(g, "flushed")
                  /\ ~At(g, "flushed")' /\ (At(g, "decided") => At(g, "decided")')
                  /\ DeliveryInv(g) /\ Apart(handler[g], handler[h])
<1>1. /\ UNCHANGED <<clock, stripe, rejected>> /\ row' = Written(h) /\ due' = due \ {handler[h].event}
      /\ overtaken' = overtaken \cup ReadTooEarly(h) /\ reverted' = reverted \cup Reverted(h)
      /\ Busy(h) /\ handler[h].cancels = {}
      /\ handler' = [handler EXCEPT ![h] = Idle]
  BY DEF Commit, Busy, At
<1>2. Unique(Written(h))
  BY ConflictMeans DEF Commit, BillingInv, UniqueInv
<1>3. DeliveryInv(h) /\ handler[h].event.of \in Subs
  BY <1>1, AreNumbers DEF BillingInv, DeliveriesInv, Numbers
<1>4. handler[h].event \in due
  BY <1>3 DEF DeliveryInv
<1>5. \A s \in Subs : handler[h].writes[s].status \in Terminal => stripe[s] \in Terminal
  BY <1>1 DEF BillingInv, BillInv, HandlersInv, Backed
<1>6. handler[h].entitles \in {"keeps", "gives", "ends"}
  BY <1>1, BusyFields DEF BillingInv, Entitling
<1>7. /\ handler[h].entitles = "keeps" => entitled' = entitled
      /\ handler[h].entitles = "ends" => entitled' = FALSE
  BY DEF Commit
<1>8. \A g \in Handlers : handler'[g] = IF g = h THEN Idle ELSE handler[g]
  BY <1>1, HandlerSet DEF BillingInv
<1>9. ~Busy(h)'
  BY <1>8, IdleNot DEF Busy, At
<1>10. ASSUME NEW g \in Handlers, Busy(g)'
       PROVE  /\ g # h /\ handler'[g] = handler[g] /\ Busy(g) /\ ~At(g, "flushed")
              /\ ~At(g, "flushed")' /\ (At(g, "decided") => At(g, "decided")')
              /\ DeliveryInv(g) /\ Apart(handler[g], handler[h])
  <2>1. g # h /\ handler'[g] = handler[g]
    BY <1>8, <1>9, <1>10
  <2>2. Busy(g)
    BY <1>10, <2>1 DEF Busy, At
  <2>3. DeliveryInv(g) /\ Apart(handler[g], handler[h])
    BY <1>1, <2>1, <2>2 DEF BillingInv, DeliveriesInv
  <2>4. ~At(g, "flushed")
    BY <2>1, <2>3 DEF Commit, MayFlush, Apart, At
  <2> QED BY <2>1, <2>2, <2>3, <2>4 DEF At
<1> QED BY <1>1, <1>2, <1>3, <1>4, <1>5, <1>6, <1>7, <1>9, <1>10

\* A row that a commit writes was as it had read it, unless it is overtaken.
LEMMA CommitRows ==
    ASSUME BillingInv, NEW h \in Handlers, Commit(h), NEW s \in Subs
    PROVE  /\ s \notin Wrote(h) => row'[s] = row[s] /\ handler[h].writes[s] = handler[h].read[s]
           /\ s \in Wrote(h) =>
                  /\ row'[s] = handler[h].writes[s] /\ handler[h].writes[s] # handler[h].read[s]
                  /\ s \notin overtaken' => handler[h].read[s] = row[s]
                  /\ \/ /\ s # handler[h].event.of /\ handler[h].read[s].status \in Blocking
                        /\ row'[s].status \in Terminal
                        /\ row'[s].seen = Later(handler[h].read[s], handler[h].event.at)
                     \/ s = handler[h].event.of /\ Own(handler[h].read[s], row'[s], handler[h].event)
<1>1. row' = Written(h) /\ Busy(h) /\ overtaken' = overtaken \cup ReadTooEarly(h)
  BY CommitFacts
<1>2. /\ Written(h)[s] = IF s \in Wrote(h) THEN handler[h].writes[s] ELSE row[s]
      /\ s \in Wrote(h) <=> handler[h].writes[s] # handler[h].read[s]
      /\ Moves(s, handler[h].read[s], handler[h].writes[s], handler[h].event)
  BY <1>1, WrittenMoves
<1>3. s \in Wrote(h) /\ s \notin overtaken' => handler[h].read[s] = row[s]
  BY <1>1 DEF ReadTooEarly
<1> QED BY <1>1, <1>2, <1>3 DEF Moves

LEMMA CommitDeliveries ==
    ASSUME BillingInv, NEW h \in Handlers, Commit(h)
    PROVE  TimeInv' /\ DeliveriesInv' /\ UniqueInv'
<1> DEFINE e == handler[h].event
<1>1. /\ clock' = clock /\ stripe' = stripe /\ row' = Written(h) /\ due' = due \ {e} /\ e \in due
      /\ Busy(h) /\ Unique(Written(h)) /\ DeliveryInv(h)
  BY CommitFacts
<1>2. ASSUME NEW s \in Subs
      PROVE  row'[s].seen <= clock' /\ (row'[s] # Absent => stripe'[s] # "none")
  <2>1. /\ row[s].seen <= clock /\ (row[s] # Absent => stripe[s] # "none") /\ e.at <= clock
        /\ handler[h].read[s].seen <= clock /\ (handler[h].writes[s] # Absent => stripe[s] # "none")
    BY <1>1 DEF BillingInv, TimeInv, DeliveryInv
  <2>2. handler[h].read[s].seen \in Int /\ e.at \in Int
    BY <1>1, AreNumbers DEF BillingInv, Numbers
  <2>3. Later(handler[h].read[s], e.at) <= clock
    BY <2>1, <2>2, LaterOf
  <2>4. CASE s \notin Wrote(h)
    BY <1>1, <2>1, <2>4, CommitRows
  <2>5. CASE s \in Wrote(h)
    <3>1. row'[s] = handler[h].writes[s] /\ row'[s].seen <= clock
      BY <2>1, <2>3, <2>5, CommitRows DEF Own
    <3> QED BY <1>1, <2>1, <3>1
  <2> QED BY <2>4, <2>5
<1>3. TimeInv'
  BY <1>1, <1>2 DEF BillingInv, TimeInv
<1>4. ASSUME NEW g \in Handlers, Busy(g)' PROVE DeliveryInv(g)'
  <2>1. handler'[g] = handler[g] /\ DeliveryInv(g) /\ Apart(handler[g], handler[h])
    BY <1>4, CommitFacts
  <2>2. handler[g].event \in due'
    BY <1>1, <2>1 DEF DeliveryInv, Apart
  <2> QED BY <1>1, <2>1, <2>2 DEF DeliveryInv
<1>5. ASSUME NEW g \in Handlers, NEW f \in Handlers \ {g}, Busy(g)', Busy(f)'
      PROVE  Apart(handler'[f], handler'[g])
  <2>1. /\ Busy(g) /\ handler'[g] = handler[g] /\ Busy(f) /\ handler'[f] = handler[f]
    BY <1>5, CommitFacts
  <2> QED BY <2>1 DEF BillingInv, DeliveriesInv
<1>6. ASSUME NEW g \in Handlers, At(g, "flushed")' PROVE FALSE
  <2>1. Busy(g)'
    BY <1>6 DEF At, Busy
  <2> QED BY <1>6, <2>1, CommitFacts
<1> QED BY <1>1, <1>3, <1>4, <1>5, <1>6 DEF DeliveriesInv, UniqueInv, Unique

\* What is over stays so, unless it is written over.
LEMMA CommitOver ==
    ASSUME BillingInv, NEW h \in Handlers, Commit(h), NEW s \in Subs \ overtaken', Over(s)
    PROVE  Over(s)'
<1> DEFINE e == handler[h].event
<1>1. due' \subseteq due /\ e \in due /\ Numbers
  BY CommitFacts, AreNumbers DEF BillingInv
<1>2. CASE s \notin Wrote(h)
  BY <1>1, <1>2, CommitRows DEF Over
<1>3. CASE s \in Wrote(h)
  <2>1. handler[h].read[s] = row[s] /\ row[s].status \in Terminal
    BY <1>3, CommitRows DEF Over
  <2>2. s = e.of /\ Own(row[s], row'[s], e)
    BY <1>3, <2>1, CommitRows, Kinds
  <2>3. e.at <= row[s].seen
    BY <1>1, <2>2 DEF Over
  <2>4. row[s].seen = e.at /\ row'[s].seen = e.at /\ row'[s].status \in Terminal
    BY <1>1, <2>1, <2>2, <2>3 DEF Own, Numbers
  <2> QED BY <1>1, <2>4 DEF Over
<1> QED BY <1>2, <1>3

LEMMA CommitEnd ==
    ASSUME BillingInv, NEW h \in Handlers, Commit(h), TypeOK'
    PROVE  EndInv'
<1> DEFINE e == handler[h].event
<1>1. /\ stripe' = stripe /\ due' = due \ {e} /\ e \in due /\ overtaken \subseteq overtaken'
      /\ Busy(h) /\ DeliveryInv(h)
  BY CommitFacts
<1>2. Numbers /\ Numbers'
  BY AreNumbers, AreNumbersNext DEF BillingInv
<1>3. ASSUME NEW s \in Subs \ overtaken', NEW x \in due, EndDue(s, x)
      PROVE  (\E y \in due' : EndDue(s, y)') \/ Over(s)'
  <2>1. /\ End(x) /\ x.of = s /\ row[s].seen <= x.at
        /\ \A f \in due : f.of = s => f.at <= x.at
    BY <1>3 DEF EndDue, BillingInv, TimeInv
  <2>2. x # e /\ row'[s].seen <= x.at => EndDue(s, x)' /\ x \in due'
    BY <1>1, <1>3, <2>1 DEF EndDue
  <2>3. CASE s \notin Wrote(h)
    <3>1. row'[s] = row[s] /\ handler[h].writes[s] = handler[h].read[s]
      BY <2>3, CommitRows
    <3>2. CASE x = e
      <4>1. Over(s)
        BY <1>1, <2>1, <3>1, <3>2 DEF BillingInv, EndInv
      <4> QED BY <4>1, CommitOver
    <3> QED BY <2>1, <2>2, <3>1, <3>2
  <2>4. CASE s \in Wrote(h) /\ s = e.of
    <3>1. row'[s] = handler[h].writes[s] /\ row'[s].seen = e.at
      BY <2>4, CommitRows DEF Own
    <3>2. CASE x = e
      <4>1. row'[s].status \in Terminal
        BY <1>1, <2>1, <2>4, <3>1, <3>2 DEF DeliveryInv
      <4> QED BY <1>1, <2>1, <3>1, <3>2, <4>1 DEF Over
    <3> QED BY <1>1, <2>1, <2>2, <2>4, <3>1, <3>2
  <2>5. CASE s \in Wrote(h) /\ s # e.of
    <3>1. x # e /\ row'[s].status \in Terminal
      BY <2>1, <2>5, CommitRows
    <3>2. CASE row'[s].seen > x.at
      BY <1>1, <1>2, <2>1, <3>1, <3>2 DEF Over, Numbers
    <3> QED BY <1>2, <2>2, <3>1, <3>2 DEF Numbers
  <2> QED BY <2>3, <2>4, <2>5
<1>4. ASSUME NEW s \in Subs \ overtaken', stripe'[s] \in Terminal
      PROVE  (\E y \in due' : EndDue(s, y)') \/ Over(s)'
  <2>1. (\E x \in due : EndDue(s, x)) \/ Over(s)
    BY <1>1, <1>4 DEF BillingInv, EndInv
  <2> QED BY <1>3, <2>1, CommitOver
<1>5. ASSUME NEW g \in Handlers, Busy(g)', End(handler'[g].event), NEW s \in Subs \ overtaken',
             s = handler'[g].event.of, handler'[g].writes[s] = handler'[g].read[s]
      PROVE  Over(s)'
  <2>1. Busy(g) /\ handler'[g] = handler[g]
    BY <1>5, CommitFacts
  <2>2. Over(s)
    BY <1>1, <1>5, <2>1 DEF BillingInv, EndInv
  <2> QED BY <2>2, CommitOver
<1> QED BY <1>4, <1>5 DEF EndInv

LEMMA CommitCarry ==
    ASSUME BillingInv, NEW h \in Handlers, Commit(h), TypeOK'
    PROVE  CarryInv'
<1> SUFFICES ASSUME overtaken' = {} PROVE CarryInv'
  BY DEF CarryInv
<1> DEFINE e == handler[h].event
<1>1. /\ stripe' = stripe /\ due' = due \ {e} /\ e \in due /\ overtaken = {} /\ row' = Written(h)
      /\ Busy(h) /\ DeliveryInv(h)
  BY CommitFacts
<1>2. \A g \in Handlers : Busy(g)' =>
          /\ g # h /\ handler'[g] = handler[g] /\ Busy(g) /\ ~At(g, "flushed")
          /\ (At(g, "decided") => At(g, "decided")')
          /\ DeliveryInv(g) /\ ~(handler[g].locked /\ handler[h].locked)
  BY CommitFacts DEF Apart
<1>3. KeepsNone'
  <2> SUFFICES ASSUME NEW g \in Handlers, Busy(g)', End(handler'[g].event), handler'[g].entitles = "keeps"
               PROVE  row'[handler'[g].event.of] = Absent
    BY DEF KeepsNone
  <2> DEFINE t == handler[g].event.of
  <2>1. /\ handler'[g] = handler[g] /\ Busy(g) /\ End(handler[g].event) /\ t \in Subs
        /\ row[t] = Absent
    BY <1>1, <1>2, AreNumbers DEF BillingInv, CarryInv, Numbers
  <2>2. handler[g].locked
    BY <1>2, <2>1 DEF DeliveryInv, End
  <2>3. CASE t \in Wrote(h)
    <3>1. handler[h].read[t] = Absent /\ handler[h].writes[t] # Absent
      BY <2>1, <2>3, CommitRows
    <3>2. handler[h].locked
      BY <1>1, <2>1, <3>1 DEF DeliveryInv
    <3> QED BY <1>2, <2>2, <3>2
  <2> QED BY <2>1, <2>3, CommitRows
<1>4. ASSUME NEW g \in Handlers, Busy(g)',
             \E s \in Subs \ {handler'[g].event.of} : handler'[g].writes[s] # handler'[g].read[s]
      PROVE  Replaces(g)'
  <2>1. Replaces(g) /\ handler'[g] = handler[g] /\ ~At(g, "flushed") /\ (At(g, "decided") => At(g, "decided")')
    BY <1>1, <1>2, <1>4 DEF BillingInv, CarryInv
  <2> QED BY <2>1 DEF Replaces
<1>5. (\E s \in Subs : row'[s].status \in Blocking) => \E s \in Subs : Carries(s)'
  <2>1. TimeInv' /\ EndInv'
    BY CommitDeliveries, CommitEnd
  <2>2. Carrier'
    BY <1>3, <2>1, BlockingCarriesNext
  <2> QED BY <2>2 DEF Carrier
<1>6. ASSUME entitled' \/ \E g \in Handlers : Busy(g)' /\ handler'[g].entitles = "gives"
      PROVE  \E s \in Subs : Carries(s)'
  <2>1. entitled \/ \E g \in Handlers : Busy(g) /\ handler[g].entitles = "gives"
    BY <1>1, <1>2, <1>6, CommitFacts
  <2>2. PICK s \in Subs : Carries(s)
    BY <1>1, <2>1 DEF BillingInv, CarryInv
  <2>3. CASE stripe[s] \notin Terminal \cup {"none"}
    BY <1>1, <2>3 DEF Carries
  <2>4. ASSUME NEW x \in due, EndDue(s, x),
               \A g \in Handlers : Busy(g) /\ handler[g].event = x => handler[g].entitles # "keeps"
        PROVE  \E t \in Subs : Carries(t)'
    <3>1. End(x) /\ x.of = s /\ row[s].seen <= x.at /\ \A f \in due : f.of = s => f.at <= x.at
      BY <2>4 DEF EndDue, BillingInv, TimeInv
    <3>2. CASE x = e
      <4>1. handler[h].locked /\ handler[h].entitles = "ends"
        BY <1>1, <2>4, <3>1, <3>2, CommitFacts DEF DeliveryInv, End
      <4>2. ~entitled'
        BY <4>1, CommitFacts
      <4>3. PICK g \in Handlers : Busy(g)' /\ handler'[g].entitles = "gives"
        BY <1>6, <4>2
      <4>4. handler[g].locked
        BY <1>2, <4>3 DEF DeliveryInv
      <4> QED BY <1>2, <4>1, <4>3, <4>4
    <3>3. CASE x # e /\ row'[s].seen <= x.at
      <4>1. x \in due' /\ EndDue(s, x)'
        BY <1>1, <2>4, <3>1, <3>3 DEF EndDue
      <4>2. \A g \in Handlers : Busy(g)' /\ handler'[g].event = x => handler'[g].entitles # "keeps"
        BY <1>2, <2>4
      <4> QED BY <4>1, <4>2 DEF Carries
    <3>4. CASE ~(row'[s].seen <= x.at)
      <4>1. s \in Wrote(h)
        BY <3>1, <3>4, CommitRows
      <4>2. s # e.of
        BY <1>1, <3>1, <3>4, <4>1, CommitRows DEF Own
      <4>3. handler[h].writes[s] # handler[h].read[s]
        BY <4>1, CommitRows
      <4>4. Replaces(h)
        BY <1>1, <4>2, <4>3 DEF BillingInv, CarryInv
      <4>5. \E u \in Subs : row'[u].status \in Blocking
        <5>1. CASE /\ handler[h].writes[e.of].status \in Blocking
                   /\ handler[h].read[e.of].status \notin Blocking
          <6>1. e.of \in Subs
            BY CommitFacts
          <6>2. handler[h].writes[e.of] # handler[h].read[e.of]
            BY <5>1
          <6>3. row'[e.of] = handler[h].writes[e.of]
            BY <6>1, <6>2, CommitRows
          <6> QED BY <5>1, <6>1, <6>3
        <5>2. CASE \E u \in Subs : Written(h)[u].status \in Blocking
          BY <1>1, <5>2
        <5> QED BY <4>4, <5>1, <5>2 DEF Replaces
      <4> QED BY <1>5, <4>5
    <3> QED BY <3>2, <3>3, <3>4
  <2> QED BY <2>2, <2>3, <2>4 DEF Carries
<1> QED BY <1>3, <1>4, <1>6 DEF CarryInv, KeepsNone

\* A row that blocks goes on to, or its subscription has ended at Stripe.
LEMMA CommitBlocks ==
    ASSUME BillingInv, NEW h \in Handlers, Commit(h), reverted' = {}, NEW s \in Subs,
           row[s].status \in Blocking
    PROVE  row'[s].status \in Blocking \/ stripe[s] \in Terminal
<1>1. CASE s \notin Wrote(h)
  BY <1>1, CommitRows
<1>2. CASE s \in Wrote(h)
  <2>1. row'[s] = handler[h].writes[s] /\ row'[s].status \in Statuses
    BY <1>2, CommitRows, Kinds DEF Own
  <2>2. row'[s].status # "incomplete"
    BY <1>2, CommitFacts DEF Reverted
  <2>3. row'[s].status \in Terminal => stripe[s] \in Terminal
    BY <2>1, CommitFacts
  <2> QED BY <2>1, <2>2, <2>3 DEF Statuses
<1> QED BY <1>1, <1>2

LEMMA CommitBilled ==
    ASSUME BillingInv, NEW h \in Handlers, Commit(h), TypeOK'
    PROVE  BilledInv'
<1> DEFINE e == handler[h].event
<1>1. /\ stripe' = stripe /\ due' = due \ {e} /\ e \in due /\ rejected' = rejected
      /\ reverted \subseteq reverted' /\ Busy(h) /\ row' = Written(h)
      /\ \A s \in Subs : handler[h].writes[s].status \in Terminal => stripe[s] \in Terminal
  BY CommitFacts
<1>2. \A g \in Handlers : Busy(g)' => g # h /\ handler'[g] = handler[g] /\ Busy(g)
  BY CommitFacts
<1>3. ASSUME NEW g \in Handlers, Busy(g)'
      PROVE  /\ handler'[g].event.type = "subscription" /\ handler'[g].event.status \in Blocking =>
                    handler'[g].writes[handler'[g].event.of].status \in Blocking \cup Terminal
             /\ handler'[g].event.type = "refund" => handler'[g].writes[handler'[g].event.of].status \in Terminal
  BY <1>2, <1>3 DEF BillingInv, BilledInv
<1>4. ASSUME reverted' = {}, NEW g \in Handlers, Busy(g)', NEW s \in Subs, handler'[g].read[s].status \in Blocking
      PROVE  row'[s].status \in Blocking \/ stripe'[s] \in Terminal
  <2>1. row[s].status \in Blocking \/ stripe[s] \in Terminal
    BY <1>1, <1>2, <1>4 DEF BillingInv, BilledInv
  <2> QED BY <1>1, <1>4, <2>1, CommitBlocks
<1>5. ASSUME reverted' = {}, rejected' = {}, NEW s \in Subs, stripe'[s] \in Blocking
      PROVE  row'[s].status \in Blocking \/ \E x \in due' : Unread(s, x)'
  <2>1. reverted = {} /\ stripe[s] \in Blocking /\ stripe[s] \notin Terminal
    BY <1>1, <1>5, Kinds
  <2>2. CASE row[s].status \in Blocking
    BY <1>5, <2>1, <2>2, CommitBlocks
  <2>3. ASSUME NEW x \in due, Unread(s, x)
        PROVE  row'[s].status \in Blocking \/ (x \in due' /\ Unread(s, x)')
    <3>1. /\ x.type = "subscription" /\ x.of = s /\ x.status = stripe[s] /\ row[s].seen <= x.at
          /\ \A g \in Handlers : Busy(g) => handler[g].read[s].seen <= x.at
          /\ \A f \in due : f.of = s /\ f.type # "refund" => f.at <= x.at
      BY <2>3 DEF Unread
    <3>2. CASE x = e
      <4>1. handler[h].writes[s].status \in Blocking
        BY <1>1, <2>1, <3>1, <3>2 DEF BillingInv, BilledInv
      <4>2. CASE s \in Wrote(h)
        BY <4>1, <4>2, CommitRows
      <4>3. CASE s \notin Wrote(h)
        <5>1. row'[s] = row[s] /\ handler[h].read[s].status \in Blocking
          BY <4>1, <4>3, CommitRows
        <5>2. row[s].status \in Blocking
          BY <1>1, <2>1, <5>1 DEF BillingInv, BilledInv
        <5> QED BY <5>1, <5>2
      <4> QED BY <4>2, <4>3
    <3>3. CASE x # e
      <4>1. row'[s].seen <= x.at
        <5>1. CASE s \notin Wrote(h)
          BY <3>1, <5>1, CommitRows
        <5>2. CASE s \in Wrote(h)
          <6>1. row'[s].status \notin Terminal
            BY <1>1, <2>1, <5>2, CommitRows
          <6>2. s = e.of /\ row'[s].seen = e.at /\ row'[s] = handler[h].writes[s]
            BY <5>2, <6>1, CommitRows DEF Own
          <6>3. e.type # "refund"
            BY <1>1, <6>1, <6>2 DEF BillingInv, BilledInv
          <6> QED BY <1>1, <3>1, <6>2, <6>3
        <5> QED BY <5>1, <5>2
      <4>2. \A g \in Handlers : Busy(g)' => handler'[g].read[s].seen <= x.at
        BY <1>2, <3>1
      <4> QED BY <1>1, <3>1, <3>3, <4>1, <4>2 DEF Unread
    <3> QED BY <3>2, <3>3
  <2>4. row[s].status \in Blocking \/ \E x \in due : Unread(s, x)
    BY <1>1, <1>5, <2>1 DEF BillingInv, BilledInv
  <2> QED BY <2>2, <2>3, <2>4
<1> QED BY <1>3, <1>4, <1>5 DEF BilledInv

-----------------------------------------------------------------------------
(* The invariant holds.                                                    *)

LEMMA BillingInit == Init => BillingInv
<1> SUFFICES ASSUME Init PROVE BillingInv
  OBVIOUS
<1>1. \A h \in Handlers : ~Busy(h) /\ ~At(h, "flushed")
  BY DEF Init, Busy, At, Idle
<1>2. /\ clock = 0 /\ due = {} /\ overtaken = {} /\ ~entitled
      /\ \A s \in Subs : stripe[s] = "none" /\ row[s] = Absent
  BY DEF Init
<1>3. TypeOK
  <2>1. 0 \in Seconds /\ changes \in 0..MaxChanges /\ mishaps \in 0..MaxMishaps
    BY BillingAssumption DEF Init, Seconds
  <2>2. stripe \in [Subs -> Statuses \cup {"none"}] /\ row \in [Subs -> Rows]
    BY DEF Init, Rows
  <2>3. handler \in [Handlers -> HandlerStates]
    BY DEF Init, HandlerStates
  <2> QED BY <2>1, <2>2, <2>3 DEF Init, TypeOK
<1>4. TimeInv /\ DeliveriesInv
  BY <1>1, <1>2, Kinds DEF TimeInv, DeliveriesInv
<1>5. UniqueInv
  BY <1>1, <1>2 DEF UniqueInv, Unique, Absent, Blocking
<1>6. EndInv
  BY <1>1, <1>2 DEF EndInv, Terminal
<1>7. CarryInv
  BY <1>1, <1>2 DEF CarryInv
<1>8. BilledInv
  BY <1>1, <1>2 DEF BilledInv, Blocking
<1> QED BY BillInit, <1>3, <1>4, <1>5, <1>6, <1>7, <1>8 DEF BillingInv

LEMMA BillingNext == BillingInv /\ [Next]_vars => BillingInv'
<1> SUFFICES ASSUME BillingInv, [Next]_vars PROVE BillingInv'
  OBVIOUS
<1>1. BillInv' /\ TypeOK'
  BY BillNext, TypeStep DEF BillingInv
<1>2. ASSUME \/ Tick \/ UNCHANGED vars
             \/ \E s \in Subs : Subscribe(s) \/ Pays(s) \/ PaymentFails(s) \/ Ends(s) \/ Refund(s)
             \/ \E h \in Handlers : \E s \in Subs : CancelAtStripe(h, s)
      PROVE  BillingInv'
  <2>1. WorldStep
    BY <1>2, StripeSteps DEF BillingInv
  <2> QED BY <1>1, <2>1, WorldTime, WorldDeliveries, WorldUnique, WorldEnd, WorldCarry, WorldBilled
          DEF BillingInv
<1>3. ASSUME NEW h \in Handlers, NEW e \in due, Deliver(h, e)
      PROVE  BillingInv'
  BY <1>1, <1>3, DeliverDeliveries, DeliverUnique, DeliverEnd, DeliverCarry, DeliverBilled DEF BillingInv
<1>4. ASSUME NEW h \in Handlers,
             \/ Fails(h) \/ \E s \in Subs : CancelRejected(h, s)
             \/ \E e \in due : Acknowledge(h, e)
      PROVE  BillingInv'
  <2>1. LeaveStep
    BY <1>4, AcknowledgeLeaves, FailLeaves
  <2> QED BY <1>1, <2>1, LeaveKeeps, LeaveCarry, LeaveBilled DEF BillingInv
<1>5. ASSUME NEW h \in Handlers, Flush(h)
      PROVE  BillingInv'
  BY <1>1, <1>5, FlushDeliveries, FlushUnique, FlushEnd, FlushCarry, FlushBilled DEF BillingInv
<1>6. ASSUME NEW h \in Handlers, Commit(h)
      PROVE  BillingInv'
  BY <1>1, <1>6, CommitDeliveries, CommitEnd, CommitCarry, CommitBilled DEF BillingInv
<1> QED BY <1>2, <1>3, <1>4, <1>5, <1>6 DEF Next

\* The invariant of the database and Stripe, for any number of subscriptions
\* and deliveries at once.
THEOREM BillingInvariant == Spec => []BillingInv
<1> QED BY BillingInit, BillingNext, PTL DEF Spec

\* Every event, row and delivery is well formed.
THEOREM BillingTypeCorrect == Spec => []TypeOK
<1>1. BillingInv => TypeOK
  BY DEF BillingInv
<1> QED BY <1>1, BillingInvariant, PTL

\* Once every event has been handled, what has ended at Stripe has ended in the
\* database, with the snapshot entitlement, whatever the order and the failures of
\* the deliveries; unless a delivery that had read the row too early is written
\* over it.
THEOREM EndsArrive == Spec => []EndedThereIsEndedHere
<1>1. ASSUME BillingInv, Settled PROVE EndedThereIsEndedHere
  <2>1. due = {} /\ \A h \in Handlers : ~Busy(h)
    BY <1>1 DEF Settled
  <2>2. \A s \in Subs \ overtaken : stripe[s] \in Terminal => row[s].status \in Terminal
    BY <1>1, <2>1 DEF BillingInv, EndInv, Over
  <2>3. ASSUME overtaken = {}, \A s \in Subs : stripe[s] \in Terminal \cup {"none"} PROVE ~entitled
    BY <1>1, <2>1, <2>3 DEF BillingInv, CarryInv, Carries
  <2> QED BY <2>2, <2>3 DEF EndedThereIsEndedHere
<1>2. BillingInv => EndedThereIsEndedHere
  BY <1>1 DEF EndedThereIsEndedHere
<1> QED BY <1>2, BillingInvariant, PTL

\* Once every event has been handled, at most one subscription of a customer is
\* billed, unless Stripe refused a cancel or a report of the same second took the
\* row of one back to incomplete.
THEOREM OneIsBilled == Spec => []BilledOnce
<1>1. ASSUME BillingInv, Settled, rejected = {}, reverted = {}
      PROVE  Cardinality({s \in Subs : stripe[s] \in Blocking}) <= 1
  <2> DEFINE S == {s \in Subs : stripe[s] \in Blocking}
  <2>1. due = {}
    BY <1>1 DEF Settled
  <2>2. \A s \in S : row[s].status \in Blocking
    BY <1>1, <2>1 DEF BillingInv, BilledInv
  <2>3. \A s, t \in S : s = t
    BY <1>1, <2>2 DEF BillingInv, UniqueInv, Unique
  <2>4. IsFiniteSet(S)
    BY BillingAssumption, FS_Subset
  <2>5. ~(Cardinality(S) > 1) /\ Cardinality(S) \in Nat
    BY <2>3, <2>4, MoreThanOne, FS_CardinalityType
  <2> QED BY <2>5
<1>2. BillingInv => BilledOnce
  BY <1>1 DEF BilledOnce
<1> QED BY <1>2, BillingInvariant, PTL

=============================================================================
