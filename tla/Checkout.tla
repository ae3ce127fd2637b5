------------------------------ MODULE Checkout ------------------------------
(***************************************************************************)
(* Orders and their payment: OrdersService, the Stripe webhook handler and *)
(* the pg_cron job that expires orders, over the seat tables of SeatStore. *)
(*                                                                         *)
(* A handler's reads before its transaction are steps of their own; the    *)
(* transaction is one step.  An order is named by its idempotency key,     *)
(* which is also the name of its payment intent (createIntent returns the  *)
(* same intent for the same key).  A hold handler's steps (SeatHolds) are  *)
(* kept here only as the transactions it commits.                          *)
(***************************************************************************)
EXTENDS SeatStore

CONSTANTS
    Orders,    \* idempotency keys
    Buyer,     \* Buyer[k]: the customer whose browser made key k
    NoOrder,   \* SeatHold.orderId is null
    OrderTTL,  \* ORDER_TTL_MS, in clock units
    Method,    \* Method[k]: the PaymentMethod chosen for order k
    Workers,   \* request handlers running at the same time
    CronRuns,  \* TRUE where pg_cron is available
    Crashes,   \* TRUE: a handler may stop half-way
    Declines   \* TRUE: a card may be declined before one is accepted

ASSUME CheckoutAssumption ==
    /\ Buyer \in [Orders -> Users]
    /\ NoOrder \notin Orders
    /\ OrderTTL \in Nat
    /\ Method \in [Orders -> {"STRIPE", "FAKE"}]
    /\ CronRuns \in BOOLEAN /\ Crashes \in BOOLEAN /\ Declines \in BOOLEAN

VARIABLES
    order,     \* Order rows
    orderOf,   \* SeatHold.orderId, by hold id
    ticket,    \* Ticket rows of each seat, in the order they were created
    charged,   \* orders whose payment intent has succeeded at Stripe
    sent,      \* webhook events Stripe has made
    recorded,  \* ProcessedWebhookEvent rows
    acked,     \* events answered with 200: Stripe delivers the others again
    job        \* job[p]: where handler p is and what it has read

payVars == <<charged, sent, recorded, acked>>
checkoutVars == <<storeVars, order, orderOf, ticket, payVars, job>>

HoldIds == Seats \X (1 .. MaxHolds)

OrderStatus == {"PENDING", "PAID", "FAILED", "EXPIRED", "REFUNDED"}

\* ORDER_TRANSITIONS, without FULFILLED, which no code writes.
ORDER_TRANSITIONS ==
    [PENDING |-> {"PAID", "FAILED", "EXPIRED"}, PAID |-> {"REFUNDED"},
     FAILED |-> {}, EXPIRED |-> {}, REFUNDED |-> {}]

Created(k) == order[k].status # "NONE"

OrderRow == [status : OrderStatus \cup {"NONE"}, expiresAt : Nat]

TicketRow == [order : Orders, status : {"ACTIVE", "USED", "CANCELLED"}, used : BOOLEAN]

\* An event is the order it is about and the status it asks for.
WebhookEvents == Orders \X {"PAID", "FAILED"}

\* pc "read": confirmPayment or failPayment is about to read its order.
Job == [pc : {"idle", "create", "read", "holds", "issue", "fail"},
        order : Orders \cup {NoOrder}, to : {"PAID", "FAILED"},
        holds : SUBSET HoldIds]

CheckoutTypeOK ==
    /\ StoreTypeOK
    /\ order \in [Orders -> OrderRow]
    /\ orderOf \in [HoldIds -> Orders \cup {NoOrder}]
    /\ ticket \in [Seats -> Seq(TicketRow)]
    /\ charged \subseteq Orders
    /\ sent \subseteq WebhookEvents
    /\ recorded \subseteq sent
    /\ acked \subseteq recorded
    /\ job \in [Workers -> Job]
    /\ \A p \in Workers : job[p].pc # "idle" => job[p].order \in Orders

NewJob(pc, k, to, H) == [pc |-> pc, order |-> k, to |-> to, holds |-> H]

IdleJob == NewJob("idle", NoOrder, "PAID", {})

Idle(p) == job[p].pc = "idle"

Continue(p, pc, H) == job' = [job EXCEPT ![p] = NewJob(pc, @.order, @.to, H)]

Finish(p) == job' = [job EXCEPT ![p] = IdleJob]

\* Mutant of FinishAndAck: deduplicates by payment intent, not by event.
FinishAndAck_WholeOrder(p) ==
    /\ Finish(p)
    /\ acked' = acked \cup ({job[p].order} \X {"PAID", "FAILED"})
    /\ UNCHANGED <<charged, sent, recorded>>

\* The webhook answers 200; a simulated payment has nothing to acknowledge.
FinishAndAck(p) ==
    /\ Finish(p)
    /\ acked' = acked \cup ({<<job[p].order, job[p].to>>} \cap sent)
    /\ UNCHANGED <<charged, sent, recorded>>

\* The handler answers with an error: 500 to Stripe.
FinishWithError(p) == Finish(p) /\ UNCHANGED payVars

SetStatus(k, status) == order' = [order EXCEPT ![k].status = status]

-----------------------------------------------------------------------------
(* OrdersService.createOrder                                                *)

OwnedActive(u) ==
    {h \in HoldIds : h[2] \in Active(h[1]) /\ hold[h[1]][h[2]].user = u}

\* findManyOwnedActive finds every hold of the request.  What createIntent
\* does is a function of the key.
CreateRequest(p, k, H) ==
    /\ Idle(p)
    /\ H # {} /\ H \subseteq OwnedActive(Buyer[k])
    /\ job' = [job EXCEPT ![p] = NewJob("create", k, "PAID", H)]
    /\ UNCHANGED <<storeVars, order, orderOf, ticket, payVars>>

\* The transaction; on the unique index of the key it rolls back and the
\* existing order is answered.  linkToOrder moves holds that another order
\* has already linked, and does not look whether they are still active.
CreateCommits(p) ==
    LET k == job[p].order
        H == job[p].holds
    IN  /\ job[p].pc = "create"
        /\ Finish(p)
        /\ IF Created(k)
           THEN UNCHANGED <<order, orderOf>>
           ELSE /\ order' = [order EXCEPT ![k] =
                                [status |-> "PENDING", expiresAt |-> clock + OrderTTL]]
                /\ orderOf' = [h \in HoldIds |-> IF h \in H THEN k ELSE orderOf[h]]
        /\ UNCHANGED <<storeVars, ticket, payVars>>

-----------------------------------------------------------------------------
(* The card form and Stripe, and the simulated payment.                     *)

\* The customer has the order's client secret, whatever became of the order.
CardAccepted(k) ==
    /\ Method[k] = "STRIPE"
    /\ Created(k) /\ k \notin charged
    /\ charged' = charged \cup {k}
    /\ sent' = sent \cup {<<k, "PAID">>}
    /\ UNCHANGED <<storeVars, order, orderOf, ticket, recorded, acked, job>>

\* payment_intent.payment_failed: the intent stays open for another card.
\* (Bound: one such event per order.)
CardDeclined(k) ==
    /\ Method[k] = "STRIPE" /\ Declines
    /\ Created(k) /\ k \notin charged /\ <<k, "FAILED">> \notin sent
    /\ sent' = sent \cup {<<k, "FAILED">>}
    /\ UNCHANGED <<storeVars, order, orderOf, ticket, charged, recorded, acked, job>>

\* simulatePayment, by the buyer, as often as they like.
Simulate(p, k, to) ==
    /\ Method[k] = "FAKE"
    /\ Idle(p) /\ Created(k)
    /\ job' = [job EXCEPT ![p] = NewJob("read", k, to, {})]
    /\ UNCHANGED <<storeVars, order, orderOf, ticket, payVars>>

\* Mutant of IsNew: the event is looked up but not recorded uniquely.
IsNew_Always(e) == TRUE

\* recordWebhookEvent
IsNew(e) == e \notin recorded

\* Mutant of Target: payment_failed is handled like payment_succeeded.
Target_AlwaysPaid(e) == "PAID"

\* confirmPayment for payment_intent.succeeded, failPayment for the others.
Target(e) == e[2]

\* Mutant of AckDuplicate: a duplicate is answered with an error.
AckDuplicate_Error(e) == UNCHANGED acked

AckDuplicate(e) == acked' = acked \cup {e}

\* Stripe delivers an event it has no 200 for, once or several times, and
\* the handler records it before anything else.  A duplicate is acknowledged.
Deliver(p, e) ==
    /\ Idle(p)
    /\ e \in sent \ acked
    /\ IF IsNew(e)
       THEN /\ recorded' = recorded \cup {e}
            /\ job' = [job EXCEPT ![p] = NewJob("read", e[1], Target(e), {})]
            /\ UNCHANGED acked
       ELSE /\ AckDuplicate(e)
            /\ UNCHANGED <<recorded, job>>
    /\ UNCHANGED <<storeVars, order, orderOf, ticket, charged, sent>>

-----------------------------------------------------------------------------
(* confirmPayment and failPayment                                           *)

\* findById and assertTransition.  An order in another state is a no-op,
\* which the webhook acknowledges.
ReadOrder(p) ==
    LET to == job[p].to
    IN  /\ job[p].pc = "read"
        /\ IF to \in ORDER_TRANSITIONS[order[job[p].order].status]
           THEN /\ Continue(p, IF to = "PAID" THEN "holds" ELSE "fail", {})
                /\ UNCHANGED payVars
           ELSE FinishAndAck(p)
        /\ UNCHANGED <<storeVars, order, orderOf, ticket>>

\* Mutant of MayIssue: an order without holds is confirmed like any other.
MayIssue_Empty(H) == TRUE

MayIssue(H) == H # {}

\* findByOrderId, with no condition on the holds.
LinkedHolds(k) == {h \in HoldIds : orderOf[h] = k}

\* "Order sem holds vinculados" is an error.
FindHolds(p) ==
    LET H == LinkedHolds(job[p].order)
    IN  /\ job[p].pc = "holds"
        /\ IF MayIssue(H) THEN Continue(p, "issue", H) /\ UNCHANGED payVars
                          ELSE FinishWithError(p)
        /\ UNCHANGED <<storeVars, order, orderOf, ticket>>

\* Mutant of TicketIndexAdmits: the index without its uniqueness.
TicketIndexAdmits_Dropped(S) == TRUE

\* ticket_seat_unique: one ticket per seat with status ACTIVE.
TicketIndexAdmits(S) ==
    \A s \in S : \A j \in DOMAIN ticket[s] : ticket[s][j].status # "ACTIVE"

\* ticketRepo.create, one per seat of S.
Issue(k, S) ==
    ticket' = [s \in Seats |->
                 IF s \in S
                 THEN Append(ticket[s], [order |-> k, status |-> "ACTIVE", used |-> FALSE])
                 ELSE ticket[s]]

\* The transaction: PAID whatever the status is by now, the tickets, the
\* holds consumed and the seats SOLD.
IssueTickets(p) ==
    LET k == job[p].order
        H == job[p].holds
        S == {h[1] : h \in H}
    IN  /\ job[p].pc = "issue"   \* (the holds are of distinct seats)
        /\ TicketIndexAdmits(S)
        /\ SetStatus(k, "PAID")
        /\ Issue(k, S)
        /\ ConsumeHolds(H)
        /\ FinishAndAck(p)
        /\ UNCHANGED orderOf

\* A seat already has an ACTIVE ticket: the transaction rolls back.
IssueConflicts(p) ==
    /\ job[p].pc = "issue"
    /\ ~TicketIndexAdmits({h[1] : h \in job[p].holds})
    /\ FinishWithError(p)
    /\ UNCHANGED <<storeVars, order, orderOf, ticket>>

\* The update of failPayment, whatever the status is by now.
FailCommits(p) ==
    /\ job[p].pc = "fail"
    /\ SetStatus(job[p].order, "FAILED")
    /\ FinishAndAck(p)
    /\ UNCHANGED <<storeVars, orderOf, ticket>>

-----------------------------------------------------------------------------
(* pg_cron, crashes, and the hold component.                                *)

\* The pg_cron job expire-orders.
CronExpireOrders ==
    LET late == {k \in Orders : order[k].status = "PENDING" /\ order[k].expiresAt < clock}
    IN  /\ CronRuns
        /\ late # {}
        /\ order' = [k \in Orders |->
                        IF k \in late THEN [order[k] EXCEPT !.status = "EXPIRED"]
                                      ELSE order[k]]
        /\ UNCHANGED <<storeVars, orderOf, ticket, payVars, job>>

\* The process stops, or Postgres fails the transaction.
JobDies(p) ==
    /\ Crashes
    /\ ~Idle(p)
    /\ FinishWithError(p)
    /\ UNCHANGED <<storeVars, order, orderOf, ticket>>

\* The transactions of SeatHolds and the clock.
HoldTransaction ==
    \/ \E u \in Users, S \in (SUBSET Seats) \ {{}} : CreateHolds(u, S)
    \/ \E s \in Seats :
          /\ \E i \in DOMAIN hold[s] : LapsedAt(hold[s][i], clock)
          /\ LazyRelease({s})
    \/ \E s \in Seats : \E i \in DOMAIN hold[s] : ReleaseHold(s, i)
    \/ CronRuns /\ CronExpireHolds
    \/ Tick

Holding == HoldTransaction /\ UNCHANGED <<order, orderOf, ticket, payVars, job>>

-----------------------------------------------------------------------------

Init ==
    /\ StoreInit
    /\ order = [k \in Orders |-> [status |-> "NONE", expiresAt |-> 0]]
    /\ orderOf = [h \in HoldIds |-> NoOrder]
    /\ ticket = [s \in Seats |-> << >>]
    /\ charged = {} /\ sent = {} /\ recorded = {} /\ acked = {}
    /\ job = [p \in Workers |-> IdleJob]

Process(p) ==
    \/ CreateCommits(p)
    \/ ReadOrder(p)
    \/ FindHolds(p)
    \/ IssueTickets(p)
    \/ IssueConflicts(p)
    \/ FailCommits(p)

Next ==
    \/ \E p \in Workers, k \in Orders :
          \/ \E H \in SUBSET OwnedActive(Buyer[k]) : CreateRequest(p, k, H)
          \/ \E to \in {"PAID", "FAILED"} : Simulate(p, k, to) \/ Deliver(p, <<k, to>>)
    \/ \E k \in Orders : CardAccepted(k) \/ CardDeclined(k)
    \/ \E p \in Workers : Process(p) \/ JobDies(p)
    \/ CronExpireOrders
    \/ Holding

Spec == Init /\ [][Next]_checkoutVars

\* Handlers go on and Stripe delivers until it is answered 200.
FairSpec ==
    /\ Spec
    /\ \A p \in Workers : WF_checkoutVars(Process(p))
    /\ \A e \in WebhookEvents : SF_checkoutVars(\E p \in Workers : Deliver(p, e))

-----------------------------------------------------------------------------
(* Properties that hold.                                                    *)

\* Two confirmations of different orders never leave a seat with two ACTIVE
\* tickets, whatever their holds were when they read them.
OneActiveTicket ==
    \A s \in Seats : \A i, j \in DOMAIN ticket[s] :
        ticket[s][i].status = "ACTIVE" /\ ticket[s][j].status = "ACTIVE" => i = j

\* Every ticket goes back to a hold its buyer had on that seat, and that hold
\* is released for good: nothing a cron job, a release or a later order does
\* between the reads and the transaction takes it away.  (schema.prisma asks
\* it of ACTIVE tickets.)
TicketComesFromHold ==
    \A s \in Seats : \A j \in DOMAIN ticket[s] :
        \E i \in DOMAIN hold[s] :
            hold[s][i].released /\ hold[s][i].user = Buyer[ticket[s][j].order]

\* No order is PAID without a ticket, even when another order takes its
\* holds over while it is being confirmed.
PaidOrderHasTicket ==
    \A k \in Orders : order[k].status \in {"PAID", "REFUNDED"} =>
        \E s \in Seats : \E j \in DOMAIN ticket[s] : ticket[s][j].order = k

\* With Stripe a ticket exists only for an order that was really charged.
IssuedOnlyAfterCharge ==
    \A s \in Seats : \A j \in DOMAIN ticket[s] :
        Method[ticket[s][j].order] = "STRIPE" => ticket[s][j].order \in charged

\* The seat map never shows as SOLD a seat no ticket in force is for.
SoldSeatHasTicket ==
    \A s \in Seats : seatState[s].status = "SOLD" =>
        \E j \in DOMAIN ticket[s] : ticket[s][j].status # "CANCELLED"

\* Whatever becomes of the handlers, Stripe's retries end: every event is
\* answered with 200.
WebhookSettles == \A e \in WebhookEvents : e \in sent ~> e \in acked

-----------------------------------------------------------------------------
(* What the documentation says and the code does not do.                    *)

\* A customer whose card was charged gets the order's tickets.
ChargedIsServed == \A k \in Orders : k \in charged ~> order[k].status = "PAID"
=============================================================================
