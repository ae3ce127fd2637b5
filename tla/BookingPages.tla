---------------------------- MODULE BookingPages ----------------------------
(***************************************************************************)
(* One customer's way from the seat map to a paid order: SeatMapPage, then *)
(* /checkout/novo, /checkout/:id and /checkout/:id/retorno                 *)
(* (features/checkout).  The server keeps the orders; Checkout is the      *)
(* model of how it serves them, here each request is one step.             *)
(***************************************************************************)
EXTENDS SeatMapPage

CONSTANTS MaxOrders,    \* bound on the orders created
          MaxVisits,    \* bound on the visits to /checkout/novo; after them the
                        \* customer does no more on the seat map
          MaxReloads    \* bound on the reloads of the checkout pages

ASSUME BookingAssumption == /\ MaxSeats \in Nat \ {0} /\ MaxChanges \in Nat /\ MaxDrops \in Nat
                            /\ MaxFeed \in Nat \ {0}
                            /\ MaxOrders \in Nat /\ MaxVisits \in Nat /\ MaxReloads \in Nat
                            /\ Faults \in BOOLEAN

VARIABLES orders,   \* the customer's orders: status, seats, idempotency key, method
          visits,   \* how often /checkout/novo was mounted
          key,      \* its idempotency key
          reloads,
          nav,      \* location.state: the seats whose holds were handed over
          create,   \* the createOrder query of /checkout/novo
          current,  \* the :orderId of the route
          seen,     \* the cached status of that order; "none" before it is read
          secret,   \* createdResult.clientSecret is at hand
          pay,      \* the simulated payment being submitted, and its outcome
          sent,     \* Stripe's events on their way: an order, and what becomes of it
          deciding, \* payments whose handler has found the order PENDING
          rewritten,\* orders whose outcome another payment has overwritten
          polls,    \* CheckoutReturnPage's pollCount
          retry     \* retryWithNewOrder, and how it ended

loads == <<visits, key, reloads>>
payments == <<sent, deciding, rewritten>>
checkout == <<orders, loads, nav, create, current, seen, secret, pay, polls, retry, payments>>
seatsPage == <<seatServer, channel, view, picks>>
bookingVars == <<seatsPage, page, checkout>>
route == <<page, current>>

\* FULFILLED, which the return page shows as PAID, is written by no code; an order
\* is REFUNDED from the pages of its tickets, not from these.
Final == {"PAID", "EXPIRED", "FAILED"}
Outcomes == {"PAID", "FAILED"}    \* of a payment
OrderStatuses == Final \cup {"PENDING"}
POLLS == 3    \* MAX_POLLS
Order == orders[current]
NoCreate == [at |-> "off", fails |-> 0]

\* orders.service.createOrder as the pages see it
HoldIds(S) == {<<"hold", s>> : s \in S}   \* a hold's id is not its seat's
HoldsFound(ids) == ids # {} /\ ids \subseteq HoldIds(ActiveMine)
Replayed(i) == {k \in DOMAIN orders : orders[k].key = i}

\* Mutant of NewOrder: the holds are not linked to it
NewOrder_NoSeats(S, i, how) == [status |-> "PENDING", seats |-> {}, key |-> i, how |-> how]

\* the row of an order, with the seats of its holds
NewOrder(S, i, how) == [status |-> "PENDING", seats |-> S, key |-> i, how |-> how]

-----------------------------------------------------------------------------
(* /checkout/novo *)

\* handleProceed, with the holds in location.state; the seat page is unmounted.
\* (Bound: a map the customer does not come back to is not kept.)
Proceed ==
    /\ Rendered /\ offered # {} /\ visits < MaxVisits
    /\ page' = "new" /\ nav' = offered
    /\ visits' = visits + 1 /\ key' = key + 1 /\ create' = NoCreate
    /\ Unmounts
    /\ IF visits' < MaxVisits THEN UNCHANGED view ELSE Empty /\ fetch' = NoFetch
    /\ UNCHANGED <<seatServer, drops,
                   orders, reloads, current, seen, secret, pay, polls, retry, payments>>

\* Mutant of AttemptKey: the key is made again for every attempt
AttemptKey_Fresh == key + 1

\* useIdempotencyKey: one key for as long as the page is mounted
AttemptKey == key

\* methodConfirmed, or the retry of ErrorState: the query runs
CreateAsks(how) ==
    /\ page = "new" /\ create.at \in {"off", "error"} /\ Len(orders) < MaxOrders
    /\ create.at = "error" => how = create.how
    /\ create' = [at |-> "asked", fails |-> 0, how |-> how]
    /\ key' = AttemptKey
    /\ UNCHANGED <<seatsPage, route, orders, visits, reloads, nav, seen, secret, pay, polls, retry, payments>>

\* the holds are looked for before the key: a replay needs them active too
CreateServed ==
    /\ create.at = "asked"
    /\ \/ ~HoldsFound(HoldIds(nav)) /\ create' = [create EXCEPT !.at = "expired"] /\ UNCHANGED orders
       \/ /\ HoldsFound(HoldIds(nav))
          /\ orders' = IF Replayed(key) # {} THEN orders
                       ELSE Append(orders, NewOrder(nav, key, create.how))
          /\ create' = [create EXCEPT !.at = "created"]
    /\ UNCHANGED <<seatsPage, route, loads, nav, seen, secret, pay, polls, retry, payments>>

\* the seat page mounts again
ToMap == page' = "seats" /\ Mounts /\ UNCHANGED <<seatServer, channel, picks>>

\* the answer leads to the order, or back to the map
CreateAnswered ==
    \/ /\ create.at = "created"
       /\ page' = "order" /\ current' = CHOOSE k \in Replayed(key) : TRUE
       /\ secret' = TRUE /\ seen' = "none" /\ create' = NoCreate /\ nav' = {}
       /\ UNCHANGED <<seatsPage, orders, loads, pay, polls, retry, payments>>
    \/ /\ create.at = "expired"
       /\ ToMap /\ create' = NoCreate /\ nav' = {}
       /\ UNCHANGED <<current, orders, loads, seen, secret, pay, polls, retry, payments>>

\* shouldRetry: once, with the same key; then ErrorState
CreateLost ==
    /\ Faults /\ create.at \in {"asked", "created", "expired"}
    /\ create' = IF create.fails = 0 THEN [create EXCEPT !.at = "asked", !.fails = 1]
                                     ELSE [create EXCEPT !.at = "error"]
    /\ UNCHANGED <<seatsPage, route, orders, loads, nav, seen, secret, pay, polls, retry, payments>>

\* a reload keeps location.state and makes a new key
ReloadNew ==
    /\ page = "new" /\ create.at \in {"off", "error"}
    /\ reloads < MaxReloads /\ reloads' = reloads + 1
    /\ visits' = visits + 1 /\ key' = key + 1 /\ create' = NoCreate
    /\ UNCHANGED <<seatsPage, route, orders, nav, seen, secret, pay, polls, retry, payments>>

-----------------------------------------------------------------------------
(* The order on the server. *)

SetStatus(k, to) == orders' = [orders EXCEPT ![k].status = to]

\* confirmPayment and failPayment, which find the order PENDING or do nothing
Decides(k, to) == IF orders[k].status = "PENDING" THEN deciding \cup {<<k, to>>} ELSE deciding

\* ... and write later, whatever the order has become by then
Settles(k, to) ==
    /\ SetStatus(k, to)
    /\ rewritten' = IF orders[k].status \in {"PENDING", to} THEN rewritten ELSE rewritten \cup {k}

\* the transaction of confirmPayment, unless somebody has bought one of the seats
Confirms(k) ==
    /\ \A s \in orders[k].seats : db[s] # "SOLD"
    /\ Settles(k, "PAID")
    /\ Write(orders[k].seats, "SOLD") /\ mine' = mine \cup orders[k].seats

\* the update of failPayment
Declines(k) == Settles(k, "FAILED") /\ UNCHANGED <<db, feed, fetch, mine>>

\* ticket_seat_unique refuses a seat that has its ticket
RollsBack(k) == /\ \E s \in orders[k].seats : db[s] = "SOLD"
                /\ UNCHANGED <<orders, rewritten, db, feed, fetch, mine>>

\* what the page waits for is answered
PayEnds(k, to, at) == pay' = IF pay = [at |-> "read", to |-> to] /\ k = current
                             THEN [pay EXCEPT !.at = at] ELSE pay

\* Stripe's webhook reads the order of an event ...
Webhook(k, to) ==
    /\ <<k, to>> \in sent /\ sent' = sent \ {<<k, to>>}
    /\ deciding' = Decides(k, to)
    /\ UNCHANGED <<seatsPage, route, orders, loads, nav, create, seen, secret, pay, polls, retry, rewritten>>

\* ... and it, or simulatePayment, writes the outcome
PaymentCommits(k, to) ==
    /\ <<k, to>> \in deciding /\ deciding' = deciding \ {<<k, to>>}
    /\ \/ to = "PAID" /\ Confirms(k) /\ PayEnds(k, to, "done")
       \/ to = "PAID" /\ RollsBack(k) /\ PayEnds(k, to, "error")
       \/ to = "FAILED" /\ Declines(k) /\ PayEnds(k, to, "done")
    /\ UNCHANGED <<changes, conn, drops, wasDown, cached, picks, route, loads, nav, create, seen, secret,
                   polls, retry, sent>>

\* expire-orders
OrderExpires(k) ==
    /\ orders[k].status = "PENDING" /\ SetStatus(k, "EXPIRED")
    /\ UNCHANGED <<seatsPage, route, loads, nav, create, seen, secret, pay, polls, retry, payments>>

-----------------------------------------------------------------------------
(* /checkout/:id *)

NoPay == [at |-> "none", to |-> "PAID"]
GoReturn == page' = "return" /\ polls' = 0

\* getOrder; an order that is not PENDING is shown on the return page
OrderRead ==
    /\ page = "order" /\ seen = "none"
    /\ seen' = Order.status
    /\ IF Order.status = "PENDING" THEN UNCHANGED <<page, polls>> ELSE GoReturn
    /\ UNCHANGED <<seatsPage, orders, loads, nav, create, current, secret, pay, retry, payments>>

\* the page is loaded again: the query cache and the client secret are gone
ReloadOrder ==
    /\ reloads < MaxReloads /\ reloads' = reloads + 1
    /\ page \in {"order", "return"} /\ pay.at = "none" /\ retry.at # "asked" /\ seen # "none"
    /\ secret' = FALSE /\ seen' = "none" /\ polls' = 0
    /\ UNCHANGED <<seatsPage, route, orders, visits, key, nav, create, pay, retry, payments>>

\* "Simular pagamento": approved or declined; simulatePayment answers once the
\* order has changed
Pay(to) ==
    /\ page = "order" /\ seen = "PENDING" /\ Order.how = "FAKE" /\ pay.at = "none"
    /\ pay' = [at |-> "asked", to |-> to]
    /\ UNCHANGED <<seatsPage, route, orders, loads, nav, create, seen, secret, polls, retry, payments>>

PayServed ==
    /\ pay.at = "asked"
    /\ deciding' = Decides(current, pay.to)
    /\ pay' = [pay EXCEPT !.at = IF Order.status = "PENDING" THEN "read" ELSE "error"]
    /\ UNCHANGED <<seatsPage, route, orders, loads, nav, create, seen, secret, polls, retry, sent, rewritten>>

\* onSuccess goes to the return page; an error, or a lost answer, stays here
PayAnswered ==
    /\ \/ pay.at = "done" /\ GoReturn
       \/ (pay.at = "error" \/ (Faults /\ pay.at # "none")) /\ UNCHANGED <<page, polls>>
    /\ pay' = NoPay
    /\ UNCHANGED <<seatsPage, orders, loads, nav, create, current, seen, secret, retry, payments>>

\* Mutant of SeenAfterCard: a card that is taken is shown as a paid order
SeenAfterCard_Optimistic == "PAID"

\* the return page trusts the order, not the card
SeenAfterCard == seen

\* StripeCardForm, there only with the client secret: the card is taken, or
\* refused and the form stays; in both cases Stripe sends an event.  The form
\* may also stay when the answer to a card that was taken is lost.
StripePays(to) ==
    /\ page = "order" /\ seen = "PENDING" /\ Order.how = "STRIPE" /\ secret
    /\ sent' = sent \cup {<<current, to>>}
    /\ \/ to = "PAID" /\ GoReturn /\ seen' = SeenAfterCard
       \/ (to = "FAILED" \/ Faults) /\ UNCHANGED <<page, polls, seen>>
    /\ UNCHANGED <<seatsPage, orders, loads, nav, create, current, secret, pay, retry, deciding, rewritten>>

-----------------------------------------------------------------------------
(* /checkout/:id/retorno *)

\* Mutant of PollCount: the count does not advance
PollCount_Stuck == polls

\* setPollCount
PollCount == polls + 1

\* a poll a second, three of them; the interval does not wait for the answer
Polls ==
    /\ page = "return" /\ seen = "PENDING" /\ polls < POLLS
    /\ polls' = PollCount /\ seen' \in {seen, Order.status}
    /\ UNCHANGED <<seatsPage, route, orders, loads, nav, create, secret, pay, retry, payments>>

ReturnRead ==
    /\ page = "return" /\ seen = "none" /\ seen' = Order.status
    /\ UNCHANGED <<seatsPage, route, orders, loads, nav, create, secret, pay, polls, retry, payments>>

\* "Verificar novamente"
CheckAgain ==
    /\ page = "return" /\ seen = "PENDING" /\ polls = POLLS
    /\ polls' = 0
    /\ UNCHANGED <<seatsPage, route, orders, loads, nav, create, seen, secret, pay, retry, payments>>

\* canRetry: an order declined, with a hold still active
CanRetry == seen = "FAILED" /\ Order.seats \cap ActiveMine # {}

\* "Tentar outro cartao": the ids sent as holdIds are those of the seats whose
\* holds are active
RetryAsks ==
    /\ page = "return" /\ CanRetry /\ retry.at # "asked"
    /\ retry' = [at |-> "asked", ids |-> Order.seats \cap ActiveMine, lapsed |-> FALSE]
    /\ UNCHANGED <<seatsPage, route, orders, loads, nav, create, seen, secret, pay, polls, payments>>

\* no hold has the id of a seat: HOLD_EXPIRED, and the page goes to the map
RetryServed ==
    /\ retry.at = "asked" /\ ~HoldsFound(retry.ids)
    /\ ToMap
    /\ retry' = [at |-> "refused", ids |-> {}, lapsed |-> ~HoldsFound(HoldIds(retry.ids))]
    /\ UNCHANGED <<orders, loads, nav, create, current, seen, secret, pay, polls, payments>>

\* the links back to the map: EXPIRED, a declined order without holds, or
\* "Nao foi possivel retomar o pagamento Stripe"
BackToMap ==
    /\ \/ page = "return" /\ seen \in {"FAILED", "EXPIRED"} /\ ~CanRetry
       \/ page = "order" /\ seen = "PENDING" /\ Order.how = "STRIPE" /\ ~secret
    /\ pay.at = "none" /\ retry.at # "asked"
    /\ ToMap /\ seen' = "none" /\ secret' = FALSE /\ polls' = 0
    /\ UNCHANGED <<orders, loads, nav, create, current, pay, retry, payments>>

-----------------------------------------------------------------------------
Init ==
    /\ SeatsInit
    /\ orders = <<>> /\ visits = 0 /\ key = 0 /\ reloads = 0 /\ nav = {} /\ create = NoCreate
    /\ current = 0 /\ seen = "none" /\ secret = FALSE /\ pay = NoPay /\ polls = 0
    /\ sent = {} /\ deciding = {} /\ rewritten = {}
    /\ retry = [at |-> "none", ids |-> {}, lapsed |-> FALSE]

CheckoutNext ==
    \/ Proceed \/ CreateServed \/ CreateAnswered \/ CreateLost \/ ReloadNew
    \/ \E how \in {"FAKE", "STRIPE"} : CreateAsks(how)
    \/ \E k \in DOMAIN orders : OrderExpires(k) \/ \E to \in Outcomes : Webhook(k, to) \/ PaymentCommits(k, to)
    \/ OrderRead \/ ReloadOrder \/ PayServed \/ PayAnswered
    \/ \E to \in Outcomes : Pay(to) \/ StripePays(to)
    \/ Polls \/ ReturnRead \/ CheckAgain \/ RetryAsks \/ RetryServed \/ BackToMap

Next == \/ SeatsNext /\ (page = "seats" => visits < MaxVisits) /\ UNCHANGED checkout
        \/ CheckoutNext

\* the browser's timers fire and the server answers
Spec == /\ Init /\ [][Next]_bookingVars
        /\ WF_bookingVars(Polls) /\ WF_bookingVars(ReturnRead)

-----------------------------------------------------------------------------
(* Properties. *)

BookingTypeOK ==
    /\ SeatsTypeOK
    /\ \A k \in DOMAIN orders : /\ orders[k].status \in OrderStatuses
                               /\ orders[k].seats \in (SUBSET Seats) \ {{}}
    /\ visits \in 0 .. MaxVisits + MaxReloads /\ reloads \in 0 .. MaxReloads /\ polls \in 0 .. POLLS
    /\ nav \subseteq Seats /\ current \in 0 .. Len(orders) /\ secret \in BOOLEAN
    /\ create.at \in {"off", "asked", "created", "expired", "error"}
    /\ seen \in OrderStatuses \cup {"none"}
    /\ pay.at \in {"none", "asked", "read", "done", "error"} /\ pay.to \in Outcomes
    /\ sent \cup deciding \subseteq (DOMAIN orders) \X Outcomes /\ rewritten \subseteq DOMAIN orders
    /\ retry.at \in {"none", "asked", "refused"}

\* A customer on the seat map who holds seats is offered to pay for them: while
\* the page stays it forgets a hold only when that lapses, and no answer, timer
\* or patch takes it away.  The hold lives in the page's memory and nothing
\* finds it again, so it strays when its answer is lost, or comes for a page
\* that no longer waits, when the page is reloaded or left, and on the way back
\* from the checkout (SeatSelectionPage.tsx:26, 94-127, HoldTimer.tsx:24-35).
MyHoldIsOffered ==
    page = "seats" /\ ask.at = "none" => ActiveMine \subseteq offered \cup strayed

\* One visit to /checkout/novo makes at most one order, however often the
\* request is lost, repeated by the query or by the customer
\* (useIdempotencyKey.ts:3, CheckoutPage.tsx:44, orders.service.ts:76-84).
OneOrderPerVisit == Len(orders) <= visits

\* What the checkout pages say of an order once it is settled is true of that
\* order, whatever order was shown before it, and an approved one has its seats.
\* The page does not ask again, so the one exception is an order whose outcome
\* was overwritten by a payment that had found it PENDING (CheckoutReturnPage.tsx:21-30, 86-146, orders.service.ts:115-159).
OutcomeShownIsTrue ==
    page \in {"order", "return"} /\ seen \in Final =>
        /\ Order.status = seen \/ current \in rewritten
        /\ seen = "PAID" => \A s \in Order.seats : db[s] = "SOLD" /\ s \in mine

\* The return page does not stay at "Confirmando seu pagamento": it shows an
\* outcome, or after three polls offers to check again
\* (CheckoutReturnPage.tsx:32-41, 148-166).
Confirming == page = "return" /\ (seen = "none" \/ (seen = "PENDING" /\ polls < POLLS))
ConfirmingEnds == Confirming ~> ~Confirming

\* "Tentar outro cartao" keeps the seats: it is not answered HOLD_EXPIRED while
\* the holds of the declined order are active
\* (CheckoutReturnPage.tsx:55-58, RetryPayment.test.tsx:63).
RetryKeepsSeats == retry.at = "refused" => retry.lapsed
=============================================================================
