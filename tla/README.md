# A TLA+ model of the seat booking platform

The platform sells numbered seats for screenings: an organizer publishes an event, customers hold seats
for ten minutes, pay through Stripe (or a simulated provider), receive one ticket per seat, and are let in
at the gate or cancel before the session. Express handlers run concurrently over one PostgreSQL database
(READ COMMITTED); `pg_cron` jobs run inside it; Stripe calls a webhook; browsers follow the seat map over a
realtime channel. The hard part is all in what these do to the same few rows, in any order. That is what is
modelled here, with the browsers' side of it: pages that act on what they read a moment ago.

## 1. Inventory

Paths are under `src/backend/src/modules/` unless they say otherwise.

| Component | State | Operations | What makes it correct |
|---|---|---|---|
| Seat tables (`seats/*.repository.ts`, `prisma/migrations/*`) | `SeatHold` rows, `seat_state` rows, partial unique index `seat_hold_active` | insert holds, lazy release, release, consume, cron expiry, mark HELD / FREE / SOLD | one unreleased hold per seat; the deadlines of the two tables agree |
| Seat holds (`seats/seat-hold.service.ts`) | requests in progress | `hold` (count, attempt, lazy release, retry), `release` | SEAT_TAKEN is justified; only the owner ends an active hold; the limit per customer; an abandoned seat comes back |
| Orders and payment (`orders/orders.service.ts`) | `Order`, `SeatHold.orderId`, `Ticket` rows, requests in progress | `createOrder`, `simulatePayment`, `confirmPayment`, `failPayment`, `cancelTicket` | one ACTIVE ticket per seat; tickets only for paid orders and from holds of their buyer; no PAID order without a ticket; refunds once |
| Stripe webhook (`orders/webhook.controller.ts`) | `ProcessedWebhookEvent` rows | record, dispatch, acknowledge | idempotent under redelivery; every event is settled |
| Gate (`gate/`) | `Ticket.usedAt`, `Ticket.status`, `ValidationLog` | `validate`, `stats` | a ticket is admitted once |
| Tickets and share links (`tickets/`) | `Ticket.shareToken`, `shareExpiresAt`, `shareRevokedAt` | create, revoke, open a link | a revoked or expired link opens nothing |
| Scheduled jobs (`prisma/migrations/20260812030000_realtime_rls_pg_cron`) | none of their own | `expire-seat-holds`, `expire-orders`, `purge-catalog-cache` | never undo what a handler committed |
| Events (`events/events.service.ts`) | `Event` rows | create, update, publish, cancel, remove | status table; sale lock on the fields a ticket depends on |
| Seat map and layout (`events/seatmap.service.ts`) | none | `generateSeats`, `isValidSeatLabel`, `buildSeatmap` | labels valid and distinct; lazy expiry agrees with the holds |
| Pricing (`events/pricing.ts`) | none | effective and half prices | integer cents, never negative |
| Event images (`events/image.service.ts`) | `Event` image columns, bucket objects | upload, remove | the row never names a removed object |
| Sessions (`auth/`) | `RefreshToken` rows and families, cookies | register, login, Google login, refresh, logout | rotation; reuse revokes the family |
| Catalog cache, TMDb client (`catalog/`) | `CatalogCache` rows | search, get by id | fresh, stale and purged entries under provider failure |
| Locations (`locations/`) | in-process memo | list states and cities | a failure is answered from what is kept, and is not kept itself |
| HTTP middlewares | none | authenticate, validate, map errors | per request |
| Front end: seat selection, live map (`src/frontend/src/features/reserva`) | cached seat map, selection, hold timer | snapshot, patch, polling, choose, hold | the map is current; a hold stays offered until it lapses |
| Front end: API client and session (`src/frontend/src/lib/api.ts`, `features/auth`) | access token, refresh in flight, session status | request, refresh, retry, restore, sign in and out | single flight; a page shown as signed in can go on; nothing waits for ever |
| Front end: checkout pages | order being followed, idempotency key | create, pay, poll, retry | one order per visit; the outcome shown is true |
| Front end: organizer's pages (`features/organizador`) | draft, forms, submission in progress, cover preview | wizard, edit, publish, cancel, cover | a slot becomes one event; the page shows the cover |
| Front end: tickets and share pages (`features/tickets`) | share link shown, dialogs | share, revoke, cancel, open a link | what owners are told of their links and refunds is true |
| Front end: gate pages (`features/gate`) | scan in progress, result on screen, panel | scan, type, dismiss, count | the page gets free; VALID is on one screen |
| Front end: catalog filters (`features/catalog`) | address, search draft, debounce | type, commit, navigate | the bar and the list agree in the end |
| Front end: design system, routes, texts | presentation | | |
| Seed data, tests, styles, build files | | | |

How they meet: `hold` and `release` write the two seat tables; `createOrder` links holds to an order;
the webhook calls `confirmPayment`, which reads the order, then its holds, and in one transaction pays the
order, issues tickets, consumes holds and sells seats; `cancelTicket` takes a ticket back and then asks the
provider for a refund; `validate` marks it used; cron expires holds and orders underneath all of them. There are
no locks but the rows' own and the two partial unique indexes, and no `SELECT ... FOR UPDATE`: every check made
before a transaction can be stale when it commits. `PROJECT.json` lists each such place as a hazard.

## 2. Modules

```
SeatReservation        abstract: a seat is nobody's, then somebody's, then nobody's
   ^ implemented by
SeatStore              the two tables and the transactions on them
   ^ EXTENDS                       ^ EXTENDS
SeatHolds              hold/release  Checkout          orders, webhook, payment, order expiry
                                       ^ EXTENDS
                                   TicketLifecycle      cancellation, refunds, gate

SeatMapPage            one customer's seat map            AuthSessions   refresh tokens and browser tabs
   ^ EXTENDS
BookingPages           and checkout pages

BackOffice = Wizard | EventDesk | EventCover | ShareLinks | GateDesk | Lookups | Browse

Theorems:  SeatStoreProofs <- SeatHoldsProofs        EventDeskProofs <- BackOfficeProofs
                  ^-- CheckoutProofs <- TicketLifecycleProofs
           AuthSessionsProofs          BookingPagesProofs
```

Two layers. *SeatStore* and the modules on it follow the database: what handlers have read, what they
commit, what cron and Stripe do meanwhile. The others follow a browser and the handlers its pages call, with the
answers that are late or lost; where they need the server's tables they keep only what the page can tell apart
(`SeatMapPage.db` is `seat_state`, `BookingPages.orders` the orders of one customer), since what the tables do is the
first layer's subject.

`MC_SeatHolds`, `MC_Checkout` and `MC_TicketLifecycle` add symmetry sets, the functions `Buyer` and `Method` for the
runs; `MC_BookingPages` and `MC_AuthSessions` only name what is checked. The modules named `...Proofs` hold the theorems, each
about the module it is named after. `BackOffice` extends seven modules that share no state: `part` says which of
them moves in a behaviour and the others stay as they began. They are composed to be checked in one run, not because
they interact; a variable of one is never read by another.

**SeatStore.** `hold[s]` is the sequence of `SeatHold` rows of seat `s` in insertion order, `<<s, i>>` a hold id,
`seatState[s]` its `seat_state` row, `clock` the time. One action per committed transaction: `CreateHolds`
(`attemptHold`), `LazyRelease` (`releaseExpiredAmong`), `ReleaseHold`, `CronExpireHolds`, `ConsumeHolds` (the
seat half of `confirmPayment`), `ReturnSeat` (that of `cancelTicket`). The three comparisons with *now* are
kept as the code has them (`gt` in the active queries, `lte` in the lazy release, `<` in the cron job and
in `buildSeatmap`).

A transaction is one step. Under READ COMMITTED that is exact for these: each inserts in or updates through a
row or index entry that a conflicting one waits for, re-evaluates its condition on the newest version, and
either takes effect whole after the other or rolls back on the index. The one transaction whose count can
miss another's uncommitted update, `cancelTicket`, is two steps in TicketLifecycle. Deadlock aborts are an
instance of `HandlerDies` / `JobDies`.

**SeatHolds.** `req[p]` is what handler `p` is doing and has read. `hold` is `HoldRequest`, `CountActive`,
`AttemptSucceeds` or `AttemptConflicts`, `ReleaseExpired` and the attempt again; `release` is
`ReleaseRequest`, `ReleaseCommits`. `HandlerDies` may stop any of them between two awaits. `EventCancelled` is all
that cancelling an event does here. A customer's requests may overlap, from two tabs or because the client gave up on the
first (`Rivals`); `overlapped` remembers the handlers that ran so, for `HoldLimit` to name them.

**Checkout.** An order is named by its idempotency key, which is also its payment intent's: `createIntent` returns
the same intent for the same key. `job[p]` is a worker: `CreateRequest`/`CreateCommits` (`createOrder`), and for
payments `ReadOrder`, `FindHolds`, then `IssueTickets`, `IssueConflicts` or `FailCommits` (`confirmPayment`, `failPayment`),
started by `Deliver` (the webhook) or `Simulate` (`simulatePayment`). Stripe is external: `CardAccepted`,
`CardDeclined`, and delivery until a 200. `CronExpireOrders` is the job. `HoldTransaction` stands for
the hold component: all it can do is commit transactions of SeatStore (which is what theorem
`HoldsImplementStore` says), so the steps of its handlers are not repeated.

**TicketLifecycle.** `desk[d]` is a `cancelTicket` or a `validate` handler. `CancelRequest` and
`ReadEventAndOrder` are the reads; `CancelCounts` is the transaction up to its count (it takes the row locks),
`CancelCommits` its commit, `Refund` the call after it. `GateScan` and `GateMark` are the gate's read and its
conditional update. `WaitsForLocks` makes other writers of a locked row wait. Everything of Checkout goes on
meanwhile. `phase` is where now lies relative to the gate's opening and the start of the session.

**SeatReservation** promises what the hold index is for: all seats of a request or none pass from nobody to one
customer, and from a customer only to nobody.

**AuthSessions.** `rows` is `refresh_token` (a token is its index, `from` what it was exchanged for), `jar` the cookie of
each browser, `home` the browser of each tab. `ServeRefresh` is `AuthService.refresh` in its two steps, the read and the
transaction; between them the row may be revoked. `flow[t]` are the tab's exchanges: `restoreSession`'s, and
`refreshPromise`, which `Join` shares among the calls that met a 401. `ghost` is an exchange the server still runs for a client
that left. `upset` names the five things the protocol does not absorb: a lost exchange, two tabs of a browser
refreshing at once, a refresh or a sign-in that meets a logout, a sign-in that overlaps a refresh, and a sign-in from a tab
that is signed in: `/entrar` and `/cadastrar` have no guard, and the former session is not revoked.

**SeatMapPage.** `map` is the cached seat map, `feed` the realtime patches on their way, `fetch` the snapshot
request (asked, read, answered), `conn` the channel. `Subscribed`, `Drops`, `Poll` are `useSeatRealtime` and
`usePollingFallback`; `PatchArrives` is `applySeatPatch`. `Toggle`, `Reserve`, `HoldGranted`, `HoldRefused`, `TimerEnds` are the
selection, `useHold`, its callbacks and `HoldTimer`. `LAPSED` in `db` is a HELD row whose deadline has passed: nothing is
written or published then. `Renewed` is what invalidating a query does: while the first answer is awaited it joins that request,
later it cancels the request in flight and makes another. A patch sets the query back to success, so it takes the error of a
failed renewal away. `overtaken` remembers the seats the map may be behind on: a patch an older snapshot has overwritten, a
change between the read of the first snapshot and the subscription, any change before a renewal that failed. `PageReloads`
loads the page again or leaves it and comes back (`Mounts`: with the cached map, fresh or stale, or without one); the hold
and the choice were the component's, so they are gone (`strayed`), and a hold request it waited for is served all the same (`left`).

**BookingPages** continues: `Proceed` leaves the map with the holds in `location.state`; `CreateAsks`, `CreateServed`,
`CreateAnswered`, `CreateLost` are the `createOrder` query of `/checkout/novo` with the key of `useIdempotencyKey`; `Pay` and
`StripePays` the two payment forms; `Polls`, `CheckAgain`, `RetryAsks` and `RetryServed` the return page. The server finds the holds
before it looks for the key, as `createOrder` does. A payment is two steps: `Webhook` or `PayServed` reads the order and
`deciding` keeps what it found, `PaymentCommits` writes, whatever the order has become by then; `rewritten` are the orders
that lost another outcome that way. A poll and the answer to an earlier one are one step
(`seen` may stay or become the order's status).

**Wizard.** `draft` is what `sessionStorage` keeps, `form` what the mounted step has taken from it, `try` the attempts of a
submission, each `create` and then `publish` on its own. `Settles` is what follows `Promise.all`; `InOrder` is the order in which `filter` leaves what it keeps. Sessions are paired with slots by
index, in the draft as in the form, because the code does.

**EventDesk.** `event` is the row, `tab[h]` an organizer's page with the request it waits for and the row its
handler has read, `buyer[c]` a purchase reduced to its steps and to the price read at each. `HandlerReads` decides on the row
as it is, `HandlerWrites` writes whatever it is by then. The price stands for every field the sale lock covers.

**EventCover.** `Stores`, `WritesCover` and `Removed` are the three steps of `ImageService`; the removal is not awaited.
**ShareLinks.** `panel[h]` is an owner's page and the handler it waits for, `visit` a visitor; reads and writes of
`createShareLink`, `revokeShareLink` and `cancelTicket` are separate steps; `GivesUp` is a client that stops waiting for a
handler, which goes on. **GateDesk.** `Submits` is `submit` as
the last render made it: the camera and the form may both call it before the next one; `Checks` and `Marks` are `validate`. The hours of
the gate are TicketLifecycle's. **Lookups.** `entry` is the cached answer to a question (a `CatalogCache` row or the
memory of `LocationsService`); `MainFails`, `MainAnswers`, `ExtraEnds` and `StoresAnswer` are a request to the provider with its one
retry. **Browse.** `address` is what the router has rendered, `going` what it will render, `bar` the search bar's draft
and the two effects between them. The page is also rendered by its own query of events (`EventsRefetched`, `EventsSettled`), and then the
effect that commits the draft may run alone.

### What is left out of these modules

Amounts other than one price of an event, price types, and the provider a refund goes through; who may ask (ownership is in the guards where
it is data, roles are not); requests that are refused before any write and leave no trace in the state; log lines. One event: seats of
different events share nothing. One clock for the application, the database and the browsers (deadlines are computed by the
application with `Date.now()` and compared by the database with `now()` and by the page's timer: a skew between them is not modelled). The order status FULFILLED,
which no code writes, is omitted from `ORDER_TRANSITIONS`. The gate's answers for forged or foreign codes are one refusal. A request of a page takes less than the five
seconds between two polls of the seat map (the client's own time limit is longer: a second snapshot in flight is not modelled). The answer
to a hold request of a page that was left only makes the seat map be asked for once more, which is left out.

## 3. Runs

Each passing property has, in `PROJECT.json`, a plausible bug of the code under which the same run finds it violated.

| Run | Question | States |
|---|---|---|
| `SeatHolds_safety` | two customers, two seats, two handlers, crashes, cron: one unreleased hold per seat, agreeing deadlines, justified SEAT_TAKEN, only owners end active holds, and the tables implement SeatReservation | 4.2 M (symmetry) |
| `SeatHolds_limit` | one customer whose requests may overlap, two seats, two handlers that may die, no cron: only a request that overlapped another exceeds the hold limit (here 1), and every seat the map shows as held is shown free again | 0.27 M |
| `Checkout_safety` | two customers compete for a seat with an order each, one by card and one simulated; two workers that may die, declined and accepted cards, redelivery, hold and order expiry | 1.9 M (symmetry) |
| `Checkout_webhook` | one customer, two orders over one seat, crashes, declines: none is PAID without a ticket though one takes the other's hold over, and every event is acknowledged in the end | 44 k |
| `Lifecycle_safety` | an order of two seats, two webhook workers, two desks, crashes: a ticket is admitted once, redelivery issues no second ticket, SOLD means a ticket in force, a refund leaves no ACTIVE ticket | 0.2 M (symmetry) |
| `Auth_sessions` | two tabs of one or two browsers, lost requests and answers, reloads: what ends every session or leaves a token behind is one of five named races; nobody waits for ever | 0.31 M |
| `Booking_pages` | a customer's browser from the map to the return page, with others' changes, a channel that drops, lost answers, reloads and departures, payments that race with expiry | 2.4 M |
| `BackOffice_safety` | wizard, event, cover, share links, gate, lookups and filters, one at a time | 1.64 M |
| `BackOffice_live` | what their pages start ends, and their panels catch up | 0.13 M |
| `Checkout_charged` | *violated*: a charged order whose seat was lost is never served | |
| `Lifecycle_sold_twice` | *violated*: a used ticket's seat is sold again before the session | |
| `Booking_retry` | *violated*: the retry after a declined card is refused although the holds are active | |

**Bounds.** `HoldTTL = 1` and `MaxTime = 3`: a hold can be active, exactly at its deadline (where the three
comparisons differ) and past it, and a second hold can be made after the first has lapsed. `MaxHolds = 2`: a seat
lost by one customer and taken by another; with 1 the runs concern seats held once. `OrderTTL = 1` lets an order
expire before and after its hold. In `RoomFor` a hold is only made if it can lapse before `MaxTime`, so the bound
never keeps a hold alive. `SeatHolds_limit` has one customer and a limit of one: the limit is per customer, two overlapping requests for
two seats exceed it, and the theorem `HoldLimitAlways` covers the other numbers. Two handlers of each kind give every pairwise race; two seats give all-or-nothing
and partial take-over. `CardDeclined` happens once per order.

`Auth_sessions`: `MaxTokens = 3` is a sign-in and two exchanges, which is what each race takes (two that present one
token, and the token that is left over); `Room` keeps place for what is already in flight, so the bound never leaves a
request unanswered. Once something has upset the protocol the person only reloads: the later sign-ins would repeat the same states.
`Booking_pages`: two seats, of which the customer asks for one at a time; one change by others or lapse, one interruption of the channel
or reload of the seat page, one reload of a checkout page, each combined with everything else; two patches may be on their way.
`MaxVisits = 1` is one way to `/checkout/novo`; its reload is a second visit, and `MaxOrders = 2` lets a wrong key
make a second order. After the last visit the customer does no more on the map; `BookingPagesProofs` covers any number of visits, and
requests for several seats. `BackOffice_safety`: two slots of two kinds of session and three events, so that a submission fails in
part and is repeated; three organizer requests on two tabs against two buyers; three uploads or removals of the cover; two tokens and three
owner's requests; two scans of one ticket at two doors, each of which may get both; two states with their cities; four acts in
the search bar. `BackOffice_live` uses one door, one state and three acts: liveness of one page does not depend on another's, and the table of
promises is larger.

`CHECK_DEADLOCK FALSE`: with time, rows and requests bounded, a behaviour may end with everything idle, as the system also may.

**Fairness.** `ClockSpec` assumes that time passes and nothing else: the map must free a seat
though all handlers died and there is no cron. `FairSpec` of Checkout assumes that a started handler goes on
(WF: Node schedules ready callbacks; a crash still ends it where `Crashes`), and that Stripe delivers again as long as it gets no 200 (SF on `Deliver`:
a worker becomes idle again and again but need not stay so). Stripe stops after some days; an outage
that long is outside the model. In the modules of the pages, WF stands for three facts: a request is answered or cut off by
`AbortSignal.timeout` (`lib/api.ts`) and its promise continued; a timer fires; React renders what has changed. People are never fair:
nobody has to click, type or reload. StatsCatchUp also relies on one of the panel's fetches succeeding (`StatsFetched`).

**What the properties exclude.** Several invariants hold only outside races that the code does not prevent. Each of these
is a history variable that names the race (`upset`, `overtaken`, `strayed`, `detour`, `overlap`, `mishap`, `crossed`, `rushed`), so that the invariant
says: *nothing else* breaks it. What those races do is listed under Findings.

## 4. Findings

Three behaviours contradict what the repository says of itself; each is a run above and an entry of `PROJECT.json`.

* *A charged customer without a seat* (`Checkout_charged`). Payment is accepted for thirty minutes, the hold lasts ten, and
  `hold` does not look at tickets. The confirmation fails on `ticket_seat_unique`, the webhook answers 500, and
  the redelivery is ignored since the event was recorded first. Nothing is refunded.
* *A seat sold twice* (`Lifecycle_sold_twice`). The ticket index covers ACTIVE tickets, and a ticket scanned
  when the gate opens is USED: the seat can be held, ordered and sold again.
* *The retry that cannot work* (`Booking_retry`). "Tentar outro cartão" sends the ids of the seats as the ids of holds:
  HOLD_EXPIRED, although the holds are active, and back to the map. The test's mocked server accepts any ids.

Departures that the models contain and no run is spent on:

* `assertTransition` runs on a row read before an update without a condition. So an order that expired meanwhile becomes PAID and a
  PAID one FAILED (README.md:330-332 promises the contrary), and the return page goes on showing the outcome it read first
(`rewritten`); two overlapping cancellations of one ticket both ask for a refund; a
  ticket cancelled between the gate's read and its update is admitted; an event cancelled during its publication is
  published (`CancelledIsFinal` names that case), one published during its removal is deleted, one edited during a
  purchase refunds another price than it charged (`overlap`).
* Overlapping hold requests of a customer, each counted before either inserts, pass `MAX_SEATS_PER_HOLD` together
  (`HoldLimit` names them); a slow `release`
  marks FREE a seat with a newer hold; a failed retry after the lazy release leaves `seat_state` HELD for good; two cancellations of
  an order's last two tickets leave it PAID.
* A lost answer, a second tab or a logout that meets a refresh ends all sessions of a customer or leaves a
  live token behind, and so does signing in again from a tab that is signed in (`upset`). A refused or lost `restoreSession` signs out a page that has just signed in.
* A snapshot of the seat map that is answered after a newer patch hides it until the next one. A change between the server's read of
  the first snapshot and the subscription is lost, since the renewal at the subscription joins the request under way. After a
  renewal that failed, the next patch shows the old map as if it were current (`overtaken`). A hold whose answer is lost, or whose page is
  reloaded or left, for the checkout too, is nowhere offered again (`strayed`).
* The wizard creates an event twice when the answer of its creation is lost, or the page is reloaded or left backwards during a
  submission; after a removed slot or a partial failure, the remaining slots may get each other's sessions (`detour`).
* An upload that fails or overlaps another leaves an object in the bucket, and the page a preview (`mishap`). A share link made while
  another page revokes may be dead at once (`crossed`). After a refund that failed the page still says the money is back.

## 5. Proofs

TLAPS checks the theorems for every value of the constants, from the named assumptions on them only.

* **SeatStoreProofs.** `StoreInv` is the inductive invariant: types; an unreleased row is the newest of its seat
  (`UnreleasedIsNewest`); a HELD `seat_state` carries the newest row's deadline (`HeldCarriesNewestDeadline`). The index alone
  says that there is at most one unreleased row; that it is the *newest* is what makes a later release or expiry of
  an older row harmless. `OneUnreleasedHoldAlways`, `LapsedSeatIsReclaimableAlways` and `StoreImplementsReservation` follow.
* **SeatHoldsProofs.** Every step of the handlers is a transaction of the tables or leaves them alone
  (`HoldsImplementStore`), so those theorems carry over. `HoldsInv` adds what a handler has read and can still
  rely on: a release handler's row is its customer's; a handler about to retry is only blocked by rows that outlive its lazy
  release. `RetryConflictIsRealAlways` and `OnlyOwnerEndsActiveHoldAlways` follow from it. `HoldLimitAlways` says that
  only a request which overlapped another of its customer exceeds the limit, for finitely many seats and with nothing assumed
  of how customers ask. `LimitInv`: two hold handlers of one customer have both overlapped, so one that has not is alone, and
  once it has counted there is still room for what it asks (`WithinLimit`). Between its count and its insert its customer's active holds only
  become fewer; the insert then adds at most one per seat.
* **CheckoutProofs.** `CheckoutInv` says what a payment handler may still rely on although nothing is locked between its
  reads and its transaction: hold rows are never deleted nor given to another customer (`LinkedToBuyer`, and the
  `"create"`/`"issue"` clauses of `JobAgrees`), a recorded event stays recorded, a charge is final (`PayInv`). Nothing is
  said of whether the holds are still active or the order still PENDING, because the code does not ensure it. From it
  follow `OneActiveTicketAlways`, `TicketComesFromHoldAlways`, `PaidOrderHasTicketAlways`,
  `IssuedOnlyAfterChargeAlways`; each of their steps has one interesting case, `IssueTickets`, since every other step
  issues nothing and pays nothing (`OnlyIssueIssues`). `CheckoutImplementsStore` carries the theorems about the seat
  tables over to sales.

* **EventDeskProofs.** No handler of an event locks the row it has read. `DeskInv` says what keeps the money right all the
  same: once a buyer has read the price (`Priced`), either no edit that sends it is under way and the price stays the
  event's (`PriceIsKept`), or `overlap` records the buyer. An edit that starts finds no ticket, so the only buyers past
  reading the price are those it records; a price read during an edit is recorded too. `DraftsAreUnsold` makes the removal
  of a draft harmless, `HandlersAgree` says what publish and remove have read. `RefundsMatch`, `EventsOutliveBuyers` and
  `CancellationStands` follow, and `BackOfficeProofs` shows that the other parts of the back office leave all this alone
  (`BackOfficeRunsDesk`).

* **TicketLifecycleProofs.** `LifeInv` extends `CheckoutInv` by what happens after the sale. Ticket rows are never removed, a
  used one stays used, and one that is not ACTIVE never is again (`TicketsNeverGoBack`). An event of Stripe is recorded before the order
  is read, so one worker at most confirms an order (`OnePayment`), and an order that has a ticket has no confirmation
  left that could issue another (`TicketsAreSettled`, `RefundedIsSettled`). That is what makes the read of a cancelling desk safe: a desk
  which has counted no other ACTIVE ticket is still right when it writes REFUNDED (`DeskAgrees`). `AdmittedOnceAlways`,
  `NoSecondTicketAlways`, `SoldSeatHasTicketAlways` and `RefundedHasNoActiveAlways` follow; `LifeImplementsStore` and `LifeKeepsPromises`
  carry over what is proved of the tables and of the sale.

* **AuthSessionsProofs.** A token, as a cookie, in a request or in an answer, is in one browser (`OneBrowser`), and a tab exchanges one
  at a time (`OneExchange`). While no exchange was lost, no two tabs overlapped and no logout met a refresh (`Calm`), a
  browser presents one token at a time and its cookie is live or about to be replaced (`CalmInv`): so nothing is presented twice
  and no family is revoked (`ReuseIsExplainedAlways`). With one tab per browser and no upset (a sign-in from a signed-in tab is
  one), a live token is held by its tab (`AloneInv`), from which `TokensMatchTabsAlways` follows. `WaitersGoOnAlways` says that calls that wait have a refresh in
  flight. Enabledness of the step that wakes them is TLC's.

* **BookingPagesProofs.** The map is compared with the tables through what is on its way: of the patches in flight the last of a
  seat is true (`LastPatchIsTrue`); a snapshot differs from the tables only where they were written since it was read, which is
  counted (`late`) as long as the page will not ask again (`SnapshotFollows`); the map differs only where a patch is on its way or
  a change was missed (`MapFollows`). `HoldInv` finds the customer's hold on the page, in an answer on its way, or astray. `OrdersOfVisits`
  bounds the k-th order's visit from both sides, so no visit makes two without counting them. `PaidIsSold` says that a PAID order keeps its seats,
  also when it was EXPIRED or FAILED before. That the outcome shown is the order's, or the order is in `rewritten`, is inductive as it
  stands: the one step that changes a settled order is `PaymentCommits`, which records it. `MapIsCurrentAlways`, `MyHoldIsOfferedAlways`,
  `OneOrderPerVisitAlways` and `OutcomeShownIsTrueAlways` follow.

* **BackOfficeProofs**, one invariant per part, kept by each of its steps; a step of the back office is a step of the part or leaves it
  alone (`StepsOf...`).
  - *Share links* (`ShareInv`): a dead link stays dead, since a new token is a new number; a link that no other page's request came
    across is the ticket's until its own page revokes it; a cancelled ticket is refunded or its handler is about to ask.
  - *Cover* (`CoverInv`): the keys in the row, in what a handler has read and in removals on their way are those of uploads that have
    ended, which write no more; without a mishap there is one request at a time and it has read the row as it is.
  - *Gate* (`GateInv`): a code has at most one VALID; ALREADY_USED means it was admitted; what a late scan finds is cancelled or admitted.
  - *Lookups* (`LookInv`): the cached answer a question began with is there until it ends, unless purged, or is held by `getCities`.
  - *Wizard* (`WizardInv`): the attempts of a submission are the draft's slots one by one (`TriesAreDraft`); an attempt past its
    creation has its event (`TriesAreMade`), and a slot that may yet be created has none (`OneEventPerSlot`); a draft nobody was told
    of belongs to an attempt still under way (`DraftsAreTried`); next to a slot stands the session chosen for it
    (`SessionsAreChosen`). `InOrderFacts` is the lemma on `filter`: the increasing enumeration leaves out none of the places, by the
    least one it would miss. `SubmissionIsFaithfulAlways` follows.
  - *Filters* (`BrowseInv`): what was committed last is what the address says or is about to say, if nobody acts early. While the draft has
    just followed the address, a render may commit the text of before; the address then takes it and the draft follows again (`SearchSettlesAlways`).
  - `BackOfficeTypeCorrect` puts their types together.

The assumptions are the named ones of the modules: ranges of the constants, that `Nobody` and `NoOrder` are nobody and no order, that a
logout is not among the `Calls`, that there is a slot to ask for and a price to begin with, that the venue form is one of the clients, and that the gate has finitely many
tickets (its panel counts them). `HoldLimitAlways` adds that the seats are finite. None is about sizes. The bounds
(`MaxHolds`, `MaxTime`, `MaxTokens`, `MaxEvents`, ...) are guards of the modules, so the theorems hold for every value of them.

Each order has its own payment method (`Method`), so the theorems cover customers who pay by card beside customers in the
simulation.

Model-checked only: the properties that need fairness (`MapShowsSeatFreeAgain`, `WebhookSettles`, `LoadingEnds`, `ConfirmingEnds`,
`PagesSettle`), which are outside this prover's reach, and the three violations. Every invariant and action property of
a passing run is a theorem.

## 6. Plan and what is not modelled

Done: every component of section 1 that keeps state has its module and runs; every safety property of the runs is proved. Next, in
order of weight:

1. `attemptHold` statement by statement with the lock order of the index entries, shown to implement `CreateHolds`: the deadlock of two requests
   for the same seats in opposite order (`seats/seat-hold.repository.ts`) is the one hazard without a property.
2. The sale as a refinement: an order is open, then paid with its tickets or failed, as an abstract specification that Checkout and
   TicketLifecycle implement.
3. The safety half of the liveness arguments as invariants: what a waiting page or a recorded event can still count on
   (`WaitersGoOn` is of that kind).

Not modelled:

* *Pure computations*: layouts (`generateSeats`, `isValidSeatLabel`), prices, date windows, ticket codes and their signatures, mapping of
  errors. They keep no state and have unit tests over their inputs.
* *Middlewares, routes, validation schemas*: stateless per request.
* *Presentation*: the drawing of the seat map, the design system, lists and details that only read, texts.
* *Deadlocks between transactions* of the database: PostgreSQL aborts one, which the models contain as a handler that
  dies; which pairs can meet is item 1.
* *The second database time*: clock skew between application, database and browser.
* Seed data, tests, styles, build files; the mock service worker is generated.
