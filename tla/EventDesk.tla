------------------------------ MODULE EventDesk ------------------------------
(***************************************************************************)
(* One event, its organizer's pages (EventDetailPage, EventEditForm) and   *)
(* the handlers of EventsService, against the customers who buy seats of   *)
(* it.  Every handler reads the row, decides, and writes it back without a *)
(* condition on what it has read.                                          *)
(*                                                                         *)
(* A customer buys one ticket and may cancel it; the tables of the holds   *)
(* and the payment are those of Checkout, here each a step.  The event's   *)
(* price stands for every field locked by a sale.                          *)
(***************************************************************************)
EXTENDS Naturals, FiniteSets

CONSTANTS Tabs,        \* pages the organizer has open
          Customers,
          Prices,      \* what the effective price of a seat may be
          MaxDeskOps   \* bound on the organizer's requests

ASSUME DeskAssumption == /\ Prices \subseteq Nat /\ Prices # {}
                         /\ MaxDeskOps \in Nat

VARIABLES event,     \* the row: status (or "deleted") and price
          tab,       \* an open page: the event as it shows it, the price in the
                     \* form, and the request it waits for, with the row it has read
          buyer,     \* a customer: the step of the purchase, the price read, the
                     \* price charged and the money returned
          deskOps,
          overlap    \* history: customers who were buying during an edit of the
                     \* price; "removed" if the event was published during its
                     \* removal

deskVars == <<event, tab, buyer, deskOps, overlap>>

-----------------------------------------------------------------------------
EventStatus == {"DRAFT", "PUBLISHED", "CANCELLED"}
EventRow == [status : EventStatus \cup {"deleted"}, price : Prices]
DeskOps == {"none", "publish", "cancel", "edit", "remove"}
Unread == [status |-> "unread", price |-> 0]
Blank == [status |-> "blank", price |-> 0, sales |-> FALSE]
EventTab == [shows : [status : EventStatus, price : Prices, sales : BOOLEAN] \cup {Blank},
             form : Prices, op : DeskOps, sends : BOOLEAN, read : EventRow \cup {Unread}]
Buyer == [at : {"away", "holding", "held", "pricing", "open", "paid", "cancelling", "cancelled"},
          price : Prices, charged : Prices, refund : Prices \cup {0}]

EVENT_TRANSITIONS == [DRAFT |-> {"PUBLISHED", "CANCELLED"},
                      PUBLISHED |-> {"CANCELLED"},
                      CANCELLED |-> {}]

\* the rows of the ticket table; a cancelled ticket stays
Sold == {c \in Customers : buyer[c].at \in {"paid", "cancelling", "cancelled"}}

\* the rows of the order table, which keep the event from being deleted
Ordered == Sold \cup {c \in Customers : buyer[c].at = "open"}

Buying == {c \in Customers : buyer[c].at \in {"pricing", "open"}}
Editing == \E h \in Tabs : tab[h].op = "edit" /\ tab[h].sends /\ tab[h].read # Unread

\* what an answer with the event puts in the cache
Shown == [status |-> event'.status, price |-> event'.price, sales |-> Sold # {}]

-----------------------------------------------------------------------------
(* The organizer's pages. *)

\* GET /events/:id; the form takes its default values when it is mounted
OpenPage(h) ==
    /\ event.status # "deleted" /\ tab[h].op = "none" /\ tab[h].shows = Blank
    /\ tab' = [tab EXCEPT ![h].shows = [status |-> event.status, price |-> event.price,
                                        sales |-> Sold # {}],
                          ![h].form = event.price]
    /\ UNCHANGED <<event, buyer, deskOps, overlap>>

LeavePage(h) ==
    /\ tab[h].shows # Blank /\ tab[h].op = "none"
    /\ tab' = [tab EXCEPT ![h].shows = Blank]
    /\ UNCHANGED <<event, buyer, deskOps, overlap>>

Sends(h, op, price, sends) ==
    /\ tab[h].op = "none" /\ deskOps < MaxDeskOps
    /\ deskOps' = deskOps + 1
    /\ tab' = [tab EXCEPT ![h].op = op, ![h].form = price, ![h].sends = sends]
    /\ UNCHANGED <<event, buyer, overlap>>

\* the buttons of the header and the form: the locked fields are sent, changed
\* or not, as long as the page knows of no sale
AskPublish(h) ==
    /\ tab[h].shows # Blank /\ tab[h].shows.status = "DRAFT"
    /\ Sends(h, "publish", tab[h].form, FALSE)
AskEventCancel(h) ==
    /\ tab[h].shows # Blank /\ tab[h].shows.status # "CANCELLED"
    /\ Sends(h, "cancel", tab[h].form, FALSE)
AskEdit(h, price) ==
    /\ tab[h].shows # Blank
    /\ tab[h].shows.sales => price = tab[h].form
    /\ Sends(h, "edit", price, ~tab[h].shows.sales)

\* no page asks for it, the API does
AskRemove(h) == Sends(h, "remove", tab[h].form, FALSE)

\* an error: the dialog or form shows it, the page keeps what it shows
DeskRefuses(h) ==
    /\ tab' = [tab EXCEPT ![h].op = "none", ![h].read = Unread]
    /\ UNCHANGED <<event, buyer, deskOps, overlap>>

-----------------------------------------------------------------------------
(* The handlers of EventsService. *)

\* Mutant of Allowed: a removal checks the sales only
Allowed_AnyStatus(h) ==
    CASE tab[h].op = "publish" -> "PUBLISHED" \in EVENT_TRANSITIONS[event.status]
      [] tab[h].op = "cancel" -> "CANCELLED" \in EVENT_TRANSITIONS[event.status]
      [] tab[h].op = "edit" -> tab[h].sends => Sold = {}
      [] tab[h].op = "remove" -> Sold = {}

\* Mutant of Allowed: an edit does not look at the sales
Allowed_Unlocked(h) ==
    CASE tab[h].op = "publish" -> "PUBLISHED" \in EVENT_TRANSITIONS[event.status]
      [] tab[h].op = "cancel" -> "CANCELLED" \in EVENT_TRANSITIONS[event.status]
      [] tab[h].op = "edit" -> TRUE
      [] tab[h].op = "remove" -> event.status = "DRAFT" /\ Sold = {}

\* the checks of publish, cancel, update and remove
Allowed(h) ==
    CASE tab[h].op = "publish" -> "PUBLISHED" \in EVENT_TRANSITIONS[event.status]
      [] tab[h].op = "cancel" -> "CANCELLED" \in EVENT_TRANSITIONS[event.status]
      [] tab[h].op = "edit" -> tab[h].sends => Sold = {}
      [] tab[h].op = "remove" -> event.status = "DRAFT" /\ Sold = {}

HandlerReads(h) ==
    /\ tab[h].op # "none" /\ tab[h].read = Unread
    /\ IF event.status # "deleted" /\ Allowed(h)
       THEN /\ tab' = [tab EXCEPT ![h].read = event]
            /\ overlap' = overlap \cup
                   (IF tab[h].op = "edit" /\ tab[h].sends THEN Buying ELSE {})
            /\ UNCHANGED <<event, buyer, deskOps>>
       ELSE DeskRefuses(h)

\* the event starts too soon, or the call or its answer is lost
HandlerFails(h) ==
    /\ tab[h].op # "none"
    /\ DeskRefuses(h)

\* Mutant of Updated: an edit writes back the whole row it has read
Updated_WholeRow(h) ==
    CASE tab[h].op = "publish" -> [event EXCEPT !.status = "PUBLISHED"]
      [] tab[h].op = "cancel" -> [event EXCEPT !.status = "CANCELLED"]
      [] tab[h].op = "edit" -> IF tab[h].sends THEN [tab[h].read EXCEPT !.price = tab[h].form]
                               ELSE tab[h].read

\* repo.update: the columns named, whatever the row is by now
Updated(h) ==
    CASE tab[h].op = "publish" -> [event EXCEPT !.status = "PUBLISHED"]
      [] tab[h].op = "cancel" -> [event EXCEPT !.status = "CANCELLED"]
      [] tab[h].op = "edit" -> IF tab[h].sends THEN [event EXCEPT !.price = tab[h].form]
                               ELSE event

HandlerWrites(h) ==
    /\ tab[h].op \in {"publish", "cancel", "edit"} /\ tab[h].read # Unread
    /\ event.status # "deleted"
    /\ event' = Updated(h)
    /\ tab' = [tab EXCEPT ![h].op = "none", ![h].read = Unread, ![h].shows = Shown]
    /\ UNCHANGED <<buyer, deskOps, overlap>>

\* the row is gone: Prisma's update fails
WriteFindsNothing(h) ==
    /\ tab[h].read # Unread /\ event.status = "deleted"
    /\ DeskRefuses(h)

\* repo.delete: seats, states and holds go with the row, an order or a ticket
\* keeps it
HandlerDeletes(h) ==
    /\ tab[h].op = "remove" /\ tab[h].read # Unread /\ event.status # "deleted"
    /\ IF Ordered = {}
       THEN /\ event' = [event EXCEPT !.status = "deleted"]
            /\ overlap' = overlap \cup (IF event.status # tab[h].read.status THEN {"removed"} ELSE {})
            /\ tab' = [tab EXCEPT ![h].op = "none", ![h].read = Unread]
            /\ UNCHANGED <<buyer, deskOps>>
       ELSE DeskRefuses(h)

-----------------------------------------------------------------------------
(* The customers. *)

Buys(c, from, to) ==
    /\ buyer[c].at = from
    /\ buyer' = [buyer EXCEPT ![c].at = to]
    /\ UNCHANGED <<event, tab, deskOps, overlap>>

\* SeatHoldService.hold finds the event published, then inserts the hold
AskHold(c) == event.status = "PUBLISHED" /\ Buys(c, "away", "holding")
HoldCommits(c) == IF event.status = "deleted" THEN Buys(c, "holding", "away")
                  ELSE Buys(c, "holding", "held")

\* createOrder reads the price, whatever the status; a payment intent is made
\* and the order inserted
PriceOrder(c) ==
    /\ buyer[c].at = "held" /\ event.status # "deleted"
    /\ buyer' = [buyer EXCEPT ![c].at = "pricing", ![c].price = event.price]
    /\ overlap' = overlap \cup (IF Editing THEN {c} ELSE {})
    /\ UNCHANGED <<event, tab, deskOps>>

InsertOrder(c) ==
    /\ buyer[c].at = "pricing"
    /\ buyer' = IF event.status = "deleted" THEN [buyer EXCEPT ![c].at = "held"]
                ELSE [buyer EXCEPT ![c].at = "open", ![c].charged = buyer[c].price]
    /\ UNCHANGED <<event, tab, deskOps, overlap>>

Pays(c) == Buys(c, "open", "paid")

\* cancelTicket reads the event's price now, then commits and refunds it
AskTicketCancel(c) ==
    /\ buyer[c].at = "paid"
    /\ buyer' = [buyer EXCEPT ![c].at = "cancelling", ![c].price = event.price]
    /\ UNCHANGED <<event, tab, deskOps, overlap>>

TicketCancelled(c) ==
    /\ buyer[c].at = "cancelling"
    /\ buyer' = [buyer EXCEPT ![c].at = "cancelled", ![c].refund = buyer[c].price]
    /\ UNCHANGED <<event, tab, deskOps, overlap>>

-----------------------------------------------------------------------------
DeskInit ==
    LET p == CHOOSE q \in Prices : TRUE
    IN  /\ event = [status |-> "DRAFT", price |-> p]
        /\ tab = [h \in Tabs |-> [shows |-> Blank, form |-> p, op |-> "none",
                                  sends |-> FALSE, read |-> Unread]]
        /\ buyer = [c \in Customers |-> [at |-> "away", price |-> p, charged |-> p, refund |-> 0]]
        /\ deskOps = 0 /\ overlap = {}

DeskNext ==
    \/ \E h \in Tabs :
          \/ OpenPage(h) \/ LeavePage(h)
          \/ AskPublish(h) \/ AskEventCancel(h) \/ AskRemove(h)
          \/ \E p \in Prices : AskEdit(h, p)
          \/ HandlerReads(h) \/ HandlerFails(h)
          \/ HandlerWrites(h) \/ WriteFindsNothing(h) \/ HandlerDeletes(h)
    \/ \E c \in Customers :
          \/ AskHold(c) \/ HoldCommits(c) \/ PriceOrder(c) \/ InsertOrder(c) \/ Pays(c)
          \/ AskTicketCancel(c) \/ TicketCancelled(c)

DeskSpec == DeskInit /\ [][DeskNext]_deskVars

-----------------------------------------------------------------------------
DeskTypeOK ==
    /\ event \in EventRow
    /\ tab \in [Tabs -> EventTab]
    /\ buyer \in [Customers -> Buyer]
    /\ deskOps \in 0 .. MaxDeskOps
    /\ overlap \subseteq Customers \cup {"removed"}

\* The refund, computed from the event's price at the time of the cancellation,
\* is what the order was charged, unless the purchase overlapped an edit of the
\* price: the lock after the first sale keeps every other edit away
\* (orders.service.ts:176, events.service.ts:121).
RefundIsCharge ==
    \A c \in Customers \ overlap :
        buyer[c].at = "cancelled" => buyer[c].refund = buyer[c].charged

\* The event of a customer who holds a seat, has an order or a ticket is there,
\* unless it was published while it was being removed (events.service.ts:159).
BuyersHaveEvent ==
    event.status = "deleted" /\ "removed" \notin overlap =>
        \A c \in Customers : buyer[c].at = "away"

\* A cancelled event is never published again, except by a publication that had
\* found it a draft before the cancellation (events.service.ts:174, 180).
CancelledIsFinal ==
    [][event.status = "CANCELLED" /\ event'.status = "PUBLISHED" =>
          \E h \in Tabs : tab[h].op = "publish" /\ tab[h].read # Unread
                          /\ tab[h].read.status = "DRAFT"]_deskVars
=============================================================================
