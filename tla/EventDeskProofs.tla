-------------------------- MODULE EventDeskProofs --------------------------
(***************************************************************************)
(* One event, its organizer's pages and its buyers, for any number of      *)
(* pages, buyers, prices and requests.                                     *)
(*                                                                         *)
(* No handler locks the row it has read.  DeskInv says what keeps the      *)
(* money right all the same: the price cannot change under a buyer who is  *)
(* past reading it, because an edit in progress is either older than the   *)
(* purchase, which `overlap' then records, or refused by the sale lock.    *)
(***************************************************************************)
EXTENDS EventDesk, TLAPS

\* An idle page has no handler; one that has read the row has found it fit.
HandlersAgree ==
    \A h \in Tabs :
        /\ tab[h].op = "none" => tab[h].read = Unread
        /\ tab[h].op \in {"publish", "remove"} /\ tab[h].read # Unread =>
              tab[h].read.status = "DRAFT"

\* Nobody buys before the publication.
DraftsAreUnsold == event.status = "DRAFT" => \A c \in Customers : buyer[c].at = "away"

\* Those whose price is settled: it was read, and the order may exist.
Priced == {c \in Customers :
              buyer[c].at \in {"pricing", "open", "paid", "cancelling", "cancelled"}}

\* Once a price is settled no edit of it is under way, and it stays the event's.
PriceIsKept ==
    \A c \in Priced \ overlap :
        /\ ~Editing
        /\ buyer[c].at \in {"pricing", "cancelling"} => buyer[c].price = event.price
        /\ buyer[c].at # "pricing" => buyer[c].charged = event.price
        /\ buyer[c].at = "cancelled" => buyer[c].refund = event.price

DeskInv == DeskTypeOK /\ HandlersAgree /\ DraftsAreUnsold /\ PriceIsKept /\ BuyersHaveEvent

-----------------------------------------------------------------------------
LEMMA InitDesk == DeskInit => DeskInv
  <1> SUFFICES ASSUME DeskInit PROVE DeskInv
    OBVIOUS
  <1> DEFINE p == CHOOSE q \in Prices : TRUE
  <1>1. p \in Prices
    BY DeskAssumption
  <1>2. DeskTypeOK
    BY <1>1, DeskAssumption DEF DeskInit, DeskTypeOK, EventRow, EventStatus, EventTab, DeskOps,
       Blank, Unread, Buyer
  <1>3. HandlersAgree /\ DraftsAreUnsold /\ BuyersHaveEvent
    BY DEF DeskInit, HandlersAgree, DraftsAreUnsold, BuyersHaveEvent
  <1>4. PriceIsKept
    BY DEF DeskInit, PriceIsKept, Priced
  <1> QED
    BY <1>2, <1>3, <1>4 DEF DeskInv

-----------------------------------------------------------------------------
(* The types. *)

PageShows == [status : EventStatus, price : Prices, sales : BOOLEAN] \cup {Blank}

(* The steps, by actor; a refusal is a step of the page too. *)
PageStep(h) == OpenPage(h) \/ LeavePage(h) \/ AskPublish(h) \/ AskEventCancel(h) \/ AskRemove(h)
                 \/ DeskRefuses(h) \/ \E p \in Prices : AskEdit(h, p)

HandlerStep(h) == HandlerReads(h) \/ HandlerFails(h) \/ HandlerWrites(h)
                    \/ WriteFindsNothing(h) \/ HandlerDeletes(h)

BuyerStep(c) == AskHold(c) \/ HoldCommits(c) \/ PriceOrder(c) \/ InsertOrder(c) \/ Pays(c)
                  \/ AskTicketCancel(c) \/ TicketCancelled(c)

LEMMA PageTypes == ASSUME DeskTypeOK, NEW h \in Tabs, PageStep(h) PROVE DeskTypeOK'
  <1> USE DEF DeskTypeOK
  <1>t. tab[h] \in EventTab
    OBVIOUS
  <1>1. CASE OpenPage(h)
    <2> DEFINE s == [status |-> event.status, price |-> event.price, sales |-> Sold # {}]
    <2>0. event.status \in EventStatus /\ event.price \in Prices
      BY <1>1 DEF OpenPage, EventRow
    <2>1. s \in PageShows
      BY <2>0 DEF PageShows
    <2> HIDE DEF s
    <2>2. [tab[h] EXCEPT !.shows = s, !.form = event.price] \in EventTab
      BY <1>t, <2>0, <2>1 DEF EventTab, PageShows
    <2>3. tab' = [tab EXCEPT ![h] = [tab[h] EXCEPT !.shows = s, !.form = event.price]]
      BY <1>1 DEF OpenPage, s
    <2>4. tab' \in [Tabs -> EventTab]
      BY <2>2, <2>3
    <2> QED
      BY <1>1, <2>4 DEF OpenPage
  <1>2. CASE LeavePage(h)
    <2>1. [tab[h] EXCEPT !.shows = Blank] \in EventTab
      BY <1>t DEF EventTab
    <2>2. tab' \in [Tabs -> EventTab]
      BY <1>2, <2>1 DEF LeavePage
    <2> QED
      BY <1>2, <2>2 DEF LeavePage
  <1>3. ASSUME NEW op \in DeskOps, NEW p \in Prices, NEW sends \in BOOLEAN, Sends(h, op, p, sends)
        PROVE  DeskTypeOK'
    <2>1. [tab[h] EXCEPT !.op = op, !.form = p, !.sends = sends] \in EventTab
      BY <1>t DEF EventTab
    <2>2. tab' \in [Tabs -> EventTab]
      BY <1>3, <2>1 DEF Sends
    <2> QED
      BY <1>3, <2>2, DeskAssumption DEF Sends
  <1>4. CASE AskPublish(h) \/ AskEventCancel(h) \/ AskRemove(h)
    <2>1. tab[h].form \in Prices
      BY <1>t DEF EventTab
    <2> QED
      BY <1>3, <1>4, <2>1 DEF AskPublish, AskEventCancel, AskRemove, DeskOps
  <1>5. CASE DeskRefuses(h)
    <2>1. [tab[h] EXCEPT !.op = "none", !.read = Unread] \in EventTab
      BY <1>t DEF EventTab, DeskOps
    <2>2. tab' \in [Tabs -> EventTab]
      BY <1>5, <2>1 DEF DeskRefuses
    <2> QED
      BY <1>5, <2>2 DEF DeskRefuses
  <1>6. ASSUME NEW p \in Prices, AskEdit(h, p) PROVE DeskTypeOK'
    <2>1. (~tab[h].shows.sales) \in BOOLEAN
      BY Zenon
    <2>2. "edit" \in DeskOps
      BY DEF DeskOps
    <2>3. Sends(h, "edit", p, ~tab[h].shows.sales)
      BY <1>6 DEF AskEdit
    <2> QED
      BY <1>3, <2>1, <2>2, <2>3
  <1> QED
    BY <1>1, <1>2, <1>4, <1>5, <1>6 DEF PageStep

LEMMA HandlerTypes == ASSUME DeskTypeOK, NEW h \in Tabs, HandlerStep(h) PROVE DeskTypeOK'
  <1> USE DEF DeskTypeOK
  <1>t. tab[h] \in EventTab /\ event \in EventRow
    OBVIOUS
  <1>1. CASE DeskRefuses(h)
    BY <1>1, PageTypes DEF PageStep
  <1>2. CASE HandlerReads(h) /\ ~DeskRefuses(h)
    <2>1. Buying \subseteq Customers
      BY DEF Buying
    <2>2. [tab[h] EXCEPT !.read = event] \in EventTab
      BY <1>t DEF EventTab
    <2>3. tab' \in [Tabs -> EventTab]
      BY <1>2, <2>2 DEF HandlerReads
    <2> QED
      BY <1>2, <2>1, <2>3 DEF HandlerReads
  <1>3. CASE HandlerWrites(h)
    <2>0. event.status \in EventStatus /\ tab[h].form \in Prices
      BY <1>3, <1>t DEF HandlerWrites, EventRow, EventTab
    <2>1. event' \in EventRow /\ event'.status \in EventStatus
      <3>1. CASE tab[h].op = "publish"
        BY <1>3, <1>t, <2>0, <3>1 DEF HandlerWrites, Updated, EventRow, EventStatus
      <3>2. CASE tab[h].op = "cancel"
        BY <1>3, <1>t, <2>0, <3>2 DEF HandlerWrites, Updated, EventRow, EventStatus
      <3>3. CASE tab[h].op = "edit"
        BY <1>3, <1>t, <2>0, <3>3 DEF HandlerWrites, Updated, EventRow
      <3> QED
        BY <1>3, <3>1, <3>2, <3>3 DEF HandlerWrites
    <2>2. Shown \in PageShows
      BY <2>1 DEF Shown, EventRow, PageShows
    <2>3. [tab[h] EXCEPT !.op = "none", !.read = Unread, !.shows = Shown] \in EventTab
      BY <1>t, <2>2 DEF EventTab, PageShows, DeskOps
    <2>4. tab' \in [Tabs -> EventTab]
      BY <1>3, <2>3 DEF HandlerWrites
    <2> QED
      BY <1>3, <2>1, <2>4 DEF HandlerWrites
  <1>4. CASE HandlerDeletes(h) /\ ~DeskRefuses(h)
    <2>1. [tab[h] EXCEPT !.op = "none", !.read = Unread] \in EventTab
      BY <1>t DEF EventTab, DeskOps
    <2>2. tab' \in [Tabs -> EventTab]
      BY <1>4, <2>1 DEF HandlerDeletes
    <2>3. event' \in EventRow
      BY <1>4, <1>t DEF HandlerDeletes, EventRow
    <2> QED
      BY <1>4, <2>2, <2>3 DEF HandlerDeletes
  <1> QED
    BY <1>1, <1>2, <1>3, <1>4 DEF HandlerStep, HandlerReads, HandlerFails, WriteFindsNothing, HandlerDeletes

LEMMA BuyerTypes == ASSUME DeskTypeOK, NEW c \in Customers, BuyerStep(c) PROVE DeskTypeOK'
  <1> USE DEF DeskTypeOK
  <1>t. buyer[c] \in Buyer /\ event.price \in Prices
    BY DEF EventRow
  <1>1. ASSUME NEW to \in {"away", "holding", "held", "open", "paid"},
               NEW from, Buys(c, from, to)
        PROVE  DeskTypeOK'
    <2>1. [buyer[c] EXCEPT !.at = to] \in Buyer
      BY <1>t DEF Buyer
    <2>2. buyer' \in [Customers -> Buyer]
      BY <1>1, <2>1 DEF Buys
    <2> QED
      BY <1>1, <2>2 DEF Buys
  <1>2. CASE AskHold(c) \/ HoldCommits(c) \/ Pays(c)
    BY <1>1, <1>2 DEF AskHold, HoldCommits, Pays
  <1>3. CASE PriceOrder(c)
    <2>1. [buyer[c] EXCEPT !.at = "pricing", !.price = event.price] \in Buyer
      BY <1>t DEF Buyer
    <2>2. buyer' \in [Customers -> Buyer]
      BY <1>3, <2>1 DEF PriceOrder
    <2> QED
      BY <1>3, <2>2 DEF PriceOrder
  <1>4. CASE InsertOrder(c)
    <2>0. buyer[c].price \in Prices
      BY <1>t DEF Buyer
    <2>1. /\ [buyer[c] EXCEPT !.at = "held"] \in Buyer
          /\ [buyer[c] EXCEPT !.at = "open", !.charged = buyer[c].price] \in Buyer
      BY <1>t, <2>0 DEF Buyer
    <2>2. buyer' \in [Customers -> Buyer]
      BY <1>4, <2>1 DEF InsertOrder
    <2> QED
      BY <1>4, <2>2 DEF InsertOrder
  <1>5. CASE AskTicketCancel(c)
    <2>1. [buyer[c] EXCEPT !.at = "cancelling", !.price = event.price] \in Buyer
      BY <1>t DEF Buyer
    <2>2. buyer' \in [Customers -> Buyer]
      BY <1>5, <2>1 DEF AskTicketCancel
    <2> QED
      BY <1>5, <2>2 DEF AskTicketCancel
  <1>6. CASE TicketCancelled(c)
    <2>0. buyer[c].price \in Prices
      BY <1>t DEF Buyer
    <2>1. [buyer[c] EXCEPT !.at = "cancelled", !.refund = buyer[c].price] \in Buyer
      BY <1>t, <2>0 DEF Buyer
    <2>2. buyer' \in [Customers -> Buyer]
      BY <1>6, <2>1 DEF TicketCancelled
    <2> QED
      BY <1>6, <2>2 DEF TicketCancelled
  <1> QED
    BY <1>2, <1>3, <1>4, <1>5, <1>6 DEF BuyerStep

-----------------------------------------------------------------------------
(* The pages and the handlers. *)

\* A request, a refusal or a move of the page puts no edit under way.
LEMMA PageKeeps ==
    ASSUME DeskTypeOK, HandlersAgree, NEW h \in Tabs, PageStep(h)
    PROVE  HandlersAgree' /\ (Editing' => Editing) /\ UNCHANGED <<event, buyer, overlap>>
  <1>0. tab \in [Tabs -> EventTab] /\ tab[h] \in EventTab
    BY DEF DeskTypeOK
  <1>1. CASE OpenPage(h) \/ LeavePage(h)
    <2>1. \A g \in Tabs : tab'[g].op = tab[g].op /\ tab'[g].read = tab[g].read
                          /\ tab'[g].sends = tab[g].sends
      BY <1>0, <1>1 DEF OpenPage, LeavePage, EventTab
    <2> QED
      BY <1>1, <2>1 DEF HandlersAgree, Editing, OpenPage, LeavePage
  <1>2. ASSUME NEW op, NEW p, NEW sends, Sends(h, op, p, sends)
        PROVE  HandlersAgree' /\ (Editing' => Editing) /\ UNCHANGED <<event, buyer, overlap>>
    <2>1. tab'[h].read = Unread
      BY <1>0, <1>2 DEF Sends, EventTab, HandlersAgree
    <2>2. \A g \in Tabs \ {h} : tab'[g] = tab[g]
      BY <1>0, <1>2 DEF Sends
    <2> QED
      BY <1>2, <2>1, <2>2 DEF HandlersAgree, Editing, Sends
  <1>3. CASE AskPublish(h) \/ AskEventCancel(h) \/ AskRemove(h) \/ \E p \in Prices : AskEdit(h, p)
    BY <1>2, <1>3 DEF AskPublish, AskEventCancel, AskRemove, AskEdit
  <1>4. CASE DeskRefuses(h)
    <2>1. tab'[h].read = Unread /\ tab'[h].op = "none"
      BY <1>0, <1>4 DEF DeskRefuses, EventTab
    <2>2. \A g \in Tabs \ {h} : tab'[g] = tab[g]
      BY <1>0, <1>4 DEF DeskRefuses
    <2> QED
      BY <1>4, <2>1, <2>2 DEF HandlersAgree, Editing, DeskRefuses
  <1> QED
    BY <1>1, <1>3, <1>4 DEF PageStep

\* A handler that has found the event fit has found it a draft, unless it edits
\* or cancels it; an edit it starts finds no ticket.
LEMMA ReadKeeps ==
    ASSUME DeskTypeOK, HandlersAgree, NEW h \in Tabs, HandlerReads(h), ~DeskRefuses(h)
    PROVE  /\ HandlersAgree'
           /\ UNCHANGED <<event, buyer>>
           /\ \/ Sold = {} /\ overlap' = overlap \cup Buying
              \/ (Editing' => Editing) /\ overlap' = overlap
  <1>0. tab \in [Tabs -> EventTab] /\ tab[h] \in EventTab /\ event \in EventRow
    BY DEF DeskTypeOK
  <1>1. /\ tab' = [tab EXCEPT ![h].read = event] /\ UNCHANGED <<event, buyer>>
        /\ tab[h].op # "none" /\ tab[h].read = Unread
        /\ event.status # "deleted" /\ Allowed(h)
        /\ overlap' = overlap \cup (IF tab[h].op = "edit" /\ tab[h].sends THEN Buying ELSE {})
    BY DEF HandlerReads
  <1>2. /\ tab'[h].read = event /\ tab'[h].op = tab[h].op /\ tab'[h].sends = tab[h].sends
        /\ \A g \in Tabs \ {h} : tab'[g] = tab[g]
    BY <1>0, <1>1 DEF EventTab
  <1>3. tab[h].op \in {"publish", "remove"} => event.status = "DRAFT"
    <2>1. event.status \in EventStatus
      BY <1>0, <1>1 DEF EventRow
    <2>2. CASE tab[h].op = "publish"
      BY <1>1, <2>1, <2>2 DEF Allowed, EVENT_TRANSITIONS, EventStatus
    <2>3. CASE tab[h].op = "remove"
      BY <1>1, <2>3 DEF Allowed
    <2> QED
      BY <2>2, <2>3
  <1>4. HandlersAgree'
    BY <1>1, <1>2, <1>3 DEF HandlersAgree
  <1>5. CASE tab[h].op = "edit" /\ tab[h].sends
    BY <1>1, <1>4, <1>5 DEF Allowed
  <1>6. CASE ~(tab[h].op = "edit" /\ tab[h].sends)
    BY <1>1, <1>2, <1>4, <1>6 DEF Editing
  <1> QED
    BY <1>5, <1>6

\* A write changes the price only as an edit under way.
LEMMA WriteKeeps ==
    ASSUME DeskTypeOK, HandlersAgree, NEW h \in Tabs, HandlerWrites(h)
    PROVE  /\ HandlersAgree' /\ (Editing' => Editing) /\ UNCHANGED <<buyer, overlap>>
           /\ event'.price # event.price => Editing
           /\ event'.status # "deleted" /\ (event'.status = "DRAFT" => event.status = "DRAFT")
  <1>0. tab \in [Tabs -> EventTab] /\ tab[h] \in EventTab /\ event \in EventRow
    BY DEF DeskTypeOK
  <1>1. tab'[h].read = Unread /\ tab'[h].op = "none"
    BY <1>0 DEF HandlerWrites, EventTab
  <1>2. \A g \in Tabs \ {h} : tab'[g] = tab[g]
    BY <1>0 DEF HandlerWrites
  <1>3. HandlersAgree' /\ (Editing' => Editing)
    BY <1>1, <1>2 DEF HandlersAgree, Editing
  <1>4. /\ event'.price # event.price => Editing
        /\ event'.status # "deleted" /\ (event'.status = "DRAFT" => event.status = "DRAFT")
    <2>1. CASE tab[h].op = "publish"
      BY <1>0, <2>1 DEF HandlerWrites, Updated, EventRow
    <2>2. CASE tab[h].op = "cancel"
      BY <1>0, <2>2 DEF HandlerWrites, Updated, EventRow
    <2>3. CASE tab[h].op = "edit"
      BY <1>0, <2>3 DEF HandlerWrites, Updated, EventRow, Editing
    <2> QED
      BY <2>1, <2>2, <2>3 DEF HandlerWrites
  <1> QED
    BY <1>3, <1>4 DEF HandlerWrites

\* A deletion finds no order, and the draft it has read unless it was published.
LEMMA DeleteKeeps ==
    ASSUME DeskTypeOK, HandlersAgree, NEW h \in Tabs, HandlerDeletes(h), ~DeskRefuses(h)
    PROVE  /\ HandlersAgree' /\ (Editing' => Editing) /\ UNCHANGED buyer
           /\ event'.price = event.price /\ event'.status = "deleted"
           /\ overlap \subseteq overlap'
           /\ event.status = "DRAFT" \/ "removed" \in overlap'
  <1>0. tab \in [Tabs -> EventTab] /\ tab[h] \in EventTab /\ event \in EventRow
    BY DEF DeskTypeOK
  <1>1. tab'[h].read = Unread /\ tab'[h].op = "none"
    BY <1>0 DEF HandlerDeletes, EventTab, DeskRefuses
  <1>2. \A g \in Tabs \ {h} : tab'[g] = tab[g]
    BY <1>0 DEF HandlerDeletes
  <1>3. HandlersAgree' /\ (Editing' => Editing)
    BY <1>1, <1>2 DEF HandlersAgree, Editing
  <1>4. tab[h].read.status = "DRAFT"
    BY DEF HandlersAgree, HandlerDeletes
  <1>5. event'.price = event.price /\ event'.status = "deleted"
    BY <1>0 DEF HandlerDeletes, EventRow
  <1> QED
    BY <1>3, <1>4, <1>5 DEF HandlerDeletes

-----------------------------------------------------------------------------
(* The invariant. *)

LEMMA PagePreserves == ASSUME DeskInv, NEW h \in Tabs, PageStep(h) PROVE DeskInv'
  <1>1. HandlersAgree' /\ (Editing' => Editing) /\ UNCHANGED <<event, buyer, overlap>>
    BY PageKeeps DEF DeskInv
  <1>2. DeskTypeOK'
    BY PageTypes DEF DeskInv
  <1>3. (DraftsAreUnsold /\ PriceIsKept /\ BuyersHaveEvent)'
    BY <1>1 DEF DeskInv, DraftsAreUnsold, PriceIsKept, BuyersHaveEvent, Priced
  <1> QED
    BY <1>1, <1>2, <1>3 DEF DeskInv

LEMMA HandlerPreserves == ASSUME DeskInv, NEW h \in Tabs, HandlerStep(h) PROVE DeskInv'
  <1>0. DeskTypeOK /\ HandlersAgree
    BY DEF DeskInv
  <1>1. DeskTypeOK'
    BY <1>0, HandlerTypes
  <1>2. CASE DeskRefuses(h)
    BY <1>2, PagePreserves DEF PageStep
  <1>3. CASE HandlerReads(h) /\ ~DeskRefuses(h)
    <2>1. /\ HandlersAgree' /\ UNCHANGED <<event, buyer>>
          /\ \/ Sold = {} /\ overlap' = overlap \cup Buying
             \/ (Editing' => Editing) /\ overlap' = overlap
      BY <1>0, <1>3, ReadKeeps
    <2>2. PriceIsKept'
      <3>1. Priced = Buying \cup Sold /\ Priced' = Priced
        BY <2>1 DEF Priced, Buying, Sold
      <3>2. CASE Sold = {} /\ overlap' = overlap \cup Buying
        <4>1. Priced' \ overlap' = {}
          BY <3>1, <3>2
        <4> QED
          BY <4>1 DEF PriceIsKept
      <3>3. CASE (Editing' => Editing) /\ overlap' = overlap
        BY <2>1, <3>1, <3>3 DEF DeskInv, PriceIsKept
      <3> QED
        BY <2>1, <3>2, <3>3
    <2>3. (DraftsAreUnsold /\ BuyersHaveEvent)'
      BY <2>1 DEF DeskInv, DraftsAreUnsold, BuyersHaveEvent
    <2> QED
      BY <1>1, <2>1, <2>2, <2>3 DEF DeskInv
  <1>4. CASE HandlerWrites(h)
    <2>1. /\ HandlersAgree' /\ (Editing' => Editing) /\ UNCHANGED <<buyer, overlap>>
          /\ event'.price # event.price => Editing
          /\ event'.status # "deleted" /\ (event'.status = "DRAFT" => event.status = "DRAFT")
      BY <1>0, <1>4, WriteKeeps
    <2>2. PriceIsKept'
      <3>1. Priced' = Priced
        BY <2>1 DEF Priced
      <3>2. Priced \ overlap # {} => event'.price = event.price
        BY <2>1 DEF DeskInv, PriceIsKept
      <3> QED
        BY <2>1, <3>1, <3>2 DEF DeskInv, PriceIsKept
    <2>3. (DraftsAreUnsold /\ BuyersHaveEvent)'
      BY <2>1 DEF DeskInv, DraftsAreUnsold, BuyersHaveEvent
    <2> QED
      BY <1>1, <2>1, <2>2, <2>3 DEF DeskInv
  <1>5. CASE HandlerDeletes(h) /\ ~DeskRefuses(h)
    <2>1. /\ HandlersAgree' /\ (Editing' => Editing) /\ UNCHANGED buyer
          /\ event'.price = event.price /\ event'.status = "deleted"
          /\ overlap \subseteq overlap'
          /\ event.status = "DRAFT" \/ "removed" \in overlap'
      BY <1>0, <1>5, DeleteKeeps
    <2>2. PriceIsKept'
      BY <2>1 DEF DeskInv, PriceIsKept, Priced
    <2>3. (DraftsAreUnsold /\ BuyersHaveEvent)'
      BY <2>1 DEF DeskInv, DraftsAreUnsold, BuyersHaveEvent
    <2> QED
      BY <1>1, <2>1, <2>2, <2>3 DEF DeskInv
  <1> QED
    BY <1>2, <1>3, <1>4, <1>5 DEF HandlerStep, HandlerFails, WriteFindsNothing

LEMMA BuyerPreserves == ASSUME DeskInv, NEW c \in Customers, BuyerStep(c) PROVE DeskInv'
  <1>0. /\ DeskTypeOK /\ DraftsAreUnsold /\ PriceIsKept /\ BuyersHaveEvent
        /\ buyer \in [Customers -> Buyer] /\ buyer[c] \in Buyer
    BY DEF DeskInv, DeskTypeOK
  <1>a. DeskTypeOK'
    BY <1>0, BuyerTypes
  <1>1. UNCHANGED <<event, tab>> /\ overlap \subseteq overlap'
    BY DEF BuyerStep, AskHold, HoldCommits, PriceOrder, InsertOrder, Pays, AskTicketCancel,
       TicketCancelled, Buys
  <1>2. (Editing' <=> Editing) /\ HandlersAgree'
    BY <1>1 DEF DeskInv, HandlersAgree, Editing
  <1>3. \A d \in Customers \ {c} : buyer'[d] = buyer[d]
    BY <1>0 DEF BuyerStep, AskHold, HoldCommits, PriceOrder, InsertOrder, Pays, AskTicketCancel,
       TicketCancelled, Buys
  <1>4. event.status = "PUBLISHED" \/ buyer[c].at # "away"
    BY DEF BuyerStep, AskHold, HoldCommits, PriceOrder, InsertOrder, Pays, AskTicketCancel,
       TicketCancelled, Buys
  <1>5. (DraftsAreUnsold /\ BuyersHaveEvent)'
    BY <1>0, <1>1, <1>4 DEF DraftsAreUnsold, BuyersHaveEvent
  <1>6. ASSUME NEW d \in Priced', d \notin overlap'
        PROVE  /\ ~Editing
               /\ buyer'[d].at \in {"pricing", "cancelling"} => buyer'[d].price = event.price
               /\ buyer'[d].at # "pricing" => buyer'[d].charged = event.price
               /\ buyer'[d].at = "cancelled" => buyer'[d].refund = event.price
    <2>1. CASE d # c
      <3>1. buyer'[d] = buyer[d] /\ d \in Priced \ overlap
        BY <1>1, <1>3, <1>6, <2>1 DEF Priced
      <3> QED
        BY <1>0, <3>1 DEF PriceIsKept
    <2>2. CASE d = c
      <3>1. CASE AskHold(c) \/ HoldCommits(c)
        BY <1>0, <1>6, <2>2, <3>1 DEF AskHold, HoldCommits, Buys, Priced, Buyer
      <3>2. CASE PriceOrder(c)
        BY <1>0, <1>6, <2>2, <3>2 DEF PriceOrder, Buyer
      <3>3. CASE InsertOrder(c)
        <4>1. buyer[c].at = "pricing" /\ c \in Priced \ overlap
          BY <1>1, <1>6, <2>2, <3>3 DEF InsertOrder, Priced
        <4>2. buyer[c].price = event.price /\ ~Editing
          BY <1>0, <4>1 DEF PriceIsKept
        <4>3. CASE event.status = "deleted"
          BY <1>0, <1>6, <2>2, <3>3, <4>3 DEF InsertOrder, Buyer, Priced
        <4>4. CASE event.status # "deleted"
          BY <1>0, <2>2, <3>3, <4>2, <4>4 DEF InsertOrder, Buyer
        <4> QED
          BY <4>3, <4>4
      <3>4. CASE Pays(c) \/ AskTicketCancel(c) \/ TicketCancelled(c)
        <4>1. buyer[c].at \in {"open", "paid", "cancelling"} /\ c \in Priced \ overlap
          BY <1>1, <1>6, <2>2, <3>4 DEF Pays, AskTicketCancel, TicketCancelled, Buys, Priced
        <4>2. /\ buyer[c].charged = event.price /\ ~Editing
              /\ buyer[c].at = "cancelling" => buyer[c].price = event.price
          BY <1>0, <4>1 DEF PriceIsKept
        <4>3. CASE Pays(c)
          BY <1>0, <2>2, <4>2, <4>3 DEF Pays, Buys, Buyer
        <4>4. CASE AskTicketCancel(c)
          BY <1>0, <2>2, <4>2, <4>4 DEF AskTicketCancel, Buyer
        <4>5. CASE TicketCancelled(c)
          BY <1>0, <2>2, <4>2, <4>5 DEF TicketCancelled, Buyer
        <4> QED
          BY <3>4, <4>3, <4>4, <4>5
      <3> QED
        BY <3>1, <3>2, <3>3, <3>4 DEF BuyerStep
    <2> QED
      BY <2>1, <2>2
  <1>7. PriceIsKept'
    BY <1>1, <1>2, <1>6 DEF PriceIsKept
  <1> QED
    BY <1>a, <1>2, <1>5, <1>7 DEF DeskInv

LEMMA NextDesk == DeskInv /\ [DeskNext]_deskVars => DeskInv'
  <1> SUFFICES ASSUME DeskInv, [DeskNext]_deskVars PROVE DeskInv'
    OBVIOUS
  <1>1. CASE \E h \in Tabs : PageStep(h) \/ HandlerStep(h)
    BY <1>1, PagePreserves, HandlerPreserves
  <1>2. CASE \E c \in Customers : BuyerStep(c)
    BY <1>2, BuyerPreserves
  <1>3. CASE UNCHANGED deskVars
    BY <1>3 DEF deskVars, DeskInv, DeskTypeOK, HandlersAgree, DraftsAreUnsold, PriceIsKept,
       BuyersHaveEvent, Priced, Editing
  <1> QED
    BY <1>1, <1>2, <1>3 DEF DeskNext, PageStep, HandlerStep, BuyerStep

LEMMA DeskInvariant == DeskSpec => []DeskInv
  BY InitDesk, NextDesk, PTL DEF DeskSpec

-----------------------------------------------------------------------------
(* What follows. *)

\* The rows, the open pages and the purchases keep their shape.
THEOREM DeskTypeCorrect == DeskSpec => []DeskTypeOK
  <1>1. DeskInv => DeskTypeOK
    BY DEF DeskInv
  <1> QED
    BY <1>1, DeskInvariant, PTL

\* Nobody outside an edit of the price is refunded another amount than was
\* charged, though the refund is computed from the event's price at that time.
THEOREM RefundsMatch == DeskSpec => []RefundIsCharge
  <1>1. DeskInv => RefundIsCharge
    BY DEF DeskInv, PriceIsKept, RefundIsCharge, Priced
  <1> QED
    BY <1>1, DeskInvariant, PTL

\* Only an event published during its removal is deleted under its buyers.
THEOREM EventsOutliveBuyers == DeskSpec => []BuyersHaveEvent
  <1>1. DeskInv => BuyersHaveEvent
    BY DEF DeskInv
  <1> QED
    BY <1>1, DeskInvariant, PTL

\* Only a publication that had found the event a draft undoes its cancellation.
THEOREM CancellationStands == DeskSpec => CancelledIsFinal
  <1>1. ASSUME DeskInv, [DeskNext]_deskVars, event.status = "CANCELLED", event'.status = "PUBLISHED"
        PROVE  \E h \in Tabs : tab[h].op = "publish" /\ tab[h].read # Unread
                               /\ tab[h].read.status = "DRAFT"
    <2>1. HandlersAgree /\ event \in EventRow /\ event' # event
      BY <1>1 DEF DeskInv, DeskTypeOK
    <2>2. PICK h \in Tabs : HandlerWrites(h) \/ HandlerDeletes(h)
      BY <1>1, <2>1 DEF DeskNext, deskVars, OpenPage, LeavePage, Sends, AskPublish, AskEventCancel,
         AskRemove, AskEdit, DeskRefuses, HandlerReads, HandlerFails, WriteFindsNothing,
         AskHold, HoldCommits, PriceOrder, InsertOrder, Pays, AskTicketCancel, TicketCancelled, Buys
    <2>3. HandlerWrites(h)
      BY <1>1, <2>1, <2>2 DEF HandlerDeletes, DeskRefuses, EventRow
    <2>4. tab[h].op = "publish"
      BY <1>1, <2>1, <2>3 DEF HandlerWrites, Updated, EventRow
    <2> QED
      BY <2>1, <2>3, <2>4 DEF HandlersAgree, HandlerWrites
  <1> QED
    BY <1>1, DeskInvariant, PTL DEF DeskSpec, CancelledIsFinal
=============================================================================
