-------------------------- MODULE TicketLifecycle --------------------------
(***************************************************************************)
(* What happens to a ticket after its sale: its customer may cancel it     *)
(* (OrdersService.cancelTicket) until the session starts, and the gate may *)
(* let it in (GateService.validate) from two hours before.  Both overlap   *)
(* with each other, with themselves and with the sales of Checkout, which  *)
(* go on: this module adds them to that one.                               *)
(*                                                                         *)
(* The transaction of cancelTicket is two steps, because the count it      *)
(* makes does not see what another transaction has not committed.  While   *)
(* it is open its rows are locked: other writers of them wait.             *)
(***************************************************************************)
EXTENDS Checkout, Bags

CONSTANTS
    Desks,  \* cancel and validate handlers running at the same time
    Doors   \* FALSE: a model without the gate

VARIABLES
    phase,     \* where now lies in the event's schedule
    desk,      \* desk[d]: where handler d is and what it has read
    refunds,   \* bag of the tickets refunded at the payment provider
    admitted   \* bag of the tickets answered VALID (ValidationLog rows)

lifeVars == <<phase, desk, refunds, admitted>>
allVars == <<checkoutVars, lifeVars>>

\* "sale": gate closed; "doors": gate open, not started; then "started".
Phases == <<"sale", "doors", "started">>

\* Ticket j of seat s is <<s, j>>.
TicketIds == Seats \X (Nat \ {0})

NoTicket == <<>>

Desk == [pc : {"idle", "event", "count", "commit", "refund", "mark"},
         ticket : TicketIds \cup {NoTicket},
         status : OrderStatus,  \* the order's status as read
         last : BOOLEAN]        \* no other ticket of the order was ACTIVE

IdleDesk == [pc |-> "idle", ticket |-> NoTicket, status |-> "PENDING", last |-> FALSE]

LifeTypeOK ==
    /\ CheckoutTypeOK
    /\ phase \in 1 .. Len(Phases)
    /\ desk \in [Desks -> Desk]
    /\ IsABag(refunds) /\ BagToSet(refunds) \subseteq TicketIds
    /\ IsABag(admitted) /\ BagToSet(admitted) \subseteq TicketIds

Row(t) == ticket[t[1]][t[2]]

Existing == UNION {{s} \X DOMAIN ticket[s] : s \in Seats}

\* The desks whose cancel transaction is open.
Open == {d \in Desks : desk[d].pc = "commit"}

LockedSeats == {desk[d].ticket[1] : d \in Open}

LockedOrders == {Row(desk[d].ticket).order : d \in {e \in Open : desk[e].last}}

\* A writer of a locked row waits for the transaction to end.
WaitsForLocks ==
    /\ \A s \in LockedSeats : seatState'[s] = seatState[s] /\ ticket'[s] = ticket[s]
    /\ \A k \in LockedOrders : order'[k] = order[k]

Leave(d) == desk' = [desk EXCEPT ![d] = IdleDesk]

-----------------------------------------------------------------------------
(* OrdersService.cancelTicket                                               *)

\* findOwnedById and assertTransition: only an ACTIVE ticket is cancelled.
CancelRequest(d, t) ==
    /\ desk[d] = IdleDesk
    /\ Row(t).status = "ACTIVE"
    /\ desk' = [desk EXCEPT ![d].pc = "event", ![d].ticket = t]
    /\ UNCHANGED <<checkoutVars, phase, refunds, admitted>>

\* The event is read, EVENT_ALREADY_STARTED answers; then the order is read.
ReadEventAndOrder(d) ==
    LET t == desk[d].ticket
    IN  /\ desk[d].pc = "event"
        /\ IF Phases[phase] = "started"
           THEN Leave(d)
           ELSE desk' = [desk EXCEPT ![d].pc = "count",
                                     ![d].status = order[Row(t).order].status]
        /\ UNCHANGED <<checkoutVars, phase, refunds, admitted>>

\* Mutant of LastActive: off by one.
LastActive_AtMostOne(t) ==
    Cardinality({o \in Existing \ {t} :
                    Row(o).order = Row(t).order /\ Row(o).status = "ACTIVE"}) <= 1

\* countActiveByOrderId, after the transaction's own update of t.
LastActive(t) ==
    {o \in Existing \ {t} : Row(o).order = Row(t).order /\ Row(o).status = "ACTIVE"} = {}

\* The transaction: both updates take their row locks, then it counts.  If t
\* was the last one and the order, as it was read, cannot be REFUNDED, it
\* rolls back.
CancelCounts(d) ==
    LET t == desk[d].ticket
    IN  /\ desk[d].pc = "count"
        /\ t[1] \notin LockedSeats
        /\ LastActive(t) => Row(t).order \notin LockedOrders
        /\ IF LastActive(t) /\ "REFUNDED" \notin ORDER_TRANSITIONS[desk[d].status]
           THEN Leave(d)
           ELSE desk' = [desk EXCEPT ![d].pc = "commit", ![d].last = LastActive(t)]
        /\ UNCHANGED <<checkoutVars, phase, refunds, admitted>>

\* Mutant of ReturnsSeat: the cancellation forgets the seat map.
ReturnsSeat_Not(s) == UNCHANGED storeVars

ReturnsSeat(s) == ReturnSeat(s)

CancelCommits(d) ==
    LET t == desk[d].ticket
    IN  /\ desk[d].pc = "commit"
        /\ ticket' = [ticket EXCEPT ![t[1]][t[2]].status = "CANCELLED"]
        /\ ReturnsSeat(t[1])
        /\ order' = IF desk[d].last
                    THEN [order EXCEPT ![Row(t).order].status = "REFUNDED"]
                    ELSE order
        /\ desk' = [desk EXCEPT ![d].pc = "refund"]
        /\ UNCHANGED <<orderOf, payVars, job, phase, refunds, admitted>>

\* Stripe refunds a charge in parts, up to its amount: here, one seat at a
\* time, up to the number of tickets.
Refundable(k) ==
    LET T == {t \in Existing : Row(t).order = k}
    IN  BagCardinality([t \in T \cap DOMAIN refunds |-> refunds[t]]) < Cardinality(T)

\* The provider is asked for the refund; its failure is only logged.
Refund(d) ==
    /\ desk[d].pc = "refund"
    /\ \/ /\ Refundable(Row(desk[d].ticket).order)
          /\ refunds' = refunds (+) SetToBag({desk[d].ticket})
       \/ /\ Crashes \/ ~Refundable(Row(desk[d].ticket).order)
          /\ refunds' = refunds
    /\ Leave(d)
    /\ UNCHANGED <<checkoutVars, phase, admitted>>

-----------------------------------------------------------------------------
(* GateService.validate, for a genuine code of this event                   *)

\* findByCodeHash; CANCELLED_TICKET and GATE_TOO_EARLY answer.
GateScan(d, t) ==
    /\ Doors
    /\ desk[d] = IdleDesk
    /\ Row(t).status # "CANCELLED"
    /\ Phases[phase] # "sale"
    /\ desk' = [desk EXCEPT ![d].pc = "mark", ![d].ticket = t]
    /\ UNCHANGED <<checkoutVars, phase, refunds, admitted>>

\* Mutant of NotUsed: the update without its condition.
NotUsed_Any(t) == TRUE

\* The condition of markUsed is on usedAt alone.
NotUsed(t) == ~Row(t).used

\* markUsed, and the answer: VALID, or ALREADY_USED when no row was updated.
GateMark(d) ==
    LET t == desk[d].ticket
    IN  /\ desk[d].pc = "mark"
        /\ t[1] \notin LockedSeats
        /\ IF NotUsed(t)
           THEN /\ ticket' = [ticket EXCEPT ![t[1]][t[2]].used = TRUE,
                                            ![t[1]][t[2]].status = "USED"]
                /\ admitted' = admitted (+) SetToBag({t})
           ELSE UNCHANGED <<ticket, admitted>>
        /\ Leave(d)
        /\ UNCHANGED <<storeVars, order, orderOf, payVars, job, phase, refunds>>

-----------------------------------------------------------------------------

\* The process stops: an open transaction rolls back.
DeskDies(d) ==
    /\ Crashes
    /\ desk[d].pc # "idle"
    /\ Leave(d)
    /\ UNCHANGED <<checkoutVars, phase, refunds, admitted>>

PhaseAdvances ==
    /\ phase < Len(Phases)
    /\ phase' = phase + 1
    /\ UNCHANGED <<checkoutVars, desk, refunds, admitted>>

Selling == Next /\ UNCHANGED lifeVars /\ WaitsForLocks

LifeInit ==
    /\ Init
    /\ phase = 1
    /\ desk = [d \in Desks |-> IdleDesk]
    /\ refunds = EmptyBag
    /\ admitted = EmptyBag

LifeNext ==
    \/ Selling
    \/ \E d \in Desks :
          \/ \E t \in Existing : CancelRequest(d, t) \/ GateScan(d, t)
          \/ ReadEventAndOrder(d)
          \/ CancelCounts(d)
          \/ CancelCommits(d)
          \/ Refund(d)
          \/ GateMark(d)
          \/ DeskDies(d)
    \/ PhaseAdvances

LifeSpec == LifeInit /\ [][LifeNext]_allVars

-----------------------------------------------------------------------------
(* Properties that hold.                                                    *)

\* However many gates scan a ticket at the same time, and even if it is
\* being cancelled, it is answered VALID once.
AdmittedOnce == \A t \in BagToSet(admitted) : admitted[t] = 1

\* Stripe may deliver the payment of an order any number of times, while its
\* tickets are used and cancelled: a seat never gets a second ticket of it.
NoSecondTicket ==
    \A s \in Seats : \A i, j \in DOMAIN ticket[s] :
        ticket[s][i].order = ticket[s][j].order /\ Method[ticket[s][i].order] = "STRIPE" => i = j

\* An order is REFUNDED only when none of its tickets is ACTIVE, and none
\* becomes ACTIVE afterwards (with Stripe); the money of an ACTIVE ticket is
\* never given back.
RefundedHasNoActive ==
    /\ \A t \in Existing :
          order[Row(t).order].status = "REFUNDED" /\ Method[Row(t).order] = "STRIPE" =>
              Row(t).status # "ACTIVE"
    /\ \A t \in BagToSet(refunds) : Row(t).status # "ACTIVE"

-----------------------------------------------------------------------------
(* What the documentation and the tests say and the code does not do.       *)

\* A seat is not sold twice: one ticket at most that is not cancelled.
SeatSoldOnce ==
    \A t, o \in Existing :
        t[1] = o[1] /\ Row(t).status # "CANCELLED" /\ Row(o).status # "CANCELLED" => t = o
=============================================================================
