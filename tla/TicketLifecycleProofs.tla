----------------------- MODULE TicketLifecycleProofs -----------------------
(***************************************************************************)
(* Tickets after their sale, for any customers, seats, orders, workers and *)
(* desks.                                                                  *)
(*                                                                         *)
(* Two facts carry the proofs.  The rows of the tickets are never removed, *)
(* a used one stays used and one that is not ACTIVE never becomes ACTIVE.  *)
(* And the payment of an order by card runs once: its event is recorded    *)
(* before the order is read (OnePayment), so an order that has a ticket    *)
(* has no payment left that could issue another (Settled).                 *)
(***************************************************************************)
EXTENDS TicketLifecycle, CheckoutProofs

\* Worker p is confirming the payment of order k.
Paying(p, k) ==
    job[p].pc \in {"read", "holds", "issue"} /\ job[p].order = k /\ job[p].to = "PAID"

\* The payment of k is recorded and nobody confirms it any more.
Settled(k) == <<k, "PAID">> \in recorded /\ \A p \in Workers : ~Paying(p, k)

\* Stripe's event of success is handled once.
OnePayment ==
    \A k \in Orders : Method[k] = "STRIPE" =>
        \A p, q \in Workers : Paying(p, k) /\ Paying(q, k) => p = q

TicketsAreSettled ==
    \A t \in Existing : Method[Row(t).order] = "STRIPE" => Settled(Row(t).order)

RefundedIsSettled ==
    \A k \in Orders : order[k].status = "REFUNDED" /\ Method[k] = "STRIPE" => Settled(k)

\* What a desk has read and can still rely on.
DeskAgrees(d) ==
    desk[d].pc # "idle" =>
        LET t == desk[d].ticket
        IN  /\ t \in Existing
            /\ desk[d].pc = "commit" /\ desk[d].last /\ Method[Row(t).order] = "STRIPE" =>
                  LastActive(t)
            /\ desk[d].pc = "refund" => Row(t).status # "ACTIVE"

DesksAgree == desk \in [Desks -> Desk] /\ \A d \in Desks : DeskAgrees(d)

RefundsAgree ==
    /\ IsABag(refunds)
    /\ \A t \in DOMAIN refunds : t \in Existing /\ Row(t).status # "ACTIVE"

\* A ticket answered VALID is used.
AdmissionsAgree ==
    /\ IsABag(admitted)
    /\ \A t \in DOMAIN admitted : t \in Existing /\ Row(t).used /\ admitted[t] = 1

\* The first half of RefundedHasNoActive.
RefundedOrderHasNoActive ==
    \A t \in Existing :
        order[Row(t).order].status = "REFUNDED" /\ Method[Row(t).order] = "STRIPE" =>
            Row(t).status # "ACTIVE"

\* What a desk reads of a ticket's order is a status of an order.
TicketHasOrder == \A t \in Existing : order[Row(t).order].status \in OrderStatus

PaymentInv == OnePayment /\ TicketsAreSettled /\ RefundedIsSettled /\ NoSecondTicket

LifeInv ==
    /\ CheckoutInv /\ PaymentInv
    /\ phase \in 1 .. Len(Phases)
    /\ DesksAgree /\ RefundsAgree /\ AdmissionsAgree
    /\ TicketHasOrder /\ RefundedOrderHasNoActive /\ SoldSeatHasTicket
    /\ OneActiveTicket /\ TicketComesFromHold /\ PaidOrderHasTicket /\ IssuedOnlyAfterCharge

-----------------------------------------------------------------------------
(* Bags and ticket rows.                                                    *)

LEMMA BagAdd ==
    ASSUME NEW B, IsABag(B), NEW t
    PROVE  LET C == B (+) SetToBag({t})
           IN  /\ IsABag(C) /\ DOMAIN C = DOMAIN B \cup {t}
               /\ C[t] = IF t \in DOMAIN B THEN B[t] + 1 ELSE 1
               /\ \A o \in DOMAIN B \ {t} : C[o] = B[o]
  BY DEF IsABag, SetToBag, (+)

LEMMA NoBag == IsABag(EmptyBag) /\ DOMAIN EmptyBag = {}
  BY DEF EmptyBag, IsABag, SetToBag

LEMMA ExistingTyped ==
    ASSUME TablesOK, NEW t \in Existing
    PROVE  /\ t \in TicketIds /\ t[1] \in Seats /\ t[2] \in DOMAIN ticket[t[1]]
           /\ t = <<t[1], t[2]>>
           /\ Row(t) \in TicketRow /\ Row(t).order \in Orders
  <1>1. PICK s \in Seats : t \in {s} \X DOMAIN ticket[s]
    BY DEF Existing
  <1>2. t[1] = s /\ t[2] \in DOMAIN ticket[s] /\ t = <<t[1], t[2]>>
    BY <1>1
  <1>3. ticket[s] \in Seq(TicketRow)
    BY DEF TablesOK
  <1>4. t[2] \in Nat \ {0} /\ ticket[s][t[2]] \in TicketRow
    BY <1>2, <1>3
  <1>5. QED
    BY <1>2, <1>4 DEF TicketIds, Row, TicketRow

LEMMA ExistingIff ==
    ASSUME NEW s, NEW j
    PROVE  <<s, j>> \in Existing <=> s \in Seats /\ j \in DOMAIN ticket[s]
  BY DEF Existing

LEMMA ExistingIffNext ==
    ASSUME NEW s, NEW j
    PROVE  <<s, j>> \in Existing' <=> s \in Seats /\ j \in DOMAIN ticket'[s]
  BY DEF Existing

\* An update of one row.
LEMMA SetRow ==
    ASSUME TablesOK, NEW t \in Existing, NEW r \in TicketRow,
           ticket' = [ticket EXCEPT ![t[1]] = [ticket[t[1]] EXCEPT ![t[2]] = r]]
    PROVE  /\ ticket' \in [Seats -> Seq(TicketRow)]
           /\ \A s \in Seats : DOMAIN ticket'[s] = DOMAIN ticket[s]
           /\ Existing' = Existing
           /\ Row(t)' = r
           /\ \A o \in Existing \ {t} : Row(o)' = Row(o)
           /\ \A s \in Seats \ {t[1]} : ticket'[s] = ticket[s]
  <1>1. /\ t[1] \in Seats /\ t[2] \in DOMAIN ticket[t[1]]
        /\ t = <<t[1], t[2]>>
    BY ExistingTyped
  <1> DEFINE q == [ticket[t[1]] EXCEPT ![t[2]] = r]
  <1>2. ticket[t[1]] \in Seq(TicketRow)
    BY <1>1 DEF TablesOK
  <1>3. q \in Seq(TicketRow) /\ DOMAIN q = DOMAIN ticket[t[1]] /\ q[t[2]] = r
        /\ \A j \in DOMAIN q \ {t[2]} : q[j] = ticket[t[1]][j]
    BY <1>1, <1>2
  <1> HIDE DEF q
  <1>4. /\ ticket' \in [Seats -> Seq(TicketRow)]
        /\ ticket'[t[1]] = q
        /\ \A s \in Seats \ {t[1]} : ticket'[s] = ticket[s]
    BY <1>1, <1>3 DEF TablesOK, q
  <1>5. \A s \in Seats : DOMAIN ticket'[s] = DOMAIN ticket[s]
    BY <1>3, <1>4
  <1>6. Existing' = Existing
    BY <1>5 DEF Existing
  <1>7. Row(t)' = r
    BY <1>3, <1>4 DEF Row
  <1>8. ASSUME NEW o \in Existing \ {t}
        PROVE  Row(o)' = Row(o)
    <2>1. o[1] \in Seats /\ o[2] \in DOMAIN ticket[o[1]] /\ o = <<o[1], o[2]>>
      BY ExistingTyped
    <2>2. CASE o[1] = t[1]
      <3>1. o[2] # t[2]
        BY <1>1, <2>1, <2>2
      <3>2. QED
        BY <1>3, <1>4, <2>1, <2>2, <3>1 DEF Row
    <2>3. CASE o[1] # t[1]
      BY <1>4, <2>1, <2>3 DEF Row
    <2>4. QED
      BY <2>2, <2>3
  <1>9. QED
    BY <1>4, <1>5, <1>6, <1>7, <1>8

LEMMA CancelRow ==
    ASSUME TablesOK, NEW t \in Existing,
           ticket' = [ticket EXCEPT ![t[1]][t[2]].status = "CANCELLED"]
    PROVE  \E r \in TicketRow :
              /\ ticket' = [ticket EXCEPT ![t[1]] = [ticket[t[1]] EXCEPT ![t[2]] = r]]
              /\ r.order = Row(t).order /\ r.status = "CANCELLED" /\ r.used = Row(t).used
  <1> DEFINE r == [Row(t) EXCEPT !.status = "CANCELLED"]
  <1>1. Row(t) \in TicketRow /\ t[1] \in Seats /\ t[2] \in DOMAIN ticket[t[1]]
    BY ExistingTyped
  <1>2. r \in TicketRow /\ r.order = Row(t).order /\ r.status = "CANCELLED" /\ r.used = Row(t).used
    BY <1>1 DEF TicketRow
  <1>3. ticket' = [ticket EXCEPT ![t[1]] = [ticket[t[1]] EXCEPT ![t[2]] = r]]
    BY <1>1 DEF Row, TablesOK
  <1>4. QED
    BY <1>2, <1>3

LEMMA UseRow ==
    ASSUME TablesOK, NEW t \in Existing,
           ticket' = [ticket EXCEPT ![t[1]][t[2]].used = TRUE, ![t[1]][t[2]].status = "USED"]
    PROVE  \E r \in TicketRow :
              /\ ticket' = [ticket EXCEPT ![t[1]] = [ticket[t[1]] EXCEPT ![t[2]] = r]]
              /\ r.order = Row(t).order /\ r.status = "USED" /\ r.used
  <1> DEFINE r == [Row(t) EXCEPT !.used = TRUE, !.status = "USED"]
  <1>1. Row(t) \in TicketRow /\ t[1] \in Seats /\ t[2] \in DOMAIN ticket[t[1]]
    BY ExistingTyped
  <1>2. r \in TicketRow /\ r.order = Row(t).order /\ r.status = "USED" /\ r.used
    BY <1>1 DEF TicketRow
  <1>3. ticket' = [ticket EXCEPT ![t[1]] = [ticket[t[1]] EXCEPT ![t[2]] = r]]
    BY <1>1 DEF Row, TablesOK
  <1>4. QED
    BY <1>2, <1>3

-----------------------------------------------------------------------------
(* The payment of an order by card runs once.                               *)

\* A payment that is confirmed is recorded.
LEMMA PayingIsRecorded ==
    ASSUME JobsAgree, NEW p \in Workers, NEW k \in Orders, Paying(p, k), Method[k] = "STRIPE"
    PROVE  <<k, "PAID">> \in recorded
  BY DEF Paying, JobsAgree, JobAgrees

\* A payment that worker p is confirming after a step was there before it, or
\* the step is the delivery that records it.
PaysAsBefore ==
    \A p \in Workers, k \in Orders : Method[k] = "STRIPE" /\ Paying(p, k)' =>
        \/ Paying(p, k)
        \/ /\ <<k, "PAID">> \in recorded' \ recorded
           /\ \A q \in Workers \ {p} : job'[q] = job[q]

LEMMA FinishPays ==
    ASSUME JobsAgree, NEW p \in Workers, Finish(p)
    PROVE  PaysAsBefore /\ job'[p].pc = "idle"
  <1>1. job'[p] = IdleJob /\ \A q \in Workers \ {p} : job'[q] = job[q]
    BY DEF Finish, JobsAgree
  <1>2. \A k \in Orders : ~Paying(p, k)'
    BY <1>1, IdleJobFields DEF Paying
  <1>3. \A q \in Workers \ {p}, k \in Orders : Paying(q, k)' => Paying(q, k)
    BY <1>1 DEF Paying
  <1>4. QED
    BY <1>1, <1>2, <1>3, IdleJobFields DEF PaysAsBefore

LEMMA ContinuePays ==
    ASSUME JobsAgree, NEW p \in Workers, NEW H \in SUBSET HoldIds,
           NEW pc \in {"holds", "issue", "fail"},
           job[p].pc \in {"read", "holds"}, Continue(p, pc, H)
    PROVE  PaysAsBefore
  <1>1. job[p].order \in Orders /\ job[p].to \in {"PAID", "FAILED"}
    BY DEF JobsAgree, JobAgrees, Job
  <1>2. job'[p] = NewJob(pc, job[p].order, job[p].to, H)
    BY DEF Continue, JobsAgree
  <1>3. \A q \in Workers \ {p} : job'[q] = job[q]
    BY DEF Continue, JobsAgree
  <1>4. \A k \in Orders : Paying(p, k)' => Paying(p, k)
    BY <1>1, <1>2, NewJobFields DEF Paying
  <1>5. \A q \in Workers \ {p}, k \in Orders : Paying(q, k)' => Paying(q, k)
    BY <1>3 DEF Paying
  <1>6. QED
    BY <1>4, <1>5 DEF PaysAsBefore

LEMMA StartPays ==
    ASSUME JobsAgree, NEW p \in Workers, NEW k \in Orders, NEW to \in {"PAID", "FAILED"},
           NEW pc \in {"create", "read"}, NEW H \in SUBSET HoldIds,
           job' = [job EXCEPT ![p] = NewJob(pc, k, to, H)],
           pc = "read" /\ to = "PAID" =>
              Method[k] = "FAKE" \/ <<k, "PAID">> \in recorded' \ recorded
    PROVE  PaysAsBefore
  <1>1. job'[p] = NewJob(pc, k, to, H) /\ \A q \in Workers \ {p} : job'[q] = job[q]
    BY DEF JobsAgree
  <1>2. \A l \in Orders : Paying(p, l)' => l = k /\ pc = "read" /\ to = "PAID"
    BY <1>1, NewJobFields DEF Paying
  <1>3. \A q \in Workers \ {p}, l \in Orders : Paying(q, l)' => Paying(q, l)
    BY <1>1 DEF Paying
  <1>4. QED
    BY <1>1, <1>2, <1>3 DEF PaysAsBefore

LEMMA JobUntouchedPays == ASSUME job' = job PROVE PaysAsBefore
  BY DEF PaysAsBefore, Paying

LEMMA PaysStep ==
    ASSUME JobsAgree, LinkedToBuyer, [Next]_checkoutVars
    PROVE  PaysAsBefore
  <1>1. ASSUME NEW p \in Workers, NEW k \in Orders, NEW H, CreateRequest(p, k, H)
        PROVE  PaysAsBefore
    <2>1. H \in SUBSET HoldIds
      BY <1>1 DEF CreateRequest, OwnedActive
    <2>2. QED
      BY <1>1, <2>1, StartPays DEF CreateRequest
  <1>2. ASSUME NEW p \in Workers, NEW k \in Orders, NEW to \in {"PAID", "FAILED"},
               Simulate(p, k, to)
        PROVE  PaysAsBefore
    <2>1. {} \in SUBSET HoldIds
      OBVIOUS
    <2>2. QED
      BY <1>2, <2>1, StartPays DEF Simulate
  <1>3. ASSUME NEW p \in Workers, NEW k \in Orders, NEW to \in {"PAID", "FAILED"},
               Deliver(p, <<k, to>>)
        PROVE  PaysAsBefore
    <2>1. CASE IsNew(<<k, to>>)
      <3>1. /\ job' = [job EXCEPT ![p] = NewJob("read", k, to, {})]
            /\ <<k, to>> \in recorded' \ recorded
        BY <1>3, <2>1 DEF Deliver, Target, IsNew
      <3>2. {} \in SUBSET HoldIds
        OBVIOUS
      <3>3. QED
        BY <3>1, <3>2, StartPays
    <2>2. CASE ~IsNew(<<k, to>>)
      BY <1>3, <2>2, JobUntouchedPays DEF Deliver
    <2>3. QED
      BY <2>1, <2>2
  <1>4. ASSUME NEW p \in Workers, Process(p)
        PROVE  PaysAsBefore
    <2>1. CASE ReadOrder(p)
      BY <2>1, FinishPays, ContinuePays DEF ReadOrder, FinishAndAck
    <2>2. CASE FindHolds(p)
      <3>1. LinkedHolds(job[p].order) \in SUBSET HoldIds
        BY DEF LinkedHolds
      <3>2. QED
        BY <2>2, <3>1, FinishPays, ContinuePays DEF FindHolds, FinishWithError
    <2>3. CASE CreateCommits(p) \/ IssueTickets(p) \/ IssueConflicts(p) \/ FailCommits(p)
      BY <2>3, FinishPays
         DEF CreateCommits, IssueTickets, IssueConflicts, FailCommits, FinishAndAck, FinishWithError
    <2>4. QED
      BY <1>4, <2>1, <2>2, <2>3 DEF Process
  <1>5. ASSUME NEW p \in Workers, JobDies(p)
        PROVE  PaysAsBefore
    BY <1>5, FinishPays DEF JobDies, FinishWithError
  <1>6. ASSUME NEW k \in Orders, CardAccepted(k) \/ CardDeclined(k)
        PROVE  PaysAsBefore
    BY <1>6, JobUntouchedPays DEF CardAccepted, CardDeclined
  <1>7. CASE CronExpireOrders \/ Holding \/ UNCHANGED checkoutVars
    BY <1>7, JobUntouchedPays DEF CronExpireOrders, Holding, checkoutVars
  <1>8. QED
    BY <1>1, <1>2, <1>3, <1>4, <1>5, <1>6, <1>7 DEF Next

LEMMA OnePaymentStep ==
    ASSUME CheckoutInv, OnePayment, [Next]_checkoutVars
    PROVE  OnePayment'
  <1>1. JobsAgree /\ PaysAsBefore
    BY PaysStep DEF CheckoutInv
  <1>2. SUFFICES ASSUME NEW k \in Orders, Method[k] = "STRIPE",
                        NEW p \in Workers, NEW q \in Workers,
                        Paying(p, k)', Paying(q, k)', p # q
                 PROVE  FALSE
    BY DEF OnePayment
  <1>3. ASSUME NEW u \in Workers, NEW v \in Workers, u # v, Paying(u, k)', Paying(v, k)'
        PROVE  Paying(u, k)
    <2>1. CASE <<k, "PAID">> \in recorded' \ recorded /\ job'[v] = job[v]
      <3>1. Paying(v, k)
        BY <1>3, <2>1 DEF Paying
      <3>2. QED
        BY <1>1, <1>2, <2>1, <3>1, PayingIsRecorded
    <2>2. QED
      BY <1>1, <1>2, <1>3, <2>1 DEF PaysAsBefore
  <1>4. Paying(p, k) /\ Paying(q, k)
    BY <1>2, <1>3
  <1>5. QED
    BY <1>2, <1>4 DEF OnePayment

\* Once settled, for good.
LEMMA SettledKept ==
    ASSUME CheckoutInv, [Next]_checkoutVars, NEW k \in Orders, Method[k] = "STRIPE", Settled(k)
    PROVE  Settled(k)'
  <1>1. JobsAgree /\ PaysAsBefore /\ recorded \subseteq recorded'
    BY PaysStep, CheckoutStepKept DEF CheckoutInv, PayKept
  <1>2. QED
    BY <1>1 DEF Settled, PaysAsBefore

LEMMA IssueIsPaying ==
    ASSUME CheckoutInv, NEW p \in Workers, IssueTickets(p)
    PROVE  job[p].order \in Orders /\ Paying(p, job[p].order)
  BY IssueStep DEF Paying, IssueTickets

LEMMA IssueSettles ==
    ASSUME CheckoutInv, OnePayment, NEW p \in Workers, IssueTickets(p),
           NEW k, k = job[p].order, Method[k] = "STRIPE"
    PROVE  Settled(k)'
  <1>1. [Next]_checkoutVars
    BY DEF Next, Process
  <1>2. k \in Orders /\ Paying(p, k) /\ JobsAgree
    BY IssueIsPaying DEF CheckoutInv
  <1>3. <<k, "PAID">> \in recorded /\ recorded' = recorded
    BY <1>2, PayingIsRecorded DEF IssueTickets, FinishAndAck
  <1>4. job'[p].pc = "idle" /\ PaysAsBefore
    BY <1>2, FinishPays DEF IssueTickets, FinishAndAck
  <1>5. ASSUME NEW q \in Workers, Paying(q, k)'
        PROVE  FALSE
    <2>1. Paying(q, k)
      BY <1>2, <1>3, <1>4, <1>5 DEF PaysAsBefore
    <2>2. q = p
      BY <1>2, <2>1 DEF OnePayment
    <2>3. QED
      BY <1>4, <1>5, <2>2 DEF Paying
  <1>6. QED
    BY <1>3, <1>5 DEF Settled

-----------------------------------------------------------------------------
(* What selling does to tickets and orders.                                 *)

\* Rows stay as they are; a new one is ACTIVE and of the order of the worker
\* that issues.
LEMMA SellingTickets ==
    ASSUME CheckoutInv, [Next]_checkoutVars
    PROVE  /\ \A t \in Existing : t \in Existing' /\ Row(t)' = Row(t)
           /\ \A t \in Existing' : t \notin Existing =>
                 \E p \in Workers :
                    /\ IssueTickets(p) /\ Row(t)'.order = job[p].order
                    /\ t[1] \in {h[1] : h \in job[p].holds}
  <1>1. ASSUME NEW p \in Workers, IssueTickets(p)
        PROVE  /\ \A t \in Existing : t \in Existing' /\ Row(t)' = Row(t)
               /\ \A t \in Existing' : t \notin Existing =>
                     /\ Row(t)'.order = job[p].order
                     /\ t[1] \in {h[1] : h \in job[p].holds}
    <2> DEFINE k == job[p].order
               S == {h[1] : h \in job[p].holds}
    <2>1. k \in Orders /\ Issue(k, S) /\ TablesOK
      BY <1>1, IssueStep DEF CheckoutInv
    <2> HIDE DEF k, S
    <2>2. ASSUME NEW t \in Existing
          PROVE  t \in Existing' /\ Row(t)' = Row(t)
      <3>1. t[1] \in Seats /\ t[2] \in DOMAIN ticket[t[1]] /\ t = <<t[1], t[2]>>
        BY <2>1, ExistingTyped
      <3>2. t[2] \in DOMAIN ticket'[t[1]] /\ ticket'[t[1]][t[2]] = ticket[t[1]][t[2]]
        BY <2>1, <3>1, IssueFacts
      <3>3. QED
        BY <3>1, <3>2, ExistingIffNext DEF Row
    <2>3. ASSUME NEW t \in Existing', t \notin Existing
          PROVE  Row(t)'.order = k /\ t[1] \in S
      <3>1. TablesOK'
        BY <1>1, CheckoutStepInv DEF Next, Process, CheckoutInv
      <3>2. t[1] \in Seats /\ t[2] \in DOMAIN ticket'[t[1]] /\ t = <<t[1], t[2]>>
        <4>1. PICK s \in Seats : t \in {s} \X DOMAIN ticket'[s]
          BY DEF Existing
        <4>2. QED
          BY <4>1
      <3>3. t[2] \notin DOMAIN ticket[t[1]]
        BY <2>3, <3>2, ExistingIff
      <3>4. t[1] \in S
        BY <2>1, <3>2, <3>3, IssueFacts
      <3>5. /\ DOMAIN ticket'[t[1]] = 1 .. Len(ticket[t[1]]) + 1
            /\ DOMAIN ticket[t[1]] = 1 .. Len(ticket[t[1]])
            /\ Len(ticket[t[1]]) \in Nat
            /\ ticket'[t[1]][Len(ticket[t[1]]) + 1].order = k
        BY <2>1, <3>2, <3>4, IssueFacts
      <3>6. t[2] = Len(ticket[t[1]]) + 1
        BY <3>2, <3>3, <3>5
      <3>7. QED
        BY <3>4, <3>5, <3>6 DEF Row
    <2>4. QED
      BY <2>2, <2>3 DEF k, S
  <1>2. CASE ~\E p \in Workers : IssueTickets(p)
    BY <1>2, OnlyIssueIssues DEF NothingIssued, Existing, Row
  <1>3. QED
    BY <1>1, <1>2

\* The order of a new ticket is one whose payment was being confirmed.
LEMMA NewTicketWasPaying ==
    ASSUME CheckoutInv, [Next]_checkoutVars, NEW t \in Existing', t \notin Existing
    PROVE  /\ Row(t)'.order \in Orders
           /\ \E p \in Workers : IssueTickets(p) /\ Row(t)'.order = job[p].order
                                 /\ Paying(p, Row(t)'.order)
  <1>1. PICK p \in Workers : IssueTickets(p) /\ Row(t)'.order = job[p].order
    BY SellingTickets
  <1>2. job[p].order \in Orders /\ Paying(p, job[p].order)
    BY <1>1, IssueIsPaying
  <1>3. QED
    BY <1>1, <1>2

\* Nothing but a cancellation makes an order REFUNDED, and no order that
\* exists is forgotten.
OrdersGoOn ==
    \A k \in Orders :
        /\ order'[k].status = "REFUNDED" => order[k].status = "REFUNDED"
        /\ order[k].status \in OrderStatus => order'[k].status \in OrderStatus

LEMMA SetStatusGoesOn ==
    ASSUME TablesOK, NEW k \in Orders, NEW status \in OrderStatus, status # "REFUNDED",
           SetStatus(k, status)
    PROVE  OrdersGoOn /\ order'[k].status = status
  <1>1. order[k] \in OrderRow
    BY DEF TablesOK
  <1>2. [order[k] EXCEPT !.status = status].status = status
    BY <1>1 DEF OrderRow
  <1>3. order' = [order EXCEPT ![k] = [order[k] EXCEPT !.status = status]]
    BY DEF SetStatus, TablesOK
  <1>4. QED
    BY <1>2, <1>3 DEF TablesOK, OrdersGoOn

LEMMA CronExpireGoesOn == ASSUME TablesOK, CronExpireOrders PROVE OrdersGoOn
  <1>1. \A k \in Orders : order'[k].status # "EXPIRED" => order'[k] = order[k]
    BY CronExpireOrdersTables
  <1>2. QED
    BY <1>1 DEF OrdersGoOn, OrderStatus

LEMMA OrdersStep ==
    ASSUME CheckoutInv, [Next]_checkoutVars
    PROVE  OrdersGoOn
  <1>1. ASSUME NEW p \in Workers, NEW k \in Orders, NEW H, NEW to,
               CreateRequest(p, k, H) \/ Simulate(p, k, to) \/ Deliver(p, <<k, to>>)
        PROVE  OrdersGoOn
    BY <1>1 DEF CreateRequest, Simulate, Deliver, OrdersGoOn
  <1>2. ASSUME NEW k \in Orders, CardAccepted(k) \/ CardDeclined(k)
        PROVE  OrdersGoOn
    BY <1>2 DEF CardAccepted, CardDeclined, OrdersGoOn
  <1>3. ASSUME NEW p \in Workers, CreateCommits(p)
        PROVE  OrdersGoOn
    BY <1>3 DEF CreateCommits, CheckoutInv, TablesOK, OrdersGoOn, OrderStatus
  <1>4. ASSUME NEW p \in Workers, IssueTickets(p) \/ FailCommits(p)
        PROVE  OrdersGoOn
    <2>1. job[p].order \in Orders /\ TablesOK
      BY <1>4 DEF IssueTickets, FailCommits, CheckoutInv, JobsAgree, JobAgrees
    <2>2. SetStatus(job[p].order, "PAID") \/ SetStatus(job[p].order, "FAILED")
      BY <1>4 DEF IssueTickets, FailCommits
    <2>3. QED
      BY <2>1, <2>2, SetStatusGoesOn DEF OrderStatus
  <1>5. ASSUME NEW p \in Workers, ReadOrder(p) \/ FindHolds(p) \/ IssueConflicts(p) \/ JobDies(p)
        PROVE  OrdersGoOn
    BY <1>5 DEF ReadOrder, FindHolds, IssueConflicts, JobDies, OrdersGoOn
  <1>6. CASE CronExpireOrders
    BY <1>6, CronExpireGoesOn DEF CheckoutInv
  <1>7. CASE Holding \/ UNCHANGED checkoutVars
    BY <1>7 DEF Holding, checkoutVars, OrdersGoOn
  <1>8. QED
    BY <1>1, <1>2, <1>3, <1>4, <1>5, <1>6, <1>7 DEF Next, Process

\* Only a sale makes a seat SOLD.
SoldAsBefore ==
    \A s \in Seats : seatState'[s].status = "SOLD" => seatState[s].status = "SOLD"

LEMMA StoreSells ==
    ASSUME HoldTransaction PROVE SoldAsBefore
  <1>1. ASSUME NEW u \in Users, NEW S \in (SUBSET Seats) \ {{}}, CreateHolds(u, S)
        PROVE  SoldAsBefore
    BY <1>1 DEF CreateHolds, MarkHeld, SoldAsBefore
  <1>2. ASSUME NEW s \in Seats, LazyRelease({s})
        PROVE  SoldAsBefore
    BY <1>2 DEF LazyRelease, SoldAsBefore
  <1>3. ASSUME NEW s \in Seats, NEW i \in DOMAIN hold[s], ReleaseHold(s, i)
        PROVE  SoldAsBefore
    BY <1>3 DEF ReleaseHold, MarkFree, SoldAsBefore
  <1>4. CASE CronExpireHolds
    BY <1>4 DEF CronExpireHolds, MarkFree, SoldAsBefore
  <1>5. CASE Tick
    BY <1>5 DEF Tick, SoldAsBefore
  <1>6. QED
    BY <1>1, <1>2, <1>3, <1>4, <1>5 DEF HoldTransaction

LEMMA OnlyIssueSells ==
    ASSUME [Next]_checkoutVars, ~\E p \in Workers : IssueTickets(p)
    PROVE  SoldAsBefore
  <1>1. ASSUME NEW p \in Workers, NEW k \in Orders, NEW H, CreateRequest(p, k, H)
        PROVE  SoldAsBefore
    BY <1>1 DEF CreateRequest, storeVars, SoldAsBefore
  <1>2. ASSUME NEW p \in Workers, NEW k \in Orders, NEW to,
               Simulate(p, k, to) \/ Deliver(p, <<k, to>>)
        PROVE  SoldAsBefore
    BY <1>2 DEF Simulate, Deliver, storeVars, SoldAsBefore
  <1>3. ASSUME NEW k \in Orders, CardAccepted(k) \/ CardDeclined(k)
        PROVE  SoldAsBefore
    BY <1>3 DEF CardAccepted, CardDeclined, storeVars, SoldAsBefore
  <1>4. ASSUME NEW p \in Workers,
               \/ CreateCommits(p) \/ ReadOrder(p) \/ FindHolds(p)
               \/ IssueConflicts(p) \/ FailCommits(p) \/ JobDies(p)
        PROVE  SoldAsBefore
    BY <1>4 DEF CreateCommits, ReadOrder, FindHolds, IssueConflicts, FailCommits, JobDies,
                storeVars, SoldAsBefore
  <1>5. CASE Holding
    BY <1>5, StoreSells DEF Holding
  <1>6. CASE CronExpireOrders \/ UNCHANGED checkoutVars
    BY <1>6 DEF CronExpireOrders, checkoutVars, storeVars, SoldAsBefore
  <1>7. QED
    BY <1>1, <1>2, <1>3, <1>4, <1>5, <1>6 DEF Next, Process

-----------------------------------------------------------------------------
(* What a cancellation and an admission do to tickets.                      *)

\* The row of t, and only it, changes: it is not ACTIVE any more, and used if
\* it was.
Retired(t) ==
    /\ t \in Existing /\ Existing' = Existing
    /\ ticket' \in [Seats -> Seq(TicketRow)]
    /\ Row(t)'.status # "ACTIVE" /\ (Row(t).used => Row(t)'.used)
    /\ Row(t)'.order = Row(t).order
    /\ \A o \in Existing \ {t} : Row(o)' = Row(o)
    /\ \A s \in Seats : DOMAIN ticket'[s] = DOMAIN ticket[s]
    /\ \A s \in Seats : \A j \in DOMAIN ticket[s] :
          /\ ticket'[s][j].order = ticket[s][j].order
          /\ ticket'[s][j].status = "ACTIVE" => ticket[s][j].status = "ACTIVE"
    /\ \A s \in Seats \ {t[1]} : ticket'[s] = ticket[s]

LEMMA SetRowRetires ==
    ASSUME TablesOK, NEW t \in Existing, NEW r \in TicketRow,
           ticket' = [ticket EXCEPT ![t[1]] = [ticket[t[1]] EXCEPT ![t[2]] = r]],
           r.order = Row(t).order, r.status # "ACTIVE", Row(t).used => r.used
    PROVE  Retired(t)
  <1>1. /\ ticket' \in [Seats -> Seq(TicketRow)]
        /\ \A s \in Seats : DOMAIN ticket'[s] = DOMAIN ticket[s]
        /\ Existing' = Existing
        /\ Row(t)' = r
        /\ \A o \in Existing \ {t} : Row(o)' = Row(o)
        /\ \A s \in Seats \ {t[1]} : ticket'[s] = ticket[s]
    BY SetRow
  <1>2. ASSUME NEW s \in Seats, NEW j \in DOMAIN ticket[s]
        PROVE  /\ ticket'[s][j].order = ticket[s][j].order
               /\ ticket'[s][j].status = "ACTIVE" => ticket[s][j].status = "ACTIVE"
    <2>1. /\ <<s, j>> \in Existing
          /\ Row(<<s, j>>) = ticket[s][j] /\ Row(<<s, j>>)' = ticket'[s][j]
      BY ExistingIff DEF Row
    <2>2. CASE <<s, j>> = t
      BY <1>1, <2>1, <2>2
    <2>3. CASE <<s, j>> # t
      BY <1>1, <2>1, <2>3
    <2>4. QED
      BY <2>2, <2>3
  <1>3. QED
    BY <1>1, <1>2 DEF Retired

\* The seats, orders and handlers around a row that is retired.
LEMMA RetireKeepsCheckoutInv ==
    ASSUME CheckoutInv, NEW t, Retired(t), UNCHANGED storeVars \/ ReturnSeat(t[1]),
           order' \in [Orders -> OrderRow], UNCHANGED <<orderOf, payVars, job>>
    PROVE  CheckoutInv' /\ hold' = hold
  <1>1. t[1] \in Seats
    BY ExistingTyped DEF CheckoutInv, Retired
  <1>2. [StoreNext]_storeVars
    BY <1>1 DEF StoreNext
  <1>3. StoreInv' /\ RowsKept
    BY <1>2, StoreStepInv, StoreStepKeepsRows DEF CheckoutInv, StoreInv
  <1>4. TablesOK'
    BY DEF Retired, CheckoutInv, TablesOK
  <1>5. PayInv' /\ Kept
    BY <1>3, PayUntouched DEF CheckoutInv, PayKept, Kept
  <1>6. JobsAgree'
    BY <1>5, JobUntouchedAgrees DEF CheckoutInv
  <1>7. LinkedToBuyer'
    BY <1>3, LinksUntouched DEF CheckoutInv
  <1>8. hold' = hold
    BY DEF ReturnSeat, storeVars
  <1>9. QED
    BY <1>3, <1>4, <1>5, <1>6, <1>7, <1>8 DEF CheckoutInv

\* What of the payments and tickets does not depend on orders and seats.
LEMMA RetireKeepsPayments ==
    ASSUME CheckoutInv, OnePayment, TicketsAreSettled, NoSecondTicket, NEW t, Retired(t),
           UNCHANGED <<payVars, job>>
    PROVE  OnePayment' /\ TicketsAreSettled' /\ NoSecondTicket' /\ \A k : Settled(k) => Settled(k)'
  <1>1. \A p, k : Paying(p, k)' <=> Paying(p, k)
    BY DEF Paying
  <1>2. recorded' = recorded
    BY DEF payVars
  <1>3. OnePayment'
    BY <1>1 DEF OnePayment
  <1>4. \A k : Settled(k) => Settled(k)'
    BY <1>1, <1>2 DEF Settled
  <1>5. \A o \in Existing' : o \in Existing /\ Row(o)'.order = Row(o).order
    BY DEF Retired
  <1>6. TicketsAreSettled'
    BY <1>4, <1>5 DEF TicketsAreSettled
  <1>7. NoSecondTicket'
    BY DEF Retired, NoSecondTicket
  <1>8. QED
    BY <1>3, <1>4, <1>6, <1>7

LEMMA RetireKeepsTickets ==
    ASSUME CheckoutInv, OneActiveTicket, TicketComesFromHold, IssuedOnlyAfterCharge,
           NEW t, Retired(t), hold' = hold, charged' = charged
    PROVE  OneActiveTicket' /\ TicketComesFromHold' /\ IssuedOnlyAfterCharge'
  <1>1. OneActiveTicket'
    BY DEF OneActiveTicket, Retired
  <1>2. TicketComesFromHold'
    <2>1. SUFFICES ASSUME NEW s \in Seats, NEW j \in DOMAIN ticket[s]
                   PROVE  \E i \in DOMAIN hold[s] :
                             /\ hold[s][i].released
                             /\ hold[s][i].user = Buyer[ticket'[s][j].order]
      BY DEF TicketComesFromHold, Retired
    <2>2. ticket'[s][j].order = ticket[s][j].order
      BY DEF Retired
    <2>3. QED
      BY <2>2 DEF TicketComesFromHold
  <1>3. IssuedOnlyAfterCharge'
    BY DEF IssuedOnlyAfterCharge, Retired
  <1>4. QED
    BY <1>1, <1>2, <1>3

\* A desk that is not idle works on a ticket that exists.
LEMMA DeskTicket ==
    ASSUME DesksAgree, NEW d \in Desks, desk[d].pc # "idle"
    PROVE  desk[d].ticket \in Existing /\ desk[d] \in Desk
  BY DEF DesksAgree, DeskAgrees

LEMMA CancelFacts ==
    ASSUME LifeInv, NEW d \in Desks, CancelCommits(d), NEW t, t = desk[d].ticket
    PROVE  /\ Retired(t) /\ Row(t)'.status = "CANCELLED"
           /\ ReturnSeat(t[1]) /\ UNCHANGED <<orderOf, payVars, job>>
           /\ Row(t).order \in Orders
           /\ order' \in [Orders -> OrderRow]
           /\ \A k \in Orders : order'[k] # order[k] =>
                 desk[d].last /\ k = Row(t).order /\ order'[k].status = "REFUNDED"
  <1>1. TablesOK /\ t \in Existing
    BY DeskTicket DEF LifeInv, CheckoutInv, CancelCommits
  <1>2. ticket' = [ticket EXCEPT ![t[1]][t[2]].status = "CANCELLED"]
    BY DEF CancelCommits
  <1>3. PICK r \in TicketRow :
           /\ ticket' = [ticket EXCEPT ![t[1]] = [ticket[t[1]] EXCEPT ![t[2]] = r]]
           /\ r.order = Row(t).order /\ r.status = "CANCELLED" /\ r.used = Row(t).used
    BY <1>1, <1>2, CancelRow
  <1>4. Retired(t) /\ Row(t)' = r
    BY <1>1, <1>3, SetRow, SetRowRetires
  <1>5. Row(t).order \in Orders
    BY <1>1, ExistingTyped
  <1> DEFINE k == Row(t).order
             row == [order[k] EXCEPT !.status = "REFUNDED"]
  <1>6. row \in OrderRow /\ row.status = "REFUNDED"
    <2>1. order[k] \in OrderRow
      BY <1>1, <1>5 DEF TablesOK
    <2>2. QED
      BY <2>1 DEF OrderRow, OrderStatus
  <1>7. order' = IF desk[d].last THEN [order EXCEPT ![k] = row] ELSE order
    BY DEF CancelCommits
  <1> HIDE DEF row
  <1>8. /\ order' \in [Orders -> OrderRow]
        /\ \A l \in Orders : order'[l] # order[l] =>
              desk[d].last /\ l = k /\ order'[l].status = "REFUNDED"
    BY <1>1, <1>5, <1>6, <1>7 DEF TablesOK
  <1>9. ReturnSeat(t[1]) /\ UNCHANGED <<orderOf, payVars, job>>
    BY DEF CancelCommits, ReturnsSeat
  <1>10. QED
    BY <1>3, <1>4, <1>5, <1>8, <1>9

LEMMA MarkFacts ==
    ASSUME LifeInv, NEW d \in Desks, GateMark(d), NEW t, t = desk[d].ticket, NotUsed(t)
    PROVE  /\ Retired(t) /\ Row(t)'.status # "CANCELLED" /\ Row(t)'.used
           /\ UNCHANGED storeVars /\ UNCHANGED <<orderOf, payVars, job>> /\ order' = order
           /\ admitted' = admitted (+) SetToBag({t})
           /\ ~Row(t).used
  <1>1. TablesOK /\ t \in Existing
    BY DeskTicket DEF LifeInv, CheckoutInv, GateMark
  <1>2. ticket' = [ticket EXCEPT ![t[1]][t[2]].used = TRUE, ![t[1]][t[2]].status = "USED"]
    BY DEF GateMark
  <1>3. PICK r \in TicketRow :
           /\ ticket' = [ticket EXCEPT ![t[1]] = [ticket[t[1]] EXCEPT ![t[2]] = r]]
           /\ r.order = Row(t).order /\ r.status = "USED" /\ r.used
    BY <1>1, <1>2, UseRow
  <1>4. Retired(t) /\ Row(t)' = r
    BY <1>1, <1>3, SetRow, SetRowRetires
  <1>5. QED
    BY <1>3, <1>4 DEF GateMark, NotUsed

-----------------------------------------------------------------------------
(* A step sells, cancels or admits; only these change tickets and orders.   *)

Cancels == \E d \in Desks : CancelCommits(d)

Admits == \E d \in Desks : GateMark(d) /\ NotUsed(desk[d].ticket)

LEMMA ThreeKinds ==
    ASSUME [LifeNext]_allVars
    PROVE  [Next]_checkoutVars \/ Cancels \/ Admits
  <1>1. ASSUME NEW d \in Desks, NEW t, CancelRequest(d, t) \/ GateScan(d, t)
        PROVE  UNCHANGED checkoutVars
    BY <1>1 DEF CancelRequest, GateScan
  <1>2. ASSUME NEW d \in Desks,
               ReadEventAndOrder(d) \/ CancelCounts(d) \/ Refund(d) \/ DeskDies(d)
        PROVE  UNCHANGED checkoutVars
    BY <1>2 DEF ReadEventAndOrder, CancelCounts, Refund, DeskDies
  <1>3. ASSUME NEW d \in Desks, GateMark(d), ~NotUsed(desk[d].ticket)
        PROVE  UNCHANGED checkoutVars
    BY <1>3 DEF GateMark, checkoutVars
  <1>4. CASE Selling \/ PhaseAdvances \/ UNCHANGED allVars
    BY <1>4 DEF Selling, PhaseAdvances, allVars
  <1>5. QED
    BY <1>1, <1>2, <1>3, <1>4 DEF LifeNext, Cancels, Admits

\* Whatever a step does to a ticket, it never goes back.
TicketsGoOn ==
    \A t \in Existing :
        /\ t \in Existing' /\ Row(t)'.order = Row(t).order
        /\ Row(t).status # "ACTIVE" => Row(t)'.status # "ACTIVE"
        /\ Row(t).used => Row(t)'.used

LEMMA RetireGoesOn == ASSUME NEW t, Retired(t) PROVE TicketsGoOn
  BY DEF Retired, TicketsGoOn

LEMMA TicketsGoOnStep ==
    ASSUME LifeInv, [LifeNext]_allVars
    PROVE  TicketsGoOn
  <1>1. CASE [Next]_checkoutVars
    BY <1>1, SellingTickets DEF TicketsGoOn, LifeInv
  <1>2. CASE Cancels
    <2>1. PICK d \in Desks : CancelCommits(d)
      BY <1>2 DEF Cancels
    <2>2. QED
      BY <2>1, CancelFacts, RetireGoesOn
  <1>3. CASE Admits
    <2>1. PICK d \in Desks : GateMark(d) /\ NotUsed(desk[d].ticket)
      BY <1>3 DEF Admits
    <2>2. QED
      BY <2>1, MarkFacts, RetireGoesOn
  <1>4. QED
    BY <1>1, <1>2, <1>3, ThreeKinds

-----------------------------------------------------------------------------
(* Payments, orders and seats.                                              *)

\* The payments and the tickets they issue, when the step sells.
LEMMA SellingPayments ==
    ASSUME CheckoutInv, PaymentInv, [Next]_checkoutVars
    PROVE  PaymentInv'
  <1>1. OnePayment'
    BY OnePaymentStep DEF PaymentInv
  <1>2. ASSUME NEW t \in Existing', NEW k, k = Row(t)'.order, Method[k] = "STRIPE"
        PROVE  Settled(k)'
    <2>1. CASE t \in Existing
      <3>1. Row(t)' = Row(t) /\ Row(t).order \in Orders
        BY <2>1, SellingTickets, ExistingTyped DEF CheckoutInv
      <3>2. Settled(k) /\ k \in Orders
        BY <1>2, <2>1, <3>1 DEF PaymentInv, TicketsAreSettled
      <3>3. QED
        BY <1>2, <3>2, SettledKept
    <2>2. CASE t \notin Existing
      <3>1. PICK p \in Workers : IssueTickets(p) /\ Row(t)'.order = job[p].order
        BY <2>2, SellingTickets
      <3>2. QED
        BY <1>2, <3>1, IssueSettles DEF PaymentInv
    <2>3. QED
      BY <2>1, <2>2
  <1>3. TicketsAreSettled'
    BY <1>2 DEF TicketsAreSettled, Settled, Paying
  <1>4. RefundedIsSettled'
    BY OrdersStep, SettledKept DEF PaymentInv, RefundedIsSettled, OrdersGoOn
  <1>5. NoSecondTicket'
    <2>1. ASSUME NEW p \in Workers, IssueTickets(p)
          PROVE  NoSecondTicket'
      <3> DEFINE k == job[p].order
                 S == {h[1] : h \in job[p].holds}
      <3>1. k \in Orders /\ Issue(k, S) /\ Paying(p, k) /\ TablesOK
        BY <2>1, IssueStep, IssueIsPaying DEF CheckoutInv
      <3>2. \A s \in Seats : \A j \in DOMAIN ticket[s] :
               ticket[s][j].order = k => Method[k] # "STRIPE"
        <4>1. ASSUME NEW s \in Seats, NEW j \in DOMAIN ticket[s], ticket[s][j].order = k
              PROVE  Method[k] # "STRIPE"
          <5>1. <<s, j>> \in Existing /\ Row(<<s, j>>).order = k
            BY <4>1, ExistingIff DEF Row
          <5>2. QED
            BY <3>1, <5>1 DEF PaymentInv, TicketsAreSettled, Settled
        <4>2. QED
          BY <4>1
      <3> HIDE DEF k, S
      <3>3. SUFFICES ASSUME NEW s \in Seats, NEW i \in DOMAIN ticket'[s], NEW j \in DOMAIN ticket'[s],
                            ticket'[s][i].order = ticket'[s][j].order,
                            Method[ticket'[s][i].order] = "STRIPE"
                     PROVE  i = j
        BY DEF NoSecondTicket
      <3>4. CASE s \notin S
        BY <3>1, <3>3, <3>4, IssueFacts DEF PaymentInv, NoSecondTicket
      <3>5. CASE s \in S
        <4>1. /\ DOMAIN ticket'[s] = 1 .. Len(ticket[s]) + 1
              /\ DOMAIN ticket[s] = 1 .. Len(ticket[s])
              /\ Len(ticket[s]) \in Nat
              /\ \A l \in DOMAIN ticket[s] : ticket'[s][l] = ticket[s][l]
              /\ ticket'[s][Len(ticket[s]) + 1].order = k
          BY <3>1, <3>5, IssueFacts
        <4>2. \A l \in DOMAIN ticket'[s] : l \notin DOMAIN ticket[s] => l = Len(ticket[s]) + 1
          BY <4>1
        <4>3. CASE i \in DOMAIN ticket[s] /\ j \in DOMAIN ticket[s]
          BY <3>3, <4>1, <4>3 DEF PaymentInv, NoSecondTicket
        <4>4. CASE i \in DOMAIN ticket[s] /\ j \notin DOMAIN ticket[s]
          BY <3>2, <3>3, <4>1, <4>2, <4>4
        <4>5. CASE i \notin DOMAIN ticket[s] /\ j \in DOMAIN ticket[s]
          BY <3>2, <3>3, <4>1, <4>2, <4>5
        <4>6. CASE i \notin DOMAIN ticket[s] /\ j \notin DOMAIN ticket[s]
          BY <4>2, <4>6
        <4>7. QED
          BY <4>3, <4>4, <4>5, <4>6
      <3>6. QED
        BY <3>4, <3>5
    <2>2. CASE ~\E p \in Workers : IssueTickets(p)
      BY <2>2, OnlyIssueIssues DEF NothingIssued, NoSecondTicket, PaymentInv
    <2>3. QED
      BY <2>1, <2>2
  <1>6. QED
    BY <1>1, <1>3, <1>4, <1>5 DEF PaymentInv

\* An order that is settled gets no ticket any more.
LEMMA SettledIsServed ==
    ASSUME LifeInv, [LifeNext]_allVars, NEW k \in Orders, Settled(k),
           NEW t \in Existing', t \notin Existing
    PROVE  Row(t)'.order # k
  <1>1. CASE [Next]_checkoutVars
    BY <1>1, NewTicketWasPaying DEF LifeInv, Settled
  <1>2. CASE Cancels
    BY <1>2, CancelFacts DEF Cancels, Retired
  <1>3. CASE Admits
    BY <1>3, MarkFacts DEF Admits, Retired
  <1>4. QED
    BY <1>1, <1>2, <1>3, ThreeKinds

LEMMA PaymentsStep ==
    ASSUME LifeInv, [LifeNext]_allVars
    PROVE  CheckoutInv' /\ PaymentInv'
  <1>1. CASE [Next]_checkoutVars
    BY <1>1, SellingPayments, CheckoutStepInv DEF LifeInv
  <1>2. CASE Cancels
    <2>1. PICK d \in Desks : CancelCommits(d)
      BY <1>2 DEF Cancels
    <2>2. PICK t : t = desk[d].ticket
      OBVIOUS
    <2>3. /\ Retired(t) /\ ReturnSeat(t[1]) /\ UNCHANGED <<orderOf, payVars, job>>
          /\ order' \in [Orders -> OrderRow]
          /\ \A k \in Orders : order'[k] # order[k] => k = Row(t).order
      BY <2>1, <2>2, CancelFacts
    <2>4. CheckoutInv'
      BY <2>3, RetireKeepsCheckoutInv DEF LifeInv
    <2>5. OnePayment' /\ TicketsAreSettled' /\ NoSecondTicket' /\ \A k : Settled(k) => Settled(k)'
      BY <2>3, RetireKeepsPayments DEF LifeInv, PaymentInv
    <2>6. RefundedIsSettled'
      <3>1. \A k \in Orders : order[k].status = "REFUNDED" /\ Method[k] = "STRIPE" => Settled(k)
        BY DEF LifeInv, PaymentInv, RefundedIsSettled
      <3>2. Method[Row(t).order] = "STRIPE" => Settled(Row(t).order)
        BY <2>3 DEF LifeInv, PaymentInv, TicketsAreSettled, Retired
      <3>3. QED
        BY <2>3, <2>5, <3>1, <3>2 DEF RefundedIsSettled
    <2>7. QED
      BY <2>4, <2>5, <2>6 DEF PaymentInv
  <1>3. CASE Admits
    <2>1. PICK d \in Desks : GateMark(d) /\ NotUsed(desk[d].ticket)
      BY <1>3 DEF Admits
    <2>2. PICK t : t = desk[d].ticket
      OBVIOUS
    <2>3. /\ Retired(t) /\ UNCHANGED storeVars /\ UNCHANGED <<orderOf, payVars, job>>
          /\ order' = order
      BY <2>1, <2>2, MarkFacts
    <2>4. CheckoutInv'
      BY <2>3, RetireKeepsCheckoutInv DEF LifeInv, CheckoutInv, TablesOK
    <2>5. OnePayment' /\ TicketsAreSettled' /\ NoSecondTicket' /\ \A k : Settled(k) => Settled(k)'
      BY <2>3, RetireKeepsPayments DEF LifeInv, PaymentInv
    <2>6. RefundedIsSettled'
      BY <2>3, <2>5 DEF LifeInv, PaymentInv, RefundedIsSettled
    <2>7. QED
      BY <2>4, <2>5, <2>6 DEF PaymentInv
  <1>4. QED
    BY <1>1, <1>2, <1>3, ThreeKinds

LEMMA TicketHasOrderStep ==
    ASSUME LifeInv, [LifeNext]_allVars
    PROVE  TicketHasOrder'
  <1>1. SUFFICES ASSUME NEW t \in Existing'
                 PROVE  order'[Row(t)'.order].status \in OrderStatus
    BY DEF TicketHasOrder
  <1>2. CASE [Next]_checkoutVars
    <2>1. CASE t \in Existing
      <3>1. Row(t)' = Row(t) /\ Row(t).order \in Orders
        BY <1>2, <2>1, SellingTickets, ExistingTyped DEF LifeInv, CheckoutInv
      <3>2. QED
        BY <1>2, <2>1, <3>1, OrdersStep DEF LifeInv, TicketHasOrder, OrdersGoOn
    <2>2. CASE t \notin Existing
      <3>1. PICK p \in Workers : IssueTickets(p) /\ Row(t)'.order = job[p].order
        BY <1>2, <2>2, SellingTickets DEF LifeInv
      <3>2. job[p].order \in Orders /\ SetStatus(job[p].order, "PAID")
        BY <3>1, IssueStep DEF LifeInv
      <3>3. QED
        BY <3>1, <3>2, SetStatusGoesOn DEF LifeInv, CheckoutInv, OrderStatus
    <2>3. QED
      BY <2>1, <2>2
  <1>3. CASE Cancels
    <2>1. PICK d \in Desks : CancelCommits(d)
      BY <1>3 DEF Cancels
    <2>2. /\ \A o \in Existing' : o \in Existing /\ Row(o)'.order = Row(o).order
          /\ \A k \in Orders : order'[k] # order[k] => order'[k].status = "REFUNDED"
      BY <2>1, CancelFacts DEF Retired
    <2>3. Row(t).order \in Orders
      BY <2>2, ExistingTyped DEF LifeInv, CheckoutInv
    <2>4. QED
      BY <2>2, <2>3 DEF LifeInv, TicketHasOrder, OrderStatus
  <1>4. CASE Admits
    <2>1. PICK d \in Desks : GateMark(d) /\ NotUsed(desk[d].ticket)
      BY <1>4 DEF Admits
    <2>2. /\ \A o \in Existing' : o \in Existing /\ Row(o)'.order = Row(o).order
          /\ order' = order
      BY <2>1, MarkFacts DEF Retired
    <2>3. QED
      BY <2>2 DEF LifeInv, TicketHasOrder
  <1>5. QED
    BY <1>2, <1>3, <1>4, ThreeKinds

\* Money back and ACTIVE tickets exclude each other.
LEMMA RefundedOrderStep ==
    ASSUME LifeInv, [LifeNext]_allVars
    PROVE  RefundedOrderHasNoActive'
  <1>1. SUFFICES ASSUME NEW t \in Existing', NEW k, k = Row(t)'.order,
                        order'[k].status = "REFUNDED", Method[k] = "STRIPE"
                 PROVE  Row(t)'.status # "ACTIVE"
    BY DEF RefundedOrderHasNoActive
  <1>2. CASE [Next]_checkoutVars
    <2>1. CheckoutInv
      BY DEF LifeInv
    <2>2. k \in Orders
      <3>1. CASE t \in Existing
        BY <1>1, <1>2, <2>1, <3>1, SellingTickets, ExistingTyped DEF CheckoutInv
      <3>2. CASE t \notin Existing
        BY <1>1, <1>2, <2>1, <3>2, NewTicketWasPaying
      <3>3. QED
        BY <3>1, <3>2
    <2>3. order[k].status = "REFUNDED"
      BY <1>1, <1>2, <2>1, <2>2, OrdersStep DEF OrdersGoOn
    <2>4. t \in Existing
      <3>1. Settled(k)
        BY <1>1, <2>2, <2>3 DEF LifeInv, PaymentInv, RefundedIsSettled
      <3>2. QED
        BY <1>1, <2>2, <3>1, SettledIsServed
    <2>5. Row(t)' = Row(t)
      BY <1>2, <2>1, <2>4, SellingTickets
    <2>6. QED
      BY <1>1, <2>3, <2>4, <2>5 DEF LifeInv, RefundedOrderHasNoActive
  <1>3. CASE Cancels
    <2>1. PICK d \in Desks : CancelCommits(d)
      BY <1>3 DEF Cancels
    <2>2. PICK u : u = desk[d].ticket
      OBVIOUS
    <2>3. /\ Retired(u) /\ Row(u).order \in Orders
          /\ \A l \in Orders : order'[l] # order[l] => desk[d].last /\ l = Row(u).order
      BY <2>1, <2>2, CancelFacts
    <2>4. CASE t = u
      BY <2>3, <2>4 DEF Retired
    <2>5. CASE t # u
      <3>1. t \in Existing /\ Row(t)' = Row(t) /\ Row(t).order = k /\ k \in Orders
        <4>1. t \in Existing /\ Row(t)' = Row(t)
          BY <2>3, <2>5 DEF Retired
        <4>2. Row(t).order \in Orders
          BY <4>1, ExistingTyped DEF LifeInv, CheckoutInv
        <4>3. QED
          BY <1>1, <4>1, <4>2
      <3>2. CASE order'[k] = order[k]
        BY <1>1, <3>1, <3>2 DEF LifeInv, RefundedOrderHasNoActive
      <3>3. CASE order'[k] # order[k]
        <4>1. desk[d].last /\ k = Row(u).order
          BY <2>3, <3>1, <3>3
        <4>2. LastActive(u)
          BY <1>1, <2>1, <2>2, <4>1 DEF LifeInv, DesksAgree, DeskAgrees, CancelCommits
        <4>3. QED
          BY <2>5, <3>1, <4>1, <4>2 DEF LastActive
      <3>4. QED
        BY <3>2, <3>3
    <2>6. QED
      BY <2>4, <2>5
  <1>4. CASE Admits
    <2>1. PICK d \in Desks : GateMark(d) /\ NotUsed(desk[d].ticket)
      BY <1>4 DEF Admits
    <2>2. PICK u : u = desk[d].ticket
      OBVIOUS
    <2>3. Retired(u) /\ order' = order
      BY <2>1, <2>2, MarkFacts
    <2>4. CASE t = u
      BY <2>3, <2>4 DEF Retired
    <2>5. CASE t # u
      <3>1. t \in Existing /\ Row(t)' = Row(t)
        BY <2>3, <2>5 DEF Retired
      <3>2. QED
        BY <1>1, <2>3, <3>1 DEF LifeInv, RefundedOrderHasNoActive
    <2>6. QED
      BY <2>4, <2>5
  <1>5. QED
    BY <1>2, <1>3, <1>4, ThreeKinds

LEMMA SellingSoldSeats ==
    ASSUME CheckoutInv, SoldSeatHasTicket, [Next]_checkoutVars
    PROVE  SoldSeatHasTicket'
  <1>1. ASSUME NEW p \in Workers, IssueTickets(p)
        PROVE  SoldSeatHasTicket'
    <2> DEFINE k == job[p].order
               H == job[p].holds
               S == {h[1] : h \in H}
    <2>1. k \in Orders /\ Issue(k, S) /\ ConsumeHolds(H)
      BY <1>1, IssueStep
    <2>2. \A s \in Seats : s \notin S => seatState'[s] = seatState[s]
      BY <2>1 DEF ConsumeHolds, MarkSold
    <2> HIDE DEF k, S, H
    <2>3. SUFFICES ASSUME NEW s \in Seats, seatState'[s].status = "SOLD"
                   PROVE  \E j \in DOMAIN ticket'[s] : ticket'[s][j].status # "CANCELLED"
      BY DEF SoldSeatHasTicket
    <2>4. CASE s \in S
      <3>1. /\ Len(ticket[s]) + 1 \in DOMAIN ticket'[s]
            /\ ticket'[s][Len(ticket[s]) + 1].status = "ACTIVE"
        BY <2>1, <2>4, IssueFacts DEF CheckoutInv
      <3>2. QED
        BY <3>1
    <2>5. CASE s \notin S
      BY <2>1, <2>2, <2>3, <2>5, IssueFacts DEF CheckoutInv, SoldSeatHasTicket
    <2>6. QED
      BY <2>4, <2>5
  <1>2. CASE ~\E p \in Workers : IssueTickets(p)
    BY <1>2, OnlyIssueIssues, OnlyIssueSells DEF NothingIssued, SoldAsBefore, SoldSeatHasTicket
  <1>3. QED
    BY <1>1, <1>2

LEMMA SoldSeatsStep ==
    ASSUME LifeInv, [LifeNext]_allVars
    PROVE  SoldSeatHasTicket'
  <1>1. CASE [Next]_checkoutVars
    BY <1>1, SellingSoldSeats DEF LifeInv
  <1>2. CASE Cancels
    <2>1. PICK d \in Desks : CancelCommits(d)
      BY <1>2 DEF Cancels
    <2>2. PICK t : t = desk[d].ticket
      OBVIOUS
    <2>3. Retired(t) /\ ReturnSeat(t[1])
      BY <2>1, <2>2, CancelFacts
    <2>4. ASSUME NEW s \in Seats, seatState'[s].status = "SOLD"
          PROVE  s # t[1] /\ seatState'[s] = seatState[s]
      BY <2>3, <2>4 DEF ReturnSeat, MarkFree
    <2>5. QED
      BY <2>3, <2>4 DEF Retired, LifeInv, SoldSeatHasTicket
  <1>3. CASE Admits
    <2>1. PICK d \in Desks : GateMark(d) /\ NotUsed(desk[d].ticket)
      BY <1>3 DEF Admits
    <2>2. PICK t : t = desk[d].ticket
      OBVIOUS
    <2>3. Retired(t) /\ Row(t)'.status # "CANCELLED" /\ seatState' = seatState
      BY <2>1, <2>2, MarkFacts DEF storeVars
    <2>4. SUFFICES ASSUME NEW s \in Seats, seatState[s].status = "SOLD"
                   PROVE  \E j \in DOMAIN ticket'[s] : ticket'[s][j].status # "CANCELLED"
      BY <2>3 DEF SoldSeatHasTicket
    <2>5. PICK j \in DOMAIN ticket[s] : ticket[s][j].status # "CANCELLED"
      BY <2>4 DEF LifeInv, SoldSeatHasTicket
    <2>6. /\ <<s, j>> \in Existing /\ Row(<<s, j>>) = ticket[s][j]
          /\ Row(<<s, j>>)' = ticket'[s][j]
      BY ExistingIff DEF Row
    <2>7. ticket'[s][j].status # "CANCELLED" /\ j \in DOMAIN ticket'[s]
      BY <2>3, <2>5, <2>6 DEF Retired
    <2>8. QED
      BY <2>7
  <1>4. QED
    BY <1>1, <1>2, <1>3, ThreeKinds

LEMMA RetireKeepsPaidOrders ==
    ASSUME PaidOrderHasTicket, NEW t, Retired(t), t[1] \in Seats, t[2] \in DOMAIN ticket[t[1]],
           \A k \in Orders : order'[k] # order[k] => k = Row(t).order
    PROVE  PaidOrderHasTicket'
  <1>1. \A s \in Seats : \A j \in DOMAIN ticket[s] :
           j \in DOMAIN ticket'[s] /\ ticket'[s][j].order = ticket[s][j].order
    BY DEF Retired
  <1>2. ticket'[t[1]][t[2]].order = Row(t).order
    BY <1>1 DEF Row
  <1>3. QED
    BY <1>1, <1>2 DEF PaidOrderHasTicket

\* The promises of Checkout go on holding.
LEMMA CheckoutPromisesStep ==
    ASSUME LifeInv, [LifeNext]_allVars
    PROVE  OneActiveTicket' /\ TicketComesFromHold' /\ PaidOrderHasTicket' /\ IssuedOnlyAfterCharge'
  <1>1. CASE [Next]_checkoutVars
    BY <1>1, OneActiveStep, TicketComesFromHoldStep, PaidOrderStep, IssuedAfterChargeStep
       DEF LifeInv
  <1>2. CASE Cancels
    <2>1. PICK d \in Desks : CancelCommits(d)
      BY <1>2 DEF Cancels
    <2>2. PICK t : t = desk[d].ticket
      OBVIOUS
    <2>3. /\ Retired(t) /\ hold' = hold /\ charged' = charged
          /\ \A k \in Orders : order'[k] # order[k] => k = Row(t).order
      BY <2>1, <2>2, CancelFacts DEF ReturnSeat, payVars
    <2>4. t[1] \in Seats /\ t[2] \in DOMAIN ticket[t[1]]
      BY <2>3, ExistingTyped DEF LifeInv, CheckoutInv, Retired
    <2>5. PaidOrderHasTicket'
      BY <2>3, <2>4, RetireKeepsPaidOrders DEF LifeInv
    <2>6. QED
      BY <2>3, <2>5, RetireKeepsTickets DEF LifeInv
  <1>3. CASE Admits
    <2>1. PICK d \in Desks : GateMark(d) /\ NotUsed(desk[d].ticket)
      BY <1>3 DEF Admits
    <2>2. PICK t : t = desk[d].ticket
      OBVIOUS
    <2>3. Retired(t) /\ hold' = hold /\ charged' = charged /\ order' = order
      BY <2>1, <2>2, MarkFacts DEF storeVars, payVars
    <2>4. t[1] \in Seats /\ t[2] \in DOMAIN ticket[t[1]]
      BY <2>3, ExistingTyped DEF LifeInv, CheckoutInv, Retired
    <2>5. PaidOrderHasTicket'
      BY <2>3, <2>4, RetireKeepsPaidOrders DEF LifeInv
    <2>6. QED
      BY <2>3, <2>5, RetireKeepsTickets DEF LifeInv
  <1>4. QED
    BY <1>1, <1>2, <1>3, ThreeKinds

-----------------------------------------------------------------------------
(* The desks, the refunds and the admissions.                               *)

\* The last ACTIVE ticket of a settled order stays its last.
LEMMA LastActiveKept ==
    ASSUME LifeInv, [LifeNext]_allVars, NEW t \in Existing,
           Method[Row(t).order] = "STRIPE", LastActive(t)
    PROVE  LastActive(t)'
  <1>1. TicketsGoOn
    BY TicketsGoOnStep
  <1>2. PICK k \in Orders : k = Row(t).order
    BY ExistingTyped DEF LifeInv, CheckoutInv
  <1>3. Row(t)'.order = k /\ Settled(k)
    BY <1>1, <1>2 DEF TicketsGoOn, LifeInv, PaymentInv, TicketsAreSettled
  <1>4. ASSUME NEW o \in Existing' \ {t}, Row(o)'.order = k, Row(o)'.status = "ACTIVE"
        PROVE  FALSE
    <2>1. o \in Existing
      BY <1>3, <1>4, SettledIsServed
    <2>2. Row(o).order = k /\ Row(o).status = "ACTIVE"
      BY <1>1, <1>4, <2>1 DEF TicketsGoOn
    <2>3. QED
      BY <1>2, <1>4, <2>1, <2>2 DEF LastActive
  <1>5. QED
    BY <1>3, <1>4 DEF LastActive

LEMMA UntouchedDeskAgrees ==
    ASSUME LifeInv, [LifeNext]_allVars, NEW d \in Desks, desk'[d] = desk[d]
    PROVE  DeskAgrees(d)'
  <1>1. PICK t : t = desk[d].ticket
    OBVIOUS
  <1>2. SUFFICES ASSUME desk[d].pc # "idle"
                 PROVE  /\ t \in Existing'
                        /\ desk[d].pc = "commit" /\ desk[d].last
                              /\ Method[Row(t)'.order] = "STRIPE" => LastActive(t)'
                        /\ desk[d].pc = "refund" => Row(t)'.status # "ACTIVE"
    BY <1>1 DEF DeskAgrees, LastActive, Row
  <1>3. /\ t \in Existing
        /\ desk[d].pc = "commit" /\ desk[d].last /\ Method[Row(t).order] = "STRIPE" =>
              LastActive(t)
        /\ desk[d].pc = "refund" => Row(t).status # "ACTIVE"
    BY <1>1, <1>2 DEF LifeInv, DesksAgree, DeskAgrees
  <1>4. TicketsGoOn
    BY TicketsGoOnStep
  <1>5. QED
    BY <1>3, <1>4, LastActiveKept DEF TicketsGoOn

LEMMA SetDeskAgrees ==
    ASSUME LifeInv, [LifeNext]_allVars, NEW d \in Desks, NEW r \in Desk,
           desk' = [desk EXCEPT ![d] = r], DeskAgrees(d)'
    PROVE  DesksAgree'
  <1>1. desk \in [Desks -> Desk]
    BY DEF LifeInv, DesksAgree
  <1>2. desk' \in [Desks -> Desk]
    BY <1>1
  <1>3. ASSUME NEW e \in Desks
        PROVE  DeskAgrees(e)'
    <2>1. CASE e = d
      BY <2>1
    <2>2. CASE e # d
      BY <1>1, <2>2, UntouchedDeskAgrees
    <2>3. QED
      BY <2>1, <2>2
  <1>4. QED
    BY <1>2, <1>3 DEF DesksAgree

LEMMA LeaveAgrees ==
    ASSUME LifeInv, [LifeNext]_allVars, NEW d \in Desks, Leave(d)
    PROVE  DesksAgree'
  <1>1. IdleDesk \in Desk /\ IdleDesk.pc = "idle"
    BY DEF IdleDesk, Desk, OrderStatus
  <1>2. desk'[d] = IdleDesk
    BY DEF Leave, LifeInv, DesksAgree
  <1>3. DeskAgrees(d)'
    BY <1>1, <1>2 DEF DeskAgrees
  <1>4. QED
    BY <1>1, <1>3, SetDeskAgrees DEF Leave

\* A desk goes on to the step pc.
LEMMA DeskGoesOn ==
    ASSUME LifeInv, [LifeNext]_allVars, NEW d \in Desks, NEW t \in Existing, NEW r,
           r \in Desk, r.ticket = t, desk' = [desk EXCEPT ![d] = r],
           r.pc = "commit" /\ r.last /\ Method[Row(t)'.order] = "STRIPE" => LastActive(t)',
           r.pc = "refund" => Row(t)'.status # "ACTIVE"
    PROVE  DesksAgree'
  <1>1. desk'[d] = r
    BY DEF LifeInv, DesksAgree
  <1>2. t \in Existing'
    BY TicketsGoOnStep DEF TicketsGoOn
  <1>3. DeskAgrees(d)'
    BY <1>1, <1>2 DEF DeskAgrees, LastActive, Row
  <1>4. QED
    BY <1>3, SetDeskAgrees

LEMMA RequestAgrees ==
    ASSUME LifeInv, [LifeNext]_allVars, NEW d \in Desks, NEW t \in Existing,
           CancelRequest(d, t) \/ GateScan(d, t)
    PROVE  DesksAgree'
  <1>1. t \in TicketIds
    BY ExistingTyped DEF LifeInv, CheckoutInv
  <1>2. ASSUME NEW pc \in {"event", "mark"}, desk' = [desk EXCEPT ![d].pc = pc, ![d].ticket = t]
        PROVE  DesksAgree'
    <2> DEFINE r == [desk[d] EXCEPT !.pc = pc, !.ticket = t]
    <2>1. desk[d] \in Desk
      BY DEF LifeInv, DesksAgree
    <2>2. r \in Desk /\ r.ticket = t /\ r.pc = pc
      BY <1>1, <2>1 DEF Desk
    <2>3. desk' = [desk EXCEPT ![d] = r]
      BY <1>2 DEF LifeInv, DesksAgree
    <2> HIDE DEF r
    <2>4. QED
      BY <2>2, <2>3, DeskGoesOn
  <1>3. QED
    BY <1>2 DEF CancelRequest, GateScan

LEMMA ReadEventAgrees ==
    ASSUME LifeInv, [LifeNext]_allVars, NEW d \in Desks, ReadEventAndOrder(d)
    PROVE  DesksAgree'
  <1>1. PICK t : t = desk[d].ticket
    OBVIOUS
  <1>2. t \in Existing /\ desk[d] \in Desk /\ order[Row(t).order].status \in OrderStatus
    BY <1>1, DeskTicket DEF ReadEventAndOrder, LifeInv, TicketHasOrder
  <1> DEFINE st == order[Row(t).order].status
             r == [desk[d] EXCEPT !.pc = "count", !.status = st]
  <1>3. CASE desk' = [desk EXCEPT ![d].pc = "count", ![d].status = st]
    <2>1. r \in Desk /\ r.ticket = t /\ r.pc = "count"
      BY <1>1, <1>2 DEF Desk
    <2>2. desk' = [desk EXCEPT ![d] = r]
      BY <1>3 DEF LifeInv, DesksAgree
    <2> HIDE DEF r
    <2>3. QED
      BY <1>2, <2>1, <2>2, DeskGoesOn
  <1>4. QED
    BY <1>1, <1>3, LeaveAgrees DEF ReadEventAndOrder

LEMMA CountAgrees ==
    ASSUME LifeInv, [LifeNext]_allVars, NEW d \in Desks, CancelCounts(d)
    PROVE  DesksAgree'
  <1>1. PICK t : t = desk[d].ticket
    OBVIOUS
  <1>2. t \in Existing /\ desk[d] \in Desk
    BY <1>1, DeskTicket DEF CancelCounts, LifeInv
  <1> DEFINE r == [desk[d] EXCEPT !.pc = "commit", !.last = LastActive(t)]
  <1>3. CASE desk' = [desk EXCEPT ![d].pc = "commit", ![d].last = LastActive(t)]
    <2>1. LastActive(t) \in BOOLEAN
      BY DEF LastActive
    <2>2. r \in Desk /\ r.ticket = t /\ r.pc = "commit" /\ r.last = LastActive(t)
      BY <1>1, <1>2, <2>1 DEF Desk
    <2>3. desk' = [desk EXCEPT ![d] = r]
      BY <1>3 DEF LifeInv, DesksAgree
    <2> HIDE DEF r
    <2>4. LastActive(t)' <=> LastActive(t)
      BY DEF CancelCounts, checkoutVars, LastActive, Existing, Row
    <2>5. QED
      BY <1>2, <2>2, <2>3, <2>4, DeskGoesOn
  <1>4. QED
    BY <1>1, <1>3, LeaveAgrees DEF CancelCounts

LEMMA CommitAgrees ==
    ASSUME LifeInv, [LifeNext]_allVars, NEW d \in Desks, CancelCommits(d)
    PROVE  DesksAgree'
  <1>1. PICK t : t = desk[d].ticket
    OBVIOUS
  <1>2. t \in Existing /\ desk[d] \in Desk
    BY <1>1, DeskTicket DEF CancelCommits, LifeInv
  <1> DEFINE r == [desk[d] EXCEPT !.pc = "refund"]
  <1>3. r \in Desk /\ r.ticket = t /\ r.pc = "refund"
    BY <1>1, <1>2 DEF Desk
  <1>4. desk' = [desk EXCEPT ![d] = r]
    BY DEF CancelCommits, LifeInv, DesksAgree
  <1> HIDE DEF r
  <1>5. Row(t)'.status = "CANCELLED"
    BY <1>1, CancelFacts
  <1>6. QED
    BY <1>2, <1>3, <1>4, <1>5, DeskGoesOn

LEMMA DesksStep ==
    ASSUME LifeInv, [LifeNext]_allVars
    PROVE  DesksAgree'
  <1>1. ASSUME NEW d \in Desks, NEW t \in Existing, CancelRequest(d, t) \/ GateScan(d, t)
        PROVE  DesksAgree'
    BY <1>1, RequestAgrees
  <1>2. ASSUME NEW d \in Desks, ReadEventAndOrder(d) \/ CancelCounts(d) \/ CancelCommits(d)
        PROVE  DesksAgree'
    BY <1>2, ReadEventAgrees, CountAgrees, CommitAgrees
  <1>3. ASSUME NEW d \in Desks, Refund(d) \/ GateMark(d) \/ DeskDies(d)
        PROVE  DesksAgree'
    BY <1>3, LeaveAgrees DEF Refund, GateMark, DeskDies
  <1>4. CASE Selling \/ PhaseAdvances \/ UNCHANGED allVars
    <2>1. desk' = desk
      BY <1>4 DEF Selling, PhaseAdvances, allVars, lifeVars
    <2>2. \A d \in Desks : DeskAgrees(d)'
      BY <2>1, UntouchedDeskAgrees
    <2>3. QED
      BY <2>1, <2>2 DEF LifeInv, DesksAgree
  <1>5. QED
    BY <1>1, <1>2, <1>3, <1>4 DEF LifeNext

\* Only tickets that are not ACTIVE any more are refunded.
LEMMA RefundsStep ==
    ASSUME LifeInv, [LifeNext]_allVars
    PROVE  RefundsAgree'
  <1>1. TicketsGoOn
    BY TicketsGoOnStep
  <1>2. CASE refunds' = refunds
    BY <1>1, <1>2 DEF LifeInv, RefundsAgree, TicketsGoOn
  <1>3. ASSUME NEW d \in Desks, Refund(d), refunds' # refunds
        PROVE  RefundsAgree'
    <2>1. PICK t : t = desk[d].ticket
      OBVIOUS
    <2>2. refunds' = refunds (+) SetToBag({t}) /\ desk[d].pc = "refund"
      BY <1>3, <2>1 DEF Refund
    <2>3. t \in Existing /\ Row(t).status # "ACTIVE"
      <3>1. DeskAgrees(d)
        BY DEF LifeInv, DesksAgree
      <3>2. QED
        BY <2>1, <2>2, <3>1 DEF DeskAgrees
    <2>4. IsABag(refunds') /\ DOMAIN refunds' = DOMAIN refunds \cup {t}
      BY <2>2, BagAdd DEF LifeInv, RefundsAgree
    <2>5. QED
      BY <1>1, <2>3, <2>4 DEF LifeInv, RefundsAgree, TicketsGoOn
  <1>4. refunds' = refunds \/ \E d \in Desks : Refund(d)
    BY DEF LifeNext, Selling, lifeVars, allVars, CancelRequest, GateScan, ReadEventAndOrder,
           CancelCounts, CancelCommits, GateMark, DeskDies, PhaseAdvances
  <1>5. QED
    BY <1>2, <1>3, <1>4

\* A ticket is answered VALID by the update that makes it used.
LEMMA AdmissionsStep ==
    ASSUME LifeInv, [LifeNext]_allVars
    PROVE  AdmissionsAgree'
  <1>1. TicketsGoOn
    BY TicketsGoOnStep
  <1>2. CASE admitted' = admitted
    BY <1>1, <1>2 DEF LifeInv, AdmissionsAgree, TicketsGoOn
  <1>3. ASSUME NEW d \in Desks, GateMark(d), admitted' # admitted
        PROVE  AdmissionsAgree'
    <2>1. PICK t : t = desk[d].ticket
      OBVIOUS
    <2>2. NotUsed(t)
      BY <1>3, <2>1 DEF GateMark
    <2>3. /\ Retired(t) /\ Row(t)'.used /\ ~Row(t).used
          /\ admitted' = admitted (+) SetToBag({t})
      BY <1>3, <2>1, <2>2, MarkFacts
    <2>4. IsABag(admitted) /\ t \notin DOMAIN admitted
      BY <2>3 DEF LifeInv, AdmissionsAgree
    <2>5. /\ IsABag(admitted') /\ DOMAIN admitted' = DOMAIN admitted \cup {t}
          /\ admitted'[t] = 1
          /\ \A o \in DOMAIN admitted : admitted'[o] = admitted[o]
      <3> DEFINE C == admitted (+) SetToBag({t})
      <3>1. /\ IsABag(C) /\ DOMAIN C = DOMAIN admitted \cup {t}
            /\ C[t] = IF t \in DOMAIN admitted THEN admitted[t] + 1 ELSE 1
            /\ \A o \in DOMAIN admitted \ {t} : C[o] = admitted[o]
        BY <2>4, BagAdd
      <3>2. admitted' = C
        BY <2>3
      <3> HIDE DEF C
      <3>3. QED
        BY <2>4, <3>1, <3>2
    <2>6. t \in Existing'
      BY <2>3 DEF Retired
    <2>7. QED
      BY <1>1, <2>3, <2>5, <2>6 DEF LifeInv, AdmissionsAgree, TicketsGoOn
  <1>4. admitted' = admitted \/ \E d \in Desks : GateMark(d)
    BY DEF LifeNext, Selling, lifeVars, allVars, CancelRequest, GateScan, ReadEventAndOrder,
           CancelCounts, CancelCommits, Refund, DeskDies, PhaseAdvances
  <1>5. QED
    BY <1>2, <1>3, <1>4

LEMMA PhaseStep ==
    ASSUME phase \in 1 .. Len(Phases), [LifeNext]_allVars
    PROVE  phase' \in 1 .. Len(Phases)
  <1>1. CASE phase' = phase
    BY <1>1
  <1>2. CASE PhaseAdvances
    BY <1>2 DEF PhaseAdvances, Phases
  <1>3. phase' = phase \/ PhaseAdvances
    BY DEF LifeNext, Selling, lifeVars, allVars, CancelRequest, GateScan, ReadEventAndOrder,
           CancelCounts, CancelCommits, Refund, GateMark, DeskDies
  <1>4. QED
    BY <1>1, <1>2, <1>3

-----------------------------------------------------------------------------
(* The inductive invariant and what it implies.                             *)

LEMMA LifeInitInv == LifeInit => LifeInv
  <1> SUFFICES ASSUME LifeInit PROVE LifeInv
    OBVIOUS
  <1>1. CheckoutInv
    BY CheckoutInitInv DEF LifeInit
  <1>2. Existing = {}
    BY DEF LifeInit, Init, Existing
  <1>3. \A p \in Workers, k \in Orders : ~Paying(p, k)
    BY IdleJobFields DEF LifeInit, Init, Paying
  <1>4. PaymentInv
    BY <1>2, <1>3 DEF LifeInit, Init, PaymentInv, OnePayment, TicketsAreSettled,
                      RefundedIsSettled, NoSecondTicket
  <1>5. DesksAgree
    <2>1. IdleDesk \in Desk /\ IdleDesk.pc = "idle"
      BY DEF IdleDesk, Desk, OrderStatus
    <2>2. QED
      BY <2>1 DEF LifeInit, DesksAgree, DeskAgrees
  <1>6. RefundsAgree /\ AdmissionsAgree
    BY NoBag DEF LifeInit, RefundsAgree, AdmissionsAgree
  <1>7. TicketHasOrder /\ RefundedOrderHasNoActive
    BY <1>2 DEF TicketHasOrder, RefundedOrderHasNoActive
  <1>8. SoldSeatHasTicket
    BY DEF LifeInit, Init, StoreInit, SoldSeatHasTicket
  <1>9. OneActiveTicket /\ TicketComesFromHold /\ PaidOrderHasTicket /\ IssuedOnlyAfterCharge
    BY DEF LifeInit, Init, OneActiveTicket, TicketComesFromHold, PaidOrderHasTicket,
           IssuedOnlyAfterCharge
  <1>10. phase \in 1 .. Len(Phases)
    BY DEF LifeInit, Phases
  <1>11. QED
    BY <1>1, <1>4, <1>5, <1>6, <1>7, <1>8, <1>9, <1>10 DEF LifeInv

LEMMA LifeStepInv == LifeInv /\ [LifeNext]_allVars => LifeInv'
  <1> SUFFICES ASSUME LifeInv, [LifeNext]_allVars PROVE LifeInv'
    OBVIOUS
  <1>1. CheckoutInv' /\ PaymentInv'
    BY PaymentsStep
  <1>2. (phase \in 1 .. Len(Phases))'
    BY PhaseStep DEF LifeInv, Phases
  <1>3. DesksAgree' /\ RefundsAgree' /\ AdmissionsAgree'
    BY DesksStep, RefundsStep, AdmissionsStep
  <1>4. TicketHasOrder' /\ RefundedOrderHasNoActive' /\ SoldSeatHasTicket'
    BY TicketHasOrderStep, RefundedOrderStep, SoldSeatsStep
  <1>5. OneActiveTicket' /\ TicketComesFromHold' /\ PaidOrderHasTicket' /\ IssuedOnlyAfterCharge'
    BY CheckoutPromisesStep
  <1>6. QED
    BY <1>1, <1>2, <1>3, <1>4, <1>5 DEF LifeInv

\* The inductive invariant of tickets, orders, desks, refunds and admissions.
THEOREM LifeInvariant == LifeSpec => []LifeInv
  BY LifeInitInv, LifeStepInv, PTL DEF LifeSpec

LEMMA LifeInvImplies ==
    LifeInv => /\ LifeTypeOK /\ AdmittedOnce /\ NoSecondTicket
               /\ SoldSeatHasTicket /\ RefundedHasNoActive
  <1> SUFFICES ASSUME LifeInv
               PROVE  /\ LifeTypeOK /\ AdmittedOnce /\ NoSecondTicket
                      /\ SoldSeatHasTicket /\ RefundedHasNoActive
    OBVIOUS
  <1>1. \A t \in Existing : t \in TicketIds
    BY ExistingTyped DEF LifeInv, CheckoutInv
  <1>2. BagToSet(refunds) = DOMAIN refunds /\ BagToSet(admitted) = DOMAIN admitted
    BY DEF BagToSet
  <1>3. LifeTypeOK
    BY <1>1, <1>2, InvImpliesTypes
       DEF LifeInv, LifeTypeOK, DesksAgree, RefundsAgree, AdmissionsAgree
  <1>4. AdmittedOnce
    BY <1>2 DEF LifeInv, AdmissionsAgree, AdmittedOnce
  <1>5. RefundedHasNoActive
    BY <1>2 DEF LifeInv, RefundedOrderHasNoActive, RefundsAgree, RefundedHasNoActive
  <1>6. QED
    BY <1>3, <1>4, <1>5 DEF LifeInv, PaymentInv

\* Every state is one the types describe: a desk only works on tickets, and
\* on statuses of orders, that exist.
THEOREM LifeTypeCorrect == LifeSpec => []LifeTypeOK
  BY LifeInvImplies, LifeInvariant, PTL

\* However many desks scan a ticket, and even while another cancels it, it is
\* answered VALID once.
THEOREM AdmittedOnceAlways == LifeSpec => []AdmittedOnce
  BY LifeInvImplies, LifeInvariant, PTL

\* A payment by card delivered again, or confirmed by several workers, never
\* gives a seat a second ticket of its order.
THEOREM NoSecondTicketAlways == LifeSpec => []NoSecondTicket
  BY LifeInvImplies, LifeInvariant, PTL

\* A seat shown SOLD has a ticket that is not cancelled, while cancellations,
\* sales, expiry jobs and releases overlap.
THEOREM SoldSeatHasTicketAlways == LifeSpec => []SoldSeatHasTicket
  BY LifeInvImplies, LifeInvariant, PTL

\* No ticket of an order that was REFUNDED is ACTIVE, nor is any whose money
\* was given back.
THEOREM RefundedHasNoActiveAlways == LifeSpec => []RefundedHasNoActive
  BY LifeInvImplies, LifeInvariant, PTL

\* A ticket is never forgotten nor moved to another order, a used one stays
\* used, and one that is USED or CANCELLED never becomes ACTIVE again.
THEOREM TicketsNeverGoBack == LifeSpec => [][TicketsGoOn]_allVars
  BY TicketsGoOnStep, LifeInvariant, PTL DEF LifeSpec

LEMMA LifeStepIsStoreStep ==
    ASSUME LifeInv, [LifeNext]_allVars
    PROVE  [StoreNext]_storeVars
  <1>1. CASE [Next]_checkoutVars
    BY <1>1, CheckoutStepIsStoreStep DEF LifeInv, CheckoutInv
  <1>2. CASE Cancels
    <2>1. PICK d \in Desks : CancelCommits(d)
      BY <1>2 DEF Cancels
    <2>2. PICK t : t = desk[d].ticket
      OBVIOUS
    <2>3. Retired(t) /\ ReturnSeat(t[1])
      BY <2>1, <2>2, CancelFacts
    <2>4. t[1] \in Seats
      BY <2>3, ExistingTyped DEF LifeInv, CheckoutInv, Retired
    <2>5. QED
      BY <2>3, <2>4 DEF StoreNext
  <1>3. CASE Admits
    BY <1>3, MarkFacts DEF Admits
  <1>4. QED
    BY <1>1, <1>2, <1>3, ThreeKinds

\* Cancelling and admitting tickets only does to the seat tables what their
\* transactions allow ...
THEOREM LifeImplementsStore == LifeSpec => StoreSpec
  <1>1. LifeInit => StoreInit
    BY DEF LifeInit, Init
  <1>2. LifeInv /\ [LifeNext]_allVars => [StoreNext]_storeVars
    BY LifeStepIsStoreStep
  <1>3. QED
    BY <1>1, <1>2, LifeInvariant, PTL DEF LifeSpec, StoreSpec

\* ... and keeps the reservations of SeatReservation exclusive.
THEOREM LifeImplementsReservation == LifeSpec => ReservationSpec
  BY LifeImplementsStore, StoreImplementsReservation

\* What Checkout promises about tickets also holds when they are cancelled
\* and used: a cancellation never leaves a PAID or REFUNDED order without
\* ticket rows, nor a seat with two ACTIVE ones.
THEOREM LifeKeepsPromises ==
    LifeSpec => [](/\ OneActiveTicket /\ TicketComesFromHold
                   /\ PaidOrderHasTicket /\ IssuedOnlyAfterCharge)
  <1>1. LifeInv => /\ OneActiveTicket /\ TicketComesFromHold
                   /\ PaidOrderHasTicket /\ IssuedOnlyAfterCharge
    BY DEF LifeInv
  <1>2. QED
    BY <1>1, LifeInvariant, PTL
=============================================================================
