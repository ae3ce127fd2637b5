--------------------------- MODULE CheckoutProofs ---------------------------
(***************************************************************************)
(* Orders, payment and tickets, for any customers, seats, orders, workers  *)
(* and either payment method.                                              *)
(*                                                                         *)
(* The reads of a handler may be stale when its transaction commits.  What *)
(* it may still rely on is CheckoutInv: hold rows are never deleted nor    *)
(* given to another customer, recorded events stay recorded, and a charge  *)
(* is final.                                                               *)
(***************************************************************************)
EXTENDS Checkout, SeatStoreProofs

\* Hold h is, or was, one of the buyer of order k.
HeldByBuyer(h, k) ==
    /\ h[2] \in DOMAIN hold[h[1]]
    /\ hold[h[1]][h[2]].user = Buyer[k]

\* What a handler has read (record r) and can still rely on.
JobAgrees(r) ==
    /\ r \in Job
    /\ r.pc # "idle" => r.order \in Orders
    /\ r.pc \in {"create", "issue"} => \A h \in r.holds : HeldByBuyer(h, r.order)
    /\ r.pc = "issue" => r.holds # {}
    /\ r.pc \in {"holds", "issue"} => r.to = "PAID"
    /\ r.pc \in {"read", "holds", "issue", "fail"} =>
          Method[r.order] = "FAKE" \/ <<r.order, r.to>> \in recorded

JobsAgree == job \in [Workers -> Job] /\ \A p \in Workers : JobAgrees(job[p])

\* An event of success is only made for a charge; simulated payments have no
\* events.
PayInv ==
    /\ charged \subseteq Orders
    /\ sent \subseteq WebhookEvents
    /\ recorded \subseteq sent
    /\ acked \subseteq recorded
    /\ \A k \in Orders, to \in {"PAID", "FAILED"} : <<k, to>> \in sent => Method[k] = "STRIPE"
    /\ \A k \in Orders : <<k, "PAID">> \in sent => k \in charged

TablesOK ==
    /\ order \in [Orders -> OrderRow]
    /\ orderOf \in [HoldIds -> Orders \cup {NoOrder}]
    /\ ticket \in [Seats -> Seq(TicketRow)]

\* A hold is linked to orders of its own customer only.
LinkedToBuyer == \A h \in HoldIds : orderOf[h] # NoOrder => HeldByBuyer(h, orderOf[h])

CheckoutInv == StoreInv /\ PayInv /\ TablesOK /\ LinkedToBuyer /\ JobsAgree

LEMMA InvImpliesTypes == CheckoutInv => CheckoutTypeOK
  BY DEF CheckoutInv, StoreInv, PayInv, TablesOK, JobsAgree, JobAgrees, CheckoutTypeOK

-----------------------------------------------------------------------------
(* The steps as transactions of the seat tables.                            *)

LEMMA HoldTransactionIsStoreStep == ASSUME HoldTransaction PROVE StoreNext
  <1>1. ASSUME NEW u \in Users, NEW S \in (SUBSET Seats) \ {{}}, CreateHolds(u, S)
        PROVE  StoreNext
    BY <1>1 DEF StoreNext
  <1>2. ASSUME NEW s \in Seats, LazyRelease({s})
        PROVE  StoreNext
    <2>1. {s} \in SUBSET Seats
      OBVIOUS
    <2>2. QED
      BY <1>2, <2>1 DEF StoreNext
  <1>3. ASSUME NEW s \in Seats, NEW i \in DOMAIN hold[s], ReleaseHold(s, i)
        PROVE  StoreNext
    BY <1>3 DEF StoreNext
  <1>4. CronExpireHolds => StoreNext
    BY DEF StoreNext
  <1>5. Tick => StoreNext
    BY DEF StoreNext
  <1>6. QED
    BY <1>1, <1>2, <1>3, <1>4, <1>5 DEF HoldTransaction

LEMMA IssueIsStoreStep ==
    ASSUME JobsAgree, NEW p \in Workers, IssueTickets(p)
    PROVE  StoreNext
  <1>1. job[p].holds \in SUBSET (Seats \X (1 .. MaxHolds))
    BY DEF JobsAgree, Job, HoldIds
  <1>2. ConsumeHolds(job[p].holds)
    BY DEF IssueTickets
  <1>3. QED
    BY <1>1, <1>2 DEF StoreNext

\* The handlers only do to the seat tables what their transactions allow.
LEMMA CheckoutStepIsStoreStep ==
    ASSUME JobsAgree, [Next]_checkoutVars
    PROVE  [StoreNext]_storeVars
  <1>1. ASSUME NEW p \in Workers, NEW k \in Orders, NEW H, CreateRequest(p, k, H)
        PROVE  UNCHANGED storeVars
    BY <1>1 DEF CreateRequest
  <1>2. ASSUME NEW p \in Workers, NEW k \in Orders, NEW to,
               Simulate(p, k, to) \/ Deliver(p, <<k, to>>)
        PROVE  UNCHANGED storeVars
    BY <1>2 DEF Simulate, Deliver
  <1>3. ASSUME NEW k \in Orders, CardAccepted(k) \/ CardDeclined(k)
        PROVE  UNCHANGED storeVars
    BY <1>3 DEF CardAccepted, CardDeclined
  <1>4. ASSUME NEW p \in Workers, Process(p) \/ JobDies(p)
        PROVE  [StoreNext]_storeVars
    BY <1>4, IssueIsStoreStep
       DEF Process, CreateCommits, ReadOrder, FindHolds, IssueConflicts, FailCommits, JobDies
  <1>5. CASE CronExpireOrders
    BY <1>5 DEF CronExpireOrders
  <1>6. CASE Holding
    BY <1>6, HoldTransactionIsStoreStep DEF Holding
  <1>7. CASE UNCHANGED checkoutVars
    BY <1>7 DEF checkoutVars
  <1>8. QED
    BY <1>1, <1>2, <1>3, <1>4, <1>5, <1>6, <1>7 DEF Next

LEMMA HeldByBuyerKept ==
    ASSUME RowsKept, NEW h \in HoldIds, NEW k \in Orders, HeldByBuyer(h, k)
    PROVE  HeldByBuyer(h, k)'
  <1>1. h[1] \in Seats
    BY DEF HoldIds
  <1>2. QED
    BY <1>1 DEF HeldByBuyer, RowsKept

-----------------------------------------------------------------------------
(* What the handlers have read stays true.                                  *)

LEMMA NewJobFields ==
    ASSUME NEW pc \in {"idle", "create", "read", "holds", "issue", "fail"},
           NEW k \in Orders \cup {NoOrder}, NEW to \in {"PAID", "FAILED"},
           NEW H \in SUBSET HoldIds
    PROVE  /\ NewJob(pc, k, to, H) \in Job
           /\ NewJob(pc, k, to, H).pc = pc
           /\ NewJob(pc, k, to, H).order = k
           /\ NewJob(pc, k, to, H).to = to
           /\ NewJob(pc, k, to, H).holds = H
  BY DEF NewJob, Job

LEMMA IdleJobFields == IdleJob \in Job /\ IdleJob.pc = "idle"
  BY NewJobFields DEF IdleJob

\* Besides its own record, what agrees depends on rows and recorded events,
\* which are only ever added to.
Kept == RowsKept /\ recorded \subseteq recorded'

LEMMA HoldsKept ==
    ASSUME RowsKept, NEW r \in Job, r.order \in Orders,
           \A h \in r.holds : HeldByBuyer(h, r.order)
    PROVE  \A h \in r.holds : /\ h[2] \in DOMAIN hold'[h[1]]
                              /\ hold'[h[1]][h[2]].user = Buyer[r.order]
  <1> SUFFICES ASSUME NEW h \in r.holds
               PROVE  /\ h[2] \in DOMAIN hold'[h[1]]
                      /\ hold'[h[1]][h[2]].user = Buyer[r.order]
    OBVIOUS
  <1>1. h \in HoldIds
    BY DEF Job
  <1>2. HeldByBuyer(h, r.order)'
    BY <1>1, HeldByBuyerKept DEF HeldByBuyer, HoldIds, RowsKept
  <1>3. QED
    BY <1>2 DEF HeldByBuyer

LEMMA UntouchedJobAgrees ==
    ASSUME Kept, NEW p \in Workers, JobAgrees(job[p]), job'[p] = job[p]
    PROVE  JobAgrees(job[p])'
  <1>1. job[p] \in Job /\ (job[p].pc # "idle" => job[p].order \in Orders)
    BY DEF JobAgrees
  <1>2. job[p].pc \in {"create", "issue"} =>
           \A h \in job[p].holds : /\ h[2] \in DOMAIN hold'[h[1]]
                                   /\ hold'[h[1]][h[2]].user = Buyer[job[p].order]
    BY <1>1, HoldsKept DEF JobAgrees, Kept
  <1>3. QED
    BY <1>2 DEF JobAgrees, HeldByBuyer, Kept

LEMMA SetJobAgrees ==
    ASSUME JobsAgree, Kept, NEW p \in Workers, NEW r,
           job' = [job EXCEPT ![p] = r], JobAgrees(job[p])'
    PROVE  JobsAgree'
  <1>1. ASSUME NEW q \in Workers
        PROVE  JobAgrees(job[q])'
    <2>1. CASE q = p
      BY <2>1
    <2>2. CASE q # p
      BY <2>2, UntouchedJobAgrees DEF JobsAgree
    <2>3. QED
      BY <2>1, <2>2
  <1>2. job' \in [Workers -> Job]
    <2>1. job'[p] \in Job
      BY DEF JobAgrees
    <2>2. QED
      BY <2>1 DEF JobsAgree
  <1>3. QED
    BY <1>1, <1>2 DEF JobsAgree

LEMMA FinishAgrees ==
    ASSUME JobsAgree, Kept, NEW p \in Workers, Finish(p)
    PROVE  JobsAgree'
  <1>1. job' = [job EXCEPT ![p] = IdleJob] /\ job'[p] = IdleJob
    BY DEF Finish, JobsAgree
  <1>2. JobAgrees(job[p])'
    BY <1>1, IdleJobFields DEF JobAgrees
  <1>3. QED
    BY <1>1, <1>2, SetJobAgrees

LEMMA JobUntouchedAgrees ==
    ASSUME JobsAgree, Kept, job' = job
    PROVE  JobsAgree'
  <1>1. \A p \in Workers : JobAgrees(job[p])'
    BY UntouchedJobAgrees DEF JobsAgree
  <1>2. QED
    BY <1>1 DEF JobsAgree

\* A payment starts.
LEMMA StartPaymentAgrees ==
    ASSUME JobsAgree, Kept, NEW p \in Workers, NEW k \in Orders, NEW to \in {"PAID", "FAILED"},
           job' = [job EXCEPT ![p] = NewJob("read", k, to, {})],
           Method[k] = "FAKE" \/ <<k, to>> \in recorded'
    PROVE  JobsAgree'
  <1>1. job'[p] = NewJob("read", k, to, {})
    BY DEF JobsAgree
  <1>2. JobAgrees(job[p])'
    BY <1>1, NewJobFields DEF JobAgrees
  <1>3. QED
    BY <1>2, SetJobAgrees

LEMMA CreateRequestAgrees ==
    ASSUME JobsAgree, Kept, NEW p \in Workers, NEW k \in Orders, NEW H, CreateRequest(p, k, H)
    PROVE  JobsAgree'
  <1>1. H \in SUBSET HoldIds
    BY DEF CreateRequest, OwnedActive
  <1>2. job'[p] = NewJob("create", k, "PAID", H)
    BY DEF CreateRequest, JobsAgree
  <1>3. \A h \in H : HeldByBuyer(h, k)
    BY DEF CreateRequest, OwnedActive, Active, HeldByBuyer
  <1>4. hold' = hold
    BY DEF CreateRequest, storeVars
  <1>5. JobAgrees(job[p])'
    BY <1>1, <1>2, <1>3, <1>4, NewJobFields DEF JobAgrees, HeldByBuyer
  <1>6. QED
    BY <1>5, SetJobAgrees DEF CreateRequest

LEMMA ReadOrderAgrees ==
    ASSUME JobsAgree, Kept, NEW p \in Workers, ReadOrder(p)
    PROVE  JobsAgree'
  <1>1. /\ job[p].order \in Orders /\ job[p].to \in {"PAID", "FAILED"}
        /\ Method[job[p].order] = "FAKE" \/ <<job[p].order, job[p].to>> \in recorded
    BY DEF ReadOrder, JobsAgree, JobAgrees, Job
  <1>2. ASSUME NEW pc \in {"holds", "fail"}, Continue(p, pc, {}),
               pc = "holds" => job[p].to = "PAID"
        PROVE  JobsAgree'
    <2>1. job' = [job EXCEPT ![p] = NewJob(pc, job[p].order, job[p].to, {})]
      BY <1>2 DEF Continue, JobsAgree
    <2>2. job'[p] = NewJob(pc, job[p].order, job[p].to, {})
      BY <2>1 DEF JobsAgree
    <2>3. JobAgrees(job[p])'
      BY <1>1, <1>2, <2>2, NewJobFields DEF JobAgrees, Kept
    <2>4. QED
      BY <2>1, <2>3, SetJobAgrees
  <1>3. CASE Finish(p)
    BY <1>3, FinishAgrees
  <1>4. QED
    BY <1>2, <1>3 DEF ReadOrder, FinishAndAck

LEMMA FindHoldsAgrees ==
    ASSUME JobsAgree, LinkedToBuyer, Kept, NEW p \in Workers, FindHolds(p)
    PROVE  JobsAgree'
  <1> DEFINE H == LinkedHolds(job[p].order)
  <1>1. /\ job[p].order \in Orders /\ job[p].to = "PAID"
        /\ Method[job[p].order] = "FAKE" \/ <<job[p].order, job[p].to>> \in recorded
    BY DEF FindHolds, JobsAgree, JobAgrees
  <1>2. CASE MayIssue(H) /\ Continue(p, "issue", H)
    <2>1. H \in SUBSET HoldIds
      BY DEF LinkedHolds
    <2>2. \A h \in H : HeldByBuyer(h, job[p].order)
      BY <1>1, CheckoutAssumption DEF LinkedHolds, LinkedToBuyer
    <2>3. hold' = hold
      BY DEF FindHolds, storeVars
    <2>4. job' = [job EXCEPT ![p] = NewJob("issue", job[p].order, job[p].to, H)]
      BY <1>2 DEF Continue, JobsAgree
    <2>5. job'[p] = NewJob("issue", job[p].order, job[p].to, H)
      BY <2>4 DEF JobsAgree
    <2> HIDE DEF H
    <2>6. /\ job'[p] \in Job /\ job'[p].pc = "issue" /\ job'[p].order = job[p].order
          /\ job'[p].to = "PAID" /\ job'[p].holds = H
      BY <1>1, <2>1, <2>5, NewJobFields
    <2>7. H # {}
      BY <1>2 DEF MayIssue
    <2>8. JobAgrees(job[p])'
      BY <1>1, <2>2, <2>3, <2>6, <2>7 DEF JobAgrees, HeldByBuyer, Kept
    <2>9. QED
      BY <2>4, <2>8, SetJobAgrees
  <1>3. CASE Finish(p)
    BY <1>3, FinishAgrees
  <1>4. QED
    BY <1>2, <1>3 DEF FindHolds, FinishWithError

LEMMA ProcessAgrees ==
    ASSUME JobsAgree, LinkedToBuyer, Kept, NEW p \in Workers, Process(p)
    PROVE  JobsAgree'
  <1>1. CASE ReadOrder(p)
    BY <1>1, ReadOrderAgrees
  <1>2. CASE FindHolds(p)
    BY <1>2, FindHoldsAgrees
  <1>3. CASE CreateCommits(p) \/ IssueTickets(p) \/ IssueConflicts(p) \/ FailCommits(p)
    BY <1>3, FinishAgrees
       DEF CreateCommits, IssueTickets, IssueConflicts, FailCommits, FinishAndAck, FinishWithError
  <1>4. QED
    BY <1>1, <1>2, <1>3 DEF Process

LEMMA JobsStep ==
    ASSUME JobsAgree, LinkedToBuyer, Kept, [Next]_checkoutVars
    PROVE  JobsAgree'
  <1>1. ASSUME NEW p \in Workers, NEW k \in Orders, NEW H, CreateRequest(p, k, H)
        PROVE  JobsAgree'
    BY <1>1, CreateRequestAgrees
  <1>2. ASSUME NEW p \in Workers, NEW k \in Orders, NEW to \in {"PAID", "FAILED"},
               Simulate(p, k, to)
        PROVE  JobsAgree'
    BY <1>2, StartPaymentAgrees DEF Simulate
  <1>3. ASSUME NEW p \in Workers, NEW k \in Orders, NEW to \in {"PAID", "FAILED"},
               Deliver(p, <<k, to>>)
        PROVE  JobsAgree'
    <2>1. CASE IsNew(<<k, to>>)
      <3>1. /\ job' = [job EXCEPT ![p] = NewJob("read", k, to, {})]
            /\ <<k, to>> \in recorded'
        BY <1>3, <2>1 DEF Deliver, Target
      <3>2. QED
        BY <3>1, StartPaymentAgrees
    <2>2. CASE ~IsNew(<<k, to>>)
      BY <1>3, <2>2, JobUntouchedAgrees DEF Deliver
    <2>3. QED
      BY <2>1, <2>2
  <1>4. ASSUME NEW p \in Workers, Process(p)
        PROVE  JobsAgree'
    BY <1>4, ProcessAgrees
  <1>5. ASSUME NEW p \in Workers, JobDies(p)
        PROVE  JobsAgree'
    BY <1>5, FinishAgrees DEF JobDies, FinishWithError
  <1>6. ASSUME NEW k \in Orders, CardAccepted(k) \/ CardDeclined(k)
        PROVE  JobsAgree'
    BY <1>6, JobUntouchedAgrees DEF CardAccepted, CardDeclined
  <1>7. CASE CronExpireOrders \/ Holding \/ UNCHANGED checkoutVars
    BY <1>7, JobUntouchedAgrees DEF CronExpireOrders, Holding, checkoutVars
  <1>8. QED
    BY <1>1, <1>2, <1>3, <1>4, <1>5, <1>6, <1>7 DEF Next

-----------------------------------------------------------------------------
(* Charges and events.                                                      *)

LEMMA FinishAndAckPay ==
    ASSUME PayInv, JobsAgree, NEW p \in Workers, job[p].pc \in {"read", "issue", "fail"},
           FinishAndAck(p)
    PROVE  PayInv' /\ recorded' = recorded /\ charged' = charged
  <1>1. Method[job[p].order] = "FAKE" \/ <<job[p].order, job[p].to>> \in recorded
    BY DEF JobsAgree, JobAgrees
  <1>2. job[p].order \in Orders /\ job[p].to \in {"PAID", "FAILED"}
    BY DEF JobsAgree, JobAgrees, Job
  <1>3. <<job[p].order, job[p].to>> \in sent => <<job[p].order, job[p].to>> \in recorded
    BY <1>1, <1>2 DEF PayInv
  <1>4. acked' \subseteq recorded
    BY <1>3 DEF FinishAndAck, PayInv
  <1>5. QED
    BY <1>4 DEF FinishAndAck, PayInv

\* Charges and recorded events are final.
PayKept == PayInv' /\ recorded \subseteq recorded' /\ charged \subseteq charged'

LEMMA PayUntouched == ASSUME PayInv, UNCHANGED payVars PROVE PayKept
  BY DEF payVars, PayInv, PayKept

LEMMA PayStep == ASSUME PayInv, JobsAgree, [Next]_checkoutVars PROVE PayKept
  <1>1. ASSUME NEW p \in Workers, NEW k \in Orders, NEW H, CreateRequest(p, k, H)
        PROVE  PayKept
    BY <1>1, PayUntouched DEF CreateRequest
  <1>2. ASSUME NEW p \in Workers, NEW k \in Orders, NEW to, Simulate(p, k, to)
        PROVE  PayKept
    BY <1>2, PayUntouched DEF Simulate
  <1>3. ASSUME NEW p \in Workers, NEW k \in Orders, NEW to, Deliver(p, <<k, to>>)
        PROVE  PayKept
    <2>1. CASE IsNew(<<k, to>>)
      BY <1>3, <2>1 DEF Deliver, PayInv, PayKept
    <2>2. CASE ~IsNew(<<k, to>>)
      BY <1>3, <2>2 DEF Deliver, PayInv, PayKept, AckDuplicate, IsNew
    <2>3. QED
      BY <2>1, <2>2
  <1>4. ASSUME NEW k \in Orders, CardAccepted(k) \/ CardDeclined(k)
        PROVE  PayKept
    BY <1>4 DEF CardAccepted, CardDeclined, PayInv, PayKept, WebhookEvents
  <1>5. ASSUME NEW p \in Workers, Process(p)
        PROVE  PayKept
    <2>1. CASE CreateCommits(p) \/ FindHolds(p) \/ IssueConflicts(p)
      BY <2>1, PayUntouched
         DEF CreateCommits, FindHolds, IssueConflicts, FinishWithError
    <2>2. CASE ReadOrder(p) \/ IssueTickets(p) \/ FailCommits(p)
      BY <2>2, PayUntouched, FinishAndAckPay
         DEF ReadOrder, IssueTickets, FailCommits, PayKept
    <2>3. QED
      BY <1>5, <2>1, <2>2 DEF Process
  <1>6. ASSUME NEW p \in Workers, JobDies(p)
        PROVE  PayKept
    BY <1>6, PayUntouched DEF JobDies, FinishWithError
  <1>7. CASE CronExpireOrders \/ Holding \/ UNCHANGED checkoutVars
    BY <1>7, PayUntouched DEF CronExpireOrders, Holding, checkoutVars, payVars
  <1>8. QED
    BY <1>1, <1>2, <1>3, <1>4, <1>5, <1>6, <1>7 DEF Next

-----------------------------------------------------------------------------
(* Orders, links and tickets.                                               *)

LEMMA SetStatusType ==
    ASSUME TablesOK, NEW k \in Orders, NEW status \in OrderStatus, SetStatus(k, status)
    PROVE  order' \in [Orders -> OrderRow]
  <1>1. order[k] \in OrderRow
    BY DEF TablesOK
  <1>2. [order[k] EXCEPT !.status = status] \in OrderRow
    BY <1>1 DEF OrderRow
  <1>3. order' = [order EXCEPT ![k] = [order[k] EXCEPT !.status = status]]
    BY DEF SetStatus, TablesOK
  <1>4. QED
    BY <1>2, <1>3 DEF TablesOK

\* A seat's tickets are only ever added to, and a new one is ACTIVE and of
\* the order k.
LEMMA IssueFacts ==
    ASSUME TablesOK, NEW k \in Orders, NEW S, Issue(k, S)
    PROVE  /\ ticket' \in [Seats -> Seq(TicketRow)]
           /\ \A s \in Seats :
                 /\ s \notin S => ticket'[s] = ticket[s]
                 /\ s \in S => /\ DOMAIN ticket'[s] = 1 .. Len(ticket[s]) + 1
                               /\ DOMAIN ticket[s] = 1 .. Len(ticket[s])
                               /\ Len(ticket[s]) \in Nat
                               /\ \A j \in DOMAIN ticket[s] : ticket'[s][j] = ticket[s][j]
                               /\ ticket'[s][Len(ticket[s]) + 1].order = k
                               /\ ticket'[s][Len(ticket[s]) + 1].status = "ACTIVE"
  <1> DEFINE row == [order |-> k, status |-> "ACTIVE", used |-> FALSE]
  <1>1. row \in TicketRow /\ row.order = k /\ row.status = "ACTIVE"
    BY DEF TicketRow
  <1>2. ASSUME NEW s \in Seats
        PROVE  /\ ticket[s] \in Seq(TicketRow)
               /\ s \notin S => ticket'[s] = ticket[s]
               /\ s \in S => ticket'[s] = Append(ticket[s], row)
    BY DEF Issue, TablesOK
  <1> HIDE DEF row
  <1>3. ASSUME NEW s \in Seats
        PROVE  /\ ticket'[s] \in Seq(TicketRow)
               /\ s \notin S => ticket'[s] = ticket[s]
               /\ s \in S => /\ DOMAIN ticket'[s] = 1 .. Len(ticket[s]) + 1
                             /\ DOMAIN ticket[s] = 1 .. Len(ticket[s])
                             /\ Len(ticket[s]) \in Nat
                             /\ \A j \in DOMAIN ticket[s] : ticket'[s][j] = ticket[s][j]
                             /\ ticket'[s][Len(ticket[s]) + 1].order = k
                             /\ ticket'[s][Len(ticket[s]) + 1].status = "ACTIVE"
    BY <1>1, <1>2
  <1>4. ticket' \in [Seats -> Seq(TicketRow)]
    BY <1>3 DEF Issue
  <1>5. QED
    BY <1>3, <1>4

LEMMA LinksUntouched ==
    ASSUME TablesOK, LinkedToBuyer, RowsKept, orderOf' = orderOf
    PROVE  LinkedToBuyer'
  <1> SUFFICES ASSUME NEW h \in HoldIds, orderOf[h] # NoOrder
               PROVE  HeldByBuyer(h, orderOf[h])'
    BY DEF LinkedToBuyer
  <1>1. orderOf[h] \in Orders
    BY DEF TablesOK
  <1>2. HeldByBuyer(h, orderOf[h])
    BY DEF LinkedToBuyer
  <1>3. h[1] \in Seats
    BY DEF HoldIds
  <1>4. QED
    BY <1>2, <1>3 DEF HeldByBuyer, RowsKept

LEMMA CreateCommitsTables ==
    ASSUME StoreTypeOK, TablesOK, LinkedToBuyer, JobsAgree, RowsKept,
           NEW p \in Workers, CreateCommits(p)
    PROVE  TablesOK' /\ LinkedToBuyer'
  <1> DEFINE k == job[p].order
             row == [status |-> "PENDING", expiresAt |-> clock + OrderTTL]
  <1>1. /\ k \in Orders /\ k # NoOrder
        /\ \A h \in job[p].holds : HeldByBuyer(h, k)
    BY CheckoutAssumption DEF CreateCommits, JobsAgree, JobAgrees
  <1>2. row \in OrderRow
    BY CheckoutAssumption DEF StoreTypeOK, OrderRow, OrderStatus
  <1>3. ticket' = ticket /\ hold' = hold
    BY DEF CreateCommits, storeVars
  <1>4. CASE Created(k)
    BY <1>3, <1>4, LinksUntouched DEF CreateCommits, TablesOK
  <1>5. CASE ~Created(k)
    <2>1. /\ order' = [order EXCEPT ![k] = row]
          /\ orderOf' = [h \in HoldIds |-> IF h \in job[p].holds THEN k ELSE orderOf[h]]
      BY <1>5 DEF CreateCommits
    <2> HIDE DEF row
    <2>2. TablesOK'
      BY <1>1, <1>2, <1>3, <2>1 DEF TablesOK
    <2>3. ASSUME NEW h \in HoldIds, orderOf'[h] # NoOrder
          PROVE  HeldByBuyer(h, orderOf[h])'
      BY <1>1, <1>3, <2>1, <2>3 DEF LinkedToBuyer, HeldByBuyer
    <2>4. QED
      BY <2>2, <2>3 DEF LinkedToBuyer
  <1>6. QED
    BY <1>4, <1>5

LEMMA CronExpireOrdersTables ==
    ASSUME TablesOK, CronExpireOrders
    PROVE  TablesOK' /\ orderOf' = orderOf /\ ticket' = ticket
           /\ \A k \in Orders : order'[k].status # "EXPIRED" => order'[k] = order[k]
  <1> DEFINE late == {k \in Orders : order[k].status = "PENDING" /\ order[k].expiresAt < clock}
  <1>1. order' = [k \in Orders |-> IF k \in late THEN [order[k] EXCEPT !.status = "EXPIRED"]
                                                 ELSE order[k]]
    BY DEF CronExpireOrders
  <1> HIDE DEF late
  <1>2. ASSUME NEW k \in Orders
        PROVE  /\ [order[k] EXCEPT !.status = "EXPIRED"] \in OrderRow
               /\ [order[k] EXCEPT !.status = "EXPIRED"].status = "EXPIRED"
               /\ order[k] \in OrderRow
    BY DEF TablesOK, OrderRow, OrderStatus
  <1>3. ASSUME NEW k \in Orders
        PROVE  order'[k] \in OrderRow /\ (order'[k].status # "EXPIRED" => order'[k] = order[k])
    <2>1. CASE k \in late
      BY <1>1, <1>2, <2>1
    <2>2. CASE k \notin late
      BY <1>1, <1>2, <2>2
    <2>3. QED
      BY <2>1, <2>2
  <1>4. order' \in [Orders -> OrderRow]
    BY <1>1, <1>3
  <1>5. QED
    BY <1>3, <1>4 DEF CronExpireOrders, TablesOK

LEMMA TablesUntouched ==
    ASSUME TablesOK, LinkedToBuyer, RowsKept, UNCHANGED <<order, orderOf, ticket>>
    PROVE  TablesOK' /\ LinkedToBuyer'
  BY LinksUntouched DEF TablesOK

LEMMA TablesStep ==
    ASSUME StoreTypeOK, TablesOK, LinkedToBuyer, JobsAgree, RowsKept, [Next]_checkoutVars
    PROVE  TablesOK' /\ LinkedToBuyer'
  <1>1. ASSUME NEW p \in Workers, NEW k \in Orders, NEW H, CreateRequest(p, k, H)
        PROVE  TablesOK' /\ LinkedToBuyer'
    BY <1>1, TablesUntouched DEF CreateRequest
  <1>2. ASSUME NEW p \in Workers, NEW k \in Orders, NEW to,
               Simulate(p, k, to) \/ Deliver(p, <<k, to>>)
        PROVE  TablesOK' /\ LinkedToBuyer'
    BY <1>2, TablesUntouched DEF Simulate, Deliver
  <1>3. ASSUME NEW k \in Orders, CardAccepted(k) \/ CardDeclined(k)
        PROVE  TablesOK' /\ LinkedToBuyer'
    BY <1>3, TablesUntouched DEF CardAccepted, CardDeclined
  <1>4. ASSUME NEW p \in Workers, Process(p)
        PROVE  TablesOK' /\ LinkedToBuyer'
    <2>1. CASE CreateCommits(p)
      BY <2>1, CreateCommitsTables
    <2>2. CASE ReadOrder(p) \/ FindHolds(p) \/ IssueConflicts(p)
      BY <2>2, TablesUntouched DEF ReadOrder, FindHolds, IssueConflicts
    <2>3. CASE IssueTickets(p)
      <3>1. job[p].order \in Orders
        BY <2>3 DEF IssueTickets, JobsAgree, JobAgrees
      <3>2. order' \in [Orders -> OrderRow]
        BY <2>3, <3>1, SetStatusType DEF IssueTickets, OrderStatus
      <3>3. ticket' \in [Seats -> Seq(TicketRow)]
        BY <2>3, <3>1, IssueFacts DEF IssueTickets
      <3>4. QED
        BY <2>3, <3>2, <3>3, LinksUntouched DEF IssueTickets, TablesOK
    <2>4. CASE FailCommits(p)
      <3>1. job[p].order \in Orders
        BY <2>4 DEF FailCommits, JobsAgree, JobAgrees
      <3>2. order' \in [Orders -> OrderRow]
        BY <2>4, <3>1, SetStatusType DEF FailCommits, OrderStatus
      <3>3. QED
        BY <2>4, <3>2, LinksUntouched DEF FailCommits, TablesOK
    <2>5. QED
      BY <1>4, <2>1, <2>2, <2>3, <2>4 DEF Process
  <1>5. ASSUME NEW p \in Workers, JobDies(p)
        PROVE  TablesOK' /\ LinkedToBuyer'
    BY <1>5, TablesUntouched DEF JobDies
  <1>6. CASE CronExpireOrders
    BY <1>6, CronExpireOrdersTables, LinksUntouched
  <1>7. CASE Holding \/ UNCHANGED checkoutVars
    BY <1>7, TablesUntouched DEF Holding, checkoutVars
  <1>8. QED
    BY <1>1, <1>2, <1>3, <1>4, <1>5, <1>6, <1>7 DEF Next

-----------------------------------------------------------------------------
(* The inductive invariant.                                                 *)

LEMMA CheckoutInitInv == Init => CheckoutInv
  <1> SUFFICES ASSUME Init PROVE CheckoutInv
    OBVIOUS
  <1>1. StoreInv
    BY StoreInitInv DEF Init
  <1>2. PayInv
    BY DEF Init, PayInv
  <1>3. TablesOK
    BY DEF Init, TablesOK, OrderRow
  <1>4. LinkedToBuyer
    BY DEF Init, LinkedToBuyer
  <1>5. JobsAgree
    BY IdleJobFields DEF Init, JobsAgree, JobAgrees
  <1>6. QED
    BY <1>1, <1>2, <1>3, <1>4, <1>5 DEF CheckoutInv

LEMMA CheckoutStepKept ==
    ASSUME CheckoutInv, [Next]_checkoutVars
    PROVE  StoreInv' /\ RowsKept /\ PayKept /\ Kept
  <1>1. [StoreNext]_storeVars
    BY CheckoutStepIsStoreStep DEF CheckoutInv
  <1>2. StoreInv' /\ RowsKept
    BY <1>1, StoreStepInv, StoreStepKeepsRows DEF CheckoutInv, StoreInv
  <1>3. PayKept
    BY PayStep DEF CheckoutInv
  <1>4. QED
    BY <1>2, <1>3 DEF Kept, PayKept

LEMMA CheckoutStepInv == CheckoutInv /\ [Next]_checkoutVars => CheckoutInv'
  <1> SUFFICES ASSUME CheckoutInv, [Next]_checkoutVars PROVE CheckoutInv'
    OBVIOUS
  <1>1. StoreInv' /\ RowsKept /\ PayInv' /\ Kept
    BY CheckoutStepKept DEF PayKept
  <1>2. TablesOK' /\ LinkedToBuyer'
    BY <1>1, TablesStep DEF CheckoutInv, StoreInv
  <1>3. JobsAgree'
    BY <1>1, JobsStep DEF CheckoutInv
  <1>4. QED
    BY <1>1, <1>2, <1>3 DEF CheckoutInv

\* The inductive invariant of orders, payment, tickets and the seat tables.
THEOREM CheckoutInvariant == Spec => []CheckoutInv
  BY CheckoutInitInv, CheckoutStepInv, PTL DEF Spec

\* Every state is one the types describe; in particular only events that
\* were recorded are acknowledged.
THEOREM CheckoutTypeCorrect == Spec => []CheckoutTypeOK
  BY InvImpliesTypes, CheckoutInvariant, PTL

\* Selling seats, like holding them, only ever does to the seat tables what
\* their transactions allow ...
THEOREM CheckoutImplementsStore == Spec => StoreSpec
  <1>1. Init => StoreInit
    BY DEF Init
  <1>2. CheckoutInv /\ [Next]_checkoutVars => [StoreNext]_storeVars
    BY CheckoutStepIsStoreStep DEF CheckoutInv
  <1>3. QED
    BY <1>1, <1>2, CheckoutInvariant, PTL DEF Spec, StoreSpec

\* ... and keeps the reservations of SeatReservation exclusive.
THEOREM CheckoutImplementsReservation == Spec => ReservationSpec
  BY CheckoutImplementsStore, StoreImplementsReservation

-----------------------------------------------------------------------------
(* The promises about tickets.                                              *)

\* Every step either issues the tickets of an order, or leaves the tickets
\* alone and pays no order.
NothingIssued ==
    /\ ticket' = ticket
    /\ \A k \in Orders : order'[k].status \in {"PAID", "REFUNDED"} =>
                             order[k].status \in {"PAID", "REFUNDED"}

LEMMA SetFailed ==
    ASSUME TablesOK, NEW k \in Orders, SetStatus(k, "FAILED"), ticket' = ticket
    PROVE  NothingIssued
  <1>1. order[k] \in OrderRow
    BY DEF TablesOK
  <1>2. [order[k] EXCEPT !.status = "FAILED"].status = "FAILED"
    BY <1>1 DEF OrderRow
  <1>3. order' = [order EXCEPT ![k] = [order[k] EXCEPT !.status = "FAILED"]]
    BY DEF SetStatus, TablesOK
  <1>4. QED
    BY <1>2, <1>3 DEF TablesOK, NothingIssued

LEMMA OnlyIssueIssues ==
    ASSUME CheckoutInv, [Next]_checkoutVars, ~\E p \in Workers : IssueTickets(p)
    PROVE  NothingIssued
  <1>1. ASSUME NEW p \in Workers, NEW k \in Orders, NEW H, CreateRequest(p, k, H)
        PROVE  NothingIssued
    BY <1>1 DEF CreateRequest, NothingIssued
  <1>2. ASSUME NEW p \in Workers, NEW k \in Orders, NEW to,
               Simulate(p, k, to) \/ Deliver(p, <<k, to>>)
        PROVE  NothingIssued
    BY <1>2 DEF Simulate, Deliver, NothingIssued
  <1>3. ASSUME NEW k \in Orders, CardAccepted(k) \/ CardDeclined(k)
        PROVE  NothingIssued
    BY <1>3 DEF CardAccepted, CardDeclined, NothingIssued
  <1>4. ASSUME NEW p \in Workers, CreateCommits(p)
        PROVE  NothingIssued
    BY <1>4 DEF CreateCommits, NothingIssued, CheckoutInv, TablesOK
  <1>5. ASSUME NEW p \in Workers, ReadOrder(p) \/ FindHolds(p) \/ IssueConflicts(p) \/ JobDies(p)
        PROVE  NothingIssued
    BY <1>5 DEF ReadOrder, FindHolds, IssueConflicts, JobDies, NothingIssued
  <1>6. ASSUME NEW p \in Workers, FailCommits(p)
        PROVE  NothingIssued
    <2>1. job[p].order \in Orders
      BY <1>6 DEF FailCommits, CheckoutInv, JobsAgree, JobAgrees
    <2>2. QED
      BY <1>6, <2>1, SetFailed DEF FailCommits, CheckoutInv
  <1>7. CASE CronExpireOrders
    BY <1>7, CronExpireOrdersTables DEF NothingIssued, CheckoutInv
  <1>8. CASE Holding \/ UNCHANGED checkoutVars
    BY <1>8 DEF Holding, checkoutVars, NothingIssued
  <1>9. QED
    BY <1>1, <1>2, <1>3, <1>4, <1>5, <1>6, <1>7, <1>8 DEF Next, Process

\* What issuing does, from what its handler had read.
LEMMA IssueStep ==
    ASSUME CheckoutInv, NEW p \in Workers, IssueTickets(p)
    PROVE  LET k == job[p].order
               H == job[p].holds
               S == {h[1] : h \in H}
           IN  /\ k \in Orders /\ H # {} /\ H \subseteq HoldIds /\ job[p].to = "PAID"
               /\ TicketIndexAdmits(S) /\ Issue(k, S) /\ ConsumeHolds(H)
               /\ SetStatus(k, "PAID")
               /\ \A h \in H : HeldByBuyer(h, k)
               /\ Method[k] = "FAKE" \/ <<k, "PAID">> \in recorded
  BY DEF IssueTickets, CheckoutInv, JobsAgree, JobAgrees, Job

LEMMA TicketRowsTyped ==
    ASSUME CheckoutInv, NEW s \in Seats
    PROVE  /\ DOMAIN ticket[s] = 1 .. Len(ticket[s]) /\ Len(ticket[s]) \in Nat
           /\ \A j \in DOMAIN ticket[s] : ticket[s][j].order \in Orders
  <1>1. ticket[s] \in Seq(TicketRow)
    BY DEF CheckoutInv, TablesOK
  <1>2. \A j \in DOMAIN ticket[s] : ticket[s][j] \in TicketRow
    BY <1>1
  <1>3. QED
    BY <1>1, <1>2 DEF TicketRow

LEMMA OneActiveStep ==
    ASSUME CheckoutInv, OneActiveTicket, [Next]_checkoutVars
    PROVE  OneActiveTicket'
  <1>1. ASSUME NEW p \in Workers, IssueTickets(p)
        PROVE  OneActiveTicket'
    <2> DEFINE k == job[p].order
               S == {h[1] : h \in job[p].holds}
    <2>1. k \in Orders /\ TicketIndexAdmits(S) /\ Issue(k, S)
      BY <1>1, IssueStep
    <2> HIDE DEF k, S
    <2>2. SUFFICES ASSUME NEW s \in Seats,
                          NEW i \in DOMAIN ticket'[s], NEW j \in DOMAIN ticket'[s],
                          ticket'[s][i].status = "ACTIVE", ticket'[s][j].status = "ACTIVE"
                   PROVE  i = j
      BY DEF OneActiveTicket
    <2>3. CASE s \notin S
      BY <2>1, <2>2, <2>3, IssueFacts DEF CheckoutInv, OneActiveTicket
    <2>4. CASE s \in S
      <3>1. /\ DOMAIN ticket'[s] = 1 .. Len(ticket[s]) + 1
            /\ DOMAIN ticket[s] = 1 .. Len(ticket[s])
            /\ Len(ticket[s]) \in Nat
            /\ \A l \in DOMAIN ticket[s] : ticket'[s][l] = ticket[s][l]
        BY <2>1, <2>4, IssueFacts DEF CheckoutInv
      <3>2. \A l \in DOMAIN ticket[s] : ticket[s][l].status # "ACTIVE"
        BY <2>1, <2>4 DEF TicketIndexAdmits
      <3>3. i \notin DOMAIN ticket[s] /\ j \notin DOMAIN ticket[s]
        BY <2>2, <3>1, <3>2
      <3>4. QED
        BY <3>1, <3>3
    <2>5. QED
      BY <2>3, <2>4
  <1>2. CASE ~\E p \in Workers : IssueTickets(p)
    BY <1>2, OnlyIssueIssues DEF NothingIssued, OneActiveTicket
  <1>3. QED
    BY <1>1, <1>2

\* A seat never has two ACTIVE tickets.
THEOREM OneActiveTicketAlways == Spec => []OneActiveTicket
  <1>1. Init => OneActiveTicket
    BY DEF Init, OneActiveTicket
  <1>2. CheckoutInv /\ OneActiveTicket /\ [Next]_checkoutVars => OneActiveTicket'
    BY OneActiveStep
  <1>3. QED
    BY <1>1, <1>2, CheckoutInvariant, PTL DEF Spec

\* Ticket rows outlive every step, with their order.
LEMMA TicketsKept ==
    ASSUME CheckoutInv, [Next]_checkoutVars, NEW s \in Seats, NEW j \in DOMAIN ticket[s]
    PROVE  j \in DOMAIN ticket'[s] /\ ticket'[s][j].order = ticket[s][j].order
  <1>1. ASSUME NEW p \in Workers, IssueTickets(p)
        PROVE  j \in DOMAIN ticket'[s] /\ ticket'[s][j].order = ticket[s][j].order
    <2> DEFINE k == job[p].order
               S == {h[1] : h \in job[p].holds}
    <2>1. k \in Orders /\ Issue(k, S)
      BY <1>1, IssueStep
    <2> HIDE DEF k, S
    <2>2. QED
      BY <2>1, IssueFacts DEF CheckoutInv
  <1>2. CASE ~\E p \in Workers : IssueTickets(p)
    BY <1>2, OnlyIssueIssues DEF NothingIssued
  <1>3. QED
    BY <1>1, <1>2

LEMMA PaidOrderStep ==
    ASSUME CheckoutInv, PaidOrderHasTicket, [Next]_checkoutVars
    PROVE  PaidOrderHasTicket'
  <1> SUFFICES ASSUME NEW k \in Orders, order'[k].status \in {"PAID", "REFUNDED"}
               PROVE  \E s \in Seats : \E j \in DOMAIN ticket'[s] : ticket'[s][j].order = k
    BY DEF PaidOrderHasTicket
  <1>1. ASSUME order[k].status \in {"PAID", "REFUNDED"}
        PROVE  \E s \in Seats : \E j \in DOMAIN ticket'[s] : ticket'[s][j].order = k
    <2>1. PICK s \in Seats : \E j \in DOMAIN ticket[s] : ticket[s][j].order = k
      BY <1>1 DEF PaidOrderHasTicket
    <2>2. PICK j \in DOMAIN ticket[s] : ticket[s][j].order = k
      BY <2>1
    <2>3. j \in DOMAIN ticket'[s] /\ ticket'[s][j].order = k
      BY <2>2, TicketsKept
    <2>4. QED
      BY <2>3
  <1>2. ASSUME NEW p \in Workers, IssueTickets(p), job[p].order = k
        PROVE  \E s \in Seats : \E j \in DOMAIN ticket'[s] : ticket'[s][j].order = k
    <2> DEFINE S == {h[1] : h \in job[p].holds}
    <2>1. job[p].holds # {} /\ job[p].holds \subseteq HoldIds /\ Issue(k, S)
      BY <1>2, IssueStep
    <2>2. PICK h \in HoldIds : h \in job[p].holds
      BY <2>1
    <2>3. h[1] \in Seats /\ h[1] \in S
      BY <2>2 DEF HoldIds
    <2> HIDE DEF S
    <2>4. /\ Len(ticket[h[1]]) + 1 \in DOMAIN ticket'[h[1]]
          /\ ticket'[h[1]][Len(ticket[h[1]]) + 1].order = k
      BY <2>1, <2>3, IssueFacts DEF CheckoutInv
    <2>5. QED
      BY <2>3, <2>4
  <1>3. ASSUME NEW p \in Workers, IssueTickets(p), job[p].order # k
        PROVE  order'[k] = order[k]
    BY <1>3 DEF IssueTickets, SetStatus, CheckoutInv, TablesOK
  <1>4. CASE ~\E p \in Workers : IssueTickets(p)
    BY <1>1, <1>4, OnlyIssueIssues DEF NothingIssued
  <1>5. QED
    BY <1>1, <1>2, <1>3, <1>4

\* No order is PAID without a ticket.
THEOREM PaidOrderHasTicketAlways == Spec => []PaidOrderHasTicket
  <1>1. Init => PaidOrderHasTicket
    BY DEF Init, PaidOrderHasTicket
  <1>2. CheckoutInv /\ PaidOrderHasTicket /\ [Next]_checkoutVars => PaidOrderHasTicket'
    BY PaidOrderStep
  <1>3. QED
    BY <1>1, <1>2, CheckoutInvariant, PTL DEF Spec

LEMMA ConsumedRowIsReleased ==
    ASSUME StoreTypeOK, NEW H, ConsumeHolds(H), NEW h \in H, h \in HoldIds,
           h[2] \in DOMAIN hold[h[1]]
    PROVE  hold'[h[1]][h[2]].released
  <1> DEFINE s == h[1]
             I == {i \in DOMAIN hold[s] : <<s, i>> \in H}
  <1>1. s \in Seats /\ h = <<s, h[2]>>
    BY DEF HoldIds
  <1>2. h[2] \in I
    BY <1>1
  <1>3. hold[s] \in Seq(HoldRow) /\ hold'[s] = ReleaseRows(s, I)
    BY <1>1 DEF StoreTypeOK, ConsumeHolds
  <1> HIDE DEF I
  <1>4. QED
    BY <1>1, <1>2, <1>3, ReleaseRowsFacts

LEMMA TicketComesFromHoldStep ==
    ASSUME CheckoutInv, TicketComesFromHold, [Next]_checkoutVars
    PROVE  TicketComesFromHold'
  <1> SUFFICES ASSUME NEW s \in Seats, NEW j \in DOMAIN ticket'[s]
               PROVE  \E i \in DOMAIN hold'[s] :
                         hold'[s][i].released /\ hold'[s][i].user = Buyer[ticket'[s][j].order]
    BY DEF TicketComesFromHold
  <1>1. RowsKept /\ StoreTypeOK
    BY CheckoutStepKept DEF CheckoutInv, StoreInv
  <1>2. ASSUME j \in DOMAIN ticket[s]
        PROVE  \E i \in DOMAIN hold'[s] :
                  hold'[s][i].released /\ hold'[s][i].user = Buyer[ticket'[s][j].order]
    <2>1. PICK i \in DOMAIN hold[s] :
             hold[s][i].released /\ hold[s][i].user = Buyer[ticket[s][j].order]
      BY <1>2 DEF TicketComesFromHold
    <2>2. ticket'[s][j].order = ticket[s][j].order
      BY <1>2, TicketsKept
    <2>3. i \in DOMAIN hold'[s] /\ hold'[s][i].user = hold[s][i].user /\ hold'[s][i].released
      BY <1>1, <2>1 DEF RowsKept
    <2>4. QED
      BY <2>1, <2>2, <2>3
  <1>3. ASSUME NEW p \in Workers, IssueTickets(p), j \notin DOMAIN ticket[s]
        PROVE  \E i \in DOMAIN hold'[s] :
                  hold'[s][i].released /\ hold'[s][i].user = Buyer[ticket'[s][j].order]
    <2> DEFINE k == job[p].order
               H == job[p].holds
               S == {h[1] : h \in H}
    <2>1. /\ k \in Orders /\ H \subseteq HoldIds /\ Issue(k, S) /\ ConsumeHolds(H)
          /\ \A h \in H : HeldByBuyer(h, k)
      BY <1>3, IssueStep
    <2> HIDE DEF k, H
    <2>2. s \in S
      BY <1>3, <2>1, IssueFacts DEF CheckoutInv
    <2>3. PICK h \in H : h[1] = s
      BY <2>2
    <2> HIDE DEF S
    <2>4. ticket'[s][j].order = k
      <3>1. /\ DOMAIN ticket'[s] = 1 .. Len(ticket[s]) + 1
            /\ DOMAIN ticket[s] = 1 .. Len(ticket[s])
            /\ Len(ticket[s]) \in Nat
            /\ ticket'[s][Len(ticket[s]) + 1].order = k
        BY <2>1, <2>2, IssueFacts DEF CheckoutInv
      <3>2. j = Len(ticket[s]) + 1
        BY <1>3, <3>1
      <3>3. QED
        BY <3>1, <3>2
    <2>5. h \in HoldIds /\ h[2] \in DOMAIN hold[s] /\ hold[s][h[2]].user = Buyer[k]
      BY <2>1, <2>3 DEF HeldByBuyer
    <2>6. hold'[s][h[2]].released
      BY <1>1, <2>1, <2>3, <2>5, ConsumedRowIsReleased
    <2>7. h[2] \in DOMAIN hold'[s] /\ hold'[s][h[2]].user = Buyer[k]
      BY <1>1, <2>5 DEF RowsKept
    <2>8. QED
      BY <2>4, <2>6, <2>7
  <1>4. ASSUME ~\E p \in Workers : IssueTickets(p)
        PROVE  j \in DOMAIN ticket[s]
    BY <1>4, OnlyIssueIssues DEF NothingIssued
  <1>5. QED
    BY <1>2, <1>3, <1>4

\* Every ticket goes back to a hold of its buyer, now released for good.
THEOREM TicketComesFromHoldAlways == Spec => []TicketComesFromHold
  <1>1. Init => TicketComesFromHold
    BY DEF Init, TicketComesFromHold
  <1>2. CheckoutInv /\ TicketComesFromHold /\ [Next]_checkoutVars => TicketComesFromHold'
    BY TicketComesFromHoldStep
  <1>3. QED
    BY <1>1, <1>2, CheckoutInvariant, PTL DEF Spec

LEMMA IssuedAfterChargeStep ==
    ASSUME CheckoutInv, IssuedOnlyAfterCharge, [Next]_checkoutVars
    PROVE  IssuedOnlyAfterCharge'
  <1> SUFFICES ASSUME NEW s \in Seats, NEW j \in DOMAIN ticket'[s],
                      Method[ticket'[s][j].order] = "STRIPE"
               PROVE  ticket'[s][j].order \in charged'
    BY DEF IssuedOnlyAfterCharge
  <1>1. charged \subseteq charged'
    BY CheckoutStepKept DEF PayKept
  <1>2. ASSUME j \in DOMAIN ticket[s]
        PROVE  ticket'[s][j].order \in charged'
    BY <1>1, <1>2, TicketsKept DEF IssuedOnlyAfterCharge
  <1>3. ASSUME NEW p \in Workers, IssueTickets(p), j \notin DOMAIN ticket[s]
        PROVE  ticket'[s][j].order \in charged'
    <2> DEFINE k == job[p].order
               S == {h[1] : h \in job[p].holds}
    <2>1. k \in Orders /\ Issue(k, S) /\ (Method[k] = "FAKE" \/ <<k, "PAID">> \in recorded)
      BY <1>3, IssueStep
    <2> HIDE DEF k, S
    <2>2. Method[k] = "STRIPE" => k \in charged
      BY <2>1 DEF CheckoutInv, PayInv
    <2>3. s \in S
      BY <1>3, <2>1, IssueFacts DEF CheckoutInv
    <2>4. /\ DOMAIN ticket'[s] = 1 .. Len(ticket[s]) + 1
          /\ DOMAIN ticket[s] = 1 .. Len(ticket[s])
          /\ Len(ticket[s]) \in Nat
          /\ ticket'[s][Len(ticket[s]) + 1].order = k
      BY <2>1, <2>3, IssueFacts DEF CheckoutInv
    <2>5. j = Len(ticket[s]) + 1
      BY <1>3, <2>4
    <2>6. QED
      BY <1>1, <2>2, <2>4, <2>5
  <1>4. ASSUME ~\E p \in Workers : IssueTickets(p)
        PROVE  j \in DOMAIN ticket[s]
    BY <1>4, OnlyIssueIssues DEF NothingIssued
  <1>5. QED
    BY <1>2, <1>3, <1>4

\* With Stripe no ticket is issued for an order that was not charged.
THEOREM IssuedOnlyAfterChargeAlways == Spec => []IssuedOnlyAfterCharge
  <1>1. Init => IssuedOnlyAfterCharge
    BY DEF Init, IssuedOnlyAfterCharge
  <1>2. CheckoutInv /\ IssuedOnlyAfterCharge /\ [Next]_checkoutVars => IssuedOnlyAfterCharge'
    BY IssuedAfterChargeStep
  <1>3. QED
    BY <1>1, <1>2, CheckoutInvariant, PTL DEF Spec
=============================================================================
