-------------------------- MODULE SeatHoldsProofs --------------------------
(***************************************************************************)
(* The hold handlers, for any customers, seats, handlers and bounds.       *)
(* Every step of a handler is a transaction of SeatStore or leaves its     *)
(* tables alone, so the theorems about the tables carry over; what the     *)
(* handlers have read is tied to the tables by HoldsInv.  LimitInv says    *)
(* which handlers may still trust the count they have made.                *)
(***************************************************************************)
EXTENDS SeatHolds, SeatStoreProofs, FunctionTheorems, FiniteSetTheorems

\* What handler p has read and the tables still agree on: a release handler
\* holds the id of a row of its own customer; when a hold handler is about to
\* retry, the rows that can block it outlive the lazy expiry it has run.
HandlerAgrees(p) ==
    /\ req[p].pc = "release" =>
          \E s \in Seats :
              /\ req[p].seats = {s}
              /\ req[p].row \in DOMAIN hold[s]
              /\ hold[s][req[p].row].user = req[p].user
    /\ req[p].pc = "retry" =>
          /\ req[p].at <= clock
          /\ \A s \in req[p].seats : \A i \in Unreleased(s) :
                hold[s][i].expiresAt > req[p].at

HoldsInv ==
    /\ TypeOK
    /\ StoreInv
    /\ \A p \in Requests : HandlerAgrees(p)

-----------------------------------------------------------------------------
(* The handlers implement the tables.                                       *)

LEMMA StepIsStoreStep ==
    ASSUME TypeOK, [Next]_vars
    PROVE  [StoreNext]_storeVars
  <1>1. ASSUME NEW p \in Requests, NEW u \in Users, NEW S \in SUBSET Seats,
               HoldRequest(p, u, S)
        PROVE  UNCHANGED storeVars
    BY <1>1 DEF HoldRequest
  <1>2. ASSUME NEW p \in Requests, NEW u \in Users, NEW s \in Seats, NEW i \in DOMAIN hold[s],
               ReleaseRequest(p, u, s, i)
        PROVE  UNCHANGED storeVars
    BY <1>2 DEF ReleaseRequest
  <1>3. ASSUME NEW p \in Requests, Handler(p)
        PROVE  [StoreNext]_storeVars
    <2>1. req[p].pc # "idle" => req[p].user \in Users
      BY DEF TypeOK
    <2>2. req[p].seats \in SUBSET Seats
      BY DEF TypeOK, Request
    <2>3. CASE CountActive(p)
      BY <2>3 DEF CountActive
    <2>4. CASE AttemptSucceeds(p)
      <3>1. CreateHolds(req[p].user, req[p].seats) /\ req[p].user \in Users
        BY <2>1, <2>4 DEF AttemptSucceeds
      <3>2. QED
        BY <2>2, <3>1 DEF StoreNext
    <2>5. CASE AttemptConflicts(p)
      BY <2>5 DEF AttemptConflicts
    <2>6. CASE ReleaseExpired(p)
      BY <2>2, <2>6 DEF ReleaseExpired, StoreNext
    <2>7. CASE ReleaseCommits(p)
      <3>1. PICK s \in Seats : ReleaseHold(s, req[p].row)
        BY <2>2, <2>7 DEF ReleaseCommits
      <3>2. req[p].row \in DOMAIN hold[s]
        BY <3>1 DEF ReleaseHold
      <3>3. QED
        BY <3>1, <3>2 DEF StoreNext
    <2>8. QED
      BY <1>3, <2>3, <2>4, <2>5, <2>6, <2>7 DEF Handler
  <1>4. ASSUME NEW p \in Requests, HandlerDies(p)
        PROVE  UNCHANGED storeVars
    BY <1>4 DEF HandlerDies
  <1>5. CASE EventCancelled
    BY <1>5 DEF EventCancelled
  <1>6. CASE CronTick
    BY <1>6 DEF CronTick, StoreNext
  <1>7. CASE TimePasses
    BY <1>7 DEF TimePasses, StoreNext
  <1>8. CASE UNCHANGED vars
    BY <1>8 DEF vars
  <1>9. QED
    BY <1>1, <1>2, <1>3, <1>4, <1>5, <1>6, <1>7, <1>8 DEF Next

-----------------------------------------------------------------------------
(* Types.                                                                   *)

\* The handlers' own part of TypeOK.
ReqTypeOK ==
    /\ published \in BOOLEAN
    /\ req \in [Requests -> Request]
    /\ \A p \in Requests : req[p].pc # "idle" => req[p].user \in Users

LEMMA NewRequestType ==
    ASSUME NEW pc \in Pc, NEW u \in Users \cup {Nobody}, NEW S \in SUBSET Seats, NEW i \in Nat
    PROVE  /\ NewRequest(pc, u, S, i) \in Request
           /\ NewRequest(pc, u, S, i).pc = pc
           /\ NewRequest(pc, u, S, i).user = u
           /\ NewRequest(pc, u, S, i).seats = S
           /\ NewRequest(pc, u, S, i).row = i
  BY DEF NewRequest, Request

LEMMA IdleRequestType == IdleRequest \in Request /\ IdleRequest.pc = "idle"
  BY NewRequestType DEF IdleRequest, Pc

LEMMA SetRequestType ==
    ASSUME ReqTypeOK, NEW p \in Requests, NEW r \in Request,
           r.pc # "idle" => r.user \in Users,
           req' = [req EXCEPT ![p] = r], published' \in BOOLEAN
    PROVE  ReqTypeOK'
  BY DEF ReqTypeOK

LEMMA GotoType ==
    ASSUME ReqTypeOK, NEW p \in Requests, NEW c \in Pc, Goto(p, c),
           req[p].pc # "idle", published' \in BOOLEAN
    PROVE  ReqTypeOK'
  <1>1. /\ req[p] \in Request /\ req[p].user \in Users
        /\ [req[p] EXCEPT !.pc = c] \in Request
        /\ [req[p] EXCEPT !.pc = c].user = req[p].user
    BY DEF ReqTypeOK, Request
  <1>2. req' = [req EXCEPT ![p] = [req[p] EXCEPT !.pc = c]]
    BY DEF Goto, ReqTypeOK
  <1>3. QED
    BY <1>1, <1>2, SetRequestType

LEMMA AnswerType ==
    ASSUME ReqTypeOK, NEW p \in Requests, Answer(p), published' \in BOOLEAN
    PROVE  ReqTypeOK'
  BY IdleRequestType, SetRequestType DEF Answer

LEMMA ReqTypeStep ==
    ASSUME StoreTypeOK, ReqTypeOK, [Next]_vars
    PROVE  ReqTypeOK'
  <1>1. published \in BOOLEAN
    BY DEF ReqTypeOK
  <1>2. ASSUME NEW p \in Requests, NEW u \in Users, NEW S \in SUBSET Seats,
               HoldRequest(p, u, S)
        PROVE  ReqTypeOK'
    <2>1. NewRequest("count", u, S, 0) \in Request /\ NewRequest("count", u, S, 0).user = u
      BY NewRequestType DEF Pc
    <2>2. QED
      BY <1>1, <1>2, <2>1, SetRequestType DEF HoldRequest
  <1>3. ASSUME NEW p \in Requests, NEW u \in Users, NEW s \in Seats, NEW i \in DOMAIN hold[s],
               ReleaseRequest(p, u, s, i)
        PROVE  ReqTypeOK'
    <2>1. i \in Nat
      BY DEF StoreTypeOK
    <2>2. /\ NewRequest("release", u, {s}, i) \in Request
          /\ NewRequest("release", u, {s}, i).user = u
      BY <2>1, NewRequestType DEF Pc
    <2>3. QED
      BY <1>1, <1>3, <2>2, SetRequestType DEF ReleaseRequest
  <1>4. ASSUME NEW p \in Requests, CountActive(p)
        PROVE  ReqTypeOK'
    BY <1>1, <1>4, GotoType, AnswerType DEF CountActive, Pc
  <1>5. ASSUME NEW p \in Requests, AttemptSucceeds(p)
        PROVE  ReqTypeOK'
    BY <1>1, <1>5, AnswerType DEF AttemptSucceeds
  <1>6. ASSUME NEW p \in Requests, AttemptConflicts(p)
        PROVE  ReqTypeOK'
    BY <1>1, <1>6, GotoType, AnswerType DEF AttemptConflicts, Pc
  <1>7. ASSUME NEW p \in Requests, ReleaseExpired(p)
        PROVE  ReqTypeOK'
    <2>1. clock \in Nat /\ req[p] \in Request /\ req[p].user \in Users
      BY <1>7 DEF StoreTypeOK, ReqTypeOK, ReleaseExpired
    <2>2. /\ [req[p] EXCEPT !.pc = "retry", !.at = clock] \in Request
          /\ [req[p] EXCEPT !.pc = "retry", !.at = clock].user = req[p].user
      BY <2>1 DEF Request, Pc
    <2>3. req' = [req EXCEPT ![p] = [req[p] EXCEPT !.pc = "retry", !.at = clock]]
      BY <1>7 DEF ReleaseExpired, ReqTypeOK
    <2>4. QED
      BY <1>1, <1>7, <2>1, <2>2, <2>3, SetRequestType DEF ReleaseExpired
  <1>8. ASSUME NEW p \in Requests, ReleaseCommits(p)
        PROVE  ReqTypeOK'
    BY <1>1, <1>8, AnswerType DEF ReleaseCommits
  <1>9. ASSUME NEW p \in Requests, HandlerDies(p)
        PROVE  ReqTypeOK'
    BY <1>1, <1>9, AnswerType DEF HandlerDies
  <1>10. CASE EventCancelled
    BY <1>10 DEF EventCancelled, ReqTypeOK
  <1>11. CASE CronTick
    BY <1>11 DEF CronTick, ReqTypeOK
  <1>12. CASE TimePasses
    BY <1>12 DEF TimePasses, ReqTypeOK
  <1>13. CASE UNCHANGED vars
    BY <1>13 DEF vars, ReqTypeOK
  <1>14. QED
    BY <1>2, <1>3, <1>4, <1>5, <1>6, <1>7, <1>8, <1>9, <1>10, <1>11, <1>12, <1>13
       DEF Next, Handler

-----------------------------------------------------------------------------
(* What the handlers have read stays true.                                  *)

LEMMA UntouchedHandlerAgrees ==
    ASSUME TypeOK, TypeOK', RowsKept, NEW p \in Requests, HandlerAgrees(p), req'[p] = req[p]
    PROVE  HandlerAgrees(p)'
  <1>1. ASSUME req[p].pc = "release"
        PROVE  \E s \in Seats :
                  /\ req[p].seats = {s}
                  /\ req[p].row \in DOMAIN hold'[s]
                  /\ hold'[s][req[p].row].user = req[p].user
    BY <1>1 DEF HandlerAgrees, RowsKept
  <1>2. ASSUME req[p].pc = "retry"
        PROVE  /\ req[p].at <= clock'
               /\ \A s \in req[p].seats : \A i \in DOMAIN hold'[s] :
                     ~hold'[s][i].released => hold'[s][i].expiresAt > req[p].at
    <2>1. clock \in Nat /\ clock' \in Nat /\ req[p].at \in Nat /\ req[p].seats \in SUBSET Seats
      BY DEF TypeOK, StoreTypeOK, Request
    <2>2. req[p].at <= clock /\ clock <= clock'
      BY <1>2 DEF HandlerAgrees, RowsKept
    <2>3. ASSUME NEW s \in req[p].seats, NEW i \in DOMAIN hold'[s], ~hold'[s][i].released
          PROVE  hold'[s][i].expiresAt > req[p].at
      <3>1. CASE i \in DOMAIN hold[s]
        BY <1>2, <2>1, <2>3, <3>1 DEF HandlerAgrees, RowsKept, Unreleased
      <3>2. CASE i \notin DOMAIN hold[s]
        <4>1. clock < hold'[s][i].expiresAt
          BY <2>1, <3>2 DEF RowsKept
        <4>2. hold'[s] \in Seq(HoldRow)
          BY <2>1 DEF TypeOK, StoreTypeOK
        <4>3. hold'[s][i] \in HoldRow
          BY <4>2
        <4>4. hold'[s][i].expiresAt \in Nat
          BY <4>3 DEF HoldRow
        <4>5. QED
          BY <2>1, <2>2, <4>1, <4>4
      <3>3. QED
        BY <3>1, <3>2
    <2>4. QED
      BY <2>1, <2>2, <2>3
  <1>3. QED
    BY <1>1, <1>2 DEF HandlerAgrees, Unreleased

LEMMA NothingReadAgrees ==
    ASSUME NEW p \in Requests, req'[p].pc \notin {"release", "retry"}
    PROVE  HandlerAgrees(p)'
  BY DEF HandlerAgrees

LEMMA ReleaseRequestAgrees ==
    ASSUME TypeOK, NEW p \in Requests, NEW u \in Users, NEW s \in Seats,
           NEW i \in DOMAIN hold[s], ReleaseRequest(p, u, s, i)
    PROVE  HandlerAgrees(p)'
  <1>1. i \in Nat
    BY DEF TypeOK, StoreTypeOK
  <1>2. req'[p] = NewRequest("release", u, {s}, i)
    BY DEF ReleaseRequest, TypeOK
  <1>3. /\ req'[p].pc = "release" /\ req'[p].user = u
        /\ req'[p].seats = {s} /\ req'[p].row = i
    BY <1>1, <1>2, NewRequestType DEF Pc
  <1>4. hold' = hold /\ hold[s][i].user = u
    BY DEF ReleaseRequest, MayRelease, storeVars
  <1>5. QED
    BY <1>3, <1>4 DEF HandlerAgrees

LEMMA ReleaseExpiredAgrees ==
    ASSUME TypeOK, NEW p \in Requests, ReleaseExpired(p)
    PROVE  HandlerAgrees(p)'
  <1> DEFINE lapsed(s) == {i \in DOMAIN hold[s] : s \in req[p].seats /\ LapsedAt(hold[s][i], clock)}
  <1>1. /\ clock \in Nat /\ clock' = clock
        /\ req[p].seats \in SUBSET Seats
        /\ req'[p].pc = "retry" /\ req'[p].seats = req[p].seats /\ req'[p].at = clock
    BY DEF ReleaseExpired, LazyRelease, TypeOK, StoreTypeOK, Request
  <1>2. ASSUME NEW s \in req[p].seats, NEW i \in DOMAIN hold'[s], ~hold'[s][i].released
        PROVE  hold'[s][i].expiresAt > clock
    <2>1. hold[s] \in Seq(HoldRow) /\ s \in Seats
      BY <1>1 DEF TypeOK, StoreTypeOK
    <2>2. hold'[s] = ReleaseRows(s, lapsed(s))
      BY <2>1 DEF ReleaseExpired, LazyRelease
    <2>3. i \in DOMAIN hold[s]
      BY <2>1, <2>2, ReleaseRowsFacts
    <2>4. /\ hold'[s][i].expiresAt = hold[s][i].expiresAt
          /\ ~hold[s][i].released /\ i \notin lapsed(s)
      BY <1>2, <2>1, <2>2, <2>3, ReleaseRowsFacts
    <2>5. ~(hold[s][i].expiresAt <= clock)
      BY <2>3, <2>4 DEF LapsedAt
    <2>6. hold[s][i] \in HoldRow
      BY <2>1, <2>3
    <2>7. QED
      BY <1>1, <2>4, <2>5, <2>6 DEF HoldRow
  <1>3. QED
    BY <1>1, <1>2 DEF HandlerAgrees, Unreleased

LEMMA AgreesStep ==
    ASSUME TypeOK, TypeOK', RowsKept, \A p \in Requests : HandlerAgrees(p), [Next]_vars
    PROVE  \A p \in Requests : HandlerAgrees(p)'
  <1> SUFFICES ASSUME NEW p \in Requests PROVE HandlerAgrees(p)'
    OBVIOUS
  <1>1. CASE req'[p] = req[p]
    BY <1>1, UntouchedHandlerAgrees
  <1>2. CASE req'[p] # req[p]
    <2>1. ASSUME NEW q \in Requests, NEW u \in Users, NEW S \in SUBSET Seats,
                 HoldRequest(q, u, S)
          PROVE  HandlerAgrees(p)'
      <3>1. req'[p] = NewRequest("count", u, S, 0)
        BY <1>2, <2>1 DEF HoldRequest, TypeOK
      <3>2. req'[p].pc = "count"
        BY <3>1, NewRequestType DEF Pc
      <3>3. QED
        BY <3>2, NothingReadAgrees
    <2>2. ASSUME NEW q \in Requests, NEW u \in Users, NEW s \in Seats, NEW i \in DOMAIN hold[s],
                 ReleaseRequest(q, u, s, i)
          PROVE  HandlerAgrees(p)'
      <3>1. p = q
        BY <1>2, <2>2 DEF ReleaseRequest, TypeOK
      <3>2. QED
        BY <2>2, <3>1, ReleaseRequestAgrees
    <2>3. ASSUME NEW q \in Requests, Answer(q)
          PROVE  HandlerAgrees(p)'
      <3>1. req'[p] = IdleRequest
        BY <1>2, <2>3 DEF Answer, TypeOK
      <3>2. QED
        BY <3>1, IdleRequestType, NothingReadAgrees
    <2>4. ASSUME NEW q \in Requests, NEW c \in {"attempt", "lazy"}, Goto(q, c)
          PROVE  HandlerAgrees(p)'
      <3>1. req'[p].pc = c
        BY <1>2, <2>4 DEF Goto, TypeOK, Request
      <3>2. QED
        BY <3>1, NothingReadAgrees
    <2>5. ASSUME NEW q \in Requests, ReleaseExpired(q)
          PROVE  HandlerAgrees(p)'
      <3>1. p = q
        BY <1>2, <2>5 DEF ReleaseExpired, TypeOK
      <3>2. QED
        BY <2>5, <3>1, ReleaseExpiredAgrees
    <2>6. ASSUME NEW q \in Requests, Handler(q)
          PROVE  HandlerAgrees(p)'
      BY <2>3, <2>4, <2>5, <2>6 DEF Handler, CountActive, AttemptSucceeds, AttemptConflicts,
                                    ReleaseCommits
    <2>7. ASSUME NEW q \in Requests, HandlerDies(q)
          PROVE  HandlerAgrees(p)'
      BY <2>3, <2>7 DEF HandlerDies
    <2>8. EventCancelled \/ CronTick \/ TimePasses \/ UNCHANGED vars => req' = req
      BY DEF EventCancelled, CronTick, TimePasses, vars
    <2>9. QED
      BY <1>2, <2>1, <2>2, <2>6, <2>7, <2>8 DEF Next
  <1>3. QED
    BY <1>1, <1>2

-----------------------------------------------------------------------------
(* The theorems.                                                            *)

LEMMA TypeOKParts == TypeOK <=> StoreTypeOK /\ ReqTypeOK /\ overlapped \subseteq Requests
  BY DEF TypeOK, ReqTypeOK

LEMMA OverlappedStep ==
    ASSUME overlapped \subseteq Requests, [Next]_vars
    PROVE  overlapped' \subseteq Requests
  <1>1. ASSUME NEW p \in Requests, NEW u \in Users, NEW S \in SUBSET Seats, HoldRequest(p, u, S)
        PROVE  overlapped' \subseteq Requests
    BY <1>1 DEF HoldRequest, Rivals
  <1>2. ASSUME NEW p \in Requests, NEW u \in Users, NEW s \in Seats, NEW i \in DOMAIN hold[s],
               ReleaseRequest(p, u, s, i)
        PROVE  overlapped' \subseteq Requests
    BY <1>2 DEF ReleaseRequest
  <1>3. ASSUME NEW p \in Requests, Handler(p) \/ HandlerDies(p)
        PROVE  overlapped' \subseteq Requests
    BY <1>3 DEF Handler, HandlerDies, CountActive, AttemptSucceeds, AttemptConflicts, ReleaseExpired,
                ReleaseCommits, Goto, Answer
  <1>4. CASE EventCancelled \/ CronTick \/ TimePasses \/ UNCHANGED vars
    BY <1>4 DEF EventCancelled, CronTick, TimePasses, vars
  <1>5. QED
    BY <1>1, <1>2, <1>3, <1>4 DEF Next

LEMMA HoldsInit == Init => HoldsInv
  <1> SUFFICES ASSUME Init PROVE HoldsInv
    OBVIOUS
  <1>1. StoreInv
    BY StoreInitInv DEF Init
  <1>2. ReqTypeOK
    BY IdleRequestType DEF Init, ReqTypeOK
  <1>3. \A p \in Requests : HandlerAgrees(p)
    BY IdleRequestType DEF Init, HandlerAgrees
  <1>4. QED
    BY <1>1, <1>2, <1>3, TypeOKParts DEF HoldsInv, StoreInv, Init

LEMMA HoldsStep == HoldsInv /\ [Next]_vars => HoldsInv' /\ RowsKept
  <1> SUFFICES ASSUME HoldsInv, [Next]_vars PROVE HoldsInv' /\ RowsKept
    OBVIOUS
  <1>1. TypeOK /\ StoreTypeOK /\ ReqTypeOK /\ overlapped \subseteq Requests
    BY TypeOKParts DEF HoldsInv
  <1>2. [StoreNext]_storeVars
    BY <1>1, StepIsStoreStep
  <1>3. StoreInv'
    BY <1>2, StoreStepInv DEF HoldsInv
  <1>4. RowsKept
    BY <1>1, <1>2, StoreStepKeepsRows
  <1>5. ReqTypeOK'
    BY <1>1, ReqTypeStep
  <1>6. TypeOK'
    BY <1>1, <1>3, <1>5, OverlappedStep DEF TypeOK, ReqTypeOK, StoreInv
  <1>7. \A p \in Requests : HandlerAgrees(p)'
    BY <1>1, <1>4, <1>6, AgreesStep DEF HoldsInv
  <1>8. QED
    BY <1>3, <1>4, <1>6, <1>7 DEF HoldsInv

\* The inductive invariant of the handlers and the tables together.
THEOREM HoldsInvariant == Spec => []HoldsInv
  BY HoldsInit, HoldsStep, PTL DEF Spec

\* Every state is one the types of the tables and of the handlers describe.
THEOREM HoldsTypeCorrect == Spec => []TypeOK
  <1>1. HoldsInv => TypeOK
    BY DEF HoldsInv
  <1>2. QED
    BY <1>1, HoldsInvariant, PTL

\* The handlers, however interleaved and wherever they die, only ever do
\* what the transactions of the tables allow.
THEOREM HoldsImplementStore == Spec => StoreSpec
  <1>1. Init => StoreInit
    BY DEF Init
  <1>2. HoldsInv /\ [Next]_vars => [StoreNext]_storeVars
    BY StepIsStoreStep DEF HoldsInv
  <1>3. QED
    BY <1>1, <1>2, HoldsInvariant, PTL DEF Spec, StoreSpec

\* Hence a seat has at most one unreleased hold, whatever the handlers do.
THEOREM HoldsNeverDouble == Spec => []OneUnreleasedHold
  BY HoldsImplementStore, OneUnreleasedHoldAlways

\* A seat that the map shows as free again can be taken.
THEOREM HoldsLapsedReclaimable == Spec => []LapsedSeatIsReclaimable
  BY HoldsImplementStore, LapsedSeatIsReclaimableAlways

\* The hold handlers implement exclusive, all-or-nothing reservations.
THEOREM HoldsImplementReservation == Spec => ReservationSpec
  BY HoldsImplementStore, StoreImplementsReservation

\* SEAT_TAKEN on the retry is never due to a hold that had lapsed when the
\* lazy expiry ran.
THEOREM RetryConflictIsRealAlways == Spec => []RetryConflictIsReal
  <1>1. HoldsInv => RetryConflictIsReal
    BY DEF HoldsInv, HandlerAgrees, RetryConflictIsReal
  <1>2. QED
    BY <1>1, HoldsInvariant, PTL

LEMMA ActiveRow ==
    ASSUME StoreTypeOK, NEW s \in Seats, NEW i \in Active(s)
    PROVE  /\ hold[s] \in Seq(HoldRow) /\ i \in DOMAIN hold[s]
           /\ ~hold[s][i].released
           /\ ~(hold[s][i].expiresAt <= clock) /\ ~(hold[s][i].expiresAt < clock)
  <1>1. hold[s] \in Seq(HoldRow) /\ i \in DOMAIN hold[s] /\ clock \in Nat
    BY DEF StoreTypeOK, Active
  <1>2. hold[s][i] \in HoldRow
    BY <1>1
  <1>3. hold[s][i].expiresAt \in Nat
    BY <1>2 DEF HoldRow
  <1>4. QED
    BY <1>1, <1>3 DEF Active, ActiveAt

LEMMA OnlyOwnerStep ==
    ASSUME HoldsInv, [Next]_vars, NEW s \in Seats, NEW i \in Active(s), hold'[s][i].released
    PROVE  \E p \in Requests :
              /\ req[p].pc = "release"
              /\ req[p].user = hold[s][i].user
              /\ req[p].seats = {s} /\ req[p].row = i
  <1>1. StoreTypeOK /\ TypeOK
    BY DEF HoldsInv, StoreInv
  <1>2. hold'[s][i] # hold[s][i]
    BY <1>1, ActiveRow
  <1>3. ASSUME NEW I, hold'[s] = ReleaseRows(s, I)
        PROVE  i \in I
    BY <1>1, <1>2, <1>3, ActiveRow, ReleaseRowsFacts
  <1>4. ASSUME NEW u \in Users, NEW S \in SUBSET Seats, CreateHolds(u, S)
        PROVE  FALSE
    <2>1. hold'[s] = hold[s] \/ \E row : hold'[s] = Append(hold[s], row)
      BY <1>4 DEF CreateHolds
    <2>2. QED
      BY <1>1, <1>2, <2>1, ActiveRow
  <1>5. ASSUME NEW S \in SUBSET Seats, LazyRelease(S)
        PROVE  FALSE
    <2>1. i \in {j \in DOMAIN hold[s] : s \in S /\ LapsedAt(hold[s][j], clock)}
      BY <1>3, <1>5 DEF LazyRelease
    <2>2. QED
      BY <1>1, <2>1, ActiveRow DEF LapsedAt
  <1>6. ASSUME CronExpireHolds
        PROVE  FALSE
    <2>1. i \in CronExpired(s)
      BY <1>3, <1>6 DEF CronExpireHolds
    <2>2. QED
      BY <1>1, <2>1, ActiveRow DEF CronExpired
  <1>7. ASSUME NEW p \in Requests, ReleaseCommits(p)
        PROVE  /\ req[p].pc = "release"
               /\ req[p].user = hold[s][i].user
               /\ req[p].seats = {s} /\ req[p].row = i
    <2>1. req[p].pc = "release"
      BY <1>7 DEF ReleaseCommits
    <2>2. PICK t \in req[p].seats : ReleaseHold(t, req[p].row)
      BY <1>7 DEF ReleaseCommits
    <2>3. PICK v \in Seats : /\ req[p].seats = {v}
                             /\ hold[v][req[p].row].user = req[p].user
      BY <2>1 DEF HoldsInv, HandlerAgrees
    <2>4. t = v
      BY <2>2, <2>3
    <2>5. CASE t = s
      <3>1. hold'[s] = ReleaseRows(s, {req[p].row})
        BY <1>1, <2>2, <2>5 DEF ReleaseHold, StoreTypeOK
      <3>2. i = req[p].row
        BY <1>3, <3>1
      <3>3. QED
        BY <2>1, <2>3, <2>4, <2>5, <3>2
    <2>6. CASE t # s
      BY <1>1, <1>2, <2>2, <2>6 DEF ReleaseHold, StoreTypeOK
    <2>7. QED
      BY <2>5, <2>6
  <1>8. hold' # hold
    BY <1>2
  <1>9. ASSUME NEW p \in Requests, Handler(p)
        PROVE  ReleaseCommits(p)
    <2>1. req[p].seats \in SUBSET Seats /\ (req[p].pc # "idle" => req[p].user \in Users)
      BY <1>1 DEF TypeOK, Request
    <2>2. ~CountActive(p) /\ ~AttemptConflicts(p)
      BY <1>8 DEF CountActive, AttemptConflicts, storeVars
    <2>3. ~AttemptSucceeds(p)
      BY <1>4, <2>1 DEF AttemptSucceeds
    <2>4. ~ReleaseExpired(p)
      BY <1>5, <2>1 DEF ReleaseExpired
    <2>5. QED
      BY <1>9, <2>2, <2>3, <2>4 DEF Handler
  <1>10. ~CronTick /\ ~EventCancelled /\ ~TimePasses /\ ~UNCHANGED vars
    BY <1>6, <1>8 DEF CronTick, EventCancelled, TimePasses, Tick, storeVars, vars
  <1>11. ASSUME NEW p \in Requests
         PROVE  /\ ~HandlerDies(p)
                /\ \A u \in Users, S \in SUBSET Seats : ~HoldRequest(p, u, S)
                /\ \A u \in Users, t \in Seats : \A j \in DOMAIN hold[t] :
                      ~ReleaseRequest(p, u, t, j)
    BY <1>8 DEF HandlerDies, HoldRequest, ReleaseRequest, storeVars
  <1>12. PICK p \in Requests : Handler(p)
    BY <1>10, <1>11 DEF Next
  <1>13. QED
    BY <1>7, <1>9, <1>12

\* While a hold is active only its own customer's release ends it.
THEOREM OnlyOwnerEndsActiveHoldAlways == Spec => OnlyOwnerEndsActiveHold
  <1>1. HoldsInv /\ [Next]_vars =>
            [\A s \in Seats : \A i \in Active(s) :
                hold'[s][i].released =>
                    \E p \in Requests :
                        /\ req[p].pc = "release"
                        /\ req[p].user = hold[s][i].user
                        /\ req[p].seats = {s} /\ req[p].row = i]_vars
    BY OnlyOwnerStep
  <1>2. QED
    BY <1>1, HoldsInvariant, PTL DEF Spec, OnlyOwnerEndsActiveHold

-----------------------------------------------------------------------------
(* The limit of a customer.                                                 *)

LEMMA SmallerSet ==
    ASSUME NEW A, IsFiniteSet(A), NEW B, B \subseteq A
    PROVE  /\ IsFiniteSet(B) /\ Cardinality(A) \in Nat /\ Cardinality(B) \in Nat
           /\ Cardinality(B) <= Cardinality(A)
  BY FS_Subset, FS_CardinalityType

LEMMA JoinedSets ==
    ASSUME NEW A, IsFiniteSet(A), NEW B, IsFiniteSet(B)
    PROVE  /\ IsFiniteSet(A \cup B)
           /\ Cardinality(A \cup B) <= Cardinality(A) + Cardinality(B)
  <1>1. IsFiniteSet(A \cap B) /\ Cardinality(A \cap B) \in Nat
    BY SmallerSet
  <1>2. Cardinality(A) \in Nat /\ Cardinality(B) \in Nat
    BY FS_CardinalityType
  <1>3. /\ IsFiniteSet(A \cup B)
        /\ Cardinality(A \cup B) = Cardinality(A) + Cardinality(B) - Cardinality(A \cap B)
    BY FS_Union
  <1>4. QED
    BY <1>1, <1>2, <1>3

\* As many rows as seats.
LEMMA OneRowPerSeat ==
    ASSUME NEW S, IsFiniteSet(S), NEW g
    PROVE  /\ IsFiniteSet({<<s, g[s]>> : s \in S})
           /\ Cardinality({<<s, g[s]>> : s \in S}) <= Cardinality(S)
  <1> DEFINE T == {<<s, g[s]>> : s \in S}
             f == [s \in S |-> <<s, g[s]>>]
  <1>1. f \in Surjection(S, T)
    BY DEF Surjection
  <1>2. QED
    BY <1>1, FS_Surjection

\* The hold handlers, and those of them past the count.
Holding == {"count", "attempt", "lazy", "retry"}
Counted == {"attempt", "lazy", "retry"}

\* Two hold handlers of one customer have both overlapped; so a handler that has
\* not overlapped is the only one of its customer that may create holds, and
\* there is still the room it has counted.
LimitInv ==
    /\ \A p, q \in Requests :
          p # q /\ req[p].pc \in Holding /\ req[q].pc \in Holding /\ req[p].user = req[q].user =>
              p \in overlapped
    /\ \A p \in Requests : req[p].pc \in Counted /\ p \notin overlapped =>
          WithinLimit(req[p].user, req[p].seats)

LEMMA ActiveRowsFinite ==
    ASSUME IsFiniteSet(Seats), NEW u
    PROVE  IsFiniteSet(ActiveOf(u)) /\ Cardinality(ActiveOf(u)) \in Nat
  <1>1. IsFiniteSet(Seats \X (1 .. MaxHolds))
    <2>1. 1 \in Int /\ MaxHolds \in Int
      BY StoreAssumption
    <2>2. IsFiniteSet(1 .. MaxHolds)
      BY <2>1, FS_Interval
    <2>3. QED
      BY <2>2, FS_Product
  <1>2. ActiveOf(u) \subseteq Seats \X (1 .. MaxHolds)
    BY DEF ActiveOf
  <1>3. QED
    BY <1>1, <1>2, SmallerSet

\* Rows that stay the same rows become no more active ones.
LEMMA FewerActiveRows ==
    ASSUME StoreTypeOK, StoreTypeOK', RowsKept, \A s \in Seats : DOMAIN hold'[s] = DOMAIN hold[s], NEW u
    PROVE  ActiveOf(u)' \subseteq ActiveOf(u)
  <1> SUFFICES ASSUME NEW h \in ActiveOf(u)' PROVE h \in ActiveOf(u)
    OBVIOUS
  <1> DEFINE s == h[1]
             i == h[2]
  <1>1. /\ h \in Seats \X (1 .. MaxHolds) /\ s \in Seats /\ i \in DOMAIN hold'[s]
        /\ ~hold'[s][i].released /\ hold'[s][i].expiresAt > clock' /\ hold'[s][i].user = u
    BY DEF ActiveOf, Active, ActiveAt
  <1>2. i \in DOMAIN hold[s]
    BY <1>1
  <1>3. /\ hold'[s][i].user = hold[s][i].user /\ hold'[s][i].expiresAt = hold[s][i].expiresAt
        /\ ~hold[s][i].released /\ clock <= clock'
    BY <1>1, <1>2 DEF RowsKept
  <1>4. hold[s][i].expiresAt \in Nat /\ clock \in Nat /\ clock' \in Nat
    <2>1. hold[s] \in Seq(HoldRow) /\ clock \in Nat /\ clock' \in Nat
      BY <1>1 DEF StoreTypeOK
    <2>2. hold[s][i] \in HoldRow
      BY <1>2, <2>1
    <2>3. QED
      BY <2>1, <2>2 DEF HoldRow
  <1>5. i \in Active(s)
    BY <1>1, <1>2, <1>3, <1>4 DEF Active, ActiveAt
  <1>6. QED
    BY <1>1, <1>3, <1>5 DEF ActiveOf

LEMMA LimitStaysWithin ==
    ASSUME IsFiniteSet(Seats), NEW u, ActiveOf(u)' \subseteq ActiveOf(u), NEW S \in SUBSET Seats,
           WithinLimit(u, S)
    PROVE  WithinLimit(u, S)'
  <1>1. Cardinality(S) \in Nat
    BY SmallerSet
  <1>2. /\ Cardinality(ActiveOf(u)') \in Nat /\ Cardinality(ActiveOf(u)) \in Nat
        /\ Cardinality(ActiveOf(u)') <= Cardinality(ActiveOf(u))
    BY ActiveRowsFinite, SmallerSet
  <1>3. Cardinality(ActiveOf(u)) + Cardinality(S) <= MaxSeatsPerHold
    BY DEF WithinLimit
  <1>4. MaxSeatsPerHold \in Nat
    BY HoldsAssumption
  <1>5. Cardinality(ActiveOf(u)') + Cardinality(S) <= MaxSeatsPerHold
    BY <1>1, <1>2, <1>3, <1>4
  <1>6. QED
    BY <1>5 DEF WithinLimit

\* A handler takes a request, answers, or goes on with its own.
LEMMA LimitKeptBy ==
    ASSUME IsFiniteSet(Seats), ReqTypeOK, LimitInv, \A u : ActiveOf(u)' \subseteq ActiveOf(u),
           NEW p \in Requests, NEW r, req' = [req EXCEPT ![p] = r],
           overlapped \ {p} \subseteq overlapped',
           r.pc \in Holding =>
              \/ req[p].pc \in Holding /\ r.user = req[p].user /\ overlapped \subseteq overlapped'
              \/ /\ Rivals(p, r.user) \subseteq overlapped'
                 /\ Rivals(p, r.user) # {} => p \in overlapped',
           r.pc \in Counted /\ p \notin overlapped' =>
              r.seats \in SUBSET Seats /\ WithinLimit(r.user, r.seats)
    PROVE  LimitInv'
  <1>1. req'[p] = r /\ \A q \in Requests : q # p => req'[q] = req[q]
    BY DEF ReqTypeOK
  <1>2. \A q \in Requests : req[q].seats \in SUBSET Seats
    BY DEF ReqTypeOK, Request
  <1>3. ASSUME NEW a \in Requests, NEW b \in Requests, a # b,
               req'[a].pc \in Holding, req'[b].pc \in Holding, req'[a].user = req'[b].user
        PROVE  a \in overlapped'
    <2>1. CASE a # p /\ b # p
      BY <1>1, <1>3, <2>1 DEF LimitInv
    <2>2. CASE a = p
      <3>1. req[b].pc \in Holding /\ req[b].user = r.user /\ r.pc \in Holding
        BY <1>1, <1>3, <2>2
      <3>2. CASE req[p].pc \in Holding /\ r.user = req[p].user /\ overlapped \subseteq overlapped'
        BY <1>3, <2>2, <3>1, <3>2 DEF LimitInv
      <3>3. CASE Rivals(p, r.user) # {} => p \in overlapped'
        BY <1>3, <2>2, <3>1, <3>3 DEF Rivals, Holding
      <3>4. QED
        BY <3>1, <3>2, <3>3
    <2>3. CASE b = p
      <3>1. req[a].pc \in Holding /\ req[a].user = r.user /\ r.pc \in Holding
        BY <1>1, <1>3, <2>3
      <3>2. CASE req[p].pc \in Holding /\ r.user = req[p].user /\ overlapped \subseteq overlapped'
        BY <1>3, <2>3, <3>1, <3>2 DEF LimitInv
      <3>3. CASE Rivals(p, r.user) \subseteq overlapped'
        BY <1>3, <2>3, <3>1, <3>3 DEF Rivals, Holding
      <3>4. QED
        BY <3>1, <3>2, <3>3
    <2>4. QED
      BY <2>1, <2>2, <2>3
  <1>4. ASSUME NEW q \in Requests, req'[q].pc \in Counted, q \notin overlapped'
        PROVE  WithinLimit(req[q].user, req[q].seats)'
    <2>1. req'[q].seats \in SUBSET Seats /\ WithinLimit(req'[q].user, req'[q].seats)
      <3>1. CASE q = p
        BY <1>1, <1>4, <3>1
      <3>2. CASE q # p
        BY <1>1, <1>2, <1>4, <3>2 DEF LimitInv
      <3>3. QED
        BY <3>1, <3>2
    <2>2. PICK u, S : u = req'[q].user /\ S = req'[q].seats
      OBVIOUS
    <2>3. WithinLimit(u, S)'
      <3>1. S \in SUBSET Seats /\ WithinLimit(u, S)
        BY <2>1, <2>2
      <3>2. ActiveOf(u)' \subseteq ActiveOf(u)
        OBVIOUS
      <3>3. QED
        BY <3>1, <3>2, LimitStaysWithin
    <2>4. QED
      BY <2>2, <2>3 DEF WithinLimit
  <1>5. QED
    BY <1>3, <1>4 DEF LimitInv

LEMMA ReleasedRowsAreFewer ==
    ASSUME StoreTypeOK, StoreTypeOK', RowsKept, OnlyReleases \/ UNCHANGED storeVars
    PROVE  \A u : ActiveOf(u)' \subseteq ActiveOf(u)
  <1>1. ASSUME NEW s \in Seats
        PROVE  DOMAIN hold'[s] = DOMAIN hold[s]
    <2>1. hold[s] \in Seq(HoldRow) /\ hold'[s] \in Seq(HoldRow)
      BY DEF StoreTypeOK
    <2>2. Len(hold'[s]) = Len(hold[s])
      BY DEF OnlyReleases, storeVars
    <2>3. QED
      BY <2>1, <2>2
  <1>2. QED
    BY <1>1, FewerActiveRows

\* The holds of one request count for its own customer, one for each seat.
LEMMA CreatedHoldsCount ==
    ASSUME IsFiniteSet(Seats), StoreTypeOK, NEW v, NEW S \in SUBSET Seats,
           CreateHolds(v, S)
    PROVE  /\ \A u : u # v => ActiveOf(u)' \subseteq ActiveOf(u)
           /\ WithinLimit(v, S) => Cardinality(ActiveOf(v)') <= MaxSeatsPerHold
  <1> DEFINE row == [user |-> v, expiresAt |-> clock + HoldTTL, released |-> FALSE]
             next == [s \in Seats |-> Len(hold[s]) + 1]
             New == {<<s, next[s]>> : s \in S}
  <1>1. /\ clock' = clock
        /\ hold' = [s \in Seats |-> IF s \in S THEN Append(hold[s], row) ELSE hold[s]]
    BY DEF CreateHolds
  <1>2. ASSUME NEW u, NEW h \in ActiveOf(u)'
        PROVE  h \in ActiveOf(u) \/ (u = v /\ h \in New)
    <2>1. PICK s, i : s = h[1] /\ i = h[2]
      OBVIOUS
    <2>2. /\ h \in Seats \X (1 .. MaxHolds) /\ i \in DOMAIN hold'[s]
          /\ ActiveAt(hold'[s][i], clock') /\ hold'[s][i].user = u
      BY <2>1 DEF ActiveOf, Active
    <2>3. s \in Seats /\ h = <<s, i>>
      BY <2>1, <2>2
    <2>4. hold[s] \in Seq(HoldRow)
      BY <2>3 DEF StoreTypeOK
    <2>5. CASE i \in DOMAIN hold[s]
      <3>1. hold'[s][i] = hold[s][i]
        BY <1>1, <2>3, <2>4, <2>5
      <3>2. i \in Active(s)
        BY <1>1, <2>2, <2>5, <3>1 DEF Active
      <3>3. QED
        BY <2>1, <2>2, <3>1, <3>2 DEF ActiveOf
    <2>6. CASE i \notin DOMAIN hold[s]
      <3>1. s \in S /\ hold'[s] = Append(hold[s], row)
        BY <1>1, <2>2, <2>3, <2>6
      <3>2. i = Len(hold[s]) + 1 /\ hold'[s][i] = row
        BY <2>2, <2>4, <2>6, <3>1
      <3>3. u = v
        BY <2>2, <3>2
      <3>4. h \in New
        BY <2>3, <3>1, <3>2
      <3>5. QED
        BY <3>3, <3>4
    <2>7. QED
      BY <2>5, <2>6
  <1>3. /\ IsFiniteSet(New) /\ Cardinality(New) \in Nat
        /\ Cardinality(New) <= Cardinality(S) /\ Cardinality(S) \in Nat
    <2>1. IsFiniteSet(S) /\ Cardinality(S) \in Nat
      BY SmallerSet
    <2> HIDE DEF next
    <2>2. IsFiniteSet(New) /\ Cardinality(New) <= Cardinality(S)
      BY <2>1, OneRowPerSeat
    <2>3. QED
      BY <2>1, <2>2, FS_CardinalityType
  <1>4. IsFiniteSet(ActiveOf(v)) /\ Cardinality(ActiveOf(v)) \in Nat
    BY ActiveRowsFinite
  <1>5. ActiveOf(v)' \subseteq ActiveOf(v) \cup New
    BY <1>2
  <1> HIDE DEF New
  <1>6. /\ IsFiniteSet(ActiveOf(v) \cup New)
        /\ Cardinality(ActiveOf(v) \cup New) <= Cardinality(ActiveOf(v)) + Cardinality(New)
    BY <1>3, <1>4, JoinedSets
  <1>7. /\ Cardinality(ActiveOf(v)') \in Nat /\ Cardinality(ActiveOf(v) \cup New) \in Nat
        /\ Cardinality(ActiveOf(v)') <= Cardinality(ActiveOf(v) \cup New)
    BY <1>5, <1>6, SmallerSet
  <1>8. /\ MaxSeatsPerHold \in Nat
        /\ WithinLimit(v, S) => Cardinality(ActiveOf(v)) + Cardinality(S) <= MaxSeatsPerHold
    BY HoldsAssumption DEF WithinLimit
  <1>9. \A a, b, c, d, n, m \in Nat :
           a <= b /\ b <= c + d /\ d <= n /\ c + n <= m => a <= m
    OBVIOUS
  <1>10. WithinLimit(v, S) => Cardinality(ActiveOf(v)') <= MaxSeatsPerHold
    BY <1>3, <1>4, <1>6, <1>7, <1>8, <1>9
  <1>11. QED
    BY <1>2, <1>10

\* Another handler of the customer has overlapped, so nobody trusts a count that
\* the new holds make stale.
LEMMA AttemptKeepsLimit ==
    ASSUME IsFiniteSet(Seats), StoreTypeOK, ReqTypeOK, LimitInv,
           NEW p \in Requests, AttemptSucceeds(p)
    PROVE  LimitInv'
  <1>1. /\ req[p].pc \in {"attempt", "retry"} /\ CreateHolds(req[p].user, req[p].seats)
        /\ req' = [req EXCEPT ![p] = IdleRequest] /\ overlapped' = overlapped \ {p}
    BY DEF AttemptSucceeds, Answer
  <1>2. /\ req'[p].pc = "idle" /\ \A q \in Requests : q # p => req'[q] = req[q]
    BY <1>1, IdleRequestType DEF ReqTypeOK
  <1>3. PICK v, T : v = req[p].user /\ T = req[p].seats
    OBVIOUS
  <1>4. T \in SUBSET Seats /\ CreateHolds(v, T)
    BY <1>1, <1>3 DEF ReqTypeOK, Request
  <1>5. \A u : u # v => ActiveOf(u)' \subseteq ActiveOf(u)
    BY <1>4, CreatedHoldsCount
  <1>6. ASSUME NEW a \in Requests, NEW b \in Requests, a # b,
               req'[a].pc \in Holding, req'[b].pc \in Holding, req'[a].user = req'[b].user
        PROVE  a \in overlapped'
    <2>1. a # p /\ b # p
      BY <1>2, <1>6 DEF Holding
    <2>2. QED
      BY <1>1, <1>2, <1>6, <2>1 DEF LimitInv
  <1>7. ASSUME NEW q \in Requests, req'[q].pc \in Counted, q \notin overlapped'
        PROVE  WithinLimit(req[q].user, req[q].seats)'
    <2>1. q # p
      BY <1>2, <1>7 DEF Counted
    <2>2. PICK u, S : u = req[q].user /\ S = req[q].seats
      OBVIOUS
    <2>3. req'[q] = req[q] /\ q \notin overlapped
      BY <1>1, <1>2, <1>7, <2>1
    <2>4. S \in SUBSET Seats /\ WithinLimit(u, S)
      BY <1>7, <2>2, <2>3 DEF ReqTypeOK, Request, LimitInv
    <2>5. u # v
      BY <1>1, <1>3, <1>7, <2>1, <2>2, <2>3 DEF LimitInv, Counted, Holding
    <2>6. ActiveOf(u)' \subseteq ActiveOf(u)
      BY <1>5, <2>5
    <2>7. WithinLimit(u, S)'
      BY <2>4, <2>6, LimitStaysWithin
    <2>8. QED
      BY <2>2, <2>3, <2>7 DEF WithinLimit
  <1>8. QED
    BY <1>6, <1>7 DEF LimitInv

\* Every step but the insert of a hold handler leaves each customer with no more
\* active holds.
LEMMA OnlyAttemptsAdd ==
    ASSUME StoreTypeOK, StoreTypeOK', ReqTypeOK, RowsKept, [Next]_vars,
           \A p \in Requests : ~AttemptSucceeds(p)
    PROVE  \A u : ActiveOf(u)' \subseteq ActiveOf(u)
  <1>1. ASSUME NEW p \in Requests, NEW u \in Users, NEW S \in SUBSET Seats, HoldRequest(p, u, S)
        PROVE  UNCHANGED storeVars
    BY <1>1 DEF HoldRequest
  <1>2. ASSUME NEW p \in Requests, NEW u \in Users, NEW s \in Seats, NEW i \in DOMAIN hold[s],
               ReleaseRequest(p, u, s, i)
        PROVE  UNCHANGED storeVars
    BY <1>2 DEF ReleaseRequest
  <1>3. ASSUME NEW p \in Requests, Handler(p)
        PROVE  OnlyReleases \/ UNCHANGED storeVars
    <2>1. req[p].seats \in SUBSET Seats
      BY DEF ReqTypeOK, Request
    <2>2. CASE ReleaseExpired(p)
      BY <2>2, LazyReleaseShape DEF ReleaseExpired
    <2>3. CASE ReleaseCommits(p)
      <3>1. PICK s \in req[p].seats : ReleaseHold(s, req[p].row)
        BY <2>3 DEF ReleaseCommits
      <3>2. QED
        BY <2>1, <3>1, ReleaseHoldShape
    <2>4. QED
      BY <1>3, <2>2, <2>3 DEF Handler, CountActive, AttemptConflicts
  <1>4. ASSUME NEW p \in Requests, HandlerDies(p)
        PROVE  UNCHANGED storeVars
    BY <1>4 DEF HandlerDies
  <1>5. CASE EventCancelled \/ UNCHANGED vars
    BY <1>5, ReleasedRowsAreFewer DEF EventCancelled, vars
  <1>6. CASE CronTick
    BY <1>6, CronShape, ReleasedRowsAreFewer DEF CronTick
  <1>7. CASE TimePasses
    BY <1>7, TickShape, ReleasedRowsAreFewer DEF TimePasses
  <1>8. QED
    BY <1>1, <1>2, <1>3, <1>4, <1>5, <1>6, <1>7, ReleasedRowsAreFewer DEF Next

\* The steps that take a request or move a handler, one that creates no hold.
LEMMA LimitStep ==
    ASSUME IsFiniteSet(Seats), StoreTypeOK, StoreTypeOK', ReqTypeOK, RowsKept,
           LimitInv, [Next]_vars
    PROVE  LimitInv'
  <1>1. CASE \E p \in Requests : AttemptSucceeds(p)
    BY <1>1, AttemptKeepsLimit
  <1>2. CASE \A p \in Requests : ~AttemptSucceeds(p)
    <2>1. \A v : ActiveOf(v)' \subseteq ActiveOf(v)
      BY <1>2, OnlyAttemptsAdd
    <2>2. req \in [Requests -> Request]
      BY DEF ReqTypeOK
    <2>3. ASSUME NEW p \in Requests, NEW u \in Users, NEW S \in SUBSET Seats, HoldRequest(p, u, S)
          PROVE  LimitInv'
      <3> DEFINE r == NewRequest("count", u, S, 0)
      <3>1. r.pc = "count" /\ r.user = u
        BY NewRequestType DEF Pc
      <3>2. /\ req' = [req EXCEPT ![p] = r] /\ overlapped \subseteq overlapped'
            /\ Rivals(p, u) \subseteq overlapped' /\ (Rivals(p, u) # {} => p \in overlapped')
        BY <2>3 DEF HoldRequest
      <3>3. r.pc \notin Counted
        BY <3>1 DEF Counted
      <3> HIDE DEF r
      <3>4. QED
        BY <2>1, <3>1, <3>2, <3>3, LimitKeptBy
    <2>4. ASSUME NEW p \in Requests, NEW r, req' = [req EXCEPT ![p] = r], r.pc \notin Holding,
                 overlapped \ {p} \subseteq overlapped'
          PROVE  LimitInv'
      <3>1. r.pc \notin Counted
        BY <2>4 DEF Holding, Counted
      <3>2. QED
        BY <2>1, <2>4, <3>1, LimitKeptBy
    <2>5. ASSUME NEW p \in Requests, NEW u \in Users, NEW s \in Seats, NEW i \in DOMAIN hold[s],
                 ReleaseRequest(p, u, s, i)
          PROVE  LimitInv'
      <3>1. i \in Nat
        BY DEF StoreTypeOK
      <3>2. NewRequest("release", u, {s}, i).pc \notin Holding
        BY <3>1, NewRequestType DEF Pc, Holding
      <3>3. /\ req' = [req EXCEPT ![p] = NewRequest("release", u, {s}, i)]
            /\ overlapped \ {p} \subseteq overlapped'
        BY <2>5 DEF ReleaseRequest
      <3>4. QED
        BY <2>4, <3>2, <3>3
    <2>6. ASSUME NEW p \in Requests, Answer(p)
          PROVE  LimitInv'
      <3>1. /\ req' = [req EXCEPT ![p] = IdleRequest] /\ IdleRequest.pc \notin Holding
            /\ overlapped \ {p} \subseteq overlapped'
        BY <2>6, IdleRequestType DEF Answer, Holding
      <3>2. QED
        BY <2>4, <3>1
    <2>7. ASSUME NEW p \in Requests, NEW c \in Counted, req[p].pc \in Holding,
                 req' = [req EXCEPT ![p] = [req[p] EXCEPT !.pc = c]] \/
                 req' = [req EXCEPT ![p] = [req[p] EXCEPT !.pc = c, !.at = clock]],
                 overlapped' = overlapped,
                 p \notin overlapped => WithinLimit(req[p].user, req[p].seats)
          PROVE  LimitInv'
      <3>1. PICK r : /\ req' = [req EXCEPT ![p] = r]
                     /\ r = [req[p] EXCEPT !.pc = c] \/ r = [req[p] EXCEPT !.pc = c, !.at = clock]
        BY <2>7
      <3>2. r.user = req[p].user /\ r.seats = req[p].seats /\ r.seats \in SUBSET Seats
        BY <2>2, <3>1 DEF Request
      <3>3. QED
        BY <2>1, <2>7, <3>1, <3>2, LimitKeptBy
    <2>8. ASSUME NEW p \in Requests, Handler(p)
          PROVE  LimitInv'
      <3>1. CASE CountActive(p) /\ WithinLimit(req[p].user, req[p].seats)
        <4>1. req[p].pc = "count" /\ Goto(p, "attempt")
          BY <3>1 DEF CountActive
        <4>2. /\ req' = [req EXCEPT ![p] = [req[p] EXCEPT !.pc = "attempt"]]
              /\ overlapped' = overlapped
          BY <2>2, <4>1 DEF Goto
        <4>3. "attempt" \in Counted /\ req[p].pc \in Holding
          BY <4>1 DEF Counted, Holding
        <4>4. QED
          BY <2>7, <3>1, <4>2, <4>3
      <3>2. CASE CountActive(p) /\ ~WithinLimit(req[p].user, req[p].seats)
        BY <2>6, <3>2 DEF CountActive
      <3>3. CASE AttemptConflicts(p) /\ req[p].pc = "attempt"
        <4>1. Goto(p, "lazy")
          BY <3>3 DEF AttemptConflicts
        <4>2. /\ req' = [req EXCEPT ![p] = [req[p] EXCEPT !.pc = "lazy"]]
              /\ overlapped' = overlapped
          BY <2>2, <4>1 DEF Goto
        <4>3. /\ "lazy" \in Counted /\ req[p].pc \in Holding
              /\ p \notin overlapped => WithinLimit(req[p].user, req[p].seats)
          BY <3>3 DEF Counted, Holding, LimitInv
        <4>4. QED
          BY <2>7, <4>2, <4>3
      <3>4. CASE AttemptConflicts(p) /\ req[p].pc # "attempt"
        BY <2>6, <3>4 DEF AttemptConflicts
      <3>5. CASE ReleaseExpired(p)
        <4>1. req[p].pc = "lazy" /\ overlapped' = overlapped
          BY <3>5 DEF ReleaseExpired
        <4>2. req' = [req EXCEPT ![p] = [req[p] EXCEPT !.pc = "retry", !.at = clock]]
          BY <2>2, <3>5 DEF ReleaseExpired
        <4>3. /\ "retry" \in Counted /\ req[p].pc \in Holding
              /\ p \notin overlapped => WithinLimit(req[p].user, req[p].seats)
          BY <4>1 DEF Counted, Holding, LimitInv
        <4>4. QED
          BY <2>7, <4>1, <4>2, <4>3
      <3>6. CASE ReleaseCommits(p)
        BY <2>6, <3>6 DEF ReleaseCommits
      <3>7. QED
        BY <1>2, <2>8, <3>1, <3>2, <3>3, <3>4, <3>5, <3>6 DEF Handler
    <2>9. ASSUME NEW p \in Requests, HandlerDies(p)
          PROVE  LimitInv'
      BY <2>6, <2>9 DEF HandlerDies
    <2>10. CASE UNCHANGED <<req, overlapped>>
      <3>1. \A p \in Requests : req[p].seats \in SUBSET Seats
        BY DEF ReqTypeOK, Request
      <3>2. ASSUME NEW p \in Requests, req'[p].pc \in Counted, p \notin overlapped'
            PROVE  WithinLimit(req[p].user, req[p].seats)'
        <4>1. PICK u, S : u = req[p].user /\ S = req[p].seats
          OBVIOUS
        <4>2. S \in SUBSET Seats /\ WithinLimit(u, S)
          BY <2>10, <3>1, <3>2, <4>1 DEF LimitInv
        <4>3. WithinLimit(u, S)'
          BY <2>1, <4>2, LimitStaysWithin
        <4>4. QED
          BY <2>10, <4>1, <4>3 DEF WithinLimit
      <3>3. QED
        BY <2>10, <3>2 DEF LimitInv
    <2>11. CASE EventCancelled \/ CronTick \/ TimePasses \/ UNCHANGED vars
      BY <2>10, <2>11 DEF EventCancelled, CronTick, TimePasses, vars
    <2>12. QED
      BY <2>3, <2>5, <2>8, <2>9, <2>11 DEF Next
  <1>3. QED
    BY <1>1, <1>2

LEMMA LimitInit ==
    ASSUME Init PROVE LimitInv
  <1>1. \A p \in Requests : req[p].pc = "idle"
    BY IdleRequestType DEF Init
  <1>2. QED
    BY <1>1 DEF LimitInv, Counted, Holding

\* Who adds holds beyond the limit has overlapped.
LEMMA LimitHolds ==
    ASSUME IsFiniteSet(Seats), StoreTypeOK, StoreTypeOK', ReqTypeOK, RowsKept,
           LimitInv, [Next]_vars, NEW u \in Users
    PROVE  \/ ActiveOf(u)' \subseteq ActiveOf(u)
           \/ Cardinality(ActiveOf(u)') <= MaxSeatsPerHold
           \/ \E p \in overlapped : req[p].user = u /\ AttemptSucceeds(p)
  <1>1. CASE \A p \in Requests : ~AttemptSucceeds(p)
    BY <1>1, OnlyAttemptsAdd
  <1>2. ASSUME NEW p \in Requests, AttemptSucceeds(p), p \notin overlapped
        PROVE  \/ ActiveOf(u)' \subseteq ActiveOf(u)
               \/ Cardinality(ActiveOf(u)') <= MaxSeatsPerHold
    <2>1. PICK v, T : v = req[p].user /\ T = req[p].seats
      OBVIOUS
    <2>2. T \in SUBSET Seats /\ CreateHolds(v, T) /\ WithinLimit(v, T)
      BY <1>2, <2>1 DEF AttemptSucceeds, ReqTypeOK, Request, LimitInv, Counted
    <2>3. QED
      BY <2>2, CreatedHoldsCount
  <1>3. ASSUME NEW p \in Requests, AttemptSucceeds(p), req[p].user # u
        PROVE  ActiveOf(u)' \subseteq ActiveOf(u)
    <2>1. PICK v, T : v = req[p].user /\ T = req[p].seats
      OBVIOUS
    <2>2. T \in SUBSET Seats /\ CreateHolds(v, T) /\ u # v
      BY <1>3, <2>1 DEF AttemptSucceeds, ReqTypeOK, Request
    <2>3. QED
      BY <2>2, CreatedHoldsCount
  <1>4. QED
    BY <1>1, <1>2, <1>3

\* A customer comes to have more than MAX_SEATS_PER_HOLD active holds only by a
\* hold request that overlapped another of theirs, however the requests
\* interleave with each other, with releases, with pg_cron, with lapsing holds
\* and with handlers that die.  Nothing is assumed of how customers ask.
THEOREM HoldLimitAlways ==
    ASSUME IsFiniteSet(Seats)
    PROVE  Spec => HoldLimit
  <1>1. Init => LimitInv
    BY LimitInit
  <1>2. ASSUME HoldsInv, HoldsInv', LimitInv, [Next]_vars
        PROVE  /\ LimitInv'
               /\ \A u \in Users :
                     \/ ActiveOf(u)' \subseteq ActiveOf(u)
                     \/ Cardinality(ActiveOf(u)') <= MaxSeatsPerHold
                     \/ \E p \in overlapped : req[p].user = u /\ AttemptSucceeds(p)
    <2>1. StoreTypeOK /\ StoreTypeOK' /\ ReqTypeOK
      BY <1>2, TypeOKParts DEF HoldsInv, StoreInv
    <2>2. RowsKept
      BY <1>2, HoldsStep
    <2>3. LimitInv'
      BY <1>2, <2>1, <2>2, LimitStep
    <2>4. QED
      BY <1>2, <2>1, <2>2, <2>3, LimitHolds
  <1>3. HoldsInv /\ HoldsInv' /\ LimitInv /\ [Next]_vars => LimitInv'
    BY <1>2
  <1>4. HoldsInv /\ HoldsInv' /\ LimitInv /\ [Next]_vars =>
            [\A u \in Users :
                \/ ActiveOf(u)' \subseteq ActiveOf(u)
                \/ Cardinality(ActiveOf(u)') <= MaxSeatsPerHold
                \/ \E p \in overlapped : req[p].user = u /\ AttemptSucceeds(p)]_vars
    BY <1>2
  <1>5. QED
    BY <1>1, <1>3, <1>4, HoldsInvariant, PTL DEF Spec, HoldLimit
=============================================================================
