----------------------------- MODULE SeatStore -----------------------------
(***************************************************************************)
(* The two seat tables of the booking database, SeatHold and seat_state,   *)
(* and the transactions the back end and pg_cron commit on them.           *)
(*                                                                         *)
(* hold[s] is the sequence of the SeatHold rows of seat s, in the order    *)
(* they were inserted; row i of seat s stands for one hold id, written     *)
(* <<s, i>>.  releasedAt is kept as its null-ness (field "released").      *)
(* seatState[s] is the seat_state row the realtime channel publishes.      *)
(*                                                                         *)
(* Every action is one committed transaction (or one single-statement      *)
(* update).  In each of them the last row it locks is a seat_state row or  *)
(* an entry of a unique index that conflicting transactions wait for, so   *)
(* under READ COMMITTED they take effect in the order of their commits.    *)
(***************************************************************************)
EXTENDS Integers, Sequences, FiniteSets

CONSTANTS
    Users,     \* customers
    Seats,     \* seats of one event
    Nobody,    \* no customer
    HoldTTL,   \* HOLD_TTL_MS, in clock units
    MaxHolds,  \* bound: SeatHold rows per seat
    MaxTime    \* bound: last clock value; every hold lapses before it

ASSUME StoreAssumption ==
    /\ Nobody \notin Users
    /\ HoldTTL \in Nat \ {0}
    /\ MaxHolds \in Nat
    /\ MaxTime \in Nat

VARIABLES
    clock,     \* database time
    hold,      \* SeatHold rows, per seat
    seatState  \* seat_state row of each seat

storeVars == <<clock, hold, seatState>>

NoExpiry == 0  \* seat_state.expiresAt is null

HoldRow == [user : Users, expiresAt : Nat, released : BOOLEAN]
SeatRow == [status : {"FREE", "HELD", "SOLD"}, expiresAt : Nat]

StoreTypeOK ==
    /\ clock \in Nat
    /\ hold \in [Seats -> Seq(HoldRow)]
    /\ seatState \in [Seats -> SeatRow]

-----------------------------------------------------------------------------
(* Queries of SeatHoldRepository.                                           *)

Unreleased(s) == {i \in DOMAIN hold[s] : ~hold[s][i].released}

\* Mutant of LapsedAt: lt where the code has lte.
LapsedAt_Strict(row, t) == ~row.released /\ row.expiresAt < t

\* The two comparisons with now: gt, and lte.
ActiveAt(row, t) == ~row.released /\ row.expiresAt > t
LapsedAt(row, t) == ~row.released /\ row.expiresAt <= t

Active(s) == {i \in DOMAIN hold[s] : ActiveAt(hold[s][i], clock)}

\* countActiveForUser
ActiveOf(u) == {h \in Seats \X (1 .. MaxHolds) :
                    h[2] \in Active(h[1]) /\ hold[h[1]][h[2]].user = u}

\* Mutant of SeatmapStatus: seat_state as it is.
SeatmapStatus_NoLazyExpiry(s) == seatState[s].status

\* buildSeatmap: what the seat map endpoint answers for seat s.
SeatmapStatus(s) ==
    IF seatState[s].status = "HELD" /\ seatState[s].expiresAt < clock
    THEN "FREE"
    ELSE seatState[s].status

-----------------------------------------------------------------------------
(* Statements of SeatHoldRepository and SeatStateRepository.                *)

\* Mutant of IndexAdmits: the application checks for active holds itself.
IndexAdmits_Dropped(S) == \A s \in S : Active(s) = {}

\* The partial unique index seat_hold_active: one row per seat with
\* releasedAt null.
IndexAdmits(S) == \A s \in S : Unreleased(s) = {}

ReleaseRows(s, I) ==
    [i \in DOMAIN hold[s] |->
        IF i \in I THEN [hold[s][i] EXCEPT !.released = TRUE] ELSE hold[s][i]]

\* Mutant of MarkHeld: the row keeps the deadline it had.
MarkHeld_KeepsExpiry(S, t) ==
    [s \in Seats |-> IF s \in S THEN [seatState[s] EXCEPT !.status = "HELD"]
                                ELSE seatState[s]]

MarkHeld(S, t) ==
    [s \in Seats |-> IF s \in S THEN [status |-> "HELD", expiresAt |-> t]
                                ELSE seatState[s]]
MarkFree(S) ==
    [s \in Seats |-> IF s \in S THEN [status |-> "FREE", expiresAt |-> NoExpiry]
                                ELSE seatState[s]]
MarkSold(S) ==
    [s \in Seats |-> IF s \in S THEN [status |-> "SOLD", expiresAt |-> NoExpiry]
                                ELSE seatState[s]]

-----------------------------------------------------------------------------
(* Transactions.                                                            *)

\* Bounds: a seat has at most MaxHolds rows and a hold lapses, and is past
\* the cron's strict comparison, no later than MaxTime.
RoomFor(S) ==
    /\ \A s \in S : Len(hold[s]) < MaxHolds
    /\ clock + HoldTTL < MaxTime

\* attemptHold: one hold per seat of S for user u, all of them or none.
CreateHolds(u, S) ==
    /\ IndexAdmits(S)
    /\ RoomFor(S)
    /\ LET row == [user |-> u, expiresAt |-> clock + HoldTTL, released |-> FALSE]
       IN  hold' = [s \in Seats |-> IF s \in S THEN Append(hold[s], row)
                                              ELSE hold[s]]
    /\ seatState' = MarkHeld(S, clock + HoldTTL)
    /\ UNCHANGED clock

\* releaseExpiredAmong: frees the index for the retry, and only the index:
\* seat_state is left as it is.
LazyRelease(S) ==
    /\ hold' = [s \in Seats |->
                   ReleaseRows(s, {i \in DOMAIN hold[s] :
                                      s \in S /\ LapsedAt(hold[s][i], clock)})]
    /\ UNCHANGED <<clock, seatState>>

\* The transaction of SeatHoldService.release.  Both updates are
\* unconditional: the row may have been released since it was read.
ReleaseHold(s, i) ==
    /\ i \in DOMAIN hold[s]
    /\ hold' = [hold EXCEPT ![s] = ReleaseRows(s, {i})]
    /\ seatState' = MarkFree({s})
    /\ UNCHANGED clock

\* The pg_cron job expire-seat-holds: one statement, strict comparison,
\* and only seats that are HELD go back to FREE.
CronExpired(s) == {i \in DOMAIN hold[s] :
                      ~hold[s][i].released /\ hold[s][i].expiresAt < clock}

CronExpireHolds ==
    LET seats == {s \in Seats : CronExpired(s) # {}}
    IN  /\ seats # {}
        /\ hold' = [s \in Seats |-> ReleaseRows(s, CronExpired(s))]
        /\ seatState' = MarkFree({s \in seats : seatState[s].status = "HELD"})
        /\ UNCHANGED clock

\* Mutant of ConsumeHolds: the seats are sold, the holds stay.
ConsumeHolds_OnlySells(H) ==
    /\ seatState' = MarkSold({h[1] : h \in H})
    /\ UNCHANGED <<clock, hold>>

\* consume and markSold, the seat half of OrdersService.confirmPayment, for
\* the hold ids in H.
ConsumeHolds(H) ==
    /\ hold' = [s \in Seats |-> ReleaseRows(s, {i \in DOMAIN hold[s] : <<s, i>> \in H})]
    /\ seatState' = MarkSold({h[1] : h \in H})
    /\ UNCHANGED clock

\* markFree, the seat half of OrdersService.cancelTicket.
ReturnSeat(s) ==
    /\ seatState' = MarkFree({s})
    /\ UNCHANGED <<clock, hold>>

Tick ==
    /\ clock < MaxTime
    /\ clock' = clock + 1
    /\ UNCHANGED <<hold, seatState>>

-----------------------------------------------------------------------------

StoreInit ==
    /\ clock = 0
    /\ hold = [s \in Seats |-> << >>]
    /\ seatState = [s \in Seats |-> [status |-> "FREE", expiresAt |-> NoExpiry]]

StoreNext ==
    \/ \E u \in Users, S \in SUBSET Seats : CreateHolds(u, S)
    \/ \E S \in SUBSET Seats : LazyRelease(S)
    \/ \E s \in Seats : \E i \in DOMAIN hold[s] : ReleaseHold(s, i)
    \/ CronExpireHolds
    \/ \E H \in SUBSET (Seats \X (1 .. MaxHolds)) : ConsumeHolds(H)
    \/ \E s \in Seats : ReturnSeat(s)
    \/ Tick

StoreSpec == StoreInit /\ [][StoreNext]_storeVars

-----------------------------------------------------------------------------
(* Properties.                                                              *)

\* At most one SeatHold row of a seat has releasedAt null, whatever order
\* hold attempts, lazy and scheduled expiry, releases and sales commit in.
OneUnreleasedHold ==
    \A s \in Seats : \A i, j \in Unreleased(s) : i = j

\* A seat that the seatmap shows as free although seat_state says HELD can
\* really be taken: it has no active hold.  The map applies its own lazy
\* expiry to seat_state (buildSeatmap), the hold attempts apply theirs to
\* SeatHold; this says that the two deadlines never drift apart.
LapsedSeatIsReclaimable ==
    \A s \in Seats :
        seatState[s].status = "HELD" /\ SeatmapStatus(s) = "FREE"
            => Active(s) = {}

\* The rows that are not released are the newest of their seats, and a HELD
\* seat_state carries the deadline of the newest row.  These two facts are
\* what makes the properties above inductive.
UnreleasedIsNewest ==
    \A s \in Seats : \A i \in Unreleased(s) : i = Len(hold[s])

HeldCarriesNewestDeadline ==
    \A s \in Seats :
        seatState[s].status = "HELD" =>
            /\ hold[s] # << >>
            /\ seatState[s].expiresAt = hold[s][Len(hold[s])].expiresAt

StoreInv ==
    /\ StoreTypeOK
    /\ UnreleasedIsNewest
    /\ HeldCarriesNewestDeadline

\* The tables implement exclusive reservations: the holder of a seat is the
\* customer of its one unreleased hold.
Holder == [s \in Seats |->
              IF Unreleased(s) = {} THEN Nobody
              ELSE hold[s][CHOOSE i \in Unreleased(s) : TRUE].user]

Reservation == INSTANCE SeatReservation WITH holder <- Holder

ReservationSpec == Reservation!Spec
=============================================================================
