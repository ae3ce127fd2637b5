-------------------------- MODULE SeatStoreProofs --------------------------
(***************************************************************************)
(* The seat tables, for any customers, seats and bounds.                   *)
(*                                                                         *)
(* StoreInv is inductive: a row is appended only when the unique index has *)
(* no entry for the seat, so the unreleased row, if any, is the last one;  *)
(* and every statement that writes HELD writes the deadline of the row it  *)
(* goes with.                                                              *)
(***************************************************************************)
EXTENDS SeatStore, TLAPS

LEMMA RowRelease ==
    ASSUME NEW r \in HoldRow
    PROVE  /\ [r EXCEPT !.released = TRUE] \in HoldRow
           /\ [r EXCEPT !.released = TRUE].released
           /\ [r EXCEPT !.released = TRUE].user = r.user
           /\ [r EXCEPT !.released = TRUE].expiresAt = r.expiresAt
  BY DEF HoldRow

\* Releasing rows keeps their number, customers and deadlines, and only
\* takes rows out of the index.
LEMMA ReleaseRowsFacts ==
    ASSUME NEW s \in Seats, hold[s] \in Seq(HoldRow), NEW I
    PROVE  /\ ReleaseRows(s, I) \in Seq(HoldRow)
           /\ Len(ReleaseRows(s, I)) = Len(hold[s])
           /\ DOMAIN ReleaseRows(s, I) = DOMAIN hold[s]
           /\ \A i \in DOMAIN hold[s] :
                 /\ ReleaseRows(s, I)[i].user = hold[s][i].user
                 /\ ReleaseRows(s, I)[i].expiresAt = hold[s][i].expiresAt
                 /\ ~ReleaseRows(s, I)[i].released
                        => ~hold[s][i].released /\ i \notin I
                 /\ i \notin I => ReleaseRows(s, I)[i] = hold[s][i]
  <1>2. DOMAIN hold[s] = 1 .. Len(hold[s]) /\ Len(hold[s]) \in Nat
    OBVIOUS
  <1>3. ASSUME NEW i \in DOMAIN hold[s]
        PROVE  /\ ReleaseRows(s, I)[i] \in HoldRow
               /\ ReleaseRows(s, I)[i].user = hold[s][i].user
               /\ ReleaseRows(s, I)[i].expiresAt = hold[s][i].expiresAt
               /\ ~ReleaseRows(s, I)[i].released
                        => ~hold[s][i].released /\ i \notin I
               /\ i \notin I => ReleaseRows(s, I)[i] = hold[s][i]
    <2>1. hold[s][i] \in HoldRow
      BY <1>2
    <2>2. CASE i \in I
      <3>1. ReleaseRows(s, I)[i] = [hold[s][i] EXCEPT !.released = TRUE]
        BY <2>2 DEF ReleaseRows
      <3>2. QED
        BY <3>1, <2>1, <2>2, RowRelease
    <2>3. CASE i \notin I
      <3>1. ReleaseRows(s, I)[i] = hold[s][i]
        BY <2>3 DEF ReleaseRows
      <3>2. QED
        BY <3>1, <2>1, <2>3
    <2>4. QED
      BY <2>2, <2>3
  <1>4. ReleaseRows(s, I) \in [1 .. Len(hold[s]) -> HoldRow]
    BY <1>2, <1>3 DEF ReleaseRows
  <1>5. /\ ReleaseRows(s, I) \in Seq(HoldRow)
        /\ Len(ReleaseRows(s, I)) = Len(hold[s])
        /\ DOMAIN ReleaseRows(s, I) = DOMAIN hold[s]
    BY <1>2, <1>4
  <1>6. QED
    BY <1>3, <1>5

-----------------------------------------------------------------------------
(* Every transaction but CreateHolds only sets releasedAt on some rows and  *)
(* never writes HELD.                                                       *)

OnlyReleases ==
    /\ hold' \in [Seats -> Seq(HoldRow)]
    /\ \A s \in Seats :
          /\ Len(hold'[s]) = Len(hold[s])
          /\ \A i \in DOMAIN hold[s] :
                /\ hold'[s][i].user = hold[s][i].user
                /\ hold'[s][i].expiresAt = hold[s][i].expiresAt
                /\ ~hold'[s][i].released => ~hold[s][i].released

NoNewHeld ==
    /\ seatState' \in [Seats -> SeatRow]
    /\ \A s \in Seats :
          seatState'[s].status = "HELD" => seatState'[s] = seatState[s]

LEMMA FreeOrSoldIsNotHeld ==
    ASSUME StoreTypeOK, NEW S,
           \/ seatState' = MarkFree(S)
           \/ seatState' = MarkSold(S)
           \/ seatState' = seatState
    PROVE  NoNewHeld
  BY DEF StoreTypeOK, NoNewHeld, MarkFree, MarkSold, SeatRow, NoExpiry

LEMMA ReleasesAreOnlyReleases ==
    ASSUME StoreTypeOK,
           hold' = [s \in Seats |-> hold'[s]],
           \A s \in Seats : hold'[s] = hold[s] \/ \E I : hold'[s] = ReleaseRows(s, I)
    PROVE  OnlyReleases
  <1>1. ASSUME NEW s \in Seats
        PROVE  /\ hold'[s] \in Seq(HoldRow)
               /\ Len(hold'[s]) = Len(hold[s])
               /\ \A i \in DOMAIN hold[s] :
                     /\ hold'[s][i].user = hold[s][i].user
                     /\ hold'[s][i].expiresAt = hold[s][i].expiresAt
                     /\ ~hold'[s][i].released => ~hold[s][i].released
    <2>1. hold[s] \in Seq(HoldRow)
      BY DEF StoreTypeOK
    <2>2. CASE hold'[s] = hold[s]
      BY <2>1, <2>2
    <2>3. CASE \E I : hold'[s] = ReleaseRows(s, I)
      BY <2>1, <2>3, ReleaseRowsFacts
    <2>4. QED
      BY <2>2, <2>3
  <1>2. QED
    BY <1>1 DEF OnlyReleases

LEMMA LazyReleaseShape ==
    ASSUME StoreTypeOK, NEW S, LazyRelease(S)
    PROVE  OnlyReleases /\ NoNewHeld /\ clock' = clock
  BY ReleasesAreOnlyReleases, FreeOrSoldIsNotHeld DEF LazyRelease

LEMMA ReleaseHoldShape ==
    ASSUME StoreTypeOK, NEW s \in Seats, NEW i, ReleaseHold(s, i)
    PROVE  OnlyReleases /\ NoNewHeld /\ clock' = clock
  BY ReleasesAreOnlyReleases, FreeOrSoldIsNotHeld DEF ReleaseHold, StoreTypeOK

LEMMA CronShape ==
    ASSUME StoreTypeOK, CronExpireHolds
    PROVE  OnlyReleases /\ NoNewHeld /\ clock' = clock
  BY ReleasesAreOnlyReleases, FreeOrSoldIsNotHeld DEF CronExpireHolds

LEMMA ConsumeShape ==
    ASSUME StoreTypeOK, NEW H, ConsumeHolds(H)
    PROVE  OnlyReleases /\ NoNewHeld /\ clock' = clock
  BY ReleasesAreOnlyReleases, FreeOrSoldIsNotHeld DEF ConsumeHolds

LEMMA ReturnShape ==
    ASSUME StoreTypeOK, NEW s, ReturnSeat(s)
    PROVE  OnlyReleases /\ NoNewHeld /\ clock' = clock
  BY ReleasesAreOnlyReleases, FreeOrSoldIsNotHeld DEF ReturnSeat, StoreTypeOK

LEMMA TickShape ==
    ASSUME StoreTypeOK, Tick
    PROVE  OnlyReleases /\ NoNewHeld /\ clock' \in Nat
  BY ReleasesAreOnlyReleases, FreeOrSoldIsNotHeld DEF Tick, StoreTypeOK

LEMMA OnlyReleasesKeepsInv ==
    ASSUME StoreInv, OnlyReleases, NoNewHeld, clock' \in Nat
    PROVE  StoreInv'
  <1>1. StoreTypeOK'
    BY DEF StoreTypeOK, OnlyReleases, NoNewHeld
  <1>2. ASSUME NEW s \in Seats
        PROVE  /\ hold[s] \in Seq(HoldRow) /\ hold'[s] \in Seq(HoldRow)
               /\ Len(hold'[s]) = Len(hold[s])
               /\ DOMAIN hold'[s] = DOMAIN hold[s]
    <2>1. hold[s] \in Seq(HoldRow) /\ hold'[s] \in Seq(HoldRow) /\ Len(hold'[s]) = Len(hold[s])
      BY DEF StoreInv, StoreTypeOK, OnlyReleases
    <2>2. QED
      BY <2>1
  <1>3. UnreleasedIsNewest'
    BY <1>2 DEF StoreInv, UnreleasedIsNewest, Unreleased, OnlyReleases
  <1>4. HeldCarriesNewestDeadline'
    <2>1. SUFFICES ASSUME NEW s \in Seats, seatState'[s].status = "HELD"
                   PROVE  /\ hold'[s] # << >>
                          /\ seatState'[s].expiresAt = hold'[s][Len(hold'[s])].expiresAt
      BY DEF HeldCarriesNewestDeadline
    <2>2. /\ seatState'[s] = seatState[s]
          /\ hold[s] # << >>
          /\ seatState[s].expiresAt = hold[s][Len(hold[s])].expiresAt
      BY <2>1 DEF NoNewHeld, StoreInv, HeldCarriesNewestDeadline
    <2>3. Len(hold[s]) \in DOMAIN hold[s]
      BY <1>2, <2>2
    <2>4. hold'[s] # << >>
      BY <1>2, <2>3
    <2>5. QED
      BY <1>2, <2>2, <2>3, <2>4 DEF OnlyReleases
  <1>5. QED
    BY <1>1, <1>3, <1>4 DEF StoreInv

LEMMA CreateHoldsKeepsInv ==
    ASSUME StoreInv, NEW u \in Users, NEW S \in SUBSET Seats, CreateHolds(u, S)
    PROVE  StoreInv'
  <1> DEFINE row == [user |-> u, expiresAt |-> clock + HoldTTL, released |-> FALSE]
  <1>1. row \in HoldRow /\ clock + HoldTTL \in Nat /\ clock' = clock /\ clock \in Nat
    BY StoreAssumption DEF CreateHolds, StoreInv, StoreTypeOK, HoldRow
  <1>2. ASSUME NEW s \in Seats
        PROVE  /\ hold[s] \in Seq(HoldRow)
               /\ hold'[s] \in Seq(HoldRow)
               /\ s \notin S => hold'[s] = hold[s] /\ seatState'[s] = seatState[s]
               /\ s \in S => /\ hold'[s] = Append(hold[s], row)
                             /\ Len(hold'[s]) = Len(hold[s]) + 1
                             /\ hold'[s][Len(hold'[s])] = row
                             /\ seatState'[s] = [status |-> "HELD", expiresAt |-> clock + HoldTTL]
                             /\ Unreleased(s) = {}
    <2>1. hold[s] \in Seq(HoldRow)
      BY DEF StoreInv, StoreTypeOK
    <2>2. CASE s \notin S
      BY <2>1, <2>2 DEF CreateHolds, MarkHeld
    <2>3. CASE s \in S
      <3>1. hold'[s] = Append(hold[s], row)
        BY <2>3 DEF CreateHolds
      <3>2. /\ seatState'[s] = [status |-> "HELD", expiresAt |-> clock + HoldTTL]
            /\ Unreleased(s) = {}
        BY <2>3 DEF CreateHolds, MarkHeld, IndexAdmits
      <3>3. QED
        BY <2>1, <2>3, <3>1, <3>2, <1>1
    <2>4. QED
      BY <2>2, <2>3
  <1>3. StoreTypeOK'
    <2>1. hold' \in [Seats -> Seq(HoldRow)]
      BY <1>2 DEF CreateHolds
    <2>2. seatState' \in [Seats -> SeatRow]
      BY <1>1 DEF CreateHolds, MarkHeld, SeatRow, StoreInv, StoreTypeOK
    <2>3. QED
      BY <1>1, <2>1, <2>2 DEF StoreTypeOK
  <1>4. UnreleasedIsNewest'
    <2>1. SUFFICES ASSUME NEW s \in Seats, NEW i \in DOMAIN hold'[s], ~hold'[s][i].released
                   PROVE  i = Len(hold'[s])
      BY DEF UnreleasedIsNewest, Unreleased
    <2>2. CASE s \notin S
      BY <1>2, <2>1, <2>2 DEF StoreInv, UnreleasedIsNewest, Unreleased
    <2>3. CASE s \in S
      <3>1. i \in 1 .. Len(hold[s]) + 1
        BY <1>2, <2>1, <2>3
      <3>2. CASE i \in 1 .. Len(hold[s])
        <4>1. i \in DOMAIN hold[s] /\ hold'[s][i] = hold[s][i]
          BY <1>2, <2>3, <3>2
        <4>2. QED
          BY <1>2, <2>1, <2>3, <4>1 DEF Unreleased
      <3>3. QED
        BY <1>2, <2>3, <3>1, <3>2
    <2>4. QED
      BY <2>2, <2>3
  <1>5. HeldCarriesNewestDeadline'
    <2>1. SUFFICES ASSUME NEW s \in Seats, seatState'[s].status = "HELD"
                   PROVE  /\ hold'[s] # << >>
                          /\ seatState'[s].expiresAt = hold'[s][Len(hold'[s])].expiresAt
      BY DEF HeldCarriesNewestDeadline
    <2>2. CASE s \notin S
      BY <1>2, <2>1, <2>2 DEF StoreInv, HeldCarriesNewestDeadline
    <2>3. CASE s \in S
      BY <1>2, <2>3
    <2>4. QED
      BY <2>2, <2>3
  <1>6. QED
    BY <1>3, <1>4, <1>5 DEF StoreInv

-----------------------------------------------------------------------------
(* Rows are only ever added and released.                                   *)

\* What no transaction of the tables changes: rows stay, with their customer
\* and deadline, a released row stays released, and a new row outlives now.
RowsKept ==
    /\ clock <= clock'
    /\ \A s \in Seats :
          /\ \A i \in DOMAIN hold[s] :
                /\ i \in DOMAIN hold'[s]
                /\ hold'[s][i].user = hold[s][i].user
                /\ hold'[s][i].expiresAt = hold[s][i].expiresAt
                /\ ~hold'[s][i].released => ~hold[s][i].released
          /\ \A i \in DOMAIN hold'[s] :
                i \notin DOMAIN hold[s] => clock < hold'[s][i].expiresAt

LEMMA OnlyReleasesKeepsRows ==
    ASSUME StoreTypeOK, OnlyReleases, clock <= clock'
    PROVE  RowsKept
  <1>1. ASSUME NEW s \in Seats
        PROVE  DOMAIN hold'[s] = DOMAIN hold[s]
    <2>1. hold[s] \in Seq(HoldRow) /\ hold'[s] \in Seq(HoldRow) /\ Len(hold'[s]) = Len(hold[s])
      BY DEF StoreTypeOK, OnlyReleases
    <2>2. QED
      BY <2>1
  <1>2. QED
    BY <1>1 DEF OnlyReleases, RowsKept

LEMMA CreateHoldsKeepsRows ==
    ASSUME StoreTypeOK, NEW u \in Users, NEW S \in SUBSET Seats, CreateHolds(u, S)
    PROVE  RowsKept
  <1> DEFINE row == [user |-> u, expiresAt |-> clock + HoldTTL, released |-> FALSE]
  <1>1. clock \in Nat /\ clock' = clock /\ clock < row.expiresAt
    BY StoreAssumption DEF StoreTypeOK, CreateHolds
  <1>2. ASSUME NEW s \in Seats
        PROVE  /\ \A i \in DOMAIN hold[s] : i \in DOMAIN hold'[s] /\ hold'[s][i] = hold[s][i]
               /\ \A i \in DOMAIN hold'[s] : i \notin DOMAIN hold[s] => hold'[s][i] = row
    <2>1. hold[s] \in Seq(HoldRow)
      BY DEF StoreTypeOK
    <2>2. hold'[s] = hold[s] \/ hold'[s] = Append(hold[s], row)
      BY DEF CreateHolds
    <2>3. QED
      BY <2>1, <2>2
  <1>3. QED
    BY <1>1, <1>2 DEF RowsKept

LEMMA StoreStepKeepsRows ==
    ASSUME StoreTypeOK, [StoreNext]_storeVars
    PROVE  RowsKept
  <1>1. clock \in Nat
    BY DEF StoreTypeOK
  <1>2. ASSUME NEW u \in Users, NEW S \in SUBSET Seats, CreateHolds(u, S)
        PROVE  RowsKept
    BY <1>2, CreateHoldsKeepsRows
  <1>3. ASSUME NEW S \in SUBSET Seats, LazyRelease(S)
        PROVE  RowsKept
    BY <1>1, <1>3, LazyReleaseShape, OnlyReleasesKeepsRows
  <1>4. ASSUME NEW s \in Seats, NEW i \in DOMAIN hold[s], ReleaseHold(s, i)
        PROVE  RowsKept
    BY <1>1, <1>4, ReleaseHoldShape, OnlyReleasesKeepsRows
  <1>5. CASE CronExpireHolds
    BY <1>1, <1>5, CronShape, OnlyReleasesKeepsRows
  <1>6. ASSUME NEW H \in SUBSET (Seats \X (1 .. MaxHolds)), ConsumeHolds(H)
        PROVE  RowsKept
    BY <1>1, <1>6, ConsumeShape, OnlyReleasesKeepsRows
  <1>7. ASSUME NEW s \in Seats, ReturnSeat(s)
        PROVE  RowsKept
    BY <1>1, <1>7, ReturnShape, OnlyReleasesKeepsRows
  <1>8. CASE Tick
    <2>1. clock <= clock'
      BY <1>1, <1>8 DEF Tick
    <2>2. QED
      BY <1>8, <2>1, TickShape, OnlyReleasesKeepsRows
  <1>9. CASE UNCHANGED storeVars
    BY <1>1, <1>9 DEF storeVars, RowsKept
  <1>10. QED
    BY <1>2, <1>3, <1>4, <1>5, <1>6, <1>7, <1>8, <1>9 DEF StoreNext

-----------------------------------------------------------------------------
(* The theorems.                                                            *)

LEMMA StoreInitInv == StoreInit => StoreInv
  BY DEF StoreInit, StoreInv, StoreTypeOK, UnreleasedIsNewest, Unreleased,
         HeldCarriesNewestDeadline, SeatRow, NoExpiry

LEMMA StoreStepInv == StoreInv /\ [StoreNext]_storeVars => StoreInv'
  <1> SUFFICES ASSUME StoreInv, [StoreNext]_storeVars PROVE StoreInv'
    OBVIOUS
  <1>1. StoreTypeOK /\ clock \in Nat
    BY DEF StoreInv, StoreTypeOK
  <1>2. ASSUME NEW u \in Users, NEW S \in SUBSET Seats, CreateHolds(u, S)
        PROVE  StoreInv'
    BY <1>2, CreateHoldsKeepsInv
  <1>3. ASSUME NEW S \in SUBSET Seats, LazyRelease(S)
        PROVE  StoreInv'
    BY <1>1, <1>3, LazyReleaseShape, OnlyReleasesKeepsInv
  <1>4. ASSUME NEW s \in Seats, NEW i \in DOMAIN hold[s], ReleaseHold(s, i)
        PROVE  StoreInv'
    BY <1>1, <1>4, ReleaseHoldShape, OnlyReleasesKeepsInv
  <1>5. CASE CronExpireHolds
    BY <1>1, <1>5, CronShape, OnlyReleasesKeepsInv
  <1>6. ASSUME NEW H \in SUBSET (Seats \X (1 .. MaxHolds)), ConsumeHolds(H)
        PROVE  StoreInv'
    BY <1>1, <1>6, ConsumeShape, OnlyReleasesKeepsInv
  <1>7. ASSUME NEW s \in Seats, ReturnSeat(s)
        PROVE  StoreInv'
    BY <1>1, <1>7, ReturnShape, OnlyReleasesKeepsInv
  <1>8. CASE Tick
    BY <1>1, <1>8, TickShape, OnlyReleasesKeepsInv
  <1>9. CASE UNCHANGED storeVars
    BY <1>9 DEF storeVars, StoreInv, StoreTypeOK, UnreleasedIsNewest, Unreleased,
                HeldCarriesNewestDeadline
  <1>10. QED
    BY <1>2, <1>3, <1>4, <1>5, <1>6, <1>7, <1>8, <1>9 DEF StoreNext

\* The inductive invariant of the two tables: their types, that an
\* unreleased row is the newest of its seat, and that a HELD seat_state
\* carries the newest row's deadline.
THEOREM StoreInvariant == StoreSpec => []StoreInv
  BY StoreInitInv, StoreStepInv, PTL DEF StoreSpec

\* At every moment at most one SeatHold row of a seat is unreleased.
THEOREM OneUnreleasedHoldAlways == StoreSpec => []OneUnreleasedHold
  <1>1. StoreInv => OneUnreleasedHold
    BY DEF StoreInv, UnreleasedIsNewest, OneUnreleasedHold
  <1>2. QED
    BY <1>1, StoreInvariant, PTL

LEMMA LapsedSeatFromInv == StoreInv => LapsedSeatIsReclaimable
  <1> SUFFICES ASSUME StoreInv, NEW s \in Seats, seatState[s].status = "HELD",
                      SeatmapStatus(s) = "FREE", NEW i \in Active(s)
               PROVE  FALSE
    BY DEF LapsedSeatIsReclaimable
  <1>1. seatState[s].expiresAt < clock
    BY DEF SeatmapStatus
  <1>2. seatState[s].expiresAt = hold[s][i].expiresAt
    BY DEF StoreInv, UnreleasedIsNewest, HeldCarriesNewestDeadline, Active, ActiveAt,
           Unreleased
  <1>3. hold[s][i].expiresAt > clock
    BY DEF Active, ActiveAt
  <1>4. seatState[s].expiresAt \in Nat /\ clock \in Nat
    BY DEF StoreInv, StoreTypeOK, SeatRow
  <1>5. QED
    BY <1>1, <1>2, <1>3, <1>4

\* A seat the map shows as free again after its deadline has no active hold.
THEOREM LapsedSeatIsReclaimableAlways == StoreSpec => []LapsedSeatIsReclaimable
  BY LapsedSeatFromInv, StoreInvariant, PTL

-----------------------------------------------------------------------------
(* The tables implement exclusive reservations.                             *)

HolderIsNewest ==
    \A s \in Seats :
        Holder[s] = IF Unreleased(s) = {} THEN Nobody
                    ELSE hold[s][Len(hold[s])].user

LEMMA HolderFromInv == StoreInv => HolderIsNewest
  <1> SUFFICES ASSUME StoreInv, NEW s \in Seats
               PROVE  Holder[s] = IF Unreleased(s) = {} THEN Nobody
                                  ELSE hold[s][Len(hold[s])].user
    BY DEF HolderIsNewest
  <1>1. CASE Unreleased(s) = {}
    BY <1>1 DEF Holder
  <1>2. CASE Unreleased(s) # {}
    <2>1. (CHOOSE i \in Unreleased(s) : TRUE) = Len(hold[s])
      BY <1>2 DEF StoreInv, UnreleasedIsNewest
    <2>2. QED
      BY <1>2, <2>1 DEF Holder
  <1>3. QED
    BY <1>1, <1>2

LEMMA HolderFromInvNext == StoreInv' => HolderIsNewest'
  BY HolderFromInv, PTL

LEMMA ReleaseIsVacate ==
    ASSUME StoreInv, StoreInv', OnlyReleases
    PROVE  Reservation!Next \/ UNCHANGED Holder
  <1> DEFINE V == {s \in Seats : Holder'[s] = Nobody}
  <1>1. ASSUME NEW s \in Seats, Holder'[s] # Nobody
        PROVE  Holder'[s] = Holder[s]
    <2>1. Unreleased(s)' # {}
      BY <1>1, HolderFromInvNext DEF HolderIsNewest
    <2>2. PICK i \in DOMAIN hold'[s] : ~hold'[s][i].released
      BY <2>1 DEF Unreleased
    <2>3. hold[s] \in Seq(HoldRow) /\ hold'[s] \in Seq(HoldRow) /\ Len(hold'[s]) = Len(hold[s])
      BY DEF StoreInv, StoreTypeOK, OnlyReleases
    <2>4. i \in DOMAIN hold[s]
      BY <2>2, <2>3
    <2>5. i \in Unreleased(s)
      BY <2>2, <2>4 DEF OnlyReleases, Unreleased
    <2>6. i = Len(hold[s])
      BY <2>5 DEF StoreInv, UnreleasedIsNewest
    <2>7. hold'[s][Len(hold'[s])].user = hold[s][Len(hold[s])].user
      BY <2>3, <2>4, <2>6 DEF OnlyReleases
    <2>8. QED
      BY <2>1, <2>5, <2>7, HolderFromInv, HolderFromInvNext DEF HolderIsNewest
  <1>2. Holder' = [s \in Seats |-> IF s \in V THEN Nobody ELSE Holder[s]]
    BY <1>1 DEF Holder
  <1>3. Reservation!Vacate(V)
    BY <1>2 DEF Reservation!Vacate
  <1>4. QED
    BY <1>3 DEF Reservation!Next

LEMMA CreateIsReserve ==
    ASSUME StoreInv, StoreInv', NEW u \in Users, NEW S \in SUBSET Seats, CreateHolds(u, S)
    PROVE  Reservation!Next
  <1> DEFINE row == [user |-> u, expiresAt |-> clock + HoldTTL, released |-> FALSE]
  <1>1. ASSUME NEW s \in S
        PROVE  Holder[s] = Nobody /\ Holder'[s] = u
    <2>1. Unreleased(s) = {} /\ hold'[s] = Append(hold[s], row) /\ hold[s] \in Seq(HoldRow)
      BY DEF CreateHolds, IndexAdmits, StoreInv, StoreTypeOK
    <2>2. Len(hold'[s]) \in DOMAIN hold'[s] /\ hold'[s][Len(hold'[s])] = row
      BY <2>1
    <2>3. Len(hold'[s]) \in Unreleased(s)'
      BY <2>2 DEF Unreleased
    <2>4. QED
      BY <2>1, <2>2, <2>3, HolderFromInv, HolderFromInvNext DEF HolderIsNewest
  <1>2. ASSUME NEW s \in Seats, s \notin S
        PROVE  Holder'[s] = Holder[s]
    <2>1. hold'[s] = hold[s]
      BY <1>2 DEF CreateHolds
    <2>2. Unreleased(s)' = Unreleased(s)
      BY <2>1 DEF Unreleased
    <2>3. QED
      BY <2>1, <2>2, HolderFromInv, HolderFromInvNext DEF HolderIsNewest
  <1>3. Holder' = [s \in Seats |-> IF s \in S THEN u ELSE Holder[s]]
    BY <1>1, <1>2 DEF Holder
  <1>4. Reservation!Reserve(u, S)
    BY <1>1, <1>3 DEF Reservation!Reserve
  <1>5. QED
    BY <1>4 DEF Reservation!Next

\* The tables implement SeatReservation: a seat's unreleased hold passes
\* from one customer to another only through a state in which it has none.
THEOREM StoreImplementsReservation == StoreSpec => ReservationSpec
  <1>1. StoreInit => Reservation!Init
    BY DEF StoreInit, Reservation!Init, Holder, Unreleased
  <1>2. StoreInv /\ StoreInv' /\ [StoreNext]_storeVars => [Reservation!Next]_Holder
    <2> SUFFICES ASSUME StoreInv, StoreInv', [StoreNext]_storeVars
                 PROVE  Reservation!Next \/ UNCHANGED Holder
      OBVIOUS
    <2>1. StoreTypeOK
      BY DEF StoreInv
    <2>2. ASSUME NEW u \in Users, NEW S \in SUBSET Seats, CreateHolds(u, S)
          PROVE  Reservation!Next
      BY <2>2, CreateIsReserve
    <2>3. ASSUME NEW S \in SUBSET Seats, LazyRelease(S)
          PROVE  OnlyReleases
      BY <2>1, <2>3, LazyReleaseShape
    <2>4. ASSUME NEW s \in Seats, NEW i \in DOMAIN hold[s], ReleaseHold(s, i)
          PROVE  OnlyReleases
      BY <2>1, <2>4, ReleaseHoldShape
    <2>5. CronExpireHolds => OnlyReleases
      BY <2>1, CronShape
    <2>6. ASSUME NEW H \in SUBSET (Seats \X (1 .. MaxHolds)), ConsumeHolds(H)
          PROVE  OnlyReleases
      BY <2>1, <2>6, ConsumeShape
    <2>7. ASSUME NEW s \in Seats, ReturnSeat(s)
          PROVE  OnlyReleases
      BY <2>1, <2>7, ReturnShape
    <2>8. Tick => OnlyReleases
      BY <2>1, TickShape
    <2>9. CASE UNCHANGED storeVars
      BY <2>9 DEF storeVars, Holder, Unreleased
    <2>10. QED
      BY <2>2, <2>3, <2>4, <2>5, <2>6, <2>7, <2>8, <2>9, ReleaseIsVacate DEF StoreNext
  <1>3. QED
    BY <1>1, <1>2, StoreInvariant, PTL DEF StoreSpec, ReservationSpec, Reservation!Spec
=============================================================================
