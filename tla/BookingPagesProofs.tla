------------------------- MODULE BookingPagesProofs -------------------------
(***************************************************************************)
(* Proofs about BookingPages: the map a customer looks at, the hold the    *)
(* page offers, the orders of the visits to the checkout and what its      *)
(* pages say of them, for any seats, patches, interruptions and reloads.   *)
(***************************************************************************)
EXTENDS BookingPages, SequenceTheorems, TLAPS

MapStatus == {"FREE", "HELD", "SOLD"}
Patch == [seats : SUBSET Seats, status : MapStatus]
SeatMap == [Seats -> MapStatus]
Fetch == [at : {"none", "asked", "read"}, snap : SeatMap \cup {NoMap}, late : SUBSET Seats]
AskRec == [at : {"none", "asked", "granted", "refused"}, seats : SUBSET Seats, taken : SUBSET Seats]
Pages == {"seats", "new", "order", "return"}

SeatTypes ==
    /\ db \in [Seats -> Status] /\ mine \in SUBSET Seats /\ changes \in 0 .. MaxChanges
    /\ feed \in Seq(Patch)
    /\ conn \in {"CONNECTING", "SUBSCRIBED"} /\ drops \in 0 .. MaxDrops /\ wasDown \in BOOLEAN
    /\ map \in SeatMap \cup {NoMap} /\ fetch \in Fetch /\ (fetch.at = "read" => fetch.snap \in SeatMap)
    /\ failed \in BOOLEAN /\ modal \in BOOLEAN /\ strayed \in SUBSET Seats /\ left \in SUBSET Seats
    /\ overtaken \in SUBSET Seats /\ chosen \in SUBSET Seats /\ offered \in SUBSET Seats
    /\ ask \in AskRec /\ page \in Pages

\* What a map may say of a seat.
Agrees(s, v) == v = Shown[s] \/ (db[s] = "LAPSED" /\ v = "HELD")

\* A patch of the seat is on its way.
Told(s) == \E i \in DOMAIN feed : s \in feed[i].seats

\* Of the patches on their way, the last one of a seat is what the tables say.
LastPatchIsTrue ==
    conn = "SUBSCRIBED" =>
        \A s \in Seats, i \in DOMAIN feed :
            s \in feed[i].seats /\ (\A j \in DOMAIN feed : s \in feed[j].seats => j <= i)
                => Agrees(s, feed[i].status)

\* A snapshot that was read differs from the tables only where they were written
\* since: of a page that will not ask again, every write is counted.
SnapshotFollows ==
    (conn = "SUBSCRIBED" \/ ~Loaded) /\ fetch.at = "read" =>
        \A s \in Seats : s \in fetch.late \/ Agrees(s, fetch.snap[s])

\* The map of a subscribed page, when no snapshot is awaited, differs where a
\* patch is on its way, or a change may have been missed.
MapFollows ==
    conn = "SUBSCRIBED" /\ fetch.at = "none" /\ Loaded /\ ~failed =>
        \A s \in Seats : s \in overtaken \/ Told(s) \/ Agrees(s, map[s])

ChannelInv ==
    /\ conn = "CONNECTING" => wasDown /\ feed = <<>>
    /\ LastPatchIsTrue /\ SnapshotFollows /\ MapFollows

\* The customer's holds are offered, in an answer on its way, or astray.
Known == offered \cup Granted
HoldInv ==
    /\ ask.at # "none" => offered = {}
    /\ modal => offered = {} /\ ask.at = "none"
    /\ ActiveMine \subseteq Known \cup strayed

SeatsInv == SeatTypes /\ ChannelInv /\ HoldInv

OrderRec == [status : OrderStatuses, seats : (SUBSET Seats) \ {{}}, key : Nat, how : {"FAKE", "STRIPE"}]
CreateRec == [at : {"off"}, fails : {0}]
             \cup [at : {"asked", "created", "expired", "error"}, fails : {0, 1}, how : {"FAKE", "STRIPE"}]

PayRec == [at : {"none", "asked", "read", "done", "error"}, to : Outcomes]

CheckoutTypes ==
    /\ orders \in Seq(OrderRec)
    /\ visits \in Nat /\ key = visits /\ reloads \in 0 .. MaxReloads /\ visits <= MaxVisits + reloads
    /\ polls \in 0 .. POLLS /\ nav \in SUBSET Seats /\ current \in 0 .. Len(orders)
    /\ secret \in BOOLEAN /\ create \in CreateRec
    /\ seen \in OrderStatuses \cup {"none"}
    /\ pay \in PayRec /\ sent \cup deciding \subseteq (DOMAIN orders) \X Outcomes
    /\ rewritten \subseteq DOMAIN orders
    /\ retry.at \in {"none", "asked", "refused"}

\* The k-th order was made in the k-th visit or later.
OrdersOfVisits == \A k \in DOMAIN orders : k <= orders[k].key /\ orders[k].key <= key

\* A paid order keeps its seats.
PaidIsSold ==
    \A k \in DOMAIN orders : orders[k].status = "PAID" =>
        \A s \in orders[k].seats : db[s] = "SOLD" /\ s \in mine

\* Which page waits for what.
PagesInv ==
    /\ create.at # "off" => page = "new"
    /\ page # "seats" => key >= 1
    /\ create.at = "created" => Replayed(key) # {}
    /\ page \in {"order", "return"} => current >= 1
    /\ pay.at # "none" => page = "order" /\ seen = "PENDING" /\ Order.how = "FAKE"
    /\ retry.at = "asked" => page = "return"

CheckoutInv == CheckoutTypes /\ OrdersOfVisits /\ PaidIsSold /\ PagesInv /\ OutcomeShownIsTrue

BookingInv == SeatsInv /\ CheckoutInv


-----------------------------------------------------------------------------
(* The tables and the map. *)

LEMMA NewMap == Asked \in Fetch /\ NoFetch \in Fetch /\ Asked.at = "asked" /\ NoFetch.at = "none"
  BY DEF Asked, NoFetch, Fetch

LEMMA NewAsk == NoAsk \in AskRec /\ NoAsk.at = "none"
  BY DEF NoAsk, AskRec

LEMMA PatchesOnTheirWay ==
    ASSUME SeatTypes
    PROVE  /\ Len(feed) \in Nat /\ DOMAIN feed = 1 .. Len(feed)
           /\ \A i \in DOMAIN feed : feed[i].status \in MapStatus /\ feed[i].seats \in SUBSET Seats
  <1>1. feed \in Seq(Patch)
    BY DEF SeatTypes
  <1>2. Len(feed) \in Nat /\ DOMAIN feed = 1 .. Len(feed)
    BY <1>1, LenProperties
  <1>3. \A i \in 1 .. Len(feed) : feed[i] \in Patch
    BY <1>1, ElementOfSeq
  <1>4. \A i \in 1 .. Len(feed) : feed[i].status \in MapStatus /\ feed[i].seats \in SUBSET Seats
    BY <1>3 DEF Patch
  <1> QED
    BY <1>2, <1>4

\* A transaction writes the seats, tells of it last, and counts for the snapshot
\* on its way.
LEMMA WriteIsTold ==
    ASSUME SeatTypes, ChannelInv, NEW S \in SUBSET Seats, NEW v \in MapStatus, Write(S, v),
           UNCHANGED <<conn, wasDown, cached>>
    PROVE  /\ db' \in [Seats -> Status] /\ feed' \in Seq(Patch)
           /\ fetch' \in Fetch /\ (fetch'.at = "read" => fetch'.snap \in SeatMap)
           /\ \A s \in Seats : db'[s] = IF s \in S THEN v ELSE db[s]
           /\ ChannelInv'
  <1> DEFINE p == [seats |-> S, status |-> v]
  <1>1. /\ db' \in [Seats -> Status]
        /\ \A s \in Seats : db'[s] = IF s \in S THEN v ELSE db[s]
    BY DEF Write, SeatTypes, Status, MapStatus
  <1>2. feed \in Seq(Patch) /\ p \in Patch
    BY DEF SeatTypes, Patch
  <1>3. feed' = IF conn = "SUBSCRIBED" THEN Append(feed, p) ELSE feed
    BY DEF Write, Heard
  <1> HIDE DEF p
  <1>4. feed' \in Seq(Patch)
    BY <1>2, <1>3, AppendProperties
  <1>5. UNCHANGED <<conn, wasDown, map, failed, overtaken>> /\ Loaded' = Loaded
    BY DEF cached, Loaded
  <1>6. \A s \in Seats \ S, w \in MapStatus : Agrees(s, w) => Agrees(s, w)'
    BY <1>1 DEF Agrees, Shown
  <1>7. \A s \in S : Agrees(s, v)'
    BY <1>1 DEF Agrees, Shown, MapStatus
  <1>f. /\ fetch' \in Fetch /\ fetch'.at = fetch.at /\ fetch'.snap = fetch.snap
        /\ (fetch'.at = "read" => fetch'.snap \in SeatMap)
        /\ fetch.at = "read" /\ (conn = "SUBSCRIBED" \/ ~Loaded) => fetch'.late = fetch.late \cup S
    <2>1. PICK at \in {"none", "asked", "read"}, snap \in SeatMap \cup {NoMap}, late \in SUBSET Seats :
              fetch = [at |-> at, snap |-> snap, late |-> late]
      BY DEF SeatTypes, Fetch
    <2>2. CASE fetch.at = "read" /\ (conn = "SUBSCRIBED" \/ ~Loaded)
      <3>1. fetch' = [at |-> at, snap |-> snap, late |-> late \cup S]
        BY <2>1, <2>2 DEF Write, Behind
      <3> QED
        BY <2>1, <2>2, <3>1 DEF Fetch, SeatTypes
    <2>3. CASE ~(fetch.at = "read" /\ (conn = "SUBSCRIBED" \/ ~Loaded))
      BY <2>3 DEF Write, Behind, SeatTypes
    <2> QED
      BY <2>2, <2>3
  <1>s. SnapshotFollows'
    <2> SUFFICES ASSUME conn = "SUBSCRIBED" \/ ~Loaded, fetch.at = "read", NEW s \in Seats
                 PROVE  s \in fetch'.late \/ Agrees(s, fetch.snap[s])'
      BY <1>5, <1>f DEF SnapshotFollows
    <2>1. fetch.snap[s] \in MapStatus
      BY DEF SeatTypes, SeatMap
    <2>2. s \in fetch.late \/ Agrees(s, fetch.snap[s])
      BY DEF ChannelInv, SnapshotFollows
    <2>3. fetch'.late = fetch.late \cup S
      BY <1>f
    <2>4. fetch'.snap = fetch.snap
      BY <1>f
    <2> QED
      BY <2>1, <2>2, <2>3, <2>4, <1>6
  <1>8. ChannelInv'
    <2>1. CASE conn # "SUBSCRIBED"
      BY <2>1, <1>3, <1>5, <1>s DEF ChannelInv, LastPatchIsTrue, MapFollows
    <2>2. CASE conn = "SUBSCRIBED"
      <3>1. /\ feed' = Append(feed, p) /\ Len(feed') = Len(feed) + 1 /\ Len(feed) \in Nat
            /\ \A i \in 1 .. Len(feed) : feed'[i] = feed[i]
            /\ feed'[Len(feed) + 1] = p
            /\ DOMAIN feed = 1 .. Len(feed) /\ DOMAIN feed' = 1 .. Len(feed) + 1
        BY <2>2, <1>2, <1>3, <1>4, AppendProperties, LenProperties
      <3>2. p.seats = S /\ p.status = v
        BY DEF p
      <3>3. \A s \in Seats : (Told(s) => Told(s)') /\ (s \in S => Told(s)')
        BY <3>1, <3>2 DEF Told
      <3>4. LastPatchIsTrue'
        <4> SUFFICES ASSUME NEW s \in Seats, NEW i \in DOMAIN feed', s \in feed'[i].seats,
                            \A j \in DOMAIN feed' : s \in feed'[j].seats => j <= i
                     PROVE  Agrees(s, feed[i].status)'
          BY DEF LastPatchIsTrue
        <4>1. CASE i = Len(feed) + 1
          BY <4>1, <3>1, <3>2, <1>7
        <4>2. CASE i # Len(feed) + 1
          <5>1. i \in DOMAIN feed /\ feed'[i] = feed[i]
            BY <4>2, <3>1
          <5>2. s \notin S
            BY <4>2, <3>1, <3>2
          <5>3. \A j \in DOMAIN feed : s \in feed[j].seats => j <= i
            BY <3>1
          <5>4. Agrees(s, feed[i].status)
            BY <2>2, <5>1, <5>3 DEF ChannelInv, LastPatchIsTrue
          <5>5. feed[i].status \in MapStatus
            BY <5>1, PatchesOnTheirWay
          <5> QED
            BY <5>1, <5>2, <5>4, <5>5, <1>6
        <4> QED
          BY <4>1, <4>2
      <3>6. MapFollows'
        <4> SUFFICES ASSUME fetch'.at = "none", Loaded', ~failed', NEW s \in Seats
                     PROVE  s \in overtaken' \/ Told(s)' \/ Agrees(s, map[s])'
          BY DEF MapFollows
        <4>1. map' = map /\ overtaken' = overtaken /\ fetch.at = "none" /\ failed' = failed
          BY <1>5, <1>f
        <4>2. Loaded /\ map[s] \in MapStatus
          BY <4>1 DEF SeatTypes, SeatMap, Loaded
        <4>3. s \in overtaken \/ Told(s) \/ Agrees(s, map[s])
          BY <2>2, <4>1, <4>2 DEF ChannelInv, MapFollows
        <4>4. CASE s \in S
          BY <4>4, <3>3
        <4>5. CASE s \notin S
          BY <4>1, <4>2, <4>3, <4>5, <3>3, <1>6
        <4> QED
          BY <4>4, <4>5
      <3> QED
        BY <3>4, <1>s, <3>6, <1>5, <2>2 DEF ChannelInv
    <2> QED
      BY <2>1, <2>2
  <1> QED
    BY <1>1, <1>4, <1>8, <1>f

\* A step that leaves tables and map alone may ask for a snapshot, and tell of an
\* error no more where there is no map.
ViewKept ==
    /\ UNCHANGED <<map, overtaken>> /\ fetch' \in {fetch, Asked}
    /\ failed' = failed \/ failed' = (failed /\ Loaded)

LEMMA RenewsKept ==
    ASSUME SeatTypes, Renew, UNCHANGED <<map, overtaken>>
    PROVE  ViewKept
  BY DEF Renew, Renewed, ViewKept

LEMMA ViewTypes ==
    ASSUME SeatTypes, ViewKept
    PROVE  /\ map' \in SeatMap \cup {NoMap} /\ overtaken' \in SUBSET Seats /\ failed' \in BOOLEAN
           /\ fetch' \in Fetch /\ (fetch'.at = "read" => fetch'.snap \in SeatMap)
  BY NewMap DEF SeatTypes, ViewKept

LEMMA ViewStays ==
    ASSUME SeatTypes, ChannelInv, UNCHANGED <<db, feed, conn, wasDown>>, ViewKept
    PROVE  ChannelInv'
  <1>0. UNCHANGED <<map, overtaken>> /\ Loaded' = Loaded
    BY DEF ViewKept, Loaded
  <1>1. LastPatchIsTrue'
    BY DEF ChannelInv, LastPatchIsTrue, Agrees, Shown
  <1>2. CASE fetch' = fetch
    <2>1. SnapshotFollows'
      BY <1>0, <1>2 DEF ChannelInv, SnapshotFollows, Agrees, Shown
    <2>2. Loaded => failed' = failed
      BY DEF ViewKept, SeatTypes
    <2>3. MapFollows'
      BY <1>0, <1>2, <2>2 DEF ChannelInv, MapFollows, Agrees, Shown, Told
    <2> QED
      BY <1>1, <2>1, <2>3 DEF ChannelInv
  <1>3. CASE fetch' = Asked
    <2>1. fetch'.at = "asked"
      BY <1>3, NewMap
    <2> QED
      BY <1>1, <2>1 DEF ChannelInv, SnapshotFollows, MapFollows
  <1> QED
    BY <1>2, <1>3 DEF ViewKept

\* A page that mounts asks for a map, or keeps the one it had.
LEMMA MountTypes ==
    ASSUME SeatTypes, Mounts
    PROVE  /\ map' \in SeatMap \cup {NoMap} /\ overtaken' \in SUBSET Seats /\ failed' \in BOOLEAN
           /\ fetch' \in Fetch /\ (fetch'.at = "read" => fetch'.snap \in SeatMap)
  BY NewMap DEF SeatTypes, Mounts, Empty

LEMMA MountAgrees ==
    ASSUME SeatTypes, ChannelInv, Mounts, UNCHANGED <<db, feed, conn, wasDown>>
    PROVE  ChannelInv'
  <1>1. CASE Empty /\ fetch' = Asked
    <2>1. fetch'.at = "asked"
      BY <1>1, NewMap
    <2>2. LastPatchIsTrue'
      BY DEF ChannelInv, LastPatchIsTrue, Agrees, Shown
    <2> QED
      BY <2>1, <2>2 DEF ChannelInv, SnapshotFollows, MapFollows
  <1>2. CASE ~(Empty /\ fetch' = Asked)
    <2>1. ViewKept
      BY <1>2 DEF Mounts, ViewKept
    <2> QED
      BY <2>1, ViewStays
  <1> QED
    BY <1>1, <1>2

\* A page that is left hears nothing any more; what it keeps is a map, an empty
\* cache, or a snapshot it asks for.
LEMMA LeftIsQuiet ==
    ASSUME SeatTypes, ChannelInv, Mounts \/ (UNCHANGED view) \/ (Empty /\ fetch' = NoFetch), UNCHANGED db,
           conn' = "CONNECTING", wasDown' = TRUE, feed' = <<>>
    PROVE  ChannelInv'
  <1>1. CASE fetch' \in {Asked, NoFetch}
    <2>1. fetch'.at # "read"
      BY <1>1, NewMap
    <2> QED
      BY <2>1 DEF ChannelInv, LastPatchIsTrue, SnapshotFollows, MapFollows
  <1>2. CASE fetch' \notin {Asked, NoFetch}
    <2>1. fetch' = fetch /\ map' = map /\ Loaded' = Loaded
      BY <1>2 DEF Mounts, Empty, view, cached, Loaded
    <2>2. SnapshotFollows'
      BY <2>1 DEF ChannelInv, SnapshotFollows, Agrees, Shown
    <2> QED
      BY <2>2 DEF ChannelInv, LastPatchIsTrue, MapFollows
  <1> QED
    BY <1>1, <1>2

\* A hold that lapses is still shown HELD to a page that has not heard.
LEMMA LapseAgrees ==
    ASSUME SeatTypes, ChannelInv, NEW S \in SUBSET Seats, Lapse(S)
    PROVE  ChannelInv'
  <1>1. /\ UNCHANGED <<feed, conn, wasDown, map, fetch, failed, overtaken>> /\ Loaded' = Loaded
        /\ \A s \in Seats : db'[s] = IF s \in S THEN "LAPSED" ELSE db[s]
        /\ \A s \in S : db[s] = "HELD"
    BY DEF Lapse, channel, view, cached, Loaded
  <1>2. \A s \in Seats, w \in MapStatus : Agrees(s, w) => Agrees(s, w)'
    BY <1>1 DEF Agrees, Shown
  <1>3. \A s \in Seats : Told(s) => Told(s)'
    BY <1>1 DEF Told
  <1>4. \A i \in DOMAIN feed : feed[i].status \in MapStatus
    BY PatchesOnTheirWay
  <1>5. LastPatchIsTrue'
    BY <1>1, <1>2, <1>4 DEF ChannelInv, LastPatchIsTrue
  <1>6. SnapshotFollows'
    BY <1>1, <1>2 DEF ChannelInv, SnapshotFollows, SeatTypes, SeatMap
  <1>7. MapFollows'
    BY <1>1, <1>2, <1>3 DEF ChannelInv, MapFollows, SeatTypes, SeatMap, Loaded
  <1> QED
    BY <1>1, <1>5, <1>6, <1>7 DEF ChannelInv

LEMMA FirstPatch ==
    ASSUME SeatTypes, feed # <<>>
    PROVE  /\ Head(feed) = feed[1] /\ 1 \in DOMAIN feed
           /\ Head(feed).status \in MapStatus /\ Head(feed).seats \in SUBSET Seats
           /\ Tail(feed) \in Seq(Patch) /\ Len(Tail(feed)) = Len(feed) - 1
           /\ DOMAIN Tail(feed) = 1 .. Len(feed) - 1
           /\ \A i \in 1 .. Len(feed) - 1 : Tail(feed)[i] = feed[i + 1]
  <1>1. feed \in Seq(Patch)
    BY DEF SeatTypes
  <1>2. /\ Head(feed) \in Patch /\ Tail(feed) \in Seq(Patch) /\ Len(Tail(feed)) = Len(feed) - 1
        /\ \A i \in 1 .. Len(Tail(feed)) : Tail(feed)[i] = feed[i + 1]
    BY <1>1, HeadTailProperties
  <1>3. Len(feed) \in Nat /\ DOMAIN feed = 1 .. Len(feed) /\ Len(feed) # 0 /\ Head(feed) = feed[1]
    BY <1>1, LenProperties, EmptySeq
  <1>4. DOMAIN Tail(feed) = 1 .. Len(feed) - 1
    BY <1>2, LenProperties
  <1> QED
    BY <1>2, <1>3, <1>4 DEF Patch

\* A patch is applied: what the map says of its seats is what the tables say,
\* unless another one follows.
LEMMA PatchAgrees ==
    ASSUME SeatTypes, ChannelInv, PatchArrives
    PROVE  ChannelInv'
  <1>1. /\ feed # <<>> /\ feed' = Tail(feed) /\ UNCHANGED <<db, conn, wasDown, fetch>>
        /\ Loaded => overtaken' = (IF failed THEN Seats ELSE overtaken) \ Head(feed).seats
        /\ Loaded => map' = Patched(Head(feed)) /\ ~failed'
        /\ ~Loaded => map' = NoMap
    BY DEF PatchArrives, seatServer, cached, Loaded
  <1>l. Loaded' = Loaded
    <2>1. CASE Loaded
      <3>1. map # NoMap /\ map \in SeatMap
        BY <2>1 DEF Loaded, SeatTypes
      <3>2. map' = [s \in Seats |-> IF s \in Head(feed).seats THEN Head(feed).status ELSE map[s]]
        BY <1>1, <2>1 DEF Patched
      <3>3. DOMAIN map' = DOMAIN map /\ map = [s \in Seats |-> map[s]]
        BY <3>1, <3>2 DEF SeatMap
      <3>4. CASE Seats = {}
        BY <3>2, <3>3, <3>4, <2>1 DEF Loaded
      <3>5. CASE Seats # {}
        <4>1. PICK s \in Seats : TRUE
          BY <3>5
        <4>2. s \in DOMAIN map' /\ DOMAIN NoMap = {}
          BY <3>2 DEF NoMap
        <4> QED
          BY <4>2, <2>1 DEF Loaded
      <3> QED
        BY <3>4, <3>5
    <2>2. CASE ~Loaded
      BY <1>1, <2>2 DEF Loaded
    <2> QED
      BY <2>1, <2>2
  <1> DEFINE p == Head(feed)
  <1>2. /\ p = feed[1] /\ p.status \in MapStatus /\ p.seats \in SUBSET Seats /\ Len(feed) \in Nat
        /\ DOMAIN feed = 1 .. Len(feed) /\ 1 \in DOMAIN feed /\ DOMAIN feed' = 1 .. Len(feed) - 1
        /\ \A i \in DOMAIN feed' : feed'[i] = feed[i + 1] /\ i + 1 \in DOMAIN feed
        /\ \A j \in DOMAIN feed : j # 1 => j - 1 \in DOMAIN feed' /\ feed'[j - 1] = feed[j]
    BY <1>1, FirstPatch, PatchesOnTheirWay
  <1> HIDE DEF p
  <1>s. SnapshotFollows'
    BY <1>1, <1>l DEF ChannelInv, SnapshotFollows, Agrees, Shown
  <1>3. CASE conn # "SUBSCRIBED"
    <2>1. conn' # "SUBSCRIBED" /\ (conn' = "CONNECTING" => wasDown' /\ feed = <<>>)
      BY <1>1, <1>3 DEF ChannelInv
    <2> QED
      BY <2>1, <1>1, <1>s DEF ChannelInv, LastPatchIsTrue, MapFollows
  <1>4. CASE conn = "SUBSCRIBED"
    <2>1. \A w : \A s \in Seats : Agrees(s, w) => Agrees(s, w)'
      BY <1>1 DEF Agrees, Shown
    <2>2. \A s \in Seats : Told(s) => Told(s)' \/ s \in p.seats
      BY <1>2 DEF Told
    <2>3. \A s \in p.seats : Told(s)' \/ Agrees(s, p.status)
      <3> SUFFICES ASSUME NEW s \in p.seats, ~Told(s)' PROVE Agrees(s, p.status)
        OBVIOUS
      <3>1. \A j \in DOMAIN feed : s \in feed[j].seats => j = 1
        BY <1>2 DEF Told
      <3>2. s \in Seats /\ s \in feed[1].seats /\ \A j \in DOMAIN feed : s \in feed[j].seats => j <= 1
        BY <3>1, <1>2
      <3>3. Agrees(s, feed[1].status)
        BY <3>2, <1>2, <1>4 DEF ChannelInv, LastPatchIsTrue
      <3> QED
        BY <3>3, <1>2
    <2>4. LastPatchIsTrue'
      <3> SUFFICES ASSUME NEW s \in Seats, NEW i \in DOMAIN feed', s \in feed'[i].seats,
                          \A j \in DOMAIN feed' : s \in feed'[j].seats => j <= i
                   PROVE  Agrees(s, feed[i].status)'
        BY DEF LastPatchIsTrue
      <3>1. i + 1 \in DOMAIN feed /\ feed'[i] = feed[i + 1] /\ i \in Nat
        BY <1>2
      <3>2. \A j \in DOMAIN feed : s \in feed[j].seats => j <= i + 1
        <4> SUFFICES ASSUME NEW j \in DOMAIN feed, s \in feed[j].seats PROVE j <= i + 1
          OBVIOUS
        <4>1. CASE j = 1
          BY <4>1, <3>1
        <4>2. CASE j # 1
          <5>1. j - 1 \in DOMAIN feed' /\ feed'[j - 1] = feed[j]
            BY <4>2, <1>2
          <5>2. j - 1 <= i
            BY <5>1
          <5> QED
            BY <5>2, <1>2, <3>1
        <4> QED
          BY <4>1, <4>2
      <3>3. Agrees(s, feed[i + 1].status)
        BY <3>1, <3>2, <1>4 DEF ChannelInv, LastPatchIsTrue
      <3> QED
        BY <3>1, <3>3, <2>1
    <2>6. MapFollows'
      <3> SUFFICES ASSUME fetch'.at = "none", Loaded', ~failed', NEW s \in Seats
                   PROVE  s \in overtaken' \/ Told(s)' \/ Agrees(s, map[s])'
        BY DEF MapFollows
      <3>1. fetch.at = "none" /\ Loaded
        BY <1>1, <1>l
      <3>2. map' = [t \in Seats |-> IF t \in p.seats THEN p.status ELSE map[t]]
        BY <1>1, <3>1 DEF Patched, p
      <3>3. CASE s \in p.seats
        <4>1. map'[s] = p.status
          BY <3>2, <3>3
        <4> QED
          BY <4>1, <3>3, <2>1, <2>3
      <3>4. CASE s \notin p.seats
        <4>1. map'[s] = map[s]
          BY <3>2, <3>4
        <4>2. CASE failed
          BY <4>2, <3>1, <3>4, <1>1 DEF p
        <4>3. CASE ~failed
          <5>1. s \in overtaken \/ Told(s) \/ Agrees(s, map[s])
            BY <3>1, <4>3, <1>4 DEF ChannelInv, MapFollows
          <5>2. s \in overtaken => s \in overtaken'
            BY <1>1, <3>1, <3>4, <4>3 DEF p
          <5> QED
            BY <4>1, <5>1, <5>2, <3>4, <2>1, <2>2
        <4> QED
          BY <4>2, <4>3
      <3> QED
        BY <3>3, <3>4
    <2> QED
      BY <2>4, <1>s, <2>6, <1>1, <1>4 DEF ChannelInv
  <1> QED
    BY <1>3, <1>4

\* Snapshots and subscriptions keep map and tables together.
LEMMA SnapshotAgrees ==
    ASSUME SeatTypes, ChannelInv,
           Subscribed \/ Drops \/ Poll \/ RetryMap \/ FetchReads \/ FetchAnswers \/ FetchFails
    PROVE  ChannelInv'
  <1>1. ASSUME Subscribed PROVE ChannelInv'
    <2>1. wasDown /\ Renew /\ UNCHANGED <<db, map, overtaken, feed>> /\ conn' = "SUBSCRIBED" /\ conn = "CONNECTING"
      BY <1>1 DEF Subscribed, ChannelInv, seatServer
    <2>2. feed' = <<>> /\ DOMAIN feed' = {} /\ Loaded' = Loaded
      BY <2>1 DEF ChannelInv, Loaded
    <2>3. LastPatchIsTrue'
      BY <2>2 DEF LastPatchIsTrue
    <2>4. CASE ~Loaded /\ fetch.at # "none"
      <3>1. fetch' = fetch
        BY <2>1, <2>4 DEF Renew, Renewed
      <3>2. SnapshotFollows'
        BY <3>1, <2>1, <2>2, <2>4 DEF ChannelInv, SnapshotFollows, Agrees, Shown
      <3>3. MapFollows'
        BY <2>2, <2>4 DEF MapFollows
      <3> QED
        BY <2>1, <2>3, <3>2, <3>3 DEF ChannelInv
    <2>5. CASE ~(~Loaded /\ fetch.at # "none")
      <3>1. fetch'.at = "asked"
        BY <2>1, <2>5, NewMap DEF Renew, Renewed
      <3> QED
        BY <3>1, <2>1, <2>3 DEF ChannelInv, SnapshotFollows, MapFollows
    <2> QED
      BY <2>4, <2>5
  <1>2. ASSUME Drops PROVE ChannelInv'
    <2>1. /\ conn = "SUBSCRIBED" /\ conn' = "CONNECTING" /\ wasDown' = TRUE /\ feed' = <<>>
          /\ UNCHANGED <<db, map, fetch>> /\ Loaded' = Loaded
      BY <1>2 DEF Drops, view, cached, seatServer, Loaded
    <2>2. SnapshotFollows'
      BY <2>1 DEF ChannelInv, SnapshotFollows, Agrees, Shown
    <2> QED
      BY <2>1, <2>2 DEF ChannelInv, LastPatchIsTrue, MapFollows
  <1>3. ASSUME Poll \/ RetryMap PROVE ChannelInv'
    <2>1. UNCHANGED <<db, feed, conn, wasDown, map, overtaken>> /\ Renew
      BY <1>3 DEF Poll, RetryMap, seatServer, channel
    <2> QED
      BY <2>1, RenewsKept, ViewStays
  <1>4. ASSUME FetchReads PROVE ChannelInv'
    <2>1. UNCHANGED <<db, feed, conn, wasDown>> /\ fetch'.at = "read" /\ fetch'.snap = Shown
      BY <1>4 DEF FetchReads, seatServer, channel
    <2>2. LastPatchIsTrue'
      BY <2>1 DEF ChannelInv, LastPatchIsTrue, Agrees, Shown
    <2>3. SnapshotFollows'
      BY <2>1 DEF SnapshotFollows, Agrees, Shown
    <2> QED
      BY <2>1, <2>2, <2>3 DEF ChannelInv, MapFollows
  <1>5. ASSUME FetchAnswers PROVE ChannelInv'
    <2>1. /\ UNCHANGED <<db, feed, conn, wasDown>> /\ fetch'.at = "none"
          /\ fetch.at = "read" /\ map' = fetch.snap /\ overtaken' = fetch.late
      BY <1>5, NewMap DEF FetchAnswers, seatServer, channel
    <2>2. LastPatchIsTrue'
      BY <2>1 DEF ChannelInv, LastPatchIsTrue, Agrees, Shown
    <2>3. MapFollows'
      BY <2>1 DEF ChannelInv, SnapshotFollows, MapFollows, Agrees, Shown
    <2> QED
      BY <2>1, <2>2, <2>3 DEF ChannelInv, SnapshotFollows
  <1>6. ASSUME FetchFails PROVE ChannelInv'
    <2>1. /\ UNCHANGED <<db, feed, conn, wasDown>>
          /\ fetch'.at = "asked" \/ (fetch'.at = "none" /\ failed')
      BY <1>6, NewMap DEF FetchFails, seatServer, channel
    <2>2. LastPatchIsTrue'
      BY <2>1 DEF ChannelInv, LastPatchIsTrue, Agrees, Shown
    <2> QED
      BY <2>1, <2>2 DEF ChannelInv, SnapshotFollows, MapFollows
  <1> QED
    BY <1>1, <1>2, <1>3, <1>4, <1>5, <1>6

-----------------------------------------------------------------------------
(* The seat page keeps its types. *)

LEMMA ChangesAreWrites ==
    ASSUME NEW s \in Seats, OthersChange(s), SeatTypes
    PROVE  /\ \E v \in MapStatus : Write({s}, v)
           /\ changes' \in 0 .. MaxChanges /\ mine' = mine \ {s} /\ db[s] # "SOLD"
           /\ UNCHANGED <<conn, drops, wasDown, cached, picks, page>>
  <1>1. \/ db[s] \in {"FREE", "LAPSED"} /\ Write({s}, "HELD")
        \/ db[s] = "HELD" /\ \E v \in {"FREE", "SOLD"} : Write({s}, v)
    BY DEF OthersChange
  <1>2. changes \in 0 .. MaxChanges /\ changes < MaxChanges /\ changes' = changes + 1
    BY DEF OthersChange, SeatTypes
  <1>3. changes' \in 0 .. MaxChanges
    BY <1>2, BookingAssumption
  <1> QED
    BY <1>1, <1>3 DEF OthersChange, MapStatus

LEMMA CronIsWrite ==
    ASSUME CronFrees, SeatTypes
    PROVE  /\ \E S \in SUBSET Seats : Write(S, "FREE") /\ \A s \in S : db[s] = "LAPSED"
           /\ "FREE" \in MapStatus /\ mine' \in SUBSET mine
           /\ UNCHANGED <<changes, conn, drops, wasDown, cached, picks, page>>
  <1> DEFINE S == {s \in Seats : db[s] = "LAPSED"}
  <1>1. Write(S, "FREE") /\ S \in SUBSET Seats /\ \A s \in S : db[s] = "LAPSED"
    BY DEF CronFrees
  <1> HIDE DEF S
  <1> QED
    BY <1>1 DEF CronFrees, MapStatus, SeatTypes

\* The server grants a hold of seats that are not taken, or changes nothing.
LEMMA HoldsAreWrites ==
    ASSUME SeatTypes, HoldServed \/ LeftServed
    PROVE  /\ UNCHANGED <<changes, conn, drops, wasDown, cached, chosen, offered, modal, page>>
           /\ ask' \in AskRec /\ left' \in SUBSET Seats /\ strayed' \in SUBSET Seats
           /\ \/ UNCHANGED <<db, feed, fetch, mine>>
              \/ \E S \in SUBSET Seats : /\ Write(S, "HELD") /\ mine' = mine \cup S
                                         /\ \A s \in S : db[s] # "SOLD"
  <1>0. ask \in AskRec /\ ask.seats \in SUBSET Seats /\ left \in SUBSET Seats /\ strayed \in SUBSET Seats
        /\ Taken(ask.seats) \in SUBSET Seats
    BY DEF SeatTypes, AskRec, Taken
  <1>1. ASSUME HoldServed PROVE ask' \in AskRec /\ left' \in SUBSET Seats /\ strayed' \in SUBSET Seats
    <2>1. ask' = [ask EXCEPT !.at = "granted"] \/ ask' = [ask EXCEPT !.at = "refused", !.taken = Taken(ask.seats)]
      BY <1>1 DEF HoldServed
    <2>2. ask' \in AskRec
      BY <2>1, <1>0 DEF AskRec
    <2> QED
      BY <2>2, <1>0, <1>1 DEF HoldServed
  <1>2. ASSUME LeftServed PROVE ask' \in AskRec /\ left' \in SUBSET Seats /\ strayed' \in SUBSET Seats
    BY <1>2, <1>0 DEF LeftServed
  <1>3. Grants(ask.seats) \/ Refuses(ask.seats) \/ Grants(left) \/ Refuses(left)
    BY DEF HoldServed, LeftServed
  <1>4. ASSUME NEW S \in SUBSET Seats, Grants(S)
        PROVE  Write(S, "HELD") /\ mine' = mine \cup S /\ \A s \in S : db[s] # "SOLD"
    BY <1>4 DEF Grants, Taken
  <1>5. \/ UNCHANGED <<db, feed, fetch, mine>>
        \/ \E S \in SUBSET Seats : Write(S, "HELD") /\ mine' = mine \cup S /\ \A s \in S : db[s] # "SOLD"
    BY <1>0, <1>3, <1>4 DEF Refuses
  <1> QED
    BY <1>1, <1>2, <1>5 DEF HoldServed, LeftServed

LEMMA SeatWriteTypes ==
    ASSUME SeatTypes, ChannelInv,
           (\E s \in Seats : OthersChange(s)) \/ (\E S \in SUBSET Seats : Lapse(S)) \/ CronFrees
              \/ HoldServed \/ LeftServed
    PROVE  SeatTypes'
  <1>1. ASSUME NEW s \in Seats, OthersChange(s) PROVE SeatTypes'
    <2>1. PICK v \in MapStatus : Write({s}, v)
      BY <1>1, ChangesAreWrites
    <2>2. UNCHANGED <<conn, drops, wasDown, cached, picks, page>> /\ changes' \in 0 .. MaxChanges /\ mine' = mine \ {s}
      BY <1>1, ChangesAreWrites
    <2>3. /\ db' \in [Seats -> Status] /\ feed' \in Seq(Patch)
          /\ fetch' \in Fetch /\ (fetch'.at = "read" => fetch'.snap \in SeatMap)
      BY <2>1, <2>2, WriteIsTold
    <2> QED
      BY <2>2, <2>3 DEF SeatTypes, cached, picks
  <1>2. ASSUME NEW S \in SUBSET Seats, Lapse(S) PROVE SeatTypes'
    <2>1. UNCHANGED <<mine, channel, view, picks, page>> /\ changes < MaxChanges /\ changes' = changes + 1
      BY <1>2 DEF Lapse
    <2>2. changes' \in 0 .. MaxChanges
      BY <2>1, BookingAssumption DEF SeatTypes
    <2>3. db' \in [Seats -> Status]
      BY <1>2 DEF Lapse, SeatTypes, Status
    <2> QED
      BY <2>1, <2>2, <2>3 DEF SeatTypes, view, cached, picks, channel
  <1>3. ASSUME CronFrees PROVE SeatTypes'
    <2>1. /\ "FREE" \in MapStatus /\ mine' \in SUBSET Seats
          /\ UNCHANGED <<changes, conn, drops, wasDown, cached, picks, page>>
      BY <1>3, CronIsWrite DEF SeatTypes
    <2>2. PICK S \in SUBSET Seats : Write(S, "FREE")
      BY <1>3, CronIsWrite
    <2>3. /\ db' \in [Seats -> Status] /\ feed' \in Seq(Patch)
          /\ fetch' \in Fetch /\ (fetch'.at = "read" => fetch'.snap \in SeatMap)
      BY <2>1, <2>2, WriteIsTold
    <2> QED
      BY <2>1, <2>3 DEF SeatTypes, cached, picks
  <1>4. ASSUME HoldServed \/ LeftServed PROVE SeatTypes'
    <2>1. /\ UNCHANGED <<changes, conn, drops, wasDown, cached, chosen, offered, modal, page>>
          /\ ask' \in AskRec /\ left' \in SUBSET Seats /\ strayed' \in SUBSET Seats
      BY <1>4, HoldsAreWrites
    <2>2. CASE UNCHANGED <<db, feed, fetch, mine>>
      BY <2>1, <2>2 DEF SeatTypes, cached
    <2>3. CASE \E S \in SUBSET Seats : Write(S, "HELD") /\ mine' = mine \cup S
      <3>1. PICK S \in SUBSET Seats : Write(S, "HELD") /\ mine' = mine \cup S
        BY <2>3
      <3>2. "HELD" \in MapStatus
        BY DEF MapStatus
      <3>3. /\ db' \in [Seats -> Status] /\ feed' \in Seq(Patch)
            /\ fetch' \in Fetch /\ (fetch'.at = "read" => fetch'.snap \in SeatMap)
        BY <2>1, <3>1, <3>2, WriteIsTold
      <3> QED
        BY <2>1, <3>1, <3>3 DEF SeatTypes, cached
    <2> QED
      BY <1>4, <2>2, <2>3, HoldsAreWrites
  <1> QED
    BY <1>1, <1>2, <1>3, <1>4

LEMMA SeatViewTypes ==
    ASSUME SeatTypes,
           Subscribed \/ Drops \/ Poll \/ RetryMap \/ FetchReads \/ FetchAnswers \/ FetchFails \/ PatchArrives
    PROVE  SeatTypes'
  <1>1. ASSUME Subscribed \/ Poll \/ RetryMap PROVE SeatTypes'
    <2>1. /\ UNCHANGED <<seatServer, feed, drops, map, overtaken, picks, page>>
          /\ conn' \in {"CONNECTING", "SUBSCRIBED"} /\ wasDown' \in BOOLEAN
          /\ Renew \/ UNCHANGED <<fetch, failed>>
      BY <1>1 DEF Subscribed, Poll, RetryMap, channel, SeatTypes
    <2>2. ViewKept
      BY <2>1, RenewsKept DEF ViewKept
    <2> QED
      BY <2>1, <2>2, ViewTypes DEF SeatTypes, seatServer, picks
  <1>2. ASSUME Drops PROVE SeatTypes'
    <2>1. drops < MaxDrops /\ drops' = drops + 1
      BY <1>2 DEF Drops
    <2>2. drops' \in 0 .. MaxDrops
      BY <2>1, BookingAssumption DEF SeatTypes
    <2>3. feed' \in Seq(Patch)
      BY <1>2 DEF Drops
    <2> QED
      BY <1>2, <2>2, <2>3 DEF Drops, SeatTypes, seatServer, picks, view, cached
  <1>4. ASSUME FetchReads PROVE SeatTypes'
    <2>1. Shown \in SeatMap
      BY DEF Shown, SeatMap, SeatTypes, Status, MapStatus
    <2>2. fetch' = [at |-> "read", snap |-> Shown, late |-> {}]
      BY <1>4 DEF FetchReads
    <2>3. fetch' \in Fetch /\ fetch'.snap \in SeatMap
      BY <2>1, <2>2 DEF Fetch
    <2> QED
      BY <1>4, <2>3 DEF FetchReads, SeatTypes, seatServer, picks, channel, cached
  <1>5. ASSUME FetchAnswers PROVE SeatTypes'
    <2>1. fetch.snap \in SeatMap /\ fetch.late \in SUBSET Seats
      BY <1>5 DEF FetchAnswers, SeatTypes, Fetch
    <2> QED
      BY <1>5, <2>1, NewMap DEF FetchAnswers, SeatTypes, seatServer, picks, channel
  <1>6. ASSUME FetchFails PROVE SeatTypes'
    <2>1. /\ fetch' \in Fetch /\ fetch'.at # "read" /\ failed' \in BOOLEAN
          /\ UNCHANGED <<seatServer, channel, map, overtaken, picks, page>>
      BY <1>6, NewMap DEF FetchFails, SeatTypes
    <2> QED
      BY <2>1 DEF SeatTypes, seatServer, picks, channel
  <1>7. ASSUME PatchArrives PROVE SeatTypes'
    <2>1. feed # <<>> /\ feed' = Tail(feed)
      BY <1>7 DEF PatchArrives
    <2>2. Head(feed).status \in MapStatus /\ Head(feed).seats \in SUBSET Seats /\ feed' \in Seq(Patch)
      BY <2>1, FirstPatch
    <2>3. CASE Loaded
      <3>1. map' = Patched(Head(feed)) /\ failed' = FALSE /\ overtaken' \in SUBSET Seats
        BY <1>7, <2>3 DEF PatchArrives, SeatTypes
      <3>2. map' \in SeatMap
        BY <3>1, <2>2, <2>3 DEF SeatTypes, Patched, Loaded, SeatMap
      <3> QED
        BY <1>7, <2>2, <3>1, <3>2 DEF PatchArrives, SeatTypes, seatServer, picks
    <2>4. CASE ~Loaded
      BY <1>7, <2>2, <2>4 DEF PatchArrives, SeatTypes, seatServer, picks, cached
    <2> QED
      BY <2>3, <2>4
  <1> QED
    BY <1>1, <1>2, <1>4, <1>5, <1>6, <1>7

\* What a page that is left behind leaves.
LEMMA UnmountTypes ==
    ASSUME SeatTypes, Unmounts
    PROVE  /\ chosen' \in SUBSET Seats /\ ask' \in AskRec /\ offered' \in SUBSET Seats /\ modal' \in BOOLEAN
           /\ strayed' \in SUBSET Seats /\ left' \in SUBSET Seats
           /\ conn' \in {"CONNECTING", "SUBSCRIBED"} /\ wasDown' \in BOOLEAN /\ feed' \in Seq(Patch)
  <1>1. ask.seats \in SUBSET Seats
    BY DEF SeatTypes, AskRec
  <1>2. strayed' \in SUBSET Seats /\ left' \in SUBSET Seats
    BY <1>1 DEF Unmounts, Granted, Unanswered, SeatTypes
  <1>3. feed' \in Seq(Patch)
    BY DEF Unmounts
  <1>4. chosen' \in SUBSET Seats /\ offered' \in SUBSET Seats /\ ask' \in AskRec
    BY NewAsk DEF Unmounts
  <1>5. conn' \in {"CONNECTING", "SUBSCRIBED"} /\ wasDown' \in BOOLEAN /\ modal' \in BOOLEAN
    BY DEF Unmounts
  <1> QED
    BY <1>2, <1>3, <1>4, <1>5

LEMMA SeatPickTypes ==
    ASSUME SeatTypes,
           (\E s \in Seats : Toggle(s)) \/ Reserve \/ HoldGranted \/ HoldRefused \/ HoldLost
              \/ TimerEnds \/ ChooseAgain \/ PageReloads
    PROVE  SeatTypes'
  <1>0. ask.seats \in SUBSET Seats
    BY DEF SeatTypes, AskRec
  <1>1. ASSUME NEW s \in Seats, Toggle(s) PROVE SeatTypes'
    BY <1>1 DEF Toggle, SeatTypes, seatServer, channel, view, cached
  <1>2. ASSUME Reserve PROVE SeatTypes'
    <2>1. ask' = [NoAsk EXCEPT !.at = "asked", !.seats = chosen]
      BY <1>2 DEF Reserve
    <2>2. ask' \in AskRec
      BY <2>1, NewAsk DEF SeatTypes, AskRec
    <2> QED
      BY <1>2, <2>2 DEF Reserve, SeatTypes, seatServer, channel, view, cached
  <1>3. ASSUME HoldGranted \/ HoldRefused \/ ChooseAgain PROVE SeatTypes'
    <2>1. /\ UNCHANGED <<seatServer, channel, map, overtaken, left, strayed, page>> /\ Renew
          /\ chosen' \in SUBSET Seats /\ offered' \in SUBSET Seats /\ modal' \in BOOLEAN /\ ask' \in AskRec
      BY <1>0, <1>3, NewAsk DEF HoldGranted, HoldRefused, ChooseAgain, SeatTypes
    <2>2. ViewKept
      BY <2>1, RenewsKept
    <2> QED
      BY <2>1, <2>2, ViewTypes DEF SeatTypes, seatServer, channel
  <1>5. ASSUME HoldLost PROVE SeatTypes'
    <2>1. strayed' \in SUBSET Seats /\ left' \in SUBSET Seats
      BY <1>0, <1>5 DEF HoldLost, Granted, Unanswered, SeatTypes
    <2> QED
      BY <1>5, <2>1, NewAsk DEF HoldLost, SeatTypes, seatServer, channel, view, cached
  <1>6. ASSUME TimerEnds PROVE SeatTypes'
    BY <1>6 DEF TimerEnds, SeatTypes, seatServer, channel, view, cached
  <1>7. ASSUME PageReloads PROVE SeatTypes'
    <2>1. drops < MaxDrops /\ drops' = drops + 1 /\ Unmounts /\ Mounts /\ UNCHANGED <<seatServer, page>>
      BY <1>7 DEF PageReloads
    <2>2. drops' \in 0 .. MaxDrops
      BY <2>1, BookingAssumption DEF SeatTypes
    <2> QED
      BY <2>1, <2>2, UnmountTypes, MountTypes DEF SeatTypes, seatServer
  <1> QED
    BY <1>1, <1>2, <1>3, <1>5, <1>6, <1>7

-----------------------------------------------------------------------------
(* The hold of a customer is offered until it lapses. *)

\* Nothing but a grant gives the customer a hold.
LEMMA FewerHolds ==
    ASSUME HoldInv, ActiveMine' \subseteq ActiveMine, UNCHANGED picks
    PROVE  HoldInv'
  <1>1. UNCHANGED <<chosen, ask, offered, modal, left, strayed>>
    BY DEF picks
  <1> QED
    BY <1>1 DEF HoldInv, Known, Granted

\* Seats that are written otherwise than HELD, or to somebody else, are no holds
\* of the customer.
LEMMA WriteTakesHolds ==
    ASSUME SeatTypes, ChannelInv, NEW S \in SUBSET Seats, NEW v \in MapStatus, Write(S, v),
           UNCHANGED <<conn, wasDown, cached>>,
           mine' \subseteq mine \cup S, v = "HELD" => mine' \subseteq mine \ S
    PROVE  ActiveMine' \subseteq ActiveMine
  <1>1. \A s \in Seats : db'[s] = IF s \in S THEN v ELSE db[s]
    BY WriteIsTold
  <1>2. mine \in SUBSET Seats
    BY DEF SeatTypes
  <1> QED
    BY <1>1, <1>2 DEF ActiveMine

\* A grant makes holds of the seats it writes, and of no other.
LEMMA GrantMakesHolds ==
    ASSUME SeatTypes, ChannelInv, NEW S \in SUBSET Seats, Grants(S), UNCHANGED <<conn, wasDown, cached>>
    PROVE  ActiveMine' \subseteq ActiveMine \cup S
  <1>1. Write(S, "HELD") /\ mine' = mine \cup S /\ "HELD" \in MapStatus
    BY DEF Grants, MapStatus
  <1>2. \A s \in Seats : db'[s] = IF s \in S THEN "HELD" ELSE db[s]
    BY <1>1, WriteIsTold
  <1> QED
    BY <1>1, <1>2 DEF ActiveMine, SeatTypes

\* A page that is left knows of no hold: what it knew is astray.
LEMMA UnmountStrays ==
    ASSUME HoldInv, Unmounts, UNCHANGED <<db, mine>>
    PROVE  HoldInv'
  BY NewAsk DEF HoldInv, Known, Granted, Unmounts, ActiveMine

LEMMA HoldStaysOffered ==
    ASSUME SeatTypes, ChannelInv, HoldInv, SeatsNext
    PROVE  HoldInv'
  <1>1. ASSUME NEW s \in Seats, OthersChange(s) PROVE HoldInv'
    <2>1. PICK v \in MapStatus : Write({s}, v)
      BY <1>1, ChangesAreWrites
    <2>2. UNCHANGED <<conn, wasDown, cached, picks>> /\ mine' = mine \ {s}
      BY <1>1, ChangesAreWrites
    <2>3. ActiveMine' \subseteq ActiveMine
      BY <2>1, <2>2, WriteTakesHolds
    <2> QED
      BY <2>2, <2>3, FewerHolds
  <1>2. ASSUME NEW S \in SUBSET Seats, Lapse(S) PROVE HoldInv'
    <2>1. ActiveMine' \subseteq ActiveMine
      BY <1>2 DEF Lapse, ActiveMine, SeatTypes
    <2> QED
      BY <1>2, <2>1, FewerHolds DEF Lapse
  <1>3. ASSUME CronFrees PROVE HoldInv'
    <2>1. "FREE" \in MapStatus /\ "FREE" # "HELD" /\ mine' \subseteq mine /\ UNCHANGED <<conn, wasDown, cached, picks>>
      BY <1>3, CronIsWrite
    <2>2. PICK S \in SUBSET Seats : Write(S, "FREE")
      BY <1>3, CronIsWrite
    <2>3. ActiveMine' \subseteq ActiveMine
      BY <2>1, <2>2, WriteTakesHolds
    <2> QED
      BY <2>1, <2>3, FewerHolds
  <1>4. ASSUME HoldServed PROVE HoldInv'
    <2>1. UNCHANGED <<conn, wasDown, cached, offered, modal>> /\ ask.at = "asked" /\ ask.seats \in SUBSET Seats
      BY <1>4 DEF HoldServed, SeatTypes, AskRec
    <2>2. CASE Grants(ask.seats)
      <3>1. strayed' = strayed \ ask.seats /\ ask' = [ask EXCEPT !.at = "granted"]
        BY <1>4, <2>2 DEF HoldServed, Refuses, Grants
      <3>2. ask'.at = "granted" /\ ask'.seats = ask.seats
        BY <3>1 DEF SeatTypes, AskRec
      <3>3. ActiveMine' \subseteq ActiveMine \cup ask.seats
        BY <2>1, <2>2, GrantMakesHolds
      <3> QED
        BY <2>1, <3>1, <3>2, <3>3 DEF HoldInv, Known, Granted
    <2>3. CASE Refuses(ask.seats)
      <3>1. /\ strayed' = strayed /\ UNCHANGED <<db, mine>>
            /\ ask' = [ask EXCEPT !.at = "refused", !.taken = Taken(ask.seats)]
        BY <1>4, <2>3 DEF HoldServed, Refuses, Grants
      <3>2. ask'.at = "refused"
        BY <3>1 DEF SeatTypes, AskRec
      <3> QED
        BY <2>1, <3>1, <3>2 DEF HoldInv, Known, Granted, ActiveMine
    <2> QED
      BY <1>4, <2>2, <2>3 DEF HoldServed
  <1>5. ASSUME Subscribed \/ Drops \/ Poll \/ RetryMap \/ FetchReads \/ FetchAnswers \/ FetchFails
                 \/ PatchArrives
        PROVE  HoldInv'
    <2>1. UNCHANGED <<seatServer, picks>>
      BY <1>5 DEF Subscribed, Drops, Poll, RetryMap, FetchReads, FetchAnswers, FetchFails, PatchArrives
    <2>2. ActiveMine' = ActiveMine
      BY <2>1 DEF ActiveMine, seatServer
    <2> QED
      BY <2>1, <2>2, FewerHolds
  <1>6. ASSUME NEW s \in Seats, Toggle(s) PROVE HoldInv'
    BY <1>6 DEF Toggle, HoldInv, Known, Granted, ActiveMine, seatServer
  <1>7. ASSUME Reserve PROVE HoldInv'
    <2>1. /\ offered = {} /\ ~modal /\ ask.at = "none" /\ ask' = [NoAsk EXCEPT !.at = "asked", !.seats = chosen]
          /\ UNCHANGED <<db, mine, offered, modal, strayed>>
      BY <1>7 DEF Reserve, Usable, seatServer
    <2>2. ask'.at = "asked"
      BY <2>1, NewAsk DEF AskRec
    <2> QED
      BY <2>1, <2>2 DEF HoldInv, Known, Granted, ActiveMine
  <1>8. ASSUME HoldGranted PROVE HoldInv'
    <2>1. /\ ask.at = "granted" /\ offered' = ask.seats /\ ask' = NoAsk
          /\ UNCHANGED <<db, mine, modal, strayed>>
      BY <1>8 DEF HoldGranted, seatServer
    <2> QED
      BY <2>1, NewAsk DEF HoldInv, Known, Granted, ActiveMine
  <1>9. ASSUME HoldRefused PROVE HoldInv'
    <2>1. ask.at = "refused" /\ ask' = NoAsk /\ UNCHANGED <<db, mine, offered, modal, strayed>>
      BY <1>9 DEF HoldRefused, seatServer
    <2> QED
      BY <2>1, NewAsk DEF HoldInv, Known, Granted, ActiveMine
  <1>10. ASSUME HoldLost PROVE HoldInv'
    <2>1. ask' = NoAsk /\ strayed' = strayed \cup Granted /\ UNCHANGED <<db, mine, offered, modal>>
      BY <1>10 DEF HoldLost, seatServer
    <2> QED
      BY <2>1, NewAsk DEF HoldInv, Known, Granted, ActiveMine
  <1>11. ASSUME TimerEnds PROVE HoldInv'
    <2>1. /\ offered # {} /\ offered \cap ActiveMine \subseteq strayed /\ offered' = {} /\ modal' = TRUE
          /\ UNCHANGED <<db, mine, ask, strayed>>
      BY <1>11 DEF TimerEnds, TimerMayEnd, seatServer
    <2>2. ask.at = "none"
      BY <2>1 DEF HoldInv
    <2>3. ActiveMine \subseteq offered \cup strayed
      BY <2>2 DEF HoldInv, Known, Granted
    <2>4. ActiveMine' = ActiveMine
      BY <2>1 DEF ActiveMine
    <2> QED
      BY <2>1, <2>2, <2>3, <2>4 DEF HoldInv, Known, Granted
  <1>12. ASSUME ChooseAgain PROVE HoldInv'
    <2>1. modal /\ modal' = FALSE /\ offered' = {} /\ UNCHANGED <<db, mine, ask, strayed>>
      BY <1>12 DEF ChooseAgain, seatServer
    <2> QED
      BY <2>1 DEF HoldInv, Known, Granted, ActiveMine
  <1>13. ASSUME LeftServed PROVE HoldInv'
    <2>1. UNCHANGED <<conn, wasDown, cached, ask, offered, modal>> /\ left \in SUBSET Seats
      BY <1>13 DEF LeftServed, SeatTypes
    <2>2. CASE Grants(left)
      <3>1. strayed' = strayed \cup left
        BY <1>13, <2>2 DEF LeftServed, Refuses, Grants
      <3>2. ActiveMine' \subseteq ActiveMine \cup left
        BY <2>1, <2>2, GrantMakesHolds
      <3> QED
        BY <2>1, <3>1, <3>2 DEF HoldInv, Known, Granted
    <2>3. CASE Refuses(left)
      <3>1. strayed' = strayed /\ UNCHANGED <<db, mine>>
        BY <1>13, <2>3 DEF LeftServed, Refuses, Grants
      <3> QED
        BY <2>1, <3>1 DEF HoldInv, Known, Granted, ActiveMine
    <2> QED
      BY <1>13, <2>2, <2>3 DEF LeftServed
  <1>14. ASSUME PageReloads PROVE HoldInv'
    BY <1>14, UnmountStrays DEF PageReloads, seatServer
  <1> QED
    BY <1>1, <1>2, <1>3, <1>4, <1>5, <1>6, <1>7, <1>8, <1>9, <1>10, <1>11, <1>12, <1>13, <1>14 DEF SeatsNext

-----------------------------------------------------------------------------
(* The steps of the seat page. *)

LEMMA SeatMapKept ==
    ASSUME SeatTypes, ChannelInv, SeatsNext
    PROVE  ChannelInv'
  <1>1. ASSUME NEW s \in Seats, OthersChange(s) PROVE ChannelInv'
    <2>1. PICK v \in MapStatus : Write({s}, v)
      BY <1>1, ChangesAreWrites
    <2>2. UNCHANGED <<conn, wasDown, cached>>
      BY <1>1, ChangesAreWrites
    <2> QED
      BY <2>1, <2>2, WriteIsTold
  <1>2. ASSUME CronFrees PROVE ChannelInv'
    <2>1. "FREE" \in MapStatus /\ UNCHANGED <<conn, wasDown, cached>>
      BY <1>2, CronIsWrite
    <2>2. PICK S \in SUBSET Seats : Write(S, "FREE")
      BY <1>2, CronIsWrite
    <2> QED
      BY <2>1, <2>2, WriteIsTold
  <1>3. ASSUME HoldServed \/ LeftServed PROVE ChannelInv'
    <2>1. UNCHANGED <<conn, wasDown, cached>> /\ "HELD" \in MapStatus
      BY <1>3, HoldsAreWrites DEF MapStatus
    <2>2. UNCHANGED <<db, feed, fetch>> \/ \E S \in SUBSET Seats : Write(S, "HELD")
      BY <1>3, HoldsAreWrites
    <2>3. CASE \E S \in SUBSET Seats : Write(S, "HELD")
      BY <2>1, <2>3, WriteIsTold
    <2>4. CASE UNCHANGED <<db, feed, fetch>>
      BY <2>1, <2>4, ViewStays DEF ViewKept, cached
    <2> QED
      BY <2>2, <2>3, <2>4
  <1>4. ASSUME (\E s \in Seats : Toggle(s)) \/ Reserve \/ HoldGranted \/ HoldRefused \/ HoldLost
                 \/ TimerEnds \/ ChooseAgain
        PROVE  ChannelInv'
    <2>1. UNCHANGED <<seatServer, channel, map, overtaken>> /\ (UNCHANGED <<fetch, failed>> \/ Renew)
      BY <1>4 DEF Toggle, Reserve, HoldGranted, HoldRefused, HoldLost, TimerEnds, ChooseAgain, view, cached
    <2>2. ViewKept
      BY <2>1, RenewsKept DEF ViewKept
    <2> QED
      BY <2>1, <2>2, ViewStays DEF seatServer, channel
  <1>5. ASSUME PageReloads PROVE ChannelInv'
    <2>1. conn' = "CONNECTING" /\ wasDown' = TRUE /\ feed' = <<>> /\ Mounts /\ UNCHANGED db
      BY <1>5 DEF PageReloads, Unmounts, seatServer
    <2> QED
      BY <2>1, LeftIsQuiet
  <1> QED
    BY <1>1, <1>2, <1>3, <1>4, <1>5, LapseAgrees, SnapshotAgrees, PatchAgrees DEF SeatsNext

\* A sold seat stays sold, and its buyer's.
SoldStays == \A s \in Seats : db[s] = "SOLD" => db'[s] = "SOLD" /\ (s \in mine => s \in mine')

\* A write that sells nothing on leaves what is sold.
LEMMA WriteSparesSold ==
    ASSUME SeatTypes, ChannelInv, NEW S \in SUBSET Seats, NEW v \in MapStatus, Write(S, v),
           UNCHANGED <<conn, wasDown, cached>>, \A s \in S : db[s] # "SOLD", mine \ S \subseteq mine'
    PROVE  SoldStays
  <1>1. \A s \in Seats : db'[s] = IF s \in S THEN v ELSE db[s]
    BY WriteIsTold
  <1> QED
    BY <1>1 DEF SoldStays

LEMMA SeatsNextSellsNothing ==
    ASSUME SeatTypes, ChannelInv, SeatsNext
    PROVE  SoldStays
  <1>1. ASSUME NEW s \in Seats, OthersChange(s) PROVE SoldStays
    <2>1. PICK v \in MapStatus : Write({s}, v)
      BY <1>1, ChangesAreWrites
    <2>2. UNCHANGED <<conn, wasDown, cached>> /\ mine' = mine \ {s} /\ db[s] # "SOLD"
      BY <1>1, ChangesAreWrites
    <2> QED
      BY <2>1, <2>2, WriteSparesSold
  <1>2. ASSUME NEW S \in SUBSET Seats, Lapse(S) PROVE SoldStays
    BY <1>2 DEF Lapse, SoldStays
  <1>3. ASSUME CronFrees PROVE SoldStays
    BY <1>3 DEF CronFrees, Write, SoldStays
  <1>4. ASSUME HoldServed \/ LeftServed PROVE SoldStays
    <2>1. UNCHANGED <<conn, wasDown, cached>> /\ "HELD" \in MapStatus
      BY <1>4, HoldsAreWrites DEF MapStatus
    <2>2. CASE UNCHANGED <<db, mine>>
      BY <2>2 DEF SoldStays
    <2>3. CASE \E S \in SUBSET Seats : Write(S, "HELD") /\ mine' = mine \cup S /\ \A s \in S : db[s] # "SOLD"
      <3>1. PICK S \in SUBSET Seats : Write(S, "HELD") /\ mine' = mine \cup S /\ \A s \in S : db[s] # "SOLD"
        BY <2>3
      <3> QED
        BY <2>1, <3>1, WriteSparesSold
    <2> QED
      BY <1>4, <2>2, <2>3, HoldsAreWrites
  <1>5. ASSUME UNCHANGED <<db, mine>> PROVE SoldStays
    BY <1>5 DEF SoldStays
  <1> QED
    BY <1>1, <1>2, <1>3, <1>4, <1>5
       DEF SeatsNext, Toggle, Subscribed, Drops, Poll, RetryMap, FetchReads, FetchAnswers, FetchFails,
           PatchArrives, Reserve, HoldGranted, HoldRefused, HoldLost, TimerEnds, ChooseAgain, PageReloads, seatServer

LEMMA SeatsInvKept ==
    ASSUME SeatsInv, SeatsNext
    PROVE  SeatsInv' /\ SoldStays /\ page' = page
  <1>1. SeatTypes'
    BY SeatWriteTypes, SeatViewTypes, SeatPickTypes DEF SeatsInv, SeatsNext
  <1>2. page' = page
    BY DEF SeatsNext, OthersChange, Lapse, CronFrees, HoldServed, LeftServed, Toggle, Subscribed, Drops, Poll,
           RetryMap, FetchReads, FetchAnswers, FetchFails, PatchArrives, Reserve, HoldGranted, HoldRefused,
           HoldLost, TimerEnds, ChooseAgain, PageReloads
  <1> QED
    BY <1>1, <1>2, SeatMapKept, HoldStaysOffered, SeatsNextSellsNothing DEF SeatsInv

-----------------------------------------------------------------------------
(* The orders on the server. *)

LEMMA OrderRows ==
    ASSUME CheckoutTypes
    PROVE  /\ Len(orders) \in Nat /\ DOMAIN orders = 1 .. Len(orders)
           /\ \A k \in DOMAIN orders :
                /\ orders[k] \in OrderRec /\ orders[k].status \in OrderStatuses /\ orders[k].key \in Nat
                /\ orders[k].seats \in SUBSET Seats /\ orders[k].seats # {}
  <1>1. orders \in Seq(OrderRec)
    BY DEF CheckoutTypes
  <1>2. Len(orders) \in Nat /\ DOMAIN orders = 1 .. Len(orders)
    BY <1>1, LenProperties
  <1>3. \A k \in 1 .. Len(orders) : orders[k] \in OrderRec
    BY <1>1, ElementOfSeq
  <1>4. \A r \in OrderRec : /\ r.status \in OrderStatuses /\ r.key \in Nat
                            /\ r.seats \in SUBSET Seats /\ r.seats # {}
    BY DEF OrderRec
  <1> QED
    BY <1>2, <1>3, <1>4

\* An order changes its status and nothing else.
LEMMA StatusSet ==
    ASSUME CheckoutTypes, NEW k \in DOMAIN orders, NEW to \in OrderStatuses, SetStatus(k, to)
    PROVE  /\ orders' \in Seq(OrderRec) /\ Len(orders') = Len(orders) /\ DOMAIN orders' = DOMAIN orders
           /\ \A j \in DOMAIN orders :
                /\ orders'[j].key = orders[j].key /\ orders'[j].seats = orders[j].seats
                /\ orders'[j].how = orders[j].how
                /\ orders'[j].status = IF j = k THEN to ELSE orders[j].status
  <1> DEFINE q == [orders[k] EXCEPT !.status = to]
  <1>1. orders[k] \in OrderRec /\ Len(orders) \in Nat /\ DOMAIN orders = 1 .. Len(orders) /\ orders \in Seq(OrderRec)
    BY OrderRows DEF CheckoutTypes
  <1>2. q \in OrderRec /\ q.status = to /\ q.key = orders[k].key /\ q.seats = orders[k].seats
        /\ q.how = orders[k].how
    BY <1>1 DEF OrderRec
  <1>3. orders' = [orders EXCEPT ![k] = q]
    BY DEF SetStatus
  <1> HIDE DEF q
  <1>4. orders' \in Seq(OrderRec) /\ Len(orders') = Len(orders) /\ DOMAIN orders' = DOMAIN orders
    BY <1>1, <1>2, <1>3, ExceptSeq
  <1>5. \A j \in DOMAIN orders : orders'[j] = IF j = k THEN q ELSE orders[j]
    BY <1>1, <1>3
  <1> QED
    BY <1>2, <1>4, <1>5

\* The orders of the visits are the same, whatever becomes of them.
LEMMA StatusKeepsKeys ==
    ASSUME CheckoutTypes, OrdersOfVisits, NEW k \in DOMAIN orders, NEW to \in OrderStatuses,
           SetStatus(k, to), UNCHANGED key
    PROVE  OrdersOfVisits' /\ Replayed(key)' = Replayed(key)
  <1>1. DOMAIN orders' = DOMAIN orders /\ \A j \in DOMAIN orders : orders'[j].key = orders[j].key
    BY StatusSet
  <1> QED
    BY <1>1 DEF OrdersOfVisits, Replayed

\* Seats are sold to the customer with the order, and to nobody twice.
LEMMA SalePays ==
    ASSUME SeatTypes, ChannelInv, CheckoutTypes, PaidIsSold, NEW k \in DOMAIN orders, Confirms(k),
           UNCHANGED <<conn, wasDown, cached>>
    PROVE  /\ db' \in [Seats -> Status] /\ feed' \in Seq(Patch) /\ mine' \in SUBSET Seats
           /\ fetch' \in Fetch /\ (fetch'.at = "read" => fetch'.snap \in SeatMap)
           /\ ChannelInv' /\ PaidIsSold' /\ ActiveMine' \subseteq ActiveMine /\ SoldStays
  <1> DEFINE S == orders[k].seats
  <1>1. Write(S, "SOLD") /\ mine' = mine \cup S /\ SetStatus(k, "PAID") /\ \A s \in S : db[s] # "SOLD"
    BY DEF Confirms, Settles
  <1>2. S \in SUBSET Seats /\ "SOLD" \in MapStatus /\ "PAID" \in OrderStatuses
    BY OrderRows DEF MapStatus, OrderStatuses, Final
  <1>3. /\ DOMAIN orders' = DOMAIN orders
        /\ \A j \in DOMAIN orders :
             /\ orders'[j].seats = orders[j].seats
             /\ orders'[j].status = IF j = k THEN "PAID" ELSE orders[j].status
    BY <1>1, <1>2, StatusSet
  <1> HIDE DEF S
  <1>4. /\ db' \in [Seats -> Status] /\ feed' \in Seq(Patch) /\ ChannelInv'
        /\ fetch' \in Fetch /\ (fetch'.at = "read" => fetch'.snap \in SeatMap)
        /\ \A s \in Seats : db'[s] = IF s \in S THEN "SOLD" ELSE db[s]
    BY <1>1, <1>2, WriteIsTold
  <1>5. PaidIsSold'
    <2> SUFFICES ASSUME NEW j \in DOMAIN orders, orders'[j].status = "PAID", NEW s \in orders[j].seats
                 PROVE  db'[s] = "SOLD" /\ s \in mine'
      BY <1>3 DEF PaidIsSold
    <2>1. s \in Seats
      BY OrderRows
    <2>2. CASE j = k
      BY <2>1, <2>2, <1>1, <1>4 DEF S
    <2>3. CASE j # k
      <3>1. db[s] = "SOLD" /\ s \in mine
        BY <2>3, <1>3 DEF PaidIsSold
      <3> QED
        BY <3>1, <2>1, <1>1, <1>4
    <2> QED
      BY <2>2, <2>3
  <1>6. ActiveMine' \subseteq ActiveMine
    BY <1>1, <1>2, WriteTakesHolds
  <1>7. SoldStays
    BY <1>1, <1>2, WriteSparesSold
  <1>8. mine' \in SUBSET Seats
    BY <1>1, <1>2 DEF SeatTypes
  <1> QED
    BY <1>4, <1>5, <1>6, <1>7, <1>8

\* A new order has the key of a visit that had none.
LEMMA OrderCreated ==
    ASSUME CheckoutInv, key >= 1, NEW S \in SUBSET Seats, S # {}, NEW how \in {"FAKE", "STRIPE"},
           Replayed(key) = {}, orders' = Append(orders, NewOrder(S, key, how)), UNCHANGED <<key, db, mine>>
    PROVE  /\ orders' \in Seq(OrderRec) /\ Len(orders') = Len(orders) + 1
           /\ \A j \in DOMAIN orders : j \in DOMAIN orders' /\ orders'[j] = orders[j]
           /\ OrdersOfVisits' /\ PaidIsSold' /\ Replayed(key)' # {}
  <1> DEFINE q == NewOrder(S, key, how)
  <1>0. key \in Nat /\ "PENDING" \in OrderStatuses /\ S \in (SUBSET Seats) \ {{}}
    BY DEF CheckoutInv, CheckoutTypes, OrderStatuses
  <1>1. q \in OrderRec /\ q.status = "PENDING" /\ q.key = key
    BY <1>0 DEF NewOrder, OrderRec
  <1>2. orders \in Seq(OrderRec) /\ Len(orders) \in Nat /\ DOMAIN orders = 1 .. Len(orders) /\ key \in Nat
    BY OrderRows DEF CheckoutInv, CheckoutTypes
  <1> HIDE DEF q
  <1>3. orders' = Append(orders, q)
    BY DEF q
  <1>4. /\ orders' \in Seq(OrderRec) /\ Len(orders') = Len(orders) + 1
        /\ DOMAIN orders' = 1 .. Len(orders) + 1
        /\ \A j \in 1 .. Len(orders) : orders'[j] = orders[j]
        /\ orders'[Len(orders) + 1] = q
    BY <1>1, <1>2, <1>3, AppendProperties, LenProperties
  <1>5. Len(orders) + 1 <= key
    <2>1. CASE Len(orders) = 0
      BY <2>1
    <2>2. CASE Len(orders) # 0
      <3>1. Len(orders) \in DOMAIN orders
        BY <2>2, <1>2
      <3>2. Len(orders) <= orders[Len(orders)].key /\ orders[Len(orders)].key <= key
        BY <3>1 DEF CheckoutInv, OrdersOfVisits
      <3>3. orders[Len(orders)].key # key
        BY <3>1 DEF Replayed
      <3>4. orders[Len(orders)].key \in Nat
        BY <3>1, OrderRows DEF CheckoutInv
      <3> QED
        BY <3>2, <3>3, <3>4, <1>2
    <2> QED
      BY <2>1, <2>2
  <1>6. OrdersOfVisits'
    BY <1>1, <1>2, <1>4, <1>5 DEF CheckoutInv, OrdersOfVisits
  <1>7. PaidIsSold'
    BY <1>1, <1>2, <1>4 DEF CheckoutInv, PaidIsSold
  <1>8. Len(orders) + 1 \in Replayed(key)'
    BY <1>1, <1>2, <1>4 DEF Replayed
  <1> QED
    BY <1>2, <1>4, <1>6, <1>7, <1>8

\* Steps that change neither orders nor seats.
LEMMA OrdersStay ==
    ASSUME CheckoutInv, UNCHANGED <<orders, db, mine>>, key' = key \/ key' = key + 1
    PROVE  OrdersOfVisits' /\ PaidIsSold' /\ (key' = key => Replayed(key)' = Replayed(key))
  <1>1. PaidIsSold'
    BY DEF CheckoutInv, PaidIsSold
  <1>2. OrdersOfVisits'
    <2>1. \A k \in DOMAIN orders : orders[k].key \in Nat /\ k <= orders[k].key /\ orders[k].key <= key
      BY OrderRows DEF CheckoutInv, OrdersOfVisits
    <2>2. key \in Nat
      BY DEF CheckoutInv, CheckoutTypes
    <2>3. \A k \in DOMAIN orders : k <= orders[k].key /\ orders[k].key <= key'
      BY <2>1, <2>2
    <2> QED
      BY <2>3 DEF OrdersOfVisits
  <1> QED
    BY <1>1, <1>2 DEF Replayed

-----------------------------------------------------------------------------
(* The checkout pages. *)

\* The seat page does not move while the checkout does.
LEMMA SeatsWait ==
    ASSUME SeatsInv, UNCHANGED seatsPage, page' \in Pages
    PROVE  SeatsInv' /\ UNCHANGED <<db, mine>>
  <1>1. UNCHANGED <<db, mine, changes, feed, conn, drops, wasDown, map, fetch, failed, overtaken,
                    chosen, ask, offered, modal, left, strayed>>
    BY DEF seatsPage, seatServer, channel, view, cached, picks
  <1>2. SeatTypes'
    BY <1>1 DEF SeatsInv, SeatTypes
  <1>3. ViewKept
    BY <1>1 DEF ViewKept
  <1>4. ChannelInv'
    BY <1>1, <1>3, ViewStays DEF SeatsInv
  <1>5. HoldInv'
    BY <1>1 DEF SeatsInv, HoldInv, Known, Granted, ActiveMine
  <1> QED
    BY <1>1, <1>2, <1>4, <1>5 DEF SeatsInv

\* The seat page mounts again.
LEMMA MapOpensAgain ==
    ASSUME SeatsInv, ToMap
    PROVE  SeatsInv' /\ UNCHANGED <<db, mine>>
  <1>1. /\ UNCHANGED <<db, mine, changes, feed, conn, drops, wasDown>> /\ page' \in Pages /\ Mounts
        /\ UNCHANGED <<chosen, ask, offered, modal, left, strayed>>
    BY DEF ToMap, seatServer, channel, picks, Pages
  <1>2. SeatTypes'
    BY <1>1, MountTypes DEF SeatsInv, SeatTypes
  <1>3. ChannelInv'
    BY <1>1, MountAgrees DEF SeatsInv
  <1>4. HoldInv'
    BY <1>1 DEF SeatsInv, HoldInv, Known, Granted, ActiveMine
  <1> QED
    BY <1>1, <1>2, <1>3, <1>4 DEF SeatsInv

\* The customer goes on to the checkout.
LEMMA SeatsAreLeft ==
    ASSUME SeatsInv, Proceed
    PROVE  SeatsInv' /\ UNCHANGED <<db, mine>>
  <1>1. /\ page' \in Pages /\ Unmounts /\ UNCHANGED <<db, mine, changes, drops>>
        /\ (UNCHANGED view) \/ (Empty /\ fetch' = NoFetch)
    BY DEF Proceed, seatServer, Pages
  <1>2. /\ map' \in SeatMap \cup {NoMap} /\ overtaken' \in SUBSET Seats /\ failed' \in BOOLEAN
        /\ fetch' \in Fetch /\ (fetch'.at = "read" => fetch'.snap \in SeatMap)
    BY <1>1, NewMap DEF SeatsInv, SeatTypes, view, cached, Empty
  <1>3. SeatTypes'
    BY <1>1, <1>2, UnmountTypes DEF SeatsInv, SeatTypes
  <1>4. conn' = "CONNECTING" /\ wasDown' = TRUE /\ feed' = <<>>
    BY <1>1 DEF Unmounts
  <1>5. ChannelInv'
    BY <1>1, <1>4, LeftIsQuiet DEF SeatsInv
  <1>6. HoldInv'
    BY <1>1, UnmountStrays DEF SeatsInv
  <1> QED
    BY <1>1, <1>3, <1>5, <1>6 DEF SeatsInv

LEMMA NewCreate == NoCreate \in CreateRec /\ NoCreate.at = "off"
  BY DEF NoCreate, CreateRec

LEMMA CreateMoves ==
    ASSUME NEW c \in CreateRec, c.at # "off", NEW to \in {"asked", "created", "expired", "error"}
    PROVE  /\ c.how \in {"FAKE", "STRIPE"}
           /\ [c EXCEPT !.at = to] \in CreateRec /\ [c EXCEPT !.at = to].at = to
           /\ [c EXCEPT !.at = to, !.fails = 1] \in CreateRec
           /\ [c EXCEPT !.at = to, !.fails = 1].at = to
  <1> DEFINE On == [at : {"asked", "created", "expired", "error"}, fails : {0, 1}, how : {"FAKE", "STRIPE"}]
  <1>1. c \in On
    BY DEF CreateRec
  <1>2. [c EXCEPT !.at = to] \in On /\ [c EXCEPT !.at = to].at = to /\ c.how \in {"FAKE", "STRIPE"}
    BY <1>1
  <1>3. [c EXCEPT !.at = to, !.fails = 1] \in On /\ [c EXCEPT !.at = to, !.fails = 1].at = to
    BY <1>1
  <1> QED
    BY <1>2, <1>3 DEF CreateRec

LEMMA CheckoutBegins ==
    ASSUME BookingInv, Proceed \/ ReloadNew \/ \E how \in {"FAKE", "STRIPE"} : CreateAsks(how)
    PROVE  BookingInv'
  <1> USE DEF BookingInv
  <1>0. SeatsInv /\ CheckoutInv /\ page \in Pages
    BY DEF SeatsInv, SeatTypes
  <1>1. ASSUME Proceed PROVE BookingInv'
    <2>1. /\ page' = "new" /\ page = "seats" /\ visits < MaxVisits /\ nav' = offered
          /\ visits' = visits + 1 /\ key' = key + 1 /\ create' = NoCreate
          /\ UNCHANGED <<orders, reloads, current, seen, secret, pay, polls, retry, sent, deciding, rewritten>>
      BY <1>1 DEF Proceed, Rendered, payments
    <2>2. SeatsInv' /\ UNCHANGED <<db, mine>>
      BY <1>0, <1>1, SeatsAreLeft
    <2>3. CheckoutTypes'
      <3>1. visits \in Nat /\ reloads \in 0 .. MaxReloads /\ key = visits
        BY DEF CheckoutInv, CheckoutTypes
      <3>2. visits' \in Nat /\ key' = visits' /\ visits' <= MaxVisits + reloads'
        BY <2>1, <3>1, BookingAssumption
      <3>3. nav' \in SUBSET Seats
        BY <2>1 DEF SeatsInv, SeatTypes
      <3> QED
        BY <2>1, <3>2, <3>3, NewCreate DEF CheckoutInv, CheckoutTypes
    <2>4. OrdersOfVisits' /\ PaidIsSold'
      BY <2>1, <2>2, OrdersStay
    <2>5. PagesInv' /\ OutcomeShownIsTrue'
      <3>1. key' >= 1
        BY <2>1 DEF CheckoutInv, CheckoutTypes
      <3> QED
        BY <2>1, <3>1, NewCreate DEF CheckoutInv, PagesInv, OutcomeShownIsTrue
    <2> QED
      BY <2>2, <2>3, <2>4, <2>5 DEF CheckoutInv
  <1>2. ASSUME ReloadNew PROVE BookingInv'
    <2>1. /\ page = "new" /\ page' = page /\ reloads < MaxReloads /\ reloads' = reloads + 1
          /\ visits' = visits + 1 /\ key' = key + 1 /\ create' = NoCreate
          /\ UNCHANGED <<orders, nav, current, seen, secret, pay, polls, retry, sent, deciding, rewritten>>
      BY <1>2 DEF ReloadNew, route, payments
    <2>2. UNCHANGED <<db, mine>> /\ SeatsInv'
      BY <1>0, <1>2, <2>1, SeatsWait DEF ReloadNew
    <2>3. SeatsInv'
      BY <2>2
    <2>4. CheckoutTypes'
      <3>1. visits \in Nat /\ reloads \in 0 .. MaxReloads /\ key = visits /\ visits <= MaxVisits + reloads
        BY DEF CheckoutInv, CheckoutTypes
      <3>2. visits' \in Nat /\ key' = visits' /\ visits' <= MaxVisits + reloads' /\ reloads' \in 0 .. MaxReloads
        BY <2>1, <3>1, BookingAssumption
      <3> QED
        BY <2>1, <3>2, NewCreate DEF CheckoutInv, CheckoutTypes
    <2>5. OrdersOfVisits' /\ PaidIsSold'
      BY <2>1, <2>2, OrdersStay
    <2>6. PagesInv' /\ OutcomeShownIsTrue'
      <3>1. key' >= 1
        BY <2>1 DEF CheckoutInv, CheckoutTypes
      <3> QED
        BY <2>1, <3>1, NewCreate DEF CheckoutInv, PagesInv, OutcomeShownIsTrue
    <2> QED
      BY <2>3, <2>4, <2>5, <2>6 DEF CheckoutInv
  <1>3. ASSUME NEW how \in {"FAKE", "STRIPE"}, CreateAsks(how) PROVE BookingInv'
    <2>1. /\ page = "new" /\ UNCHANGED <<page, current, orders, visits, key, reloads, nav, seen, secret, pay, polls, retry>>
          /\ create' = [at |-> "asked", fails |-> 0, how |-> how] /\ UNCHANGED <<sent, deciding, rewritten>>
      BY <1>3 DEF CreateAsks, route, AttemptKey, payments
    <2>2. UNCHANGED <<db, mine>> /\ SeatsInv'
      BY <1>0, <1>3, <2>1, SeatsWait DEF CreateAsks
    <2>3. SeatsInv'
      BY <2>2
    <2>4. create' \in CreateRec /\ create'.at = "asked"
      BY <2>1 DEF CreateRec
    <2>5. CheckoutTypes'
      BY <2>1, <2>4 DEF CheckoutInv, CheckoutTypes
    <2>6. OrdersOfVisits' /\ PaidIsSold'
      BY <2>1, <2>2, OrdersStay
    <2>7. PagesInv' /\ OutcomeShownIsTrue'
      BY <2>1, <2>4 DEF CheckoutInv, PagesInv, OutcomeShownIsTrue
    <2> QED
      BY <2>3, <2>5, <2>6, <2>7 DEF CheckoutInv
  <1> QED
    BY <1>1, <1>2, <1>3

LEMMA CreateGoesOn ==
    ASSUME BookingInv, CreateServed \/ CreateAnswered \/ CreateLost
    PROVE  BookingInv'
  <1> USE DEF BookingInv
  <1>0. create \in CreateRec /\ (create.at # "off" => page = "new") /\ key \in Nat /\ nav \in SUBSET Seats
        /\ (page = "new" => key >= 1) /\ SeatsInv /\ page \in Pages
    BY DEF CheckoutInv, CheckoutTypes, PagesInv, SeatsInv, SeatTypes
  <1>1. ASSUME CreateServed PROVE BookingInv'
    <2>1. /\ create.at = "asked" /\ page = "new"
          /\ UNCHANGED <<page, current, visits, key, reloads, nav, seen, secret, pay, polls, retry>>
          /\ UNCHANGED <<sent, deciding, rewritten>>
      BY <1>1, <1>0 DEF CreateServed, route, loads, payments
    <2>2. UNCHANGED <<db, mine>> /\ SeatsInv'
      BY <1>0, <1>1, <2>1, SeatsWait DEF CreateServed
    <2>3. SeatsInv'
      BY <2>2
    <2>4. \/ UNCHANGED orders /\ create' = [create EXCEPT !.at = "expired"]
          \/ UNCHANGED orders /\ Replayed(key) # {} /\ create' = [create EXCEPT !.at = "created"]
          \/ /\ Replayed(key) = {} /\ nav # {} /\ orders' = Append(orders, NewOrder(nav, key, create.how))
             /\ create' = [create EXCEPT !.at = "created"]
      BY <1>1 DEF CreateServed, HoldsFound, HoldIds
    <2> DEFINE refused == [create EXCEPT !.at = "expired"]
               made == [create EXCEPT !.at = "created"]
    <2>5. /\ create.how \in {"FAKE", "STRIPE"} /\ refused \in CreateRec /\ refused.at = "expired"
          /\ made \in CreateRec /\ made.at = "created"
      BY <2>1, <1>0, CreateMoves
    <2>8. \/ UNCHANGED orders /\ (create' = refused \/ (Replayed(key) # {} /\ create' = made))
          \/ /\ Replayed(key) = {} /\ nav # {} /\ orders' = Append(orders, NewOrder(nav, key, create.how))
             /\ create' = made
      BY <2>4
    <2> HIDE DEF refused, made
    <2>6. CASE UNCHANGED orders /\ (create' = refused \/ (Replayed(key) # {} /\ create' = made))
      <3>1. OrdersOfVisits' /\ PaidIsSold' /\ Replayed(key)' = Replayed(key)
        BY <2>1, <2>2, <2>6, OrdersStay
      <3>2. create' \in CreateRec /\ create'.at \in {"expired", "created"} /\ (create'.at = "created" => Replayed(key) # {})
        BY <2>5, <2>6
      <3>3. CheckoutTypes'
        BY <2>1, <2>6, <3>2 DEF CheckoutInv, CheckoutTypes
      <3>4. PagesInv' /\ OutcomeShownIsTrue'
        BY <2>1, <2>6, <3>1, <3>2 DEF CheckoutInv, PagesInv, OutcomeShownIsTrue
      <3> QED
        BY <2>3, <3>1, <3>3, <3>4 DEF CheckoutInv
    <2>7. CASE /\ Replayed(key) = {} /\ nav # {} /\ orders' = Append(orders, NewOrder(nav, key, create.how))
               /\ create' = made
      <3>1. /\ orders' \in Seq(OrderRec) /\ Len(orders') = Len(orders) + 1
            /\ \A j \in DOMAIN orders : j \in DOMAIN orders' /\ orders'[j] = orders[j]
            /\ OrdersOfVisits' /\ PaidIsSold' /\ Replayed(key)' # {}
        BY <2>1, <2>2, <2>5, <2>7, <1>0, OrderCreated
      <3>2. create' \in CreateRec /\ create'.at = "created"
        BY <2>5, <2>7
      <3>3. current \in 0 .. Len(orders) /\ Len(orders) \in Nat
        BY OrderRows DEF CheckoutInv, CheckoutTypes
      <3>4. current' \in 0 .. Len(orders')
        BY <3>1, <3>3, <2>1
      <3>5. CheckoutTypes'
        <4>1. DOMAIN orders \subseteq DOMAIN orders'
          BY <3>1
        <4>2. /\ (sent \cup deciding)' \subseteq (DOMAIN orders') \X Outcomes
              /\ rewritten' \subseteq DOMAIN orders'
          BY <4>1, <2>1 DEF CheckoutInv, CheckoutTypes
        <4> QED
          BY <2>1, <3>1, <3>2, <3>4, <4>2 DEF CheckoutInv, CheckoutTypes
      <3>6. PagesInv' /\ OutcomeShownIsTrue'
        BY <2>1, <3>1, <3>2 DEF CheckoutInv, PagesInv, OutcomeShownIsTrue
      <3> QED
        BY <2>3, <3>1, <3>5, <3>6 DEF CheckoutInv
    <2> QED
      BY <2>8, <2>6, <2>7
  <1>2. ASSUME CreateAnswered PROVE BookingInv'
    <2>1. /\ create.at \in {"created", "expired"} /\ page = "new" /\ nav' = {} /\ create' = NoCreate
          /\ UNCHANGED <<orders, visits, key, reloads, pay, polls, retry, sent, deciding, rewritten>>
      BY <1>2, <1>0 DEF CreateAnswered, loads, payments
    <2>2. UNCHANGED <<db, mine>> /\ SeatsInv'
      <3>1. ToMap \/ (UNCHANGED seatsPage /\ page' = "order")
        BY <1>2 DEF CreateAnswered
      <3> QED
        BY <1>0, <3>1, SeatsWait, MapOpensAgain DEF Pages
    <2>3. OrdersOfVisits' /\ PaidIsSold' /\ Replayed(key)' = Replayed(key)
      BY <2>1, <2>2, OrdersStay
    <2>4. CASE create.at = "created"
      <3>1. page' = "order" /\ current' = (CHOOSE k \in Replayed(key) : TRUE) /\ secret' = TRUE /\ seen' = "none"
        BY <1>2, <2>4 DEF CreateAnswered
      <3>2. current' \in Replayed(key)
        BY <3>1, <2>4 DEF CheckoutInv, PagesInv
      <3>3. current' \in 1 .. Len(orders)
        BY <3>2, OrderRows DEF CheckoutInv, Replayed
      <3>4. SeatsInv'
        BY <2>2
      <3>7. current' \in 0 .. Len(orders') /\ current' >= 1
        BY <3>3, <2>1, OrderRows DEF CheckoutInv
      <3>5. CheckoutTypes'
        BY <3>1, <3>7, <2>1, NewCreate DEF CheckoutInv, CheckoutTypes
      <3>6. PagesInv' /\ OutcomeShownIsTrue'
        BY <3>1, <3>7, <2>1, <2>3, <1>0, NewCreate DEF CheckoutInv, PagesInv, OutcomeShownIsTrue, Final
      <3> QED
        BY <2>3, <3>4, <3>5, <3>6 DEF CheckoutInv
    <2>5. CASE create.at = "expired"
      <3>1. page' = "seats" /\ UNCHANGED <<current, seen, secret>>
        BY <1>2, <2>5 DEF CreateAnswered, ToMap
      <3>2. SeatsInv'
        BY <2>2
      <3>3. CheckoutTypes'
        BY <3>1, <2>1, NewCreate DEF CheckoutInv, CheckoutTypes
      <3>4. PagesInv' /\ OutcomeShownIsTrue'
        BY <3>1, <2>1, NewCreate DEF CheckoutInv, PagesInv, OutcomeShownIsTrue
      <3> QED
        BY <2>3, <3>2, <3>3, <3>4 DEF CheckoutInv
    <2> QED
      BY <2>1, <2>4, <2>5
  <1>3. ASSUME CreateLost PROVE BookingInv'
    <2>1. /\ create.at # "off" /\ page = "new"
          /\ UNCHANGED <<page, current, orders, visits, key, reloads, nav, seen, secret, pay, polls, retry>>
          /\ UNCHANGED <<sent, deciding, rewritten>>
          /\ \/ create' = [create EXCEPT !.at = "asked", !.fails = 1]
             \/ create' = [create EXCEPT !.at = "error"]
      BY <1>3, <1>0 DEF CreateLost, route, loads, payments
    <2>2. UNCHANGED <<db, mine>> /\ SeatsInv'
      BY <1>0, <1>3, <2>1, SeatsWait DEF CreateLost
    <2>3. SeatsInv'
      BY <2>2
    <2>4. create' \in CreateRec /\ create'.at \in {"asked", "error"}
      <3>1. [create EXCEPT !.at = "asked", !.fails = 1] \in CreateRec /\ [create EXCEPT !.at = "asked", !.fails = 1].at = "asked"
        BY <2>1, <1>0, CreateMoves
      <3>2. [create EXCEPT !.at = "error"] \in CreateRec /\ [create EXCEPT !.at = "error"].at = "error"
        BY <2>1, <1>0, CreateMoves
      <3> QED
        BY <2>1, <3>1, <3>2
    <2>5. OrdersOfVisits' /\ PaidIsSold'
      BY <2>1, <2>2, OrdersStay
    <2>6. CheckoutTypes'
      BY <2>1, <2>4 DEF CheckoutInv, CheckoutTypes
    <2>7. PagesInv' /\ OutcomeShownIsTrue'
      BY <2>1, <2>4 DEF CheckoutInv, PagesInv, OutcomeShownIsTrue
    <2> QED
      BY <2>3, <2>5, <2>6, <2>7 DEF CheckoutInv
  <1> QED
    BY <1>1, <1>2, <1>3

-----------------------------------------------------------------------------
(* An order is settled, by whomever: the pages that follow it do not move. *)

\* What is known of the order a page follows.
LEMMA OrderFollowed ==
    ASSUME CheckoutInv, page \in {"order", "return"}
    PROVE  current \in DOMAIN orders /\ Order.status \in OrderStatuses /\ Order.seats \in SUBSET Seats
  <1>1. CheckoutTypes /\ current >= 1 /\ current \in 0 .. Len(orders)
    BY DEF CheckoutInv, CheckoutTypes, PagesInv
  <1>2. current \in DOMAIN orders
    BY <1>1, OrderRows
  <1> QED
    BY <1>1, <1>2, OrderRows DEF Order

\* The order a page shows as settled is only rewritten with the mark of it.
LEMMA SettledIsMarked ==
    ASSUME CheckoutInv, NEW k \in DOMAIN orders, NEW to \in OrderStatuses, SetStatus(k, to),
           rewritten \subseteq rewritten', orders[k].status \in {"PENDING", to} \/ k \in rewritten',
           SoldStays, UNCHANGED <<page, current, seen>>
    PROVE  OutcomeShownIsTrue'
  <1> SUFFICES ASSUME page \in {"order", "return"}, seen \in Final
               PROVE  /\ orders'[current].status = seen \/ current \in rewritten'
                      /\ seen = "PAID" => \A s \in orders'[current].seats : db'[s] = "SOLD" /\ s \in mine'
    BY DEF OutcomeShownIsTrue, Order
  <1>1. /\ orders[current].status = seen \/ current \in rewritten
        /\ seen = "PAID" => \A s \in orders[current].seats : db[s] = "SOLD" /\ s \in mine
    BY DEF CheckoutInv, OutcomeShownIsTrue, Order
  <1>2. current \in DOMAIN orders /\ orders[current].seats \in SUBSET Seats
    BY OrderFollowed DEF Order
  <1>3. /\ orders'[current].seats = orders[current].seats
        /\ orders'[current].status = IF current = k THEN to ELSE orders[current].status
    BY <1>2, StatusSet DEF CheckoutInv
  <1>4. seen = "PAID" => \A s \in orders'[current].seats : db'[s] = "SOLD" /\ s \in mine'
    BY <1>1, <1>2, <1>3 DEF SoldStays
  <1>5. seen # "PENDING"
    BY DEF Final
  <1>6. orders'[current].status = seen \/ current \in rewritten'
    BY <1>1, <1>3, <1>5
  <1> QED
    BY <1>4, <1>6

LEMMA SettledInv ==
    ASSUME BookingInv, NEW k \in DOMAIN orders, NEW to \in OrderStatuses, SetStatus(k, to),
           rewritten' \in {rewritten, rewritten \cup {k}},
           orders[k].status \in {"PENDING", to} \/ k \in rewritten',
           PaidIsSold', SeatsInv', SoldStays,
           UNCHANGED <<route, loads, nav, create, seen, secret, polls, retry>>,
           pay' \in PayRec, pay'.at # "none" => pay.at # "none",
           sent' \subseteq sent, deciding' \subseteq deciding
    PROVE  BookingInv'
  <1>1. CheckoutInv /\ UNCHANGED <<page, current, visits, key, reloads, nav, create, seen, secret, polls, retry>>
    BY DEF BookingInv, route, loads
  <1>2. /\ orders' \in Seq(OrderRec) /\ Len(orders') = Len(orders) /\ DOMAIN orders' = DOMAIN orders
        /\ \A j \in DOMAIN orders : orders'[j].how = orders[j].how
    BY <1>1, StatusSet DEF CheckoutInv
  <1>3. OrdersOfVisits' /\ Replayed(key)' = Replayed(key)
    BY <1>1, StatusKeepsKeys DEF CheckoutInv
  <1>4. CheckoutTypes'
    <2>1. (sent \cup deciding)' \subseteq (DOMAIN orders') \X Outcomes /\ rewritten' \subseteq DOMAIN orders'
      BY <1>1, <1>2 DEF CheckoutInv, CheckoutTypes
    <2> QED
      BY <1>1, <1>2, <2>1 DEF CheckoutInv, CheckoutTypes
  <1>5. PagesInv'
    <2>1. pay'.at # "none" => page = "order" /\ seen = "PENDING" /\ Order.how = "FAKE"
      BY <1>1 DEF CheckoutInv, PagesInv
    <2>2. page = "order" => Order'.how = Order.how
      BY <1>1, <1>2, OrderFollowed DEF Order
    <2> QED
      BY <1>1, <1>3, <2>1, <2>2 DEF CheckoutInv, PagesInv
  <1>6. OutcomeShownIsTrue'
    BY <1>1, SettledIsMarked
  <1> QED
    BY <1>3, <1>4, <1>5, <1>6 DEF BookingInv, CheckoutInv

\* A step of these pages is right if the page it shows is, with what it says.
LEMMA PageMoves ==
    ASSUME BookingInv, SeatsInv', UNCHANGED <<db, mine, orders, visits, key, nav, create, current, rewritten>>,
           page = "new" => page' = "new", page' # "seats" => page # "seats",
           page' \in {"order", "return"} => page \in {"order", "return"},
           reloads' \in 0 .. MaxReloads /\ reloads' >= reloads, polls' \in 0 .. POLLS, secret' \in BOOLEAN,
           seen' \in OrderStatuses \cup {"none"},
           page' \in {"order", "return"} => seen' \in {seen, Order.status, "none"},
           pay' \in PayRec, pay'.at # "none" => page' = "order" /\ seen' = "PENDING" /\ Order.how = "FAKE",
           (sent \cup deciding)' \subseteq (DOMAIN orders) \X Outcomes,
           retry'.at \in {"none", "asked", "refused"}, retry'.at = "asked" => page' = "return"
    PROVE  BookingInv'
  <1>0. SeatsInv /\ CheckoutInv
    BY DEF BookingInv
  <1>2. OrdersOfVisits' /\ PaidIsSold' /\ Replayed(key)' = Replayed(key)
    BY <1>0, OrdersStay
  <1>3. CheckoutTypes'
    <2>1. visits <= MaxVisits + reloads /\ visits \in Nat /\ reloads \in 0 .. MaxReloads
      BY <1>0 DEF CheckoutInv, CheckoutTypes
    <2>3. reloads' \in Nat /\ reloads \in Nat /\ MaxVisits \in Nat /\ reloads' >= reloads
      BY <2>1, BookingAssumption
    <2>4. \A a, b, v, m \in Nat : v <= m + a /\ b >= a => v <= m + b
      OBVIOUS
    <2>2. visits <= MaxVisits + reloads'
      BY <2>1, <2>3, <2>4
    <2> QED
      BY <1>0, <2>2 DEF CheckoutInv, CheckoutTypes
  <1>4. PagesInv'
    BY <1>0, <1>2 DEF CheckoutInv, PagesInv, Order
  <1>5. OutcomeShownIsTrue'
    <2> SUFFICES ASSUME page' \in {"order", "return"}, seen' \in Final
                 PROVE  /\ Order.status = seen' \/ current \in rewritten
                        /\ seen' = "PAID" => \A s \in Order.seats : db[s] = "SOLD" /\ s \in mine
      BY DEF OutcomeShownIsTrue, Order
    <2>1. current \in DOMAIN orders
      BY <1>0, OrderFollowed
    <2>2. Order.status = "PAID" => \A s \in Order.seats : db[s] = "SOLD" /\ s \in mine
      BY <1>0, <2>1 DEF CheckoutInv, PaidIsSold, Order
    <2>3. seen' = seen \/ seen' = Order.status
      BY DEF Final
    <2> QED
      BY <1>0, <2>2, <2>3 DEF CheckoutInv, OutcomeShownIsTrue
  <1> QED
    BY <1>2, <1>3, <1>4, <1>5 DEF BookingInv, CheckoutInv

\* What becomes of the payments of an order.
LEMMA PaymentTypes ==
    ASSUME CheckoutInv
    PROVE  /\ pay \in PayRec /\ (sent \cup deciding) \subseteq (DOMAIN orders) \X Outcomes
           /\ \A k, to, at : PayEnds(k, to, at) /\ at \in {"done", "error"} =>
                 pay' \in PayRec /\ (pay'.at # "none" => pay.at # "none")
           /\ \A k \in DOMAIN orders, to \in Outcomes : Decides(k, to) \subseteq (DOMAIN orders) \X Outcomes
           /\ \A k, to : <<k, to>> \in sent \cup deciding => k \in DOMAIN orders /\ to \in Outcomes
           /\ Outcomes \subseteq OrderStatuses
  <1>1. pay \in PayRec /\ (sent \cup deciding) \subseteq (DOMAIN orders) \X Outcomes
    BY DEF CheckoutInv, CheckoutTypes
  <1>2. ASSUME NEW k, NEW to, NEW at \in {"done", "error"}, PayEnds(k, to, at)
        PROVE  pay' \in PayRec /\ (pay'.at # "none" => pay.at # "none")
    <2>1. CASE pay' = pay
      BY <1>1, <2>1
    <2>2. CASE pay' # pay
      <3>1. pay.at = "read" /\ pay' = [pay EXCEPT !.at = at]
        BY <1>2, <2>2 DEF PayEnds
      <3> QED
        BY <1>1, <3>1 DEF PayRec
    <2> QED
      BY <2>1, <2>2
  <1>3. ASSUME NEW k \in DOMAIN orders, NEW to \in Outcomes
        PROVE  Decides(k, to) \subseteq (DOMAIN orders) \X Outcomes
    BY <1>1 DEF Decides
  <1>4. Outcomes \subseteq OrderStatuses
    BY DEF Outcomes, OrderStatuses, Final
  <1> QED
    BY <1>1, <1>2, <1>3, <1>4

LEMMA PaymentKept ==
    ASSUME BookingInv, NEW k \in DOMAIN orders, NEW to \in Outcomes, PaymentCommits(k, to)
    PROVE  BookingInv'
  <1>0. SeatsInv /\ CheckoutInv /\ page \in Pages
    BY DEF BookingInv, SeatsInv, SeatTypes
  <1>1. /\ UNCHANGED <<changes, conn, drops, wasDown, cached, picks, route, loads, nav, create, seen, secret,
                       polls, retry, sent>>
        /\ deciding' \subseteq deciding
        /\ PayEnds(k, to, "done") \/ PayEnds(k, to, "error")
    BY DEF PaymentCommits
  <1>2. pay' \in PayRec /\ (pay'.at # "none" => pay.at # "none")
    BY <1>0, <1>1, PaymentTypes
  <1>3. page' = page /\ current' = current
    BY <1>1 DEF route
  <1>4. to \in OrderStatuses
    BY <1>0, PaymentTypes
  <1>5. ASSUME Settles(k, to)
        PROVE  /\ SetStatus(k, to) /\ rewritten' \in {rewritten, rewritten \cup {k}}
               /\ orders[k].status \in {"PENDING", to} \/ k \in rewritten'
    BY <1>5 DEF Settles
  <1>6. CASE to = "PAID" /\ Confirms(k)
    <2>1. /\ db' \in [Seats -> Status] /\ feed' \in Seq(Patch) /\ mine' \in SUBSET Seats
          /\ fetch' \in Fetch /\ (fetch'.at = "read" => fetch'.snap \in SeatMap)
          /\ ChannelInv' /\ PaidIsSold' /\ ActiveMine' \subseteq ActiveMine /\ SoldStays
      BY <1>0, <1>1, <1>6, SalePays DEF SeatsInv, CheckoutInv
    <2>2. SeatTypes'
      BY <1>0, <1>1, <1>3, <2>1 DEF SeatsInv, SeatTypes, cached, picks
    <2>3. HoldInv'
      BY <1>0, <1>1, <2>1, FewerHolds DEF SeatsInv
    <2>4. SeatsInv'
      BY <2>1, <2>2, <2>3 DEF SeatsInv
    <2>5. Settles(k, to)
      BY <1>6 DEF Confirms
    <2> QED
      BY <1>1, <1>2, <1>4, <1>5, <2>1, <2>4, <2>5, SettledInv
  <1>7. CASE to = "FAILED" /\ Declines(k)
    <2>1. Settles(k, to) /\ UNCHANGED <<db, feed, fetch, mine>>
      BY <1>7 DEF Declines
    <2>2. UNCHANGED seatsPage
      BY <1>1, <2>1 DEF seatsPage, seatServer, channel, view
    <2>3. SeatsInv' /\ SoldStays
      BY <1>0, <1>3, <2>1, <2>2, SeatsWait DEF SoldStays
    <2>4. PaidIsSold'
      <3>1. /\ DOMAIN orders' = DOMAIN orders
            /\ \A j \in DOMAIN orders :
                 /\ orders'[j].seats = orders[j].seats
                 /\ orders'[j].status = IF j = k THEN to ELSE orders[j].status
        BY <1>0, <1>4, <1>5, <2>1, StatusSet DEF CheckoutInv
      <3> QED
        BY <1>0, <1>7, <2>1, <3>1 DEF CheckoutInv, PaidIsSold
    <2> QED
      BY <1>1, <1>2, <1>4, <1>5, <2>1, <2>3, <2>4, SettledInv
  <1>8. CASE RollsBack(k)
    <2>1. UNCHANGED <<orders, rewritten, db, feed, fetch, mine>>
      BY <1>8 DEF RollsBack
    <2>2. UNCHANGED <<seatsPage, visits, key, reloads, nav, create, seen, secret, polls, retry, sent>>
      BY <1>1, <2>1 DEF seatsPage, seatServer, channel, view, loads
    <2>3. SeatsInv'
      BY <1>0, <1>3, <2>2, SeatsWait
    <2>4. /\ pay'.at # "none" => page = "order" /\ seen = "PENDING" /\ Order.how = "FAKE"
          /\ retry.at = "asked" => page = "return"
      BY <1>0, <1>2 DEF CheckoutInv, PagesInv
    <2>5. (sent \cup deciding)' \subseteq (DOMAIN orders) \X Outcomes
      BY <1>0, <1>1, <2>2, PaymentTypes
    <2>6. /\ reloads \in 0 .. MaxReloads /\ reloads >= reloads /\ polls \in 0 .. POLLS /\ secret \in BOOLEAN
          /\ seen \in OrderStatuses \cup {"none"} /\ retry.at \in {"none", "asked", "refused"}
      BY <1>0, BookingAssumption DEF CheckoutInv, CheckoutTypes
    <2> QED
      BY <1>2, <1>3, <2>1, <2>2, <2>3, <2>4, <2>5, <2>6, PageMoves
  <1> QED
    BY <1>6, <1>7, <1>8 DEF PaymentCommits

LEMMA OrderMoves ==
    ASSUME BookingInv,
           \/ \E k \in DOMAIN orders :
                 OrderExpires(k) \/ \E to \in Outcomes : Webhook(k, to) \/ PaymentCommits(k, to)
           \/ PayServed
    PROVE  BookingInv'
  <1>0. SeatsInv /\ CheckoutInv /\ page \in Pages
    BY DEF BookingInv, SeatsInv, SeatTypes
  <1>t. /\ reloads \in 0 .. MaxReloads /\ reloads >= reloads /\ polls \in 0 .. POLLS /\ secret \in BOOLEAN
        /\ seen \in OrderStatuses \cup {"none"} /\ retry.at \in {"none", "asked", "refused"}
        /\ (pay.at # "none" => page = "order" /\ seen = "PENDING" /\ Order.how = "FAKE")
        /\ (retry.at = "asked" => page = "return")
    BY <1>0, BookingAssumption DEF CheckoutInv, CheckoutTypes, PagesInv
  <1>1. ASSUME NEW k \in DOMAIN orders, NEW to \in Outcomes, Webhook(k, to) PROVE BookingInv'
    <2>1. /\ UNCHANGED <<seatsPage, page, current, orders, visits, key, reloads, nav, create, seen, secret,
                         pay, polls, retry, rewritten>>
          /\ sent' \subseteq sent /\ deciding' = Decides(k, to)
      BY <1>1 DEF Webhook, route, loads
    <2>2. SeatsInv' /\ UNCHANGED <<db, mine>>
      BY <1>0, <2>1, SeatsWait
    <2>3. pay \in PayRec /\ (sent \cup deciding)' \subseteq (DOMAIN orders) \X Outcomes
      BY <1>0, <2>1, PaymentTypes
    <2> QED
      BY <1>t, <2>1, <2>2, <2>3, PageMoves
  <1>2. ASSUME NEW k \in DOMAIN orders, OrderExpires(k) PROVE BookingInv'
    <2>1. /\ orders[k].status = "PENDING" /\ SetStatus(k, "EXPIRED") /\ "EXPIRED" \in OrderStatuses
          /\ UNCHANGED <<seatsPage, page, route, loads, nav, create, seen, secret, pay, polls, retry>>
          /\ UNCHANGED <<sent, deciding, rewritten>>
      BY <1>2 DEF OrderExpires, OrderStatuses, Final, route, payments
    <2>2. SeatsInv' /\ UNCHANGED <<db, mine>>
      BY <1>0, <2>1, SeatsWait
    <2>3. SoldStays
      BY <2>2 DEF SoldStays
    <2>4. PaidIsSold'
      <3>1. /\ DOMAIN orders' = DOMAIN orders
            /\ \A j \in DOMAIN orders :
                 /\ orders'[j].seats = orders[j].seats
                 /\ orders'[j].status = IF j = k THEN "EXPIRED" ELSE orders[j].status
        BY <1>0, <2>1, StatusSet DEF CheckoutInv
      <3> QED
        BY <1>0, <2>2, <3>1 DEF CheckoutInv, PaidIsSold
    <2>5. pay \in PayRec
      BY <1>0, PaymentTypes
    <2> QED
      BY <2>1, <2>2, <2>3, <2>4, <2>5, SettledInv
  <1>3. ASSUME PayServed PROVE BookingInv'
    <2>1. /\ pay.at = "asked" /\ deciding' = Decides(current, pay.to)
          /\ \/ pay' = [pay EXCEPT !.at = "read"]
             \/ pay' = [pay EXCEPT !.at = "error"]
          /\ UNCHANGED <<seatsPage, page, current, orders, visits, key, reloads, nav, create, seen, secret,
                         polls, retry, sent, rewritten>>
      BY <1>3 DEF PayServed, route, loads
    <2>2. SeatsInv' /\ UNCHANGED <<db, mine>>
      BY <1>0, <2>1, SeatsWait
    <2>3. current \in DOMAIN orders
      BY <1>0, <1>t, <2>1, OrderFollowed
    <2>4. pay \in PayRec /\ pay.to \in Outcomes
      BY <1>0, PaymentTypes DEF PayRec
    <2>5. pay' \in PayRec
      BY <2>1, <2>4 DEF PayRec
    <2>6. (sent \cup deciding)' \subseteq (DOMAIN orders) \X Outcomes
      BY <1>0, <2>1, <2>3, <2>4, PaymentTypes
    <2>7. page = "order" /\ seen = "PENDING" /\ Order.how = "FAKE"
      BY <1>t, <2>1
    <2> QED
      BY <1>t, <2>1, <2>2, <2>5, <2>6, <2>7, PageMoves
  <1> QED
    BY <1>1, <1>2, <1>3, PaymentKept

-----------------------------------------------------------------------------
(* The pages of an order. *)

\* What the steps of these pages start from.
LEMMA PageTypes ==
    ASSUME BookingInv
    PROVE  /\ SeatsInv /\ CheckoutInv /\ page \in Pages /\ pay \in PayRec
           /\ polls \in 0 .. POLLS /\ reloads \in 0 .. MaxReloads /\ reloads >= reloads /\ secret \in BOOLEAN
           /\ seen \in OrderStatuses \cup {"none"} /\ retry.at \in {"none", "asked", "refused"}
           /\ (pay.at # "none" => page = "order" /\ seen = "PENDING" /\ Order.how = "FAKE")
           /\ (retry.at = "asked" => page = "return")
           /\ (sent \cup deciding) \subseteq (DOMAIN orders) \X Outcomes
           /\ 0 \in 0 .. POLLS /\ "none" \in OrderStatuses \cup {"none"}
           /\ NoPay \in PayRec /\ NoPay.at = "none"
  <1>1. 0 \in 0 .. POLLS /\ NoPay \in PayRec /\ NoPay.at = "none"
    BY DEF POLLS, NoPay, PayRec, Outcomes
  <1> QED
    BY <1>1, BookingAssumption DEF BookingInv, CheckoutInv, CheckoutTypes, PagesInv, SeatsInv, SeatTypes

LEMMA PagesOfOrder ==
    ASSUME BookingInv, OrderRead \/ ReloadOrder \/ PayAnswered \/ \E to \in Outcomes : Pay(to) \/ StripePays(to)
    PROVE  BookingInv'
  <1>p. Pages = {"seats", "new", "order", "return"}
    BY DEF Pages
  <1>0. SeatsInv /\ CheckoutInv /\ page \in Pages /\ pay \in PayRec
    BY PageTypes
  <1>1. ASSUME OrderRead PROVE BookingInv'
    <2>1. /\ page = "order" /\ seen = "none" /\ seen' = Order.status
          /\ \/ UNCHANGED <<page, polls>>
             \/ page' = "return" /\ polls' = 0
          /\ UNCHANGED <<seatsPage, orders, loads, nav, create, current, secret, pay, retry>>
          /\ UNCHANGED <<sent, deciding, rewritten, visits, key, reloads>>
      BY <1>1 DEF OrderRead, GoReturn, payments, loads
    <2>2. seen' \in OrderStatuses
      BY <2>1, <1>0, OrderFollowed
    <2>3. pay.at = "none" /\ retry.at # "asked"
      BY <2>1, PageTypes
    <2>4. SeatsInv' /\ UNCHANGED <<db, mine>>
      BY <1>0, <1>p, <2>1, SeatsWait
    <2> QED
      BY <2>1, <2>2, <2>3, <2>4, PageTypes, PageMoves
  <1>2. ASSUME ReloadOrder PROVE BookingInv'
    <2>1. /\ reloads < MaxReloads /\ reloads' = reloads + 1 /\ pay.at = "none" /\ retry.at # "asked"
          /\ page \in {"order", "return"} /\ secret' = FALSE /\ seen' = "none" /\ polls' = 0
          /\ UNCHANGED <<seatsPage, page, current, orders, visits, key, nav, create, pay, retry>>
          /\ UNCHANGED <<sent, deciding, rewritten>>
      BY <1>2 DEF ReloadOrder, route, payments
    <2>2. reloads' \in 0 .. MaxReloads /\ reloads' >= reloads
      BY <2>1, PageTypes, BookingAssumption
    <2>4. SeatsInv' /\ UNCHANGED <<db, mine>>
      BY <1>0, <2>1, SeatsWait
    <2> QED
      BY <2>1, <2>2, <2>4, PageTypes, PageMoves
  <1>3. ASSUME NEW to \in Outcomes, Pay(to) PROVE BookingInv'
    <2>1. /\ page = "order" /\ seen = "PENDING" /\ Order.how = "FAKE" /\ pay' = [at |-> "asked", to |-> to]
          /\ UNCHANGED <<seatsPage, page, current, orders, nav, create, seen, secret, polls, retry>>
          /\ UNCHANGED <<sent, deciding, rewritten, visits, key, reloads>>
      BY <1>3 DEF Pay, route, payments, loads
    <2>2. pay' \in PayRec
      BY <2>1 DEF PayRec
    <2>4. SeatsInv' /\ UNCHANGED <<db, mine>>
      BY <1>0, <2>1, SeatsWait
    <2> QED
      BY <2>1, <2>2, <2>4, PageTypes, PageMoves
  <1>4. ASSUME PayAnswered PROVE BookingInv'
    <2>1. /\ pay.at # "none" /\ pay' = NoPay
          /\ \/ UNCHANGED <<page, polls>>
             \/ page' = "return" /\ polls' = 0
          /\ UNCHANGED <<seatsPage, orders, nav, create, current, seen, secret, retry>>
          /\ UNCHANGED <<sent, deciding, rewritten, visits, key, reloads>>
      BY <1>4, PageTypes DEF PayAnswered, GoReturn, payments, loads
    <2>2. page = "order" /\ retry.at # "asked"
      BY <2>1, PageTypes
    <2>4. SeatsInv' /\ UNCHANGED <<db, mine>>
      BY <1>0, <1>p, <2>1, SeatsWait
    <2> QED
      BY <2>1, <2>2, <2>4, PageTypes, PageMoves
  <1>5. ASSUME NEW to \in Outcomes, StripePays(to) PROVE BookingInv'
    <2>1. /\ page = "order" /\ seen = "PENDING" /\ Order.how = "STRIPE" /\ sent' = sent \cup {<<current, to>>}
          /\ \/ page' = "return" /\ polls' = 0
             \/ UNCHANGED <<page, polls>>
          /\ UNCHANGED <<seatsPage, orders, nav, create, current, secret, pay, retry, seen>>
          /\ UNCHANGED <<deciding, rewritten, visits, key, reloads>>
      BY <1>5 DEF StripePays, GoReturn, SeenAfterCard, loads
    <2>2. pay.at = "none" /\ retry.at # "asked"
      <3>1. Order.how # "FAKE" /\ page # "return"
        BY <2>1
      <3> QED
        BY <3>1, PageTypes
    <2>3. (sent \cup deciding)' \subseteq (DOMAIN orders) \X Outcomes
      <3>1. current \in DOMAIN orders
        BY <1>0, <2>1, OrderFollowed
      <3> QED
        BY <2>1, <3>1, PageTypes
    <2>4. SeatsInv' /\ UNCHANGED <<db, mine>>
      BY <1>0, <1>p, <2>1, SeatsWait
    <2> QED
      BY <2>1, <2>2, <2>3, <2>4, PageTypes, PageMoves
  <1> QED
    BY <1>1, <1>2, <1>3, <1>4, <1>5

LEMMA PagesOfReturn ==
    ASSUME BookingInv,
           Polls \/ ReturnRead \/ CheckAgain \/ RetryAsks \/ RetryServed \/ BackToMap
    PROVE  BookingInv'
  <1>0. SeatsInv /\ CheckoutInv /\ page \in Pages /\ pay \in PayRec
    BY PageTypes
  <1>1. ASSUME Polls \/ ReturnRead \/ CheckAgain PROVE BookingInv'
    <2>1. /\ page = "return" /\ seen' \in {seen, Order.status}
          /\ UNCHANGED <<seatsPage, page, current, orders, nav, create, secret, pay, retry>>
          /\ UNCHANGED <<sent, deciding, rewritten, visits, key, reloads>>
      BY <1>1 DEF Polls, ReturnRead, CheckAgain, route, payments, loads
    <2>2. polls' \in 0 .. POLLS
      BY <1>1, PageTypes DEF Polls, ReturnRead, CheckAgain, PollCount, POLLS
    <2>3. seen' \in OrderStatuses \cup {"none"}
      BY <1>0, <2>1, OrderFollowed, PageTypes
    <2>4. SeatsInv' /\ UNCHANGED <<db, mine>>
      BY <1>0, <2>1, SeatsWait
    <2>5. pay.at = "none"
      BY <2>1, PageTypes
    <2> QED
      BY <2>1, <2>2, <2>3, <2>4, <2>5, PageTypes, PageMoves
  <1>2. ASSUME RetryAsks PROVE BookingInv'
    <2>1. /\ page = "return" /\ retry'.at = "asked"
          /\ UNCHANGED <<seatsPage, page, current, orders, nav, create, seen, secret, pay, polls>>
          /\ UNCHANGED <<sent, deciding, rewritten, visits, key, reloads>>
      BY <1>2 DEF RetryAsks, route, payments, loads
    <2>2. pay.at = "none"
      BY <2>1, PageTypes
    <2>4. SeatsInv' /\ UNCHANGED <<db, mine>>
      BY <1>0, <2>1, SeatsWait
    <2> QED
      BY <2>1, <2>2, <2>4, PageTypes, PageMoves
  <1>3. ASSUME RetryServed PROVE BookingInv'
    <2>1. /\ retry.at = "asked" /\ page' = "seats" /\ retry'.at = "refused" /\ ToMap
          /\ UNCHANGED <<orders, nav, create, current, seen, secret, pay, polls>>
          /\ UNCHANGED <<sent, deciding, rewritten, visits, key, reloads>>
      BY <1>3 DEF RetryServed, ToMap, payments, loads
    <2>2. page = "return" /\ pay.at = "none"
      BY <2>1, PageTypes
    <2>4. SeatsInv' /\ UNCHANGED <<db, mine>>
      BY <1>0, <2>1, MapOpensAgain
    <2> QED
      BY <2>1, <2>2, <2>4, PageTypes, PageMoves
  <1>4. ASSUME BackToMap PROVE BookingInv'
    <2>1. /\ page \in {"order", "return"} /\ pay.at = "none" /\ retry.at # "asked"
          /\ page' = "seats" /\ ToMap /\ seen' = "none" /\ secret' = FALSE /\ polls' = 0
          /\ UNCHANGED <<orders, nav, create, current, pay, retry>>
          /\ UNCHANGED <<sent, deciding, rewritten, visits, key, reloads>>
      BY <1>4 DEF BackToMap, ToMap, payments, loads
    <2>4. SeatsInv' /\ UNCHANGED <<db, mine>>
      BY <1>0, <2>1, MapOpensAgain
    <2> QED
      BY <2>1, <2>4, PageTypes, PageMoves
  <1> QED
    BY <1>1, <1>2, <1>3, <1>4

-----------------------------------------------------------------------------
(* The theorems. *)

LEMMA NoElements ==
    ASSUME NEW S
    PROVE  <<>> \in Seq(S) /\ DOMAIN <<>> = {} /\ Len(<<>>) = 0
  OBVIOUS

LEMMA InitBooks == Init => BookingInv
  <1> SUFFICES ASSUME Init PROVE BookingInv
    OBVIOUS
  <1>0. /\ db \in [Seats -> {"FREE", "HELD"}] /\ mine = {} /\ changes = 0
        /\ feed = <<>> /\ conn = "CONNECTING" /\ drops = 0 /\ wasDown = TRUE
        /\ map = NoMap /\ fetch = Asked /\ failed = FALSE /\ overtaken = {}
        /\ chosen = {} /\ ask = NoAsk /\ offered = {} /\ modal = FALSE /\ strayed = {} /\ left = {}
        /\ page = "seats"
    BY DEF Init, SeatsInit
  <1>i. /\ orders = <<>> /\ visits = 0 /\ key = 0 /\ reloads = 0 /\ nav = {} /\ create = NoCreate
        /\ current = 0 /\ seen = "none" /\ secret = FALSE /\ pay = NoPay /\ polls = 0
        /\ sent = {} /\ deciding = {} /\ rewritten = {}
        /\ retry.at = "none"
    BY DEF Init
  <1>1. feed \in Seq(Patch) /\ DOMAIN feed = {} /\ orders \in Seq(OrderRec) /\ DOMAIN orders = {} /\ Len(orders) = 0
    BY <1>0, <1>i, NoElements
  <1>2. SeatTypes
    <2>1. 0 \in 0 .. MaxChanges /\ 0 \in 0 .. MaxDrops
      BY BookingAssumption
    <2> QED
      BY <1>0, <1>1, <2>1, NewAsk, NewMap DEF SeatTypes, Status, Pages
  <1>3. ChannelInv
    BY <1>0, <1>1, NewMap DEF ChannelInv, LastPatchIsTrue, SnapshotFollows, MapFollows
  <1>4. HoldInv
    BY <1>0, NewAsk DEF HoldInv, ActiveMine
  <1>5. CheckoutTypes
    <2>1. 0 \in 0 .. MaxReloads /\ 0 \in 0 .. POLLS /\ 0 <= MaxVisits + 0 /\ 0 \in 0 .. 0
      BY BookingAssumption DEF POLLS
    <2>2. pay \in PayRec
      BY <1>i DEF NoPay, PayRec, Outcomes
    <2> QED
      BY <1>i, <1>1, <2>1, <2>2, NewCreate DEF CheckoutTypes
  <1>6. OrdersOfVisits /\ PaidIsSold
    BY <1>1 DEF OrdersOfVisits, PaidIsSold
  <1>7. PagesInv /\ OutcomeShownIsTrue
    BY <1>0, <1>i, NewCreate DEF PagesInv, OutcomeShownIsTrue, NoPay
  <1> QED
    BY <1>2, <1>3, <1>4, <1>5, <1>6, <1>7 DEF BookingInv, SeatsInv, CheckoutInv

LEMMA NextBooks == BookingInv /\ [Next]_bookingVars => BookingInv'
  <1> SUFFICES ASSUME BookingInv, [Next]_bookingVars PROVE BookingInv'
    OBVIOUS
  <1>1. CASE SeatsNext /\ UNCHANGED checkout
    <2>1. SeatsInv' /\ SoldStays /\ page' = page
      BY <1>1, SeatsInvKept DEF BookingInv
    <2>2. /\ UNCHANGED <<orders, visits, key, reloads, nav, create, current, seen, secret, pay, polls, retry>>
          /\ UNCHANGED <<sent, deciding, rewritten>>
      BY <1>1 DEF checkout, loads, payments
    <2>3. CheckoutTypes' /\ OrdersOfVisits' /\ PagesInv'
      BY <2>1, <2>2 DEF BookingInv, CheckoutInv, CheckoutTypes, OrdersOfVisits, PagesInv, Order, Replayed
    <2>5. OutcomeShownIsTrue'
      <3> SUFFICES ASSUME page \in {"order", "return"}, seen \in Final
                   PROVE  /\ Order.status = seen \/ current \in rewritten
                          /\ seen = "PAID" => \A s \in Order.seats : db'[s] = "SOLD" /\ s \in mine'
        BY <2>1, <2>2 DEF OutcomeShownIsTrue, Order
      <3>1. Order.seats \in SUBSET Seats
        BY OrderFollowed DEF BookingInv
      <3> QED
        BY <2>1, <3>1 DEF BookingInv, CheckoutInv, OutcomeShownIsTrue, SoldStays
    <2>4. PaidIsSold'
      <3>1. \A k \in DOMAIN orders : orders[k].seats \in SUBSET Seats
        BY OrderRows DEF BookingInv, CheckoutInv
      <3> QED
        BY <2>1, <2>2, <3>1 DEF BookingInv, CheckoutInv, PaidIsSold, SoldStays
    <2> QED
      BY <2>1, <2>3, <2>4, <2>5 DEF BookingInv, CheckoutInv
  <1>2. CASE CheckoutNext
    BY <1>2, CheckoutBegins, CreateGoesOn, OrderMoves, PagesOfOrder, PagesOfReturn DEF CheckoutNext
  <1>3. CASE UNCHANGED bookingVars
    <2>1. SeatsInv'
      BY <1>3, SeatsWait DEF bookingVars, BookingInv, SeatsInv, SeatTypes, HoldInv
    <2>2. UNCHANGED <<db, mine, page, orders, visits, key, reloads, nav, create, current, seen, secret, pay, polls,
                      retry, sent, deciding, rewritten>>
      BY <1>3 DEF bookingVars, checkout, loads, payments, seatsPage, seatServer
    <2>3. CheckoutInv'
      BY <2>2 DEF BookingInv, CheckoutInv, CheckoutTypes, OrdersOfVisits, PaidIsSold, PagesInv, OutcomeShownIsTrue,
                  Order, Replayed
    <2> QED
      BY <2>1, <2>3 DEF BookingInv
  <1> QED
    BY <1>1, <1>2, <1>3 DEF Next

\* The inductive invariant: what the map, the patches on their way and the
\* snapshot say together; whose hold is offered; which visit an order is of; and
\* which page waits for what.
THEOREM BookingInvariant == Spec => []BookingInv
  BY InitBooks, NextBooks, PTL DEF Spec

LEMMA BookingTypesHold == BookingInv => BookingTypeOK
  <1> SUFFICES ASSUME BookingInv PROVE BookingTypeOK
    OBVIOUS
  <1>1. SeatTypes /\ CheckoutTypes
    BY DEF BookingInv, SeatsInv, CheckoutInv
  <1>2. fetch.at \in {"none", "asked", "read"} /\ fetch.late \subseteq Seats
    BY <1>1 DEF SeatTypes, Fetch
  <1>3. ask.at \in {"none", "asked", "granted", "refused"} /\ ask.seats \subseteq Seats
    BY <1>1 DEF SeatTypes, AskRec
  <1>4. \A i \in DOMAIN feed : feed[i].seats \subseteq Seats /\ feed[i].status \in {"FREE", "HELD", "SOLD"}
    BY <1>1, PatchesOnTheirWay DEF MapStatus
  <1>5. SeatsTypeOK
    BY <1>1, <1>2, <1>3, <1>4 DEF SeatTypes, SeatsTypeOK, SeatMap, MapStatus, Loaded, Pages
  <1>6. \A k \in DOMAIN orders : orders[k].status \in OrderStatuses /\ orders[k].seats \in (SUBSET Seats) \ {{}}
    BY <1>1, OrderRows
  <1>7. visits \in 0 .. MaxVisits + MaxReloads
    BY <1>1, BookingAssumption DEF CheckoutTypes
  <1>9. pay.at \in {"none", "asked", "read", "done", "error"} /\ pay.to \in Outcomes
    BY <1>1 DEF CheckoutTypes, PayRec
  <1>8. create.at \in {"off", "asked", "created", "expired", "error"}
    BY <1>1 DEF CheckoutTypes, CreateRec
  <1> QED
    BY <1>1, <1>5, <1>6, <1>7, <1>8, <1>9 DEF BookingTypeOK, CheckoutTypes

\* Type correctness of the seat page and the checkout pages; in particular the
\* order of the route is one that was created.
THEOREM BookingTypeCorrect == Spec => []BookingTypeOK
  BY BookingInvariant, BookingTypesHold, PTL

\* A subscribed page that waits for nothing shows the tables, but for the seats
\* whose newest change it may have missed, in one of the three ways "overtaken"
\* stands for, and for holds that have lapsed unwritten
\* (usePollingFallback.ts:13-27, SeatSelectionPage.tsx:68-71, applySeatPatch.ts:10-23).
THEOREM MapIsCurrentAlways == Spec => []MapIsCurrent
  <1>1. BookingInv => MapIsCurrent
    <2> SUFFICES ASSUME BookingInv, conn = "SUBSCRIBED", feed = <<>>, fetch.at = "none", Loaded, ~failed,
                        NEW s \in Seats \ overtaken
                 PROVE  map[s] = Shown[s] \/ (db[s] = "LAPSED" /\ map[s] = "HELD")
      BY DEF MapIsCurrent
    <2>1. ~Told(s)
      BY DEF Told
    <2> QED
      BY <2>1 DEF BookingInv, SeatsInv, ChannelInv, MapFollows, Agrees
  <1> QED
    BY BookingInvariant, <1>1, PTL

\* A customer on the seat map who holds seats is offered to pay for them, unless
\* they strayed: the answer was lost or nobody waited for it, or the page was
\* reloaded or left (SeatSelectionPage.tsx:26, 94-127, HoldTimer.tsx:24-35).
THEOREM MyHoldIsOfferedAlways == Spec => []MyHoldIsOffered
  <1>1. BookingInv => MyHoldIsOffered
    BY DEF BookingInv, SeatsInv, HoldInv, Known, Granted, MyHoldIsOffered
  <1> QED
    BY BookingInvariant, <1>1, PTL

\* A visit to the checkout makes at most one order, however often its request is
\* lost and repeated (useIdempotencyKey.ts:3, CheckoutPage.tsx:44,
\* orders.service.ts:76-84).
THEOREM OneOrderPerVisitAlways == Spec => []OneOrderPerVisit
  <1>1. BookingInv => OneOrderPerVisit
    <2> SUFFICES ASSUME BookingInv PROVE Len(orders) <= visits
      BY DEF OneOrderPerVisit
    <2>1. CheckoutTypes /\ OrdersOfVisits /\ key = visits /\ visits \in Nat
      BY DEF BookingInv, CheckoutInv, CheckoutTypes
    <2>2. CASE Len(orders) = 0
      BY <2>1, <2>2
    <2>3. CASE Len(orders) # 0
      <3>1. Len(orders) \in DOMAIN orders /\ Len(orders) \in Nat /\ orders[Len(orders)].key \in Nat
        BY <2>1, <2>3, OrderRows
      <3>2. Len(orders) <= orders[Len(orders)].key /\ orders[Len(orders)].key <= key
        BY <2>1, <3>1 DEF OrdersOfVisits
      <3> QED
        BY <2>1, <3>1, <3>2
    <2> QED
      BY <2>2, <2>3
  <1> QED
    BY BookingInvariant, <1>1, PTL

\* What the checkout pages say of a settled order is true of that order unless a
\* payment that had found it PENDING has overwritten its outcome, and an approved
\* one has its seats (CheckoutReturnPage.tsx:21-30, 86-146, orders.service.ts:115-159).
THEOREM OutcomeShownIsTrueAlways == Spec => []OutcomeShownIsTrue
  <1>1. BookingInv => OutcomeShownIsTrue
    BY DEF BookingInv, CheckoutInv
  <1> QED
    BY BookingInvariant, <1>1, PTL
=============================================================================
