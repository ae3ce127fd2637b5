----------------------------- MODULE SeatMapPage -----------------------------
(***************************************************************************)
(* The seat selection page of one customer (features/reserva): the map it  *)
(* keeps up to date from realtime patches and from snapshots, the seats    *)
(* chosen on it, the request to hold them and the hold it then offers to   *)
(* pay.  The server side is seat_state as the page can see it: what the    *)
(* tables do is SeatHolds' subject.  A transaction's rows are one patch.   *)
(***************************************************************************)
EXTENDS Naturals, Sequences, FiniteSets

CONSTANTS Seats,
          MaxSeats,     \* MAX_SEATS_PER_HOLD
          MaxChanges,   \* bound on the changes others make and on the holds that lapse
          MaxFeed,      \* bound on the patches on their way
          MaxDrops,     \* bound on the interruptions of the channel and of the page
          Faults        \* whether requests and answers may be lost

VARIABLES db,           \* seat_state; LAPSED is HELD with expiresAt passed
          mine,         \* the seats this customer holds or has bought
          changes,
          feed,         \* patches on their way, in order
          conn, drops,  \* useSeatRealtime's connectionStatus
          wasDown,      \* usePollingFallback's wasDisconnected
          map,          \* the cached seat map; <<>> before the first snapshot
          fetch,        \* the seat map request, and the seats written since it was read
          failed,       \* the query is in error: ErrorState is shown
          overtaken,    \* seats whose newest change the cached map may have missed
          chosen,       \* useSeatSelection's seats
          ask,          \* useHold's mutation
          offered,      \* the page's hold
          modal,        \* HoldExpiredModal is open
          left,         \* seats of a hold request whose page no longer waits for it
          strayed,      \* seats held for a page that was not told, or forgot
          page          \* the route: this page, or one of BookingPages

seatServer == <<db, mine, changes>>
channel == <<feed, conn, drops, wasDown>>
cached == <<map, failed, overtaken>>
view == <<cached, fetch>>
picks == <<chosen, ask, offered, modal, left, strayed>>

Status == {"FREE", "HELD", "LAPSED", "SOLD"}
NoMap == <<>>
NoFetch == [at |-> "none", snap |-> NoMap, late |-> {}]
Asked == [NoFetch EXCEPT !.at = "asked"]
NoAsk == [at |-> "none", seats |-> {}, taken |-> {}]

Loaded == map # NoMap
\* buildSeatmap: a seat whose hold has lapsed is shown FREE
Shown == [s \in Seats |-> IF db[s] = "LAPSED" THEN "FREE" ELSE db[s]]
ActiveMine == {s \in mine : db[s] = "HELD"}
SomeoneElses == {s \in Seats \ mine : db[s] \in {"HELD", "SOLD"}}

-----------------------------------------------------------------------------
(* What the tables do, and what the channel tells of it. *)

\* Mutant of Heard: rows that go back to FREE are not published
Heard_NotFree(S, v) == IF conn = "SUBSCRIBED" /\ v # "FREE"
                       THEN Append(feed, [seats |-> S, status |-> v]) ELSE feed

\* the postgres_changes of the transaction reach a subscribed channel
Heard(S, v) == IF conn = "SUBSCRIBED" THEN Append(feed, [seats |-> S, status |-> v]) ELSE feed

\* The snapshot in flight lacks what is written after it was read.  What a page
\* with a map does not hear is not counted: once subscribed it asks again.
Behind(S) == IF fetch.at = "read" /\ (conn = "SUBSCRIBED" \/ ~Loaded)
             THEN [fetch EXCEPT !.late = @ \cup S] ELSE fetch

Write(S, v) == /\ Len(feed) < MaxFeed
               /\ db' = [s \in Seats |-> IF s \in S THEN v ELSE db[s]]
               /\ feed' = Heard(S, v) /\ fetch' = Behind(S)

\* another customer holds, releases or buys a seat
OthersChange(s) ==
    /\ changes < MaxChanges /\ changes' = changes + 1
    /\ \/ db[s] \in {"FREE", "LAPSED"} /\ Write({s}, "HELD")
       \/ db[s] = "HELD" /\ s \notin mine /\ \E v \in {"FREE", "SOLD"} : Write({s}, v)
    /\ mine' = mine \ {s}
    /\ UNCHANGED <<conn, drops, wasDown, cached, picks, page>>

\* the ten minutes of a hold pass: nothing is written
Lapse(S) ==
    /\ S # {} /\ \A s \in S : db[s] = "HELD"
    /\ S = ActiveMine \/ (S \cap mine = {} /\ Cardinality(S) = 1)
    /\ changes < MaxChanges /\ changes' = changes + 1
    /\ db' = [s \in Seats |-> IF s \in S THEN "LAPSED" ELSE db[s]]
    /\ UNCHANGED <<mine, channel, view, picks, page>>

\* expire-seat-holds
CronFrees ==
    /\ \E s \in Seats : db[s] = "LAPSED"
    /\ Write({s \in Seats : db[s] = "LAPSED"}, "FREE")
    /\ mine' = {s \in mine : db[s] # "LAPSED"}
    /\ UNCHANGED <<changes, conn, drops, wasDown, cached, picks, page>>

-----------------------------------------------------------------------------
(* The map: useSeatRealtime, usePollingFallback, applySeatPatch. *)

\* Mutant of Renewed: a request in flight is joined, with or without a map
Renewed_Joins == IF fetch.at # "none" THEN fetch ELSE Asked

\* invalidateQueries and refetch: the first request is joined, as long as it is
\* not answered; a later one is cancelled and made again
Renewed == IF ~Loaded /\ fetch.at # "none" THEN fetch ELSE Asked

\* without a map a new request is "pending", no longer in error
Renew == fetch' = Renewed /\ failed' = (failed /\ Loaded)

\* a subscription that follows CONNECTING or a failure invalidates the map
Subscribed ==
    /\ page = "seats" /\ conn = "CONNECTING"
    /\ conn' = "SUBSCRIBED" /\ wasDown' = FALSE
    /\ IF wasDown THEN Renew ELSE UNCHANGED <<fetch, failed>>
    /\ UNCHANGED <<seatServer, feed, drops, map, overtaken, picks, page>>

\* CHANNEL_ERROR, TIMED_OUT or CLOSED: what was on its way is lost
Drops ==
    /\ page = "seats" /\ conn = "SUBSCRIBED" /\ drops < MaxDrops
    /\ conn' = "CONNECTING" /\ wasDown' = TRUE
    /\ feed' = <<>> /\ drops' = drops + 1
    /\ UNCHANGED <<seatServer, view, picks, page>>

\* every five seconds without a subscription
Poll ==
    /\ page = "seats" /\ conn # "SUBSCRIBED"
    /\ Renew
    /\ UNCHANGED <<seatServer, channel, map, overtaken, picks, page>>

\* onRetry of ErrorState
RetryMap ==
    /\ page = "seats" /\ failed
    /\ Renew
    /\ UNCHANGED <<seatServer, channel, map, overtaken, picks, page>>

FetchReads ==
    /\ fetch.at = "asked"
    /\ fetch' = [at |-> "read", snap |-> Shown, late |-> {}]
    /\ UNCHANGED <<seatServer, channel, cached, picks, page>>

FetchAnswers ==
    /\ fetch.at = "read"
    /\ map' = fetch.snap /\ overtaken' = fetch.late
    /\ fetch' = NoFetch /\ failed' = FALSE
    /\ UNCHANGED <<seatServer, channel, picks, page>>

\* the request is lost and made once more, or fails for good
FetchFails ==
    /\ Faults /\ fetch.at # "none"
    /\ \/ fetch' = Asked /\ UNCHANGED failed
       \/ fetch' = NoFetch /\ failed' = TRUE
    /\ UNCHANGED <<seatServer, channel, map, overtaken, picks, page>>

\* applySeatPatch on the cached map
Patched(p) == [s \in Seats |-> IF s \in p.seats THEN p.status ELSE map[s]]

\* setQueryData: without a map nothing; with one the query is a success again,
\* though its renewal had failed
PatchArrives ==
    /\ feed # <<>> /\ feed' = Tail(feed)
    /\ LET p == Head(feed)
       IN  IF Loaded
           THEN /\ map' = Patched(p) /\ failed' = FALSE
                /\ overtaken' = (IF failed THEN Seats ELSE overtaken) \ p.seats
           ELSE UNCHANGED cached
    /\ UNCHANGED <<seatServer, conn, drops, wasDown, fetch, picks, page>>

-----------------------------------------------------------------------------
(* Choosing and holding: SeatMap, useSeatSelection, useHold, SelectionBar,  *)
(* HoldTimer, HoldExpiredModal.                                             *)

Rendered == page = "seats" /\ Loaded /\ ~failed
Usable == Rendered /\ ~modal

\* a seat answers a click when it is FREE, or already chosen
Interactive(s) == Usable /\ (map[s] = "FREE" \/ s \in chosen)

Toggle(s) ==
    /\ Interactive(s) /\ (s \in chosen \/ Cardinality(chosen) < MaxSeats)
    /\ chosen' = IF s \in chosen THEN chosen \ {s} ELSE chosen \cup {s}
    /\ UNCHANGED <<seatServer, channel, view, ask, offered, modal, left, strayed, page>>

\* "Reservar por 10 minutos" is there only without a hold
Reserve ==
    /\ Usable /\ offered = {} /\ chosen # {} /\ ask.at = "none"
    /\ ask' = [NoAsk EXCEPT !.at = "asked", !.seats = chosen]
    /\ UNCHANGED <<seatServer, channel, view, chosen, offered, modal, left, strayed, page>>

\* hold, on the server: all the seats, or SEAT_TAKEN with those that are not free
Taken(S) == {s \in S : db[s] \in {"HELD", "SOLD"}}
Grants(S) == Taken(S) = {} /\ Write(S, "HELD") /\ mine' = mine \cup S
Refuses(S) == Taken(S) # {} /\ UNCHANGED <<db, feed, fetch, mine>>

HoldServed ==
    /\ ask.at = "asked"
    /\ \/ /\ Grants(ask.seats) /\ strayed' = strayed \ ask.seats
          /\ ask' = [ask EXCEPT !.at = "granted"]
       \/ /\ Refuses(ask.seats) /\ UNCHANGED strayed
          /\ ask' = [ask EXCEPT !.at = "refused", !.taken = Taken(ask.seats)]
    /\ UNCHANGED <<changes, conn, drops, wasDown, cached, chosen, offered, modal, left, page>>

\* the server serves a request nobody waits for any more
LeftServed ==
    /\ left # {} /\ left' = {}
    /\ \/ Grants(left) /\ strayed' = strayed \cup left
       \/ Refuses(left) /\ UNCHANGED strayed
    /\ UNCHANGED <<changes, conn, drops, wasDown, cached, chosen, ask, offered, modal, page>>

\* onHoldCreated: the hold is offered and the choice cleared
HoldGranted ==
    /\ page = "seats" /\ ask.at = "granted"
    /\ offered' = ask.seats /\ chosen' = {} /\ ask' = NoAsk
    /\ Renew
    /\ UNCHANGED <<seatServer, channel, map, overtaken, modal, left, strayed, page>>

\* onSeatsTaken: the seats taken leave the choice
HoldRefused ==
    /\ page = "seats" /\ ask.at = "refused"
    /\ chosen' = chosen \ ask.taken /\ ask' = NoAsk
    /\ Renew
    /\ UNCHANGED <<seatServer, channel, map, overtaken, offered, modal, left, strayed, page>>

\* what the server has granted and the page does not know, and what the server
\* may still grant (one request at a time is left behind)
Granted == IF ask.at = "granted" THEN ask.seats ELSE {}
Unanswered == IF ask.at = "asked" /\ left = {} THEN {ask.seats} ELSE {}

\* the fifteen seconds of apiFetch pass, or the network fails
HoldLost ==
    /\ Faults /\ ask.at # "none"
    /\ ask' = NoAsk
    /\ strayed' = strayed \cup Granted
    /\ left' \in {left} \cup Unanswered
    /\ UNCHANGED <<seatServer, channel, view, chosen, offered, modal, page>>

\* Mutant of TimerMayEnd: the timer runs for five minutes
TimerMayEnd_Early == offered # {}

\* HoldTimer counts down to the expiresAt of the first hold
TimerMayEnd == offered # {} /\ offered \cap ActiveMine \subseteq strayed

TimerEnds ==
    /\ Rendered /\ TimerMayEnd
    /\ offered' = {} /\ modal' = TRUE
    /\ UNCHANGED <<seatServer, channel, view, chosen, ask, left, strayed, page>>

ChooseAgain ==
    /\ Rendered /\ modal
    /\ modal' = FALSE /\ offered' = {} /\ Renew
    /\ UNCHANGED <<seatServer, channel, map, overtaken, chosen, ask, left, strayed, page>>

-----------------------------------------------------------------------------
(* The page is left, or loaded again.                                       *)

\* what the component and its channel kept is gone
Unmounts ==
    /\ chosen' = {} /\ ask' = NoAsk /\ offered' = {} /\ modal' = FALSE
    /\ strayed' = strayed \cup offered \cup Granted
    /\ left' \in {left} \cup Unanswered
    /\ conn' = "CONNECTING" /\ wasDown' = TRUE /\ feed' = <<>>

\* the query cache of a page just loaded, or of one left for five minutes
Empty == map' = NoMap /\ failed' = FALSE /\ overtaken' = {}

\* The seat map query of a page that mounts.  A map still in the cache is shown,
\* and asked for again only when it is stale.
Mounts ==
    \/ Empty /\ fetch' = Asked
    \/ /\ UNCHANGED <<map, overtaken>> /\ failed' = (failed /\ Loaded)
       /\ fetch' \in {IF fetch.at = "none" THEN Asked ELSE fetch} \cup (IF Loaded THEN {fetch} ELSE {})

\* the page is loaded again, or left for another one and opened again
PageReloads ==
    /\ page = "seats" /\ drops < MaxDrops /\ drops' = drops + 1
    /\ Unmounts /\ Mounts
    /\ UNCHANGED <<seatServer, page>>

SeatsInit ==
    /\ db \in [Seats -> {"FREE", "HELD"}] /\ mine = {} /\ changes = 0
    /\ feed = <<>> /\ conn = "CONNECTING" /\ drops = 0 /\ wasDown = TRUE
    /\ map = NoMap /\ fetch = Asked /\ failed = FALSE /\ overtaken = {}
    /\ chosen = {} /\ ask = NoAsk /\ offered = {} /\ modal = FALSE
    /\ left = {} /\ strayed = {}
    /\ page = "seats"

SeatsNext ==
    \/ \E s \in Seats : OthersChange(s) \/ Toggle(s)
    \/ \E S \in SUBSET Seats : Lapse(S)
    \/ CronFrees \/ Subscribed \/ Drops \/ Poll \/ RetryMap
    \/ FetchReads \/ FetchAnswers \/ FetchFails \/ PatchArrives
    \/ Reserve \/ HoldServed \/ LeftServed \/ HoldGranted \/ HoldRefused \/ HoldLost
    \/ TimerEnds \/ ChooseAgain \/ PageReloads

-----------------------------------------------------------------------------
(* Properties. *)

SeatsTypeOK ==
    /\ db \in [Seats -> Status] /\ mine \subseteq Seats /\ changes \in 0 .. MaxChanges
    /\ \A i \in DOMAIN feed : feed[i].seats \subseteq Seats /\ feed[i].status \in {"FREE", "HELD", "SOLD"}
    /\ conn \in {"CONNECTING", "SUBSCRIBED"} /\ drops \in 0 .. MaxDrops /\ wasDown \in BOOLEAN
    /\ Loaded => map \in [Seats -> {"FREE", "HELD", "SOLD"}]
    /\ fetch.at \in {"none", "asked", "read"} /\ fetch.late \subseteq Seats
    /\ failed \in BOOLEAN /\ modal \in BOOLEAN /\ strayed \subseteq Seats /\ left \subseteq Seats
    /\ overtaken \subseteq Seats /\ chosen \subseteq Seats /\ offered \subseteq Seats
    /\ ask.at \in {"none", "asked", "granted", "refused"} /\ ask.seats \subseteq Seats
    /\ page \in {"seats", "new", "order", "return"}

\* A subscribed page that waits for nothing shows the tables, whatever it missed
\* while its channel was down or the page was left: with a map, the subscription
\* always asks for a new one.  A change is missed in three ways only (overtaken):
\* the snapshot on its way was read before it and arrives after its patch; the
\* first snapshot was read before it, and the subscription joined that request
\* instead of making another; the renewal of the map failed, and a patch took
\* the error away.  A hold that lapsed is shown until pg_cron writes it
\* (usePollingFallback.ts:13-27, SeatSelectionPage.tsx:68-71, applySeatPatch.ts:10-23).
MapIsCurrent ==
    page = "seats" /\ conn = "SUBSCRIBED" /\ feed = <<>> /\ fetch.at = "none" /\ Loaded /\ ~failed =>
        \A s \in Seats \ overtaken : map[s] = Shown[s] \/ (db[s] = "LAPSED" /\ map[s] = "HELD")
=============================================================================
