----------------------------- MODULE SeatHolds -----------------------------
(***************************************************************************)
(* The seat hold component: POST and DELETE on an event's holds as the     *)
(* Express handlers run them, several at a time.  Each await of a handler  *)
(* is a step of its own, so what a handler read may be stale when it acts  *)
(* on it.  The statements and transactions are those of SeatStore.         *)
(*                                                                         *)
(* Ticket sales, which also touch the two tables, are left to Checkout.    *)
(***************************************************************************)
EXTENDS SeatStore

CONSTANTS
    Requests,         \* request handlers running at the same time
    MaxSeatsPerHold,  \* MAX_SEATS_PER_HOLD
    CronRuns,         \* TRUE where pg_cron is available
    Crashes           \* TRUE: a handler may stop half-way

ASSUME HoldsAssumption ==
    /\ MaxSeatsPerHold \in Nat
    /\ CronRuns \in BOOLEAN
    /\ Crashes \in BOOLEAN

VARIABLES
    published,  \* the event is PUBLISHED
    req,        \* req[p]: where handler p is and what it has read
    overlapped  \* history: the hold handlers that ran beside another of their customer

vars == <<storeVars, published, req, overlapped>>

Pc == {"idle", "count", "attempt", "lazy", "retry", "release"}

Request == [pc : Pc, user : Users \cup {Nobody}, seats : SUBSET Seats,
            row : Nat,            \* release: the row the handler has read
            at : Nat]             \* retry: when releaseExpiredAmong ran

TypeOK ==
    /\ StoreTypeOK
    /\ published \in BOOLEAN
    /\ req \in [Requests -> Request]
    /\ \A p \in Requests : req[p].pc # "idle" => req[p].user \in Users
    /\ overlapped \subseteq Requests

NewRequest(pc, u, S, i) == [pc |-> pc, user |-> u, seats |-> S, row |-> i, at |-> 0]

Idle == {p \in Requests : req[p].pc = "idle"}

\* Mutant of Goto: the handler goes on without its request.
Goto_Forgets(p, pc) ==
    /\ req' = [req EXCEPT ![p] = [NewRequest("idle", Nobody, {}, 0) EXCEPT !.pc = pc]]
    /\ UNCHANGED overlapped

Goto(p, pc) ==
    /\ req' = [req EXCEPT ![p].pc = pc]
    /\ UNCHANGED overlapped

IdleRequest == NewRequest("idle", Nobody, {}, 0)

Answer(p) ==
    /\ req' = [req EXCEPT ![p] = IdleRequest]
    /\ overlapped' = overlapped \ {p}

\* The other hold requests of customer u that are running when p starts:
\* from a second tab, or sent again after the client gave up on the first.
Rivals(p, u) == {q \in Requests \ {p} :
                    req[q].pc \in {"count", "attempt", "lazy", "retry"} /\ req[q].user = u}

-----------------------------------------------------------------------------
(* SeatHoldService.hold                                                     *)

\* The request arrives, its seats are seats of the event and the event is
\* found PUBLISHED.  (The other outcomes answer at once and change nothing.)
HoldRequest(p, u, S) ==
    /\ p \in Idle
    /\ S # {} /\ Cardinality(S) <= MaxSeatsPerHold
    /\ published
    /\ req' = [req EXCEPT ![p] = NewRequest("count", u, S, 0)]
    /\ overlapped' = IF Rivals(p, u) = {} THEN overlapped
                                           ELSE overlapped \cup Rivals(p, u) \cup {p}
    /\ UNCHANGED <<storeVars, published>>

\* Mutant of WithinLimit: compares before adding the new seats.
WithinLimit_Before(u, S) == Cardinality(ActiveOf(u)) <= MaxSeatsPerHold

WithinLimit(u, S) == Cardinality(ActiveOf(u)) + Cardinality(S) <= MaxSeatsPerHold

\* countActiveForUser; HOLD_LIMIT_EXCEEDED answers.
CountActive(p) ==
    /\ req[p].pc = "count"
    /\ IF WithinLimit(req[p].user, req[p].seats) THEN Goto(p, "attempt") ELSE Answer(p)
    /\ UNCHANGED <<storeVars, published>>

\* attemptHold commits, the first time or on the retry.
AttemptSucceeds(p) ==
    /\ req[p].pc \in {"attempt", "retry"}
    /\ CreateHolds(req[p].user, req[p].seats)
    /\ Answer(p)
    /\ UNCHANGED published

\* attemptHold rolls back on seat_hold_active: the first time the handler
\* goes on to the lazy expiry, on the retry it answers SEAT_TAKEN.
AttemptConflicts(p) ==
    /\ req[p].pc \in {"attempt", "retry"}
    /\ ~IndexAdmits(req[p].seats)
    /\ IF req[p].pc = "attempt" THEN Goto(p, "lazy") ELSE Answer(p)
    /\ UNCHANGED <<storeVars, published>>

ReleaseExpired(p) ==
    /\ req[p].pc = "lazy"
    /\ LazyRelease(req[p].seats)
    /\ req' = [req EXCEPT ![p].pc = "retry", ![p].at = clock]
    /\ UNCHANGED <<published, overlapped>>

-----------------------------------------------------------------------------
(* SeatHoldService.release                                                  *)

\* Mutant of MayRelease: the lookup without userId.
MayRelease_AnyUser(u, s, i) == ~hold[s][i].released

\* findOwnedById, and the early return when releasedAt is set.
MayRelease(u, s, i) == hold[s][i].user = u /\ ~hold[s][i].released

ReleaseRequest(p, u, s, i) ==
    /\ p \in Idle
    /\ MayRelease(u, s, i)
    /\ req' = [req EXCEPT ![p] = NewRequest("release", u, {s}, i)]
    /\ UNCHANGED <<storeVars, published, overlapped>>

ReleaseCommits(p) ==
    /\ req[p].pc = "release"
    /\ \E s \in req[p].seats : ReleaseHold(s, req[p].row)
    /\ Answer(p)
    /\ UNCHANGED published

-----------------------------------------------------------------------------

\* The process stops, the connection drops, or Postgres aborts the
\* transaction (a deadlock, for instance): nothing more of it happens.
HandlerDies(p) ==
    /\ Crashes
    /\ p \notin Idle
    /\ Answer(p)
    /\ UNCHANGED <<storeVars, published>>

\* EventsService.cancel: only the event's status changes.
EventCancelled ==
    /\ published
    /\ published' = FALSE
    /\ UNCHANGED <<storeVars, req, overlapped>>

CronTick ==
    /\ CronRuns
    /\ CronExpireHolds
    /\ UNCHANGED <<published, req, overlapped>>

TimePasses == Tick /\ UNCHANGED <<published, req, overlapped>>

-----------------------------------------------------------------------------

Init ==
    /\ StoreInit
    /\ published = TRUE
    /\ req = [p \in Requests |-> IdleRequest]
    /\ overlapped = {}

Handler(p) ==
    \/ CountActive(p)
    \/ AttemptSucceeds(p)
    \/ AttemptConflicts(p)
    \/ ReleaseExpired(p)
    \/ ReleaseCommits(p)

Next ==
    \/ \E p \in Requests :
          \/ \E u \in Users :
                \/ \E S \in SUBSET Seats : HoldRequest(p, u, S)
                \/ \E s \in Seats : \E i \in DOMAIN hold[s] : ReleaseRequest(p, u, s, i)
          \/ Handler(p)
          \/ HandlerDies(p)
    \/ EventCancelled
    \/ CronTick
    \/ TimePasses

Spec == Init /\ [][Next]_vars

\* Time passes.  Nothing else is needed for the map to reclaim a seat.
ClockSpec == Spec /\ WF_vars(TimePasses)

-----------------------------------------------------------------------------
(* Properties.                                                              *)

\* SEAT_TAKEN is never answered on account of a lapsed hold: when the retry
\* runs, whatever still blocks one of its seats was active when the lazy
\* expiry ran, or was placed after it.
RetryConflictIsReal ==
    \A p \in Requests : req[p].pc = "retry" =>
        \A s \in req[p].seats : \A i \in Unreleased(s) :
            hold[s][i].expiresAt > req[p].at

\* While a hold is active nobody but its own customer ends it: not another
\* customer's release or hold attempt, and not the cron job.
OnlyOwnerEndsActiveHold ==
    [][\A s \in Seats : \A i \in Active(s) :
          hold'[s][i].released =>
              \E p \in Requests :
                  /\ req[p].pc = "release"
                  /\ req[p].user = hold[s][i].user
                  /\ req[p].seats = {s} /\ req[p].row = i]_vars

\* A customer comes to have more than MAX_SEATS_PER_HOLD active holds on the
\* event only by a hold request that ran beside another one of theirs: requests
\* that do not overlap keep the limit, whatever lapses, is released, is retried
\* or dies around them.
HoldLimit ==
    [][\A u \in Users :
          \/ ActiveOf(u)' \subseteq ActiveOf(u)
          \/ Cardinality(ActiveOf(u)') <= MaxSeatsPerHold
          \/ \E p \in overlapped : req[p].user = u /\ AttemptSucceeds(p)]_vars

\* Whatever happened to the handlers and with or without pg_cron, a seat the
\* map shows as held is shown as free again.  (The number of holds is bounded:
\* each of them lapses, and nothing else keeps the seat.)
MapShowsSeatFreeAgain ==
    \A s \in Seats : SeatmapStatus(s) = "HELD" ~> SeatmapStatus(s) = "FREE"
=============================================================================
