----------------------------- MODULE ShareLinks -----------------------------
(***************************************************************************)
(* The share link of one ticket: TicketService (createShareLink,           *)
(* revokeShareLink, getSharedTicket), the owner's pages (TicketDetailPage  *)
(* with ShareButton, RevokeShareDialog and CancelTicketButton) and a       *)
(* visitor of the link (SharedTicketPage).                                 *)
(*                                                                         *)
(* The handlers read the ticket and then write it, by its id alone.  A     *)
(* token is the number of its creation: they are random and never equal.   *)
(***************************************************************************)
EXTENDS Naturals, FiniteSets

CONSTANTS Owners,     \* the owner's open pages, and handlers no page waits for
          MaxTokens,  \* bound on the tokens made
          MaxAsks     \* bound on the pages' requests

ASSUME ShareAssumption == MaxTokens \in Nat /\ MaxAsks \in Nat

VARIABLES ticket,    \* the row: token, revoked, status
          refunded,  \* "yes" once the provider has the refund, "failed" if one failed
          phase,     \* of the event: links expire some hours after its start
          made,      \* tokens made so far
          panel,     \* a page: the status it shows, the link it shows, its request,
                     \* how far the handler is, the answer
          visit,     \* the visitor: the link, what is shown, and a history field:
                     \* the link was asked for after it was gone
          asks,
          gone,      \* history: links their owner was told are revoked
          crossed    \* history: links that another request touched, or
                     \* whose revocation was not heard of

shareVars == <<ticket, refunded, phase, made, panel, visit, asks, gone, crossed>>

-----------------------------------------------------------------------------
None == 0
Tokens == 1 .. MaxTokens
Status == {"ACTIVE", "USED", "CANCELLED"}
TicketShare == [token : Tokens \cup {None}, revoked : BOOLEAN, status : Status]
Closed == [shows |-> "nothing", link |-> None, op |-> "none", at |-> "sent", answer |-> None]
Panel == [shows : Status \cup {"nothing"}, link : Tokens \cup {None},
          op : {"none", "share", "revoke", "cancel"},
          at : {"sent", "new", "found", "committed", "done", "refused"},
          answer : Tokens \cup {None}]
Visit == [link : Tokens \cup {None}, at : {"away", "loading", "ticket", "error"}, late : BOOLEAN]

\* hasLiveShareLink
HasLiveShareLink == ticket.token # None /\ ~ticket.revoked /\ phase # "over"

\* getSharedTicket gives out the code
Opens(k) == ticket.token = k /\ ~ticket.revoked /\ phase # "over" /\ ticket.status # "CANCELLED"

\* whether another page has a request under way
Crossing(h) == \E g \in Owners \ {h} : panel[g].op # "none"

-----------------------------------------------------------------------------
(* The owner's pages. *)

\* GET /tickets/:id; ShareButton starts without a link
OpenTicket(h) ==
    /\ panel[h].shows = "nothing" /\ panel[h].op = "none"
    /\ panel' = [panel EXCEPT ![h] = [Closed EXCEPT !.shows = ticket.status]]
    /\ UNCHANGED <<ticket, refunded, phase, made, visit, asks, gone, crossed>>

\* leaving it, the answer still expected shows nothing; the handler goes on
CloseTicket(h) ==
    /\ panel[h].shows # "nothing"
    /\ panel' = [panel EXCEPT ![h].shows = "nothing", ![h].link = None]
    /\ UNCHANGED <<ticket, refunded, phase, made, visit, asks, gone, crossed>>

Asking(h, op) ==
    /\ panel[h].op = "none" /\ asks < MaxAsks
    /\ asks' = asks + 1
    /\ panel' = [panel EXCEPT ![h].op = op, ![h].at = "sent", ![h].answer = None]
    /\ UNCHANGED <<ticket, refunded, phase, made, visit, gone, crossed>>

\* "Compartilhar" without a link, "Confirmar revogacao" with one; a ticket
\* shown as cancelled has neither.  "Confirmar cancelamento" only before the
\* event.  A page has one dialog open, so one request at a time.
AskShare(h) ==
    panel[h].shows \in {"ACTIVE", "USED"} /\ panel[h].link = None /\ Asking(h, "share")
AskRevoke(h) ==
    panel[h].shows \in {"ACTIVE", "USED"} /\ panel[h].link # None /\ Asking(h, "revoke")
AskCancel(h) == panel[h].shows = "ACTIVE" /\ phase = "before" /\ Asking(h, "cancel")

-----------------------------------------------------------------------------
(* The handlers. *)

At(h, op, at) == panel[h].op = op /\ panel[h].at = at

\* createShareLink: refused, the live link, or a new one
ShareReads(h) ==
    /\ At(h, "share", "sent")
    /\ panel' = [panel EXCEPT
          ![h].at = IF ticket.status = "CANCELLED" THEN "refused"
                    ELSE IF HasLiveShareLink THEN "done" ELSE "new",
          ![h].answer = IF HasLiveShareLink THEN ticket.token ELSE None]
    /\ UNCHANGED <<ticket, refunded, phase, made, visit, asks, gone, crossed>>

\* Mutant of NewToken: a ticket keeps its token for good
NewToken_Kept == IF ticket.token = None THEN made + 1 ELSE ticket.token

\* randomBytes
NewToken == made + 1

\* setShareToken: the token is replaced, the revocation undone
ShareWrites(h) ==
    /\ At(h, "share", "new") /\ made < MaxTokens
    /\ made' = made + 1
    /\ ticket' = [ticket EXCEPT !.token = NewToken, !.revoked = FALSE]
    /\ panel' = [panel EXCEPT ![h].at = "done", ![h].answer = NewToken]
    /\ crossed' = crossed \cup ({ticket.token} \ {None})
                          \cup (IF Crossing(h) THEN {NewToken} ELSE {})
    /\ UNCHANGED <<refunded, phase, visit, asks, gone>>

\* revokeShareLink: nothing to do without a token or with one revoked already
RevokeReads(h) ==
    /\ At(h, "revoke", "sent")
    /\ panel' = [panel EXCEPT ![h].at = IF ticket.token = None \/ ticket.revoked
                                        THEN "done" ELSE "found"]
    /\ UNCHANGED <<ticket, refunded, phase, made, visit, asks, gone, crossed>>

\* revokeShare: whatever token the row has by now
RevokeWrites(h) ==
    /\ At(h, "revoke", "found")
    /\ ticket' = [ticket EXCEPT !.revoked = TRUE]
    /\ panel' = [panel EXCEPT ![h].at = "done"]
    /\ crossed' = crossed \cup (IF panel[h].link # ticket.token \/ Crossing(h)
                                   \/ \E g \in Owners \ {h} : panel[g].link = ticket.token
                                THEN {ticket.token} ELSE {})
    /\ UNCHANGED <<refunded, phase, made, visit, asks, gone>>

\* cancelTicket reads the ticket and its event
CancelReads(h) ==
    /\ At(h, "cancel", "sent")
    /\ panel' = [panel EXCEPT ![h].at = IF ticket.status = "ACTIVE" /\ phase = "before"
                                        THEN "found" ELSE "refused"]
    /\ UNCHANGED <<ticket, refunded, phase, made, visit, asks, gone, crossed>>

\* Mutant of AfterCommit: the refund is left to run on its own
AfterCommit_Answered == "done"

\* the refund is awaited before the answer
AfterCommit == "committed"

CancelCommits(h) ==
    /\ At(h, "cancel", "found")
    /\ ticket' = [ticket EXCEPT !.status = "CANCELLED"]
    /\ panel' = [panel EXCEPT ![h].at = AfterCommit]
    /\ UNCHANGED <<refunded, phase, made, visit, asks, gone, crossed>>

\* a refund that fails is logged and answered like one that does not
CancelRefunds(h) ==
    /\ At(h, "cancel", "committed")
    /\ \E outcome \in {"yes", "failed"} : refunded' = refunded \cup {outcome}
    /\ panel' = [panel EXCEPT ![h].at = "done"]
    /\ UNCHANGED <<ticket, phase, made, visit, asks, gone, crossed>>

-----------------------------------------------------------------------------
(* The answers. *)

\* setShareLink, onRevoked, or the cancelled ticket put in the cache
Answered(h) ==
    CASE panel[h].op = "share" -> [panel[h] EXCEPT !.op = "none", !.link = panel[h].answer]
      [] panel[h].op = "revoke" -> [panel[h] EXCEPT !.op = "none", !.link = None]
      [] panel[h].op = "cancel" -> [panel[h] EXCEPT !.op = "none", !.link = None,
                                                    !.shows = ticket.status]

ShareAnswered(h) ==
    /\ panel[h].op # "none" /\ panel[h].at = "done"
    /\ panel' = [panel EXCEPT ![h] = IF @.shows = "nothing" THEN Closed ELSE Answered(h)]
    /\ gone' = gone \cup (IF panel[h].op = "revoke" THEN {panel[h].link} \ {None} ELSE {})
    /\ UNCHANGED <<ticket, refunded, phase, made, visit, asks, crossed>>

\* the request times out or the network drops: the page goes on in a free place,
\* with what it shows, and the handler goes on without it
GivesUp(h, g) ==
    /\ panel[h].op # "none" /\ panel[h].shows # "nothing"
    /\ panel[h].at \notin {"done", "refused"}
    /\ panel[g].op = "none" /\ panel[g].shows = "nothing"
    /\ panel' = [panel EXCEPT ![h] = [@ EXCEPT !.shows = "nothing", !.link = None],
                              ![g] = [panel[h] EXCEPT !.op = "none"]]
    /\ UNCHANGED <<ticket, refunded, phase, made, visit, asks, gone, crossed>>

\* an error answer, a process that dies (before the refund, perhaps), or the
\* answer lost after a revocation
ShareFails(h) ==
    /\ panel[h].op # "none"
    /\ panel' = [panel EXCEPT ![h].op = "none"]
    /\ refunded' = refunded \cup (IF At(h, "cancel", "committed") THEN {"failed"} ELSE {})
    /\ crossed' = crossed \cup (IF panel[h].at = "done" THEN {panel[h].link, ticket.token} \ {None}
                                ELSE {})
    /\ UNCHANGED <<ticket, phase, made, visit, asks, gone>>

-----------------------------------------------------------------------------
(* The visitor, and the world. *)

\* the page asks once (retry: false) and does not ask again while it is open
FollowLink(k) ==
    /\ visit.at = "away" /\ k \in 1 .. made
    /\ visit' = [link |-> k, at |-> "loading", late |-> k \in gone]
    /\ UNCHANGED <<ticket, refunded, phase, made, panel, asks, gone, crossed>>

SharedTicket ==
    /\ visit.at = "loading"
    /\ visit' = [visit EXCEPT !.at = IF Opens(visit.link) THEN "ticket" ELSE "error"]
    /\ UNCHANGED <<ticket, refunded, phase, made, panel, asks, gone, crossed>>

CloseLink ==
    /\ visit.at \in {"ticket", "error"}
    /\ visit' = [visit EXCEPT !.at = "away"]
    /\ UNCHANGED <<ticket, refunded, phase, made, panel, asks, gone, crossed>>

\* GateService.validate
TicketIsUsed ==
    /\ ticket.status = "ACTIVE"
    /\ ticket' = [ticket EXCEPT !.status = "USED"]
    /\ UNCHANGED <<refunded, phase, made, panel, visit, asks, gone, crossed>>

EventGoesOn ==
    /\ phase' = CASE phase = "before" -> "started" [] phase = "started" -> "over"
                  [] OTHER -> phase
    /\ phase # "over"
    /\ UNCHANGED <<ticket, refunded, made, panel, visit, asks, gone, crossed>>

-----------------------------------------------------------------------------
ShareInit ==
    /\ ticket = [token |-> None, revoked |-> FALSE, status |-> "ACTIVE"]
    /\ refunded = {} /\ phase = "before" /\ made = 0
    /\ visit = [link |-> None, at |-> "away", late |-> FALSE]
    /\ panel = [h \in Owners |-> Closed]
    /\ asks = 0 /\ gone = {} /\ crossed = {}

ShareNext ==
    \/ \E h \in Owners :
          \/ OpenTicket(h) \/ CloseTicket(h)
          \/ AskShare(h) \/ AskRevoke(h) \/ AskCancel(h)
          \/ ShareReads(h) \/ ShareWrites(h) \/ RevokeReads(h) \/ RevokeWrites(h)
          \/ CancelReads(h) \/ CancelCommits(h) \/ CancelRefunds(h)
          \/ ShareAnswered(h) \/ ShareFails(h) \/ \E g \in Owners : GivesUp(h, g)
    \/ \E k \in Tokens : FollowLink(k)
    \/ SharedTicket \/ CloseLink \/ TicketIsUsed \/ EventGoesOn

ShareSpec == ShareInit /\ [][ShareNext]_shareVars

-----------------------------------------------------------------------------
ShareTypeOK ==
    /\ ticket \in TicketShare
    /\ refunded \subseteq {"yes", "failed"}
    /\ phase \in {"before", "started", "over"} /\ made \in 0 .. MaxTokens
    /\ panel \in [Owners -> Panel]
    /\ visit \in Visit
    /\ asks \in 0 .. MaxAsks
    /\ gone \subseteq Tokens /\ crossed \subseteq Tokens

\* A link whose owner was told "Link revogado" never opens again and shows no
\* one the ticket who follows it from then on, whatever requests of other pages
\* overlap and whatever is shared afterwards
\* ("Quem ja tiver o link nao vai mais conseguir usa-lo", ShareButton.tsx:29).
RevokedNeverOpens ==
    /\ \A k \in gone : ~Opens(k)
    /\ visit.late => visit.at # "ticket"

\* A link the page shows opens, as long as the links have not expired, the ticket
\* is not cancelled, and no other page or lost answer came across it
\* (ticket.service.ts:116-122).
LinkShownOpens ==
    phase # "over" /\ ticket.status # "CANCELLED" =>
        \A h \in Owners :
            panel[h].link # None /\ panel[h].link \notin crossed /\ panel[h].op = "none"
                => Opens(panel[h].link)

\* A page that says that what was paid has been returned is right, unless the
\* refund was refused or its process died, or another page is still cancelling
\* (TicketDetailPage.tsx:83, orders.service.ts:191-197).
RefundNoticeIsTrue ==
    (\E h \in Owners : panel[h].shows = "CANCELLED") =>
        \/ refunded # {}
        \/ \E h \in Owners : At(h, "cancel", "committed")
\* What owners see of their links is true: revoked ones are dead, those shown
\* are alive.
LinksAreTrue == RevokedNeverOpens /\ LinkShownOpens
=============================================================================
