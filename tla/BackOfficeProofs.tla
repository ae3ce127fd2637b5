-------------------------- MODULE BackOfficeProofs --------------------------
(***************************************************************************)
(* The parts that BackOffice puts side by side do not disturb each other:  *)
(* what is proved of one alone holds among the others.  Each part has its  *)
(* invariant, kept by each of its steps; a step of the back office is a    *)
(* step of the part or leaves it as it is.                                 *)
(***************************************************************************)
EXTENDS BackOffice, EventDeskProofs, FiniteSetTheorems, FunctionTheorems, SequenceTheorems,
        WellFoundedInduction

LEMMA StepsOfDesk == [Next]_backVars => [DeskNext]_deskVars
  <1> SUFFICES ASSUME [Next]_backVars PROVE DeskNext \/ UNCHANGED deskVars
    OBVIOUS
  <1>1. CASE UNCHANGED backVars
    BY <1>1 DEF backVars
  <1>2. CASE Wizards \/ Desks \/ Covers \/ Shares
    BY <1>2 DEF Wizards, Desks, Covers, Shares
  <1>3. CASE Gates \/ LooksUp \/ Browses
    BY <1>3 DEF Gates, LooksUp, Browses
  <1> QED
    BY <1>1, <1>2, <1>3 DEF Next

\* Whatever the other parts do, the event, its pages and its buyers behave as
\* EventDesk says, so the theorems about DeskSpec hold of the back office.
THEOREM BackOfficeRunsDesk == Spec => DeskSpec
  <1>1. Init => DeskInit
    BY DEF Init
  <1> QED
    BY <1>1, StepsOfDesk, PTL DEF Spec, DeskSpec

-----------------------------------------------------------------------------
(* The share link of a ticket. *)

\* A link that opens no more, and never will.
Dead(k) == k \in 1 .. made /\ (ticket.token # k \/ ticket.revoked)

\* Nothing names a token that was not made.
LinksAreMade ==
    /\ ticket.token <= made
    /\ \A h \in Owners : panel[h].link <= made /\ panel[h].answer <= made
    /\ visit.link <= made

\* Revoked is said of dead links only, and what is gone stays so.
GoneIsDead ==
    /\ \A h \in Owners : At(h, "revoke", "done") /\ panel[h].link # None => Dead(panel[h].link)
    /\ \A k \in gone : Dead(k)
    /\ visit.late => visit.link \in gone /\ visit.at # "ticket"
    /\ \A h \in Owners : At(h, "revoke", "found") => ticket.token # None

\* A link that nothing came across is the ticket's, until its own page revokes it.
LinkIsLive ==
    \A h \in Owners :
        /\ panel[h].link # None /\ panel[h].link \notin crossed =>
              /\ ticket.token = panel[h].link
              /\ ticket.revoked => At(h, "revoke", "done")
        /\ At(h, "share", "done") =>
              /\ panel[h].answer # None
              /\ panel[h].answer \notin crossed => ticket.token = panel[h].answer /\ ~ticket.revoked

\* A cancelled ticket is refunded, or about to be.
CancelledIsRefunded ==
    /\ \A h \in Owners : panel[h].shows = "CANCELLED" => ticket.status = "CANCELLED"
    /\ ticket.status = "CANCELLED" =>
          refunded # {} \/ \E h \in Owners : At(h, "cancel", "committed")

ShareInv == ShareTypeOK /\ LinksAreMade /\ GoneIsDead /\ LinkIsLive /\ CancelledIsRefunded

LEMMA ShareTypes ==
    ASSUME ShareTypeOK
    PROVE  /\ \A h \in Owners : panel[h] \in Panel
           /\ ticket \in TicketShare /\ visit \in Visit
           /\ made \in Nat /\ Tokens = 1 .. MaxTokens /\ None = 0 /\ made <= MaxTokens /\ MaxTokens \in Nat
           /\ ticket.token \in Nat /\ visit.link \in Nat
           /\ \A h \in Owners : panel[h].link \in Nat /\ panel[h].answer \in Nat
<1>1. MaxTokens \in Nat /\ \A k \in Tokens \cup {None} : k \in Nat
  BY ShareAssumption DEF Tokens, None
<1>2. \A h \in Owners : panel[h] \in Panel
  BY DEF ShareTypeOK
<1>3. ASSUME NEW h \in Owners
      PROVE  panel[h].link \in Nat /\ panel[h].answer \in Nat
  <2>1. panel[h].link \in Tokens \cup {None} /\ panel[h].answer \in Tokens \cup {None}
    BY <1>2 DEF Panel
  <2>2. QED
    BY <1>1, <2>1
<1>4. ticket.token \in Nat /\ visit.link \in Nat
  <2>1. ticket.token \in Tokens \cup {None} /\ visit.link \in Tokens \cup {None}
    BY DEF ShareTypeOK, TicketShare, Visit
  <2>2. QED
    BY <1>1, <2>1
<1>5. made \in Nat /\ made <= MaxTokens
  BY <1>1 DEF ShareTypeOK
<1>6. QED
  BY <1>1, <1>2, <1>3, <1>4, <1>5 DEF ShareTypeOK, Tokens, None

\* Page h now shows s and the link l; its request is o, at step a, answered with n.
PageSets(h, s, l, o, a, n) ==
    \A g \in Owners :
        /\ panel'[g].shows = IF g = h THEN s ELSE panel[g].shows
        /\ panel'[g].link = IF g = h THEN l ELSE panel[g].link
        /\ panel'[g].op = IF g = h THEN o ELSE panel[g].op
        /\ panel'[g].at = IF g = h THEN a ELSE panel[g].at
        /\ panel'[g].answer = IF g = h THEN n ELSE panel[g].answer

\* A panel of these fields.
PanelHas(q, s, l, o, a, n) ==
    q \in Panel /\ q.shows = s /\ q.link = l /\ q.op = o /\ q.at = a /\ q.answer = n

PanelOps == {"none", "share", "revoke", "cancel"}
PanelAts == {"sent", "new", "found", "committed", "done", "refused"}

\* What an update leaves.
LEMMA PanelExcepts ==
    ASSUME NEW r \in Panel, NEW x \in Tokens \cup {None}
    PROVE  /\ PanelHas([r EXCEPT !.shows = "nothing", !.link = x], "nothing", x, r.op, r.at, r.answer)
           /\ \A o \in PanelOps :
                 /\ PanelHas([r EXCEPT !.op = o, !.at = "sent", !.answer = x], r.shows, r.link, o, "sent", x)
                 /\ PanelHas([r EXCEPT !.op = o], r.shows, r.link, o, r.at, r.answer)
           /\ \A a \in PanelAts :
                 /\ PanelHas([r EXCEPT !.at = a, !.answer = x], r.shows, r.link, r.op, a, x)
                 /\ PanelHas([r EXCEPT !.at = a], r.shows, r.link, r.op, a, r.answer)
<1>1. PanelHas([r EXCEPT !.shows = "nothing", !.link = x], "nothing", x, r.op, r.at, r.answer)
  BY DEF PanelHas, Panel
<1>2. ASSUME NEW o \in PanelOps
      PROVE  PanelHas([r EXCEPT !.op = o, !.at = "sent", !.answer = x], r.shows, r.link, o, "sent", x)
  BY DEF PanelHas, Panel, PanelOps
<1>3. ASSUME NEW o \in PanelOps
      PROVE  PanelHas([r EXCEPT !.op = o], r.shows, r.link, o, r.at, r.answer)
  BY DEF PanelHas, Panel, PanelOps
<1>4. ASSUME NEW a \in PanelAts
      PROVE  PanelHas([r EXCEPT !.at = a, !.answer = x], r.shows, r.link, r.op, a, x)
  BY DEF PanelHas, Panel, PanelAts
<1>5. ASSUME NEW a \in PanelAts
      PROVE  PanelHas([r EXCEPT !.at = a], r.shows, r.link, r.op, a, r.answer)
  BY DEF PanelHas, Panel, PanelAts
<1>6. QED
  BY <1>1, <1>2, <1>3, <1>4, <1>5

\* The pages after one of them is set.
LEMMA PanelSets ==
    ASSUME ShareTypeOK, NEW h \in Owners, NEW s, NEW l, NEW o, NEW a, NEW n,
           NEW q, PanelHas(q, s, l, o, a, n), panel' = [panel EXCEPT ![h] = q]
    PROVE  PageSets(h, s, l, o, a, n) /\ panel' \in [Owners -> Panel]
<1>1. panel \in [Owners -> Panel] /\ q \in Panel
  BY DEF ShareTypeOK, PanelHas
<1>2. \A g \in Owners : panel'[g] = IF g = h THEN q ELSE panel[g]
  BY <1>1
<1>3. PageSets(h, s, l, o, a, n)
  BY <1>2 DEF PageSets, PanelHas
<1>4. QED
  BY <1>1, <1>3

\* What each step does to the pages.
LEMMA PageSteps ==
    ASSUME ShareTypeOK, NEW h \in Owners
    PROVE  LET p == panel[h]
               sets(s, l, o, a, n) == PageSets(h, s, l, o, a, n) /\ panel' \in [Owners -> Panel]
           IN  /\ OpenTicket(h) => sets(ticket.status, None, "none", "sent", None)
               /\ CloseTicket(h) => sets("nothing", None, p.op, p.at, p.answer)
               /\ \A op \in {"share", "revoke", "cancel"} :
                     Asking(h, op) => sets(p.shows, p.link, op, "sent", None)
               /\ ShareReads(h) =>
                     sets(p.shows, p.link, "share",
                          IF ticket.status = "CANCELLED" THEN "refused"
                          ELSE IF HasLiveShareLink THEN "done" ELSE "new",
                          IF HasLiveShareLink THEN ticket.token ELSE None)
               /\ ShareWrites(h) => sets(p.shows, p.link, "share", "done", made + 1)
               /\ RevokeReads(h) =>
                     sets(p.shows, p.link, "revoke",
                          IF ticket.token = None \/ ticket.revoked THEN "done" ELSE "found", p.answer)
               /\ RevokeWrites(h) => sets(p.shows, p.link, "revoke", "done", p.answer)
               /\ CancelReads(h) =>
                     sets(p.shows, p.link, "cancel",
                          IF ticket.status = "ACTIVE" /\ phase = "before" THEN "found" ELSE "refused",
                          p.answer)
               /\ CancelCommits(h) => sets(p.shows, p.link, "cancel", "committed", p.answer)
               /\ CancelRefunds(h) => sets(p.shows, p.link, "cancel", "done", p.answer)
               /\ ShareFails(h) => sets(p.shows, p.link, "none", p.at, p.answer)
<1> DEFINE p == panel[h]
           sets(s, l, o, a, n) == PageSets(h, s, l, o, a, n) /\ panel' \in [Owners -> Panel]
<1>1. p \in Panel /\ p.answer \in Tokens \cup {None}
  BY DEF ShareTypeOK, Panel
<1>2. ticket.status \in Status /\ ticket.token \in Tokens \cup {None} /\ None \in Tokens \cup {None}
  BY DEF ShareTypeOK, TicketShare
<1>3. panel \in [Owners -> Panel]
  BY DEF ShareTypeOK
<1>4. ASSUME NEW s, NEW l, NEW o, NEW a, NEW n, NEW q,
             PanelHas(q, s, l, o, a, n), panel' = [panel EXCEPT ![h] = q]
      PROVE  sets(s, l, o, a, n)
  BY <1>4, PanelSets
<1> HIDE DEF sets
<1>5. OpenTicket(h) => sets(ticket.status, None, "none", "sent", None)
  <2>1. PanelHas([Closed EXCEPT !.shows = ticket.status], ticket.status, None, "none", "sent", None)
    BY <1>2 DEF Closed, PanelHas, Panel
  <2>2. OpenTicket(h) => panel' = [panel EXCEPT ![h] = [Closed EXCEPT !.shows = ticket.status]]
    BY DEF OpenTicket
  <2>3. QED
    BY <1>4, <2>1, <2>2
<1>6. CloseTicket(h) => sets("nothing", None, p.op, p.at, p.answer)
  <2>1. PanelHas([p EXCEPT !.shows = "nothing", !.link = None], "nothing", None, p.op, p.at, p.answer)
    BY <1>1, <1>2, PanelExcepts
  <2>2. CloseTicket(h) => panel' = [panel EXCEPT ![h] = [p EXCEPT !.shows = "nothing", !.link = None]]
    BY <1>3 DEF CloseTicket
  <2>3. QED
    BY <1>4, <2>1, <2>2
<1>7. ASSUME NEW op \in {"share", "revoke", "cancel"}, Asking(h, op)
      PROVE  sets(p.shows, p.link, op, "sent", None)
  <2>1. PanelHas([p EXCEPT !.op = op, !.at = "sent", !.answer = None], p.shows, p.link, op, "sent", None)
    BY <1>1, <1>2, PanelExcepts DEF PanelOps
  <2>2. panel' = [panel EXCEPT ![h] = [p EXCEPT !.op = op, !.at = "sent", !.answer = None]]
    BY <1>7, <1>3 DEF Asking
  <2>3. QED
    BY <1>4, <2>1, <2>2
<1>8. ASSUME NEW a \in PanelAts, NEW n \in Tokens \cup {None}
      PROVE  /\ panel' = [panel EXCEPT ![h].at = a, ![h].answer = n] => sets(p.shows, p.link, p.op, a, n)
             /\ panel' = [panel EXCEPT ![h].at = a] => sets(p.shows, p.link, p.op, a, p.answer)
  <2>1. /\ PanelHas([p EXCEPT !.at = a, !.answer = n], p.shows, p.link, p.op, a, n)
        /\ PanelHas([p EXCEPT !.at = a], p.shows, p.link, p.op, a, p.answer)
    BY <1>1, PanelExcepts
  <2>2. /\ [panel EXCEPT ![h].at = a, ![h].answer = n] = [panel EXCEPT ![h] = [p EXCEPT !.at = a, !.answer = n]]
        /\ [panel EXCEPT ![h].at = a] = [panel EXCEPT ![h] = [p EXCEPT !.at = a]]
    BY <1>3
  <2>3. QED
    BY <1>4, <2>1, <2>2
<1>9. ShareReads(h) =>
          sets(p.shows, p.link, "share",
               IF ticket.status = "CANCELLED" THEN "refused"
               ELSE IF HasLiveShareLink THEN "done" ELSE "new",
               IF HasLiveShareLink THEN ticket.token ELSE None)
  <2> DEFINE a == IF ticket.status = "CANCELLED" THEN "refused"
                  ELSE IF HasLiveShareLink THEN "done" ELSE "new"
             n == IF HasLiveShareLink THEN ticket.token ELSE None
  <2>1. a \in PanelAts /\ n \in Tokens \cup {None}
    BY <1>2 DEF PanelAts
  <2>2. ShareReads(h) => p.op = "share" /\ panel' = [panel EXCEPT ![h].at = a, ![h].answer = n]
    BY DEF ShareReads, At
  <2> HIDE DEF a, n
  <2>3. ShareReads(h) => sets(p.shows, p.link, "share", a, n)
    BY <1>8, <2>1, <2>2
  <2>4. QED
    BY <2>3 DEF a, n
<1>10. ShareWrites(h) => sets(p.shows, p.link, "share", "done", made + 1)
  <2>1. ShareWrites(h) => made + 1 \in Tokens
    BY ShareAssumption DEF ShareWrites, ShareTypeOK, Tokens
  <2>2. ShareWrites(h) => p.op = "share" /\ panel' = [panel EXCEPT ![h].at = "done", ![h].answer = made + 1]
    BY DEF ShareWrites, At, NewToken
  <2>3. "done" \in PanelAts
    BY DEF PanelAts
  <2>4. QED
    BY <1>8, <2>1, <2>2, <2>3
<1>11. RevokeReads(h) =>
          sets(p.shows, p.link, "revoke",
               IF ticket.token = None \/ ticket.revoked THEN "done" ELSE "found", p.answer)
  <2> DEFINE a == IF ticket.token = None \/ ticket.revoked THEN "done" ELSE "found"
  <2>1. a \in PanelAts
    BY DEF PanelAts
  <2>2. RevokeReads(h) => p.op = "revoke" /\ panel' = [panel EXCEPT ![h].at = a]
    BY DEF RevokeReads, At
  <2> HIDE DEF a
  <2>3. RevokeReads(h) => sets(p.shows, p.link, "revoke", a, p.answer)
    BY <1>1, <1>2, <1>8, <2>1, <2>2
  <2>4. QED
    BY <2>3 DEF a
<1>12. CancelReads(h) =>
          sets(p.shows, p.link, "cancel",
               IF ticket.status = "ACTIVE" /\ phase = "before" THEN "found" ELSE "refused", p.answer)
  <2> DEFINE a == IF ticket.status = "ACTIVE" /\ phase = "before" THEN "found" ELSE "refused"
  <2>1. a \in PanelAts
    BY DEF PanelAts
  <2>2. CancelReads(h) => p.op = "cancel" /\ panel' = [panel EXCEPT ![h].at = a]
    BY DEF CancelReads, At
  <2> HIDE DEF a
  <2>3. CancelReads(h) => sets(p.shows, p.link, "cancel", a, p.answer)
    BY <1>1, <1>2, <1>8, <2>1, <2>2
  <2>4. QED
    BY <2>3 DEF a
<1>13. /\ RevokeWrites(h) => sets(p.shows, p.link, "revoke", "done", p.answer)
       /\ CancelCommits(h) => sets(p.shows, p.link, "cancel", "committed", p.answer)
       /\ CancelRefunds(h) => sets(p.shows, p.link, "cancel", "done", p.answer)
  <2>1. /\ RevokeWrites(h) => p.op = "revoke" /\ panel' = [panel EXCEPT ![h].at = "done"]
        /\ CancelCommits(h) => p.op = "cancel" /\ panel' = [panel EXCEPT ![h].at = "committed"]
        /\ CancelRefunds(h) => p.op = "cancel" /\ panel' = [panel EXCEPT ![h].at = "done"]
    BY DEF RevokeWrites, CancelCommits, CancelRefunds, At, AfterCommit
  <2>2. "done" \in PanelAts /\ "committed" \in PanelAts
    BY DEF PanelAts
  <2>3. QED
    BY <1>1, <1>2, <1>8, <2>1, <2>2
<1>14. ShareFails(h) => sets(p.shows, p.link, "none", p.at, p.answer)
  <2>1. PanelHas([p EXCEPT !.op = "none"], p.shows, p.link, "none", p.at, p.answer)
    BY <1>1, <1>2, PanelExcepts DEF PanelOps
  <2>2. ShareFails(h) => panel' = [panel EXCEPT ![h] = [p EXCEPT !.op = "none"]]
    BY <1>3 DEF ShareFails
  <2>3. QED
    BY <1>4, <2>1, <2>2
<1>15. QED
  BY <1>5, <1>6, <1>7, <1>9, <1>10, <1>11, <1>12, <1>13, <1>14 DEF sets

\* The answers: of each kind of request, and to a page that was left.
LEMMA PageAnswers ==
    ASSUME ShareTypeOK, NEW h \in Owners, ShareAnswered(h)
    PROVE  LET p == panel[h]
           IN  /\ panel' \in [Owners -> Panel]
               /\ p.op \in {"share", "revoke", "cancel"}
               /\ p.shows = "nothing" => PageSets(h, "nothing", None, "none", "sent", None)
               /\ p.shows # "nothing" =>
                     PageSets(h, IF p.op = "cancel" THEN ticket.status ELSE p.shows,
                              IF p.op = "share" THEN p.answer ELSE None, "none", p.at, p.answer)
<1> DEFINE p == panel[h]
<1>1. /\ p \in Panel /\ p.op \in {"share", "revoke", "cancel"}
      /\ ticket.status \in Status /\ panel \in [Owners -> Panel]
  BY DEF ShareTypeOK, Panel, ShareAnswered, TicketShare
<1>2. CASE p.shows = "nothing"
  <2>1. PanelHas(Closed, "nothing", None, "none", "sent", None)
    BY DEF Closed, PanelHas, Panel
  <2>2. panel' = [panel EXCEPT ![h] = Closed]
    BY <1>1, <1>2 DEF ShareAnswered
  <2>3. QED
    BY <1>1, <1>2, <2>1, <2>2, PanelSets
<1>3. CASE p.shows # "nothing"
  <2> DEFINE s == IF p.op = "cancel" THEN ticket.status ELSE p.shows
             l == IF p.op = "share" THEN p.answer ELSE None
  <2>1. PanelHas(Answered(h), s, l, "none", p.at, p.answer)
    <3>1. CASE p.op = "share"
      BY <1>1, <3>1 DEF Answered, PanelHas, Panel
    <3>2. CASE p.op = "revoke"
      BY <1>1, <3>2 DEF Answered, PanelHas, Panel
    <3>3. CASE p.op = "cancel"
      BY <1>1, <3>3 DEF Answered, PanelHas, Panel
    <3>4. QED
      BY <1>1, <3>1, <3>2, <3>3
  <2>2. panel' = [panel EXCEPT ![h] = Answered(h)]
    BY <1>1, <1>3 DEF ShareAnswered
  <2> HIDE DEF s, l
  <2>3. PageSets(h, s, l, "none", p.at, p.answer) /\ panel' \in [Owners -> Panel]
    BY <2>1, <2>2, PanelSets
  <2>4. QED
    BY <1>1, <1>3, <2>3 DEF s, l
<1>4. QED
  BY <1>2, <1>3
\* What is dead stays so: a new token is a new number, and a revocation is
\* undone by a new token only.
LEMMA DeadStays ==
    ASSUME ShareInv, ShareNext, NEW k, Dead(k)
    PROVE  Dead(k)'
<1> USE ShareTypes DEF ShareInv
<1>1. ticket \in TicketShare /\ made \in Nat
  BY DEF ShareTypeOK
<1>2. \/ UNCHANGED <<ticket, made>>
      \/ ticket'.token = made + 1 /\ made' = made + 1
      \/ ticket'.token = ticket.token /\ (ticket'.revoked = ticket.revoked \/ ticket'.revoked) /\ made' = made
  <2>1. ASSUME NEW h \in Owners, ShareWrites(h)
        PROVE  ticket'.token = made + 1 /\ made' = made + 1
    BY <1>1, <2>1 DEF ShareWrites, NewToken, TicketShare
  <2>2. ASSUME NEW h \in Owners, RevokeWrites(h) \/ CancelCommits(h)
        PROVE  ticket'.token = ticket.token /\ (ticket'.revoked = ticket.revoked \/ ticket'.revoked) /\ made' = made
    BY <1>1, <2>2 DEF RevokeWrites, CancelCommits, TicketShare
  <2>3. ASSUME TicketIsUsed
        PROVE  ticket'.token = ticket.token /\ ticket'.revoked = ticket.revoked /\ made' = made
    BY <1>1, <2>3 DEF TicketIsUsed, TicketShare
  <2>4. ASSUME NEW h \in Owners,
               \/ OpenTicket(h) \/ CloseTicket(h) \/ AskShare(h) \/ AskRevoke(h) \/ AskCancel(h)
               \/ ShareReads(h) \/ RevokeReads(h) \/ CancelReads(h) \/ CancelRefunds(h)
               \/ ShareAnswered(h) \/ ShareFails(h) \/ \E g \in Owners : GivesUp(h, g)
        PROVE  UNCHANGED <<ticket, made>>
    BY <2>4 DEF OpenTicket, CloseTicket, AskShare, AskRevoke, AskCancel, Asking, ShareReads, RevokeReads,
                CancelReads, CancelRefunds, ShareAnswered, ShareFails, GivesUp
  <2>5. ASSUME \/ \E l \in Tokens : FollowLink(l)
               \/ SharedTicket \/ CloseLink \/ EventGoesOn
        PROVE  UNCHANGED <<ticket, made>>
    BY <2>5 DEF FollowLink, SharedTicket, CloseLink, EventGoesOn
  <2>6. QED
    BY <2>1, <2>2, <2>3, <2>4, <2>5 DEF ShareNext
<1>3. QED
  BY <1>1, <1>2 DEF Dead

\* A page that gives up on its handler leaves it to its place.
LEMMA GivenUp ==
    ASSUME ShareTypeOK, NEW h \in Owners, NEW g \in Owners, GivesUp(h, g)
    PROVE  /\ panel' \in [Owners -> Panel]
           /\ panel[h].op # "none" /\ panel[h].at # "done" /\ panel[g].op = "none" /\ g # h
           /\ PanelHas(panel'[h], "nothing", None, panel[h].op, panel[h].at, panel[h].answer)
           /\ PanelHas(panel'[g], panel[h].shows, panel[h].link, "none", panel[h].at, panel[h].answer)
           /\ \A x \in Owners \ {h, g} : panel'[x] = panel[x]
<1>1. PICK p, q : /\ p = [panel[h] EXCEPT !.shows = "nothing", !.link = None]
                  /\ q = [panel[h] EXCEPT !.op = "none"]
  OBVIOUS
<1>2. /\ panel \in [Owners -> Panel] /\ panel[h] \in Panel /\ None \in Tokens \cup {None}
      /\ panel[h].op # "none" /\ panel[h].at # "done" /\ panel[g].op = "none" /\ g # h
  BY DEF ShareTypeOK, GivesUp
<1>3. /\ PanelHas(p, "nothing", None, panel[h].op, panel[h].at, panel[h].answer)
      /\ PanelHas(q, panel[h].shows, panel[h].link, "none", panel[h].at, panel[h].answer)
  BY <1>1, <1>2, PanelExcepts DEF PanelOps
<1>4. panel' = [panel EXCEPT ![h] = p, ![g] = q]
  BY <1>1 DEF GivesUp
<1>5. p \in Panel /\ q \in Panel
  BY <1>3 DEF PanelHas
<1>6. QED
  BY <1>2, <1>3, <1>4, <1>5

LEMMA GivesUpKeeps ==
    ASSUME ShareInv, ShareNext, NEW h \in Owners, NEW g \in Owners, GivesUp(h, g)
    PROVE  LinksAreMade' /\ GoneIsDead' /\ LinkIsLive' /\ CancelledIsRefunded'
<1> USE ShareTypes DEF ShareInv
<1>1. UNCHANGED <<ticket, refunded, made, visit, gone, crossed>>
  BY DEF GivesUp
<1>2. /\ panel[h].op # "none" /\ panel[h].at # "done" /\ panel[g].op = "none" /\ g # h
      /\ PanelHas(panel'[h], "nothing", None, panel[h].op, panel[h].at, panel[h].answer)
      /\ PanelHas(panel'[g], panel[h].shows, panel[h].link, "none", panel[h].at, panel[h].answer)
      /\ \A x \in Owners : x = h \/ x = g \/ panel'[x] = panel[x]
  BY GivenUp
<1>3. LinksAreMade'
  BY <1>1, <1>2 DEF LinksAreMade, PanelHas
<1>4. GoneIsDead'
  BY <1>1, <1>2, DeadStays DEF GoneIsDead, At, PanelHas
<1>5. LinkIsLive'
  BY <1>1, <1>2 DEF LinkIsLive, At, PanelHas
<1>6. CancelledIsRefunded'
  BY <1>1, <1>2 DEF CancelledIsRefunded, At, PanelHas
<1>7. QED
  BY <1>3, <1>4, <1>5, <1>6

\* A step of a page or of its handler keeps the invariant.
LEMMA PageStepsKeep ==
    ASSUME ShareInv, ShareNext, NEW h \in Owners,
           \/ OpenTicket(h) \/ CloseTicket(h) \/ ShareReads(h) \/ ShareWrites(h)
           \/ RevokeReads(h) \/ RevokeWrites(h) \/ CancelReads(h) \/ CancelCommits(h)
           \/ CancelRefunds(h) \/ ShareFails(h)
    PROVE  LinksAreMade' /\ GoneIsDead' /\ LinkIsLive' /\ CancelledIsRefunded'
<1> DEFINE p == panel[h]
<1> USE ShareTypes DEF ShareInv
<1>1. CASE OpenTicket(h)
  <2>1. PageSets(h, ticket.status, None, "none", "sent", None)
    BY <1>1, PageSteps
  <2>2. p.op = "none" /\ UNCHANGED <<ticket, refunded, made, visit, gone, crossed>>
    BY <1>1 DEF OpenTicket
  <2>3. LinksAreMade'
    BY <2>1, <2>2 DEF LinksAreMade, PageSets
  <2>4. GoneIsDead'
    BY <2>1, <2>2, DeadStays DEF GoneIsDead, At, PageSets
  <2>5. LinkIsLive'
    BY <2>1, <2>2 DEF LinkIsLive, At, Crossing, PageSets
  <2>6. CancelledIsRefunded'
    BY <2>1, <2>2 DEF CancelledIsRefunded, At, PageSets
  <2>7. QED
    BY <2>3, <2>4, <2>5, <2>6
<1>2. CASE CloseTicket(h)
  <2>1. PageSets(h, "nothing", None, p.op, p.at, p.answer)
    BY <1>2, PageSteps
  <2>2. UNCHANGED <<ticket, refunded, made, visit, gone, crossed>>
    BY <1>2 DEF CloseTicket
  <2>3. LinksAreMade'
    BY <2>1, <2>2 DEF LinksAreMade, PageSets
  <2>4. GoneIsDead'
    BY <2>1, <2>2, DeadStays DEF GoneIsDead, At, PageSets
  <2>5. LinkIsLive'
    BY <2>1, <2>2 DEF LinkIsLive, At, Crossing, PageSets
  <2>6. CancelledIsRefunded'
    BY <2>1, <2>2 DEF CancelledIsRefunded, At, PageSets
  <2>7. QED
    BY <2>3, <2>4, <2>5, <2>6
<1>3. CASE ShareReads(h)
  <2>1. PageSets(h, p.shows, p.link, "share",
                 IF ticket.status = "CANCELLED" THEN "refused" ELSE IF HasLiveShareLink THEN "done" ELSE "new",
                 IF HasLiveShareLink THEN ticket.token ELSE None)
    BY <1>3, PageSteps
  <2>2. p.op = "share" /\ p.at = "sent" /\ UNCHANGED <<ticket, refunded, made, visit, gone, crossed>>
    BY <1>3 DEF ShareReads, At
  <2>3. LinksAreMade'
    BY <2>1, <2>2 DEF LinksAreMade, PageSets, HasLiveShareLink
  <2>4. GoneIsDead'
    BY <2>1, <2>2, DeadStays DEF GoneIsDead, At, PageSets
  <2>5. LinkIsLive'
    BY <2>1, <2>2 DEF LinkIsLive, At, Crossing, PageSets, HasLiveShareLink
  <2>6. CancelledIsRefunded'
    BY <2>1, <2>2 DEF CancelledIsRefunded, At, PageSets
  <2>7. QED
    BY <2>3, <2>4, <2>5, <2>6
<1>4. CASE ShareWrites(h)
  <2>1. PageSets(h, p.shows, p.link, "share", "done", made + 1)
    BY <1>4, PageSteps
  <2>2. p.op = "share" /\ p.at = "new" /\ made < MaxTokens /\ made' = made + 1
        /\ ticket'.token = made + 1 /\ ~ticket'.revoked /\ ticket'.status = ticket.status
        /\ crossed' = crossed \cup ({ticket.token} \ {None}) \cup (IF Crossing(h) THEN {made + 1} ELSE {})
        /\ UNCHANGED <<refunded, visit, gone>>
    BY <1>4 DEF ShareWrites, At, NewToken, TicketShare
  <2>3. LinksAreMade'
    BY <2>1, <2>2 DEF LinksAreMade, PageSets
  <2>4. GoneIsDead'
    BY <2>1, <2>2, DeadStays DEF GoneIsDead, At, PageSets
  <2>5. LinkIsLive'
    BY <2>1, <2>2 DEF LinkIsLive, At, Crossing, PageSets
  <2>6. CancelledIsRefunded'
    BY <2>1, <2>2 DEF CancelledIsRefunded, At, PageSets
  <2>7. QED
    BY <2>3, <2>4, <2>5, <2>6
<1>5. CASE RevokeReads(h)
  <2>1. PageSets(h, p.shows, p.link, "revoke",
                 IF ticket.token = None \/ ticket.revoked THEN "done" ELSE "found", p.answer)
    BY <1>5, PageSteps
  <2>2. p.op = "revoke" /\ p.at = "sent" /\ UNCHANGED <<ticket, refunded, made, visit, gone, crossed>>
    BY <1>5 DEF RevokeReads, At
  <2>3. LinksAreMade'
    BY <2>1, <2>2 DEF LinksAreMade, PageSets
  <2>4. GoneIsDead'
    <3>1. PICK l : l = p.link
      OBVIOUS
    <3>2. l # None /\ panel'[h].at = "done" => Dead(l)'
      BY <2>1, <2>2, <3>1, DeadStays DEF Dead, LinksAreMade, PageSets
    <3>3. QED
      BY <2>1, <2>2, <3>1, <3>2, DeadStays DEF GoneIsDead, At, PageSets
  <2>5. LinkIsLive'
    BY <2>1, <2>2 DEF LinkIsLive, At, Crossing, PageSets
  <2>6. CancelledIsRefunded'
    BY <2>1, <2>2 DEF CancelledIsRefunded, At, PageSets
  <2>7. QED
    BY <2>3, <2>4, <2>5, <2>6
<1>6. CASE RevokeWrites(h)
  <2>1. PageSets(h, p.shows, p.link, "revoke", "done", p.answer)
    BY <1>6, PageSteps
  <2>2. p.op = "revoke" /\ p.at = "found" /\ UNCHANGED <<refunded, made, visit, gone>>
        /\ ticket'.token = ticket.token /\ ticket'.revoked /\ ticket'.status = ticket.status
        /\ crossed' = crossed \cup (IF p.link # ticket.token \/ Crossing(h)
                                      \/ \E g \in Owners \ {h} : panel[g].link = ticket.token
                                   THEN {ticket.token} ELSE {})
    BY <1>6 DEF RevokeWrites, At, TicketShare
  <2>3. LinksAreMade'
    BY <2>1, <2>2 DEF LinksAreMade, PageSets
  <2>4. GoneIsDead'
    <3>1. PICK l : l = p.link
      OBVIOUS
    <3>2. l # None /\ panel'[h].at = "done" => Dead(l)'
      BY <2>1, <2>2, <3>1 DEF Dead, LinksAreMade, PageSets
    <3>3. QED
      BY <2>1, <2>2, <3>1, <3>2, DeadStays DEF GoneIsDead, At, PageSets
  <2>5. LinkIsLive'
    BY <2>1, <2>2 DEF LinkIsLive, At, Crossing, PageSets
  <2>6. CancelledIsRefunded'
    BY <2>1, <2>2 DEF CancelledIsRefunded, At, PageSets
  <2>7. QED
    BY <2>3, <2>4, <2>5, <2>6
<1>7. CASE CancelReads(h)
  <2>1. PageSets(h, p.shows, p.link, "cancel",
                 IF ticket.status = "ACTIVE" /\ phase = "before" THEN "found" ELSE "refused", p.answer)
    BY <1>7, PageSteps
  <2>2. p.op = "cancel" /\ p.at = "sent" /\ UNCHANGED <<ticket, refunded, made, visit, gone, crossed>>
    BY <1>7 DEF CancelReads, At
  <2>3. LinksAreMade'
    BY <2>1, <2>2 DEF LinksAreMade, PageSets
  <2>4. GoneIsDead'
    BY <2>1, <2>2, DeadStays DEF GoneIsDead, At, PageSets
  <2>5. LinkIsLive'
    BY <2>1, <2>2 DEF LinkIsLive, At, Crossing, PageSets
  <2>6. CancelledIsRefunded'
    BY <2>1, <2>2 DEF CancelledIsRefunded, At, PageSets
  <2>7. QED
    BY <2>3, <2>4, <2>5, <2>6
<1>8. CASE CancelCommits(h)
  <2>1. PageSets(h, p.shows, p.link, "cancel", "committed", p.answer)
    BY <1>8, PageSteps
  <2>2. p.op = "cancel" /\ p.at = "found" /\ UNCHANGED <<refunded, made, visit, gone, crossed>>
        /\ ticket'.token = ticket.token /\ ticket'.revoked = ticket.revoked /\ ticket'.status = "CANCELLED"
    BY <1>8 DEF CancelCommits, At, TicketShare
  <2>3. LinksAreMade'
    BY <2>1, <2>2 DEF LinksAreMade, PageSets
  <2>4. GoneIsDead'
    BY <2>1, <2>2, DeadStays DEF GoneIsDead, At, PageSets
  <2>5. LinkIsLive'
    BY <2>1, <2>2 DEF LinkIsLive, At, Crossing, PageSets
  <2>6. CancelledIsRefunded'
    BY <2>1, <2>2 DEF CancelledIsRefunded, At, PageSets
  <2>7. QED
    BY <2>3, <2>4, <2>5, <2>6
<1>9. CASE CancelRefunds(h)
  <2>1. PageSets(h, p.shows, p.link, "cancel", "done", p.answer)
    BY <1>9, PageSteps
  <2>2. p.op = "cancel" /\ p.at = "committed" /\ UNCHANGED <<ticket, made, visit, gone, crossed>>
        /\ refunded' # {}
    BY <1>9 DEF CancelRefunds, At
  <2>3. LinksAreMade'
    BY <2>1, <2>2 DEF LinksAreMade, PageSets
  <2>4. GoneIsDead'
    BY <2>1, <2>2, DeadStays DEF GoneIsDead, At, PageSets
  <2>5. LinkIsLive'
    BY <2>1, <2>2 DEF LinkIsLive, At, Crossing, PageSets
  <2>6. CancelledIsRefunded'
    BY <2>1, <2>2 DEF CancelledIsRefunded, At, PageSets
  <2>7. QED
    BY <2>3, <2>4, <2>5, <2>6
<1>10. CASE ShareFails(h)
  <2>1. PageSets(h, p.shows, p.link, "none", p.at, p.answer)
    BY <1>10, PageSteps
  <2>2. p.op # "none" /\ UNCHANGED <<ticket, made, visit, gone>>
        /\ refunded' = refunded \cup (IF At(h, "cancel", "committed") THEN {"failed"} ELSE {})
        /\ crossed' = crossed \cup (IF p.at = "done" THEN {p.link, ticket.token} \ {None} ELSE {})
    BY <1>10 DEF ShareFails
  <2>3. LinksAreMade'
    BY <2>1, <2>2 DEF LinksAreMade, PageSets
  <2>4. GoneIsDead'
    BY <2>1, <2>2, DeadStays DEF GoneIsDead, At, PageSets
  <2>5. LinkIsLive'
    BY <2>1, <2>2 DEF LinkIsLive, At, Crossing, PageSets
  <2>6. CancelledIsRefunded'
    BY <2>1, <2>2 DEF CancelledIsRefunded, At, PageSets
  <2>7. QED
    BY <2>3, <2>4, <2>5, <2>6
<1>11. QED
  BY <1>1, <1>2, <1>3, <1>4, <1>5, <1>6, <1>7, <1>8, <1>9, <1>10

\* So does asking, the answer, and what the visitor and the world do.
LEMMA OtherShareStepsKeep ==
    ASSUME ShareInv, ShareNext,
           \/ \E h \in Owners : AskShare(h) \/ AskRevoke(h) \/ AskCancel(h) \/ ShareAnswered(h)
           \/ \E k \in Tokens : FollowLink(k)
           \/ SharedTicket \/ CloseLink \/ TicketIsUsed \/ EventGoesOn
    PROVE  LinksAreMade' /\ GoneIsDead' /\ LinkIsLive' /\ CancelledIsRefunded'
<1> USE ShareTypes DEF ShareInv
<1>1. ASSUME NEW h \in Owners, AskShare(h) \/ AskRevoke(h) \/ AskCancel(h)
      PROVE  LinksAreMade' /\ GoneIsDead' /\ LinkIsLive' /\ CancelledIsRefunded'
  <2>1. PICK op \in {"share", "revoke", "cancel"} : Asking(h, op)
    BY <1>1 DEF AskShare, AskRevoke, AskCancel
  <2>2. PageSets(h, panel[h].shows, panel[h].link, op, "sent", None)
    BY <2>1, PageSteps
  <2>3. panel[h].op = "none" /\ UNCHANGED <<ticket, refunded, made, visit, gone, crossed>>
    BY <2>1 DEF Asking
  <2>4. LinksAreMade'
    BY <2>2, <2>3 DEF LinksAreMade, PageSets
  <2>5. GoneIsDead'
    BY <2>2, <2>3, DeadStays DEF GoneIsDead, At, PageSets
  <2>6. LinkIsLive'
    BY <2>2, <2>3 DEF LinkIsLive, At, PageSets
  <2>7. CancelledIsRefunded'
    BY <2>2, <2>3 DEF CancelledIsRefunded, At, PageSets
  <2>8. QED
    BY <2>4, <2>5, <2>6, <2>7
<1>2. ASSUME NEW h \in Owners, ShareAnswered(h)
      PROVE  LinksAreMade' /\ GoneIsDead' /\ LinkIsLive' /\ CancelledIsRefunded'
  <2> DEFINE p == panel[h]
  <2>1. PICK s, l, a, n :
            /\ PageSets(h, s, l, "none", a, n)
            /\ s # "nothing" => s = IF p.op = "cancel" THEN ticket.status ELSE p.shows
            /\ l = None \/ (p.op = "share" /\ l = p.answer)
            /\ n \in {None, p.answer}
    <3>1. CASE p.shows = "nothing"
      BY <1>2, <3>1, PageAnswers
    <3>2. CASE p.shows # "nothing"
      BY <1>2, <3>2, PageAnswers
    <3>3. QED
      BY <3>1, <3>2
  <2>2. /\ p.op # "none" /\ p.at = "done" /\ UNCHANGED <<ticket, refunded, made, visit, crossed>>
        /\ gone' = gone \cup (IF p.op = "revoke" THEN {p.link} \ {None} ELSE {})
    BY <1>2 DEF ShareAnswered
  <2>3. LinksAreMade'
    BY <2>1, <2>2 DEF LinksAreMade, PageSets
  <2>4. GoneIsDead'
    <3>1. \A k \in gone' : Dead(k)
      BY <2>2 DEF GoneIsDead, At
    <3>2. QED
      BY <2>1, <2>2, <3>1, DeadStays DEF GoneIsDead, At, PageSets
  <2>5. LinkIsLive'
    BY <2>1, <2>2 DEF LinkIsLive, At, PageSets
  <2>6. CancelledIsRefunded'
    BY <2>1, <2>2 DEF CancelledIsRefunded, At, PageSets
  <2>7. QED
    BY <2>3, <2>4, <2>5, <2>6
<1>3. ASSUME \/ \E k \in Tokens : FollowLink(k)
             \/ SharedTicket \/ CloseLink \/ TicketIsUsed \/ EventGoesOn
      PROVE  LinksAreMade' /\ GoneIsDead' /\ LinkIsLive' /\ CancelledIsRefunded'
  <2>1. /\ UNCHANGED <<panel, refunded, made, gone, crossed>>
        /\ ticket'.token = ticket.token /\ ticket'.revoked = ticket.revoked
        /\ ticket'.status = "CANCELLED" <=> ticket.status = "CANCELLED"
    BY <1>3 DEF FollowLink, SharedTicket, CloseLink, TicketIsUsed, EventGoesOn, TicketShare
  <2>2. /\ visit'.link <= made
        /\ visit'.late => visit'.link \in gone /\ visit'.at # "ticket"
    <3>1. CASE \E k \in Tokens : FollowLink(k)
      <4>1. PICK k \in Tokens : k \in 1 .. made /\ visit' = [link |-> k, at |-> "loading", late |-> k \in gone]
        BY <3>1 DEF FollowLink
      <4>2. visit'.link = k /\ visit'.at = "loading"
        BY <4>1
      <4>3. visit'.late => k \in gone
        BY <4>1, Zenon
      <4>4. k <= made
        BY <4>1
      <4>5. QED
        BY <4>2, <4>3, <4>4
    <3>2. CASE SharedTicket
      <4>1. visit'.link = visit.link /\ visit'.late = visit.late
            /\ (visit'.at = "ticket" => Opens(visit.link))
        <5>1. PICK at \in {"ticket", "error"} : at = IF Opens(visit.link) THEN "ticket" ELSE "error"
          OBVIOUS
        <5>2. visit' = [visit EXCEPT !.at = at]
          BY <3>2, <5>1 DEF SharedTicket
        <5>3. visit \in Visit
          OBVIOUS
        <5>4. visit'.link = visit.link /\ visit'.late = visit.late /\ visit'.at = at
          BY <5>2, <5>3 DEF Visit
        <5>5. QED
          BY <5>1, <5>4
      <4>2. visit.late => Dead(visit.link)
        BY DEF GoneIsDead
      <4>3. QED
        BY <4>1, <4>2 DEF GoneIsDead, LinksAreMade, Dead, Opens
    <3>3. CASE CloseLink
      <4>1. visit'.link = visit.link /\ visit'.late = visit.late /\ visit'.at = "away"
        BY <3>3 DEF CloseLink, Visit
      <4>2. QED
        BY <4>1 DEF GoneIsDead, LinksAreMade
    <3>4. CASE TicketIsUsed \/ EventGoesOn
      BY <3>4 DEF TicketIsUsed, EventGoesOn, GoneIsDead, LinksAreMade
    <3>5. QED
      BY <1>3, <3>1, <3>2, <3>3, <3>4
  <2>3. LinksAreMade'
    BY <2>1, <2>2 DEF LinksAreMade
  <2>4. GoneIsDead'
    BY <2>1, <2>2, DeadStays DEF GoneIsDead, At
  <2>5. LinkIsLive'
    BY <2>1 DEF LinkIsLive, At
  <2>6. CancelledIsRefunded'
    BY <2>1 DEF CancelledIsRefunded, At
  <2>7. QED
    BY <2>3, <2>4, <2>5, <2>6
<1>4. QED
  BY <1>1, <1>2, <1>3

LEMMA ShareTypeStep ==
    ASSUME ShareInv, ShareNext
    PROVE  ShareTypeOK'
<1> USE ShareTypes DEF ShareInv
<1>1. ASSUME NEW h \in Owners,
             \/ OpenTicket(h) \/ CloseTicket(h) \/ ShareReads(h) \/ RevokeReads(h) \/ CancelReads(h)
             \/ CancelCommits(h) \/ CancelRefunds(h)
      PROVE  ShareTypeOK'
  <2>1. panel' \in [Owners -> Panel]
    BY <1>1, PageSteps
  <2>2. /\ UNCHANGED <<made, asks, phase, visit, gone, crossed>>
        /\ refunded' \subseteq {"yes", "failed"}
    BY <1>1 DEF OpenTicket, CloseTicket, ShareReads, RevokeReads, CancelReads, CancelCommits, CancelRefunds, ShareTypeOK
  <2>3. ticket' \in TicketShare
    BY <1>1 DEF OpenTicket, CloseTicket, ShareReads, RevokeReads, CancelReads, CancelCommits, CancelRefunds,
                TicketShare, Status
  <2>4. QED
    BY <2>1, <2>2, <2>3 DEF ShareTypeOK
<1>2. ASSUME NEW h \in Owners, AskShare(h) \/ AskRevoke(h) \/ AskCancel(h)
      PROVE  ShareTypeOK'
  <2>1. PICK op \in {"share", "revoke", "cancel"} : Asking(h, op)
    BY <1>2 DEF AskShare, AskRevoke, AskCancel
  <2>2. panel' \in [Owners -> Panel]
    BY <2>1, PageSteps
  <2>3. asks' \in 0 .. MaxAsks
    BY <2>1, ShareAssumption DEF Asking, ShareTypeOK
  <2>4. QED
    BY <2>1, <2>2, <2>3 DEF Asking, ShareTypeOK
<1>3. ASSUME NEW h \in Owners, ShareWrites(h)
      PROVE  ShareTypeOK'
  <2>1. panel' \in [Owners -> Panel]
    BY <1>3, PageSteps
  <2>2. made' \in 0 .. MaxTokens /\ made + 1 \in Tokens
    BY <1>3 DEF ShareWrites
  <2>3. ticket' \in TicketShare
    BY <1>3, <2>2 DEF ShareWrites, NewToken, TicketShare
  <2>4. crossed' \subseteq Tokens
    BY <1>3, <2>2 DEF ShareWrites, NewToken, TicketShare, ShareTypeOK
  <2>5. QED
    BY <1>3, <2>1, <2>2, <2>3, <2>4 DEF ShareWrites, ShareTypeOK
<1>4. ASSUME NEW h \in Owners, RevokeWrites(h)
      PROVE  ShareTypeOK'
  <2>1. panel' \in [Owners -> Panel]
    BY <1>4, PageSteps
  <2>2. ticket' \in TicketShare
    BY <1>4 DEF RevokeWrites, TicketShare
  <2>3. ticket.token \in Tokens
    BY <1>4 DEF RevokeWrites, GoneIsDead, TicketShare
  <2>4. crossed' \subseteq Tokens
    BY <1>4, <2>3 DEF RevokeWrites, ShareTypeOK
  <2>5. QED
    BY <1>4, <2>1, <2>2, <2>4 DEF RevokeWrites, ShareTypeOK
<1>5. ASSUME NEW h \in Owners, ShareAnswered(h)
      PROVE  ShareTypeOK'
  <2>1. panel' \in [Owners -> Panel]
    BY <1>5, PageAnswers
  <2>2. gone' \subseteq Tokens
    BY <1>5 DEF ShareAnswered, ShareTypeOK, Panel
  <2>3. QED
    BY <1>5, <2>1, <2>2 DEF ShareAnswered, ShareTypeOK
<1>6. ASSUME NEW h \in Owners, ShareFails(h)
      PROVE  ShareTypeOK'
  <2>1. panel' \in [Owners -> Panel]
    BY <1>6, PageSteps
  <2>2. panel[h].link \in Tokens \cup {None} /\ ticket.token \in Tokens \cup {None}
    BY DEF Panel, TicketShare
  <2>3. crossed' \subseteq Tokens
    BY <1>6, <2>2 DEF ShareFails, ShareTypeOK
  <2>4. refunded' \subseteq {"yes", "failed"}
    BY <1>6 DEF ShareFails, ShareTypeOK
  <2>5. QED
    BY <1>6, <2>1, <2>3, <2>4 DEF ShareFails, ShareTypeOK
<1>7. CASE \/ \E k \in Tokens : FollowLink(k)
           \/ SharedTicket \/ CloseLink \/ TicketIsUsed \/ EventGoesOn
  <2>1. visit' \in Visit
    <3>1. CASE \E k \in Tokens : FollowLink(k)
      BY <3>1 DEF FollowLink, Visit
    <3>2. CASE SharedTicket
      BY <3>2 DEF SharedTicket, Visit
    <3>3. CASE CloseLink
      BY <3>3 DEF CloseLink, Visit
    <3>4. QED
      BY <1>7, <3>1, <3>2, <3>3 DEF TicketIsUsed, EventGoesOn
  <2>2. ticket' \in TicketShare
    BY <1>7 DEF FollowLink, SharedTicket, CloseLink, TicketIsUsed, EventGoesOn, TicketShare, Status
  <2>3. phase' \in {"before", "started", "over"}
    BY <1>7 DEF FollowLink, SharedTicket, CloseLink, TicketIsUsed, EventGoesOn, ShareTypeOK
  <2>4. UNCHANGED <<refunded, made, panel, asks, gone, crossed>>
    BY <1>7 DEF FollowLink, SharedTicket, CloseLink, TicketIsUsed, EventGoesOn
  <2>5. QED
    BY <2>1, <2>2, <2>3, <2>4 DEF ShareTypeOK
<1>8. ASSUME NEW h \in Owners, NEW g \in Owners, GivesUp(h, g)
      PROVE  ShareTypeOK'
  <2>1. panel' \in [Owners -> Panel]
    BY <1>8, GivenUp
  <2>2. QED
    BY <1>8, <2>1 DEF GivesUp, ShareTypeOK
<1>9. QED
  BY <1>1, <1>2, <1>3, <1>4, <1>5, <1>6, <1>7, <1>8 DEF ShareNext

LEMMA ShareInvInit == ShareInit => ShareInv
<1> SUFFICES ASSUME ShareInit
             PROVE  ShareInv
  OBVIOUS
<1>1. ShareTypeOK
  <2>1. Closed \in Panel
    BY DEF Closed, Panel
  <2>2. panel \in [Owners -> Panel]
    BY <2>1 DEF ShareInit
  <2>3. ticket \in TicketShare /\ visit \in Visit
    BY DEF ShareInit, TicketShare, Visit, Status
  <2>4. QED
    BY <2>2, <2>3, ShareAssumption DEF ShareInit, ShareTypeOK
<1>2. \A h \in Owners : panel[h].shows = "nothing" /\ panel[h].link = 0 /\ panel[h].op = "none" /\ panel[h].answer = 0
  BY DEF ShareInit, Closed, None
<1>3. QED
  BY <1>1, <1>2 DEF ShareInit, ShareInv, LinksAreMade, GoneIsDead, LinkIsLive, CancelledIsRefunded, At, None

LEMMA ShareInvStep == ShareInv /\ [ShareNext]_shareVars => ShareInv'
<1> SUFFICES ASSUME ShareInv, [ShareNext]_shareVars
             PROVE  ShareInv'
  OBVIOUS
<1>1. CASE ShareNext
  <2>1. LinksAreMade' /\ GoneIsDead' /\ LinkIsLive' /\ CancelledIsRefunded'
    BY <1>1, PageStepsKeep, GivesUpKeeps, OtherShareStepsKeep DEF ShareNext
  <2>2. QED
    BY <1>1, <2>1, ShareTypeStep DEF ShareInv
<1>2. CASE UNCHANGED shareVars
  <2>1. ShareTypeOK' /\ LinksAreMade'
    BY <1>2 DEF shareVars, ShareInv, ShareTypeOK, LinksAreMade
  <2>2. GoneIsDead'
    BY <1>2 DEF shareVars, ShareInv, GoneIsDead, At, Dead
  <2>3. LinkIsLive' /\ CancelledIsRefunded'
    BY <1>2 DEF shareVars, ShareInv, LinkIsLive, CancelledIsRefunded, At
  <2>4. QED
    BY <2>1, <2>2, <2>3 DEF ShareInv
<1>3. QED
  BY <1>1, <1>2

\* The invariant says what owners are shown of their links and refunds.
LEMMA ShareInvSays == ShareInv => LinksAreTrue /\ RefundNoticeIsTrue
<1> SUFFICES ASSUME ShareInv
             PROVE  LinksAreTrue /\ RefundNoticeIsTrue
  OBVIOUS
<1>1. RevokedNeverOpens
  BY DEF ShareInv, GoneIsDead, RevokedNeverOpens, Dead, Opens
<1>2. LinkShownOpens
  BY DEF ShareInv, LinkIsLive, LinkShownOpens, At, Opens
<1>3. RefundNoticeIsTrue
  BY DEF ShareInv, CancelledIsRefunded, RefundNoticeIsTrue
<1>4. QED
  BY <1>1, <1>2, <1>3 DEF LinksAreTrue

LEMMA StepsOfShare == [Next]_backVars => [ShareNext]_shareVars
  <1> SUFFICES ASSUME [Next]_backVars PROVE ShareNext \/ UNCHANGED shareVars
    OBVIOUS
  <1>1. CASE UNCHANGED backVars
    BY <1>1 DEF backVars
  <1>2. CASE Wizards \/ Desks \/ Covers \/ Shares
    BY <1>2 DEF Wizards, Desks, Covers, Shares
  <1>3. CASE Gates \/ LooksUp \/ Browses
    BY <1>3 DEF Gates, LooksUp, Browses
  <1> QED
    BY <1>1, <1>2, <1>3 DEF Next

LEMMA ShareInvAlways == Spec => []ShareInv
  <1>1. Init => ShareInv
    BY ShareInvInit DEF Init
  <1>2. ShareInv /\ [Next]_backVars => ShareInv'
    BY ShareInvStep, StepsOfShare
  <1> QED
    BY <1>1, <1>2, PTL DEF Spec

\* A link its owner was told is revoked opens no more, whatever requests overlap
\* it, and a link that the page shows opens unless something came across it
\* (ticket.service.ts: createShareLink, revokeShareLink).
THEOREM LinksAreTrueAlways == Spec => []LinksAreTrue
  <1>1. ShareInv => LinksAreTrue
    BY ShareInvSays
  <1> QED
    BY <1>1, ShareInvAlways, PTL

\* A page that shows a cancelled ticket says that what was paid was returned: the
\* refund was asked for, or is about to be (orders.service.ts: cancelTicket).
THEOREM RefundNoticeIsTrueAlways == Spec => []RefundNoticeIsTrue
  <1>1. ShareInv => RefundNoticeIsTrue
    BY ShareInvSays
  <1> QED
    BY <1>1, ShareInvAlways, PTL

-----------------------------------------------------------------------------
(* The cover of an event. *)

\* The calls are numbered, and no more than are followed.
CallsAreNumbered == call \in [1 .. Cardinality(Calls) -> CoverCall] /\ Cardinality(Calls) \in 0 .. MaxCovers

\* An upload that never writes the row again.
UploadEnded(k) == k \in Calls /\ call[k].op = "upload" /\ call[k].at \in {"answered", "over"}

\* The row, what was read of it and what is let go are objects of ended uploads,
\* and what is let go is the cover no more.
KeysAreEnded ==
    /\ cover # Poster => cover \in bucket /\ cover \notin leaving /\ UploadEnded(cover)
    /\ \A k \in leaving : UploadEnded(k)
    /\ \A i \in Calls : call[i].read # Poster => UploadEnded(call[i].read)

\* An object is in the bucket from the moment it is stored.
StoredIsThere ==
    /\ \A i \in Calls : call[i].at = "stored" => call[i].op = "upload" /\ i \in bucket
    /\ \A k \in bucket : k \in Calls /\ call[k].op = "upload" /\ call[k].at \in {"stored", "answered", "over"}

\* One request of one page at a time, on the row as the request has read it.
OneAtATime ==
    ~mishap => \A i \in Pending :
        /\ \A j \in Pending : j = i
        /\ \A h \in CoverTabs : view[h].open => h = call[i].tab
        /\ call[i].at \in {"read", "stored"} => call[i].read = cover
        /\ call[i].at = "answered" =>
              call[i].says = cover /\ (call[i].op = "upload" => cover = i)

\* The page of the request shows the cover until the answer; any other does when
\* there is none.
ViewsAreRight ==
    ~mishap => \A h \in CoverTabs : view[h].open =>
        /\ Pending = {} => view[h].shows = cover /\ view[h].preview = 0
        /\ \A i \in Pending : /\ call[i].at # "answered" => view[h].shows = cover
                              /\ call[i].op = "remove" => view[h].preview = 0

UnsaidIsPoster == \A i \in Calls : call[i].at \in {"sent", "read", "stored"} => call[i].says = Poster

CoverInv == CoverTypeOK /\ CallsAreNumbered /\ KeysAreEnded /\ StoredIsThere /\ OneAtATime /\ ViewsAreRight
            /\ UnsaidIsPoster /\ NoOrphans

LEMMA CoverTypes ==
    ASSUME CoverInv
    PROVE  /\ MaxCovers \in Nat /\ Keys = 1 .. MaxCovers /\ Poster = 0
           /\ \E n \in 0 .. MaxCovers : Calls = 1 .. n /\ Cardinality(Calls) = n
           /\ call \in [Calls -> CoverCall] /\ Calls \subseteq Keys
           /\ \A i \in Calls : /\ call[i].tab \in CoverTabs /\ call[i].op \in {"upload", "remove"}
                               /\ call[i].read \in Keys \cup {Poster} /\ call[i].says \in Keys \cup {Poster}
                               /\ call[i].at \in {"sent", "read", "stored", "answered", "over"}
           /\ Pending \subseteq Calls /\ Poster \notin Calls
<1>1. MaxCovers \in Nat /\ Keys = 1 .. MaxCovers /\ Poster = 0
  BY CoverAssumption DEF Keys, Poster
<1>2. call \in [1 .. Cardinality(Calls) -> CoverCall] /\ Cardinality(Calls) \in 0 .. MaxCovers
      /\ Calls = 1 .. Cardinality(Calls)
  BY DEF CoverInv, CallsAreNumbered, CoverTypeOK
<1>3. call \in [Calls -> CoverCall] /\ Calls \subseteq Keys /\ Poster \notin Calls
  BY <1>1, <1>2
<1>4. \A i \in Calls : call[i] \in CoverCall
  BY <1>3
<1>5. QED
  BY <1>1, <1>2, <1>3, <1>4 DEF CoverCall, Pending

\* A request is asked for: the others stay as they are.
LEMMA CallIsNew ==
    ASSUME CoverInv, NEW h \in CoverTabs, NEW op \in {"upload", "remove"}, Calling(h, op)
    PROVE  \E n \in Keys :
              /\ n \notin Calls /\ Calls' = Calls \cup {n} /\ n = Cardinality(Calls) + 1
              /\ \A j \in Calls : call'[j] = call[j]
              /\ call'[n] = [tab |-> h, op |-> op, read |-> Poster, at |-> "sent", says |-> Poster]
              /\ CallsAreNumbered' /\ Calls' = 1 .. Cardinality(Calls') /\ \A j \in Calls' : call'[j] \in CoverCall
              /\ Pending' = Pending \cup {n}
<1>1. PICK m \in 0 .. MaxCovers : Calls = 1 .. m /\ Cardinality(Calls) = m
  BY CoverTypes
<1>2. m \in Nat /\ m < MaxCovers /\ MaxCovers \in Nat
  BY <1>1, CoverTypes DEF Calling
<1> DEFINE e == [tab |-> h, op |-> op, read |-> Poster, at |-> "sent", says |-> Poster]
<1>3. call' = [i \in 1 .. m + 1 |-> IF i \in Calls THEN call[i] ELSE e]
  BY <1>1 DEF Calling
<1>4. m + 1 \in Keys /\ m + 1 \notin Calls /\ 1 .. m + 1 = Calls \cup {m + 1}
  BY <1>1, <1>2, CoverTypes
<1>5. Calls' = 1 .. m + 1
  BY <1>3 DEF Calls
<1>6. Cardinality(Calls') = m + 1
  <2>1. Cardinality(1 .. m + 1) = m + 1
    BY <1>2, FS_Interval
  <2>2. QED
    BY <1>5, <2>1
<1>7. \A j \in Calls : call'[j] = call[j]
  BY <1>3, <1>4
<1>8. call'[m + 1] = e
  BY <1>3, <1>4
<1>9. e \in CoverCall
  BY DEF CoverCall
<1>10. \A j \in Calls' : call'[j] \in CoverCall
  BY <1>4, <1>5, <1>7, <1>8, <1>9, CoverTypes
<1>11. call' \in [1 .. m + 1 -> CoverCall]
  BY <1>3, <1>5, <1>10
<1>12. CallsAreNumbered'
  <2>1. m + 1 \in 0 .. MaxCovers
    BY <1>2
  <2>2. QED
    BY <1>6, <1>11, <2>1 DEF CallsAreNumbered
<1>13. Pending' = Pending \cup {m + 1}
  <2>1. Pending' = {i \in Calls' : call'[i].at # "over"}
    BY DEF Pending
  <2>2. e.at # "over"
    OBVIOUS
  <2> HIDE DEF e
  <2>3. QED
    BY <1>4, <1>5, <1>7, <1>8, <2>1, <2>2 DEF Pending
<1>14. QED
  BY <1>1, <1>4, <1>5, <1>6, <1>7, <1>8, <1>10, <1>12, <1>13

\* A request goes on: what it has read, where it is, its answer.
CallMoves(i, r, a, s) ==
    /\ Calls' = Calls
    /\ \A j \in Calls :
          /\ call'[j].tab = call[j].tab /\ call'[j].op = call[j].op
          /\ call'[j].read = IF j = i THEN r ELSE call[j].read
          /\ call'[j].at = IF j = i THEN a ELSE call[j].at
          /\ call'[j].says = IF j = i THEN s ELSE call[j].says

CallsAreTyped == CallsAreNumbered /\ Calls = 1 .. Cardinality(Calls) /\ \A j \in Calls : call[j] \in CoverCall

LEMMA CallSets ==
    ASSUME CoverInv, NEW i \in Calls, NEW q \in CoverCall,
           q.tab = call[i].tab, q.op = call[i].op, call' = [call EXCEPT ![i] = q]
    PROVE  CallMoves(i, q.read, q.at, q.says) /\ CallsAreTyped'
<1>1. call \in [Calls -> CoverCall]
  BY CoverTypes
<1>2. Calls' = Calls
  BY DEF Calls
<1>3. \A j \in Calls : call'[j] = IF j = i THEN q ELSE call[j]
  BY <1>1
<1>4. CallMoves(i, q.read, q.at, q.says)
  BY <1>2, <1>3 DEF CallMoves
<1>5. \A j \in Calls : call'[j] \in CoverCall
  BY <1>1, <1>3
<1>6. call' \in [Calls -> CoverCall]
  BY <1>1, <1>5
<1>7. CallsAreNumbered /\ Calls = 1 .. Cardinality(Calls)
  BY DEF CoverInv, CoverTypeOK
<1>8. Cardinality(Calls') = Cardinality(Calls)
  BY <1>2
<1>9. CallsAreNumbered'
  BY <1>6, <1>7, <1>8 DEF CallsAreNumbered
<1>10. QED
  BY <1>2, <1>4, <1>5, <1>7, <1>8, <1>9 DEF CallsAreTyped

LEMMA CallSteps ==
    ASSUME CoverInv, NEW i \in Calls
    PROVE  LET c == call[i]
           IN  /\ \A a \in {"sent", "read", "stored", "answered", "over"} :
                     Move(i, a) => CallMoves(i, c.read, a, c.says) /\ CallsAreTyped'
               /\ ReadsCover(i) =>
                     /\ CallsAreTyped'
                     /\ CallMoves(i, cover, IF c.op = "remove" /\ cover = Poster THEN "answered" ELSE "read", c.says)
               /\ WritesCover(i) =>
                     /\ CallsAreTyped'
                     /\ CallMoves(i, c.read, "answered", IF c.op = "upload" THEN i ELSE Poster)
<1> DEFINE c == call[i]
<1>1. c \in CoverCall /\ call \in [Calls -> CoverCall] /\ i \in Keys
  BY CoverTypes
<1>2. cover \in Keys \cup {Poster}
  BY DEF CoverInv, CoverTypeOK
<1>3. ASSUME NEW a \in {"sent", "read", "stored", "answered", "over"}, Move(i, a)
      PROVE  CallMoves(i, c.read, a, c.says) /\ CallsAreTyped'
  <2> DEFINE q == [c EXCEPT !.at = a]
  <2>1. q \in CoverCall /\ q.tab = c.tab /\ q.op = c.op /\ q.read = c.read /\ q.at = a /\ q.says = c.says
    BY <1>1 DEF CoverCall
  <2>2. call' = [call EXCEPT ![i] = q]
    BY <1>1, <1>3 DEF Move
  <2> HIDE DEF q
  <2>3. QED
    BY <2>1, <2>2, CallSets
<1>4. ASSUME ReadsCover(i)
      PROVE  /\ CallsAreTyped'
             /\ CallMoves(i, cover, IF c.op = "remove" /\ cover = Poster THEN "answered" ELSE "read", c.says)
  <2> DEFINE a == IF c.op = "remove" /\ cover = Poster THEN "answered" ELSE "read"
             q == [c EXCEPT !.read = cover, !.at = a]
  <2>1. call' = [call EXCEPT ![i] = q]
    BY <1>1, <1>4 DEF ReadsCover
  <2>2. a \in {"answered", "read"}
    OBVIOUS
  <2> HIDE DEF a
  <2>3. q \in CoverCall /\ q.tab = c.tab /\ q.op = c.op /\ q.read = cover /\ q.at = a /\ q.says = c.says
    BY <1>1, <1>2, <2>2 DEF CoverCall
  <2> HIDE DEF q
  <2>4. CallMoves(i, cover, a, c.says) /\ CallsAreTyped'
    BY <2>1, <2>3, CallSets
  <2>5. QED
    BY <2>4 DEF a
<1>5. ASSUME WritesCover(i)
      PROVE  /\ CallsAreTyped'
             /\ CallMoves(i, c.read, "answered", IF c.op = "upload" THEN i ELSE Poster)
  <2> DEFINE k == IF c.op = "upload" THEN i ELSE Poster
             q == [c EXCEPT !.at = "answered", !.says = k]
  <2>1. call' = [call EXCEPT ![i] = q]
    BY <1>1, <1>5 DEF WritesCover
  <2>2. k \in Keys \cup {Poster}
    BY <1>1
  <2> HIDE DEF k
  <2>3. q \in CoverCall /\ q.tab = c.tab /\ q.op = c.op /\ q.read = c.read /\ q.at = "answered" /\ q.says = k
    BY <1>1, <2>2 DEF CoverCall
  <2> HIDE DEF q
  <2>4. CallMoves(i, c.read, "answered", k) /\ CallsAreTyped'
    BY <2>1, <2>3, CallSets
  <2>5. QED
    BY <2>4 DEF k
<1>6. QED
  BY <1>3, <1>4, <1>5

\* What stays of an ended upload: everything.
LEMMA EndedStays ==
    ASSUME CoverInv, NEW i \in Calls, NEW r, NEW a, NEW s, CallMoves(i, r, a, s),
           a \in {"answered", "over"} \/ call[i].at \notin {"answered", "over"},
           NEW k, UploadEnded(k)
    PROVE  UploadEnded(k)'
  BY DEF UploadEnded, CallMoves

\* A page comes and goes.
LEMMA PagesKeepCover ==
    ASSUME CoverInv, NEW h \in CoverTabs, OpenCover(h) \/ LeaveCover(h)
    PROVE  CoverInv'
<1> USE CoverTypes DEF CoverInv
<1>1. UNCHANGED <<cover, bucket, leaving, call, Calls, Pending>>
  BY DEF OpenCover, LeaveCover, Calls, Pending
<1>2. PICK v \in [open : BOOLEAN, shows : Keys \cup {Poster}, preview : Keys \cup {0}] :
          /\ view' = [view EXCEPT ![h] = v]
          /\ v.open => v.shows = cover /\ v.preview = 0
          /\ v.open /\ Pending # {} => mishap'
          /\ mishap => mishap'
          /\ mishap' \in BOOLEAN
  <2>1. CASE OpenCover(h)
    <3> DEFINE v == [open |-> TRUE, shows |-> cover, preview |-> 0]
    <3>1. v \in [open : BOOLEAN, shows : Keys \cup {Poster}, preview : Keys \cup {0}] /\ v.shows = cover /\ v.preview = 0
      BY DEF CoverTypeOK
    <3>2. view' = [view EXCEPT ![h] = v] /\ mishap' = (mishap \/ Pending # {})
      BY <2>1 DEF OpenCover
    <3>3. QED
      BY <3>1, <3>2 DEF CoverTypeOK
  <2>2. CASE LeaveCover(h)
    <3>1. /\ Unopened \in [open : BOOLEAN, shows : Keys \cup {Poster}, preview : Keys \cup {0}]
          /\ ~Unopened.open
      BY DEF Unopened
    <3>2. view' = [view EXCEPT ![h] = Unopened] /\ mishap' = mishap
      BY <2>2 DEF LeaveCover
    <3>3. QED
      BY <3>1, <3>2 DEF CoverTypeOK
  <2>3. QED
    BY <2>1, <2>2
<1>3. /\ view' \in [CoverTabs -> [open : BOOLEAN, shows : Keys \cup {Poster}, preview : Keys \cup {0}]]
      /\ \A g \in CoverTabs : view'[g] = IF g = h THEN v ELSE view[g]
  BY <1>2 DEF CoverTypeOK
<1>4. CoverTypeOK' /\ CallsAreNumbered'
  BY <1>1, <1>2, <1>3 DEF CoverTypeOK, CallsAreNumbered
<1>5. KeysAreEnded' /\ StoredIsThere' /\ UnsaidIsPoster'
  BY <1>1 DEF KeysAreEnded, StoredIsThere, UnsaidIsPoster, UploadEnded
<1>6. NoOrphans'
  BY <1>1, <1>2 DEF NoOrphans
<1>7. OneAtATime' /\ ViewsAreRight'
  BY <1>1, <1>2, <1>3 DEF OneAtATime, ViewsAreRight
<1>8. QED
  BY <1>4, <1>5, <1>6, <1>7

\* A page asks for an upload or a removal.
LEMMA AskingKeepsCover ==
    ASSUME CoverInv, NEW h \in CoverTabs, ChooseFile(h) \/ AskPoster(h)
    PROVE  CoverInv'
<1> USE CoverTypes DEF CoverInv
<1>1. PICK op \in {"upload", "remove"} :
          /\ Calling(h, op)
          /\ op = "upload" => view' = [view EXCEPT ![h].preview = Cardinality(Calls) + 1]
          /\ op = "remove" => view' = view
  BY DEF ChooseFile, AskPoster
<1>2. PICK n \in Keys :
          /\ n \notin Calls /\ Calls' = Calls \cup {n} /\ n = Cardinality(Calls) + 1
          /\ \A j \in Calls : call'[j] = call[j]
          /\ call'[n] = [tab |-> h, op |-> op, read |-> Poster, at |-> "sent", says |-> Poster]
          /\ CallsAreNumbered' /\ Calls' = 1 .. Cardinality(Calls') /\ \A j \in Calls' : call'[j] \in CoverCall
          /\ Pending' = Pending \cup {n}
  BY <1>1, CallIsNew
<1>3. /\ view[h].open /\ UNCHANGED <<cover, bucket, leaving>>
      /\ mishap' \in BOOLEAN
      /\ ~mishap' => ~mishap /\ Pending = {} /\ \A g \in CoverTabs : view[g].open => g = h
  BY <1>1 DEF Calling
<1>4. /\ view' \in [CoverTabs -> [open : BOOLEAN, shows : Keys \cup {Poster}, preview : Keys \cup {0}]]
      /\ \A g \in CoverTabs :
            /\ view'[g].open = view[g].open /\ view'[g].shows = view[g].shows
            /\ op = "remove" => view'[g].preview = view[g].preview
  <2>1. CASE op = "upload"
    BY <1>1, <1>2, <2>1 DEF CoverTypeOK
  <2>2. CASE op = "remove"
    BY <1>1, <2>2 DEF CoverTypeOK
  <2>3. QED
    BY <2>1, <2>2
<1>5. CoverTypeOK'
  BY <1>2, <1>3, <1>4 DEF CoverTypeOK
<1>6. KeysAreEnded'
  BY <1>2, <1>3 DEF KeysAreEnded, UploadEnded
<1>7. StoredIsThere'
  BY <1>2, <1>3 DEF StoredIsThere
<1>8. UnsaidIsPoster'
  BY <1>2 DEF UnsaidIsPoster
<1>9. NoOrphans'
  BY <1>2, <1>3 DEF NoOrphans
<1>10. OneAtATime'
  BY <1>2, <1>3, <1>4 DEF OneAtATime
<1>11. ViewsAreRight'
  BY <1>2, <1>3, <1>4 DEF ViewsAreRight
<1>12. QED
  BY <1>2, <1>5, <1>6, <1>7, <1>8, <1>9, <1>10, <1>11

\* A handler goes on.
LEMMA HandlersKeepCover ==
    ASSUME CoverInv, NEW i \in Calls, ReadsCover(i) \/ Stores(i) \/ WritesCover(i)
    PROVE  CoverInv'
<1> USE CoverTypes DEF CoverInv
<1> DEFINE c == call[i]
<1>1. CASE ReadsCover(i)
  <2> DEFINE a == IF c.op = "remove" /\ cover = Poster THEN "answered" ELSE "read"
  <2>1. CallMoves(i, cover, a, c.says) /\ CallsAreTyped'
    BY <1>1, CallSteps
  <2>2. c.at = "sent" /\ UNCHANGED <<cover, bucket, leaving, view, mishap>>
    BY <1>1 DEF ReadsCover
  <2>3. a \in {"answered", "read"} /\ (a = "answered" => c.op = "remove" /\ cover = Poster)
    OBVIOUS
  <2> HIDE DEF a
  <2>4. Pending' = Pending
    BY <2>1, <2>2, <2>3 DEF CallMoves, Pending
  <2>5. CoverTypeOK' /\ CallsAreNumbered'
    BY <2>1, <2>2 DEF CoverTypeOK, CallsAreTyped
  <2>6. KeysAreEnded'
    BY <2>1, <2>2, <2>3 DEF KeysAreEnded, UploadEnded, CallMoves
  <2>7. StoredIsThere' /\ UnsaidIsPoster'
    BY <2>1, <2>2, <2>3 DEF StoredIsThere, UnsaidIsPoster, CallMoves
  <2>8. NoOrphans'
    BY <2>2, <2>4 DEF NoOrphans
  <2>9. OneAtATime'
    BY <2>1, <2>2, <2>3, <2>4 DEF OneAtATime, CallMoves, UnsaidIsPoster
  <2>10. ViewsAreRight'
    BY <2>1, <2>2, <2>3, <2>4 DEF ViewsAreRight, CallMoves
  <2>11. QED
    BY <2>5, <2>6, <2>7, <2>8, <2>9, <2>10
<1>2. CASE Stores(i)
  <2>1. CallMoves(i, c.read, "stored", c.says) /\ CallsAreTyped'
    BY <1>2, CallSteps DEF Stores
  <2>2. /\ c.op = "upload" /\ c.at = "read" /\ bucket' = bucket \cup {i} /\ leaving' = leaving
        /\ UNCHANGED <<cover, view, mishap>>
    BY <1>2 DEF Stores, CallAt, LetGo
  <2>3. Pending' = Pending /\ i \in Pending
    BY <2>1, <2>2 DEF CallMoves, Pending
  <2>4. CoverTypeOK' /\ CallsAreNumbered'
    BY <2>1, <2>2 DEF CoverTypeOK, CallsAreTyped
  <2>5. KeysAreEnded'
    BY <2>1, <2>2 DEF KeysAreEnded, UploadEnded, CallMoves
  <2>6. StoredIsThere' /\ UnsaidIsPoster'
    BY <2>1, <2>2 DEF StoredIsThere, UnsaidIsPoster, CallMoves
  <2>7. NoOrphans'
    BY <2>2, <2>3 DEF NoOrphans
  <2>8. OneAtATime'
    BY <2>1, <2>2, <2>3 DEF OneAtATime, CallMoves
  <2>9. ViewsAreRight'
    BY <2>1, <2>2, <2>3 DEF ViewsAreRight, CallMoves
  <2>10. QED
    BY <2>4, <2>5, <2>6, <2>7, <2>8, <2>9
<1>3. CASE WritesCover(i)
  <2> DEFINE k == IF c.op = "upload" THEN i ELSE Poster
  <2>1. CallMoves(i, c.read, "answered", k) /\ CallsAreTyped'
    BY <1>3, CallSteps
  <2>2. /\ (c.op = "upload" /\ c.at = "stored") \/ (c.op = "remove" /\ c.at = "read")
        /\ cover' = k /\ leaving' = leaving \cup ({c.read} \ {Poster})
        /\ UNCHANGED <<bucket, view, mishap>>
    BY <1>3 DEF WritesCover, CallAt, LetGo
  <2>3. k \in {i, Poster} /\ (k = i <=> c.op = "upload")
    OBVIOUS
  <2> HIDE DEF k
  <2>4. Pending' = Pending /\ i \in Pending
    BY <2>1, <2>2 DEF CallMoves, Pending
  <2>5. c.read # Poster => UploadEnded(c.read)
    BY DEF KeysAreEnded
  <2>6. CoverTypeOK' /\ CallsAreNumbered'
    BY <2>1, <2>2, <2>3 DEF CoverTypeOK, CallsAreTyped
  <2>7. KeysAreEnded'
    BY <2>1, <2>2, <2>3, <2>5 DEF KeysAreEnded, UploadEnded, CallMoves, StoredIsThere
  <2>8. StoredIsThere' /\ UnsaidIsPoster'
    BY <2>1, <2>2 DEF StoredIsThere, UnsaidIsPoster, CallMoves
  <2>9. NoOrphans'
    <3>1. Poster \notin bucket
      BY DEF StoredIsThere
    <3>2. ~mishap => c.read = cover
      BY <2>2, <2>4 DEF OneAtATime
    <3>3. QED
      BY <2>2, <2>4, <3>1, <3>2 DEF NoOrphans
  <2>10. OneAtATime'
    BY <2>1, <2>2, <2>3, <2>4 DEF OneAtATime, CallMoves
  <2>11. ViewsAreRight'
    BY <2>1, <2>2, <2>3, <2>4 DEF ViewsAreRight, CallMoves, OneAtATime
  <2>12. QED
    BY <2>6, <2>7, <2>8, <2>9, <2>10, <2>11
<1>4. QED
  BY <1>1, <1>2, <1>3

\* A request fails or is answered, an object is let go.
LEMMA EndsKeepCover ==
    ASSUME CoverInv, NEW i \in Keys, CoverFails(i) \/ CoverAnswered(i) \/ Removed(i)
    PROVE  CoverInv'
<1> USE CoverTypes DEF CoverInv
<1> DEFINE c == call[i]
<1>1. CASE CoverFails(i)
  <2>1. i \in Pending /\ i \in Calls /\ UNCHANGED <<cover, bucket, leaving, view>> /\ mishap'
    BY <1>1 DEF CoverFails
  <2>2. CallMoves(i, c.read, "over", c.says) /\ CallsAreTyped'
    BY <1>1, <2>1, CallSteps DEF CoverFails
  <2>3. mishap' \in BOOLEAN
    BY <1>1 DEF CoverFails
  <2>4. CoverTypeOK' /\ CallsAreNumbered'
    BY <2>1, <2>2, <2>3 DEF CoverTypeOK, CallsAreTyped
  <2>5. KeysAreEnded'
    BY <2>1, <2>2 DEF KeysAreEnded, UploadEnded, CallMoves
  <2>6. StoredIsThere' /\ UnsaidIsPoster'
    BY <2>1, <2>2 DEF StoredIsThere, UnsaidIsPoster, CallMoves
  <2>7. NoOrphans' /\ OneAtATime' /\ ViewsAreRight'
    BY <2>1 DEF NoOrphans, OneAtATime, ViewsAreRight
  <2>8. QED
    BY <2>4, <2>5, <2>6, <2>7
<1>2. CASE CoverAnswered(i)
  <2>1. i \in Calls /\ c.at = "answered" /\ UNCHANGED <<cover, bucket, leaving, mishap>>
    BY <1>2 DEF CoverAnswered
  <2>2. CallMoves(i, c.read, "over", c.says) /\ CallsAreTyped'
    BY <1>2, <2>1, CallSteps DEF CoverAnswered
  <2>3. /\ view' \in [CoverTabs -> [open : BOOLEAN, shows : Keys \cup {Poster}, preview : Keys \cup {0}]]
        /\ \A g \in CoverTabs :
              /\ g # c.tab => view'[g] = view[g]
              /\ view'[g].open = view[g].open
        /\ view[c.tab].open =>
              /\ view'[c.tab].shows = c.says
              /\ view'[c.tab].preview = IF c.op = "upload" THEN 0 ELSE view[c.tab].preview
    <3> DEFINE v == view[c.tab]
               q == [v EXCEPT !.shows = c.says, !.preview = IF c.op = "upload" THEN 0 ELSE @]
    <3>1. view \in [CoverTabs -> [open : BOOLEAN, shows : Keys \cup {Poster}, preview : Keys \cup {0}]]
      BY DEF CoverTypeOK
    <3>2. c.tab \in CoverTabs /\ v \in [open : BOOLEAN, shows : Keys \cup {Poster}, preview : Keys \cup {0}]
      BY <2>1, <3>1
    <3>3. /\ q \in [open : BOOLEAN, shows : Keys \cup {Poster}, preview : Keys \cup {0}]
          /\ q.open = v.open /\ q.shows = c.says
          /\ q.preview = IF c.op = "upload" THEN 0 ELSE v.preview
      BY <2>1, <3>2
    <3>4. view' = [view EXCEPT ![c.tab] = IF v.open THEN q ELSE v]
      BY <1>2, <3>1, <3>2 DEF CoverAnswered, Seen
    <3> HIDE DEF q
    <3>5. QED
      BY <3>1, <3>2, <3>3, <3>4
  <2>4. Pending' = Pending \ {i} /\ i \in Pending
    BY <2>1, <2>2 DEF CallMoves, Pending
  <2>5. CoverTypeOK' /\ CallsAreNumbered'
    BY <2>1, <2>2, <2>3 DEF CoverTypeOK, CallsAreTyped
  <2>6. KeysAreEnded'
    BY <2>1, <2>2 DEF KeysAreEnded, UploadEnded, CallMoves
  <2>7. StoredIsThere' /\ UnsaidIsPoster'
    BY <2>1, <2>2 DEF StoredIsThere, UnsaidIsPoster, CallMoves
  <2>8. NoOrphans'
    BY <2>1, <2>4 DEF NoOrphans, OneAtATime, StoredIsThere
  <2>9. OneAtATime'
    BY <2>1, <2>4 DEF OneAtATime
  <2>10. ViewsAreRight'
    BY <2>1, <2>3, <2>4 DEF ViewsAreRight, OneAtATime
  <2>11. QED
    BY <2>5, <2>6, <2>7, <2>8, <2>9, <2>10
<1>3. CASE Removed(i)
  <2>1. /\ i \in leaving /\ leaving' = leaving \ {i} /\ UNCHANGED <<cover, call, view, Calls, Pending>>
        /\ (bucket' = bucket \ {i} /\ mishap' = mishap) \/ (bucket' = bucket /\ mishap' = TRUE)
    BY <1>3 DEF Removed, Calls, Pending
  <2>2. UploadEnded(i)
    BY <2>1 DEF KeysAreEnded
  <2>3. CoverTypeOK' /\ CallsAreNumbered'
    BY <2>1 DEF CoverTypeOK, CallsAreNumbered
  <2>4. KeysAreEnded'
    BY <2>1 DEF KeysAreEnded, UploadEnded
  <2>5. StoredIsThere' /\ UnsaidIsPoster'
    BY <2>1, <2>2 DEF StoredIsThere, UnsaidIsPoster, UploadEnded
  <2>6. NoOrphans'
    BY <2>1 DEF NoOrphans
  <2>7. OneAtATime' /\ ViewsAreRight'
    BY <2>1 DEF OneAtATime, ViewsAreRight
  <2>8. QED
    BY <2>3, <2>4, <2>5, <2>6, <2>7
<1>4. QED
  BY <1>1, <1>2, <1>3

LEMMA CoverInvInit == CoverInit => CoverInv
<1> SUFFICES ASSUME CoverInit
             PROVE  CoverInv
  OBVIOUS
<1>1. Calls = {} /\ Cardinality(Calls) = 0 /\ Pending = {}
  <2>1. Calls = {}
    BY DEF CoverInit, Calls
  <2>2. QED
    BY <2>1, FS_EmptySet DEF Pending
<1>2. MaxCovers \in Nat /\ 1 .. 0 = {}
  BY CoverAssumption
<1>3. \A h \in CoverTabs : ~view[h].open
  BY DEF CoverInit, Unopened
<1>4. call \in [{} -> CoverCall]
  BY DEF CoverInit
<1>5. CallsAreNumbered
  BY <1>1, <1>2, <1>4 DEF CallsAreNumbered
<1>6. CoverTypeOK
  BY <1>1, <1>2 DEF CoverInit, CoverTypeOK, Unopened
<1>7. QED
  BY <1>1, <1>3, <1>5, <1>6
  DEF CoverInit, CoverInv, KeysAreEnded, StoredIsThere, OneAtATime, ViewsAreRight, UnsaidIsPoster, NoOrphans

LEMMA CoverInvStep == CoverInv /\ [CoverNext]_coverVars => CoverInv'
<1> SUFFICES ASSUME CoverInv, [CoverNext]_coverVars
             PROVE  CoverInv'
  OBVIOUS
<1>1. ASSUME NEW i \in Keys, ReadsCover(i) \/ Stores(i) \/ WritesCover(i)
      PROVE  i \in Calls
  BY <1>1 DEF ReadsCover, Stores, WritesCover
<1>2. CASE CoverNext
  BY <1>1, <1>2, PagesKeepCover, AskingKeepsCover, HandlersKeepCover, EndsKeepCover DEF CoverNext
<1>3. CASE UNCHANGED coverVars
  BY <1>3 DEF coverVars, CoverInv, CoverTypeOK, CallsAreNumbered, KeysAreEnded, StoredIsThere, OneAtATime,
              ViewsAreRight, UnsaidIsPoster, NoOrphans, UploadEnded, Pending, Calls
<1>4. QED
  BY <1>2, <1>3

LEMMA CoverInvSays == CoverInv => CoverAgrees
<1> SUFFICES ASSUME CoverInv
             PROVE  CoverAgrees
  OBVIOUS
<1>1. CoverIsStored /\ NoOrphans
  BY DEF CoverInv, KeysAreEnded, CoverIsStored
<1>2. PageShowsCover
  BY DEF CoverInv, ViewsAreRight, PageShowsCover
<1>3. QED
  BY <1>1, <1>2 DEF CoverAgrees

LEMMA StepsOfCover == [Next]_backVars => [CoverNext]_coverVars
  <1> SUFFICES ASSUME [Next]_backVars PROVE CoverNext \/ UNCHANGED coverVars
    OBVIOUS
  <1>1. CASE UNCHANGED backVars
    BY <1>1 DEF backVars
  <1>2. CASE Wizards \/ Desks \/ Covers \/ Shares
    BY <1>2 DEF Wizards, Desks, Covers, Shares
  <1>3. CASE Gates \/ LooksUp \/ Browses
    BY <1>3 DEF Gates, LooksUp, Browses
  <1> QED
    BY <1>1, <1>2, <1>3 DEF Next

LEMMA CoverInvAlways == Spec => []CoverInv
  <1>1. Init => CoverInv
    BY CoverInvInit DEF Init
  <1>2. CoverInv /\ [Next]_backVars => CoverInv'
    BY CoverInvStep, StepsOfCover
  <1> QED
    BY <1>1, <1>2, PTL DEF Spec

\* The row, the bucket and the pages agree on the cover: it is stored, and while
\* requests do not overlap no object is left behind and no page shows another
\* (image.service.ts: upload, remove).
THEOREM CoverAgreesAlways == Spec => []CoverAgrees
  <1>1. CoverInv => CoverAgrees
    BY CoverInvSays
  <1> QED
    BY <1>1, CoverInvAlways, PTL

-----------------------------------------------------------------------------
(* The gate. *)

\* The scans are numbered, and no more than are followed.
ScansAreNumbered == scan \in [1 .. Cardinality(Scans) -> Scan] /\ Cardinality(Scans) \in 0 .. MaxScans

Admitted(t) == \E i \in Scans : scan[i].code = t /\ scan[i].result = "VALID"

UndecidedHasNoResult == \A i \in Scans : scan[i].at \in {"sent", "checked"} => scan[i].result = "none"

OneIsAdmitted ==
    \A i, j \in Scans :
        scan[i].code = scan[j].code /\ scan[i].result = "VALID" /\ scan[j].result = "VALID" => i = j

UsedIsAdmitted == \A i \in Scans : scan[i].result = "ALREADY_USED" => Admitted(scan[i].code)

\* A scan of a cancelled ticket finds it cancelled, or another has marked it since.
LateIsRefused ==
    \A i \in Scans : scan[i].late =>
        /\ scan[i].result # "VALID"
        /\ scan[i].at = "sent" => status[scan[i].code] = "CANCELLED" \/ Admitted(scan[i].code)
        /\ scan[i].at = "checked" => Admitted(scan[i].code)

GateInv == GateTypeOK /\ ScansAreNumbered /\ UndecidedHasNoResult /\ OneIsAdmitted /\ UsedIsAdmitted /\ LateIsRefused

LEMMA GateTypes ==
    ASSUME GateInv
    PROVE  /\ MaxScans \in Nat /\ NoScan = 0
           /\ \E n \in 0 .. MaxScans : Scans = 1 .. n /\ Cardinality(Scans) = n
           /\ scan \in [Scans -> Scan] /\ Scans \subseteq 1 .. MaxScans
           /\ \A i \in Scans : /\ scan[i] \in Scan /\ scan[i].page \in GatePages /\ scan[i].code \in GateTickets
                               /\ scan[i].event \in {"this", "other"} /\ scan[i].late \in BOOLEAN
           /\ \A p \in GatePages : desk[p] \in GatePage
           /\ desk \in [GatePages -> GatePage]
           /\ status \in [GateTickets -> {"ACTIVE", "USED", "CANCELLED"}]
           /\ Cardinality(Used) \in 0 .. Cardinality(GateTickets) /\ 0 \in 0 .. Cardinality(GateTickets)
<1>1. MaxScans \in Nat /\ NoScan = 0 /\ IsFiniteSet(GateTickets)
  BY GateAssumption DEF NoScan
<1>2. scan \in [1 .. Cardinality(Scans) -> Scan] /\ Cardinality(Scans) \in 0 .. MaxScans
      /\ Scans = 1 .. Cardinality(Scans)
  BY DEF GateInv, ScansAreNumbered, GateTypeOK
<1>3. scan \in [Scans -> Scan] /\ Scans \subseteq 1 .. MaxScans
  BY <1>1, <1>2
<1>4. \A i \in Scans : scan[i] \in Scan
  BY <1>3
<1>5. desk \in [GatePages -> GatePage] /\ status \in [GateTickets -> {"ACTIVE", "USED", "CANCELLED"}]
  BY DEF GateInv, GateTypeOK
<1>6. Cardinality(Used) \in 0 .. Cardinality(GateTickets) /\ 0 \in 0 .. Cardinality(GateTickets)
  <2>1. Used \in SUBSET GateTickets
    BY DEF Used
  <2>2. IsFiniteSet(Used) /\ Cardinality(Used) <= Cardinality(GateTickets)
    BY <1>1, <2>1, FS_Subset
  <2>3. Cardinality(Used) \in Nat /\ Cardinality(GateTickets) \in Nat
    BY <1>1, <2>2, FS_CardinalityType
  <2>4. QED
    BY <2>2, <2>3
<1>7. \A i \in Scans : /\ scan[i].page \in GatePages /\ scan[i].code \in GateTickets
                       /\ scan[i].event \in {"this", "other"} /\ scan[i].late \in BOOLEAN
  BY <1>4 DEF Scan
<1>8. QED
  BY <1>1, <1>2, <1>3, <1>4, <1>5, <1>6, <1>7

\* A scan goes on: where it is and its result.
ScanMoves(i, a, r) ==
    /\ Scans' = Scans
    /\ \A j \in Scans :
          /\ scan'[j].code = scan[j].code /\ scan'[j].late = scan[j].late /\ scan'[j].event = scan[j].event
          /\ scan'[j].at = IF j = i THEN a ELSE scan[j].at
          /\ scan'[j].result = IF j = i THEN r ELSE scan[j].result

ScansAreTyped == ScansAreNumbered /\ Scans = 1 .. Cardinality(Scans) /\ \A j \in Scans : scan[j] \in Scan

LEMMA ScanSets ==
    ASSUME GateInv, NEW i \in Scans, NEW a \in {"sent", "checked", "answered", "shown", "lost"},
           NEW r \in Results \cup {"none"},
           \/ scan' = [scan EXCEPT ![i].at = a, ![i].result = r]
           \/ scan' = [scan EXCEPT ![i].result = r, ![i].at = a]
           \/ scan' = [scan EXCEPT ![i].at = a] /\ r = scan[i].result
    PROVE  ScanMoves(i, a, r) /\ ScansAreTyped'
<1>1. scan \in [Scans -> Scan] /\ scan[i] \in Scan
  BY GateTypes
<1>2. PICK q \in Scan :
          /\ q.code = scan[i].code /\ q.late = scan[i].late /\ q.event = scan[i].event /\ q.at = a /\ q.result = r
          /\ scan' = [scan EXCEPT ![i] = q]
  <2>1. CASE scan' = [scan EXCEPT ![i].at = a] /\ r = scan[i].result
    <3> DEFINE q == [scan[i] EXCEPT !.at = a]
    <3>1. /\ q \in Scan /\ q.code = scan[i].code /\ q.late = scan[i].late /\ q.event = scan[i].event
          /\ q.at = a /\ q.result = r
      BY <1>1, <2>1 DEF Scan
    <3>2. scan' = [scan EXCEPT ![i] = q]
      BY <1>1, <2>1
    <3>3. QED
      BY <3>1, <3>2
  <2>2. CASE scan' = [scan EXCEPT ![i].at = a, ![i].result = r]
    <3> DEFINE q == [scan[i] EXCEPT !.at = a, !.result = r]
    <3>1. /\ q \in Scan /\ q.code = scan[i].code /\ q.late = scan[i].late /\ q.event = scan[i].event
          /\ q.at = a /\ q.result = r
      BY <1>1 DEF Scan
    <3>2. scan' = [scan EXCEPT ![i] = q]
      BY <1>1, <2>2
    <3>3. QED
      BY <3>1, <3>2
  <2>3. CASE scan' = [scan EXCEPT ![i].result = r, ![i].at = a]
    <3> DEFINE q == [scan[i] EXCEPT !.result = r, !.at = a]
    <3>1. /\ q \in Scan /\ q.code = scan[i].code /\ q.late = scan[i].late /\ q.event = scan[i].event
          /\ q.at = a /\ q.result = r
      BY <1>1 DEF Scan
    <3>2. scan' = [scan EXCEPT ![i] = q]
      BY <1>1, <2>3
    <3>3. QED
      BY <3>1, <3>2
  <2>4. QED
    BY <2>1, <2>2, <2>3
<1>3. Scans' = Scans
  BY <1>2 DEF Scans
<1>4. \A j \in Scans : scan'[j] = IF j = i THEN q ELSE scan[j]
  BY <1>1, <1>2
<1>5. ScanMoves(i, a, r)
  BY <1>2, <1>3, <1>4 DEF ScanMoves
<1>6. \A j \in Scans : scan'[j] \in Scan
  BY <1>1, <1>4
<1>7. scan' \in [Scans -> Scan]
  BY <1>1, <1>2
<1>8. ScansAreNumbered /\ Scans = 1 .. Cardinality(Scans)
  BY DEF GateInv, GateTypeOK
<1>9. Cardinality(Scans') = Cardinality(Scans)
  BY <1>3
<1>10. ScansAreNumbered'
  BY <1>7, <1>8, <1>9 DEF ScansAreNumbered
<1>11. QED
  BY <1>3, <1>5, <1>6, <1>8, <1>9, <1>10 DEF ScansAreTyped

\* The pages, one of them changed.
LEMMA DeskSets ==
    ASSUME GateInv, NEW p \in GatePages, NEW q \in GatePage, desk' = [desk EXCEPT ![p] = q]
    PROVE  desk' \in [GatePages -> GatePage]
  BY GateTypes

\* What a page may be set to.
LEMMA DeskEdits ==
    ASSUME NEW d \in GatePage, NEW n \in 0 .. MaxScans, NEW f \in SUBSET {"camera", "form"}
    PROVE  [d EXCEPT !.screen = n] \in GatePage /\ [d EXCEPT !.fired = f, !.last = n] \in GatePage
<1>1. [d EXCEPT !.screen = n] \in GatePage
  BY DEF GatePage
<1>2. [d EXCEPT !.fired = f, !.last = n] \in GatePage
  BY DEF GatePage
<1>3. QED
  BY <1>1, <1>2

\* Nothing happens to the scans.
LEMMA ScansStay ==
    ASSUME GateInv, scan' = scan, desk' \in [GatePages -> GatePage],
           status' \in [GateTickets -> {"ACTIVE", "USED", "CANCELLED"}], withdrawing' \subseteq GateTickets,
           \A t \in GateTickets : status[t] = "CANCELLED" => status'[t] = "CANCELLED"
    PROVE  GateInv'
<1> USE GateTypes DEF GateInv
<1>1. Scans' = Scans
  BY DEF Scans
<1>2. GateTypeOK'
  BY <1>1 DEF GateTypeOK
<1>3. ScansAreNumbered'
  BY <1>1 DEF ScansAreNumbered
<1>4. UndecidedHasNoResult' /\ OneIsAdmitted'
  BY <1>1 DEF UndecidedHasNoResult, OneIsAdmitted
<1>5. UsedIsAdmitted'
  BY <1>1 DEF UsedIsAdmitted, Admitted
<1>6. LateIsRefused'
  BY <1>1 DEF LateIsRefused, Admitted
<1>7. QED
  BY <1>2, <1>3, <1>4, <1>5, <1>6

\* The pages, the panels and the cancellations leave the scans alone.
LEMMA PagesKeepGate ==
    ASSUME GateInv,
           \/ \E p \in GatePages :
                 (\E e \in {"this", "other"} : SetEvent(p, e)) \/ Renders(p) \/ Dismisses(p) \/ StatsFetched(p)
           \/ \E t \in GateTickets : Withdraws(t) \/ Withdrawn(t)
    PROVE  GateInv'
<1> USE GateTypes
<1>0. withdrawing \subseteq GateTickets
  BY DEF GateInv, GateTypeOK
<1>1. ASSUME NEW p \in GatePages,
             (\E e \in {"this", "other"} : SetEvent(p, e)) \/ Renders(p) \/ Dismisses(p) \/ StatsFetched(p)
      PROVE  GateInv'
  <2> DEFINE d == desk[p]
  <2>1. UNCHANGED <<status, withdrawing, scan>>
    BY <1>1 DEF SetEvent, Renders, Dismisses, StatsFetched
  <2>2. PICK q \in GatePage : desk' = [desk EXCEPT ![p] = q]
    <3>1. ASSUME NEW e \in {"this", "other"}, SetEvent(p, e)
          PROVE  \E q \in GatePage : desk' = [desk EXCEPT ![p] = q]
      <4>1. [d EXCEPT !.event = e, !.panel = 0] \in GatePage
        BY DEF GatePage
      <4>2. desk' = [desk EXCEPT ![p] = [d EXCEPT !.event = e, !.panel = 0]]
        BY <3>1 DEF SetEvent
      <4>3. QED
        BY <4>1, <4>2
    <3>2. CASE Renders(p)
      <4>1. Busy(p) \in BOOLEAN
        BY DEF Busy
      <4>2. PICK b \in BOOLEAN : b = Busy(p)
        BY <4>1
      <4>3. [d EXCEPT !.busy = b, !.fired = {}] \in GatePage
        BY DEF GatePage
      <4>4. desk' = [desk EXCEPT ![p] = [d EXCEPT !.busy = b, !.fired = {}]]
        BY <3>2, <4>2 DEF Renders
      <4>5. QED
        BY <4>3, <4>4
    <3>3. CASE Dismisses(p)
      <4>1. [d EXCEPT !.screen = 0] \in GatePage
        <5>1. 0 \in 0 .. MaxScans
          OBVIOUS
        <5>2. QED
          BY <5>1, DeskEdits
      <4>2. desk' = [desk EXCEPT ![p] = [d EXCEPT !.screen = 0]]
        BY <3>3 DEF Dismisses, AfterDisplay
      <4>3. QED
        BY <4>1, <4>2
    <3>4. CASE StatsFetched(p)
      <4>1. PICK n \in 0 .. Cardinality(GateTickets) : n = Counted(p)
        BY DEF Counted
      <4>2. [d EXCEPT !.panel = n] \in GatePage
        BY DEF GatePage
      <4>3. desk' = [desk EXCEPT ![p] = [d EXCEPT !.panel = n]]
        BY <3>4, <4>1 DEF StatsFetched
      <4>4. QED
        BY <4>2, <4>3
    <3>5. QED
      BY <1>1, <3>1, <3>2, <3>3, <3>4
  <2>3. desk' \in [GatePages -> GatePage]
    BY <2>2, DeskSets
  <2>4. QED
    BY <1>0, <2>1, <2>3, ScansStay
<1>2. ASSUME NEW t \in GateTickets, Withdraws(t) \/ Withdrawn(t)
      PROVE  GateInv'
  <2>1. /\ UNCHANGED <<desk, scan>> /\ withdrawing' \subseteq GateTickets
        /\ status' \in [GateTickets -> {"ACTIVE", "USED", "CANCELLED"}]
        /\ \A u \in GateTickets : status[u] = "CANCELLED" => status'[u] = "CANCELLED"
    BY <1>0, <1>2 DEF Withdraws, Withdrawn
  <2>2. QED
    BY <2>1, ScansStay
<1>3. QED
  BY <1>1, <1>2

\* A code is sent.
LEMMA SubmitsKeepsGate ==
    ASSUME GateInv, NEW p \in GatePages, NEW source \in {"camera", "form"}, NEW t \in GateTickets,
           Submits(p, source, t)
    PROVE  GateInv'
<1> USE GateTypes DEF GateInv
<1>1. PICK m \in 0 .. MaxScans : Scans = 1 .. m /\ Cardinality(Scans) = m
  OBVIOUS
<1>2. m \in Nat /\ m + 1 <= MaxScans
  BY <1>1 DEF Submits
<1>3. PICK late \in BOOLEAN : late = (status[t] = "CANCELLED")
  OBVIOUS
<1> DEFINE e == [page |-> p, code |-> t, event |-> desk[p].event, at |-> "sent", late |-> late, result |-> "none"]
<1>4. /\ scan' = [i \in 1 .. m + 1 |-> IF i < m + 1 THEN scan[i] ELSE e]
      /\ UNCHANGED <<status, withdrawing>>
      /\ desk[p].event # "none"
      /\ desk' = [desk EXCEPT ![p].fired = @ \cup {source}, ![p].last = m + 1]
  BY <1>1, <1>3 DEF Submits
<1>5. e \in Scan
  <2>1. desk[p].event \in {"this", "other"}
    BY <1>4 DEF GatePage
  <2>2. QED
    BY <2>1 DEF Scan
<1>6. 1 .. m + 1 = Scans \cup {m + 1} /\ m + 1 \notin Scans
  BY <1>1, <1>2
<1>7. Scans' = 1 .. m + 1
  BY <1>4 DEF Scans
<1>8. Cardinality(Scans') = m + 1
  <2>1. Cardinality(1 .. m + 1) = m + 1
    BY <1>2, FS_Interval
  <2>2. QED
    BY <1>7, <2>1
<1>9. (\A j \in Scans : scan'[j] = scan[j]) /\ scan'[m + 1] = e
  BY <1>1, <1>2, <1>4
<1>10. \A j \in Scans' : scan'[j] \in Scan
  BY <1>5, <1>6, <1>7, <1>9
<1>11. scan' \in [1 .. m + 1 -> Scan]
  BY <1>4, <1>7, <1>10
<1>12. ScansAreNumbered' /\ Scans' = 1 .. Cardinality(Scans')
  <2>1. m + 1 \in 0 .. MaxScans
    BY <1>2
  <2>2. QED
    BY <1>7, <1>8, <1>11, <2>1 DEF ScansAreNumbered
<1>13. desk' \in [GatePages -> GatePage]
  <2> DEFINE d == desk[p]
             f == d.fired \cup {source}
             q == [d EXCEPT !.fired = f, !.last = m + 1]
  <2>1. f \in SUBSET {"camera", "form"} /\ m + 1 \in 0 .. MaxScans
    BY <1>2 DEF GatePage
  <2>2. desk' = [desk EXCEPT ![p] = q]
    BY <1>4
  <2> HIDE DEF f
  <2>3. q \in GatePage
    BY <2>1, DeskEdits
  <2>4. QED
    BY <2>2, <2>3, DeskSets
<1>14. GateTypeOK'
  BY <1>4, <1>10, <1>12, <1>13 DEF GateTypeOK
<1>15. Scans' = Scans \cup {m + 1} /\ e.code = t /\ e.at = "sent" /\ e.result = "none" /\ e.late = late
  BY <1>6, <1>7
<1> HIDE DEF e
<1>16. UndecidedHasNoResult' /\ OneIsAdmitted'
  BY <1>9, <1>15 DEF UndecidedHasNoResult, OneIsAdmitted
<1>17. \A u \in GateTickets : Admitted(u) => \E i \in Scans' : scan'[i].code = u /\ scan'[i].result = "VALID"
  BY <1>9, <1>15 DEF Admitted
<1>18. UsedIsAdmitted'
  BY <1>9, <1>15, <1>17 DEF UsedIsAdmitted, Admitted
<1>19. LateIsRefused'
  <2>1. ASSUME NEW i \in Scans', scan'[i].late
        PROVE  /\ scan'[i].result # "VALID"
               /\ scan'[i].at = "sent" =>
                     status[scan'[i].code] = "CANCELLED"
                     \/ \E k \in Scans' : scan'[k].code = scan'[i].code /\ scan'[k].result = "VALID"
               /\ scan'[i].at = "checked" =>
                     \E k \in Scans' : scan'[k].code = scan'[i].code /\ scan'[k].result = "VALID"
    <3>1. CASE i \in Scans
      BY <1>9, <1>17, <2>1, <3>1 DEF LateIsRefused
    <3>2. CASE i = m + 1
      BY <1>3, <1>9, <1>15, <2>1, <3>2
    <3>3. QED
      BY <1>15, <2>1, <3>1, <3>2
  <2>2. QED
    BY <1>4, <2>1 DEF LateIsRefused, Admitted
<1>20. QED
  BY <1>12, <1>14, <1>16, <1>18, <1>19

\* The answer comes, or is lost: no result changes.
LEMMA AnswersKeepGate ==
    ASSUME GateInv, NEW i \in 1 .. MaxScans, ScanAnswered(i) \/ ScanFails(i)
    PROVE  GateInv'
<1> USE GateTypes DEF GateInv
<1>1. i \in Scans /\ UNCHANGED <<status, withdrawing>>
  BY DEF ScanAnswered, ScanFails
<1>2. PICK a \in {"shown", "lost"} : scan' = [scan EXCEPT ![i].at = a]
  BY DEF ScanAnswered, ScanFails
<1>3. ScanMoves(i, a, scan[i].result) /\ ScansAreTyped'
  <2>1. scan[i].result \in Results \cup {"none"}
    BY <1>1 DEF Scan
  <2>2. QED
    BY <1>1, <1>2, <2>1, ScanSets
<1>4. desk' \in [GatePages -> GatePage]
  <2>1. CASE ScanAnswered(i)
    <3>1. desk' = [desk EXCEPT ![scan[i].page] = [desk[scan[i].page] EXCEPT !.screen = i]]
      BY <1>1, <2>1 DEF ScanAnswered
    <3>2. [desk[scan[i].page] EXCEPT !.screen = i] \in GatePage
      <4>1. i \in 0 .. MaxScans /\ desk[scan[i].page] \in GatePage
        BY <1>1
      <4>2. QED
        BY <4>1, DeskEdits
    <3>3. QED
      BY <1>1, <3>1, <3>2, DeskSets
  <2>2. CASE ScanFails(i)
    BY <2>2 DEF ScanFails
  <2>3. QED
    BY <2>1, <2>2
<1>5. GateTypeOK' /\ ScansAreNumbered'
  BY <1>1, <1>3, <1>4 DEF GateTypeOK, ScansAreTyped
<1>6. UndecidedHasNoResult' /\ OneIsAdmitted'
  BY <1>2, <1>3 DEF ScanMoves, UndecidedHasNoResult, OneIsAdmitted
<1>7. UsedIsAdmitted'
  BY <1>3 DEF ScanMoves, UsedIsAdmitted, Admitted
<1>8. LateIsRefused'
  BY <1>1, <1>2, <1>3 DEF ScanMoves, LateIsRefused, Admitted
<1>9. QED
  BY <1>5, <1>6, <1>7, <1>8

\* The two steps of validate.
LEMMA ValidateKeepsGate ==
    ASSUME GateInv, NEW i \in 1 .. MaxScans, Checks(i) \/ Marks(i)
    PROVE  GateInv'
<1> USE GateTypes DEF GateInv
<1> DEFINE t == scan[i].code
<1>1. i \in Scans /\ t \in GateTickets /\ UNCHANGED <<withdrawing, desk>> /\ scan[i].at \in {"sent", "checked"}
  BY DEF Checks, Marks
<1>2. CASE Checks(i)
  <2> DEFINE r == Refusal(i)
             a == IF r = "none" THEN "checked" ELSE "answered"
  <2>1. scan[i].at = "sent" /\ status' = status /\ scan' = [scan EXCEPT ![i].result = r, ![i].at = a]
    BY <1>2 DEF Checks
  <2>2. /\ r \in {"none", "WRONG_EVENT", "CANCELLED_TICKET"}
        /\ r = "none" => status[t] # "CANCELLED"
    BY <1>1 DEF Refusal
  <2>3. a \in {"checked", "answered"} /\ (a = "checked" <=> r = "none")
    OBVIOUS
  <2> HIDE DEF r, a
  <2>4. ScanMoves(i, a, r) /\ ScansAreTyped'
    <3>1. r \in Results \cup {"none"}
      BY <2>2 DEF Results
    <3>2. QED
      BY <1>1, <2>1, <2>3, <3>1, ScanSets
  <2>5. GateTypeOK' /\ ScansAreNumbered'
    BY <1>1, <2>1, <2>4 DEF GateTypeOK, ScansAreTyped
  <2>6. UndecidedHasNoResult' /\ OneIsAdmitted'
    BY <2>2, <2>3, <2>4 DEF ScanMoves, UndecidedHasNoResult, OneIsAdmitted
  <2>7. scan[i].result = "none"
    BY <1>1 DEF UndecidedHasNoResult
  <2>8. UsedIsAdmitted'
    BY <2>2, <2>4, <2>7 DEF ScanMoves, UsedIsAdmitted, Admitted
  <2>9. LateIsRefused'
    <3>1. \A u \in GateTickets : Admitted(u) =>
              \E k \in Scans : scan'[k].code = u /\ scan'[k].result = "VALID"
      BY <2>4, <2>7 DEF ScanMoves, Admitted
    <3>2. ASSUME NEW j \in Scans, scan[j].late
          PROVE  /\ scan'[j].result # "VALID"
                 /\ scan'[j].at = "sent" =>
                       status[scan[j].code] = "CANCELLED"
                       \/ \E k \in Scans : scan'[k].code = scan[j].code /\ scan'[k].result = "VALID"
                 /\ scan'[j].at = "checked" =>
                       \E k \in Scans : scan'[k].code = scan[j].code /\ scan'[k].result = "VALID"
      <4>1. CASE j = i
        <5>1. scan[i].late => status[t] = "CANCELLED" \/ Admitted(t)
          BY <1>1, <2>1 DEF LateIsRefused
        <5>2. QED
          BY <1>1, <2>2, <2>3, <2>4, <3>1, <3>2, <4>1, <5>1 DEF ScanMoves
      <4>2. CASE j # i
        BY <2>4, <3>1, <3>2, <4>2 DEF ScanMoves, LateIsRefused
      <4>3. QED
        BY <4>1, <4>2
    <3>3. Scans' = Scans /\ \A j \in Scans : scan'[j].late = scan[j].late /\ scan'[j].code = scan[j].code
      BY <2>4 DEF ScanMoves
    <3>4. status' = status
      BY <2>1
    <3>5. QED
      BY <3>2, <3>3, <3>4 DEF LateIsRefused, Admitted
  <2>10. QED
    BY <2>5, <2>6, <2>8, <2>9
<1>3. CASE Marks(i)
  <2> DEFINE r == IF NotUsedYet(t) THEN "VALID" ELSE "ALREADY_USED"
  <2>1. /\ scan[i].at = "checked" /\ scan' = [scan EXCEPT ![i].at = "answered", ![i].result = r]
        /\ status' = IF NotUsedYet(t) THEN [status EXCEPT ![t] = "USED"] ELSE status
    BY <1>3 DEF Marks
  <2>2. /\ r \in {"VALID", "ALREADY_USED"} /\ (r = "VALID" <=> NotUsedYet(t))
    OBVIOUS
  <2> HIDE DEF r
  <2>3. ScanMoves(i, "answered", r) /\ ScansAreTyped'
    <3>1. r \in Results \cup {"none"}
      BY <2>2 DEF Results
    <3>2. QED
      BY <1>1, <2>1, <3>1, ScanSets
  <2>4. /\ status' \in [GateTickets -> {"ACTIVE", "USED", "CANCELLED"}]
        /\ \A u \in GateTickets : status'[u] # status[u] => u = t /\ NotUsedYet(t)
    BY <1>1, <2>1
  <2>5. GateTypeOK' /\ ScansAreNumbered'
    BY <1>1, <2>3, <2>4 DEF GateTypeOK, ScansAreTyped
  <2>6. NotUsedYet(t) <=> ~\E j \in Scans : scan[j].code = t /\ scan[j].result \in {"VALID", "ALREADY_USED"}
    BY DEF NotUsedYet
  <2>7. NotUsedYet(t) <=> ~Admitted(t)
    BY <2>6 DEF UsedIsAdmitted, Admitted
  <2>8. UndecidedHasNoResult'
    BY <2>3 DEF ScanMoves, UndecidedHasNoResult
  <2>9. OneIsAdmitted'
    BY <1>1, <2>2, <2>3, <2>7 DEF ScanMoves, OneIsAdmitted, Admitted
  <2>10. scan[i].result = "none"
    BY <1>1 DEF UndecidedHasNoResult
  <2>11. \A u \in GateTickets : Admitted(u) \/ (u = t /\ NotUsedYet(t)) =>
             \E j \in Scans : scan'[j].code = u /\ scan'[j].result = "VALID"
    BY <1>1, <2>2, <2>3, <2>10 DEF ScanMoves, Admitted
  <2>12. UsedIsAdmitted'
    BY <1>1, <2>2, <2>3, <2>7, <2>11 DEF ScanMoves, UsedIsAdmitted, Admitted
  <2>13. scan[i].late => Admitted(t)
    BY <1>1, <2>1 DEF LateIsRefused
  <2>14. LateIsRefused'
    <3>1. ASSUME NEW j \in Scans, scan[j].late
          PROVE  /\ scan'[j].result # "VALID"
                 /\ scan'[j].at = "sent" =>
                       status'[scan[j].code] = "CANCELLED"
                       \/ \E k \in Scans : scan'[k].code = scan[j].code /\ scan'[k].result = "VALID"
                 /\ scan'[j].at = "checked" =>
                       \E k \in Scans : scan'[k].code = scan[j].code /\ scan'[k].result = "VALID"
      <4>1. CASE j = i
        BY <2>2, <2>3, <2>7, <2>13, <3>1, <4>1 DEF ScanMoves
      <4>2. CASE j # i
        BY <2>3, <2>4, <2>11, <3>1, <4>2 DEF ScanMoves, LateIsRefused
      <4>3. QED
        BY <4>1, <4>2
    <3>2. QED
      BY <2>3, <3>1 DEF ScanMoves, LateIsRefused, Admitted
  <2>15. QED
    BY <2>5, <2>8, <2>9, <2>12, <2>14
<1>4. QED
  BY <1>2, <1>3

LEMMA GateInvInit == GateInit => GateInv
<1> SUFFICES ASSUME GateInit
             PROVE  GateInv
  OBVIOUS
<1>1. Scans = {} /\ Cardinality(Scans) = 0
  <2>1. Scans = {}
    BY DEF GateInit, Scans
  <2>2. QED
    BY <2>1, FS_EmptySet
<1>2. MaxScans \in Nat /\ 1 .. 0 = {} /\ Cardinality(GateTickets) \in Nat
  BY GateAssumption, FS_CardinalityType
<1>3. scan \in [{} -> Scan]
  BY DEF GateInit
<1>4. ScansAreNumbered
  BY <1>1, <1>2, <1>3 DEF ScansAreNumbered
<1>5. desk \in [GatePages -> GatePage]
  BY <1>2 DEF GateInit, GatePage, NoScan
<1>6. GateTypeOK
  BY <1>1, <1>2, <1>5 DEF GateInit, GateTypeOK
<1>7. QED
  BY <1>1, <1>4, <1>6 DEF GateInv, UndecidedHasNoResult, OneIsAdmitted, UsedIsAdmitted, LateIsRefused

LEMMA GateInvStep == GateInv /\ [GateNext]_gateVars => GateInv'
<1> SUFFICES ASSUME GateInv, [GateNext]_gateVars
             PROVE  GateInv'
  OBVIOUS
<1>1. CASE GateNext
  BY <1>1, PagesKeepGate, SubmitsKeepsGate, AnswersKeepGate, ValidateKeepsGate DEF GateNext
<1>2. CASE UNCHANGED gateVars
  <2>1. \A t \in GateTickets : status[t] = "CANCELLED" => status'[t] = "CANCELLED"
    BY <1>2 DEF gateVars
  <2>2. scan' = scan /\ desk' = desk /\ status' = status /\ withdrawing' = withdrawing
    BY <1>2 DEF gateVars
  <2>3. QED
    BY <2>1, <2>2, ScansStay DEF GateInv, GateTypeOK
<1>3. QED
  BY <1>1, <1>2

LEMMA GateInvSays == GateInv => ScreensAreTrue
<1> SUFFICES ASSUME GateInv
             PROVE  ScreensAreTrue
  OBVIOUS
<1>1. OneScreenAdmits
  <2> SUFFICES ASSUME NEW t \in GateTickets
               PROVE  Cardinality(Admissions(t)) <= 1
    BY DEF OneScreenAdmits
  <2>1. CASE Admissions(t) = {}
    BY <2>1, FS_EmptySet
  <2>2. CASE Admissions(t) # {}
    <3>1. PICK i \in Admissions(t) : TRUE
      BY <2>2
    <3>2. \A j \in Admissions(t) : j = i
      BY <3>1 DEF Admissions, GateInv, OneIsAdmitted
    <3>3. Admissions(t) = {i}
      BY <3>1, <3>2
    <3>4. Cardinality({i}) = 1
      BY FS_Singleton
    <3>5. QED
      BY <3>3, <3>4
  <2>3. QED
    BY <2>1, <2>2
<1>2. UsedWasAdmitted
  BY GateTypes DEF GateInv, UsedIsAdmitted, Admitted, UsedWasAdmitted, Admissions
<1>3. CancelledStaysOut
  BY DEF GateInv, LateIsRefused, CancelledStaysOut
<1>4. QED
  BY <1>1, <1>2, <1>3 DEF ScreensAreTrue

LEMMA StepsOfGate == [Next]_backVars => [GateNext]_gateVars
  <1> SUFFICES ASSUME [Next]_backVars PROVE GateNext \/ UNCHANGED gateVars
    OBVIOUS
  <1>1. CASE UNCHANGED backVars
    BY <1>1 DEF backVars
  <1>2. CASE Wizards \/ Desks \/ Covers \/ Shares
    BY <1>2 DEF Wizards, Desks, Covers, Shares
  <1>3. CASE Gates \/ LooksUp \/ Browses
    BY <1>3 DEF Gates, LooksUp, Browses
  <1> QED
    BY <1>1, <1>2, <1>3 DEF Next

LEMMA GateInvAlways == Spec => []GateInv
  <1>1. Init => GateInv
    BY GateInvInit DEF Init
  <1>2. GateInv /\ [Next]_backVars => GateInv'
    BY GateInvStep, StepsOfGate
  <1> QED
    BY <1>1, <1>2, PTL DEF Spec

\* However many doors scan a ticket, one screen says it is valid, none calls used
\* what no door admitted, and none admits what was cancelled before the scan
\* (gate.service.ts: validate, gate.repository.ts: markUsed).
THEOREM ScreensAreTrueAlways == Spec => []ScreensAreTrue
  <1>1. GateInv => ScreensAreTrue
    BY GateInvSays
  <1> QED
    BY <1>1, GateInvAlways, PTL

-----------------------------------------------------------------------------
(* What other services know. *)

\* While a question is on its way, an entry it began with is still there, or
\* getCities holds on to it; an error is not known to have had one.
KnownIsThere ==
    \A c \in LookupIds : lookup[c].known =>
        /\ lookup[c].answer # "error"
        /\ LookingUp(c) => Fallback(c)
LookInv == LookupTypeOK /\ KnownIsThere /\ CityIsOfState

LEMMA LookupTypes ==
    ASSUME LookupTypeOK
    PROVE  /\ \A c \in LookupIds : lookup[c] \in Lookup /\ c[2] \in Questions
           /\ \A q \in Questions : entry[q] \in CacheState
           /\ Catalogued \subseteq Questions /\ Cities \subseteq Questions
           /\ NoLookup \in Lookup /\ Data \in Lookup
           /\ ~Data.known /\ Data.main = "none" /\ ~NoLookup.known /\ NoLookup.main = "none"
<1>1. NoLookup \in Lookup /\ ~NoLookup.known /\ NoLookup.main = "none"
  BY DEF NoLookup, Lookup, Part
<1>2. Data \in Lookup /\ ~Data.known /\ Data.main = "none"
  BY DEF Data, NoLookup, Lookup, Part
<1>3. QED
  BY <1>1, <1>2 DEF LookupTypeOK, LookupIds, Questions

\* One question changes.
LEMMA LookupSets ==
    ASSUME LookInv, NEW c \in LookupIds, NEW e \in Lookup, lookup' = [lookup EXCEPT ![c] = e],
           e.known => e.answer # "error",
           e.known /\ e.main # "none" =>
              IF c[2] \in Cities THEN e.cached ELSE entry'[c[2]] # "none",
           entry' \in [Questions -> CacheState],
           \A q \in Questions : entry[q] # "none" => entry'[q] # "none",
           topic' = topic, genres' \in CacheState, venue' = venue
    PROVE  LookInv'
<1>1. lookup \in [LookupIds -> Lookup]
  BY DEF LookInv, LookupTypeOK
<1>2. \A d \in LookupIds : lookup'[d] = IF d = c THEN e ELSE lookup[d]
  BY <1>1
<1>3. lookup' \in [LookupIds -> Lookup]
  BY <1>1
<1>4. LookupTypeOK' /\ CityIsOfState'
  BY <1>3 DEF LookInv, LookupTypeOK, CityIsOfState
<1>5. ASSUME NEW d \in LookupIds, lookup'[d].known
      PROVE  lookup'[d].answer # "error" /\ (lookup'[d].main # "none" =>
                 IF d[2] \in Cities THEN lookup'[d].cached ELSE entry'[d[2]] # "none")
  <2>1. d[2] \in Questions
    BY LookupTypes DEF LookInv
  <2>2. CASE d = c
    BY <1>2, <1>5, <2>2
  <2>3. CASE d # c
    BY <1>2, <1>5, <2>1, <2>3 DEF LookInv, KnownIsThere, LookingUp, Fallback
  <2>4. QED
    BY <2>2, <2>3
<1>6. KnownIsThere'
  BY <1>5 DEF KnownIsThere, LookingUp, Fallback
<1>7. QED
  BY <1>4, <1>6 DEF LookInv

LEMMA LookupsKeep ==
    ASSUME LookInv, NEW c \in LookupIds, Asks(c) \/ Progress(c)
    PROVE  LookInv'
<1> USE LookupTypes DEF LookInv
<1> DEFINE l == lookup[c]
<1>1. /\ l \in Lookup /\ c[2] \in Questions /\ lookup \in [LookupIds -> Lookup]
      /\ entry \in [Questions -> CacheState] /\ genres \in CacheState
  BY DEF LookupTypeOK
<1>2. l.known => l.answer # "error" /\ (l.main # "none" => Fallback(c))
  BY DEF KnownIsThere, LookingUp
<1>3. CASE Asks(c)
  <2>1. UNCHANGED <<topic, entry, genres, venue>>
    BY <1>3 DEF Asks
  <2>2. CASE AnsweredFromCache(c)
    <3>1. lookup' = [lookup EXCEPT ![c] = Data]
      BY <2>2 DEF AnsweredFromCache
    <3>2. QED
      BY <1>1, <2>1, <3>1, LookupSets
  <2>3. CASE AsksProvider(c)
    <3> DEFINE k == entry[c[2]] # "none"
               h == c[2] \in Cities /\ entry[c[2]] # "none"
               x == IF c[2] = "movie" THEN "first" ELSE "none"
               e == [NoLookup EXCEPT !.main = "first", !.cached = h, !.known = k, !.extra = x]
    <3>1. k \in BOOLEAN /\ h \in BOOLEAN /\ x \in Part
      BY DEF Part
    <3>2. lookup' = [lookup EXCEPT ![c] = e]
      BY <2>3 DEF AsksProvider
    <3>3. /\ e \in Lookup /\ e.answer = "none"
          /\ e.known => IF c[2] \in Cities THEN e.cached ELSE entry[c[2]] # "none"
      <4> HIDE DEF k, h, x
      <4>1. e \in Lookup /\ e.answer = "none" /\ e.known = k /\ e.cached = h
        BY <3>1 DEF NoLookup, Lookup, Part
      <4>2. QED
        BY <4>1 DEF k, h
    <3> HIDE DEF e
    <3>4. QED
      BY <1>1, <2>1, <3>2, <3>3, LookupSets
  <2>4. QED
    BY <1>3, <2>2, <2>3 DEF Asks
<1>4. ASSUME NEW e \in Lookup, lookup' = [lookup EXCEPT ![c] = e], UNCHANGED <<topic, entry, venue>>,
             genres' \in CacheState, LookingUp(c), e.known = l.known, e.cached = l.cached, e.answer = l.answer
      PROVE  LookInv'
  <2>1. e.known => e.answer # "error" /\ IF c[2] \in Cities THEN e.cached ELSE entry[c[2]] # "none"
    BY <1>2, <1>4 DEF Fallback, LookingUp
  <2>2. QED
    BY <1>1, <1>4, <2>1, LookupSets
<1>5. CASE MainFails(c)
  <2>1. LookingUp(c) /\ UNCHANGED <<topic, entry, genres, venue>>
    BY <1>5 DEF MainFails
  <2>2. CASE lookup' = [lookup EXCEPT ![c].main = Again(@)]
    <3> DEFINE a == Again(l.main)
               e == [l EXCEPT !.main = a]
    <3>1. a \in Part
      BY DEF Again, Part
    <3>2. lookup' = [lookup EXCEPT ![c] = e]
      BY <1>1, <2>2
    <3> HIDE DEF a
    <3>3. e \in Lookup /\ e.known = l.known /\ e.cached = l.cached /\ e.answer = l.answer
      BY <1>1, <3>1 DEF Lookup
    <3> HIDE DEF e
    <3>4. QED
      BY <1>1, <1>4, <2>1, <3>2, <3>3
  <2>3. CASE Fails(c)
    <3>1. CASE Fallback(c)
      <4>1. lookup' = [lookup EXCEPT ![c] = Data]
        BY <2>3, <3>1 DEF Fails
      <4>2. QED
        BY <1>1, <2>1, <4>1, LookupSets
    <3>2. CASE ~Fallback(c)
      <4> DEFINE e == [NoLookup EXCEPT !.answer = "error", !.known = l.known]
      <4>1. lookup' = [lookup EXCEPT ![c] = e]
        BY <2>3, <3>2 DEF Fails
      <4>2. l.known \in BOOLEAN /\ ~l.known
        BY <1>1, <1>2, <2>1, <3>2 DEF Lookup, LookingUp
      <4>3. e \in Lookup /\ e.known = l.known
        BY <4>2 DEF NoLookup, Lookup, Part
      <4> HIDE DEF e
      <4>4. QED
        BY <1>1, <2>1, <4>1, <4>2, <4>3, LookupSets
    <3>3. QED
      BY <3>1, <3>2
  <2>4. QED
    BY <1>5, <2>2, <2>3 DEF MainFails
<1>6. CASE MainAnswers(c)
  <2>1. LookingUp(c) /\ UNCHANGED <<topic, entry, genres, venue>>
    BY <1>6 DEF MainAnswers
  <2> DEFINE x == IF c[2] # "search" THEN l.extra ELSE IF genres = "fresh" THEN "answered" ELSE "first"
             e == [l EXCEPT !.main = "answered", !.extra = x]
  <2>2. lookup' = [lookup EXCEPT ![c] = e]
    BY <1>1, <1>6 DEF MainAnswers
  <2>3. x \in Part
    BY <1>1 DEF Lookup, Part
  <2> HIDE DEF x
  <2>4. e \in Lookup /\ e.known = l.known /\ e.cached = l.cached /\ e.answer = l.answer
    BY <1>1, <2>3 DEF Lookup, Part
  <2> HIDE DEF e
  <2>5. QED
    BY <1>1, <1>4, <2>1, <2>2, <2>4
<1>7. CASE ExtraEnds(c)
  <2>1. LookingUp(c) /\ UNCHANGED <<topic, entry, venue>> /\ genres' \in CacheState
    BY <1>1, <1>7 DEF ExtraEnds, CacheState
  <2>2. PICK x \in Part : lookup' = [lookup EXCEPT ![c].extra = x]
    <3>1. Again(l.extra) \in Part /\ "failed" \in Part /\ "answered" \in Part
      BY DEF Again, Part
    <3>2. QED
      BY <1>7, <3>1 DEF ExtraEnds
  <2> DEFINE e == [l EXCEPT !.extra = x]
  <2>3. lookup' = [lookup EXCEPT ![c] = e]
    BY <1>1, <2>2
  <2>4. e \in Lookup /\ e.known = l.known /\ e.cached = l.cached /\ e.answer = l.answer
    BY <1>1, <2>2 DEF Lookup
  <2> HIDE DEF e
  <2>5. QED
    BY <1>4, <2>1, <2>3, <2>4
<1>8. CASE StoresAnswer(c)
  <2>1. /\ lookup' = [lookup EXCEPT ![c] = Data] /\ UNCHANGED <<topic, genres, venue>>
        /\ entry' = [entry EXCEPT ![c[2]] = "fresh"]
    BY <1>8 DEF StoresAnswer
  <2>2. entry' \in [Questions -> CacheState] /\ \A q \in Questions : entry[q] # "none" => entry'[q] # "none"
    BY <1>1, <2>1 DEF CacheState
  <2>3. QED
    BY <1>1, <2>1, <2>2, LookupSets
<1>9. QED
  BY <1>3, <1>5, <1>6, <1>7, <1>8 DEF Progress

LEMMA WorldKeepsLookups ==
    ASSUME LookInv,
           \/ \E q \in Questions : Expires(q)
           \/ GenresExpire \/ Purge \/ Restart
           \/ \E s \in Cities : ChooseState(s) \/ ChooseCity(s)
           \/ \E b \in Clients : Leaves(b)
    PROVE  LookInv'
<1> USE LookupTypes DEF LookInv
<1>1. /\ lookup \in [LookupIds -> Lookup] /\ entry \in [Questions -> CacheState] /\ genres \in CacheState
      /\ topic \in Topics /\ venue \in [state : Cities \cup {"none"}, city : Cities \cup {"none"}]
  BY DEF LookupTypeOK
<1>2. CASE GenresExpire \/ \E q \in Questions : Expires(q)
  <2>1. UNCHANGED <<topic, lookup, venue>> /\ genres' \in CacheState /\ entry' \in [Questions -> CacheState]
        /\ \A q \in Questions : entry[q] # "none" => entry'[q] # "none"
    BY <1>1, <1>2 DEF GenresExpire, Expires, CacheState
  <2>2. LookupTypeOK' /\ CityIsOfState'
    BY <2>1 DEF LookupTypeOK, CityIsOfState
  <2>3. KnownIsThere'
    BY <2>1 DEF KnownIsThere, LookingUp, Fallback
  <2>4. QED
    BY <2>2, <2>3
<1>3. CASE Purge
  <2> DEFINE purged == {q \in Catalogued : entry[q] = "old"}
  <2>1. /\ UNCHANGED <<topic, genres, venue>>
        /\ entry' = [q \in Questions |-> IF q \in Catalogued /\ entry[q] = "old" THEN "none" ELSE entry[q]]
        /\ lookup' = [c \in LookupIds |-> IF c[2] \in purged THEN [lookup[c] EXCEPT !.known = FALSE] ELSE lookup[c]]
    BY <1>3 DEF Purge, Forgotten
  <2>2. entry' \in [Questions -> CacheState]
        /\ \A q \in Questions : q \notin purged => entry'[q] = entry[q]
    BY <1>1, <2>1 DEF CacheState
  <2>3. ASSUME NEW c \in LookupIds
        PROVE  /\ lookup'[c] \in Lookup /\ (c[2] \in purged => ~lookup'[c].known)
               /\ c[2] \notin purged => lookup'[c] = lookup[c]
    <3>1. [lookup[c] EXCEPT !.known = FALSE] \in Lookup /\ ~[lookup[c] EXCEPT !.known = FALSE].known
      BY <1>1 DEF Lookup
    <3>2. QED
      BY <1>1, <2>1, <3>1
  <2>4. lookup' \in [LookupIds -> Lookup]
    BY <2>1, <2>3
  <2>5. LookupTypeOK' /\ CityIsOfState'
    BY <1>1, <2>1, <2>2, <2>4 DEF LookupTypeOK, CityIsOfState
  <2>6. KnownIsThere'
    BY <2>2, <2>3 DEF KnownIsThere, LookingUp, Fallback
  <2>7. QED
    BY <2>5, <2>6
<1>4. CASE Restart
  <2>1. /\ UNCHANGED <<topic, venue>> /\ genres' \in CacheState /\ entry' \in [Questions -> CacheState]
        /\ \A q \in Catalogued : entry'[q] = entry[q]
    BY <1>1, <1>4 DEF Restart, CacheState
  <2>2. ASSUME NEW c \in LookupIds
        PROVE  /\ lookup'[c] \in Lookup /\ lookup'[c].main = "none"
               /\ lookup'[c].known => lookup'[c].answer # "error"
    <3> DEFINE k == lookup[c].known /\ c[2] \in Catalogued
    <3>1. lookup'[c] = IF LookingUp(c) THEN [NoLookup EXCEPT !.answer = "error"]
                       ELSE [lookup[c] EXCEPT !.known = k]
      BY <1>4 DEF Restart
    <3>2. CASE LookingUp(c)
      <4>1. lookup'[c] = [NoLookup EXCEPT !.answer = "error"]
        BY <3>1, <3>2
      <4>2. QED
        BY <4>1 DEF NoLookup, Lookup, Part
    <3>3. CASE ~LookingUp(c)
      <4>1. k \in BOOLEAN /\ (k => lookup[c].known)
        BY <1>1 DEF Lookup
      <4>2. lookup'[c] = [lookup[c] EXCEPT !.known = k]
        BY <3>1, <3>3
      <4>3. lookup[c].known => lookup[c].answer # "error"
        BY DEF KnownIsThere
      <4> HIDE DEF k
      <4>4. /\ lookup'[c] \in Lookup /\ lookup'[c].known = k /\ lookup'[c].main = lookup[c].main
            /\ lookup'[c].answer = lookup[c].answer
        BY <1>1, <4>1, <4>2 DEF Lookup
      <4>5. QED
        BY <3>3, <4>1, <4>3, <4>4 DEF LookingUp
    <3>4. QED
      BY <3>2, <3>3
  <2>3. lookup' \in [LookupIds -> Lookup]
    BY <1>4, <2>2 DEF Restart
  <2>4. LookupTypeOK' /\ CityIsOfState'
    BY <1>1, <2>1, <2>3 DEF LookupTypeOK, CityIsOfState
  <2>5. KnownIsThere'
    BY <2>2 DEF KnownIsThere, LookingUp
  <2>6. QED
    BY <2>4, <2>5
<1>5. CASE \E s \in Cities : ChooseState(s) \/ ChooseCity(s)
  <2>1. UNCHANGED <<topic, entry, genres, lookup>>
    BY <1>5 DEF ChooseState, ChooseCity
  <2>2. venue' \in [state : Cities \cup {"none"}, city : Cities \cup {"none"}] /\ CityIsOfState'
    <3>1. ASSUME NEW s \in Cities, ChooseState(s)
          PROVE  venue' \in [state : Cities \cup {"none"}, city : Cities \cup {"none"}] /\ CityIsOfState'
      BY <3>1 DEF ChooseState, StateChosen, CityIsOfState
    <3>2. ASSUME NEW s \in Cities, ChooseCity(s)
          PROVE  venue' \in [state : Cities \cup {"none"}, city : Cities \cup {"none"}] /\ CityIsOfState'
      <4>1. venue' = [venue EXCEPT !.city = s] /\ venue.state = s
        BY <3>2 DEF ChooseCity
      <4>2. QED
        BY <1>1, <4>1 DEF CityIsOfState
    <3>3. QED
      BY <1>5, <3>1, <3>2
  <2>3. LookupTypeOK' /\ KnownIsThere'
    BY <1>1, <2>1, <2>2 DEF LookupTypeOK, KnownIsThere, LookingUp, Fallback
  <2>4. QED
    BY <2>2, <2>3
<1>6. CASE \E b \in Clients : Leaves(b)
  <2>1. PICK b \in Clients :
            /\ lookup' = [c \in LookupIds |-> IF c[1] = b THEN NoLookup ELSE lookup[c]]
            /\ venue' = IF b = Venue THEN [state |-> "none", city |-> "none"] ELSE venue
            /\ UNCHANGED <<topic, entry, genres>>
    BY <1>6 DEF Leaves
  <2>2. lookup' \in [LookupIds -> Lookup] /\ \A c \in LookupIds : lookup'[c] \in {NoLookup, lookup[c]}
    BY <1>1, <2>1
  <2>3. venue' \in [state : Cities \cup {"none"}, city : Cities \cup {"none"}] /\ CityIsOfState'
    BY <1>1, <2>1 DEF CityIsOfState
  <2>4. LookupTypeOK'
    BY <1>1, <2>1, <2>2, <2>3 DEF LookupTypeOK
  <2>5. KnownIsThere'
    BY <2>1, <2>2 DEF KnownIsThere, LookingUp, Fallback
  <2>6. QED
    BY <2>3, <2>4, <2>5
<1>7. QED
  BY <1>2, <1>3, <1>4, <1>5, <1>6

LEMMA LookInvInit == LookupInit => LookInv
<1> SUFFICES ASSUME LookupInit
             PROVE  LookInv
  OBVIOUS
<1>1. NoLookup \in Lookup /\ ~NoLookup.known
  BY DEF NoLookup, Lookup, Part
<1>2. \A c \in LookupIds : lookup[c] = NoLookup
  BY DEF LookupInit
<1>3. LookupTypeOK /\ CityIsOfState
  BY <1>1 DEF LookupInit, LookupTypeOK, CityIsOfState, CacheState
<1>4. QED
  BY <1>1, <1>2, <1>3 DEF LookInv, KnownIsThere

LEMMA LookInvStep == LookInv /\ [LookupNext]_lookupVars => LookInv'
<1> SUFFICES ASSUME LookInv, [LookupNext]_lookupVars
             PROVE  LookInv'
  OBVIOUS
<1>1. CASE LookupNext
  BY <1>1, LookupsKeep, WorldKeepsLookups DEF LookupNext
<1>2. CASE UNCHANGED lookupVars
  BY <1>2 DEF lookupVars, LookInv, LookupTypeOK, KnownIsThere, CityIsOfState, LookingUp, Fallback
<1>3. QED
  BY <1>1, <1>2

LEMMA LookInvSays == LookInv => LookupsAreUsable
  BY DEF LookInv, KnownIsThere, LookupsAreUsable, FailsOnlyWithoutCache

LEMMA StepsOfLookups == [Next]_backVars => [LookupNext]_lookupVars
  <1> SUFFICES ASSUME [Next]_backVars PROVE LookupNext \/ UNCHANGED lookupVars
    OBVIOUS
  <1>1. CASE UNCHANGED backVars
    BY <1>1 DEF backVars
  <1>2. CASE Wizards \/ Desks \/ Covers \/ Shares
    BY <1>2 DEF Wizards, Desks, Covers, Shares
  <1>3. CASE Gates \/ LooksUp \/ Browses
    BY <1>3 DEF Gates, LooksUp, Browses
  <1> QED
    BY <1>1, <1>2, <1>3 DEF Next

LEMMA LookInvAlways == Spec => []LookInv
  <1>1. Init => LookInv
    BY LookInvInit DEF Init
  <1>2. LookInv /\ [Next]_backVars => LookInv'
    BY LookInvStep, StepsOfLookups
  <1> QED
    BY <1>1, <1>2, PTL DEF Spec

\* A question fails only if nothing was cached for it, and the city of the form
\* is one of its state (catalog.service.ts, locations.service.ts, VenueStep.tsx).
THEOREM LookupsAreUsableAlways == Spec => []LookupsAreUsable
  <1>1. LookInv => LookupsAreUsable
    BY LookInvSays
  <1> QED
    BY <1>1, LookInvAlways, PTL

-----------------------------------------------------------------------------
(* The wizard. *)

\* The attempts whose event exists, and the slots that have none.
Made == {"created", "publish", "publishedAnswer", "published", "notPublished"}
Unmade(s) == \A e \in DOMAIN events : events[e].slot # s

TriesAreMade ==
    /\ ~busy => try = <<>>
    /\ \A i, j \in DOMAIN try : try[i].slot = try[j].slot => i = j
    /\ \A i \in DOMAIN try : try[i].at \in Made =>
          try[i].event \in DOMAIN events /\ events[try[i].event].slot = try[i].slot

\* The bound on the events leaves room for those not created yet.
ToCreate == {i \in DOMAIN try : try[i].at = "create"}
RoomForTries == Len(events) + Cardinality(ToCreate) <= MaxEvents

TriesAreDraft ==
    "back" \notin detour /\ busy =>
        /\ step = "room" /\ DOMAIN try = DOMAIN draft.slots
        /\ \A i \in DOMAIN try : try[i].slot = draft.slots[i]

\* A slot that may still be created has no event.
OneEventPerSlot ==
    detour \cap {"lost", "back", "reloaded"} = {} =>
        /\ \A i, j \in DOMAIN events : events[i].slot = events[j].slot => i = j
        /\ \A i \in DOMAIN try : try[i].at \in {"create", "notCreated"} => Unmade(try[i].slot)
        /\ ~busy /\ step # "left" => \A i \in DOMAIN draft.slots : Unmade(draft.slots[i])
        /\ step = "venue" => \A i \in DOMAIN form.slots : Unmade(form.slots[i])

\* A draft that was not told of belongs to an attempt that is under way, or will
\* be told of when the others end.
DraftsAreTried ==
    detour \cap {"lost", "reloaded"} = {} =>
        \A e \in DOMAIN events : events[e].status = "DRAFT" =>
            \/ e \in told
            \/ \E i \in DOMAIN try : /\ try[i].event = e
                                     /\ try[i].at \in {"created", "publish", "notPublished"}

\* The session on screen next to a slot is the one chosen for it.
SessionsAreChosen ==
    detour \cap {"removed", "partial", "back"} = {} =>
        /\ \A e \in DOMAIN events : events[e].session = events[e].meant
        /\ \A i \in DOMAIN try : try[i].at # "notCreated" => try[i].session = try[i].meant
        /\ Len(draft.sessions) <= Len(draft.slots)
        /\ \A s \in Slots : s \notin Range(draft.slots) => chosen[s] = DefaultSession
        /\ step = "room" =>
              /\ Len(form.sessions) <= Len(draft.slots)
              /\ \A i \in DOMAIN form.sessions : form.sessions[i] = chosen[draft.slots[i]]
        /\ step = "venue" =>
              /\ Len(draft.slots) <= Len(form.slots)
              /\ \A i \in DOMAIN draft.slots :
                    /\ form.slots[i] = draft.slots[i]
                    /\ chosen[draft.slots[i]] = Aligned(draft.slots, draft.sessions)[i]

WizardInv ==
    /\ WizardTypeOK /\ TriesAreMade /\ RoomForTries /\ TriesAreDraft
    /\ OneEventPerSlot /\ NoSlotLost /\ DraftsAreTried /\ SessionsAreChosen

-----------------------------------------------------------------------------
(* Sequences of slots and of sessions. *)

LEMMA AlignedFacts ==
    ASSUME NEW a \in Seq(Slots), NEW b \in Seq(Sessions)
    PROVE  /\ Aligned(a, b) \in Seq(Sessions) /\ Len(Aligned(a, b)) = Len(a)
           /\ DOMAIN Aligned(a, b) = DOMAIN a
           /\ \A i \in DOMAIN a : Aligned(a, b)[i] = IF i \in DOMAIN b THEN b[i] ELSE DefaultSession
  <1>1. DOMAIN a = 1 .. Len(a) /\ Len(a) \in Nat /\ \A i \in DOMAIN b : b[i] \in Sessions
    OBVIOUS
  <1>2. Aligned(a, b) \in [1 .. Len(a) -> Sessions]
    BY <1>1, WizardAssumption DEF Aligned
  <1>3. Aligned(a, b) \in Seq(Sessions) /\ Len(Aligned(a, b)) = Len(a)
    BY <1>1, <1>2, SeqDef, LenProperties
  <1>4. QED
    BY <1>1, <1>3 DEF Aligned

LEMMA MountedFacts ==
    ASSUME NEW d \in Listing
    PROVE  /\ Mounted(d) \in Listing /\ Mounted(d).slots = d.slots
           /\ Mounted(d).sessions = Aligned(d.slots, d.sessions)
  BY AlignedFacts DEF Listing, Mounted

LEMMA RemovedFacts ==
    ASSUME NEW S, NEW q \in Seq(S), NEW i \in DOMAIN q
    PROVE  /\ RemoveAt(q, i) \in Seq(S) /\ Len(RemoveAt(q, i)) = Len(q) - 1
           /\ \A j \in DOMAIN RemoveAt(q, i) :
                /\ j \in DOMAIN q /\ j + 1 \in DOMAIN q
                /\ RemoveAt(q, i)[j] = IF j < i THEN q[j] ELSE q[j + 1]
  <1> DEFINE s == SubSeq(q, 1, i - 1)
             t == SubSeq(q, i + 1, Len(q))
  <1>1. /\ Len(q) \in Nat /\ DOMAIN q = 1 .. Len(q) /\ i \in Int
        /\ i - 1 \in Int /\ i + 1 \in Int /\ Len(q) \in Int
    OBVIOUS
  <1>2. /\ s \in Seq(S) /\ Len(s) = i - 1
        /\ \A j \in 1 .. i - 1 : s[j] = q[j]
    BY <1>1, SubSeqProperties
  <1>3. /\ t \in Seq(S) /\ Len(t) = Len(q) - i
        /\ \A j \in 1 .. Len(q) - i : t[j] = q[j + i]
    <2>1. \A j \in i + 1 .. Len(q) : q[j] \in S
      BY <1>1
    <2>2. /\ t \in Seq(S) /\ Len(t) = IF i + 1 <= Len(q) THEN Len(q) - (i + 1) + 1 ELSE 0
          /\ \A j \in 1 .. Len(q) - (i + 1) + 1 : t[j] = q[(i + 1) + j - 1]
      BY <1>1, <2>1, SubSeqProperties
    <2>3. Len(t) = Len(q) - i
      BY <1>1, <2>2
    <2>4. \A j \in 1 .. Len(q) - i : j \in 1 .. Len(q) - (i + 1) + 1 /\ (i + 1) + j - 1 = j + i
      BY <1>1
    <2>5. QED
      BY <2>2, <2>3, <2>4
  <1> HIDE DEF s, t
  <1>4. /\ s \o t \in Seq(S) /\ Len(s \o t) = Len(s) + Len(t)
        /\ \A j \in 1 .. Len(s) + Len(t) : (s \o t)[j] = IF j <= Len(s) THEN s[j] ELSE t[j - Len(s)]
    BY <1>2, <1>3, ConcatProperties
  <1>5. RemoveAt(q, i) = s \o t
    BY DEF RemoveAt, s, t
  <1>6. Len(s \o t) = Len(q) - 1
    BY <1>1, <1>2, <1>3, <1>4
  <1>7. ASSUME NEW j \in DOMAIN (s \o t)
        PROVE  /\ j \in DOMAIN q /\ j + 1 \in DOMAIN q
               /\ (s \o t)[j] = IF j < i THEN q[j] ELSE q[j + 1]
    <2>1. j \in 1 .. Len(q) - 1 /\ j \in 1 .. Len(s) + Len(t)
      BY <1>1, <1>4, <1>6
    <2>2. CASE j < i
      <3>1. j <= Len(s) /\ j \in 1 .. i - 1
        BY <1>1, <1>2, <2>1, <2>2
      <3>2. QED
        BY <1>1, <1>2, <1>4, <2>1, <2>2, <3>1
    <2>3. CASE ~(j < i)
      <3>1. /\ ~(j <= Len(s)) /\ j - Len(s) \in 1 .. Len(q) - i
            /\ (j - Len(s)) + i = j + 1
        BY <1>1, <1>2, <2>1, <2>3
      <3>2. t[j - Len(s)] = q[j + 1]
        BY <1>3, <3>1
      <3>3. (s \o t)[j] = q[j + 1]
        BY <1>4, <2>1, <3>1, <3>2
      <3>4. j \in DOMAIN q /\ j + 1 \in DOMAIN q
        BY <1>1, <2>1
      <3>5. QED
        BY <2>3, <3>3, <3>4
    <2>4. QED
      BY <2>2, <2>3
  <1>8. QED
    BY <1>4, <1>5, <1>6, <1>7

LEMMA RemovedInjective ==
    ASSUME NEW S, NEW q \in Seq(S), NEW i \in DOMAIN q, IsInjective(q)
    PROVE  IsInjective(RemoveAt(q, i))
  <1> SUFFICES ASSUME NEW a \in DOMAIN RemoveAt(q, i), NEW b \in DOMAIN RemoveAt(q, i),
                      RemoveAt(q, i)[a] = RemoveAt(q, i)[b]
               PROVE  a = b
    BY DEF IsInjective
  <1>1. PICK c, d : /\ c = IF a < i THEN a ELSE a + 1
                    /\ d = IF b < i THEN b ELSE b + 1
    OBVIOUS
  <1>2. c \in DOMAIN q /\ d \in DOMAIN q /\ q[c] = q[d]
    BY <1>1, RemovedFacts
  <1>3. c = d
    BY <1>2 DEF IsInjective
  <1>4. DOMAIN q \subseteq Nat
    OBVIOUS
  <1>5. a \in DOMAIN q /\ b \in DOMAIN q
    BY RemovedFacts
  <1>6. \A x, y, z \in Nat :
           (IF x < z THEN x ELSE x + 1) = (IF y < z THEN y ELSE y + 1) => x = y
    OBVIOUS
  <1>7. QED
    BY <1>1, <1>3, <1>4, <1>5, <1>6

\* The increasing enumeration of some places: it lists each of them once, and
\* all the places of a sequence as they are.
LEMMA InOrderFacts ==
    ASSUME NEW n \in Nat, NEW K \in SUBSET (1 .. n), NEW f \in InOrder(K)
    PROVE  /\ Cardinality(K) \in Nat /\ f \in [1 .. Cardinality(K) -> K] /\ IsInjective(f)
           /\ \A k \in K : \E a \in DOMAIN f : f[a] = k
           /\ K = 1 .. n => Cardinality(K) = n /\ \A a \in 1 .. n : f[a] = a
  <1> DEFINE m == Cardinality(K)
  <1>1. /\ IsFiniteSet(1 .. n) /\ Cardinality(1 .. n) = n
    <2>1. 1 \in Int /\ n \in Int
      OBVIOUS
    <2>2. QED
      BY <2>1, FS_Interval
  <1>2. IsFiniteSet(K) /\ m \in Nat
    BY <1>1, FS_Subset, FS_CardinalityType
  <1>3. f \in [1 .. m -> K] /\ \A a, b \in 1 .. m : a < b => f[a] < f[b]
    BY DEF InOrder
  <1>4. \A a \in 1 .. m : f[a] \in 1 .. n
    BY <1>3
  <1>5. IsInjective(f)
    <2> SUFFICES ASSUME NEW a \in 1 .. m, NEW b \in 1 .. m, f[a] = f[b] PROVE a = b
      BY <1>3 DEF IsInjective
    <2>1. ~(a < b) /\ ~(b < a)
      BY <1>3, <1>4
    <2>2. QED
      BY <1>2, <2>1
  <1>6. \A k \in K : \E a \in DOMAIN f : f[a] = k
    <2>1. f \in Injection(1 .. m, K)
      BY <1>3, <1>5 DEF Injection
    <2>2. Cardinality(1 .. m) = m
      <3>1. 1 \in Int /\ m \in Int
        BY <1>2
      <3>2. QED
        BY <1>2, <3>1, FS_Interval
    <2>3. f \in Surjection(1 .. m, K)
      BY <1>2, <2>1, <2>2, FS_Injection
    <2>4. QED
      BY <1>3, <2>3 DEF Surjection
  <1>7. ASSUME K = 1 .. n
        PROVE  m = n /\ \A a \in 1 .. n : f[a] = a
    <2>1. m = n
      BY <1>1, <1>7
    <2> DEFINE T == {a \in 1 .. n : f[a] # a}
    <2>2. SUFFICES ASSUME T # {} PROVE FALSE
      BY <2>1
    <2>3. PICK k \in T : \A j \in T : ~(j < k)
      <3>1. T \subseteq Nat
        OBVIOUS
      <3>2. PICK k \in T : \A j \in T : ~(<<j, k>> \in OpToRel(<, Nat))
        <4> HIDE DEF T
        <4>1. QED
          BY <2>2, <3>1, NatLessThanWellFounded, WFMin
      <3>3. \A j \in T : j < k => <<j, k>> \in OpToRel(<, Nat)
        BY <3>1 DEF OpToRel
      <3>4. QED
        BY <3>2, <3>3
    <2>4. k \in 1 .. n /\ f[k] # k /\ f[k] \in 1 .. n
      BY <1>4, <2>1
    <2>5. \A j \in 1 .. n : j < k => f[j] = j
      BY <2>3
    <2>6. f[k] > k
      <3>1. SUFFICES ASSUME f[k] < k PROVE FALSE
        BY <2>4
      <3>2. f[f[k]] = f[k]
        BY <2>4, <2>5, <3>1
      <3>3. QED
        BY <1>3, <1>5, <2>1, <2>4, <3>2 DEF IsInjective
    <2>7. PICK a \in 1 .. n : f[a] = k
      BY <1>3, <1>6, <1>7, <2>1, <2>4
    <2>8. CASE a < k
      BY <2>4, <2>5, <2>7, <2>8
    <2>9. CASE a = k
      BY <2>4, <2>7, <2>9
    <2>10. CASE a > k
      <3>1. f[k] < f[a]
        BY <1>3, <2>1, <2>4, <2>10
      <3>2. QED
        BY <2>4, <2>6, <2>7, <3>1
    <2>11. QED
      BY <2>4, <2>7, <2>8, <2>9, <2>10
  <1>8. QED
    BY <1>2, <1>3, <1>5, <1>6, <1>7

-----------------------------------------------------------------------------
(* The forms. *)

LEMMA WizardTypes ==
    ASSUME WizardTypeOK
    PROVE  /\ draft \in Listing /\ draft.slots \in Seq(Slots) /\ draft.sessions \in Seq(Sessions)
           /\ form \in Listing /\ form.slots \in Seq(Slots) /\ form.sessions \in Seq(Sessions)
           /\ IsInjective(draft.slots) /\ IsInjective(form.slots)
           /\ try \in Seq(Try) /\ events \in Seq(Event) /\ chosen \in [Slots -> Sessions]
           /\ Len(draft.slots) \in Nat /\ DOMAIN draft.slots = 1 .. Len(draft.slots)
           /\ Len(draft.sessions) \in Nat /\ DOMAIN draft.sessions = 1 .. Len(draft.sessions)
           /\ Len(form.slots) \in Nat /\ DOMAIN form.slots = 1 .. Len(form.slots)
           /\ Len(form.sessions) \in Nat /\ DOMAIN form.sessions = 1 .. Len(form.sessions)
           /\ Len(try) \in Nat /\ DOMAIN try = 1 .. Len(try)
           /\ Len(events) \in Nat /\ DOMAIN events = 1 .. Len(events)
           /\ MaxEvents \in Nat /\ MaxEdits \in Nat
  BY WizardAssumption DEF WizardTypeOK, Listing

LEMMA EditTypes ==
    ASSUME WizardTypeOK, Edit
    PROVE  edits' \in 0 .. MaxEdits
  BY WizardAssumption DEF WizardTypeOK, Edit

LEMMA FormsKeep ==
    ASSUME WizardInv, UNCHANGED <<busy, try, events, told>>, detour \subseteq detour'
    PROVE  TriesAreMade' /\ RoomForTries' /\ DraftsAreTried'
  <1>1. TriesAreMade'
    BY DEF WizardInv, TriesAreMade
  <1>2. RoomForTries'
    BY DEF WizardInv, RoomForTries, ToCreate
  <1>3. DraftsAreTried'
    BY DEF WizardInv, DraftsAreTried
  <1>4. QED
    BY <1>1, <1>2, <1>3

LEMMA AddSlotKeeps ==
    ASSUME WizardInv, NEW s \in Slots, AddSlot(s)
    PROVE  WizardInv'
  <1>1. WizardTypeOK
    BY DEF WizardInv
  <1>2. /\ step = "venue" /\ s \notin Range(form.slots) /\ Edit /\ Unmade(s)
        /\ form' = [form EXCEPT !.slots = Append(@, s)]
        /\ UNCHANGED <<step, draft, busy, try, events, chosen, told, wanted, detour>>
    BY DEF AddSlot, Unmade
  <1>3. form'.slots = Append(form.slots, s) /\ form'.sessions = form.sessions /\ form' \in Listing
    <2>1. Append(form.slots, s) \in Seq(Slots)
      BY <1>1, WizardTypes
    <2>2. form \in [slots : Seq(Slots), sessions : Seq(Sessions)]
      BY <1>1, WizardTypes DEF Listing
    <2>3. QED
      BY <1>2, <2>1, <2>2 DEF Listing
  <1>4. /\ Len(form'.slots) = Len(form.slots) + 1 /\ DOMAIN form'.slots = 1 .. Len(form.slots) + 1
        /\ form'.slots[Len(form.slots) + 1] = s
        /\ \A i \in DOMAIN form.slots : i \in DOMAIN form'.slots /\ form'.slots[i] = form.slots[i]
        /\ \A i \in DOMAIN form'.slots : i \in DOMAIN form.slots \/ i = Len(form.slots) + 1
    BY <1>1, <1>3, WizardTypes
  <1>5. IsInjective(form'.slots)
    <2>1. \A i \in DOMAIN form.slots : form.slots[i] # s
      BY <1>2 DEF Range
    <2>2. QED
      BY <1>1, <1>4, <2>1, WizardTypes DEF IsInjective
  <1>6. WizardTypeOK'
    BY <1>1, <1>2, <1>3, <1>5, EditTypes DEF WizardTypeOK
  <1>7. TriesAreMade' /\ RoomForTries' /\ DraftsAreTried'
    BY <1>2, FormsKeep
  <1>8. TriesAreDraft' /\ NoSlotLost'
    BY <1>2 DEF WizardInv, TriesAreDraft, NoSlotLost
  <1>9. OneEventPerSlot'
    BY <1>2, <1>4 DEF WizardInv, OneEventPerSlot, Unmade
  <1>10. SessionsAreChosen'
    <2>1. Len(draft.slots) <= Len(form.slots) => Len(draft.slots) <= Len(form'.slots)
      BY <1>1, <1>4, WizardTypes
    <2>2. Len(draft.slots) <= Len(form.slots) => DOMAIN draft.slots \subseteq DOMAIN form.slots
      BY <1>1, WizardTypes
    <2>3. QED
      BY <1>2, <1>4, <2>1, <2>2 DEF WizardInv, SessionsAreChosen
  <1>11. QED
    BY <1>6, <1>7, <1>8, <1>9, <1>10 DEF WizardInv

LEMMA RemoveSlotKeeps ==
    ASSUME WizardInv, NEW i, RemoveSlot(i)
    PROVE  WizardInv'
  <1>1. WizardTypeOK
    BY DEF WizardInv
  <1>2. /\ step = "venue" /\ i \in DOMAIN form.slots /\ Edit
        /\ form' = [form EXCEPT !.slots = RemoveAt(@, i)]
        /\ detour' = detour \cup {"removed"}
        /\ UNCHANGED <<step, draft, busy, try, events, chosen, told, wanted>>
    BY DEF RemoveSlot
  <1>3. form.slots \in Seq(Slots) /\ IsInjective(form.slots)
    BY <1>1, WizardTypes
  <1>4. /\ RemoveAt(form.slots, i) \in Seq(Slots) /\ IsInjective(RemoveAt(form.slots, i))
        /\ \A j \in DOMAIN RemoveAt(form.slots, i) : \E k \in DOMAIN form.slots :
              RemoveAt(form.slots, i)[j] = form.slots[k]
    BY <1>2, <1>3, RemovedFacts, RemovedInjective
  <1>5. form'.slots = RemoveAt(form.slots, i) /\ form' \in Listing
    BY <1>1, <1>2, <1>4, WizardTypes DEF Listing
  <1>6. WizardTypeOK'
    BY <1>1, <1>2, <1>4, <1>5, EditTypes DEF WizardTypeOK
  <1>7. TriesAreMade' /\ RoomForTries' /\ DraftsAreTried'
    BY <1>2, FormsKeep
  <1>8. TriesAreDraft' /\ NoSlotLost'
    BY <1>2 DEF WizardInv, TriesAreDraft, NoSlotLost
  <1>9. OneEventPerSlot'
    BY <1>2, <1>4, <1>5 DEF WizardInv, OneEventPerSlot, Unmade
  <1>10. SessionsAreChosen'
    BY <1>2 DEF SessionsAreChosen
  <1>11. QED
    BY <1>6, <1>7, <1>8, <1>9, <1>10 DEF WizardInv

LEMMA ToRoomKeeps ==
    ASSUME WizardInv, ToRoom
    PROVE  WizardInv'
  <1>1. WizardTypeOK
    BY DEF WizardInv
  <1>2. /\ step = "venue" /\ step' = "room"
        /\ draft' = VenueDraft(form.slots) /\ form' = Mounted(draft')
        /\ wanted' = (wanted \ Range(draft.slots)) \cup Range(form.slots)
        /\ UNCHANGED <<busy, try, events, chosen, told, edits, detour>>
    BY DEF ToRoom
  <1>3. PICK d : d = VenueDraft(form.slots)
    OBVIOUS
  <1> DEFINE a == Aligned(form.slots, draft.sessions)
  <1>4. d = [slots |-> form.slots, sessions |-> a]
    BY <1>3 DEF VenueDraft
  <1>5. /\ a \in Seq(Sessions) /\ Len(a) = Len(form.slots) /\ DOMAIN a = DOMAIN form.slots
        /\ \A i \in DOMAIN form.slots :
              a[i] = IF i \in DOMAIN draft.sessions THEN draft.sessions[i] ELSE DefaultSession
    BY <1>1, WizardTypes, AlignedFacts
  <1> HIDE DEF a
  <1>6. d \in Listing /\ d.slots = form.slots /\ d.sessions = a
    BY <1>1, <1>4, <1>5, WizardTypes DEF Listing
  <1>7. draft' = d /\ form' = Mounted(d)
    BY <1>2, <1>3
  <1>8. /\ form' \in Listing /\ form'.slots = form.slots
        /\ form'.sessions = Aligned(form.slots, a)
    BY <1>6, <1>7, MountedFacts
  <1>9. /\ Len(form'.sessions) = Len(form.slots) /\ DOMAIN form'.sessions = DOMAIN form.slots
        /\ \A i \in DOMAIN form.slots : form'.sessions[i] = a[i]
    BY <1>1, <1>5, <1>8, WizardTypes, AlignedFacts
  <1>10. Range(form.slots) \subseteq Slots
    BY <1>1, WizardTypes DEF Range
  <1>11. WizardTypeOK'
    BY <1>1, <1>2, <1>6, <1>7, <1>8, <1>10, WizardTypes DEF WizardTypeOK
  <1>12. TriesAreMade' /\ RoomForTries' /\ DraftsAreTried'
    BY <1>2, FormsKeep
  <1>13. TriesAreDraft'
    BY <1>2 DEF WizardInv, TriesAreDraft
  <1>14. NoSlotLost'
    BY <1>2, <1>6, <1>7 DEF WizardInv, NoSlotLost
  <1>15. OneEventPerSlot'
    BY <1>2, <1>6, <1>7 DEF WizardInv, OneEventPerSlot, Unmade
  <1>16. SessionsAreChosen'
    <2> SUFFICES ASSUME detour \cap {"removed", "partial", "back"} = {}
                 PROVE  /\ Len(d.sessions) <= Len(d.slots)
                        /\ \A s \in Slots : s \notin Range(d.slots) => chosen[s] = DefaultSession
                        /\ Len(form'.sessions) <= Len(d.slots)
                        /\ \A i \in DOMAIN form'.sessions : form'.sessions[i] = chosen[d.slots[i]]
      BY <1>2, <1>7 DEF WizardInv, SessionsAreChosen
    <2>1. /\ Len(draft.sessions) <= Len(draft.slots)
          /\ \A s \in Slots : s \notin Range(draft.slots) => chosen[s] = DefaultSession
          /\ Len(draft.slots) <= Len(form.slots)
          /\ \A i \in DOMAIN draft.slots :
                /\ form.slots[i] = draft.slots[i]
                /\ chosen[draft.slots[i]] = Aligned(draft.slots, draft.sessions)[i]
      BY <1>2 DEF WizardInv, SessionsAreChosen
    <2>2. Len(d.sessions) <= Len(d.slots) /\ Len(form'.sessions) <= Len(d.slots)
      BY <1>1, <1>5, <1>6, <1>9, WizardTypes
    <2>3. DOMAIN draft.slots \subseteq DOMAIN form.slots
      BY <1>1, <2>1, WizardTypes
    <2>4. Range(draft.slots) \subseteq Range(form.slots)
      BY <2>1, <2>3 DEF Range
    <2>5. ASSUME NEW i \in DOMAIN form.slots
          PROVE  a[i] = chosen[form.slots[i]]
      <3>1. CASE i \in DOMAIN draft.slots
        BY <1>1, <1>5, <2>1, <3>1, WizardTypes, AlignedFacts
      <3>2. CASE i \notin DOMAIN draft.slots
        <4>1. i \notin DOMAIN draft.sessions
          BY <1>1, <2>1, <3>2, WizardTypes
        <4>2. form.slots[i] \notin Range(draft.slots)
          <5>1. SUFFICES ASSUME NEW k \in DOMAIN draft.slots, form.slots[i] = draft.slots[k]
                         PROVE  FALSE
            BY DEF Range
          <5>2. k \in DOMAIN form.slots /\ form.slots[k] = form.slots[i]
            BY <2>1, <2>3, <5>1
          <5>3. QED
            BY <1>1, <3>2, <5>1, <5>2, WizardTypes DEF IsInjective
        <4>3. form.slots[i] \in Slots
          BY <1>1, WizardTypes
        <4>4. QED
          BY <1>5, <2>1, <4>1, <4>2, <4>3
      <3>3. QED
        BY <3>1, <3>2
    <2>6. QED
      BY <1>6, <1>9, <2>1, <2>2, <2>4, <2>5
  <1>17. QED
    BY <1>11, <1>12, <1>13, <1>14, <1>15, <1>16 DEF WizardInv

\* What is chosen of the slots of the draft once a form is gone.
LEMMA UnsubmittedFacts ==
    ASSUME WizardTypeOK
    PROVE  /\ Unsubmitted \in [Slots -> Sessions]
           /\ \A s \in Slots : s \notin Range(draft.slots) => Unsubmitted[s] = chosen[s]
           /\ \A i \in DOMAIN draft.slots :
                 Unsubmitted[draft.slots[i]] = Aligned(draft.slots, draft.sessions)[i]
  <1> DEFINE a == Aligned(draft.slots, draft.sessions)
             place(s) == CHOOSE i \in DOMAIN draft.slots : draft.slots[i] = s
  <1>1. a \in Seq(Sessions) /\ DOMAIN a = DOMAIN draft.slots
    BY WizardTypes, AlignedFacts
  <1>2. ASSUME NEW s \in Range(draft.slots)
        PROVE  place(s) \in DOMAIN draft.slots /\ draft.slots[place(s)] = s
    BY <1>2 DEF Range
  <1>3. Unsubmitted = [s \in Slots |-> IF s \notin Range(draft.slots) THEN chosen[s] ELSE a[place(s)]]
    BY DEF Unsubmitted
  <1>4. ASSUME NEW i \in DOMAIN draft.slots
        PROVE  /\ draft.slots[i] \in Slots /\ draft.slots[i] \in Range(draft.slots)
               /\ place(draft.slots[i]) = i
    <2>1. draft.slots[i] \in Slots /\ draft.slots[i] \in Range(draft.slots)
      BY WizardTypes DEF Range
    <2>2. QED
      BY <1>2, <2>1, WizardTypes DEF IsInjective
  <1>5. \A s \in Range(draft.slots) : a[place(s)] \in Sessions
    <2>1. \A i \in DOMAIN a : a[i] \in Sessions
      BY <1>1
    <2>2. QED
      BY <1>1, <1>2, <2>1
  <1> HIDE DEF a, place
  <1>6. chosen \in [Slots -> Sessions]
    BY WizardTypes
  <1>7. QED
    BY <1>3, <1>4, <1>5, <1>6 DEF a

LEMMA BackKeeps ==
    ASSUME WizardInv, Back
    PROVE  WizardInv'
  <1>1. WizardTypeOK
    BY DEF WizardInv
  <1>2. /\ step = "room" /\ Edit /\ step' = "venue"
        /\ form' = Mounted(draft) /\ chosen' = Unsubmitted
        /\ detour' = detour \cup (IF busy THEN {"back"} ELSE {})
        /\ UNCHANGED <<draft, busy, try, events, told, wanted>>
    BY DEF Back
  <1>3. /\ form' \in Listing /\ form'.slots = draft.slots
        /\ form'.sessions = Aligned(draft.slots, draft.sessions)
    BY <1>1, <1>2, WizardTypes, MountedFacts
  <1>4. WizardTypeOK'
    BY <1>1, <1>2, <1>3, EditTypes, WizardTypes, UnsubmittedFacts DEF WizardTypeOK
  <1>5. TriesAreMade' /\ RoomForTries' /\ DraftsAreTried'
    BY <1>2, FormsKeep
  <1>6. TriesAreDraft' /\ NoSlotLost'
    BY <1>2 DEF WizardInv, TriesAreDraft, NoSlotLost
  <1>7. OneEventPerSlot'
    BY <1>2, <1>3 DEF WizardInv, OneEventPerSlot, Unmade
  <1>8. SessionsAreChosen'
    BY <1>1, <1>2, <1>3, UnsubmittedFacts, WizardTypes DEF WizardInv, SessionsAreChosen
  <1>9. QED
    BY <1>4, <1>5, <1>6, <1>7, <1>8 DEF WizardInv

LEMMA ChooseKeeps ==
    ASSUME WizardInv, NEW i, NEW a \in Sessions, Choose(i, a)
    PROVE  WizardInv'
  <1>1. WizardTypeOK
    BY DEF WizardInv
  <1>2. /\ step = "room" /\ i \in DOMAIN draft.slots /\ Edit
        /\ \/ i \in DOMAIN form.sessions /\ form' = [form EXCEPT !.sessions[i] = a]
           \/ i = Len(form.sessions) + 1 /\ form' = [form EXCEPT !.sessions = Append(@, a)]
        /\ chosen' = [chosen EXCEPT ![draft.slots[i]] = a]
        /\ UNCHANGED <<step, draft, busy, try, events, told, wanted, detour>>
    BY DEF Choose
  <1>3. form \in [slots : Seq(Slots), sessions : Seq(Sessions)]
    BY <1>1, WizardTypes DEF Listing
  <1>4. /\ form' \in Listing /\ form'.slots = form.slots
        /\ i \in DOMAIN form'.sessions /\ form'.sessions[i] = a
        /\ Len(form'.sessions) = Len(form.sessions)
           \/ (Len(form'.sessions) = Len(form.sessions) + 1 /\ i = Len(form.sessions) + 1)
        /\ \A j \in DOMAIN form'.sessions : j # i =>
              j \in DOMAIN form.sessions /\ form'.sessions[j] = form.sessions[j]
    <2>1. CASE i \in DOMAIN form.sessions /\ form' = [form EXCEPT !.sessions[i] = a]
      <3>1. i \in 1 .. Len(form.sessions)
        BY <1>1, <2>1, WizardTypes
      <3>2. PICK q : q = [form.sessions EXCEPT ![i] = a]
        OBVIOUS
      <3>3. q \in Seq(Sessions) /\ Len(q) = Len(form.sessions)
        BY <1>3, <3>1, <3>2, ExceptSeq
      <3>4. form' = [form EXCEPT !.sessions = q]
        BY <1>3, <2>1, <3>2
      <3>5. form' \in Listing /\ form'.slots = form.slots /\ form'.sessions = q
        BY <1>3, <3>3, <3>4 DEF Listing
      <3>6. DOMAIN q = DOMAIN form.sessions /\ q[i] = a /\ \A j \in DOMAIN q : j # i => q[j] = form.sessions[j]
        BY <2>1, <3>2
      <3>7. QED
        BY <2>1, <3>3, <3>5, <3>6
    <2>2. CASE i = Len(form.sessions) + 1 /\ form' = [form EXCEPT !.sessions = Append(@, a)]
      <3>1. PICK q : q = Append(form.sessions, a)
        OBVIOUS
      <3>2. /\ q \in Seq(Sessions) /\ Len(q) = Len(form.sessions) + 1
            /\ DOMAIN q = 1 .. Len(form.sessions) + 1 /\ q[Len(form.sessions) + 1] = a
            /\ \A j \in 1 .. Len(form.sessions) : q[j] = form.sessions[j]
        BY <1>3, <3>1
      <3>3. form' = [form EXCEPT !.sessions = q]
        BY <2>2, <3>1
      <3>4. form' \in Listing /\ form'.slots = form.slots /\ form'.sessions = q
        BY <1>3, <3>2, <3>3 DEF Listing
      <3>5. \A j \in DOMAIN q : j # i => j \in DOMAIN form.sessions
        BY <1>1, <2>2, <3>2, WizardTypes
      <3>6. i \in DOMAIN q
        BY <1>1, <2>2, <3>2, WizardTypes
      <3>7. QED
        BY <1>1, <2>2, <3>2, <3>4, <3>5, <3>6, WizardTypes
    <2>3. QED
      BY <1>2, <2>1, <2>2
  <1>5. draft.slots[i] \in Slots
    BY <1>1, <1>2, WizardTypes
  <1>6. WizardTypeOK'
    BY <1>1, <1>2, <1>4, <1>5, EditTypes DEF WizardTypeOK
  <1>7. TriesAreMade' /\ RoomForTries' /\ DraftsAreTried'
    BY <1>2, FormsKeep
  <1>8. TriesAreDraft' /\ NoSlotLost'
    BY <1>2 DEF WizardInv, TriesAreDraft, NoSlotLost
  <1>9. OneEventPerSlot'
    BY <1>2 DEF WizardInv, OneEventPerSlot, Unmade
  <1>10. SessionsAreChosen'
    <2> SUFFICES ASSUME detour \cap {"removed", "partial", "back"} = {}
                 PROVE  /\ \A s \in Slots : s \notin Range(draft.slots) => chosen'[s] = DefaultSession
                        /\ Len(form'.sessions) <= Len(draft.slots)
                        /\ \A j \in DOMAIN form'.sessions : form'.sessions[j] = chosen'[draft.slots[j]]
      BY <1>2 DEF WizardInv, SessionsAreChosen
    <2>1. /\ \A s \in Slots : s \notin Range(draft.slots) => chosen[s] = DefaultSession
          /\ Len(form.sessions) <= Len(draft.slots)
          /\ \A j \in DOMAIN form.sessions : form.sessions[j] = chosen[draft.slots[j]]
      BY <1>2 DEF WizardInv, SessionsAreChosen
    <2>2. draft.slots[i] \in Range(draft.slots)
      BY <1>2 DEF Range
    <2>3. Len(form'.sessions) <= Len(draft.slots)
      BY <1>1, <1>2, <1>4, <2>1, WizardTypes
    <2>4. chosen \in [Slots -> Sessions]
      BY <1>1, WizardTypes
    <2>5. ASSUME NEW j \in DOMAIN form'.sessions
          PROVE  form'.sessions[j] = chosen'[draft.slots[j]]
      <3>1. CASE j = i
        BY <1>2, <1>4, <1>5, <2>4, <3>1
      <3>2. CASE j # i
        <4>1. j \in DOMAIN form.sessions /\ form'.sessions[j] = chosen[draft.slots[j]]
          BY <1>4, <2>1, <3>2
        <4>2. j \in DOMAIN draft.slots
          BY <1>1, <2>1, <4>1, WizardTypes
        <4>3. draft.slots[j] # draft.slots[i] /\ draft.slots[j] \in Slots
          BY <1>1, <1>2, <3>2, <4>2, WizardTypes DEF IsInjective
        <4>4. QED
          BY <1>2, <2>4, <4>1, <4>3
      <3>3. QED
        BY <3>1, <3>2
    <2>6. QED
      BY <1>2, <2>1, <2>2, <2>3, <2>4, <2>5
  <1>11. QED
    BY <1>6, <1>7, <1>8, <1>9, <1>10 DEF WizardInv

-----------------------------------------------------------------------------
(* A submission begins. *)

Ats == {"create", "created", "publish", "publishedAnswer", "published", "notCreated", "notPublished"}

LEMMA AttemptsFacts ==
    ASSUME WizardTypeOK
    PROVE  /\ Attempts \in Seq(Try) /\ DOMAIN Attempts = DOMAIN draft.slots
           /\ Len(Attempts) = Len(draft.slots)
           /\ \A i \in DOMAIN draft.slots :
                 /\ Attempts[i].slot = draft.slots[i] /\ Attempts[i].meant = chosen[draft.slots[i]]
                 /\ Attempts[i].at \in {"create", "notCreated"}
                 /\ Attempts[i].at = "create" =>
                       i \in DOMAIN form.sessions /\ Attempts[i].session = form.sessions[i]
  <1>1. ASSUME NEW i \in DOMAIN draft.slots
        PROVE  /\ Attempt(i, i) \in Try
               /\ Attempt(i, i).slot = draft.slots[i]
               /\ Attempt(i, i).meant = chosen[draft.slots[i]]
               /\ Attempt(i, i).at \in {"create", "notCreated"}
               /\ Attempt(i, i).at = "create" =>
                     i \in DOMAIN form.sessions /\ Attempt(i, i).session = form.sessions[i]
    <2>1. PICK s, m : s = draft.slots[i] /\ m = chosen[draft.slots[i]]
      OBVIOUS
    <2>2. s \in Slots /\ m \in Sessions
      BY <2>1, WizardTypes
    <2>3. 0 \in 0 .. MaxEvents
      BY WizardTypes
    <2>4. CASE i \in DOMAIN form.sessions
      <3>1. PICK f : f = form.sessions[i]
        OBVIOUS
      <3>2. f \in Sessions
        BY <2>4, <3>1, WizardTypes
      <3>3. Attempt(i, i) = [slot |-> s, meant |-> m, event |-> 0, session |-> f, at |-> "create"]
        BY <2>1, <2>4, <3>1 DEF Attempt
      <3>4. QED
        BY <2>1, <2>2, <2>3, <2>4, <3>1, <3>2, <3>3 DEF Try
    <2>5. CASE i \notin DOMAIN form.sessions
      <3>1. Attempt(i, i) = [slot |-> s, meant |-> m, event |-> 0, session |-> DefaultSession,
                             at |-> "notCreated"]
        BY <2>1, <2>5 DEF Attempt
      <3>2. QED
        BY <2>1, <2>2, <2>3, <2>5, <3>1, WizardAssumption DEF Try
    <2>6. QED
      BY <2>4, <2>5
  <1>2. DOMAIN Attempts = DOMAIN draft.slots /\ \A i \in DOMAIN draft.slots : Attempts[i] = Attempt(i, i)
    BY DEF Attempts
  <1>3. Attempts \in [1 .. Len(draft.slots) -> Try]
    <2>1. Attempts = [i \in 1 .. Len(draft.slots) |-> Attempt(i, i)]
      BY WizardTypes DEF Attempts
    <2>2. \A i \in 1 .. Len(draft.slots) : Attempt(i, i) \in Try
      BY <1>1, WizardTypes
    <2>3. QED
      BY <2>1, <2>2
  <1>4. Attempts \in Seq(Try)
    BY <1>3, WizardTypes, SeqDef
  <1>5. Len(Attempts) = Len(draft.slots)
    BY <1>3, <1>4, WizardTypes, LenProperties
  <1>6. QED
    BY <1>1, <1>2, <1>4, <1>5

LEMMA SubmitKeeps ==
    ASSUME WizardInv, Submit
    PROVE  WizardInv'
  <1>1. WizardTypeOK
    BY DEF WizardInv
  <1>2. /\ step = "room" /\ ~busy /\ Len(events) + Len(draft.slots) <= MaxEvents
        /\ draft' = [draft EXCEPT !.sessions = form.sessions]
        /\ try' = Attempts /\ busy' = TRUE
        /\ UNCHANGED <<step, form, events, chosen, told, wanted, edits, detour>>
    BY DEF Submit
  <1>3. draft' \in Listing /\ draft'.slots = draft.slots /\ draft'.sessions = form.sessions
    <2>1. draft \in [slots : Seq(Slots), sessions : Seq(Sessions)] /\ form.sessions \in Seq(Sessions)
      BY <1>1, WizardTypes DEF Listing
    <2>2. QED
      BY <1>2, <2>1 DEF Listing
  <1>4. /\ try' \in Seq(Try) /\ DOMAIN try' = DOMAIN draft.slots
        /\ \A i \in DOMAIN draft.slots :
              /\ try'[i].slot = draft.slots[i] /\ try'[i].meant = chosen[draft.slots[i]]
              /\ try'[i].at \in {"create", "notCreated"}
              /\ try'[i].at = "create" =>
                    i \in DOMAIN form.sessions /\ try'[i].session = form.sessions[i]
    BY <1>1, <1>2, AttemptsFacts
  <1>5. WizardTypeOK'
    BY <1>1, <1>2, <1>3, <1>4 DEF WizardTypeOK
  <1>6. TriesAreMade'
    <2>1. \A i, j \in DOMAIN try' : try'[i].slot = try'[j].slot => i = j
      BY <1>1, <1>4, WizardTypes DEF IsInjective
    <2>2. QED
      BY <1>2, <1>4, <2>1 DEF TriesAreMade, Made
  <1>7. RoomForTries'
    <2>1. ToCreate' \in SUBSET (1 .. Len(draft.slots))
      BY <1>1, <1>4, WizardTypes DEF ToCreate
    <2>2. 1 \in Int /\ Len(draft.slots) \in Int
      BY <1>1, WizardTypes
    <2>3. IsFiniteSet(1 .. Len(draft.slots)) /\ Cardinality(1 .. Len(draft.slots)) = Len(draft.slots)
      <3>1. PICK n : n = Len(draft.slots)
        OBVIOUS
      <3>2. n \in Nat
        BY <1>1, <3>1, WizardTypes
      <3>3. /\ IsFiniteSet(1 .. n)
            /\ Cardinality(1 .. n) = IF 1 > n THEN 0 ELSE n - 1 + 1
        BY <3>2, FS_Interval
      <3>4. Cardinality(1 .. n) = n
        BY <3>2, <3>3
      <3>5. QED
        BY <3>1, <3>3, <3>4
    <2>4. Cardinality(ToCreate') <= Len(draft.slots) /\ Cardinality(ToCreate') \in Nat
      BY <2>1, <2>3, FS_Subset, FS_CardinalityType
    <2>5. Len(events) + Cardinality(ToCreate') <= MaxEvents
      BY <1>1, <1>2, <2>4, WizardTypes
    <2>6. QED
      BY <1>2, <2>5 DEF RoomForTries
  <1>8. TriesAreDraft'
    BY <1>2, <1>3, <1>4 DEF TriesAreDraft
  <1>9. OneEventPerSlot'
    BY <1>2, <1>3, <1>4 DEF WizardInv, OneEventPerSlot, Unmade
  <1>10. NoSlotLost'
    BY <1>2, <1>3 DEF WizardInv, NoSlotLost
  <1>11. DraftsAreTried'
    <2>1. try = <<>>
      BY <1>2 DEF WizardInv, TriesAreMade
    <2>2. QED
      BY <1>2, <2>1 DEF WizardInv, DraftsAreTried
  <1>12. SessionsAreChosen'
    BY <1>2, <1>3, <1>4 DEF WizardInv, SessionsAreChosen
  <1>13. QED
    BY <1>5, <1>6, <1>7, <1>8, <1>9, <1>10, <1>11, <1>12 DEF WizardInv

-----------------------------------------------------------------------------
(* The calls. *)

LEMMA TrySets ==
    ASSUME WizardTypeOK, NEW i \in DOMAIN try, NEW r \in Try, try' = [try EXCEPT ![i] = r]
    PROVE  /\ try' \in Seq(Try) /\ DOMAIN try' = DOMAIN try /\ try'[i] = r
           /\ \A j \in DOMAIN try : j # i => try'[j] = try[j]
  BY WizardTypes

LEMMA GoesFacts ==
    ASSUME WizardTypeOK, NEW i, NEW w \in Ats, Goes(i, w)
    PROVE  /\ i \in DOMAIN try /\ try' \in Seq(Try) /\ DOMAIN try' = DOMAIN try
           /\ try'[i].slot = try[i].slot /\ try'[i].session = try[i].session
           /\ try'[i].meant = try[i].meant /\ try'[i].event = try[i].event /\ try'[i].at = w
           /\ \A j \in DOMAIN try : j # i => try'[j] = try[j]
  <1>1. i \in DOMAIN try
    BY DEF Goes
  <1>2. PICK r : r = [try[i] EXCEPT !.at = w]
    OBVIOUS
  <1>3. try[i] \in Try
    BY <1>1, WizardTypes
  <1>4. /\ r \in Try /\ r.slot = try[i].slot /\ r.session = try[i].session
        /\ r.meant = try[i].meant /\ r.event = try[i].event /\ r.at = w
    BY <1>2, <1>3 DEF Try, Ats
  <1>5. try' = [try EXCEPT ![i] = r]
    BY <1>2 DEF Goes
  <1>6. QED
    BY <1>1, <1>4, <1>5, TrySets

LEMMA ToCreateIsFinite ==
    ASSUME WizardTypeOK
    PROVE  IsFiniteSet(ToCreate) /\ Cardinality(ToCreate) \in Nat
  <1>1. 1 \in Int /\ Len(try) \in Int
    BY WizardTypes
  <1>2. IsFiniteSet(1 .. Len(try))
    BY <1>1, FS_Interval
  <1>3. ToCreate \in SUBSET (1 .. Len(try))
    BY WizardTypes DEF ToCreate
  <1>4. QED
    BY <1>2, <1>3, FS_Subset, FS_CardinalityType

\* A call goes on and the events stay as they are.
LEMMA QuietCallKeeps ==
    ASSUME WizardInv, NEW i, NEW w \in Ats, Goes(i, w),
           UNCHANGED <<step, draft, form, busy, events, chosen, told, wanted, edits>>,
           detour \subseteq detour', detour' \subseteq detour \cup {"lost"},
           w # "create", try[i].at \notin {"notCreated", "notPublished"},
           w \in Made => try[i].at \in Made,
           w = "notCreated" => try[i].at = "create" \/ "lost" \in detour',
           try[i].at \in {"created", "publish"} => w \in {"publish", "notPublished"} \/ "lost" \in detour'
    PROVE  WizardInv'
  <1>1. WizardTypeOK
    BY DEF WizardInv
  <1>2. /\ i \in DOMAIN try /\ try' \in Seq(Try) /\ DOMAIN try' = DOMAIN try
        /\ try'[i].slot = try[i].slot /\ try'[i].session = try[i].session
        /\ try'[i].meant = try[i].meant /\ try'[i].event = try[i].event /\ try'[i].at = w
        /\ \A j \in DOMAIN try : j # i => try'[j] = try[j]
    BY <1>1, GoesFacts
  <1>3. WizardTypeOK'
    BY <1>1, <1>2 DEF WizardTypeOK
  <1>4. TriesAreMade'
    <2>1. try # <<>>
      BY <1>2
    <2>2. \A j, k \in DOMAIN try' : try'[j].slot = try'[k].slot => j = k
      BY <1>2 DEF WizardInv, TriesAreMade
    <2>3. QED
      BY <1>2, <2>1, <2>2 DEF WizardInv, TriesAreMade
  <1>5. RoomForTries'
    <2>1. ToCreate' \in SUBSET ToCreate
      BY <1>2 DEF ToCreate
    <2>2. /\ Cardinality(ToCreate') <= Cardinality(ToCreate)
          /\ Cardinality(ToCreate') \in Nat /\ Cardinality(ToCreate) \in Nat
      BY <1>1, <2>1, ToCreateIsFinite, FS_Subset, FS_CardinalityType
    <2>3. Len(events) + Cardinality(ToCreate') <= MaxEvents
      BY <1>1, <2>2, WizardTypes DEF WizardInv, RoomForTries
    <2>4. QED
      BY <2>3 DEF RoomForTries
  <1>6. TriesAreDraft'
    BY <1>2 DEF WizardInv, TriesAreDraft
  <1>7. OneEventPerSlot'
    BY <1>2 DEF WizardInv, OneEventPerSlot, Unmade
  <1>8. NoSlotLost'
    BY DEF WizardInv, NoSlotLost
  <1>9. DraftsAreTried'
    <2> SUFFICES ASSUME detour' \cap {"lost", "reloaded"} = {}, NEW e \in DOMAIN events,
                        events[e].status = "DRAFT", e \notin told
                 PROVE  \E j \in DOMAIN try : /\ try'[j].event = e
                                              /\ try'[j].at \in {"created", "publish", "notPublished"}
      BY <1>2 DEF DraftsAreTried
    <2>1. PICK j \in DOMAIN try : /\ try[j].event = e
                                  /\ try[j].at \in {"created", "publish", "notPublished"}
      BY DEF WizardInv, DraftsAreTried
    <2>2. QED
      BY <1>2, <2>1
  <1>10. SessionsAreChosen'
    BY <1>2 DEF WizardInv, SessionsAreChosen
  <1>11. QED
    BY <1>3, <1>4, <1>5, <1>6, <1>7, <1>8, <1>9, <1>10 DEF WizardInv

LEMMA CreatesKeeps ==
    ASSUME WizardInv, NEW i, Creates(i)
    PROVE  WizardInv'
  <1>1. WizardTypeOK
    BY DEF WizardInv
  <1>2. /\ i \in DOMAIN try /\ try[i].at = "create"
        /\ events' = Append(events, Created(try[i]))
        /\ try' = [try EXCEPT ![i].at = "created", ![i].event = Len(events) + 1]
        /\ UNCHANGED <<step, draft, form, busy, chosen, told, wanted, edits, detour>>
    BY DEF Creates, Is
  <1>3. try[i] \in Try
    BY <1>1, <1>2, WizardTypes
  <1>4. PICK c : c = Created(try[i])
    OBVIOUS
  <1>5. /\ c \in Event /\ c.slot = try[i].slot /\ c.status = "DRAFT"
        /\ c.session = try[i].session /\ c.meant = try[i].meant
    BY <1>3, <1>4 DEF Created, Event, Try
  <1>6. /\ events' \in Seq(Event) /\ DOMAIN events' = 1 .. Len(events) + 1
        /\ Len(events') = Len(events) + 1
        /\ events'[Len(events) + 1] = c
        /\ \A e \in DOMAIN events : e \in DOMAIN events' /\ events'[e] = events[e]
        /\ \A e \in DOMAIN events' : e \in DOMAIN events \/ e = Len(events) + 1
        /\ Len(events) + 1 \in DOMAIN events' /\ Len(events) + 1 \notin DOMAIN events
    <2>1. events \in Seq(Event) /\ Len(events) \in Nat /\ DOMAIN events = 1 .. Len(events)
      BY <1>1, WizardTypes
    <2>2. events' = Append(events, c)
      BY <1>2, <1>4
    <2>3. QED
      BY <1>5, <2>1, <2>2
  <1>7. /\ ToCreate \ {i} \in SUBSET ToCreate
        /\ Cardinality(ToCreate \ {i}) = Cardinality(ToCreate) - 1
        /\ Cardinality(ToCreate \ {i}) \in Nat /\ Cardinality(ToCreate) \in Nat
    <2>1. IsFiniteSet(ToCreate) /\ i \in ToCreate
      BY <1>1, <1>2, ToCreateIsFinite DEF ToCreate
    <2>2. /\ IsFiniteSet(ToCreate \ {i})
          /\ Cardinality(ToCreate \ {i}) = Cardinality(ToCreate) - 1
      BY <2>1, FS_RemoveElement
    <2>3. QED
      BY <2>1, <2>2, FS_CardinalityType
  <1>8. Len(events) + 1 + Cardinality(ToCreate \ {i}) <= MaxEvents /\ Len(events) + 1 \in 0 .. MaxEvents
    <2>1. Len(events) + Cardinality(ToCreate) <= MaxEvents
      BY DEF WizardInv, RoomForTries
    <2>2. Len(events) \in Nat /\ MaxEvents \in Nat
      BY <1>1, WizardTypes
    <2>3. QED
      BY <1>7, <2>1, <2>2
  <1>9. /\ try' \in Seq(Try) /\ DOMAIN try' = DOMAIN try
        /\ try'[i].slot = try[i].slot /\ try'[i].session = try[i].session
        /\ try'[i].meant = try[i].meant /\ try'[i].event = Len(events) + 1 /\ try'[i].at = "created"
        /\ \A j \in DOMAIN try : j # i => try'[j] = try[j]
    <2>1. PICK n, r : n = Len(events) + 1 /\ r = [try[i] EXCEPT !.at = "created", !.event = n]
      OBVIOUS
    <2>2. n \in 0 .. MaxEvents
      BY <1>8, <2>1
    <2>3. /\ r \in Try /\ r.slot = try[i].slot /\ r.session = try[i].session
          /\ r.meant = try[i].meant /\ r.event = n /\ r.at = "created"
      BY <1>3, <2>1, <2>2 DEF Try
    <2>4. try' = [try EXCEPT ![i] = r]
      BY <1>1, <1>2, <2>1, WizardTypes
    <2>5. QED
      BY <1>1, <1>2, <2>1, <2>3, <2>4, TrySets
  <1>10. WizardTypeOK'
    <2>1. DOMAIN events \subseteq DOMAIN events'
      BY <1>6
    <2>2. QED
      BY <1>1, <1>2, <1>6, <1>9, <2>1 DEF WizardTypeOK
  <1>11. TriesAreMade'
    <2>1. try # <<>>
      BY <1>2
    <2>2. \A j, k \in DOMAIN try' : try'[j].slot = try'[k].slot => j = k
      BY <1>9 DEF WizardInv, TriesAreMade
    <2>3. ASSUME NEW j \in DOMAIN try', try'[j].at \in Made
          PROVE  try'[j].event \in DOMAIN events' /\ events'[try'[j].event].slot = try'[j].slot
      <3>1. CASE j = i
        BY <1>5, <1>6, <1>9, <3>1
      <3>2. CASE j # i
        BY <1>6, <1>9, <2>3, <3>2 DEF WizardInv, TriesAreMade
      <3>3. QED
        BY <3>1, <3>2
    <2>4. QED
      BY <1>2, <2>1, <2>2, <2>3 DEF WizardInv, TriesAreMade
  <1>12. RoomForTries'
    <2>1. ToCreate' = ToCreate \ {i}
      BY <1>9 DEF ToCreate
    <2>2. QED
      BY <1>6, <1>8, <2>1 DEF RoomForTries
  <1>13. TriesAreDraft'
    BY <1>2, <1>9 DEF WizardInv, TriesAreDraft
  <1>14. OneEventPerSlot'
    <2> SUFFICES ASSUME detour \cap {"lost", "back", "reloaded"} = {}
                 PROVE  OneEventPerSlot'
      BY <1>2 DEF OneEventPerSlot
    <2>1. /\ \A j, k \in DOMAIN events : events[j].slot = events[k].slot => j = k
          /\ \A j \in DOMAIN try : try[j].at \in {"create", "notCreated"} => Unmade(try[j].slot)
          /\ ~busy /\ step # "left" => \A j \in DOMAIN draft.slots : Unmade(draft.slots[j])
          /\ step = "venue" => \A j \in DOMAIN form.slots : Unmade(form.slots[j])
      BY DEF WizardInv, OneEventPerSlot
    <2>2. busy /\ step = "room"
      <3>1. busy
        BY <1>2 DEF WizardInv, TriesAreMade
      <3>2. QED
        BY <3>1 DEF WizardInv, TriesAreDraft
    <2>3. \A j, k \in DOMAIN events' : events'[j].slot = events'[k].slot => j = k
      BY <1>2, <1>5, <1>6, <2>1 DEF Unmade
    <2>4. ASSUME NEW j \in DOMAIN try', try'[j].at \in {"create", "notCreated"}
          PROVE  \A e \in DOMAIN events' : events'[e].slot # try'[j].slot
      <3>1. j # i /\ try'[j] = try[j]
        BY <1>9, <2>4
      <3>2. try[j].slot # try[i].slot
        BY <1>2, <1>9, <3>1 DEF WizardInv, TriesAreMade
      <3>3. Unmade(try[j].slot)
        BY <1>9, <2>1, <2>4, <3>1
      <3>4. \A e \in DOMAIN events' : events'[e].slot # try[j].slot
        BY <1>5, <1>6, <3>2, <3>3 DEF Unmade
      <3>5. QED
        BY <3>1, <3>4
    <2>5. QED
      BY <1>2, <2>2, <2>3, <2>4 DEF OneEventPerSlot, Unmade
  <1>15. NoSlotLost'
    BY <1>2, <1>6 DEF WizardInv, NoSlotLost
  <1>16. DraftsAreTried'
    <2> SUFFICES ASSUME detour \cap {"lost", "reloaded"} = {}, NEW e \in DOMAIN events',
                        events'[e].status = "DRAFT", e \notin told
                 PROVE  \E j \in DOMAIN try : /\ try'[j].event = e
                                              /\ try'[j].at \in {"created", "publish", "notPublished"}
      BY <1>2, <1>9 DEF DraftsAreTried
    <2>1. CASE e \in DOMAIN events
      <3>1. PICK j \in DOMAIN try : /\ try[j].event = e
                                    /\ try[j].at \in {"created", "publish", "notPublished"}
        BY <1>6, <2>1 DEF WizardInv, DraftsAreTried
      <3>2. QED
        BY <1>2, <1>9, <3>1
    <2>2. CASE e = Len(events) + 1
      BY <1>2, <1>9, <2>2
    <2>3. QED
      BY <1>6, <2>1, <2>2
  <1>17. SessionsAreChosen'
    <2>1. detour \cap {"removed", "partial", "back"} = {} =>
             /\ \A e \in DOMAIN events : events[e].session = events[e].meant
             /\ \A j \in DOMAIN try : try[j].at # "notCreated" => try[j].session = try[j].meant
      BY DEF WizardInv, SessionsAreChosen
    <2>2. detour \cap {"removed", "partial", "back"} = {} =>
             /\ \A e \in DOMAIN events' : events'[e].session = events'[e].meant
             /\ \A j \in DOMAIN try' : try'[j].at # "notCreated" => try'[j].session = try'[j].meant
      BY <1>2, <1>5, <1>6, <1>9, <2>1
    <2>3. QED
      BY <1>2, <2>2 DEF WizardInv, SessionsAreChosen
  <1>18. QED
    BY <1>10, <1>11, <1>12, <1>13, <1>14, <1>15, <1>16, <1>17 DEF WizardInv

LEMMA PublishesKeeps ==
    ASSUME WizardInv, NEW i, Publishes(i)
    PROVE  WizardInv'
  <1>1. WizardTypeOK
    BY DEF WizardInv
  <1>2. /\ i \in DOMAIN try /\ try[i].at = "publish" /\ Goes(i, "publishedAnswer")
        /\ events' = [events EXCEPT ![try[i].event].status = "PUBLISHED"]
        /\ UNCHANGED <<step, draft, form, busy, chosen, told, wanted, edits, detour>>
    BY DEF Publishes, Is
  <1>3. PICK n : n = try[i].event
    OBVIOUS
  <1>4. n \in DOMAIN events
    BY <1>2, <1>3 DEF WizardInv, TriesAreMade, Made
  <1>5. /\ DOMAIN try' = DOMAIN try /\ try' \in Seq(Try)
        /\ try'[i].slot = try[i].slot /\ try'[i].session = try[i].session
        /\ try'[i].meant = try[i].meant /\ try'[i].event = n /\ try'[i].at = "publishedAnswer"
        /\ \A j \in DOMAIN try : j # i => try'[j] = try[j]
    <2>1. "publishedAnswer" \in Ats
      BY DEF Ats
    <2>2. QED
      BY <1>1, <1>2, <1>3, <2>1, GoesFacts
  <1>6. /\ events' \in Seq(Event) /\ DOMAIN events' = DOMAIN events /\ Len(events') = Len(events)
        /\ events'[n].status = "PUBLISHED" /\ \A e \in DOMAIN events : e # n => events'[e] = events[e]
        /\ \A e \in DOMAIN events : /\ events'[e].slot = events[e].slot
                                    /\ events'[e].session = events[e].session
                                    /\ events'[e].meant = events[e].meant
    <2>1. events[n] \in Event /\ n \in 1 .. Len(events)
      BY <1>1, <1>4, WizardTypes
    <2>2. PICK v : v = [events[n] EXCEPT !.status = "PUBLISHED"]
      OBVIOUS
    <2>3. /\ v \in Event /\ v.status = "PUBLISHED" /\ v.slot = events[n].slot
          /\ v.session = events[n].session /\ v.meant = events[n].meant
      BY <2>1, <2>2 DEF Event
    <2>4. events' = [events EXCEPT ![n] = v]
      BY <1>2, <1>3, <2>2
    <2>5. events' \in Seq(Event) /\ Len(events') = Len(events)
      BY <1>1, <2>1, <2>3, <2>4, ExceptSeq, WizardTypes
    <2>6. /\ DOMAIN events' = DOMAIN events /\ events'[n] = v
          /\ \A e \in DOMAIN events : e # n => events'[e] = events[e]
      BY <1>4, <2>4
    <2>7. QED
      BY <2>3, <2>5, <2>6
  <1>7. WizardTypeOK'
    BY <1>1, <1>2, <1>5, <1>6 DEF WizardTypeOK
  <1>8. TriesAreMade'
    <2>1. try # <<>>
      BY <1>2
    <2>2. \A j, k \in DOMAIN try' : try'[j].slot = try'[k].slot => j = k
      BY <1>5 DEF WizardInv, TriesAreMade
    <2>3. ASSUME NEW j \in DOMAIN try', try'[j].at \in Made
          PROVE  try'[j].event \in DOMAIN events' /\ events'[try'[j].event].slot = try'[j].slot
      <3>1. try[j].at \in Made
        BY <1>2, <1>5, <2>3 DEF Made
      <3>2. try'[j].event = try[j].event /\ try'[j].slot = try[j].slot
        BY <1>3, <1>5
      <3>3. try[j].event \in DOMAIN events /\ events[try[j].event].slot = try[j].slot
        BY <1>5, <3>1 DEF WizardInv, TriesAreMade
      <3>4. QED
        BY <1>6, <3>2, <3>3
    <2>4. QED
      BY <1>2, <2>1, <2>2, <2>3 DEF WizardInv, TriesAreMade
  <1>9. RoomForTries'
    <2>1. ToCreate' = ToCreate
      BY <1>2, <1>5 DEF ToCreate
    <2>2. QED
      BY <1>6, <2>1 DEF WizardInv, RoomForTries
  <1>10. TriesAreDraft'
    BY <1>2, <1>5 DEF WizardInv, TriesAreDraft
  <1>11. OneEventPerSlot'
    BY <1>2, <1>5, <1>6 DEF WizardInv, OneEventPerSlot, Unmade
  <1>12. NoSlotLost'
    BY <1>2, <1>6 DEF WizardInv, NoSlotLost
  <1>13. DraftsAreTried'
    <2> SUFFICES ASSUME detour \cap {"lost", "reloaded"} = {}, NEW e \in DOMAIN events,
                        events'[e].status = "DRAFT", e \notin told
                 PROVE  \E j \in DOMAIN try : /\ try'[j].event = e
                                              /\ try'[j].at \in {"created", "publish", "notPublished"}
      BY <1>2, <1>5, <1>6 DEF DraftsAreTried
    <2>1. e # n /\ events[e].status = "DRAFT"
      BY <1>6
    <2>2. PICK j \in DOMAIN try : /\ try[j].event = e
                                  /\ try[j].at \in {"created", "publish", "notPublished"}
      BY <2>1 DEF WizardInv, DraftsAreTried
    <2>3. j # i
      BY <1>3, <2>1, <2>2
    <2>4. QED
      BY <1>5, <2>2, <2>3
  <1>14. SessionsAreChosen'
    <2>1. detour \cap {"removed", "partial", "back"} = {} =>
             /\ \A e \in DOMAIN events : events[e].session = events[e].meant
             /\ \A j \in DOMAIN try : try[j].at # "notCreated" => try[j].session = try[j].meant
      BY DEF WizardInv, SessionsAreChosen
    <2>2. detour \cap {"removed", "partial", "back"} = {} =>
             /\ \A e \in DOMAIN events' : events'[e].session = events'[e].meant
             /\ \A j \in DOMAIN try' : try'[j].at # "notCreated" => try'[j].session = try'[j].meant
      BY <1>2, <1>5, <1>6, <2>1
    <2>3. QED
      BY <1>2, <2>2 DEF WizardInv, SessionsAreChosen
  <1>15. QED
    BY <1>7, <1>8, <1>9, <1>10, <1>11, <1>12, <1>13, <1>14 DEF WizardInv

LEMMA CallsKeep ==
    ASSUME WizardInv, NEW i, CallStep(i) \/ CreateLost(i)
    PROVE  WizardInv'
  <1>1. CASE Creates(i)
    BY <1>1, CreatesKeeps
  <1>2. CASE Publishes(i)
    BY <1>2, PublishesKeeps
  <1>3. CASE CreateRefused(i)
    BY <1>3, QuietCallKeeps DEF CreateRefused, Is, Ats, Made
  <1>4. CASE CreateAnswered(i)
    BY <1>4, QuietCallKeeps DEF CreateAnswered, Is, Ats, Made
  <1>5. CASE CreateLost(i)
    BY <1>5, QuietCallKeeps DEF CreateLost, Is, Ats, Made
  <1>6. CASE PublishAnswered(i)
    BY <1>6, QuietCallKeeps DEF PublishAnswered, Is, Ats, Made
  <1>7. CASE PublishFails(i)
    BY <1>7, QuietCallKeeps DEF PublishFails, Is, Ats, Made
  <1>8. QED
    BY <1>1, <1>2, <1>3, <1>4, <1>5, <1>6, <1>7 DEF CallStep

-----------------------------------------------------------------------------
(* A submission ends, or is abandoned. *)

\* The events es once the server has served some of the calls: those that were
\* there, perhaps published, and new ones for slots that were to be created.
ServedWell(done, es) ==
    /\ es \in Seq(Event) /\ DOMAIN events \subseteq DOMAIN es
    /\ \A e \in DOMAIN events : /\ es[e].slot = events[e].slot
                                /\ es[e].session = events[e].session
                                /\ es[e].meant = events[e].meant
    /\ \A e \in DOMAIN es : e \notin DOMAIN events =>
          \E i \in ToCreate : es[e] = Created(try[i])
    /\ Len(es) <= Len(events) + Cardinality(ToCreate)
    /\ done = {} => es = events

LEMMA ServedFacts ==
    ASSUME WizardTypeOK, NEW done \in SUBSET DOMAIN try, NEW C, NEW es,
           C = {i \in done : try[i].at = "create"}, es = ServedAlso(done, SetToSeq(C))
    PROVE  ServedWell(done, es)
  <1> DEFINE q == SetToSeq(C)
             a == [e \in DOMAIN events |-> IF Publishing(e, done)
                                          THEN [events[e] EXCEPT !.status = "PUBLISHED"]
                                          ELSE events[e]]
             b == [k \in DOMAIN q |-> Created(try[q[k]])]
  <1>1. /\ C \in SUBSET ToCreate /\ IsFiniteSet(C) /\ Cardinality(C) \in Nat
        /\ Cardinality(C) <= Cardinality(ToCreate) /\ Cardinality(ToCreate) \in Nat
    <2>1. C \in SUBSET ToCreate
      BY DEF ToCreate
    <2>2. QED
      BY <2>1, ToCreateIsFinite, FS_Subset, FS_CardinalityType
  <1>2. q \in [1 .. Cardinality(C) -> C]
    <2>1. \E f \in [1 .. Cardinality(C) -> C] : IsInjective(f)
      BY <1>1, FS_CardinalityType DEF ExistsBijection, Bijection, Injection
    <2>2. QED
      BY <2>1 DEF SetToSeq
  <1>3. ASSUME NEW i \in ToCreate
        PROVE  Created(try[i]) \in Event
    <2>1. PICK t : t = try[i]
      OBVIOUS
    <2>2. t \in Try
      BY <2>1, WizardTypes DEF ToCreate
    <2>3. Created(t) \in Event
      BY <2>2 DEF Created, Event, Try
    <2>4. QED
      BY <2>1, <2>3
  <1>4. /\ a \in Seq(Event) /\ Len(a) = Len(events)
        /\ \A e \in DOMAIN events : /\ a[e].slot = events[e].slot
                                    /\ a[e].session = events[e].session
                                    /\ a[e].meant = events[e].meant
    <2>1. ASSUME NEW e \in DOMAIN events
          PROVE  /\ [events[e] EXCEPT !.status = "PUBLISHED"] \in Event
                 /\ [events[e] EXCEPT !.status = "PUBLISHED"].slot = events[e].slot
                 /\ [events[e] EXCEPT !.status = "PUBLISHED"].session = events[e].session
                 /\ [events[e] EXCEPT !.status = "PUBLISHED"].meant = events[e].meant
                 /\ events[e] \in Event
      <3>1. events[e] \in Event
        BY WizardTypes
      <3>2. QED
        BY <3>1 DEF Event
    <2>2. a \in [1 .. Len(events) -> Event]
      BY <2>1, WizardTypes
    <2>3. a \in Seq(Event)
      BY <2>2, WizardTypes, SeqDef
    <2>4. Len(a) = Len(events)
      BY <2>2, <2>3, WizardTypes, LenProperties
    <2>5. QED
      BY <2>1, <2>3, <2>4
  <1>5. b \in Seq(Event) /\ Len(b) = Cardinality(C) /\ \A k \in DOMAIN b : \E i \in ToCreate : b[k] = Created(try[i])
    <2>1. PICK n : n = Cardinality(C)
      OBVIOUS
    <2>2. n \in Nat /\ DOMAIN q = 1 .. n /\ \A k \in 1 .. n : q[k] \in ToCreate
      BY <1>1, <1>2, <2>1
    <2> HIDE DEF q
    <2>3. b \in [1 .. n -> Event]
      BY <1>3, <2>2
    <2>4. b \in Seq(Event)
      BY <2>2, <2>3, SeqDef
    <2>5. Len(b) = n
      BY <2>2, <2>3, <2>4, LenProperties
    <2>6. QED
      BY <2>1, <2>2, <2>4, <2>5
  <1>6. es = a \o b
    BY DEF ServedAlso
  <1> HIDE DEF a, b, q
  <1>7. /\ es \in Seq(Event) /\ Len(es) = Len(events) + Cardinality(C)
        /\ \A e \in 1 .. Len(events) + Cardinality(C) :
              es[e] = IF e <= Len(events) THEN a[e] ELSE b[e - Len(events)]
    <2>1. /\ a \o b \in Seq(Event) /\ Len(a \o b) = Len(a) + Len(b)
          /\ \A e \in 1 .. Len(a) + Len(b) :
                (a \o b)[e] = IF e <= Len(a) THEN a[e] ELSE b[e - Len(a)]
      <3>1. a \in Seq(Event) /\ b \in Seq(Event)
        BY <1>4, <1>5
      <3>2. QED
        BY <3>1, ConcatProperties
    <2>2. Len(a) = Len(events) /\ Len(b) = Cardinality(C)
      BY <1>4, <1>5
    <2>3. QED
      BY <1>6, <2>1, <2>2
  <1>8. DOMAIN es = 1 .. Len(events) + Cardinality(C)
    <2>1. DOMAIN es = 1 .. Len(es)
      BY <1>7, LenProperties
    <2>2. QED
      BY <1>7, <2>1
  <1>9. DOMAIN events \subseteq DOMAIN es
    <2>1. \A m, n \in Nat : 1 .. m \subseteq 1 .. m + n
      OBVIOUS
    <2>2. Len(events) \in Nat /\ DOMAIN events = 1 .. Len(events)
      BY WizardTypes
    <2>3. QED
      BY <1>1, <1>8, <2>1, <2>2
  <1>10. ASSUME NEW e \in DOMAIN events
         PROVE  /\ es[e].slot = events[e].slot /\ es[e].session = events[e].session
                /\ es[e].meant = events[e].meant
    <2>1. e \in 1 .. Len(events) + Cardinality(C) /\ e <= Len(events)
      BY <1>1, WizardTypes
    <2>2. es[e] = a[e]
      BY <1>7, <2>1
    <2>3. QED
      BY <1>4, <2>2
  <1>11. ASSUME NEW e \in DOMAIN es, e \notin DOMAIN events
         PROVE  \E i \in ToCreate : es[e] = Created(try[i])
    <2>1. PICK k : k = e - Len(events)
      OBVIOUS
    <2>2. /\ e \in 1 .. Len(events) + Cardinality(C) /\ ~(e <= Len(events))
          /\ k \in 1 .. Cardinality(C)
      BY <1>1, <1>8, <1>11, <2>1, WizardTypes
    <2>3. es[e] = b[k] /\ k \in DOMAIN b
      BY <1>5, <1>7, <2>1, <2>2
    <2>4. QED
      BY <1>5, <2>3
  <1>12. Len(es) <= Len(events) + Cardinality(ToCreate)
    BY <1>1, <1>7, WizardTypes
  <1>13. ASSUME done = {}
         PROVE  es = events
    <2>1. C = {}
      BY <1>13
    <2>5. Cardinality(C) = 0
      BY <2>1, FS_EmptySet
    <2>2. Len(es) = Len(events)
      BY <1>7, <2>5, WizardTypes
    <2>3. ASSUME NEW e \in 1 .. Len(es)
          PROVE  es[e] = events[e]
      <3>1. e \in 1 .. Len(events) + Cardinality(C) /\ e <= Len(events) /\ e \in DOMAIN events
        BY <1>1, <2>2, <2>3, WizardTypes
      <3>2. es[e] = a[e]
        BY <1>7, <3>1
      <3>3. a[e] = events[e]
        BY <1>13, <3>1 DEF a, Publishing
      <3>4. QED
        BY <3>2, <3>3
    <2>4. QED
      BY <1>7, <2>2, <2>3, WizardTypes, SeqEqual
  <1>14. QED
    BY <1>7, <1>9, <1>10, <1>11, <1>12, <1>13 DEF ServedWell

LEMMA ReloadKeeps ==
    ASSUME WizardInv, Reload
    PROVE  WizardInv'
  <1>1. WizardTypeOK
    BY DEF WizardInv
  <1>2. /\ step # "left" /\ Edit /\ try' = <<>> /\ busy' = FALSE
        /\ form' = Mounted(draft) /\ chosen' = Unsubmitted
        /\ detour' = detour \cup (IF busy THEN {"reloaded"} ELSE {})
        /\ UNCHANGED <<step, draft, told, wanted>>
    BY DEF Reload
  <1>3. PICK done \in SUBSET DOMAIN try :
            events' = ServedAlso(done, SetToSeq({i \in done : try[i].at = "create"}))
    BY DEF Reload
  <1>4. /\ events' \in Seq(Event) /\ DOMAIN events \subseteq DOMAIN events'
        /\ \A e \in DOMAIN events : /\ events'[e].slot = events[e].slot
                                    /\ events'[e].session = events[e].session
                                    /\ events'[e].meant = events[e].meant
        /\ \A e \in DOMAIN events' : e \notin DOMAIN events =>
              \E i \in ToCreate : events'[e] = Created(try[i])
        /\ Len(events') <= Len(events) + Cardinality(ToCreate)
        /\ done = {} => events' = events
    <2>1. PICK C, es : C = {i \in done : try[i].at = "create"} /\ es = events'
      OBVIOUS
    <2>2. es = ServedAlso(done, SetToSeq(C))
      BY <1>3, <2>1
    <2>3. ServedWell(done, es)
      BY <1>1, <2>1, <2>2, ServedFacts
    <2>4. QED
      BY <2>1, <2>3 DEF ServedWell
  <1>5. ~busy => events' = events
    <2>1. ASSUME ~busy PROVE DOMAIN try = {}
      BY <2>1 DEF WizardInv, TriesAreMade
    <2>2. QED
      BY <1>4, <2>1
  <1>6. /\ form' \in Listing /\ form'.slots = draft.slots
        /\ form'.sessions = Aligned(draft.slots, draft.sessions)
    BY <1>1, <1>2, WizardTypes, MountedFacts
  <1>7. WizardTypeOK'
    <2>1. told \subseteq DOMAIN events' /\ try' \in Seq(Try)
      BY <1>1, <1>2, <1>4 DEF WizardTypeOK
    <2>2. chosen' \in [Slots -> Sessions] /\ edits' \in 0 .. MaxEdits
      BY <1>1, <1>2, UnsubmittedFacts, EditTypes
    <2>3. IsInjective(draft.slots)
      BY <1>1, WizardTypes
    <2>4. QED
      BY <1>1, <1>2, <1>4, <1>6, <2>1, <2>2, <2>3 DEF WizardTypeOK
  <1>8. TriesAreMade'
    BY <1>2 DEF TriesAreMade
  <1>9. RoomForTries'
    <2>1. ToCreate' = {}
      BY <1>2 DEF ToCreate
    <2>2. Cardinality(ToCreate') = 0
      BY <2>1, FS_EmptySet
    <2>3. Len(events) + Cardinality(ToCreate) <= MaxEvents
      BY DEF WizardInv, RoomForTries
    <2>4. /\ Len(events) \in Nat /\ Len(events') \in Nat /\ Cardinality(ToCreate) \in Nat
          /\ MaxEvents \in Nat
      BY <1>1, <1>4, WizardTypes, ToCreateIsFinite
    <2>5. Len(events') <= Len(events) + Cardinality(ToCreate)
      BY <1>4
    <2>6. Len(events') + 0 <= MaxEvents
      BY <2>3, <2>4, <2>5
    <2>7. QED
      BY <2>2, <2>6 DEF RoomForTries
  <1>10. TriesAreDraft'
    BY <1>2 DEF TriesAreDraft
  <1>11. OneEventPerSlot'
    <2> SUFFICES ASSUME detour' \cap {"lost", "back", "reloaded"} = {}
                 PROVE  /\ \A i, j \in DOMAIN events' : events'[i].slot = events'[j].slot => i = j
                        /\ \A i \in DOMAIN draft.slots : \A e \in DOMAIN events' :
                              events'[e].slot # draft.slots[i]
      BY <1>2, <1>6 DEF OneEventPerSlot, Unmade
    <2>1. ~busy /\ detour \cap {"lost", "back", "reloaded"} = {}
      BY <1>2
    <2>2. QED
      BY <1>2, <1>5, <2>1 DEF WizardInv, OneEventPerSlot, Unmade
  <1>12. NoSlotLost'
    BY <1>2, <1>4 DEF WizardInv, NoSlotLost
  <1>13. DraftsAreTried'
    <2> SUFFICES ASSUME detour' \cap {"lost", "reloaded"} = {}, NEW e \in DOMAIN events',
                        events'[e].status = "DRAFT"
                 PROVE  e \in told
      BY <1>2 DEF DraftsAreTried
    <2>1. ~busy /\ detour \cap {"lost", "reloaded"} = {}
      BY <1>2
    <2>2. DOMAIN try = {}
      BY <2>1 DEF WizardInv, TriesAreMade
    <2>3. QED
      BY <1>5, <2>1, <2>2 DEF WizardInv, DraftsAreTried
  <1>14. SessionsAreChosen'
    <2> SUFFICES ASSUME detour \cap {"removed", "partial", "back"} = {}
                 PROVE  SessionsAreChosen'
      BY <1>2 DEF SessionsAreChosen
    <2>1. /\ \A e \in DOMAIN events : events[e].session = events[e].meant
          /\ \A i \in DOMAIN try : try[i].at # "notCreated" => try[i].session = try[i].meant
          /\ Len(draft.sessions) <= Len(draft.slots)
          /\ \A s \in Slots : s \notin Range(draft.slots) => chosen[s] = DefaultSession
      BY DEF WizardInv, SessionsAreChosen
    <2>2. ASSUME NEW e \in DOMAIN events'
          PROVE  events'[e].session = events'[e].meant
      <3>1. CASE e \in DOMAIN events
        BY <1>4, <2>1, <3>1
      <3>2. CASE e \notin DOMAIN events
        <4>1. PICK i \in ToCreate : events'[e] = Created(try[i])
          BY <1>4, <3>2
        <4>2. try[i].session = try[i].meant
          BY <2>1 DEF ToCreate
        <4>3. QED
          BY <4>1, <4>2 DEF Created
      <3>3. QED
        BY <3>1, <3>2
    <2>3. \A s \in Slots : s \notin Range(draft.slots) => chosen'[s] = DefaultSession
      BY <1>1, <1>2, <2>1, UnsubmittedFacts
    <2>4. /\ Len(form'.sessions) = Len(draft.slots)
          /\ DOMAIN form'.sessions = DOMAIN draft.slots
      BY <1>1, <1>6, AlignedFacts, WizardTypes
    <2>5. \A i \in DOMAIN draft.slots :
              /\ chosen'[draft.slots[i]] = Aligned(draft.slots, draft.sessions)[i]
              /\ form'.sessions[i] = chosen'[draft.slots[i]]
      BY <1>1, <1>2, <1>6, UnsubmittedFacts
    <2>6. Len(form'.sessions) <= Len(draft.slots) /\ Len(draft.slots) <= Len(form'.slots)
      BY <1>1, <1>6, <2>4, WizardTypes
    <2>7. QED
      BY <1>2, <1>6, <2>1, <2>2, <2>3, <2>4, <2>5, <2>6 DEF SessionsAreChosen
  <1>15. QED
    BY <1>7, <1>8, <1>9, <1>10, <1>11, <1>12, <1>13, <1>14 DEF WizardInv

LEMMA SettlesKeeps ==
    ASSUME WizardInv, Settles
    PROVE  WizardInv'
  <1> DEFINE stay == {i \in DOMAIN try : Kept(try[i])}
             all == \A i \in DOMAIN try : try[i].at = "published"
  <1>1. WizardTypeOK
    BY DEF WizardInv
  <1>2. /\ busy /\ \A i \in DOMAIN try : try[i].at \in Ended
        /\ busy' = FALSE /\ try' = <<>> /\ told' = told \cup Told
        /\ UNCHANGED <<form, events, chosen, wanted, edits>>
        /\ detour \subseteq detour' /\ detour' \subseteq detour \cup {"partial"}
    BY DEF Settles
  <1>3. all => step' = "left" /\ UNCHANGED <<draft, detour>>
    BY DEF Settles
  <1>4. ~all => /\ step' = step
                /\ stay # DOMAIN try => "partial" \in detour'
                /\ \E kept \in InOrder(stay) :
                      draft' = [slots |-> [k \in DOMAIN kept |-> try[kept[k]].slot],
                                sessions |-> [k \in DOMAIN kept |-> try[kept[k]].session]]
    BY DEF Settles
  <1>5. stay \in SUBSET (1 .. Len(try)) /\ Len(try) \in Nat /\ DOMAIN try = 1 .. Len(try)
    BY <1>1, WizardTypes
  <1>6. \A i \in DOMAIN try : try[i] \in Try /\ (i \in stay <=> try[i].at = "notCreated")
    BY <1>1, WizardTypes DEF Kept
  <1> HIDE DEF stay, all
  \* the draft that is left
  <1>7. ASSUME ~all
        PROVE  /\ draft' \in Listing /\ IsInjective(draft'.slots)
               /\ Len(draft'.sessions) = Len(draft'.slots)
               /\ \A k \in DOMAIN draft'.slots : \E i \in stay : draft'.slots[k] = try[i].slot
               /\ \A i \in stay : \E k \in DOMAIN draft'.slots : draft'.slots[k] = try[i].slot
               /\ stay = DOMAIN try =>
                     DOMAIN draft'.slots = DOMAIN try /\ \A i \in DOMAIN try : draft'.slots[i] = try[i].slot
    <2>1. PICK kept \in InOrder(stay) :
              draft' = [slots |-> [k \in DOMAIN kept |-> try[kept[k]].slot],
                        sessions |-> [k \in DOMAIN kept |-> try[kept[k]].session]]
      BY <1>4, <1>7
    <2>2. PICK m : m = Cardinality(stay)
      OBVIOUS
    <2>3. /\ m \in Nat /\ kept \in [1 .. m -> stay] /\ IsInjective(kept)
          /\ \A i \in stay : \E k \in DOMAIN kept : kept[k] = i
          /\ stay = 1 .. Len(try) => m = Len(try) /\ \A k \in 1 .. Len(try) : kept[k] = k
      BY <1>5, <2>2, InOrderFacts
    <2>4. \A k \in 1 .. m : kept[k] \in stay /\ kept[k] \in DOMAIN try
      BY <1>5, <2>3
    <2>5. /\ draft'.slots = [k \in 1 .. m |-> try[kept[k]].slot]
          /\ draft'.sessions = [k \in 1 .. m |-> try[kept[k]].session]
      BY <2>1, <2>3
    <2>6. \A k \in 1 .. m : try[kept[k]].slot \in Slots /\ try[kept[k]].session \in Sessions
      BY <1>6, <2>4 DEF Try
    <2>7. draft'.slots \in [1 .. m -> Slots] /\ draft'.sessions \in [1 .. m -> Sessions]
      BY <2>5, <2>6
    <2>8. draft'.slots \in Seq(Slots) /\ draft'.sessions \in Seq(Sessions)
      BY <2>3, <2>7, SeqDef
    <2>9. Len(draft'.slots) = m /\ Len(draft'.sessions) = m
      BY <2>3, <2>7, <2>8, LenProperties
    <2>10. draft' \in Listing
      BY <2>1, <2>8 DEF Listing
    <2>11. IsInjective(draft'.slots)
      <3> SUFFICES ASSUME NEW a \in 1 .. m, NEW b \in 1 .. m,
                          try[kept[a]].slot = try[kept[b]].slot
                   PROVE  a = b
        BY <2>5 DEF IsInjective
      <3>1. kept[a] = kept[b]
        BY <2>4 DEF WizardInv, TriesAreMade
      <3>2. QED
        BY <2>3, <3>1 DEF IsInjective
    <2>12. DOMAIN draft'.slots = 1 .. m /\ DOMAIN kept = 1 .. m
      BY <2>3, <2>5
    <2>13. ASSUME NEW k \in DOMAIN draft'.slots
           PROVE  \E i \in stay : draft'.slots[k] = try[i].slot
      BY <2>4, <2>5, <2>12
    <2>14. ASSUME NEW i \in stay
           PROVE  \E k \in DOMAIN draft'.slots : draft'.slots[k] = try[i].slot
      <3>1. PICK k \in 1 .. m : kept[k] = i
        BY <2>3, <2>12
      <3>2. draft'.slots[k] = try[i].slot
        BY <2>5, <3>1
      <3>3. QED
        BY <2>12, <3>2
    <2>15. ASSUME stay = DOMAIN try
           PROVE  /\ DOMAIN draft'.slots = DOMAIN try
                  /\ \A i \in DOMAIN try : draft'.slots[i] = try[i].slot
      <3>1. m = Len(try) /\ \A k \in 1 .. Len(try) : kept[k] = k
        BY <1>5, <2>3, <2>15
      <3>2. QED
        BY <1>5, <2>5, <2>12, <3>1
    <2>16. Len(draft'.sessions) = Len(draft'.slots)
      BY <2>9
    <2>17. QED
      BY <2>10, <2>11, <2>13, <2>14, <2>15, <2>16
  <1>8. draft' \in Listing /\ IsInjective(draft'.slots)
    BY <1>1, <1>3, <1>7, WizardTypes
  <1>9. Told \subseteq DOMAIN events
    BY DEF Told, Range, WizardInv, TriesAreMade, Made
  <1>10. WizardTypeOK'
    <2>1. try' \in Seq(Try) /\ told' \subseteq DOMAIN events
      BY <1>1, <1>2, <1>9 DEF WizardTypeOK
    <2>2. step' \in {"venue", "room", "left"}
      BY <1>1, <1>3, <1>4 DEF WizardTypeOK
    <2>3. QED
      BY <1>1, <1>2, <1>8, <2>1, <2>2 DEF WizardTypeOK
  <1>11. TriesAreMade'
    BY <1>2 DEF TriesAreMade
  <1>12. RoomForTries'
    <2>1. ToCreate' = {} /\ ToCreate = {}
      BY <1>2 DEF ToCreate, Ended
    <2>2. QED
      BY <1>2, <2>1 DEF WizardInv, RoomForTries
  <1>13. TriesAreDraft'
    BY <1>2 DEF TriesAreDraft
  <1>14. OneEventPerSlot'
    <2> SUFFICES ASSUME detour \cap {"lost", "back", "reloaded"} = {}
                 PROVE  OneEventPerSlot'
      BY <1>2 DEF OneEventPerSlot
    <2>1. /\ \A i, j \in DOMAIN events : events[i].slot = events[j].slot => i = j
          /\ \A i \in DOMAIN try : try[i].at \in {"create", "notCreated"} => Unmade(try[i].slot)
      BY DEF WizardInv, OneEventPerSlot
    <2>2. step = "room"
      BY <1>2 DEF WizardInv, TriesAreDraft
    <2>3. CASE all
      BY <1>2, <1>3, <2>1, <2>3 DEF OneEventPerSlot
    <2>4. CASE ~all
      <3>1. \A k \in DOMAIN draft'.slots : Unmade(draft'.slots[k])
        BY <1>5, <1>6, <1>7, <2>1, <2>4
      <3>2. QED
        BY <1>2, <1>4, <2>1, <2>2, <2>4, <3>1 DEF OneEventPerSlot, Unmade
    <2>5. QED
      BY <2>3, <2>4
  <1>15. NoSlotLost'
    <2> SUFFICES ASSUME "back" \notin detour, NEW s \in wanted,
                        \A e \in DOMAIN events : events[e].slot # s
                 PROVE  s \in Range(draft'.slots)
      BY <1>2 DEF NoSlotLost
    <2>1. s \in Range(draft.slots)
      BY DEF WizardInv, NoSlotLost
    <2>2. PICK i \in DOMAIN try : try[i].slot = s
      BY <1>2, <2>1 DEF Range, WizardInv, TriesAreDraft
    <2>3. try[i].at \notin Made
      BY <2>2 DEF WizardInv, TriesAreMade
    <2>4. try[i].at = "notCreated"
      BY <1>2, <2>2, <2>3 DEF Made, Ended
    <2>5. ~all /\ i \in stay
      BY <1>6, <2>2, <2>4 DEF all
    <2>6. QED
      BY <1>7, <2>2, <2>5 DEF Range
  <1>16. DraftsAreTried'
    <2> SUFFICES ASSUME detour \cap {"lost", "reloaded"} = {}, NEW e \in DOMAIN events,
                        events[e].status = "DRAFT", e \notin told
                 PROVE  e \in Told
      BY <1>2 DEF DraftsAreTried
    <2>1. PICK j \in DOMAIN try : /\ try[j].event = e
                                  /\ try[j].at \in {"created", "publish", "notPublished"}
      BY DEF WizardInv, DraftsAreTried
    <2>2. try[j].at = "notPublished"
      BY <1>2, <2>1 DEF Ended
    <2>3. QED
      BY <2>1, <2>2 DEF Told, Range
  <1>17. SessionsAreChosen'
    <2> SUFFICES ASSUME detour' \cap {"removed", "partial", "back"} = {}
                 PROVE  SessionsAreChosen'
      BY DEF SessionsAreChosen
    <2>1. detour \cap {"removed", "partial", "back"} = {}
      BY <1>2
    <2>2. /\ \A e \in DOMAIN events : events[e].session = events[e].meant
          /\ Len(draft.sessions) <= Len(draft.slots)
          /\ \A s \in Slots : s \notin Range(draft.slots) => chosen[s] = DefaultSession
          /\ step = "room"
          /\ Len(form.sessions) <= Len(draft.slots)
          /\ \A i \in DOMAIN form.sessions : form.sessions[i] = chosen[draft.slots[i]]
      BY <1>2, <2>1 DEF WizardInv, SessionsAreChosen, TriesAreDraft
    <2>3. CASE all
      BY <1>2, <1>3, <2>2, <2>3 DEF SessionsAreChosen
    <2>4. CASE ~all
      <3>1. stay = DOMAIN try /\ step' = "room"
        BY <1>4, <2>2, <2>4
      <3>2. /\ DOMAIN draft'.slots = DOMAIN draft.slots
            /\ \A i \in DOMAIN draft.slots : draft'.slots[i] = draft.slots[i]
        BY <1>2, <1>7, <2>1, <2>4, <3>1 DEF WizardInv, TriesAreDraft
      <3>3. draft'.slots \in Seq(Slots) /\ draft.slots \in Seq(Slots)
        BY <1>1, <1>8, WizardTypes DEF Listing
      <3>4. Len(draft'.slots) = Len(draft.slots)
        <4>1. \A m, n \in Nat : 1 .. m = 1 .. n => m = n
          OBVIOUS
        <4>2. QED
          BY <3>2, <3>3, <4>1, LenProperties
      <3>5. draft'.slots = draft.slots
        <4>1. \A i \in 1 .. Len(draft'.slots) : draft'.slots[i] = draft.slots[i]
          BY <3>2, <3>3, LenProperties
        <4>2. QED
          BY <3>3, <3>4, <4>1, SeqEqual
      <3>6. Len(draft'.sessions) <= Len(draft'.slots)
        BY <1>1, <1>7, <2>4, <3>4, WizardTypes
      <3>7. QED
        BY <1>2, <2>2, <3>1, <3>5, <3>6 DEF SessionsAreChosen
    <2>5. QED
      BY <2>3, <2>4
  <1>18. QED
    BY <1>10, <1>11, <1>12, <1>13, <1>14, <1>15, <1>16, <1>17 DEF WizardInv

-----------------------------------------------------------------------------
LEMMA WizardInvInit == WizardInit => WizardInv
  <1> SUFFICES ASSUME WizardInit PROVE WizardInv
    OBVIOUS
  <1> DEFINE s == CHOOSE r \in Slots : TRUE
  <1>1. /\ s \in Slots /\ DefaultSession \in Sessions /\ MaxEvents \in Nat /\ MaxEdits \in Nat
    BY WizardAssumption
  <1>2. /\ step = "venue" /\ draft = [slots |-> <<s>>, sessions |-> <<DefaultSession>>]
        /\ form = Mounted(draft) /\ busy = FALSE /\ try = <<>> /\ events = <<>>
        /\ chosen = [r \in Slots |-> DefaultSession]
        /\ told = {} /\ wanted = {s} /\ edits = 0 /\ detour = {}
    BY DEF WizardInit
  <1> HIDE DEF s
  <1>3. /\ <<s>> \in Seq(Slots) /\ <<DefaultSession>> \in Seq(Sessions)
        /\ Len(<<s>>) = 1 /\ Len(<<DefaultSession>>) = 1
        /\ DOMAIN <<s>> = {1} /\ <<s>>[1] = s
        /\ DOMAIN <<DefaultSession>> = {1} /\ <<DefaultSession>>[1] = DefaultSession
    BY <1>1
  <1>4. draft \in Listing /\ draft.slots = <<s>> /\ draft.sessions = <<DefaultSession>>
    BY <1>2, <1>3 DEF Listing
  <1>5. /\ form \in Listing /\ form.slots = <<s>>
        /\ form.sessions = Aligned(<<s>>, <<DefaultSession>>)
    BY <1>2, <1>4, MountedFacts
  <1>6. IsInjective(<<s>>)
    BY <1>3 DEF IsInjective
  <1>7. WizardTypeOK
    <2>1. try \in Seq(Try) /\ events \in Seq(Event)
      BY <1>2
    <2>2. chosen \in [Slots -> Sessions] /\ edits \in 0 .. MaxEdits
      BY <1>1, <1>2
    <2>3. told \subseteq DOMAIN events /\ wanted \subseteq Slots
      BY <1>1, <1>2
    <2>4. QED
      BY <1>2, <1>4, <1>5, <1>6, <2>1, <2>2, <2>3 DEF WizardTypeOK
  <1>8. DOMAIN try = {} /\ DOMAIN events = {} /\ Len(events) = 0
    BY <1>2
  <1>9. TriesAreMade
    BY <1>2, <1>8 DEF TriesAreMade
  <1>10. RoomForTries
    <2>1. ToCreate = {}
      BY <1>8 DEF ToCreate
    <2>2. Cardinality(ToCreate) = 0
      BY <2>1, FS_EmptySet
    <2>3. QED
      BY <1>1, <1>8, <2>2 DEF RoomForTries
  <1>11. TriesAreDraft
    BY <1>2 DEF TriesAreDraft
  <1>12. OneEventPerSlot
    BY <1>8 DEF OneEventPerSlot, Unmade
  <1>13. NoSlotLost
    BY <1>2, <1>3, <1>4 DEF NoSlotLost, Range
  <1>14. DraftsAreTried
    BY <1>8 DEF DraftsAreTried
  <1>15. SessionsAreChosen
    <2>1. Aligned(<<s>>, <<DefaultSession>>)[1] = DefaultSession
      BY <1>3, AlignedFacts
    <2>2. chosen[s] = DefaultSession
      BY <1>1, <1>2
    <2>3. \A r \in Slots : chosen[r] = DefaultSession
      BY <1>2
    <2>4. Len(draft.sessions) <= Len(draft.slots) /\ Len(draft.slots) <= Len(form.slots)
      BY <1>3, <1>4, <1>5
    <2>5. \A i \in DOMAIN draft.slots :
              /\ form.slots[i] = draft.slots[i]
              /\ chosen[draft.slots[i]] = Aligned(draft.slots, draft.sessions)[i]
      BY <1>3, <1>4, <1>5, <2>1, <2>2
    <2>6. QED
      BY <1>2, <1>8, <2>3, <2>4, <2>5 DEF SessionsAreChosen
  <1>16. QED
    BY <1>7, <1>9, <1>10, <1>11, <1>12, <1>13, <1>14, <1>15 DEF WizardInv

LEMMA WizardInvStep == WizardInv /\ [WizardNext]_wizardVars => WizardInv'
  <1> SUFFICES ASSUME WizardInv, [WizardNext]_wizardVars PROVE WizardInv'
    OBVIOUS
  <1>1. ASSUME NEW s \in Slots, AddSlot(s) PROVE WizardInv'
    BY <1>1, AddSlotKeeps
  <1>2. ASSUME NEW i \in Places, RemoveSlot(i) \/ CallStep(i) \/ CreateLost(i) PROVE WizardInv'
    BY <1>2, RemoveSlotKeeps, CallsKeep
  <1>3. ASSUME NEW i \in Places, NEW a \in Sessions, Choose(i, a) PROVE WizardInv'
    BY <1>3, ChooseKeeps
  <1>4. CASE ToRoom \/ Back \/ Submit \/ Reload \/ Settles
    BY <1>4, ToRoomKeeps, BackKeeps, SubmitKeeps, ReloadKeeps, SettlesKeeps
  <1>5. CASE UNCHANGED wizardVars
    <2>1. UNCHANGED <<step, draft, form, busy, try, events, chosen, told, wanted, edits, detour>>
      BY <1>5 DEF wizardVars
    <2>2. WizardTypeOK' /\ TriesAreMade' /\ TriesAreDraft'
      BY <2>1 DEF WizardInv, WizardTypeOK, TriesAreMade, TriesAreDraft
    <2>3. RoomForTries'
      BY <2>1 DEF WizardInv, RoomForTries, ToCreate
    <2>4. OneEventPerSlot' /\ NoSlotLost' /\ DraftsAreTried'
      BY <2>1 DEF WizardInv, OneEventPerSlot, Unmade, NoSlotLost, DraftsAreTried
    <2>5. SessionsAreChosen'
      BY <2>1 DEF WizardInv, SessionsAreChosen
    <2>6. QED
      BY <2>2, <2>3, <2>4, <2>5 DEF WizardInv
  <1>6. QED
    BY <1>1, <1>2, <1>3, <1>4, <1>5 DEF WizardNext

LEMMA WizardInvSays == WizardInv => WizardTypeOK /\ SubmissionIsFaithful
  <1> SUFFICES ASSUME WizardInv PROVE WizardTypeOK /\ SubmissionIsFaithful
    OBVIOUS
  <1>1. NoSlotTwice
    BY DEF WizardInv, OneEventPerSlot, NoSlotTwice
  <1>2. SessionsFollowSlots
    BY DEF WizardInv, SessionsAreChosen, SessionsFollowSlots
  <1>3. DraftsAreReported
    BY DEF WizardInv, DraftsAreTried, TriesAreMade, DraftsAreReported
  <1>4. QED
    BY <1>1, <1>2, <1>3 DEF WizardInv, SubmissionIsFaithful

-----------------------------------------------------------------------------
(* The filters of the catalog. *)

\* As long as nobody acted too early: what was typed last is what was committed
\* last, and that is what the address says or is about to say.  While the draft
\* has just followed the address, a render may commit the text of before.
BarFollows ==
    ~rushed =>
        /\ bar.timer # "address" => bar.debounced = bar.last
        /\ bar.timer = "address" =>
              /\ Trim(bar.draft) = address.q
              /\ going = Nowhere => bar.last \in {bar.draft, bar.debounced}
              /\ going # Nowhere => bar.last = bar.debounced /\ going.q = Trim(bar.last)
        /\ bar.timer = Still => bar.draft = bar.debounced
        /\ going = Nowhere \/ going.q = address.q => Trim(bar.last) = address.q

BrowseInv == BrowseTypeOK /\ BarFollows

\* The fields of the search bar after a step.
BarIs(b, draftText, debouncedText, lastText, timer) ==
    /\ b.draft = draftText /\ b.debounced = debouncedText
    /\ b.last = lastText /\ b.timer = timer

Timers == {Still, "typed", "address"}
Bar == [draft : Drafts, debounced : Drafts, last : Drafts, timer : Timers]

LEMMA BarSets ==
    ASSUME NEW b \in Bar, NEW d \in Drafts, NEW w \in Timers
    PROVE  /\ [b EXCEPT !.draft = d, !.timer = w] \in Bar
           /\ BarIs([b EXCEPT !.draft = d, !.timer = w], d, b.debounced, b.last, w)
           /\ [b EXCEPT !.debounced = d, !.timer = w] \in Bar
           /\ BarIs([b EXCEPT !.debounced = d, !.timer = w], b.draft, d, b.last, w)
           /\ [b EXCEPT !.draft = d, !.last = d, !.timer = w] \in Bar
           /\ BarIs([b EXCEPT !.draft = d, !.last = d, !.timer = w], d, b.debounced, d, w)
  BY DEF Bar, BarIs

LEMMA CommitSets ==
    ASSUME NEW b \in Bar
    PROVE  /\ Commit(b) \in Bar
           /\ BarIs(Commit(b), b.draft, b.debounced, b.debounced, b.timer)
  BY DEF Bar, BarIs, Commit

LEMMA AddressFacts ==
    /\ Home \in Address
    /\ \A a \in Address : a # Nowhere /\ a.q \in Drafts /\ Trim(a.q) = a.q
    /\ \A a \in Address : \A d \in Drafts : /\ Committed(a, d) \in Address
                                          /\ Committed(a, d).q = Trim(d)
    /\ \A a \in Address : \A v \in BOOLEAN : [a EXCEPT !.dates = v, !.page = 1] \in Address
    /\ \A a \in Address : \A v \in {1, 2} : [a EXCEPT !.page = v] \in Address
  <1>1. Queries = {"", "a", "ab"}
    BY DEF Queries, Drafts, Trim
  <1>2. Home \in Address /\ Nowhere \notin Address
    <2>1. Home \in Address
      BY <1>1 DEF Home, Address
    <2>2. Nowhere.page = 0
      BY DEF Home, Nowhere
    <2>3. \A a \in Address : a.page \in {1, 2}
      BY DEF Address
    <2>4. QED
      BY <2>1, <2>2, <2>3
  <1>3. ASSUME NEW a \in Address, NEW d \in Drafts
        PROVE  /\ Committed(a, d) \in Address /\ Committed(a, d).q = Trim(d)
    BY <1>1 DEF Committed, Address, Drafts, Trim
  <1>4. ASSUME NEW a \in Address
        PROVE  a.q \in Drafts /\ Trim(a.q) = a.q
    BY <1>1 DEF Address, Drafts, Trim
  <1>5. ASSUME NEW a \in Address, NEW v \in BOOLEAN
        PROVE  [a EXCEPT !.dates = v, !.page = 1] \in Address
    BY DEF Address
  <1>6. ASSUME NEW a \in Address, NEW v \in {1, 2}
        PROVE  [a EXCEPT !.page = v] \in Address
    BY DEF Address
  <1>7. QED
    BY <1>2, <1>3, <1>4, <1>5, <1>6

LEMMA BrowseInvInit == BrowseInit => BrowseInv
  <1> SUFFICES ASSUME BrowseInit PROVE BrowseInv
    OBVIOUS
  <1>1. /\ address \in Address /\ loading = TRUE /\ going = Nowhere /\ acts = 0 /\ rushed = FALSE
        /\ bar = [draft |-> address.q, debounced |-> address.q, last |-> address.q, timer |-> Still]
    BY DEF BrowseInit
  <1>2. address.q \in Drafts /\ Trim(address.q) = address.q
    BY <1>1, AddressFacts
  <1>3. BrowseTypeOK
    <2>1. bar \in [draft : Drafts, debounced : Drafts, last : Drafts,
                   timer : {Still, "typed", "address"}]
      BY <1>1, <1>2
    <2>2. acts \in 0 .. MaxActs
      BY <1>1, BrowseAssumption
    <2>3. QED
      BY <1>1, <2>1, <2>2 DEF BrowseTypeOK
  <1>4. BarFollows
    BY <1>1, <1>2 DEF BarFollows, Still
  <1>5. QED
    BY <1>3, <1>4 DEF BrowseInv

LEMMA BrowseInvStep == BrowseInv /\ [BrowseNext]_browseVars => BrowseInv'
  <1> SUFFICES ASSUME BrowseInv, [BrowseNext]_browseVars PROVE BrowseInv'
    OBVIOUS
  <1>1. /\ bar \in Bar /\ address \in Address /\ going \in Address \cup {Nowhere}
        /\ acts \in 0 .. MaxActs /\ rushed \in BOOLEAN /\ MaxActs \in Nat /\ loading \in BOOLEAN
    BY BrowseAssumption DEF BrowseInv, BrowseTypeOK, Bar, Timers
  <1>2. \A b \in Bar : b.draft \in Drafts /\ b.debounced \in Drafts /\ b.last \in Drafts /\ b.timer \in Timers
    BY DEF Bar
  <1>3. Still \in Timers /\ "typed" \in Timers /\ "address" \in Timers /\ Still # "typed" /\ Still # "address"
    BY DEF Still, Timers
  <1>4. ASSUME Acts
        PROVE  /\ acts' \in 0 .. MaxActs /\ rushed' \in BOOLEAN
               /\ ~rushed' => ~rushed /\ going = Nowhere /\ bar.timer # "address"
    <2>1. acts' \in 0 .. MaxActs
      BY <1>1, <1>4 DEF Acts
    <2>2. rushed' = (rushed \/ (going # Nowhere \/ bar.timer = "address"))
      BY <1>4 DEF Acts, Early
    <2>3. QED
      BY <1>1, <2>1, <2>2
  <1>5. ASSUME NEW text \in Drafts, Types(text)
        PROVE  BrowseInv'
    <2>1. /\ Acts /\ bar' = [bar EXCEPT !.draft = text, !.timer = "typed"]
          /\ UNCHANGED <<loading, address, going>>
      BY <1>5 DEF Types
    <2>2. bar' \in Bar /\ BarIs(bar', text, bar.debounced, bar.last, "typed")
      BY <1>1, <1>3, <2>1, BarSets
    <2>3. BrowseTypeOK'
      BY <1>1, <1>4, <2>1, <2>2 DEF BrowseTypeOK, Bar, Timers
    <2>4. BarFollows'
      BY <1>3, <1>4, <2>1, <2>2 DEF BrowseInv, BarFollows, BarIs
    <2>5. QED
      BY <2>3, <2>4 DEF BrowseInv
  <1>6. ASSUME NEW to \in Address, Navigates(to)
        PROVE  BrowseInv'
    <2>1. Acts /\ going' = to /\ UNCHANGED <<bar, loading, address>>
      BY <1>6 DEF Navigates
    <2>2. BrowseTypeOK'
      BY <1>1, <1>4, <2>1 DEF BrowseTypeOK, Bar, Timers
    <2>3. BarFollows'
      BY <1>4, <2>1 DEF BrowseInv, BarFollows
    <2>4. QED
      BY <2>2, <2>3 DEF BrowseInv
  <1>7. CASE Debounced
    <2> DEFINE b == [bar EXCEPT !.debounced = bar.draft, !.timer = Still]
               commits == bar.debounced # bar.draft /\ Uncommitted(b, address.q)
    <2>1. /\ bar.timer # Still /\ UNCHANGED <<loading, address, acts, rushed>>
          /\ commits => bar' = Commit(b) /\ going' = Committed(address, b.debounced)
          /\ ~commits => bar' = b /\ UNCHANGED going
      BY <1>7 DEF Debounced
    <2>2. b \in Bar /\ BarIs(b, bar.draft, bar.draft, bar.last, Still)
      BY <1>1, <1>2, <1>3, BarSets
    <2>3. commits <=> bar.debounced # bar.draft /\ bar.draft # bar.last
      BY <2>2 DEF Uncommitted, BarIs
    <2> HIDE DEF b, commits
    <2>4. CASE commits
      <3>1. bar' \in Bar /\ BarIs(bar', bar.draft, bar.draft, bar.draft, Still)
        BY <2>1, <2>2, <2>4, CommitSets DEF BarIs
      <3>2. going' \in Address /\ going'.q = Trim(bar.draft) /\ going' # Nowhere
        BY <1>1, <1>2, <2>1, <2>2, <2>4, AddressFacts DEF BarIs
      <3>3. BrowseTypeOK'
        BY <1>1, <2>1, <3>1, <3>2 DEF BrowseTypeOK, Bar, Timers
      <3>4. BarFollows'
        BY <1>3, <2>1, <3>1, <3>2 DEF BarFollows, BarIs
      <3>5. QED
        BY <3>3, <3>4 DEF BrowseInv
    <2>5. CASE ~commits
      <3>1. bar' \in Bar /\ BarIs(bar', bar.draft, bar.draft, bar.last, Still)
        BY <2>1, <2>2, <2>5
      <3>2. BrowseTypeOK'
        BY <1>1, <2>1, <2>5, <3>1 DEF BrowseTypeOK, Bar, Timers
      <3>3. ~rushed => bar.draft = bar.last
        BY <2>3, <2>5 DEF BrowseInv, BarFollows
      <3>4. BarFollows'
        BY <1>3, <2>1, <2>5, <3>1, <3>3 DEF BrowseInv, BarFollows, BarIs
      <3>5. QED
        BY <3>2, <3>4 DEF BrowseInv
    <2>6. QED
      BY <2>4, <2>5
  <1>8. CASE Rendered
    <2> DEFINE commits == Uncommitted(bar, going.q)
               b == IF commits THEN Commit(bar) ELSE bar
               w == IF b.draft # going.q \/ b.timer # Still THEN "address" ELSE Still
    <2>1. /\ going # Nowhere /\ address' = going /\ UNCHANGED <<loading, acts, rushed>>
          /\ commits => going' = Committed(going, bar.debounced)
          /\ ~commits => going' = Nowhere
          /\ going.q # address.q => bar' = [b EXCEPT !.draft = going.q, !.last = going.q, !.timer = w]
          /\ going.q = address.q => bar' = b
      BY <1>8 DEF Rendered, Followed
    <2>2. going \in Address /\ going.q \in Drafts /\ Trim(going.q) = going.q
      BY <1>1, <1>2, <2>1, AddressFacts
    <2>3. b \in Bar /\ BarIs(b, bar.draft, bar.debounced, IF commits THEN bar.debounced ELSE bar.last, bar.timer)
      BY <1>1, CommitSets DEF BarIs
    <2>4. commits <=> bar.debounced # bar.last
      BY DEF Uncommitted
    <2>5. w \in Timers
      BY <1>3
    <2>6. w = Still => bar.draft = going.q /\ bar.timer = Still
      BY <1>3, <2>3 DEF BarIs
    <2> HIDE DEF b, commits, w
    <2>7. going.q # address.q => bar' \in Bar /\ BarIs(bar', going.q, bar.debounced, going.q, w)
      <3>1. PICK q, r : q = going.q /\ r = [b EXCEPT !.draft = q, !.last = q, !.timer = w]
        OBVIOUS
      <3>2. r \in Bar /\ BarIs(r, q, b.debounced, q, w)
        BY <2>2, <2>3, <2>5, <3>1, BarSets
      <3>3. b.debounced = bar.debounced
        BY <2>3 DEF BarIs
      <3>4. going.q # address.q => bar' = r
        BY <2>1, <3>1
      <3>5. QED
        BY <3>1, <3>2, <3>3, <3>4
    <2>8. going.q = address.q => bar' \in Bar /\ BarIs(bar', bar.draft, bar.debounced, IF commits THEN bar.debounced ELSE bar.last, bar.timer)
      BY <2>1, <2>3
    <2>9. going' \in Address \cup {Nowhere}
      BY <1>1, <1>2, <2>1, <2>2, AddressFacts
    <2>10. BrowseTypeOK'
      BY <1>1, <2>1, <2>2, <2>7, <2>8, <2>9 DEF BrowseTypeOK, Bar, Timers
    <2>11. ~rushed => /\ ~commits /\ going' = Nowhere
                      /\ bar.debounced = bar.last
                      /\ bar.timer = "address" => Trim(bar.draft) = address.q
                      /\ bar.timer = Still => bar.draft = bar.debounced
                      /\ going.q = address.q => Trim(bar.last) = address.q
      BY <2>1, <2>4 DEF BrowseInv, BarFollows
    <2>12. CASE going.q = address.q
      <3>1. BarFollows'
        BY <2>1, <2>8, <2>11, <2>12 DEF BarFollows, BarIs
      <3>2. QED
        BY <2>10, <3>1 DEF BrowseInv
    <2>13. CASE going.q # address.q
      <3>1. BarIs(bar', going.q, bar.debounced, going.q, w) /\ w \in {Still, "address"}
        BY <2>7, <2>13 DEF w
      <3>2. BarFollows'
        BY <1>3, <2>1, <2>2, <2>6, <2>11, <3>1 DEF BarFollows, BarIs
      <3>3. QED
        BY <2>10, <3>2 DEF BrowseInv
    <2>14. QED
      BY <2>12, <2>13
  <1>9. CASE ChangesDates \/ TurnsPage \/ ClearsFilters \/ GoesElsewhere
    <2>1. \E to \in Address : Navigates(to)
      BY <1>1, <1>9, AddressFacts DEF ChangesDates, TurnsPage, ClearsFilters, GoesElsewhere
    <2>2. QED
      BY <1>6, <2>1
  <1>10. CASE UNCHANGED browseVars
    BY <1>10 DEF browseVars, BrowseInv, BrowseTypeOK, BarFollows
  <1>11. CASE EventsRefetched \/ EventsSettled
    <2>1. /\ loading' \in BOOLEAN /\ acts' \in 0 .. MaxActs /\ UNCHANGED <<address, rushed>>
          /\ RendersAgain \/ UNCHANGED <<bar, going>>
      <3>1. CASE EventsRefetched
        <4>1. acts < MaxActs /\ acts' = acts + 1
          BY <3>1 DEF EventsRefetched
        <4>2. acts' \in 0 .. MaxActs
          BY <1>1, <4>1
        <4>3. QED
          BY <3>1, <4>2 DEF EventsRefetched
      <3>2. CASE EventsSettled
        BY <1>1, <3>2 DEF EventsSettled
      <3>3. QED
        BY <1>11, <3>1, <3>2
    <2>2. CASE UNCHANGED <<bar, going>>
      BY <1>1, <2>1, <2>2 DEF BrowseInv, BrowseTypeOK, BarFollows
    <2>3. CASE RendersAgain /\ ~UNCHANGED <<bar, going>>
      <3>1. /\ bar.debounced # bar.last
            /\ bar' = Commit(bar) /\ going' = Committed(address, bar.debounced)
        BY <2>3 DEF RendersAgain, Uncommitted
      <3>2. bar' \in Bar /\ BarIs(bar', bar.draft, bar.debounced, bar.debounced, bar.timer)
        BY <1>1, <3>1, CommitSets
      <3>3. going' \in Address /\ going'.q = Trim(bar.debounced) /\ going' # Nowhere
        BY <1>1, <1>2, <3>1, AddressFacts
      <3>4. BrowseTypeOK'
        BY <1>1, <2>1, <3>2, <3>3 DEF BrowseTypeOK, Bar, Timers
      <3>5. ~rushed => bar.timer = "address" /\ Trim(bar.draft) = address.q
        BY <3>1 DEF BrowseInv, BarFollows
      <3>6. BarFollows'
        BY <1>3, <2>1, <3>2, <3>3, <3>5 DEF BarFollows, BarIs
      <3>7. QED
        BY <3>4, <3>6 DEF BrowseInv
    <2>4. QED
      BY <2>1, <2>2, <2>3
  <1>12. QED
    BY <1>5, <1>7, <1>8, <1>9, <1>10, <1>11 DEF BrowseNext

LEMMA BrowseInvSays == BrowseInv => BrowseTypeOK /\ SearchSettles
  BY DEF BrowseInv, BarFollows, SearchSettles, Settled, Still

-----------------------------------------------------------------------------
LEMMA StepsOfWizard == [Next]_backVars => [WizardNext]_wizardVars
  <1> SUFFICES ASSUME [Next]_backVars PROVE WizardNext \/ UNCHANGED wizardVars
    OBVIOUS
  <1>1. CASE UNCHANGED backVars
    BY <1>1 DEF backVars
  <1>2. CASE Wizards \/ Desks \/ Covers \/ Shares
    BY <1>2 DEF Wizards, Desks, Covers, Shares
  <1>3. CASE Gates \/ LooksUp \/ Browses
    BY <1>3 DEF Gates, LooksUp, Browses
  <1> QED
    BY <1>1, <1>2, <1>3 DEF Next

LEMMA StepsOfBrowse == [Next]_backVars => [BrowseNext]_browseVars
  <1> SUFFICES ASSUME [Next]_backVars PROVE BrowseNext \/ UNCHANGED browseVars
    OBVIOUS
  <1>1. CASE UNCHANGED backVars
    BY <1>1 DEF backVars
  <1>2. CASE Wizards \/ Desks \/ Covers \/ Shares
    BY <1>2 DEF Wizards, Desks, Covers, Shares
  <1>3. CASE Gates \/ LooksUp \/ Browses
    BY <1>3 DEF Gates, LooksUp, Browses
  <1> QED
    BY <1>1, <1>2, <1>3 DEF Next

LEMMA WizardInvAlways == Spec => []WizardInv
  <1>1. Init => WizardInv
    BY WizardInvInit DEF Init
  <1>2. WizardInv /\ [Next]_backVars => WizardInv'
    BY WizardInvStep, StepsOfWizard
  <1> QED
    BY <1>1, <1>2, PTL DEF Spec

LEMMA BrowseInvAlways == Spec => []BrowseInv
  <1>1. Init => BrowseInv
    BY BrowseInvInit DEF Init
  <1>2. BrowseInv /\ [Next]_backVars => BrowseInv'
    BY BrowseInvStep, StepsOfBrowse
  <1> QED
    BY <1>1, <1>2, PTL DEF Spec

\* However often a submission is sent again, and whatever fails on the way, no
\* slot becomes two events or is lost, every event has the session chosen for its
\* slot, and the drafts that are left have been told of, but for the detours that
\* the wizard does not absorb (CreateEventWizard.tsx, handleRoomSubmit).
THEOREM SubmissionIsFaithfulAlways == Spec => []SubmissionIsFaithful
  <1>1. WizardInv => SubmissionIsFaithful
    BY WizardInvSays
  <1> QED
    BY <1>1, WizardInvAlways, PTL

\* Once everything has settled the search bar shows what the list is filtered by,
\* if nobody acted while it had not (SearchBar.tsx, CatalogPage.tsx).
THEOREM SearchSettlesAlways == Spec => []SearchSettles
  <1>1. BrowseInv => SearchSettles
    BY BrowseInvSays
  <1> QED
    BY <1>1, BrowseInvAlways, PTL

LEMMA PartStays == Spec => [](part \in Parts)
  <1>1. Init => part \in Parts
    BY DEF Init
  <1>2. part \in Parts /\ [Next]_backVars => (part \in Parts)'
    <2> SUFFICES ASSUME part \in Parts, [Next]_backVars PROVE part' = part
      OBVIOUS
    <2>1. CASE UNCHANGED backVars
      BY <2>1 DEF backVars
    <2>2. CASE Next
      BY <2>2 DEF Next, Wizards, Desks, Covers, Shares, Gates, LooksUp, Browses
    <2>3. QED
      BY <2>1, <2>2
  <1> QED
    BY <1>1, <1>2, PTL DEF Spec

\* Every part keeps its types, whichever of them moves.
THEOREM BackOfficeTypeCorrect == Spec => []BackOfficeTypeOK
  <1>1. part \in Parts /\ WizardInv /\ DeskTypeOK /\ CoverInv /\ ShareInv /\ GateInv
           /\ LookInv /\ BrowseInv => BackOfficeTypeOK
    BY WizardInvSays, BrowseInvSays DEF CoverInv, ShareInv, GateInv, LookInv, BackOfficeTypeOK
  <1> QED
    BY <1>1, PartStays, WizardInvAlways, BackOfficeRunsDesk, DeskTypeCorrect, CoverInvAlways,
       ShareInvAlways, GateInvAlways, LookInvAlways, BrowseInvAlways, PTL
=============================================================================
