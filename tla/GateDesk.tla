------------------------------ MODULE GateDesk ------------------------------
(***************************************************************************)
(* The gate: the pages at the doors (PortariaPage with GateScanner,        *)
(* ManualEntry, ValidationResultScreen and the GateStats panel, around     *)
(* useGateValidation) and GateService.                                     *)
(*                                                                         *)
(* React tells the camera and the form that a call is out (busy) at the    *)
(* next render, not at once.  The camera's decoder pauses longer than that *)
(* after each reading, and the form is emptied: neither fires twice before *)
(* a render, but both may.                                                 *)
(*                                                                         *)
(* A code stands for its ticket.  All tickets are of one event; a page may *)
(* have been set to another one, which stands for every refusal before the *)
(* ticket is looked at.  The hours of the gate are in TicketLifecycle.     *)
(***************************************************************************)
EXTENDS Naturals, FiniteSets

CONSTANTS GateTickets, GatePages,
          MaxScans    \* bound on the calls

ASSUME GateAssumption == MaxScans \in Nat /\ IsFiniteSet(GateTickets)

VARIABLES status,      \* of the tickets
          withdrawing, \* tickets whose cancellation has found them active
          desk,        \* a page: the event it is set to, the scan whose result is on
                       \* screen, what the last render knew (busy), who has fired
                       \* since, its latest scan and the count of its panel
          scan         \* the calls: page, code, event, progress, result, and a
                       \* history field: the ticket was cancelled when it was sent

gateVars == <<status, withdrawing, desk, scan>>

-----------------------------------------------------------------------------
Results == {"VALID", "WRONG_EVENT", "CANCELLED_TICKET", "ALREADY_USED"}
NoScan == 0
GatePage == [event : {"none", "this", "other"}, screen : 0 .. MaxScans, busy : BOOLEAN,
             fired : SUBSET {"camera", "form"}, last : 0 .. MaxScans,
             panel : 0 .. Cardinality(GateTickets)]
Scan == [page : GatePages, code : GateTickets, event : {"this", "other"}, late : BOOLEAN,
         at : {"sent", "checked", "answered", "shown", "lost"}, result : Results \cup {"none"}]

Scans == DOMAIN scan
Over(i) == scan[i].at \in {"shown", "lost"}
Used == {t \in GateTickets : status[t] = "USED"}
Admissions(t) == {i \in Scans : scan[i].code = t /\ scan[i].result = "VALID"}

\* isPending || result !== null; useMutation follows its latest call
Busy(p) == (desk[p].last # NoScan /\ ~Over(desk[p].last)) \/ desk[p].screen # NoScan

-----------------------------------------------------------------------------
(* The page. *)

SetEvent(p, e) ==
    /\ desk[p].event # e
    /\ desk' = [desk EXCEPT ![p].event = e, ![p].panel = 0]
    /\ UNCHANGED <<status, withdrawing, scan>>

\* submit, as the last render made it, called by a source
Accepts(p, source) == ~desk[p].busy /\ source \notin desk[p].fired

Submits(p, source, code) ==
    LET n == Cardinality(Scans) + 1
    IN  /\ desk[p].event # "none" /\ Accepts(p, source) /\ n <= MaxScans
        /\ desk' = [desk EXCEPT ![p].fired = @ \cup {source}, ![p].last = n]
        /\ scan' = [i \in 1 .. n |->
                       IF i < n THEN scan[i]
                       ELSE [page |-> p, code |-> code, event |-> desk[p].event, at |-> "sent",
                             late |-> status[code] = "CANCELLED",
                             result |-> "none"]]
        /\ UNCHANGED <<status, withdrawing>>

\* React renders: busy and paused are what they are
Renders(p) ==
    /\ desk' = [desk EXCEPT ![p].busy = Busy(p), ![p].fired = {}]
    /\ desk[p].busy # Busy(p) \/ desk[p].fired # {}
    /\ UNCHANGED <<status, withdrawing, scan>>

\* onSuccess: the result is shown; the page may have been set to another event
\* meanwhile
ScanAnswered(i) ==
    /\ i \in Scans /\ scan[i].at = "answered"
    /\ scan' = [scan EXCEPT ![i].at = "shown"]
    /\ desk' = [desk EXCEPT ![scan[i].page].screen = i]
    /\ UNCHANGED <<status, withdrawing>>

\* the answer or the call is lost: a toast
ScanFails(i) ==
    /\ i \in Scans /\ ~Over(i)
    /\ scan' = [scan EXCEPT ![i].at = "lost"]
    /\ UNCHANGED <<status, withdrawing, desk>>

\* dismiss, two seconds later
AfterDisplay(p) == NoScan

Dismisses(p) ==
    /\ desk[p].screen # NoScan
    /\ desk' = [desk EXCEPT ![p].screen = AfterDisplay(p)]
    /\ UNCHANGED <<status, withdrawing, scan>>

-----------------------------------------------------------------------------
(* GateService.validate and stats. *)

\* the checks before markUsed
Refusal(i) ==
    CASE scan[i].event = "other" -> "WRONG_EVENT"
      [] scan[i].event = "this" /\ status[scan[i].code] = "CANCELLED" -> "CANCELLED_TICKET"
      [] OTHER -> "none"

Checks(i) ==
    /\ i \in Scans /\ scan[i].at = "sent"
    /\ scan' = [scan EXCEPT ![i].result = Refusal(i),
                            ![i].at = IF Refusal(i) = "none" THEN "checked" ELSE "answered"]
    /\ UNCHANGED <<status, withdrawing, desk>>

\* Mutant of NotUsedYet: the ticket was found unused, that is enough
NotUsedYet_AsRead(t) == TRUE

\* WHERE "usedAt" IS NULL: no scan has marked it
NotUsedYet(t) ==
    \A j \in Scans : ~(scan[j].code = t /\ scan[j].result \in {"VALID", "ALREADY_USED"})

\* markUsed, whatever the status is by now
Marks(i) ==
    /\ i \in Scans /\ scan[i].at = "checked"
    /\ LET t == scan[i].code
       IN  /\ status' = IF NotUsedYet(t) THEN [status EXCEPT ![t] = "USED"] ELSE status
           /\ scan' = [scan EXCEPT ![i].at = "answered",
                                   ![i].result = IF NotUsedYet(t) THEN "VALID" ELSE "ALREADY_USED"]
    /\ UNCHANGED <<withdrawing, desk>>

\* countUsed; the other event has no tickets
Counted(p) == IF desk[p].event = "this" THEN Cardinality(Used) ELSE 0

\* The panel asks every ten seconds and after a scan, one fetch at a time, and
\* also after a fetch that failed.
StatsFetched(p) ==
    /\ desk[p].event # "none"
    /\ desk' = [desk EXCEPT ![p].panel = Counted(p)]
    /\ UNCHANGED <<status, withdrawing, scan>>

-----------------------------------------------------------------------------
(* The rest of the world. *)

\* OrdersService.cancelTicket, until the event starts; the gate opens before
Withdraws(t) ==
    /\ status[t] = "ACTIVE" /\ t \notin withdrawing
    /\ withdrawing' = withdrawing \cup {t}
    /\ UNCHANGED <<status, desk, scan>>

Withdrawn(t) ==
    /\ t \in withdrawing
    /\ withdrawing' = withdrawing \ {t}
    /\ status' = [status EXCEPT ![t] = "CANCELLED"]
    /\ UNCHANGED <<desk, scan>>

-----------------------------------------------------------------------------
GateInit ==
    /\ status = [t \in GateTickets |-> "ACTIVE"]
    /\ withdrawing = {}
    /\ desk = [p \in GatePages |-> [event |-> "none", screen |-> NoScan, busy |-> FALSE, fired |-> {},
                                    last |-> NoScan, panel |-> 0]]
    /\ scan = [i \in {} |-> NoScan]

GateNext ==
    \/ \E p \in GatePages :
          \/ \E e \in {"this", "other"} : SetEvent(p, e)
          \/ \E source \in {"camera", "form"}, t \in GateTickets : Submits(p, source, t)
          \/ Renders(p) \/ Dismisses(p) \/ StatsFetched(p)
    \/ \E i \in 1 .. MaxScans : ScanAnswered(i) \/ ScanFails(i) \/ Checks(i) \/ Marks(i)
    \/ \E t \in GateTickets : Withdraws(t) \/ Withdrawn(t)

\* Timers fire, React renders, a call is answered or given up, and of the
\* fetches of a panel one succeeds in the end.
GateFairness ==
    /\ \A p \in GatePages :
          WF_gateVars(Renders(p)) /\ WF_gateVars(Dismisses(p)) /\ WF_gateVars(StatsFetched(p))
    /\ \A i \in 1 .. MaxScans : WF_gateVars(ScanAnswered(i) \/ ScanFails(i) \/ Checks(i) \/ Marks(i))

GateSpec == GateInit /\ [][GateNext]_gateVars /\ GateFairness

-----------------------------------------------------------------------------
GateTypeOK ==
    /\ status \in [GateTickets -> {"ACTIVE", "USED", "CANCELLED"}]
    /\ withdrawing \subseteq GateTickets
    /\ desk \in [GatePages -> GatePage]
    /\ Scans = 1 .. Cardinality(Scans) /\ \A i \in Scans : scan[i] \in Scan

\* However many doors scan a ticket at the same time, by camera and by hand,
\* VALID is answered to one of them (gate.repository.ts:24).
OneScreenAdmits == \A t \in GateTickets : Cardinality(Admissions(t)) <= 1

\* A ticket is called "already used" only if a screen has shown VALID for it,
\* is about to, or that answer was lost: no refused scan uses a ticket up
\* (gate.service.ts:66-97).
UsedWasAdmitted ==
    \A i \in Scans : scan[i].result = "ALREADY_USED" => Admissions(scan[i].code) # {}

\* A ticket that was cancelled when it was scanned is not let in
\* (gate.service.ts:84).
CancelledStaysOut == \A i \in Scans : scan[i].late => scan[i].result # "VALID"

\* What the screens of all doors say of a ticket is what happened to it.
ScreensAreTrue == OneScreenAdmits /\ UsedWasAdmitted /\ CancelledStaysOut

\* A page gets free for the next customer (ValidationResultScreen.tsx:23).
PageGetsFree == \A p \in GatePages : desk[p].busy ~> ~desk[p].busy

\* The panel of a page catches up with the tickets used at the other doors
\* (GateStats.tsx:22).
StatsCatchUp ==
    \A p \in GatePages :
        [](<>(desk[p].event = "this" => desk[p].panel = Cardinality(Used)))
=============================================================================
