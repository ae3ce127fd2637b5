----------------------------- MODULE BackOffice -----------------------------
(***************************************************************************)
(* The parts of the system around the sale, side by side: creating events  *)
(* (Wizard) from what other services know (Lookups), running one           *)
(* (EventDesk), its cover (EventCover), finding one (Browse), the tickets  *)
(* their owners share (ShareLinks) and the doors (GateDesk).  No handler   *)
(* or page of one reads what another writes here, so one of them moves at  *)
(* a time: `part' says which, and the others stay as they began.           *)
(***************************************************************************)
EXTENDS Wizard, EventDesk, EventCover, ShareLinks, GateDesk,
        Lookups, Browse

CONSTANT Parts    \* the parts a run lets move

ASSUME PartsAssumption ==
    Parts \subseteq {"wizard", "desk", "cover", "share", "gate", "lookup", "browse"}

VARIABLE part

backVars == <<part, wizardVars, deskVars, coverVars, shareVars, gateVars, lookupVars,
              browseVars>>

\* a part that is not followed begins in one state
Init == /\ part \in Parts
        /\ WizardInit /\ DeskInit /\ CoverInit /\ ShareInit /\ GateInit
        /\ LookupInit /\ (part # "lookup" => topic = {"search"})
        /\ BrowseInit /\ (part # "browse" => address = Home)

Wizards == /\ part = "wizard" /\ WizardNext
           /\ UNCHANGED <<part, deskVars, coverVars, shareVars, gateVars, lookupVars, browseVars>>
Desks == /\ part = "desk" /\ DeskNext
         /\ UNCHANGED <<part, wizardVars, coverVars, shareVars, gateVars, lookupVars, browseVars>>
Covers == /\ part = "cover" /\ CoverNext
          /\ UNCHANGED <<part, wizardVars, deskVars, shareVars, gateVars, lookupVars, browseVars>>
Shares == /\ part = "share" /\ ShareNext
          /\ UNCHANGED <<part, wizardVars, deskVars, coverVars, gateVars, lookupVars, browseVars>>
Gates == /\ part = "gate" /\ GateNext
         /\ UNCHANGED <<part, wizardVars, deskVars, coverVars, shareVars, lookupVars, browseVars>>
LooksUp == /\ part = "lookup" /\ LookupNext
           /\ UNCHANGED <<part, wizardVars, deskVars, coverVars, shareVars, gateVars, browseVars>>
Browses == /\ part = "browse" /\ BrowseNext
           /\ UNCHANGED <<part, wizardVars, deskVars, coverVars, shareVars, gateVars, lookupVars>>

Next == Wizards \/ Desks \/ Covers \/ Shares \/ Gates \/ LooksUp \/ Browses

\* The fair actions of a part that does not move are not enabled.
Spec == /\ Init /\ [][Next]_backVars
        /\ WizardFairness /\ GateFairness /\ LookupFairness /\ BrowseFairness

\* Every part keeps its types.
BackOfficeTypeOK ==
    /\ part \in Parts /\ WizardTypeOK /\ DeskTypeOK /\ CoverTypeOK /\ ShareTypeOK
    /\ GateTypeOK /\ LookupTypeOK /\ BrowseTypeOK
\* Everything the pages start comes to an end, and their panels and lists show
\* the outcome.
PagesSettle == SubmissionEnds /\ PageGetsFree /\ StatsCatchUp /\ LookupEnds /\ SearchEnds
=============================================================================
