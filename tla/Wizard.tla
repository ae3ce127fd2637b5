------------------------------- MODULE Wizard -------------------------------
(***************************************************************************)
(* The organizer's "Nova sessao" wizard (CreateEventWizard and its steps)  *)
(* and what its calls do to the events (EventsService.create and publish). *)
(* One submission creates and then publishes an event for every slot of    *)
(* the draft, all slots at the same time.                                  *)
(*                                                                         *)
(* A slot is a date and time; its session attributes (format, audio, room, *)
(* surcharge) are one value.  The draft is saved to sessionStorage after   *)
(* every change, so a reload keeps it.  Each step is a form of its own,    *)
(* which takes its default values from the draft when it is mounted and    *)
(* never again.                                                            *)
(***************************************************************************)
EXTENDS Naturals, FiniteSets, SequencesExt

CONSTANTS Slots,          \* the times the organizer wants
          Sessions,       \* what the attributes of a session may be
          DefaultSession,
          MaxEvents,      \* bound on the events created
          MaxEdits,       \* bound on the changes made in the forms
          WizardFaults    \* requests and answers may be lost

ASSUME WizardAssumption == /\ Slots # {} /\ DefaultSession \in Sessions
                           /\ MaxEvents \in Nat /\ MaxEdits \in Nat
                           /\ WizardFaults \in BOOLEAN

VARIABLES step,      \* ?passo=, or "left" after a complete success
          draft,     \* the slots of the draft and their sessions
          form,      \* what the mounted step holds, under the same names
          busy,      \* isSubmitting
          try,       \* the attempts of the submission
          events,    \* the events created: slot, session, status, and a history
                     \* field: the session last chosen for the slot on screen
          chosen,    \* history: that choice
          told,      \* history: events reported as created but not published
          wanted,    \* history: slots entered with "Continuar" and not removed since
          edits,
          detour     \* history: what the wizard does not absorb

wizardVars == <<step, draft, form, busy, try, events, chosen, told, wanted, edits, detour>>

-----------------------------------------------------------------------------
Try == [slot : Slots, session : Sessions, meant : Sessions, event : 0 .. MaxEvents,
        at : {"create", "created", "publish", "publishedAnswer",
              "published", "notCreated", "notPublished"}]
Listing == [slots : Seq(Slots), sessions : Seq(Sessions)]
Event == [slot : Slots, session : Sessions, meant : Sessions,
          status : {"DRAFT", "PUBLISHED"}]

Ended == {"published", "notCreated", "notPublished"}
Created(t) == [slot |-> t.slot, session |-> t.session, meant |-> t.meant,
               status |-> "DRAFT"]

\* prev.sessions[index] ?? DEFAULT_SESSION_ATTRS, for each slot
Aligned(slots, sessions) ==
    [i \in DOMAIN slots |-> IF i \in DOMAIN sessions THEN sessions[i] ELSE DefaultSession]

\* a choice that was not submitted is gone when its form is
Unsubmitted == [s \in Slots |->
    IF s \notin Range(draft.slots) THEN chosen[s]
    ELSE Aligned(draft.slots, draft.sessions)[CHOOSE i \in DOMAIN draft.slots : draft.slots[i] = s]]

\* a step is mounted and takes its default values
Mounted(d) == [slots |-> d.slots, sessions |-> Aligned(d.slots, d.sessions)]

-----------------------------------------------------------------------------
(* The organizer, in the forms. *)

Edit == edits < MaxEdits /\ edits' = edits + 1

\* VenueStep, "Adicionar outro horario": not in the draft before "Continuar".
\* The organizer does not ask for a session that exists.
AddSlot(s) ==
    /\ step = "venue" /\ s \notin Range(form.slots) /\ Edit
    /\ \A i \in DOMAIN events : events[i].slot # s
    /\ form' = [form EXCEPT !.slots = Append(@, s)]
    /\ UNCHANGED <<step, draft, busy, try, events, chosen, told, wanted, detour>>

\* VenueStep, "Remover": the sessions of the draft stay where they are
RemoveSlot(i) ==
    /\ step = "venue" /\ i \in DOMAIN form.slots /\ Len(form.slots) > 1 /\ Edit
    /\ form' = [form EXCEPT !.slots = RemoveAt(@, i)]
    /\ detour' = detour \cup {"removed"}
    /\ UNCHANGED <<step, draft, busy, try, events, chosen, told, wanted>>

\* handleVenueSubmit
VenueDraft(slots) == [slots |-> slots, sessions |-> Aligned(slots, draft.sessions)]

ToRoom ==
    /\ step = "venue" /\ form.slots # <<>>
    /\ draft' = VenueDraft(form.slots)
    /\ step' = "room"
    /\ form' = Mounted(draft')
    /\ wanted' = (wanted \ Range(draft.slots)) \cup Range(form.slots)
    /\ UNCHANGED <<busy, try, events, chosen, told, edits, detour>>

\* "Voltar" is not disabled during a submission
Back ==
    /\ step = "room" /\ Edit
    /\ step' = "venue"
    /\ form' = Mounted(draft)
    /\ detour' = detour \cup (IF busy THEN {"back"} ELSE {})
    /\ chosen' = Unsubmitted
    /\ UNCHANGED <<draft, busy, try, events, told, wanted>>

\* RoomStep shows the first sessions of its form, one for each slot; if there
\* are more slots than sessions, a card without a session is filled in
Choose(i, a) ==
    /\ step = "room" /\ i \in DOMAIN draft.slots /\ Edit
    /\ \/ /\ i \in DOMAIN form.sessions /\ form.sessions[i] # a
          /\ form' = [form EXCEPT !.sessions[i] = a]
       \/ /\ i = Len(form.sessions) + 1
          /\ form' = [form EXCEPT !.sessions = Append(@, a)]
    /\ chosen' = [chosen EXCEPT ![draft.slots[i]] = a]
    /\ UNCHANGED <<step, draft, busy, try, events, told, wanted, detour>>

\* a slot of the draft with the session at place j of the form, if there is
\* one; buildCreateInput throws otherwise
Attempt(i, j) ==
    [slot |-> draft.slots[i], meant |-> chosen[draft.slots[i]], event |-> 0,
     session |-> IF j \in DOMAIN form.sessions THEN form.sessions[j] ELSE DefaultSession,
     at |-> IF j \in DOMAIN form.sessions THEN "create" ELSE "notCreated"]

Attempts == [i \in DOMAIN draft.slots |-> Attempt(i, i)]

\* handleRoomSubmit, up to Promise.all: the button is off while busy, and the
\* form wants at least one session
Submit ==
    /\ step = "room" /\ ~busy /\ form.sessions # <<>>
    /\ Len(events) + Len(draft.slots) <= MaxEvents
    /\ draft' = [draft EXCEPT !.sessions = form.sessions]
    /\ try' = Attempts
    /\ busy' = TRUE
    /\ UNCHANGED <<step, form, events, chosen, told, wanted, edits, detour>>

\* the events once the server has served the calls `done' of an abandoned submission
Publishing(e, done) == \E i \in done : try[i].at = "publish" /\ try[i].event = e

ServedAlso(done, creations) ==
    [e \in DOMAIN events |->
        IF Publishing(e, done) THEN [events[e] EXCEPT !.status = "PUBLISHED"] ELSE events[e]]
    \o [k \in DOMAIN creations |-> Created(try[creations[k]])]

\* F5: the draft is read back, and what was in flight is abandoned; the server
\* may or may not have it
Reload ==
    /\ step # "left" /\ Edit
    /\ \E done \in SUBSET {i \in DOMAIN try : try[i].at \in {"create", "publish"}} :
          events' = ServedAlso(done, SetToSeq({i \in done : try[i].at = "create"}))
    /\ detour' = detour \cup (IF busy THEN {"reloaded"} ELSE {})
    /\ try' = <<>>
    /\ busy' = FALSE
    /\ form' = Mounted(draft)
    /\ chosen' = Unsubmitted
    /\ UNCHANGED <<step, draft, told, wanted>>

-----------------------------------------------------------------------------
(* The calls of one slot. *)

Goes(i, where) == i \in DOMAIN try /\ try' = [try EXCEPT ![i].at = where]
Is(i, where) == i \in DOMAIN try /\ try[i].at = where

\* EventsService.create commits
Creates(i) ==
    /\ Is(i, "create")
    /\ events' = Append(events, Created(try[i]))
    /\ try' = [try EXCEPT ![i].at = "created", ![i].event = Len(events) + 1]
    /\ UNCHANGED <<step, draft, form, busy, chosen, told, wanted, edits, detour>>

\* it refuses: the catalog is unavailable, the film is gone, a seat label or a
\* start that has come too near
CreateRefused(i) ==
    /\ Is(i, "create")
    /\ Goes(i, "notCreated")
    /\ UNCHANGED <<step, draft, form, busy, events, chosen, told, wanted, edits, detour>>

\* the event is published as soon as it is known to exist
CreateAnswered(i) ==
    /\ Is(i, "created")
    /\ Goes(i, "publish")
    /\ UNCHANGED <<step, draft, form, busy, events, chosen, told, wanted, edits, detour>>

\* the answer, or the request, is lost: the wizard sees an event not created
CreateLost(i) ==
    /\ WizardFaults /\ (Is(i, "create") \/ Is(i, "created"))
    /\ Goes(i, "notCreated")
    /\ detour' = detour \cup (IF try[i].at = "created" THEN {"lost"} ELSE {})
    /\ UNCHANGED <<step, draft, form, busy, events, chosen, told, wanted, edits>>

\* EventsService.publish
Publishes(i) ==
    /\ Is(i, "publish")
    /\ events' = [events EXCEPT ![try[i].event].status = "PUBLISHED"]
    /\ Goes(i, "publishedAnswer")
    /\ UNCHANGED <<step, draft, form, busy, chosen, told, wanted, edits, detour>>

PublishAnswered(i) ==
    /\ Is(i, "publishedAnswer")
    /\ Goes(i, "published")
    /\ UNCHANGED <<step, draft, form, busy, events, chosen, told, wanted, edits, detour>>

\* refused (EVENT_STARTS_IN_PAST, cancelled meanwhile) or lost
PublishFails(i) ==
    /\ \/ Is(i, "publish")
       \/ WizardFaults /\ Is(i, "publishedAnswer")
    /\ Goes(i, "notPublished")
    /\ UNCHANGED <<step, draft, form, busy, events, chosen, told, wanted, edits, detour>>

\* Mutant of Kept: the slots created but not published are kept as well
Kept_Unpublished(t) == t.at \in {"notCreated", "notPublished"}

\* the slots that stay in the draft
Kept(t) == t.at = "notCreated"

\* "foram criadas, mas nao publicadas"
Told == {t.event : t \in {u \in Range(try) : u.at = "notPublished"}}

\* filter: the places that are kept, in order (the one increasing enumeration)
InOrder(places) ==
    {f \in [1 .. Cardinality(places) -> places] : \A a, b \in DOMAIN f : a < b => f[a] < f[b]}

\* Promise.all resolves.  RoomStep, if it is still there, keeps its form; so
\* does VenueStep.
Settles ==
    LET stay == {i \in DOMAIN try : Kept(try[i])}
    IN  /\ busy /\ \A i \in DOMAIN try : try[i].at \in Ended
        /\ busy' = FALSE
        /\ try' = <<>>
        /\ told' = told \cup Told
        /\ IF \A i \in DOMAIN try : try[i].at = "published"
           THEN step' = "left" /\ UNCHANGED <<draft, detour>>
           ELSE /\ \E kept \in InOrder(stay) :
                      draft' = [slots |-> [k \in DOMAIN kept |-> try[kept[k]].slot],
                                sessions |-> [k \in DOMAIN kept |-> try[kept[k]].session]]
                /\ detour' = detour \cup (IF stay # DOMAIN try THEN {"partial"} ELSE {})
                /\ UNCHANGED step
        /\ UNCHANGED <<form, events, chosen, wanted, edits>>

-----------------------------------------------------------------------------
\* The film is chosen and the venue filled in, with one slot, whichever.
WizardInit ==
    LET s == CHOOSE r \in Slots : TRUE
    IN  /\ step = "venue"
        /\ draft = [slots |-> <<s>>, sessions |-> <<DefaultSession>>]
        /\ form = Mounted(draft)
        /\ busy = FALSE
        /\ try = <<>>
        /\ events = <<>>
        /\ chosen = [r \in Slots |-> DefaultSession]
        /\ told = {} /\ wanted = {s} /\ edits = 0 /\ detour = {}

CallStep(i) == \/ Creates(i) \/ CreateRefused(i) \/ CreateAnswered(i)
               \/ Publishes(i) \/ PublishAnswered(i) \/ PublishFails(i)

Places == 1 .. Cardinality(Slots)

WizardNext ==
    \/ \E s \in Slots : AddSlot(s)
    \/ \E i \in Places : RemoveSlot(i) \/ CallStep(i) \/ CreateLost(i)
    \/ \E i \in Places, a \in Sessions : Choose(i, a)
    \/ ToRoom \/ Back \/ Submit \/ Reload \/ Settles

\* A call is answered or times out (api.ts aborts it), and its promise is
\* continued.
WizardFairness == /\ \A i \in Places : WF_wizardVars(CallStep(i))
                  /\ WF_wizardVars(Settles)

WizardSpec == WizardInit /\ [][WizardNext]_wizardVars /\ WizardFairness

-----------------------------------------------------------------------------
WizardTypeOK ==
    /\ step \in {"venue", "room", "left"}
    /\ draft \in Listing /\ form \in Listing
    /\ IsInjective(draft.slots) /\ IsInjective(form.slots)
    /\ busy \in BOOLEAN /\ try \in Seq(Try)
    /\ events \in Seq(Event) /\ chosen \in [Slots -> Sessions]
    /\ told \subseteq DOMAIN events /\ wanted \subseteq Slots
    /\ edits \in 0 .. MaxEdits
    /\ detour \subseteq {"lost", "back", "reloaded", "removed", "partial"}

\* However often the organizer submits again, a slot never becomes two events,
\* unless the answer of its creation was lost, the page was reloaded during the
\* submission or the organizer went back during it (CreateEventWizard.tsx:219;
\* "nunca recria", CreateEventWizard.test.tsx:237).
NoSlotTwice ==
    detour \cap {"lost", "back", "reloaded"} = {} =>
        \A i, j \in DOMAIN events : events[i].slot = events[j].slot => i = j

\* A slot that was asked for is still in the draft or is an event:
\* a partial failure loses none, unless the organizer went back during the
\* submission, whose outcome replaces the slots (CreateEventWizard.tsx:219-223).
NoSlotLost ==
    "back" \notin detour =>
        \A s \in wanted :
            \/ s \in Range(draft.slots)
            \/ \E i \in DOMAIN events : events[i].slot = s

\* What the wizard leaves unpublished it has said so, unless an answer was lost
\* or the page reloaded (CreateEventWizard.tsx:237-242).
DraftsAreReported ==
    ~busy /\ detour \cap {"lost", "reloaded"} = {} =>
        \A i \in DOMAIN events : events[i].status = "DRAFT" => i \in told

\* As long as no slot was removed, no submission failed in part and none was
\* under way when the organizer went back, every event has the session that was
\* chosen for its slot (CreateEventWizard.tsx:154, 177).
SessionsFollowSlots ==
    detour \cap {"removed", "partial", "back"} = {} =>
        \A i \in DOMAIN events : events[i].session = events[i].meant

\* A submission ends: the button does not spin for ever
\* (CreateEventWizard.tsx:174-196).
SubmissionEnds == busy ~> ~busy
\* The outcome of a submission is what the organizer asked for and is told: every
\* slot once, with its session, and the drafts that are left announced.
SubmissionIsFaithful ==
    NoSlotTwice /\ NoSlotLost /\ SessionsFollowSlots /\ DraftsAreReported
=============================================================================
