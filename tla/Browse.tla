------------------------------ MODULE Browse ------------------------------
(***************************************************************************)
(* The filters of the catalog (CatalogPage, SearchBar, DateRangeFilter,    *)
(* Pagination): the address holds the filters, the search bar a draft of   *)
(* one of them, and effects carry each to the other.                       *)
(*                                                                         *)
(* A draft is committed 400 ms after its last change.  setSearchParams     *)
(* starts from the address of the last render and the new one is rendered  *)
(* a little later (the router renders it as a transition): a navigation in *)
(* between replaces the first.  The list asks for what the address says    *)
(* (EventList, keyed by its filters), so it is not followed here.          *)
(***************************************************************************)
EXTENDS Naturals

CONSTANTS MaxActs    \* bound on what the customer does

ASSUME BrowseAssumption == MaxActs \in Nat

VARIABLES bar,      \* the search bar: draft, debounced, lastCommitted, and what
                    \* set the timer of the debounce
          loading,  \* the page's own query of events is under way
          address,  \* the address rendered
          going,    \* the navigation not rendered yet
          acts,     \* what the customer has done
          rushed    \* history: the customer did something before the address or
                    \* the draft it brought had settled

browseVars == <<bar, loading, address, going, acts, rushed>>

-----------------------------------------------------------------------------
\* a text, and one that ends in a space
Drafts == {"", "a", "ab", "a "}
Trim(text) == IF text = "a " THEN "a" ELSE text
Queries == {Trim(text) : text \in Drafts}

Address == [q : Queries, dates : BOOLEAN, page : {1, 2}]
Still == "none"
Home == [q |-> "", dates |-> FALSE, page |-> 1]
Nowhere == [Home EXCEPT !.page = 0]

\* handleSearchCommit: q is set or deleted, page deleted
Committed(from, text) == [from EXCEPT !.q = Trim(text), !.page = 1]

\* the first effect, with the text it last committed
Uncommitted(b, q) == b.debounced # b.last

Commit(b) == [b EXCEPT !.last = b.debounced]

\* the second effect: the draft follows the address
Followed(b, q) ==
    [b EXCEPT !.draft = q, !.last = q,
              !.timer = IF b.draft # q \/ b.timer # Still THEN "address" ELSE Still]

Early == going # Nowhere \/ bar.timer = "address"

Acts == /\ acts < MaxActs
        /\ acts' = acts + 1
        /\ rushed' = (rushed \/ Early)

-----------------------------------------------------------------------------
Types(text) ==
    /\ Acts
    /\ text # bar.draft
    /\ bar' = [bar EXCEPT !.draft = text, !.timer = "typed"]
    /\ UNCHANGED <<loading, address, going>>

\* setDebounced renders only when it changes the value
Debounced ==
    /\ bar.timer # Still
    /\ LET b == [bar EXCEPT !.debounced = bar.draft, !.timer = Still] IN
       IF bar.debounced # bar.draft /\ Uncommitted(b, address.q)
       THEN bar' = Commit(b) /\ going' = Committed(address, b.debounced)
       ELSE bar' = b /\ UNCHANGED going
    /\ UNCHANGED <<loading, address, acts, rushed>>

\* the page renders the new address: onCommit is a new function, so both effects
\* may run, the commit first
Rendered ==
    /\ going # Nowhere
    /\ address' = going
    /\ LET commits == Uncommitted(bar, going.q)
           b == IF commits THEN Commit(bar) ELSE bar
       IN /\ going' = IF commits THEN Committed(going, bar.debounced) ELSE Nowhere
          /\ bar' = IF going.q # address.q THEN Followed(b, going.q) ELSE b
    /\ UNCHANGED <<loading, acts, rushed>>

\* The page's own query of events may render it again at the same address: then
\* onCommit is new and the commit effect alone may run.
RendersAgain ==
    IF Uncommitted(bar, address.q)
    THEN bar' = Commit(bar) /\ going' = Committed(address, bar.debounced)
    ELSE UNCHANGED <<bar, going>>

\* "Tentar novamente", or the network is back
EventsRefetched ==
    /\ ~loading /\ acts < MaxActs
    /\ loading' = TRUE /\ acts' = acts + 1
    /\ RendersAgain \/ UNCHANGED <<bar, going>>
    /\ UNCHANGED <<address, rushed>>

EventsSettled ==
    /\ loading
    /\ loading' = FALSE
    /\ RendersAgain \/ UNCHANGED <<bar, going>>
    /\ UNCHANGED <<address, acts, rushed>>

Navigates(to) == /\ Acts
                 /\ going' = to
                 /\ UNCHANGED <<bar, loading, address>>

ChangesDates == \E dates \in BOOLEAN : Navigates([address EXCEPT !.dates = dates, !.page = 1])

\* Pagination: there may be one more page
TurnsPage == \E page \in {1, 2} \ {address.page} : Navigates([address EXCEPT !.page = page])

ClearsFilters == (address.q # "" \/ address.dates) /\ Navigates(Home)

\* back, forward, or a link to the catalog
GoesElsewhere == \E to \in Address : to.dates = address.dates /\ Navigates(to)

-----------------------------------------------------------------------------
BrowseInit ==
    /\ address \in {a \in Address : a.page = 1 /\ ~a.dates}
    /\ bar = [draft |-> address.q, debounced |-> address.q, last |-> address.q,
              timer |-> Still]
    /\ loading = TRUE
    /\ going = Nowhere /\ acts = 0 /\ rushed = FALSE

BrowseNext ==
    \/ \E text \in Drafts : Types(text)
    \/ Debounced \/ Rendered \/ EventsRefetched \/ EventsSettled
    \/ ChangesDates \/ TurnsPage \/ ClearsFilters \/ GoesElsewhere

\* timers fire and the browser renders; nobody has to type
BrowseFairness == WF_browseVars(Debounced) /\ WF_browseVars(Rendered)

BrowseSpec == BrowseInit /\ [][BrowseNext]_browseVars /\ BrowseFairness

-----------------------------------------------------------------------------
Settled == bar.timer = Still /\ going = Nowhere

BrowseTypeOK ==
    /\ bar \in [draft : Drafts, debounced : Drafts, last : Drafts,
                timer : {Still, "typed", "address"}]
    /\ loading \in BOOLEAN
    /\ address \in Address /\ going \in Address \cup {Nowhere}
    /\ acts \in 0 .. MaxActs /\ rushed \in BOOLEAN

\* Once everything has settled the bar shows what the list is filtered by, whatever
\* was typed, cleared or gone back to, unless somebody acted in between
\* (SearchBar.tsx:17, 24).
SearchSettles == Settled /\ ~rushed => Trim(bar.draft) = address.q

\* The bar and the address stop changing one another when the customer stops, and
\* then they agree.
SearchEnds == []<>Settled /\ []SearchSettles
=============================================================================
