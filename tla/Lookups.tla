------------------------------ MODULE Lookups ------------------------------
(***************************************************************************)
(* What the server asks of others for an organizer: the films of TMDb      *)
(* (CatalogService over the CatalogCache table, TmdbProvider) and the      *)
(* states and cities of IBGE (LocationsService, in memory), and the fields *)
(* of VenueStep and EventEditForm that choose a state and a city.          *)
(*                                                                         *)
(* A film's data and its certification are asked for together, a search    *)
(* asks for the genres after its results.  A request the provider does not *)
(* answer, or answers with 5xx, is sent once more; any other refusal ends  *)
(* it.  The client asks again after an error (query-client, a new mount).  *)
(***************************************************************************)
EXTENDS FiniteSets

CONSTANTS Clients,  \* browsers of organizers
          Venue,    \* the one whose venue fields are followed
          Cities    \* states whose cities are asked for

ASSUME LookupsAssumption == Venue \in Clients

VARIABLES topic,   \* what a run asks for: the others stay as they are
          entry,   \* the cached answer to a question: row or memory
          genres,  \* genreCache
          lookup,  \* a client's question on its way, or its last answer
          venue    \* the state chosen, and the state of the city chosen

lookupVars == <<topic, entry, genres, lookup, venue>>

-----------------------------------------------------------------------------
Catalogued == {"search", "movie"}
Questions == Catalogued \cup {"states"} \cup Cities
Topics == {{"search"}, {"movie"}, {"states"}, Cities}
CacheState == {"none", "fresh", "old"}
Part == {"none", "first", "second", "answered", "failed"}

\* main: the question itself; extra: certification or genres; cached: what
\* getCities holds on to; known: history, an entry it began with still exists
Lookup == [main : Part, extra : Part, cached : BOOLEAN, known : BOOLEAN,
           answer : {"none", "data", "error"}]

NoLookup == [main |-> "none", extra |-> "none", cached |-> FALSE, known |-> FALSE,
             answer |-> "none"]

LookupIds == Clients \X Questions
LookingUp(c) == lookup[c].main # "none"
Has(c) == lookup[c].answer = "data"
Data == [NoLookup EXCEPT !.answer = "data"]

-----------------------------------------------------------------------------
(* The services. *)

\* findFresh, or the entry in memory: answered at once
AnsweredFromCache(c) ==
    /\ entry[c[2]] = "fresh"
    /\ lookup' = [lookup EXCEPT ![c] = Data]

AsksProvider(c) ==
    /\ entry[c[2]] # "fresh"
    /\ lookup' = [lookup EXCEPT ![c] =
           [NoLookup EXCEPT !.main = "first", !.cached = c[2] \in Cities /\ entry[c[2]] # "none",
                            !.known = entry[c[2]] # "none",
                            !.extra = IF c[2] = "movie" THEN "first" ELSE "none"]]

Asks(c) ==
    /\ c[2] \in topic /\ ~LookingUp(c)
    /\ c[2] \notin Catalogued => ~Has(c)                   \* staleTime: Infinity
    /\ c = <<Venue, c[2]>> /\ c[2] \in Cities => venue.state = c[2]
    /\ AnsweredFromCache(c) \/ AsksProvider(c)
    /\ UNCHANGED <<topic, entry, genres, venue>>

\* Mutant of Again: a retry may be retried.
Again_Always(part) == IF part = "first" THEN "second" ELSE "first"
\* retryAfterBackoff: only of the first attempt
Again(part) == IF part = "first" THEN "second" ELSE "failed"

\* Mutant of Fallback: only a fresh entry stands in for the provider.
Fallback_Fresh(c) == entry[c[2]] = "fresh"
\* what the catch clause answers with: getCities looks at what it found when it
\* began, the others look again
Fallback(c) == IF c[2] \in Cities THEN lookup[c].cached ELSE entry[c[2]] # "none"

Fails(c) ==
    lookup' = [lookup EXCEPT ![c] =
        IF Fallback(c) THEN Data ELSE [NoLookup EXCEPT !.answer = "error", !.known = lookup[c].known]]

MainFails(c) ==
    /\ LookingUp(c) /\ lookup[c].main \in {"first", "second"}
    /\ \/ /\ Again(lookup[c].main) # "failed"
          /\ lookup' = [lookup EXCEPT ![c].main = Again(@)]
       \/ Fails(c)                    \* the second attempt, 404, 429, 401 or 403
    /\ UNCHANGED <<topic, entry, genres, venue>>

\* getGenreMap: from memory if fresh
MainAnswers(c) ==
    /\ LookingUp(c) /\ lookup[c].main \in {"first", "second"}
    /\ lookup' = [lookup EXCEPT ![c].main = "answered",
           ![c].extra = IF c[2] # "search" THEN @
                        ELSE IF genres = "fresh" THEN "answered" ELSE "first"]
    /\ UNCHANGED <<topic, entry, genres, venue>>

\* getBrCertification and getGenreMap swallow every error
ExtraEnds(c) ==
    /\ LookingUp(c) /\ lookup[c].extra \in {"first", "second"}
    /\ \/ /\ lookup' = [lookup EXCEPT ![c].extra = "answered"]
          /\ genres' = IF c[2] = "search" THEN "fresh" ELSE genres
       \/ /\ \E part \in {Again(lookup[c].extra), "failed"} :
                 lookup' = [lookup EXCEPT ![c].extra = part]
          /\ UNCHANGED genres
    /\ UNCHANGED <<topic, entry, venue>>

\* the answer is stored and given
StoresAnswer(c) ==
    /\ LookingUp(c) /\ lookup[c].main = "answered"
    /\ lookup[c].extra \notin {"first", "second"}
    /\ entry' = [entry EXCEPT ![c[2]] = "fresh"]
    /\ lookup' = [lookup EXCEPT ![c] = Data]
    /\ UNCHANGED <<topic, genres, venue>>

Progress(c) == MainFails(c) \/ MainAnswers(c) \/ ExtraEnds(c) \/ StoresAnswer(c)

-----------------------------------------------------------------------------
(* Time, the purge job, and a restart. *)

Expires(q) == /\ entry[q] = "fresh"
              /\ entry' = [entry EXCEPT ![q] = "old"]
              /\ UNCHANGED <<topic, genres, lookup, venue>>

GenresExpire == /\ genres = "fresh"
                /\ genres' = "old"
                /\ UNCHANGED <<topic, entry, lookup, venue>>

Forgotten(questions) ==
    lookup' = [c \in LookupIds |-> IF c[2] \in questions THEN [lookup[c] EXCEPT !.known = FALSE]
                               ELSE lookup[c]]

\* purge-catalog-cache
Purge == /\ \E q \in Catalogued : entry[q] = "old"
         /\ entry' = [q \in Questions |-> IF q \in Catalogued /\ entry[q] = "old" THEN "none"
                                          ELSE entry[q]]
         /\ Forgotten({q \in Catalogued : entry[q] = "old"})
         /\ UNCHANGED <<topic, genres, venue>>

\* the memory goes, and what was on its way fails
Restart ==
    /\ entry' = [q \in Questions |-> IF q \in Catalogued THEN entry[q] ELSE "none"]
    /\ genres' = "none"
    /\ lookup' = [c \in LookupIds |->
           IF LookingUp(c) THEN [NoLookup EXCEPT !.answer = "error"]
           ELSE [lookup[c] EXCEPT !.known = @ /\ c[2] \in Catalogued]]
    /\ UNCHANGED <<topic, venue>>

-----------------------------------------------------------------------------
(* The fields of the form. *)

\* onChange of StatePicker: setValue('venueCity', '')
StateChosen(s) == [state |-> s, city |-> "none"]

ChooseState(s) == /\ topic = Cities /\ venue.state # s
                  /\ venue' = StateChosen(s)
                  /\ UNCHANGED <<topic, entry, genres, lookup>>

\* the options are those of the query of the chosen state
ChooseCity(s) == /\ venue.state = s /\ venue.city # s
                 /\ Has(<<Venue, s>>)
                 /\ venue' = [venue EXCEPT !.city = s]
                 /\ UNCHANGED <<topic, entry, genres, lookup>>

\* the page is left or reloaded: its answers go
Leaves(b) == /\ \E q \in Questions : Has(<<b, q>>)
             /\ \A q \in Questions : ~LookingUp(<<b, q>>)
             /\ lookup' = [c \in LookupIds |-> IF c[1] = b THEN NoLookup ELSE lookup[c]]
             /\ venue' = IF b = Venue THEN [state |-> "none", city |-> "none"] ELSE venue
             /\ UNCHANGED <<topic, entry, genres>>

-----------------------------------------------------------------------------
LookupInit == /\ topic \in Topics
              /\ entry = [q \in Questions |-> "none"]
              /\ genres = "none"
              /\ lookup = [c \in LookupIds |-> NoLookup]
              /\ venue = [state |-> "none", city |-> "none"]

LookupNext ==
    \/ \E c \in LookupIds : Asks(c) \/ Progress(c)
    \/ \E q \in Questions : Expires(q)
    \/ GenresExpire \/ Purge \/ Restart
    \/ \E s \in Cities : ChooseState(s) \/ ChooseCity(s)
    \/ \E b \in Clients : Leaves(b)

\* every fetch is cut off after five seconds
LookupFairness == \A c \in LookupIds : WF_lookupVars(Progress(c))

LookupSpec == LookupInit /\ [][LookupNext]_lookupVars /\ LookupFairness

-----------------------------------------------------------------------------
LookupTypeOK == /\ topic \in Topics /\ entry \in [Questions -> CacheState] /\ genres \in CacheState
                /\ lookup \in [LookupIds -> Lookup]
                /\ venue \in [state : Cities \cup {"none"}, city : Cities \cup {"none"}]

\* A question fails only when its answer was not in the cache: what was there when
\* it was asked, however old, answers it unless the purge job or a restart took it
\* away in between (catalog.service.ts:45, locations.service.ts:32, 48).
FailsOnlyWithoutCache == \A c \in LookupIds : lookup[c].answer = "error" => ~lookup[c].known

\* The city of the form is one of its state, although lists of cities are asked for
\* and arrive in any order (VenueStep.tsx:43, CityPicker.tsx:16).
CityIsOfState == venue.city \in {"none", venue.state}

\* Every question is answered or fails: retries end (tmdb.provider.ts:135, 147).
LookupEnds == \A c \in LookupIds : LookingUp(c) ~> ~LookingUp(c)
\* What the forms get from other services is usable: an answer whenever one is
\* cached, and a city of the state that was chosen.
LookupsAreUsable == FailsOnlyWithoutCache /\ CityIsOfState
=============================================================================
