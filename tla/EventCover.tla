----------------------------- MODULE EventCover -----------------------------
(***************************************************************************)
(* The cover of an event: ImageService (upload and remove), the bucket,    *)
(* and EventImageSection of the organizer's pages.  A handler reads the    *)
(* row, stores the object, updates the row, and lets the object it has     *)
(* read go without waiting for it.                                         *)
(*                                                                         *)
(* An object is named by the number of the call that stores it (the key is *)
(* random); Poster is the catalog's, which is not in the bucket.           *)
(***************************************************************************)
EXTENDS Naturals, FiniteSets

CONSTANTS CoverTabs,   \* pages the organizer has open
          MaxCovers    \* bound on the uploads and removals

ASSUME CoverAssumption == MaxCovers \in Nat

VARIABLES cover,      \* customImageKey of the row
          bucket,     \* the objects stored
          leaving,    \* objects whose removal was asked for and not awaited
          call,       \* the requests: page, kind, progress, the key read and the
                      \* key of the answer
          view,       \* a page: the cover it knows, the preview of a file
          mishap      \* history: a request overlapped another page or request,
                      \* or failed half way

coverVars == <<cover, bucket, leaving, call, view, mishap>>

-----------------------------------------------------------------------------
Poster == 0
Keys == 1 .. MaxCovers
Unopened == [open |-> FALSE, shows |-> Poster, preview |-> 0]
CoverCall == [tab : CoverTabs, op : {"upload", "remove"}, read : Keys \cup {Poster},
              at : {"sent", "read", "stored", "answered", "over"}, says : Keys \cup {Poster}]

Calls == DOMAIN call
Pending == {i \in Calls : call[i].at # "over"}
CallAt(i, op, at) == call[i].op = op /\ call[i].at = at
Move(i, at) == call' = [call EXCEPT ![i].at = at]

\* Mutant of LetGo: the object that is replaced goes before the row changes
LetGo_Early(i, at) == IF at = "stored" THEN {call[i].read} \ {Poster} ELSE {}

\* Mutant of LetGo: the placeholder of the poster is let go as well
LetGo_Poster(i, at) == IF at = "answered" THEN {call[i].read} ELSE {}

\* what the handler removes when it comes to a point: the key it has read, once
\* the row is written
LetGo(i, at) == IF at = "answered" THEN {call[i].read} \ {Poster} ELSE {}

-----------------------------------------------------------------------------
(* The pages. *)

\* A page is a tab of the browser.
OpenCover(h) ==
    /\ ~view[h].open /\ \A i \in Pending : call[i].tab # h
    /\ view' = [view EXCEPT ![h] = [open |-> TRUE, shows |-> cover, preview |-> 0]]
    /\ mishap' = (mishap \/ Pending # {})
    /\ UNCHANGED <<cover, bucket, leaving, call>>

\* the tab is closed: the answers still expected come to nothing
LeaveCover(h) ==
    /\ view[h].open
    /\ view' = [view EXCEPT ![h] = Unopened]
    /\ UNCHANGED <<cover, bucket, leaving, call, mishap>>

Calling(h, op) ==
    /\ view[h].open /\ Cardinality(Calls) < MaxCovers
    /\ call' = [i \in 1 .. Cardinality(Calls) + 1 |->
                   IF i \in Calls THEN call[i]
                   ELSE [tab |-> h, op |-> op, read |-> Poster, at |-> "sent", says |-> Poster]]
    /\ mishap' = (mishap \/ Pending # {} \/ \E g \in CoverTabs \ {h} : view[g].open)
    /\ UNCHANGED <<cover, bucket, leaving>>

\* handleFileChange with a file it accepts; the input stays enabled
ChooseFile(h) ==
    /\ Calling(h, "upload")
    /\ view' = [view EXCEPT ![h].preview = Cardinality(Calls) + 1]

\* "Remover capa"
AskPoster(h) ==
    /\ view[h].shows # Poster
    /\ \A i \in Pending : ~(call[i].tab = h /\ call[i].op = "remove")
    /\ Calling(h, "remove")
    /\ UNCHANGED view

-----------------------------------------------------------------------------
(* The handlers. *)

\* both read the row; without a cover of its own there is nothing to remove
ReadsCover(i) ==
    /\ i \in Calls /\ call[i].at = "sent"
    /\ call' = [call EXCEPT ![i].read = cover,
                            ![i].at = IF call[i].op = "remove" /\ cover = Poster
                                      THEN "answered" ELSE "read"]
    /\ UNCHANGED <<cover, bucket, leaving, view, mishap>>

\* storage.upload
Stores(i) ==
    /\ i \in Calls /\ CallAt(i, "upload", "read")
    /\ bucket' = bucket \cup {i}
    /\ leaving' = leaving \cup LetGo(i, "stored")
    /\ Move(i, "stored")
    /\ UNCHANGED <<cover, view, mishap>>

\* repo.update, then the removal of the key read, not awaited
WritesCover(i) ==
    /\ i \in Calls /\ (CallAt(i, "upload", "stored") \/ CallAt(i, "remove", "read"))
    /\ LET key == IF call[i].op = "upload" THEN i ELSE Poster
       IN  /\ cover' = key
           /\ call' = [call EXCEPT ![i].at = "answered", ![i].says = key]
    /\ leaving' = leaving \cup LetGo(i, "answered")
    /\ UNCHANGED <<bucket, view, mishap>>

\* the handler fails or its answer is lost: the page shows an error and keeps
\* the preview
CoverFails(i) ==
    /\ i \in Pending
    /\ Move(i, "over")
    /\ mishap' = TRUE
    /\ UNCHANGED <<cover, bucket, leaving, view>>

\* the bucket removes an object, or refuses to, which is logged
Removed(k) ==
    /\ k \in leaving
    /\ leaving' = leaving \ {k}
    /\ \/ bucket' = bucket \ {k} /\ UNCHANGED mishap
       \/ mishap' = TRUE /\ UNCHANGED bucket
    /\ UNCHANGED <<cover, call, view>>

\* onSuccess: the answer replaces the cached event, an upload drops the preview
Seen(h, i) == [view[h] EXCEPT !.shows = call[i].says,
                              !.preview = IF call[i].op = "upload" THEN 0 ELSE @]

CoverAnswered(i) ==
    /\ i \in Calls /\ call[i].at = "answered"
    /\ Move(i, "over")
    /\ view' = [view EXCEPT ![call[i].tab] = IF @.open THEN Seen(call[i].tab, i) ELSE @]
    /\ UNCHANGED <<cover, bucket, leaving, mishap>>

-----------------------------------------------------------------------------
CoverInit ==
    /\ cover = Poster /\ bucket = {} /\ leaving = {}
    /\ call = [i \in {} |-> Poster]
    /\ view = [h \in CoverTabs |-> Unopened]
    /\ mishap = FALSE

CoverNext ==
    \/ \E h \in CoverTabs : OpenCover(h) \/ LeaveCover(h) \/ ChooseFile(h) \/ AskPoster(h)
    \/ \E i \in Keys : \/ ReadsCover(i) \/ Stores(i) \/ WritesCover(i)
                       \/ CoverFails(i) \/ CoverAnswered(i) \/ Removed(i)

CoverSpec == CoverInit /\ [][CoverNext]_coverVars

-----------------------------------------------------------------------------
CoverTypeOK ==
    /\ cover \in Keys \cup {Poster} /\ bucket \subseteq Keys /\ leaving \subseteq Keys
    /\ Calls = 1 .. Cardinality(Calls) /\ \A i \in Calls : call[i] \in CoverCall
    /\ view \in [CoverTabs -> [open : BOOLEAN, shows : Keys \cup {Poster}, preview : Keys \cup {0}]]
    /\ mishap \in BOOLEAN

\* The event's cover is an object of the bucket, however the requests overlap
\* and whichever of their steps fail (image.service.ts:22-30, 43-49).
CoverIsStored == cover # Poster => cover \in bucket

\* An object of the bucket is the cover, belongs to a request under way or is
\* about to be removed, unless requests overlapped or one failed half way
\* (image.service.ts:22, 26).
NoOrphans ==
    ~mishap => \A k \in bucket : k = cover \/ k \in leaving \/ k \in Pending

\* A page without a request under way shows the cover, not a preview of
\* something else, unless requests or pages overlapped or one failed: after a
\* failed upload the preview stays (EventDetailPage.tsx:140, 142).
PageShowsCover ==
    ~mishap /\ Pending = {} =>
        \A h \in CoverTabs :
            view[h].open /\ (\A g \in CoverTabs \ {h} : ~view[g].open) =>
                view[h].shows = cover /\ view[h].preview = 0
\* The row, the bucket and the pages agree on the cover.
CoverAgrees == CoverIsStored /\ NoOrphans /\ PageShowsCover
=============================================================================
