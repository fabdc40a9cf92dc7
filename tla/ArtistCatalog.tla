--------------------------- MODULE ArtistCatalog ---------------------------
(***************************************************************************)
(* Discovery of an artist's releases (artist_catalog and the artist        *)
(* candidates of src-tauri/src/commands/auto_tag.rs, the catalog tables of *)
(* src-tauri/src/state/sqlite.rs).                                         *)
(*                                                                         *)
(* A walk reads the provider's catalog page by page.  Every page and a     *)
(* checkpoint (the next cursor) are kept in cache.db for a day, so that a  *)
(* walk that stops half-way is resumed by the next one.  A catalog that    *)
(* was read to its end is ranked for the album the walk is made for: the   *)
(* releases with another title or with too few tracks are dropped, and of  *)
(* the rest a bounded window is looked up in detail; details are kept for  *)
(* good.  Each call of the cache is one step: the database is shared by    *)
(* the desktop and the server, so a walk of the other process may come     *)
(* between any two.                                                        *)
(*                                                                         *)
(* A cursor is the offset of a page's first release, and a release is its  *)
(* place in the catalog, which stands for its rank as well: nothing here   *)
(* depends on which of the pending releases the window takes first.  An    *)
(* album is the set of the releases that fit it.  A stale row is no row:   *)
(* no reader tells the two apart.                                          *)
(***************************************************************************)
EXTENDS Naturals, Sequences, FiniteSets, Functions

CONSTANTS
    Walks,        \* the processes that share cache.db, one walk each
    Absent,       \* no row
    Done,         \* no next cursor
    Albums,       \* what a walk may be made for: the releases that fit
    MaxReleases,  \* bound: releases of the artist
    PageLimit,    \* most releases of a page
    DetailWindow, \* uncached details one walk may ask for
    FreshFor,     \* how long a row is fresh, in units of TimePasses
    MaxTroubles   \* bound: faults, expiries, changes and overlapping walks

ASSUME RowsAssumption ==
    /\ Absent \notin [count : Nat, next : Nat \cup {Done}, age : Nat]
    /\ Absent \notin [next : Nat \cup {Done}, age : Nat]
ASSUME DoneAssumption == Done \notin Nat
ASSUME AlbumsAssumption == Albums \subseteq SUBSET Nat
ASSUME LimitsAssumption ==
    /\ MaxReleases \in Nat /\ FreshFor \in Nat /\ MaxTroubles \in Nat
    /\ PageLimit \in Nat \ {0} /\ DetailWindow \in Nat \ {0}

VARIABLES
    provider,   \* "musicbrainz" or "discogs"
    releases,   \* how many releases the provider lists
    pages,      \* artist_release_catalog_pages, by cursor
    checkpoint, \* artist_release_catalog_state
    details,    \* the releases with a row in release_detail_cache
    walk,       \* one walk per process
    troubles,
    stable,     \* history variable: the provider's list has never changed
    disturbed   \* history variable: what was cached may be lost, see WorkIsKept

cache == <<pages, checkpoint, details>>
vars == <<provider, releases, cache, walk, troubles, stable, disturbed>>

Cursors == 0 .. MaxReleases
Page == [count : 0 .. PageLimit, next : Cursors \cup {Done}, age : 0 .. FreshFor]
Checkpoint == [next : Cursors \cup {Done}, age : 0 .. FreshFor]
NoPages == [c \in Cursors |-> Absent]

Steps == {"idle", "look", "resume", "reset", "fetch", "store", "checkpoint",
          "finish", "rank", "details"}
Results == {"none", "failed", "partial", "complete"}

Walk == [at : Steps, fits : SUBSET Nat,
         cursor : Cursors, got : Seq(Nat), page : Page \cup {Absent},
         todo : SUBSET Nat, examined : SUBSET Nat, error : BOOLEAN,
         left : 0 .. DetailWindow, result : Results]

Idle(result) == [at |-> "idle", fits |-> {}, cursor |-> 0, got |-> <<>>,
                 page |-> Absent, todo |-> {}, examined |-> {}, error |-> FALSE,
                 left |-> 0, result |-> result]

Init ==
    /\ provider \in {"musicbrainz", "discogs"}
    /\ releases \in Cursors
    /\ pages = NoPages /\ checkpoint = Absent /\ details = {}
    /\ walk = [w \in Walks |-> Idle("none")]
    /\ troubles = 0 /\ stable = TRUE /\ disturbed = FALSE

-----------------------------------------------------------------------------
(* Helpers *)

Walking(w) == walk[w].at # "idle"
Overlapped(w) == \E v \in Walks \ {w} : Walking(v)
Trouble == troubles < MaxTroubles /\ troubles' = troubles + 1
NoTrouble == UNCHANGED troubles

Go(w, step) == walk' = [walk EXCEPT ![w].at = step]
Fail(w) == walk' = [walk EXCEPT ![w] = Idle("failed")]

\* The releases of a page at a cursor.
Listed(c, count) == [i \in 1 .. count |-> c + i - 1]

\* releases.extend, then the next cursor or what follows the last page.
Extended(w, page, last) ==
    [walk[w] EXCEPT !.got = @ \o Listed(walk[w].cursor, page.count),
                    !.cursor = IF page.next = Done THEN @ ELSE page.next,
                    !.at = IF page.next = Done THEN last ELSE "look",
                    !.page = Absent]

\* rank_releases_for_request: the releases of the catalog that fit.
Ranked(w) == Range(walk[w].got) \cap walk[w].fits

\* Mutant: cached details fill the window as well.
PendingOrCached(w) == Ranked(w)

\* The window of details: every cached one, and the first of the others.
Pending(w) == Ranked(w) \ details
Unexamined(w) ==
    {r \in Pending(w) : Cardinality({s \in Pending(w) : s < r}) >= DetailWindow}

\* The ranked window, and whether a limit error goes with it.
Windowed(w) ==
    [walk[w] EXCEPT !.todo = Ranked(w) \ Unexamined(w),
                    !.error = Unexamined(w) # {}]

-----------------------------------------------------------------------------
(* artist_catalog *)

\* Another process' walk makes this one an overlapping one.
Start(w) ==
    /\ ~Walking(w)
    /\ IF Overlapped(w) THEN Trouble ELSE NoTrouble
    /\ \E album \in Albums :
          walk' = [walk EXCEPT ![w] = [Idle("none") EXCEPT !.at = "look", !.fits = album]]
    /\ disturbed' = (disturbed \/ Overlapped(w))
    /\ UNCHANGED <<provider, releases, cache, stable>>

\* The loop head: a fresh page is taken from the cache and its next cursor
\* followed; without one, the checkpoint decides.
Look(w) ==
    /\ walk[w].at = "look"
    /\ LET page == pages[walk[w].cursor]
       IN  IF page = Absent
           THEN Go(w, "resume")
           ELSE walk' = [walk EXCEPT ![w] = Extended(w, page, "finish")]
    /\ NoTrouble
    /\ UNCHANGED <<provider, releases, cache, stable, disturbed>>

\* A read that fails reads as no row, of the page or of the checkpoint.
ReadFails(w) ==
    /\ \/ walk[w].at = "look" /\ Go(w, "resume")
       \/ walk[w].at = "resume" /\ Go(w, "reset")
    /\ Trouble
    /\ disturbed' = TRUE
    /\ UNCHANGED <<provider, releases, cache, stable>>

\* Mutant: the checkpoint must lie behind the missing page.
ResumesBehind(w) == checkpoint # Absent /\ checkpoint.next # Done
                                        /\ checkpoint.next < walk[w].cursor

\* resumes_current_generation: the checkpoint names the missing page.
ResumesHere(w) == checkpoint # Absent /\ checkpoint.next = walk[w].cursor

Resume(w) ==
    /\ walk[w].at = "resume"
    /\ Go(w, IF ResumesHere(w) THEN "fetch" ELSE "reset")
    /\ NoTrouble
    /\ UNCHANGED <<provider, releases, cache, stable, disturbed>>

\* Mutant: the releases read so far are kept at a restart.
RestartedWithRest(w) ==
    IF walk[w].cursor = 0
    THEN [walk[w] EXCEPT !.at = "fetch"]
    ELSE [walk[w] EXCEPT !.at = "look", !.cursor = 0]

\* What a reset leaves of the walk: nothing it read before.
Restarted(w) ==
    IF walk[w].cursor = 0
    THEN [walk[w] EXCEPT !.at = "fetch"]
    ELSE [walk[w] EXCEPT !.at = "look", !.cursor = 0, !.got = <<>>]

\* clear_artist_release_catalog: both tables in one transaction.
Reset(w) ==
    /\ walk[w].at = "reset"
    /\ \/ /\ pages' = NoPages /\ checkpoint' = Absent
          /\ walk' = [walk EXCEPT ![w] = Restarted(w)]
          /\ disturbed' = Overlapped(w)
          /\ NoTrouble
       \/ /\ Fail(w)
          /\ Trouble
          /\ UNCHANGED <<pages, checkpoint, disturbed>>
    /\ UNCHANGED <<provider, releases, details, stable>>

\* release_page: at most PageLimit releases, and the next offset until the
\* list ends.  An offset beyond the end answers an empty last page.
PagesAt(c) ==
    IF c >= releases
    THEN {[count |-> 0, next |-> Done, age |-> 0]}
    ELSE {[count |-> n, next |-> IF c + n = releases THEN Done ELSE c + n, age |-> 0] :
            n \in {m \in 1 .. PageLimit : c + m <= releases}}

Fetch(w) ==
    /\ walk[w].at = "fetch"
    /\ \E page \in PagesAt(walk[w].cursor) :
          walk' = [walk EXCEPT ![w].page = page, ![w].at = "store"]
    /\ NoTrouble
    /\ UNCHANGED <<provider, releases, cache, stable, disturbed>>

\* The request failed, was deferred or cancelled, or the page was refused.
FetchFails(w) ==
    /\ walk[w].at = "fetch"
    /\ Fail(w)
    /\ Trouble
    /\ UNCHANGED <<provider, releases, cache, stable, disturbed>>

StorePage(w) ==
    /\ walk[w].at = "store"
    /\ \/ /\ pages' = [pages EXCEPT ![walk[w].cursor] = walk[w].page]
          /\ Go(w, "checkpoint")
          /\ NoTrouble
       \/ /\ Fail(w)
          /\ Trouble
          /\ UNCHANGED pages
    /\ UNCHANGED <<provider, releases, checkpoint, details, stable, disturbed>>

\* A page without its checkpoint is not resumed from.
StoreCheckpoint(w) ==
    /\ walk[w].at = "checkpoint"
    /\ \/ /\ checkpoint' = [next |-> walk[w].page.next, age |-> 0]
          /\ walk' = [walk EXCEPT ![w] = Extended(w, walk[w].page, "rank")]
          /\ NoTrouble
          /\ UNCHANGED disturbed
       \/ /\ Fail(w)
          /\ Trouble
          /\ disturbed' = TRUE
          /\ UNCHANGED checkpoint
    /\ UNCHANGED <<provider, releases, pages, details, stable>>

\* The whole catalog came from the cache: only the completion is written.
Finish(w) ==
    /\ walk[w].at = "finish"
    /\ \/ checkpoint' = [next |-> Done, age |-> 0] /\ Go(w, "rank") /\ NoTrouble
       \/ Fail(w) /\ Trouble /\ UNCHANGED checkpoint
    /\ UNCHANGED <<provider, releases, pages, details, stable, disturbed>>

-----------------------------------------------------------------------------
(* musicbrainz_artist_candidates, discogs_artist_candidates *)

\* A Discogs run may have spent an attempt on an id it knew already.
Rank(w) ==
    /\ walk[w].at = "rank"
    /\ \E spent \in IF provider = "discogs" THEN 0 .. 1 ELSE {0} :
          walk' = [walk EXCEPT ![w] = [Windowed(w) EXCEPT !.at = "details",
                                                          !.left = DetailWindow - spent]]
    /\ NoTrouble
    /\ UNCHANGED <<provider, releases, cache, stable, disturbed>>

\* The releases are taken in their order.
First(w, r) == r \in walk[w].todo /\ \A s \in walk[w].todo : r <= s

Examined(w, r) == [walk[w] EXCEPT !.todo = @ \ {r}, !.examined = @ \cup {r}]

DetailCached(w, r) ==
    /\ walk[w].at = "details" /\ First(w, r)
    /\ r \in details
    /\ walk' = [walk EXCEPT ![w] = Examined(w, r)]
    /\ NoTrouble
    /\ UNCHANGED <<provider, releases, cache, stable, disturbed>>

\* A detail that cannot be cached is used all the same.
DetailAnswered(w, r) ==
    /\ walk[w].at = "details" /\ First(w, r)
    /\ r \notin details /\ walk[w].left > 0
    /\ walk' = [walk EXCEPT ![w] = [Examined(w, r) EXCEPT !.left = @ - 1]]
    /\ \/ details' = details \cup {r} /\ NoTrouble
       \/ details' = details /\ Trouble
    /\ UNCHANGED <<provider, releases, pages, checkpoint, stable, disturbed>>

\* Mutant: the error of a detail is forgotten.
AfterFailureForgotten(w, r) == [walk[w] EXCEPT !.todo = @ \ {r}, !.left = @ - 1]

\* MusicBrainz keeps the error and goes on; Discogs gives up.
AfterFailure(w, r) ==
    IF provider = "musicbrainz"
    THEN [walk[w] EXCEPT !.todo = @ \ {r}, !.error = TRUE, !.left = @ - 1]
    ELSE Idle("failed")

DetailFails(w, r) ==
    /\ walk[w].at = "details" /\ First(w, r)
    /\ r \notin details
    /\ IF walk[w].left > 0
       THEN Trouble /\ walk' = [walk EXCEPT ![w] = AfterFailure(w, r)]
       ELSE NoTrouble /\ Fail(w)
    /\ UNCHANGED <<provider, releases, cache, stable, disturbed>>

\* Without a candidate the error is the answer; with one it goes beside it.
Answer(w) ==
    /\ walk[w].at = "details" /\ walk[w].todo = {}
    /\ walk' = [walk EXCEPT ![w] =
                   [Idle(CASE ~walk[w].error -> "complete"
                           [] walk[w].error /\ walk[w].examined = {} -> "failed"
                           [] OTHER -> "partial")
                    EXCEPT !.fits = walk[w].fits, !.got = walk[w].got,
                           !.examined = walk[w].examined]]
    /\ NoTrouble
    /\ UNCHANGED <<provider, releases, cache, stable, disturbed>>

-----------------------------------------------------------------------------
(* What happens around the walks *)

\* check_cancelled: at the loop head, and before every Discogs detail.
Cancel(w) ==
    /\ \/ walk[w].at = "look"
       \/ walk[w].at = "details" /\ provider = "discogs"
    /\ Fail(w)
    /\ Trouble
    /\ UNCHANGED <<provider, releases, cache, stable, disturbed>>

\* The process dies.  Only a page whose checkpoint is missing is lost.
Crash(w) ==
    /\ Walking(w)
    /\ walk' = [walk EXCEPT ![w] = Idle("none")]
    /\ Trouble
    /\ disturbed' = (disturbed \/ walk[w].at = "checkpoint")
    /\ UNCHANGED <<provider, releases, cache, stable>>

\* The provider's list gains or loses a release.
ListChanges ==
    /\ releases' \in {releases + 1, releases - 1} \cap Cursors
    /\ stable' = FALSE
    /\ Trouble
    /\ UNCHANGED <<provider, cache, walk, disturbed>>

Aged(row) == IF row = Absent \/ row.age = FreshFor
             THEN Absent ELSE [row EXCEPT !.age = @ + 1]

\* is_fresh: rows that are too old are rows no longer.
TimePasses ==
    /\ pages # NoPages \/ checkpoint # Absent
    /\ pages' = [c \in Cursors |-> Aged(pages[c])]
    /\ checkpoint' = Aged(checkpoint)
    /\ disturbed' = TRUE
    /\ Trouble
    /\ UNCHANGED <<provider, releases, details, walk, stable>>

\* The steps of a walk that meets no fault.
Detail(w) == \E r \in walk[w].todo : \/ DetailCached(w, r)
                                     \/ DetailAnswered(w, r)
                                     \/ DetailFails(w, r)
Step(w) ==
    \/ Look(w) \/ Resume(w) \/ Reset(w) \/ Fetch(w) \/ StorePage(w)
    \/ StoreCheckpoint(w) \/ Finish(w) \/ Rank(w) \/ Detail(w) \/ Answer(w)

Next ==
    \/ \E w \in Walks : \/ Start(w) \/ Step(w)
                        \/ ReadFails(w) \/ FetchFails(w) \/ Cancel(w) \/ Crash(w)
    \/ ListChanges
    \/ TimePasses

\* A walk that runs goes on; nothing makes anyone start one.
Fairness == \A w \in Walks : WF_vars(Step(w))
Spec == Init /\ [][Next]_vars /\ Fairness

-----------------------------------------------------------------------------
(* Properties *)

TypeOK ==
    /\ provider \in {"musicbrainz", "discogs"}
    /\ releases \in Cursors
    /\ pages \in [Cursors -> Page \cup {Absent}]
    /\ checkpoint \in Checkpoint \cup {Absent}
    /\ details \in SUBSET Nat
    /\ walk \in [Walks -> Walk]
    /\ troubles \in 0 .. MaxTroubles
    /\ stable \in BOOLEAN /\ disturbed \in BOOLEAN

HasCatalog(w) == walk[w].at \in {"rank", "details"} \/ walk[w].result \in {"partial", "complete"}

\* The releases a finished catalog lists follow each other without a gap or a
\* repetition, whatever was resumed, restarted or written by another process
\* on the way; and if the provider's list never changed they are all of it.
CatalogIsWhole ==
    \A w \in Walks : HasCatalog(w) =>
        /\ \A i \in DOMAIN walk[w].got : walk[w].got[i] = i - 1
        /\ stable => Len(walk[w].got) = releases

\* Pages in the cache are thrown away only after one expired, a read or a
\* checkpoint failed, a process died between a page and its checkpoint, or
\* two walks overlapped: a cancelled, failed or deferred walk loses nothing.
\* docs/auto-tag-evidence.md:13: "Existing catalog/detail caches preserve
\* completed discovery work".
WorkIsKept == [][pages # NoPages /\ pages' = NoPages => disturbed \/ disturbed']_vars

\* An answer without an error has looked at every release of its catalog that
\* fits the album, and, if the provider's list never changed, at every one the
\* provider has: what a limit, a fault, a refusal or a catalog resumed from
\* another walk's pages left out is never taken for a miss.  (A release that
\* the ranking drops for its title or its tracks is not looked at.)
NoGuessedMiss ==
    \A w \in Walks : walk[w].result = "complete" =>
        /\ Ranked(w) \subseteq walk[w].examined
        /\ stable => {r \in walk[w].fits : r < releases} \subseteq walk[w].examined

\* However many releases fit, walks that are started again and again get
\* through those that fit the album of one of them, as a cached detail leaves
\* the window to the others; provided the two processes do not walk at the same time for ever,
\* for then each may go on throwing away what the other one has read.
DiscoveryCompletes ==
    /\ <>[](\A w \in Walks : Walking(w) => ~Overlapped(w))
    /\ []<>(\E w \in Walks : Walking(w))
    => []<>(\E w \in Walks : walk[w].result = "complete")

=============================================================================
