------------------------- MODULE ArtistCatalogProofs -------------------------
(***************************************************************************)
(* What discovery keeps for any number of processes, releases and faults,  *)
(* and any sizes of a page and a window: the types, the order and the      *)
(* completeness of a catalog, what an answer without an error says, and    *)
(* that cached pages are not thrown away without a reason.  No fairness is *)
(* assumed.                                                                *)
(***************************************************************************)
EXTENDS ArtistCatalog, SequenceTheorems, TLAPS

Reading == {"look", "resume", "reset", "fetch", "store", "checkpoint"}

\* A walk that is about to store a page has one.
PageInHand ==
    \A w \in Walks : walk[w].at \in {"store", "checkpoint"} => walk[w].page \in Page

\* A page says which releases follow it, up to the end of an unchanged list.
Follows(page, c) ==
    IF page.next = Done
    THEN stable => c + page.count = releases
    ELSE page.next = c + page.count /\ (stable => page.next <= releases)

CachedPagesFollow == \A c \in Cursors : pages[c] # Absent => Follows(pages[c], c)

\* What a walk has read so far ends where it goes on.
InOrder(r) ==
    /\ \A i \in DOMAIN r.got : r.got[i] = i - 1
    /\ r.at \in Reading => Len(r.got) = r.cursor /\ (stable => r.cursor <= releases)
    /\ r.at \in {"store", "checkpoint"} => Follows(r.page, r.cursor)
    /\ r.at \in {"finish", "rank", "details"} \/ r.result \in {"partial", "complete"} =>
          (stable => Len(r.got) = releases)
    /\ r.at # "idle" => r.result = "none"

ReadsInOrder == \A w \in Walks : InOrder(walk[w])

Typed == TypeOK /\ PageInHand
ListInv == Typed /\ CachedPagesFollow /\ ReadsInOrder

\* Without an error, every ranked release is examined or still to be.
ExaminedOrToDo ==
    \A w \in Walks : walk[w].at = "details" /\ ~walk[w].error =>
                        Ranked(w) \subseteq walk[w].todo \cup walk[w].examined

RankedExamined ==
    \A w \in Walks : walk[w].result = "complete" => Ranked(w) \subseteq walk[w].examined

AnswerInv == RankedExamined /\ ExaminedOrToDo

Present(c) == c \in Cursors /\ pages[c] # Absent
Marked(c) == checkpoint # Absent /\ checkpoint.next = c

\* The last page of what is cached: it ends the list or has no successor.
LastPage(c) == Present(c) /\ (pages[c].next = Done \/ ~Present(pages[c].next))

\* The cached pages are one chain from the first release on.
OneChain ==
    /\ \A c, d \in Cursors : LastPage(c) /\ LastPage(d) => c = d
    /\ IF pages = NoPages THEN checkpoint = Absent ELSE Present(0)

\* The checkpoint continues it.
Continued == \A c \in Cursors : LastPage(c) => Marked(pages[c].next)

\* A walk is at a page of the chain or at the checkpoint that continues it.
OnChain(r) ==
    /\ r.at = "look" => \/ pages = NoPages /\ r.cursor = 0
                        \/ Present(r.cursor) \/ Marked(r.cursor)
    /\ r.at = "resume" =>
          /\ ~Present(r.cursor)
          /\ (pages = NoPages /\ r.cursor = 0) \/ Marked(r.cursor)
    /\ r.at = "reset" => pages = NoPages
    /\ r.at \in {"fetch", "store"} => \/ pages = NoPages /\ r.cursor = 0
                                      \/ Marked(r.cursor) /\ ~Present(r.cursor)
    /\ r.at = "checkpoint" =>
          /\ Present(r.cursor) /\ pages[r.cursor] = r.page
          /\ \A c \in Cursors : LastPage(c) => c = r.cursor
    /\ r.at = "finish" => \E c \in Cursors : Present(c) /\ pages[c].next = Done

Alone == \A v, w \in Walks : Walking(v) /\ Walking(w) => v = w

\* As long as nothing disturbed the cache, one walk at a time follows one
\* chain of pages, which the checkpoint continues, unless the walk is just
\* writing it.
ChainInv ==
    ~disturbed =>
       /\ Alone /\ OneChain
       /\ Continued \/ \E w \in Walks : walk[w].at = "checkpoint"
       /\ \A w \in Walks : OnChain(walk[w])

----------------------------------------------------------------------------
(* Types *)

LEMMA RowsArePresent == Absent \notin Page /\ Absent \notin Checkpoint
  BY RowsAssumption, LimitsAssumption DEF Page, Checkpoint, Cursors

LEMMA IdleIsWalk == \A result \in Results : Idle(result) \in Walk
  BY LimitsAssumption DEF Idle, Walk, Steps, Results, Cursors

\* A step of a walk changes that walk only.
LEMMA WalkChanges ==
    ASSUME TypeOK, NEW w \in Walks, NEW r \in Walk, walk' = [walk EXCEPT ![w] = r]
    PROVE  /\ walk' \in [Walks -> Walk]
           /\ walk'[w] = r
           /\ \A v \in Walks : v # w => walk'[v] = walk[v]
  BY DEF TypeOK

\* The releases of a page follow its cursor.
LEMMA ListedFollow ==
    ASSUME NEW c \in Nat, NEW n \in Nat
    PROVE  /\ Listed(c, n) \in Seq(Nat) /\ Len(Listed(c, n)) = n
           /\ \A i \in 1 .. n : Listed(c, n)[i] = c + i - 1
<1>1. \A i \in 1 .. n : c + i - 1 \in Nat
  OBVIOUS
<1> QED
  BY <1>1 DEF Listed

LEMMA ExtendedIsWalk ==
    ASSUME TypeOK, NEW w \in Walks, NEW page \in Page, NEW last \in {"finish", "rank"}
    PROVE  Extended(w, page, last) \in Walk
<1>1. walk[w] \in Walk
  BY DEF TypeOK
<1>2. walk[w].cursor \in Nat /\ page.count \in Nat
  BY <1>1, LimitsAssumption DEF Walk, Page, Cursors
<1>3. walk[w].got \o Listed(walk[w].cursor, page.count) \in Seq(Nat)
  BY <1>1, <1>2, ListedFollow, ConcatProperties DEF Walk
<1>4. page.next = Done \/ page.next \in Cursors
  BY DEF Page
<1> QED
  BY <1>1, <1>3, <1>4 DEF Extended, Walk, Steps

\* Whatever the provider answers is a page.
LEMMA AnswersArePages ==
    ASSUME TypeOK, NEW c \in Cursors PROVE PagesAt(c) \subseteq Page
<1> USE LimitsAssumption
<1>1. c \in Nat /\ releases \in Nat /\ releases <= MaxReleases
  BY DEF TypeOK, Cursors
<1>2. CASE c >= releases
  BY <1>2 DEF PagesAt, Page, Cursors
<1>3. CASE ~(c >= releases)
  <2>1. ASSUME NEW n \in 1 .. PageLimit, c + n <= releases
        PROVE [count |-> n, next |-> IF c + n = releases THEN Done ELSE c + n, age |-> 0] \in Page
    BY <1>1, <2>1 DEF Page, Cursors
  <2> QED
    BY <1>3, <2>1 DEF PagesAt
<1> QED
  BY <1>2, <1>3

\* A row grows older within its type or is gone.
LEMMA AgedRows ==
    /\ \A row \in Page \cup {Absent} : Aged(row) \in Page \cup {Absent}
    /\ \A row \in Checkpoint \cup {Absent} : Aged(row) \in Checkpoint \cup {Absent}
  BY LimitsAssumption DEF Aged, Page, Checkpoint

LEMMA WindowedIsWalk ==
    ASSUME TypeOK, NEW w \in Walks PROVE Windowed(w) \in Walk
<1>1. walk[w] \in Walk
  BY DEF TypeOK
<1>2. Ranked(w) \subseteq Nat
  BY <1>1 DEF Ranked, Walk
<1> QED
  BY <1>1, <1>2 DEF Windowed, Walk

\* What a step does to the fields of its walk.
LEMMA GoFields ==
    ASSUME TypeOK, NEW w \in Walks, NEW step, Go(w, step)
    PROVE  /\ walk'[w].at = step
           /\ walk'[w].cursor = walk[w].cursor
           /\ walk'[w].got = walk[w].got
           /\ walk'[w].page = walk[w].page
           /\ walk'[w].result = walk[w].result
           /\ walk'[w].todo = walk[w].todo
           /\ walk'[w].examined = walk[w].examined
  BY DEF Go, TypeOK, Walk

LEMMA IdleFields ==
    \A result : /\ Idle(result).at = "idle"
                /\ Idle(result).cursor = 0
                /\ Idle(result).got = <<>>
                /\ Idle(result).result = result
                /\ Idle(result).examined = {}
  BY DEF Idle

LEMMA FailFields ==
    ASSUME TypeOK, NEW w \in Walks, Fail(w)
    PROVE  walk'[w].at = "idle" /\ walk'[w].got = <<>> /\ walk'[w].result = "failed"
<1>1. walk'[w] = Idle("failed")
  BY DEF Fail, TypeOK
<1> QED
  BY <1>1, IdleFields

LEMMA ExtendedFields ==
    ASSUME TypeOK, NEW w \in Walks, NEW page \in Page, NEW last \in {"finish", "rank"}
    PROVE  /\ Extended(w, page, last).at = IF page.next = Done THEN last ELSE "look"
           /\ Extended(w, page, last).cursor =
                 IF page.next = Done THEN walk[w].cursor ELSE page.next
           /\ Extended(w, page, last).got = walk[w].got \o Listed(walk[w].cursor, page.count)
           /\ Extended(w, page, last).result = walk[w].result
  BY DEF Extended, TypeOK, Walk

LEMMA RestartedFields ==
    ASSUME TypeOK, NEW w \in Walks
    PROVE  /\ Restarted(w).at = IF walk[w].cursor = 0 THEN "fetch" ELSE "look"
           /\ Restarted(w).cursor = 0
           /\ Restarted(w).got = IF walk[w].cursor = 0 THEN walk[w].got ELSE <<>>
           /\ Restarted(w).result = walk[w].result
<1>1. walk[w] \in Walk
  BY DEF TypeOK
<1>2. CASE walk[w].cursor = 0
  BY <1>1, <1>2 DEF Restarted, Walk
<1>3. CASE walk[w].cursor # 0
  BY <1>1, <1>3 DEF Restarted, Walk
<1> QED
  BY <1>2, <1>3

LEMMA WindowedFields ==
    ASSUME TypeOK, NEW w \in Walks
    PROVE  /\ Windowed(w).got = walk[w].got
           /\ Windowed(w).result = walk[w].result
           /\ Windowed(w).examined = walk[w].examined
           /\ Windowed(w).fits = walk[w].fits
           /\ Windowed(w).todo = Ranked(w) \ Unexamined(w)
           /\ Windowed(w).error <=> Unexamined(w) # {}
<1>1. walk[w] \in Walk
  BY DEF TypeOK
<1>2. /\ Windowed(w).got = walk[w].got
      /\ Windowed(w).result = walk[w].result
      /\ Windowed(w).examined = walk[w].examined
      /\ Windowed(w).fits = walk[w].fits
      /\ Windowed(w).todo = Ranked(w) \ Unexamined(w)
  BY <1>1 DEF Windowed, Walk
<1>3. Windowed(w).error = (Unexamined(w) # {})
  BY <1>1 DEF Windowed, Walk
<1> QED
  BY <1>2, <1>3

LEMMA StartFields ==
    ASSUME TypeOK, NEW w \in Walks, Start(w)
    PROVE  /\ walk'[w].at = "look" /\ walk'[w].cursor = 0
           /\ walk'[w].got = <<>> /\ walk'[w].result = "none"
<1>1. PICK album \in Albums :
          walk' = [walk EXCEPT ![w] = [Idle("none") EXCEPT !.at = "look", !.fits = album]]
  BY DEF Start
<1>2. walk'[w] = [Idle("none") EXCEPT !.at = "look", !.fits = album]
  BY <1>1 DEF TypeOK
<1> QED
  BY <1>2 DEF Idle

LEMMA FetchFields ==
    ASSUME TypeOK, NEW w \in Walks, Fetch(w)
    PROVE  \E page \in PagesAt(walk[w].cursor) :
               /\ walk'[w].at = "store" /\ walk'[w].page = page
               /\ walk'[w].cursor = walk[w].cursor
               /\ walk'[w].got = walk[w].got /\ walk'[w].result = walk[w].result
<1>1. PICK page \in PagesAt(walk[w].cursor) :
          walk' = [walk EXCEPT ![w].page = page, ![w].at = "store"]
  BY DEF Fetch
<1>2. walk[w] \in Walk /\ walk'[w] = [walk[w] EXCEPT !.page = page, !.at = "store"]
  BY <1>1 DEF TypeOK
<1>3. /\ walk'[w].at = "store" /\ walk'[w].page = page
      /\ walk'[w].cursor = walk[w].cursor
      /\ walk'[w].got = walk[w].got /\ walk'[w].result = walk[w].result
  BY <1>2 DEF Walk
<1> QED
  BY <1>1, <1>3

LEMMA RankFields ==
    ASSUME TypeOK, NEW w \in Walks, Rank(w)
    PROVE  /\ walk'[w].at = "details"
           /\ walk'[w].got = walk[w].got
           /\ walk'[w].result = walk[w].result
           /\ walk'[w].examined = walk[w].examined
           /\ walk'[w].fits = walk[w].fits
           /\ walk'[w].todo = Ranked(w) \ Unexamined(w)
           /\ walk'[w].error <=> Unexamined(w) # {}
<1>1. PICK spent \in IF provider = "discogs" THEN 0 .. 1 ELSE {0} :
          walk' = [walk EXCEPT ![w] = [Windowed(w) EXCEPT !.at = "details",
                                                          !.left = DetailWindow - spent]]
  BY DEF Rank
<1>2. walk'[w] = [Windowed(w) EXCEPT !.at = "details", !.left = DetailWindow - spent]
  BY <1>1 DEF TypeOK
<1>3. Windowed(w) \in Walk
  BY WindowedIsWalk
<1> QED
  BY <1>2, <1>3, WindowedFields DEF Walk

LEMMA DetailFields ==
    ASSUME TypeOK, NEW w \in Walks, Detail(w)
    PROVE  \/ walk'[w].at = "idle" /\ walk'[w].got = <<>> /\ walk'[w].result = "failed"
           \/ /\ walk[w].at = "details" /\ walk'[w].at = "details"
              /\ walk'[w].got = walk[w].got /\ walk'[w].result = walk[w].result
              /\ walk'[w].fits = walk[w].fits
              /\ \/ walk'[w].error
                 \/ /\ walk[w].error => walk'[w].error
                    /\ walk'[w].todo \cup walk'[w].examined = walk[w].todo \cup walk[w].examined
<1>0. walk[w] \in Walk /\ walk \in [Walks -> Walk]
  BY DEF TypeOK
<1>1. PICK r \in walk[w].todo : DetailCached(w, r) \/ DetailAnswered(w, r) \/ DetailFails(w, r)
  BY DEF Detail
<1>2. /\ Examined(w, r) \in Walk
      /\ Examined(w, r).at = walk[w].at
      /\ Examined(w, r).got = walk[w].got
      /\ Examined(w, r).result = walk[w].result
      /\ Examined(w, r).fits = walk[w].fits
      /\ Examined(w, r).error = walk[w].error
      /\ Examined(w, r).todo = walk[w].todo \ {r}
      /\ Examined(w, r).examined = walk[w].examined \cup {r}
  BY <1>0, <1>1 DEF Examined, Walk
<1>3. CASE DetailCached(w, r)
  <2>1. walk'[w] = Examined(w, r) /\ walk[w].at = "details"
    BY <1>0, <1>3 DEF DetailCached
  <2> QED
    BY <1>1, <1>2, <2>1
<1>4. CASE DetailAnswered(w, r)
  <2>1. walk'[w] = [Examined(w, r) EXCEPT !.left = @ - 1] /\ walk[w].at = "details"
    BY <1>0, <1>4 DEF DetailAnswered
  <2>2. /\ walk'[w].at = Examined(w, r).at
        /\ walk'[w].got = Examined(w, r).got
        /\ walk'[w].result = Examined(w, r).result
        /\ walk'[w].fits = Examined(w, r).fits
        /\ walk'[w].error = Examined(w, r).error
        /\ walk'[w].todo = Examined(w, r).todo
        /\ walk'[w].examined = Examined(w, r).examined
    BY <1>2, <2>1 DEF Walk
  <2> QED
    BY <1>1, <1>2, <2>1, <2>2
<1>5. CASE DetailFails(w, r)
  <2>1. CASE Fail(w)
    BY <2>1, FailFields
  <2>2. CASE walk' = [walk EXCEPT ![w] = AfterFailure(w, r)]
    <3>1. walk'[w] = AfterFailure(w, r) /\ walk[w].at = "details"
      BY <1>0, <1>5, <2>2 DEF DetailFails
    <3>2. CASE provider = "musicbrainz"
      <4>1. walk'[w] = [walk[w] EXCEPT !.todo = @ \ {r}, !.error = TRUE, !.left = @ - 1]
        BY <3>1, <3>2 DEF AfterFailure
      <4>2. /\ walk'[w].at = "details" /\ walk'[w].got = walk[w].got
            /\ walk'[w].result = walk[w].result /\ walk'[w].fits = walk[w].fits
        BY <1>0, <3>1, <4>1 DEF Walk
      <4>3. walk'[w].error
        BY <1>0, <4>1 DEF Walk
      <4> QED
        BY <3>1, <4>2, <4>3
    <3>3. CASE provider # "musicbrainz"
      BY <3>1, <3>3, IdleFields DEF AfterFailure
    <3> QED
      BY <3>2, <3>3
  <2> QED
    BY <1>5, <2>1, <2>2 DEF DetailFails
<1> QED
  BY <1>1, <1>3, <1>4, <1>5

LEMMA AnswerFields ==
    ASSUME TypeOK, NEW w \in Walks, Answer(w)
    PROVE  /\ walk[w].at = "details" /\ walk[w].todo = {}
           /\ walk'[w].at = "idle"
           /\ walk'[w].got = walk[w].got
           /\ walk'[w].fits = walk[w].fits
           /\ walk'[w].examined = walk[w].examined
           /\ walk'[w].result = "complete" => ~walk[w].error
<1>0. walk[w] \in Walk /\ walk \in [Walks -> Walk]
  BY DEF TypeOK
<1> DEFINE result == CASE ~walk[w].error -> "complete"
                       [] walk[w].error /\ walk[w].examined = {} -> "failed"
                       [] OTHER -> "partial"
<1>1. walk'[w] = [Idle(result) EXCEPT !.fits = walk[w].fits, !.got = walk[w].got,
                               !.examined = walk[w].examined]
  BY <1>0 DEF Answer
<1>2. result = "complete" => ~walk[w].error
  OBVIOUS
<1>3. walk[w].at = "details" /\ walk[w].todo = {}
  BY DEF Answer
<1> HIDE DEF result
<1>4. /\ walk'[w].at = "idle" /\ walk'[w].got = walk[w].got
      /\ walk'[w].fits = walk[w].fits
      /\ walk'[w].examined = walk[w].examined /\ walk'[w].result = result
  BY <1>1 DEF Idle
<1> QED
  BY <1>2, <1>3, <1>4

LEMMA TypesStart == Init => TypeOK
<1> SUFFICES ASSUME Init PROVE TypeOK
  OBVIOUS
<1>1. Idle("none") \in Walk
  BY IdleIsWalk DEF Results
<1>2. walk \in [Walks -> Walk]
  BY <1>1 DEF Init
<1>3. pages \in [Cursors -> Page \cup {Absent}]
  BY DEF Init, NoPages
<1>4. releases \in Cursors /\ provider \in {"musicbrainz", "discogs"}
  BY DEF Init
<1>5. checkpoint = Absent /\ details = {} /\ troubles = 0 /\ stable = TRUE /\ disturbed = FALSE
  BY DEF Init
<1>6. 0 \in 0 .. MaxTroubles
  BY LimitsAssumption
<1> QED
  BY <1>2, <1>3, <1>4, <1>5, <1>6 DEF TypeOK

\* The steps of one walk, faults included.
StepOf(w) == Start(w) \/ Step(w) \/ ReadFails(w) \/ FetchFails(w) \/ Cancel(w) \/ Crash(w)

\* A walk keeps its type at every step.
LEMMA WalksTyped ==
    ASSUME TypeOK, PageInHand, NEW w \in Walks, StepOf(w)
    PROVE  \E r \in Walk : walk' = [walk EXCEPT ![w] = r]
<1> USE LimitsAssumption DEF Results
<1>0. walk[w] \in Walk
  BY DEF TypeOK
<1>1. \A step \in Steps : Go(w, step) => \E r \in Walk : walk' = [walk EXCEPT ![w] = r]
  <2> SUFFICES ASSUME NEW step \in Steps, Go(w, step)
               PROVE \E r \in Walk : walk' = [walk EXCEPT ![w] = r]
    OBVIOUS
  <2>1. [walk[w] EXCEPT !.at = step] \in Walk
    BY <1>0 DEF Walk
  <2>2. walk' = [walk EXCEPT ![w] = [walk[w] EXCEPT !.at = step]]
    BY DEF Go, TypeOK
  <2> QED
    BY <2>1, <2>2
<1>2. Fail(w) => \E r \in Walk : walk' = [walk EXCEPT ![w] = r]
  BY IdleIsWalk DEF Fail
<1>3. CASE Start(w)
  <2>1. Idle("none") \in Walk
    BY IdleIsWalk
  <2>2. PICK album \in Albums :
            walk' = [walk EXCEPT ![w] = [Idle("none") EXCEPT !.at = "look", !.fits = album]]
    BY <1>3 DEF Start
  <2>3. album \subseteq Nat
    BY AlbumsAssumption
  <2>4. [Idle("none") EXCEPT !.at = "look", !.fits = album] \in Walk
    BY <2>1, <2>3 DEF Walk, Steps
  <2> QED
    BY <2>2, <2>4
<1>4. CASE Look(w)
  <2>1. CASE pages[walk[w].cursor] = Absent
    BY <1>1, <1>4, <2>1 DEF Look, Steps
  <2>2. CASE pages[walk[w].cursor] # Absent
    <3>1. pages[walk[w].cursor] \in Page
      BY <1>0, <2>2 DEF TypeOK, Walk
    <3> QED
      BY <1>4, <2>2, <3>1, ExtendedIsWalk DEF Look
  <2> QED
    BY <2>1, <2>2
<1>5. CASE ReadFails(w)
  BY <1>1, <1>5 DEF ReadFails, Steps
<1>6. CASE Resume(w)
  BY <1>1, <1>6 DEF Resume, Steps
<1>7. CASE Reset(w)
  <2>1. 0 \in Cursors /\ <<>> \in Seq(Nat)
    BY DEF Cursors
  <2>2. [walk[w] EXCEPT !.at = "fetch"] \in Walk
    BY <1>0 DEF Walk, Steps
  <2>3. [walk[w] EXCEPT !.at = "look", !.cursor = 0, !.got = <<>>] \in Walk
    BY <1>0, <2>1 DEF Walk, Steps
  <2>4. Restarted(w) \in Walk
    BY <2>2, <2>3 DEF Restarted
  <2> QED
    BY <1>2, <1>7, <2>4 DEF Reset
<1>8. CASE Fetch(w)
  <2>1. PICK page \in PagesAt(walk[w].cursor) :
            walk' = [walk EXCEPT ![w].page = page, ![w].at = "store"]
    BY <1>8 DEF Fetch
  <2>2. page \in Page
    BY <1>0, <2>1, AnswersArePages DEF Walk
  <2>3. [walk[w] EXCEPT !.page = page, !.at = "store"] \in Walk
    BY <1>0, <2>2 DEF Walk, Steps
  <2>4. walk' = [walk EXCEPT ![w] = [walk[w] EXCEPT !.page = page, !.at = "store"]]
    BY <2>1 DEF TypeOK
  <2> QED
    BY <2>3, <2>4
<1>9. CASE FetchFails(w) \/ Cancel(w)
  BY <1>2, <1>9 DEF FetchFails, Cancel
<1>10. CASE StorePage(w)
  BY <1>1, <1>2, <1>10 DEF StorePage, Steps
<1>11. CASE StoreCheckpoint(w)
  <2>1. Extended(w, walk[w].page, "rank") \in Walk
    BY <1>11, ExtendedIsWalk DEF StoreCheckpoint, PageInHand
  <2> QED
    BY <1>2, <1>11, <2>1 DEF StoreCheckpoint
<1>12. CASE Finish(w)
  BY <1>1, <1>2, <1>12 DEF Finish, Steps
<1>13. CASE Rank(w)
  <2>1. PICK spent \in {0, 1} :
            walk' = [walk EXCEPT ![w] = [Windowed(w) EXCEPT !.at = "details",
                                                            !.left = DetailWindow - spent]]
    BY <1>13, 0 .. 1 = {0, 1} DEF Rank
  <2>2. DetailWindow - spent \in 0 .. DetailWindow
    OBVIOUS
  <2>3. Windowed(w) \in Walk
    BY WindowedIsWalk
  <2>4. [Windowed(w) EXCEPT !.at = "details", !.left = DetailWindow - spent] \in Walk
    BY <2>2, <2>3 DEF Walk, Steps
  <2> QED
    BY <2>1, <2>4
<1>14. CASE Detail(w)
  <2>1. PICK r \in walk[w].todo : DetailCached(w, r) \/ DetailAnswered(w, r) \/ DetailFails(w, r)
    BY <1>14 DEF Detail
  <2>2. r \in Nat /\ Examined(w, r) \in Walk
    BY <1>0, <2>1 DEF Examined, Walk
  <2>3. CASE DetailCached(w, r)
    BY <2>2, <2>3 DEF DetailCached
  <2>4. CASE DetailAnswered(w, r)
    <3>1. Examined(w, r).left = walk[w].left /\ walk[w].left \in 1 .. DetailWindow
      BY <1>0, <2>4 DEF DetailAnswered, Examined, Walk
    <3>2. Examined(w, r).left - 1 \in 0 .. DetailWindow
      BY <3>1
    <3>3. [Examined(w, r) EXCEPT !.left = @ - 1] \in Walk
      BY <2>2, <3>2 DEF Walk
    <3> QED
      BY <2>4, <3>3 DEF DetailAnswered
  <2>5. CASE DetailFails(w, r)
    <3>1. ASSUME walk[w].left > 0 PROVE AfterFailure(w, r) \in Walk
      <4>1. walk[w].left - 1 \in 0 .. DetailWindow
        BY <1>0, <3>1 DEF Walk
      <4>2. [walk[w] EXCEPT !.todo = @ \ {r}, !.error = TRUE, !.left = @ - 1] \in Walk
        BY <1>0, <4>1 DEF Walk
      <4> QED
        BY <4>2, IdleIsWalk DEF AfterFailure
    <3> QED
      BY <1>2, <2>5, <3>1 DEF DetailFails
  <2> QED
    BY <2>1, <2>3, <2>4, <2>5
<1>15. CASE Answer(w)
  <2>1. \A result \in Results :
            [Idle(result) EXCEPT !.fits = walk[w].fits, !.got = walk[w].got,
                               !.examined = walk[w].examined] \in Walk
    BY <1>0, IdleIsWalk, ZenonT(30) DEF Walk
  <2> QED
    BY <1>15, <2>1 DEF Answer
<1>16. CASE Crash(w)
  BY <1>16, IdleIsWalk DEF Crash
<1> QED
  BY <1>3, <1>4, <1>5, <1>6, <1>7, <1>8, <1>9, <1>10, <1>11, <1>12, <1>13, <1>14, <1>15, <1>16
  DEF StepOf, Step

\* Before its releases are ranked a walk reads on, or stops without an answer.
LEMMA ReadsOrStops ==
    ASSUME Typed, NEW w \in Walks, StepOf(w),
           ~Fetch(w), ~StorePage(w), ~Rank(w), ~Detail(w), ~Answer(w)
    PROVE  \/ walk'[w].at \in {"look", "resume", "reset", "fetch", "finish", "rank"}
           \/ walk'[w].at = "idle" /\ walk'[w].result \in {"none", "failed"}
<1> USE DEF Typed
<1>1. walk[w] \in Walk /\ walk \in [Walks -> Walk]
  BY DEF TypeOK
<1>2. CASE Start(w)
  BY <1>2, StartFields
<1>3. CASE Look(w)
  <2>1. CASE pages[walk[w].cursor] = Absent
    BY <1>3, <2>1, GoFields DEF Look
  <2>2. CASE pages[walk[w].cursor] # Absent
    <3>1. pages[walk[w].cursor] \in Page /\ walk'[w] = Extended(w, pages[walk[w].cursor], "finish")
      BY <1>1, <1>3, <2>2 DEF Look, TypeOK, Walk
    <3>2. Extended(w, pages[walk[w].cursor], "finish").at \in {"finish", "look"}
      BY <3>1, ExtendedFields
    <3> QED
      BY <3>1, <3>2
  <2> QED
    BY <2>1, <2>2
<1>4. CASE Resume(w) \/ ReadFails(w)
  BY <1>4, GoFields DEF Resume, ReadFails
<1>5. CASE Reset(w)
  BY <1>1, <1>5, RestartedFields, FailFields DEF Reset
<1>6. CASE Finish(w)
  BY <1>6, GoFields, FailFields DEF Finish
<1>7. CASE StoreCheckpoint(w)
  <2>1. Fail(w) \/ walk'[w] = Extended(w, walk[w].page, "rank")
    BY <1>1, <1>7 DEF StoreCheckpoint
  <2>2. Extended(w, walk[w].page, "rank").at \in {"rank", "look"}
    BY <1>7, ExtendedFields DEF StoreCheckpoint, PageInHand
  <2> QED
    BY <2>1, <2>2, FailFields
<1>8. CASE FetchFails(w) \/ Cancel(w)
  BY <1>8, FailFields DEF FetchFails, Cancel
<1>9. CASE Crash(w)
  <2>1. walk'[w] = Idle("none")
    BY <1>1, <1>9 DEF Crash
  <2> QED
    BY <2>1, IdleFields
<1> QED
  BY <1>2, <1>3, <1>4, <1>5, <1>6, <1>7, <1>8, <1>9 DEF StepOf, Step

\* Every step keeps the types of the tables and of the walks.
LEMMA TypesKept == Typed /\ [Next]_vars => Typed'
<1> SUFFICES ASSUME Typed, [Next]_vars PROVE Typed'
  OBVIOUS
<1> USE DEF Typed
<1>1. CASE UNCHANGED vars
  BY <1>1 DEF vars, cache, TypeOK, PageInHand
<1>2. ASSUME NEW w \in Walks, StepOf(w)
      PROVE  TypeOK'
  <2>1. walk' \in [Walks -> Walk]
    BY <1>2, WalksTyped, WalkChanges
  <2>2. pages' \in [Cursors -> Page \cup {Absent}]
    <3>1. CASE Reset(w)
      BY <3>1 DEF Reset, TypeOK, NoPages
    <3>2. CASE StorePage(w)
      <4>1. walk[w].page \in Page /\ walk[w].cursor \in Cursors
        BY <3>2 DEF StorePage, PageInHand, TypeOK, Walk
      <4> QED
        BY <3>2, <4>1 DEF StorePage, TypeOK
    <3>3. CASE ~Reset(w) /\ ~StorePage(w)
      <4>1. pages' = pages
        BY <1>2, <3>3
        DEF StepOf, Start, Step, Look, ReadFails, Resume, Fetch, FetchFails, StoreCheckpoint, Finish,
            Rank, Detail, DetailCached, DetailAnswered, DetailFails, Answer, Cancel, Crash, cache
      <4> QED
        BY <4>1 DEF TypeOK
    <3> QED
      BY <3>1, <3>2, <3>3
  <2>3. checkpoint' \in Checkpoint \cup {Absent}
    <3>1. 0 \in 0 .. FreshFor
      BY LimitsAssumption
    <3>2. CASE Reset(w)
      BY <3>2 DEF Reset, TypeOK
    <3>3. CASE StoreCheckpoint(w)
      <4>1. walk[w].page \in Page
        BY <3>3 DEF StoreCheckpoint, PageInHand
      <4>2. [next |-> walk[w].page.next, age |-> 0] \in Checkpoint
        BY <3>1, <4>1 DEF Page, Checkpoint
      <4> QED
        BY <3>3, <4>2 DEF StoreCheckpoint, TypeOK
    <3>4. CASE Finish(w)
      <4>1. [next |-> Done, age |-> 0] \in Checkpoint
        BY <3>1 DEF Checkpoint
      <4> QED
        BY <3>4, <4>1 DEF Finish, TypeOK
    <3>5. CASE ~Reset(w) /\ ~StoreCheckpoint(w) /\ ~Finish(w)
      <4>1. checkpoint' = checkpoint
        BY <1>2, <3>5
        DEF StepOf, Start, Step, Look, ReadFails, Resume, Fetch, FetchFails, StorePage, Rank, Detail,
            DetailCached, DetailAnswered, DetailFails, Answer, Cancel, Crash, cache
      <4> QED
        BY <4>1 DEF TypeOK
    <3> QED
      BY <3>2, <3>3, <3>4, <3>5
  <2>4. details' \in SUBSET Nat
    <3>1. CASE Detail(w)
      <4>1. PICK r \in walk[w].todo :
                DetailCached(w, r) \/ DetailAnswered(w, r) \/ DetailFails(w, r)
        BY <3>1 DEF Detail
      <4>2. r \in Nat
        BY DEF TypeOK, Walk
      <4> QED
        BY <4>1, <4>2 DEF DetailCached, DetailAnswered, DetailFails, cache, TypeOK
    <3>2. CASE ~Detail(w)
      <4>1. details' = details
        BY <1>2, <3>2
        DEF StepOf, Start, Step, Look, ReadFails, Resume, Reset, Fetch, FetchFails, StorePage,
            StoreCheckpoint, Finish, Rank, Answer, Cancel, Crash, cache
      <4> QED
        BY <4>1 DEF TypeOK
    <3> QED
      BY <3>1, <3>2
  <2>5. /\ troubles' \in 0 .. MaxTroubles
        /\ UNCHANGED <<provider, releases, stable>>
        /\ disturbed' \in BOOLEAN
    <3>1. NoTrouble \/ Trouble => troubles' \in 0 .. MaxTroubles
      BY LimitsAssumption DEF NoTrouble, Trouble, TypeOK
    <3>2. NoTrouble \/ Trouble
      BY <1>2
      DEF StepOf, Start, Step, Look, ReadFails, Resume, Reset, Fetch, FetchFails, StorePage,
          StoreCheckpoint, Finish, Rank, Detail, DetailCached, DetailAnswered, DetailFails,
          Answer, Cancel, Crash
    <3>3. UNCHANGED <<provider, releases, stable>>
      BY <1>2
      DEF StepOf, Start, Step, Look, ReadFails, Resume, Reset, Fetch, FetchFails, StorePage,
          StoreCheckpoint, Finish, Rank, Detail, DetailCached, DetailAnswered, DetailFails,
          Answer, Cancel, Crash
    <3>4. disturbed' \in BOOLEAN
      BY <1>2
      DEF StepOf, Start, Step, Look, ReadFails, Resume, Reset, Fetch, FetchFails, StorePage,
          StoreCheckpoint, Finish, Rank, Detail, DetailCached, DetailAnswered, DetailFails,
          Answer, Cancel, Crash, TypeOK, Overlapped
    <3> QED
      BY <3>1, <3>2, <3>3, <3>4
  <2> QED
    BY <2>1, <2>2, <2>3, <2>4, <2>5 DEF TypeOK, Cursors
<1>3. ASSUME NEW w \in Walks, StepOf(w)
      PROVE  PageInHand'
  <2>1. PICK r \in Walk : walk' = [walk EXCEPT ![w] = r]
    BY <1>3, WalksTyped
  <2>2. walk'[w] = r /\ \A v \in Walks \ {w} : walk'[v] = walk[v]
    BY <2>1, WalkChanges
  <2> SUFFICES ASSUME walk'[w].at \in {"store", "checkpoint"} PROVE walk'[w].page \in Page
    BY <2>2 DEF PageInHand
  <2>3. walk[w] \in Walk /\ walk \in [Walks -> Walk]
    BY DEF TypeOK
  <2>4. CASE Fetch(w)
    <3>1. walk[w].cursor \in Cursors
      BY <2>3 DEF Walk
    <3> QED
      BY <2>4, <3>1, FetchFields, AnswersArePages
  <2>5. CASE StorePage(w)
    BY <2>5, GoFields, FailFields DEF StorePage, PageInHand
  <2>6. CASE Rank(w) \/ Detail(w) \/ Answer(w)
    BY <2>6, RankFields, DetailFields, AnswerFields
  <2> QED
    BY <1>3, <2>4, <2>5, <2>6, ReadsOrStops
<1>4. CASE ListChanges
  <2>1. /\ UNCHANGED <<provider, pages, checkpoint, details, walk, disturbed>>
        /\ releases' \in Cursors /\ stable' = FALSE /\ troubles' \in 0 .. MaxTroubles
    BY <1>4, LimitsAssumption DEF ListChanges, Trouble, TypeOK, cache
  <2> QED
    BY <2>1 DEF TypeOK, PageInHand
<1>5. CASE TimePasses
  <2>1. pages' \in [Cursors -> Page \cup {Absent}] /\ checkpoint' \in Checkpoint \cup {Absent}
    BY <1>5, AgedRows DEF TimePasses, TypeOK
  <2>2. /\ UNCHANGED <<provider, releases, details, walk, stable>>
        /\ disturbed' = TRUE /\ troubles' \in 0 .. MaxTroubles
    BY <1>5, LimitsAssumption DEF TimePasses, Trouble, TypeOK
  <2> QED
    BY <2>1, <2>2 DEF TypeOK, PageInHand
<1> QED
  BY <1>1, <1>2, <1>3, <1>4, <1>5 DEF Next, StepOf

\* The types hold for any number of processes, releases and faults.
\* TypeOK: the tables of cache.db and the walks of artist_catalog.
THEOREM CatalogTypes == Spec => []TypeOK
<1>1. Init => Typed
  <2> SUFFICES ASSUME Init PROVE PageInHand
    BY TypesStart DEF Typed
  <2> QED
    BY IdleFields DEF Init, PageInHand
<1> QED
  BY <1>1, TypesKept, PTL DEF Spec, Typed

----------------------------------------------------------------------------
(* The catalog is whole *)

LEMMA OtherWalksStay ==
    ASSUME Typed, NEW w \in Walks, StepOf(w)
    PROVE  \A v \in Walks : v # w => walk'[v] = walk[v]
  BY WalksTyped, WalkChanges DEF Typed, StepOf

\* An empty list of releases is in order at the start of the catalog.
LEMMA NothingInOrder ==
    ASSUME TypeOK, NEW r, r.got = <<>>, r.cursor = 0, r.result = "none",
           r.at \in {"look", "fetch"}
    PROVE  InOrder(r)
  BY LimitsAssumption DEF InOrder, TypeOK, Cursors, Reading

LEMMA StoppedInOrder ==
    ASSUME NEW r, r.got = <<>>, r.at = "idle", r.result \in {"none", "failed"}
    PROVE  InOrder(r)
  BY DEF InOrder, Reading

\* A page that follows carries the order on.
LEMMA ExtendedInOrder ==
    ASSUME TypeOK, NEW w \in Walks, NEW page \in Page, NEW last \in {"finish", "rank"},
           InOrder(walk[w]), walk[w].at \in Reading, Follows(page, walk[w].cursor)
    PROVE  InOrder(Extended(w, page, last))
<1>1. walk[w] \in Walk /\ walk[w].got \in Seq(Nat)
  BY DEF TypeOK, Walk
<1>2. walk[w].cursor \in Nat /\ page.count \in Nat /\ releases \in Nat
  BY <1>1, LimitsAssumption DEF Walk, Page, Cursors, TypeOK
<1> DEFINE more == Listed(walk[w].cursor, page.count)
<1>3. more \in Seq(Nat) /\ Len(more) = page.count
  BY <1>2, ListedFollow
<1>4. \A i \in 1 .. page.count : more[i] = walk[w].cursor + i - 1
  BY <1>2, ListedFollow
<1>5. Len(walk[w].got) = walk[w].cursor /\ \A i \in 1 .. walk[w].cursor : walk[w].got[i] = i - 1
  BY <1>1 DEF InOrder
<1> HIDE DEF more
<1> DEFINE got == walk[w].got \o more
<1>6. got \in Seq(Nat) /\ Len(got) = walk[w].cursor + page.count
      /\ \A i \in 1 .. Len(walk[w].got) + Len(more) :
            got[i] = IF i <= Len(walk[w].got) THEN walk[w].got[i] ELSE more[i - Len(walk[w].got)]
  <2>1. /\ got \in Seq(Nat) /\ Len(got) = Len(walk[w].got) + Len(more)
        /\ \A i \in 1 .. Len(walk[w].got) + Len(more) :
              got[i] = IF i <= Len(walk[w].got) THEN walk[w].got[i] ELSE more[i - Len(walk[w].got)]
    BY <1>1, <1>3, ConcatProperties
  <2> QED
    BY <1>3, <1>5, <2>1
<1>7. \A i \in DOMAIN got : got[i] = i - 1
  <2> HIDE DEF got
  <2> SUFFICES ASSUME NEW i \in 1 .. (walk[w].cursor + page.count) PROVE got[i] = i - 1
    BY <1>6
  <2>1. got[i] = IF i <= walk[w].cursor THEN walk[w].got[i] ELSE more[i - walk[w].cursor]
    BY <1>3, <1>5, <1>6
  <2>2. CASE i <= walk[w].cursor
    BY <1>2, <1>5, <2>1, <2>2
  <2>3. CASE ~(i <= walk[w].cursor)
    <3>1. i - walk[w].cursor \in 1 .. page.count
      BY <1>2, <2>3
    <3>2. more[i - walk[w].cursor] = walk[w].cursor + (i - walk[w].cursor) - 1
      BY <1>4, <3>1
    <3> QED
      BY <1>2, <2>1, <2>3, <3>2
  <2> QED
    BY <2>2, <2>3
<1> HIDE DEF got
<1> DEFINE r == Extended(w, page, last)
<1>8. /\ r.at = IF page.next = Done THEN last ELSE "look"
      /\ r.cursor = IF page.next = Done THEN walk[w].cursor ELSE page.next
      /\ r.got = got /\ r.result = walk[w].result
  BY ExtendedFields DEF got, more
<1>9. walk[w].result = "none"
  BY DEF InOrder, Reading
<1> HIDE DEF r
<1>10. CASE page.next = Done
  <2>1. r.at \in {"finish", "rank"} /\ (stable => Len(got) = releases)
    BY <1>6, <1>8, <1>10 DEF Follows
  <2> QED
    BY <1>7, <1>8, <1>9, <2>1 DEF InOrder, Reading, r
<1>11. CASE page.next # Done
  <2>1. r.at = "look" /\ r.cursor = page.next /\ Len(got) = page.next
        /\ (stable => page.next <= releases)
    BY <1>6, <1>8, <1>11 DEF Follows
  <2> QED
    BY <1>7, <1>8, <1>9, <2>1 DEF InOrder, Reading, r
<1> QED
  BY <1>10, <1>11

\* The provider answers with a page that follows.
LEMMA AnswersFollow ==
    ASSUME TypeOK, NEW c \in Cursors, stable => c <= releases
    PROVE  \A page \in PagesAt(c) : Follows(page, c)
<1> USE LimitsAssumption, DoneAssumption
<1>1. c \in Nat /\ releases \in Nat
  BY DEF TypeOK, Cursors
<1>2. CASE c >= releases
  BY <1>1, <1>2 DEF PagesAt, Follows
<1>3. CASE ~(c >= releases)
  <2>1. ASSUME NEW n \in 1 .. PageLimit, c + n <= releases
        PROVE Follows([count |-> n, next |-> IF c + n = releases THEN Done ELSE c + n, age |-> 0], c)
    BY <1>1, <2>1 DEF Follows
  <2> QED
    BY <1>3, <2>1 DEF PagesAt
<1> QED
  BY <1>2, <1>3

\* A step of a walk leaves its releases in order.
LEMMA WalkStaysInOrder ==
    ASSUME ListInv, NEW w \in Walks, StepOf(w)
    PROVE  InOrder(walk'[w])
<1> USE DEF ListInv, Typed
<1>1. walk[w] \in Walk /\ walk \in [Walks -> Walk] /\ InOrder(walk[w])
  BY DEF TypeOK, ReadsInOrder
<1>2. \A step \in Steps \ {"idle", "finish", "rank", "details"} :
         Go(w, step) /\ walk[w].at \in Reading
             /\ (step \in {"store", "checkpoint"} => walk[w].at \in {"store", "checkpoint"})
         => InOrder(walk'[w])
  <2> SUFFICES ASSUME NEW step \in Steps \ {"idle", "finish", "rank", "details"},
                      Go(w, step), walk[w].at \in Reading,
                      step \in {"store", "checkpoint"} => walk[w].at \in {"store", "checkpoint"}
               PROVE  InOrder(walk'[w])
    OBVIOUS
  <2>1. /\ walk'[w].at = step /\ walk'[w].cursor = walk[w].cursor
        /\ walk'[w].got = walk[w].got /\ walk'[w].page = walk[w].page
        /\ walk'[w].result = walk[w].result
    BY GoFields
  <2>2. step \in Reading /\ walk[w].result = "none"
    BY <1>1 DEF Steps, Reading, InOrder
  <2> QED
    BY <1>1, <2>1, <2>2 DEF InOrder, Reading
<1>3. Fail(w) => InOrder(walk'[w])
  BY FailFields, StoppedInOrder
<1>4. CASE Start(w)
  <2>1. walk'[w].at = "look" /\ walk'[w].cursor = 0 /\ walk'[w].got = <<>>
        /\ walk'[w].result = "none"
    BY <1>4, StartFields
  <2> QED
    BY <2>1, LimitsAssumption DEF InOrder, TypeOK, Cursors, Reading
<1>5. CASE Look(w)
  <2>1. CASE pages[walk[w].cursor] = Absent
    BY <1>2, <1>5, <2>1 DEF Look, Steps, Reading
  <2>2. CASE pages[walk[w].cursor] # Absent
    <3>1. walk'[w] = Extended(w, pages[walk[w].cursor], "finish")
      BY <1>1, <1>5, <2>2 DEF Look
    <3>2. walk[w].cursor \in Cursors /\ pages[walk[w].cursor] \in Page
      BY <1>1, <2>2 DEF TypeOK, Walk
    <3>3. Follows(pages[walk[w].cursor], walk[w].cursor)
      BY <2>2, <3>2 DEF CachedPagesFollow
    <3>4. InOrder(Extended(w, pages[walk[w].cursor], "finish"))
      BY <1>1, <1>5, <3>2, <3>3, ExtendedInOrder DEF Look, Reading
    <3> QED
      BY <3>1, <3>4
  <2> QED
    BY <2>1, <2>2
<1>6. CASE Resume(w) \/ ReadFails(w)
  BY <1>2, <1>6 DEF Resume, ReadFails, Steps, Reading
<1>7. CASE Reset(w)
  <2>1. CASE Fail(w)
    BY <1>3, <2>1
  <2>2. CASE walk' = [walk EXCEPT ![w] = Restarted(w)]
    <3>1. walk'[w] = Restarted(w)
      BY <1>1, <2>2
    <3>2. walk[w].result = "none" /\ (walk[w].cursor = 0 => walk[w].got = <<>>)
      <4>1. walk[w].got \in Seq(Nat) /\ Len(walk[w].got) = walk[w].cursor
        BY <1>1, <1>7 DEF Reset, InOrder, Reading, Walk
      <4> QED
        BY <1>1, <1>7, <4>1, EmptySeq DEF Reset, InOrder
    <3>3. /\ walk'[w].at \in {"look", "fetch"} /\ walk'[w].cursor = 0
          /\ walk'[w].got = <<>> /\ walk'[w].result = "none"
      BY <3>1, <3>2, RestartedFields
    <3> QED
      BY <3>3, LimitsAssumption DEF InOrder, TypeOK, Cursors, Reading
  <2> QED
    BY <1>7, <2>1, <2>2 DEF Reset
<1>8. CASE Fetch(w)
  <2>1. PICK page \in PagesAt(walk[w].cursor) :
            /\ walk'[w].at = "store" /\ walk'[w].page = page
            /\ walk'[w].cursor = walk[w].cursor
            /\ walk'[w].got = walk[w].got /\ walk'[w].result = walk[w].result
    BY <1>8, FetchFields
  <2>2. walk[w].cursor \in Cursors /\ walk[w].at \in Reading
    BY <1>1, <1>8 DEF Fetch, Walk, Reading
  <2>3. Follows(page, walk[w].cursor)
    BY <1>1, <2>1, <2>2, AnswersFollow DEF InOrder
  <2> QED
    BY <1>1, <2>1, <2>2, <2>3 DEF InOrder, Reading
<1>9. CASE StorePage(w)
  BY <1>2, <1>3, <1>9 DEF StorePage, Steps, Reading
<1>10. CASE StoreCheckpoint(w)
  <2>1. CASE Fail(w)
    BY <1>3, <2>1
  <2>2. CASE walk' = [walk EXCEPT ![w] = Extended(w, walk[w].page, "rank")]
    <3>1. walk'[w] = Extended(w, walk[w].page, "rank")
      BY <1>1, <2>2
    <3>2. walk[w].page \in Page /\ walk[w].at \in Reading
      BY <1>10 DEF StoreCheckpoint, PageInHand, Reading
    <3>3. Follows(walk[w].page, walk[w].cursor)
      BY <1>1, <1>10 DEF StoreCheckpoint, InOrder
    <3>4. InOrder(Extended(w, walk[w].page, "rank"))
      BY <1>1, <3>2, <3>3, ExtendedInOrder
    <3> QED
      BY <3>1, <3>4
  <2> QED
    BY <1>10, <2>1, <2>2 DEF StoreCheckpoint
<1>11. CASE Finish(w)
  <2>1. CASE Fail(w)
    BY <1>3, <2>1
  <2>2. CASE Go(w, "rank")
    <3>1. walk'[w].at = "rank" /\ walk'[w].got = walk[w].got /\ walk'[w].result = walk[w].result
      BY <2>2, GoFields
    <3> QED
      BY <1>1, <1>11, <3>1 DEF Finish, InOrder, Reading
  <2> QED
    BY <1>11, <2>1, <2>2 DEF Finish
<1>12. CASE Rank(w)
  <2>1. walk'[w].at = "details" /\ walk'[w].got = walk[w].got /\ walk'[w].result = walk[w].result
    BY <1>12, RankFields
  <2> QED
    BY <1>1, <1>12, <2>1 DEF Rank, InOrder, Reading
<1>13. CASE Detail(w)
  <2>1. \/ walk'[w].at = "idle" /\ walk'[w].got = <<>> /\ walk'[w].result = "failed"
        \/ /\ walk[w].at = "details" /\ walk'[w].at = "details"
           /\ walk'[w].got = walk[w].got /\ walk'[w].result = walk[w].result
    BY <1>13, DetailFields
  <2> QED
    BY <1>1, <2>1 DEF InOrder, Reading
<1>14. CASE Answer(w)
  <2>1. walk[w].at = "details" /\ walk'[w].at = "idle" /\ walk'[w].got = walk[w].got
    BY <1>14, AnswerFields
  <2> QED
    BY <1>1, <2>1 DEF InOrder, Reading
<1>15. CASE FetchFails(w) \/ Cancel(w)
  BY <1>3, <1>15 DEF FetchFails, Cancel
<1>16. CASE Crash(w)
  <2>1. walk'[w] = Idle("none")
    BY <1>1, <1>16 DEF Crash
  <2>2. walk'[w].at = "idle" /\ walk'[w].got = <<>> /\ walk'[w].result = "none"
    BY <2>1, IdleFields
  <2> QED
    BY <2>2 DEF InOrder, Reading
<1> QED
  BY <1>4, <1>5, <1>6, <1>7, <1>8, <1>9, <1>10, <1>11, <1>12, <1>13, <1>14, <1>15, <1>16
  DEF StepOf, Step

\* A walk changes the provider's list never, and the pages only as it says.
LEMMA WalkKeepsList ==
    ASSUME NEW w \in Walks, StepOf(w)
    PROVE  /\ UNCHANGED <<releases, stable>>
           /\ \/ pages' = pages
              \/ StorePage(w) /\ pages' = [pages EXCEPT ![walk[w].cursor] = walk[w].page]
              \/ Reset(w) /\ pages' = NoPages
  BY DEF StepOf, Start, Step, Look, ReadFails, Resume, Reset, Fetch, FetchFails, StorePage,
         StoreCheckpoint, Finish, Rank, Detail, DetailCached, DetailAnswered, DetailFails,
         Answer, Cancel, Crash, cache

LEMMA ListKept == ListInv /\ [Next]_vars => ListInv'
<1> SUFFICES ASSUME ListInv, [Next]_vars PROVE ListInv'
  OBVIOUS
<1>0. Typed'
  BY TypesKept DEF ListInv
<1> USE DEF ListInv
<1>1. CASE UNCHANGED vars
  BY <1>0, <1>1 DEF vars, cache, CachedPagesFollow, Follows, ReadsInOrder, InOrder
<1>2. ASSUME NEW w \in Walks, StepOf(w) PROVE CachedPagesFollow' /\ ReadsInOrder'
  <2>1. UNCHANGED <<releases, stable>>
    BY <1>2, WalkKeepsList
  <2>2. CachedPagesFollow'
    <3>1. CASE pages' = pages
      BY <2>1, <3>1 DEF CachedPagesFollow, Follows
    <3>2. CASE StorePage(w) /\ pages' = [pages EXCEPT ![walk[w].cursor] = walk[w].page]
      <4>1. Follows(walk[w].page, walk[w].cursor)
        BY <3>2 DEF StorePage, ReadsInOrder, InOrder
      <4>2. \A c \in Cursors : pages'[c] = IF c = walk[w].cursor THEN walk[w].page ELSE pages[c]
        BY <3>2 DEF Typed, TypeOK
      <4> QED
        BY <2>1, <4>1, <4>2 DEF CachedPagesFollow, Follows
    <3>3. CASE pages' = NoPages
      BY <3>3 DEF CachedPagesFollow, NoPages
    <3> QED
      BY <1>2, <3>1, <3>2, <3>3, WalkKeepsList
  <2>3. ASSUME NEW v \in Walks PROVE InOrder(walk[v])'
    <3>1. InOrder(walk'[v])
      BY <1>2, WalkStaysInOrder, OtherWalksStay DEF ReadsInOrder
    <3> QED
      BY <2>1, <3>1 DEF InOrder, Follows
  <2> QED
    BY <2>2, <2>3 DEF ReadsInOrder
<1>3. CASE ListChanges
  <2>1. pages' = pages /\ walk' = walk /\ stable' = FALSE
    BY <1>3 DEF ListChanges, cache
  <2> QED
    BY <1>0, <2>1 DEF CachedPagesFollow, ReadsInOrder, InOrder, Follows
<1>4. CASE TimePasses
  <2>1. UNCHANGED <<walk, releases, stable>> /\ pages' = [c \in Cursors |-> Aged(pages[c])]
    BY <1>4 DEF TimePasses
  <2>2. \A c \in Cursors : pages'[c] # Absent =>
            /\ pages[c] # Absent
            /\ pages'[c].next = pages[c].next /\ pages'[c].count = pages[c].count
    BY <2>1 DEF Aged, Typed, TypeOK, Page
  <2> QED
    BY <1>0, <2>1, <2>2 DEF CachedPagesFollow, ReadsInOrder, InOrder, Follows
<1> QED
  BY <1>0, <1>1, <1>2, <1>3, <1>4 DEF Next, StepOf

LEMMA ListStarts == Init => ListInv
<1> SUFFICES ASSUME Init PROVE ListInv
  OBVIOUS
<1>1. Typed
  BY TypesStart, IdleFields DEF Init, Typed, PageInHand
<1>2. CachedPagesFollow
  BY DEF Init, NoPages, CachedPagesFollow
<1>3. ReadsInOrder
  BY IdleFields DEF Init, ReadsInOrder, InOrder, Reading
<1> QED
  BY <1>1, <1>2, <1>3 DEF ListInv

\* A finished catalog has no gap and no repetition, and all of an unchanged
\* list (CatalogIsWhole): however often artist_catalog resumed or restarted,
\* whatever failed, and whoever else wrote to the cache.
THEOREM CatalogsAreWhole == Spec => []CatalogIsWhole
<1>1. ListInv => CatalogIsWhole
  BY DEF ListInv, ReadsInOrder, InOrder, CatalogIsWhole, HasCatalog
<1> QED
  BY <1>1, ListStarts, ListKept, PTL DEF Spec

----------------------------------------------------------------------------
(* Nothing is guessed *)

\* Every step keeps what an answer without an error says.
LEMMA AnswersKept == ListInv /\ AnswerInv /\ [Next]_vars => AnswerInv'
<1> SUFFICES ASSUME ListInv, AnswerInv, [Next]_vars PROVE AnswerInv'
  OBVIOUS
<1> USE DEF AnswerInv, RankedExamined, ExaminedOrToDo, Ranked
<1>1. CASE UNCHANGED walk
  BY <1>1
<1>2. ASSUME NEW w \in Walks, StepOf(w) PROVE AnswerInv'
  <2>0. Typed /\ TypeOK /\ walk \in [Walks -> Walk]
    BY DEF ListInv, Typed, TypeOK
  <2> SUFFICES
        /\ walk'[w].result = "complete" => Ranked(w)' \subseteq walk'[w].examined
        /\ walk'[w].at = "details" /\ ~walk'[w].error =>
              Ranked(w)' \subseteq walk'[w].todo \cup walk'[w].examined
    BY <1>2, <2>0, OtherWalksStay
  <2>1. CASE Rank(w)
    BY <1>2, <2>0, <2>1, RankFields
  <2>2. CASE Detail(w)
    <3>1. walk'[w].at # "idle" => walk'[w].result = "none"
      BY <1>2, WalkStaysInOrder DEF InOrder
    <3> QED
      BY <2>0, <2>2, <3>1, DetailFields
  <2>3. CASE Answer(w)
    BY <1>2, <2>0, <2>3, AnswerFields
  <2>4. CASE Fetch(w)
    <3>1. walk'[w].at = "store" /\ walk'[w].result = "none"
      BY <1>2, <2>0, <2>4, FetchFields, WalkStaysInOrder DEF InOrder
    <3> QED
      BY <3>1
  <2>5. CASE StorePage(w)
    <3>1. walk'[w].at \in {"idle", "checkpoint"} /\ walk'[w].result \in {"none", "failed"}
      BY <1>2, <2>0, <2>5, GoFields, FailFields, WalkStaysInOrder DEF StorePage, InOrder
    <3> QED
      BY <3>1
  <2>6. CASE ~Fetch(w) /\ ~StorePage(w) /\ ~Rank(w) /\ ~Detail(w) /\ ~Answer(w)
    <3>1. walk'[w].at # "idle" => walk'[w].result = "none"
      BY <1>2, WalkStaysInOrder DEF InOrder
    <3> QED
      BY <1>2, <2>0, <2>6, <3>1, ReadsOrStops
  <2> QED
    BY <2>1, <2>2, <2>3, <2>4, <2>5, <2>6
<1>3. CASE ListChanges \/ TimePasses
  BY <1>3, <1>1 DEF ListChanges, TimePasses
<1> QED
  BY <1>1, <1>2, <1>3 DEF Next, StepOf, vars

\* What is ranked is what fits, of all that the provider has.
LEMMA WholeListRanked ==
    ASSUME ListInv, NEW w \in Walks, walk[w].result = "complete", stable,
           NEW r \in walk[w].fits, r < releases
    PROVE  r \in Ranked(w)
<1>1. walk[w].got \in Seq(Nat) /\ r \in Nat /\ releases \in Nat
  BY LimitsAssumption DEF ListInv, Typed, TypeOK, Walk, Cursors
<1>2. /\ Len(walk[w].got) = releases
      /\ \A i \in DOMAIN walk[w].got : walk[w].got[i] = i - 1
  BY DEF ListInv, ReadsInOrder, InOrder
<1>3. r + 1 \in DOMAIN walk[w].got /\ walk[w].got[r + 1] = r
  BY <1>1, <1>2
<1> QED
  BY <1>3 DEF Ranked, Range

\* An answer without an error has examined every release that fits, of its
\* catalog and of an unchanged provider's list (NoGuessedMiss), whatever the
\* window left out, whatever failed in musicbrainz_artist_candidates and
\* discogs_artist_candidates, and from whatever pages artist_catalog resumed.
THEOREM NothingGuessed == Spec => []NoGuessedMiss
<1>1. Init => AnswerInv
  BY IdleFields DEF Init, AnswerInv, RankedExamined, ExaminedOrToDo
<1>2. ListInv /\ AnswerInv => NoGuessedMiss
  BY WholeListRanked DEF AnswerInv, RankedExamined, NoGuessedMiss
<1> QED
  BY <1>1, <1>2, ListStarts, ListKept, AnswersKept, PTL DEF Spec

----------------------------------------------------------------------------
(* Cached pages are kept *)

\* Nobody else is walking while an undisturbed walk takes a step.
LEMMA OthersIdle ==
    ASSUME Typed, ChainInv, NEW w \in Walks, StepOf(w), ~disturbed'
    PROVE  \A v \in Walks : v # w => walk[v].at = "idle" /\ walk'[v] = walk[v]
<1>1. \A v \in Walks : v # w => walk'[v] = walk[v]
  BY OtherWalksStay
<1>2. CASE Start(w)
  BY <1>1, <1>2 DEF Start, Overlapped, Walking
<1>3. CASE Reset(w) /\ disturbed' = Overlapped(w)
  BY <1>1, <1>3 DEF Overlapped, Walking
<1>4. CASE Walking(w) /\ ~disturbed
  BY <1>1, <1>4 DEF ChainInv, Alone, Walking
<1>5. Start(w) \/ Walking(w)
  BY DEF StepOf, Step, Look, ReadFails, Resume, Reset, Fetch, FetchFails, StorePage,
         StoreCheckpoint, Finish, Rank, Detail, DetailCached, DetailAnswered, DetailFails,
         Answer, Cancel, Crash, Walking
<1>6. Start(w) \/ (Reset(w) /\ disturbed' = Overlapped(w)) \/ ~disturbed
  BY DEF StepOf, Step, Look, ReadFails, Resume, Reset, Fetch, FetchFails, StorePage,
         StoreCheckpoint, Finish, Rank, Detail, DetailCached, DetailAnswered, DetailFails,
         Answer, Cancel, Crash
<1> QED
  BY <1>1, <1>2, <1>3, <1>4, <1>5, <1>6

LEMMA ChainStepKept ==
    ASSUME ListInv, ChainInv, NEW w \in Walks, StepOf(w), ~disturbed'
    PROVE  OneChain' /\ (Continued' \/ walk'[w].at = "checkpoint") /\ OnChain(walk[w])'
<1> USE DoneAssumption DEF OnChain
<1>0. /\ Typed /\ TypeOK /\ walk[w] \in Walk /\ walk \in [Walks -> Walk]
      /\ walk[w].cursor \in Cursors /\ walk[w].cursor \in Nat /\ Done \notin Cursors
      /\ pages \in [Cursors -> Page \cup {Absent}]
  BY LimitsAssumption DEF ListInv, Typed, TypeOK, Walk, Cursors
<1>1. CASE Start(w)
  <2>1. walk'[w].at = "look" /\ walk'[w].cursor = 0
    BY <1>0, <1>1, StartFields
  <2>2. ~disturbed /\ UNCHANGED <<pages, checkpoint>> /\ \A v \in Walks : walk[v].at = "idle"
    BY <1>0, <1>1, OthersIdle DEF Start, cache, Walking
  <2>3. OneChain /\ Continued
    BY <2>2 DEF ChainInv
  <2> QED
    BY <2>1, <2>2, <2>3 DEF OneChain, Continued, LastPage, Present, Marked, NoPages
<1>2. CASE Reset(w) /\ pages' = NoPages /\ checkpoint' = Absent
              /\ walk' = [walk EXCEPT ![w] = Restarted(w)]
  <2>1. walk'[w] = Restarted(w)
    BY <1>0, <1>2
  <2>2. walk'[w].at \in {"look", "fetch"} /\ walk'[w].cursor = 0
    BY <1>0, <2>1, RestartedFields
  <2> QED
    BY <1>2, <2>2 DEF OneChain, Continued, LastPage, Present, NoPages
<1>3. ASSUME ~disturbed, UNCHANGED <<pages, checkpoint>>, walk[w].at # "checkpoint", Walking(w),
             OnChain(walk'[w])
      PROVE  OneChain' /\ (Continued' \/ walk'[w].at = "checkpoint") /\ OnChain(walk[w])'
  <2>1. \A v \in Walks : walk[v].at # "checkpoint"
    BY <1>0, <1>3, OthersIdle
  <2>2. OneChain /\ Continued
    BY <1>3, <2>1 DEF ChainInv
  <2> QED
    BY <1>3, <2>2 DEF OneChain, Continued, LastPage, Present, Marked, NoPages
<1>4. ASSUME ~disturbed, Walking(w), walk[w].at # "checkpoint"
      PROVE  OneChain /\ Continued /\ OnChain(walk[w])
  BY <1>0, <1>4, OthersIdle DEF ChainInv
<1>5. CASE Look(w)
  <2>1. ~disturbed /\ UNCHANGED <<pages, checkpoint>> /\ walk[w].at = "look" /\ Walking(w)
    BY <1>5 DEF Look, cache, Walking
  <2>2. CASE pages[walk[w].cursor] = Absent
    <3>1. walk'[w].at = "resume" /\ walk'[w].cursor = walk[w].cursor
      BY <1>0, <1>5, <2>2, GoFields DEF Look
    <3> QED
      BY <1>3, <1>4, <2>1, <2>2, <3>1 DEF Present
  <2>3. CASE pages[walk[w].cursor] # Absent
    <3>1. pages[walk[w].cursor] \in Page /\ walk'[w] = Extended(w, pages[walk[w].cursor], "finish")
      BY <1>0, <1>5, <2>3 DEF Look
    <3>2. /\ walk'[w].at = IF pages[walk[w].cursor].next = Done THEN "finish" ELSE "look"
          /\ pages[walk[w].cursor].next # Done => walk'[w].cursor = pages[walk[w].cursor].next
      BY <1>0, <3>1, ExtendedFields, ZenonT(30)
    <3>3. Present(walk[w].cursor)
      BY <1>0, <2>3 DEF Present
    <3>4. CASE pages[walk[w].cursor].next = Done
      BY <1>0, <1>3, <2>1, <3>2, <3>3, <3>4
    <3>5. CASE pages[walk[w].cursor].next # Done
      <4>1. Present(walk'[w].cursor) \/ Marked(walk'[w].cursor)
        BY <1>0, <1>4, <2>1, <3>2, <3>3, <3>5 DEF LastPage, Continued
      <4> QED
        BY <1>3, <2>1, <3>2, <3>5, <4>1
    <3> QED
      BY <3>4, <3>5
  <2> QED
    BY <2>2, <2>3
<1>6. CASE Resume(w)
  <2>1. /\ ~disturbed /\ UNCHANGED <<pages, checkpoint>> /\ walk[w].at = "resume" /\ Walking(w)
        /\ walk'[w].cursor = walk[w].cursor
        /\ walk'[w].at = IF Marked(walk[w].cursor) THEN "fetch" ELSE "reset"
    BY <1>0, <1>6, GoFields DEF Resume, cache, Walking, ResumesHere, Marked
  <2> QED
    BY <1>3, <1>4, <2>1
<1>7. CASE Fetch(w)
  <2>1. /\ ~disturbed /\ UNCHANGED <<pages, checkpoint>> /\ walk[w].at = "fetch" /\ Walking(w)
        /\ walk'[w].cursor = walk[w].cursor /\ walk'[w].at = "store"
    BY <1>0, <1>7, FetchFields DEF Fetch, cache, Walking
  <2> QED
    BY <1>3, <1>4, <2>1
<1>8. CASE StorePage(w)
  <2>1. ~disturbed /\ walk[w].at = "store" /\ Walking(w) /\ checkpoint' = checkpoint
    BY <1>8 DEF StorePage, Walking
  <2>2. CASE Fail(w) /\ UNCHANGED pages
    BY <1>0, <1>3, <2>1, <2>2, FailFields
  <2>3. CASE pages' = [pages EXCEPT ![walk[w].cursor] = walk[w].page] /\ Go(w, "checkpoint")
    <3> DEFINE c0 == walk[w].cursor
               page == walk[w].page
    <3>1. /\ walk'[w].at = "checkpoint" /\ walk'[w].cursor = c0 /\ walk'[w].page = page
          /\ c0 \in Cursors
      BY <1>0, <2>3, GoFields
    <3>2. page \in Page /\ page # Absent
      BY <1>0, <2>1, RowsArePresent DEF Typed, PageInHand
    <3>3. /\ OneChain /\ Continued
          /\ (pages = NoPages /\ c0 = 0) \/ (Marked(c0) /\ ~Present(c0))
      <4>1. OneChain /\ Continued /\ OnChain(walk[w])
        BY <1>4, <2>1
      <4> QED
        BY <2>1, <4>1
    <3>4. \A c \in Cursors : pages'[c] = IF c = c0 THEN page ELSE pages[c]
      BY <1>0, <2>3
    <3> HIDE DEF c0, page
    <3>5. \A c \in Cursors : Present(c)' <=> c = c0 \/ Present(c)
      BY <3>1, <3>2, <3>4 DEF Present
    <3>6. ASSUME NEW c \in Cursors, LastPage(c)' PROVE c = c0
      <4> SUFFICES ASSUME c # c0 PROVE FALSE
        OBVIOUS
      <4>1. Present(c) /\ pages'[c] = pages[c]
        BY <3>4, <3>5, <3>6 DEF LastPage
      <4>2. Marked(c0) /\ ~Present(c0)
        BY <3>3, <4>1 DEF Present, NoPages
      <4>3. LastPage(c)
        BY <1>0, <3>5, <3>6, <4>1 DEF LastPage, Present
      <4>4. Marked(pages[c].next)
        BY <3>3, <4>3 DEF Continued
      <4>5. pages[c].next = c0
        BY <4>2, <4>4 DEF Marked
      <4> QED
        BY <1>0, <3>1, <3>4, <3>5, <3>6, <4>1, <4>5 DEF LastPage, Present
    <3>7. pages' # NoPages /\ Present(0)'
      <4>1. 0 \in Cursors
        BY LimitsAssumption DEF Cursors
      <4>2. c0 = 0 \/ Present(0)
        BY <3>3 DEF OneChain, Marked
      <4>3. Present(0)'
        BY <3>1, <3>5, <4>1, <4>2
      <4> QED
        BY <4>1, <4>3 DEF Present, NoPages
    <3> QED
      BY <3>1, <3>4, <3>5, <3>6, <3>7 DEF OneChain
  <2> QED
    BY <1>8, <2>2, <2>3 DEF StorePage
<1>9. CASE StoreCheckpoint(w)
  <2>1. /\ ~disturbed /\ walk[w].at = "checkpoint" /\ Walking(w) /\ pages' = pages
        /\ checkpoint' = [next |-> walk[w].page.next, age |-> 0]
        /\ walk' = [walk EXCEPT ![w] = Extended(w, walk[w].page, "rank")]
    BY <1>9 DEF StoreCheckpoint, Walking
  <2>2. walk[w].page \in Page /\ walk'[w] = Extended(w, walk[w].page, "rank")
    BY <1>0, <2>1 DEF Typed, PageInHand
  <2>3. /\ walk'[w].at = IF walk[w].page.next = Done THEN "rank" ELSE "look"
        /\ walk[w].page.next # Done => walk'[w].cursor = walk[w].page.next
    <3> DEFINE page == walk[w].page
    <3>1. page \in Page
      BY <2>2
    <3> HIDE DEF page
    <3>2. /\ Extended(w, page, "rank").at = IF page.next = Done THEN "rank" ELSE "look"
          /\ page.next # Done => Extended(w, page, "rank").cursor = page.next
      BY <1>0, <3>1, ExtendedFields
    <3> QED
      BY <2>2, <3>2 DEF page
  <2>4. OneChain /\ OnChain(walk[w])
    BY <2>1 DEF ChainInv
  <2>5. checkpoint' # Absent /\ checkpoint'.next = walk[w].page.next
    <3>1. checkpoint' \in Checkpoint
      BY <2>1, <2>2, LimitsAssumption DEF Checkpoint, Page
    <3> QED
      BY <2>1, <3>1, RowsArePresent
  <2>6. Continued'
    BY <2>1, <2>4, <2>5 DEF Continued, LastPage, Present, Marked
  <2> QED
    BY <2>1, <2>3, <2>4, <2>5, <2>6 DEF OneChain, LastPage, Present, Marked, NoPages
<1>10. CASE Finish(w)
  <2>1. ~disturbed /\ walk[w].at = "finish" /\ Walking(w) /\ pages' = pages
    BY <1>10 DEF Finish, Walking
  <2>2. CASE Fail(w) /\ UNCHANGED checkpoint
    BY <1>0, <1>3, <2>1, <2>2, FailFields
  <2>3. CASE checkpoint' = [next |-> Done, age |-> 0] /\ Go(w, "rank")
    <3>1. walk'[w].at = "rank"
      BY <1>0, <2>3, GoFields
    <3>2. checkpoint' # Absent /\ checkpoint'.next = Done
      <4>1. checkpoint' \in Checkpoint
        BY <2>3, LimitsAssumption DEF Checkpoint
      <4> QED
        BY <2>3, <4>1, RowsArePresent
    <3>3. OneChain /\ \E c \in Cursors : Present(c) /\ pages[c].next = Done
      BY <1>4, <2>1
    <3>4. Continued'
      BY <2>1, <3>2, <3>3 DEF OneChain, Continued, LastPage, Present, Marked
    <3> QED
      BY <2>1, <3>1, <3>3, <3>4 DEF OneChain, LastPage, Present, NoPages
  <2> QED
    BY <1>10, <2>2, <2>3 DEF Finish
<1>11. CASE Reset(w) /\ Fail(w) /\ UNCHANGED <<pages, checkpoint, disturbed>>
  BY <1>0, <1>3, <1>11, FailFields DEF Reset, Walking
<1>12. CASE FetchFails(w) \/ Cancel(w) \/ Crash(w) \/ Rank(w) \/ Detail(w) \/ Answer(w)
  <2>1. ~disturbed /\ UNCHANGED <<pages, checkpoint>> /\ walk[w].at # "checkpoint" /\ Walking(w)
    <3>1. CASE Detail(w)
      <4>1. PICK r \in walk[w].todo :
                DetailCached(w, r) \/ DetailAnswered(w, r) \/ DetailFails(w, r)
        BY <3>1 DEF Detail
      <4> QED
        BY <4>1 DEF DetailCached, DetailAnswered, DetailFails, cache, Walking
    <3>2. CASE Crash(w)
      BY <3>2 DEF Crash, cache, Walking
    <3>3. CASE FetchFails(w) \/ Cancel(w)
      BY <3>3 DEF FetchFails, Cancel, cache, Walking
    <3>4. CASE Rank(w) \/ Answer(w)
      <4>1. walk[w].at \in {"rank", "details"}
        BY <1>0, <3>4, AnswerFields DEF Rank
      <4>2. UNCHANGED <<pages, checkpoint, disturbed>>
        BY <3>4, Zenon DEF Rank, Answer, cache
      <4> QED
        BY <4>1, <4>2 DEF Walking
    <3> QED
      BY <1>12, <3>1, <3>2, <3>3, <3>4
  <2>2. walk'[w].at \in {"idle", "details"}
    <3>1. CASE Crash(w)
      BY <1>0, <3>1, IdleFields DEF Crash
    <3> QED
      BY <1>0, <1>12, <3>1, FailFields, RankFields, DetailFields, AnswerFields
      DEF FetchFails, Cancel
  <2> QED
    BY <1>3, <2>1, <2>2
<1>13. ~ReadFails(w)
  BY DEF ReadFails
<1> QED
  BY <1>1, <1>2, <1>5, <1>6, <1>7, <1>8, <1>9, <1>10, <1>11, <1>12, <1>13 DEF StepOf, Step, Reset

LEMMA ChainKept == ListInv /\ ChainInv /\ [Next]_vars => ChainInv'
<1> SUFFICES ASSUME ListInv, ChainInv, [Next]_vars, ~disturbed'
             PROVE  /\ Alone' /\ OneChain'
                    /\ Continued' \/ \E w \in Walks : walk'[w].at = "checkpoint"
                    /\ \A w \in Walks : OnChain(walk[w])'
  BY DEF ChainInv
<1>1. CASE UNCHANGED <<pages, checkpoint, walk, disturbed>>
  BY <1>1 DEF ChainInv, Alone, Walking, OneChain, Continued, OnChain, LastPage, Present, Marked,
              NoPages
<1>2. ASSUME NEW w \in Walks, StepOf(w)
      PROVE  /\ Alone' /\ OneChain'
             /\ Continued' \/ \E v \in Walks : walk'[v].at = "checkpoint"
             /\ \A v \in Walks : OnChain(walk[v])'
  <2>1. OneChain' /\ (Continued' \/ walk'[w].at = "checkpoint") /\ OnChain(walk[w])'
    BY <1>2, ChainStepKept
  <2>2. \A v \in Walks : v # w => walk'[v].at = "idle"
    BY <1>2, OthersIdle DEF ListInv
  <2>3. Alone'
    BY <2>2 DEF Alone, Walking
  <2>4. \A v \in Walks : OnChain(walk[v])'
    BY <2>1, <2>2 DEF OnChain
  <2> QED
    BY <2>1, <2>3, <2>4
<1>3. CASE ListChanges
  BY <1>1, <1>3 DEF ListChanges, cache
<1>4. CASE TimePasses
  BY <1>4 DEF TimePasses
<1> QED
  BY <1>1, <1>2, <1>3, <1>4 DEF Next, StepOf, vars, cache

\* Only a disturbed cache is thrown away: by the one step that clears it, or
\* by the age of its rows.
LEMMA DisturbedBeforeReset ==
    ListInv /\ ChainInv /\ [Next]_vars
    => (pages # NoPages /\ pages' = NoPages => disturbed \/ disturbed')
<1> SUFFICES ASSUME ListInv, ChainInv, [Next]_vars, pages # NoPages, pages' = NoPages,
                    ~disturbed, ~disturbed'
             PROVE  FALSE
  OBVIOUS
<1>1. CASE UNCHANGED pages
  BY <1>1
<1>2. ASSUME NEW w \in Walks, StepOf(w) PROVE FALSE
  <2>1. \/ pages' = pages
        \/ StorePage(w) /\ pages' = [pages EXCEPT ![walk[w].cursor] = walk[w].page]
        \/ Reset(w)
    BY <1>2, WalkKeepsList
  <2>2. CASE Reset(w)
    BY <1>2, <2>2 DEF Reset, ChainInv, OnChain
  <2>3. CASE StorePage(w) /\ pages' = [pages EXCEPT ![walk[w].cursor] = walk[w].page]
    <3>1. walk[w].cursor \in Cursors /\ walk[w].page \in Page
      BY <2>3 DEF StorePage, ListInv, Typed, TypeOK, PageInHand, Walk
    <3>2. pages'[walk[w].cursor] # Absent
      BY <2>3, <3>1, RowsArePresent DEF ListInv, Typed, TypeOK
    <3> QED
      BY <3>1, <3>2 DEF NoPages
  <2> QED
    BY <2>1, <2>2, <2>3
<1>3. CASE ListChanges \/ TimePasses
  BY <1>3 DEF ListChanges, TimePasses, cache
<1> QED
  BY <1>1, <1>2, <1>3 DEF Next, StepOf, vars, cache

\* Cached pages are thrown away only after a fault that left them without a
\* checkpoint, after their time, or when two walks overlapped (WorkIsKept):
\* no cancellation, refused request, failed write of a page or crash in
\* between makes artist_catalog forget what it has read.
THEOREM DiscoveredWorkIsKept == Spec => WorkIsKept
<1>1. Init => ChainInv
  BY IdleFields
  DEF Init, ChainInv, Alone, Walking, OneChain, Continued, OnChain, LastPage, Present, NoPages
<1>2. ListInv /\ ChainInv /\ [Next]_vars
      => [pages # NoPages /\ pages' = NoPages => disturbed \/ disturbed']_vars
  BY DisturbedBeforeReset
<1> QED
  BY <1>1, <1>2, ListStarts, ListKept, ChainKept, PTL DEF Spec, WorkIsKept

=============================================================================
