------------------------- MODULE AppLifecycleProofs -------------------------
(***************************************************************************)
(* Two parts, for any number of callers, folders and requests.  First the  *)
(* write queue alone: types, mutual exclusion and the exactness of its     *)
(* counter, whatever order the locks serve their waiters in.  Then the     *)
(* processes around it: they use the queue as WriteQueue specifies it, so  *)
(* its theorems are theirs, and none of their ends cuts off what it should *)
(* not.                                                                    *)
(***************************************************************************)
EXTENDS AppLifecycle, FiniteSetTheorems, SequenceTheorems, TLAPS

----------------------------------------------------------------------------
(* The write queue.                                                        *)

CallOK == call \in [Writers -> [at : Places, mode : Modes, folder : Folders \cup {Nowhere}]]

GuardTypeOK ==
    /\ CallOK
    /\ readers \in SUBSET Writers
    /\ writer \in Writers \cup {Nobody}
    /\ owner \in [Gates -> Writers \cup {Nobody}]

\* Which steps a call of each mode goes through.
ModeOfPlace ==
    \A w \in Writers :
        /\ At(w, "gate") => call[w].mode \in Shared
        /\ At(w, "coordinate") => call[w].mode # "try"
        /\ call[w].at \in {"try", "recheck", "count"} => call[w].mode = "try"
        /\ ~At(w, "idle") => call[w].folder \in Folders

\* What a call holds at each of its steps.
ReadersHold ==
    \A w \in Writers :
        call[w].mode \in Shared /\ call[w].at \in {"gate", "work", "leave"} => w \in readers

OwnersHold ==
    \A w \in Writers :
        call[w].mode \in Shared /\ call[w].at \in {"work", "leave"} => owner[GateOf(w)] = w

WriterHolds ==
    \A w \in Writers :
        call[w].mode \notin Shared /\ call[w].at \in {"recheck", "count", "work", "leave"}
            => writer = w

\* The coordination lock is a read-write lock.
ReadersOrWriter == writer # Nobody => readers = {}

LockInv ==
    GuardTypeOK /\ ModeOfPlace /\ ReadersHold /\ OwnersHold /\ WriterHolds /\ ReadersOrWriter

----------------------------------------------------------------------------
\* The locks are free and every call is idle at the start.
LEMMA LocksStartFree == QueueInit => LockInv
  BY QueueAssumption
  DEF QueueInit, LockInv, GuardTypeOK, CallOK, ModeOfPlace, ReadersHold, OwnersHold,
      WriterHolds, ReadersOrWriter, IdleCall, At, Places, Modes, Shared, Gates

\* Every step keeps the locks and what the calls believe they hold in agreement.
LEMMA LocksAgree == LockInv /\ [QueueNext]_queueVars => LockInv'
<1> SUFFICES ASSUME LockInv, [QueueNext]_queueVars PROVE LockInv'
  OBVIOUS
<1> USE QueueAssumption
<1> USE DEF LockInv, GuardTypeOK, CallOK, ModeOfPlace, ReadersHold, OwnersHold,
            WriterHolds, ReadersOrWriter, IdleCall, At, Places, Modes, Shared, Gates,
            GateOf, Move
<1>1. CASE UNCHANGED queueVars
  BY <1>1 DEF queueVars
<1>2. CASE \E w \in Writers, mode \in Modes, folder \in Folders : Call(w, mode, folder)
  BY <1>2 DEF Call, Idle
<1>3. CASE \E w \in Writers, folder \in Folders : Try(w, folder)
  BY <1>3 DEF Try, Idle
<1>4. CASE \E w \in Writers : GrantShared(w)
  BY <1>4 DEF GrantShared
<1>5. CASE \E w \in Writers : GrantExclusive(w)
  BY <1>5 DEF GrantExclusive
<1>6. CASE \E w \in Writers : Enter(w)
  BY <1>6 DEF Enter
<1>7. CASE \E w \in Writers : TryLock(w)
  BY <1>7 DEF TryLock
<1>8. CASE \E w \in Writers : Recheck(w)
  BY <1>8 DEF Recheck
<1>9. CASE \E w \in Writers : Count(w)
  BY <1>9 DEF Count
<1>10. CASE \E w \in Writers : Done(w)
  BY <1>10 DEF Done
<1>11. CASE \E w \in Writers : Leave(w)
  BY <1>11 DEF Leave, FreeLocks
<1>12. CASE \E w \in Writers : Drop(w)
  BY <1>12 DEF Drop, FreeLocks
<1>13. CASE \E w \in Writers : LeftoverEnds(w)
  BY <1>13 DEF LeftoverEnds
<1> QED
  BY <1>1, <1>2, <1>3, <1>4, <1>5, <1>6, <1>7, <1>8, <1>9, <1>10, <1>11, <1>12, <1>13
  DEF QueueNext, Waits, Tries

LEMMA LocksAlwaysAgree == QueueSpec => []LockInv
  BY LocksStartFree, LocksAgree, PTL DEF QueueSpec

----------------------------------------------------------------------------
\* An operation under the write guard is the only one that runs, and behind each
\* gate there is one at a time (run, run_for_folder, run_exclusive,
\* try_run_exclusive).
THEOREM QueueExcludes == QueueSpec => []OperationsExclude
<1>1. LockInv => ExclusiveRunsAlone
  BY QueueAssumption
  DEF LockInv, GuardTypeOK, CallOK, ReadersHold, WriterHolds, ReadersOrWriter,
      ExclusiveRunsAlone, Working, At, Shared, Modes
<1>2. LockInv => GatesSerialize
  BY DEF LockInv, OwnersHold, GatesSerialize, Working, At
<1>3. LockInv => OperationsExclude
  BY <1>1, <1>2 DEF OperationsExclude
<1> QED
  BY <1>3, LocksAlwaysAgree, PTL

----------------------------------------------------------------------------
(* The activity counter.                                                   *)

CountedCalls == {w \in Writers : call[w].at \in Counted}

LEMMA CountedFinite == IsFiniteSet(CountedCalls)
  BY QueueAssumption, FS_Subset DEF QueueAssumption, CountedCalls

\* A call that starts to count.
LEMMA CountUp ==
    ASSUME CountIsExact, NEW w \in Writers, w \notin CountedCalls,
           CountedCalls' = CountedCalls \cup {w}, active' = active + 1
    PROVE  CountIsExact'
<1>1. Cardinality(CountedCalls \cup {w}) = Cardinality(CountedCalls) + 1
  BY CountedFinite, FS_AddElement
<1> QED
  BY <1>1 DEF CountIsExact, CountedCalls

\* A call that stops.
LEMMA CountDown ==
    ASSUME CountIsExact, NEW w \in CountedCalls,
           CountedCalls' = CountedCalls \ {w}, active' = active - 1
    PROVE  CountIsExact'
<1>1. Cardinality(CountedCalls \ {w}) = Cardinality(CountedCalls) - 1
  BY CountedFinite, FS_RemoveElement
<1> QED
  BY <1>1 DEF CountIsExact, CountedCalls

\* A call that does neither.
LEMMA CountKept ==
    ASSUME CountIsExact, CountedCalls' = CountedCalls, active' = active
    PROVE  CountIsExact'
  BY DEF CountIsExact, CountedCalls

LEMMA CountStartsExact == QueueInit => CountIsExact
<1> SUFFICES ASSUME QueueInit PROVE CountIsExact
  OBVIOUS
<1>1. CountedCalls = {}
  BY DEF QueueInit, CountedCalls, IdleCall, Counted
<1> QED
  BY <1>1, FS_EmptySet DEF QueueInit, CountIsExact, CountedCalls

\* A queue that counts nothing has no call that waits or runs.
LEMMA CounterAgrees == CountIsExact => (active > 0 <=> CountedCalls # {})
  BY CountedFinite, FS_EmptySet, FS_CardinalityType DEF CountIsExact, CountedCalls

LEMMA CountStep == CountIsExact /\ LockInv /\ [QueueNext]_queueVars => CountIsExact'
<1> SUFFICES ASSUME CountIsExact, LockInv, [QueueNext]_queueVars PROVE CountIsExact'
  OBVIOUS
<1> USE DEF LockInv, GuardTypeOK, CallOK, IdleCall, At, Counted, Move, CountedCalls
<1>1. CASE UNCHANGED queueVars
  BY <1>1, CountKept DEF queueVars
<1>2. CASE \E w \in Writers, mode \in Modes, folder \in Folders : Call(w, mode, folder)
  <2> PICK w \in Writers, mode \in Modes, folder \in Folders : Call(w, mode, folder)
    BY <1>2
  <2>1. w \notin CountedCalls /\ CountedCalls' = CountedCalls \cup {w}
    BY DEF Call, Idle
  <2> QED BY <2>1, CountUp DEF Call
<1>3. CASE \E w \in Writers, folder \in Folders : Try(w, folder)
  BY <1>3, CountKept DEF Try, Idle
<1>4. CASE \E w \in Writers : Waits(w)
  BY <1>4, CountKept DEF Waits, GrantShared, GrantExclusive, Enter
<1>5. CASE \E w \in Writers : TryLock(w) \/ Recheck(w)
  BY <1>5, CountKept DEF TryLock, Recheck
<1>6. CASE \E w \in Writers : Count(w)
  <2> PICK w \in Writers : Count(w)
    BY <1>6
  <2>1. w \notin CountedCalls /\ CountedCalls' = CountedCalls \cup {w}
    BY DEF Count
  <2> QED BY <2>1, CountUp DEF Count
<1>7. CASE \E w \in Writers : Done(w)
  <2> PICK w \in Writers : Done(w)
    BY <1>7
  <2>1. w \in CountedCalls /\ CountedCalls' = CountedCalls \ {w}
    BY DEF Done
  <2> QED BY <2>1, CountDown DEF Done
<1>8. CASE \E w \in Writers : Leave(w) \/ LeftoverEnds(w)
  BY <1>8, CountKept DEF Leave, LeftoverEnds
<1>9. CASE \E w \in Writers : Drop(w)
  <2> PICK w \in Writers : Drop(w)
    BY <1>9
  <2>1. w \in CountedCalls /\ CountedCalls' = CountedCalls \ {w}
    BY DEF Drop
  <2> QED BY <2>1, CountDown DEF Drop
<1> QED
  BY <1>1, <1>2, <1>3, <1>4, <1>5, <1>6, <1>7, <1>8, <1>9 DEF QueueNext, Tries

\* The activity counter never drifts from the calls that wait or run, so no
\* quit prompt or update sees an idle queue while a call holds or awaits a lock.
THEOREM CounterIsExact == QueueSpec => []CountIsExact
  BY CountStartsExact, CountStep, LocksAlwaysAgree, PTL DEF QueueSpec

----------------------------------------------------------------------------
(* Types.                                                                  *)

\* A waiter that gives up its place leaves a line of writers.
LEMMA WithoutType ==
    ASSUME NEW s \in Seq(Writers), NEW w
    PROVE  Without(s, w) \in Seq(Writers)
<1>1. CASE \E i \in 1 .. Len(s) : s[i] = w
  <2> DEFINE i == CHOOSE i \in 1 .. Len(s) : s[i] = w
  <2>1. i \in 1 .. Len(s)
    BY <1>1
  <2> HIDE DEF i
  <2>2. SubSeq(s, 1, i - 1) \in Seq(Writers) /\ SubSeq(s, i + 1, Len(s)) \in Seq(Writers)
    BY <2>1, SubSeqProperties
  <2>3. SubSeq(s, 1, i - 1) \o SubSeq(s, i + 1, Len(s)) \in Seq(Writers)
    BY <2>2, ConcatProperties
  <2> QED
    BY <1>1, <2>3 DEF Without, Seqs!RemoveAt, i
<1> QED
  BY <1>1 DEF Without

\* What the lock invariant does not type: the lines and the leftovers.
LinesOK ==
    /\ line \in [Locks -> Seq(Writers)]
    /\ leftover \in [Writers -> Folders \cup {Nowhere}]

LEMMA LinesStayTyped == LinesOK /\ LockInv /\ [QueueNext]_queueVars => LinesOK'
<1> SUFFICES ASSUME LinesOK, LockInv, [QueueNext]_queueVars PROVE LinesOK'
  OBVIOUS
<1> USE QueueAssumption
<1> USE DEF LinesOK, LockInv, GuardTypeOK, CallOK, Locks, Gates
<1>1. CASE UNCHANGED queueVars
  BY <1>1 DEF queueVars
<1>2. CASE \E w \in Writers, mode \in Modes, folder \in Folders : Call(w, mode, folder)
  BY <1>2 DEF Call
<1>3. CASE \E w \in Writers, folder \in Folders : Try(w, folder)
  BY <1>3 DEF Try
<1>4. CASE \E w \in Writers : GrantShared(w)
  <2> PICK w \in Writers : GrantShared(w)
    BY <1>4
  <2>1. GateOf(w) \in Gates
    BY DEF GrantShared, GateOf, At, ModeOfPlace
  <2>2. line[Coordination] # <<>> /\ Tail(line[Coordination]) \in Seq(Writers)
    BY DEF GrantShared, IsNext
  <2>3. Append(line[GateOf(w)], w) \in Seq(Writers)
    BY <2>1
  <2> QED
    BY <2>1, <2>2, <2>3 DEF GrantShared
<1>5. CASE \E w \in Writers : GrantExclusive(w)
  BY <1>5 DEF GrantExclusive, IsNext
<1>6. CASE \E w \in Writers : Enter(w)
  <2> PICK w \in Writers : Enter(w)
    BY <1>6
  <2>1. GateOf(w) \in Gates
    BY DEF Enter, GateOf, At, ModeOfPlace
  <2>2. line[GateOf(w)] # <<>> /\ Tail(line[GateOf(w)]) \in Seq(Writers)
    BY <2>1 DEF Enter, IsNext
  <2> QED
    BY <2>1, <2>2 DEF Enter
<1>7. CASE \E w \in Writers : Tries(w)
  BY <1>7 DEF Tries, TryLock, Recheck, Count
<1>8. CASE \E w \in Writers : Done(w) \/ Leave(w)
  BY <1>8 DEF Done, Leave
<1>9. CASE \E w \in Writers : Drop(w)
  <2> PICK w \in Writers : Drop(w)
    BY <1>9
  <2>1. line' \in [Locks -> Seq(Writers)]
    BY WithoutType DEF Drop
  <2>2. leftover' \in [Writers -> Folders \cup {Nowhere}]
    BY DEF Drop
  <2> QED
    BY <2>1, <2>2
<1>10. CASE \E w \in Writers : LeftoverEnds(w)
  BY <1>10 DEF LeftoverEnds
<1> QED
  BY <1>1, <1>2, <1>3, <1>4, <1>5, <1>6, <1>7, <1>8, <1>9, <1>10 DEF QueueNext, Waits

LEMMA LinesStartTyped == QueueInit => LinesOK
  BY QueueAssumption DEF QueueInit, LinesOK

LEMMA QueueIsTyped == LinesOK /\ LockInv /\ CountIsExact => QueueTypeOK
<1> SUFFICES ASSUME LinesOK, LockInv, CountIsExact PROVE QueueTypeOK
  OBVIOUS
<1>1. active \in Nat
  BY CountedFinite, FS_CardinalityType DEF CountIsExact, CountedCalls
<1> QED
  BY <1>1 DEF QueueTypeOK, LinesOK, LockInv, GuardTypeOK, CallOK

\* Every variable of the queue keeps its type: no call is lost from a line, no
\* lock is held by anything but a writer and the counter never falls below zero.
THEOREM QueueTypes == QueueSpec => []QueueTypeOK
  BY LinesStartTyped, LinesStayTyped, QueueIsTyped, LocksAlwaysAgree, CounterIsExact, PTL
  DEF QueueSpec


----------------------------------------------------------------------------
(* The process's own variables.                                            *)

LifeTypeOK ==
    /\ app \in {"desktop", "server"} /\ process \in {"up", "exit", "restart"}
    /\ installing \in BOOLEAN /\ update \in BOOLEAN
    /\ install \in {"none", "begun", "run", "failed", "succeeded"}
    /\ installer \in Writers \cup {Nobody}
    /\ installer # Nobody <=> install = "run"
    /\ installing <=> install # "none"
    /\ exit \in {"none", "requested", "read", "leaving"} /\ saw \in BOOLEAN
    /\ forced \in BOOLEAN /\ dialog \in {"none", "installation", "operation"}
    /\ callers \subseteq Writers
    /\ seen \subseteq Writers /\ begun \in BOOLEAN /\ confirmed \in BOOLEAN

\* What is noted of an exit is still under way; an idle queue had nothing to
\* cut off; and an exit that is let through has nothing noted against it but
\* operations the user gave up.
ExitKnows ==
    /\ seen \subseteq CountedNow
    /\ begun => installing
    /\ forced => confirmed
    /\ exit = "read" /\ ~saw => seen = {}
    /\ exit = "leaving" => ~begun /\ (seen = {} \/ confirmed)

\* Only the desktop app installs updates.
DesktopInstalls == installing => app = "desktop"

LifeInv == LifeTypeOK /\ ExitKnows /\ DesktopInstalls

LEMMA LifeStarts == LifecycleInit => LifeInv
  BY QueueAssumption, LifecycleAssumption
     DEF LifecycleInit, LifeInv, LifeTypeOK, ExitKnows, DesktopInstalls

----------------------------------------------------------------------------
(* The queue's own specification.                                          *)

LEMMA UpdaterUsesTheQueue ==
    ASSUME TryInstall \/ InstallTries \/ InstallEnds, LifeTypeOK
    PROVE  [QueueNext]_queueVars
<1>1. CASE TryInstall
  BY <1>1 DEF TryInstall, QueueNext
<1>2. CASE InstallTries
  BY <1>2 DEF InstallTries, QueueNext, LifeTypeOK
<1>3. CASE InstallEnds
  BY <1>3 DEF InstallEnds, QueueNext, LifeTypeOK
<1> QED
  BY <1>1, <1>2, <1>3

LEMMA StepUsesTheQueue ==
    LifeTypeOK /\ [LifecycleNext]_vars => [QueueNext]_queueVars
<1> SUFFICES ASSUME LifeTypeOK, [LifecycleNext]_vars PROVE [QueueNext]_queueVars
  OBVIOUS
<1>1. CASE UNCHANGED vars
  BY <1>1 DEF vars
<1>2. CASE NewCall \/ \E w \in Writers : Step(Queue(w) \/ ClientLeaves(w))
  BY <1>2 DEF NewCall, Step, UserCalls, Queue, UserLeaves, ClientLeaves, QueueNext
<1>3. CASE Check \/ BeginInstall \/ FinishInstall
  BY <1>3 DEF Check, BeginInstall, FinishInstall
<1>4. CASE TryInstall \/ InstallTries \/ InstallEnds
  BY <1>4, UpdaterUsesTheQueue
<1>5. CASE RequestExit \/ Handler \/ Answer
  BY <1>5 DEF RequestExit, Handler, HandlerReads, HandlerDecides, Answer
<1>6. CASE Signal \/ Drained \/ Exits
  BY <1>6 DEF Signal, Drained, Exits
<1> QED
  BY <1>1, <1>2, <1>3, <1>4, <1>5, <1>6 DEF LifecycleNext, Updater

LEMMA LifeStep == LifeInv /\ CountIsExact /\ [LifecycleNext]_vars => LifeInv'
<1> SUFFICES ASSUME LifeInv, CountIsExact, [LifecycleNext]_vars PROVE LifeInv'
  OBVIOUS
<1> USE QueueAssumption
<1> USE DEF LifeInv, LifeTypeOK, ExitKnows, DesktopInstalls, Up, ghosts
<1>a. CountedNow \subseteq Writers /\ (UNCHANGED queueVars => CountedNow' = CountedNow)
  BY DEF CountedNow, queueVars
<1>b. StillSeen => /\ seen' \subseteq CountedNow' /\ seen' \subseteq seen
                   /\ UNCHANGED <<begun, confirmed>>
  BY DEF StillSeen
<1>c. Note => /\ seen' = CountedNow /\ seen' \subseteq Writers
              /\ begun' = installing /\ UNCHANGED confirmed
  BY <1>a DEF Note
<1>d. active = 0 \/ ~(active > 0) => CountedNow = {}
  BY CounterAgrees DEF CountedNow, CountedCalls
<1> HIDE DEF ghosts
<1>1. CASE UNCHANGED vars
  BY <1>1, <1>a DEF vars, lifeVars, appVars, ghosts
<1>2. CASE NewCall \/ \E w \in Writers : Step(Queue(w) \/ ClientLeaves(w))
  <2>1. StillSeen /\ UNCHANGED appVars
    BY <1>2 DEF NewCall, Step
  <2> QED
    BY <1>b, <2>1 DEF appVars
<1>3. CASE Check
  BY <1>3, <1>a DEF Check, ghosts
<1>4. CASE BeginInstall
  BY <1>4, <1>a DEF BeginInstall, ghosts
<1>5. CASE TryInstall
  BY <1>5, <1>b DEF TryInstall
<1>6. CASE InstallTries
  BY <1>6, <1>b DEF InstallTries
<1>7. CASE InstallEnds
  BY <1>7, <1>b DEF InstallEnds
<1>8. CASE FinishInstall
  BY <1>8, <1>a DEF FinishInstall, ClearInstalling
<1>9. CASE RequestExit
  BY <1>9, <1>a DEF RequestExit, ghosts
<1>10. CASE HandlerReads
  <2>0. (saw' <=> active > 0) /\ saw' \in BOOLEAN
    <3>1. saw' = (active > 0)
      BY <1>10, Zenon DEF HandlerReads
    <3>2. (active > 0) \in BOOLEAN
      OBVIOUS
    <3> QED
      BY <3>1, <3>2, Zenon
  <2>1. saw' \in BOOLEAN /\ (~saw' => seen' = {})
    BY <1>10, <1>c, <1>d, <2>0 DEF HandlerReads
  <2>2. exit' = "read" /\ seen' \subseteq CountedNow' /\ (forced' => confirmed')
    BY <1>10, <1>a, <1>c DEF HandlerReads
  <2> QED
    BY <1>10, <1>c, <2>1, <2>2 DEF HandlerReads
<1>11. CASE HandlerDecides
  BY <1>11, <1>a DEF HandlerDecides, Protection, Prompt, ghosts
<1>12. CASE Answer
  <2>1. CASE FinishDialog(FALSE) /\ UNCHANGED <<exit, confirmed>>
    BY <1>12, <1>a, <2>1 DEF Answer, FinishDialog
  <2>2. CASE exit = "none" /\ FinishDialog(TRUE) /\ exit' = "requested" /\ confirmed' = TRUE
    BY <1>12, <1>a, <2>2 DEF Answer, FinishDialog
  <2> QED
    BY <1>12, <2>1, <2>2 DEF Answer
<1>13. CASE Signal
  BY <1>13, <1>a, <1>c DEF Signal
<1>14. CASE Drained
  BY <1>14, <1>a, <1>d DEF Drained, ghosts
<1>15. CASE Exits
  BY <1>15, <1>a DEF Exits, ghosts
<1> QED
  BY <1>1, <1>2, <1>3, <1>4, <1>5, <1>6, <1>7, <1>8, <1>9, <1>10, <1>11, <1>12, <1>13, <1>14, <1>15
  DEF LifecycleNext, Updater, Handler

----------------------------------------------------------------------------
(* The theorems.                                                           *)

LEMMA LifecycleInvariant ==
    LifecycleSpec => [](LinesOK /\ LockInv /\ CountIsExact /\ LifeInv)
<1>1. LifecycleInit => LinesOK /\ LockInv /\ CountIsExact /\ LifeInv
  BY LifeStarts, LocksStartFree, LinesStartTyped, CountStartsExact DEF LifecycleInit
<1>2. (LinesOK /\ LockInv /\ CountIsExact /\ LifeInv) /\ [LifecycleNext]_vars
      => (LinesOK /\ LockInv /\ CountIsExact /\ LifeInv)'
  BY StepUsesTheQueue, LinesStayTyped, LocksAgree, CountStep, LifeStep DEF LifeInv
<1> QED
  BY <1>1, <1>2, PTL DEF LifecycleSpec

\* The web server and the desktop app, its update installation included, use the
\* write queue as its own specification allows: what is proved of every caller
\* of WriteQueue holds of theirs.
THEOREM LifecycleKeepsTheQueue == LifecycleSpec => QueueSpec
<1>1. LifeInv /\ [LifecycleNext]_vars => [QueueNext]_queueVars
  BY StepUsesTheQueue DEF LifeInv
<1>2. LifecycleInit => QueueInit
  BY DEF LifecycleInit
<1> QED
  BY <1>1, <1>2, LifecycleInvariant, PTL DEF LifecycleSpec, QueueSpec

\* Types of the queue and of the process, and the updater's flag, which is up
\* exactly while an installation is under way.
THEOREM LifecycleTypes == LifecycleSpec => []LifecycleTypeOK
<1>1. LinesOK /\ LockInv /\ CountIsExact /\ LifeInv => LifecycleTypeOK
  BY QueueIsTyped DEF LifeInv, LifeTypeOK, LifecycleTypeOK
<1> QED
  BY <1>1, LifecycleInvariant, PTL

\* Only the step that ends the process lets it exit.
LEMMA WhoExits ==
    ASSUME [LifecycleNext]_vars, process' = "exit", process = "up"
    PROVE  Exits
<1> SUFFICES ASSUME LifecycleNext, ~Exits PROVE process' # "exit"
  BY DEF vars, lifeVars, appVars
<1>1. CASE NewCall \/ \E w \in Writers : Step(Queue(w) \/ ClientLeaves(w))
  BY <1>1 DEF NewCall, Step, appVars
<1>2. CASE Check \/ BeginInstall
  BY <1>2 DEF Check, BeginInstall
<1>3. CASE TryInstall \/ InstallTries \/ InstallEnds
  BY <1>3 DEF TryInstall, InstallTries, InstallEnds
<1>4. CASE FinishInstall
  BY <1>4 DEF FinishInstall
<1>5. CASE RequestExit \/ Handler \/ Answer
  BY <1>5 DEF RequestExit, Handler, HandlerReads, HandlerDecides, Answer
<1>6. CASE Signal \/ Drained
  BY <1>6 DEF Signal, Drained
<1> QED
  BY <1>1, <1>2, <1>3, <1>4, <1>5, <1>6 DEF LifecycleNext, Updater

\* desktop.rs, quit_protection; server.rs, wait_for_active_writes: between the
\* look at the queue and the end of the process, calls come and go and an
\* installation may begin or end; yet nothing the look found is cut off, but for
\* operations the user chose to give up.
THEOREM ExitSparesTheSeen == LifecycleSpec => ExitSparesWhatItSaw
<1>1. LifeInv /\ [LifecycleNext]_vars
      => [process' = "exit" /\ process = "up" => ~begun /\ (seen = {} \/ confirmed)]_vars
  <2> SUFFICES ASSUME LifeInv, [LifecycleNext]_vars, process' = "exit", process = "up"
               PROVE  ~begun /\ (seen = {} \/ confirmed)
    OBVIOUS
  <2>1. exit = "leaving"
    BY WhoExits DEF Exits
  <2> QED
    BY <2>1 DEF LifeInv, ExitKnows
<1> QED
  BY <1>1, LifecycleInvariant, PTL DEF LifecycleSpec, ExitSparesWhatItSaw
=============================================================================
