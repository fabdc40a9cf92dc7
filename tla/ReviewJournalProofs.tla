------------------------ MODULE ReviewJournalProofs ------------------------
(***************************************************************************)
(* The review journal: its types, its backups, and whose work a revert      *)
(* touches, for any number of runs, albums, shared files and faults.        *)
(***************************************************************************)
EXTENDS ReviewJournal, SequenceTheorems, TLAPS

Stacks == {s \in Seq(Runs) : \A i \in 1 .. Len(s) - 1 : s[i] # s[i + 1]}

----------------------------------------------------------------------------
(* The stack of runs that wrote a file.                                    *)

\* A run is never pushed on itself, and taking the top off leaves a stack.
LEMMA PushedIsStack ==
    ASSUME NEW s \in Stacks, NEW r \in Runs
    PROVE  Pushed(s, r) \in Stacks
<1>1. CASE Top(s) = r
  BY <1>1 DEF Pushed
<1>2. CASE Top(s) # r
  <2>1. Append(s, r) \in Seq(Runs) /\ Len(Append(s, r)) = Len(s) + 1
    BY DEF Stacks
  <2>2. ASSUME NEW i \in 1 .. Len(s) PROVE Append(s, r)[i] # Append(s, r)[i + 1]
    <3>1. CASE i = Len(s)
      BY <1>2, <3>1, RunsAssumption DEF Top, Stacks
    <3>2. CASE i # Len(s)
      BY <3>2 DEF Stacks
    <3> QED
      BY <3>1, <3>2
  <2>3. Len(s) \in Nat /\ Len(Append(s, r)) - 1 = Len(s)
    BY <2>1 DEF Stacks
  <2>4. Append(s, r) \in Stacks
    BY <2>1, <2>2, <2>3 DEF Stacks
  <2> QED
    BY <1>2, <2>4 DEF Pushed
<1> QED
  BY <1>1, <1>2

LEMMA Prefix ==
    ASSUME NEW s \in Seq(Runs), NEW n \in Nat, n <= Len(s)
    PROVE  /\ SubSeq(s, 1, n) \in Seq(Runs)
           /\ Len(SubSeq(s, 1, n)) = n
           /\ \A i \in 1 .. n : SubSeq(s, 1, n)[i] = s[i]
  OBVIOUS

LEMMA PoppedIsStack ==
    ASSUME NEW s \in Stacks, NEW r \in Runs
    PROVE  Popped(s, r) \in Stacks
<1>1. CASE Top(s) = r
  <2> DEFINE n == Len(s) - 1
             t == SubSeq(s, 1, n)
  <2>1. s # <<>>
    BY <1>1, RunsAssumption DEF Top
  <2>2. s \in Seq(Runs) /\ n \in Nat /\ n <= Len(s)
    BY <2>1, EmptySeq DEF Stacks
  <2> HIDE DEF n
  <2>3. t \in Seq(Runs) /\ Len(t) = n /\ \A i \in 1 .. n : t[i] = s[i]
    BY <2>2, Prefix
  <2>4. \A i \in 1 .. n : s[i] # s[i + 1]
    BY DEF Stacks, n
  <2> HIDE DEF t
  <2>5. t \in Stacks
    BY <2>2, <2>3, <2>4 DEF Stacks
  <2> QED
    BY <1>1, <2>5 DEF Popped, n, t
<1>2. CASE Top(s) # r
  BY <1>2 DEF Popped
<1> QED
  BY <1>1, <1>2

----------------------------------------------------------------------------
(* Types.                                                                  *)

\* The type invariant, part by part.
FilesTyped ==
    /\ content \in [Files -> Contents]
    /\ owners \in [Files -> Stacks]
    /\ lastWriter \in [Files -> Runs \cup {NoRun, Edited}]

JournalTyped ==
    /\ outcome \in [Runs -> {"none", "running", "done"}]
    /\ decision \in [Runs -> {"pending", "kept", "reverted"}]
    /\ canRevert \in [Runs -> BOOLEAN]
    /\ album \in [Runs -> Albums \cup {Absent}]
    /\ change \in [Runs -> [Files -> Change]]
    /\ origin \in [Runs -> [Files -> Contents]]
    /\ heir \in [Runs -> [Files -> Runs \cup {NoRun, Edited}]]
    /\ mixed \subseteq Files

StoreTyped ==
    /\ listed \subseteq Runs /\ dir \in BOOLEAN
    /\ busy \in Runs \cup {NoRun} /\ step \in {"idle", "begin", "found", "locked"}
    /\ clearing \in {"no", "records", "owners"}
    /\ writes \in [Runs -> 0 .. MaxWrites] /\ edits \in 0 .. MaxEdits /\ faults \in 0 .. MaxFaults

Typed == FilesTyped /\ JournalTyped /\ StoreTyped

LEMMA TypedIsTypeOK == Typed <=> JournalTypeOK
  BY DEF Typed, FilesTyped, JournalTyped, StoreTyped, JournalTypeOK, Stacks

LEMMA InitTyped == Init => Typed
<1> SUFFICES ASSUME Init PROVE Typed
  OBVIOUS
<1>1. <<>> \in Stacks
  BY DEF Stacks
<1>2. Untouched \in Change
  BY DEF Untouched, Change, Contents
<1>3. FilesTyped
  BY <1>1 DEF Init, FilesTyped, Contents
<1>4. JournalTyped
  BY <1>2 DEF Init, JournalTyped, Contents
<1>5. StoreTyped
  <2>1. 0 \in 0 .. MaxWrites /\ 0 \in 0 .. MaxEdits /\ 0 \in 0 .. MaxFaults
    BY BoundsAssumption
  <2> QED
    BY <2>1 DEF Init, StoreTyped
<1> QED
  BY <1>3, <1>4, <1>5 DEF Typed

\* What a write leaves in the journal.
LEMMA JournalledTyped ==
    ASSUME Typed, NEW r \in Runs, NEW f \in Files, NEW ok \in BOOLEAN,
           NEW new \in Contents, NEW seen \in BOOLEAN, Journalled(r, f, ok, new, seen)
    PROVE  FilesTyped' /\ change' \in [Runs -> [Files -> Change]]
           /\ origin' \in [Runs -> [Files -> Contents]]
           /\ heir' \in [Runs -> [Files -> Runs \cup {NoRun, Edited}]]
           /\ mixed' \subseteq Files
<1> USE DEF Typed, FilesTyped, JournalTyped
<1> DEFINE first == ~change[r][f].known
           entry == IF first
                    THEN [Untouched EXCEPT !.known = TRUE,
                             !.backup = IF content[f] = Absent THEN "none" ELSE "kept",
                             !.before = content[f], !.after = content[f]]
                    ELSE change[r][f]
           tracked == ok \/ entry.before # new
           after == IF seen THEN [entry EXCEPT !.after = new, !.verified = TRUE, !.tracked = tracked]
                    ELSE entry
<1>1. entry \in Change
  <2>1. change[r][f] \in Change /\ content[f] \in Contents
    OBVIOUS
  <2> QED
    BY <2>1 DEF Change, Untouched
<1> HIDE DEF entry
<1>2. after \in Change
  BY <1>1 DEF Change
<1> HIDE DEF after
<1>3. change' = [change EXCEPT ![r][f] = after]
  BY DEF Journalled, after, entry
<1>4. change' \in [Runs -> [Files -> Change]]
  BY <1>2, <1>3
<1>5. Pushed(owners[f], r) \in Stacks
  BY PushedIsStack
<1>6. owners' \in [Files -> Stacks]
  BY <1>5 DEF Journalled
<1>7. content' \in [Files -> Contents] /\ lastWriter' \in [Files -> Runs \cup {NoRun, Edited}]
  BY DEF Journalled
<1>8. /\ origin' \in [Runs -> [Files -> Contents]]
      /\ heir' \in [Runs -> [Files -> Runs \cup {NoRun, Edited}]]
  BY DEF Journalled
<1>9. mixed' \subseteq Files
  BY DEF Journalled
<1> QED
  BY <1>4, <1>6, <1>7, <1>8, <1>9

LEMMA ChangeUpdates ==
    ASSUME NEW c \in Change
    PROVE  [c EXCEPT !.restored = TRUE] \in Change /\ [c EXCEPT !.backup = "lost"] \in Change
  BY DEF Change

LEMMA StepTyped == Typed /\ [JournalNext]_journalVars => Typed'
<1> SUFFICES ASSUME Typed, [JournalNext]_journalVars PROVE Typed'
  OBVIOUS
<1> USE BoundsAssumption
<1> USE DEF Typed, FilesTyped, JournalTyped, StoreTyped
<1> USE DEF files, journal, store, guard, budget, history
<1>1. CASE UNCHANGED journalVars
  BY <1>1 DEF journalVars
<1>2. ASSUME NEW r \in Runs, RunStep(r) PROVE Typed'
  <2>1. CASE \E a \in Albums : BeginDirectory(r, a)
    BY <2>1 DEF BeginDirectory
  <2>2. CASE BeginPush(r)
    BY <2>2 DEF BeginPush
  <2>3. CASE \E f \in Files : Mutate(r, f)
    <3> PICK f \in Files : Mutate(r, f)
      BY <2>3
    <3>1. \E ok \in BOOLEAN, seen \in BOOLEAN, new \in Contents : Journalled(r, f, ok, new, seen)
      BY DEF Mutate, Contents
    <3>2. writes' \in [Runs -> 0 .. MaxWrites]
      BY DEF Mutate, MayWrite
    <3>3. faults' \in 0 .. MaxFaults
      <4>1. faults' = faults \/ (faults < MaxFaults /\ faults' = faults + 1)
        BY DEF Mutate, Fails
      <4> QED
        BY <4>1
    <3> QED
      BY <3>1, <3>2, <3>3, JournalledTyped DEF Mutate
  <2>4. CASE Finish(r)
    BY <2>4 DEF Finish
  <2>5. CASE Keep(r)
    BY <2>5 DEF Keep
  <2>6. CASE RevertFind(r)
    BY <2>6 DEF RevertFind
  <2>7. CASE RevertCheck(r)
    <3>1. \A f \in Files : [change[r][f] EXCEPT !.restored = TRUE] \in Change
      BY ChangeUpdates, ZenonT(30)
    <3>2. change' \in [Runs -> [Files -> Change]]
      BY <2>7, <3>1 DEF RevertCheck
    <3>3. owners' \in [Files -> Stacks]
      BY <2>7, PoppedIsStack DEF RevertCheck, OwnersAfterRecognition
    <3>4. lastWriter' \in [Files -> Runs \cup {NoRun, Edited}]
      BY <2>7 DEF RevertCheck
    <3> QED
      BY <2>7, <3>2, <3>3, <3>4 DEF RevertCheck
  <2>8. CASE \E f \in Files : RestoreFile(r, f)
    <3> PICK f \in Files : RestoreFile(r, f)
      BY <2>8
    <3>1. change[r][f] \in Change
      OBVIOUS
    <3>2. change' \in [Runs -> [Files -> Change]]
      BY <3>1 DEF RestoreFile, Change
    <3>3. content' \in [Files -> Contents] /\ lastWriter' \in [Files -> Runs \cup {NoRun, Edited}]
      BY <3>1 DEF RestoreFile, Change
    <3>4. owners' \in [Files -> Stacks]
      BY PoppedIsStack DEF RestoreFile
    <3> QED
      BY <3>2, <3>3, <3>4 DEF RestoreFile
  <2>9. CASE \E f \in Files : RestoreFails(r, f)
    <3> PICK f \in Files : RestoreFails(r, f)
      BY <2>9
    <3>1. change[r][f] \in Change
      OBVIOUS
    <3>2. change' \in [Runs -> [Files -> Change]]
      BY <3>1 DEF RestoreFails, Change
    <3>3. content' \in [Files -> Contents]
      BY <3>1 DEF RestoreFails, Change
    <3>4. faults' \in 0 .. MaxFaults
      BY DEF RestoreFails, Fails
    <3> QED
      BY <3>2, <3>3, <3>4 DEF RestoreFails
  <2>10. CASE RevertEnd(r)
    BY <2>10 DEF RevertEnd
  <2> QED
    BY <1>2, <2>1, <2>2, <2>3, <2>4, <2>5, <2>6, <2>7, <2>8, <2>9, <2>10 DEF RunStep
<1>3. CASE \E f \in Files : Edit(f)
  BY <1>3 DEF Edit, Contents
<1>4. CASE ClearRecords
  <2>1. [f \in Files |-> Untouched] \in [Files -> Change]
    BY DEF Untouched, Change, Contents
  <2>2. change' \in [Runs -> [Files -> Change]]
    BY <1>4, <2>1 DEF ClearRecords, Reset
  <2>3. /\ origin' \in [Runs -> [Files -> Contents]]
        /\ heir' \in [Runs -> [Files -> Runs \cup {NoRun, Edited}]]
    BY <1>4 DEF ClearRecords, Reset, Contents
  <2>4. /\ decision' \in [Runs -> {"pending", "kept", "reverted"}]
        /\ canRevert' \in [Runs -> BOOLEAN]
        /\ album' \in [Runs -> Albums \cup {Absent}]
    BY <1>4 DEF ClearRecords, Reset
  <2> QED
    BY <1>4, <2>2, <2>3, <2>4 DEF ClearRecords
<1>5. CASE ClearOwners
  <2>1. <<>> \in Stacks
    BY DEF Stacks
  <2> QED
    BY <1>5, <2>1 DEF ClearOwners
<1>6. CASE ClearDirectory
  <2>1. \A r \in Runs, f \in Files : [change[r][f] EXCEPT !.backup = "lost"] \in Change
    BY ChangeUpdates, ZenonT(30)
  <2>2. change' \in [Runs -> [Files -> Change]]
    BY <1>6, <2>1 DEF ClearDirectory
  <2> QED
    BY <1>6, <2>2 DEF ClearDirectory
<1> QED
  BY <1>1, <1>2, <1>3, <1>4, <1>5, <1>6 DEF JournalNext

\* The journal's types, and no run stacked on itself: one restore takes a run off
\* the stack of a file (auto_tag_review.rs, mutate and revert).
THEOREM JournalTypes == JournalSpec => []JournalTypeOK
  BY InitTyped, StepTyped, TypedIsTypeOK, PTL DEF JournalSpec

----------------------------------------------------------------------------
(* The backups.                                                            *)

\* A clear that has begun listens to nobody: it emptied the records and holds
\* their lock until the directory is gone.
ClearHoldsNothing == clearing # "no" => listed = {}

\* A run that has made its directory and not yet joined the records has written
\* nothing, so a clear in between takes nothing from it.
BeginIsFresh == step = "begin" => busy \in Runs /\ outcome[busy] = "none"
UnbegunIsUntouched ==
    \A r \in Runs : outcome[r] = "none" => \A f \in Files : change[r][f].backup = "none"

BackupInv == ClearHoldsNothing /\ BeginIsFresh /\ UnbegunIsUntouched /\ ListedIsBackedUp

LEMMA InitBackedUp == Init => BackupInv
  BY DEF Init, BackupInv, ClearHoldsNothing, BeginIsFresh, UnbegunIsUntouched,
         ListedIsBackedUp, Untouched

\* A write takes a backup of its own file at most.
LEMMA JournalledBackups ==
    ASSUME Typed, NEW r \in Runs, NEW f \in Files, NEW ok, NEW new, NEW seen,
           Journalled(r, f, ok, new, seen)
    PROVE  \A s \in Runs, g \in Files :
              \/ change'[s][g].backup = change[s][g].backup
              \/ s = r /\ change'[s][g].backup \in {"none", "kept"}
<1> DEFINE entry == IF ~change[r][f].known
                    THEN [Untouched EXCEPT !.known = TRUE,
                             !.backup = IF content[f] = Absent THEN "none" ELSE "kept",
                             !.before = content[f], !.after = content[f]]
                    ELSE change[r][f]
           after == IF seen THEN [entry EXCEPT !.after = new, !.verified = TRUE,
                                               !.tracked = ok \/ entry.before # new]
                    ELSE entry
<1>1. change \in [Runs -> [Files -> Change]] /\ change[r][f] \in Change
  BY DEF Typed, JournalTyped
<1>2. change' = [change EXCEPT ![r][f] = after]
  BY DEF Journalled
<1>3. entry.backup = change[r][f].backup \/ entry.backup \in {"none", "kept"}
  BY DEF Untouched
<1>4. after.backup = entry.backup
  BY <1>1 DEF Change, Untouched
<1> HIDE DEF after, entry
<1> QED
  BY <1>1, <1>2, <1>3, <1>4

\* What the steps that only mark files as restored leave of the backups.
BackupsKept == \A r \in Runs, f \in Files : change'[r][f].backup = change[r][f].backup

LEMMA StepBackedUp == Typed /\ BackupInv /\ [JournalNext]_journalVars => BackupInv'
<1> SUFFICES ASSUME Typed, BackupInv, [JournalNext]_journalVars PROVE BackupInv'
  OBVIOUS
<1> USE DEF BackupInv, ClearHoldsNothing, BeginIsFresh, UnbegunIsUntouched, ListedIsBackedUp
<1> USE DEF files, journal, store, guard, budget, history
<1>0. /\ change \in [Runs -> [Files -> Change]] /\ outcome \in [Runs -> {"none", "running", "done"}]
      /\ listed \subseteq Runs /\ busy \in Runs \cup {NoRun}
  BY DEF Typed, JournalTyped, StoreTyped
<1>1. CASE UNCHANGED journalVars
  BY <1>1 DEF journalVars
<1>2. ASSUME NEW r \in Runs, RunStep(r) PROVE BackupInv'
  <2>1. CASE \E a \in Albums : BeginDirectory(r, a)
    BY <2>1 DEF BeginDirectory
  <2>2. CASE BeginPush(r)
    BY <1>0, <2>2 DEF BeginPush, RecordsFree
  <2>3. CASE \E f \in Files : Mutate(r, f)
    <3> PICK f \in Files : Mutate(r, f)
      BY <2>3
    <3>1. \A s \in Runs, g \in Files :
             \/ change'[s][g].backup = change[s][g].backup
             \/ s = r /\ change'[s][g].backup \in {"none", "kept"}
      BY JournalledBackups DEF Mutate
    <3>2. outcome[r] = "running" /\ UNCHANGED <<outcome, store, guard, clearing>>
      BY DEF Mutate, MayWrite
    <3>3. UnbegunIsUntouched'
      <4> SUFFICES ASSUME NEW s \in Runs, outcome'[s] = "none", NEW g \in Files
                   PROVE  change'[s][g].backup = "none"
        OBVIOUS
      <4> QED
        BY <3>1, <3>2
    <3>4. ListedIsBackedUp'
      <4> SUFFICES ASSUME NEW s \in listed, NEW g \in Files PROVE change'[s][g].backup # "lost"
        BY <3>2
      <4>1. s \in Runs
        BY <1>0
      <4> QED
        BY <3>1, <4>1
    <3> QED
      BY <3>2, <3>3, <3>4
  <2>4. CASE Finish(r)
    BY <1>0, <2>4 DEF Finish
  <2>5. CASE Keep(r)
    BY <2>5 DEF Keep
  <2>6. CASE RevertFind(r)
    BY <2>6 DEF RevertFind
  <2>7. CASE RevertCheck(r)
    <3>1. BackupsKept
      BY <1>0, <2>7 DEF RevertCheck, BackupsKept, Change
    <3> QED
      BY <1>0, <2>7, <3>1 DEF RevertCheck, BackupsKept
  <2>8. CASE \E f \in Files : RestoreFile(r, f)
    <3>1. BackupsKept
      BY <1>0, <2>8 DEF RestoreFile, BackupsKept, Change
    <3> QED
      BY <1>0, <2>8, <3>1 DEF RestoreFile, BackupsKept
  <2>9. CASE \E f \in Files : RestoreFails(r, f)
    <3>1. BackupsKept
      BY <1>0, <2>9 DEF RestoreFails, BackupsKept, Change
    <3> QED
      BY <1>0, <2>9, <3>1 DEF RestoreFails, BackupsKept
  <2>10. CASE RevertEnd(r)
    BY <2>10 DEF RevertEnd
  <2> QED
    BY <1>2, <2>1, <2>2, <2>3, <2>4, <2>5, <2>6, <2>7, <2>8, <2>9, <2>10 DEF RunStep
<1>3. CASE \E f \in Files : Edit(f)
  BY <1>3 DEF Edit
<1>4. CASE ClearRecords
  BY <1>0, <1>4 DEF ClearRecords, Reset, Untouched
<1>5. CASE ClearOwners
  BY <1>5 DEF ClearOwners
<1>6. CASE ClearDirectory
  BY <1>0, <1>6 DEF ClearDirectory, Change
<1> QED
  BY <1>1, <1>2, <1>3, <1>4, <1>5, <1>6 DEF JournalNext

\* Clearing the results of a batch, which runs outside the write queue, never takes
\* the backups of a run the user can still see (auto_tag_review.rs, clear and begin).
THEOREM BackupsSurvive == JournalSpec => []ListedIsBackedUp
<1>1. BackupInv => ListedIsBackedUp
  BY DEF BackupInv
<1> QED
  BY <1>1, InitTyped, StepTyped, InitBackedUp, StepBackedUp, PTL DEF JournalSpec

----------------------------------------------------------------------------
(* Whose work a file holds.                                                *)

\* A run that writes is in the records, and alone on its album.
RunningIsListed == \A r \in Runs : outcome[r] = "running" => r \in listed
Begun(r) == outcome[r] = "running" \/ (busy = r /\ step = "begin")
OneRunPerAlbum ==
    \A r, s \in Runs : r # s /\ outcome[s] = "running" /\ Begun(r) => album[r] # album[s]
RunsHaveAlbums == \A r \in Runs : Begun(r) => album[r] \in Albums
RevertIsOfDone == busy \in Runs /\ step \in {"found", "locked"} => outcome[busy] = "done"

\* A run writes its own album and the shared files.
KnownIsOwn ==
    \A r \in Runs, f \in Files : change[r][f].known =>
        /\ outcome[r] # "none"
        /\ outcome[r] = "running" => (f = album[r] \/ f \in Shared)

RunsInv == RunningIsListed /\ OneRunPerAlbum /\ RunsHaveAlbums /\ RevertIsOfDone /\ KnownIsOwn

\* What a write by r of f does: c is the entry it finds, d the one it leaves.
WriteFacts(r, f, ok, seen, new, c, d) ==
    /\ ok => new \in Bytes
    /\ ~ok => seen
    /\ change' = [change EXCEPT ![r][f] = d]
    /\ d.known
    /\ d.before = (IF c.known THEN c.before ELSE content[f])
    /\ d.after = (IF seen THEN new ELSE IF c.known THEN c.after ELSE content[f])
    /\ d.verified = (seen \/ (c.known /\ c.verified))
    /\ d.tracked = (IF seen THEN ok \/ d.before # new ELSE c.known /\ c.tracked)
    /\ d.restored = (c.known /\ c.restored)
    /\ d.restoring = (c.known /\ c.restoring)
    /\ owners' = (IF seen /\ d.tracked THEN [owners EXCEPT ![f] = Pushed(owners[f], r)]
                  ELSE owners)
    /\ content' = [content EXCEPT ![f] = new]
    /\ lastWriter' = (IF (ok /\ seen) \/ new # content[f]
                      THEN [lastWriter EXCEPT ![f] = r] ELSE lastWriter)
    /\ heir' = (IF c.known THEN heir ELSE [heir EXCEPT ![r][f] = lastWriter[f]])
    /\ mixed' = (IF c.known /\ content[f] # c.after THEN mixed \cup {f} ELSE mixed)

LEMMA JournalledFacts ==
    ASSUME Typed, NEW r \in Runs, NEW f \in Files, NEW ok \in BOOLEAN, NEW seen \in BOOLEAN,
           NEW new \in Contents, Journalled(r, f, ok, new, seen), ok => new \in Bytes, ~ok => seen
    PROVE  \E d \in Change : WriteFacts(r, f, ok, seen, new, change[r][f], d)
<1> DEFINE entry == IF ~change[r][f].known
                    THEN [Untouched EXCEPT !.known = TRUE,
                             !.backup = IF content[f] = Absent THEN "none" ELSE "kept",
                             !.before = content[f], !.after = content[f]]
                    ELSE change[r][f]
           d == IF seen THEN [entry EXCEPT !.after = new, !.verified = TRUE,
                                           !.tracked = ok \/ entry.before # new]
                ELSE entry
<1>1. change \in [Runs -> [Files -> Change]] /\ change[r][f] \in Change /\ content[f] \in Contents
  BY DEF Typed, JournalTyped, FilesTyped
<1>2. entry \in Change
  BY <1>1 DEF Change, Untouched
<1>3. /\ entry.known
      /\ entry.before = (IF change[r][f].known THEN change[r][f].before ELSE content[f])
      /\ entry.after = (IF change[r][f].known THEN change[r][f].after ELSE content[f])
      /\ entry.verified = (change[r][f].known /\ change[r][f].verified)
      /\ entry.tracked = (change[r][f].known /\ change[r][f].tracked)
      /\ entry.restored = (change[r][f].known /\ change[r][f].restored)
      /\ entry.restoring = (change[r][f].known /\ change[r][f].restoring)
  BY <1>1 DEF Untouched, Change
<1>4. /\ change' = [change EXCEPT ![r][f] = d]
      /\ owners' = (IF seen /\ (ok \/ entry.before # new)
                    THEN [owners EXCEPT ![f] = Pushed(owners[f], r)] ELSE owners)
      /\ content' = [content EXCEPT ![f] = new]
      /\ lastWriter' = (IF (ok /\ seen) \/ new # content[f]
                        THEN [lastWriter EXCEPT ![f] = r] ELSE lastWriter)
      /\ heir' = (IF ~change[r][f].known THEN [heir EXCEPT ![r][f] = lastWriter[f]] ELSE heir)
      /\ mixed' = (IF content[f] = entry.after THEN mixed ELSE mixed \cup {f})
  BY DEF Journalled
<1> HIDE DEF entry
<1>5. d \in Change
  BY <1>2 DEF Change
<1>6. /\ d.known = entry.known /\ d.before = entry.before
      /\ d.restored = entry.restored /\ d.restoring = entry.restoring
      /\ d.after = (IF seen THEN new ELSE entry.after)
      /\ d.verified = (seen \/ entry.verified)
      /\ d.tracked = (IF seen THEN ok \/ entry.before # new ELSE entry.tracked)
  BY <1>2 DEF Change
<1> HIDE DEF d
<1> QED
  BY <1>3, <1>4, <1>5, <1>6 DEF WriteFacts

LEMMA MutateFacts ==
    ASSUME Typed, NEW r \in Runs, NEW f \in Files, Mutate(r, f)
    PROVE  \E ok, seen \in BOOLEAN, new \in Bytes \cup {content[f]}, d \in Change :
              WriteFacts(r, f, ok, seen, new, change[r][f], d)
<1>1. content[f] \in Contents /\ Bytes \subseteq Contents
  BY DEF Typed, FilesTyped, Contents
<1>2. CASE \E new \in Bytes : Journalled(r, f, TRUE, new, TRUE)
  BY <1>1, <1>2, JournalledFacts
<1>3. CASE \E new \in Bytes \cup {content[f]} : Journalled(r, f, FALSE, new, TRUE)
  BY <1>1, <1>3, JournalledFacts
<1>4. CASE \E new \in Bytes : Journalled(r, f, TRUE, new, FALSE)
  BY <1>1, <1>4, JournalledFacts
<1> QED
  BY <1>2, <1>3, <1>4 DEF Mutate

LEMMA ShapeOfChange ==
    ASSUME Typed, NEW r \in Runs, NEW f \in Files
    PROVE  /\ change[r][f] \in Change
           /\ change[r][f].known \in BOOLEAN /\ change[r][f].verified \in BOOLEAN
           /\ change[r][f].tracked \in BOOLEAN /\ change[r][f].restored \in BOOLEAN
           /\ change[r][f].restoring \in BOOLEAN
           /\ change[r][f].before \in Contents /\ change[r][f].after \in Contents
  BY DEF Typed, JournalTyped, Change

\* The parts of an entry that only a write changes.
SameWork(r, f) ==
    /\ change'[r][f].known = change[r][f].known
    /\ change'[r][f].before = change[r][f].before
    /\ change'[r][f].after = change[r][f].after
    /\ change'[r][f].verified = change[r][f].verified
    /\ change'[r][f].tracked = change[r][f].tracked

\* The steps of a revert change no entry but what they mark of their own run.
LEMMA RevertCheckFacts ==
    ASSUME Typed, NEW r \in Runs, RevertCheck(r), NEW s \in Runs, NEW f \in Files
    PROVE  /\ SameWork(s, f)
           /\ change'[s][f].restoring = change[s][f].restoring
           /\ change'[s][f].restored
                <=> (change[s][f].restored \/ (s = r /\ f \in Recognised(r)))
<1>1. change[s][f] \in Change /\ change[r][f] \in Change /\ change[r][f].restored \in BOOLEAN
  BY ShapeOfChange
<1>2. change'[s][f] = IF s = r /\ f \in Recognised(r)
                      THEN [change[r][f] EXCEPT !.restored = TRUE] ELSE change[s][f]
  BY DEF RevertCheck, Typed, JournalTyped
<1>3. CASE s = r /\ f \in Recognised(r)
  BY <1>1, <1>2, <1>3 DEF SameWork, Change
<1>4. CASE ~(s = r /\ f \in Recognised(r))
  BY <1>1, <1>2, <1>4, ShapeOfChange DEF SameWork
<1> QED
  BY <1>3, <1>4

LEMMA RestoreFileFacts ==
    ASSUME Typed, NEW r \in Runs, NEW g \in Files, RestoreFile(r, g), NEW s \in Runs, NEW f \in Files
    PROVE  /\ SameWork(s, f)
           /\ change'[s][f].restored <=> (change[s][f].restored \/ (s = r /\ f = g))
           /\ change'[s][f].restoring => change[s][f].restoring \/ (s = r /\ f = g)
<1>1. /\ change[s][f] \in Change /\ change[r][g] \in Change /\ change[s][f].restored \in BOOLEAN
      /\ change \in [Runs -> [Files -> Change]]
  BY ShapeOfChange DEF Typed, JournalTyped
<1> DEFINE d == [change[r][g] EXCEPT !.restored = TRUE,
                    !.restoring = @ \/ change[r][g].before # change[r][g].after]
<1>2. change' = [change EXCEPT ![r][g] = d]
  BY <1>1 DEF RestoreFile, Change
<1>3. /\ d.known = change[r][g].known /\ d.before = change[r][g].before
      /\ d.after = change[r][g].after /\ d.verified = change[r][g].verified
      /\ d.tracked = change[r][g].tracked /\ d.restored
  BY <1>1 DEF Change
<1> HIDE DEF d
<1>4. CASE s = r /\ f = g
  <2>1. change'[s][f] = d
    BY <1>1, <1>2, <1>4
  <2> QED
    BY <1>3, <1>4, <2>1 DEF SameWork
<1>5. CASE ~(s = r /\ f = g)
  <2>1. change'[s][f] = change[s][f]
    BY <1>1, <1>2, <1>5
  <2> QED
    BY <1>1, <1>5, <2>1 DEF SameWork
<1> QED
  BY <1>4, <1>5

LEMMA RestoreFailsFacts ==
    ASSUME Typed, NEW r \in Runs, NEW g \in Files, RestoreFails(r, g), NEW s \in Runs, NEW f \in Files
    PROVE  /\ SameWork(s, f)
           /\ change'[s][f].restored = change[s][f].restored
           /\ change'[s][f].restoring => change[s][f].restoring \/ (s = r /\ f = g)
<1>1. /\ change[s][f] \in Change /\ change[r][g] \in Change /\ change[s][f].restored \in BOOLEAN
      /\ change \in [Runs -> [Files -> Change]]
  BY ShapeOfChange DEF Typed, JournalTyped
<1> DEFINE d == [change[r][g] EXCEPT
                    !.restoring = @ \/ change[r][g].before # change[r][g].after]
<1>2. change' = [change EXCEPT ![r][g] = d]
  BY <1>1 DEF RestoreFails, Change
<1>3. /\ d.known = change[r][g].known /\ d.before = change[r][g].before
      /\ d.after = change[r][g].after /\ d.verified = change[r][g].verified
      /\ d.tracked = change[r][g].tracked /\ d.restored = change[r][g].restored
  BY <1>1 DEF Change
<1> HIDE DEF d
<1>4. CASE s = r /\ f = g
  <2>1. change'[s][f] = d
    BY <1>1, <1>2, <1>4
  <2> QED
    BY <1>3, <1>4, <2>1 DEF SameWork
<1>5. CASE ~(s = r /\ f = g)
  <2>1. change'[s][f] = change[s][f]
    BY <1>1, <1>2, <1>5
  <2> QED
    BY <1>1, <1>5, <2>1 DEF SameWork
<1> QED
  BY <1>4, <1>5

LEMMA ClearDirectoryFacts ==
    ASSUME Typed, ClearDirectory, NEW s \in Runs, NEW f \in Files
    PROVE  /\ SameWork(s, f)
           /\ change'[s][f].restored = change[s][f].restored
           /\ change'[s][f].restoring = change[s][f].restoring
<1>1. change[s][f] \in Change
  BY ShapeOfChange
<1>2. change'[s][f] = IF change[s][f].backup = "kept"
                      THEN [change[s][f] EXCEPT !.backup = "lost"] ELSE change[s][f]
  BY DEF ClearDirectory
<1> QED
  BY <1>1, <1>2 DEF SameWork, Change

\* A clear empties the entries of the runs it drops, and leaves the one a revert
\* holds alone.
LEMMA ClearRecordsFacts ==
    ASSUME Typed, ClearRecords, NEW s \in Runs, NEW f \in Files
    PROVE  \/ change'[s][f] = change[s][f] /\ heir'[s][f] = heir[s][f] /\ album'[s] = album[s]
           \/ /\ change'[s][f] = Untouched /\ heir'[s][f] = NoRun
              /\ s \in listed /\ s # busy
  BY DEF ClearRecords, Reset, Forgotten, Typed, JournalTyped

LEMMA InitRuns == Init => RunsInv
  BY RunsAssumption DEF Init, RunsInv, RunningIsListed, OneRunPerAlbum, RunsHaveAlbums, Begun, RevertIsOfDone, KnownIsOwn, Untouched

LEMMA StepRuns == Typed /\ BackupInv /\ RunsInv /\ [JournalNext]_journalVars => RunsInv'
<1> SUFFICES ASSUME Typed, BackupInv, RunsInv, [JournalNext]_journalVars PROVE RunsInv'
  OBVIOUS
<1> USE RunsAssumption
<1> USE DEF RunsInv, RunningIsListed, OneRunPerAlbum, RunsHaveAlbums, Begun, RevertIsOfDone, KnownIsOwn
<1> USE DEF files, journal, store, guard, budget, history
<1>0. /\ outcome \in [Runs -> {"none", "running", "done"}] /\ album \in [Runs -> Albums \cup {Absent}]
      /\ listed \subseteq Runs /\ busy \in Runs \cup {NoRun}
  BY DEF Typed, JournalTyped, StoreTyped
<1>1. CASE UNCHANGED journalVars
  BY <1>1 DEF journalVars
<1>2. ASSUME NEW r \in Runs, RunStep(r) PROVE RunsInv'
  <2>1. CASE \E a \in Albums : BeginDirectory(r, a)
    <3> PICK a \in Albums : BeginDirectory(r, a)
      BY <2>1
    <3>1. /\ album' = [album EXCEPT ![r] = a] /\ outcome[r] = "none" /\ busy' = r /\ step' = "begin"
          /\ \A s \in Runs : ~(outcome[s] = "running" /\ album[s] = a)
          /\ UNCHANGED <<outcome, change, listed>>
      BY DEF BeginDirectory
    <3>2. OneRunPerAlbum' /\ RunsHaveAlbums' /\ KnownIsOwn'
      BY <1>0, <3>1
    <3> QED
      BY <1>0, <3>1, <3>2
  <2>2. CASE BeginPush(r)
    <3>1. /\ busy = r /\ step = "begin" /\ step' = "idle" /\ outcome[r] = "none"
          /\ outcome' = [outcome EXCEPT ![r] = "running"] /\ listed' = listed \cup {r}
          /\ UNCHANGED <<album, change>>
      BY <2>2 DEF BeginPush, BackupInv, BeginIsFresh
    <3>2. \A s \in Runs : s # r /\ outcome[s] = "running" => album[s] # album[r]
      BY <3>1
    <3>3. OneRunPerAlbum'
      BY <1>0, <3>1, <3>2
    <3>4. KnownIsOwn'
      BY <1>0, <3>1
    <3> QED
      BY <1>0, <3>1, <3>3, <3>4
  <2>3. CASE \E f \in Files : Mutate(r, f)
    <3> PICK f \in Files : Mutate(r, f)
      BY <2>3
    <3>1. PICK d : change' = [change EXCEPT ![r][f] = d]
      BY MutateFacts DEF WriteFacts
    <3>2. /\ outcome[r] = "running" /\ (f = album[r] \/ f \in Shared)
          /\ UNCHANGED <<outcome, album, listed, busy, step>>
      BY DEF Mutate, MayWrite
    <3>3. KnownIsOwn'
      BY <3>1, <3>2 DEF Typed, JournalTyped
    <3> QED
      BY <3>2, <3>3
  <2>4. CASE Finish(r)
    BY <1>0, <2>4 DEF Finish
  <2>5. CASE Keep(r)
    BY <2>5 DEF Keep
  <2>6. CASE RevertFind(r)
    BY <2>6 DEF RevertFind
  <2>7. CASE RevertCheck(r)
    <3>1. KnownIsOwn'
      BY <2>7, RevertCheckFacts DEF RevertCheck, SameWork
    <3> QED
      BY <2>7, <3>1 DEF RevertCheck
  <2>8. CASE \E f \in Files : RestoreFile(r, f)
    <3> PICK f \in Files : RestoreFile(r, f)
      BY <2>8
    <3>1. \A s \in Runs, g \in Files : change'[s][g].known = change[s][g].known
      BY RestoreFileFacts DEF SameWork
    <3>2. UNCHANGED <<outcome, album, listed>> /\ busy' \in {busy, NoRun} /\ step' \in {step, "idle"}
      BY DEF RestoreFile
    <3> QED
      BY <3>1, <3>2
  <2>9. CASE \E f \in Files : RestoreFails(r, f)
    <3> PICK f \in Files : RestoreFails(r, f)
      BY <2>9
    <3>1. \A s \in Runs, g \in Files : change'[s][g].known = change[s][g].known
      BY RestoreFailsFacts DEF SameWork
    <3>2. UNCHANGED <<outcome, album, listed>> /\ busy' \in {busy, NoRun} /\ step' \in {step, "idle"}
      BY DEF RestoreFails
    <3> QED
      BY <3>1, <3>2
  <2>10. CASE RevertEnd(r)
    BY <2>10 DEF RevertEnd
  <2> QED
    BY <1>2, <2>1, <2>2, <2>3, <2>4, <2>5, <2>6, <2>7, <2>8, <2>9, <2>10 DEF RunStep
<1>3. CASE \E f \in Files : Edit(f)
  BY <1>3 DEF Edit
<1>4. CASE ClearRecords
  <2>1. /\ \A s \in listed : outcome[s] # "running"
        /\ UNCHANGED <<outcome, busy, step>>
        /\ \A s \in Runs : album'[s] = album[s] \/ (s \in listed /\ s # busy)
    BY <1>0, <1>4 DEF ClearRecords, Reset, Forgotten
  <2>2. \A s \in Runs : outcome[s] # "running"
    BY <2>1
  <2>3. KnownIsOwn'
    BY <1>4, <2>1, <2>2, ClearRecordsFacts DEF Untouched
  <2> QED
    BY <2>1, <2>2, <2>3
<1>5. CASE ClearOwners
  BY <1>5 DEF ClearOwners
<1>6. CASE ClearDirectory
  <2>1. KnownIsOwn'
    BY <1>6, ClearDirectoryFacts DEF ClearDirectory, SameWork
  <2> QED
    BY <1>6, <2>1 DEF ClearDirectory
<1> QED
  BY <1>1, <1>2, <1>3, <1>4, <1>5, <1>6 DEF JournalNext

\* A run that wrote a file is over, or still knows the file; and once another run
\* has written over it, it does not write that file any more.
WriterIsKnown ==
    \A f \in Files, r \in Runs : lastWriter[f] = r =>
        outcome[r] = "done" \/ (outcome[r] = "running" /\ change[r][f].known)
HeirIsSettled ==
    \A s, r \in Runs, f \in Files : heir[s][f] = r =>
        /\ r # s
        /\ outcome[r] = "done" \/ (outcome[r] = "running" /\ f \in Shared /\ change[r][f].known)

WriterInv == WriterIsKnown /\ HeirIsSettled

LEMMA InitWriter == Init => WriterInv
  BY RunsAssumption DEF Init, WriterInv, WriterIsKnown, HeirIsSettled

LEMMA StepWriter ==
    Typed /\ BackupInv /\ RunsInv /\ WriterInv /\ [JournalNext]_journalVars => WriterInv'
<1> SUFFICES ASSUME Typed, BackupInv, RunsInv, WriterInv, [JournalNext]_journalVars
             PROVE  WriterInv'
  OBVIOUS
<1> USE RunsAssumption
<1> USE DEF WriterInv, WriterIsKnown, HeirIsSettled
<1> USE DEF files, journal, store, guard, budget, history
<1>0. /\ outcome \in [Runs -> {"none", "running", "done"}]
      /\ lastWriter \in [Files -> Runs \cup {NoRun, Edited}]
      /\ heir \in [Runs -> [Files -> Runs \cup {NoRun, Edited}]]
      /\ change \in [Runs -> [Files -> Change]]
      /\ listed \subseteq Runs /\ busy \in Runs \cup {NoRun}
  BY DEF Typed, JournalTyped, StoreTyped, FilesTyped
<1>1. CASE UNCHANGED journalVars
  BY <1>1 DEF journalVars
<1>2. ASSUME NEW r \in Runs, RunStep(r) PROVE WriterInv'
  <2>1. CASE \E a \in Albums : BeginDirectory(r, a)
    BY <2>1 DEF BeginDirectory
  <2>2. CASE BeginPush(r)
    <3>1. /\ outcome[r] = "none" /\ outcome' = [outcome EXCEPT ![r] = "running"]
          /\ UNCHANGED <<change, heir, lastWriter>>
      BY <2>2 DEF BeginPush, BackupInv, BeginIsFresh
    <3> QED
      BY <1>0, <3>1
  <2>3. CASE \E f \in Files : Mutate(r, f)
    <3> PICK f \in Files : Mutate(r, f)
      BY <2>3
    <3>1. PICK ok \in BOOLEAN, seen \in BOOLEAN, new \in Bytes \cup {content[f]}, d \in Change :
             WriteFacts(r, f, ok, seen, new, change[r][f], d)
      BY MutateFacts
    <3>2. /\ outcome[r] = "running" /\ (f = album[r] \/ (f \in Shared /\ ~change[r][f].known))
          /\ UNCHANGED outcome
      BY DEF Mutate, MayWrite
    <3>3. /\ d.known /\ change' = [change EXCEPT ![r][f] = d]
          /\ lastWriter' = [lastWriter EXCEPT ![f] = r] \/ lastWriter' = lastWriter
          /\ heir' = (IF change[r][f].known THEN heir ELSE [heir EXCEPT ![r][f] = lastWriter[f]])
      BY <3>1 DEF WriteFacts
    <3> HIDE DEF Mutate
    <3>4. \A s \in Runs, g \in Files : change[s][g].known => change'[s][g].known
      BY <1>0, <3>3
    <3>5. WriterIsKnown'
      BY <1>0, <3>2, <3>3, <3>4
    <3>6. HeirIsSettled'
      <4> SUFFICES ASSUME NEW s \in Runs, NEW q \in Runs, NEW g \in Files, heir'[s][g] = q
                   PROVE  /\ q # s
                          /\ outcome[q] = "done"
                             \/ (outcome[q] = "running" /\ g \in Shared /\ change'[q][g].known)
        BY <3>2
      <4>1. CASE heir'[s][g] = heir[s][g]
        BY <3>4, <4>1
      <4>2. CASE heir'[s][g] # heir[s][g]
        <5>1. s = r /\ g = f /\ ~change[r][f].known /\ lastWriter[f] = q
          BY <1>0, <3>3, <4>2
        <5>2. q # r /\ (outcome[q] = "done" \/ (outcome[q] = "running" /\ change[q][f].known))
          BY <3>2, <5>1
        <5>3. ASSUME outcome[q] = "running", f = album[r], f \notin Shared PROVE FALSE
          BY <3>2, <5>2, <5>3 DEF RunsInv, OneRunPerAlbum, Begun, KnownIsOwn
        <5> QED
          BY <3>2, <3>4, <5>1, <5>2, <5>3, FilesAssumption
      <4> QED
        BY <4>1, <4>2
    <3> QED
      BY <3>5, <3>6
  <2>4. CASE Finish(r)
    BY <1>0, <2>4 DEF Finish
  <2>5. CASE Keep(r)
    BY <2>5 DEF Keep
  <2>6. CASE RevertFind(r)
    BY <2>6 DEF RevertFind
  <2>7. CASE RevertCheck(r)
    <3>1. \A s \in Runs, g \in Files : change'[s][g].known = change[s][g].known
      BY <2>7, RevertCheckFacts DEF SameWork
    <3>2. /\ UNCHANGED <<outcome, heir>>
          /\ \A f \in Files : lastWriter'[f] = heir[r][f] \/ lastWriter'[f] = lastWriter[f]
      BY <2>7 DEF RevertCheck
    <3>3. WriterIsKnown'
      BY <3>1, <3>2
    <3>4. HeirIsSettled'
      BY <3>1, <3>2
    <3> QED
      BY <3>3, <3>4
  <2>8. CASE \E f \in Files : RestoreFile(r, f)
    <3> PICK g \in Files : RestoreFile(r, g)
      BY <2>8
    <3>1. \A s \in Runs, f \in Files : change'[s][f].known = change[s][f].known
      BY RestoreFileFacts DEF SameWork
    <3>2. /\ UNCHANGED <<outcome, heir>>
          /\ \A f \in Files : lastWriter'[f] = heir[r][f] \/ lastWriter'[f] = lastWriter[f]
      BY <1>0 DEF RestoreFile
    <3>3. WriterIsKnown'
      BY <3>1, <3>2
    <3>4. HeirIsSettled'
      BY <3>1, <3>2
    <3> QED
      BY <3>3, <3>4
  <2>9. CASE \E f \in Files : RestoreFails(r, f)
    <3> PICK g \in Files : RestoreFails(r, g)
      BY <2>9
    <3>1. \A s \in Runs, f \in Files : change'[s][f].known = change[s][f].known
      BY RestoreFailsFacts DEF SameWork
    <3>2. UNCHANGED <<outcome, heir, lastWriter>>
      BY DEF RestoreFails
    <3> QED
      BY <3>1, <3>2
  <2>10. CASE RevertEnd(r)
    BY <2>10 DEF RevertEnd
  <2> QED
    BY <1>2, <2>1, <2>2, <2>3, <2>4, <2>5, <2>6, <2>7, <2>8, <2>9, <2>10 DEF RunStep
<1>3. CASE \E f \in Files : Edit(f)
  <2> PICK f \in Files : Edit(f)
    BY <1>3
  <2>1. lastWriter' = [lastWriter EXCEPT ![f] = Edited] /\ UNCHANGED <<outcome, heir, change>>
    BY DEF Edit
  <2> QED
    BY <1>0, <2>1
<1>4. CASE ClearRecords
  <2>1. /\ \A s \in listed : outcome[s] # "running"
        /\ UNCHANGED <<outcome, lastWriter>>
    BY <1>4 DEF ClearRecords
  <2>2. \A s \in Runs : outcome[s] # "running"
    BY <2>1 DEF RunsInv, RunningIsListed
  <2>3. \A s \in Runs, f \in Files : heir'[s][f] \in {heir[s][f], NoRun}
    BY <1>4, ClearRecordsFacts
  <2> QED
    BY <1>0, <2>1, <2>2, <2>3
<1>5. CASE ClearOwners
  BY <1>5 DEF ClearOwners
<1>6. CASE ClearDirectory
  <2>1. \A s \in Runs, f \in Files : change'[s][f].known = change[s][f].known
    BY <1>6, ClearDirectoryFacts DEF SameWork
  <2> QED
    BY <1>6, <2>1 DEF ClearDirectory
<1> QED
  BY <1>1, <1>2, <1>3, <1>4, <1>5, <1>6 DEF JournalNext

----------------------------------------------------------------------------
(* What an entry of the journal says of its file.                          *)

\* A tracked entry has been read back and names what the run left; one that is
\* not tracked names what was there.
EntryIsWhole ==
    \A r \in Runs, f \in Files :
        /\ change[r][f].tracked => change[r][f].known /\ change[r][f].verified
        /\ change[r][f].known /\ change[r][f].after # change[r][f].before => change[r][f].tracked
        /\ change[r][f].tracked /\ change[r][f].after = change[r][f].before
              => change[r][f].after \in Bytes
        /\ change[r][f].restored \/ change[r][f].restoring
              => change[r][f].tracked /\ outcome[r] = "done"

\* The bytes of an edit are a run's result only where files are mixed.
EditIsNoResult ==
    \A r \in Runs, f \in Files :
        change[r][f].known /\ change[r][f].after = Edited /\ change[r][f].before # Edited
            => f \in mixed

\* What the user wrote last is what is there, and what a run found.
EditIsThere == \A f \in Files : lastWriter[f] = Edited /\ f \notin mixed => content[f] = Edited
EditIsFound ==
    \A r \in Runs, f \in Files :
        change[r][f].known /\ heir[r][f] = Edited /\ f \notin mixed => change[r][f].before = Edited

\* While a revert holds its locks, what it still has to restore is what it saw.
ReadyToRestore ==
    \A r \in Runs, f \in Files :
        Locked(r) /\ f \in ToRestore(r) =>
            content[f] = change[r][f].after /\ Top(owners[f]) \in {NoRun, r}

EntryInv == EntryIsWhole /\ EditIsNoResult /\ EditIsThere /\ EditIsFound /\ ReadyToRestore

LEMMA InitEntry == Init => EntryInv
  BY RunsAssumption DEF Init, EntryInv, EntryIsWhole, EditIsNoResult, EditIsThere, EditIsFound,
     ReadyToRestore, ToRestore, Untouched, Locked

LEMMA StepEntryWhole ==
    Typed /\ BackupInv /\ RunsInv /\ EntryIsWhole /\ [JournalNext]_journalVars => EntryIsWhole'
<1> SUFFICES ASSUME Typed, BackupInv, RunsInv, EntryIsWhole, [JournalNext]_journalVars
             PROVE  EntryIsWhole'
  OBVIOUS
<1> USE DEF EntryIsWhole
<1> USE DEF files, journal, store, guard, budget, history
<1>0. /\ outcome \in [Runs -> {"none", "running", "done"}] /\ change \in [Runs -> [Files -> Change]]
      /\ RevertIsOfDone
  BY DEF Typed, JournalTyped, RunsInv
<1>1. CASE UNCHANGED journalVars
  BY <1>1 DEF journalVars
<1>2. ASSUME NEW r \in Runs, RunStep(r) PROVE EntryIsWhole'
  <2>1. CASE \E a \in Albums : BeginDirectory(r, a)
    BY <2>1 DEF BeginDirectory
  <2>2. CASE BeginPush(r)
    <3>1. /\ outcome[r] = "none" /\ outcome' = [outcome EXCEPT ![r] = "running"] /\ UNCHANGED change
      BY <2>2 DEF BeginPush, BackupInv, BeginIsFresh
    <3> QED
      BY <1>0, <3>1
  <2>3. CASE \E f \in Files : Mutate(r, f)
    <3> PICK f \in Files : Mutate(r, f)
      BY <2>3
    <3> DEFINE c == change[r][f]
    <3>1. PICK ok \in BOOLEAN, seen \in BOOLEAN, new \in Bytes \cup {content[f]}, d \in Change :
             WriteFacts(r, f, ok, seen, new, c, d)
      BY MutateFacts
    <3>2. outcome[r] = "running" /\ UNCHANGED outcome
      BY DEF Mutate, MayWrite
    <3>3. /\ d.tracked => d.known /\ d.verified
          /\ d.after # d.before => d.tracked
          /\ d.tracked /\ d.after = d.before => d.after \in Bytes
          /\ ~d.restored /\ ~d.restoring
      BY <1>0, <3>1, <3>2 DEF WriteFacts
    <3>4. change' = [change EXCEPT ![r][f] = d]
      BY <3>1 DEF WriteFacts
    <3> QED
      BY <1>0, <3>2, <3>3, <3>4
  <2>4. CASE Finish(r)
    BY <1>0, <2>4 DEF Finish
  <2>5. CASE Keep(r)
    BY <2>5 DEF Keep
  <2>6. CASE RevertFind(r)
    BY <2>6 DEF RevertFind
  <2>7. CASE RevertCheck(r)
    <3>1. outcome[r] = "done" /\ UNCHANGED outcome
      BY <1>0, <2>7 DEF RevertCheck, RevertIsOfDone
    <3>2. \A f \in Recognised(r) : change[r][f].tracked
      BY DEF Recognised
    <3>3. ASSUME NEW s \in Runs, NEW f \in Files
          PROVE  /\ SameWork(s, f)
                 /\ change'[s][f].restoring = change[s][f].restoring
                 /\ change'[s][f].restored => change[s][f].restored \/ (s = r /\ change[r][f].tracked)
      BY <2>7, <3>2, RevertCheckFacts
    <3> QED
      BY <3>1, <3>3 DEF SameWork
  <2>8. CASE \E f \in Files : RestoreFile(r, f)
    <3> PICK g \in Files : RestoreFile(r, g)
      BY <2>8
    <3>1. outcome[r] = "done" /\ UNCHANGED outcome /\ change[r][g].tracked
      BY <1>0 DEF RestoreFile, Locked, RevertIsOfDone, ToRestore
    <3>2. ASSUME NEW s \in Runs, NEW f \in Files
          PROVE  /\ SameWork(s, f)
                 /\ change'[s][f].restoring => change[s][f].restoring \/ (s = r /\ f = g)
                 /\ change'[s][f].restored => change[s][f].restored \/ (s = r /\ f = g)
      BY RestoreFileFacts
    <3> QED
      BY <3>1, <3>2 DEF SameWork
  <2>9. CASE \E f \in Files : RestoreFails(r, f)
    <3> PICK g \in Files : RestoreFails(r, g)
      BY <2>9
    <3>1. outcome[r] = "done" /\ UNCHANGED outcome /\ change[r][g].tracked
      BY <1>0 DEF RestoreFails, Locked, RevertIsOfDone, ToRestore
    <3> QED
      BY <3>1, RestoreFailsFacts DEF SameWork
  <2>10. CASE RevertEnd(r)
    BY <2>10 DEF RevertEnd
  <2> QED
    BY <1>2, <2>1, <2>2, <2>3, <2>4, <2>5, <2>6, <2>7, <2>8, <2>9, <2>10 DEF RunStep
<1>3. CASE \E f \in Files : Edit(f)
  BY <1>3 DEF Edit
<1>4. CASE ClearRecords
  <2>1. UNCHANGED outcome
    BY <1>4 DEF ClearRecords
  <2>2. /\ Untouched.known = FALSE /\ Untouched.tracked = FALSE
        /\ Untouched.restored = FALSE /\ Untouched.restoring = FALSE
    BY DEF Untouched
  <2>3. \A s \in Runs, f \in Files : change'[s][f] \in {change[s][f], Untouched}
    BY <1>4, ClearRecordsFacts
  <2> QED
    BY <2>1, <2>2, <2>3
<1>5. CASE ClearOwners
  BY <1>5 DEF ClearOwners
<1>6. CASE ClearDirectory
  BY <1>6, ClearDirectoryFacts DEF ClearDirectory, SameWork
<1> QED
  BY <1>1, <1>2, <1>3, <1>4, <1>5, <1>6 DEF JournalNext

\* The entries' bytes and the heirs change in a write alone, or with a clear.
LEMMA SameBytes ==
    ASSUME Typed, [JournalNext]_journalVars,
           ~\E r \in Runs, f \in Files : Mutate(r, f)
    PROVE  /\ mixed' = mixed
           /\ \A s \in Runs, f \in Files :
                 \/ SameWork(s, f) /\ heir'[s][f] = heir[s][f]
                 \/ /\ change'[s][f] = Untouched /\ heir'[s][f] = NoRun
                    /\ ClearRecords /\ s \in listed /\ s # busy
<1> USE DEF files, journal, store, guard, budget, history
<1>1. CASE UNCHANGED <<change, heir, mixed>>
  BY <1>1 DEF SameWork
<1>2. ASSUME NEW r \in Runs, RevertCheck(r) \/ (\E f \in Files : RestoreFile(r, f) \/ RestoreFails(r, f))
      PROVE  UNCHANGED <<heir, mixed>> /\ \A s \in Runs, f \in Files : SameWork(s, f)
  <2>1. CASE RevertCheck(r)
    BY <2>1, RevertCheckFacts DEF RevertCheck
  <2>2. CASE \E f \in Files : RestoreFile(r, f)
    BY <2>2, RestoreFileFacts DEF RestoreFile
  <2>3. CASE \E f \in Files : RestoreFails(r, f)
    BY <2>3, RestoreFailsFacts DEF RestoreFails
  <2> QED
    BY <1>2, <2>1, <2>2, <2>3
<1>3. CASE ClearDirectory
  BY <1>3, ClearDirectoryFacts DEF ClearDirectory
<1>4. CASE ClearRecords
  <2>1. mixed' = mixed
    BY <1>4 DEF ClearRecords
  <2> QED
    BY <1>4, <2>1, ClearRecordsFacts DEF SameWork
<1>5. \/ UNCHANGED <<change, heir, mixed>> \/ ClearDirectory \/ ClearRecords
      \/ \E r \in Runs : RevertCheck(r) \/ (\E f \in Files : RestoreFile(r, f) \/ RestoreFails(r, f))
  BY DEF JournalNext, RunStep, journalVars, BeginDirectory, BeginPush, Finish, Keep, RevertFind,
         RevertEnd, Edit, ClearOwners
<1> QED
  BY <1>1, <1>2, <1>3, <1>4, <1>5

LEMMA StepEditNoResult ==
    Typed /\ EditIsNoResult /\ [JournalNext]_journalVars => EditIsNoResult'
<1> SUFFICES ASSUME Typed, EditIsNoResult, [JournalNext]_journalVars PROVE EditIsNoResult'
  OBVIOUS
<1> USE DEF EditIsNoResult
<1>1. CASE \E r \in Runs, f \in Files : Mutate(r, f)
  <2> PICK r \in Runs, f \in Files : Mutate(r, f)
    BY <1>1
  <2> DEFINE c == change[r][f]
  <2>1. PICK ok \in BOOLEAN, seen \in BOOLEAN, new \in Bytes \cup {content[f]}, d \in Change :
           WriteFacts(r, f, ok, seen, new, c, d)
    BY MutateFacts
  <2>2. d.after = Edited /\ d.before # Edited => f \in mixed'
    BY <2>1, BytesAssumption DEF WriteFacts
  <2>3. change' = [change EXCEPT ![r][f] = d] /\ mixed \subseteq mixed'
    BY <2>1 DEF WriteFacts
  <2> QED
    BY <2>2, <2>3 DEF Typed, JournalTyped
<1>2. CASE ~\E r \in Runs, f \in Files : Mutate(r, f)
  <2>1. Untouched.known = FALSE
    BY DEF Untouched
  <2> QED
    BY <1>2, <2>1, SameBytes DEF SameWork
<1> QED
  BY <1>1, <1>2

LEMMA StepEditFound ==
    Typed /\ EditIsThere /\ EditIsFound /\ [JournalNext]_journalVars => EditIsFound'
<1> SUFFICES ASSUME Typed, EditIsThere, EditIsFound, [JournalNext]_journalVars PROVE EditIsFound'
  OBVIOUS
<1> USE DEF EditIsFound
<1>1. CASE \E r \in Runs, f \in Files : Mutate(r, f)
  <2> PICK r \in Runs, f \in Files : Mutate(r, f)
    BY <1>1
  <2> DEFINE c == change[r][f]
  <2>1. PICK ok \in BOOLEAN, seen \in BOOLEAN, new \in Bytes \cup {content[f]}, d \in Change :
           WriteFacts(r, f, ok, seen, new, c, d)
    BY MutateFacts
  <2>2. /\ change' = [change EXCEPT ![r][f] = d] /\ mixed \subseteq mixed'
        /\ heir' = (IF c.known THEN heir ELSE [heir EXCEPT ![r][f] = lastWriter[f]])
        /\ d.before = (IF c.known THEN c.before ELSE content[f])
    BY <2>1 DEF WriteFacts
  <2>3. heir'[r][f] = Edited /\ f \notin mixed' => d.before = Edited
    BY <2>2 DEF Typed, JournalTyped, EditIsThere
  <2> QED
    BY <2>2, <2>3 DEF Typed, JournalTyped
<1>2. CASE ~\E r \in Runs, f \in Files : Mutate(r, f)
  <2>1. Untouched.known = FALSE
    BY DEF Untouched
  <2> QED
    BY <1>2, <2>1, SameBytes DEF SameWork
<1> QED
  BY <1>1, <1>2

LEMMA StepEditThere ==
    Typed /\ EntryInv /\ [JournalNext]_journalVars => EditIsThere'
<1> SUFFICES ASSUME Typed, EntryInv, [JournalNext]_journalVars,
                    NEW f \in Files, lastWriter'[f] = Edited, f \notin mixed'
             PROVE  content'[f] = Edited
  BY DEF EditIsThere
<1> USE DEF files, journal, store, guard, budget, history
<1>0. /\ content \in [Files -> Contents] /\ lastWriter \in [Files -> Runs \cup {NoRun, Edited}]
      /\ EditIsThere /\ EditIsFound /\ ReadyToRestore /\ EntryIsWhole /\ EditIsNoResult
      /\ Edited \notin Runs /\ Edited \notin Bytes
  BY RunsAssumption, BytesAssumption DEF Typed, FilesTyped, EntryInv
<1>1. CASE \E r \in Runs, g \in Files : Mutate(r, g)
  <2> PICK r \in Runs, g \in Files : Mutate(r, g)
    BY <1>1
  <2>1. PICK ok \in BOOLEAN, seen \in BOOLEAN, new \in Bytes \cup {content[g]}, d \in Change :
           WriteFacts(r, g, ok, seen, new, change[r][g], d)
    BY MutateFacts
  <2> QED
    BY <1>0, <2>1 DEF WriteFacts, EditIsThere
<1>2. CASE \E r \in Runs : RevertCheck(r)
  <2> PICK r \in Runs : RevertCheck(r)
    BY <1>2
  <2>1. /\ lastWriter'[f] = (IF f \in Recognised(r) /\ lastWriter[f] = r THEN heir[r][f] ELSE lastWriter[f])
        /\ UNCHANGED <<content, mixed>>
    BY DEF RevertCheck
  <2> QED
    BY <1>0, <2>1 DEF Recognised, EditIsThere, EditIsFound
<1>3. CASE \E r \in Runs, g \in Files : RestoreFile(r, g)
  <2> PICK r \in Runs, g \in Files : RestoreFile(r, g)
    BY <1>3
  <2>1. /\ content' = [content EXCEPT ![g] = change[r][g].before]
        /\ lastWriter' = [lastWriter EXCEPT ![g] = heir[r][g]]
        /\ UNCHANGED mixed /\ change[r][g].known
    BY DEF RestoreFile, ToRestore
  <2> QED
    BY <1>0, <2>1 DEF EditIsThere, EditIsFound
<1>4. CASE \E r \in Runs, g \in Files : RestoreFails(r, g)
  <2> PICK r \in Runs, g \in Files : RestoreFails(r, g)
    BY <1>4
  <2>1. /\ content' = [content EXCEPT ![g] = change[r][g].before] \/ content' = content
        /\ UNCHANGED <<mixed, lastWriter>>
        /\ content[g] = change[r][g].after /\ change[r][g].known /\ change[r][g].tracked
    BY <1>0 DEF RestoreFails, ToRestore, ReadyToRestore
  <2>2. content[f] = Edited
    BY <1>0, <2>1 DEF EditIsThere
  <2>3. f # g
    BY <1>0, <2>1, <2>2 DEF EntryIsWhole, EditIsNoResult
  <2> QED
    BY <1>0, <2>1, <2>2, <2>3
<1>5. CASE \E g \in Files : Edit(g)
  BY <1>0, <1>5 DEF Edit, EditIsThere
<1>6. CASE UNCHANGED <<content, lastWriter, mixed>>
  BY <1>0, <1>6 DEF EditIsThere
<1>7. \/ UNCHANGED <<content, lastWriter, mixed>>
      \/ \E g \in Files : Edit(g)
      \/ \E r \in Runs : RevertCheck(r)
      \/ \E r \in Runs, g \in Files : Mutate(r, g) \/ RestoreFile(r, g) \/ RestoreFails(r, g)
  BY DEF JournalNext, RunStep, journalVars, BeginDirectory, BeginPush, Finish, Keep, RevertFind,
         RevertEnd, ClearRecords, ClearOwners, ClearDirectory
<1> QED
  BY <1>1, <1>2, <1>3, <1>4, <1>5, <1>6, <1>7

LEMMA StepReady == Typed /\ BackupInv /\ RunsInv /\ EntryInv /\ [JournalNext]_journalVars => ReadyToRestore'
<1> SUFFICES ASSUME Typed, BackupInv, RunsInv, EntryInv, [JournalNext]_journalVars,
                    NEW r \in Runs, NEW f \in Files, Locked(r)', (f \in ToRestore(r))'
             PROVE  content'[f] = change'[r][f].after /\ Top(owners[f])' \in {NoRun, r}
  BY DEF ReadyToRestore
<1> USE DEF files, journal, store, guard, budget, history
<1>0. /\ content \in [Files -> Contents] /\ owners \in [Files -> Stacks]
      /\ busy \in Runs \cup {NoRun} /\ NoRun \notin Runs
  BY RunsAssumption DEF Typed, FilesTyped, StoreTyped
<1>1. busy' = r /\ step' = "locked"
  BY DEF Locked
<1>2. change'[r][f].known /\ ~change'[r][f].restored /\ change'[r][f].tracked
  BY DEF ToRestore
<1>3. CASE RevertCheck(r)
  <2>1. /\ Accepted(r) /\ UNCHANGED content
        /\ owners' = OwnersAfterRecognition(r)
    BY <1>0, <1>1, <1>3 DEF RevertCheck
  <2>2. SameWork(r, f) /\ ~change[r][f].restored /\ f \notin Recognised(r)
    BY <1>2, <1>3, RevertCheckFacts
  <2>3. f \in Outstanding(r) \ Recognised(r)
    BY <1>2, <2>2 DEF SameWork, Outstanding
  <2> QED
    BY <2>1, <2>2, <2>3 DEF Accepted, Restorable, SameWork
<1>4. ASSUME Locked(r), f \in ToRestore(r), UNCHANGED <<content[f], owners[f], change[r][f].after>>
      PROVE  content'[f] = change'[r][f].after /\ Top(owners[f])' \in {NoRun, r}
  BY <1>4 DEF EntryInv, ReadyToRestore, Top
<1>5. CASE \E g \in Files : RestoreFile(r, g)
  <2> PICK g \in Files : RestoreFile(r, g)
    BY <1>5
  <2>1. SameWork(r, f) /\ ~change[r][f].restored /\ f # g
    BY <1>2, RestoreFileFacts
  <2>2. Locked(r) /\ f \in ToRestore(r) /\ UNCHANGED <<content[f], owners[f], change[r][f].after>>
    BY <1>0, <1>2, <2>1 DEF RestoreFile, SameWork, ToRestore
  <2> QED
    BY <1>4, <2>2
<1>6. CASE ClearRecords
  <2>1. Locked(r) /\ r \notin listed /\ UNCHANGED <<content, owners>>
    BY <1>1, <1>6 DEF ClearRecords, Locked
  <2>2. change'[r][f] = change[r][f]
    BY <1>6, <2>1, ClearRecordsFacts
  <2>3. f \in ToRestore(r)
    BY <1>2, <2>2 DEF ToRestore
  <2> QED
    BY <1>4, <2>1, <2>2, <2>3
<1>7. CASE ClearDirectory
  <2>1. Locked(r) /\ UNCHANGED <<content, owners>>
    BY <1>1, <1>7 DEF ClearDirectory, Locked
  <2>2. SameWork(r, f) /\ change'[r][f].restored = change[r][f].restored
    BY <1>7, ClearDirectoryFacts
  <2>3. f \in ToRestore(r) /\ change'[r][f].after = change[r][f].after
    BY <1>2, <2>2 DEF ToRestore, SameWork
  <2> QED
    BY <1>4, <2>1, <2>3
<1>8. CASE UNCHANGED <<content, owners, change, busy, step>>
  <2>1. Locked(r) /\ f \in ToRestore(r)
    BY <1>1, <1>2, <1>8 DEF Locked, ToRestore
  <2> QED
    BY <1>4, <1>8, <2>1
<1>9. \/ UNCHANGED <<content, owners, change, busy, step>>
      \/ RevertCheck(r) \/ (\E g \in Files : RestoreFile(r, g))
      \/ ClearRecords \/ ClearDirectory
  <2>1. ASSUME NEW s \in Runs, RevertCheck(s) PROVE s = r
    BY <1>0, <1>1, <2>1 DEF RevertCheck
  <2>2. ASSUME NEW s \in Runs, NEW g \in Files, RestoreFile(s, g) PROVE s = r
    BY <1>0, <1>1, <2>2 DEF RestoreFile, Locked
  <2>3. ASSUME NEW s \in Runs, NEW g \in Files, Mutate(s, g) PROVE FALSE
    BY <1>0, <1>1, <2>3 DEF Mutate, MayWrite
  <2>4. ASSUME NEW s \in Runs, NEW g \in Files, RestoreFails(s, g) PROVE FALSE
    BY <1>0, <1>1, <2>4 DEF RestoreFails
  <2>5. ASSUME NEW g \in Files, Edit(g) PROVE FALSE
    BY <1>0, <1>1, <2>5 DEF Edit
  <2>6. ASSUME NEW s \in Runs, BeginPush(s) \/ RevertEnd(s) \/ RevertFind(s) \/ Finish(s)
                               \/ \E a \in Albums : BeginDirectory(s, a)
        PROVE  FALSE
    BY <1>0, <1>1, <2>6 DEF BeginPush, RevertEnd, RevertFind, Finish, BeginDirectory
  <2>7. ASSUME ClearOwners PROVE FALSE
    BY <1>1, <2>7 DEF ClearOwners
  <2>8. ASSUME NEW s \in Runs, Keep(s) PROVE UNCHANGED <<content, owners, change, busy, step>>
    BY <2>8 DEF Keep
  <2> QED
    BY <2>1, <2>2, <2>3, <2>4, <2>5, <2>6, <2>7, <2>8 DEF JournalNext, RunStep, journalVars
<1> QED
  BY <1>3, <1>5, <1>6, <1>7, <1>8, <1>9

LEMMA StepEntry ==
    Typed /\ BackupInv /\ RunsInv /\ EntryInv /\ [JournalNext]_journalVars => EntryInv'
  BY StepEntryWhole, StepEditNoResult, StepEditFound, StepEditThere, StepReady DEF EntryInv

----------------------------------------------------------------------------
(* The stacks.                                                             *)

LEMMA TopFacts ==
    ASSUME NEW s \in Stacks
    PROVE  /\ Len(s) \in Nat /\ s \in Seq(Runs)
           /\ s = <<>> => Len(s) = 0 /\ Top(s) = NoRun
           /\ s # <<>> => Len(s) > 0 /\ Top(s) = s[Len(s)] /\ Top(s) \in Runs
           /\ Top(s) \in Runs => s # <<>>
  BY RunsAssumption, EmptySeq DEF Stacks, Top

LEMMA PushedFacts ==
    ASSUME NEW s \in Stacks, NEW r \in Runs
    PROVE  /\ Top(Pushed(s, r)) = r
           /\ \/ Top(s) = r /\ Pushed(s, r) = s
              \/ /\ Top(s) # r /\ Len(Pushed(s, r)) = Len(s) + 1
                 /\ \A i \in 1 .. Len(s) : Pushed(s, r)[i] = s[i]
                 /\ Pushed(s, r)[Len(s) + 1] = r
<1>1. s \in Seq(Runs)
  BY TopFacts
<1>2. /\ Append(s, r) \in Seq(Runs) /\ Len(Append(s, r)) = Len(s) + 1
      /\ \A i \in 1 .. Len(s) : Append(s, r)[i] = s[i]
      /\ Append(s, r)[Len(s) + 1] = r /\ Append(s, r) # <<>>
  BY <1>1
<1>3. Top(Append(s, r)) = r
  BY <1>2 DEF Top
<1> QED
  BY <1>2, <1>3 DEF Pushed

LEMMA PoppedFacts ==
    ASSUME NEW s \in Stacks, NEW r \in Runs
    PROVE  \/ Top(s) # r /\ Popped(s, r) = s
           \/ /\ Top(s) = r /\ Len(s) > 0 /\ s[Len(s)] = r
              /\ Popped(s, r) \in Stacks /\ Len(Popped(s, r)) = Len(s) - 1
              /\ \A i \in 1 .. Len(s) - 1 : Popped(s, r)[i] = s[i]
              /\ Top(Popped(s, r)) = (IF Len(s) = 1 THEN NoRun ELSE s[Len(s) - 1])
<1>1. CASE Top(s) # r
  BY <1>1 DEF Popped
<1>2. CASE Top(s) = r
  <2>1. s \in Seq(Runs) /\ Len(s) \in Nat /\ Len(s) > 0 /\ s[Len(s)] = r
    BY <1>2, TopFacts
  <2> DEFINE p == SubSeq(s, 1, Len(s) - 1)
  <2>2. Len(s) - 1 \in Nat /\ Len(s) - 1 <= Len(s)
    BY <2>1
  <2>3. Len(p) = Len(s) - 1 /\ \A i \in 1 .. Len(s) - 1 : p[i] = s[i]
    BY <2>1, <2>2, Prefix
  <2>4. Popped(s, r) = p /\ p \in Stacks
    BY <1>2, PoppedIsStack DEF Popped
  <2> HIDE DEF p
  <2>5. CASE Len(s) = 1
    BY <1>2, <2>1, <2>3, <2>4, <2>5, TopFacts
  <2>6. CASE Len(s) # 1
    BY <1>2, <2>1, <2>3, <2>4, <2>6, TopFacts
  <2> QED
    BY <2>5, <2>6
<1> QED
  BY <1>1, <1>2

\* The runs whose work on f stands.
Standing(f) == {r \in Runs : f \in ToRestore(r)}

\* Over a stack with t on top, w may have written last: work that stands and was
\* written last is on top, and nobody has written nothing over work that stands.
Over(t, w, standing) ==
    /\ w \in standing => t \in {NoRun, w}
    /\ t \in standing => w # NoRun

\* Each run on a stack found the work of the run below it, and so did a run that
\* has looked at its album and is not on the stack yet.
FileFollows(f) ==
    /\ Over(Top(owners[f]), lastWriter[f], Standing(f))
    /\ \A i \in 1 .. Len(owners[f]) - 1 :
          Over(owners[f][i], heir[owners[f][i + 1]][f], Standing(f))
    /\ \A s \in Runs :
          /\ outcome[s] = "running" /\ f = album[s] /\ change[s][f].known
          /\ Top(owners[f]) # s
          => Over(Top(owners[f]), heir[s][f], Standing(f))
StackFollows == clearing # "records" => \A f \in Files \ mixed : FileFollows(f)

\* A running run is nowhere on the stack of its album but on top, where it is when
\* it left something there.
RunOnTop ==
    \A r \in Runs, f \in Files : outcome[r] = "running" /\ f = album[r] =>
        /\ change[r][f].tracked => Top(owners[f]) = r
        /\ \A i \in 1 .. Len(owners[f]) - 1 : owners[f][i] # r

\* Who is on a stack wrote the file; a listed run whose work stands is on it.
StackIsKnown ==
    /\ clearing = "no" =>
          \A f \in Files : \A i \in 1 .. Len(owners[f]) : change[owners[f][i]][f].known
    /\ clearing = "owners" => \A f \in Files : owners[f] = <<>>
OnStack ==
    \A r \in listed, f \in Files : r \in Standing(f) => \E i \in 1 .. Len(owners[f]) : owners[f][i] = r

StackInv == StackFollows /\ RunOnTop /\ StackIsKnown /\ OnStack

LEMMA OverShrinks ==
    ASSUME NEW t, NEW w, NEW many, NEW few, few \subseteq many, Over(t, w, many)
    PROVE  Over(t, w, few)
  BY DEF Over

LEMMA InitStack == Init => StackInv
  BY RunsAssumption DEF Init, StackInv, StackFollows, FileFollows, RunOnTop, StackIsKnown, OnStack,
     Over, Standing, ToRestore, Top, Untouched

\* What a step that writes nothing does to a stack: leave it, or take off it a run
\* that has restored the file.
Still(f) ==
    /\ owners'[f] = owners[f] /\ lastWriter'[f] \in {lastWriter[f], Edited}
    /\ Standing(f)' \subseteq Standing(f)
Taken(r, f) ==
    /\ outcome[r] = "done" /\ r \in Standing(f)
    /\ owners'[f] = Popped(owners[f], r)
    /\ Standing(f)' \subseteq Standing(f) \ {r}
    /\ \/ lastWriter'[f] = heir[r][f] /\ (Top(owners[f]) \in {NoRun, r} \/ lastWriter[f] = r)
       \/ lastWriter'[f] = lastWriter[f] /\ lastWriter[f] # r

Writes == \E r \in Runs, f \in Files : Mutate(r, f)

LEMMA StandingShrinks ==
    ASSUME Typed, [JournalNext]_journalVars, ~Writes, NEW f \in Files
    PROVE  Standing(f)' \subseteq Standing(f)
<1> SUFFICES ASSUME NEW s \in Runs, (f \in ToRestore(s))'
             PROVE  f \in ToRestore(s)
  BY DEF Standing
<1>1. change'[s][f].known /\ ~change'[s][f].restored /\ change'[s][f].tracked
  BY DEF ToRestore
<1>2. ~change[s][f].restored \/ change'[s][f] = Untouched
  <2>1. CASE UNCHANGED change
    BY <1>1, <2>1
  <2>2. CASE \E r \in Runs : RevertCheck(r)
    BY <1>1, <2>2, RevertCheckFacts
  <2>3. CASE \E r \in Runs, g \in Files : RestoreFile(r, g)
    BY <1>1, <2>3, RestoreFileFacts
  <2>4. CASE \E r \in Runs, g \in Files : RestoreFails(r, g)
    <3> PICK r \in Runs, g \in Files : RestoreFails(r, g)
      BY <2>4
    <3>1. change'[s][f].restored = change[s][f].restored
      BY RestoreFailsFacts
    <3> QED
      BY <1>1, <3>1
  <2>5. CASE ClearDirectory
    <3>1. change'[s][f].restored = change[s][f].restored
      BY <2>5, ClearDirectoryFacts
    <3> QED
      BY <1>1, <3>1
  <2>6. CASE ClearRecords
    BY <1>1, <2>6, ClearRecordsFacts
  <2>7. \/ UNCHANGED change \/ ClearDirectory \/ ClearRecords
        \/ \E r \in Runs : RevertCheck(r) \/ \E g \in Files : RestoreFile(r, g) \/ RestoreFails(r, g)
    BY DEF Writes, JournalNext, RunStep, journalVars, journal, BeginDirectory, BeginPush, Finish, Keep,
           RevertFind, RevertEnd, Edit, ClearOwners
  <2> QED
    BY <2>1, <2>2, <2>3, <2>4, <2>5, <2>6, <2>7
<1>3. Untouched.known = FALSE
  BY DEF Untouched
<1>4. SameWork(s, f)
  BY <1>1, <1>3, SameBytes DEF Writes
<1> QED
  BY <1>1, <1>2, <1>3, <1>4 DEF ToRestore, SameWork

LEMMA StillOrTaken ==
    ASSUME Typed, RunsInv, EntryInv, [JournalNext]_journalVars, ~Writes, ~ClearOwners, NEW f \in Files
    PROVE  Still(f) \/ \E r \in Runs : Taken(r, f)
<1> USE DEF files, journal, store, guard, budget, history
<1>0. /\ owners \in [Files -> Stacks] /\ lastWriter \in [Files -> Runs \cup {NoRun, Edited}]
      /\ Standing(f)' \subseteq Standing(f)
      /\ EntryIsWhole /\ RevertIsOfDone
  BY StandingShrinks DEF Typed, FilesTyped, EntryInv, RunsInv
<1>1. CASE \E r \in Runs : RevertCheck(r)
  <2> PICK r \in Runs : RevertCheck(r)
    BY <1>1
  <2>1. outcome[r] = "done"
    BY <1>0 DEF RevertCheck, RevertIsOfDone
  <2>2. CASE f \in Recognised(r)
    <3>1. r \in Standing(f)
      BY <1>0, <2>2 DEF Recognised, Standing, ToRestore, EntryIsWhole
    <3>2. r \notin Standing(f)'
      BY <2>2, RevertCheckFacts DEF Standing, ToRestore
    <3>3. /\ owners'[f] = Popped(owners[f], r)
          /\ lastWriter'[f] = (IF lastWriter[f] = r THEN heir[r][f] ELSE lastWriter[f])
      BY <2>2 DEF RevertCheck, OwnersAfterRecognition
    <3> QED
      BY <1>0, <2>1, <3>1, <3>2, <3>3 DEF Taken
  <2>3. CASE f \notin Recognised(r)
    BY <1>0, <2>3 DEF RevertCheck, OwnersAfterRecognition, Still
  <2> QED
    BY <2>2, <2>3
<1>2. CASE \E r \in Runs, g \in Files : RestoreFile(r, g)
  <2> PICK r \in Runs, g \in Files : RestoreFile(r, g)
    BY <1>2
  <2>1. /\ outcome[r] = "done" /\ g \in ToRestore(r) /\ Top(owners[g]) \in {NoRun, r}
        /\ owners' = [owners EXCEPT ![g] = Popped(owners[g], r)]
        /\ lastWriter' = [lastWriter EXCEPT ![g] = heir[r][g]]
    BY <1>0 DEF RestoreFile, Locked, RevertIsOfDone, ReadyToRestore, EntryInv
  <2>2. CASE f = g
    <3>1. r \in Standing(f) /\ r \notin Standing(f)'
      BY <2>1, <2>2, RestoreFileFacts DEF Standing, ToRestore
    <3> QED
      BY <1>0, <2>1, <2>2, <3>1 DEF Taken
  <2>3. CASE f # g
    BY <1>0, <2>1, <2>3 DEF Still
  <2> QED
    BY <2>2, <2>3
<1>3. CASE \E g \in Files : Edit(g)
  BY <1>0, <1>3 DEF Edit, Still
<1>4. CASE UNCHANGED <<owners, lastWriter>>
  BY <1>0, <1>4 DEF Still
<1>5. \/ UNCHANGED <<owners, lastWriter>> \/ \E g \in Files : Edit(g)
      \/ \E r \in Runs : RevertCheck(r) \/ \E g \in Files : RestoreFile(r, g)
  BY ZenonT(30) DEF Writes, JournalNext, RunStep, journalVars, BeginDirectory, BeginPush, Finish, Keep,
         RevertFind, RestoreFails, RevertEnd, ClearRecords, ClearDirectory
<1> QED
  BY <1>1, <1>2, <1>3, <1>4, <1>5

\* A run that has something of its album in hand after a step that writes nothing
\* had it before.
LEMMA RunningBefore ==
    ASSUME Typed, BackupInv, RunsInv, [JournalNext]_journalVars, ~Writes,
           NEW s \in Runs, NEW f \in Files, outcome'[s] = "running", f = album'[s]
    PROVE  /\ ~ClearRecords
           /\ \/ ~change[s][f].known /\ ~change'[s][f].known
              \/ outcome[s] = "running" /\ f = album[s] /\ SameWork(s, f) /\ heir'[s][f] = heir[s][f]
<1> USE DEF files, journal, store, guard, budget, history
<1>0. /\ outcome \in [Runs -> {"none", "running", "done"}] /\ album \in [Runs -> Albums \cup {Absent}]
      /\ RunningIsListed /\ KnownIsOwn
  BY DEF Typed, JournalTyped, RunsInv
<1>1. ~ClearRecords
  BY <1>0 DEF ClearRecords, RunningIsListed
<1>2. SameWork(s, f) /\ heir'[s][f] = heir[s][f]
  BY <1>1, SameBytes DEF Writes
<1>3. CASE \E r \in Runs, a \in Albums : BeginDirectory(r, a)
  <2>1. outcome[s] = "running" /\ album'[s] = album[s]
    BY <1>0, <1>3 DEF BeginDirectory
  <2> QED
    BY <1>1, <1>2, <2>1
<1>4. CASE \E r \in Runs : BeginPush(r)
  <2> PICK r \in Runs : BeginPush(r)
    BY <1>4
  <2>1. outcome[r] = "none" /\ outcome' = [outcome EXCEPT ![r] = "running"] /\ album' = album
    BY DEF BeginPush, BackupInv, BeginIsFresh
  <2>2. CASE s = r
    BY <1>0, <1>1, <1>2, <2>1, <2>2 DEF KnownIsOwn, SameWork
  <2>3. CASE s # r
    BY <1>0, <1>1, <1>2, <2>1, <2>3
  <2> QED
    BY <2>2, <2>3
<1>5. CASE \E r \in Runs : Finish(r)
  <2>1. outcome[s] = "running" /\ album' = album
    BY <1>0, <1>5 DEF Finish
  <2> QED
    BY <1>1, <1>2, <2>1
<1>6. CASE UNCHANGED <<outcome, album>>
  BY <1>1, <1>2, <1>6
<1>7. \/ UNCHANGED <<outcome, album>>
      \/ \E r \in Runs : BeginPush(r) \/ Finish(r) \/ \E a \in Albums : BeginDirectory(r, a)
  BY <1>1, ZenonT(30) DEF Writes, JournalNext, RunStep, journalVars, Keep, RevertFind, RevertCheck, RestoreFile,
         RestoreFails, RevertEnd, ClearOwners, ClearDirectory, Edit
<1> QED
  BY <1>3, <1>4, <1>5, <1>6, <1>7

\* Taking a run that has restored its file off the stack.
LEMMA TakenFollows ==
    ASSUME Typed, WriterInv, NEW f \in Files, NEW r \in Runs, Taken(r, f), FileFollows(f)
    PROVE  /\ Over(Top(owners[f])', lastWriter'[f], Standing(f)')
           /\ \A i \in 1 .. Len(owners'[f]) - 1 :
                 Over(owners'[f][i], heir[owners'[f][i + 1]][f], Standing(f)')
           /\ \A s \in Runs :
                 /\ outcome[s] = "running" /\ f = album[s] /\ change[s][f].known
                 /\ Top(owners[f])' # s
                 => Over(Top(owners[f])', heir[s][f], Standing(f)')
<1> DEFINE o == owners[f]
           p == Popped(o, r)
<1>0. /\ o \in Stacks /\ NoRun \notin Runs /\ r \in Standing(f) /\ outcome[r] = "done"
      /\ owners'[f] = p /\ Top(owners[f])' = Top(p)
      /\ Standing(f)' \subseteq Standing(f) \ {r}
  BY RunsAssumption DEF Typed, FilesTyped, Taken, Top
<1>1. /\ Over(Top(o), lastWriter[f], Standing(f))
      /\ \A i \in 1 .. Len(o) - 1 : Over(o[i], heir[o[i + 1]][f], Standing(f))
      /\ \A s \in Runs : /\ outcome[s] = "running" /\ f = album[s] /\ change[s][f].known
                         /\ Top(o) # s
                         => Over(Top(o), heir[s][f], Standing(f))
  BY DEF FileFollows
<1>2. \/ lastWriter'[f] = heir[r][f] /\ Top(o) \in {NoRun, r}
      \/ lastWriter'[f] = lastWriter[f] /\ lastWriter[f] # r
  BY <1>0, <1>1 DEF Taken, Over
<1>3. heir[r][f] # r
  BY DEF WriterInv, HeirIsSettled
<1>4. \/ Top(o) # r /\ p = o
      \/ /\ Top(o) = r /\ Len(o) \in Nat /\ Len(o) > 0 /\ o[Len(o)] = r
         /\ p \in Stacks /\ Len(p) = Len(o) - 1
         /\ \A i \in 1 .. Len(o) - 1 : p[i] = o[i]
         /\ Top(p) = (IF Len(o) = 1 THEN NoRun ELSE o[Len(o) - 1])
  BY <1>0, PoppedFacts, TopFacts
<1> HIDE DEF o, p
<1>5. ASSUME Top(o) = r, Len(o) # 1
      PROVE  Over(Top(p), heir[r][f], Standing(f))
  <2>1. /\ Len(o) - 1 \in 1 .. Len(o) - 1 /\ o[Len(o)] = r /\ Top(p) = o[Len(o) - 1]
        /\ (Len(o) - 1) + 1 = Len(o)
    BY <1>0, <1>4, <1>5
  <2> QED
    BY <1>1, <2>1
<1>6. Over(Top(p), lastWriter'[f], Standing(f)')
  <2>1. CASE Top(o) # r
    <3>1. Top(p) = Top(o) /\ NoRun \notin Standing(f)
      BY <1>0, <1>4, <2>1 DEF Standing
    <3>2. CASE lastWriter'[f] = lastWriter[f]
      BY <1>0, <1>1, <3>1, <3>2, OverShrinks
    <3>3. CASE Top(o) = NoRun
      BY <1>0, <3>1, <3>3 DEF Over
    <3> QED
      BY <1>2, <2>1, <3>2, <3>3
  <2>2. CASE Top(o) = r /\ Len(o) = 1
    BY <1>0, <1>4, <2>2 DEF Over, Standing
  <2>3. CASE Top(o) = r /\ Len(o) # 1
    BY <1>0, <1>1, <1>2, <1>5, <2>3 DEF Over, Standing
  <2> QED
    BY <2>1, <2>2, <2>3
<1>7. ASSUME NEW i \in 1 .. Len(p) - 1
      PROVE  Over(p[i], heir[p[i + 1]][f], Standing(f)')
  <2>1. Over(p[i], heir[p[i + 1]][f], Standing(f))
    BY <1>0, <1>1, <1>4, SMTT(20)
  <2> QED
    BY <1>0, <2>1, OverShrinks
<1>8. ASSUME NEW s \in Runs, outcome[s] = "running", f = album[s], change[s][f].known, Top(p) # s
      PROVE  Over(Top(p), heir[s][f], Standing(f)')
  <2>1. s # r
    BY <1>0, <1>8
  <2>2. CASE Top(o) # r
    BY <1>0, <1>1, <1>4, <1>8, <2>2, OverShrinks
  <2>3. CASE Top(o) = r
    <3>1. Over(r, heir[s][f], Standing(f))
      BY <1>1, <1>8, <2>1, <2>3
    <3> QED
      BY <1>0, <3>1 DEF Over, Standing
  <2> QED
    BY <2>2, <2>3
<1> QED
  BY <1>0, <1>6, <1>7, <1>8

LEMMA QuietFollows ==
    ASSUME Typed, BackupInv, RunsInv, WriterInv, EntryInv, StackInv, [JournalNext]_journalVars, ~Writes
    PROVE  StackFollows'
<1> SUFFICES ASSUME clearing' # "records", NEW f \in Files, f \notin mixed'
             PROVE  FileFollows(f)'
  BY DEF StackFollows
<1>0. /\ owners \in [Files -> Stacks] /\ heir \in [Runs -> [Files -> Runs \cup {NoRun, Edited}]]
      /\ NoRun \notin Runs /\ Edited \notin Runs /\ Edited # NoRun /\ RunningIsListed
  BY RunsAssumption DEF Typed, FilesTyped, JournalTyped, RunsInv
<1>1. CASE ClearOwners
  <2>1. owners'[f] = <<>> /\ Len(owners'[f]) = 0
    BY <1>1 DEF ClearOwners
  <2>2. Top(owners[f])' = NoRun
    BY <2>1 DEF Top
  <2> QED
    BY <1>0, <2>1, <2>2 DEF FileFollows, Over, Standing
<1>2. CASE ~ClearOwners
  <2>1. ~ClearRecords /\ clearing # "records"
    BY <1>2, ZenonT(30) DEF ClearRecords, ClearOwners, JournalNext, RunStep, journalVars, BeginDirectory, BeginPush,
       Writes, Finish, Keep, RevertFind, RevertCheck, RestoreFile, RestoreFails, RevertEnd, Edit, ClearDirectory
  <2>2. mixed' = mixed /\ \A s \in Runs : SameWork(s, f) /\ heir'[s][f] = heir[s][f]
    BY <2>1, SameBytes DEF Writes
  <2>3. FileFollows(f)
    BY <2>1, <2>2 DEF StackInv, StackFollows
  <2>4. \A s \in Runs : outcome'[s] = "running" /\ f = album'[s] /\ change'[s][f].known
           => outcome[s] = "running" /\ f = album[s] /\ change[s][f].known
    BY RunningBefore DEF SameWork
  <2>5. owners'[f] \in Stacks /\ \A i \in 1 .. Len(owners'[f]) - 1 : owners'[f][i + 1] \in Runs
    BY StepTyped DEF Typed, FilesTyped, Stacks
  <2>6. CASE Still(f)
    <3>1. owners'[f] = owners[f] /\ Top(owners[f])' = Top(owners[f])
          /\ lastWriter'[f] \in {lastWriter[f], Edited} /\ Standing(f)' \subseteq Standing(f)
      BY <2>6 DEF Still, Top
    <3>2. Over(Top(owners[f]), lastWriter'[f], Standing(f)')
      BY <1>0, <2>3, <3>1 DEF FileFollows, Over, Standing
    <3>3. ASSUME NEW i \in 1 .. Len(owners[f]) - 1
          PROVE  Over(owners[f][i], heir'[owners[f][i + 1]][f], Standing(f)')
      BY <2>2, <2>3, <2>5, <3>1, OverShrinks DEF FileFollows
    <3>4. ASSUME NEW s \in Runs, outcome'[s] = "running", f = album'[s], change'[s][f].known,
                 Top(owners[f]) # s
          PROVE  Over(Top(owners[f]), heir'[s][f], Standing(f)')
      BY <2>2, <2>3, <2>4, <3>1, <3>4, OverShrinks DEF FileFollows
    <3> QED
      BY <3>1, <3>2, <3>3, <3>4 DEF FileFollows
  <2>7. CASE \E r \in Runs : Taken(r, f)
    <3> PICK r \in Runs : Taken(r, f)
      BY <2>7
    <3>1. /\ Over(Top(owners[f])', lastWriter'[f], Standing(f)')
          /\ \A i \in 1 .. Len(owners'[f]) - 1 :
                 Over(owners'[f][i], heir[owners'[f][i + 1]][f], Standing(f)')
          /\ \A s \in Runs :
                 /\ outcome[s] = "running" /\ f = album[s] /\ change[s][f].known
                 /\ Top(owners[f])' # s
                 => Over(Top(owners[f])', heir[s][f], Standing(f)')
      BY <2>3, TakenFollows
    <3> QED
      BY <2>2, <2>4, <2>5, <3>1 DEF FileFollows
  <2> QED
    BY <1>2, <2>6, <2>7, StillOrTaken
<1> QED
  BY <1>1, <1>2

LEMMA QuietOnTop ==
    ASSUME Typed, BackupInv, RunsInv, EntryInv, StackInv, [JournalNext]_journalVars, ~Writes
    PROVE  RunOnTop'
<1> SUFFICES ASSUME NEW s \in Runs, NEW f \in Files, outcome'[s] = "running", f = album'[s]
             PROVE  /\ change'[s][f].tracked => Top(owners[f])' = s
                    /\ \A i \in 1 .. Len(owners'[f]) - 1 : owners'[f][i] # s
  BY DEF RunOnTop
<1>0. /\ owners[f] \in Stacks /\ RunOnTop /\ StackIsKnown /\ EntryIsWhole /\ EntryIsWhole'
      /\ clearing \in {"no", "records", "owners"} /\ RunningIsListed /\ ClearHoldsNothing
  BY StepEntryWhole DEF Typed, FilesTyped, StoreTyped, StackInv, EntryInv, RunsInv, BackupInv
<1>1. \/ ~change[s][f].known /\ ~change'[s][f].known
      \/ outcome[s] = "running" /\ f = album[s] /\ SameWork(s, f)
  BY RunningBefore
<1>2. (RunningIsListed /\ ClearHoldsNothing)'
  BY StepRuns, StepBackedUp DEF RunsInv, BackupInv
<1>3. clearing' = "no" /\ ~ClearOwners
  BY <1>2 DEF RunningIsListed, ClearHoldsNothing, ClearOwners
<1>4. clearing = "no" \/ owners[f] = <<>>
  BY <1>0, <1>3, ZenonT(30) DEF StackIsKnown, JournalNext, RunStep, journalVars, BeginDirectory, BeginPush,
     Writes, Finish, Keep, RevertFind, RevertCheck, RestoreFile, RestoreFails, RevertEnd, Edit,
     ClearRecords, ClearOwners, ClearDirectory
<1>5. owners'[f] = owners[f] \/ \E r \in Runs : outcome[r] = "done" /\ owners'[f] = Popped(owners[f], r)
  BY <1>3, StillOrTaken DEF Still, Taken
<1>6. CASE ~change[s][f].known /\ ~change'[s][f].known
  <2>1. \A i \in 1 .. Len(owners[f]) : owners[f][i] # s
    BY <1>0, <1>4, <1>6 DEF StackIsKnown
  <2>2. Len(owners[f]) \in Nat
    BY <1>0, TopFacts
  <2>3. \A i \in 1 .. Len(owners'[f]) - 1 : owners'[f][i] # s
    <3>1. CASE owners'[f] = owners[f]
      BY <2>1, <2>2, <3>1
    <3>2. CASE owners'[f] # owners[f]
      BY <1>0, <1>5, <2>1, <2>2, <3>2, PoppedFacts
    <3> QED
      BY <3>1, <3>2
  <2>4. ~change'[s][f].tracked
    BY <1>0, <1>6 DEF EntryIsWhole
  <2> QED
    BY <2>3, <2>4
<1>7. CASE outcome[s] = "running" /\ f = album[s] /\ SameWork(s, f)
  <2>1. /\ change[s][f].tracked => Top(owners[f]) = s
        /\ \A i \in 1 .. Len(owners[f]) - 1 : owners[f][i] # s
    BY <1>0, <1>7 DEF RunOnTop
  <2>2. CASE owners'[f] = owners[f]
    BY <1>7, <2>1, <2>2 DEF SameWork, Top
  <2>3. CASE owners'[f] # owners[f]
    <3> PICK r \in Runs : outcome[r] = "done" /\ owners'[f] = Popped(owners[f], r)
      BY <1>5, <2>3
    <3> DEFINE o == owners[f]
    <3>0. o \in Stacks /\ Popped(o, r) # o /\ owners'[f] = Popped(o, r) /\ Len(o) \in Nat
      BY <1>0, <2>3, TopFacts
    <3>1. /\ Top(o) = r /\ Len(Popped(o, r)) = Len(o) - 1
          /\ \A i \in 1 .. Len(o) - 1 : Popped(o, r)[i] = o[i]
      <4> HIDE DEF o
      <4> QED
        BY <3>0, PoppedFacts
    <3> QED
      BY <1>0, <1>7, <2>1, <3>0, <3>1 DEF SameWork
  <2> QED
    BY <2>2, <2>3
<1> QED
  BY <1>1, <1>6, <1>7

LEMMA QuietKnown ==
    ASSUME Typed, RunsInv, EntryInv, StackInv, [JournalNext]_journalVars, ~Writes
    PROVE  StackIsKnown'
<1>0. owners \in [Files -> Stacks] /\ StackIsKnown
  BY DEF Typed, FilesTyped, StackInv
<1> USE DEF files, journal, store, guard, budget, history
<1>1. CASE ClearOwners
  BY <1>1 DEF ClearOwners, StackIsKnown
<1>2. CASE ClearRecords
  BY <1>2 DEF ClearRecords, StackIsKnown
<1>3. CASE ~ClearOwners /\ ~ClearRecords
  <2>1. \A s \in Runs, f \in Files : SameWork(s, f)
    BY <1>3, SameBytes DEF Writes
  <2>2. clearing' = clearing \/ (clearing = "owners" /\ clearing' = "no")
    BY <1>3, ZenonT(30) DEF JournalNext, RunStep, journalVars, BeginDirectory, BeginPush, Writes, Finish, Keep,
       RevertFind, RevertCheck, RestoreFile, RestoreFails, RevertEnd, Edit, ClearRecords, ClearOwners,
       ClearDirectory
  <2>3. ASSUME NEW f \in Files
        PROVE  owners'[f] = owners[f] \/ \E r \in Runs : owners'[f] = Popped(owners[f], r)
    BY <1>3, StillOrTaken DEF Still, Taken
  <2>4. ASSUME NEW f \in Files
        PROVE  /\ owners[f] \in Stacks /\ Len(owners[f]) \in Nat
               /\ \A i \in 1 .. Len(owners[f]) : owners[f][i] \in Runs
               /\ owners'[f] = owners[f]
                  \/ (Len(owners[f]) > 0 /\ Len(owners'[f]) = Len(owners[f]) - 1
                      /\ \A i \in 1 .. Len(owners[f]) - 1 : owners'[f][i] = owners[f][i])
    <3> DEFINE o == owners[f]
    <3>1. o \in Stacks
      BY <1>0
    <3>2. o \in Seq(Runs) /\ Len(o) \in Nat
      BY <3>1, TopFacts
    <3>3. owners'[f] = o \/ \E r \in Runs : owners'[f] = Popped(o, r)
      BY <2>3
    <3> HIDE DEF o
    <3>4. owners'[f] = o \/ (Len(o) > 0 /\ Len(owners'[f]) = Len(o) - 1
                             /\ \A i \in 1 .. Len(o) - 1 : owners'[f][i] = o[i])
      BY <3>1, <3>3, PoppedFacts
    <3>5. \A i \in 1 .. Len(o) : o[i] \in Runs
      BY <3>2
    <3> QED
      BY <3>1, <3>2, <3>4, <3>5 DEF o
  <2>5. ASSUME clearing' = "no", NEW f \in Files, NEW i \in 1 .. Len(owners'[f])
        PROVE  change'[owners'[f][i]][f].known
    <3>1. CASE clearing = "no"
      <4>1. i \in 1 .. Len(owners[f]) /\ owners'[f][i] = owners[f][i]
        BY <2>4, <2>5
      <4>2. owners[f][i] \in Runs /\ change[owners[f][i]][f].known
        BY <1>0, <2>4, <3>1, <4>1 DEF StackIsKnown
      <4> QED
        BY <2>1, <4>1, <4>2 DEF SameWork
    <3>2. CASE clearing # "no"
      <4>1. owners[f] = <<>>
        BY <1>0, <2>2, <2>5, <3>2 DEF StackIsKnown
      <4>2. Len(owners'[f]) = 0
        BY <2>4, <4>1
      <4> QED
        BY <2>5, <4>2
    <3> QED
      BY <3>1, <3>2
  <2>6. ASSUME clearing' = "owners", NEW f \in Files PROVE owners'[f] = <<>>
    <3>1. owners[f] = <<>>
      BY <1>0, <2>2, <2>6 DEF StackIsKnown
    <3> QED
      BY <2>4, <3>1
  <2> QED
    BY <2>5, <2>6 DEF StackIsKnown
<1> QED
  BY <1>1, <1>2, <1>3

LEMMA QuietOnStack ==
    ASSUME Typed, BackupInv, RunsInv, EntryInv, StackInv, [JournalNext]_journalVars, ~Writes
    PROVE  OnStack'
<1> SUFFICES ASSUME NEW s \in listed', NEW f \in Files, s \in Standing(f)'
             PROVE  \E i \in 1 .. Len(owners'[f]) : owners'[f][i] = s
  BY DEF OnStack
<1> DEFINE o == owners[f]
<1>0. /\ o \in Stacks /\ Len(o) \in Nat /\ listed' \subseteq Runs /\ KnownIsOwn /\ EntryIsWhole
  BY StepTyped, TopFacts DEF Typed, FilesTyped, StoreTyped, RunsInv, EntryInv
<1>1. s \in Standing(f) /\ s \in Runs
  BY <1>0, StandingShrinks
<1>2. change[s][f].known
  BY <1>1 DEF Standing, ToRestore
<1>3. s \in listed /\ ~ClearOwners
  <2>1. CASE \E r \in Runs : BeginPush(r)
    BY <1>0, <1>2, <2>1 DEF BeginPush, BackupInv, BeginIsFresh, KnownIsOwn, ClearOwners, RecordsFree
  <2>2. CASE ~\E r \in Runs : BeginPush(r)
    <3>1. listed' = listed \/ listed' = {}
      BY <2>2, ZenonT(30) DEF JournalNext, RunStep, journalVars, store, BeginDirectory, Writes, Finish, Keep,
         RevertFind, RevertCheck, RestoreFile, RestoreFails, RevertEnd, Edit, ClearRecords, ClearOwners,
         ClearDirectory
    <3> QED
      BY <3>1 DEF ClearOwners, BackupInv, ClearHoldsNothing
  <2> QED
    BY <2>1, <2>2
<1>4. PICK i \in 1 .. Len(o) : o[i] = s
  BY <1>1, <1>3 DEF StackInv, OnStack
<1>5. CASE owners'[f] = owners[f]
  BY <1>4, <1>5
<1>6. CASE owners'[f] # owners[f]
  <2>1. PICK r \in Runs : Taken(r, f)
    BY <1>3, <1>6, StillOrTaken DEF Still
  <2>2. s # r /\ owners'[f] = Popped(o, r)
    BY <2>1 DEF Taken
  <2>3. /\ Len(o) > 0 /\ o[Len(o)] = r /\ Len(owners'[f]) = Len(o) - 1
        /\ \A j \in 1 .. Len(o) - 1 : owners'[f][j] = o[j]
    <3> HIDE DEF o
    <3> QED
      BY <1>0, <1>6, <2>2, PoppedFacts, SMTT(20) DEF o
  <2>4. i \in 1 .. Len(o) - 1
    BY <1>0, <1>4, <2>2, <2>3
  <2> QED
    BY <1>4, <2>3, <2>4
<1> QED
  BY <1>5, <1>6

----------------------------------------------------------------------------
(* What a write does to the stack of its file.                             *)

LEMMA WriteStack ==
    ASSUME Typed, BackupInv, RunsInv, WriterInv, EntryInv, StackInv,
           NEW r \in Runs, NEW f \in Files, Mutate(r, f)
    PROVE  StackInv'
<1> DEFINE c == change[r][f]
           o == owners[f]
<1>1. PICK ok \in BOOLEAN, seen \in BOOLEAN, new \in Bytes \cup {content[f]}, d \in Change :
         WriteFacts(r, f, ok, seen, new, c, d)
  BY MutateFacts
<1>2. /\ outcome[r] = "running" /\ (f = album[r] \/ (f \in Shared /\ ~c.known))
      /\ busy = NoRun
      /\ UNCHANGED <<outcome, album, listed, clearing, busy, step>>
  BY DEF Mutate, MayWrite, store, guard
<1>3. /\ change \in [Runs -> [Files -> Change]] /\ owners \in [Files -> Stacks]
      /\ heir \in [Runs -> [Files -> Runs \cup {NoRun, Edited}]]
      /\ lastWriter \in [Files -> Runs \cup {NoRun, Edited}]
      /\ o \in Stacks /\ c \in Change /\ Len(o) \in Nat /\ listed \subseteq Runs
      /\ NoRun \notin Runs /\ Edited \notin Runs
  BY RunsAssumption, TopFacts DEF Typed, FilesTyped, JournalTyped, StoreTyped
<1>4. clearing = "no"
  BY <1>2 DEF RunsInv, RunningIsListed, BackupInv, ClearHoldsNothing
<1>5. /\ change' = [change EXCEPT ![r][f] = d] /\ d.known /\ mixed \subseteq mixed'
      /\ owners' = (IF seen /\ d.tracked THEN [owners EXCEPT ![f] = Pushed(o, r)] ELSE owners)
      /\ heir' = (IF c.known THEN heir ELSE [heir EXCEPT ![r][f] = lastWriter[f]])
      /\ lastWriter' = (IF (ok /\ seen) \/ new # content[f]
                        THEN [lastWriter EXCEPT ![f] = r] ELSE lastWriter)
      /\ seen \/ d.tracked = (c.known /\ c.tracked)
  BY <1>1 DEF WriteFacts
<1> HIDE DEF o
<1>6. \/ Top(o) = r /\ Pushed(o, r) = o
      \/ /\ Top(o) # r /\ Len(Pushed(o, r)) = Len(o) + 1
         /\ \A i \in 1 .. Len(o) : Pushed(o, r)[i] = o[i]
         /\ Pushed(o, r)[Len(o) + 1] = r
  BY <1>3, PushedFacts
<1>7. Top(Pushed(o, r)) = r
  BY <1>3, PushedFacts
<1>8. /\ f = album[r] /\ c.tracked => Top(o) = r
      /\ f = album[r] => \A i \in 1 .. Len(o) - 1 : o[i] # r
  BY <1>2 DEF StackInv, RunOnTop, o
<1>9. \A s \in Runs : s # r /\ outcome[s] = "running" => album[s] # f
  BY <1>2, FilesAssumption DEF RunsInv, OneRunPerAlbum, RunsHaveAlbums, Begun
<1>10. ASSUME NEW s \in Runs, NEW g \in Files, s # r \/ g # f
       PROVE  change'[s][g] = change[s][g] /\ heir'[s][g] = heir[s][g]
  BY <1>3, <1>5, <1>10
<1>11. ASSUME NEW g \in Files, g # f
       PROVE  /\ owners'[g] = owners[g] /\ lastWriter'[g] = lastWriter[g]
              /\ Standing(g)' = Standing(g)
  BY <1>3, <1>5, <1>10, <1>11 DEF Standing, ToRestore
<1>12. /\ change'[r][f] = d
       /\ owners'[f] = (IF seen /\ d.tracked THEN Pushed(o, r) ELSE o)
       /\ \A s \in Runs : s # r => (s \in Standing(f)' <=> s \in Standing(f))
  <2>1. change'[r][f] = d /\ owners'[f] = (IF seen /\ d.tracked THEN Pushed(o, r) ELSE o)
    BY <1>3, <1>5 DEF o
  <2> QED
    BY <1>3, <1>10, <2>1 DEF Standing, ToRestore
<1>13. r \in Standing(f)' => d.tracked
  BY <1>12 DEF Standing, ToRestore
<1>14. d.tracked => Top(owners[f])' = r
  <2>1. CASE seen
    BY <1>7, <1>12, <2>1 DEF Top
  <2>2. CASE ~seen
    BY <1>2, <1>5, <1>8, <1>12, <2>2 DEF Top
  <2> QED
    BY <2>1, <2>2
<1>15. /\ \A i \in 1 .. Len(o) : o[i] \in Runs /\ change[o[i]][f].known
       /\ Len(o) > 0 => Top(o) = o[Len(o)] /\ Top(o) \in Runs
       /\ Len(o) = 0 => Top(o) = NoRun
  <2>1. o \in Seq(Runs) /\ \A i \in 1 .. Len(o) : o[i] \in Runs
    BY <1>3, TopFacts
  <2> QED
    BY <1>3, <1>4, <2>1, TopFacts DEF StackInv, StackIsKnown, o
<1>16. r \in Standing(f)' /\ c.known /\ c.tracked => r \in Standing(f)
  BY <1>1, <1>12 DEF Standing, ToRestore, WriteFacts
<1>20. RunOnTop'
  <2> SUFFICES ASSUME NEW s \in Runs, NEW g \in Files, outcome[s] = "running", g = album[s]
               PROVE  /\ change'[s][g].tracked => Top(owners[g])' = s
                      /\ \A i \in 1 .. Len(owners'[g]) - 1 : owners'[g][i] # s
    BY <1>2 DEF RunOnTop
  <2>1. CASE g # f
    BY <1>10, <1>11, <2>1 DEF StackInv, RunOnTop, Top
  <2>2. CASE g = f
    <3>1. s = r
      BY <1>9, <2>2
    <3>2. \A i \in 1 .. Len(o) - 1 : o[i] # r
      BY <1>8, <2>2, <3>1
    <3>3. ASSUME NEW i \in 1 .. Len(owners'[f]) - 1 PROVE owners'[f][i] # r
      BY <1>3, <1>6, <1>12, <1>15, <3>2
    <3> QED
      BY <1>12, <1>14, <2>2, <3>1, <3>3
  <2> QED
    BY <2>1, <2>2
<1>21. StackIsKnown'
  <2>1. ASSUME NEW g \in Files, NEW i \in 1 .. Len(owners'[g])
        PROVE  change'[owners'[g][i]][g].known
    <3>1. CASE g # f
      <4>1. owners[g][i] \in Runs /\ change[owners[g][i]][g].known
        BY <1>3, <1>4, <1>11, <2>1, <3>1 DEF StackInv, StackIsKnown, Stacks
      <4> QED
        BY <1>10, <1>11, <3>1, <4>1
    <3>2. CASE g = f
      <4>1. owners'[f][i] = r \/ (i \in 1 .. Len(o) /\ owners'[f][i] = o[i])
        <5>1. i \in 1 .. Len(owners'[f])
          BY <2>1, <3>2
        <5>2. CASE owners'[f] = o
          BY <5>1, <5>2
        <5>3. CASE owners'[f] # o
          <6>1. /\ Len(owners'[f]) = Len(o) + 1 /\ owners'[f][Len(o) + 1] = r
                /\ \A j \in 1 .. Len(o) : owners'[f][j] = o[j]
            BY <1>6, <1>12, <5>3
          <6>2. i \in 1 .. Len(o) \/ i = Len(o) + 1
            BY <1>3, <5>1, <6>1
          <6> QED
            BY <6>1, <6>2
        <5> QED
          BY <5>2, <5>3
      <4> QED
        BY <1>5, <1>10, <1>12, <1>15, <3>2, <4>1
    <3> QED
      BY <3>1, <3>2
  <2> QED
    BY <1>2, <1>4, <2>1 DEF StackIsKnown
<1>22. OnStack'
  <2> SUFFICES ASSUME NEW s \in listed, NEW g \in Files, s \in Standing(g)'
               PROVE  \E i \in 1 .. Len(owners'[g]) : owners'[g][i] = s
    BY <1>2 DEF OnStack
  <2>1. CASE g # f
    BY <1>11, <2>1 DEF StackInv, OnStack
  <2>2. CASE g = f
    <3>1. CASE s \in Standing(f)
      <4>1. \E i \in 1 .. Len(o) : o[i] = s
        BY <3>1 DEF StackInv, OnStack, o
      <4>2. owners'[f] = o \/ (Len(owners'[f]) = Len(o) + 1 /\ \A i \in 1 .. Len(o) : owners'[f][i] = o[i])
        BY <1>6, <1>12
      <4> QED
        BY <1>3, <2>2, <4>1, <4>2
    <3>2. CASE s \notin Standing(f)
      <4>1. s = r /\ d.tracked
        BY <1>3, <1>12, <1>13, <2>2, <3>2
      <4>2. seen
        BY <1>5, <1>16, <2>2, <3>2, <4>1
      <4>3. owners'[f] = Pushed(o, r)
        BY <1>12, <4>1, <4>2
      <4>4. CASE Top(o) = r
        <5>1. Len(o) > 0 /\ o[Len(o)] = r
          BY <1>3, <1>15, <4>4
        <5> QED
          BY <1>3, <1>6, <2>2, <4>1, <4>3, <4>4, <5>1
      <4>5. CASE Top(o) # r
        <5>1. Len(owners'[f]) = Len(o) + 1 /\ owners'[f][Len(o) + 1] = r
          BY <1>6, <4>3, <4>5
        <5>2. Len(o) + 1 \in 1 .. Len(owners'[f])
          BY <1>3, <5>1
        <5> QED
          BY <2>2, <4>1, <5>1, <5>2
      <4> QED
        BY <4>4, <4>5
    <3> QED
      BY <3>1, <3>2
  <2> QED
    BY <2>1, <2>2
<1>23. StackFollows'
  <2> SUFFICES ASSUME NEW g \in Files, g \notin mixed' PROVE FileFollows(g)'
    BY DEF StackFollows
  <2>0. FileFollows(g)
    BY <1>4, <1>5 DEF StackInv, StackFollows
  <2>1. CASE g # f
    <3>1. /\ owners'[g] = owners[g] /\ lastWriter'[g] = lastWriter[g] /\ Standing(g)' = Standing(g)
          /\ \A s \in Runs : change'[s][g] = change[s][g] /\ heir'[s][g] = heir[s][g]
      BY <1>10, <1>11, <2>1
    <3>2. \A i \in 1 .. Len(owners[g]) - 1 : owners[g][i + 1] \in Runs
      BY <1>3 DEF Stacks
    <3> QED
      BY <1>2, <2>0, <3>1, <3>2 DEF FileFollows, Top
  <2>2. CASE g = f
    <3>0. /\ Over(Top(o), lastWriter[f], Standing(f))
          /\ \A i \in 1 .. Len(o) - 1 : Over(o[i], heir[o[i + 1]][f], Standing(f))
          /\ \A s \in Runs : /\ outcome[s] = "running" /\ f = album[s] /\ change[s][f].known
                             /\ Top(o) # s
                             => Over(Top(o), heir[s][f], Standing(f))
      BY <2>0, <2>2 DEF FileFollows, o
    <3>1. c.known => content[f] = c.after
      BY <1>1, <2>2 DEF WriteFacts
    <3>2. lastWriter'[f] = r \/ (lastWriter'[f] = lastWriter[f] /\ (seen => ~ok) /\ new = content[f])
      BY <1>3, <1>5
    <3>3. lastWriter'[f] # r /\ d.tracked => c.known /\ c.tracked
      <4>1. CASE seen
        BY <1>1, <3>1, <3>2, <4>1 DEF WriteFacts, EntryInv, EntryIsWhole
      <4>2. CASE ~seen
        BY <1>5, <4>2
      <4> QED
        BY <4>1, <4>2
    <3>4. c.known => f = album[r] /\ f \notin Shared
      BY <1>2, FilesAssumption DEF RunsInv, RunsHaveAlbums, Begun
    <3>5. ASSUME Top(o) # r PROVE Over(Top(o), heir'[r][f], Standing(f)')
      <4>1. CASE c.known
        <5>1. heir'[r][f] = heir[r][f] /\ heir[r][f] # r
          BY <1>5, <4>1 DEF WriterInv, HeirIsSettled
        <5>2. Over(Top(o), heir[r][f], Standing(f))
          BY <1>2, <3>0, <3>4, <3>5, <4>1
        <5> QED
          BY <1>12, <3>5, <5>1, <5>2 DEF Over, Standing
      <4>2. CASE ~c.known
        <5>1. heir'[r][f] = lastWriter[f] /\ lastWriter[f] # r
          BY <1>2, <1>3, <1>5, <4>2 DEF WriterInv, WriterIsKnown
        <5> QED
          BY <1>12, <3>0, <3>5, <5>1 DEF Over, Standing
      <4> QED
        BY <4>1, <4>2
    <3>6. Over(Top(owners[f])', lastWriter'[f], Standing(f)')
      <4>1. CASE lastWriter'[f] = r
        BY <1>3, <1>13, <1>14, <4>1 DEF Over
      <4>2. CASE lastWriter'[f] # r
        <5>1. owners'[f] = o /\ Top(owners[f])' = Top(o)
          <6>1. d.tracked => Top(o) = r
            BY <1>8, <3>3, <3>4, <4>2
          <6> QED
            BY <1>6, <1>12, <6>1 DEF Top
        <5>2. r \in Standing(f)' => r \in Standing(f)
          BY <1>13, <1>16, <3>3, <4>2
        <5>3. Standing(f)' \subseteq Standing(f)
          BY <1>12, <5>2 DEF Standing
        <5> QED
          BY <3>0, <3>2, <4>2, <5>1, <5>3, OverShrinks
      <4> QED
        BY <4>1, <4>2
    <3>7. ASSUME NEW i \in 1 .. Len(o) - 1
          PROVE  Over(o[i], heir'[o[i + 1]][f], Standing(f)')
      <4>1. /\ o[i] \in Runs /\ o[i + 1] \in Runs /\ change[o[i]][f].known /\ change[o[i + 1]][f].known
            /\ Over(o[i], heir[o[i + 1]][f], Standing(f))
        BY <1>3, <1>15, <3>0
      <4>2. heir'[o[i + 1]][f] = heir[o[i + 1]][f]
        BY <1>5, <1>10, <4>1
      <4>3. heir[o[i + 1]][f] # r
        BY <1>2, <3>4, <4>1 DEF WriterInv, HeirIsSettled
      <4>4. o[i] # r
        BY <1>8, <3>4, <4>1
      <4> QED
        BY <1>12, <4>1, <4>2, <4>3, <4>4 DEF Over, Standing
    <3>8. ASSUME NEW i \in 1 .. Len(owners'[f]) - 1
          PROVE  Over(owners'[f][i], heir'[owners'[f][i + 1]][f], Standing(f)')
      <4>1. CASE owners'[f] = o
        BY <3>7, <3>8, <4>1
      <4>2. CASE owners'[f] # o
        <5>1. /\ Top(o) # r /\ Len(owners'[f]) = Len(o) + 1 /\ owners'[f][Len(o) + 1] = r
              /\ \A j \in 1 .. Len(o) : owners'[f][j] = o[j]
          BY <1>6, <1>12, <4>2
        <5>2. CASE i = Len(o)
          <6>1. owners'[f][i] = Top(o) /\ owners'[f][i + 1] = r
            BY <1>3, <1>15, <3>8, <5>1, <5>2
          <6> QED
            BY <3>5, <5>1, <6>1
        <5>3. CASE i # Len(o)
          <6>1. i \in 1 .. Len(o) - 1 /\ owners'[f][i] = o[i] /\ owners'[f][i + 1] = o[i + 1]
            BY <1>3, <3>8, <5>1, <5>3
          <6> QED
            BY <3>7, <6>1
        <5> QED
          BY <5>2, <5>3
      <4> QED
        BY <4>1, <4>2
    <3>9. ASSUME NEW s \in Runs, outcome'[s] = "running", f = album'[s], Top(owners[f])' # s
          PROVE  Over(Top(owners[f])', heir'[s][f], Standing(f)')
      <4>1. s = r
        BY <1>2, <1>9, <3>9
      <4>2. owners'[f] = o /\ Top(owners[f])' = Top(o)
        BY <1>7, <1>12, <3>9, <4>1 DEF Top
      <4> QED
        BY <3>5, <3>9, <4>1, <4>2
    <3> QED
      BY <2>2, <3>6, <3>8, <3>9 DEF FileFollows
  <2> QED
    BY <2>1, <2>2
<1> QED
  BY <1>20, <1>21, <1>22, <1>23 DEF StackInv

LEMMA StepStack ==
    /\ Typed /\ BackupInv /\ RunsInv /\ WriterInv /\ EntryInv /\ StackInv
    /\ [JournalNext]_journalVars
    => StackInv'
<1> SUFFICES ASSUME Typed, BackupInv, RunsInv, WriterInv, EntryInv, StackInv, [JournalNext]_journalVars
             PROVE  StackInv'
  OBVIOUS
<1>1. CASE Writes
  BY <1>1, WriteStack DEF Writes
<1>2. CASE ~Writes
  BY <1>2, QuietFollows, QuietOnTop, QuietKnown, QuietOnStack DEF StackInv
<1> QED
  BY <1>1, <1>2

----------------------------------------------------------------------------
(* What a revert may and must do.                                          *)

JournalInv == Typed /\ BackupInv /\ RunsInv /\ WriterInv /\ EntryInv /\ StackInv

\* The inductive invariant of the journal: types, backups, which run works on
\* what, who wrote a file last, what an entry says, and what a stack says
\* (auto_tag_review.rs, ReviewStore and ReviewData).
THEOREM JournalIsSound == JournalSpec => []JournalInv
<1>1. Init => JournalInv
  BY InitTyped, InitBackedUp, InitRuns, InitWriter, InitEntry, InitStack DEF JournalInv
<1>2. JournalInv /\ [JournalNext]_journalVars => JournalInv'
  BY StepTyped, StepBackedUp, StepRuns, StepWriter, StepEntry, StepStack DEF JournalInv
<1> QED
  BY <1>1, <1>2, PTL DEF JournalSpec

\* A run whose writes are the last of every file it would restore is never refused,
\* whatever other runs, half-way reverts and clears did before (auto_tag_review.rs,
\* the checks of revert).
THEOREM OwnWorkIsNeverRefused == JournalSpec => []OwnWorkIsRevertible
<1>1. ASSUME JournalInv PROVE OwnWorkIsRevertible
  <2> SUFFICES ASSUME NEW r \in listed, NEW f \in Outstanding(r) \ Recognised(r),
                      lastWriter[f] = r, change[r][f].verified, f \notin mixed,
                      \/ content[f] = change[r][f].after
                      \/ change[r][f].restoring /\ content[f] = change[r][f].before
               PROVE  Restorable(r, f, OwnersAfterRecognition(r))
    BY DEF OwnWorkIsRevertible, Accepted
  <2>1. /\ f \in Files /\ r \in Runs /\ change[r][f].known /\ ~change[r][f].restored
        /\ change[r][f].tracked
    BY <1>1 DEF JournalInv, Typed, StoreTyped, Outstanding
  <2>2. content[f] = change[r][f].after
    BY <2>1 DEF Recognised
  <2>3. change[r][f].backup # "lost" /\ clearing = "no"
    BY <1>1, <2>1 DEF JournalInv, BackupInv, ListedIsBackedUp, ClearHoldsNothing
  <2>4. r \in Standing(f) /\ FileFollows(f)
    BY <1>1, <2>1, <2>3 DEF JournalInv, StackInv, StackFollows, Standing, ToRestore
  <2>5. OwnersAfterRecognition(r)[f] = owners[f]
    BY <2>1 DEF OwnersAfterRecognition
  <2> QED
    BY <2>2, <2>3, <2>4, <2>5 DEF FileFollows, Over, Restorable
<1> QED
  BY <1>1, JournalIsSound, PTL

\* What a revert overwrites is its own: it discards neither an edit of the user nor
\* the standing work of another run (auto_tag_review.rs, revert and its stack of
\* owners).
THEOREM RevertsSpareOthers == JournalSpec => RevertSparesOthersWork
<1>1. ASSUME JournalInv, [JournalNext]_journalVars, NEW r \in Runs, NEW f \in Files,
             r \in listed, Locked(r), content'[f] # content[f]
      PROVE  \/ lastWriter[f] = r
             \/ f \in mixed
             \/ lastWriter[f] \in Runs /\ f \notin ToRestore(lastWriter[f])
  <2> SUFFICES ASSUME lastWriter[f] # r, f \notin mixed
               PROVE  lastWriter[f] \in Runs /\ f \notin ToRestore(lastWriter[f])
    OBVIOUS
  <2>1. /\ content \in [Files -> Contents] /\ owners[f] \in Stacks
        /\ lastWriter[f] \in Runs \cup {NoRun, Edited}
        /\ NoRun \notin Runs /\ Edited \notin Runs /\ NoRun # Edited
    BY <1>1, RunsAssumption DEF JournalInv, Typed, FilesTyped
  <2>2. f \in ToRestore(r) /\ (RestoreFile(r, f) \/ RestoreFails(r, f))
    <3>1. PICK s \in Runs : RunStep(s)
      <4>1. ~UNCHANGED journalVars
        BY <1>1 DEF journalVars, files
      <4>2. busy # NoRun /\ ~ClearRecords /\ ~ClearOwners /\ ~ClearDirectory
        BY <1>1, <2>1 DEF files, Locked, ClearRecords, ClearOwners, ClearDirectory
      <4> QED
        BY <1>1, <4>1, <4>2 DEF JournalNext, Edit
    <3>2. (\E g \in Files : RestoreFile(s, g)) \/ (\E g \in Files : RestoreFails(s, g))
      BY <1>1, <2>1, <3>1 DEF RunStep, files, Locked, BeginDirectory, BeginPush, Mutate, MayWrite,
         Finish, Keep, RevertFind, RevertCheck, RevertEnd
    <3>3. PICK g \in Files : RestoreFile(s, g) \/ RestoreFails(s, g)
      BY <3>2
    <3>4. s = r /\ g \in ToRestore(r)
      BY <1>1, <3>3 DEF RestoreFile, RestoreFails, Locked
    <3>5. g = f
      BY <1>1, <2>1, <3>3 DEF RestoreFile, RestoreFails
    <3> QED
      BY <3>3, <3>4, <3>5
  <2>3. /\ content[f] = change[r][f].after /\ Top(owners[f]) \in {NoRun, r}
        /\ r \in Standing(f)
    BY <1>1, <2>2 DEF JournalInv, EntryInv, ReadyToRestore, Standing
  <2>4. Top(owners[f]) = r
    <3>1. PICK i \in 1 .. Len(owners[f]) : owners[f][i] = r
      BY <1>1, <2>3 DEF JournalInv, StackInv, OnStack
    <3>2. owners[f] # <<>>
      BY <2>1, <3>1, TopFacts
    <3> QED
      BY <2>1, <2>3, <3>2, TopFacts
  <2>5. FileFollows(f)
    BY <1>1 DEF JournalInv, BackupInv, ClearHoldsNothing, StackInv, StackFollows
  <2>6. lastWriter[f] # NoRun
    BY <2>3, <2>4, <2>5 DEF FileFollows, Over
  <2>7. lastWriter[f] # Edited
    <3>1. SUFFICES ASSUME lastWriter[f] = Edited PROVE FALSE
      OBVIOUS
    <3>2. change[r][f].after = Edited
      BY <1>1, <2>3, <3>1 DEF JournalInv, EntryInv, EditIsThere
    <3>3. change[r][f].before # Edited
      <4>1. CASE RestoreFile(r, f)
        BY <1>1, <2>1, <2>3, <3>2, <4>1 DEF RestoreFile
      <4>2. CASE RestoreFails(r, f)
        BY <1>1, <2>1, <2>3, <3>2, <4>2 DEF RestoreFails
      <4> QED
        BY <2>2, <4>1, <4>2
    <3> QED
      BY <1>1, <2>2, <3>2, <3>3 DEF JournalInv, EntryInv, EditIsNoResult, ToRestore
  <2>8. lastWriter[f] \in Runs /\ lastWriter[f] \notin Standing(f)
    BY <2>1, <2>4, <2>5, <2>6, <2>7 DEF FileFollows, Over
  <2> QED
    BY <2>8 DEF Standing
<1>2. JournalInv /\ [JournalNext]_journalVars =>
        [\A r \in Runs, f \in Files :
          r \in listed /\ Locked(r) /\ content'[f] # content[f] =>
              \/ lastWriter[f] = r
              \/ f \in mixed
              \/ lastWriter[f] \in Runs /\ f \notin ToRestore(lastWriter[f])]_journalVars
  BY <1>1
<1> QED
  BY <1>2, JournalIsSound, PTL DEF JournalSpec, RevertSparesOthersWork
=============================================================================
