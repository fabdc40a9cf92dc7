--------------------------- MODULE ReviewJournal ---------------------------
(***************************************************************************)
(* The recovery journal of the desktop's auto-tag reviews                  *)
(* (src-tauri/src/commands/auto_tag_review.rs).                            *)
(*                                                                         *)
(* A run journals every file it writes: what the file held before the      *)
(* first write, a backup of it, and what it held after the last one.       *)
(* Reverting a run restores the files one by one and may stop half-way; a  *)
(* file several albums share (the artist image of their parent folder)     *)
(* keeps a stack of the runs that wrote it.  begin, mutate, finish and     *)
(* revert run under the write queue's exclusive guard; clear does not, so  *)
(* its steps interleave with theirs and only the store's locks order them. *)
(*                                                                         *)
(* A file's bytes are a value: a run writes a member of Bytes, an edit of  *)
(* the user leaves the value Edited, which no run ever writes.             *)
(***************************************************************************)
EXTENDS Naturals, Sequences

CONSTANTS
    Runs,      \* ids of auto-tag runs
    Albums,    \* album folders; an album stands for the track file in it
    Shared,    \* files several albums share: artist.jpg of the parent folder
    Bytes,     \* what a run may write to a file
    Original,  \* what a file holds before any of this
    Edited,    \* what an edit of the user leaves in a file
    Absent,    \* no such file
    NoRun,
    MaxWrites, \* bound: journalled writes of a run
    MaxEdits,  \* bound: edits by the user
    MaxFaults  \* bound: writes, readbacks and restores that fail

ASSUME RunsAssumption == NoRun \notin Runs /\ Edited \notin Runs /\ NoRun # Edited
ASSUME BytesAssumption ==
    /\ Bytes \cap {Original, Edited, Absent} = {}
    /\ Original # Edited /\ Edited # Absent /\ Absent # Original
ASSUME FilesAssumption == Albums \cap Shared = {}
ASSUME BoundsAssumption == MaxWrites \in Nat /\ MaxEdits \in Nat /\ MaxFaults \in Nat

VARIABLES
    content,   \* what each file holds
    outcome,   \* "none", "running", "done": ReviewDetail::outcome, by run
    decision,  \* "pending", "kept", "reverted"
    canRevert, \* ReviewDetail::can_revert
    album,     \* the album of each run, Absent before it begins
    change,    \* ReviewData::files: the FileChange of each run and file
    listed,    \* ReviewStore::records
    owners,    \* ReviewStore::owners: the stack of runs that wrote each file
    dir,       \* whether the session directory of the backups exists
    busy,      \* the run whose begin or revert holds the exclusive guard
    step,      \* where that operation stands
    clearing,  \* where a clear stands; it holds the records lock meanwhile
    writes, edits, faults,
    lastWriter, \* history variable: whose write is on disk; Edited is the user
    origin,     \* history variable: what a file held when a run first wrote it
    heir,       \* history variable: who had written that
    mixed       \* history variable: files somebody changed between two writes of a run

history == <<origin, heir, mixed>>
files == <<content, owners, lastWriter>>
journal == <<outcome, decision, canRevert, album, change, history>>
store == <<listed, dir>>
guard == <<busy, step>>
budget == <<writes, edits, faults>>
journalVars == <<files, journal, store, guard, clearing, budget>>

Files == Albums \cup Shared
Contents == Bytes \cup {Original, Edited, Absent}

Change == [known: BOOLEAN, backup: {"none", "kept", "lost"}, before: Contents,
           after: Contents, restored: BOOLEAN, verified: BOOLEAN,
           tracked: BOOLEAN, restoring: BOOLEAN]

Untouched == [known |-> FALSE, backup |-> "none", before |-> Absent,
              after |-> Absent, restored |-> FALSE, verified |-> FALSE,
              tracked |-> FALSE, restoring |-> FALSE]

Init ==
    /\ content \in [Files -> {Original, Absent}] /\ \A a \in Albums : content[a] = Original
    /\ outcome = [r \in Runs |-> "none"]
    /\ decision = [r \in Runs |-> "pending"]
    /\ canRevert = [r \in Runs |-> FALSE]
    /\ album = [r \in Runs |-> Absent]
    /\ change = [r \in Runs |-> [f \in Files |-> Untouched]]
    /\ listed = {}
    /\ owners = [f \in Files |-> <<>>]
    /\ dir = FALSE
    /\ busy = NoRun /\ step = "idle"
    /\ clearing = "no"
    /\ writes = [r \in Runs |-> 0] /\ edits = 0 /\ faults = 0
    /\ lastWriter = [f \in Files |-> NoRun]
    /\ origin = [r \in Runs |-> [f \in Files |-> Absent]]
    /\ heir = [r \in Runs |-> [f \in Files |-> NoRun]]
    /\ mixed = {}

-----------------------------------------------------------------------------
(* Helpers *)

Top(stack) == IF stack = <<>> THEN NoRun ELSE stack[Len(stack)]

\* mutate pushes the run unless it is on top already.
Pushed(stack, r) == IF Top(stack) = r THEN stack ELSE Append(stack, r)

\* Mutant: a restored file leaves its run on the stack.
PoppedNever(stack, r) == stack

\* A restored file pops its run, when that run is on top.
Popped(stack, r) == IF Top(stack) = r THEN SubSeq(stack, 1, Len(stack) - 1) ELSE stack

\* The files a revert has to look at, and those it restores.
Outstanding(r) == {f \in Files : /\ change[r][f].known /\ ~change[r][f].restored
                                 /\ change[r][f].tracked \/ ~change[r][f].verified}
ToRestore(r) == {f \in Files : /\ change[r][f].known /\ ~change[r][f].restored
                               /\ change[r][f].tracked}

\* The data lock of a run is held by its own revert.
Locked(r) == busy = r /\ step = "locked"

RecordsFree == clearing = "no"
Fails == faults < MaxFaults /\ faults' = faults + 1

-----------------------------------------------------------------------------
(* A run: begin, its writes, finish *)

\* begin, first half: the session directory is made before the records lock
\* is asked for.  claim_desktop_run lets one run of an album through.
BeginDirectory(r, a) ==
    /\ busy = NoRun /\ outcome[r] = "none" /\ album[r] = Absent
    /\ \A s \in Runs : ~(outcome[s] = "running" /\ album[s] = a)
    /\ dir' = TRUE
    /\ album' = [album EXCEPT ![r] = a]
    /\ busy' = r /\ step' = "begin"
    /\ UNCHANGED <<files, outcome, decision, canRevert, change, history,
                   listed, clearing, budget>>

\* Mutant: the journal joins the records in the middle of a clear.
BeginPushAnyway(r) ==
    /\ busy = r /\ step = "begin"
    /\ outcome' = [outcome EXCEPT ![r] = "running"]
    /\ listed' = listed \cup {r}
    /\ busy' = NoRun /\ step' = "idle"
    /\ UNCHANGED <<files, decision, canRevert, album, change, history,
                   dir, clearing, budget>>

\* begin, second half: the journal joins the records.
BeginPush(r) ==
    /\ busy = r /\ step = "begin" /\ RecordsFree
    /\ outcome' = [outcome EXCEPT ![r] = "running"]
    /\ listed' = listed \cup {r}
    /\ busy' = NoRun /\ step' = "idle"
    /\ UNCHANGED <<files, decision, canRevert, album, change, history,
                   dir, clearing, budget>>

\* Mutant: every write records what it found as the original.
JournalledAfresh(r, f, ok, new, seen) ==
    LET entry == [Untouched EXCEPT !.known = TRUE,
                      !.backup = IF content[f] = Absent THEN "none" ELSE "kept",
                      !.before = content[f], !.after = new,
                      !.verified = seen, !.tracked = seen /\ (ok \/ content[f] # new)]
    IN  /\ change' = [change EXCEPT ![r][f] = entry]
        /\ owners' = IF entry.tracked
                     THEN [owners EXCEPT ![f] = Pushed(owners[f], r)] ELSE owners
        /\ content' = [content EXCEPT ![f] = new]
        /\ lastWriter' = IF (ok /\ seen) \/ new # content[f]
                         THEN [lastWriter EXCEPT ![f] = r] ELSE lastWriter
        /\ origin' = IF change[r][f].known THEN origin
                     ELSE [origin EXCEPT ![r][f] = content[f]]
        /\ heir' = IF change[r][f].known THEN heir
                   ELSE [heir EXCEPT ![r][f] = lastWriter[f]]
        /\ UNCHANGED mixed

\* What mutate does to the journal once write returned `ok` with `new` on disk:
\* the first write of a file records what was there, a readback (`seen`)
\* records what is there now, and a tracked file gets the run on its stack.
Journalled(r, f, ok, new, seen) ==
    LET first == ~change[r][f].known
        entry == IF first
                 THEN [Untouched EXCEPT !.known = TRUE,
                          !.backup = IF content[f] = Absent THEN "none" ELSE "kept",
                          !.before = content[f], !.after = content[f]]
                 ELSE change[r][f]
        tracked == ok \/ entry.before # new
    IN  /\ change' = [change EXCEPT ![r][f] =
              IF seen THEN [entry EXCEPT !.after = new, !.verified = TRUE, !.tracked = tracked]
              ELSE entry]
        /\ owners' = IF seen /\ tracked
                     THEN [owners EXCEPT ![f] = Pushed(owners[f], r)] ELSE owners
        /\ content' = [content EXCEPT ![f] = new]
        /\ lastWriter' = IF (ok /\ seen) \/ new # content[f]
                         THEN [lastWriter EXCEPT ![f] = r] ELSE lastWriter
        /\ origin' = IF first THEN [origin EXCEPT ![r][f] = content[f]] ELSE origin
        /\ heir' = IF first THEN [heir EXCEPT ![r][f] = lastWriter[f]] ELSE heir
        /\ mixed' = IF content[f] = entry.after THEN mixed ELSE mixed \cup {f}

\* The first write of an existing file needs a backup, hence the directory;
\* without one mutate returns before the write and nothing changes.
BackupPossible(r, f) == change[r][f].known \/ content[f] = Absent \/ dir

\* One run writes a shared file once, the files of its album several times
\* (tags, then lyrics).
MayWrite(r, f) ==
    /\ busy = NoRun /\ outcome[r] = "running" /\ writes[r] < MaxWrites
    /\ f = album[r] \/ (f \in Shared /\ ~change[r][f].known)
    /\ BackupPossible(r, f)

Mutate(r, f) ==
    /\ MayWrite(r, f)
    /\ writes' = [writes EXCEPT ![r] = @ + 1]
    /\ \/ \E new \in Bytes : Journalled(r, f, TRUE, new, TRUE) /\ UNCHANGED faults
       \/ Fails /\ \E new \in Bytes \cup {content[f]} : Journalled(r, f, FALSE, new, TRUE)
       \/ Fails /\ \E new \in Bytes : Journalled(r, f, TRUE, new, FALSE)
    /\ UNCHANGED <<outcome, decision, canRevert, album, store, guard, clearing, edits>>

Finish(r) ==
    /\ busy = NoRun /\ outcome[r] = "running" /\ RecordsFree
    /\ outcome' = [outcome EXCEPT ![r] = "done"]
    /\ canRevert' = [canRevert EXCEPT ![r] = Outstanding(r) # {}]
    /\ UNCHANGED <<files, decision, album, change, history, store, guard,
                   clearing, budget>>

Keep(r) ==
    /\ r \in listed /\ RecordsFree /\ ~Locked(r)
    /\ outcome[r] = "done" /\ decision[r] # "reverted"
    /\ decision' = [decision EXCEPT ![r] = "kept"]
    /\ UNCHANGED <<files, outcome, canRevert, album, change, history, store,
                   guard, clearing, budget>>

\* A write of the user goes through the queue, never inside an exclusive
\* operation.  (What he does to a file no run wrote is part of its original.)
Edit(f) ==
    /\ busy = NoRun /\ edits < MaxEdits
    /\ \E r \in Runs : change[r][f].known
    /\ edits' = edits + 1
    /\ content' = [content EXCEPT ![f] = Edited]
    /\ lastWriter' = [lastWriter EXCEPT ![f] = Edited]
    /\ UNCHANGED <<owners, journal, store, guard, clearing, writes, faults>>

-----------------------------------------------------------------------------
(* Reverting a run *)

\* revert holds the exclusive guard and looks the journal up in the records.
RevertFind(r) ==
    /\ busy = NoRun /\ r \in listed /\ RecordsFree
    /\ outcome[r] = "done" /\ canRevert[r] /\ decision[r] # "reverted"
    /\ busy' = r /\ step' = "found"
    /\ UNCHANGED <<files, journal, store, clearing, budget>>

\* Files a stopped revert replaced without being able to read them back.
Recognised(r) == {f \in Files : /\ change[r][f].known /\ ~change[r][f].restored
                                /\ change[r][f].restoring
                                /\ content[f] = change[r][f].before}

\* Mutant: the stack of owners is not looked at.
RestorableUnowned(r, f, stacks) ==
    /\ change[r][f].verified
    /\ content[f] = change[r][f].after
    /\ change[r][f].backup # "lost"

\* Nothing stands in the way of restoring f, seen with these owners.
Restorable(r, f, stacks) ==
    /\ change[r][f].verified
    /\ content[f] = change[r][f].after
    /\ Top(stacks[f]) \in {NoRun, r}
    /\ change[r][f].backup # "lost"

OwnersAfterRecognition(r) ==
    [f \in Files |-> IF f \in Recognised(r) THEN Popped(owners[f], r) ELSE owners[f]]

Accepted(r) ==
    \A f \in Outstanding(r) \ Recognised(r) : Restorable(r, f, OwnersAfterRecognition(r))

\* The data and owner locks are taken; the files a stopped revert replaced are
\* recognised; then every file is looked at before the first is restored.
RevertCheck(r) ==
    /\ busy = r /\ step = "found"
    /\ change' = [change EXCEPT ![r] =
          [f \in Files |-> IF f \in Recognised(r)
                           THEN [change[r][f] EXCEPT !.restored = TRUE] ELSE change[r][f]]]
    /\ owners' = OwnersAfterRecognition(r)
    /\ IF Accepted(r) THEN busy' = r /\ step' = "locked" ELSE busy' = NoRun /\ step' = "idle"
    /\ lastWriter' = [f \in Files |-> IF f \in Recognised(r) /\ lastWriter[f] = r
                                      THEN heir[r][f] ELSE lastWriter[f]]
    /\ UNCHANGED <<content, outcome, decision, canRevert, album, history, store, clearing,
                   budget>>

\* A file that is as it was needs no backup.
Restores(r, f) == change[r][f].before = change[r][f].after \/ change[r][f].backup # "lost"

\* Replaced by its backup, or removed when it did not exist, and read back.
RestoreFile(r, f) ==
    /\ Locked(r) /\ f \in ToRestore(r) /\ Restores(r, f)
    /\ content' = [content EXCEPT ![f] = change[r][f].before]
    /\ lastWriter' = [lastWriter EXCEPT ![f] = heir[r][f]]
    /\ change' = [change EXCEPT ![r][f].restored = TRUE,
                                ![r][f].restoring = @ \/ change[r][f].before # change[r][f].after]
    /\ owners' = [owners EXCEPT ![f] = Popped(owners[f], r)]
    /\ UNCHANGED <<outcome, decision, canRevert, album, history, store, guard,
                   clearing, budget>>

\* The copy, the replacement or the readback fails: revert returns at once and
\* leaves the file as it is, or already replaced.
RestoreFails(r, f) ==
    /\ Locked(r) /\ f \in ToRestore(r)
    /\ IF Restores(r, f) THEN Fails ELSE UNCHANGED faults
    /\ \/ UNCHANGED content
       \/ Restores(r, f) /\ content' = [content EXCEPT ![f] = change[r][f].before]
    /\ change' = [change EXCEPT ![r][f].restoring =
                                    @ \/ change[r][f].before # change[r][f].after]
    /\ busy' = NoRun /\ step' = "idle"
    /\ UNCHANGED <<owners, lastWriter, outcome, decision, canRevert, album, history, store,
                   clearing, writes, edits>>

RevertEnd(r) ==
    /\ Locked(r) /\ ToRestore(r) = {}
    /\ decision' = [decision EXCEPT ![r] = "reverted"]
    /\ canRevert' = [canRevert EXCEPT ![r] = FALSE]
    /\ busy' = NoRun /\ step' = "idle"
    /\ UNCHANGED <<files, outcome, album, change, history, store, clearing, budget>>

-----------------------------------------------------------------------------
(* Clearing the results of a batch: outside the write queue *)

\* The journals clear drops: a revert that looked its own up keeps it.
Forgotten == listed \ {busy}
Reset(table, value) == [r \in Runs |-> IF r \in Forgotten THEN value ELSE table[r]]

\* Refused while a run is listed as running; otherwise waits for the data lock
\* of every listed run.
ClearRecords ==
    /\ clearing = "no"
    /\ \A r \in listed : outcome[r] # "running" /\ ~Locked(r)
    /\ listed' = {}
    /\ clearing' = "records"
    /\ decision' = Reset(decision, "pending")
    /\ canRevert' = Reset(canRevert, FALSE)
    /\ album' = Reset(album, Absent)
    /\ change' = Reset(change, [f \in Files |-> Untouched])
    /\ origin' = Reset(origin, [f \in Files |-> Absent])
    /\ heir' = Reset(heir, [f \in Files |-> NoRun])
    /\ UNCHANGED <<files, outcome, mixed, dir, guard, budget>>

\* The owner lock is held by a revert that passed its checks.
ClearOwners ==
    /\ clearing = "records" /\ step # "locked"
    /\ owners' = [f \in Files |-> <<>>]
    /\ clearing' = "owners"
    /\ UNCHANGED <<content, lastWriter, journal, store, guard, budget>>

ClearDirectory ==
    /\ clearing = "owners"
    /\ dir' = FALSE
    /\ change' = [r \in Runs |-> [f \in Files |->
          IF change[r][f].backup = "kept" THEN [change[r][f] EXCEPT !.backup = "lost"]
          ELSE change[r][f]]]
    /\ clearing' = "no"
    /\ UNCHANGED <<files, outcome, decision, canRevert, album, history, listed,
                   guard, budget>>

-----------------------------------------------------------------------------

RunStep(r) ==
    \/ \E a \in Albums : BeginDirectory(r, a)
    \/ BeginPush(r)
    \/ \E f \in Files : Mutate(r, f)
    \/ Finish(r)
    \/ Keep(r)
    \/ RevertFind(r)
    \/ RevertCheck(r)
    \/ \E f \in Files : RestoreFile(r, f)
    \/ \E f \in Files : RestoreFails(r, f)
    \/ RevertEnd(r)

JournalNext ==
    \/ \E r \in Runs : RunStep(r)
    \/ \E f \in Files : Edit(f)
    \/ ClearRecords
    \/ ClearOwners
    \/ ClearDirectory

JournalSpec == Init /\ [][JournalNext]_journalVars

-----------------------------------------------------------------------------
(* Properties *)

\* The journal's variables keep their types (auto_tag_review.rs 107-165), and
\* no run is on a stack twice in a row: one restore takes it off.
JournalTypeOK ==
    /\ content \in [Files -> Contents]
    /\ outcome \in [Runs -> {"none", "running", "done"}]
    /\ decision \in [Runs -> {"pending", "kept", "reverted"}]
    /\ canRevert \in [Runs -> BOOLEAN]
    /\ album \in [Runs -> Albums \cup {Absent}]
    /\ change \in [Runs -> [Files -> Change]]
    /\ listed \subseteq Runs
    /\ owners \in [Files -> Seq(Runs)]
    /\ \A f \in Files : \A i \in 1 .. Len(owners[f]) - 1 : owners[f][i] # owners[f][i + 1]
    /\ dir \in BOOLEAN
    /\ busy \in Runs \cup {NoRun}
    /\ step \in {"idle", "begin", "found", "locked"}
    /\ clearing \in {"no", "records", "owners"}
    /\ writes \in [Runs -> 0..MaxWrites]
    /\ edits \in 0..MaxEdits
    /\ faults \in 0..MaxFaults
    /\ lastWriter \in [Files -> Runs \cup {NoRun, Edited}]
    /\ origin \in [Runs -> [Files -> Contents]]
    /\ heir \in [Runs -> [Files -> Runs \cup {NoRun, Edited}]]
    /\ mixed \subseteq Files

\* A run the user can still see has every backup it took: clear, which runs
\* outside the write queue, never takes the directory from under a listed run
\* (clear holds the records lock from its check to the removal, and begin
\* pushes under it).
ListedIsBackedUp ==
    \A r \in listed : \A f \in Files : change[r][f].backup # "lost"

\* A run that was the last to write every file it would restore is never
\* refused: not after another revert stopped half-way, not after a shared file
\* changed hands, not on the retry of its own half-way revert, whose replaced
\* file holds the original bytes already.  A file somebody changed between two
\* writes of a run is the exception: that run may stay on top of its stack.
OwnWorkIsRevertible ==
    \A r \in listed :
        /\ outcome[r] = "done" /\ busy = NoRun
        /\ \A f \in Outstanding(r) :
              /\ lastWriter[f] = r /\ change[r][f].verified /\ f \notin mixed
              /\ \/ content[f] = change[r][f].after
                 \/ change[r][f].restoring /\ content[f] = change[r][f].before
        => Accepted(r)

\* The revert of a listed run changes a file only if that run was the last to
\* write it: neither an edit by the user nor the standing work of another run
\* is discarded, were it of the same bytes.  Work stands while its run would
\* restore it: not once it is reverted, nor when it could not be read back,
\* which puts its run on no stack.  A file somebody changed between two writes
\* of a run is the exception: the run takes the change for its own result.
RevertSparesOthersWork ==
    [][\A r \in Runs, f \in Files :
          r \in listed /\ Locked(r) /\ content'[f] # content[f] =>
              \/ lastWriter[f] = r
              \/ f \in mixed
              \/ lastWriter[f] \in Runs /\ f \notin ToRestore(lastWriter[f])]_journalVars

\* A finished revert leaves what each of its files held before the run's first
\* write, however often the run wrote it and however many attempts the revert
\* took; a file another writer took over since is his.
RevertRestoresOrigin ==
    [][\A r \in Runs : decision[r] # "reverted" /\ decision'[r] = "reverted" =>
          \A f \in Files : change[r][f].known /\ lastWriter[f] \in {r, heir[r][f]} =>
              content[f] = origin[r][f]]_journalVars

=============================================================================
