-------------------------- MODULE AssistantBatches --------------------------
(***************************************************************************)
(* The assistant's action batches (src-tauri/src/state/assistant.rs,       *)
(* state/assistant_task.rs, commands/assistant.rs).                        *)
(*                                                                         *)
(* A request proposes batches of changes; each is kept in the runtime and  *)
(* as a row of the task store, and waits for the user, who applies or      *)
(* rejects it.  A later request loads the pending rows again, which is how *)
(* they survive a restart.                                                 *)
(*                                                                         *)
(* Several applications may be under way: the panel disables its buttons   *)
(* for its own call, a reloaded page does not know of it, and nothing in   *)
(* the commands keeps two apart.  Metadata is written under the queue's    *)
(* exclusive guard, moves and cover removals take the queue file by file.  *)
(*                                                                         *)
(* A batch is known by its id.  Operations act on the first runtime entry  *)
(* with it; later entries are copies loaded again, which stay pending.     *)
(***************************************************************************)
EXTENDS Naturals, Sequences, SequencesExt

CONSTANTS
    Batches,   \* batch ids
    Callers,   \* assistant_apply_actions calls that may overlap
    Files,     \* media files
    Original,  \* a file's tags before any of this
    Edited,    \* its tags after an edit by the user
    Nobody,
    NoBatch,
    Starts     \* what the batches would change, and how much happens (bounds)

Kinds == {"metadata", "cover", "move", "task"}
Settled == {"applied", "rejected", "failed"}
Statuses == {"absent", "pending"} \cup Settled
Budgets == {"request", "apply", "edit", "occupy", "fault", "crash"}

\* What planning gives a batch: its kind, the batches it depends on, the files
\* of its actions in order, and whether it has a completion contract, which only
\* a change of tags may have.
Plans ==
    {p \in [kind : Kinds, needs : SUBSET Batches, files : Seq(Files), contract : BOOLEAN] :
        p.contract => p.kind = "metadata"}

ASSUME BatchesAssumption ==
    /\ NoBatch \notin Batches /\ Nobody \notin Callers
    /\ Original \notin Batches /\ Edited \notin Batches /\ Original # Edited
ASSUME StartsAssumption ==
    Starts \subseteq [plan : [Batches -> Plans], budget : [Budgets -> Nat]]

VARIABLES
    plan,      \* the immutable part of each batch
    first,     \* status of a batch's first entry in the runtime
    again,     \* batches the runtime lists more than once
    request,   \* where assistant_send stands
    loading,   \* pending rows it has read and not added yet
    saving,    \* the batch it has added and not saved yet
    rows,      \* assistant_batch.status
    basis,     \* scope_snapshot of a contract: the files' tags when the batch was planned
    tags,      \* whose tags each file has
    names,     \* what stands under a file's two names: its old and its new path
    calls,     \* the assistant_apply_actions calls
    guard,     \* who holds the write queue's exclusive guard
    rejecting, \* the batch whose row says rejected and whose entry does not yet
    budget

\* History variables: no action reads them.
VARIABLES
    done,      \* batches some call has marked applied
    mover      \* the call that moved a file and has not put it back

runtime == <<first, again>>
sending == <<request, loading, saving>>
disk == <<tags, names>>
history == <<done, mover>>
vars == <<plan, runtime, sending, rows, basis, disk, calls, guard, rejecting, budget, history>>

Idle == [pc |-> "idle", batch |-> NoBatch, n |-> 0, failed |-> FALSE, stuck |-> {},
         status |-> "absent"]
Call == [pc : {"idle", "queued", "write", "verify", "strip", "check", "move", "undo", "reread",
               "store", "task"},
         batch : Batches \cup {NoBatch}, n : Nat, failed : BOOLEAN, stuck : SUBSET Files,
         status : Statuses]

Tags == Batches \cup {Original, Edited}
Sides == {"old", "new"}

BatchTypeOK ==
    /\ plan \in [Batches -> Plans]
    /\ first \in [Batches -> Statuses] /\ again \subseteq Batches
    /\ request \in {"none", "hydrate", "plan", "save"}
    /\ loading \subseteq Batches /\ saving \in Batches \cup {NoBatch}
    /\ rows \in [Batches -> Statuses]
    /\ basis \in [Batches -> [Files -> Tags]] /\ tags \in [Files -> Tags]
    /\ names \in [Files -> [Sides -> {"file", "free", "other"}]]
    /\ calls \in [Callers -> Call] /\ guard \in Callers \cup {Nobody}
    /\ rejecting \in Batches \cup {NoBatch}
    /\ budget \in [Budgets -> Nat]
    /\ done \subseteq Batches /\ mover \in [Files -> Callers \cup {Nobody}]

Untouched == [f \in Files |-> Original]

Init ==
    /\ \E s \in Starts : plan = s.plan /\ budget = s.budget
    /\ first = [b \in Batches |-> "absent"] /\ again = {}
    /\ request = "none" /\ loading = {} /\ saving = NoBatch
    /\ rows = [b \in Batches |-> "absent"]
    /\ basis = [b \in Batches |-> Untouched] /\ tags = Untouched
    /\ names = [f \in Files |-> [s \in Sides |-> IF s = "old" THEN "file" ELSE "free"]]
    /\ calls = [c \in Callers |-> Idle] /\ guard = Nobody /\ rejecting = NoBatch
    /\ done = {} /\ mover = [f \in Files |-> Nobody]

Spend(what) == budget[what] > 0 /\ budget' = [budget EXCEPT ![what] = @ - 1]
Kind(b) == plan[b].kind
FilesOf(b) == ToSet(plan[b].files)

----------------------------------------------------------------------------
(* A request.                                                              *)

\* Mutant: every row is loaded, whatever its status.
SendLoadingAll ==
    /\ request = "none" /\ Spend("request")
    /\ request' = "hydrate"
    /\ loading' = {b \in Batches : rows[b] # "absent"}
    /\ UNCHANGED <<plan, runtime, saving, rows, basis, disk, calls, guard, rejecting, history>>

\* assistant_send: the runtime is activated and the pending rows are read.
Send ==
    /\ request = "none" /\ Spend("request")
    /\ request' = "hydrate"
    /\ loading' = {b \in Batches : rows[b] = "pending"}
    /\ UNCHANGED <<plan, runtime, saving, rows, basis, disk, calls, guard, rejecting, history>>

\* add_batch for one loaded row: it does not look for an entry with the same id.
Hydrate(b) ==
    /\ request = "hydrate" /\ b \in loading
    /\ loading' = loading \ {b}
    /\ IF first[b] = "absent"
       THEN first' = [first EXCEPT ![b] = "pending"] /\ UNCHANGED again
       ELSE again' = again \cup {b} /\ UNCHANGED first
    /\ UNCHANGED <<plan, request, saving, rows, basis, disk, calls, guard, rejecting, budget, history>>

Hydrated ==
    /\ request = "hydrate" /\ loading = {}
    /\ request' = "plan"
    /\ UNCHANGED <<plan, runtime, loading, saving, rows, basis, disk, calls, guard, rejecting, budget,
                   history>>

\* A preview is planned from the disk and added; the batches it depends on are
\* earlier steps of the same plan, saved before it.
AddPreview(b) ==
    /\ request = "plan" /\ first[b] = "absent" /\ rows[b] = "absent"
    /\ \A n \in plan[b].needs : first[n] # "absent" /\ rows[n] # "absent"
    /\ basis' = IF plan[b].contract THEN [basis EXCEPT ![b] = tags] ELSE basis
    /\ first' = [first EXCEPT ![b] = "pending"]
    /\ saving' = b /\ request' = "save"
    /\ UNCHANGED <<plan, again, loading, rows, disk, calls, guard, rejecting, budget, history>>

\* save_batch; a failure marks the batch failed and ends the request.
SavePreview ==
    /\ request = "save"
    /\ \/ /\ rows' = [rows EXCEPT ![saving] = "pending"]
          /\ request' = "plan"
          /\ UNCHANGED <<first, budget>>
       \/ /\ Spend("fault")
          /\ first' = [first EXCEPT ![saving] = "failed"]
          /\ request' = "none"
          /\ UNCHANGED rows
    /\ saving' = NoBatch
    /\ UNCHANGED <<plan, again, loading, basis, disk, calls, guard, rejecting, history>>

EndRequest ==
    /\ request = "plan"
    /\ request' = "none"
    /\ UNCHANGED <<plan, runtime, loading, saving, rows, basis, disk, calls, guard, rejecting, budget,
                   history>>

----------------------------------------------------------------------------
(* assistant_apply_actions.                                                *)

At(c, pc) == calls[c].pc = pc
Batch(c) == calls[c].batch

\* mark_batch_applied or mark_batch_failed, and the result.
Finish(c, status) ==
    /\ first' = [first EXCEPT ![Batch(c)] = status]
    /\ done' = IF status = "applied" THEN done \cup {Batch(c)} ELSE done
    /\ calls' = [calls EXCEPT ![c].pc = "reread", ![c].failed = status = "failed"]

Go(c, pc) == calls' = [calls EXCEPT ![c].pc = pc] /\ UNCHANGED <<first, done>>

FirstStep == [metadata |-> "queued", cover |-> "strip", move |-> "check", task |-> "reread"]
\* Mutant: the batches it depends on are not looked at.
RefusedOnce(b) == first[b] # "pending"

\* It must be pending, and all it depends on applied.
Refused(b) == first[b] # "pending" \/ \E n \in plan[b].needs : first[n] # "applied"

\* apply_action_batch_with_progress: the page asks for a batch it has listed.
Apply(c, b) ==
    /\ At(c, "idle") /\ first[b] # "absent" /\ Spend("apply")
    /\ calls' = [calls EXCEPT ![c] =
                    [Idle EXCEPT !.batch = b, !.failed = Refused(b),
                                 !.pc = IF Refused(b) THEN "reread" ELSE FirstStep[Kind(b)]]]
    /\ UNCHANGED <<plan, runtime, sending, rows, basis, disk, guard, rejecting, history>>

others == <<plan, again, sending, rows, basis, rejecting>>

Stale(b) == plan[b].contract /\ \E f \in FilesOf(b) : tags[f] # basis[b][f]

\* Under the exclusive guard: preflight_metadata_contract and the undo snapshots.
\* The status read before the wait is not read again.
Preflight(c) ==
    /\ At(c, "queued") /\ guard = Nobody
    /\ \/ ~Stale(Batch(c)) /\ Go(c, "write") /\ guard' = c /\ UNCHANGED budget
       \/ /\ IF Stale(Batch(c)) THEN UNCHANGED budget ELSE Spend("fault")
          /\ Finish(c, "failed")
          /\ UNCHANGED guard
    /\ UNCHANGED <<others, disk, mover>>

\* Mutant: a batch counts as applied when one of its files is written.
WritePartly(c) ==
    /\ At(c, "write")
    /\ \E S \in SUBSET FilesOf(Batch(c)) :
        /\ tags' = [f \in Files |-> IF f \in S THEN Batch(c) ELSE tags[f]]
        /\ Finish(c, IF S # {} THEN "applied" ELSE "failed")
    /\ guard' = Nobody
    /\ UNCHANGED <<others, names, budget, mover>>

\* Standard and extra tags, file by file: some may be written and others fail.
Write(c) ==
    /\ At(c, "write")
    /\ \E S \in SUBSET FilesOf(Batch(c)) :
        /\ tags' = [f \in Files |-> IF f \in S THEN Batch(c) ELSE tags[f]]
        /\ IF S = FilesOf(Batch(c))
           THEN Go(c, "verify") /\ UNCHANGED <<guard, budget>>
           ELSE Finish(c, "failed") /\ guard' = Nobody /\ Spend("fault")
    /\ UNCHANGED <<others, names, mover>>

\* finish_metadata_apply: verify_metadata_batch_readback decides.
Verify(c) ==
    /\ At(c, "verify")
    /\ LET read == \A f \in FilesOf(Batch(c)) : tags[f] = Batch(c)
       IN  \/ read /\ Finish(c, "applied") /\ UNCHANGED budget
           \/ Finish(c, "failed") /\ IF read THEN Spend("fault") ELSE UNCHANGED budget
    /\ guard' = Nobody
    /\ UNCHANGED <<others, disk, mover>>

NextFile(c) == plan[Batch(c)].files[calls[c].n + 1]
LastFile(c) == plan[Batch(c)].files[calls[c].n]
Left(c) == calls[c].n < Len(plan[Batch(c)].files)
Count(c, n) == calls' = [calls EXCEPT ![c].n = n] /\ UNCHANGED <<first, done>>

\* apply_remove_embedded_cover, one file; a failure does not stop the others.
Strip(c) ==
    /\ At(c, "strip") /\ Left(c) /\ guard = Nobody
    /\ \/ /\ tags' = [tags EXCEPT ![NextFile(c)] = Batch(c)]
          /\ calls' = [calls EXCEPT ![c].n = @ + 1]
          /\ UNCHANGED budget
       \/ /\ Spend("fault")
          /\ calls' = [calls EXCEPT ![c].n = @ + 1, ![c].failed = TRUE]
          /\ UNCHANGED tags
    /\ UNCHANGED <<first, others, names, guard, history>>

Stripped(c) ==
    /\ At(c, "strip") /\ ~Left(c)
    /\ Finish(c, IF calls[c].failed THEN "failed" ELSE "applied")
    /\ UNCHANGED <<others, disk, guard, budget, mover>>

\* preflight_relocation of every file before the first is moved.
CheckMoves(c) ==
    /\ At(c, "check")
    /\ LET there == \A f \in FilesOf(Batch(c)) : names[f]["old"] # "free"
       IN  \/ there /\ Go(c, "move") /\ UNCHANGED budget
           \/ Finish(c, "failed") /\ IF there THEN Spend("fault") ELSE UNCHANGED budget
    /\ UNCHANGED <<others, disk, guard, mover>>

\* rename_file_no_replace: a hard link, which never replaces, then the removal.
Relocate(f, from, to) ==
    /\ names[f][from] # "free" /\ names[f][to] = "free"
    /\ names' = [names EXCEPT ![f] = [@ EXCEPT ![to] = names[f][from], ![from] = "free"]]

\* It fails when it cannot be done, or for a reason of the disk's: before the
\* link or, with both names left, after it.
RelocateFails(f, from, to) ==
    IF names[f][from] # "free" /\ names[f][to] = "free"
    THEN /\ Spend("fault")
         /\ \/ UNCHANGED names
            \/ names' = [names EXCEPT ![f] = [@ EXCEPT ![to] = names[f][from]]]
    ELSE UNCHANGED <<names, budget>>

\* apply_folder_moves, one file.
Move(c) ==
    /\ At(c, "move") /\ Left(c) /\ guard = Nobody
    /\ \/ /\ Relocate(NextFile(c), "old", "new")
          /\ Count(c, calls[c].n + 1)
          /\ mover' = [mover EXCEPT ![NextFile(c)] = c]
          /\ UNCHANGED budget
       \/ RelocateFails(NextFile(c), "old", "new") /\ Go(c, "undo") /\ UNCHANGED mover
    /\ UNCHANGED <<others, tags, guard>>

Moved(c) ==
    /\ At(c, "move") /\ ~Left(c)
    /\ Finish(c, "applied")
    /\ UNCHANGED <<others, disk, guard, budget, mover>>

\* Mutant: the rollback stops at the first move it cannot undo.
UndoMoveStopping(c) ==
    /\ At(c, "undo") /\ calls[c].n > 0 /\ guard = Nobody
    /\ \/ /\ Relocate(LastFile(c), "new", "old")
          /\ Count(c, calls[c].n - 1)
          /\ mover' = [mover EXCEPT ![LastFile(c)] = Nobody]
          /\ UNCHANGED budget
       \/ /\ RelocateFails(LastFile(c), "new", "old")
          /\ calls' = [calls EXCEPT ![c].n = 0, ![c].stuck = @ \cup {LastFile(c)}]
          /\ UNCHANGED <<first, done, mover>>
    /\ UNCHANGED <<others, tags, guard>>

\* Mutant: a move that cannot be undone is tried again until it can.
UndoMoveRetrying(c) ==
    /\ At(c, "undo") /\ calls[c].n > 0 /\ guard = Nobody
    /\ Relocate(LastFile(c), "new", "old")
    /\ Count(c, calls[c].n - 1)
    /\ mover' = [mover EXCEPT ![LastFile(c)] = Nobody]
    /\ UNCHANGED <<others, tags, guard, budget>>

\* The completed moves are undone, the last one first; one that cannot be undone
\* is reported and does not stop the others.
UndoMove(c) ==
    /\ At(c, "undo") /\ calls[c].n > 0 /\ guard = Nobody
    /\ \/ /\ Relocate(LastFile(c), "new", "old")
          /\ Count(c, calls[c].n - 1)
          /\ mover' = [mover EXCEPT ![LastFile(c)] = Nobody]
          /\ UNCHANGED budget
       \/ /\ RelocateFails(LastFile(c), "new", "old")
          /\ calls' = [calls EXCEPT ![c].n = @ - 1, ![c].stuck = @ \cup {LastFile(c)}]
          /\ UNCHANGED <<first, done, mover>>
    /\ UNCHANGED <<others, tags, guard>>

Undone(c) ==
    /\ At(c, "undo") /\ calls[c].n = 0
    /\ Finish(c, "failed")
    /\ UNCHANGED <<others, disk, guard, budget, mover>>

\* A task is handed to the page, which runs it and reports how it ended.
HandsOver(c) == Kind(Batch(c)) = "task" /\ ~calls[c].failed /\ calls[c].n = 0

Answer(c) == calls' = [calls EXCEPT ![c] = IF HandsOver(c) THEN [@ EXCEPT !.pc = "task"] ELSE Idle]
Forget(c) == mover' = [f \in Files |-> IF mover[f] = c THEN Nobody ELSE mover[f]]

\* The command reads the batch again: only an applied or failed one is stored.
Reread(c) ==
    /\ At(c, "reread")
    /\ LET status == first[Batch(c)]
       IN  IF status \in {"applied", "failed"}
           THEN calls' = [calls EXCEPT ![c].pc = "store", ![c].status = status] /\ UNCHANGED mover
           ELSE Answer(c) /\ Forget(c)
    /\ UNCHANGED <<runtime, plan, sending, rows, basis, disk, guard, rejecting, budget, done>>

\* finalize_batch: without a row, or when the database fails, the batch has failed.
Store(c) ==
    /\ At(c, "store")
    /\ \/ /\ rows[Batch(c)] # "absent"
          /\ rows' = [rows EXCEPT ![Batch(c)] = calls[c].status]
          /\ Answer(c)
          /\ UNCHANGED <<first, budget>>
       \/ /\ IF rows[Batch(c)] = "absent" THEN UNCHANGED budget ELSE Spend("fault")
          /\ first' = [first EXCEPT ![Batch(c)] = "failed"]
          /\ calls' = [calls EXCEPT ![c] = Idle]
          /\ UNCHANGED rows
    /\ Forget(c)
    /\ UNCHANGED <<plan, again, sending, basis, disk, guard, rejecting, done>>

\* assistant_complete_task_actions: refused unless the batch still is pending.
CompleteTask(c) ==
    /\ At(c, "task")
    /\ IF first[Batch(c)] = "pending"
       THEN \E status \in {"applied", "failed"} :
               /\ first' = [first EXCEPT ![Batch(c)] = status]
               /\ done' = IF status = "applied" THEN done \cup {Batch(c)} ELSE done
               /\ calls' = [calls EXCEPT ![c].pc = "store", ![c].status = status, ![c].n = 1]
       ELSE calls' = [calls EXCEPT ![c] = Idle] /\ UNCHANGED <<first, done>>
    /\ UNCHANGED <<others, disk, guard, budget, mover>>

\* The page that runs a task is closed or reloaded.
LoseTask(c) ==
    /\ At(c, "task")
    /\ calls' = [calls EXCEPT ![c] = Idle]
    /\ UNCHANGED <<plan, runtime, sending, rows, basis, disk, guard, rejecting, budget, history>>

CallStep(c) ==
    \/ Preflight(c) \/ Write(c) \/ Verify(c) \/ Strip(c) \/ Stripped(c)
    \/ CheckMoves(c) \/ Move(c) \/ Moved(c) \/ UndoMove(c) \/ Undone(c)
    \/ Reread(c) \/ Store(c)

----------------------------------------------------------------------------
(* assistant_reject_actions: the row first, then the runtime.              *)

\* When finalize_batch fails, nothing changes.
RejectRow(b) ==
    /\ rejecting = NoBatch /\ first[b] = "pending" /\ rows[b] # "absent"
    /\ rows' = [rows EXCEPT ![b] = "rejected"]
    /\ rejecting' = b
    /\ UNCHANGED <<plan, runtime, sending, basis, disk, calls, guard, budget, history>>

RejectEntry ==
    /\ rejecting # NoBatch
    /\ first' = [first EXCEPT ![rejecting] = "rejected"]
    /\ rejecting' = NoBatch
    /\ UNCHANGED <<plan, again, sending, rows, basis, disk, calls, guard, budget, history>>

----------------------------------------------------------------------------
(* What happens around the assistant.                                      *)

\* The user edits a file in the app, through the write queue.
Edit(f) ==
    /\ guard = Nobody /\ Spend("edit")
    /\ tags' = [tags EXCEPT ![f] = Edited]
    /\ UNCHANGED <<plan, runtime, sending, rows, basis, names, calls, guard, rejecting, history>>

\* Another file appears under one of the names.
Occupy(f, side) ==
    /\ names[f][side] = "free" /\ Spend("occupy")
    /\ names' = [names EXCEPT ![f] = [@ EXCEPT ![side] = "other"]]
    /\ UNCHANGED <<plan, runtime, sending, rows, basis, tags, calls, guard, rejecting, history>>

\* The process dies; the rows and the files stay.
Restart ==
    /\ Spend("crash")
    /\ first' = [b \in Batches |-> "absent"] /\ again' = {}
    /\ request' = "none" /\ loading' = {} /\ saving' = NoBatch
    /\ calls' = [c \in Callers |-> Idle] /\ guard' = Nobody /\ rejecting' = NoBatch
    /\ mover' = [f \in Files |-> Nobody]
    /\ UNCHANGED <<plan, rows, basis, disk, done>>

----------------------------------------------------------------------------

Request == Send \/ (\E b \in Batches : Hydrate(b) \/ AddPreview(b)) \/ Hydrated \/ SavePreview \/ EndRequest
Application == \E c \in Callers : (\E b \in Batches : Apply(c, b)) \/ CallStep(c) \/ CompleteTask(c) \/ LoseTask(c)
Rejection == (\E b \in Batches : RejectRow(b)) \/ RejectEntry
World == (\E f \in Files : Edit(f) \/ \E side \in Sides : Occupy(f, side)) \/ Restart

Next == Request \/ Application \/ Rejection \/ World
Spec == Init /\ [][Next]_vars

\* The runtime runs a command to its end, and the queue's locks are fair.
Fairness == \A c \in Callers : WF_vars(CallStep(c))
AssistantSpec == Spec /\ Fairness

----------------------------------------------------------------------------
(* Properties.                                                             *)

\* A plan's steps change files in its order: when a file carries a batch's
\* tags, or a call has moved a file for it, every batch it depends on has been
\* marked applied before, whatever was approved, reloaded or restarted since
\* (apply_action_batch_with_progress).
DependentsWait ==
    /\ \A f \in Files : tags[f] \in Batches => plan[tags[f]].needs \subseteq done
    /\ \A f \in Files : mover[f] # Nobody => plan[calls[mover[f]].batch].needs \subseteq done

\* Once a batch's row is settled, the entry that every lookup of the runtime
\* finds is not pending, in this process or after a restart, except for the
\* moment in which a rejection goes from the row to the entry: no later request
\* to apply it passes the status check.  (Duplicates behind that entry, and
\* applications already past the check, are not spoken of; finalize_batch,
\* initialize_with_task_state.)
SettledIsNotPending ==
    \A b \in Batches : rows[b] \in Settled /\ rejecting # b => first[b] # "pending"

\* When moving a batch's files fails, every file the call has moved is back,
\* except those whose own return failed and is reported; a call never leaves
\* some files moved because another could not be (apply_folder_moves).
FailedMoveIsUndone ==
    \A c \in Callers :
        LET mine == {f \in Files : mover[f] = c}
        IN  calls[c].pc \in {"reread", "store"} =>
                mine \subseteq calls[c].stuck \/ mine = FilesOf(calls[c].batch)

\* A batch with a contract only replaces the tags its preview showed: no edit
\* made in the app since then, and no other batch's work, is overwritten, even
\* while several applications wait for the guard (preflight_metadata_contract).
PreviewIsFresh ==
    [][\A f \in Files :
        tags'[f] # tags[f] /\ tags'[f] \in Batches /\ plan[tags'[f]].contract
            => tags[f] = basis[tags'[f]][f]]_vars

\* A batch turns to applied only when all its files are as it says, at that
\* moment and not just in what was asked: retagged, or at their new names.
AppliedIsOnDisk ==
    [][\A b \in Batches :
        first[b] # "applied" /\ first'[b] = "applied" =>
            /\ Kind(b) = "metadata" => \A f \in FilesOf(b) : tags'[f] = b
            /\ Kind(b) = "move" => \A f \in FilesOf(b) : names'[f]["new"] = "file"]_vars

\* Every application ends, whatever fails, waits or is rejected meanwhile: with
\* an answer, or with a task handed to the page.
ApplicationEnds ==
    \A c \in Callers : calls[c].pc \notin {"idle", "task"} ~> calls[c].pc \in {"idle", "task"}

=============================================================================
