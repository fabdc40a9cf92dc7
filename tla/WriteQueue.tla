----------------------------- MODULE WriteQueue -----------------------------
(***************************************************************************)
(* The process-wide queue of media writes                                  *)
(* (src-tauri/src/state/write_queue.rs): run, run_for_folder,              *)
(* run_exclusive and try_run_exclusive, the coordination RwLock, the       *)
(* global gate, the folder gates and the activity counter.                 *)
(*                                                                         *)
(* A writer is one caller, making one call after another.  tokio's RwLock  *)
(* and Mutex are modelled as the fair locks their documentation describes: *)
(* waiters are served in order and a waiting writer holds later readers    *)
(* back.  The mutex around the map of folder gates is never held across an *)
(* await and is left out.                                                  *)
(***************************************************************************)
EXTENDS Naturals, Sequences, FiniteSets

Seqs == INSTANCE SequencesExt

CONSTANTS Writers, Folders,
          Dropped,     \* modes whose caller may be dropped before the call returns
          Nobody, Nowhere, Coordination, Global

Modes == {"run", "folder", "exclusive", "try"}
Shared == {"run", "folder"}          \* modes under a read guard
Gates == Folders \cup {Global}
Locks == Gates \cup {Coordination}

ASSUME QueueAssumption ==
    /\ Nobody \notin Writers
    /\ Nowhere \notin Folders
    /\ Coordination \notin Gates /\ Global \notin Folders
    /\ Dropped \subseteq Modes
    /\ IsFiniteSet(Writers)

VARIABLES
    call,        \* each writer's call: where it is, its mode, the folder it writes
    line,        \* writers waiting for each lock, in order
    readers,     \* holders of a read guard of the coordination lock
    writer,      \* holder of its write guard
    owner,       \* holder of each gate
    active,      \* the counter is_active reads
    leftover     \* folder a dropped call's blocking write still works on

queueVars == <<call, line, readers, writer, owner, active, leftover>>

\* "coordinate" and "gate" wait, "work" runs the operation, "leave" has dropped
\* the activity and not yet the locks; the rest are steps of try_run_exclusive.
Places == {"idle", "coordinate", "gate", "work", "leave", "try", "recheck", "count"}
Counted == {"coordinate", "gate", "work"}

IdleCall == [at |-> "idle", mode |-> "run", folder |-> Nowhere]

QueueTypeOK ==
    /\ call \in [Writers -> [at : Places, mode : Modes, folder : Folders \cup {Nowhere}]]
    /\ line \in [Locks -> Seq(Writers)]
    /\ readers \in SUBSET Writers
    /\ writer \in Writers \cup {Nobody}
    /\ owner \in [Gates -> Writers \cup {Nobody}]
    /\ active \in Nat
    /\ leftover \in [Writers -> Folders \cup {Nowhere}]

QueueInit ==
    /\ call = [w \in Writers |-> IdleCall]
    /\ line = [l \in Locks |-> <<>>]
    /\ readers = {}
    /\ writer = Nobody
    /\ owner = [g \in Gates |-> Nobody]
    /\ active = 0
    /\ leftover = [w \in Writers |-> Nowhere]

At(w, place) == call[w].at = place
Idle(w) == At(w, "idle") /\ leftover[w] = Nowhere
GateOf(w) == IF call[w].mode = "run" THEN Global ELSE call[w].folder
Move(w, place) == call' = [call EXCEPT ![w].at = place]

\* A line without a waiter that gives its place up; nobody waits twice in one line.
Without(s, w) ==
    IF \E i \in 1 .. Len(s) : s[i] = w
    THEN Seqs!RemoveAt(s, CHOOSE i \in 1 .. Len(s) : s[i] = w)
    ELSE s

----------------------------------------------------------------------------
(* run, run_for_folder and run_exclusive.                                  *)

\* The activity is counted before anything is waited for.
Call(w, mode, folder) ==
    /\ Idle(w) /\ mode # "try"
    /\ call' = [call EXCEPT ![w] = [at |-> "coordinate", mode |-> mode, folder |-> folder]]
    /\ active' = active + 1
    /\ line' = [line EXCEPT ![Coordination] = Append(@, w)]
    /\ UNCHANGED <<readers, writer, owner, leftover>>

IsNext(l, w) == line[l] # <<>> /\ Head(line[l]) = w

\* Mutant: a reader passes whenever no write guard is held.
PassReaders(w) ==
    /\ At(w, "coordinate") /\ call[w].mode \in Shared
    /\ writer = Nobody
    /\ readers' = readers \cup {w}
    /\ line' = [line EXCEPT ![Coordination] = Without(@, w),
                            ![GateOf(w)] = Append(@, w)]
    /\ Move(w, "gate")
    /\ UNCHANGED <<writer, owner, active, leftover>>

\* A read guard: on to the gate of the call.
GrantShared(w) ==
    /\ At(w, "coordinate") /\ call[w].mode \in Shared
    /\ IsNext(Coordination, w) /\ writer = Nobody
    /\ readers' = readers \cup {w}
    /\ line' = [line EXCEPT ![Coordination] = Tail(@), ![GateOf(w)] = Append(@, w)]
    /\ Move(w, "gate")
    /\ UNCHANGED <<writer, owner, active, leftover>>

\* Mutant: the write guard does not wait for the readers.
GrantAnyway(w) ==
    /\ At(w, "coordinate") /\ call[w].mode = "exclusive"
    /\ IsNext(Coordination, w) /\ writer = Nobody
    /\ writer' = w
    /\ line' = [line EXCEPT ![Coordination] = Tail(@)]
    /\ Move(w, "work")
    /\ UNCHANGED <<readers, owner, active, leftover>>

\* The write guard: alone, with no gate to take.
GrantExclusive(w) ==
    /\ At(w, "coordinate") /\ call[w].mode = "exclusive"
    /\ IsNext(Coordination, w) /\ writer = Nobody /\ readers = {}
    /\ writer' = w
    /\ line' = [line EXCEPT ![Coordination] = Tail(@)]
    /\ Move(w, "work")
    /\ UNCHANGED <<readers, owner, active, leftover>>

Enter(w) ==
    /\ At(w, "gate") /\ IsNext(GateOf(w), w) /\ owner[GateOf(w)] = Nobody
    /\ owner' = [owner EXCEPT ![GateOf(w)] = w]
    /\ line' = [line EXCEPT ![GateOf(w)] = Tail(@)]
    /\ Move(w, "work")
    /\ UNCHANGED <<readers, writer, active, leftover>>

\* The operation is over: the activity goes first.
Done(w) ==
    /\ At(w, "work")
    /\ active' = active - 1
    /\ Move(w, "leave")
    /\ UNCHANGED <<line, readers, writer, owner, leftover>>

FreeLocks(w) ==
    /\ readers' = readers \ {w}
    /\ writer' = IF writer = w THEN Nobody ELSE writer
    /\ owner' = [g \in Gates |-> IF owner[g] = w THEN Nobody ELSE owner[g]]

\* The guards are dropped at the end of the call.
Leave(w) ==
    /\ At(w, "leave")
    /\ FreeLocks(w)
    /\ call' = [call EXCEPT ![w] = IdleCall]
    /\ UNCHANGED <<line, active, leftover>>

----------------------------------------------------------------------------
(* try_run_exclusive, as the application update calls it.                  *)

\* The first is_active.
Try(w, folder) ==
    /\ Idle(w) /\ active = 0
    /\ call' = [call EXCEPT ![w] = [at |-> "try", mode |-> "try", folder |-> folder]]
    /\ UNCHANGED <<line, readers, writer, owner, active, leftover>>

\* try_write succeeds, or the call answers None.
TryLock(w) ==
    /\ At(w, "try")
    /\ IF readers = {} /\ writer = Nobody /\ line[Coordination] = <<>>
       THEN writer' = w /\ Move(w, "recheck")
       ELSE writer' = writer /\ call' = [call EXCEPT ![w] = IdleCall]
    /\ UNCHANGED <<line, readers, owner, active, leftover>>

\* The second is_active, under the write guard.
Recheck(w) ==
    /\ At(w, "recheck")
    /\ IF active = 0
       THEN writer' = writer /\ Move(w, "count")
       ELSE writer' = Nobody /\ call' = [call EXCEPT ![w] = IdleCall]
    /\ UNCHANGED <<line, readers, owner, active, leftover>>

Count(w) ==
    /\ At(w, "count")
    /\ active' = active + 1
    /\ Move(w, "work")
    /\ UNCHANGED <<line, readers, writer, owner, leftover>>

----------------------------------------------------------------------------
(* Dropped calls: axum drops a handler whose client went away.             *)

\* Mutant: a call dropped while it waits stays counted.
DropUncounted(w) ==
    /\ call[w].mode \in Dropped /\ call[w].at \in Counted
    /\ leftover' = [leftover EXCEPT ![w] =
                      IF At(w, "work") THEN call[w].folder ELSE Nowhere]
    /\ active' = IF At(w, "work") THEN active - 1 ELSE active
    /\ FreeLocks(w)
    /\ line' = [l \in Locks |-> Without(line[l], w)]
    /\ call' = [call EXCEPT ![w] = IdleCall]

\* Mutant: a call dropped while it waits keeps its place in the line.
DropInLine(w) ==
    /\ call[w].mode \in Dropped /\ call[w].at \in Counted
    /\ leftover' = [leftover EXCEPT ![w] =
                      IF At(w, "work") THEN call[w].folder ELSE Nowhere]
    /\ active' = active - 1
    /\ FreeLocks(w)
    /\ call' = [call EXCEPT ![w] = IdleCall]
    /\ UNCHANGED line

\* The guards and the activity go with the future.  The closure that
\* spawn_blocking started does not: it goes on writing.
Drop(w) ==
    /\ call[w].mode \in Dropped /\ call[w].at \in Counted
    /\ leftover' = [leftover EXCEPT ![w] =
                      IF At(w, "work") THEN call[w].folder ELSE Nowhere]
    /\ active' = active - 1
    /\ FreeLocks(w)
    /\ line' = [l \in Locks |-> Without(line[l], w)]
    /\ call' = [call EXCEPT ![w] = IdleCall]

LeftoverEnds(w) ==
    /\ leftover[w] # Nowhere
    /\ leftover' = [leftover EXCEPT ![w] = Nowhere]
    /\ UNCHANGED <<call, line, readers, writer, owner, active>>

----------------------------------------------------------------------------
Waits(w) == GrantShared(w) \/ GrantExclusive(w) \/ Enter(w)

Tries(w) == TryLock(w) \/ Recheck(w) \/ Count(w)

QueueNext ==
    \E w \in Writers :
        \/ \E mode \in Modes, folder \in Folders : Call(w, mode, folder)
        \/ \E folder \in Folders : Try(w, folder)
        \/ Waits(w) \/ Tries(w)
        \/ Done(w) \/ Leave(w)
        \/ Drop(w) \/ LeftoverEnds(w)

QueueSpec == QueueInit /\ [][QueueNext]_queueVars

----------------------------------------------------------------------------
(* Properties.                                                             *)

Working(w) == At(w, "work")

\* A terminal transaction, a metadata batch, a revert or an update installation
\* under the write guard runs while no other operation does.
ExclusiveRunsAlone ==
    \A v, w \in Writers :
        Working(v) /\ Working(w) /\ call[v].mode \notin Shared => v = w

\* One single-file operation at a time, and one batch operation per folder.
GatesSerialize ==
    \A v, w \in Writers :
        /\ Working(v) /\ Working(w)
        /\ call[v].mode \in Shared /\ call[w].mode = call[v].mode
        /\ GateOf(v) = GateOf(w)
        => v = w

\* Operations exclude each other as their modes say, however calls wait, are
\* refused or are dropped (run, run_for_folder, run_exclusive,
\* try_run_exclusive).
OperationsExclude == ExclusiveRunsAlone /\ GatesSerialize

\* The counter is exactly the number of calls that wait or run, whatever
\* calls were refused, dropped or interleaved: the quit prompt, the update
\* installation and the server's shutdown rely on it.
CountIsExact == active = Cardinality({w \in Writers : call[w].at \in Counted})

=============================================================================
