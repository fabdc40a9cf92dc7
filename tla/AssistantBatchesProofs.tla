----------------------- MODULE AssistantBatchesProofs -----------------------
(***************************************************************************)
(* The assistant's batches for any number of batches, overlapping          *)
(* applications, files, requests, faults and restarts: the order of a      *)
(* plan's steps, settled batches, fresh previews, the rollback of moves    *)
(* and what a batch that counts as applied says of the disk.               *)
(***************************************************************************)
EXTENDS AssistantBatches, TLAPS

----------------------------------------------------------------------------
(* The invariant.                                                          *)

Working == {"queued", "write", "verify", "strip", "check", "move", "undo"}

\* A call that is not idle is about a batch the runtime has, and stands where
\* batches of that kind do.
CallsAreNamed ==
    \A c \in Callers : ~At(c, "idle") => Batch(c) \in Batches /\ first[Batch(c)] # "absent"

StepsAreOfKind ==
    \A c \in Callers :
        /\ calls[c].pc \in {"queued", "write", "verify"} => Kind(Batch(c)) = "metadata"
        /\ At(c, "strip") => Kind(Batch(c)) = "cover"
        /\ calls[c].pc \in {"check", "move", "undo"} => Kind(Batch(c)) = "move"
        /\ At(c, "task") => Kind(Batch(c)) = "task"

\* What hydration still has to add is pending unless the runtime has it already.
LoadedIsPending ==
    /\ request # "hydrate" => loading = {}
    /\ \A b \in loading : first[b] = "absent" => rows[b] = "pending"

\* What is about to be stored is a final status of a settled entry.
StoredIsSettled ==
    \A c \in Callers :
        At(c, "store") => first[Batch(c)] \in Settled /\ calls[c].status \in {"applied", "failed"}

AppliedIsDone == \A b \in Batches : first[b] = "applied" => b \in done

\* A call at work was let through, and predecessors once applied stay so.
WorkersAreReady ==
    \A c \in Callers : calls[c].pc \in Working => plan[Batch(c)].needs \subseteq done

MoversAreReady ==
    \A f \in Files : mover[f] # Nobody =>
        /\ ~At(mover[f], "idle") /\ Kind(Batch(mover[f])) = "move"
        /\ plan[Batch(mover[f])].needs \subseteq done

TagsAreReady ==
    \A f \in Files : tags[f] \in Batches => plan[tags[f]].needs \subseteq done

\* Between its preflight and its result a call holds the guard, and until it
\* writes the tags are those of the preview.
GuardIsHeld ==
    \A c \in Callers :
        /\ calls[c].pc \in {"write", "verify"} => guard = c
        /\ At(c, "write") => ~Stale(Batch(c))

CountFits ==
    \A c \in Callers :
        calls[c].pc \in {"check", "move", "undo"} => calls[c].n <= Len(plan[Batch(c)].files)

BatchInv ==
    /\ BatchTypeOK /\ CallsAreNamed /\ StepsAreOfKind /\ CountFits
    /\ LoadedIsPending /\ StoredIsSettled /\ SettledIsNotPending
    /\ AppliedIsDone /\ WorkersAreReady /\ MoversAreReady /\ TagsAreReady
    /\ GuardIsHeld

\* The moves of a call: those it counts are its own, of different files, and no
\* other is, except the ones that could not be undone; when it is done with them
\* all are in place or none but those.
MovesOf(c) == {f \in Files : mover[f] = c}
Counted(c) == {plan[Batch(c)].files[i] : i \in 1 .. calls[c].n}

MovesAreCounted(c) ==
    /\ Counted(c) \subseteq MovesOf(c)
    /\ MovesOf(c) \subseteq Counted(c) \cup calls[c].stuck
    /\ At(c, "move") => calls[c].stuck = {}
    /\ \A i, j \in 1 .. calls[c].n :
          i < j => plan[Batch(c)].files[i] # plan[Batch(c)].files[j]

MovesAreRight(c) ==
    /\ calls[c].pc \in {"move", "undo"} => MovesAreCounted(c)
    /\ calls[c].pc \in {"reread", "store"} =>
          MovesOf(c) \subseteq calls[c].stuck \/ MovesOf(c) = FilesOf(Batch(c))
    /\ calls[c].pc \notin {"move", "undo", "reread", "store"} => MovesOf(c) = {}
    /\ At(c, "check") => calls[c].n = 0 /\ calls[c].stuck = {}

MovedStandsThere == \A f \in Files : mover[f] # Nobody => names[f]["new"] # "free"

MoveInv == MovedStandsThere /\ \A c \in Callers : MovesAreRight(c)

----------------------------------------------------------------------------
(* Types.                                                                  *)

LEMMA TypesInit == Init => BatchTypeOK
<1> SUFFICES ASSUME Init PROVE BatchTypeOK
  OBVIOUS
<1>1. plan \in [Batches -> Plans] /\ budget \in [Budgets -> Nat]
  BY StartsAssumption DEF Init
<1>2. \A c \in Callers : Idle \in Call
  BY DEF Idle, Call, Statuses
<1>3. \A f \in Files : Untouched[f] \in Tags
  BY DEF Untouched, Tags
<1> QED
  BY <1>1, <1>2, <1>3 DEF Init, BatchTypeOK, Untouched, Sides, Statuses

LEMMA SpendTypes ==
    ASSUME budget \in [Budgets -> Nat], NEW what \in Budgets, Spend(what)
    PROVE  budget' \in [Budgets -> Nat]
  BY DEF Spend

LEMMA FileTypes ==
    ASSUME BatchTypeOK, NEW b \in Batches
    PROVE  /\ plan[b].files \in Seq(Files) /\ Len(plan[b].files) \in Nat
           /\ plan[b].needs \subseteq Batches
           /\ plan[b].contract \in BOOLEAN /\ plan[b].kind \in Kinds
           /\ plan[b].contract => plan[b].kind = "metadata"
           /\ FilesOf(b) = {plan[b].files[i] : i \in 1 .. Len(plan[b].files)}
           /\ FilesOf(b) \subseteq Files
<1>1. plan[b] \in Plans
  BY DEF BatchTypeOK
<1>2. /\ plan[b].files \in Seq(Files) /\ plan[b].needs \subseteq Batches
      /\ plan[b].contract \in BOOLEAN /\ plan[b].kind \in Kinds
      /\ plan[b].contract => plan[b].kind = "metadata"
  BY <1>1 DEF Plans
<1> QED
  BY <1>2 DEF FilesOf, ToSet

\* A request's steps and the world's.
LEMMA OutsideTypes ==
    ASSUME BatchTypeOK, Request \/ Rejection \/ World
    PROVE  BatchTypeOK'
<1>1. CASE Send
  <2>1. budget' \in [Budgets -> Nat]
    BY <1>1, SpendTypes DEF Send, BatchTypeOK, Budgets
  <2> QED
    BY <1>1, <2>1 DEF Send, BatchTypeOK, runtime, disk, history
<1>2. ASSUME NEW b \in Batches, Hydrate(b) PROVE BatchTypeOK'
  BY <1>2 DEF Hydrate, BatchTypeOK, Statuses, disk, history
<1>3. ASSUME NEW b \in Batches, AddPreview(b) PROVE BatchTypeOK'
  BY <1>3 DEF AddPreview, BatchTypeOK, Statuses, disk, history
<1>4. CASE Hydrated
  BY <1>4 DEF Hydrated, BatchTypeOK, runtime, disk, history
<1>5. CASE SavePreview
  <2>1. budget' \in [Budgets -> Nat]
    BY <1>5, SpendTypes DEF SavePreview, BatchTypeOK, Budgets
  <2> QED
    BY <1>5, <2>1 DEF SavePreview, BatchTypeOK, Statuses, Settled, disk, history
<1>6. CASE EndRequest
  BY <1>6 DEF EndRequest, BatchTypeOK, runtime, disk, history
<1>7. ASSUME NEW b \in Batches, RejectRow(b) PROVE BatchTypeOK'
  BY <1>7 DEF RejectRow, BatchTypeOK, Statuses, Settled, runtime, sending, disk, history
<1>8. CASE RejectEntry
  BY <1>8 DEF RejectEntry, BatchTypeOK, Statuses, Settled, sending, disk, history
<1>9. ASSUME NEW f \in Files, Edit(f) PROVE BatchTypeOK'
  <2>1. budget' \in [Budgets -> Nat]
    BY <1>9, SpendTypes DEF Edit, BatchTypeOK, Budgets
  <2> QED
    BY <1>9, <2>1 DEF Edit, BatchTypeOK, Tags, runtime, sending, history
<1>10. ASSUME NEW f \in Files, NEW side \in Sides, Occupy(f, side) PROVE BatchTypeOK'
  <2>1. budget' \in [Budgets -> Nat]
    BY <1>10, SpendTypes DEF Occupy, BatchTypeOK, Budgets
  <2> QED
    BY <1>10, <2>1 DEF Occupy, BatchTypeOK, runtime, sending, history
<1>11. CASE Restart
  <2>1. budget' \in [Budgets -> Nat]
    BY <1>11, SpendTypes DEF Restart, BatchTypeOK, Budgets
  <2>2. Idle \in Call
    BY DEF Idle, Call, Statuses
  <2> QED
    BY <1>11, <2>1, <2>2 DEF Restart, BatchTypeOK, Statuses, disk
<1> QED
  BY <1>1, <1>2, <1>3, <1>4, <1>5, <1>6, <1>7, <1>8, <1>9, <1>10, <1>11
     DEF Request, Rejection, World

LEMMA CallTypes ==
    ASSUME BatchTypeOK, NEW c \in Callers
    PROVE  /\ calls[c].n \in Nat /\ calls[c].failed \in BOOLEAN
           /\ calls[c].stuck \subseteq Files /\ calls[c].status \in Statuses
           /\ calls[c] \in Call /\ Batch(c) \in Batches \cup {NoBatch}
  BY DEF BatchTypeOK, Call, Batch

\* A call with one field changed, and the calls with one of them changed.
Steps == {"idle", "reread", "store", "task"} \cup Working

LEMMA AtStep == ASSUME NEW r \in Call, NEW pc \in Steps PROVE [r EXCEPT !.pc = pc] \in Call
  BY DEF Call, Steps, Working

LEMMA WithFailed ==
    ASSUME NEW r \in Call, NEW failed \in BOOLEAN PROVE [r EXCEPT !.failed = failed] \in Call
  BY DEF Call

LEMMA WithCount == ASSUME NEW r \in Call, NEW n \in Nat PROVE [r EXCEPT !.n = n] \in Call
  BY DEF Call

LEMMA WithStuck ==
    ASSUME NEW r \in Call, NEW stuck \in SUBSET Files PROVE [r EXCEPT !.stuck = stuck] \in Call
  BY DEF Call

LEMMA WithStatus ==
    ASSUME NEW r \in Call, NEW status \in Statuses PROVE [r EXCEPT !.status = status] \in Call
  BY DEF Call

LEMMA OneCall ==
    ASSUME BatchTypeOK, NEW c \in Callers, NEW r \in Call, calls' = [calls EXCEPT ![c] = r]
    PROVE  calls' \in [Callers -> Call] /\ calls'[c] = r /\ \A d \in Callers \ {c} : calls'[d] = calls[d]
  BY DEF BatchTypeOK

\* What each way of changing a call does to it.
OnlyCall(c) == calls' \in [Callers -> Call] /\ \A d \in Callers \ {c} : calls'[d] = calls[d]
SameWork(c) ==
    calls'[c].batch = calls[c].batch /\ calls'[c].n = calls[c].n /\ calls'[c].stuck = calls[c].stuck

LEMMA FinishEffect ==
    ASSUME BatchTypeOK, NEW c \in Callers, NEW status \in {"applied", "failed"},
           Batch(c) \in Batches, Finish(c, status)
    PROVE  /\ first' \in [Batches -> Statuses] /\ done' \subseteq Batches
           /\ OnlyCall(c) /\ SameWork(c) /\ calls'[c].pc = "reread"
<1> DEFINE q == [calls[c] EXCEPT !.pc = "reread"]
           r == [q EXCEPT !.failed = (status = "failed")]
<1>1. q \in Call
  BY CallTypes, AtStep DEF Steps
<1>2. (status = "failed") \in BOOLEAN
  OBVIOUS
<1>3. calls' = [calls EXCEPT ![c] = r]
  BY DEF Finish
<1>4. r.pc = "reread" /\ r.batch = calls[c].batch /\ r.n = calls[c].n /\ r.stuck = calls[c].stuck
  BY CallTypes DEF Call
<1> HIDE DEF q
<1>5. r \in Call
  BY <1>1, <1>2, WithFailed
<1> HIDE DEF r
<1>6. OnlyCall(c) /\ SameWork(c) /\ calls'[c].pc = "reread"
  BY <1>3, <1>4, <1>5, OneCall DEF OnlyCall, SameWork
<1> QED
  BY <1>6 DEF Finish, BatchTypeOK, Statuses, Settled

LEMMA GoEffect ==
    ASSUME BatchTypeOK, NEW c \in Callers, NEW pc \in Working, Go(c, pc)
    PROVE  /\ first' = first /\ done' = done
           /\ OnlyCall(c) /\ SameWork(c) /\ calls'[c].pc = pc
<1> DEFINE r == [calls[c] EXCEPT !.pc = pc]
<1>1. r \in Call
  BY CallTypes, AtStep DEF Steps
<1>2. r.pc = pc /\ r.batch = calls[c].batch /\ r.n = calls[c].n /\ r.stuck = calls[c].stuck
  BY CallTypes DEF Call
<1>3. calls' = [calls EXCEPT ![c] = r]
  BY DEF Go
<1> HIDE DEF r
<1> QED
  BY <1>1, <1>2, <1>3, OneCall DEF Go, OnlyCall, SameWork

LEMMA CountEffect ==
    ASSUME BatchTypeOK, NEW c \in Callers, NEW n \in Nat, Count(c, n)
    PROVE  /\ first' = first /\ done' = done /\ OnlyCall(c)
           /\ calls'[c].pc = calls[c].pc /\ calls'[c].batch = calls[c].batch
           /\ calls'[c].n = n /\ calls'[c].stuck = calls[c].stuck
<1> DEFINE r == [calls[c] EXCEPT !.n = n]
<1>1. r \in Call
  BY CallTypes, WithCount
<1>2. r.pc = calls[c].pc /\ r.batch = calls[c].batch /\ r.n = n /\ r.stuck = calls[c].stuck
  BY CallTypes DEF Call
<1>3. calls' = [calls EXCEPT ![c] = r]
  BY DEF Count
<1> HIDE DEF r
<1> QED
  BY <1>1, <1>2, <1>3, OneCall DEF Count, OnlyCall

LEMMA StuckEffect ==
    ASSUME BatchTypeOK, NEW c \in Callers, NEW f \in Files, calls[c].n > 0,
           calls' = [calls EXCEPT ![c].n = @ - 1, ![c].stuck = @ \cup {f}]
    PROVE  /\ OnlyCall(c)
           /\ calls'[c].pc = calls[c].pc /\ calls'[c].batch = calls[c].batch
           /\ calls'[c].n = calls[c].n - 1 /\ calls'[c].stuck = calls[c].stuck \cup {f}
<1> DEFINE q == [calls[c] EXCEPT !.n = @ - 1]
           r == [q EXCEPT !.stuck = @ \cup {f}]
<1>1. q \in Call /\ q.stuck = calls[c].stuck
  BY CallTypes, WithCount
<1>2. calls' = [calls EXCEPT ![c] = r]
  OBVIOUS
<1>3. /\ r.pc = calls[c].pc /\ r.batch = calls[c].batch
      /\ r.n = calls[c].n - 1 /\ r.stuck = calls[c].stuck \cup {f}
  BY CallTypes DEF Call
<1> HIDE DEF q
<1>4. r \in Call
  BY <1>1, CallTypes, WithStuck
<1> HIDE DEF r
<1> QED
  BY <1>2, <1>3, <1>4, OneCall DEF OnlyCall

LEMMA StripEffect ==
    ASSUME BatchTypeOK, NEW c \in Callers, Strip(c)
    PROVE  /\ OnlyCall(c)
           /\ calls'[c].pc = calls[c].pc /\ calls'[c].batch = calls[c].batch
           /\ calls'[c].stuck = calls[c].stuck
<1> DEFINE q == [calls[c] EXCEPT !.n = @ + 1]
           r == [q EXCEPT !.failed = TRUE]
<1>1. q \in Call
  BY CallTypes, WithCount
<1>2. /\ q.pc = calls[c].pc /\ q.batch = calls[c].batch /\ q.stuck = calls[c].stuck
      /\ r.pc = calls[c].pc /\ r.batch = calls[c].batch /\ r.stuck = calls[c].stuck
  BY CallTypes DEF Call
<1>3. calls' = [calls EXCEPT ![c] = q] \/ calls' = [calls EXCEPT ![c] = r]
  BY DEF Strip
<1> HIDE DEF q
<1>4. r \in Call
  BY <1>1, WithFailed
<1> HIDE DEF r
<1> QED
  BY <1>1, <1>2, <1>3, <1>4, OneCall DEF OnlyCall

LEMMA IdleIsCall == Idle \in Call /\ Idle.pc = "idle"
  BY DEF Idle, Call, Statuses

LEMMA IdleEffect ==
    ASSUME BatchTypeOK, NEW c \in Callers, calls' = [calls EXCEPT ![c] = Idle]
    PROVE  OnlyCall(c) /\ calls'[c].pc = "idle"
  BY IdleIsCall, OneCall DEF OnlyCall

LEMMA AnswerEffect ==
    ASSUME BatchTypeOK, NEW c \in Callers, Answer(c)
    PROVE  /\ OnlyCall(c)
           /\ \/ calls'[c].pc = "idle"
              \/ SameWork(c) /\ calls'[c].pc = "task" /\ HandsOver(c)
<1>1. CASE HandsOver(c)
  <2> DEFINE r == [calls[c] EXCEPT !.pc = "task"]
  <2>1. r \in Call
    BY CallTypes, AtStep DEF Steps, Working
  <2>2. r.pc = "task" /\ r.batch = calls[c].batch /\ r.n = calls[c].n /\ r.stuck = calls[c].stuck
    BY CallTypes DEF Call
  <2>3. calls' = [calls EXCEPT ![c] = r]
    BY <1>1 DEF Answer
  <2> HIDE DEF r
  <2> QED
    BY <1>1, <2>1, <2>2, <2>3, OneCall DEF OnlyCall, SameWork
<1>2. CASE ~HandsOver(c)
  BY <1>2, IdleEffect DEF Answer
<1> QED
  BY <1>1, <1>2

LEMMA ToStoreEffect ==
    ASSUME BatchTypeOK, NEW c \in Callers, NEW status \in {"applied", "failed"},
           calls' = [calls EXCEPT ![c].pc = "store", ![c].status = status]
    PROVE  OnlyCall(c) /\ SameWork(c) /\ calls'[c].pc = "store" /\ calls'[c].status = status
<1> DEFINE q == [calls[c] EXCEPT !.pc = "store"]
           r == [q EXCEPT !.status = status]
<1>1. q \in Call
  BY CallTypes, AtStep DEF Steps
<1>2. calls' = [calls EXCEPT ![c] = r]
  OBVIOUS
<1>3. /\ r.pc = "store" /\ r.batch = calls[c].batch /\ r.n = calls[c].n
      /\ r.stuck = calls[c].stuck /\ r.status = status
  BY CallTypes DEF Call
<1> HIDE DEF q
<1>4. r \in Call
  BY <1>1, WithStatus DEF Statuses, Settled
<1> HIDE DEF r
<1> QED
  BY <1>2, <1>3, <1>4, OneCall DEF OnlyCall, SameWork

LEMMA CompleteEffect ==
    ASSUME BatchTypeOK, NEW c \in Callers, NEW status \in {"applied", "failed"},
           calls' = [calls EXCEPT ![c].pc = "store", ![c].status = status, ![c].n = 1]
    PROVE  /\ OnlyCall(c) /\ calls'[c].pc = "store" /\ calls'[c].batch = calls[c].batch
           /\ calls'[c].status = status /\ calls'[c].stuck = calls[c].stuck
<1> DEFINE p == [calls[c] EXCEPT !.pc = "store"]
           q == [p EXCEPT !.status = status]
           r == [q EXCEPT !.n = 1]
<1>1. p \in Call
  BY CallTypes, AtStep DEF Steps
<1>2. calls' = [calls EXCEPT ![c] = r]
  OBVIOUS
<1>3. /\ r.pc = "store" /\ r.batch = calls[c].batch /\ r.status = status
      /\ r.stuck = calls[c].stuck
  BY CallTypes DEF Call
<1> HIDE DEF p
<1>4. q \in Call
  BY <1>1, WithStatus DEF Statuses, Settled
<1> HIDE DEF q
<1>5. r \in Call
  BY <1>4, WithCount
<1> HIDE DEF r
<1> QED
  BY <1>2, <1>3, <1>5, OneCall DEF OnlyCall

LEMMA ApplyEffect ==
    ASSUME BatchTypeOK, NEW c \in Callers, NEW b \in Batches, Apply(c, b)
    PROVE  /\ OnlyCall(c)
           /\ calls'[c].batch = b /\ calls'[c].n = 0 /\ calls'[c].stuck = {}
           /\ \/ calls'[c].pc = "reread"
              \/ /\ ~Refused(b) /\ calls'[c].pc = FirstStep[Kind(b)]
                 /\ calls'[c].pc \in {"queued", "strip", "check", "reread"}
                 /\ calls'[c].pc = "queued" => Kind(b) = "metadata"
                 /\ calls'[c].pc = "strip" => Kind(b) = "cover"
                 /\ calls'[c].pc = "check" => Kind(b) = "move"
<1> DEFINE pc == IF Refused(b) THEN "reread" ELSE FirstStep[Kind(b)]
           p == [Idle EXCEPT !.batch = b]
           q == [p EXCEPT !.failed = Refused(b)]
           r == [q EXCEPT !.pc = pc]
<1>1. Kind(b) \in Kinds
  BY FileTypes DEF Kind
<1>2. /\ FirstStep[Kind(b)] \in {"queued", "strip", "check", "reread"}
      /\ FirstStep[Kind(b)] = "queued" => Kind(b) = "metadata"
      /\ FirstStep[Kind(b)] = "strip" => Kind(b) = "cover"
      /\ FirstStep[Kind(b)] = "check" => Kind(b) = "move"
  BY <1>1 DEF Kinds, FirstStep
<1>3. p \in Call
  BY DEF Idle, Call, Statuses
<1>4. calls' = [calls EXCEPT ![c] = r]
  BY DEF Apply
<1>5. r.batch = b /\ r.n = 0 /\ r.stuck = {} /\ r.pc = pc
  BY DEF Idle
<1>6. Refused(b) \in BOOLEAN
  BY DEF Refused
<1> HIDE DEF p
<1>7. q \in Call
  BY <1>3, <1>6, WithFailed
<1> HIDE DEF q
<1>8. r \in Call
  BY <1>2, <1>7, AtStep DEF Steps, Working
<1> HIDE DEF r
<1>9. /\ OnlyCall(c) /\ calls'[c].batch = b /\ calls'[c].n = 0 /\ calls'[c].stuck = {}
      /\ calls'[c].pc = pc
  BY <1>4, <1>5, <1>8, OneCall DEF OnlyCall
<1> QED
  BY <1>2, <1>9

LEMMA WritingTypes ==
    ASSUME BatchTypeOK, CallsAreNamed, NEW c \in Callers,
           Preflight(c) \/ Write(c) \/ Verify(c)
    PROVE  BatchTypeOK'
<1> USE DEF At
<1>1. Batch(c) \in Batches
  BY DEF CallsAreNamed, Preflight, Write, Verify
<1>2. budget' \in [Budgets -> Nat]
  BY SpendTypes DEF BatchTypeOK, Budgets, Preflight, Write, Verify
<1>3. /\ first' \in [Batches -> Statuses] /\ done' \subseteq Batches
      /\ calls' \in [Callers -> Call]
  <2>1. CASE \E pc \in {"write", "verify"} : Go(c, pc)
    BY <2>1, GoEffect DEF BatchTypeOK, OnlyCall, Working
  <2>2. CASE \E status \in {"applied", "failed"} : Finish(c, status)
    BY <1>1, <2>2, FinishEffect DEF OnlyCall
  <2> QED
    BY <2>1, <2>2 DEF Preflight, Write, Verify
<1>4. tags' \in [Files -> Tags] /\ guard' \in Callers \cup {Nobody}
  BY <1>1 DEF Preflight, Write, Verify, BatchTypeOK, Tags, disk
<1> QED
  BY <1>2, <1>3, <1>4 DEF Preflight, Write, Verify, BatchTypeOK, others, sending, disk

LEMMA StrippingTypes ==
    ASSUME BatchTypeOK, CallsAreNamed, NEW c \in Callers, Strip(c) \/ Stripped(c)
    PROVE  BatchTypeOK'
<1> USE DEF At
<1>1. Batch(c) \in Batches
  BY DEF CallsAreNamed, Strip, Stripped
<1>2. CASE Strip(c)
  <2>1. budget' \in [Budgets -> Nat]
    BY <1>2, SpendTypes DEF BatchTypeOK, Budgets, Strip
  <2>2. calls' \in [Callers -> Call]
    BY <1>2, StripEffect DEF OnlyCall
  <2> QED
    BY <1>1, <1>2, <2>1, <2>2, ZenonT(30) DEF Strip, BatchTypeOK, Tags, others, sending, history
<1>3. CASE Stripped(c)
  <2>1. /\ first' \in [Batches -> Statuses] /\ done' \subseteq Batches
        /\ calls' \in [Callers -> Call]
    BY <1>1, <1>3, FinishEffect DEF Stripped, OnlyCall
  <2> QED
    BY <1>3, <2>1 DEF Stripped, BatchTypeOK, others, sending, disk
<1> QED
  BY <1>2, <1>3

LEMMA RelocatedTypes ==
    ASSUME BatchTypeOK, NEW f \in Files, NEW from \in Sides, NEW to \in Sides,
           Relocate(f, from, to) \/ RelocateFails(f, from, to)
    PROVE  names' \in [Files -> [Sides -> {"file", "free", "other"}]]
<1> DEFINE linked == [names[f] EXCEPT ![to] = names[f][from]]
           moved == [linked EXCEPT ![from] = "free"]
<1>1. names[f] \in [Sides -> {"file", "free", "other"}]
  BY DEF BatchTypeOK
<1>2. linked \in [Sides -> {"file", "free", "other"}] /\ moved \in [Sides -> {"file", "free", "other"}]
  BY <1>1
<1>3. \/ names' = names \/ names' = [names EXCEPT ![f] = linked]
      \/ names' = [names EXCEPT ![f] = moved]
  BY DEF Relocate, RelocateFails
<1> HIDE DEF linked, moved
<1> QED
  BY <1>2, <1>3 DEF BatchTypeOK

LEMMA MovingTypes ==
    ASSUME BatchTypeOK, CallsAreNamed, CountFits, NEW c \in Callers,
           CheckMoves(c) \/ Move(c) \/ Moved(c) \/ UndoMove(c) \/ Undone(c)
    PROVE  BatchTypeOK'
<1> USE DEF At
<1>1. Batch(c) \in Batches
  BY DEF CallsAreNamed, CheckMoves, Move, Moved, UndoMove, Undone
<1>2. calls[c].n \in Nat /\ plan[Batch(c)].files \in Seq(Files)
  BY <1>1, CallTypes, FileTypes
<1>3. ASSUME \/ \E status \in {"applied", "failed"} : Finish(c, status)
             \/ Go(c, "move") \/ Go(c, "undo")
      PROVE  /\ first' \in [Batches -> Statuses] /\ done' \subseteq Batches
             /\ calls' \in [Callers -> Call]
  BY <1>1, <1>3, FinishEffect, GoEffect DEF BatchTypeOK, OnlyCall, Working
<1>4. CASE CheckMoves(c)
  <2>1. budget' \in [Budgets -> Nat]
    BY <1>4, SpendTypes DEF BatchTypeOK, Budgets, CheckMoves
  <2> QED
    BY <1>3, <1>4, <2>1 DEF CheckMoves, BatchTypeOK, others, sending, disk
<1>5. CASE Move(c)
  <2>1. NextFile(c) \in Files
    <3>1. Left(c)
      BY <1>5 DEF Move
    <3> QED
      BY ONLY <1>2, <3>1 DEF Left, NextFile
  <2>2. budget' \in [Budgets -> Nat]
    BY <1>5, SpendTypes DEF BatchTypeOK, Budgets, Move, RelocateFails
  <2>3. names' \in [Files -> [Sides -> {"file", "free", "other"}]]
    BY <1>5, <2>1, RelocatedTypes DEF Move, Sides
  <2>4. /\ first' \in [Batches -> Statuses] /\ done' \subseteq Batches
        /\ calls' \in [Callers -> Call]
    <3>1. CASE Go(c, "undo")
      BY <1>3, <3>1
    <3>2. CASE Count(c, calls[c].n + 1)
      BY <1>2, <3>2, CountEffect DEF BatchTypeOK, OnlyCall
    <3> QED
      BY <1>5, <3>1, <3>2 DEF Move
  <2>5. mover' \in [Files -> Callers \cup {Nobody}]
    BY <1>5 DEF Move, BatchTypeOK
  <2> QED
    BY <1>5, <2>2, <2>3, <2>4, <2>5 DEF Move, BatchTypeOK, others, sending
<1>6. CASE Moved(c)
  BY <1>3, <1>6 DEF Moved, BatchTypeOK, others, sending, disk
<1>7. CASE UndoMove(c)
  <2>1. LastFile(c) \in Files
    <3>1. calls[c].n > 0 /\ calls[c].pc = "undo"
      BY <1>7 DEF UndoMove
    <3>2. calls[c].n <= Len(plan[Batch(c)].files)
      BY <3>1 DEF CountFits
    <3> QED
      BY ONLY <1>2, <3>1, <3>2 DEF LastFile
  <2>2. budget' \in [Budgets -> Nat]
    BY <1>7, SpendTypes DEF BatchTypeOK, Budgets, UndoMove, RelocateFails
  <2>3. names' \in [Files -> [Sides -> {"file", "free", "other"}]]
    BY <1>7, <2>1, RelocatedTypes DEF UndoMove, Sides
  <2>4. first' = first /\ done' = done
    BY <1>7 DEF UndoMove, Count
  <2>5. calls' \in [Callers -> Call]
    BY <1>2, <1>7, <2>1, CountEffect, StuckEffect DEF UndoMove, OnlyCall
  <2>6. mover' \in [Files -> Callers \cup {Nobody}]
    BY <1>7 DEF UndoMove, BatchTypeOK
  <2> QED
    BY <1>7, <2>2, <2>3, <2>4, <2>5, <2>6 DEF UndoMove, BatchTypeOK, others, sending
<1>8. CASE Undone(c)
  BY <1>3, <1>8 DEF Undone, BatchTypeOK, others, sending, disk
<1> QED
  BY <1>4, <1>5, <1>6, <1>7, <1>8

LEMMA ForgetTypes ==
    ASSUME BatchTypeOK, NEW c \in Callers, Forget(c)
    PROVE  mover' \in [Files -> Callers \cup {Nobody}]
  BY DEF Forget, BatchTypeOK

LEMMA EndingTypes ==
    ASSUME BatchTypeOK, CallsAreNamed, NEW c \in Callers,
           \/ \E b \in Batches : Apply(c, b)
           \/ Reread(c) \/ Store(c) \/ CompleteTask(c) \/ LoseTask(c)
    PROVE  BatchTypeOK'
<1> USE DEF At
<1>1. ASSUME NEW b \in Batches, Apply(c, b) PROVE BatchTypeOK'
  <2>1. budget' \in [Budgets -> Nat]
    BY <1>1, SpendTypes DEF BatchTypeOK, Budgets, Apply
  <2>2. calls' \in [Callers -> Call]
    BY <1>1, ApplyEffect DEF OnlyCall
  <2> QED
    BY <1>1, <2>1, <2>2 DEF Apply, BatchTypeOK, runtime, sending, disk, history
<1>2. CASE Reread(c)
  <2>1. Batch(c) \in Batches
    BY <1>2 DEF CallsAreNamed, Reread
  <2>2. calls' \in [Callers -> Call] /\ mover' \in [Files -> Callers \cup {Nobody}]
    BY <1>2, <2>1, AnswerEffect, ToStoreEffect, ForgetTypes DEF Reread, BatchTypeOK, OnlyCall
  <2> QED
    BY <1>2, <2>2 DEF Reread, BatchTypeOK, runtime, sending, disk
<1>3. CASE Store(c)
  <2>1. Batch(c) \in Batches /\ calls[c].status \in Statuses
    BY <1>3, CallTypes DEF CallsAreNamed, Store
  <2>2. budget' \in [Budgets -> Nat]
    BY <1>3, SpendTypes DEF BatchTypeOK, Budgets, Store
  <2>3. calls' \in [Callers -> Call] /\ mover' \in [Files -> Callers \cup {Nobody}]
    BY <1>3, AnswerEffect, IdleEffect, ForgetTypes DEF Store, OnlyCall
  <2>4. first' \in [Batches -> Statuses] /\ rows' \in [Batches -> Statuses]
    BY <1>3, <2>1 DEF Store, BatchTypeOK, Statuses, Settled
  <2> QED
    BY <1>3, <2>2, <2>3, <2>4 DEF Store, BatchTypeOK, sending, disk
<1>4. CASE CompleteTask(c)
  <2>1. Batch(c) \in Batches
    BY <1>4 DEF CallsAreNamed, CompleteTask
  <2>2. calls' \in [Callers -> Call]
    BY <1>4, CompleteEffect, IdleEffect DEF CompleteTask, OnlyCall
  <2>3. first' \in [Batches -> Statuses] /\ done' \subseteq Batches
    <3>1. CASE UNCHANGED <<first, done>>
      BY <3>1 DEF BatchTypeOK
    <3>2. ASSUME NEW status \in {"applied", "failed"},
                 first' = [first EXCEPT ![Batch(c)] = status],
                 done' = IF status = "applied" THEN done \cup {Batch(c)} ELSE done
          PROVE  first' \in [Batches -> Statuses] /\ done' \subseteq Batches
      BY <2>1, <3>2 DEF BatchTypeOK, Statuses, Settled
    <3> QED
      BY <1>4, <3>1, <3>2 DEF CompleteTask
  <2> QED
    BY <1>4, <2>2, <2>3 DEF CompleteTask, BatchTypeOK, others, sending, disk
<1>5. CASE LoseTask(c)
  <2>1. calls' \in [Callers -> Call]
    BY <1>5, IdleEffect DEF LoseTask, OnlyCall
  <2> QED
    BY <1>5, <2>1 DEF LoseTask, BatchTypeOK, runtime, sending, disk, history
<1> QED
  BY <1>1, <1>2, <1>3, <1>4, <1>5

LEMMA TypesStep == ASSUME BatchTypeOK, CallsAreNamed, CountFits, [Next]_vars PROVE BatchTypeOK'
<1>1. CASE UNCHANGED vars
  BY <1>1 DEF vars, runtime, sending, disk, history, BatchTypeOK
<1>2. CASE Request \/ Rejection \/ World
  BY <1>2, OutsideTypes
<1>3. CASE Application
  BY <1>3, WritingTypes, StrippingTypes, MovingTypes, EndingTypes DEF Application, CallStep
<1> QED
  BY <1>1, <1>2, <1>3 DEF Next

----------------------------------------------------------------------------
(* What never goes back.                                                   *)

Kept ==
    /\ plan' = plan /\ done \subseteq done'
    /\ \A b \in Batches : first[b] # "absent" => first'[b] # "absent"
    /\ \A b \in Batches : first[b] \in Settled => first'[b] \in Settled

\* A call's step settles nothing but its own batch, and a settled batch, once
\* applied, is done.
Outcome(c) ==
    /\ \A b \in Batches : b # Batch(c) => first'[b] = first[b]
    /\ first'[Batch(c)] # first[Batch(c)] => first'[Batch(c)] \in {"applied", "failed"}
    /\ \A b \in Batches : first'[b] = "applied" => first[b] = "applied" \/ b \in done'

LEMMA FinishOutcome ==
    ASSUME BatchTypeOK, NEW c \in Callers, NEW status \in {"applied", "failed"},
           Batch(c) \in Batches, Finish(c, status)
    PROVE  Outcome(c) /\ done \subseteq done' /\ first'[Batch(c)] = status
  BY DEF Finish, Outcome, BatchTypeOK

LEMMA CallOutcome ==
    ASSUME BatchTypeOK, CallsAreNamed, NEW c \in Callers,
           (\E b \in Batches : Apply(c, b)) \/ CallStep(c) \/ CompleteTask(c) \/ LoseTask(c)
    PROVE  Outcome(c) /\ plan' = plan /\ done \subseteq done'
<1> USE DEF At
<1>1. plan' = plan
  BY DEF Apply, CallStep, Preflight, Write, Verify, Strip, Stripped, CheckMoves, Move, Moved,
         UndoMove, Undone, Reread, Store, CompleteTask, LoseTask, others
<1>2. CASE UNCHANGED <<first, done>>
  BY <1>1, <1>2 DEF Outcome
<1>3. CASE Batch(c) \in Batches /\ \E status \in {"applied", "failed"} : Finish(c, status)
  BY <1>1, <1>3, FinishOutcome
<1>4. CASE Store(c)
  <2>1. Batch(c) \in Batches
    BY <1>4 DEF CallsAreNamed, Store
  <2>2. done' = done
    BY <1>4 DEF Store
  <2>3. first' = first \/ first' = [first EXCEPT ![Batch(c)] = "failed"]
    BY <1>4 DEF Store
  <2> QED
    BY <1>1, <2>1, <2>2, <2>3 DEF Outcome, BatchTypeOK
<1>5. CASE CompleteTask(c)
  <2>1. Batch(c) \in Batches
    BY <1>5 DEF CallsAreNamed, CompleteTask
  <2>2. ASSUME NEW status \in {"applied", "failed"},
               first' = [first EXCEPT ![Batch(c)] = status],
               done' = IF status = "applied" THEN done \cup {Batch(c)} ELSE done
        PROVE  Outcome(c) /\ done \subseteq done'
    BY <2>1, <2>2 DEF Outcome, BatchTypeOK
  <2> QED
    BY <1>1, <1>2, <1>5, <2>2 DEF CompleteTask
<1>6. CASE (\E b \in Batches : Apply(c, b)) \/ LoseTask(c) \/ Reread(c) \/ Strip(c) \/ Move(c) \/ UndoMove(c)
  <2>1. UNCHANGED <<first, done>>
    BY <1>6 DEF Apply, LoseTask, Reread, Strip, Move, UndoMove, Go, Count, runtime, history
  <2> QED
    BY <1>2, <2>1
<1>7. CASE Preflight(c) \/ Write(c) \/ Verify(c) \/ Stripped(c) \/ CheckMoves(c) \/ Moved(c) \/ Undone(c)
  <2>1. Batch(c) \in Batches
    BY <1>7 DEF CallsAreNamed, Preflight, Write, Verify, Stripped, CheckMoves, Moved, Undone
  <2>2. UNCHANGED <<first, done>> \/ \E status \in {"applied", "failed"} : Finish(c, status)
    BY <1>7 DEF Preflight, Write, Verify, Stripped, CheckMoves, Moved, Undone, Go
  <2> QED
    BY <1>2, <1>3, <2>1, <2>2
<1> QED
  BY <1>4, <1>5, <1>6, <1>7 DEF CallStep

LEMMA CallKept ==
    ASSUME BatchTypeOK, CallsAreNamed, NEW c \in Callers,
           (\E b \in Batches : Apply(c, b)) \/ CallStep(c) \/ CompleteTask(c) \/ LoseTask(c)
    PROVE  Kept
  BY CallOutcome DEF Kept, Outcome, Settled

----------------------------------------------------------------------------
(* A request, a rejection and the world.                                   *)

Outside ==
    \/ Send \/ (\E b \in Batches : Hydrate(b) \/ AddPreview(b)) \/ Hydrated \/ SavePreview
    \/ EndRequest \/ Rejection
    \/ \E f \in Files : Edit(f) \/ \E side \in Sides : Occupy(f, side)

LEMMA OutsideKept ==
    ASSUME BatchTypeOK, Outside
    PROVE  /\ Kept /\ UNCHANGED <<calls, guard, mover, done>>
           /\ \A b \in Batches : first'[b] = "applied" => first[b] = "applied"
<1>1. ASSUME NEW b \in Batches, first[b] = "absent", first' = [first EXCEPT ![b] = "pending"]
      PROVE  /\ \A n \in Batches : first[n] # "absent" => first'[n] # "absent"
             /\ \A n \in Batches : first[n] \in Settled => first'[n] \in Settled
             /\ \A n \in Batches : first'[n] = "applied" => first[n] = "applied"
  BY <1>1 DEF BatchTypeOK, Settled
<1>2. ASSUME NEW b \in Batches \cup {NoBatch}, NEW status \in {"failed", "rejected"},
             first' = [first EXCEPT ![b] = status]
      PROVE  /\ \A n \in Batches : first[n] # "absent" => first'[n] # "absent"
             /\ \A n \in Batches : first[n] \in Settled => first'[n] \in Settled
             /\ \A n \in Batches : first'[n] = "applied" => first[n] = "applied"
  BY <1>2 DEF BatchTypeOK, Settled
<1>3. CASE Send \/ Hydrated \/ EndRequest \/ (\E b \in Batches : RejectRow(b))
           \/ \E f \in Files : Edit(f) \/ \E side \in Sides : Occupy(f, side)
  BY <1>3 DEF Send, Hydrated, EndRequest, RejectRow, Edit, Occupy, Kept, runtime, history
<1>4. ASSUME NEW b \in Batches, Hydrate(b) \/ AddPreview(b)
      PROVE  /\ Kept /\ UNCHANGED <<calls, guard, mover, done>>
             /\ \A n \in Batches : first'[n] = "applied" => first[n] = "applied"
  BY <1>1, <1>4 DEF Hydrate, AddPreview, Kept, history
<1>5. CASE SavePreview
  BY <1>2, <1>5 DEF SavePreview, Kept, history, BatchTypeOK
<1>6. CASE RejectEntry
  BY <1>2, <1>6 DEF RejectEntry, Kept, history, BatchTypeOK
<1> QED
  BY <1>3, <1>4, <1>5, <1>6 DEF Outside, Rejection

\* What such a step leaves alone is as before.
LEMMA OutsideCalls ==
    ASSUME BatchInv, Outside
    PROVE  /\ CallsAreNamed' /\ StepsAreOfKind' /\ CountFits' /\ StoredIsSettled'
           /\ AppliedIsDone' /\ WorkersAreReady' /\ MoversAreReady'
<1> USE OutsideKept DEF BatchInv
<1>1. BatchTypeOK /\ Kept /\ UNCHANGED <<calls, guard, mover, done, plan>>
  BY DEF Kept
<1>2. CallsAreNamed' /\ StoredIsSettled'
  <2>1. ASSUME NEW c \in Callers, ~At(c, "idle")'
        PROVE  Batch(c)' \in Batches /\ first'[Batch(c)'] # "absent"
    BY <1>1, <2>1 DEF CallsAreNamed, At, Batch, Kept
  <2>2. ASSUME NEW c \in Callers, At(c, "store")'
        PROVE  first'[Batch(c)'] \in Settled /\ calls'[c].status \in {"applied", "failed"}
    <3>1. Batch(c) \in Batches
      BY <1>1, <2>2 DEF CallsAreNamed, At
    <3> QED
      BY <1>1, <2>2, <3>1 DEF StoredIsSettled, At, Batch, Kept
  <2> QED
    BY <2>1, <2>2 DEF CallsAreNamed, StoredIsSettled
<1>3. StepsAreOfKind' /\ CountFits' /\ WorkersAreReady' /\ MoversAreReady'
  BY <1>1 DEF StepsAreOfKind, CountFits, WorkersAreReady, MoversAreReady, At, Batch, Kind
<1>4. AppliedIsDone'
  BY <1>1 DEF AppliedIsDone
<1> QED
  BY <1>2, <1>3, <1>4

LEMMA OutsideDisk == ASSUME BatchInv, Outside PROVE TagsAreReady' /\ GuardIsHeld'
<1> USE OutsideKept DEF BatchInv
<1>1. BatchTypeOK /\ Kept /\ UNCHANGED <<calls, guard, mover, done, plan>>
  BY DEF Kept
<1>2. CASE UNCHANGED <<tags, basis>>
  BY <1>1, <1>2 DEF TagsAreReady, GuardIsHeld, At, Batch, Stale, FilesOf
<1>3. ASSUME NEW b \in Batches, AddPreview(b) PROVE TagsAreReady' /\ GuardIsHeld'
  <2>1. first[b] = "absent" /\ tags' = tags /\ \A n \in Batches \ {b} : basis'[n] = basis[n]
    BY <1>1, <1>3 DEF AddPreview, disk, BatchTypeOK
  <2>2. ASSUME NEW c \in Callers, At(c, "write") PROVE Batch(c) \in Batches \ {b}
    BY <2>1, <2>2 DEF CallsAreNamed, At
  <2> QED
    BY <1>1, <2>1, <2>2 DEF TagsAreReady, GuardIsHeld, At, Batch, Stale, FilesOf
<1>4. ASSUME NEW f \in Files, Edit(f) PROVE TagsAreReady' /\ GuardIsHeld'
  <2>1. guard = Nobody /\ tags' = [tags EXCEPT ![f] = Edited]
    BY <1>4 DEF Edit
  <2>2. \A c \in Callers : calls[c].pc \notin {"write", "verify"}
    BY <2>1, BatchesAssumption DEF GuardIsHeld
  <2>3. \A g \in Files : tags'[g] = tags[g] \/ tags'[g] = Edited
    BY <2>1 DEF BatchTypeOK
  <2> QED
    BY <1>1, <2>2, <2>3, BatchesAssumption DEF TagsAreReady, GuardIsHeld, At
<1> QED
  <2>1. ASSUME NEW f \in Files, NEW side \in Sides, Occupy(f, side) PROVE UNCHANGED <<tags, basis>>
    BY <2>1 DEF Occupy
  <2>2. ASSUME NEW b \in Batches, Hydrate(b) \/ RejectRow(b) PROVE UNCHANGED <<tags, basis>>
    BY <2>2 DEF Hydrate, RejectRow, disk
  <2>3. CASE Send \/ Hydrated \/ SavePreview \/ EndRequest \/ RejectEntry
    BY <1>2, <2>3 DEF Send, Hydrated, SavePreview, EndRequest, RejectEntry, disk
  <2> QED
    BY <1>2, <1>3, <1>4, <2>1, <2>2, <2>3 DEF Outside, Rejection

LEMMA OutsideRows == ASSUME BatchInv, Outside PROVE LoadedIsPending' /\ SettledIsNotPending'
<1> USE DEF BatchInv, LoadedIsPending, SettledIsNotPending
<1>1. CASE Send
  BY <1>1 DEF Send, runtime
<1>2. ASSUME NEW b \in Batches, Hydrate(b) PROVE LoadedIsPending' /\ SettledIsNotPending'
  BY <1>2 DEF Hydrate, BatchTypeOK, Settled
<1>3. ASSUME NEW b \in Batches, AddPreview(b) PROVE LoadedIsPending' /\ SettledIsNotPending'
  BY <1>3 DEF AddPreview, BatchTypeOK, Settled
<1>4. CASE Hydrated
  BY <1>4 DEF Hydrated, runtime
<1>5. CASE SavePreview
  BY <1>5 DEF SavePreview, BatchTypeOK, Settled
<1>6. CASE EndRequest
  BY <1>6 DEF EndRequest, runtime
<1>7. ASSUME NEW b \in Batches, RejectRow(b) PROVE LoadedIsPending' /\ SettledIsNotPending'
  BY <1>7, BatchesAssumption DEF RejectRow, BatchTypeOK, Settled, runtime, sending
<1>8. CASE RejectEntry
  BY <1>8 DEF RejectEntry, BatchTypeOK, Settled, sending
<1>9. ASSUME NEW f \in Files, Edit(f) \/ \E side \in Sides : Occupy(f, side)
      PROVE  LoadedIsPending' /\ SettledIsNotPending'
  BY <1>9 DEF Edit, Occupy, runtime, sending
<1> QED
  BY <1>1, <1>2, <1>3, <1>4, <1>5, <1>6, <1>7, <1>8, <1>9 DEF Outside, Rejection

LEMMA RestartInv == ASSUME BatchInv, Restart PROVE BatchTypeOK' => BatchInv'
<1>1. /\ plan' = plan /\ rows' = rows /\ tags' = tags /\ done' = done
      /\ first' = [b \in Batches |-> "absent"] /\ loading' = {}
      /\ \A c \in Callers : calls'[c].pc = "idle"
      /\ mover' = [f \in Files |-> Nobody]
  BY IdleIsCall DEF Restart, disk
<1> QED
  BY <1>1 DEF BatchInv, CallsAreNamed, StepsAreOfKind, CountFits, LoadedIsPending, StoredIsSettled,
              SettledIsNotPending, AppliedIsDone, WorkersAreReady, MoversAreReady, TagsAreReady,
              GuardIsHeld, At, Working

----------------------------------------------------------------------------
(* The steps of an application.                                            *)

CallAction(c) ==
    (\E b \in Batches : Apply(c, b)) \/ CallStep(c) \/ CompleteTask(c) \/ LoseTask(c)

Ways == {<<"queued", "write">>, <<"write", "verify">>, <<"strip", "strip">>, <<"check", "move">>,
         <<"move", "move">>, <<"move", "undo">>, <<"undo", "undo">>}

\* Where a step takes its call.
Started(c, b) ==
    /\ At(c, "idle") /\ first[b] # "absent"
    /\ calls'[c].batch = b /\ calls'[c].n = 0 /\ calls'[c].stuck = {}
    /\ \/ calls'[c].pc = "reread"
       \/ /\ ~Refused(b) /\ calls'[c].pc \in {"queued", "strip", "check", "reread"}
          /\ calls'[c].pc = "queued" => Kind(b) = "metadata"
          /\ calls'[c].pc = "strip" => Kind(b) = "cover"
          /\ calls'[c].pc = "check" => Kind(b) = "move"

Continued(c) ==
    /\ ~At(c, "idle") /\ calls'[c].batch = calls[c].batch
    /\ \/ <<calls[c].pc, calls'[c].pc>> \in Ways
       \/ calls'[c].pc = "reread"
       \/ /\ calls'[c].pc = "store" /\ calls'[c].status \in {"applied", "failed"}
          /\ first'[Batch(c)] \in Settled
       \/ calls'[c].pc = "task" /\ Kind(Batch(c)) = "task"

LEMMA CallMoves ==
    ASSUME BatchInv, NEW c \in Callers, CallAction(c)
    PROVE  /\ OnlyCall(c)
           /\ \/ calls'[c].pc = "idle"
              \/ \E b \in Batches : Started(c, b)
              \/ Continued(c)
<1> USE DEF At, BatchInv
<1>1. ASSUME NEW b \in Batches, Apply(c, b) PROVE OnlyCall(c) /\ Started(c, b)
  BY <1>1, ApplyEffect DEF Started, Apply
<1>2. ASSUME Batch(c) \in Batches, ~At(c, "idle"), NEW status \in {"applied", "failed"}, Finish(c, status)
      PROVE  OnlyCall(c) /\ Continued(c)
  BY <1>2, FinishEffect DEF Continued, SameWork
<1>3. ASSUME ~At(c, "idle"), NEW pc \in Working, Go(c, pc), <<calls[c].pc, pc>> \in Ways
      PROVE  OnlyCall(c) /\ Continued(c)
  BY <1>3, GoEffect DEF Continued, SameWork
<1>4. ASSUME ~At(c, "idle") PROVE Batch(c) \in Batches
  BY <1>4 DEF CallsAreNamed
<1>5. CASE Preflight(c) \/ Write(c) \/ Verify(c)
  <2>1. \/ (At(c, "queued") /\ Go(c, "write")) \/ (At(c, "write") /\ Go(c, "verify"))
        \/ (~At(c, "idle") /\ \E status \in {"applied", "failed"} : Finish(c, status))
    BY <1>5 DEF Preflight, Write, Verify
  <2> QED
    BY <1>2, <1>3, <1>4, <2>1 DEF Ways, Working
<1>6. CASE Strip(c)
  BY <1>6, StripEffect DEF Strip, Continued, Ways
<1>7. CASE Stripped(c) \/ Moved(c) \/ Undone(c)
  <2>1. ~At(c, "idle") /\ \E status \in {"applied", "failed"} : Finish(c, status)
    BY <1>7 DEF Stripped, Moved, Undone
  <2> QED
    BY <1>2, <1>4, <2>1
<1>8. CASE CheckMoves(c)
  <2>1. At(c, "check") /\ (Go(c, "move") \/ Finish(c, "failed"))
    BY <1>8 DEF CheckMoves
  <2> QED
    BY <1>2, <1>3, <1>4, <2>1 DEF Ways, Working
<1>9. CASE Move(c)
  <2>1. At(c, "move") /\ (Go(c, "undo") \/ Count(c, calls[c].n + 1))
    BY <1>9 DEF Move
  <2>2. CASE Go(c, "undo")
    BY <1>3, <2>1, <2>2 DEF Ways, Working
  <2>3. CASE Count(c, calls[c].n + 1)
    BY <2>1, <2>3, CountEffect, CallTypes DEF Continued, Ways
  <2> QED
    BY <2>1, <2>2, <2>3
<1>10. CASE UndoMove(c)
  <2>1. At(c, "undo") /\ calls[c].n > 0 /\ Batch(c) \in Batches
    BY <1>4, <1>10 DEF UndoMove
  <2>2. LastFile(c) \in Files
    BY <2>1, CallTypes, FileTypes DEF LastFile, CountFits
  <2>3. CASE Count(c, calls[c].n - 1)
    BY <2>1, <2>3, CountEffect, CallTypes DEF Continued, Ways
  <2>4. CASE calls' = [calls EXCEPT ![c].n = @ - 1, ![c].stuck = @ \cup {LastFile(c)}]
    BY <2>1, <2>2, <2>4, StuckEffect DEF Continued, Ways
  <2> QED
    BY <1>10, <2>3, <2>4 DEF UndoMove
<1>11. CASE Reread(c)
  <2>1. At(c, "reread") /\ Batch(c) \in Batches /\ first' = first
    BY <1>4, <1>11 DEF Reread, runtime
  <2>2. CASE first[Batch(c)] \in {"applied", "failed"}
    BY <1>11, <2>1, <2>2, ToStoreEffect DEF Reread, Continued, SameWork, Settled
  <2>3. CASE Answer(c)
    BY <2>1, <2>3, AnswerEffect DEF Continued, SameWork, HandsOver
  <2> QED
    BY <1>11, <2>2, <2>3 DEF Reread
<1>12. CASE Store(c)
  <2>1. At(c, "store")
    BY <1>12 DEF Store
  <2>2. CASE Answer(c)
    BY <2>1, <2>2, AnswerEffect DEF Continued, SameWork, HandsOver
  <2>3. CASE calls' = [calls EXCEPT ![c] = Idle]
    BY <2>3, IdleEffect
  <2> QED
    BY <1>12, <2>2, <2>3 DEF Store
<1>13. CASE CompleteTask(c)
  <2>1. At(c, "task") /\ Batch(c) \in Batches
    BY <1>4, <1>13 DEF CompleteTask
  <2>2. ASSUME NEW status \in {"applied", "failed"},
               first' = [first EXCEPT ![Batch(c)] = status],
               calls' = [calls EXCEPT ![c].pc = "store", ![c].status = status, ![c].n = 1]
        PROVE  OnlyCall(c) /\ Continued(c)
    <3>1. first'[Batch(c)] = status
      BY <2>1, <2>2 DEF BatchTypeOK
    <3> QED
      BY <2>1, <2>2, <3>1, CompleteEffect DEF Continued, Settled
  <2>3. CASE calls' = [calls EXCEPT ![c] = Idle]
    BY <2>3, IdleEffect
  <2> QED
    BY <1>13, <2>2, <2>3 DEF CompleteTask
<1>14. CASE LoseTask(c)
  BY <1>14, IdleEffect DEF LoseTask
<1> QED
  BY <1>1, <1>5, <1>6, <1>7, <1>8, <1>9, <1>10, <1>11, <1>12, <1>13, <1>14 DEF CallAction, CallStep

\* Where a call stands, for its own step and for another call's.
LEMMA CallNames ==
    ASSUME BatchInv, NEW c \in Callers, CallAction(c)
    PROVE  CallsAreNamed' /\ StepsAreOfKind' /\ StoredIsSettled'
<1>1. BatchTypeOK /\ CallsAreNamed /\ Kept /\ OnlyCall(c)
  BY CallKept, CallMoves DEF BatchInv, CallAction
<1>2. ASSUME NEW d \in Callers \ {c}
      PROVE  /\ calls'[d] = calls[d]
             /\ calls'[d].pc # "idle" =>
                    calls'[d].batch \in Batches /\ first'[calls'[d].batch] # "absent"
             /\ calls'[d].pc = "store" =>
                    first'[calls'[d].batch] \in Settled /\ calls'[d].status \in {"applied", "failed"}
  BY <1>1, <1>2 DEF BatchInv, CallsAreNamed, StoredIsSettled, At, Batch, Kept, OnlyCall
<1>3. /\ calls'[c].pc # "idle" =>
            calls'[c].batch \in Batches /\ first'[calls'[c].batch] # "absent"
      /\ calls'[c].pc = "store" =>
            first'[calls'[c].batch] \in Settled /\ calls'[c].status \in {"applied", "failed"}
      /\ calls'[c].pc \in {"queued", "write", "verify"} => plan[calls'[c].batch].kind = "metadata"
      /\ calls'[c].pc = "strip" => plan[calls'[c].batch].kind = "cover"
      /\ calls'[c].pc \in {"check", "move", "undo"} => plan[calls'[c].batch].kind = "move"
      /\ calls'[c].pc = "task" => plan[calls'[c].batch].kind = "task"
  <2>1. CASE calls'[c].pc = "idle"
    BY <2>1
  <2>2. CASE \E b \in Batches : Started(c, b)
    BY <1>1, <2>2 DEF Started, Kept, Kind
  <2>3. CASE Continued(c)
    <3>1. Batch(c) \in Batches /\ first[Batch(c)] # "absent" /\ calls'[c].batch = Batch(c)
      BY <1>1, <2>3 DEF Continued, CallsAreNamed, Batch
    <3>2. first'[Batch(c)] # "absent"
      BY <1>1, <3>1 DEF Kept
    <3> QED
      BY <2>3, <3>1, <3>2 DEF BatchInv, Continued, StepsAreOfKind, Ways, At, Kind
  <2> QED
    BY <2>1, <2>2, <2>3, CallMoves
<1>4. StepsAreOfKind'
  BY <1>1, <1>2, <1>3 DEF BatchInv, StepsAreOfKind, At, Batch, Kind, Kept
<1> QED
  BY <1>2, <1>3, <1>4 DEF CallsAreNamed, StoredIsSettled, At, Batch

LEMMA CallReady ==
    ASSUME BatchInv, NEW c \in Callers, CallAction(c)
    PROVE  WorkersAreReady' /\ AppliedIsDone'
<1>1. BatchTypeOK /\ CallsAreNamed /\ Kept /\ OnlyCall(c) /\ Outcome(c)
  BY CallKept, CallMoves, CallOutcome DEF BatchInv, CallAction
<1>2. AppliedIsDone'
  BY <1>1 DEF BatchInv, AppliedIsDone, Outcome, Kept
<1>3. ASSUME NEW d \in Callers, calls'[d].pc \in Working
      PROVE  plan[calls'[d].batch].needs \subseteq done'
  <2>1. CASE d # c
    BY <1>1, <1>3, <2>1 DEF BatchInv, WorkersAreReady, OnlyCall, Kept, Batch
  <2>2. CASE d = c
    <3>1. ASSUME NEW b \in Batches, Started(c, b) PROVE plan[calls'[c].batch].needs \subseteq done'
      <4>1. ~Refused(b) /\ calls'[c].batch = b /\ plan[b].needs \subseteq Batches
        BY <1>1, <1>3, <2>2, <3>1, FileTypes DEF Started, Working
      <4> QED
        BY <1>1, <4>1 DEF BatchInv, Refused, AppliedIsDone, Kept
    <3>2. CASE Continued(c)
      BY <1>1, <1>3, <2>2, <3>2 DEF BatchInv, Continued, Ways, Working, WorkersAreReady, Kept, Batch
    <3> QED
      BY <1>3, <2>2, <3>1, <3>2, CallMoves DEF Working
  <2> QED
    BY <2>1, <2>2
<1> QED
  BY <1>1, <1>2, <1>3 DEF WorkersAreReady, Batch, Kept

\* A move counts at most the batch's files.
LEMMA CallFits == ASSUME BatchInv, NEW c \in Callers, CallAction(c) PROVE CountFits'
<1> USE DEF At
<1>1. BatchTypeOK /\ CallsAreNamed /\ Kept /\ OnlyCall(c)
  BY CallKept, CallMoves DEF BatchInv, CallAction
<1>2. ASSUME calls'[c].pc \in {"check", "move", "undo"}
      PROVE  calls'[c].n <= Len(plan[calls'[c].batch].files)
  <2>1. ASSUME NEW b \in Batches, Started(c, b) PROVE calls'[c].n <= Len(plan[calls'[c].batch].files)
    BY <1>1, <2>1, FileTypes DEF Started
  <2>2. CASE Continued(c)
    <3>1. /\ Batch(c) \in Batches /\ calls'[c].batch = Batch(c) /\ calls[c].n \in Nat
          /\ Len(plan[Batch(c)].files) \in Nat
      BY <1>1, <2>2, FileTypes, CallTypes DEF Continued, CallsAreNamed, Batch
    <3>2. calls[c].pc \in {"check", "move", "undo"}
      BY <1>2, <2>2 DEF Continued, Ways
    <3>3. calls[c].n <= Len(plan[Batch(c)].files)
      BY <3>2 DEF BatchInv, CountFits
    <3>4. CASE CheckMoves(c) \/ Moved(c) \/ Undone(c)
      <4>1. (\E status \in {"applied", "failed"} : Finish(c, status)) \/ Go(c, "move")
        BY <3>4 DEF CheckMoves, Moved, Undone
      <4> QED
        BY <1>1, <3>1, <3>3, <4>1, FinishEffect, GoEffect DEF SameWork, Working
    <3>5. CASE Move(c)
      <4>1. Go(c, "undo") \/ (Left(c) /\ Count(c, calls[c].n + 1))
        BY <3>5 DEF Move
      <4> QED
        BY <1>1, <3>1, <3>3, <4>1, CountEffect, GoEffect DEF SameWork, Working, Left
    <3>6. CASE UndoMove(c)
      <4>1. calls[c].n > 0
        BY <3>6 DEF UndoMove
      <4>2. LastFile(c) \in Files
        BY <1>1, <3>1, <3>3, <4>1, FileTypes DEF LastFile
      <4>3. calls'[c].n = calls[c].n - 1
        BY <1>1, <3>1, <3>6, <4>1, <4>2, CountEffect, StuckEffect DEF UndoMove
      <4> QED
        BY <3>1, <3>3, <4>3
    <3>7. CASE LoseTask(c) \/ CompleteTask(c) \/ Reread(c) \/ Store(c) \/ Preflight(c)
               \/ Write(c) \/ Verify(c) \/ Strip(c) \/ Stripped(c)
      BY <3>2, <3>7 DEF LoseTask, CompleteTask, Reread, Store, Preflight, Write, Verify, Strip, Stripped
    <3>8. CASE \E b \in Batches : Apply(c, b)
      BY <3>2, <3>8 DEF Apply
    <3> QED
      BY <3>4, <3>5, <3>6, <3>7, <3>8 DEF CallAction, CallStep
  <2> QED
    BY <1>2, <2>1, <2>2, CallMoves
<1>3. ASSUME NEW d \in Callers \ {c}, calls'[d].pc \in {"check", "move", "undo"}
      PROVE  calls'[d].n <= Len(plan[calls'[d].batch].files)
  BY <1>1, <1>3 DEF BatchInv, CountFits, OnlyCall, Batch
<1> QED
  BY <1>1, <1>2, <1>3 DEF CountFits, Batch, Kept

\* The rows: only a settled batch's final status is stored.
LEMMA CallRows ==
    ASSUME BatchInv, NEW c \in Callers, CallAction(c)
    PROVE  LoadedIsPending' /\ SettledIsNotPending'
<1> USE DEF At
<1>1. BatchTypeOK /\ CallsAreNamed /\ Kept /\ Outcome(c)
  BY CallKept, CallOutcome DEF BatchInv, CallAction
<1>2. UNCHANGED <<request, loading, rejecting>>
  BY DEF CallAction, CallStep, Apply, Preflight, Write, Verify, Strip, Stripped, CheckMoves, Move,
         Moved, UndoMove, Undone, Reread, Store, CompleteTask, LoseTask, others, sending
<1>3. ASSUME NEW b \in Batches, rows'[b] # rows[b]
      PROVE  b = Batch(c) /\ first[b] \in Settled /\ rows'[b] \in {"applied", "failed"}
  <2>1. Store(c)
    BY <1>3 DEF CallAction, CallStep, Apply, Preflight, Write, Verify, Strip, Stripped, CheckMoves,
         Move, Moved, UndoMove, Undone, Reread, CompleteTask, LoseTask, others
  <2>2. rows' = [rows EXCEPT ![Batch(c)] = calls[c].status] /\ At(c, "store")
    BY <1>3, <2>1 DEF Store
  <2> QED
    BY <1>1, <1>3, <2>2 DEF BatchInv, StoredIsSettled, BatchTypeOK
<1>4. LoadedIsPending'
  <2>1. ASSUME NEW b \in loading, first'[b] = "absent" PROVE rows'[b] = "pending"
    <3>1. b \in Batches /\ first[b] = "absent"
      BY <1>1, <2>1 DEF BatchTypeOK, Kept
    <3> QED
      BY <1>3, <2>1, <3>1 DEF BatchInv, LoadedIsPending, Settled
  <2> QED
    BY <1>2, <2>1 DEF BatchInv, LoadedIsPending
<1>5. SettledIsNotPending'
  <2>1. ASSUME NEW b \in Batches, rows'[b] \in Settled, rejecting # b, first'[b] = "pending"
        PROVE  FALSE
    <3>1. first[b] = "pending"
      BY <1>1, <2>1 DEF Outcome
    <3>2. rows'[b] = rows[b]
      BY <1>3, <3>1 DEF Settled
    <3> QED
      BY <2>1, <3>1, <3>2 DEF BatchInv, SettledIsNotPending
  <2> QED
    BY <1>2, <2>1 DEF SettledIsNotPending
<1> QED
  BY <1>4, <1>5

\* The tags: a call writes its own batch's, when it is ready.
LEMMA CallTags ==
    ASSUME BatchInv, NEW c \in Callers, CallAction(c)
    PROVE  /\ TagsAreReady'
           /\ \A f \in Files : tags'[f] # tags[f] =>
                /\ calls[c].pc \in {"write", "strip"} /\ tags'[f] = Batch(c)
                /\ f \in FilesOf(Batch(c))
<1> USE DEF At
<1>1. BatchTypeOK /\ CallsAreNamed /\ Kept
  BY CallKept DEF BatchInv, CallAction
<1>2. ASSUME NEW f \in Files, tags'[f] # tags[f]
      PROVE  /\ calls[c].pc \in {"write", "strip"} /\ tags'[f] = Batch(c)
             /\ f \in FilesOf(Batch(c))
  <2>1. Write(c) \/ Strip(c)
    BY <1>2 DEF CallAction, CallStep, Apply, Preflight, Verify, Stripped, CheckMoves, Move,
         Moved, UndoMove, Undone, Reread, Store, CompleteTask, LoseTask, disk
  <2>2. CASE Write(c)
    BY <1>2, <2>2 DEF Write
  <2>3. CASE Strip(c)
    <3>1. tags' = [tags EXCEPT ![NextFile(c)] = Batch(c)] /\ At(c, "strip") /\ Left(c)
      BY <1>2, <2>3 DEF Strip
    <3>2. f = NextFile(c) /\ tags'[f] = Batch(c)
      BY <1>1, <1>2, <3>1 DEF BatchTypeOK
    <3>3. Batch(c) \in Batches /\ calls[c].n \in Nat
      BY <1>1, <3>1, CallTypes DEF CallsAreNamed
    <3> QED
      BY <1>1, <3>1, <3>2, <3>3, FileTypes DEF NextFile, Left
  <2> QED
    BY <2>1, <2>2, <2>3
<1>3. ASSUME NEW f \in Files, tags'[f] \in Batches PROVE plan'[tags'[f]].needs \subseteq done'
  <2>1. CASE tags'[f] = tags[f]
    BY <1>1, <1>3, <2>1 DEF BatchInv, TagsAreReady, Kept
  <2>2. CASE tags'[f] # tags[f]
    BY <1>1, <1>2, <2>2 DEF BatchInv, WorkersAreReady, Working, Kept
  <2> QED
    BY <2>1, <2>2
<1> QED
  BY <1>2, <1>3 DEF TagsAreReady

LEMMA CallGuard == ASSUME BatchInv, NEW c \in Callers, CallAction(c) PROVE GuardIsHeld'
<1> USE DEF At
<1>1. BatchTypeOK /\ Kept /\ OnlyCall(c) /\ basis' = basis
  BY CallKept, CallMoves
  DEF BatchInv, CallAction, CallStep, Apply, Preflight, Write, Verify, Strip, Stripped, CheckMoves,
      Move, Moved, UndoMove, Undone, Reread, Store, CompleteTask, LoseTask, others
<1>2. ASSUME NEW d \in Callers \ {c}, calls'[d].pc \in {"write", "verify"}
      PROVE  guard' = d /\ (calls'[d].pc = "write" => ~Stale(Batch(d))')
  <2>1. calls'[d] = calls[d] /\ guard = d /\ guard # c /\ guard # Nobody
    BY <1>1, <1>2, BatchesAssumption DEF BatchInv, GuardIsHeld, OnlyCall
  <2>2. ~Write(c) /\ ~Verify(c) /\ ~Preflight(c) /\ ~Strip(c)
    BY <2>1 DEF BatchInv, GuardIsHeld, Write, Verify, Preflight, Strip
  <2>3. UNCHANGED <<guard, tags>>
    BY <2>2 DEF CallAction, CallStep, Apply, Stripped, CheckMoves,
      Move, Moved, UndoMove, Undone, Reread, Store, CompleteTask, LoseTask, disk
  <2> QED
    BY <1>1, <1>2, <2>1, <2>3 DEF BatchInv, GuardIsHeld, Stale, FilesOf, Batch, Kept
<1>3. ASSUME calls'[c].pc \in {"write", "verify"}
      PROVE  guard' = c /\ (calls'[c].pc = "write" => ~Stale(Batch(c))')
  <2>1. Continued(c) /\ calls'[c].batch = calls[c].batch
    BY <1>3, CallMoves DEF Started, Continued
  <2>2. \/ calls[c].pc = "queued" /\ calls'[c].pc = "write"
        \/ calls[c].pc = "write" /\ calls'[c].pc = "verify"
    BY <1>3, <2>1 DEF Continued, Ways
  <2>3. Batch(c) \in Batches
    BY <1>1, <2>2 DEF BatchInv, CallsAreNamed
  <2>4. Preflight(c) \/ Write(c)
    BY <2>2 DEF CallAction, CallStep, Apply, Verify, Strip, Stripped, CheckMoves,
      Move, Moved, UndoMove, Undone, Reread, Store, CompleteTask, LoseTask
  <2>5. ~ \E status \in {"applied", "failed"} : Finish(c, status)
    BY <1>1, <1>3, <2>3, FinishEffect
  <2>6. CASE Preflight(c)
    BY <1>1, <2>1, <2>2, <2>5, <2>6 DEF Preflight, Stale, FilesOf, Batch, Kept, disk
  <2>7. CASE Write(c)
    BY <2>2, <2>5, <2>7 DEF Write, BatchInv, GuardIsHeld
  <2> QED
    BY <2>4, <2>6, <2>7
<1> QED
  BY <1>2, <1>3 DEF GuardIsHeld

\* Who moved what: the step that makes a call idle forgets its moves.
LEMMA CallMovers ==
    ASSUME BatchInv, NEW c \in Callers, CallAction(c)
    PROVE  /\ \A f \in Files : mover'[f] # mover[f] /\ mover'[f] # Nobody =>
                 mover'[f] = c /\ At(c, "move") /\ calls'[c].pc = "move"
           /\ \A f \in Files : mover[f] = c /\ mover'[f] = c => Continued(c)
<1> USE DEF At
<1>1. BatchTypeOK /\ CallsAreNamed /\ OnlyCall(c)
  BY CallMoves DEF BatchInv
<1>2. ASSUME NEW f \in Files, mover'[f] # mover[f], mover'[f] # Nobody
      PROVE  mover'[f] = c /\ At(c, "move") /\ calls'[c].pc = "move"
  <2>1. ~Forget(c)
    BY <1>1, <1>2 DEF Forget, BatchTypeOK
  <2>2. ~UndoMove(c)
    BY <1>1, <1>2 DEF UndoMove, BatchTypeOK
  <2>3. Move(c)
    BY <1>2, <2>1, <2>2 DEF CallAction, CallStep, Apply, Preflight, Write, Verify, Strip, Stripped,
      CheckMoves, Moved, Undone, Reread, Store, CompleteTask, LoseTask, history
  <2>4. /\ At(c, "move") /\ mover' = [mover EXCEPT ![NextFile(c)] = c]
        /\ Count(c, calls[c].n + 1)
    BY <1>2, <2>3 DEF Move
  <2> QED
    BY <1>1, <1>2, <2>4, CountEffect, CallTypes DEF BatchTypeOK
<1>3. ASSUME NEW f \in Files, mover[f] = c, mover'[f] = c PROVE Continued(c)
  <2>1. ~At(c, "idle") /\ Kind(Batch(c)) = "move"
    BY <1>3, BatchesAssumption DEF BatchInv, MoversAreReady
  <2>2. ~CompleteTask(c) /\ ~LoseTask(c)
    BY <2>1 DEF CompleteTask, LoseTask, BatchInv, StepsAreOfKind
  <2>3. ~Forget(c)
    BY <1>1, <1>3, BatchesAssumption DEF Forget, BatchTypeOK
  <2>4. ~Store(c)
    BY <2>3 DEF Store
  <2>5. CASE Reread(c)
    <3>1. first[Batch(c)] \in {"applied", "failed"} /\ At(c, "reread")
          /\ calls' = [calls EXCEPT ![c].pc = "store", ![c].status = first[Batch(c)]]
      BY <2>3, <2>5 DEF Reread
    <3> QED
      BY <1>1, <3>1, ToStoreEffect, CallMoves DEF Started, Continued
  <2>6. CASE ~Reread(c)
    <3>1. calls'[c].pc # "idle"
      <4>1. Batch(c) \in Batches /\ calls[c].n \in Nat /\ calls[c].n <= calls[c].n + 1
        BY <1>1, <2>1, CallTypes DEF CallsAreNamed
      <4>2. CASE Preflight(c) \/ Write(c) \/ Verify(c) \/ Stripped(c) \/ CheckMoves(c)
                 \/ Moved(c) \/ Undone(c)
        <5>1. \/ \E status \in {"applied", "failed"} : Finish(c, status)
              \/ \E pc \in Working : Go(c, pc)
          BY <4>2 DEF Preflight, Write, Verify, Stripped, CheckMoves, Moved, Undone, Working
        <5> QED
          BY <1>1, <4>1, <5>1, FinishEffect, GoEffect DEF Working
      <4>3. CASE Strip(c)
        BY <1>1, <4>3, StripEffect DEF Strip
      <4>4. CASE Move(c)
        <5>1. Go(c, "undo") \/ Count(c, calls[c].n + 1)
          BY <4>4 DEF Move
        <5> QED
          BY <1>1, <2>1, <4>1, <5>1, CountEffect, GoEffect DEF Working
      <4>5. CASE UndoMove(c)
        <5>1. calls[c].n > 0 /\ calls[c].n - 1 \in Nat /\ calls[c].pc = "undo"
          BY <4>1, <4>5 DEF UndoMove
        <5>2. LastFile(c) \in Files
          BY <1>1, <4>1, <5>1, FileTypes DEF LastFile, BatchInv, CountFits
        <5> QED
          BY <1>1, <4>5, <5>1, <5>2, CountEffect, StuckEffect DEF UndoMove
      <4> QED
        BY <2>1, <2>2, <2>4, <2>6, <4>2, <4>3, <4>4, <4>5 DEF CallAction, CallStep, Apply
    <3> QED
      BY <2>1, <3>1, CallMoves DEF Started
  <2> QED
    BY <2>5, <2>6
<1> QED
  BY <1>2, <1>3

LEMMA CallMoversReady == ASSUME BatchInv, NEW c \in Callers, CallAction(c) PROVE MoversAreReady'
<1>1. BatchTypeOK /\ Kept /\ OnlyCall(c)
  BY CallKept, CallMoves DEF BatchInv, CallAction
<1>2. SUFFICES ASSUME NEW f \in Files, mover'[f] # Nobody
               PROVE  /\ calls'[mover'[f]].pc # "idle"
                      /\ plan[calls'[mover'[f]].batch].kind = "move"
                      /\ plan[calls'[mover'[f]].batch].needs \subseteq done'
  BY <1>1 DEF MoversAreReady, At, Batch, Kind, Kept
<1>3. CASE mover'[f] # mover[f]
  <2>1. mover'[f] = c /\ calls'[c].pc = "move"
    BY <1>2, <1>3, CallMovers
  <2>2. WorkersAreReady' /\ StepsAreOfKind'
    BY CallReady, CallNames
  <2> QED
    BY <1>1, <2>1, <2>2 DEF WorkersAreReady, StepsAreOfKind, Working, Batch, Kind, Kept
<1>4. CASE mover'[f] = mover[f] /\ mover[f] # c
  BY <1>1, <1>2, <1>4 DEF BatchInv, MoversAreReady, OnlyCall, BatchTypeOK, At, Batch, Kind, Kept
<1>5. CASE mover'[f] = c /\ mover[f] = c
  <2>1. Continued(c)
    BY <1>5, CallMovers
  <2>2. calls'[c].batch = calls[c].batch /\ calls'[c].pc # "idle"
    BY <2>1 DEF Continued, Ways
  <2> QED
    BY <1>1, <1>2, <1>5, <2>2 DEF BatchInv, MoversAreReady, At, Batch, Kind, Kept
<1> QED
  BY <1>3, <1>4, <1>5

LEMMA BatchStep == ASSUME BatchInv, [Next]_vars PROVE BatchInv'
<1>1. BatchTypeOK'
  BY TypesStep DEF BatchInv
<1>2. CASE UNCHANGED vars
  BY <1>2 DEF vars, runtime, sending, disk, history, BatchInv, BatchTypeOK, CallsAreNamed,
       StepsAreOfKind, CountFits, LoadedIsPending, StoredIsSettled, SettledIsNotPending, AppliedIsDone,
       WorkersAreReady, MoversAreReady, TagsAreReady, GuardIsHeld, At, Batch, Kind, Stale, FilesOf
<1>3. CASE Outside
  BY <1>1, <1>3, OutsideCalls, OutsideDisk, OutsideRows DEF BatchInv
<1>4. CASE Restart
  BY <1>1, <1>4, RestartInv
<1>5. ASSUME NEW c \in Callers, CallAction(c) PROVE BatchInv'
  BY <1>1, <1>5, CallNames, CallReady, CallFits, CallRows, CallTags, CallGuard, CallMoversReady DEF BatchInv
<1> QED
  BY <1>2, <1>3, <1>4, <1>5 DEF Next, Request, Application, Rejection, World, Outside, CallAction

LEMMA BatchInit == Init => BatchInv
<1> SUFFICES ASSUME Init PROVE BatchInv
  OBVIOUS
<1>1. \A c \in Callers : calls[c].pc = "idle"
  BY IdleIsCall DEF Init
<1>2. /\ request = "none" /\ loading = {} /\ mover = [f \in Files |-> Nobody]
      /\ rows = [b \in Batches |-> "absent"] /\ first = [b \in Batches |-> "absent"]
      /\ \A f \in Files : tags[f] = Original
  BY DEF Init, Untouched
<1> QED
  BY <1>1, <1>2, TypesInit, BatchesAssumption
     DEF BatchInv, CallsAreNamed, StepsAreOfKind, CountFits, LoadedIsPending, StoredIsSettled,
         SettledIsNotPending, AppliedIsDone, WorkersAreReady, MoversAreReady, TagsAreReady,
         GuardIsHeld, At, Working, Settled

LEMMA BatchInductive == Spec => []BatchInv
<1>1. BatchInv /\ [Next]_vars => BatchInv'
  BY BatchStep
<1> QED
  BY <1>1, BatchInit, PTL DEF Spec

\* Every variable keeps its type (state/assistant.rs, state/assistant_task.rs).
THEOREM BatchesTyped == Spec => []BatchTypeOK
<1>1. BatchInv => BatchTypeOK
  BY DEF BatchInv
<1> QED
  BY <1>1, BatchInductive, PTL

\* A plan's steps change files in its order, whatever is approved, reloaded,
\* overlapping or restarted (apply_action_batch_with_progress).
THEOREM StepsInOrder == Spec => []DependentsWait
<1>1. BatchInv => DependentsWait
  BY DEF BatchInv, DependentsWait, TagsAreReady, MoversAreReady, Batch
<1> QED
  BY <1>1, BatchInductive, PTL

\* A batch whose row is settled passes no status check again (finalize_batch,
\* initialize_with_task_state, assistant_reject_actions).
THEOREM SettledForGood == Spec => []SettledIsNotPending
<1>1. BatchInv => SettledIsNotPending
  BY DEF BatchInv
<1> QED
  BY <1>1, BatchInductive, PTL

\* A contracted batch overwrites nothing its preview did not show
\* (preflight_metadata_contract, apply_metadata_change_locked).
THEOREM OnlyPreviewedIsReplaced == Spec => PreviewIsFresh
<1> DEFINE Fresh(f) == tags'[f] # tags[f] /\ tags'[f] \in Batches /\ plan[tags'[f]].contract
                         => tags[f] = basis[tags'[f]][f]
<1>1. ASSUME BatchInv, [Next]_vars PROVE \A f \in Files : Fresh(f)
  <2>1. SUFFICES ASSUME NEW f \in Files, tags'[f] # tags[f], tags'[f] \in Batches, plan[tags'[f]].contract
                 PROVE  tags[f] = basis[tags'[f]][f]
    OBVIOUS
  <2>2. ASSUME NEW c \in Callers, CallAction(c) PROVE tags[f] = basis[tags'[f]][f]
    <3>1. calls[c].pc \in {"write", "strip"} /\ tags'[f] = Batch(c) /\ f \in FilesOf(Batch(c))
      BY <1>1, <2>1, <2>2, CallTags
    <3>2. ~At(c, "strip")
      BY <1>1, <2>1, <3>1, FileTypes DEF BatchInv, StepsAreOfKind, Kind, At
    <3> QED
      BY <1>1, <2>1, <3>1, <3>2 DEF BatchInv, GuardIsHeld, Stale, At
  <2>3. CASE UNCHANGED vars \/ Restart
    BY <2>1, <2>3 DEF vars, disk, Restart
  <2>4. CASE Outside
    <3>1. PICK g \in Files : Edit(g)
      BY <2>1, <2>4 DEF Outside, Send, Hydrate, AddPreview, Hydrated, SavePreview, EndRequest,
           Rejection, RejectRow, RejectEntry, Occupy, disk
    <3>2. tags'[f] = Edited
      BY <1>1, <2>1, <3>1 DEF Edit, BatchInv, BatchTypeOK
    <3> QED
      BY <2>1, <3>2, BatchesAssumption
  <2> QED
    BY <1>1, <2>2, <2>3, <2>4
       DEF Next, Request, Application, Rejection, World, Outside, CallAction
<1>2. BatchInv /\ [Next]_vars => [\A f \in Files : Fresh(f)]_vars
  BY <1>1
<1> QED
  BY <1>2, BatchInductive, PTL DEF Spec, PreviewIsFresh

----------------------------------------------------------------------------
(* The rollback of a batch of moves.                                       *)

\* How the names of one file change.
LEMMA Relocated ==
    ASSUME BatchTypeOK, NEW f \in Files, Relocate(f, "old", "new")
    PROVE  /\ names[f]["new"] = "free" /\ names'[f]["new"] # "free"
           /\ \A g \in Files \ {f} : names'[g] = names[g]
<1>1. names[f] \in [Sides -> {"file", "free", "other"}]
  BY DEF BatchTypeOK
<1>2. [[names[f] EXCEPT !["new"] = names[f]["old"]] EXCEPT !["old"] = "free"]["new"] = names[f]["old"]
  BY <1>1 DEF Sides
<1> QED
  BY <1>2 DEF Relocate, BatchTypeOK

LEMMA Returned ==
    ASSUME BatchTypeOK, NEW f \in Files, Relocate(f, "new", "old")
    PROVE  \A g \in Files \ {f} : names'[g] = names[g]
  BY DEF Relocate, BatchTypeOK

LEMMA NotRelocated ==
    ASSUME BatchTypeOK, NEW f \in Files, NEW from \in Sides, NEW to \in Sides,
           RelocateFails(f, from, to)
    PROVE  \A g \in Files : names[g]["new"] # "free" => names'[g]["new"] # "free"
<1> DEFINE linked == [names[f] EXCEPT ![to] = names[f][from]]
<1>1. \/ names' = names
      \/ names' = [names EXCEPT ![f] = linked] /\ names[f][from] # "free"
  BY DEF RelocateFails
<1>2. names[f][from] # "free" /\ names[f]["new"] # "free" => linked["new"] # "free"
  BY DEF BatchTypeOK, Sides
<1> HIDE DEF linked
<1> QED
  BY <1>1, <1>2 DEF BatchTypeOK

\* The next file of a move is one of its batch's, and so is the last one moved.
LEMMA MoveFiles ==
    ASSUME BatchInv, NEW c \in Callers, calls[c].pc \in {"move", "undo"}
    PROVE  /\ Batch(c) \in Batches /\ calls[c].n \in Nat
           /\ plan[Batch(c)].files \in Seq(Files) /\ Len(plan[Batch(c)].files) \in Nat
           /\ calls[c].n <= Len(plan[Batch(c)].files)
           /\ Left(c) => NextFile(c) \in Files
           /\ calls[c].n > 0 => LastFile(c) \in Files /\ LastFile(c) \in Counted(c)
<1>1. BatchTypeOK /\ Batch(c) \in Batches /\ calls[c].n <= Len(plan[Batch(c)].files)
  BY DEF BatchInv, CallsAreNamed, CountFits, At
<1>2. calls[c].n \in Nat /\ plan[Batch(c)].files \in Seq(Files) /\ Len(plan[Batch(c)].files) \in Nat
  BY <1>1, FileTypes, CallTypes
<1> QED
  BY <1>1, <1>2 DEF Left, NextFile, LastFile, Counted

LEMMA MoverStep ==
    ASSUME BatchInv, MoveInv, NEW c \in Callers, CallAction(c)
    PROVE  /\ MovedStandsThere'
           /\ \A d \in Callers \ {c} : MovesOf(d)' = MovesOf(d)
<1> USE DEF At
<1>1. BatchTypeOK /\ MovedStandsThere /\ MovesAreRight(c)
  BY DEF BatchInv, MoveInv
<1>2. CASE Move(c) /\ Relocate(NextFile(c), "old", "new") /\ mover' = [mover EXCEPT ![NextFile(c)] = c]
  <2>1. NextFile(c) \in Files
    BY <1>2, MoveFiles DEF Move
  <2>2. mover[NextFile(c)] = Nobody
    BY <1>1, <1>2, <2>1, Relocated DEF MovedStandsThere
  <2> QED
    BY <1>1, <1>2, <2>1, <2>2, Relocated, BatchesAssumption DEF MovedStandsThere, MovesOf, BatchTypeOK
<1>3. CASE Move(c) /\ RelocateFails(NextFile(c), "old", "new") /\ mover' = mover
  <2>1. NextFile(c) \in Files
    BY <1>3, MoveFiles DEF Move
  <2> QED
    BY <1>1, <1>3, <2>1, NotRelocated DEF MovedStandsThere, MovesOf, Sides
<1>4. CASE UndoMove(c)
  <2>1. LastFile(c) \in Files /\ LastFile(c) \in Counted(c)
    BY <1>4, MoveFiles DEF UndoMove
  <2>2. mover[LastFile(c)] = c
    BY <1>1, <1>4, <2>1 DEF MovesAreRight, MovesAreCounted, MovesOf, UndoMove
  <2>3. CASE Relocate(LastFile(c), "new", "old") /\ mover' = [mover EXCEPT ![LastFile(c)] = Nobody]
    BY <1>1, <2>1, <2>2, <2>3, Returned, BatchesAssumption DEF MovedStandsThere, MovesOf, BatchTypeOK
  <2>4. CASE RelocateFails(LastFile(c), "new", "old") /\ mover' = mover
    BY <1>1, <2>1, <2>4, NotRelocated DEF MovedStandsThere, MovesOf, Sides
  <2> QED
    BY <1>4, <2>3, <2>4 DEF UndoMove
<1>5. CASE UNCHANGED <<names, mover>>
  BY <1>1, <1>5 DEF MovedStandsThere, MovesOf
<1>6. CASE names' = names /\ Forget(c)
  BY <1>1, <1>6, BatchesAssumption DEF MovedStandsThere, MovesOf, Forget, BatchTypeOK
<1>7. ~Move(c) /\ ~UndoMove(c) => names' = names /\ (mover' = mover \/ Forget(c))
  BY DEF CallAction, CallStep, Apply, Preflight, Write, Verify, Strip, Stripped, CheckMoves,
     Moved, Undone, Reread, Store, CompleteTask, LoseTask, disk, history
<1> QED
  BY <1>2, <1>3, <1>4, <1>5, <1>6, <1>7 DEF Move

LEMMA OthersRight ==
    ASSUME BatchInv, MoveInv, NEW c \in Callers, CallAction(c), NEW d \in Callers \ {c}
    PROVE  MovesAreRight(d)'
<1>1. MovesOf(d)' = MovesOf(d) /\ calls'[d] = calls[d] /\ plan' = plan
  BY MoverStep, CallMoves, CallKept DEF BatchInv, CallAction, OnlyCall, Kept
<1>2. /\ MovesAreRight(d) /\ Counted(d)' = Counted(d) /\ Batch(d)' = Batch(d)
      /\ (At(d, "move") <=> At(d, "move")') /\ (At(d, "check") <=> At(d, "check")')
  BY <1>1 DEF MoveInv, Counted, Batch, At
<1>3. FilesOf(Batch(d))' = FilesOf(Batch(d))
  BY <1>1, <1>2 DEF FilesOf
<1>4. MovesAreCounted(d)' <=> MovesAreCounted(d)
  BY <1>1, <1>2 DEF MovesAreCounted
<1> QED
  BY <1>1, <1>2, <1>3, <1>4 DEF MovesAreRight

\* A move: the file was not the call's yet, so it is none of those counted.
LEMMA MoveRight ==
    ASSUME BatchInv, MoveInv, NEW c \in Callers, Move(c)
    PROVE  MovesAreRight(c)'
<1> USE DEF At
<1> DEFINE F == plan[Batch(c)].files
           n == calls[c].n
<1>1. BatchTypeOK /\ MovesAreCounted(c) /\ calls[c].stuck = {} /\ plan' = plan /\ At(c, "move")
  BY DEF BatchInv, MoveInv, MovesAreRight, MovesAreCounted, Move, others
<1>2. n \in Nat /\ NextFile(c) \in Files /\ NextFile(c) = F[n + 1]
  BY <1>1, MoveFiles DEF Move, NextFile
<1>3. CASE Relocate(NextFile(c), "old", "new") /\ Count(c, n + 1) /\ mover' = [mover EXCEPT ![NextFile(c)] = c]
  <2>1. /\ calls'[c].pc = "move" /\ calls'[c].batch = calls[c].batch
        /\ calls'[c].n = n + 1 /\ calls'[c].stuck = {}
    BY <1>1, <1>2, <1>3, CountEffect
  <2>2. mover[NextFile(c)] = Nobody
    BY <1>1, <1>2, <1>3, Relocated DEF MoveInv, MovedStandsThere
  <2>3. NextFile(c) \notin Counted(c)
    BY <1>1, <2>2, BatchesAssumption DEF MovesAreCounted, MovesOf
  <2>4. MovesOf(c)' = MovesOf(c) \cup {NextFile(c)}
    BY <1>1, <1>2, <1>3 DEF MovesOf, BatchTypeOK
  <2>5. 1 .. n + 1 = (1 .. n) \cup {n + 1}
    BY <1>2
  <2>6. Counted(c)' = Counted(c) \cup {NextFile(c)}
    BY <1>1, <1>2, <2>1, <2>5 DEF Counted, Batch
  <2>7. ASSUME NEW i \in 1 .. n + 1, NEW j \in 1 .. n + 1, i < j PROVE F[i] # F[j]
    <3>1. CASE j = n + 1
      <4>1. i \in 1 .. n
        BY <1>2, <2>7, <3>1
      <4> QED
        BY <1>2, <2>3, <3>1, <4>1 DEF Counted
    <3>2. CASE j # n + 1
      <4>1. i \in 1 .. n /\ j \in 1 .. n
        BY <1>2, <2>7, <3>2
      <4> QED
        BY <1>1, <2>7, <4>1 DEF MovesAreCounted
    <3> QED
      BY <3>1, <3>2
  <2>8. MovesAreCounted(c)'
    BY <1>1, <2>1, <2>4, <2>6, <2>7 DEF MovesAreCounted, Batch
  <2> QED
    BY <2>1, <2>8 DEF MovesAreRight
<1>4. CASE Go(c, "undo") /\ mover' = mover
  <2>1. /\ calls'[c].pc = "undo" /\ calls'[c].batch = calls[c].batch
        /\ calls'[c].n = n /\ calls'[c].stuck = calls[c].stuck
    BY <1>1, <1>4, GoEffect DEF SameWork, Working
  <2>2. MovesAreCounted(c)'
    BY <1>1, <1>4, <2>1 DEF MovesAreCounted, MovesOf, Counted, Batch
  <2> QED
    BY <2>1, <2>2 DEF MovesAreRight
<1> QED
  BY <1>3, <1>4 DEF Move

\* Its return: the last file counted, no other of those counted.
LEMMA UndoRight ==
    ASSUME BatchInv, MoveInv, NEW c \in Callers, UndoMove(c)
    PROVE  MovesAreRight(c)'
<1> USE DEF At
<1> DEFINE F == plan[Batch(c)].files
           n == calls[c].n
           last == LastFile(c)
<1>1. BatchTypeOK /\ MovesAreCounted(c) /\ plan' = plan /\ At(c, "undo") /\ n > 0
  BY DEF BatchInv, MoveInv, MovesAreRight, UndoMove, others
<1>2. n \in Nat /\ n - 1 \in Nat /\ last \in Files /\ last = F[n]
  BY <1>1, MoveFiles DEF LastFile
<1>3. 1 .. n = (1 .. n - 1) \cup {n}
  BY <1>1, <1>2
<1>4. ASSUME calls'[c].batch = calls[c].batch, calls'[c].n = n - 1
      PROVE  Counted(c)' = Counted(c) \ {last}
  <2>1. Counted(c)' = {F[i] : i \in 1 .. n - 1}
    BY <1>1, <1>4 DEF Counted, Batch
  <2>2. Counted(c) = {F[i] : i \in 1 .. n - 1} \cup {last}
    BY <1>2, <1>3 DEF Counted
  <2>3. \A i \in 1 .. n - 1 : F[i] # last
    <3>1. \A i \in 1 .. n - 1 : i \in 1 .. n /\ n \in 1 .. n /\ i < n
      BY <1>1, <1>2
    <3> QED
      BY <1>1, <1>2, <3>1 DEF MovesAreCounted
  <2> QED
    BY <2>1, <2>2, <2>3
<1>5. ASSUME calls'[c].batch = calls[c].batch, calls'[c].n = n - 1
      PROVE  \A i, j \in 1 .. calls'[c].n : i < j => plan'[Batch(c)'].files[i] # plan'[Batch(c)'].files[j]
  BY <1>1, <1>2, <1>3, <1>5 DEF MovesAreCounted, Batch
<1>6. CASE Count(c, n - 1) /\ mover' = [mover EXCEPT ![last] = Nobody]
  <2>1. /\ calls'[c].pc = "undo" /\ calls'[c].batch = calls[c].batch
        /\ calls'[c].n = n - 1 /\ calls'[c].stuck = calls[c].stuck
    BY <1>1, <1>2, <1>6, CountEffect
  <2>2. MovesOf(c)' = MovesOf(c) \ {last}
    BY <1>1, <1>2, <1>6, BatchesAssumption DEF MovesOf, BatchTypeOK
  <2>3. MovesAreCounted(c)'
    BY <1>1, <1>4, <1>5, <2>1, <2>2 DEF MovesAreCounted
  <2> QED
    BY <2>1, <2>3 DEF MovesAreRight
<1>7. CASE /\ calls' = [calls EXCEPT ![c].n = @ - 1, ![c].stuck = @ \cup {last}]
           /\ mover' = mover
  <2>1. /\ calls'[c].pc = "undo" /\ calls'[c].batch = calls[c].batch
        /\ calls'[c].n = n - 1 /\ calls'[c].stuck = calls[c].stuck \cup {last}
    BY <1>1, <1>2, <1>7, StuckEffect
  <2>2. MovesOf(c)' = MovesOf(c)
    BY <1>7 DEF MovesOf
  <2>3. MovesAreCounted(c)'
    BY <1>1, <1>4, <1>5, <2>1, <2>2 DEF MovesAreCounted
  <2> QED
    BY <2>1, <2>3 DEF MovesAreRight
<1> QED
  BY <1>6, <1>7 DEF UndoMove

LEMMA OtherStepRight ==
    ASSUME BatchInv, MoveInv, NEW c \in Callers, CallAction(c), ~Move(c), ~UndoMove(c)
    PROVE  MovesAreRight(c)'
<1> USE DEF At
<1>1. BatchTypeOK /\ MovesAreRight(c) /\ plan' = plan /\ OnlyCall(c)
  BY CallMoves, CallKept DEF BatchInv, MoveInv, CallAction, Kept
<1>2. CASE CheckMoves(c)
  <2>1. /\ MovesOf(c) = {} /\ calls[c].n = 0 /\ calls[c].stuck = {} /\ mover' = mover
        /\ Batch(c) \in Batches
    BY <1>1, <1>2 DEF CheckMoves, MovesAreRight, BatchInv, CallsAreNamed
  <2>2. MovesOf(c)' = {}
    BY <2>1 DEF MovesOf
  <2>3. CASE Go(c, "move")
    <3>1. calls'[c].pc = "move" /\ calls'[c].n = 0 /\ calls'[c].stuck = {}
      BY <1>1, <2>1, <2>3, GoEffect DEF SameWork, Working
    <3>2. MovesAreCounted(c)'
      BY <2>2, <3>1 DEF MovesAreCounted, Counted
    <3> QED
      BY <3>1, <3>2 DEF MovesAreRight
  <2>4. CASE Finish(c, "failed")
    BY <1>1, <2>1, <2>2, <2>4, FinishEffect DEF MovesAreRight
  <2> QED
    BY <1>2, <2>3, <2>4 DEF CheckMoves
<1>3. CASE Moved(c)
  <2>1. /\ Batch(c) \in Batches /\ At(c, "move") /\ ~Left(c) /\ Finish(c, "applied") /\ mover' = mover
        /\ MovesAreCounted(c) /\ calls[c].stuck = {}
    BY <1>1, <1>3 DEF Moved, MovesAreRight, MovesAreCounted, BatchInv, CallsAreNamed
  <2>2. calls[c].n = Len(plan[Batch(c)].files)
    BY <2>1, MoveFiles DEF Left
  <2>3. Counted(c) = FilesOf(Batch(c)) /\ MovesOf(c) = Counted(c)
    BY <1>1, <2>1, <2>2, FileTypes DEF Counted, MovesAreCounted
  <2>4. calls'[c].pc = "reread" /\ calls'[c].batch = calls[c].batch
    BY <1>1, <2>1, FinishEffect DEF SameWork
  <2>5. MovesOf(c)' = FilesOf(Batch(c))'
    BY <1>1, <2>1, <2>3, <2>4 DEF MovesOf, FilesOf, Batch
  <2> QED
    BY <2>4, <2>5 DEF MovesAreRight
<1>4. CASE Undone(c)
  <2>1. /\ Batch(c) \in Batches /\ calls[c].n = 0 /\ Finish(c, "failed") /\ mover' = mover
        /\ MovesAreCounted(c)
    BY <1>1, <1>4 DEF Undone, MovesAreRight, BatchInv, CallsAreNamed
  <2>2. MovesOf(c) \subseteq calls[c].stuck
    BY <2>1 DEF MovesAreCounted, Counted
  <2>3. calls'[c].pc = "reread" /\ calls'[c].stuck = calls[c].stuck
    BY <1>1, <2>1, FinishEffect DEF SameWork
  <2> QED
    BY <2>1, <2>2, <2>3 DEF MovesAreRight, MovesOf
<1>5. CASE Reread(c) \/ Store(c)
  <2>1. CASE Forget(c)
    <3>1. MovesOf(c)' = {}
      BY <1>1, <2>1, BatchesAssumption DEF MovesOf, Forget
    <3>2. calls'[c].pc \notin {"move", "undo", "check"}
      BY <1>5, CallMoves DEF Started, Continued, Ways, Reread, Store
    <3> QED
      BY <3>1, <3>2 DEF MovesAreRight
  <2>2. CASE ~Forget(c)
    <3>1. /\ At(c, "reread") /\ mover' = mover /\ first[Batch(c)] \in {"applied", "failed"}
          /\ calls' = [calls EXCEPT ![c].pc = "store", ![c].status = first[Batch(c)]]
      BY <1>5, <2>2 DEF Reread, Store
    <3>2. calls'[c].pc = "store" /\ calls'[c].batch = calls[c].batch /\ calls'[c].stuck = calls[c].stuck
      BY <1>1, <3>1, ToStoreEffect DEF SameWork
    <3> QED
      BY <1>1, <3>1, <3>2 DEF MovesAreRight, MovesOf, FilesOf, Batch
  <2> QED
    BY <2>1, <2>2
<1>6. CASE \/ (\E b \in Batches : Apply(c, b)) \/ CompleteTask(c) \/ LoseTask(c)
           \/ Preflight(c) \/ Write(c) \/ Verify(c) \/ Strip(c) \/ Stripped(c)
  <2>1. mover' = mover /\ calls[c].pc \in {"idle", "task", "queued", "write", "verify", "strip"}
    BY <1>6 DEF Apply, CompleteTask, LoseTask, Preflight, Write, Verify, Strip, Stripped, history
  <2>2. MovesOf(c)' = {}
    BY <1>1, <2>1 DEF MovesAreRight, MovesOf
  <2>3. calls'[c].pc \notin {"move", "undo"}
    BY <2>1, CallMoves DEF Started, Continued, Ways
  <2>4. calls'[c].pc = "check" => calls'[c].n = 0 /\ calls'[c].stuck = {}
    BY <2>1, CallMoves DEF Started, Continued, Ways
  <2> QED
    BY <2>2, <2>3, <2>4 DEF MovesAreRight
<1> QED
  BY <1>2, <1>3, <1>4, <1>5, <1>6 DEF CallAction, CallStep

LEMMA MoveStep == ASSUME BatchInv, MoveInv, [Next]_vars PROVE MoveInv'
<1>1. ASSUME NEW c \in Callers, CallAction(c) PROVE MoveInv'
  BY <1>1, MoverStep, OthersRight, MoveRight, UndoRight, OtherStepRight DEF MoveInv
<1>2. CASE UNCHANGED vars \/ Outside
  <2>1. UNCHANGED <<calls, mover, plan>>
    BY <1>2, OutsideKept DEF vars, history, BatchInv, Kept
  <2>2. ASSUME NEW f \in Files, names[f]["new"] # "free" PROVE names'[f]["new"] # "free"
    <3>1. CASE names' = names
      BY <2>2, <3>1
    <3>2. ASSUME NEW g \in Files, NEW side \in Sides, Occupy(g, side) PROVE names'[f]["new"] # "free"
      <4>1. /\ names[f] \in [Sides -> {"file", "free", "other"}]
            /\ names' = [names EXCEPT ![g] = [names[g] EXCEPT ![side] = "other"]]
            /\ names \in [Files -> [Sides -> {"file", "free", "other"}]]
        BY <3>2 DEF Occupy, BatchInv, BatchTypeOK
      <4>2. [names[g] EXCEPT ![side] = "other"]["new"] \in {"other", names[g]["new"]}
        BY <4>1 DEF Sides
      <4> QED
        BY <2>2, <4>1, <4>2
    <3> QED
      BY <1>2, <3>1, <3>2
      DEF Outside, Send, Hydrate, AddPreview, Hydrated, SavePreview, EndRequest, Rejection,
          RejectRow, RejectEntry, Edit, disk, vars
  <2>3. MovedStandsThere'
    BY <2>1, <2>2 DEF MoveInv, MovedStandsThere
  <2>4. ASSUME NEW c \in Callers PROVE MovesAreRight(c)'
    BY <2>1 DEF MoveInv, MovesAreRight, MovesAreCounted, MovesOf, Counted, Batch, FilesOf, At
  <2> QED
    BY <2>3, <2>4 DEF MoveInv
<1>3. CASE Restart
  <2>1. mover' = [f \in Files |-> Nobody] /\ \A c \in Callers : calls'[c].pc = "idle"
    BY <1>3, IdleIsCall DEF Restart
  <2> QED
    BY <2>1, BatchesAssumption DEF MoveInv, MovedStandsThere, MovesAreRight, MovesOf, At
<1> QED
  BY <1>1, <1>2, <1>3 DEF Next, Request, Application, Rejection, World, Outside, CallAction

LEMMA MoveInit == Init => MoveInv
<1>1. Init => mover = [f \in Files |-> Nobody] /\ \A c \in Callers : calls[c].pc = "idle"
  BY IdleIsCall DEF Init
<1> QED
  BY <1>1, BatchesAssumption DEF MoveInv, MovedStandsThere, MovesAreRight, MovesOf, At

\* Moves are all made or, but for those that could not be undone, none
\* (apply_folder_moves).
THEOREM MovesAreWhole == Spec => []FailedMoveIsUndone
<1>1. BatchInv /\ MoveInv /\ [Next]_vars => MoveInv'
  BY MoveStep
<1>2. MoveInv => FailedMoveIsUndone
  BY DEF MoveInv, MovesAreRight, FailedMoveIsUndone, MovesOf, Batch
<1> QED
  BY <1>1, <1>2, MoveInit, BatchInductive, PTL DEF Spec

----------------------------------------------------------------------------
(* What an applied batch says of the disk.                                 *)

\* A file whose new name is free is still under its old one, and what a call has
\* moved stands, as the file itself, under its new name.
NamesTell ==
    \A f \in Files :
        /\ names[f]["new"] = "free" => names[f]["old"] = "file"
        /\ mover[f] # Nobody => names[f]["new"] = "file"

\* The names of one file after a relocation or its failure.
LEMMA NamesMoved ==
    ASSUME BatchTypeOK, NEW f \in Files,
           Relocate(f, "old", "new") \/ RelocateFails(f, "old", "new")
    PROVE  /\ \A g \in Files \ {f} : names'[g] = names[g]
           /\ \/ names'[f] = names[f] /\ ~Relocate(f, "old", "new")
              \/ names[f]["new"] = "free" /\ names'[f]["new"] = names[f]["old"]
                 /\ names[f]["old"] # "free"
<1> DEFINE linked == [names[f] EXCEPT !["new"] = names[f]["old"]]
<1>1. names[f] \in [Sides -> {"file", "free", "other"}] /\ "new" \in Sides /\ "old" \in Sides
  BY DEF BatchTypeOK, Sides
<1>2. linked["new"] = names[f]["old"] /\ [linked EXCEPT !["old"] = "free"]["new"] = names[f]["old"]
  BY <1>1
<1> HIDE DEF linked
<1>3. CASE Relocate(f, "old", "new")
  BY <1>2, <1>3 DEF Relocate, BatchTypeOK, linked
<1>4. CASE ~Relocate(f, "old", "new") /\ RelocateFails(f, "old", "new")
  <2>1. names' = names \/ (names' = [names EXCEPT ![f] = linked] /\ names[f]["new"] = "free"
                           /\ names[f]["old"] # "free")
    BY <1>4 DEF RelocateFails, linked
  <2> QED
    BY <1>2, <1>4, <2>1 DEF BatchTypeOK
<1> QED
  BY <1>3, <1>4

LEMMA NamesUndone ==
    ASSUME BatchTypeOK, NEW f \in Files,
           Relocate(f, "new", "old") \/ RelocateFails(f, "new", "old")
    PROVE  /\ \A g \in Files \ {f} : names'[g] = names[g]
           /\ Relocate(f, "new", "old") => names'[f]["old"] = names[f]["new"]
           /\ RelocateFails(f, "new", "old") => names'[f]["new"] = names[f]["new"]
<1> DEFINE linked == [names[f] EXCEPT !["old"] = names[f]["new"]]
<1>1. names[f] \in [Sides -> {"file", "free", "other"}] /\ "new" \in Sides /\ "old" \in Sides
  BY DEF BatchTypeOK, Sides
<1>2. linked["new"] = names[f]["new"]
  BY <1>1
<1>3. [[names[f] EXCEPT !["old"] = names[f]["new"]] EXCEPT !["new"] = "free"]["old"] = names[f]["new"]
  BY <1>1
<1> HIDE DEF linked
<1>4. ASSUME Relocate(f, "new", "old")
      PROVE  /\ \A g \in Files \ {f} : names'[g] = names[g]
             /\ names'[f]["old"] = names[f]["new"]
  BY <1>3, <1>4 DEF Relocate, BatchTypeOK
<1>5. ASSUME RelocateFails(f, "new", "old")
      PROVE  /\ \A g \in Files \ {f} : names'[g] = names[g]
             /\ names'[f]["new"] = names[f]["new"]
  <2>1. names' = names \/ names' = [names EXCEPT ![f] = linked]
    BY <1>5 DEF RelocateFails, linked
  <2> QED
    BY <1>2, <2>1 DEF BatchTypeOK
<1> QED
  BY <1>4, <1>5

\* A call's step keeps the names: it moves what stands under its old name, and takes
\* back what it moved.
LEMMA CallNamesTell ==
    ASSUME BatchInv, MoveInv, NamesTell, NEW c \in Callers, CallAction(c)
    PROVE  NamesTell'
<1> USE DEF At
<1>1. BatchTypeOK /\ MovesAreRight(c)
  BY DEF BatchInv, MoveInv
<1>2. CASE Move(c)
  <2>1. NextFile(c) \in Files
    BY <1>2, MoveFiles DEF Move
  <2>2. \/ Relocate(NextFile(c), "old", "new") /\ mover' = [mover EXCEPT ![NextFile(c)] = c]
        \/ RelocateFails(NextFile(c), "old", "new") /\ mover' = mover
    BY <1>2 DEF Move
  <2> DEFINE f == NextFile(c)
  <2>3. ASSUME NEW g \in Files, g # f PROVE names'[g] = names[g] /\ mover'[g] = mover[g]
    BY <1>1, <2>1, <2>2, <2>3, NamesMoved DEF BatchTypeOK
  <2>4. \/ names'[f] = names[f] /\ mover'[f] = mover[f]
        \/ names[f]["new"] = "free" /\ names'[f]["new"] = names[f]["old"]
    BY <1>1, <2>1, <2>2, NamesMoved DEF BatchTypeOK
  <2>5. names[f]["new"] = "free" => names[f]["old"] = "file"
    BY <2>1 DEF NamesTell
  <2> HIDE DEF f
  <2>6. ASSUME NEW g \in Files
        PROVE  /\ names'[g]["new"] = "free" => names'[g]["old"] = "file"
               /\ mover'[g] # Nobody => names'[g]["new"] = "file"
    BY <2>3, <2>4, <2>5 DEF NamesTell
  <2> QED
    BY <2>6 DEF NamesTell
<1>3. CASE UndoMove(c)
  <2>1. LastFile(c) \in Files /\ LastFile(c) \in Counted(c)
    BY <1>3, MoveFiles DEF UndoMove
  <2>2. mover[LastFile(c)] = c
    BY <1>1, <1>3, <2>1 DEF MovesAreRight, MovesAreCounted, MovesOf, UndoMove
  <2>3. \/ Relocate(LastFile(c), "new", "old") /\ mover' = [mover EXCEPT ![LastFile(c)] = Nobody]
        \/ RelocateFails(LastFile(c), "new", "old") /\ mover' = mover
    BY <1>3 DEF UndoMove
  <2> DEFINE f == LastFile(c)
  <2>4. ASSUME NEW g \in Files, g # f PROVE names'[g] = names[g] /\ mover'[g] = mover[g]
    BY <1>1, <2>1, <2>3, <2>4, NamesUndone DEF BatchTypeOK
  <2>5. names[f]["new"] = "file"
    BY <2>1, <2>2, BatchesAssumption DEF NamesTell
  <2>6. \/ names'[f]["new"] = "file"
        \/ names'[f]["old"] = "file" /\ mover'[f] = Nobody
    BY <1>1, <2>1, <2>3, <2>5, NamesUndone DEF BatchTypeOK
  <2> HIDE DEF f
  <2>7. ASSUME NEW g \in Files
        PROVE  /\ names'[g]["new"] = "free" => names'[g]["old"] = "file"
               /\ mover'[g] # Nobody => names'[g]["new"] = "file"
    BY <2>4, <2>6 DEF NamesTell
  <2> QED
    BY <2>7 DEF NamesTell
<1>4. CASE UNCHANGED <<names, mover>>
  BY <1>4 DEF NamesTell
<1>5. CASE names' = names /\ Forget(c)
  BY <1>1, <1>5 DEF NamesTell, Forget, BatchTypeOK
<1>6. ~Move(c) /\ ~UndoMove(c) => names' = names /\ (mover' = mover \/ Forget(c))
  BY DEF CallAction, CallStep, Apply, Preflight, Write, Verify, Strip, Stripped, CheckMoves,
     Moved, Undone, Reread, Store, CompleteTask, LoseTask, disk, history
<1> QED
  BY <1>2, <1>3, <1>4, <1>5, <1>6

LEMMA NamesStep == ASSUME BatchInv, MoveInv, NamesTell, [Next]_vars PROVE NamesTell'
<1>1. ASSUME NEW c \in Callers, CallAction(c) PROVE NamesTell'
  BY <1>1, CallNamesTell
<1>2. CASE UNCHANGED vars \/ Outside
  <2>1. UNCHANGED mover
    BY <1>2, OutsideKept DEF vars, history, BatchInv
  <2>2. CASE names' = names
    BY <2>1, <2>2 DEF NamesTell
  <2>3. ASSUME NEW g \in Files, NEW side \in Sides, Occupy(g, side) PROVE NamesTell'
    <3>1. /\ names[g] \in [Sides -> {"file", "free", "other"}] /\ names[g][side] = "free"
          /\ names' = [names EXCEPT ![g] = [names[g] EXCEPT ![side] = "other"]]
          /\ names \in [Files -> [Sides -> {"file", "free", "other"}]]
      BY <2>3 DEF Occupy, BatchInv, BatchTypeOK
    <3>2. \/ side = "old" /\ names[g]["new"] # "free"
             /\ [names[g] EXCEPT ![side] = "other"]["new"] = names[g]["new"]
          \/ side = "new" /\ mover[g] = Nobody
             /\ [names[g] EXCEPT ![side] = "other"]["new"] = "other"
      BY <3>1 DEF Sides, NamesTell
    <3>3. \A f \in Files : names'[f] = names[f] \/ f = g
      BY <3>1
    <3>4. names'[g] = [names[g] EXCEPT ![side] = "other"]
      BY <3>1
    <3>5. ASSUME NEW f \in Files
          PROVE  /\ names'[f]["new"] = "free" => names'[f]["old"] = "file"
                 /\ mover[f] # Nobody => names'[f]["new"] = "file"
      BY <3>2, <3>3, <3>4 DEF NamesTell
    <3> QED
      BY <2>1, <3>5 DEF NamesTell
  <2> QED
    BY <1>2, <2>2, <2>3
    DEF Outside, Send, Hydrate, AddPreview, Hydrated, SavePreview, EndRequest, Rejection,
        RejectRow, RejectEntry, Edit, disk, vars
<1>3. CASE Restart
  BY <1>3 DEF Restart, NamesTell, disk
<1> QED
  BY <1>1, <1>2, <1>3 DEF Next, Request, Application, Rejection, World, Outside, CallAction

LEMMA NamesInit == Init => NamesTell
<1>1. "old" \in Sides /\ "new" \in Sides /\ "new" # "old"
  BY DEF Sides
<1> QED
  BY <1>1 DEF Init, NamesTell

LEMMA NamesInductive == Spec => [](BatchInv /\ MoveInv /\ NamesTell)
<1>1. BatchInv /\ MoveInv /\ [Next]_vars => MoveInv'
  BY MoveStep
<1>2. BatchInv /\ MoveInv /\ NamesTell /\ [Next]_vars => NamesTell'
  BY NamesStep
<1> QED
  BY <1>1, <1>2, MoveInit, NamesInit, BatchInductive, PTL DEF Spec

\* A batch is applied only when every file of it is as it says, retagged or under its
\* new name, at that moment (finish_metadata_apply, apply_folder_moves).
THEOREM AppliedIsTrue == Spec => AppliedIsOnDisk
<1> DEFINE True(b) == first[b] # "applied" /\ first'[b] = "applied" =>
                        /\ Kind(b) = "metadata" => \A f \in FilesOf(b) : tags'[f] = b
                        /\ Kind(b) = "move" => \A f \in FilesOf(b) : names'[f]["new"] = "file"
<1>1. ASSUME BatchInv, MoveInv, NamesTell, [Next]_vars, NEW b \in Batches PROVE True(b)
  <2> SUFFICES ASSUME first[b] # "applied", first'[b] = "applied"
               PROVE  /\ Kind(b) = "metadata" => \A f \in FilesOf(b) : tags'[f] = b
                      /\ Kind(b) = "move" => \A f \in FilesOf(b) : names'[f]["new"] = "file"
    OBVIOUS
  <2>0. BatchTypeOK /\ CallsAreNamed /\ StepsAreOfKind
    BY <1>1 DEF BatchInv
  <2>1. ASSUME NEW c \in Callers, CallAction(c)
        PROVE  /\ Kind(b) = "metadata" => \A f \in FilesOf(b) : tags'[f] = b
               /\ Kind(b) = "move" => \A f \in FilesOf(b) : names'[f]["new"] = "file"
    <3>1. b = Batch(c)
      BY <2>0, <2>1, CallOutcome DEF Outcome, CallAction
    <3>2. Verify(c) \/ Stripped(c) \/ Moved(c) \/ CompleteTask(c)
      <4>1. ~UNCHANGED <<first, done>>
        OBVIOUS
      <4>2. ASSUME Finish(c, "failed") PROVE FALSE
        BY <2>0, <3>1, <4>2 DEF Finish, BatchTypeOK
      <4>3. ~Store(c)
        BY <2>0, <3>1 DEF Store, BatchTypeOK
      <4> QED
        BY <2>1, <4>1, <4>2, <4>3 DEF CallAction, CallStep, Apply, LoseTask, Preflight, Write, Strip,
           CheckMoves, Move, UndoMove, Undone, Reread, Go, Count, runtime, history
    <3>3. CASE Verify(c)
      <4>1. Kind(b) = "metadata"
        BY <2>0, <3>1, <3>3 DEF StepsAreOfKind, Verify, At
      <4>2. tags' = tags /\ \A f \in FilesOf(b) : tags[f] = b
        BY <2>0, <3>1, <3>3 DEF Verify, Finish, disk, BatchTypeOK
      <4> QED
        BY <4>1, <4>2
    <3>4. CASE Stripped(c) \/ CompleteTask(c)
      BY <2>0, <3>1, <3>4 DEF StepsAreOfKind, Stripped, CompleteTask, At
    <3>5. CASE Moved(c)
      <4>1. Kind(b) = "move" /\ names' = names
        BY <2>0, <3>1, <3>5 DEF StepsAreOfKind, Moved, At, disk
      <4>2. MovesAreCounted(c) /\ calls[c].n = Len(plan[b].files)
        BY <1>1, <3>1, <3>5, MoveFiles DEF Moved, Left, MoveInv, MovesAreRight, At
      <4>3. FilesOf(b) = Counted(c)
        BY <2>0, <3>1, <4>2, FileTypes DEF Counted
      <4>4. ASSUME NEW f \in FilesOf(b) PROVE f \in Files /\ mover[f] = c
        BY <4>2, <4>3, <4>4 DEF MovesAreCounted, MovesOf
      <4>5. \A f \in FilesOf(b) : names[f]["new"] = "file"
        BY <1>1, <4>4, BatchesAssumption DEF NamesTell
      <4> QED
        BY <4>1, <4>5
    <3> QED
      BY <3>2, <3>3, <3>4, <3>5
  <2>2. CASE UNCHANGED vars \/ Outside \/ Restart
    BY <1>1, <2>2, OutsideKept DEF vars, runtime, Restart, BatchInv
  <2> QED
    BY <1>1, <2>1, <2>2 DEF Next, Request, Application, Rejection, World, Outside, CallAction
<1>2. BatchInv /\ MoveInv /\ NamesTell /\ [Next]_vars => [\A b \in Batches : True(b)]_vars
  BY <1>1
<1> QED
  BY <1>2, NamesInductive, PTL DEF Spec, AppliedIsOnDisk
=============================================================================
