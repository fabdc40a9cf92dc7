---------------------------- MODULE WorkerStore ----------------------------
(***************************************************************************)
(* The durable worker queue of Soundrobe (src-tauri/src/state/worker.rs):  *)
(* the tables of worker.db, the halt marker worker.halted.json, and the    *)
(* copy of that marker each process keeps in memory.  Every action below   *)
(* is one call of WorkerStore; the calls hold the connection mutex and,    *)
(* where the code opens a transaction, commit or roll back as one step.    *)
(*                                                                         *)
(* A call that returns an error and changes nothing is no step here; the   *)
(* modules that compose the store decide what its callers do about it.     *)
(*                                                                         *)
(* Abstractions: a path is an element of Albums, a run or task id an       *)
(* element of Runs; the columns trigger, reason, authority and updated_at  *)
(* are left out (nothing in the scheduler branches on them); a retry       *)
(* deadline is the Boolean "has it passed"; an evidence document is the    *)
(* set of its keys that the store itself looks at.  worker_ai_circuits is  *)
(* a set of runs nothing else in the store reads: AutoTagService keeps it.  *)
(***************************************************************************)
EXTENDS Naturals, FiniteSets

CONSTANTS Albums, Runs, Pids,
          Calls,                     \* groups of calls StoreNext makes: "review", "proof"
          MaxAttempts,               \* deferred attempts before review (3 in the code)
          NoRun, NoPid, NoOwner, NoHalt

Runtimes == {"server", "desktop"}    \* the two prefixes of an owner
Owners == [runtime : Runtimes, pid : Pids]

ASSUME StoreAssumption ==
    /\ MaxAttempts \in Nat \ {0}
    /\ NoRun \notin Runs
    /\ NoPid \notin Pids
    /\ NoOwner \notin Owners
    /\ \A S \in SUBSET Albums : S # NoHalt

ActiveStatuses == {"pending", "running", "deferred"}
SettledStatuses == {"completed", "needs_review", "failed", "cancelled"}
Statuses == ActiveStatuses \cup SettledStatuses \cup {"absent"}
FlagReasons == {"ai_fallback", "recording_identity"}

\* Keys of a worker_evidence document: a diagnostic, the completionBasis
\* "verified_track_core", a proofVersion, and the proofPublication that the
\* store adds when it validates the receipts.
ProofKeys == {"basis", "proof", "publication"}
EvidenceKeys == ProofKeys \cup {"diagnostic"}

Row == [status : Statuses, run : Runs \cup {NoRun}, owner : Owners \cup {NoOwner}]
Retry == [attempt : 0 .. MaxAttempts, origin : Runs \cup {NoRun}, due : BOOLEAN]
Flag == [reason : FlagReasons \cup {"none"}, run : Runs \cup {NoRun}, reviewed : BOOLEAN]

NoItem == [status |-> "absent", run |-> NoRun, owner |-> NoOwner]
NoRetry == [attempt |-> 0, origin |-> NoRun, due |-> FALSE]
NoFlag == [reason |-> "none", run |-> NoRun, reviewed |-> FALSE]

VARIABLES
    items,       \* worker_items: one row per album, "absent" when there is none
    retries,     \* worker_retries: attempt 0 stands for no row
    lineage,     \* worker_lineage: the run that first bound the album
    evidence,    \* worker_evidence: keys by album and run, {} for no row
    flags,       \* review_flags
    haltFile,    \* worker.halted.json: the albums it names, or NoHalt
    halted,      \* each process's in-memory copy of the halt
    pid          \* the process table process_alive consults

tables == <<items, retries, lineage, evidence, flags>>
storeVars == <<items, retries, lineage, evidence, flags, haltFile, halted, pid>>

TypeOK ==
    /\ items \in [Albums -> Row]
    /\ retries \in [Albums -> Retry]
    /\ lineage \in [Albums -> Runs \cup {NoRun}]
    /\ evidence \in [Albums -> [Runs -> SUBSET EvidenceKeys]]
    /\ flags \in [Albums -> Flag]
    /\ haltFile \in (SUBSET Albums) \cup {NoHalt}
    /\ halted \in [Runtimes -> (SUBSET Albums) \cup {NoHalt}]
    /\ pid \in [Runtimes -> Pids \cup {NoPid}]

StoreInit ==
    /\ items = [p \in Albums |-> NoItem]
    /\ retries = [p \in Albums |-> NoRetry]
    /\ lineage = [p \in Albums |-> NoRun]
    /\ evidence = [p \in Albums |-> [r \in Runs |-> {}]]
    /\ flags = [p \in Albums |-> NoFlag]
    /\ haltFile = NoHalt
    /\ halted = [rt \in Runtimes |-> NoHalt]
    /\ pid = [rt \in Runtimes |-> NoPid]

----------------------------------------------------------------------------
(* What the queries read.                                                  *)

Active(p) == items[p].status \in ActiveStatuses
Live(q) == \E rt \in Runtimes : pid[rt] = q
Up(rt) == pid[rt] # NoPid
Unhalted(rt) == halted[rt] = NoHalt

\* Mutant: the retry table is joined with an inner join.
PendingByRetry == {p \in Albums : items[p].status \in {"pending", "deferred"}
                                   /\ retries[p].attempt > 0 /\ retries[p].due}

\* pending_result: what a scheduler pass would start, deferred work included
\* once its deadline has passed.
Pending == {p \in Albums :
              \/ items[p].status = "pending"
              \/ items[p].status = "deferred" /\ retries[p].attempt > 0 /\ retries[p].due}

\* actionable_review_paths: what Monitoring asks the operator to look at.
Actionable == {p \in Albums :
                 \/ items[p].status \in {"needs_review", "deferred"}
                 \/ flags[p].reason # "none" /\ ~flags[p].reviewed}

\* retry_origin: the lineage row first, else the retry row, else the caller's run.
OriginOf(p, r) ==
    IF lineage[p] # NoRun THEN lineage[p]
    ELSE IF retries[p].origin # NoRun THEN retries[p].origin
    ELSE r

----------------------------------------------------------------------------
(* Scheduling rows.                                                        *)

PendingRow == [status |-> "pending", run |-> NoRun, owner |-> NoOwner]

\* The albums enqueue would insert: active work is deduplicated.
Fresh(S) == {p \in S : ~Active(p)}

\* The inserts of enqueue.  They are separate autocommitted statements, so a
\* failure part of the way leaves T a proper subset of Fresh(S).
InsertPending(T) ==
    /\ items' = [p \in Albums |-> IF p \in T THEN PendingRow ELSE items[p]]
    /\ UNCHANGED <<retries, lineage, evidence, flags, haltFile, halted, pid>>

\* Mutant: active rows are deduplicated as in enqueue, their retries forgotten.
RequeueIdle(S) ==
    /\ items' = [p \in Albums |-> IF p \in Fresh(S) THEN PendingRow ELSE items[p]]
    /\ retries' = [p \in Albums |-> IF p \in S THEN NoRetry ELSE retries[p]]
    /\ lineage' = [p \in Albums |-> IF p \in S THEN NoRun ELSE lineage[p]]
    /\ UNCHANGED <<evidence, flags, haltFile, halted, pid>>

\* requeue: one transaction, whatever the rows hold now.
Requeue(S) ==
    /\ items' = [p \in Albums |-> IF p \in S THEN PendingRow ELSE items[p]]
    /\ retries' = [p \in Albums |-> IF p \in S THEN NoRetry ELSE retries[p]]
    /\ lineage' = [p \in Albums |-> IF p \in S THEN NoRun ELSE lineage[p]]
    /\ UNCHANGED <<evidence, flags, haltFile, halted, pid>>

\* Mutant: the process behind the owner is not looked up.
DesktopClaimableAny(p) ==
    \/ ~Active(p)
    \/ items[p].owner # NoOwner /\ items[p].owner.runtime = "desktop"

\* claim_desktop_run: an active row is taken over only from a desktop process
\* that is gone.
DesktopClaimable(p) ==
    \/ ~Active(p)
    \/ /\ items[p].owner # NoOwner
       /\ items[p].owner.runtime = "desktop"
       /\ ~Live(items[p].owner.pid)

ClaimDesktop(p, r) ==
    /\ Unhalted("desktop")
    /\ DesktopClaimable(p)
    /\ items' = [items EXCEPT ![p] =
                   [status |-> "running", run |-> r,
                    owner |-> [runtime |-> "desktop", pid |-> pid["desktop"]]]]
    /\ retries' = [retries EXCEPT ![p] = NoRetry]
    /\ lineage' = [lineage EXCEPT ![p] = NoRun]
    /\ UNCHANGED <<evidence, flags, haltFile, halted, pid>>

\* mark_running: claims a pending or deferred row for a server run.
Claimable(p) == Unhalted("server") /\ items[p].status \in {"pending", "deferred"}

MarkRunning(p, r) ==
    /\ Claimable(p)
    /\ items' = [items EXCEPT ![p] =
                   [status |-> "running", run |-> r,
                    owner |-> [runtime |-> "server", pid |-> pid["server"]]]]
    /\ UNCHANGED <<retries, lineage, evidence, flags, haltFile, halted, pid>>

Withdrawn(row) ==
    IF row.status \in ActiveStatuses
    THEN [row EXCEPT !.status = "cancelled", !.run = NoRun]
    ELSE row

\* cancel_paths when its transaction commits.
CancelPaths(S) ==
    /\ items' = [p \in Albums |-> IF p \in S THEN Withdrawn(items[p]) ELSE items[p]]
    /\ UNCHANGED <<retries, lineage, evidence, flags, haltFile, halted, pid>>

\* Mutant: the halt is kept in memory only.
CancelForgotten(S, filed) ==
    /\ halted' = [halted EXCEPT !["server"] = S]
    /\ haltFile' = haltFile
    /\ UNCHANGED <<items, retries, lineage, evidence, flags, pid>>

\* cancel_paths when it does not: persist_halt replaces the halt in memory
\* first, then the file (filed tells whether that write succeeded).
CancelFailed(S, filed) ==
    /\ halted' = [halted EXCEPT !["server"] = S]
    /\ haltFile' = IF filed THEN S ELSE haltFile
    /\ UNCHANGED <<items, retries, lineage, evidence, flags, pid>>
----------------------------------------------------------------------------
(* Lineage, retries and completion.                                        *)

\* Mutant: INSERT OR REPLACE, so the latest run takes the lineage over.
BindRunLatest(S, r) ==
    /\ lineage' = [p \in Albums |-> IF p \in S THEN r ELSE lineage[p]]
    /\ UNCHANGED <<items, retries, evidence, flags, haltFile, halted, pid>>

\* bind_run: INSERT OR IGNORE, so an earlier binding survives.
BindRun(S, r) ==
    /\ lineage' = [p \in Albums |->
                     IF p \in S /\ lineage[p] = NoRun THEN r ELSE lineage[p]]
    /\ UNCHANGED <<items, retries, evidence, flags, haltFile, halted, pid>>

\* The guard of both completions: the row still carries this run, or carries
\* none and the caller does not publish a proof.
MayFinish(p, r, strict) ==
    /\ items[p].status # "absent"
    /\ items[p].run = r \/ (~strict /\ items[p].run = NoRun)

\* Mutant: an earlier document loses its proof and keeps its claim of success.
TerminalKeepingBasis(p, r, patch) ==
    LET merged == (evidence[p][r] \ {"proof", "publication"}) \cup patch \cup {"diagnostic"}
    IN  IF "proof" \in merged THEN merged \cup {"publication"} ELSE merged

\* merged_terminal_evidence, then publish_core_receipts: an earlier document
\* contributes its diagnostics and never a claim of success.
Terminal(p, r, patch) ==
    LET merged == (evidence[p][r] \ ProofKeys) \cup patch \cup {"diagnostic"}
    IN  IF "proof" \in merged THEN merged \cup {"publication"} ELSE merged

WriteTerminal(p, r, patch) ==
    evidence' = [evidence EXCEPT ![p][r] = Terminal(p, r, patch)]

\* finish_with_evidence.
Finish(p, r, status, patch) ==
    LET verifiedCore == status = "completed" /\ "basis" \in patch
    IN  /\ MayFinish(p, r, verifiedCore \/ "proof" \in patch)
        /\ items' = [items EXCEPT ![p] = [@ EXCEPT !.status = status, !.run = r]]
        /\ WriteTerminal(p, r, patch)
        /\ flags' = IF /\ verifiedCore
                       /\ flags[p].run = r
                       /\ flags[p].reason = "recording_identity"
                       /\ ~flags[p].reviewed
                    THEN [flags EXCEPT ![p] = NoFlag]
                    ELSE flags
        /\ UNCHANGED <<retries, lineage, haltFile, halted, pid>>

\* schedule_retry: the retry row and the status it decides.
Exhausted(p) == retries[p].attempt >= MaxAttempts

NextRetry(p, origin) ==
    IF Exhausted(p) THEN retries[p]
    ELSE [attempt |-> retries[p].attempt + 1,
          origin |-> IF retries[p].attempt = 0 THEN origin ELSE retries[p].origin,
          due |-> FALSE]

\* finish_deferred_with_evidence.
FinishDeferred(p, r, origin, patch) ==
    /\ MayFinish(p, r, "proof" \in patch)
    /\ items' = [items EXCEPT ![p] =
                   [@ EXCEPT !.status = IF Exhausted(p) THEN "needs_review" ELSE "deferred",
                             !.run = r]]
    /\ retries' = [retries EXCEPT ![p] = NextRetry(p, origin)]
    /\ WriteTerminal(p, r, patch)
    /\ UNCHANGED <<lineage, flags, haltFile, halted, pid>>

\* checkpoint_evidence: progress only, a proof key is refused.
Checkpoint(p, r, patch) ==
    /\ patch \cap ProofKeys = {}
    /\ evidence' = [evidence EXCEPT ![p][r] = @ \cup patch]
    /\ UNCHANGED <<items, retries, lineage, flags, haltFile, halted, pid>>

----------------------------------------------------------------------------
(* Review flags.                                                           *)

\* Mutant: the latest flag always wins.
RecordLatestFlag(p, reason, r) ==
    /\ flags' = [flags EXCEPT ![p] = [reason |-> reason, run |-> r, reviewed |-> FALSE]]
    /\ UNCHANGED <<items, retries, lineage, evidence, haltFile, halted, pid>>

\* record_review_flag: an identity flag never replaces an unreviewed AI flag.
RecordFlag(p, reason, r) ==
    /\ flags' = IF \/ flags[p].reason = "none"
                   \/ reason # "recording_identity"
                   \/ flags[p].reviewed
                   \/ flags[p].reason = "recording_identity"
                THEN [flags EXCEPT ![p] = [reason |-> reason, run |-> r, reviewed |-> FALSE]]
                ELSE flags
    /\ UNCHANGED <<items, retries, lineage, evidence, haltFile, halted, pid>>

Acknowledged(p) ==
    IF flags[p].reason = "none" THEN flags[p] ELSE [flags[p] EXCEPT !.reviewed = TRUE]

\* mark_reviewed: two autocommitted updates; whole tells whether the second,
\* on the scheduling row, was reached.
MarkReviewed(p, whole) ==
    /\ flags' = [flags EXCEPT ![p] = Acknowledged(p)]
    /\ items' = IF whole /\ items[p].status \in {"needs_review", "deferred"}
                THEN [items EXCEPT ![p].status = "completed"]
                ELSE items
    /\ UNCHANGED <<retries, lineage, evidence, haltFile, halted, pid>>

----------------------------------------------------------------------------
(* Processes and time.                                                     *)

\* initialize on its own, as the desktop shell calls it.
OpenDesktop(q) ==
    /\ ~Up("desktop") /\ ~Live(q)
    /\ pid' = [pid EXCEPT !["desktop"] = q]
    /\ halted' = [halted EXCEPT !["desktop"] = haltFile]
    /\ UNCHANGED <<tables, haltFile>>

\* Mutant: only rows without any owner are released.
RecoveredUnowned(p, alive) ==
    LET row == IF haltFile # NoHalt /\ p \in haltFile THEN Withdrawn(items[p]) ELSE items[p]
    IN  IF row.status = "running" /\ row.owner = NoOwner
        THEN [row EXCEPT !.status = "pending", !.run = NoRun]
        ELSE row

\* Mutant: an interrupted row is closed instead of queued again.
RecoveredFailed(p, alive) ==
    LET row == IF haltFile # NoHalt /\ p \in haltFile THEN Withdrawn(items[p]) ELSE items[p]
    IN  IF row.status = "running" /\ (row.owner = NoOwner \/ row.owner.pid \notin alive)
        THEN [row EXCEPT !.status = "failed"]
        ELSE row

\* recover_interrupted on one row, given the processes alive by then: the
\* halted albums are cancelled first, then rows without a live owner released.
Recovered(p, alive) ==
    LET row == IF haltFile # NoHalt /\ p \in haltFile THEN Withdrawn(items[p]) ELSE items[p]
    IN  IF row.status = "running" /\ (row.owner = NoOwner \/ row.owner.pid \notin alive)
        THEN [row EXCEPT !.status = "pending", !.run = NoRun]
        ELSE row

Alive(q) == {q} \cup {pid[rt] : rt \in Runtimes \ {"server"}}

\* The server's start: initialize, then recover_interrupted.  result is
\* "recovered", "markerKept" when the marker could not be removed after the
\* commit, or "failed" when the transaction rolled back.
OpenServer(q, result) ==
    /\ ~Up("server") /\ ~Live(q)
    /\ result = "markerKept" => haltFile # NoHalt
    /\ pid' = [pid EXCEPT !["server"] = q]
    /\ items' = IF result = "failed" THEN items
                ELSE [p \in Albums |-> Recovered(p, Alive(q))]
    /\ haltFile' = IF result = "recovered" THEN NoHalt ELSE haltFile
    /\ halted' = [halted EXCEPT !["server"] = haltFile']
    /\ UNCHANGED <<retries, lineage, evidence, flags>>

\* A process ends, by a crash or a shutdown: only its memory is lost.
Exit(rt) ==
    /\ Up(rt)
    /\ pid' = [pid EXCEPT ![rt] = NoPid]
    /\ halted' = [halted EXCEPT ![rt] = NoHalt]
    /\ UNCHANGED <<tables, haltFile>>

\* next_attempt_at passes.
DeadlinePasses(p) ==
    /\ retries[p].attempt > 0 /\ ~retries[p].due
    /\ retries' = [retries EXCEPT ![p].due = TRUE]
    /\ UNCHANGED <<items, lineage, evidence, flags, haltFile, halted, pid>>

----------------------------------------------------------------------------
(* The store under every sequence of calls its two runtimes can make.      *)

\* The terminal documents the resolver produces, by the status they go with:
\* a verified core carries a proof, an error carries neither.
Outcomes ==
    {<<"completed", {}>>, <<"completed", {"basis", "proof"}>>,
     <<"needs_review", {}>>, <<"failed", {}>>}
    \cup IF "proof" \in Calls
         THEN {<<"needs_review", {"proof"}>>, <<"failed", {"proof"}>>, <<"cancelled", {"proof"}>>}
         ELSE {}

\* enqueue and requeue ask for the halt before they wait for the connection, so
\* a cancellation that fails meanwhile does not stop the inserts.
ServerCall ==
    \/ \E T \in SUBSET Fresh(Albums) : InsertPending(T)
    \/ \E S \in SUBSET Albums : Requeue(S)
    \/ \E p \in Albums, r \in Runs : MarkRunning(p, r)
    \/ \E S \in SUBSET Albums : CancelPaths(S)
    \/ \E S \in (SUBSET Albums) \ {{}}, filed \in BOOLEAN : CancelFailed(S, filed)
    \/ \E S \in SUBSET Albums, r \in Runs : BindRun(S, r)
    \/ \E p \in Albums, r, origin \in Runs, o \in Outcomes :
          o[1] = "needs_review" /\ FinishDeferred(p, r, origin, o[2])

EitherCall ==
    \/ \E p \in Albums, r \in Runs, o \in Outcomes : Finish(p, r, o[1], o[2])
    \/ \E p \in Albums, r \in Runs :
          "proof" \in Calls /\ Checkpoint(p, r, {"diagnostic"})
    \/ \E p \in Albums, r \in Runs, reason \in FlagReasons :
          "review" \in Calls /\ RecordFlag(p, reason, r)

StoreNext ==
    \/ Up("server") /\ ServerCall
    \/ \E p \in Albums, whole \in BOOLEAN :
          Up("server") /\ "review" \in Calls /\ MarkReviewed(p, whole)
    \/ \E p \in Albums, r \in Runs : Up("desktop") /\ ClaimDesktop(p, r)
    \/ (\E rt \in Runtimes : Up(rt)) /\ EitherCall
    \/ \E q \in Pids : OpenDesktop(q)
    \/ \E q \in Pids, result \in {"recovered", "markerKept", "failed"} : OpenServer(q, result)
    \/ \E rt \in Runtimes : Exit(rt)
    \/ \E p \in Albums : DeadlinePasses(p)

StoreSpec == StoreInit /\ [][StoreNext]_storeVars

----------------------------------------------------------------------------
(* Properties.                                                             *)

\* A deferred album always has a retry row that brings it back, within the
\* attempt budget and with a run to charge it to: schedule_retry writes both
\* rows in one transaction and every call that drops the retry row also
\* takes the album out of "deferred".
DeferredHasRetry ==
    \A p \in Albums :
        items[p].status = "deferred" => retries[p].attempt > 0 /\ retries[p].origin # NoRun

\* A document that claims a verified core or carries a proof was published by
\* a terminal transaction: progress checkpoints, merges with an older
\* document and error reports never leave half a proof behind.
ProofIsPublished ==
    \A p \in Albums, r \in Runs :
        /\ "proof" \in evidence[p][r] <=> "publication" \in evidence[p][r]
        /\ "basis" \in evidence[p][r] => "proof" \in evidence[p][r]

\* The flag of an AI-written album survives every call, a restart, a later
\* identity flag and a machine-verified completion included, until the
\* operator acknowledges it (docs/web-service.md, "Observing it").
AiFlagKept ==
    [][\A p \in Albums :
          flags[p].reason = "ai_fallback" /\ ~flags[p].reviewed =>
             flags'[p].reason = "ai_fallback"]_storeVars

\* While the process that owns a running row lives, no other run takes the
\* row over, and only an operator's retry, which also forgets the retry and
\* lineage rows, puts it back in the queue.
NoTakeover ==
    [][\A p \in Albums :
          /\ items[p].status = "running"
          /\ \E rt \in Runtimes : pid[rt] = items[p].owner.pid /\ pid'[rt] = pid[rt]
          => /\ items'[p].run \in {items[p].run, NoRun}
             /\ items'[p].status = "pending" =>
                   retries'[p] = NoRetry /\ lineage'[p] = NoRun]_storeVars

\* An album that used up its automatic retries is deferred again only after
\* an operator's retry or a desktop run dropped the retry row: a restart, a
\* re-enqueue or another run's deferral gives nothing back.
RetryBudgetSpent ==
    [][\A p \in Albums :
          Exhausted(p) => /\ items[p].status # "deferred" => items'[p].status # "deferred"
                          /\ Exhausted(p)' \/ lineage'[p] = NoRun]_storeVars

============================================================================
