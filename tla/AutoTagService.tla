--------------------------- MODULE AutoTagService ---------------------------
(***************************************************************************)
(* The auto-tag pipeline of the web service (src-tauri/src/server.rs): the *)
(* scheduler loop, the HTTP commands that queue, retry, cancel and         *)
(* acknowledge work, the one job that holds the AutoTag operation, and     *)
(* crashes and restarts, over the durable tables of WorkerStore.           *)
(*                                                                         *)
(* Each action is a stretch of code between two points where another       *)
(* thread can observe or change what it uses: the store's mutex, the task  *)
(* registry's lock, the operation coordinator's lock.  Run ids and task    *)
(* ids are one number: a background run and its task share it, and a       *)
(* manual run's id is its task id in the code too.                         *)
(*                                                                         *)
(* Bounds: MaxRuns caps the runs started; each budget says how often the   *)
(* environment acts (requests, retries, cancellations, crashes, faults).   *)
(***************************************************************************)
EXTENDS WorkerStore

CONSTANTS MaxRuns,
          Budgets,        \* how often each kind of environment step may happen
          Results,        \* what the resolver may return for one album
          PidsReused,     \* may a restarted server get the pid of a dead owner
          NoAlbum

EnvKinds == {"request", "retry", "cancel", "crash", "fault", "ai", "ack", "other"}
Callers == {"scheduler", "http"}     \* one HTTP client at a time

\* "core", "partial" and "partialRetry" are recording-level results; "retry" and
\* "partialRetry" ask for review after a provider failure worth retrying.
AllResults == {"applied", "core", "partial", "partialRetry", "review", "retry", "error"}
ByRecording == {"core", "partial", "partialRetry"}
Retryable == {"retry", "partialRetry"}

ASSUME ServiceAssumption ==
    /\ MaxRuns \in Nat /\ Runs = 1 .. MaxRuns
    /\ Budgets \subseteq [EnvKinds -> Nat]
    /\ Results \subseteq AllResults
    /\ PidsReused \in BOOLEAN
    /\ NoAlbum \notin Albums

VARIABLES
    circuits,    \* worker_ai_circuits: runs whose AI service refused payment
    holder,      \* OperationCoordinator: who holds the one operation token
    caller,      \* what each request is about to do, with the albums it read
    job,         \* the spawned auto-tag task
    tasks,       \* TaskRegistry (memory)
    history,     \* BackgroundState.runs (background-tagging.json)
    scheduling,  \* did start-up recovery succeed, so that the scheduler runs
    lastRun,     \* run ids handed out
    budget       \* what is left of the budget

\* History variables: no action reads them.
VARIABLES
    faulted,     \* has a call of the database failed
    aiTagged,    \* albums the AI chose tags for, not acknowledged by the operator since
    charged,     \* albums of a lineage an AI circuit was opened for, not retried since
    stopped      \* albums an operator's cancellation reached, not accepted again since

serviceVars == <<circuits, holder, caller, job, tasks, history, scheduling, lastRun>>
ghosts == <<aiTagged, charged, stopped>>
envVars == <<budget, faulted>>
vars == <<storeVars, serviceVars, envVars, ghosts>>

NoJob == [pc |-> "none", kind |-> "batch", run |-> NoRun, all |-> {}, todo |-> {},
          cur |-> NoAlbum, origin |-> NoRun, aiBlocked |-> FALSE, result |-> "none",
          failed |-> {}, review |-> {}, broken |-> FALSE, verdict |-> "none"]
IdleCaller == [pc |-> "idle", albums |-> {}]
NoHistory == [status |-> "none", ledger |-> {}]

Init ==
    /\ StoreInit
    /\ circuits = {}
    /\ holder = "free"
    /\ caller = [c \in Callers |-> IdleCaller]
    /\ job = NoJob
    /\ tasks = [r \in Runs |-> "none"]
    /\ history = [r \in Runs |-> NoHistory]
    /\ scheduling = FALSE
    /\ lastRun = 0
    /\ budget \in Budgets /\ faulted = FALSE
    /\ aiTagged = {}
    /\ charged = {}
    /\ stopped = {}

Spend(kind) ==
    /\ budget[kind] > 0 /\ budget' = [budget EXCEPT ![kind] = @ - 1]
    /\ faulted' = (faulted \/ kind = "fault")
Free == UNCHANGED envVars

----------------------------------------------------------------------------
(* Requests: the scheduler loop and the HTTP commands.                     *)

Serving(c) == Up("server") /\ (c = "scheduler" => scheduling)
Say(c, pc, albums) == caller' = [caller EXCEPT ![c] = [pc |-> pc, albums |-> albums]]
Idle(c) == Serving(c) /\ caller[c].pc = "idle"
NextRun == lastRun + 1

\* start_pending_background_run: the list is read before the token is asked for.
PollPending ==
    /\ Idle("scheduler") /\ Unhalted("server") /\ Pending # {}
    /\ Say("scheduler", "start", Pending)
    /\ Free
    /\ UNCHANGED <<storeVars, circuits, holder, job, tasks, history, scheduling, lastRun, ghosts>>

\* A due slot, a watched change or background:run-now reaches
\* start_background_run_for; enqueue's halt check comes before its insert.
Request(c) ==
    /\ Idle(c) /\ Spend("request") /\ Unhalted("server")
    /\ \E S \in (SUBSET Albums) \ {{}} : Say(c, "insert", S)
    /\ UNCHANGED <<storeVars, circuits, holder, job, tasks, history, scheduling, lastRun, ghosts>>

\* enqueue: nothing fresh is an error the request ends with.
Insert(c) ==
    /\ Serving(c) /\ caller[c].pc = "insert"
    /\ LET T == Fresh(caller[c].albums)
       IN  /\ InsertPending(T)
           /\ IF T = {} THEN Say(c, "idle", {}) ELSE Say(c, "start", T)
           /\ stopped' = stopped \ T
    /\ Free
    /\ UNCHANGED <<circuits, holder, job, tasks, history, scheduling, lastRun,
                   aiTagged, charged>>

\* An insert fails part of the way: the rows before it stay, the request ends.
InsertTorn(c) ==
    /\ Serving(c) /\ caller[c].pc = "insert" /\ Spend("fault")
    /\ \E T \in SUBSET Fresh(caller[c].albums) :
          /\ T # Fresh(caller[c].albums)
          /\ InsertPending(T)
          /\ stopped' = stopped \ T
    /\ Say(c, "idle", {})
    /\ UNCHANGED <<circuits, holder, job, tasks, history, scheduling, lastRun,
                   aiTagged, charged>>

\* background:retry-failed picks a run with releases left; nothing asks whether
\* the operation is busy before the rows are reset.
RetryFailed ==
    /\ Idle("http") /\ Spend("retry") /\ Unhalted("server")
    /\ \E r \in Runs : history[r].ledger # {} /\ Say("http", "requeue", history[r].ledger)
    /\ UNCHANGED <<storeVars, circuits, holder, job, tasks, history, scheduling, lastRun, ghosts>>

ResetRetried ==
    /\ Up("server") /\ caller["http"].pc = "requeue"
    /\ Requeue(caller["http"].albums)
    /\ Say("http", "start", caller["http"].albums)
    /\ stopped' = stopped \ caller["http"].albums
    /\ charged' = charged \ caller["http"].albums
    /\ Free
    /\ UNCHANGED <<circuits, holder, job, tasks, history, scheduling, lastRun,
                   aiTagged>>

\* start_background_batch: try_start, tasks.create, record_run_checked, spawn.
StartBatch(c) ==
    /\ Serving(c) /\ caller[c].pc = "start"
    /\ holder = "free" /\ lastRun < MaxRuns
    /\ holder' = "job"
    /\ lastRun' = NextRun
    /\ job' = [NoJob EXCEPT !.pc = "bind", !.run = NextRun,
                            !.all = caller[c].albums, !.todo = caller[c].albums]
    /\ tasks' = [tasks EXCEPT ![NextRun] = "running"]
    /\ history' = [history EXCEPT ![NextRun].status = "running"]
    /\ Say(c, "idle", {})
    /\ Free
    /\ UNCHANGED <<storeVars, circuits, scheduling, aiTagged, charged, stopped>>

\* record_run_checked fails: token and task are given up before anything ran.
StartUnrecorded(c) ==
    /\ Serving(c) /\ caller[c].pc = "start"
    /\ holder = "free" /\ lastRun < MaxRuns /\ Spend("fault")
    /\ lastRun' = NextRun
    /\ tasks' = [tasks EXCEPT ![NextRun] = "failed"]
    /\ Say(c, "idle", {})
    /\ UNCHANGED <<storeVars, circuits, holder, job, history, scheduling, ghosts>>

\* The token is taken: the albums stay pending for a later pass.
StartRefused(c) ==
    /\ Serving(c) /\ caller[c].pc = "start" /\ holder # "free"
    /\ Say(c, "idle", {})
    /\ Free
    /\ UNCHANGED <<storeVars, circuits, holder, job, tasks, history, scheduling, lastRun, ghosts>>

\* album:auto-tag takes the token first, then enqueues its one album.
ManualToken ==
    /\ Idle("http") /\ holder = "free" /\ lastRun < MaxRuns /\ Spend("request")
    /\ holder' = "http"
    /\ \E p \in Albums : Say("http", "manual", {p})
    /\ UNCHANGED <<storeVars, circuits, job, tasks, history, scheduling, lastRun, ghosts>>

ManualStart ==
    /\ Up("server") /\ caller["http"].pc = "manual"
    /\ Unhalted("server")
    /\ LET S == caller["http"].albums
       IN  /\ Fresh(S) = S
           /\ InsertPending(S)
           /\ job' = [NoJob EXCEPT !.pc = "claim", !.kind = "manual", !.run = NextRun,
                                   !.all = S, !.todo = S]
           /\ stopped' = stopped \ S
    /\ holder' = "job"
    /\ lastRun' = NextRun
    /\ tasks' = [tasks EXCEPT ![NextRun] = "running"]
    /\ Say("http", "idle", {})
    /\ Free
    /\ UNCHANGED <<circuits, history, scheduling, aiTagged, charged>>

ManualRefused ==
    /\ Up("server") /\ caller["http"].pc = "manual"
    /\ \/ (Fresh(caller["http"].albums) = {} \/ ~Unhalted("server")) /\ Free
       \/ Spend("fault")
    /\ holder' = "free"
    /\ Say("http", "idle", {})
    /\ UNCHANGED <<storeVars, circuits, job, tasks, history, scheduling, lastRun, ghosts>>

----------------------------------------------------------------------------
(* The job: start_background_batch's task, and start_auto_tag_task's.      *)

Batch(pc) == Up("server") /\ job.kind = "batch" /\ job.pc = pc
Manual(pc) == Up("server") /\ job.kind = "manual" /\ job.pc = pc
Either(pc) == Up("server") /\ job.pc = pc
\* Mutant: only a task that is gone is refused.
StillKnown == tasks[job.run] \in {"running", "cancelled"}

\* with_running's check.
StillRunning == tasks[job.run] = "running"
Cancelled == tasks[job.run] = "cancelled"

\* bind_run, before the first provider or AI request.
Bind ==
    /\ Batch("bind")
    /\ \/ /\ BindRun(job.all, job.run)
          /\ job' = [job EXCEPT !.pc = "claim"]
          /\ Free
       \/ /\ Spend("fault")
          /\ job' = [job EXCEPT !.pc = "close", !.verdict = "unbound"]
          /\ UNCHANGED storeVars
    /\ UNCHANGED <<circuits, holder, caller, tasks, history, scheduling, lastRun, ghosts>>

\* The head of the loop: the next album is claimed with mark_running.  The
\* order of the list is left open.
Claim ==
    /\ Either("claim")
    /\ job.kind = "batch" => ~Cancelled
    /\ \E p \in job.todo :
          /\ MarkRunning(p, job.run)
          /\ job' = [job EXCEPT !.todo = @ \ {p}, !.cur = p, !.result = "none",
                                !.pc = IF job.kind = "batch" THEN "origin" ELSE "lookup",
                                !.origin = job.run]
    /\ Free
    /\ UNCHANGED <<circuits, holder, caller, tasks, history, scheduling, lastRun, ghosts>>

\* mark_running refuses the row, or the database does.
ClaimFails ==
    /\ Either("claim")
    /\ job.kind = "batch" => ~Cancelled
    /\ \E p \in job.todo :
          /\ \/ ~Claimable(p) /\ Free
             \/ Claimable(p) /\ Spend("fault")
          /\ job' = IF job.kind = "batch"
                    THEN [job EXCEPT !.todo = @ \ {p}, !.failed = @ \cup {p}]
                    ELSE [job EXCEPT !.todo = {}, !.pc = "close", !.verdict = "failed"]
    /\ UNCHANGED <<storeVars, circuits, holder, caller, tasks, history, scheduling, lastRun, ghosts>>

LoopEnds ==
    /\ Batch("claim") /\ (Cancelled \/ job.todo = {})
    /\ job' = [job EXCEPT !.pc = "wind"]
    /\ Free
    /\ UNCHANGED <<storeVars, circuits, holder, caller, tasks, history, scheduling, lastRun, ghosts>>

\* retry_origin, then ai_circuit_open; an error of either leaves the loop with
\* the row still running.
Origin ==
    /\ Batch("origin")
    /\ \/ /\ LET origin == OriginOf(job.cur, job.run)
             IN  job' = [job EXCEPT !.pc = "lookup", !.origin = origin,
                                    !.aiBlocked = @ \/ origin \in circuits]
          /\ Free
       \/ /\ Spend("fault")
          /\ job' = [job EXCEPT !.pc = "wind", !.cur = NoAlbum, !.broken = TRUE]
    /\ UNCHANGED <<storeVars, circuits, holder, caller, tasks, history, scheduling, lastRun, ghosts>>

\* The resolver's progress checkpoints.
Lookup ==
    /\ Either("lookup")
    /\ Checkpoint(job.cur, job.run, {"diagnostic"})
    /\ job' = [job EXCEPT !.pc = "decide"]
    /\ Free
    /\ UNCHANGED <<circuits, holder, caller, tasks, history, scheduling, lastRun, ghosts>>

Charged(open) == {p \in Albums : lineage[p] \in open}

\* HTTP 402 from the AI service: the circuit opens for the run and its origin,
\* in a batch for the rest of the run too.  A manual run has no shared circuit
\* and only records its own.  The record may fail.
AiRefused ==
    /\ Either("decide") /\ ~job.aiBlocked
    /\ \/ Spend("ai") /\ circuits' = circuits \cup {job.origin, job.run}
       \/ Spend("fault") /\ UNCHANGED circuits
    /\ job' = [job EXCEPT !.aiBlocked = (job.kind = "batch")]
    /\ charged' = charged \cup Charged(circuits')
    /\ UNCHANGED <<storeVars, holder, caller, tasks, history, scheduling, lastRun,
                   aiTagged, stopped>>

\* The AI fallback proposes tags: the review flag is recorded before the files
\* change (checkpoint_candidate_review).
AiProposes ==
    /\ Either("decide") /\ ~job.aiBlocked /\ Spend("ai")
    /\ RecordFlag(job.cur, "ai_fallback", job.run)
    /\ job' = [job EXCEPT !.pc = "write"]
    /\ aiTagged' = aiTagged \cup {job.cur}
    /\ UNCHANGED <<circuits, holder, caller, tasks, history, scheduling, lastRun,
                   charged, stopped>>

AfterResolver(result) ==
    [job EXCEPT !.pc = IF job.kind = "manual" /\ result = "error" THEN "fail" ELSE "settle",
                !.result = result]

\* The files change; an AI candidate ends in review, or in an error when a
\* later step or a cancellation check fails.
AiWrites ==
    /\ Either("write")
    /\ \E result \in {"review", "error"} : job' = AfterResolver(result)
    /\ Free
    /\ UNCHANGED <<storeVars, circuits, holder, caller, tasks, history, scheduling, lastRun, ghosts>>

\* Runs a blocked batch charges once the resolver is back.
ToOpen == IF job.aiBlocked THEN {job.origin, job.run} ELSE {}

\* Any other end of the resolver.  A recording-level result records an
\* identity flag before its writes.  A checkpoint or a circuit that could not be
\* stored makes an error of the result.
Resolve ==
    /\ Either("decide")
    /\ \E result \in Results :
          /\ IF result \in ByRecording
             THEN RecordFlag(job.cur, "recording_identity", job.run)
             ELSE UNCHANGED storeVars
          /\ \/ Free /\ job' = AfterResolver(result) /\ circuits' = circuits \cup ToOpen
             \/ /\ Spend("fault") /\ job' = AfterResolver("error")
                /\ \E opened \in SUBSET ToOpen : circuits' = circuits \cup opened
    /\ charged' = charged \cup Charged(circuits')
    /\ UNCHANGED <<holder, caller, tasks, history, scheduling, lastRun,
                   aiTagged, stopped>>

\* The status and proof each result is completed with.
StatusOf(result) ==
    CASE result \in {"applied", "core"} -> "completed"
      [] result = "error" -> "failed"
      [] OTHER -> "needs_review"

PatchOf(result) ==
    CASE result = "core" -> {"basis", "proof"}
      [] result \in ByRecording \ {"core"} -> {"proof"}
      [] OTHER -> {}

\* A deferral is a batch's answer to a retryable provider failure; a manual
\* run asks for review instead.
Deferral == job.kind = "batch" /\ job.result \in Retryable

\* Mutant: only failures are kept for the run's ledger.
SettledFailures(failed, review) ==
    [job EXCEPT !.pc = "claim", !.cur = NoAlbum, !.result = "none",
                !.failed = IF failed THEN @ \cup {job.cur} ELSE @]

\* Bookkeeping of the loop once the album at hand is settled.
Settled(failed, review) ==
    [job EXCEPT !.pc = "claim", !.cur = NoAlbum, !.result = "none",
                !.failed = IF failed THEN @ \cup {job.cur} ELSE @,
                !.review = IF review THEN @ \cup {job.cur} ELSE @]

\* run_exclusive around with_running: the completion commits while the task
\* lock excludes a cancellation.
Commit ==
    /\ Either("settle") /\ StillRunning
    /\ IF Deferral
       THEN FinishDeferred(job.cur, job.run, job.origin, PatchOf(job.result))
       ELSE Finish(job.cur, job.run, StatusOf(job.result), PatchOf(job.result))
    /\ IF job.kind = "batch"
       THEN /\ job' = Settled(StatusOf(job.result) = "failed",
                              StatusOf(job.result) = "needs_review")
            /\ UNCHANGED tasks
       ELSE /\ job' = [job EXCEPT !.pc = "release", !.cur = NoAlbum]
            /\ tasks' = [tasks EXCEPT ![job.run] = StatusOf(job.result)]
    /\ Free
    /\ UNCHANGED <<circuits, holder, caller, history, scheduling, lastRun, ghosts>>

\* The completion's guard finds another claim, or the database or the receipt
\* check refuses it; the row stays as it is.
CommitFails ==
    /\ Either("settle") /\ StillRunning
    /\ \/ ~MayFinish(job.cur, job.run, "proof" \in PatchOf(job.result)) /\ Free
       \/ Spend("fault")
    /\ job' = IF job.kind = "batch" THEN Settled(TRUE, FALSE) ELSE [job EXCEPT !.pc = "fail"]
    /\ UNCHANGED <<storeVars, circuits, holder, caller, tasks, history, scheduling, lastRun, ghosts>>

\* with_running finds the task cancelled: nothing durable happens here.
CommitCancelled ==
    /\ Either("settle") /\ Cancelled
    /\ job' = IF job.kind = "batch" THEN Settled(FALSE, TRUE) ELSE [job EXCEPT !.pc = "fail"]
    /\ Free
    /\ UNCHANGED <<storeVars, circuits, holder, caller, tasks, history, scheduling, lastRun, ghosts>>

\* cancel_paths for everything the job covered; next is the job afterwards
\* when the cancellation is recorded, and when it is not.
StopPaths(recorded, unrecorded) ==
    LET Reached == stopped \cup {p \in job.all : Active(p)}
    IN  /\ \/ CancelPaths(job.all) /\ Free /\ job' = recorded /\ stopped' = Reached
           \/ \E filed \in BOOLEAN :
                 /\ Spend("fault")
                 /\ CancelFailed(job.all, filed)
                 /\ job' = unrecorded
                 /\ stopped' = IF filed THEN Reached ELSE stopped
        /\ UNCHANGED <<circuits, holder, caller, tasks, history, scheduling, lastRun,
                       aiTagged, charged>>

\* A manual run that failed or was cancelled; the row is settled first.
ManualStops ==
    /\ Manual("fail") /\ Cancelled
    /\ StopPaths([job EXCEPT !.pc = "close", !.cur = NoAlbum, !.verdict = "cancelled"],
                 [job EXCEPT !.pc = "close", !.cur = NoAlbum, !.verdict = "unstopped"])

ManualFails ==
    /\ Manual("fail") /\ ~Cancelled
    /\ \/ Free /\ Finish(job.cur, job.run, "failed", {})
       \/ Spend("fault") /\ UNCHANGED storeVars
    /\ job' = [job EXCEPT !.pc = "close", !.cur = NoAlbum, !.verdict = "failed"]
    /\ UNCHANGED <<circuits, holder, caller, tasks, history, scheduling, lastRun, ghosts>>

\* After the loop: a cancelled batch cancels every album it was given.
WindCancelled ==
    /\ Batch("wind") /\ Cancelled
    /\ StopPaths([job EXCEPT !.pc = "judge"],
                 [job EXCEPT !.pc = "close", !.verdict = "unstopped"])

Wind ==
    /\ Batch("wind") /\ ~Cancelled
    /\ job' = [job EXCEPT !.pc = "judge"]
    /\ Free
    /\ UNCHANGED <<storeVars, circuits, holder, caller, tasks, history, scheduling, lastRun, ghosts>>

\* The verdict reads the cancellation flag a second time.
Judge ==
    /\ Batch("judge")
    /\ job' = [job EXCEPT !.pc = "close",
                 !.verdict = IF Cancelled THEN "cancelled"
                             ELSE IF job.failed # {} \/ job.broken THEN "failed"
                             ELSE IF job.review # {} THEN "needs_review" ELSE "completed"]
    /\ Free
    /\ UNCHANGED <<storeVars, circuits, holder, caller, tasks, history, scheduling, lastRun, ghosts>>

\* tasks.finish: ordinary late work cannot rewrite a cancelled task.
\* finish_cancellation_failure can: it reports a cancellation that was not
\* recorded, and a failed batch that finds itself cancelled by now.
Verdict == IF job.verdict \in {"unbound", "unstopped"} THEN "failed" ELSE job.verdict
Overrides == job.verdict = "unstopped" \/ (job.kind = "batch" /\ job.verdict = "failed")

Close ==
    /\ Either("close")
    /\ tasks' = IF Cancelled /\ ~Overrides THEN tasks
                ELSE [tasks EXCEPT ![job.run] = Verdict]
    /\ job' = [job EXCEPT !.pc = IF job.kind = "batch" THEN "record" ELSE "release"]
    /\ Free
    /\ UNCHANGED <<storeVars, circuits, holder, caller, history, scheduling, lastRun, ghosts>>

\* finish_run_checked: only a running record is closed, and only if it is saved.
Record ==
    /\ Batch("record")
    /\ \/ /\ Free
          /\ history' =
                IF history[job.run].status # "running" THEN history
                ELSE [history EXCEPT ![job.run] =
                        [status |-> IF Verdict = "needs_review" THEN "completed" ELSE Verdict,
                         ledger |-> job.failed \cup job.review]]
       \/ Spend("fault") /\ UNCHANGED history
    /\ job' = [job EXCEPT !.pc = "release"]
    /\ UNCHANGED <<storeVars, circuits, holder, caller, tasks, scheduling, lastRun, ghosts>>

\* operations.finish(token), the last thing the job does.
Release ==
    /\ Either("release")
    /\ holder' = "free"
    /\ job' = NoJob
    /\ Free
    /\ UNCHANGED <<storeVars, circuits, caller, tasks, history, scheduling, lastRun, ghosts>>

----------------------------------------------------------------------------
(* The operator, other operations, time, crashes and restarts.             *)

\* task:cancel marks the task and raises its flag under one lock.
Cancel ==
    /\ Up("server") /\ Spend("cancel")
    /\ \E r \in Runs : tasks[r] = "running" /\ tasks' = [tasks EXCEPT ![r] = "cancelled"]
    /\ UNCHANGED <<storeVars, circuits, holder, caller, job, history, scheduling, lastRun, ghosts>>

\* monitoring:mark-reviewed on an album Monitoring lists.
Acknowledge ==
    /\ Up("server") /\ Spend("ack")
    /\ \E p \in Actionable :
          /\ MarkReviewed(p, TRUE)
          /\ aiTagged' = aiTagged \ {p}
    /\ UNCHANGED <<circuits, holder, caller, job, tasks, history, scheduling, lastRun,
                   charged, stopped>>

\* Another command holds the one operation for a while.
OtherStarts ==
    /\ Up("server") /\ holder = "free" /\ Spend("other")
    /\ holder' = "other"
    /\ UNCHANGED <<storeVars, circuits, caller, job, tasks, history, scheduling, lastRun, ghosts>>

OtherEnds ==
    /\ Up("server") /\ holder = "other"
    /\ holder' = "free"
    /\ Free
    /\ UNCHANGED <<storeVars, circuits, caller, job, tasks, history, scheduling, lastRun, ghosts>>

RetryDue ==
    /\ \E p \in Albums : DeadlinePasses(p)
    /\ Free
    /\ UNCHANGED <<serviceVars, ghosts>>

\* A crash, a kill, or a graceful shutdown: shutdown waits for queued writes
\* and not for the job around them.
Crash ==
    /\ Spend("crash")
    /\ Exit("server")
    /\ holder' = "free"
    /\ caller' = [c \in Callers |-> IdleCaller]
    /\ job' = NoJob
    /\ tasks' = [r \in Runs |-> "none"]
    /\ scheduling' = FALSE
    /\ UNCHANGED <<circuits, history, lastRun, ghosts>>

DeadOwner(q) == \E p \in Albums : items[p].owner # NoOwner /\ items[p].owner.pid = q

\* router_with_runtime_and_events: the store is opened and recovered, then the
\* run history is closed, before anything is served.
Start ==
    /\ \E q \in Pids, result \in {"recovered", "markerKept", "failed"} :
          /\ PidsReused \/ ~DeadOwner(q)
          /\ IF result = "recovered" THEN Free ELSE Spend("fault")
          /\ OpenServer(q, result)
          /\ scheduling' = (result = "recovered")
    /\ history' = [r \in Runs |->
                     IF history[r].status = "running"
                     THEN [history[r] EXCEPT !.status = "interrupted"] ELSE history[r]]
    /\ UNCHANGED <<circuits, holder, caller, job, tasks, lastRun, ghosts>>

----------------------------------------------------------------------------
SchedulerStep ==
    \/ PollPending
    \/ Insert("scheduler")
    \/ StartBatch("scheduler")
    \/ StartRefused("scheduler")

HttpStep ==
    \/ Insert("http")
    \/ ResetRetried
    \/ StartBatch("http")
    \/ StartRefused("http")
    \/ ManualStart
    \/ ManualRefused

JobStep ==
    \/ Bind \/ Claim \/ ClaimFails \/ LoopEnds \/ Origin \/ Lookup \/ AiWrites \/ Resolve
    \/ Commit \/ CommitFails \/ CommitCancelled \/ ManualStops \/ ManualFails
    \/ WindCancelled \/ Wind \/ Judge \/ Close \/ Record \/ Release

Environment ==
    \/ \E c \in Callers : Request(c) \/ InsertTorn(c) \/ StartUnrecorded(c)
    \/ RetryFailed \/ ManualToken
    \/ AiRefused \/ AiProposes
    \/ Cancel \/ Acknowledge \/ OtherStarts \/ Crash

Next ==
    \/ SchedulerStep \/ HttpStep \/ JobStep
    \/ OtherEnds \/ RetryDue \/ Start
    \/ Environment

Spec == Init /\ [][Next]_vars

\* The scheduler polls for ever, spawned tasks and request handlers are driven
\* by the runtime, provider calls end, deadlines pass and the supervisor
\* restarts the service.  Nothing makes the operator or a fault act.
Fairness ==
    /\ WF_vars(SchedulerStep)
    /\ WF_vars(HttpStep)
    /\ WF_vars(JobStep)
    /\ WF_vars(OtherEnds)
    /\ WF_vars(RetryDue)
    /\ WF_vars(Start)

FairSpec == Spec /\ Fairness

----------------------------------------------------------------------------
(* Properties.                                                             *)

AtWork(p) == job.cur = p

\* While the server is up and no call of the database has failed, a running row
\* has a worker: the job works on it for the very run the row names, or that run
\* is cancelled and its batch is about to withdraw the row (docs/web-service.md,
\* "Schedule": a restart never loses an interrupted item; nor does a failed or
\* cancelled batch).
RunningHasWorker ==
    \A p \in Albums :
        ~faulted /\ Up("server") /\ items[p].status = "running" =>
            /\ items[p].run = job.run
            /\ \/ AtWork(p)
               \/ Cancelled /\ p \in job.all /\ job.pc \in {"claim", "wind"}

\* Once task:cancel has answered, no album still queued or running is
\* completed, deferred or sent to review for that task: the cancellation and
\* the terminal transaction are serialized by with_running.
CancelledStaysOut ==
    [][\A p \in Albums, r \in Runs :
          /\ tasks[r] = "cancelled"
          /\ items[p].status \in {"pending", "running"}
          /\ items'[p].run = r
          => items'[p].status \notin {"completed", "needs_review", "deferred"}]_vars

\* An album whose cancellation reached the store, or the halt marker, is never
\* worked on again, restarts included, until somebody asks for it anew
\* (docs/CHANGELOG.md: "cancelled work stays stopped until retried").
CancelledStaysStopped == \A p \in stopped : ~AtWork(p)

\* Unless a call of the database failed, a run whose history says it completed, or
\* was cancelled, has no row left running or pending in its name, and a completed
\* one has nothing left over that is not in its ledger.
HistoryIsSettled ==
    ~faulted => \A r \in Runs, p \in Albums :
        /\ history[r].status \in {"completed", "cancelled"} /\ items[p].run = r
           => items[p].status \notin {"pending", "running"}
        /\ history[r].status = "completed" /\ items[p].run = r
           /\ items[p].status \in {"failed", "deferred"}
           => p \in history[r].ledger

\* After an HTTP 402 no batch asks the AI about an album of a charged lineage
\* again: across restarts, retries and resumed runs, until the operator retries
\* the album (docs/auto-tag-evidence.md: "in that run and its automatic retry
\* lineage stop").
AiStaysBlocked == job.kind = "batch" /\ job.pc = "write" => job.cur \notin charged

\* From the moment the AI's tags are chosen, before the first file changes, the
\* album is under an unreviewed AI flag until the operator acknowledges it,
\* whatever happens to it afterwards (docs/CHANGELOG.md: "durably marked for
\* review before files change and remains flagged until acknowledged").
AiTagsFlagged ==
    \A p \in aiTagged : flags[p].reason = "ai_fallback" /\ ~flags[p].reviewed

\* What the contract sees of the service: a running row that the job does not
\* have in hand is held, and waits for nobody.
Work == [p \in Albums |-> IF AtWork(p) THEN "working"
                          ELSE IF items[p].status = "running" THEN "held"
                          ELSE IF Active(p) THEN "queued" ELSE "idle"]
Recalled == IF haltFile = NoHalt THEN {} ELSE haltFile

Contract == INSTANCE TaggingContract WITH
    work <- Work, recalled <- Recalled, serving <- Up("server"), faults <- budget["fault"]

\* The service implements the contract its documentation states: above all, every
\* start whose recovery the database did not refuse queues all that the process
\* before it left running, and nothing claimed is begun again before that.
ContractSpec == Contract!ContractSpec

\* Queued work is always served in the end: claimed, completed or withdrawn.
PendingServed ==
    \A p \in Albums : items[p].status = "pending" ~> items[p].status # "pending"

\* An interrupted or forgotten row never stays "running" for good.
RunningEnds ==
    \A p \in Albums : items[p].status = "running" ~> items[p].status # "running"

============================================================================
