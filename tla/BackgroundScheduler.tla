------------------------ MODULE BackgroundScheduler ------------------------
(***************************************************************************)
(* The loop that keeps background tagging going (src-tauri/src/server.rs,  *)
(* start_background_library_tagging): one sweep at start-up, then every    *)
(* poll the pending rows, the crontab slot that came due (state/cron.rs    *)
(* and BackgroundState::due), and the albums whose folders changed.  Its   *)
(* settings change under it, batches and other operations hold the tagging *)
(* lock, the wall clock moves on or is set back, and the service restarts. *)
(*                                                                         *)
(* AutoTagService models what a batch does, and how a request interleaves  *)
(* with it.  Here a request enqueues and tries to start in one step, and a *)
(* row is idle, pending or running.  Time is counted in minutes, and what  *)
(* an album folder looks like is the number of changes made to it: 0 is an *)
(* album that does not exist yet.                                          *)
(*                                                                         *)
(* Bounds: MaxClock for the wall clock; a budget caps how often each thing *)
(* outside the loop happens; Limit stands for WatchQueue::LIMIT (500).     *)
(***************************************************************************)
EXTENDS Integers, Sequences, SequencesExt, FiniteSets

CONSTANTS Albums,
          Present,          \* the albums that exist when the service is first started
          Limit,
          HoursPerDay, MinutesPerHour,
          Schedules,        \* parsed crontabs: the dates, hours and minutes they match
          MaxClock,
          Starts            \* the settings found at the first start, and a budget: how
                            \* often each kind of environment step may happen

EnvKinds == {"tick", "back", "settings", "change", "request", "other", "restart", "fault"}

Never == -1
Minutes == 0 .. MaxClock
Settings == [enabled : BOOLEAN, watch : BOOLEAN, schedule : Schedules]

ASSUME SchedulerAssumption ==
    /\ Present \subseteq Albums /\ IsFiniteSet(Albums)
    /\ Limit \in Nat \ {0}
    /\ HoursPerDay \in Nat \ {0} /\ MinutesPerHour \in Nat \ {0}
    /\ MaxClock \in Nat
    /\ \A s \in Schedules : /\ s.days \subseteq Nat
                            /\ s.hours \in (SUBSET (0 .. HoursPerDay - 1)) \ {{}}
                            /\ s.minutes \in (SUBSET (0 .. MinutesPerHour - 1)) \ {{}}
    /\ Starts \subseteq [settings : Settings, budget : [EnvKinds -> Nat]]

VARIABLES
    clock,       \* the wall clock, to the minute
    settings,    \* BackgroundState.settings (memory)
    stored,      \* the settings in background-tagging.json
    last,        \* last_evaluated
    pc,          \* where the loop is
    now,         \* the clock reading of this poll
    seen,        \* what the previous scan saw of each folder; 0: not in the map
    baseline,    \* watch_baseline
    queue,       \* WatchQueue.pending
    taken,       \* the albums of this poll still to be attempted
    rows,        \* worker_items: the status of each album
    batch,       \* the albums of the batch that holds the tagging lock
    holder,      \* who holds the tagging lock
    version,     \* what each album folder looks like now
    budget       \* what is left of the budget chosen at the start

\* History variables: no action reads them.
VARIABLES
    stirred,     \* albums changed since the baseline in force
    unread,      \* albums changed since a batch last read their files
    owed,        \* those of them the watcher queued, and has not let go
    missed       \* those a refused attempt let go, a batch being past reading them

loopVars == <<last, pc, now, seen, baseline, queue, taken>>
lockVars == <<rows, batch, holder>>
ghosts == <<stirred, unread, owed, missed>>
vars == <<clock, settings, stored, loopVars, lockVars, version, budget, ghosts>>

SchedulerTypeOK ==
    /\ clock \in Minutes
    /\ settings \in Settings /\ stored \in Settings
    /\ last \in Minutes \cup {Never}
    /\ pc \in {"survey", "sleep", "pending", "due", "sweep", "watch", "refused"}
    /\ now \in Minutes
    /\ seen \in [Albums -> Nat] /\ version \in [Albums -> Nat]
    /\ baseline \in BOOLEAN
    /\ queue \in Seq(Albums) /\ Len(queue) <= Limit
    /\ taken \in Seq(Albums) /\ Len(taken) <= Limit
    /\ IsInjective(queue \o taken)
    /\ rows \in [Albums -> {"idle", "pending", "running"}]
    /\ batch \subseteq Albums
    /\ holder \in {"free", "batch", "other"}
    /\ budget \in [EnvKinds -> Nat]
    /\ {stirred, unread, owed, missed} \subseteq SUBSET Albums

Init ==
    /\ clock = 0
    /\ \E s \in Starts : settings = s.settings /\ budget = s.budget
    /\ stored = settings
    /\ last = Never
    /\ pc = "survey"
    /\ now = 0
    /\ seen = [a \in Albums |-> 0]
    /\ baseline = TRUE
    /\ queue = <<>> /\ taken = <<>>
    /\ rows = [a \in Albums |-> "idle"]
    /\ batch = {}
    /\ holder = "free"
    /\ version = [a \in Albums |-> IF a \in Present THEN 1 ELSE 0]
    /\ stirred = {} /\ unread = {} /\ owed = {} /\ missed = {}

Spend(kind) == budget[kind] > 0 /\ budget' = [budget EXCEPT ![kind] = @ - 1]
Free == UNCHANGED budget

----------------------------------------------------------------------------
(* Crontab arithmetic.                                                     *)

MinutesPerDay == HoursPerDay * MinutesPerHour
Day(t) == t \div MinutesPerDay
Hour(t) == (t \div MinutesPerHour) % HoursPerDay
Minute(t) == t % MinutesPerHour
At(day, hour, minute) == day * MinutesPerDay + hour * MinutesPerHour + minute

Least(S) == CHOOSE x \in S : \A y \in S : x <= y

\* next_value; Never stands for None.
NextValue(values, floor) ==
    LET reached == {v \in values : v >= floor} IN IF reached = {} THEN Never ELSE Least(reached)

\* Mutant: the search stops at the hour it starts in.
SlotInTheSameHour(s, day, start) ==
    LET hour == NextValue(s.hours, IF day = Day(start) THEN Hour(start) ELSE 0)
        minute == NextValue(s.minutes, IF day = Day(start) THEN Minute(start) ELSE 0)
    IN  IF hour = Never \/ minute = Never THEN Never ELSE At(day, hour, minute)

\* The body of next_after's loop for one matching date; Never moves on to the next.
SlotOn(s, day, start) ==
    LET today == day = Day(start)
        hour == NextValue(s.hours, IF today THEN Hour(start) ELSE 0)
        minute == NextValue(s.minutes, IF today /\ hour = Hour(start) THEN Minute(start) ELSE 0)
        later == NextValue(s.hours, hour + 1)
    IN  IF hour = Never THEN Never
        ELSE IF minute # Never THEN At(day, hour, minute)
        ELSE IF later # Never THEN At(day, later, Least(s.minutes)) ELSE Never

NextAfter(s, from) ==
    LET start == from + 1
        days == {d \in s.days : d >= Day(start) /\ SlotOn(s, d, start) # Never}
    IN  IF days = {} THEN Never ELSE SlotOn(s, Least(days), start)

\* next_after as a table, for every anchor due can hand it.
NextSlot == [s \in Schedules |-> [from \in Minutes \cup {Never} |-> NextAfter(s, from)]]

----------------------------------------------------------------------------
(* Durable rows and the tagging lock.                                      *)

Existing == {a \in Albums : version[a] > 0}
Fresh(S) == {a \in S : rows[a] = "idle"}
Pending == {a \in Albums : rows[a] = "pending"}
Active(a) == rows[a] # "idle"

\* record_run_checked writes the whole file, the settings in memory with it.
Launch(S) ==
    /\ batch' = S
    /\ holder' = "batch"
    /\ stored' = settings

\* start_background_batch over rows that are already pending.
StartBatch(S) ==
    IF holder = "free" THEN Launch(S) ELSE UNCHANGED <<batch, holder, stored>>

\* start_background_run_for: enqueue, then try the lock; busy leaves the rows pending.
Enqueued(S) == rows' = [a \in Albums |-> IF a \in Fresh(S) THEN "pending" ELSE rows[a]]
RunFor(S) ==
    /\ Enqueued(S)
    /\ IF Fresh(S) = {} THEN UNCHANGED <<batch, holder, stored>> ELSE StartBatch(Fresh(S))

\* Does RunFor(S) start the task?
StartsRun(S) == Fresh(S) # {} /\ holder = "free"

\* start_background_run: the directories' albums, less those skip_unchanged drops.
Sweep ==
    IF settings.enabled
    THEN \E S \in SUBSET Existing : RunFor(S)
    ELSE UNCHANGED <<lockVars, stored>>

\* Mutant: rows that were left pending wait for another request.
StartNothing == UNCHANGED <<batch, holder, stored>>

\* start_pending_background_run, gated by enabled at both its callers.
StartPending ==
    IF settings.enabled /\ Pending # {} THEN StartBatch(Pending)
    ELSE UNCHANGED <<batch, holder, stored>>

\* mark_running, then the album's files are read for the lookup.
Read(a) ==
    /\ holder = "batch" /\ a \in batch /\ rows[a] # "running"
    /\ rows' = [rows EXCEPT ![a] = "running"]
    /\ unread' = unread \ {a} /\ owed' = owed \ {a} /\ missed' = missed \ {a}
    /\ Free
    /\ UNCHANGED <<clock, settings, stored, loopVars, batch, holder, version, stirred>>

\* The album's terminal status; the last one ends the run, saved with the settings.
Settle(a) ==
    /\ holder = "batch" /\ a \in batch /\ rows[a] = "running"
    /\ rows' = [rows EXCEPT ![a] = "idle"]
    /\ batch' = batch \ {a}
    /\ IF batch = {a} THEN holder' = "free" /\ stored' = settings
                      ELSE UNCHANGED <<holder, stored>>
    /\ Free
    /\ UNCHANGED <<clock, settings, loopVars, version, ghosts>>

----------------------------------------------------------------------------
(* The loop.                                                               *)

Moves(from, to) == pc = from /\ pc' = to

\* After the survey: recovered rows first, else a sweep.
Startup ==
    /\ Moves("survey", "sleep")
    /\ IF settings.enabled /\ Pending # {}
       THEN StartBatch(Pending) /\ UNCHANGED rows
       ELSE Sweep
    /\ Free
    /\ UNCHANGED <<clock, settings, last, now, seen, baseline, queue, taken, version, ghosts>>

Wake ==
    /\ Moves("sleep", "pending")
    /\ now' = clock
    /\ Free
    /\ UNCHANGED <<clock, settings, stored, last, seen, baseline, queue, taken, lockVars,
                   version, ghosts>>

PollPending ==
    /\ Moves("pending", "due")
    /\ StartPending
    /\ Free
    /\ UNCHANGED <<clock, settings, last, now, seen, baseline, queue, taken, rows, version, ghosts>>

\* BackgroundState::due.
Anchor == IF last = Never THEN now - 1 ELSE last
Candidate == NextSlot[settings.schedule][Anchor]
\* Mutant: only the slot of the current minute counts.
IsDueThisMinute == settings.enabled /\ Candidate = now

IsDue == settings.enabled /\ Candidate \in 0 .. now

Evaluate ==
    /\ pc = "due"
    /\ IF IsDue THEN last' = Candidate /\ pc' = "sweep"
                ELSE UNCHANGED last /\ pc' = "watch"
    /\ Free
    /\ UNCHANGED <<clock, settings, stored, now, seen, baseline, queue, taken, lockVars,
                   version, ghosts>>

\* The retired slot's run: enabled is read again.
RunSlot ==
    /\ Moves("sweep", "watch")
    /\ Sweep
    /\ Free
    /\ UNCHANGED <<clock, settings, last, now, seen, baseline, queue, taken, version, ghosts>>

\* changed_albums
Changed == {a \in Existing : IF seen[a] > 0 THEN version[a] > seen[a] ELSE ~baseline}

\* WatchQueue::enqueue, one album after the other: those queued already are
\* skipped, and those that find the backlog full are dropped.
NotQueued(S) == S \ ToSet(queue)
Enqueue(order) ==
    LET room == Limit - Len(queue)
    IN  queue \o SubSeq(order, 1, IF Len(order) <= room THEN Len(order) ELSE room)

\* watched_albums, enqueue and take, in one blocking stretch; the order the
\* folders are scanned in is left open.
Watch ==
    /\ pc = "watch" /\ settings.watch /\ taken = <<>>
    /\ \E order \in SetToSeqs(NotQueued(Changed)) : taken' = Enqueue(order)
    /\ seen' = [a \in Albums |-> IF a \in Existing THEN version[a] ELSE seen[a]]
    /\ baseline' = FALSE
    /\ queue' = <<>>
    /\ pc' = IF taken' = <<>> THEN "sleep" ELSE "watch"
    /\ stirred' = IF baseline THEN {} ELSE stirred
    /\ owed' = owed \cup (Changed \cap ToSet(taken') \cap unread)
    /\ Free
    /\ UNCHANGED <<clock, settings, stored, last, now, lockVars, version, unread, missed>>

\* Watching is off: forget what was seen, what is queued, and take a new baseline.
Rearm == seen' = [a \in Albums |-> 0] /\ queue' = <<>> /\ baseline' = TRUE

StopWatching ==
    /\ ~settings.watch /\ taken = <<>> /\ Moves("watch", "sleep")
    /\ Rearm
    /\ stirred' = {}
    /\ owed' = owed \cap Pending
    /\ missed' = {}
    /\ Free
    /\ UNCHANGED <<clock, settings, stored, last, now, taken, lockVars, version, unread>>

\* What is left of this poll once its first album has been dealt with.
NextTaken == taken' = Tail(taken) /\ pc' = IF Len(taken) = 1 THEN "sleep" ELSE "watch"

StartWatched ==
    /\ pc = "watch" /\ taken # <<>>
    /\ RunFor({Head(taken)})
    /\ IF StartsRun({Head(taken)}) THEN NextTaken ELSE UNCHANGED taken /\ pc' = "refused"
    /\ Free
    /\ UNCHANGED <<clock, settings, last, now, seen, baseline, queue, version, ghosts>>

\* The insert failed, or the run could not be recorded once the lock was taken.
StartWatchedFails ==
    /\ pc = "watch" /\ taken # <<>> /\ Spend("fault")
    /\ \/ UNCHANGED rows
       \/ StartsRun({Head(taken)}) /\ Enqueued({Head(taken)})
    /\ pc' = "refused"
    /\ UNCHANGED <<clock, settings, stored, last, now, seen, baseline, queue, taken, batch,
                   holder, version, ghosts>>

\* Mutant: an album that could not start is forgotten.
RequeueNothing(a) == UNCHANGED queue

\* WatchQueue::requeue
Requeue(a) == queue' = IF Contains(queue, a) THEN queue ELSE <<a>> \o queue

\* A refused album goes back to the queue unless a row already stands for it.
Refused ==
    /\ pc = "refused"
    /\ LET a == Head(taken)
       IN  /\ IF Active(a) THEN UNCHANGED queue ELSE Requeue(a)
           /\ LET late == rows[a] = "running" /\ a \in owed
              IN  /\ owed' = IF late THEN owed \ {a} ELSE owed
                  /\ missed' = IF late THEN missed \cup {a} ELSE missed
    /\ NextTaken
    /\ Free
    /\ UNCHANGED <<clock, settings, stored, last, now, seen, baseline, lockVars, version, stirred,
                   unread>>

----------------------------------------------------------------------------
(* What happens around the loop.                                           *)

Tick ==
    /\ clock < MaxClock /\ Spend("tick")
    /\ clock' = clock + 1
    /\ UNCHANGED <<settings, stored, loopVars, lockVars, version, ghosts>>

\* The end of summer time, or a clock that is corrected.
ClockSetBack ==
    /\ clock > 0 /\ Spend("back")
    /\ \E t \in 0 .. clock - 1 : clock' = t
    /\ UNCHANGED <<settings, stored, loopVars, lockVars, version, ghosts>>

\* background:set-settings: memory first, then the file, which may fail.
SetSettings ==
    /\ Spend("settings")
    /\ \E s \in Settings \ {settings} :
           /\ settings' = s
           /\ stored' \in {s, stored}
    /\ UNCHANGED <<clock, loopVars, lockVars, version, ghosts>>

\* background:run-now
RunNow ==
    /\ Spend("request")
    /\ Sweep
    /\ UNCHANGED <<clock, settings, loopVars, version, ghosts>>

\* A manual auto-tag, an organize or another operation takes the lock.
OtherBegins ==
    /\ holder = "free" /\ Spend("other")
    /\ holder' = "other"
    /\ UNCHANGED <<clock, settings, stored, loopVars, rows, batch, version, ghosts>>

OtherEnds ==
    /\ holder = "other" /\ holder' = "free"
    /\ Free
    /\ UNCHANGED <<clock, settings, stored, loopVars, rows, batch, version, ghosts>>

\* Music is added to a folder, which may be new.
Change(a) ==
    /\ Spend("change")
    /\ version' = [version EXCEPT ![a] = @ + 1]
    /\ stirred' = stirred \cup {a} /\ unread' = unread \cup {a}
    /\ UNCHANGED <<clock, settings, stored, loopVars, lockVars, owed, missed>>

\* The process is killed and started again: rows that ran are pending again.
Restart ==
    /\ Spend("restart")
    /\ settings' = stored
    /\ last' = Never /\ pc' = "survey" /\ now' = 0
    /\ seen' = [a \in Albums |-> 0] /\ baseline' = TRUE
    /\ queue' = <<>> /\ taken' = <<>>
    /\ rows' = [a \in Albums |-> IF rows[a] = "idle" THEN "idle" ELSE "pending"]
    /\ batch' = {} /\ holder' = "free"
    /\ stirred' = {} /\ owed' = owed \cap Pending /\ missed' = {}
    /\ UNCHANGED <<clock, stored, version, unread>>

----------------------------------------------------------------------------
Loop ==
    \/ Startup \/ Wake \/ PollPending \/ Evaluate \/ RunSlot
    \/ Watch \/ StopWatching \/ StartWatched \/ Refused
Batch == \E a \in Albums : Read(a) \/ Settle(a)
Environment ==
    \/ Tick \/ ClockSetBack \/ SetSettings \/ RunNow \/ OtherBegins \/ OtherEnds
    \/ StartWatchedFails \/ Restart
    \/ \E a \in Albums : Change(a)

Next == Loop \/ Batch \/ Environment

\* The loop and a batch are tasks of the runtime and are polled; an operation
\* that holds the lock ends.  Nothing else has to happen: not even time passing.
Fairness == WF_vars(Loop) /\ WF_vars(Batch) /\ WF_vars(OtherEnds)
Spec == Init /\ [][Next]_vars /\ Fairness

----------------------------------------------------------------------------
(* Properties.                                                             *)

\* What the crontab matches, by definition.
Slots(s) == {t \in Minutes : /\ Day(t) \in s.days /\ Hour(t) \in s.hours /\ Minute(t) \in s.minutes}

\* A slot is a minute its crontab matches that has been reached; no slot fires
\* twice or out of order, even when the clock is set back, and none between two
\* slots that fire is left out (due with next_after, background.rs and cron.rs).
SlotsFireInOrder ==
    [][last' \notin {last, Never} =>
           /\ last' \in Slots(settings.schedule) /\ last' <= now
           /\ last # Never => last' > last
           /\ \A t \in Slots(settings.schedule) : t > last /\ last # Never => t >= last']_vars

\* The slots the clock has reached that have not fired.
Backlog == {t \in Slots(settings.schedule) : last < t /\ t <= clock}

\* Once a process has fired a slot, the slots the clock reaches after it all fire
\* in the end, however late the loop comes to them (docs/web-service.md, "still
\* runs late rather than being dropped"), unless tagging is switched off.
MissedSlotsCatchUp ==
    (last # Never /\ settings.enabled /\ Backlog # {})
        ~> (Backlog = {} \/ last = Never \/ ~settings.enabled)

\* Turning watching on, or restarting, never queues what was already there: an
\* album waits in the queue only if it changed after the baseline in force.
BaselineIsQuiet == ToSet(queue) \cup ToSet(taken) \subseteq stirred

\* An album the watcher queued stays in its queue or in a pending row until a
\* batch reads it, whatever refuses it in between.
WatchRemembers ==
    owed \subseteq ToSet(queue) \cup ToSet(taken) \cup Pending

\* ... and a batch does read it, while tagging and watching stay switched on.
WatchedAlbumRuns ==
    \A a \in Albums :
        (a \in owed) ~> (a \notin owed \/ ~settings.enabled \/ ~settings.watch)

\* docs/CHANGELOG.md: "Background tagging no longer loses music added while a run
\* is in progress": no queued album is let go before a batch reads it.
NothingAddedIsLost == missed = {}
============================================================================
