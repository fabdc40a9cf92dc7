---------------------------- MODULE AppLifecycle ----------------------------
(***************************************************************************)
(* How a process with a write queue ends: the desktop app's exit handler   *)
(* (src-tauri/src/desktop.rs) with the quit guard (state/quit_guard.rs)    *)
(* and the updater (commands/updater.rs, state/updater.rs), and the web    *)
(* server's shutdown (server.rs).  The queue is WriteQueue's; the app      *)
(* installs an update through try_run_exclusive, and only the server drops *)
(* calls, when a client goes away.                                         *)
(*                                                                         *)
(* The exit handler runs on the event loop's thread and reads the queue's  *)
(* counter and the updater's flag one after the other; the app ends some   *)
(* time after it has returned.  The server ends some time after the last   *)
(* look at the counter.  The queue and the updater go on all the while.    *)
(* What tauri, its updater plugin, axum and tokio do is external.          *)
(*                                                                         *)
(* Bounds: a start says which writers make calls of their own and how many *)
(* exits, update checks and installations are asked for.                   *)
(***************************************************************************)
EXTENDS WriteQueue

CONSTANT Starts       \* the kind of process, its callers and what the user may ask

Requests == {"exit", "check", "install"}

ASSUME LifecycleAssumption ==
    Starts \subseteq [app : {"desktop", "server"}, callers : SUBSET Writers,
                     asks : [Requests -> Nat]]

VARIABLES
    app,         \* "desktop" or "server"
    callers,     \* writers with calls of their own; an installation is a call, too
    process,     \* "up", or how it ended: by an "exit" or the updater's "restart"
    installing,  \* PendingUpdateState.installing
    update,      \* is there a checked update to install
    install,     \* where coordinate_pending_install is
    installer,   \* the writer whose call it makes
    exit,        \* where the exit handler, or the server's shutdown, is
    saw,         \* what its is_active answered
    forced,      \* QuitGuard.force_exit
    dialog,      \* the dialog on screen; dialog_open is its presence
    asks         \* what is left of the start's requests

\* History variables: no action reads them.
VARIABLES
    seen,        \* calls under way when the exit was looked into, and still under way
    begun,       \* was an installation under way then, and is it still
    confirmed    \* has the user answered "Quit Anyway"

appVars == <<app, callers, process, installing, update, install, installer, exit, saw, forced,
             dialog, asks>>
ghosts == <<seen, begun, confirmed>>
lifeVars == <<appVars, ghosts>>
vars == <<queueVars, lifeVars>>

LifecycleTypeOK ==
    /\ QueueTypeOK
    /\ app \in {"desktop", "server"} /\ process \in {"up", "exit", "restart"}
    /\ installing \in BOOLEAN /\ update \in BOOLEAN
    /\ install \in {"none", "begun", "run", "failed", "succeeded"}
    /\ installer \in Writers \cup {Nobody}
    /\ installer # Nobody <=> install = "run"
    /\ installing <=> install # "none"
    /\ exit \in {"none", "requested", "read", "leaving"} /\ saw \in BOOLEAN
    /\ forced \in BOOLEAN /\ dialog \in {"none", "installation", "operation"}
    /\ callers \subseteq Writers
    /\ seen \subseteq Writers /\ begun \in BOOLEAN /\ confirmed \in BOOLEAN

LifecycleInit ==
    /\ QueueInit
    /\ \E s \in Starts : app = s.app /\ callers = s.callers /\ asks = s.asks
    /\ process = "up"
    /\ installing = FALSE /\ update = FALSE /\ install = "none" /\ installer = Nobody
    /\ exit = "none" /\ saw = FALSE /\ forced = FALSE /\ dialog = "none"
    /\ seen = {} /\ begun = FALSE /\ confirmed = FALSE

Up(kind) == process = "up" /\ app = kind
Ask(what) == asks[what] > 0 /\ asks' = [asks EXCEPT ![what] = @ - 1]

----------------------------------------------------------------------------
(* The queue goes on by itself.                                            *)

User(w) == w # installer

\* Only run_for_folder is told a folder; to the other calls any one will do.
Fits(mode, folder) == mode = "folder" \/ folder = CHOOSE f \in Folders : TRUE

UserCalls(w) ==
    /\ w \in callers /\ User(w)
    /\ \E mode \in Modes, folder \in Folders : Fits(mode, folder) /\ Call(w, mode, folder)
UserLeaves(w) == User(w) /\ Leave(w)
ClientLeaves(w) == app = "server" /\ (Drop(w) \/ LeftoverEnds(w))

CountedNow == {w \in Writers : call[w].at \in Counted}

\* What was seen and has not ended since.
StillSeen == seen' = seen \cap CountedNow' /\ UNCHANGED <<begun, confirmed>>

Step(A) == process = "up" /\ A /\ StillSeen /\ UNCHANGED appVars

----------------------------------------------------------------------------
(* The updater.                                                            *)

\* updater_check: replace refuses while an installation runs.
Check ==
    /\ Up("desktop") /\ ~installing /\ Ask("check")
    /\ update' \in BOOLEAN
    /\ UNCHANGED <<queueVars, app, callers, process, installing, install, installer, exit, saw, forced,
                   dialog, ghosts>>

\* begin_install
BeginInstall ==
    /\ Up("desktop") /\ ~installing /\ update /\ Ask("install")
    /\ installing' = TRUE /\ install' = "begun"
    /\ UNCHANGED <<queueVars, app, callers, process, update, installer, exit, saw, forced, dialog, ghosts>>

\* try_run_exclusive: refused at once while any write waits or runs.
TryInstall ==
    /\ Up("desktop") /\ install = "begun"
    /\ \/ /\ active > 0
          /\ install' = "failed"
          /\ UNCHANGED <<queueVars, installer>>
       \/ \E w \in Writers, folder \in Folders :
              Fits("try", folder) /\ Try(w, folder) /\ installer' = w /\ install' = "run"
    /\ StillSeen
    /\ UNCHANGED <<app, callers, process, installing, update, exit, saw, forced, dialog, asks>>

\* The write guard and the second look at the counter.
InstallTries ==
    /\ Up("desktop") /\ install = "run" /\ Tries(installer)
    /\ IF call'[installer].at = "idle"
       THEN install' = "failed" /\ installer' = Nobody
       ELSE UNCHANGED <<install, installer>>
    /\ StillSeen
    /\ UNCHANGED <<app, callers, process, installing, update, exit, saw, forced, dialog, asks>>

\* The download and installation end, with or without an error.
InstallEnds ==
    /\ Up("desktop") /\ install = "run" /\ Leave(installer)
    /\ install' \in {"failed", "succeeded"} /\ installer' = Nobody
    /\ StillSeen
    /\ UNCHANGED <<app, callers, process, installing, update, exit, saw, forced, dialog, asks>>

\* finish_install: a failed installation leaves the update for another try.
ClearInstalling == installing' = FALSE /\ update' = (update /\ install = "failed")

\* ... and a successful one restarts the app.
FinishInstall ==
    /\ Up("desktop") /\ install \in {"failed", "succeeded"}
    /\ ClearInstalling
    /\ install' = "none" /\ begun' = FALSE
    /\ process' = IF install = "succeeded" THEN "restart" ELSE process
    /\ UNCHANGED <<queueVars, app, callers, installer, exit, saw, forced, dialog, asks, seen, confirmed>>

----------------------------------------------------------------------------
(* Leaving the desktop app.                                                *)

\* The window is closed, or the menu's Quit is chosen.
RequestExit ==
    /\ Up("desktop") /\ exit = "none" /\ Ask("exit")
    /\ exit' = "requested"
    /\ UNCHANGED <<queueVars, app, callers, process, installing, update, install, installer, saw, forced,
                   dialog, ghosts>>

\* What an exit has to spare, noted when it is looked into.
Note == seen' = CountedNow /\ begun' = installing /\ UNCHANGED confirmed

\* queue.is_active()
HandlerReads ==
    /\ Up("desktop") /\ exit = "requested"
    /\ saw' = (active > 0)
    /\ Note
    /\ exit' = "read"
    /\ UNCHANGED <<queueVars, app, callers, process, installing, update, install, installer, forced,
                   dialog, asks>>

\* Mutant: the two answers in the other order.
SwappedProtection == IF saw THEN "operation" ELSE IF installing THEN "installation" ELSE "none"

\* updater.is_installing(), and quit_protection of the two answers.
Protection == IF installing THEN "installation" ELSE IF saw THEN "operation" ELSE "none"

Prompt(kind) == dialog' = IF dialog = "none" THEN kind ELSE dialog

\* The handler returns, with the exit prevented or not.
HandlerDecides ==
    /\ Up("desktop") /\ exit = "read"
    /\ \/ Protection = "none" /\ exit' = "leaving" /\ UNCHANGED dialog
       \/ Protection = "installation" /\ exit' = "none" /\ Prompt("installation")
       \/ Protection = "operation" /\ forced /\ exit' = "leaving" /\ UNCHANGED dialog
       \/ Protection = "operation" /\ ~forced /\ exit' = "none" /\ Prompt("operation")
    /\ UNCHANGED <<queueVars, app, callers, process, installing, update, install, installer, saw,
                   forced, asks, ghosts>>

\* finish_dialog: force_exit is never taken back.
FinishDialog(quitAnyway) == forced' = (forced \/ quitAnyway) /\ dialog' = "none"

\* "Quit Anyway" asks for an exit again, which comes back to the handler.
Answer ==
    /\ Up("desktop") /\ dialog # "none"
    /\ \/ FinishDialog(FALSE) /\ UNCHANGED <<exit, confirmed>>
       \/ /\ dialog = "operation" /\ exit = "none"
          /\ FinishDialog(TRUE) /\ exit' = "requested" /\ confirmed' = TRUE
    /\ UNCHANGED <<queueVars, app, callers, process, installing, update, install, installer, saw, asks, seen, begun>>

----------------------------------------------------------------------------
(* Stopping the server, and the end of either process.                     *)

\* The signal.  axum stops listening; requests it has accepted and background
\* jobs still make calls.
Signal ==
    /\ Up("server") /\ exit = "none" /\ Ask("exit")
    /\ exit' = "requested"
    /\ Note
    /\ UNCHANGED <<queueVars, app, callers, process, installing, update, install, installer, saw, forced,
                   dialog>>

\* wait_for_active_writes returns: it polls the counter until it finds it at zero.
Drained ==
    /\ Up("server") /\ exit = "requested" /\ active = 0
    /\ exit' = "leaving"
    /\ UNCHANGED <<queueVars, app, callers, process, installing, update, install, installer, saw, forced,
                   dialog, asks, ghosts>>

\* The end of the event loop, or of main: tokio's runtime waits for the closures
\* of spawn_blocking that were left behind, and drops every other future.
Exits ==
    /\ process = "up" /\ exit = "leaving"
    /\ app = "server" => \A w \in Writers : leftover[w] = Nowhere
    /\ process' = "exit"
    /\ UNCHANGED <<queueVars, app, callers, installing, update, install, installer, exit, saw, forced,
                   dialog, asks, ghosts>>

----------------------------------------------------------------------------
Queue(w) == Waits(w) \/ Done(w) \/ UserLeaves(w)
Updater == TryInstall \/ InstallTries \/ InstallEnds \/ FinishInstall
Handler == HandlerReads \/ HandlerDecides
NewCall == \E w \in Writers : Step(UserCalls(w))

LifecycleNext ==
    \/ NewCall \/ \E w \in Writers : Step(Queue(w) \/ ClientLeaves(w))
    \/ Check \/ BeginInstall \/ Updater
    \/ RequestExit \/ Handler \/ Answer
    \/ Signal \/ Drained \/ Exits

\* The locks wake their waiters, operations, installations and blocking closures
\* come to an end, the event loop runs and main goes on polling; no user has to
\* ask or answer anything.
LifecycleFairness ==
    /\ \A w \in Writers : WF_vars(Step(Queue(w))) /\ WF_vars(Step(LeftoverEnds(w)))
    /\ WF_vars(Updater) /\ WF_vars(Handler) /\ WF_vars(Drained) /\ WF_vars(Exits)

LifecycleSpec == LifecycleInit /\ [][LifecycleNext]_vars /\ LifecycleFairness

----------------------------------------------------------------------------
(* Properties.                                                             *)

\* What was under way when an exit was looked into (by the handler, or when the
\* signal came) has ended by the time the process does, however the queue, the
\* updater and the two looks interleave: an operation unless the user has
\* answered "Quit Anyway", an installation even then, and every call the server
\* had counted.  The answer stands for the exit it asks for again; it is not
\* taken back when that exit is refused for an installation, and then the next
\* one passes unasked, although quit_guard.rs says "exactly once".  What begins
\* after the last look may be cut off, and the property does not speak of it
\* (desktop.rs, quit_protection; server.rs, wait_for_active_writes).
ExitSparesWhatItSaw ==
    [][process' = "exit" /\ process = "up" => ~begun /\ (seen = {} \/ confirmed)]_vars

\* A server told to stop stops, unless new calls keep coming for ever: whoever
\* was dropped, refused or left waiting, no lock, place or count that was never
\* given back keeps main polling (server.rs, wait_for_active_writes).
StopsOnceCallsCease ==
    []<><<NewCall>>_vars \/ (app = "server" /\ exit = "requested" ~> process = "exit")

\* Every caller gets its turn, readers and writers alike, unless it is dropped
\* while it waits or the process ends: a refused or failed installation leaves no
\* lock and no waiting place behind.
EveryCallRuns ==
    \A w \in Writers : At(w, "coordinate") ~> Working(w) \/ At(w, "idle") \/ process # "up"
=============================================================================
