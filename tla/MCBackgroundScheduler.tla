----------------------- MODULE MCBackgroundScheduler -----------------------
(* BackgroundScheduler for TLC: days of two hours of two minutes, and a       *)
(* crontab that needs each way out of next_after's search.                    *)
EXTENDS BackgroundScheduler, TLC

EveryDay == 0 .. MaxClock
TwoHours == [days |-> EveryDay, hours |-> {0, 1}, minutes |-> {0}]
OneHour == [days |-> EveryDay, hours |-> {0}, minutes |-> {0, 1}]
Crontabs == {TwoHours, OneHour}

Nothing == [k \in EnvKinds |-> 0]
From(S, budgets) == [settings : S, budget : budgets]
Watching == [enabled : BOOLEAN, watch : {TRUE}, schedule : {TwoHours}]

\* The clock passes slots, and is set back, while the settings change or the
\* service restarts.
ClockStarts ==
    From(Settings, {[Nothing EXCEPT !.tick = 3, !.back = 1, !.settings = 1],
                    [Nothing EXCEPT !.tick = 5, !.restart = 1]})

\* Albums change and are found: watching is switched off and on, more albums than
\* the backlog takes, the lock is taken and a start fails, a request comes in and
\* the service restarts.
WatchStarts ==
    From(Watching, {[Nothing EXCEPT !.change = 1, !.settings = 2],
                    [Nothing EXCEPT !.change = 3],
                    [Nothing EXCEPT !.change = 2, !.other = 1, !.fault = 1],
                    [Nothing EXCEPT !.change = 1, !.request = 1, !.restart = 1]})

AllStarts == ClockStarts \cup WatchStarts
ChangesOnly == From(Watching, {[Nothing EXCEPT !.change = 2]})
=============================================================================
