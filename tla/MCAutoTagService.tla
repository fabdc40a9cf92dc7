------------------------- MODULE MCAutoTagService --------------------------
(* Small instances of the auto-tag service.  Each budget names how often   *)
(* the environment may act; whatever it leaves out never happens.          *)
EXTENDS AutoTagService, TLC

RunIds == 1 .. MaxRuns
Nothing == [k \in EnvKinds |-> 0]

\* Two requests, an operator's retry, a cancellation and a restart race with
\* two batches; or one database failure anywhere, around a cancellation, AI
\* answers and a restart.
ServiceBudgets ==
    {[Nothing EXCEPT !.request = 2, !.retry = 1, !.cancel = 1, !.crash = 1],
     [Nothing EXCEPT !.request = 1, !.cancel = 1, !.crash = 1, !.fault = 1, !.ai = 2]}

\* What must not stop the service for good.
LiveBudgets ==
    {[Nothing EXCEPT !.request = 1, !.cancel = 1, !.crash = 1, !.other = 1, !.ack = 1]}

\* A container restarted in the middle of a batch.
RestartedContainerBudgets == {[Nothing EXCEPT !.request = 1, !.crash = 1]}

\* No action reads the evidence documents here, so states that differ in them
\* alone are one.
WithoutEvidence ==
    <<items, retries, lineage, flags, haltFile, halted, pid, serviceVars, envVars, ghosts>>

Symmetry == Permutations(Albums) \cup Permutations(Pids)
============================================================================
