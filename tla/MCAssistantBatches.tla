------------------------- MODULE MCAssistantBatches -------------------------
(* AssistantBatches for TLC: two batches of a plan and two calls.           *)
EXTENDS AssistantBatches, TLC

CONSTANTS b1, b2, f1, f2, f3

Plan(kind, needs, files, contract) ==
    [kind |-> kind, needs |-> needs, files |-> files, contract |-> contract]

Budget(requests, applies, edits, occupied, faults, crashes) ==
    [request |-> requests, apply |-> applies, edit |-> edits, occupy |-> occupied,
     fault |-> faults, crash |-> crashes]

Both == <<f1, f2>>

PlansOfTwo ==
    {[plan |-> b1 :> Plan("metadata", {}, Both, FALSE) @@ b2 :> Plan("move", {b1}, <<f1>>, FALSE),
      budget |-> Budget(2, 2, 0, 0, 0, 1)],
     [plan |-> b1 :> Plan("metadata", {}, Both, TRUE) @@ b2 :> Plan("metadata", {}, <<f1>>, TRUE),
      budget |-> Budget(1, 2, 1, 0, 0, 0)],
     [plan |-> b1 :> Plan("move", {}, <<f1, f2, f3>>, FALSE) @@ b2 :> Plan("cover", {b1}, <<f2>>, FALSE),
      budget |-> Budget(1, 2, 0, 1, 1, 0)],
     [plan |-> b1 :> Plan("metadata", {}, Both, TRUE) @@ b2 :> Plan("task", {b1}, Both, FALSE),
      budget |-> Budget(1, 2, 0, 0, 1, 0)],
     [plan |-> b1 :> Plan("task", {}, <<f1>>, FALSE) @@ b2 :> Plan("cover", {b1}, Both, FALSE),
      budget |-> Budget(2, 2, 0, 0, 1, 1)]}

=============================================================================
