-------------------------- MODULE TaggingContract --------------------------
(***************************************************************************)
(* What the background tagging service promises an operator, without its   *)
(* tables, tasks or locks (docs/web-service.md, "Schedule"): an accepted   *)
(* album waits until it is worked on or withdrawn, one album is worked on  *)
(* at a time, and a restart turns interrupted work back into waiting work  *)
(* "instead of losing it or starting concurrent duplicate work".           *)
(*                                                                         *)
(* An album is "held" when it is claimed and nobody works on it: the       *)
(* process died under it, a call of the database failed, or the            *)
(* cancellation of its task has yet to withdraw it.  Nothing but a         *)
(* restart, a withdrawal or the operator's retry changes that.             *)
(***************************************************************************)
EXTENDS Naturals

CONSTANT Albums

VARIABLES
    work,        \* each album: "idle", "queued", "working" or "held"
    recalled,    \* albums whose cancellation must be completed by a restart
    serving,     \* is a service process running
    faults       \* calls of the database yet to fail

contractVars == <<work, recalled, serving, faults>>

ContractInit ==
    /\ work = [p \in Albums |-> "idle"]
    /\ recalled = {}
    /\ serving = FALSE
    /\ faults \in Nat

Places == {"idle", "queued", "working", "held"}

\* Every album stays where it is, or moves along one of the given pairs.
Moves(pairs) ==
    /\ work' \in [Albums -> Places]
    /\ \A p \in Albums : work'[p] = work[p] \/ <<work[p], work'[p]>> \in pairs

\* A call of the database may fail in any step; Fails is for a step that needs one to.
MayFail == faults' \in Nat /\ faults' <= faults
Fails == faults' \in Nat /\ faults' < faults

\* New work, or the operator's retry of work that is held.
Accept ==
    /\ serving
    /\ Moves({<<"idle", "queued">>, <<"held", "queued">>})
    /\ MayFail /\ UNCHANGED <<recalled, serving>>

\* One album at a time, and never one that is still claimed.
Begin ==
    /\ serving
    /\ \A p \in Albums : work[p] # "working"
    /\ Moves({<<"queued", "working">>})
    /\ \A p, q \in Albums : work'[p] = "working" /\ work'[q] = "working" => p = q
    /\ MayFail /\ UNCHANGED <<recalled, serving>>

End ==
    /\ serving
    /\ Moves({<<"working", "idle">>, <<"working", "queued">>, <<"working", "held">>})
    /\ MayFail /\ UNCHANGED <<recalled, serving>>

Withdraw ==
    /\ serving
    /\ Moves({<<"queued", "idle">>, <<"held", "idle">>})
    /\ MayFail /\ UNCHANGED <<recalled, serving>>

\* A cancellation that could not be recorded is left for the next start.
Recall ==
    /\ serving
    /\ recalled' \in SUBSET Albums
    /\ Moves({<<"working", "queued">>, <<"working", "held">>})
    /\ Fails /\ UNCHANGED serving

\* The process ends, and what was in hand with it.
Interrupt ==
    /\ serving
    /\ serving' = FALSE
    /\ Moves({<<"working", "queued">>, <<"working", "held">>})
    /\ \A p \in Albums : work'[p] # "working"
    /\ MayFail /\ UNCHANGED recalled

\* Nothing stays held over a start: it is queued again, or withdrawn if it was
\* recalled, and nothing else is touched.
Released ==
    [p \in Albums |->
       IF p \in recalled /\ work[p] \in {"queued", "held"} THEN "idle"
       ELSE IF work[p] = "held" THEN "queued" ELSE work[p]]

Resume ==
    /\ ~serving
    /\ serving' = TRUE
    /\ \/ work' = Released /\ recalled' = {} /\ MayFail
       \/ work' = Released /\ recalled' = recalled /\ Fails
       \/ work' = work /\ recalled' = recalled /\ Fails

ContractNext == Accept \/ Begin \/ End \/ Withdraw \/ Recall \/ Interrupt \/ Resume

ContractSpec == ContractInit /\ [][ContractNext]_contractVars

============================================================================
