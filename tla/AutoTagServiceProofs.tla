------------------------ MODULE AutoTagServiceProofs ------------------------
(***************************************************************************)
(* First the worker store, for every number of albums, runs, processes and *)
(* retry attempts and every group of calls.                                *)
(*                                                                         *)
(* Then the auto-tag pipeline around it, for any number of requests,       *)
(* cancellations, crashes and failed calls: its steps are calls of the     *)
(* store, so the store's theorems are its own; it implements the contract  *)
(* of its documentation; and what the operator relies on holds.            *)
(***************************************************************************)
EXTENDS AutoTagService, TLAPS

----------------------------------------------------------------------------
(* The store: the types of the rows the calls write.                       *)

LEMMA RowTypes ==
    /\ NoItem \in Row /\ PendingRow \in Row
    /\ NoRetry \in Retry /\ NoFlag \in Flag
  BY StoreAssumption
     DEF StoreAssumption, NoItem, PendingRow, NoRetry, NoFlag, Row, Retry, Flag,
         Statuses, ActiveStatuses

\* A retry row stays within the attempt budget.
LEMMA NextRetryType ==
    ASSUME TypeOK, NEW p \in Albums, NEW origin \in Runs
    PROVE  /\ NextRetry(p, origin) \in Retry
           /\ NextRetry(p, origin).attempt > 0
           /\ retries[p].attempt > 0 => NextRetry(p, origin).origin = retries[p].origin
           /\ retries[p].attempt = 0 => NextRetry(p, origin).origin = origin
  BY StoreAssumption DEF StoreAssumption, TypeOK, NextRetry, Exhausted, Retry

LEMMA WithdrawnType == ASSUME NEW row \in Row PROVE Withdrawn(row) \in Row
  BY DEF Withdrawn, Row, Statuses, SettledStatuses

LEMMA RecoveredType ==
    ASSUME TypeOK, NEW p \in Albums, NEW alive PROVE Recovered(p, alive) \in Row
<1> DEFINE row == IF haltFile # NoHalt /\ p \in haltFile THEN Withdrawn(items[p]) ELSE items[p]
<1>1. row \in Row
  BY WithdrawnType DEF TypeOK
<1>2. [row EXCEPT !.status = "pending", !.run = NoRun] \in Row
  BY <1>1 DEF Row, Statuses, ActiveStatuses
<1> HIDE DEF row
<1>3. (IF row.status = "running" /\ (row.owner = NoOwner \/ row.owner.pid \notin alive)
       THEN [row EXCEPT !.status = "pending", !.run = NoRun] ELSE row) \in Row
  BY <1>1, <1>2
<1>4. QED BY <1>3 DEF Recovered, row

LEMMA TerminalType ==
    ASSUME TypeOK, NEW p \in Albums, NEW r \in Runs, NEW patch \in SUBSET EvidenceKeys
    PROVE  Terminal(p, r, patch) \in SUBSET EvidenceKeys
<1> DEFINE merged == (evidence[p][r] \ ProofKeys) \cup patch \cup {"diagnostic"}
<1>1. merged \in SUBSET EvidenceKeys /\ merged \cup {"publication"} \in SUBSET EvidenceKeys
  <2>1. evidence[p][r] \in SUBSET EvidenceKeys
    BY DEF TypeOK
  <2>2. {"diagnostic", "publication"} \in SUBSET EvidenceKeys
    BY DEF EvidenceKeys, ProofKeys
  <2>3. QED BY <2>1, <2>2
<1> HIDE DEF merged
<1>2. (IF "proof" \in merged THEN merged \cup {"publication"} ELSE merged) \in SUBSET EvidenceKeys
  BY <1>1
<1>3. QED BY <1>2 DEF Terminal, merged

LEMMA OriginType ==
    ASSUME TypeOK, NEW p \in Albums, NEW r \in Runs PROVE OriginOf(p, r) \in Runs
  BY DEF TypeOK, OriginOf, Retry

LEMMA OutcomeTypes ==
    ASSUME NEW o \in Outcomes
    PROVE  o[1] \in SettledStatuses /\ o[2] \in SUBSET EvidenceKeys
  BY DEF Outcomes, SettledStatuses, EvidenceKeys, ProofKeys

----------------------------------------------------------------------------
(* Type correctness.                                                       *)

LEMMA CallsKeepTypes ==
    ASSUME TypeOK
    PROVE  /\ \A S \in SUBSET Albums : InsertPending(S) => TypeOK'
           /\ \A S \in SUBSET Albums : Requeue(S) => TypeOK'
           /\ \A p \in Albums, r \in Runs : Up("server") /\ MarkRunning(p, r) => TypeOK'
           /\ \A p \in Albums, r \in Runs : Up("desktop") /\ ClaimDesktop(p, r) => TypeOK'
           /\ \A S \in SUBSET Albums : CancelPaths(S) => TypeOK'
           /\ \A S \in SUBSET Albums, filed \in BOOLEAN : CancelFailed(S, filed) => TypeOK'
           /\ \A S \in SUBSET Albums, r \in Runs : BindRun(S, r) => TypeOK'
<1>1. ASSUME NEW S \in SUBSET Albums, InsertPending(S) PROVE TypeOK'
  BY <1>1, RowTypes DEF InsertPending, TypeOK
<1>2. ASSUME NEW S \in SUBSET Albums, Requeue(S) PROVE TypeOK'
  BY <1>2, RowTypes DEF Requeue, TypeOK
<1>3. ASSUME NEW p \in Albums, NEW r \in Runs, Up("server"), MarkRunning(p, r) PROVE TypeOK'
  BY <1>3 DEF Up, MarkRunning, TypeOK, Row, Owners, Runtimes, Statuses, ActiveStatuses
<1>4. ASSUME NEW p \in Albums, NEW r \in Runs, Up("desktop"), ClaimDesktop(p, r) PROVE TypeOK'
  BY <1>4, RowTypes
     DEF Up, ClaimDesktop, TypeOK, Row, Owners, Runtimes, Statuses, ActiveStatuses
<1>5. ASSUME NEW S \in SUBSET Albums, CancelPaths(S) PROVE TypeOK'
  BY <1>5, WithdrawnType DEF CancelPaths, TypeOK
<1>6. ASSUME NEW S \in SUBSET Albums, NEW filed \in BOOLEAN, CancelFailed(S, filed) PROVE TypeOK'
  BY <1>6 DEF CancelFailed, TypeOK, Runtimes
<1>7. ASSUME NEW S \in SUBSET Albums, NEW r \in Runs, BindRun(S, r) PROVE TypeOK'
  BY <1>7 DEF BindRun, TypeOK
<1>8. QED BY <1>1, <1>2, <1>3, <1>4, <1>5, <1>6, <1>7

LEMMA CompletionsKeepTypes ==
    ASSUME TypeOK, NEW p \in Albums, NEW r \in Runs, NEW patch \in SUBSET EvidenceKeys
    PROVE  /\ \A status \in SettledStatuses : Finish(p, r, status, patch) => TypeOK'
           /\ \A origin \in Runs : FinishDeferred(p, r, origin, patch) => TypeOK'
           /\ Checkpoint(p, r, patch) => TypeOK'
<1>1. WriteTerminal(p, r, patch) => evidence' \in [Albums -> [Runs -> SUBSET EvidenceKeys]]
  BY TerminalType DEF WriteTerminal, TypeOK
<1>2. ASSUME NEW status \in SettledStatuses, Finish(p, r, status, patch) PROVE TypeOK'
  <2>1. items' \in [Albums -> Row]
    BY <1>2, ZenonT(30) DEF Finish, TypeOK, Row, Statuses
  <2>2. flags' \in [Albums -> Flag]
    BY <1>2, RowTypes DEF Finish, TypeOK
  <2>3. QED BY <1>1, <1>2, <2>1, <2>2 DEF Finish, TypeOK
<1>3. ASSUME NEW origin \in Runs, FinishDeferred(p, r, origin, patch) PROVE TypeOK'
  <2>1. items' \in [Albums -> Row]
    <3> DEFINE status == IF Exhausted(p) THEN "needs_review" ELSE "deferred"
    <3>1. status \in Statuses
      BY DEF Statuses, ActiveStatuses, SettledStatuses
    <3>2. items' = [items EXCEPT ![p] = [@ EXCEPT !.status = status, !.run = r]]
      BY <1>3 DEF FinishDeferred
    <3> HIDE DEF status
    <3>3. QED BY <3>1, <3>2 DEF TypeOK, Row
  <2>2. retries' \in [Albums -> Retry]
    BY <1>3, NextRetryType DEF FinishDeferred, TypeOK
  <2>3. QED BY <1>1, <1>3, <2>1, <2>2 DEF FinishDeferred, TypeOK
<1>4. Checkpoint(p, r, patch) => TypeOK'
  BY DEF Checkpoint, TypeOK
<1>5. QED BY <1>2, <1>3, <1>4

LEMMA ReviewsKeepTypes ==
    ASSUME TypeOK, NEW p \in Albums
    PROVE  /\ \A r \in Runs, reason \in FlagReasons : RecordFlag(p, reason, r) => TypeOK'
           /\ \A whole \in BOOLEAN : MarkReviewed(p, whole) => TypeOK'
<1>1. ASSUME NEW r \in Runs, NEW reason \in FlagReasons, RecordFlag(p, reason, r) PROVE TypeOK'
  BY <1>1 DEF RecordFlag, TypeOK, Flag
<1>2. ASSUME NEW whole \in BOOLEAN, MarkReviewed(p, whole) PROVE TypeOK'
  <2>1. Acknowledged(p) \in Flag
    BY DEF Acknowledged, TypeOK, Flag
  <2>2. [items EXCEPT ![p].status = "completed"] \in [Albums -> Row]
    BY DEF TypeOK, Row, Statuses, SettledStatuses
  <2>3. QED BY <1>2, <2>1, <2>2 DEF MarkReviewed, TypeOK
<1>3. QED BY <1>1, <1>2

LEMMA ProcessesKeepTypes ==
    ASSUME TypeOK
    PROVE  /\ \A q \in Pids : OpenDesktop(q) => TypeOK'
           /\ \A q \in Pids, result \in {"recovered", "markerKept", "failed"} :
                 OpenServer(q, result) => TypeOK'
           /\ \A rt \in Runtimes : Exit(rt) => TypeOK'
           /\ \A p \in Albums : DeadlinePasses(p) => TypeOK'
<1>1. ASSUME NEW q \in Pids, OpenDesktop(q) PROVE TypeOK'
  BY <1>1 DEF OpenDesktop, TypeOK, tables, Runtimes
<1>2. ASSUME NEW q \in Pids, NEW result \in {"recovered", "markerKept", "failed"},
             OpenServer(q, result)
      PROVE  TypeOK'
  BY <1>2, RecoveredType DEF OpenServer, TypeOK, Runtimes
<1>3. ASSUME NEW rt \in Runtimes, Exit(rt) PROVE TypeOK'
  BY <1>3 DEF Exit, TypeOK, tables
<1>4. ASSUME NEW p \in Albums, DeadlinePasses(p) PROVE TypeOK'
  BY <1>4 DEF DeadlinePasses, TypeOK, Retry
<1>5. QED BY <1>1, <1>2, <1>3, <1>4

LEMMA StepKeepsTypes == TypeOK /\ [StoreNext]_storeVars => TypeOK'
<1> SUFFICES ASSUME TypeOK, [StoreNext]_storeVars PROVE TypeOK'
  OBVIOUS
<1>1. CASE Up("server") /\ ServerCall
  BY <1>1, CallsKeepTypes, CompletionsKeepTypes, OutcomeTypes
     DEF ServerCall, Fresh, SettledStatuses
<1>2. CASE \E p \in Albums, whole \in BOOLEAN :
              Up("server") /\ "review" \in Calls /\ MarkReviewed(p, whole)
  BY <1>2, ReviewsKeepTypes
<1>3. CASE \E p \in Albums, r \in Runs : Up("desktop") /\ ClaimDesktop(p, r)
  BY <1>3, CallsKeepTypes
<1>4. CASE EitherCall
  <2>1. {"diagnostic"} \in SUBSET EvidenceKeys
    BY DEF EvidenceKeys
  <2>2. ASSUME NEW p \in Albums, NEW r \in Runs, NEW o \in Outcomes,
               Finish(p, r, o[1], o[2])
        PROVE  TypeOK'
    BY <2>2, CompletionsKeepTypes, OutcomeTypes
  <2>3. ASSUME NEW p \in Albums, NEW r \in Runs, Checkpoint(p, r, {"diagnostic"})
        PROVE  TypeOK'
    BY <2>1, <2>3, CompletionsKeepTypes
  <2>4. QED BY <1>4, <2>2, <2>3, ReviewsKeepTypes DEF EitherCall
<1>5. CASE \E q \in Pids : OpenDesktop(q)
  BY <1>5, ProcessesKeepTypes
<1>6. CASE \E q \in Pids, result \in {"recovered", "markerKept", "failed"} :
              OpenServer(q, result)
  BY <1>6, ProcessesKeepTypes
<1>7. CASE \E rt \in Runtimes : Exit(rt)
  BY <1>7, ProcessesKeepTypes
<1>8. CASE \E p \in Albums : DeadlinePasses(p)
  BY <1>8, ProcessesKeepTypes
<1>9. CASE UNCHANGED storeVars
  BY <1>9 DEF storeVars, TypeOK
<1>10. QED BY <1>1, <1>2, <1>3, <1>4, <1>5, <1>6, <1>7, <1>8, <1>9 DEF StoreNext

\* Every call, crash and restart leaves the tables, the marker and the process
\* table well formed.
THEOREM TypeCorrect == StoreSpec => []TypeOK
<1>1. StoreInit => TypeOK
  BY RowTypes DEF StoreInit, TypeOK
<1>2. QED BY <1>1, StepKeepsTypes, PTL DEF StoreSpec

----------------------------------------------------------------------------
(* A deferred album keeps the retry row that brings it back.               *)

\* DeferredHasRetry is not inductive alone: an exhausted budget leaves the
\* retry row as it was, so its origin has to be known for every row.
RetryHasOrigin == \A p \in Albums : retries[p].attempt > 0 => retries[p].origin # NoRun

RetryInv == TypeOK /\ RetryHasOrigin /\ DeferredHasRetry

LEMMA RetryInvInit == StoreInit => RetryInv
<1> SUFFICES ASSUME StoreInit PROVE RetryInv
  OBVIOUS
<1>1. TypeOK
  BY RowTypes DEF StoreInit, TypeOK
<1>2. RetryHasOrigin /\ DeferredHasRetry
  BY DEF StoreInit, RetryHasOrigin, DeferredHasRetry, NoRetry, NoItem
<1>3. QED BY <1>1, <1>2 DEF RetryInv

\* What a step may do to the two rows of one album, as the invariant sees it.
Keeps(p) ==
    \/ /\ retries'[p] = NoRetry
       /\ items'[p].status # "deferred"
    \/ /\ retries'[p].attempt > 0 /\ retries'[p].origin # NoRun
    \/ /\ retries'[p] = retries[p]
       /\ items'[p].status = "deferred" => items[p].status = "deferred"

LEMMA StepKeepsRetries ==
    ASSUME RetryInv, StoreNext, NEW p \in Albums PROVE Keeps(p)
<1> USE DEF RetryInv
<1>1. ASSUME NEW S \in SUBSET Albums, InsertPending(S) PROVE Keeps(p)
  BY <1>1 DEF InsertPending, PendingRow, Keeps
<1>2. ASSUME NEW S \in SUBSET Albums, Requeue(S) PROVE Keeps(p)
  BY <1>2 DEF Requeue, PendingRow, Keeps
<1>3. ASSUME NEW a \in Albums, NEW r \in Runs, MarkRunning(a, r) PROVE Keeps(p)
  BY <1>3 DEF MarkRunning, TypeOK, Keeps
<1>4. ASSUME NEW a \in Albums, NEW r \in Runs, ClaimDesktop(a, r) PROVE Keeps(p)
  BY <1>4 DEF ClaimDesktop, TypeOK, Keeps
<1>5. ASSUME NEW S \in SUBSET Albums, CancelPaths(S) PROVE Keeps(p)
  BY <1>5 DEF CancelPaths, Withdrawn, TypeOK, Row, Keeps
<1>6. ASSUME NEW a \in Albums, NEW r \in Runs, NEW o \in Outcomes, Finish(a, r, o[1], o[2])
      PROVE  Keeps(p)
  BY <1>6, OutcomeTypes DEF Finish, TypeOK, Row, SettledStatuses, Keeps
<1>7. ASSUME NEW a \in Albums, NEW r \in Runs, NEW origin \in Runs, NEW patch,
             FinishDeferred(a, r, origin, patch)
      PROVE  Keeps(p)
  <2>1. NextRetry(a, origin).attempt > 0
    BY NextRetryType
  <2>2. NextRetry(a, origin).origin # NoRun
    BY StoreAssumption DEF StoreAssumption, NextRetry, RetryHasOrigin, Exhausted, TypeOK, Retry
  <2>3. QED BY <1>7, <2>1, <2>2 DEF FinishDeferred, TypeOK, Keeps
<1>8. ASSUME NEW a \in Albums, NEW whole \in BOOLEAN, MarkReviewed(a, whole) PROVE Keeps(p)
  BY <1>8 DEF MarkReviewed, TypeOK, Row, Keeps
<1>9. ASSUME NEW q \in Pids, NEW result, OpenServer(q, result) PROVE Keeps(p)
  BY <1>9 DEF OpenServer, Recovered, Withdrawn, TypeOK, Row, Keeps
<1>10. ASSUME NEW a \in Albums, DeadlinePasses(a) PROVE Keeps(p)
  BY <1>10 DEF DeadlinePasses, TypeOK, Retry, RetryHasOrigin, Keeps
<1>11. ASSUME UNCHANGED <<items, retries>> PROVE Keeps(p)
  BY <1>11 DEF Keeps
<1>12. CASE Up("server") /\ ServerCall
  BY <1>12, <1>1, <1>2, <1>3, <1>5, <1>7, <1>11
     DEF ServerCall, Fresh, CancelFailed, BindRun
<1>13. CASE EitherCall
  BY <1>13, <1>6, <1>11 DEF EitherCall, Checkpoint, RecordFlag
<1>14. CASE \E q \in Pids : OpenDesktop(q)
  BY <1>14, <1>11 DEF OpenDesktop, tables
<1>15. CASE \E rt \in Runtimes : Exit(rt)
  BY <1>15, <1>11 DEF Exit, tables
<1>16. QED BY <1>4, <1>8, <1>9, <1>10, <1>12, <1>13, <1>14, <1>15 DEF StoreNext

\* A deferred album always has a retry row within the budget and with a run
\* to charge it to (schedule_retry, and every call that drops the row).
THEOREM DeferralKeepsRetry == StoreSpec => []DeferredHasRetry
<1>1. RetryInv /\ [StoreNext]_storeVars => RetryInv'
  <2> SUFFICES ASSUME RetryInv, [StoreNext]_storeVars PROVE RetryInv'
    OBVIOUS
  <2>1. TypeOK'
    BY StepKeepsTypes DEF RetryInv
  <2>2. CASE StoreNext
    <3>1. ASSUME NEW p \in Albums
          PROVE  /\ retries'[p].attempt > 0 => retries'[p].origin # NoRun
                 /\ items'[p].status = "deferred" =>
                       retries'[p].attempt > 0 /\ retries'[p].origin # NoRun
      BY <2>2, StepKeepsRetries
         DEF RetryInv, RetryHasOrigin, DeferredHasRetry, Keeps, NoRetry
    <3>2. QED BY <2>1, <3>1 DEF RetryInv, RetryHasOrigin, DeferredHasRetry
  <2>3. CASE UNCHANGED storeVars
    BY <2>1, <2>3 DEF RetryInv, RetryHasOrigin, DeferredHasRetry, storeVars
  <2>4. QED BY <2>2, <2>3
<1>2. QED BY <1>1, RetryInvInit, PTL DEF StoreSpec, RetryInv

----------------------------------------------------------------------------
(* Proofs and claims of success.                                           *)

LEMMA OutcomeProofs ==
    ASSUME NEW o \in Outcomes
    PROVE  /\ "publication" \notin o[2]
           /\ "basis" \in o[2] => "proof" \in o[2]
  BY DEF Outcomes

\* What a document must satisfy, and what keeps it so.
Published(doc) ==
    /\ "proof" \in doc <=> "publication" \in doc
    /\ "basis" \in doc => "proof" \in doc

LEMMA TerminalIsPublished ==
    ASSUME NEW p \in Albums, NEW r \in Runs, NEW patch,
           "publication" \notin patch, "basis" \in patch => "proof" \in patch
    PROVE  Published(Terminal(p, r, patch))
<1> DEFINE merged == (evidence[p][r] \ ProofKeys) \cup patch \cup {"diagnostic"}
<1>1. /\ "proof" \in merged <=> "proof" \in patch
      /\ "basis" \in merged <=> "basis" \in patch
      /\ "publication" \notin merged
  BY DEF ProofKeys
<1> HIDE DEF merged
<1>2. Published(IF "proof" \in merged THEN merged \cup {"publication"} ELSE merged)
  BY <1>1 DEF Published
<1>3. QED BY <1>2 DEF Terminal, merged

\* ProofIsPublished is preserved by a step that writes at most one document.
Wrote(doc) ==
    \E p \in Albums, r \in Runs :
        evidence' = [evidence EXCEPT ![p][r] = doc] /\ Published(doc)

LEMMA WriteKeepsPublished ==
    ASSUME TypeOK, ProofIsPublished, NEW doc, Wrote(doc) PROVE ProofIsPublished'
  BY DEF TypeOK, ProofIsPublished, Wrote, Published

\* A document never claims a verified core, nor carries a proof, that a
\* terminal transaction did not publish (merged_terminal_evidence,
\* publish_core_receipts, checkpoint_evidence).
THEOREM ProofsArePublished == StoreSpec => []ProofIsPublished
<1>1. StoreInit => ProofIsPublished
  BY DEF StoreInit, ProofIsPublished
<1>2. TypeOK /\ ProofIsPublished /\ [StoreNext]_storeVars => ProofIsPublished'
  <2> SUFFICES ASSUME TypeOK, ProofIsPublished, [StoreNext]_storeVars PROVE ProofIsPublished'
    OBVIOUS
  <2>1. ASSUME UNCHANGED evidence PROVE ProofIsPublished'
    BY <2>1 DEF ProofIsPublished
  <2>2. ASSUME NEW p \in Albums, NEW r \in Runs, NEW o \in Outcomes, WriteTerminal(p, r, o[2])
        PROVE  ProofIsPublished'
    BY <2>2, OutcomeProofs, TerminalIsPublished, WriteKeepsPublished DEF WriteTerminal, Wrote
  <2>3. ASSUME NEW p \in Albums, NEW r \in Runs, Checkpoint(p, r, {"diagnostic"})
        PROVE  ProofIsPublished'
    <3>1. Published(evidence[p][r] \cup {"diagnostic"})
      BY DEF ProofIsPublished, Published
    <3>2. QED BY <2>3, <3>1, WriteKeepsPublished DEF Checkpoint, Wrote
  <2>4. CASE Up("server") /\ ServerCall
    BY <2>4, <2>1, <2>2
       DEF ServerCall, InsertPending, Requeue, MarkRunning, CancelPaths, CancelFailed,
           BindRun, FinishDeferred
  <2>5. CASE EitherCall
    BY <2>5, <2>1, <2>2, <2>3 DEF EitherCall, Finish, RecordFlag
  <2>6. CASE \/ \E p \in Albums, whole \in BOOLEAN : MarkReviewed(p, whole)
             \/ \E p \in Albums, r \in Runs : ClaimDesktop(p, r)
             \/ \E q \in Pids : OpenDesktop(q)
             \/ \E q \in Pids, result \in {"recovered", "markerKept", "failed"} :
                   OpenServer(q, result)
             \/ \E rt \in Runtimes : Exit(rt)
             \/ \E p \in Albums : DeadlinePasses(p)
    BY <2>6, <2>1
       DEF MarkReviewed, ClaimDesktop, OpenDesktop, OpenServer, Exit, DeadlinePasses, tables
  <2>7. CASE UNCHANGED storeVars
    BY <2>7, <2>1 DEF storeVars
  <2>8. QED BY <2>4, <2>5, <2>6, <2>7 DEF StoreNext
<1>3. QED BY <1>1, <1>2, TypeCorrect, PTL DEF StoreSpec

----------------------------------------------------------------------------
(* AI flags.                                                               *)

\* One step never takes an unreviewed AI flag away or turns it into another.
LEMMA FlagStep ==
    ASSUME TypeOK, StoreNext, NEW p \in Albums,
           flags[p].reason = "ai_fallback", ~flags[p].reviewed
    PROVE  flags'[p].reason = "ai_fallback"
<1>1. ASSUME UNCHANGED flags PROVE flags'[p].reason = "ai_fallback"
  BY <1>1
<1>2. ASSUME NEW a \in Albums, NEW r \in Runs, NEW o \in Outcomes, Finish(a, r, o[1], o[2])
      PROVE  flags'[p].reason = "ai_fallback"
  BY <1>2 DEF Finish, TypeOK
<1>3. ASSUME NEW a \in Albums, NEW r \in Runs, NEW reason \in FlagReasons,
             RecordFlag(a, reason, r)
      PROVE  flags'[p].reason = "ai_fallback"
  BY <1>3 DEF RecordFlag, FlagReasons, TypeOK
<1>4. ASSUME NEW a \in Albums, NEW whole \in BOOLEAN, MarkReviewed(a, whole)
      PROVE  flags'[p].reason = "ai_fallback"
  BY <1>4 DEF MarkReviewed, Acknowledged, TypeOK, Flag
<1>5. CASE Up("server") /\ ServerCall
  BY <1>5, <1>1
     DEF ServerCall, InsertPending, Requeue, MarkRunning, CancelPaths, CancelFailed,
         BindRun, FinishDeferred
<1>6. CASE EitherCall
  BY <1>6, <1>1, <1>2, <1>3 DEF EitherCall, Checkpoint
<1>7. CASE \/ \E a \in Albums, r \in Runs : ClaimDesktop(a, r)
           \/ \E q \in Pids : OpenDesktop(q)
           \/ \E q \in Pids, result \in {"recovered", "markerKept", "failed"} :
                 OpenServer(q, result)
           \/ \E rt \in Runtimes : Exit(rt)
           \/ \E a \in Albums : DeadlinePasses(a)
  BY <1>7, <1>1 DEF ClaimDesktop, OpenDesktop, OpenServer, Exit, DeadlinePasses, tables
<1>8. QED BY <1>4, <1>5, <1>6, <1>7 DEF StoreNext

\* The flag of an AI-written album survives every call and every restart until
\* the operator acknowledges it (record_review_flag, finish_with_evidence).
THEOREM AiFlagSurvives == StoreSpec => AiFlagKept
<1>1. TypeOK /\ [StoreNext]_storeVars =>
        [\A p \in Albums :
            flags[p].reason = "ai_fallback" /\ ~flags[p].reviewed =>
               flags'[p].reason = "ai_fallback"]_storeVars
  BY FlagStep
<1>2. QED BY <1>1, TypeCorrect, PTL DEF StoreSpec, AiFlagKept

----------------------------------------------------------------------------
(* Retry budget.                                                           *)

\* One step gives nothing back to an album that used up its attempts.
LEMMA BudgetStep ==
    ASSUME TypeOK, StoreNext, NEW p \in Albums, Exhausted(p)
    PROVE  /\ items[p].status # "deferred" => items'[p].status # "deferred"
           /\ Exhausted(p)' \/ lineage'[p] = NoRun
<1> DEFINE Held == /\ items[p].status # "deferred" => items'[p].status # "deferred"
                   /\ Exhausted(p)' \/ lineage'[p] = NoRun
<1> SUFFICES Held
  OBVIOUS
<1> USE DEF Exhausted
<1>1. ASSUME NEW S \in SUBSET Albums, InsertPending(S) PROVE Held
  BY <1>1 DEF InsertPending, PendingRow
<1>2. ASSUME NEW S \in SUBSET Albums, Requeue(S) PROVE Held
  BY <1>2 DEF Requeue, PendingRow, TypeOK
<1>3. ASSUME NEW a \in Albums, NEW r \in Runs, MarkRunning(a, r) PROVE Held
  BY <1>3 DEF MarkRunning, TypeOK
<1>4. ASSUME NEW a \in Albums, NEW r \in Runs, ClaimDesktop(a, r) PROVE Held
  BY <1>4 DEF ClaimDesktop, TypeOK
<1>5. ASSUME NEW S \in SUBSET Albums, CancelPaths(S) PROVE Held
  BY <1>5 DEF CancelPaths, Withdrawn, TypeOK, Row
<1>6. ASSUME NEW a \in Albums, NEW r \in Runs, NEW o \in Outcomes, Finish(a, r, o[1], o[2])
      PROVE  Held
  BY <1>6, OutcomeTypes DEF Finish, TypeOK, Row, SettledStatuses
<1>7. ASSUME NEW a \in Albums, NEW r \in Runs, NEW origin \in Runs, NEW patch,
             FinishDeferred(a, r, origin, patch)
      PROVE  Held
  <2>1. CASE a = p
    BY <1>7, <2>1 DEF FinishDeferred, NextRetry, TypeOK, Row
  <2>2. CASE a # p
    BY <1>7, <2>2 DEF FinishDeferred, TypeOK
  <2>3. QED BY <2>1, <2>2
<1>8. ASSUME NEW a \in Albums, NEW whole \in BOOLEAN, MarkReviewed(a, whole) PROVE Held
  BY <1>8 DEF MarkReviewed, TypeOK, Row
<1>9. ASSUME NEW q \in Pids, NEW result, OpenServer(q, result) PROVE Held
  BY <1>9 DEF OpenServer, Recovered, Withdrawn, TypeOK, Row
<1>10. ASSUME NEW a \in Albums, DeadlinePasses(a) PROVE Held
  BY <1>10 DEF DeadlinePasses, TypeOK, Retry
<1>11. ASSUME UNCHANGED <<items, retries>> PROVE Held
  BY <1>11
<1>12. CASE Up("server") /\ ServerCall
  BY <1>12, <1>1, <1>2, <1>3, <1>5, <1>7, <1>11
     DEF ServerCall, Fresh, CancelFailed, BindRun
<1>13. CASE EitherCall
  BY <1>13, <1>6, <1>11 DEF EitherCall, Checkpoint, RecordFlag
<1>14. CASE \E q \in Pids : OpenDesktop(q)
  BY <1>14, <1>11 DEF OpenDesktop, tables
<1>15. CASE \E rt \in Runtimes : Exit(rt)
  BY <1>15, <1>11 DEF Exit, tables
<1>16. QED BY <1>4, <1>8, <1>9, <1>10, <1>12, <1>13, <1>14, <1>15 DEF StoreNext

\* No restart, re-enqueue or other run gives an exhausted album new automatic
\* retries (schedule_retry); only a retry or a desktop run does.
THEOREM BudgetIsKept == StoreSpec => RetryBudgetSpent
<1>1. TypeOK /\ [StoreNext]_storeVars =>
        [\A p \in Albums :
            Exhausted(p) => /\ items[p].status # "deferred" => items'[p].status # "deferred"
                            /\ Exhausted(p)' \/ lineage'[p] = NoRun]_storeVars
  BY BudgetStep
<1>2. QED BY <1>1, TypeCorrect, PTL DEF StoreSpec, RetryBudgetSpent

----------------------------------------------------------------------------
(* Takeovers.                                                              *)

\* What NoTakeover rests on: a running row names the process and the run that
\* work on it.
RunningIsOwned ==
    \A p \in Albums : items[p].status = "running" =>
        items[p].owner \in Owners /\ items[p].run \in Runs

\* One album's row after a step that made nothing running.
NotMadeRunning(p) ==
    items'[p].status = "running" =>
        /\ items[p].status = "running"
        /\ items'[p].owner = items[p].owner
        /\ items'[p].run = items[p].run

LEMMA StepKeepsOwners == TypeOK /\ RunningIsOwned /\ [StoreNext]_storeVars => RunningIsOwned'
<1> SUFFICES ASSUME TypeOK, RunningIsOwned, [StoreNext]_storeVars, NEW p \in Albums,
                    items'[p].status = "running"
             PROVE  items'[p].owner \in Owners /\ items'[p].run \in Runs
  BY DEF RunningIsOwned
<1>1. ASSUME NotMadeRunning(p) PROVE items'[p].owner \in Owners /\ items'[p].run \in Runs
  BY <1>1 DEF NotMadeRunning, RunningIsOwned
<1>2. ASSUME NEW S \in SUBSET Albums, InsertPending(S) PROVE NotMadeRunning(p)
  BY <1>2 DEF InsertPending, PendingRow, NotMadeRunning
<1>3. ASSUME NEW S \in SUBSET Albums, Requeue(S) PROVE NotMadeRunning(p)
  BY <1>3 DEF Requeue, PendingRow, NotMadeRunning
<1>4. ASSUME NEW a \in Albums, NEW r \in Runs, Up("server"), MarkRunning(a, r)
      PROVE  items'[p].owner \in Owners /\ items'[p].run \in Runs
  BY <1>4 DEF MarkRunning, Up, TypeOK, RunningIsOwned, Owners, Runtimes
<1>5. ASSUME NEW a \in Albums, NEW r \in Runs, Up("desktop"), ClaimDesktop(a, r)
      PROVE  items'[p].owner \in Owners /\ items'[p].run \in Runs
  BY <1>5 DEF ClaimDesktop, Up, TypeOK, RunningIsOwned, Owners, Runtimes
<1>6. ASSUME NEW S \in SUBSET Albums, CancelPaths(S) PROVE NotMadeRunning(p)
  BY <1>6 DEF CancelPaths, Withdrawn, TypeOK, Row, NotMadeRunning
<1>7. ASSUME NEW a \in Albums, NEW r \in Runs, NEW o \in Outcomes, Finish(a, r, o[1], o[2])
      PROVE  NotMadeRunning(p)
  BY <1>7, OutcomeTypes, ZenonT(30) DEF Finish, TypeOK, Row, SettledStatuses, NotMadeRunning
<1>8. ASSUME NEW a \in Albums, NEW r \in Runs, NEW origin, NEW patch,
             FinishDeferred(a, r, origin, patch)
      PROVE  NotMadeRunning(p)
  <2> DEFINE status == IF Exhausted(a) THEN "needs_review" ELSE "deferred"
  <2>1. items' = [items EXCEPT ![a] = [@ EXCEPT !.status = status, !.run = r]]
    BY <1>8 DEF FinishDeferred
  <2>2. status # "running"
    OBVIOUS
  <2> HIDE DEF status
  <2>3. QED BY <2>1, <2>2 DEF TypeOK, Row, NotMadeRunning
<1>9. ASSUME NEW a \in Albums, NEW whole \in BOOLEAN, MarkReviewed(a, whole)
      PROVE  NotMadeRunning(p)
  BY <1>9 DEF MarkReviewed, TypeOK, Row, NotMadeRunning
<1>10. ASSUME NEW q \in Pids, NEW result, OpenServer(q, result) PROVE NotMadeRunning(p)
  BY <1>10, ZenonT(30) DEF OpenServer, Recovered, Withdrawn, TypeOK, Row, NotMadeRunning
<1>11. ASSUME UNCHANGED items PROVE NotMadeRunning(p)
  BY <1>11 DEF NotMadeRunning
<1>12. CASE Up("server") /\ ServerCall
  BY <1>12, <1>1, <1>2, <1>3, <1>4, <1>6, <1>8, <1>11
     DEF ServerCall, Fresh, CancelFailed, BindRun
<1>13. CASE EitherCall
  BY <1>13, <1>1, <1>7, <1>11 DEF EitherCall, Checkpoint, RecordFlag
<1>14. CASE \/ \E q \in Pids : OpenDesktop(q)
            \/ \E rt \in Runtimes : Exit(rt)
            \/ \E a \in Albums : DeadlinePasses(a)
  BY <1>14, <1>1, <1>11 DEF OpenDesktop, Exit, DeadlinePasses, tables
<1>15. CASE UNCHANGED storeVars
  BY <1>15, <1>1, <1>11 DEF storeVars
<1>16. QED BY <1>1, <1>5, <1>9, <1>10, <1>12, <1>13, <1>14, <1>15 DEF StoreNext

LEMMA TakeoverStep ==
    ASSUME TypeOK, RunningIsOwned, StoreNext, NEW p \in Albums,
           items[p].status = "running",
           NEW rt \in Runtimes, pid[rt] = items[p].owner.pid, pid'[rt] = pid[rt]
    PROVE  /\ items'[p].run \in {items[p].run, NoRun}
           /\ items'[p].status = "pending" => retries'[p] = NoRetry /\ lineage'[p] = NoRun
<1> DEFINE Kept == /\ items'[p].run \in {items[p].run, NoRun}
                   /\ items'[p].status = "pending" =>
                         retries'[p] = NoRetry /\ lineage'[p] = NoRun
<1> SUFFICES Kept
  OBVIOUS
<1>1. /\ items[p].owner \in Owners /\ items[p].run \in Runs
      /\ pid[rt] \in Pids /\ pid[rt] # NoPid /\ Live(items[p].owner.pid)
  BY StoreAssumption DEF StoreAssumption, RunningIsOwned, Owners, Live
<1>2. items[p].run # NoRun
  BY <1>1, StoreAssumption DEF StoreAssumption
<1>3. ASSUME UNCHANGED items PROVE Kept
  BY <1>3
<1>4. ASSUME NEW S \in SUBSET Fresh(Albums), InsertPending(S) PROVE Kept
  BY <1>4 DEF InsertPending, Fresh, Active, ActiveStatuses
<1>5. ASSUME NEW S \in SUBSET Albums, Requeue(S) PROVE Kept
  BY <1>5 DEF Requeue, PendingRow
<1>6. ASSUME NEW a \in Albums, NEW r \in Runs, MarkRunning(a, r) PROVE Kept
  BY <1>6 DEF MarkRunning, Claimable, TypeOK
<1>7. ASSUME NEW a \in Albums, NEW r \in Runs, ClaimDesktop(a, r) PROVE Kept
  BY <1>1, <1>7 DEF ClaimDesktop, DesktopClaimable, Active, ActiveStatuses, TypeOK
<1>8. ASSUME NEW S \in SUBSET Albums, CancelPaths(S) PROVE Kept
  BY <1>8 DEF CancelPaths, Withdrawn, TypeOK, Row
<1>9. ASSUME NEW a \in Albums, NEW r \in Runs, NEW o \in Outcomes, Finish(a, r, o[1], o[2])
      PROVE  Kept
  BY <1>2, <1>9, OutcomeTypes DEF Finish, MayFinish, TypeOK, Row, SettledStatuses
<1>10. ASSUME NEW a \in Albums, NEW r \in Runs, NEW origin, NEW patch,
              FinishDeferred(a, r, origin, patch)
       PROVE  Kept
  <2> DEFINE status == IF Exhausted(a) THEN "needs_review" ELSE "deferred"
  <2>1. items' = [items EXCEPT ![a] = [@ EXCEPT !.status = status, !.run = r]]
    BY <1>10 DEF FinishDeferred
  <2>2. status # "pending"
    OBVIOUS
  <2>3. a = p => items[p].run = r
    BY <1>2, <1>10 DEF FinishDeferred, MayFinish
  <2> HIDE DEF status
  <2>4. QED BY <2>1, <2>2, <2>3 DEF TypeOK, Row
<1>11. ASSUME NEW a \in Albums, NEW whole \in BOOLEAN, MarkReviewed(a, whole) PROVE Kept
  BY <1>11 DEF MarkReviewed, TypeOK, Row
<1>12. ASSUME NEW q \in Pids, NEW result, OpenServer(q, result) PROVE Kept
  <2>1. rt # "server"
    BY <1>1, <1>12 DEF OpenServer, Up
  <2>2. items[p].owner.pid \in Alive(q) /\ items[p].owner # NoOwner
    BY <1>1, <2>1, StoreAssumption DEF Alive, StoreAssumption
  <2>3. QED BY <1>12, <2>2, ZenonT(30) DEF OpenServer, Recovered, Withdrawn, TypeOK, Row
<1>13. CASE Up("server") /\ ServerCall
  BY <1>13, <1>3, <1>4, <1>5, <1>6, <1>8, <1>10 DEF ServerCall, CancelFailed, BindRun
<1>14. CASE EitherCall
  BY <1>14, <1>3, <1>9 DEF EitherCall, Checkpoint, RecordFlag
<1>15. CASE \/ \E q \in Pids : OpenDesktop(q)
            \/ \E x \in Runtimes : Exit(x)
            \/ \E a \in Albums : DeadlinePasses(a)
  BY <1>15, <1>3 DEF OpenDesktop, Exit, DeadlinePasses, tables
<1>16. QED BY <1>7, <1>11, <1>12, <1>13, <1>14, <1>15 DEF StoreNext

\* While the process that owns a running row lives, neither a restart of the
\* other runtime, nor a desktop run, nor a late completion takes the row over
\* (recover_interrupted, claim_desktop_run, mark_running, the completion guard).
THEOREM RunningRowsAreSafe == StoreSpec => NoTakeover
<1>1. StoreInit => RunningIsOwned
  BY DEF StoreInit, RunningIsOwned, NoItem
<1>2. TypeOK /\ RunningIsOwned /\ [StoreNext]_storeVars =>
        [\A p \in Albums :
            /\ items[p].status = "running"
            /\ \E rt \in Runtimes : pid[rt] = items[p].owner.pid /\ pid'[rt] = pid[rt]
            => /\ items'[p].run \in {items[p].run, NoRun}
               /\ items'[p].status = "pending" =>
                     retries'[p] = NoRetry /\ lineage'[p] = NoRun]_storeVars
  BY TakeoverStep
<1>3. QED BY <1>1, <1>2, StepKeepsOwners, TypeCorrect, PTL DEF StoreSpec, NoTakeover

----------------------------------------------------------------------------
(* The pipeline: types.                                                    *)

JobPoints == {"none", "bind", "claim", "origin", "lookup", "decide", "write", "settle",
              "fail", "wind", "judge", "close", "record", "release"}
JobVerdicts == {"none", "unbound", "unstopped", "cancelled", "failed", "needs_review",
                "completed"}
TaskStates == {"none", "running", "cancelled", "failed", "needs_review", "completed"}
HistoryStates == {"none", "running", "interrupted", "cancelled", "failed", "completed"}

Jobs == [pc : JobPoints, kind : {"batch", "manual"}, run : Runs \cup {NoRun},
         all : SUBSET Albums, todo : SUBSET Albums, cur : Albums \cup {NoAlbum},
         origin : Runs \cup {NoRun}, aiBlocked : BOOLEAN, result : AllResults \cup {"none"},
         failed : SUBSET Albums, review : SUBSET Albums, broken : BOOLEAN,
         verdict : JobVerdicts]

CallerStates == [pc : {"idle", "insert", "start", "requeue", "manual"},
                 albums : SUBSET Albums]

OwnTypesOK ==
    /\ circuits \in SUBSET Runs
    /\ holder \in {"free", "http", "job", "other"}
    /\ caller \in [Callers -> CallerStates]
    /\ job \in Jobs
    /\ tasks \in [Runs -> TaskStates]
    /\ history \in [Runs -> [status : HistoryStates, ledger : SUBSET Albums]]
    /\ scheduling \in BOOLEAN
    /\ lastRun \in Nat
    /\ budget \in [EnvKinds -> Nat]
    /\ faulted \in BOOLEAN
    /\ aiTagged \in SUBSET Albums
    /\ charged \in SUBSET Albums
    /\ stopped \in SUBSET Albums

ServiceTypeOK == TypeOK /\ OwnTypesOK

----------------------------------------------------------------------------
(* Who holds what.                                                         *)

\* The points of a job at which it has an album in hand.
AtAlbum == {"origin", "lookup", "decide", "write", "settle", "fail"}

\* One operation token: the job has it while it lives, a manual request before.
TokenHeld ==
    /\ holder = "job" <=> job.pc # "none"
    /\ holder = "http" <=> caller["http"].pc = "manual"
    /\ caller["scheduler"].pc \notin {"manual", "requeue"}

CallersKnow ==
    \A c \in Callers :
        /\ caller[c].pc # "idle" => caller[c].albums # {}
        /\ caller[c].pc = "manual" =>
              lastRun < MaxRuns /\ \A p, q \in caller[c].albums : p = q

JobShape ==
    /\ job.pc = "none" => job = NoJob
    /\ job.pc # "none" => Up("server") /\ job.run \in Runs /\ job.run <= lastRun /\ job.all # {}
    /\ job.pc \in AtAlbum <=> job.cur # NoAlbum
    /\ job.cur # NoAlbum => job.cur \in job.all /\ job.origin \in Runs
    /\ job.todo \subseteq job.all
    /\ job.kind = "batch" => job.pc # "fail"
    /\ job.kind = "manual" =>
          /\ job.pc \notin {"bind", "origin", "wind", "judge", "record"}
          /\ ~job.aiBlocked
          /\ \A p, q \in job.all : p = q

\* The row of the album in hand is open: a completion is the job's last word on it.
WorkIsOpen == \A p \in Albums : AtWork(p) => items[p].status \in {"running", "pending"}

ServiceInv == ServiceTypeOK /\ TokenHeld /\ CallersKnow /\ JobShape /\ WorkIsOpen


----------------------------------------------------------------------------
(* The steps by who takes them.                                            *)

CallerStep ==
    \/ PollPending
    \/ \E c \in Callers : \/ Request(c) \/ Insert(c) \/ InsertTorn(c)
                          \/ StartBatch(c) \/ StartUnrecorded(c) \/ StartRefused(c)
    \/ RetryFailed \/ ResetRetried
    \/ ManualToken \/ ManualStart \/ ManualRefused

AlbumStep ==
    \/ Claim \/ ClaimFails \/ Origin \/ Lookup \/ AiRefused \/ AiProposes \/ AiWrites
    \/ Resolve \/ Commit \/ CommitFails \/ CommitCancelled \/ ManualStops \/ ManualFails

RunStep == Bind \/ LoopEnds \/ WindCancelled \/ Wind \/ Judge \/ Close \/ Record \/ Release

OutsideStep ==
    Cancel \/ Acknowledge \/ OtherStarts \/ OtherEnds \/ RetryDue \/ Crash \/ Start

LEMMA StepCases == Next <=> CallerStep \/ AlbumStep \/ RunStep \/ OutsideStep
  BY DEF Next, SchedulerStep, HttpStep, JobStep, Environment, Callers,
         CallerStep, AlbumStep, RunStep, OutsideStep

----------------------------------------------------------------------------
(* The store's tables keep their types: the job calls with its own run and *)
(* the album in hand.                                                      *)

LEMMA JobInHand ==
    ASSUME ServiceInv, job.pc \in AtAlbum
    PROVE  /\ job.cur \in Albums /\ job.run \in Runs /\ job.origin \in Runs
           /\ Up("server") /\ AtWork(job.cur)
  BY ServiceAssumption
     DEF ServiceAssumption, ServiceInv, ServiceTypeOK, OwnTypesOK, JobShape, Jobs, AtAlbum, AtWork

LEMMA OutcomeOfResult ==
    ASSUME NEW result
    PROVE  /\ StatusOf(result) \in SettledStatuses /\ StatusOf(result) # "cancelled"
           /\ PatchOf(result) \in SUBSET EvidenceKeys
           /\ <<StatusOf(result), PatchOf(result)>> \in
                 {<<"completed", {}>>, <<"completed", {"basis", "proof"}>>,
                  <<"needs_review", {}>>, <<"failed", {}>>, <<"needs_review", {"proof"}>>}
           /\ result \in Retryable => StatusOf(result) = "needs_review"
  BY DEF StatusOf, PatchOf, SettledStatuses, EvidenceKeys, ProofKeys, ByRecording, Retryable

LEMMA CallersKeepTables == ASSUME ServiceInv, CallerStep PROVE TypeOK'
<1>1. ASSUME UNCHANGED storeVars PROVE TypeOK'
  BY <1>1 DEF storeVars, ServiceInv, ServiceTypeOK, TypeOK
<1>2. TypeOK /\ \A c \in Callers : caller[c].albums \in SUBSET Albums
  BY DEF ServiceInv, ServiceTypeOK, OwnTypesOK, CallerStates
<1>3. "http" \in Callers
  BY DEF Callers
<1>4. ASSUME NEW c \in Callers, Insert(c) \/ InsertTorn(c) PROVE TypeOK'
  <2>1. Fresh(caller[c].albums) \in SUBSET Albums
    BY <1>2 DEF Fresh
  <2>2. CASE Insert(c)
    BY <1>2, <2>1, <2>2, CallsKeepTypes DEF Insert
  <2>3. CASE InsertTorn(c)
    BY <1>2, <2>1, <2>3, CallsKeepTypes DEF InsertTorn
  <2>4. QED BY <1>4, <2>2, <2>3
<1>5. CASE ResetRetried
  BY <1>2, <1>3, <1>5, CallsKeepTypes DEF ResetRetried
<1>6. CASE ManualStart
  BY <1>2, <1>3, <1>6, CallsKeepTypes DEF ManualStart
<1>7. QED
  BY <1>1, <1>4, <1>5, <1>6
     DEF CallerStep, PollPending, Request, StartBatch, StartUnrecorded, StartRefused,
         RetryFailed, ManualToken, ManualRefused

LEMMA JobKeepsTables == ASSUME ServiceInv, AlbumStep \/ RunStep PROVE TypeOK'
<1>1. ASSUME UNCHANGED storeVars PROVE TypeOK'
  BY <1>1 DEF storeVars, ServiceInv, ServiceTypeOK, TypeOK
<1>2. TypeOK /\ job.all \in SUBSET Albums /\ job.todo \in SUBSET Albums
  BY DEF ServiceInv, ServiceTypeOK, OwnTypesOK, Jobs
<1>3. job.pc # "none" => Up("server") /\ job.run \in Runs
  BY DEF ServiceInv, JobShape
<1>4. {"diagnostic"} \in SUBSET EvidenceKeys /\ {} \in SUBSET EvidenceKeys
      /\ "failed" \in SettledStatuses
      /\ "ai_fallback" \in FlagReasons /\ "recording_identity" \in FlagReasons
  BY DEF EvidenceKeys, SettledStatuses, FlagReasons
<1>5. CASE Claim
  BY <1>2, <1>3, <1>5, CallsKeepTypes DEF Claim, Either
<1>6. CASE Lookup
  BY <1>2, <1>4, <1>6, JobInHand, CompletionsKeepTypes DEF Lookup, Either, AtAlbum
<1>7. CASE AiProposes \/ Resolve
  BY <1>1, <1>2, <1>4, <1>7, JobInHand, ReviewsKeepTypes DEF AiProposes, Resolve, Either, AtAlbum
<1>8. CASE Commit
  BY <1>2, <1>8, JobInHand, OutcomeOfResult, CompletionsKeepTypes DEF Commit, Either, AtAlbum
<1>9. CASE ManualFails
  BY <1>1, <1>2, <1>4, <1>9, JobInHand, CompletionsKeepTypes DEF ManualFails, Manual, AtAlbum
<1>10. CASE Bind
  BY <1>1, <1>2, <1>3, <1>10, CallsKeepTypes DEF Bind, Batch
<1>11. CASE ManualStops \/ WindCancelled
  BY <1>2, <1>11, CallsKeepTypes DEF ManualStops, WindCancelled, StopPaths
<1>12. QED
  BY <1>1, <1>5, <1>6, <1>7, <1>8, <1>9, <1>10, <1>11
     DEF AlbumStep, RunStep, ClaimFails, Origin, AiRefused, AiWrites, CommitFails,
         CommitCancelled, LoopEnds, Wind, Judge, Close, Record, Release

LEMMA OthersKeepTables == ASSUME ServiceInv, OutsideStep PROVE TypeOK'
<1>1. ASSUME UNCHANGED storeVars PROVE TypeOK'
  BY <1>1 DEF storeVars, ServiceInv, ServiceTypeOK, TypeOK
<1>2. TypeOK
  BY DEF ServiceInv, ServiceTypeOK
<1>3. CASE Acknowledge
  BY <1>2, <1>3, ReviewsKeepTypes DEF Acknowledge, Actionable
<1>4. CASE RetryDue \/ Crash \/ Start
  BY <1>2, <1>4, ProcessesKeepTypes DEF RetryDue, Crash, Start, Runtimes
<1>5. QED
  BY <1>1, <1>3, <1>4 DEF OutsideStep, Cancel, OtherStarts, OtherEnds

LEMMA TablesKept == ServiceInv /\ [Next]_vars => TypeOK'
<1>1. UNCHANGED vars /\ TypeOK => TypeOK'
  BY DEF vars, storeVars, TypeOK
<1>2. QED
  BY <1>1, StepCases, CallersKeepTables, JobKeepsTables, OthersKeepTables
     DEF ServiceInv, ServiceTypeOK

----------------------------------------------------------------------------
(* So does the service's own state.                                        *)

LEMMA NoJobType == NoJob \in Jobs
  BY DEF NoJob, Jobs, JobPoints, JobVerdicts, AllResults

LEMMA BudgetTypes ==
    ASSUME OwnTypesOK
    PROVE  /\ \A kind \in EnvKinds : Spend(kind) => budget' \in [EnvKinds -> Nat] /\ faulted' \in BOOLEAN
           /\ Free => budget' \in [EnvKinds -> Nat] /\ faulted' \in BOOLEAN
<1>1. ASSUME NEW kind \in EnvKinds, Spend(kind)
      PROVE  budget' \in [EnvKinds -> Nat] /\ faulted' \in BOOLEAN
  <2>1. budget[kind] \in Nat /\ budget[kind] > 0 => budget[kind] - 1 \in Nat
    OBVIOUS
  <2>2. budget' \in [EnvKinds -> Nat]
    BY <1>1, <2>1 DEF Spend, OwnTypesOK
  <2>3. QED BY <1>1, <2>2 DEF Spend
<1>2. Free => budget' \in [EnvKinds -> Nat] /\ faulted' \in BOOLEAN
  BY DEF Free, envVars, OwnTypesOK
<1>3. QED BY <1>1, <1>2

LEMMA Kinds ==
    /\ "request" \in EnvKinds /\ "retry" \in EnvKinds /\ "cancel" \in EnvKinds
    /\ "crash" \in EnvKinds /\ "fault" \in EnvKinds /\ "ai" \in EnvKinds
    /\ "ack" \in EnvKinds /\ "other" \in EnvKinds
  BY DEF EnvKinds

\* The run a batch or a manual job starts as.
LEMMA NextRunType ==
    ASSUME OwnTypesOK, lastRun < MaxRuns
    PROVE  NextRun \in Runs /\ NextRun \in Nat /\ NextRun > lastRun /\ NextRun # NoRun
  BY ServiceAssumption, StoreAssumption DEF ServiceAssumption, StoreAssumption, OwnTypesOK, NextRun

LEMMA SayTypes ==
    ASSUME OwnTypesOK, NEW c \in Callers, NEW pc \in {"idle", "insert", "start", "requeue", "manual"},
           NEW albums \in SUBSET Albums, Say(c, pc, albums)
    PROVE  caller' \in [Callers -> CallerStates]
  BY DEF Say, OwnTypesOK, CallerStates

LEMMA CallersKeepOwnTypes == ASSUME ServiceInv, CallerStep PROVE OwnTypesOK'
<1> USE DEF OwnTypesOK
<1>1. OwnTypesOK /\ "http" \in Callers /\ "scheduler" \in Callers /\ {} \in SUBSET Albums
      /\ \A c \in Callers : caller[c].albums \in SUBSET Albums
      /\ \A r \in Runs : history[r].ledger \in SUBSET Albums
  BY DEF ServiceInv, ServiceTypeOK, CallerStates, Callers
<1>2. budget' \in [EnvKinds -> Nat] /\ faulted' \in BOOLEAN
  BY <1>1, BudgetTypes, Kinds
     DEF CallerStep, PollPending, Request, Insert, InsertTorn, StartBatch, StartUnrecorded,
         StartRefused, RetryFailed, ResetRetried, ManualToken, ManualStart, ManualRefused
<1>3. caller' \in [Callers -> CallerStates]
  <2>1. CASE PollPending
    BY <1>1, <2>1, SayTypes DEF PollPending, Pending
  <2>2. CASE \E c \in Callers : Request(c) \/ Insert(c)
    BY <1>1, <2>2, SayTypes DEF Request, Insert, Fresh
  <2>3. CASE \E c \in Callers : InsertTorn(c) \/ StartBatch(c) \/ StartUnrecorded(c) \/ StartRefused(c)
    BY <1>1, <2>3, SayTypes DEF InsertTorn, StartBatch, StartUnrecorded, StartRefused
  <2>4. CASE RetryFailed \/ ResetRetried
    BY <1>1, <2>4, SayTypes DEF RetryFailed, ResetRetried
  <2>5. CASE ManualToken
    <3>1. PICK p \in Albums : Say("http", "manual", {p})
      BY <2>5 DEF ManualToken
    <3>2. QED BY <1>1, <3>1, SayTypes
  <2>6. CASE ManualStart \/ ManualRefused
    BY <1>1, <2>6, SayTypes DEF ManualStart, ManualRefused
  <2>7. QED BY <2>1, <2>2, <2>3, <2>4, <2>5, <2>6 DEF CallerStep
<1>4. job' \in Jobs /\ lastRun' \in Nat /\ tasks' \in [Runs -> TaskStates]
      /\ history' \in [Runs -> [status : HistoryStates, ledger : SUBSET Albums]]
  <2>1. CASE \E c \in Callers : StartBatch(c)
    <3>1. PICK c \in Callers : StartBatch(c)
      BY <2>1
    <3>2. job' \in Jobs
      BY <1>1, <3>1, NextRunType, NoJobType DEF StartBatch, Jobs, JobPoints
    <3>3. QED BY <1>1, <3>1, <3>2, NextRunType DEF StartBatch, TaskStates, HistoryStates
  <2>2. CASE ManualStart
    <3>1. NextRun \in Nat /\ NextRun \in Runs
      BY <1>1, <2>2, NextRunType DEF ManualStart, ServiceInv, CallersKnow
    <3>2. job' \in Jobs
      BY <1>1, <2>2, <3>1, NoJobType DEF ManualStart, Jobs, JobPoints
    <3>3. QED BY <1>1, <2>2, <3>1, <3>2 DEF ManualStart, TaskStates
  <2>3. CASE \E c \in Callers : StartUnrecorded(c)
    BY <1>1, <2>3, NextRunType DEF StartUnrecorded, TaskStates
  <2>4. QED
    BY <1>1, <2>1, <2>2, <2>3
       DEF CallerStep, PollPending, Request, Insert, InsertTorn, StartRefused, RetryFailed,
           ResetRetried, ManualToken, ManualRefused
<1>5. holder' \in {"free", "http", "job", "other"} /\ stopped' \in SUBSET Albums
      /\ charged' \in SUBSET Albums /\ UNCHANGED <<circuits, scheduling, aiTagged>>
  BY <1>1
     DEF CallerStep, PollPending, Request, Insert, InsertTorn, StartBatch, StartUnrecorded,
         StartRefused, RetryFailed, ResetRetried, ManualToken, ManualStart, ManualRefused, ghosts
<1>6. QED BY <1>1, <1>2, <1>3, <1>4, <1>5

\* Each step of a job sets a few of the record's fields.
LEMMA JobWords ==
    /\ \A pc \in {"none", "bind", "claim", "origin", "lookup", "decide", "write", "settle",
                  "fail", "wind", "judge", "close", "record", "release"} : pc \in JobPoints
    /\ \A verdict \in {"unbound", "unstopped", "cancelled", "failed", "needs_review",
                       "completed"} : verdict \in JobVerdicts
  BY DEF JobPoints, JobVerdicts

LEMMA JobKeepsType == ASSUME ServiceInv, AlbumStep \/ RunStep PROVE job' \in Jobs
<1> USE JobWords DEF Jobs
<1>1. job \in Jobs /\ job.todo \in SUBSET Albums
      /\ (job.pc # "none" => job.run \in Runs)
      /\ (job.cur # NoAlbum => job.cur \in Albums)
  BY DEF ServiceInv, ServiceTypeOK, OwnTypesOK, JobShape
<1>2. "none" \in AllResults \cup {"none"} /\ "review" \in AllResults /\ "error" \in AllResults
      /\ Results \subseteq AllResults
  BY ServiceAssumption DEF ServiceAssumption, AllResults
<1>3. \A result \in AllResults : AfterResolver(result) \in Jobs
  BY <1>1, ZenonT(30) DEF AfterResolver
<1>4. ASSUME job.pc \in AtAlbum PROVE \A failed, review \in BOOLEAN : Settled(failed, review) \in Jobs
  <2>1. job.cur \in Albums
    BY <1>4, JobInHand
  <2>2. ASSUME NEW failed \in BOOLEAN, NEW review \in BOOLEAN PROVE Settled(failed, review) \in Jobs
    <3>1. (IF failed THEN job.failed \cup {job.cur} ELSE job.failed) \in SUBSET Albums
      BY <1>1, <2>1
    <3>2. (IF review THEN job.review \cup {job.cur} ELSE job.review) \in SUBSET Albums
      BY <1>1, <2>1
    <3>3. QED BY <1>1, <1>2, <3>1, <3>2, ZenonT(30) DEF Settled
  <2>3. QED BY <2>2
<1>5. CASE Claim
  <2>1. PICK p \in job.todo :
            job' = [job EXCEPT !.todo = @ \ {p}, !.cur = p, !.result = "none",
                               !.pc = IF job.kind = "batch" THEN "origin" ELSE "lookup",
                               !.origin = job.run]
    BY <1>5 DEF Claim
  <2>2. p \in Albums \cup {NoAlbum} /\ job.todo \ {p} \in SUBSET Albums
        /\ job.run \in Runs \cup {NoRun}
    BY <1>1
  <2>3. (IF job.kind = "batch" THEN "origin" ELSE "lookup") \in JobPoints
    OBVIOUS
  <2>4. QED BY <1>1, <1>2, <2>1, <2>2, <2>3, ZenonT(30)
<1>6. CASE ClaimFails
  <2>1. PICK p \in job.todo :
            job' = IF job.kind = "batch"
                   THEN [job EXCEPT !.todo = @ \ {p}, !.failed = @ \cup {p}]
                   ELSE [job EXCEPT !.todo = {}, !.pc = "close", !.verdict = "failed"]
    BY <1>6 DEF ClaimFails
  <2>2. job.todo \ {p} \in SUBSET Albums /\ job.failed \cup {p} \in SUBSET Albums
        /\ {} \in SUBSET Albums
    BY <1>1
  <2>3. [job EXCEPT !.todo = @ \ {p}, !.failed = @ \cup {p}] \in Jobs
    BY <1>1, <2>2
  <2>4. [job EXCEPT !.todo = {}, !.pc = "close", !.verdict = "failed"] \in Jobs
    BY <1>1, <2>2
  <2>5. QED BY <2>1, <2>3, <2>4
<1>7. CASE Origin
  <2>1. OriginOf(job.cur, job.run) \in Runs
    BY <1>7, JobInHand, OriginType DEF Origin, Batch, AtAlbum, ServiceInv, ServiceTypeOK
  <2>2. (job.aiBlocked \/ OriginOf(job.cur, job.run) \in circuits) \in BOOLEAN
    OBVIOUS
  <2>3. CASE job' = [job EXCEPT !.pc = "lookup", !.origin = OriginOf(job.cur, job.run),
                                !.aiBlocked = @ \/ OriginOf(job.cur, job.run) \in circuits]
    <3> DEFINE blocked == job.aiBlocked \/ OriginOf(job.cur, job.run) \in circuits
    <3>1. job' = [job EXCEPT !.pc = "lookup", !.origin = OriginOf(job.cur, job.run),
                             !.aiBlocked = blocked]
      BY <2>3
    <3> HIDE DEF blocked
    <3>2. blocked \in BOOLEAN
      BY <2>2 DEF blocked
    <3>3. QED BY <1>1, <2>1, <3>1, <3>2
  <2>4. CASE job' = [job EXCEPT !.pc = "wind", !.cur = NoAlbum, !.broken = TRUE]
    BY <1>1, <2>4
  <2>5. QED BY <1>7, <2>3, <2>4 DEF Origin
<1>8. CASE Lookup \/ AiRefused \/ AiProposes
  <2>1. /\ [job EXCEPT !.pc = "decide"] \in Jobs
        /\ [job EXCEPT !.pc = "write"] \in Jobs
        /\ [job EXCEPT !.aiBlocked = (job.kind = "batch")] \in Jobs
    BY <1>1, ZenonT(30)
  <2> HIDE DEF Jobs
  <2>2. QED BY <1>8, <2>1 DEF Lookup, AiRefused, AiProposes
<1>9. CASE AiWrites \/ Resolve
  BY <1>2, <1>3, <1>9 DEF AiWrites, Resolve
<1>10. CASE Commit \/ CommitFails \/ CommitCancelled
  <2>1. job.pc \in AtAlbum
    BY <1>10 DEF Commit, CommitFails, CommitCancelled, Either, AtAlbum
  <2>2. [job EXCEPT !.pc = "release", !.cur = NoAlbum] \in Jobs
        /\ [job EXCEPT !.pc = "fail"] \in Jobs
    BY <1>1
  <2>3. (StatusOf(job.result) = "failed") \in BOOLEAN
        /\ (StatusOf(job.result) = "needs_review") \in BOOLEAN
    OBVIOUS
  <2> HIDE DEF Jobs
  <2>4. CASE Commit
    <3>1. \/ job' = Settled(StatusOf(job.result) = "failed", StatusOf(job.result) = "needs_review")
          \/ job' = [job EXCEPT !.pc = "release", !.cur = NoAlbum]
      BY <2>4 DEF Commit
    <3>2. Settled(StatusOf(job.result) = "failed", StatusOf(job.result) = "needs_review") \in Jobs
      BY <1>4, <2>1, <2>3
    <3>3. QED BY <2>2, <3>1, <3>2
  <2>5. CASE CommitFails
    BY <1>4, <2>1, <2>2, <2>5 DEF CommitFails
  <2>6. CASE CommitCancelled
    BY <1>4, <2>1, <2>2, <2>6 DEF CommitCancelled
  <2>7. QED BY <1>10, <2>4, <2>5, <2>6
<1>11. CASE ManualStops \/ ManualFails
  <2>1. /\ [job EXCEPT !.pc = "close", !.cur = NoAlbum, !.verdict = "cancelled"] \in Jobs
        /\ [job EXCEPT !.pc = "close", !.cur = NoAlbum, !.verdict = "unstopped"] \in Jobs
        /\ [job EXCEPT !.pc = "close", !.cur = NoAlbum, !.verdict = "failed"] \in Jobs
    BY <1>1
  <2> HIDE DEF Jobs
  <2>2. QED BY <1>11, <2>1 DEF ManualStops, ManualFails, StopPaths
<1>12. CASE Bind \/ LoopEnds \/ WindCancelled \/ Wind
  <2>1. /\ [job EXCEPT !.pc = "claim"] \in Jobs
        /\ [job EXCEPT !.pc = "wind"] \in Jobs
        /\ [job EXCEPT !.pc = "judge"] \in Jobs
        /\ [job EXCEPT !.pc = "close", !.verdict = "unbound"] \in Jobs
        /\ [job EXCEPT !.pc = "close", !.verdict = "unstopped"] \in Jobs
    BY <1>1
  <2> HIDE DEF Jobs
  <2>2. QED BY <1>12, <2>1 DEF Bind, LoopEnds, WindCancelled, Wind, StopPaths
<1>13. CASE Judge \/ Close \/ Record
  <2>1. CASE Judge
    <3>1. \A verdict \in JobVerdicts : [job EXCEPT !.pc = "close", !.verdict = verdict] \in Jobs
      BY <1>1
    <3>2. QED BY <2>1, <3>1, ZenonT(30) DEF Judge
  <2>2. CASE Close
    BY <1>1, <2>2 DEF Close
  <2>3. CASE Record
    BY <1>1, <2>3 DEF Record
  <2>4. QED BY <1>13, <2>1, <2>2, <2>3
<1>14. CASE Release
  BY <1>14, NoJobType DEF Release
<1>15. QED
  BY <1>5, <1>6, <1>7, <1>8, <1>9, <1>10, <1>11, <1>12, <1>13, <1>14 DEF AlbumStep, RunStep

LEMMA VerdictType == ASSUME OwnTypesOK, job.verdict # "none" PROVE
    Verdict \in {"failed", "cancelled", "needs_review", "completed"}
  BY DEF OwnTypesOK, Jobs, JobVerdicts, Verdict

LEMMA JobKeepsOwnTypes == ASSUME ServiceInv, AlbumStep \/ RunStep PROVE OwnTypesOK'
<1> USE DEF OwnTypesOK
<1>1. OwnTypesOK
  BY DEF ServiceInv, ServiceTypeOK
<1>2. budget' \in [EnvKinds -> Nat] /\ faulted' \in BOOLEAN
  <2>1. CASE AlbumStep
    BY <1>1, <2>1, BudgetTypes, Kinds
       DEF AlbumStep, Claim, ClaimFails, Origin, Lookup, AiRefused, AiProposes, AiWrites,
           Resolve, Commit, CommitFails, CommitCancelled, ManualStops, ManualFails, StopPaths
  <2>2. CASE RunStep
    BY <1>1, <2>2, BudgetTypes, Kinds
       DEF RunStep, Bind, LoopEnds, WindCancelled, StopPaths, Wind, Judge, Close, Record, Release
  <2>3. QED BY <2>1, <2>2
<1>3. job.pc \notin {"none"} => job.run \in Runs
  BY DEF ServiceInv, JobShape
<1>4. ASSUME job.pc \in AtAlbum PROVE {job.cur} \in SUBSET Albums /\ {job.origin, job.run} \in SUBSET Runs
  BY <1>4, JobInHand
<1>5. circuits' \in SUBSET Runs /\ aiTagged' \in SUBSET Albums /\ charged' \in SUBSET Albums
      /\ stopped' \in SUBSET Albums /\ holder' \in {"free", "http", "job", "other"}
      /\ UNCHANGED <<caller, scheduling, lastRun>>
  <2>1. CASE AiRefused \/ AiProposes \/ Resolve
    BY <1>1, <1>4, <2>1 DEF AiRefused, AiProposes, Resolve, Either, AtAlbum, Charged, ToOpen, ghosts
  <2>2. CASE ManualStops \/ WindCancelled
    <3>1. stopped' \in {stopped \cup {p \in job.all : Active(p)}, stopped} =>
             stopped' \in SUBSET Albums
      BY <1>1 DEF Jobs
    <3>2. /\ stopped' \in {stopped \cup {p \in job.all : Active(p)}, stopped}
          /\ UNCHANGED <<circuits, holder, caller, scheduling, lastRun, aiTagged, charged>>
      BY <2>2 DEF ManualStops, WindCancelled, StopPaths
    <3>3. QED BY <1>1, <3>1, <3>2
  <2>3. QED
    BY <1>1, <2>1, <2>2
       DEF AlbumStep, RunStep, Claim, ClaimFails, Origin, Lookup, AiWrites, Commit, CommitFails,
           CommitCancelled, ManualFails, Bind, LoopEnds, Wind, Judge, Close, Record, Release, ghosts
<1>6. tasks' \in [Runs -> TaskStates]
  <2>1. CASE Commit
    BY <1>1, <2>1, OutcomeOfResult DEF Commit, TaskStates, SettledStatuses
  <2>2. CASE Close
    BY <1>1, <2>2, VerdictType DEF Close, TaskStates, Verdict, Jobs, JobVerdicts
  <2>3. QED
    BY <1>1, <2>1, <2>2
       DEF AlbumStep, RunStep, Claim, ClaimFails, Origin, Lookup, AiRefused, AiProposes, AiWrites,
           Resolve, CommitFails, CommitCancelled, ManualStops, ManualFails, StopPaths, Bind,
           LoopEnds, WindCancelled, Wind, Judge, Record, Release
<1>7. history' \in [Runs -> [status : HistoryStates, ledger : SUBSET Albums]]
  <2>1. CASE Record
    <3>1. Verdict \in JobVerdicts /\ Verdict \notin {"unbound", "unstopped"}
      BY <1>1 DEF Verdict, Jobs, JobVerdicts
    <3>2. (IF Verdict = "needs_review" THEN "completed" ELSE Verdict) \in HistoryStates
      BY <3>1 DEF JobVerdicts, HistoryStates
    <3>3. (job.failed \cup job.review) \in SUBSET Albums
      BY <1>1 DEF Jobs
    <3> HIDE DEF OwnTypesOK
    <3>4. history \in [Runs -> [status : HistoryStates, ledger : SUBSET Albums]]
      BY <1>1 DEF OwnTypesOK
    <3>5. QED BY <2>1, <3>2, <3>3, <3>4 DEF Record
  <2>2. QED
    BY <1>1, <2>1
       DEF AlbumStep, RunStep, Claim, ClaimFails, Origin, Lookup, AiRefused, AiProposes, AiWrites,
           Resolve, Commit, CommitFails, CommitCancelled, ManualStops, ManualFails, StopPaths, Bind,
           LoopEnds, WindCancelled, Wind, Judge, Close, Release
<1>8. QED BY <1>1, <1>2, <1>5, <1>6, <1>7, JobKeepsType

LEMMA OthersKeepOwnTypes == ASSUME ServiceInv, OutsideStep PROVE OwnTypesOK'
<1> USE DEF OwnTypesOK
<1>1. OwnTypesOK
  BY DEF ServiceInv, ServiceTypeOK
<1>2. budget' \in [EnvKinds -> Nat] /\ faulted' \in BOOLEAN
  BY <1>1, BudgetTypes, Kinds
     DEF OutsideStep, Cancel, Acknowledge, OtherStarts, OtherEnds, RetryDue, Crash, Start
<1>3. CASE Crash
  BY <1>1, <1>2, <1>3, NoJobType
     DEF Crash, IdleCaller, CallerStates, TaskStates, ghosts
<1>4. CASE Start
  <2>1. history' \in [Runs -> [status : HistoryStates, ledger : SUBSET Albums]]
    BY <1>1, <1>4 DEF Start, HistoryStates
  <2>2. QED BY <1>1, <1>2, <1>4, <2>1 DEF Start, ghosts
<1>5. CASE Cancel
  BY <1>1, <1>2, <1>5 DEF Cancel, TaskStates, ghosts
<1>6. CASE Acknowledge
  BY <1>1, <1>2, <1>6 DEF Acknowledge
<1>7. CASE OtherStarts \/ OtherEnds \/ RetryDue
  BY <1>1, <1>2, <1>7 DEF OtherStarts, OtherEnds, RetryDue, serviceVars, ghosts
<1>8. QED BY <1>3, <1>4, <1>5, <1>6, <1>7 DEF OutsideStep

LEMMA TypesKept == ServiceInv /\ [Next]_vars => ServiceTypeOK'
<1>1. UNCHANGED vars /\ OwnTypesOK => OwnTypesOK'
  BY DEF vars, serviceVars, ghosts, envVars, OwnTypesOK
<1>2. QED
  BY <1>1, TablesKept, StepCases, CallersKeepOwnTypes, JobKeepsOwnTypes, OthersKeepOwnTypes
     DEF ServiceInv, ServiceTypeOK

----------------------------------------------------------------------------
(* Who holds the token, what the requests know, and the album in hand.     *)

Shape == TokenHeld /\ CallersKnow /\ JobShape /\ WorkIsOpen

LEMMA JobStands ==
    ASSUME ServiceInv, UNCHANGED <<job, pid>>, lastRun' \in Nat, lastRun' >= lastRun
    PROVE  JobShape'
<1>1. job.pc # "none" => job.run <= lastRun' /\ job.run \in Nat
  <2>1. lastRun \in Nat /\ (job.pc # "none" => job.run \in Runs /\ job.run <= lastRun)
    BY DEF ServiceInv, ServiceTypeOK, OwnTypesOK, JobShape
  <2>2. \A r \in Runs : r \in Nat
    BY ServiceAssumption DEF ServiceAssumption
  <2>3. job.pc # "none" => job.run \in Nat
    BY <2>1, <2>2
  <2>4. QED BY <2>1, <2>3
<1>2. QED BY <1>1 DEF ServiceInv, JobShape, Up, AtAlbum

\* The row in hand may be queued again meanwhile; nothing closes it.
LEMMA RowStands ==
    ASSUME ServiceInv, UNCHANGED job,
           \A p \in Albums : items'[p] = items[p] \/ items'[p].status = "pending"
    PROVE  WorkIsOpen'
  BY DEF ServiceInv, WorkIsOpen, AtWork

LEMMA CallersKeepShape == ASSUME ServiceInv, CallerStep PROVE Shape'
<1> USE DEF ServiceInv, Shape
<1>1. "http" \in Callers /\ "scheduler" \in Callers
      /\ caller \in [Callers -> CallerStates] /\ lastRun \in Nat /\ job \in Jobs
      /\ items \in [Albums -> Row]
  BY DEF ServiceTypeOK, OwnTypesOK, TypeOK, Callers
<1>2. \A c \in Callers : caller[c].albums \in SUBSET Albums
  BY DEF ServiceTypeOK, OwnTypesOK, CallerStates
<1>3. ASSUME UNCHANGED <<job, pid, lastRun>>,
             \A p \in Albums : items'[p] = items[p] \/ items'[p].status = "pending"
      PROVE  JobShape' /\ WorkIsOpen'
  BY <1>1, <1>3, JobStands, RowStands
<1>4. ASSUME UNCHANGED storeVars
      PROVE  UNCHANGED pid /\ \A p \in Albums : items'[p] = items[p] \/ items'[p].status = "pending"
  BY <1>4 DEF storeVars
<1>5. ASSUME NEW S \in SUBSET Albums, InsertPending(S) \/ Requeue(S)
      PROVE  UNCHANGED pid /\ \A p \in Albums : items'[p] = items[p] \/ items'[p].status = "pending"
  BY <1>5 DEF InsertPending, Requeue, PendingRow
<1>6. CASE PollPending
  BY <1>1, <1>3, <1>4, <1>6 DEF PollPending, Idle, Say, TokenHeld, CallersKnow, Callers
<1>7. CASE \E c \in Callers : Request(c)
  BY <1>1, <1>3, <1>4, <1>7 DEF Request, Idle, Say, TokenHeld, CallersKnow, Callers
<1>8. CASE \E c \in Callers : Insert(c)
  <2>1. PICK c \in Callers : Insert(c)
    BY <1>8
  <2>2. Fresh(caller[c].albums) \in SUBSET Albums
    BY <1>2 DEF Fresh
  <2>3. JobShape' /\ WorkIsOpen'
    BY <1>3, <1>5, <2>1, <2>2 DEF Insert
  <2>4. TokenHeld' /\ CallersKnow'
    BY <1>1, <2>1 DEF Insert, Say, TokenHeld, CallersKnow, Callers
  <2>5. QED BY <2>3, <2>4
<1>9. CASE \E c \in Callers : InsertTorn(c)
  <2>1. PICK c \in Callers : InsertTorn(c)
    BY <1>9
  <2>2. PICK T \in SUBSET Fresh(caller[c].albums) : InsertPending(T)
    BY <2>1 DEF InsertTorn
  <2>3. T \in SUBSET Albums
    BY <1>2, <2>2 DEF Fresh
  <2>4. JobShape' /\ WorkIsOpen'
    BY <1>3, <1>5, <2>1, <2>2, <2>3 DEF InsertTorn
  <2>5. TokenHeld' /\ CallersKnow'
    BY <1>1, <2>1 DEF InsertTorn, Say, TokenHeld, CallersKnow, Callers
  <2>6. QED BY <2>4, <2>5
<1>10. CASE \E c \in Callers : StartBatch(c)
  <2>1. PICK c \in Callers : StartBatch(c)
    BY <1>10
  <2>2. NextRun \in Runs /\ NextRun \in Nat /\ lastRun' = NextRun /\ NextRun > lastRun
    BY <2>1, NextRunType DEF StartBatch, ServiceTypeOK
  <2>3. job' = [NoJob EXCEPT !.pc = "bind", !.run = NextRun,
                             !.all = caller[c].albums, !.todo = caller[c].albums]
        /\ caller[c].albums # {} /\ UNCHANGED storeVars /\ Up("server")
    BY <2>1 DEF StartBatch, CallersKnow, Serving
  <2>4. JobShape'
    BY <2>2, <2>3 DEF JobShape, NoJob, AtAlbum, Up, storeVars
  <2>5. WorkIsOpen'
    BY <2>3, ServiceAssumption DEF WorkIsOpen, AtWork, NoJob, ServiceAssumption
  <2>6. TokenHeld' /\ CallersKnow'
    BY <1>1, <2>1, <2>3 DEF StartBatch, Say, TokenHeld, CallersKnow, Callers, NoJob
  <2>7. QED BY <2>4, <2>5, <2>6
<1>11. CASE \E c \in Callers : StartUnrecorded(c)
  <2>1. PICK c \in Callers : StartUnrecorded(c)
    BY <1>11
  <2>2. lastRun' \in Nat /\ lastRun' >= lastRun
    BY <1>1, <2>1 DEF StartUnrecorded, NextRun
  <2>3. JobShape' /\ WorkIsOpen'
    BY <1>4, <2>1, <2>2, JobStands, RowStands DEF StartUnrecorded
  <2>4. TokenHeld' /\ CallersKnow'
    BY <1>1, <2>1 DEF StartUnrecorded, Say, TokenHeld, CallersKnow, Callers
  <2>5. QED BY <2>3, <2>4
<1>12. CASE \E c \in Callers : StartRefused(c)
  BY <1>1, <1>3, <1>4, <1>12 DEF StartRefused, Say, TokenHeld, CallersKnow, Callers
<1>13. CASE RetryFailed
  BY <1>1, <1>3, <1>4, <1>13 DEF RetryFailed, Idle, Say, TokenHeld, CallersKnow, Callers
<1>14. CASE ResetRetried
  <2>1. JobShape' /\ WorkIsOpen'
    BY <1>1, <1>2, <1>3, <1>5, <1>14 DEF ResetRetried
  <2>2. TokenHeld' /\ CallersKnow'
    BY <1>1, <1>14 DEF ResetRetried, Say, TokenHeld, CallersKnow, Callers
  <2>3. QED BY <2>1, <2>2
<1>15. CASE ManualToken
  <2>1. PICK p \in Albums : Say("http", "manual", {p})
    BY <1>15 DEF ManualToken
  <2>2. JobShape' /\ WorkIsOpen'
    BY <1>3, <1>4, <1>15 DEF ManualToken
  <2>3. TokenHeld' /\ CallersKnow'
    BY <1>1, <1>15, <2>1 DEF ManualToken, Idle, Say, TokenHeld, CallersKnow, Callers
  <2>4. QED BY <2>2, <2>3
<1>16. CASE ManualStart
  <2>1. NextRun \in Runs /\ NextRun \in Nat /\ lastRun' = NextRun
    BY <1>1, <1>16, NextRunType DEF ManualStart, ServiceTypeOK, CallersKnow
  <2>2. job' = [NoJob EXCEPT !.pc = "claim", !.kind = "manual", !.run = NextRun,
                             !.all = caller["http"].albums, !.todo = caller["http"].albums]
        /\ caller["http"].albums # {} /\ (\A p, q \in caller["http"].albums : p = q)
        /\ UNCHANGED pid /\ Up("server")
    BY <1>1, <1>16 DEF ManualStart, CallersKnow, InsertPending
  <2>3. JobShape'
    BY <2>1, <2>2 DEF JobShape, NoJob, AtAlbum, Up
  <2>4. WorkIsOpen'
    BY <2>2, ServiceAssumption DEF WorkIsOpen, AtWork, NoJob, ServiceAssumption
  <2>5. TokenHeld' /\ CallersKnow'
    BY <1>1, <1>16, <2>2 DEF ManualStart, Say, TokenHeld, CallersKnow, Callers, NoJob
  <2>6. QED BY <2>3, <2>4, <2>5
<1>17. CASE ManualRefused
  BY <1>1, <1>3, <1>4, <1>17 DEF ManualRefused, Say, TokenHeld, CallersKnow, Callers
<1>18. QED
  BY <1>6, <1>7, <1>8, <1>9, <1>10, <1>11, <1>12, <1>13, <1>14, <1>15, <1>16, <1>17
     DEF CallerStep

\* A step of the job leaves the requests, the process and the token alone, and
\* the job where it still holds the token.
LEMMA JobHoldsOn ==
    ASSUME ServiceInv, AlbumStep \/ (RunStep /\ ~Release)
    PROVE  /\ UNCHANGED <<holder, caller, pid, lastRun>>
           /\ job.pc # "none" /\ job'.pc # "none"
           /\ job'.run = job.run /\ job'.all = job.all /\ job'.kind = job.kind
<1> USE DEF Either, Batch, Manual
<1>1. job \in Jobs
  BY DEF ServiceInv, ServiceTypeOK, OwnTypesOK
<1>2. UNCHANGED storeVars => UNCHANGED pid
  BY DEF storeVars
<1>3. CASE Claim \/ ClaimFails \/ Origin \/ Lookup
  <2>1. CASE Claim
    BY <1>1, <1>2, <2>1 DEF Claim, MarkRunning, Jobs
  <2>2. CASE ClaimFails
    BY <1>1, <1>2, <2>2 DEF ClaimFails, Jobs
  <2>3. CASE Origin
    BY <1>1, <1>2, <2>3 DEF Origin, Jobs
  <2>4. CASE Lookup
    BY <1>1, <1>2, <2>4 DEF Lookup, Checkpoint, Jobs
  <2> QED
    BY <1>3, <2>1, <2>2, <2>3, <2>4
<1>4. CASE AiRefused \/ AiProposes \/ AiWrites \/ Resolve
  <2>1. CASE AiRefused
    BY <1>1, <1>2, <2>1 DEF AiRefused, Jobs
  <2>2. CASE AiProposes
    BY <1>1, <1>2, <2>2 DEF AiProposes, RecordFlag, Jobs
  <2>3. CASE AiWrites
    BY <1>1, <1>2, <2>3 DEF AiWrites, AfterResolver, Jobs
  <2>4. CASE Resolve
    <3>1. PICK result : job' = AfterResolver(result)
      BY <2>4 DEF Resolve
    <3>2. job'.run = job.run /\ job'.all = job.all /\ job'.kind = job.kind /\ job'.pc # "none"
      BY <1>1, <3>1 DEF AfterResolver, Jobs
    <3>3. UNCHANGED <<holder, caller, pid, lastRun>> /\ job.pc # "none"
      BY <1>2, <2>4 DEF Resolve, RecordFlag
    <3>4. QED BY <3>2, <3>3
  <2> QED
    BY <1>4, <2>1, <2>2, <2>3, <2>4
<1>5. CASE Commit \/ CommitFails \/ CommitCancelled
  <2>1. CASE Commit
    <3>1. \/ \E failed, review : job' = Settled(failed, review)
          \/ job' = [job EXCEPT !.pc = "release", !.cur = NoAlbum]
      BY <2>1 DEF Commit
    <3>2. job'.run = job.run /\ job'.all = job.all /\ job'.kind = job.kind /\ job'.pc # "none"
      BY <1>1, <3>1, ZenonT(30) DEF Settled, Jobs
    <3>3. UNCHANGED <<holder, caller, pid, lastRun>> /\ job.pc # "none"
      BY <2>1 DEF Commit, Finish, FinishDeferred
    <3>4. QED BY <3>2, <3>3
  <2>2. CASE CommitFails
    BY <1>1, <1>2, <2>2 DEF CommitFails, Settled, Jobs
  <2>3. CASE CommitCancelled
    BY <1>1, <1>2, <2>3 DEF CommitCancelled, Settled, Jobs
  <2> QED
    BY <1>5, <2>1, <2>2, <2>3
<1>6. CASE ManualStops \/ ManualFails
  <2>1. CASE ManualStops
    BY <1>1, <1>2, <2>1 DEF ManualStops, StopPaths, CancelPaths, CancelFailed, Finish, Jobs
  <2>2. CASE ManualFails
    BY <1>1, <1>2, <2>2 DEF ManualFails, Finish, Jobs
  <2> QED
    BY <1>6, <2>1, <2>2
<1>7. CASE Bind \/ LoopEnds \/ WindCancelled \/ Wind
  <2>1. CASE Bind
    BY <1>1, <1>2, <2>1 DEF Bind, BindRun, Jobs
  <2>2. CASE LoopEnds
    BY <1>1, <1>2, <2>2 DEF LoopEnds, Jobs
  <2>3. CASE WindCancelled
    BY <1>1, <1>2, <2>3 DEF WindCancelled, StopPaths, CancelPaths, CancelFailed, Jobs
  <2>4. CASE Wind
    BY <1>1, <1>2, <2>4 DEF Wind, Jobs
  <2> QED
    BY <1>7, <2>1, <2>2, <2>3, <2>4
<1>8. CASE Judge \/ Close \/ Record
  <2>1. CASE Judge
    BY <1>1, <1>2, <2>1 DEF Judge, Jobs
  <2>2. CASE Close
    BY <1>1, <1>2, <2>2 DEF Close, Jobs
  <2>3. CASE Record
    BY <1>1, <1>2, <2>3 DEF Record, Jobs
  <2> QED
    BY <1>8, <2>1, <2>2, <2>3
<1>9. QED BY <1>3, <1>4, <1>5, <1>6, <1>7, <1>8 DEF AlbumStep, RunStep

\* What is left to show of the job's shape once that is known.
LEMMA JobShapeKept ==
    ASSUME ServiceInv, AlbumStep \/ (RunStep /\ ~Release),
           job'.pc \in AtAlbum <=> job'.cur # NoAlbum,
           job'.cur # NoAlbum => job'.cur \in job.all /\ job'.origin \in Runs,
           job'.todo \subseteq job.all,
           job.kind = "batch" => job'.pc # "fail",
           job.kind = "manual" =>
              job'.pc \notin {"bind", "origin", "wind", "judge", "record"} /\ ~job'.aiBlocked
    PROVE  JobShape' /\ TokenHeld' /\ CallersKnow'
  BY JobHoldsOn DEF ServiceInv, JobShape, TokenHeld, CallersKnow, Up

LEMMA AlbumKeepsShape == ASSUME ServiceInv, AlbumStep PROVE JobShape' /\ TokenHeld' /\ CallersKnow'
<1>1. job \in Jobs /\ job.kind \in {"batch", "manual"} /\ JobShape
      /\ \A p \in job.todo : p \in job.all /\ p \in Albums /\ p # NoAlbum
  BY ServiceAssumption DEF ServiceAssumption, ServiceInv, ServiceTypeOK, OwnTypesOK, Jobs, JobShape
<1>2. job.pc \in AtAlbum => job.cur \in job.all /\ job.origin \in Runs /\ job.cur # NoAlbum
  BY DEF ServiceInv, JobShape
<1> DEFINE Shaped ==
       /\ job'.pc \in AtAlbum <=> job'.cur # NoAlbum
       /\ job'.cur # NoAlbum => job'.cur \in job.all /\ job'.origin \in Runs
       /\ job'.todo \subseteq job.all
       /\ job.kind = "batch" => job'.pc # "fail"
       /\ job.kind = "manual" =>
            job'.pc \notin {"bind", "origin", "wind", "judge", "record"} /\ ~job'.aiBlocked
<1> SUFFICES Shaped
  BY JobShapeKept
<1> USE DEF Either, Batch, Manual, AtAlbum
<1>3. CASE Claim
  <2>1. PICK p \in job.todo :
            job' = [job EXCEPT !.todo = @ \ {p}, !.cur = p, !.result = "none",
                               !.pc = IF job.kind = "batch" THEN "origin" ELSE "lookup",
                               !.origin = job.run]
    BY <1>3 DEF Claim
  <2>2. job.run \in Runs
    BY <1>3 DEF Claim, ServiceInv, JobShape
  <2>3. job'.todo = job.todo \ {p} /\ job'.cur = p /\ job'.origin = job.run
        /\ job'.pc = (IF job.kind = "batch" THEN "origin" ELSE "lookup")
        /\ job'.aiBlocked = job.aiBlocked
    BY <1>1, <2>1 DEF Jobs
  <2>4. QED BY <1>1, <2>2, <2>3 DEF JobShape
<1>4. CASE ClaimFails
  <2>1. PICK p \in job.todo :
            job' = IF job.kind = "batch"
                   THEN [job EXCEPT !.todo = @ \ {p}, !.failed = @ \cup {p}]
                   ELSE [job EXCEPT !.todo = {}, !.pc = "close", !.verdict = "failed"]
    BY <1>4 DEF ClaimFails
  <2>2. QED BY <1>1, <1>4, <2>1 DEF ClaimFails, JobShape, Jobs
<1>5. CASE Origin
  <2>1. OriginOf(job.cur, job.run) \in Runs
    BY <1>5, JobInHand, OriginType DEF Origin, ServiceInv, ServiceTypeOK
  <2>2. QED BY <1>1, <1>2, <1>5, <2>1 DEF Origin, JobShape, Jobs
<1>6. CASE Lookup \/ AiProposes
  BY <1>1, <1>2, <1>6 DEF Lookup, AiProposes, JobShape, Jobs
<1>7. CASE AiRefused
  BY <1>1, <1>2, <1>7 DEF AiRefused, JobShape, Jobs
<1>8. CASE AiWrites \/ Resolve
  <2>1. PICK result : job' = AfterResolver(result)
    BY <1>8 DEF AiWrites, Resolve
  <2>2. job.pc \in AtAlbum
    BY <1>8 DEF AiWrites, Resolve
  <2>3. QED BY <1>1, <1>2, <2>1, <2>2 DEF AfterResolver, JobShape, Jobs
<1>9. CASE Commit \/ CommitFails \/ CommitCancelled
  <2>1. job.pc = "settle"
    BY <1>9 DEF Commit, CommitFails, CommitCancelled
  <2>2. \/ \E failed, review : job.kind = "batch" /\ job' = Settled(failed, review)
        \/ job.kind = "manual" /\ job' = [job EXCEPT !.pc = "release", !.cur = NoAlbum]
        \/ job.kind = "manual" /\ job' = [job EXCEPT !.pc = "fail"]
    BY <1>1, <1>9 DEF Commit, CommitFails, CommitCancelled
  <2>3. ASSUME NEW failed, NEW review, job.kind = "batch", job' = Settled(failed, review)
        PROVE  Shaped
    BY <1>1, <2>3 DEF Settled, JobShape, Jobs
  <2>4. CASE job.kind = "manual" /\ job' = [job EXCEPT !.pc = "release", !.cur = NoAlbum]
    BY <1>1, <2>4 DEF JobShape, Jobs
  <2>5. CASE job.kind = "manual" /\ job' = [job EXCEPT !.pc = "fail"]
    BY <1>1, <1>2, <2>1, <2>5 DEF JobShape, Jobs
  <2>6. QED BY <2>2, <2>3, <2>4, <2>5
<1>10. CASE ManualStops \/ ManualFails
  <2>1. \E verdict : job' = [job EXCEPT !.pc = "close", !.cur = NoAlbum, !.verdict = verdict]
    BY <1>10 DEF ManualStops, ManualFails, StopPaths
  <2>2. job.kind = "manual"
    BY <1>10 DEF ManualStops, ManualFails
  <2>3. QED BY <1>1, <2>1, <2>2 DEF JobShape, Jobs
<1>11. QED BY <1>3, <1>4, <1>5, <1>6, <1>7, <1>8, <1>9, <1>10 DEF AlbumStep

LEMMA RunKeepsShape == ASSUME ServiceInv, RunStep PROVE Shape'
<1>1. job \in Jobs /\ job.kind \in {"batch", "manual"} /\ JobShape
  BY DEF ServiceInv, ServiceTypeOK, OwnTypesOK, Jobs
<1> USE DEF Either, Batch, Manual, AtAlbum
<1>2. CASE Release
  <2>1. job' = NoJob /\ job.pc # "none" /\ holder' = "free" /\ UNCHANGED <<caller, lastRun>>
        /\ UNCHANGED pid
    BY <1>2 DEF Release, storeVars
  <2>2. JobShape' /\ WorkIsOpen'
    BY <2>1, ServiceAssumption DEF ServiceAssumption, JobShape, WorkIsOpen, AtWork, NoJob
  <2>3. TokenHeld' /\ CallersKnow'
    BY <2>1 DEF TokenHeld, CallersKnow, NoJob, ServiceInv
  <2>4. QED BY <2>2, <2>3 DEF Shape
<1>3. CASE ~Release
  <2>1. /\ job.pc \notin AtAlbum /\ job.cur = NoAlbum
        /\ job'.cur = NoAlbum /\ job'.todo = job.todo /\ job'.aiBlocked = job.aiBlocked
        /\ job'.pc \notin AtAlbum
        /\ job.kind = "manual" => job'.pc = "release"
    <3>1. CASE Bind \/ LoopEnds \/ WindCancelled \/ Wind
      <4>1. \/ \E pc \in {"claim", "wind", "judge"} : job' = [job EXCEPT !.pc = pc]
            \/ \E verdict : job' = [job EXCEPT !.pc = "close", !.verdict = verdict]
        BY <3>1 DEF Bind, LoopEnds, WindCancelled, StopPaths, Wind
      <4>2. job.kind = "batch" /\ job.pc \in {"bind", "claim", "wind"}
        BY <3>1 DEF Bind, LoopEnds, WindCancelled, Wind
      <4>3. job.pc \notin AtAlbum /\ job.cur = NoAlbum
        BY <1>1, <4>2 DEF JobShape
      <4>4. /\ job'.cur = job.cur /\ job'.todo = job.todo /\ job'.aiBlocked = job.aiBlocked
            /\ job'.pc \in {"claim", "wind", "judge", "close"}
        BY <1>1, <4>1 DEF Jobs
      <4>5. QED BY <4>2, <4>3, <4>4
    <3>2. CASE Judge
      BY <1>1, <3>2 DEF Judge, JobShape, Jobs
    <3>3. CASE Close
      BY <1>1, <3>3 DEF Close, JobShape, Jobs
    <3>4. CASE Record
      BY <1>1, <3>4 DEF Record, JobShape, Jobs
    <3>5. QED BY <1>3, <3>1, <3>2, <3>3, <3>4 DEF RunStep
  <2>2. JobShape' /\ TokenHeld' /\ CallersKnow'
    BY <1>1, <1>3, <2>1, JobShapeKept DEF JobShape
  <2>3. WorkIsOpen'
    BY <2>1, ServiceAssumption DEF WorkIsOpen, AtWork, ServiceAssumption
  <2>4. QED BY <2>2, <2>3 DEF Shape
<1>4. QED BY <1>2, <1>3

LEMMA AlbumKeepsRow == ASSUME ServiceInv, AlbumStep PROVE WorkIsOpen'
<1>1. job \in Jobs /\ items \in [Albums -> Row] /\ NoAlbum \notin Albums /\ WorkIsOpen
      /\ job.todo \in SUBSET Albums
  BY ServiceAssumption
     DEF ServiceAssumption, ServiceInv, ServiceTypeOK, TypeOK, OwnTypesOK, Jobs
<1> USE DEF Either, Batch, Manual, AtAlbum
<1>2. ASSUME job'.cur = NoAlbum PROVE WorkIsOpen'
  BY <1>1, <1>2 DEF WorkIsOpen, AtWork
<1>3. ASSUME job'.cur = job.cur, UNCHANGED items PROVE WorkIsOpen'
  BY <1>1, <1>3 DEF WorkIsOpen, AtWork
<1>4. CASE Claim
  <2>1. PICK p \in job.todo :
            /\ MarkRunning(p, job.run)
            /\ job' = [job EXCEPT !.todo = @ \ {p}, !.cur = p, !.result = "none",
                               !.pc = IF job.kind = "batch" THEN "origin" ELSE "lookup",
                               !.origin = job.run]
    BY <1>4 DEF Claim
  <2>2. job'.cur = p /\ p \in Albums
    BY <1>1, <2>1 DEF Jobs
  <2>3. items'[p].status = "running"
    BY <1>1, <2>1, <2>2 DEF MarkRunning
  <2>4. QED BY <2>2, <2>3 DEF WorkIsOpen, AtWork
<1>5. CASE ClaimFails \/ Origin \/ AiRefused
  BY <1>1, <1>2, <1>3, <1>5 DEF ClaimFails, Origin, AiRefused, storeVars, Jobs
<1>6. CASE Lookup \/ AiProposes
  BY <1>1, <1>3, <1>6 DEF Lookup, AiProposes, Checkpoint, RecordFlag, Jobs
<1>7. CASE AiWrites \/ Resolve
  <2>1. PICK result : job' = AfterResolver(result)
    BY <1>7 DEF AiWrites, Resolve
  <2>2. UNCHANGED items
    BY <1>7 DEF AiWrites, Resolve, storeVars, RecordFlag
  <2>3. QED BY <1>1, <1>3, <2>1, <2>2 DEF AfterResolver, Jobs
<1>8. CASE Commit
  <2>1. job'.cur = NoAlbum
    BY <1>1, <1>8 DEF Commit, Settled, Jobs
  <2>2. QED BY <1>2, <2>1
<1>9. CASE CommitFails \/ CommitCancelled
  BY <1>1, <1>2, <1>3, <1>9 DEF CommitFails, CommitCancelled, storeVars, Settled, Jobs
<1>10. CASE ManualStops \/ ManualFails
  BY <1>1, <1>2, <1>10 DEF ManualStops, ManualFails, StopPaths, Jobs
<1>11. QED BY <1>4, <1>5, <1>6, <1>7, <1>8, <1>9, <1>10 DEF AlbumStep

LEMMA OthersKeepShape == ASSUME ServiceInv, OutsideStep PROVE Shape'
<1> USE DEF ServiceInv, Shape
<1>1. "http" \in Callers /\ "scheduler" \in Callers /\ lastRun \in Nat /\ "server" \in Runtimes
      /\ items \in [Albums -> Row] /\ pid \in [Runtimes -> Pids \cup {NoPid}]
      /\ NoAlbum \notin Albums
  BY ServiceAssumption
     DEF ServiceAssumption, ServiceTypeOK, OwnTypesOK, TypeOK, Callers, Runtimes
<1>2. ASSUME UNCHANGED <<job, pid, lastRun, caller>>,
             holder' = holder \/ {holder, holder'} \subseteq {"free", "other"},
             \A p \in Albums : items'[p] = items[p] \/ items'[p].status = "pending"
      PROVE  Shape'
  <2>1. JobShape' /\ WorkIsOpen'
    BY <1>1, <1>2, JobStands, RowStands
  <2>2. TokenHeld' /\ CallersKnow'
    BY <1>2 DEF TokenHeld, CallersKnow
  <2>3. QED BY <2>1, <2>2
<1>3. CASE Cancel \/ OtherStarts \/ OtherEnds
  BY <1>2, <1>3 DEF Cancel, OtherStarts, OtherEnds, storeVars
<1>4. CASE RetryDue
  BY <1>2, <1>4 DEF RetryDue, DeadlinePasses, serviceVars
<1>5. CASE Acknowledge
  <2>1. PICK p \in Albums : MarkReviewed(p, TRUE)
    BY <1>5 DEF Acknowledge, Actionable
  <2>2. \A a \in Albums : items'[a] = items[a] \/ ~(items[a].status \in {"running", "pending"})
    BY <1>1, <2>1 DEF MarkReviewed
  <2>3. WorkIsOpen'
    BY <1>5, <2>2 DEF Acknowledge, WorkIsOpen, AtWork
  <2>4. JobShape'
    BY <1>1, <1>5, <2>1, JobStands DEF Acknowledge, MarkReviewed
  <2>5. TokenHeld' /\ CallersKnow'
    BY <1>5 DEF Acknowledge, TokenHeld, CallersKnow
  <2>6. QED BY <2>3, <2>4, <2>5
<1>6. CASE Crash
  BY <1>1, <1>6
     DEF Crash, NoJob, IdleCaller, TokenHeld, CallersKnow, JobShape, WorkIsOpen, AtWork,
         AtAlbum, Callers
<1>7. CASE Start
  <2>1. job.pc = "none"
    BY <1>7 DEF Start, OpenServer, JobShape
  <2>2. job' = NoJob /\ UNCHANGED <<holder, caller, lastRun, job>>
    BY <1>7, <2>1 DEF Start, JobShape
  <2>3. QED
    BY <1>1, <2>1, <2>2
       DEF NoJob, TokenHeld, CallersKnow, JobShape, WorkIsOpen, AtWork, AtAlbum
<1>8. QED BY <1>3, <1>4, <1>5, <1>6, <1>7 DEF OutsideStep

LEMMA ServiceInvKept == ServiceInv /\ [Next]_vars => ServiceInv'
<1>1. ASSUME ServiceInv, UNCHANGED vars PROVE Shape'
  BY <1>1
     DEF vars, storeVars, serviceVars, ServiceInv, Shape, TokenHeld, CallersKnow, JobShape,
         WorkIsOpen, AtWork, Up, AtAlbum
<1>2. QED
  BY <1>1, StepCases, TypesKept, CallersKeepShape, AlbumKeepsShape, AlbumKeepsRow, RunKeepsShape,
     OthersKeepShape
     DEF ServiceInv, Shape

LEMMA ServiceInvInit == Init => ServiceInv
<1> SUFFICES ASSUME Init PROVE ServiceInv
  OBVIOUS
<1>1. TypeOK
  BY RowTypes DEF Init, StoreInit, TypeOK
<1>2. OwnTypesOK
  BY NoJobType, ServiceAssumption
     DEF ServiceAssumption, Init, OwnTypesOK, CallerStates, IdleCaller, NoHistory, TaskStates, HistoryStates
<1>3. Shape
  BY ServiceAssumption
     DEF ServiceAssumption, Init, Shape, TokenHeld, CallersKnow, JobShape, WorkIsOpen, AtWork,
         AtAlbum, NoJob, IdleCaller, Callers
<1>4. QED BY <1>1, <1>2, <1>3 DEF ServiceInv, ServiceTypeOK, Shape

\* Every table, request, task, record and job of the pipeline stays well
\* formed, and the job, when there is one, holds the token, works for a known
\* run and has one album of its own, still open, in hand.
THEOREM ServiceIsSound == Spec => []ServiceInv
<1>1. QED BY ServiceInvInit, ServiceInvKept, PTL DEF Spec

----------------------------------------------------------------------------
(* The pipeline over the store: whatever it does to the tables, the marker *)
(* and the process table is one of the store's calls.                      *)

LEMMA CallersCall == ASSUME ServiceInv, CallerStep PROVE [StoreNext]_storeVars
<1>1. "http" \in Callers /\ \A c \in Callers : caller[c].albums \in SUBSET Albums
  BY DEF ServiceInv, ServiceTypeOK, OwnTypesOK, CallerStates, Callers
<1>2. ASSUME NEW S \in SUBSET Albums, NEW T \in SUBSET Fresh(S), Up("server"), InsertPending(T)
      PROVE  StoreNext
  <2>1. T \in SUBSET Fresh(Albums)
    BY DEF Fresh
  <2>2. QED BY <1>2, <2>1 DEF StoreNext, ServerCall
<1>3. CASE \E c \in Callers : Insert(c)
  BY <1>1, <1>2, <1>3 DEF Insert, Serving
<1>4. CASE \E c \in Callers : InsertTorn(c)
  BY <1>1, <1>2, <1>4 DEF InsertTorn, Serving
<1>5. CASE ResetRetried
  BY <1>1, <1>5 DEF ResetRetried, StoreNext, ServerCall
<1>6. CASE ManualStart
  <2>1. /\ caller["http"].albums \in SUBSET Fresh(caller["http"].albums)
        /\ Up("server") /\ InsertPending(caller["http"].albums)
    BY <1>6 DEF ManualStart
  <2>2. QED BY <1>1, <1>2, <2>1
<1>7. QED
  BY <1>3, <1>4, <1>5, <1>6
     DEF CallerStep, PollPending, Request, StartBatch, StartUnrecorded, StartRefused,
         RetryFailed, ManualToken, ManualRefused

LEMMA ResultsAreOutcomes ==
    ASSUME {"review", "proof"} \subseteq Calls, NEW result
    PROVE  <<StatusOf(result), PatchOf(result)>> \in Outcomes
  BY OutcomeOfResult DEF Outcomes

LEMMA JobCalls ==
    ASSUME {"review", "proof"} \subseteq Calls, ServiceInv, AlbumStep \/ RunStep
    PROVE  [StoreNext]_storeVars
<1>1. job.all \in SUBSET Albums /\ job.todo \in SUBSET Albums
      /\ (job.pc # "none" => Up("server") /\ job.run \in Runs /\ job.all # {})
  BY DEF ServiceInv, ServiceTypeOK, OwnTypesOK, Jobs, JobShape
<1>2. "server" \in Runtimes /\ "ai_fallback" \in FlagReasons /\ "recording_identity" \in FlagReasons
  BY DEF Runtimes, FlagReasons
<1>3. <<"failed", {}>> \in Outcomes
  BY DEF Outcomes
<1> USE DEF Either, Batch, Manual
<1>4. CASE Claim
  BY <1>1, <1>4 DEF Claim, StoreNext, ServerCall
<1>5. CASE Lookup \/ AiProposes \/ Resolve
  BY <1>2, <1>5, JobInHand DEF Lookup, AiProposes, Resolve, AtAlbum, StoreNext, EitherCall
<1>6. CASE Commit
  <2>1. <<StatusOf(job.result), PatchOf(job.result)>> \in Outcomes
    BY ResultsAreOutcomes
  <2>2. job.cur \in Albums /\ job.run \in Runs /\ job.origin \in Runs /\ Up("server")
    BY <1>6, JobInHand DEF Commit, AtAlbum
  <2>3. CASE Deferral
    <3>1. FinishDeferred(job.cur, job.run, job.origin, PatchOf(job.result))
      BY <1>6, <2>3 DEF Commit
    <3>2. StatusOf(job.result) = "needs_review"
      BY <2>3, OutcomeOfResult DEF Deferral
    <3>3. ServerCall
      BY <2>1, <2>2, <3>1, <3>2 DEF ServerCall
    <3>4. QED BY <2>2, <3>3 DEF StoreNext
  <2>4. CASE ~Deferral
    <3>1. Finish(job.cur, job.run, StatusOf(job.result), PatchOf(job.result))
      BY <1>6, <2>4 DEF Commit
    <3>2. EitherCall
      BY <2>1, <2>2, <3>1 DEF EitherCall
    <3>3. QED BY <1>2, <2>2, <3>2 DEF StoreNext
  <2>5. QED BY <2>3, <2>4
<1>7. CASE ManualFails
  <2>1. job.cur \in Albums /\ job.run \in Runs /\ Up("server")
    BY <1>7, JobInHand DEF ManualFails, AtAlbum
  <2>2. Finish(job.cur, job.run, "failed", {}) \/ UNCHANGED storeVars
    BY <1>7 DEF ManualFails
  <2>3. Finish(job.cur, job.run, "failed", {}) => EitherCall
    BY <1>3, <2>1 DEF EitherCall
  <2>4. QED BY <1>2, <2>1, <2>2, <2>3 DEF StoreNext
<1>8. CASE Bind
  BY <1>1, <1>8 DEF Bind, StoreNext, ServerCall
<1>9. CASE ManualStops \/ WindCancelled
  <2>1. CancelPaths(job.all) \/ \E filed \in BOOLEAN : CancelFailed(job.all, filed)
    BY <1>9 DEF ManualStops, WindCancelled, StopPaths
  <2>2. Up("server") /\ job.all \in (SUBSET Albums) \ {{}}
    BY <1>1, <1>9 DEF ManualStops, WindCancelled
  <2>3. QED BY <2>1, <2>2 DEF StoreNext, ServerCall
<1>10. QED
  BY <1>4, <1>5, <1>6, <1>7, <1>8, <1>9
     DEF AlbumStep, RunStep, ClaimFails, Origin, AiRefused, AiWrites, CommitFails,
         CommitCancelled, LoopEnds, Wind, Judge, Close, Record, Release

LEMMA OthersCall ==
    ASSUME {"review", "proof"} \subseteq Calls, ServiceInv, OutsideStep
    PROVE  [StoreNext]_storeVars
  BY DEF OutsideStep, Cancel, Acknowledge, Actionable, OtherStarts, OtherEnds, RetryDue, Crash,
         Start, StoreNext, Runtimes

LEMMA ServiceCalls ==
    ASSUME {"review", "proof"} \subseteq Calls
    PROVE  ServiceInv /\ [Next]_vars => [StoreNext]_storeVars
<1>1. UNCHANGED vars => UNCHANGED storeVars
  BY DEF vars
<1>2. QED BY <1>1, StepCases, CallersCall, JobCalls, OthersCall

\* The pipeline only ever uses the store through its calls, with arguments the
\* store's own model allows, so the store's theorems are theorems about the
\* pipeline too (server.rs and commands/auto_tag.rs over state/worker.rs).
THEOREM ServiceUsesStore ==
    ASSUME {"review", "proof"} \subseteq Calls
    PROVE  Spec => StoreSpec
<1>1. Init => StoreInit
  BY DEF Init
<1>2. ServiceInv /\ [Next]_vars => [StoreNext]_storeVars
  BY ServiceCalls
<1>3. QED BY <1>1, <1>2, ServiceIsSound, PTL DEF Spec, StoreSpec

\* What the store promises therefore holds of the whole service: deferred
\* albums come back, proofs are published, AI flags survive, running rows are
\* not taken over and spent retries are not given back.
THEOREM ServiceKeepsPromises ==
    ASSUME {"review", "proof"} \subseteq Calls
    PROVE  Spec => /\ []DeferredHasRetry /\ []ProofIsPublished
                   /\ AiFlagKept /\ NoTakeover /\ RetryBudgetSpent
  BY ServiceUsesStore, DeferralKeepsRetry, ProofsArePublished, AiFlagSurvives,
     RunningRowsAreSafe, BudgetIsKept

----------------------------------------------------------------------------
(* Cancellation: nothing is completed for a task the operator cancelled.   *)

\* What can happen to the scheduling rows, by the step that does it.
LEMMA RowChanges ==
    ASSUME ServiceInv, Next
    PROVE  \/ UNCHANGED items
           \/ Claim \/ Commit \/ ManualFails \/ Acknowledge \/ Start
           \/ CallerStep /\ \A p \in Albums : items'[p] \in {items[p], PendingRow}
           \/ (ManualStops \/ WindCancelled) /\ CancelPaths(job.all)
<1>1. UNCHANGED storeVars => UNCHANGED items
  BY DEF storeVars
<1>2. CASE CallerStep
  <2>1. ASSUME NEW T, InsertPending(T) \/ Requeue(T)
        PROVE  \A p \in Albums : items'[p] \in {items[p], PendingRow}
    BY <2>1 DEF InsertPending, Requeue
  <2>2. QED
    BY <1>1, <1>2, <2>1
       DEF CallerStep, PollPending, Request, Insert, InsertTorn, StartBatch, StartUnrecorded,
           StartRefused, RetryFailed, ResetRetried, ManualToken, ManualStart, ManualRefused
<1>3. CASE AlbumStep
  BY <1>1, <1>3
     DEF AlbumStep, ClaimFails, Origin, Lookup, AiRefused, AiProposes, AiWrites, Resolve,
         CommitFails, CommitCancelled, ManualStops, StopPaths, CancelFailed, Checkpoint, RecordFlag
<1>4. CASE RunStep
  BY <1>1, <1>4
     DEF RunStep, Bind, BindRun, LoopEnds, WindCancelled, StopPaths, CancelFailed, Wind, Judge,
         Close, Record, Release
<1>5. CASE OutsideStep
  BY <1>1, <1>5
     DEF OutsideStep, Cancel, OtherStarts, OtherEnds, RetryDue, DeadlinePasses, Crash, Exit, tables
<1>6. QED BY <1>2, <1>3, <1>4, <1>5, StepCases

\* A completion touches the row of the album in hand, names the job's run in
\* it, and leaves it neither queued nor running.
LEMMA CommitRow ==
    ASSUME ServiceInv, Commit
    PROVE  /\ job.cur \in Albums /\ job.run \in Runs /\ StillRunning
           /\ \A p \in Albums : p # job.cur => items'[p] = items[p]
           /\ items'[job.cur].run = job.run
           /\ items'[job.cur].status \in {"completed", "needs_review", "failed", "deferred"}
           /\ items'[job.cur].status = "failed" => StatusOf(job.result) = "failed"
           /\ items'[job.cur].status = "deferred" => StatusOf(job.result) = "needs_review"
<1>1. job.cur \in Albums /\ job.run \in Runs /\ StillRunning
  BY JobInHand DEF Commit, Either, AtAlbum
<1>2. items \in [Albums -> Row]
  BY DEF ServiceInv, ServiceTypeOK, TypeOK
<1>3. CASE Deferral
  <2> DEFINE status == IF Exhausted(job.cur) THEN "needs_review" ELSE "deferred"
  <2>1. items' = [items EXCEPT ![job.cur] = [@ EXCEPT !.status = status, !.run = job.run]]
    BY <1>3 DEF Commit, FinishDeferred
  <2>2. status \in {"needs_review", "deferred"} /\ StatusOf(job.result) = "needs_review"
    BY <1>3, OutcomeOfResult DEF Deferral
  <2> HIDE DEF status
  <2>3. QED BY <1>1, <1>2, <2>1, <2>2 DEF Row
<1>4. CASE ~Deferral
  <2>1. items' = [items EXCEPT ![job.cur] =
                    [@ EXCEPT !.status = StatusOf(job.result), !.run = job.run]]
    BY <1>4 DEF Commit, Finish
  <2>2. StatusOf(job.result) \in {"completed", "needs_review", "failed"}
    BY OutcomeOfResult
  <2>3. QED BY <1>1, <1>2, <2>1, <2>2 DEF Row
<1>5. QED BY <1>3, <1>4

LEMMA FailRow ==
    ASSUME ServiceInv, ManualFails
    PROVE  /\ job.cur \in Albums /\ job.run \in Runs
           /\ \A p \in Albums : p # job.cur => items'[p] = items[p]
           /\ \/ UNCHANGED items /\ faulted'
              \/ items'[job.cur].run = job.run /\ items'[job.cur].status = "failed"
<1>1. job.cur \in Albums /\ job.run \in Runs
  BY JobInHand DEF ManualFails, Manual, AtAlbum
<1>2. items \in [Albums -> Row]
  BY DEF ServiceInv, ServiceTypeOK, TypeOK
<1>3. CASE Finish(job.cur, job.run, "failed", {})
  BY <1>1, <1>2, <1>3 DEF Finish, Row
<1>4. CASE Spend("fault") /\ UNCHANGED storeVars
  <2>1. UNCHANGED items
    BY <1>4 DEF storeVars
  <2>2. faulted'
    BY <1>4 DEF Spend
  <2>3. QED BY <1>1, <2>1, <2>2
<1>5. QED BY <1>3, <1>4 DEF ManualFails

LEMMA AcknowledgedRow ==
    ASSUME ServiceInv, Acknowledge, NEW p \in Albums
    PROVE  \/ items'[p] = items[p]
           \/ /\ items[p].status \in {"needs_review", "deferred"}
              /\ items'[p].status = "completed" /\ items'[p].run = items[p].run
  BY DEF ServiceInv, ServiceTypeOK, TypeOK, Row, Acknowledge, MarkReviewed

LEMMA WithdrawnRow ==
    ASSUME ServiceInv, CancelPaths(job.all), NEW p \in Albums
    PROVE  \/ p \notin job.all /\ items'[p] = items[p]
           \/ p \in job.all /\ Active(p) /\ items'[p].status = "cancelled" /\ items'[p].run = NoRun
           \/ p \in job.all /\ ~Active(p) /\ items'[p] = items[p]
  BY ZenonT(30) DEF ServiceInv, ServiceTypeOK, TypeOK, Row, CancelPaths, Withdrawn, Active

LEMMA ClaimedRow ==
    ASSUME ServiceInv, Claim
    PROVE  \E p \in job.todo :
              /\ p \in Albums /\ Claimable(p) /\ job'.cur = p
              /\ items'[p] = [status |-> "running", run |-> job.run,
                              owner |-> [runtime |-> "server", pid |-> pid["server"]]]
              /\ \A q \in Albums : q # p => items'[q] = items[q]
<1>1. job \in Jobs /\ items \in [Albums -> Row] /\ job.todo \in SUBSET Albums
  BY DEF ServiceInv, ServiceTypeOK, TypeOK, OwnTypesOK, Jobs
<1>2. PICK p \in job.todo :
          /\ MarkRunning(p, job.run)
          /\ job' = [job EXCEPT !.todo = @ \ {p}, !.cur = p, !.result = "none",
                                !.pc = IF job.kind = "batch" THEN "origin" ELSE "lookup",
                                !.origin = job.run]
  BY DEF Claim
<1>3. p \in Albums /\ job'.cur = p
  BY <1>1, <1>2 DEF Jobs
<1>4. Claimable(p) /\ items' = [items EXCEPT ![p] =
         [status |-> "running", run |-> job.run,
          owner |-> [runtime |-> "server", pid |-> pid["server"]]]]
  BY <1>2 DEF MarkRunning
<1>5. QED BY <1>1, <1>3, <1>4

LEMMA RecoveredRow ==
    ASSUME ServiceInv, Start, NEW p \in Albums
    PROVE  \/ items'[p] = items[p]
           \/ Active(p) /\ items'[p].status = "cancelled" /\ items'[p].run = NoRun
           \/ items[p].status = "running" /\ items'[p].status = "pending" /\ items'[p].run = NoRun
<1>1. items[p] \in Row
  BY DEF ServiceInv, ServiceTypeOK, TypeOK
<1>2. PICK alive : items'[p] \in {items[p], Recovered(p, alive)}
  BY DEF Start, OpenServer
<1>3. QED BY <1>1, <1>2 DEF Row, Recovered, Withdrawn, Active, ActiveStatuses

\* Once task:cancel has answered, no album still queued or running is
\* completed, deferred or sent to review for that task (with_running holds the
\* registry's lock over the terminal transaction).
THEOREM CancelledTasksComplete == Spec => CancelledStaysOut
<1>1. ASSUME ServiceInv, [Next]_vars, NEW p \in Albums, NEW r \in Runs,
             tasks[r] = "cancelled", items[p].status \in {"pending", "running"},
             items'[p].run = r
      PROVE  items'[p].status \notin {"completed", "needs_review", "deferred"}
  <2>1. CASE UNCHANGED items
    BY <1>1, <2>1
  <2>2. CASE UNCHANGED vars
    BY <2>1, <2>2 DEF vars, storeVars
  <2>3. CASE Claim
    BY <1>1, <2>3, ClaimedRow
  <2>4. CASE Commit
    BY <1>1, <2>4, CommitRow DEF StillRunning
  <2>5. CASE ManualFails
    BY <1>1, <2>5, FailRow
  <2>6. CASE Acknowledge
    BY <1>1, <2>6, AcknowledgedRow
  <2>7. CASE Start
    BY <1>1, <2>7, RecoveredRow
  <2>8. CASE \A a \in Albums : items'[a] \in {items[a], PendingRow}
    BY <1>1, <2>8 DEF PendingRow
  <2>9. CASE CancelPaths(job.all)
    BY <1>1, <2>9, WithdrawnRow
  <2>10. QED
    BY <1>1, <2>1, <2>2, <2>3, <2>4, <2>5, <2>6, <2>7, <2>8, <2>9, RowChanges
<1>2. ServiceInv /\ [Next]_vars =>
        [\A p \in Albums, r \in Runs :
            /\ tasks[r] = "cancelled"
            /\ items[p].status \in {"pending", "running"}
            /\ items'[p].run = r
            => items'[p].status \notin {"completed", "needs_review", "deferred"}]_vars
  BY <1>1
<1>3. QED BY <1>2, ServiceIsSound, PTL DEF Spec, CancelledStaysOut

----------------------------------------------------------------------------
(* The AI's tags stay flagged; a charged lineage asks the AI no more.      *)

LEMMA FlagsKept == ASSUME ServiceInv, AiTagsFlagged, [Next]_vars PROVE AiTagsFlagged'
<1>1. flags \in [Albums -> Flag] /\ aiTagged \in SUBSET Albums
  BY DEF ServiceInv, ServiceTypeOK, TypeOK, OwnTypesOK
<1>2. ASSUME UNCHANGED <<flags, aiTagged>> PROVE AiTagsFlagged'
  BY <1>2 DEF AiTagsFlagged
<1>3. UNCHANGED storeVars => UNCHANGED flags
  BY DEF storeVars
<1>4. CASE UNCHANGED vars
  BY <1>2, <1>3, <1>4 DEF vars, ghosts
<1>5. CASE CallerStep
  BY <1>2, <1>3, <1>5
     DEF CallerStep, PollPending, Request, Insert, InsertTorn, StartBatch, StartUnrecorded,
         StartRefused, RetryFailed, ResetRetried, ManualToken, ManualStart, ManualRefused,
         InsertPending, Requeue, ghosts
<1>6. CASE RunStep
  BY <1>2, <1>3, <1>6
     DEF RunStep, Bind, BindRun, LoopEnds, WindCancelled, StopPaths, CancelPaths, CancelFailed,
         Wind, Judge, Close, Record, Release, ghosts
<1>7. CASE AiProposes
  <2>1. flags' = [flags EXCEPT ![job.cur] =
                    [reason |-> "ai_fallback", run |-> job.run, reviewed |-> FALSE]]
        /\ aiTagged' = aiTagged \cup {job.cur} /\ job.cur \in Albums
    BY <1>7, JobInHand DEF AiProposes, RecordFlag, Either, AtAlbum
  <2>2. QED BY <1>1, <2>1 DEF AiTagsFlagged
<1>8. CASE Resolve
  <2>1. ASSUME RecordFlag(job.cur, "recording_identity", job.run), UNCHANGED aiTagged
        PROVE  AiTagsFlagged'
    BY <1>1, <2>1 DEF RecordFlag, AiTagsFlagged
  <2>2. QED BY <1>2, <1>3, <1>8, <2>1 DEF Resolve
<1>9. CASE Commit
  <2>1. UNCHANGED aiTagged
    BY <1>9 DEF Commit, ghosts
  <2>2. \/ UNCHANGED flags
        \/ /\ flags[job.cur].reason = "recording_identity"
           /\ flags' = [flags EXCEPT ![job.cur] = NoFlag]
    BY <1>9 DEF Commit, Finish, FinishDeferred
  <2>3. QED BY <1>1, <1>2, <2>1, <2>2 DEF AiTagsFlagged
<1>10. CASE ManualFails
  <2>1. UNCHANGED <<flags, aiTagged>>
    BY <1>3, <1>10 DEF ManualFails, Finish, ghosts
  <2>2. QED BY <1>2, <2>1
<1>11. CASE Claim \/ ClaimFails \/ Origin \/ Lookup \/ AiRefused \/ AiWrites \/ CommitFails
            \/ CommitCancelled \/ ManualStops
  BY <1>2, <1>3, <1>11
     DEF Claim, MarkRunning, ClaimFails, Origin, Lookup, Checkpoint, AiRefused, AiWrites,
         CommitFails, CommitCancelled, ManualStops, StopPaths, CancelPaths, CancelFailed, ghosts
<1>12. CASE Acknowledge
  <2>1. PICK p \in Actionable : MarkReviewed(p, TRUE) /\ aiTagged' = aiTagged \ {p}
    BY <1>12 DEF Acknowledge
  <2>2. \A a \in Albums : a # p => flags'[a] = flags[a]
    BY <1>1, <2>1 DEF MarkReviewed
  <2>3. QED BY <1>1, <2>1, <2>2 DEF AiTagsFlagged
<1>13. CASE Cancel \/ OtherStarts \/ OtherEnds \/ RetryDue \/ Crash \/ Start
  BY <1>2, <1>3, <1>13
     DEF Cancel, OtherStarts, OtherEnds, RetryDue, DeadlinePasses, Crash, Exit, Start, OpenServer,
         tables, ghosts
<1>14. QED
  BY <1>4, <1>5, <1>6, <1>7, <1>8, <1>9, <1>10, <1>11, <1>12, <1>13, StepCases
     DEF AlbumStep, OutsideStep

\* From the moment the AI's tags are chosen until the operator acknowledges the
\* album, it is under an unreviewed AI flag: no identity flag, completion,
\* cancellation, retry, crash or restart takes it away
\* (checkpoint_candidate_review, record_review_flag, finish_with_evidence).
THEOREM AiTagsStayFlagged == Spec => []AiTagsFlagged
<1>1. Init => AiTagsFlagged
  BY DEF Init, AiTagsFlagged
<1>2. QED BY <1>1, FlagsKept, ServiceIsSound, PTL DEF Spec

\* A charged album's lineage has its circuit open, and a batch that may still
\* ask the AI about an album works on one that is not charged.
ChargedIsOpen == \A p \in charged : lineage[p] \in circuits

AskIsAllowed ==
    job.kind = "batch" /\ job.pc \in {"lookup", "decide", "write"} =>
        /\ job.pc = "write" => ~job.aiBlocked
        /\ ~job.aiBlocked => job.cur \notin charged

AiInv == ChargedIsOpen /\ AskIsAllowed

LEMMA ChargesKept == ASSUME ServiceInv, AiInv, [Next]_vars PROVE ChargedIsOpen'
<1>1. lineage \in [Albums -> Runs \cup {NoRun}] /\ circuits \in SUBSET Runs
      /\ charged \in SUBSET Albums /\ NoRun \notin Runs
  BY StoreAssumption DEF StoreAssumption, ServiceInv, ServiceTypeOK, TypeOK, OwnTypesOK
<1>2. ASSUME UNCHANGED <<lineage, charged>>, circuits \subseteq circuits' PROVE ChargedIsOpen'
  BY <1>2 DEF ChargedIsOpen, AiInv
<1>3. UNCHANGED storeVars => UNCHANGED lineage
  BY DEF storeVars
<1>4. ASSUME UNCHANGED lineage, circuits \subseteq circuits',
             charged' = charged \cup Charged(circuits')
      PROVE  ChargedIsOpen'
  BY <1>4 DEF ChargedIsOpen, AiInv, Charged
<1>5. CASE UNCHANGED vars
  BY <1>2, <1>3, <1>5 DEF vars, ghosts, serviceVars
<1>6. CASE ResetRetried
  <2>1. \A p \in Albums : p \notin caller["http"].albums => lineage'[p] = lineage[p]
    BY <1>6 DEF ResetRetried, Requeue
  <2>2. charged' = charged \ caller["http"].albums /\ UNCHANGED circuits
    BY <1>6 DEF ResetRetried
  <2>3. QED BY <1>1, <2>1, <2>2 DEF ChargedIsOpen, AiInv
<1>7. CASE CallerStep /\ ~ResetRetried
  BY <1>2, <1>3, <1>7
     DEF CallerStep, PollPending, Request, Insert, InsertTorn, StartBatch, StartUnrecorded,
         StartRefused, RetryFailed, ManualToken, ManualStart, ManualRefused, InsertPending, ghosts
<1>8. CASE Bind
  <2>1. \A p \in Albums : lineage[p] # NoRun => lineage'[p] = lineage[p]
    BY <1>3, <1>8 DEF Bind, BindRun
  <2>2. UNCHANGED <<charged, circuits>>
    BY <1>8 DEF Bind, ghosts
  <2>3. QED BY <1>1, <2>1, <2>2 DEF ChargedIsOpen, AiInv
<1>9. CASE RunStep /\ ~Bind
  BY <1>2, <1>3, <1>9
     DEF RunStep, LoopEnds, WindCancelled, StopPaths, CancelPaths, CancelFailed,
         Wind, Judge, Close, Record, Release, ghosts
<1>10. CASE AiRefused
  <2>1. UNCHANGED lineage /\ circuits \subseteq circuits'
    BY <1>3, <1>10 DEF AiRefused
  <2>2. charged' = charged \cup Charged(circuits')
    BY <1>10 DEF AiRefused
  <2>3. QED BY <1>4, <2>1, <2>2
<1>11. CASE Resolve
  <2>1. UNCHANGED lineage
    BY <1>3, <1>11 DEF Resolve, RecordFlag
  <2>2. circuits \subseteq circuits' /\ charged' = charged \cup Charged(circuits')
    BY <1>11 DEF Resolve
  <2>3. QED BY <1>4, <2>1, <2>2
<1>12. CASE AlbumStep /\ ~AiRefused /\ ~Resolve
  <2>1. UNCHANGED lineage
    BY <1>3, <1>12
       DEF AlbumStep, Claim, MarkRunning, ClaimFails, Origin, Lookup, Checkpoint, AiProposes,
           RecordFlag, AiWrites, Commit, Finish, FinishDeferred, CommitFails, CommitCancelled,
           ManualStops, ManualFails, StopPaths, CancelPaths, CancelFailed
  <2>2. UNCHANGED <<charged, circuits>>
    BY <1>12
       DEF AlbumStep, Claim, ClaimFails, Origin, Lookup, AiProposes, AiWrites, Commit,
           CommitFails, CommitCancelled, ManualStops, ManualFails, StopPaths, ghosts
  <2>3. QED BY <1>2, <2>1, <2>2
<1>13. CASE OutsideStep
  BY <1>2, <1>3, <1>13
     DEF OutsideStep, Cancel, Acknowledge, MarkReviewed, OtherStarts, OtherEnds, RetryDue,
         DeadlinePasses, Crash, Exit, Start, OpenServer, tables, ghosts, serviceVars
<1>14. QED
  BY <1>5, <1>6, <1>7, <1>8, <1>9, <1>10, <1>11, <1>12, <1>13, StepCases

LEMMA AsksKept == ASSUME ServiceInv, AiInv, [Next]_vars PROVE AskIsAllowed'
<1>1. job \in Jobs /\ ChargedIsOpen /\ AskIsAllowed
  BY DEF ServiceInv, ServiceTypeOK, OwnTypesOK, AiInv
<1>2. ASSUME UNCHANGED job, charged' \subseteq charged PROVE AskIsAllowed'
  BY <1>1, <1>2 DEF AskIsAllowed
<1>3. ASSUME job'.pc \notin {"lookup", "decide", "write"} PROVE AskIsAllowed'
  BY <1>3 DEF AskIsAllowed
<1>4. CASE UNCHANGED vars
  BY <1>2, <1>4 DEF vars, ghosts, serviceVars
<1>5. CASE CallerStep
  BY <1>2, <1>3, <1>5, ZenonT(30)
     DEF CallerStep, PollPending, Request, Insert, InsertTorn, StartBatch, StartUnrecorded,
         StartRefused, RetryFailed, ResetRetried, ManualToken, ManualStart, ManualRefused,
         NoJob, ghosts
<1>6. CASE RunStep
  <2>1. CASE Bind \/ LoopEnds \/ WindCancelled \/ Wind
    BY <1>1, <1>3, <2>1 DEF Bind, LoopEnds, WindCancelled, StopPaths, Wind, Jobs
  <2>2. CASE Judge \/ Close \/ Record
    BY <1>1, <1>3, <2>2 DEF Judge, Close, Record, Jobs
  <2>3. CASE Release
    BY <1>3, <2>3 DEF Release, NoJob
  <2>4. QED BY <1>6, <2>1, <2>2, <2>3 DEF RunStep
<1>7. CASE Claim
  <2>1. job.kind = "batch" => job'.pc = "origin"
    BY <1>1, <1>7 DEF Claim, Jobs
  <2>2. job'.kind = job.kind
    BY <1>7, JobHoldsOn DEF AlbumStep
  <2>3. QED BY <2>1, <2>2 DEF AskIsAllowed
<1>8. CASE Origin
  <2> DEFINE blocked == job.aiBlocked \/ OriginOf(job.cur, job.run) \in circuits
  <2>1. UNCHANGED charged
    BY <1>8 DEF Origin, ghosts
  <2>2. CASE job' = [job EXCEPT !.pc = "lookup", !.origin = OriginOf(job.cur, job.run),
                                !.aiBlocked = blocked]
    <3>1. job.cur \in charged => blocked
      <4>1. job.cur \in charged => lineage[job.cur] \in circuits
        BY <1>1 DEF ChargedIsOpen
      <4>2. lineage[job.cur] \in circuits => OriginOf(job.cur, job.run) = lineage[job.cur]
        BY StoreAssumption
           DEF StoreAssumption, OriginOf, ServiceInv, ServiceTypeOK, OwnTypesOK
      <4>3. QED BY <4>1, <4>2
    <3> HIDE DEF blocked
    <3>2. job'.pc = "lookup" /\ job'.cur = job.cur /\ job'.aiBlocked = blocked
      BY <1>1, <2>2 DEF Jobs
    <3>3. QED BY <2>1, <3>1, <3>2 DEF AskIsAllowed
  <2>3. CASE job' = [job EXCEPT !.pc = "wind", !.cur = NoAlbum, !.broken = TRUE]
    BY <1>1, <1>3, <2>3 DEF Jobs
  <2>4. QED BY <1>8, <2>2, <2>3 DEF Origin
<1>9. CASE Lookup \/ AiProposes
  BY <1>1, <1>9
     DEF AskIsAllowed, Lookup, AiProposes, Either, Jobs, ghosts
<1>10. CASE AiRefused
  BY <1>1, <1>10 DEF AskIsAllowed, AiRefused, Either, Jobs
<1>11. CASE AiWrites \/ Resolve
  <2>1. PICK result : job' = AfterResolver(result)
    BY <1>11 DEF AiWrites, Resolve
  <2>2. QED BY <1>1, <1>3, <2>1 DEF AfterResolver, Jobs
<1>12. CASE Commit \/ CommitFails \/ CommitCancelled
  <2>1. \/ \E failed, review : job' = Settled(failed, review)
        \/ job' = [job EXCEPT !.pc = "release", !.cur = NoAlbum]
        \/ job' = [job EXCEPT !.pc = "fail"]
    BY <1>12 DEF Commit, CommitFails, CommitCancelled
  <2>2. ASSUME NEW failed, NEW review, job' = Settled(failed, review) PROVE AskIsAllowed'
    BY <1>1, <1>3, <2>2 DEF Settled, Jobs
  <2>3. QED BY <1>1, <1>3, <2>1, <2>2 DEF Jobs
<1>13. CASE ClaimFails \/ ManualStops \/ ManualFails
  BY <1>1, <1>3, <1>13
     DEF ClaimFails, ManualStops, ManualFails, StopPaths, Either, Jobs
<1>14. CASE OutsideStep
  <2>1. CASE Crash
    BY <1>3, <2>1 DEF Crash, NoJob
  <2>2. CASE ~Crash
    <3>1. UNCHANGED job
      BY <1>14, <2>2
         DEF OutsideStep, Cancel, Acknowledge, OtherStarts, OtherEnds, RetryDue, Start, serviceVars
    <3>2. UNCHANGED charged
      BY <1>14, <2>2
         DEF OutsideStep, Cancel, Acknowledge, OtherStarts, OtherEnds, RetryDue, Start, ghosts
    <3>3. QED BY <1>2, <3>1, <3>2
  <2>3. QED BY <2>1, <2>2
<1>15. QED
  BY <1>4, <1>5, <1>6, <1>7, <1>8, <1>9, <1>10, <1>11, <1>12, <1>13, <1>14, StepCases
     DEF AlbumStep

\* After an HTTP 402 no batch asks the AI about an album of a charged lineage
\* again, across restarts, retries and resumed runs, until the operator
\* retries the album (worker_ai_circuits, worker_lineage, retry_origin).
THEOREM ChargedLineagesRest == Spec => []AiStaysBlocked
<1>1. Init => AiInv
  BY DEF Init, AiInv, ChargedIsOpen, AskIsAllowed, NoJob
<1>2. ServiceInv /\ AiInv /\ [Next]_vars => AiInv'
  BY ChargesKept, AsksKept DEF AiInv
<1>3. AiInv => AiStaysBlocked
  BY DEF AiInv, AskIsAllowed, AiStaysBlocked
<1>4. QED BY <1>1, <1>2, <1>3, ServiceIsSound, PTL DEF Spec

----------------------------------------------------------------------------
(* A running row has a worker.                                             *)

LEMMA FaultsStay == ASSUME ServiceInv, [Next]_vars, faulted PROVE faulted'
<1>1. Free \/ (\E kind \in EnvKinds : Spend(kind)) => faulted'
  BY DEF Free, Spend, envVars
<1>2. CASE CallerStep
  BY <1>1, <1>2, Kinds
     DEF CallerStep, PollPending, Request, Insert, InsertTorn, StartBatch, StartUnrecorded,
         StartRefused, RetryFailed, ResetRetried, ManualToken, ManualStart, ManualRefused
<1>3. CASE AlbumStep
  BY <1>1, <1>3, Kinds
     DEF AlbumStep, Claim, ClaimFails, Origin, Lookup, AiRefused, AiProposes, AiWrites,
         Resolve, Commit, CommitFails, CommitCancelled, ManualStops, ManualFails, StopPaths
<1>4. CASE RunStep
  BY <1>1, <1>4, Kinds
     DEF RunStep, Bind, LoopEnds, WindCancelled, StopPaths, Wind, Judge, Close, Record, Release
<1>5. CASE OutsideStep
  BY <1>1, <1>5, Kinds
     DEF OutsideStep, Cancel, Acknowledge, OtherStarts, OtherEnds, RetryDue, Crash, Start
<1>6. UNCHANGED vars => faulted'
  BY DEF vars, envVars
<1>7. QED BY <1>2, <1>3, <1>4, <1>5, <1>6, StepCases

LEMMA FaultsShow == Spend("fault") => faulted'
  BY DEF Spend

\* Only a claim makes a row running.
LEMMA RunningRows ==
    ASSUME ServiceInv, Next, NEW p \in Albums, items'[p].status = "running"
    PROVE  \/ items'[p] = items[p]
           \/ /\ Claim /\ job'.cur = p
              /\ items'[p] = [status |-> "running", run |-> job.run,
                              owner |-> [runtime |-> "server", pid |-> pid["server"]]]
<1>1. CASE Claim
  BY <1>1, ClaimedRow
<1>2. CASE Commit
  BY <1>2, CommitRow
<1>3. CASE ManualFails
  BY <1>3, FailRow
<1>4. CASE Acknowledge
  BY <1>4, AcknowledgedRow
<1>5. CASE Start
  BY <1>5, RecoveredRow
<1>6. CASE \A a \in Albums : items'[a] \in {items[a], PendingRow}
  BY <1>6 DEF PendingRow
<1>7. CASE CancelPaths(job.all)
  BY <1>7, WithdrawnRow
<1>8. QED BY <1>1, <1>2, <1>3, <1>4, <1>5, <1>6, <1>7, RowChanges

\* A running row names the process and the run that work on it; the desktop
\* shell is not part of the service.
OwnersKnown ==
    /\ pid["desktop"] = NoPid
    /\ \A p \in Albums : items[p].status = "running" =>
          items[p].owner \in Owners /\ items[p].run \in Runs

LEMMA OwnersKept == ASSUME ServiceInv, OwnersKnown, [Next]_vars PROVE OwnersKnown'
<1>1. pid \in [Runtimes -> Pids \cup {NoPid}] /\ "desktop" \in Runtimes /\ "server" \in Runtimes
  BY DEF ServiceInv, ServiceTypeOK, TypeOK, Runtimes
<1>2. CASE UNCHANGED vars
  BY <1>2 DEF vars, storeVars, OwnersKnown
<1>3. CASE Next
  <2>1. pid'["desktop"] = NoPid
    <3>1. CASE CallerStep
      BY <3>1
         DEF CallerStep, PollPending, Request, Insert, InsertTorn, StartBatch, StartUnrecorded,
             StartRefused, RetryFailed, ResetRetried, ManualToken, ManualStart, ManualRefused,
             InsertPending, Requeue, storeVars, OwnersKnown
    <3>2. CASE AlbumStep \/ (RunStep /\ ~Release)
      BY <3>2, JobHoldsOn DEF OwnersKnown
    <3>3. CASE Release
      BY <3>3 DEF Release, storeVars, OwnersKnown
    <3>4. CASE OutsideStep
      BY <1>1, <3>4
         DEF OutsideStep, Cancel, Acknowledge, MarkReviewed, OtherStarts, OtherEnds, RetryDue,
             DeadlinePasses, Crash, Exit, Start, OpenServer, storeVars, OwnersKnown
    <3>5. QED BY <1>3, <3>1, <3>2, <3>3, <3>4, StepCases
  <2>2. ASSUME NEW p \in Albums, items'[p].status = "running"
        PROVE  items'[p].owner \in Owners /\ items'[p].run \in Runs
    <3>1. CASE Claim
      <4>1. job.run \in Runs /\ pid["server"] \in Pids
        BY <1>1, <3>1 DEF Claim, Either, Up, ServiceInv, JobShape
      <4>2. QED
        BY <1>1, <1>3, <2>2, <4>1, RunningRows DEF Owners, OwnersKnown
    <3>2. CASE ~Claim
      BY <1>3, <2>2, <3>2, RunningRows DEF OwnersKnown
    <3>3. QED BY <3>1, <3>2
  <2>3. QED BY <2>1, <2>2 DEF OwnersKnown
<1>4. QED BY <1>2, <1>3

\* The worker of a running row: the job has it in hand, or its batch was
\* cancelled and is about to withdraw what it covered.
Attended(p) ==
    /\ items[p].run = job.run
    /\ \/ AtWork(p)
       \/ Cancelled /\ job.kind = "batch" /\ p \in job.all /\ job.pc \in {"claim", "wind"}

RunningIsAttended ==
    ~faulted /\ Up("server") =>
        \A p \in Albums : items[p].status = "running" => Attended(p)

WorkerInv == OwnersKnown /\ RunningIsAttended

\* A row nobody touched keeps its worker while the job and its task stand.
LEMMA WorkerStands ==
    ASSUME ServiceInv, NEW p \in Albums, Attended(p), items'[p] = items[p],
           job' = job, AtWork(p) \/ tasks'[job.run] = tasks[job.run]
    PROVE  Attended(p)'
  BY DEF Attended, AtWork, Cancelled

LEMMA CallersAttend ==
    ASSUME ServiceInv, WorkerInv, CallerStep, ~faulted, NEW p \in Albums,
           items[p].status = "running", items'[p] = items[p]
    PROVE  Attended(p)'
<1>1. Up("server")
  BY DEF CallerStep, PollPending, Request, Insert, InsertTorn, StartBatch, StartUnrecorded,
         StartRefused, RetryFailed, ResetRetried, ManualToken, ManualStart, ManualRefused,
         Idle, Serving
<1>2. Attended(p) /\ items[p].run \in Runs
  BY <1>1 DEF WorkerInv, RunningIsAttended, OwnersKnown
<1>3. job.pc # "none"
  BY <1>2, StoreAssumption DEF StoreAssumption, Attended, ServiceInv, JobShape, NoJob
<1>4. holder = "job" /\ caller["http"].pc # "manual" /\ job.run <= lastRun /\ job.run \in Runs
  BY <1>3 DEF ServiceInv, TokenHeld, JobShape
<1>5. UNCHANGED <<job, tasks>>
  BY <1>4
     DEF CallerStep, PollPending, Request, Insert, InsertTorn, StartBatch, StartUnrecorded,
         StartRefused, RetryFailed, ResetRetried, ManualToken, ManualStart, ManualRefused
<1>6. QED BY <1>2, <1>5, WorkerStands

LEMMA AlbumAttends ==
    ASSUME ServiceInv, WorkerInv, AlbumStep, ~faulted, ~faulted', NEW p \in Albums,
           items[p].status = "running", items'[p] = items[p]
    PROVE  Attended(p)'
<1> USE DEF Either, Batch, Manual
<1>1. Up("server") /\ job.run \in Runs
  BY DEF AlbumStep, Claim, ClaimFails, Origin, Lookup, AiRefused, AiProposes, AiWrites, Resolve,
         Commit, CommitFails, CommitCancelled, ManualStops, ManualFails, ServiceInv, JobShape
<1>2. Attended(p) /\ job \in Jobs /\ job.kind \in {"batch", "manual"}
  BY <1>1 DEF WorkerInv, RunningIsAttended, ServiceInv, ServiceTypeOK, OwnTypesOK, Jobs
<1>3. job'.run = job.run /\ job'.all = job.all /\ job'.kind = job.kind
  BY JobHoldsOn
<1>4. AtWork(p) => p \in job.all
  BY ServiceAssumption DEF ServiceAssumption, AtWork, ServiceInv, JobShape
<1>5. CASE Claim
  <2>1. job.cur = NoAlbum /\ ~AtWork(p) /\ (job.kind = "batch" => ~Cancelled)
    BY <1>5, ServiceAssumption
       DEF ServiceAssumption, Claim, ServiceInv, JobShape, AtAlbum, AtWork
  <2>2. QED BY <1>2, <2>1 DEF Attended
<1>6. CASE ClaimFails
  <2>1. ~AtWork(p)
    BY <1>6, ServiceAssumption
       DEF ServiceAssumption, ClaimFails, ServiceInv, JobShape, AtAlbum, AtWork
  <2>2. job.kind = "batch" /\ Cancelled
    BY <1>2, <2>1 DEF Attended
  <2>3. QED BY <1>6, <2>2 DEF ClaimFails
<1>7. CASE Origin \/ Lookup \/ AiRefused \/ AiProposes
  <2>1. AtWork(p)
    BY <1>2, <1>7 DEF Origin, Lookup, AiRefused, AiProposes, Attended
  <2>2. job'.cur = job.cur
    BY <1>2, <1>7, FaultsShow DEF Origin, Lookup, AiRefused, AiProposes, Jobs
  <2>3. QED BY <1>2, <1>3, <2>1, <2>2 DEF Attended, AtWork
<1>8. CASE AiWrites \/ Resolve
  <2>1. AtWork(p)
    BY <1>2, <1>8 DEF AiWrites, Resolve, Attended
  <2>2. PICK result : job' = AfterResolver(result)
    BY <1>8 DEF AiWrites, Resolve
  <2>3. job'.cur = job.cur
    BY <1>2, <2>2 DEF AfterResolver, Jobs
  <2>4. QED BY <1>2, <1>3, <2>1, <2>3 DEF Attended, AtWork
<1>9. CASE Commit
  BY <1>2, <1>9, CommitRow DEF Commit, Attended, AtWork
<1>10. CASE CommitFails
  <2>1. AtWork(p) /\ items[p].run = job.run
    BY <1>2, <1>10 DEF CommitFails, Attended
  <2>2. \A strict : MayFinish(job.cur, job.run, strict)
    BY <2>1 DEF MayFinish, AtWork
  <2>3. QED BY <1>10, <2>2, FaultsShow DEF CommitFails
<1>11. CASE CommitCancelled
  <2>1. AtWork(p) /\ UNCHANGED tasks /\ Cancelled
    BY <1>2, <1>11 DEF CommitCancelled, Attended
  <2>2. CASE job.kind = "batch"
    <3>1. job'.pc = "claim"
      BY <1>2, <1>11, <2>2 DEF CommitCancelled, Settled, Jobs
    <3>2. QED BY <1>2, <1>3, <1>4, <2>1, <2>2, <3>1 DEF Attended, Cancelled
  <2>3. CASE job.kind = "manual"
    <3>1. job'.cur = job.cur
      BY <1>2, <1>11, <2>3 DEF CommitCancelled, Settled, Jobs
    <3>2. QED BY <1>2, <1>3, <2>1, <3>1 DEF Attended, AtWork
  <2>4. QED BY <1>2, <2>2, <2>3
<1>12. CASE ManualStops
  <2>1. AtWork(p) /\ p \in job.all
    BY <1>2, <1>4, <1>12 DEF ManualStops, Attended
  <2>2. CancelPaths(job.all)
    BY <1>12, FaultsShow DEF ManualStops, StopPaths
  <2>3. items'[p].status = "cancelled"
    BY <2>1, <2>2, WithdrawnRow DEF Active, ActiveStatuses
  <2>4. QED BY <2>3
<1>13. CASE ManualFails
  <2>1. AtWork(p)
    BY <1>2, <1>13 DEF ManualFails, Attended
  <2>2. QED BY <1>13, <2>1, FailRow DEF AtWork
<1>14. QED
  BY <1>5, <1>6, <1>7, <1>8, <1>9, <1>10, <1>11, <1>12, <1>13 DEF AlbumStep

LEMMA RunAttends ==
    ASSUME ServiceInv, WorkerInv, RunStep, ~faulted, ~faulted', NEW p \in Albums,
           items[p].status = "running", items'[p] = items[p]
    PROVE  Attended(p)'
<1> USE DEF Either, Batch
<1>1. Up("server") /\ job.pc \in {"bind", "claim", "wind", "judge", "close", "record", "release"}
  BY DEF RunStep, Bind, LoopEnds, WindCancelled, Wind, Judge, Close, Record, Release
<1>2. Attended(p) /\ job \in Jobs /\ ~AtWork(p)
  BY <1>1, ServiceAssumption
     DEF ServiceAssumption, WorkerInv, RunningIsAttended, ServiceInv, ServiceTypeOK, OwnTypesOK,
         JobShape, AtAlbum, AtWork
<1>3. Cancelled /\ job.kind = "batch" /\ p \in job.all /\ job.pc \in {"claim", "wind"}
  BY <1>2 DEF Attended
<1>4. CASE LoopEnds
  BY <1>2, <1>3, <1>4 DEF LoopEnds, Attended, Cancelled, Jobs
<1>5. CASE WindCancelled
  <2>1. CancelPaths(job.all)
    BY <1>5, FaultsShow DEF WindCancelled, StopPaths
  <2>2. items'[p].status = "cancelled"
    BY <1>3, <2>1, WithdrawnRow DEF Active, ActiveStatuses
  <2>3. QED BY <2>2
<1>6. QED
  BY <1>3, <1>4, <1>5 DEF RunStep, Bind, Wind, Judge, Close, Record, Release

LEMMA OthersAttend ==
    ASSUME ServiceInv, WorkerInv, OutsideStep, ~PidsReused, ~faulted, ~faulted', Up("server")',
           NEW p \in Albums, items[p].status = "running", items'[p] = items[p]
    PROVE  Attended(p)'
<1>1. pid \in [Runtimes -> Pids \cup {NoPid}] /\ Runtimes = {"server", "desktop"}
      /\ tasks \in [Runs -> TaskStates]
  BY DEF ServiceInv, ServiceTypeOK, TypeOK, OwnTypesOK, Runtimes
<1>2. CASE Crash
  BY <1>1, <1>2 DEF Crash, Exit, Up
<1>3. CASE Start
  <2>1. PICK q \in Pids :
            ~DeadOwner(q) /\ items' = [a \in Albums |-> Recovered(a, Alive(q))]
    BY <1>3, FaultsShow DEF Start, OpenServer
  <2>2. items[p].owner \in Owners /\ items[p].owner # NoOwner
        /\ items[p].owner.pid \in Pids /\ items[p].owner.pid # NoPid
    BY StoreAssumption DEF StoreAssumption, WorkerInv, OwnersKnown, Owners
  <2>3. items[p].owner.pid # q
    BY <2>1, <2>2 DEF DeadOwner
  <2>4. items[p].owner.pid \notin Alive(q)
    BY <1>1, <2>2, <2>3 DEF Alive, WorkerInv, OwnersKnown
  <2>5. items'[p] = Recovered(p, Alive(q)) /\ items[p] \in Row
    BY <2>1 DEF ServiceInv, ServiceTypeOK, TypeOK
  <2>6. items'[p].status # "running"
    BY <2>2, <2>4, <2>5 DEF Recovered, Withdrawn, Row
  <2>7. QED BY <2>6
<1>4. CASE Cancel \/ Acknowledge \/ OtherStarts \/ OtherEnds \/ RetryDue
  <2>1. UNCHANGED job /\ UNCHANGED pid
    BY <1>4
       DEF Cancel, Acknowledge, MarkReviewed, OtherStarts, OtherEnds, RetryDue, DeadlinePasses,
           storeVars, serviceVars
  <2>2. Attended(p) /\ items[p].run \in Runs
    BY <2>1 DEF WorkerInv, RunningIsAttended, OwnersKnown, Up
  <2>3. Cancelled => Cancelled'
    BY <1>1, <1>4, <2>1, <2>2
       DEF Cancelled, Attended, Cancel, Acknowledge, OtherStarts, OtherEnds, RetryDue, serviceVars
  <2>4. QED BY <2>1, <2>2, <2>3 DEF Attended, AtWork
<1>5. QED BY <1>2, <1>3, <1>4 DEF OutsideStep

LEMMA WorkersKept ==
    ASSUME ~PidsReused, ServiceInv, WorkerInv, [Next]_vars PROVE WorkerInv'
<1>1. CASE UNCHANGED vars
  BY <1>1, OwnersKept
     DEF vars, storeVars, serviceVars, envVars, WorkerInv, RunningIsAttended, Attended, AtWork,
         Cancelled, Up
<1>2. CASE Next
  <2>1. ASSUME ~faulted', Up("server")', NEW p \in Albums, items'[p].status = "running"
        PROVE  Attended(p)'
    <3>1. ~faulted
      BY <2>1, FaultsStay
    <3>2. CASE items'[p] = items[p]
      BY <1>2, <2>1, <3>1, <3>2, StepCases, CallersAttend, AlbumAttends, RunAttends, OthersAttend
    <3>3. CASE Claim /\ job'.cur = p /\ items'[p].run = job.run
      <4>1. job'.run = job.run
        BY <3>3, JobHoldsOn DEF AlbumStep
      <4>2. QED BY <3>3, <4>1 DEF Attended, AtWork
    <3>4. QED BY <1>2, <2>1, <3>2, <3>3, RunningRows
  <2>2. QED BY <2>1, OwnersKept DEF WorkerInv, RunningIsAttended
<1>3. QED BY <1>1, <1>2

LEMMA WorkerInvInit == Init => WorkerInv
  BY DEF Init, StoreInit, WorkerInv, OwnersKnown, RunningIsAttended, NoItem, Runtimes

\* While the server is up and no call of the database has failed, a running
\* row has a worker, or a cancelled batch about to withdraw it: neither a
\* failed nor a cancelled batch, nor a restart, loses an album in "running"
\* (provided no restarted server gets the process id of a dead owner).
THEOREM RunningRowsHaveWorkers ==
    ASSUME ~PidsReused
    PROVE  Spec => []RunningHasWorker
<1>1. ServiceInv /\ WorkerInv /\ [Next]_vars => WorkerInv'
  BY WorkersKept
<1>2. WorkerInv => RunningHasWorker
  BY DEF WorkerInv, RunningIsAttended, RunningHasWorker, Attended
<1>3. QED BY <1>1, <1>2, WorkerInvInit, ServiceIsSound, PTL DEF Spec

----------------------------------------------------------------------------
(* The run history tells the truth about the rows.                         *)

\* Run ids are handed out in order; a queued row belongs to no run.
RunsKnown ==
    /\ \A p \in Albums : items[p].run \in Runs => items[p].run <= lastRun
    /\ \A p \in Albums : items[p].status = "pending" => items[p].run = NoRun
    /\ \A r \in Runs : r > lastRun => history[r].status = "none"

\* A batch has an open record until it writes its verdict; a manual run none.
JobRecord ==
    /\ job.kind = "batch" /\ job.pc \notin {"none", "release"} =>
          history[job.run].status = "running"
    /\ job.kind = "manual" => history[job.run].status = "none"

\* What a batch left over is on its list.
JobLedger ==
    job.kind = "batch" /\ job.pc # "none" =>
        \A p \in Albums :
            items[p].run = job.run /\ items[p].status \in {"failed", "deferred"} =>
                p \in job.failed \cup job.review

RunningUnrecorded ==
    ~faulted => \A p \in Albums :
        items[p].status = "running" =>
            history[items[p].run].status \notin {"completed", "cancelled"}

LeftoversListed ==
    \A r \in Runs, p \in Albums :
        /\ history[r].status = "completed"
        /\ items[p].run = r /\ items[p].status \in {"failed", "deferred"}
        => p \in history[r].ledger

RecordInv == RunsKnown /\ JobRecord /\ JobLedger /\ RunningUnrecorded /\ LeftoversListed

\* A batch or a manual run starts with the next id, where nothing was recorded.
LEMMA RunStarts ==
    ASSUME ServiceInv, (\E c \in Callers : StartBatch(c)) \/ ManualStart
    PROVE  /\ NextRun \in Runs /\ NextRun \in Nat /\ NextRun > lastRun /\ NextRun # NoRun
           /\ job.pc = "none" /\ job'.run = NextRun /\ lastRun' = NextRun
<1>1. holder # "job" /\ "http" \in Callers
  BY DEF StartBatch, ManualStart, ServiceInv, TokenHeld, Callers
<1>2. job.pc = "none"
  BY <1>1 DEF ServiceInv, TokenHeld
<1>3. lastRun < MaxRuns
  BY <1>1 DEF StartBatch, ManualStart, ServiceInv, CallersKnow
<1>4. job'.run = NextRun /\ lastRun' = NextRun
  BY ZenonT(30) DEF StartBatch, ManualStart, NoJob
<1>5. QED BY <1>2, <1>3, <1>4, NextRunType DEF ServiceInv, ServiceTypeOK

LEMMA HistoryChanges ==
    ASSUME ServiceInv, [Next]_vars
    PROVE  (\E c \in Callers : StartBatch(c)) \/ Record \/ Start \/ UNCHANGED history
<1>1. CASE CallerStep
  BY <1>1
     DEF CallerStep, PollPending, Request, Insert, InsertTorn, StartUnrecorded,
         StartRefused, RetryFailed, ResetRetried, ManualToken, ManualStart, ManualRefused
<1>2. CASE AlbumStep
  BY <1>2
     DEF AlbumStep, Claim, ClaimFails, Origin, Lookup, AiRefused, AiProposes, AiWrites,
         Resolve, Commit, CommitFails, CommitCancelled, ManualStops, ManualFails, StopPaths
<1>3. CASE RunStep
  BY <1>3
     DEF RunStep, Bind, LoopEnds, WindCancelled, StopPaths, Wind, Judge, Close, Release
<1>4. CASE OutsideStep
  BY <1>4
     DEF OutsideStep, Cancel, Acknowledge, OtherStarts, OtherEnds, RetryDue, Crash, serviceVars
<1>5. UNCHANGED vars => UNCHANGED history
  BY DEF vars, serviceVars
<1>6. QED BY <1>1, <1>2, <1>3, <1>4, <1>5, StepCases

LEMMA RunsGrow == ASSUME ServiceInv, [Next]_vars PROVE lastRun' \in Nat /\ lastRun' >= lastRun
<1>1. lastRun \in Nat
  BY DEF ServiceInv, ServiceTypeOK, OwnTypesOK
<1>2. lastRun' = lastRun \/ lastRun' = lastRun + 1
  <2>1. CASE CallerStep
    BY <2>1
       DEF CallerStep, PollPending, Request, Insert, InsertTorn, StartBatch, StartUnrecorded,
           StartRefused, RetryFailed, ResetRetried, ManualToken, ManualStart, ManualRefused, NextRun
  <2>2. CASE AlbumStep \/ (RunStep /\ ~Release)
    BY <2>2, JobHoldsOn
  <2>3. CASE Release
    BY <2>3 DEF Release
  <2>4. CASE OutsideStep
    BY <2>4
       DEF OutsideStep, Cancel, Acknowledge, OtherStarts, OtherEnds, RetryDue, Crash, Start,
           serviceVars
  <2>5. UNCHANGED vars => UNCHANGED lastRun
    BY DEF vars, serviceVars
  <2>6. QED BY <2>1, <2>2, <2>3, <2>4, <2>5, StepCases
<1>3. QED BY <1>1, <1>2

\* The run a row names after a step.
LEMMA RunOfRow ==
    ASSUME ServiceInv, [Next]_vars, NEW p \in Albums
    PROVE  \/ items'[p] = items[p]
           \/ items'[p].run = NoRun
           \/ Acknowledge /\ items'[p].run = items[p].run /\ items'[p].status = "completed"
           \/ items'[p].run = job.run /\ job.pc # "none" /\ items'[p].status # "pending"
              /\ (Claim \/ Commit \/ ManualFails)
<1> USE DEF Either, Manual
<1>1. CASE Claim
  <2>1. PICK a \in job.todo :
            /\ items'[a] = [status |-> "running", run |-> job.run,
                            owner |-> [runtime |-> "server", pid |-> pid["server"]]]
            /\ \A q \in Albums : q # a => items'[q] = items[q]
    BY <1>1, ClaimedRow
  <2>2. job.pc # "none"
    BY <1>1 DEF Claim
  <2>3. QED BY <1>1, <2>1, <2>2
<1>2. CASE Commit
  BY <1>2, CommitRow DEF Commit
<1>3. CASE ManualFails
  BY <1>3, FailRow DEF ManualFails
<1>4. CASE Acknowledge
  BY <1>4, AcknowledgedRow
<1>5. CASE Start
  BY <1>5, RecoveredRow
<1>6. CASE \A a \in Albums : items'[a] \in {items[a], PendingRow}
  BY <1>6 DEF PendingRow
<1>7. CASE CancelPaths(job.all)
  BY <1>7, WithdrawnRow
<1>8. CASE UNCHANGED vars
  BY <1>8 DEF vars, storeVars
<1>9. QED BY <1>1, <1>2, <1>3, <1>4, <1>5, <1>6, <1>7, <1>8, RowChanges

LEMMA RunsKnownKept == ASSUME ServiceInv, RunsKnown, [Next]_vars PROVE RunsKnown'
<1>1. lastRun \in Nat /\ lastRun' \in Nat /\ lastRun' >= lastRun
      /\ NoRun \notin Runs /\ (\A r \in Runs : r \in Nat)
  BY RunsGrow, ServiceAssumption, StoreAssumption
     DEF ServiceAssumption, StoreAssumption, ServiceInv, ServiceTypeOK, OwnTypesOK
<1>2. job.pc # "none" => job.run \in Runs /\ job.run <= lastRun
  BY DEF ServiceInv, JobShape
<1>3. ASSUME NEW p \in Albums, items'[p].run \in Runs PROVE items'[p].run <= lastRun'
  <2>1. items'[p].run = items[p].run \/ (items'[p].run = job.run /\ job.pc # "none")
    BY <1>1, <1>3, RunOfRow
  <2>2. items'[p].run <= lastRun
    BY <1>2, <1>3, <2>1 DEF RunsKnown
  <2>3. QED BY <1>1, <1>3, <2>2
<1>4. ASSUME NEW p \in Albums, items'[p].status = "pending" PROVE items'[p].run = NoRun
  BY <1>4, RunOfRow DEF RunsKnown
<1>5. ASSUME NEW r \in Runs, r > lastRun' PROVE history'[r].status = "none"
  <2>1. r > lastRun /\ r # lastRun'
    BY <1>1, <1>5
  <2>2. history \in [Runs -> [status : HistoryStates, ledger : SUBSET Albums]]
    BY DEF ServiceInv, ServiceTypeOK, OwnTypesOK
  <2>3. CASE \E c \in Callers : StartBatch(c)
    <3>1. lastRun' = NextRun
      BY <2>3, RunStarts
    <3>2. history'[r] = history[r]
      BY <2>1, <2>2, <2>3, <3>1 DEF StartBatch
    <3>3. QED BY <2>1, <3>2 DEF RunsKnown
  <2>4. CASE Record
    <3>1. r # job.run
      BY <1>1, <1>2, <2>1, <2>4 DEF Record, Batch
    <3>2. QED BY <2>1, <2>2, <2>4, <3>1 DEF Record, RunsKnown
  <2>5. CASE Start
    BY <2>1, <2>2, <2>5 DEF Start, RunsKnown
  <2>6. CASE UNCHANGED history
    BY <2>1, <2>6 DEF RunsKnown
  <2>7. QED BY <2>3, <2>4, <2>5, <2>6, HistoryChanges
<1>6. QED BY <1>3, <1>4, <1>5 DEF RunsKnown

LEMMA JobRecordKept == ASSUME ServiceInv, RunsKnown, JobRecord, [Next]_vars PROVE JobRecord'
<1>1. history \in [Runs -> [status : HistoryStates, ledger : SUBSET Albums]] /\ job \in Jobs
  BY DEF ServiceInv, ServiceTypeOK, OwnTypesOK
<1>2. ASSUME job' = NoJob PROVE JobRecord'
  BY <1>2 DEF JobRecord, NoJob
<1>3. CASE \E c \in Callers : StartBatch(c)
  <2>1. NextRun \in Runs /\ job'.run = NextRun /\ job'.kind = "batch"
    BY <1>3, RunStarts DEF StartBatch, NoJob
  <2>2. history'[NextRun].status = "running"
    BY <1>1, <1>3, <2>1 DEF StartBatch
  <2>3. QED BY <2>1, <2>2 DEF JobRecord
<1>4. CASE ManualStart
  <2>1. NextRun \in Runs /\ NextRun > lastRun /\ job'.run = NextRun
    BY <1>4, RunStarts
  <2>2. history'[NextRun].status = "none" /\ job'.kind = "manual"
    BY <1>4, <2>1 DEF ManualStart, RunsKnown, NoJob
  <2>3. QED BY <2>1, <2>2 DEF JobRecord
<1>5. CASE Record
  BY <1>1, <1>5 DEF Record, Batch, JobRecord, Jobs
<1>6. CASE Release \/ Crash
  BY <1>2, <1>6 DEF Release, Crash
<1>7. CASE Start
  <2>1. job' = NoJob
    BY <1>7 DEF Start, OpenServer, ServiceInv, JobShape
  <2>2. QED BY <1>2, <2>1
<1>8. CASE AlbumStep \/ (RunStep /\ ~Release /\ ~Record)
  <2>1. job'.run = job.run /\ job'.kind = job.kind /\ job.pc # "none"
    BY <1>8, JobHoldsOn
  <2>2. UNCHANGED history
    <3>1. CASE AlbumStep
      BY <3>1
         DEF AlbumStep, Claim, ClaimFails, Origin, Lookup, AiRefused, AiProposes, AiWrites,
             Resolve, Commit, CommitFails, CommitCancelled, ManualStops, ManualFails, StopPaths
    <3>2. CASE RunStep /\ ~Release /\ ~Record
      BY <3>2
         DEF RunStep, Bind, LoopEnds, WindCancelled, StopPaths, Wind, Judge, Close
    <3>3. QED BY <1>8, <3>1, <3>2
  <2>3. job.kind = "batch" => job.pc # "release"
    BY <1>8
       DEF AlbumStep, Claim, ClaimFails, Origin, Lookup, AiRefused, AiProposes, AiWrites,
           Resolve, Commit, CommitFails, CommitCancelled, ManualStops, ManualFails,
           RunStep, Bind, LoopEnds, WindCancelled, Wind, Judge, Close, Either, Batch, Manual
  <2>4. QED BY <2>1, <2>2, <2>3 DEF JobRecord
<1>9. CASE UNCHANGED <<job, history>>
  BY <1>9 DEF JobRecord
<1>10. CASE CallerStep
  BY <1>3, <1>4, <1>9, <1>10
     DEF CallerStep, PollPending, Request, Insert, InsertTorn, StartUnrecorded,
         StartRefused, RetryFailed, ResetRetried, ManualToken, ManualRefused
<1>11. CASE OutsideStep
  BY <1>6, <1>7, <1>9, <1>11
     DEF OutsideStep, Cancel, Acknowledge, OtherStarts, OtherEnds, RetryDue, serviceVars
<1>12. CASE UNCHANGED vars
  BY <1>9, <1>12 DEF vars, serviceVars
<1>13. QED BY <1>5, <1>6, <1>8, <1>10, <1>11, <1>12, StepCases

\* What a batch noted of an album it left over stays noted.
LEMMA NotesKept ==
    ASSUME ServiceInv, job.kind = "batch", AlbumStep \/ (RunStep /\ ~Release)
    PROVE  job.failed \cup job.review \subseteq job'.failed \cup job'.review
<1> USE DEF Either, Batch, Manual
<1>1. job \in Jobs
  BY DEF ServiceInv, ServiceTypeOK, OwnTypesOK
<1>2. CASE Claim \/ ClaimFails
  <2>1. CASE Claim
    BY <1>1, <2>1 DEF Claim, Jobs
  <2>2. CASE ClaimFails
    <3>1. PICK p \in job.todo :
              job' = [job EXCEPT !.todo = @ \ {p}, !.failed = @ \cup {p}]
      BY <2>2 DEF ClaimFails
    <3>2. job'.failed = job.failed \cup {p} /\ job'.review = job.review
      BY <1>1, <3>1 DEF Jobs
    <3>3. QED BY <3>2
  <2>3. QED BY <1>2, <2>1, <2>2
<1>3. CASE Origin \/ Lookup \/ AiRefused \/ AiProposes
  <2>1. CASE Origin \/ Lookup
    <3>1. CASE Origin
      BY <1>1, <3>1 DEF Origin, Jobs
    <3>2. CASE Lookup
      BY <1>1, <3>2 DEF Lookup, Jobs
    <3>3. QED BY <2>1, <3>1, <3>2
  <2>2. CASE AiRefused
    BY <1>1, <2>2 DEF AiRefused, Jobs
  <2>3. CASE AiProposes
    BY <1>1, <2>3 DEF AiProposes, Jobs
  <2>4. QED BY <1>3, <2>1, <2>2, <2>3
<1>4. CASE AiWrites \/ Resolve
  <2>1. PICK result : job' = AfterResolver(result)
    BY <1>4 DEF AiWrites, Resolve
  <2>2. QED BY <1>1, <2>1 DEF AfterResolver, Jobs
<1>5. CASE Commit \/ CommitFails \/ CommitCancelled
  <2>1. PICK failed, review : job' = Settled(failed, review)
    BY <1>5 DEF Commit, CommitFails, CommitCancelled
  <2>2. QED BY <1>1, <2>1 DEF Settled, Jobs
<1>6. CASE Bind \/ LoopEnds \/ WindCancelled \/ Wind
  <2>1. \/ \E pc : job' = [job EXCEPT !.pc = pc]
        \/ \E verdict : job' = [job EXCEPT !.pc = "close", !.verdict = verdict]
    BY <1>6 DEF Bind, LoopEnds, WindCancelled, StopPaths, Wind
  <2>2. QED BY <1>1, <2>1 DEF Jobs
<1>7. CASE Judge \/ Close \/ Record
  BY <1>1, <1>7 DEF Judge, Close, Record, Jobs
<1>8. QED
  BY <1>2, <1>3, <1>4, <1>5, <1>6, <1>7 DEF AlbumStep, RunStep, ManualStops, ManualFails

\* Where a failed or deferred row comes from.
LEMMA LeftoverRows ==
    ASSUME ServiceInv, [Next]_vars, NEW p \in Albums, items'[p].status \in {"failed", "deferred"}
    PROVE  items'[p] = items[p] \/ (Commit /\ p = job.cur) \/ (ManualFails /\ p = job.cur)
<1>1. CASE Claim
  BY <1>1, ClaimedRow
<1>2. CASE Commit
  BY <1>2, CommitRow
<1>3. CASE ManualFails
  BY <1>3, FailRow
<1>4. CASE Acknowledge
  BY <1>4, AcknowledgedRow
<1>5. CASE Start
  BY <1>5, RecoveredRow
<1>6. CASE \A a \in Albums : items'[a] \in {items[a], PendingRow}
  BY <1>6 DEF PendingRow
<1>7. CASE CancelPaths(job.all)
  BY <1>7, WithdrawnRow
<1>8. CASE UNCHANGED vars
  BY <1>8 DEF vars, storeVars
<1>9. QED BY <1>1, <1>2, <1>3, <1>4, <1>5, <1>6, <1>7, <1>8, RowChanges

LEMMA JobLedgerKept == ASSUME ServiceInv, RunsKnown, JobLedger, [Next]_vars PROVE JobLedger'
<1> SUFFICES ASSUME job'.kind = "batch", job'.pc # "none", NEW p \in Albums,
                    items'[p].run = job'.run, items'[p].status \in {"failed", "deferred"}
             PROVE  p \in job'.failed \cup job'.review
  BY DEF JobLedger
<1>1. job \in Jobs /\ job' # NoJob
  BY DEF ServiceInv, ServiceTypeOK, OwnTypesOK, NoJob
<1>2. ASSUME UNCHANGED job, items'[p] = items[p] PROVE p \in job'.failed \cup job'.review
  BY <1>2 DEF JobLedger
<1>3. ASSUME UNCHANGED job PROVE p \in job'.failed \cup job'.review
  <2>1. CASE Commit \/ ManualFails
    <3>1. job'.pc # job.pc
      <4>1. CASE Commit
        <5>1. \/ \E failed, review : job' = Settled(failed, review)
              \/ job' = [job EXCEPT !.pc = "release", !.cur = NoAlbum]
          BY <4>1 DEF Commit
        <5>2. job.pc = "settle"
          BY <4>1 DEF Commit, Either
        <5>3. ASSUME NEW failed, NEW review, job' = Settled(failed, review)
              PROVE  job'.pc # job.pc
          BY <1>1, <5>2, <5>3 DEF Settled, Jobs
        <5>4. CASE job' = [job EXCEPT !.pc = "release", !.cur = NoAlbum]
          BY <1>1, <5>2, <5>4 DEF Jobs
        <5>5. QED BY <5>1, <5>3, <5>4
      <4>2. CASE ManualFails
        BY <1>1, <4>2 DEF ManualFails, Manual, Jobs
      <4>3. QED BY <2>1, <4>1, <4>2
    <3>2. QED BY <1>3, <3>1
  <2>2. QED BY <1>2, <1>3, <2>1, LeftoverRows
<1>4. CASE \E c \in Callers : StartBatch(c)
  <2>1. PICK c \in Callers : StartBatch(c)
    BY <1>4
  <2>2. NextRun \in Runs /\ NextRun > lastRun /\ job'.run = NextRun /\ lastRun \in Nat
    BY <1>4, RunStarts DEF ServiceInv, ServiceTypeOK, OwnTypesOK
  <2>3. UNCHANGED items
    BY <2>1 DEF StartBatch, storeVars
  <2>4. QED BY <2>2, <2>3 DEF RunsKnown, NextRun
<1>5. CASE ManualStart
  BY <1>5 DEF ManualStart, NoJob
<1>6. CASE CallerStep
  BY <1>3, <1>4, <1>5, <1>6
     DEF CallerStep, PollPending, Request, Insert, InsertTorn, StartUnrecorded,
         StartRefused, RetryFailed, ResetRetried, ManualToken, ManualRefused
<1>7. CASE Release \/ Crash
  BY <1>1, <1>7 DEF Release, Crash
<1>8. CASE AlbumStep \/ (RunStep /\ ~Release)
  <2>1. job'.run = job.run /\ job.kind = "batch" /\ job.pc # "none"
    BY <1>8, JobHoldsOn
  <2>2. job.failed \cup job.review \subseteq job'.failed \cup job'.review
    BY <1>8, <2>1, NotesKept
  <2>3. CASE items'[p] = items[p]
    BY <2>1, <2>2, <2>3 DEF JobLedger
  <2>4. CASE Commit /\ p = job.cur
    <3>1. job' = Settled(StatusOf(job.result) = "failed", StatusOf(job.result) = "needs_review")
      BY <2>1, <2>4 DEF Commit
    <3>2. StatusOf(job.result) = "failed" \/ StatusOf(job.result) = "needs_review"
      BY <2>4, CommitRow
    <3>3. QED BY <1>1, <2>4, <3>1, <3>2 DEF Settled, Jobs
  <2>5. QED BY <2>1, <2>3, <2>4, LeftoverRows DEF ManualFails, Manual
<1>9. CASE OutsideStep
  BY <1>3, <1>7, <1>9
     DEF OutsideStep, Cancel, Acknowledge, OtherStarts, OtherEnds, RetryDue, Start, serviceVars
<1>10. CASE UNCHANGED vars
  BY <1>3, <1>10 DEF vars, serviceVars
<1>11. QED BY <1>6, <1>7, <1>8, <1>9, <1>10, StepCases

LEMMA RunningUnrecordedKept ==
    ASSUME ServiceInv, WorkerInv, RunsKnown, JobRecord, RunningUnrecorded, [Next]_vars
    PROVE  RunningUnrecorded'
<1> SUFFICES ASSUME ~faulted', NEW p \in Albums, items'[p].status = "running"
             PROVE  history'[items'[p].run].status \notin {"completed", "cancelled"}
  BY DEF RunningUnrecorded
<1>1. ~faulted
  BY FaultsStay
<1>2. history \in [Runs -> [status : HistoryStates, ledger : SUBSET Albums]]
  BY DEF ServiceInv, ServiceTypeOK, OwnTypesOK
<1>3. CASE Claim
  <2>1. job.run \in Runs /\ UNCHANGED history
        /\ (job.kind = "batch" \/ job.kind = "manual") /\ job.pc = "claim"
    BY <1>3 DEF Claim, Either, ServiceInv, ServiceTypeOK, OwnTypesOK, Jobs, JobShape
  <2>2. history'[job.run].status \in {"running", "none"}
    BY <2>1 DEF JobRecord
  <2>3. items'[p] = items[p] \/ items'[p].run = job.run
    BY <1>3, ClaimedRow
  <2>4. QED BY <1>1, <2>1, <2>2, <2>3 DEF RunningUnrecorded
<1>4. CASE ~Claim
  <2>1. items'[p] = items[p]
    BY <1>4, RunningRows DEF vars, storeVars
  <2>2. items[p].run \in Runs /\ history[items[p].run].status \notin {"completed", "cancelled"}
    BY <1>1, <2>1 DEF RunningUnrecorded, WorkerInv, OwnersKnown
  <2>3. CASE \E c \in Callers : StartBatch(c)
    BY <1>2, <2>1, <2>2, <2>3 DEF StartBatch
  <2>4. CASE Record
    <3>1. Attended(p) /\ job.pc = "record" /\ job.cur = NoAlbum
      BY <1>1, <2>1, <2>4
         DEF Record, Batch, WorkerInv, RunningIsAttended, ServiceInv, JobShape, AtAlbum
    <3>2. ~Attended(p)
      BY <3>1, ServiceAssumption DEF ServiceAssumption, Attended, AtWork
    <3>3. QED BY <3>1, <3>2
  <2>5. CASE Start
    BY <1>2, <2>1, <2>2, <2>5 DEF Start
  <2>6. CASE UNCHANGED history
    BY <2>1, <2>2, <2>6
  <2>7. QED BY <2>3, <2>4, <2>5, <2>6, HistoryChanges
<1>5. QED BY <1>3, <1>4

LEMMA LeftoversKept ==
    ASSUME ServiceInv, JobRecord, JobLedger, LeftoversListed, [Next]_vars
    PROVE  LeftoversListed'
<1> SUFFICES ASSUME NEW r \in Runs, NEW p \in Albums, history'[r].status = "completed",
                    items'[p].run = r, items'[p].status \in {"failed", "deferred"}
             PROVE  p \in history'[r].ledger
  BY DEF LeftoversListed
<1>1. history \in [Runs -> [status : HistoryStates, ledger : SUBSET Albums]]
  BY DEF ServiceInv, ServiceTypeOK, OwnTypesOK
<1>2. CASE items'[p] = items[p]
  <2>1. CASE \E c \in Callers : StartBatch(c)
    <3>1. NextRun \in Runs
      BY <2>1, RunStarts
    <3>2. history'[r] = history[r]
      BY <1>1, <2>1, <3>1 DEF StartBatch
    <3>3. QED BY <1>2, <3>2 DEF LeftoversListed
  <2>2. CASE Record
    <3>1. job.run \in Runs /\ history[job.run].status = "running"
      BY <2>2 DEF Record, Batch, ServiceInv, JobShape, JobRecord
    <3>2. CASE r # job.run \/ UNCHANGED history
      BY <1>1, <1>2, <2>2, <3>1, <3>2 DEF Record, LeftoversListed
    <3>3. CASE r = job.run /\ history' # history
      <4>1. history'[r].ledger = job.failed \cup job.review
        BY <1>1, <2>2, <3>1, <3>3 DEF Record
      <4>2. p \in job.failed \cup job.review
        BY <1>2, <2>2, <3>3 DEF Record, Batch, JobLedger
      <4>3. QED BY <4>1, <4>2
    <3>4. QED BY <3>2, <3>3
  <2>3. CASE Start
    BY <1>1, <1>2, <2>3 DEF Start, LeftoversListed
  <2>4. CASE UNCHANGED history
    BY <1>2, <2>4 DEF LeftoversListed
  <2>5. QED BY <2>1, <2>2, <2>3, <2>4, HistoryChanges
<1>3. CASE (Commit \/ ManualFails) /\ p = job.cur
  <2>1. history'[job.run].status \in {"running", "none"}
    <3>1. UNCHANGED history /\ job.pc \in {"settle", "fail"} /\ job.kind \in {"batch", "manual"}
      BY <1>3
         DEF Commit, ManualFails, Either, Manual, ServiceInv, ServiceTypeOK, OwnTypesOK, Jobs
    <3>2. QED BY <3>1 DEF JobRecord
  <2>2. items'[p].run = job.run \/ items'[p] = items[p]
    BY <1>3, CommitRow, FailRow
  <2>3. QED BY <1>2, <2>1, <2>2
<1>4. QED BY <1>2, <1>3, LeftoverRows

\* Unless a call of the database failed, a run whose history says it
\* completed, or was cancelled, has no row left running or queued in its name,
\* and a completed one lists whatever it left over (finish_run_checked).
THEOREM HistoryTellsTruth ==
    ASSUME ~PidsReused
    PROVE  Spec => []HistoryIsSettled
<1>1. Init => RecordInv
  BY StoreAssumption
     DEF StoreAssumption, Init, StoreInit, NoItem, NoHistory, NoJob, RecordInv, RunsKnown, JobRecord, JobLedger,
         RunningUnrecorded, LeftoversListed
<1>2. ServiceInv /\ WorkerInv /\ RecordInv /\ [Next]_vars => RecordInv'
  BY RunsKnownKept, JobRecordKept, JobLedgerKept, RunningUnrecordedKept, LeftoversKept
     DEF RecordInv
<1>3. ServiceInv /\ WorkerInv /\ [Next]_vars => WorkerInv'
  BY WorkersKept
<1>4. RecordInv => HistoryIsSettled
  BY StoreAssumption
     DEF StoreAssumption, RecordInv, RunsKnown, RunningUnrecorded, LeftoversListed, HistoryIsSettled
<1>5. QED BY <1>1, <1>2, <1>3, <1>4, WorkerInvInit, ServiceIsSound, PTL DEF Spec

----------------------------------------------------------------------------
(* Cancelled work stays stopped.                                           *)

\* The halt marker is written once a failed call, and one is all there is.
MarkerIsLast ==
    /\ budget["fault"] <= 1
    /\ haltFile # NoHalt => budget["fault"] = 0

\* A stopped album is not in hand, and if its row is still open the marker
\* names it and no claim is possible before a restart has seen the marker.
StoppedRests ==
    \A p \in stopped :
        /\ ~AtWork(p)
        /\ Active(p) =>
              haltFile # NoHalt /\ p \in haltFile /\ (Up("server") => ~Unhalted("server"))

LEMMA MarkerChanges ==
    ASSUME ServiceInv, [Next]_vars
    PROVE  \/ UNCHANGED <<haltFile, halted, pid>>
           \/ Crash \/ Start
           \/ (ManualStops \/ WindCancelled) /\ Spend("fault")
<1>1. UNCHANGED storeVars => UNCHANGED <<haltFile, halted, pid>>
  BY DEF storeVars
<1>2. CASE CallerStep
  BY <1>1, <1>2
     DEF CallerStep, PollPending, Request, Insert, InsertTorn, StartBatch, StartUnrecorded,
         StartRefused, RetryFailed, ResetRetried, ManualToken, ManualStart, ManualRefused,
         InsertPending, Requeue
<1>3. CASE AlbumStep
  <2>1. CASE Claim \/ ClaimFails \/ Origin \/ Lookup \/ AiRefused \/ AiProposes \/ AiWrites \/ Resolve
    BY <1>1, <2>1
       DEF Claim, MarkRunning, ClaimFails, Origin, Lookup, Checkpoint, AiRefused, AiProposes,
           RecordFlag, AiWrites, Resolve
  <2>2. CASE Commit \/ CommitFails \/ CommitCancelled \/ ManualFails
    BY <1>1, <2>2 DEF Commit, Finish, FinishDeferred, CommitFails, CommitCancelled, ManualFails
  <2>3. CASE ManualStops
    BY <2>3 DEF ManualStops, StopPaths, CancelPaths
  <2>4. QED BY <1>3, <2>1, <2>2, <2>3 DEF AlbumStep
<1>4. CASE RunStep
  BY <1>1, <1>4
     DEF RunStep, Bind, BindRun, LoopEnds, WindCancelled, StopPaths, CancelPaths, Wind, Judge,
         Close, Record, Release
<1>5. CASE OutsideStep
  BY <1>1, <1>5
     DEF OutsideStep, Cancel, Acknowledge, MarkReviewed, OtherStarts, OtherEnds, RetryDue,
         DeadlinePasses
<1>6. UNCHANGED vars => UNCHANGED storeVars
  BY DEF vars
<1>7. QED BY <1>1, <1>2, <1>3, <1>4, <1>5, <1>6, StepCases

LEMMA FaultsLeft ==
    ASSUME ServiceInv, [Next]_vars
    PROVE  /\ budget["fault"] \in Nat /\ budget'["fault"] \in Nat
           /\ budget'["fault"] <= budget["fault"]
           /\ Spend("fault") => budget["fault"] > 0 /\ budget'["fault"] = budget["fault"] - 1
<1>1. budget \in [EnvKinds -> Nat] /\ "fault" \in EnvKinds
  BY Kinds DEF ServiceInv, ServiceTypeOK, OwnTypesOK
<1>2. Spend("fault") => budget["fault"] > 0 /\ budget'["fault"] = budget["fault"] - 1
  BY <1>1 DEF Spend
<1>3. ASSUME NEW kind \in EnvKinds, Spend(kind) PROVE budget'["fault"] <= budget["fault"]
  BY <1>1, <1>3 DEF Spend
<1>4. Free => budget' = budget
  BY DEF Free, envVars
<1>5. Free \/ (\E kind \in EnvKinds : Spend(kind))
  <2>1. CASE CallerStep
    BY <2>1, Kinds
       DEF CallerStep, PollPending, Request, Insert, InsertTorn, StartBatch, StartUnrecorded,
           StartRefused, RetryFailed, ResetRetried, ManualToken, ManualStart, ManualRefused
  <2>2. CASE AlbumStep
    BY <2>2, Kinds
       DEF AlbumStep, Claim, ClaimFails, Origin, Lookup, AiRefused, AiProposes, AiWrites,
           Resolve, Commit, CommitFails, CommitCancelled, ManualStops, ManualFails, StopPaths
  <2>3. CASE RunStep
    BY <2>3, Kinds
       DEF RunStep, Bind, LoopEnds, WindCancelled, StopPaths, Wind, Judge, Close, Record, Release
  <2>4. CASE OutsideStep
    BY <2>4, Kinds
       DEF OutsideStep, Cancel, Acknowledge, OtherStarts, OtherEnds, RetryDue, Crash, Start
  <2>5. UNCHANGED vars => Free
    BY DEF vars, Free
  <2>6. QED BY <2>1, <2>2, <2>3, <2>4, <2>5, StepCases
<1>6. budget' \in [EnvKinds -> Nat]
  BY TypesKept DEF ServiceTypeOK, OwnTypesOK
<1>7. budget'["fault"] <= budget["fault"]
  BY <1>1, <1>3, <1>4, <1>5
<1>8. QED BY <1>1, <1>2, <1>6, <1>7

LEMMA MarkerKept == ASSUME ServiceInv, MarkerIsLast, [Next]_vars PROVE MarkerIsLast'
<1>1. CASE Spend("fault")
  BY <1>1, FaultsLeft DEF MarkerIsLast
<1>2. CASE ~Spend("fault")
  <2>1. haltFile' # NoHalt => haltFile # NoHalt
    <3>1. CASE Crash
      BY <3>1 DEF Crash, Exit
    <3>2. CASE Start
      BY <3>2 DEF Start, OpenServer
    <3>3. QED BY <1>2, <3>1, <3>2, MarkerChanges
  <2>2. QED BY <2>1, FaultsLeft DEF MarkerIsLast
<1>3. QED BY <1>1, <1>2

\* Only a claim takes an album in hand.
LEMMA HandChanges == ASSUME ServiceInv, [Next]_vars PROVE Claim \/ job'.cur \in {job.cur, NoAlbum}
<1>1. job \in Jobs
  BY DEF ServiceInv, ServiceTypeOK, OwnTypesOK
<1>2. CASE CallerStep
  BY <1>2, ZenonT(30)
     DEF CallerStep, PollPending, Request, Insert, InsertTorn, StartBatch, StartUnrecorded,
         StartRefused, RetryFailed, ResetRetried, ManualToken, ManualStart, ManualRefused, NoJob
<1>3. CASE ClaimFails \/ Origin \/ Lookup \/ AiRefused \/ AiProposes
  BY <1>1, <1>3 DEF ClaimFails, Origin, Lookup, AiRefused, AiProposes, Jobs
<1>4. CASE AiWrites \/ Resolve
  <2>1. PICK result : job' = AfterResolver(result)
    BY <1>4 DEF AiWrites, Resolve
  <2>2. QED BY <1>1, <2>1 DEF AfterResolver, Jobs
<1>5. CASE Commit \/ CommitFails \/ CommitCancelled
  BY <1>1, <1>5 DEF Commit, CommitFails, CommitCancelled, Settled, Jobs
<1>6. CASE ManualStops \/ ManualFails
  BY <1>1, <1>6 DEF ManualStops, ManualFails, StopPaths, Jobs
<1>7. CASE Bind \/ LoopEnds \/ WindCancelled \/ Wind
  BY <1>1, <1>7 DEF Bind, LoopEnds, WindCancelled, StopPaths, Wind, Jobs
<1>8. CASE Judge \/ Close \/ Record
  BY <1>1, <1>8 DEF Judge, Close, Record, Jobs
<1>9. CASE Release \/ Crash
  BY <1>9 DEF Release, Crash, NoJob
<1>10. CASE OutsideStep /\ ~Crash
  BY <1>10
     DEF OutsideStep, Cancel, Acknowledge, OtherStarts, OtherEnds, RetryDue, Start, serviceVars
<1>11. UNCHANGED vars => UNCHANGED job
  BY DEF vars, serviceVars
<1>12. QED
  BY <1>2, <1>3, <1>4, <1>5, <1>6, <1>7, <1>8, <1>9, <1>10, <1>11, StepCases
     DEF AlbumStep, RunStep

\* The requests accept an album again or leave it and its row alone.
LEMMA StoppedRows ==
    ASSUME ServiceInv, CallerStep, NEW p \in stopped'
    PROVE  p \in stopped /\ items'[p] = items[p]
<1>1. p \in Albums
  BY TypesKept, StepCases DEF ServiceTypeOK, OwnTypesOK
<1>2. ASSUME NEW T, InsertPending(T) \/ Requeue(T), stopped' = stopped \ T
      PROVE  p \in stopped /\ items'[p] = items[p]
  BY <1>1, <1>2 DEF InsertPending, Requeue
<1>3. CASE (\E c \in Callers : Insert(c) \/ InsertTorn(c)) \/ ResetRetried \/ ManualStart
  BY <1>2, <1>3 DEF Insert, InsertTorn, ResetRetried, ManualStart
<1>4. CASE UNCHANGED storeVars /\ UNCHANGED stopped
  BY <1>4 DEF storeVars
<1>5. QED
  BY <1>3, <1>4
     DEF CallerStep, PollPending, Request, StartBatch, StartUnrecorded,
         StartRefused, RetryFailed, ManualToken, ManualRefused, ghosts

LEMMA StoppedGrows ==
    ASSUME ServiceInv, [Next]_vars, ~CallerStep
    PROVE  stopped' = stopped \/ ManualStops \/ WindCancelled
<1>1. CASE AlbumStep
  BY <1>1
     DEF AlbumStep, Claim, ClaimFails, Origin, Lookup, AiRefused, AiProposes, AiWrites,
         Resolve, Commit, CommitFails, CommitCancelled, ManualFails, ghosts
<1>2. CASE RunStep
  BY <1>2 DEF RunStep, Bind, LoopEnds, Wind, Judge, Close, Record, Release, ghosts
<1>3. CASE OutsideStep
  BY <1>3
     DEF OutsideStep, Cancel, Acknowledge, OtherStarts, OtherEnds, RetryDue, Crash, Start, ghosts
<1>4. UNCHANGED vars => stopped' = stopped
  BY DEF vars, ghosts
<1>5. QED BY <1>1, <1>2, <1>3, <1>4, StepCases

LEMMA StoppedKept ==
    ASSUME ServiceInv, MarkerIsLast, StoppedRests, [Next]_vars PROVE StoppedRests'
<1>1. /\ NoAlbum \notin Albums /\ stopped \in SUBSET Albums /\ job.all \in SUBSET Albums
      /\ NoHalt \notin SUBSET Albums /\ job \in Jobs /\ stopped' \in SUBSET Albums
      /\ halted \in [Runtimes -> (SUBSET Albums) \cup {NoHalt}] /\ "server" \in Runtimes
      /\ pid \in [Runtimes -> Pids \cup {NoPid}]
  BY ServiceAssumption, StoreAssumption, TypesKept
     DEF ServiceAssumption, StoreAssumption, ServiceInv, ServiceTypeOK, OwnTypesOK, TypeOK, Jobs,
         Runtimes
<1> SUFFICES ASSUME NEW p \in stopped'
             PROVE  /\ ~AtWork(p)'
                    /\ Active(p)' => /\ haltFile' # NoHalt /\ p \in haltFile'
                                     /\ Up("server")' => ~Unhalted("server")'
  BY DEF StoppedRests
<1>2. CASE ManualStops \/ WindCancelled
  <2>1. job'.cur = NoAlbum /\ ~AtWork(p)'
    <3>1. job'.cur = NoAlbum
      BY <1>1, <1>2, ServiceAssumption, ZenonT(30)
         DEF ManualStops, WindCancelled, Batch, StopPaths, Jobs, ServiceInv, JobShape, AtAlbum
    <3>2. QED BY <1>1, <3>1 DEF AtWork
  <2>2. CASE CancelPaths(job.all) /\ stopped' = stopped \cup {a \in job.all : Active(a)}
    <3>1. ~Active(p)' \/ (items'[p] = items[p] /\ (p \in job.all => ~Active(p)))
      BY <1>1, <2>2, WithdrawnRow DEF Active, ActiveStatuses
    <3>2. UNCHANGED <<haltFile, halted, pid>>
      BY <2>2 DEF CancelPaths
    <3>3. QED BY <2>1, <2>2, <3>1, <3>2 DEF StoppedRests, Active, Up, Unhalted
  <2>3. CASE \E filed \in BOOLEAN :
                /\ Spend("fault") /\ CancelFailed(job.all, filed)
                /\ stopped' = IF filed THEN stopped \cup {a \in job.all : Active(a)} ELSE stopped
    <3>1. haltFile = NoHalt
      BY <2>3, FaultsLeft DEF MarkerIsLast
    <3>2. PICK filed \in BOOLEAN :
              /\ CancelFailed(job.all, filed)
              /\ stopped' = IF filed THEN stopped \cup {a \in job.all : Active(a)} ELSE stopped
      BY <2>3
    <3>3. UNCHANGED <<items, pid>> /\ halted'["server"] # NoHalt
      BY <1>1, <3>2 DEF CancelFailed
    <3>4. p \in stopped => ~Active(p)'
      BY <3>1, <3>3 DEF StoppedRests, Active
    <3>5. p \notin stopped => p \in job.all /\ haltFile' = job.all
      BY <3>2 DEF CancelFailed
    <3>6. QED BY <1>1, <2>1, <3>3, <3>4, <3>5 DEF Unhalted
  <2>4. QED BY <1>2, <2>2, <2>3 DEF ManualStops, WindCancelled, StopPaths
<1>3. CASE ~ManualStops /\ ~WindCancelled
  <2>1. p \in stopped /\ p \in Albums
    BY <1>1, <1>3, StoppedRows, StoppedGrows
  <2>2. ~AtWork(p) /\ (Active(p) => /\ haltFile # NoHalt /\ p \in haltFile
                                    /\ Up("server") => ~Unhalted("server"))
    BY <2>1 DEF StoppedRests
  <2>3. Claim => job'.cur # p /\ items'[p] = items[p]
    <3>1. SUFFICES ASSUME Claim PROVE job'.cur # p /\ items'[p] = items[p]
      OBVIOUS
    <3>2. PICK q \in job.todo : /\ q \in Albums /\ Claimable(q) /\ job'.cur = q
                                /\ \A a \in Albums : a # q => items'[a] = items[a]
      BY <3>1, ClaimedRow
    <3>3. q # p
      BY <2>2, <3>1, <3>2 DEF Claim, Either, Claimable, Active, ActiveStatuses
    <3>4. QED BY <2>1, <3>2, <3>3
  <2>4. ~AtWork(p)'
    BY <1>1, <2>1, <2>2, <2>3, HandChanges DEF AtWork
  <2>5. CASE Start
    <3>1. Active(p)' => Active(p)
      BY <2>1, <2>5, RecoveredRow DEF Active, ActiveStatuses
    <3>2. CASE ~Active(p)
      BY <2>4, <3>1, <3>2
    <3>3. CASE Active(p)
      <4>1. PICK q \in Pids, result \in {"recovered", "markerKept", "failed"} : OpenServer(q, result)
        BY <2>5 DEF Start
      <4>2. CASE result = "failed"
        <5>1. haltFile' = haltFile /\ halted'["server"] = haltFile
          BY <1>1, <4>1, <4>2 DEF OpenServer
        <5>2. QED BY <2>2, <2>4, <3>3, <5>1 DEF Unhalted
      <4>3. CASE result # "failed"
        <5>1. items'[p] = Recovered(p, Alive(q)) /\ items[p] \in Row
          BY <2>1, <4>1, <4>3 DEF OpenServer, ServiceInv, ServiceTypeOK, TypeOK
        <5>2. ~Active(p)'
          BY <2>2, <3>3, <5>1 DEF Recovered, Withdrawn, Row, Active, ActiveStatuses
        <5>3. QED BY <2>4, <5>2
      <4>4. QED BY <4>2, <4>3
    <3>4. QED BY <3>2, <3>3
  <2>6. CASE ~Start
    <3>1. Active(p)' => Active(p)
      <4>1. CASE Commit
        BY <2>1, <2>2, <4>1, CommitRow DEF AtWork, Active
      <4>2. CASE ManualFails
        BY <2>1, <2>2, <4>2, FailRow DEF AtWork, Active
      <4>3. CASE Acknowledge
        BY <2>1, <4>3, AcknowledgedRow DEF Active, ActiveStatuses
      <4>4. CASE CallerStep
        BY <4>4, StoppedRows DEF Active
      <4>5. CASE Claim \/ UNCHANGED items \/ UNCHANGED vars
        BY <2>3, <4>5 DEF Active, vars, storeVars
      <4>6. QED BY <1>3, <2>6, <4>1, <4>2, <4>3, <4>4, <4>5, RowChanges
    <3>2. CASE Crash
      <4>1. ~Up("server")' /\ UNCHANGED haltFile
        BY <1>1, <3>2 DEF Crash, Exit, Up
      <4>2. QED BY <2>2, <2>4, <3>1, <4>1
    <3>3. CASE UNCHANGED <<haltFile, halted, pid>>
      BY <2>2, <2>4, <3>1, <3>3 DEF Up, Unhalted
    <3>4. QED BY <1>3, <2>6, <3>2, <3>3, MarkerChanges
  <2>7. QED BY <2>5, <2>6
<1>4. QED BY <1>2, <1>3

\* While at most one call of the database fails, an album whose cancellation
\* reached the store, or the halt marker, is never worked on again, restarts
\* included, until somebody asks for it anew (cancel_paths, persist_halt,
\* recover_interrupted).
THEOREM CancelledAlbumsRest ==
    ASSUME \A b \in Budgets : b["fault"] <= 1
    PROVE  Spec => []CancelledStaysStopped
<1>1. Init => MarkerIsLast /\ StoppedRests
  BY DEF Init, StoreInit, MarkerIsLast, StoppedRests
<1>2. ServiceInv /\ MarkerIsLast /\ StoppedRests /\ [Next]_vars => MarkerIsLast' /\ StoppedRests'
  BY MarkerKept, StoppedKept
<1>3. StoppedRests => CancelledStaysStopped
  BY DEF StoppedRests, CancelledStaysStopped
<1>4. QED BY <1>1, <1>2, <1>3, ServiceIsSound, PTL DEF Spec

----------------------------------------------------------------------------
(* The service implements the contract of its documentation.               *)

LEMMA Places ==
    ASSUME ServiceInv
    PROVE  /\ \A p \in Albums : Work[p] = IF AtWork(p) THEN "working"
                                          ELSE IF items[p].status = "running" THEN "held"
                                          ELSE IF Active(p) THEN "queued" ELSE "idle"
           /\ Work \in [Albums -> Contract!Places]
           /\ Recalled \in SUBSET Albums
  BY DEF Work, Contract!Places, Recalled, ServiceInv, ServiceTypeOK, TypeOK

LEMMA PlacesNext ==
    ASSUME ServiceInv'
    PROVE  /\ \A p \in Albums : Work'[p] = IF AtWork(p)' THEN "working"
                                           ELSE IF items'[p].status = "running" THEN "held"
                                           ELSE IF Active(p)' THEN "queued" ELSE "idle"
           /\ Work' \in [Albums -> Contract!Places]
           /\ Recalled' \in SUBSET Albums
  BY DEF Work, Contract!Places, Recalled, ServiceInv, ServiceTypeOK, TypeOK

LEMMA FaultsAreSpent ==
    ASSUME ServiceInv, [Next]_vars
    PROVE  Contract!MayFail /\ (Spend("fault") => Contract!Fails)
  BY FaultsLeft DEF Contract!MayFail, Contract!Fails

\* Every album has what it had in hand; a row stays as it is or waits anew.
LEMMA AcceptStep ==
    ASSUME ServiceInv, ServiceInv', [Next]_vars, Up("server"), UNCHANGED <<pid, haltFile>>,
           job'.cur = job.cur, \A p \in Albums : items'[p] \in {items[p], PendingRow}
    PROVE  Contract!Accept
<1>1. Contract!Moves({<<"idle", "queued">>, <<"held", "queued">>})
  BY Places, PlacesNext DEF Contract!Moves, AtWork, Active, ActiveStatuses, PendingRow
<1>2. UNCHANGED <<Recalled, Up("server")>>
  BY DEF Recalled, Up
<1>3. QED BY <1>1, <1>2, FaultsAreSpent DEF Contract!Accept

\* Nothing the contract sees changes.
LEMMA IdleStep ==
    ASSUME ServiceInv, ServiceInv', [Next]_vars, Up("server"), UNCHANGED <<pid, haltFile, items>>,
           job'.cur = job.cur
    PROVE  Contract!Accept
  BY AcceptStep

LEMMA CallersAccept ==
    ASSUME ServiceInv, ServiceInv', [Next]_vars, CallerStep PROVE Contract!Accept
<1>1. Up("server")
  BY DEF CallerStep, PollPending, Request, Insert, InsertTorn, StartBatch, StartUnrecorded,
         StartRefused, RetryFailed, ResetRetried, ManualToken, ManualStart, ManualRefused,
         Idle, Serving
<1>2. job'.cur = job.cur
  <2>1. CASE (\E c \in Callers : StartBatch(c)) \/ ManualStart
    <3>1. holder # "job"
      BY <2>1 DEF StartBatch, ManualStart, ServiceInv, TokenHeld
    <3>2. job.cur = NoAlbum
      BY <3>1 DEF ServiceInv, TokenHeld, JobShape, AtAlbum
    <3>3. job'.cur = NoAlbum
      BY <2>1 DEF StartBatch, ManualStart, NoJob
    <3>4. QED BY <3>2, <3>3
  <2>2. QED
    BY <2>1
       DEF CallerStep, PollPending, Request, Insert, InsertTorn, StartUnrecorded,
           StartRefused, RetryFailed, ResetRetried, ManualToken, ManualRefused
<1>3. UNCHANGED <<pid, haltFile>> /\ \A p \in Albums : items'[p] \in {items[p], PendingRow}
  <2>1. ASSUME NEW T, InsertPending(T) \/ Requeue(T)
        PROVE  UNCHANGED <<pid, haltFile>> /\ \A p \in Albums : items'[p] \in {items[p], PendingRow}
    BY <2>1 DEF InsertPending, Requeue
  <2>2. ASSUME UNCHANGED storeVars
        PROVE  UNCHANGED <<pid, haltFile>> /\ \A p \in Albums : items'[p] \in {items[p], PendingRow}
    BY <2>2 DEF storeVars
  <2>3. QED
    BY <2>1, <2>2
       DEF CallerStep, PollPending, Request, Insert, InsertTorn, StartBatch, StartUnrecorded,
           StartRefused, RetryFailed, ResetRetried, ManualToken, ManualStart, ManualRefused
<1>4. QED BY <1>1, <1>2, <1>3, AcceptStep

\* The album in hand is put down; the others stay where they are.
LEMMA EndStep ==
    ASSUME ServiceInv, ServiceInv', [Next]_vars, Up("server"), UNCHANGED <<pid, haltFile>>,
           job'.cur \in {job.cur, NoAlbum},
           \A p \in Albums : ~AtWork(p) => items'[p] = items[p]
    PROVE  Contract!End
<1>1. NoAlbum \notin Albums
  BY ServiceAssumption DEF ServiceAssumption
<1>2. Contract!Moves({<<"working", "idle">>, <<"working", "queued">>, <<"working", "held">>})
  BY <1>1, Places, PlacesNext DEF Contract!Moves, AtWork, Active
<1>3. UNCHANGED <<Recalled, Up("server")>>
  BY DEF Recalled, Up
<1>4. QED BY <1>2, <1>3, FaultsAreSpent DEF Contract!End

\* A failed cancellation leaves the rows; the album in hand is put down.
LEMMA RecallStep ==
    ASSUME ServiceInv, ServiceInv', [Next]_vars, Up("server"), NEW filed,
           Spend("fault"), CancelFailed(job.all, filed), job'.cur = NoAlbum
    PROVE  Contract!Recall
<1>1. NoAlbum \notin Albums /\ \A p \in Albums : AtWork(p) => Active(p)
  BY ServiceAssumption DEF ServiceAssumption, ServiceInv, WorkIsOpen, Active, ActiveStatuses
<1>2. UNCHANGED <<items, pid>>
  BY DEF CancelFailed
<1>3. Contract!Moves({<<"working", "queued">>, <<"working", "held">>})
  BY <1>1, <1>2, Places, PlacesNext DEF Contract!Moves, AtWork, Active
<1>4. QED BY <1>2, <1>3, PlacesNext, FaultsAreSpent DEF Contract!Recall, Up

LEMMA AlbumsMove ==
    ASSUME ServiceInv, ServiceInv', [Next]_vars, AlbumStep
    PROVE  Contract!Accept \/ Contract!Begin \/ Contract!End \/ Contract!Recall
<1>1. job \in Jobs /\ items \in [Albums -> Row] /\ NoAlbum \notin Albums
      /\ job.todo \in SUBSET Albums
  BY ServiceAssumption
     DEF ServiceAssumption, ServiceInv, ServiceTypeOK, TypeOK, OwnTypesOK, Jobs
<1>2. Up("server")
  BY DEF AlbumStep, Claim, ClaimFails, Origin, Lookup, AiRefused, AiProposes, AiWrites, Resolve,
         Commit, CommitFails, CommitCancelled, ManualStops, ManualFails, Either, Batch, Manual
<1>3. UNCHANGED storeVars => UNCHANGED <<pid, haltFile, items>>
  BY DEF storeVars
<1>4. CASE Claim
  <2>1. PICK p \in job.todo :
            /\ MarkRunning(p, job.run)
            /\ job' = [job EXCEPT !.todo = @ \ {p}, !.cur = p, !.result = "none",
                               !.pc = IF job.kind = "batch" THEN "origin" ELSE "lookup",
                               !.origin = job.run]
    BY <1>4 DEF Claim
  <2>2. job'.cur = p /\ p \in Albums /\ job.cur = NoAlbum
    BY <1>1, <1>4, <2>1 DEF Claim, Either, ServiceInv, JobShape, AtAlbum, Jobs
  <2>3. /\ items[p].status \in {"pending", "deferred"} /\ UNCHANGED <<pid, haltFile>>
        /\ \A q \in Albums : q # p => items'[q] = items[q]
    BY <1>1, <2>1, <2>2 DEF MarkRunning, Claimable
  <2>4. Work[p] = "queued"
    BY <1>1, <2>2, <2>3, Places DEF AtWork, Active, ActiveStatuses
  <2>5. Contract!Moves({<<"queued", "working">>})
    BY <1>1, <2>2, <2>3, <2>4, Places, PlacesNext DEF Contract!Moves, AtWork, Active
  <2>6. /\ \A q \in Albums : Work[q] # "working"
        /\ \A q, r \in Albums : Work'[q] = "working" /\ Work'[r] = "working" => q = r
    BY <1>1, <2>2, Places, PlacesNext DEF AtWork
  <2>7. UNCHANGED <<Recalled, Up("server")>>
    BY <2>3 DEF Recalled, Up
  <2>8. Contract!Begin
    BY <1>2, <2>5, <2>6, <2>7, FaultsAreSpent DEF Contract!Begin
  <2>9. QED BY <2>8
<1>5. CASE ClaimFails \/ Lookup \/ AiRefused \/ AiProposes
  BY <1>1, <1>2, <1>3, <1>5, IdleStep
     DEF ClaimFails, Lookup, AiRefused, AiProposes, Checkpoint, RecordFlag, Jobs
<1>6. CASE AiWrites \/ Resolve
  <2>1. PICK result : job' = AfterResolver(result)
    BY <1>6 DEF AiWrites, Resolve
  <2>2. UNCHANGED <<pid, haltFile, items>>
    BY <1>3, <1>6 DEF AiWrites, Resolve, RecordFlag
  <2>3. job'.cur = job.cur
    BY <1>1, <2>1 DEF AfterResolver, Jobs
  <2>4. QED BY <1>2, <2>2, <2>3, IdleStep
<1>7. CASE Origin \/ CommitFails \/ CommitCancelled
  <2>1. job'.cur \in {job.cur, NoAlbum}
    BY <1>1, <1>7 DEF Origin, CommitFails, CommitCancelled, Settled, Jobs
  <2>2. UNCHANGED storeVars
    BY <1>7 DEF Origin, CommitFails, CommitCancelled
  <2>3. Contract!End
    BY <1>2, <1>3, <2>1, <2>2, EndStep
  <2>4. QED BY <2>3
<1>8. CASE Commit \/ ManualFails
  <2>1. job'.cur = NoAlbum
    BY <1>1, <1>8 DEF Commit, ManualFails, Settled, Jobs
  <2>2. UNCHANGED <<pid, haltFile>> /\ \A p \in Albums : ~AtWork(p) => items'[p] = items[p]
    BY <1>1, <1>3, <1>8 DEF Commit, ManualFails, Finish, FinishDeferred, AtWork
  <2>3. Contract!End
    BY <1>2, <2>1, <2>2, EndStep
  <2>4. QED BY <2>3
<1>9. CASE ManualStops
  <2>1. job'.cur = NoAlbum
    BY <1>1, <1>9 DEF ManualStops, StopPaths, Jobs
  <2>2. \A p \in job.all : AtWork(p)
    BY <1>9 DEF ManualStops, Manual, ServiceInv, JobShape, AtAlbum, AtWork
  <2>3. CASE CancelPaths(job.all)
    <3>1. UNCHANGED <<pid, haltFile>> /\ \A p \in Albums : ~AtWork(p) => items'[p] = items[p]
      BY <1>1, <2>2, <2>3 DEF CancelPaths
    <3>2. Contract!End
      BY <1>2, <2>1, <3>1, EndStep
    <3>3. QED BY <3>2
  <2>4. CASE \E filed : Spend("fault") /\ CancelFailed(job.all, filed)
    BY <1>2, <2>1, <2>4, RecallStep
  <2>5. QED BY <1>9, <2>3, <2>4 DEF ManualStops, StopPaths
<1>10. QED BY <1>4, <1>5, <1>6, <1>7, <1>8, <1>9 DEF AlbumStep

\* Albums may stop waiting or being held; nothing is in hand or put down.
LEMMA WithdrawStep ==
    ASSUME ServiceInv, ServiceInv', [Next]_vars, Up("server"), UNCHANGED <<pid, haltFile>>,
           job'.cur = job.cur,
           \A p \in Albums : items'[p] = items[p] \/ ~Active(p)'
    PROVE  Contract!Withdraw
<1>1. Contract!Moves({<<"queued", "idle">>, <<"held", "idle">>})
  BY Places, PlacesNext DEF Contract!Moves, AtWork, Active, ActiveStatuses
<1>2. UNCHANGED <<Recalled, Up("server")>>
  BY DEF Recalled, Up
<1>3. QED BY <1>1, <1>2, FaultsAreSpent DEF Contract!Withdraw

LEMMA RunsMove ==
    ASSUME ServiceInv, ServiceInv', [Next]_vars, RunStep
    PROVE  Contract!Accept \/ Contract!Withdraw \/ Contract!Recall
<1>1. job \in Jobs /\ items \in [Albums -> Row]
  BY DEF ServiceInv, ServiceTypeOK, TypeOK, OwnTypesOK
<1>2. Up("server") /\ job.cur = NoAlbum
  BY DEF RunStep, Bind, LoopEnds, WindCancelled, Wind, Judge, Close, Record, Release,
         Either, Batch, ServiceInv, JobShape, AtAlbum
<1>3. job'.cur = NoAlbum
  <2>1. CASE Bind \/ LoopEnds \/ WindCancelled \/ Wind
    BY <1>1, <1>2, <2>1 DEF Bind, LoopEnds, WindCancelled, Wind, StopPaths, Jobs
  <2>2. CASE Judge \/ Close \/ Record
    BY <1>1, <1>2, <2>2 DEF Judge, Close, Record, Jobs
  <2>3. CASE Release
    BY <2>3 DEF Release, NoJob
  <2>4. QED BY <2>1, <2>2, <2>3 DEF RunStep
<1>4. CASE WindCancelled
  <2>1. CASE CancelPaths(job.all)
    <3>1. UNCHANGED <<pid, haltFile>>
      BY <2>1 DEF CancelPaths
    <3>2. \A p \in Albums : items'[p] = items[p] \/ ~Active(p)'
      BY <2>1, WithdrawnRow DEF Active, ActiveStatuses
    <3>3. Contract!Withdraw
      BY <1>2, <1>3, <3>1, <3>2, WithdrawStep
    <3>4. QED BY <3>3
  <2>2. CASE \E filed : Spend("fault") /\ CancelFailed(job.all, filed)
    BY <1>2, <1>3, <2>2, RecallStep
  <2>3. QED BY <1>4, <2>1, <2>2 DEF WindCancelled, StopPaths
<1>5. CASE ~WindCancelled
  <2>1. UNCHANGED <<pid, haltFile, items>>
    BY <1>5 DEF RunStep, Bind, BindRun, LoopEnds, Wind, Judge, Close, Record, Release, storeVars
  <2>2. Contract!Accept
    BY <1>2, <1>3, <2>1, IdleStep
  <2>3. QED BY <2>2
<1>6. QED BY <1>4, <1>5

\* A crash leaves the row of the album in hand claimed, or queued by a retry.
LEMMA CrashInterrupts ==
    ASSUME ServiceInv, ServiceInv', [Next]_vars, Crash PROVE Contract!Interrupt
<1>1. pid \in [Runtimes -> Pids \cup {NoPid}] /\ "server" \in Runtimes /\ NoAlbum \notin Albums
  BY ServiceAssumption DEF ServiceAssumption, ServiceInv, ServiceTypeOK, TypeOK, Runtimes
<1>2. Up("server") /\ ~Up("server")' /\ UNCHANGED <<items, haltFile>> /\ job'.cur = NoAlbum
  BY <1>1 DEF Crash, Exit, Up, tables, NoJob
<1>3. \A p \in Albums : ~AtWork(p)'
  BY <1>1, <1>2 DEF AtWork
<1>4. Contract!Moves({<<"working", "queued">>, <<"working", "held">>})
  BY <1>2, <1>3, Places, PlacesNext
     DEF Contract!Moves, Active, ActiveStatuses, ServiceInv, WorkIsOpen
<1>5. \A p \in Albums : Work'[p] # "working"
  BY <1>3, PlacesNext
<1>6. UNCHANGED Recalled
  BY <1>2 DEF Recalled
<1>7. QED BY <1>2, <1>4, <1>5, <1>6, FaultsAreSpent DEF Contract!Interrupt

\* What recovery makes of a row, when no process has a dead owner's id: it
\* withdraws the recalled ones and releases every claim.
LEMMA RecoveryReleases ==
    ASSUME ServiceInv, OwnersKnown, NEW q \in Pids, ~DeadOwner(q), NEW p \in Albums,
           items'[p] = Recovered(p, Alive(q))
    PROVE  /\ Active(p)' <=> Active(p) /\ p \notin Recalled
           /\ items'[p].status # "running"
<1>1. items[p] \in Row
  BY DEF ServiceInv, ServiceTypeOK, TypeOK
<1>2. items[p].status = "running" => items[p].owner.pid \notin Alive(q)
  <2>1. SUFFICES ASSUME items[p].status = "running" PROVE items[p].owner.pid \notin Alive(q)
    OBVIOUS
  <2>2. items[p].owner \in Owners /\ items[p].owner # NoOwner
        /\ items[p].owner.pid \in Pids /\ items[p].owner.pid # NoPid
    BY <2>1, StoreAssumption DEF StoreAssumption, OwnersKnown, Owners
  <2>3. items[p].owner.pid # q
    BY <2>2 DEF DeadOwner
  <2>4. QED BY <2>2, <2>3 DEF Alive, OwnersKnown, Runtimes
<1>3. QED BY <1>1, <1>2 DEF Active, ActiveStatuses, Recovered, Withdrawn, Recalled, Row

LEMMA StartResumes ==
    ASSUME ServiceInv, ServiceInv', OwnersKnown, [Next]_vars, ~PidsReused, Start
    PROVE  Contract!Resume
<1>1. pid \in [Runtimes -> Pids \cup {NoPid}] /\ "server" \in Runtimes /\ NoAlbum \notin Albums
  BY ServiceAssumption DEF ServiceAssumption, ServiceInv, ServiceTypeOK, TypeOK, Runtimes
<1>2. PICK q \in Pids, result \in {"recovered", "markerKept", "failed"} :
          ~DeadOwner(q) /\ (result = "recovered" \/ Spend("fault")) /\ OpenServer(q, result)
  BY DEF Start
<1>3. ~Up("server") /\ Up("server")'
  BY <1>1, <1>2, StoreAssumption DEF StoreAssumption, OpenServer, Up
<1>4. UNCHANGED job /\ \A p \in Albums : ~AtWork(p) /\ ~AtWork(p)'
  BY <1>1, <1>3 DEF Start, ServiceInv, JobShape, NoJob, AtWork
<1>5. Recalled' = IF result = "recovered" THEN {} ELSE Recalled
  BY <1>2 DEF OpenServer, Recalled
<1>6. CASE result = "failed"
  <2>1. UNCHANGED items
    BY <1>2, <1>6 DEF OpenServer
  <2>2. Work' = Work
    BY <1>4, <2>1 DEF Work, Active
  <2>3. QED BY <1>2, <1>3, <1>5, <1>6, <2>2, FaultsAreSpent DEF Contract!Resume
<1>7. CASE result # "failed"
  <2>1. \A p \in Albums : items'[p] = Recovered(p, Alive(q))
    BY <1>2, <1>7 DEF OpenServer
  <2>2. \A p \in Albums : /\ Active(p)' <=> Active(p) /\ p \notin Recalled
                          /\ items'[p].status # "running"
    BY <1>2, <2>1, RecoveryReleases
  <2>3. \A p \in Albums :
           Work'[p] = IF p \in Recalled /\ Work[p] \in {"queued", "held"} THEN "idle"
                      ELSE IF Work[p] = "held" THEN "queued" ELSE Work[p]
    BY <1>4, <2>2, Places, PlacesNext DEF Active, ActiveStatuses
  <2>4. Work' = Contract!Released
    BY <2>3 DEF Work, Contract!Released
  <2>5. QED BY <1>2, <1>3, <1>5, <1>7, <2>4, FaultsAreSpent DEF Contract!Resume
<1>8. QED BY <1>6, <1>7

LEMMA OthersMove ==
    ASSUME ServiceInv, ServiceInv', OwnersKnown, [Next]_vars, ~PidsReused, OutsideStep
    PROVE  \/ Contract!Accept \/ Contract!Withdraw \/ Contract!Interrupt \/ Contract!Resume
           \/ UNCHANGED <<Work, Recalled, Up("server"), budget["fault"]>>
<1>1. CASE Cancel \/ OtherStarts \/ OtherEnds
  <2>1. Contract!Accept
    BY <1>1, IdleStep DEF Cancel, OtherStarts, OtherEnds, storeVars
  <2>2. QED BY <2>1
<1>2. CASE RetryDue
  BY <1>2
     DEF RetryDue, DeadlinePasses, serviceVars, Work, Recalled, AtWork, Active, Up, Free, envVars
<1>3. CASE Acknowledge
  <2>1. \A a \in Albums : items'[a] = items[a] \/ ~Active(a)'
    BY <1>3, AcknowledgedRow DEF Active, ActiveStatuses
  <2>2. Up("server") /\ UNCHANGED <<pid, haltFile, job>>
    BY <1>3 DEF Acknowledge, MarkReviewed
  <2>3. Contract!Withdraw
    BY <2>1, <2>2, WithdrawStep
  <2>4. QED BY <2>3
<1>4. QED BY <1>1, <1>2, <1>3, CrashInterrupts, StartResumes DEF OutsideStep

\* The pipeline does what its documentation promises: accepted albums wait
\* until they are worked on or withdrawn, one at a time; a claimed album nobody
\* works on is never begun again before it was released; and a restart queues
\* every album the process before it left running, and withdraws the recalled
\* ones (recover_interrupted), unless the database refuses the recovery itself
\* or the restarted server has the process id of a dead owner.
THEOREM ServiceKeepsContract ==
    ASSUME ~PidsReused
    PROVE  Spec => ContractSpec
<1>1. Init => Contract!ContractInit /\ OwnersKnown
  BY ServiceAssumption, Kinds, WorkerInvInit
     DEF ServiceAssumption, Init, StoreInit, Contract!ContractInit, Work, Recalled, AtWork, Active,
         ActiveStatuses, NoItem, NoJob, Up, Runtimes, WorkerInv
<1>2. OwnersKnown /\ ServiceInv /\ [Next]_vars => OwnersKnown'
  BY OwnersKept
<1>3. ServiceInv /\ ServiceInv' /\ OwnersKnown /\ [Next]_vars =>
         [Contract!ContractNext]_<<Work, Recalled, Up("server"), budget["fault"]>>
  <2>1. UNCHANGED vars => UNCHANGED <<Work, Recalled, Up("server"), budget["fault"]>>
    BY DEF vars, storeVars, serviceVars, envVars, Work, Recalled, AtWork, Active, Up
  <2>2. QED
    BY <2>1, StepCases, CallersAccept, AlbumsMove, RunsMove, OthersMove DEF Contract!ContractNext
<1>4. QED
  BY <1>1, <1>2, <1>3, ServiceIsSound, PTL
     DEF Spec, ContractSpec, Contract!ContractSpec, Contract!contractVars

============================================================================
