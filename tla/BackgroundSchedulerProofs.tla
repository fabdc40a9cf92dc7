--------------------- MODULE BackgroundSchedulerProofs ---------------------
(***************************************************************************)
(* For every set of albums, crontab, clock and budget: the scheduler keeps *)
(* its types and its bounded, duplicate-free backlog; watching never       *)
(* queues what was there before its baseline; an album the watcher queued  *)
(* stays queued, or pending, until a batch reads it; and the slots of a    *)
(* crontab fire in order, with none left out between them.                 *)
(***************************************************************************)
EXTENDS BackgroundScheduler, TLAPS, SequenceTheorems, FiniteSetTheorems, WellFoundedInduction

USE SchedulerAssumption DEF Never, Minutes

----------------------------------------------------------------------------
(* Queues.                                                                 *)

Distinct(s) == \A i, j \in 1 .. Len(s) : s[i] = s[j] => i = j

LEMMA DistinctIsInjective ==
    ASSUME NEW S, NEW s \in Seq(S)
    PROVE  IsInjective(s) <=> Distinct(s)
BY DEF IsInjective, Distinct

LEMMA InToSet ==
    ASSUME NEW S, NEW s \in Seq(S)
    PROVE  \A k \in 1 .. Len(s) : s[k] \in ToSet(s)
BY DEF ToSet

\* A concatenation, place by place.
LEMMA ConcatIndexed ==
    ASSUME NEW S, NEW p \in Seq(S), NEW q \in Seq(S)
    PROVE  /\ p \o q \in Seq(S) /\ Len(p \o q) = Len(p) + Len(q)
           /\ \A i \in 1 .. Len(p) + Len(q) :
                  (p \o q)[i] = IF i <= Len(p) THEN p[i] ELSE q[i - Len(p)]
BY ConcatProperties

LEMMA ConcatToSet ==
    ASSUME NEW S, NEW p \in Seq(S), NEW q \in Seq(S)
    PROVE  /\ p \o q \in Seq(S) /\ Len(p \o q) = Len(p) + Len(q)
           /\ ToSet(p \o q) = ToSet(p) \cup ToSet(q)
<1>1. /\ p \o q \in Seq(S) /\ Len(p \o q) = Len(p) + Len(q)
      /\ \A i \in 1 .. Len(p) + Len(q) : (p \o q)[i] = IF i <= Len(p) THEN p[i] ELSE q[i - Len(p)]
    BY ConcatIndexed
<1>2. ToSet(p) \cup ToSet(q) \subseteq ToSet(p \o q)
  <2>1. ASSUME NEW i \in 1 .. Len(q) PROVE (p \o q)[Len(p) + i] = q[i] /\ Len(p) + i \in 1 .. Len(p \o q)
      BY <1>1, LenProperties
  <2>2. \A i \in 1 .. Len(p) : (p \o q)[i] = p[i] /\ i \in 1 .. Len(p \o q)
      BY <1>1, LenProperties
  <2> DEFINE u == p \o q
  <2>3. \A k \in 1 .. Len(u) : u[k] \in ToSet(u)
      BY <1>1, InToSet
  <2>4. \A x \in ToSet(p) : \E i \in 1 .. Len(p) : x = p[i]
      BY DEF ToSet
  <2>5. \A x \in ToSet(q) : \E i \in 1 .. Len(q) : x = q[i]
      BY DEF ToSet
  <2> HIDE DEF u
  <2> QED BY <2>1, <2>2, <2>3, <2>4, <2>5, SMTT(20) DEF u
<1>3. ToSet(p \o q) \subseteq ToSet(p) \cup ToSet(q)
  <2> SUFFICES ASSUME NEW i \in 1 .. Len(p) + Len(q)
               PROVE  (p \o q)[i] \in ToSet(p) \cup ToSet(q)
      BY <1>1 DEF ToSet
  <2>1. CASE i <= Len(p)
      BY <1>1, <2>1 DEF ToSet
  <2>2. CASE ~(i <= Len(p))
    <3>1. i - Len(p) \in 1 .. Len(q)
        BY <2>2, LenProperties
    <3> QED BY <1>1, <2>2, <3>1 DEF ToSet
  <2> QED BY <2>1, <2>2
<1> QED BY <1>1, <1>2, <1>3

\* What is left of a poll's albums once the first has been dealt with.
LEMMA TailOfTaken ==
    ASSUME NEW S, NEW t \in Seq(S), t # <<>>
    PROVE  /\ Tail(t) \in Seq(S) /\ Len(Tail(t)) = Len(t) - 1
           /\ Head(t) \in S /\ Head(t) = t[1]
           /\ ToSet(t) = {Head(t)} \cup ToSet(Tail(t))
<1>1. /\ Tail(t) \in Seq(S) /\ Len(Tail(t)) = Len(t) - 1 /\ Len(t) \in Nat \ {0}
      /\ Head(t) \in S /\ Head(t) = t[1]
      /\ \A i \in 1 .. Len(Tail(t)) : Tail(t)[i] = t[i + 1]
    BY HeadTailProperties, EmptySeq, LenProperties
<1>2. ToSet(t) \subseteq {Head(t)} \cup ToSet(Tail(t))
  <2> DEFINE u == Tail(t)
  <2> SUFFICES ASSUME NEW i \in 1 .. Len(t), i # 1 PROVE t[i] \in ToSet(u)
      BY <1>1 DEF ToSet
  <2>0. \A k \in 1 .. Len(u) : u[k] \in ToSet(u)
      BY <1>1 DEF ToSet
  <2>1. i - 1 \in 1 .. Len(Tail(t)) /\ (i - 1) + 1 = i
      BY <1>1
  <2>2. Tail(t)[i - 1] = t[i]
      BY <1>1, <2>1
  <2> QED BY <2>0, <2>1, <2>2
<1>3. {Head(t)} \cup ToSet(Tail(t)) \subseteq ToSet(t)
  <2>1. \A i \in 1 .. Len(Tail(t)) : i + 1 \in 1 .. Len(t)
      BY <1>1
  <2> QED BY <1>1, <2>1 DEF ToSet
<1> QED BY <1>1, <1>2, <1>3

LEMMA DistinctAfterTail ==
    ASSUME NEW S, NEW q \in Seq(S), NEW t \in Seq(S), t # <<>>, IsInjective(q \o t)
    PROVE  /\ IsInjective(q \o Tail(t))
           /\ IsInjective((<<Head(t)>> \o q) \o Tail(t))
<1> DEFINE h == Head(t)
           n == Len(q)
<1>1. /\ Tail(t) \in Seq(S) /\ h \in S /\ h = t[1] /\ Len(t) \in Nat \ {0}
      /\ Len(Tail(t)) = Len(t) - 1 /\ \A i \in 1 .. Len(t) - 1 : Tail(t)[i] = t[i + 1]
    BY HeadTailProperties, EmptySeq, LenProperties
<1>2. n \in Nat
    BY LenProperties
<1>3. /\ q \o t \in Seq(S) /\ Len(q \o t) = n + Len(t)
      /\ \A i \in 1 .. n + Len(t) : (q \o t)[i] = IF i <= n THEN q[i] ELSE t[i - n]
    BY ConcatIndexed
<1>4. \A i, j \in 1 .. n + Len(t) : (q \o t)[i] = (q \o t)[j] => i = j
    BY <1>3, DistinctIsInjective DEF Distinct
<1>5. IsInjective(q \o Tail(t))
  <2> DEFINE u == q \o Tail(t)
  <2>1. /\ u \in Seq(S) /\ Len(u) = n + Len(t) - 1
        /\ \A i \in 1 .. n + Len(t) - 1 : u[i] = IF i <= n THEN q[i] ELSE Tail(t)[i - n]
      BY <1>1, <1>2, ConcatIndexed
  <2>2. \A i \in 1 .. n + Len(t) - 1 :
            u[i] = IF i <= n THEN (q \o t)[i] ELSE (q \o t)[i + 1]
    <3> SUFFICES ASSUME NEW i \in 1 .. n + Len(t) - 1
                 PROVE  u[i] = IF i <= n THEN (q \o t)[i] ELSE (q \o t)[i + 1]
        OBVIOUS
    <3> HIDE DEF u
    <3>1. CASE i <= n
        BY <1>1, <1>2, <1>3, <2>1, <3>1
    <3>2. CASE ~(i <= n)
      <4>1. i - n \in 1 .. Len(t) - 1 /\ i + 1 \in 1 .. n + Len(t) /\ ~(i + 1 <= n)
            /\ (i + 1) - n = (i - n) + 1
          BY <1>1, <1>2, <3>2
      <4>2. u[i] = Tail(t)[i - n]
          BY <2>1, <3>2
      <4>3. Tail(t)[i - n] = t[(i - n) + 1]
          BY <1>1, <4>1
      <4>4. (q \o t)[i + 1] = t[(i + 1) - n]
          BY <1>3, <4>1
      <4> QED BY <3>2, <4>1, <4>2, <4>3, <4>4
    <3> QED BY <3>1, <3>2
  <2> HIDE DEF u
  <2>3. Distinct(u)
      BY <1>1, <1>2, <1>4, <2>1, <2>2 DEF Distinct
  <2> QED BY <2>1, <2>3, DistinctIsInjective DEF u
<1>6. IsInjective((<<h>> \o q) \o Tail(t))
  <2> DEFINE p == <<h>> \o q
             u == p \o Tail(t)
  <2>1. /\ p \in Seq(S) /\ Len(p) = n + 1
        /\ \A i \in 1 .. n + 1 : p[i] = IF i <= 1 THEN h ELSE q[i - 1]
    <3>1. <<h>> \in Seq(S) /\ Len(<<h>>) = 1 /\ <<h>>[1] = h
        BY <1>1
    <3>2. /\ p \in Seq(S) /\ Len(p) = 1 + n
          /\ \A i \in 1 .. 1 + n : p[i] = IF i <= 1 THEN <<h>>[i] ELSE q[i - 1]
        BY <3>1, <1>2, ConcatIndexed
    <3> HIDE DEF p, h
    <3>3. ASSUME NEW i \in 1 .. 1 + n, i <= 1 PROVE i = 1
        BY <3>3
    <3> QED BY <3>1, <3>2, <3>3, <1>2
  <2> HIDE DEF p
  <2>2. /\ u \in Seq(S) /\ Len(u) = n + Len(t)
        /\ \A i \in 1 .. n + Len(t) : u[i] = IF i <= n + 1 THEN p[i] ELSE Tail(t)[i - (n + 1)]
    <3>1. Len(p) + Len(Tail(t)) = n + Len(t)
        BY <1>1, <1>2, <2>1
    <3> DEFINE v == Tail(t)
    <3>0. v \in Seq(S)
        BY <1>1
    <3> HIDE DEF v
    <3>2. p \in Seq(S)
        BY <2>1
    <3>4. /\ p \o v \in Seq(S) /\ Len(p \o v) = Len(p) + Len(v)
          /\ \A i \in 1 .. Len(p) + Len(v) :
                 (p \o v)[i] = IF i <= Len(p) THEN p[i] ELSE v[i - Len(p)]
        BY ONLY <3>0, <3>2, ConcatIndexed
    <3>3. u = p \o v
        BY DEF v
    <3> HIDE DEF u
    <3> QED BY <3>1, <3>3, <3>4, <2>1 DEF v
  <2> HIDE DEF u
  <2>3. \A i \in 1 .. n + Len(t) :
            u[i] = IF i = 1 THEN (q \o t)[n + 1]
                   ELSE IF i <= n + 1 THEN (q \o t)[i - 1] ELSE (q \o t)[i]
    <3> SUFFICES ASSUME NEW i \in 1 .. n + Len(t)
                 PROVE  u[i] = IF i = 1 THEN (q \o t)[n + 1]
                               ELSE IF i <= n + 1 THEN (q \o t)[i - 1] ELSE (q \o t)[i]
        OBVIOUS
    <3>1. CASE i = 1
      <4>1. u[i] = h
          BY <1>2, <2>1, <2>2, <3>1
      <4>2. n + 1 \in 1 .. n + Len(t) /\ ~(n + 1 <= n) /\ (n + 1) - n = 1
          BY <1>1, <1>2
      <4>3. (q \o t)[n + 1] = t[1]
          BY <1>3, <4>2
      <4> QED BY <1>1, <3>1, <4>1, <4>3
    <3>2. CASE i # 1 /\ i <= n + 1
      <4>1. i - 1 \in 1 .. n /\ i - 1 \in 1 .. n + Len(t) /\ ~(i <= 1)
          BY <1>1, <1>2, <3>2
      <4>2. u[i] = q[i - 1]
          BY <1>2, <2>1, <2>2, <3>2, <4>1
      <4>3. (q \o t)[i - 1] = q[i - 1]
          BY <1>3, <4>1
      <4> QED BY <3>2, <4>2, <4>3
    <3>3. CASE ~(i <= n + 1)
      <4>1. i - (n + 1) \in 1 .. Len(t) - 1 /\ ~(i <= n) /\ (i - (n + 1)) + 1 = i - n /\ i # 1
          BY <1>1, <1>2, <3>3
      <4>2. u[i] = Tail(t)[i - (n + 1)]
          BY <2>2, <3>3
      <4>3. Tail(t)[i - (n + 1)] = t[(i - (n + 1)) + 1]
          BY <1>1, <4>1
      <4>4. (q \o t)[i] = t[i - n]
          BY <1>3, <4>1
      <4> QED BY <3>3, <4>1, <4>2, <4>3, <4>4
    <3> QED BY <3>1, <3>2, <3>3, <1>2
  <2>4. Distinct(u)
    <3> DEFINE at(i) == IF i = 1 THEN n + 1 ELSE IF i <= n + 1 THEN i - 1 ELSE i
    <3>1. \A i \in 1 .. n + Len(t) : at(i) \in 1 .. n + Len(t) /\ u[i] = (q \o t)[at(i)]
        BY <1>1, <1>2, <2>3
    <3>2. \A i, j \in 1 .. n + Len(t) : at(i) = at(j) => i = j
        BY <1>1, <1>2
    <3> HIDE DEF at
    <3>3. ASSUME NEW i \in 1 .. n + Len(t), NEW j \in 1 .. n + Len(t), u[i] = u[j]
          PROVE  i = j
      <4>1. at(i) = at(j)
          BY <1>4, <3>1, <3>3
      <4> QED BY <3>2, <4>1
    <3> QED BY <2>2, <3>3 DEF Distinct
  <2> QED BY <2>2, <2>4, DistinctIsInjective DEF u, p
<1> QED BY <1>5, <1>6

----------------------------------------------------------------------------
(* The inductive invariant.                                                *)

\* Albums are being attempted only in the watch step, and the whole backlog,
\* with what is being attempted, fits the limit: a refused album finds room.
LoopShape ==
    /\ taken # <<>> => pc \in {"watch", "refused"}
    /\ pc = "refused" => taken # <<>>
    /\ Len(queue) + Len(taken) <= Limit

\* Before the baseline nothing has been seen or queued; after it, a folder that
\* has not changed since looks no newer than when it was last scanned.
Scanned ==
    /\ baseline => queue = <<>> /\ taken = <<>> /\ seen = [a \in Albums |-> 0]
    /\ ~baseline => \A a \in Albums \ stirred : seen[a] >= version[a]

IInv == SchedulerTypeOK /\ LoopShape /\ Scanned /\ BaselineIsQuiet /\ WatchRemembers

LEMMA InitIInv == Init => IInv
<1> SUFFICES ASSUME Init PROVE IInv
    OBVIOUS
<1> USE DEF Init
<1>1. \A s \in Starts : s.settings \in Settings /\ s.budget \in [EnvKinds -> Nat]
    OBVIOUS
<1>2. IsInjective(<<>> \o <<>>) /\ ToSet(<<>>) = {}
    BY DEF IsInjective, ToSet
<1>3. SchedulerTypeOK
    BY <1>1, <1>2 DEF SchedulerTypeOK
<1> QED BY <1>2, <1>3 DEF IInv, LoopShape, Scanned, BaselineIsQuiet, WatchRemembers

\* What enqueue makes of the backlog, whatever order the folders are scanned in.
LEMMA EnqueueKeeps ==
    ASSUME queue \in Seq(Albums), Len(queue) <= Limit, IsInjective(queue),
           NEW C \in SUBSET Albums, NEW order \in SetToSeqs(NotQueued(C))
    PROVE  LET q == Enqueue(order)
           IN  /\ q \in Seq(Albums) /\ Len(q) <= Limit /\ IsInjective(q)
               /\ ToSet(queue) \subseteq ToSet(q) /\ ToSet(q) \subseteq ToSet(queue) \cup C
<1> DEFINE new == NotQueued(C)
           room == Limit - Len(queue)
           n == IF Len(order) <= room THEN Len(order) ELSE room
           cut == SubSeq(order, 1, n)
           q == queue \o cut
<1>1. IsFiniteSet(new) /\ Cardinality(new) \in Nat /\ new \subseteq Albums
    BY FS_Subset, FS_CardinalityType DEF NotQueued
<1>2. /\ order \in [1 .. Cardinality(new) -> new]
      /\ \A i, j \in 1 .. Cardinality(new) : i # j => order[i] # order[j]
    BY DEF SetToSeqs
<1>3. order \in Seq(new) /\ Len(order) = Cardinality(new)
    BY <1>1, <1>2, SeqDef, LenProperties
<1>4. Len(queue) \in Nat /\ room \in Nat /\ n \in 0 .. Len(order)
    BY <1>1, <1>3, LenProperties
<1>5. /\ cut \in Seq(new) /\ Len(cut) = n
      /\ \A i \in 1 .. n : cut[i] = order[i]
    BY <1>1, <1>3, <1>4, SubSeqProperties
<1>6. cut \in Seq(Albums)
    BY <1>1, <1>5, <1>4, SeqDef
<1>7. ToSet(cut) \subseteq new
    BY <1>5 DEF ToSet
<1> HIDE DEF cut, n, room
<1>8. /\ q \in Seq(Albums) /\ Len(q) = Len(queue) + n
      /\ \A i \in 1 .. Len(queue) + n : q[i] = IF i <= Len(queue) THEN queue[i] ELSE cut[i - Len(queue)]
  <2>1. /\ q \in Seq(Albums) /\ Len(q) = Len(queue) + Len(cut)
        /\ \A i \in 1 .. Len(queue) + Len(cut) :
               q[i] = IF i <= Len(queue) THEN queue[i] ELSE cut[i - Len(queue)]
      BY <1>6, ConcatIndexed
  <2> HIDE DEF q
  <2> QED BY <1>5, <2>1
<1>9. Len(q) <= Limit
    BY <1>4, <1>8 DEF n, room
<1>10. ToSet(q) = ToSet(queue) \cup ToSet(cut)
    BY <1>6, ConcatToSet
<1>11. Distinct(q)
  <2>1. \A i \in 1 .. Len(queue) : queue[i] \in ToSet(queue)
      BY InToSet
  <2>2. \A i \in 1 .. n : cut[i] \notin ToSet(queue)
      BY <1>5, <1>7, InToSet DEF NotQueued
  <2>3. \A i, j \in 1 .. Len(queue) : queue[i] = queue[j] => i = j
      BY DistinctIsInjective DEF Distinct
  <2>4. \A i, j \in 1 .. n : cut[i] = cut[j] => i = j
      BY <1>2, <1>3, <1>4, <1>5
  <2> HIDE DEF q
  <2> SUFFICES ASSUME NEW i \in 1 .. Len(queue) + n, NEW j \in 1 .. Len(queue) + n, q[i] = q[j]
               PROVE  i = j
      BY <1>8 DEF Distinct
  <2>5. \A k \in 1 .. Len(queue) + n : ~(k <= Len(queue)) => k - Len(queue) \in 1 .. n
      BY <1>4
  <2> DEFINE l == Len(queue)
  <2>6. CASE i <= l /\ j <= l
      BY <1>4, <1>8, <2>3, <2>6
  <2>7. CASE i <= l /\ ~(j <= l)
    <3>1. i \in 1 .. l /\ j - l \in 1 .. n /\ q[i] = queue[i] /\ q[j] = cut[j - l]
        BY <1>4, <1>8, <2>5, <2>7
    <3> QED BY <2>1, <2>2, <3>1
  <2>8. CASE ~(i <= l) /\ j <= l
    <3>0. j \in 1 .. l /\ i - l \in 1 .. n
        BY <1>4, <2>5, <2>8
    <3>1. j \in 1 .. l /\ i - l \in 1 .. n /\ q[j] = queue[j] /\ q[i] = cut[i - l]
        BY <1>8, <2>8, <3>0
    <3> QED BY <2>1, <2>2, <3>1
  <2>9. CASE ~(i <= l) /\ ~(j <= l)
    <3>1. i - l \in 1 .. n /\ j - l \in 1 .. n /\ q[i] = cut[i - l] /\ q[j] = cut[j - l]
        BY <1>4, <1>8, <2>5, <2>9
    <3>2. i - l = j - l
        BY <2>4, <3>1
    <3> QED BY <1>4, <3>2
  <2> QED BY <2>6, <2>7, <2>8, <2>9
<1>12. q = Enqueue(order)
    BY DEF Enqueue, cut, n, room
<1> HIDE DEF q
<1> QED BY <1>7, <1>8, <1>9, <1>10, <1>11, <1>12, DistinctIsInjective DEF NotQueued

\* A run that is asked for leaves every pending row pending.
LEMMA RunForKeeps ==
    ASSUME SchedulerTypeOK, NEW S \in SUBSET Albums, RunFor(S)
    PROVE  /\ rows' \in [Albums -> {"idle", "pending", "running"}]
           /\ batch' \subseteq Albums /\ holder' \in {"free", "batch", "other"}
           /\ stored' \in Settings
           /\ Pending \subseteq Pending' /\ Fresh(S) \subseteq Pending'
<1>1. rows' \in [Albums -> {"idle", "pending", "running"}]
    BY DEF RunFor, Enqueued, SchedulerTypeOK
<1>2. Pending \subseteq Pending' /\ Fresh(S) \subseteq Pending'
    BY DEF RunFor, Enqueued, Fresh, Pending
<1> QED BY <1>1, <1>2 DEF RunFor, StartBatch, Launch, SchedulerTypeOK, Fresh

LEMMA SweepKeeps ==
    ASSUME SchedulerTypeOK, Sweep
    PROVE  /\ rows' \in [Albums -> {"idle", "pending", "running"}]
           /\ batch' \subseteq Albums /\ holder' \in {"free", "batch", "other"}
           /\ stored' \in Settings
           /\ Pending \subseteq Pending'
<1>1. CASE settings.enabled
    BY <1>1, RunForKeeps DEF Sweep, Existing
<1>2. CASE ~settings.enabled
    BY <1>2 DEF Sweep, lockVars, Pending, SchedulerTypeOK
<1> QED BY <1>1, <1>2

LEMMA SpendType ==
    ASSUME budget \in [EnvKinds -> Nat], NEW kind \in EnvKinds, Spend(kind)
    PROVE  budget' \in [EnvKinds -> Nat]
BY DEF Spend

\* A step that leaves the backlog, the scan and the folders alone, forgets no
\* pending row, and keeps its types, keeps the invariant.
LEMMA QuietStep ==
    ASSUME IInv,
           UNCHANGED <<seen, baseline, queue, taken, version, stirred, unread, owed, missed>>,
           Pending \subseteq Pending',
           taken = <<>> => pc' # "refused", taken # <<>> => pc' = pc,
           clock' \in Minutes, settings' \in Settings, stored' \in Settings,
           last' \in Minutes \cup {Never}, now' \in Minutes,
           pc' \in {"survey", "sleep", "pending", "due", "sweep", "watch", "refused"},
           rows' \in [Albums -> {"idle", "pending", "running"}], batch' \subseteq Albums,
           holder' \in {"free", "batch", "other"}, budget' \in [EnvKinds -> Nat]
    PROVE  IInv'
<1>1. SchedulerTypeOK'
    BY DEF IInv, SchedulerTypeOK
<1>2. LoopShape' /\ Scanned' /\ BaselineIsQuiet'
    BY DEF IInv, LoopShape, Scanned, BaselineIsQuiet
<1>3. WatchRemembers'
    BY DEF IInv, WatchRemembers
<1> QED BY <1>1, <1>2, <1>3 DEF IInv

\* The steps of the loop outside the watch step.
LEMMA PollStep ==
    ASSUME IInv, Startup \/ Wake \/ PollPending \/ Evaluate \/ RunSlot
    PROVE  IInv'
<1> USE DEF Free, ghosts, Moves
<1>0. SchedulerTypeOK /\ LoopShape
    BY DEF IInv
<1>1. CASE Startup
  <2>1. /\ rows' \in [Albums -> {"idle", "pending", "running"}]
        /\ batch' \subseteq Albums /\ holder' \in {"free", "batch", "other"}
        /\ stored' \in Settings /\ Pending \subseteq Pending'
    <3>1. CASE settings.enabled /\ Pending # {}
        BY <1>0, <1>1, <3>1 DEF Startup, StartBatch, Launch, Pending, SchedulerTypeOK
    <3>2. CASE ~(settings.enabled /\ Pending # {})
        BY <1>0, <1>1, <3>2, SweepKeeps DEF Startup
    <3> QED BY <3>1, <3>2
  <2> QED BY <1>0, <1>1, <2>1, QuietStep DEF Startup, SchedulerTypeOK, LoopShape
<1>2. CASE Wake
    BY <1>0, <1>2, QuietStep DEF Wake, lockVars, Pending, SchedulerTypeOK, LoopShape
<1>3. CASE PollPending
  <2>1. batch' \subseteq Albums /\ holder' \in {"free", "batch", "other"} /\ stored' \in Settings
      BY <1>0, <1>3 DEF PollPending, StartPending, StartBatch, Launch, Pending, SchedulerTypeOK
  <2>2. Pending' = Pending
      BY <1>3 DEF PollPending, Pending
  <2> QED BY <1>0, <1>3, <2>1, <2>2, QuietStep DEF PollPending, SchedulerTypeOK, LoopShape
<1>4. CASE Evaluate
  <2>1. Candidate \in 0 .. now => Candidate \in Minutes
      BY <1>0 DEF SchedulerTypeOK
  <2>2. last' \in Minutes \cup {Never} /\ pc' \in {"sweep", "watch"} /\ taken = <<>>
      BY <1>0, <1>4, <2>1 DEF Evaluate, IsDue, SchedulerTypeOK, LoopShape
  <2>3. Pending' = Pending
      BY <1>4 DEF Evaluate, lockVars, Pending
  <2> QED BY <1>0, <1>4, <2>2, <2>3, QuietStep DEF Evaluate, lockVars, SchedulerTypeOK
<1>5. CASE RunSlot
    BY <1>0, <1>5, SweepKeeps, QuietStep DEF RunSlot, SchedulerTypeOK, LoopShape
<1> QED BY <1>1, <1>2, <1>3, <1>4, <1>5

LEMMA EnvironmentStep ==
    ASSUME IInv,
           Tick \/ ClockSetBack \/ SetSettings \/ RunNow \/ OtherBegins \/ OtherEnds
    PROVE  IInv'
<1> USE DEF Free, ghosts, loopVars, lockVars
<1>0. SchedulerTypeOK /\ LoopShape
    BY DEF IInv
<1>1. CASE Tick
  <2>1. clock' \in Minutes
      BY <1>0, <1>1 DEF Tick, SchedulerTypeOK
  <2>2. budget' \in [EnvKinds -> Nat]
      BY <1>0, <1>1, SpendType DEF Tick, EnvKinds, SchedulerTypeOK
  <2>3. Pending' = Pending
      BY <1>1 DEF Tick, Pending
  <2> QED BY <1>0, <1>1, <2>1, <2>2, <2>3, QuietStep DEF Tick, SchedulerTypeOK, LoopShape
<1>2. CASE ClockSetBack
  <2>1. clock' \in Minutes
      BY <1>0, <1>2 DEF ClockSetBack, SchedulerTypeOK
  <2>2. budget' \in [EnvKinds -> Nat]
      BY <1>0, <1>2, SpendType DEF ClockSetBack, EnvKinds, SchedulerTypeOK
  <2>3. Pending' = Pending
      BY <1>2 DEF ClockSetBack, Pending
  <2> QED BY <1>0, <1>2, <2>1, <2>2, <2>3, QuietStep DEF ClockSetBack, SchedulerTypeOK, LoopShape
<1>3. CASE SetSettings
    BY <1>0, <1>3, SpendType, QuietStep DEF SetSettings, EnvKinds, Pending, SchedulerTypeOK, LoopShape
<1>4. CASE RunNow
    BY <1>0, <1>4, SweepKeeps, SpendType, QuietStep DEF RunNow, EnvKinds, SchedulerTypeOK, LoopShape
<1>5. CASE OtherBegins
    BY <1>0, <1>5, SpendType, QuietStep DEF OtherBegins, EnvKinds, Pending, SchedulerTypeOK, LoopShape
<1>6. CASE OtherEnds
    BY <1>0, <1>6, QuietStep DEF OtherEnds, Pending, SchedulerTypeOK, LoopShape
<1> QED BY <1>1, <1>2, <1>3, <1>4, <1>5, <1>6

\* A batch reads an album and settles it.
LEMMA BatchStep ==
    ASSUME IInv, NEW a \in Albums, Read(a) \/ Settle(a)
    PROVE  IInv'
<1> USE DEF Free, ghosts, loopVars
<1>0. SchedulerTypeOK /\ LoopShape
    BY DEF IInv
<1>1. CASE Read(a)
  <2>1. SchedulerTypeOK'
      BY <1>0, <1>1 DEF Read, SchedulerTypeOK
  <2>2. LoopShape' /\ Scanned' /\ BaselineIsQuiet'
      BY <1>1 DEF Read, IInv, LoopShape, Scanned, BaselineIsQuiet
  <2>3. Pending \subseteq Pending' \cup {a}
      BY <1>1 DEF Read, Pending, SchedulerTypeOK
  <2>4. WatchRemembers'
      BY <1>1, <2>3 DEF Read, IInv, WatchRemembers
  <2> QED BY <2>1, <2>2, <2>4 DEF IInv
<1>2. CASE Settle(a)
  <2>1. Pending \subseteq Pending'
      BY <1>0, <1>2 DEF Settle, Pending, SchedulerTypeOK
  <2>2. /\ rows' \in [Albums -> {"idle", "pending", "running"}] /\ batch' \subseteq Albums
        /\ holder' \in {"free", "batch", "other"} /\ stored' \in Settings
      BY <1>0, <1>2 DEF Settle, SchedulerTypeOK
  <2> QED BY <1>0, <1>2, <2>1, <2>2, QuietStep DEF Settle, SchedulerTypeOK, LoopShape
<1> QED BY <1>1, <1>2

\* The first scan after a restart or a switch finds nothing; a later one only
\* what changed since the baseline.
LEMMA ChangedIsStirred ==
    ASSUME IInv
    PROVE  Changed \subseteq Albums /\ (baseline => Changed = {}) /\ Changed \subseteq stirred
<1>1. Changed \subseteq Albums
    BY DEF Changed, Existing
<1>2. baseline => Changed = {}
  <2>1. \A a \in Existing : baseline => ~(seen[a] > 0)
      BY DEF IInv, Scanned, Existing
  <2> QED BY <2>1 DEF Changed
<1>3. ASSUME ~baseline, NEW a \in Changed PROVE a \in stirred
  <2>1. a \in Albums /\ version[a] \in Nat /\ seen[a] \in Nat /\ version[a] > 0
      BY <1>3 DEF IInv, SchedulerTypeOK, Changed, Existing
  <2>2. a \notin stirred => seen[a] >= version[a]
      BY <1>3, <2>1 DEF IInv, Scanned
  <2> QED BY <1>3, <2>1, <2>2 DEF Changed
<1>4. baseline \in BOOLEAN
    BY DEF IInv, SchedulerTypeOK
<1> QED BY <1>1, <1>2, <1>3, <1>4

LEMMA WatchStep ==
    ASSUME IInv, Watch
    PROVE  IInv'
<1>0. /\ SchedulerTypeOK /\ LoopShape /\ taken = <<>>
      /\ UNCHANGED <<clock, settings, stored, last, now, rows, batch, holder, version, unread,
                     missed, budget>>
    BY DEF IInv, Watch, Free, lockVars
<1>1. IsInjective(queue) /\ Len(queue) <= Limit /\ queue \in Seq(Albums)
  <2>1. queue \o <<>> = queue
      BY <1>0, ConcatEmptySeq DEF SchedulerTypeOK
  <2> QED BY <1>0, <2>1 DEF SchedulerTypeOK
<1>2. PICK order \in SetToSeqs(NotQueued(Changed)) : taken' = Enqueue(order)
    BY DEF Watch
<1>3. /\ taken' \in Seq(Albums) /\ Len(taken') <= Limit /\ IsInjective(taken')
      /\ ToSet(queue) \subseteq ToSet(taken') /\ ToSet(taken') \subseteq ToSet(queue) \cup Changed
    BY <1>1, <1>2, EnqueueKeeps, ChangedIsStirred
<1>4. queue' = <<>> /\ ToSet(<<>>) = {} /\ Len(<<>>) = 0
    BY DEF Watch, ToSet
<1>5. <<>> \o taken' = taken'
    BY <1>3, ConcatEmptySeq
<1>6. baseline => taken' = <<>>
  <2>1. ASSUME baseline PROVE ToSet(taken') = {}
      BY <1>3, <1>4, <2>1, ChangedIsStirred DEF IInv, Scanned
  <2>2. ASSUME taken' # <<>> PROVE taken'[1] \in ToSet(taken')
      BY <1>3, <2>2, EmptySeq, LenProperties, InToSet
  <2> QED BY <2>1, <2>2
<1>7. SchedulerTypeOK'
  <2>1. seen' \in [Albums -> Nat]
      BY <1>0 DEF Watch, SchedulerTypeOK
  <2>2. stirred' \subseteq Albums /\ owed' \subseteq Albums
      BY <1>0, ChangedIsStirred DEF Watch, SchedulerTypeOK
  <2>3. pc' \in {"sleep", "watch"} /\ baseline' \in BOOLEAN
      BY DEF Watch
  <2> QED BY <1>0, <1>3, <1>4, <1>5, <2>1, <2>2, <2>3 DEF SchedulerTypeOK
<1>8. LoopShape'
  <2>1. Len(taken') \in Nat /\ Len(queue') = 0
      BY <1>3, <1>4, LenProperties
  <2> QED BY <1>3, <2>1 DEF LoopShape, Watch
<1>9. Scanned'
  <2>1. \A a \in Albums : seen'[a] >= version'[a]
      BY <1>0 DEF Watch, Existing, SchedulerTypeOK
  <2> QED BY <2>1 DEF Scanned, Watch
<1>10. BaselineIsQuiet'
  <2>1. CASE baseline
      BY <1>4, <1>6, <2>1 DEF BaselineIsQuiet
  <2>2. CASE ~baseline
    <3>1. stirred' = stirred
        BY <2>2 DEF Watch
    <3> QED BY <1>3, <1>4, <3>1, ChangedIsStirred DEF BaselineIsQuiet, IInv
  <2> QED BY <2>1, <2>2
<1>11. WatchRemembers'
  <2>1. owed \subseteq ToSet(queue) \cup Pending
      BY <1>0, <1>4 DEF IInv, WatchRemembers
  <2>2. Pending' = Pending
      BY <1>0 DEF Pending
  <2> QED BY <1>3, <2>1, <2>2 DEF WatchRemembers, Watch
<1> QED BY <1>7, <1>8, <1>9, <1>10, <1>11 DEF IInv

\* Watching is switched off, or the process is replaced: nothing is remembered.
LEMMA ForgettingStep ==
    ASSUME IInv, StopWatching \/ Restart
    PROVE  IInv'
<1> USE DEF Free, lockVars
<1>0. SchedulerTypeOK /\ LoopShape /\ IsInjective(<<>> \o <<>>) /\ ToSet(<<>>) = {} /\ Len(<<>>) = 0
    BY DEF IInv, IsInjective, ToSet
<1>1. CASE StopWatching
  <2>1. SchedulerTypeOK'
      BY <1>0, <1>1 DEF StopWatching, Rearm, Moves, SchedulerTypeOK
  <2>2. LoopShape' /\ Scanned' /\ BaselineIsQuiet'
      BY <1>0, <1>1 DEF StopWatching, Rearm, Moves, LoopShape, Scanned, BaselineIsQuiet, SchedulerTypeOK
  <2>3. WatchRemembers'
      BY <1>1 DEF StopWatching, WatchRemembers, Pending
  <2> QED BY <2>1, <2>2, <2>3 DEF IInv
<1>2. CASE Restart
  <2>0. budget' \in [EnvKinds -> Nat]
      BY <1>0, <1>2, SpendType DEF Restart, EnvKinds, SchedulerTypeOK
  <2>1. SchedulerTypeOK'
      BY <1>0, <1>2, <2>0 DEF Restart, SchedulerTypeOK
  <2>2. LoopShape' /\ Scanned' /\ BaselineIsQuiet'
      BY <1>0, <1>2 DEF Restart, LoopShape, Scanned, BaselineIsQuiet, SchedulerTypeOK
  <2>3. WatchRemembers'
      BY <1>2 DEF Restart, WatchRemembers, Pending
  <2> QED BY <2>1, <2>2, <2>3 DEF IInv
<1> QED BY <1>1, <1>2

\* The attempt for one album: it starts, or is refused.
LEMMA AttemptStep ==
    ASSUME IInv, StartWatched \/ StartWatchedFails
    PROVE  IInv'
<1> DEFINE h == Head(taken)
<1> USE DEF Free, ghosts
<1>0. /\ SchedulerTypeOK /\ LoopShape /\ taken # <<>> /\ taken \in Seq(Albums) /\ queue \in Seq(Albums)
      /\ IsInjective(queue \o taken)
    BY DEF IInv, StartWatched, StartWatchedFails, SchedulerTypeOK
<1>1. /\ Tail(taken) \in Seq(Albums) /\ Len(Tail(taken)) = Len(taken) - 1 /\ h \in Albums
      /\ ToSet(taken) = {h} \cup ToSet(Tail(taken)) /\ Len(taken) \in Nat \ {0} /\ Len(queue) \in Nat
    BY <1>0, TailOfTaken, LenProperties, EmptySeq
<1>2. CASE StartWatched /\ ~StartsRun({h})
  <2>1. /\ rows' \in [Albums -> {"idle", "pending", "running"}]
        /\ batch' \subseteq Albums /\ holder' \in {"free", "batch", "other"}
        /\ stored' \in Settings /\ Pending \subseteq Pending'
      BY <1>0, <1>1, <1>2, RunForKeeps DEF StartWatched
  <2>2. /\ UNCHANGED <<clock, settings, last, now, seen, baseline, queue, taken, version, ghosts, budget>>
        /\ pc' = "refused"
      BY <1>2 DEF StartWatched
  <2>3. SchedulerTypeOK'
      BY <1>0, <2>1, <2>2 DEF SchedulerTypeOK
  <2>4. LoopShape' /\ Scanned' /\ BaselineIsQuiet' /\ WatchRemembers'
      BY <1>0, <2>1, <2>2 DEF IInv, LoopShape, Scanned, BaselineIsQuiet, WatchRemembers
  <2> QED BY <2>3, <2>4 DEF IInv
<1>3. CASE StartWatched /\ StartsRun({h})
  <2>1. /\ rows' \in [Albums -> {"idle", "pending", "running"}]
        /\ batch' \subseteq Albums /\ holder' \in {"free", "batch", "other"}
        /\ stored' \in Settings /\ Pending \subseteq Pending' /\ Fresh({h}) \subseteq Pending'
      BY <1>0, <1>1, <1>3, RunForKeeps DEF StartWatched
  <2>2. h \in Pending'
      BY <1>3, <2>1 DEF StartsRun, Fresh
  <2>3. /\ UNCHANGED <<clock, settings, last, now, seen, baseline, queue, version, ghosts, budget>>
        /\ taken' = Tail(taken) /\ pc' = IF Len(taken) = 1 THEN "sleep" ELSE "watch"
      BY <1>3 DEF StartWatched, NextTaken
  <2>4. IsInjective(queue \o Tail(taken))
      BY <1>0, DistinctAfterTail
  <2>5. SchedulerTypeOK'
      BY <1>0, <1>1, <2>1, <2>3, <2>4 DEF SchedulerTypeOK
  <2>6. LoopShape'
    <3>1. Len(taken) = 1 => Tail(taken) = <<>>
      <4> DEFINE t == Tail(taken)
      <4>1. t \in Seq(Albums) /\ Len(t) = Len(taken) - 1
          BY <1>1
      <4> HIDE DEF t
      <4>2. Len(taken) = 1 => t = <<>>
          BY <1>1, <4>1, EmptySeq
      <4> QED BY <4>2 DEF t
    <3>2. Len(queue) + Len(Tail(taken)) <= Limit
        BY <1>0, <1>1 DEF LoopShape
    <3> QED BY <2>3, <3>1, <3>2 DEF LoopShape
  <2>7. Scanned' /\ BaselineIsQuiet'
      BY <1>0, <1>1, <2>3 DEF IInv, Scanned, BaselineIsQuiet
  <2>8. WatchRemembers'
      BY <1>1, <2>1, <2>2, <2>3 DEF IInv, WatchRemembers
  <2> QED BY <2>5, <2>6, <2>7, <2>8 DEF IInv
<1>4. CASE StartWatchedFails
  <2>1. /\ rows' \in [Albums -> {"idle", "pending", "running"}] /\ Pending \subseteq Pending'
      BY <1>0, <1>4 DEF StartWatchedFails, Enqueued, Fresh, Pending, SchedulerTypeOK
  <2>2. budget' \in [EnvKinds -> Nat]
      BY <1>0, <1>4, SpendType DEF StartWatchedFails, EnvKinds, SchedulerTypeOK
  <2>3. /\ UNCHANGED <<clock, settings, stored, last, now, seen, baseline, queue, taken, batch, holder,
                       version, ghosts>>
        /\ pc' = "refused"
      BY <1>4 DEF StartWatchedFails
  <2>4. SchedulerTypeOK'
      BY <1>0, <2>1, <2>2, <2>3 DEF SchedulerTypeOK
  <2>5. LoopShape' /\ Scanned' /\ BaselineIsQuiet' /\ WatchRemembers'
      BY <1>0, <2>1, <2>3 DEF IInv, LoopShape, Scanned, BaselineIsQuiet, WatchRemembers
  <2> QED BY <2>4, <2>5 DEF IInv
<1> QED BY <1>2, <1>3, <1>4

\* What is done with a refused album.
LEMMA RefusedStep ==
    ASSUME IInv, Refused
    PROVE  IInv'
<1> DEFINE h == Head(taken)
           t == Tail(taken)
<1>0. /\ SchedulerTypeOK /\ LoopShape /\ taken # <<>> /\ taken \in Seq(Albums) /\ queue \in Seq(Albums)
      /\ IsInjective(queue \o taken)
      /\ UNCHANGED <<clock, settings, stored, last, now, seen, baseline, rows, batch, holder, version,
                     stirred, unread, budget>>
      /\ taken' = t /\ pc' = IF Len(taken) = 1 THEN "sleep" ELSE "watch"
    BY DEF IInv, Refused, LoopShape, SchedulerTypeOK, NextTaken, Free, lockVars
<1>1. /\ t \in Seq(Albums) /\ Len(t) = Len(taken) - 1 /\ h \in Albums
      /\ ToSet(taken) = {h} \cup ToSet(t) /\ Len(taken) \in Nat \ {0} /\ Len(queue) \in Nat
    BY <1>0, TailOfTaken, LenProperties, EmptySeq
<1>2. IsInjective(queue \o t) /\ IsInjective((<<h>> \o queue) \o t)
    BY <1>0, DistinctAfterTail
<1>3. /\ <<h>> \o queue \in Seq(Albums) /\ Len(<<h>> \o queue) = Len(queue) + 1
      /\ ToSet(<<h>> \o queue) = {h} \cup ToSet(queue)
  <2>1. <<h>> \in Seq(Albums) /\ Len(<<h>>) = 1 /\ ToSet(<<h>>) = {h}
      BY <1>1 DEF ToSet
  <2>2. \A p, q \in Seq(Albums) :
            /\ p \o q \in Seq(Albums) /\ Len(p \o q) = Len(p) + Len(q)
            /\ ToSet(p \o q) = ToSet(p) \cup ToSet(q)
      BY ConcatToSet
  <2> DEFINE p == <<h>>
  <2>3. p \in Seq(Albums) /\ Len(p) = 1 /\ ToSet(p) = {h} /\ queue \in Seq(Albums)
      BY <1>0, <2>1
  <2> HIDE DEF p
  <2>4. /\ p \o queue \in Seq(Albums) /\ Len(p \o queue) = Len(p) + Len(queue)
        /\ ToSet(p \o queue) = ToSet(p) \cup ToSet(queue)
      BY <2>2, <2>3
  <2> QED BY <1>1, <2>3, <2>4 DEF p
<1> HIDE DEF h, t
<1>4. \/ queue' = queue /\ (rows[h] # "idle" \/ h \in ToSet(queue))
      \/ queue' = <<h>> \o queue
  <2>1. Contains(queue, h) <=> h \in ToSet(queue)
      BY <1>0 DEF Contains, ToSet
  <2> QED BY <2>1 DEF Refused, Requeue, Active, h
<1>5. /\ queue' \in Seq(Albums) /\ Len(queue') \in Nat /\ Len(queue') <= Len(queue) + 1
      /\ IsInjective(queue' \o t)
      /\ ToSet(queue) \subseteq ToSet(queue') /\ ToSet(queue') \subseteq ToSet(queue) \cup {h}
  <2>1. CASE queue' = queue
      BY <1>0, <1>1, <1>2, <2>1
  <2>2. CASE queue' = <<h>> \o queue
    <3> DEFINE p == <<h>> \o queue
    <3>1. /\ p \in Seq(Albums) /\ Len(p) = Len(queue) + 1 /\ ToSet(p) = {h} \cup ToSet(queue)
          /\ IsInjective(p \o t) /\ queue' = p
        BY <1>2, <1>3, <2>2
    <3> HIDE DEF p
    <3> QED BY <1>1, <3>1
  <2> QED BY <1>4, <2>1, <2>2
<1>6. /\ owed' \subseteq owed /\ missed' \subseteq Albums
      /\ h \in owed' => rows[h] # "running"
    BY <1>0, <1>1 DEF Refused, SchedulerTypeOK, h
<1>room. /\ Len(queue') + Len(t) <= Limit
         /\ Len(queue') <= Limit /\ Len(t) <= Limit
  <2>1. Len(queue) + Len(taken) <= Limit /\ Limit \in Nat
      BY <1>0, SchedulerAssumption DEF LoopShape
  <2>2. Len(taken) = Len(t) + 1 /\ Len(t) \in Nat
      BY <1>1, LenProperties
  <2> QED BY <1>1, <1>5, <2>1, <2>2
<1>7. LoopShape'
  <2>1. Len(taken) = 1 => t = <<>>
      BY <1>1, EmptySeq
  <2> QED BY <1>0, <1>room, <2>1 DEF LoopShape
<1>8. SchedulerTypeOK'
  <2>1. Len(queue') <= Limit /\ Len(t) <= Limit
      BY <1>room
  <2> QED BY <1>0, <1>1, <1>5, <1>6, <2>1 DEF SchedulerTypeOK
<1>9. Scanned' /\ BaselineIsQuiet'
    BY <1>0, <1>1, <1>5 DEF IInv, Scanned, BaselineIsQuiet
<1>10. WatchRemembers'
  <2>1. owed' \subseteq ToSet(queue) \cup {h} \cup ToSet(t) \cup Pending
      BY <1>1, <1>6 DEF IInv, WatchRemembers
  <2>2. h \in owed' => h \in ToSet(queue') \cup Pending
    <3>1. rows[h] \in {"idle", "pending", "running"}
        BY <1>0, <1>1 DEF SchedulerTypeOK
    <3> QED BY <1>1, <1>3, <1>4, <1>5, <1>6, <3>1 DEF Pending
  <2>3. Pending' = Pending
      BY <1>0 DEF Pending
  <2> QED BY <1>0, <1>5, <2>1, <2>2, <2>3 DEF WatchRemembers
<1> QED BY <1>7, <1>8, <1>9, <1>10 DEF IInv

\* Music is added to a folder.
LEMMA ChangeStep ==
    ASSUME IInv, NEW a \in Albums, Change(a)
    PROVE  IInv'
<1> USE DEF loopVars, lockVars
<1>0. SchedulerTypeOK /\ budget' \in [EnvKinds -> Nat]
    BY SpendType DEF IInv, Change, EnvKinds, SchedulerTypeOK
<1>1. SchedulerTypeOK'
    BY <1>0 DEF Change, SchedulerTypeOK
<1>2. LoopShape' /\ BaselineIsQuiet' /\ WatchRemembers'
    BY DEF IInv, Change, LoopShape, BaselineIsQuiet, WatchRemembers, Pending
<1>3. Scanned'
    BY <1>0 DEF IInv, Change, Scanned, SchedulerTypeOK
<1> QED BY <1>1, <1>2, <1>3 DEF IInv

LEMMA NextIInv == IInv /\ [Next]_vars => IInv'
<1> SUFFICES ASSUME IInv, [Next]_vars PROVE IInv'
    OBVIOUS
<1>1. CASE UNCHANGED vars
  <2>1. Pending' = Pending
      BY <1>1 DEF vars, lockVars, Pending
  <2> QED BY <1>1, <2>1, QuietStep DEF vars, lockVars, loopVars, ghosts, IInv, SchedulerTypeOK, LoopShape
<1>2. CASE Loop
    BY <1>2, PollStep, WatchStep, ForgettingStep, AttemptStep, RefusedStep DEF Loop
<1>3. CASE Batch
    BY <1>3, BatchStep DEF Batch
<1>4. CASE Environment
    BY <1>4, EnvironmentStep, ForgettingStep, AttemptStep, ChangeStep DEF Environment
<1> QED BY <1>1, <1>2, <1>3, <1>4 DEF Next

LEMMA SpecIInv == Spec => []IInv
BY InitIInv, NextIInv, PTL DEF Spec

\* The scheduler's variables keep their types and the backlog of watched albums
\* is within its limit and without duplicates, requeued albums included.
THEOREM SchedulerTypes == Spec => []SchedulerTypeOK
BY SpecIInv, PTL DEF IInv

\* Whatever else happens, watching queues only what changed after its baseline.
THEOREM WatchingStartsQuiet == Spec => []BaselineIsQuiet
BY SpecIInv, PTL DEF IInv

\* Busy locks, failed inserts, restarts and switches lose no queued album: until
\* a batch reads it, it is in the queue or in a pending row.
THEOREM QueuedAlbumsAreRemembered == Spec => []WatchRemembers
BY SpecIInv, PTL DEF IInv

----------------------------------------------------------------------------
(* Crontab arithmetic.                                                     *)

LEMMA Division ==
    ASSUME NEW t \in Nat, NEW k \in Nat \ {0}
    PROVE  /\ t \div k \in Nat /\ t % k \in 0 .. k - 1
           /\ t = (t \div k) * k + (t % k)
<1>1. t \div k \in Nat
  OBVIOUS
<1>2. t % k \in 0 .. k - 1
  OBVIOUS
<1>3. t = (t \div k) * k + (t % k)
  OBVIOUS
<1> QED
  BY <1>1, <1>2, <1>3

LEMMA DivisionTwice ==
    ASSUME NEW t \in Nat, NEW k \in Nat \ {0}, NEW h \in Nat \ {0}
    PROVE  t \div (h * k) = (t \div k) \div h
  OBVIOUS

LEMMA Distributes ==
    ASSUME NEW a \in Nat, NEW b \in Nat, NEW h \in Nat, NEW k \in Nat
    PROVE  (a * h + b) * k = a * (h * k) + b * k
  OBVIOUS

LEMMA Units == HoursPerDay \in Nat \ {0} /\ MinutesPerHour \in Nat \ {0}
  BY SchedulerAssumption

\* A set of numbers has a least one.
LEMMA LeastIs ==
    ASSUME NEW S \in SUBSET Nat, S # {}
    PROVE  Least(S) \in S /\ \A y \in S : Least(S) <= y
<1> DEFINE R == {ss \in Nat \X Nat : ss[1] < ss[2]}
<1>1. IsWellFoundedOn(R, Nat)
  BY NatLessThanWellFounded DEF OpToRel
<1>2. \A x, y \in Nat : x < y => <<x, y>> \in R
  OBVIOUS
<1> HIDE DEF R
<1>3. PICK x \in S : \A y \in S : ~(<<y, x>> \in R)
  BY <1>1, WFMin
<1>4. ASSUME NEW y \in S PROVE x <= y
  <2>1. x \in Nat /\ y \in Nat
    OBVIOUS
  <2>2. y < x => <<y, x>> \in R
    BY <1>2, <2>1
  <2>3. ~(<<y, x>> \in R)
    BY <1>3
  <2>4. ~(y < x)
    BY <2>2, <2>3
  <2> QED
    BY <2>1, <2>4
<1> QED
  BY <1>4 DEF Least

LEMMA NextValueIs ==
    ASSUME NEW values \in SUBSET Nat, NEW floor \in Nat
    PROVE  \/ /\ NextValue(values, floor) \in values /\ NextValue(values, floor) >= floor
              /\ NextValue(values, floor) # Never
              /\ \A v \in values : v >= floor => v >= NextValue(values, floor)
           \/ /\ NextValue(values, floor) = Never
              /\ \A v \in values : v < floor
<1> DEFINE reached == {v \in values : v >= floor}
<1>1. CASE reached = {}
  BY <1>1 DEF NextValue
<1>2. CASE reached # {}
  <2>1. reached \in SUBSET Nat /\ NextValue(values, floor) = Least(reached)
    BY <1>2 DEF NextValue
  <2>2. Least(reached) \in reached /\ \A y \in reached : Least(reached) <= y
    <3> HIDE DEF reached
    <3> QED
      BY <1>2, <2>1, LeastIs
  <2>3. /\ Least(reached) \in values /\ Least(reached) >= floor /\ Least(reached) \in Nat
        /\ \A v \in values : v >= floor => v >= Least(reached)
    BY <2>2
  <2> HIDE DEF reached
  <2>4. NextValue(values, floor) = Least(reached)
    BY <2>1
  <2>5. Least(reached) # Never
    <3>1. Least(reached) \in Nat
      BY <2>3
    <3>2. \A n \in Nat : n # Never
      BY DEF Never
    <3> QED
      BY <3>1, <3>2
  <2> HIDE DEF Never
  <2> QED
    BY <2>3, <2>4, <2>5
<1> QED
  BY <1>1, <1>2

HourOK(h) == h \in 0 .. HoursPerDay - 1
MinuteOK(m) == m \in 0 .. MinutesPerHour - 1

\* A minute is the day, the hour and the minute it is read as.
LEMMA Reading ==
    ASSUME NEW t \in Nat
    PROVE  /\ Day(t) \in Nat /\ HourOK(Hour(t)) /\ MinuteOK(Minute(t))
           /\ t = At(Day(t), Hour(t), Minute(t))
<1> DEFINE h == t \div MinutesPerHour
<1>1. h \in Nat /\ Minute(t) \in 0 .. MinutesPerHour - 1 /\ t = h * MinutesPerHour + Minute(t)
  BY Division, Units DEF Minute
<1>2. /\ h \div HoursPerDay \in Nat /\ Hour(t) \in 0 .. HoursPerDay - 1
      /\ h = (h \div HoursPerDay) * HoursPerDay + Hour(t)
  <2> HIDE DEF h
  <2>1. Hour(t) = h % HoursPerDay
    BY DEF Hour, h
  <2>2. /\ h \div HoursPerDay \in Nat /\ h % HoursPerDay \in 0 .. HoursPerDay - 1
        /\ h = (h \div HoursPerDay) * HoursPerDay + (h % HoursPerDay)
    <3> DEFINE k == HoursPerDay
    <3>1. h \in Nat /\ k \in Nat \ {0}
      BY <1>1, Units
    <3> HIDE DEF k
    <3>2. /\ h \div k \in Nat /\ h % k \in 0 .. k - 1
          /\ h = (h \div k) * k + (h % k)
      BY <3>1, Division
    <3> QED
      BY <3>2 DEF k
  <2> QED
    BY <2>1, <2>2
<1>3. Day(t) = h \div HoursPerDay
  BY DivisionTwice, Units DEF Day, MinutesPerDay
<1>4. h * MinutesPerHour = Day(t) * MinutesPerDay + Hour(t) * MinutesPerHour
  <2> HIDE DEF h
  <2>1. Day(t) \in Nat /\ Hour(t) \in Nat /\ h = Day(t) * HoursPerDay + Hour(t)
    BY <1>2, <1>3
  <2>2. \A d, i \in Nat : (d * HoursPerDay + i) * MinutesPerHour
                             = d * (HoursPerDay * MinutesPerHour) + i * MinutesPerHour
    BY Distributes, Units
  <2> QED
    BY <2>1, <2>2 DEF MinutesPerDay
<1> HIDE DEF h
<1> QED
  BY <1>1, <1>2, <1>3, <1>4 DEF At, HourOK, MinuteOK

\* Minutes are ordered as their days, hours and minutes are.
LEMMA AtOrder ==
    ASSUME NEW d \in Nat, NEW h, NEW m, NEW e \in Nat, NEW i, NEW n,
           HourOK(h), HourOK(i), MinuteOK(m), MinuteOK(n)
    PROVE  /\ At(d, h, m) \in Nat /\ At(e, i, n) \in Nat
           /\ d < e => At(d, h, m) < At(e, i, n)
           /\ d = e /\ h < i => At(d, h, m) < At(e, i, n)
           /\ d = e /\ h = i /\ m < n => At(d, h, m) < At(e, i, n)
<1> DEFINE H == HoursPerDay
           M == MinutesPerHour
<1>1. /\ H \in Nat \ {0} /\ M \in Nat \ {0} /\ h \in Nat /\ i \in Nat /\ m \in Nat /\ n \in Nat
      /\ h + 1 <= H /\ m < M
  BY Units DEF HourOK, MinuteOK
<1> HIDE DEF H, M
<1>2. /\ At(d, h, m) = (d * H + h) * M + m
      /\ At(e, i, n) = (e * H + i) * M + n
  BY <1>1 DEF At, MinutesPerDay, H, M
<1>3. d * H + h \in Nat /\ e * H + i \in Nat
  BY <1>1
<1>4. \A a, b \in Nat : a < b => a * M + m < b * M + n
  BY <1>1
<1>5. d < e => d * H + h < e * H + i
  BY <1>1
<1>6. \A a \in Nat : a * M \in Nat
  BY <1>1
<1> QED
  BY <1>1, <1>2, <1>3, <1>4, <1>5, <1>6

\* What is read from a minute is what it was made of.
LEMMA AtIsRead ==
    ASSUME NEW d \in Nat, NEW h, NEW m, HourOK(h), MinuteOK(m)
    PROVE  /\ At(d, h, m) \in Nat
           /\ Day(At(d, h, m)) = d /\ Hour(At(d, h, m)) = h /\ Minute(At(d, h, m)) = m
<1> DEFINE t == At(d, h, m)
<1>1. t \in Nat
  BY AtOrder
<1> HIDE DEF t
<1>2. /\ Day(t) \in Nat /\ HourOK(Hour(t)) /\ MinuteOK(Minute(t))
      /\ t = At(Day(t), Hour(t), Minute(t))
  BY <1>1, Reading
<1>3. /\ h \in Nat /\ m \in Nat /\ Hour(t) \in Nat /\ Minute(t) \in Nat
  BY <1>2 DEF HourOK, MinuteOK
<1>4. ~(t < t)
  BY <1>1
<1>5. Day(t) = d
  BY <1>2, <1>4, AtOrder DEF t
<1>6. Hour(t) = h
  BY <1>2, <1>3, <1>4, <1>5, AtOrder DEF t
<1>7. Minute(t) = m
  BY <1>2, <1>3, <1>4, <1>5, <1>6, AtOrder DEF t
<1> QED
  BY <1>1, <1>5, <1>6, <1>7 DEF t

\* What a crontab matches.
Matches(s, t) == Day(t) \in s.days /\ Hour(t) \in s.hours /\ Minute(t) \in s.minutes

LEMMA Crontabs ==
    ASSUME NEW s \in Schedules
    PROVE  /\ s.days \in SUBSET Nat
           /\ s.hours \in SUBSET Nat /\ s.hours # {} /\ \A h \in s.hours : HourOK(h)
           /\ s.minutes \in SUBSET Nat /\ s.minutes # {} /\ \A m \in s.minutes : MinuteOK(m)
<1>1. /\ s.days \subseteq Nat
      /\ s.hours \in (SUBSET (0 .. HoursPerDay - 1)) \ {{}}
      /\ s.minutes \in (SUBSET (0 .. MinutesPerHour - 1)) \ {{}}
  BY SchedulerAssumption
<1> QED
  BY <1>1, Units DEF HourOK, MinuteOK

\* Two minutes, compared by what is read from them.
LEMMA ReadOrder ==
    ASSUME NEW t \in Nat, NEW u \in Nat
    PROVE  /\ Day(t) < Day(u) => t < u
           /\ Day(t) = Day(u) /\ Hour(t) < Hour(u) => t < u
           /\ Day(t) = Day(u) /\ Hour(t) = Hour(u) /\ Minute(t) < Minute(u) => t < u
           /\ Day(t) = Day(u) /\ Hour(t) = Hour(u) /\ Minute(t) = Minute(u) => t = u
<1>1. /\ Day(t) \in Nat /\ HourOK(Hour(t)) /\ MinuteOK(Minute(t))
      /\ t = At(Day(t), Hour(t), Minute(t))
  BY Reading
<1>2. /\ Day(u) \in Nat /\ HourOK(Hour(u)) /\ MinuteOK(Minute(u))
      /\ u = At(Day(u), Hour(u), Minute(u))
  BY Reading
<1> QED
  BY <1>1, <1>2, AtOrder

\* One matching date: the first minute of it that matches and is not before the start.
LEMMA SlotOnIs ==
    ASSUME NEW s \in Schedules, NEW start \in Nat, NEW day \in s.days, day >= Day(start)
    PROVE  LET slot == SlotOn(s, day, start)
           IN  \/ /\ slot \in Nat /\ Day(slot) = day /\ Matches(s, slot) /\ start <= slot
                  /\ \A t \in Nat : Day(t) = day /\ Matches(s, t) /\ start <= t => slot <= t
               \/ /\ slot = Never
                  /\ \A t \in Nat : ~(Day(t) = day /\ Matches(s, t) /\ start <= t)
<1> DEFINE today == day = Day(start)
           from == IF today THEN Hour(start) ELSE 0
           hour == NextValue(s.hours, from)
           floor == IF today /\ hour = Hour(start) THEN Minute(start) ELSE 0
           minute == NextValue(s.minutes, floor)
           later == NextValue(s.hours, hour + 1)
           first == Least(s.minutes)
           slot == SlotOn(s, day, start)
<1>1. /\ s.days \in SUBSET Nat /\ day \in Nat
      /\ s.hours \in SUBSET Nat /\ \A h \in s.hours : HourOK(h)
      /\ s.minutes \in SUBSET Nat /\ s.minutes # {} /\ \A m \in s.minutes : MinuteOK(m)
  BY Crontabs
<1>2. /\ Day(start) \in Nat /\ HourOK(Hour(start)) /\ MinuteOK(Minute(start))
      /\ Hour(start) \in Nat /\ Minute(start) \in Nat /\ from \in Nat /\ floor \in Nat
  BY Reading DEF HourOK, MinuteOK
<1>3. slot = IF hour = Never THEN Never
             ELSE IF minute # Never THEN At(day, hour, minute)
             ELSE IF later # Never THEN At(day, later, first) ELSE Never
  BY DEF SlotOn
<1>4. \/ /\ hour \in s.hours /\ hour >= from /\ hour # Never
         /\ \A v \in s.hours : v >= from => v >= hour
      \/ hour = Never /\ \A v \in s.hours : v < from
  BY <1>1, <1>2, NextValueIs
<1>5. \/ /\ minute \in s.minutes /\ minute >= floor /\ minute # Never
         /\ \A v \in s.minutes : v >= floor => v >= minute
      \/ minute = Never /\ \A v \in s.minutes : v < floor
  BY <1>1, <1>2, NextValueIs
<1>6. first \in s.minutes /\ \A v \in s.minutes : first <= v
  BY <1>1, LeastIs
\* A minute that matches on this date and is not before the start.
<1>7. ASSUME NEW t \in Nat, Day(t) = day, Matches(s, t), start <= t
      PROVE  /\ Hour(t) \in s.hours /\ Minute(t) \in s.minutes
             /\ Hour(t) \in Nat /\ Minute(t) \in Nat /\ Hour(t) >= from
             /\ hour \in Nat /\ Hour(t) >= hour
             /\ Hour(t) = hour => Minute(t) >= floor
  <2>1. Hour(t) \in s.hours /\ Minute(t) \in s.minutes /\ Hour(t) \in Nat /\ Minute(t) \in Nat
    BY <1>1, <1>7 DEF Matches
  <2>2. Hour(t) >= from
    BY <1>2, <1>7, <2>1, ReadOrder
  <2>3. hour \in s.hours /\ Hour(t) >= hour
    BY <1>1, <1>2, <1>4, <2>1, <2>2
  <2>4. Hour(t) = hour => Minute(t) >= floor
    BY <1>2, <1>7, <2>1, ReadOrder
  <2> QED
    BY <1>1, <2>1, <2>2, <2>3, <2>4
<1> HIDE DEF hour, minute, later, first, slot, floor, from
<1>8. CASE hour = Never
  <2>1. \A t \in Nat : ~(Day(t) = day /\ Matches(s, t) /\ start <= t)
    BY <1>7, <1>8 DEF Never
  <2> QED
    BY <1>3, <1>8, <2>1 DEF slot
<1>9. CASE hour # Never /\ minute # Never
  <2>1. /\ slot = At(day, hour, minute) /\ hour \in s.hours /\ minute \in s.minutes
        /\ hour \in Nat /\ minute \in Nat /\ HourOK(hour) /\ MinuteOK(minute)
    BY <1>1, <1>3, <1>4, <1>5, <1>9
  <2>2. slot \in Nat /\ Day(slot) = day /\ Hour(slot) = hour /\ Minute(slot) = minute
    BY <1>1, <2>1, AtIsRead
  <2>3. Matches(s, slot)
    BY <2>1, <2>2 DEF Matches
  <2>4. start <= slot
    <3>1. CASE Day(start) < day
      BY <2>2, <3>1, ReadOrder
    <3>2. CASE Day(start) = day
      <4>1. from = Hour(start) /\ hour >= Hour(start)
        BY <1>4, <1>9, <3>2 DEF from
      <4>2. hour = Hour(start) => minute >= Minute(start)
        BY <1>5, <1>9, <3>2 DEF floor
      <4>3. ~(slot < start)
        BY <1>2, <2>1, <2>2, <3>2, <4>1, <4>2, ReadOrder
      <4> QED
        BY <2>2, <4>3
    <3> QED
      BY <1>1, <1>2, <3>1, <3>2
  <2>5. ASSUME NEW t \in Nat, Day(t) = day, Matches(s, t), start <= t PROVE slot <= t
    <3>1. /\ Hour(t) \in Nat /\ Minute(t) \in s.minutes /\ Minute(t) \in Nat
          /\ Hour(t) >= hour /\ (Hour(t) = hour => Minute(t) >= floor)
      BY <1>7, <2>5
    <3>2. CASE Hour(t) > hour
      BY <2>1, <2>2, <2>5, <3>1, <3>2, ReadOrder
    <3>3. CASE Hour(t) = hour
      <4>1. Minute(t) >= minute
        BY <1>5, <1>9, <3>1, <3>3
      <4> QED
        BY <2>1, <2>2, <2>5, <3>1, <3>3, <4>1, ReadOrder
    <3> QED
      BY <2>1, <3>1, <3>2, <3>3
  <2> QED
    BY <2>2, <2>3, <2>4, <2>5 DEF slot
<1>10. CASE hour # Never /\ minute = Never
  <2>1. hour \in s.hours /\ hour \in Nat /\ hour + 1 \in Nat
    BY <1>1, <1>4, <1>10
  <2>2. \/ /\ later \in s.hours /\ later >= hour + 1 /\ later # Never
           /\ \A v \in s.hours : v >= hour + 1 => v >= later
        \/ later = Never /\ \A v \in s.hours : v < hour + 1
    BY <1>1, <2>1, NextValueIs DEF later
  <2>3. ASSUME NEW t \in Nat, Day(t) = day, Matches(s, t), start <= t
        PROVE  /\ Hour(t) \in s.hours /\ Hour(t) \in Nat /\ Hour(t) >= hour + 1
               /\ Minute(t) \in s.minutes /\ Minute(t) \in Nat
    <3>1. /\ Hour(t) \in s.hours /\ Hour(t) \in Nat /\ Hour(t) >= hour
          /\ Minute(t) \in s.minutes /\ Minute(t) \in Nat
          /\ (Hour(t) = hour => Minute(t) >= floor)
      BY <1>7, <2>3
    <3>2. Minute(t) < floor /\ floor \in Nat
      BY <1>2, <1>5, <1>10, <3>1 DEF floor
    <3> QED
      BY <2>1, <3>1, <3>2
  <2>4. CASE later = Never
    <3>1. \A t \in Nat : ~(Day(t) = day /\ Matches(s, t) /\ start <= t)
      BY <2>1, <2>2, <2>3, <2>4
    <3> QED
      BY <1>3, <1>10, <2>4, <3>1 DEF slot
  <2>5. CASE later # Never
    <3>1. /\ slot = At(day, later, first) /\ later \in s.hours /\ first \in s.minutes
          /\ later \in Nat /\ first \in Nat /\ HourOK(later) /\ MinuteOK(first)
      BY <1>1, <1>3, <1>6, <1>10, <2>2, <2>5
    <3>2. slot \in Nat /\ Day(slot) = day /\ Hour(slot) = later /\ Minute(slot) = first
      BY <1>1, <3>1, AtIsRead
    <3>3. Matches(s, slot)
      BY <3>1, <3>2 DEF Matches
    <3>4. start <= slot
      <4>1. Day(start) < day \/ (Day(start) = day /\ Hour(start) < later)
        <5>1. later >= hour + 1
          BY <2>2, <2>5
        <5>2. Day(start) = day => hour >= Hour(start)
          BY <1>4, <1>10 DEF from
        <5> QED
          BY <1>1, <1>2, <2>1, <3>1, <5>1, <5>2
      <4>2. ~(slot < start)
        BY <1>2, <3>2, <4>1, ReadOrder
      <4> QED
        BY <3>2, <4>2
    <3>5. ASSUME NEW t \in Nat, Day(t) = day, Matches(s, t), start <= t PROVE slot <= t
      <4>1. /\ Hour(t) \in Nat /\ Minute(t) \in Nat /\ Hour(t) >= later
            /\ Minute(t) >= first
        BY <1>6, <2>2, <2>3, <2>5, <3>1, <3>5
      <4> QED
        BY <3>1, <3>2, <3>5, <4>1, ReadOrder
    <3> QED
      BY <3>2, <3>3, <3>4, <3>5 DEF slot
  <2> QED
    BY <2>4, <2>5
<1> QED
  BY <1>8, <1>9, <1>10

LEMMA NextAfterIs ==
    ASSUME NEW s \in Schedules, NEW from \in Nat \cup {-1}
    PROVE  LET slot == NextAfter(s, from)
           IN  slot # Never => /\ slot \in Nat /\ Matches(s, slot) /\ from < slot
                               /\ \A t \in Nat : Matches(s, t) /\ from < t => slot <= t
<1> DEFINE start == from + 1
           Fits(d) == d >= Day(start) /\ SlotOn(s, d, start) # Never
           days == {d \in s.days : Fits(d)}
           first == Least(days)
           slot == NextAfter(s, from)
<1>1. start \in Nat /\ Day(start) \in Nat /\ s.days \in SUBSET Nat
  BY Reading, Crontabs
<1>2. slot = IF days = {} THEN Never ELSE SlotOn(s, first, start)
  BY DEF NextAfter
<1> HIDE DEF start, slot
<1> SUFFICES ASSUME slot # Never
             PROVE  /\ slot \in Nat /\ Matches(s, slot) /\ from < slot
                    /\ \A t \in Nat : Matches(s, t) /\ from < t => slot <= t
  BY DEF slot
<1>3. days # {} /\ slot = SlotOn(s, first, start)
  BY <1>2
<1>4. first \in days /\ \A d \in days : first <= d
  <2>1. days \in SUBSET Nat
    BY <1>1
  <2> HIDE DEF days
  <2> QED
    BY <1>3, <2>1, LeastIs
<1>5. first \in s.days /\ first \in Nat /\ first >= Day(start) /\ SlotOn(s, first, start) # Never
  BY <1>1, <1>4
<1> HIDE DEF days, first
<1>6. /\ slot \in Nat /\ Day(slot) = first /\ Matches(s, slot) /\ start <= slot
      /\ \A t \in Nat : Day(t) = first /\ Matches(s, t) /\ start <= t => slot <= t
  BY <1>1, <1>3, <1>5, SlotOnIs
<1>7. ASSUME NEW t \in Nat, Matches(s, t), from < t PROVE slot <= t
  <2>1. start <= t
    BY <1>7 DEF start
  <2>2. Day(t) \in s.days /\ Day(t) \in Nat
    BY <1>7, Reading DEF Matches
  <2>3. Day(t) >= Day(start)
    BY <1>1, <2>1, <2>2, ReadOrder
  <2>4. SlotOn(s, Day(t), start) # Never
    <3> DEFINE d == Day(t)
    <3>1. d \in s.days /\ d >= Day(start) /\ Day(t) = d
      BY <2>2, <2>3
    <3> HIDE DEF d
    <3>2. \/ SlotOn(s, d, start) \in Nat
          \/ \A u \in Nat : ~(Day(u) = d /\ Matches(s, u) /\ start <= u)
      BY <1>1, <3>1, SlotOnIs
    <3>3. SlotOn(s, d, start) \in Nat
      BY <1>7, <2>1, <3>1, <3>2
    <3>4. \A n \in Nat : n # Never
      BY DEF Never
    <3> QED
      BY <3>3, <3>4 DEF d
  <2>5. first <= Day(t)
    <3>1. Day(t) \in days
      BY <2>2, <2>3, <2>4 DEF days
    <3> QED
      BY <1>4, <3>1
  <2>6. CASE first = Day(t)
    BY <1>6, <1>7, <2>1, <2>6
  <2>7. CASE first < Day(t)
    BY <1>6, <2>7, ReadOrder
  <2> QED
    BY <1>5, <2>2, <2>5, <2>6, <2>7
<1>8. from < slot
  BY <1>6 DEF start
<1> QED
  BY <1>6, <1>7, <1>8

\* A slot is fired when the clock has reached it, once, and none before it is left out
\* (next_after and due, cron.rs and background.rs).
THEOREM SlotsInOrder == Spec => SlotsFireInOrder
<1> DEFINE Fires == last' \notin {last, Never} =>
                       /\ last' \in Slots(settings.schedule) /\ last' <= now
                       /\ last # Never => last' > last
                       /\ \A t \in Slots(settings.schedule) : t > last /\ last # Never => t >= last'
<1>1. ASSUME SchedulerTypeOK, [Next]_vars PROVE Fires
  <2> SUFFICES ASSUME last' \notin {last, Never} PROVE Fires
    OBVIOUS
  <2>1. Evaluate
    BY <1>1 DEF Next, Loop, Batch, Environment, vars, loopVars, Startup, Wake, PollPending, Evaluate,
       RunSlot, Watch, StopWatching, StartWatched, Refused, Read, Settle, Tick, ClockSetBack,
       SetSettings, RunNow, OtherBegins, OtherEnds, StartWatchedFails, Restart, Change
  <2>2. last' = Candidate /\ Candidate \in 0 .. now
    BY <2>1 DEF Evaluate, IsDue
  <2>3. /\ settings.schedule \in Schedules /\ now \in 0 .. MaxClock /\ MaxClock \in Nat
        /\ last \in (0 .. MaxClock) \cup {-1}
    BY <1>1, SchedulerAssumption DEF SchedulerTypeOK, Settings, Minutes, Never
  <2>4. /\ Anchor \in (0 .. MaxClock) \cup {-1} /\ (last # Never => Anchor = last)
    BY <2>3 DEF Anchor, Never
  <2>5. Candidate = NextAfter(settings.schedule, Anchor)
    <3> DEFINE anchor == Anchor
               schedule == settings.schedule
    <3>1. schedule \in Schedules /\ anchor \in Minutes \cup {Never}
      BY <2>3, <2>4 DEF Minutes, Never
    <3>2. Candidate = NextSlot[schedule][anchor]
      BY DEF Candidate
    <3> HIDE DEF anchor, schedule
    <3>3. NextSlot[schedule][anchor] = NextAfter(schedule, anchor)
      BY <3>1 DEF NextSlot
    <3> QED
      BY <3>2, <3>3 DEF anchor, schedule
  <2>6. Anchor \in Nat \cup {-1}
    BY <2>4
  <2>7. Candidate # Never /\ Candidate \in Nat
    BY <2>2, <2>3 DEF Never
  <2>8. /\ last' \in Nat /\ Matches(settings.schedule, last') /\ Anchor < last'
        /\ \A t \in Nat : Matches(settings.schedule, t) /\ Anchor < t => last' <= t
    BY <2>2, <2>3, <2>5, <2>6, <2>7, NextAfterIs
  <2>9. last' \in Slots(settings.schedule) /\ last' <= now
    BY <2>2, <2>3, <2>8 DEF Slots, Matches, Minutes
  <2>10. ASSUME last # Never PROVE last' > last
    BY <2>3, <2>4, <2>8, <2>10
  <2>11. ASSUME NEW t \in Slots(settings.schedule), t > last, last # Never PROVE t >= last'
    <3>1. t \in Nat /\ Matches(settings.schedule, t) /\ Anchor < t
      BY <2>3, <2>4, <2>11 DEF Slots, Matches, Minutes
    <3> QED
      BY <2>8, <3>1
  <2> QED
    BY <2>9, <2>10, <2>11
<1>2. SchedulerTypeOK /\ [Next]_vars => [Fires]_vars
  BY <1>1
<1> QED
  BY <1>2, SchedulerTypes, PTL DEF Spec, SlotsFireInOrder
=============================================================================
