----------------------- MODULE ProviderRequestsProofs -----------------------
(***************************************************************************)
(* Sends to MusicBrainz and to Discogs are paced, and a deferred album     *)
(* waits out every delay its lookup was told, for any number of lookups    *)
(* and askers, any delays, window, spacing and limits.                     *)
(***************************************************************************)
EXTENDS ProviderRequests, TLAPS, SequenceTheorems, WellFoundedInduction

Points == {"idle", "turn", "crowded", "booked", "pause", "sent"}
Requests == [at : Points, provider : Providers, attempt : 0 .. MaxAttempts, wait : Nat]

\* What a request carries at each point.
RequestOK(r) ==
    /\ r.at # "idle" => r.attempt > 0
    /\ r.at = "pause" => r.attempt < MaxAttempts
    /\ r.at = "booked" => r.provider = "musicbrainz"

RequestsOK ==
    /\ request \in [Callers -> Requests]
    /\ \A q \in Callers : RequestOK(request[q])

\* The limiters.  The window is what the ledger of sends to Discogs holds of the
\* last minute, and its limit the lowest one announced.
Sorted(ages) == \A i, j \in 1 .. Len(ages) : i <= j => ages[i] >= ages[j]

WindowOK ==
    /\ stamps \in Seq(0 .. Window) /\ Len(stamps) <= Cap /\ Sorted(stamps)
    /\ maximum \in 1 .. Cap /\ maximum = lowest
    /\ sends["discogs"] = Recent(stamps, Window)

LimitersOK ==
    /\ WindowOK
    /\ slot \in Nat
    /\ sends \in [Providers -> Seq(Nat)] /\ \A p \in Providers : Sorted(sends[p])

RequestsTyped ==
    /\ RequestsOK /\ LimitersOK
    /\ metrics \in [Lookups -> [Providers -> [transient : BOOLEAN, told : Nat]]]
    /\ cancelled \in SUBSET Lookups
    /\ asked \in [Callers -> Nat]
    /\ verdict \in [Lookups -> {"open", "answered", "cancelled", "deferred"}]
    /\ due \in [Lookups -> Nat]
    /\ embargo \in [Lookups -> [Providers -> Nat]]

----------------------------------------------------------------------------
(* Ages of sends, the oldest first.                                        *)

\* Those of a span or more are a prefix.
LEMMA LeavingIs ==
    ASSUME NEW s \in Seq(Nat), Sorted(s), NEW span \in Nat
    PROVE  /\ Leaving(s, span) \in 0 .. Len(s)
           /\ \A i \in 1 .. Len(s) : i <= Leaving(s, span) <=> s[i] >= span
<1> DEFINE P(k) == \A i \in DOMAIN s : i <= k <=> s[i] >= span
           Young == {k \in 0 .. Len(s) : \A i \in 1 .. Len(s) : i > k => s[i] < span}
           R == {ss \in Nat \X Nat : ss[1] < ss[2]}
<1>1. Len(s) \in Nat /\ DOMAIN s = 1 .. Len(s) /\ \A i \in 1 .. Len(s) : s[i] \in Nat
  OBVIOUS
<1>2. Len(s) \in Young /\ Young \subseteq Nat
  BY <1>1
<1>3. IsWellFoundedOn(R, Nat)
  BY NatLessThanWellFounded DEF OpToRel
<1>4. \A x, y \in Nat : x < y => <<x, y>> \in R
  OBVIOUS
<1>5. PICK k \in Young : \A j \in Young : ~(<<j, k>> \in R)
  <2> HIDE DEF R, Young
  <2> QED BY <1>2, <1>3, WFMin
<1>6. ASSUME NEW i \in 1 .. Len(s), i <= k PROVE s[i] >= span
  <2>1. k \in Nat /\ k <= Len(s) /\ k > 0
    BY <1>1, <1>6
  <2>2. k - 1 \in Nat /\ k - 1 < k
    BY <2>1
  <2>3. k - 1 \notin Young
    <3> HIDE DEF R, Young
    <3> QED BY <1>4, <1>5, <2>1, <2>2
  <2>4. PICK j \in 1 .. Len(s) : j > k - 1 /\ ~(s[j] < span)
    BY <1>1, <2>1, <2>2, <2>3
  <2>5. s[i] >= s[j] /\ s[j] >= span
    BY <1>1, <1>6, <2>1, <2>4 DEF Sorted
  <2> QED BY <1>1, <2>4, <2>5
<1>7. P(k) /\ k \in 0 .. Len(s)
  <2>1. \A i \in 1 .. Len(s) : i <= k <=> s[i] >= span
    BY <1>1, <1>6
  <2> QED BY <1>1, <2>1
<1>8. Leaving(s, span) = CHOOSE n \in 0 .. Len(s) : P(n)
  BY DEF Leaving
<1> HIDE DEF P
<1>9. Leaving(s, span) \in 0 .. Len(s) /\ P(Leaving(s, span))
  BY <1>7, <1>8
<1> QED BY <1>1, <1>9 DEF P

LEMMA LeavingOnly ==
    ASSUME NEW s \in Seq(Nat), Sorted(s), NEW span \in Nat, NEW k \in 0 .. Len(s),
           \A i \in 1 .. Len(s) : i <= k <=> s[i] >= span
    PROVE  Leaving(s, span) = k
<1> DEFINE n == Leaving(s, span)
<1>1. n \in 0 .. Len(s) /\ \A i \in 1 .. Len(s) : i <= n <=> s[i] >= span
  BY LeavingIs
<1> HIDE DEF n
<1>2. CASE n < k
  BY <1>1, <1>2
<1>3. CASE k < n
  BY <1>1, <1>3
<1> QED BY <1>1, <1>2, <1>3 DEF n

\* The rest of them.
LEMMA RecentIs ==
    ASSUME NEW s \in Seq(Nat), Sorted(s), NEW span \in Nat
    PROVE  LET k == Leaving(s, span)
           IN  /\ k \in Nat /\ k <= Len(s)
               /\ Recent(s, span) \in Seq(Nat) /\ Sorted(Recent(s, span))
               /\ Len(Recent(s, span)) = Len(s) - k
               /\ \A i \in 1 .. Len(s) - k : /\ i + k \in 1 .. Len(s)
                                             /\ Recent(s, span)[i] = s[i + k]
                                             /\ s[i + k] < span
<1> DEFINE k == Leaving(s, span)
<1>1. k \in 0 .. Len(s) /\ \A i \in 1 .. Len(s) : i <= k <=> s[i] >= span
  BY LeavingIs
<1>2. Recent(s, span) = SubSeq(s, k + 1, Len(s))
  BY DEF Recent
<1> HIDE DEF k
<1>3. Len(s) \in Nat /\ \A i \in 1 .. Len(s) : s[i] \in Nat
  OBVIOUS
<1>4. /\ SubSeq(s, k + 1, Len(s)) \in Seq(Nat)
      /\ Len(SubSeq(s, k + 1, Len(s))) = Len(s) - k
      /\ \A i \in 1 .. Len(s) - k : SubSeq(s, k + 1, Len(s))[i] = s[i + k]
  BY <1>1, <1>3
<1>5. \A i \in 1 .. Len(s) - k : i + k \in 1 .. Len(s) /\ s[i + k] < span
  <2> TAKE i \in 1 .. Len(s) - k
  <2>1. i + k \in 1 .. Len(s) /\ ~(i + k <= k)
    BY <1>1, <1>3
  <2> QED BY <1>1, <1>3, <2>1
<1>6. Sorted(Recent(s, span))
  <2> SUFFICES ASSUME NEW i \in 1 .. Len(s) - k, NEW j \in 1 .. Len(s) - k, i <= j
               PROVE  s[i + k] >= s[j + k]
    BY <1>2, <1>4 DEF Sorted
  <2> QED BY <1>1, <1>3, <1>5 DEF Sorted
<1> QED BY <1>1, <1>2, <1>3, <1>4, <1>5, <1>6 DEF k

LEMMA RecentOfYoung ==
    ASSUME NEW s \in Seq(Nat), NEW span \in Nat, Sorted(s),
           \A i \in 1 .. Len(s) : s[i] < span
    PROVE  Recent(s, span) = s
<1>1. Len(s) \in Nat /\ \A i \in 1 .. Len(s) : s[i] \in Nat
  OBVIOUS
<1>2. 0 \in 0 .. Len(s) /\ \A i \in 1 .. Len(s) : i <= 0 <=> s[i] >= span
  BY <1>1
<1>3. Leaving(s, span) = 0
  BY <1>2, LeavingOnly
<1>4. /\ Recent(s, span) \in Seq(Nat) /\ Len(Recent(s, span)) = Len(s) - 0
      /\ \A i \in 1 .. Len(s) - 0 : Recent(s, span)[i] = s[i + 0]
  BY <1>3, RecentIs, Zenon
<1>5. Len(Recent(s, span)) = Len(s) /\ \A i \in 1 .. Len(s) : Recent(s, span)[i] = s[i]
  BY <1>1, <1>4
<1> QED BY <1>4, <1>5, SeqEqual

LEMMA SortedSend ==
    ASSUME NEW s \in Seq(Nat), Sorted(s)
    PROVE  /\ Append(s, 0) \in Seq(Nat) /\ Sorted(Append(s, 0))
           /\ Len(Append(s, 0)) = Len(s) + 1
           /\ \A i \in 1 .. Len(s) + 1 :
                 Append(s, 0)[i] = IF i <= Len(s) THEN s[i] ELSE 0
<1> DEFINE new == Append(s, 0)
<1>1. /\ new \in Seq(Nat) /\ Len(s) \in Nat /\ Len(new) = Len(s) + 1
      /\ \A i \in 1 .. Len(s) + 1 : new[i] = IF i <= Len(s) THEN s[i] ELSE 0
      /\ \A i \in 1 .. Len(new) : new[i] \in Nat
  OBVIOUS
<1> HIDE DEF new
<1>2. ASSUME NEW i \in 1 .. Len(new), NEW j \in 1 .. Len(new), i <= j PROVE new[i] >= new[j]
  <2>1. CASE j <= Len(s)
    <3>1. i \in 1 .. Len(s) /\ j \in 1 .. Len(s)
      BY <1>1, <1>2, <2>1
    <3>2. s[i] >= s[j]
      BY <1>2, <3>1 DEF Sorted
    <3>3. new[i] = s[i] /\ new[j] = s[j]
      BY <1>1, <3>1
    <3> QED BY <3>2, <3>3
  <2>2. CASE ~(j <= Len(s))
    BY <1>1, <2>2
  <2> QED BY <2>1, <2>2
<1>3. Sorted(new)
  BY <1>2 DEF Sorted
<1> QED BY <1>1, <1>3 DEF new

LEMMA OlderIs ==
    ASSUME NEW s \in Seq(Nat), Sorted(s), NEW span \in Nat
    PROVE  /\ Older(s, span) \in Seq(Nat) /\ Sorted(Older(s, span))
           /\ Len(Older(s, span)) = Len(s)
           /\ \A i \in 1 .. Len(s) : /\ Older(s, span)[i] = Smaller(s[i] + 1, span)
                                     /\ Older(s, span)[i] \in 0 .. span
<1>1. Len(s) \in Nat /\ DOMAIN s = 1 .. Len(s) /\ \A i \in 1 .. Len(s) : s[i] \in Nat
  OBVIOUS
<1>2. Older(s, span) = [i \in 1 .. Len(s) |-> Smaller(s[i] + 1, span)]
  BY <1>1 DEF Older
<1>3. \A i \in 1 .. Len(s) : Smaller(s[i] + 1, span) \in 0 .. span
  BY <1>1 DEF Smaller
<1>4. Older(s, span) \in Seq(Nat) /\ Len(Older(s, span)) = Len(s)
  BY <1>1, <1>2, <1>3
<1>5. \A i \in 1 .. Len(s) : Older(s, span)[i] = Smaller(s[i] + 1, span)
  BY <1>2
<1>6. \A i, j \in 1 .. Len(s) : i <= j => Smaller(s[i] + 1, span) >= Smaller(s[j] + 1, span)
  BY <1>1 DEF Sorted, Smaller
<1> QED BY <1>3, <1>4, <1>5, <1>6 DEF Sorted

\* Who has left stays out as time goes on.
LEMMA OlderRecent ==
    ASSUME NEW s \in Seq(Nat), Sorted(s), NEW span \in Nat
    PROVE  Recent(Older(Recent(s, span), span), span) = Recent(Older(s, span), span)
<1> DEFINE k == Leaving(s, span)
           u == Recent(s, span)
           v == Older(s, span)
           n == Leaving(v, span)
           w == Older(u, span)
<1>1. /\ k \in Nat /\ k <= Len(s) /\ u \in Seq(Nat) /\ Sorted(u) /\ Len(u) = Len(s) - k
      /\ \A i \in 1 .. Len(s) - k : i + k \in 1 .. Len(s) /\ u[i] = s[i + k] /\ s[i + k] < span
  BY RecentIs
<1>2. /\ v \in Seq(Nat) /\ Sorted(v) /\ Len(v) = Len(s)
      /\ \A i \in 1 .. Len(s) : v[i] = Smaller(s[i] + 1, span)
  BY OlderIs
<1>3. n \in 0 .. Len(v) /\ \A i \in 1 .. Len(v) : i <= n <=> v[i] >= span
  BY <1>2, LeavingIs
<1>4. \A i \in 1 .. Len(s) : s[i] \in Nat /\ (i <= k <=> s[i] >= span)
  <2>1. \A i \in 1 .. Len(s) : i <= k <=> s[i] >= span
    BY LeavingIs
  <2> QED BY <2>1
<1>5. /\ w \in Seq(Nat) /\ Sorted(w) /\ Len(w) = Len(s) - k
      /\ \A i \in 1 .. Len(s) - k : w[i] = Smaller(u[i] + 1, span)
  BY <1>1, OlderIs
<1> HIDE DEF k, u, v, n, w
<1>6. k <= n
  <2> SUFFICES ASSUME n < k PROVE FALSE
    BY <1>1, <1>3
  <2>1. k \in 1 .. Len(s) /\ s[k] >= span
    BY <1>1, <1>3, <1>4
  <2>2. v[k] >= span
    BY <1>2, <1>4, <2>1 DEF Smaller
  <2>3. k <= n
    BY <1>2, <1>3, <2>1, <2>2
  <2> QED BY <1>1, <1>3, <2>3
<1>7. \A i \in 1 .. Len(s) - k : w[i] = v[i + k]
  BY <1>1, <1>2, <1>5
<1>8. n - k \in 0 .. Len(w)
  BY <1>1, <1>2, <1>3, <1>5, <1>6
<1>9. ASSUME NEW i \in 1 .. Len(w) PROVE i <= n - k <=> w[i] >= span
  <2>1. i + k \in 1 .. Len(v) /\ w[i] = v[i + k]
    BY <1>1, <1>2, <1>5, <1>7
  <2>2. i + k <= n <=> v[i + k] >= span
    BY <1>3, <2>1
  <2>3. i + k <= n <=> i <= n - k
    BY <1>1, <1>2, <1>3, <1>5
  <2> QED BY <2>1, <2>2, <2>3
<1>10. Leaving(w, span) = n - k
  BY <1>5, <1>8, <1>9, LeavingOnly
<1>11. /\ Recent(w, span) \in Seq(Nat) /\ Len(Recent(w, span)) = Len(w) - (n - k)
       /\ \A i \in 1 .. Len(w) - (n - k) : Recent(w, span)[i] = w[i + (n - k)]
  <2> DEFINE d == Leaving(w, span)
  <2>1. /\ Recent(w, span) \in Seq(Nat) /\ Len(Recent(w, span)) = Len(w) - d
        /\ \A i \in 1 .. Len(w) - d : Recent(w, span)[i] = w[i + d]
    BY <1>5, RecentIs
  <2>2. d = n - k
    BY <1>10
  <2> HIDE DEF d
  <2> QED BY <2>1, <2>2
<1>12. /\ Recent(v, span) \in Seq(Nat) /\ Len(Recent(v, span)) = Len(v) - n
       /\ \A i \in 1 .. Len(v) - n : Recent(v, span)[i] = v[i + n]
  BY <1>2, RecentIs DEF n
<1>13. Len(w) - (n - k) = Len(v) - n
  BY <1>1, <1>2, <1>3, <1>5
<1>14. ASSUME NEW i \in 1 .. Len(v) - n PROVE Recent(w, span)[i] = Recent(v, span)[i]
  <2>1. i + (n - k) \in 1 .. Len(s) - k /\ (i + (n - k)) + k = i + n
    BY <1>1, <1>2, <1>3, <1>6
  <2>2. w[i + (n - k)] = v[i + n]
    BY <1>7, <2>1
  <2> QED BY <1>11, <1>12, <1>13, <2>2
<1>15. Recent(w, span) = Recent(v, span)
  BY <1>11, <1>12, <1>13, <1>14, SeqEqual
<1> QED BY <1>15 DEF u, v, w

----------------------------------------------------------------------------
(* Types.                                                                  *)

\* One request takes another shape.
LEMMA Updated ==
    ASSUME RequestsOK, NEW q \in Callers, NEW fields \in Requests,
           RequestOK(fields), Update(q, fields)
    PROVE  /\ RequestsOK' /\ request'[q] = fields
           /\ \A r \in Callers \ {q} : request'[r] = request[r]
<1>1. request' = [request EXCEPT ![q] = fields] /\ request \in [Callers -> Requests]
  BY DEF Update, RequestsOK
<1>2. request' \in [Callers -> Requests] /\ request'[q] = fields
      /\ \A r \in Callers \ {q} : request'[r] = request[r]
  BY <1>1
<1>3. \A r \in Callers : RequestOK(request'[r])
  BY <1>2 DEF RequestsOK
<1> QED
  BY <1>2, <1>3 DEF RequestsOK, RequestOK, Requests, Callers, Providers

\* The requests that a step may end, send or put to sleep.
LEMMA Shapes ==
    ASSUME RequestsOK, NEW q \in Callers
    PROVE  /\ NoRequest \in Requests /\ RequestOK(NoRequest)
           /\ \A p \in Providers :
                 LET new == [NoRequest EXCEPT !.at = "turn", !.provider = p, !.attempt = 1]
                 IN  new \in Requests /\ RequestOK(new) /\ new.at = "turn"
           /\ request[q].at # "idle" =>
                 /\ LET new == [request[q] EXCEPT !.at = "sent"]
                    IN  new \in Requests /\ RequestOK(new) /\ new.at = "sent"
                 /\ LET new == [request[q] EXCEPT !.at = "turn"]
                    IN  new \in Requests /\ RequestOK(new) /\ new.at = "turn"
                 /\ \A w \in Nat :
                       LET new == [request[q] EXCEPT !.at = "crowded", !.wait = w]
                       IN  new \in Requests /\ RequestOK(new) /\ new.at = "crowded"
                 /\ request[q].provider = "musicbrainz" => \A w \in Nat :
                       LET new == [request[q] EXCEPT !.at = "booked", !.wait = w]
                       IN  new \in Requests /\ RequestOK(new) /\ new.at = "booked"
           /\ request[q].at = "pause" =>
                 LET new == [request[q] EXCEPT !.at = "turn", !.attempt = @ + 1]
                 IN  new \in Requests /\ RequestOK(new) /\ new.at = "turn"
           /\ request[q].at = "sent" /\ request[q].attempt < MaxAttempts =>
                 \A w \in Nat :
                    LET new == [request[q] EXCEPT !.at = "pause", !.wait = w]
                    IN  new \in Requests /\ RequestOK(new) /\ new.at = "pause"
                        /\ new.wait = w /\ new.provider = request[q].provider
<1>2. request[q] \in Requests /\ RequestOK(request[q])
  BY DEF RequestsOK
<1>3. NoRequest \in Requests /\ RequestOK(NoRequest)
  BY DEF NoRequest, Requests, RequestOK, Points, Providers, MaxAttempts
<1>8. ASSUME NEW p \in Providers
     PROVE  LET new == [NoRequest EXCEPT !.at = "turn", !.provider = p, !.attempt = 1]
            IN  new \in Requests /\ RequestOK(new) /\ new.at = "turn"
  <2>1. 1 \in 0 .. MaxAttempts
    BY DEF MaxAttempts
  <2> DEFINE new == [NoRequest EXCEPT !.at = "turn", !.provider = p, !.attempt = 1]
  <2>2. new \in Requests
    BY <1>3, <2>1 DEF Requests, Points
  <2>3. new.at = "turn" /\ new.attempt = 1
    BY <1>3 DEF Requests
  <2>4. RequestOK(new)
    BY <2>3 DEF RequestOK
  <2> QED
    BY <2>2, <2>3, <2>4
<1>4. ASSUME request[q].at # "idle", NEW at \in {"sent", "turn"}
      PROVE  LET new == [request[q] EXCEPT !.at = at]
             IN  new \in Requests /\ RequestOK(new) /\ new.at = at
  BY <1>2, <1>4 DEF Requests, RequestOK, Points, MaxAttempts
<1>5. ASSUME request[q].at # "idle", NEW w \in Nat, NEW at \in {"crowded", "booked"},
             at = "booked" => request[q].provider = "musicbrainz"
      PROVE  LET new == [request[q] EXCEPT !.at = at, !.wait = w]
             IN  new \in Requests /\ RequestOK(new) /\ new.at = at
  BY <1>2, <1>5 DEF Requests, RequestOK, Points, MaxAttempts
<1>6. ASSUME request[q].at = "pause"
      PROVE  LET new == [request[q] EXCEPT !.at = "turn", !.attempt = @ + 1]
             IN  new \in Requests /\ RequestOK(new) /\ new.at = "turn"
  <2>1. request[q].attempt \in 1 .. 2
    BY <1>2, <1>6 DEF Requests, RequestOK, MaxAttempts
  <2>2. request[q].attempt + 1 \in 0 .. 3 /\ request[q].attempt + 1 > 0
    BY <2>1
  <2>3. request[q].attempt + 1 \in 0 .. MaxAttempts
    BY <2>2 DEF MaxAttempts
  <2> QED
    BY <1>2, <2>2, <2>3 DEF Requests, RequestOK, Points
<1>7. ASSUME request[q].at = "sent", request[q].attempt < MaxAttempts, NEW w \in Nat
      PROVE  LET new == [request[q] EXCEPT !.at = "pause", !.wait = w]
             IN  /\ new \in Requests /\ RequestOK(new) /\ new.at = "pause"
                 /\ new.wait = w /\ new.provider = request[q].provider
  BY <1>2, <1>7 DEF Requests, RequestOK, Points, MaxAttempts
<1> QED
  BY <1>3, <1>4, <1>5, <1>6, <1>7, <1>8

----------------------------------------------------------------------------
(* The window of sends to Discogs.                                         *)

LEMMA InRange ==
    ASSUME NEW s \in Seq(Nat), NEW T, \A i \in 1 .. Len(s) : s[i] \in T
    PROVE  s \in Seq(T)
<1>1. Len(s) \in Nat /\ s \in [1 .. Len(s) -> Nat]
  BY LenProperties
<1>2. s \in [1 .. Len(s) -> T]
  BY <1>1
<1> QED BY <1>1, <1>2, SeqDef

LEMMA WindowIs ==
    ASSUME WindowOK
    PROVE  /\ Window \in Nat \ {0} /\ Cap \in Nat
           /\ stamps \in Seq(Nat) /\ Sorted(stamps)
           /\ Counted(stamps) \in Seq(Nat) /\ Sorted(Counted(stamps))
           /\ Len(Counted(stamps)) \in Nat /\ Len(Counted(stamps)) <= Len(stamps)
           /\ \A i \in 1 .. Len(Counted(stamps)) :
                 Counted(stamps)[i] \in Nat /\ Counted(stamps)[i] < Window
<1> DEFINE k == Leaving(stamps, Window)
<1>1. Window \in Nat \ {0} /\ Cap \in Nat /\ stamps \in Seq(Nat) /\ Sorted(stamps)
  BY TimesAssumption DEF WindowOK
<1>2. /\ k \in Nat /\ k <= Len(stamps)
      /\ Recent(stamps, Window) \in Seq(Nat) /\ Sorted(Recent(stamps, Window))
      /\ Len(Recent(stamps, Window)) = Len(stamps) - k
      /\ \A i \in 1 .. Len(stamps) - k :
            /\ i + k \in 1 .. Len(stamps)
            /\ Recent(stamps, Window)[i] = stamps[i + k] /\ stamps[i + k] < Window
  BY <1>1, RecentIs
<1> HIDE DEF k
<1>3. Len(stamps) \in Nat /\ \A i \in 1 .. Len(stamps) : stamps[i] \in Nat
  BY <1>1
<1>4. Counted(stamps) = Recent(stamps, Window)
  BY DEF Counted
<1> DEFINE recent == Counted(stamps)
<1> HIDE DEF recent
<1>5. Len(recent) = Len(stamps) - k /\ recent \in Seq(Nat) /\ Sorted(recent)
  BY <1>2, <1>4 DEF recent
<1>6. Len(recent) \in Nat /\ Len(recent) <= Len(stamps)
  BY <1>2, <1>3, <1>5
<1>7. \A i \in 1 .. Len(recent) : recent[i] \in Nat /\ recent[i] < Window
  BY <1>2, <1>3, <1>4, <1>5 DEF recent
<1> QED BY <1>1, <1>5, <1>6, <1>7 DEF recent

\* What the oldest send of a full window is slept for.
LEMMA CrowdedWaits ==
    ASSUME WindowOK, ~(Len(Counted(stamps)) < maximum)
    PROVE  Window - Head(Counted(stamps)) \in Nat
<1>1. maximum \in Nat \ {0}
  BY TimesAssumption DEF WindowOK
<1>2. 1 \in 1 .. Len(Counted(stamps))
  BY <1>1, WindowIs
<1>3. Head(Counted(stamps)) = Counted(stamps)[1]
  OBVIOUS
<1> QED BY <1>2, <1>3, WindowIs

LEMMA TurnKeepsWindow ==
    ASSUME LimitersOK, NEW q \in Callers, DiscogsTurn(q) PROVE LimitersOK'
<1> DEFINE recent == Counted(stamps)
           new == Append(recent, 0)
<1>1. /\ UNCHANGED <<maximum, lowest, slot>>
      /\ \/ /\ Len(recent) < maximum /\ stamps' = new
            /\ sends' = [sends EXCEPT !["discogs"] = Append(@, 0)]
         \/ stamps' = recent /\ UNCHANGED sends
  BY DEF DiscogsTurn, Sent
<1>2. /\ Window \in Nat \ {0} /\ Cap \in Nat /\ maximum \in 1 .. Cap /\ Len(stamps) <= Cap
      /\ Len(stamps) \in Nat
      /\ sends \in [Providers -> Seq(Nat)] /\ sends["discogs"] = recent
      /\ \A p \in Providers : Sorted(sends[p])
      /\ recent \in Seq(Nat) /\ Sorted(recent) /\ Len(recent) \in Nat
      /\ Len(recent) <= Len(stamps)
      /\ \A i \in 1 .. Len(recent) : recent[i] \in Nat /\ recent[i] < Window
  BY WindowIs DEF LimitersOK, WindowOK, Counted
<1> HIDE DEF recent
<1>3. /\ new \in Seq(Nat) /\ Len(new) = Len(recent) + 1
      /\ \A i \in 1 .. Len(new) : new[i] \in Nat /\ new[i] < Window
      /\ Sorted(new)
  <2>1. /\ new \in Seq(Nat) /\ Sorted(new) /\ Len(new) = Len(recent) + 1
        /\ \A i \in 1 .. Len(recent) + 1 : new[i] = IF i <= Len(recent) THEN recent[i] ELSE 0
    BY <1>2, SortedSend
  <2> HIDE DEF new
  <2>2. ASSUME NEW i \in 1 .. Len(new) PROVE new[i] \in Nat /\ new[i] < Window
    <3>1. i \in 1 .. Len(recent) + 1 /\ (i <= Len(recent) => i \in 1 .. Len(recent))
      BY <1>2, <2>1
    <3>2. CASE i <= Len(recent)
      BY <1>2, <2>1, <3>1, <3>2
    <3>3. CASE ~(i <= Len(recent))
      <4>1. new[i] = 0
        BY <2>1, <3>1, <3>3
      <4> QED BY <1>2, <4>1
    <3> QED BY <3>2, <3>3
  <2> QED BY <2>1, <2>2
<1>4. ASSUME NEW s \in Seq(Nat), \A i \in 1 .. Len(s) : s[i] \in Nat /\ s[i] < Window
      PROVE  s \in Seq(0 .. Window)
  <2>1. \A i \in 1 .. Len(s) : s[i] \in 0 .. Window
    BY <1>2, <1>4
  <2> QED BY <2>1, InRange
<1>5. CASE stamps' = recent /\ UNCHANGED sends
  <2>1. Recent(recent, Window) = recent /\ recent \in Seq(0 .. Window)
    BY <1>2, <1>4, RecentOfYoung
  <2>2. Len(recent) <= Cap
    BY <1>2
  <2> QED BY <1>1, <1>2, <1>5, <2>1, <2>2 DEF LimitersOK, WindowOK, Sorted
<1>6. CASE /\ Len(recent) < maximum /\ stamps' = new
           /\ sends' = [sends EXCEPT !["discogs"] = Append(@, 0)]
  <2>1. Recent(new, Window) = new /\ new \in Seq(0 .. Window)
    BY <1>2, <1>3, <1>4, RecentOfYoung
  <2>2. /\ sends' \in [Providers -> Seq(Nat)] /\ sends'["discogs"] = new
        /\ \A p \in Providers : sends'[p] = sends[p] \/ sends'[p] = new
    BY <1>2, <1>3, <1>6 DEF Providers
  <2>3. Len(new) <= Cap
    BY <1>2, <1>3, <1>6
  <2> HIDE DEF new
  <2> QED BY <1>1, <1>2, <1>3, <1>6, <2>1, <2>2, <2>3 DEF LimitersOK, WindowOK, Sorted
<1> QED BY <1>1, <1>5, <1>6

LEMMA TickKeepsWindow == ASSUME LimitersOK, Tick PROVE LimitersOK'
<1>1. /\ UNCHANGED <<maximum, lowest>> /\ stamps' = Older(stamps, Window) /\ slot' = Less(slot)
      /\ sends' = [p \in Providers |-> Recent(Older(sends[p], Span(p)), Span(p))]
  BY DEF Tick
<1>2. /\ Window \in Nat /\ Spacing \in Nat /\ stamps \in Seq(Nat) /\ Sorted(stamps) /\ slot \in Nat
      /\ Len(stamps) <= Cap /\ maximum \in 1 .. Cap /\ maximum = lowest
      /\ sends \in [Providers -> Seq(Nat)] /\ sends["discogs"] = Recent(stamps, Window)
      /\ \A p \in Providers : Sorted(sends[p])
  BY WindowIs, TimesAssumption DEF LimitersOK, WindowOK
<1>3. /\ stamps' \in Seq(Nat) /\ Sorted(stamps') /\ Len(stamps') = Len(stamps)
      /\ \A i \in 1 .. Len(stamps) : stamps'[i] \in 0 .. Window
  BY <1>1, <1>2, OlderIs
<1>4. stamps' \in Seq(0 .. Window)
  BY <1>3, InRange
<1>5. sends'["discogs"] = Recent(stamps', Window)
  <2>1. sends'["discogs"] = Recent(Older(Recent(stamps, Window), Window), Window)
    BY <1>1, <1>2 DEF Providers, Span
  <2> QED BY <1>1, <1>2, <2>1, OlderRecent
<1>6. sends' \in [Providers -> Seq(Nat)] /\ \A p \in Providers : Sorted(sends'[p])
  <2>1. ASSUME NEW p \in Providers
        PROVE  /\ Recent(Older(sends[p], Span(p)), Span(p)) \in Seq(Nat)
               /\ Sorted(Recent(Older(sends[p], Span(p)), Span(p)))
    <3>1. sends[p] \in Seq(Nat) /\ Sorted(sends[p]) /\ Span(p) \in Nat
      BY <1>2 DEF Span
    <3>2. Older(sends[p], Span(p)) \in Seq(Nat) /\ Sorted(Older(sends[p], Span(p)))
      BY <3>1, OlderIs
    <3> QED BY <3>1, <3>2, RecentIs
  <2> QED BY <1>1, <2>1
<1>7. slot' \in Nat
  BY <1>1, <1>2 DEF Less
<1> QED
  BY <1>1, <1>2, <1>3, <1>4, <1>5, <1>6, <1>7 DEF LimitersOK, WindowOK, Sorted

----------------------------------------------------------------------------
(* What was told is kept.                                                  *)

\* The longest delay of each provider is remembered; while no attempt has given up,
\* what is left of it is being slept for.
ToldIsNoted == \A l \in Lookups, p \in Providers : embargo[l][p] <= metrics[l][p].told

Sleeps(l, p) ==
    /\ request[l].at = "pause" /\ request[l].provider = p
    /\ embargo[l][p] <= request[l].wait

ToldIsSlept ==
    \A l \in Lookups \ cancelled, p \in Providers :
        metrics[l][p].transient \/ embargo[l][p] = 0 \/ Sleeps(l, p)

\* A lookup with a verdict has no request.
SettledIsIdle == \A l \in Lookups : verdict[l] # "open" => request[l].at = "idle"

DeferralInv ==
    /\ RequestsTyped
    /\ ToldIsNoted /\ ToldIsSlept /\ SettledIsIdle /\ DeferralCoversTold

\* The request of a lookup moves on: a pause only when it is over or cancelled.
Moves(l) ==
    \/ request'[l] = request[l]
    \/ /\ request[l].at = "pause" => request[l].wait = 0 \/ l \in cancelled
       /\ request[l].at = "idle" => verdict[l] = "open"

LEMMA MovesKeep ==
    ASSUME DeferralInv, UNCHANGED <<metrics, embargo, verdict, due>>, cancelled \subseteq cancelled',
           \A l \in Lookups : Moves(l)
    PROVE  ToldIsNoted' /\ ToldIsSlept' /\ SettledIsIdle' /\ DeferralCoversTold'
<1>1. ToldIsNoted' /\ DeferralCoversTold'
  BY DEF DeferralInv, ToldIsNoted, DeferralCoversTold
<1>2. ASSUME NEW l \in Lookups \ cancelled', NEW p \in Providers,
             ~metrics[l][p].transient, embargo[l][p] # 0
      PROVE  Sleeps(l, p)'
  <2>1. Sleeps(l, p) /\ l \notin cancelled
    BY <1>2 DEF DeferralInv, ToldIsSlept
  <2>2. embargo[l][p] \in Nat /\ request[l].wait # 0
    BY <1>2, <2>1 DEF DeferralInv, RequestsTyped, Sleeps
  <2>3. request'[l] = request[l]
    BY <1>2, <2>1, <2>2 DEF Moves, Sleeps
  <2> QED
    BY <2>1, <2>3 DEF Sleeps
<1>3. SettledIsIdle'
  BY DEF DeferralInv, SettledIsIdle, Moves
<1> QED
  BY <1>1, <1>2, <1>3 DEF ToldIsSlept

\* The steps that only move one request.
LEMMA RunsMove ==
    ASSUME DeferralInv, NEW q \in Callers, NEW p \in Providers,
           Ask(q, p) \/ Run(q) \/ Settled(q)
    PROVE  /\ RequestsOK' /\ \A l \in Lookups : Moves(l)
           /\ UNCHANGED <<metrics, embargo, verdict, due, cancelled>>
<1>0. RequestsOK /\ LimitersOK
  BY DEF DeferralInv, RequestsTyped
<1>1. CASE Ask(q, p)
  <2> DEFINE new == [NoRequest EXCEPT !.at = "turn", !.provider = p, !.attempt = 1]
  <2>1. /\ Update(q, new) /\ request[q].at = "idle" /\ (q \in Lookups => verdict[q] = "open")
        /\ UNCHANGED <<metrics, embargo, verdict, due, cancelled>>
    BY <1>1 DEF Ask, outcome, history
  <2>2. new \in Requests /\ RequestOK(new)
    BY <1>0, Shapes
  <2> HIDE DEF new
  <2>3. RequestsOK' /\ \A r \in Callers \ {q} : request'[r] = request[r]
    BY <1>0, <2>1, <2>2, Updated
  <2> QED
    BY <2>1, <2>3 DEF Moves, Callers
<1>2. CASE DiscogsTurn(q)
  <2>1. UNCHANGED <<metrics, embargo, verdict, due, cancelled>> /\ request[q].at = "turn"
    BY <1>2 DEF DiscogsTurn, outcome
  <2>2. PICK new : Update(q, new) /\ RequestOK(new) /\ new \in Requests
    <3>1. \/ Update(q, [request[q] EXCEPT !.at = "sent"])
          \/ \E w \in Nat : Update(q, [request[q] EXCEPT !.at = "crowded", !.wait = w])
      BY <1>0, <1>2, CrowdedWaits DEF DiscogsTurn, LimitersOK
    <3> QED
      BY <1>0, <2>1, <3>1, Shapes, ZenonT(30)
  <2>3. RequestsOK' /\ \A r \in Callers \ {q} : request'[r] = request[r]
    BY <1>0, <2>2, Updated
  <2> QED
    BY <2>1, <2>3 DEF Moves, Callers
<1>3. CASE MusicBrainzTurn(q)
  <2>1. UNCHANGED <<metrics, embargo, verdict, due, cancelled>> /\ request[q].at = "turn"
    BY <1>3 DEF MusicBrainzTurn, outcome
  <2>2. PICK new : Update(q, new) /\ RequestOK(new) /\ new \in Requests
    <3>1. \/ Update(q, [request[q] EXCEPT !.at = "sent"])
          \/ Update(q, [request[q] EXCEPT !.at = "booked", !.wait = slot])
      BY <1>3 DEF MusicBrainzTurn
    <3>2. slot \in Nat /\ request[q].provider = "musicbrainz"
      BY <1>0, <1>3 DEF LimitersOK, MusicBrainzTurn
    <3> QED
      BY <1>0, <2>1, <3>1, <3>2, Shapes, ZenonT(30)
  <2>3. RequestsOK' /\ \A r \in Callers \ {q} : request'[r] = request[r]
    BY <1>0, <2>2, Updated
  <2> QED
    BY <2>1, <2>3 DEF Moves, Callers
<1>4. CASE Wake(q)
  <2>1. /\ UNCHANGED <<metrics, embargo, verdict, due, cancelled>>
        /\ request[q].at \in {"booked", "crowded", "pause"} /\ request[q].wait = 0
    BY <1>4 DEF Wake, outcome
  <2>2. PICK new : Update(q, new) /\ RequestOK(new) /\ new \in Requests
    <3>1. \/ Update(q, [request[q] EXCEPT !.at = "sent"])
          \/ Update(q, [request[q] EXCEPT !.at = "turn"])
          \/ /\ request[q].at = "pause"
             /\ Update(q, [request[q] EXCEPT !.at = "turn", !.attempt = @ + 1])
      BY <1>4 DEF Wake
    <3>2. request[q].at # "idle"
      BY <2>1
    <3>3. CASE Update(q, [request[q] EXCEPT !.at = "sent"])
      BY <1>0, <3>2, <3>3, Shapes
    <3>4. CASE Update(q, [request[q] EXCEPT !.at = "turn"])
      BY <1>0, <3>2, <3>4, Shapes
    <3>5. CASE /\ request[q].at = "pause"
               /\ Update(q, [request[q] EXCEPT !.at = "turn", !.attempt = @ + 1])
      BY <1>0, <3>5, Shapes, ZenonT(30)
    <3> QED
      BY <3>1, <3>3, <3>4, <3>5
  <2>3. RequestsOK' /\ \A r \in Callers \ {q} : request'[r] = request[r]
    BY <1>0, <2>2, Updated
  <2> QED
    BY <2>1, <2>3 DEF Moves, Callers
<1>5. CASE GiveUp(q) \/ Settled(q)
  <2>1. /\ UNCHANGED <<metrics, embargo, verdict, due, cancelled>>
        /\ request[q].at # "idle" /\ (q \in cancelled \/ request[q].at = "sent")
        /\ Update(q, NoRequest)
    BY <1>5 DEF GiveUp, GivesUp, Settled, End, outcome, history
  <2>2. NoRequest \in Requests /\ RequestOK(NoRequest)
    BY <1>0, Shapes
  <2>3. RequestsOK' /\ \A r \in Callers \ {q} : request'[r] = request[r]
    BY <1>0, <2>1, <2>2, Updated
  <2> QED
    BY <2>1, <2>3 DEF Moves, Callers
<1> QED
  BY <1>1, <1>2, <1>3, <1>4, <1>5 DEF Run

----------------------------------------------------------------------------
(* The steps.                                                              *)

\* What the limiters and the count of requests are, whatever happens.
LEMMA LimitersKept == ASSUME DeferralInv, Next PROVE LimitersOK' /\ asked' \in [Callers -> Nat]
<1>0. /\ LimitersOK /\ WindowOK /\ slot \in Nat /\ asked \in [Callers -> Nat]
      /\ sends \in [Providers -> Seq(Nat)] /\ \A p \in Providers : Sorted(sends[p])
      /\ Cap \in Nat /\ Spacing \in Nat /\ Limits \subseteq Nat \ {0}
  BY TimesAssumption DEF DeferralInv, RequestsTyped, LimitersOK
<1>1. ASSUME UNCHANGED <<stamps, maximum, lowest, sends, slot>> PROVE LimitersOK'
  BY <1>0, <1>1 DEF LimitersOK, WindowOK, Sorted
<1>2. ASSUME NEW q \in Callers, NEW p \in Providers, Ask(q, p) PROVE LimitersOK' /\ asked' \in [Callers -> Nat]
  BY <1>0, <1>1, <1>2 DEF Ask, limiters, history
<1>3. ASSUME NEW q \in Callers, MusicBrainzTurn(q) \/ Wake(q) PROVE LimitersOK' /\ UNCHANGED asked
  <2>1. (request[q].provider = "musicbrainz" /\ Sent(q)) \/ UNCHANGED sends
    BY <1>3 DEF MusicBrainzTurn, Wake, DeferralInv, RequestsTyped, RequestsOK, RequestOK
  <2>2. UNCHANGED <<stamps, maximum, lowest, asked>> /\ slot' \in Nat
    BY <1>0, <1>3 DEF MusicBrainzTurn, Wake, Reserved, limiters
  <2>3. CASE UNCHANGED sends
    BY <1>0, <2>2, <2>3 DEF LimitersOK, WindowOK, Sorted
  <2>4. CASE request[q].provider = "musicbrainz" /\ Sent(q)
    <3> DEFINE new == Append(sends["musicbrainz"], 0)
    <3>1. new \in Seq(Nat) /\ Sorted(new)
      BY <1>0, SortedSend DEF Providers
    <3>2. sends' = [sends EXCEPT !["musicbrainz"] = new]
      BY <2>4 DEF Sent
    <3> HIDE DEF new
    <3>3. /\ sends' \in [Providers -> Seq(Nat)] /\ sends'["discogs"] = sends["discogs"]
          /\ \A p \in Providers : sends'[p] = sends[p] \/ sends'[p] = new
      BY <1>0, <3>1, <3>2 DEF Providers
    <3> QED BY <1>0, <2>2, <3>1, <3>3 DEF LimitersOK, WindowOK, Sorted
  <2> QED BY <2>1, <2>3, <2>4
<1>4. ASSUME NEW q \in Callers, Run(q) PROVE LimitersOK' /\ UNCHANGED asked
  <2>1. CASE DiscogsTurn(q)
    BY <1>0, <2>1, TurnKeepsWindow DEF DiscogsTurn
  <2>2. CASE GiveUp(q)
    BY <1>1, <2>2 DEF GiveUp, limiters, history
  <2> QED BY <1>3, <1>4, <2>1, <2>2 DEF Run
<1>5. ASSUME NEW q \in Callers, Reply(q) PROVE LimitersOK' /\ UNCHANGED asked
  <2>1. /\ UNCHANGED <<stamps, slot, sends, asked>>
        /\ UNCHANGED <<maximum, lowest>> \/ Observe(q)
    BY <1>5 DEF Reply, Settled, Broken, Transient, TransientForAsker, limiters, history
  <2>2. \/ UNCHANGED <<maximum, lowest>>
        \/ \E limit \in Limits : maximum' = Smaller(maximum, limit) /\ lowest' = Smaller(lowest, limit)
    BY <2>1 DEF Observe, Lowered
  <2>3. maximum' \in 1 .. Cap /\ maximum' = lowest'
    BY <1>0, <2>2 DEF WindowOK, Smaller
  <2> QED BY <1>0, <2>1, <2>3 DEF LimitersOK, WindowOK, Sorted
<1>6. CASE \E l \in Lookups : Cancel(l) \/ Finish(l)
  BY <1>0, <1>1, <1>6 DEF Cancel, Finish, limiters, history
<1>7. CASE Tick
  BY <1>0, <1>7, TickKeepsWindow DEF Tick
<1> QED
  BY <1>0, <1>2, <1>4, <1>5, <1>6, <1>7 DEF Next

LEMMA InvStart == Init => DeferralInv
<1> SUFFICES ASSUME Init PROVE DeferralInv
  OBVIOUS
<1>1. NoRequest \in Requests /\ RequestOK(NoRequest) /\ NoRequest.at = "idle"
  BY DEF NoRequest, Requests, RequestOK, Points, Providers, MaxAttempts
<1>2. RequestsOK
  BY <1>1 DEF Init, RequestsOK
<1>3. RequestsTyped
  <2>1. /\ <<>> \in Seq(Nat) /\ Sorted(<<>>) /\ <<>> \in Seq(0 .. Window) /\ Len(<<>>) = 0
        /\ Window \in Nat /\ Cap \in Nat \ {0}
    BY TimesAssumption DEF Sorted
  <2>2. Recent(<<>>, Window) = <<>>
    <3>1. \A i \in 1 .. Len(<<>>) : <<>>[i] < Window
      BY <2>1
    <3> QED BY <2>1, <3>1, RecentOfYoung, Zenon
  <2>3. LimitersOK
    BY <2>1, <2>2 DEF Init, LimitersOK, WindowOK, Providers
  <2> QED BY <1>2, <2>3 DEF Init, RequestsTyped
<1> QED
  BY <1>1, <1>3 DEF Init, DeferralInv, ToldIsNoted, ToldIsSlept, SettledIsIdle, DeferralCoversTold

\* An answer that asks for a delay is noted, and slept for unless it is the last.
LEMMA AnswersKeep ==
    ASSUME DeferralInv, NEW l \in Lookups, Broken(l) \/ \E told \in Told : Transient(l, told)
    PROVE  /\ RequestsOK' /\ ToldIsNoted' /\ ToldIsSlept' /\ SettledIsIdle' /\ DeferralCoversTold'
           /\ metrics' \in [Lookups -> [Providers -> [transient : BOOLEAN, told : Nat]]]
           /\ embargo' \in [Lookups -> [Providers -> Nat]]
           /\ UNCHANGED <<cancelled, verdict, due>>
<1> DEFINE m == request[l].provider
           delay(told) == RetryDelay(request[l].attempt, told)
<1>0. /\ RequestsOK /\ l \in Callers
      /\ metrics \in [Lookups -> [Providers -> [transient : BOOLEAN, told : Nat]]]
      /\ embargo \in [Lookups -> [Providers -> Nat]]
  BY DEF DeferralInv, RequestsTyped, Callers
<1>1. request[l].at = "sent" /\ UNCHANGED <<cancelled, verdict, due>>
  BY DEF Broken, Transient, outcome
<1>2. m \in Providers /\ request[l].attempt \in 1 .. MaxAttempts
  <2>1. request[l] \in Requests /\ request[l].attempt > 0
    BY <1>0, <1>1 DEF RequestsOK, RequestOK
  <2> QED
    BY <2>1 DEF Requests, MaxAttempts
<1>3. ASSUME request[l].attempt < MaxAttempts, NEW told \in Nat
      PROVE  delay(told) \in Nat /\ delay(told) >= told
  <2>1. request[l].attempt \in 1 .. 2
    BY <1>2, <1>3 DEF MaxAttempts
  <2>2. RetryDelays \in Seq(Nat) /\ request[l].attempt \in 1 .. Len(RetryDelays)
    BY <2>1, TimesAssumption
  <2>3. RetryDelays[request[l].attempt] \in Nat
    BY <2>2
  <2> QED
    BY <2>3 DEF RetryDelay
<1>4. PICK told \in Nat :
          /\ \/ Noted(l, FALSE, told) /\ Pause(l, delay(told)) /\ request[l].attempt < MaxAttempts
             \/ Noted(l, TRUE, told) /\ End(l)
          /\ Embargoed(l, told) \/ (told = 0 /\ UNCHANGED embargo)
  <2>1. CASE Broken(l)
    <3>1. \/ Noted(l, FALSE, 0) /\ Pause(l, delay(0)) /\ request[l].attempt < MaxAttempts
          \/ Noted(l, TRUE, 0) /\ End(l)
      BY <2>1, Zenon DEF Broken
    <3>2. UNCHANGED embargo
      BY <2>1 DEF Broken, history
    <3>3. 0 \in Nat
      OBVIOUS
    <3> QED
      BY <3>1, <3>2, <3>3, Zenon
  <2>2. CASE \E told \in Told : Transient(l, told)
    <3>1. PICK told \in Told : Transient(l, told)
      BY <2>2
    <3>2. \/ Noted(l, FALSE, told) /\ Pause(l, delay(told)) /\ request[l].attempt < MaxAttempts
          \/ Noted(l, TRUE, told) /\ End(l)
      BY <3>1, Zenon DEF Transient
    <3>3. Embargoed(l, told) /\ told \in Nat
      BY <3>1, TimesAssumption DEF Transient
    <3>4. told \in Nat
      BY <3>3
    <3>5. Embargoed(l, told) \/ (told = 0 /\ UNCHANGED embargo)
      BY <3>3
    <3> HIDE DEF delay
    <3> QED
      BY <3>2, <3>4, <3>5, Zenon
  <2> QED
    BY <2>1, <2>2
<1>5. /\ metrics'[l][m].told = Larger(metrics[l][m].told, told)
      /\ metrics[l][m].transient => metrics'[l][m].transient
      /\ metrics' \in [Lookups -> [Providers -> [transient : BOOLEAN, told : Nat]]]
      /\ \A k \in Lookups, p \in Providers : k # l \/ p # m => metrics'[k][p] = metrics[k][p]
      /\ \/ Pause(l, delay(told)) /\ request[l].attempt < MaxAttempts
         \/ metrics'[l][m].transient /\ End(l)
  <2>1. CASE Noted(l, FALSE, told) /\ Pause(l, delay(told)) /\ request[l].attempt < MaxAttempts
    BY <1>0, <1>2, <2>1 DEF Noted, Larger
  <2>2. CASE Noted(l, TRUE, told) /\ End(l)
    BY <1>0, <1>2, <2>2 DEF Noted, Larger
  <2> QED
    BY <1>4, <2>1, <2>2
<1>6. /\ embargo'[l][m] = Larger(embargo[l][m], told)
      /\ embargo' \in [Lookups -> [Providers -> Nat]]
      /\ \A k \in Lookups, p \in Providers : k # l \/ p # m => embargo'[k][p] = embargo[k][p]
  <2>1. CASE Embargoed(l, told)
    BY <1>0, <1>2, <2>1 DEF Embargoed, Larger
  <2>2. CASE told = 0 /\ UNCHANGED embargo
    <3>1. embargo[l][m] \in Nat
      BY <1>0, <1>2
    <3>2. Larger(embargo[l][m], told) = embargo[l][m]
      BY <2>2, <3>1 DEF Larger
    <3> QED
      BY <1>0, <2>2, <3>2
  <2> QED
    BY <1>4, <2>1, <2>2
<1>7. PICK new : /\ Update(l, new) /\ RequestOK(new) /\ new \in Requests
                 /\ \/ metrics'[l][m].transient
                    \/ new.at = "pause" /\ new.provider = m /\ told <= new.wait
  <2>1. CASE metrics'[l][m].transient /\ End(l)
    <3>1. Update(l, NoRequest) /\ RequestOK(NoRequest) /\ NoRequest \in Requests
      BY <1>0, <2>1, Shapes DEF End
    <3> QED
      BY <2>1, <3>1
  <2>2. CASE Pause(l, delay(told)) /\ request[l].attempt < MaxAttempts
    <3> DEFINE later == [request[l] EXCEPT !.at = "pause", !.wait = delay(told)]
    <3>1. delay(told) \in Nat /\ told <= delay(told)
      BY <1>3, <2>2
    <3>2. \A w \in Nat :
             LET new == [request[l] EXCEPT !.at = "pause", !.wait = w]
             IN  new \in Requests /\ RequestOK(new) /\ new.at = "pause"
                 /\ new.wait = w /\ new.provider = request[l].provider
      BY <1>0, <1>1, <2>2, Shapes
    <3>3. /\ later \in Requests /\ RequestOK(later) /\ later.at = "pause"
          /\ later.wait = delay(told) /\ later.provider = m
      BY <3>1, <3>2
    <3>4. Update(l, later)
      BY <2>2 DEF Pause
    <3> HIDE DEF later
    <3> QED
      BY <3>1, <3>3, <3>4
  <2> QED
    BY <1>5, <2>1, <2>2
<1>8. RequestsOK' /\ request'[l] = new /\ \A r \in Callers \ {l} : request'[r] = request[r]
  BY <1>0, <1>7, Updated
<1>9. ToldIsNoted'
  <2>1. ASSUME NEW k \in Lookups, NEW p \in Providers
        PROVE  embargo'[k][p] <= metrics'[k][p].told
    <3>1. embargo[k][p] <= metrics[k][p].told /\ embargo[k][p] \in Nat /\ metrics[k][p].told \in Nat
      BY <1>0 DEF DeferralInv, ToldIsNoted
    <3>2. CASE k # l \/ p # m
      BY <1>5, <1>6, <3>1, <3>2
    <3>3. CASE k = l /\ p = m
      BY <1>5, <1>6, <3>1, <3>3 DEF Larger
    <3> QED
      BY <3>2, <3>3
  <2> QED
    BY <2>1 DEF ToldIsNoted
<1>10. verdict[l] = "open"
  BY <1>1 DEF DeferralInv, SettledIsIdle
<1>11. SettledIsIdle'
  BY <1>1, <1>8, <1>10 DEF DeferralInv, SettledIsIdle, Callers
<1>12. DeferralCoversTold'
  BY <1>1, <1>6, <1>10 DEF DeferralInv, DeferralCoversTold
<1>13. ASSUME NEW k \in Lookups \ cancelled', NEW p \in Providers
       PROVE  (metrics[k][p].transient \/ embargo[k][p] = 0 \/ Sleeps(k, p))'
  <2>1. metrics[k][p].transient \/ embargo[k][p] = 0 \/ Sleeps(k, p)
    BY <1>1 DEF DeferralInv, ToldIsSlept
  <2>2. CASE k # l
    BY <1>5, <1>6, <1>8, <2>1, <2>2 DEF Sleeps, Callers
  <2>3. CASE k = l
    <3>1. metrics[l][p].transient \/ embargo[l][p] = 0
      BY <1>1, <2>1, <2>3 DEF Sleeps
    <3>2. CASE p # m
      BY <1>5, <1>6, <2>3, <3>1, <3>2
    <3>3. CASE p = m
      BY <1>0, <1>2, <1>5, <1>6, <1>7, <1>8, <2>3, <3>1, <3>3 DEF Sleeps, Larger
    <3> QED
      BY <3>2, <3>3
  <2> QED
    BY <2>2, <2>3
<1> QED
  BY <1>1, <1>5, <1>6, <1>8, <1>9, <1>11, <1>12, <1>13 DEF ToldIsSlept

\* A lookup ends, deferred if it was not cancelled and a provider gave up.
LEMMA FinishKeeps ==
    ASSUME DeferralInv, NEW l \in Lookups, Finish(l)
    PROVE  /\ DeferralCoversTold' /\ SettledIsIdle'
           /\ verdict' \in [Lookups -> {"open", "answered", "cancelled", "deferred"}]
           /\ due' \in [Lookups -> Nat]
<1> DEFINE retryable == {p \in Providers : metrics[l][p].transient}
<1>1. /\ verdict \in [Lookups -> {"open", "answered", "cancelled", "deferred"}]
      /\ due \in [Lookups -> Nat] /\ Backoff \in Nat
      /\ embargo \in [Lookups -> [Providers -> Nat]]
      /\ metrics \in [Lookups -> [Providers -> [transient : BOOLEAN, told : Nat]]]
  BY TimesAssumption DEF DeferralInv, RequestsTyped
<1>2. Longest(l, retryable) \in Nat /\ \A p \in retryable : metrics[l][p].told <= Longest(l, retryable)
  <2> DEFINE delays == {0} \cup {metrics[l][p].told : p \in retryable}
             a == metrics[l]["musicbrainz"].told
             b == metrics[l]["discogs"].told
  <2>1. a \in Nat /\ b \in Nat /\ delays \subseteq {0, a, b} /\ 0 \in delays
    BY <1>1 DEF Providers
  <2>2. \E x \in delays : \A y \in delays : x >= y
    <3> HIDE DEF delays, a, b
    <3>1. \A y \in delays : y = 0 \/ y = a \/ y = b
      BY <2>1
    <3>2. CASE a \in delays /\ (b \notin delays \/ a >= b)
      BY <2>1, <3>1, <3>2
    <3>3. CASE b \in delays /\ (a \notin delays \/ b >= a)
      BY <2>1, <3>1, <3>3
    <3>4. CASE a \notin delays /\ b \notin delays
      BY <2>1, <3>1, <3>4
    <3> QED
      BY <2>1, <3>2, <3>3, <3>4
  <2>3. Max(delays) \in delays /\ \A y \in delays : Max(delays) >= y
    BY <2>2 DEF Max
  <2>4. Longest(l, retryable) = Max(delays)
    BY DEF Longest
  <2>5. \A p \in retryable : metrics[l][p].told \in delays
    OBVIOUS
  <2> HIDE DEF delays, a, b
  <2>6. Max(delays) \in Nat /\ \A y \in delays : y \in Nat
    <3>1. \A y \in delays : y \in {0, a, b}
      BY <2>1
    <3>2. \A y \in {0, a, b} : y \in Nat
      BY <2>1
    <3> HIDE DEF Max
    <3> QED
      BY <2>3, <3>1, <3>2
  <2>7. ASSUME NEW p \in retryable PROVE metrics[l][p].told <= Max(delays)
    BY <2>3, <2>5, <2>6
  <2> QED
    BY <2>4, <2>6, <2>7
<1>3. \/ verdict' = [verdict EXCEPT ![l] = IF l \in cancelled THEN "cancelled" ELSE "answered"]
         /\ due' = due
      \/ /\ l \notin cancelled /\ verdict' = [verdict EXCEPT ![l] = "deferred"]
         /\ due' = [due EXCEPT ![l] = Larger(Backoff, Longest(l, retryable))]
  BY DEF Finish
<1>4. request[l].at = "idle" /\ UNCHANGED <<request, embargo>>
  BY DEF Finish, history
<1> HIDE DEF retryable
<1>5. /\ verdict' \in [Lookups -> {"open", "answered", "cancelled", "deferred"}]
      /\ due' \in [Lookups -> Nat]
      /\ \A k \in Lookups \ {l} : verdict'[k] = verdict[k] /\ due'[k] = due[k]
      /\ verdict'[l] = "deferred" =>
            l \notin cancelled /\ due'[l] \in Nat /\ due'[l] >= Longest(l, retryable)
  <2>1. CASE /\ verdict' = [verdict EXCEPT ![l] = IF l \in cancelled THEN "cancelled" ELSE "answered"]
             /\ due' = due
    BY <1>1, <2>1
  <2>2. CASE /\ l \notin cancelled /\ verdict' = [verdict EXCEPT ![l] = "deferred"]
             /\ due' = [due EXCEPT ![l] = Larger(Backoff, Longest(l, retryable))]
    <3>1. /\ Larger(Backoff, Longest(l, retryable)) \in Nat
          /\ Larger(Backoff, Longest(l, retryable)) >= Longest(l, retryable)
      BY <1>1, <1>2 DEF Larger
    <3> HIDE DEF Larger
    <3> QED
      BY <1>1, <2>2, <3>1
  <2> QED
    BY <1>3, <2>1, <2>2
<1>6. ASSUME NEW k \in Lookups, NEW p \in Providers, verdict'[k] = "deferred"
      PROVE  embargo[k][p] <= due'[k]
  <2>1. CASE k # l
    BY <1>5, <1>6, <2>1 DEF DeferralInv, DeferralCoversTold
  <2>2. CASE k = l
    <3>1. /\ l \notin cancelled /\ due'[l] \in Nat /\ due'[l] >= Longest(l, retryable)
          /\ embargo[l][p] \in Nat /\ metrics[l][p].told \in Nat
      BY <1>1, <1>5, <1>6, <2>2
    <3>2. CASE metrics[l][p].transient
      <4>1. embargo[l][p] <= metrics[l][p].told
        BY DEF DeferralInv, ToldIsNoted
      <4>2. metrics[l][p].told <= Longest(l, retryable)
        BY <1>2, <3>2 DEF retryable
      <4> QED
        BY <1>2, <2>2, <3>1, <4>1, <4>2
    <3>3. CASE ~metrics[l][p].transient
      <4>1. embargo[l][p] = 0
        BY <1>4, <3>1, <3>3 DEF DeferralInv, ToldIsSlept, Sleeps
      <4> QED
        BY <2>2, <3>1, <4>1
    <3> QED
      BY <3>2, <3>3
  <2> QED
    BY <2>1, <2>2
<1>7. SettledIsIdle'
  BY <1>4, <1>5 DEF DeferralInv, SettledIsIdle
<1> QED
  BY <1>4, <1>5, <1>6, <1>7 DEF DeferralCoversTold

LEMMA TickKeeps ==
    ASSUME DeferralInv, Tick
    PROVE  /\ RequestsOK' /\ ToldIsNoted' /\ ToldIsSlept' /\ SettledIsIdle' /\ DeferralCoversTold'
           /\ due' \in [Lookups -> Nat]
           /\ embargo' \in [Lookups -> [Providers -> Nat]]
<1>1. /\ RequestsOK /\ due \in [Lookups -> Nat]
      /\ embargo \in [Lookups -> [Providers -> Nat]]
      /\ metrics \in [Lookups -> [Providers -> [transient : BOOLEAN, told : Nat]]]
  BY DEF DeferralInv, RequestsTyped
<1>2. /\ UNCHANGED <<metrics, cancelled, verdict>>
      /\ request' = [q \in Callers |-> [request[q] EXCEPT !.wait = Less(@)]]
      /\ due' = [l \in Lookups |-> Less(due[l])]
      /\ embargo' = [l \in Lookups |-> [p \in Providers |-> Less(embargo[l][p])]]
  BY DEF Tick
<1>3. /\ due' \in [Lookups -> Nat] /\ \A l \in Lookups : due'[l] = Less(due[l])
      /\ embargo' \in [Lookups -> [Providers -> Nat]]
      /\ \A l \in Lookups, p \in Providers : embargo'[l][p] = Less(embargo[l][p])
  <2>1. \A a \in Nat : Less(a) \in Nat
    BY DEF Less
  <2>2. \A l \in Lookups : due'[l] = Less(due[l])
    BY <1>2
  <2>3. \A l \in Lookups, p \in Providers : embargo'[l][p] = Less(embargo[l][p])
    BY <1>2
  <2>4. due' \in [Lookups -> Nat]
    BY <1>1, <1>2, <2>1
  <2>5. embargo' \in [Lookups -> [Providers -> Nat]]
    BY <1>1, <1>2, <2>1
  <2> QED
    BY <2>2, <2>3, <2>4, <2>5
<1>4. \A a, b \in Nat : /\ Less(a) \in Nat /\ Less(a) <= a
                        /\ a <= b => Less(a) <= Less(b)
  BY DEF Less
<1>6. ASSUME NEW q \in Callers
      PROVE  /\ request'[q] \in Requests
             /\ request'[q].at = request[q].at /\ request'[q].provider = request[q].provider
             /\ request'[q].attempt = request[q].attempt
             /\ request'[q].wait = Less(request[q].wait)
  <2>1. request[q] \in Requests /\ request'[q] = [request[q] EXCEPT !.wait = Less(@)]
    BY <1>1, <1>2 DEF RequestsOK
  <2> QED
    BY <1>4, <2>1 DEF Requests
<1>7. RequestsOK'
  <2>1. request' \in [Callers -> Requests]
    BY <1>2, <1>6
  <2>2. \A q \in Callers : RequestOK(request'[q])
    BY <1>1, <1>4, <1>6 DEF RequestsOK, RequestOK
  <2> QED
    BY <2>1, <2>2 DEF RequestsOK, RequestOK, Requests, Callers, Providers
<1>8. ToldIsNoted'
  BY <1>1, <1>2, <1>3, <1>4 DEF DeferralInv, ToldIsNoted
<1>9. ASSUME NEW l \in Lookups \ cancelled', NEW p \in Providers
      PROVE  (metrics[l][p].transient \/ embargo[l][p] = 0 \/ Sleeps(l, p))'
  <2>1. metrics[l][p].transient \/ embargo[l][p] = 0 \/ Sleeps(l, p)
    BY <1>2 DEF DeferralInv, ToldIsSlept
  <2>2. CASE embargo[l][p] = 0
    BY <1>3, <2>2 DEF Less
  <2>3. CASE Sleeps(l, p)
    <3>1. request[l].wait \in Nat /\ embargo[l][p] \in Nat /\ l \in Callers
      BY <1>1, <2>3 DEF Sleeps, RequestsOK, Requests, Callers
    <3> QED
      BY <1>3, <1>4, <1>6, <2>3, <3>1 DEF Sleeps
  <2> QED
    BY <1>2, <2>1, <2>2, <2>3
<1>10. SettledIsIdle'
  BY <1>2, <1>6 DEF DeferralInv, SettledIsIdle, Callers
<1>11. DeferralCoversTold'
  BY <1>1, <1>2, <1>3, <1>4 DEF DeferralInv, DeferralCoversTold
<1> QED
  BY <1>3, <1>7, <1>8, <1>9, <1>10, <1>11 DEF ToldIsSlept

LEMMA InvKept == DeferralInv /\ [Next]_vars => DeferralInv'
<1> SUFFICES ASSUME DeferralInv, [Next]_vars PROVE DeferralInv'
  OBVIOUS
<1>0. /\ RequestsTyped /\ RequestsOK
      /\ ToldIsNoted /\ ToldIsSlept /\ SettledIsIdle /\ DeferralCoversTold
  BY DEF DeferralInv, RequestsTyped
<1>1. CASE UNCHANGED vars
  <2>1. RequestsOK'
    BY <1>0, <1>1 DEF vars, RequestsOK, RequestOK, Requests
  <2>2. LimitersOK'
    BY <1>0, <1>1 DEF vars, limiters, history, RequestsTyped, LimitersOK, WindowOK, Sorted
  <2>3. ToldIsNoted' /\ ToldIsSlept' /\ SettledIsIdle' /\ DeferralCoversTold'
    BY <1>0, <1>1 DEF vars, outcome, history, ToldIsNoted, ToldIsSlept, Sleeps, SettledIsIdle,
                      DeferralCoversTold
  <2> QED
    BY <1>0, <1>1, <2>1, <2>2, <2>3 DEF vars, outcome, history, DeferralInv, RequestsTyped
<1>2. ASSUME Next PROVE LimitersOK' /\ asked' \in [Callers -> Nat]
  BY <1>2, LimitersKept
<1>3. ASSUME NEW q \in Callers, NEW p \in Providers, Ask(q, p) \/ Run(q) \/ Settled(q)
      PROVE  DeferralInv'
  <2>1. /\ RequestsOK' /\ \A l \in Lookups : Moves(l)
        /\ UNCHANGED <<metrics, embargo, verdict, due, cancelled>>
    BY <1>3, RunsMove
  <2>2. ToldIsNoted' /\ ToldIsSlept' /\ SettledIsIdle' /\ DeferralCoversTold'
    BY <2>1, MovesKeep
  <2>3. Next
    BY <1>3 DEF Next, Reply
  <2> QED
    BY <1>0, <1>2, <2>1, <2>2, <2>3 DEF DeferralInv, RequestsTyped
<1>4. ASSUME NEW q \in Askers, NEW told \in Told, TransientForAsker(q, told) PROVE DeferralInv'
  <2>1. /\ request[q].at = "sent" /\ request[q].attempt = 1 /\ Pause(q, RetryDelay(1, told))
        /\ UNCHANGED <<metrics, embargo, verdict, due, cancelled>>
    BY <1>4 DEF TransientForAsker, outcome, history
  <2>2. q \in Callers /\ q \notin Lookups
    BY CallersAssumption DEF Callers
  <2>3. RetryDelay(1, told) \in Nat
    <3>1. RetryDelays \in Seq(Nat) /\ 1 \in 1 .. Len(RetryDelays) /\ told \in Nat
      BY TimesAssumption
    <3> QED
      BY <3>1 DEF RetryDelay
  <2>4. RequestsOK' /\ \A r \in Callers \ {q} : request'[r] = request[r]
    <3> DEFINE later == [request[q] EXCEPT !.at = "pause", !.wait = RetryDelay(1, told)]
    <3>1. \A w \in Nat :
             LET new == [request[q] EXCEPT !.at = "pause", !.wait = w]
             IN  new \in Requests /\ RequestOK(new) /\ new.at = "pause"
                 /\ new.wait = w /\ new.provider = request[q].provider
      <4>1. request[q].attempt < MaxAttempts
        BY <2>1 DEF MaxAttempts
      <4> QED
        BY <1>0, <2>1, <2>2, <4>1, Shapes
    <3>3. later \in Requests /\ RequestOK(later)
      BY <2>3, <3>1
    <3>2. Update(q, later)
      BY <2>1 DEF Pause
    <3> HIDE DEF later
    <3> QED
      BY <1>0, <2>2, <3>2, <3>3, Updated
  <2>5. ToldIsNoted' /\ ToldIsSlept' /\ SettledIsIdle' /\ DeferralCoversTold'
    BY <2>1, <2>2, <2>4, MovesKeep DEF Moves, Callers
  <2>6. Next
    BY <1>4, <2>2 DEF Next, Reply
  <2> QED
    BY <1>0, <1>2, <2>1, <2>4, <2>5, <2>6 DEF DeferralInv, RequestsTyped
<1>5. ASSUME NEW l \in Lookups, Broken(l) \/ \E told \in Told : Transient(l, told)
      PROVE  DeferralInv'
  <2>1. Next
    BY <1>5 DEF Next, Reply, Callers
  <2> QED
    BY <1>0, <1>2, <1>5, <2>1, AnswersKeep DEF DeferralInv, RequestsTyped
<1>6. ASSUME NEW l \in Lookups, Cancel(l) PROVE DeferralInv'
  <2>1. /\ cancelled' = cancelled \cup {l}
        /\ UNCHANGED <<request, metrics, embargo, verdict, due>>
    BY <1>6 DEF Cancel, outcome, history
  <2>2. RequestsOK'
    BY <1>0, <2>1 DEF RequestsOK, RequestOK, Requests
  <2>3. ToldIsNoted' /\ ToldIsSlept' /\ SettledIsIdle' /\ DeferralCoversTold'
    BY <2>1, MovesKeep DEF Moves
  <2>4. Next
    BY <1>6 DEF Next
  <2> QED
    BY <1>0, <1>2, <2>1, <2>2, <2>3, <2>4 DEF DeferralInv, RequestsTyped
<1>7. ASSUME NEW l \in Lookups, Finish(l) PROVE DeferralInv'
  <2>1. UNCHANGED <<request, metrics, embargo, cancelled>>
    BY <1>7 DEF Finish, history
  <2>2. RequestsOK' /\ ToldIsNoted' /\ ToldIsSlept'
    BY <1>0, <2>1 DEF RequestsOK, RequestOK, Requests, ToldIsNoted, ToldIsSlept, Sleeps
  <2>3. Next
    BY <1>7 DEF Next
  <2> QED
    BY <1>0, <1>2, <1>7, <2>1, <2>2, <2>3, FinishKeeps DEF DeferralInv, RequestsTyped
<1>8. CASE Tick
  <2>1. Next
    BY <1>8 DEF Next
  <2>2. UNCHANGED <<metrics, cancelled, verdict>>
    BY <1>8 DEF Tick
  <2> QED
    BY <1>0, <1>2, <1>8, <2>1, <2>2, TickKeeps DEF DeferralInv, RequestsTyped
<1> QED
  BY <1>1, <1>3, <1>4, <1>5, <1>6, <1>7, <1>8 DEF Next, Reply, Providers

----------------------------------------------------------------------------
(* The slots of MusicBrainz.                                               *)

Booked(q) == request[q].at = "booked"
Past == sends["musicbrainz"]

\* The next slot, every booked one and the last send lie a spacing apart.
SlotsOK ==
    /\ Len(Past) <= 1
    /\ \A i \in 1 .. Len(Past) : Past[i] < Spacing /\ Past[i] + slot >= Spacing
    /\ \A q \in Callers : Booked(q) =>
          /\ request[q].wait + Spacing <= slot
          /\ \A i \in 1 .. Len(Past) : Past[i] + request[q].wait >= Spacing
    /\ \A q, r \in Callers : q # r /\ Booked(q) /\ Booked(r) =>
          \/ request[q].wait + Spacing <= request[r].wait
          \/ request[r].wait + Spacing <= request[q].wait

LEMMA SlotsUntouched ==
    ASSUME SlotsOK, UNCHANGED slot, Past' = Past,
           \A q \in Callers : Booked(q)' => request'[q] = request[q]
    PROVE  SlotsOK'
<1>1. \A q \in Callers : Booked(q)' => Booked(q) /\ request'[q].wait = request[q].wait
  BY DEF Booked
<1> QED
  BY <1>1 DEF SlotsOK, Callers

LEMMA OneMoves ==
    ASSUME RequestsOK, NEW q \in Callers, NEW fields, Update(q, fields), fields.at # "booked"
    PROVE  \A r \in Callers : Booked(r)' => request'[r] = request[r]
<1>1. request' = [request EXCEPT ![q] = fields] /\ request \in [Callers -> Requests]
  BY DEF Update, RequestsOK
<1>2. request'[q] = fields /\ \A r \in Callers \ {q} : request'[r] = request[r]
  BY <1>1
<1> QED
  BY <1>2 DEF Booked

\* The facts of types that the slots need.
LEMMA SlotTypes ==
    ASSUME RequestsTyped
    PROVE  /\ RequestsOK /\ slot \in Nat /\ Spacing \in Nat \ {0} /\ Past \in Seq(Nat)
           /\ Len(Past) \in Nat /\ \A i \in 1 .. Len(Past) : Past[i] \in Nat
           /\ \A q \in Callers : request[q] \in Requests /\ request[q].wait \in Nat
<1>1. RequestsOK /\ slot \in Nat /\ Spacing \in Nat \ {0} /\ Past \in Seq(Nat)
  BY TimesAssumption DEF RequestsTyped, LimitersOK, Past, Providers
<1> QED
  BY <1>1 DEF RequestsOK, Requests

\* Before a send at the head of the slots, none of the last spacing is left.
LEMMA PastIsOver ==
    ASSUME RequestsTyped, SlotsOK, NEW q \in Callers,
           slot = 0 \/ (Booked(q) /\ request[q].wait = 0)
    PROVE  Len(Past) = 0
<1> SUFFICES ASSUME Len(Past) # 0 PROVE FALSE
  OBVIOUS
<1>1. 1 \in 1 .. Len(Past) /\ Past[1] \in Nat /\ Spacing \in Nat
  BY SlotTypes
<1> QED
  BY <1>1 DEF SlotsOK

LEMMA MusicBrainzKeepsSlots ==
    ASSUME RequestsTyped, SlotsOK, NEW q \in Callers, MusicBrainzTurn(q)
    PROVE  SlotsOK'
<1>1. /\ slot' = slot + Spacing /\ request[q].at = "turn" /\ request[q].provider = "musicbrainz"
      /\ RequestsOK /\ slot \in Nat /\ Spacing \in Nat \ {0} /\ Past \in Seq(Nat)
      /\ Len(Past) \in Nat /\ \A i \in 1 .. Len(Past) : Past[i] \in Nat
      /\ \A r \in Callers : request[r] \in Requests /\ request[r].wait \in Nat
  BY SlotTypes DEF MusicBrainzTurn, Reserved
<1>2. CASE slot = 0
  <2>1. Update(q, [request[q] EXCEPT !.at = "sent"]) /\ Sent(q)
    BY <1>2 DEF MusicBrainzTurn
  <2>2. [request[q] EXCEPT !.at = "sent"].at # "booked"
    BY <1>1 DEF Requests
  <2>3. \A r \in Callers : Booked(r)' => request'[r] = request[r]
    BY <1>1, <2>1, <2>2, OneMoves
  <2>4. \A r \in Callers : ~Booked(r)'
    BY <1>1, <1>2, <2>3 DEF SlotsOK, Booked
  <2>5. Past' = Append(Past, 0)
    BY <1>1, <2>1 DEF RequestsTyped, LimitersOK, Sent, Past, Providers
  <2>6. Len(Past) = 0
    BY <1>2, PastIsOver
  <2>7. Len(Past') = 1 /\ Past'[1] = 0
    BY <1>1, <2>5, <2>6
  <2> QED
    BY <1>1, <1>2, <2>4, <2>7 DEF SlotsOK
<1>3. CASE slot # 0
  <2> DEFINE new == [request[q] EXCEPT !.at = "booked", !.wait = slot]
  <2>1. Update(q, new) /\ UNCHANGED sends
    BY <1>3 DEF MusicBrainzTurn
  <2>2. new.at = "booked" /\ new.wait = slot
    BY <1>1 DEF Requests
  <2> HIDE DEF new
  <2>3. request'[q] = new /\ \A r \in Callers \ {q} : request'[r] = request[r]
    BY <1>1, <2>1 DEF Update, RequestsOK
  <2>4. \A r \in Callers \ {q} : Booked(r)' => Booked(r) /\ request'[r].wait = request[r].wait
    BY <2>3 DEF Booked
  <2>5. request'[q].wait = slot /\ Past' = Past
    BY <2>1, <2>2, <2>3 DEF Past
  <2>6. ASSUME NEW r \in Callers, Booked(r)'
        PROVE  /\ request'[r].wait + Spacing <= slot'
               /\ \A i \in 1 .. Len(Past) : Past[i] + request'[r].wait >= Spacing
    <3>1. CASE r = q
      BY <1>1, <2>5, <3>1 DEF SlotsOK
    <3>2. CASE r # q
      BY <1>1, <2>4, <2>6, <3>2 DEF SlotsOK
    <3> QED BY <3>1, <3>2
  <2>7. ASSUME NEW r \in Callers, NEW s \in Callers, r # s, Booked(r)', Booked(s)'
        PROVE  \/ request'[r].wait + Spacing <= request'[s].wait
               \/ request'[s].wait + Spacing <= request'[r].wait
    BY <1>1, <2>4, <2>5, <2>7 DEF SlotsOK
  <2>8. \A i \in 1 .. Len(Past) : Past[i] < Spacing /\ Past[i] + slot' >= Spacing
    BY <1>1 DEF SlotsOK
  <2>9. Len(Past) <= 1
    BY DEF SlotsOK
  <2> QED
    BY <2>5, <2>6, <2>7, <2>8, <2>9 DEF SlotsOK
<1> QED BY <1>2, <1>3

LEMMA BookedWakeKeepsSlots ==
    ASSUME RequestsTyped, SlotsOK, NEW q \in Callers, Wake(q), Booked(q)
    PROVE  SlotsOK'
<1>1. /\ Update(q, [request[q] EXCEPT !.at = "sent"]) /\ Sent(q) /\ UNCHANGED slot
      /\ request[q].wait = 0 /\ request[q].provider = "musicbrainz"
  BY DEF Wake, Booked, limiters, RequestsTyped, RequestsOK, RequestOK
<1>2. /\ RequestsOK /\ slot \in Nat /\ Spacing \in Nat \ {0} /\ Past \in Seq(Nat)
      /\ \A r \in Callers : request[r] \in Requests /\ request[r].wait \in Nat
  BY SlotTypes
<1>3. Len(Past) = 0
  BY <1>1, PastIsOver
<1>4. Past' = Append(Past, 0)
  BY <1>1 DEF RequestsTyped, LimitersOK, Sent, Past, Providers
<1>5. Len(Past') = 1 /\ Past'[1] = 0
  BY <1>2, <1>3, <1>4
<1>6. \A r \in Callers : Booked(r)' => r # q /\ request'[r] = request[r] /\ Booked(r)
  <2>1. request' = [request EXCEPT ![q] = [request[q] EXCEPT !.at = "sent"]]
    BY <1>1 DEF Update
  <2>2. request'[q].at = "sent" /\ \A r \in Callers \ {q} : request'[r] = request[r]
    BY <1>2, <2>1 DEF RequestsOK, Requests
  <2> QED BY <2>2 DEF Booked
<1>7. ASSUME NEW r \in Callers, Booked(r)'
      PROVE  request'[r].wait + Spacing <= slot' /\ request'[r].wait >= Spacing
  <2>1. r # q /\ request'[r] = request[r] /\ Booked(r)
    BY <1>6, <1>7
  <2> QED BY <1>1, <1>2, <2>1 DEF SlotsOK
<1>8. slot >= Spacing
  BY <1>1, <1>2 DEF SlotsOK
<1>9. ASSUME NEW r \in Callers, NEW s \in Callers, r # s, Booked(r)', Booked(s)'
      PROVE  \/ request'[r].wait + Spacing <= request'[s].wait
             \/ request'[s].wait + Spacing <= request'[r].wait
  BY <1>6, <1>9 DEF SlotsOK
<1>10. \A i \in 1 .. Len(Past') : Past'[i] = 0
  BY <1>5
<1>11. Len(Past') <= 1 /\ \A i \in 1 .. Len(Past') : Past'[i] < Spacing /\ Past'[i] + slot' >= Spacing
  BY <1>1, <1>2, <1>5, <1>8, <1>10
<1>12. \A r \in Callers : Booked(r)' =>
          \A i \in 1 .. Len(Past') : Past'[i] + request'[r].wait >= Spacing
  BY <1>2, <1>6, <1>7, <1>10
<1> QED
  BY <1>7, <1>9, <1>11, <1>12 DEF SlotsOK

LEMMA TickKeepsSlots == ASSUME RequestsTyped, SlotsOK, Tick PROVE SlotsOK'
<1>1. /\ RequestsOK /\ slot \in Nat /\ Spacing \in Nat \ {0} /\ Past \in Seq(Nat)
      /\ Len(Past) \in Nat /\ \A i \in 1 .. Len(Past) : Past[i] \in Nat
      /\ \A r \in Callers : request[r] \in Requests /\ request[r].wait \in Nat
      /\ Sorted(Past)
  BY SlotTypes DEF RequestsTyped, LimitersOK, Past, Providers
<1> DEFINE v == Older(Past, Spacing)
           k == Leaving(v, Spacing)
<1>2. /\ slot' = Less(slot) /\ Past' = Recent(v, Spacing)
      /\ \A q \in Callers : request'[q] = [request[q] EXCEPT !.wait = Less(@)]
      /\ \A q \in Callers : Booked(q) => request[q].wait # 0
  BY DEF Tick, Past, Providers, Span, Ready, Booked
<1>3. /\ v \in Seq(Nat) /\ Sorted(v) /\ Len(v) = Len(Past)
      /\ \A i \in 1 .. Len(Past) : v[i] = Smaller(Past[i] + 1, Spacing)
  BY <1>1, OlderIs
<1>4. /\ k \in Nat /\ k <= Len(v) /\ Len(Past') = Len(v) - k
      /\ \A i \in 1 .. Len(v) - k : i + k \in 1 .. Len(v) /\ Past'[i] = v[i + k] /\ v[i + k] < Spacing
  BY <1>1, <1>2, <1>3, RecentIs
<1> HIDE DEF v, k
<1>5. Len(Past') <= 1
  BY <1>1, <1>3, <1>4 DEF SlotsOK
<1>6. ASSUME NEW i \in 1 .. Len(Past')
      PROVE  \E j \in 1 .. Len(Past) : Past'[i] = Past[j] + 1 /\ Past[j] + 1 < Spacing
  <2>1. i \in 1 .. Len(v) - k /\ i + k \in 1 .. Len(Past) /\ Past'[i] = v[i + k] /\ v[i + k] < Spacing
    BY <1>3, <1>4
  <2>2. v[i + k] = Smaller(Past[i + k] + 1, Spacing) /\ Past[i + k] \in Nat
    BY <1>1, <1>3, <2>1
  <2>3. Past'[i] = Past[i + k] + 1 /\ Past[i + k] + 1 < Spacing
    BY <1>1, <2>1, <2>2 DEF Smaller
  <2> QED BY <2>1, <2>3
<1>7. \A q \in Callers : Booked(q)' =>
          Booked(q) /\ request'[q].wait = request[q].wait - 1 /\ request[q].wait > 0
  <2> TAKE q \in Callers
  <2>1. request'[q].at = request[q].at /\ request'[q].wait = Less(request[q].wait)
    BY <1>1, <1>2 DEF Requests
  <2>2. Booked(q)' => Booked(q)
    BY <2>1 DEF Booked
  <2>3. request[q].wait \in Nat /\ (Booked(q) => request[q].wait # 0)
    BY <1>1, <1>2
  <2>4. request[q].wait # 0 => Less(request[q].wait) = request[q].wait - 1 /\ request[q].wait > 0
    BY <2>3 DEF Less
  <2> QED BY <2>1, <2>2, <2>3, <2>4
<1>8. ASSUME NEW i \in 1 .. Len(Past') PROVE Past'[i] < Spacing /\ Past'[i] + slot' >= Spacing
  <2>1. PICK j \in 1 .. Len(Past) : Past'[i] = Past[j] + 1 /\ Past[j] + 1 < Spacing
    BY <1>6
  <2>2. Past[j] \in Nat /\ Past[j] + slot >= Spacing
    BY <1>1 DEF SlotsOK
  <2> QED BY <1>1, <1>2, <2>1, <2>2 DEF Less
<1>9. ASSUME NEW q \in Callers, Booked(q)'
      PROVE  /\ request'[q].wait + Spacing <= slot'
             /\ \A i \in 1 .. Len(Past') : Past'[i] + request'[q].wait >= Spacing
  <2>1. /\ Booked(q) /\ request'[q].wait = request[q].wait - 1 /\ request[q].wait > 0
        /\ request[q].wait \in Nat /\ request[q].wait + Spacing <= slot
    BY <1>1, <1>7, <1>9 DEF SlotsOK
  <2>2. request'[q].wait + Spacing <= slot'
    BY <1>1, <1>2, <2>1 DEF Less
  <2>3. ASSUME NEW i \in 1 .. Len(Past') PROVE Past'[i] + request'[q].wait >= Spacing
    <3>1. PICK j \in 1 .. Len(Past) : Past'[i] = Past[j] + 1
      BY <1>6
    <3>2. Past[j] \in Nat /\ Past[j] + request[q].wait >= Spacing
      BY <1>1, <2>1 DEF SlotsOK
    <3>3. \A age, wait \in Nat : (age + 1) + (wait - 1) = age + wait
      OBVIOUS
    <3>4. Past'[i] + request'[q].wait = Past[j] + request[q].wait
      BY <2>1, <3>1, <3>2, <3>3, Zenon
    <3> QED BY <3>2, <3>4
  <2> QED BY <2>2, <2>3
<1>10. ASSUME NEW r \in Callers, NEW s \in Callers, r # s, Booked(r)', Booked(s)'
       PROVE  \/ request'[r].wait + Spacing <= request'[s].wait
              \/ request'[s].wait + Spacing <= request'[r].wait
  <2>1. /\ Booked(r) /\ request'[r].wait = request[r].wait - 1 /\ request[r].wait \in Nat
        /\ Booked(s) /\ request'[s].wait = request[s].wait - 1 /\ request[s].wait \in Nat
    BY <1>1, <1>7, <1>10
  <2>2. \/ request[r].wait + Spacing <= request[s].wait
        \/ request[s].wait + Spacing <= request[r].wait
    BY <1>10, <2>1 DEF SlotsOK
  <2>3. \A a, b \in Nat : a + Spacing <= b => (a - 1) + Spacing <= b - 1
    BY <1>1
  <2> QED BY <2>1, <2>2, <2>3, Zenon
<1> QED
  BY <1>5, <1>8, <1>9, <1>10 DEF SlotsOK

\* Every other step leaves the slots alone, and sends only into a window with room.
LEMMA OthersLeaveSlots ==
    ASSUME DeferralInv, Next, ~Tick,
           \A q \in Callers : ~MusicBrainzTurn(q) /\ ~(Wake(q) /\ Booked(q))
    PROVE  /\ UNCHANGED slot /\ Past' = Past
           /\ \A r \in Callers : Booked(r)' => request'[r] = request[r]
<1> DEFINE Left == /\ UNCHANGED slot /\ Past' = Past
                   /\ \A r \in Callers : Booked(r)' => request'[r] = request[r]
<1>1. /\ RequestsOK /\ sends \in [Providers -> Seq(Nat)]
      /\ \A q \in Callers : request[q] \in Requests
  BY DEF DeferralInv, RequestsTyped, LimitersOK, RequestsOK
<1>2. ASSUME UNCHANGED <<slot, sends, request>> PROVE Left
  BY <1>2 DEF Past
<1>3. ASSUME NEW q \in Callers, NEW fields, Update(q, fields), fields.at # "booked",
             UNCHANGED slot, Past' = Past
      PROVE  Left
  BY <1>1, <1>3, OneMoves
<1> HIDE DEF Left
<1>4. NoRequest.at = "idle"
  BY DEF NoRequest
<1>5. ASSUME NEW q \in Callers, NEW at, at # "booked",
             NEW fields \in {[request[q] EXCEPT !.at = at]} \cup
                            {[request[q] EXCEPT !.at = at, !.wait = w] : w \in Nat} \cup
                            {[request[q] EXCEPT !.at = at, !.attempt = @ + 1]}
      PROVE  fields.at # "booked"
  BY <1>1, <1>5 DEF Requests
<1>6. ASSUME NEW q \in Callers, NEW p \in Providers, Ask(q, p) PROVE Left
  <2> DEFINE new == [NoRequest EXCEPT !.at = "turn", !.provider = p, !.attempt = 1]
  <2>1. new.at = "turn"
    BY DEF NoRequest
  <2>2. Update(q, new) /\ UNCHANGED slot /\ Past' = Past
    BY <1>6 DEF Ask, limiters, history, Past
  <2> HIDE DEF new
  <2> QED BY <1>3, <2>1, <2>2
<1>7. ASSUME NEW q \in Callers, DiscogsTurn(q) PROVE Left
  <2>1. UNCHANGED slot /\ Past' = Past
    BY <1>1, <1>7 DEF DiscogsTurn, Sent, Past, Providers
  <2>2. PICK fields : Update(q, fields) /\ fields.at \in {"sent", "crowded"}
    <3>1. \/ Update(q, [request[q] EXCEPT !.at = "sent"])
          \/ \E w : Update(q, [request[q] EXCEPT !.at = "crowded", !.wait = w])
      BY <1>7 DEF DiscogsTurn
    <3>2. /\ [request[q] EXCEPT !.at = "sent"].at = "sent"
          /\ \A w : [request[q] EXCEPT !.at = "crowded", !.wait = w].at = "crowded"
      BY <1>1 DEF Requests
    <3> QED BY <3>1, <3>2
  <2> QED BY <1>3, <2>1, <2>2
<1>8. ASSUME NEW q \in Callers, Wake(q), ~Booked(q) PROVE Left
  <2>1. UNCHANGED slot /\ Past' = Past
    BY <1>8 DEF Wake, limiters, Booked, Past
  <2>2. PICK fields : Update(q, fields) /\ fields.at = "turn"
    <3>1. \/ Update(q, [request[q] EXCEPT !.at = "turn"])
          \/ Update(q, [request[q] EXCEPT !.at = "turn", !.attempt = @ + 1])
      BY <1>8 DEF Wake, Booked
    <3>2. /\ [request[q] EXCEPT !.at = "turn"].at = "turn"
          /\ [request[q] EXCEPT !.at = "turn", !.attempt = @ + 1].at = "turn"
      BY <1>1 DEF Requests
    <3> QED BY <3>1, <3>2
  <2> QED BY <1>3, <2>1, <2>2
<1>9. ASSUME NEW q \in Callers, GiveUp(q) \/ Settled(q) PROVE Left
  <2>1. Update(q, NoRequest) /\ UNCHANGED slot /\ Past' = Past
    BY <1>9 DEF GiveUp, Settled, End, limiters, history, Past
  <2> QED BY <1>3, <1>4, <2>1
<1>10. ASSUME NEW q \in Callers,
              \/ Broken(q) \/ \E told \in Told : Transient(q, told)
              \/ \E told \in Told : TransientForAsker(q, told)
       PROVE  Left
  <2>1. UNCHANGED slot /\ Past' = Past
    BY <1>10 DEF Broken, Transient, TransientForAsker, limiters, history, Past
  <2>2. End(q) \/ \E w : Pause(q, w)
    BY <1>10 DEF Broken, Transient, TransientForAsker
  <2>3. PICK fields : Update(q, fields) /\ fields.at \in {"idle", "pause"}
    <3>1. \A w : [request[q] EXCEPT !.at = "pause", !.wait = w].at = "pause"
      BY <1>1 DEF Requests
    <3> QED BY <1>4, <2>2, <3>1 DEF End, Pause
  <2> QED BY <1>3, <2>1, <2>3
<1>11. ASSUME NEW l \in Lookups, Cancel(l) \/ Finish(l) PROVE Left
  BY <1>2, <1>11 DEF Cancel, Finish, limiters, history
<1>12. Left
  BY <1>6, <1>7, <1>8, <1>9, <1>10, <1>11 DEF Next, Run, Reply
<1> QED BY <1>12 DEF Left

LEMMA SlotsKept == ASSUME DeferralInv, SlotsOK, [Next]_vars PROVE SlotsOK'
<1>1. RequestsTyped
  BY DEF DeferralInv
<1>2. CASE UNCHANGED vars
  BY <1>2, SlotsUntouched DEF vars, limiters, history, Past
<1>3. CASE Tick
  BY <1>1, <1>3, TickKeepsSlots
<1>4. CASE \E q \in Callers : MusicBrainzTurn(q)
  BY <1>1, <1>4, MusicBrainzKeepsSlots
<1>5. CASE \E q \in Callers : Wake(q) /\ Booked(q)
  BY <1>1, <1>5, BookedWakeKeepsSlots
<1>6. CASE Next /\ ~Tick /\ \A q \in Callers : ~MusicBrainzTurn(q) /\ ~(Wake(q) /\ Booked(q))
  BY <1>6, OthersLeaveSlots, SlotsUntouched
<1> QED BY <1>2, <1>3, <1>4, <1>5, <1>6

\* A request leaves by its turn or from its slot.
LEMMA WhoSends ==
    ASSUME DeferralInv, Next, NEW q \in Callers, Sends(q)
    PROVE  /\ Sent(q) /\ UNCHANGED lowest /\ request[q].provider \in Providers
           /\ \/ request[q].provider = "discogs" /\ Len(Counted(stamps)) < maximum
              \/ /\ request[q].provider = "musicbrainz"
                 /\ slot = 0 \/ (Booked(q) /\ request[q].wait = 0)
<1>1. /\ RequestsOK /\ request \in [Callers -> Requests]
      /\ \A r \in Callers : request[r] \in Requests /\ RequestOK(request[r])
  BY DEF DeferralInv, RequestsTyped, RequestsOK
<1>2. ASSUME NEW r \in Callers, NEW fields, Update(r, fields)
      PROVE  request'[r] = fields /\ \A s \in Callers \ {r} : request'[s] = request[s]
  BY <1>1, <1>2 DEF Update
<1>3. ASSUME NEW r \in Callers, NEW fields, Update(r, fields) PROVE r = q /\ fields.at = "sent"
  BY <1>2, <1>3 DEF Sends
<1>4. request[q].at # "sent"
  BY DEF Sends
<1>5. ~(UNCHANGED request)
  BY DEF Sends
<1>6. \A r \in Callers : ~End(r)
  BY <1>3 DEF End, NoRequest
<1>7. \A r \in Callers, p \in Providers : ~Ask(r, p)
  <2>1. \A p : [NoRequest EXCEPT !.at = "turn", !.provider = p, !.attempt = 1].at = "turn"
    BY DEF NoRequest
  <2> QED BY <1>3, <2>1 DEF Ask
<1>8. \A w : \A r \in Callers : ~Pause(r, w)
  <2>1. \A w : \A r \in Callers : [request[r] EXCEPT !.at = "pause", !.wait = w].at = "pause"
    BY <1>1 DEF Requests
  <2> QED BY <1>3, <2>1 DEF Pause
<1>9. \A r \in Callers : ~GiveUp(r) /\ ~Reply(r)
  BY <1>6, <1>8 DEF GiveUp, Reply, Settled, Broken, Transient, TransientForAsker
<1>10. ~Tick
  <2> SUFFICES ASSUME Tick PROVE FALSE
    OBVIOUS
  <2>1. request'[q] = [request[q] EXCEPT !.wait = Less(@)]
    BY DEF Tick
  <2>2. request'[q].at = request[q].at
    BY <1>1, <2>1 DEF Requests
  <2> QED BY <2>2 DEF Sends
<1>11. PICK r \in Callers : Run(r)
  BY <1>5, <1>7, <1>9, <1>10 DEF Next, Cancel, Finish
<1>12. request[q].provider \in Providers
  BY <1>1 DEF Requests
<1>13. CASE DiscogsTurn(r)
  <2>1. CASE Len(Counted(stamps)) < maximum
    <3>1. Update(r, [request[r] EXCEPT !.at = "sent"]) /\ Sent(r) /\ UNCHANGED lowest
          /\ request[r].provider = "discogs"
      BY <1>13, <2>1 DEF DiscogsTurn
    <3> QED BY <1>3, <1>12, <2>1, <3>1
  <2>2. CASE ~(Len(Counted(stamps)) < maximum)
    <3>1. \E w : Update(r, [request[r] EXCEPT !.at = "crowded", !.wait = w])
      BY <1>13, <2>2 DEF DiscogsTurn
    <3>2. \A w : [request[r] EXCEPT !.at = "crowded", !.wait = w].at = "crowded"
      BY <1>1 DEF Requests
    <3> QED BY <1>3, <3>1, <3>2
  <2> QED BY <2>1, <2>2
<1>14. CASE MusicBrainzTurn(r)
  <2>1. CASE slot = 0
    <3>1. Update(r, [request[r] EXCEPT !.at = "sent"]) /\ Sent(r) /\ UNCHANGED lowest
          /\ request[r].provider = "musicbrainz"
      BY <1>14, <2>1 DEF MusicBrainzTurn
    <3> QED BY <1>3, <1>12, <2>1, <3>1
  <2>2. CASE slot # 0
    <3>1. Update(r, [request[r] EXCEPT !.at = "booked", !.wait = slot])
      BY <1>14, <2>2 DEF MusicBrainzTurn
    <3>2. [request[r] EXCEPT !.at = "booked", !.wait = slot].at = "booked"
      BY <1>1, ZenonT(30) DEF Requests
    <3> QED BY <1>3, <3>1, <3>2
  <2> QED BY <2>1, <2>2
<1>15. CASE Wake(r)
  <2>1. CASE Booked(r)
    <3>1. /\ Update(r, [request[r] EXCEPT !.at = "sent"]) /\ Sent(r) /\ UNCHANGED lowest
          /\ request[r].wait = 0 /\ request[r].provider = "musicbrainz"
      BY <1>1, <1>15, <2>1 DEF Wake, Booked, RequestOK
    <3> QED BY <1>3, <1>12, <2>1, <3>1
  <2>2. CASE ~Booked(r)
    <3>1. \/ Update(r, [request[r] EXCEPT !.at = "turn"])
          \/ Update(r, [request[r] EXCEPT !.at = "turn", !.attempt = @ + 1])
      BY <1>15, <2>2 DEF Wake, Booked
    <3>2. /\ [request[r] EXCEPT !.at = "turn"].at = "turn"
          /\ [request[r] EXCEPT !.at = "turn", !.attempt = @ + 1].at = "turn"
      BY <1>1 DEF Requests
    <3> QED BY <1>3, <3>1, <3>2
  <2> QED BY <2>1, <2>2
<1> QED BY <1>9, <1>11, <1>13, <1>14, <1>15 DEF Run

LEMMA SendIsPaced ==
    ASSUME DeferralInv, SlotsOK, Next, NEW q \in Callers, Sends(q)
    PROVE  Len(sends'[request[q].provider]) <=
              IF request[q].provider = "discogs" THEN lowest ELSE 1
<1> DEFINE p == request[q].provider
<1>1. /\ RequestsTyped /\ WindowOK /\ sends \in [Providers -> Seq(Nat)]
      /\ maximum = lowest /\ maximum \in Nat /\ sends["discogs"] = Counted(stamps)
  BY TimesAssumption DEF DeferralInv, RequestsTyped, LimitersOK, WindowOK, Counted
<1>2. /\ Sent(q) /\ p \in Providers
      /\ \/ p = "discogs" /\ Len(Counted(stamps)) < maximum
         \/ p = "musicbrainz" /\ (slot = 0 \/ (Booked(q) /\ request[q].wait = 0))
  BY WhoSends
<1>3. sends'[p] = Append(sends[p], 0) /\ sends[p] \in Seq(Nat)
  BY <1>1, <1>2 DEF Sent
<1> HIDE DEF p
<1>4. Len(sends'[p]) = Len(sends[p]) + 1 /\ Len(sends[p]) \in Nat
  BY <1>3
<1>5. CASE p = "discogs" /\ Len(Counted(stamps)) < maximum
  BY <1>1, <1>4, <1>5 DEF p
<1>6. CASE p = "musicbrainz" /\ (slot = 0 \/ (Booked(q) /\ request[q].wait = 0))
  <2>1. Len(sends[p]) = 0
    BY <1>1, <1>6, PastIsOver DEF Past
  <2> QED BY <1>4, <1>6, <2>1 DEF p
<1> QED BY <1>2, <1>5, <1>6

----------------------------------------------------------------------------
(* Theorems.                                                               *)

RequestsInv == DeferralInv /\ SlotsOK

\* What the theorems rest on: every request keeps its shape, Discogs's window is
\* what its ledger holds of the last minute, the booked slots of MusicBrainz lie a
\* spacing apart, the longest delay told to a lookup is noted, and it is slept for
\* until an attempt gives up (DiscogsRateLimiter, wait_for_musicbrainz,
\* execute_with_retry).
THEOREM RequestsAreSound == Spec => []RequestsInv
<1>1. Init => SlotsOK
  <2> SUFFICES ASSUME Init PROVE SlotsOK
    OBVIOUS
  <2>1. Len(Past) = 0 /\ \A q \in Callers : ~Booked(q)
    BY DEF Init, Past, Providers, Booked, NoRequest
  <2> QED BY <2>1 DEF SlotsOK
<1>2. RequestsInv /\ [Next]_vars => RequestsInv'
  BY InvKept, SlotsKept DEF RequestsInv
<1>3. Init => RequestsInv
  BY <1>1, InvStart DEF RequestsInv
<1> QED
  BY <1>2, <1>3, PTL DEF Spec

\* Types.  The sleep of a crowded window is a number because the window has an
\* oldest send, younger than the window is long (DiscogsRateLimiter::wait).
THEOREM RequestsTypeOK == Spec => []TypeOK
<1>1. RequestsInv => TypeOK
  BY DEF RequestsInv, DeferralInv, RequestsTyped, RequestsOK, LimitersOK, WindowOK, Requests, Points,
         TypeOK
<1> QED
  BY <1>1, RequestsAreSound, PTL

\* Whoever sends, and whether for the first time or again: a window never holds
\* more Discogs sends than the lowest limit announced so far, and two sends to
\* MusicBrainz are a slot apart (DiscogsRateLimiter::wait and observe,
\* wait_for_musicbrainz_with_cancellation).
THEOREM SendsArePaced == Spec => PacingHolds
<1> DEFINE Paced ==
       \A q \in Callers : Sends(q) =>
          Len(sends'[request[q].provider]) <=
              IF request[q].provider = "discogs" THEN lowest ELSE 1
<1>1. RequestsInv /\ [Next]_vars => [Paced]_vars
  BY SendIsPaced DEF RequestsInv
<1>2. PacingHolds <=> [][Paced]_vars
  BY DEF PacingHolds
<1> HIDE DEF Paced
<1> QED
  BY <1>1, <1>2, RequestsAreSound, PTL DEF Spec

\* An album that is deferred is not due before any time its lookup was told by a
\* provider (execute_with_retry, record_retry, the deferral of an album).
THEOREM DeferralsWait == Spec => []DeferralCoversTold
<1>1. RequestsInv => DeferralCoversTold
  BY DEF RequestsInv, DeferralInv
<1> QED
  BY <1>1, RequestsAreSound, PTL
=============================================================================
