-------------------------- MODULE ProviderRequests --------------------------
(***************************************************************************)
(* Requests to MusicBrainz and Discogs: pacing, retries and deferral       *)
(* (src-tauri/src/state/providers.rs).                                     *)
(*                                                                         *)
(* All clients of a process share two limiters: MusicBrainz hands out one  *)
(* slot after the other, Discogs counts the sends of the last minute.  The *)
(* requests of an auto-tag lookup carry a retry context: a transient       *)
(* failure is retried twice, after the delay the provider asked for or one *)
(* of a table, and a delay that is too long to wait for ends the request   *)
(* and defers the album.  Requests of the user interface carry none.       *)
(*                                                                         *)
(* Time is relative: a sleeper counts down, a send grows older.  Timers    *)
(* fire on time and steps between two awaits take none, so time stands     *)
(* still while anyone can run; an answer may take any time.                *)
(***************************************************************************)
EXTENDS Naturals, Sequences, FiniteSetsExt

CONSTANTS
    Lookups,      \* auto-tag lookups, with a retry context
    Askers,       \* callers without one
    Cap,          \* Discogs sends a window may hold: 25 a minute
    Window,       \* length of that window
    Spacing,      \* time between two MusicBrainz sends: a second
    RetryDelays,  \* delays of the first and the second retry: 1 s and 3 s
    InlineLimit,  \* longest delay a request waits for itself: 30 s
    Backoff,      \* least delay of a deferred album
    Told,         \* values of Retry-After; 0 stands for none
    Limits,       \* values of X-Discogs-Ratelimit
    MaxAsked      \* bound: requests of each caller

ASSUME CallersAssumption == Lookups \cap Askers = {}
ASSUME TimesAssumption ==
    /\ Cap \in Nat \ {0} /\ Window \in Nat \ {0} /\ Spacing \in Nat \ {0}
    /\ RetryDelays \in Seq(Nat) /\ Len(RetryDelays) = 2
    /\ InlineLimit \in Nat /\ Backoff \in Nat /\ MaxAsked \in [Lookups \cup Askers -> Nat]
    /\ Told \subseteq Nat /\ 0 \in Told /\ Limits \subseteq Nat \ {0}

VARIABLES
    stamps,    \* DiscogsRateLimiter::timestamps, as ages, oldest first
    maximum,   \* DiscogsRateLimiter::maximum
    slot,      \* MUSICBRAINZ_LAST_REQUEST: how far ahead the next slot is
    request,   \* the request of every caller
    metrics,   \* ProviderRetryMetrics of each lookup and provider
    cancelled, \* the lookups whose cancellation flag is set
    asked,     \* requests made so far
    verdict,   \* what became of a lookup: "open", "answered", "cancelled" or "deferred"
    due,       \* how far ahead the retry of a deferred album is
    sends,     \* history variable: ages of the sends to each provider
    lowest,    \* history variable: the lowest limit Discogs has announced
    embargo    \* history variable: what is left of the Retry-After told to a lookup

limiters == <<stamps, maximum, slot>>
outcome == <<verdict, due>>
history == <<sends, lowest, embargo>>
vars == <<limiters, request, metrics, cancelled, asked, outcome, history>>

Callers == Lookups \cup Askers
Providers == {"musicbrainz", "discogs"}
MaxAttempts == 3

NoRequest == [at |-> "idle", provider |-> "discogs", attempt |-> 0, wait |-> 0]

Init ==
    /\ stamps = <<>> /\ maximum = Cap /\ slot = 0
    /\ request = [q \in Callers |-> NoRequest]
    /\ metrics = [l \in Lookups |-> [p \in Providers |-> [transient |-> FALSE, told |-> 0]]]
    /\ cancelled = {}
    /\ asked = [q \in Callers |-> 0]
    /\ verdict = [l \in Lookups |-> "open"] /\ due = [l \in Lookups |-> 0]
    /\ sends = [p \in Providers |-> <<>>] /\ lowest = Cap
    /\ embargo = [l \in Lookups |-> [p \in Providers |-> 0]]

-----------------------------------------------------------------------------
(* Helpers *)

Larger(a, b) == IF a >= b THEN a ELSE b
Smaller(a, b) == IF a <= b THEN a ELSE b
Less(n) == IF n = 0 THEN 0 ELSE n - 1

Update(q, fields) == request' = [request EXCEPT ![q] = fields]
End(q) == Update(q, NoRequest)

\* The request leaves; its provider counts it.
Sent(q) == sends' = [sends EXCEPT ![request[q].provider] = Append(@, 0)]

\* Mutant: the last delay is kept.
NotedLast(l, transient, told) ==
    metrics' = [metrics EXCEPT ![l][request[l].provider] =
                   [transient |-> @.transient \/ transient, told |-> told]]

\* observe_transient_failure and record_retry: the longest delay is kept.
Noted(l, transient, told) ==
    metrics' = [metrics EXCEPT ![l][request[l].provider] =
                   [transient |-> @.transient \/ transient, told |-> Larger(@.told, told)]]

\* retry_delay: the provider's delay, unless it names none.
RetryDelay(attempt, told) == IF told > 0 THEN told ELSE RetryDelays[attempt]

-----------------------------------------------------------------------------
(* Waiting for a turn *)

Ask(q, p) ==
    /\ request[q].at = "idle" /\ asked[q] < MaxAsked[q]
    /\ q \in Lookups => verdict[q] = "open" /\ q \notin cancelled
    /\ Update(q, [NoRequest EXCEPT !.at = "turn", !.provider = p, !.attempt = 1])
    /\ asked' = [asked EXCEPT ![q] = @ + 1]
    /\ UNCHANGED <<limiters, metrics, cancelled, outcome, history>>

\* The ages below span.  The oldest send comes first, so those that are left
\* out are a prefix.
Leaving(ages, span) ==
    CHOOSE k \in 0 .. Len(ages) : \A i \in DOMAIN ages : i <= k <=> ages[i] >= span
Recent(ages, span) == SubSeq(ages, Leaving(ages, span) + 1, Len(ages))

\* Mutant: a send that has left the window is still counted.
EverCounted(ages) == ages

\* retain: the sends of the last minute.
Counted(ages) == Recent(ages, Window)

\* DiscogsRateLimiter::wait: under one lock, count this send or find out how
\* long the oldest one stays in the window; after that, look again.
DiscogsTurn(q) ==
    /\ request[q].at = "turn" /\ request[q].provider = "discogs" /\ q \notin cancelled
    /\ LET recent == Counted(stamps)
       IN  IF Len(recent) < maximum
           THEN /\ stamps' = Append(recent, 0)
                /\ Update(q, [request[q] EXCEPT !.at = "sent"])
                /\ Sent(q)
           ELSE /\ stamps' = recent
                /\ Update(q, [request[q] EXCEPT !.at = "crowded", !.wait = Window - Head(recent)])
                /\ UNCHANGED sends
    /\ UNCHANGED <<maximum, slot, metrics, cancelled, asked, outcome, lowest, embargo>>

\* Mutant: the next slot is counted from now, not from the one reserved.
ReservedFromNow(delay) == Spacing

\* wait_for_musicbrainz_with_cancellation: the slot is reserved under the
\* lock, slept for without it, and used whoever else has come meanwhile.
Reserved(delay) == delay + Spacing

MusicBrainzTurn(q) ==
    /\ request[q].at = "turn" /\ request[q].provider = "musicbrainz" /\ q \notin cancelled
    /\ slot' = Reserved(slot)
    /\ IF slot = 0
       THEN Update(q, [request[q] EXCEPT !.at = "sent"]) /\ Sent(q)
       ELSE Update(q, [request[q] EXCEPT !.at = "booked", !.wait = slot]) /\ UNCHANGED sends
    /\ UNCHANGED <<stamps, maximum, metrics, cancelled, asked, outcome, lowest, embargo>>

\* A sleep ends: a MusicBrainz slot is used at once, a crowded Discogs window
\* is looked at again, and a retry asks for a turn.
Wake(q) ==
    /\ request[q].at \in {"booked", "crowded", "pause"} /\ request[q].wait = 0
    /\ q \notin cancelled
    /\ \/ request[q].at = "booked" /\ Update(q, [request[q] EXCEPT !.at = "sent"]) /\ Sent(q)
       \/ request[q].at = "crowded" /\ Update(q, [request[q] EXCEPT !.at = "turn"]) /\ UNCHANGED sends
       \/ /\ request[q].at = "pause"
          /\ Update(q, [request[q] EXCEPT !.at = "turn", !.attempt = @ + 1])
          /\ UNCHANGED sends
    /\ UNCHANGED <<limiters, metrics, cancelled, asked, outcome, lowest, embargo>>

-----------------------------------------------------------------------------
(* Answers *)

\* observe: every Discogs answer may announce a limit, and a lower one stays.
Lowered(limit) == Smaller(maximum, limit)

Observe(q) ==
    \/ UNCHANGED <<maximum, lowest>>
    \/ /\ request[q].provider = "discogs"
       /\ \E limit \in Limits :
             /\ maximum' = Lowered(limit)
             /\ lowest' = Smaller(lowest, limit)

Pause(q, delay) == Update(q, [request[q] EXCEPT !.at = "pause", !.wait = delay])

\* The request succeeds, or fails in a way that no retry would mend.
Settled(q) ==
    /\ request[q].at = "sent"
    /\ Observe(q)
    /\ End(q)
    /\ UNCHANGED <<stamps, slot, metrics, cancelled, asked, outcome, sends, embargo>>

Embargoed(l, told) == embargo' = [embargo EXCEPT ![l][request[l].provider] = Larger(@, told)]

\* A retryable status in a lookup: too long a delay defers it, the last
\* attempt gives up, and otherwise it is tried again after the delay.
Transient(l, told) ==
    /\ request[l].at = "sent"
    /\ Observe(l)
    /\ LET delay == RetryDelay(request[l].attempt, told)
       IN  IF request[l].attempt < MaxAttempts /\ delay <= InlineLimit
           THEN Noted(l, FALSE, told) /\ Pause(l, delay)
           ELSE Noted(l, TRUE, told) /\ End(l)
    /\ Embargoed(l, told)
    /\ UNCHANGED <<stamps, slot, cancelled, asked, outcome, sends>>

\* A timeout or a refused connection in a lookup.
Broken(l) ==
    /\ request[l].at = "sent"
    /\ IF request[l].attempt < MaxAttempts
       THEN Noted(l, FALSE, 0) /\ Pause(l, RetryDelay(request[l].attempt, 0))
       ELSE Noted(l, TRUE, 0) /\ End(l)
    /\ UNCHANGED <<limiters, cancelled, asked, outcome, history>>

\* Without a context some requests to MusicBrainz are repeated once, after
\* whatever delay they are told; the others fail at once (Settled).
TransientForAsker(q, told) ==
    /\ request[q].at = "sent" /\ request[q].provider = "musicbrainz" /\ request[q].attempt = 1
    /\ Pause(q, RetryDelay(1, told))
    /\ UNCHANGED <<limiters, metrics, cancelled, asked, outcome, history>>

-----------------------------------------------------------------------------
(* Cancellation and the end of a lookup *)

Cancel(l) ==
    /\ verdict[l] = "open" /\ l \notin cancelled
    /\ cancelled' = cancelled \cup {l}
    /\ UNCHANGED <<limiters, request, metrics, asked, outcome, history>>

\* Every sleep polls the flag, and so does every attempt; an answer that is
\* on its way is waited for.
GivesUp(q) == q \in cancelled /\ request[q].at \in {"turn", "crowded", "booked", "pause"}

GiveUp(q) ==
    /\ GivesUp(q)
    /\ End(q)
    /\ UNCHANGED <<limiters, metrics, cancelled, asked, outcome, history>>

\* What a deferral waits for: the longest delay of the providers whose
\* attempt is retryable, and never less than the backoff.
Longest(l, providers) == Max({0} \cup {metrics[l][p].told : p \in providers})

\* The album is deferred when a provider failed for the moment and no match
\* was good enough without it.
Finish(l) ==
    /\ verdict[l] = "open" /\ request[l].at = "idle" /\ asked[l] > 0
    /\ LET retryable == {p \in Providers : metrics[l][p].transient}
       IN  \/ /\ verdict' = [verdict EXCEPT ![l] = IF l \in cancelled THEN "cancelled" ELSE "answered"]
              /\ UNCHANGED due
           \/ /\ retryable # {} /\ l \notin cancelled
              /\ verdict' = [verdict EXCEPT ![l] = "deferred"]
              /\ due' = [due EXCEPT ![l] = Larger(Backoff, Longest(l, retryable))]
    /\ UNCHANGED <<limiters, request, metrics, cancelled, asked, history>>

-----------------------------------------------------------------------------
(* Time *)

\* Someone runs before time goes on.
Ready(q) ==
    \/ request[q].at = "turn"
    \/ request[q].at \in {"booked", "crowded", "pause"} /\ request[q].wait = 0
    \/ GivesUp(q)

Span(p) == IF p = "discogs" THEN Window ELSE Spacing
Older(ages, span) == [i \in DOMAIN ages |-> Smaller(ages[i] + 1, span)]

Tick ==
    /\ \A q \in Callers : ~Ready(q)
    /\ stamps' = Older(stamps, Window)
    /\ slot' = Less(slot)
    /\ request' = [q \in Callers |-> [request[q] EXCEPT !.wait = Less(@)]]
    /\ due' = [l \in Lookups |-> Less(due[l])]
    /\ sends' = [p \in Providers |-> Recent(Older(sends[p], Span(p)), Span(p))]
    /\ embargo' = [l \in Lookups |-> [p \in Providers |-> Less(embargo[l][p])]]
    /\ UNCHANGED <<maximum, metrics, cancelled, asked, verdict, lowest>>

Run(q) == DiscogsTurn(q) \/ MusicBrainzTurn(q) \/ Wake(q) \/ GiveUp(q)

Reply(q) ==
    \/ Settled(q)
    \/ q \in Lookups /\ (Broken(q) \/ \E told \in Told : Transient(q, told))
    \/ q \in Askers /\ \E told \in Told : TransientForAsker(q, told)

Next ==
    \/ \E q \in Callers : (\E p \in Providers : Ask(q, p)) \/ Run(q) \/ Reply(q)
    \/ \E l \in Lookups : Cancel(l) \/ Finish(l)
    \/ Tick

\* Whoever can run runs, a request is answered or times out, time passes.
Fairness == WF_vars(Tick) /\ \A q \in Callers : WF_vars(Run(q)) /\ WF_vars(Reply(q))

Spec == Init /\ [][Next]_vars /\ Fairness

-----------------------------------------------------------------------------
(* Properties *)

TypeOK ==
    /\ stamps \in Seq(0 .. Window) /\ Len(stamps) <= Cap
    /\ maximum \in 1 .. Cap /\ slot \in Nat
    /\ request \in [Callers -> [at : {"idle", "turn", "crowded", "booked", "pause", "sent"},
                                provider : Providers, attempt : 0 .. MaxAttempts,
                                wait : Nat]]
    /\ metrics \in [Lookups -> [Providers -> [transient : BOOLEAN, told : Nat]]]
    /\ cancelled \in SUBSET Lookups
    /\ asked \in [Callers -> Nat]
    /\ verdict \in [Lookups -> {"open", "answered", "cancelled", "deferred"}]
    /\ due \in [Lookups -> Nat]
    /\ embargo \in [Lookups -> [Providers -> Nat]]

Sends(q) == request[q].at # "sent" /\ request'[q].at = "sent"

\* Whoever sends, and whether for the first time or again: a window never
\* holds more Discogs sends than the lowest limit announced so far, and two
\* sends to MusicBrainz are a slot apart.
PacingHolds ==
    [][\A q \in Callers : Sends(q) =>
          Len(sends'[request[q].provider]) <=
              IF request[q].provider = "discogs" THEN lowest ELSE 1]_vars

\* An album that is deferred is not due before any of the times its lookup
\* was told, by whatever request and however long ago.
\* docs/auto-tag-evidence.md:13: "provider Retry-After deadlines are never
\* shortened".
DeferralCoversTold ==
    \A l \in Lookups : verdict[l] = "deferred" =>
                          \A p \in Providers : embargo[l][p] <= due[l]

\* No request waits for ever, for its turn, for a retry or for an answer.
RequestEnds == \A q \in Callers : request[q].at # "idle" ~> request[q].at = "idle"

=============================================================================
