------------------------------ MODULE EventBus ------------------------------
(***************************************************************************)
(* The event stream of the web runtime: EventBus                           *)
(* (src-tauri/src/state/events.rs), the /api/v1/events handler and its     *)
(* next_event (src-tauri/src/server.rs), and the WebEventBus of one page   *)
(* (src/shared/web-adapter.ts) with the browser's EventSource under it.    *)
(*                                                                         *)
(* An event is its sequence number; wanted holds the numbers whose channel *)
(* the page subscribes to.  The replay history and the broadcast ring have *)
(* the same capacity (256 in the code) and hold the latest events, so they *)
(* are the interval Oldest .. next.                                        *)
(*                                                                         *)
(* Bounds: MaxEvents published by one process, MaxGenerations processes,   *)
(* WireSize events sent and not yet read.                                  *)
(***************************************************************************)
EXTENDS Naturals, Sequences

CONSTANTS Capacity, MaxEvents, MaxGenerations, WireSize, NoCursor

ASSUME EventAssumption ==
    /\ Capacity \in Nat \ {0}
    /\ MaxEvents \in Nat
    /\ MaxGenerations \in Nat
    /\ WireSize \in Nat \ {0}
    /\ NoCursor \notin [generation : Nat, sequence : Nat]

VARIABLES
    generation,  \* the running process, by number
    next,        \* EventState.next_sequence: the last number given out
    wanted,      \* numbers given out on channels the page subscribes to
    stream,      \* EventStreamState of the page's connection
    source,      \* the page's EventSource: the cursor in its URL, its last event id
    cursor,      \* WebEventBus.lastEventId
    wire         \* ids sent and not yet read, sequence 0 for a gap

eventVars == <<generation, next, wanted, stream, source, cursor, wire>>

Cursor == [generation : Nat, sequence : Nat]
NoStream == [on |-> FALSE, replay |-> {}, last |-> 0, rx |-> 1, gap |-> FALSE,
             terminated |-> FALSE]
NoSource == [state |-> "none", url |-> NoCursor, id |-> NoCursor]

EventTypeOK ==
    /\ generation \in Nat
    /\ next \in Nat
    /\ wanted \in SUBSET (1 .. next)
    /\ stream \in [on : BOOLEAN, replay : SUBSET (1 .. next), last : Nat, rx : Nat,
                   gap : BOOLEAN, terminated : BOOLEAN]
    /\ source \in [state : {"none", "connecting", "open"},
                   url : Cursor \cup {NoCursor}, id : Cursor \cup {NoCursor}]
    /\ cursor \in Cursor \cup {NoCursor}
    /\ wire \in Seq(Nat)

EventInit ==
    /\ generation = 0
    /\ next = 0
    /\ wanted = {}
    /\ stream = NoStream
    /\ source = NoSource
    /\ cursor = NoCursor
    /\ wire = <<>>

At(s) == [generation |-> generation, sequence |-> s]

\* history.front(), for a history that is not empty.
Oldest == IF next > Capacity THEN next - Capacity + 1 ELSE 1

----------------------------------------------------------------------------
(* The server.                                                             *)

\* publish_value.
Publish ==
    /\ next < MaxEvents
    /\ next' = next + 1
    /\ wanted' \in {wanted, wanted \cup {next'}}
    /\ UNCHANGED <<generation, stream, source, cursor, wire>>

\* replay_and_subscribe: has the window moved past the cursor.
Gap(asked) ==
    /\ asked # NoCursor
    /\ \/ asked.generation # generation
       \/ asked.sequence > 0 /\ next > 0 /\ Oldest > asked.sequence + 1

After(asked) == IF asked = NoCursor THEN 0 ELSE asked.sequence

\* Mutant: the replay starts one event too late.
OpenedPast(asked) ==
    [on |-> TRUE,
     replay |-> {s \in wanted : Oldest <= s /\ After(asked) + 1 < s},
     last |-> After(asked), rx |-> next + 1,
     gap |-> Gap(asked), terminated |-> FALSE]

\* events: the replay and the receiver are taken under one lock.
Opened(asked) ==
    [on |-> TRUE,
     replay |-> {s \in wanted : Oldest <= s /\ After(asked) < s},
     last |-> After(asked), rx |-> next + 1,
     gap |-> Gap(asked), terminated |-> FALSE]

\* The cursor of the query comes before the Last-Event-ID header.
Asked == IF source.url # NoCursor THEN source.url ELSE source.id

Connect ==
    /\ source.state = "connecting"
    /\ source' = [source EXCEPT !.state = "open"]
    /\ stream' = Opened(Asked)
    /\ wire' = <<>>
    /\ UNCHANGED <<generation, next, wanted, cursor>>

Ready == stream.on /\ ~stream.terminated /\ Len(wire) < WireSize

Send(s) == wire' = Append(wire, s)

EmitGap ==
    /\ Ready /\ stream.gap
    /\ Send(0)
    /\ stream' = [stream EXCEPT !.gap = FALSE, !.terminated = TRUE]
    /\ UNCHANGED <<generation, next, wanted, source, cursor>>

First(s) == s \in stream.replay /\ \A t \in stream.replay : s <= t

EmitReplay ==
    /\ Ready /\ ~stream.gap
    /\ \E s \in stream.replay :
          /\ First(s)
          /\ Send(s)
          /\ stream' = [stream EXCEPT !.replay = @ \ {s}, !.last = s]
    /\ UNCHANGED <<generation, next, wanted, source, cursor>>

Receiving == Ready /\ ~stream.gap /\ stream.replay = {} /\ stream.rx <= next

Lagged == stream.rx < Oldest

EmitLive ==
    /\ Receiving /\ ~Lagged
    /\ stream.rx > stream.last /\ stream.rx \in wanted
    /\ Send(stream.rx)
    /\ stream' = [stream EXCEPT !.last = stream.rx, !.rx = @ + 1]
    /\ UNCHANGED <<generation, next, wanted, source, cursor>>

SkipLive ==
    /\ Receiving /\ ~Lagged
    /\ stream.rx <= stream.last \/ stream.rx \notin wanted
    /\ stream' = [stream EXCEPT !.rx = @ + 1]
    /\ UNCHANGED <<generation, next, wanted, source, cursor, wire>>

\* Mutant: a receiver that fell behind goes on with the oldest event left.
LagContinues ==
    /\ Receiving /\ Lagged
    /\ stream' = [stream EXCEPT !.rx = Oldest]
    /\ UNCHANGED <<generation, next, wanted, source, cursor, wire>>

\* A receiver that fell behind ends the stream.
LagCloses ==
    /\ Receiving /\ Lagged
    /\ stream' = [stream EXCEPT !.terminated = TRUE]
    /\ UNCHANGED <<generation, next, wanted, source, cursor, wire>>

\* The process ends and another takes its place: a new generation.
Restart ==
    /\ generation < MaxGenerations
    /\ generation' = generation + 1
    /\ next' = 0
    /\ wanted' = {}
    /\ stream' = NoStream
    /\ wire' = <<>>
    /\ source' = IF source.state = "none" THEN source
                 ELSE [source EXCEPT !.state = "connecting"]
    /\ UNCHANGED cursor

----------------------------------------------------------------------------
(* The page.                                                               *)

\* The first listener: ensureSource puts the last id known into the URL.
Subscribe ==
    /\ source.state = "none"
    /\ source' = [state |-> "connecting", url |-> cursor, id |-> NoCursor]
    /\ UNCHANGED <<generation, next, wanted, stream, cursor, wire>>

\* The last listener goes.
Unsubscribe ==
    /\ source.state # "none"
    /\ source' = NoSource
    /\ stream' = NoStream
    /\ wire' = <<>>
    /\ UNCHANGED <<generation, next, wanted, cursor>>

\* An event reaches the listeners.
Deliver ==
    /\ wire # <<>> /\ Head(wire) # 0
    /\ cursor' = At(Head(wire))
    /\ source' = [source EXCEPT !.id = At(Head(wire))]
    /\ wire' = Tail(wire)
    /\ UNCHANGED <<generation, next, wanted, stream>>

\* Mutant: the page is told to refresh and leaves the source to reconnect.
DeliverGapOnly ==
    /\ wire # <<>> /\ Head(wire) = 0
    /\ cursor' = At(0)
    /\ source' = [source EXCEPT !.id = At(0)]
    /\ wire' = Tail(wire)
    /\ UNCHANGED <<generation, next, wanted, stream>>

\* A replay gap: the page is told to refresh, and closes the source.
DeliverGap ==
    /\ wire # <<>> /\ Head(wire) = 0
    /\ cursor' = At(0)
    /\ source' = NoSource
    /\ stream' = NoStream
    /\ wire' = <<>>
    /\ UNCHANGED <<generation, next, wanted>>

\* EventSource asks again, with its own URL and its last event id.
Reconnect ==
    /\ source.state = "open"
    /\ source' = [source EXCEPT !.state = "connecting"]
    /\ stream' = NoStream
    /\ wire' = <<>>
    /\ UNCHANGED <<generation, next, wanted, cursor>>

\* The stream ended and was read to its end.
AtEnd == stream.terminated /\ wire = <<>>
Ended == AtEnd /\ Reconnect

\* The connection breaks.
Lose == ~AtEnd /\ Reconnect

----------------------------------------------------------------------------
Emit == EmitGap \/ EmitReplay \/ EmitLive \/ SkipLive \/ LagCloses
Receive == Deliver \/ DeliverGap \/ Ended

EventNext ==
    \/ Publish \/ Connect \/ Emit \/ Restart
    \/ Subscribe \/ Unsubscribe \/ Receive \/ Lose

EventSpec == EventInit /\ [][EventNext]_eventVars

\* The connection is made, served and read.  Nothing makes the page subscribe
\* and nobody has to publish.
EventFairness ==
    WF_eventVars(Connect) /\ WF_eventVars(Emit) /\ WF_eventVars(Receive)

FairEventSpec == EventSpec /\ EventFairness

----------------------------------------------------------------------------
(* Properties.                                                             *)

\* What a connection has not sent it still holds: every wanted event after
\* the last one sent waits in the replay or ahead of the receiver.
StreamOwesTheRest ==
    stream.on /\ ~stream.gap /\ ~stream.terminated /\ stream.last > 0 =>
        \A s \in wanted : stream.last < s => s \in stream.replay \/ stream.rx <= s

\* One event after another of the same process.
Follows == cursor # NoCursor /\ cursor'.generation = cursor.generation /\ cursor.sequence > 0

\* The first EventSource of a page, which has no cursor in its URL, delivers
\* each wanted event once and in order across any number of reconnects, or
\* reports a gap.
FirstSourceResumes ==
    [][source.url = NoCursor /\ cursor' # cursor /\ Follows =>
          \/ cursor'.sequence = 0
          \/ /\ cursor.sequence < cursor'.sequence
             /\ \A s \in wanted : ~(cursor.sequence < s /\ s < cursor'.sequence)]_eventVars

\* A page never takes an event of a new process for the continuation of the
\* old one: it is told of the gap first.
RestartIsTold ==
    [][cursor # NoCursor /\ cursor' # cursor /\ cursor'.generation # cursor.generation
          => cursor'.sequence = 0]_eventVars

\* A subscribed page is sent everything there is or told to refresh, once its
\* connection stops breaking.
UpToDate == stream.on /\ stream.replay = {} /\ next < stream.rx /\ wire = <<>>

SubscriberCatchesUp ==
    <>[][~Lose]_eventVars =>
        (source.state # "none" ~> UpToDate \/ source.state = "none")

=============================================================================
