--------------------------- MODULE EventBusProofs ---------------------------
(***************************************************************************)
(* What a connection owes its page, that a restart of the server is        *)
(* noticed and that a page's first source resumes where it stopped, for    *)
(* any capacity, any number of events and of processes, and any number of  *)
(* lost connections.  No fairness is assumed.                              *)
(***************************************************************************)
EXTENDS EventBus, SequenceTheorems, TLAPS

\* The replay that is left reaches up to the receiver.
ReplayReaches ==
    stream.on /\ ~stream.terminated =>
        \A s \in stream.replay, t \in wanted : s < t /\ t < stream.rx => t \in stream.replay

\* The receiver waits at most for the event that comes next.
ReceiverAtMostNext == stream.rx <= next + 1

StreamInv == EventTypeOK /\ ReplayReaches /\ ReceiverAtMostNext /\ StreamOwesTheRest

----------------------------------------------------------------------------
LEMMA StreamsStart == EventInit => StreamInv
  BY EventAssumption
  DEF EventInit, StreamInv, EventTypeOK, ReplayReaches, ReceiverAtMostNext,
      StreamOwesTheRest, NoStream, NoSource, Cursor

\* Every step of the server and the page keeps the types.
LEMMA TypesKept == EventTypeOK /\ [EventNext]_eventVars => EventTypeOK'
<1> SUFFICES ASSUME EventTypeOK, [EventNext]_eventVars PROVE EventTypeOK'
  OBVIOUS
<1> USE EventAssumption DEF EventTypeOK, Cursor, At
<1>1. CASE UNCHANGED eventVars
  BY <1>1 DEF eventVars
<1>2. CASE Publish
  BY <1>2 DEF Publish
<1>3. CASE Connect
  <2>1. After(Asked) \in Nat
    BY DEF After, Asked
  <2>2. Gap(Asked) \in BOOLEAN
    BY DEF Gap
  <2>3. {s \in wanted : Oldest <= s /\ After(Asked) < s} \in SUBSET (1 .. next)
    OBVIOUS
  <2>4. stream' \in [on : BOOLEAN, replay : SUBSET (1 .. next), last : Nat, rx : Nat,
                     gap : BOOLEAN, terminated : BOOLEAN]
    BY <1>3, <2>1, <2>2, <2>3 DEF Connect, Opened
  <2>5. source' \in [state : {"none", "connecting", "open"},
                     url : Cursor \cup {NoCursor}, id : Cursor \cup {NoCursor}]
    BY <1>3 DEF Connect
  <2> QED
    BY <1>3, <2>4, <2>5 DEF Connect
<1>4. CASE EmitGap
  <2>1. wire' \in Seq(Nat)
    BY <1>4 DEF EmitGap, Send
  <2> QED
    BY <1>4, <2>1 DEF EmitGap
<1>5. CASE EmitReplay
  <2>1. PICK s \in stream.replay :
            Send(s) /\ stream' = [stream EXCEPT !.replay = @ \ {s}, !.last = s]
    BY <1>5 DEF EmitReplay
  <2>2. s \in Nat
    OBVIOUS
  <2>3. wire' \in Seq(Nat)
    BY <2>1, <2>2 DEF Send
  <2> QED
    BY <1>5, <2>1, <2>2, <2>3 DEF EmitReplay
<1>6. CASE EmitLive
  <2>1. wire' \in Seq(Nat)
    BY <1>6 DEF EmitLive, Send
  <2>2. stream.rx \in Nat /\ stream.rx + 1 \in Nat
    OBVIOUS
  <2>3. stream' = [stream EXCEPT !.last = stream.rx, !.rx = stream.rx + 1]
    BY <1>6 DEF EmitLive
  <2>4. stream' \in [on : BOOLEAN, replay : SUBSET (1 .. next), last : Nat, rx : Nat,
                     gap : BOOLEAN, terminated : BOOLEAN]
    BY <2>2, <2>3
  <2> QED
    BY <1>6, <2>1, <2>4 DEF EmitLive
<1>7. CASE SkipLive
  <2>1. stream.rx + 1 \in Nat
    OBVIOUS
  <2> QED
    BY <1>7, <2>1 DEF SkipLive
<1>8. CASE LagCloses
  BY <1>8 DEF LagCloses
<1>9. CASE Restart
  <2>1. source' \in [state : {"none", "connecting", "open"},
                     url : Cursor \cup {NoCursor}, id : Cursor \cup {NoCursor}]
    BY <1>9 DEF Restart
  <2>2. wanted' \in SUBSET (1 .. next') /\ wire' \in Seq(Nat)
    BY <1>9 DEF Restart
  <2>3. stream' \in [on : BOOLEAN, replay : SUBSET (1 .. next'), last : Nat, rx : Nat,
                     gap : BOOLEAN, terminated : BOOLEAN]
    BY <1>9 DEF Restart, NoStream
  <2> QED
    BY <1>9, <2>1, <2>2, <2>3 DEF Restart
<1>10. CASE Subscribe
  BY <1>10 DEF Subscribe
<1>11. CASE Unsubscribe
  BY <1>11 DEF Unsubscribe, NoStream, NoSource
<1>12. CASE Deliver
  <2>1. Head(wire) \in Nat /\ wire' \in Seq(Nat)
    BY <1>12, HeadTailProperties DEF Deliver
  <2>2. At(Head(wire)) \in Cursor
    BY <2>1
  <2> QED
    BY <1>12, <2>1, <2>2 DEF Deliver
<1>13. CASE DeliverGap
  BY <1>13 DEF DeliverGap, NoStream, NoSource
<1>14. CASE Reconnect
  BY <1>14 DEF Reconnect, NoStream
<1> QED
  BY <1>1, <1>2, <1>3, <1>4, <1>5, <1>6, <1>7, <1>8, <1>9, <1>10, <1>11, <1>12, <1>13, <1>14
  DEF EventNext, Emit, Receive, Ended, Lose

\* Every step keeps what is left of the replay next to what the receiver will get.
LEMMA StreamsKept == StreamInv /\ [EventNext]_eventVars => StreamInv'
<1> SUFFICES ASSUME StreamInv, [EventNext]_eventVars PROVE StreamInv'
  OBVIOUS
<1>0. EventTypeOK'
  BY TypesKept DEF StreamInv
<1> USE <1>0, EventAssumption
    DEF StreamInv, EventTypeOK, ReplayReaches, ReceiverAtMostNext, StreamOwesTheRest
<1>1. CASE UNCHANGED eventVars
  BY <1>1 DEF eventVars
<1>2. CASE Publish
  BY <1>2 DEF Publish
<1>3. CASE Connect
  <2>1. stream' = Opened(Asked) /\ wanted' = wanted /\ next' = next
    BY <1>3 DEF Connect
  <2>2. After(Asked) \in Nat
    BY DEF After, Asked, Cursor
  <2>3. ASSUME ~Gap(Asked), After(Asked) > 0, NEW s \in wanted, After(Asked) < s
        PROVE  Oldest <= s
    BY <2>2, <2>3 DEF Gap, After, Oldest
  <2>4. /\ stream'.replay = {s \in wanted : Oldest <= s /\ After(Asked) < s}
        /\ stream'.last = After(Asked) /\ stream'.rx = next + 1
        /\ stream'.gap = Gap(Asked)
    BY <2>1 DEF Opened
  <2>5. Oldest \in Nat
    BY DEF Oldest
  <2>6. ReplayReaches' /\ ReceiverAtMostNext'
    BY <2>1, <2>2, <2>4, <2>5
  <2>7. StreamOwesTheRest'
    BY <2>1, <2>2, <2>3, <2>4
  <2> QED
    BY <2>6, <2>7
<1>4. CASE EmitGap
  BY <1>4 DEF EmitGap, Ready
<1>5. CASE EmitReplay
  <2>1. PICK s \in stream.replay :
            First(s) /\ stream' = [stream EXCEPT !.replay = @ \ {s}, !.last = s]
    BY <1>5 DEF EmitReplay
  <2> QED
    BY <1>5, <2>1, SMTT(20) DEF EmitReplay, Ready, First
<1>6. CASE EmitLive
  BY <1>6, SMTT(20) DEF EmitLive, Receiving, Ready
<1>7. CASE SkipLive
  <2>1. /\ stream.on /\ ~stream.gap /\ stream.replay = {} /\ stream.rx <= next
        /\ stream.rx <= stream.last \/ stream.rx \notin wanted
        /\ wanted' = wanted /\ next' = next
    BY <1>7 DEF SkipLive, Receiving, Ready
  <2>2. /\ stream'.replay = stream.replay /\ stream'.rx = stream.rx + 1
        /\ stream'.last = stream.last /\ stream'.on = stream.on
        /\ stream'.gap = stream.gap /\ stream'.terminated = stream.terminated
    BY <1>7 DEF SkipLive
  <2> QED
    BY <2>1, <2>2
<1>8. CASE LagCloses
  BY <1>8 DEF LagCloses
<1>9. CASE Restart
  BY <1>9 DEF Restart, NoStream
<1>10. CASE Subscribe
  BY <1>10 DEF Subscribe
<1>11. CASE Unsubscribe
  BY <1>11 DEF Unsubscribe, NoStream
<1>12. CASE Deliver
  BY <1>12 DEF Deliver
<1>13. CASE DeliverGap
  BY <1>13 DEF DeliverGap, NoStream
<1>14. CASE Reconnect
  BY <1>14 DEF Reconnect, NoStream
<1> QED
  BY <1>1, <1>2, <1>3, <1>4, <1>5, <1>6, <1>7, <1>8, <1>9, <1>10, <1>11, <1>12, <1>13, <1>14
  DEF EventNext, Emit, Receive, Ended, Lose

\* The types of the stream's variables hold in every run (events.rs, server.rs).
THEOREM EventTypes == EventSpec => []EventTypeOK
<1>1. EventInit => EventTypeOK
  BY StreamsStart DEF StreamInv
<1> QED
  BY <1>1, TypesKept, PTL DEF EventSpec

\* In every run, what a connection has not sent it still holds (next_event).
THEOREM NothingIsForgotten == EventSpec => []StreamOwesTheRest
<1>1. StreamInv => StreamOwesTheRest
  BY DEF StreamInv
<1> QED
  BY <1>1, StreamsStart, StreamsKept, PTL DEF EventSpec

----------------------------------------------------------------------------
\* A source asks with the page's own cursor, or with an older one in its URL.
SourceKnows ==
    /\ cursor # NoCursor => cursor.generation <= generation
    /\ source.state # "none" /\ source.id # NoCursor => source.id = cursor
    /\ source.state # "none" /\ source.id = NoCursor => source.url = cursor
    /\ source.state # "none" /\ source.url # NoCursor =>
          cursor # NoCursor /\ source.url.generation <= cursor.generation

\* The page's cursor is of a process that is gone.
FromThePast == cursor # NoCursor /\ cursor.generation # generation

\* A stream is for an open source, and for a cursor of the past it says so first.
PastIsAnswered ==
    /\ stream.on => source.state = "open"
    /\ wire # <<>> => stream.on
    /\ stream.on /\ FromThePast => \/ stream.gap /\ wire = <<>>
                                   \/ stream.terminated /\ wire = <<0>>

RestartInv == EventTypeOK /\ SourceKnows /\ PastIsAnswered

LEMMA SourcesStart == EventInit => RestartInv
  BY StreamsStart, EventAssumption
  DEF EventInit, RestartInv, StreamInv, SourceKnows, PastIsAnswered, FromThePast,
      NoStream, NoSource

\* Every step keeps the agreement of the page, its source and the stream.
LEMMA SourcesKept == RestartInv /\ [EventNext]_eventVars => RestartInv'
<1> SUFFICES ASSUME RestartInv, [EventNext]_eventVars PROVE RestartInv'
  OBVIOUS
<1>0. EventTypeOK'
  BY TypesKept DEF RestartInv
<1> USE <1>0, EventAssumption
    DEF RestartInv, EventTypeOK, SourceKnows, PastIsAnswered, FromThePast, Cursor, At
<1>1. CASE UNCHANGED eventVars
  BY <1>1 DEF eventVars
<1>2. CASE Publish
  BY <1>2 DEF Publish
<1>3. CASE Connect
  <2>1. FromThePast => Gap(Asked)
    BY <1>3 DEF Connect, Asked, Gap
  <2> QED
    BY <1>3, <2>1 DEF Connect, Opened
<1>4. CASE EmitGap
  <2>1. /\ stream.on /\ ~stream.terminated /\ wire' = Append(wire, 0)
        /\ stream'.on = stream.on /\ stream'.terminated
        /\ UNCHANGED <<generation, source, cursor>>
    BY <1>4 DEF EmitGap, Send, Ready
  <2>2. wire = <<>> => wire' = <<0>>
    BY <2>1
  <2> QED
    BY <2>1, <2>2
<1>5. CASE EmitReplay
  BY <1>5 DEF EmitReplay, Ready, Send
<1>6. CASE EmitLive
  BY <1>6 DEF EmitLive, Receiving, Ready, Send
<1>7. CASE SkipLive
  BY <1>7 DEF SkipLive, Receiving, Ready
<1>8. CASE LagCloses
  BY <1>8 DEF LagCloses, Receiving, Ready
<1>9. CASE Restart
  BY <1>9 DEF Restart, NoStream
<1>10. CASE Subscribe
  BY <1>10 DEF Subscribe
<1>11. CASE Unsubscribe
  BY <1>11 DEF Unsubscribe, NoStream, NoSource
<1>12. CASE Deliver
  <2>1. /\ wire # <<>> /\ wire # <<0>>
        /\ cursor' = At(Head(wire)) /\ cursor'.generation = generation
        /\ source' = [source EXCEPT !.id = cursor']
        /\ wire' = Tail(wire)
        /\ UNCHANGED <<generation, stream>>
    BY <1>12 DEF Deliver
  <2>2. stream.on /\ ~FromThePast /\ source.state = "open"
    BY <2>1
  <2>3. source'.state = "open" /\ source'.url = source.url /\ source'.id = cursor'
    BY <2>1
  <2>4. cursor' \in Cursor
    BY <1>0, <2>1, HeadTailProperties
  <2>5. source.url # NoCursor => source.url.generation <= generation
    BY <2>2
  <2>6. cursor' # NoCursor /\ cursor'.generation = generation /\ generation' = generation
    BY <2>1, <2>4
  <2>7. SourceKnows'
    BY <2>3, <2>5, <2>6 DEF SourceKnows
  <2>8. PastIsAnswered'
    BY <2>1, <2>2, <2>3, <2>4
  <2> QED
    BY <2>7, <2>8
<1>13. CASE DeliverGap
  BY <1>13 DEF DeliverGap, NoStream, NoSource
<1>14. CASE Reconnect
  BY <1>14 DEF Reconnect, NoStream
<1> QED
  BY <1>1, <1>2, <1>3, <1>4, <1>5, <1>6, <1>7, <1>8, <1>9, <1>10, <1>11, <1>12, <1>13, <1>14
  DEF EventNext, Emit, Receive, Ended, Lose

\* What a step of the page does to a cursor of another process.
ToldOfRestart ==
    cursor # NoCursor /\ cursor' # cursor /\ cursor'.generation # cursor.generation
        => cursor'.sequence = 0

LEMMA StepTells == RestartInv /\ [EventNext]_eventVars => ToldOfRestart
<1> SUFFICES ASSUME RestartInv, [EventNext]_eventVars, cursor' # cursor, cursor # NoCursor,
                    cursor'.generation # cursor.generation
             PROVE  cursor'.sequence = 0
  BY DEF ToldOfRestart
<1>1. Deliver \/ DeliverGap
  BY DEF EventNext, Emit, Receive, Ended, Lose, eventVars, Publish, Connect, EmitGap,
         EmitReplay, EmitLive, SkipLive, LagCloses, Restart, Subscribe, Unsubscribe, Reconnect
<1>2. CASE Deliver
  <2>1. cursor'.generation = generation /\ wire # <<>> /\ Head(wire) # 0
    BY <1>2 DEF Deliver, At
  <2>2. wire = <<0>>
    BY <2>1 DEF RestartInv, PastIsAnswered, FromThePast
  <2> QED
    BY <2>1, <2>2
<1>3. CASE DeliverGap
  BY <1>3 DEF DeliverGap, At
<1> QED
  BY <1>1, <1>2, <1>3

\* A page that has seen events of one process never takes an event of the next
\* one for their continuation: the gap comes first (replay_and_subscribe,
\* next_event, ensureSource).
THEOREM RestartNoticed == EventSpec => RestartIsTold
<1>1. RestartInv /\ [EventNext]_eventVars
        => [cursor # NoCursor /\ cursor' # cursor /\ cursor'.generation # cursor.generation
              => cursor'.sequence = 0]_eventVars
  BY StepTells DEF ToldOfRestart
<1> QED
  BY <1>1, SourcesStart, SourcesKept, PTL DEF EventSpec, RestartIsTold


----------------------------------------------------------------------------
(* What is on its way to a page whose source has no cursor in its URL.     *)

\* The last event the page had from this process.
Seen == IF cursor # NoCursor /\ cursor.generation = generation THEN cursor.sequence ELSE 0

\* Event b comes next after event a.
Sequel(a, b) == a < b /\ \A s \in wanted : ~(a < s /\ s < b)

\* What is on the wire continues what the page had, event by event or with the gap
\* alone, and the stream counts from its end.
WireContinues ==
    /\ \A i \in 1 .. Len(wire) : wire[i] <= next /\ (wire[i] = 0 => wire = <<0>> /\ stream.terminated)
    /\ \A i \in 1 .. Len(wire) - 1 : Sequel(wire[i], wire[i + 1])
    /\ wire # <<>> /\ wire[1] # 0 /\ Seen > 0 => Sequel(Seen, wire[1])
    /\ wire = <<>> /\ ~stream.gap => stream.last = Seen
    /\ wire # <<>> => ~stream.gap /\ (wire[1] # 0 => stream.last = wire[Len(wire)])
    /\ \A s \in stream.replay : s \in wanted /\ stream.last < s /\ s < stream.rx

FirstSourceInv == source.url = NoCursor /\ stream.on => WireContinues

ResumeInv == StreamInv /\ RestartInv /\ FirstSourceInv

\* Sending the event that comes next keeps the order.
LEMMA SentContinues ==
    ASSUME ResumeInv, source.url = NoCursor, stream.on, ~stream.terminated, ~stream.gap,
           NEW s \in wanted, stream.last < s, Send(s), wanted' = wanted, next' = next,
           generation' = generation, cursor' = cursor, stream.last > 0 => Sequel(stream.last, s),
           stream'.gap = stream.gap, stream'.last = s,
           \A t \in stream'.replay : t \in wanted /\ s < t /\ t < stream'.rx
    PROVE  WireContinues'
<1>1. /\ wire \in Seq(Nat) /\ Len(wire) \in Nat /\ s \in Nat /\ s # 0 /\ s <= next
      /\ stream.last \in Nat /\ WireContinues
  <2>1. EventTypeOK /\ WireContinues
    BY DEF ResumeInv, FirstSourceInv, StreamInv
  <2>2. wire \in Seq(Nat) /\ stream.last \in Nat /\ next \in Nat /\ s \in 1 .. next
    BY <2>1 DEF EventTypeOK
  <2> QED
    BY <2>1, <2>2
<1>2. /\ wire' # <<>> /\ Len(wire') = Len(wire) + 1 /\ wire'[Len(wire) + 1] = s
      /\ \A i \in 1 .. Len(wire) : wire'[i] = wire[i]
  BY <1>1 DEF Send
<1>3. \A i \in 1 .. Len(wire) : wire[i] # 0
  BY <1>1 DEF WireContinues
<1>4. Seen' = Seen
  BY DEF Seen
<1>5. ASSUME NEW a, NEW b PROVE Sequel(a, b)' <=> Sequel(a, b)
  BY DEF Sequel
<1>6. \A i \in 1 .. Len(wire') : wire'[i] <= next /\ wire'[i] # 0
  BY <1>1, <1>2, <1>3, SMTT(20) DEF WireContinues
<1>7. CASE wire = <<>>
  <2>1. Len(wire) = 0 /\ Len(wire') = 1 /\ wire'[1] = s
    BY <1>2, <1>7
  <2>2. stream.last = Seen
    BY <1>1, <1>7 DEF WireContinues
  <2>3. Seen > 0 => (Sequel(Seen, wire'[1]))
    BY <2>1, <2>2
  <2> QED
    BY <1>2, <1>4, <1>6, <2>1, <2>3 DEF WireContinues, Sequel
<1>8. CASE wire # <<>>
  <2>1. Len(wire) > 0
    BY <1>1, <1>8
  <2>2. wire[1] # 0 /\ stream.last = wire[Len(wire)] /\ stream.last # 0
    BY <1>1, <1>3, <1>8, <2>1 DEF WireContinues
  <2>3. Sequel(wire[Len(wire)], s)
    BY <1>1, <2>2
  <2>4. ASSUME NEW i \in 1 .. Len(wire') - 1 PROVE Sequel(wire'[i], wire'[i + 1])
    <3>1. CASE i = Len(wire)
      BY <1>1, <1>2, <2>1, <2>3, <3>1
    <3>2. CASE i # Len(wire)
      <4>1. i \in 1 .. Len(wire) - 1 /\ i + 1 \in 1 .. Len(wire) /\ i \in 1 .. Len(wire)
        BY <1>1, <1>2, <3>2
      <4>2. Sequel(wire[i], wire[i + 1])
        BY <1>1, <4>1 DEF WireContinues
      <4> QED
        BY <1>2, <4>1, <4>2
    <3> QED
      BY <3>1, <3>2
  <2>5. wire'[1] = wire[1]
    BY <1>1, <1>2, <2>1
  <2>6. Seen > 0 => (Sequel(Seen, wire'[1]))
    BY <1>1, <1>8, <2>2, <2>5 DEF WireContinues
  <2> QED
    BY <1>2, <1>4, <1>6, <2>4, <2>6 DEF WireContinues, Sequel
<1> QED
  BY <1>7, <1>8

\* Taking the first event off the wire.
LEMMA Taken ==
    ASSUME NEW S, NEW w \in Seq(S), w # <<>>
    PROVE  /\ Len(w) \in Nat /\ Len(w) > 0 /\ Head(w) = w[1] /\ w[1] \in S
           /\ Len(Tail(w)) = Len(w) - 1 /\ (Tail(w) = <<>> <=> Len(w) = 1)
           /\ \A i \in 1 .. Len(w) - 1 : Tail(w)[i] = w[i + 1]
<1>1. Tail(w) \in Seq(S) /\ Len(Tail(w)) = Len(w) - 1 /\ Len(w) \in Nat /\ Len(w) > 0
  BY HeadTailProperties
<1>2. 1 \in 1 .. Len(w) /\ Head(w) = w[1]
  BY <1>1
<1>3. w[1] \in S
  BY <1>1, <1>2
<1>4. ASSUME NEW i \in 1 .. Len(w) - 1 PROVE Tail(w)[i] = w[i + 1]
  BY <1>1, HeadTailProperties
<1>5. Tail(w) = <<>> <=> Len(Tail(w)) = 0
  BY <1>1, EmptySeq, LenProperties
<1> QED
  BY <1>1, <1>2, <1>3, <1>4, <1>5

LEMMA ResumesStart == EventInit => ResumeInv
  BY StreamsStart, SourcesStart DEF EventInit, ResumeInv, FirstSourceInv, NoStream

LEMMA ResumesKept == ResumeInv /\ [EventNext]_eventVars => ResumeInv'
<1> SUFFICES ASSUME ResumeInv, [EventNext]_eventVars, (source.url = NoCursor)', stream'.on
             PROVE  WireContinues'
  BY StreamsKept, SourcesKept DEF ResumeInv, FirstSourceInv
<1>0. /\ EventTypeOK /\ EventTypeOK' /\ StreamOwesTheRest /\ ReceiverAtMostNext
      /\ SourceKnows /\ PastIsAnswered
      /\ source.url = NoCursor /\ stream.on => WireContinues
  BY TypesKept DEF ResumeInv, StreamInv, RestartInv, FirstSourceInv
<1>1. CASE UNCHANGED eventVars
  BY <1>0, <1>1 DEF eventVars, WireContinues, Seen, Sequel
<1>2. CASE Publish
  <2>1. UNCHANGED <<generation, stream, source, cursor, wire>> /\ next' = next + 1
    BY <1>2 DEF Publish
  <2>2. WireContinues /\ Seen' = Seen /\ next \in Nat /\ wire \in Seq(Nat) /\ Len(wire) \in Nat
    BY <1>0, <2>1 DEF Seen, EventTypeOK
  <2>3. \A s \in wanted' : s \in wanted \/ s = next + 1
    BY <1>2 DEF Publish
  <2>4. ASSUME NEW a, NEW b \in Nat, b <= next, Sequel(a, b) PROVE Sequel(a, b)'
    BY <2>2, <2>3, <2>4 DEF Sequel
  <2>5. \A i \in 1 .. Len(wire) : wire[i] \in Nat /\ wire[i] <= next
    BY <2>2 DEF WireContinues
  <2>6. \A i \in 1 .. Len(wire) - 1 : Sequel(wire[i], wire[i + 1])'
    BY <2>1, <2>2, <2>4, <2>5 DEF WireContinues
  <2>7. (wire # <<>> /\ wire[1] # 0 /\ Seen > 0 => Sequel(Seen, wire[1]))'
    <3>1. wire # <<>> => 1 \in 1 .. Len(wire)
      BY <2>2
    <3> QED
      BY <2>1, <2>2, <2>4, <2>5, <3>1 DEF WireContinues
  <2>8. (\A s \in stream.replay : s \in wanted /\ stream.last < s /\ s < stream.rx)'
    <3>1. wanted \subseteq wanted'
      BY <1>2 DEF Publish
    <3> QED
      BY <2>1, <2>2, <3>1 DEF WireContinues
  <2>9. ASSUME NEW i \in 1 .. Len(wire')
        PROVE  wire'[i] <= next' /\ (wire'[i] = 0 => wire' = <<0>> /\ stream'.terminated)
    BY <2>1, <2>2, <2>5 DEF WireContinues
  <2>10. /\ (wire = <<>> /\ ~stream.gap => stream.last = Seen)'
         /\ (wire # <<>> => ~stream.gap /\ (wire[1] # 0 => stream.last = wire[Len(wire)]))'
    BY <2>1, <2>2 DEF WireContinues
  <2> QED
    <3>1. (\A i \in 1 .. Len(wire) : wire[i] <= next /\ (wire[i] = 0 => wire = <<0>> /\ stream.terminated))'
      BY <2>9
    <3> QED
      BY <2>1, <2>6, <2>7, <2>8, <2>10, <3>1 DEF WireContinues
<1>3. CASE Connect
  <2>1. /\ stream' = Opened(Asked) /\ wire' = <<>> /\ Asked = source.id
        /\ UNCHANGED <<generation, next, wanted, cursor>>
    BY <1>0, <1>3 DEF Connect, Asked, EventTypeOK
  <2>2. source.id = cursor
    BY <1>0, <1>3, <2>1 DEF Connect, SourceKnows, EventTypeOK
  <2>3. ~Gap(Asked) => After(Asked) = Seen
    BY <2>1, <2>2 DEF Gap, After, Seen
  <2>4. Seen' = Seen
    BY <2>1 DEF Seen
  <2>5. After(Asked) \in Nat /\ next \in Nat /\ wanted \in SUBSET (1 .. next)
    BY <1>0 DEF After, Asked, EventTypeOK, Cursor
  <2>6. /\ stream'.gap = Gap(Asked) /\ stream'.last = After(Asked) /\ stream'.rx = next + 1
        /\ \A s \in stream'.replay : s \in wanted /\ After(Asked) < s
    BY <2>1 DEF Opened
  <2>7. ASSUME NEW s \in stream'.replay PROVE s \in wanted' /\ stream'.last < s /\ s < stream'.rx
    <3>1. s \in wanted /\ s \in 1 .. next
      BY <2>5, <2>6
    <3>2. s < next + 1
      BY <2>5, <3>1
    <3> QED
      BY <2>1, <2>6, <3>1, <3>2
  <2>8. Len(wire') = 0
    BY <2>1
  <2> QED
    BY <2>1, <2>3, <2>4, <2>6, <2>7, <2>8 DEF WireContinues
<1>4. CASE EmitGap
  <2>1. /\ stream.on /\ ~stream.terminated /\ stream.gap /\ wire' = Append(wire, 0)
        /\ stream' = [stream EXCEPT !.gap = FALSE, !.terminated = TRUE]
        /\ UNCHANGED <<generation, next, wanted, source, cursor>>
    BY <1>4 DEF EmitGap, Send, Ready
  <2>2. WireContinues /\ wire = <<>>
    BY <1>0, <2>1 DEF WireContinues
  <2>3. wire' = <<0>>
    BY <2>1, <2>2
  <2>4. /\ stream'.terminated /\ ~stream'.gap /\ stream'.last = stream.last
        /\ stream'.rx = stream.rx /\ stream'.replay = stream.replay
    BY <1>0, <2>1 DEF EventTypeOK
  <2> QED
    BY <1>0, <2>1, <2>2, <2>3, <2>4 DEF WireContinues, EventTypeOK
<1>5. CASE EmitReplay
  <2>1. PICK s \in stream.replay :
            First(s) /\ Send(s) /\ stream' = [stream EXCEPT !.replay = @ \ {s}, !.last = s]
    BY <1>5 DEF EmitReplay
  <2>2. /\ stream.on /\ ~stream.terminated /\ ~stream.gap
        /\ UNCHANGED <<generation, next, wanted, source, cursor>>
    BY <1>5 DEF EmitReplay, Ready
  <2>3. WireContinues
    BY <1>0, <2>2
  <2>4. /\ stream'.gap = stream.gap /\ stream'.last = s /\ stream'.rx = stream.rx
        /\ stream'.replay = stream.replay \ {s}
    BY <1>0, <2>1 DEF EventTypeOK
  <2>5. stream.last < s /\ s < stream.rx /\ s \in Nat /\ stream.replay \subseteq Nat
        /\ stream.last \in Nat /\ stream.rx \in Nat /\ wanted \subseteq Nat
    BY <1>0, <2>1, <2>3 DEF WireContinues, EventTypeOK
  <2>6. \A t \in stream'.replay : t \in wanted /\ s < t /\ t < stream'.rx
    BY <2>1, <2>3, <2>4, <2>5 DEF First, WireContinues
  <2>7. stream.last > 0 => Sequel(stream.last, s)
    BY <1>0, <2>1, <2>2, <2>5 DEF StreamOwesTheRest, Sequel, First
  <2>8. s \in wanted
    BY <2>1, <2>3 DEF WireContinues
  <2> QED
    BY <2>1, <2>2, <2>4, <2>5, <2>6, <2>7, <2>8, SentContinues
<1>6. CASE EmitLive
  <2>1. /\ Send(stream.rx) /\ stream.rx \in wanted /\ stream.last < stream.rx /\ stream.replay = {}
        /\ stream.on /\ ~stream.terminated /\ ~stream.gap
        /\ UNCHANGED <<generation, next, wanted, source, cursor>>
    BY <1>0, <1>6 DEF EmitLive, Receiving, Ready, EventTypeOK
  <2>2. stream'.gap = stream.gap /\ stream'.last = stream.rx /\ stream'.replay = {}
    BY <1>0, <1>6, <2>1 DEF EmitLive, EventTypeOK
  <2>3. stream.last > 0 => Sequel(stream.last, stream.rx)
    BY <1>0, <2>1 DEF StreamOwesTheRest, Sequel, EventTypeOK
  <2> QED
    BY <2>1, <2>2, <2>3, SentContinues
<1>7. CASE SkipLive
  <2>1. /\ stream.replay = {} /\ stream.on
        /\ UNCHANGED <<generation, next, wanted, source, cursor, wire>>
    BY <1>7 DEF SkipLive, Receiving, Ready
  <2>2. /\ stream'.gap = stream.gap /\ stream'.last = stream.last /\ stream'.replay = {}
        /\ stream'.terminated = stream.terminated
    BY <1>0, <1>7, <2>1 DEF SkipLive, EventTypeOK
  <2> QED
    BY <1>0, <2>1, <2>2 DEF WireContinues, Seen, Sequel
<1>8. CASE LagCloses
  <2>1. stream.on /\ UNCHANGED <<generation, next, wanted, source, cursor, wire>>
    BY <1>8 DEF LagCloses, Receiving, Ready
  <2>2. /\ stream'.gap = stream.gap /\ stream'.last = stream.last /\ stream'.rx = stream.rx
        /\ stream'.replay = stream.replay /\ stream'.terminated
    BY <1>0, <1>8 DEF LagCloses, EventTypeOK
  <2> QED
    BY <1>0, <2>1, <2>2 DEF WireContinues, Seen, Sequel
<1>9. CASE Restart \/ Unsubscribe \/ DeliverGap \/ Reconnect
  BY <1>9 DEF Restart, Unsubscribe, DeliverGap, Reconnect, NoStream
<1>10. CASE Subscribe
  BY <1>0, <1>10 DEF Subscribe, PastIsAnswered
<1>11. CASE Deliver
  <2>1. /\ wire # <<>> /\ Head(wire) # 0 /\ cursor' = At(Head(wire)) /\ wire' = Tail(wire)
        /\ source' = [source EXCEPT !.id = At(Head(wire))]
        /\ UNCHANGED <<generation, next, wanted, stream>>
    BY <1>11 DEF Deliver
  <2>2. source.url = NoCursor /\ stream.on /\ WireContinues /\ wire \in Seq(Nat)
    BY <1>0, <2>1 DEF EventTypeOK
  <2>3. /\ Len(wire) \in Nat /\ Len(wire) > 0 /\ Head(wire) = wire[1] /\ wire[1] \in Nat
        /\ Len(wire') = Len(wire) - 1 /\ (wire' = <<>> <=> Len(wire) = 1)
        /\ \A i \in 1 .. Len(wire) - 1 : wire'[i] = wire[i + 1]
    BY <2>1, <2>2, Taken
  <2>4. At(wire[1]) \in Cursor
    BY <1>0, <2>3 DEF At, Cursor, EventTypeOK
  <2>5. Seen' = wire[1]
    BY <2>1, <2>3, <2>4, EventAssumption DEF Seen, At, Cursor
  <2>6. \A i \in 1 .. Len(wire) : wire[i] <= next /\ wire[i] # 0
    BY <2>1, <2>2, <2>3 DEF WireContinues
  <2>7. \A i \in 1 .. Len(wire') : wire'[i] <= next /\ wire'[i] # 0
    BY <2>3, <2>6
  <2>8. ASSUME NEW i \in 1 .. Len(wire') - 1 PROVE Sequel(wire'[i], wire'[i + 1])
    <3>1. i \in 1 .. Len(wire) - 1 /\ i + 1 \in 1 .. Len(wire) - 1
      BY <2>3
    <3>2. wire'[i] = wire[i + 1] /\ wire'[i + 1] = wire[i + 1 + 1]
      BY <2>3, <3>1
    <3>3. Sequel(wire[i + 1], wire[i + 1 + 1])
      BY <2>2, <3>1 DEF WireContinues
    <3> QED
      BY <3>2, <3>3
  <2>9. wire' # <<>> => (Sequel(wire[1], wire'[1]))
    <3>1. wire' # <<>> => 1 \in 1 .. Len(wire) - 1
      BY <2>3
    <3>2. wire' # <<>> => wire'[1] = wire[1 + 1] /\ (Sequel(wire[1], wire[1 + 1]))
      BY <2>2, <2>3, <3>1 DEF WireContinues
    <3> QED
      BY <3>2
  <2>10. ~stream.gap /\ stream.last = wire[Len(wire)]
    BY <2>1, <2>2, <2>3 DEF WireContinues
  <2>11. wire' = <<>> => stream.last = wire[1]
    BY <2>3, <2>10
  <2>12. wire' # <<>> => wire'[Len(wire')] = wire[Len(wire)]
    BY <2>3
  <2>13. \A s \in stream.replay : s \in wanted /\ stream.last < s /\ s < stream.rx
    BY <2>2 DEF WireContinues
  <2> QED
    BY <2>1, <2>5, <2>7, <2>8, <2>9, <2>10, <2>11, <2>12, <2>13 DEF WireContinues, Sequel
<1> QED
  BY <1>1, <1>2, <1>3, <1>4, <1>5, <1>6, <1>7, <1>8, <1>9, <1>10, <1>11
  DEF EventNext, Emit, Receive, Ended, Lose

\* The first source of a page delivers each wanted event of a process once and in
\* order, or tells of a gap (next_event, web-adapter.ts).
THEOREM PagesResume == EventSpec => FirstSourceResumes
<1> DEFINE Resumes == source.url = NoCursor /\ cursor' # cursor /\ Follows =>
                        \/ cursor'.sequence = 0
                        \/ /\ cursor.sequence < cursor'.sequence
                           /\ \A s \in wanted : ~(cursor.sequence < s /\ s < cursor'.sequence)
<1>1. ASSUME ResumeInv, [EventNext]_eventVars PROVE Resumes
  <2> SUFFICES ASSUME source.url = NoCursor, cursor' # cursor, Follows, cursor'.sequence # 0
               PROVE  /\ cursor.sequence < cursor'.sequence
                      /\ \A s \in wanted : ~(cursor.sequence < s /\ s < cursor'.sequence)
    OBVIOUS
  <2>1. Deliver \/ DeliverGap
    BY <1>1 DEF EventNext, Emit, Receive, Ended, Lose, eventVars, Publish, Connect, EmitGap,
       EmitReplay, EmitLive, SkipLive, LagCloses, Restart, Subscribe, Unsubscribe, Reconnect
  <2>2. Deliver
    BY <2>1 DEF DeliverGap, At
  <2>3. /\ wire # <<>> /\ Head(wire) # 0 /\ cursor'.generation = generation
        /\ cursor'.sequence = Head(wire)
    BY <2>2 DEF Deliver, At
  <2>4. WireContinues /\ wire \in Seq(Nat)
    BY <1>1, <2>3 DEF ResumeInv, RestartInv, PastIsAnswered, FirstSourceInv, EventTypeOK
  <2>5. Head(wire) = wire[1]
    BY <2>3, <2>4, Taken
  <2>6. Seen = cursor.sequence /\ Seen > 0
    BY <2>3 DEF Follows, Seen
  <2> QED
    BY <2>3, <2>4, <2>5, <2>6 DEF WireContinues, Sequel
<1>2. ResumeInv /\ [EventNext]_eventVars => [Resumes]_eventVars
  BY <1>1
<1> QED
  BY <1>2, ResumesStart, ResumesKept, PTL DEF EventSpec, FirstSourceResumes
=============================================================================
