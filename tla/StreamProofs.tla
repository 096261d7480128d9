---------------------------- MODULE StreamProofs ----------------------------
(***************************************************************************)
(* The safety of a request's streams in the cartridge runtime: of one live *)
(* feed on its way in, and of the response on its way out.                 *)
(*                                                                         *)
(* A live feed, for every capacity of the ring and the queue, every set of *)
(* selectors and any number of captured items. FeedSound is inductive: the *)
(* ring continues the stream of entries where it ends, less what was       *)
(* dropped, up to what was captured, for as long as the feeder takes from  *)
(* it; and a feeder past its loop has left a feed that takes nothing more. *)
(*                                                                         *)
(* A response, for every set of streams, every list of outputs and any     *)
(* number of units, whenever a cancel or the loss of the wire comes.       *)
(* ResponseSound is inductive: the wire's record of each stream is the     *)
(* stream's own; as long as nobody but the handler ends the response, what *)
(* was written is on the wire, in the task and in the buffer, in this      *)
(* order; and what finish has passed is closed or was never needed.        *)
(***************************************************************************)
EXTENDS LiveFeed, Output, SequenceTheorems, TLAPS

-----------------------------------------------------------------------------
(* A live feed                                                             *)


\* What the entries of a stream account for: the number of the next item.
Told(s) == IF s = <<>> THEN 0 ELSE s[Len(s)].seq + 1

Feeding == feeder.at \in {"unborn", "looping", "taking", "pushing"}

\* Who is where: the device is opened once, the feeder is born after it, and a
\* feeder past its loop leaves a feed that takes nothing more.
Threads ==
  /\ shared.producerDone => producer = "off"
  /\ producer # "off" \/ shared.producerDone => tap # "unopened"
  /\ tap \in {"unopened", "capturing"} => feeder.at = "unborn"
  /\ shared.failure => shared.closed
  /\ ~Feeding => shared.closed \/ shared.producerDone

\* A handler still at its stream sees an end that the feeder put there.
Ending ==
  /\ consumer \in {"reading", "ended"} /\ delivery.finished => feeder.at = "ended"
  /\ consumer = "ended" => delivery.finished /\ delivery.queue = <<>>

\* As long as the feeder takes from it, the ring goes on where the stream ends,
\* less what was dropped, and up to what was captured.
RingFollows ==
  Feeding =>
    /\ \A i \in 1..(Len(shared.ring) - 1) : shared.ring[i + 1] = shared.ring[i] + 1
    /\ shared.ring = <<>> =>
         /\ shared.dropped = 0
         /\ ~shared.failure => shared.captured = Told(Stream)
    /\ shared.ring # <<>> =>
         /\ shared.ring[1] = Told(Stream) + shared.dropped
         /\ ~shared.failure => shared.captured = shared.ring[Len(shared.ring)] + 1

\* The overrun is reported by the feeder's last entry.
LastWord ==
  \A i \in 1..Len(Stream) :
    Stream[i].error => i = Len(Stream) /\ feeder.at \in {"finishing", "ended"}

Marked ==
  \A i \in 1..Len(Stream) :
    ~Stream[i].error =>
      Stream[i].seq = Stream[i].gap + (IF i = 1 THEN 0 ELSE Stream[i - 1].seq + 1)

\* Under "fail" nothing is ever dropped.
NothingDropped ==
  selector.policy = "fail" =>
    /\ shared.dropped = 0
    /\ \A i \in 1..Len(Stream) : Stream[i].gap = 0

\* A stream that ends without the overrun accounts for all that was captured.
AllTold ==
  /\ feeder.at \in {"finishing", "ended"} /\ consumer \in {"reading", "ended"}
  /\ \A i \in 1..Len(Stream) : ~Stream[i].error
  => shared.captured = Told(Stream)

FeedSound ==
  FeedTypeOK /\ Threads /\ Ending /\ RingFollows /\ LastWord /\ Marked /\ NothingDropped /\ AllTold

Items == Seq(Entry)

Rings == [ring : Seq(Nat), captured : Nat, dropped : Nat, failure : BOOLEAN,
          producerDone : BOOLEAN, closed : BOOLEAN]

Typing ==
  /\ selector \in Selectors
  /\ tap \in {"unopened", "capturing", "opened", "registered"}
  /\ handles \in BOOLEAN /\ late \in BOOLEAN
  /\ producer \in {"off", "capturing", "finishing"}
  /\ shared \in Rings
  /\ feeder \in [at : {"unborn", "looping", "taking", "pushing", "failing", "finishing", "ended"},
                 entry : Entry]
  /\ delivery \in [queue : Items, finished : BOOLEAN]
  /\ consumer \in {"reading", "ended", "leaving", "gone"}
  /\ received \in Items

LEMMA FeedTypes == (FeedTypeOK <=> Typing) /\ (FeedTypeOK' <=> Typing')
BY DEF FeedTypeOK, Items, Rings, Typing

LEMMA FeedTyped == ASSUME FeedTypeOK, FeedNext PROVE FeedTypeOK'
<1> USE DEF Items
<1>0. Typing
  BY FeedTypes
<1>1. Overrun \in Entry
  BY DEF Overrun, Entry
<1>2. \A s \in Rings : [s EXCEPT !.closed = TRUE] \in Rings
  BY Zenon DEF Rings
<1>3. \A s \in Rings : [s EXCEPT !.producerDone = TRUE] \in Rings
  BY Zenon DEF Rings
<1>4. \A s \in Rings : [s EXCEPT !.failure = FALSE] \in Rings
  BY Zenon DEF Rings
<1>5. ASSUME Capture PROVE shared' \in Rings
  <2>1. shared' = Pushed(shared)
    BY <1>5 DEF Capture
  <2>2. shared \in Rings /\ Len(shared.ring) \in Nat /\ (Len(shared.ring) >= RingCap => shared.ring # <<>>)
    BY <1>0, CapsAreReal DEF Typing, Rings
  <2>3. [shared EXCEPT !.captured = @ + 1, !.failure = TRUE, !.closed = TRUE] \in Rings
    <3>1. shared.captured + 1 \in Nat
      BY <2>2 DEF Rings
    <3> QED
      BY <2>2, <3>1, Zenon DEF Rings
  <2>4. [shared EXCEPT !.ring = Append(@, shared.captured), !.captured = @ + 1] \in Rings
    <3>1. shared.captured + 1 \in Nat /\ Append(shared.ring, shared.captured) \in Seq(Nat)
      BY <2>2 DEF Rings
    <3> QED
      BY <2>2, <3>1, Zenon DEF Rings
  <2>5. shared.ring # <<>> => [shared EXCEPT !.ring = Append(Tail(@), shared.captured),
                                             !.captured = @ + 1, !.dropped = @ + 1] \in Rings
    <3>1. /\ shared.captured + 1 \in Nat /\ shared.dropped + 1 \in Nat
          /\ shared.ring # <<>> => Append(Tail(shared.ring), shared.captured) \in Seq(Nat)
      BY <2>2 DEF Rings
    <3> QED
      BY <2>2, <3>1, Zenon DEF Rings
  <2>6. \/ shared' = shared
        \/ shared' = [shared EXCEPT !.captured = @ + 1, !.failure = TRUE, !.closed = TRUE]
        \/ shared' = [shared EXCEPT !.ring = Append(@, shared.captured), !.captured = @ + 1]
        \/ /\ shared.ring # <<>>
           /\ shared' = [shared EXCEPT !.ring = Append(Tail(@), shared.captured),
                                       !.captured = @ + 1, !.dropped = @ + 1]
    <3>1. CASE shared.closed
      BY <2>1, <3>1 DEF Pushed
    <3>2. CASE ~shared.closed /\ Len(shared.ring) >= RingCap /\ selector.policy = "fail"
      BY <2>1, <3>2 DEF Pushed
    <3>3. CASE ~shared.closed /\ ~(Len(shared.ring) >= RingCap /\ selector.policy = "fail")
      <4>1. shared' = Appended(shared)
        BY <2>1, <3>3 DEF Pushed
      <4>2. ~(Len(shared.ring) < RingCap) => shared.ring # <<>>
        BY <2>2, CapsAreReal
      <4> QED
        BY <4>1, <4>2 DEF Appended
    <3> QED
      BY <3>1, <3>2, <3>3
  <2> QED
    BY <2>2, <2>3, <2>4, <2>5, <2>6, Zenon DEF Rings
<1>6. ASSUME Take
      PROVE  /\ shared' \in Rings
             /\ feeder' \in [at : {"unborn", "looping", "taking", "pushing", "failing", "finishing", "ended"},
                             entry : Entry]
  <2>1. shared \in Rings
    BY <1>0 DEF Typing
  <2>2. CASE TakeOutcome(shared) = "item"
    <3>1. shared.ring # <<>>
      BY <2>2 DEF TakeOutcome
    <3>2. Head(shared.ring) \in Nat /\ Tail(shared.ring) \in Seq(Nat) /\ shared.dropped \in Nat
      BY <2>1, <3>1 DEF Rings
    <3>3. /\ shared' = [shared EXCEPT !.ring = Tail(@), !.dropped = 0]
          /\ feeder' = [at |-> "pushing",
                        entry |-> [seq |-> Head(shared.ring), gap |-> shared.dropped, error |-> FALSE]]
      BY <1>6, <2>2 DEF Take
    <3>4. [shared EXCEPT !.ring = Tail(@), !.dropped = 0] \in Rings
      BY <2>1, <3>2, Zenon DEF Rings
    <3> QED
      BY <3>2, <3>3, <3>4 DEF Entry
  <2>3. CASE TakeOutcome(shared) # "item"
    <3>1. /\ shared' \in {shared, [shared EXCEPT !.failure = FALSE], [shared EXCEPT !.closed = TRUE]}
          /\ feeder' \in {IdleAt("failing"), IdleAt("finishing")}
      BY <1>6, <2>3 DEF Take
    <3> QED
      BY <1>1, <1>2, <1>4, <2>1, <3>1 DEF IdleAt
  <2> QED
    BY <2>2, <2>3
<1>7. ASSUME Capture PROVE Typing'
  <2>1. producer' \in {"capturing", "finishing"}
    BY <1>0, <1>7 DEF Typing, Capture
  <2> QED
    BY <1>0, <1>5, <1>7, <2>1 DEF Typing, Capture
<1>8. ASSUME Take PROVE Typing'
  BY <1>0, <1>6, <1>8 DEF Typing, Take
<1>9. ASSUME OpenDevice \/ StartFeeder \/ Register \/ DeviceEnds \/ FinishProducer PROVE Typing'
  <2>1. shared' \in Rings
    BY <1>0, <1>3, <1>9 DEF Typing, OpenDevice, StartFeeder, Register, DeviceEnds, FinishProducer
  <2> QED
    BY <1>0, <1>1, <1>9, <2>1
    DEF Typing, OpenDevice, StartFeeder, Register, DeviceEnds, FinishProducer, IdleAt
<1>10. ASSUME Deadline \/ Loop PROVE Typing'
  <2>1. shared' \in Rings /\ late' \in BOOLEAN
    BY <1>0, <1>2, <1>10 DEF Typing, Deadline, Loop
  <2> QED
    BY <1>0, <1>1, <1>10, <2>1 DEF Typing, Deadline, Loop, IdleAt
<1>11. ASSUME PushItem \/ PushFailure PROVE Typing'
  <2>1. shared' \in Rings
    BY <1>0, <1>2, <1>11 DEF Typing, PushItem, PushFailure
  <2>2. delivery' \in [queue : Items, finished : BOOLEAN]
    <3>1. \A d \in [queue : Items, finished : BOOLEAN], e \in Entry :
            [d EXCEPT !.queue = Append(@, e)] \in [queue : Items, finished : BOOLEAN]
      <4>1. \A q \in Items, e \in Entry : Append(q, e) \in Items
        OBVIOUS
      <4> QED
        BY <4>1, Zenon
    <3>2. \/ delivery' = delivery
          \/ \E e \in Entry : delivery' = [delivery EXCEPT !.queue = Append(@, e)]
      BY <1>0, <1>1, <1>11 DEF Typing, PushItem, PushFailure, PushedTo
    <3> QED
      BY <1>0, <3>1, <3>2 DEF Typing
  <2>3. feeder' \in {IdleAt("ended"), IdleAt("looping"), IdleAt("finishing")}
    BY <1>0, <1>11 DEF Typing, PushItem, PushFailure
  <2> QED
    BY <1>0, <1>1, <1>11, <2>1, <2>2, <2>3 DEF Typing, PushItem, PushFailure, IdleAt
<1>12. ASSUME FinishDelivery \/ Dequeue \/ Release \/ CloseReleased PROVE Typing'
  <2>1. shared' \in Rings
    BY <1>0, <1>2, <1>12 DEF Typing, FinishDelivery, Dequeue, Release, CloseReleased
  <2>2. delivery' \in [queue : Items, finished : BOOLEAN] /\ received' \in Items
    <3>1. \A d \in [queue : Items, finished : BOOLEAN] :
            [d EXCEPT !.finished = TRUE] \in [queue : Items, finished : BOOLEAN]
      BY Zenon
    <3>2. ASSUME Dequeue
          PROVE  delivery' \in [queue : Items, finished : BOOLEAN] /\ received' \in Items
      <4>1. CASE delivery.queue # <<>> /\ delivery' = [delivery EXCEPT !.queue = Tail(@)]
                   /\ received' = Append(received, Head(delivery.queue))
        <5>1. Head(delivery.queue) \in Entry /\ Tail(delivery.queue) \in Items
          BY <1>0, <4>1 DEF Typing
        <5>2. [delivery EXCEPT !.queue = Tail(@)] \in [queue : Items, finished : BOOLEAN]
          BY <1>0, <5>1, Zenon DEF Typing
        <5> QED
          BY <1>0, <4>1, <5>1, <5>2 DEF Typing
      <4>2. CASE delivery' = delivery /\ received' = received
        BY <1>0, <4>2 DEF Typing
      <4> QED
        BY <3>2, <4>1, <4>2 DEF Typing, Dequeue
    <3> QED
      BY <1>0, <1>12, <3>1, <3>2 DEF Typing, FinishDelivery, Release, CloseReleased
  <2> QED
    BY <1>0, <1>1, <1>12, <2>1, <2>2
    DEF Typing, FinishDelivery, Dequeue, Release, CloseReleased, IdleAt
<1>13. ASSUME CloseStream \/ Cancel \/ FeedHandlerDone \/ FeedRest PROVE Typing'
  <2>1. shared' \in Rings /\ handles' \in BOOLEAN
    BY <1>0, <1>2, <1>13
    DEF Typing, CloseStream, Cancel, FeedHandlerDone, CloseTaps, FeedRest, feedVars
  <2> QED
    BY <1>0, <1>13, <2>1 DEF Typing, CloseStream, Cancel, FeedHandlerDone, FeedRest, feedVars
<1> QED
  BY <1>7, <1>8, <1>9, <1>10, <1>11, <1>12, <1>13, FeedTypes DEF FeedNext

\* An entry more.
LEMMA EntryMore ==
  ASSUME NEW s \in Items, NEW e \in Entry, NEW t, t = Append(s, e)
  PROVE  /\ t \in Items /\ Len(s) \in Nat /\ Len(t) = Len(s) + 1 /\ t # <<>>
         /\ \A i \in 1..Len(s) : t[i] = s[i]
         /\ t[Len(t)] = e /\ Told(t) = e.seq + 1
<1>1. /\ t \in Items /\ Len(s) \in Nat /\ Len(t) = Len(s) + 1 /\ t # <<>>
      /\ \A i \in 1..Len(s) : t[i] = s[i]
  BY DEF Items
<1>2. t[Len(t)] = e
  BY <1>1 DEF Items
<1> QED
  BY <1>1, <1>2 DEF Told

LEMMA MoreOfLast ==
  ASSUME NEW r \in Items, NEW q \in Items, NEW e \in Entry
  PROVE  Append(q, e) \in Items /\ r \o Append(q, e) = Append(r \o q, e)
<1> USE DEF Items
<1>1. Append(q, e) \in Items /\ r \o q \in Items
  OBVIOUS
<1>2. Append(q, e) = q \o <<e>> /\ Append(r \o q, e) = (r \o q) \o <<e>>
  BY <1>1, AppendIsConcat
<1>3. <<e>> \in Seq(Entry)
  OBVIOUS
<1>4. (r \o q) \o <<e>> = r \o (q \o <<e>>)
  BY <1>3, ConcatAssociative
<1> QED
  BY <1>1, <1>2, <1>4

LEMMA StreamTyped ==
  ASSUME Typing
  PROVE  /\ received \in Items /\ delivery.queue \in Items /\ feeder.entry \in Entry
         /\ received \o delivery.queue \in Items /\ Stream \in Items
         /\ feeder.at # "pushing" => Stream = received \o delivery.queue
         /\ feeder.at = "pushing" => Stream = Append(received \o delivery.queue, feeder.entry)
<1>1. received \in Items /\ delivery.queue \in Items /\ feeder.entry \in Entry
  BY DEF Typing
<1>2. received \o delivery.queue \in Items
  BY <1>1 DEF Items
<1>3. feeder.at # "pushing" => Stream = received \o delivery.queue
  BY <1>2, ConcatEmptySeq DEF Items, Stream
<1>4. feeder.at = "pushing" => Stream = Append(received \o delivery.queue, feeder.entry)
  BY <1>1, <1>2, AppendIsConcat DEF Items, Stream
<1>5. Append(received \o delivery.queue, feeder.entry) \in Items
  BY <1>1, <1>2 DEF Items
<1> QED
  BY <1>1, <1>2, <1>3, <1>4, <1>5

\* What the handler takes stays in the stream.
LEMMA DequeueKeepsStream == ASSUME Typing, Dequeue PROVE Stream' = Stream
<1>1. delivery.queue \in Items /\ received \in Items /\ feeder' = feeder
  BY StreamTyped DEF Dequeue
<1>2. CASE received' = received /\ delivery' = delivery
  BY <1>1, <1>2 DEF Stream
<1>3. CASE /\ delivery.queue # <<>> /\ received' = Append(received, Head(delivery.queue))
           /\ delivery' = [delivery EXCEPT !.queue = Tail(@)]
  <2>1. PICK h \in Entry, t \in Items : h = Head(delivery.queue) /\ t = Tail(delivery.queue)
    BY <1>1, <1>3, HeadTailProperties DEF Items
  <2>2. delivery'.queue = t
    BY <1>3, <2>1 DEF Typing
  <2>3. delivery.queue = <<h>> \o t
    BY <1>1, <1>3, <2>1 DEF Items
  <2>4. received' = received \o <<h>>
    BY <1>1, <1>3, <2>1, AppendIsConcat DEF Items
  <2>5. (received \o <<h>>) \o t = received \o (<<h>> \o t)
    <3>1. <<h>> \in Seq(Entry)
      OBVIOUS
    <3> QED
      BY <1>1, <3>1, ConcatAssociative DEF Items
  <2>6. received' \o delivery'.queue = received \o delivery.queue
    BY <2>2, <2>3, <2>4, <2>5
  <2> QED
    BY <1>1, <2>6 DEF Stream
<1> QED
  BY <1>2, <1>3 DEF Dequeue

LEMMA TakeStream ==
  ASSUME Typing, Take, TakeOutcome(shared) = "item"
  PROVE  /\ feeder'.entry \in Entry
         /\ feeder'.entry = [seq |-> shared.ring[1], gap |-> shared.dropped, error |-> FALSE]
         /\ Stream' = Append(Stream, feeder'.entry)
<1>1. /\ feeder.at = "taking" /\ received' = received /\ delivery' = delivery
      /\ feeder' = [at |-> "pushing",
                    entry |-> [seq |-> Head(shared.ring), gap |-> shared.dropped, error |-> FALSE]]
      /\ shared.ring # <<>>
  BY DEF Take, TakeOutcome
<1>2. shared.ring \in Seq(Nat) /\ shared.dropped \in Nat
  BY DEF Typing, Rings
<1>3. Head(shared.ring) = shared.ring[1] /\ shared.ring[1] \in Nat
  BY <1>1, <1>2
<1>4. /\ feeder'.entry = [seq |-> shared.ring[1], gap |-> shared.dropped, error |-> FALSE]
      /\ feeder'.entry \in Entry /\ feeder'.at = "pushing"
  BY <1>1, <1>2, <1>3 DEF Entry
<1>5. Stream = received \o delivery.queue /\ received \o delivery.queue \in Items
  BY <1>1, StreamTyped
<1>6. Stream' = (received \o delivery.queue) \o <<feeder'.entry>>
  BY <1>1, <1>4 DEF Stream
<1>7. Append(received \o delivery.queue, feeder'.entry) = (received \o delivery.queue) \o <<feeder'.entry>>
  BY <1>4, <1>5, AppendIsConcat DEF Items
<1> QED
  BY <1>4, <1>5, <1>6, <1>7

LEMMA PushItemStream ==
  ASSUME Typing, PushItem
  PROVE  /\ ~delivery.finished => Stream' = Stream
         /\ delivery.finished => Stream = Append(Stream', feeder.entry) /\ Stream' \in Items
<1>1. /\ feeder.at = "pushing" /\ received' = received /\ delivery' = PushedTo(feeder.entry)
      /\ feeder'.at # "pushing"
  BY DEF PushItem, IdleAt
<1>2. /\ received \in Items /\ delivery.queue \in Items /\ feeder.entry \in Entry
      /\ received \o delivery.queue \in Items
      /\ Stream = Append(received \o delivery.queue, feeder.entry)
  BY <1>1, StreamTyped
<1>3. Stream' = received \o delivery'.queue \/ delivery'.queue \notin Items
  BY <1>1, <1>2, ConcatEmptySeq, ConcatProperties DEF Items, Stream
<1>4. CASE delivery.finished
  BY <1>1, <1>2, <1>3, <1>4 DEF PushedTo
<1>5. CASE ~delivery.finished
  <2>1. delivery'.queue = Append(delivery.queue, feeder.entry)
    BY <1>1, <1>5 DEF PushedTo, Typing
  <2>2. /\ Append(delivery.queue, feeder.entry) \in Items
        /\ received \o Append(delivery.queue, feeder.entry)
             = Append(received \o delivery.queue, feeder.entry)
    BY <1>2, MoreOfLast
  <2>3. Stream' = Append(received \o delivery.queue, feeder.entry)
    BY <1>3, <2>1, <2>2
  <2> QED
    BY <1>2, <1>5, <2>3
<1> QED
  BY <1>4, <1>5

LEMMA PushFailureStream ==
  ASSUME Typing, PushFailure
  PROVE  /\ Overrun \in Entry
         /\ delivery.finished => Stream' = Stream
         /\ ~delivery.finished => Stream' = Append(Stream, Overrun)
<1>1. /\ feeder.at = "failing" /\ received' = received /\ delivery' = PushedTo(Overrun)
      /\ feeder'.at # "pushing"
  BY DEF PushFailure, IdleAt
<1>2. Overrun \in Entry
  BY DEF Overrun, Entry
<1>3. /\ received \in Items /\ delivery.queue \in Items
      /\ received \o delivery.queue \in Items /\ Stream = received \o delivery.queue
  BY <1>1, StreamTyped
<1>4. Stream' = received \o delivery'.queue \/ delivery'.queue \notin Items
  BY <1>1, <1>3, ConcatEmptySeq, ConcatProperties DEF Items, Stream
<1>5. CASE delivery.finished
  BY <1>1, <1>2, <1>3, <1>4, <1>5 DEF PushedTo
<1>6. CASE ~delivery.finished
  <2>1. delivery'.queue = Append(delivery.queue, Overrun)
    BY <1>1, <1>6 DEF PushedTo, Typing
  <2>2. PICK o \in Entry : o = Overrun
    BY <1>2
  <2>3. /\ Append(delivery.queue, o) \in Items
        /\ received \o Append(delivery.queue, o) = Append(received \o delivery.queue, o)
    BY <1>3, MoreOfLast
  <2>4. Stream' = Append(received \o delivery.queue, o)
    BY <1>4, <2>1, <2>2, <2>3
  <2> QED
    BY <1>2, <1>3, <1>6, <2>2, <2>4
<1> QED
  BY <1>2, <1>5, <1>6

Places == <<shared.ring, shared.captured, shared.dropped, shared.failure>>

\* Who is where, step by step.
LEMMA ThreadsStep ==
  ASSUME FeedTypeOK, Threads, Ending, FeedNext
  PROVE  Threads' /\ Ending' /\ selector' = selector
<1> USE DEF Threads, Ending, Feeding
<1>0. Typing
  BY FeedTypes
<1>1. CASE Capture
  <2>1. /\ shared'.producerDone = shared.producerDone
        /\ shared'.failure => shared'.closed
        /\ shared.closed => shared'.closed
    <3>1. shared' = Pushed(shared)
      BY <1>1 DEF Capture
    <3>2. CASE shared.closed
      <4>1. shared' = shared
        BY <3>1, <3>2 DEF Pushed
      <4> QED
        BY <4>1
    <3>3. CASE ~shared.closed /\ Len(shared.ring) >= RingCap /\ selector.policy = "fail"
      <4>1. shared' = [shared EXCEPT !.captured = @ + 1, !.failure = TRUE, !.closed = TRUE]
        BY <3>1, <3>3 DEF Pushed
      <4> QED
        BY <1>0, <3>3, <4>1 DEF Typing, Rings
    <3>4. CASE ~shared.closed /\ ~(Len(shared.ring) >= RingCap /\ selector.policy = "fail")
      <4>1. shared' = Appended(shared)
        BY <3>1, <3>4 DEF Pushed
      <4>2. shared'.failure = shared.failure /\ shared'.producerDone = shared.producerDone
        BY <1>0, <4>1 DEF Appended, Typing, Rings
      <4> QED
        BY <3>4, <4>2
    <3> QED
      BY <3>2, <3>3, <3>4
  <2> QED
    BY <1>1, <2>1 DEF Capture
<1>2. CASE OpenDevice \/ StartFeeder \/ Register \/ DeviceEnds \/ Deadline
  BY <1>0, <1>2 DEF Typing, OpenDevice, StartFeeder, Register, DeviceEnds, Deadline, IdleAt
<1>3. CASE FinishProducer
  BY <1>0, <1>3 DEF Typing, Rings, FinishProducer
<1>4. CASE Loop
  BY <1>0, <1>4 DEF Typing, Rings, Loop, IdleAt
<1>5. CASE Take
  <2>1. /\ feeder.at = "taking" /\ tap' = tap /\ producer' = producer /\ delivery' = delivery
        /\ consumer' = consumer /\ selector' = selector
    BY <1>5 DEF Take
  <2>2. CASE TakeOutcome(shared) = "failed"
    <3>1. /\ shared' = [shared EXCEPT !.failure = FALSE] /\ shared.failure
          /\ feeder'.at = "failing"
      BY <1>5, <2>2 DEF Take, TakeOutcome, IdleAt
    <3> QED
      BY <1>0, <2>1, <3>1 DEF Typing, Rings
  <2>3. CASE TakeOutcome(shared) = "item"
    <3>1. shared' = [shared EXCEPT !.ring = Tail(@), !.dropped = 0] /\ feeder'.at = "pushing"
      BY <1>5, <2>3 DEF Take
    <3> QED
      BY <1>0, <2>1, <3>1 DEF Typing, Rings
  <2>4. CASE TakeOutcome(shared) = "done"
    <3>1. /\ shared' = IF shared.producerDone \/ shared.closed THEN shared
                       ELSE [shared EXCEPT !.closed = TRUE]
          /\ feeder'.at = "finishing"
      BY <1>5, <2>4 DEF Take, IdleAt
    <3> QED
      BY <1>0, <2>1, <3>1 DEF Typing, Rings
  <2> QED
    BY <1>5, <2>2, <2>3, <2>4 DEF Take
<1>6. CASE PushItem
  BY <1>0, <1>6 DEF Typing, Rings, PushItem, PushedTo, IdleAt
<1>7. CASE PushFailure \/ FinishDelivery
  <2>1. /\ feeder.at \in {"failing", "finishing"} /\ tap' = tap /\ producer' = producer /\ shared' = shared
        /\ consumer' = consumer /\ selector' = selector
        /\ feeder'.at \in {"finishing", "ended"}
    BY <1>7 DEF PushFailure, FinishDelivery, IdleAt
  <2>2. CASE PushFailure
    <3>1. delivery' = IF delivery.finished THEN delivery
                      ELSE [delivery EXCEPT !.queue = Append(@, Overrun)]
      BY <2>2 DEF PushFailure, PushedTo
    <3>2. delivery'.finished = delivery.finished /\ (delivery.finished => delivery' = delivery)
      BY <1>0, <3>1 DEF Typing
    <3> QED
      BY <2>1, <2>2, <3>2 DEF PushFailure
  <2>3. CASE FinishDelivery
    <3>1. feeder'.at = "ended" /\ delivery'.queue = delivery.queue /\ delivery'.finished
      BY <1>0, <2>3 DEF Typing, FinishDelivery, IdleAt
    <3> QED
      BY <2>1, <3>1
  <2> QED
    BY <1>7, <2>2, <2>3
<1>8. CASE Dequeue \/ Release
  BY <1>0, <1>8 DEF Typing, Dequeue, Release
<1>9. CASE CloseReleased \/ CloseStream \/ Cancel \/ FeedHandlerDone \/ FeedRest
  BY <1>0, <1>9 DEF Typing, Rings, CloseReleased, CloseStream, Cancel, FeedHandlerDone,
                    CloseTaps, FeedRest, feedVars
<1> QED
  BY <1>1, <1>2, <1>3, <1>4, <1>5, <1>6, <1>7, <1>8, <1>9 DEF FeedNext

Books == RingFollows /\ LastWord /\ Marked /\ NothingDropped /\ AllTold

\* A step that leaves stream, ring and numbers alone.
LEMMA QuietStep ==
  ASSUME Books, Stream' = Stream, selector' = selector, UNCHANGED Places,
         Feeding' => Feeding,
         feeder.at \in {"finishing", "ended"} => feeder'.at \in {"finishing", "ended"},
         feeder'.at \in {"finishing", "ended"} /\ consumer' \in {"reading", "ended"} =>
           \/ feeder.at \in {"finishing", "ended"} /\ consumer \in {"reading", "ended"}
           \/ shared.captured = Told(Stream)
  PROVE  Books'
<1> USE DEF Books
<1>1. PICK s : s = Stream /\ s = Stream'
  OBVIOUS
<1>2. RingFollows'
  BY <1>1 DEF RingFollows, Places, Told
<1>3. LastWord' /\ Marked'
  BY <1>1 DEF LastWord, Marked
<1>4. NothingDropped'
  BY <1>1 DEF NothingDropped, Places
<1>5. AllTold'
  BY <1>1 DEF AllTold, Places, Told
<1> QED
  BY <1>2, <1>3, <1>4, <1>5

LEMMA QuietActions ==
  ASSUME Typing, Threads, Ending, Books,
         \/ OpenDevice \/ StartFeeder \/ Register \/ DeviceEnds \/ FinishProducer
         \/ Deadline \/ Loop \/ FinishDelivery \/ Dequeue \/ Release
         \/ CloseReleased \/ CloseStream \/ Cancel \/ FeedHandlerDone \/ FeedRest
  PROVE  Books'
<1>1. CASE \/ OpenDevice \/ StartFeeder \/ Register \/ DeviceEnds \/ FinishProducer
           \/ Deadline \/ Loop
  <2>1. /\ received' = received /\ delivery' = delivery /\ consumer' = consumer /\ selector' = selector
        /\ (feeder.at # "pushing" /\ feeder'.at # "pushing") \/ feeder' = feeder
        /\ Feeding' => Feeding
        /\ \/ feeder' = feeder
           \/ feeder.at \in {"unborn", "looping"} /\ feeder'.at \in {"looping", "taking"}
    BY <1>1 DEF Typing, OpenDevice, StartFeeder, Register, DeviceEnds, FinishProducer,
                Deadline, Loop, IdleAt, Threads, Feeding
  <2>2. UNCHANGED Places
    BY <1>1 DEF OpenDevice, StartFeeder, Register, DeviceEnds, FinishProducer,
                Deadline, Loop, Typing, Rings, Places
  <2>3. Stream' = Stream
    BY <2>1 DEF Stream
  <2> QED
    BY <2>1, <2>2, <2>3, QuietStep
<1>2. CASE FinishDelivery
  <2>1. /\ received' = received /\ delivery'.queue = delivery.queue /\ consumer' = consumer
        /\ selector' = selector /\ shared' = shared
        /\ feeder.at = "finishing" /\ feeder'.at = "ended"
    BY <1>2 DEF FinishDelivery, IdleAt, Typing
  <2>2. Stream' = Stream
    BY <2>1 DEF Stream
  <2> QED
    BY <2>1, <2>2, QuietStep DEF Places, Feeding
<1>3. CASE Dequeue
  <2>1. /\ feeder' = feeder /\ selector' = selector /\ shared' = shared
        /\ consumer = "reading"
    BY <1>3 DEF Dequeue
  <2>2. Stream' = Stream
    BY <1>3, DequeueKeepsStream
  <2> QED
    BY <2>1, <2>2, QuietStep DEF Places, Feeding
<1>4. CASE Release \/ CloseReleased \/ CloseStream \/ Cancel \/ FeedHandlerDone \/ FeedRest
  <2>1. /\ received' = received /\ delivery'.queue = delivery.queue /\ feeder' = feeder
        /\ selector' = selector
        /\ consumer' \in {"reading", "ended"} => consumer \in {"reading", "ended"}
    BY <1>4 DEF Release, CloseReleased, CloseStream, Cancel, FeedHandlerDone, FeedRest,
                feedVars, Typing
  <2>2. UNCHANGED Places
    BY <1>4 DEF Release, CloseReleased, CloseStream, Cancel, FeedHandlerDone, FeedRest,
                feedVars, CloseTaps, Typing, Rings, Places
  <2>3. Stream' = Stream
    BY <2>1 DEF Stream
  <2> QED
    BY <2>1, <2>2, <2>3, QuietStep DEF Feeding
<1> QED
  BY <1>1, <1>2, <1>3, <1>4

LEMMA ToldNat == ASSUME NEW s \in Items PROVE Told(s) \in Nat /\ Len(s) \in Nat
<1>1. Len(s) \in Nat
  BY DEF Items
<1>2. CASE s = <<>>
  BY <1>1, <1>2 DEF Told
<1>3. CASE s # <<>>
  <2>1. Len(s) \in 1..Len(s)
    BY <1>3 DEF Items
  <2>2. PICK e \in Entry : e = s[Len(s)]
    BY <2>1, ElementOfSeq DEF Items
  <2>3. e.seq \in Nat
    BY DEF Entry
  <2> QED
    BY <1>1, <1>3, <2>2, <2>3 DEF Told
<1> QED
  BY <1>2, <1>3

\* What is left when the oldest is gone.
LEMMA OldestGone ==
  ASSUME NEW r \in Seq(Nat), r # <<>>
  PROVE  /\ Len(r) \in Nat \ {0} /\ Tail(r) \in Seq(Nat) /\ Len(Tail(r)) = Len(r) - 1
         /\ \A i \in 1..(Len(r) - 1) : Tail(r)[i] = r[i + 1]
         /\ \A i \in 1..Len(r) : r[i] \in Nat
         /\ Tail(r) = <<>> <=> Len(r) = 1
<1>1. Len(r) \in Nat \ {0} /\ Tail(r) \in Seq(Nat) /\ Len(Tail(r)) = Len(r) - 1
  BY HeadTailProperties, EmptySeq
<1>2. \A i \in 1..(Len(r) - 1) : Tail(r)[i] = r[i + 1]
  BY <1>1, HeadTailProperties
<1>3. \A i \in 1..Len(r) : r[i] \in Nat
  BY ElementOfSeq
<1>4. Tail(r) = <<>> <=> Len(Tail(r)) = 0
  BY <1>1, EmptySeq
<1> QED
  BY <1>1, <1>2, <1>3, <1>4

LEMMA CaptureBooks ==
  ASSUME Typing, Threads, Books, Capture PROVE Books'
<1>1. /\ feeder' = feeder /\ delivery' = delivery /\ consumer' = consumer /\ received' = received
      /\ selector' = selector /\ producer = "capturing" /\ shared' = Pushed(shared)
  BY DEF Capture
<1>2. Stream' = Stream
  BY <1>1 DEF Stream
<1>3. CASE shared' = shared
  BY <1>1, <1>2, <1>3, QuietStep DEF Places, Feeding
<1>4. CASE ~shared.closed /\ shared' # shared
  <2>1. /\ Feeding /\ ~shared.failure
        /\ Feeding' /\ feeder'.at = feeder.at
    BY <1>1, <1>4 DEF Threads, Feeding
  <2>0. PICK s \in Items : s = Stream /\ s = Stream' /\ Told(s) \in Nat
    BY <1>2, StreamTyped, ToldNat
  <2>2. PICK ring \in Seq(Nat), c \in Nat, d \in Nat :
          /\ ring = shared.ring /\ c = shared.captured /\ d = shared.dropped
          /\ Len(ring) \in Nat /\ shared \in Rings
    BY DEF Typing, Rings
  <2>8. /\ \A i \in 1..(Len(ring) - 1) : ring[i + 1] = ring[i] + 1
        /\ ring = <<>> => d = 0 /\ c = Told(s)
        /\ ring # <<>> => ring[1] = Told(s) + d /\ c = ring[Len(ring)] + 1
    BY <2>0, <2>1, <2>2 DEF Books, RingFollows
  <2>3. LastWord' /\ Marked'
    BY <1>1, <1>2 DEF Books, LastWord, Marked
  <2>4. AllTold'
    BY <1>1, <2>1 DEF AllTold, Feeding
  <2>5. CASE Len(ring) >= RingCap /\ selector.policy = "fail"
    <3>1. shared' = [shared EXCEPT !.captured = @ + 1, !.failure = TRUE, !.closed = TRUE]
      BY <1>1, <1>4, <2>2, <2>5 DEF Pushed
    <3>2. shared'.ring = ring /\ shared'.dropped = shared.dropped /\ shared'.failure
      BY <2>2, <3>1 DEF Rings
    <3>3. RingFollows'
      BY <2>0, <2>2, <2>8, <3>2 DEF RingFollows
    <3>4. NothingDropped'
      BY <1>1, <1>2, <3>2 DEF Books, NothingDropped
    <3> QED
      BY <2>3, <2>4, <3>3, <3>4 DEF Books
  <2>6. CASE Len(ring) < RingCap
    <3>1. shared' = [shared EXCEPT !.ring = Append(@, shared.captured), !.captured = @ + 1]
      BY <1>1, <1>4, <2>2, <2>6, CapsAreReal DEF Pushed, Appended
    <3>2. /\ shared'.ring = Append(ring, c) /\ shared'.dropped = d
          /\ shared'.captured = c + 1 /\ shared'.failure = shared.failure
      BY <2>2, <3>1 DEF Rings
    <3>3. /\ Len(shared'.ring) = Len(ring) + 1
          /\ \A i \in 1..Len(ring) : shared'.ring[i] = ring[i]
          /\ shared'.ring[Len(ring) + 1] = c
      BY <2>2, <3>2
    <3>4. c = IF ring = <<>> THEN Told(s) ELSE ring[Len(ring)] + 1
      BY <2>8
    <3>5. \A i \in 1..Len(ring) : shared'.ring[i + 1] = shared'.ring[i] + 1
      <4>1. SUFFICES ASSUME NEW i \in 1..Len(ring) PROVE shared'.ring[i + 1] = shared'.ring[i] + 1
        OBVIOUS
      <4>2. CASE i = Len(ring)
        <5>1. ring # <<>>
          BY <4>2, <2>2
        <5> QED
          BY <2>2, <3>3, <3>4, <4>2, <5>1
      <4>3. CASE i # Len(ring)
        <5>1. i \in 1..(Len(ring) - 1) /\ i + 1 \in 1..Len(ring)
          BY <2>2, <4>3
        <5>2. ring[i + 1] = ring[i] + 1
          BY <2>8, <5>1
        <5> QED
          BY <3>3, <5>1, <5>2
      <4> QED
        BY <4>2, <4>3
    <3>6. shared'.ring # <<>> /\ shared'.ring[1] = Told(s) + d
      <4>1. CASE ring = <<>>
        <5>1. d = 0 /\ c = Told(s) /\ Len(ring) = 0
          BY <2>8, <4>1
        <5> QED
          BY <2>0, <2>2, <3>3, <5>1
      <4>2. CASE ring # <<>>
        <5>1. ring[1] = Told(s) + d /\ 1 \in 1..Len(ring)
          BY <2>2, <2>8, <4>2, OldestGone
        <5> QED
          BY <2>0, <2>2, <3>3, <5>1
      <4> QED
        BY <4>1, <4>2
    <3>7. shared'.captured = shared'.ring[Len(shared'.ring)] + 1
      BY <2>2, <3>2, <3>3
    <3>8. RingFollows'
      <4>1. \A i \in 1..(Len(shared'.ring) - 1) : shared'.ring[i + 1] = shared'.ring[i] + 1
        <5>1. Len(shared'.ring) - 1 = Len(ring)
          BY <2>2, <3>3
        <5> QED
          BY <3>5, <5>1
      <4> QED
        BY <2>0, <3>2, <3>6, <3>7, <4>1 DEF RingFollows
    <3>9. NothingDropped'
      BY <1>1, <1>2, <2>2, <3>2 DEF Books, NothingDropped
    <3> QED
      BY <2>3, <2>4, <3>8, <3>9 DEF Books
  <2>7. CASE ~(Len(ring) < RingCap) /\ selector.policy # "fail"
    <3>1. shared' = [shared EXCEPT !.ring = Append(Tail(@), shared.captured),
                                   !.captured = @ + 1, !.dropped = @ + 1]
      BY <1>1, <1>4, <2>2, <2>7, CapsAreReal DEF Pushed, Appended
    <3>2. /\ shared'.ring = Append(Tail(ring), c) /\ shared'.dropped = d + 1
          /\ shared'.captured = c + 1 /\ shared'.failure = shared.failure
      BY <2>2, <3>1 DEF Rings
    <3>3. Len(ring) >= 1 /\ ring # <<>>
      BY <2>2, <2>7, CapsAreReal
    <3>4. /\ Len(shared'.ring) = Len(ring)
          /\ \A i \in 1..(Len(ring) - 1) : shared'.ring[i] = ring[i + 1]
          /\ shared'.ring[Len(ring)] = c
      <4>0. /\ Tail(ring) \in Seq(Nat) /\ Len(Tail(ring)) = Len(ring) - 1
            /\ \A i \in 1..(Len(ring) - 1) : Tail(ring)[i] = ring[i + 1]
        BY <2>2, <3>3, OldestGone
      <4>1. PICK t \in Seq(Nat) : t = Tail(ring) /\ Len(t) = Len(ring) - 1
                                  /\ \A i \in 1..Len(t) : t[i] = ring[i + 1]
        BY <4>0
      <4>2. shared'.ring = Append(t, c)
        BY <3>2, <4>1
      <4> QED
        BY <2>2, <4>1, <4>2
    <3>5. c = ring[Len(ring)] + 1 /\ ring[1] = Told(s) + d
      BY <2>8, <3>3
    <3>6. \A i \in 1..(Len(ring) - 1) : ring[i + 1] = ring[i] + 1 /\ ring[i] \in Nat
      BY <2>2, <2>8, <3>3, OldestGone
    <3>7. \A i \in 1..(Len(ring) - 1) : shared'.ring[i + 1] = shared'.ring[i] + 1
      <4>1. SUFFICES ASSUME NEW i \in 1..(Len(ring) - 1) PROVE shared'.ring[i + 1] = shared'.ring[i] + 1
        OBVIOUS
      <4>2. CASE i = Len(ring) - 1
        <5>1. i + 1 = Len(ring)
          BY <2>2, <4>2
        <5> QED
          BY <2>2, <3>4, <3>5, <5>1
      <4>3. CASE i # Len(ring) - 1
        <5>1. i + 1 \in 1..(Len(ring) - 1)
          BY <2>2, <4>3
        <5> QED
          BY <2>2, <3>4, <3>6, <5>1
      <4> QED
        BY <4>2, <4>3
    <3>8. shared'.ring # <<>> /\ shared'.ring[1] = ring[1] + 1
      <4>1. CASE Len(ring) = 1
        BY <2>2, <3>4, <3>5, <4>1
      <4>2. CASE Len(ring) # 1
        <5>1. 1 \in 1..(Len(ring) - 1)
          <6>1. PICK n \in Nat : n = Len(ring)
            BY <2>2
          <6>2. n >= 1 /\ n # 1
            BY <3>3, <4>2, <6>1
          <6>3. 1 \in 1..(n - 1)
            BY <6>2
          <6> QED
            BY <6>1, <6>3
        <5> QED
          BY <2>2, <3>3, <3>4, <3>6, <5>1
      <4> QED
        BY <4>1, <4>2
    <3>9. Told(s) \in Nat /\ shared'.ring[1] = Told(s) + shared'.dropped
      <4>1. PICK n \in Nat : n = Told(s)
        BY <2>0
      <4>2. shared'.ring[1] = (n + d) + 1
        BY <3>5, <3>8, <4>1
      <4>3. (n + d) + 1 = n + (d + 1)
        OBVIOUS
      <4> QED
        BY <2>0, <3>2, <4>1, <4>2, <4>3
    <3>10. RingFollows'
      <4>1. shared'.captured = shared'.ring[Len(shared'.ring)] + 1
        BY <2>2, <3>2, <3>4
      <4> QED
        BY <2>0, <3>4, <3>7, <3>8, <3>9, <4>1 DEF RingFollows
    <3>11. NothingDropped'
      BY <1>1, <2>7 DEF NothingDropped
    <3> QED
      BY <2>3, <2>4, <3>10, <3>11 DEF Books
  <2> QED
    BY <2>2, <2>5, <2>6, <2>7, CapsAreReal
<1>5. shared.closed => shared' = shared
  BY <1>1 DEF Pushed
<1> QED
  BY <1>3, <1>4, <1>5

LEMMA TakeBooks ==
  ASSUME Typing, Threads, Books, Take PROVE Books'
<1>1. /\ feeder.at = "taking" /\ delivery' = delivery /\ consumer' = consumer /\ received' = received
      /\ selector' = selector /\ Feeding
  BY DEF Take, Feeding
<1>2. PICK s \in Items : s = Stream /\ Len(s) \in Nat /\ Told(s) \in Nat
  BY StreamTyped, ToldNat
<1>3. CASE TakeOutcome(shared) = "item"
  <2>1. PICK e \in Entry : /\ e = feeder'.entry
                                /\ e = [seq |-> shared.ring[1], gap |-> shared.dropped, error |-> FALSE]
                                /\ Stream' = Append(s, e)
    BY <1>2, <1>3, TakeStream
  <2>2. PICK t : t = Stream' /\ t = Append(s, e)
    BY <2>1
  <2>3. /\ t \in Items /\ Len(t) = Len(s) + 1 /\ t # <<>>
        /\ \A i \in 1..Len(s) : t[i] = s[i]
        /\ t[Len(t)] = e /\ Told(t) = e.seq + 1
    <3>1. t = Append(s, e)
      BY <2>2
    <3>2. t \in Items /\ Len(t) = Len(s) + 1 
      BY <3>1, EntryMore
    <3>3. \A i \in 1..Len(s) : t[i] = s[i]
      BY <3>1, EntryMore
    <3>4. t[Len(t)] = e
      BY <3>1, EntryMore
    <3>5. t # <<>>
      BY <3>1, EntryMore
    <3>6. Told(t) = e.seq + 1
      BY <3>1, EntryMore
    <3> QED
      BY <3>2, <3>3, <3>4, <3>5, <3>6
  <2>4. /\ shared' = [shared EXCEPT !.ring = Tail(@), !.dropped = 0]
        /\ feeder'.at = "pushing" /\ shared.ring # <<>> /\ ~shared.failure
    BY <1>3 DEF Take, TakeOutcome
  <2>5. PICK ring \in Seq(Nat) : ring = shared.ring /\ Len(ring) \in Nat
    BY DEF Typing, Rings
  <2>6. /\ shared'.ring = Tail(ring) /\ shared'.dropped = 0 /\ shared'.captured = shared.captured
        /\ shared'.failure = shared.failure
    BY <2>4, <2>5 DEF Typing, Rings
  <2>7. /\ ring # <<>> /\ Len(ring) >= 1 /\ Len(Tail(ring)) = Len(ring) - 1
        /\ \A i \in 1..(Len(ring) - 1) : Tail(ring)[i] = ring[i + 1]
        /\ Tail(ring) = <<>> <=> Len(ring) = 1
    BY <2>4, <2>5, OldestGone
  <2>8. /\ \A i \in 1..(Len(ring) - 1) : ring[i + 1] = ring[i] + 1
        /\ ring[1] = Told(s) + shared.dropped
        /\ shared.captured = ring[Len(ring)] + 1
    BY <1>1, <1>2, <2>4, <2>5 DEF Books, RingFollows
  <2>9. Told(t) = ring[1] + 1 /\ e.error = FALSE /\ e.gap = shared.dropped /\ e.seq = ring[1]
    BY <2>1, <2>3, <2>5
  <2>10. RingFollows'
    <3>1. \A i \in 1..(Len(Tail(ring)) - 1) : Tail(ring)[i + 1] = Tail(ring)[i] + 1
      BY <2>5, <2>7, <2>8
    <3>2. Tail(ring) = <<>> => shared.captured = Told(t)
      BY <2>7, <2>8, <2>9
    <3>3. Tail(ring) # <<>> => /\ Tail(ring)[1] = Told(t) + 0
                              /\ shared.captured = Tail(ring)[Len(Tail(ring))] + 1
      <4>1. SUFFICES ASSUME Len(ring) # 1
                     PROVE  /\ Tail(ring)[1] = Told(t) + 0
                            /\ shared.captured = Tail(ring)[Len(Tail(ring))] + 1
        BY <2>7
      <4>2. 1 \in 1..(Len(ring) - 1) /\ Len(ring) - 1 \in 1..(Len(ring) - 1)
        BY <2>5, <2>7, <4>1
      <4>3. Tail(ring)[1] = ring[1] + 1 /\ ring[1] \in Nat
        BY <2>5, <2>7, <2>8, <4>2
      <4>4. Tail(ring)[Len(ring) - 1] = ring[Len(ring)]
        BY <2>5, <2>7, <4>2
      <4>5. Tail(ring)[1] = Told(t) + 0
        <5>1. Told(t) = ring[1] + 1
          BY <2>9
        <5>2. (ring[1] + 1) + 0 = ring[1] + 1
          BY <4>3
        <5> QED
          BY <4>3, <5>1, <5>2
      <4>6. shared.captured = Tail(ring)[Len(Tail(ring))] + 1
        BY <2>7, <2>8, <4>4
      <4> QED
        BY <4>5, <4>6
    <3> QED
      BY <2>2, <2>6, <3>1, <3>2, <3>3 DEF RingFollows
  <2>11. \A i \in 1..Len(s) : ~s[i].error
    BY <1>1, <1>2 DEF Books, LastWord
  <2>12. LastWord'
    <3>1. \A i \in 1..Len(t) : ~t[i].error
      BY <1>2, <2>3, <2>9, <2>11
    <3> QED
      BY <2>2, <3>1 DEF LastWord
  <2>13. Marked'
    <3>1. ASSUME NEW i \in 1..Len(t)
          PROVE  t[i].seq = t[i].gap + (IF i = 1 THEN 0 ELSE t[i - 1].seq + 1)
      <4>1. CASE i = Len(t)
        <5>1. Told(s) = IF i = 1 THEN 0 ELSE t[i - 1].seq + 1
          <6>1. CASE Len(s) = 0
            <7>1. s = <<>> /\ i = 1
              BY <1>2, <2>3, <4>1, <6>1 DEF Items
            <7> QED
              BY <7>1 DEF Told
          <6>2. CASE Len(s) # 0
            <7>1. s # <<>> /\ i # 1 /\ i - 1 = Len(s) /\ i - 1 \in 1..Len(s)
              BY <1>2, <2>3, <4>1, <6>2
            <7> QED
              BY <2>3, <7>1 DEF Told
          <6> QED
            BY <6>1, <6>2
        <5>2. Told(s) \in Nat /\ shared.dropped \in Nat
          BY <1>2 DEF Typing, Rings
        <5>3. t[i] = e
          BY <2>3, <4>1
        <5>4. e.seq = e.gap + Told(s)
          BY <2>8, <2>9, <5>2
        <5> QED
          BY <5>1, <5>3, <5>4
      <4>2. CASE i # Len(t)
        <5>1. i \in 1..Len(s) /\ (i # 1 => i - 1 \in 1..Len(s))
          BY <1>2, <2>3, <4>2
        <5>2. s[i].seq = s[i].gap + (IF i = 1 THEN 0 ELSE s[i - 1].seq + 1)
          BY <1>2, <2>11, <5>1 DEF Books, Marked
        <5> QED
          BY <2>3, <5>1, <5>2
      <4> QED
        BY <4>1, <4>2
    <3> QED
      BY <2>2, <3>1 DEF Marked
  <2>14. NothingDropped'
    <3>1. selector.policy = "fail" => \A i \in 1..Len(t) : t[i].gap = 0
      BY <1>2, <2>3, <2>9 DEF Books, NothingDropped
    <3> QED
      BY <1>1, <2>2, <2>6, <3>1 DEF NothingDropped
  <2>15. AllTold'
    BY <2>4 DEF AllTold
  <2> QED
    BY <2>10, <2>12, <2>13, <2>14, <2>15 DEF Books
<1>4. CASE TakeOutcome(shared) # "item"
  <2>1. /\ feeder'.at \in {"failing", "finishing"}
        /\ feeder'.at = "finishing" => shared.ring = <<>> /\ ~shared.failure
        /\ shared' \in {shared, [shared EXCEPT !.failure = FALSE], [shared EXCEPT !.closed = TRUE]}
    BY <1>4 DEF Take, TakeOutcome, IdleAt
  <2>2. shared'.ring = shared.ring /\ shared'.dropped = shared.dropped /\ shared'.captured = shared.captured
    BY <2>1 DEF Typing, Rings
  <2>3. Stream' = s
    BY <1>1, <1>2, <2>1 DEF Stream
  <2>4. RingFollows'
    BY <2>1 DEF RingFollows, Feeding
  <2>5. \A i \in 1..Len(s) : ~s[i].error
    BY <1>1, <1>2 DEF Books, LastWord
  <2>6. LastWord' /\ Marked'
    BY <1>2, <2>3, <2>5 DEF Books, LastWord, Marked
  <2>7. NothingDropped'
    BY <1>1, <1>2, <2>2, <2>3 DEF Books, NothingDropped
  <2>8. feeder'.at = "finishing" => shared.captured = Told(s)
    BY <1>1, <1>2, <2>1 DEF Books, RingFollows
  <2>9. AllTold'
    BY <2>1, <2>2, <2>3, <2>8 DEF AllTold
  <2> QED
    BY <2>4, <2>6, <2>7, <2>9 DEF Books
<1> QED
  BY <1>3, <1>4

LEMMA PushItemBooks ==
  ASSUME Typing, Threads, Ending, Books, PushItem PROVE Books'
<1>1. /\ feeder.at = "pushing" /\ consumer' = consumer /\ selector' = selector
      /\ feeder'.at = IF delivery.finished THEN "ended" ELSE "looping"
      /\ shared' = IF delivery.finished THEN [shared EXCEPT !.closed = TRUE] ELSE shared
  BY DEF PushItem, IdleAt
<1>2. UNCHANGED Places
  BY <1>1 DEF Places, Typing, Rings
<1>3. CASE ~delivery.finished
  <2>1. Stream' = Stream
    BY <1>3, PushItemStream
  <2> QED
    BY <1>1, <1>2, <1>3, <2>1, QuietStep DEF Feeding
<1>4. CASE delivery.finished
  <2>1. PICK t \in Items : t = Stream' /\ Stream = Append(t, feeder.entry)
    BY <1>4, PushItemStream
  <2>2. PICK s : s = Stream
    OBVIOUS
  <2>3. /\ Len(t) \in Nat /\ Len(s) = Len(t) + 1 /\ \A i \in 1..Len(t) : s[i] = t[i]
    BY <2>1, <2>2, EntryMore, StreamTyped
  <2>4. consumer' \notin {"reading", "ended"}
    BY <1>1, <1>4 DEF Ending
  <2>5. \A i \in 1..Len(s) : ~s[i].error
    BY <1>1, <2>2 DEF Books, LastWord
  <2>6. \A i \in 1..Len(t) : i \in 1..Len(s) /\ (i # 1 => i - 1 \in 1..Len(t) /\ i - 1 \in 1..Len(s))
    BY <2>3
  <2>7. LastWord' /\ Marked'
    <3>1. \A i \in 1..Len(t) : ~t[i].error
      BY <2>3, <2>5, <2>6
    <3>2. \A i \in 1..Len(t) : t[i].seq = t[i].gap + (IF i = 1 THEN 0 ELSE t[i - 1].seq + 1)
      BY <2>2, <2>3, <2>5, <2>6 DEF Books, Marked
    <3> QED
      BY <2>1, <3>1, <3>2 DEF LastWord, Marked
  <2>8. NothingDropped'
    BY <1>1, <1>2, <2>1, <2>2, <2>3, <2>6 DEF Books, NothingDropped, Places
  <2>9. RingFollows' /\ AllTold'
    BY <1>1, <1>4, <2>4 DEF RingFollows, AllTold, Feeding
  <2> QED
    BY <2>7, <2>8, <2>9 DEF Books
<1> QED
  BY <1>3, <1>4

LEMMA PushFailureBooks ==
  ASSUME Typing, Threads, Ending, Books, PushFailure PROVE Books'
<1>1. /\ feeder.at = "failing" /\ consumer' = consumer /\ selector' = selector
      /\ feeder'.at = "finishing" /\ shared' = shared
  BY DEF PushFailure, IdleAt
<1>2. PICK s \in Items : s = Stream /\ Len(s) \in Nat /\ Told(s) \in Nat
  BY StreamTyped, ToldNat
<1>3. \A i \in 1..Len(s) : ~s[i].error
  BY <1>1, <1>2 DEF Books, LastWord
<1>4. RingFollows'
  BY <1>1 DEF RingFollows, Feeding
<1>5. CASE delivery.finished
  <2>1. Stream' = s
    BY <1>2, <1>5, PushFailureStream
  <2>2. consumer' \notin {"reading", "ended"}
    BY <1>1, <1>5 DEF Ending
  <2> QED
    BY <1>1, <1>2, <1>3, <1>4, <2>1, <2>2 DEF Books, LastWord, Marked, NothingDropped, AllTold
<1>6. CASE ~delivery.finished
  <2>1. PICK o \in Entry : o = Overrun /\ Stream' = Append(s, o)
    BY <1>2, <1>6, PushFailureStream
  <2>2. PICK t : t = Stream'
    OBVIOUS
  <2>3. /\ Len(t) = Len(s) + 1 /\ \A i \in 1..Len(s) : t[i] = s[i]
        /\ t[Len(t)] = o
    BY <2>1, <2>2, EntryMore
  <2>4. o.error /\ o.gap = 0
    BY <2>1 DEF Overrun
  <2>5. \A i \in 1..Len(t) : i = Len(t) \/ (i \in 1..Len(s) /\ (i # 1 => i - 1 \in 1..Len(s)))
    BY <1>2, <2>3
  <2>6. Len(t) \in 1..Len(t)
    BY <1>2, <2>3
  <2>7. LastWord'
    BY <1>1, <1>3, <2>2, <2>3, <2>5 DEF LastWord
  <2>8. Marked'
    <3>1. \A i \in 1..Len(s) : s[i].seq = s[i].gap + (IF i = 1 THEN 0 ELSE s[i - 1].seq + 1)
      BY <1>2, <1>3 DEF Books, Marked
    <3>2. \A i \in 1..Len(t) : ~t[i].error => t[i].seq = t[i].gap + (IF i = 1 THEN 0 ELSE t[i - 1].seq + 1)
      BY <2>3, <2>4, <2>5, <3>1
    <3> QED
      BY <2>2, <3>2 DEF Marked
  <2>9. NothingDropped'
    BY <1>1, <1>2, <2>2, <2>3, <2>4, <2>5 DEF Books, NothingDropped
  <2>10. AllTold'
    BY <2>2, <2>3, <2>4, <2>6 DEF AllTold
  <2> QED
    BY <1>4, <2>7, <2>8, <2>9, <2>10 DEF Books
<1> QED
  BY <1>5, <1>6

LEMMA FeedBegins == ASSUME FeedInit PROVE FeedSound
<1> USE DEF Items
<1>1. FeedTypeOK
  <2>1. Overrun \in Entry
    BY DEF Overrun, Entry
  <2>2. <<>> \in Seq(Nat) /\ <<>> \in Items /\ 0 \in Nat
    OBVIOUS
  <2>3. shared \in Rings
    BY <2>2, Zenon DEF FeedInit, Rings
  <2>4. Typing
    BY <2>1, <2>2, <2>3 DEF FeedInit, Typing, IdleAt
  <2> QED
    BY <2>4, FeedTypes
<1>2. received = <<>> /\ delivery.queue = <<>> /\ feeder.at = "unborn"
  BY DEF FeedInit, IdleAt
<1>3. Stream = <<>> /\ Len(Stream) = 0
  <2>1. Stream = <<>> \o <<>>
    BY <1>1, <1>2, FeedTypes, StreamTyped
  <2> QED
    BY <2>1
<1>4. /\ shared.ring = <<>> /\ Len(shared.ring) = 0 /\ shared.captured = 0 /\ shared.dropped = 0
      /\ ~shared.failure /\ ~shared.producerDone
  BY DEF FeedInit
<1>5. Threads /\ Ending
  BY <1>2, <1>4 DEF FeedInit, Threads, Ending, Feeding
<1>6. RingFollows
  BY <1>3, <1>4 DEF RingFollows, Told
<1>7. LastWord /\ Marked /\ NothingDropped /\ AllTold
  BY <1>2, <1>3, <1>4 DEF LastWord, Marked, NothingDropped, AllTold
<1> QED
  BY <1>1, <1>5, <1>6, <1>7 DEF FeedSound

LEMMA FeedStep == ASSUME FeedSound, [FeedNext]_feedVars PROVE FeedSound'
<1>1. FeedTypeOK /\ Typing /\ Threads /\ Ending /\ Books
  BY FeedTypes DEF FeedSound, Books
<1>2. CASE UNCHANGED feedVars
  <2>1. Threads' /\ Ending' /\ Typing'
    BY <1>1, <1>2 DEF feedVars, Threads, Ending, Feeding, Typing
  <2>2. Stream' = Stream /\ UNCHANGED Places /\ (Feeding' <=> Feeding)
    BY <1>2 DEF feedVars, Stream, Places, Feeding
  <2>3. selector' = selector /\ feeder' = feeder /\ consumer' = consumer
    BY <1>2 DEF feedVars
  <2>4. Books'
    BY <1>1, <2>2, <2>3, QuietStep
  <2> QED
    BY <2>1, <2>4, FeedTypes DEF FeedSound, Books
<1>3. CASE FeedNext
  <2>1. FeedTypeOK'
    BY <1>1, <1>3, FeedTyped
  <2>2. Threads' /\ Ending'
    BY <1>1, <1>3, ThreadsStep
  <2>3. Books'
    BY <1>1, <1>3, QuietActions, CaptureBooks, TakeBooks, PushItemBooks, PushFailureBooks DEF FeedNext
  <2> QED
    BY <2>1, <2>2, <2>3 DEF FeedSound, Books
<1> QED
  BY <1>2, <1>3

\* A live feed's parts keep their types.
THEOREM FeedsAreTyped == FeedSpec => []FeedTypeOK
<1>1. FeedSound => FeedTypeOK
  BY DEF FeedSound
<1> QED
  BY <1>1, FeedBegins, FeedStep, PTL DEF FeedSpec

\* Every item's gap marker counts exactly the items lost before it, however
\* evictions, takes and a blocked feeder come together, and nothing follows an
\* overrun: for every capacity of ring and queue and any number of items.
THEOREM GapsAreCounted == FeedSpec => []GapsAccounted
<1>1. ASSUME FeedSound PROVE GapsAccounted
  <2>1. PICK s \in Items : s = Stream
    BY <1>1, FeedTypes, StreamTyped DEF FeedSound
  <2>2. DOMAIN s = 1..Len(s)
    BY DEF Items
  <2> QED
    BY <1>1, <2>1, <2>2 DEF FeedSound, LastWord, Marked, GapsAccounted
<1> QED
  BY <1>1, FeedBegins, FeedStep, PTL DEF FeedSpec

\* A stream read to a clean end has told of every captured item, as an item or
\* in a gap, whatever closed the feed and whenever.
THEOREM NoLossEndsClean == FeedSpec => []LossSurfaced
<1>1. ASSUME FeedSound PROVE LossSurfaced
  <2>1. SUFFICES ASSUME consumer = "ended", \A i \in DOMAIN received : ~received[i].error
                 PROVE  /\ shared.captured = (IF received = <<>> THEN 0 ELSE Last(received).seq + 1)
                        /\ selector.policy = "fail" => \A i \in DOMAIN received : received[i].gap = 0
    BY DEF LossSurfaced
  <2>2. delivery.queue = <<>> /\ feeder.at = "ended"
    BY <1>1, <2>1 DEF FeedSound, Ending
  <2>3. received \in Items /\ DOMAIN received = 1..Len(received)
    BY <1>1, FeedTypes, StreamTyped DEF FeedSound, Items
  <2>4. Stream = received
    <3>1. Stream = received \o <<>>
      BY <1>1, <2>2, FeedTypes, StreamTyped DEF FeedSound
    <3> QED
      BY <2>3, <3>1, ConcatEmptySeq DEF Items
  <2>5. shared.captured = Told(received)
    BY <1>1, <2>1, <2>2, <2>3, <2>4 DEF FeedSound, AllTold
  <2>6. Told(received) = IF received = <<>> THEN 0 ELSE Last(received).seq + 1
    BY DEF Told, Last
  <2>7. selector.policy = "fail" => \A i \in DOMAIN received : received[i].gap = 0
    BY <1>1, <2>3, <2>4 DEF FeedSound, NothingDropped
  <2> QED
    BY <2>5, <2>6, <2>7
<1> QED
  BY <1>1, FeedBegins, FeedStep, PTL DEF FeedSpec

-----------------------------------------------------------------------------
(* A response                                                              *)

\* The outputs are a list that holds the required ones, and the handler does
\* nothing that a stream should refuse and does not.
Orderly ==
  /\ Outputs \in Seq(Streams) /\ Required \subseteq Streams
  /\ Habits = {}

\* The wire is there and has not carried the terminal.
Live == ~writer.over /\ ~writer.broken

\* Nobody but the handler ends the response.
Own == claim # "cancel" /\ phase # "done"

OnWire(s) == s \in DOMAIN writer.flow.open

\* A stream has nothing before it is started, sends nothing of its own after it
\* is closed, and keeps nothing back then.
Kept(s) ==
  /\ stream[s].mode = "none" =>
       stream[s].chunks = 0 /\ ~stream[s].closed /\ ~task[s].busy /\ written[s] = 0
  /\ stream[s].mode # "write" => stream[s].buffer = <<>>
  /\ stream[s].closed => stream[s].buffer = <<>>
  /\ ~task[s].busy => task[s].units = <<>>
  /\ task[s].busy /\ stream[s].closed => task[s].closing
  /\ task[s].busy /\ task[s].closing => stream[s].closed

\* The wire's record of a stream is the stream's own.
Lawful(s) ==
  /\ OnWire(s) => stream[s].mode # "none" /\ writer.flow.open[s] = stream[s].chunks
  /\ s \in writer.flow.ended => stream[s].mode # "none"
  /\ stream[s].mode # "none" /\ (~stream[s].closed \/ task[s].busy) => OnWire(s)

\* A stream no cancel got at is open until it was ended, and what it was written
\* is on the wire, in its task or in its buffer, in this order.
Whole(s) ==
  /\ gate[s] # "closed"
  /\ Live => /\ stream[s].mode # "none" /\ stream[s].closed /\ ~task[s].busy =>
                  s \in writer.flow.ended /\ ~OnWire(s)
             /\ (writer.carried[s] \o task[s].units) \o stream[s].buffer = [i \in 1..written[s] |-> i]

\* An output that finish has passed is closed, or was never needed.
Settled(s) ==
  \/ writer.broken
  \/ stream[s].mode = "none" /\ s \notin Required
  \/ stream[s].mode # "none" /\ stream[s].closed

InLeft(s) == \E i \in 1..Len(left) : left[i] = s

\* Where the handler's thread is, and what that says of claim, tasks and wire.
Course ==
  /\ writer.over => phase \in {"reported", "done"}
  /\ writer.flow.over => writer.over
  /\ phase \in {"ending", "erring"} => claim = "handler"
  /\ cancel = "claimed" => claim = "cancel"
  /\ phase \notin {"performing", "finishing"} => AllIdle
  /\ phase = "performing" => left = Outputs
  /\ phase \in {"succeeded", "ending"} => left = <<>>

\* A response that ended is whole.
Closed ==
  writer.last = "fin" =>
    /\ writer.over
    /\ \A s \in Streams : writer.carried[s] = [i \in 1..written[s] |-> i]
    /\ Required \subseteq writer.flow.ended

StreamSound(s) ==
  /\ Kept(s)
  /\ Live => Lawful(s)
  /\ Own => Whole(s)

ResponseSound ==
  /\ Course /\ Closed
  /\ \A s \in Streams : StreamSound(s) /\ (InLeft(s) \/ Settled(s))

-----------------------------------------------------------------------------
(* Types, and what a frame does to the wire's record.                      *)

StreamRec == [mode : {"none", "write", "sequence"}, unbounded : BOOLEAN, chunks : Nat,
              closed : BOOLEAN, buffer : Seq(Nat)]
TaskRec == [busy : BOOLEAN, units : Seq(Nat), closing : BOOLEAN]
OpenRec == UNION {[D -> Nat] : D \in SUBSET Streams}
FlowRec == [open : OpenRec, ended : SUBSET Streams, over : BOOLEAN]
LastTypes == {"none", "start", "chunk", "end", "fin", "err", "other"}
WriterRec == [over : BOOLEAN, broken : BOOLEAN, flow : FlowRec, carried : [Streams -> Seq(Nat)],
              last : LastTypes]

\* The types of a response's state.
ResponseTyping ==
  /\ stream \in [Streams -> StreamRec] /\ task \in [Streams -> TaskRec]
  /\ written \in [Streams -> Nat]
  /\ gate \in [Streams -> {"unregistered", "open", "closed"}]
  /\ phase \in Phases /\ left \in Seq(Streams)
  /\ claim \in {"open", "handler", "cancel"} /\ cancel \in {"none", "claimed", "handled"}
  /\ writer \in WriterRec

\* What the writer records of a frame it writes.
LEMMA WrittenFields ==
  ASSUME NEW w \in WriterRec, NEW f, NEW u, u = Written(w, f)
  PROVE  /\ u.flow = Judged(w.flow, f) /\ u.last = f.type /\ u.broken = w.broken
         /\ u.over <=> (w.over \/ f.type \in {"fin", "err"})
         /\ f.type = "chunk" =>
              u.carried = [w.carried EXCEPT ![f.stream] = Append(w.carried[f.stream], f.unit)]
         /\ f.type # "chunk" => u.carried = w.carried
         /\ u \in [over : BOOLEAN, broken : BOOLEAN, flow : {u.flow}, carried : {u.carried}, last : {f.type}]
<1>1. u.flow = Judged(w.flow, f)
  BY Zenon DEF Written, WriterRec
<1>2. u.last = f.type /\ u.broken = w.broken
  BY Zenon DEF Written, WriterRec
<1>3. u.over <=> (w.over \/ f.type \in {"fin", "err"})
  BY Zenon DEF Written, WriterRec
<1>4. f.type = "chunk" => u.carried = [w.carried EXCEPT ![f.stream] = Append(w.carried[f.stream], f.unit)]
  BY Zenon DEF Written, WriterRec
<1>5. f.type # "chunk" => u.carried = w.carried
  BY Zenon DEF Written, WriterRec
<1>6. u \in [over : BOOLEAN, broken : BOOLEAN, flow : {u.flow}, carried : {u.carried}, last : {f.type}]
  BY Zenon DEF Written, WriterRec
<1> QED
  BY <1>1, <1>2, <1>3, <1>4, <1>5, <1>6

LEMMA FlowFields ==
  ASSUME NEW f \in FlowRec
  PROVE  /\ DOMAIN f.open \subseteq Streams /\ f.open \in [DOMAIN f.open -> Nat]
         /\ f.ended \subseteq Streams /\ f.over \in BOOLEAN
<1>1. f.open \in OpenRec
  BY DEF FlowRec
<1>2. PICK D \in SUBSET Streams : f.open \in [D -> Nat]
  BY <1>1 DEF OpenRec
<1>3. DOMAIN f.open = D
  BY <1>2
<1>7. f.ended \subseteq Streams /\ f.over \in BOOLEAN
  BY DEF FlowRec
<1> QED
  BY <1>2, <1>3, <1>7

LEMMA FlowChanges ==
  ASSUME NEW f \in FlowRec
  PROVE  /\ \A o \in OpenRec : [f EXCEPT !.open = o] \in FlowRec
         /\ \A o \in OpenRec, d \in SUBSET Streams : [f EXCEPT !.open = o, !.ended = d] \in FlowRec
         /\ [f EXCEPT !.over = TRUE] \in FlowRec
<1>1. \A o \in OpenRec : [f EXCEPT !.open = o] \in FlowRec
  BY Zenon DEF FlowRec
<1>2. \A o \in OpenRec, d \in SUBSET Streams : [f EXCEPT !.open = o, !.ended = d] \in FlowRec
  BY Zenon DEF FlowRec
<1>3. [f EXCEPT !.over = TRUE] \in FlowRec
  BY Zenon DEF FlowRec
<1> QED
  BY <1>1, <1>2, <1>3

\* The frames of a stream.
StartFrame(s) == [type |-> "start", stream |-> s]
ChunkFrame(s, i, u) == [type |-> "chunk", stream |-> s, index |-> i, unit |-> u]

\* What the recognizer makes of each frame it accepts.
LEMMA AfterStart ==
  ASSUME NEW f \in FlowRec, NEW s \in Streams, ~f.over, s \notin DOMAIN f.open, s \notin f.ended,
         NEW g, g = Judged(f, StartFrame(s))
  PROVE  /\ Accepts(f, StartFrame(s)) /\ g = After(f, StartFrame(s))
         /\ g \in FlowRec /\ g.over = f.over /\ g.ended = f.ended
         /\ DOMAIN g.open = DOMAIN f.open \cup {s} /\ g.open[s] = 0
         /\ \A r \in DOMAIN f.open : g.open[r] = f.open[r]
<1>1. Accepts(f, StartFrame(s))
  BY DEF Accepts, StartFrame, IsOpen
<1>2. g = After(f, StartFrame(s))
  BY <1>1 DEF Judged
<1>3. PICK o : o = [r \in DOMAIN f.open \cup {s} |-> IF r = s THEN 0 ELSE f.open[r]]
  OBVIOUS
<1>4. g = [f EXCEPT !.open = o]
  BY <1>2, <1>3 DEF After, StartFrame
<1>5. o \in OpenRec
  <2>1. o \in [DOMAIN f.open \cup {s} -> Nat]
    BY <1>3, FlowFields
  <2>2. DOMAIN f.open \cup {s} \in SUBSET Streams
    BY FlowFields
  <2> QED
    BY <2>1, <2>2 DEF OpenRec
<1>6. g \in FlowRec
  BY <1>4, <1>5, FlowChanges
<1>7. g.open = o /\ g.over = f.over /\ g.ended = f.ended
  BY <1>4, Zenon DEF FlowRec
<1> QED
  BY <1>1, <1>2, <1>3, <1>6, <1>7

LEMMA AfterChunk ==
  ASSUME NEW f \in FlowRec, NEW s \in DOMAIN f.open, ~f.over, NEW v,
         NEW e, e = ChunkFrame(s, f.open[s], v), NEW g, g = Judged(f, e)
  PROVE  /\ Accepts(f, e) /\ g = After(f, e)
         /\ g \in FlowRec /\ g.over = f.over /\ g.ended = f.ended
         /\ DOMAIN g.open = DOMAIN f.open /\ g.open[s] = f.open[s] + 1
         /\ \A r \in DOMAIN f.open \ {s} : g.open[r] = f.open[r]
<1>1. Accepts(f, e)
  BY DEF Accepts, ChunkFrame, IsOpen
<1>2. g = After(f, e)
  BY <1>1 DEF Judged
<1>3. PICK o : o = [f.open EXCEPT ![s] = f.open[s] + 1]
  OBVIOUS
<1>4. g = [f EXCEPT !.open = o]
  BY <1>2, <1>3 DEF After, ChunkFrame
<1>5. o \in OpenRec /\ DOMAIN o = DOMAIN f.open /\ o[s] = f.open[s] + 1
      /\ \A r \in DOMAIN f.open \ {s} : o[r] = f.open[r]
  <2>1. o \in [DOMAIN f.open -> Nat] /\ o[s] = f.open[s] + 1
        /\ \A r \in DOMAIN f.open \ {s} : o[r] = f.open[r]
    BY <1>3, FlowFields
  <2>2. DOMAIN f.open \in SUBSET Streams
    BY FlowFields
  <2> QED
    BY <2>1, <2>2 DEF OpenRec
<1>6. g \in FlowRec
  BY <1>4, <1>5, FlowChanges
<1>7. g.open = o /\ g.over = f.over /\ g.ended = f.ended
  BY <1>4, Zenon DEF FlowRec
<1> QED
  BY <1>1, <1>2, <1>5, <1>6, <1>7

LEMMA AfterEnd ==
  ASSUME NEW f \in FlowRec, NEW s \in DOMAIN f.open, ~f.over,
         NEW e, e.type = "end", e.stream = s, e.count = f.open[s], NEW g, g = Judged(f, e)
  PROVE  /\ Accepts(f, e) /\ g = After(f, e)
         /\ g \in FlowRec /\ g.over = f.over /\ g.ended = f.ended \cup {s}
         /\ DOMAIN g.open = DOMAIN f.open \ {s}
         /\ \A r \in DOMAIN f.open \ {s} : g.open[r] = f.open[r]
<1>1. Accepts(f, e)
  BY DEF Accepts, IsOpen
<1>2. g = After(f, e)
  BY <1>1 DEF Judged
<1>3. PICK o : o = [r \in DOMAIN f.open \ {s} |-> f.open[r]]
  OBVIOUS
<1>8. PICK d : d = f.ended \cup {s}
  OBVIOUS
<1>4. g = [f EXCEPT !.open = o, !.ended = d]
  BY <1>2, <1>3, <1>8 DEF After
<1>5. o \in OpenRec /\ d \in SUBSET Streams
  <2>1. o \in [DOMAIN f.open \ {s} -> Nat]
    BY <1>3, FlowFields
  <2>2. DOMAIN f.open \ {s} \in SUBSET Streams /\ d \in SUBSET Streams
    BY <1>8, FlowFields
  <2> QED
    BY <2>1, <2>2 DEF OpenRec
<1>6. g \in FlowRec
  BY <1>4, <1>5, Zenon DEF FlowRec
<1>7. g.open = o /\ g.over = f.over /\ g.ended = d
  BY <1>4, Zenon DEF FlowRec
<1> QED
  BY <1>1, <1>2, <1>3, <1>6, <1>7, <1>8

LEMMA AfterPlain ==
  ASSUME NEW f \in FlowRec, ~f.over, NEW t \in {"fin", "err", "other"}, t = "fin" => DOMAIN f.open = {},
         NEW g, g = Judged(f, [type |-> t])
  PROVE  /\ Accepts(f, [type |-> t]) /\ g = After(f, [type |-> t])
         /\ g \in FlowRec /\ g.open = f.open /\ g.ended = f.ended
         /\ g.over => t # "other"
<1>1. Accepts(f, [type |-> t])
  BY DEF Accepts
<1>2. g = After(f, [type |-> t])
  BY <1>1 DEF Judged
<1>3. CASE t = "other"
  BY <1>2, <1>3, <1>1 DEF After
<1>4. CASE t # "other"
  <2>1. g = [f EXCEPT !.over = TRUE]
    BY <1>2, <1>4 DEF After
  <2>2. g \in FlowRec
    BY <2>1, FlowChanges
  <2>3. g.open = f.open /\ g.ended = f.ended
    BY <2>1, Zenon DEF FlowRec
  <2> QED
    BY <1>1, <1>2, <1>4, <2>2, <2>3
<1> QED
  BY <1>3, <1>4

\* What a live wire makes of a frame it accepts.
LEMMA SentStart ==
  ASSUME NEW w \in WriterRec, ~w.over, ~w.broken, ~w.flow.over, NEW s \in Streams,
         s \notin DOMAIN w.flow.open, s \notin w.flow.ended,
         NEW u, u = Sent(w, StartFrame(s))
  PROVE  /\ Accepts(w.flow, StartFrame(s)) /\ u.flow = After(w.flow, StartFrame(s))
         /\ u \in WriterRec /\ ~u.over /\ ~u.broken /\ ~u.flow.over /\ u.last = "start"
         /\ u.carried = w.carried /\ u.flow.ended = w.flow.ended
         /\ DOMAIN u.flow.open = DOMAIN w.flow.open \cup {s} /\ u.flow.open[s] = 0
         /\ \A r \in DOMAIN w.flow.open : u.flow.open[r] = w.flow.open[r]
<1>1. u = Written(w, StartFrame(s))
  BY DEF Sent
<1>2. PICK t : t = StartFrame(s) /\ t.type = "start" /\ t.stream = s
  BY DEF StartFrame
<1>3. /\ u.flow = Judged(w.flow, t) /\ u.last = "start" /\ u.broken = w.broken
      /\ u.over <=> w.over
      /\ u.carried = w.carried
      /\ u \in [over : BOOLEAN, broken : BOOLEAN, flow : {u.flow}, carried : {u.carried}, last : {"start"}]
  <2>1. u = Written(w, t)
    BY <1>1, <1>2
  <2>2. /\ u.flow = Judged(w.flow, t) /\ u.last = t.type /\ u.broken = w.broken
        /\ u.over <=> (w.over \/ t.type \in {"fin", "err"})
        /\ t.type = "chunk" => u.carried = [w.carried EXCEPT ![t.stream] = Append(w.carried[t.stream], t.unit)]
        /\ t.type # "chunk" => u.carried = w.carried
        /\ u \in [over : BOOLEAN, broken : BOOLEAN, flow : {u.flow}, carried : {u.carried}, last : {t.type}]
    BY <2>1, WrittenFields, Zenon
  <2>3. t.type = "start"
    BY <1>2
  <2> QED
    BY <1>2, <2>2, <2>3
<1>4. w.flow \in FlowRec /\ w.carried \in [Streams -> Seq(Nat)]
  BY DEF WriterRec
<1>5. PICK f, g : f = w.flow /\ g = u.flow /\ f \in FlowRec
  BY <1>4
<1>6. /\ Accepts(f, StartFrame(s)) /\ g = After(f, StartFrame(s))
      /\ g \in FlowRec /\ g.over = f.over /\ g.ended = f.ended
      /\ DOMAIN g.open = DOMAIN f.open \cup {s} /\ g.open[s] = 0
      /\ \A r \in DOMAIN f.open : g.open[r] = f.open[r]
  BY <1>2, <1>3, <1>5, AfterStart
<1>7. u \in WriterRec
  BY <1>3, <1>4, <1>5, <1>6 DEF WriterRec, LastTypes
<1> QED
  BY <1>3, <1>5, <1>6, <1>7

\* A chunk is accepted, counted and carried.
ChunkTaken(w, u, s, v) ==
  /\ Accepts(w.flow, ChunkFrame(s, w.flow.open[s], v))
  /\ u.flow = After(w.flow, ChunkFrame(s, w.flow.open[s], v))
  /\ u \in WriterRec /\ ~u.over /\ ~u.broken /\ ~u.flow.over /\ u.last = "chunk"
  /\ u.carried[s] = Append(w.carried[s], v)
  /\ \A r \in Streams \ {s} : u.carried[r] = w.carried[r]
  /\ u.flow.ended = w.flow.ended
  /\ DOMAIN u.flow.open = DOMAIN w.flow.open /\ u.flow.open[s] = w.flow.open[s] + 1
  /\ \A r \in DOMAIN w.flow.open \ {s} : u.flow.open[r] = w.flow.open[r]

LEMMA SentChunk ==
  ASSUME NEW w \in WriterRec, ~w.over, ~w.broken, ~w.flow.over, NEW s \in DOMAIN w.flow.open,
         NEW v \in Nat, NEW u, u = Sent(w, ChunkFrame(s, w.flow.open[s], v))
  PROVE  ChunkTaken(w, u, s, v)
<1>1. u = Written(w, ChunkFrame(s, w.flow.open[s], v))
  BY DEF Sent
<1>2. PICK t : t = ChunkFrame(s, w.flow.open[s], v) /\ t.type = "chunk" /\ t.stream = s /\ t.unit = v
  BY DEF ChunkFrame
<1>3. /\ u.flow = Judged(w.flow, t) /\ u.last = "chunk" /\ u.broken = w.broken
      /\ u.over <=> w.over
      /\ u.carried = [w.carried EXCEPT ![s] = Append(w.carried[s], v)]
      /\ u \in [over : BOOLEAN, broken : BOOLEAN, flow : {u.flow}, carried : {u.carried}, last : {"chunk"}]
  <2>1. u = Written(w, t)
    BY <1>1, <1>2
  <2>2. /\ u.flow = Judged(w.flow, t) /\ u.last = t.type /\ u.broken = w.broken
        /\ u.over <=> (w.over \/ t.type \in {"fin", "err"})
        /\ t.type = "chunk" => u.carried = [w.carried EXCEPT ![t.stream] = Append(w.carried[t.stream], t.unit)]
        /\ t.type # "chunk" => u.carried = w.carried
        /\ u \in [over : BOOLEAN, broken : BOOLEAN, flow : {u.flow}, carried : {u.carried}, last : {t.type}]
    BY <2>1, WrittenFields, Zenon
  <2>3. t.type = "chunk"
    BY <1>2
  <2> QED
    BY <1>2, <2>2, <2>3
<1>4. w.flow \in FlowRec /\ w.carried \in [Streams -> Seq(Nat)]
  BY DEF WriterRec
<1>5. PICK f, g : f = w.flow /\ g = u.flow /\ f \in FlowRec
  BY <1>4
<1>6. /\ Accepts(f, t) /\ g = After(f, t)
      /\ g \in FlowRec /\ g.over = f.over /\ g.ended = f.ended
      /\ DOMAIN g.open = DOMAIN f.open /\ g.open[s] = f.open[s] + 1
      /\ \A r \in DOMAIN f.open \ {s} : g.open[r] = f.open[r]
  <2>1. t = ChunkFrame(s, f.open[s], v) /\ g = Judged(f, t) /\ s \in DOMAIN f.open /\ ~f.over
    BY <1>2, <1>3, <1>5
  <2> QED
    BY <1>5, <2>1, AfterChunk
<1>7. s \in Streams
  BY <1>4, FlowFields
<1>8. /\ u.carried \in [Streams -> Seq(Nat)] /\ u.carried[s] = Append(w.carried[s], v)
      /\ \A r \in Streams \ {s} : u.carried[r] = w.carried[r]
  BY <1>3, <1>4, <1>7
<1>9. u \in WriterRec
  BY <1>3, <1>5, <1>6, <1>8 DEF WriterRec, LastTypes
<1>10. /\ Accepts(w.flow, ChunkFrame(s, w.flow.open[s], v))
       /\ u.flow = After(w.flow, ChunkFrame(s, w.flow.open[s], v))
  BY <1>2, <1>5, <1>6
<1>11. ~u.over /\ ~u.broken /\ ~u.flow.over /\ u.last = "chunk"
  BY <1>3, <1>5, <1>6
<1>12. /\ u.flow.ended = w.flow.ended
       /\ DOMAIN u.flow.open = DOMAIN w.flow.open /\ u.flow.open[s] = w.flow.open[s] + 1
       /\ \A r \in DOMAIN w.flow.open \ {s} : u.flow.open[r] = w.flow.open[r]
  BY <1>5, <1>6
<1> QED
  BY <1>8, <1>9, <1>10, <1>11, <1>12 DEF ChunkTaken

LEMMA SentEnd ==
  ASSUME NEW w \in WriterRec, ~w.over, ~w.broken, ~w.flow.over, NEW s \in DOMAIN w.flow.open,
         NEW t, t.type = "end", t.stream = s, t.count = w.flow.open[s], NEW u, u = Sent(w, t)
  PROVE  /\ Accepts(w.flow, t)
         /\ u.flow = After(w.flow, t)
         /\ u \in WriterRec /\ ~u.over /\ ~u.broken /\ ~u.flow.over /\ u.last = "end"
         /\ u.carried = w.carried
         /\ u.flow.ended = w.flow.ended \cup {s}
         /\ DOMAIN u.flow.open = DOMAIN w.flow.open \ {s}
         /\ \A r \in DOMAIN w.flow.open \ {s} : u.flow.open[r] = w.flow.open[r]
<1>1. u = Written(w, t)
  BY DEF Sent
<1>3. /\ u.flow = Judged(w.flow, t) /\ u.last = "end" /\ u.broken = w.broken
      /\ u.over <=> w.over
      /\ u.carried = w.carried
      /\ u \in [over : BOOLEAN, broken : BOOLEAN, flow : {u.flow}, carried : {u.carried}, last : {"end"}]
  <2>1. u = Written(w, t)
    BY <1>1
  <2>2. /\ u.flow = Judged(w.flow, t) /\ u.last = t.type /\ u.broken = w.broken
        /\ u.over <=> (w.over \/ t.type \in {"fin", "err"})
        /\ t.type = "chunk" => u.carried = [w.carried EXCEPT ![t.stream] = Append(w.carried[t.stream], t.unit)]
        /\ t.type # "chunk" => u.carried = w.carried
        /\ u \in [over : BOOLEAN, broken : BOOLEAN, flow : {u.flow}, carried : {u.carried}, last : {t.type}]
    BY <2>1, WrittenFields, Zenon
  <2> QED
    BY <2>2
<1>4. w.flow \in FlowRec /\ w.carried \in [Streams -> Seq(Nat)]
  BY DEF WriterRec
<1>5. PICK f, g : f = w.flow /\ g = u.flow /\ f \in FlowRec
  BY <1>4
<1>8. t.type = "end" /\ t.stream = s /\ t.count = f.open[s]
  BY <1>5
<1>9. g = Judged(f, t)
  BY <1>3, <1>5
<1>10. f \in FlowRec /\ s \in DOMAIN f.open /\ ~f.over
  BY <1>5
<1>6. /\ Accepts(f, t) /\ g = After(f, t)
      /\ g \in FlowRec /\ g.over = f.over /\ g.ended = f.ended \cup {s}
      /\ DOMAIN g.open = DOMAIN f.open \ {s}
      /\ \A r \in DOMAIN f.open \ {s} : g.open[r] = f.open[r]
  BY <1>8, <1>9, <1>10, AfterEnd
<1>7. u \in WriterRec
  BY <1>3, <1>4, <1>5, <1>6 DEF WriterRec, LastTypes
<1> QED
  BY <1>3, <1>5, <1>6, <1>7

LEMMA SentPlain ==
  ASSUME NEW w \in WriterRec, ~w.over, ~w.broken, ~w.flow.over, NEW t \in {"fin", "err", "other"},
         t = "fin" => DOMAIN w.flow.open = {}, NEW u, u = Sent(w, [type |-> t])
  PROVE  /\ Accepts(w.flow, [type |-> t]) /\ u.flow = After(w.flow, [type |-> t])
         /\ u \in WriterRec /\ ~u.broken /\ u.last = t
         /\ u.over <=> t # "other"
         /\ u.flow.over => u.over
         /\ u.carried = w.carried /\ u.flow.ended = w.flow.ended /\ u.flow.open = w.flow.open
<1>1. u = Written(w, [type |-> t])
  BY DEF Sent
<1>2. PICK e : e = [type |-> t] /\ e.type = t
  OBVIOUS
<1>3. /\ u.flow = Judged(w.flow, e) /\ u.last = t /\ u.broken = w.broken
      /\ u.over <=> t # "other"
      /\ u.carried = w.carried
      /\ u \in [over : BOOLEAN, broken : BOOLEAN, flow : {u.flow}, carried : {u.carried}, last : {t}]
  <2>1. u = Written(w, e)
    BY <1>1, <1>2
  <2>2. /\ u.flow = Judged(w.flow, e) /\ u.last = e.type /\ u.broken = w.broken
        /\ u.over <=> (w.over \/ e.type \in {"fin", "err"})
        /\ e.type = "chunk" => u.carried = [w.carried EXCEPT ![e.stream] = Append(w.carried[e.stream], e.unit)]
        /\ e.type # "chunk" => u.carried = w.carried
        /\ u \in [over : BOOLEAN, broken : BOOLEAN, flow : {u.flow}, carried : {u.carried}, last : {e.type}]
    BY <2>1, WrittenFields, Zenon
  <2>3. e.type = t
    BY <1>2
  <2> QED
    BY <1>2, <2>2, <2>3
<1>4. w.flow \in FlowRec /\ w.carried \in [Streams -> Seq(Nat)]
  BY DEF WriterRec
<1>5. PICK f, g : f = w.flow /\ g = u.flow /\ f \in FlowRec
  BY <1>4
<1>6. /\ Accepts(f, [type |-> t]) /\ g = After(f, [type |-> t])
      /\ g \in FlowRec /\ g.open = f.open /\ g.ended = f.ended
      /\ g.over => t # "other"
  BY <1>2, <1>3, <1>5, AfterPlain
<1>7. u \in WriterRec
  BY <1>3, <1>4, <1>5, <1>6 DEF WriterRec, LastTypes
<1> QED
  BY <1>3, <1>5, <1>6, <1>7

\* A wire that is lost or has carried the terminal takes nothing.
LEMMA SentInVain == ASSUME NEW w, NEW f, w.over \/ w.broken PROVE Sent(w, f) = w
BY DEF Sent

-----------------------------------------------------------------------------
(* What a call changes of its stream.                                      *)

StreamMap == [Streams -> StreamRec]
TaskMap == [Streams -> TaskRec]

\* The changes a call makes to its stream, as functions of their own.
BufferPut(f, s, x) == [f EXCEPT ![s].buffer = x]
ClosedPut(f, s) == [f EXCEPT ![s].closed = TRUE, ![s].buffer = <<>>]
ChunksPut(f, s) == [f EXCEPT ![s].chunks = @ + 1]

LEMMA ModeSet ==
  ASSUME stream \in StreamMap, NEW s \in Streams,
         \E m \in {"write", "sequence"}, b \in BOOLEAN : Started(s, m, b)
  PROVE  /\ stream' \in StreamMap /\ \A r \in Streams \ {s} : stream'[r] = stream[r]
         /\ stream'[s].mode \in {"write", "sequence"} /\ stream'[s].chunks = stream[s].chunks
         /\ stream'[s].buffer = stream[s].buffer
         /\ stream'[s].closed <=> stream[s].closed
<1>0. PICK m \in {"write", "sequence"}, b \in BOOLEAN : Started(s, m, b)
  OBVIOUS
<1>1. stream[s] \in StreamRec
  BY DEF StreamMap
<1>2. PICK x : x = [stream[s] EXCEPT !.mode = m, !.unbounded = b]
  OBVIOUS
<1>6. m \in {"none", "write", "sequence"}
  OBVIOUS
<1>3. x \in StreamRec /\ x.mode = m /\ x.chunks = stream[s].chunks /\ x.buffer = stream[s].buffer
      /\ x.closed = stream[s].closed
  BY <1>1, <1>2, <1>6, Zenon DEF StreamRec
<1>4. stream' = [stream EXCEPT ![s] = x]
  BY <1>0, <1>2, Zenon DEF StreamMap, Started
<1>5. stream' \in StreamMap /\ stream'[s] = x /\ \A r \in Streams \ {s} : stream'[r] = stream[r]
  BY <1>3, <1>4, Zenon DEF StreamMap
<1> QED
  BY <1>3, <1>5

LEMMA BufferSet ==
  ASSUME stream \in StreamMap, NEW s \in Streams, NEW x \in Seq(Nat),
         stream' = BufferPut(stream, s, x)
  PROVE  /\ stream' \in StreamMap /\ \A r \in Streams \ {s} : stream'[r] = stream[r]
         /\ stream'[s].mode = stream[s].mode /\ stream'[s].chunks = stream[s].chunks /\ stream'[s].buffer = x
         /\ stream'[s].closed <=> stream[s].closed
<1>1. stream[s] \in StreamRec
  BY DEF StreamMap
<1>2. PICK y : y = [stream[s] EXCEPT !.buffer = x]
  OBVIOUS
<1>3. y \in StreamRec /\ y.mode = stream[s].mode /\ y.chunks = stream[s].chunks /\ y.buffer = x
      /\ y.closed = stream[s].closed
  BY <1>1, <1>2, Zenon DEF StreamRec
<1>4. stream' = [stream EXCEPT ![s] = y]
  BY <1>2, Zenon DEF StreamMap, BufferPut
<1>5. stream' \in StreamMap /\ stream'[s] = y /\ \A r \in Streams \ {s} : stream'[r] = stream[r]
  BY <1>3, <1>4, Zenon DEF StreamMap
<1> QED
  BY <1>3, <1>5

LEMMA ClosedSet ==
  ASSUME stream \in StreamMap, NEW s \in Streams,
         stream' = ClosedPut(stream, s)
  PROVE  /\ stream' \in StreamMap /\ \A r \in Streams \ {s} : stream'[r] = stream[r]
         /\ stream'[s].mode = stream[s].mode /\ stream'[s].chunks = stream[s].chunks /\ stream'[s].buffer = <<>>
         /\ stream'[s].closed
<1>1. stream[s] \in StreamRec
  BY DEF StreamMap
<1>2. PICK y : y = [stream[s] EXCEPT !.closed = TRUE, !.buffer = <<>>]
  OBVIOUS
<1>6. <<>> \in Seq(Nat)
  OBVIOUS
<1>3. y \in StreamRec /\ y.mode = stream[s].mode /\ y.chunks = stream[s].chunks /\ y.buffer = <<>>
      /\ y.closed = TRUE
  BY <1>1, <1>2, <1>6, Zenon DEF StreamRec
<1>4. stream' = [stream EXCEPT ![s] = y]
  BY <1>2, Zenon DEF StreamMap, ClosedPut
<1>5. stream' \in StreamMap /\ stream'[s] = y /\ \A r \in Streams \ {s} : stream'[r] = stream[r]
  BY <1>3, <1>4, Zenon DEF StreamMap
<1> QED
  BY <1>3, <1>5

LEMMA ChunksSet ==
  ASSUME stream \in StreamMap, NEW s \in Streams,
         stream' = ChunksPut(stream, s)
  PROVE  /\ stream' \in StreamMap /\ \A r \in Streams \ {s} : stream'[r] = stream[r]
         /\ stream'[s].mode = stream[s].mode /\ stream'[s].chunks = stream[s].chunks + 1 /\ stream'[s].buffer = stream[s].buffer
         /\ stream'[s].closed <=> stream[s].closed
<1>1. stream[s] \in StreamRec /\ stream[s].chunks + 1 \in Nat
  BY DEF StreamMap, StreamRec
<1>2. PICK y : y = [stream[s] EXCEPT !.chunks = stream[s].chunks + 1]
  OBVIOUS
<1>3. y \in StreamRec /\ y.mode = stream[s].mode /\ y.chunks = stream[s].chunks + 1 /\ y.buffer = stream[s].buffer
      /\ y.closed = stream[s].closed
  BY <1>1, <1>2, Zenon DEF StreamRec
<1>4. stream' = [stream EXCEPT ![s] = y]
  BY <1>2, Zenon DEF StreamMap, ChunksPut
<1>5. stream' \in StreamMap /\ stream'[s] = y /\ \A r \in Streams \ {s} : stream'[r] = stream[r]
  BY <1>3, <1>4, Zenon DEF StreamMap
<1> QED
  BY <1>3, <1>5

LEMMA UnitsSent ==
  ASSUME task \in TaskMap, NEW s \in Streams, NEW x \in Seq(Nat), Sending(s, x, FALSE)
  PROVE  /\ task' \in TaskMap /\ \A r \in Streams \ {s} : task'[r] = task[r]
         /\ task'[s].busy /\ task'[s].units = x /\ ~task'[s].closing
<1>1. PICK y : y = [busy |-> TRUE, units |-> x, closing |-> FALSE]
  OBVIOUS
<1>2. y \in TaskRec /\ y.busy /\ y.units = x /\ ~y.closing
  BY <1>1 DEF TaskRec
<1>3. task' = [task EXCEPT ![s] = y]
  BY <1>1 DEF Sending
<1> QED
  BY <1>2, <1>3 DEF TaskMap

LEMMA TailSent ==
  ASSUME task \in TaskMap, NEW s \in Streams, NEW x \in Seq(Nat), Sending(s, x, TRUE)
  PROVE  /\ task' \in TaskMap /\ \A r \in Streams \ {s} : task'[r] = task[r]
         /\ task'[s].busy /\ task'[s].units = x /\ task'[s].closing
<1>1. PICK y : y = [busy |-> TRUE, units |-> x, closing |-> TRUE]
  OBVIOUS
<1>2. y \in TaskRec /\ y.busy /\ y.units = x /\ y.closing
  BY <1>1 DEF TaskRec
<1>3. task' = [task EXCEPT ![s] = y]
  BY <1>1 DEF Sending
<1> QED
  BY <1>2, <1>3 DEF TaskMap

LEMMA CallEnds ==
  ASSUME task \in TaskMap, NEW s \in Streams, task' = [task EXCEPT ![s] = Idle]
  PROVE  /\ task' \in TaskMap /\ \A r \in Streams \ {s} : task'[r] = task[r]
         /\ ~task'[s].busy /\ task'[s].units = <<>>
<1>1. Idle \in TaskRec /\ ~Idle.busy /\ Idle.units = <<>>
  BY DEF Idle, TaskRec
<1> QED
  BY <1>1 DEF TaskMap

LEMMA UnitTaken ==
  ASSUME task \in TaskMap, NEW s \in Streams, task[s].units # <<>>, SendChunk(s)
  PROVE  /\ task' \in TaskMap /\ \A r \in Streams \ {s} : task'[r] = task[r]
         /\ task'[s].busy <=> task[s].busy
         /\ task'[s].units = Tail(task[s].units)
         /\ task'[s].closing <=> task[s].closing
<1>1. task[s] \in TaskRec /\ Tail(task[s].units) \in Seq(Nat)
  BY DEF TaskMap, TaskRec
<1>2. PICK y : y = [task[s] EXCEPT !.units = Tail(task[s].units)]
  OBVIOUS
<1>3. y \in TaskRec /\ y.busy = task[s].busy /\ y.units = Tail(task[s].units)
      /\ y.closing = task[s].closing
  BY <1>1, <1>2, Zenon DEF TaskRec
<1>4. task' = [task EXCEPT ![s] = y]
  BY <1>2, Zenon DEF TaskMap, SendChunk
<1>5. task' \in TaskMap /\ task'[s] = y /\ \A r \in Streams \ {s} : task'[r] = task[r]
  BY <1>3, <1>4, Zenon DEF TaskMap
<1> QED
  BY <1>3, <1>5

-----------------------------------------------------------------------------
(* Units in order.                                                         *)

UpTo(n) == [i \in 1..n |-> i]

LEMMA NothingAdded ==
  ASSUME NEW a \in Seq(Nat)
  PROVE  (a \o <<>>) \o <<>> = a
<1>1. a \o <<>> = a
  BY ConcatEmptySeq
<1> QED
  BY <1>1

\* A unit moves from what is to be sent to what is carried.
LEMMA UnitMoves ==
  ASSUME NEW a \in Seq(Nat), NEW b \in Seq(Nat), NEW c \in Seq(Nat), b # <<>>
  PROVE  (Append(a, Head(b)) \o Tail(b)) \o c = (a \o b) \o c
<1>1. Append(a, Head(b)) \o Tail(b) = a \o b
  <2>1. Head(b) \in Nat /\ Tail(b) \in Seq(Nat) /\ Append(a, Head(b)) \in Seq(Nat)
    OBVIOUS
  <2>2. Len(Append(a, Head(b)) \o Tail(b)) = Len(a \o b)
    BY <2>1
  <2>3. \A i \in 1..Len(a \o b) : (Append(a, Head(b)) \o Tail(b))[i] = (a \o b)[i]
    BY <2>1
  <2>4. Append(a, Head(b)) \o Tail(b) \in Seq(Nat) /\ a \o b \in Seq(Nat)
    BY <2>1
  <2> QED
    BY <2>2, <2>3, <2>4, SeqEqual
<1> QED
  BY <1>1

\* The buffer becomes the batch.
LEMMA BufferMoves ==
  ASSUME NEW a \in Seq(Nat), NEW c \in Seq(Nat)
  PROVE  (a \o c) \o <<>> = (a \o <<>>) \o c
<1>1. a \o <<>> = a /\ (a \o c) \o <<>> = a \o c
  BY ConcatEmptySeq, ConcatProperties
<1> QED
  BY <1>1

\* One more unit, buffered or sent.
LEMMA UnitAppended ==
  ASSUME NEW a \in Seq(Nat), NEW c \in Seq(Nat), NEW n \in Nat, (a \o <<>>) \o c = UpTo(n)
  PROVE  /\ (a \o <<>>) \o Append(c, n + 1) = UpTo(n + 1)
         /\ (a \o Append(c, n + 1)) \o <<>> = UpTo(n + 1)
<1>1. a \o <<>> = a
  BY ConcatEmptySeq
<1>2. a \o Append(c, n + 1) = UpTo(n + 1)
  <2>1. PICK d \in Seq(Nat) : d = a \o c
    BY ConcatProperties
  <2>2. a \o Append(c, n + 1) = Append(d, n + 1)
    <3>1. n + 1 \in Nat /\ Append(c, n + 1) \in Seq(Nat)
      OBVIOUS
    <3>2. a \o Append(c, n + 1) \in Seq(Nat) /\ Append(d, n + 1) \in Seq(Nat)
      BY <2>1, <3>1
    <3>3. Len(a \o Append(c, n + 1)) = Len(Append(d, n + 1))
      BY <2>1, <3>1
    <3>4. \A i \in 1..Len(Append(d, n + 1)) : (a \o Append(c, n + 1))[i] = Append(d, n + 1)[i]
      <4>1. PICK e : e = Append(c, n + 1)
        OBVIOUS
      <4>2. /\ e \in Seq(Nat) /\ Len(e) = Len(c) + 1 /\ e[Len(c) + 1] = n + 1
            /\ \A i \in 1..Len(c) : e[i] = c[i]
        BY <3>1, <4>1
      <4>3. /\ Len(a \o e) = Len(a) + Len(c) + 1
            /\ \A i \in 1..(Len(a) + Len(c) + 1) :
                 (a \o e)[i] = IF i <= Len(a) THEN a[i] ELSE e[i - Len(a)]
        BY <4>2
      <4>4. /\ Len(d) = Len(a) + Len(c)
            /\ \A i \in 1..Len(d) : d[i] = IF i <= Len(a) THEN a[i] ELSE c[i - Len(a)]
        BY <2>1
      <4>5. /\ Len(Append(d, n + 1)) = Len(a) + Len(c) + 1
            /\ \A i \in 1..Len(d) : Append(d, n + 1)[i] = d[i]
            /\ Append(d, n + 1)[Len(a) + Len(c) + 1] = n + 1
        BY <4>4
      <4>7. Len(a) \in Nat /\ Len(c) \in Nat
        OBVIOUS
      <4>6. ASSUME NEW i \in 1..(Len(a) + Len(c) + 1)
            PROVE  (a \o e)[i] = Append(d, n + 1)[i]
        <5>1. CASE i = Len(a) + Len(c) + 1
          BY <4>2, <4>3, <4>5, <5>1
        <5>2. CASE i <= Len(a)
          <6>1. i \in 1..Len(d) /\ i \in 1..(Len(a) + Len(c) + 1)
            BY <4>4, <4>7, <5>2
          <6>2. (a \o e)[i] = a[i]
            BY <4>3, <5>2, <6>1
          <6>3. Append(d, n + 1)[i] = d[i] /\ d[i] = a[i]
            BY <4>4, <4>5, <5>2, <6>1
          <6> QED
            BY <6>2, <6>3
        <5>3. CASE i > Len(a) /\ i # Len(a) + Len(c) + 1
          <6>1. i - Len(a) \in 1..Len(c) /\ i \in 1..Len(d) /\ ~(i <= Len(a))
            BY <4>4, <4>7, <5>3
          <6>2. (a \o e)[i] = e[i - Len(a)] /\ e[i - Len(a)] = c[i - Len(a)]
            BY <4>2, <4>3, <6>1
          <6>3. Append(d, n + 1)[i] = c[i - Len(a)]
            BY <4>4, <4>5, <6>1
          <6> QED
            BY <6>2, <6>3
        <5>4. i \in Nat
          OBVIOUS
        <5>5. \/ i = Len(a) + Len(c) + 1 \/ i <= Len(a)
              \/ i > Len(a) /\ i # Len(a) + Len(c) + 1
          BY <4>7, <5>4
        <5> QED
          BY <5>1, <5>2, <5>3, <5>5, Zenon
      <4> QED
        BY <4>1, <4>5, <4>6
    <3> QED
      BY <3>2, <3>3, <3>4, SeqEqual
  <2>3. d = UpTo(n) /\ UpTo(n) \in Seq(Nat) /\ Len(UpTo(n)) = n
    BY <1>1, <2>1 DEF UpTo
  <2>4. Append(UpTo(n), n + 1) = UpTo(n + 1)
    <3>1. UpTo(n + 1) \in Seq(Nat) /\ Len(UpTo(n + 1)) = n + 1
      BY DEF UpTo
    <3>2. Append(UpTo(n), n + 1) \in Seq(Nat) /\ Len(Append(UpTo(n), n + 1)) = n + 1
      BY <2>3
    <3>3. \A i \in 1..(n + 1) : Append(UpTo(n), n + 1)[i] = UpTo(n + 1)[i]
      BY <2>3 DEF UpTo
    <3> QED
      BY <3>1, <3>2, <3>3, SeqEqual
  <2> QED
    BY <2>2, <2>3, <2>4
<1>3. Append(c, n + 1) \in Seq(Nat) /\ a \o Append(c, n + 1) \in Seq(Nat)
  BY ConcatProperties
<1> QED
  BY <1>1, <1>2, <1>3, ConcatEmptySeq

\* Several at once, where nothing is buffered.
LEMMA UnitsAppended ==
  ASSUME NEW a \in Seq(Nat), NEW n \in Nat, NEW k \in Nat, (a \o <<>>) \o <<>> = UpTo(n)
  PROVE  (a \o [i \in 1..k |-> n + i]) \o <<>> = UpTo(n + k)
<1>1. a = UpTo(n)
  BY NothingAdded
<1>0. PICK b : b = [i \in 1..k |-> n + i]
  OBVIOUS
<1>5. b \in Seq(Nat)
  BY <1>0, SeqDef
<1>2. /\ b = [i \in 1..k |-> n + i] /\ b \in Seq(Nat) /\ Len(b) = k
      /\ \A i \in 1..k : b[i] = n + i
  BY <1>0, <1>5, LenProperties
<1>3. a \o b \in Seq(Nat) /\ (a \o b) \o <<>> = a \o b
  BY <1>2, ConcatProperties, ConcatEmptySeq
<1>4. a \o b = UpTo(n + k)
  <2>1. Len(a) = n
    BY <1>1 DEF UpTo
  <2>4. UpTo(n + k) \in Seq(Nat)
    BY SeqDef DEF UpTo
  <2>5. Len(UpTo(n + k)) = n + k
    BY DEF UpTo
  <2>7. b \in Seq(Nat) /\ Len(b) = k
    BY <1>2
  <2>6. Len(a \o b) = n + k
    BY <2>1, <2>7, ConcatProperties
  <2>2. UpTo(n + k) \in Seq(Nat) /\ Len(UpTo(n + k)) = n + k /\ Len(a \o b) = n + k
    BY <2>4, <2>5, <2>6
  <2>3. \A i \in 1..(n + k) : (a \o b)[i] = UpTo(n + k)[i]
    BY <1>1, <1>2, <2>1 DEF UpTo
  <2> QED
    BY <1>3, <2>2, <2>3, SeqEqual
<1> QED
  BY <1>2, <1>3, <1>4

-----------------------------------------------------------------------------
(* The streams a step leaves alone.                                        *)

ResponseInv == ResponseTyping /\ ResponseSound

\* A stream's own state is not changed.
Untouched(r) ==
  /\ stream'[r] = stream[r] /\ task'[r] = task[r]
  /\ written'[r] = written[r] /\ gate'[r] = gate[r]

\* Nor is what the wire records of it.
WireKept(r) ==
  /\ r \in DOMAIN writer'.flow.open <=> r \in DOMAIN writer.flow.open
  /\ r \in DOMAIN writer.flow.open => writer'.flow.open[r] = writer.flow.open[r]
  /\ r \in writer'.flow.ended <=> r \in writer.flow.ended
  /\ writer'.carried[r] = writer.carried[r]

LEMMA Undisturbed ==
  ASSUME NEW r \in Streams, StreamSound(r), Untouched(r), Live' => Live /\ WireKept(r), Own' => Own
  PROVE  StreamSound(r)'
<1>1. Kept(r)'
  BY DEF StreamSound, Kept, Untouched
<1>2. Live' => Lawful(r)'
  BY DEF StreamSound, Lawful, OnWire, Untouched, WireKept
<1>3. ASSUME Own' PROVE Whole(r)'
  <2>1. Whole(r)
    BY <1>3 DEF StreamSound
  <2>2. gate'[r] # "closed"
    BY <2>1 DEF Whole, Untouched
  <2>3. ASSUME Live'
        PROVE  /\ stream'[r].mode # "none" /\ stream'[r].closed /\ ~task'[r].busy =>
                    r \in writer'.flow.ended /\ r \notin DOMAIN writer'.flow.open
               /\ (writer'.carried[r] \o task'[r].units) \o stream'[r].buffer = [i \in 1..written'[r] |-> i]
    BY <2>1, <2>3 DEF Whole, OnWire, Untouched, WireKept
  <2> QED
    BY <2>2, <2>3 DEF Whole, OnWire
<1> QED
  BY <1>1, <1>2, <1>3 DEF StreamSound

\* A step of stream s, or of none, that sends nothing.
LEMMA OthersUndisturbed ==
  ASSUME ResponseInv, NEW s, \A r \in Streams \ {s} : Untouched(r), UNCHANGED writer, Own' => Own
  PROVE  \A r \in Streams \ {s} : StreamSound(r)'
<1>1. ASSUME NEW r \in Streams \ {s} PROVE StreamSound(r)'
  <2>1. StreamSound(r) /\ Untouched(r)
    BY <1>1 DEF ResponseInv, ResponseSound
  <2>2. Live' => Live /\ WireKept(r)
    BY DEF Live, WireKept
  <2> QED
    BY <2>1, <2>2, Undisturbed
<1> QED
  BY <1>1

\* An output that was settled stays so, except where it is started.
LEMMA StaysSettled ==
  ASSUME NEW r \in Streams, Settled(r), stream'[r].mode = stream[r].mode,
         stream[r].closed => stream'[r].closed, writer.broken => writer'.broken
  PROVE  Settled(r)'
BY DEF Settled

\* Each output is still to be finished or settled after a step of one stream.
LEMMA LeftStays ==
  ASSUME ResponseInv, UNCHANGED left, NEW s, \A r \in Streams \ {s} : Untouched(r),
         writer.broken => writer'.broken,
         s \in Streams => InLeft(s)' \/ Settled(s)'
  PROVE  \A r \in Streams : InLeft(r)' \/ Settled(r)'
<1>1. ASSUME NEW r \in Streams \ {s} PROVE InLeft(r)' \/ Settled(r)'
  <2>1. InLeft(r) => InLeft(r)'
    BY DEF InLeft
  <2>2. Settled(r) => Settled(r)'
    BY StaysSettled DEF Untouched
  <2> QED
    BY <2>1, <2>2 DEF ResponseInv, ResponseSound
<1> QED
  BY <1>1

LEMMA LeftKept ==
  ASSUME ResponseInv, UNCHANGED left, NEW s \in Streams,
         stream'[s].mode = stream[s].mode, stream[s].closed => stream'[s].closed,
         writer.broken => writer'.broken
  PROVE  InLeft(s)' \/ Settled(s)'
<1>1. InLeft(s) => InLeft(s)'
  BY DEF InLeft
<1>2. Settled(s) => Settled(s)'
  BY StaysSettled
<1> QED
  BY <1>1, <1>2 DEF ResponseInv, ResponseSound

\* A call is in progress only while the handler performs or finishes.
LEMMA BusyInTime ==
  ASSUME ResponseInv, NEW s \in Streams, task[s].busy
  PROVE  phase \in {"performing", "finishing"} /\ ~writer.over /\ ~writer.flow.over
BY DEF ResponseInv, ResponseSound, Course, AllIdle

\* Where neither claim, cancel, wire nor line changes, and the handler's thread
\* stays in a phase that may have calls in progress, so does its course.
LEMMA CourseStays ==
  ASSUME ResponseInv, UNCHANGED << phase, left, claim, cancel >>, phase \in {"performing", "finishing"},
         ~writer'.over, ~writer'.flow.over
  PROVE  Course'
BY DEF ResponseInv, ResponseSound, Course

\* Where the end is not on the wire nothing is said of it.
LEMMA NotClosed == ASSUME writer'.last # "fin" PROVE Closed'
BY DEF Closed

LEMMA OpenIsUnended == ASSUME ResponseInv, ~writer.over PROVE writer.last # "fin"
BY DEF ResponseInv, ResponseSound, Closed

\* What sends no frame of a stream disturbs none.
LEMMA AllUndisturbed ==
  ASSUME ResponseInv, UNCHANGED << stream, task, written, gate >>, Own' => Own,
         Live' => Live,
         Live' => writer'.carried = writer.carried /\ writer'.flow.open = writer.flow.open
                  /\ writer'.flow.ended = writer.flow.ended
  PROVE  \A r \in Streams : StreamSound(r)'
<1>1. ASSUME NEW r \in Streams PROVE StreamSound(r)'
  <2>1. StreamSound(r) /\ Untouched(r)
    BY DEF ResponseInv, ResponseSound, Untouched
  <2>2. Live' => Live /\ WireKept(r)
    BY DEF WireKept
  <2> QED
    BY <2>1, <2>2, Undisturbed
<1> QED
  BY <1>1

\* Nor is an output unsettled.
LEMMA AllSettled ==
  ASSUME ResponseInv, UNCHANGED << stream, left >>, writer.broken => writer'.broken
  PROVE  \A r \in Streams : InLeft(r)' \/ Settled(r)'
<1>1. ASSUME NEW r \in Streams PROVE InLeft(r)' \/ Settled(r)'
  BY LeftKept
<1> QED
  BY <1>1

\* The parts of the invariant are the invariant.
LEMMA Together ==
  ASSUME ResponseTyping', Course', Closed', \A r \in Streams : StreamSound(r)',
         \A r \in Streams : InLeft(r)' \/ Settled(r)'
  PROVE  ResponseInv'
BY DEF ResponseInv, ResponseSound

-----------------------------------------------------------------------------
(* The handler's thread and the main loop, where they touch no stream.     *)

LEMMA BreakSound == ASSUME ResponseInv, Break PROVE ResponseInv'
<1>1. PICK w \in WriterRec : w = writer
  BY DEF ResponseInv, ResponseTyping
<1>2. writer' = [w EXCEPT !.broken = TRUE]
  BY <1>1 DEF Break
<1>3. writer' \in WriterRec
  BY <1>2, Zenon DEF WriterRec
<1>4. writer'.broken = TRUE
  BY <1>2, Zenon DEF WriterRec
<1>5. writer'.over = w.over
  BY <1>2, Zenon DEF WriterRec
<1>6. writer'.flow = w.flow /\ writer'.carried = w.carried /\ writer'.last = w.last
  BY <1>2, Zenon DEF WriterRec
<1>7. UNCHANGED << stream, task, written, gate, phase, left, claim, cancel >>
  BY DEF Break
<1>8. ResponseTyping'
  BY <1>3, <1>7 DEF ResponseInv, ResponseTyping
<1>9. Course'
  BY <1>1, <1>5, <1>6, <1>7 DEF ResponseInv, ResponseSound, Course, AllIdle
<1>10. Closed'
  BY <1>1, <1>5, <1>6, <1>7 DEF ResponseInv, ResponseSound, Closed
<1>11. \A r \in Streams : StreamSound(r)'
  <2>1. ~Live'
    BY <1>4 DEF Live
  <2>2. Own' => Own
    BY <1>7 DEF Own
  <2> QED
    BY <1>7, <2>1, <2>2, AllUndisturbed
<1>12. \A r \in Streams : InLeft(r)' \/ Settled(r)'
  BY <1>4, <1>7, AllSettled
<1> QED
  BY <1>8, <1>9, <1>10, <1>11, <1>12, Together

LEMMA ProgressSound == ASSUME ResponseInv, Progress PROVE ResponseInv'
<1>1. UNCHANGED << stream, task, written, gate, phase, left, claim, cancel >>
  BY DEF Progress
<1>2. writer' = Sent(writer, [type |-> "other"]) /\ writer \in WriterRec
  BY DEF Progress, ResponseInv, ResponseTyping
<1>3. CASE writer.over \/ writer.broken
  <2>1. writer' = writer
    BY <1>2, <1>3 DEF Sent
  <2>2. ResponseTyping' /\ Course' /\ Closed'
    BY <1>1, <2>1 DEF ResponseInv, ResponseTyping, ResponseSound, Course, Closed, AllIdle
  <2>3. \A r \in Streams : StreamSound(r)'
    <3>1. (Own' => Own) /\ (Live' => Live)
      BY <1>1, <2>1 DEF Own, Live
    <3> QED
      BY <1>1, <2>1, <3>1, AllUndisturbed
  <2>4. \A r \in Streams : InLeft(r)' \/ Settled(r)'
    BY <1>1, <2>1, AllSettled
  <2> QED
    BY <2>2, <2>3, <2>4, Together
<1>4. CASE ~writer.over /\ ~writer.broken
  <2>1. ~writer.flow.over
    BY <1>4 DEF ResponseInv, ResponseSound, Course
  <2>2. /\ writer' \in WriterRec /\ ~writer'.broken /\ writer'.last = "other"
        /\ ~writer'.over /\ ~writer'.flow.over
        /\ writer'.carried = writer.carried /\ writer'.flow.ended = writer.flow.ended
        /\ writer'.flow.open = writer.flow.open
    BY <1>2, <1>4, <2>1, SentPlain
  <2>3. ResponseTyping' /\ Course' /\ Closed'
    BY <1>1, <2>2 DEF ResponseInv, ResponseTyping, ResponseSound, Course, Closed, AllIdle
  <2>4. \A r \in Streams : StreamSound(r)'
    <3>1. (Own' => Own) /\ (Live' => Live)
      BY <1>1, <1>4, <2>2 DEF Own, Live
    <3> QED
      BY <1>1, <2>2, <3>1, AllUndisturbed
  <2>5. \A r \in Streams : InLeft(r)' \/ Settled(r)'
    BY <1>1, <1>4, <2>2, AllSettled
  <2> QED
    BY <2>3, <2>4, <2>5, Together
<1> QED
  BY <1>3, <1>4

LEMMA ThreadSound ==
  ASSUME ResponseInv, Perform \/ Finished \/ ClaimForHandler \/ ClaimForCancel \/ Rest
  PROVE  ResponseInv'
<1>1. UNCHANGED << stream, task, written, gate, left, writer >>
  BY DEF Perform, Finished, ClaimForHandler, ClaimForCancel, Rest, vars
<1>2. ResponseTyping'
  BY <1>1 DEF Perform, Finished, ClaimForHandler, ClaimForCancel, Rest, vars, ResponseInv, ResponseTyping, Phases
<1>3. Course'
  <2>1. AllIdle' <=> AllIdle
    BY <1>1 DEF AllIdle
  <2> QED
    BY <1>1, <2>1 DEF Perform, Finished, ClaimForHandler, ClaimForCancel, Rest, vars, ResponseInv, ResponseTyping, ResponseSound, Course
<1>4. Closed'
  BY <1>1 DEF ResponseInv, ResponseSound, Closed
<1>5. \A r \in Streams : StreamSound(r)'
  <2>1. Own' => Own
    BY DEF Perform, Finished, ClaimForHandler, ClaimForCancel, Rest, vars, Own
  <2>2. Live' => Live
    BY <1>1 DEF Live
  <2> QED
    BY <1>1, <2>1, <2>2, AllUndisturbed
<1>6. \A r \in Streams : InLeft(r)' \/ Settled(r)'
  BY <1>1, AllSettled
<1> QED
  BY <1>2, <1>3, <1>4, <1>5, <1>6, Together

\* GatesClosed types.
LEMMA GatesSound ==
  ASSUME ResponseInv
  PROVE  GatesClosed \in [Streams -> {"unregistered", "open", "closed"}]
BY DEF ResponseInv, ResponseTyping, GatesClosed

\* Where the response is no longer the handler's, a stream's gate may close.
LEMMA Disowned ==
  ASSUME ResponseInv, UNCHANGED << stream, task, written >>, ~Own', Live' => Live,
         Live' => writer'.flow.open = writer.flow.open /\ writer'.flow.ended = writer.flow.ended
  PROVE  \A r \in Streams : StreamSound(r)'
<1>1. ASSUME NEW r \in Streams PROVE StreamSound(r)'
  <2>1. StreamSound(r)
    BY DEF ResponseInv, ResponseSound
  <2>2. Kept(r)'
    BY <2>1 DEF StreamSound, Kept
  <2>3. Live' => Lawful(r)'
    BY <2>1 DEF StreamSound, Lawful, OnWire
  <2> QED
    BY <2>2, <2>3 DEF StreamSound
<1> QED
  BY <1>1

LEMMA CloseGatesSound == ASSUME ResponseInv, CloseGates PROVE ResponseInv'
<1>1. UNCHANGED << stream, task, written, phase, left, claim, writer >> /\ cancel' = "handled"
      /\ gate' = GatesClosed /\ claim = "cancel"
  BY DEF CloseGates, ResponseInv, ResponseSound, Course
<1>2. ResponseTyping'
  BY <1>1, GatesSound DEF ResponseInv, ResponseTyping
<1>3. Course'
  BY <1>1 DEF ResponseInv, ResponseSound, Course, AllIdle
<1>4. Closed'
  BY <1>1 DEF ResponseInv, ResponseSound, Closed
<1>5. \A r \in Streams : StreamSound(r)'
  <2>1. ~Own' /\ (Live' => Live)
    BY <1>1 DEF Own, Live
  <2> QED
    BY <1>1, <2>1, Disowned
<1>6. \A r \in Streams : InLeft(r)' \/ Settled(r)'
  BY <1>1, AllSettled
<1> QED
  BY <1>2, <1>3, <1>4, <1>5, <1>6, Together

LEMMA HandlerDoneSound == ASSUME ResponseInv, HandlerDone PROVE ResponseInv'
<1>1. UNCHANGED << stream, task, written, left, claim, cancel >> /\ phase = "reported" /\ phase' = "done"
      /\ gate' = GatesClosed
      /\ writer' = IF claim = "cancel" THEN Sent(writer, [type |-> "err"]) ELSE writer
  BY DEF HandlerDone
<1>2. /\ writer' \in WriterRec /\ (writer.broken => writer'.broken)
      /\ writer'.flow.over => writer'.over
      /\ Live' => Live
      /\ Live' => writer'.flow.open = writer.flow.open /\ writer'.flow.ended = writer.flow.ended
      /\ writer' = writer \/ writer'.last = "err"
  <2>1. writer \in WriterRec /\ (writer.flow.over => writer.over)
    BY DEF ResponseInv, ResponseTyping, ResponseSound, Course
  <2>2. CASE claim # "cancel" \/ writer.over \/ writer.broken
    <3>1. writer' = writer
      BY <1>1, <2>2 DEF Sent
    <3> QED
      BY <2>1, <3>1 DEF Live
  <2>3. CASE claim = "cancel" /\ ~writer.over /\ ~writer.broken
    <3>1. writer' = Sent(writer, [type |-> "err"])
      BY <1>1, <2>3
    <3>2. /\ writer' \in WriterRec /\ writer'.last = "err" /\ writer'.over
          /\ writer'.flow.ended = writer.flow.ended /\ writer'.flow.open = writer.flow.open
      BY <2>1, <2>3, <3>1, SentPlain
    <3> QED
      BY <2>3, <3>2 DEF Live
  <2> QED
    BY <2>2, <2>3
<1>3. ResponseTyping'
  BY <1>1, <1>2, GatesSound DEF ResponseInv, ResponseTyping, Phases
<1>4. Course'
  BY <1>1, <1>2 DEF ResponseInv, ResponseSound, Course, AllIdle
<1>5. Closed'
  BY <1>1, <1>2 DEF ResponseInv, ResponseSound, Closed
<1>6. \A r \in Streams : StreamSound(r)'
  <2>1. ~Own'
    BY <1>1 DEF Own
  <2> QED
    BY <1>1, <1>2, <2>1, Disowned
<1>7. \A r \in Streams : InLeft(r)' \/ Settled(r)'
  BY <1>1, <1>2, AllSettled
<1> QED
  BY <1>3, <1>4, <1>5, <1>6, <1>7, Together

\* When the handler is about to write END, every output is on the wire, whole, and
\* no stream is open.
LEMMA WholeAtTheEnd ==
  ASSUME ResponseInv, phase = "ending", ~writer.over, ~writer.broken
  PROVE  /\ DOMAIN writer.flow.open = {}
         /\ \A s \in Streams : writer.carried[s] = [i \in 1..written[s] |-> i]
         /\ \A s \in Streams : s \in Required => s \in writer.flow.ended
<1>1. /\ claim = "handler" /\ AllIdle /\ left = <<>> /\ Live /\ Own
  BY DEF ResponseInv, ResponseSound, Course, Live, Own
<1>2. ASSUME NEW s \in Streams
      PROVE  /\ s \notin DOMAIN writer.flow.open
             /\ writer.carried[s] = [i \in 1..written[s] |-> i]
             /\ s \in Required => s \in writer.flow.ended
  <2>1. Kept(s) /\ Lawful(s) /\ Whole(s) /\ (InLeft(s) \/ Settled(s))
    BY <1>1 DEF ResponseInv, ResponseSound, StreamSound
  <2>2. ~InLeft(s)
    BY <1>1 DEF InLeft
  <2>3. \/ stream[s].mode = "none" /\ s \notin Required
        \/ stream[s].mode # "none" /\ stream[s].closed
    BY <2>1, <2>2 DEF Settled
  <2>4. ~task[s].busy /\ task[s].units = <<>>
    BY <1>1, <2>1 DEF AllIdle, Kept
  <2>5. stream[s].buffer = <<>>
    BY <2>1, <2>3 DEF Kept
  <2>6. s \notin DOMAIN writer.flow.open /\ (s \in Required => s \in writer.flow.ended)
    BY <1>1, <2>1, <2>3, <2>4 DEF Lawful, Whole, OnWire
  <2>7. (writer.carried[s] \o task[s].units) \o stream[s].buffer = [i \in 1..written[s] |-> i]
    BY <1>1, <2>1 DEF Whole
  <2>8. PICK a \in Seq(Nat) : a = writer.carried[s]
    BY DEF ResponseInv, ResponseTyping, WriterRec
  <2>9. (a \o <<>>) \o <<>> = [i \in 1..written[s] |-> i]
    BY <2>4, <2>5, <2>7, <2>8
  <2>10. a = [i \in 1..written[s] |-> i]
    BY <2>9, NothingAdded
  <2> QED
    BY <2>6, <2>8, <2>10
<1>3. DOMAIN writer.flow.open \subseteq Streams
  BY FlowFields DEF ResponseInv, ResponseTyping, WriterRec
<1> QED
  BY <1>2, <1>3

LEMMA SendTerminalSound == ASSUME Orderly, ResponseInv, SendTerminal PROVE ResponseInv'
<1>1. UNCHANGED << stream, task, written, gate, left, claim, cancel >> /\ phase \in {"ending", "erring"}
      /\ phase' = "reported"
      /\ writer' = Sent(writer, [type |-> IF phase = "ending" THEN "fin" ELSE "err"])
  BY DEF SendTerminal
<1>2. writer \in WriterRec /\ (writer.flow.over => writer.over) /\ ~writer.over
  BY <1>1 DEF ResponseInv, ResponseTyping, ResponseSound, Course
<1>3. /\ writer' \in WriterRec /\ (writer.broken => writer'.broken)
      /\ writer'.flow.over => writer'.over
      /\ ~Live'
      /\ Closed'
  <2>1. CASE writer.broken
    <3>1. writer' = writer
      BY <1>1, <2>1 DEF Sent
    <3> QED
      BY <1>1, <1>2, <2>1, <3>1 DEF Live, ResponseInv, ResponseSound, Closed
  <2>2. CASE ~writer.broken
    <3>1. PICK t \in {"fin", "err", "other"} : t = IF phase = "ending" THEN "fin" ELSE "err"
      OBVIOUS
    <3>2. t = "fin" => phase = "ending"
      BY <1>1, <3>1
    <3>3. t = "fin" => DOMAIN writer.flow.open = {}
      BY <1>2, <2>2, <3>2, WholeAtTheEnd
    <3>4. writer' = Sent(writer, [type |-> t]) /\ t # "other"
      BY <1>1, <3>1
    <3>5. /\ writer' \in WriterRec /\ writer'.last = t /\ writer'.over
          /\ writer'.carried = writer.carried /\ writer'.flow.ended = writer.flow.ended
      BY <1>2, <2>2, <3>3, <3>4, SentPlain
    <3>6. Closed'
      <4>1. CASE t # "fin"
        BY <3>5, <4>1, NotClosed
      <4>2. CASE t = "fin"
        <5>1. /\ \A s \in Streams : writer.carried[s] = [i \in 1..written[s] |-> i]
              /\ \A s \in Streams : s \in Required => s \in writer.flow.ended
          BY <1>2, <2>2, <3>2, <4>2, WholeAtTheEnd
        <5> QED
          BY <1>1, <3>5, <5>1 DEF Closed, Orderly
      <4> QED
        BY <4>1, <4>2
    <3> QED
      BY <2>2, <3>5, <3>6 DEF Live
  <2> QED
    BY <2>1, <2>2
<1>4. ResponseTyping'
  BY <1>1, <1>3 DEF ResponseInv, ResponseTyping, Phases
<1>5. Course'
  BY <1>1, <1>3 DEF ResponseInv, ResponseSound, Course, AllIdle
<1>6. \A r \in Streams : StreamSound(r)'
  <2>1. Own' => Own
    BY <1>1 DEF Own
  <2> QED
    BY <1>1, <1>3, <2>1, AllUndisturbed
<1>7. \A r \in Streams : InLeft(r)' \/ Settled(r)'
  BY <1>1, <1>3, AllSettled
<1> QED
  BY <1>3, <1>4, <1>5, <1>6, <1>7, Together

-----------------------------------------------------------------------------
(* The calls on a stream that send nothing at once.                        *)

\* What is on the wire, in the task and in the buffer of a stream.
Line(s) == (writer.carried[s] \o task[s].units) \o stream[s].buffer

LEMMA LineTyped ==
  ASSUME ResponseInv, NEW s \in Streams
  PROVE  /\ writer.carried[s] \in Seq(Nat) /\ task[s].units \in Seq(Nat) /\ stream[s].buffer \in Seq(Nat)
         /\ written[s] \in Nat /\ stream[s].chunks \in Nat
         /\ stream[s] \in StreamRec /\ task[s] \in TaskRec
         /\ stream \in StreamMap /\ task \in TaskMap
BY DEF ResponseInv, ResponseTyping, WriterRec, StreamRec, TaskRec, StreamMap, TaskMap

LEMMA BatchTyped ==
  ASSUME ResponseInv, NEW s \in Streams
  PROVE  Append(stream[s].buffer, written[s] + 1) \in Seq(Nat)
<1>1. PICK c \in Seq(Nat), n \in Nat : c = stream[s].buffer /\ n = written[s]
  BY LineTyped
<1>2. Append(c, n + 1) \in Seq(Nat)
  OBVIOUS
<1> QED
  BY <1>1, <1>2

\* What is there of an own stream on a live wire is what was written to it.
LEMMA WholeLine ==
  ASSUME ResponseInv, NEW s \in Streams, Live, Own
  PROVE  Line(s) = UpTo(written[s])
BY DEF ResponseInv, ResponseSound, StreamSound, Whole, Line, UpTo

\* A step of a stream that sends nothing leaves it sound if what is on the wire, in
\* the task and in the buffer is still what was written.
LEMMA LocalSound ==
  ASSUME ResponseInv, NEW s \in Streams, UNCHANGED << gate, writer >>, Own' => Own,
         stream[s].mode # "none", stream'[s].mode = stream[s].mode,
         stream'[s].chunks = stream[s].chunks \/ writer.broken,
         Kept(s)',
         stream'[s].closed /\ ~task'[s].busy => stream[s].closed /\ ~task[s].busy,
         ~stream'[s].closed \/ task'[s].busy => ~stream[s].closed \/ task[s].busy,
         Live /\ Own => Line(s)' = UpTo(written'[s])
  PROVE  StreamSound(s)'
<1>1. StreamSound(s) /\ (Live' => Live)
  BY DEF ResponseInv, ResponseSound, Live
<1>2. Live' => Lawful(s)'
  BY <1>1 DEF StreamSound, Lawful, OnWire, Live
<1>3. ASSUME Own' PROVE Whole(s)'
  <2>1. Whole(s)
    BY <1>1, <1>3 DEF StreamSound
  <2>2. gate'[s] # "closed"
    BY <2>1 DEF Whole
  <2>3. ASSUME Live'
        PROVE  /\ stream'[s].mode # "none" /\ stream'[s].closed /\ ~task'[s].busy =>
                    s \in writer'.flow.ended /\ s \notin DOMAIN writer'.flow.open
               /\ (writer'.carried[s] \o task'[s].units) \o stream'[s].buffer = [i \in 1..written'[s] |-> i]
    <3>1. Line(s)' = UpTo(written'[s])
      BY <1>1, <1>3, <2>3
    <3>2. (writer'.carried[s] \o task'[s].units) \o stream'[s].buffer = [i \in 1..written'[s] |-> i]
      BY <3>1 DEF Line, UpTo
    <3>3. stream[s].closed /\ ~task[s].busy => s \in writer.flow.ended /\ s \notin DOMAIN writer.flow.open
      BY <1>1, <2>1, <2>3 DEF Whole, OnWire
    <3> QED
      BY <3>2, <3>3
  <2> QED
    BY <2>2, <2>3 DEF Whole, OnWire
<1> QED
  BY <1>2, <1>3 DEF StreamSound

\* A step of one stream alone, on a thread in a phase that allows it.
LEMMA CallSound ==
  ASSUME ResponseInv, NEW s \in Streams, UNCHANGED << phase, left, claim, cancel, gate, writer >>,
         phase \in {"performing", "finishing"},
         stream' \in StreamMap, task' \in TaskMap, written' \in [Streams -> Nat],
         \A r \in Streams \ {s} : Untouched(r),
         stream'[s].mode = stream[s].mode, stream[s].closed => stream'[s].closed, StreamSound(s)'
  PROVE  ResponseInv'
<1>1. ~writer.over /\ ~writer.flow.over
  BY DEF ResponseInv, ResponseSound, Course
<1>2. ResponseTyping'
  BY DEF ResponseInv, ResponseTyping, StreamMap, TaskMap
<1>3. Course'
  BY <1>1, CourseStays
<1>4. Closed'
  BY <1>1, OpenIsUnended, NotClosed
<1>5. \A r \in Streams : StreamSound(r)'
  <2>1. Own' => Own
    BY DEF Own
  <2> QED
    BY <2>1, OthersUndisturbed
<1>6. \A r \in Streams : InLeft(r)' \/ Settled(r)'
  <2>1. InLeft(s)' \/ Settled(s)'
    BY LeftKept
  <2> QED
    BY <2>1, LeftStays
<1> QED
  BY <1>2, <1>3, <1>4, <1>5, <1>6, Together

\* A handler of no habits writes to open streams only.
LEMMA MayWriteOpen ==
  ASSUME Orderly, ResponseInv, NEW s \in Streams, NEW m, MayWrite(s, m)
  PROVE  /\ phase = "performing" /\ ~task[s].busy /\ stream[s].mode = m /\ ~stream[s].closed
         /\ task[s].units = <<>>
         /\ Kept(s)
BY DEF Orderly, MayWrite, ResponseInv, ResponseSound, StreamSound, Kept

\* A batch of what is buffered and the unit written.
LEMMA BatchSound ==
  ASSUME Orderly, ResponseInv, NEW s \in Streams, MayWrite(s, "write"),
         written' = [written EXCEPT ![s] = @ + 1],
         stream' = [stream EXCEPT ![s].buffer = <<>>],
         Sending(s, Append(stream[s].buffer, written[s] + 1), FALSE),
         UNCHANGED << gate, phase, left, claim, cancel, writer >>
  PROVE  ResponseInv'
<1>1. /\ phase = "performing" /\ ~task[s].busy /\ stream[s].mode = "write" /\ ~stream[s].closed
      /\ task[s].units = <<>> /\ Kept(s)
  BY MayWriteOpen
<1>2. PICK b \in Seq(Nat) : b = Append(stream[s].buffer, written[s] + 1)
  BY BatchTyped
<1>3. <<>> \in Seq(Nat) /\ stream \in StreamMap /\ task \in TaskMap
  BY LineTyped
<1>4. /\ stream' \in StreamMap /\ \A r \in Streams \ {s} : stream'[r] = stream[r]
      /\ stream'[s].mode = stream[s].mode /\ stream'[s].chunks = stream[s].chunks /\ stream'[s].buffer = <<>>
      /\ stream'[s].closed <=> stream[s].closed
  <2>1. PICK e \in Seq(Nat) : e = <<>>
    BY <1>3
  <2>2. stream' = BufferPut(stream, s, e)
    BY <2>1 DEF BufferPut
  <2>3. stream \in StreamMap
    BY <1>3
  <2>4. /\ stream' \in StreamMap /\ \A r \in Streams \ {s} : stream'[r] = stream[r]
        /\ stream'[s].mode = stream[s].mode /\ stream'[s].chunks = stream[s].chunks /\ stream'[s].buffer = e
        /\ stream'[s].closed <=> stream[s].closed
    BY <2>2, <2>3, BufferSet
  <2> QED
    BY <2>1, <2>4
<1>5. /\ task' \in TaskMap /\ \A r \in Streams \ {s} : task'[r] = task[r]
      /\ task'[s].busy /\ task'[s].units = b /\ ~task'[s].closing
  <2>1. Sending(s, b, FALSE)
    BY <1>2
  <2> QED
    BY <1>3, <2>1, UnitsSent
<1>6. /\ written' \in [Streams -> Nat] /\ written'[s] = written[s] + 1
      /\ \A r \in Streams \ {s} : written'[r] = written[r]
  BY DEF ResponseInv, ResponseTyping
<1>7. \A r \in Streams \ {s} : Untouched(r)
  BY <1>4, <1>5, <1>6 DEF Untouched
<1>8. StreamSound(s)'
  <2>1. Kept(s)'
    BY <1>1, <1>4, <1>5 DEF Kept
  <2>2. ASSUME Live, Own PROVE Line(s)' = UpTo(written'[s])
    <3>1. PICK a \in Seq(Nat), c \in Seq(Nat), n \in Nat :
            a = writer.carried[s] /\ c = stream[s].buffer /\ n = written[s]
      BY LineTyped
    <3>2. (a \o <<>>) \o c = UpTo(n)
      BY <1>1, <2>2, <3>1, WholeLine DEF Line
    <3>3. (a \o Append(c, n + 1)) \o <<>> = UpTo(n + 1)
      BY <3>2, UnitAppended
    <3> QED
      BY <1>2, <1>4, <1>5, <1>6, <3>1, <3>3 DEF Line
  <2>3. Own' => Own
    BY DEF Own
  <2> QED
    BY <1>1, <1>4, <1>5, <2>1, <2>2, <2>3, LocalSound
<1> QED
  BY <1>1, <1>4, <1>5, <1>6, <1>7, <1>8, CallSound

LEMMA WriteSound == ASSUME Orderly, ResponseInv, NEW s \in Streams, Write(s) \/ EmitCbor(s) PROVE ResponseInv'
<1>1. /\ MayWrite(s, "write") /\ written' = [written EXCEPT ![s] = @ + 1]
      /\ UNCHANGED << gate, phase, left, claim, cancel, writer >>
  BY DEF Write, EmitCbor
<1>2. CASE /\ stream' = [stream EXCEPT ![s].buffer = <<>>]
           /\ Sending(s, Append(stream[s].buffer, written[s] + 1), FALSE)
  BY <1>1, <1>2, BatchSound
<1>3. CASE stream' = [stream EXCEPT ![s].buffer = Append(stream[s].buffer, written[s] + 1)] /\ UNCHANGED task
  <2>1. /\ phase = "performing" /\ ~task[s].busy /\ stream[s].mode = "write" /\ ~stream[s].closed
        /\ task[s].units = <<>> /\ Kept(s)
    BY <1>1, MayWriteOpen
  <2>2. PICK b \in Seq(Nat) : b = Append(stream[s].buffer, written[s] + 1)
    BY BatchTyped
  <2>3. stream \in StreamMap /\ task \in TaskMap
    BY LineTyped
  <2>4. /\ stream' \in StreamMap /\ \A r \in Streams \ {s} : stream'[r] = stream[r]
        /\ stream'[s].mode = stream[s].mode /\ stream'[s].chunks = stream[s].chunks /\ stream'[s].buffer = b
        /\ stream'[s].closed <=> stream[s].closed
    <3>1. stream' = BufferPut(stream, s, b)
      BY <1>3, <2>2 DEF BufferPut
    <3> QED
      BY <2>3, <3>1, BufferSet
  <2>5. /\ written' \in [Streams -> Nat] /\ written'[s] = written[s] + 1
        /\ \A r \in Streams \ {s} : written'[r] = written[r]
    BY <1>1 DEF ResponseInv, ResponseTyping
  <2>6. \A r \in Streams \ {s} : Untouched(r)
    BY <1>1, <1>3, <2>4, <2>5 DEF Untouched
  <2>7. StreamSound(s)'
    <3>1. Kept(s)'
      BY <1>3, <2>1, <2>4 DEF Kept
    <3>2. ASSUME Live, Own PROVE Line(s)' = UpTo(written'[s])
      <4>1. PICK a \in Seq(Nat), c \in Seq(Nat), n \in Nat :
              a = writer.carried[s] /\ c = stream[s].buffer /\ n = written[s]
        BY LineTyped
      <4>2. (a \o <<>>) \o c = UpTo(n)
        BY <2>1, <3>2, <4>1, WholeLine DEF Line
      <4>3. (a \o <<>>) \o Append(c, n + 1) = UpTo(n + 1)
        BY <4>2, UnitAppended
      <4> QED
        BY <1>1, <1>3, <2>1, <2>2, <2>4, <2>5, <4>1, <4>3 DEF Line
    <3>3. Own' => Own
      BY <1>1 DEF Own
    <3> QED
      BY <1>1, <1>3, <2>1, <2>4, <3>1, <3>2, <3>3, LocalSound
  <2> QED
    BY <1>1, <1>3, <2>1, <2>3, <2>4, <2>5, <2>6, <2>7, CallSound
<1> QED
  BY <1>2, <1>3 DEF Write, EmitCbor

LEMMA EmitListItemSound == ASSUME Orderly, ResponseInv, NEW s \in Streams, EmitListItem(s) PROVE ResponseInv'
<1>1. /\ MayWrite(s, "sequence")
      /\ UNCHANGED << stream, gate, phase, left, claim, cancel, writer >>
  BY DEF EmitListItem
<1>2. /\ phase = "performing" /\ ~task[s].busy /\ stream[s].mode = "sequence" /\ ~stream[s].closed
      /\ task[s].units = <<>> /\ stream[s].buffer = <<>> /\ Kept(s)
  BY <1>1, MayWriteOpen DEF Kept
<1>3. PICK n \in 1..(MaxUnits - written[s]) :
        /\ written' = [written EXCEPT ![s] = @ + n]
        /\ Sending(s, [i \in 1..n |-> written[s] + i], FALSE)
  BY DEF EmitListItem
<1>4. n \in Nat
  OBVIOUS
<1>5. PICK b : b = [i \in 1..n |-> written[s] + i]
  OBVIOUS
<1>6. b \in Seq(Nat)
  <2>1. \A i \in 1..n : written[s] + i \in Nat
    BY <1>4, LineTyped
  <2>2. b \in [1..n -> Nat]
    BY <1>5, <2>1
  <2> QED
    BY <1>4, <2>2, SeqDef
<1>7. /\ task' \in TaskMap /\ \A r \in Streams \ {s} : task'[r] = task[r]
      /\ task'[s].busy /\ task'[s].units = b /\ ~task'[s].closing
  <2>1. Sending(s, b, FALSE) /\ task \in TaskMap
    BY <1>3, <1>5, LineTyped
  <2> QED
    BY <1>6, <2>1, UnitsSent
<1>8. /\ written' \in [Streams -> Nat] /\ written'[s] = written[s] + n
      /\ \A r \in Streams \ {s} : written'[r] = written[r]
  BY <1>3, <1>4 DEF ResponseInv, ResponseTyping
<1>9. \A r \in Streams \ {s} : Untouched(r)
  BY <1>1, <1>7, <1>8 DEF Untouched
<1>10. StreamSound(s)'
  <2>1. Kept(s)'
    BY <1>1, <1>2, <1>7 DEF Kept
  <2>2. ASSUME Live, Own PROVE Line(s)' = UpTo(written'[s])
    <3>1. PICK a \in Seq(Nat), k \in Nat : a = writer.carried[s] /\ k = written[s]
      BY LineTyped
    <3>2. (a \o <<>>) \o <<>> = UpTo(k)
      BY <1>2, <2>2, <3>1, WholeLine DEF Line
    <3>3. (a \o [i \in 1..n |-> k + i]) \o <<>> = UpTo(k + n)
      BY <1>4, <3>2, UnitsAppended
    <3> QED
      BY <1>1, <1>2, <1>5, <1>7, <1>8, <3>1, <3>3 DEF Line
  <2>3. Own' => Own
    BY <1>1 DEF Own
  <2> QED
    BY <1>1, <1>2, <1>7, <2>1, <2>2, <2>3, LocalSound
<1> QED
  BY <1>1, <1>2, <1>7, <1>8, <1>9, <1>10, LineTyped, CallSound

LEMMA FlushSound == ASSUME Orderly, ResponseInv, NEW s \in Streams, Flush(s) PROVE ResponseInv'
<1>1. /\ phase = "performing" /\ ~task[s].busy /\ stream[s].buffer # <<>>
      /\ stream' = BufferPut(stream, s, <<>>) /\ Sending(s, stream[s].buffer, FALSE)
      /\ UNCHANGED << written, gate, phase, left, claim, cancel, writer >>
  BY DEF Flush, BufferPut
<1>2. Kept(s) /\ stream[s].mode # "none" /\ ~stream[s].closed /\ task[s].units = <<>>
  BY <1>1 DEF ResponseInv, ResponseSound, StreamSound, Kept
<1>3. PICK c \in Seq(Nat) : c = stream[s].buffer
  BY LineTyped
<1>4. <<>> \in Seq(Nat) /\ stream \in StreamMap
  BY LineTyped
<1>5. /\ stream' \in StreamMap /\ \A r \in Streams \ {s} : stream'[r] = stream[r]
      /\ stream'[s].mode = stream[s].mode /\ stream'[s].chunks = stream[s].chunks /\ stream'[s].buffer = <<>>
      /\ stream'[s].closed <=> stream[s].closed
  <2>1. PICK e \in Seq(Nat) : e = <<>>
    BY <1>4
  <2>2. stream' = BufferPut(stream, s, e)
    BY <1>1, <2>1
  <2>3. stream \in StreamMap
    BY <1>4
  <2>4. /\ stream' \in StreamMap /\ \A r \in Streams \ {s} : stream'[r] = stream[r]
        /\ stream'[s].mode = stream[s].mode /\ stream'[s].chunks = stream[s].chunks /\ stream'[s].buffer = e
        /\ stream'[s].closed <=> stream[s].closed
    BY <2>2, <2>3, BufferSet
  <2> QED
    BY <2>1, <2>4
<1>6. /\ task' \in TaskMap /\ \A r \in Streams \ {s} : task'[r] = task[r]
      /\ task'[s].busy /\ task'[s].units = c /\ ~task'[s].closing
  <2>1. Sending(s, c, FALSE) /\ task \in TaskMap
    BY <1>1, <1>3, LineTyped
  <2> QED
    BY <2>1, UnitsSent
<1>7. written' \in [Streams -> Nat]
  BY <1>1 DEF ResponseInv, ResponseTyping
<1>8. \A r \in Streams \ {s} : Untouched(r)
  BY <1>1, <1>5, <1>6 DEF Untouched
<1>9. StreamSound(s)'
  <2>1. Kept(s)'
    BY <1>1, <1>2, <1>5, <1>6 DEF Kept
  <2>2. ASSUME Live, Own PROVE Line(s)' = UpTo(written'[s])
    <3>1. PICK a \in Seq(Nat) : a = writer.carried[s]
      BY LineTyped
    <3>2. (a \o <<>>) \o c = UpTo(written[s])
      BY <1>2, <1>3, <2>2, <3>1, WholeLine DEF Line
    <3>3. (a \o c) \o <<>> = UpTo(written[s])
      BY <3>2, BufferMoves
    <3> QED
      BY <1>1, <1>5, <1>6, <3>1, <3>3 DEF Line
  <2>3. Own' => Own
    BY <1>1 DEF Own
  <2> QED
    BY <1>1, <1>2, <1>5, <1>6, <2>1, <2>2, <2>3, LocalSound
<1> QED
  BY <1>1, <1>5, <1>6, <1>7, <1>8, <1>9, CallSound

\* What closing does of a started stream, by its handler or by finish.
LEMMA ClosingSound ==
  ASSUME ResponseInv, NEW s \in Streams, ~task[s].busy, stream[s].mode # "none", Closing(s),
         UNCHANGED << written, gate, claim, writer >>, Own' => Own
  PROVE  /\ stream' \in StreamMap /\ task' \in TaskMap /\ written' \in [Streams -> Nat]
         /\ \A r \in Streams \ {s} : Untouched(r)
         /\ stream'[s].mode = stream[s].mode /\ stream'[s].closed
         /\ StreamSound(s)'
<1>1. /\ ~stream[s].closed /\ stream' = ClosedPut(stream, s) /\ Sending(s, stream[s].buffer, TRUE)
  BY DEF Closing, ClosedPut
<1>2. Kept(s) /\ task[s].units = <<>>
  BY DEF ResponseInv, ResponseSound, StreamSound, Kept
<1>3. PICK c \in Seq(Nat) : c = stream[s].buffer
  BY LineTyped
<1>4. stream \in StreamMap /\ task \in TaskMap
  BY LineTyped
<1>5. /\ stream' \in StreamMap /\ \A r \in Streams \ {s} : stream'[r] = stream[r]
      /\ stream'[s].mode = stream[s].mode /\ stream'[s].chunks = stream[s].chunks /\ stream'[s].buffer = <<>>
      /\ stream'[s].closed
  BY <1>1, <1>4, ClosedSet
<1>6. /\ task' \in TaskMap /\ \A r \in Streams \ {s} : task'[r] = task[r]
      /\ task'[s].busy /\ task'[s].units = c /\ task'[s].closing
  <2>1. Sending(s, c, TRUE)
    BY <1>1, <1>3
  <2> QED
    BY <1>4, <2>1, TailSent
<1>7. written' \in [Streams -> Nat]
  BY DEF ResponseInv, ResponseTyping
<1>8. \A r \in Streams \ {s} : Untouched(r)
  BY <1>5, <1>6 DEF Untouched
<1>9. StreamSound(s)'
  <2>1. Kept(s)'
    BY <1>2, <1>5, <1>6 DEF Kept
  <2>2. ASSUME Live, Own PROVE Line(s)' = UpTo(written'[s])
    <3>1. PICK a \in Seq(Nat) : a = writer.carried[s]
      BY LineTyped
    <3>2. (a \o <<>>) \o c = UpTo(written[s])
      BY <1>2, <1>3, <2>2, <3>1, WholeLine DEF Line
    <3>3. (a \o c) \o <<>> = UpTo(written[s])
      BY <3>2, BufferMoves
    <3> QED
      BY <1>5, <1>6, <3>1, <3>3 DEF Line
  <2> QED
    BY <1>1, <1>5, <1>6, <2>1, <2>2, LocalSound
<1> QED
  BY <1>5, <1>6, <1>7, <1>8, <1>9

LEMMA CloseSound == ASSUME Orderly, ResponseInv, NEW s \in Streams, Close(s) PROVE ResponseInv'
<1>1. /\ phase = "performing" /\ ~task[s].busy /\ stream[s].mode # "none" /\ Closing(s)
      /\ UNCHANGED << written, gate, phase, left, claim, cancel, writer >>
  BY DEF Close, Orderly
<1>2. Own' => Own
  BY <1>1 DEF Own
<1>3. /\ stream' \in StreamMap /\ task' \in TaskMap /\ written' \in [Streams -> Nat]
      /\ \A r \in Streams \ {s} : Untouched(r)
      /\ stream'[s].mode = stream[s].mode /\ stream'[s].closed
      /\ StreamSound(s)'
  BY <1>1, <1>2, ClosingSound
<1> QED
  BY <1>1, <1>3, CallSound

LEMMA ReturnedSound == ASSUME ResponseInv, NEW s \in Streams, Returned(s) PROVE ResponseInv'
<1>1. /\ task[s].busy /\ task[s].units = <<>> /\ ~task[s].closing
      /\ task' = [task EXCEPT ![s] = Idle]
      /\ UNCHANGED << stream, written, gate, phase, left, claim, cancel, writer >>
  BY DEF Returned
<1>2. phase \in {"performing", "finishing"}
  BY <1>1, BusyInTime
<1>3. Kept(s) /\ stream[s].mode # "none" /\ ~stream[s].closed
  BY <1>1 DEF ResponseInv, ResponseSound, StreamSound, Kept
<1>4. /\ task' \in TaskMap /\ \A r \in Streams \ {s} : task'[r] = task[r]
      /\ ~task'[s].busy /\ task'[s].units = <<>>
  BY <1>1, LineTyped, CallEnds
<1>5. written' \in [Streams -> Nat] /\ stream' \in StreamMap
  BY <1>1, LineTyped DEF ResponseInv, ResponseTyping
<1>6. \A r \in Streams \ {s} : Untouched(r)
  BY <1>1, <1>4 DEF Untouched
<1>7. StreamSound(s)'
  <2>1. Kept(s)'
    BY <1>1, <1>3, <1>4 DEF Kept
  <2>2. ASSUME Live, Own PROVE Line(s)' = UpTo(written'[s])
    <3>1. Line(s)' = Line(s)
      BY <1>1, <1>4 DEF Line
    <3> QED
      BY <1>1, <2>2, <3>1, WholeLine
  <2>3. Own' => Own
    BY <1>1 DEF Own
  <2> QED
    BY <1>1, <1>3, <1>4, <2>1, <2>2, <2>3, LocalSound
<1> QED
  BY <1>1, <1>2, <1>4, <1>5, <1>6, <1>7, CallSound

LEMMA FailSound == ASSUME Orderly, ResponseInv, NEW s \in Streams, Fail(s) PROVE ResponseInv'
<1>1. /\ task[s].busy /\ task' = [task EXCEPT ![s] = Idle]
      /\ UNCHANGED << written, gate, phase, left, claim, cancel, writer >>
  BY DEF Fail
<1>2. phase \in {"performing", "finishing"} /\ ~writer.over
  BY <1>1, BusyInTime
<1>3. Kept(s) /\ stream[s].mode # "none"
  BY <1>1 DEF ResponseInv, ResponseSound, StreamSound, Kept
<1>4. /\ task' \in TaskMap /\ \A r \in Streams \ {s} : task'[r] = task[r]
      /\ ~task'[s].busy /\ task'[s].units = <<>>
  BY <1>1, LineTyped, CallEnds
<1>5. /\ stream' \in StreamMap /\ \A r \in Streams \ {s} : stream'[r] = stream[r]
      /\ stream'[s].mode = stream[s].mode /\ stream'[s].buffer = stream[s].buffer
      /\ stream'[s].chunks = stream[s].chunks \/ writer.broken
      /\ stream'[s].closed <=> stream[s].closed
  <2>1. CASE UNCHANGED stream
    BY <2>1, LineTyped
  <2>2. CASE Throws(writer) /\ stream' = [stream EXCEPT ![s].chunks = @ + 1]
    <3>1. stream' = ChunksPut(stream, s) /\ stream \in StreamMap
      BY <2>2, LineTyped DEF ChunksPut
    <3>2. /\ stream' \in StreamMap /\ \A r \in Streams \ {s} : stream'[r] = stream[r]
          /\ stream'[s].mode = stream[s].mode /\ stream'[s].buffer = stream[s].buffer
          /\ stream'[s].closed <=> stream[s].closed
      BY <3>1, ChunksSet
    <3> QED
      BY <2>2, <3>2 DEF Throws
  <2> QED
    BY <2>1, <2>2 DEF Fail, Orderly
<1>6. written' \in [Streams -> Nat]
  BY <1>1 DEF ResponseInv, ResponseTyping
<1>7. \A r \in Streams \ {s} : Untouched(r)
  BY <1>1, <1>4, <1>5 DEF Untouched
\* An own stream's gate is open, so that the call failed for the wire's loss.
<1>8. ~(Live /\ Own)
  BY <1>2 DEF Fail, Orderly, ResponseInv, ResponseSound, StreamSound, Whole, Live, Throws
<1>9. StreamSound(s)'
  <2>1. Kept(s)'
    BY <1>1, <1>3, <1>4, <1>5 DEF Kept
  <2>2. (Own' => Own) /\ (Live' => Live)
    BY <1>1 DEF Own, Live
  <2>3. Live' => Lawful(s)'
    BY <1>1, <1>4, <1>5, <2>2 DEF ResponseInv, ResponseSound, StreamSound, Lawful, OnWire, Live
  <2>4. Own' => Whole(s)'
    <3>1. Own' => ~Live' /\ Whole(s)
      BY <1>1, <1>8, <2>2 DEF ResponseInv, ResponseSound, StreamSound
    <3>2. Own' => gate'[s] # "closed"
      BY <1>1, <3>1 DEF Whole
    <3> QED
      BY <3>1, <3>2 DEF Whole
  <2> QED
    BY <2>1, <2>3, <2>4 DEF StreamSound
<1> QED
  BY <1>1, <1>2, <1>4, <1>5, <1>6, <1>7, <1>9, CallSound

-----------------------------------------------------------------------------
(* The frames of a stream.                                                 *)

\* What the start of a stream does, by its handler or by finish.
LEMMA StartedSound ==
  ASSUME ResponseInv, NEW s \in Streams, \E m \in {"write", "sequence"}, b \in BOOLEAN : Started(s, m, b),
         UNCHANGED << task, written, claim >>, ~writer.over, Own' => Own
  PROVE  /\ stream' \in StreamMap /\ gate' \in [Streams -> {"unregistered", "open", "closed"}]
         /\ writer' \in WriterRec /\ ~writer'.over /\ ~writer'.flow.over /\ writer'.last # "fin"
         /\ writer'.broken <=> writer.broken
         /\ stream'[s].mode # "none"
         /\ \A r \in Streams \ {s} : Untouched(r)
         /\ \A r \in Streams : StreamSound(r)'
<1>1. PICK m \in {"write", "sequence"}, b \in BOOLEAN : Started(s, m, b)
  OBVIOUS
<1>2. /\ stream[s].mode = "none" /\ gate' = [gate EXCEPT ![s] = "open"]
      /\ writer' = Sent(writer, StartFrame(s))
  BY <1>1 DEF Started, StartFrame
<1>4. Kept(s) /\ stream[s].chunks = 0 /\ ~stream[s].closed /\ ~task[s].busy /\ stream[s].buffer = <<>>
  BY <1>2 DEF ResponseInv, ResponseSound, StreamSound, Kept
<1>5. /\ stream' \in StreamMap /\ \A r \in Streams \ {s} : stream'[r] = stream[r]
      /\ stream'[s].mode \in {"write", "sequence"} /\ stream'[s].chunks = stream[s].chunks /\ stream'[s].buffer = stream[s].buffer
      /\ stream'[s].closed <=> stream[s].closed
  <2>1. stream \in StreamMap
    BY LineTyped
  <2> QED
    BY <2>1, ModeSet
<1>6. /\ gate' \in [Streams -> {"unregistered", "open", "closed"}] /\ gate'[s] = "open"
      /\ \A r \in Streams \ {s} : gate'[r] = gate[r]
  BY <1>2 DEF ResponseInv, ResponseTyping
<1>7. \A r \in Streams \ {s} : Untouched(r)
  BY <1>5, <1>6 DEF Untouched
<1>8. Kept(s)'
  BY <1>4, <1>5 DEF Kept
<1>9. writer \in WriterRec /\ ~writer.flow.over /\ writer.last # "fin"
  BY OpenIsUnended DEF ResponseInv, ResponseTyping, ResponseSound, Course
<1>10. CASE writer.broken
  <2>1. writer' = writer
    BY <1>2, <1>10 DEF Sent
  <2>2. \A r \in Streams \ {s} : StreamSound(r)'
    BY <1>7, <2>1, OthersUndisturbed
  <2>3. StreamSound(s)'
    <3>1. ~Live'
      BY <1>10, <2>1 DEF Live
    <3>2. Own' => Whole(s)'
      BY <1>6, <3>1 DEF Whole
    <3> QED
      BY <1>8, <3>1, <3>2 DEF StreamSound
  <2> QED
    BY <1>5, <1>6, <1>7, <1>9, <2>1, <2>2, <2>3
<1>11. CASE ~writer.broken
  <2>1. Live
    BY <1>11 DEF Live
  <2>2. s \notin DOMAIN writer.flow.open /\ s \notin writer.flow.ended
    BY <1>2, <2>1 DEF ResponseInv, ResponseSound, StreamSound, Lawful, OnWire
  <2>3. /\ writer' \in WriterRec /\ ~writer'.over /\ ~writer'.broken /\ ~writer'.flow.over /\ writer'.last = "start"
        /\ writer'.carried = writer.carried /\ writer'.flow.ended = writer.flow.ended
        /\ DOMAIN writer'.flow.open = DOMAIN writer.flow.open \cup {s} /\ writer'.flow.open[s] = 0
        /\ \A r \in DOMAIN writer.flow.open : writer'.flow.open[r] = writer.flow.open[r]
    BY <1>2, <1>9, <1>11, <2>2, SentStart
  <2>4. ASSUME NEW r \in Streams \ {s} PROVE StreamSound(r)'
    <3>1. StreamSound(r) /\ Untouched(r)
      BY <1>7 DEF ResponseInv, ResponseSound
    <3>2. WireKept(r)
      BY <2>3 DEF WireKept
    <3> QED
      BY <2>1, <3>1, <3>2, Undisturbed
  <2>5. Lawful(s)'
    BY <1>4, <1>5, <2>2, <2>3 DEF Lawful, OnWire
  <2>6. ASSUME Own' PROVE Whole(s)'
    <3>1. Line(s) = UpTo(written[s])
      BY <2>1, <2>6, WholeLine
    <3>2. (writer'.carried[s] \o task'[s].units) \o stream'[s].buffer = [i \in 1..written'[s] |-> i]
      BY <1>5, <2>3, <3>1 DEF Line, UpTo
    <3>3. ~stream'[s].closed /\ gate'[s] # "closed"
      BY <1>4, <1>5, <1>6
    <3> QED
      BY <3>2, <3>3 DEF Whole
  <2>7. StreamSound(s)'
    BY <1>8, <2>5, <2>6 DEF StreamSound
  <2> QED
    BY <1>5, <1>6, <1>7, <1>11, <2>3, <2>4, <2>7
<1> QED
  BY <1>10, <1>11

LEMMA StartSound == ASSUME Orderly, ResponseInv, NEW s \in Streams, Start(s) PROVE ResponseInv'
<1>1. /\ phase = "performing" /\ \E m \in {"write", "sequence"}, b \in BOOLEAN : Started(s, m, b)
      /\ UNCHANGED << task, written, phase, left, claim, cancel >>
  BY DEF Start
<1>2. ~writer.over /\ left = Outputs
  BY <1>1 DEF ResponseInv, ResponseSound, Course
<1>3. Own' => Own
  BY <1>1 DEF Own
<1>4. /\ stream' \in StreamMap /\ gate' \in [Streams -> {"unregistered", "open", "closed"}]
      /\ writer' \in WriterRec /\ ~writer'.over /\ ~writer'.flow.over /\ writer'.last # "fin"
      /\ writer'.broken <=> writer.broken
      /\ \A r \in Streams \ {s} : Untouched(r)
      /\ \A r \in Streams : StreamSound(r)'
  BY <1>1, <1>2, <1>3, StartedSound
<1>5. ResponseTyping'
  BY <1>1, <1>4 DEF ResponseInv, ResponseTyping, StreamMap
<1>6. Course'
  BY <1>1, <1>4, CourseStays
<1>7. Closed'
  BY <1>4, NotClosed
<1>8. \A r \in Streams : InLeft(r)' \/ Settled(r)'
  <2>1. InLeft(s)'
    <3>1. PICK i \in 1..Len(Outputs) : Outputs[i] = s
      BY DEF Orderly, Streams, Range
    <3> QED
      BY <1>1, <1>2, <3>1 DEF InLeft
  <2> QED
    BY <1>1, <1>4, <2>1, LeftStays
<1> QED
  BY <1>4, <1>5, <1>6, <1>7, <1>8, Together

LEMMA SendChunkSound == ASSUME ResponseInv, NEW s \in Streams, SendChunk(s) PROVE ResponseInv'
<1>1. /\ task[s].busy /\ task[s].units # <<>> /\ ~Throws(writer)
      /\ UNCHANGED << written, gate, phase, left, claim, cancel >>
  BY DEF SendChunk
<1>2. stream' = ChunksPut(stream, s)
  BY DEF SendChunk, ChunksPut
<1>3. writer' = Sent(writer, ChunkFrame(s, stream[s].chunks, Head(task[s].units)))
  BY DEF SendChunk, ChunkFrame
<1>4. phase \in {"performing", "finishing"} /\ ~writer.over /\ ~writer.flow.over
  BY <1>1, BusyInTime
<1>5. Live /\ ~writer.broken
  BY <1>1, <1>4 DEF Throws, Live
<1>6. Kept(s) /\ Lawful(s) /\ stream[s].mode # "none"
  BY <1>1, <1>5 DEF ResponseInv, ResponseSound, StreamSound, Kept
<1>7. s \in DOMAIN writer.flow.open /\ stream[s].chunks = writer.flow.open[s]
  BY <1>1, <1>6 DEF Lawful, OnWire
<1>8. PICK b \in Seq(Nat), v \in Nat : b = task[s].units /\ v = Head(b) /\ b # <<>>
  BY <1>1, LineTyped
<1>9. /\ stream' \in StreamMap /\ \A r \in Streams \ {s} : stream'[r] = stream[r]
      /\ stream'[s].mode = stream[s].mode /\ stream'[s].chunks = stream[s].chunks + 1
      /\ stream'[s].buffer = stream[s].buffer
      /\ stream'[s].closed <=> stream[s].closed
  <2>1. stream \in StreamMap
    BY LineTyped
  <2> QED
    BY <1>2, <2>1, ChunksSet
<1>10. /\ task' \in TaskMap /\ \A r \in Streams \ {s} : task'[r] = task[r]
       /\ task'[s].busy /\ task'[s].units = Tail(b)
       /\ task'[s].closing <=> task[s].closing
  <2>1. task \in TaskMap /\ task[s].units # <<>>
    BY <1>1, LineTyped
  <2>2. /\ task' \in TaskMap /\ \A r \in Streams \ {s} : task'[r] = task[r]
        /\ task'[s].busy <=> task[s].busy
        /\ task'[s].units = Tail(task[s].units)
        /\ task'[s].closing <=> task[s].closing
    BY <2>1, UnitTaken
  <2> QED
    BY <1>1, <1>8, <2>2
<1>11. /\ writer' \in WriterRec /\ ~writer'.over /\ ~writer'.broken /\ ~writer'.flow.over /\ writer'.last = "chunk"
       /\ writer'.carried[s] = Append(writer.carried[s], v)
       /\ \A r \in Streams \ {s} : writer'.carried[r] = writer.carried[r]
       /\ writer'.flow.ended = writer.flow.ended
       /\ DOMAIN writer'.flow.open = DOMAIN writer.flow.open /\ writer'.flow.open[s] = writer.flow.open[s] + 1
       /\ \A r \in DOMAIN writer.flow.open \ {s} : writer'.flow.open[r] = writer.flow.open[r]
  <2>1. writer' = Sent(writer, ChunkFrame(s, writer.flow.open[s], v)) /\ writer \in WriterRec
    BY <1>3, <1>7, <1>8 DEF ResponseInv, ResponseTyping
  <2>2. PICK w, u : w \in WriterRec /\ w = writer /\ u = writer'
    BY <2>1
  <2>3. /\ w \in WriterRec /\ ~w.over /\ ~w.broken /\ ~w.flow.over /\ s \in DOMAIN w.flow.open
        /\ u = Sent(w, ChunkFrame(s, w.flow.open[s], v))
    BY <1>4, <1>5, <1>7, <2>1, <2>2
  <2>4. /\ u \in WriterRec /\ ~u.over /\ ~u.broken /\ ~u.flow.over /\ u.last = "chunk"
        /\ u.carried[s] = Append(w.carried[s], v)
        /\ \A r \in Streams \ {s} : u.carried[r] = w.carried[r]
        /\ u.flow.ended = w.flow.ended
        /\ DOMAIN u.flow.open = DOMAIN w.flow.open /\ u.flow.open[s] = w.flow.open[s] + 1
        /\ \A r \in DOMAIN w.flow.open \ {s} : u.flow.open[r] = w.flow.open[r]
    <3>1. ChunkTaken(w, u, s, v)
      BY <2>3, SentChunk
    <3> QED
      BY <3>1 DEF ChunkTaken
  <2> QED
    BY <2>2, <2>4
<1>12. \A r \in Streams \ {s} : Untouched(r)
  BY <1>1, <1>9, <1>10 DEF Untouched
<1>13. Own' => Own
  BY <1>1 DEF Own
<1>14. ASSUME NEW r \in Streams \ {s} PROVE StreamSound(r)'
  <2>1. StreamSound(r) /\ Untouched(r)
    BY <1>12 DEF ResponseInv, ResponseSound
  <2>2. WireKept(r)
    BY <1>11 DEF WireKept
  <2> QED
    BY <1>5, <1>13, <2>1, <2>2, Undisturbed
<1>15. StreamSound(s)'
  <2>1. Kept(s)'
    BY <1>1, <1>6, <1>9, <1>10 DEF Kept
  <2>2. Lawful(s)'
    BY <1>6, <1>7, <1>9, <1>11 DEF Lawful, OnWire
  <2>3. ASSUME Own' PROVE Whole(s)'
    <3>1. Line(s) = UpTo(written[s]) /\ Whole(s)
      BY <1>5, <1>13, <2>3, WholeLine DEF ResponseInv, ResponseSound, StreamSound
    <3>2. PICK a \in Seq(Nat), c \in Seq(Nat) : a = writer.carried[s] /\ c = stream[s].buffer
      BY LineTyped
    <3>3. (a \o b) \o c = UpTo(written[s])
      BY <1>8, <3>1, <3>2 DEF Line
    <3>4. (Append(a, v) \o Tail(b)) \o c = UpTo(written[s])
      BY <1>8, <3>3, UnitMoves
    <3>5. (writer'.carried[s] \o task'[s].units) \o stream'[s].buffer = [i \in 1..written'[s] |-> i]
      BY <1>1, <1>9, <1>10, <1>11, <3>2, <3>4 DEF UpTo
    <3>6. gate'[s] # "closed"
      BY <1>1, <3>1 DEF Whole
    <3> QED
      BY <1>10, <3>5, <3>6 DEF Whole
  <2> QED
    BY <2>1, <2>2, <2>3 DEF StreamSound
<1>16. ResponseTyping'
  BY <1>1, <1>9, <1>10, <1>11 DEF ResponseInv, ResponseTyping, StreamMap, TaskMap
<1>17. Course'
  BY <1>1, <1>4, <1>11, CourseStays
<1>18. Closed'
  BY <1>11, NotClosed
<1>19. \A r \in Streams : InLeft(r)' \/ Settled(r)'
  <2>1. InLeft(s)' \/ Settled(s)'
    BY <1>1, <1>5, <1>9, LeftKept
  <2> QED
    BY <1>1, <1>5, <1>12, <2>1, LeftStays
<1> QED
  BY <1>14, <1>15, <1>16, <1>17, <1>18, <1>19, Together

LEMMA SendStreamEndSound == ASSUME ResponseInv, NEW s \in Streams, SendStreamEnd(s) PROVE ResponseInv'
<1>1. /\ task[s].busy /\ task[s].units = <<>> /\ task[s].closing
      /\ task' = [task EXCEPT ![s] = Idle]
      /\ UNCHANGED << stream, written, gate, phase, left, claim, cancel >>
  BY DEF SendStreamEnd
<1>2. PICK t : /\ writer' = Sent(writer, t)
             /\ t.type = "end" /\ t.stream = s /\ t.count = stream[s].chunks
  <2>1. PICK t : t = [type |-> "end", stream |-> s, counted |-> ~stream[s].unbounded,
                      count |-> stream[s].chunks]
    OBVIOUS
  <2>2. writer' = Sent(writer, t)
    BY <2>1 DEF SendStreamEnd
  <2> QED
    BY <2>1, <2>2
<1>3. phase \in {"performing", "finishing"} /\ ~writer.over /\ ~writer.flow.over
  BY <1>1, BusyInTime
<1>4. Kept(s) /\ stream[s].mode # "none" /\ stream[s].closed
  BY <1>1 DEF ResponseInv, ResponseSound, StreamSound, Kept
<1>5. /\ task' \in TaskMap /\ \A r \in Streams \ {s} : task'[r] = task[r]
      /\ ~task'[s].busy /\ task'[s].units = <<>>
  BY <1>1, LineTyped, CallEnds
<1>6. \A r \in Streams \ {s} : Untouched(r)
  BY <1>1, <1>5 DEF Untouched
<1>7. Own' => Own
  BY <1>1 DEF Own
<1>8. Kept(s)'
  BY <1>1, <1>4, <1>5 DEF Kept
<1>9. /\ writer' \in WriterRec /\ ~writer'.over /\ ~writer'.flow.over /\ writer'.last # "fin"
      /\ writer'.broken <=> writer.broken
      /\ \A r \in Streams : StreamSound(r)'
  <2>1. CASE writer.broken
    <3>1. writer' = writer
      BY <1>2, <2>1 DEF Sent
    <3>2. \A r \in Streams \ {s} : StreamSound(r)'
      BY <1>6, <1>7, <3>1, OthersUndisturbed
    <3>3. StreamSound(s)'
      <4>1. ~Live'
        BY <2>1, <3>1 DEF Live
      <4>2. Own' => Whole(s)'
        BY <1>1, <1>7, <4>1 DEF ResponseInv, ResponseSound, StreamSound, Whole
      <4> QED
        BY <1>8, <4>1, <4>2 DEF StreamSound
    <3> QED
      BY <1>3, <3>1, <3>2, <3>3, OpenIsUnended DEF ResponseInv, ResponseTyping
  <2>2. CASE ~writer.broken
    <3>1. Live
      BY <1>3, <2>2 DEF Live
    <3>2. s \in DOMAIN writer.flow.open /\ stream[s].chunks = writer.flow.open[s]
      BY <1>1, <1>4, <3>1 DEF ResponseInv, ResponseSound, StreamSound, Lawful, OnWire
    <3>3. /\ writer' \in WriterRec /\ ~writer'.over /\ ~writer'.broken /\ ~writer'.flow.over /\ writer'.last = "end"
          /\ writer'.carried = writer.carried
          /\ writer'.flow.ended = writer.flow.ended \cup {s}
          /\ DOMAIN writer'.flow.open = DOMAIN writer.flow.open \ {s}
          /\ \A r \in DOMAIN writer.flow.open \ {s} : writer'.flow.open[r] = writer.flow.open[r]
      <4>1. writer' = Sent(writer, t) /\ t.count = writer.flow.open[s] /\ writer \in WriterRec
        BY <1>2, <3>2 DEF ResponseInv, ResponseTyping
      <4> QED
        BY <1>2, <1>3, <2>2, <3>2, <4>1, SentEnd
    <3>4. ASSUME NEW r \in Streams \ {s} PROVE StreamSound(r)'
      <4>1. StreamSound(r) /\ Untouched(r)
        BY <1>6 DEF ResponseInv, ResponseSound
      <4>2. WireKept(r)
        BY <3>3 DEF WireKept
      <4> QED
        BY <1>7, <3>1, <4>1, <4>2, Undisturbed
    <3>5. Lawful(s)'
      BY <1>1, <1>4, <1>5, <3>3 DEF Lawful, OnWire
    <3>6. ASSUME Own' PROVE Whole(s)'
      <4>1. Line(s) = UpTo(written[s]) /\ Whole(s)
        BY <1>7, <3>1, <3>6, WholeLine DEF ResponseInv, ResponseSound, StreamSound
      <4>2. (writer'.carried[s] \o task'[s].units) \o stream'[s].buffer = [i \in 1..written'[s] |-> i]
        BY <1>1, <1>5, <3>3, <4>1 DEF Line, UpTo
      <4>3. s \in writer'.flow.ended /\ s \notin DOMAIN writer'.flow.open /\ gate'[s] # "closed"
        BY <1>1, <3>3, <4>1 DEF Whole
      <4> QED
        BY <4>2, <4>3 DEF Whole, OnWire
    <3>7. StreamSound(s)'
      BY <1>8, <3>5, <3>6 DEF StreamSound
    <3> QED
      BY <2>2, <3>3, <3>4, <3>7
  <2> QED
    BY <2>1, <2>2
<1>10. ResponseTyping'
  BY <1>1, <1>5, <1>9 DEF ResponseInv, ResponseTyping, TaskMap
<1>11. Course'
  BY <1>1, <1>3, <1>9, CourseStays
<1>12. Closed'
  BY <1>9, NotClosed
<1>13. \A r \in Streams : InLeft(r)' \/ Settled(r)'
  BY <1>1, <1>9, AllSettled
<1> QED
  BY <1>9, <1>10, <1>11, <1>12, <1>13, Together

\* The outputs but the first.
LEMMA FirstAndRest ==
  ASSUME left \in Seq(Streams), left # <<>>, NEW s, s = Head(left), left' = Tail(left),
         NEW r \in Streams, InLeft(r)
  PROVE  r = s \/ InLeft(r)'
<1>1. PICK i \in 1..Len(left) : left[i] = r
  BY DEF InLeft
<1>2. CASE i = 1
  BY <1>1, <1>2
<1>3. CASE i # 1
  <2>1. i - 1 \in 1..Len(Tail(left)) /\ Tail(left)[i - 1] = left[i]
    BY <1>3
  <2> QED
    BY <1>1, <2>1 DEF InLeft
<1> QED
  BY <1>2, <1>3

LEMMA FinishOutputSound == ASSUME Orderly, ResponseInv, FinishOutput PROVE ResponseInv'
<1>1. /\ phase = "finishing" /\ AllIdle /\ left # <<>>
      /\ UNCHANGED << written, phase, claim, cancel >>
  BY DEF FinishOutput
<1>2. PICK s \in Streams : s = Head(left)
  BY <1>1 DEF ResponseInv, ResponseTyping
<1>3. left \in Seq(Streams) /\ Tail(left) \in Seq(Streams)
  BY <1>1 DEF ResponseInv, ResponseTyping
<1>4. ~writer.over /\ ~writer.flow.over /\ ~task[s].busy /\ (Own' => Own)
  BY <1>1, <1>2 DEF ResponseInv, ResponseSound, Course, AllIdle, Own
<1>5. CASE /\ stream[s].mode = "none"
           /\ \E m \in {"write", "sequence"} : Started(s, m, FALSE)
           /\ left' = IF Throws(writer) THEN Tail(left) ELSE left
           /\ UNCHANGED task
  <2>1. \E m \in {"write", "sequence"}, b \in BOOLEAN : Started(s, m, b)
    BY <1>5
  <2>2. /\ stream' \in StreamMap /\ gate' \in [Streams -> {"unregistered", "open", "closed"}]
        /\ writer' \in WriterRec /\ ~writer'.over /\ ~writer'.flow.over /\ writer'.last # "fin"
        /\ writer'.broken <=> writer.broken
        /\ \A r \in Streams \ {s} : Untouched(r)
        /\ \A r \in Streams : StreamSound(r)'
    BY <1>1, <1>4, <1>5, <2>1, StartedSound
  <2>3. ResponseTyping'
    BY <1>1, <1>3, <1>5, <2>2 DEF ResponseInv, ResponseTyping, StreamMap
  <2>4. Course'
    BY <1>1, <1>5, <2>2 DEF ResponseInv, ResponseSound, Course
  <2>5. Closed'
    BY <2>2, NotClosed
  <2>6. \A r \in Streams : InLeft(r)' \/ Settled(r)'
    <3>1. CASE writer.broken
      BY <2>2, <3>1 DEF Settled
    <3>2. CASE ~writer.broken
      <4>1. UNCHANGED left
        BY <1>5, <3>2 DEF Throws
      <4>2. InLeft(s)'
        <5>1. 1 \in 1..Len(left) /\ left[1] = s
          BY <1>1, <1>2, <1>3
        <5> QED
          BY <4>1, <5>1 DEF InLeft
      <4> QED
        BY <2>2, <4>1, <4>2, LeftStays
    <3> QED
      BY <3>1, <3>2
  <2> QED
    BY <2>2, <2>3, <2>4, <2>5, <2>6, Together
<1>6. CASE /\ left' = Tail(left) /\ UNCHANGED << gate, writer >>
           /\ \/ /\ stream[s].mode = "none" /\ s \notin Required /\ UNCHANGED << stream, task >>
              \/ /\ stream[s].mode # "none" /\ stream[s].closed /\ UNCHANGED << stream, task >>
              \/ stream[s].mode # "none" /\ Closing(s)
  <2>1. /\ stream' \in StreamMap /\ task' \in TaskMap /\ written' \in [Streams -> Nat]
        /\ \A r \in Streams \ {s} : Untouched(r)
        /\ Settled(s)' /\ StreamSound(s)'
    <3>1. CASE /\ UNCHANGED << stream, task >>
               /\ \/ stream[s].mode = "none" /\ s \notin Required
                  \/ stream[s].mode # "none" /\ stream[s].closed
      <4>1. Untouched(s) /\ StreamSound(s) /\ (Live' => Live) /\ WireKept(s)
        BY <1>1, <1>6, <3>1 DEF Untouched, Live, WireKept, ResponseInv, ResponseSound
      <4>2. StreamSound(s)'
        BY <1>4, <4>1, Undisturbed
      <4>3. \A r \in Streams \ {s} : Untouched(r)
        BY <1>1, <1>6, <3>1 DEF Untouched
      <4>6. Settled(s)'
        BY <3>1 DEF Settled
      <4>5. stream \in StreamMap /\ task \in TaskMap /\ written \in [Streams -> Nat]
        BY LineTyped DEF ResponseInv, ResponseTyping
      <4> QED
        BY <1>1, <3>1, <4>2, <4>3, <4>5, <4>6
    <3>2. CASE stream[s].mode # "none" /\ Closing(s)
      <4>1. UNCHANGED << written, gate, claim, writer >>
        BY <1>1, <1>6
      <4>2. /\ stream' \in StreamMap /\ task' \in TaskMap /\ written' \in [Streams -> Nat]
            /\ \A r \in Streams \ {s} : Untouched(r)
            /\ stream'[s].mode = stream[s].mode /\ stream'[s].closed
            /\ StreamSound(s)'
        BY <1>4, <3>2, <4>1, ClosingSound
      <4>3. Settled(s)'
        BY <3>2, <4>2 DEF Settled
      <4> QED
        BY <4>2, <4>3
    <3> QED
      BY <1>6, <3>1, <3>2, Zenon
  <2>2. ResponseTyping'
    BY <1>1, <1>3, <1>6, <2>1 DEF ResponseInv, ResponseTyping, StreamMap, TaskMap
  <2>3. Course'
    BY <1>1, <1>6 DEF ResponseInv, ResponseSound, Course
  <2>4. Closed'
    BY <1>4, <1>6, OpenIsUnended, NotClosed
  <2>5. \A r \in Streams : StreamSound(r)'
    BY <1>4, <1>6, <2>1, OthersUndisturbed
  <2>6. \A r \in Streams : InLeft(r)' \/ Settled(r)'
    <3>1. Settled(s)'
      BY <2>1
    <3>2. ASSUME NEW r \in Streams \ {s} PROVE InLeft(r)' \/ Settled(r)'
      <4>1. InLeft(r) => InLeft(r)'
        BY <1>1, <1>2, <1>3, <1>6, FirstAndRest
      <4>2. Settled(r) => Settled(r)'
        BY <1>6, <2>1, StaysSettled DEF Untouched
      <4> QED
        BY <4>1, <4>2 DEF ResponseInv, ResponseSound
    <3> QED
      BY <3>1, <3>2
  <2> QED
    BY <2>2, <2>3, <2>4, <2>5, <2>6, Together
<1> QED
  BY <1>2, <1>5, <1>6 DEF FinishOutput

-----------------------------------------------------------------------------
(* The response, from the start to the end.                                *)

LEMMA ResponseInit == ASSUME Orderly, Init PROVE ResponseInv
<1>1. Begun \in FlowRec
  <2>1. [s \in {} |-> 0] \in OpenRec
    BY DEF OpenRec
  <2> QED
    BY <2>1 DEF Begun, FlowRec
<1>2. <<>> \in Seq(Nat)
  OBVIOUS
<1>3. stream \in StreamMap /\ \A s \in Streams : stream[s].mode = "none" /\ stream[s].chunks = 0
        /\ ~stream[s].closed /\ stream[s].buffer = <<>>
  <2>1. PICK x : x = [mode |-> "none", unbounded |-> FALSE, chunks |-> 0, closed |-> FALSE, buffer |-> <<>>]
    OBVIOUS
  <2>2. x \in StreamRec /\ x.mode = "none" /\ x.chunks = 0 /\ ~x.closed /\ x.buffer = <<>>
    BY <1>2, <2>1 DEF StreamRec
  <2>3. stream = [s \in Streams |-> x]
    BY <2>1 DEF Init
  <2> QED
    BY <2>2, <2>3 DEF StreamMap
<1>4. task \in TaskMap /\ \A s \in Streams : ~task[s].busy /\ task[s].units = <<>>
  <2>1. Idle \in TaskRec /\ ~Idle.busy /\ Idle.units = <<>>
    BY DEF Idle, TaskRec
  <2> QED
    BY <2>1 DEF Init, TaskMap
<1>5. writer \in WriterRec /\ ~writer.over /\ ~writer.broken /\ writer.flow = Begun
      /\ writer.last = "none" /\ \A s \in Streams : writer.carried[s] = <<>>
  BY <1>1, <1>2 DEF Init, WriterRec, LastTypes
<1>6. ResponseTyping
  BY <1>3, <1>4, <1>5 DEF Init, ResponseTyping, StreamMap, TaskMap, Phases, Orderly
<1>7. Course
  BY <1>4, <1>5 DEF Init, Course, AllIdle, Begun
<1>8. Closed
  BY <1>5 DEF Closed
<1>9. ASSUME NEW s \in Streams PROVE StreamSound(s) /\ InLeft(s)
  <2>1. DOMAIN writer.flow.open = {} /\ writer.flow.ended = {}
    BY <1>5 DEF Begun
  <2>2. Kept(s)
    BY <1>3, <1>4 DEF Kept, Init
  <2>3. Lawful(s)
    BY <1>3, <2>1 DEF Lawful, OnWire
  <2>4. Whole(s)
    <3>1. (writer.carried[s] \o task[s].units) \o stream[s].buffer = <<>>
      BY <1>3, <1>4, <1>5
    <3>2. [i \in 1..written[s] |-> i] = <<>>
      BY DEF Init
    <3> QED
      BY <1>3, <3>1, <3>2 DEF Whole, Init
  <2>5. InLeft(s)
    BY DEF Orderly, Streams, Range, InLeft, Init
  <2> QED
    BY <2>2, <2>3, <2>4, <2>5 DEF StreamSound
<1> QED
  BY <1>6, <1>7, <1>8, <1>9 DEF ResponseInv, ResponseSound

\* Every step of the handler, of a stream's task, of the wire and of the main loop.
LEMMA ResponseStep == ASSUME Orderly, ResponseInv, [Next]_vars PROVE ResponseInv'
<1>1. CASE UNCHANGED vars
  <2>1. /\ UNCHANGED << stream, task, written, gate, phase, left, claim, cancel, writer >>
    BY <1>1 DEF vars
  <2>2. ResponseTyping' /\ Course' /\ Closed'
    BY <2>1 DEF ResponseInv, ResponseTyping, ResponseSound, Course, Closed, AllIdle
  <2>3. \A r \in Streams : StreamSound(r)'
    <3>1. (Own' => Own) /\ (Live' => Live)
      BY <2>1 DEF Own, Live
    <3> QED
      BY <2>1, <3>1, AllUndisturbed
  <2>4. \A r \in Streams : InLeft(r)' \/ Settled(r)'
    BY <2>1, AllSettled
  <2> QED
    BY <2>2, <2>3, <2>4, Together
<1>2. CASE Break
  BY <1>2, BreakSound
<1>3. CASE Progress
  BY <1>3, ProgressSound
<1>4. ASSUME NEW s \in Streams,
             \/ Start(s) \/ Write(s) \/ EmitCbor(s) \/ EmitListItem(s)
             \/ Flush(s) \/ Close(s)
             \/ SendChunk(s) \/ SendStreamEnd(s) \/ Returned(s) \/ Fail(s)
      PROVE  ResponseInv'
  BY <1>4, StartSound, WriteSound, EmitListItemSound, FlushSound, CloseSound, SendChunkSound,
     SendStreamEndSound, ReturnedSound, FailSound
<1>5. CASE Perform \/ Finished \/ ClaimForHandler \/ ClaimForCancel \/ Rest
  BY <1>5, ThreadSound
<1>6. CASE FinishOutput
  BY <1>6, FinishOutputSound
<1>7. CASE SendTerminal
  BY <1>7, SendTerminalSound
<1>8. CASE CloseGates
  BY <1>8, CloseGatesSound
<1>9. CASE HandlerDone
  BY <1>9, HandlerDoneSound
<1> QED
  BY <1>1, <1>2, <1>3, <1>4, <1>5, <1>6, <1>7, <1>8, <1>9 DEF Next

\* A wire that ends with END carries the whole response, however the handler's
\* tasks, a cancel and the loss of the connection come together
\* (CartridgeRuntime.swift, OutputStream and dispatchOp).
THEOREM EndIsWhole == ASSUME Orderly PROVE Spec => []EndedWhole
<1>1. ResponseInv => EndedWhole
  BY DEF ResponseInv, ResponseSound, Closed, EndedWhole
<1> QED
  BY <1>1, ResponseInit, ResponseStep, PTL DEF Spec

-----------------------------------------------------------------------------
(* The wire carries a flow that the recognizer accepts.                    *)

\* The instance of Emission judges frames by the same rules.
LEMMA SameJudge ==
  ASSUME NEW f, NEW e
  PROVE  (Emitted!Accepts(f, e) <=> Accepts(f, e)) /\ Emitted!After(f, e) = After(f, e)
<1>1. Emitted!Accepts(f, e) <=> Accepts(f, e)
  BY DEF Emitted!Accepts, Accepts, Emitted!IsOpen, IsOpen
<1>2. Emitted!After(f, e) = After(f, e)
  BY DEF Emitted!After, After
<1> QED
  BY <1>1, <1>2

\* A frame accepted and written is a step of the specification.
LEMMA FrameEmitted ==
  ASSUME NEW e, Accepts(writer.flow, e), writer'.flow = After(writer.flow, e)
  PROVE  Emitted!Emit(e)
BY SameJudge DEF Emitted!Emit

\* The wire's flow stays, or goes a step of Emission.
Emits == writer'.flow = writer.flow \/ Emitted!Next

LEMMA StartEmits ==
  ASSUME ResponseInv, NEW s \in Streams, \E m \in {"write", "sequence"}, b \in BOOLEAN : Started(s, m, b), ~writer.over
  PROVE  Emits
<1>1. writer' = Sent(writer, StartFrame(s)) /\ stream[s].mode = "none"
  BY DEF Started, StartFrame
<1>2. writer \in WriterRec /\ ~writer.flow.over
  BY DEF ResponseInv, ResponseTyping, ResponseSound, Course
<1>3. CASE writer.broken
  <2>1. writer' = writer
    BY <1>1, <1>3 DEF Sent
  <2> QED
    BY <2>1 DEF Emits
<1>4. CASE ~writer.broken
  <2>1. s \notin DOMAIN writer.flow.open /\ s \notin writer.flow.ended
    BY <1>1, <1>4 DEF ResponseInv, ResponseSound, StreamSound, Lawful, OnWire, Live
  <2>2. Accepts(writer.flow, StartFrame(s)) /\ writer'.flow = After(writer.flow, StartFrame(s))
    BY <1>1, <1>2, <1>4, <2>1, SentStart
  <2>3. Emitted!Emit([type |-> "start", stream |-> s])
    BY <2>2, FrameEmitted DEF StartFrame
  <2> QED
    BY <2>3 DEF Emits, Emitted!Next
<1> QED
  BY <1>3, <1>4

LEMMA ChunkEmits == ASSUME ResponseInv, NEW s \in Streams, SendChunk(s) PROVE Emits
<1>1. /\ task[s].busy /\ task[s].units # <<>> /\ ~Throws(writer)
      /\ writer' = Sent(writer, ChunkFrame(s, stream[s].chunks, Head(task[s].units)))
  BY DEF SendChunk, ChunkFrame
<1>2. ~writer.over /\ ~writer.flow.over /\ writer \in WriterRec
  BY <1>1, BusyInTime DEF ResponseInv, ResponseTyping
<1>3. Live /\ ~writer.broken
  BY <1>1, <1>2 DEF Throws, Live
<1>4. s \in DOMAIN writer.flow.open /\ stream[s].chunks = writer.flow.open[s]
  BY <1>1, <1>3 DEF ResponseInv, ResponseSound, StreamSound, Kept, Lawful, OnWire
<1>5. PICK b \in Seq(Nat), v \in Nat : b = task[s].units /\ v = Head(b)
  BY <1>1, LineTyped
<1>6. writer' = Sent(writer, ChunkFrame(s, writer.flow.open[s], v))
  BY <1>1, <1>4, <1>5
<1>7. /\ Accepts(writer.flow, ChunkFrame(s, writer.flow.open[s], v))
      /\ writer'.flow = After(writer.flow, ChunkFrame(s, writer.flow.open[s], v))
  <2>1. ChunkTaken(writer, writer', s, v)
    BY <1>2, <1>3, <1>4, <1>6, SentChunk
  <2> QED
    BY <2>1 DEF ChunkTaken
<1>8. PICK e : e = [type |-> "chunk", stream |-> s, index |-> writer.flow.open[s]]
  OBVIOUS
<1>9. Accepts(writer.flow, e) /\ writer'.flow = After(writer.flow, e)
  BY <1>7, <1>8 DEF Accepts, After, ChunkFrame, IsOpen
<1>10. Emitted!Emit([type |-> "chunk", stream |-> s, index |-> writer.flow.open[s]])
  BY <1>8, <1>9, FrameEmitted
<1> QED
  BY <1>4, <1>10 DEF Emits, Emitted!Next

LEMMA EndEmits == ASSUME ResponseInv, NEW s \in Streams, SendStreamEnd(s) PROVE Emits
<1>1. task[s].busy
  BY DEF SendStreamEnd
<1>2. ~writer.over /\ ~writer.flow.over /\ writer \in WriterRec
  BY <1>1, BusyInTime DEF ResponseInv, ResponseTyping
<1>3. PICK k \in BOOLEAN : k = ~stream[s].unbounded
  OBVIOUS
<1>4. PICK e : e = [type |-> "end", stream |-> s, counted |-> k, count |-> stream[s].chunks]
  OBVIOUS
<1>5. writer' = Sent(writer, e) /\ e.type = "end" /\ e.stream = s /\ e.count = stream[s].chunks
  BY <1>3, <1>4, Zenon DEF SendStreamEnd
<1>6. CASE writer.broken
  <2>1. writer' = writer
    BY <1>5, <1>6 DEF Sent
  <2> QED
    BY <2>1 DEF Emits
<1>7. CASE ~writer.broken
  <2>1. s \in DOMAIN writer.flow.open /\ stream[s].chunks = writer.flow.open[s]
    BY <1>1, <1>2, <1>7 DEF ResponseInv, ResponseSound, StreamSound, Kept, Lawful, OnWire, Live
  <2>2. e.count = writer.flow.open[s]
    BY <1>5, <2>1
  <2>3. Accepts(writer.flow, e) /\ writer'.flow = After(writer.flow, e)
    BY <1>2, <1>5, <1>7, <2>1, <2>2, SentEnd
  <2>4. Emitted!Emit(e)
    BY <2>3, FrameEmitted
  <2>5. Emitted!Emit([type |-> "end", stream |-> s, counted |-> k, count |-> writer.flow.open[s]])
    BY <1>4, <2>1, <2>4, Zenon
  <2> QED
    BY <2>1, <2>5, Zenon DEF Emits, Emitted!Next
<1> QED
  BY <1>6, <1>7

\* A frame of no stream; END when the handler has finished.
LEMMA PlainEmits ==
  ASSUME ResponseInv, NEW t \in {"fin", "err", "other"}, writer' = Sent(writer, [type |-> t]),
         t = "fin" => phase = "ending"
  PROVE  Emits
<1>1. CASE writer.over \/ writer.broken
  <2>1. writer' = writer
    BY <1>1 DEF Sent
  <2> QED
    BY <2>1 DEF Emits
<1>2. CASE ~writer.over /\ ~writer.broken
  <2>1. writer \in WriterRec /\ ~writer.flow.over
    BY <1>2 DEF ResponseInv, ResponseTyping, ResponseSound, Course
  <2>2. t = "fin" => DOMAIN writer.flow.open = {}
    BY <1>2, WholeAtTheEnd
  <2>3. Accepts(writer.flow, [type |-> t]) /\ writer'.flow = After(writer.flow, [type |-> t])
    BY <1>2, <2>1, <2>2, SentPlain
  <2>4. Emitted!Emit([type |-> t])
    BY <2>3, FrameEmitted
  <2> QED
    BY <2>4 DEF Emits, Emitted!Next
<1> QED
  BY <1>1, <1>2

\* Every step writes one frame the flow allows, or none.
LEMMA StepEmits == ASSUME ResponseInv, [Next]_vars PROVE [Emitted!Next]_(writer.flow)
<1>1. CASE UNCHANGED writer
  BY <1>1
<1>2. CASE Break
  <2>1. writer'.flow = writer.flow
    BY <1>2, Zenon DEF Break, ResponseInv, ResponseTyping, WriterRec
  <2> QED
    BY <2>1
<1>3. CASE Progress
  <2>1. writer' = Sent(writer, [type |-> "other"])
    BY <1>3 DEF Progress
  <2>2. Emits
    BY <2>1, PlainEmits
  <2> QED
    BY <2>2 DEF Emits
<1>4. CASE SendTerminal
  <2>1. PICK t \in {"fin", "err"} : t = IF phase = "ending" THEN "fin" ELSE "err"
    OBVIOUS
  <2>2. writer' = Sent(writer, [type |-> t]) /\ (t = "fin" => phase = "ending")
    BY <1>4, <2>1 DEF SendTerminal
  <2>3. Emits
    BY <2>2, PlainEmits
  <2> QED
    BY <2>3 DEF Emits
<1>5. CASE HandlerDone /\ claim = "cancel"
  <2>1. writer' = Sent(writer, [type |-> "err"])
    BY <1>5 DEF HandlerDone
  <2>2. Emits
    BY <2>1, PlainEmits
  <2> QED
    BY <2>2 DEF Emits
<1>6. ASSUME NEW s \in Streams, Start(s) \/ SendChunk(s) \/ SendStreamEnd(s) PROVE Emits
  <2>1. CASE Start(s)
    <3>1. \E m \in {"write", "sequence"}, b \in BOOLEAN : Started(s, m, b)
      BY <2>1 DEF Start
    <3>2. ~writer.over
      BY <2>1 DEF Start, ResponseInv, ResponseSound, Course
    <3> QED
      BY <3>1, <3>2, StartEmits
  <2> QED
    BY <1>6, <2>1, ChunkEmits, EndEmits
<1>7. ASSUME FinishOutput PROVE Emits
  <2>1. PICK s \in Streams : s = Head(left)
    BY <1>7 DEF FinishOutput, ResponseInv, ResponseTyping
  <2>2. CASE \E m \in {"write", "sequence"} : Started(s, m, FALSE)
    <3>1. \E m \in {"write", "sequence"}, b \in BOOLEAN : Started(s, m, b)
      BY <2>2
    <3>2. ~writer.over
      BY <1>7 DEF FinishOutput, ResponseInv, ResponseSound, Course
    <3> QED
      BY <3>1, <3>2, StartEmits
  <2>3. CASE UNCHANGED writer
    BY <2>3 DEF Emits
  <2> QED
    BY <1>7, <2>1, <2>2, <2>3 DEF FinishOutput
<1>8. \/ UNCHANGED writer \/ Break \/ Progress \/ SendTerminal
      \/ HandlerDone /\ claim = "cancel"
      \/ \E s \in Streams : Start(s) \/ SendChunk(s) \/ SendStreamEnd(s)
      \/ FinishOutput
  BY DEF Next, vars, Write, EmitCbor, EmitListItem, Flush, Close, Returned, Fail, Perform, Finished,
         ClaimForHandler, ClaimForCancel, CloseGates, HandlerDone, Rest
<1> QED
  BY <1>1, <1>2, <1>3, <1>4, <1>5, <1>6, <1>7, <1>8 DEF Emits

\* What the writer's frames make, from whichever task, the handler or the main
\* loop they come, is a flow of Emission: started once, numbered from zero, ended
\* with its count, END when all is ended and nothing after it.
THEOREM ResponseEmitted == ASSUME Orderly PROVE Spec => ImplementsEmission
<1>1. Init => Emitted!Init
  BY DEF Init, Emitted!Init, Begun, Emitted!Begun
<1>2. ResponseInv /\ [Next]_vars => [Emitted!Next]_(writer.flow)
  BY StepEmits
<1> QED
  BY <1>1, <1>2, ResponseInit, ResponseStep, PTL DEF Spec, Emitted!Spec, ImplementsEmission
=============================================================================
