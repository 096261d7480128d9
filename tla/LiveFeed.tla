------------------------------ MODULE LiveFeed ------------------------------
(***************************************************************************)
(* One live input of one request (LiveFeed.swift), from the capture device *)
(* to the handler: the provider's capture thread pushes into a bounded     *)
(* ring under the feed's overrun policy, a feeder thread moves items from  *)
(* the ring to a bounded delivery queue, and the handler dequeues them.    *)
(* The demux opens the feed and only then registers its handle with the    *)
(* request; the main loop closes registered handles for a CloseStream, a   *)
(* cancel, and a handler that is done.                                     *)
(*                                                                         *)
(* Each action is one hold of FeedShared's condition, of the delivery      *)
(* queue's, or of the handles' lock.                                       *)
(***************************************************************************)
EXTENDS Naturals, Sequences, SequencesExt

CONSTANTS
    Selectors,   \* the selectors tried: [policy, maxItems (0: none), timed]
    RingCap,     \* capacity of the capture ring
    QueueCap,    \* DELIVERY_QUEUE_CAP
    MaxCaptures  \* bound: items the device has in it

ASSUME CapsAreReal == RingCap \in Nat \ {0} /\ QueueCap \in Nat \ {0}

ASSUME SelectorsAreRecords ==
    Selectors \subseteq [policy : {"drop-oldest", "fail"}, maxItems : Nat,
                         timed : BOOLEAN]

VARIABLES
    selector,   \* the selector the feed was opened with
    tap,        \* the demux: "unopened", "capturing", "opened", "registered"
    handles,    \* the runtime's record of the request's handles is there
    producer,   \* the capture thread: "off", "capturing", "finishing"
    shared,     \* FeedShared: ring, captured, dropped, failure, producerDone, closed
    late,       \* the duration's deadline has passed
    feeder,     \* the feeder: where it is and the entry in its hands
    delivery,   \* the delivery queue: its entries and whether it is finished
    consumer,   \* the handler: "reading", "ended", "leaving", "gone"
    received    \* history: the entries the handler took

feedVars == << selector, tap, handles, producer, shared, late, feeder, delivery,
           consumer, received >>

Entry == [seq : Nat, gap : Nat, error : BOOLEAN]
Overrun == [seq |-> 0, gap |-> 0, error |-> TRUE]

(* The feeder with nothing in its hands.                                   *)
IdleAt(at) == [at |-> at, entry |-> Overrun]

FeedTypeOK ==
    /\ selector \in Selectors
    /\ tap \in {"unopened", "capturing", "opened", "registered"}
    /\ handles \in BOOLEAN
    /\ producer \in {"off", "capturing", "finishing"}
    /\ shared \in [ring : Seq(Nat), captured : Nat, dropped : Nat,
                   failure : BOOLEAN, producerDone : BOOLEAN, closed : BOOLEAN]
    /\ late \in BOOLEAN
    /\ feeder \in [at : {"unborn", "looping", "taking", "pushing", "failing",
                         "finishing", "ended"}, entry : Entry]
    /\ delivery \in [queue : Seq(Entry), finished : BOOLEAN]
    /\ consumer \in {"reading", "ended", "leaving", "gone"}
    /\ received \in Seq(Entry)

FeedInit ==
    /\ selector \in Selectors
    /\ tap = "unopened"
    /\ handles = TRUE
    /\ producer = "off"
    /\ shared = [ring |-> << >>, captured |-> 0, dropped |-> 0,
                 failure |-> FALSE, producerDone |-> FALSE, closed |-> FALSE]
    /\ late = FALSE
    /\ feeder = IdleAt("unborn")
    /\ delivery = [queue |-> << >>, finished |-> FALSE]
    /\ consumer = "reading"
    /\ received = << >>

-----------------------------------------------------------------------------
(* The demux                                                               *)

(* openFeed's provider.open: the device starts before anyone can stop it.  *)
OpenDevice ==
    /\ tap = "unopened"
    /\ tap' = "capturing"
    /\ producer' = "capturing"
    /\ UNCHANGED << selector, handles, shared, late, feeder, delivery,
                    consumer, received >>

(* The rest of openFeed: the delivery queue and its feeder thread.         *)
StartFeeder ==
    /\ tap = "capturing"
    /\ tap' = "opened"
    /\ feeder' = IdleAt("looping")
    /\ UNCHANGED << selector, handles, producer, shared, late, delivery,
                    consumer, received >>

(* resolve binds the handle and adds it to the request's handles, which    *)
(* the main loop may have dropped meanwhile.                               *)
Register ==
    /\ tap = "opened"
    /\ tap' = "registered"
    /\ UNCHANGED << selector, handles, producer, shared, late, feeder,
                    delivery, consumer, received >>

-----------------------------------------------------------------------------
(* The capture thread                                                      *)

(* Mutated: an eviction is not counted.                                    *)
AppendedUncounted(s) ==
    IF Len(s.ring) < RingCap
    THEN [s EXCEPT !.ring = Append(@, s.captured), !.captured = @ + 1]
    ELSE [s EXCEPT !.ring = Append(Tail(@), s.captured), !.captured = @ + 1]

(* FeedShared.push on a ring with room, or one that evicts its oldest.     *)
Appended(s) ==
    IF Len(s.ring) < RingCap
    THEN [s EXCEPT !.ring = Append(@, s.captured), !.captured = @ + 1]
    ELSE [s EXCEPT !.ring = Append(Tail(@), s.captured),
                   !.captured = @ + 1, !.dropped = @ + 1]

(* FeedShared.push: a closed feed takes nothing; a full ring under `fail`  *)
(* loses the item and ends the feed.                                       *)
Pushed(s) ==
    IF s.closed THEN s
    ELSE IF Len(s.ring) >= RingCap /\ selector.policy = "fail"
    THEN [s EXCEPT !.captured = @ + 1, !.failure = TRUE, !.closed = TRUE]
    ELSE Appended(s)

(* Mutated: a push to a closed feed does not stop the capture.             *)
CaptureRegardless ==
    /\ producer = "capturing"
    /\ shared.closed \/ shared.captured < MaxCaptures
    /\ shared' = Pushed(shared)
    /\ producer' = IF selector.maxItems # 0 /\ shared'.captured >= selector.maxItems
                   THEN "finishing" ELSE "capturing"
    /\ UNCHANGED << selector, tap, handles, late, feeder, delivery, consumer,
                    received >>

(* LiveFeedSink.push: FALSE once the feed is closed or maxItems captured.  *)
Capture ==
    /\ producer = "capturing"
    /\ shared.closed \/ shared.captured < MaxCaptures
    /\ shared' = Pushed(shared)
    /\ producer' = IF \/ shared'.closed
                      \/ selector.maxItems # 0 /\ shared'.captured >= selector.maxItems
                   THEN "finishing" ELSE "capturing"
    /\ UNCHANGED << selector, tap, handles, late, feeder, delivery, consumer,
                    received >>

(* The device runs dry: the capture thread leaves its loop.                *)
DeviceEnds ==
    /\ producer = "capturing"
    /\ producer' = "finishing"
    /\ UNCHANGED << selector, tap, handles, shared, late, feeder, delivery,
                    consumer, received >>

(* finishProducer, on every way out of the capture loop.                   *)
FinishProducer ==
    /\ producer = "finishing"
    /\ producer' = "off"
    /\ shared' = [shared EXCEPT !.producerDone = TRUE]
    /\ UNCHANGED << selector, tap, handles, late, feeder, delivery, consumer,
                    received >>

-----------------------------------------------------------------------------
(* The feeder thread                                                       *)

Deadline ==
    /\ selector.timed /\ feeder.at # "unborn" /\ ~late
    /\ late' = TRUE
    /\ UNCHANGED << selector, tap, handles, producer, shared, feeder,
                    delivery, consumer, received >>

(* The top of the loop enforces the deadline.                              *)
Loop ==
    /\ feeder.at = "looping"
    /\ feeder' = IdleAt("taking")
    /\ shared' = IF late THEN [shared EXCEPT !.closed = TRUE] ELSE shared
    /\ UNCHANGED << selector, tap, handles, producer, late, delivery,
                    consumer, received >>

(* Mutated: a closed feed ends before its ring is drained.                 *)
TakeOutcomeClosedFirst(s) ==
    CASE s.failure -> "failed"
      [] ~s.failure /\ (s.producerDone \/ s.closed) -> "done"
      [] OTHER -> IF s.ring # << >> THEN "item" ELSE IF late THEN "done" ELSE "wait"

(* FeedShared.take: a failure goes before what the ring holds, and what    *)
(* the ring holds before the end.                                          *)
TakeOutcome(s) ==
    CASE s.failure -> "failed"
      [] ~s.failure /\ s.ring # << >> -> "item"
      [] ~s.failure /\ s.ring = << >> /\ (s.producerDone \/ s.closed \/ late) -> "done"
      [] OTHER -> "wait"

Take ==
    /\ feeder.at = "taking"
    /\ \/ /\ TakeOutcome(shared) = "failed"
          /\ shared' = [shared EXCEPT !.failure = FALSE]
          /\ feeder' = IdleAt("failing")
       \/ /\ TakeOutcome(shared) = "item"
          /\ shared' = [shared EXCEPT !.ring = Tail(@), !.dropped = 0]
          /\ feeder' = [at |-> "pushing",
                        entry |-> [seq |-> Head(shared.ring),
                                   gap |-> shared.dropped, error |-> FALSE]]
       \/ /\ TakeOutcome(shared) = "done"
          /\ shared' = IF shared.producerDone \/ shared.closed THEN shared
                       ELSE [shared EXCEPT !.closed = TRUE]
          /\ feeder' = IdleAt("finishing")
    /\ UNCHANGED << selector, tap, handles, producer, late, delivery,
                    consumer, received >>

(* BlockingQueue.push waits while the queue is full and not finished.      *)
CanPush == delivery.finished \/ Len(delivery.queue) < QueueCap

PushedTo(e) ==
    IF delivery.finished THEN delivery
    ELSE [delivery EXCEPT !.queue = Append(@, e)]

(* An item whose consumer has gone closes the tap and ends the feeder.     *)
PushItem ==
    /\ feeder.at = "pushing" /\ CanPush
    /\ delivery' = PushedTo(feeder.entry)
    /\ feeder' = IF delivery.finished THEN IdleAt("ended") ELSE IdleAt("looping")
    /\ shared' = IF delivery.finished THEN [shared EXCEPT !.closed = TRUE] ELSE shared
    /\ UNCHANGED << selector, tap, handles, producer, late, consumer, received >>

(* The overrun is the stream's last entry.                                 *)
PushFailure ==
    /\ feeder.at = "failing" /\ CanPush
    /\ delivery' = PushedTo(Overrun)
    /\ feeder' = IdleAt("finishing")
    /\ UNCHANGED << selector, tap, handles, producer, shared, late, consumer,
                    received >>

FinishDelivery ==
    /\ feeder.at = "finishing"
    /\ delivery' = [delivery EXCEPT !.finished = TRUE]
    /\ feeder' = IdleAt("ended")
    /\ UNCHANGED << selector, tap, handles, producer, shared, late, consumer,
                    received >>

-----------------------------------------------------------------------------
(* The handler                                                             *)

(* BlockingQueue.dequeue: what is queued first, then the end.              *)
Dequeue ==
    /\ consumer = "reading" /\ feeder.at # "unborn"
    /\ \/ /\ delivery.queue # << >>
          /\ received' = Append(received, Head(delivery.queue))
          /\ delivery' = [delivery EXCEPT !.queue = Tail(@)]
          /\ consumer' = consumer
       \/ /\ delivery.queue = << >> /\ delivery.finished
          /\ consumer' = "ended"
          /\ UNCHANGED << delivery, received >>
    /\ UNCHANGED << selector, tap, handles, producer, shared, late, feeder >>

(* The handler releases the stream: FeedReceiver's deinit finishes the     *)
(* delivery and then closes the tap.                                       *)
Release ==
    /\ consumer \in {"reading", "ended"} /\ tap = "registered"
    /\ consumer' = "leaving"
    /\ delivery' = [delivery EXCEPT !.finished = TRUE]
    /\ UNCHANGED << selector, tap, handles, producer, shared, late, feeder,
                    received >>

CloseReleased ==
    /\ consumer = "leaving"
    /\ consumer' = "gone"
    /\ shared' = [shared EXCEPT !.closed = TRUE]
    /\ UNCHANGED << selector, tap, handles, producer, late, feeder, delivery,
                    received >>

-----------------------------------------------------------------------------
(* The main loop                                                           *)

(* LiveFeedHandles.close, over what is registered by now.                  *)
CloseTaps(s) == IF tap = "registered" THEN [s EXCEPT !.closed = TRUE] ELSE s

(* A CloseStream closes the taps and leaves the request alone.             *)
CloseStream ==
    /\ handles
    /\ shared' = CloseTaps(shared)
    /\ UNCHANGED << selector, tap, handles, producer, late, feeder, delivery,
                    consumer, received >>

(* A cancel closes the taps and forgets them.                              *)
Cancel ==
    /\ handles
    /\ handles' = FALSE
    /\ shared' = CloseTaps(shared)
    /\ UNCHANGED << selector, tap, producer, late, feeder, delivery, consumer,
                    received >>

(* So does the handler that is done.                                       *)
FeedHandlerDone ==
    /\ handles /\ consumer = "gone"
    /\ handles' = FALSE
    /\ shared' = CloseTaps(shared)
    /\ UNCHANGED << selector, tap, producer, late, feeder, delivery, consumer,
                    received >>

Over == feeder.at = "ended" /\ producer = "off" /\ consumer \in {"ended", "gone"}

(* A feed that is over stays over.                                         *)
FeedRest == Over /\ UNCHANGED feedVars

FeedNext ==
    \/ OpenDevice \/ StartFeeder \/ Register
    \/ Capture \/ DeviceEnds \/ FinishProducer
    \/ Deadline \/ Loop \/ Take \/ PushItem \/ PushFailure \/ FinishDelivery
    \/ Dequeue \/ Release \/ CloseReleased
    \/ CloseStream \/ Cancel \/ FeedHandlerDone
    \/ FeedRest

FeedSpec == FeedInit /\ [][FeedNext]_feedVars

(* Threads run, the clock goes on, a device in use delivers, and a handler *)
(* reads its input or releases it. Nothing says a device ever runs dry, a  *)
(* handler leaves a stream that has not ended, or anyone closes a tap.     *)
FeedFairness ==
    /\ WF_feedVars(OpenDevice) /\ WF_feedVars(StartFeeder) /\ WF_feedVars(Register)
    /\ WF_feedVars(Capture) /\ WF_feedVars(FinishProducer)
    /\ WF_feedVars(Deadline) /\ WF_feedVars(Loop) /\ WF_feedVars(Take)
    /\ WF_feedVars(PushItem) /\ WF_feedVars(PushFailure) /\ WF_feedVars(FinishDelivery)
    /\ WF_feedVars(Dequeue) /\ WF_feedVars(CloseReleased)

FairFeedSpec == FeedSpec /\ FeedFairness

-----------------------------------------------------------------------------
(* Properties                                                              *)

(* What the handler has got and what is on its way to it.                  *)
Stream ==
    received \o delivery.queue \o
        (IF feeder.at = "pushing" THEN << feeder.entry >> ELSE << >>)

(* Every item's gap marker is exactly the number of items lost between it  *)
(* and the one before: an eviction while the feeder is blocked, or between *)
(* two takes, is announced once, on the right item. Nothing follows the    *)
(* overrun.                                                                *)
GapsAccounted ==
    \A i \in DOMAIN Stream :
        IF Stream[i].error THEN i = Len(Stream)
        ELSE Stream[i].seq =
                Stream[i].gap + (IF i = 1 THEN 0 ELSE Stream[i - 1].seq + 1)

(* A handler that reads its stream to a clean end has been told of every   *)
(* item that was captured, as an item or in a gap, and under `fail` of no  *)
(* gap: whatever closed the feed, and whenever, no loss ends as an end.    *)
LossSurfaced ==
    consumer = "ended" /\ (\A i \in DOMAIN received : ~received[i].error) =>
        /\ shared.captured = (IF received = << >> THEN 0 ELSE Last(received).seq + 1)
        /\ selector.policy = "fail" =>
              \A i \in DOMAIN received : received[i].gap = 0

(* A closed feed comes to its end: the capture stops, and the handler      *)
(* reaches the end of its stream unless it has left it.                    *)
ClosedFeedEnds == shared.closed ~> Over

(* What line 5991 of the runtime says a cancel does: no device keeps       *)
(* producing for a request that is ending. It does if the tap is           *)
(* registered after the cancel has closed the taps.                        *)
CancelStopsCapture == ~handles ~> (producer = "off")

=============================================================================
