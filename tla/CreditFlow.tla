----------------------------- MODULE CreditFlow -----------------------------
(***************************************************************************)
(* One credited stream end to end.  Writers emit items through an          *)
(* OutputStream, one credit per CHUNK; the receiver's demux accounts for   *)
(* every chunk and reassembles items; the handler iterates the items, and  *)
(* its consumption sends CREDIT frames back, which the sending runtime     *)
(* routes to the stream's gate.  The request may end at any moment.        *)
(*                                                                         *)
(* Five parties interleave: the writers, the demux thread, the handler     *)
(* thread, the runtime loop that routes CREDIT frames, and whoever ends    *)
(* the request.                                                            *)
(***************************************************************************)
EXTENDS Credit, Sequences, FiniteSets

CONSTANTS
  Writers,          \* the tasks that write the stream
  SenderWindow,     \* initial_credit the sending end negotiated on its link
  ReceiverWindow,   \* initial_credit the receiving end negotiated on its own
  ItemSizes,        \* how many CHUNK frames an item may be split over
  MaxItems          \* bound: items each writer emits

ASSUME WritersFinite == IsFiniteSet(Writers)
ASSUME WindowsPositive == /\ SenderWindow \in Nat \ {0}
                          /\ ReceiverWindow \in Nat \ {0}
ASSUME ItemSizesPositive == ItemSizes \subseteq Nat \ {0}
ASSUME MaxItemsNat == MaxItems \in Nat

VARIABLES
  gate,        \* the stream's CreditGate
  registered,  \* the CreditRouter still holds the gate
  closing,     \* closeRequest removed the gate and has yet to close it
  routing,     \* grant taken from a CREDIT frame, gate looked up, not yet applied
  writer,      \* where each writer stands
  left,        \* chunks left of the item each writer is emitting
  items,       \* items each writer has still to emit
  wire,        \* CHUNK frames in flight: "part" of an item, or its "last"
  window,      \* the receiver's CreditWindow
  chunk,       \* continuation chunk the demux is crediting back
  buf,         \* chunks held of the item being reassembled
  queue,       \* whole items the handler has yet to take
  handler,     \* where the handler's iteration stands
  due,         \* grant each granting thread computed and has yet to send
  credits,     \* CREDIT frames in flight, each as the total granted up to it
  granted,     \* total credit sent in CREDIT frames
  credited,    \* total credit taken off CREDIT frames
  violation    \* a CREDIT_VIOLATION was raised

sending   == <<gate, registered, closing, routing, writer, left, items>>
receiving == <<window, chunk, buf, queue, handler, due>>
vars == <<sending, receiving, wire, credits, granted, credited, violation>>

Grantors == {"demux", "handler"}

WriterStates ==
  {"idle", "asking", "parked", "woken", "asleep", "holding", "stopped"}

HandlerStates ==
  {"poll", "flush", "blocked", "item", "sendThenPoll", "sendThenBlock"}

Init ==
  /\ gate = GateOpened(SenderWindow)
  /\ registered = TRUE
  /\ closing = FALSE
  /\ routing = 0
  /\ writer = [w \in Writers |-> "idle"]
  /\ left = [w \in Writers |-> 0]
  /\ items = [w \in Writers |-> MaxItems]
  /\ wire = <<>>
  /\ window = WindowOpened(ReceiverWindow)
  /\ chunk = "none"
  /\ buf = 0
  /\ queue = 0
  /\ handler = "poll"
  /\ due = [g \in Grantors |-> 0]
  /\ credits = <<>>
  /\ granted = 0
  /\ credited = 0
  /\ violation = FALSE

-----------------------------------------------------------------------------
(* Writers: emitListItem / writeBatch, with CreditGate.acquire between.    *)

\* An item is encoded and split over n chunks.
StartItem(w, n) ==
  /\ writer[w] = "idle" /\ items[w] > 0
  /\ writer' = [writer EXCEPT ![w] = "asking"]
  /\ left' = [left EXCEPT ![w] = n]
  /\ items' = [items EXCEPT ![w] = @ - 1]
  /\ UNCHANGED <<gate, registered, closing, routing, receiving, wire,
                 credits, granted, credited, violation>>

Acquire(w) ==
  /\ writer[w] = "asking" /\ CanAcquire(gate, 1)
  /\ gate' = Acquired(gate, 1)
  /\ writer' = [writer EXCEPT ![w] = "holding"]
  /\ UNCHANGED <<registered, closing, routing, left, items, receiving, wire,
                 credits, granted, credited, violation>>

\* The check and the registration as a waiter are one lock hold.
Park(w) ==
  /\ writer[w] = "asking" /\ MustWait(gate, 1)
  /\ writer' = [writer EXCEPT ![w] = "parked"]
  /\ UNCHANGED <<gate, registered, closing, routing, left, items, receiving,
                 wire, credits, granted, credited, violation>>

\* A blocking writer sleeps between tries instead of registering.
Sleep(w) ==
  /\ writer[w] = "asking" /\ MustWait(gate, 1)
  /\ writer' = [writer EXCEPT ![w] = "asleep"]
  /\ UNCHANGED <<gate, registered, closing, routing, left, items, receiving,
                 wire, credits, granted, credited, violation>>

\* A closed gate fails the write: the producer stops.
Refused(w) ==
  /\ writer[w] = "asking" /\ gate.closed
  /\ writer' = [writer EXCEPT ![w] = "stopped"]
  /\ UNCHANGED <<gate, registered, closing, routing, left, items, receiving,
                 wire, credits, granted, credited, violation>>

AskAgain(w) ==
  /\ writer[w] \in {"woken", "asleep"}
  /\ writer' = [writer EXCEPT ![w] = "asking"]
  /\ UNCHANGED <<gate, registered, closing, routing, left, items, receiving,
                 wire, credits, granted, credited, violation>>

SendChunk(w) ==
  /\ writer[w] = "holding"
  /\ wire' = Append(wire, IF left[w] = 1 THEN "last" ELSE "part")
  /\ left' = [left EXCEPT ![w] = @ - 1]
  /\ writer' = [writer EXCEPT ![w] = IF left[w] = 1 THEN "idle" ELSE "asking"]
  /\ UNCHANGED <<gate, registered, closing, routing, items, receiving,
                 credits, granted, credited, violation>>

-----------------------------------------------------------------------------
(* The receiving demux.                                                    *)

\* A chunk beyond the window is an error of the stream, and is dropped.
\* One that opens an item is buffered or, being the whole of it, queued; one
\* that continues an item is first credited back.
ReceiveChunk ==
  /\ wire # <<>> /\ chunk = "none"
  /\ wire' = Tail(wire)
  /\ IF Violates(window)
     THEN /\ violation' = TRUE
          /\ UNCHANGED <<window, chunk, buf, queue>>
     ELSE /\ window' = Arrived(window)
          /\ UNCHANGED violation
          /\ IF buf = 0
             THEN /\ chunk' = chunk
                  /\ IF Head(wire) = "last"
                     THEN queue' = queue + 1 /\ buf' = buf
                     ELSE queue' = queue /\ buf' = 1
             ELSE chunk' = Head(wire) /\ UNCHANGED <<buf, queue>>
  /\ UNCHANGED <<sending, handler, due, credits, granted, credited>>

ContinueChunk ==
  /\ chunk # "none" /\ due["demux"] = 0
  /\ due' = [due EXCEPT !["demux"] = ContinueGrant(window)]
  /\ window' = Continued(window)
  /\ UNCHANGED <<sending, chunk, buf, queue, handler, wire, credits, granted,
                 credited, violation>>

\* The grant goes out, then the fragment joins the item, completing it or not.
BufferChunk ==
  /\ chunk # "none" /\ due["demux"] > 0
  /\ granted' = granted + due["demux"]
  /\ credits' = Append(credits, granted')
  /\ due' = [due EXCEPT !["demux"] = 0]
  /\ IF chunk = "last"
     THEN buf' = 0 /\ queue' = queue + 1
     ELSE buf' = buf + 1 /\ queue' = queue
  /\ chunk' = "none"
  /\ UNCHANGED <<sending, window, handler, wire, credited, violation>>

-----------------------------------------------------------------------------
(* The handler iterating its input: try, then flush, then block.           *)

Take ==
  /\ handler \in {"poll", "blocked"} /\ queue > 0
  /\ queue' = queue - 1
  /\ handler' = "item"
  /\ UNCHANGED <<sending, window, chunk, buf, due, wire, credits, granted,
                 credited, violation>>

\* Mutated: an empty queue blocks the handler before it flushes.
FoundEmptyAndBlocks ==
  /\ handler = "poll" /\ queue = 0
  /\ handler' = "blocked"
  /\ UNCHANGED <<sending, window, chunk, buf, queue, due, wire, credits,
                 granted, credited, violation>>

FoundEmpty ==
  /\ handler = "poll" /\ queue = 0
  /\ handler' = "flush"
  /\ UNCHANGED <<sending, window, chunk, buf, queue, due, wire, credits,
                 granted, credited, violation>>

Flush ==
  /\ handler = "flush"
  /\ due' = [due EXCEPT !["handler"] = FlushGrant(window)]
  /\ window' = Flushed(window)
  /\ handler' = "sendThenBlock"
  /\ UNCHANGED <<sending, chunk, buf, queue, wire, credits, granted, credited,
                 violation>>

Consume ==
  /\ handler = "item"
  /\ due' = [due EXCEPT !["handler"] = ConsumeGrant(window)]
  /\ window' = Consumed(window)
  /\ handler' = "sendThenPoll"
  /\ UNCHANGED <<sending, chunk, buf, queue, wire, credits, granted, credited,
                 violation>>

\* The CREDIT frame is sent after the window's lock is released; a grant of
\* nothing is not sent.
SendGrant ==
  /\ handler \in {"sendThenPoll", "sendThenBlock"}
  /\ IF due["handler"] > 0
     THEN /\ granted' = granted + due["handler"]
          /\ credits' = Append(credits, granted')
     ELSE UNCHANGED <<granted, credits>>
  /\ due' = [due EXCEPT !["handler"] = 0]
  /\ handler' = IF handler = "sendThenPoll" THEN "poll" ELSE "blocked"
  /\ UNCHANGED <<sending, window, chunk, buf, queue, wire, credited, violation>>

-----------------------------------------------------------------------------
(* The sending runtime: CreditRouter.grant and CreditRouter.closeRequest.  *)

\* The gate is chosen under the router's lock; unmatched, the frame is dropped.
RouteCredit ==
  /\ credits # <<>> /\ routing = 0
  /\ routing' = IF registered THEN Head(credits) - credited ELSE 0
  /\ credited' = Head(credits)
  /\ credits' = Tail(credits)
  /\ UNCHANGED <<gate, registered, closing, writer, left, items, receiving,
                 wire, granted, violation>>

\* Mutated: nobody is resumed.
WakeNobody == UNCHANGED writer

\* Every parked waiter is taken off the list, to be resumed and ask again.
WakeAll ==
  writer' = [w \in Writers |-> IF writer[w] = "parked" THEN "woken" ELSE writer[w]]

\* The grant reaches the gate after the router's lock was released: the
\* request may have ended in between.
GrantGate ==
  /\ routing > 0
  /\ gate' = Granted(gate, routing)
  /\ routing' = 0
  /\ WakeAll
  /\ UNCHANGED <<registered, closing, left, items, receiving, wire, credits,
                 granted, credited, violation>>

\* The request ended: its handler is done, or it was cancelled.
CloseRequest ==
  /\ registered
  /\ registered' = FALSE
  /\ closing' = TRUE
  /\ UNCHANGED <<gate, routing, writer, left, items, receiving, wire, credits,
                 granted, credited, violation>>

\* Mutated: the close resumes nobody.
CloseGateQuietly ==
  /\ closing
  /\ closing' = FALSE
  /\ gate' = Closed(gate)
  /\ UNCHANGED <<registered, routing, writer, left, items, receiving, wire,
                 credits, granted, credited, violation>>

CloseGate ==
  /\ closing
  /\ closing' = FALSE
  /\ gate' = Closed(gate)
  /\ WakeAll
  /\ UNCHANGED <<registered, routing, left, items, receiving, wire, credits,
                 granted, credited, violation>>

-----------------------------------------------------------------------------
\* Every writer is through, and the handler waits for what will not come.
Finished ==
  /\ \A w \in Writers : writer[w] = "stopped" \/ (writer[w] = "idle" /\ items[w] = 0)
  /\ handler = "blocked" /\ queue = 0 /\ wire = <<>> /\ chunk = "none"
  /\ credits = <<>> /\ routing = 0
  /\ ~registered /\ ~closing
  /\ UNCHANGED vars

Write(w) == \/ \E n \in ItemSizes : StartItem(w, n)
            \/ Acquire(w) \/ Park(w) \/ Sleep(w) \/ Refused(w)
            \/ AskAgain(w) \/ SendChunk(w)

Demux == ReceiveChunk \/ ContinueChunk \/ BufferChunk

Handle == Take \/ FoundEmpty \/ Flush \/ Consume \/ SendGrant

Route == RouteCredit \/ GrantGate

Next ==
  \/ \E w \in Writers : Write(w)
  \/ Demux
  \/ Handle
  \/ Route
  \/ CloseRequest \/ CloseGate
  \/ Finished

Spec == Init /\ [][Next]_vars

\* Threads run: each party that has a step to take eventually takes it.  The
\* handler keeps reading its input.  Nothing makes the request end.
Fairness ==
  /\ \A w \in Writers : WF_vars(Write(w))
  /\ WF_vars(Demux)
  /\ WF_vars(Handle)
  /\ WF_vars(Route)
  /\ WF_vars(CloseGate)

FairSpec == Spec /\ Fairness

-----------------------------------------------------------------------------
TypeOK ==
  /\ gate \in Gates
  /\ registered \in BOOLEAN /\ closing \in BOOLEAN
  /\ routing \in Nat
  /\ writer \in [Writers -> WriterStates]
  /\ left \in [Writers -> Nat]
  /\ items \in [Writers -> Nat]
  /\ wire \in Seq({"part", "last"})
  /\ window \in Windows
  /\ chunk \in {"none", "part", "last"}
  /\ buf \in Nat /\ queue \in Nat
  /\ handler \in HandlerStates
  /\ due \in [Grantors -> Nat]
  /\ credits \in Seq(Nat)
  /\ granted \in Nat /\ credited \in Nat
  /\ violation \in BOOLEAN

\* Writers that hold a credit and have not yet sent their chunk.
Holding == {w \in Writers : writer[w] = "holding"}

\* Chunks accepted and not yet consumed or credited back: one for every item
\* queued or in the handler's hand, one for the item being reassembled, one for
\* the continuation the demux holds.
Unconsumed ==
  queue + (IF handler = "item" THEN 1 ELSE 0)
        + (IF buf > 0 THEN 1 ELSE 0)
        + (IF chunk # "none" /\ due["demux"] = 0 THEN 1 ELSE 0)

\* Everything the receiver owes the sender: chunks it holds, chunks consumed
\* below a batch, and grants computed, in flight, or on their way to the gate.
Owed ==
  Unconsumed + window.pending + due["demux"] + due["handler"]
    + (granted - credited) + routing

Ledger == gate.available + Cardinality(Holding) + Len(wire) + Owed

\* Credit is neither made nor lost (Credit.swift, L9/L10): as long as the
\* request lives, what the gate holds, what writers hold, chunks on the wire
\* and everything the receiver owes add up to the window the stream opened with,
\* whatever the two threads that grant and the routing loop do in between.
CreditConserved == registered /\ ~violation => Ledger = SenderWindow

\* The receiver's own account of the stream: what it still allows and what it
\* accepted without granting back add up to its window, and a consumed batch
\* never stays pending.
WindowConserved ==
  /\ window.remaining + Unconsumed + window.pending = ReceiverWindow
  /\ window.pending < window.batch

\* A chunk beyond the window means "the sender sent past its window"
\* (Credit.swift, CreditWindow.arrive): a sender that spends only credits of
\* its own gate never raises a CREDIT_VIOLATION.
NoCreditViolation == ~violation

\* A parked writer is one a grant or a close will still wake: the gate is open
\* and exhausted while it waits, so no grant and no close was missed between
\* the check and the registration.
NoLostWakeup ==
  \A w \in Writers : writer[w] = "parked" => MustWait(gate, 1)

\* The flush rule (L10): a handler about to block, or blocked, on an empty
\* queue has no consumed chunk left ungranted, whatever the batch is.
BlockedOwesNothing == handler \in {"sendThenBlock", "blocked"} => window.pending = 0

\* No stall: while writers wait for credit on a live request, somebody other
\* than a writer still has a step that moves credit towards the gate.
Moving ==
  \/ wire # <<>> \/ chunk # "none" \/ queue > 0
  \/ handler # "blocked" \/ credits # <<>> \/ routing > 0 \/ closing
NoStall ==
  (\E w \in Writers : writer[w] \in {"parked", "asleep"} /\ MustWait(gate, 1))
    => Moving \/ \E w \in Writers : writer[w] = "holding"

\* L13: closing the gate releases every writer that waits for credit.
ClosedReleasesWriters ==
  \A w \in Writers :
    (gate.closed /\ writer[w] \in {"asking", "parked", "asleep", "woken"})
      ~> (writer[w] = "stopped")

\* Every item a writer emits reaches the handler unless the request ends first:
\* no window, batch or split of an item over chunks stops the stream for good.
EveryItemArrives ==
  <>(\/ ~registered
     \/ /\ \A w \in Writers : items[w] = 0 /\ writer[w] = "idle"
        /\ wire = <<>> /\ chunk = "none" /\ queue = 0)

=============================================================================
