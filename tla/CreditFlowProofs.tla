-------------------------- MODULE CreditFlowProofs --------------------------
(***************************************************************************)
(* The safety of a credited stream, for every number of writers, every     *)
(* pair of windows and every way items are split over chunks.              *)
(*                                                                         *)
(* The inductive invariant is TInv - the type invariant, the shape of the  *)
(* control state, the order of the CREDIT frames in flight - with the two  *)
(* ledgers.  The ledgers are what the properties follow from; the shape    *)
(* and the order are what makes them inductive.                            *)
(***************************************************************************)
EXTENDS CreditFlow, FiniteSetTheorems, SequenceTheorems, TLAPS

\* What the control state says of the data: who is emitting has chunks left, a
\* continuation is only held while an item is open, and a grant is only due to
\* a thread that is about to send it.
Shape ==
  /\ \A w \in Writers :
       writer[w] \in {"asking", "parked", "woken", "asleep", "holding"} => left[w] > 0
  /\ chunk # "none" => buf > 0
  /\ due["demux"] > 0 => chunk # "none"
  /\ due["handler"] > 0 => handler \in {"sendThenPoll", "sendThenBlock"}
  /\ registered => ~gate.closed /\ ~closing

\* CREDIT frames carry growing totals, the last of them all that was granted.
CreditsInOrder ==
  /\ credited <= granted
  /\ credits = <<>> => credited = granted
  /\ credits # <<>> => credits[Len(credits)] = granted
  /\ \A i \in 1 .. Len(credits) : credited < credits[i] /\ credits[i] <= granted
  /\ \A i, j \in 1 .. Len(credits) : i < j => credits[i] < credits[j]

\* The sender's ledger: never more than the window, and exactly the window
\* until the request ends or a chunk is refused.
SenderLedger ==
  /\ Ledger <= SenderWindow
  /\ registered /\ ~violation => Ledger = SenderWindow

TInv == TypeOK /\ Shape /\ CreditsInOrder

-----------------------------------------------------------------------------
(* Facts about the operators and the writers' set.                         *)

\* A batch is at least one chunk, so an opened window is a window.
LEMMA BatchPositive ==
  ASSUME NEW n \in Nat PROVE BatchOf(n) \in Nat \ {0}
  BY DEF BatchOf

\* The writers that hold a credit are finitely many.
LEMMA HoldingFinite ==
  /\ IsFiniteSet(Holding)
  /\ Cardinality(Holding) \in Nat
  <1>1. Holding \subseteq Writers
    BY DEF Holding
  <1>2. IsFiniteSet(Holding)
    BY <1>1, WritersFinite, FS_Subset
  <1> QED
    BY <1>2, FS_CardinalityType

LEMMA HoldingFiniteNext ==
  /\ IsFiniteSet(Holding')
  /\ Cardinality(Holding') \in Nat
  <1>1. Holding' \subseteq Writers
    BY DEF Holding
  <1>2. IsFiniteSet(Holding')
    BY <1>1, WritersFinite, FS_Subset
  <1> QED
    BY <1>2, FS_CardinalityType

\* Taking a credit adds a holder.
LEMMA AcquireHolding ==
  ASSUME TypeOK, NEW w \in Writers, Acquire(w)
  PROVE  Cardinality(Holding') = Cardinality(Holding) + 1
  <1>1. Holding' = Holding \cup {w} /\ w \notin Holding
    BY DEF TypeOK, Acquire, Holding
  <1> QED
    BY <1>1, HoldingFinite, FS_AddElement

\* Sending the chunk releases one.
LEMMA SendHolding ==
  ASSUME TypeOK, NEW w \in Writers, SendChunk(w)
  PROVE  Cardinality(Holding) = Cardinality(Holding') + 1
  <1>1. Holding' = Holding \ {w} /\ w \in Holding
    BY DEF TypeOK, SendChunk, Holding
  <1>2. Cardinality(Holding \ {w}) = Cardinality(Holding) - 1
    BY <1>1, HoldingFinite, FS_RemoveElement
  <1> QED
    BY <1>1, <1>2, HoldingFinite

\* No other step of a writer, and no wake-up, changes who holds a credit.
LEMMA SameHolding ==
  ASSUME TypeOK,
         \/ WakeAll
         \/ \E w \in Writers :
              \/ \E n \in ItemSizes : StartItem(w, n)
              \/ Park(w) \/ Sleep(w) \/ Refused(w) \/ AskAgain(w)
         \/ UNCHANGED writer
  PROVE  Holding' = Holding
  <1>1. CASE WakeAll
    BY <1>1 DEF WakeAll, Holding, TypeOK
  <1>2. ASSUME NEW w \in Writers,
               \/ \E n \in ItemSizes : StartItem(w, n)
               \/ Park(w) \/ Sleep(w) \/ Refused(w) \/ AskAgain(w)
        PROVE  Holding' = Holding
    <2>1. /\ writer[w] # "holding"
          /\ \E s \in WriterStates : s # "holding" /\ writer' = [writer EXCEPT ![w] = s]
      BY <1>2 DEF StartItem, Park, Sleep, Refused, AskAgain, WriterStates
    <2> QED
      BY <2>1 DEF Holding, TypeOK
  <1>3. CASE UNCHANGED writer
    BY <1>3 DEF Holding
  <1> QED
    BY <1>1, <1>2, <1>3

-----------------------------------------------------------------------------
(* Types, shape and the order of the CREDIT frames.                        *)

LEMMA InitTInv == Init => TInv
  <1> SUFFICES ASSUME Init PROVE TInv
    OBVIOUS
  <1> USE DEF Init
  <1>1. TypeOK
    <2>1. gate \in Gates
      BY WindowsPositive DEF GateOpened, Gates
    <2>2. window \in Windows
      BY WindowsPositive, BatchPositive DEF WindowOpened, Windows
    <2>3. /\ wire \in Seq({"part", "last"})
          /\ credits \in Seq(Nat)
      OBVIOUS
    <2> QED
      BY <2>1, <2>2, <2>3, MaxItemsNat DEF TypeOK, WriterStates, HandlerStates, Grantors
  <1>2. Shape
    BY DEF Shape, Grantors, GateOpened
  <1>3. CreditsInOrder
    BY DEF CreditsInOrder
  <1> QED
    BY <1>1, <1>2, <1>3 DEF TInv

\* A CREDIT frame is appended.
LEMMA OrderAppend ==
  ASSUME TypeOK, CreditsInOrder, NEW n \in Nat \ {0},
         granted' = granted + n, credits' = Append(credits, granted'),
         credited' = credited
  PROVE  CreditsInOrder'
  <1>1. /\ credits \in Seq(Nat) /\ granted \in Nat /\ credited \in Nat
        /\ granted' \in Nat /\ granted < granted'
    BY DEF TypeOK
  <1>2. /\ credits' \in Seq(Nat) /\ Len(credits') = Len(credits) + 1
        /\ credits'[Len(credits) + 1] = granted'
        /\ \A i \in 1 .. Len(credits) : credits'[i] = credits[i] /\ credits[i] \in Nat
    BY <1>1
  <1>3. \A i \in 1 .. Len(credits') : i \in 1 .. Len(credits) \/ i = Len(credits')
    BY <1>1, <1>2
  <1>4. credited' <= granted' /\ credits' # << >>
        /\ credits'[Len(credits')] = granted'
    BY <1>1, <1>2 DEF CreditsInOrder
  <1>5. \A i \in 1 .. Len(credits') : credited' < credits'[i] /\ credits'[i] <= granted'
    BY <1>1, <1>2, <1>3 DEF CreditsInOrder
  <1>6. \A i, j \in 1 .. Len(credits') : i < j => credits'[i] < credits'[j]
    BY <1>1, <1>2, <1>3 DEF CreditsInOrder
  <1> QED
    BY <1>4, <1>5, <1>6 DEF CreditsInOrder

\* A CREDIT frame is taken.
LEMMA OrderTake ==
  ASSUME TypeOK, CreditsInOrder, RouteCredit
  PROVE  CreditsInOrder' /\ Head(credits) - credited \in Nat \ {0}
  <1> USE DEF TypeOK, CreditsInOrder, RouteCredit
  <1>1. /\ Len(credits) \in Nat \ {0}
        /\ Len(credits') = Len(credits) - 1
        /\ \A i \in 1 .. Len(credits') : credits'[i] = credits[i + 1]
        /\ credited' = credits[1]
        /\ credits \in Seq(Nat)
        /\ credits[1] \in Nat
    OBVIOUS
  <1>2. Head(credits) - credited \in Nat \ {0}
    BY <1>1
  <1>3. \A i \in 1 .. Len(credits') : credited' < credits'[i] /\ credits'[i] <= granted'
    BY <1>1
  <1>4. \A i, j \in 1 .. Len(credits') : i < j => credits'[i] < credits'[j]
    BY <1>1
  <1>5. credits' = <<>> => credited' = granted'
    <2>1. credits' = <<>> => Len(credits) = 1
      <3>1. ASSUME credits' = <<>> PROVE Len(credits') = 0
        BY <3>1, EmptySeq, Zenon
      <3> QED
        BY <1>1, <3>1
    <2>2. credits # <<>> /\ granted' = granted
      OBVIOUS
    <2> QED
      BY <1>1, <2>1, <2>2
  <1>6. credits' # <<>> => credits'[Len(credits')] = granted'
    BY <1>1
  <1>7. credited' <= granted'
    BY <1>1
  <1> QED
    BY <1>2, <1>3, <1>4, <1>5, <1>6, <1>7

\* Most steps leave the CREDIT frames alone.
LEMMA OrderKept ==
  ASSUME CreditsInOrder, UNCHANGED <<credits, granted, credited>>
  PROVE  CreditsInOrder'
  BY DEF CreditsInOrder

\* What the window's steps return.
LEMMA WindowSteps ==
  ASSUME NEW w \in Windows
  PROVE  /\ ConsumeGrant(w) \in Nat /\ Consumed(w) \in Windows
         /\ FlushGrant(w) \in Nat /\ Flushed(w) \in Windows
         /\ ContinueGrant(w) = 1 /\ Continued(w) \in Windows
         /\ ~Violates(w) => Arrived(w) \in Windows
  <1> USE DEF Windows
  <1>1. ConsumeGrant(w) \in Nat /\ FlushGrant(w) \in Nat /\ ContinueGrant(w) = 1
    BY DEF ConsumeGrant, FlushGrant, ContinueGrant
  <1>2. Consumed(w) \in Windows
    BY DEF Consumed
  <1>3. Flushed(w) \in Windows
    BY DEF Flushed
  <1>4. Continued(w) \in Windows
    BY DEF Continued
  <1>5. ~Violates(w) => Arrived(w) \in Windows
    BY DEF Violates, Arrived
  <1> QED
    BY <1>1, <1>2, <1>3, <1>4, <1>5

LEMMA StepTypeOK == TInv /\ [Next]_vars => TypeOK'
  <1> SUFFICES ASSUME TInv, [Next]_vars PROVE TypeOK'
    OBVIOUS
  <1>0. TypeOK /\ Shape /\ CreditsInOrder
    BY DEF TInv
  <1> USE <1>0 DEF TypeOK, Grantors
  <1>1. ASSUME NEW w \in Writers, NEW n \in ItemSizes, StartItem(w, n)
        PROVE  TypeOK'
    BY <1>1, ItemSizesPositive DEF StartItem, WriterStates, receiving
  <1>2. ASSUME NEW w \in Writers, Acquire(w) PROVE TypeOK'
    <2>1. gate' \in Gates
      <3>1. gate.available \in Nat \ {0}
        BY <1>2 DEF Acquire, CanAcquire, Gates
      <3>2. gate' = [available |-> gate.available - 1, closed |-> gate.closed]
        BY <1>2 DEF Acquire, Acquired, Gates
      <3> QED
        BY <3>1, <3>2 DEF Gates
    <2> QED
      BY <1>2, <2>1 DEF Acquire, WriterStates, receiving
  <1>3. ASSUME NEW w \in Writers, Park(w) \/ Sleep(w) \/ Refused(w) \/ AskAgain(w)
        PROVE  TypeOK'
    <2>1. \E s \in WriterStates : writer' = [writer EXCEPT ![w] = s]
      BY <1>3 DEF Park, Sleep, Refused, AskAgain, WriterStates
    <2>2. UNCHANGED <<gate, registered, closing, routing, left, items, receiving, wire,
                      credits, granted, credited, violation>>
      BY <1>3 DEF Park, Sleep, Refused, AskAgain
    <2> QED
      BY <2>1, <2>2 DEF receiving
  <1>4. ASSUME NEW w \in Writers, SendChunk(w) PROVE TypeOK'
    <2>1. left[w] \in Nat \ {0}
      BY <1>4 DEF SendChunk, Shape
    <2> QED
      BY <1>4, <2>1 DEF SendChunk, WriterStates, receiving
  <1>5. CASE ReceiveChunk
    <2>1. Head(wire) \in {"part", "last"} /\ Tail(wire) \in Seq({"part", "last"})
      BY <1>5 DEF ReceiveChunk
    <2>2. window' \in Windows
      BY <1>5, WindowSteps DEF ReceiveChunk
    <2>3. chunk' \in {"none", "part", "last"} /\ violation' \in BOOLEAN
      BY <1>5, <2>1 DEF ReceiveChunk
    <2>4. buf' \in Nat /\ queue' \in Nat
      BY <1>5 DEF ReceiveChunk
    <2>5. UNCHANGED <<sending, handler, due, credits, granted, credited>> /\ wire' = Tail(wire)
      BY <1>5 DEF ReceiveChunk
    <2> QED
      BY <2>1, <2>2, <2>3, <2>4, <2>5 DEF sending
  <1>6. CASE ContinueChunk
    BY <1>6, WindowSteps DEF ContinueChunk, sending
  <1>7. CASE BufferChunk
    BY <1>7 DEF BufferChunk, sending
  <1>8. CASE Take \/ FoundEmpty
    BY <1>8 DEF Take, FoundEmpty, sending, HandlerStates
  <1>9. CASE Flush \/ Consume
    BY <1>9, WindowSteps DEF Flush, Consume, sending, HandlerStates
  <1>10. CASE SendGrant
    <2>1. granted' \in Nat /\ credits' \in Seq(Nat)
      <3>1. CASE due["handler"] > 0
        <4>1. granted' = granted + due["handler"] /\ due["handler"] \in Nat
          BY <1>10, <3>1 DEF SendGrant
        <4>2. credits' = Append(credits, granted')
          BY <1>10, <3>1 DEF SendGrant
        <4> QED
          BY <4>1, <4>2
      <3>2. CASE ~(due["handler"] > 0)
        BY <1>10, <3>2 DEF SendGrant
      <3> QED
        BY <3>1, <3>2
    <2>2. due' \in [Grantors -> Nat] /\ handler' \in HandlerStates
      BY <1>10 DEF SendGrant, HandlerStates
    <2> QED
      BY <1>10, <2>1, <2>2 DEF SendGrant, sending
  <1>11. CASE RouteCredit
    <2>1. Head(credits) - credited \in Nat
      BY <1>11, OrderTake
    <2>2. Head(credits) \in Nat /\ Tail(credits) \in Seq(Nat)
      BY <1>11 DEF RouteCredit
    <2> QED
      BY <1>11, <2>1, <2>2 DEF RouteCredit, receiving
  <1>12. CASE GrantGate
    <2>1. gate' \in Gates
      <3>1. Granted(gate, routing) \in {gate, [available |-> gate.available + routing,
                                               closed |-> gate.closed]}
        BY DEF Granted, Gates
      <3> QED
        BY <1>12, <3>1 DEF GrantGate, Gates
    <2> QED
      BY <1>12, <2>1 DEF GrantGate, WakeAll, WriterStates, receiving
  <1>13. CASE CloseRequest
    BY <1>13 DEF CloseRequest, receiving
  <1>14. CASE CloseGate
    <2>1. gate' \in Gates
      BY <1>14 DEF CloseGate, Closed, Gates
    <2> QED
      BY <1>14, <2>1 DEF CloseGate, WakeAll, WriterStates, receiving
  <1>15. CASE Finished \/ UNCHANGED vars
    BY <1>15 DEF Finished, vars, sending, receiving
  <1> QED
    BY <1>1, <1>2, <1>3, <1>4, <1>5, <1>6, <1>7, <1>8, <1>9, <1>10, <1>11, <1>12,
       <1>13, <1>14, <1>15
       DEF Next, Write, Demux, Handle, Route

LEMMA StepShape == TInv /\ [Next]_vars => Shape'
  <1> SUFFICES ASSUME TInv, [Next]_vars PROVE Shape'
    OBVIOUS
  <1>0. TypeOK /\ Shape /\ CreditsInOrder
    BY DEF TInv
  <1> USE <1>0 DEF Shape, Grantors
  <1>1. ASSUME NEW w \in Writers, NEW n \in ItemSizes, StartItem(w, n)
        PROVE  Shape'
    BY <1>1, ItemSizesPositive DEF StartItem, TypeOK, receiving
  <1>2. ASSUME NEW w \in Writers, Acquire(w) PROVE Shape'
    <2>1. registered' => ~gate'.closed /\ ~closing'
      BY <1>2 DEF Acquire, Acquired, TypeOK, Gates
    <2> QED
      BY <1>2, <2>1 DEF Acquire, TypeOK, receiving
  <1>3. ASSUME NEW w \in Writers, Park(w) \/ Sleep(w) \/ Refused(w) \/ AskAgain(w)
        PROVE  Shape'
    BY <1>3 DEF Park, Sleep, Refused, AskAgain, TypeOK, receiving
  <1>4. ASSUME NEW w \in Writers, SendChunk(w) PROVE Shape'
    BY <1>4 DEF SendChunk, TypeOK, receiving
  <1>5. CASE ReceiveChunk
    BY <1>5 DEF ReceiveChunk, TypeOK, sending
  <1>6. CASE ContinueChunk
    BY <1>6 DEF ContinueChunk, TypeOK, sending
  <1>7. CASE BufferChunk
    BY <1>7 DEF BufferChunk, TypeOK, sending
  <1>8. CASE Take \/ FoundEmpty
    BY <1>8 DEF Take, FoundEmpty, TypeOK, sending
  <1>9. CASE Flush \/ Consume
    BY <1>9 DEF Flush, Consume, TypeOK, sending
  <1>10. CASE SendGrant
    BY <1>10 DEF SendGrant, TypeOK, sending
  <1>11. CASE RouteCredit
    BY <1>11 DEF RouteCredit, receiving
  <1>12. CASE GrantGate
    <2>1. registered' => ~gate'.closed /\ ~closing'
      BY <1>12 DEF GrantGate, Granted, TypeOK, Gates
    <2> QED
      BY <1>12, <2>1 DEF GrantGate, WakeAll, TypeOK, receiving
  <1>13. CASE CloseRequest
    BY <1>13 DEF CloseRequest, receiving
  <1>14. CASE CloseGate
    BY <1>14 DEF CloseGate, WakeAll, TypeOK, receiving
  <1>15. CASE Finished \/ UNCHANGED vars
    BY <1>15 DEF Finished, vars, sending, receiving
  <1> QED
    BY <1>1, <1>2, <1>3, <1>4, <1>5, <1>6, <1>7, <1>8, <1>9, <1>10, <1>11, <1>12,
       <1>13, <1>14, <1>15
       DEF Next, Write, Demux, Handle, Route

LEMMA StepOrder == TInv /\ [Next]_vars => CreditsInOrder'
  <1> SUFFICES ASSUME TInv, [Next]_vars PROVE CreditsInOrder'
    OBVIOUS
  <1>0. TypeOK /\ Shape /\ CreditsInOrder
    BY DEF TInv
  <1>1. CASE BufferChunk
    <2>1. due["demux"] \in Nat \ {0} /\ credited' = credited
      BY <1>0, <1>1 DEF BufferChunk, TypeOK, Grantors
    <2>2. granted' = granted + due["demux"] /\ credits' = Append(credits, granted')
      BY <1>1 DEF BufferChunk
    <2> QED
      BY <1>0, <2>1, <2>2, OrderAppend
  <1>2. CASE SendGrant
    <2>1. CASE due["handler"] > 0
      <3>1. due["handler"] \in Nat \ {0} /\ credited' = credited
        BY <1>0, <1>2, <2>1 DEF SendGrant, TypeOK, Grantors
      <3>2. granted' = granted + due["handler"] /\ credits' = Append(credits, granted')
        BY <1>2, <2>1 DEF SendGrant
      <3> QED
        BY <1>0, <3>1, <3>2, OrderAppend
    <2>2. CASE ~(due["handler"] > 0)
      BY <1>0, <1>2, <2>2, OrderKept DEF SendGrant
    <2> QED
      BY <2>1, <2>2
  <1>3. CASE RouteCredit
    BY <1>0, <1>3, OrderTake
  <1>4. CASE UNCHANGED <<credits, granted, credited>>
    BY <1>0, <1>4, OrderKept
  <1>5. \/ BufferChunk \/ SendGrant \/ RouteCredit
        \/ UNCHANGED <<credits, granted, credited>>
    BY DEF Next, Write, Demux, Handle, Route, StartItem, Acquire, Park, Sleep, Refused,
           AskAgain, SendChunk, ReceiveChunk, ContinueChunk, Take, FoundEmpty, Flush,
           Consume, GrantGate, CloseRequest, CloseGate, Finished, vars
  <1> QED
    BY <1>1, <1>2, <1>3, <1>4, <1>5

LEMMA StepTInv == TInv /\ [Next]_vars => TInv'
  BY StepTypeOK, StepShape, StepOrder DEF TInv

\* Every variable of the stream stays in its type: no window, ledger or counter
\* underflows, whatever the interleaving.
THEOREM TypeCorrect == Spec => []TypeOK
  <1>1. TInv => TypeOK
    BY DEF TInv
  <1> QED
    BY <1>1, InitTInv, StepTInv, PTL DEF Spec

-----------------------------------------------------------------------------
(* The receiver's ledger.                                                  *)

LEMMA StepWindow == TInv /\ WindowConserved /\ [Next]_vars => WindowConserved'
  <1> SUFFICES ASSUME TInv, WindowConserved, [Next]_vars PROVE WindowConserved'
    OBVIOUS
  <1>0. TypeOK /\ Shape
    BY DEF TInv
  <1>w. /\ window.remaining \in Nat /\ window.pending \in Nat
        /\ window.batch \in Nat \ {0}
        /\ window \in Windows
    BY <1>0 DEF TypeOK, Windows
  <1>t. /\ buf \in Nat /\ queue \in Nat /\ due["demux"] \in Nat /\ due["handler"] \in Nat
        /\ DOMAIN due = Grantors
    BY <1>0 DEF TypeOK, Grantors
  <1> USE DEF WindowConserved
  <1>1. CASE ReceiveChunk
    <2>1. CASE Violates(window)
      BY <1>1, <2>1 DEF ReceiveChunk, Unconsumed
    <2>2. CASE ~Violates(window)
      <3>1. /\ window' = [window EXCEPT !.remaining = @ - 1]
            /\ due' = due /\ handler' = handler
        BY <1>1, <2>2 DEF ReceiveChunk, Arrived
      <3>2. /\ window'.remaining = window.remaining - 1
            /\ window'.pending = window.pending /\ window'.batch = window.batch
        BY <1>w, <3>1 DEF Windows
      <3>3. Unconsumed' = Unconsumed + 1
        <4>1. CASE buf = 0
          BY <1>0, <1>1, <1>t, <2>2, <3>1, <4>1 DEF ReceiveChunk, Unconsumed, TypeOK
        <4>2. CASE buf # 0
          <5>1. Head(wire) # "none" /\ due["demux"] = 0
            BY <1>0, <1>1, <1>t DEF ReceiveChunk, TypeOK, Shape
          <5> QED
            BY <1>0, <1>1, <1>t, <2>2, <3>1, <4>2, <5>1 DEF ReceiveChunk, Unconsumed
        <4> QED
          BY <4>1, <4>2
      <3>4. Unconsumed \in Nat
        BY <1>t DEF Unconsumed
      <3> QED
        BY <1>w, <3>2, <3>3, <3>4
    <2> QED
      BY <2>1, <2>2
  <1>2. CASE ContinueChunk
    <2>1. /\ window'.remaining = window.remaining + 1
          /\ window'.pending = window.pending /\ window'.batch = window.batch
      BY <1>w, <1>2 DEF ContinueChunk, Continued, Windows
    <2>2. due'["demux"] = 1
      BY <1>0, <1>2 DEF ContinueChunk, ContinueGrant, TypeOK, Grantors
    <2>3. Unconsumed = Unconsumed' + 1
      BY <1>2, <1>t, <2>2 DEF ContinueChunk, Unconsumed
    <2>4. Unconsumed' \in Nat
      BY <1>2, <1>t DEF ContinueChunk, Unconsumed
    <2> QED
      BY <1>w, <2>1, <2>3, <2>4
  <1>3. CASE BufferChunk
    <2>1. buf > 0
      BY <1>0, <1>3 DEF BufferChunk, Shape
    <2>2. Unconsumed' = Unconsumed
      BY <1>3, <1>t, <2>1 DEF BufferChunk, Unconsumed
    <2> QED
      BY <1>3, <2>2 DEF BufferChunk
  <1>4. CASE Take \/ FoundEmpty
    <2>1. Unconsumed' = Unconsumed
      BY <1>4, <1>t DEF Take, FoundEmpty, Unconsumed
    <2> QED
      BY <1>4, <2>1 DEF Take, FoundEmpty
  <1>5. CASE Flush
    <2>1. /\ window'.remaining = window.remaining + window.pending
          /\ window'.pending = 0 /\ window'.batch = window.batch
      BY <1>5 DEF Flush, Flushed
    <2>2. due'["demux"] = due["demux"]
      BY <1>0, <1>5 DEF Flush, TypeOK, Grantors
    <2>3. Unconsumed' = Unconsumed /\ Unconsumed \in Nat
      BY <1>5, <1>t, <2>2 DEF Flush, Unconsumed
    <2> QED
      BY <1>w, <2>1, <2>3
  <1>6. CASE Consume
    <2>1. due'["demux"] = due["demux"]
      BY <1>0, <1>6 DEF Consume, TypeOK, Grantors
    <2>2. Unconsumed = Unconsumed' + 1 /\ Unconsumed' \in Nat
      BY <1>6, <1>t, <2>1 DEF Consume, Unconsumed
    <2>3. /\ window'.remaining + window'.pending = window.remaining + window.pending + 1
          /\ window'.pending < window'.batch
      <3>1. CASE window.pending + 1 >= window.batch
        BY <1>6, <1>w, <3>1 DEF Consume, Consumed
      <3>2. CASE ~(window.pending + 1 >= window.batch)
        <4>1. /\ window'.remaining = window.remaining
              /\ window'.pending = window.pending + 1 /\ window'.batch = window.batch
          BY <1>6, <1>w, <3>2 DEF Consume, Consumed, Windows
        <4> QED
          BY <1>w, <3>2, <4>1
      <3> QED
        BY <3>1, <3>2
    <2>4. window'.remaining \in Nat /\ window'.pending \in Nat
      BY <1>6, <1>w, WindowSteps DEF Consume, Windows
    <2> QED
      BY <1>w, <2>2, <2>3, <2>4
  <1>7. CASE SendGrant
    <2>1. due'["demux"] = due["demux"]
      BY <1>0, <1>7 DEF SendGrant, TypeOK, Grantors
    <2>2. Unconsumed' = Unconsumed
      BY <1>7, <1>t, <2>1 DEF SendGrant, Unconsumed
    <2> QED
      BY <1>7, <2>2 DEF SendGrant
  <1>8. CASE UNCHANGED receiving
    BY <1>8 DEF receiving, Unconsumed
  <1>9. \/ ReceiveChunk \/ ContinueChunk \/ BufferChunk \/ Take \/ FoundEmpty
        \/ Flush \/ Consume \/ SendGrant \/ UNCHANGED receiving
    BY DEF Next, Write, Demux, Handle, Route, StartItem, Acquire, Park, Sleep, Refused,
           AskAgain, SendChunk, RouteCredit, GrantGate, CloseRequest, CloseGate,
           Finished, vars
  <1> QED
    BY <1>1, <1>2, <1>3, <1>4, <1>5, <1>6, <1>7, <1>8, <1>9

\* CreditWindow's account never drifts: what remains, what is held and what is
\* pending always add up to the window, and a whole batch never stays pending.
THEOREM WindowLedger == Spec => []WindowConserved
  <1>1. Init => WindowConserved
    BY WindowsPositive, BatchPositive
       DEF Init, WindowConserved, WindowOpened, Unconsumed, Grantors
  <1> QED
    BY <1>1, InitTInv, StepTInv, StepWindow, PTL DEF Spec

-----------------------------------------------------------------------------
(* The sender's ledger.                                                    *)

\* The terms of the ledger are naturals.
LEMMA LedgerTerms ==
  ASSUME TInv
  PROVE  /\ gate.available \in Nat /\ gate.closed \in BOOLEAN
         /\ Cardinality(Holding) \in Nat
         /\ Len(wire) \in Nat /\ Unconsumed \in Nat /\ window.pending \in Nat
         /\ due["demux"] \in Nat /\ due["handler"] \in Nat
         /\ granted - credited \in Nat /\ routing \in Nat
  <1>1. TypeOK /\ credited <= granted
    BY DEF TInv, CreditsInOrder
  <1>2. gate.available \in Nat /\ gate.closed \in BOOLEAN
    BY <1>1 DEF TypeOK, Gates
  <1>3. window.pending \in Nat
    BY <1>1 DEF TypeOK, Windows
  <1>4. granted - credited \in Nat /\ routing \in Nat
    BY <1>1 DEF TypeOK
  <1>5. due["demux"] \in Nat /\ due["handler"] \in Nat
    BY <1>1 DEF TypeOK, Grantors
  <1>6. Len(wire) \in Nat
    BY <1>1 DEF TypeOK
  <1>7. Unconsumed \in Nat
    BY <1>1 DEF TypeOK, Unconsumed
  <1> QED
    BY <1>2, <1>3, <1>4, <1>5, <1>6, <1>7, HoldingFinite

\* What the receiver owes after a step, from what each of its parts becomes.
LEMMA OwedNext ==
  ASSUME NEW u, NEW p, NEW d, NEW e, NEW f, NEW r,
         Unconsumed' = u, window'.pending = p, due'["demux"] = d, due'["handler"] = e,
         granted' - credited' = f, routing' = r
  PROVE  Owed' = u + p + d + e + f + r
  BY DEF Owed

\* The ledger after a step, from what each of its parts becomes.
LEMMA LedgerNext ==
  ASSUME NEW a, NEW h, NEW l, NEW o,
         gate'.available = a, Cardinality(Holding') = h, Len(wire') = l, Owed' = o
  PROVE  Ledger' = a + h + l + o
  BY DEF Ledger

\* A step moves credit from one place to another.  Only two steps lose any: a
\* chunk refused as a violation, and a grant whose request has ended.
LEMMA LedgerStep ==
  ASSUME TInv, [Next]_vars
  PROVE  /\ Ledger \in Nat /\ Ledger' \in Nat
         /\ Ledger' <= Ledger
         /\ registered /\ ~violation' => Ledger' = Ledger
  <1> DEFINE Goal == /\ Ledger \in Nat /\ Ledger' \in Nat
                     /\ Ledger' <= Ledger
                     /\ registered /\ ~violation' => Ledger' = Ledger
  <1>0. TypeOK /\ Shape /\ CreditsInOrder
    BY DEF TInv
  <1>1. PICK a \in Nat, h \in Nat, l \in Nat :
          a = gate.available /\ h = Cardinality(Holding) /\ l = Len(wire)
    BY LedgerTerms
  <1>2. PICK u \in Nat, p \in Nat, d \in Nat, e \in Nat, f \in Nat, r \in Nat :
          /\ u = Unconsumed /\ p = window.pending
          /\ d = due["demux"] /\ e = due["handler"]
          /\ f = granted - credited /\ r = routing
    BY LedgerTerms
  <1> DEFINE o == u + p + d + e + f + r
  <1>3. Owed = o
    BY <1>2 DEF Owed
  <1>4. Ledger = a + h + l + o
    BY <1>1, <1>3 DEF Ledger
  <1>5. queue \in Nat /\ buf \in Nat /\ granted \in Nat /\ credited \in Nat
    BY <1>0 DEF TypeOK
  <1>6. /\ gate.closed \in BOOLEAN /\ DOMAIN gate = {"available", "closed"}
        /\ window.pending \in Nat /\ window.batch \in Nat \ {0}
    BY <1>0 DEF TypeOK, Gates, Windows
  <1>7. DOMAIN due = Grantors
    BY <1>0 DEF TypeOK
  \* The steps of a writer leave what the receiver owes alone.
  <1>8. ASSUME UNCHANGED <<receiving, granted, credited, routing>>
        PROVE  Owed' = o
    <2>1. Owed' = Owed
      BY <1>8 DEF Owed, Unconsumed, receiving
    <2> QED
      BY <1>3, <2>1
  \* The steps of the receiver leave the gate and the writers alone.
  <1>9. ASSUME UNCHANGED sending
        PROVE  gate'.available = a /\ Cardinality(Holding') = h /\ routing' = r
    <2>1. Holding' = Holding
      BY <1>9 DEF Holding, sending
    <2> QED
      BY <1>1, <1>2, <1>9, <2>1 DEF sending
  <1>10. ASSUME NEW w \in Writers,
                \/ \E n \in ItemSizes : StartItem(w, n)
                \/ Park(w) \/ Sleep(w) \/ Refused(w) \/ AskAgain(w)
         PROVE  Goal
    <2>1. Holding' = Holding
      BY <1>0, <1>10, SameHolding
    <2>2. UNCHANGED <<gate, routing, receiving, wire, granted, credited>>
      BY <1>10 DEF StartItem, Park, Sleep, Refused, AskAgain
    <2>3. gate'.available = a /\ Cardinality(Holding') = h /\ Len(wire') = l
      BY <1>1, <2>1, <2>2
    <2>4. Ledger' = a + h + l + o
      BY <1>8, <2>2, <2>3, LedgerNext
    <2> QED
      BY <1>4, <2>4
  <1>11. ASSUME NEW w \in Writers, Acquire(w)
         PROVE  Goal
    <2>1. Cardinality(Holding') = h + 1
      BY <1>0, <1>1, <1>11, AcquireHolding
    <2>2. gate'.available = a - 1 /\ a \in Nat \ {0}
      BY <1>1, <1>6, <1>11 DEF Acquire, Acquired, CanAcquire
    <2>3. Owed' = o /\ Len(wire') = l
      BY <1>1, <1>8, <1>11 DEF Acquire
    <2>4. Ledger' = (a - 1) + (h + 1) + l + o
      BY <2>1, <2>2, <2>3, LedgerNext
    <2> QED
      BY <1>4, <2>2, <2>4
  <1>12. ASSUME NEW w \in Writers, SendChunk(w)
         PROVE  Goal
    <2>1. Cardinality(Holding') = h - 1 /\ h \in Nat \ {0}
      BY <1>0, <1>1, <1>12, SendHolding, HoldingFiniteNext
    <2>2. Len(wire') = l + 1
      BY <1>0, <1>1, <1>12 DEF SendChunk, TypeOK
    <2>3. Owed' = o /\ gate'.available = a
      BY <1>1, <1>8, <1>12 DEF SendChunk
    <2>4. Ledger' = a + (h - 1) + (l + 1) + o
      BY <2>1, <2>2, <2>3, LedgerNext
    <2> QED
      BY <1>4, <2>1, <2>4
  <1>13. CASE ReceiveChunk
    <2>1. Len(wire') = l - 1 /\ l \in Nat \ {0}
      BY <1>0, <1>1, <1>13 DEF ReceiveChunk, TypeOK
    <2>2. gate'.available = a /\ Cardinality(Holding') = h /\ routing' = r
      BY <1>9, <1>13 DEF ReceiveChunk
    <2>3. due'["demux"] = d /\ due'["handler"] = e /\ granted' - credited' = f
      BY <1>2, <1>13 DEF ReceiveChunk
    <2>4. window'.pending = p
      BY <1>0, <1>2, <1>13 DEF ReceiveChunk, Arrived, TypeOK, Windows
    <2>5. CASE Violates(window)
      <3>1. Unconsumed' = u /\ violation'
        BY <1>2, <1>13, <2>5 DEF ReceiveChunk, Unconsumed
      <3>2. Owed' = o
        BY <2>2, <2>3, <2>4, <3>1, OwedNext
      <3>3. Ledger' = a + h + (l - 1) + o
        BY <2>1, <2>2, <3>2, LedgerNext
      <3> QED
        BY <1>4, <2>1, <3>1, <3>3
    <2>6. CASE ~Violates(window)
      <3>1. Unconsumed' = u + 1
        <4>1. CASE buf = 0
          <5>1. UNCHANGED <<due, handler, chunk>> /\ chunk = "none"
            BY <1>13, <2>6, <4>1 DEF ReceiveChunk
          <5>2. \/ queue' = queue + 1 /\ buf' = 0
                \/ queue' = queue /\ buf' = 1
            BY <1>13, <2>6, <4>1 DEF ReceiveChunk
          <5> QED
            BY <1>2, <1>5, <4>1, <5>1, <5>2 DEF Unconsumed
        <4>2. CASE buf # 0
          <5>1. Head(wire) # "none" /\ due["demux"] = 0 /\ chunk = "none"
            BY <1>0, <1>2, <1>13 DEF ReceiveChunk, TypeOK, Shape
          <5>2. UNCHANGED <<due, handler, queue, buf>> /\ chunk' = Head(wire)
            BY <1>13, <2>6, <4>2 DEF ReceiveChunk
          <5>3. chunk' # "none"
            BY <5>1, <5>2
          <5> QED
            BY <1>2, <1>5, <5>1, <5>2, <5>3 DEF Unconsumed
        <4> QED
          BY <4>1, <4>2
      <3>2. Owed' = (u + 1) + p + d + e + f + r
        BY <2>2, <2>3, <2>4, <3>1, OwedNext
      <3>3. Ledger' = a + h + (l - 1) + ((u + 1) + p + d + e + f + r)
        BY <2>1, <2>2, <3>2, LedgerNext
      <3> QED
        BY <1>4, <2>1, <3>3
    <2> QED
      BY <2>5, <2>6
  <1>14. CASE ContinueChunk
    <2>1. gate'.available = a /\ Cardinality(Holding') = h /\ routing' = r /\ Len(wire') = l
      BY <1>1, <1>9, <1>14 DEF ContinueChunk
    <2>2. due'["demux"] = 1 /\ d = 0 /\ due'["handler"] = e
      BY <1>2, <1>7, <1>14 DEF ContinueChunk, ContinueGrant, Grantors
    <2>3. granted' - credited' = f /\ window'.pending = p
      BY <1>0, <1>2, <1>14 DEF ContinueChunk, Continued, TypeOK, Windows
    <2>4. Unconsumed' = u - 1
      <3>1. /\ chunk' = chunk /\ chunk # "none" /\ due["demux"] = 0
            /\ UNCHANGED <<queue, buf, handler>>
        BY <1>14 DEF ContinueChunk
      <3> QED
        BY <1>2, <1>5, <2>2, <3>1 DEF Unconsumed
    <2>5. Owed' = (u - 1) + p + 1 + e + f + r
      BY <2>1, <2>2, <2>3, <2>4, OwedNext
    <2>6. Ledger' = a + h + l + ((u - 1) + p + 1 + e + f + r)
      BY <2>1, <2>5, LedgerNext
    <2> QED
      BY <1>4, <2>2, <2>6
  <1>15. CASE BufferChunk
    <2>1. gate'.available = a /\ Cardinality(Holding') = h /\ routing' = r /\ Len(wire') = l
      BY <1>1, <1>9, <1>15 DEF BufferChunk
    <2>2. due'["demux"] = 0 /\ due'["handler"] = e /\ window'.pending = p
      BY <1>2, <1>7, <1>15 DEF BufferChunk, Grantors
    <2>3. granted' - credited' = f + d
      BY <1>2, <1>5, <1>15 DEF BufferChunk
    <2>4. Unconsumed' = u
      <3>1. buf > 0 /\ handler' = handler /\ due["demux"] # 0 /\ chunk' = "none"
        BY <1>0, <1>2, <1>15 DEF BufferChunk, Shape
      <3>2. \/ buf' = 0 /\ queue' = queue + 1
            \/ buf' = buf + 1 /\ queue' = queue
        BY <1>15 DEF BufferChunk
      <3> QED
        BY <1>2, <1>5, <3>1, <3>2 DEF Unconsumed
    <2>5. Owed' = u + p + 0 + e + (f + d) + r
      BY <2>1, <2>2, <2>3, <2>4, OwedNext
    <2>6. Ledger' = a + h + l + (u + p + 0 + e + (f + d) + r)
      BY <2>1, <2>5, LedgerNext
    <2> QED
      BY <1>4, <2>6
  <1>16. CASE Take \/ FoundEmpty
    <2>1. gate'.available = a /\ Cardinality(Holding') = h /\ routing' = r /\ Len(wire') = l
      BY <1>1, <1>9, <1>16 DEF Take, FoundEmpty
    <2>2. Unconsumed' = u
      BY <1>2, <1>5, <1>16 DEF Take, FoundEmpty, Unconsumed
    <2>3. /\ due'["demux"] = d /\ due'["handler"] = e /\ window'.pending = p
          /\ granted' - credited' = f
      BY <1>2, <1>16 DEF Take, FoundEmpty
    <2>4. Owed' = o
      BY <2>1, <2>2, <2>3, OwedNext
    <2>5. Ledger' = a + h + l + o
      BY <2>1, <2>4, LedgerNext
    <2> QED
      BY <1>4, <2>5
  <1>17. CASE Flush
    <2>1. gate'.available = a /\ Cardinality(Holding') = h /\ routing' = r /\ Len(wire') = l
      BY <1>1, <1>9, <1>17 DEF Flush
    <2>2. /\ due'["demux"] = d /\ due'["handler"] = p /\ e = 0 /\ window'.pending = 0
          /\ granted' - credited' = f
      BY <1>0, <1>2, <1>7, <1>17 DEF Flush, Flushed, FlushGrant, Grantors, Shape
    <2>3. Unconsumed' = u
      BY <1>2, <1>17, <2>2 DEF Flush, Unconsumed
    <2>4. Owed' = u + 0 + d + p + f + r
      BY <2>1, <2>2, <2>3, OwedNext
    <2>5. Ledger' = a + h + l + (u + 0 + d + p + f + r)
      BY <2>1, <2>4, LedgerNext
    <2> QED
      BY <1>4, <2>2, <2>5
  <1>18. CASE Consume
    <2>1. gate'.available = a /\ Cardinality(Holding') = h /\ routing' = r /\ Len(wire') = l
      BY <1>1, <1>9, <1>18 DEF Consume
    <2>2. due'["demux"] = d /\ e = 0 /\ granted' - credited' = f
      BY <1>0, <1>2, <1>7, <1>18 DEF Consume, Grantors, Shape
    <2>3. \/ window'.pending = 0 /\ due'["handler"] = p + 1
          \/ window'.pending = p + 1 /\ due'["handler"] = 0
      <3>1. CASE window.pending + 1 >= window.batch
        BY <1>2, <1>7, <1>18, <3>1 DEF Consume, Consumed, ConsumeGrant, Grantors
      <3>2. CASE ~(window.pending + 1 >= window.batch)
        BY <1>0, <1>2, <1>7, <1>18, <3>2
           DEF Consume, Consumed, ConsumeGrant, Grantors, TypeOK, Windows
      <3> QED
        BY <3>1, <3>2
    <2>4. Unconsumed' = u - 1
      BY <1>2, <1>5, <1>18, <2>2 DEF Consume, Unconsumed
    <2>5. \/ Owed' = (u - 1) + 0 + d + (p + 1) + f + r
          \/ Owed' = (u - 1) + (p + 1) + d + 0 + f + r
      <3>1. CASE window'.pending = 0 /\ due'["handler"] = p + 1
        BY <2>1, <2>2, <2>4, <3>1, OwedNext
      <3>2. CASE window'.pending = p + 1 /\ due'["handler"] = 0
        BY <2>1, <2>2, <2>4, <3>2, OwedNext
      <3> QED
        BY <2>3, <3>1, <3>2
    <2>6. \/ Ledger' = a + h + l + ((u - 1) + 0 + d + (p + 1) + f + r)
          \/ Ledger' = a + h + l + ((u - 1) + (p + 1) + d + 0 + f + r)
      BY <2>1, <2>5, LedgerNext
    <2> QED
      BY <1>4, <2>2, <2>6
  <1>19. CASE SendGrant
    <2>1. gate'.available = a /\ Cardinality(Holding') = h /\ routing' = r /\ Len(wire') = l
      BY <1>1, <1>9, <1>19 DEF SendGrant
    <2>2. due'["demux"] = d /\ due'["handler"] = 0 /\ window'.pending = p
      BY <1>2, <1>7, <1>19 DEF SendGrant, Grantors
    <2>3. granted' - credited' = f + e
      <3>1. credited' = credited
            /\ (granted' = granted + due["handler"] \/ (e = 0 /\ granted' = granted))
        BY <1>2, <1>19 DEF SendGrant
      <3> QED
        BY <1>2, <1>5, <3>1
    <2>4. Unconsumed' = u
      BY <1>2, <1>19, <2>2 DEF SendGrant, Unconsumed
    <2>5. Owed' = u + p + d + 0 + (f + e) + r
      BY <2>1, <2>2, <2>3, <2>4, OwedNext
    <2>6. Ledger' = a + h + l + (u + p + d + 0 + (f + e) + r)
      BY <2>1, <2>5, LedgerNext
    <2> QED
      BY <1>4, <2>6
  <1>20. CASE RouteCredit
    <2>1. PICK n \in Nat \ {0} : n = Head(credits) - credited
      BY <1>0, <1>20, OrderTake
    <2>2. /\ r = 0 /\ (routing' = n \/ (~registered /\ routing' = 0))
          /\ granted' = granted /\ credited' = Head(credits)
      BY <1>2, <1>20, <2>1 DEF RouteCredit
    <2>3. Head(credits) \in Nat
      BY <1>0, <1>20 DEF RouteCredit, TypeOK
    <2>4. credited' = credited + n
      BY <1>5, <2>1, <2>2, <2>3
    <2>5. Head(credits) <= granted
      BY <1>0, <1>20 DEF RouteCredit, CreditsInOrder, TypeOK
    <2>6. granted' - credited' = f - n /\ f - n \in Nat
      BY <1>2, <1>5, <2>1, <2>2, <2>3, <2>4, <2>5
    <2>7. /\ gate'.available = a /\ Cardinality(Holding') = h /\ Len(wire') = l
          /\ Unconsumed' = u /\ window'.pending = p
          /\ due'["demux"] = d /\ due'["handler"] = e
      <3>1. Holding' = Holding
        BY <1>20 DEF RouteCredit, Holding
      <3>2. Unconsumed' = Unconsumed
        BY <1>20 DEF RouteCredit, Unconsumed, receiving
      <3> QED
        BY <1>1, <1>2, <1>20, <3>1, <3>2 DEF RouteCredit, receiving
    <2>8. \/ Owed' = u + p + d + e + (f - n) + n
          \/ ~registered /\ Owed' = u + p + d + e + (f - n) + 0
      BY <2>2, <2>6, <2>7, OwedNext
    <2>9. \/ Ledger' = a + h + l + (u + p + d + e + (f - n) + n)
          \/ ~registered /\ Ledger' = a + h + l + (u + p + d + e + (f - n) + 0)
      BY <2>7, <2>8, LedgerNext
    <2> QED
      BY <1>4, <2>2, <2>6, <2>9
  <1>21. CASE GrantGate
    <2>1. routing' = 0 /\ gate' = Granted(gate, r)
      BY <1>2, <1>21 DEF GrantGate
    <2>2. Holding' = Holding
      BY <1>0, <1>21, SameHolding DEF GrantGate
    <2>3. /\ Cardinality(Holding') = h /\ Len(wire') = l
          /\ Unconsumed' = u /\ window'.pending = p
          /\ due'["demux"] = d /\ due'["handler"] = e /\ granted' - credited' = f
      <3>1. Unconsumed' = Unconsumed
        BY <1>21 DEF GrantGate, Unconsumed, receiving
      <3> QED
        BY <1>1, <1>2, <1>21, <2>2, <3>1 DEF GrantGate, receiving
    <2>4. \/ gate'.available = a + r
          \/ ~registered /\ gate'.available = a
      BY <1>0, <1>1, <1>6, <2>1 DEF Granted, Shape
    <2>5. Owed' = u + p + d + e + f + 0
      BY <2>1, <2>3, OwedNext
    <2>6. \/ Ledger' = (a + r) + h + l + (u + p + d + e + f + 0)
          \/ ~registered /\ Ledger' = a + h + l + (u + p + d + e + f + 0)
      BY <2>3, <2>4, <2>5, LedgerNext
    <2> QED
      BY <1>4, <2>6
  <1>22. CASE CloseRequest \/ CloseGate
    <2>1. Holding' = Holding
      <3>1. CASE CloseRequest
        BY <3>1 DEF CloseRequest, Holding
      <3>2. CASE CloseGate
        BY <1>0, <3>2, SameHolding DEF CloseGate
      <3> QED
        BY <1>22, <3>1, <3>2
    <2>2. gate'.available = a
      BY <1>1, <1>6, <1>22 DEF CloseRequest, CloseGate, Closed
    <2>3. Owed' = o /\ Len(wire') = l
      BY <1>1, <1>8, <1>22 DEF CloseRequest, CloseGate
    <2>4. Ledger' = a + h + l + o
      BY <1>1, <2>1, <2>2, <2>3, LedgerNext
    <2> QED
      BY <1>4, <2>4
  <1>23. CASE Finished \/ UNCHANGED vars
    <2>1. Owed' = o
      BY <1>8, <1>23 DEF Finished, vars, sending
    <2>2. gate'.available = a /\ Cardinality(Holding') = h /\ Len(wire') = l
      BY <1>1, <1>9, <1>23 DEF Finished, vars
    <2>3. Ledger' = a + h + l + o
      BY <2>1, <2>2, LedgerNext
    <2> QED
      BY <1>4, <2>3
  <1> QED
    BY <1>10, <1>11, <1>12, <1>13, <1>14, <1>15, <1>16, <1>17, <1>18, <1>19, <1>20,
       <1>21, <1>22, <1>23
       DEF Next, Write, Demux, Handle, Route

LEMMA StepSender ==
  TInv /\ SenderLedger /\ [Next]_vars => SenderLedger'
  <1> SUFFICES ASSUME TInv, SenderLedger, [Next]_vars PROVE SenderLedger'
    OBVIOUS
  <1>1. /\ Ledger \in Nat /\ Ledger' \in Nat /\ Ledger' <= Ledger
        /\ registered /\ ~violation' => Ledger' = Ledger
    BY LedgerStep
  <1>2. (registered' => registered) /\ (violation => violation')
    BY DEF TInv, TypeOK, Next, Write, Demux, Handle, Route, StartItem, Acquire, Park,
           Sleep, Refused, AskAgain, SendChunk, ReceiveChunk, ContinueChunk, BufferChunk,
           Take, FoundEmpty, Flush, Consume, SendGrant, RouteCredit, GrantGate,
           CloseRequest, CloseGate, Finished, vars, sending
  <1> QED
    BY <1>1, <1>2, WindowsPositive DEF SenderLedger

LEMMA InitSender == Init => SenderLedger
  <1> SUFFICES ASSUME Init PROVE SenderLedger
    OBVIOUS
  <1>1. Holding = {}
    BY DEF Init, Holding
  <1>2. Cardinality(Holding) = 0
    BY <1>1, FS_EmptySet
  <1>3. Owed = 0
    BY DEF Init, Owed, Unconsumed, WindowOpened, Grantors
  <1>4. gate.available = SenderWindow /\ Len(wire) = 0
    BY DEF Init, GateOpened
  <1> QED
    BY <1>2, <1>3, <1>4, WindowsPositive DEF SenderLedger, Ledger

\* The credit a stream opened with is neither multiplied nor lost while its
\* request lives: CreditGate, OutputStream, the demux, InputGrantEmitter and
\* CreditRouter between them always hold exactly the sender's window.
THEOREM Conservation == Spec => []CreditConserved
  <1>1. SenderLedger => CreditConserved
    BY DEF SenderLedger, CreditConserved
  <1> QED
    BY <1>1, InitTInv, InitSender, StepTInv, StepSender, PTL DEF Spec

-----------------------------------------------------------------------------
(* What follows from the two ledgers.                                      *)

\* A sender that spends only its own gate's credits never sends past a receiver
\* whose window is at least as wide: no CREDIT_VIOLATION, whatever the demux,
\* the handler and the routing of CREDIT frames interleave.
THEOREM NoViolation ==
  ASSUME SenderWindow <= ReceiverWindow
  PROVE  Spec => []NoCreditViolation
  <1>1. Init => NoCreditViolation
    BY DEF Init, NoCreditViolation
  <1>2. TInv /\ WindowConserved /\ SenderLedger /\ NoCreditViolation /\ [Next]_vars
          => NoCreditViolation'
    <2> SUFFICES ASSUME TInv, WindowConserved, SenderLedger, NoCreditViolation,
                        [Next]_vars
                 PROVE  NoCreditViolation'
      OBVIOUS
    <2>1. CASE ReceiveChunk
      <3>1. PICK a \in Nat, h \in Nat, l \in Nat, u \in Nat, p \in Nat, x \in Nat :
              /\ a = gate.available /\ h = Cardinality(Holding) /\ l = Len(wire)
              /\ u = Unconsumed /\ p = window.pending
              /\ Owed = u + p + x
        <4>1. PICK u \in Nat, p \in Nat, d \in Nat, e \in Nat, f \in Nat, r \in Nat :
                /\ u = Unconsumed /\ p = window.pending
                /\ d = due["demux"] /\ e = due["handler"]
                /\ f = granted - credited /\ r = routing
          BY LedgerTerms
        <4>2. Owed = u + p + d + e + f + r
          BY <4>1 DEF Owed
        <4>3. Owed = u + p + (d + e + f + r) /\ d + e + f + r \in Nat
          BY <4>1, <4>2
        <4> QED
          BY <4>1, <4>3, LedgerTerms
      <3>2. l > 0
        BY <2>1, <3>1 DEF ReceiveChunk, TInv, TypeOK
      <3>3. Ledger = a + h + l + (u + p + x)
        BY <3>1 DEF Ledger
      <3>4. u + p < ReceiverWindow
        <4>1. Ledger <= SenderWindow
          BY DEF SenderLedger
        <4>2. a + h + l + (u + p + x) <= SenderWindow
          BY <3>3, <4>1
        <4> HIDE <3>1
        <4> QED
          BY <3>2, <4>2, WindowsPositive
      <3>5. window.remaining + u + p = ReceiverWindow /\ window.remaining \in Nat
        BY <3>1 DEF WindowConserved, TInv, TypeOK, Windows
      <3>6. window.remaining # 0
        BY <3>1, <3>4, <3>5, WindowsPositive
      <3> QED
        BY <2>1, <3>6 DEF ReceiveChunk, Violates, NoCreditViolation
    <2>2. CASE UNCHANGED violation
      BY <2>2 DEF NoCreditViolation
    <2>3. ReceiveChunk \/ UNCHANGED violation
      BY DEF Next, Write, Demux, Handle, Route, StartItem, Acquire, Park, Sleep, Refused,
             AskAgain, SendChunk, ContinueChunk, BufferChunk, Take, FoundEmpty, Flush,
             Consume, SendGrant, RouteCredit, GrantGate, CloseRequest, CloseGate,
             Finished, vars
    <2> QED
      BY <2>1, <2>2, <2>3
  <1> QED
    BY <1>1, <1>2, InitTInv, InitSender, StepTInv, StepSender, WindowLedger, PTL DEF Spec

\* CreditGate.acquire registers its waiter under the lock that checked the
\* window, so a waiter on the list always has a wake-up ahead of it.
THEOREM WakeupsKept == Spec => []NoLostWakeup
  <1>1. Init => NoLostWakeup
    BY DEF Init, NoLostWakeup
  <1>2. TypeOK /\ NoLostWakeup /\ [Next]_vars => NoLostWakeup'
    <2> SUFFICES ASSUME TypeOK, NoLostWakeup, [Next]_vars PROVE NoLostWakeup'
      OBVIOUS
    <2>1. ASSUME NEW w \in Writers, NEW n \in ItemSizes, StartItem(w, n)
          PROVE  NoLostWakeup'
      BY <2>1 DEF StartItem, NoLostWakeup, TypeOK
    <2>2. ASSUME NEW w \in Writers, Acquire(w) PROVE NoLostWakeup'
      <3>1. \A v \in Writers : writer[v] # "parked"
        BY <2>2 DEF Acquire, CanAcquire, MustWait, NoLostWakeup, TypeOK, Gates
      <3> QED
        BY <2>2, <3>1 DEF Acquire, NoLostWakeup, TypeOK
    <2>3. ASSUME NEW w \in Writers, Park(w) \/ Sleep(w) \/ Refused(w) \/ AskAgain(w)
          PROVE  NoLostWakeup'
      BY <2>3 DEF Park, Sleep, Refused, AskAgain, NoLostWakeup, TypeOK, MustWait
    <2>4. ASSUME NEW w \in Writers, SendChunk(w) PROVE NoLostWakeup'
      BY <2>4 DEF SendChunk, NoLostWakeup, TypeOK
    <2>5. CASE GrantGate \/ CloseGate
      <3>1. \A v \in Writers : writer'[v] # "parked"
        BY <2>5 DEF GrantGate, CloseGate, WakeAll
      <3> QED
        BY <3>1 DEF NoLostWakeup
    <2>6. CASE UNCHANGED <<gate, writer>>
      BY <2>6 DEF NoLostWakeup
    <2> QED
      BY <2>1, <2>2, <2>3, <2>4, <2>5, <2>6
         DEF Next, Write, Demux, Handle, Route, ReceiveChunk, ContinueChunk, BufferChunk,
             Take, FoundEmpty, Flush, Consume, SendGrant, RouteCredit, CloseRequest,
             Finished, vars, sending
  <1> QED
    BY <1>1, <1>2, TypeCorrect, PTL DEF Spec

\* The flush rule: InputStream's iterator grants everything pending before it
\* blocks, and nothing becomes pending while it is blocked.
THEOREM FlushedBeforeBlocking == Spec => []BlockedOwesNothing
  <1>1. Init => BlockedOwesNothing
    BY DEF Init, BlockedOwesNothing
  <1>2. TypeOK /\ BlockedOwesNothing /\ [Next]_vars => BlockedOwesNothing'
    <2> SUFFICES ASSUME TypeOK, BlockedOwesNothing, [Next]_vars
                 PROVE  BlockedOwesNothing'
      OBVIOUS
    <2>1. CASE ReceiveChunk
      <3>1. window'.pending = window.pending /\ handler' = handler
        BY <2>1 DEF ReceiveChunk, Arrived, TypeOK, Windows
      <3> QED
        BY <3>1 DEF BlockedOwesNothing
    <2>2. CASE ContinueChunk
      <3>1. window'.pending = window.pending /\ handler' = handler
        BY <2>2 DEF ContinueChunk, Continued, TypeOK, Windows
      <3> QED
        BY <3>1 DEF BlockedOwesNothing
    <2>3. CASE Take \/ FoundEmpty \/ Consume
      BY <2>3 DEF Take, FoundEmpty, Consume, BlockedOwesNothing
    <2>4. CASE Flush
      BY <2>4 DEF Flush, Flushed, BlockedOwesNothing
    <2>5. CASE SendGrant
      BY <2>5 DEF SendGrant, BlockedOwesNothing
    <2>6. CASE UNCHANGED <<window, handler>>
      BY <2>6 DEF BlockedOwesNothing
    <2> QED
      BY <2>1, <2>2, <2>3, <2>4, <2>5, <2>6
         DEF Next, Write, Demux, Handle, Route, StartItem, Acquire, Park, Sleep, Refused,
             AskAgain, SendChunk, BufferChunk, RouteCredit, GrantGate, CloseRequest,
             CloseGate, Finished, vars, receiving
  <1> QED
    BY <1>1, <1>2, TypeCorrect, PTL DEF Spec

\* Once the router let the gate go, the gate is closed or about to be.
Released == registered \/ closing \/ gate.closed

LEMMA ReleasedAlways == Spec => []Released
  <1>1. Init => Released
    BY DEF Init, Released
  <1>2. TypeOK /\ Released /\ [Next]_vars => Released'
    <2> SUFFICES ASSUME TypeOK, Released, [Next]_vars PROVE Released'
      OBVIOUS
    <2>1. ASSUME NEW w \in Writers, Acquire(w) PROVE Released'
      BY <2>1 DEF Acquire, Acquired, Released, TypeOK, Gates
    <2>2. CASE GrantGate
      BY <2>2 DEF GrantGate, Granted, Released, TypeOK, Gates
    <2>3. CASE CloseRequest
      BY <2>3 DEF CloseRequest, Released
    <2>4. CASE CloseGate
      BY <2>4 DEF CloseGate, Closed, Released, TypeOK, Gates
    <2>5. CASE UNCHANGED <<gate, registered, closing>>
      BY <2>5 DEF Released
    <2> QED
      BY <2>1, <2>2, <2>3, <2>4, <2>5
         DEF Next, Write, Demux, Handle, Route, StartItem, Park, Sleep, Refused,
             AskAgain, SendChunk, ReceiveChunk, ContinueChunk, BufferChunk, Take,
             FoundEmpty, Flush, Consume, SendGrant, RouteCredit, Finished, vars, sending
  <1> QED
    BY <1>1, <1>2, TypeCorrect, PTL DEF Spec

\* With a window of at least two chunks, a stream never stalls: while a writer
\* waits for credit on a live request, some other step is under way that brings
\* it.  (With a window of one, an item split over two chunks stalls for good:
\* its first chunk holds the only credit, and is granted back only when the item
\* is whole.)
THEOREM StallFree ==
  ASSUME 2 <= SenderWindow, SenderWindow <= ReceiverWindow
  PROVE  Spec => []NoStall
  <1>1. TInv /\ SenderLedger /\ NoCreditViolation /\ BlockedOwesNothing /\ Released
          => NoStall
    <2> SUFFICES ASSUME TInv, SenderLedger, NoCreditViolation, BlockedOwesNothing, Released,
                        NEW w \in Writers, MustWait(gate, 1),
                        ~Moving, \A v \in Writers : writer[v] # "holding"
                 PROVE  FALSE
      BY DEF NoStall
    <2>1. TypeOK /\ Shape /\ CreditsInOrder
      BY DEF TInv
    <2>2. Cardinality(Holding) = 0
      <3>1. Holding = {}
        BY Zenon DEF Holding
      <3> QED
        BY <3>1, FS_EmptySet
    <2>3. gate.available = 0 /\ ~gate.closed
      BY <2>1 DEF MustWait, TypeOK, Gates
    <2>4. Len(wire) = 0
      <3>1. wire = <<>>
        BY DEF Moving
      <3> QED
        BY <3>1, EmptySeq, Zenon
    <2>5. credited = granted /\ granted \in Nat
      BY <2>1 DEF Moving, CreditsInOrder, TypeOK
    <2>6. window.pending = 0
      BY DEF Moving, BlockedOwesNothing
    <2>7. due["demux"] = 0 /\ due["handler"] = 0 /\ routing = 0
      <3>1. due["demux"] \in Nat /\ due["handler"] \in Nat /\ routing \in Nat
        BY <2>1 DEF TypeOK, Grantors
      <3> QED
        BY <2>1, <3>1 DEF Moving, Shape
    <2>8. Unconsumed \in {0, 1}
      <3>1. queue = 0
        BY <2>1 DEF Moving, TypeOK
      <3> QED
        BY <3>1 DEF Unconsumed, Moving
    <2>9. Owed = Unconsumed
      BY <2>5, <2>6, <2>7, <2>8 DEF Owed
    <2>10. Ledger = Unconsumed
      BY <2>2, <2>3, <2>4, <2>8, <2>9 DEF Ledger
    <2>11. Ledger = SenderWindow
      BY <2>3 DEF SenderLedger, Released, Moving, NoCreditViolation
    <2> QED
      BY <2>8, <2>10, <2>11, WindowsPositive
  <1>2. Spec => []NoCreditViolation
    BY NoViolation
  <1> QED
    BY <1>1, <1>2, FlushedBeforeBlocking, ReleasedAlways, InitTInv, InitSender, StepTInv,
       StepSender, PTL DEF Spec

=============================================================================
