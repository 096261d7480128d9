------------------------- MODULE RequestLoopProofs -------------------------
(***************************************************************************)
(* The safety of a cartridge's request loop: one terminal of a request,    *)
(* slots that never leak, gates that never hold more than their window and *)
(* a loop that never sleeps over somebody who could run, for any requests, *)
(* peer calls, pools, capacities and windows.                              *)
(*                                                                         *)
(* The argument counts what is in the loop's queue.  A request's REQ is    *)
(* there at most once and while it is, or while the request is in line,    *)
(* nothing has been done for it (Entrance); from then on its claim says    *)
(* who ends it, and it is given up by the one report its handler leaves    *)
(* (Exit).  So whoever sends a terminal is the first, and a slot comes     *)
(* back once.  A stream's chunks and its credits are in one ledger with    *)
(* the grants on their way.  And who raises a limit is counted until the   *)
(* loop takes the wake-up (Woken).                                         *)
(***************************************************************************)
EXTENDS RequestLoop, FiniteSetTheorems, SequenceTheorems, TLAPS

-----------------------------------------------------------------------------
(* The line and the event queue.                                           *)

LEMMA LessIsWellFounded == IsWellFoundedOn({ss \in Nat \X Nat : ss[1] < ss[2]}, Nat)
BY NatLessThanWellFounded DEF OpToRel

LEMMA LeastNatural ==
  ASSUME NEW T \in SUBSET Nat, T # {}
  PROVE  \E x \in T : \A y \in T : x <= y
<1> DEFINE less == {ss \in Nat \X Nat : ss[1] < ss[2]}
<1>1. PICK x \in T : \A y \in T : <<y, x>> \notin less
  <2> HIDE DEF less
  <2>1. IsWellFoundedOn(less, Nat)
    BY LessIsWellFounded DEF less
  <2> QED
    BY <2>1, WFMin
<1>2. ASSUME NEW y \in T PROVE x <= y
  <2>1. x \in Nat /\ y \in Nat
    OBVIOUS
  <2>2. <<y, x>> \notin less
    BY <1>1
  <2>3. y < x => <<y, x>> \in less
    BY <2>1
  <2> HIDE DEF less
  <2> QED
    BY <2>1, <2>2, <2>3
<1> QED
  BY <1>2

LEMMA SeqFacts ==
  ASSUME NEW S, NEW s \in Seq(S)
  PROVE  /\ Len(s) \in Nat /\ DOMAIN s = 1..Len(s)
         /\ \A i \in DOMAIN s : s[i] \in S
         /\ s # <<>> => Head(s) \in S /\ Head(s) = s[1] /\ 1 \in DOMAIN s
OBVIOUS

LEMMA RemovedAt ==
  ASSUME NEW S, NEW s \in Seq(S), NEW k \in DOMAIN s
  PROVE  /\ RemoveAt(s, k) \in Seq(S)
         /\ DOMAIN RemoveAt(s, k) = 1..(Len(s) - 1)
         /\ \A i \in 1..(Len(s) - 1) : RemoveAt(s, k)[i] = s[IF i < k THEN i ELSE i + 1]
<1> DEFINE front == SubSeq(s, 1, k - 1)
           rest == SubSeq(s, k + 1, Len(s))
<1>1. Len(s) \in Nat /\ k \in 1..Len(s) /\ \A i \in 1..Len(s) : s[i] \in S
  OBVIOUS
<1>2. /\ front \in Seq(S) /\ Len(front) = k - 1
      /\ \A i \in 1..(k - 1) : front[i] = s[i]
  <2>1. /\ front \in Seq(S) /\ Len(front) = IF 1 <= k - 1 THEN k - 1 - 1 + 1 ELSE 0
        /\ \A i \in 1..(k - 1 - 1 + 1) : front[i] = s[1 + i - 1]
    <3>1. 1 \in Int /\ k - 1 \in Int /\ \A i \in 1..(k - 1) : s[i] \in S
      BY <1>1
    <3> QED
      BY <3>1, SubSeqProperties
  <2> QED
    BY <1>1, <2>1
<1>3. /\ rest \in Seq(S) /\ Len(rest) = Len(s) - k
      /\ \A i \in 1..(Len(s) - k) : rest[i] = s[k + i]
  <2>1. /\ rest \in Seq(S)
        /\ Len(rest) = IF k + 1 <= Len(s) THEN Len(s) - (k + 1) + 1 ELSE 0
        /\ \A i \in 1..(Len(s) - (k + 1) + 1) : rest[i] = s[(k + 1) + i - 1]
    <3>1. k + 1 \in Int /\ Len(s) \in Int /\ \A i \in (k + 1)..Len(s) : s[i] \in S
      BY <1>1
    <3> QED
      BY <3>1, SubSeqProperties
  <2> QED
    BY <1>1, <2>1
<1>4. /\ RemoveAt(s, k) \in Seq(S)
      /\ Len(RemoveAt(s, k)) = Len(front) + Len(rest)
      /\ \A i \in 1..(Len(front) + Len(rest)) :
           RemoveAt(s, k)[i] = IF i <= Len(front) THEN front[i] ELSE rest[i - Len(front)]
  <2> HIDE DEF front, rest
  <2>1. RemoveAt(s, k) = front \o rest
    BY DEF RemoveAt, front, rest
  <2> QED
    BY <1>2, <1>3, <2>1, ConcatProperties
<1> HIDE DEF front, rest
<1>5. Len(front) + Len(rest) = Len(s) - 1
  BY <1>1, <1>2, <1>3
<1>6. DOMAIN RemoveAt(s, k) = 1..(Len(s) - 1)
  BY <1>4, <1>5, LenProperties
<1>7. ASSUME NEW i \in 1..(Len(s) - 1)
      PROVE  RemoveAt(s, k)[i] = s[IF i < k THEN i ELSE i + 1]
  <2>1. CASE i < k
    BY <1>1, <1>2, <1>4, <1>5, <2>1
  <2>2. CASE ~(i < k)
    <3>1. i - (k - 1) \in 1..(Len(s) - k) /\ k + (i - (k - 1)) = i + 1
      BY <1>1, <2>2
    <3>2. ~(i <= Len(front)) /\ i - Len(front) = i - (k - 1)
      BY <1>1, <1>2, <2>2
    <3> QED
      BY <1>3, <1>4, <1>5, <2>2, <3>1, <3>2
  <2> QED
    BY <2>1, <2>2
<1> QED
  BY <1>4, <1>6, <1>7

\* How often a queue holds an event.
Times(e, s) == Cardinality({i \in DOMAIN s : s[i] = e})

LEMMA TimesType ==
  ASSUME NEW S, NEW s \in Seq(S), NEW e
  PROVE  /\ IsFiniteSet({i \in DOMAIN s : s[i] = e})
         /\ Times(e, s) \in Nat
         /\ Times(e, s) = 0 <=> \A i \in DOMAIN s : s[i] # e
<1>1. IsFiniteSet(1..Len(s))
  BY SeqFacts, FS_Interval
<1>2. DOMAIN s = 1..Len(s)
  BY SeqFacts
<1>3. IsFiniteSet({i \in DOMAIN s : s[i] = e})
  BY <1>1, <1>2, FS_Subset
<1> QED
  BY <1>3, FS_CardinalityType, FS_EmptySet DEF Times

LEMMA AppendFacts ==
  ASSUME NEW S, NEW s \in Seq(S), NEW x \in S
  PROVE  /\ Append(s, x) \in Seq(S)
         /\ DOMAIN Append(s, x) = (DOMAIN s) \cup {Len(s) + 1} /\ Len(s) + 1 \notin DOMAIN s
         /\ \A i \in DOMAIN s : Append(s, x)[i] = s[i]
         /\ Append(s, x)[Len(s) + 1] = x
OBVIOUS

LEMMA TimesAppend ==
  ASSUME NEW S, NEW s \in Seq(S), NEW x \in S, NEW e
  PROVE  Times(e, Append(s, x)) = Times(e, s) + (IF x = e THEN 1 ELSE 0)
<1> DEFINE old == {i \in DOMAIN s : s[i] = e}
           new == {i \in DOMAIN Append(s, x) : Append(s, x)[i] = e}
<1>1. Len(s) + 1 \notin old /\ new = IF x = e THEN old \cup {Len(s) + 1} ELSE old
  BY AppendFacts
<1>2. IsFiniteSet(old) /\ Cardinality(old) \in Nat
  BY TimesType DEF Times
<1> HIDE DEF old, new
<1>3. Cardinality(old \cup {Len(s) + 1}) = Cardinality(old) + 1
  BY <1>1, <1>2, FS_AddElement
<1>4. Cardinality(new) = Cardinality(old) + (IF x = e THEN 1 ELSE 0)
  BY <1>1, <1>2, <1>3
<1> QED
  BY <1>4 DEF Times, old, new

LEMMA TailFacts ==
  ASSUME NEW S, NEW s \in Seq(S), s # <<>>
  PROVE  /\ Tail(s) \in Seq(S) /\ Len(Tail(s)) = Len(s) - 1
         /\ DOMAIN Tail(s) = 1..(Len(s) - 1)
         /\ \A i \in 1..(Len(s) - 1) : i + 1 \in DOMAIN s /\ Tail(s)[i] = s[i + 1]
OBVIOUS

LEMMA TimesTail ==
  ASSUME NEW S, NEW s \in Seq(S), s # <<>>, NEW e
  PROVE  Times(e, Tail(s)) = Times(e, s) - (IF Head(s) = e THEN 1 ELSE 0)
<1> DEFINE old == {i \in DOMAIN s : s[i] = e}
           later == old \ {1}
           new == {i \in DOMAIN Tail(s) : Tail(s)[i] = e}
           back == [i \in later |-> i - 1]
<1>1. Len(s) \in Nat /\ DOMAIN s = 1..Len(s) /\ Len(s) > 0 /\ Head(s) = s[1]
  OBVIOUS
<1>2. \A i \in later : i - 1 \in new
  BY <1>1, TailFacts
<1>3. \A j \in new : j + 1 \in later /\ j = (j + 1) - 1
  BY <1>1, TailFacts
<1>4. \A i, j \in later : i - 1 = j - 1 => i = j
  BY <1>1
<1>5. back \in Bijection(later, new)
  <2>1. back \in [later -> new]
    BY <1>2
  <2>2. \A i, j \in later : back[i] = back[j] => i = j
    BY <1>4
  <2>3. \A j \in new : \E i \in later : back[i] = j
    BY <1>3
  <2> HIDE DEF later, new, back
  <2> QED
    BY <2>1, <2>2, <2>3 DEF Bijection, Injection, Surjection, IsInjective
<1>6. IsFiniteSet(old) /\ Cardinality(old) \in Nat
  BY TimesType DEF Times
<1>7. 1 \in old <=> Head(s) = e
  BY <1>1
<1> HIDE DEF old, new, back
<1>8. IsFiniteSet(later) /\ Cardinality(later) = Cardinality(old) - (IF Head(s) = e THEN 1 ELSE 0)
  BY <1>6, <1>7, FS_RemoveElement
<1> HIDE DEF later
<1>9. Cardinality(new) = Cardinality(later)
  BY <1>5, <1>8, FS_Bijection DEF ExistsBijection
<1> QED
  BY <1>8, <1>9 DEF Times, old, new

-----------------------------------------------------------------------------
(* Types.                                                                  *)

OfRequests == [kind : {"req", "end", "cancel", "done"}, of : Requests]
OfStreams == [kind : {"credit"}, of : Streams]
OfPeers == [kind : {"answer"}, of : Peers]
OfPools == [kind : {"desired"}, of : Pools, to : Numbers]
WakeUps == [kind : {"poolsChanged"}]

Events == OfRequests \cup OfStreams \cup OfPeers \cup OfPools \cup WakeUps

LoopTypes ==
  /\ events \in Seq(Events)
  /\ loop \in [at : {"drain", "event"}] \cup [at : {"close", "sweep"}, of : Requests]

PoolTypes ==
  /\ line \in Seq(Requests)
  /\ active \in [Pools -> Int]
  /\ configured \in [Pools -> Nat] /\ available \in [Pools -> Nat]
  /\ changes \in 0..MaxChanges /\ reporting \in 0..changes

RequestTypes ==
  /\ claim \in [Requests -> {"none", "open", "handler", "cancel"}]
  /\ cancelled \subseteq Requests
  /\ incoming \in [Requests -> {"none", "open", "ended", "cut", "read"}]
  /\ handler \in [Requests -> {"none", "working", "concluded", "gone"}]
  /\ on \in [Requests -> Waits]
  /\ host \in [Requests -> {"idle", "sending", "sent", "cancelled"}]
  /\ terminals \in [Requests -> Nat]

Gates == [state : {"unregistered", "open", "closed"}, credit : Nat]

StreamTypes ==
  /\ gate \in [Streams -> Gates]
  /\ left \in [Streams -> Nat] /\ owed \in [Streams -> Nat]
  /\ response \in [Peers -> {"none", "pending", "ended", "read"}]
  /\ callee \in [Peers -> {"none", "called", "answered", "cancelled"}]

Typed == LoopTypes /\ PoolTypes /\ RequestTypes /\ StreamTypes

LEMMA InitTyped == Init => Typed
<1> SUFFICES ASSUME Init PROVE Typed
  OBVIOUS
<1>1. LoopTypes
  BY DEF Init, LoopTypes
<1>2. PoolTypes
  BY PoolsTyped DEF Init, PoolTypes, Unlimited
<1>3. RequestTypes
  BY DEF Init, RequestTypes, Waits
<1>4. StreamTypes
  BY StreamsTyped DEF Init, StreamTypes, Unregistered, Gates
<1> QED
  BY <1>1, <1>2, <1>3, <1>4 DEF Typed

LEMMA AppendEvent ==
  ASSUME LoopTypes, NEW e \in Events, Send(e)
  PROVE  events' \in Seq(Events)
BY AppendFacts DEF LoopTypes, Send

\* The event the loop takes, and what it is of.
LEMMA EventTaken ==
  ASSUME LoopTypes, NEW kind, Taking(kind)
  PROVE  /\ events' \in Seq(Events) /\ events # <<>>
         /\ Head(events) \in Events /\ Head(events).kind = kind
         /\ kind \in {"req", "end", "cancel", "done"} => Which \in Requests
         /\ kind = "credit" => Which \in Streams
         /\ kind = "answer" => Which \in Peers
         /\ kind = "desired" => Which \in Pools /\ Head(events).to \in Numbers
         /\ kind \in {"req", "end", "cancel", "done", "credit"} =>
              Head(events) = Event(kind, Which)
<1>1. events \in Seq(Events) /\ events # <<>> /\ Head(events).kind = kind /\ events' = Tail(events)
  BY DEF LoopTypes, Taking
<1>2. Head(events) \in Events
  BY <1>1, SeqFacts
<1>3. events' \in Seq(Events)
  BY <1>1, TailFacts
<1> QED
  BY <1>1, <1>2, <1>3
     DEF Events, OfRequests, OfStreams, OfPeers, OfPools, WakeUps, Which, Event

LEMMA LeastAdmissible ==
  ASSUME PoolTypes, Admissible # {}
  PROVE  Oldest \in DOMAIN line /\ HasRoom(line[Oldest]) /\ line[Oldest] \in Requests
<1>1. Admissible \in SUBSET Nat /\ Admissible \subseteq DOMAIN line
  BY SeqFacts DEF Admissible, PoolTypes
<1>2. \E i \in Admissible : \A j \in Admissible : i <= j
  BY <1>1, LeastNatural
<1>3. Oldest \in Admissible
  BY <1>2 DEF Oldest
<1> QED
  BY <1>1, <1>3, SeqFacts DEF Admissible, PoolTypes

LEMMA SentTyped ==
  ASSUME Typed,
         \/ \E r \in Requests : SendReq(r) \/ SendInputEnd(r) \/ SendCancel(r)
         \/ \E s \in Streams : SendCredit(s)
         \/ \E p \in Peers : SendAnswer(p)
         \/ \E q \in Pools, n \in Numbers : SendDesired(q, n) \/ SetAvailable(q, n)
         \/ WakeLoop
  PROVE  Typed'
<1> USE DEF Typed
<1>1. ASSUME NEW r \in Requests, SendReq(r) \/ SendInputEnd(r) \/ SendCancel(r) PROVE Typed'
  <2>1. PICK k \in {"req", "end", "cancel"} : Send(Event(k, r))
    BY <1>1 DEF SendReq, SendInputEnd, SendCancel
  <2>2. Event(k, r) \in Events
    BY DEF Event, Events, OfRequests
  <2>3. LoopTypes'
    BY <1>1, <2>1, <2>2, AppendEvent DEF LoopTypes, SendReq, SendInputEnd, SendCancel
  <2>4. PoolTypes'
    BY <1>1 DEF PoolTypes, pooling, capacities, SendReq, SendInputEnd, SendCancel
  <2>5. RequestTypes'
    BY <1>1 DEF RequestTypes, ending, threads, SendReq, SendInputEnd, SendCancel, Waits
  <2>6. StreamTypes'
    BY <1>1 DEF StreamTypes, streams, SendReq, SendInputEnd, SendCancel
  <2> QED
    BY <2>3, <2>4, <2>5, <2>6
<1>2. ASSUME NEW s \in Streams, SendCredit(s) PROVE Typed'
  <2>1. Send(Event("credit", s)) /\ Event("credit", s) \in Events
    BY <1>2 DEF SendCredit, Event, Events, OfStreams
  <2>2. LoopTypes'
    BY <1>2, <2>1, AppendEvent DEF LoopTypes, SendCredit
  <2>3. PoolTypes' /\ RequestTypes'
    BY <1>2 DEF PoolTypes, RequestTypes, pooling, capacities, ending, threads, SendCredit, Waits
  <2>4. StreamTypes'
    BY <1>2 DEF StreamTypes, streams, SendCredit
  <2> QED
    BY <2>2, <2>3, <2>4
<1>3. ASSUME NEW p \in Peers, SendAnswer(p) PROVE Typed'
  <2>1. Send(Event("answer", p)) /\ Event("answer", p) \in Events
    BY <1>3 DEF SendAnswer, Event, Events, OfPeers
  <2>2. LoopTypes'
    BY <1>3, <2>1, AppendEvent DEF LoopTypes, SendAnswer
  <2>3. PoolTypes' /\ RequestTypes'
    BY <1>3 DEF PoolTypes, RequestTypes, pooling, capacities, ending, threads, SendAnswer, Waits
  <2>4. StreamTypes'
    BY <1>3 DEF StreamTypes, streams, SendAnswer
  <2> QED
    BY <2>2, <2>3, <2>4
<1>4. ASSUME NEW q \in Pools, NEW n \in Numbers, SendDesired(q, n) PROVE Typed'
  <2>1. Send(SetTo(q, n)) /\ SetTo(q, n) \in Events
    BY <1>4 DEF SendDesired, SetTo, Events, OfPools
  <2>2. LoopTypes'
    BY <1>4, <2>1, AppendEvent DEF LoopTypes, SendDesired
  <2>3. PoolTypes'
    BY <1>4, PoolsTyped DEF PoolTypes, capacities, SendDesired
  <2>4. RequestTypes' /\ StreamTypes'
    BY <1>4 DEF RequestTypes, StreamTypes, ending, threads, streams, outside, SendDesired, Waits
  <2> QED
    BY <2>2, <2>3, <2>4
<1>5. ASSUME NEW q \in Pools, NEW n \in Numbers, SetAvailable(q, n) PROVE Typed'
  <2>1. LoopTypes'
    BY <1>5 DEF LoopTypes, SetAvailable
  <2>2. PoolTypes'
    <3>1. n \in Nat
      BY PoolsTyped
    <3> QED
      BY <1>5, <3>1, PoolsTyped DEF PoolTypes, SetAvailable
  <2>3. RequestTypes' /\ StreamTypes'
    BY <1>5 DEF RequestTypes, StreamTypes, ending, threads, streams, outside, SetAvailable, Waits
  <2> QED
    BY <2>1, <2>2, <2>3
<1>6. ASSUME WakeLoop PROVE Typed'
  <2>1. Send([kind |-> "poolsChanged"]) /\ [kind |-> "poolsChanged"] \in Events
    BY <1>6 DEF WakeLoop, Events, WakeUps
  <2>2. LoopTypes'
    BY <1>6, <2>1, AppendEvent DEF LoopTypes, WakeLoop
  <2>3. PoolTypes'
    BY <1>6, PoolsTyped DEF PoolTypes, capacities, WakeLoop
  <2>4. RequestTypes' /\ StreamTypes'
    BY <1>6 DEF RequestTypes, StreamTypes, ending, threads, streams, outside, WakeLoop, Waits
  <2> QED
    BY <2>2, <2>3, <2>4
<1> QED
  BY <1>1, <1>2, <1>3, <1>4, <1>5, <1>6

LEMMA SpawnTyped ==
  ASSUME Typed, NEW r \in Requests, Spawn(r)
  PROVE  /\ active' \in [Pools -> Int]
         /\ claim' \in [Requests -> {"none", "open", "handler", "cancel"}]
         /\ handler' \in [Requests -> {"none", "working", "concluded", "gone"}]
BY DEF Spawn, Typed, PoolTypes, RequestTypes, Counted

LEMMA LoopTyped ==
  ASSUME Typed, Loop
  PROVE  Typed'
<1> USE DEF Typed
<1>1. CASE AdmitNext
  <2>1. Oldest \in DOMAIN line /\ line[Oldest] \in Requests
    BY <1>1, LeastAdmissible DEF AdmitNext
  <2>2. line' \in Seq(Requests)
    BY <1>1, <2>1, RemovedAt DEF AdmitNext, PoolTypes
  <2>3. PoolTypes'
    BY <1>1, <2>1, <2>2, SpawnTyped DEF AdmitNext, PoolTypes, capacities
  <2>4. RequestTypes'
    BY <1>1, <2>1, SpawnTyped DEF AdmitNext, RequestTypes, outside, Waits
  <2>5. LoopTypes' /\ StreamTypes'
    BY <1>1 DEF AdmitNext, LoopTypes, StreamTypes, streams, outside
  <2> QED
    BY <2>3, <2>4, <2>5
<1>2. CASE NobodyToAdmit
  <2>1. LoopTypes'
    BY <1>2 DEF NobodyToAdmit, LoopTypes
  <2>2. PoolTypes' /\ RequestTypes' /\ StreamTypes'
    BY <1>2 DEF NobodyToAdmit, PoolTypes, RequestTypes, StreamTypes, pooling, capacities, ending,
                threads, streams, outside, Waits
  <2> QED
    BY <2>1, <2>2
<1>3. CASE HandleReq
  <2>1. Which \in Requests /\ LoopTypes'
    BY <1>3, EventTaken DEF HandleReq, LoopTypes, BackToDrain
  <2>2. PoolTypes'
    <3>1. line' = line \/ line' = Append(line, Which)
      BY <1>3 DEF HandleReq
    <3>2. line' \in Seq(Requests)
      <4>1. line \in Seq(Requests)
        BY DEF PoolTypes
      <4>2. Append(line, Which) \in Seq(Requests)
        BY <2>1, <4>1, AppendFacts
      <4> QED
        BY <3>1, <4>1, <4>2
    <3>3. active' \in [Pools -> Int]
      BY <1>3, <2>1, SpawnTyped DEF HandleReq, PoolTypes
    <3> QED
      BY <1>3, <3>2, <3>3 DEF HandleReq, PoolTypes, capacities
  <2>3. RequestTypes'
    <3>1. CASE Which \in Unserved
      BY <1>3, <2>1, <3>1 DEF HandleReq, RequestTypes, threads, outside, Waits
    <3>2. CASE Which \notin Unserved
      <4>1. /\ claim' \in [Requests -> {"none", "open", "handler", "cancel"}]
            /\ handler' \in [Requests -> {"none", "working", "concluded", "gone"}]
        BY <1>3, <2>1, <3>2, SpawnTyped DEF HandleReq, RequestTypes
      <4> QED
        BY <1>3, <2>1, <3>2, <4>1 DEF HandleReq, RequestTypes, outside, Waits
    <3> QED
      BY <3>1, <3>2
  <2>4. StreamTypes'
    BY <1>3 DEF HandleReq, StreamTypes, streams, outside
  <2> QED
    BY <2>1, <2>2, <2>3, <2>4
<1>4. CASE HandleInputEnd
  <2>1. Which \in Requests /\ LoopTypes'
    BY <1>4, EventTaken DEF HandleInputEnd, LoopTypes, BackToDrain
  <2>2. RequestTypes'
    BY <1>4, <2>1 DEF HandleInputEnd, RequestTypes, ending, threads, outside, Waits
  <2>3. PoolTypes' /\ StreamTypes'
    BY <1>4 DEF HandleInputEnd, PoolTypes, StreamTypes, pooling, capacities, streams, outside
  <2> QED
    BY <2>1, <2>2, <2>3
<1>5. CASE HandleAnswer
  <2>1. Which \in Peers /\ LoopTypes'
    BY <1>5, EventTaken DEF HandleAnswer, LoopTypes, BackToDrain
  <2>2. StreamTypes'
    BY <1>5, <2>1 DEF HandleAnswer, StreamTypes, streams, outside
  <2>3. PoolTypes' /\ RequestTypes'
    BY <1>5 DEF HandleAnswer, PoolTypes, RequestTypes, pooling, capacities, ending, threads, outside,
                Waits
  <2> QED
    BY <2>1, <2>2, <2>3
<1>6. CASE HandleCredit
  <2>1. Which \in Streams /\ LoopTypes'
    BY <1>6, EventTaken DEF HandleCredit, LoopTypes, BackToDrain
  <2>2. StreamTypes'
    BY <1>6, <2>1 DEF HandleCredit, StreamTypes, Gates, streams, outside
  <2>3. PoolTypes' /\ RequestTypes'
    BY <1>6 DEF HandleCredit, PoolTypes, RequestTypes, pooling, capacities, ending, threads, outside,
                Waits
  <2> QED
    BY <2>1, <2>2, <2>3
<1>7. CASE HandleDesired
  <2>1. Which \in Pools /\ Head(events).to \in Nat /\ LoopTypes'
    BY <1>7, EventTaken, PoolsTyped DEF HandleDesired, LoopTypes, BackToDrain
  <2>2. PoolTypes'
    BY <1>7, <2>1 DEF HandleDesired, PoolTypes
  <2>3. RequestTypes' /\ StreamTypes'
    BY <1>7 DEF HandleDesired, RequestTypes, StreamTypes, ending, threads, streams, outside, Waits
  <2> QED
    BY <2>1, <2>2, <2>3
<1>8. CASE HandleWake
  <2>1. LoopTypes'
    BY <1>8, EventTaken DEF HandleWake, LoopTypes, BackToDrain
  <2>2. PoolTypes' /\ RequestTypes' /\ StreamTypes'
    BY <1>8 DEF HandleWake, PoolTypes, RequestTypes, StreamTypes, pooling, capacities, ending,
                threads, streams, outside, Waits
  <2> QED
    BY <2>1, <2>2
<1>9. CASE HandleCancel
  <2>1. Which \in Requests /\ events' \in Seq(Events)
    BY <1>9, EventTaken DEF HandleCancel
  <2>2. LoopTypes'
    BY <1>9, <2>1 DEF HandleCancel, LoopTypes, BackToDrain
  <2>3. PoolTypes'
    <3>1. line' \in Seq(Requests)
      BY <1>9, RemovedAt DEF HandleCancel, PoolTypes
    <3> QED
      BY <1>9, <3>1 DEF HandleCancel, PoolTypes, capacities
  <2>4. RequestTypes'
    <3>1. /\ claim' \in [Requests -> {"none", "open", "handler", "cancel"}]
          /\ cancelled' \subseteq Requests
      BY <1>9, <2>1 DEF HandleCancel, RequestTypes
    <3>2. incoming' \in [Requests -> {"none", "open", "ended", "cut", "read"}]
      BY <1>9, <2>1 DEF HandleCancel, CutInput, RequestTypes
    <3>3. terminals' = terminals \/ terminals' = [terminals EXCEPT ![Which] = @ + 1]
      BY <1>9 DEF HandleCancel
    <3>4. terminals' \in [Requests -> Nat]
      BY <2>1, <3>3 DEF RequestTypes
    <3> QED
      BY <1>9, <3>1, <3>2, <3>4 DEF HandleCancel, RequestTypes, threads, outside, Waits
  <2>5. StreamTypes'
    BY <1>9 DEF HandleCancel, StreamTypes, streams, outside
  <2> QED
    BY <2>2, <2>3, <2>4, <2>5
<1>10. CASE CloseGates
  <2>1. loop.of \in Requests /\ LoopTypes'
    BY <1>10 DEF CloseGates, LoopTypes
  <2>2. StreamTypes'
    BY <1>10, <2>1 DEF CloseGates, ClosedFor, StreamTypes, Streams, Gates, outside
  <2>3. PoolTypes' /\ RequestTypes'
    BY <1>10 DEF CloseGates, PoolTypes, RequestTypes, pooling, capacities, ending, threads, outside,
                 Waits
  <2> QED
    BY <2>1, <2>2, <2>3
<1>11. CASE SweepPeers
  <2>1. LoopTypes'
    BY <1>11 DEF SweepPeers, LoopTypes, BackToDrain
  <2>2. StreamTypes'
    BY <1>11 DEF SweepPeers, StreamTypes, streams
  <2>3. PoolTypes' /\ RequestTypes'
    BY <1>11 DEF SweepPeers, PoolTypes, RequestTypes, pooling, capacities, ending, threads, Waits
  <2> QED
    BY <2>1, <2>2, <2>3
<1>12. CASE HandleDone
  <2>1. Which \in Requests /\ LoopTypes'
    BY <1>12, EventTaken DEF HandleDone, LoopTypes, BackToDrain
  <2>2. PoolTypes'
    BY <1>12 DEF HandleDone, Released, PoolTypes, capacities
  <2>3. RequestTypes'
    BY <1>12, <2>1 DEF HandleDone, RequestTypes, threads, outside, Waits
  <2>4. StreamTypes'
    BY <1>12, <2>1 DEF HandleDone, ClosedFor, StreamTypes, Streams, Gates, outside
  <2> QED
    BY <2>1, <2>2, <2>3, <2>4
<1> QED
  BY <1>1, <1>2, <1>3, <1>4, <1>5, <1>6, <1>7, <1>8, <1>9, <1>10, <1>11, <1>12 DEF Loop

LEMMA HandlerTyped ==
  ASSUME Typed, NEW r \in Requests, Handler(r)
  PROVE  Typed'
<1> USE DEF Typed
<1>1. ASSUME NEW s \in Streams, Start(r, s) PROVE Typed'
  BY <1>1, StreamsTyped
     DEF Start, LoopTypes, PoolTypes, RequestTypes, StreamTypes, Gates, pooling, capacities, ending,
         threads, outside, Waits
<1>2. ASSUME NEW s \in Streams, Write(r, s) PROVE Typed'
  <2>1. StreamTypes'
    <3>1. left' \in [Streams -> Nat] /\ owed' \in [Streams -> Nat]
      BY <1>2 DEF Write, StreamTypes
    <3>2. gate' \in [Streams -> Gates]
      BY <1>2 DEF Write, StreamTypes, Gates
    <3> QED
      BY <1>2, <3>1, <3>2 DEF Write, StreamTypes
  <2>2. RequestTypes'
    BY <1>2 DEF Write, RequestTypes, ending, Waits
  <2>3. LoopTypes' /\ PoolTypes'
    BY <1>2 DEF Write, LoopTypes, PoolTypes, pooling, capacities
  <2> QED
    BY <2>1, <2>2, <2>3
<1>3. ASSUME NEW p \in Peers, CallPeer(r, p) PROVE Typed'
  BY <1>3
     DEF CallPeer, LoopTypes, PoolTypes, RequestTypes, StreamTypes, pooling, capacities, ending,
         threads, streams, Waits
<1>4. ASSUME NEW p \in Peers, AwaitAnswer(r, p) PROVE Typed'
  <2>1. RequestTypes'
    BY <1>4 DEF AwaitAnswer, RequestTypes, ending, outside, Waits
  <2>2. LoopTypes' /\ PoolTypes' /\ StreamTypes'
    BY <1>4 DEF AwaitAnswer, LoopTypes, PoolTypes, StreamTypes, pooling, capacities, streams, outside
  <2> QED
    BY <2>1, <2>2
<1>5. ASSUME ReadInput(r) PROVE Typed'
  BY <1>5
     DEF ReadInput, LoopTypes, PoolTypes, RequestTypes, StreamTypes, pooling, capacities, ending,
         streams, outside, Waits
<1>6. ASSUME Resume(r) PROVE Typed'
  <2>1. /\ on' \in [Requests -> Waits]
        /\ incoming' \in [Requests -> {"none", "open", "ended", "cut", "read"}]
    BY <1>6 DEF Resume, RequestTypes, Waits
  <2>2. RequestTypes'
    BY <1>6, <2>1 DEF Resume, RequestTypes, ending, outside
  <2>3. StreamTypes'
    BY <1>6 DEF Resume, StreamTypes, streams, outside
  <2>4. LoopTypes' /\ PoolTypes'
    BY <1>6 DEF Resume, LoopTypes, PoolTypes, pooling, capacities
  <2> QED
    BY <2>2, <2>3, <2>4
<1>7. ASSUME Conclude(r) PROVE Typed'
  <2>1. /\ claim' \in [Requests -> {"none", "open", "handler", "cancel"}]
        /\ terminals' \in [Requests -> Nat]
    BY <1>7 DEF Conclude, RequestTypes
  <2>2. RequestTypes'
    BY <1>7, <2>1 DEF Conclude, RequestTypes, outside, Waits
  <2>3. LoopTypes' /\ PoolTypes' /\ StreamTypes'
    BY <1>7 DEF Conclude, LoopTypes, PoolTypes, StreamTypes, pooling, capacities, streams, outside
  <2> QED
    BY <2>2, <2>3
<1>8. ASSUME Report(r) PROVE Typed'
  <2>1. Send(Event("done", r)) /\ Event("done", r) \in Events
    BY <1>8 DEF Report, Event, Events, OfRequests
  <2>2. LoopTypes'
    BY <1>8, <2>1, AppendEvent DEF LoopTypes, Report
  <2>3. PoolTypes' /\ RequestTypes' /\ StreamTypes'
    BY <1>8 DEF Report, PoolTypes, RequestTypes, StreamTypes, pooling, capacities, ending, streams,
                outside, Waits
  <2> QED
    BY <2>2, <2>3
<1> QED
  BY <1>1, <1>2, <1>3, <1>4, <1>5, <1>6, <1>7, <1>8 DEF Handler

LEMMA NextTyped ==
  ASSUME Typed, [Next]_vars
  PROVE  Typed'
<1>1. CASE UNCHANGED vars
  BY <1>1
     DEF vars, Typed, LoopTypes, PoolTypes, RequestTypes, StreamTypes, pooling, capacities, ending,
         threads, streams, outside, Waits
<1>2. CASE Next
  BY <1>2, LoopTyped, HandlerTyped, SentTyped DEF Next
<1> QED
  BY <1>1, <1>2

-----------------------------------------------------------------------------
(* What is on its way to the loop.                                         *)

WakeUp == [kind |-> "poolsChanged"]

Arrivals(r) == Times(Event("req", r), events)
Reports(r) == Times(Event("done", r), events)
Grants(s) == Times(Event("credit", s), events)
Wakes == Times(WakeUp, events)

LEMMA CountsTyped ==
  ASSUME LoopTypes
  PROVE  /\ \A r \in Requests : Arrivals(r) \in Nat /\ Reports(r) \in Nat
         /\ \A s \in Streams : Grants(s) \in Nat
         /\ Wakes \in Nat /\ (events = <<>> => Wakes = 0)
<1>1. \A e : Times(e, events) \in Nat
  BY TimesType DEF LoopTypes
<1>2. ASSUME events = <<>> PROVE Wakes = 0
  <2>1. DOMAIN events = {}
    BY <1>2
  <2>2. Times(WakeUp, events) = 0 <=> \A i \in DOMAIN events : events[i] # WakeUp
    BY TimesType DEF LoopTypes
  <2> QED
    BY <2>1, <2>2 DEF Wakes
<1> QED
  BY <1>1, <1>2 DEF Arrivals, Reports, Grants, Wakes

LEMMA SentCounts ==
  ASSUME LoopTypes, NEW e \in Events, Send(e)
  PROVE  /\ \A r \in Requests :
              /\ Arrivals(r)' = Arrivals(r) + (IF e = Event("req", r) THEN 1 ELSE 0)
              /\ Reports(r)' = Reports(r) + (IF e = Event("done", r) THEN 1 ELSE 0)
         /\ \A s \in Streams : Grants(s)' = Grants(s) + (IF e = Event("credit", s) THEN 1 ELSE 0)
         /\ Wakes' = Wakes + (IF e = WakeUp THEN 1 ELSE 0)
BY TimesAppend DEF LoopTypes, Send, Arrivals, Reports, Grants, Wakes

LEMMA HeadCounted ==
  ASSUME NEW S, NEW s \in Seq(S), s # <<>>, NEW e, Head(s) = e
  PROVE  Times(e, s) > 0
<1>1. Times(e, s) \in Nat /\ (Times(e, s) = 0 <=> \A i \in DOMAIN s : s[i] # e)
  BY TimesType
<1>2. 1 \in DOMAIN s /\ s[1] = e
  BY SeqFacts
<1> QED
  BY <1>1, <1>2

LEMMA TakenCounts ==
  ASSUME LoopTypes, NEW kind, Taking(kind)
  PROVE  /\ \A r \in Requests :
              /\ Arrivals(r)' = Arrivals(r) - (IF Head(events) = Event("req", r) THEN 1 ELSE 0)
              /\ Head(events) = Event("req", r) => Arrivals(r) > 0
              /\ Reports(r)' = Reports(r) - (IF Head(events) = Event("done", r) THEN 1 ELSE 0)
              /\ Head(events) = Event("done", r) => Reports(r) > 0
         /\ \A s \in Streams :
              /\ Grants(s)' = Grants(s) - (IF Head(events) = Event("credit", s) THEN 1 ELSE 0)
              /\ Head(events) = Event("credit", s) => Grants(s) > 0
<1>1. events \in Seq(Events) /\ events # <<>> /\ events' = Tail(events)
  BY DEF LoopTypes, Taking
<1>2. \A e : /\ Times(e, Tail(events)) = Times(e, events) - (IF Head(events) = e THEN 1 ELSE 0)
             /\ Head(events) = e => Times(e, events) > 0
  BY <1>1, TimesTail, HeadCounted
<1> QED
  BY <1>1, <1>2 DEF Arrivals, Reports, Grants

-----------------------------------------------------------------------------
(* The line.                                                               *)

InLine(r) == \E i \in DOMAIN line : line[i] = r

\* Nobody is in line twice.
LineOnce == \A i, j \in DOMAIN line : line[i] = line[j] => i = j

LEMMA LeftLine ==
  ASSUME PoolTypes, LineOnce, NEW k \in DOMAIN line, line' = RemoveAt(line, k)
  PROVE  LineOnce' /\ \A r : InLine(r)' <=> InLine(r) /\ r # line[k]
<1> DEFINE old(i) == IF i < k THEN i ELSE i + 1
<1>1. Len(line) \in Nat /\ DOMAIN line = 1..Len(line)
  BY SeqFacts DEF PoolTypes
<1>2. DOMAIN line' = 1..(Len(line) - 1) /\ \A i \in DOMAIN line' : line'[i] = line[old(i)]
  BY RemovedAt DEF PoolTypes
<1>3. \A i \in DOMAIN line' : old(i) \in DOMAIN line /\ old(i) # k
  BY <1>1, <1>2
<1>4. \A i, j \in DOMAIN line' : old(i) = old(j) => i = j
  BY <1>1, <1>2
<1>5. \A j \in DOMAIN line : j # k => \E i \in DOMAIN line' : old(i) = j
  <2> TAKE j \in DOMAIN line
  <2> HAVE j # k
  <2>1. CASE j < k
    <3>1. j \in DOMAIN line' /\ old(j) = j
      BY <1>1, <1>2, <2>1
    <3> QED
      BY <3>1
  <2>2. CASE j > k
    <3>1. j - 1 \in DOMAIN line' /\ old(j - 1) = j
      BY <1>1, <1>2, <2>2
    <3> QED
      BY <3>1
  <2> QED
    BY <1>1, <2>1, <2>2
<1> HIDE DEF old
<1>6. LineOnce'
  BY <1>2, <1>3, <1>4 DEF LineOnce
<1>7. \A r : InLine(r)' <=> InLine(r) /\ r # line[k]
  BY <1>2, <1>3, <1>5 DEF LineOnce, InLine
<1> QED
  BY <1>6, <1>7

LEMMA JoinedLine ==
  ASSUME PoolTypes, LineOnce, NEW x \in Requests, ~InLine(x), line' = Append(line, x)
  PROVE  LineOnce' /\ \A r : InLine(r)' <=> InLine(r) \/ r = x
<1>1. /\ DOMAIN line' = (DOMAIN line) \cup {Len(line) + 1} /\ Len(line) + 1 \notin DOMAIN line
      /\ \A i \in DOMAIN line : line'[i] = line[i]
      /\ line'[Len(line) + 1] = x
  BY AppendFacts DEF PoolTypes
<1> QED
  BY <1>1 DEF InLine, LineOnce

-----------------------------------------------------------------------------
(* A request comes in once: until the loop has heard of it, and while it   *)
(* is in line, nothing has been done for it.                               *)

Untouched(r) == claim[r] = "none" /\ handler[r] = "none" /\ terminals[r] = 0 /\ Reports(r) = 0

Entrance(r) ==
  /\ host[r] = "idle" \/ Arrivals(r) > 0 \/ InLine(r) => Untouched(r)
  /\ host[r] = "idle" => Arrivals(r) = 0 /\ ~InLine(r)
  /\ Arrivals(r) <= 1 /\ (Arrivals(r) = 1 => ~InLine(r))

\* And it goes out once: it is claimed from its admission to its handler's
\* report, and the claim says who has ended it or who will.
Exit(r) ==
  /\ claim[r] = "none" => handler[r] \in {"none", "gone"} /\ Reports(r) = 0
  /\ claim[r] # "none" =>
       handler[r] # "none" /\ Reports(r) = IF handler[r] = "gone" THEN 1 ELSE 0
  /\ claim[r] = "open" => handler[r] = "working"
  /\ claim[r] \in {"open", "cancel"} => terminals[r] = 0
  /\ claim[r] = "cancel" <=> r \in cancelled
  /\ terminals[r] <= 1

RequestSound(r) == Entrance(r) /\ Exit(r)

\* A step that does not concern the request.
Aside(r) ==
  /\ host[r]' = host[r] /\ claim[r]' = claim[r] /\ handler[r]' = handler[r]
  /\ terminals[r]' = terminals[r] /\ ((r \in cancelled)' <=> r \in cancelled)
  /\ Arrivals(r)' = Arrivals(r) /\ Reports(r)' = Reports(r) /\ (InLine(r)' <=> InLine(r))

LEMMA AsideSound ==
  ASSUME NEW r \in Requests, RequestSound(r), Aside(r)
  PROVE  RequestSound(r)'
BY DEF RequestSound, Aside, Entrance, Exit, Untouched

\* The events of the queue and the requests they are of.
LEMMA EventsDiffer ==
  /\ \A k1, k2, x, y : Event(k1, x) = Event(k2, y) <=> k1 = k2 /\ x = y
  /\ \A k, x : Event(k, x) # WakeUp
  /\ \A q, n, k, x : k # "desired" => SetTo(q, n) # Event(k, x)
BY DEF Event, WakeUp, SetTo

Requested == LineOnce /\ \A r \in Requests : RequestSound(r)

LEMMA SameLine ==
  ASSUME line' = line
  PROVE  (LineOnce => LineOnce') /\ \A r : InLine(r)' = InLine(r)
BY DEF LineOnce, InLine

LEMMA SentSound ==
  ASSUME Typed, Requested,
         \/ \E r \in Requests : SendReq(r) \/ SendInputEnd(r) \/ SendCancel(r)
         \/ \E s \in Streams : SendCredit(s)
         \/ \E p \in Peers : SendAnswer(p)
         \/ \E q \in Pools, n \in Numbers : SendDesired(q, n) \/ SetAvailable(q, n)
         \/ WakeLoop
  PROVE  Requested'
<1>1. ASSUME NEW r \in Requests, SendReq(r) PROVE Requested'
  <2>1. /\ Arrivals(r)' = Arrivals(r) + 1 /\ Reports(r)' = Reports(r)
        /\ \A o \in Requests \ {r} : Arrivals(o)' = Arrivals(o) /\ Reports(o)' = Reports(o)
    <3>1. Event("req", r) \in Events /\ Send(Event("req", r))
      BY <1>1 DEF SendReq, Event, Events, OfRequests
    <3> QED
      BY <3>1, SentCounts, CountsTyped, EventsDiffer DEF Typed
  <2>2. LineOnce' /\ \A o : InLine(o)' = InLine(o)
    BY <1>1, SameLine DEF Requested, SendReq, pooling
  <2>3. /\ claim' = claim /\ handler' = handler /\ terminals' = terminals /\ cancelled' = cancelled
        /\ host[r] = "idle" /\ host[r]' \in {"sending", "sent"}
        /\ \A o \in Requests \ {r} : host[o]' = host[o]
    BY <1>1 DEF SendReq, ending, threads, Typed, RequestTypes
  <2>4. RequestSound(r)'
    BY <2>1, <2>2, <2>3 DEF Requested, RequestSound, Entrance, Exit, Untouched
  <2>5. \A o \in Requests \ {r} : RequestSound(o)'
    BY <2>1, <2>2, <2>3, AsideSound DEF Requested, Aside
  <2> QED
    BY <2>2, <2>4, <2>5 DEF Requested
<1>2. ASSUME NEW r \in Requests, SendInputEnd(r) \/ SendCancel(r) PROVE Requested'
  <2>1. \A o \in Requests : Arrivals(o)' = Arrivals(o) /\ Reports(o)' = Reports(o)
    <3>1. PICK k \in {"end", "cancel"} : Send(Event(k, r))
      BY <1>2 DEF SendInputEnd, SendCancel
    <3>2. Event(k, r) \in Events
      BY DEF Event, Events, OfRequests
    <3> QED
      BY <3>1, <3>2, SentCounts, CountsTyped, EventsDiffer DEF Typed
  <2>2. LineOnce' /\ \A o : InLine(o)' = InLine(o)
    BY <1>2, SameLine DEF Requested, SendInputEnd, SendCancel, pooling
  <2>3. /\ claim' = claim /\ handler' = handler /\ terminals' = terminals /\ cancelled' = cancelled
        /\ \A o \in Requests : host[o]' = "idle" <=> host[o] = "idle"
    BY <1>2 DEF SendInputEnd, SendCancel, ending, threads, Typed, RequestTypes
  <2>4. \A o \in Requests : RequestSound(o)'
    BY <2>1, <2>2, <2>3 DEF Requested, RequestSound, Entrance, Exit, Untouched
  <2> QED
    BY <2>2, <2>4 DEF Requested
<1>3. ASSUME claim' = claim, handler' = handler, terminals' = terminals, cancelled' = cancelled,
             host' = host, line' = line,
             NEW e \in Events, Send(e) \/ events' = events,
             \A o \in Requests : e # Event("req", o) /\ e # Event("done", o)
      PROVE  Requested'
  <2>1. \A o \in Requests : Arrivals(o)' = Arrivals(o) /\ Reports(o)' = Reports(o)
    <3>1. CASE Send(e)
      BY <1>3, <3>1, SentCounts, CountsTyped DEF Typed
    <3>2. CASE events' = events
      BY <3>2 DEF Arrivals, Reports
    <3> QED
      BY <1>3, <3>1, <3>2
  <2>2. LineOnce' /\ \A o : InLine(o)' = InLine(o)
    BY <1>3, SameLine DEF Requested
  <2>3. \A o \in Requests : RequestSound(o)'
    BY <1>3, <2>1, <2>2, AsideSound DEF Requested, Aside
  <2> QED
    BY <2>2, <2>3 DEF Requested
<1>4. ASSUME NEW s \in Streams, SendCredit(s) PROVE Requested'
  <2>1. Send(Event("credit", s)) /\ Event("credit", s) \in Events
    BY <1>4 DEF SendCredit, Event, Events, OfStreams
  <2> QED
    BY <1>3, <1>4, <2>1, EventsDiffer DEF SendCredit, pooling, ending, threads
<1>5. ASSUME NEW p \in Peers, SendAnswer(p) PROVE Requested'
  <2>1. Send(Event("answer", p)) /\ Event("answer", p) \in Events
    BY <1>5 DEF SendAnswer, Event, Events, OfPeers
  <2> QED
    BY <1>3, <1>5, <2>1, EventsDiffer DEF SendAnswer, pooling, ending, threads
<1>6. ASSUME NEW q \in Pools, NEW n \in Numbers, SendDesired(q, n) PROVE Requested'
  <2>1. Send(SetTo(q, n)) /\ SetTo(q, n) \in Events
    BY <1>6 DEF SendDesired, SetTo, Events, OfPools
  <2> QED
    BY <1>3, <1>6, <2>1, EventsDiffer DEF SendDesired, outside, ending, threads
<1>7. WakeUp \in Events
  BY DEF WakeUp, Events, WakeUps
<1>8. ASSUME NEW q \in Pools, NEW n \in Numbers, SetAvailable(q, n) PROVE Requested'
  BY <1>3, <1>7, <1>8, EventsDiffer DEF SetAvailable, outside, ending, threads
<1>9. ASSUME WakeLoop PROVE Requested'
  <2>1. Send(WakeUp)
    BY <1>9 DEF WakeLoop, WakeUp
  <2> QED
    BY <1>3, <1>7, <1>9, <2>1, EventsDiffer DEF WakeLoop, outside, ending, threads
<1> QED
  BY <1>1, <1>2, <1>4, <1>5, <1>6, <1>8, <1>9

\* Who is admitted: claimed, and handed to a handler.
LEMMA SpawnSound ==
  ASSUME Typed, NEW r \in Requests, RequestSound(r), Untouched(r), Spawn(r),
         host' = host, terminals' = terminals, cancelled' = cancelled,
         Arrivals(r)' = 0, Reports(r)' = Reports(r), ~InLine(r)', host[r] # "idle"
  PROVE  RequestSound(r)'
<1>1. claim[r]' = "open" /\ handler[r]' = "working"
  BY DEF Spawn, Typed, RequestTypes
<1>2. Reports(r)' = 0 /\ terminals[r]' = 0 /\ r \notin cancelled'
  BY DEF Untouched, RequestSound, Exit
<1>3. Entrance(r)'
  BY <1>1 DEF Entrance
<1>4. Exit(r)'
  BY <1>1, <1>2 DEF Exit
<1> QED
  BY <1>3, <1>4 DEF RequestSound

\* The loop's steps that concern no request.
LEMMA QuietTake ==
  ASSUME Typed, Requested, NEW kind, kind \notin {"req", "done"}, Taking(kind),
         claim' = claim, handler' = handler, terminals' = terminals, cancelled' = cancelled,
         host' = host, line' = line
  PROVE  Requested'
<1>1. \A r \in Requests : Head(events) # Event("req", r) /\ Head(events) # Event("done", r)
  BY DEF Taking, Event
<1>2. \A r \in Requests : Arrivals(r)' = Arrivals(r) /\ Reports(r)' = Reports(r)
  BY <1>1, TakenCounts, CountsTyped DEF Typed
<1>3. LineOnce' /\ \A r : InLine(r)' = InLine(r)
  BY SameLine DEF Requested
<1>4. \A r \in Requests : RequestSound(r)'
  BY <1>2, <1>3, AsideSound DEF Requested, Aside
<1> QED
  BY <1>3, <1>4 DEF Requested

LEMMA QuietStep ==
  ASSUME Requested, events' = events, claim' = claim, handler' = handler,
         terminals' = terminals, cancelled' = cancelled, host' = host, line' = line
  PROVE  Requested'
<1>1. LineOnce' /\ \A r : InLine(r)' = InLine(r)
  BY SameLine DEF Requested
<1>2. \A r \in Requests : RequestSound(r)'
  BY <1>1, AsideSound DEF Requested, Aside, Arrivals, Reports
<1> QED
  BY <1>1, <1>2 DEF Requested

LEMMA AdmitSound ==
  ASSUME Typed, Requested, AdmitNext
  PROVE  Requested'
<1>1. PICK r \in Requests :
        /\ r = line[Oldest] /\ Oldest \in DOMAIN line
        /\ Spawn(r) /\ line' = RemoveAt(line, Oldest)
  BY LeastAdmissible DEF AdmitNext, Typed
<1>2. InLine(r)
  BY <1>1 DEF InLine
<1>3. LineOnce' /\ \A o : InLine(o)' <=> InLine(o) /\ o # r
  BY <1>1, LeftLine DEF Typed, Requested
<1>4. \A o \in Requests : Arrivals(o)' = Arrivals(o) /\ Reports(o)' = Reports(o)
  BY DEF AdmitNext, Arrivals, Reports
<1>5. host' = host /\ terminals' = terminals /\ cancelled' = cancelled
  BY DEF AdmitNext, outside
<1>6. RequestSound(r)'
  <2>1. RequestSound(r) /\ Untouched(r) /\ host[r] # "idle" /\ Arrivals(r) = 0
    BY <1>1, <1>2, CountsTyped DEF Requested, RequestSound, Entrance, Typed
  <2> QED
    BY <1>1, <1>3, <1>4, <1>5, <2>1, SpawnSound
<1>7. ASSUME NEW o \in Requests, o # r PROVE RequestSound(o)'
  <2>1. claim[o]' = claim[o] /\ handler[o]' = handler[o]
    BY <1>1, <1>7 DEF Spawn, Typed, RequestTypes
  <2> QED
    BY <1>3, <1>4, <1>5, <1>7, <2>1, AsideSound DEF Requested, Aside
<1> QED
  BY <1>3, <1>6, <1>7 DEF Requested

\* A request's REQ at the head of the queue: the loop has not heard of it yet.
LEMMA ReqSound ==
  ASSUME Typed, Requested, HandleReq
  PROVE  Requested'
<1>1. PICK r : r = Which
  OBVIOUS
<1>2. r \in Requests /\ Head(events) = Event("req", r)
  BY <1>1, EventTaken DEF HandleReq, Typed
<1>3. Arrivals(r) > 0
  BY <1>2, TakenCounts DEF HandleReq, Typed
<1>4. /\ Arrivals(r) = 1 /\ Untouched(r) /\ ~InLine(r) /\ host[r] # "idle"
      /\ Arrivals(r)' = 0 /\ Reports(r)' = Reports(r)
  <2>1. Arrivals(r)' = Arrivals(r) - 1 /\ Reports(r)' = Reports(r)
    BY <1>2, TakenCounts, CountsTyped, EventsDiffer DEF HandleReq, Typed
  <2>2. Arrivals(r) \in Nat /\ RequestSound(r)
    BY <1>2, CountsTyped DEF Typed, Requested
  <2> QED
    BY <1>3, <2>1, <2>2 DEF RequestSound, Entrance
<1>5. \A o \in Requests \ {r} : Arrivals(o)' = Arrivals(o) /\ Reports(o)' = Reports(o)
  BY <1>2, TakenCounts, CountsTyped, EventsDiffer DEF HandleReq, Typed
<1>6. host' = host /\ cancelled' = cancelled
  BY DEF HandleReq, outside
<1>7. CASE r \in Unserved
  <2>1. /\ terminals' = [terminals EXCEPT ![r] = @ + 1]
        /\ line' = line /\ claim' = claim /\ handler' = handler
    BY <1>1, <1>7 DEF HandleReq
  <2>2. LineOnce' /\ \A o : InLine(o)' = InLine(o)
    BY <2>1, SameLine DEF Requested
  <2>3. terminals[r]' = 1 /\ \A o \in Requests \ {r} : terminals[o]' = terminals[o]
    BY <1>2, <1>4, <2>1 DEF Typed, RequestTypes, Untouched
  <2>4. Entrance(r)'
    BY <1>4, <1>6, <2>2 DEF Entrance
  <2>5. Exit(r)'
    BY <1>2, <1>4, <1>6, <2>1, <2>3 DEF Exit, Untouched, Requested, RequestSound
  <2>6. \A o \in Requests \ {r} : RequestSound(o)'
    BY <1>5, <1>6, <2>1, <2>2, <2>3, AsideSound DEF Requested, Aside
  <2> QED
    BY <2>2, <2>4, <2>5, <2>6 DEF Requested, RequestSound
<1>8. CASE r \notin Unserved /\ HasRoom(r) /\ Admissible = {}
  <2>1. Spawn(r) /\ line' = line /\ terminals' = terminals
    BY <1>1, <1>8 DEF HandleReq
  <2>2. LineOnce' /\ \A o : InLine(o)' = InLine(o)
    BY <2>1, SameLine DEF Requested
  <2>3. RequestSound(r)'
    BY <1>2, <1>4, <1>6, <2>1, <2>2, SpawnSound DEF Requested
  <2>4. ASSUME NEW o \in Requests, o # r PROVE RequestSound(o)'
    <3>1. claim[o]' = claim[o] /\ handler[o]' = handler[o]
      BY <2>1, <2>4 DEF Spawn, Typed, RequestTypes
    <3> QED
      BY <1>5, <1>6, <2>1, <2>2, <2>4, <3>1, AsideSound DEF Requested, Aside
  <2> QED
    BY <2>2, <2>3, <2>4 DEF Requested
<1>9. CASE r \notin Unserved /\ ~(HasRoom(r) /\ Admissible = {})
  <2>1. /\ line' = Append(line, r)
        /\ claim' = claim /\ handler' = handler /\ terminals' = terminals
    BY <1>1, <1>9 DEF HandleReq
  <2>2. LineOnce' /\ \A o : InLine(o)' <=> InLine(o) \/ o = r
    BY <1>2, <1>4, <2>1, JoinedLine DEF Requested, Typed
  <2>3. Entrance(r)' /\ Exit(r)'
    BY <1>2, <1>4, <1>6, <2>1, <2>2 DEF Requested, RequestSound, Entrance, Exit, Untouched
  <2>4. \A o \in Requests \ {r} : RequestSound(o)'
    BY <1>5, <1>6, <2>1, <2>2, AsideSound DEF Requested, Aside
  <2> QED
    BY <2>2, <2>3, <2>4 DEF Requested, RequestSound
<1> QED
  BY <1>7, <1>8, <1>9

LEMMA CancelSound ==
  ASSUME Typed, Requested, HandleCancel
  PROVE  Requested'
<1>1. PICK r : r = Which
  OBVIOUS
<1>2. r \in Requests /\ Head(events) = Event("cancel", r)
  BY <1>1, EventTaken DEF HandleCancel, Typed
<1>3. \A o \in Requests : Arrivals(o)' = Arrivals(o) /\ Reports(o)' = Reports(o)
  BY <1>2, TakenCounts, CountsTyped, EventsDiffer DEF HandleCancel, Typed
<1>4. host' = host /\ handler' = handler
  BY DEF HandleCancel, outside, threads
<1>5. RequestSound(r)
  BY <1>2 DEF Requested
<1>6. CASE \E i \in DOMAIN line :
             /\ line[i] = r /\ line' = RemoveAt(line, i)
             /\ terminals' = [terminals EXCEPT ![r] = @ + 1]
             /\ claim' = claim /\ cancelled' = cancelled
  <2>1. PICK i \in DOMAIN line : line[i] = r /\ line' = RemoveAt(line, i)
    BY <1>6
  <2>2. LineOnce' /\ \A o : InLine(o)' <=> InLine(o) /\ o # r
    BY <2>1, LeftLine DEF Typed, Requested
  <2>3. InLine(r) /\ Untouched(r) /\ host[r] # "idle"
    BY <1>5, <2>1 DEF InLine, RequestSound, Entrance
  <2>4. Arrivals(r) = 0
    BY <1>2, <1>5, <2>3, CountsTyped DEF RequestSound, Entrance, Typed
  <2>5. terminals[r]' = 1 /\ \A o \in Requests \ {r} : terminals[o]' = terminals[o]
    BY <1>2, <1>6, <2>3 DEF Typed, RequestTypes, Untouched
  <2>6. Entrance(r)'
    BY <1>2, <1>3, <1>4, <2>2, <2>3, <2>4 DEF Entrance
  <2>7. Exit(r)'
    BY <1>2, <1>3, <1>4, <1>5, <1>6, <2>3, <2>5 DEF Exit, Untouched, RequestSound
  <2>8. \A o \in Requests \ {r} : RequestSound(o)'
    BY <1>3, <1>4, <1>6, <2>2, <2>5, AsideSound DEF Requested, Aside
  <2> QED
    BY <2>2, <2>6, <2>7, <2>8 DEF Requested, RequestSound
<1>7. CASE /\ claim[r] = "open" /\ claim' = [claim EXCEPT ![r] = "cancel"]
           /\ cancelled' = cancelled \cup {r} /\ line' = line /\ terminals' = terminals
  <2>1. LineOnce' /\ \A o : InLine(o)' = InLine(o)
    BY <1>7, SameLine DEF Requested
  <2>2. claim[r]' = "cancel" /\ \A o \in Requests \ {r} : claim[o]' = claim[o]
    BY <1>2, <1>7 DEF Typed, RequestTypes
  <2>3. host[r] # "idle" /\ ~(Arrivals(r) > 0) /\ ~InLine(r)
    BY <1>5, <1>7 DEF RequestSound, Entrance, Untouched
  <2>4. Entrance(r)'
    BY <1>2, <1>3, <1>4, <1>5, <2>1, <2>3 DEF Entrance, RequestSound
  <2>5. Exit(r)'
    BY <1>2, <1>3, <1>4, <1>5, <1>7, <2>2 DEF Exit, RequestSound
  <2>6. \A o \in Requests \ {r} : RequestSound(o)'
    BY <1>3, <1>4, <1>7, <2>1, <2>2, AsideSound DEF Requested, Aside
  <2> QED
    BY <2>1, <2>4, <2>5, <2>6 DEF Requested, RequestSound
<1>8. CASE line' = line /\ terminals' = terminals /\ claim' = claim /\ cancelled' = cancelled
  <2>1. LineOnce' /\ \A o : InLine(o)' = InLine(o)
    BY <1>8, SameLine DEF Requested
  <2>2. \A o \in Requests : RequestSound(o)'
    BY <1>3, <1>4, <1>8, <2>1, AsideSound DEF Requested, Aside
  <2> QED
    BY <2>1, <2>2 DEF Requested
<1> QED
  BY <1>1, <1>6, <1>7, <1>8 DEF HandleCancel

\* A report at the head of the queue: its handler is gone, its request claimed.
LEMMA DoneSound ==
  ASSUME Typed, Requested, HandleDone
  PROVE  Requested'
<1>1. PICK r : r = Which
  OBVIOUS
<1>2. r \in Requests /\ Head(events) = Event("done", r)
  BY <1>1, EventTaken DEF HandleDone, Typed
<1>3. Reports(r) > 0 /\ Reports(r)' = Reports(r) - 1 /\ Arrivals(r)' = Arrivals(r)
  BY <1>2, TakenCounts, CountsTyped, EventsDiffer DEF HandleDone, Typed
<1>4. RequestSound(r) /\ Reports(r) \in Nat /\ Arrivals(r) \in Nat
  BY <1>2, CountsTyped DEF Requested, Typed
<1>5. claim[r] # "none" /\ handler[r] = "gone" /\ Reports(r) = 1
  BY <1>3, <1>4 DEF RequestSound, Exit
<1>6. host[r] # "idle" /\ Arrivals(r) = 0 /\ ~InLine(r)
  BY <1>4, <1>5 DEF RequestSound, Entrance, Untouched
<1>7. \A o \in Requests \ {r} : Arrivals(o)' = Arrivals(o) /\ Reports(o)' = Reports(o)
  BY <1>2, TakenCounts, CountsTyped, EventsDiffer DEF HandleDone, Typed
<1>8. /\ host' = host /\ handler' = handler /\ line' = line /\ cancelled' = cancelled \ {r}
      /\ claim' = [claim EXCEPT ![r] = "none"]
      /\ terminals' = [terminals EXCEPT ![r] = IF r \in cancelled THEN @ + 1 ELSE @]
  BY <1>1 DEF HandleDone, outside, threads
<1>9. LineOnce' /\ \A o : InLine(o)' = InLine(o)
  BY <1>8, SameLine DEF Requested
<1>10. /\ claim[r]' = "none"
       /\ \A o \in Requests \ {r} : claim[o]' = claim[o] /\ terminals[o]' = terminals[o]
  BY <1>2, <1>8 DEF Typed, RequestTypes
<1>11. terminals[r]' = (IF claim[r] = "cancel" THEN 1 ELSE terminals[r]) /\ terminals[r]' <= 1
  BY <1>2, <1>4, <1>8 DEF Typed, RequestTypes, RequestSound, Exit
<1>12. Entrance(r)'
  BY <1>2, <1>3, <1>6, <1>8, <1>9 DEF Entrance
<1>13. Exit(r)'
  BY <1>2, <1>3, <1>5, <1>8, <1>10, <1>11 DEF Exit
<1>14. \A o \in Requests \ {r} : RequestSound(o)'
  BY <1>7, <1>8, <1>9, <1>10, AsideSound DEF Requested, Aside
<1> QED
  BY <1>9, <1>12, <1>13, <1>14 DEF Requested, RequestSound

LEMMA LoopSound ==
  ASSUME Typed, Requested, Loop
  PROVE  Requested'
<1>1. CASE AdmitNext
  BY <1>1, AdmitSound
<1>2. CASE NobodyToAdmit \/ CloseGates \/ SweepPeers
  BY <1>2, QuietStep DEF NobodyToAdmit, CloseGates, SweepPeers, pooling, ending, threads, outside
<1>3. CASE HandleReq
  BY <1>3, ReqSound
<1>4. CASE HandleInputEnd
  BY <1>4, QuietTake DEF HandleInputEnd, pooling, ending, threads, outside
<1>5. CASE HandleAnswer
  BY <1>5, QuietTake DEF HandleAnswer, pooling, ending, threads, outside
<1>6. CASE HandleCredit
  BY <1>6, QuietTake DEF HandleCredit, pooling, ending, threads, outside
<1>7. CASE HandleDesired
  BY <1>7, QuietTake DEF HandleDesired, ending, threads, outside
<1>8. CASE HandleWake
  BY <1>8, QuietTake DEF HandleWake, pooling, ending, threads, outside
<1>9. CASE HandleCancel
  BY <1>9, CancelSound
<1>10. CASE HandleDone
  BY <1>10, DoneSound
<1> QED
  BY <1>1, <1>2, <1>3, <1>4, <1>5, <1>6, <1>7, <1>8, <1>9, <1>10 DEF Loop

LEMMA ConcludeSound ==
  ASSUME Typed, Requested, NEW r \in Requests, Conclude(r)
  PROVE  Requested'
<1>1. host' = host /\ line' = line /\ cancelled' = cancelled /\ events' = events
  BY DEF Conclude, outside, pooling
<1>2. LineOnce' /\ \A o : InLine(o)' = InLine(o)
  BY <1>1, SameLine DEF Requested
<1>3. \A o : Arrivals(o)' = Arrivals(o) /\ Reports(o)' = Reports(o)
  BY <1>1 DEF Arrivals, Reports
<1>4. /\ handler[r] = "working" /\ handler[r]' = "concluded"
      /\ IF claim[r] = "open"
         THEN claim[r]' = "handler" /\ terminals[r]' = terminals[r] + 1
         ELSE claim[r]' = claim[r] /\ terminals[r]' = terminals[r]
  BY DEF Conclude, Working, Typed, RequestTypes
<1>5. \A o \in Requests \ {r} :
        /\ handler[o]' = handler[o] /\ claim[o]' = claim[o] /\ terminals[o]' = terminals[o]
  BY DEF Conclude, Typed, RequestTypes
<1>6. RequestSound(r)
  BY DEF Requested
<1>7. Entrance(r)'
  BY <1>1, <1>2, <1>3, <1>4, <1>6 DEF RequestSound, Entrance, Untouched
<1>8. Exit(r)'
  BY <1>1, <1>3, <1>4, <1>6 DEF RequestSound, Exit
<1>9. \A o \in Requests \ {r} : RequestSound(o)'
  BY <1>1, <1>2, <1>3, <1>5, AsideSound DEF Requested, Aside
<1> QED
  BY <1>2, <1>7, <1>8, <1>9 DEF Requested, RequestSound

LEMMA ReportSound ==
  ASSUME Typed, Requested, NEW r \in Requests, Report(r)
  PROVE  Requested'
<1>1. /\ host' = host /\ line' = line /\ cancelled' = cancelled
      /\ claim' = claim /\ terminals' = terminals
  BY DEF Report, outside, pooling, ending
<1>2. LineOnce' /\ \A o : InLine(o)' = InLine(o)
  BY <1>1, SameLine DEF Requested
<1>3. /\ Arrivals(r)' = Arrivals(r) /\ Reports(r)' = Reports(r) + 1
      /\ \A o \in Requests \ {r} : Arrivals(o)' = Arrivals(o) /\ Reports(o)' = Reports(o)
  <2>1. Event("done", r) \in Events /\ Send(Event("done", r))
    BY DEF Report, Event, Events, OfRequests
  <2> QED
    BY <2>1, SentCounts, CountsTyped, EventsDiffer DEF Typed
<1>4. /\ handler[r] = "concluded" /\ handler[r]' = "gone"
      /\ \A o \in Requests \ {r} : handler[o]' = handler[o]
  BY DEF Report, Typed, RequestTypes
<1>5. RequestSound(r)
  BY DEF Requested
<1>6. Entrance(r)'
  BY <1>1, <1>2, <1>3, <1>4, <1>5 DEF RequestSound, Entrance, Untouched
<1>7. Exit(r)'
  <2>1. claim[r] \notin {"none", "open"} /\ Reports(r) = 0
    BY <1>4, <1>5 DEF RequestSound, Exit
  <2> QED
    BY <1>1, <1>3, <1>4, <1>5, <2>1 DEF RequestSound, Exit
<1>8. \A o \in Requests \ {r} : RequestSound(o)'
  BY <1>1, <1>2, <1>3, <1>4, AsideSound DEF Requested, Aside
<1> QED
  BY <1>2, <1>6, <1>7, <1>8 DEF Requested, RequestSound

LEMMA HandlerSound ==
  ASSUME Typed, Requested, NEW r \in Requests, Handler(r)
  PROVE  Requested'
<1>1. CASE Conclude(r)
  BY <1>1, ConcludeSound
<1>2. CASE Report(r)
  BY <1>2, ReportSound
<1>3. ASSUME NEW s \in Streams, Start(r, s) \/ Write(r, s) PROVE Requested'
  BY <1>3, QuietStep DEF Start, Write, pooling, ending, threads, outside
<1>4. ASSUME NEW p \in Peers, CallPeer(r, p) \/ AwaitAnswer(r, p) PROVE Requested'
  BY <1>4, QuietStep DEF CallPeer, AwaitAnswer, pooling, ending, threads, outside
<1>5. CASE ReadInput(r) \/ Resume(r)
  BY <1>5, QuietStep DEF ReadInput, Resume, pooling, ending, outside
<1> QED
  BY <1>1, <1>2, <1>3, <1>4, <1>5 DEF Handler

LEMMA InitSound == Init => Requested
<1> SUFFICES ASSUME Init PROVE Requested
  OBVIOUS
<1>1. LineOnce /\ \A r : ~InLine(r)
  BY DEF Init, LineOnce, InLine
<1>2. \A e : Times(e, events) = 0
  <2>1. DOMAIN events = {} /\ events \in Seq({})
    BY DEF Init
  <2> QED
    BY <2>1, TimesType
<1>3. \A r \in Requests : Entrance(r) /\ Exit(r)
  BY <1>1, <1>2 DEF Init, Entrance, Exit, Untouched, Arrivals, Reports
<1> QED
  BY <1>1, <1>3 DEF Requested, RequestSound

LEMMA NextSound ==
  ASSUME Typed, Requested, [Next]_vars
  PROVE  Requested'
<1>1. CASE UNCHANGED vars
  BY <1>1, QuietStep DEF vars, pooling, ending, threads, outside
<1>2. CASE Next
  BY <1>2, LoopSound, HandlerSound, SentSound DEF Next
<1> QED
  BY <1>1, <1>2

-----------------------------------------------------------------------------
(* Slots.                                                                  *)

Holders(q) == {r \in Requests : q \in ChainOf[r] /\ claim[r] # "none"}

LEMMA HoldersFinite ==
  ASSUME NEW q \in Pools
  PROVE  /\ IsFiniteSet(Holders(q)) /\ Cardinality(Holders(q)) \in Nat
         /\ Cardinality(Holders(q)) <= Cardinality(Requests)
  BY ActorsFinite, FS_Subset, FS_CardinalityType DEF Holders

\* A step that neither takes nor gives back a slot.
LEMMA SlotsKept ==
  ASSUME SlotsAccounted, active' = active,
         \A r \in Requests : claim[r]' = "none" <=> claim[r] = "none"
  PROVE  SlotsAccounted'
<1>1. \A q \in Pools : Holders(q)' = Holders(q)
  BY DEF Holders
<1> QED
  BY <1>1 DEF SlotsAccounted, Holders

LEMMA SlotTaken ==
  ASSUME Typed, SlotsAccounted, NEW r \in Requests, claim[r] = "none", Spawn(r)
  PROVE  SlotsAccounted'
<1> SUFFICES ASSUME NEW q \in Pools
             PROVE  active'[q] = Cardinality(Holders(q)')
  BY DEF SlotsAccounted, Holders
<1>1. claim[r]' = "open" /\ \A o \in Requests \ {r} : claim[o]' = claim[o]
  BY DEF Spawn, Typed, RequestTypes
<1>2. Holders(q)' = IF q \in ChainOf[r] THEN Holders(q) \cup {r} ELSE Holders(q)
  BY <1>1 DEF Holders
<1>3. r \notin Holders(q)
  BY DEF Holders
<1>4. active'[q] = IF q \in ChainOf[r] THEN active[q] + 1 ELSE active[q]
  BY DEF Spawn, Counted
<1>5. active[q] = Cardinality(Holders(q))
  BY DEF SlotsAccounted, Holders
<1>6. Cardinality(Holders(q) \cup {r}) = Cardinality(Holders(q)) + 1
  BY <1>3, HoldersFinite, FS_AddElement
<1> QED
  BY <1>2, <1>4, <1>5, <1>6

LEMMA SlotReleased ==
  ASSUME Typed, SlotsAccounted, NEW r \in Requests, claim[r] # "none",
         active' = Released(r), claim' = [claim EXCEPT ![r] = "none"]
  PROVE  SlotsAccounted'
<1> SUFFICES ASSUME NEW q \in Pools
             PROVE  active'[q] = Cardinality(Holders(q)')
  BY DEF SlotsAccounted, Holders
<1>1. claim[r]' = "none" /\ \A o \in Requests \ {r} : claim[o]' = claim[o]
  BY DEF Typed, RequestTypes
<1>2. Holders(q)' = Holders(q) \ {r}
  BY <1>1 DEF Holders
<1>3. r \in Holders(q) <=> q \in ChainOf[r]
  BY DEF Holders
<1>4. active'[q] = IF q \in ChainOf[r] THEN active[q] - 1 ELSE active[q]
  BY DEF Released
<1>5. active[q] = Cardinality(Holders(q))
  BY DEF SlotsAccounted, Holders
<1>6. Cardinality(Holders(q) \ {r}) =
        IF r \in Holders(q) THEN Cardinality(Holders(q)) - 1 ELSE Cardinality(Holders(q))
  BY HoldersFinite, FS_RemoveElement
<1> QED
  BY <1>2, <1>3, <1>4, <1>5, <1>6

LEMMA SlotsStep ==
  ASSUME Typed, Requested, SlotsAccounted, [Next]_vars
  PROVE  SlotsAccounted'
<1>1. CASE AdmitNext
  <2>1. PICK r \in Requests : r = line[Oldest] /\ Oldest \in DOMAIN line /\ Spawn(r)
    BY <1>1, LeastAdmissible DEF AdmitNext, Typed
  <2>2. claim[r] = "none"
    BY <2>1 DEF Requested, RequestSound, Entrance, Untouched, InLine
  <2> QED
    BY <2>1, <2>2, SlotTaken
<1>2. CASE HandleReq
  <2>1. PICK r \in Requests : r = Which /\ Head(events) = Event("req", r)
    BY <1>2, EventTaken DEF HandleReq, Typed
  <2>2. claim[r] = "none"
    <3>1. Arrivals(r) > 0
      BY <1>2, <2>1, TakenCounts DEF HandleReq, Typed
    <3> QED
      BY <3>1 DEF Requested, RequestSound, Entrance, Untouched
  <2>3. CASE Spawn(r)
    BY <2>2, <2>3, SlotTaken
  <2>4. CASE active' = active /\ claim' = claim
    BY <2>4, SlotsKept
  <2> QED
    BY <1>2, <2>1, <2>3, <2>4 DEF HandleReq
<1>3. CASE HandleCancel
  <2>1. Which \in Requests
    BY <1>3, EventTaken DEF HandleCancel, Typed
  <2>2. \A r \in Requests : claim[r]' = "none" <=> claim[r] = "none"
    BY <1>3, <2>1 DEF HandleCancel, Typed, RequestTypes
  <2> QED
    BY <1>3, <2>2, SlotsKept DEF HandleCancel
<1>4. CASE HandleDone
  <2>1. PICK r \in Requests : r = Which /\ Head(events) = Event("done", r)
    BY <1>4, EventTaken DEF HandleDone, Typed
  <2>2. Reports(r) > 0
    BY <1>4, <2>1, TakenCounts DEF HandleDone, Typed
  <2>3. claim[r] # "none"
    BY <2>2 DEF Requested, RequestSound, Exit
  <2> QED
    BY <1>4, <2>1, <2>3, SlotReleased DEF HandleDone
<1>5. ASSUME NEW r \in Requests, Conclude(r) PROVE SlotsAccounted'
  <2>1. \A o \in Requests : claim[o]' = "none" <=> claim[o] = "none"
    BY <1>5 DEF Conclude, Typed, RequestTypes
  <2> QED
    BY <1>5, <2>1, SlotsKept DEF Conclude, pooling
<1>6. CASE active' = active /\ claim' = claim
  BY <1>6, SlotsKept
<1>7. CASE NobodyToAdmit \/ HandleInputEnd \/ HandleAnswer \/ HandleCredit \/ HandleDesired
           \/ HandleWake \/ CloseGates \/ SweepPeers \/ WakeLoop
  BY <1>6, <1>7
     DEF NobodyToAdmit, HandleInputEnd, HandleAnswer, HandleCredit, HandleDesired, HandleWake,
         CloseGates, SweepPeers, WakeLoop, pooling, ending
<1>8. ASSUME NEW r \in Requests, Handler(r), ~Conclude(r) PROVE active' = active /\ claim' = claim
  BY <1>8
     DEF Handler, Start, Write, CallPeer, AwaitAnswer, ReadInput, Resume, Report, pooling, ending
<1>9. ASSUME NEW r \in Requests, SendReq(r) \/ SendInputEnd(r) \/ SendCancel(r)
      PROVE  active' = active /\ claim' = claim
  BY <1>9 DEF SendReq, SendInputEnd, SendCancel, pooling, ending
<1>10. ASSUME NEW s \in Streams, SendCredit(s) PROVE active' = active /\ claim' = claim
  BY <1>10 DEF SendCredit, pooling, ending
<1>11. ASSUME NEW p \in Peers, SendAnswer(p) PROVE active' = active /\ claim' = claim
  BY <1>11 DEF SendAnswer, pooling, ending
<1>12. ASSUME NEW q \in Pools, NEW n \in Numbers, SendDesired(q, n) \/ SetAvailable(q, n)
       PROVE  active' = active /\ claim' = claim
  BY <1>12 DEF SendDesired, SetAvailable, ending
<1>13. CASE UNCHANGED vars
  BY <1>6, <1>13 DEF vars, pooling, ending
<1> QED
  BY <1>1, <1>2, <1>3, <1>4, <1>5, <1>6, <1>7, <1>8, <1>9, <1>10, <1>11, <1>12, <1>13 DEF Next, Loop

-----------------------------------------------------------------------------
(* The loop goes to sleep with nobody to admit, and whoever changes that   *)
(* has the loop's wake-up still to send or in the queue.                   *)

Woken == loop.at = "event" => reporting > 0 \/ Wakes > 0 \/ Admissible = {}

LEMMA SleepKept ==
  ASSUME Typed, Woken, loop' = loop, line' = line, active' = active,
         configured' = configured, available' = available, reporting' = reporting,
         events' = events \/ \E e \in Events : Send(e)
  PROVE  Woken'
<1>1. Admissible' = Admissible
  BY DEF Admissible, HasRoom, Limit
<1>2. Wakes \in Nat /\ Wakes' \in Nat /\ Wakes' >= Wakes
  BY CountsTyped, SentCounts DEF Typed, Wakes
<1> QED
  BY <1>1, <1>2 DEF Woken, Typed, PoolTypes

LEMMA SleepStep ==
  ASSUME Typed, Woken, [Next]_vars
  PROVE  Woken'
<1>1. CASE Loop
  <2>1. CASE loop.at' # "event"
    BY <2>1 DEF Woken
  <2>2. CASE NobodyToAdmit
    BY <2>2
       DEF NobodyToAdmit, Woken, pooling, capacities, Admissible, HasRoom, Limit
  <2>3. CASE AdmitNext
    BY <2>3 DEF AdmitNext, Woken
  <2>4. CASE Loop /\ ~NobodyToAdmit /\ ~AdmitNext
    <3>1. loop.at' # "event"
      BY <2>4
         DEF Loop, HandleReq, HandleInputEnd, HandleAnswer, HandleCredit, HandleDesired, HandleWake,
             HandleCancel, CloseGates, SweepPeers, HandleDone, BackToDrain, Typed, LoopTypes
    <3> QED
      BY <2>1, <3>1
  <2> QED
    BY <1>1, <2>2, <2>3, <2>4
<1>2. CASE WakeLoop
  <2>1. Send(WakeUp) /\ WakeUp \in Events
    BY <1>2 DEF WakeLoop, WakeUp, Events, WakeUps
  <2>2. Wakes' > 0
    BY <2>1, SentCounts, CountsTyped DEF Typed
  <2> QED
    BY <2>2 DEF Woken
<1>3. ASSUME NEW q \in Pools, NEW n \in Numbers, SetAvailable(q, n) PROVE Woken'
  BY <1>3 DEF SetAvailable, Woken, Typed, PoolTypes
<1>4. ASSUME NEW q \in Pools, NEW n \in Numbers, SendDesired(q, n) PROVE Woken'
  <2>1. SetTo(q, n) \in Events /\ Send(SetTo(q, n))
    BY <1>4 DEF SendDesired, SetTo, Events, OfPools
  <2> QED
    BY <1>4, <2>1, SleepKept DEF SendDesired, capacities
<1>5. ASSUME NEW r \in Requests, SendReq(r) \/ SendInputEnd(r) \/ SendCancel(r) PROVE Woken'
  <2>1. PICK k \in {"req", "end", "cancel"} : Send(Event(k, r))
    BY <1>5 DEF SendReq, SendInputEnd, SendCancel
  <2>2. Event(k, r) \in Events
    BY DEF Event, Events, OfRequests
  <2> QED
    BY <1>5, <2>1, <2>2, SleepKept DEF SendReq, SendInputEnd, SendCancel, pooling, capacities
<1>6. ASSUME NEW s \in Streams, SendCredit(s) PROVE Woken'
  <2>1. Event("credit", s) \in Events /\ Send(Event("credit", s))
    BY <1>6 DEF SendCredit, Event, Events, OfStreams
  <2> QED
    BY <1>6, <2>1, SleepKept DEF SendCredit, pooling, capacities
<1>7. ASSUME NEW p \in Peers, SendAnswer(p) PROVE Woken'
  <2>1. Event("answer", p) \in Events /\ Send(Event("answer", p))
    BY <1>7 DEF SendAnswer, Event, Events, OfPeers
  <2> QED
    BY <1>7, <2>1, SleepKept DEF SendAnswer, pooling, capacities
<1>8. ASSUME NEW r \in Requests, Handler(r) PROVE Woken'
  <2>1. CASE Report(r)
    <3>1. Event("done", r) \in Events /\ Send(Event("done", r))
      BY <2>1 DEF Report, Event, Events, OfRequests
    <3> QED
      BY <2>1, <3>1, SleepKept DEF Report, pooling, capacities
  <2>2. CASE ~Report(r)
    BY <1>8, <2>2, SleepKept
       DEF Handler, Start, Write, CallPeer, AwaitAnswer, ReadInput, Resume, Conclude, pooling,
           capacities
  <2> QED
    BY <2>1, <2>2
<1>9. CASE UNCHANGED vars
  BY <1>9, SleepKept DEF vars, pooling, capacities
<1> QED
  BY <1>1, <1>2, <1>3, <1>4, <1>5, <1>6, <1>7, <1>8, <1>9 DEF Next

-----------------------------------------------------------------------------
(* Credit: a chunk is still to be carried, unread, on its way back as a    *)
(* grant, or done with; and a gate never holds more than its window.       *)

Ledger(s) ==
  /\ gate[s].state = "unregistered" => gate[s].credit = 0 /\ owed[s] = 0 /\ Grants(s) = 0
  /\ left[s] + owed[s] + Grants(s) <= Chunks[s]
  /\ gate[s].credit + owed[s] + Grants(s) <= Window

Ledgers == \A s \in Streams : Ledger(s)

LEMMA BooksKept ==
  ASSUME Typed, Ledgers, left' = left, owed' = owed,
         \A s \in Streams : /\ Grants(s)' = Grants(s)
                            /\ gate[s].credit' = gate[s].credit
                            /\ gate[s].state' = "unregistered" => gate[s].state = "unregistered"
  PROVE  Ledgers'
BY DEF Ledgers, Ledger

OtherKinds == {"req", "end", "cancel", "done", "answer", "desired", "poolsChanged"}

LEMMA GrantsSame ==
  ASSUME Typed,
         \/ events' = events
         \/ \E e \in Events : Send(e) /\ e.kind # "credit"
         \/ \E kind \in OtherKinds : Taking(kind)
  PROVE  \A s \in Streams : Grants(s)' = Grants(s)
<1>1. CASE events' = events
  BY <1>1 DEF Grants
<1>2. ASSUME NEW e \in Events, Send(e), e.kind # "credit"
      PROVE  \A s \in Streams : Grants(s)' = Grants(s)
  <2>1. \A s \in Streams : e # Event("credit", s)
    BY <1>2 DEF Event
  <2> QED
    BY <1>2, <2>1, SentCounts, CountsTyped DEF Typed
<1>3. ASSUME NEW kind, kind # "credit", Taking(kind)
      PROVE  \A s \in Streams : Grants(s)' = Grants(s)
  <2>1. \A s \in Streams : Head(events) # Event("credit", s)
    BY <1>3 DEF Taking, Event
  <2> QED
    BY <1>3, <2>1, TakenCounts, CountsTyped DEF Typed
<1> QED
  BY <1>1, <1>2, <1>3 DEF OtherKinds

LEMMA LoopBooks ==
  ASSUME Typed, Ledgers, Loop
  PROVE  Ledgers'
<1>1. CASE HandleCredit
  <2>1. PICK s \in Streams : s = Which /\ Head(events) = Event("credit", s)
    BY <1>1, EventTaken DEF HandleCredit, Typed
  <2>2. /\ Grants(s) > 0 /\ Grants(s)' = Grants(s) - 1
        /\ \A o \in Streams \ {s} : Grants(o)' = Grants(o)
    BY <1>1, <2>1, TakenCounts, CountsTyped, EventsDiffer DEF HandleCredit, Typed
  <2>3. /\ left' = left /\ owed' = owed
        /\ gate[s]'.state = gate[s].state
        /\ gate[s]'.credit = IF gate[s].state = "open" THEN gate[s].credit + 1 ELSE gate[s].credit
        /\ \A o \in Streams \ {s} : gate[o]' = gate[o]
    BY <1>1, <2>1 DEF HandleCredit, Typed, StreamTypes, Gates, outside
  <2>4. /\ Ledger(s) /\ Grants(s) \in Nat /\ gate[s].credit \in Nat /\ owed[s] \in Nat
        /\ left[s] \in Nat /\ Chunks[s] \in Nat /\ Window \in Nat
    BY CountsTyped, StreamsTyped DEF Ledgers, Typed, StreamTypes, Gates
  <2>5. Ledger(s)'
    BY <2>2, <2>3, <2>4 DEF Ledger
  <2>6. \A o \in Streams \ {s} : Ledger(o)'
    BY <2>2, <2>3 DEF Ledgers, Ledger
  <2> QED
    BY <2>5, <2>6 DEF Ledgers
<1>2. ASSUME NEW r \in Requests, gate' = ClosedFor(r)
      PROVE  \A s \in Streams :
               /\ gate[s]'.credit = gate[s].credit
               /\ gate[s]'.state = "unregistered" => gate[s].state = "unregistered"
  BY <1>2 DEF ClosedFor, Typed, StreamTypes, Gates, Streams
<1>3. CASE CloseGates
  <2>1. loop.of \in Requests
    BY <1>3 DEF CloseGates, Typed, LoopTypes
  <2> QED
    BY <1>2, <1>3, <2>1, GrantsSame, BooksKept DEF CloseGates, outside
<1>4. CASE HandleDone
  <2>1. Which \in Requests /\ \E kind \in OtherKinds : Taking(kind)
    BY <1>4, EventTaken DEF HandleDone, Typed, OtherKinds
  <2> QED
    BY <1>2, <1>4, <2>1, GrantsSame, BooksKept DEF HandleDone, outside
<1>5. CASE NobodyToAdmit \/ AdmitNext \/ SweepPeers
  BY <1>5, GrantsSame, BooksKept DEF NobodyToAdmit, AdmitNext, SweepPeers, streams, outside
<1>6. CASE HandleReq \/ HandleInputEnd \/ HandleAnswer \/ HandleDesired \/ HandleWake \/ HandleCancel
  <2>1. \E kind \in OtherKinds : Taking(kind)
    BY <1>6 DEF HandleReq, HandleInputEnd, HandleAnswer, HandleDesired, HandleWake, HandleCancel,
                OtherKinds
  <2>2. gate' = gate /\ left' = left /\ owed' = owed
    BY <1>6 DEF HandleReq, HandleInputEnd, HandleAnswer, HandleDesired, HandleWake, HandleCancel,
                streams, outside
  <2> QED
    BY <2>1, <2>2, GrantsSame, BooksKept
<1> QED
  BY <1>1, <1>3, <1>4, <1>5, <1>6 DEF Loop

LEMMA HandlerBooks ==
  ASSUME Typed, Ledgers, NEW r \in Requests, Handler(r)
  PROVE  Ledgers'
<1>1. ASSUME NEW s \in Streams, Start(r, s) PROVE Ledgers'
  <2>1. \A o \in Streams : Grants(o)' = Grants(o)
    BY <1>1 DEF Start, Grants
  <2>2. /\ gate[s].state = "unregistered" /\ gate[s]'.credit = Window /\ gate[s]'.state = "open"
        /\ left' = left /\ owed' = owed /\ \A o \in Streams \ {s} : gate[o]' = gate[o]
    BY <1>1 DEF Start, Unregistered, outside, Typed, StreamTypes
  <2>3. Ledger(s) /\ Window \in Nat
    BY StreamsTyped DEF Ledgers
  <2>4. Ledger(s)'
    BY <2>1, <2>2, <2>3 DEF Ledger
  <2>5. \A o \in Streams \ {s} : Ledger(o)'
    BY <2>1, <2>2 DEF Ledgers, Ledger
  <2> QED
    BY <2>4, <2>5 DEF Ledgers
<1>2. ASSUME NEW s \in Streams, Write(r, s) PROVE Ledgers'
  <2>1. \A o \in Streams : Grants(o)' = Grants(o)
    BY <1>2 DEF Write, Grants
  <2>2. /\ Ledger(s) /\ Grants(s) \in Nat /\ gate[s].credit \in Nat /\ owed[s] \in Nat
        /\ left[s] \in Nat /\ Chunks[s] \in Nat /\ Window \in Nat
    BY CountsTyped, StreamsTyped DEF Ledgers, Typed, StreamTypes, Gates
  <2>3. \A o \in Streams \ {s} : gate[o]' = gate[o] /\ left[o]' = left[o] /\ owed[o]' = owed[o]
    BY <1>2 DEF Write, Typed, StreamTypes
  <2>4. CASE left' = [left EXCEPT ![s] = 0] /\ UNCHANGED <<gate, owed>>
    <3>1. left[s]' = 0 /\ gate[s]' = gate[s] /\ owed[s]' = owed[s]
      BY <2>4 DEF Typed, StreamTypes
    <3> QED
      BY <2>1, <2>2, <2>3, <3>1 DEF Ledger, Ledgers
  <2>5. CASE /\ gate[s].state = "open" /\ gate[s].credit > 0
             /\ left' = [left EXCEPT ![s] = @ - 1]
             /\ gate' = [gate EXCEPT ![s].credit = @ - 1]
             /\ owed' = [owed EXCEPT ![s] = @ + 1]
    <3>1. /\ left[s]' = left[s] - 1 /\ owed[s]' = owed[s] + 1
          /\ gate[s]'.state = "open" /\ gate[s]'.credit = gate[s].credit - 1
      BY <2>5 DEF Typed, StreamTypes, Gates
    <3>2. Ledger(s)'
      BY <2>1, <2>2, <3>1 DEF Ledger
    <3> QED
      BY <2>1, <2>3, <3>2 DEF Ledger, Ledgers
  <2>6. CASE UNCHANGED <<left, gate, owed>>
    BY <2>1, <2>6, BooksKept
  <2> QED
    BY <1>2, <2>4, <2>5, <2>6 DEF Write
<1>3. CASE Report(r)
  <2>1. \E e \in Events : Send(e) /\ e.kind # "credit"
    <3>1. /\ Event("done", r) \in Events /\ Event("done", r).kind # "credit"
          /\ Send(Event("done", r))
      BY <1>3 DEF Report, Event, Events, OfRequests
    <3> QED
      BY <3>1
  <2> QED
    BY <1>3, <2>1, GrantsSame, BooksKept DEF Report, streams, outside
<1>4. ASSUME UNCHANGED <<events, streams, owed>> PROVE Ledgers'
  BY <1>4, GrantsSame, BooksKept DEF streams
<1>5. ASSUME NEW p \in Peers, CallPeer(r, p) \/ AwaitAnswer(r, p) PROVE Ledgers'
  BY <1>4, <1>5 DEF CallPeer, AwaitAnswer, streams, outside
<1>6. CASE ReadInput(r) \/ Resume(r) \/ Conclude(r)
  BY <1>4, <1>6 DEF ReadInput, Resume, Conclude, streams, outside
<1> QED
  BY <1>1, <1>2, <1>3, <1>5, <1>6 DEF Handler

LEMMA SentBooks ==
  ASSUME Typed, Ledgers,
         \/ \E r \in Requests : SendReq(r) \/ SendInputEnd(r) \/ SendCancel(r)
         \/ \E s \in Streams : SendCredit(s)
         \/ \E p \in Peers : SendAnswer(p)
         \/ \E q \in Pools, n \in Numbers : SendDesired(q, n) \/ SetAvailable(q, n)
         \/ WakeLoop
  PROVE  Ledgers'
<1>1. ASSUME NEW s \in Streams, SendCredit(s) PROVE Ledgers'
  <2>1. /\ Grants(s)' = Grants(s) + 1
        /\ \A o \in Streams \ {s} : Grants(o)' = Grants(o)
    <3>1. Event("credit", s) \in Events /\ Send(Event("credit", s))
      BY <1>1 DEF SendCredit, Event, Events, OfStreams
    <3> QED
      BY <3>1, SentCounts, CountsTyped, EventsDiffer DEF Typed
  <2>2. /\ gate' = gate /\ left' = left /\ owed[s]' = owed[s] - 1 /\ owed[s] > 0
        /\ \A o \in Streams \ {s} : owed[o]' = owed[o]
    BY <1>1 DEF SendCredit, streams, Typed, StreamTypes
  <2>3. /\ Ledger(s) /\ Grants(s) \in Nat /\ gate[s].credit \in Nat /\ owed[s] \in Nat
        /\ left[s] \in Nat /\ Chunks[s] \in Nat /\ Window \in Nat
    BY CountsTyped, StreamsTyped DEF Ledgers, Typed, StreamTypes, Gates
  <2>4. Ledger(s)'
    BY <2>1, <2>2, <2>3 DEF Ledger
  <2>5. \A o \in Streams \ {s} : Ledger(o)'
    BY <2>1, <2>2 DEF Ledgers, Ledger
  <2> QED
    BY <2>4, <2>5 DEF Ledgers
<1>2. ASSUME NEW e \in Events, Send(e) \/ events' = events, e.kind # "credit",
             UNCHANGED <<streams, owed>>
      PROVE  Ledgers'
  BY <1>2, GrantsSame, BooksKept DEF streams
<1>3. ASSUME NEW r \in Requests, SendReq(r) \/ SendInputEnd(r) \/ SendCancel(r) PROVE Ledgers'
  <2>1. PICK k \in {"req", "end", "cancel"} : Send(Event(k, r))
    BY <1>3 DEF SendReq, SendInputEnd, SendCancel
  <2>2. Event(k, r) \in Events /\ Event(k, r).kind # "credit"
    BY DEF Event, Events, OfRequests
  <2> QED
    BY <1>2, <1>3, <2>1, <2>2 DEF SendReq, SendInputEnd, SendCancel, streams
<1>4. ASSUME NEW p \in Peers, SendAnswer(p) PROVE Ledgers'
  <2>1. /\ Event("answer", p) \in Events /\ Event("answer", p).kind # "credit"
        /\ Send(Event("answer", p))
    BY <1>4 DEF SendAnswer, Event, Events, OfPeers
  <2> QED
    BY <1>2, <1>4, <2>1 DEF SendAnswer, streams
<1>5. ASSUME NEW q \in Pools, NEW n \in Numbers, SendDesired(q, n) PROVE Ledgers'
  <2>1. SetTo(q, n) \in Events /\ SetTo(q, n).kind # "credit" /\ Send(SetTo(q, n))
    BY <1>5 DEF SendDesired, SetTo, Events, OfPools
  <2> QED
    BY <1>2, <1>5, <2>1 DEF SendDesired, streams, outside
<1>6. WakeUp \in Events /\ WakeUp.kind # "credit"
  BY DEF WakeUp, Events, WakeUps
<1>7. ASSUME NEW q \in Pools, NEW n \in Numbers, SetAvailable(q, n) PROVE Ledgers'
  BY <1>2, <1>6, <1>7 DEF SetAvailable, streams, outside
<1>8. ASSUME WakeLoop PROVE Ledgers'
  <2>1. Send(WakeUp)
    BY <1>8 DEF WakeLoop, WakeUp
  <2> QED
    BY <1>2, <1>6, <1>8, <2>1 DEF WakeLoop, streams, outside
<1> QED
  BY <1>1, <1>3, <1>4, <1>5, <1>7, <1>8

LEMMA BooksStep ==
  ASSUME Typed, Ledgers, [Next]_vars
  PROVE  Ledgers'
<1>1. CASE UNCHANGED vars
  BY <1>1, GrantsSame, BooksKept DEF vars, streams, outside
<1>2. CASE Next
  BY <1>2, LoopBooks, HandlerBooks, SentBooks DEF Next
<1> QED
  BY <1>1, <1>2

-----------------------------------------------------------------------------
(* The inductive invariant, and what it is for.                            *)

Sound == Typed /\ Requested /\ SlotsAccounted /\ Woken /\ Ledgers

LEMMA InitHolds == Init => Sound
<1> SUFFICES ASSUME Init PROVE Sound
  OBVIOUS
<1>1. Typed /\ Requested
  BY InitTyped, InitSound
<1>2. SlotsAccounted
  <2>1. \A q \in Pools : {r \in Requests : q \in ChainOf[r] /\ claim[r] # "none"} = {}
    BY DEF Init
  <2> QED
    BY <2>1, FS_EmptySet DEF Init, SlotsAccounted
<1>3. Woken
  BY DEF Init, Woken
<1>4. Ledgers
  <2>1. \A s \in Streams : Grants(s) = 0
    <3>1. DOMAIN events = {} /\ events \in Seq({})
      BY DEF Init
    <3> QED
      BY <3>1, TimesType DEF Grants
  <2> QED
    BY <2>1, StreamsTyped DEF Init, Ledgers, Ledger, Unregistered
<1> QED
  BY <1>1, <1>2, <1>3, <1>4 DEF Sound

LEMMA StepHolds == Sound /\ [Next]_vars => Sound'
BY NextTyped, NextSound, SlotsStep, SleepStep, BooksStep DEF Sound

\* Every reachable state is sound: what each of the results below is read from.
THEOREM SoundAlways == Spec => []Sound
<1> QED
  BY InitHolds, StepHolds, PTL DEF Spec

\* A request gets one terminal, whoever races to end it: whatever the requests,
\* the peer calls and the pools, and whenever limits change and cancels arrive.
THEOREM OneEnd == Spec => []OneTerminal
<1>1. Sound => OneTerminal
  BY DEF Sound, Requested, RequestSound, Exit, OneTerminal
<1> QED
  BY <1>1, SoundAlways, PTL

\* Every pool's count is of the requests admitted through it whose handlers the
\* loop has not heard done.
THEOREM NoSlotLeaks == Spec => []SlotsAccounted
<1>1. Sound => SlotsAccounted
  BY DEF Sound
<1> QED
  BY <1>1, SoundAlways, PTL

\* The loop sleeps on an empty queue only when nobody in line has room, or the
\* thread that made some is about to wake it.
THEOREM NoRoomUnnoticed == Spec => []NobodyWaitsWithRoom
<1>1. Sound => NobodyWaitsWithRoom
  BY CountsTyped DEF Sound, Typed, PoolTypes, Woken, NobodyWaitsWithRoom
<1> QED
  BY <1>1, SoundAlways, PTL

\* Every variable keeps its type; a gate never holds more credit than its
\* window, and a pool's count is never negative.
THEOREM TypeCorrect == Spec => []TypeOK
<1>1. ASSUME Sound PROVE TypeOK
  <2> USE <1>1
  <2>1. active \in [Pools -> 0..Cardinality(Requests)]
    <3>1. ASSUME NEW q \in Pools PROVE active[q] \in 0..Cardinality(Requests)
      <4>1. Cardinality(Requests) \in Nat
        BY ActorsFinite, FS_CardinalityType
      <4>2. active[q] = Cardinality(Holders(q))
        BY DEF Sound, SlotsAccounted, Holders
      <4>3. Cardinality(Holders(q)) \in Nat /\ Cardinality(Holders(q)) <= Cardinality(Requests)
        BY HoldersFinite
      <4> QED
        BY <4>1, <4>2, <4>3
    <3> QED
      BY <3>1 DEF Sound, Typed, PoolTypes
  <2>2. ASSUME NEW s \in Streams
        PROVE  /\ gate[s].state \in {"unregistered", "open", "closed"}
               /\ gate[s].credit \in 0..Window
               /\ left[s] \in 0..Chunks[s] /\ owed[s] \in 0..Chunks[s]
    <3>1. /\ Ledger(s) /\ Grants(s) \in Nat /\ gate[s].credit \in Nat /\ owed[s] \in Nat
          /\ left[s] \in Nat /\ Chunks[s] \in Nat /\ Window \in Nat
          /\ gate[s].state \in {"unregistered", "open", "closed"}
      BY CountsTyped, StreamsTyped DEF Sound, Ledgers, Typed, StreamTypes, Gates
    <3> QED
      BY <3>1 DEF Ledger
  <2>3. changes \in 0..MaxChanges /\ reporting \in 0..MaxChanges
    BY PoolsTyped DEF Sound, Typed, PoolTypes
  <2>4. loop.at \in {"drain", "event", "close", "sweep"}
    BY DEF Sound, Typed, LoopTypes
  <2> QED
    BY <2>1, <2>2, <2>3, <2>4 DEF Sound, Typed, PoolTypes, RequestTypes, StreamTypes, TypeOK
<1> QED
  BY <1>1, SoundAlways, PTL
=============================================================================
