-------------------------- MODULE FlowOrderProofs --------------------------
(***************************************************************************)
(* Theorems about FlowOrder: what the reader hands on is what was written, *)
(* in order and each frame once, for any number of flows, frames and       *)
(* places of skew.  A flow's emissions and its numbers agree as long as it *)
(* is open, so that a number tells the frame's place in the flow; what is  *)
(* neither handed on, nor in flight, nor held was never written.           *)
(***************************************************************************)
EXTENDS FlowOrder, FiniteSetTheorems, TLAPS

-----------------------------------------------------------------------------
(* Frames in the order of their numbers.                                   *)

Frames == [flow : Flows, seq : Nat, id : Nat, kind : Kinds, overtaken : Nat]

Distinct(frames) == \A g, h \in frames : g.seq = h.seq => g = h

\* Frames with a number each are as many as their numbers.
LEMMA AsManyAsNumbers ==
  ASSUME NEW S \in SUBSET Frames, IsFiniteSet(S), Distinct(S)
  PROVE  IsFiniteSet(Seqs(S)) /\ Cardinality(Seqs(S)) = Cardinality(S)
<1> DEFINE number == [h \in S |-> h.seq]
<1>1. number \in Bijection(S, Seqs(S))
  BY DEF Bijection, Injection, IsInjective, Surjection, Seqs, Distinct
<1>2. ExistsBijection(S, Seqs(S))
  BY <1>1 DEF ExistsBijection
<1> QED
  BY <1>2, FS_Bijection

\* A finite set of numbers that has all those between the first and any of its
\* own is an interval.
LEMMA WithoutGaps ==
  ASSUME NEW Q \in SUBSET Nat, IsFiniteSet(Q), NEW a \in Nat,
         \A q \in Q : a <= q /\ a..q \subseteq Q
  PROVE  Cardinality(Q) \in Nat /\ Q = a..(a + Cardinality(Q) - 1)
<1> DEFINE n == Cardinality(Q)
<1>1. n \in Nat
  BY FS_CardinalityType
<1>2. ASSUME NEW q \in Q PROVE q <= a + n - 1
  <2>1. IsFiniteSet(a..q) /\ Cardinality(a..q) = q - a + 1
    BY FS_Interval
  <2>2. Cardinality(a..q) <= n
    BY FS_Subset
  <2> QED
    BY <1>1, <2>1, <2>2
<1>3. Q \subseteq a..(a + n - 1)
  BY <1>1, <1>2
<1> HIDE DEF n
<1>4. IsFiniteSet(a..(a + n - 1)) /\ Cardinality(a..(a + n - 1)) = n
  <2>1. a + n - 1 \in Int /\ a \in Int /\ (a > a + n - 1 <=> n = 0)
    BY <1>1
  <2> QED
    BY <1>1, <2>1, FS_Interval
<1>5. Q = a..(a + n - 1)
  BY <1>3, <1>4, FS_Subset DEF n
<1> QED
  BY <1>1, <1>5 DEF n

\* Frames with consecutive numbers, in order.
LEMMA OrderOfRun ==
  ASSUME NEW S \in SUBSET Frames, IsFiniteSet(S), Distinct(S), NEW a \in Nat,
         \A h \in S : a <= h.seq /\ a..h.seq \subseteq Seqs(S)
  PROVE  /\ Cardinality(S) \in Nat /\ Seqs(S) = a..(a + Cardinality(S) - 1)
         /\ \A i \in 1..Cardinality(S) : InSeqOrder(S)[i] \in S /\ InSeqOrder(S)[i].seq = a + i - 1
<1>1. IsFiniteSet(Seqs(S)) /\ Cardinality(Seqs(S)) = Cardinality(S) /\ Seqs(S) \in SUBSET Nat
  BY AsManyAsNumbers DEF Seqs, Frames
<1>2. \A q \in Seqs(S) : a <= q /\ a..q \subseteq Seqs(S)
  BY DEF Seqs
<1>3. Cardinality(S) \in Nat /\ Seqs(S) = a..(a + Cardinality(S) - 1)
  BY <1>1, <1>2, WithoutGaps
<1>4. ASSUME NEW h \in S PROVE Cardinality({g \in S : g.seq < h.seq}) = h.seq - a
  <2> DEFINE below == {g \in S : g.seq < h.seq}
  <2>1. below \in SUBSET Frames /\ IsFiniteSet(below) /\ Distinct(below)
    BY FS_Subset DEF Distinct
  <2>2. Seqs(below) = a..(h.seq - 1)
    <3>1. h.seq \in Nat /\ h.seq \in Seqs(S)
      BY DEF Frames, Seqs
    <3>2. \A q : q \in Seqs(below) <=> q \in Seqs(S) /\ q < h.seq
      BY DEF Seqs
    <3> HIDE DEF below
    <3> DEFINE n == Cardinality(S)
    <3>3. n \in Nat /\ Seqs(S) = a..(a + n - 1) /\ h.seq <= a + n - 1
      BY <1>3, <3>1
    <3> HIDE DEF n
    <3>4. \A q : q \in Seqs(below) <=> q \in a..(h.seq - 1)
      BY <3>1, <3>2, <3>3
    <3> QED
      BY <3>4, Zenon
  <2>3. Cardinality(a..(h.seq - 1)) = h.seq - a
    <3>1. h.seq \in Nat /\ a <= h.seq
      BY DEF Frames
    <3>2. /\ a \in Int /\ h.seq - 1 \in Int /\ (a > h.seq - 1 => h.seq - a = 0)
          /\ (h.seq - 1) - a + 1 = h.seq - a
      BY <3>1
    <3>3. Cardinality(a..(h.seq - 1)) =
            IF a > h.seq - 1 THEN 0 ELSE (h.seq - 1) - a + 1
      BY <3>2, FS_Interval
    <3> QED
      BY <3>2, <3>3
  <2> HIDE DEF below
  <2>4. Cardinality(below) = h.seq - a
    BY <2>1, <2>2, <2>3, AsManyAsNumbers
  <2> QED
    BY <2>4 DEF below
<1>5. ASSUME NEW i \in 1..Cardinality(S)
      PROVE  InSeqOrder(S)[i] \in S /\ InSeqOrder(S)[i].seq = a + i - 1
  <2>1. a + i - 1 \in Seqs(S)
    BY <1>3
  <2>2. PICK h \in S : h.seq = a + i - 1
    BY <2>1 DEF Seqs
  <2>3. Cardinality({g \in S : g.seq < h.seq}) = i - 1
    BY <1>3, <1>4, <2>2
  <2>4. InSeqOrder(S)[i] = CHOOSE k \in S : Cardinality({g \in S : g.seq < k.seq}) = i - 1
    BY DEF InSeqOrder
  <2>5. PICK k \in S : k = InSeqOrder(S)[i] /\ Cardinality({g \in S : g.seq < k.seq}) = i - 1
    BY <2>3, <2>4
  <2>6. k.seq - a = i - 1 /\ k.seq \in Nat
    BY <1>4, <2>5 DEF Frames
  <2> QED
    BY <1>3, <2>5, <2>6
<1> QED
  BY <1>3, <1>5
\* What a frame lets go: itself and the frames held that follow it without a
\* gap.  What stays held comes after a gap.
LEMMA WhatIsLetGo ==
  ASSUME NEW fr \in Frames, NEW held \in SUBSET Frames, IsFiniteSet(held), Distinct(held),
         \A h \in held : h.seq > fr.seq,
         NEW run, run = {fr} \cup Run(held, fr.seq), NEW n, n = Cardinality(run)
  PROVE  /\ n \in Nat \ {0} /\ Seqs(run) = fr.seq..(fr.seq + n - 1)
         /\ run \in SUBSET Frames
         /\ \A i \in 1..n : InSeqOrder(run)[i] \in run /\ InSeqOrder(run)[i].seq = fr.seq + i - 1
         /\ \A h \in held \ run : h.seq > fr.seq + n
<1>1. fr.seq \in Nat /\ \A h \in held : h.seq \in Nat
  BY DEF Frames
<1>2. run \in SUBSET Frames /\ run \subseteq held \cup {fr}
  BY DEF Run
<1>3. IsFiniteSet(run)
  <2>1. IsFiniteSet(held \cup {fr})
    BY FS_AddElement
  <2> QED
    BY <1>2, <2>1, FS_Subset
<1>4. Distinct(run)
  BY <1>1, <1>2 DEF Distinct
<1>5. ASSUME NEW h \in run PROVE fr.seq <= h.seq /\ fr.seq..h.seq \subseteq Seqs(run)
  <2>1. CASE h = fr
    <3>1. fr.seq..h.seq = {fr.seq}
      BY <1>1, <2>1
    <3> QED
      BY <1>1, <2>1, <3>1 DEF Seqs
  <2>2. CASE h # fr
    <3>1. h \in held /\ h.seq > fr.seq /\ fr.seq + 1 .. h.seq \subseteq Seqs(held)
      BY <2>2 DEF Run
    <3>2. ASSUME NEW q \in fr.seq + 1 .. h.seq PROVE q \in Seqs(run)
      <4>1. PICK k \in held : k.seq = q
        BY <3>1 DEF Seqs
      <4>2. k.seq > fr.seq /\ fr.seq + 1 .. k.seq \subseteq Seqs(held)
        BY <1>1, <3>1, <4>1
      <4> QED
        BY <4>1, <4>2 DEF Run, Seqs
    <3>3. fr.seq \in Seqs(run)
      BY DEF Seqs
    <3> QED
      BY <1>1, <3>1, <3>2, <3>3
  <2> QED
    BY <2>1, <2>2
<1>6. /\ n \in Nat /\ Seqs(run) = fr.seq..(fr.seq + n - 1)
      /\ \A i \in 1..n : InSeqOrder(run)[i] \in run /\ InSeqOrder(run)[i].seq = fr.seq + i - 1
  BY <1>1, <1>2, <1>3, <1>4, <1>5, OrderOfRun
<1>7. n # 0
  <2>1. fr.seq \in Seqs(run)
    BY DEF Seqs
  <2> QED
    BY <1>1, <1>6, <2>1
<1>8. ASSUME NEW h \in held \ run PROVE h.seq > fr.seq + n
  <2>1. h.seq \notin Seqs(run)
    <3>1. SUFFICES ASSUME NEW k \in run, k.seq = h.seq PROVE FALSE
      BY DEF Seqs
    <3>2. k \in held
      BY <1>1, <1>2, <3>1
    <3> QED
      BY <3>1, <3>2 DEF Distinct
  <2>2. h.seq >= fr.seq + n
    BY <1>1, <1>6, <1>7, <2>1
  <2>3. ASSUME h.seq = fr.seq + n PROVE FALSE
    <3>1. ASSUME NEW q \in fr.seq + 1 .. h.seq PROVE q \in Seqs(held)
      <4>1. CASE q = h.seq
        BY <4>1 DEF Seqs
      <4>2. CASE q # h.seq
        <5>1. q \in fr.seq..(fr.seq + n - 1) /\ q # fr.seq
          BY <1>1, <1>6, <2>3, <4>2
        <5>2. PICK k \in run : k.seq = q
          BY <1>6, <5>1 DEF Seqs
        <5> QED
          BY <1>2, <5>1, <5>2 DEF Seqs
      <4> QED
        BY <4>1, <4>2
    <3>2. h.seq > fr.seq
      BY <1>1, <1>6, <1>7, <2>3
    <3> QED
      BY <3>1, <3>2 DEF Run
  <2> QED
    BY <1>1, <1>6, <2>2, <2>3
<1> QED
  BY <1>2, <1>6, <1>7, <1>8

-----------------------------------------------------------------------------
(* The invariant.                                                          *)

Typed ==
  /\ emitted \in [Flows -> Nat] /\ counter \in [Flows -> Nat]
  /\ terminated \in Seq(Flows) /\ ended \in SUBSET Flows /\ burned \in SUBSET Flows
  /\ wire \in Seq(Frames)
  /\ order \in [Flows -> [expected : Nat, held : SUBSET Frames]]
  /\ broken \in BOOLEAN
  /\ written \in [Flows -> Seq(Nat)] /\ delivered \in [Flows -> Seq(Nat)]

\* The gate holds every flow that is over.
GateSound ==
  /\ IsFiniteSet(ended) /\ ToSet(terminated) = ended
  /\ Len(terminated) = Cardinality(ended)

\* The emissions of a flow that were written.
Carried(f) == {written[f][i] : i \in 1..Len(written[f])}

\* The numbers of a flow that are in flight.
OnWire(f) == {wire[i].seq : i \in {j \in 1..Len(wire) : wire[j].flow = f}}

\* An emission below n that was not written.
GapBelow(f, n) == \E g \in Nat : g < n /\ g \notin Carried(f)

\* While a flow is open its emissions are its numbers, and they are written in
\* order; one is missing only where a write failed.
WriterSound(f) ==
  /\ \A n \in Carried(f) : n < emitted[f]
  /\ \A i \in 1..Len(written[f]) : written[f][i] = i - 1 \/ GapBelow(f, written[f][i])
  /\ f \notin ended => /\ counter[f] = emitted[f]
                       /\ Len(written[f]) = emitted[f] \/ GapBelow(f, emitted[f])
  /\ f \notin burned => /\ \A i \in 1..Len(written[f]) : written[f][i] = i - 1
                        /\ f \notin ended => Len(written[f]) = emitted[f]

\* A frame carries its emission under its number, and a terminal is the last.
FrameSound(fr) ==
  /\ fr.id = fr.seq /\ fr.seq \in Carried(fr.flow)
  /\ IsTerminal(fr.kind) => fr.flow \in ended /\ \A n \in Carried(fr.flow) : n <= fr.seq

WireSound ==
  /\ \A i \in 1..Len(wire) : FrameSound(wire[i])
  /\ \A i, j \in 1..Len(wire) :
       wire[i].flow = wire[j].flow /\ wire[i].seq = wire[j].seq => i = j

HeldSound(f) ==
  /\ IsFiniteSet(order[f].held) /\ Distinct(order[f].held)
  /\ \A h \in order[f].held : h.flow = f /\ FrameSound(h) /\ h.seq \notin OnWire(f)

\* What was handed on is what was emitted, from the first on.
DeliveredSound(f) ==
  \A k \in 1..Len(delivered[f]) : delivered[f][k] = k - 1 /\ k - 1 \in Carried(f)

\* The reader has a flow's frames up to the number it expects; the others are in
\* flight or held.
Flowing(f) ==
  /\ order[f].expected = Len(delivered[f])
  /\ \A n \in OnWire(f) : n >= order[f].expected
  /\ \A h \in order[f].held : h.seq > order[f].expected
  /\ broken \/ \A n \in Carried(f) :
                 n < order[f].expected \/ n \in OnWire(f) \/ n \in Seqs(order[f].held)

\* The reader has all of it, the terminal included.
Done(f) ==
  /\ f \in ended /\ order[f] = Start /\ OnWire(f) = {}
  /\ \A n \in Carried(f) : n < Len(delivered[f])

FlowSound(f) ==
  WriterSound(f) /\ HeldSound(f) /\ DeliveredSound(f) /\ (Flowing(f) \/ Done(f))

Sound == Typed /\ GateSound /\ WireSound /\ \A f \in Flows : FlowSound(f)

-----------------------------------------------------------------------------
(* What it says.                                                           *)

LEMMA PrefixHandedOn ==
  ASSUME Sound, NEW f \in Flows
  PROVE  /\ Len(delivered[f]) <= Len(written[f])
         /\ \A k \in 1..Len(delivered[f]) : delivered[f][k] = k - 1 /\ written[f][k] = k - 1
<1> DEFINE d == delivered[f]
           w == written[f]
<1>1. d \in Seq(Nat) /\ w \in Seq(Nat) /\ Len(d) \in Nat /\ Len(w) \in Nat
  BY DEF Sound, Typed
<1>2. \A k \in 1..Len(d) : d[k] = k - 1 /\ k - 1 \in Carried(f)
  BY DEF Sound, FlowSound, DeliveredSound
<1>3. \A i \in 1..Len(w) : w[i] = i - 1 \/ GapBelow(f, w[i])
  BY DEF Sound, FlowSound, WriterSound
<1>4. ASSUME NEW k \in 1..Len(d) PROVE k \in 1..Len(w) /\ w[k] = k - 1
  <2>1. PICK j \in 1..Len(w) : w[j] = k - 1
    BY <1>2 DEF Carried
  <2>2. ~GapBelow(f, k - 1)
    <3>1. SUFFICES ASSUME NEW g \in Nat, g < k - 1 PROVE g \in Carried(f)
      BY DEF GapBelow
    <3>2. g + 1 \in 1..Len(d) /\ (g + 1) - 1 = g
      BY <1>1, <3>1
    <3> QED
      BY <1>2, <3>2
  <2>3. k - 1 = j - 1
    BY <1>3, <2>1, <2>2
  <2>4. k = j
    BY <2>3
  <2> QED
    BY <2>1, <2>4
<1>5. Len(d) <= Len(w)
  <2>1. CASE Len(d) = 0
    BY <1>1, <2>1
  <2>2. CASE Len(d) # 0
    <3>1. Len(d) \in 1..Len(d)
      BY <1>1, <2>2
    <3> QED
      BY <1>1, <1>4, <3>1
  <2> QED
    BY <2>1, <2>2
<1> QED
  BY <1>2, <1>4, <1>5

LEMMA SoundKeepsOrder == Sound => InOrder
<1> SUFFICES ASSUME Sound, NEW f \in Flows PROVE IsPrefix(delivered[f], written[f])
  BY DEF InOrder
<1> DEFINE d == delivered[f]
           w == written[f]
<1>1. d \in Seq(Nat) /\ w \in Seq(Nat) /\ Len(d) \in Nat /\ Len(w) \in Nat
  BY DEF Sound, Typed
<1>2. Len(d) <= Len(w) /\ \A k \in 1..Len(d) : d[k] = w[k]
  BY PrefixHandedOn
<1> HIDE DEF d, w
<1>3. SubSeq(d, 1, Len(d)) = [k \in 1..Len(d) |-> d[k]]
  BY <1>1
<1>4. SubSeq(w, 1, Len(d)) = [k \in 1..Len(d) |-> w[k]]
  BY <1>1, <1>2
<1>5. IsPrefix(d, w)
  BY <1>2, <1>3, <1>4 DEF IsPrefix
<1> QED
  BY <1>5 DEF d, w

LEMMA SoundLosesNothing == Sound => GapFreeFlowsArrive
<1> SUFFICES ASSUME Sound, wire = <<>>, ~broken, NEW f \in Flows \ burned
             PROVE  delivered[f] = written[f] /\ order[f].held = {}
  BY DEF GapFreeFlowsArrive
<1> DEFINE d == delivered[f]
           w == written[f]
           held == order[f].held
<1>1. /\ d \in Seq(Nat) /\ w \in Seq(Nat) /\ Len(d) \in Nat /\ Len(w) \in Nat
      /\ order[f].expected \in Nat /\ held \in SUBSET Frames
  BY DEF Sound, Typed
<1>2. Len(d) <= Len(w) /\ \A k \in 1..Len(d) : d[k] = w[k]
  BY PrefixHandedOn
<1>3. \A i \in 1..Len(w) : w[i] = i - 1 /\ i - 1 \in Carried(f)
  BY DEF Sound, FlowSound, WriterSound, Carried
<1>4. OnWire(f) = {}
  BY DEF OnWire
<1>5. held = {} /\ \A n \in Carried(f) : n < Len(d)
  <2>1. CASE Flowing(f)
    <3>1. /\ order[f].expected = Len(d) /\ \A h \in held : h.seq > Len(d)
          /\ \A n \in Carried(f) : n < Len(d) \/ n \in Seqs(held)
      BY <1>4, <2>1 DEF Flowing
    <3>2. Len(d) \notin Carried(f)
      BY <1>1, <3>1 DEF Seqs, Frames
    <3>3. Len(w) <= Len(d)
      <4>1. SUFFICES ASSUME Len(w) > Len(d) PROVE FALSE
        BY <1>1
      <4>2. Len(d) + 1 \in 1..Len(w) /\ (Len(d) + 1) - 1 = Len(d)
        BY <1>1, <4>1
      <4> QED
        BY <1>3, <3>2, <4>2
    <3>4. \A n \in Carried(f) : n < Len(d)
      BY <1>1, <1>3, <3>3 DEF Carried
    <3>5. held = {}
      <4>1. SUFFICES ASSUME NEW h \in held PROVE FALSE
        OBVIOUS
      <4>2. h.flow = f /\ h.seq \in Carried(f)
        BY DEF Sound, FlowSound, HeldSound, FrameSound
      <4>3. h.seq \in Nat /\ h.seq > Len(d) /\ h.seq < Len(d)
        BY <1>1, <3>1, <3>4, <4>2 DEF Frames
      <4> QED
        BY <1>1, <4>3
    <3> QED
      BY <3>4, <3>5
  <2>2. CASE Done(f)
    BY <2>2 DEF Done, Start
  <2> QED
    BY <2>1, <2>2 DEF Sound, FlowSound
<1>6. Len(w) <= Len(d)
  <2>1. CASE Len(w) = 0
    BY <1>1, <2>1
  <2>2. CASE Len(w) # 0
    <3>1. Len(w) \in 1..Len(w)
      BY <1>1, <2>2
    <3>2. Len(w) - 1 \in Carried(f)
      BY <1>3, <3>1
    <3>3. Len(w) - 1 < Len(d)
      BY <1>5, <3>2
    <3> QED
      BY <1>1, <3>3
  <2> QED
    BY <2>1, <2>2
<1>7. d = w
  <2> HIDE DEF d, w
  <2> QED
    BY <1>1, <1>2, <1>6
<1> QED
  BY <1>5, <1>7

-----------------------------------------------------------------------------
(* The steps of the writer.                                                *)

\* The gate remembers as many flows as there are to end: a flow it forgot would
\* be numbered from zero once more.
Remembered == IsFiniteSet(Flows) /\ Cardinality(Flows) <= GateCap

LEMMA GateKnows == ASSUME Typed, GateSound, NEW f \in Flows PROVE Gated(f) <=> f \in ended
BY DEF GateSound, Gated

LEMMA GateKeeps ==
  ASSUME Remembered, Typed, GateSound, NEW f \in Flows, f \notin ended
  PROVE  /\ Remember(f) \in Seq(Flows) /\ ToSet(Remember(f)) = ended \cup {f}
         /\ IsFiniteSet(ended \cup {f}) /\ Len(Remember(f)) = Cardinality(ended \cup {f})
<1> USE LimitsPositive
<1>1. /\ IsFiniteSet(ended \cup {f}) /\ Cardinality(ended \cup {f}) = Cardinality(ended) + 1
      /\ Cardinality(ended) \in Nat
  BY FS_AddElement, FS_CardinalityType DEF GateSound
<1>2. Cardinality(ended \cup {f}) <= Cardinality(Flows) /\ Cardinality(Flows) \in Nat
  BY FS_Subset, FS_CardinalityType DEF Remembered, Typed
<1>3. Remember(f) = Append(terminated, f)
  BY <1>1, <1>2 DEF Remember, Remembered, GateSound
<1>4. /\ Append(terminated, f) \in Seq(Flows)
      /\ Len(Append(terminated, f)) = Len(terminated) + 1
  BY DEF Typed
<1>5. ToSet(Append(terminated, f)) = ToSet(terminated) \cup {f}
  <2> DEFINE s == Append(terminated, f)
  <2>1. /\ Len(terminated) \in Nat /\ DOMAIN terminated = 1..Len(terminated)
        /\ DOMAIN s = 1..(Len(terminated) + 1)
        /\ \A i \in 1..Len(terminated) : s[i] = terminated[i]
        /\ s[Len(terminated) + 1] = f
    BY DEF Typed
  <2> HIDE DEF s
  <2>2. \A i \in DOMAIN s : i \in DOMAIN terminated \/ i = Len(terminated) + 1
    BY <2>1
  <2>3. DOMAIN terminated \subseteq DOMAIN s /\ Len(terminated) + 1 \in DOMAIN s
    BY <2>1
  <2>4. ToSet(s) = ToSet(terminated) \cup {f}
    BY <2>1, <2>2, <2>3 DEF ToSet
  <2> QED
    BY <2>4 DEF s
<1> QED
  BY <1>1, <1>3, <1>4, <1>5 DEF GateSound

\* A flow is told of numbers.
LEMMA CarriedNumbers ==
  ASSUME Typed, NEW g \in Flows
  PROVE  Carried(g) \in SUBSET Nat /\ emitted[g] \in Nat
<1>1. written[g] \in Seq(Nat) /\ emitted[g] \in Nat
  BY DEF Typed
<1>2. \A i \in 1..Len(written[g]) : written[g][i] \in Nat
  BY <1>1
<1> QED
  BY <1>1, <1>2 DEF Carried

LEMMA SuppressKeeps == ASSUME Sound, NEW f \in Flows, Suppress(f) PROVE Sound'
<1> USE DEF Sound
<1>1. f \in ended
  BY GateKnows DEF Suppress
<1>2. /\ emitted' = [emitted EXCEPT ![f] = @ + 1]
      /\ UNCHANGED <<counter, terminated, ended, burned, wire, order, broken, written, delivered>>
  BY DEF Suppress, Emit
<1>3. Typed' /\ \A g \in Flows : emitted'[g] = IF g = f THEN emitted[g] + 1 ELSE emitted[g]
  BY <1>2 DEF Typed
<1>4. GateSound'
  BY <1>2 DEF GateSound
<1>5. WireSound'
  BY <1>2 DEF WireSound, FrameSound, Carried
<1>6. ASSUME NEW g \in Flows PROVE FlowSound(g)'
  <2>1. WriterSound(g)'
    <3>1. Carried(g) \in SUBSET Nat /\ emitted[g] \in Nat
      BY CarriedNumbers
    <3>2. Carried(g)' = Carried(g) /\ \A n : GapBelow(g, n)' <=> GapBelow(g, n)
      BY <1>2 DEF Carried, GapBelow
    <3>3. (f = g => f \in ended') /\ written' = written /\ burned' = burned /\ ended' = ended
          /\ counter' = counter
      BY <1>1, <1>2
    <3>4. \A n \in Carried(g) : n < emitted'[g]
      BY <1>3, <3>1 DEF FlowSound, WriterSound
    <3>5. g \notin ended => emitted'[g] = emitted[g]
      BY <1>1, <1>3
    <3> QED
      BY <3>2, <3>3, <3>4, <3>5 DEF FlowSound, WriterSound
  <2>2. HeldSound(g)' /\ DeliveredSound(g)' /\ (Flowing(g) \/ Done(g))'
    <3>1. /\ Carried(g)' = Carried(g) /\ OnWire(g)' = OnWire(g)
          /\ order' = order /\ delivered' = delivered /\ broken' = broken /\ ended' = ended
          /\ \A fr : FrameSound(fr)' <=> FrameSound(fr)
      BY <1>2 DEF Carried, OnWire, FrameSound
    <3>2. HeldSound(g)'
      BY <3>1 DEF FlowSound, HeldSound
    <3>3. DeliveredSound(g)' /\ (Flowing(g) \/ Done(g))'
      BY <3>1 DEF FlowSound, DeliveredSound, Flowing, Done
    <3> QED
      BY <3>2, <3>3
  <2> QED
    BY <2>1, <2>2 DEF FlowSound
<1> QED
  BY <1>3, <1>4, <1>5, <1>6

LEMMA FailToWriteKeeps ==
  ASSUME Sound, NEW f \in Flows, FailToWrite(f) PROVE Sound'
<1> USE DEF Sound
<1>1. f \notin ended
  BY GateKnows DEF FailToWrite
<1>2. /\ emitted' = [emitted EXCEPT ![f] = @ + 1] /\ counter' = [counter EXCEPT ![f] = @ + 1]
      /\ burned' = burned \cup {f}
      /\ UNCHANGED <<terminated, ended, wire, order, broken, written, delivered>>
  BY DEF FailToWrite, Emit
<1>3. /\ Typed'
      /\ \A g \in Flows : /\ emitted'[g] = IF g = f THEN emitted[g] + 1 ELSE emitted[g]
                          /\ counter'[g] = IF g = f THEN counter[g] + 1 ELSE counter[g]
  BY <1>2 DEF Typed
<1>4. GateSound'
  BY <1>2 DEF GateSound
<1>5. WireSound'
  BY <1>2 DEF WireSound, FrameSound, Carried
<1>6. ASSUME NEW g \in Flows PROVE FlowSound(g)'
  <2>1. WriterSound(g)'
    <3>1. Carried(g) \in SUBSET Nat /\ emitted[g] \in Nat
      BY CarriedNumbers
    <3>2. Carried(g)' = Carried(g) /\ \A n : GapBelow(g, n)' <=> GapBelow(g, n)
      BY <1>2 DEF Carried, GapBelow
    <3>3. written' = written /\ ended' = ended
      BY <1>2
    <3>4. CASE g = f
      <4>1. f \in burned'
        BY <1>2
      <4>2. emitted[f] \notin Carried(f) /\ emitted[f] < emitted[f] + 1
        BY <3>1, <3>4 DEF FlowSound, WriterSound
      <4>3. GapBelow(f, emitted[f] + 1)
        BY <3>1, <3>4, <4>2 DEF GapBelow
      <4>4. counter[f] = emitted[f]
        BY <1>1 DEF FlowSound, WriterSound
      <4>5. \A n \in Carried(f) : n < emitted[f] + 1
        BY <3>1, <3>4 DEF FlowSound, WriterSound
      <4> QED
        BY <1>3, <3>2, <3>3, <3>4, <4>1, <4>3, <4>4, <4>5 DEF FlowSound, WriterSound
    <3>5. CASE g # f
      <4>1. g \in burned' <=> g \in burned
        BY <1>2, <3>5
      <4> QED
        BY <1>3, <3>2, <3>3, <3>5, <4>1 DEF FlowSound, WriterSound
    <3> QED
      BY <3>4, <3>5
  <2>2. HeldSound(g)' /\ DeliveredSound(g)' /\ (Flowing(g) \/ Done(g))'
    <3>1. /\ Carried(g)' = Carried(g) /\ OnWire(g)' = OnWire(g)
          /\ order' = order /\ delivered' = delivered /\ broken' = broken /\ ended' = ended
          /\ \A fr : FrameSound(fr)' <=> FrameSound(fr)
      BY <1>2 DEF Carried, OnWire, FrameSound
    <3>2. HeldSound(g)'
      BY <3>1 DEF FlowSound, HeldSound
    <3>3. DeliveredSound(g)' /\ (Flowing(g) \/ Done(g))'
      BY <3>1 DEF FlowSound, DeliveredSound, Flowing, Done
    <3> QED
      BY <3>2, <3>3
  <2> QED
    BY <2>1, <2>2 DEF FlowSound
<1> QED
  BY <1>3, <1>4, <1>5, <1>6

LEMMA WriteKeeps ==
  ASSUME Remembered, Sound, NEW f \in Flows, NEW kind \in Kinds, Write(f, kind) PROVE Sound'
<1> USE DEF Sound
<1>e. PICK e : e = emitted[f]
  OBVIOUS
<1>f. PICK fr : fr = Frame(f, kind)
  OBVIOUS
<1>1. f \notin ended
  BY GateKnows DEF Write
<1>2. /\ emitted' = [emitted EXCEPT ![f] = @ + 1]
      /\ wire' = Append(wire, fr)
      /\ written' = [written EXCEPT ![f] = Append(@, e)]
      /\ counter' = [counter EXCEPT ![f] = IF IsTerminal(kind) THEN 0 ELSE @ + 1]
      /\ terminated' = IF IsTerminal(kind) THEN Remember(f) ELSE terminated
      /\ ended' = IF IsTerminal(kind) THEN ended \cup {f} ELSE ended
      /\ burned' = burned /\ order' = order /\ broken' = broken /\ delivered' = delivered
  BY <1>e, <1>f DEF Write, Emit
<1>3. /\ e \in Nat /\ counter[f] = e
      /\ fr \in Frames /\ fr.flow = f /\ fr.seq = e /\ fr.id = e /\ fr.kind = kind
  <2>1. e \in Nat /\ counter[f] = e
    BY <1>1, <1>e DEF Typed, FlowSound, WriterSound
  <2> QED
    BY <2>1, <1>e, <1>f DEF Frame, Frames
<1>4. /\ \A g \in Flows : emitted'[g] = IF g = f THEN e + 1 ELSE emitted[g]
      /\ \A g \in Flows : g # f => counter'[g] = counter[g]
      /\ ~IsTerminal(kind) => counter'[f] = e + 1
      /\ \A g \in Flows : g # f => written'[g] = written[g]
      /\ written'[f] = Append(written[f], e)
  BY <1>2, <1>3, <1>e DEF Typed
<1>5. Typed'
  <2>1. terminated' \in Seq(Flows) /\ ended' \in SUBSET Flows
    BY <1>1, <1>2, GateKeeps DEF Typed
  <2>2. wire' \in Seq(Frames)
    BY <1>2, <1>3 DEF Typed
  <2>3. emitted' \in [Flows -> Nat] /\ counter' \in [Flows -> Nat]
    BY <1>2 DEF Typed
  <2>4. written' \in [Flows -> Seq(Nat)]
    BY <1>2, <1>3 DEF Typed
  <2> QED
    BY <1>2, <2>1, <2>2, <2>3, <2>4 DEF Typed
<1>6. GateSound'
  BY <1>1, <1>2, GateKeeps DEF GateSound
<1>7. /\ \A g \in Flows : g # f => Carried(g)' = Carried(g)
      /\ Carried(f)' = Carried(f) \cup {e}
      /\ \A n \in Carried(f) : n \in Nat /\ n < e
  <2>1. \A g \in Flows : g # f => Carried(g)' = Carried(g)
    BY <1>4 DEF Carried
  <2>2. \A n \in Carried(f) : n \in Nat /\ n < e
    BY <1>e DEF Carried, Typed, FlowSound, WriterSound
  <2>3. /\ Len(written[f]) \in Nat /\ Len(written'[f]) = Len(written[f]) + 1
        /\ \A i \in 1..Len(written[f]) : written'[f][i] = written[f][i]
        /\ written'[f][Len(written[f]) + 1] = e
    BY <1>3, <1>4 DEF Typed
  <2>4. /\ 1..Len(written'[f]) = 1..Len(written[f]) \cup {Len(written[f]) + 1}
    BY <2>3
  <2>5. Carried(f)' = Carried(f) \cup {e}
    <3>1. \A i \in 1..Len(written'[f]) : written'[f][i] \in Carried(f) \cup {e}
      BY <2>3, <2>4 DEF Carried
    <3>2. e \in Carried(f)'
      BY <2>3, <2>4 DEF Carried
    <3>3. Carried(f) \subseteq Carried(f)'
      BY <2>3, <2>4 DEF Carried
    <3>4. Carried(f)' \subseteq Carried(f) \cup {e}
      BY <3>1 DEF Carried
    <3> QED
      BY <3>2, <3>3, <3>4
  <2> QED
    BY <2>1, <2>2, <2>5
<1>8. /\ Len(wire) \in Nat /\ Len(wire') = Len(wire) + 1
      /\ 1..Len(wire') = 1..Len(wire) \cup {Len(wire) + 1}
      /\ \A i \in 1..Len(wire) : wire'[i] = wire[i] /\ wire[i] \in Frames
      /\ wire'[Len(wire) + 1] = fr
  <2>1. /\ Len(wire) \in Nat /\ Len(wire') = Len(wire) + 1
        /\ \A i \in 1..Len(wire) : wire'[i] = wire[i] /\ wire[i] \in Frames
        /\ wire'[Len(wire) + 1] = fr
    BY <1>2, <1>3 DEF Typed
  <2> QED
    BY <2>1
<1>9. /\ \A g \in Flows : g # f => OnWire(g)' = OnWire(g)
      /\ OnWire(f)' = OnWire(f) \cup {e}
  <2>1. ASSUME NEW g \in Flows
        PROVE  \A i : i \in {j \in 1..Len(wire') : wire'[j].flow = g}
                      <=> \/ i \in {j \in 1..Len(wire) : wire[j].flow = g}
                          \/ i = Len(wire) + 1 /\ f = g
    BY <1>3, <1>8
  <2>2. \A g \in Flows : g # f => OnWire(g)' = OnWire(g)
    BY <1>8, <2>1 DEF OnWire
  <2>3. \A n : n \in OnWire(f)' <=> n \in OnWire(f) \/ n = e
    BY <1>3, <1>8, <2>1 DEF OnWire
  <2> QED
    BY <2>2, <2>3
<1>10. \A g \in Flows : g # f => (g \in ended' <=> g \in ended)
  BY <1>2
<1>11. ASSUME NEW x \in Frames, FrameSound(x) PROVE FrameSound(x)'
  <2>1. CASE x.flow = f
    <3>1. ~IsTerminal(x.kind)
      BY <1>1, <1>11, <2>1 DEF FrameSound
    <3> QED
      BY <1>7, <1>11, <2>1, <3>1 DEF FrameSound
  <2>2. CASE x.flow # f
    <3>1. x.flow \in Flows
      BY DEF Frames
    <3> QED
      BY <1>7, <1>10, <1>11, <2>2, <3>1 DEF FrameSound
  <2> QED
    BY <2>1, <2>2
<1>12. FrameSound(fr)'
  <2>1. IsTerminal(kind) => f \in ended'
    BY <1>2
  <2>2. e \in Carried(f)' /\ \A n \in Carried(f)' : n <= e
    BY <1>3, <1>7
  <2> QED
    BY <1>3, <2>1, <2>2 DEF FrameSound
<1>13. WireSound'
  <2>1. (\A i \in 1..Len(wire) : FrameSound(wire[i]))'
    <3>1. \A x : (\E i \in 1..Len(wire') : x = wire'[i]) => FrameSound(x)'
      BY <1>8, <1>11, <1>12 DEF WireSound
    <3> QED
      BY <3>1
  <2>2. \A i \in 1..Len(wire) : wire[i].flow = f => wire[i].seq < e
    BY <1>7 DEF WireSound, FrameSound
  <2>3. ASSUME NEW i \in 1..Len(wire'), NEW j \in 1..Len(wire'),
               wire'[i].flow = wire'[j].flow, wire'[i].seq = wire'[j].seq
        PROVE  i = j
    BY <1>3, <1>8, <2>2, <2>3 DEF WireSound
  <2> QED
    BY <2>1, <2>3 DEF WireSound
<1>14. WriterSound(f)'
  <2>w. PICK w : w = written[f]
    OBVIOUS
  <2>1. w \in Seq(Nat) /\ Len(w) \in Nat
    BY <2>w DEF Typed
  <2>2. /\ written'[f] = Append(w, e) /\ Len(written'[f]) = Len(w) + 1
        /\ \A i \in 1..(Len(w) + 1) : /\ i # Len(w) + 1 => i \in 1..Len(w) /\ written'[f][i] = w[i]
                                      /\ i = Len(w) + 1 => written'[f][i] = e
    BY <1>3, <1>4, <2>1, <2>w
  <2>3. \A n : (n \in Nat /\ n <= e) => (GapBelow(f, n) => GapBelow(f, n)')
    BY <1>3, <1>7 DEF GapBelow
  <2>4. /\ \A i \in 1..Len(w) : w[i] = i - 1 \/ GapBelow(f, w[i])
        /\ \A i \in 1..Len(w) : w[i] \in Carried(f)
        /\ Len(w) = e \/ GapBelow(f, e)
        /\ f \notin burned => (\A i \in 1..Len(w) : w[i] = i - 1) /\ Len(w) = e
    BY <1>1, <1>e, <2>w DEF FlowSound, WriterSound, Carried
  <2>5. \A n \in Carried(f)' : n < emitted'[f]
    BY <1>3, <1>4, <1>7
  <2>6. ASSUME NEW i \in 1..Len(written'[f]), NEW x, x = written'[f][i]
        PROVE  x = i - 1 \/ GapBelow(f, x)'
    <3>1. CASE i = Len(w) + 1
      <4>1. x = e
        BY <2>1, <2>2, <2>6, <3>1
      <4>2. Len(w) = e \/ GapBelow(f, e)'
        BY <1>3, <2>3, <2>4
      <4>3. Len(w) = e => e = i - 1
        BY <2>1, <3>1
      <4> QED
        BY <4>1, <4>2, <4>3
    <3>2. CASE i # Len(w) + 1
      <4>1. i \in 1..Len(w) /\ x = w[i]
        BY <2>1, <2>2, <2>6, <3>2
      <4>2. w[i] \in Nat /\ w[i] <= e
        BY <1>3, <1>7, <2>4, <4>1
      <4> QED
        BY <2>3, <2>4, <4>1, <4>2
    <3> QED
      BY <3>1, <3>2
  <2>7. f \notin ended' => /\ counter'[f] = emitted'[f]
                           /\ Len(written'[f]) = e + 1 \/ GapBelow(f, e + 1)'
    <3>1. GapBelow(f, e)' => GapBelow(f, e + 1)'
      BY <1>3 DEF GapBelow
    <3>2. GapBelow(f, e) => GapBelow(f, e + 1)'
      BY <1>3, <2>3, <3>1
    <3>3. f \notin ended' => counter'[f] = e + 1
      BY <1>2, <1>4
    <3>4. Len(w) = e => Len(written'[f]) = e + 1
      BY <2>2
    <3> QED
      BY <1>4, <2>4, <3>2, <3>3, <3>4
  <2>8. f \notin burned' => /\ \A i \in 1..Len(written'[f]) : written'[f][i] = i - 1
                            /\ f \notin ended' => Len(written'[f]) = emitted'[f]
    BY <1>2, <1>3, <1>4, <2>1, <2>2, <2>4
  <2>9. (\A i \in 1..Len(written[f]) : written[f][i] = i - 1 \/ GapBelow(f, written[f][i]))'
    BY <2>6 DEF GapBelow
  <2>10. (f \notin ended => /\ counter[f] = emitted[f]
                            /\ Len(written[f]) = emitted[f] \/ GapBelow(f, emitted[f]))'
    BY <1>4, <2>7 DEF GapBelow
  <2> QED
    BY <2>5, <2>8, <2>9, <2>10 DEF WriterSound
<1>15. \A g \in Flows : order[g].held \in SUBSET Frames /\ order[g].expected \in Nat
  BY DEF Typed
<1>16. ASSUME NEW g \in Flows PROVE HeldSound(g)'
  <2>1. \A h \in order[g].held : h.flow = g /\ FrameSound(h)' /\ h.seq \notin OnWire(g)
    BY <1>11, <1>15 DEF FlowSound, HeldSound
  <2>2. \A h \in order[g].held : g = f => h.seq # e
    BY <1>3, <1>7, <2>1 DEF FlowSound, HeldSound, FrameSound
  <2> QED
    BY <1>2, <1>9, <2>1, <2>2 DEF FlowSound, HeldSound
<1>17. ASSUME NEW g \in Flows PROVE DeliveredSound(g)'
  BY <1>2, <1>7 DEF FlowSound, DeliveredSound
<1>18. Flowing(f)'
  <2>1. Flowing(f)
    BY <1>1 DEF FlowSound, Done
  <2>2. e >= order[f].expected
    <3> DEFINE d == Len(delivered[f])
    <3>1. d \in Nat /\ order[f].expected = d
      BY <2>1 DEF Flowing, Typed
    <3>2. d # 0 => d \in 1..d
      BY <3>1
    <3>3. d # 0 => d - 1 \in Carried(f)
      BY <3>2 DEF FlowSound, DeliveredSound
    <3>4. d # 0 => d - 1 < e
      BY <1>7, <3>3
    <3> HIDE DEF d
    <3> QED
      BY <1>3, <3>1, <3>4
  <2> QED
    BY <1>2, <1>7, <1>9, <2>1, <2>2 DEF Flowing
<1>19. ASSUME NEW g \in Flows, g # f PROVE FlowSound(g)'
  <2>1. WriterSound(g)'
    BY <1>2, <1>4, <1>7, <1>10, <1>19 DEF FlowSound, WriterSound, GapBelow
  <2>2. (Flowing(g) \/ Done(g))'
    BY <1>2, <1>7, <1>9, <1>10, <1>19 DEF FlowSound, Flowing, Done
  <2> QED
    BY <1>16, <1>17, <2>1, <2>2 DEF FlowSound
<1>20. FlowSound(f)'
  BY <1>14, <1>16, <1>17, <1>18 DEF FlowSound
<1> QED
  BY <1>5, <1>6, <1>13, <1>19, <1>20

-----------------------------------------------------------------------------
(* The steps of the reader.                                                *)

\* A frame leaves the wire: the others keep their flow, number and content.
LEMMA OneLeaves ==
  ASSUME Typed, WireSound, NEW i \in DOMAIN wire, Arrive(i),
         NEW fr, fr = [wire[i] EXCEPT !.overtaken = 0]
  PROVE  /\ wire' \in Seq(Frames) /\ WireSound'
         /\ fr \in Frames /\ FrameSound(fr) /\ fr.seq \in OnWire(fr.flow)
         /\ \A g \in Flows : OnWire(g)' = IF g = fr.flow THEN OnWire(g) \ {fr.seq} ELSE OnWire(g)
         /\ Deliver(fr) \/ Hold(fr) \/ Refuse(fr)
         /\ UNCHANGED <<emitted, counter, terminated, ended, burned, written>>
<1> DEFINE back(j) == IF j >= i THEN j + 1 ELSE j
<1>1. /\ Len(wire) \in Nat /\ i \in 1..Len(wire)
      /\ \A j \in 1..Len(wire) : wire[j] \in Frames
  BY DEF Typed
<1>2. /\ wire' = [j \in 1..(Len(wire) - 1) |->
                   IF j >= i THEN wire[j + 1]
                   ELSE IF wire[j].flow = wire[i].flow
                        THEN [wire[j] EXCEPT !.overtaken = @ + 1] ELSE wire[j]]
      /\ Deliver(fr) \/ Hold(fr) \/ Refuse(fr)
      /\ UNCHANGED <<emitted, counter, terminated, ended, burned, written>>
  BY DEF Arrive, sender
<1>3. /\ fr \in Frames /\ fr.flow = wire[i].flow /\ fr.seq = wire[i].seq
      /\ fr.id = wire[i].id /\ fr.kind = wire[i].kind
  BY <1>1 DEF Frames
<1>4. FrameSound(fr) /\ fr.seq \in OnWire(fr.flow)
  BY <1>1, <1>3 DEF WireSound, FrameSound, OnWire
<1>5. ASSUME NEW j \in 1..(Len(wire) - 1)
      PROVE  /\ back(j) \in 1..Len(wire) /\ back(j) # i
             /\ wire'[j] \in Frames
             /\ wire'[j].flow = wire[back(j)].flow /\ wire'[j].seq = wire[back(j)].seq
             /\ wire'[j].id = wire[back(j)].id /\ wire'[j].kind = wire[back(j)].kind
  <2>1. back(j) \in 1..Len(wire) /\ back(j) # i
    BY <1>1
  <2>2. CASE j >= i
    BY <1>1, <1>2, <2>1, <2>2 DEF Frames
  <2>3. CASE ~(j >= i)
    <3>1. wire[j] \in Frames /\ wire[j].overtaken \in Nat
      BY <1>1 DEF Frames
    <3>2. wire'[j] = IF wire[j].flow = wire[i].flow
                     THEN [wire[j] EXCEPT !.overtaken = @ + 1] ELSE wire[j]
      BY <1>2, <2>3
    <3> QED
      BY <2>1, <2>3, <3>1, <3>2 DEF Frames
  <2> QED
    BY <2>2, <2>3
<1>6. wire' \in Seq(Frames) /\ Len(wire') = Len(wire) - 1
  <2>1. Len(wire) - 1 \in Nat
    BY <1>1
  <2>2. wire' \in [1..(Len(wire) - 1) -> Frames]
    BY <1>2, <1>5
  <2> QED
    BY <2>1, <2>2
<1>7. \A j, k \in 1..(Len(wire) - 1) : back(j) = back(k) => j = k
  BY <1>1
<1>8. \A m \in 1..Len(wire) : m # i => \E j \in 1..(Len(wire) - 1) : back(j) = m
  <2>1. SUFFICES ASSUME NEW m \in 1..Len(wire), m # i
                 PROVE  \E j \in 1..(Len(wire) - 1) : back(j) = m
    OBVIOUS
  <2>2. CASE m > i
    <3>1. m - 1 \in 1..(Len(wire) - 1) /\ back(m - 1) = m
      BY <1>1, <2>2
    <3> QED
      BY <3>1
  <2>3. CASE m < i
    <3>1. m \in 1..(Len(wire) - 1) /\ back(m) = m
      BY <1>1, <2>3
    <3> QED
      BY <3>1
  <2> QED
    BY <1>1, <2>1, <2>2, <2>3
<1> HIDE DEF back
<1>9. \A x, y : (/\ x.flow = y.flow /\ x.seq = y.seq /\ x.id = y.id /\ x.kind = y.kind
                 /\ FrameSound(y)) => FrameSound(x)'
  BY <1>2 DEF FrameSound, Carried
<1>10. WireSound'
  <2>1. (\A j \in 1..Len(wire) : FrameSound(wire[j]))'
    <3>1. ASSUME NEW j \in 1..(Len(wire) - 1), NEW x, x = wire'[j] PROVE FrameSound(x)'
      <4>1. FrameSound(wire[back(j)])
        BY <1>5 DEF WireSound
      <4> QED
        BY <1>5, <1>9, <3>1, <4>1
    <3> QED
      BY <1>6, <3>1 DEF FrameSound
  <2>2. ASSUME NEW j \in 1..(Len(wire) - 1), NEW k \in 1..(Len(wire) - 1),
               wire'[j].flow = wire'[k].flow, wire'[j].seq = wire'[k].seq
        PROVE  j = k
    <3>1. back(j) = back(k)
      BY <1>5, <2>2 DEF WireSound
    <3> QED
      BY <1>7, <3>1
  <2> QED
    BY <1>6, <2>1, <2>2 DEF WireSound
<1>11. ASSUME NEW g \in Flows
       PROVE  OnWire(g)' = IF g = fr.flow THEN OnWire(g) \ {fr.seq} ELSE OnWire(g)
  <2>1. \A n : n \in OnWire(g)' <=> \E j \in 1..(Len(wire) - 1) : wire'[j].flow = g /\ wire'[j].seq = n
    BY <1>6 DEF OnWire
  <2>2. \A n : n \in OnWire(g) <=> \E m \in 1..Len(wire) : wire[m].flow = g /\ wire[m].seq = n
    BY DEF OnWire
  <2>3. \A n : n \in OnWire(g)' <=> \E m \in 1..Len(wire) : m # i /\ wire[m].flow = g /\ wire[m].seq = n
    BY <1>5, <1>8, <2>1
  <2>4. \A m \in 1..Len(wire) : m # i => ~(wire[m].flow = fr.flow /\ wire[m].seq = fr.seq)
    BY <1>1, <1>3 DEF WireSound
  <2>5. \A n : n \in OnWire(g)' <=> n \in OnWire(g) /\ ~(g = fr.flow /\ n = fr.seq)
    BY <1>1, <1>3, <2>2, <2>3, <2>4
  <2> QED
    BY <2>5
<1> QED
  BY <1>2, <1>3, <1>4, <1>6, <1>10, <1>11

LEMMA ArriveKeeps == ASSUME Sound, NEW i \in DOMAIN wire, Arrive(i) PROVE Sound'
<1> USE DEF Sound
<1>0. PICK fr : fr = [wire[i] EXCEPT !.overtaken = 0]
  OBVIOUS
<1>1. /\ wire' \in Seq(Frames) /\ WireSound'
      /\ fr \in Frames /\ FrameSound(fr) /\ fr.seq \in OnWire(fr.flow)
      /\ \A g \in Flows : OnWire(g)' = IF g = fr.flow THEN OnWire(g) \ {fr.seq} ELSE OnWire(g)
      /\ Deliver(fr) \/ Hold(fr) \/ Refuse(fr)
      /\ UNCHANGED <<emitted, counter, terminated, ended, burned, written>>
  BY <1>0, OneLeaves
<1>2. PICK f \in Flows : f = fr.flow
  BY <1>1 DEF Frames
<1>3. PICK q \in Nat : q = fr.seq
  BY <1>1 DEF Frames
<1>4. /\ GateSound' /\ \A g \in Flows : WriterSound(g)'
      /\ \A x : FrameSound(x)' <=> FrameSound(x)
      /\ \A g : Carried(g)' = Carried(g)
  <2>1. /\ \A x : FrameSound(x)' <=> FrameSound(x)
        /\ \A g : Carried(g)' = Carried(g)
    BY <1>1 DEF FrameSound, Carried
  <2>2. GateSound'
    BY <1>1 DEF GateSound
  <2>3. \A g \in Flows : WriterSound(g)'
    BY <1>1, <2>1 DEF FlowSound, WriterSound, GapBelow
  <2> QED
    BY <2>1, <2>2, <2>3
<1>5. /\ q \in OnWire(f) /\ q \in Carried(f)
      /\ fr.flow = f /\ fr.seq = q /\ fr.id = q
      /\ OnWire(f)' = OnWire(f) \ {q} /\ \A g \in Flows : g # f => OnWire(g)' = OnWire(g)
  BY <1>1, <1>2, <1>3 DEF FrameSound
<1>6. Flowing(f) /\ HeldSound(f) /\ DeliveredSound(f)
  BY <1>5 DEF FlowSound, Done
<1>7. /\ order[f].expected \in Nat /\ order[f].held \in SUBSET Frames
      /\ delivered[f] \in Seq(Nat) /\ order[f].expected = Len(delivered[f])
      /\ order[f] \in [expected : Nat, held : SUBSET Frames]
  BY <1>6 DEF Typed, Flowing
<1>8. ASSUME NEW g \in Flows, g # f, order'[g] = order[g], delivered'[g] = delivered[g],
             broken' = broken \/ broken'
      PROVE  FlowSound(g)'
  <2>1. HeldSound(g)' /\ DeliveredSound(g)'
    BY <1>4, <1>5, <1>8 DEF FlowSound, HeldSound, DeliveredSound
  <2>2. (Flowing(g) \/ Done(g))'
    BY <1>1, <1>4, <1>5, <1>8 DEF FlowSound, Flowing, Done
  <2> QED
    BY <1>4, <2>1, <2>2 DEF FlowSound
<1>9. CASE Hold(fr)
  <2>1. /\ q > order[f].expected /\ q \notin Seqs(order[f].held)
        /\ order' = [order EXCEPT ![f].held = @ \cup {fr}]
        /\ broken' = broken /\ delivered' = delivered
    BY <1>5, <1>9 DEF Hold
  <2>2. /\ order' \in [Flows -> [expected : Nat, held : SUBSET Frames]]
        /\ order'[f].held = order[f].held \cup {fr} /\ order'[f].expected = order[f].expected
        /\ \A g \in Flows : g # f => order'[g] = order[g]
    BY <1>1, <1>7, <2>1 DEF Typed
  <2>3. Typed'
    BY <1>1, <2>1, <2>2 DEF Typed
  <2>4. HeldSound(f)'
    <3>1. IsFiniteSet(order[f].held \cup {fr})
      BY <1>6, FS_AddElement DEF HeldSound
    <3>2. Distinct(order[f].held \cup {fr})
      BY <1>5, <1>6, <2>1 DEF HeldSound, Distinct, Seqs
    <3>3. \A h \in order[f].held \cup {fr} : h.flow = f /\ FrameSound(h) /\ h.seq \notin OnWire(f) \ {q}
      BY <1>1, <1>5, <1>6 DEF HeldSound
    <3> QED
      BY <1>4, <1>5, <2>2, <3>1, <3>2, <3>3 DEF HeldSound
  <2>5. Seqs(order[f].held \cup {fr}) = Seqs(order[f].held) \cup {q}
    BY <1>5 DEF Seqs
  <2>6. Flowing(f)'
    BY <1>4, <1>5, <1>6, <2>1, <2>2, <2>5 DEF Flowing
  <2>7. DeliveredSound(f)'
    BY <1>4, <1>6, <2>1 DEF DeliveredSound
  <2>8. FlowSound(f)'
    BY <1>4, <2>4, <2>6, <2>7 DEF FlowSound
  <2> QED
    BY <1>1, <1>4, <1>8, <2>1, <2>2, <2>3, <2>8
<1>10. CASE Refuse(fr)
  <2>1. broken' = TRUE /\ order' = order /\ delivered' = delivered
    BY <1>10 DEF Refuse
  <2>2. Typed'
    BY <1>1, <2>1 DEF Typed
  <2>3. HeldSound(f)' /\ DeliveredSound(f)'
    BY <1>4, <1>5, <1>6, <2>1 DEF HeldSound, DeliveredSound
  <2>4. Flowing(f)'
    BY <1>4, <1>5, <1>6, <2>1 DEF Flowing
  <2>5. FlowSound(f)'
    BY <1>4, <2>3, <2>4 DEF FlowSound
  <2> QED
    BY <1>1, <1>4, <1>8, <2>1, <2>2, <2>5
<1>11. CASE Deliver(fr)
  <2>h. PICK held : held = order[f].held
    OBVIOUS
  <2>r. PICK run : run = {fr} \cup Run(held, q)
    OBVIOUS
  <2>n. PICK n : n = Cardinality(run)
    OBVIOUS
  <2>1. /\ q = order[f].expected /\ broken' = broken
        /\ delivered' = [delivered EXCEPT ![f] = @ \o [k \in 1..n |-> InSeqOrder(run)[k].id]]
        /\ order' = [order EXCEPT ![f] = IF \E h \in run : IsTerminal(h.kind) THEN Start
                                         ELSE [expected |-> q + n, held |-> held \ run]]
    BY <1>5, <1>11, <2>h, <2>r, <2>n DEF Deliver
  <2>2. /\ held \in SUBSET Frames /\ IsFiniteSet(held) /\ Distinct(held)
        /\ \A h \in held : h.seq > q /\ h.flow = f /\ FrameSound(h) /\ h.seq \notin OnWire(f)
    BY <1>6, <1>7, <2>1, <2>h DEF HeldSound, Flowing
  <2>3. /\ n \in Nat \ {0} /\ Seqs(run) = q..(q + n - 1) /\ run \in SUBSET Frames
        /\ \A k \in 1..n : InSeqOrder(run)[k] \in run /\ InSeqOrder(run)[k].seq = q + k - 1
        /\ \A h \in held \ run : h.seq > q + n
    <3>1. \A h \in held : h.seq > fr.seq
      BY <1>5, <2>2
    <3>2. run = {fr} \cup Run(held, fr.seq)
      BY <1>5, <2>r
    <3> QED
      BY <1>1, <1>5, <2>n, <2>2, <3>1, <3>2, WhatIsLetGo
  <2>4. \A h \in run : h.flow = f /\ FrameSound(h) /\ (h = fr \/ h \in held)
    BY <1>1, <1>5, <2>r, <2>2 DEF Run
  <2>5. PICK more : more = [k \in 1..n |-> InSeqOrder(run)[k].id]
    OBVIOUS
  <2>6. ASSUME NEW k \in 1..n PROVE more[k] = q + k - 1 /\ more[k] \in Nat /\ more[k] \in Carried(f)
    <3>1. InSeqOrder(run)[k] \in run /\ InSeqOrder(run)[k].seq = q + k - 1
      BY <2>3
    <3>2. more[k] = q + k - 1 /\ more[k] \in Carried(f)
      BY <2>4, <2>5, <3>1 DEF FrameSound
    <3> QED
      BY <3>2
  <2>7. more \in Seq(Nat) /\ Len(more) = n
    BY <2>3, <2>5, <2>6
  <2>8. /\ delivered' = [delivered EXCEPT ![f] = delivered[f] \o more]
        /\ delivered'[f] = delivered[f] \o more
        /\ \A g \in Flows : g # f => delivered'[g] = delivered[g]
        /\ delivered' \in [Flows -> Seq(Nat)] /\ Len(delivered'[f]) = q + n
    <3>1. delivered' = [delivered EXCEPT ![f] = delivered[f] \o more]
      BY <2>1, <2>5
    <3>2. delivered[f] \o more \in Seq(Nat) /\ Len(delivered[f] \o more) = q + n
      BY <1>7, <2>1, <2>3, <2>7
    <3>3. delivered \in [Flows -> Seq(Nat)]
      BY DEF Typed
    <3> QED
      BY <3>1, <3>2, <3>3
  <2>9. DeliveredSound(f)'
    <3>1. ASSUME NEW k \in 1..(q + n)
          PROVE  delivered'[f][k] = k - 1 /\ k - 1 \in Carried(f)
      <4>1. CASE k <= q
        <5>1. k \in 1..Len(delivered[f])
          BY <1>7, <2>1, <4>1
        <5>2. delivered'[f][k] = delivered[f][k]
          BY <1>7, <2>7, <2>8, <5>1
        <5> QED
          BY <1>6, <5>1, <5>2 DEF DeliveredSound
      <4>2. CASE ~(k <= q)
        <5>1. k - q \in 1..n /\ q + (k - q) - 1 = k - 1
          BY <2>3, <4>2
        <5>2. delivered'[f][k] = more[k - q]
          <6>1. k \in 1..(Len(delivered[f]) + Len(more)) /\ k > Len(delivered[f])
            BY <1>7, <2>1, <2>3, <2>7, <4>2
          <6>2. (delivered[f] \o more)[k] = more[k - Len(delivered[f])]
            BY <1>7, <2>7, <6>1
          <6> QED
            BY <1>7, <2>1, <2>8, <6>2
        <5> QED
          BY <2>6, <5>1, <5>2
      <4> QED
        BY <4>1, <4>2
    <3> QED
      BY <1>4, <2>8, <3>1 DEF DeliveredSound
  <2>10. \A m \in OnWire(f)' : m \in Nat /\ m >= q + n
    <3>1. SUFFICES ASSUME NEW m \in OnWire(f), m # q PROVE m \in Nat /\ m >= q + n
      BY <1>5
    <3>2. m \in Nat /\ m >= q
      <4>1. m >= q
        BY <1>6, <2>1 DEF Flowing
      <4>2. PICK j \in 1..Len(wire) : m = wire[j].seq
        BY DEF OnWire
      <4>3. wire[j] \in Frames
        BY <4>2 DEF Typed
      <4> QED
        BY <4>1, <4>2, <4>3 DEF Frames
    <3>3. m \notin Seqs(run)
      BY <1>5, <2>2, <2>4, <3>1 DEF Seqs
    <3> QED
      BY <2>3, <3>2, <3>3
  <2>11. /\ \A g \in Flows : g # f => order'[g] = order[g]
         /\ (\E h \in run : IsTerminal(h.kind)) => order'[f] = Start
         /\ ~(\E h \in run : IsTerminal(h.kind)) => order'[f] = [expected |-> q + n, held |-> held \ run]
    BY <2>1 DEF Typed
  <2>12. order' \in [Flows -> [expected : Nat, held : SUBSET Frames]]
    <3>1. \A g \in Flows : order'[g] \in [expected : Nat, held : SUBSET Frames]
      <4>1. ASSUME NEW g \in Flows, g # f PROVE order'[g] \in [expected : Nat, held : SUBSET Frames]
        BY <2>11, <4>1 DEF Typed
      <4>2. Start \in [expected : Nat, held : SUBSET Frames]
        BY DEF Start
      <4>3. [expected |-> q + n, held |-> held \ run] \in [expected : Nat, held : SUBSET Frames]
        BY <2>2, <2>3
      <4> QED
        BY <2>11, <4>1, <4>2, <4>3
    <3>2. order' = [g \in Flows |-> order'[g]]
      BY <2>1 DEF Typed
    <3> QED
      BY <3>1, <3>2
  <2>13. Typed'
    BY <1>1, <2>1, <2>8, <2>12 DEF Typed
  <2>14. CASE \E h \in run : IsTerminal(h.kind)
    <3>1. order'[f] = Start
      BY <2>11, <2>14
    <3>2. PICK t \in run : IsTerminal(t.kind)
      BY <2>14
    <3>3. t.seq \in q..(q + n - 1) /\ f \in ended /\ \A m \in Carried(f) : m <= t.seq
      BY <2>3, <2>4, <3>2 DEF Seqs, FrameSound
    <3>4. \A m \in Carried(f) : m \in Nat
      BY DEF Carried, Typed
    <3>5. \A m \in Carried(f) : m < q + n
      BY <2>3, <3>3, <3>4
    <3>6. OnWire(f)' = {}
      <4>1. OnWire(f) \subseteq Carried(f)
        BY DEF OnWire, WireSound, FrameSound
      <4>2. OnWire(f)' \subseteq Carried(f)
        BY <1>5, <4>1
      <4> QED
        BY <2>3, <2>10, <3>4, <3>5, <4>2
    <3>7. Done(f)'
      BY <1>1, <1>4, <2>8, <3>1, <3>3, <3>5, <3>6 DEF Done
    <3>8. HeldSound(f)'
      BY <3>1, FS_EmptySet DEF HeldSound, Start, Distinct
    <3>9. FlowSound(f)'
      BY <1>4, <2>9, <3>7, <3>8 DEF FlowSound
    <3> QED
      BY <1>1, <1>4, <1>8, <2>1, <2>8, <2>11, <2>13, <3>9
  <2>15. CASE ~(\E h \in run : IsTerminal(h.kind))
    <3>1. order'[f].expected = q + n /\ order'[f].held = held \ run
      BY <2>11, <2>15
    <3>2. HeldSound(f)'
      <4>1. IsFiniteSet(held \ run) /\ Distinct(held \ run)
        BY <2>2, FS_Subset DEF Distinct
      <4> QED
        BY <1>4, <1>5, <2>2, <3>1, <4>1 DEF HeldSound
    <3>3. \A h \in held \ run : h.seq > q + n
      BY <2>3
    <3>4. broken \/ \A m \in Carried(f) : m < q + n \/ m \in OnWire(f)' \/ m \in Seqs(held \ run)
      <4>1. SUFFICES ASSUME ~broken, NEW m \in Carried(f), ~(m < q + n)
                     PROVE  m \in OnWire(f)' \/ m \in Seqs(held \ run)
        OBVIOUS
      <4>2. m \in Nat /\ ~(m < q) /\ m # q /\ m \notin Seqs(run)
        <5>1. m \in Nat
          BY DEF Carried, Typed
        <5> QED
          BY <2>3, <4>1, <5>1
      <4>3. m \in OnWire(f) \/ m \in Seqs(held)
        BY <1>6, <2>1, <2>h, <4>1, <4>2 DEF Flowing
      <4>4. CASE m \in OnWire(f)
        BY <1>5, <4>2, <4>4
      <4>5. CASE m \in Seqs(held)
        BY <4>2, <4>5 DEF Seqs
      <4> QED
        BY <4>3, <4>4, <4>5
    <3>5. Flowing(f)'
      BY <1>4, <2>1, <2>8, <2>10, <3>1, <3>3, <3>4 DEF Flowing
    <3>6. FlowSound(f)'
      BY <1>4, <2>9, <3>2, <3>5 DEF FlowSound
    <3> QED
      BY <1>1, <1>4, <1>8, <2>1, <2>8, <2>11, <2>13, <3>6
  <2> QED
    BY <2>14, <2>15
<1> QED
  BY <1>1, <1>9, <1>10, <1>11

-----------------------------------------------------------------------------
(* The theorems.                                                           *)

LEMMA InitSound == Init => Sound
<1> SUFFICES ASSUME Init PROVE Sound
  OBVIOUS
<1> USE DEF Init
<1>1. Typed
  <2>1. order \in [Flows -> [expected : Nat, held : SUBSET Frames]]
    BY DEF Start
  <2>2. written \in [Flows -> Seq(Nat)] /\ delivered \in [Flows -> Seq(Nat)]
    OBVIOUS
  <2>3. wire \in Seq(Frames) /\ terminated \in Seq(Flows)
    OBVIOUS
  <2> QED
    BY <2>1, <2>2, <2>3 DEF Typed
<1>2. GateSound
  BY FS_EmptySet DEF GateSound, ToSet
<1>3. WireSound
  BY DEF WireSound
<1>4. ASSUME NEW f \in Flows PROVE FlowSound(f)
  <2>1. Carried(f) = {} /\ OnWire(f) = {} /\ order[f].held = {} /\ order[f].expected = 0
    BY DEF Carried, OnWire, Start
  <2>2. WriterSound(f)
    BY <2>1 DEF WriterSound
  <2>3. HeldSound(f)
    BY <2>1, FS_EmptySet DEF HeldSound, Distinct
  <2>4. Flowing(f)
    BY <2>1 DEF Flowing
  <2> QED
    BY <2>2, <2>3, <2>4 DEF FlowSound, DeliveredSound
<1> QED
  BY <1>1, <1>2, <1>3, <1>4 DEF Sound

LEMMA StepSound == ASSUME Remembered, Sound, [Next]_vars PROVE Sound'
<1>1. CASE Next
  BY <1>1, SuppressKeeps, FailToWriteKeeps, WriteKeeps, ArriveKeeps DEF Next
<1>2. CASE UNCHANGED vars
  <2>1. /\ Typed' /\ GateSound'
        /\ \A x : FrameSound(x)' <=> FrameSound(x)
        /\ \A f : Carried(f)' = Carried(f) /\ OnWire(f)' = OnWire(f)
    BY <1>2 DEF vars, sender, Sound, Typed, GateSound, FrameSound, Carried, OnWire
  <2>2. WireSound'
    BY <1>2, <2>1 DEF vars, sender, Sound, WireSound, FrameSound
  <2>3. ASSUME NEW f \in Flows PROVE FlowSound(f)'
    <3>1. WriterSound(f)'
      BY <1>2, <2>1 DEF vars, sender, Sound, FlowSound, WriterSound, GapBelow
    <3>2. HeldSound(f)' /\ DeliveredSound(f)' /\ (Flowing(f) \/ Done(f))'
      BY <1>2, <2>1 DEF vars, Sound, FlowSound, HeldSound, DeliveredSound, Flowing, Done, sender
    <3> QED
      BY <3>1, <3>2 DEF FlowSound
  <2> QED
    BY <2>1, <2>2, <2>3 DEF Sound
<1> QED
  BY <1>1, <1>2

\* In every reachable state the invariant holds, however many flows, frames and
\* places of skew there are (FlowOrdering.swift; CartridgeRuntime.swift,
\* ChannelFrameSender).
THEOREM SoundAlways == ASSUME Remembered PROVE Spec => []Sound
<1>1. Init => Sound
  BY InitSound
<1>2. Sound /\ [Next]_vars => Sound'
  BY StepSound
<1> QED
  BY <1>1, <1>2, PTL DEF Spec

\* What the reader hands on of a flow is a prefix of what was written to it,
\* whatever overtook what, whichever writes failed and whether the reader gave up
\* (FlowOrdering.swift, ReorderBuffer.accept).
THEOREM HandedOnInOrder == ASSUME Remembered PROVE Spec => []InOrder
<1>1. Sound => InOrder
  BY SoundKeepsOrder
<1> QED
  BY <1>1, SoundAlways, PTL

\* With nothing in flight and no refusal, a flow none of whose writes failed was
\* handed on whole and the buffer holds nothing of it (FlowOrdering.swift,
\* ReorderBuffer.accept and cleanupFlow).
THEOREM NothingStaysBehind == ASSUME Remembered PROVE Spec => []GapFreeFlowsArrive
<1>1. Sound => GapFreeFlowsArrive
  BY SoundLosesNothing
<1> QED
  BY <1>1, SoundAlways, PTL

\* Nothing is written to a flow after its END or ERR (Stats.swift,
\* TerminatedFlows; CartridgeRuntime.swift, ChannelFrameSender.send).
THEOREM OverIsOver == ASSUME Remembered PROVE Spec => NothingAfterTerminal
<1>1. ASSUME Sound, [Next]_vars, NEW f \in ended PROVE written'[f] = written[f]
  <2>1. f \in Flows
    BY <1>1 DEF Sound, Typed
  <2>2. ASSUME NEW g \in Flows, NEW kind \in Kinds, Write(g, kind) PROVE written'[f] = written[f]
    <3>1. g # f
      BY <1>1, <2>2, GateKnows DEF Sound, Write
    <3> QED
      BY <1>1, <2>1, <2>2, <3>1 DEF Sound, Typed, Write
  <2>3. ASSUME NEW g \in Flows, Suppress(g) \/ FailToWrite(g) PROVE written'[f] = written[f]
    BY <2>3 DEF Suppress, FailToWrite
  <2>4. ASSUME NEW i \in DOMAIN wire, Arrive(i) PROVE written'[f] = written[f]
    BY <2>4 DEF Arrive
  <2>5. CASE UNCHANGED vars
    BY <2>5 DEF vars
  <2> QED
    BY <1>1, <2>2, <2>3, <2>4, <2>5 DEF Next
<1>2. Sound /\ [Next]_vars => [\A f \in ended : written'[f] = written[f]]_vars
  BY <1>1
<1> QED
  BY <1>2, SoundAlways, PTL DEF Spec, NothingAfterTerminal
=============================================================================
