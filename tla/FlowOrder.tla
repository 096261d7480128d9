----------------------------- MODULE FlowOrder -----------------------------
(***************************************************************************)
(* How the frames of a flow keep their order between two processes.  Any   *)
(* thread of the sending side emits through one serialized writer          *)
(* (ChannelFrameSender), which gates a flow behind its END or ERR and      *)
(* numbers its frames; the boundary that reads them puts them back in      *)
(* order (ReorderBuffer) and hands them on.  The buffer exists for a       *)
(* carrier that reorders, so the one here does, up to a bound; the sockets *)
(* of today's links are the case Skew = 0.                                 *)
(***************************************************************************)
EXTENDS Naturals, Sequences, FiniteSets, SequencesExt

CONSTANTS
  Flows,       \* the (rid, xid) keys frames travel under
  Kinds,       \* what is emitted: "body", "end", and "large", beyond max_frame
  BufferLimit, \* max_reorder_buffer: frames held per flow
  GateCap,     \* terminated flows the writer's gate remembers
  Skew,        \* bound: frames of its flow that may overtake a frame
  MaxFrames    \* bound: frames emitted per flow

ASSUME KindsKnown == Kinds \subseteq {"body", "end", "large"}
ASSUME LimitsPositive == BufferLimit \in Nat \ {0} /\ GateCap \in Nat \ {0}
ASSUME BoundsNat == Skew \in Nat /\ MaxFrames \in Nat

VARIABLES
  emitted,     \* frames emitted on each flow, the ones not written included
  counter,     \* SeqAssigner: the next number of each flow
  terminated,  \* TerminatedFlows: flows whose END or ERR was written, oldest first
  wire,        \* frames in flight, in the order written
  order,       \* ReorderBuffer: the number each flow expects and the frames held
  broken,      \* the reader refused a frame, and the connection with it
  ended,       \* history: flows whose END or ERR was written
  burned,      \* history: flows with a number that no frame carries
  written,     \* history: each flow's frames as written
  delivered    \* history: each flow's frames as handed on

sender == <<emitted, counter, terminated, ended, burned>>
vars == <<sender, wire, order, broken, written, delivered>>

IsTerminal(kind) == kind = "end"

Start == [expected |-> 0, held |-> {}]

Init ==
  /\ emitted = [f \in Flows |-> 0]
  /\ counter = [f \in Flows |-> 0]
  /\ terminated = <<>>
  /\ wire = <<>>
  /\ order = [f \in Flows |-> Start]
  /\ broken = FALSE
  /\ ended = {} /\ burned = {}
  /\ written = [f \in Flows |-> <<>>]
  /\ delivered = [f \in Flows |-> <<>>]

-----------------------------------------------------------------------------
(* The writer, one frame per hold of its lock.                             *)

\* Mutated: only the newest flow is remembered.
RememberNewest(f) == <<f>>

\* The set is a bounded FIFO: at capacity the oldest flow is forgotten.
Remember(f) ==
  Append(IF Len(terminated) = GateCap THEN Tail(terminated) ELSE terminated, f)

Gated(f) == f \in ToSet(terminated)

Emit(f) == emitted[f] < MaxFrames /\ emitted' = [emitted EXCEPT ![f] = @ + 1]

\* A straggler of a flow that is over is suppressed and counted.
Suppress(f) ==
  /\ Gated(f) /\ Emit(f)
  /\ UNCHANGED <<counter, terminated, ended, burned, wire, order, broken, written,
                 delivered>>

Frame(f, kind) ==
  [flow |-> f, seq |-> counter[f], id |-> emitted[f], kind |-> kind, overtaken |-> 0]

Write(f, kind) ==
  /\ ~Gated(f) /\ kind # "large" /\ Emit(f)
  /\ wire' = Append(wire, Frame(f, kind))
  /\ written' = [written EXCEPT ![f] = Append(@, emitted[f])]
  /\ counter' = [counter EXCEPT ![f] = IF IsTerminal(kind) THEN 0 ELSE @ + 1]
  /\ terminated' = IF IsTerminal(kind) THEN Remember(f) ELSE terminated
  /\ ended' = IF IsTerminal(kind) THEN ended \cup {f} ELSE ended
  /\ UNCHANGED <<burned, order, broken, delivered>>

\* The encoded frame is larger than the link allows: the write throws, after
\* the number was assigned.
FailToWrite(f) ==
  /\ ~Gated(f) /\ "large" \in Kinds /\ Emit(f)
  /\ counter' = [counter EXCEPT ![f] = @ + 1]
  /\ burned' = burned \cup {f}
  /\ UNCHANGED <<terminated, ended, wire, order, broken, written, delivered>>

-----------------------------------------------------------------------------
(* The reader: ReorderBuffer.accept, then cleanupFlow at a terminal.       *)

Seqs(held) == {h.seq : h \in held}

\* Mutated: nothing held is let go.
RunNothing(held, seq) == {}

\* Mutated: only the next frame is let go.
RunNextOnly(held, seq) == {h \in held : h.seq = seq + 1}

\* Mutated: everything later is let go, gap or not.
RunWithGaps(held, seq) == {h \in held : h.seq > seq}

\* The frames held that follow seq without a gap.
Run(held, seq) ==
  {h \in held : h.seq > seq /\ seq + 1 .. h.seq \subseteq Seqs(held)}

InSeqOrder(frames) ==
  [i \in 1..Cardinality(frames) |->
     CHOOSE h \in frames : Cardinality({g \in frames : g.seq < h.seq}) = i - 1]

Deliver(fr) ==
  LET o == order[fr.flow]
      run == {fr} \cup Run(o.held, fr.seq)
  IN /\ fr.seq = o.expected
     /\ delivered' = [delivered EXCEPT ![fr.flow] =
                        @ \o [i \in 1..Cardinality(run) |-> InSeqOrder(run)[i].id]]
     /\ order' = [order EXCEPT ![fr.flow] =
                    IF \E h \in run : IsTerminal(h.kind)
                    THEN Start
                    ELSE [expected |-> o.expected + Cardinality(run), held |-> o.held \ run]]
     /\ UNCHANGED broken

Hold(fr) ==
  LET o == order[fr.flow]
  IN /\ fr.seq > o.expected /\ fr.seq \notin Seqs(o.held)
     /\ Cardinality(o.held) < BufferLimit
     /\ order' = [order EXCEPT ![fr.flow].held = @ \cup {fr}]
     /\ UNCHANGED <<broken, delivered>>

\* Mutated: the buffer counts as full one frame early.
RefuseEarly(fr) ==
  LET o == order[fr.flow]
  IN /\ \/ fr.seq < o.expected
        \/ fr.seq > o.expected /\ (fr.seq \in Seqs(o.held) \/ Cardinality(o.held) + 1 >= BufferLimit)
     /\ broken' = TRUE
     /\ UNCHANGED <<order, delivered>>

\* Stale, duplicate or overflow: the frame is an error, which ends the read loop.
Refuse(fr) ==
  LET o == order[fr.flow]
  IN /\ \/ fr.seq < o.expected
        \/ fr.seq > o.expected /\ (fr.seq \in Seqs(o.held) \/ Cardinality(o.held) >= BufferLimit)
     /\ broken' = TRUE
     /\ UNCHANGED <<order, delivered>>

\* The frame at position i arrives next; those of its flow before it have been
\* overtaken once more.
Arrive(i) ==
  /\ ~broken
  /\ \A j \in 1..(i - 1) : wire[j].flow = wire[i].flow => wire[j].overtaken < Skew
  /\ wire' = [j \in 1..(Len(wire) - 1) |->
                IF j >= i THEN wire[j + 1]
                ELSE IF wire[j].flow = wire[i].flow
                     THEN [wire[j] EXCEPT !.overtaken = @ + 1] ELSE wire[j]]
  /\ LET fr == [wire[i] EXCEPT !.overtaken = 0]
     IN Deliver(fr) \/ Hold(fr) \/ Refuse(fr)
  /\ UNCHANGED <<sender, written>>

Next ==
  \/ \E f \in Flows : \/ Suppress(f) \/ FailToWrite(f)
                      \/ \E kind \in Kinds : Write(f, kind)
  \/ \E i \in DOMAIN wire : Arrive(i)

Spec == Init /\ [][Next]_vars

-----------------------------------------------------------------------------
TypeOK ==
  /\ emitted \in [Flows -> 0..MaxFrames]
  /\ counter \in [Flows -> 0..MaxFrames]
  /\ terminated \in BoundedSeq(Flows, GateCap)
  /\ broken \in BOOLEAN /\ ended \subseteq Flows /\ burned \subseteq Flows
  /\ \A f \in Flows : /\ order[f].expected \in 0..MaxFrames
                      /\ Cardinality(order[f].held) <= BufferLimit
                      /\ \A h \in order[f].held : h.seq > order[f].expected

\* Frames are handed on in the order they were written (FlowOrdering.swift,
\* ReorderBuffer), each once, whatever overtook what on the way.
InOrder == \A f \in Flows : IsPrefix(delivered[f], written[f])

\* Once nothing is in flight, everything written to a flow whose numbers have no
\* gap was handed on, and nothing of it is left waiting in the buffer.
GapFreeFlowsArrive ==
  wire = <<>> /\ ~broken =>
    \A f \in Flows \ burned : delivered[f] = written[f] /\ order[f].held = {}

\* "Frames are handed on in the order they were written, and none is lost"
\* (FlowOrdering.swift), whatever became of the writes.
NoneLost ==
  wire = <<>> /\ ~broken => \A f \in Flows : delivered[f] = written[f]

\* L4: once a flow's END or ERR is written nothing of the flow follows it, from
\* whichever thread it comes.
NothingAfterTerminal ==
  [][\A f \in ended : written'[f] = written[f]]_vars

=============================================================================
