------------------------------ MODULE Emission ------------------------------
(***************************************************************************)
(* What one request may put on the wire, as a specification: the flows the *)
(* recognizer accepts, frame by frame.                                     *)
(***************************************************************************)
EXTENDS Recognizer

VARIABLE flow    \* what the wire has carried so far

TypeOK == IsFlow(flow)

Init == flow = Begun

Emit(e) == Accepts(flow, e) /\ flow' = After(flow, e)

(* The frames that can follow: Emit for every frame, the indices and       *)
(* counts it accepts being those the flow itself has.                      *)
Next ==
    \/ \E s \in Streams : Emit([type |-> "start", stream |-> s])
    \/ \E s \in DOMAIN flow.open :
          \/ Emit([type |-> "chunk", stream |-> s, index |-> flow.open[s]])
          \/ \E counted \in BOOLEAN :
                Emit([type |-> "end", stream |-> s, counted |-> counted,
                      count |-> flow.open[s]])
    \/ \E t \in {"fin", "err", "other"} : Emit([type |-> t])

Spec == Init /\ [][Next]_flow

=============================================================================
