----------------------------- MODULE Recognizer -----------------------------
(***************************************************************************)
(* Request.Emission of the repository's formal program                     *)
(* (CapDAG-Bifaci-Request.c): the recognizer by which its conformance      *)
(* tests judge what a request put on the wire. A stream is started once,   *)
(* its chunks are numbered from zero, its end counts them if it promised a *)
(* length, END comes when no stream is open, and nothing comes after END   *)
(* or ERR.                                                                 *)
(*                                                                         *)
(* A flow is [open: the open streams' next index, ended, over].            *)
(***************************************************************************)
EXTENDS Naturals

CONSTANT Streams

(* A frame, as the recognizer sees it. An end without a count is that of   *)
(* an unbounded stream.                                                    *)
Frames ==
    [type : {"start"}, stream : Streams] \cup
    [type : {"chunk"}, stream : Streams, index : Nat] \cup
    [type : {"end"}, stream : Streams, counted : BOOLEAN, count : Nat] \cup
    [type : {"fin", "err", "other"}]

IsFlow(f) ==
    /\ DOMAIN f = {"open", "ended", "over"}
    /\ DOMAIN f.open \subseteq Streams /\ \A s \in DOMAIN f.open : f.open[s] \in Nat
    /\ f.ended \subseteq Streams
    /\ f.over \in BOOLEAN

Begun == [open |-> [s \in {} |-> 0], ended |-> {}, over |-> FALSE]

IsOpen(f, s) == s \in DOMAIN f.open

(* The recognizer's verdict on a frame: the conditions of its violations,  *)
(* negated.                                                                *)
Accepts(f, e) ==
    /\ ~f.over
    /\ CASE e.type = "start" -> ~IsOpen(f, e.stream) /\ e.stream \notin f.ended
         [] e.type = "chunk" -> IsOpen(f, e.stream) /\ e.index = f.open[e.stream]
         [] e.type = "end" ->
              /\ IsOpen(f, e.stream)
              /\ e.counted => e.count = f.open[e.stream]
         [] e.type = "fin" -> DOMAIN f.open = {}
         [] OTHER -> TRUE

(* What an accepted frame leaves.                                          *)
After(f, e) ==
    CASE e.type = "start" ->
            [f EXCEPT !.open = [s \in DOMAIN f.open \cup {e.stream} |->
                                    IF s = e.stream THEN 0 ELSE f.open[s]]]
      [] e.type = "chunk" -> [f EXCEPT !.open[e.stream] = @ + 1]
      [] e.type = "end" ->
            [f EXCEPT !.open = [s \in DOMAIN f.open \ {e.stream} |-> f.open[s]],
                      !.ended = @ \cup {e.stream}]
      [] e.type \in {"fin", "err"} -> [f EXCEPT !.over = TRUE]
      [] OTHER -> f

(* A flow that was refused a frame accepts none, and is no flow.           *)
Violation == [Begun EXCEPT !.over = TRUE, !.ended = {"violation"}]

(* Request.check, one frame of it.                                         *)
Judged(f, e) == IF Accepts(f, e) THEN After(f, e) ELSE Violation

=============================================================================
