------------------------------- MODULE Output -------------------------------
(***************************************************************************)
(* The response of one request, from the handler's calls to the wire       *)
(* (CartridgeRuntime.swift): one OutputStream per declared output, with    *)
(* its coalescing buffer and chunk counter; dispatchOp, which ends every   *)
(* output once the handler has returned; the terminal claim between the    *)
(* handler and a cancel; and ChannelFrameSender, whose gate lets nothing   *)
(* of a flow follow its terminal.                                          *)
(*                                                                         *)
(* A handler gives each output to a task of its own and returns when all   *)
(* of them are idle; a detached progress sender outlives it. Bytes are     *)
(* units, numbered as the handler writes them, and a chunk carries one.    *)
(***************************************************************************)
EXTENDS Naturals, Sequences, SequencesExt, FiniteSets

CONSTANTS
    Outputs,     \* the cap's outputs, in the order finish ends them
    Required,    \* those that are not optional
    MaxBuffered, \* COALESCE_MAX_BYTES, in units
    MaxUnits,    \* bound: units written to one output
    MaxLogs,     \* bound: progress frames sent
    Habits       \* what else this handler does: "closes early", "writes late"
                 \* (to a closed output), "oversized"

ASSUME OutputsAreListed == IsInjective(Outputs) /\ Required \subseteq Range(Outputs)

Streams == Range(Outputs)

INSTANCE Recognizer

VARIABLES
    stream,   \* OutputStream: mode, unbounded, chunks, closed, buffer
    task,     \* what the call in progress on a stream has still to send
    written,  \* history: units a stream's calls were given
    gate,     \* the credit gate: "unregistered", "open", "closed"
    phase,    \* the handler's thread
    left,     \* the outputs finish has not come to
    claim,    \* TerminalClaim: "open", "handler", "cancel"
    cancel,   \* the main loop's cancel: "none", "claimed", "handled"
    writer,   \* the writer: the flow's terminal written, the connection lost;
              \* history: the flow as recognized, the units carried, the last frame
    logs      \* progress frames sent

vars == << stream, task, written, gate, phase, left, claim, cancel, writer, logs >>

Idle == [busy |-> FALSE, units |-> << >>, closing |-> FALSE]

Phases == {"performing", "finishing", "succeeded", "failed", "ending", "erring",
           "reported", "done"}

TypeOK ==
    /\ stream \in [Streams -> [mode : {"none", "write", "sequence"},
                               unbounded : BOOLEAN, chunks : Nat,
                               closed : BOOLEAN, buffer : Seq(Nat)]]
    /\ task \in [Streams -> [busy : BOOLEAN, units : Seq(Nat), closing : BOOLEAN]]
    /\ written \in [Streams -> Nat]
    /\ gate \in [Streams -> {"unregistered", "open", "closed"}]
    /\ phase \in Phases
    /\ left \in Seq(Streams)
    /\ claim \in {"open", "handler", "cancel"}
    /\ cancel \in {"none", "claimed", "handled"}
    /\ writer.over \in BOOLEAN /\ writer.broken \in BOOLEAN
    /\ IsFlow(writer.flow) \/ writer.flow = Violation
    /\ writer.carried \in [Streams -> Seq(Nat)]
    /\ writer.last \in {"none", "start", "chunk", "end", "fin", "err", "other"}
    /\ logs \in 0 .. MaxLogs

Init ==
    /\ stream = [s \in Streams |-> [mode |-> "none", unbounded |-> FALSE,
                                    chunks |-> 0, closed |-> FALSE,
                                    buffer |-> << >>]]
    /\ task = [s \in Streams |-> Idle]
    /\ written = [s \in Streams |-> 0]
    /\ gate = [s \in Streams |-> "unregistered"]
    /\ phase = "performing"
    /\ left = Outputs
    /\ claim = "open"
    /\ cancel = "none"
    /\ writer = [over |-> FALSE, broken |-> FALSE, flow |-> Begun,
                 carried |-> [s \in Streams |-> << >>], last |-> "none"]
    /\ logs = 0

-----------------------------------------------------------------------------
(* The writer                                                              *)

(* A frame on the wire.                                                    *)
Written(w, frame) ==
    [w EXCEPT !.over = @ \/ frame.type \in {"fin", "err"},
              !.flow = Judged(@, frame),
              !.carried = IF frame.type = "chunk"
                          THEN [w.carried EXCEPT ![frame.stream] = Append(@, frame.unit)]
                          ELSE @,
              !.last = frame.type]

(* Mutated: nothing is held back once the terminal is out.                 *)
SentUngated(w, frame) == IF w.broken THEN w ELSE Written(w, frame)

(* ChannelFrameSender.send: a straggler of an ended flow is suppressed.    *)
Sent(w, frame) == IF w.over \/ w.broken THEN w ELSE Written(w, frame)

(* A write on a lost connection throws; a suppressed frame does not.       *)
Throws(w) == w.broken /\ ~w.over

Break ==
    /\ ~writer.broken
    /\ writer' = [writer EXCEPT !.broken = TRUE]
    /\ UNCHANGED << stream, task, written, gate, phase, left, claim, cancel, logs >>

(* Progress, from a sender that may outlive the handler.                   *)
Progress ==
    /\ logs < MaxLogs
    /\ logs' = logs + 1
    /\ writer' = Sent(writer, [type |-> "other"])
    /\ UNCHANGED << stream, task, written, gate, phase, left, claim, cancel >>

-----------------------------------------------------------------------------
(* OutputStream                                                            *)

(* start and startUnbounded: the mode is set and the gate registered       *)
(* before the frame is sent, and stay so if it is not.                     *)
Started(s, mode, unbounded) ==
    /\ stream[s].mode = "none"
    /\ stream' = [stream EXCEPT ![s].mode = mode, ![s].unbounded = unbounded]
    /\ gate' = [gate EXCEPT ![s] = "open"]
    /\ writer' = Sent(writer, [type |-> "start", stream |-> s])

Start(s) ==
    /\ phase = "performing" /\ ~task[s].busy
    /\ \E mode \in {"write", "sequence"}, unbounded \in BOOLEAN :
          Started(s, mode, unbounded)
    /\ UNCHANGED << task, written, phase, left, claim, cancel, logs >>

(* The call's frames, sent one by one by the actions below.                *)
Sending(s, units, closing) ==
    task' = [task EXCEPT ![s] = [busy |-> TRUE, units |-> units, closing |-> closing]]

MayWrite(s, mode) ==
    /\ phase = "performing" /\ ~task[s].busy
    /\ stream[s].mode = mode
    /\ ~stream[s].closed \/ Habits # {}
    /\ written[s] < MaxUnits

(* write, and emitCbor of bytes: coalesced until the batch is due by size  *)
(* or by age.                                                              *)
Write(s) ==
    /\ MayWrite(s, "write")
    /\ written' = [written EXCEPT ![s] = @ + 1]
    /\ LET batch == Append(stream[s].buffer, written[s] + 1) IN
          \/ /\ Len(batch) < MaxBuffered
             /\ stream' = [stream EXCEPT ![s].buffer = batch]
             /\ UNCHANGED task
          \/ /\ stream' = [stream EXCEPT ![s].buffer = << >>]
             /\ Sending(s, batch, FALSE)
    /\ UNCHANGED << gate, phase, left, claim, cancel, writer, logs >>

(* emitCbor of anything else: an ordering barrier before its own chunk.    *)
EmitCbor(s) ==
    /\ MayWrite(s, "write")
    /\ written' = [written EXCEPT ![s] = @ + 1]
    /\ stream' = [stream EXCEPT ![s].buffer = << >>]
    /\ Sending(s, Append(stream[s].buffer, written[s] + 1), FALSE)
    /\ UNCHANGED << gate, phase, left, claim, cancel, writer, logs >>

(* emitListItem: the fragments of one item.                                *)
EmitListItem(s) ==
    /\ MayWrite(s, "sequence")
    /\ \E n \in 1 .. MaxUnits - written[s] :
          /\ written' = [written EXCEPT ![s] = @ + n]
          /\ Sending(s, [i \in 1 .. n |-> written[s] + i], FALSE)
    /\ UNCHANGED << stream, gate, phase, left, claim, cancel, writer, logs >>

Flush(s) ==
    /\ phase = "performing" /\ ~task[s].busy /\ stream[s].buffer # << >>
    /\ stream' = [stream EXCEPT ![s].buffer = << >>]
    /\ Sending(s, stream[s].buffer, FALSE)
    /\ UNCHANGED << written, gate, phase, left, claim, cancel, writer, logs >>

(* Mutated: what is buffered stays behind.                                 *)
ClosingUnflushed(s) ==
    /\ ~stream[s].closed
    /\ stream' = [stream EXCEPT ![s].closed = TRUE]
    /\ IF stream[s].mode = "none" THEN UNCHANGED task
       ELSE Sending(s, << >>, TRUE)

(* close and blockingClose: once, and the buffered tail goes before the    *)
(* end. A stream that was not started is marked closed all the same.       *)
Closing(s) ==
    /\ ~stream[s].closed
    /\ stream' = [stream EXCEPT ![s].closed = TRUE, ![s].buffer = << >>]
    /\ IF stream[s].mode = "none" THEN UNCHANGED task
       ELSE Sending(s, stream[s].buffer, TRUE)

Close(s) ==
    /\ phase = "performing" /\ ~task[s].busy
    /\ stream[s].mode # "none" \/ "closes early" \in Habits
    /\ Closing(s)
    /\ UNCHANGED << written, gate, phase, left, claim, cancel, writer, logs >>

(* sendChunk and sendItemChunk: a credit, an index, and the frame.         *)
SendChunk(s) ==
    /\ task[s].busy /\ task[s].units # << >>
    /\ gate[s] # "closed" /\ ~Throws(writer)
    /\ stream' = [stream EXCEPT ![s].chunks = @ + 1]
    /\ writer' = Sent(writer, [type |-> "chunk", stream |-> s,
                               index |-> stream[s].chunks,
                               unit |-> Head(task[s].units)])
    /\ task' = [task EXCEPT ![s].units = Tail(@)]
    /\ UNCHANGED << written, gate, phase, left, claim, cancel, logs >>

SendStreamEnd(s) ==
    /\ task[s].busy /\ task[s].units = << >> /\ task[s].closing
    /\ writer' = Sent(writer, [type |-> "end", stream |-> s,
                               counted |-> ~stream[s].unbounded,
                               count |-> stream[s].chunks])
    /\ task' = [task EXCEPT ![s] = Idle]
    /\ UNCHANGED << stream, written, gate, phase, left, claim, cancel, logs >>

Returned(s) ==
    /\ task[s].busy /\ task[s].units = << >> /\ ~task[s].closing
    /\ task' = [task EXCEPT ![s] = Idle]
    /\ UNCHANGED << stream, written, gate, phase, left, claim, cancel, writer, logs >>

(* The call throws: on a closed gate before anything is numbered, on a     *)
(* lost connection or an oversized frame after. What it had still to send  *)
(* is gone, and the handler may go on regardless.                          *)
Fail(s) ==
    /\ task[s].busy /\ task[s].units # << >>
    /\ \/ gate[s] = "closed" /\ UNCHANGED stream
       \/ /\ gate[s] # "closed"
          /\ Throws(writer) \/ "oversized" \in Habits
          /\ stream' = [stream EXCEPT ![s].chunks = @ + 1]
    /\ task' = [task EXCEPT ![s] = Idle]
    /\ UNCHANGED << written, gate, phase, left, claim, cancel, writer, logs >>

-----------------------------------------------------------------------------
(* dispatchOp and the handler's thread                                     *)

AllIdle == \A s \in Streams : ~task[s].busy

(* The op returns, or throws, when its tasks are done.                     *)
Perform ==
    /\ phase = "performing" /\ AllIdle
    /\ phase' \in {"finishing", "failed"}
    /\ UNCHANGED << stream, task, written, gate, left, claim, cancel, writer, logs >>

(* ResponseOutputs.finish, one output: a required one that was never       *)
(* started is started, and then stays in line to be closed; a started one  *)
(* is closed, unless it is; the errors of both are ignored.                *)
FinishOutput ==
    /\ phase = "finishing" /\ AllIdle /\ left # << >>
    /\ LET s == Head(left) IN
          \/ /\ stream[s].mode = "none" /\ s \in Required
             /\ \E mode \in {"write", "sequence"} : Started(s, mode, FALSE)
             /\ left' = IF Throws(writer) THEN Tail(left) ELSE left
             /\ UNCHANGED task
          \/ /\ left' = Tail(left)
             /\ UNCHANGED << gate, writer >>
             /\ \/ /\ stream[s].mode = "none" /\ s \notin Required
                   /\ UNCHANGED << stream, task >>
                \/ /\ stream[s].mode # "none" /\ stream[s].closed
                   /\ UNCHANGED << stream, task >>
                \/ stream[s].mode # "none" /\ Closing(s)
    /\ UNCHANGED << written, phase, claim, cancel, logs >>

Finished ==
    /\ phase = "finishing" /\ AllIdle /\ left = << >>
    /\ phase' = "succeeded"
    /\ UNCHANGED << stream, task, written, gate, left, claim, cancel, writer, logs >>

(* TerminalClaim.forHandler, before either terminal.                       *)
ClaimForHandler ==
    /\ phase \in {"succeeded", "failed"}
    /\ IF claim = "open"
       THEN /\ claim' = "handler"
            /\ phase' = IF phase = "succeeded" THEN "ending" ELSE "erring"
       ELSE /\ phase' = "reported"
            /\ UNCHANGED claim
    /\ UNCHANGED << stream, task, written, gate, left, cancel, writer, logs >>

SendTerminal ==
    /\ phase \in {"ending", "erring"}
    /\ writer' = Sent(writer, [type |-> IF phase = "ending" THEN "fin" ELSE "err"])
    /\ phase' = "reported"
    /\ UNCHANGED << stream, task, written, gate, left, claim, cancel, logs >>

-----------------------------------------------------------------------------
(* The main loop                                                           *)

GatesClosed == [s \in Streams |-> IF gate[s] = "open" THEN "closed" ELSE gate[s]]

(* TerminalClaim.forCancel; the gates of the request's streams close next. *)
ClaimForCancel ==
    /\ cancel = "none" /\ claim = "open" /\ phase # "done"
    /\ claim' = "cancel"
    /\ cancel' = "claimed"
    /\ UNCHANGED << stream, task, written, gate, phase, left, writer, logs >>

CloseGates ==
    /\ cancel = "claimed"
    /\ cancel' = "handled"
    /\ gate' = GatesClosed
    /\ UNCHANGED << stream, task, written, phase, left, claim, writer, logs >>

(* handlerDone: the gates close, and a cancelled request ends with its ERR.*)
HandlerDone ==
    /\ phase = "reported" /\ cancel # "claimed"
    /\ phase' = "done"
    /\ gate' = GatesClosed
    /\ writer' = IF claim = "cancel" THEN Sent(writer, [type |-> "err"]) ELSE writer
    /\ UNCHANGED << stream, task, written, left, claim, cancel, logs >>

(* A request that is done stays done.                                      *)
Rest == phase = "done" /\ UNCHANGED vars

Next ==
    \/ Break \/ Progress
    \/ \E s \in Streams :
          \/ Start(s) \/ Write(s) \/ EmitCbor(s) \/ EmitListItem(s)
          \/ Flush(s) \/ Close(s)
          \/ SendChunk(s) \/ SendStreamEnd(s) \/ Returned(s) \/ Fail(s)
    \/ Perform \/ FinishOutput \/ Finished \/ ClaimForHandler \/ SendTerminal
    \/ ClaimForCancel \/ CloseGates \/ HandlerDone \/ Rest

Spec == Init /\ [][Next]_vars

-----------------------------------------------------------------------------
(* Properties                                                              *)

Emitted == INSTANCE Emission WITH flow <- writer.flow

(* The writer's frames, whatever the handler's tasks, a cancel and a       *)
(* progress sender do meanwhile, are a flow that Emission allows.          *)
ImplementsEmission == Emitted!Spec

(* A wire that ends with END carries the whole response: every unit given  *)
(* to a stream, in order, however it was coalesced and whoever flushed it, *)
(* and every required output.                                              *)
EndedWhole ==
    writer.last = "fin" =>
        /\ \A s \in Streams : writer.carried[s] = [i \in 1 .. written[s] |-> i]
        /\ Required \subseteq writer.flow.ended

=============================================================================
