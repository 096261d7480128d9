---------------------------- MODULE RequestLoop ----------------------------
(***************************************************************************)
(* A cartridge's runtime (CartridgeRuntime.swift): the main loop that      *)
(* takes the host's frames and the handlers' reports from one queue, a     *)
(* thread per running request, and the pools that bound how many run.      *)
(*                                                                         *)
(* Handlers write credited streams - one output of their own request, one  *)
(* argument stream of each peer call they make - read their input and wait *)
(* for peers' answers.  They may do so in any order and return at any      *)
(* point.  What can go wrong is between a handler and the loop: a cancel   *)
(* that arrives at any point of a handler's life, a limit that changes on  *)
(* yet another thread, an answer or a grant on its way.                    *)
(***************************************************************************)
EXTENDS Naturals, Sequences, FiniteSets, SequencesExt

CONSTANTS
  Requests,     \* the host's requests
  Peers,        \* the peer calls handlers may make
  CallerOf,     \* the request whose handler makes each peer call
  Unserved,     \* requests the loop refuses: no handler, no policy yet, a payload, ...
  Cancellable,  \* requests the host may cancel
  Hung,         \* peer calls whose callee answers only a cancel
  Pools,
  ChainOf,      \* the pools each request is admitted through
  Declared,     \* each pool's capacity at the start, 0 for unlimited
  Numbers,      \* the capacities a report or the operator may set
  MaxChanges,   \* bound: limit changes
  Window,       \* credit a stream starts with
  Reading,      \* requests whose operation reads its input
  Chunks        \* how many chunks each stream may carry; one of none is never started

Streams == Requests \cup Peers

ASSUME ActorsFinite == IsFiniteSet(Requests) /\ IsFiniteSet(Peers) /\ Requests \cap Peers = {}
ASSUME ActorsTyped ==
  /\ CallerOf \in [Peers -> Requests]
  /\ Unserved \subseteq Requests /\ Cancellable \subseteq Requests /\ Reading \subseteq Requests /\ Hung \subseteq Peers
ASSUME PoolsTyped ==
  /\ ChainOf \in [Requests -> SUBSET Pools]
  /\ Declared \in [Pools -> Nat] /\ Numbers \subseteq Nat /\ MaxChanges \in Nat
ASSUME StreamsTyped == Window \in Nat \ {0} /\ Chunks \in [Streams -> Nat]

VARIABLES
  events,      \* eventQueue: frames of the host, reports of handlers, wake-ups
  loop,        \* where the main loop is
  line, active, configured, available,  \* RuntimePools
  changes,     \* capacity changes so far
  reporting,   \* PoolHandle.set between its change and its wake-up
  claim,       \* terminalClaims: who ends a running request
  cancelled,   \* cancelledRequests
  incoming,    \* each request's input queue
  handler, on, \* each handler thread, and what it is blocked on
  gate, left,  \* each stream's credit gate, and the chunks it may yet carry
  response,    \* pendingPeerRequests and the answer's queue
  host,        \* what the host has sent of each request
  callee,      \* the host's side of each peer call
  owed,        \* chunks the other end has yet to credit
  terminals    \* history: terminals sent for each request

capacities == <<configured, available>>
pooling == <<line, active, capacities, changes, reporting>>
ending == <<claim, cancelled, terminals>>
threads == <<handler, on>>
streams == <<gate, left>>
outside == <<host, callee, owed>>
vars == <<events, loop, pooling, ending, incoming, threads, streams, response, outside>>

Unlimited == 0

Nothing == [at |-> "nothing"]
GateOf(s) == [at |-> "gate", of |-> s]
Input == [at |-> "input"]
AnswerOf(p) == [at |-> "answer", of |-> p]

Event(kind, x) == [kind |-> kind, of |-> x]
SetTo(q, n) == [kind |-> "desired", of |-> q, to |-> n]

Unregistered == [state |-> "unregistered", credit |-> 0]

Init ==
  /\ events = <<>>
  /\ loop = [at |-> "drain"]
  /\ line = <<>>
  /\ active = [q \in Pools |-> 0]
  /\ configured = Declared
  /\ available = [q \in Pools |-> Unlimited]
  /\ changes = 0
  /\ reporting = 0
  /\ claim = [r \in Requests |-> "none"]
  /\ cancelled = {}
  /\ incoming = [r \in Requests |-> "none"]
  /\ handler = [r \in Requests |-> "none"]
  /\ on = [r \in Requests |-> Nothing]
  /\ gate = [s \in Streams |-> Unregistered]
  /\ left = Chunks
  /\ response = [p \in Peers |-> "none"]
  /\ host = [r \in Requests |-> "idle"]
  /\ callee = [p \in Peers |-> "none"]
  /\ owed = [s \in Streams |-> 0]
  /\ terminals = [r \in Requests |-> 0]

-----------------------------------------------------------------------------
(* The host, whose frames the reader thread queues in the order sent, and  *)
(* the callees of peer calls behind it.                                    *)

Send(e) == events' = Append(events, e)

\* The end of an input nobody reads makes no difference to anybody.
SendReq(r) ==
  /\ host[r] = "idle"
  /\ host' = [host EXCEPT ![r] = IF r \in Reading THEN "sending" ELSE "sent"]
  /\ Send(Event("req", r))
  /\ UNCHANGED <<loop, pooling, ending, incoming, threads, streams, response, callee, owed>>

\* The input ends with END, or with an ERR when what fed it failed.
SendInputEnd(r) ==
  /\ host[r] = "sending"
  /\ host' = [host EXCEPT ![r] = "sent"]
  /\ Send(Event("end", r))
  /\ UNCHANGED <<loop, pooling, ending, incoming, threads, streams, response, callee, owed>>

SendCancel(r) ==
  /\ r \in Cancellable /\ host[r] \in {"sending", "sent"}
  /\ host' = [host EXCEPT ![r] = "cancelled"]
  /\ Send(Event("cancel", r))
  /\ UNCHANGED <<loop, pooling, ending, incoming, threads, streams, response, callee, owed>>

\* Whoever reads a stream credits what it consumed, as long as it is there.
Reads(s) ==
  IF s \in Requests THEN host[s] # "cancelled" ELSE callee[s] = "called" /\ s \notin Hung

SendCredit(s) ==
  /\ owed[s] > 0 /\ Reads(s)
  /\ owed' = [owed EXCEPT ![s] = @ - 1]
  /\ Send(Event("credit", s))
  /\ UNCHANGED <<loop, pooling, ending, incoming, threads, streams, response, host, callee>>

\* A callee may answer before it has read all its arguments: an ERR does.
SendAnswer(p) ==
  /\ callee[p] = "called" /\ p \notin Hung
  /\ callee' = [callee EXCEPT ![p] = "answered"]
  /\ Send(Event("answer", p))
  /\ UNCHANGED <<loop, pooling, ending, incoming, threads, streams, response, host, owed>>

\* The operator's capacities ride in a heartbeat.
SendDesired(q, n) ==
  /\ changes < MaxChanges
  /\ changes' = changes + 1
  /\ Send(SetTo(q, n))
  /\ UNCHANGED <<loop, line, active, capacities, reporting, ending, incoming, threads, streams,
                 response, outside>>

-----------------------------------------------------------------------------
(* PoolHandle.set, on a thread of the cartridge: what it can serve, under  *)
(* the pools' lock, then the wake-up.                                      *)

\* Mutated: nobody is told.
SetAvailableQuietly(q, n) ==
  /\ changes < MaxChanges
  /\ changes' = changes + 1
  /\ available' = [available EXCEPT ![q] = n]
  /\ UNCHANGED <<events, loop, line, active, configured, reporting, ending, incoming, threads, streams,
                 response, outside>>

SetAvailable(q, n) ==
  /\ changes < MaxChanges
  /\ changes' = changes + 1
  /\ available' = [available EXCEPT ![q] = n]
  /\ reporting' = reporting + 1
  /\ UNCHANGED <<events, loop, line, active, configured, ending, incoming, threads, streams, response,
                 outside>>

WakeLoop ==
  /\ reporting > 0
  /\ reporting' = reporting - 1
  /\ Send([kind |-> "poolsChanged"])
  /\ UNCHANGED <<loop, line, active, capacities, changes, ending, incoming, threads, streams,
                 response, outside>>

-----------------------------------------------------------------------------
(* RuntimePools.                                                           *)

\* effectiveCapacity: the lesser of the two, none of them a limit when 0.
Limit(q) ==
  LET limits == {configured[q], available[q]} \ {Unlimited}
  IN IF limits = {} THEN Unlimited ELSE Min(limits)

HasRoom(r) == \A q \in ChainOf[r] : Limit(q) = Unlimited \/ active[q] < Limit(q)

Admissible == {i \in DOMAIN line : HasRoom(line[i])}

Oldest == CHOOSE i \in Admissible : \A j \in Admissible : i <= j

Counted(r, n) == [q \in Pools |-> IF q \in ChainOf[r] THEN active[q] + n ELSE active[q]]

\* Mutated: the slots stay taken.
ReleasedNothing(r) == active

\* Mutated: a slot of every pool comes back.
ReleasedEverywhere(r) == [q \in Pools |-> active[q] - 1]

Released(r) == [q \in Pools |-> IF q \in ChainOf[r] THEN active[q] - 1 ELSE active[q]]

Spawn(r) ==
  /\ active' = Counted(r, 1)
  /\ claim' = [claim EXCEPT ![r] = "open"]
  /\ handler' = [handler EXCEPT ![r] = "working"]

-----------------------------------------------------------------------------
(* The main loop: admit whoever can go, one hold of the pools' lock each,  *)
(* then take one event.                                                    *)

AdmitNext ==
  /\ loop.at = "drain" /\ Admissible # {}
  /\ Spawn(line[Oldest])
  /\ line' = RemoveAt(line, Oldest)
  /\ UNCHANGED <<events, loop, capacities, changes, reporting, cancelled, terminals, incoming, on,
                 streams, response, outside>>

NobodyToAdmit ==
  /\ loop.at = "drain" /\ Admissible = {}
  /\ loop' = [at |-> "event"]
  /\ UNCHANGED <<events, pooling, ending, incoming, threads, streams, response, outside>>

Taking(kind) ==
  /\ loop.at = "event" /\ events # <<>> /\ Head(events).kind = kind
  /\ events' = Tail(events)

Which == Head(events).of

BackToDrain == loop' = [at |-> "drain"]

\* A request that goes in line takes input all the same.
HandleReq ==
  /\ Taking("req") /\ BackToDrain
  /\ IF Which \in Unserved
     THEN /\ terminals' = [terminals EXCEPT ![Which] = @ + 1]
          /\ UNCHANGED <<line, active, claim, handler, incoming>>
     ELSE /\ incoming' = [incoming EXCEPT ![Which] = "open"]
          /\ IF HasRoom(Which) /\ Admissible = {}
             THEN Spawn(Which) /\ UNCHANGED line
             ELSE /\ line' = Append(line, Which)
                  /\ UNCHANGED <<active, claim, handler>>
          /\ UNCHANGED terminals
  /\ UNCHANGED <<capacities, changes, reporting, cancelled, on, streams, response, outside>>

HandleInputEnd ==
  /\ Taking("end") /\ BackToDrain
  /\ incoming' = [incoming EXCEPT ![Which] = IF @ = "open" THEN "ended" ELSE @]
  /\ UNCHANGED <<pooling, ending, threads, streams, response, outside>>

HandleAnswer ==
  /\ Taking("answer") /\ BackToDrain
  /\ response' = [response EXCEPT ![Which] = IF @ = "pending" THEN "ended" ELSE @]
  /\ UNCHANGED <<pooling, ending, incoming, threads, streams, outside>>

\* A grant that finds no gate is dropped.
HandleCredit ==
  /\ Taking("credit") /\ BackToDrain
  /\ gate' = [gate EXCEPT ![Which].credit = IF gate[Which].state = "open" THEN @ + 1 ELSE @]
  /\ UNCHANGED <<pooling, ending, incoming, threads, left, response, outside>>

HandleDesired ==
  /\ Taking("desired") /\ BackToDrain
  /\ configured' = [configured EXCEPT ![Which] = Head(events).to]
  /\ UNCHANGED <<line, active, available, changes, reporting, ending, incoming, threads, streams,
                 response, outside>>

HandleWake ==
  /\ Taking("poolsChanged") /\ BackToDrain
  /\ UNCHANGED <<pooling, ending, incoming, threads, streams, response, outside>>

CutInput(r) ==
  incoming' = [incoming EXCEPT ![r] = IF @ = "open" THEN "cut" ELSE @]

\* Mutated: the cancel does not ask whether the request has been ended.
HandleCancelUnclaimed ==
  /\ Taking("cancel")
  /\ IF claim[Which] # "none"
     THEN /\ cancelled' = cancelled \cup {Which}
          /\ loop' = [at |-> "close", of |-> Which]
          /\ CutInput(Which)
          /\ UNCHANGED <<line, terminals>>
     ELSE /\ BackToDrain /\ CutInput(Which)
          /\ UNCHANGED <<line, terminals, cancelled>>
  /\ UNCHANGED <<claim, active, capacities, changes, reporting, threads, streams, response, outside>>

\* A request in line leaves it and is answered at once.  A running one is
\* claimed, unless its handler has ended it: its input stops, and the loop goes
\* on to release its writers and its peer calls.
HandleCancel ==
  /\ Taking("cancel")
  /\ \/ /\ \E i \in DOMAIN line : line[i] = Which /\ line' = RemoveAt(line, i)
        /\ BackToDrain
        /\ terminals' = [terminals EXCEPT ![Which] = @ + 1]
        /\ CutInput(Which)
        /\ UNCHANGED <<claim, cancelled>>
     \/ /\ claim[Which] = "open"
        /\ loop' = [at |-> "close", of |-> Which]
        /\ claim' = [claim EXCEPT ![Which] = "cancel"]
        /\ cancelled' = cancelled \cup {Which}
        /\ CutInput(Which)
        /\ UNCHANGED <<line, terminals>>
     \/ /\ ~Contains(line, Which) /\ claim[Which] # "open" /\ BackToDrain
        /\ UNCHANGED <<line, terminals, claim, cancelled, incoming>>
  /\ UNCHANGED <<active, capacities, changes, reporting, threads, streams, response, outside>>

ClosedFor(r) == [gate EXCEPT ![r].state = IF @ = "open" THEN "closed" ELSE @]

\* Mutated: the gate is forgotten and not closed.
CloseGatesQuietly ==
  /\ loop.at = "close"
  /\ loop' = [loop EXCEPT !.at = "sweep"]
  /\ UNCHANGED <<events, pooling, ending, incoming, threads, streams, response, outside>>

\* closeRequest looks for the gates registered under the request's own id.
CloseGates ==
  /\ loop.at = "close"
  /\ loop' = [loop EXCEPT !.at = "sweep"]
  /\ gate' = ClosedFor(loop.of)
  /\ UNCHANGED <<events, pooling, ending, incoming, threads, left, response, outside>>

\* The peer calls in flight end here, and their callees are sent a CANCEL.
SweepPeers ==
  /\ loop.at = "sweep" /\ BackToDrain
  /\ LET swept == {p \in Peers : CallerOf[p] = loop.of /\ response[p] = "pending"} IN
     /\ response' = [p \in Peers |-> IF p \in swept THEN "ended" ELSE response[p]]
     /\ callee' = [p \in Peers |-> IF p \in swept THEN "cancelled" ELSE callee[p]]
  /\ UNCHANGED <<events, pooling, ending, incoming, threads, streams, host, owed>>

HandleDone ==
  /\ Taking("done") /\ BackToDrain
  /\ active' = Released(Which)
  /\ gate' = ClosedFor(Which)
  /\ claim' = [claim EXCEPT ![Which] = "none"]
  /\ cancelled' = cancelled \ {Which}
  /\ terminals' = [terminals EXCEPT ![Which] = IF Which \in cancelled THEN @ + 1 ELSE @]
  /\ UNCHANGED <<line, capacities, changes, reporting, incoming, threads, left, response, outside>>

-----------------------------------------------------------------------------
(* A handler's thread.                                                     *)

Working(r) == handler[r] = "working" /\ on[r] = Nothing

StreamsOf(r) == {r} \cup {p \in Peers : CallerOf[p] = r /\ response[p] # "none"}

\* markStarted registers the stream's gate.
Start(r, s) ==
  /\ Working(r) /\ s \in StreamsOf(r) /\ gate[s] = Unregistered /\ left[s] > 0
  /\ gate' = [gate EXCEPT ![s] = [state |-> "open", credit |-> Window]]
  /\ UNCHANGED <<events, loop, pooling, ending, incoming, threads, left, response, outside>>

\* A chunk takes one credit, a spent gate parks its writer, and a closed one
\* throws: nothing more goes out on that stream.
Write(r, s) ==
  /\ Working(r) /\ s \in StreamsOf(r) /\ gate[s] # Unregistered /\ left[s] > 0
  /\ \/ /\ gate[s].state = "closed"
        /\ left' = [left EXCEPT ![s] = 0]
        /\ UNCHANGED <<gate, owed, on>>
     \/ /\ gate[s].state = "open" /\ gate[s].credit > 0
        /\ left' = [left EXCEPT ![s] = @ - 1]
        /\ gate' = [gate EXCEPT ![s].credit = @ - 1]
        /\ owed' = [owed EXCEPT ![s] = @ + 1]
        /\ UNCHANGED on
     \/ /\ gate[s].state = "open" /\ gate[s].credit = 0
        /\ on' = [on EXCEPT ![r] = GateOf(s)]
        /\ UNCHANGED <<left, gate, owed>>
  /\ UNCHANGED <<events, loop, pooling, ending, incoming, handler, response, host, callee>>

\* The call is pending before its REQ goes out.
CallPeer(r, p) ==
  /\ Working(r) /\ CallerOf[p] = r /\ response[p] = "none"
  /\ response' = [response EXCEPT ![p] = "pending"]
  /\ callee' = [callee EXCEPT ![p] = "called"]
  /\ UNCHANGED <<events, loop, pooling, ending, incoming, threads, streams, host, owed>>

ReadInput(r) ==
  /\ Working(r) /\ r \in Reading /\ incoming[r] # "read"
  /\ on' = [on EXCEPT ![r] = Input]
  /\ UNCHANGED <<events, loop, pooling, ending, incoming, handler, streams, response, outside>>

AwaitAnswer(r, p) ==
  /\ Working(r) /\ CallerOf[p] = r /\ response[p] \in {"pending", "ended"}
  /\ on' = [on EXCEPT ![r] = AnswerOf(p)]
  /\ UNCHANGED <<events, loop, pooling, ending, incoming, handler, streams, response, outside>>

\* What a blocked handler waits for is there, or has been cut short.
Resume(r) ==
  /\ handler[r] = "working"
  /\ \/ /\ \E s \in Streams : /\ on[r] = GateOf(s)
                              /\ gate[s].state = "closed" \/ gate[s].credit > 0
        /\ UNCHANGED <<incoming, response>>
     \/ /\ on[r] = Input /\ incoming[r] \in {"ended", "cut"}
        /\ incoming' = [incoming EXCEPT ![r] = "read"]
        /\ UNCHANGED response
     \/ \E p \in Peers :
          /\ on[r] = AnswerOf(p) /\ response[p] = "ended"
          /\ response' = [response EXCEPT ![p] = "read"]
          /\ UNCHANGED incoming
  /\ on' = [on EXCEPT ![r] = Nothing]
  /\ UNCHANGED <<events, loop, pooling, ending, handler, streams, outside>>

\* The operation returned or threw: its END or ERR goes out if no cancel has
\* claimed the request, and the report to the loop follows.
Conclude(r) ==
  /\ Working(r)
  /\ handler' = [handler EXCEPT ![r] = "concluded"]
  /\ IF claim[r] = "open"
     THEN /\ claim' = [claim EXCEPT ![r] = "handler"]
          /\ terminals' = [terminals EXCEPT ![r] = @ + 1]
     ELSE UNCHANGED <<claim, terminals>>
  /\ UNCHANGED <<events, loop, pooling, cancelled, incoming, on, streams, response, outside>>

Report(r) ==
  /\ handler[r] = "concluded"
  /\ handler' = [handler EXCEPT ![r] = "gone"]
  /\ Send(Event("done", r))
  /\ UNCHANGED <<loop, pooling, ending, incoming, on, streams, response, outside>>

-----------------------------------------------------------------------------
Loop ==
  \/ AdmitNext \/ NobodyToAdmit
  \/ HandleReq \/ HandleInputEnd \/ HandleAnswer \/ HandleCredit \/ HandleDesired \/ HandleWake
  \/ HandleCancel \/ CloseGates \/ SweepPeers \/ HandleDone

Handler(r) ==
  \/ \E s \in Streams : Start(r, s) \/ Write(r, s)
  \/ \E p \in Peers : CallPeer(r, p) \/ AwaitAnswer(r, p)
  \/ ReadInput(r) \/ Resume(r) \/ Conclude(r) \/ Report(r)

Next ==
  \/ Loop \/ WakeLoop
  \/ \E r \in Requests : Handler(r) \/ SendReq(r) \/ SendInputEnd(r) \/ SendCancel(r)
  \/ \E s \in Streams : SendCredit(s)
  \/ \E p \in Peers : SendAnswer(p)
  \/ \E q \in Pools, n \in Numbers : SendDesired(q, n) \/ SetAvailable(q, n)

Spec == Init /\ [][Next]_vars

\* Threads run; the host ends the input it began and reads the output it asked
\* for; a callee that is not hung answers.  Nothing makes the host send a
\* request or cancel one.
Fairness ==
  /\ WF_vars(Loop) /\ WF_vars(WakeLoop)
  /\ \A r \in Requests : WF_vars(Handler(r)) /\ WF_vars(SendInputEnd(r))
  /\ \A s \in Streams : WF_vars(SendCredit(s))
  /\ \A p \in Peers : WF_vars(SendAnswer(p))

FairSpec == Spec /\ Fairness

-----------------------------------------------------------------------------
Waits == {Nothing, Input} \cup {GateOf(s) : s \in Streams} \cup {AnswerOf(p) : p \in Peers}

TypeOK ==
  /\ loop.at \in {"drain", "event", "close", "sweep"}
  /\ line \in Seq(Requests)
  /\ active \in [Pools -> 0..Cardinality(Requests)]
  /\ configured \in [Pools -> Nat] /\ available \in [Pools -> Nat]
  /\ changes \in 0..MaxChanges /\ reporting \in 0..MaxChanges
  /\ claim \in [Requests -> {"none", "open", "handler", "cancel"}]
  /\ cancelled \subseteq Requests
  /\ incoming \in [Requests -> {"none", "open", "ended", "cut", "read"}]
  /\ handler \in [Requests -> {"none", "working", "concluded", "gone"}]
  /\ on \in [Requests -> Waits]
  /\ \A s \in Streams : /\ gate[s].state \in {"unregistered", "open", "closed"}
                        /\ gate[s].credit \in 0..Window
                        /\ left[s] \in 0..Chunks[s] /\ owed[s] \in 0..Chunks[s]
  /\ response \in [Peers -> {"none", "pending", "ended", "read"}]
  /\ host \in [Requests -> {"idle", "sending", "sent", "cancelled"}]
  /\ callee \in [Peers -> {"none", "called", "answered", "cancelled"}]
  /\ terminals \in [Requests -> Nat]

\* A request gets one terminal: its handler's END or ERR, a cancel's ERR, or a
\* refusal, whichever of them races with which.
OneTerminal == \A r \in Requests : terminals[r] <= 1

\* A pool's count is of the requests whose handlers the loop has yet to hear
\* done: no path - queued, cancelled, failed - takes or gives back a slot twice.
SlotsAccounted ==
  \A q \in Pools :
    active[q] = Cardinality({r \in Requests : q \in ChainOf[r] /\ claim[r] # "none"})

\* The loop goes to sleep only when nobody in line could run, whichever thread
\* raised a limit ("the run loop is woken to start it, rather than at the
\* host's next frame").
NobodyWaitsWithRoom ==
  loop.at = "event" /\ events = <<>> /\ reporting = 0 => Admissible = {}

\* What a handler is blocked in when the loop cancels its request - its input, a
\* peer's answer, the gate of its output - lets go of it.
CancelInterrupts ==
  \A r \in Requests : \A w \in {Input, GateOf(r)} \cup {AnswerOf(p) : p \in Peers} :
    (loop = [at |-> "close", of |-> r] /\ on[r] = w) ~> on[r] # w

Arrived(r) == host[r] # "idle"
Answered(r) == terminals[r] > 0

\* Every request is answered, those in line and those cancelled in line
\* included, as long as no running one is cancelled.
AnsweredUnlessCancelled ==
  \A r \in Requests : Arrived(r) ~> Answered(r) \/ cancelled # {}

\* "a cancelled producer must not hang on credit": a request the host cancels is
\* answered.
CancelledAnswered ==
  \A r \in Requests : host[r] = "cancelled" ~> Answered(r)

=============================================================================
