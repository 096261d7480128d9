---------------------------- MODULE RelaySwitch ----------------------------
(***************************************************************************)
(* The relay switch (RelaySwitch.swift) and its request table              *)
(* (RequestState.swift): the engine dispatches requests to masters, the    *)
(* cartridges behind them call each other through the switch, and a master *)
(* may die, reattach to its slot, or change the caps it advertises at any  *)
(* moment.                                                                 *)
(*                                                                         *)
(* One lock guards everything, and every action below is one hold of it.   *)
(* What interleaves is the engine's threads between two holds, each        *)
(* connection's reader, the pump that takes what the readers queued, the   *)
(* probe driver, a cancel working through a request's children, and the    *)
(* hosts at the other end.                                                 *)
(***************************************************************************)
EXTENDS Naturals, Sequences, FiniteSets, SequencesExt

CONSTANTS
  Masters,     \* slot ids
  Rank,        \* how well each slot's cap matches, the best the smallest
  Serves,      \* the slots whose caps can take each request
  Requests,    \* engine requests and peer calls
  Parent,      \* the request a peer call is made for; a request of the engine is its own
  TooLarge,    \* requests whose REQ is beyond the link's max_frame
  Capacity,    \* slots of the install behind each master
  MaxAttach,   \* bound: connections a slot goes through
  MaxUpdates   \* bound: RelayNotify updates of all slots together

ASSUME MastersFinite == IsFiniteSet(Masters)
ASSUME RanksDistinct ==
  /\ Rank \in [Masters -> Nat]
  /\ \A m, n \in Masters : Rank[m] = Rank[n] => m = n
ASSUME RequestsTyped ==
  /\ IsFiniteSet(Requests)
  /\ Serves \in [Requests -> SUBSET Masters]
  /\ Parent \in [Requests -> Requests]
  /\ TooLarge \subseteq Requests
ASSUME BoundsNat == Capacity \in Nat /\ MaxAttach \in Nat /\ MaxUpdates \in Nat

None == "none"

ASSUME NoneIsNoMaster == None \notin Masters

VARIABLES
  gen,         \* the connection each slot writes to, 0 before the first
  healthy, detached, caps,   \* MasterConnection: caps is whether it advertises any
  available,   \* the install's admission is not in an outage
  open,        \* connections whose host keeps its end open
  reader,      \* each connection's reader thread
  queue,       \* frameChannel: what the readers hand to the pump
  entry,       \* the request table: Gone, or the routing entry of a live request
  children,    \* the peer calls linked under each live request
  asker,       \* where the engine's dispatch of a request stands
  target,      \* the slot a dispatch resolved for its admission
  permit,      \* the slot whose admission a request holds
  cascade,     \* requests a cancel has yet to visit
  probes,      \* pendingIdentityProbes
  probe,       \* the probe the driver is running
  updates,     \* RelayNotify updates so far
  work,        \* requests each connection's host is working on
  ended,       \* history: how a request's entry ended
  told,        \* history: terminals delivered to whoever asked
  verified     \* history: connections whose host echoed an identity nonce

slots == <<gen, healthy, detached, caps, available>>
links == <<open, reader>>
table == <<entry, children, permit, ended>>
engine == <<asker, target>>
probing == <<probes, probe, updates>>
vars == <<slots, links, queue, table, engine, cascade, probing, work, told, verified>>

Gone == [dest |-> None, conn |-> <<>>, origin |-> None, linked |-> FALSE]

Conns == Masters \X (1..MaxAttach)
Current(m) == <<m, gen[m]>>

FromEngine(r) == Parent[r] = r
Live(r) == entry[r].dest # None

Eof(m) == [kind |-> "eof", slot |-> m]
End(m, r) == [kind |-> "end", slot |-> m, request |-> r]
Req(m, r) == [kind |-> "req", slot |-> m, request |-> r]

Idle == [stage |-> "idle"]

Init ==
  /\ gen = [m \in Masters |-> 0]
  /\ healthy = [m \in Masters |-> FALSE]
  /\ detached = [m \in Masters |-> FALSE]
  /\ caps = [m \in Masters |-> FALSE]
  /\ available = [m \in Masters |-> FALSE]
  /\ open = {}
  /\ reader = [c \in Conns |-> "none"]
  /\ queue = <<>>
  /\ entry = [r \in Requests |-> Gone]
  /\ children = [r \in Requests |-> {}]
  /\ asker = [r \in Requests |-> "new"]
  /\ target = [r \in Requests |-> None]
  /\ permit = [r \in Requests |-> None]
  /\ cascade = {}
  /\ probes = <<>>
  /\ probe = Idle
  /\ updates = 0
  /\ work = {}
  /\ ended = [r \in Requests |-> "not"]
  /\ told = [r \in Requests |-> 0]
  /\ verified = {}

-----------------------------------------------------------------------------
(* Routing and the request table.                                          *)

\* Mutated: any slot that could serve the request, attached or not.
CandidatesUnfiltered(r) == Serves[r]

\* rebuildCapTable: only healthy masters' caps are routable.
Candidates(r) == {m \in Serves[r] : healthy[m] /\ caps[m]}

Best(r) == CHOOSE m \in Candidates(r) : \A n \in Candidates(r) : Rank[m] <= Rank[n]

\* The write fails on a closed socket or an oversized frame.
Writable(m, r) == Current(m) \in open /\ r \notin TooLarge

Register(r, m, origin) ==
  /\ entry' = [entry EXCEPT ![r] = [dest |-> m, conn |-> Current(m), origin |-> origin,
                                   linked |-> Live(Parent[r])]]
  /\ work' = IF Writable(m, r) THEN work \cup {<<Current(m), r>>} ELSE work

\* Mutated: the permit stays taken.
TerminateKeepsPermit(rs, how) ==
  /\ entry' = [r \in Requests |-> IF r \in rs THEN Gone ELSE entry[r]]
  /\ children' = [r \in Requests |-> IF r \in rs THEN {} ELSE children[r]]
  /\ ended' = [r \in Requests |-> IF r \in rs THEN how ELSE ended[r]]
  /\ UNCHANGED permit

\* Each entry leaves with its permit and its children.
Terminate(rs, how) ==
  /\ entry' = [r \in Requests |-> IF r \in rs THEN Gone ELSE entry[r]]
  /\ children' = [r \in Requests |-> IF r \in rs THEN {} ELSE children[r]]
  /\ permit' = [r \in Requests |-> IF r \in rs THEN None ELSE permit[r]]
  /\ ended' = [r \in Requests |-> IF r \in rs THEN how ELSE ended[r]]

-----------------------------------------------------------------------------
(* The engine: sendToMaster for a REQ, in three holds of the lock.         *)

\* Resolving configures the admission of the install it finds, which ends an
\* outage of it.
Resolve(r) ==
  /\ asker[r] = "new" /\ FromEngine(r)
  /\ IF Candidates(r) = {}
     THEN /\ asker' = [asker EXCEPT ![r] = "failed"]
          /\ UNCHANGED <<target, available>>
     ELSE /\ asker' = [asker EXCEPT ![r] = "waiting"]
          /\ target' = [target EXCEPT ![r] = Best(r)]
          /\ available' = [available EXCEPT ![Best(r)] = TRUE]
  /\ UNCHANGED <<gen, healthy, detached, caps, links, queue, table, cascade, probing,
                 work, told, verified>>

HasRoom(m) == available[m] /\ Cardinality({q \in Requests : permit[q] = m}) < Capacity

Admit(r) ==
  /\ asker[r] = "waiting" /\ HasRoom(target[r])
  /\ permit' = [permit EXCEPT ![r] = target[r]]
  /\ asker' = [asker EXCEPT ![r] = "admitted"]
  /\ UNCHANGED <<slots, links, queue, entry, children, ended, target, cascade, probing,
                 work, told, verified>>

\* The outage outlived the grace window.
Expire(r) ==
  /\ asker[r] = "waiting" /\ ~available[target[r]]
  /\ asker' = [asker EXCEPT ![r] = "failed"]
  /\ UNCHANGED <<slots, links, queue, table, target, cascade, probing, work, told, verified>>

\* The destination is resolved again.  From the registration on the table owns
\* the permit, whatever the write does.
Dispatch(r) ==
  /\ asker[r] = "admitted"
  /\ IF Candidates(r) = {}
     THEN /\ asker' = [asker EXCEPT ![r] = "failed"]
          /\ permit' = [permit EXCEPT ![r] = None]
          /\ UNCHANGED <<entry, work>>
     ELSE /\ Register(r, Best(r), None)
          /\ asker' = [asker EXCEPT ![r] = IF Writable(Best(r), r) THEN "sent" ELSE "failed"]
          /\ UNCHANGED permit
  /\ UNCHANGED <<slots, links, queue, children, ended, target, cascade, probing, told, verified>>

\* cancelRequest begins with the request named.
Cancel(r) ==
  /\ FromEngine(r) /\ Live(r) /\ r \notin cascade
  /\ cascade' = cascade \cup {r}
  /\ UNCHANGED <<slots, links, queue, table, engine, probing, work, told, verified>>

\* Mutated: the children are forgotten with the entry.
CancelNextAlone(r) ==
  /\ r \in cascade
  /\ IF Live(r) THEN Terminate({r}, "cancelled") ELSE UNCHANGED table
  /\ cascade' = cascade \ {r}
  /\ UNCHANGED <<slots, links, queue, engine, probing, work, told, verified>>

\* Each request of the cascade is its own hold of the lock.
CancelNext(r) ==
  /\ r \in cascade
  /\ IF Live(r)
     THEN /\ Terminate({r}, "cancelled")
          /\ cascade' = (cascade \ {r}) \cup children[r]
     ELSE /\ cascade' = cascade \ {r}
          /\ UNCHANGED table
  /\ UNCHANGED <<slots, links, queue, engine, probing, work, told, verified>>

-----------------------------------------------------------------------------
(* The hosts, and the readers that take what they send.                    *)

Heard(c) == c \in open /\ reader[c] = "reading"

\* A host ends a request it was handed, with END or ERR.
Respond(c, r) ==
  /\ Heard(c) /\ <<c, r>> \in work
  /\ work' = work \ {<<c, r>>}
  /\ queue' = Append(queue, End(c[1], r))
  /\ UNCHANGED <<slots, links, table, engine, cascade, probing, told, verified>>

\* A cartridge calls a peer on behalf of the request it works on.
CallPeer(c, r) ==
  /\ Heard(c) /\ ~FromEngine(r) /\ asker[r] = "new" /\ <<c, Parent[r]>> \in work
  /\ asker' = [asker EXCEPT ![r] = "sent"]
  /\ queue' = Append(queue, Req(c[1], r))
  /\ UNCHANGED <<slots, links, table, target, cascade, probing, work, told, verified>>

\* The host goes away, and its work with it.
Close(c) ==
  /\ c \in open
  /\ open' = open \ {c}
  /\ work' = {w \in work : w[1] # c}
  /\ UNCHANGED <<slots, reader, queue, table, engine, cascade, probing, told, verified>>

\* Mutated: the reader exits without a word to the pump.
ReadEofSilently(c) ==
  /\ reader[c] = "reading" /\ c \notin open
  /\ reader' = [reader EXCEPT ![c] = "exiting"]
  /\ UNCHANGED <<slots, open, queue, table, engine, cascade, probing, work, told, verified>>

\* The reader's exit is two holds of the lock: the error is queued, and then
\* the slot - whatever connection it has by then - is marked detached.
ReadEof(c) ==
  /\ reader[c] = "reading" /\ c \notin open
  /\ queue' = Append(queue, Eof(c[1]))
  /\ reader' = [reader EXCEPT ![c] = "exiting"]
  /\ UNCHANGED <<slots, open, table, engine, cascade, probing, work, told, verified>>

ReaderExit(c) ==
  /\ reader[c] = "exiting"
  /\ reader' = [reader EXCEPT ![c] = "gone"]
  /\ detached' = [detached EXCEPT ![c[1]] = TRUE]
  /\ UNCHANGED <<gen, healthy, caps, available, open, queue, table, engine, cascade,
                 probing, work, told, verified>>

\* applyRelayNotifyUpdate, in the reader.  Caps that were none before are held
\* back until the identity probe queued for them passes.
Notify(c, some) ==
  LET m == c[1] IN
  /\ Heard(c) /\ updates < MaxUpdates
  /\ updates' = updates + 1
  /\ caps' = [caps EXCEPT ![m] = some]
  /\ available' = [available EXCEPT ![m] = some]
  /\ IF ~caps[m] /\ some
     THEN /\ healthy' = [healthy EXCEPT ![m] = FALSE]
          /\ probes' = Append(probes, m)
     ELSE UNCHANGED <<healthy, probes>>
  /\ UNCHANGED <<gen, detached, links, queue, table, engine, cascade, probe, work,
                 told, verified>>

-----------------------------------------------------------------------------
(* addMaster: a new slot, or a new connection for a detached one.          *)

\* With caps, the host must echo a nonce first; a slot that fails is
\* registered unhealthy.
Attach(m, some, echoes) ==
  LET c == <<m, gen[m] + 1>> IN
  /\ gen[m] < MaxAttach /\ (gen[m] = 0 \/ detached[m])
  /\ some \/ ~echoes
  /\ gen' = [gen EXCEPT ![m] = @ + 1]
  /\ caps' = [caps EXCEPT ![m] = some]
  /\ healthy' = [healthy EXCEPT ![m] = echoes \/ ~some]
  /\ detached' = [detached EXCEPT ![m] = FALSE]
  /\ available' = [available EXCEPT ![m] = some]
  /\ open' = open \cup {c}
  /\ reader' = [reader EXCEPT ![c] = "reading"]
  /\ verified' = IF echoes THEN verified \cup {c} ELSE verified
  /\ UNCHANGED <<queue, table, engine, cascade, probing, work, told>>

-----------------------------------------------------------------------------
(* The pump: handleMasterFrame and handleMasterDeath.                      *)

Event == Head(queue)

Tell(r) == told' = [told EXCEPT ![r] = @ + 1]

\* Mutated: a terminal is forwarded and the entry stays.
HandleEndKeepsEntry ==
  /\ queue # <<>> /\ Event.kind = "end"
  /\ queue' = Tail(queue)
  /\ IF Live(Event.request) THEN Tell(Event.request) ELSE UNCHANGED told
  /\ UNCHANGED <<slots, links, table, engine, cascade, probing, work, verified>>

\* The terminal that finds the entry takes it away and goes to whoever asked;
\* one that does not is a straggler.
HandleEnd ==
  /\ queue # <<>> /\ Event.kind = "end"
  /\ queue' = Tail(queue)
  /\ LET r == Event.request IN
     IF Live(r)
     THEN /\ Terminate({r}, "end")
          /\ IF entry[r].origin = None \/ Current(entry[r].origin) \in open
             THEN Tell(r) ELSE UNCHANGED told
     ELSE UNCHANGED <<table, told>>
  /\ UNCHANGED <<slots, links, engine, cascade, probing, work, verified>>

\* A peer call is answered with an ERR when nobody serves it; otherwise it is
\* registered, linked under its parent if that is live, and forwarded.
HandleReq ==
  /\ queue # <<>> /\ Event.kind = "req"
  /\ queue' = Tail(queue)
  /\ LET r == Event.request IN
     IF Candidates(r) = {}
     THEN /\ IF Current(Event.slot) \in open THEN Tell(r) ELSE UNCHANGED told
          /\ UNCHANGED <<entry, children, work>>
     ELSE /\ Register(r, Best(r), Event.slot)
          /\ children' = IF Live(Parent[r])
                         THEN [children EXCEPT ![Parent[r]] = @ \cup {r}] ELSE children
          /\ UNCHANGED told
  /\ UNCHANGED <<slots, links, permit, ended, engine, cascade, probing, verified>>

\* Mutated: only the engine's own requests are cleared away.
RoutedToFromEngine(m) == {r \in Requests : Live(r) /\ entry[r].dest = m /\ entry[r].origin = None}

RoutedTo(m) == {r \in Requests : Live(r) /\ entry[r].dest = m}

\* A death found already unhealthy clears nothing.  Otherwise every request
\* routed to the slot ends, and the masters that asked for some of them are
\* told; the engine has no channel to be told on.
HandleDeath ==
  /\ queue # <<>> /\ Event.kind = "eof"
  /\ queue' = Tail(queue)
  /\ LET m == Event.slot
         dead == RoutedTo(m)
         heirs == {r \in dead : /\ entry[r].origin # None /\ entry[r].origin # m
                                /\ healthy[entry[r].origin]
                                /\ Current(entry[r].origin) \in open}
     IN /\ available' = [available EXCEPT ![m] = FALSE]
        /\ detached' = [detached EXCEPT ![m] = TRUE]
        /\ healthy' = [healthy EXCEPT ![m] = FALSE]
        /\ IF healthy[m]
           THEN /\ Terminate(dead, "died")
                /\ told' = [r \in Requests |-> IF r \in heirs THEN told[r] + 1 ELSE told[r]]
           ELSE UNCHANGED <<table, told>>
  /\ UNCHANGED <<gen, caps, links, engine, cascade, probing, work, verified>>

-----------------------------------------------------------------------------
(* The identity-probe driver.                                              *)

\* The nonce goes to the connection the slot has when the driver gets to it.
StartProbe ==
  /\ probe = Idle /\ probes # <<>>
  /\ probes' = Tail(probes)
  /\ probe' = [stage |-> IF Current(Head(probes)) \in open THEN "waiting" ELSE "failed",
               slot |-> Head(probes), conn |-> Current(Head(probes))]
  /\ UNCHANGED <<slots, links, queue, table, engine, cascade, updates, work, told, verified>>

Echo ==
  /\ probe.stage = "waiting" /\ Heard(probe.conn)
  /\ probe' = [probe EXCEPT !.stage = "echoed"]
  /\ verified' = verified \cup {probe.conn}
  /\ UNCHANGED <<slots, links, queue, table, engine, cascade, probes, updates, work, told>>

\* An error, a wrong nonce, or ten seconds without an answer.
ProbeFails ==
  /\ probe.stage = "waiting"
  /\ probe' = [probe EXCEPT !.stage = "failed"]
  /\ UNCHANGED <<slots, links, queue, table, engine, cascade, probes, updates, work, told,
                 verified>>

\* Mutated: a probe counts as passed however it ended.
FinishProbeAnyway ==
  /\ probe.stage \in {"echoed", "failed"}
  /\ healthy' = [healthy EXCEPT ![probe.slot] = TRUE]
  /\ probe' = Idle
  /\ UNCHANGED <<gen, detached, caps, available, links, queue, table, engine, cascade,
                 probes, updates, work, told, verified>>

FinishProbe ==
  /\ probe.stage \in {"echoed", "failed"}
  /\ healthy' = [healthy EXCEPT ![probe.slot] = probe.stage = "echoed"]
  /\ probe' = Idle
  /\ UNCHANGED <<gen, detached, caps, available, links, queue, table, engine, cascade,
                 probes, updates, work, told, verified>>

-----------------------------------------------------------------------------
Pump == HandleEnd \/ HandleReq \/ HandleDeath

Driver == StartProbe \/ Echo \/ ProbeFails \/ FinishProbe

Engine(r) == Resolve(r) \/ Admit(r) \/ Expire(r) \/ Dispatch(r)

Read(c) == ReadEof(c) \/ ReaderExit(c)

Next ==
  \/ \E r \in Requests : Engine(r) \/ Cancel(r) \/ CancelNext(r)
  \/ \E c \in Conns : \/ Read(c) \/ Close(c)
                      \/ \E r \in Requests : Respond(c, r) \/ CallPeer(c, r)
                      \/ \E some \in BOOLEAN : Notify(c, some)
  \/ \E m \in Masters, some, echoes \in BOOLEAN : Attach(m, some, echoes)
  \/ Pump
  \/ Driver

Spec == Init /\ [][Next]_vars

\* Threads run, and a host ends every request it works on unless it goes away.
\* Nothing makes a host attach, send an update or go away.
Fairness ==
  /\ \A r \in Requests : WF_vars(Engine(r)) /\ WF_vars(CancelNext(r))
  /\ \A c \in Conns : /\ WF_vars(Read(c))
                      /\ \A r \in Requests : WF_vars(Respond(c, r))
  /\ WF_vars(Pump)
  /\ WF_vars(Driver)

FairSpec == Spec /\ Fairness

-----------------------------------------------------------------------------
Entries == [dest : Masters, conn : Conns, origin : Masters \cup {None}, linked : BOOLEAN]

TypeOK ==
  /\ gen \in [Masters -> 0..MaxAttach]
  /\ healthy \in [Masters -> BOOLEAN] /\ detached \in [Masters -> BOOLEAN]
  /\ caps \in [Masters -> BOOLEAN] /\ available \in [Masters -> BOOLEAN]
  /\ open \subseteq Conns
  /\ reader \in [Conns -> {"none", "reading", "exiting", "gone"}]
  /\ \A i \in DOMAIN queue : queue[i].kind \in {"eof", "end", "req"} /\ queue[i].slot \in Masters
  /\ entry \in [Requests -> Entries \cup {Gone}]
  /\ children \in [Requests -> SUBSET Requests]
  /\ asker \in [Requests -> {"new", "waiting", "admitted", "sent", "failed"}]
  /\ target \in [Requests -> Masters \cup {None}] /\ permit \in [Requests -> Masters \cup {None}]
  /\ cascade \subseteq Requests
  /\ \A i \in DOMAIN probes : probes[i] \in Masters
  /\ probe.stage \in {"idle", "waiting", "echoed", "failed"}
  /\ updates \in 0..MaxUpdates
  /\ work \subseteq Conns \X Requests
  /\ ended \in [Requests -> {"not", "end", "died", "cancelled"}]
  /\ told \in [Requests -> Nat]
  /\ verified \subseteq Conns

\* L6: whoever asked for a request sees at most one terminal of it, whichever of
\* its END, the death of a master and a cancel come first.
OneTerminal == \A r \in Requests : told[r] <= 1

\* The pump has yet to hear of the end of a connection.
DeathComing(c) ==
  reader[c] = "reading" \/ \E i \in DOMAIN queue : queue[i] = Eof(c[1])

\* "Master death terminates every request routed to it" (TEST7038): a request
\* whose REQ went to a connection that is gone is one a death the pump has yet
\* to handle will end.
OrphansAreSeen ==
  \A r \in Requests :
    Live(r) /\ entry[r].conn \notin open => DeathComing(entry[r].conn)

\* L7: an admission permit belongs to a dispatch about to register its request
\* or to a live request, whose termination will release it.
PermitOwned ==
  \A r \in Requests : permit[r] # None => asker[r] = "admitted" \/ Live(r)

\* L17: a peer call linked under a request that was cancelled is itself ended,
\* or one the cascade has yet to visit.
CascadeComplete ==
  \A r \in Requests :
    Live(r) /\ entry[r].linked /\ ended[Parent[r]] = "cancelled" => r \in cascade

\* Caps are routable only behind a connection whose host has echoed an identity
\* nonce: one that failed at the attach, or whose caps appeared later, is "held
\* back from routing" until it has.
UnverifiedNotRouted ==
  \A m \in Masters : healthy[m] /\ caps[m] => Current(m) \in verified

\* "false while a socket is attached, healthy or not" (MasterConnection.detached):
\* a slot is detached only when its connection is gone.
AttachedWhileConnected ==
  \A m \in Masters : detached[m] => Current(m) \notin open \/ reader[Current(m)] # "reading"

\* "Any throw past this point must give the slot back" (sendToMaster).
ThrowGivesSlotBack == \A r \in Requests : asker[r] = "failed" => permit[r] = None

\* A dispatch that waits for a slot gets it or fails, as long as hosts end what
\* they were handed: slots come back, whatever becomes of those who hold them.
EveryDispatchResolves ==
  \A r \in Requests :
    asker[r] \in {"waiting", "admitted"} ~> asker[r] \in {"sent", "failed"}

\* Every request leaves the table: its host ends it, dies, or it is cancelled.
EveryRequestEnds == \A r \in Requests : Live(r) ~> ~Live(r)

=============================================================================
