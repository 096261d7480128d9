----------------------------- MODULE Admission -----------------------------
(***************************************************************************)
(* The engine-side pool admission gate (RequestState.swift,                *)
(* AdmissionController) for one install: requests take a slot in every     *)
(* pool of their cap's chain, wait in order of arrival for room, sit out   *)
(* an outage of the install for a grace period, and may be abandoned.      *)
(* Everything runs under one condition variable; what interleaves is who   *)
(* is asleep on it, who has been woken and not yet looked, and the clock.  *)
(* The decisions are the pools model's (CapDAG.Bifaci.Pools).              *)
(***************************************************************************)
EXTENDS Naturals, FiniteSets

CONSTANTS
  Requests,      \* dispatches, each admitted at most once
  Pools,         \* the install's pool names
  Chain,         \* each request's pools: its cap's own, the shared ones, all
  Cancellable,   \* requests whose caller may give up
  Adverts,       \* capacities a configure may carry, each for some pools
  Grace,         \* admissionUnavailableGrace, in ticks of the outage clock
  MaxOutages     \* bound: how often the install becomes unavailable

ASSUME RequestsFinite == IsFiniteSet(Requests)
ASSUME ChainsOfPools == Chain \in [Requests -> (SUBSET Pools) \ {{}}]
ASSUME CancellableRequests == Cancellable \subseteq Requests
ASSUME AdvertsOfPools ==
  \A m \in Adverts : DOMAIN m \subseteq Pools /\ \A p \in DOMAIN m : m[p] \in Nat
ASSUME GraceNat == Grace \in Nat
ASSUME MaxOutagesNat == MaxOutages \in Nat

VARIABLES
  known,      \* pools configured so far
  limit,      \* each pool's capacity, 0 for unlimited
  active,     \* each pool's count of requests holding a slot
  ticket,     \* each request's ticket, 0 when it is not in line
  nextTicket,
  available,  \* no outage: unavailableSince is nil
  elapsed,    \* ticks since the outage began, up to Grace
  request,    \* where each request stands
  deadline,   \* requests asleep with a time limit
  cancelled,  \* requests whose caller gave up
  outages

line == <<ticket, nextTicket>>
pools == <<known, limit>>
clock == <<available, elapsed, outages>>
vars == <<pools, active, line, clock, request, deadline, cancelled>>

RequestStates ==
  {"new", "awake", "asleep", "holding", "released", "failed", "abandoned",
   "refused"}

InLine(r) == ticket[r] > 0

\* Mutated: a full pool has room for one more.
HasRoomOneMore(r) ==
  \A p \in Chain[r] : p \in known => limit[p] = 0 \/ active[p] <= limit[p]

HasRoom(r) ==
  \A p \in Chain[r] : p \in known => limit[p] = 0 \/ active[p] < limit[p]

\* Mutated: whoever has room goes, in any order.
NextUpAny(r) == InLine(r) /\ HasRoom(r)

\* The first in order of arrival whose whole chain has room.
NextUp(r) ==
  /\ InLine(r) /\ HasRoom(r)
  /\ \A q \in Requests : InLine(q) /\ HasRoom(q) => ticket[r] <= ticket[q]

Init ==
  /\ known = {}
  /\ limit = [p \in Pools |-> 0]
  /\ active = [p \in Pools |-> 0]
  /\ ticket = [r \in Requests |-> 0]
  /\ nextTicket = 1
  /\ available = TRUE
  /\ elapsed = 0
  /\ outages = 0
  /\ request = [r \in Requests |-> "new"]
  /\ deadline = {}
  /\ cancelled = {}

-----------------------------------------------------------------------------
\* Mutated: the sleepers are not told.
BroadcastNobody(r, s) == request' = [request EXCEPT ![r] = s]

\* NSCondition.broadcast: whoever sleeps will look again; r goes to s.
Broadcast(r, s) ==
  request' = [q \in Requests |-> IF q = r THEN s
                                 ELSE IF request[q] = "asleep" THEN "awake"
                                 ELSE request[q]]

BroadcastAll ==
  request' = [q \in Requests |-> IF request[q] = "asleep" THEN "awake" ELSE request[q]]

Take(r) ==
  active' = [p \in Pools |-> IF p \in Chain[r] THEN active[p] + 1 ELSE active[p]]

\* Mutated: a slot is given back to every pool, held or not.
GiveBackEverywhere(r) == active' = [p \in Pools |-> active[p] - 1]

GiveBack(r) ==
  active' = [p \in Pools |->
    IF p \in Chain[r] /\ active[p] > 0 THEN active[p] - 1 ELSE active[p]]

\* Mutated: the waiter's entry stays behind.
StayInLine(r) == UNCHANGED ticket

LeaveLine(r) == ticket' = [ticket EXCEPT ![r] = 0]

\* A configure ends any outage.
Configure(m) ==
  /\ known' = known \cup DOMAIN m
  /\ limit' = [p \in Pools |-> IF p \in DOMAIN m THEN m[p] ELSE limit[p]]
  /\ available' = TRUE /\ elapsed' = 0
  /\ BroadcastAll
  /\ UNCHANGED <<active, line, deadline, cancelled, outages>>

\* Mutated: the outage is not announced.
MarkUnavailableQuietly ==
  /\ known # {} /\ outages < MaxOutages
  /\ available' = FALSE
  /\ outages' = outages + 1
  /\ UNCHANGED <<pools, active, line, elapsed, request, deadline, cancelled>>

\* reconcileMaster and disableMaster: an outage in progress keeps its start.
MarkUnavailable ==
  /\ known # {} /\ outages < MaxOutages
  /\ available' = FALSE
  /\ outages' = outages + 1
  /\ BroadcastAll
  /\ UNCHANGED <<pools, active, line, elapsed, deadline, cancelled>>

Tick ==
  /\ ~available /\ elapsed < Grace
  /\ elapsed' = elapsed + 1
  /\ UNCHANGED <<pools, active, line, available, outages, request, deadline, cancelled>>

-----------------------------------------------------------------------------
(* AdmissionController.acquire.                                            *)

\* A chain with a pool nobody configured is refused before it joins.
Refuse(r) ==
  /\ request[r] = "new"
  /\ ~(Chain[r] \subseteq known)
  /\ request' = [request EXCEPT ![r] = "refused"]
  /\ UNCHANGED <<pools, active, line, clock, deadline, cancelled>>

\* Joining the line and the first look are one hold of the lock: the request
\* is admitted, gives up or goes to sleep before anybody else moves.
JoinAndEnter(r) ==
  /\ request[r] = "new" /\ Chain[r] \subseteq known
  /\ r \notin cancelled /\ available
  /\ HasRoom(r) /\ \A q \in Requests : InLine(q) => ~HasRoom(q)
  /\ nextTicket' = nextTicket + 1
  /\ Take(r)
  /\ Broadcast(r, "holding")
  /\ UNCHANGED <<pools, ticket, clock, deadline, cancelled>>

JoinAndGiveUp(r) ==
  /\ request[r] = "new" /\ Chain[r] \subseteq known
  /\ \/ r \in cancelled /\ Broadcast(r, "abandoned")
     \/ r \notin cancelled /\ ~available /\ elapsed >= Grace /\ Broadcast(r, "failed")
  /\ nextTicket' = nextTicket + 1
  /\ UNCHANGED <<pools, active, ticket, clock, deadline, cancelled>>

\* Mutated: every wait is without a limit.
SleepUntimed(r) ==
  /\ request' = [request EXCEPT ![r] = "asleep"]
  /\ deadline' = deadline \ {r}

\* The wait is bounded by what is left of the outage, or by the polling
\* interval of a cancellable caller; otherwise it is not bounded.
Sleep(r) ==
  /\ request' = [request EXCEPT ![r] = "asleep"]
  /\ deadline' = IF available /\ r \notin Cancellable THEN deadline \ {r}
                                                     ELSE deadline \cup {r}

JoinAndSleep(r) ==
  /\ request[r] = "new" /\ Chain[r] \subseteq known
  /\ r \notin cancelled
  /\ IF available THEN ~HasRoom(r) \/ \E q \in Requests : InLine(q) /\ HasRoom(q)
                  ELSE elapsed < Grace
  /\ ticket' = [ticket EXCEPT ![r] = nextTicket]
  /\ nextTicket' = nextTicket + 1
  /\ Sleep(r)
  /\ UNCHANGED <<pools, active, clock, cancelled>>

Admit(r) ==
  /\ request[r] = "awake" /\ r \notin cancelled
  /\ available /\ NextUp(r)
  /\ Take(r) /\ LeaveLine(r)
  /\ Broadcast(r, "holding")
  /\ UNCHANGED <<pools, nextTicket, clock, deadline, cancelled>>

GiveUp(r) ==
  /\ request[r] = "awake"
  /\ \/ r \in cancelled /\ Broadcast(r, "abandoned")
     \/ r \notin cancelled /\ ~available /\ elapsed >= Grace /\ Broadcast(r, "failed")
  /\ LeaveLine(r)
  /\ UNCHANGED <<pools, active, nextTicket, clock, deadline, cancelled>>

SleepAgain(r) ==
  /\ request[r] = "awake" /\ r \notin cancelled
  /\ IF available THEN ~NextUp(r) ELSE elapsed < Grace
  /\ Sleep(r)
  /\ UNCHANGED <<pools, active, line, clock, cancelled>>

\* A condition wait may return early; it must when its time limit passes.
WakeUp(r) ==
  /\ request[r] = "asleep"
  /\ request' = [request EXCEPT ![r] = "awake"]
  /\ UNCHANGED <<pools, active, line, clock, deadline, cancelled>>

TimedOut(r) == r \in deadline /\ (r \in Cancellable \/ (~available /\ elapsed >= Grace))

Cancel(r) ==
  /\ r \in Cancellable \ cancelled
  /\ cancelled' = cancelled \cup {r}
  /\ UNCHANGED <<pools, active, line, clock, request, deadline>>

-----------------------------------------------------------------------------
\* The permit's release; a second one finds it released and does nothing.
Release(r) ==
  /\ request[r] = "holding"
  /\ GiveBack(r)
  /\ Broadcast(r, "released")
  /\ UNCHANGED <<pools, line, clock, deadline, cancelled>>

\* Mutated: a permit released twice gives its slots back twice.
ReleaseTwice(r) ==
  /\ request[r] = "released"
  /\ GiveBack(r)
  /\ UNCHANGED <<pools, line, clock, request, deadline, cancelled>>

ReleaseAgain(r) == request[r] = "released" /\ UNCHANGED vars

Acquire(r) ==
  \/ Refuse(r) \/ JoinAndEnter(r) \/ JoinAndGiveUp(r) \/ JoinAndSleep(r)

Look(r) == Admit(r) \/ GiveUp(r) \/ SleepAgain(r)

Next ==
  \/ \E m \in Adverts : Configure(m)
  \/ MarkUnavailable
  \/ Tick
  \/ \E r \in Requests :
       \/ Acquire(r) \/ Look(r) \/ WakeUp(r) \/ Cancel(r)
       \/ Release(r) \/ ReleaseAgain(r)

Spec == Init /\ [][Next]_vars

\* A woken thread runs, a time limit passes, time passes during an outage, and
\* a request that was admitted ends.  Nothing makes an outage end.
Fairness ==
  /\ \A r \in Requests : /\ WF_vars(Look(r))
                         /\ WF_vars(TimedOut(r) /\ WakeUp(r))
                         /\ WF_vars(Release(r))
  /\ WF_vars(Tick)

FairSpec == Spec /\ Fairness

-----------------------------------------------------------------------------
TypeOK ==
  /\ known \subseteq Pools
  /\ limit \in [Pools -> Nat] /\ active \in [Pools -> Nat]
  /\ ticket \in [Requests -> Nat] /\ nextTicket \in Nat \ {0}
  /\ available \in BOOLEAN /\ elapsed \in 0..Grace /\ outages \in Nat
  /\ request \in [Requests -> RequestStates]
  /\ deadline \subseteq Requests /\ cancelled \subseteq Requests

Holding == {r \in Requests : request[r] = "holding"}

\* Slots are neither leaked nor returned twice: each pool counts exactly the
\* requests that hold a permit over it, whichever way they came and went.
SlotsAccounted ==
  \A p \in Pools : active[p] = Cardinality({r \in Holding : p \in Chain[r]})

\* "It cannot strand the requests behind it" (acquire): while the install is
\* there, the request whose turn it is is never asleep without a time limit -
\* whoever freed the slot, left the line or was admitted before it woke it.
NobodyStranded ==
  available => \A r \in Requests : NextUp(r) => request[r] # "asleep" \/ r \in deadline

\* The grace window measures the outage (InstallState.unavailableSince): no
\* request sleeps through one without a time limit, even one that fell asleep
\* before it began.
OutagesAreTimed ==
  ~available => \A r \in Requests : request[r] = "asleep" => r \in deadline

\* A request in line is one whose thread is there to take its turn.
LineIsServed ==
  \A r \in Requests : InLine(r) <=> request[r] \in {"awake", "asleep"}

\* Order of arrival: no request is admitted past one that arrived before it and
\* needs no pool that it does not need itself.
NoOvertaking ==
  [][\A r, q \in Requests :
       /\ request[r] # "holding" /\ request'[r] = "holding"
       /\ InLine(q) /\ (InLine(r) => ticket[q] < ticket[r])
       => ~(Chain[q] \subseteq Chain[r])]_vars

\* The gate implements the order-of-arrival slots it promises.
Promise == INSTANCE Slots WITH
  waiting <- {r \in Requests : InLine(r)},
  ahead <- [r \in Requests |->
              IF InLine(r) THEN {q \in Requests : InLine(q) /\ ticket[q] < ticket[r]}
                           ELSE {}],
  holding <- Holding
ImplementsSlots == Promise!Spec

\* Every wait ends, in an admission or in an error the caller sees, as long as
\* admitted requests end and outages do not go on forever: the queue is "held
\* open" for a replacement, never for good.
EveryWaitEnds == \A r \in Requests : InLine(r) ~> ~InLine(r)

=============================================================================
