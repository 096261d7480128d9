# capdag-objc: TLA+ models, checks and proofs

capdag-objc is the Objective-C / Swift implementation of CapDAG.  Its heart is
the *Bifaci* runtime (`src/Sources/Bifaci`): an engine dispatches capability
requests ("caps") to cartridges, which are processes that stream their
arguments and answers in frames and call each other through a relay.  This
directory models the part of it that is concurrent and stateful and the
decisions it rests on, checks the models with TLC, and proves the most
important facts about all but the planner with TLAPS.

## The system

```
 engine ── RelaySwitch ──(socket)── host (CartridgeHost / in-process) ── cartridge
              │  request table, admission, routing, identity probes        │
              └── one MasterConnection per slot, one reader thread each    ├ request loop, pools
                                                                           ├ output streams (credit)
                                                                           ├ input demux (credit)
                                                                           └ live feeds
```

| component | state | operations | what is hard |
|---|---|---|---|
| Credit (`Credit.swift`, decisions generated from Lean in `CapDAG-Bifaci-Credit.c`) | a gate per output stream, a window per input stream, the router's map of gates | acquire, grant, close; arrive, consumed, continued, flush; register, grant, closeRequest | writers park and are woken by a thread that may close the gate; two threads grant; both ends may have negotiated different windows |
| Cartridge streams (`CartridgeRuntime.swift`) | item being reassembled, queue to the handler, CREDIT frames in flight; mode, chunk counter and coalescing buffer of each output | emit an item in fragments, demux a CHUNK, iterate an input; start, write, flush, close, finish | a blocked handler and a blocked producer waiting for each other; a buffered tail and END |
| Admission (`RequestState.swift`, `CapDAG-Bifaci-Pools.c`) | per install: pools with capacity and slots taken, the line of waiters, the start of an outage | configure, reconcile, disable, acquire, release | condition-variable wake-ups, cancellation, time limits, capacity lowered under load |
| Pool declarations (`Pools.swift`, `CapDAG-Bifaci-Pools.c`) | none | validate, make the pool map, take chains from it | cartridge and switch derive the same pools from different data |
| Flow ordering (`FlowOrdering.swift`, `Stats.swift`, `CapDAG-Bifaci-Flow.c`) | per flow: next number; expected number and frames held; flows that are over | write a frame, accept a frame | reordering, a write that fails, bounded memories |
| Relay switch (`RelaySwitch.swift`) | slots (socket, health, caps, attachment), frame queue, probes | sendToMaster, handleMasterFrame, handleMasterDeath, addMaster, cancelRequest, RelayNotify, probes | hosts die, reattach and change their caps between any two holds of the one lock |
| Request table (`RequestState.swift`, `CapDAG-Bifaci-Request.c`) | routing entries, an index from request id, children, ended requests | register, terminate, linkChild, disposition | two maps written apart; an END, a death and a cancel racing for one request |
| Request loop (`CartridgeRuntime.swift`) | event queue, in-process pools, terminal claims, pending peer calls, gates | REQ, CANCEL, handler done, peer responses, capacity changes | handler and cancel racing to be the terminal, and to block and be unblocked |
| Cartridge host (`CartridgeHost.swift`) | slots, process generations, routing entries, heartbeats | spawn, death, frames both ways, retire, reap, kill | a death, or a kill, of a process already replaced |
| Live feeds (`LiveFeed.swift`) | capture ring, feeder, bounded delivery queue, the request's taps | subscribe, capture, deliver, stop | loss only where declared; a stop racing capture and delivery |
| Cap URNs and ranking (`CapDAG-Cap.c`, `-Exec.c`, `-Ranking.c`, `TaggedUrn-*.c`, and the sorts in the Swift files) | none | match, dispatch, rank | the same order written four times |
| Planner (`CSLiveCapFab.m`, `CSPlan.m`) | a graph of caps | reach, find chains, order a plan | two searches that must agree |
| Fabric registry | definitions and dims in memory and on disk, the pinned manifest | fetch with what is named, keep, start, clear | callers that fetch the same at once; a start under another manifest |
| Frames, resolver, front ends | none | encode, decode, fetch | I/O and conversions |

The full list, with what is and is not modelled, is `components` in
`PROJECT.json`; what is hard to test, line by line, is `hazards` there.

How they interact: a stream's sender and receiver exchange CHUNK and CREDIT
frames, which travel through the same sockets, readers and reorder buffers as
everything else.  A dispatch takes a slot in the pools of the cap it would use,
chooses a master, gives the permit to the request's entry in the table, and the
entry's termination - by END, death or cancel - releases it, which wakes the
next dispatch.  The master's host chooses a cartridge, spawns it if need be, and
forwards; the cartridge's loop admits the request through its own pools, which
the switch's were taken from, and starts its handler on a thread.  A cancel goes
the same way down and closes whatever the handler may be blocked in.

### What makes each component correct

* *Credit*: credit is conserved; a chunk never exceeds the window; no writer
  waits for a wake-up that was already given; a receiver about to block owes
  nothing; so the stream never stalls.
* *Admission*: slots taken are slots held; the longest-waiting request with
  room goes first; whoever may go is awake; the grace window measures the
  outage; every wait ends.
* *Pools*: runtime and switch come to the same chains; no declared limit is lost.
* *Flow ordering*: frames are handed on once, in order; nothing is written
  after a terminal.
* *Switch and table*: one terminal per request; a request routed to a dead
  master is ended; a permit has an owner; a cancel reaches the linked children;
  both indexes name the same requests; a straggler is told from a stranger.
* *Request loop*: one terminal per request; a cancel interrupts whatever its
  handler waits for; a pool's count is of the handlers running; the loop never
  sleeps on a line that could move.
* *Host*: a request's end is its own process's doing; a retirement spares work in
  hand; nothing precedes the policy; every request is answered.
* *Live feed*: every gap is on the right item; no loss passes for a clean end; a
  closed feed ends.
* *Output*: what is on the wire is a legal flow, and one that ends with END is
  whole.
* *Routing*: what runs serves the request and is the best there was.
* *Planner*: what is told reachable can be reached, in the steps it was told.

## Modules

### Credit.tla, CreditFlow.tla

`Credit` is the gate and the window as records and pure operators: one operator
for each decision of the generated C (`Acquired`, `Granted`, `Closed`,
`Arrived`, `Consumed`, `Continued`, `Flushed`), with its guard or result beside
it (`CanAcquire`, `MustWait`, `Violates`, `ConsumeGrant` ...).

`CreditFlow` closes the loop around them.  Its actions are the lock holds of
five parties: a writer (`StartItem`, `Acquire`, `Park` for the async path,
`Sleep` for the blocking path, `AskAgain`, `Refused`, `SendChunk`), the demux
(`ReceiveChunk`, `ContinueChunk`, `BufferChunk`), the handler (`Take`,
`FoundEmpty`, `Flush`, `Consume`, `SendGrant`), the loop that routes CREDIT
frames (`RouteCredit` picks the gate under the router's lock, `GrantGate`
grants after it), and the end of the request (`CloseRequest` takes the gates
out of the router, `CloseGate` closes them).  A chunk is "part" of an item or
its "last"; a CREDIT frame is the running total it brings the grants to, so
that the order of frames is part of the state.  Payloads, checksums and CBOR
are left out.

### Slots.tla, Admission.tla, PoolMap.tla

`Slots` is the promise: a request holds its whole chain or nothing, and slots go
in order of arrival among those with room.  It knows nothing of threads.
`Admission` is `AdmissionController` for one install: each action is one hold of
its `NSCondition`, from a lock to the next wait or return.  `Join...` are the
three outcomes of a first look, `Admit`/`GiveUp`/`SleepAgain` those of a later
one; `Broadcast` wakes sleepers, `WakeUp` is a spurious wake-up or a passed time
limit, `deadline` the sleepers that have one.  An outage's clock counts ticks up
to `Grace`.  `ImplementsSlots` is the refinement: the line's tickets map to
"who waited before whom".

`PoolMap` is where the chains and capacities come from: a manifest declares
shared pools and capacities under names as it spells them; `Validated` is what
the declarations' check accepts, `PoolStates` the map the runtime makes of them
and sends up, `RuntimeChain` and `SwitchChain` the pools each end takes for a
cap, `Effective` and `Advertised` the limit under which a pool admits.
`MCAdmission` gives `Admission` the chains and adverts that `PoolMap` makes of a
manifest, so that the composition of the two is what the run explores.

### FlowOrder.tla

The writer of a runtime or host (`ChannelFrameSender.send`: terminal gate,
numbering, write - one lock hold), a carrier that lets at most `Skew` frames of
a flow overtake one, and the reader's `ReorderBuffer.accept` with the clean-up
at a terminal.  `FailToWrite` is the oversized frame, which gets a number and
throws.

### RelaySwitch.tla

The switch, its table, and the hosts at the other ends.  A slot `m` has had
`gen[m]` connections; a connection is `<<m, g>>`.  The engine's dispatch is
three holds of the lock (`Resolve`, `Admit` or `Expire`, `Dispatch`), a reader's
exit two (`ReadEof` queues the error, `ReaderExit` marks the slot detached), the
pump takes one queued event at a time (`HandleEnd`, `HandleReq`,
`HandleDeath`), a cancel one hold per request of its cascade (`CancelNext`), a
probe is started, answered and applied in separate steps.  Admission is reduced
to a count of permits per slot and a flag for an outage, as `Admission` has the
detail; frames of a request's body are left out, its REQ and its terminal are
in.  A host answers, calls peers, and goes away at will (`Respond`, `CallPeer`,
`Close`: the environment).  The history variables (`ended`, `told`, `verified`)
are only read by properties.

### LifeCycle.tla, RequestTable.tla

`LifeCycle` is the request table of the formal program: what is registered,
what ended, and the last few that ended, by which a late frame is told from a
frame of nobody.  `RequestTable` is the Swift one: entries by routing and
request id, an index from request id that is written apart from them, and a ring
of the last ended.  `Register`, `Terminate` and `LinkChild` are its operations,
each under the switch's lock and so one step.  `ImplementsTable` is the
refinement.  This one is proved, for any ring; `MCRequestTable.cfg` is the same
on a small instance.

### FabricRegistry.tla

The registry of definitions.  Callers fetch for themselves (`Get`): a cap's body
(`BodyArrives`), then its media defs, each looked up under the lock and fetched
in a call of its own if it is missing (`MediaCached`, `MediaFetched`,
`MediaNotInManifest`), then, when all of those have ended (`MediaEnds`), its dims
one after another (`DimCached`, `DimMissing`, `DimArrives`), and at last the
definition is kept (`Caches`).  Nothing makes one caller wait for another that
fetches the same.  `Start` is the constructor: it reads the disk and drops what
the manifest of this start does not pin, then what names a dim that is gone.
`Clear` and `ClearDisk` are the two halves of `clearCache`, in `ClearSpec` only.
The service, which serves the bodies, is the environment: any body for a
definition, one body for ever for each version of a dim.

### RequestLoop.tla

A cartridge's process.  The main loop takes one event at a time from one queue:
frames of the host, answers of peers, reports of handlers, changes of a limit,
wake-ups; before each it admits whoever can go (`loop.at = "drain"`, one hold of
the pools' lock per request), and a cancel and a handler's end go on to close
gates and settle peers in steps of their own ("close", "sweep").  Each running
request has a handler thread that writes its credited output, calls peers and
writes their arguments, reads its input, and concludes, in whatever order
and at whatever point.  `on` is what it is blocked on.  Claims
(`TerminalClaim`), pools (`RuntimePools`), pending peer calls and gates are the
state of the code.  `PoolHandle.set` is in two steps, its change and its
wake-up.  The host is the environment: it sends requests and their input,
cancels, and credits what it was sent; callees answer unless hung.

### Host.tla

The processes behind a host's slots.  One loop takes relay frames, what the
processes' readers queued, and ticks; the discovery sync (`Retire`, restore) and
killers are threads of their own.  A slot goes through processes, each known by
the generation it was given, and their frames and deaths are handled from the
queue when the slot may run another.  A relay REQ is handled in the steps other
threads come between: choose, spawn without the lock, record, send the policy,
write.  `entry` is the routing entry of a request with its two halves (body
done, response done); `told` and `served` are history.

### LiveFeed.tla

One live input: the capture thread pushes into a ring under one of two overrun
policies, the feeder moves items to a delivery queue that blocks it when full,
the handler dequeues or leaves, the main loop closes the request's taps.  Each
action is one hold of the feed's condition, the queue's, or the taps' lock; the
demux opens the feed before it registers its tap.  Items are their sequence
numbers and gaps; a limit on their number or on time is the selector's.

### Recognizer.tla, Emission.tla, Output.tla

`Recognizer` is the formal program's judge of a request's flow
(`CapDAG-Bifaci-Request.c`): a frame is accepted or the flow is no flow.
`Emission` is the specification it makes: the flows it accepts, frame by frame.
`Output` is the writer's side: an output stream per declared output with its
mode, buffer and chunk index, tasks that write, flush and close concurrently,
`dispatchOp`'s finish, the terminal claim against the cancel, and the gate of
the sender.  `ImplementsEmission` is the refinement.  `Habits` are the three
things a handler may do that the streams do not refuse and that break it:
closing an output before it starts, writing to a closed one, writing a chunk
over the frame limit.

### Urn.tla, CapUrn.tla, Routing.tla

`Urn` holds the tables by which the generated code matches the constraints of
two tagged URNs; `CapUrn` the caps made of them: `Dispatch`, `Equivalent`, the
queries, the specificity and `Ranked`.  `Routing` makes the four choices a
request goes through - the cap whose pools admit it, the master, the cartridge,
the handler - each over the table as it is by then, while cartridges come and go
and masters report late.  `Before` is the sort of switch and host,
`Dominated` the handlers' loop; that both, and the formal key, are one order is
the theorem `RankingsAgree`.

### Planner.tla

The graph of caps and the two searches over it, breadth first for what can be
reached (`ReachableTargets`) and depth first for the chains (`FindPaths`), and
the order of a plan's nodes (`TopologicalOrder`, Kahn's).  They are recursive,
and so are compared with what they stand for by TLC alone.

### MC modules

The `MC` modules give names to the sets and functions the configurations assign
to constants.  Two say more.  `MCRouting` computes `Routing`'s tables from six
cap URNs through `CapUrn`, and states as assumptions, which TLC evaluates before
its run, what the pure modules compute: that the constraint tables are inclusion
and intersection of the tag states they allow (`TagMatchIsInclusion`,
`TagMeetsIsIntersection`), that the grades of a query nest (`GradesNest`), and, for
the planner, over every graph of up to three edges on three types and every plan of
up to four edges on three nodes, that what a caller is told it can reach and in
how many steps is what can be made (`ToldIsMade`), that the chains found are as
long as told and fan out only into caps that need it (`SearchesAgree`), and that
a plan is ordered or has a cycle (`PlansAreOrdered`).  `MCAdmission` is described
above.

The operators marked "Mutated" are plausible mistakes in the definition that
follows them; nothing uses them: they document what each property is able to
detect.
`L4`, `L6` and so on in comments are the protocol laws as the source numbers them.

## What is checked

| run | instance | distinct states | shows |
|---|---|---|---|
| credit | two writers, sender window 2, receiver window 4, items of one or more chunks, two items each | 318 k | credit is neither made nor lost, no chunk exceeds the window, no parked writer misses a wake-up or outlives a close, nothing stalls, every item arrives |
| admission | four dispatches over the pools of a manifest with two caps, cold and warm adverts, one outage, one cancellation, double releases | 166 k | slots accounted for, nobody stranded or overtaken, `Slots` implemented, every wait ends |
| flow_order | two flows of four frames, two may overtake, buffer of two, failing writes | 85 k | order, completeness where the writer left no gap, silence after a terminal |
| switch_safety | one slot, two connections, two cap updates with their probes, two requests (one write throws), a peer call, capacity 1 | 841 k | every permit has an owner, no linked child is forgotten by a cancel |
| switch_live | two slots, one connection each, two requests and a peer call, capacity 1, masters die | 78 k | one terminal at most, every dispatch gets its slot or fails, every request leaves the table |
| loop | two requests for one slot, a peer call, an output beyond its window, a cancel of either at any moment | 227 k | one terminal each, a cancel interrupts what its handler is blocked in, everything in line is answered |
| loop_limits | three requests (one refused) over two pools, a cancel, two changes of capacity from two threads | 912 k | slots accounted for, the loop never sleeps on a line that could move |
| host | two requests for one slot, two processes, a crash, a probe, a kill, two discovery syncs | 869 k | one end each and always one, no request fails for a predecessor's death, no process retired with work in hand, nothing before the policy |
| host_drain_expires | the same, and a drain may expire | | *violated*: a request of a retired process is never answered |
| live_feed | a ring of two, a queue of one, six captures, both policies, with and without limits | 117 k | gaps accounted for, losses surfaced, a closed feed ends |
| output | two outputs, one required, two units each, a buffer of two, a cancel, a lost connection, a late progress frame | 3.0 M | the wire is a flow the recognizer accepts; one that ends with END is whole |
| routing | six caps that overlap, tie and come and go, three cartridges under two masters, two changes | 191 k | what runs serves the request and nothing beside it ranks before it; the assumptions of `MCRouting` |

`host_drain_expires` is a disagreement between the code and what its own comment
promises; `findings` quotes both.  What it takes is a process that is still
answering when `retireDrainTimeout` passes.  `retireKillLocked` clears the slot
and leaves the generation and the routing entries, so that the death that follows
is of a slot already bare and is taken for one that was handled.  `DrainExpires`
is TRUE in that run alone: with it nothing else about retirement could be seen.

Further configurations are kept to be run by hand.  `MCRequestTable.cfg` (module
`RequestTable`, 7.9 k states) passes, and so does `MCFabricRegistry.cfg` (module
`FabricRegistry`) without dims (three fetches, 1.3 M) or without media defs (two
versions, 2.2 M); with both it is past five minutes.  The others end in a
counterexample, each to a sentence of the source or to what it takes for granted:

| configuration | code | what it shows |
|---|---|---|
| MCCreditFlow_window_of_one | `CartridgeRuntime.swift:2133` | under a window of one an item of several chunks never arrives: its first chunk is credited back with the item (1649-1652) |
| MCFlowOrder_safety with INVARIANT NoneLost | `CartridgeRuntime.swift:3299` | a frame too large to write has its number already, and strands what follows it in the reader |
| MCRelaySwitch_races, AttachedWhileConnected | `RelaySwitch.swift:2147` | an old connection's end, handled after a reattach, marks the new one detached (against 249-251) |
| MCRelaySwitch_unhealthy_death | `RelaySwitch.swift:2149` | a master that dies while unhealthy leaves its requests (against ProtocolRuntimeTests:1461) |
| MCRelaySwitch_races, ThrowGivesSlotBack | `RelaySwitch.swift:1641` | a dispatch whose write throws keeps its slot (against 1558-1559) |
| MCRelaySwitch_races, UnverifiedNotRouted | `RelaySwitch.swift:2605` | a probe's answer is applied to a slot whose connection is another by then (against 1029-1035) |
| MCRequestLoop_late_stream | `CartridgeRuntime.swift:916` | a stream opened after the cancel closed the request's gates parks its writer for good (6039-6041) |
| MCHost_races, RetiredNotRouted | `CartridgeHost.swift:3609` | a slot retired while its process is spawned without the lock is routable again (against 1638-1640) |
| MCHost_races, KillsTheChosen | `CartridgeHost.swift:3985` | a kill strikes the successor of the process it chose (against 3978) |
| MCLiveFeed_late_tap | `LiveFeed.swift:928` | a tap registered after a cancel closed the taps is closed by nobody (against CartridgeRuntime.swift:5991-5996) |
| MCOutput_habits | `CartridgeRuntime.swift:1333` | an output closed before it is started is never closed again, and END follows it open (1306-1309) |
| MCOutput_habits, WritesLate | `CartridgeRuntime.swift:1333` | a write to a closed output is sent, behind its end |
| MCOutput_habits, Oversized | `CartridgeRuntime.swift:1000` | a chunk over the limit is numbered and not sent: the stream has a hole |
| MCRouting_main with INVARIANT ChargedIsServed | `RelaySwitch.swift:1479` | the slot is taken for the first cap of the master that could serve (1476, 1479-1489), the request served by the best |
| MCFabricRegistry with INVARIANT MediaHeld | `CSFabricRegistry.m:630` | a start under another manifest keeps a cap and drops a media def it references, which it looks at no more than at the cap's dims (against `CSFabricRegistry.h:102-105`) |
| MCFabricRegistry with INVARIANT OnlyListed | `CSFabricRegistry.m:595` | an unversioned definition on disk is kept if the manifest does not list its name: its pin reads as 0, which is its version (against 581-583) |
| MCFabricRegistry under ClearSpec, DimsHeld or CapAfterMedia | `CSFabricRegistry.m:1001` | a clear between a call's look at a dim, or a media def, and its last step: the definition is kept without it (against `CSFabricRegistry.h:107-110`) |

**Bounds.**  Each is a constant named "bound" in its module, or a size of a
buffer of the code.
Credit: windows below, at and above a batch (the batch is half the window), so
that a writer goes through exhaustion more than once, and two writers, so that a
wake-up of one can be missed by the other.  Admission: four requests are the
smallest instance where one shares one pool with a second and another with a
third, and where a chain is contained in another.  Flow order: four frames pass
the buffer's limit (`BufferLimit` 2) by one when the first is missing (`Skew` 2).
Switch: two connections per slot are what it takes for an old connection's
events to meet a new one, two slots for a caller and its callee to die
separately; the two runs take one each, as both together are past TLC.  Loop: two
requests for one slot make one of them wait; a window of one and two chunks
block a writer; two capacity changes lower a limit and raise it.  Host: two
processes of one slot (`MaxSpawns`), so that a predecessor's frames and death
can be handled in a successor's time, and two syncs, one to retire and one to
restore.  Live feed: six captures overrun a ring of two before, between and
after deliveries through a queue of one.  Output: two units per output are one
flushed by size or held for age or close, and two outputs interleave.

**Deadlock** is checked for credit, admission, live_feed, output and routing,
where a step that only keeps a finished state is an action of its own.  It is
not for the others, which stop when the bounded environment has asked all it may.

**Fairness.**  Weak fairness of each thread's own steps, and nothing more: a
thread that can run does.

* `CreditFlow`: each writer, the demux, the handler's loop, the router's loop
  and a close already begun.  That a request ends is not assumed.
* `Admission`: woken threads look, time limits pass, the clock of an outage runs
  and admitted requests end.  That an outage ends is not assumed.
* `RelaySwitch`: the dispatching threads, readers, the pump and the probe driver
  (each is a thread or a loop that waits on its own queue); cancels finish; a
  host ends each request it was handed unless it goes away, which is the
  assumption under which slots come back: the code has no time-out to replace it.
* `RequestLoop`: the main loop, handlers' threads and a wake-up already begun; the
  host ends an input it began and credits what it asked for; a callee that is
  not hung answers.  Nobody has to send a request or a cancel.
* `Host`: the loop, the readers, and a process that stays alive answers what it
  was handed.
* `LiveFeed`: the demux, feeder and handler, a device in use delivers, the clock
  goes on.  A device need not run dry, and nobody has to close a tap.
* `FlowOrder`, `Output` and `Routing` have no liveness: the first two's writers are
  others' threads, the last is a request's one pass.

## What is proved

Eight modules hold proofs.  None uses fairness, and none assumes more than the
named assumptions on constants of the module it is about, or what the text below
says.  Each safety argument has the same form: an inductive invariant, checked
first by TLC as an invariant of the component's run, kept by every action one
conjunct at a time, and the property read off from it.

`CreditFlowProofs.tla`, for any finite set of writers, any windows, any split of
items over chunks and any number of items:

| theorem | property |
|---|---|
| TypeCorrect | TypeOK |
| WindowLedger | WindowConserved |
| Conservation | CreditConserved |
| NoViolation | NoCreditViolation, if the sender's window is at most the receiver's |
| WakeupsKept | NoLostWakeup |
| FlushedBeforeBlocking | BlockedOwesNothing |
| StallFree | NoStall, if the sender's window is at least 2 and at most the receiver's |

The two preconditions are necessary: a window of one is
`MCCreditFlow_window_of_one`; a sender opened wider than its receiver overruns it
by spending credits of its own gate.  The run has a sender's window equal to the
batch of its receiver; `StallFree` also covers one below it, where nothing
consumed ever fills a batch and only the flush before blocking gives credit back.

The argument.  None of the properties is inductive alone.  `Shape` ties the
control state to the data (a writer that is asking has chunks left; a grant is
due only to a thread about to send it), and `CreditsInOrder` says the CREDIT
frames in flight carry growing totals ending in what was granted, so that taking
one off the wire neither gains nor loses.  Over these, two ledgers are
invariant.  The receiver's: room, plus what was accepted and not granted back,
is its window.  The sender's: gate, credits held, chunks on the wire and all
that is owed add up to its window, and to no more once the request has ended or
a chunk was refused.  `NoViolation` follows, because a chunk on the wire is
credit the receiver cannot have counted; `StallFree` follows because in a state
with nothing in motion all of the window would be in one unfinished item,
which accounts for one credit at most.

`AdmissionProofs.tla`, for any finite set of requests, any non-empty chains of
pools, any advertised capacities (0 meaning no limit), any grace period and any
number of outages:

| theorem | property |
|---|---|
| TypeCorrect | TypeOK |
| Served | LineIsServed |
| Timed | OutagesAreTimed |
| NotStranded | NobodyStranded |
| Accounted | SlotsAccounted |
| InOrderOfArrival | NoOvertaking, an action property |
| GateKeepsPromise | ImplementsSlots: `Admission` implements `Slots` |

The argument.  `Queue` is inductive by itself: the types, that who is in line is
awake or asleep and nobody else is, that tickets are dealt in growing order, no
two alike, and that whoever is past the first look has its whole chain
configured.  The last part is needed because the gate ignores a pool it does not
know: without it, having room in the gate's sense would not be having room in
the promise's.  `SlotsAccounted`, `OutagesAreTimed` and `NobodyStranded` are
each preserved given `Queue`.  For the last two every step either broadcasts,
after which nobody is asleep, or leaves the slots, the line and the outage alone
but for the one request that goes to sleep: it has a time limit in an outage,
and otherwise it has just seen that it is not its turn.  A newcomer cannot
change whose turn it is, as its ticket is the highest.  With `SlotsAccounted`
the count of slots is the promise's number of holders, and each step is the
step of `Slots` of the same name, or changes nothing `Slots` speaks of.

Also in `AdmissionProofs.tla`, of `PoolMap`, for any caps, names and declarations:

| theorem | what it says |
|---|---|
| EffectiveIsBoth | a pool has room under the effective limit exactly where it has under the configured and the reported one |
| ColdIsOne | a cartridge not running is advertised as one slot of the shared pool |
| ValidatedMaterializes | what validation returns makes a pool map |
| ChainsAgree | the chain the runtime admits a cap through is the one the switch derives from the map it was sent, if no shared pool is named like a cap or like the pool of all |
| LimitsKept | every capacity of a validated manifest is the limit of a pool of the map |

`FlowOrderProofs.tla`, for any finite set of flows the writer remembers, any number
of frames and any skew:

| theorem | property |
|---|---|
| SoundAlways | `Sound`, the invariant |
| HandedOnInOrder | InOrder |
| NothingStaysBehind | GapFreeFlowsArrive |
| OverIsOver | NothingAfterTerminal, an action property |

All four are under `Remembered`: there are at most `GateCap` flows (1024 in the
code; two flows and a cap of two in the run).  It is needed: a flow the gate has
forgotten may be written to again and is numbered from zero, so that a late frame
of its first life is taken for one of its second.

The argument.  `Sound` says that a flow's emissions and its numbers agree while it
is open, so that a number tells a frame's place; that what is in flight or held
carries numbers of its own, none of them handed on; and that what was handed on is
the emissions up to the expected number.  An arrival hands on a run of consecutive
numbers (`WhatIsLetGo`), which `InSeqOrder` sorts (`OrderOfRun`), and a frame of a
flow without a failed write that is in none of these places was never written.

`RelaySwitchProofs.tla`, for any masters, requests, ranks, caps and families of
peer calls, and any bounds:

| theorem | property |
|---|---|
| TypeCorrect | TypeOK |
| NoSecondTerminal | OneTerminal |
| PermitsHaveOwners | PermitOwned |
| CancelReachesChildren | CascadeComplete |

The argument.  A request is pending - asked for, or a call the pump has yet to
handle - then live, then over, and none of these twice (`AskedOnce`,
`CalledOnce`).  So whoever finds it live is the first to end it (`Unanswered`), the
engine, the pump and a cancel alike; the permit is that of the dispatch or of the
entry (`Owned`); and once a parent is no longer pending it never comes to life
again, so that the link of a live child stays where a cancel of its parent finds it
(`LinksKept`, from which `Visited`).

Also in `RelaySwitchProofs.tla`, of `RequestTable` (there `Held`), for any requests
and any ring of at least one place:

| theorem | property |
|---|---|
| IndexKept | IndexAgrees: entries and index name the same requests |
| EndedOnce | EachEndsOnce: what was registered is in flight or ended, none twice |
| Disposed | DispositionAgrees: a late frame is told as the formal table tells it |
| TableImplemented | ImplementsTable: `RequestTable` implements `LifeCycle` |

The argument.  Neither half of the index invariant is kept without the other:
`register` looks into both maps and its error paths rest on either, and
`terminate` leaves the index entry of a request whose routing id is another's.
With it, the formal table's requests in flight are the entries' keys.  The ring
drops its oldest before it takes another; `RecordedIsLast` says that this leaves
the last of what was ever recorded, which is how the formal table keeps it.

`RequestLoopProofs.tla`, for any requests, peer calls, pools, capacities and windows:

| theorem | property |
|---|---|
| TypeCorrect | TypeOK: among others, no gate holds more than its window |
| SoundAlways | `Sound`, the invariant |
| OneEnd | OneTerminal |
| NoSlotLeaks | SlotsAccounted |
| NoRoomUnnoticed | NobodyWaitsWithRoom |

The argument counts what is in the loop's one queue.  A request's REQ is there at
most once, and while it is, or while the request is in line, nothing has been done
for it (`Entrance`); from then on its claim says who ends it, and its slot is given
up with the one report its handler leaves (`Exit`).  A stream's chunks, the credits
of its gate and the grants on their way are one ledger (`Ledgers`).  Who raises a
limit is counted from the change to the wake-up the loop takes for it (`Woken`).
`AdmitNext` and `HandleCancel` take a position out of the line (`RemoveAt`), of which
`RemovedAt` says what is left.

`HostProofs.tla`, for any slots and requests and any bounds:

| theorem | property |
|---|---|
| SoundAlways | `Sound`, the invariant |
| TypeCorrect | TypeOK |
| PolicyBeforeWork | PolicyFirst |
| OneEnd | OneTerminal, an action property |
| DeathIsOnesOwn | NoInnocentFails, an action property |
| RetirementWaits | RetireSparesWork, an action property, unless drains expire |

The argument joins four views.  A slot runs at most one process, of its generation;
a process alive is the one its slot holds, and one whose end was read is not; a REQ
is queued once; and a request's entry, its history and the answers queued for it are
those of the one process it was written to (`RequestSound`, `WorkSound`).  A stale
death is of another process than the one the entry is for.  `RetirementWaits` has
`~DrainExpires` as its hypothesis, as the run has, because the code kills what
outlives `retireDrainTimeout`.

`StreamProofs.tla`, of `LiveFeed`, for every capacity of ring and queue and any number
of items:

| theorem | property |
|---|---|
| FeedsAreTyped | FeedTypeOK |
| GapsAreCounted | GapsAccounted |
| NoLossEndsClean | LossSurfaced |

The argument.  `FeedSound` follows one stream of entries through its four places:
received, queued, in the feeder's hand, in the ring.  The ring goes on where the
stream ends, less what was dropped, and up to what was captured, as long as the
feeder takes from it (`RingFollows`); each entry's gap is what lies between it and
the one before (`Marked`); the overrun is the last entry (`LastWord`); and a feeder
past its loop has left a feed that takes nothing more (`Threads`, `AllTold`).

Also in `StreamProofs.tla`, of `Output` and `Emission`, for any list of outputs, any
of them required, any number of units, and a handler without the habits (`Orderly`):

| theorem | property |
|---|---|
| EndIsWhole | EndedWhole |
| ResponseEmitted | ImplementsEmission |

`Habits` is empty in the run too; MCOutput_habits shows what becomes of a response
whose handler has one.

The argument.  `ResponseSound` relates each stream's own record to the wire's.  As
long as the wire is there and has not carried the terminal, the stream is open on
it exactly when it was started and not yet ended, with as many chunks as the
stream counted (`Lawful`), so that every frame is one the recognizer accepts.  As
long as nobody but the handler ends the response, no gate is closed, and what the
wire carried, followed by what the stream's task has in hand and by what is
buffered, is what was written, in order (`Whole`).  Neither says anything of a
stream once a cancel or the loss of the wire got at it, so that END must be
excluded then: by the claim, which only the handler holds when it is about to
write END, and by the wire, which takes nothing after its loss (`Course`).  An
output that finish has passed is closed or was never needed (`Settled`), and none
is left when the handler claims (`WholeAtTheEnd`).  With these, each action writes
at most one frame, a step of `Emission` (`StepEmits`).

`RoutingProofs.tla`, for any caps, scores and tables:

| theorem | property |
|---|---|
| RankingsAgree | the sorts of switch and host, the handlers' loop and the formal key order any two caps alike |
| TypeCorrect | TypeOK |
| Best | ServedByTheBest |

The loop over handlers replaces the one it holds by a comparison written with
other cases than the sort's.  The invariant is that nothing it has seen ranks
before what it holds, which needs `RankingsAgree` and that ranks are ordered by
a total preorder; the rest is what each choice is made from.

Also in `RoutingProofs.tla`, of `Urn` and `CapUrn`, for any keys, any schemes and any non-trivial set of values
(`ValuesAbound`):

| theorem | what it says |
|---|---|
| TagMatchIsInclusion, TagMeetsIsIntersection | the two constraint tables are inclusion and intersection of the tag states the constraints allow |
| RefinesIsInclusion, MeetsIsIntersection | the same of whole URNs and what they describe |
| GradesNest | a cap that answers a query exactly answers it, and one that answers it may |
| ServesTheLesser | a cap that serves a request serves every one that sends less and asks for less, unless the input was left open |

The tables are proved by cases of the two constraints; the step from tags to URNs
needs that every constraint allows something, so that an assignment can be made
up of what each allows.  Without the last condition of `ServesTheLesser` the
theorem is false: an open input is no constraint at all, so that a request that
states one asks for more.

Also in `RoutingProofs.tla`, of `FabricRegistry` (there `Registry`), for any names, versions, bodies and number of calls, and
without `clearCache`, under which two of them are false:

| theorem | property |
|---|---|
| RegistryTyped | TypeOK |
| EveryDimHeld | DimsHeld: the dims of a definition in memory are in memory, with the values named |
| EveryDimPinned | DimsPinned: they are of the pinned versions |
| CapsComeLast | CapAfterMedia: no step but a start caches a cap before its media defs |

The argument.  Of a call the invariant (`CallSound`) says that the references it
has passed resolve, and that a media def its cap needs is in memory, yet to be
looked at, or being fetched by a call of its own, unless one has failed.  Another
call cannot undo that: within a start dims are only ever written at the pinned
version, so that what resolved against one copy resolves against the next
(`ResolvesGrows`, which is where `DimsPinned` is needed), and definitions are
only added (`OthersStaySound`).  A call that ends either puts its name in memory
or marks the one that waits (`EndStep`).

**Only model-checked**: all liveness, as the prover reaches neither it nor ENABLED;
and what `Planner` computes, as it is recursive.  `PoolMap`'s chains are given to the admission run by a manifest, and are
proved apart from it.

## Seen while modelling, not claimed by a run

Credit and streams
* `Credit.swift` calls every refused chunk a fault of the sender, while the
  windows of a stream's two ends may come from different links; the precondition
  of `NoViolation` is exactly what would exclude it.
* `TerminatedFlows` forgets the oldest of 1024 flows; `NothingAfterTerminal` is
  for the flows it remembers.

Switch
* A request that needs two pools can be passed over for ever by requests that
  need one each, as no slot is kept for it (`RequestState.swift:1010`).
* A dispatch resolves its destination again after waiting for a slot
  (`RelaySwitch.swift:1603`) and may go to a master other than the one whose
  slot it took.  `Dispatch` has the second resolution.
* A peer REQ that the pump handles after its parent was cancelled finds no
  parent to be linked under, and runs on (1936).
* A terminal routed to a master that has gone throws out of
  `handleMasterFrame` and through the pump (2041).
* `cancelRequest` looks for a request in the table, where it is not while its
  dispatch waits for a slot: the cancel is lost (2306).
* Stragglers are told from strangers by a bounded ring of ended requests
  (`RequestState.swift:534`).
* A request of the engine has no response channel, so nothing is delivered for
  it when its master dies (2178).
* A preferred cap decides the master only, not what runs there; and caps that
  are equivalent may differ in their closed tags.

Request loop and host
* The gates of a peer call's arguments are registered under the call's own id;
  neither the end nor a cancel of its caller closes them (`CartridgeRuntime.swift:5593`).
* `performHandshake` (6112-6115) makes its pools of the manifest's decoded
  declarations, which it does not validate.  `RuntimePools.init` (4299-4327)
  accepts a capacity under any spelling of a cap and looks it up under the
  canonical one, so that a limit spelt otherwise is silently none: `LimitsKept` is
  for validated manifests.
* A handler registered under a pattern other than the cap it advertises leaves
  that cap without a pool, and the switch refuses it (`RelaySwitch.swift:1418-1422`).
* A cartridge may be handed its own peer call (`CartridgeHost.swift:2240`);
  routing entries are bounded by a watermark (1254).
* A request answered before its body's END was handled, whose process then dies,
  is told of two ends (2635-2644, 2307-2327, 2862-2878); the switch takes the
  second for a straggler.  `Host`'s `OneTerminal` says exactly this.

Planner
* Overlapping `syncFromCapUrns` calls clear the graph at once and add in their
  callbacks, so that edges double (`CSLiveCapFab.m:147-189`).
* `findPaths` stops at its limit before it sorts (434-455): the best chain may not
  be among those it kept.  `comparePaths` (547-580) ties for two outputs of one cap.
* `pathCount` counts edges, not paths, and a source that a cycle leads back to is
  listed as reachable by the one search and has no chain by the other;
  `SearchesAgree` leaves the source out for that.

## Not modelled

* Frame encoding, CBOR and checksums, canonical text and parsing of URNs:
  conversions without state.
* File-system and network I/O: discovery of installs, input resolver, packaging; the memory statistics and logs.
* The in-process host and the relay's slave and master: a subset of what `Host`
  does without processes that die, and a loop that forwards between two sockets;
  what is hard in them is in `FlowOrder` and `RelaySwitch`.
* Of the switch: body and credit frames, direct routing by cartridge id,
  shutdown and the inventory watches.  Of the request loop: the handshake and
  the built-in handlers.  Of the host: the entries of peer calls.
* Of the planner: the ranking of chains, plan validation, argument binding and
  progress weights.  The orchestrator, prompting and command line, which convert.
* Of the registry: aliases, which are never fetched, the unversioned regime, the
  index of extensions, seeding by hand (`addMediaDef`), and what a definition holds
  beside the names in it: schemas and their validation.
* The generated C and `CapDAGFormal.swift` hold most of the repository's lines
  and little of its behaviour: boxing, reference counts, module initialisers,
  derived equality, ordering and printing, and the passage of values over the
  boundary.  The decisions in them are modelled (credit, pools, flow, request,
  tags, caps, ranking); the rest has no counterpart here, which bounds the share
  of lines that the map can name.

## Plan

1. Done: Credit and CreditFlow, Slots and Admission, PoolMap, FlowOrder, RelaySwitch,
   LifeCycle and RequestTable, RequestLoop, Host, LiveFeed, Output with Emission,
   FabricRegistry, Urn, CapUrn and Routing, each checked and with proofs; and
   Planner, checked.
2. Left: no property that the runs check and the prover reaches is without its
   theorem.  What can be widened: the planner's functions without recursion, and
   `Output` for a handler with the habits up to the first one it follows.
