-------------------------------- MODULE Host --------------------------------
(***************************************************************************)
(* The cartridge host (CartridgeHost.swift): the life of the processes     *)
(* behind its slots.                                                       *)
(*                                                                         *)
(* One thread runs the loop: relay frames, what each process's reader      *)
(* queued, heartbeat and stats ticks.  It spawns processes on demand and   *)
(* clears up after those that die.  Two kinds of other threads change the  *)
(* same slots: the discovery sync, which retires and restores installs,    *)
(* and whoever kills a process for its memory or for the operator.  A slot *)
(* outlives its processes: each is known by the generation it was given,   *)
(* and by then its frames and its death may still be queued when the slot  *)
(* runs the next one.                                                      *)
(***************************************************************************)
EXTENDS Naturals, Sequences, FiniteSets

CONSTANTS
  Slots,         \* ManagedCartridge slots
  Requests,      \* requests of the relay
  SlotOf,        \* the slot whose caps take each request
  Bodied,        \* bound: requests whose body's END does not come with the REQ
  MaxSpawns,     \* bound: processes a slot goes through
  MaxTicks,      \* bound: heartbeat ticks
  MaxSyncs,      \* bound: discovery syncs
  MaxKills,      \* bound: kills by pid
  DrainExpires   \* whether a drain may outlive retireDrainTimeout

ASSUME SlotsTyped == IsFiniteSet(Slots) /\ SlotOf \in [Requests -> Slots] /\ Bodied \subseteq Requests
ASSUME BoundsNat ==
  /\ MaxSpawns \in Nat /\ MaxTicks \in Nat /\ MaxSyncs \in Nat /\ MaxKills \in Nat
  /\ DrainExpires \in BOOLEAN

VARIABLES
  events,        \* eventQueue
  loop,          \* where the loop is in a relay REQ
  gen, running,  \* ManagedCartridge.generation and .running
  pid, writer,   \* the process each slot holds, by its generation; 0 for nil
  routable,      \* capTable
  removed, failed, retiring, reason,  \* isRemoved, helloFailed, retiringSince, shutdownReason
  probe,         \* pendingHeartbeats: the oldest probe unanswered
  policy,        \* the host has been given its policy
  entry,         \* incomingRxids, incomingBodyDone, incomingResponseDone
  alive,         \* processes alive, each a slot and a generation
  readers,       \* processes whose reader thread has not ended
  work,          \* what each process was handed and has not answered
  probed,        \* processes that have yet to answer a probe
  killer,        \* a killer between choosing its process and striking
  ticks, syncs, kills,
  asked, body,   \* relay requests sent, and those whose body has been
  served,        \* history: the process each request was written to
  informed,      \* history: processes given the policy
  told           \* history: terminals each request's caller was sent

slots == <<gen, running, pid, writer, routable, removed, failed, retiring, reason, probe>>
processes == <<alive, readers, work, probed>>
bounds == <<ticks, syncs, kills>>
relay == <<asked, body>>
vars == <<events, loop, slots, policy, entry, processes, killer, bounds, relay, served,
          informed, told>>

Processes == Slots \X (1..(2 * MaxSpawns))

Idle == [at |-> "idle"]
At(step, r) == [at |-> step, of |-> r]
Calm == [stage |-> "none"]

Holds(c) == <<c, pid[c]>>
Routed(r) == entry[r] # "none"
Entries(c) == {r \in Requests : Routed(r) /\ SlotOf[r] = c}

Init ==
  /\ events = <<>> /\ loop = Idle
  /\ gen = [c \in Slots |-> 0]
  /\ running = [c \in Slots |-> FALSE]
  /\ pid = [c \in Slots |-> 0] /\ writer = [c \in Slots |-> 0]
  /\ routable = [c \in Slots |-> TRUE]
  /\ removed = [c \in Slots |-> FALSE] /\ failed = [c \in Slots |-> FALSE]
  /\ retiring = [c \in Slots |-> FALSE] /\ reason = [c \in Slots |-> "none"]
  /\ probe = [c \in Slots |-> "none"]
  /\ policy = FALSE
  /\ entry = [r \in Requests |-> "none"]
  /\ alive = {} /\ readers = {} /\ work = {} /\ probed = {}
  /\ killer = Calm
  /\ ticks = 0 /\ syncs = 0 /\ kills = 0
  /\ asked = {} /\ body = {}
  /\ served = [r \in Requests |-> <<>>]
  /\ informed = {}
  /\ told = [r \in Requests |-> 0]

Tell(rs) == told' = [r \in Requests |-> IF r \in rs THEN told[r] + 1 ELSE told[r]]

Send(e) == events' = Append(events, e)

-----------------------------------------------------------------------------
(* The relay.                                                              *)

SendReq(r) ==
  /\ r \notin asked
  /\ asked' = asked \cup {r}
  /\ Send([kind |-> "req", of |-> r])
  /\ UNCHANGED <<body, loop, slots, policy, entry, processes, killer, bounds, served, informed, told>>

\* The body's END, after its REQ.
SendBody(r) ==
  /\ r \in (asked \cap Bodied) \ body
  /\ body' = body \cup {r}
  /\ Send([kind |-> "body", of |-> r])
  /\ UNCHANGED <<asked, loop, slots, policy, entry, processes, killer, bounds, served, informed,
                 told>>

SendForceCancel(r) ==
  /\ r \in asked /\ kills < MaxKills
  /\ kills' = kills + 1
  /\ Send([kind |-> "cancel", of |-> r])
  /\ UNCHANGED <<loop, slots, policy, entry, processes, killer, ticks, syncs, relay, served,
                 informed, told>>

\* The policy goes to every process the host has a writer to.
SetPolicy ==
  /\ policy' = TRUE
  /\ informed' = informed \cup {<<c, writer[c]>> : c \in {d \in Slots : writer[d] # 0}}
  /\ UNCHANGED <<events, loop, slots, entry, processes, killer, bounds, relay, served, told>>

-----------------------------------------------------------------------------
(* The processes, and the readers that queue what they write.              *)

Answer(p, r) ==
  /\ p \in alive /\ <<p, r>> \in work
  /\ work' = work \ {<<p, r>>}
  /\ Send([kind |-> "end", from |-> p, of |-> r])
  /\ UNCHANGED <<loop, slots, policy, entry, alive, readers, probed, killer, bounds, relay,
                 served, informed, told>>

AnswerProbe(p) ==
  /\ p \in alive /\ p \in probed
  /\ probed' = probed \ {p}
  /\ Send([kind |-> "beat", from |-> p])
  /\ UNCHANGED <<loop, slots, policy, entry, alive, readers, work, killer, bounds, relay,
                 served, informed, told>>

Crash(p) ==
  /\ p \in alive
  /\ alive' = alive \ {p}
  /\ UNCHANGED <<events, loop, slots, policy, entry, readers, work, probed, killer, bounds,
                 relay, served, informed, told>>

\* Mutated: the reader ends without a word.
ReadEofSilently(p) ==
  /\ p \in readers /\ p \notin alive
  /\ readers' = readers \ {p}
  /\ UNCHANGED <<events, loop, slots, policy, entry, alive, work, probed, killer, bounds, relay,
                 served, informed, told>>

\* A reader sees the end of its process's output once.
ReadEof(p) ==
  /\ p \in readers /\ p \notin alive
  /\ readers' = readers \ {p}
  /\ Send([kind |-> "death", from |-> p])
  /\ UNCHANGED <<loop, slots, policy, entry, alive, work, probed, killer, bounds, relay,
                 served, informed, told>>

\* HEARTBEAT_TIMEOUT passes over an unanswered probe.
Overdue(c) ==
  /\ probe[c] = "sent"
  /\ probe' = [probe EXCEPT ![c] = "late"]
  /\ UNCHANGED <<events, loop, gen, running, pid, writer, routable, removed, failed, retiring,
                 reason, policy, entry, processes, killer, bounds, relay, served, informed, told>>

Tick(c) ==
  /\ ticks < MaxTicks
  /\ ticks' = ticks + 1
  /\ Send([kind |-> "tick", of |-> c])
  /\ UNCHANGED <<loop, slots, policy, entry, processes, killer, syncs, kills, relay, served,
                 informed, told>>

-----------------------------------------------------------------------------
(* The loop: a relay REQ, in the steps other threads come between.         *)

Event == Head(events)

Taking(kind) ==
  /\ loop = Idle /\ events # <<>> /\ Event.kind = kind
  /\ events' = Tail(events)

\* Nothing is routed without a policy, or to a slot whose caps are not in the
\* table.
HandleReq ==
  /\ Taking("req")
  /\ LET r == Event.of IN
     IF policy /\ routable[SlotOf[r]]
     THEN /\ loop' = At(IF running[SlotOf[r]] THEN "record" ELSE "spawn", r)
          /\ UNCHANGED told
     ELSE UNCHANGED loop /\ Tell({r})
  /\ UNCHANGED <<slots, policy, entry, processes, killer, bounds, relay, served, informed>>

\* The handshake runs without the lock; this is its end.
SpawnFails ==
  /\ loop.at = "spawn"
  /\ LET c == SlotOf[loop.of] IN
     /\ failed' = [failed EXCEPT ![c] = TRUE]
     /\ routable' = [routable EXCEPT ![c] = FALSE]
  /\ Tell({loop.of}) /\ loop' = Idle
  /\ UNCHANGED <<events, gen, running, pid, writer, removed, retiring, reason, probe, policy,
                 entry, processes, killer, bounds, relay, served, informed>>

\* Mutated: no reader is started on the new process.
SpawnUnread ==
  /\ loop.at = "spawn"
  /\ LET c == SlotOf[loop.of]
         p == <<c, gen[c] + 1>>
     IN /\ gen[c] < 2 * MaxSpawns - 1
        /\ gen' = [gen EXCEPT ![c] = p[2]]
        /\ running' = [running EXCEPT ![c] = TRUE]
        /\ pid' = [pid EXCEPT ![c] = p[2]] /\ writer' = [writer EXCEPT ![c] = p[2]]
        /\ routable' = [routable EXCEPT ![c] = TRUE]
        /\ alive' = alive \cup {p}
        /\ informed' = IF policy THEN informed \cup {p} ELSE informed
  /\ loop' = At("record", loop.of)
  /\ UNCHANGED <<events, removed, failed, retiring, reason, probe, policy, entry, readers, work,
                 probed, killer, bounds, relay, served, told>>

\* Mutated: the new process is not given the policy.
SpawnUninformed ==
  /\ loop.at = "spawn"
  /\ LET c == SlotOf[loop.of]
         p == <<c, gen[c] + 1>>
     IN /\ gen[c] < 2 * MaxSpawns - 1
        /\ gen' = [gen EXCEPT ![c] = p[2]]
        /\ running' = [running EXCEPT ![c] = TRUE]
        /\ pid' = [pid EXCEPT ![c] = p[2]] /\ writer' = [writer EXCEPT ![c] = p[2]]
        /\ routable' = [routable EXCEPT ![c] = TRUE]
        /\ alive' = alive \cup {p} /\ readers' = readers \cup {p}
  /\ loop' = At("record", loop.of)
  /\ UNCHANGED <<events, removed, failed, retiring, reason, probe, policy, entry, work, probed,
                 killer, bounds, relay, served, informed, told>>

Spawn ==
  /\ loop.at = "spawn"
  /\ LET c == SlotOf[loop.of]
         p == <<c, gen[c] + 1>>
     IN /\ gen[c] < 2 * MaxSpawns - 1
        /\ gen' = [gen EXCEPT ![c] = p[2]]
        /\ running' = [running EXCEPT ![c] = TRUE]
        /\ pid' = [pid EXCEPT ![c] = p[2]] /\ writer' = [writer EXCEPT ![c] = p[2]]
        /\ routable' = [routable EXCEPT ![c] = TRUE]
        /\ alive' = alive \cup {p} /\ readers' = readers \cup {p}
        /\ informed' = IF policy THEN informed \cup {p} ELSE informed
  /\ loop' = At("record", loop.of)
  /\ UNCHANGED <<events, removed, failed, retiring, reason, probe, policy, entry, work, probed,
                 killer, bounds, relay, served, told>>

Record ==
  /\ loop.at = "record"
  /\ entry' = [entry EXCEPT ![loop.of] = IF loop.of \in Bodied THEN "open" ELSE "read"]
  /\ loop' = At("write", loop.of)
  /\ UNCHANGED <<events, slots, policy, processes, killer, bounds, relay, served, informed, told>>

\* A write to a process that is gone, or to a slot without one, ends the
\* request here.
Write ==
  /\ loop.at = "write"
  /\ LET r == loop.of
         p == <<SlotOf[r], writer[SlotOf[r]]>>
     IN IF p \in alive
        THEN /\ work' = work \cup {<<p, r>>}
             /\ served' = [served EXCEPT ![r] = p]
             /\ UNCHANGED <<entry, told>>
        ELSE /\ Tell({r})
             /\ entry' = [entry EXCEPT ![r] = "none"]
             /\ UNCHANGED <<work, served>>
  /\ loop' = Idle
  /\ UNCHANGED <<events, slots, policy, alive, readers, probed, killer, bounds, relay, informed>>

\* The body's END goes to the process the slot has.  It releases the entry of a
\* request already answered, and ends one that has no process to read it.
HandleBody ==
  /\ Taking("body")
  /\ LET r == Event.of
         p == <<SlotOf[r], writer[SlotOf[r]]>>
     IN \/ /\ Routed(r) /\ p \in alive
           /\ entry' = [entry EXCEPT ![r] = IF @ = "answered" THEN "none" ELSE "read"]
           /\ UNCHANGED told
        \/ /\ Routed(r) /\ p \notin alive
           /\ entry' = [entry EXCEPT ![r] = "none"]
           /\ Tell({r})
        \/ /\ ~Routed(r)
           /\ UNCHANGED <<entry, told>>
  /\ UNCHANGED <<loop, slots, policy, processes, killer, bounds, relay, served, informed>>

\* The process dies at once; its death event ends what it was serving.
HandleForceCancel ==
  /\ Taking("cancel")
  /\ LET c == SlotOf[Event.of] IN
     IF Routed(Event.of)
     THEN /\ reason' = [reason EXCEPT ![c] = "cancelled"]
          /\ alive' = alive \ {Holds(c)}
     ELSE UNCHANGED <<reason, alive>>
  /\ UNCHANGED <<loop, gen, running, pid, writer, routable, removed, failed, retiring, probe,
                 policy, entry, readers, work, probed, killer, bounds, relay, served, informed,
                 told>>

-----------------------------------------------------------------------------
(* The loop: what the readers and the clocks queue.                        *)

Current(p) == gen[p[1]] = p[2]

\* A routing entry goes with the second of its body's END and its response's.
Answered(r) ==
  entry' = [entry EXCEPT ![r] = CASE @ = "read" -> "none" [] @ = "open" -> "answered" [] OTHER -> @]

\* Mutated: a frame is relayed whatever process it came from.
HandleEndOfAny ==
  /\ Taking("end")
  /\ Answered(Event.of)
  /\ Tell({Event.of})
  /\ UNCHANGED <<loop, slots, policy, processes, killer, bounds, relay, served, informed>>

\* The frame of a process that is no longer the slot's goes no further.
HandleEnd ==
  /\ Taking("end")
  /\ IF Current(Event.from)
     THEN Answered(Event.of) /\ Tell({Event.of})
     ELSE UNCHANGED <<entry, told>>
  /\ UNCHANGED <<loop, slots, policy, processes, killer, bounds, relay, served, informed>>

HandleBeat ==
  /\ Taking("beat")
  /\ probe' = IF Current(Event.from) THEN [probe EXCEPT ![Event.from[1]] = "none"] ELSE probe
  /\ UNCHANGED <<loop, gen, running, pid, writer, routable, removed, failed, retiring, reason,
                 policy, entry, processes, killer, bounds, relay, served, informed, told>>

TornDown(c) == ~running[c] /\ pid[c] = 0 /\ writer[c] = 0

\* Mutated: the requests are dropped without an ERR.
TearDownQuietly(c) ==
  /\ gen' = [gen EXCEPT ![c] = @ + 1]
  /\ running' = [running EXCEPT ![c] = FALSE]
  /\ pid' = [pid EXCEPT ![c] = 0] /\ writer' = [writer EXCEPT ![c] = 0]
  /\ reason' = [reason EXCEPT ![c] = "none"]
  /\ probe' = [probe EXCEPT ![c] = "none"]
  /\ routable' = [routable EXCEPT ![c] = ~removed[c] /\ ~failed[c]]
  /\ alive' = alive \ {Holds(c)}
  /\ entry' = [r \in Requests |-> IF SlotOf[r] = c THEN "none" ELSE entry[r]]
  /\ UNCHANGED <<removed, failed, retiring, told>>

\* handleCartridgeDeath, past its guards: the slot is freed under a new
\* generation, its process killed if it still runs, and everything it was
\* serving is failed.
TearDown(c) ==
  /\ gen' = [gen EXCEPT ![c] = @ + 1]
  /\ running' = [running EXCEPT ![c] = FALSE]
  /\ pid' = [pid EXCEPT ![c] = 0] /\ writer' = [writer EXCEPT ![c] = 0]
  /\ reason' = [reason EXCEPT ![c] = "none"]
  /\ probe' = [probe EXCEPT ![c] = "none"]
  /\ routable' = [routable EXCEPT ![c] = ~removed[c] /\ ~failed[c]]
  /\ alive' = alive \ {Holds(c)}
  /\ entry' = [r \in Requests |-> IF SlotOf[r] = c THEN "none" ELSE entry[r]]
  /\ Tell(Entries(c))
  /\ UNCHANGED <<removed, failed, retiring>>

\* Mutated: a death is taken for the slot's whatever process it was of.
HandleDeathOfAny ==
  /\ Taking("death")
  /\ LET p == Event.from IN
     IF ~TornDown(p[1]) THEN TearDown(p[1]) ELSE UNCHANGED <<slots, alive, entry, told>>
  /\ UNCHANGED <<loop, policy, readers, work, probed, killer, bounds, relay, served, informed>>

HandleDeath ==
  /\ Taking("death")
  /\ LET p == Event.from IN
     IF Current(p) /\ ~TornDown(p[1])
     THEN TearDown(p[1])
     ELSE UNCHANGED <<slots, alive, entry, told>>
  /\ UNCHANGED <<loop, policy, readers, work, probed, killer, bounds, relay, served, informed>>

\* An overdue process is torn down; a running one is sent the next probe, and
\* torn down if that cannot be written.
HandleTick ==
  /\ Taking("tick")
  /\ LET c == Event.of
         p == <<c, writer[c]>>
     IN \/ /\ running[c] /\ (probe[c] = "late" \/ p \notin alive)
           /\ TearDown(c)
           /\ UNCHANGED probed
        \/ /\ running[c] /\ probe[c] # "late" /\ p \in alive
           /\ probe' = [probe EXCEPT ![c] = "sent"]
           /\ probed' = probed \cup {p}
           /\ UNCHANGED <<gen, running, pid, writer, routable, removed, failed, retiring,
                          reason, alive, entry, told>>
        \/ /\ ~running[c]
           /\ UNCHANGED <<slots, alive, entry, probed, told>>
  /\ UNCHANGED <<loop, policy, readers, work, killer, bounds, relay, served, informed>>

-----------------------------------------------------------------------------
(* The discovery sync, on a thread of its own, and the reaping of drained  *)
(* slots on the loop's stats tick.                                         *)

\* retireKill: the generation stays.
RetireKill(cs) ==
  /\ alive' = alive \ {Holds(c) : c \in cs}
  /\ running' = [c \in Slots |-> running[c] /\ c \notin cs]
  /\ pid' = [c \in Slots |-> IF c \in cs THEN 0 ELSE pid[c]]
  /\ writer' = [c \in Slots |-> IF c \in cs THEN 0 ELSE writer[c]]
  /\ probe' = [c \in Slots |-> IF c \in cs THEN "none" ELSE probe[c]]
  /\ UNCHANGED gen

Drained(c) == Entries(c) = {}

\* A slot found is restored, its drain forgotten; one that is missing stops
\* being routed to, and its process is killed at once if it serves nothing.  A
\* sync that changes nothing is not counted.
Sync(found) ==
  LET gone == Slots \ found
      killed == {c \in gone : running[c] /\ Drained(c)}
  IN
  /\ syncs < MaxSyncs /\ syncs' = syncs + 1
  /\ removed' = [c \in Slots |-> c \in gone]
  /\ failed' = [c \in Slots |-> FALSE]
  /\ routable' = [c \in Slots |-> c \in found]
  /\ retiring' = [c \in Slots |-> \/ c \in gone /\ running[c] /\ c \notin killed
                                  \/ c \in gone /\ ~running[c] /\ retiring[c]]
  /\ reason' = [c \in Slots |-> IF c \in killed THEN "retired"
                                ELSE IF c \in found /\ reason[c] = "retired" THEN "none"
                                ELSE reason[c]]
  /\ RetireKill(killed)
  /\ <<removed, failed, routable, retiring, reason, running>>' #
       <<removed, failed, routable, retiring, reason, running>>
  /\ UNCHANGED <<events, loop, policy, entry, readers, work, probed, killer, ticks, kills,
                 relay, served, informed, told>>

\* Mutated: a drain is not waited for.
ReapAtOnce ==
  /\ loop = Idle /\ \E c \in Slots : retiring[c]
  /\ LET reaped == {c \in Slots : retiring[c] /\ running[c]} IN
     /\ retiring' = [c \in Slots |-> retiring[c] /\ running[c] /\ c \notin reaped]
     /\ reason' = [c \in Slots |-> IF c \in reaped THEN "retired" ELSE reason[c]]
     /\ RetireKill(reaped)
  /\ UNCHANGED <<events, loop, routable, removed, failed, policy, entry, readers, work, probed,
                 killer, bounds, relay, served, informed, told>>

Reap ==
  /\ loop = Idle /\ \E c \in Slots : retiring[c] /\ (~running[c] \/ Drained(c) \/ DrainExpires)
  /\ LET reaped == {c \in Slots : retiring[c] /\ running[c] /\ (Drained(c) \/ DrainExpires)} IN
     /\ retiring' = [c \in Slots |-> retiring[c] /\ running[c] /\ c \notin reaped]
     /\ reason' = [c \in Slots |-> IF c \in reaped THEN "retired" ELSE reason[c]]
     /\ RetireKill(reaped)
  /\ UNCHANGED <<events, loop, routable, removed, failed, policy, entry, readers, work, probed,
                 killer, bounds, relay, served, informed, told>>

-----------------------------------------------------------------------------
(* killCartridge, killCartridgesAtCartridgeDir: the slot is chosen under   *)
(* the lock, and the process it has is killed after it is released.        *)

Choose(c) ==
  /\ killer = Calm /\ kills < MaxKills /\ running[c] /\ pid[c] # 0
  /\ kills' = kills + 1
  /\ killer' = [stage |-> "chosen", process |-> Holds(c)]
  /\ reason' = [reason EXCEPT ![c] = "killed"]
  /\ UNCHANGED <<events, loop, gen, running, pid, writer, routable, removed, failed, retiring,
                 probe, policy, entry, processes, ticks, syncs, relay, served, informed, told>>

Strike ==
  /\ killer.stage = "chosen"
  /\ LET c == killer.process[1] IN
     /\ alive' = alive \ {Holds(c)}
     /\ pid' = [pid EXCEPT ![c] = 0]
  /\ killer' = Calm
  /\ UNCHANGED <<events, loop, gen, running, writer, routable, removed, failed, retiring, reason,
                 probe, policy, entry, readers, work, probed, bounds, relay, served, informed,
                 told>>

-----------------------------------------------------------------------------
Loop ==
  \/ HandleReq \/ SpawnFails \/ Spawn \/ Record \/ Write \/ HandleBody \/ HandleForceCancel
  \/ HandleEnd \/ HandleBeat \/ HandleDeath \/ HandleTick

Next ==
  \/ Loop \/ Reap \/ Strike \/ SetPolicy
  \/ \E r \in Requests : SendReq(r) \/ SendBody(r) \/ SendForceCancel(r)
  \/ \E p \in Processes : \/ AnswerProbe(p) \/ Crash(p) \/ ReadEof(p)
                          \/ \E r \in Requests : Answer(p, r)
  \/ \E c \in Slots : Overdue(c) \/ Tick(c) \/ Choose(c)
  \/ \E found \in SUBSET Slots : Sync(found)

Spec == Init /\ [][Next]_vars

\* Threads run, and a process that stays alive answers what it was handed.
Fairness ==
  /\ WF_vars(Loop)
  /\ \A p \in Processes : /\ WF_vars(ReadEof(p))
                          /\ \A r \in Requests : WF_vars(Answer(p, r))

FairSpec == Spec /\ Fairness

-----------------------------------------------------------------------------
Generations == 0..(2 * MaxSpawns)

TypeOK ==
  /\ loop.at \in {"idle", "spawn", "record", "write"}
  /\ gen \in [Slots -> Generations] /\ running \in [Slots -> BOOLEAN]
  /\ pid \in [Slots -> Generations] /\ writer \in [Slots -> Generations]
  /\ routable \in [Slots -> BOOLEAN] /\ removed \in [Slots -> BOOLEAN]
  /\ failed \in [Slots -> BOOLEAN] /\ retiring \in [Slots -> BOOLEAN]
  /\ reason \in [Slots -> {"none", "cancelled", "killed", "retired"}]
  /\ probe \in [Slots -> {"none", "sent", "late"}]
  /\ policy \in BOOLEAN
  /\ entry \in [Requests -> {"none", "open", "read", "answered"}]
  /\ alive \subseteq Processes /\ readers \subseteq Processes /\ alive \subseteq readers
  /\ work \subseteq Processes \X Requests
  /\ probed \subseteq Processes /\ informed \subseteq Processes
  /\ killer.stage \in {"none", "chosen"}
  /\ ticks \in 0..MaxTicks /\ syncs \in 0..MaxSyncs /\ kills \in 0..MaxKills
  /\ body \subseteq asked /\ asked \subseteq Requests
  /\ told \in [Requests -> Nat]

\* A relay request is told of one end, whichever of its response, the death of
\* its process, a failed write and a refusal come first.  One that was answered
\* before its body's END was handled is told of a second only by the process
\* that answered: its death, or its response if the body found it dead.
OneTerminal ==
  [][\A r \in Requests : told[r] > 0 /\ told'[r] > told[r] =>
       \/ entry[r] = "answered"
       \/ Event.kind = "end" /\ Event.from = served[r] /\ Current(Event.from)]_vars

\* Nothing is written to a process before the host's policy: "Sent to each
\* cartridge before anything is routed to it".
PolicyFirst == \A p \in Processes, r \in Requests : <<p, r>> \in work => p \in informed

\* A request fails for a reason of its own process: that process is gone, or its
\* probe is overdue.  The death of a predecessor, handled late, is no reason.
NoInnocentFails ==
  [][\A r \in Requests :
       told'[r] > told[r] /\ served[r] \in alive =>
         probe[SlotOf[r]] = "late" \/ Event = [kind |-> "end", from |-> served[r], of |-> r]]_vars

\* "Retirement means 'stop giving this install NEW work', not 'destroy the work
\* it is doing'": no process is retired with a request in hand.
RetireSparesWork ==
  [][\A p \in alive :
       p \notin alive' /\ writer[p[1]] = p[2] /\ writer'[p[1]] = 0 /\ gen'[p[1]] = gen[p[1]] =>
         \A r \in Requests : <<p, r>> \notin work]_vars

\* "Clearing capGroups and setting isRemoved does that immediately": a retired
\* slot takes no new work.
RetiredNotRouted == \A c \in Slots : removed[c] => ~routable[c]

\* "Kill a specific cartridge process by PID": it is the one chosen that dies.
KillsTheChosen ==
  [][killer.stage = "chosen" /\ killer'.stage = "none" => alive \ alive' \subseteq {killer.process}]_vars

\* Every relay request is answered, whatever becomes of the processes.
EveryRequestAnswered == \A r \in Requests : r \in asked ~> told[r] > 0

=============================================================================
