----------------------------- MODULE HostProofs -----------------------------
(***************************************************************************)
(* What TLAPS proves of the cartridge host, for any slots and requests and *)
(* any bounds.                                                             *)
(*                                                                         *)
(* The invariant joins four views of the host.  A slot runs at most one    *)
(* process, of its generation; a process alive is the one its slot holds,  *)
(* and one whose end was read is not alive; a REQ is queued once; and a    *)
(* request's entry, its history and the answers queued for it are those of *)
(* the one process it was written to.  Each of the properties is read off  *)
(* from the last two: who was told, and of what process.                   *)
(***************************************************************************)
EXTENDS Host, TLAPS

-----------------------------------------------------------------------------
(* The event queue.                                                        *)

Messages == [kind : {"req", "body", "cancel"}, of : Requests]
Ends == [kind : {"end"}, from : Processes, of : Requests]
Signs == [kind : {"beat", "death"}, from : Processes]
Ticks == [kind : {"tick"}, of : Slots]

Events == Messages \cup Ends \cup Signs \cup Ticks

ReqOf(r) == [kind |-> "req", of |-> r]
EndOf(p, r) == [kind |-> "end", from |-> p, of |-> r]
DeathOf(p) == [kind |-> "death", from |-> p]

InQueue(e) == \E i \in DOMAIN events : events[i] = e

\* A request's REQ is in the queue once.
OneReq == \A i, j \in DOMAIN events : events[i].kind = "req" /\ events[i] = events[j] => i = j

\* The sequence one longer.
LEMMA AppendOne ==
  ASSUME NEW S, NEW s \in Seq(S), NEW e \in S
  PROVE  /\ Append(s, e) \in Seq(S)
         /\ DOMAIN Append(s, e) = (DOMAIN s) \cup {Len(s) + 1} /\ Len(s) + 1 \notin DOMAIN s
         /\ \A i \in DOMAIN s : Append(s, e)[i] = s[i]
         /\ Append(s, e)[Len(s) + 1] = e
OBVIOUS

\* The sequence without its head.
LEMMA TailShifts ==
  ASSUME NEW S, NEW s \in Seq(S), s # <<>>
  PROVE  /\ Tail(s) \in Seq(S) /\ Head(s) = s[1] /\ 1 \in DOMAIN s /\ Head(s) \in S
         /\ \A i \in DOMAIN Tail(s) : i \in Nat /\ i # 0 /\ i + 1 \in DOMAIN s /\ Tail(s)[i] = s[i + 1]
OBVIOUS

\* Sending queues the event sent and no other.
LEMMA Sent ==
  ASSUME events \in Seq(Events), NEW e \in Events, Send(e)
  PROVE  /\ events' \in Seq(Events)
         /\ \A x : InQueue(x)' <=> InQueue(x) \/ x = e
         /\ OneReq /\ (e.kind = "req" => ~InQueue(e)) => OneReq'
<1>1. /\ events' \in Seq(Events)
      /\ DOMAIN events' = (DOMAIN events) \cup {Len(events) + 1}
      /\ Len(events) + 1 \notin DOMAIN events
      /\ \A i \in DOMAIN events : events'[i] = events[i]
      /\ events'[Len(events) + 1] = e
  BY AppendOne DEF Send
<1>2. \A x : InQueue(x)' <=> InQueue(x) \/ x = e
  BY <1>1 DEF InQueue
<1>3. OneReq /\ (e.kind = "req" => ~InQueue(e)) => OneReq'
  BY <1>1 DEF OneReq, InQueue
<1> QED
  BY <1>1, <1>2, <1>3

\* Taking unqueues the head: for good, when it is a REQ.
LEMMA Taken ==
  ASSUME events \in Seq(Events), NEW kind, Taking(kind)
  PROVE  /\ events' \in Seq(Events) /\ Event \in Events /\ Event.kind = kind /\ loop = Idle
         /\ \A x : InQueue(x)' => InQueue(x)
         /\ OneReq => OneReq'
         /\ \A e : e = Event => InQueue(e) /\ (OneReq /\ kind = "req" => ~InQueue(e)')
<1>1. /\ events # <<>> /\ events' = Tail(events) /\ Event.kind = kind /\ loop = Idle
      /\ Event = Head(events)
  BY DEF Taking, Event
<1>2. /\ events' \in Seq(Events) /\ Event = events[1] /\ 1 \in DOMAIN events /\ Event \in Events
      /\ \A i \in DOMAIN events' :
           i \in Nat /\ i # 0 /\ i + 1 \in DOMAIN events /\ events'[i] = events[i + 1]
  BY <1>1, TailShifts
<1>3. \A x : InQueue(x)' => InQueue(x)
  BY <1>2 DEF InQueue
<1>4. InQueue(Event)
  BY <1>2 DEF InQueue
<1>5. ASSUME OneReq PROVE OneReq'
  <2>1. \A i, j \in DOMAIN events' : i + 1 = j + 1 => i = j
    BY <1>2
  <2> QED
    BY <1>2, <1>5, <2>1 DEF OneReq
<1>6. ASSUME OneReq, kind = "req", NEW i \in DOMAIN events', events'[i] = Event PROVE FALSE
  <2>1. i + 1 # 1
    BY <1>2, <1>6
  <2> QED
    BY <1>1, <1>2, <1>6, <2>1 DEF OneReq
<1>7. OneReq /\ kind = "req" => ~\E i \in DOMAIN events' : events'[i] = Event
  BY <1>6
<1>8. \A e : e = Event /\ OneReq /\ kind = "req" => ~InQueue(e)'
  BY <1>7 DEF InQueue
<1> QED
  BY <1>1, <1>2, <1>3, <1>4, <1>5, <1>8

-----------------------------------------------------------------------------
(* Types.                                                                  *)

Steps == [at : {"spawn", "record", "write"}, of : Requests]
Chosen == [stage : {"chosen"}, process : Processes]
Reasons == {"none", "cancelled", "killed", "retired"}
Stages == {"none", "open", "read", "answered"}

LoopTypes ==
  /\ events \in Seq(Events)
  /\ loop \in {Idle} \cup Steps
  /\ policy \in BOOLEAN
  /\ killer \in {Calm} \cup Chosen
  /\ ticks \in 0..MaxTicks /\ syncs \in 0..MaxSyncs /\ kills \in 0..MaxKills

NumberTypes == gen \in [Slots -> Nat] /\ pid \in [Slots -> Nat] /\ writer \in [Slots -> Nat]

FlagTypes ==
  /\ running \in [Slots -> BOOLEAN] /\ routable \in [Slots -> BOOLEAN]
  /\ removed \in [Slots -> BOOLEAN] /\ failed \in [Slots -> BOOLEAN]
  /\ retiring \in [Slots -> BOOLEAN]
  /\ reason \in [Slots -> Reasons] /\ probe \in [Slots -> {"none", "sent", "late"}]

RequestTypes ==
  /\ entry \in [Requests -> Stages]
  /\ asked \subseteq Requests /\ body \subseteq asked
  /\ told \in [Requests -> Nat]
  /\ served \in [Requests -> Processes \cup {<<>>}]

ProcessTypes ==
  /\ alive \subseteq Processes /\ readers \subseteq Processes /\ probed \subseteq Processes
  /\ work \subseteq Processes \X Requests

Typed == LoopTypes /\ NumberTypes /\ FlagTypes /\ RequestTypes /\ ProcessTypes

\* The initial states have the types.
LEMMA InitTyped == Init => Typed
<1> SUFFICES ASSUME Init PROVE Typed
  OBVIOUS
<1>1. LoopTypes
  <2>1. ticks \in 0..MaxTicks /\ syncs \in 0..MaxSyncs /\ kills \in 0..MaxKills
    BY BoundsNat DEF Init
  <2>2. policy \in BOOLEAN
    BY DEF Init
  <2>3. events \in Seq(Events)
    BY DEF Init
  <2> QED
    BY <2>1, <2>2, <2>3 DEF Init, LoopTypes
<1>2. NumberTypes /\ FlagTypes
  BY DEF Init, NumberTypes, FlagTypes, Reasons
<1>3. RequestTypes /\ ProcessTypes
  BY DEF Init, RequestTypes, ProcessTypes, Stages
<1> QED
  BY <1>1, <1>2, <1>3 DEF Typed

\* A request that was not written has no process.
LEMMA NothingIsNoProcess == <<>> \notin Processes
BY DEF Processes

\* What an event at the head of the queue is of.
LEMMA EventOf ==
  ASSUME Typed, NEW kind, Taking(kind)
  PROVE  /\ loop = Idle /\ Event.kind = kind
         /\ kind \in {"req", "body", "cancel"} => Event.of \in Requests
         /\ kind = "req" => Event = ReqOf(Event.of)
         /\ kind = "end" => /\ Event.from \in Processes /\ Event.of \in Requests
                            /\ Event = EndOf(Event.from, Event.of)
         /\ kind \in {"beat", "death"} => Event.from \in Processes
         /\ kind = "death" => Event = DeathOf(Event.from)
         /\ kind = "tick" => Event.of \in Slots
<1>1. Event \in Events /\ Event.kind = kind /\ loop = Idle
  BY Taken DEF Typed, LoopTypes
<1> QED
  BY <1>1 DEF Events, Messages, Ends, Signs, Ticks, ReqOf, EndOf, DeathOf

\* The request in the loop's hands, and its slot.
LEMMA InTheLoop ==
  ASSUME Typed, loop # Idle
  PROVE  loop.of \in Requests /\ SlotOf[loop.of] \in Slots
BY SlotsTyped DEF Typed, LoopTypes, Steps

-----------------------------------------------------------------------------
(* A slot that runs has one process, of its generation; one that does not  *)
(* holds none.                                                             *)

SlotSound(c) ==
  /\ IF running[c]
     THEN writer[c] = gen[c] /\ pid[c] \in {0, gen[c]} /\ gen[c] \in 1..(2 * MaxSpawns - 1)
     ELSE writer[c] = 0 /\ pid[c] = 0 /\ gen[c] \in Generations
  /\ policy /\ running[c] => <<c, gen[c]>> \in informed
  /\ loop # Idle /\ loop.at = "spawn" /\ SlotOf[loop.of] = c => ~running[c]

Slotted == informed \subseteq Processes /\ \A c \in Slots : SlotSound(c)

\* What a slot holds is a process of its generation.
LEMMA HeldProcess ==
  ASSUME Typed, Slotted, NEW c \in Slots
  PROVE  /\ pid[c] # 0 => Holds(c) \in Processes /\ running[c] /\ pid[c] = gen[c]
         /\ writer[c] # 0 => <<c, writer[c]>> \in Processes /\ running[c] /\ writer[c] = gen[c]
         /\ TornDown(c) <=> ~running[c]
<1>1. SlotSound(c)
  BY DEF Slotted
<1>2. \A n \in 1..(2 * MaxSpawns - 1) : <<c, n>> \in Processes
  BY BoundsNat DEF Processes
<1> QED
  BY <1>1, <1>2 DEF SlotSound, Holds, TornDown

\* The loop's state, the counters and the killer keep their types.
LEMMA LoopStep ==
  ASSUME Typed, Slotted, [Next]_vars
  PROVE  LoopTypes'
<1> USE BoundsNat DEF Typed, LoopTypes
<1>1. CASE UNCHANGED vars
  BY <1>1 DEF vars, bounds
<1>2. ASSUME NEW e \in Events, Send(e), UNCHANGED <<loop, policy, killer>>,
             ticks' \in 0..MaxTicks, kills' \in 0..MaxKills, syncs' = syncs
      PROVE  LoopTypes'
  BY <1>2, Sent
<1>3. ASSUME NEW r \in Requests, SendReq(r) \/ SendBody(r) \/ SendForceCancel(r) PROVE LoopTypes'
  <2>1. PICK k \in {"req", "body", "cancel"} : Send([kind |-> k, of |-> r])
    BY <1>3 DEF SendReq, SendBody, SendForceCancel
  <2>2. [kind |-> k, of |-> r] \in Events
    BY DEF Events, Messages
  <2> QED
    BY <1>2, <1>3, <2>1, <2>2 DEF SendReq, SendBody, SendForceCancel, bounds
<1>4. ASSUME NEW p \in Processes, NEW r \in Requests, Answer(p, r) PROVE LoopTypes'
  <2>1. EndOf(p, r) \in Events /\ Send(EndOf(p, r))
    BY <1>4 DEF Answer, EndOf, Events, Ends
  <2> QED
    BY <1>2, <1>4, <2>1 DEF Answer, bounds
<1>5. ASSUME NEW p \in Processes, AnswerProbe(p) \/ ReadEof(p) PROVE LoopTypes'
  <2>1. PICK k \in {"beat", "death"} : Send([kind |-> k, from |-> p])
    BY <1>5 DEF AnswerProbe, ReadEof
  <2>2. [kind |-> k, from |-> p] \in Events
    BY DEF Events, Signs
  <2> QED
    BY <1>2, <1>5, <2>1, <2>2 DEF AnswerProbe, ReadEof, bounds
<1>6. ASSUME NEW c \in Slots, Tick(c) PROVE LoopTypes'
  <2>1. Send([kind |-> "tick", of |-> c]) /\ [kind |-> "tick", of |-> c] \in Events
    BY <1>6 DEF Tick, Events, Ticks
  <2>2. ticks' \in 0..MaxTicks
    BY <1>6 DEF Tick
  <2> QED
    BY <1>2, <1>6, <2>1, <2>2 DEF Tick
<1>7. ASSUME NEW c \in Slots, Choose(c) PROVE LoopTypes'
  <2>1. Holds(c) \in Processes
    BY <1>7, HeldProcess DEF Choose
  <2>2. killer' \in Chosen
    BY <1>7, <2>1 DEF Choose, Chosen
  <2> QED
    BY <1>7, <2>2 DEF Choose
<1>8. ASSUME NEW p \in Processes, Crash(p) PROVE LoopTypes'
  BY <1>8 DEF Crash, bounds
<1>9. ASSUME NEW c \in Slots, Overdue(c) PROVE LoopTypes'
  BY <1>9 DEF Overdue, bounds
<1>10. ASSUME NEW found \in SUBSET Slots, Sync(found) PROVE LoopTypes'
  BY <1>10 DEF Sync
<1>11. CASE Reap \/ Strike \/ SetPolicy
  BY <1>11 DEF Reap, Strike, SetPolicy, bounds
<1>12. CASE SpawnFails \/ Spawn \/ Record \/ Write
  <2>1. loop.of \in Requests
    BY <1>12, InTheLoop DEF SpawnFails, Spawn, Record, Write, Idle
  <2> QED
    BY <1>12, <2>1 DEF SpawnFails, Spawn, Record, Write, At, Steps, bounds
<1>13. CASE HandleReq
  <2>1. Event.of \in Requests /\ events' \in Seq(Events)
    BY <1>13, EventOf, Taken DEF HandleReq
  <2> QED
    BY <1>13, <2>1 DEF HandleReq, At, Steps, bounds
<1>14. CASE HandleBody \/ HandleForceCancel \/ HandleEnd \/ HandleBeat \/ HandleDeath \/ HandleTick
  <2>1. events' \in Seq(Events)
    BY <1>14, Taken
       DEF HandleBody, HandleForceCancel, HandleEnd, HandleBeat, HandleDeath, HandleTick
  <2> QED
    BY <1>14, <2>1
       DEF HandleBody, HandleForceCancel, HandleEnd, HandleBeat, HandleDeath, HandleTick, bounds
<1> QED
  BY <1>1, <1>3, <1>4, <1>5, <1>6, <1>7, <1>8, <1>9, <1>10, <1>11, <1>12, <1>13, <1>14
     DEF Next, Loop

\* The generations, the pids and the writers keep theirs.
LEMMA NumberStep ==
  ASSUME Typed, [Next]_vars
  PROVE  NumberTypes'
<1> USE DEF Typed, NumberTypes
<1>1. CASE UNCHANGED <<gen, pid, writer>>
  BY <1>1
<1>2. CASE Spawn
  <2>1. SlotOf[loop.of] \in Slots
    BY <1>2, InTheLoop DEF Spawn, Idle
  <2> QED
    BY <1>2, <2>1 DEF Spawn
<1>3. ASSUME NEW c \in Slots, TearDown(c) PROVE NumberTypes'
  BY <1>3 DEF TearDown
<1>4. CASE HandleDeath
  <2>1. Event.from[1] \in Slots
    BY <1>4, EventOf DEF HandleDeath, Processes
  <2> QED
    BY <1>3, <1>4, <2>1 DEF HandleDeath, slots
<1>5. CASE HandleTick
  <2>1. Event.of \in Slots
    BY <1>5, EventOf DEF HandleTick
  <2> QED
    BY <1>3, <1>5, <2>1 DEF HandleTick, slots
<1>6. ASSUME NEW cs, RetireKill(cs) PROVE NumberTypes'
  BY <1>6 DEF RetireKill
<1>7. ASSUME NEW found \in SUBSET Slots, Sync(found) PROVE NumberTypes'
  BY <1>6, <1>7 DEF Sync
<1>8. CASE Reap
  BY <1>6, <1>8 DEF Reap
<1>9. CASE Strike
  BY <1>9 DEF Strike
<1>10. UNCHANGED vars => UNCHANGED <<gen, pid, writer>>
  BY DEF vars, slots
<1>11. HandleReq \/ SpawnFails \/ Record \/ Write \/ HandleBody \/ HandleForceCancel \/ HandleEnd
         \/ HandleBeat \/ SetPolicy => UNCHANGED <<gen, pid, writer>>
  BY DEF HandleReq, SpawnFails, Record, Write, HandleBody, HandleForceCancel, HandleEnd, HandleBeat,
         SetPolicy, slots
<1>12. \A r \in Requests :
         SendReq(r) \/ SendBody(r) \/ SendForceCancel(r) => UNCHANGED <<gen, pid, writer>>
  BY DEF SendReq, SendBody, SendForceCancel, slots
<1>13. \A p \in Processes :
         AnswerProbe(p) \/ Crash(p) \/ ReadEof(p) \/ (\E r \in Requests : Answer(p, r))
           => UNCHANGED <<gen, pid, writer>>
  BY DEF AnswerProbe, Crash, ReadEof, Answer, slots
<1>14. \A c \in Slots : Overdue(c) \/ Tick(c) \/ Choose(c) => UNCHANGED <<gen, pid, writer>>
  BY DEF Overdue, Tick, Choose, slots
<1> QED
  BY <1>1, <1>2, <1>4, <1>5, <1>7, <1>8, <1>9, <1>10, <1>11, <1>12, <1>13, <1>14 DEF Next, Loop

\* The slots' flags keep theirs.
LEMMA FlagStep ==
  ASSUME Typed, [Next]_vars
  PROVE  FlagTypes'
<1> USE DEF Typed, FlagTypes
<1> DEFINE Same == UNCHANGED <<running, routable, removed, failed, retiring, reason, probe>>
<1>1. CASE Same
  BY <1>1
<1> HIDE DEF Same
<1>2. CASE Spawn
  <2>1. running' \in [Slots -> BOOLEAN] /\ routable' \in [Slots -> BOOLEAN]
    BY <1>2, Zenon DEF Spawn
  <2> QED
    BY <1>2, <2>1 DEF Spawn
<1>3. CASE SpawnFails
  <2>1. failed' \in [Slots -> BOOLEAN] /\ routable' \in [Slots -> BOOLEAN]
    BY <1>3, Zenon DEF SpawnFails
  <2> QED
    BY <1>3, <2>1 DEF SpawnFails
<1>4. ASSUME NEW c \in Slots, TearDown(c) PROVE FlagTypes'
  <2>1. running' \in [Slots -> BOOLEAN]
    BY <1>4, Zenon DEF TearDown
  <2>2. routable' \in [Slots -> BOOLEAN]
    <3>1. routable' = [routable EXCEPT ![c] = ~removed[c] /\ ~failed[c]]
      BY <1>4 DEF TearDown
    <3>2. (~removed[c] /\ ~failed[c]) \in BOOLEAN
      OBVIOUS
    <3> HIDE DEF Typed, FlagTypes
    <3>3. routable \in [Slots -> BOOLEAN]
      BY DEF Typed, FlagTypes
    <3> QED
      BY <3>1, <3>2, <3>3, Zenon
  <2>3. reason' \in [Slots -> Reasons] /\ probe' \in [Slots -> {"none", "sent", "late"}]
    BY <1>4 DEF TearDown, Reasons
  <2> QED
    BY <1>4, <2>1, <2>2, <2>3 DEF TearDown
<1>5. CASE HandleDeath
  <2>1. Event.from[1] \in Slots
    BY <1>5, EventOf DEF HandleDeath, Processes
  <2> QED
    BY <1>1, <1>4, <1>5, <2>1 DEF HandleDeath, slots, Same
<1>6. CASE HandleTick
  <2>1. Event.of \in Slots
    BY <1>6, EventOf DEF HandleTick
  <2>2. CASE TearDown(Event.of) \/ UNCHANGED slots
    BY <1>1, <1>4, <2>1, <2>2 DEF slots, Same
  <2>3. CASE /\ probe' = [probe EXCEPT ![Event.of] = "sent"]
             /\ UNCHANGED <<running, routable, removed, failed, retiring, reason>>
    BY <2>3
  <2> QED
    BY <1>6, <2>2, <2>3 DEF HandleTick
<1>7. ASSUME NEW cs, RetireKill(cs)
      PROVE  running' \in [Slots -> BOOLEAN] /\ probe' \in [Slots -> {"none", "sent", "late"}]
  <2>1. running' = [c \in Slots |-> running[c] /\ c \notin cs]
    BY <1>7 DEF RetireKill
  <2>2. \A c \in Slots : (running[c] /\ c \notin cs) \in BOOLEAN
    OBVIOUS
  <2>3. running' \in [Slots -> BOOLEAN]
    BY <2>1, <2>2, Zenon
  <2>4. probe' \in [Slots -> {"none", "sent", "late"}]
    BY <1>7 DEF RetireKill
  <2> QED
    BY <2>3, <2>4
<1>8. ASSUME NEW found \in SUBSET Slots, Sync(found) PROVE FlagTypes'
  <2>1. running' \in [Slots -> BOOLEAN] /\ probe' \in [Slots -> {"none", "sent", "late"}]
    BY <1>7, <1>8 DEF Sync
  <2>2. /\ removed' \in [Slots -> BOOLEAN] /\ failed' \in [Slots -> BOOLEAN]
        /\ routable' \in [Slots -> BOOLEAN]
    <3>1. removed' \in [Slots -> BOOLEAN]
      <4>1. removed' = [c \in Slots |-> c \in Slots \ found]
        BY <1>8 DEF Sync
      <4>2. \A c \in Slots : (c \in Slots \ found) \in BOOLEAN
        OBVIOUS
      <4> QED
        BY <4>1, <4>2, Zenon
    <3>2. failed' \in [Slots -> BOOLEAN]
      BY <1>8 DEF Sync
    <3>3. routable' \in [Slots -> BOOLEAN]
      <4>1. routable' = [c \in Slots |-> c \in found]
        BY <1>8 DEF Sync
      <4>2. \A c \in Slots : (c \in found) \in BOOLEAN
        OBVIOUS
      <4> QED
        BY <4>1, <4>2, Zenon
    <3> QED
      BY <3>1, <3>2, <3>3
  <2>3. retiring' \in [Slots -> BOOLEAN]
    BY <1>8, Zenon DEF Sync
  <2>4. reason' \in [Slots -> Reasons]
    BY <1>8 DEF Sync, Reasons
  <2> QED
    BY <2>1, <2>2, <2>3, <2>4
<1>9. CASE Reap
  <2>1. running' \in [Slots -> BOOLEAN] /\ probe' \in [Slots -> {"none", "sent", "late"}]
    BY <1>7, <1>9 DEF Reap
  <2>2. retiring' \in [Slots -> BOOLEAN]
    BY <1>9, Zenon DEF Reap
  <2>3. reason' \in [Slots -> Reasons]
    BY <1>9 DEF Reap, Reasons
  <2> QED
    BY <1>9, <2>1, <2>2, <2>3 DEF Reap
<1>10. CASE HandleForceCancel
  BY <1>10 DEF HandleForceCancel, Reasons
<1>11. CASE HandleBeat
  BY <1>11 DEF HandleBeat
<1>12. ASSUME NEW c \in Slots, Overdue(c) \/ Choose(c) PROVE FlagTypes'
  BY <1>12 DEF Overdue, Choose, Reasons
<1>13. UNCHANGED vars => Same
  BY DEF vars, slots, Same
<1>14. HandleReq \/ Record \/ Write \/ HandleBody \/ HandleEnd \/ Strike \/ SetPolicy => Same
  BY DEF HandleReq, Record, Write, HandleBody, HandleEnd, Strike, SetPolicy, slots, Same
<1>15. \A r \in Requests : SendReq(r) \/ SendBody(r) \/ SendForceCancel(r) => Same
  BY DEF SendReq, SendBody, SendForceCancel, slots, Same
<1>16. \A p \in Processes :
         AnswerProbe(p) \/ Crash(p) \/ ReadEof(p) \/ (\E r \in Requests : Answer(p, r)) => Same
  BY DEF AnswerProbe, Crash, ReadEof, Answer, slots, Same
<1>17. \A c \in Slots : Tick(c) => Same
  BY DEF Tick, slots, Same
<1> QED
  BY <1>1, <1>2, <1>3, <1>5, <1>6, <1>8, <1>9, <1>10, <1>11, <1>12, <1>13, <1>14, <1>15, <1>16, <1>17
     DEF Next, Loop

\* What is kept of the requests keeps its type.
LEMMA RequestStep ==
  ASSUME Typed, [Next]_vars
  PROVE  RequestTypes'
<1> USE DEF Typed, RequestTypes
<1>1. CASE UNCHANGED <<entry, asked, body, told, served>>
  BY <1>1
<1>2. ASSUME NEW rs, Tell(rs) PROVE told' \in [Requests -> Nat]
  BY <1>2 DEF Tell
<1>3. ASSUME NEW r \in Requests, SendReq(r) \/ SendBody(r) \/ SendForceCancel(r)
      PROVE  RequestTypes'
  BY <1>3 DEF SendReq, SendBody, SendForceCancel, relay
<1>4. CASE HandleReq
  BY <1>2, <1>4 DEF HandleReq, relay
<1>5. CASE SpawnFails
  BY <1>2, <1>5 DEF SpawnFails, relay
<1>6. CASE Record
  BY <1>6 DEF Record, relay, Stages
<1>7. CASE Write
  <2>1. loop.of \in Requests
    BY <1>7, InTheLoop DEF Write, Idle
  <2>2. \A p \in alive : p \in Processes
    BY DEF ProcessTypes
  <2>3. CASE <<SlotOf[loop.of], writer[SlotOf[loop.of]]>> \in alive
    BY <1>7, <2>1, <2>2, <2>3 DEF Write, relay
  <2>4. CASE <<SlotOf[loop.of], writer[SlotOf[loop.of]]>> \notin alive
    <3>1. told' \in [Requests -> Nat]
      BY <1>2, <1>7, <2>4 DEF Write
    <3> QED
      BY <1>7, <2>1, <2>4, <3>1 DEF Write, relay, Stages
  <2> QED
    BY <2>3, <2>4
<1>8. CASE HandleBody
  <2>1. told' \in [Requests -> Nat]
    BY <1>2, <1>8 DEF HandleBody
  <2>2. entry' \in [Requests -> Stages]
    BY <1>8 DEF HandleBody, Stages
  <2> QED
    BY <1>8, <2>1, <2>2 DEF HandleBody, relay
<1>9. CASE HandleEnd
  <2>1. told' \in [Requests -> Nat]
    BY <1>2, <1>9 DEF HandleEnd
  <2>2. entry' \in [Requests -> Stages]
    BY <1>9 DEF HandleEnd, Answered, Stages
  <2> QED
    BY <1>9, <2>1, <2>2 DEF HandleEnd, relay
<1>10. ASSUME NEW c, TearDown(c) PROVE entry' \in [Requests -> Stages] /\ told' \in [Requests -> Nat]
  BY <1>2, <1>10 DEF TearDown, Stages
<1>11. CASE HandleDeath
  BY <1>10, <1>11 DEF HandleDeath, relay
<1>12. CASE HandleTick
  BY <1>10, <1>12 DEF HandleTick, relay
<1>13. UNCHANGED vars => UNCHANGED <<entry, asked, body, told, served>>
  BY DEF vars, relay
<1>14. Spawn \/ HandleForceCancel \/ HandleBeat \/ Reap \/ Strike \/ SetPolicy
         => UNCHANGED <<entry, asked, body, told, served>>
  BY DEF Spawn, HandleForceCancel, HandleBeat, Reap, Strike, SetPolicy, relay
<1>15. \A p \in Processes :
         AnswerProbe(p) \/ Crash(p) \/ ReadEof(p) \/ (\E r \in Requests : Answer(p, r))
           => UNCHANGED <<entry, asked, body, told, served>>
  BY DEF AnswerProbe, Crash, ReadEof, Answer, relay
<1>16. \A c \in Slots : Overdue(c) \/ Tick(c) \/ Choose(c)
         => UNCHANGED <<entry, asked, body, told, served>>
  BY DEF Overdue, Tick, Choose, relay
<1>17. \A found \in SUBSET Slots : Sync(found) => UNCHANGED <<entry, asked, body, told, served>>
  BY DEF Sync, relay
<1> QED
  BY <1>1, <1>3, <1>4, <1>5, <1>6, <1>7, <1>8, <1>9, <1>11, <1>12, <1>13, <1>14, <1>15, <1>16, <1>17
     DEF Next, Loop

\* The process a spawn makes.
LEMMA SpawnedProcess ==
  ASSUME Typed, Spawn
  PROVE  /\ loop # Idle /\ SlotOf[loop.of] \in Slots
         /\ gen[SlotOf[loop.of]] + 1 \in 1..(2 * MaxSpawns - 1)
         /\ <<SlotOf[loop.of], gen[SlotOf[loop.of]] + 1>> \in Processes
<1>1. loop # Idle /\ SlotOf[loop.of] \in Slots
  BY InTheLoop DEF Spawn, Idle
<1>2. gen[SlotOf[loop.of]] + 1 \in 1..(2 * MaxSpawns - 1)
  BY <1>1, BoundsNat DEF Spawn, Typed, NumberTypes
<1> QED
  BY <1>1, <1>2, BoundsNat DEF Processes

\* Only processes that can be are alive, read, probed, informed or at work.
LEMMA ProcessStep ==
  ASSUME Typed, Slotted, [Next]_vars
  PROVE  ProcessTypes' /\ informed' \subseteq Processes
<1> USE DEF Typed, ProcessTypes, Slotted
<1>1. CASE UNCHANGED <<processes, informed>>
  BY <1>1 DEF processes
<1>2. CASE Spawn
  BY <1>2, SpawnedProcess DEF Spawn
<1>3. CASE Write
  <2>1. loop.of \in Requests
    BY <1>3, InTheLoop DEF Write, Idle
  <2> QED
    BY <1>3, <2>1 DEF Write
<1>4. CASE SetPolicy
  <2>1. \A c \in Slots : writer[c] # 0 => <<c, writer[c]>> \in Processes
    BY HeldProcess
  <2> QED
    BY <1>4, <2>1 DEF SetPolicy, processes
<1>5. ASSUME NEW p \in Processes,
             AnswerProbe(p) \/ Crash(p) \/ ReadEof(p) \/ \E r \in Requests : Answer(p, r)
      PROVE  ProcessTypes' /\ informed' \subseteq Processes
  BY <1>5 DEF AnswerProbe, Crash, ReadEof, Answer
<1>6. CASE HandleDeath
  BY <1>6 DEF HandleDeath, TearDown
<1>7. CASE HandleTick
  BY <1>7 DEF HandleTick, TearDown
<1>8. CASE HandleForceCancel \/ Reap \/ Strike
  BY <1>8 DEF HandleForceCancel, Reap, RetireKill, Strike
<1>9. ASSUME NEW found \in SUBSET Slots, Sync(found)
      PROVE  ProcessTypes' /\ informed' \subseteq Processes
  BY <1>9 DEF Sync, RetireKill
<1>10. UNCHANGED vars => UNCHANGED <<processes, informed>>
  BY DEF vars
<1>11. HandleReq \/ SpawnFails \/ Record \/ HandleBody \/ HandleEnd \/ HandleBeat
         => UNCHANGED <<processes, informed>>
  BY DEF HandleReq, SpawnFails, Record, HandleBody, HandleEnd, HandleBeat
<1>12. \A r \in Requests :
         SendReq(r) \/ SendBody(r) \/ SendForceCancel(r) => UNCHANGED <<processes, informed>>
  BY DEF SendReq, SendBody, SendForceCancel
<1>13. \A c \in Slots : Overdue(c) \/ Tick(c) \/ Choose(c) => UNCHANGED <<processes, informed>>
  BY DEF Overdue, Tick, Choose
<1> QED
  BY <1>1, <1>2, <1>3, <1>4, <1>5, <1>6, <1>7, <1>8, <1>9, <1>10, <1>11, <1>12, <1>13 DEF Next, Loop

\* Every step keeps the types.
LEMMA NextTyped ==
  ASSUME Typed, Slotted, [Next]_vars
  PROVE  Typed'
BY LoopStep, NumberStep, FlagStep, RequestStep, ProcessStep DEF Typed

-----------------------------------------------------------------------------
(* Slots and their processes.                                              *)

\* A step that leaves the slots alone leaves them sound.
LEMMA SlotsQuiet ==
  ASSUME Slotted, UNCHANGED <<gen, running, pid, writer, policy>>, informed \subseteq informed',
         loop' = loop \/ loop' = Idle \/ loop'.at # "spawn"
  PROVE  \A c \in Slots : SlotSound(c)'
BY DEF Slotted, SlotSound

\* So does one that tears a slot down.
LEMMA TornDownSlots ==
  ASSUME Typed, Slotted, NEW c \in Slots, TearDown(c), running[c],
         UNCHANGED <<loop, policy, informed>>
  PROVE  \A d \in Slots : SlotSound(d)'
<1>1. SlotSound(c)'
  <2>1. ~running[c]' /\ pid[c]' = 0 /\ writer[c]' = 0 /\ gen[c]' = gen[c] + 1
    BY DEF TearDown, Typed, NumberTypes, FlagTypes
  <2>2. gen[c] \in 1..(2 * MaxSpawns - 1)
    BY DEF Slotted, SlotSound
  <2>3. gen[c] + 1 \in Generations
    BY <2>2, BoundsNat DEF Generations
  <2> QED
    BY <2>1, <2>3 DEF SlotSound
<1>2. ASSUME NEW d \in Slots, d # c PROVE SlotSound(d)'
  <2>1. running[d]' = running[d] /\ pid[d]' = pid[d] /\ writer[d]' = writer[d] /\ gen[d]' = gen[d]
    BY <1>2 DEF TearDown, Typed, NumberTypes, FlagTypes
  <2>2. SlotSound(d)
    BY DEF Slotted
  <2> QED
    BY <2>1, <2>2 DEF SlotSound
<1> QED
  BY <1>1, <1>2

\* So does one that retires some.
LEMMA RetiredSlots ==
  ASSUME Typed, Slotted, NEW cs, RetireKill(cs), UNCHANGED <<loop, policy, informed>>
  PROVE  \A d \in Slots : SlotSound(d)'
<1> SUFFICES ASSUME NEW d \in Slots PROVE SlotSound(d)'
  OBVIOUS
<1>1. SlotSound(d) /\ gen[d]' = gen[d]
  BY DEF Slotted, RetireKill
<1>2. CASE d \in cs
  <2>1. ~running[d]' /\ pid[d]' = 0 /\ writer[d]' = 0
    BY <1>2 DEF RetireKill
  <2>2. gen[d] \in Generations
    BY <1>1, BoundsNat DEF SlotSound, Generations
  <2> QED
    BY <1>1, <2>1, <2>2 DEF SlotSound
<1>3. CASE d \notin cs
  <2>1. (running[d]' <=> running[d]) /\ pid[d]' = pid[d] /\ writer[d]' = writer[d]
    BY <1>3 DEF RetireKill
  <2> QED
    BY <1>1, <2>1 DEF SlotSound
<1> QED
  BY <1>2, <1>3

\* A death or a tick tears down only a slot that runs.
LEMMA DeathStep ==
  ASSUME Typed, Slotted, HandleDeath
  PROVE  \E p \in Processes :
           /\ p = Event.from /\ Event = DeathOf(p) /\ loop = Idle /\ loop' = Idle
           /\ \/ TearDown(p[1]) /\ running[p[1]] /\ gen[p[1]] = p[2]
              \/ UNCHANGED <<slots, alive, entry, told>>
<1>1. Event.from \in Processes /\ Event = DeathOf(Event.from) /\ loop = Idle
  BY EventOf DEF HandleDeath
<1>2. Event.from[1] \in Slots
  BY <1>1 DEF Processes
<1> QED
  BY <1>1, <1>2, HeldProcess DEF HandleDeath, Current

\* Every step keeps the slots sound.
LEMMA SlotStep ==
  ASSUME Typed, Slotted, [Next]_vars
  PROVE  \A c \in Slots : SlotSound(c)'
<1> DEFINE Held == \A c \in Slots : SlotSound(c)'
<1>1. CASE /\ UNCHANGED <<gen, running, pid, writer, policy>> /\ informed' = informed
           /\ loop' = loop \/ loop' = Idle \/ loop'.at # "spawn"
  BY <1>1, SlotsQuiet
<1>2. CASE HandleReq
  <2>1. Event.of \in Requests /\ UNCHANGED <<gen, running, pid, writer, policy, informed>>
    BY <1>2, EventOf DEF HandleReq, slots
  <2>2. loop' = loop \/ (loop' = At("record", Event.of)) \/
          (loop' = At("spawn", Event.of) /\ ~running[SlotOf[Event.of]])
    BY <1>2 DEF HandleReq
  <2>3. CASE loop' = At("spawn", Event.of) /\ ~running[SlotOf[Event.of]]
    BY <2>1, <2>3 DEF At, Slotted, SlotSound
  <2>4. CASE loop' = loop \/ loop' = At("record", Event.of)
    BY <2>1, <2>4, SlotsQuiet DEF At
  <2> QED
    BY <2>2, <2>3, <2>4
<1>3. CASE Spawn
  <2>1. PICK c \in Slots : c = SlotOf[loop.of] /\ gen[c] + 1 \in 1..(2 * MaxSpawns - 1)
    BY <1>3, SpawnedProcess
  <2>2. /\ gen' = [gen EXCEPT ![c] = gen[c] + 1] /\ running' = [running EXCEPT ![c] = TRUE]
        /\ pid' = [pid EXCEPT ![c] = gen[c] + 1] /\ writer' = [writer EXCEPT ![c] = gen[c] + 1]
        /\ policy' = policy /\ loop'.at = "record"
        /\ informed' = IF policy THEN informed \cup {<<c, gen[c] + 1>>} ELSE informed
    BY <1>3, <2>1 DEF Spawn, At
  <2>3. SlotSound(c)'
    <3>1. running[c]' /\ gen[c]' = gen[c] + 1 /\ pid[c]' = gen[c]' /\ writer[c]' = gen[c]'
      BY <2>2 DEF Typed, NumberTypes, FlagTypes
    <3>2. policy => <<c, gen[c]'>> \in informed'
      BY <2>2, <3>1
    <3> QED
      BY <2>1, <2>2, <3>1, <3>2 DEF SlotSound
  <2>4. ASSUME NEW d \in Slots, d # c PROVE SlotSound(d)'
    <3>1. running[d]' = running[d] /\ pid[d]' = pid[d] /\ writer[d]' = writer[d] /\ gen[d]' = gen[d]
      BY <2>2, <2>4 DEF Typed, NumberTypes, FlagTypes
    <3>2. SlotSound(d) /\ informed \subseteq informed'
      BY <2>2 DEF Slotted
    <3> QED
      BY <2>2, <3>1, <3>2 DEF SlotSound
  <2> QED
    BY <2>3, <2>4
<1>4. CASE HandleDeath
  <2>1. PICK p \in Processes :
          /\ loop = Idle /\ loop' = Idle
          /\ \/ TearDown(p[1]) /\ running[p[1]]
             \/ UNCHANGED <<slots, alive, entry, told>>
    BY <1>4, DeathStep
  <2>2. p[1] \in Slots /\ policy' = policy /\ informed' = informed
    BY <1>4 DEF HandleDeath, Processes
  <2> QED
    BY <1>1, <2>1, <2>2, TornDownSlots DEF slots
<1>5. CASE HandleTick
  <2>1. Event.of \in Slots /\ UNCHANGED <<policy, informed, loop>>
    BY <1>5, EventOf DEF HandleTick
  <2>2. \/ TearDown(Event.of) /\ running[Event.of]
        \/ UNCHANGED <<gen, running, pid, writer>>
    BY <1>5 DEF HandleTick, slots
  <2> QED
    BY <1>1, <2>1, <2>2, TornDownSlots
<1>6. ASSUME NEW found \in SUBSET Slots, Sync(found) PROVE Held
  BY <1>6, RetiredSlots DEF Sync
<1>7. CASE Reap
  BY <1>7, RetiredSlots DEF Reap
<1>8. CASE Strike
  <2>1. UNCHANGED <<gen, running, writer, policy, informed, loop>>
    BY <1>8 DEF Strike
  <2>2. \A c \in Slots : pid[c]' = 0 \/ pid[c]' = pid[c]
    BY <1>8 DEF Strike, Typed, NumberTypes
  <2> QED
    BY <2>1, <2>2 DEF Slotted, SlotSound
<1>9. CASE SetPolicy
  <2>1. UNCHANGED <<gen, running, pid, writer, loop>>
    BY <1>9 DEF SetPolicy, slots
  <2>2. \A c \in Slots : writer[c] # 0 => <<c, writer[c]>> \in informed'
    BY <1>9 DEF SetPolicy
  <2>3. ASSUME NEW c \in Slots, running[c] PROVE writer[c] = gen[c] /\ writer[c] # 0
    <3>1. writer[c] = gen[c] /\ gen[c] \in 1..(2 * MaxSpawns - 1)
      BY <2>3 DEF Slotted, SlotSound
    <3> QED
      BY <3>1, BoundsNat
  <2> QED
    BY <2>1, <2>2, <2>3 DEF Slotted, SlotSound
<1>10. SpawnFails \/ Record \/ Write \/ HandleBody \/ HandleForceCancel \/ HandleEnd \/ HandleBeat
         => Held
  BY <1>1
     DEF SpawnFails, Record, Write, HandleBody, HandleForceCancel, HandleEnd, HandleBeat, slots, At
<1>11. UNCHANGED vars => Held
  BY <1>1 DEF vars, slots
<1>12. \A r \in Requests : SendReq(r) \/ SendBody(r) \/ SendForceCancel(r) => Held
  BY <1>1 DEF SendReq, SendBody, SendForceCancel, slots
<1>13. \A p \in Processes :
         AnswerProbe(p) \/ Crash(p) \/ ReadEof(p) \/ (\E r \in Requests : Answer(p, r)) => Held
  BY <1>1 DEF AnswerProbe, Crash, ReadEof, Answer, slots
<1>14. \A c \in Slots : Overdue(c) \/ Tick(c) \/ Choose(c) => Held
  BY <1>1 DEF Overdue, Tick, Choose, slots
<1> HIDE DEF Held
<1> QED
  BY <1>2, <1>3, <1>4, <1>5, <1>6, <1>7, <1>8, <1>9, <1>10, <1>11, <1>12, <1>13, <1>14
     DEF Next, Loop, Held

\* A process that is alive is the one its slot holds; one whose end was read is
\* not, and none has a generation its slot has yet to reach.
ProcessSound(p) ==
  /\ p \in alive => pid[p[1]] = p[2] /\ p \in readers
  /\ p \in readers => p[2] <= gen[p[1]]
  /\ InQueue(DeathOf(p)) => p \notin readers /\ p[2] <= gen[p[1]]

Manned == \A p \in Processes : ProcessSound(p)

\* A process that is alive is the one its slot holds and writes to.
LEMMA OneAlive ==
  ASSUME Typed, Slotted, Manned, NEW p \in alive
  PROVE  /\ p \in Processes /\ p[1] \in Slots /\ p = Holds(p[1]) /\ p = <<p[1], writer[p[1]]>>
         /\ running[p[1]] /\ gen[p[1]] = p[2]
<1>1. p \in Processes /\ p[1] \in Slots /\ p = <<p[1], p[2]>> /\ p[2] # 0
  BY BoundsNat DEF Typed, ProcessTypes, Processes
<1>2. pid[p[1]] = p[2]
  BY <1>1 DEF Manned, ProcessSound
<1> QED
  BY <1>1, <1>2 DEF Slotted, SlotSound, Holds

\* Processes die, and slots let go of the dead.
LEMMA ProcessesQuiet ==
  ASSUME Manned, alive' \subseteq alive, readers' = readers,
         \A c \in Slots : gen[c]' \in Nat /\ gen[c] \in Nat /\ gen[c]' >= gen[c],
         \A p \in alive' : p \in Processes => pid[p[1]]' = pid[p[1]],
         \A p \in Processes : InQueue(DeathOf(p))' => InQueue(DeathOf(p))
  PROVE  Manned'
<1> SUFFICES ASSUME NEW p \in Processes PROVE ProcessSound(p)'
  BY DEF Manned
<1>1. p[1] \in Slots /\ p[2] \in Nat /\ ProcessSound(p)
  BY BoundsNat DEF Processes, Manned
<1> QED
  BY <1>1 DEF ProcessSound

\* The events told apart.
LEMMA OtherEvents ==
  /\ \A x, y : (ReqOf(x) = ReqOf(y) => x = y) /\ (DeathOf(x) = DeathOf(y) => x = y)
  /\ \A x, y, p, r : EndOf(p, r) = EndOf(x, y) => p = x /\ r = y
  /\ \A x, p, r : ReqOf(x) # DeathOf(p) /\ ReqOf(x) # EndOf(p, r) /\ DeathOf(x) # EndOf(p, r)
BY DEF ReqOf, DeathOf, EndOf

\* What is queued, seen from the deaths.
LEMMA DeathsQueued ==
  ASSUME Typed,
         \/ events' = events
         \/ \E kind : Taking(kind)
         \/ \E e \in Events : Send(e) /\ \A p \in Processes : e # DeathOf(p)
  PROVE  \A p \in Processes : InQueue(DeathOf(p))' => InQueue(DeathOf(p))
<1>1. events \in Seq(Events)
  BY DEF Typed, LoopTypes
<1>2. CASE events' = events
  BY <1>2 DEF InQueue
<1>3. ASSUME NEW kind, Taking(kind)
      PROVE  \A p \in Processes : InQueue(DeathOf(p))' => InQueue(DeathOf(p))
  BY <1>1, <1>3, Taken
<1>4. ASSUME NEW e \in Events, Send(e), \A p \in Processes : e # DeathOf(p)
      PROVE  \A p \in Processes : InQueue(DeathOf(p))' => InQueue(DeathOf(p))
  BY <1>1, <1>4, Sent
<1> QED
  BY <1>2, <1>3, <1>4

\* Killing the process a slot holds empties the slot.
LEMMA NoneLeft ==
  ASSUME Typed, Slotted, Manned, NEW c \in Slots, NEW p \in alive \ {Holds(c)}
  PROVE  p[1] # c
BY OneAlive

\* A step in which processes at most die keeps them sound.
LEMMA MannedQuiet ==
  ASSUME Typed, Manned, UNCHANGED <<gen, pid, readers>>, alive' \subseteq alive,
         \/ events' = events
         \/ \E kind : Taking(kind)
         \/ \E e \in Events : Send(e) /\ \A p \in Processes : e # DeathOf(p)
  PROVE  Manned'
<1>1. \A p \in Processes : InQueue(DeathOf(p))' => InQueue(DeathOf(p))
  BY DeathsQueued
<1> QED
  BY <1>1, ProcessesQuiet DEF Typed, NumberTypes

\* So does one that tears a slot down.
LEMMA MannedTornDown ==
  ASSUME Typed, Slotted, Manned, NEW c \in Slots, TearDown(c), readers' = readers,
         \E kind : Taking(kind)
  PROVE  Manned'
<1>1. \A p \in Processes : InQueue(DeathOf(p))' => InQueue(DeathOf(p))
  BY DeathsQueued
<1>2. \A d \in Slots : gen[d] \in Nat /\ gen[d]' \in Nat /\ gen[d]' >= gen[d]
  BY DEF TearDown, Typed, NumberTypes
<1>3. \A d \in Slots : d # c => pid[d]' = pid[d]
  BY DEF TearDown, Typed, NumberTypes
<1>4. alive' \subseteq alive /\ \A p \in alive' : p \in Processes => p[1] # c /\ p[1] \in Slots
  BY NoneLeft DEF TearDown, Processes
<1>5. \A p \in alive' : p \in Processes => pid[p[1]]' = pid[p[1]]
  BY <1>3, <1>4
<1> QED
  BY <1>1, <1>2, <1>4, <1>5, ProcessesQuiet

\* So does one that retires some.
LEMMA MannedRetired ==
  ASSUME Typed, Slotted, Manned, NEW cs \in SUBSET Slots, RetireKill(cs), readers' = readers,
         events' = events
  PROVE  Manned'
<1>1. \A p \in Processes : InQueue(DeathOf(p))' => InQueue(DeathOf(p))
  BY DeathsQueued
<1>2. \A d \in Slots : gen[d] \in Nat /\ gen[d]' = gen[d] /\ (d \notin cs => pid[d]' = pid[d])
  BY DEF RetireKill, Typed, NumberTypes
<1>3. alive' = alive \ {Holds(c) : c \in cs}
  BY DEF RetireKill
<1>4. \A p \in alive' : p \in Processes => p[1] \notin cs /\ p[1] \in Slots
  BY <1>3, NoneLeft DEF Processes
<1>5. \A p \in alive' : p \in Processes => pid[p[1]]' = pid[p[1]]
  BY <1>2, <1>4
<1>6. \A d \in Slots : gen[d]' \in Nat /\ gen[d]' >= gen[d]
  BY <1>2
<1> QED
  BY <1>1, <1>2, <1>3, <1>5, <1>6, ProcessesQuiet

\* Every step keeps the processes sound.
LEMMA MannedStep ==
  ASSUME Typed, Slotted, Manned, [Next]_vars
  PROVE  Manned'
<1>1. CASE UNCHANGED vars
  BY <1>1, MannedQuiet DEF vars, slots, processes
<1>2. CASE Spawn
  <2>1. PICK c \in Slots : c = SlotOf[loop.of] /\ gen[c] + 1 \in 1..(2 * MaxSpawns - 1) /\ ~running[c]
    BY <1>2, SpawnedProcess DEF Spawn, Slotted, SlotSound
  <2>2. /\ gen' = [gen EXCEPT ![c] = gen[c] + 1] /\ pid' = [pid EXCEPT ![c] = gen[c] + 1]
        /\ alive' = alive \cup {<<c, gen[c] + 1>>} /\ readers' = readers \cup {<<c, gen[c] + 1>>}
        /\ events' = events
    BY <1>2, <2>1 DEF Spawn
  <2>3. gen[c]' = gen[c] + 1 /\ pid[c]' = gen[c] + 1 /\ gen[c] \in Nat
    BY <2>2 DEF Typed, NumberTypes
  <2>4. \A d \in Slots : d # c => gen[d]' = gen[d] /\ pid[d]' = pid[d]
    BY <2>2 DEF Typed, NumberTypes
  <2>5. ASSUME NEW p \in Processes PROVE ProcessSound(p)'
    <3>1. ProcessSound(p) /\ p[1] \in Slots /\ p[2] \in Nat /\ p = <<p[1], p[2]>>
      BY BoundsNat DEF Manned, Processes
    <3>2. InQueue(DeathOf(p))' <=> InQueue(DeathOf(p))
      BY <2>2 DEF InQueue
    <3>3. CASE p = <<c, gen[c] + 1>>
      <4>1. p[1] = c /\ p[2] = gen[c] + 1 /\ p \in alive' /\ p \in readers'
        BY <2>2, <3>3
      <4>2. ~InQueue(DeathOf(p))
        BY <2>3, <3>1, <4>1 DEF ProcessSound
      <4> QED
        BY <2>3, <3>2, <4>1, <4>2 DEF ProcessSound
    <3>4. CASE p # <<c, gen[c] + 1>>
      <4>1. (p \in alive' <=> p \in alive) /\ (p \in readers' <=> p \in readers)
        BY <2>2, <3>4
      <4>2. CASE p[1] = c
        <5>1. p \notin alive
          BY <2>1, <4>2, OneAlive
        <5> QED
          BY <2>3, <3>1, <3>2, <4>1, <4>2, <5>1 DEF ProcessSound
      <4>3. CASE p[1] # c
        BY <2>4, <3>1, <3>2, <4>1, <4>3 DEF ProcessSound
      <4> QED
        BY <4>2, <4>3
    <3> QED
      BY <3>3, <3>4
  <2> QED
    BY <2>5 DEF Manned
<1>3. ASSUME NEW q \in Processes, ReadEof(q) PROVE Manned'
  <2>1. DeathOf(q) \in Events /\ Send(DeathOf(q)) /\ readers' = readers \ {q} /\ q \in readers
    BY <1>3 DEF ReadEof, DeathOf, Events, Signs
  <2>2. \A p \in Processes : InQueue(DeathOf(p))' <=> InQueue(DeathOf(p)) \/ p = q
    BY <2>1, Sent, OtherEvents DEF Typed, LoopTypes
  <2>3. UNCHANGED <<gen, pid, alive>> /\ q \notin alive
    BY <1>3 DEF ReadEof, slots
  <2> QED
    BY <2>1, <2>2, <2>3 DEF Manned, ProcessSound
<1>4. CASE HandleDeath
  <2>1. PICK p \in Processes :
          \/ TearDown(p[1])
          \/ UNCHANGED <<slots, alive, entry, told>>
    BY <1>4, DeathStep
  <2>2. p[1] \in Slots /\ readers' = readers /\ \E kind : Taking(kind)
    BY <1>4 DEF HandleDeath, Processes
  <2> QED
    BY <2>1, <2>2, MannedTornDown, MannedQuiet DEF slots
<1>5. CASE HandleTick
  <2>1. Event.of \in Slots /\ readers' = readers /\ \E kind : Taking(kind)
    BY <1>5, EventOf DEF HandleTick
  <2>2. TearDown(Event.of) \/ UNCHANGED <<gen, pid, alive>>
    BY <1>5 DEF HandleTick, slots
  <2> QED
    BY <2>1, <2>2, MannedTornDown, MannedQuiet
<1>6. ASSUME NEW found \in SUBSET Slots, Sync(found) PROVE Manned'
  <2>1. \E cs \in SUBSET Slots : RetireKill(cs)
    BY <1>6 DEF Sync
  <2> QED
    BY <1>6, <2>1, MannedRetired DEF Sync
<1>7. CASE Reap
  <2>1. \E cs \in SUBSET Slots : RetireKill(cs)
    BY <1>7 DEF Reap
  <2> QED
    BY <1>7, <2>1, MannedRetired DEF Reap
<1>8. CASE Strike
  <2>0. killer.process[1] \in Slots
    <3>1. killer.stage = "chosen" /\ killer \in {Calm} \cup Chosen
      BY <1>8 DEF Strike, Typed, LoopTypes
    <3>2. killer.process \in Processes
      BY <3>1 DEF Calm, Chosen
    <3> QED
      BY <3>2 DEF Processes
  <2>1. PICK c \in Slots :
          /\ alive' = alive \ {Holds(c)} /\ pid' = [pid EXCEPT ![c] = 0]
          /\ UNCHANGED <<gen, readers, events>>
    <3>1. PICK c \in Slots : c = killer.process[1]
      BY <2>0
    <3> QED
      BY <1>8, <3>1 DEF Strike
  <2>2. \A d \in Slots : d # c => pid[d]' = pid[d]
    BY <2>1 DEF Typed, NumberTypes
  <2>3. \A p \in alive' : p \in Processes => pid[p[1]]' = pid[p[1]]
    BY <2>1, <2>2, NoneLeft DEF Processes
  <2>4. \A p \in Processes : InQueue(DeathOf(p))' => InQueue(DeathOf(p))
    BY <2>1 DEF InQueue
  <2> QED
    BY <2>1, <2>3, <2>4, ProcessesQuiet DEF Typed, NumberTypes
<1>9. HandleReq \/ HandleBody \/ HandleForceCancel \/ HandleEnd \/ HandleBeat => Manned'
  BY MannedQuiet
     DEF HandleReq, HandleBody, HandleForceCancel, HandleEnd, HandleBeat, slots, processes
<1>10. SpawnFails \/ Record \/ Write \/ SetPolicy => Manned'
  BY MannedQuiet DEF SpawnFails, Record, Write, SetPolicy, slots, processes
<1>11. ASSUME NEW r \in Requests, SendReq(r) \/ SendBody(r) \/ SendForceCancel(r) PROVE Manned'
  <2>1. PICK k \in {"req", "body", "cancel"} : Send([kind |-> k, of |-> r])
    BY <1>11 DEF SendReq, SendBody, SendForceCancel
  <2>2. [kind |-> k, of |-> r] \in Events /\ \A p : [kind |-> k, of |-> r] # DeathOf(p)
    BY DEF Events, Messages, DeathOf
  <2> QED
    BY <1>11, <2>1, <2>2, MannedQuiet DEF SendReq, SendBody, SendForceCancel, slots, processes
<1>12. ASSUME NEW p \in Processes, NEW r \in Requests, Answer(p, r) PROVE Manned'
  <2>1. EndOf(p, r) \in Events /\ Send(EndOf(p, r)) /\ \A q : EndOf(p, r) # DeathOf(q)
    BY <1>12 DEF Answer, EndOf, DeathOf, Events, Ends
  <2> QED
    BY <1>12, <2>1, MannedQuiet DEF Answer, slots
<1>13. ASSUME NEW p \in Processes, AnswerProbe(p) PROVE Manned'
  <2>1. PICK e \in Events : Send(e) /\ \A q : e # DeathOf(q)
    <3>1. [kind |-> "beat", from |-> p] \in Events /\ \A q : [kind |-> "beat", from |-> p] # DeathOf(q)
      BY DEF Events, Signs, DeathOf
    <3> QED
      BY <1>13, <3>1 DEF AnswerProbe
  <2> QED
    BY <1>13, <2>1, MannedQuiet DEF AnswerProbe, slots
<1>14. ASSUME NEW p \in Processes, Crash(p) PROVE Manned'
  BY <1>14, MannedQuiet DEF Crash, slots
<1>15. ASSUME NEW c \in Slots, Tick(c) PROVE Manned'
  <2>1. PICK e \in Events : Send(e) /\ \A q : e # DeathOf(q)
    <3>1. [kind |-> "tick", of |-> c] \in Events /\ \A q : [kind |-> "tick", of |-> c] # DeathOf(q)
      BY DEF Events, Ticks, DeathOf
    <3> QED
      BY <1>15, <3>1 DEF Tick
  <2> QED
    BY <1>15, <2>1, MannedQuiet DEF Tick, slots, processes
<1>16. ASSUME NEW c \in Slots, Overdue(c) \/ Choose(c) PROVE Manned'
  BY <1>16, MannedQuiet DEF Overdue, Choose, processes
<1> QED
  BY <1>1, <1>2, <1>3, <1>4, <1>5, <1>6, <1>7, <1>8, <1>9, <1>10, <1>11, <1>12, <1>13, <1>14, <1>15,
     <1>16 DEF Next, Loop

-----------------------------------------------------------------------------
(* A request, from the relay's REQ to its end.                             *)

\* A request the loop has yet to take up, and the one it has in hand.
Unheard(r) == r \notin asked \/ InQueue(ReqOf(r))
InHand(r) == loop # Idle /\ loop.of = r

\* What a process was handed and has not answered is the work of the process the
\* request was written to, routed for as long as that process lives.
WorkSound(p, r) ==
  /\ <<p, r>> \in work =>
       /\ served[r] = p /\ p \in informed /\ entry[r] # "answered" /\ ~InQueue(EndOf(p, r))
       /\ p \in alive => Routed(r)
  /\ InQueue(EndOf(p, r)) => served[r] = p

RequestSound(r) ==
  /\ InQueue(ReqOf(r)) => r \in asked
  /\ Unheard(r) => entry[r] = "none" /\ ~InHand(r)
  /\ Unheard(r) \/ InHand(r) => told[r] = 0 /\ served[r] = <<>>
  /\ InHand(r) =>
       policy /\ entry[r] \in IF loop.at = "write" THEN {"open", "read"} ELSE {"none"}
  /\ entry[r] \in {"open", "read"} => told[r] = 0
  /\ served[r] # <<>> => served[r][1] = SlotOf[r] /\ served[r][2] <= gen[SlotOf[r]]
  /\ \A p \in Processes : WorkSound(p, r)

\* What only grows.
Lasts ==
  /\ \A c \in Slots : gen[c] \in Nat /\ gen'[c] \in Nat /\ gen'[c] >= gen[c]
  /\ informed \subseteq informed' /\ (policy => policy')

\* A generation is never taken back.
LEMMA GenerationsGrow ==
  ASSUME Typed, [Next]_vars
  PROVE  \A c \in Slots : gen[c] \in Nat /\ gen'[c] \in Nat /\ gen'[c] >= gen[c]
<1> USE DEF Typed, NumberTypes
<1>1. CASE gen' = gen
  BY <1>1
<1>2. ASSUME NEW c \in Slots, gen' = [gen EXCEPT ![c] = @ + 1]
      PROVE  \A d \in Slots : gen[d] \in Nat /\ gen'[d] \in Nat /\ gen'[d] >= gen[d]
  BY <1>2
<1>3. CASE Spawn
  BY <1>2, <1>3, SpawnedProcess DEF Spawn
<1>4. CASE HandleDeath
  <2>1. Event.from[1] \in Slots
    BY <1>4, EventOf DEF HandleDeath, Processes
  <2> QED
    BY <1>1, <1>2, <1>4, <2>1 DEF HandleDeath, TearDown, slots
<1>5. CASE HandleTick
  <2>1. Event.of \in Slots
    BY <1>5, EventOf DEF HandleTick
  <2> QED
    BY <1>1, <1>2, <1>5, <2>1 DEF HandleTick, TearDown, slots
<1>6. UNCHANGED vars => gen' = gen
  BY DEF vars, slots
<1>7. HandleReq \/ SpawnFails \/ Record \/ Write \/ HandleBody \/ HandleForceCancel \/ HandleEnd
        \/ HandleBeat \/ Strike \/ SetPolicy => gen' = gen
  BY DEF HandleReq, SpawnFails, Record, Write, HandleBody, HandleForceCancel, HandleEnd,
         HandleBeat, Strike, SetPolicy, slots
<1>8. Reap \/ (\E found \in SUBSET Slots : Sync(found)) => gen' = gen
  BY DEF Reap, Sync, RetireKill
<1>9. \A r \in Requests : SendReq(r) \/ SendBody(r) \/ SendForceCancel(r) => gen' = gen
  BY DEF SendReq, SendBody, SendForceCancel, slots
<1>10. \A p \in Processes :
         AnswerProbe(p) \/ Crash(p) \/ ReadEof(p) \/ (\E r \in Requests : Answer(p, r)) => gen' = gen
  BY DEF AnswerProbe, Crash, ReadEof, Answer, slots
<1>11. \A c \in Slots : Overdue(c) \/ Tick(c) \/ Choose(c) => gen' = gen
  BY DEF Overdue, Tick, Choose, slots
<1> QED
  BY <1>1, <1>3, <1>4, <1>5, <1>6, <1>7, <1>8, <1>9, <1>10, <1>11 DEF Next, Loop

\* Neither is the policy, or what was told of it.
LEMMA PolicyLasts ==
  ASSUME [Next]_vars
  PROVE  informed \subseteq informed' /\ (policy => policy')
<1>1. CASE informed' = informed /\ policy' = policy
  BY <1>1
<1>2. CASE Spawn
  BY <1>2 DEF Spawn
<1>3. CASE SetPolicy
  BY <1>3 DEF SetPolicy
<1>4. UNCHANGED vars => informed' = informed /\ policy' = policy
  BY DEF vars
<1>5. HandleReq \/ SpawnFails \/ Record \/ Write \/ HandleBody \/ HandleForceCancel \/ HandleEnd
        \/ HandleBeat \/ HandleDeath \/ HandleTick \/ Strike \/ Reap
        => informed' = informed /\ policy' = policy
  BY DEF HandleReq, SpawnFails, Record, Write, HandleBody, HandleForceCancel, HandleEnd,
         HandleBeat, HandleDeath, HandleTick, Strike, Reap
<1>6. (\E found \in SUBSET Slots : Sync(found)) => informed' = informed /\ policy' = policy
  BY DEF Sync
<1>7. \A r \in Requests : SendReq(r) \/ SendBody(r) \/ SendForceCancel(r)
        => informed' = informed /\ policy' = policy
  BY DEF SendReq, SendBody, SendForceCancel
<1>8. \A p \in Processes :
         AnswerProbe(p) \/ Crash(p) \/ ReadEof(p) \/ (\E r \in Requests : Answer(p, r))
        => informed' = informed /\ policy' = policy
  BY DEF AnswerProbe, Crash, ReadEof, Answer
<1>9. \A c \in Slots : Overdue(c) \/ Tick(c) \/ Choose(c) => informed' = informed /\ policy' = policy
  BY DEF Overdue, Tick, Choose
<1> QED
  BY <1>1, <1>2, <1>3, <1>4, <1>5, <1>6, <1>7, <1>8, <1>9 DEF Next, Loop

\* An event that is not queued now was not put there by taking another, or by
\* sending one that differs.
LEMMA NothingQueued ==
  ASSUME Typed, NEW x,
         \/ events' = events
         \/ \E kind : Taking(kind)
         \/ \E e \in Events : Send(e) /\ e # x
  PROVE  InQueue(x)' => InQueue(x)
<1>1. events \in Seq(Events)
  BY DEF Typed, LoopTypes
<1>2. CASE events' = events
  BY <1>2 DEF InQueue
<1>3. ASSUME NEW kind, Taking(kind) PROVE InQueue(x)' => InQueue(x)
  BY <1>1, <1>3, Taken
<1>4. ASSUME NEW e \in Events, Send(e), e # x PROVE InQueue(x)' => InQueue(x)
  BY <1>1, <1>4, Sent
<1> QED
  BY <1>2, <1>3, <1>4

\* A step that is about other requests.
Aside(r) ==
  /\ told'[r] = told[r] /\ served'[r] = served[r] /\ entry'[r] = entry[r]
  /\ r \in asked' <=> r \in asked
  /\ loop' = loop \/ loop' = Idle \/ loop'.of # r
  /\ \A p \in Processes : <<p, r>> \in work' => <<p, r>> \in work /\ (p \in alive' => p \in alive)

\* Such a step keeps the request sound.
LEMMA RequestAside ==
  ASSUME Typed, NEW r \in Requests, RequestSound(r), Aside(r), Lasts,
         InQueue(ReqOf(r))' => InQueue(ReqOf(r)),
         \A p \in Processes : InQueue(EndOf(p, r))' => InQueue(EndOf(p, r))
  PROVE  RequestSound(r)'
<1>1. \A p \in Processes : WorkSound(p, r)'
  BY DEF RequestSound, WorkSound, Aside, Lasts, Routed
<1>2. Unheard(r)' => Unheard(r)
  BY DEF Unheard, Aside
<1>3. InHand(r)' => InHand(r) /\ loop' = loop
  BY DEF InHand, Aside
<1>4. SlotOf[r] \in Slots
  BY SlotsTyped
<1>5. served[r] # <<>> => served[r][2] \in Nat
  BY BoundsNat DEF Typed, RequestTypes, Processes
<1>6. served'[r] # <<>> => served'[r][1] = SlotOf[r] /\ served'[r][2] <= gen'[SlotOf[r]]
  BY <1>4, <1>5 DEF Aside, RequestSound, Lasts
<1> QED
  BY <1>1, <1>2, <1>3, <1>6 DEF Aside, RequestSound, Lasts

\* So does one that queues an event of neither its REQ nor its end.
LEMMA RequestSpoken ==
  ASSUME Typed, NEW r \in Requests, RequestSound(r), Lasts,
         NEW e \in Events, Send(e), e # ReqOf(r), \A p : e # EndOf(p, r),
         UNCHANGED <<loop, entry, served, told, work>>, alive' \subseteq alive, r \in asked' <=> r \in asked
  PROVE  RequestSound(r)'
<1>1. InQueue(ReqOf(r))' => InQueue(ReqOf(r))
  BY NothingQueued
<1>2. \A p \in Processes : InQueue(EndOf(p, r))' => InQueue(EndOf(p, r))
  BY NothingQueued
<1>3. Aside(r)
  BY DEF Aside
<1> QED
  BY <1>1, <1>2, <1>3, RequestAside

\* So does one that queues nothing.
LEMMA RequestCalm ==
  ASSUME Typed, NEW r \in Requests, RequestSound(r), Lasts, Aside(r),
         events' = events \/ \E kind : Taking(kind)
  PROVE  RequestSound(r)'
<1>1. InQueue(ReqOf(r))' => InQueue(ReqOf(r))
  BY NothingQueued
<1>2. \A p \in Processes : InQueue(EndOf(p, r))' => InQueue(EndOf(p, r))
  BY NothingQueued
<1> QED
  BY <1>1, <1>2, RequestAside

\* The relay sends a request's REQ once.
LEMMA RequestSent ==
  ASSUME Typed, NEW r \in Requests, RequestSound(r), Lasts,
         NEW q \in Requests, SendReq(q) \/ SendBody(q) \/ SendForceCancel(q)
  PROVE  RequestSound(r)'
<1>1. CASE SendReq(q)
  <2>1. ReqOf(q) \in Events /\ Send(ReqOf(q)) /\ \A p : ReqOf(q) # EndOf(p, r)
    BY <1>1 DEF SendReq, ReqOf, EndOf, Events, Messages
  <2>2. UNCHANGED <<loop, entry, served, told, work, alive>> /\ asked' = asked \cup {q} /\ q \notin asked
    BY <1>1 DEF SendReq, processes
  <2>3. CASE q # r
    <3>1. ReqOf(q) # ReqOf(r)
      BY <2>3, OtherEvents
    <3> QED
      BY <2>1, <2>2, <2>3, <3>1, RequestSpoken
  <2>4. CASE q = r
    <3>1. Unheard(r) /\ r \in asked'
      BY <2>2, <2>4 DEF Unheard
    <3>2. /\ entry'[r] = "none" /\ ~InHand(r)' /\ told'[r] = 0 /\ served'[r] = <<>>
      BY <2>2, <3>1 DEF RequestSound, InHand
    <3>3. \A p \in Processes : InQueue(EndOf(p, r))' => InQueue(EndOf(p, r))
      BY <2>1, NothingQueued
    <3>4. \A p \in Processes : <<p, r>> \notin work /\ ~InQueue(EndOf(p, r))
      BY <3>1, NothingIsNoProcess DEF RequestSound, WorkSound
    <3>5. \A p \in Processes : WorkSound(p, r)'
      BY <2>2, <3>3, <3>4 DEF WorkSound
    <3> QED
      BY <3>1, <3>2, <3>5 DEF RequestSound
  <2> QED
    BY <2>3, <2>4
<1>2. CASE SendBody(q) \/ SendForceCancel(q)
  <2>1. PICK e \in Events : Send(e) /\ \A p : e # EndOf(p, r) /\ e # ReqOf(r)
    <3>1. PICK k \in {"body", "cancel"} : Send([kind |-> k, of |-> q])
      BY <1>2 DEF SendBody, SendForceCancel
    <3>2. [kind |-> k, of |-> q] \in Events
      BY DEF Events, Messages
    <3>3. \A p : [kind |-> k, of |-> q] # EndOf(p, r) /\ [kind |-> k, of |-> q] # ReqOf(r)
      BY DEF EndOf, ReqOf
    <3> QED
      BY <3>1, <3>2, <3>3
  <2>2. UNCHANGED <<loop, entry, served, told, work, alive, asked>>
    BY <1>2 DEF SendBody, SendForceCancel, processes, relay
  <2>3. e # ReqOf(r) /\ \A p : e # EndOf(p, r)
    BY <2>1
  <2> QED
    BY <2>1, <2>2, <2>3, RequestSpoken
<1> QED
  BY <1>1, <1>2

\* The loop takes a request up, or refuses it.
LEMMA RequestTaken ==
  ASSUME Typed, OneReq, NEW r \in Requests, RequestSound(r), Lasts, HandleReq
  PROVE  RequestSound(r)'
<1>1. PICK q \in Requests : q = Event.of /\ Event = ReqOf(q)
  BY EventOf DEF HandleReq
<1>2. Taking("req") /\ UNCHANGED <<policy, entry, work, alive, asked, served>>
  BY DEF HandleReq, processes, relay
<1>3. \/ loop' # Idle /\ loop'.of = q /\ loop'.at # "write" /\ policy /\ told' = told
      \/ loop' = loop /\ Tell({q})
  BY <1>1 DEF HandleReq, At, Idle
<1>4. CASE q # r
  <2>1. told'[r] = told[r]
    BY <1>3, <1>4 DEF Tell, Typed, RequestTypes
  <2>2. Aside(r)
    BY <1>2, <1>3, <1>4, <2>1 DEF Aside
  <2> QED
    BY <1>2, <2>2, RequestCalm
<1>5. CASE q = r
  <2>1. InQueue(ReqOf(r)) /\ ~InQueue(ReqOf(r))'
    BY <1>1, <1>2, <1>5, Taken DEF Typed, LoopTypes
  <2>2. Unheard(r) /\ ~Unheard(r)' /\ r \in asked
    BY <1>2, <2>1 DEF Unheard, RequestSound
  <2>3. entry'[r] = "none" /\ served'[r] = <<>> /\ told[r] = 0
    BY <1>2, <2>2 DEF RequestSound
  <2>4. loop = Idle
    BY <1>2 DEF Taking
  <2>5. \A p \in Processes : InQueue(EndOf(p, r))' => InQueue(EndOf(p, r))
    BY <1>2, NothingQueued
  <2>6. \A p \in Processes : WorkSound(p, r)'
    BY <1>2, <2>2, <2>5, NothingIsNoProcess DEF RequestSound, WorkSound
  <2>7. InHand(r)' => policy' /\ loop'.at # "write" /\ told'[r] = 0
    BY <1>2, <1>3, <2>3, <2>4 DEF InHand
  <2> QED
    BY <2>1, <2>2, <2>3, <2>6, <2>7 DEF RequestSound
<1> QED
  BY <1>4, <1>5

\* The steps of the loop with a request in hand.
LEMMA RequestInHand ==
  ASSUME Typed, Slotted, Manned, NEW r \in Requests, RequestSound(r), Lasts,
         SpawnFails \/ Spawn \/ Record \/ Write
  PROVE  RequestSound(r)'
<1>1. PICK q \in Requests : q = loop.of /\ InHand(q)
  BY InTheLoop DEF SpawnFails, Spawn, Record, Write, Idle, InHand
<1>2. events' = events /\ asked' = asked /\ policy' = policy
  BY DEF SpawnFails, Spawn, Record, Write, relay
<1>3. (\A x : InQueue(x)' <=> InQueue(x)) /\ (Unheard(r)' <=> Unheard(r))
  BY <1>2 DEF InQueue, Unheard
<1>4. CASE SpawnFails
  <2>1. Tell({q}) /\ loop' = Idle /\ UNCHANGED <<entry, served, work, alive>>
    BY <1>1, <1>4 DEF SpawnFails, processes
  <2>2. CASE q # r
    <3>1. told'[r] = told[r]
      BY <2>1, <2>2 DEF Tell
    <3> QED
      BY <1>2, <2>1, <3>1, RequestCalm DEF Aside
  <2>3. CASE q = r
    <3>1. ~InHand(r)' /\ ~Unheard(r)
      BY <1>1, <2>1, <2>3 DEF InHand, RequestSound
    <3>2. entry'[r] = "none" /\ served'[r] = <<>>
      BY <1>1, <1>4, <2>1, <2>3 DEF SpawnFails, RequestSound
    <3>3. \A p \in Processes : WorkSound(p, r)'
      BY <1>1, <1>3, <2>1, <2>3, <3>2, NothingIsNoProcess DEF RequestSound, WorkSound
    <3> QED
      BY <1>2, <1>3, <3>1, <3>2, <3>3 DEF RequestSound
  <2> QED
    BY <2>2, <2>3
<1>5. CASE Spawn
  <2>1. PICK c \in Slots, n \in Nat : c = SlotOf[q] /\ n = gen[c] + 1 /\ alive' = alive \cup {<<c, n>>}
    BY <1>1, <1>5, SpawnedProcess DEF Spawn
  <2>2. loop' = At("record", q) /\ loop.at = "spawn" /\ UNCHANGED <<entry, served, told, work>>
    BY <1>1, <1>5 DEF Spawn
  <2>3. SlotOf[r] \in Slots /\ gen[SlotOf[r]] \in Nat
    BY SlotsTyped DEF Lasts
  <2>4. <<<<c, n>>, r>> \notin work
    <3>1. CASE <<c, n>> \in Processes
      <4>1. <<<<c, n>>, r>> \in work => served[r] = <<c, n>>
        BY <3>1 DEF RequestSound, WorkSound
      <4>2. served[r] = <<c, n>> => c = SlotOf[r] /\ n <= gen[SlotOf[r]]
        BY DEF RequestSound
      <4> QED
        BY <2>1, <2>3, <4>1, <4>2
    <3>2. CASE <<c, n>> \notin Processes
      BY <3>2 DEF Typed, ProcessTypes
    <3> QED
      BY <3>1, <3>2
  <2>5. CASE q # r
    <3>1. Aside(r)
      BY <1>2, <2>1, <2>2, <2>4, <2>5 DEF Aside, At
    <3> QED
      BY <1>2, <3>1, RequestCalm
  <2>6. CASE q = r
    <3>1. InHand(r)' /\ loop'.at = "record" /\ policy' /\ entry[r] = "none" /\ ~Unheard(r)
      BY <1>1, <1>2, <2>2, <2>6 DEF InHand, RequestSound, At, Idle
    <3>2. \A p \in Processes : WorkSound(p, r)'
      BY <1>1, <1>3, <2>2, <2>6, NothingIsNoProcess DEF RequestSound, WorkSound
    <3>3. served'[r] = <<>> /\ told'[r] = 0
      BY <1>1, <2>2, <2>6 DEF RequestSound
    <3> QED
      BY <1>2, <1>3, <2>2, <3>1, <3>2, <3>3 DEF RequestSound
  <2> QED
    BY <2>5, <2>6
<1>6. CASE Record
  <2>1. /\ entry' = [entry EXCEPT ![q] = IF q \in Bodied THEN "open" ELSE "read"]
        /\ loop' = At("write", q) /\ UNCHANGED <<served, told, work, alive>>
    BY <1>1, <1>6 DEF Record, processes
  <2>2. CASE q # r
    <3>1. entry'[r] = entry[r]
      BY <2>1, <2>2 DEF Typed, RequestTypes
    <3>2. Aside(r)
      BY <1>2, <2>1, <2>2, <3>1 DEF Aside, At
    <3> QED
      BY <1>2, <3>2, RequestCalm
  <2>3. CASE q = r
    <3>1. entry'[r] \in {"open", "read"}
      BY <2>1, <2>3 DEF Typed, RequestTypes
    <3>2. loop'.at = "write" /\ policy' /\ ~Unheard(r)
      BY <1>1, <1>2, <2>1, <2>3 DEF RequestSound, At
    <3>3. \A p \in Processes : WorkSound(p, r)'
      BY <1>1, <1>3, <2>1, <2>3, <3>1, NothingIsNoProcess DEF RequestSound, WorkSound
    <3>4. served'[r] = <<>> /\ told'[r] = 0
      BY <1>1, <2>1, <2>3 DEF RequestSound
    <3> QED
      BY <1>2, <1>3, <3>1, <3>2, <3>3, <3>4 DEF RequestSound
  <2> QED
    BY <2>2, <2>3
<1>7. CASE Write
  <2>c. PICK c \in Slots : c = SlotOf[q]
    BY <1>1, SlotsTyped
  <2>p. PICK p : p = <<c, writer[c]>>
    OBVIOUS
  <2>1. c = SlotOf[q] /\ p = <<c, writer[c]>>
    BY <2>c, <2>p
  <2>2. /\ loop' = Idle /\ alive' = alive /\ loop.at = "write"
        /\ \/ /\ p \in alive /\ work' = work \cup {<<p, q>>}
              /\ served' = [served EXCEPT ![q] = p]
              /\ UNCHANGED <<entry, told>>
           \/ /\ p \notin alive /\ Tell({q}) /\ entry' = [entry EXCEPT ![q] = "none"]
              /\ UNCHANGED <<work, served>>
    BY <1>1, <1>7, <2>1 DEF Write
  <2>3. CASE q # r
    <3>1. told'[r] = told[r] /\ served'[r] = served[r] /\ entry'[r] = entry[r]
      BY <2>2, <2>3 DEF Tell, Typed, RequestTypes
    <3>2. \A x \in Processes : <<x, r>> \in work' => <<x, r>> \in work
      BY <2>2, <2>3
    <3>3. Aside(r)
      BY <1>2, <2>2, <3>1, <3>2 DEF Aside
    <3> QED
      BY <1>2, <3>3, RequestCalm
  <2>4. CASE q = r
    <3>1. ~InHand(r)' /\ ~Unheard(r)' /\ policy /\ served[r] = <<>> /\ entry[r] \in {"open", "read"}
          /\ told[r] = 0
      BY <1>1, <1>3, <2>2, <2>4 DEF InHand, RequestSound
    <3>2. \A x \in Processes : <<x, r>> \notin work /\ ~InQueue(EndOf(x, r))'
      BY <1>3, <3>1, NothingIsNoProcess DEF RequestSound, WorkSound
    <3>3. CASE p \notin alive
      <4>1. entry'[r] = "none" /\ served'[r] = <<>> /\ work' = work
        BY <2>2, <2>4, <3>1, <3>3 DEF Typed, RequestTypes
      <4>2. \A x \in Processes : WorkSound(x, r)'
        BY <3>2, <4>1 DEF WorkSound
      <4> QED
        BY <1>2, <1>3, <3>1, <4>1, <4>2 DEF RequestSound
    <3>4. CASE /\ p \in alive /\ work' = work \cup {<<p, q>>} /\ served' = [served EXCEPT ![q] = p]
               /\ UNCHANGED <<entry, told>>
      <4>1. p \in Processes /\ p[1] = c /\ p[2] = gen[c] /\ running[c] /\ <<c, gen[c]>> = p
        BY <2>1, <3>4, OneAlive
      <4>2. p \in informed
        BY <3>1, <4>1 DEF Slotted, SlotSound
      <4>3. served'[r] = p
        BY <2>4, <3>4 DEF Typed, RequestTypes
      <4>4. \A x \in Processes : <<x, r>> \in work' => x = p
        BY <2>4, <3>2, <3>4
      <4>5. \A x \in Processes : WorkSound(x, r)'
        BY <3>1, <3>2, <3>4, <4>2, <4>3, <4>4 DEF WorkSound, Lasts, Routed
      <4>6. served'[r][1] = SlotOf[r] /\ served'[r][2] <= gen'[SlotOf[r]]
        BY <2>1, <2>4, <4>1, <4>3 DEF Lasts
      <4> QED
        BY <1>2, <1>3, <3>1, <3>4, <4>5, <4>6 DEF RequestSound
    <3> QED
      BY <2>2, <3>3, <3>4
  <2> QED
    BY <2>3, <2>4
<1> QED
  BY <1>4, <1>5, <1>6, <1>7

\* The body's END of a request.
LEMMA RequestRead ==
  ASSUME Typed, Slotted, Manned, NEW r \in Requests, RequestSound(r), Lasts, HandleBody
  PROVE  RequestSound(r)'
<1>1. PICK q \in Requests : q = Event.of
  BY EventOf DEF HandleBody
<1>2. PICK p : p = <<SlotOf[q], writer[SlotOf[q]]>>
  OBVIOUS
<1>3. /\ Taking("body") /\ UNCHANGED <<loop, policy, alive, work, asked, served>>
      /\ \/ /\ Routed(q) /\ p \in alive
            /\ entry' = [entry EXCEPT ![q] = IF @ = "answered" THEN "none" ELSE "read"]
            /\ told' = told
         \/ /\ Routed(q) /\ p \notin alive
            /\ entry' = [entry EXCEPT ![q] = "none"]
            /\ Tell({q})
         \/ ~Routed(q) /\ UNCHANGED <<entry, told>>
  BY <1>1, <1>2 DEF HandleBody, processes, relay
<1>4. loop = Idle
  BY <1>3 DEF Taking
<1>5. CASE q # r \/ ~Routed(q)
  <2>1. told'[r] = told[r] /\ entry'[r] = entry[r]
    BY <1>3, <1>5 DEF Tell, Typed, RequestTypes
  <2> QED
    BY <1>3, <2>1, RequestCalm DEF Aside
<1>6. CASE q = r /\ Routed(q)
  <2>1. ~Unheard(r) /\ ~InHand(r)'
    BY <1>3, <1>4, <1>6 DEF RequestSound, Routed, InHand
  <2>2. (InQueue(ReqOf(r))' => InQueue(ReqOf(r))) /\ ~Unheard(r)'
    BY <1>3, <2>1, NothingQueued DEF Unheard
  <2>3. \A x \in Processes : InQueue(EndOf(x, r))' => InQueue(EndOf(x, r))
    BY <1>3, NothingQueued
  <2>4. entry'[r] \in {"none", "read"} /\ (entry'[r] = "read" => told'[r] = 0)
    BY <1>3, <1>6 DEF Typed, RequestTypes, RequestSound, Routed, Stages
  <2>5. ASSUME NEW x \in Processes, <<x, r>> \in work, x \in alive PROVE entry'[r] # "none"
    <3>1. served[r] = x /\ entry[r] # "answered"
      BY <2>5 DEF RequestSound, WorkSound
    <3>2. x = p
      BY <1>2, <1>6, <2>5, <3>1, OneAlive, NothingIsNoProcess DEF RequestSound
    <3> QED
      BY <1>3, <1>6, <2>5, <3>1, <3>2 DEF Typed, RequestTypes
  <2>6. \A x \in Processes : WorkSound(x, r)'
    BY <1>3, <2>3, <2>4, <2>5 DEF RequestSound, WorkSound, Lasts, Routed
  <2>7. served'[r] # <<>> => served'[r][1] = SlotOf[r] /\ served'[r][2] <= gen'[SlotOf[r]]
    <3>1. SlotOf[r] \in Slots /\ (served[r] # <<>> => served[r][2] \in Nat)
      BY SlotsTyped, BoundsNat DEF Typed, RequestTypes, Processes
    <3> QED
      BY <1>3, <3>1 DEF RequestSound, Lasts
  <2> QED
    BY <1>3, <2>1, <2>2, <2>4, <2>6, <2>7 DEF RequestSound
<1> QED
  BY <1>5, <1>6

\* The response of the process the request was written to.
LEMMA RequestEnds ==
  ASSUME Typed, NEW r \in Requests, RequestSound(r), Lasts, HandleEnd
  PROVE  RequestSound(r)'
<1>1. PICK p \in Processes, q \in Requests : p = Event.from /\ q = Event.of /\ Event = EndOf(p, q)
  BY EventOf DEF HandleEnd
<1>2. /\ Taking("end") /\ UNCHANGED <<loop, policy, alive, work, asked, served>>
      /\ (Answered(q) /\ Tell({q})) \/ UNCHANGED <<entry, told>>
  BY <1>1 DEF HandleEnd, processes, relay
<1>3. CASE UNCHANGED <<entry, told>>
  BY <1>2, <1>3, RequestCalm DEF Aside
<1>4. CASE q # r /\ Answered(q) /\ Tell({q})
  <2>1. told'[r] = told[r] /\ entry'[r] = entry[r]
    BY <1>4 DEF Tell, Answered, Typed, RequestTypes
  <2> QED
    BY <1>2, <2>1, RequestCalm DEF Aside
<1>5. CASE q = r /\ Answered(q)
  <2>1. InQueue(EndOf(p, r)) /\ served[r] = p
    BY <1>1, <1>2, <1>5, Taken DEF Typed, LoopTypes, RequestSound, WorkSound
  <2>2. ~Unheard(r) /\ ~InHand(r)'
    BY <1>2, <2>1, NothingIsNoProcess DEF RequestSound, InHand, Taking
  <2>3. (InQueue(ReqOf(r))' => InQueue(ReqOf(r))) /\ ~Unheard(r)'
    BY <1>2, <2>2, NothingQueued DEF Unheard
  <2>4. \A x \in Processes : InQueue(EndOf(x, r))' => InQueue(EndOf(x, r))
    BY <1>2, NothingQueued
  <2>5. entry'[r] \notin {"open", "read"}
    BY <1>5 DEF Answered, Typed, RequestTypes, Stages
  <2>6. \A x \in Processes : <<x, r>> \notin work
    BY <2>1 DEF RequestSound, WorkSound
  <2>7. \A x \in Processes : WorkSound(x, r)'
    BY <1>2, <2>4, <2>6 DEF RequestSound, WorkSound
  <2>8. served'[r] # <<>> => served'[r][1] = SlotOf[r] /\ served'[r][2] <= gen'[SlotOf[r]]
    <3>1. SlotOf[r] \in Slots /\ (served[r] # <<>> => served[r][2] \in Nat)
      BY SlotsTyped, BoundsNat DEF Typed, RequestTypes, Processes
    <3> QED
      BY <1>2, <3>1 DEF RequestSound, Lasts
  <2> QED
    BY <1>2, <2>2, <2>3, <2>5, <2>7, <2>8 DEF RequestSound
<1> QED
  BY <1>2, <1>3, <1>4, <1>5

\* A process that is torn down takes the entries of its slot with it.
LEMMA RequestTornDown ==
  ASSUME Typed, Slotted, Manned, NEW r \in Requests, RequestSound(r), Lasts,
         NEW c \in Slots, TearDown(c), \E kind : Taking(kind),
         UNCHANGED <<loop, policy, work, asked, served, informed>>
  PROVE  RequestSound(r)'
<1>1. /\ alive' = alive \ {Holds(c)} /\ Tell(Entries(c))
      /\ entry' = [q \in Requests |-> IF SlotOf[q] = c THEN "none" ELSE entry[q]]
  BY DEF TearDown
<1>2. CASE ~(Routed(r) /\ SlotOf[r] = c)
  <2>1. told'[r] = told[r] /\ entry'[r] = entry[r]
    BY <1>1, <1>2 DEF Tell, Entries, Routed, Typed, RequestTypes
  <2> QED
    BY <1>1, <2>1, RequestCalm DEF Aside
<1>3. CASE Routed(r) /\ SlotOf[r] = c
  <2>1. entry'[r] = "none" /\ ~InHand(r)'
    BY <1>1, <1>3 DEF Taking, InHand
  <2>2. (InQueue(ReqOf(r))' => InQueue(ReqOf(r))) /\ ~Unheard(r)'
    BY <1>3, NothingQueued DEF Unheard, RequestSound, Routed
  <2>3. \A x \in Processes : InQueue(EndOf(x, r))' => InQueue(EndOf(x, r))
    BY NothingQueued
  <2>4. ASSUME NEW x \in Processes, <<x, r>> \in work PROVE x \notin alive'
    <3>1. served[r] = x /\ x[1] = c
      BY <1>3, <2>4, NothingIsNoProcess DEF RequestSound, WorkSound
    <3>2. x \in alive => x = Holds(c)
      BY <3>1, OneAlive
    <3> QED
      BY <1>1, <3>2
  <2>5. \A x \in Processes : WorkSound(x, r)'
    BY <2>1, <2>3, <2>4 DEF RequestSound, WorkSound
  <2>6. served'[r] # <<>> => served'[r][1] = SlotOf[r] /\ served'[r][2] <= gen'[SlotOf[r]]
    <3>1. SlotOf[r] \in Slots /\ (served[r] # <<>> => served[r][2] \in Nat)
      BY SlotsTyped, BoundsNat DEF Typed, RequestTypes, Processes
    <3> QED
      BY <3>1 DEF RequestSound, Lasts
  <2> QED
    BY <2>1, <2>2, <2>5, <2>6 DEF RequestSound
<1> QED
  BY <1>2, <1>3

\* A process hands in its work.
LEMMA RequestAnswered ==
  ASSUME Typed, NEW r \in Requests, RequestSound(r), Lasts,
         NEW p \in Processes, NEW q \in Requests, Answer(p, q)
  PROVE  RequestSound(r)'
<1>1. /\ <<p, q>> \in work /\ work' = work \ {<<p, q>>} /\ Send(EndOf(p, q))
      /\ EndOf(p, q) \in Events
      /\ UNCHANGED <<loop, policy, entry, alive, asked, served, told>>
  BY DEF Answer, EndOf, Events, Ends, relay
<1>2. InQueue(ReqOf(r))' => InQueue(ReqOf(r))
  BY <1>1, NothingQueued, OtherEvents
<1>3. CASE q # r
  <2>1. \A x \in Processes : InQueue(EndOf(x, r))' => InQueue(EndOf(x, r))
    BY <1>1, <1>3, NothingQueued, OtherEvents
  <2> QED
    BY <1>1, <1>2, <1>3, <2>1, RequestAside DEF Aside
<1>4. CASE q = r
  <2>1. served[r] = p
    BY <1>1, <1>4 DEF RequestSound, WorkSound
  <2>2. ~Unheard(r) /\ ~Unheard(r)' /\ ~InHand(r)'
    BY <1>1, <1>2, <2>1, NothingIsNoProcess DEF RequestSound, Unheard, InHand
  <2>3. \A x \in Processes : InQueue(EndOf(x, r))' => x = p
    <3>1. ASSUME NEW x \in Processes, x # p PROVE ~InQueue(EndOf(x, r))'
      <4>1. ~InQueue(EndOf(x, r))
        BY <2>1, <3>1 DEF RequestSound, WorkSound
      <4>2. EndOf(p, q) # EndOf(x, r)
        BY <3>1, OtherEvents
      <4> QED
        BY <1>1, <4>1, <4>2, NothingQueued
    <3> QED
      BY <3>1
  <2>4. \A x \in Processes : <<x, r>> \notin work'
    BY <1>1, <1>4, <2>1 DEF RequestSound, WorkSound
  <2>5. \A x \in Processes : WorkSound(x, r)'
    BY <1>1, <2>1, <2>3, <2>4 DEF WorkSound
  <2>6. served'[r] # <<>> => served'[r][1] = SlotOf[r] /\ served'[r][2] <= gen'[SlotOf[r]]
    <3>1. SlotOf[r] \in Slots /\ p[2] \in Nat
      BY SlotsTyped, BoundsNat DEF Processes
    <3> QED
      BY <1>1, <2>1, <3>1, NothingIsNoProcess DEF RequestSound, Lasts
  <2> QED
    BY <1>1, <1>2, <2>2, <2>5, <2>6 DEF RequestSound
<1> QED
  BY <1>3, <1>4

\* The relay sends the REQ of a request once.
LEMMA OneReqStep ==
  ASSUME Typed, OneReq, \A r \in Requests : RequestSound(r), [Next]_vars
  PROVE  OneReq'
<1>1. events \in Seq(Events)
  BY DEF Typed, LoopTypes
<1>2. CASE events' = events
  BY <1>2 DEF OneReq
<1>3. ASSUME NEW kind, Taking(kind) PROVE OneReq'
  BY <1>1, <1>3, Taken
<1>4. ASSUME NEW e \in Events, Send(e), e.kind # "req" PROVE OneReq'
  BY <1>1, <1>4, Sent
<1>5. ASSUME NEW r \in Requests, SendReq(r) PROVE OneReq'
  <2>1. ReqOf(r) \in Events /\ Send(ReqOf(r)) /\ ~InQueue(ReqOf(r))
    BY <1>5 DEF SendReq, ReqOf, Events, Messages, RequestSound
  <2> QED
    BY <1>1, <2>1, Sent
<1>6. ASSUME NEW r \in Requests, SendBody(r) \/ SendForceCancel(r) PROVE OneReq'
  <2>1. PICK k \in {"body", "cancel"} : Send([kind |-> k, of |-> r])
    BY <1>6 DEF SendBody, SendForceCancel
  <2>2. [kind |-> k, of |-> r] \in Events /\ [kind |-> k, of |-> r].kind # "req"
    BY DEF Events, Messages
  <2> QED
    BY <1>4, <2>1, <2>2
<1>7. ASSUME NEW p \in Processes, AnswerProbe(p) \/ ReadEof(p) PROVE OneReq'
  <2>1. PICK k \in {"beat", "death"} : Send([kind |-> k, from |-> p])
    BY <1>7 DEF AnswerProbe, ReadEof
  <2>2. [kind |-> k, from |-> p] \in Events /\ [kind |-> k, from |-> p].kind # "req"
    BY DEF Events, Signs
  <2> QED
    BY <1>4, <2>1, <2>2
<1>8. ASSUME NEW p \in Processes, NEW r \in Requests, Answer(p, r) PROVE OneReq'
  <2>1. EndOf(p, r) \in Events /\ EndOf(p, r).kind # "req" /\ Send(EndOf(p, r))
    BY <1>8 DEF Answer, EndOf, Events, Ends
  <2> QED
    BY <1>4, <2>1
<1>9. ASSUME NEW c \in Slots, Tick(c) PROVE OneReq'
  <2>1. [kind |-> "tick", of |-> c] \in Events /\ Send([kind |-> "tick", of |-> c])
    BY <1>9 DEF Tick, Events, Ticks
  <2>2. [kind |-> "tick", of |-> c].kind # "req"
    OBVIOUS
  <2> QED
    BY <1>4, <2>1, <2>2
<1>10. HandleReq \/ HandleBody \/ HandleForceCancel \/ HandleEnd \/ HandleBeat \/ HandleDeath
         \/ HandleTick => \E kind : Taking(kind)
  BY DEF HandleReq, HandleBody, HandleForceCancel, HandleEnd, HandleBeat, HandleDeath, HandleTick
<1>11. SpawnFails \/ Spawn \/ Record \/ Write \/ Reap \/ Strike \/ SetPolicy => events' = events
  BY DEF SpawnFails, Spawn, Record, Write, Reap, Strike, SetPolicy
<1>12. (\E p \in Processes : Crash(p)) \/ (\E c \in Slots : Overdue(c) \/ Choose(c))
         \/ (\E found \in SUBSET Slots : Sync(found)) => events' = events
  BY DEF Crash, Overdue, Choose, Sync
<1>13. UNCHANGED vars => events' = events
  BY DEF vars
<1> QED
  BY <1>2, <1>3, <1>5, <1>6, <1>7, <1>8, <1>9, <1>10, <1>11, <1>12, <1>13 DEF Next, Loop

\* Every step keeps every request sound.
LEMMA RequestSoundStep ==
  ASSUME Typed, Slotted, Manned, OneReq, NEW r \in Requests, RequestSound(r), [Next]_vars
  PROVE  RequestSound(r)'
<1>0. Lasts
  BY GenerationsGrow, PolicyLasts DEF Lasts
<1>1. CASE UNCHANGED <<loop, entry, work, asked, served, told>> /\ alive' \subseteq alive
           /\ (events' = events \/ \E kind : Taking(kind))
  BY <1>0, <1>1, RequestCalm DEF Aside
<1>2. ASSUME NEW e \in Events, Send(e), e # ReqOf(r), \A p : e # EndOf(p, r),
             UNCHANGED <<loop, entry, work, asked, served, told, alive>>
      PROVE  RequestSound(r)'
  BY <1>0, <1>2, RequestSpoken
<1>3. ASSUME NEW q \in Requests, SendReq(q) \/ SendBody(q) \/ SendForceCancel(q)
      PROVE  RequestSound(r)'
  BY <1>0, <1>3, RequestSent
<1>4. ASSUME NEW p \in Processes, NEW q \in Requests, Answer(p, q) PROVE RequestSound(r)'
  BY <1>0, <1>4, RequestAnswered
<1>5. ASSUME NEW p \in Processes, AnswerProbe(p) \/ ReadEof(p) PROVE RequestSound(r)'
  <2>1. PICK k \in {"beat", "death"} : Send([kind |-> k, from |-> p])
    BY <1>5 DEF AnswerProbe, ReadEof
  <2>2. /\ [kind |-> k, from |-> p] \in Events /\ [kind |-> k, from |-> p] # ReqOf(r)
        /\ \A q : [kind |-> k, from |-> p] # EndOf(q, r)
    BY DEF Events, Signs, ReqOf, EndOf
  <2>3. UNCHANGED <<loop, entry, work, asked, served, told, alive>>
    BY <1>5 DEF AnswerProbe, ReadEof, relay
  <2> QED
    BY <1>2, <2>1, <2>2, <2>3
<1>6. ASSUME NEW p \in Processes, Crash(p) PROVE RequestSound(r)'
  BY <1>1, <1>6 DEF Crash, relay
<1>7. ASSUME NEW c \in Slots, Tick(c) PROVE RequestSound(r)'
  <2>1. /\ [kind |-> "tick", of |-> c] \in Events /\ [kind |-> "tick", of |-> c] # ReqOf(r)
        /\ \A q : [kind |-> "tick", of |-> c] # EndOf(q, r)
    BY DEF Events, Ticks, ReqOf, EndOf
  <2>2. /\ Send([kind |-> "tick", of |-> c])
        /\ UNCHANGED <<loop, entry, work, asked, served, told, alive>>
    BY <1>7 DEF Tick, processes, relay
  <2> QED
    BY <1>2, <2>1, <2>2
<1>8. (\E c \in Slots : Overdue(c) \/ Choose(c)) => RequestSound(r)'
  BY <1>1 DEF Overdue, Choose, processes, relay
<1>9. HandleReq => RequestSound(r)'
  BY <1>0, RequestTaken
<1>10. SpawnFails \/ Spawn \/ Record \/ Write => RequestSound(r)'
  BY <1>0, RequestInHand
<1>11. HandleBody => RequestSound(r)'
  BY <1>0, RequestRead
<1>12. HandleEnd => RequestSound(r)'
  BY <1>0, RequestEnds
<1>13. HandleForceCancel \/ HandleBeat => RequestSound(r)'
  BY <1>1 DEF HandleForceCancel, HandleBeat, processes, relay
<1>14. CASE HandleDeath
  <2>1. PICK p \in Processes :
          \/ TearDown(p[1])
          \/ UNCHANGED <<slots, alive, entry, told>>
    BY <1>14, DeathStep
  <2>2. p[1] \in Slots /\ Taking("death") /\ UNCHANGED <<loop, policy, work, asked, served, informed>>
    BY <1>14 DEF HandleDeath, Processes, relay
  <2> QED
    BY <1>0, <1>1, <2>1, <2>2, RequestTornDown
<1>15. CASE HandleTick
  <2>1. /\ Event.of \in Slots /\ Taking("tick")
        /\ UNCHANGED <<loop, policy, work, asked, served, informed>>
    BY <1>15, EventOf DEF HandleTick, relay
  <2>2. PICK c \in Slots : c = Event.of
    BY <2>1
  <2>3. TearDown(c) \/ UNCHANGED <<alive, entry, told>>
    BY <1>15, <2>2 DEF HandleTick
  <2> QED
    BY <1>0, <1>1, <2>1, <2>3, RequestTornDown
<1>16. Reap \/ (\E found \in SUBSET Slots : Sync(found)) => RequestSound(r)'
  BY <1>1 DEF Reap, Sync, RetireKill, relay
<1>17. Strike \/ SetPolicy => RequestSound(r)'
  BY <1>1 DEF Strike, SetPolicy, processes, relay
<1>18. UNCHANGED vars => RequestSound(r)'
  BY <1>1 DEF vars, processes, relay
<1> QED
  BY <1>3, <1>4, <1>5, <1>6, <1>7, <1>8, <1>9, <1>10, <1>11, <1>12, <1>13, <1>14, <1>15, <1>16,
     <1>17, <1>18 DEF Next, Loop

-----------------------------------------------------------------------------
(* The invariant.                                                          *)

Sound ==
  /\ Typed /\ Slotted /\ Manned /\ OneReq
  /\ \A r \in Requests : RequestSound(r)

\* The initial states are sound.
LEMMA InitSound == Init => Sound
<1> SUFFICES ASSUME Init PROVE Sound
  OBVIOUS
<1>1. Typed
  BY InitTyped
<1>2. events = <<>> /\ \A e : ~InQueue(e)
  BY DEF Init, InQueue
<1>3. Slotted
  BY BoundsNat DEF Init, Slotted, SlotSound, Generations
<1>4. Manned
  BY <1>2 DEF Init, Manned, ProcessSound
<1>5. OneReq
  BY <1>2 DEF OneReq
<1>6. \A r \in Requests : RequestSound(r)
  <2> SUFFICES ASSUME NEW r \in Requests PROVE RequestSound(r)
    OBVIOUS
  <2>1. ~InHand(r) /\ entry[r] = "none" /\ told[r] = 0 /\ served[r] = <<>> /\ work = {}
    BY DEF Init, InHand
  <2> QED
    BY <1>2, <2>1 DEF RequestSound, WorkSound
<1> QED
  BY <1>1, <1>3, <1>4, <1>5, <1>6 DEF Sound

\* Every step keeps the state sound.
LEMMA NextSound == Sound /\ [Next]_vars => Sound'
<1> SUFFICES ASSUME Sound, [Next]_vars PROVE Sound'
  OBVIOUS
<1>1. Typed' /\ Manned' /\ OneReq'
  BY NextTyped, MannedStep, OneReqStep DEF Sound
<1>2. Slotted'
  BY SlotStep, ProcessStep DEF Sound, Slotted
<1>3. \A r \in Requests : RequestSound(r)'
  BY RequestSoundStep DEF Sound
<1> QED
  BY <1>1, <1>2, <1>3 DEF Sound

\* Every state the host reaches is sound: its slots, the processes behind
\* them, the queue and the requests agree.
THEOREM SoundAlways == Spec => []Sound
<1>1. Init => Sound
  BY InitSound
<1>2. Sound /\ [Next]_vars => Sound'
  BY NextSound
<1> QED
  BY <1>1, <1>2, PTL DEF Spec

\* The sound states are typed.
LEMMA SoundTyped == Sound => TypeOK
<1> SUFFICES ASSUME Sound PROVE TypeOK
  OBVIOUS
<1>1. ASSUME NEW c \in Slots PROVE gen[c] \in Generations
  <2>1. gen[c] \in 1..(2 * MaxSpawns - 1) \/ gen[c] \in Generations
    BY DEF Sound, Slotted, SlotSound
  <2> QED
    BY <2>1, BoundsNat DEF Generations
<1>2. \A c \in Slots : pid[c] \in Generations /\ writer[c] \in Generations
  <2> SUFFICES ASSUME NEW c \in Slots PROVE pid[c] \in Generations /\ writer[c] \in Generations
    OBVIOUS
  <2>1. gen[c] \in Generations /\ 0 \in Generations
    BY <1>1, BoundsNat DEF Generations
  <2> QED
    BY <2>1 DEF Sound, Slotted, SlotSound
<1>3. /\ gen \in [Slots -> Generations] /\ pid \in [Slots -> Generations]
      /\ writer \in [Slots -> Generations]
  BY <1>1, <1>2 DEF Sound, Typed, NumberTypes
<1>4. loop.at \in {"idle", "spawn", "record", "write"} /\ killer.stage \in {"none", "chosen"}
  BY DEF Sound, Typed, LoopTypes, Idle, Calm, Steps, Chosen
<1>5. alive \subseteq readers /\ informed \subseteq Processes
  BY DEF Sound, Slotted, Manned, ProcessSound, Typed, ProcessTypes
<1>6. policy \in BOOLEAN
  BY DEF Sound, Typed, LoopTypes
<1>7. /\ running \in [Slots -> BOOLEAN] /\ routable \in [Slots -> BOOLEAN]
      /\ removed \in [Slots -> BOOLEAN] /\ failed \in [Slots -> BOOLEAN]
      /\ retiring \in [Slots -> BOOLEAN]
      /\ reason \in [Slots -> Reasons] /\ probe \in [Slots -> {"none", "sent", "late"}]
  BY DEF Sound, Typed, FlagTypes
<1>8. /\ ticks \in 0..MaxTicks /\ syncs \in 0..MaxSyncs /\ kills \in 0..MaxKills
      /\ RequestTypes /\ ProcessTypes
  BY DEF Sound, Typed, LoopTypes
<1> QED
  BY <1>3, <1>4, <1>5, <1>6, <1>7, <1>8 DEF TypeOK, RequestTypes, ProcessTypes, Reasons, Stages

\* The host's variables keep their types: the generations a slot goes through
\* are bounded, and only a process with a reader is alive.
THEOREM TypeCorrect == Spec => []TypeOK
<1>1. Spec => []Sound
  BY SoundAlways
<1>2. Sound => TypeOK
  BY SoundTyped
<1> QED
  BY <1>1, <1>2, PTL

\* Whatever a process has in hand was written to it after the host's policy: the
\* policy reaches a process that exists when it is set, a later one as it is
\* spawned (sendPolicy).
THEOREM PolicyBeforeWork == Spec => []PolicyFirst
<1>1. Spec => []Sound
  BY SoundAlways
<1>2. Sound => PolicyFirst
  BY DEF Sound, RequestSound, WorkSound, PolicyFirst
<1> QED
  BY <1>1, <1>2, PTL

-----------------------------------------------------------------------------
(* What a step may do.                                                     *)

\* The process a slot's writer goes to.
Writes(c) == <<c, writer[c]>>

\* Why a caller is told of an end: its request was never handed to a process,
\* its process answered, or is gone or overdue.
Unserved(r) == told[r] = 0 /\ served[r] = <<>>
Responded(r) == Event = EndOf(served[r], r) /\ Current(served[r])
Abandoned(r) == Routed(r) /\ (Writes(SlotOf[r]) \notin alive \/ probe[SlotOf[r]] = "late")

\* Tearing a slot down tells the requests routed to it.
LEMMA TornDownTold ==
  ASSUME Typed, NEW r \in Requests, told'[r] > told[r], NEW c, TearDown(c)
  PROVE  Routed(r) /\ SlotOf[r] = c
<1>1. Tell(Entries(c)) /\ told[r] \in Nat
  BY DEF TearDown, Typed, RequestTypes
<1>2. r \in Entries(c)
  BY <1>1 DEF Tell
<1> QED
  BY <1>2 DEF Entries

\* Whoever is told of an end is told for one of the three reasons.
LEMMA WhyTold ==
  ASSUME Sound, [Next]_vars, NEW r \in Requests, told'[r] > told[r]
  PROVE  Unserved(r) \/ Responded(r) \/ Abandoned(r)
<1>0. Typed /\ Slotted /\ Manned /\ RequestSound(r) /\ told[r] \in Nat /\ told' # told
  BY DEF Sound, Typed, RequestTypes
<1>1. ASSUME NEW q, Tell({q}) PROVE q = r
  BY <1>0, <1>1 DEF Tell
<1>2. CASE HandleReq
  <2>1. Event.of = r /\ Event = ReqOf(r) /\ Taking("req")
    BY <1>0, <1>1, <1>2, EventOf DEF HandleReq
  <2>2. InQueue(ReqOf(r))
    BY <1>0, <2>1, Taken DEF Typed, LoopTypes
  <2> QED
    BY <1>0, <2>2 DEF Unheard, RequestSound, Unserved
<1>3. CASE SpawnFails \/ Write
  <2>1. loop.at # "idle" /\ Tell({loop.of})
    <3>1. CASE SpawnFails
      BY <3>1 DEF SpawnFails
    <3>2. CASE Write
      BY <1>0, <3>2 DEF Write
    <3> QED
      BY <1>3, <3>1, <3>2
  <2>2. loop.of = r /\ loop # Idle
    BY <1>1, <2>1 DEF Idle
  <2> QED
    BY <1>0, <2>2 DEF InHand, RequestSound, Unserved
<1>4. CASE HandleBody
  <2>1. Event.of = r /\ Routed(r) /\ Writes(SlotOf[r]) \notin alive
    BY <1>0, <1>1, <1>4 DEF HandleBody, Writes
  <2> QED
    BY <2>1 DEF Abandoned
<1>5. CASE HandleEnd
  <2>1. PICK p \in Processes : /\ p = Event.from /\ Event = EndOf(p, r) /\ Taking("end")
                               /\ Current(p)
    BY <1>0, <1>1, <1>5, EventOf DEF HandleEnd
  <2>2. InQueue(EndOf(p, r))
    BY <1>0, <2>1, Taken DEF Typed, LoopTypes
  <2>3. served[r] = p
    BY <1>0, <2>2 DEF RequestSound, WorkSound
  <2> QED
    BY <2>1, <2>3 DEF Responded
<1>6. CASE HandleDeath
  <2>1. PICK p \in Processes : /\ Event = DeathOf(p) /\ TearDown(p[1])
                               /\ running[p[1]] /\ gen[p[1]] = p[2]
    BY <1>0, <1>6, DeathStep
  <2>2. InQueue(DeathOf(p)) /\ p[1] \in Slots /\ p = <<p[1], p[2]>>
    BY <1>0, <1>6, <2>1, Taken DEF HandleDeath, Typed, LoopTypes, Processes
  <2>3. p \notin alive
    BY <1>0, <2>2 DEF Manned, ProcessSound
  <2>4. Writes(p[1]) = p
    BY <1>0, <2>1, <2>2 DEF Slotted, SlotSound, Writes
  <2>5. Routed(r) /\ SlotOf[r] = p[1]
    BY <1>0, <2>1, TornDownTold
  <2> QED
    BY <2>3, <2>4, <2>5 DEF Abandoned
<1>7. CASE HandleTick
  <2>1. PICK c : c = Event.of /\ TearDown(c) /\ (probe[c] = "late" \/ Writes(c) \notin alive)
    BY <1>0, <1>7 DEF HandleTick, Writes
  <2>2. Routed(r) /\ SlotOf[r] = c
    BY <1>0, <2>1, TornDownTold
  <2> QED
    BY <2>1, <2>2 DEF Abandoned
<1>8. Spawn \/ Record \/ HandleForceCancel \/ HandleBeat \/ Reap \/ Strike \/ SetPolicy
        => told' = told
  BY DEF Spawn, Record, HandleForceCancel, HandleBeat, Reap, Strike, SetPolicy
<1>9. \A q \in Requests : SendReq(q) \/ SendBody(q) \/ SendForceCancel(q) => told' = told
  BY DEF SendReq, SendBody, SendForceCancel
<1>10. \A p \in Processes :
         AnswerProbe(p) \/ Crash(p) \/ ReadEof(p) \/ (\E q \in Requests : Answer(p, q)) => told' = told
  BY DEF AnswerProbe, Crash, ReadEof, Answer
<1>11. (\E c \in Slots : Overdue(c) \/ Tick(c) \/ Choose(c))
         \/ (\E found \in SUBSET Slots : Sync(found)) => told' = told
  BY DEF Overdue, Tick, Choose, Sync
<1>12. UNCHANGED vars => told' = told
  BY DEF vars
<1> QED
  BY <1>0, <1>2, <1>3, <1>4, <1>5, <1>6, <1>7, <1>8, <1>9, <1>10, <1>11, <1>12 DEF Next, Loop

\* None of them tells a second end, but to the one entry that is kept.
LEMMA StepOneTerminal ==
  ASSUME Sound, [Next]_vars, NEW r \in Requests, told[r] > 0, told'[r] > told[r]
  PROVE  \/ entry[r] = "answered"
         \/ Event.kind = "end" /\ Event.from = served[r] /\ Current(Event.from)
<1>1. CASE Unserved(r)
  BY <1>1 DEF Unserved
<1>2. CASE Responded(r)
  BY <1>2 DEF Responded, EndOf
<1>3. CASE Abandoned(r)
  <2>1. entry[r] \in Stages /\ entry[r] # "none" /\ told[r] # 0
    BY <1>3 DEF Abandoned, Routed, Sound, Typed, RequestTypes
  <2> QED
    BY <2>1 DEF Stages, Sound, RequestSound
<1> QED
  BY <1>1, <1>2, <1>3, WhyTold

\* None of them is the death of another process.
LEMMA StepNoInnocentFails ==
  ASSUME Sound, [Next]_vars, NEW r \in Requests, told'[r] > told[r], served[r] \in alive
  PROVE  probe[SlotOf[r]] = "late" \/ Event = [kind |-> "end", from |-> served[r], of |-> r]
<1>1. served[r] \in Processes /\ served[r] # <<>>
  BY NothingIsNoProcess DEF Sound, Typed, ProcessTypes
<1>2. CASE Unserved(r)
  BY <1>1, <1>2 DEF Unserved
<1>3. CASE Responded(r)
  BY <1>3 DEF Responded, EndOf
<1>4. CASE Abandoned(r)
  <2>1. served[r][1] = SlotOf[r]
    BY <1>1 DEF Sound, RequestSound
  <2>2. served[r] = Writes(SlotOf[r])
    BY <2>1, OneAlive DEF Sound, Writes
  <2> QED
    BY <1>4, <2>2 DEF Abandoned
<1> QED
  BY <1>2, <1>3, <1>4, WhyTold

\* A writer that is let go of under the same generation was its slot's retired
\* process.
LEMMA WhyLetGo ==
  ASSUME Sound, [Next]_vars, NEW c \in Slots, writer[c] # 0, writer'[c] = 0, gen'[c] = gen[c]
  PROVE  Drained(c) \/ DrainExpires
<1>0. Typed /\ writer' # writer /\ gen[c] \in Nat /\ writer[c] \in Nat
  BY DEF Sound, Typed, NumberTypes
<1>1. CASE Spawn
  <2>1. PICK d \in Slots : d = SlotOf[loop.of] /\ gen[d] + 1 \in 1..(2 * MaxSpawns - 1)
    BY <1>0, <1>1, SpawnedProcess
  <2>2. writer' = [writer EXCEPT ![d] = gen[d] + 1]
    BY <1>1, <2>1 DEF Spawn
  <2>3. writer'[c] = writer[c] \/ writer'[c] = gen[c] + 1
    BY <2>1, <2>2 DEF Sound, Typed, NumberTypes
  <2> QED
    BY <1>0, <2>3
<1>2. ASSUME NEW d \in Slots, TearDown(d) PROVE FALSE
  <2>1. c # d => writer'[c] = writer[c]
    BY <1>0, <1>2 DEF TearDown, Typed, NumberTypes
  <2>2. c = d => gen'[c] = gen[c] + 1
    BY <1>0, <1>2 DEF TearDown, Typed, NumberTypes
  <2> QED
    BY <1>0, <2>1, <2>2
<1>3. CASE HandleDeath
  <2>1. PICK p \in Processes : TearDown(p[1]) \/ UNCHANGED slots
    BY <1>3, DeathStep DEF Sound
  <2>2. p[1] \in Slots
    BY DEF Processes
  <2> QED
    BY <1>0, <1>2, <2>1, <2>2 DEF slots
<1>4. CASE HandleTick
  <2>1. Event.of \in Slots
    BY <1>0, <1>4, EventOf DEF HandleTick
  <2>2. TearDown(Event.of) \/ writer' = writer
    BY <1>4 DEF HandleTick, slots
  <2> QED
    BY <1>0, <1>2, <2>1, <2>2
<1>5. ASSUME NEW cs \in SUBSET Slots, RetireKill(cs) PROVE c \in cs
  BY <1>5 DEF RetireKill
<1>6. ASSUME NEW found \in SUBSET Slots, Sync(found) PROVE Drained(c)
  BY <1>5, <1>6 DEF Sync
<1>7. CASE Reap
  BY <1>5, <1>7 DEF Reap
<1>8. HandleReq \/ SpawnFails \/ Record \/ Write \/ HandleBody \/ HandleForceCancel \/ HandleEnd
        \/ HandleBeat \/ Strike \/ SetPolicy => writer' = writer
  BY DEF HandleReq, SpawnFails, Record, Write, HandleBody, HandleForceCancel, HandleEnd,
         HandleBeat, Strike, SetPolicy, slots
<1>9. \A r \in Requests : SendReq(r) \/ SendBody(r) \/ SendForceCancel(r) => writer' = writer
  BY DEF SendReq, SendBody, SendForceCancel, slots
<1>10. \A p \in Processes :
         AnswerProbe(p) \/ Crash(p) \/ ReadEof(p) \/ (\E r \in Requests : Answer(p, r))
           => writer' = writer
  BY DEF AnswerProbe, Crash, ReadEof, Answer, slots
<1>11. \A d \in Slots : Overdue(d) \/ Tick(d) \/ Choose(d) => writer' = writer
  BY DEF Overdue, Tick, Choose, slots
<1>12. UNCHANGED vars => writer' = writer
  BY DEF vars, slots
<1> QED
  BY <1>0, <1>1, <1>3, <1>4, <1>6, <1>7, <1>8, <1>9, <1>10, <1>11, <1>12 DEF Next, Loop

\* A slot that is drained has no process with work.
LEMMA StepRetireSparesWork ==
  ASSUME ~DrainExpires, Sound, [Next]_vars, NEW p \in alive,
         writer[p[1]] = p[2], writer'[p[1]] = 0, gen'[p[1]] = gen[p[1]],
         NEW r \in Requests
  PROVE  <<p, r>> \notin work
<1>1. p \in Processes /\ p[1] \in Slots /\ p[2] # 0
  BY BoundsNat DEF Sound, Typed, ProcessTypes, Processes
<1>2. Drained(p[1])
  BY <1>1, WhyLetGo
<1>3. <<p, r>> \in work => Routed(r) /\ SlotOf[r] = p[1]
  BY <1>1, NothingIsNoProcess DEF Sound, RequestSound, WorkSound
<1> QED
  BY <1>2, <1>3 DEF Drained, Entries

\* A caller is told of one end: nothing a process wrote before it was replaced,
\* no death and no refusal adds a second.  The one exception is the entry that
\* is kept for a body still to come (incomingResponseDone without
\* incomingBodyDone), and the frames of the process that answered.
THEOREM OneEnd == Spec => OneTerminal
<1>1. Sound /\ [Next]_vars =>
        [\A r \in Requests : told[r] > 0 /\ told'[r] > told[r] =>
           \/ entry[r] = "answered"
           \/ Event.kind = "end" /\ Event.from = served[r] /\ Current(Event.from)]_vars
  BY StepOneTerminal
<1> QED
  BY <1>1, InitSound, NextSound, PTL DEF Spec, OneTerminal

\* A request whose process is alive fails only when that process is overdue:
\* the death of an earlier one, handled under a later generation, fails nobody.
THEOREM DeathIsOnesOwn == Spec => NoInnocentFails
<1>1. Sound /\ [Next]_vars =>
        [\A r \in Requests :
           told'[r] > told[r] /\ served[r] \in alive =>
             probe[SlotOf[r]] = "late" \/ Event = [kind |-> "end", from |-> served[r], of |-> r]]_vars
  BY StepNoInnocentFails
<1> QED
  BY <1>1, InitSound, NextSound, PTL DEF Spec, NoInnocentFails

\* As long as no drain outlives retireDrainTimeout, retiring an install kills no
\* process with a request in hand: its routing entries hold the drain up.
THEOREM RetirementWaits ==
  ASSUME ~DrainExpires
  PROVE  Spec => RetireSparesWork
<1>1. Sound /\ [Next]_vars =>
        [\A p \in alive :
           p \notin alive' /\ writer[p[1]] = p[2] /\ writer'[p[1]] = 0 /\ gen'[p[1]] = gen[p[1]] =>
             \A r \in Requests : <<p, r>> \notin work]_vars
  BY StepRetireSparesWork
<1> QED
  BY <1>1, InitSound, NextSound, PTL DEF Spec, RetireSparesWork
=============================================================================
