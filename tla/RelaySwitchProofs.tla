------------------------- MODULE RelaySwitchProofs -------------------------
(***************************************************************************)
(* The safety of the switch: one terminal of a request, permits that have  *)
(* an owner and cancels that reach every linked child, for any masters,    *)
(* requests, ranks, caps and families of peer calls.                       *)
(*                                                                         *)
(* A request is pending - asked for, or a call the pump has yet to handle  *)
(* - then live, then over, and none of these twice (AskedOnce, CalledOnce).*)
(* So whoever finds it live is the first to end it (Unanswered), and once  *)
(* a parent is no longer pending it never comes to life again: the link of *)
(* a live child is in its parent's children for as long as there is a      *)
(* parent to cancel (LinksKept).                                           *)
(*                                                                         *)
(* Last, the request table as a component of its own.                      *)
(***************************************************************************)
EXTENDS RelaySwitch, WellFoundedInduction, FiniteSetTheorems, SequenceTheorems, TLAPS

-----------------------------------------------------------------------------
(* The best candidate is one.                                              *)

LEMMA LessIsWellFounded == IsWellFoundedOn({ss \in Nat \X Nat : ss[1] < ss[2]}, Nat)
BY NatLessThanWellFounded DEF OpToRel

LEMMA LeastNatural ==
  ASSUME NEW T \in SUBSET Nat, T # {}
  PROVE  \E x \in T : \A y \in T : x <= y
<1> DEFINE less == {ss \in Nat \X Nat : ss[1] < ss[2]}
<1>1. PICK x \in T : \A y \in T : <<y, x>> \notin less
  <2> HIDE DEF less
  <2>1. IsWellFoundedOn(less, Nat)
    BY LessIsWellFounded DEF less
  <2> QED
    BY <2>1, WFMin
<1>2. ASSUME NEW y \in T PROVE x <= y
  <2>1. x \in Nat /\ y \in Nat
    OBVIOUS
  <2>2. <<y, x>> \notin less
    BY <1>1
  <2>3. y < x => <<y, x>> \in less
    BY <2>1
  <2> HIDE DEF less
  <2> QED
    BY <2>1, <2>2, <2>3
<1> QED
  BY <1>2

LEMMA BestIsCandidate ==
  ASSUME NEW r \in Requests, Candidates(r) # {}
  PROVE  Best(r) \in Candidates(r)
<1> DEFINE ranks == {Rank[m] : m \in Candidates(r)}
<1>1. ranks \in SUBSET Nat /\ ranks # {}
  BY RanksDistinct, RequestsTyped DEF Candidates
<1>2. PICK x \in ranks : \A y \in ranks : x <= y
  BY <1>1, LeastNatural
<1>3. PICK m \in Candidates(r) : Rank[m] = x
  OBVIOUS
<1>4. \A n \in Candidates(r) : Rank[m] <= Rank[n]
  BY <1>2, <1>3
<1> QED
  BY <1>3, <1>4 DEF Best

-----------------------------------------------------------------------------
(* Queues.                                                                 *)

LEMMA AppendOne ==
  ASSUME NEW S, NEW s \in Seq(S), NEW e \in S
  PROVE  /\ Append(s, e) \in Seq(S)
         /\ \A i \in DOMAIN Append(s, e) :
              IF i \in DOMAIN s THEN Append(s, e)[i] = s[i]
              ELSE i = Len(s) + 1 /\ Append(s, e)[i] = e
OBVIOUS

LEMMA TailShifts ==
  ASSUME NEW S, NEW s \in Seq(S), s # <<>>
  PROVE  /\ Tail(s) \in Seq(S) /\ Head(s) = s[1] /\ 1 \in DOMAIN s
         /\ \A i \in DOMAIN Tail(s) : i + 1 \in DOMAIN s /\ Tail(s)[i] = s[i + 1]
OBVIOUS

-----------------------------------------------------------------------------
(* Types.                                                                  *)

Probes ==
  [stage : {"waiting", "echoed", "failed"}, slot : Masters, conn : Masters \X (0..MaxAttach)]

SlotTypes ==
  /\ gen \in [Masters -> 0..MaxAttach]
  /\ healthy \in [Masters -> BOOLEAN] /\ detached \in [Masters -> BOOLEAN]
  /\ caps \in [Masters -> BOOLEAN] /\ available \in [Masters -> BOOLEAN]
  /\ open \subseteq Conns
  /\ reader \in [Conns -> {"none", "reading", "exiting", "gone"}]
  /\ probes \in Seq(Masters)
  /\ probe \in Probes \cup {Idle}
  /\ updates \in 0..MaxUpdates
  /\ verified \subseteq Conns

TableTypes ==
  /\ entry \in [Requests -> Entries \cup {Gone}]
  /\ children \in [Requests -> SUBSET Requests]
  /\ asker \in [Requests -> {"new", "waiting", "admitted", "sent", "failed"}]
  /\ target \in [Requests -> Masters \cup {None}]
  /\ permit \in [Requests -> Masters \cup {None}]
  /\ cascade \subseteq Requests
  /\ work \subseteq Conns \X Requests
  /\ ended \in [Requests -> {"not", "end", "died", "cancelled"}]
  /\ told \in [Requests -> Nat]

Notices == [kind : {"eof"}, slot : Masters]
Frames == [kind : {"end", "req"}, slot : Masters, request : Requests]

QueueTypes == queue \in Seq(Notices \cup Frames)

\* What has a connection has a number of one: 0 is a slot not attached yet, and
\* such a slot is not healthy and not probed.
WasAttached ==
  /\ \A m \in Masters : healthy[m] => gen[m] > 0
  /\ \A c \in open : gen[c[1]] > 0
  /\ \A i \in DOMAIN probes : gen[probes[i]] > 0
  /\ probe # Idle => gen[probe.slot] > 0

Typed == SlotTypes /\ TableTypes /\ QueueTypes /\ WasAttached

LEMMA IdleIsNoProbe == Idle \notin Probes
BY DEF Idle, Probes

LEMMA InitTyped == Init => Typed
<1> SUFFICES ASSUME Init PROVE Typed
  OBVIOUS
<1>1. SlotTypes
  BY BoundsNat DEF Init, SlotTypes
<1>2. TableTypes
  BY DEF Init, TableTypes
<1>3. QueueTypes /\ WasAttached
  BY DEF Init, QueueTypes, WasAttached
<1> QED
  BY <1>1, <1>2, <1>3 DEF Typed

LEMMA HeadOfQueue ==
  ASSUME QueueTypes, queue # <<>>
  PROVE  /\ Event \in Notices \cup Frames
         /\ Tail(queue) \in Seq(Notices \cup Frames)
         /\ Event.slot \in Masters
         /\ Event.kind # "eof" => Event.request \in Requests
<1>1. Event \in Notices \cup Frames /\ Tail(queue) \in Seq(Notices \cup Frames)
  BY DEF QueueTypes, Event
<1> QED
  BY <1>1 DEF Notices, Frames

LEMMA QueueStep ==
  ASSUME Typed, [Next]_vars
  PROVE  QueueTypes'
<1> USE DEF Typed, QueueTypes
<1>1. CASE UNCHANGED queue
  BY <1>1
<1>2. CASE queue # <<>> /\ queue' = Tail(queue)
  BY <1>2, HeadOfQueue
<1>3. ASSUME NEW c \in Conns, NEW r \in Requests, queue' = Append(queue, End(c[1], r))
      PROVE  QueueTypes'
  <2>1. End(c[1], r) \in Frames
    BY DEF End, Frames, Conns
  <2> QED
    BY <1>3, <2>1
<1>4. ASSUME NEW c \in Conns, NEW r \in Requests, queue' = Append(queue, Req(c[1], r))
      PROVE  QueueTypes'
  <2>1. Req(c[1], r) \in Frames
    BY DEF Req, Frames, Conns
  <2> QED
    BY <1>4, <2>1
<1>5. ASSUME NEW c \in Conns, queue' = Append(queue, Eof(c[1]))
      PROVE  QueueTypes'
  <2>1. Eof(c[1]) \in Notices
    BY DEF Eof, Notices, Conns
  <2> QED
    BY <1>5, <2>1
<1> QED
  BY <1>1, <1>2, <1>3, <1>4, <1>5
  DEF Next, vars, Engine, Resolve, Admit, Expire, Dispatch, Cancel, CancelNext, Read, ReadEof,
      ReaderExit, Close, Respond, CallPeer, Notify, Attach, Pump, HandleEnd, HandleReq,
      HandleDeath, Driver, StartProbe, Echo, ProbeFails, FinishProbe

\* The steps that leave the slots, their connections and their probes alone.
QuietForSlots ==
  UNCHANGED <<gen, healthy, detached, caps, available, open, reader, probing, verified>>

LEMMA ProbesGrow ==
  ASSUME NEW more, NEW m \in Masters, gen[m] > 0,
         probes \in Seq(Masters), \A i \in DOMAIN probes : gen[probes[i]] > 0,
         more = probes \/ more = Append(probes, m)
  PROVE  more \in Seq(Masters) /\ \A i \in DOMAIN more : gen[more[i]] > 0
<1>1. CASE more = Append(probes, m)
  <2>1. more \in Seq(Masters)
    BY <1>1
  <2>2. \A i \in DOMAIN more : more[i] = m \/ (i \in DOMAIN probes /\ more[i] = probes[i])
    BY <1>1, AppendOne
  <2> QED
    BY <2>1, <2>2
<1> QED
  BY <1>1

LEMMA SlotStep ==
  ASSUME Typed, [Next]_vars
  PROVE  SlotTypes' /\ WasAttached'
<1> USE BoundsNat DEF Typed, SlotTypes, WasAttached
<1>1. CASE QuietForSlots
  BY <1>1 DEF QuietForSlots, probing
<1>2. ASSUME NEW r \in Requests, Resolve(r)
      PROVE  SlotTypes' /\ WasAttached'
  BY <1>2 DEF Resolve, links, probing
<1>3. ASSUME NEW c \in Conns, Close(c)
      PROVE  SlotTypes' /\ WasAttached'
  BY <1>3 DEF Close, slots, probing
<1>4. ASSUME NEW c \in Conns, ReadEof(c)
      PROVE  SlotTypes' /\ WasAttached'
  BY <1>4 DEF ReadEof, slots, probing
<1>5. ASSUME NEW c \in Conns, ReaderExit(c)
      PROVE  SlotTypes' /\ WasAttached'
  <2>1. c[1] \in Masters
    BY DEF Conns
  <2> QED
    BY <1>5, <2>1 DEF ReaderExit, probing
<1>6. ASSUME NEW c \in Conns, NEW some \in BOOLEAN, Notify(c, some)
      PROVE  SlotTypes' /\ WasAttached'
  <2>1. c[1] \in Masters /\ gen[c[1]] > 0
    BY <1>6 DEF Conns, Notify, Heard
  <2>2. probes' = probes \/ probes' = Append(probes, c[1])
    BY <1>6 DEF Notify
  <2>3. probes' \in Seq(Masters) /\ \A i \in DOMAIN probes' : gen[probes'[i]] > 0
    BY <2>1, <2>2, ProbesGrow
  <2>6. caps' \in [Masters -> BOOLEAN] /\ available' \in [Masters -> BOOLEAN]
    BY <1>6, <2>1, Zenon DEF Notify
  <2>7. healthy' \in [Masters -> BOOLEAN]
    BY <1>6, <2>1 DEF Notify
  <2>8. SlotTypes'
    BY <1>6, <2>1, <2>3, <2>6, <2>7 DEF Notify, links
  <2>4. \A m \in Masters : healthy'[m] => gen[m] > 0
    BY <1>6, <2>1 DEF Notify
  <2> QED
    BY <1>6, <2>3, <2>4, <2>8 DEF Notify, links
<1>7. ASSUME NEW m \in Masters, NEW some \in BOOLEAN, NEW echoes \in BOOLEAN,
             Attach(m, some, echoes)
      PROVE  SlotTypes' /\ WasAttached'
  <2>1. gen[m] + 1 \in 1..MaxAttach /\ <<m, gen[m] + 1>> \in Conns
    BY <1>7 DEF Attach, Conns
  <2>7. /\ healthy' \in [Masters -> BOOLEAN] /\ detached' \in [Masters -> BOOLEAN]
        /\ caps' \in [Masters -> BOOLEAN] /\ available' \in [Masters -> BOOLEAN]
    BY <1>7, Zenon DEF Attach
  <2>2. SlotTypes'
    <3>1. gen' \in [Masters -> 0..MaxAttach]
      BY <1>7, <2>1 DEF Attach
    <3>2. reader' \in [Conns -> {"none", "reading", "exiting", "gone"}]
      BY <1>7, <2>1 DEF Attach
    <3>3. open' \subseteq Conns /\ verified' \subseteq Conns
      BY <1>7, <2>1 DEF Attach
    <3> QED
      BY <1>7, <2>7, <3>1, <3>2, <3>3 DEF Attach, probing
  <2>3. \A n \in Masters : gen'[n] > 0 <=> n = m \/ gen[n] > 0
    BY <1>7, <2>1 DEF Attach
  <2>4. \A n \in Masters : n # m => healthy'[n] = healthy[n]
    BY <1>7 DEF Attach
  <2>5. \A c \in open' : gen'[c[1]] > 0
    <3>1. open' = open \cup {<<m, gen[m] + 1>>}
      BY <1>7 DEF Attach
    <3>2. \A c \in open : c[1] \in Masters
      BY DEF Conns
    <3> QED
      BY <2>3, <3>1, <3>2
  <2>6. UNCHANGED <<probes, probe>> /\ (probe # Idle => probe.slot \in Masters)
    BY <1>7 DEF Attach, probing, Probes
  <2> QED
    BY <2>2, <2>3, <2>4, <2>5, <2>6
<1>8. CASE HandleDeath
  <2>1. Event.slot \in Masters
    BY <1>8, HeadOfQueue DEF HandleDeath
  <2> QED
    BY <1>8, <2>1 DEF HandleDeath, links, probing
<1>9. CASE StartProbe
  <2>1. /\ Head(probes) \in Masters /\ Tail(probes) \in Seq(Masters)
        /\ gen[Head(probes)] > 0
    BY <1>9 DEF StartProbe
  <2>2. probe' \in Probes /\ probe'.slot = Head(probes)
    BY <1>9, <2>1 DEF StartProbe, Probes, Current
  <2>3. \A i \in DOMAIN Tail(probes) : gen[Tail(probes)[i]] > 0
    BY <1>9 DEF StartProbe
  <2> QED
    BY <1>9, <2>1, <2>2, <2>3 DEF StartProbe, slots, links
<1>10. CASE Echo
  <2>1. probe \in Probes /\ probe.conn \in Conns
    BY <1>10 DEF Echo, Heard, Idle
  <2>2. probe' \in Probes /\ probe'.slot = probe.slot
    BY <1>10, <2>1 DEF Echo, Probes
  <2> QED
    BY <1>10, <2>1, <2>2, IdleIsNoProbe DEF Echo, slots, links
<1>11. CASE ProbeFails
  <2>1. probe \in Probes
    BY <1>11 DEF ProbeFails, Idle
  <2>2. probe' \in Probes /\ probe'.slot = probe.slot
    BY <1>11, <2>1 DEF ProbeFails, Probes
  <2> QED
    BY <1>11, <2>1, <2>2, IdleIsNoProbe DEF ProbeFails, slots, links
<1>12. CASE FinishProbe
  <2>1. probe \in Probes /\ gen[probe.slot] > 0
    BY <1>12, IdleIsNoProbe DEF FinishProbe, Idle
  <2>2. probe.slot \in Masters
    BY <2>1 DEF Probes
  <2> QED
    BY <1>12, <2>1, <2>2 DEF FinishProbe, links
<1>13. QuietForSlots \/ ~(UNCHANGED vars)
  BY DEF QuietForSlots, vars, slots, links
<1>14. \A r \in Requests : \/ Admit(r) \/ Expire(r) \/ Dispatch(r) \/ Cancel(r) \/ CancelNext(r)
                           => QuietForSlots
  BY DEF QuietForSlots, slots, links, Admit, Expire, Dispatch, Cancel, CancelNext
<1>15. \A c \in Conns, r \in Requests : Respond(c, r) \/ CallPeer(c, r) => QuietForSlots
  BY DEF QuietForSlots, slots, links, Respond, CallPeer
<1>16. HandleEnd \/ HandleReq => QuietForSlots
  BY DEF QuietForSlots, slots, links, HandleEnd, HandleReq
<1> QED
  BY <1>1, <1>2, <1>3, <1>4, <1>5, <1>6, <1>7, <1>8, <1>9, <1>10, <1>11, <1>12, <1>13, <1>14,
     <1>15, <1>16
  DEF Next, Engine, Read, Pump, Driver

LEMMA CurrentOfCandidate ==
  ASSUME Typed, NEW r \in Requests, Candidates(r) # {}
  PROVE  Best(r) \in Masters /\ Current(Best(r)) \in Conns
<1>1. Best(r) \in Candidates(r)
  BY BestIsCandidate
<1>2. Best(r) \in Masters /\ gen[Best(r)] > 0
  BY <1>1, RequestsTyped DEF Candidates, Typed, WasAttached
<1>3. gen[Best(r)] \in 1..MaxAttach
  BY <1>2 DEF Typed, SlotTypes
<1> QED
  BY <1>2, <1>3 DEF Current, Conns

\* What a registration leaves: a live entry of this request, and the others.
LEMMA Registered ==
  ASSUME Typed, NEW r \in Requests, Candidates(r) # {}, NEW origin \in Masters \cup {None},
         Register(r, Best(r), origin)
  PROVE  /\ entry' \in [Requests -> Entries \cup {Gone}]
         /\ work' \subseteq Conns \X Requests
         /\ entry'[r].dest \in Masters
         /\ entry'[r].linked <=> Live(Parent[r])
         /\ \A q \in Requests : q # r => entry'[q] = entry[q]
<1>1. Best(r) \in Masters /\ Current(Best(r)) \in Conns
  BY CurrentOfCandidate
<1>2. Live(Parent[r]) \in BOOLEAN
  BY DEF Live
<1> DEFINE new == [dest |-> Best(r), conn |-> Current(Best(r)), origin |-> origin,
                   linked |-> Live(Parent[r])]
<1>3. new \in Entries
  BY <1>1, <1>2 DEF Entries
<1>4. entry' = [entry EXCEPT ![r] = new]
  BY DEF Register
<1>5. entry \in [Requests -> Entries \cup {Gone}]
  BY DEF Typed, TableTypes
<1>6. new.dest \in Masters /\ (new.linked <=> Live(Parent[r]))
  BY <1>1
<1>7. work' \subseteq Conns \X Requests
  BY <1>1 DEF Register, Typed, TableTypes
<1> HIDE DEF new
<1> QED
  BY <1>3, <1>4, <1>5, <1>6, <1>7

LEMMA Terminated ==
  ASSUME TableTypes, NEW rs, NEW how \in {"end", "died", "cancelled"}, Terminate(rs, how)
  PROVE  /\ entry' \in [Requests -> Entries \cup {Gone}]
         /\ children' \in [Requests -> SUBSET Requests]
         /\ permit' \in [Requests -> Masters \cup {None}]
         /\ ended' \in [Requests -> {"not", "end", "died", "cancelled"}]
         /\ \A q \in Requests :
              IF q \in rs
              THEN entry'[q] = Gone /\ children'[q] = {} /\ permit'[q] = None /\ ended'[q] = how
              ELSE UNCHANGED <<entry[q], children[q], permit[q], ended[q]>>
BY DEF Terminate, TableTypes

\* An answer is told of once.
LEMMA ToldTyped ==
  ASSUME TableTypes, NEW r \in Requests, Tell(r)
  PROVE  told' \in [Requests -> Nat]
BY DEF TableTypes, Tell

LEMMA TableStep ==
  ASSUME Typed, [Next]_vars
  PROVE  TableTypes'
<1> USE DEF Typed, TableTypes
<1>1. ASSUME NEW r \in Requests, Resolve(r)
      PROVE  TableTypes'
  <2>1. CASE Candidates(r) = {}
    BY <1>1, <2>1 DEF Resolve, table
  <2>2. CASE Candidates(r) # {}
    BY <1>1, <2>2, CurrentOfCandidate DEF Resolve, table
  <2> QED
    BY <2>1, <2>2
<1>2. ASSUME NEW r \in Requests, Admit(r) \/ Expire(r)
      PROVE  TableTypes'
  BY <1>2 DEF Admit, Expire, table
<1>3. ASSUME NEW r \in Requests, Dispatch(r)
      PROVE  TableTypes'
  <2>1. CASE Candidates(r) = {}
    BY <1>3, <2>1 DEF Dispatch
  <2>2. CASE Candidates(r) # {}
    <3>1. Register(r, Best(r), None)
      BY <1>3, <2>2 DEF Dispatch
    <3>2. entry' \in [Requests -> Entries \cup {Gone}] /\ work' \subseteq Conns \X Requests
      BY <2>2, <3>1, Registered
    <3> QED
      BY <1>3, <2>2, <3>2 DEF Dispatch
  <2> QED
    BY <2>1, <2>2
<1>4. ASSUME NEW r \in Requests, Cancel(r)
      PROVE  TableTypes'
  BY <1>4 DEF Cancel, table, engine
<1>5. ASSUME NEW r \in Requests, CancelNext(r)
      PROVE  TableTypes'
  <2>1. CASE Live(r)
    BY <1>5, <2>1, Terminated DEF CancelNext, engine
  <2>2. CASE ~Live(r)
    BY <1>5, <2>2 DEF CancelNext, table, engine
  <2> QED
    BY <2>1, <2>2
<1>6. ASSUME NEW c \in Conns, NEW r \in Requests, Respond(c, r) \/ CallPeer(c, r)
      PROVE  TableTypes'
  BY <1>6 DEF Respond, CallPeer, table, engine
<1>7. ASSUME NEW c \in Conns, Close(c)
      PROVE  TableTypes'
  BY <1>7 DEF Close, table, engine
<1>8. CASE HandleEnd
  <2>1. Event.request \in Requests
    BY <1>8, HeadOfQueue DEF HandleEnd
  <2>2. told' \in [Requests -> Nat]
    <3>1. Tell(Event.request) \/ UNCHANGED told
      BY <1>8 DEF HandleEnd
    <3>2. CASE Tell(Event.request)
      BY <2>1, <3>2, ToldTyped
    <3>3. CASE UNCHANGED told
      BY <3>3
    <3> QED
      BY <3>1, <3>2, <3>3
  <2>3. CASE Live(Event.request)
    <3>1. Terminate({Event.request}, "end")
      BY <1>8, <2>3 DEF HandleEnd
    <3> QED
      BY <1>8, <2>2, <3>1, Terminated DEF HandleEnd, engine
  <2>4. CASE ~Live(Event.request)
    BY <1>8, <2>4 DEF HandleEnd, table, engine
  <2> QED
    BY <2>3, <2>4
<1>9. CASE HandleReq
  <2>1. Event.request \in Requests /\ Event.slot \in Masters
    BY <1>9, HeadOfQueue DEF HandleReq
  <2>2. CASE Candidates(Event.request) = {}
    <3>1. Tell(Event.request) \/ UNCHANGED told
      BY <1>9, <2>2 DEF HandleReq
    <3>2. CASE Tell(Event.request)
      <4>1. told' \in [Requests -> Nat]
        BY <2>1, <3>2, ToldTyped
      <4>2. UNCHANGED <<entry, children, work, permit, ended, asker, target, cascade>>
        BY <1>9, <2>2 DEF HandleReq, engine
      <4> QED
        BY <4>1, <4>2
    <3>3. CASE UNCHANGED told
      <4>1. UNCHANGED <<entry, children, work, permit, ended, asker, target, cascade>>
        BY <1>9, <2>2 DEF HandleReq, engine
      <4> QED
        BY <3>3, <4>1
    <3> QED
      BY <3>1, <3>2, <3>3
  <2>3. CASE Candidates(Event.request) # {}
    <3>1. Register(Event.request, Best(Event.request), Event.slot)
      BY <1>9, <2>3 DEF HandleReq
    <3>2. entry' \in [Requests -> Entries \cup {Gone}] /\ work' \subseteq Conns \X Requests
      BY <2>1, <2>3, <3>1, Registered
    <3>3. children' \in [Requests -> SUBSET Requests]
      BY <1>9, <2>1, <2>3, RequestsTyped DEF HandleReq
    <3> QED
      BY <1>9, <2>3, <3>2, <3>3 DEF HandleReq, engine
  <2> QED
    BY <2>2, <2>3
<1>10. CASE HandleDeath
  <2>1. told' \in [Requests -> Nat]
    BY <1>10 DEF HandleDeath
  <2>2. CASE healthy[Event.slot]
    <3>1. Terminate(RoutedTo(Event.slot), "died")
      BY <1>10, <2>2 DEF HandleDeath
    <3> QED
      BY <1>10, <2>1, <3>1, Terminated DEF HandleDeath, engine
  <2>3. CASE ~healthy[Event.slot]
    BY <1>10, <2>3 DEF HandleDeath, table, engine
  <2> QED
    BY <2>2, <2>3
<1>11. CASE UNCHANGED <<table, engine, cascade, work, told>>
  BY <1>11 DEF table, engine
<1>12. CASE UNCHANGED vars
  BY <1>12 DEF vars, table, engine
<1>13. \A c \in Conns : Read(c) \/ (\E some \in BOOLEAN : Notify(c, some))
                        => UNCHANGED <<table, engine, cascade, work, told>>
  BY DEF Read, ReadEof, ReaderExit, Notify
<1>14. \A m \in Masters, some, echoes \in BOOLEAN :
         Attach(m, some, echoes) => UNCHANGED <<table, engine, cascade, work, told>>
  BY DEF Attach
<1>15. Driver => UNCHANGED <<table, engine, cascade, work, told>>
  BY DEF Driver, StartProbe, Echo, ProbeFails, FinishProbe
<1> QED
  BY <1>1, <1>2, <1>3, <1>4, <1>5, <1>6, <1>7, <1>8, <1>9, <1>10, <1>11, <1>12, <1>13, <1>14,
     <1>15
  DEF Next, Engine, Pump

LEMMA TypedStep == Typed /\ [Next]_vars => Typed'
BY SlotStep, TableStep, QueueStep DEF Typed

\* Every variable keeps its type: among others no permit, target or routing
\* entry ever names what is not a slot, whoever is resolved after whom.
THEOREM TypeCorrect == Spec => []TypeOK
<1>1. Typed => TypeOK
  BY DEF Typed, SlotTypes, TableTypes, QueueTypes, TypeOK, Probes, Idle, Notices, Frames
<1> QED
  BY <1>1, InitTyped, TypedStep, PTL DEF Spec

-----------------------------------------------------------------------------
(* The life of a request.                                                  *)

Calls(i, r) == queue[i].kind = "req" /\ queue[i].request = r
Queued(r) == \E i \in DOMAIN queue : Calls(i, r)
Asking(r) == asker[r] \in {"new", "waiting", "admitted"}
Pending(r) == Asking(r) \/ Queued(r)

CalledOnce(r) == \A i, j \in DOMAIN queue : Calls(i, r) /\ Calls(j, r) => i = j

AskedOnce(r) == ~(Asking(r) /\ Queued(r)) /\ ~(Pending(r) /\ Live(r))

Unanswered(r) == Pending(r) \/ Live(r) => told[r] = 0 /\ ended[r] = "not"

\* PermitOwned, CascadeComplete and OneTerminal of one request.
Owned(r) == permit[r] # None => asker[r] = "admitted" \/ Live(r)
Visited(r) == Live(r) /\ entry[r].linked /\ ended[Parent[r]] = "cancelled" => r \in cascade
ToldOnce(r) == told[r] <= 1

LinkKept(r) ==
  Live(r) /\ entry[r].linked =>
    ~Pending(Parent[r]) /\ (Live(Parent[r]) => r \in children[Parent[r]])

RequestSound(r) ==
  /\ CalledOnce(r) /\ AskedOnce(r) /\ Unanswered(r)
  /\ Owned(r) /\ LinkKept(r) /\ Visited(r) /\ ToldOnce(r)

\* Only the engine's own requests wait for a slot.
OwnDispatch == \A r \in Requests : asker[r] \in {"waiting", "admitted"} => FromEngine(r)

Sound == Typed /\ OwnDispatch /\ \A r \in Requests : RequestSound(r)

LEMMA OwnDispatchStep ==
  ASSUME Typed, OwnDispatch, [Next]_vars
  PROVE  OwnDispatch'
<1>1. CASE UNCHANGED asker
  BY <1>1 DEF OwnDispatch, FromEngine
<1>2. ASSUME NEW r \in Requests, NEW to, asker' = [asker EXCEPT ![r] = to],
             to \in {"waiting", "admitted"} => FromEngine(r)
      PROVE  OwnDispatch'
  BY <1>2 DEF OwnDispatch, FromEngine, Typed, TableTypes
<1>3. ASSUME NEW r \in Requests, Engine(r)
      PROVE  OwnDispatch'
  <2>1. \E to : /\ asker' = [asker EXCEPT ![r] = to]
                /\ to \in {"waiting", "admitted"} => FromEngine(r)
    BY <1>3 DEF Engine, Resolve, Admit, Expire, Dispatch, OwnDispatch
  <2> QED
    BY <1>2, <2>1
<1>4. ASSUME NEW c \in Conns, NEW r \in Requests, CallPeer(c, r)
      PROVE  OwnDispatch'
  BY <1>2, <1>4 DEF CallPeer
<1>5. \A r \in Requests : Cancel(r) \/ CancelNext(r) => UNCHANGED asker
  BY DEF Cancel, CancelNext, engine
<1>6. \A c \in Conns : Read(c) \/ Close(c) \/ (\E r \in Requests : Respond(c, r)) => UNCHANGED asker
  BY DEF Read, ReadEof, ReaderExit, Close, Respond, engine
<1>7. ASSUME NEW c \in Conns, NEW some \in BOOLEAN, Notify(c, some)
      PROVE  UNCHANGED asker
  BY <1>7 DEF Notify, engine
<1>8. ASSUME NEW m \in Masters, NEW some \in BOOLEAN, NEW echoes \in BOOLEAN,
             Attach(m, some, echoes)
      PROVE  UNCHANGED asker
  BY <1>8 DEF Attach, engine
<1>9. Pump \/ Driver \/ UNCHANGED vars => UNCHANGED asker
  BY DEF Pump, HandleEnd, HandleReq, HandleDeath, Driver, StartProbe, Echo, ProbeFails,
         FinishProbe, vars, engine
<1> QED
  BY <1>1, <1>2, <1>3, <1>4, <1>5, <1>6, <1>7, <1>8, <1>9 DEF Next

LEMMA InitSound == Init => Sound
<1> SUFFICES ASSUME Init, NEW r \in Requests PROVE RequestSound(r)
  BY InitTyped DEF Sound, Init, OwnDispatch
<1>1. ~Live(r) /\ ~Queued(r) /\ told[r] = 0 /\ ended[r] = "not" /\ permit[r] = None
  BY DEF Init, Live, Gone, Queued
<1>2. CalledOnce(r)
  BY DEF Init, CalledOnce
<1> QED
  BY <1>1, <1>2 DEF RequestSound, AskedOnce, Pending, Unanswered, Owned, LinkKept, Visited, ToldOnce

\* A step that hands the pump no new call.
NoNewCall == \A r \in Requests : (Queued(r)' => Queued(r)) /\ (CalledOnce(r) => CalledOnce(r)')

LEMMA SameQueue == UNCHANGED queue => NoNewCall
BY DEF NoNewCall, Queued, CalledOnce, Calls

LEMMA NextOfQueue ==
  ASSUME Typed, queue # <<>>, queue' = Tail(queue)
  PROVE  /\ NoNewCall
         /\ \A r \in Requests : Event.kind = "req" /\ Event.request = r /\ CalledOnce(r)
                                => Queued(r) /\ ~Queued(r)'
<1>1. queue \in Seq(Notices \cup Frames)
  BY DEF Typed, QueueTypes
<1>2. /\ Event = queue[1] /\ 1 \in DOMAIN queue
      /\ \A i \in DOMAIN queue' : i + 1 \in DOMAIN queue /\ queue'[i] = queue[i + 1]
      /\ DOMAIN queue' \subseteq Nat \ {0}
  BY <1>1, TailShifts DEF Event
<1>3. ASSUME NEW r \in Requests, NEW i \in DOMAIN queue', Calls(i, r)'
      PROVE  i + 1 \in DOMAIN queue /\ Calls(i + 1, r)
  BY <1>2, <1>3 DEF Calls
<1>4. ASSUME NEW r \in Requests
      PROVE  (Queued(r)' => Queued(r)) /\ (CalledOnce(r) => CalledOnce(r)')
  <2>1. Queued(r)' => Queued(r)
    BY <1>3 DEF Queued
  <2>2. ASSUME CalledOnce(r), NEW i \in DOMAIN queue', NEW j \in DOMAIN queue',
               Calls(i, r)', Calls(j, r)'
        PROVE  i = j
    <3>1. i + 1 = j + 1
      BY <1>3, <2>2 DEF CalledOnce
    <3> QED
      BY <1>2, <3>1
  <2> QED
    BY <2>1, <2>2 DEF CalledOnce
<1>5. ASSUME NEW r \in Requests, Event.kind = "req", Event.request = r, CalledOnce(r)
      PROVE  Queued(r) /\ ~Queued(r)'
  <2>1. Calls(1, r)
    BY <1>2, <1>5 DEF Calls
  <2>2. Queued(r)
    BY <1>2, <2>1 DEF Queued
  <2>3. ASSUME NEW i \in DOMAIN queue', Calls(i, r)' PROVE FALSE
    <3>1. i + 1 = 1
      BY <1>2, <1>3, <1>5, <2>1, <2>3 DEF CalledOnce
    <3> QED
      BY <1>2, <3>1
  <2> QED
    BY <2>2, <2>3 DEF Queued
<1> QED
  BY <1>4, <1>5 DEF NoNewCall

LEMMA MoreInQueue ==
  ASSUME Typed, NEW e \in Notices \cup Frames, queue' = Append(queue, e)
  PROVE  /\ e.kind # "req" => NoNewCall
         /\ \A r \in Requests :
              /\ Queued(r)' => Queued(r) \/ e.request = r
              /\ CalledOnce(r) /\ (e.kind = "req" /\ e.request = r => ~Queued(r)) => CalledOnce(r)'
<1>1. queue \in Seq(Notices \cup Frames)
  BY DEF Typed, QueueTypes
<1>2. \A i \in DOMAIN queue' : IF i \in DOMAIN queue THEN queue'[i] = queue[i]
                               ELSE i = Len(queue) + 1 /\ queue'[i] = e
  BY <1>1, AppendOne
<1>3. ASSUME NEW r \in Requests, NEW i \in DOMAIN queue', Calls(i, r)'
      PROVE  IF i \in DOMAIN queue THEN Calls(i, r)
             ELSE i = Len(queue) + 1 /\ e.kind = "req" /\ e.request = r
  BY <1>2, <1>3 DEF Calls
<1>4. ASSUME NEW r \in Requests
      PROVE  /\ Queued(r)' => Queued(r) \/ (e.kind = "req" /\ e.request = r)
             /\ CalledOnce(r) /\ (e.kind = "req" /\ e.request = r => ~Queued(r)) => CalledOnce(r)'
  <2>1. Queued(r)' => Queued(r) \/ (e.kind = "req" /\ e.request = r)
    BY <1>3 DEF Queued
  <2>2. ASSUME CalledOnce(r), e.kind = "req" /\ e.request = r => ~Queued(r),
               NEW i \in DOMAIN queue', NEW j \in DOMAIN queue', Calls(i, r)', Calls(j, r)'
        PROVE  i = j
    BY <1>3, <2>2 DEF CalledOnce, Queued
  <2> QED
    BY <2>1, <2>2 DEF CalledOnce
<1> QED
  BY <1>4 DEF NoNewCall

\* Steps that neither register nor end a request.
LEMMA QuietStep ==
  ASSUME Sound, NoNewCall, UNCHANGED <<entry, children, ended, told, permit>>,
         \A r \in Requests : Asking(r)' => Asking(r),
         \A r \in Requests : asker[r] = "admitted" => asker'[r] = "admitted",
         \A r \in Requests : r \in cascade /\ Live(r) => r \in cascade'
  PROVE  \A r \in Requests : RequestSound(r)'
<1> SUFFICES ASSUME NEW r \in Requests PROVE RequestSound(r)'
  OBVIOUS
<1>1. RequestSound(r) /\ Parent[r] \in Requests
  BY RequestsTyped DEF Sound
<1>2. \A q \in Requests : Pending(q)' => Pending(q)
  BY DEF Pending, NoNewCall
<1>3. \A q \in Requests : Live(q)' <=> Live(q)
  BY DEF Live
<1>4. CalledOnce(r)'
  BY <1>1 DEF RequestSound, NoNewCall
<1>5. AskedOnce(r)'
  BY <1>1, <1>2, <1>3 DEF RequestSound, AskedOnce, NoNewCall
<1>6. Unanswered(r)' /\ Owned(r)' /\ ToldOnce(r)'
  BY <1>1, <1>2, <1>3 DEF RequestSound, Unanswered, Owned, ToldOnce
<1>7. LinkKept(r)' /\ Visited(r)'
  BY <1>1, <1>2, <1>3 DEF RequestSound, LinkKept, Visited
<1> QED
  BY <1>4, <1>5, <1>6, <1>7 DEF RequestSound

\* Steps that end live requests.
LEMMA EndStep ==
  ASSUME Sound, NoNewCall, UNCHANGED asker,
         NEW rs \in SUBSET Requests, \A r \in rs : Live(r),
         NEW how \in {"end", "died", "cancelled"}, Terminate(rs, how),
         \A r \in Requests : IF r \in rs THEN told'[r] <= told[r] + 1 ELSE told'[r] = told[r],
         \A r \in Requests \ rs : r \in cascade => r \in cascade',
         how = "cancelled" => \A r \in rs : children[r] \subseteq cascade',
         TableTypes'
  PROVE  \A r \in Requests : RequestSound(r)'
<1> SUFFICES ASSUME NEW r \in Requests PROVE RequestSound(r)'
  OBVIOUS
<1> DEFINE p == Parent[r]
<1>1. RequestSound(r) /\ p \in Requests
  BY RequestsTyped DEF Sound
<1>2. \A q \in Requests :
        IF q \in rs
        THEN entry'[q] = Gone /\ children'[q] = {} /\ permit'[q] = None /\ ended'[q] = how
        ELSE UNCHANGED <<entry[q], children[q], permit[q], ended[q]>>
  BY Terminated DEF Sound, Typed
<1>3. \A q \in Requests : Pending(q)' => Pending(q)
  BY DEF Pending, NoNewCall, Asking
<1>4. \A q \in Requests : Live(q)' <=> Live(q) /\ q \notin rs
  BY <1>2 DEF Live, Gone
<1>5. CalledOnce(r)' /\ AskedOnce(r)'
  BY <1>1, <1>3, <1>4 DEF RequestSound, NoNewCall, AskedOnce, Asking
<1>6. told[r] \in Nat /\ told'[r] \in Nat
  BY DEF Sound, Typed, TableTypes
<1>7. ToldOnce(r)' /\ Unanswered(r)' /\ Owned(r)'
  <2>1. CASE r \in rs
    <3>1. told[r] = 0 /\ ~Pending(r) /\ ~Live(r)'
      BY <1>1, <1>4, <2>1 DEF RequestSound, Unanswered, AskedOnce
    <3>2. told'[r] <= 1 /\ ~Pending(r)' /\ permit'[r] = None
      BY <1>2, <1>3, <1>6, <2>1, <3>1
    <3> QED
      BY <3>1, <3>2 DEF ToldOnce, Unanswered, Owned
  <2>2. CASE r \notin rs
    BY <1>1, <1>2, <1>3, <1>4, <2>2 DEF RequestSound, ToldOnce, Unanswered, Owned
  <2> QED
    BY <2>1, <2>2
<1>8. LinkKept(r)' /\ Visited(r)'
  <2> SUFFICES ASSUME Live(r)', entry'[r].linked
               PROVE  /\ ~Pending(p)' /\ (Live(p)' => r \in children'[p])
                      /\ ended'[p] = "cancelled" => r \in cascade'
    BY DEF LinkKept, Visited
  <2>1. Live(r) /\ entry[r].linked /\ r \notin rs
    BY <1>2, <1>4
  <2>2. ~Pending(p) /\ (Live(p) => r \in children[p]) /\ (ended[p] = "cancelled" => r \in cascade)
    BY <1>1, <2>1 DEF RequestSound, LinkKept, Visited
  <2>3. CASE p \in rs
    BY <1>1, <1>2, <1>3, <1>4, <2>2, <2>3
  <2>4. CASE p \notin rs
    BY <1>1, <1>2, <1>3, <1>4, <2>1, <2>2, <2>4
  <2> QED
    BY <2>3, <2>4
<1> QED
  BY <1>5, <1>7, <1>8 DEF RequestSound

\* A pending request that is registered.
LEMMA RegisterStep ==
  ASSUME Sound, NEW r \in Requests, Candidates(r) # {}, NEW origin \in Masters \cup {None},
         Register(r, Best(r), origin),
         NoNewCall, \A q \in Requests \ {r} : UNCHANGED asker[q], Pending(r), ~Pending(r)',
         Live(Parent[r]) => r \in children'[Parent[r]],
         \A q \in Requests : children[q] \subseteq children'[q],
         UNCHANGED <<permit, ended, told, cascade>>
  PROVE  \A q \in Requests : RequestSound(q)'
<1>1. Parent[r] \in Requests /\ RequestSound(r)
  BY RequestsTyped DEF Sound
<1>2. /\ entry'[r].dest \in Masters
      /\ entry'[r].linked <=> Live(Parent[r])
      /\ \A q \in Requests : q # r => entry'[q] = entry[q]
  BY Registered DEF Sound
<1>3. Live(r)' /\ ~Live(r) /\ \A q \in Requests : q # r => (Live(q)' <=> Live(q))
  BY <1>1, <1>2, NoneIsNoMaster DEF Live, RequestSound, AskedOnce
<1>4. told[r] = 0 /\ ended[r] = "not"
  BY <1>1 DEF RequestSound, Unanswered
<1>5. \A q \in Requests : Pending(q)' => Pending(q)
  BY DEF Pending, NoNewCall, Asking
<1>6. RequestSound(r)'
  <2>1. entry'[r].linked => Live(Parent[r]) /\ Parent[r] # r
    BY <1>2, <1>3
  <2>2. Live(Parent[r]) => ~Pending(Parent[r]) /\ ended[Parent[r]] = "not"
    BY <1>1 DEF Sound, RequestSound, AskedOnce, Unanswered
  <2>3. LinkKept(r)' /\ Visited(r)'
    BY <1>1, <1>5, <2>1, <2>2 DEF LinkKept, Visited
  <2>4. /\ CalledOnce(r)' /\ AskedOnce(r)' /\ Unanswered(r)'
        /\ Owned(r)' /\ ToldOnce(r)'
    BY <1>1, <1>3, <1>4
    DEF RequestSound, NoNewCall, AskedOnce, Pending, Unanswered, Owned, ToldOnce
  <2> QED
    BY <2>3, <2>4 DEF RequestSound
<1>7. ASSUME NEW q \in Requests, q # r PROVE RequestSound(q)'
  <2>1. RequestSound(q) /\ Parent[q] \in Requests
    BY RequestsTyped DEF Sound
  <2>2. (Live(q)' <=> Live(q)) /\ entry'[q] = entry[q] /\ asker'[q] = asker[q]
    BY <1>2, <1>3, <1>7
  <2>3. AskedOnce(q)' /\ CalledOnce(q)'
    BY <2>1, <2>2 DEF RequestSound, AskedOnce, Asking, Pending, NoNewCall
  <2>4. Unanswered(q)' /\ Owned(q)' /\ ToldOnce(q)'
    BY <1>5, <2>1, <2>2 DEF RequestSound, Unanswered, Owned, ToldOnce
  <2>5. LinkKept(q)' /\ Visited(q)'
    <3> SUFFICES ASSUME Live(q)', entry'[q].linked
                 PROVE  /\ ~Pending(Parent[q])' /\ (Live(Parent[q])' => q \in children'[Parent[q]])
                        /\ ended'[Parent[q]] = "cancelled" => q \in cascade'
      BY DEF LinkKept, Visited
    <3>1. /\ ~Pending(Parent[q]) /\ (Live(Parent[q]) => q \in children[Parent[q]])
          /\ ended[Parent[q]] = "cancelled" => q \in cascade
      BY <2>1, <2>2 DEF RequestSound, LinkKept, Visited
    <3>2. Parent[q] # r
      BY <3>1
    <3> QED
      BY <1>3, <1>5, <2>1, <3>1, <3>2
  <2> QED
    BY <2>3, <2>4, <2>5 DEF RequestSound
<1> QED
  BY <1>6, <1>7

\* A peer call nobody serves is answered by the pump.
LEMMA AnswerStep ==
  ASSUME Sound, NEW r \in Requests, NoNewCall, Queued(r), ~Queued(r)',
         \A q \in Requests : IF q = r THEN told'[q] <= told[q] + 1 ELSE told'[q] = told[q],
         UNCHANGED <<entry, children, ended, permit, asker, cascade>>, TableTypes'
  PROVE  \A q \in Requests : RequestSound(q)'
<1> SUFFICES ASSUME NEW q \in Requests PROVE RequestSound(q)'
  OBVIOUS
<1>1. RequestSound(q) /\ RequestSound(r) /\ Parent[q] \in Requests
  BY RequestsTyped DEF Sound
<1>2. (\A p \in Requests : Pending(p)' => Pending(p)) /\ ~Pending(r)' /\ ~Live(r) /\ told[r] = 0
  BY <1>1 DEF RequestSound, AskedOnce, Unanswered, Pending, Asking, NoNewCall
<1>3. \A p \in Requests : Live(p)' <=> Live(p)
  BY DEF Live
<1>4. CalledOnce(q)' /\ AskedOnce(q)' /\ Owned(q)' /\ LinkKept(q)' /\ Visited(q)'
  BY <1>1, <1>2, <1>3
  DEF RequestSound, NoNewCall, AskedOnce, Asking, Owned, LinkKept, Visited
<1>5. Unanswered(q)' /\ ToldOnce(q)'
  <2>1. CASE q = r
    <3>1. told'[r] \in Nat /\ told'[r] <= 1
      BY <1>2 DEF TableTypes
    <3> QED
      BY <1>2, <1>3, <2>1, <3>1 DEF Unanswered, ToldOnce
  <2>2. CASE q # r
    BY <1>1, <1>2, <1>3, <2>2 DEF RequestSound, Unanswered, ToldOnce
  <2> QED
    BY <2>1, <2>2
<1> QED
  BY <1>4, <1>5 DEF RequestSound

\* A call leaves its caller for the queue.
LEMMA CallStep ==
  ASSUME Sound, NEW c \in Conns, NEW r \in Requests, CallPeer(c, r)
  PROVE  \A q \in Requests : RequestSound(q)'
<1> SUFFICES ASSUME NEW q \in Requests PROVE RequestSound(q)'
  OBVIOUS
<1>1. RequestSound(q) /\ RequestSound(r) /\ Parent[q] \in Requests
  BY RequestsTyped DEF Sound
<1>2. Req(c[1], r) \in Frames /\ Req(c[1], r).kind = "req" /\ Req(c[1], r).request = r
  BY DEF Req, Frames, Conns
<1>3. /\ queue' = Append(queue, Req(c[1], r)) /\ asker[r] = "new"
      /\ UNCHANGED <<entry, children, permit, ended, told, cascade>>
  BY DEF CallPeer, table
<1>4. asker'[r] = "sent" /\ \A p \in Requests : p # r => asker'[p] = asker[p]
  BY DEF CallPeer, Sound, Typed, TableTypes
<1>5. \A p \in Requests : /\ Queued(p)' => Queued(p) \/ p = r
                          /\ CalledOnce(p) /\ (p = r => ~Queued(p)) => CalledOnce(p)'
  BY <1>2, <1>3, MoreInQueue DEF Sound
<1>6. ~Queued(r) /\ ~Live(r)
  BY <1>1, <1>3 DEF RequestSound, AskedOnce, Pending, Asking
<1>7. \A p \in Requests : Pending(p)' => Pending(p)
  BY <1>3, <1>4, <1>5 DEF Pending, Asking
<1>8. \A p \in Requests : Live(p)' <=> Live(p)
  BY <1>3 DEF Live
<1>9. CalledOnce(q)'
  BY <1>1, <1>5, <1>6 DEF RequestSound
<1>10. AskedOnce(q)' /\ Unanswered(q)'
  BY <1>1, <1>3, <1>4, <1>5, <1>6, <1>7, <1>8 DEF RequestSound, AskedOnce, Unanswered, Asking
<1>11. Owned(q)' /\ ToldOnce(q)' /\ LinkKept(q)' /\ Visited(q)'
  BY <1>1, <1>3, <1>4, <1>7, <1>8 DEF RequestSound, Owned, ToldOnce, LinkKept, Visited
<1> QED
  BY <1>9, <1>10, <1>11 DEF RequestSound

\* A permit comes to a dispatch that is admitted, and goes with one that finds
\* nobody to send to.
LEMMA PermitStep ==
  ASSUME Sound, NEW r \in Requests,
         \/ Admit(r)
         \/ Dispatch(r) /\ Candidates(r) = {}
  PROVE  \A q \in Requests : RequestSound(q)'
<1> SUFFICES ASSUME NEW q \in Requests PROVE RequestSound(q)'
  OBVIOUS
<1>1. RequestSound(q) /\ Parent[q] \in Requests
  BY RequestsTyped DEF Sound
<1>2. UNCHANGED <<queue, entry, children, ended, told, cascade>> /\ Asking(r)
  BY DEF Admit, Dispatch, Asking
<1>3. /\ \A p \in Requests : p # r => UNCHANGED <<asker[p], permit[p]>>
      /\ permit'[r] # None => asker'[r] = "admitted"
  BY DEF Admit, Dispatch, Sound, Typed, TableTypes
<1>4. NoNewCall /\ \A p \in Requests : Queued(p)' <=> Queued(p)
  BY <1>2, SameQueue DEF Queued, Calls
<1>5. \A p \in Requests : Pending(p)' => Pending(p)
  BY <1>2, <1>3, <1>4 DEF Pending, Asking
<1>6. \A p \in Requests : Live(p)' <=> Live(p)
  BY <1>2 DEF Live
<1>7. \A p \in Requests : Asking(p)' => Asking(p)
  BY <1>2, <1>3 DEF Asking
<1>8. CalledOnce(q)' /\ AskedOnce(q)' /\ Unanswered(q)'
  BY <1>1, <1>2, <1>4, <1>5, <1>6, <1>7 DEF RequestSound, NoNewCall, AskedOnce, Unanswered
<1>9. Owned(q)' /\ ToldOnce(q)' /\ LinkKept(q)' /\ Visited(q)'
  BY <1>1, <1>2, <1>3, <1>5, <1>6 DEF RequestSound, Owned, ToldOnce, LinkKept, Visited
<1> QED
  BY <1>8, <1>9 DEF RequestSound

LEMMA PumpStep ==
  ASSUME Sound, Pump, TableTypes'
  PROVE  \A q \in Requests : RequestSound(q)'
<1>1. CASE HandleEnd
  <2> DEFINE r == Event.request
  <2>1. NoNewCall /\ r \in Requests /\ UNCHANGED <<asker, cascade>>
    BY <1>1, NextOfQueue, HeadOfQueue DEF HandleEnd, Sound, Typed, engine
  <2>2. CASE Live(r)
    <3>1. Terminate({r}, "end")
      BY <1>1, <2>2 DEF HandleEnd
    <3>2. \A q \in Requests : IF q \in {r} THEN told'[q] <= told[q] + 1 ELSE told'[q] = told[q]
      BY <1>1, <2>1, <2>2 DEF HandleEnd, Tell, Sound, Typed, TableTypes
    <3> QED
      BY <2>1, <2>2, <3>1, <3>2, EndStep
  <2>3. CASE ~Live(r)
    <3>1. UNCHANGED <<table, told>>
      BY <1>1, <2>3 DEF HandleEnd
    <3> QED
      BY <2>1, <3>1, QuietStep DEF table, Asking
  <2> QED
    BY <2>2, <2>3
<1>2. CASE HandleReq
  <2>1. PICK r \in Requests : r = Event.request
    BY <1>2, HeadOfQueue DEF HandleReq, Sound, Typed
  <2>2. /\ NoNewCall /\ Event.slot \in Masters /\ Event.kind = "req"
        /\ UNCHANGED <<asker, cascade, permit, ended>>
    BY <1>2, NextOfQueue, HeadOfQueue DEF HandleReq, Sound, Typed, engine
  <2>3. RequestSound(r)
    BY DEF Sound
  <2>4. Queued(r) /\ ~Queued(r)'
    <3>1. queue # <<>> /\ queue' = Tail(queue) /\ CalledOnce(r)
      BY <1>2, <2>3 DEF HandleReq, RequestSound
    <3> QED
      BY <2>1, <2>2, <3>1, NextOfQueue DEF Sound
  <2>5. CASE Candidates(r) = {}
    <3>1. UNCHANGED <<entry, children>>
      BY <1>2, <2>1, <2>5 DEF HandleReq
    <3>2. \A q \in Requests : IF q = r THEN told'[q] <= told[q] + 1 ELSE told'[q] = told[q]
      BY <1>2, <2>1, <2>5 DEF HandleReq, Tell, Sound, Typed, TableTypes
    <3> QED
      BY <2>2, <2>4, <3>1, <3>2, AnswerStep
  <2>6. CASE Candidates(r) # {}
    <3>1. Register(r, Best(r), Event.slot) /\ UNCHANGED told
      BY <1>2, <2>1, <2>6 DEF HandleReq
    <3>2. children' = IF Live(Parent[r])
                      THEN [children EXCEPT ![Parent[r]] = @ \cup {r}] ELSE children
      BY <1>2, <2>1, <2>6 DEF HandleReq
    <3>3. /\ Live(Parent[r]) => r \in children'[Parent[r]]
          /\ \A q \in Requests : children[q] \subseteq children'[q]
      BY <2>1, <3>2, RequestsTyped DEF Sound, Typed, TableTypes
    <3>4. Pending(r) /\ ~Pending(r)'
      BY <2>2, <2>3, <2>4 DEF RequestSound, AskedOnce, Pending, Asking
    <3> QED
      BY <2>2, <2>6, <3>1, <3>3, <3>4, RegisterStep
  <2> QED
    BY <2>5, <2>6
<1>3. CASE HandleDeath
  <2> DEFINE dead == RoutedTo(Event.slot)
  <2>1. NoNewCall /\ UNCHANGED <<asker, cascade>>
    BY <1>3, NextOfQueue DEF HandleDeath, Sound, engine
  <2>2. CASE healthy[Event.slot]
    <3>1. Terminate(dead, "died")
      BY <1>3, <2>2 DEF HandleDeath
    <3>2. dead \in SUBSET Requests /\ \A q \in dead : Live(q)
      BY DEF RoutedTo
    <3>3. \A q \in Requests : IF q \in dead THEN told'[q] <= told[q] + 1 ELSE told'[q] = told[q]
      BY <1>3, <2>2 DEF HandleDeath, Sound, Typed, TableTypes
    <3> QED
      BY <2>1, <3>1, <3>2, <3>3, EndStep
  <2>3. CASE ~healthy[Event.slot]
    <3>1. UNCHANGED <<table, told>>
      BY <1>3, <2>3 DEF HandleDeath
    <3> QED
      BY <2>1, <3>1, QuietStep DEF table, Asking
  <2> QED
    BY <2>2, <2>3
<1> QED
  BY <1>1, <1>2, <1>3 DEF Pump

LEMMA EngineStep ==
  ASSUME Sound, NEW r \in Requests, Engine(r), TableTypes'
  PROVE  \A q \in Requests : RequestSound(q)'
<1>1. CASE Resolve(r) \/ Expire(r)
  <2>1. UNCHANGED <<queue, entry, children, ended, told, permit, cascade>>
    BY <1>1 DEF Resolve, Expire, table
  <2>2. asker[r] \in {"new", "waiting"} /\ \A q \in Requests : q # r => asker'[q] = asker[q]
    BY <1>1 DEF Resolve, Expire, Sound, Typed, TableTypes
  <2> QED
    BY <2>1, <2>2, SameQueue, QuietStep DEF Asking
<1>2. CASE Dispatch(r) /\ Candidates(r) # {}
  <2>1. /\ Register(r, Best(r), None) /\ asker[r] = "admitted"
        /\ UNCHANGED <<permit, ended, told, cascade, children, queue>>
    BY <1>2 DEF Dispatch
  <2>2. /\ asker'[r] \in {"sent", "failed"}
        /\ \A q \in Requests \ {r} : asker'[q] = asker[q]
    BY <1>2 DEF Dispatch, Sound, Typed, TableTypes
  <2>3. RequestSound(r)
    BY DEF Sound
  <2>4. NoNewCall
    BY <2>1, SameQueue
  <2>5. Pending(r) /\ ~Queued(r) /\ ~Live(r)
    BY <2>1, <2>3 DEF RequestSound, AskedOnce, Pending, Asking
  <2>6. ~Pending(r)'
    BY <2>2, <2>4, <2>5 DEF NoNewCall, Pending, Asking
  <2>7. ~Live(Parent[r])
    <3>1. Parent[r] = r
      BY <2>1 DEF Sound, OwnDispatch, FromEngine
    <3> QED
      BY <2>5, <3>1
  <2> QED
    BY <1>2, <2>1, <2>2, <2>4, <2>5, <2>6, <2>7, RegisterStep
<1> QED
  BY <1>1, <1>2, PermitStep DEF Engine

LEMMA OtherStep ==
  ASSUME Sound, [Next]_vars, TableTypes'
  PROVE  \A q \in Requests : RequestSound(q)'
<1>1. CASE /\ UNCHANGED <<entry, children, ended, told, permit, asker>> /\ NoNewCall
           /\ \A r \in Requests : r \in cascade => r \in cascade'
  BY <1>1, QuietStep DEF Asking
<1>2. ASSUME NEW r \in Requests, Cancel(r)
      PROVE  \A q \in Requests : RequestSound(q)'
  BY <1>1, <1>2, SameQueue DEF Cancel, table, engine
<1>3. ASSUME NEW r \in Requests, CancelNext(r)
      PROVE  \A q \in Requests : RequestSound(q)'
  <2>1. NoNewCall /\ UNCHANGED <<asker, told>>
    BY <1>3, SameQueue DEF CancelNext, engine
  <2>2. CASE Live(r)
    <3>1. Terminate({r}, "cancelled") /\ cascade' = (cascade \ {r}) \cup children[r]
      BY <1>3, <2>2 DEF CancelNext
    <3>2. \A q \in Requests : IF q \in {r} THEN told'[q] <= told[q] + 1 ELSE told'[q] = told[q]
      BY <2>1 DEF Sound, Typed, TableTypes
    <3> QED
      BY <2>1, <2>2, <3>1, <3>2, EndStep
  <2>3. CASE ~Live(r)
    <3>1. UNCHANGED table /\ cascade' = cascade \ {r}
      BY <1>3, <2>3 DEF CancelNext
    <3> QED
      BY <2>1, <2>3, <3>1, QuietStep DEF table, Asking
  <2> QED
    BY <2>2, <2>3
<1>4. ASSUME NEW c \in Conns, NEW r \in Requests, Respond(c, r)
      PROVE  \A q \in Requests : RequestSound(q)'
  <2>1. End(c[1], r) \in Frames /\ End(c[1], r).kind # "req"
    BY DEF End, Frames, Conns
  <2>2. NoNewCall
    BY <1>4, <2>1, MoreInQueue DEF Respond, Sound
  <2> QED
    BY <1>1, <1>4, <2>2 DEF Respond, table, engine
<1>5. ASSUME NEW c \in Conns, ReadEof(c)
      PROVE  \A q \in Requests : RequestSound(q)'
  <2>1. Eof(c[1]) \in Notices /\ Eof(c[1]).kind # "req"
    BY DEF Eof, Notices, Conns
  <2>2. NoNewCall
    BY <1>5, <2>1, MoreInQueue DEF ReadEof, Sound
  <2> QED
    BY <1>1, <1>5, <2>2 DEF ReadEof, table, engine
<1>6. ASSUME NEW c \in Conns, ReaderExit(c) \/ Close(c)
      PROVE  \A q \in Requests : RequestSound(q)'
  BY <1>1, <1>6, SameQueue DEF ReaderExit, Close, table, engine
<1>7. ASSUME NEW c \in Conns, NEW some \in BOOLEAN, Notify(c, some)
      PROVE  \A q \in Requests : RequestSound(q)'
  BY <1>1, <1>7, SameQueue DEF Notify, table, engine
<1>8. ASSUME NEW m \in Masters, NEW some \in BOOLEAN, NEW echoes \in BOOLEAN,
             Attach(m, some, echoes)
      PROVE  \A q \in Requests : RequestSound(q)'
  BY <1>1, <1>8, SameQueue DEF Attach, table, engine
<1>9. CASE Driver
  BY <1>1, <1>9, SameQueue DEF Driver, StartProbe, Echo, ProbeFails, FinishProbe, table, engine
<1>10. CASE UNCHANGED vars
  BY <1>1, <1>10, SameQueue DEF vars, table, engine
<1> QED
  BY <1>2, <1>3, <1>4, <1>5, <1>6, <1>7, <1>8, <1>9, <1>10, PumpStep, EngineStep, CallStep
  DEF Next, Read

LEMMA SoundStep == Sound /\ [Next]_vars => Sound'
BY TypedStep, OwnDispatchStep, OtherStep DEF Sound, Typed

\* Between the first step and the last, whatever the pump, cancels and dispatches do.
LEMMA AlwaysSound == Spec => []Sound
BY InitSound, SoundStep, PTL DEF Spec

\* L6: whoever asked for a request sees at most one terminal of it: the first to
\* find its entry takes it away, and an entry is made once.
THEOREM NoSecondTerminal == Spec => []OneTerminal
<1>1. Sound => OneTerminal
  BY DEF Sound, RequestSound, ToldOnce, OneTerminal
<1> QED
  BY <1>1, AlwaysSound, PTL

\* L7: a permit taken is that of a dispatch about to register or of a live
\* request, so that something is left that will release it.
THEOREM PermitsHaveOwners == Spec => []PermitOwned
<1>1. Sound => PermitOwned
  BY DEF Sound, RequestSound, Owned, PermitOwned
<1> QED
  BY <1>1, AlwaysSound, PTL

\* L17: a child linked under a cancelled request is ended or will be visited,
\* also where it was linked between two holds of the cascade.
THEOREM CancelReachesChildren == Spec => []CascadeComplete
<1>1. Sound => CascadeComplete
  BY DEF Sound, RequestSound, Visited, CascadeComplete
<1> QED
  BY <1>1, AlwaysSound, PTL

-----------------------------------------------------------------------------
(* The request table by itself (RequestTable), whose two indexes are kept   *)
(* together and which is the formal program's table, for any requests and  *)
(* any ring.                                                               *)

CONSTANTS Xids, Rids, RecentCapacity, MaxRegistered
VARIABLES entries, ridIndex, recentTerminated, totalRegistered, totalTerminated

Held == INSTANCE RequestTable

\* The instance counts as this module does.
LEMMA FiniteIsFinite == \A S : Held!IsFiniteSet(S) <=> IsFiniteSet(S)
BY DEF Held!IsFiniteSet, IsFiniteSet

LEMMA CountIsCount == \A S : Held!Cardinality(S) = Cardinality(S)
BY DEF Held!Cardinality, Cardinality

\* Every registered request is in flight or was ended, counted here.
LEMMA EndsCounted ==
  Held!EachEndsOnce <=>
    /\ IsFiniteSet(DOMAIN entries)
    /\ totalRegistered = Cardinality(DOMAIN entries) + totalTerminated
BY FiniteIsFinite, CountIsCount DEF Held!EachEndsOnce

\* The ring keeps at least one request (with_recent_capacity).
Ring == RecentCapacity \in Nat \ {0}

\* Dropping the oldest of a full ring before it takes another leaves what
\* taking it first and keeping the last would.
LEMMA RecordedIsLast ==
  ASSUME Ring, NEW s \in Seq(Rids), Len(s) <= RecentCapacity, NEW rid \in Rids
  PROVE /\ Held!Recorded(s, rid) = Held!Table!LastOf(Append(s, rid), RecentCapacity)
        /\ Held!Recorded(s, rid) \in Seq(Rids)
        /\ Len(Held!Recorded(s, rid)) <= RecentCapacity
<1> DEFINE full == Append(s, rid)
<1>1. /\ full \in Seq(Rids) /\ Len(full) = Len(s) + 1 /\ Len(s) \in Nat
      /\ RecentCapacity \in Nat /\ RecentCapacity > 0
  BY DEF Ring
<1>2. CASE Len(s) < RecentCapacity
  <2>1. Held!Recorded(s, rid) = full
    BY <1>1, <1>2 DEF Held!Recorded
  <2>2. Held!Table!LastOf(full, RecentCapacity) = full
    BY <1>1, <1>2 DEF Held!Table!LastOf
  <2> QED BY <1>1, <1>2, <2>1, <2>2
<1>3. CASE Len(s) = RecentCapacity
  <2>1. s # <<>>
    BY <1>1, <1>3
  <2>2. /\ Tail(s) \in Seq(Rids) /\ Len(Tail(s)) = Len(s) - 1
        /\ \A i \in 1..Len(s) - 1 : Tail(s)[i] = s[i + 1]
    BY <2>1
  <2>3. Held!Recorded(s, rid) = Append(Tail(s), rid)
    BY <1>1, <1>3 DEF Held!Recorded
  <2>4. Held!Table!LastOf(full, RecentCapacity) = SubSeq(full, 2, Len(s) + 1)
    BY <1>1, <1>3 DEF Held!Table!LastOf
  <2>5. /\ Held!Recorded(s, rid) \in Seq(Rids) /\ Len(Held!Recorded(s, rid)) = Len(s)
        /\ \A i \in 1..Len(s) :
             Held!Recorded(s, rid)[i] = IF i = Len(s) THEN rid ELSE s[i + 1]
    BY <1>1, <1>3, <2>2, <2>3
  <2>6. /\ SubSeq(full, 2, Len(s) + 1) \in Seq(Rids)
        /\ Len(SubSeq(full, 2, Len(s) + 1)) = Len(s)
        /\ \A i \in 1..Len(s) : SubSeq(full, 2, Len(s) + 1)[i] = full[i + 1]
    BY <1>1, <1>3
  <2>7. \A i \in 1..Len(s) : Held!Recorded(s, rid)[i] = SubSeq(full, 2, Len(s) + 1)[i]
    BY <1>1, <2>5, <2>6
  <2>8. Held!Recorded(s, rid) = SubSeq(full, 2, Len(s) + 1)
    BY <2>5, <2>6, <2>7, SeqEqual
  <2> QED BY <1>1, <1>3, <2>4, <2>5, <2>8
<1> QED BY <1>1, <1>2, <1>3

-----------------------------------------------------------------------------

TableInv == Held!TypeOK /\ Held!IndexAgrees /\ Held!EachEndsOnce

\* A request is in the table exactly where the index leads to it.
LEMMA LiveIsIndexed ==
  ASSUME Held!TypeOK, Held!IndexAgrees, NEW key \in Held!Keys
  PROVE key \in DOMAIN entries <=> key[2] \in DOMAIN ridIndex /\ ridIndex[key[2]] = key[1]
BY DEF Held!TypeOK, Held!IndexAgrees, Held!Keys

\* What a Register leaves, and that the index had no such request id at all.
LEMMA RegisterKeeps ==
  ASSUME TableInv, NEW key \in Held!Keys, Held!Register(key)
  PROVE TableInv' /\ key[2] \notin DOMAIN ridIndex
<1> USE DEF TableInv
<1>1. key[2] \notin DOMAIN ridIndex
  BY LiveIsIndexed DEF Held!Register
<1>2. key = <<key[1], key[2]>> /\ key[1] \in Xids /\ key[2] \in Rids
  BY DEF Held!Keys
<1>3. /\ DOMAIN entries' = DOMAIN entries \cup {key}
      /\ DOMAIN ridIndex' = DOMAIN ridIndex \cup {key[2]} /\ ridIndex'[key[2]] = key[1]
      /\ \A rid \in DOMAIN ridIndex : ridIndex'[rid] = ridIndex[rid]
  BY <1>1 DEF Held!Register, Held!Indexed
<1>4. Held!TypeOK'
  BY <1>2, <1>3 DEF Held!TypeOK, Held!Register, Held!Indexed
<1>5. Held!IndexAgrees'
  BY <1>2, <1>3 DEF Held!IndexAgrees
<1>6. Held!EachEndsOnce'
  <2>1. key \notin DOMAIN entries /\ totalRegistered' = totalRegistered + 1
        /\ totalTerminated' = totalTerminated
    BY DEF Held!Register
  <2>2. /\ IsFiniteSet(DOMAIN entries \cup {key})
        /\ Cardinality(DOMAIN entries \cup {key}) = Cardinality(DOMAIN entries) + 1
    BY <2>1, EndsCounted, FS_AddElement
  <2>3. Cardinality(DOMAIN entries) \in Nat
    BY EndsCounted, FS_CardinalityType
  <2> QED BY <1>3, <2>1, <2>2, <2>3, FiniteIsFinite, CountIsCount
           DEF Held!EachEndsOnce, Held!TypeOK
<1> QED BY <1>1, <1>4, <1>5, <1>6

LEMMA TerminateKeeps ==
  ASSUME Ring, TableInv, NEW key \in Held!Keys, Held!Terminate(key)
  PROVE TableInv'
<1> USE DEF TableInv
<1>1. key \in DOMAIN entries /\ key[2] \in DOMAIN ridIndex /\ ridIndex[key[2]] = key[1]
  BY LiveIsIndexed DEF Held!Terminate
<1>2. key = <<key[1], key[2]>> /\ key[1] \in Xids /\ key[2] \in Rids
  BY DEF Held!Keys
<1>3. /\ DOMAIN entries' = DOMAIN entries \ {key}
      /\ DOMAIN ridIndex' = DOMAIN ridIndex \ {key[2]}
      /\ \A rid \in DOMAIN ridIndex' : ridIndex'[rid] = ridIndex[rid]
  BY <1>1 DEF Held!Terminate, Held!Unindexed
<1>4. Held!TypeOK'
  <2>1. recentTerminated' \in Seq(Rids) /\ Len(recentTerminated') <= RecentCapacity
    BY <1>2, RecordedIsLast DEF Held!TypeOK, Held!Terminate
  <2>2. DOMAIN entries' \subseteq Held!Keys /\ entries' \in [DOMAIN entries' -> SUBSET Held!Keys]
    BY <1>3 DEF Held!TypeOK, Held!Terminate
  <2>3. DOMAIN ridIndex' \subseteq Rids /\ ridIndex' \in [DOMAIN ridIndex' -> Xids]
    BY <1>1, <1>3 DEF Held!TypeOK, Held!Terminate, Held!Unindexed
  <2> QED BY <2>1, <2>2, <2>3 DEF Held!TypeOK, Held!Terminate
<1>5. Held!IndexAgrees'
  BY <1>1, <1>2, <1>3 DEF Held!IndexAgrees
<1>6. Held!EachEndsOnce'
  <2>1. /\ IsFiniteSet(DOMAIN entries \ {key})
        /\ Cardinality(DOMAIN entries \ {key}) = Cardinality(DOMAIN entries) - 1
    BY <1>1, EndsCounted, FS_RemoveElement
  <2>2. Cardinality(DOMAIN entries) \in Nat
    BY EndsCounted, FS_CardinalityType
  <2> QED BY <1>3, <2>1, <2>2, FiniteIsFinite, CountIsCount
           DEF Held!EachEndsOnce, Held!TypeOK, Held!Terminate
<1> QED BY <1>4, <1>5, <1>6

LEMMA LinkKeeps ==
  ASSUME TableInv, NEW parent \in Held!Keys, NEW child \in Held!Keys, Held!LinkChild(parent, child)
  PROVE TableInv' /\ DOMAIN entries' = DOMAIN entries
<1>1. DOMAIN entries' = DOMAIN entries
  BY DEF Held!LinkChild
<1>2. Held!TypeOK'
  BY <1>1 DEF TableInv, Held!TypeOK, Held!LinkChild
<1>3. Held!IndexAgrees' /\ Held!EachEndsOnce'
  BY <1>1 DEF TableInv, Held!IndexAgrees, Held!EachEndsOnce, Held!LinkChild
<1> QED BY <1>1, <1>2, <1>3 DEF TableInv

\* The strengthened invariant of the table: neither of its parts is kept alone,
\* for register looks at both indexes and writes them apart.
LEMMA TableInvariant ==
  ASSUME Ring
  PROVE Held!Spec => []TableInv
<1>1. Held!Init => TableInv
  <2>1. IsFiniteSet({}) /\ Cardinality({}) = 0
    BY FS_EmptySet
  <2> QED BY <2>1, FiniteIsFinite, CountIsCount
           DEF Ring, Held!Init, TableInv, Held!TypeOK, Held!IndexAgrees, Held!EachEndsOnce
<1>2. TableInv /\ [Held!Next]_(Held!vars) => TableInv'
  <2> SUFFICES ASSUME TableInv, [Held!Next]_(Held!vars) PROVE TableInv'
    OBVIOUS
  <2>1. ASSUME NEW key \in Held!Keys, Held!Register(key) PROVE TableInv'
    BY <2>1, RegisterKeeps
  <2>2. ASSUME NEW key \in Held!Keys, Held!Terminate(key) PROVE TableInv'
    BY <2>2, TerminateKeeps
  <2>3. ASSUME NEW key \in Held!Keys, NEW child \in Held!Keys, Held!LinkChild(key, child)
        PROVE TableInv'
    BY <2>3, LinkKeeps
  <2>4. CASE UNCHANGED Held!vars
    BY <2>4 DEF Held!vars, TableInv, Held!TypeOK, Held!IndexAgrees, Held!EachEndsOnce
  <2> QED BY <2>1, <2>2, <2>3, <2>4 DEF Held!Next
<1> QED BY <1>1, <1>2, PTL DEF Held!Spec

-----------------------------------------------------------------------------
(* The theorems.                                                           *)

\* Under any sequence of registrations, ends and links, the index from request
\* ids and the entries name the same requests.
THEOREM IndexKept ==
  ASSUME Ring
  PROVE Held!Spec => []Held!IndexAgrees
<1>1. TableInv => Held!IndexAgrees
  BY DEF TableInv
<1> QED BY <1>1, TableInvariant, PTL

\* Every request that was ever registered is in flight or has ended, once.
THEOREM EndedOnce ==
  ASSUME Ring
  PROVE Held!Spec => []Held!EachEndsOnce
<1>1. TableInv => Held!EachEndsOnce
  BY DEF TableInv
<1> QED BY <1>1, TableInvariant, PTL

\* A frame without a request is told from a straggler, and both from a frame of
\* a live request, as the formal table tells them.
THEOREM Disposed ==
  ASSUME Ring
  PROVE Held!Spec => []Held!DispositionAgrees
<1>1. TableInv => Held!DispositionAgrees
  <2> SUFFICES ASSUME TableInv, NEW rid \in Rids
               PROVE Held!Disposition(rid) = Held!Table!Disposition(rid)
    BY DEF Held!DispositionAgrees
  <2>1. ASSUME rid \in DOMAIN ridIndex PROVE \E xid \in Xids : <<xid, rid>> \in DOMAIN entries
    <3>1. ridIndex[rid] \in Xids /\ <<ridIndex[rid], rid>> \in DOMAIN entries
      BY <2>1 DEF TableInv, Held!TypeOK, Held!IndexAgrees
    <3> QED BY <3>1
  <2>2. ASSUME NEW xid \in Xids, <<xid, rid>> \in DOMAIN entries PROVE rid \in DOMAIN ridIndex
    BY <2>2 DEF TableInv, Held!IndexAgrees
  <2>3. Held!XidForRid(rid) <=> Held!Table!Known(rid)
    BY <2>1, <2>2 DEF Held!XidForRid, Held!Table!Known
  <2> QED BY <2>3 DEF Held!Disposition, Held!Table!Disposition, Held!Table!Dispose, Held!RecentlyTerminatedRid,
                      Held!Table!EndedLately
<1> QED BY <1>1, TableInvariant, PTL

\* The table with its two indexes and its ring is the formal program's table.
THEOREM TableImplemented ==
  ASSUME Ring
  PROVE Held!Spec => Held!ImplementsTable
<1>1. Held!Init => Held!Table!Init
  BY DEF Held!Init, Held!Table!Init
<1>2. TableInv /\ [Held!Next]_(Held!vars) => [Held!Table!Next]_(Held!Table!vars)
  <2> SUFFICES ASSUME TableInv, [Held!Next]_(Held!vars) PROVE [Held!Table!Next]_(Held!Table!vars)
    OBVIOUS
  <2>0. Held!Table!Keys = Held!Keys
    BY DEF Held!Table!Keys, Held!Keys
  <2>1. ASSUME NEW key \in Held!Keys, Held!Register(key) PROVE Held!Table!Register(key)
    <3>1. key[2] \notin DOMAIN ridIndex
      BY <2>1, RegisterKeeps
    <3>2. ~Held!Table!Known(key[2])
      BY <3>1 DEF TableInv, Held!IndexAgrees, Held!Table!Known
    <3>3. DOMAIN entries' = DOMAIN entries \cup {key}
      BY <2>1 DEF Held!Register
    <3> QED BY <2>1, <3>2, <3>3 DEF Held!Register, Held!Table!Register
  <2>2. ASSUME NEW key \in Held!Keys, Held!Terminate(key) PROVE Held!Table!Terminate(key)
    <3>1. DOMAIN entries' = DOMAIN entries \ {key} /\ key[2] \in Rids
      BY <2>2 DEF Held!Terminate, Held!Keys
    <3>2. recentTerminated' = Held!Table!LastOf(Append(recentTerminated, key[2]), RecentCapacity)
      BY <2>2, <3>1, RecordedIsLast DEF Held!Terminate, TableInv, Held!TypeOK
    <3> QED BY <2>2, <3>1, <3>2 DEF Held!Terminate, Held!Table!Terminate
  <2>3. ASSUME NEW key \in Held!Keys, NEW child \in Held!Keys, Held!LinkChild(key, child)
        PROVE UNCHANGED Held!Table!vars
    BY <2>3, LinkKeeps DEF Held!LinkChild, Held!Table!vars
  <2>4. CASE UNCHANGED Held!vars
    BY <2>4 DEF Held!vars, Held!Table!vars
  <2> QED BY <2>0, <2>1, <2>2, <2>3, <2>4 DEF Held!Next, Held!Table!Next
<1> QED BY <1>1, <1>2, TableInvariant, PTL DEF Held!Spec, Held!ImplementsTable, Held!Table!Spec
=============================================================================
